--------------------------- MODULE PortList_proofs ---------------------------
(***************************************************************************)
(* Theorems about PortList, for every set of port names, every way names   *)
(* may begin alike and every room there may be in the array: what a        *)
(* refresh lists while drivers come and go under it.                       *)
(***************************************************************************)
EXTENDS PortList, ListFacts, FiniteSetTheorems

Values == Names \cup {NotString}

-----------------------------------------------------------------------------
(* Types *)

\* The combo box is empty from the start of a refresh to its end.
EmptiedFirst == listing => items = <<>>

TypeInv == ListTypeOK /\ EmptiedFirst

\* The selection SelectString makes is the first item whose name begins with
\* the text, and there is none only if no item is one.
LEMMA SelectStringFinds ==
  ASSUME NEW list \in Seq(Names), NEW text
  PROVE  LET found == SelectString(list, text)
         IN  \/ /\ found = NoPort
                /\ \A i \in DOMAIN list : <<list[i], text>> \notin Begins
             \/ \E k \in DOMAIN list :
                  /\ found = list[k] /\ <<list[k], text>> \in Begins
                  /\ \A i \in DOMAIN list :
                       <<list[i], text>> \in Begins => k <= i
<1> DEFINE hits == {i \in DOMAIN list : <<list[i], text>> \in Begins}
<1>1. CASE hits = {}
  BY <1>1 DEF SelectString, ToSet
<1>2. CASE hits # {}
  <2>1. hits \in SUBSET Nat
    BY LenProperties
  <2>2. Min(hits) \in hits /\ \A i \in hits : Min(hits) <= i
    BY <1>2, <2>1, MinOfSet
  <2>3. SelectString(list, text) = list[Min(hits)]
    BY <1>2 DEF SelectString
  <2> HIDE DEF hits
  <2>4. /\ Min(hits) \in DOMAIN list /\ <<list[Min(hits)], text>> \in Begins
        /\ \A i \in DOMAIN list : <<list[i], text>> \in Begins => Min(hits) <= i
    BY <2>2 DEF hits
  <2> QED
    BY <2>3, <2>4
<1> QED
  BY <1>1, <1>2

\* At the end of a refresh the combo box has the names that were read.
LEMMA FilledIsNames ==
  ASSUME TypeInv, listing
  PROVE  Filled = names
BY ConcatEmptySeq DEF TypeInv, ListTypeOK, EmptiedFirst, Filled

\* One value of the registry, and what is kept of it.
LEMMA EnumValueKeeps ==
  ASSUME TypeInv, EnumValue
  PROVE  /\ index + 1 \in 1 .. Len(registry) /\ Value \in Values
         /\ index' = index + 1
         /\ count' = IF Value \in Names THEN count + 1 ELSE count
         /\ names' = IF Value \in Names /\ count < MaxPorts
                       THEN Append(names, Value) ELSE names
         /\ Len(names) = IF count <= MaxPorts THEN count ELSE MaxPorts
         /\ names' \in Seq(Names)
<1>1. index + 1 \in 1 .. Len(registry)
  BY DEF TypeInv, ListTypeOK, EnumValue, More
<1>2. Value \in Values
  BY <1>1, ElementOfSeq DEF TypeInv, ListTypeOK, Value, Values
<1>3. Len(names) = IF count <= MaxPorts THEN count ELSE MaxPorts
  BY PortListAssumption, MinOfTwo DEF TypeInv, ListTypeOK
<1>4. /\ index' = index + 1
      /\ count' = IF Value \in Names THEN count + 1 ELSE count
      /\ names' = IF Value \in Names /\ count < MaxPorts
                    THEN Append(names, Value) ELSE names
  BY DEF EnumValue
<1>5. names' \in Seq(Names)
  BY <1>4, AppendFacts DEF TypeInv, ListTypeOK
<1> QED
  BY <1>1, <1>2, <1>3, <1>4, <1>5, Zenon

LEMMA InitTypeInv == Init => TypeInv
<1> SUFFICES ASSUME Init PROVE TypeInv
  OBVIOUS
<1>1. Len(names) = Min({count, MaxPorts})
  <2>1. Min({0, MaxPorts}) = 0
    BY PortListAssumption, MinOfTwo
  <2> QED
    BY <2>1 DEF Init
<1>2. /\ registry \in Seq(Names \cup {NotString}) /\ names \in Seq(Names)
      /\ items \in Seq(Names) /\ Len(items) = 0 /\ Len(registry) = 0
  BY EmptySeq DEF Init
<1>3. /\ index \in Nat /\ count \in Nat
      /\ Len(registry) <= MaxValues /\ Len(items) <= MaxPorts
      /\ current \in Names \cup {NoPort} /\ selected = NoPort
      /\ steady \subseteq Names /\ ~listing
  BY <1>2, PortListAssumption DEF Init
<1>4. {listing, added, removed} \subseteq BOOLEAN
  BY Zenon DEF Init
<1> QED
  BY <1>1, <1>2, <1>3, <1>4, Zenon DEF TypeInv, ListTypeOK, EmptiedFirst

LEMMA NextTypeInv == TypeInv /\ [Next]_vars => TypeInv'
<1> SUFFICES ASSUME TypeInv, [Next]_vars PROVE TypeInv'
  OBVIOUS
<1> USE PortListAssumption DEF TypeInv, EmptiedFirst
<1>1. CASE Plug
  <2>1. PICK value \in Values, at \in 1 .. Len(registry) + 1 :
          Len(registry) < MaxValues /\ registry' = InsertAt(registry, at, value)
    BY <1>1 DEF Plug, Values
  <2>2. registry' \in Seq(Values) /\ Len(registry') <= MaxValues
    BY <2>1, InsertFacts DEF ListTypeOK, Values
  <2>3. /\ UNCHANGED <<listing, index, count, names, current, items, selected,
                      steady, removed>>
        /\ added' \in BOOLEAN
    BY <1>1 DEF Plug, local, combo, ListTypeOK
  <2> QED
    BY <2>2, <2>3 DEF ListTypeOK, Values
<1>2. CASE Unplug
  <2>1. PICK at \in 1 .. Len(registry) : registry' = RemoveAt(registry, at)
    BY <1>2 DEF Unplug, ListTypeOK
  <2>2. registry' \in Seq(Values) /\ Len(registry') <= MaxValues
    BY <2>1, RemoveFacts, LenProperties DEF ListTypeOK, Values
  <2>3. /\ UNCHANGED <<listing, index, count, names, current, items, selected,
                      added>>
        /\ removed' \in BOOLEAN /\ steady' \subseteq Names
    BY <1>2 DEF Unplug, local, combo, ListTypeOK
  <2> QED
    BY <2>2, <2>3 DEF ListTypeOK, Values
<1>3. CASE Select
  BY <1>3 DEF Select, local, history, ListTypeOK
<1>4. CASE StartRefresh
  <2>1. current' \in Names \cup {NoPort}
    BY <1>4 DEF StartRefresh, ListTypeOK, ToSet
  <2>2. names' \in Seq(Names) /\ Len(names') = Min({count', MaxPorts})
    BY <1>4, MinOfTwo DEF StartRefresh
  <2>3. /\ registry' = registry /\ listing' = TRUE /\ index' = 0 /\ count' = 0
        /\ items' = <<>> /\ selected' = NoPort
        /\ steady' \subseteq Names /\ added' = FALSE /\ removed' = FALSE
    BY <1>4 DEF StartRefresh, Ports
  <2>4. items' \in Seq(Names) /\ Len(items') <= MaxPorts
    BY <2>3
  <2>5. {listing', added', removed'} \subseteq BOOLEAN
    BY <2>3, Zenon
  <2>6. index' \in Nat /\ count' \in Nat
    BY <2>3
  <2>7. ListTypeOK'
    BY <2>1, <2>2, <2>3, <2>4, <2>5, <2>6, Zenon DEF ListTypeOK
  <2> QED
    BY <2>3, <2>7
<1>5. CASE EnumValue
  <2>1. Len(names') = Min({count', MaxPorts})
    <3>1. /\ count' = IF Value \in Names THEN count + 1 ELSE count
          /\ names' = IF Value \in Names /\ count < MaxPorts
                        THEN Append(names, Value) ELSE names
          /\ Len(names) = IF count <= MaxPorts THEN count ELSE MaxPorts
      BY <1>5, EnumValueKeeps
    <3>2. count \in Nat /\ count' \in Nat
      BY <3>1 DEF ListTypeOK
    <3>3. Min({count', MaxPorts}) = IF count' <= MaxPorts THEN count' ELSE MaxPorts
      BY <3>2, MinOfTwo
    <3>4. Value \in Names => Len(Append(names, Value)) = Len(names) + 1
      BY AppendFacts DEF ListTypeOK
    <3> QED
      BY <3>1, <3>2, <3>3, <3>4
  <2>2. index' \in Nat /\ count' \in Nat /\ names' \in Seq(Names)
    BY <1>5, EnumValueKeeps DEF ListTypeOK
  <2>3. UNCHANGED <<registry, listing, current, items, selected, steady, added,
                    removed>>
    BY <1>5 DEF EnumValue, combo, history
  <2>4. ListTypeOK'
    BY <2>1, <2>2, <2>3 DEF ListTypeOK, ToSet
  <2>5. EmptiedFirst'
    BY <2>3
  <2> QED
    BY <2>4, <2>5
<1>6. CASE EndRefresh
  <2>1. items' = names
    BY <1>6, FilledIsNames DEF EndRefresh
  <2>2. Len(names) <= MaxPorts
    BY MinOfTwo DEF ListTypeOK
  <2>3. selected' = NoPort \/ selected' \in ToSet(items')
    <3>1. items' \in Seq(Names)
      BY <2>1 DEF ListTypeOK
    <3>2. selected' \in {NoPort, SelectString(items', current)}
      BY <1>6 DEF EndRefresh
    <3>3. \/ SelectString(items', current) = NoPort
          \/ \E k \in DOMAIN items' : SelectString(items', current) = items'[k]
      BY <3>1, SelectStringFinds
    <3> QED
      BY <3>2, <3>3 DEF ToSet
  <2>4. /\ UNCHANGED <<registry, index, count, names, current, steady, added,
                       removed>>
        /\ listing' = FALSE
    BY <1>6 DEF EndRefresh, history
  <2> QED
    BY <2>1, <2>2, <2>3, <2>4 DEF ListTypeOK
<1>7. CASE UNCHANGED vars
  BY <1>7 DEF vars, local, combo, history, ListTypeOK
<1> QED
  BY <1>1, <1>2, <1>3, <1>4, <1>5, <1>6, <1>7 DEF Next, Refresh

LEMMA TypeInvariance == Spec => []TypeInv
BY InitTypeInv, NextTypeInv, PTL DEF Spec

\* The combo box never has more items than there is room for, each of them a
\* name that was read, and its selection is one of them: however many ports
\* there are, the array of refresh_port_list is not left.
THEOREM ListTypeCorrect == Spec => []ListTypeOK
BY TypeInvariance, PTL DEF TypeInv

-----------------------------------------------------------------------------
(* What was read and what is still to be read *)

\* A port has one value in the registry, as drivers have it.
OneValueEach ==
  \A i, j \in DOMAIN registry :
    registry[i] \in Names /\ registry[i] = registry[j] => i = j

\* Until a value came, what was read is behind the index and was read once.
ReadOnce ==
  listing /\ ~added =>
    /\ \A j, k \in DOMAIN names : names[j] = names[k] => j = k
    /\ \A k \in DOMAIN names, i \in DOMAIN registry :
         index < i => names[k] # registry[i]

ListedOnce ==
  ~listing /\ ~added => \A j, k \in DOMAIN items : items[j] = items[k] => j = k

\* Until a value went, a port that was there from the start was read or is
\* still ahead of the index.
ReadOrAhead ==
  listing /\ ~removed /\ count <= MaxPorts =>
    \A p \in steady :
      \/ p \in ToSet(names)
      \/ \E i \in DOMAIN registry : index < i /\ registry[i] = p

\* Until the registry changed, the ports up to the index were counted, and
\* each is where its number says.
ExactSoFar ==
  listing /\ ~added /\ ~removed =>
    /\ index <= Len(registry)
    /\ count = PortsUpTo(index)
    /\ \A i \in 1 .. index :
         registry[i] \in Names /\ PortsUpTo(i) <= MaxPorts =>
           names[PortsUpTo(i)] = registry[i]

ListInv ==
  /\ TypeInv
  /\ OneValueEach /\ ReadOnce /\ ListedOnce
  /\ ReadOrAhead /\ SteadyPortsAreListed
  /\ ExactSoFar

\* What the drivers do to the registry, value by value.
LEMMA PlugMoves ==
  ASSUME TypeInv, Plug
  PROVE  \E value \in Values, at \in 1 .. Len(registry) + 1 :
           /\ value \in Names => \A i \in 1 .. Len(registry) : registry[i] # value
           /\ Len(registry') = Len(registry) + 1
           /\ DOMAIN registry' = 1 .. Len(registry) + 1
           /\ \A i \in 1 .. Len(registry) + 1 :
                registry'[i] = IF i < at THEN registry[i]
                               ELSE IF i = at THEN value ELSE registry[i - 1]
<1>1. PICK value \in (Names \ Ports(registry)) \cup {NotString},
           at \in 1 .. Len(registry) + 1 : registry' = InsertAt(registry, at, value)
  BY DEF Plug
<1>2. registry \in Seq(Values) /\ value \in Values
  BY DEF TypeInv, ListTypeOK, Values
<1>3. value \in Names => \A i \in 1 .. Len(registry) : registry[i] # value
  BY <1>2, PortListAssumption, LenProperties DEF Ports, ToSet
<1>4. /\ registry' \in Seq(Values) /\ Len(registry') = Len(registry) + 1
      /\ \A i \in 1 .. Len(registry) + 1 :
           registry'[i] = IF i < at THEN registry[i]
                          ELSE IF i = at THEN value ELSE registry[i - 1]
  <2> DEFINE r == InsertAt(registry, at, value)
  <2>1. /\ r \in Seq(Values) /\ Len(r) = Len(registry) + 1
        /\ \A i \in 1 .. Len(registry) + 1 :
             r[i] = IF i < at THEN registry[i]
                    ELSE IF i = at THEN value ELSE registry[i - 1]
    <3>1. ASSUME NEW s \in Seq(Values), NEW v \in Values, NEW k \in 1 .. Len(s) + 1
          PROVE  /\ InsertAt(s, k, v) \in Seq(Values)
                 /\ Len(InsertAt(s, k, v)) = Len(s) + 1
                 /\ \A i \in 1 .. Len(s) + 1 :
                      InsertAt(s, k, v)[i] = IF i < k THEN s[i]
                                             ELSE IF i = k THEN v ELSE s[i - 1]
      BY InsertFacts
    <3> QED
      BY <1>2, <3>1, Zenon
  <2>2. registry' = r
    BY <1>1
  <2> HIDE DEF r
  <2> QED
    BY <2>1, <2>2
<1>5. DOMAIN registry' = 1 .. Len(registry) + 1
  BY <1>4, LenProperties
<1> QED
  BY <1>2, <1>3, <1>4, <1>5, Zenon

LEMMA UnplugMoves ==
  ASSUME TypeInv, Unplug
  PROVE  \E at \in 1 .. Len(registry) :
           /\ Len(registry') = Len(registry) - 1
           /\ DOMAIN registry' = 1 .. Len(registry) - 1
           /\ \A i \in 1 .. Len(registry) - 1 :
                registry'[i] = IF i < at THEN registry[i] ELSE registry[i + 1]
<1>1. registry \in Seq(Values)
  BY DEF TypeInv, ListTypeOK, Values
<1>2. PICK at \in 1 .. Len(registry) : registry' = RemoveAt(registry, at)
  BY <1>1, LenProperties DEF Unplug
<1>3. /\ registry' \in Seq(Values) /\ Len(registry') = Len(registry) - 1
      /\ \A i \in 1 .. Len(registry) - 1 :
           registry'[i] = IF i < at THEN registry[i] ELSE registry[i + 1]
  BY <1>1, <1>2, RemoveFacts
<1> QED
  BY <1>3, LenProperties

\* The domains of the three lists.
LEMMA Domains ==
  ASSUME TypeInv
  PROVE  /\ DOMAIN registry = 1 .. Len(registry) /\ Len(registry) \in Nat
         /\ DOMAIN names = 1 .. Len(names) /\ Len(names) \in Nat
         /\ DOMAIN items = 1 .. Len(items) /\ Len(items) \in Nat
         /\ index \in Nat /\ count \in Nat
BY LenProperties DEF TypeInv, ListTypeOK

LEMMA OneValueEachStep ==
  ASSUME TypeInv, OneValueEach, [Next]_vars
  PROVE  OneValueEach'
<1>1. CASE Plug
  <2>1. PICK value \in Values, at \in 1 .. Len(registry) + 1 :
           /\ value \in Names => \A i \in 1 .. Len(registry) : registry[i] # value
           /\ Len(registry') = Len(registry) + 1
           /\ DOMAIN registry' = 1 .. Len(registry) + 1
           /\ \A i \in 1 .. Len(registry) + 1 :
                registry'[i] = IF i < at THEN registry[i]
                               ELSE IF i = at THEN value ELSE registry[i - 1]
    BY <1>1, PlugMoves
  <2>2. \A i, j \in 1 .. Len(registry) :
          registry[i] \in Names /\ registry[i] = registry[j] => i = j
    BY Domains DEF OneValueEach
  <2>3. ASSUME NEW i \in 1 .. Len(registry) + 1, NEW j \in 1 .. Len(registry) + 1,
               registry'[i] \in Names, registry'[i] = registry'[j]
        PROVE  i = j
    <3> DEFINE back(k) == IF k < at THEN k ELSE k - 1
    <3>1. CASE i = at
      <4>1. ASSUME j # at PROVE FALSE
        <5>1. back(j) \in 1 .. Len(registry) /\ registry'[j] = registry[back(j)]
          BY <2>1, <4>1, Domains
        <5> QED
          BY <2>1, <2>3, <3>1, <5>1
      <4> QED
        BY <3>1, <4>1
    <3>2. CASE j = at
      <4>1. ASSUME i # at PROVE FALSE
        <5>1. back(i) \in 1 .. Len(registry) /\ registry'[i] = registry[back(i)]
          BY <2>1, <4>1, Domains
        <5> QED
          BY <2>1, <2>3, <3>2, <5>1
      <4> QED
        BY <3>2, <4>1
    <3>3. CASE i # at /\ j # at
      <4>1. back(i) \in 1 .. Len(registry) /\ registry'[i] = registry[back(i)]
        BY <2>1, <3>3, Domains
      <4>2. back(j) \in 1 .. Len(registry) /\ registry'[j] = registry[back(j)]
        BY <2>1, <3>3, Domains
      <4>3. back(i) = back(j)
        BY <2>2, <2>3, <4>1, <4>2
      <4> QED
        BY <3>3, <4>3
    <3> QED
      BY <3>1, <3>2, <3>3
  <2> QED
    BY <2>1, <2>3 DEF OneValueEach
<1>2. CASE Unplug
  <2>1. PICK at \in 1 .. Len(registry) :
           /\ Len(registry') = Len(registry) - 1
           /\ DOMAIN registry' = 1 .. Len(registry) - 1
           /\ \A i \in 1 .. Len(registry) - 1 :
                registry'[i] = IF i < at THEN registry[i] ELSE registry[i + 1]
    BY <1>2, UnplugMoves
  <2> DEFINE back(k) == IF k < at THEN k ELSE k + 1
  <2>2. ASSUME NEW i \in 1 .. Len(registry) - 1
        PROVE  back(i) \in 1 .. Len(registry) /\ registry'[i] = registry[back(i)]
    BY <2>1, Domains
  <2>3. ASSUME NEW i \in 1 .. Len(registry) - 1, NEW j \in 1 .. Len(registry) - 1,
               registry'[i] \in Names, registry'[i] = registry'[j]
        PROVE  i = j
    <3>1. back(i) = back(j)
      BY <2>2, <2>3, Domains DEF OneValueEach
    <3> QED
      BY <3>1
  <2> QED
    BY <2>1, <2>3 DEF OneValueEach
<1>3. CASE UNCHANGED registry
  BY <1>3 DEF OneValueEach
<1> QED
  BY <1>1, <1>2, <1>3 DEF Next, Refresh, Select, StartRefresh, EnumValue,
     EndRefresh, vars

\* Neither a driver nor the user touches what the loop has read, and the
\* history is kept as the drivers' actions say.
LEMMA OthersKeep ==
  ASSUME TypeInv
  PROVE  /\ Plug => /\ UNCHANGED <<listing, index, count, names, items, steady,
                                   removed>>
                    /\ added' = (listing \/ added)
         /\ Unplug => /\ UNCHANGED <<listing, index, count, names, items, added>>
                      /\ removed' = (listing \/ removed)
                      /\ ~listing => steady' = steady
         /\ Select => /\ UNCHANGED <<registry, listing, index, count, names>>
                      /\ UNCHANGED <<items, steady, added, removed>>
BY DEF Plug, Unplug, Select, local, combo, history

LEMMA ReadOnceStep ==
  ASSUME TypeInv, OneValueEach, ReadOnce, [Next]_vars
  PROVE  ReadOnce'
<1>1. CASE Plug
  BY <1>1, OthersKeep DEF ReadOnce
<1>2. CASE Unplug
  <2> SUFFICES ASSUME listing, ~added
               PROVE  ReadOnce'
    BY <1>2, OthersKeep DEF ReadOnce
  <2>1. PICK at \in 1 .. Len(registry) :
           /\ Len(registry') = Len(registry) - 1
           /\ DOMAIN registry' = 1 .. Len(registry) - 1
           /\ \A i \in 1 .. Len(registry) - 1 :
                registry'[i] = IF i < at THEN registry[i] ELSE registry[i + 1]
    BY <1>2, UnplugMoves
  <2>2. UNCHANGED <<listing, index, names, added>>
    BY <1>2, OthersKeep
  <2>3. ASSUME NEW k \in DOMAIN names, NEW i \in 1 .. Len(registry) - 1, index < i
        PROVE  names[k] # registry'[i]
    <3> DEFINE back == IF i < at THEN i ELSE i + 1
    <3>1. /\ back \in DOMAIN registry /\ index < back
          /\ registry'[i] = registry[back]
      <4>1. registry'[i] = registry[back]
        BY <2>1
      <4>2. DOMAIN registry = 1 .. Len(registry) /\ Len(registry) \in Nat /\ index \in Nat
        BY Domains
      <4>3. back \in 1 .. Len(registry) /\ index < back
        BY <2>3, <4>2
      <4> QED
        BY <4>1, <4>2, <4>3
    <3> QED
      BY <3>1 DEF ReadOnce
  <2> QED
    BY <2>1, <2>2, <2>3 DEF ReadOnce
<1>3. CASE Select
  BY <1>3, OthersKeep DEF ReadOnce
<1>4. CASE StartRefresh
  <2>1. names' = <<>>
    BY <1>4 DEF StartRefresh
  <2> QED
    BY <2>1 DEF ReadOnce
<1>5. CASE EnumValue
  <2> SUFFICES ASSUME listing, ~added
               PROVE  ReadOnce'
    BY <1>5 DEF ReadOnce, EnumValue, More, history
  <2>1. UNCHANGED <<registry, listing, added>>
    BY <1>5 DEF EnumValue, history
  <2>2. /\ index + 1 \in DOMAIN registry /\ index' = index + 1
        /\ names' = IF Value \in Names /\ count < MaxPorts
                      THEN Append(names, Value) ELSE names
    BY <1>5, EnumValueKeeps, Domains
  <2>3. CASE names' = names
    <3>1. \A i \in DOMAIN registry : index + 1 < i => index < i
      BY Domains
    <3> QED
      BY <2>1, <2>2, <2>3, <3>1, Zenon DEF ReadOnce
  <2>4. CASE names' = Append(names, Value) /\ Value \in Names
    <3>1. /\ DOMAIN names' = 1 .. Len(names) + 1
          /\ \A k \in 1 .. Len(names) : names'[k] = names[k]
          /\ names'[Len(names) + 1] = Value
      <4>1. names \in Seq(Names) /\ Value \in Names
        BY <2>4 DEF TypeInv, ListTypeOK
      <4> QED
        BY <2>4, <4>1, AppendFacts, LenProperties
    <3>2. \A k \in 1 .. Len(names) : names[k] # Value
      BY <2>2, Domains DEF ReadOnce, Value
    <3>3. \A i \in DOMAIN registry : index + 1 < i => registry[i] # Value
      BY <2>2, <2>4, Domains DEF OneValueEach, Value
    <3>4. ASSUME NEW j \in DOMAIN names', NEW k \in DOMAIN names',
                 names'[j] = names'[k]
          PROVE  j = k
      BY <3>1, <3>2, <3>4, Domains DEF ReadOnce
    <3>5. ASSUME NEW k \in DOMAIN names', NEW i \in DOMAIN registry, index + 1 < i
          PROVE  names'[k] # registry[i]
      BY <3>1, <3>3, <3>5, Domains DEF ReadOnce
    <3> QED
      BY <2>1, <2>2, <3>4, <3>5 DEF ReadOnce
  <2> QED
    BY <2>2, <2>3, <2>4
<1>6. CASE EndRefresh
  BY <1>6 DEF EndRefresh, ReadOnce
<1>7. CASE UNCHANGED vars
  BY <1>7 DEF vars, local, history, ReadOnce
<1> QED
  BY <1>1, <1>2, <1>3, <1>4, <1>5, <1>6, <1>7 DEF Next, Refresh

LEMMA ListedOnceStep ==
  ASSUME TypeInv, ReadOnce, ListedOnce, [Next]_vars
  PROVE  ListedOnce'
<1>1. CASE Plug \/ Unplug \/ Select
  BY <1>1, OthersKeep DEF ListedOnce
<1>2. CASE StartRefresh \/ EnumValue
  BY <1>2 DEF StartRefresh, EnumValue, More, ListedOnce
<1>3. CASE EndRefresh
  <2>1. items' = names /\ listing /\ added' = added
    BY <1>3, FilledIsNames DEF EndRefresh, history
  <2> QED
    BY <2>1 DEF ReadOnce, ListedOnce
<1>4. CASE UNCHANGED vars
  BY <1>4 DEF vars, local, combo, history, ListedOnce
<1> QED
  BY <1>1, <1>2, <1>3, <1>4 DEF Next, Refresh

LEMMA ReadOrAheadStep ==
  ASSUME TypeInv, ReadOrAhead, [Next]_vars
  PROVE  ReadOrAhead'
<1>1. CASE Plug
  <2> SUFFICES ASSUME listing, ~removed, count <= MaxPorts, NEW p \in steady
               PROVE  \/ p \in ToSet(names)
                      \/ \E i \in DOMAIN registry' : index < i /\ registry'[i] = p
    BY <1>1, OthersKeep DEF ReadOrAhead
  <2>1. PICK value \in Values, at \in 1 .. Len(registry) + 1 :
           /\ value \in Names => \A i \in 1 .. Len(registry) : registry[i] # value
           /\ Len(registry') = Len(registry) + 1
           /\ DOMAIN registry' = 1 .. Len(registry) + 1
           /\ \A i \in 1 .. Len(registry) + 1 :
                registry'[i] = IF i < at THEN registry[i]
                               ELSE IF i = at THEN value ELSE registry[i - 1]
    BY <1>1, PlugMoves
  <2>2. ASSUME NEW i \in DOMAIN registry, index < i, registry[i] = p
        PROVE  \E j \in DOMAIN registry' : index < j /\ registry'[j] = p
    <3> DEFINE to == IF i < at THEN i ELSE i + 1
    <3>1. to \in DOMAIN registry' /\ index < to /\ registry'[to] = registry[i]
      BY <2>1, <2>2, Domains
    <3> QED
      BY <2>2, <3>1
  <2> QED
    BY <2>2 DEF ReadOrAhead
<1>2. CASE Unplug
  BY <1>2, OthersKeep DEF ReadOrAhead
<1>3. CASE Select
  BY <1>3, OthersKeep DEF ReadOrAhead
<1>4. CASE StartRefresh
  <2>1. /\ steady' = Ports(registry) /\ registry' = registry /\ index' = 0
    BY <1>4 DEF StartRefresh
  <2>2. ASSUME NEW p \in Ports(registry)
        PROVE  \E i \in DOMAIN registry : 0 < i /\ registry[i] = p
    <3>1. PICK i \in DOMAIN registry : registry[i] = p
      BY DEF Ports, ToSet
    <3>2. 0 < i
      BY <3>1, Domains
    <3> QED
      BY <3>1, <3>2
  <2> QED
    BY <2>1, <2>2 DEF ReadOrAhead
<1>5. CASE EnumValue
  <2>1. UNCHANGED <<registry, listing, steady, removed>>
    BY <1>5 DEF EnumValue, history
  <2>2. /\ index' = index + 1
        /\ count' = IF Value \in Names THEN count + 1 ELSE count
        /\ names' = IF Value \in Names /\ count < MaxPorts
                      THEN Append(names, Value) ELSE names
    BY <1>5, EnumValueKeeps
  <2> SUFFICES ASSUME listing, ~removed, count' <= MaxPorts, NEW p \in steady
               PROVE  \/ p \in ToSet(names')
                      \/ \E i \in DOMAIN registry : index' < i /\ registry[i] = p
    BY <2>1 DEF ReadOrAhead
  <2>3. count <= MaxPorts /\ (Value \in Names => count < MaxPorts)
    BY <2>2, Domains, PortListAssumption
  <2>4. Value \in Names =>
          /\ DOMAIN names' = 1 .. Len(names) + 1
          /\ \A k \in 1 .. Len(names) : names'[k] = names[k]
          /\ names'[Len(names) + 1] = Value
    <3> SUFFICES ASSUME Value \in Names
                 PROVE  /\ DOMAIN names' = 1 .. Len(names) + 1
                        /\ \A k \in 1 .. Len(names) : names'[k] = names[k]
                        /\ names'[Len(names) + 1] = Value
      OBVIOUS
    <3>1. names \in Seq(Names) /\ names' = Append(names, Value)
      BY <2>2, <2>3 DEF TypeInv, ListTypeOK
    <3> QED
      BY <3>1, AppendFacts, LenProperties
  <2>5. CASE p \in ToSet(names)
    <3>1. PICK k \in 1 .. Len(names) : names[k] = p
      BY <2>5, Domains DEF ToSet
    <3>2. p \in ToSet(names')
      <4>1. CASE Value \in Names
        BY <2>4, <3>1, <4>1, Domains DEF ToSet
      <4>2. CASE Value \notin Names
        BY <2>2, <2>5, <4>2
      <4> QED
        BY <4>1, <4>2
    <3> QED
      BY <3>2
  <2>6. ASSUME NEW i \in DOMAIN registry, index < i, registry[i] = p
        PROVE  \/ p \in ToSet(names')
               \/ \E j \in DOMAIN registry : index' < j /\ registry[j] = p
    <3>1. CASE i = index + 1
      <4>1. Value = p /\ Value \in Names
        BY <2>6, <3>1 DEF Value, TypeInv, ListTypeOK
      <4>2. Len(names) + 1 \in DOMAIN names' /\ names'[Len(names) + 1] = p
        BY <2>4, <4>1, Domains
      <4> QED
        BY <4>2 DEF ToSet
    <3>2. CASE i # index + 1
      <4>1. index + 1 < i
        BY <2>6, <3>2, Domains
      <4> QED
        BY <2>2, <2>6, <4>1
    <3> QED
      BY <3>1, <3>2
  <2> QED
    BY <2>3, <2>5, <2>6 DEF ReadOrAhead
<1>6. CASE EndRefresh
  BY <1>6 DEF EndRefresh, ReadOrAhead
<1>7. CASE UNCHANGED vars
  BY <1>7 DEF vars, local, history, ReadOrAhead
<1> QED
  BY <1>1, <1>2, <1>3, <1>4, <1>5, <1>6, <1>7 DEF Next, Refresh

LEMMA SteadyStep ==
  ASSUME TypeInv, ReadOrAhead, SteadyPortsAreListed, [Next]_vars
  PROVE  SteadyPortsAreListed'
<1>1. CASE Plug \/ Unplug \/ Select
  BY <1>1, OthersKeep DEF SteadyPortsAreListed
<1>2. CASE StartRefresh \/ EnumValue
  BY <1>2 DEF StartRefresh, EnumValue, More, SteadyPortsAreListed
<1>3. CASE EndRefresh
  <2>1. /\ items' = names /\ listing /\ index >= Len(registry)
        /\ UNCHANGED <<steady, removed, count>>
    BY <1>3, FilledIsNames DEF EndRefresh, history
  <2>2. \A i \in DOMAIN registry : ~(index < i)
    BY <2>1, Domains
  <2> QED
    BY <2>1, <2>2 DEF ReadOrAhead, SteadyPortsAreListed
<1>4. CASE UNCHANGED vars
  BY <1>4 DEF vars, local, combo, history, SteadyPortsAreListed
<1> QED
  BY <1>1, <1>2, <1>3, <1>4 DEF Next, Refresh

-----------------------------------------------------------------------------
(* The numbers of the ports *)

\* Numbering the ports: none before the first value, and one more with
\* each value that is a port.
LEMMA PortNumbers ==
  /\ PortsUpTo(0) = 0
  /\ \A i \in Nat :
       /\ PortsUpTo(i) \in Nat
       /\ PortsUpTo(i + 1) =
            IF registry[i + 1] \in Names THEN PortsUpTo(i) + 1 ELSE PortsUpTo(i)
       /\ \A j \in 0 .. i : PortsUpTo(j) <= PortsUpTo(i)
<1> DEFINE S(i) == {j \in 1 .. i : registry[j] \in Names}
<1>1. ASSUME NEW i \in Nat PROVE IsFiniteSet(S(i))
  <2>1. IsFiniteSet(1 .. i)
    BY FS_Interval
  <2>2. S(i) \subseteq 1 .. i
    OBVIOUS
  <2> QED
    BY <2>1, <2>2, FS_Subset
<1>2. PortsUpTo(0) = 0
  <2>1. S(0) = {}
    OBVIOUS
  <2> QED
    BY <2>1, FS_EmptySet DEF PortsUpTo
<1>3. ASSUME NEW i \in Nat PROVE PortsUpTo(i) \in Nat
  <2>1. Cardinality(S(i)) \in Nat
    BY <1>1, FS_CardinalityType
  <2> QED
    BY <2>1 DEF PortsUpTo
<1>4. ASSUME NEW i \in Nat
      PROVE  PortsUpTo(i + 1) = IF registry[i + 1] \in Names THEN PortsUpTo(i) + 1
                                                             ELSE PortsUpTo(i)
  <2>1. CASE registry[i + 1] \in Names
    <3>1. S(i + 1) = S(i) \cup {i + 1} /\ i + 1 \notin S(i)
      BY <2>1
    <3>2. IsFiniteSet(S(i))
      BY <1>1
    <3>3. PortsUpTo(i) = Cardinality(S(i)) /\ PortsUpTo(i + 1) = Cardinality(S(i + 1))
      BY DEF PortsUpTo
    <3> HIDE DEF S
    <3>4. Cardinality(S(i) \cup {i + 1}) = Cardinality(S(i)) + 1
      BY <3>1, <3>2, FS_AddElement
    <3> QED
      BY <2>1, <3>1, <3>3, <3>4
  <2>2. CASE registry[i + 1] \notin Names
    <3>1. S(i + 1) = S(i)
      BY <2>2
    <3>2. PortsUpTo(i) = Cardinality(S(i)) /\ PortsUpTo(i + 1) = Cardinality(S(i + 1))
      BY DEF PortsUpTo
    <3> QED
      BY <2>2, <3>1, <3>2
  <2> QED
    BY <2>1, <2>2
<1>5. ASSUME NEW i \in Nat, NEW j \in 0 .. i PROVE PortsUpTo(j) <= PortsUpTo(i)
  <2>1. S(j) \subseteq S(i)
    OBVIOUS
  <2>2. IsFiniteSet(S(i))
    BY <1>1
  <2>3. PortsUpTo(i) = Cardinality(S(i)) /\ PortsUpTo(j) = Cardinality(S(j))
    BY DEF PortsUpTo
  <2> HIDE DEF S
  <2> QED
    BY <2>1, <2>2, <2>3, FS_Subset
<1> QED
  BY <1>2, <1>3, <1>4, <1>5

LEMMA ExactStep ==
  ASSUME TypeInv, ExactSoFar, [Next]_vars
  PROVE  ExactSoFar'
<1>1. CASE Plug \/ Unplug
  BY <1>1, OthersKeep DEF ExactSoFar
<1>2. CASE EndRefresh
  BY <1>2 DEF EndRefresh, ExactSoFar
<1>3. CASE StartRefresh
  <2>1. index' = 0 /\ count' = 0 /\ registry' = registry
    BY <1>3 DEF StartRefresh
  <2>2. PortsUpTo(0)' = 0
    BY <2>1, PortNumbers DEF PortsUpTo
  <2>3. 0 <= Len(registry')
    BY <2>1, Domains
  <2> QED
    BY <2>1, <2>2, <2>3 DEF ExactSoFar
<1>4. CASE EnumValue
  <2> SUFFICES ASSUME listing, ~added, ~removed
               PROVE  ExactSoFar'
    BY <1>4 DEF EnumValue, More, history, ExactSoFar
  <2>1. UNCHANGED <<registry, listing>>
    BY <1>4 DEF EnumValue
  <2>2. /\ index + 1 \in 1 .. Len(registry) /\ index' = index + 1
        /\ count' = IF Value \in Names THEN count + 1 ELSE count
        /\ names' = IF Value \in Names /\ count < MaxPorts
                      THEN Append(names, Value) ELSE names
        /\ Len(names) = IF count <= MaxPorts THEN count ELSE MaxPorts
    BY <1>4, EnumValueKeeps
  <2>3. /\ count = PortsUpTo(index)
        /\ \A i \in 1 .. index :
             registry[i] \in Names /\ PortsUpTo(i) <= MaxPorts =>
               names[PortsUpTo(i)] = registry[i]
    BY DEF ExactSoFar
  <2>4. count' = PortsUpTo(index + 1)
    BY <2>2, <2>3, PortNumbers, Domains DEF Value
  <2>5. ASSUME NEW i \in 1 .. index + 1, registry[i] \in Names,
               PortsUpTo(i) <= MaxPorts
        PROVE  names'[PortsUpTo(i)] = registry[i]
    <3>1. names \in Seq(Names) /\ Len(names) \in Nat /\ MaxPorts \in Nat
          /\ index \in Nat /\ count \in Nat
      BY Domains, PortListAssumption DEF TypeInv, ListTypeOK
    <3>2. CASE i = index + 1
      <4>1. Value \in Names /\ PortsUpTo(i) = count + 1 /\ count < MaxPorts
        <5>1. Value \in Names
          BY <2>5, <3>2 DEF Value
        <5>2. PortsUpTo(index + 1) = PortsUpTo(index) + 1
          BY <3>1, <5>1, PortNumbers DEF Value
        <5> QED
          BY <2>3, <2>5, <3>1, <3>2, <5>1, <5>2
      <4>2. names' = Append(names, Value) /\ Len(names) = count
        BY <2>2, <3>1, <4>1
      <4>3. names'[Len(names) + 1] = Value
        BY <3>1, <4>1, <4>2, AppendFacts
      <4> QED
        BY <3>2, <4>1, <4>2, <4>3 DEF Value
    <3>3. CASE i # index + 1
      <4> DEFINE k == PortsUpTo(i)
      <4>1. i \in 1 .. index /\ i - 1 \in Nat /\ (i - 1) + 1 = i /\ i \in 0 .. index
        BY <3>1, <3>3
      <4>2. PortsUpTo(i - 1) \in Nat /\ k = PortsUpTo(i - 1) + 1
        BY <2>5, <4>1, PortNumbers
      <4>3. k <= count
        BY <2>3, <3>1, <4>1, PortNumbers
      <4>4. names[k] = registry[i]
        BY <2>3, <2>5, <4>1
      <4>5. k \in 1 .. Len(names)
        <5>1. k <= MaxPorts
          BY <2>5
        <5> HIDE DEF k
        <5> QED
          BY <2>2, <3>1, <4>2, <4>3, <5>1
      <4> HIDE DEF k
      <4>6. names'[k] = names[k]
        BY <2>2, <3>1, <4>5, AppendFacts
      <4> QED
        BY <4>4, <4>6 DEF k
    <3> QED
      BY <3>2, <3>3
  <2>6. (index <= Len(registry))'
    BY <2>1, <2>2
  <2>7. (count = PortsUpTo(index))'
    BY <2>1, <2>2, <2>4 DEF PortsUpTo
  <2>8. (\A i \in 1 .. index :
           registry[i] \in Names /\ PortsUpTo(i) <= MaxPorts =>
             names[PortsUpTo(i)] = registry[i])'
    BY <2>1, <2>2, <2>5 DEF PortsUpTo
  <2> QED
    BY <2>6, <2>7, <2>8 DEF ExactSoFar
<1>5. CASE UNCHANGED <<registry, listing, index, count, names, added, removed>>
  BY <1>5 DEF ExactSoFar, PortsUpTo
<1> QED
  BY <1>1, <1>2, <1>3, <1>4, <1>5, OthersKeep
     DEF Next, Refresh, vars, local, history

-----------------------------------------------------------------------------
(* The promises of the list *)

LEMMA InitListInv == Init => ListInv
<1> SUFFICES ASSUME Init PROVE ListInv
  OBVIOUS
<1>1. TypeInv
  BY InitTypeInv
<1>2. /\ registry = <<>> /\ names = <<>> /\ items = <<>>
      /\ listing = FALSE /\ steady = {}
  BY DEF Init
<1>3. OneValueEach /\ ReadOnce /\ ListedOnce
  BY <1>2 DEF OneValueEach, ReadOnce, ListedOnce
<1>4. ReadOrAhead /\ SteadyPortsAreListed /\ ExactSoFar
  BY <1>2 DEF ReadOrAhead, SteadyPortsAreListed, ExactSoFar
<1> QED
  BY <1>1, <1>3, <1>4 DEF ListInv

LEMMA NextListInv == ListInv /\ [Next]_vars => ListInv'
BY NextTypeInv, OneValueEachStep, ReadOnceStep, ListedOnceStep,
   ReadOrAheadStep, SteadyStep, ExactStep DEF ListInv

LEMMA ListInvariance == Spec => []ListInv
BY InitListInv, NextListInv, PTL DEF Spec

\* No port is listed twice by a refresh during which no value came, however
\* many went: what an index counts twice is what moved behind it.
THEOREM NoPortIsListedTwice == Spec => []NoPortTwice
<1>1. ListInv => NoPortTwice
  <2> SUFFICES ASSUME ListInv, ~listing, ~added
               PROVE  Cardinality(ToSet(items)) = Len(items)
    BY DEF NoPortTwice
  <2>1. items \in [1 .. Len(items) -> ToSet(items)] /\ Len(items) \in Nat
    BY LenProperties DEF ListInv, TypeInv, ListTypeOK, ToSet
  <2>2. \A j, k \in 1 .. Len(items) : items[j] = items[k] => j = k
    BY Domains DEF ListInv, ListedOnce
  <2>3. \A p \in ToSet(items) : \E k \in 1 .. Len(items) : items[k] = p
    BY <2>1 DEF ToSet
  <2>4. items \in Bijection(1 .. Len(items), ToSet(items))
    BY <2>1, <2>2, <2>3 DEF Bijection, Injection, Surjection, IsInjective
  <2> QED
    BY <2>1, <2>4, FS_CountingElements DEF ExistsBijection
<1> QED
  BY <1>1, ListInvariance, PTL

\* A port that was plugged in from the start of a refresh to its end is
\* listed, whatever came meanwhile, if nothing went and there was room.
THEOREM SteadyPortsListed == Spec => []SteadyPortsAreListed
BY ListInvariance, PTL DEF ListInv

-----------------------------------------------------------------------------
(* The selection *)

\* A refresh selects the first item that begins with the old selection, so
\* the old one itself if no other comes before it, and loses no selection
\* that was plugged in all the time.
THEOREM SelectionCarriedOver == Spec => SelectionIsCarriedOver
<1> DEFINE carried ==
      /\ IF \E n \in ToSet(items') : Like(n)
           THEN selected' \in ToSet(items') /\ Like(selected')
           ELSE selected' = NoPort
      /\ \A i \in DOMAIN items' :
           items'[i] = current /\ (\A j \in 1 .. i - 1 : ~Like(items'[j]))
             => selected' = current
      /\ current \in steady /\ ~removed /\ count <= MaxPorts
           => selected' # NoPort
<1>1. ListInv /\ ListInv' /\ [Next]_vars => (EndsRefresh => carried)
  <2> SUFFICES ASSUME ListInv, ListInv', [Next]_vars, EndsRefresh
               PROVE  carried
    OBVIOUS
  <2>1. EndRefresh
    BY DEF Next, Refresh, Plug, Unplug, Select, StartRefresh, EnumValue,
           EndsRefresh, vars, local
  <2>2. /\ items' \in Seq(Names) /\ NoPort \notin ToSet(items')
        /\ DOMAIN items' = 1 .. Len(items') /\ Len(items') \in Nat
    BY PortListAssumption, LenProperties DEF ListInv, TypeInv, ListTypeOK, ToSet
  <2>3. current \in steady /\ ~removed /\ count <= MaxPorts
          => current \in ToSet(items') /\ Like(current)
    <3>1. UNCHANGED <<steady, removed, count>> /\ ~listing'
      BY <2>1 DEF EndRefresh, history
    <3>2. current \in steady => Like(current)
      BY PortListAssumption DEF ListInv, TypeInv, ListTypeOK, Like
    <3> QED
      BY <3>1, <3>2 DEF ListInv, SteadyPortsAreListed
  <2>4. CASE current = NoPort
    <3>1. selected' = NoPort
      BY <2>1, <2>4 DEF EndRefresh
    <3>2. \A n : ~Like(n)
      BY <2>4, PortListAssumption DEF Like
    <3>3. NoPort \notin {items'[i] : i \in DOMAIN items'}
      BY <2>2 DEF ToSet
    <3> QED
      BY <2>3, <2>4, <3>1, <3>2, <3>3
  <2>5. CASE current # NoPort
    <3>1. selected' = SelectString(items', current)
      BY <2>1, <2>5 DEF EndRefresh
    <3>2. \/ /\ selected' = NoPort
             /\ \A i \in DOMAIN items' : ~Like(items'[i])
          \/ \E k \in DOMAIN items' :
               /\ selected' = items'[k] /\ Like(items'[k])
               /\ \A i \in DOMAIN items' : Like(items'[i]) => k <= i
      BY <2>2, <3>1, SelectStringFinds DEF Like
    <3>3. CASE /\ selected' = NoPort
               /\ \A i \in DOMAIN items' : ~Like(items'[i])
      <4>1. \A n \in ToSet(items') : ~Like(n)
        BY <3>3 DEF ToSet
      <4>2. \A i \in DOMAIN items' : items'[i] # current
        <5>1. current \in Names
          BY <2>5 DEF ListInv, TypeInv, ListTypeOK
        <5>2. Like(current)
          BY <5>1, PortListAssumption DEF Like
        <5> QED
          BY <3>3, <5>2
      <4> QED
        BY <2>3, <3>3, <4>1, <4>2
    <3>4. ASSUME NEW k \in DOMAIN items', selected' = items'[k], Like(items'[k]),
                 \A i \in DOMAIN items' : Like(items'[i]) => k <= i
          PROVE  carried
      <4>1. selected' \in ToSet(items') /\ Like(selected')
        BY <3>4 DEF ToSet
      <4>2. ASSUME NEW i \in DOMAIN items', items'[i] = current,
                   \A j \in 1 .. i - 1 : ~Like(items'[j])
            PROVE  selected' = current
        <5>1. current \in Names
          BY <2>5 DEF ListInv, TypeInv, ListTypeOK
        <5>2. Like(items'[i])
          BY <4>2, <5>1, PortListAssumption DEF Like
        <5>3. k <= i /\ k \notin 1 .. i - 1 /\ k \in Nat /\ i \in Nat /\ 1 <= k
          BY <2>2, <3>4, <4>2, <5>2
        <5>4. k = i
          BY <5>3
        <5> QED
          BY <3>4, <4>2, <5>4
      <4> QED
        BY <2>2, <4>1, <4>2
    <3> QED
      BY <3>2, <3>3, <3>4
  <2> QED
    BY <2>4, <2>5
<1> QED
  BY <1>1, ListInvariance, PTL DEF Spec, SelectionIsCarriedOver

-----------------------------------------------------------------------------
(* A list that is exact *)

\* A registry that stands still is listed as it is: its ports in the order
\* of their values, as many as there is room for.
THEOREM UndisturbedListExact == Spec => UndisturbedListIsExact
<1> DEFINE exact ==
      /\ Len(items') = Min({PortsUpTo(Len(registry)), MaxPorts})
      /\ \A i \in DOMAIN registry :
           registry[i] \in Names /\ PortsUpTo(i) <= MaxPorts =>
             items'[PortsUpTo(i)] = registry[i]
<1>1. ListInv /\ [Next]_vars => (EndsRefresh /\ ~added /\ ~removed => exact)
  <2> SUFFICES ASSUME ListInv, [Next]_vars, EndsRefresh, ~added, ~removed
               PROVE  exact
    OBVIOUS
  <2>1. EndRefresh
    BY DEF Next, Refresh, Plug, Unplug, Select, StartRefresh, EnumValue,
           EndsRefresh, vars, local
  <2>2. items' = names /\ index >= Len(registry) /\ listing
    BY <2>1, FilledIsNames DEF EndRefresh, ListInv
  <2>3. index = Len(registry) /\ DOMAIN registry = 1 .. index
    BY <2>2, Domains DEF ListInv, ExactSoFar
  <2>4. Len(names) = Min({PortsUpTo(index), MaxPorts})
    BY <2>2 DEF ListInv, TypeInv, ListTypeOK, ExactSoFar
  <2> QED
    BY <2>2, <2>3, <2>4 DEF ListInv, ExactSoFar
<1> QED
  BY <1>1, ListInvariance, PTL DEF Spec, UndisturbedListIsExact

=============================================================================
