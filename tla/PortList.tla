------------------------------ MODULE PortList ------------------------------
(***************************************************************************)
(* The list of COM ports: serial_list_ports reads the registry value by    *)
(* value, and refresh_port_list of main.c puts what it found in the combo  *)
(* box and looks for the old selection in it.  The thread does nothing     *)
(* else meanwhile, but drivers come and go: the registry may change        *)
(* between any two calls of RegEnumValue.                                  *)
(***************************************************************************)
EXTENDS Naturals, SequencesExt

CONSTANTS
  Names,      \* port names
  Begins,     \* pairs <<a, b>> of names: a begins with b, as COM10 with COM1
  NoPort,     \* the empty selection
  NotString,  \* a registry value that is no REG_SZ, or cannot be read
  MaxPorts,   \* the names refresh_port_list has room for
  MaxValues   \* bound: values in the registry key

ASSUME PortListAssumption ==
  /\ NoPort \notin Names /\ NotString \notin Names
  /\ Begins \subseteq Names \X Names
  /\ \A n \in Names : <<n, n>> \in Begins
  /\ MaxPorts \in Nat \ {0} /\ MaxValues \in Nat

VARIABLES
  registry,   \* the values of SERIALCOMM, in the order they are enumerated
  listing,    \* refresh_port_list is running
  index,      \* index of the next value
  count,      \* ports found so far
  names,      \* the names of those there was room for
  current,    \* the selection before the refresh
  items,      \* the combo box
  selected,   \* its selection
  steady,     \* history: the ports there since the refresh began
  added, removed   \* history: values came, went during the refresh

local == <<listing, index, count, names, current>>
combo == <<items, selected>>
history == <<steady, added, removed>>

vars == <<registry, local, combo, history>>

Ports(values) == ToSet(values) \cap Names

Init ==
  /\ registry = <<>>
  /\ listing = FALSE
  /\ index = 0 /\ count = 0 /\ names = <<>>
  /\ current = NoPort
  /\ items = <<>> /\ selected = NoPort
  /\ steady = {} /\ added = FALSE /\ removed = FALSE

-----------------------------------------------------------------------------
(* The drivers *)

\* A driver adds its value, which may come anywhere in the enumeration.  By
\* the convention of the drivers no port name is added that is there.
Plug ==
  /\ Len(registry) < MaxValues
  /\ \E value \in (Names \ Ports(registry)) \cup {NotString},
        at \in 1 .. Len(registry) + 1 :
       registry' = InsertAt(registry, at, value)
  /\ added' = (listing \/ added)
  /\ UNCHANGED <<local, combo, steady, removed>>

Unplug ==
  /\ \E at \in DOMAIN registry : registry' = RemoveAt(registry, at)
  /\ removed' = (listing \/ removed)
  /\ steady' = IF listing THEN steady \cap Ports(registry') ELSE steady
  /\ UNCHANGED <<local, combo, added>>

-----------------------------------------------------------------------------
(* refresh_port_list and serial_list_ports *)

\* The user picks a port of the drop-down list.
Select ==
  /\ ~listing
  /\ selected' \in ToSet(items)
  /\ UNCHANGED <<registry, local, items, history>>

\* A refresh that leaves the combo box as it is.
StartRefreshKeeps ==
  /\ ~listing
  /\ listing' = TRUE
  /\ current' = selected
  /\ UNCHANGED combo
  /\ index' = 0 /\ count' = 0 /\ names' = <<>>
  /\ steady' = Ports(registry) /\ added' = FALSE /\ removed' = FALSE
  /\ UNCHANGED registry

\* The Refresh button, and WM_CREATE: the selection is noted and the combo
\* box emptied.  A key that cannot be opened is one without values.
StartRefresh ==
  /\ ~listing
  /\ listing' = TRUE
  /\ current' = selected
  /\ items' = <<>> /\ selected' = NoPort
  /\ index' = 0 /\ count' = 0 /\ names' = <<>>
  /\ steady' = Ports(registry) /\ added' = FALSE /\ removed' = FALSE
  /\ UNCHANGED registry

More == listing /\ index < Len(registry)

Value == registry[index + 1]

\* A loop that goes on only after a value it could use.
EnumValueStuck ==
  /\ More
  /\ IF Value \in Names
       THEN /\ names' = IF count < MaxPorts THEN Append(names, Value) ELSE names
            /\ count' = count + 1
            /\ index' = index + 1
       ELSE UNCHANGED <<names, count, index>>
  /\ UNCHANGED <<registry, listing, current, combo, history>>

\* A loop that goes by the ports it found and not by the values it read.
EnumValueByCount ==
  /\ More
  /\ LET value == registry[count + 1] IN
       IF value \in Names
         THEN /\ names' = IF count < MaxPorts THEN Append(names, value) ELSE names
              /\ count' = count + 1
         ELSE UNCHANGED <<names, count>>
  /\ index' = index + 1
  /\ UNCHANGED <<registry, listing, current, combo, history>>

\* A loop with room for one name less than the array has.
EnumValueOffByOne ==
  /\ More
  /\ IF Value \in Names
       THEN /\ names' = IF count + 1 < MaxPorts THEN Append(names, Value)
                                               ELSE names
            /\ count' = count + 1
       ELSE UNCHANGED <<names, count>>
  /\ index' = index + 1
  /\ UNCHANGED <<registry, listing, current, combo, history>>

\* One RegEnumValue: a string is a port, kept if there is room and counted
\* in any case; the index goes on whatever the value was.
EnumValue ==
  /\ More
  /\ IF Value \in Names
       THEN /\ names' = IF count < MaxPorts THEN Append(names, Value) ELSE names
            /\ count' = count + 1
       ELSE UNCHANGED <<names, count>>
  /\ index' = index + 1
  /\ UNCHANGED <<registry, listing, current, combo, history>>

\* The first item is selected when the old selection is gone.
SelectStringOrFirst(list, text) ==
  LET hits == {i \in DOMAIN list : <<list[i], text>> \in Begins}
  IN  IF hits # {} THEN list[Min(hits)]
                   ELSE IF list = <<>> THEN NoPort ELSE list[1]

\* CB_SELECTSTRING: the first item that begins with the text, if any does.
SelectString(list, text) ==
  LET hits == {i \in DOMAIN list : <<list[i], text>> \in Begins}
  IN  IF hits = {} THEN NoPort ELSE list[Min(hits)]

\* The combo box filled with as many items as there are ports, beyond the
\* end of the array.
FilledUnclamped ==
  items \o names \o [i \in 1 .. count - Len(names) |-> NotString]

\* CB_ADDSTRING for each name there was room for.
Filled == items \o names

\* ERROR_NO_MORE_ITEMS: the combo box is filled, and the old selection
\* searched for in it.
EndRefresh ==
  /\ listing /\ index >= Len(registry)
  /\ listing' = FALSE
  /\ items' = Filled
  /\ selected' = IF current = NoPort THEN NoPort
                                     ELSE SelectString(items', current)
  /\ UNCHANGED <<registry, index, count, names, current, history>>

Refresh == EnumValue \/ EndRefresh

Next == Plug \/ Unplug \/ Select \/ StartRefresh \/ Refresh

\* A refresh that started goes on; drivers and the user owe nothing.
Spec == Init /\ [][Next]_vars /\ WF_vars(Refresh)

-----------------------------------------------------------------------------
(* Properties *)

\* The variables keep their types: no more items than there is room for,
\* each of them a name that was read, and the selection is an item.
ListTypeOK ==
  /\ registry \in Seq(Names \cup {NotString}) /\ Len(registry) <= MaxValues
  /\ {listing, added, removed} \subseteq BOOLEAN
  /\ index \in Nat /\ count \in Nat
  /\ names \in Seq(Names) /\ Len(names) = Min({count, MaxPorts})
  /\ items \in Seq(Names) /\ Len(items) <= MaxPorts
  /\ current \in Names \cup {NoPort}
  /\ selected = NoPort \/ selected \in ToSet(items)
  /\ steady \subseteq Names

EndsRefresh == listing /\ ~listing'

\* How many ports there are among the first values of the registry.
PortsUpTo(i) == Cardinality({j \in 1 .. i : registry[j] \in Names})

\* A registry that stands still is listed as it is: its ports in their
\* order, without the values that are none, as many as there is room for.
UndisturbedListIsExact ==
  [][EndsRefresh /\ ~added /\ ~removed =>
       /\ Len(items') = Min({PortsUpTo(Len(registry)), MaxPorts})
       /\ \A i \in DOMAIN registry :
            registry[i] \in Names /\ PortsUpTo(i) <= MaxPorts =>
              items'[PortsUpTo(i)] = registry[i]]_vars

\* A port that was there all the time is listed, whatever came meanwhile, if
\* nothing went and all that was found had room (serial_list_ports goes by
\* index: what goes before the index moves the next value out of its sight).
SteadyPortsAreListed ==
  ~listing /\ ~removed /\ count <= MaxPorts => steady \subseteq ToSet(items)

\* ... and no port is listed twice unless a value came meanwhile.
NoPortTwice ==
  ~listing /\ ~added => Cardinality(ToSet(items)) = Len(items)

\* The names that CB_SELECTSTRING cannot tell from the old selection.
Like(n) == <<n, current>> \in Begins

\* A refresh selects no other port than the old one or one whose name begins
\* with its name, and none if none such is listed; the old one is kept if it
\* is listed and no such name is listed before it; and if it was plugged in
\* all the time, nothing went and all that was found had room, something
\* stays selected (on_connect_clicked opens what is).
SelectionIsCarriedOver ==
  [][EndsRefresh =>
       /\ IF \E n \in ToSet(items') : Like(n)
            THEN selected' \in ToSet(items') /\ Like(selected')
            ELSE selected' = NoPort
       /\ \A i \in DOMAIN items' :
            items'[i] = current /\ (\A j \in 1 .. i - 1 : ~Like(items'[j]))
              => selected' = current
       /\ current \in steady /\ ~removed /\ count <= MaxPorts
            => selected' # NoPort]_vars

\* A refresh comes to its end, whatever values it meets and however they
\* change under it, as long as the key itself is there.
RefreshEnds == listing ~> ~listing

=============================================================================
