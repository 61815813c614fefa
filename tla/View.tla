-------------------------------- MODULE View --------------------------------
(***************************************************************************)
(* What the window promises to show (the head comment of device.h): the    *)
(* module's settings as the module last told them, but for one guess at a  *)
(* time, an output switch that is shown before the module has answered it. *)
(***************************************************************************)

CONSTANTS Signals, Addresses, UNKNOWN

VARIABLES
  heard,  \* per field, what the module last said, or UNKNOWN
  guess,  \* an unanswered switch is shown
  shown   \* what the window shows, "-" as UNKNOWN

vars == <<heard, guess, shown>>

Heard == [output : BOOLEAN \cup {UNKNOWN}, signal : Signals \cup {UNKNOWN},
          address : Addresses \cup {UNKNOWN}]

\* A module that said nothing of its output is shown OFF.
ShownFor(h) == [h EXCEPT !.output = IF h.output = UNKNOWN THEN FALSE ELSE @]

Init ==
  /\ heard = [output |-> UNKNOWN, signal |-> UNKNOWN, address |-> UNKNOWN]
  /\ guess = FALSE
  /\ shown = ShownFor(heard)

\* The user switches the output.
Guess ==
  /\ ~guess /\ guess' = TRUE
  /\ \E on \in BOOLEAN : shown' = [shown EXCEPT !.output = on]
  /\ UNCHANGED heard

\* The module speaks, of any of its settings: all of it is shown as said.
Hear ==
  /\ heard' \in Heard
  /\ guess' = FALSE
  /\ shown' = ShownFor(heard')

\* The switch was rejected or not answered: nothing of the guess remains.
GiveUp ==
  /\ guess /\ guess' = FALSE
  /\ shown' = ShownFor(heard)
  /\ UNCHANGED heard

Next == Guess \/ Hear \/ GiveUp

Spec == Init /\ [][Next]_vars

=============================================================================
