------------------------------ MODULE MCWindow ------------------------------
(***************************************************************************)
(* Instances of Window for TLC.                                            *)
(***************************************************************************)
EXTENDS Window

\* In range are 2 and 3; 11 is 3 in a word.  0 is what an emptied field
\* reads as, and the one address: any other is typed out of range.
SomeEntries == {0, 3, 11}
SignalRange == 2 .. 3
AddressRange == 0 .. 0

\* The banner is written and never read by an action: the runs that do not
\* check what it says leave it out of the fingerprint of a state.
AllButBanner ==
  <<portVars, thread, lineVars, deviceVars, unit, age, windowVars>>

=============================================================================
