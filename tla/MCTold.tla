------------------------------- MODULE MCTold -------------------------------
(***************************************************************************)
(* Instances of Told for TLC.                                              *)
(***************************************************************************)
EXTENDS Told, TLC

\* Signal settings are interchangeable: nothing orders them.
SignalSymmetry == Permutations(Signals)

\* The banner is written and never read by an action: the runs that do not
\* check what it says leave it out of the fingerprint of a state.
AllButBanner == <<portVars, thread, lineVars, deviceVars, unit, toldVars, age>>

\* A module that never answers, because there is none at that address or on
\* that line: nothing comes back, whatever is sent.
SilentSpec == ToldInit /\ [][ToldNext /\ UNCHANGED rx]_allVars

=============================================================================
