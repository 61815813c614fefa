------------------------------ MODULE MCTxLite ------------------------------
(***************************************************************************)
(* Instances of TxLite for TLC.                                            *)
(***************************************************************************)
EXTENDS TxLite

\* Tick arithmetic by cases agrees with arithmetic modulo TickMod.
ASSUME TicksAreModular ==
  \A t, u \in Ticks : /\ TickAdd(t, u) = (t + u) % TickMod
                      /\ TickDiff(t, u) = (t - u) % TickMod

\* The banner is written and never read by an action: the runs that do not
\* check what it says leave it out of the fingerprint of a state.
AllButBanner == <<portVars, thread, lineVars, deviceVars, unit, age>>

=============================================================================
