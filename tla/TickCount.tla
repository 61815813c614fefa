------------------------------ MODULE TickCount ------------------------------
(***************************************************************************)
(* The arithmetic device.c does on GetTickCount(): DWORD values that wrap  *)
(* around, an addition for the deadline of a command and, for the test     *)
(* that the deadline has passed, a difference read as a signed integer.    *)
(* The program has HalfRange = 2^31; a tick of a model stands for one      *)
(* period of the 50 ms poll timer.                                         *)
(***************************************************************************)
EXTENDS Integers

CONSTANT HalfRange      \* half of the range of a tick count

ASSUME HalfRangeAssumption == HalfRange \in Nat \ {0}

TickMod == 2 * HalfRange

Ticks == 0 .. TickMod - 1

\* t + d and t - u on DWORD operands, for t, d, u \in Ticks.
TickAdd(t, d) == IF t + d < TickMod THEN t + d ELSE t + d - TickMod

TickDiff(t, u) == IF t >= u THEN t - u ELSE t - u + TickMod

\* The cast (int32_t)x of a DWORD x.
AsSigned(x) == IF x < HalfRange THEN x ELSE x - TickMod

\* Two plausible forms of the test that get the wraparound, or the
\* boundary, wrong.
DeadlinePassedUnsigned(now, deadline) == now >= deadline

DeadlinePassedEarly(now, deadline) == AsSigned(TickDiff(now, deadline)) >= -1

\* The deadline has passed (device_poll_timeout's wraparound-safe test).
DeadlinePassed(now, deadline) == ~(AsSigned(TickDiff(now, deadline)) < 0)

=============================================================================
