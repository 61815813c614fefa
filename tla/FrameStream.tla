----------------------------- MODULE FrameStream -----------------------------
(***************************************************************************)
(* What a frame parser promises of one connection: the frames that were    *)
(* sent reach on_frame, each once, in order and whole, however the driver  *)
(* cuts the bytes into chunks.                                             *)
(***************************************************************************)
EXTENDS Naturals, Sequences

CONSTANT Frame      \* all frames

VARIABLES
  due,    \* the frames sent on this connection
  got     \* the frames given to on_frame so far

Init == due \in Seq(Frame) /\ got = <<>>

Deliver ==
  /\ Len(got) < Len(due)
  /\ got' = Append(got, due[Len(got) + 1])
  /\ UNCHANGED due

\* A new connection starts a new stream.
Restart == due' \in Seq(Frame) /\ got' = <<>>

Next == Deliver \/ Restart

Spec == Init /\ [][Next]_<<due, got>>

=============================================================================
