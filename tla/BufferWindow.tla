---------------------------- MODULE BufferWindow ----------------------------
(***************************************************************************)
(* What the mutable buffer promises to the framework, without its          *)
(* concurrency control: a window head..tail of indices over an unbounded   *)
(* log.  A record is admitted only while fewer than HWM are in the window, *)
(* and a flush drops a non-empty prefix of it.                             *)
(***************************************************************************)
EXTENDS Integers

CONSTANT HWM   \* the high watermark of the buffer

VARIABLES head, tail

window == <<head, tail>>

WindowInit == head = 0 /\ tail = 0

Admit ==
  /\ tail - head < HWM
  /\ tail' = tail + 1
  /\ UNCHANGED head

Drop ==
  /\ head' \in Int /\ head < head' /\ head' <= tail
  /\ UNCHANGED tail

WindowNext == Admit \/ Drop

WindowSpec == WindowInit /\ [][WindowNext]_window
=============================================================================
