----------------------------- MODULE MCEventLoop -----------------------------
(***************************************************************************)
(* Instances of EventLoop for TLC: a client that sends two requests (at    *)
(* once or one after the other) and may hang up at any time, and one that  *)
(* connects and stays silent.  The clock may run ahead of the loop by as   *)
(* much as the timeout, and the wheel is one slot larger than the timeout, *)
(* so that the hand wraps round and one reading of the clock may pass a    *)
(* timer added in the same pass.                                           *)
(***************************************************************************)
EXTENDS EventLoop

CONSTANTS c1, c2

OneConn == {c1}
TwoConns == {c1, c2}
SecondSilent == [c \in TwoConns |-> IF c = c1 THEN 2 ELSE 0]
=============================================================================
