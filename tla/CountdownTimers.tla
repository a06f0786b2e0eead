--------------------------- MODULE CountdownTimers ---------------------------
(***************************************************************************)
(* What a timer wheel promises: every timer counts down from Timeout, one  *)
(* per expiration of the clock, starts again when it is refreshed, and     *)
(* fires once, when it reaches 0, unless it was cancelled.  TimerWheel     *)
(* implements this (its Promise).                                          *)
(***************************************************************************)
EXTENDS Integers

CONSTANTS
    Timers,  \* identifiers of timers
    Timeout  \* the delay they are added with

VARIABLES
    left,     \* per timer: expirations before it fires, 0 if it is not set
    canceled, \* timers that were cancelled and are still counting
    expired   \* timers that have fired

vars == <<left, canceled, expired>>

Init ==
    /\ left = [id \in Timers |-> 0]
    /\ canceled = {}
    /\ expired = {}

Add(id) ==
    /\ left[id] = 0
    /\ left' = [left EXCEPT ![id] = Timeout]
    /\ UNCHANGED <<canceled, expired>>

Refresh(id) ==
    /\ left[id] > 0
    /\ left' = [left EXCEPT ![id] = Timeout]
    /\ UNCHANGED <<canceled, expired>>

Cancel(id) ==
    /\ left[id] > 0
    /\ canceled' = canceled \cup {id}
    /\ UNCHANGED <<left, expired>>

\* The clock has expired n times since it was last looked at.
Elapse(n) ==
    LET done == {id \in Timers : left[id] \in 1..n}
    IN  /\ left' = [id \in Timers |-> IF left[id] > n THEN left[id] - n ELSE 0]
        /\ expired' = expired \cup (done \ canceled)
        /\ canceled' = canceled \ done

Next ==
    \/ \E id \in Timers : Add(id) \/ Refresh(id) \/ Cancel(id)
    \/ \E n \in 1..Timeout : Elapse(n)  \* more than Timeout clears no more

Spec == Init /\ [][Next]_vars
=============================================================================
