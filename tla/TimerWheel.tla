------------------------------ MODULE TimerWheel ------------------------------
(***************************************************************************)
(* class TimerWheel of net/muduo.hpp.  A timer is an object whose          *)
(* destructor runs its callback; the wheel holds shared pointers to it.    *)
(* Adding or refreshing a timer puts one more pointer `delay' slots ahead  *)
(* of the hand, and the timer fires when the hand clears the last slot     *)
(* that has one.                                                           *)
(*                                                                         *)
(* All operations run in the loop thread, so each is one action.  Every    *)
(* timer of the program is the inactivity timer of a connection and has    *)
(* the same delay, the timeout of the HTTP server.                         *)
(***************************************************************************)
EXTENDS Integers, FiniteSets

CONSTANTS
    Timers,   \* identifiers of timers
    Capacity, \* _capacity
    Timeout   \* the delay timers are added with

ASSUME WheelAssumption ==
    /\ IsFiniteSet(Timers)
    /\ Capacity \in Nat \ {0}
    /\ Timeout \in 1..Capacity

VARIABLES
    tick,   \* _tick
    slots,  \* per timer: the positions of _wheel that hold a pointer to it
    timer,  \* per timer: absent from _timers, armed, or canceled
    expired \* timers whose callback has run (history)

wheelVars == <<tick, slots, timer, expired>>

Positions == 0..(Capacity - 1)

WheelInit ==
    /\ tick = 0
    /\ slots = [id \in Timers |-> {}]
    /\ timer = [id \in Timers |-> "none"]
    /\ expired = {}

HasTimer(id) == timer[id] # "none"

\* Mutant: the position does not wrap round.
Ahead_NoWrap == tick + Timeout

\* The position a timer is put at.
Ahead == (tick + Timeout) % Capacity

TimerAdd(id) ==
    /\ timer' = [timer EXCEPT ![id] = "armed"]
    /\ slots' = [slots EXCEPT ![id] = {Ahead}]
    /\ UNCHANGED <<tick, expired>>

\* Without a timer of that id there is nothing to refresh.
TimerRefresh(id) ==
    /\ slots' = IF HasTimer(id) THEN [slots EXCEPT ![id] = @ \cup {Ahead}] ELSE slots
    /\ UNCHANGED <<tick, timer, expired>>

\* The timer stays in the wheel and is released without its callback.
TimerCancel(id) ==
    /\ timer' = IF HasTimer(id) THEN [timer EXCEPT ![id] = "canceled"] ELSE timer
    /\ UNCHANGED <<tick, slots, expired>>

\* Mutant: the hand moves one step however often the clock has expired.
Cleared_Once(times) == {(tick + 1) % Capacity}

\* The slots the hand passes in `times' steps of RunTimerTask.
Cleared(times) == {(tick + k) % Capacity : k \in 1..times}

\* Timers whose last pointer goes, and those of them that run their callback.
Dropped(times) == {id \in Timers : HasTimer(id) /\ slots[id] \subseteq Cleared(times)}
Fired(times) == {id \in Dropped(times) : timer[id] = "armed"}

\* OnTime, after the timer descriptor said that the clock expired `times'
\* times since it was last read.
OnTime(times) ==
    /\ tick' = (tick + times) % Capacity
    /\ slots' = [id \in Timers |-> slots[id] \ Cleared(times)]
    /\ timer' = [id \in Timers |-> IF id \in Dropped(times) THEN "none" ELSE timer[id]]
    /\ expired' = expired \cup Fired(times)
-----------------------------------------------------------------------------
\* Type invariant.
WheelTypeOK ==
    /\ tick \in Positions
    /\ slots \in [Timers -> SUBSET Positions]
    /\ timer \in [Timers -> {"none", "armed", "canceled"}]
    /\ expired \subseteq Timers

\* Steps of the hand until it clears position p.
StepsTo(p) == IF p > tick THEN p - tick ELSE p - tick + Capacity

\* Steps until the last pointer to a timer goes.
Left(id) ==
    LET steps == {StepsTo(p) : p \in slots[id]}
    IN  IF steps = {} THEN 0 ELSE CHOOSE n \in steps : \A k \in steps : k <= n

Countdown ==
    INSTANCE CountdownTimers
        WITH left <- [id \in Timers |-> Left(id)],
             canceled <- {id \in Timers : timer[id] = "canceled"}

\* The wheel keeps its promise: whatever pointers pile up in it, however
\* many expirations are worked off at once, and wherever the hand wraps
\* round, a timer fires exactly Timeout expirations after it was last
\* refreshed, once, and not at all when it was cancelled.
WheelPromise == Countdown!Spec
=============================================================================
