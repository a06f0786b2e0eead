----------------------------- MODULE MCInactivity -----------------------------
(***************************************************************************)
(* EventLoop with a history variable, for a claim about inactivity.  The   *)
(* loop is as prompt as can be: it lags behind the clock only while a      *)
(* request is being handled (a worker judges for longer than the timeout). *)
(***************************************************************************)
EXTENDS EventLoop

CONSTANTS c1, c2

TwoConns == {c1, c2}
SecondSilent == [c \in TwoConns |-> IF c = c1 THEN 1 ELSE 0]

VARIABLE idle  \* seconds since the connection was accepted or last handled

\* The loop accepts c, or comes to the end of an event of c.
Handled(c) ==
    \/ statu[c] = "absent" /\ statu'[c] = "CONNECTED"
    \/ AtConn(c, "event") /\ actives' # actives

IdleInit == Init /\ idle = [c \in Conns |-> 0]

IdleNext ==
    /\ Next
    /\ due' > due => due = 0 \/ phase = "rest"
    /\ idle' = [c \in Conns |-> IF Handled(c) THEN 0
                                ELSE IF due' > due /\ idle[c] < Timeout THEN idle[c] + 1
                                ELSE idle[c]]

IdleSpec == IdleInit /\ [][IdleNext]_<<vars, idle>>

\* The comment on TcpServer::_timeout: a connection counts as inactive when
\* it has not communicated for that long (to within one expiration).
InactiveIsInactive ==
    [][\A c \in Conns : c \in expired' \ expired => idle[c] >= Timeout - 1]_<<vars, idle>>
=============================================================================
