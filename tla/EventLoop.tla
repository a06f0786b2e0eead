------------------------------ MODULE EventLoop ------------------------------
(***************************************************************************)
(* The network layer of both server processes: one EventLoop, its timer    *)
(* wheel, the acceptor and the TCP connections with the HTTP server's      *)
(* callbacks (net/muduo.hpp, and HttpServer::OnMessage of net/http.hpp).   *)
(* No process asks for more than the base loop, so one thread runs it all: *)
(* it polls, handles the channels that are ready one by one, then runs the *)
(* queued tasks.  Handlers may take long (a judge worker compiles and runs *)
(* a program in one), so clients, the network and the clock act between    *)
(* any two steps of the loop.                                              *)
(*                                                                         *)
(* A request is `keep' (keep-alive), `close' (Connection: close) or `bad'  *)
(* (refused by the parser).  A request arrives whole: an incomplete one    *)
(* leaves every callback without effect.                                   *)
(***************************************************************************)
EXTENDS TimerWheel, Sequences, SequencesExt

CONSTANTS
    MaxRequests, \* per connection: requests its client may send
    MayHangUp,   \* connections whose clients may close or reset them
    MaxDue       \* expirations of the clock the loop may lag behind

ASSUME LoopAssumption ==
    /\ MaxRequests \in [Timers -> Nat]
    /\ MayHangUp \subseteq Timers
    /\ MaxDue \in Nat \ {0}
    /\ {"listen", "timerfd"} \cap Timers = {}  \* the names of the other channels

Conns == Timers  \* the timer of a connection has the connection's id

Requests == {"keep", "close", "bad"}

VARIABLES
    phase,   \* where Start and Channel::HandleEvent are
    actives, \* channels still to be handled in this pass: [ch, ev]
    tasks,   \* _tasks: connections whose ReleaseInLoop is queued
    due,     \* expirations of the timer descriptor not yet read
    statu,   \* _statu, "absent" before the connection is accepted
    alive,   \* the server holds a pointer to the Connection
    writing, \* the channel is monitored for EPOLLOUT
    inb,     \* _in_buffer: requests
    outb,    \* _out_buffer: how many responses
    net,     \* received and not yet read by the process: requests
    peer,    \* the client: "off", "open", "fin" (closed) or "rst" (reset)
    asked    \* how many requests the client has sent

loopVars == <<phase, actives, tasks, due>>
connVars == <<statu, alive, writing, inb, outb>>
netVars == <<net, peer, asked>>
vars == <<wheelVars, loopVars, connVars, netVars>>

Init ==
    /\ WheelInit
    /\ phase = "poll" /\ actives = <<>> /\ tasks = <<>> /\ due = 0
    /\ statu = [c \in Conns |-> "absent"]
    /\ alive = [c \in Conns |-> FALSE]
    /\ writing = [c \in Conns |-> FALSE]
    /\ inb = [c \in Conns |-> <<>>]
    /\ outb = [c \in Conns |-> 0]
    /\ net = [c \in Conns |-> <<>>]
    /\ peer = [c \in Conns |-> "off"]
    /\ asked = [c \in Conns |-> 0]
-----------------------------------------------------------------------------
(***************************************************************************)
(* Clients, network and clock.                                             *)
(***************************************************************************)
Connect(c) ==
    /\ peer[c] = "off"
    /\ peer' = [peer EXCEPT ![c] = "open"]
    /\ UNCHANGED <<wheelVars, loopVars, connVars, net, asked>>

Ask(c, r) ==
    /\ peer[c] = "open" /\ asked[c] < MaxRequests[c]
    /\ asked' = [asked EXCEPT ![c] = @ + 1]
    /\ net' = IF statu[c] = "DISCONNECTED" THEN net ELSE [net EXCEPT ![c] = Append(@, r)]
    /\ UNCHANGED <<wheelVars, loopVars, connVars, peer>>

HangUp(c, how) ==
    /\ c \in MayHangUp /\ peer[c] = "open"
    /\ peer' = [peer EXCEPT ![c] = how]
    /\ UNCHANGED <<wheelVars, loopVars, connVars, net, asked>>

\* One second passes.
ClockTick ==
    /\ due < MaxDue
    /\ due' = due + 1
    /\ UNCHANGED <<wheelVars, phase, actives, tasks, connVars, netVars>>
-----------------------------------------------------------------------------
(***************************************************************************)
(* The loop: epoll_wait.                                                   *)
(***************************************************************************)

\* The events epoll may report for c; whether the socket takes more output
\* is up to the network.
Events(c) ==
    LET sure == (IF net[c] # <<>> \/ peer[c] # "open" THEN {"IN"} ELSE {})
                \cup (IF peer[c] = "rst" THEN {"ERR"} ELSE {})
                \cup (IF peer[c] = "rst" /\ writing[c] THEN {"OUT"} ELSE {})
    IN  {sure} \cup (IF writing[c] THEN {sure \cup {"OUT"}} ELSE {})

\* Connections whose channels the Poller has.
Watched == {c \in Conns : alive[c]}

\* The ready channels, in any order.
Poll ==
    /\ phase = "poll"
    /\ \E ev \in [Watched -> SUBSET {"IN", "OUT", "ERR"}] :
          /\ \A c \in DOMAIN ev : ev[c] \in Events(c)
          /\ LET ready == {[ch |-> c, ev |-> ev[c]] : c \in {d \in DOMAIN ev : ev[d] # {}}}
                       \cup (IF due > 0 THEN {[ch |-> "timerfd", ev |-> {"IN"}]} ELSE {})
                       \cup (IF \E c \in Conns : statu[c] = "absent" /\ peer[c] # "off"
                             THEN {[ch |-> "listen", ev |-> {"IN"}]} ELSE {})
             IN  ready # {} /\ actives' \in SetToSeqs(ready)
    /\ phase' = "read"
    /\ UNCHANGED <<wheelVars, tasks, due, connVars, netVars>>

Current == Head(actives)

\* HandleEvent of the current channel is over.
NextChannel ==
    /\ actives' = Tail(actives)
    /\ phase' = IF Len(actives) = 1 THEN "tasks" ELSE "read"

\* TimerWheel::OnTime: the callback of an inactivity timer queues a release.
HandleTimer ==
    /\ phase = "read" /\ Current.ch = "timerfd"
    /\ OnTime(due)
    /\ \E released \in SetToSeqs(Fired(due)) : tasks' = tasks \o released
    /\ due' = 0
    /\ NextChannel
    /\ UNCHANGED <<connVars, netVars>>

Established(c) ==
    /\ statu' = [statu EXCEPT ![c] = "CONNECTED"]
    /\ alive' = [alive EXCEPT ![c] = TRUE]

\* Mutant: EnableInactiveRelease is forgotten.
NewConnection_NoTimer(c) ==
    /\ Established(c)
    /\ UNCHANGED wheelVars

\* The inactivity timer is started, then the connection is established, all
\* in the loop thread.
NewConnection(c) ==
    /\ TimerAdd(c)
    /\ Established(c)

\* Acceptor::HandleRead.
HandleAccept ==
    /\ phase = "read" /\ Current.ch = "listen"
    /\ \E c \in Conns :
          /\ statu[c] = "absent" /\ peer[c] # "off"
          /\ NewConnection(c)
    /\ NextChannel
    /\ UNCHANGED <<tasks, due, writing, inb, outb, netVars>>
-----------------------------------------------------------------------------
(***************************************************************************)
(* HttpServer::OnMessage as the message callback.                          *)
(***************************************************************************)

\* Requests of q that are answered: up to the first one that is refused,
\* after which the buffer is thrown away.
Answered(q) ==
    IF \E i \in DOMAIN q : q[i] = "bad"
    THEN CHOOSE i \in DOMAIN q : q[i] = "bad" /\ \A k \in 1..(i - 1) : q[k] # "bad"
    ELSE Len(q)

\* One of the answers closes the connection.  Shutdown calls OnMessage again
\* for the rest of the buffer, so the requests behind are answered as well.
Closing(q) == \E i \in 1..Answered(q) : q[i] # "keep"

\* n answers go to the output buffer, and the channel is watched for EPOLLOUT.
SendInLoop(c, n) ==
    /\ outb' = [outb EXCEPT ![c] = @ + n]
    /\ writing' = [writing EXCEPT ![c] = @ \/ n > 0]

\* The connection is marked.  It would be released at once if the output
\* buffer were empty, but the answer that closes it is in the buffer.
ShutdownInLoop(c) == statu' = [statu EXCEPT ![c] = "DISCONNECTING"]

\* All of q is consumed.
OnMessage(c, q) ==
    /\ SendInLoop(c, Answered(q))
    /\ IF Closing(q) THEN ShutdownInLoop(c) ELSE UNCHANGED statu
    /\ inb' = [inb EXCEPT ![c] = <<>>]
-----------------------------------------------------------------------------
(***************************************************************************)
(* Channel::HandleEvent of a connection: read; then one of write and       *)
(* error; then the refresh of the inactivity timer.                        *)
(***************************************************************************)

QueueInLoop(c) == tasks' = Append(tasks, c)

\* ReleaseInLoop is queued: the connection outlives this pass's handlers.
Release(c) == QueueInLoop(c)

\* Recv takes all there is; Close gives up what was not received.
Drained(c) == net' = [net EXCEPT ![c] = <<>>]

AtConn(c, p) == phase = p /\ actives # <<>> /\ Current.ch = c

\* No readable event.
SkipRead(c) ==
    /\ AtConn(c, "read") /\ "IN" \notin Current.ev
    /\ phase' = "rest"
    /\ UNCHANGED <<wheelVars, actives, tasks, due, connVars, netVars>>

\* HandleRead gets data; a connection that is closing only stores it.
HandleRead(c) ==
    /\ AtConn(c, "read") /\ "IN" \in Current.ev /\ net[c] # <<>>
    /\ Drained(c)
    /\ IF statu[c] = "CONNECTED"
       THEN OnMessage(c, inb[c] \o net[c])
       ELSE inb' = [inb EXCEPT ![c] = @ \o net[c]] /\ UNCHANGED <<statu, writing, outb>>
    /\ phase' = "rest"
    /\ UNCHANGED <<wheelVars, actives, tasks, due, alive, peer, asked>>

\* HandleRead finds the end of the stream or an error.
HandleReadEnd(c) ==
    /\ AtConn(c, "read") /\ "IN" \in Current.ev /\ net[c] = <<>>
    /\ Release(c)
    /\ phase' = "rest"
    /\ UNCHANGED <<wheelVars, actives, due, connVars, netVars>>

\* Neither EPOLLOUT nor an error.
SkipRest(c) ==
    /\ AtConn(c, "rest") /\ Current.ev \cap {"OUT", "ERR"} = {}
    /\ phase' = "event"
    /\ UNCHANGED <<wheelVars, actives, tasks, due, connVars, netVars>>

\* Mutant: a closing connection is released with output pending.
HandleWrite_ReleaseEarly(c) ==
    /\ AtConn(c, "rest") /\ "OUT" \in Current.ev /\ peer[c] # "rst"
    /\ \E n \in 1..outb[c] :
          /\ outb' = [outb EXCEPT ![c] = @ - n]
          /\ writing' = [writing EXCEPT ![c] = (n < outb[c])]
          /\ IF statu[c] = "DISCONNECTING" THEN Release(c) ELSE UNCHANGED tasks
    /\ phase' = "event"
    /\ UNCHANGED <<wheelVars, actives, due, statu, alive, inb, netVars>>

\* HandleWrite sends some of the output.  When all is sent it stops watching
\* for EPOLLOUT and releases a connection that was closing.
HandleWrite(c) ==
    /\ AtConn(c, "rest") /\ "OUT" \in Current.ev /\ peer[c] # "rst"
    /\ \E n \in 1..outb[c] :
          /\ outb' = [outb EXCEPT ![c] = @ - n]
          /\ writing' = [writing EXCEPT ![c] = (n < outb[c])]
          /\ IF n = outb[c] /\ statu[c] = "DISCONNECTING" THEN Release(c) ELSE UNCHANGED tasks
    /\ phase' = "event"
    /\ UNCHANGED <<wheelVars, actives, due, statu, alive, inb, netVars>>

\* HandleWrite fails, or HandleError or HandleClose is called: what is in the
\* input buffer is handled, and the connection is released.
HandleFailure(c) ==
    /\ AtConn(c, "rest")
    /\ \/ "OUT" \in Current.ev /\ peer[c] \in {"fin", "rst"}
       \/ "OUT" \notin Current.ev /\ "ERR" \in Current.ev
    /\ IF inb[c] # <<>> THEN OnMessage(c, inb[c])
                        ELSE UNCHANGED <<outb, writing, statu, inb>>
    /\ Release(c)
    /\ phase' = "event"
    /\ UNCHANGED <<wheelVars, actives, due, alive, netVars>>

\* HandleEvent, after any event.
HandleEvent(c) ==
    /\ AtConn(c, "event")
    /\ TimerRefresh(c)
    /\ NextChannel
    /\ UNCHANGED <<tasks, due, connVars, netVars>>
-----------------------------------------------------------------------------
(***************************************************************************)
(* RunAllTask.  No task queues another, so taking them one by one is the   *)
(* same as swapping the vector first.                                      *)
(***************************************************************************)

\* The server's pointer goes, and the object with it.
RemoveConnection(c) == alive' = [alive EXCEPT ![c] = FALSE]

\* Mutant: tasks run before all channels have been handled.
ReleaseInLoop_Early(c) ==
    /\ phase \in {"read", "tasks"} /\ tasks # <<>> /\ Head(tasks) = c /\ alive[c]
    /\ statu' = [statu EXCEPT ![c] = "DISCONNECTED"]
    /\ Drained(c)
    /\ TimerCancel(c)
    /\ RemoveConnection(c)
    /\ tasks' = Tail(tasks)
    /\ UNCHANGED <<phase, actives, due, writing, inb, outb, peer, asked>>

\* Mutant: the inactivity timer is not cancelled.
ReleaseInLoop_KeepTimer(c) ==
    /\ phase = "tasks" /\ tasks # <<>> /\ Head(tasks) = c /\ alive[c]
    /\ statu' = [statu EXCEPT ![c] = "DISCONNECTED"]
    /\ Drained(c)
    /\ RemoveConnection(c)
    /\ tasks' = Tail(tasks)
    /\ UNCHANGED <<wheelVars, phase, actives, due, writing, inb, outb, peer, asked>>

\* The connection is torn down: status, event monitoring, descriptor, timer,
\* and last the server's pointer.
ReleaseInLoop(c) ==
    /\ phase = "tasks" /\ tasks # <<>> /\ Head(tasks) = c /\ alive[c]
    /\ statu' = [statu EXCEPT ![c] = "DISCONNECTED"]
    /\ Drained(c)
    /\ TimerCancel(c)
    /\ RemoveConnection(c)
    /\ tasks' = Tail(tasks)
    /\ UNCHANGED <<phase, actives, due, writing, inb, outb, peer, asked>>

\* ReleaseInLoop on a Connection that was destroyed by a task before it.  It
\* reads _statu of the freed object; nothing has used the memory since, so
\* it finds DISCONNECTED and returns.  (The language promises nothing here.)
ReleaseAgain(c) ==
    /\ phase = "tasks" /\ tasks # <<>> /\ Head(tasks) = c /\ ~alive[c]
    /\ tasks' = Tail(tasks)
    /\ UNCHANGED <<wheelVars, phase, actives, due, connVars, netVars>>

TasksDone ==
    /\ phase = "tasks" /\ tasks = <<>>
    /\ phase' = "poll"
    /\ UNCHANGED <<wheelVars, actives, tasks, due, connVars, netVars>>
-----------------------------------------------------------------------------
ClientNext(c) ==
    \/ Connect(c)
    \/ \E r \in Requests : Ask(c, r)
    \/ \E how \in {"fin", "rst"} : HangUp(c, how)

ConnNext(c) ==
    \/ SkipRead(c) \/ HandleRead(c) \/ HandleReadEnd(c)
    \/ SkipRest(c) \/ HandleWrite(c) \/ HandleFailure(c)
    \/ HandleEvent(c) \/ ReleaseInLoop(c) \/ ReleaseAgain(c)

LoopNext ==
    \/ Poll \/ HandleTimer \/ HandleAccept \/ TasksDone
    \/ \E c \in Conns : ConnNext(c)

Next == ClockTick \/ LoopNext \/ \E c \in Conns : ClientNext(c)

Spec == Init /\ [][Next]_vars

\* The loop thread runs, handlers return, and time passes.  Clients owe
\* nothing.
FairSpec == Spec /\ WF_vars(LoopNext) /\ WF_vars(ClockTick)
-----------------------------------------------------------------------------
\* Type invariant.
TypeOK ==
    /\ WheelTypeOK
    /\ phase \in {"poll", "read", "rest", "event", "tasks"}
    /\ actives \in Seq([ch : Conns \cup {"listen", "timerfd"},
                        ev : SUBSET {"IN", "OUT", "ERR"}])
    /\ tasks \in Seq(Conns)
    /\ due \in 0..MaxDue
    /\ statu \in [Conns -> {"absent", "CONNECTED", "DISCONNECTING", "DISCONNECTED"}]
    /\ alive \in [Conns -> BOOLEAN] /\ writing \in [Conns -> BOOLEAN]
    /\ inb \in [Conns -> Seq(Requests)] /\ net \in [Conns -> Seq(Requests)]
    /\ \A c \in Conns : outb[c] \in 0..asked[c] /\ asked[c] \in 0..MaxRequests[c]
    /\ peer \in [Conns -> {"off", "open", "fin", "rst"}]

\* The loop keeps raw pointers to the channels it has yet to handle; none of
\* them is destroyed before its turn.  This is why Release queues its work.
ActivesAlive ==
    \A k \in DOMAIN actives : actives[k].ch \in Conns => alive[actives[k].ch]

\* A connection watches for EPOLLOUT exactly while it has something to send:
\* no response is stuck in the buffer, and the loop does not spin.
WriteInterest == \A c \in Conns : alive[c] => (writing[c] <=> outb[c] > 0)

\* A connection that is torn down with a response unsent has lost its client
\* or exceeded its time: Connection: close never cuts a response off.
DrainBeforeClose ==
    \A c \in Conns : statu[c] = "DISCONNECTED" /\ outb[c] > 0 =>
        peer[c] # "open" \/ c \in expired

\* What is sent is written, before and within a close.
OutputInv == WriteInterest /\ DrainBeforeClose

\* Releases of c that are queued.
Queued(c) == Cardinality({k \in DOMAIN tasks : tasks[k] = c})

\* Once a connection is destroyed nothing queues a release for it, above all
\* not its inactivity timer, which holds a raw pointer to it and may stay in
\* the wheel for long; a release that was queued before runs in the batch of
\* tasks that destroyed it, before memory is used for anything else.
NoLateRelease ==
    [][\A c \in Conns : statu[c] = "DISCONNECTED" =>
          /\ Queued(c)' <= Queued(c)
          /\ Queued(c) > 0 => phase = "tasks"]_vars

\* Every connection that is accepted is torn down in the end: a client that
\* falls silent, or never reads, does not keep it for ever.
NoConnectionLeak == \A c \in Conns : alive[c] ~> ~alive[c]
=============================================================================
