---------------------------- MODULE EventLoop_proofs ----------------------------
(***************************************************************************)
(* Theorems about EventLoop: no channel is destroyed before its turn, no   *)
(* release reaches a connection that is gone for long, and a response is   *)
(* cut off only with a lost client or after the timeout.  They hold for    *)
(* any connections, requests and lag of the clock.                         *)
(***************************************************************************)
EXTENDS EventLoop, FiniteSetTheorems, SequenceTheorems, NaturalsInduction, WellFoundedInduction, TLAPS

-----------------------------------------------------------------------------
(***************************************************************************)
(* Facts about the data.                                                   *)
(***************************************************************************)
LEMMA Least ==
    ASSUME NEW T \in SUBSET Nat, T # {}
    PROVE  \E n \in T : \A m \in T : n <= m
  <1> DEFINE R == OpToRel(<, Nat)
  <1>1. IsWellFoundedOn(R, Nat)
    BY NatLessThanWellFounded
  <1>2. \A x, y \in Nat : x < y => <<x, y>> \in R
    BY DEF OpToRel
  <1> HIDE DEF R
  <1>3. PICK n \in T : \A y \in T : ~(<<y, n>> \in R)
    BY <1>1, WFMin
  <1>4. \A m \in T : ~(m < n)
    BY <1>2, <1>3
  <1>5. \A m \in T : n <= m
    BY <1>4
  <1> QED
    BY <1>5

\* The order in which a finite set is worked off.
LEMMA Orders ==
    ASSUME NEW S, IsFiniteSet(S), NEW s \in SetToSeqs(S)
    PROVE  /\ s \in Seq(S) /\ Len(s) = Cardinality(S) /\ Len(s) \in Nat
           /\ DOMAIN s = 1..Len(s) /\ \A k \in 1..Len(s) : s[k] \in S
           /\ \A i, j \in 1..Len(s) : i # j => s[i] # s[j]
  <1>1. Cardinality(S) \in Nat
    BY FS_CardinalityType
  <1>2. s \in [1..Cardinality(S) -> S]
    BY DEF SetToSeqs
  <1>3. s \in Seq(S) /\ Len(s) = Cardinality(S)
    BY <1>1, <1>2
  <1>4. \A i, j \in 1..Cardinality(S) : i # j => s[i] # s[j]
    BY DEF SetToSeqs
  <1> QED
    BY <1>1, <1>2, <1>3, <1>4

\* At most the requests that there are get answered.
LEMMA AnsweredBound ==
    ASSUME NEW q \in Seq(Requests)
    PROVE  Answered(q) \in 0..Len(q) /\ Len(q) \in Nat
  <1>1. Len(q) \in Nat /\ DOMAIN q = 1..Len(q)
    BY LenProperties
  <1>2. CASE \E i \in DOMAIN q : q[i] = "bad"
    <2> DEFINE bad == {i \in 1..Len(q) : q[i] = "bad"}
    <2>1. bad \in SUBSET Nat /\ bad # {}
      BY <1>1, <1>2
    <2>2. PICK n \in bad : \A m \in bad : n <= m
      BY <2>1, Least
    <2>3. n \in DOMAIN q /\ q[n] = "bad" /\ \A k \in 1..(n - 1) : q[k] # "bad"
      BY <1>1, <2>2
    <2>4. Answered(q) \in DOMAIN q
      BY <1>2, <2>3 DEF Answered
    <2> QED
      BY <1>1, <2>4
  <1>3. CASE ~\E i \in DOMAIN q : q[i] = "bad"
    BY <1>1, <1>3 DEF Answered
  <1> QED
    BY <1>2, <1>3
-----------------------------------------------------------------------------
(***************************************************************************)
(* The invariant.                                                          *)
(***************************************************************************)
Ready == [ch : Conns \cup {"listen", "timerfd"}, ev : SUBSET {"IN", "OUT", "ERR"}]

Types ==
    /\ WheelTypeOK
    /\ phase \in {"poll", "read", "rest", "event", "tasks"}
    /\ actives \in Seq(Ready) /\ tasks \in Seq(Conns) /\ due \in 0..MaxDue
    /\ statu \in [Conns -> {"absent", "CONNECTED", "DISCONNECTING", "DISCONNECTED"}]
    /\ alive \in [Conns -> BOOLEAN] /\ writing \in [Conns -> BOOLEAN]
    /\ inb \in [Conns -> Seq(Requests)] /\ net \in [Conns -> Seq(Requests)]
    /\ outb \in [Conns -> Nat] /\ asked \in [Conns -> Nat]
    /\ peer \in [Conns -> {"off", "open", "fin", "rst"}]

\* Every response has been asked for.
Counts ==
    \A c \in Conns : outb[c] + Len(inb[c]) + Len(net[c]) <= asked[c] /\ asked[c] <= MaxRequests[c]

\* The life of a connection.
Life(c) ==
    /\ alive[c] <=> statu[c] \in {"CONNECTED", "DISCONNECTING"}
    /\ statu[c] = "absent" =>
          timer[c] = "none" /\ ~writing[c] /\ outb[c] = 0 /\ inb[c] = <<>>
    /\ statu[c] # "absent" => peer[c] # "off"
    /\ timer[c] = "armed" => alive[c]
    /\ alive[c] => (writing[c] <=> outb[c] > 0)
    /\ statu[c] = "DISCONNECTED" /\ outb[c] > 0 => peer[c] # "open" \/ c \in expired

\* What the loop has yet to handle is alive, and what epoll said of it holds.
Promised(a) ==
    a.ch \in Conns => alive[a.ch] /\ ("ERR" \in a.ev => peer[a.ch] = "rst")

Readable(a) ==
    a.ch \in Conns /\ "IN" \in a.ev => net[a.ch] # <<>> \/ peer[a.ch] # "open"

Pass ==
    /\ phase \in {"poll", "tasks"} <=> actives = <<>>
    /\ phase \in {"rest", "event"} => actives[1].ch \in Conns
    /\ \A k \in 1..Len(actives) : Promised(actives[k])
    /\ \A k \in 1..Len(actives) : k > 1 \/ phase = "read" => Readable(actives[k])
    /\ \A i, k \in 1..Len(actives) : i # k => actives[i].ch # actives[k].ch

\* A release is queued for a connection that has nothing to send, or whose
\* client is gone, or whose time is over.
Reason(c) ==
    /\ statu[c] # "absent"
    /\ statu[c] = "DISCONNECTED" => phase = "tasks"
    /\ \/ statu[c] \in {"DISCONNECTING", "DISCONNECTED"} /\ outb[c] = 0
       \/ peer[c] # "open"
       \/ c \in expired

Releases ==
    /\ phase = "poll" => tasks = <<>>
    /\ \A k \in 1..Len(tasks) : Reason(tasks[k])

IInv == Types /\ Counts /\ (\A c \in Conns : Life(c)) /\ Pass /\ Releases
-----------------------------------------------------------------------------
(***************************************************************************)
(* What the pieces of the handlers do.                                     *)
(***************************************************************************)
LEMMA Moduli ==
    ASSUME NEW n \in Nat \ {0}, NEW x \in Int
    PROVE  x % n \in 0..(n - 1)
  OBVIOUS

\* The wheel's operations keep its types.
LEMMA WheelTypes ==
    ASSUME WheelTypeOK, NEW c \in Conns,
           TimerAdd(c) \/ TimerRefresh(c) \/ TimerCancel(c) \/ UNCHANGED wheelVars
    PROVE  WheelTypeOK'
  <1>1. Capacity \in Nat \ {0} /\ Timeout \in Int /\ tick \in Int
    BY WheelAssumption DEF WheelTypeOK, Positions
  <1>2. Ahead \in Positions
    BY <1>1, Moduli DEF Ahead, Positions
  <1>3. CASE TimerAdd(c)
    BY <1>2, <1>3 DEF TimerAdd, WheelTypeOK, Conns
  <1>4. CASE TimerRefresh(c)
    BY <1>2, <1>4 DEF TimerRefresh, WheelTypeOK, Conns
  <1>5. CASE TimerCancel(c)
    BY <1>5 DEF TimerCancel, WheelTypeOK, Conns
  <1>6. CASE UNCHANGED wheelVars
    BY <1>6 DEF wheelVars, WheelTypeOK, Positions
  <1> QED
    BY <1>3, <1>4, <1>5, <1>6

LEMMA OnTimeTypes ==
    ASSUME WheelTypeOK, NEW times \in Nat, OnTime(times)
    PROVE  WheelTypeOK' /\ Fired(times) \subseteq Conns /\ IsFiniteSet(Fired(times))
  <1>1. Capacity \in Nat \ {0} /\ tick \in Int /\ IsFiniteSet(Timers)
    BY WheelAssumption DEF WheelTypeOK, Positions
  <1>2. tick' \in Positions
    BY <1>1, Moduli DEF OnTime, Positions
  <1>3. Fired(times) \in SUBSET Timers
    BY DEF Fired, Dropped
  <1>4. slots' \in [Timers -> SUBSET Positions] /\ timer' \in [Timers -> {"none", "armed", "canceled"}]
    BY DEF OnTime, WheelTypeOK
  <1>5. expired' \subseteq Timers
    BY <1>3 DEF OnTime, WheelTypeOK
  <1> QED
    BY <1>1, <1>2, <1>3, <1>4, <1>5, FS_Subset DEF WheelTypeOK, Conns, Positions

\* The channel in hand.
LEMMA InHand ==
    ASSUME Types, Pass, phase \notin {"poll", "tasks"}
    PROVE  /\ Len(actives) \in Nat \ {0} /\ actives \in Seq(Ready) /\ actives # <<>>
           /\ Current = actives[1] /\ actives[1] \in Ready
  <1>1. actives # <<>> /\ actives \in Seq(Ready) /\ Len(actives) \in Nat
    BY LenProperties DEF Types, Pass
  <1>2. Len(actives) # 0
    BY <1>1, EmptySeq
  <1>3. actives[1] \in Ready
    BY <1>1, <1>2, ElementOfSeq
  <1> QED
    BY <1>1, <1>2, <1>3 DEF Current

\* The next channel in hand.
LEMMA NextChannelEffect ==
    ASSUME Types, Pass, phase \notin {"poll", "tasks"}, NextChannel
    PROVE  /\ actives' \in Seq(Ready) /\ Len(actives') = Len(actives) - 1 /\ Len(actives') \in Nat
           /\ \A k \in 1..Len(actives') : k + 1 \in 1..Len(actives) /\ actives'[k] = actives[k + 1]
           /\ phase' = IF actives' = <<>> THEN "tasks" ELSE "read"
  <1>1. Len(actives) \in Nat \ {0} /\ actives \in Seq(Ready) /\ actives # <<>>
    BY InHand
  <1>2. /\ actives' \in Seq(Ready) /\ Len(actives') = Len(actives) - 1
        /\ \A k \in 1..Len(actives') : actives'[k] = actives[k + 1]
    BY <1>1, HeadTailProperties DEF NextChannel
  <1>3. actives' = <<>> <=> Len(actives') = 0
    BY <1>2, EmptySeq
  <1> QED
    BY <1>1, <1>2, <1>3 DEF NextChannel

\* A connection whose channel is in hand.
LEMMA ConnInHand ==
    ASSUME IInv, NEW c \in Conns, NEW p \in {"read", "rest", "event"}, AtConn(c, p)
    PROVE  /\ actives[1].ch = c /\ Current = actives[1] /\ 1 \in 1..Len(actives) /\ phase = p
           /\ alive[c] /\ statu[c] \in {"CONNECTED", "DISCONNECTING"} /\ peer[c] # "off"
           /\ "ERR" \in Current.ev => peer[c] = "rst"
           /\ p = "read" /\ "IN" \in Current.ev => net[c] # <<>> \/ peer[c] # "open"
           /\ \A k \in 2..Len(actives) : actives[k].ch # c
  <1>1. /\ Len(actives) \in Nat \ {0} /\ Current = actives[1] /\ actives[1].ch = c /\ phase = p
    BY InHand DEF AtConn, IInv
  <1>2. 1 \in 1..Len(actives)
    BY <1>1
  <1>3. Promised(actives[1]) /\ (p = "read" => Readable(actives[1])) /\ Life(c)
    BY <1>1, <1>2 DEF IInv, Pass
  <1>4. \A k \in 2..Len(actives) : k \in 1..Len(actives) /\ k # 1
    BY <1>1
  <1>5. \A k \in 2..Len(actives) : actives[k].ch # c
    BY <1>1, <1>2, <1>4 DEF IInv, Pass
  <1> QED
    BY <1>1, <1>2, <1>3, <1>5 DEF Promised, Readable, Life

LEMMA OnMessageEffect ==
    ASSUME Types, NEW c \in Conns, NEW q \in Seq(Requests), OnMessage(c, q)
    PROVE  \E n \in 0..Len(q) :
              /\ outb' = [outb EXCEPT ![c] = @ + n]
              /\ writing' = [writing EXCEPT ![c] = @ \/ n > 0]
              /\ inb' = [inb EXCEPT ![c] = <<>>]
              /\ UNCHANGED statu \/ statu' = [statu EXCEPT ![c] = "DISCONNECTING"]
  BY AnsweredBound DEF OnMessage, SendInLoop, ShutdownInLoop

LEMMA ReleaseEffect ==
    ASSUME Types, NEW c \in Conns, Release(c)
    PROVE  /\ tasks' \in Seq(Conns) /\ Len(tasks') = Len(tasks) + 1 /\ Len(tasks) \in Nat
           /\ \A k \in 1..Len(tasks) : tasks'[k] = tasks[k]
           /\ tasks'[Len(tasks) + 1] = c
  BY AppendProperties, LenProperties DEF Types, Release, QueueInLoop

LEMMA TasksTail ==
    ASSUME Types, tasks # <<>>, tasks' = Tail(tasks)
    PROVE  /\ tasks' \in Seq(Conns) /\ Len(tasks') = Len(tasks) - 1 /\ Len(tasks) \in Nat \ {0}
           /\ \A k \in 1..Len(tasks') : tasks'[k] = tasks[k + 1] /\ k + 1 \in 1..Len(tasks)
           /\ Head(tasks) = tasks[1] /\ Head(tasks) \in Conns
  <1>1. tasks \in Seq(Conns) /\ Len(tasks) \in Nat /\ Len(tasks) # 0
    BY LenProperties, EmptySeq DEF Types
  <1>2. /\ tasks' \in Seq(Conns) /\ Len(tasks') = Len(tasks) - 1 /\ Head(tasks) \in Conns
        /\ \A k \in 1..Len(tasks') : tasks'[k] = tasks[k + 1]
    BY <1>1, HeadTailProperties
  <1>3. Head(tasks) = tasks[1]
    BY <1>1
  <1> QED
    BY <1>1, <1>2, <1>3

\* The releases the wheel queues.
LEMMA ReleasedEffect ==
    ASSUME Types, HandleTimer
    PROVE  /\ due \in Nat /\ OnTime(due)
           /\ \E released \in Seq(Conns) :
                 /\ tasks' = tasks \o released /\ tasks' \in Seq(Conns)
                 /\ Len(tasks) \in Nat /\ Len(released) \in Nat
                 /\ Len(tasks') = Len(tasks) + Len(released)
                 /\ \A k \in 1..Len(tasks) : tasks'[k] = tasks[k]
                 /\ \A k \in 1..Len(tasks') : k > Len(tasks) =>
                       k - Len(tasks) \in 1..Len(released) /\ tasks'[k] = released[k - Len(tasks)]
                 /\ \A k \in 1..Len(released) : released[k] \in Fired(due)
  <1>1. WheelTypeOK /\ due \in Nat /\ OnTime(due) /\ tasks \in Seq(Conns) /\ Len(tasks) \in Nat
    BY LoopAssumption, LenProperties DEF Types, HandleTimer
  <1>2. IsFiniteSet(Fired(due)) /\ Fired(due) \subseteq Conns
    BY <1>1, OnTimeTypes
  <1>3. PICK released \in SetToSeqs(Fired(due)) : tasks' = tasks \o released
    BY DEF HandleTimer
  <1>4. /\ released \in Seq(Fired(due)) /\ Len(released) \in Nat
        /\ \A k \in 1..Len(released) : released[k] \in Fired(due)
    BY <1>2, Orders
  <1>5. released \in Seq(Conns)
    BY <1>2, <1>4, SeqMonotonic
  <1>6. /\ tasks' \in Seq(Conns) /\ Len(tasks') = Len(tasks) + Len(released)
        /\ \A k \in 1..(Len(tasks) + Len(released)) :
              tasks'[k] = IF k <= Len(tasks) THEN tasks[k] ELSE released[k - Len(tasks)]
    BY <1>1, <1>3, <1>5, ConcatProperties
  <1>7. \A k \in 1..Len(tasks') : k > Len(tasks) => k - Len(tasks) \in 1..Len(released)
    BY <1>1, <1>4, <1>6
  <1>8. \A k \in 1..Len(tasks) : tasks'[k] = tasks[k]
    BY <1>1, <1>4, <1>6
  <1>9. \A k \in 1..Len(tasks') : k > Len(tasks) => tasks'[k] = released[k - Len(tasks)]
    BY <1>1, <1>4, <1>6
  <1> QED
    BY <1>1, <1>3, <1>4, <1>5, <1>6, <1>7, <1>8, <1>9

\* What epoll reports.
LEMMA PollEffect ==
    ASSUME Types, Poll
    PROVE  /\ actives' \in Seq(Ready) /\ Len(actives') \in Nat \ {0} /\ actives' # <<>>
           /\ \A k \in 1..Len(actives') :
                 actives'[k].ch \in Conns =>
                    alive[actives'[k].ch] /\ actives'[k].ev \in Events(actives'[k].ch)
           /\ \A i, k \in 1..Len(actives') : i # k => actives'[i].ch # actives'[k].ch
  <1> DEFINE conns(ev) == {[ch |-> c, ev |-> ev[c]] : c \in {d \in DOMAIN ev : ev[d] # {}}}
             clock == IF due > 0 THEN {[ch |-> "timerfd", ev |-> {"IN"}]} ELSE {}
             listen == IF \E c \in Conns : statu[c] = "absent" /\ peer[c] # "off"
                       THEN {[ch |-> "listen", ev |-> {"IN"}]} ELSE {}
             ready(ev) == conns(ev) \cup clock \cup listen
  <1>1. PICK ev \in [Watched -> SUBSET {"IN", "OUT", "ERR"}] :
            /\ \A c \in Watched : ev[c] \in Events(c)
            /\ ready(ev) # {} /\ actives' \in SetToSeqs(ready(ev))
    BY DEF Poll
  <1>2. {"listen", "timerfd"} \cap Conns = {} /\ "listen" # "timerfd" /\ IsFiniteSet(Conns)
    BY LoopAssumption, WheelAssumption DEF Conns
  <1>3. IsFiniteSet(ready(ev))
    <2>1. {d \in DOMAIN ev : ev[d] # {}} \in SUBSET Conns
      BY DEF Watched
    <2>2. IsFiniteSet({d \in DOMAIN ev : ev[d] # {}})
      BY <1>2, <2>1, FS_Subset
    <2> DEFINE f == [c \in {d \in DOMAIN ev : ev[d] # {}} |-> [ch |-> c, ev |-> ev[c]]]
    <2>3. f \in Surjection({d \in DOMAIN ev : ev[d] # {}}, conns(ev))
      BY DEF Surjection
    <2>4. IsFiniteSet(conns(ev))
      <3> HIDE DEF f, conns
      <3> QED
        BY <2>2, <2>3, FS_Surjection
    <2>5. IsFiniteSet(clock) /\ IsFiniteSet(listen)
      BY FS_EmptySet, FS_Singleton
    <2> HIDE DEF conns, clock, listen
    <2>6. IsFiniteSet(conns(ev) \cup clock)
      BY <2>4, <2>5, FS_Union
    <2> QED
      BY <2>5, <2>6, FS_Union
  <1>4. /\ ready(ev) \subseteq Ready
        /\ \A a \in ready(ev) : a.ch \in Conns => alive[a.ch] /\ a.ev \in Events(a.ch)
        /\ \A a, b \in ready(ev) : a.ch = b.ch => a = b
    <2>1. \A a \in conns(ev) :
             a \in Ready /\ a.ch \in Conns /\ alive[a.ch] /\ a.ev = ev[a.ch] /\ a.ch \in Watched
             /\ a = [ch |-> a.ch, ev |-> ev[a.ch]]
      BY DEF Watched, Ready
    <2>2. \A a \in clock : a = [ch |-> "timerfd", ev |-> {"IN"}] /\ a.ch = "timerfd" /\ a \in Ready
      BY DEF Ready
    <2>3. \A a \in listen : a = [ch |-> "listen", ev |-> {"IN"}] /\ a.ch = "listen" /\ a \in Ready
      BY DEF Ready
    <2> HIDE DEF conns, clock, listen
    <2> QED
      BY <1>1, <1>2, <2>1, <2>2, <2>3
  <1> HIDE DEF ready
  <1>5. /\ actives' \in Seq(ready(ev)) /\ Len(actives') = Cardinality(ready(ev))
        /\ Len(actives') \in Nat
        /\ \A k \in 1..Len(actives') : actives'[k] \in ready(ev)
        /\ \A i, k \in 1..Len(actives') : i # k => actives'[i] # actives'[k]
    BY <1>1, <1>3, Orders
  <1>6. Cardinality(ready(ev)) # 0
    BY <1>1, <1>3, FS_EmptySet
  <1>7. actives' \in Seq(Ready)
    BY <1>4, <1>5, SeqMonotonic
  <1>8. actives' # <<>>
    BY <1>5, <1>6, EmptySeq
  <1>9. \A i, k \in 1..Len(actives') : i # k => actives'[i].ch # actives'[k].ch
    BY <1>4, <1>5
  <1> QED
    BY <1>4, <1>5, <1>6, <1>7, <1>8, <1>9
-----------------------------------------------------------------------------
(***************************************************************************)
(* Every step keeps the invariant, one part after the other.               *)
(***************************************************************************)
\* The ways in which the parts of a connection change: requests are consumed
\* and answers appended, or output is sent.
Handles(c) ==
    \E n \in Nat :
        /\ outb' = [outb EXCEPT ![c] = @ + n]
        /\ writing' = [writing EXCEPT ![c] = @ \/ n > 0]
        /\ \E rest \in Seq(Requests), left \in Seq(Requests) :
              /\ inb' = [inb EXCEPT ![c] = rest] /\ net' = [net EXCEPT ![c] = left]
              /\ n + Len(rest) + Len(left) <= Len(inb[c]) + Len(net[c])
        /\ UNCHANGED statu \/ (statu' = [statu EXCEPT ![c] = "DISCONNECTING"])

LEMMA HandlesTyped ==
    ASSUME Types, NEW c \in Conns, Handles(c)
    PROVE  /\ outb' \in [Conns -> Nat] /\ writing' \in [Conns -> BOOLEAN]
           /\ inb' \in [Conns -> Seq(Requests)] /\ net' \in [Conns -> Seq(Requests)]
           /\ statu' \in [Conns -> {"absent", "CONNECTED", "DISCONNECTING", "DISCONNECTED"}]
           /\ outb'[c] + Len(inb'[c]) + Len(net'[c]) <= outb[c] + Len(inb[c]) + Len(net[c])
           /\ outb'[c] >= outb[c]
           /\ (writing[c] <=> outb[c] > 0) => (writing'[c] <=> outb'[c] > 0)
           /\ statu'[c] \in {statu[c], "DISCONNECTING"}
           /\ \A d \in Conns : d # c =>
                 outb'[d] = outb[d] /\ writing'[d] = writing[d] /\ inb'[d] = inb[d]
                 /\ net'[d] = net[d] /\ statu'[d] = statu[d]
  <1>1. PICK n \in Nat, rest \in Seq(Requests), left \in Seq(Requests) :
            /\ outb' = [outb EXCEPT ![c] = @ + n]
            /\ writing' = [writing EXCEPT ![c] = @ \/ n > 0]
            /\ inb' = [inb EXCEPT ![c] = rest] /\ net' = [net EXCEPT ![c] = left]
            /\ n + Len(rest) + Len(left) <= Len(inb[c]) + Len(net[c])
            /\ UNCHANGED statu \/ (statu' = [statu EXCEPT ![c] = "DISCONNECTING"])
    BY DEF Handles
  <1>2. /\ outb \in [Conns -> Nat] /\ writing \in [Conns -> BOOLEAN]
        /\ inb \in [Conns -> Seq(Requests)] /\ net \in [Conns -> Seq(Requests)]
        /\ statu \in [Conns -> {"absent", "CONNECTED", "DISCONNECTING", "DISCONNECTED"}]
    BY DEF Types
  <1>3. /\ Len(inb[c]) \in Nat /\ Len(net[c]) \in Nat /\ Len(rest) \in Nat /\ Len(left) \in Nat
        /\ outb[c] \in Nat
    BY <1>2, LenProperties
  <1>4. outb' \in [Conns -> Nat] /\ outb'[c] = outb[c] + n
        /\ \A d \in Conns : d # c => outb'[d] = outb[d]
    BY <1>1, <1>2
  <1>5. inb' \in [Conns -> Seq(Requests)] /\ inb'[c] = rest
        /\ \A d \in Conns : d # c => inb'[d] = inb[d]
    BY <1>1, <1>2
  <1>6. net' \in [Conns -> Seq(Requests)] /\ net'[c] = left
        /\ \A d \in Conns : d # c => net'[d] = net[d]
    BY <1>1, <1>2
  <1>7. statu' \in [Conns -> {"absent", "CONNECTED", "DISCONNECTING", "DISCONNECTED"}]
        /\ statu'[c] \in {statu[c], "DISCONNECTING"}
        /\ \A d \in Conns : d # c => statu'[d] = statu[d]
    BY <1>1, <1>2
  <1>8. writing' \in [Conns -> BOOLEAN] /\ (writing'[c] <=> writing[c] \/ n > 0)
        /\ \A d \in Conns : d # c => writing'[d] = writing[d]
    <2> DEFINE b == writing[c] \/ n > 0
    <2>1. writing' = [writing EXCEPT ![c] = b] /\ b \in BOOLEAN
      BY <1>1
    <2> HIDE DEF b
    <2>2. writing' \in [Conns -> BOOLEAN] /\ writing'[c] = b
          /\ \A d \in Conns : d # c => writing'[d] = writing[d]
      BY <1>2, <2>1
    <2>3. writing'[c] <=> b
      BY <2>2
    <2> QED
      BY <2>2, <2>3 DEF b
  <1>9. outb'[c] + Len(inb'[c]) + Len(net'[c]) <= outb[c] + Len(inb[c]) + Len(net[c])
    BY <1>1, <1>3, <1>4, <1>5, <1>6
  <1>10. outb'[c] >= outb[c] /\ (outb'[c] > 0 <=> outb[c] > 0 \/ n > 0)
    BY <1>3, <1>4
  <1>11. (writing[c] <=> outb[c] > 0) => (writing'[c] <=> outb'[c] > 0)
    BY <1>8, <1>10
  <1> QED
    BY <1>4, <1>5, <1>6, <1>7, <1>8, <1>9, <1>10, <1>11

\* The steps that consume requests of a connection are of this form.
LEMMA ReadHandles ==
    ASSUME IInv, NEW c \in Conns, HandleRead(c)
    PROVE  /\ Handles(c)
           /\ UNCHANGED <<wheelVars, actives, tasks, due, alive, peer, asked>> /\ phase' = "rest"
           /\ AtConn(c, "read")
  <1>1. Types /\ inb[c] \in Seq(Requests) /\ net[c] \in Seq(Requests) /\ <<>> \in Seq(Requests)
        /\ Len(<<>>) = 0
    BY EmptySeq DEF IInv, Types
  <1>2. Len(inb[c]) \in Nat /\ Len(net[c]) \in Nat
    BY <1>1, LenProperties
  <1>3. inb[c] \o net[c] \in Seq(Requests) /\ Len(inb[c] \o net[c]) = Len(inb[c]) + Len(net[c])
    BY <1>1, ConcatProperties
  <1>4. net' = [net EXCEPT ![c] = <<>>]
    BY DEF HandleRead, Drained
  <1>5. CASE statu[c] = "CONNECTED"
    <2>1. OnMessage(c, inb[c] \o net[c])
      BY <1>5 DEF HandleRead
    <2>2. PICK n \in 0..Len(inb[c] \o net[c]) :
              /\ outb' = [outb EXCEPT ![c] = @ + n]
              /\ writing' = [writing EXCEPT ![c] = @ \/ n > 0]
              /\ inb' = [inb EXCEPT ![c] = <<>>]
              /\ UNCHANGED statu \/ (statu' = [statu EXCEPT ![c] = "DISCONNECTING"])
      BY <1>1, <1>3, <2>1, OnMessageEffect
    <2>3. \A a, b, l \in Nat : \A k \in 0..l : l = a + b => k \in Nat /\ k + 0 + 0 <= a + b
      OBVIOUS
    <2>4. Len(inb[c] \o net[c]) \in Nat
      BY <1>3, LenProperties
    <2>5. n \in Nat /\ n + Len(<<>>) + Len(<<>>) <= Len(inb[c]) + Len(net[c])
      BY <1>1, <1>2, <1>3, <2>2, <2>3, <2>4, Zenon
    <2> QED
      BY <1>1, <1>4, <2>2, <2>5 DEF Handles, HandleRead
  <1>6. CASE statu[c] # "CONNECTED"
    <2>1. UNCHANGED <<statu, writing, outb>> /\ inb' = [inb EXCEPT ![c] = inb[c] \o net[c]]
      BY <1>6 DEF HandleRead
    <2>2. outb = [outb EXCEPT ![c] = @ + 0]
      BY <1>1 DEF Types
    <2>3. writing = [writing EXCEPT ![c] = @ \/ 0 > 0]
      <3>1. \A b \in BOOLEAN : (b \/ 0 > 0) = b
        OBVIOUS
      <3>2. (writing[c] \/ 0 > 0) = writing[c]
        BY <1>1, <3>1 DEF Types
      <3> QED
        BY <1>1, <3>2 DEF Types
    <2>4. 0 \in Nat /\ 0 + Len(inb[c] \o net[c]) + Len(<<>>) <= Len(inb[c]) + Len(net[c])
      BY <1>1, <1>2, <1>3
    <2> QED
      BY <1>1, <1>3, <1>4, <2>1, <2>2, <2>3, <2>4 DEF Handles, HandleRead
  <1> QED
    BY <1>5, <1>6

LEMMA FailureHandles ==
    ASSUME IInv, NEW c \in Conns, HandleFailure(c)
    PROVE  /\ Handles(c) /\ Release(c) /\ AtConn(c, "rest") /\ peer[c] # "open"
           /\ UNCHANGED <<wheelVars, actives, due, alive, netVars>> /\ phase' = "event"
  <1>1. Types /\ inb[c] \in Seq(Requests) /\ net[c] \in Seq(Requests) /\ <<>> \in Seq(Requests)
        /\ Len(<<>>) = 0 /\ net = [net EXCEPT ![c] = net[c]] /\ inb = [inb EXCEPT ![c] = inb[c]]
        /\ net' = net
    BY EmptySeq DEF IInv, Types, HandleFailure, netVars
  <1>2. Len(inb[c]) \in Nat /\ Len(net[c]) \in Nat
    BY <1>1, LenProperties
  <1>3. peer[c] # "open"
    BY ConnInHand DEF HandleFailure
  <1>4. CASE inb[c] # <<>>
    <2>1. OnMessage(c, inb[c])
      BY <1>4 DEF HandleFailure
    <2>2. PICK n \in 0..Len(inb[c]) :
              /\ outb' = [outb EXCEPT ![c] = @ + n]
              /\ writing' = [writing EXCEPT ![c] = @ \/ n > 0]
              /\ inb' = [inb EXCEPT ![c] = <<>>]
              /\ UNCHANGED statu \/ (statu' = [statu EXCEPT ![c] = "DISCONNECTING"])
      BY <1>1, <2>1, OnMessageEffect
    <2>3. n \in Nat /\ n + 0 + Len(net[c]) <= Len(inb[c]) + Len(net[c])
      BY <1>2, <2>2
    <2>5. n + Len(<<>>) + Len(net[c]) <= Len(inb[c]) + Len(net[c])
      BY <1>1, <2>3
    <2>4. Handles(c)
      BY <1>1, <2>2, <2>3, <2>5 DEF Handles
    <2> QED
      BY <1>3, <2>4 DEF HandleFailure
  <1>5. CASE inb[c] = <<>>
    <2>1. UNCHANGED <<outb, writing, statu, inb>>
      BY <1>5 DEF HandleFailure
    <2>2. outb = [outb EXCEPT ![c] = @ + 0]
      BY <1>1 DEF Types
    <2>3. writing = [writing EXCEPT ![c] = @ \/ 0 > 0]
      <3>1. \A b \in BOOLEAN : (b \/ 0 > 0) = b
        OBVIOUS
      <3>2. (writing[c] \/ 0 > 0) = writing[c]
        BY <1>1, <3>1 DEF Types
      <3> QED
        BY <1>1, <3>2 DEF Types
    <2>4. 0 \in Nat /\ 0 + Len(inb[c]) + Len(net[c]) <= Len(inb[c]) + Len(net[c])
      BY <1>2
    <2>5. Handles(c)
      BY <1>1, <2>1, <2>2, <2>3, <2>4 DEF Handles
    <2> QED
      BY <1>3, <2>5 DEF HandleFailure
  <1> QED
    BY <1>4, <1>5

LEMMA WriteEffect ==
    ASSUME IInv, NEW c \in Conns, HandleWrite(c)
    PROVE  /\ outb' \in [Conns -> Nat] /\ writing' \in [Conns -> BOOLEAN]
           /\ outb'[c] <= outb[c] /\ (writing'[c] <=> outb'[c] > 0)
           /\ \A d \in Conns : d # c => outb'[d] = outb[d] /\ writing'[d] = writing[d]
           /\ UNCHANGED tasks \/ (Release(c) /\ outb'[c] = 0 /\ statu[c] = "DISCONNECTING")
           /\ UNCHANGED <<wheelVars, actives, due, statu, alive, inb, netVars>> /\ phase' = "event"
           /\ AtConn(c, "rest")
  <1>1. PICK n \in 1..outb[c] :
            /\ outb' = [outb EXCEPT ![c] = @ - n]
            /\ writing' = [writing EXCEPT ![c] = (n < outb[c])]
            /\ IF n = outb[c] /\ statu[c] = "DISCONNECTING" THEN Release(c) ELSE UNCHANGED tasks
    BY DEF HandleWrite
  <1>2. outb \in [Conns -> Nat] /\ writing \in [Conns -> BOOLEAN] /\ outb[c] \in Nat
    BY DEF IInv, Types
  <1>3. outb' \in [Conns -> Nat] /\ outb'[c] = outb[c] - n
        /\ \A d \in Conns : d # c => outb'[d] = outb[d]
    BY <1>1, <1>2
  <1> DEFINE b == n < outb[c]
  <1>4. b \in BOOLEAN /\ writing' = [writing EXCEPT ![c] = b]
    BY <1>1
  <1>5. b <=> outb'[c] > 0
    BY <1>2, <1>3
  <1> HIDE DEF b
  <1>6. writing' \in [Conns -> BOOLEAN] /\ writing'[c] = b
        /\ \A d \in Conns : d # c => writing'[d] = writing[d]
    BY <1>2, <1>4
  <1>7. n = outb[c] => outb'[c] = 0
    BY <1>2, <1>3
  <1>8. outb'[c] <= outb[c]
    BY <1>2, <1>3
  <1> QED
    BY <1>1, <1>3, <1>5, <1>6, <1>7, <1>8 DEF HandleWrite

\* What clients and the network do between two steps of the loop.
LEMMA ClientEffect ==
    ASSUME IInv, NEW c \in Conns, ClientNext(c)
    PROVE  /\ UNCHANGED <<wheelVars, loopVars, connVars>>
           /\ peer' \in [Conns -> {"off", "open", "fin", "rst"}]
           /\ net' \in [Conns -> Seq(Requests)] /\ asked' \in [Conns -> Nat]
           /\ \A d \in Conns :
                 /\ peer[d] # "off" => peer'[d] # "off"
                 /\ peer[d] \in {"fin", "rst"} => peer'[d] = peer[d]
                 /\ net[d] # <<>> => net'[d] # <<>>
                 /\ Len(net'[d]) + asked[d] <= Len(net[d]) + asked'[d]
                 /\ asked'[d] <= MaxRequests[d] \/ asked'[d] = asked[d]
  <1>1. /\ net \in [Conns -> Seq(Requests)] /\ asked \in [Conns -> Nat]
        /\ peer \in [Conns -> {"off", "open", "fin", "rst"}] /\ MaxRequests \in [Conns -> Nat]
    BY LoopAssumption DEF IInv, Types, Conns
  <1>2. \A d \in Conns : Len(net[d]) \in Nat
    BY <1>1, LenProperties
  <1>3. CASE Connect(c)
    <2>1. /\ peer' = [peer EXCEPT ![c] = "open"] /\ peer[c] = "off"
          /\ UNCHANGED <<wheelVars, loopVars, connVars, net, asked>>
      BY <1>3 DEF Connect
    <2> QED
      BY <1>1, <1>2, <2>1
  <1>4. CASE \E how \in {"fin", "rst"} : HangUp(c, how)
    <2>1. PICK how \in {"fin", "rst"} :
             /\ peer' = [peer EXCEPT ![c] = how] /\ peer[c] = "open"
             /\ UNCHANGED <<wheelVars, loopVars, connVars, net, asked>>
      BY <1>4 DEF HangUp
    <2> QED
      BY <1>1, <1>2, <2>1
  <1>5. CASE \E r \in Requests : Ask(c, r)
    <2>1. PICK r \in Requests :
             /\ asked[c] < MaxRequests[c] /\ asked' = [asked EXCEPT ![c] = @ + 1]
             /\ net' = net \/ net' = [net EXCEPT ![c] = Append(net[c], r)]
             /\ UNCHANGED <<wheelVars, loopVars, connVars, peer>>
      BY <1>5 DEF Ask
    <2>2. /\ Append(net[c], r) \in Seq(Requests) /\ Len(Append(net[c], r)) = Len(net[c]) + 1
      BY <1>1, AppendProperties
    <2>3. Append(net[c], r) # <<>>
      BY <1>2, <2>2, EmptySeq
    <2>4. asked' \in [Conns -> Nat] /\ asked'[c] = asked[c] + 1
          /\ \A d \in Conns : d # c => asked'[d] = asked[d]
      BY <1>1, <2>1
    <2>5. /\ net' \in [Conns -> Seq(Requests)] /\ net'[c] \in {net[c], Append(net[c], r)}
          /\ \A d \in Conns : d # c => net'[d] = net[d]
      BY <1>1, <2>1, <2>2
    <2>6. Len(net'[c]) + asked[c] <= Len(net[c]) + asked'[c]
      BY <1>1, <1>2, <2>2, <2>4, <2>5
    <2>7. asked'[c] <= MaxRequests[c]
      BY <1>1, <2>1, <2>4
    <2>8. net[c] # <<>> => net'[c] # <<>>
      BY <2>3, <2>5
    <2>9. \A d \in Conns : d # c => Len(net'[d]) + asked[d] <= Len(net[d]) + asked'[d]
      BY <1>1, <1>2, <2>4, <2>5
    <2> QED
      BY <1>1, <2>1, <2>4, <2>5, <2>6, <2>7, <2>8, <2>9
  <1> QED
    BY <1>3, <1>4, <1>5 DEF ClientNext

LEMMA TypesNext ==
    ASSUME IInv, [Next]_vars
    PROVE  Types'
  <1>1. Types /\ WheelTypeOK /\ due \in 0..MaxDue /\ tasks \in Seq(Conns) /\ actives \in Seq(Ready)
    BY DEF IInv, Types
  <1>2. MaxDue \in Nat /\ <<>> \in Seq(Requests)
    BY LoopAssumption, EmptySeq
  <1>3. UNCHANGED wheelVars => WheelTypeOK'
    BY <1>1 DEF wheelVars, WheelTypeOK, Positions
  <1>4. CASE UNCHANGED vars
    BY <1>1, <1>3, <1>4 DEF vars, loopVars, connVars, netVars, Types
  <1>5. CASE ClockTick
    <2>1. due' \in 0..MaxDue
      BY <1>1, <1>2, <1>5 DEF ClockTick
    <2> QED
      BY <1>1, <1>3, <1>5, <2>1 DEF ClockTick, connVars, netVars, Types
  <1>6. CASE \E c \in Conns : ClientNext(c)
    BY <1>1, <1>3, <1>6, ClientEffect DEF loopVars, connVars, Types
  <1>7. CASE Poll
    BY <1>1, <1>3, <1>7, PollEffect DEF Poll, connVars, netVars, Types
  <1>8. CASE HandleTimer
    <2>1. WheelTypeOK'
      BY <1>1, <1>8, OnTimeTypes, ReleasedEffect
    <2>2. tasks' \in Seq(Conns)
      BY <1>1, <1>8, ReleasedEffect
    <2>3. actives' \in Seq(Ready) /\ phase' \in {"tasks", "read"}
      BY <1>1, <1>8, NextChannelEffect DEF HandleTimer, IInv
    <2>4. due' \in 0..MaxDue
      BY <1>2, <1>8 DEF HandleTimer
    <2> QED
      BY <1>1, <1>8, <2>1, <2>2, <2>3, <2>4 DEF HandleTimer, connVars, netVars, Types
  <1>9. CASE HandleAccept
    <2>1. actives' \in Seq(Ready) /\ phase' \in {"tasks", "read"}
      BY <1>1, <1>9, NextChannelEffect DEF HandleAccept, IInv
    <2>2. PICK c \in Conns : TimerAdd(c) /\ Established(c)
      BY <1>9 DEF HandleAccept, NewConnection
    <2>3. WheelTypeOK'
      BY <1>1, <2>2, WheelTypes
    <2>4. /\ statu' \in [Conns -> {"absent", "CONNECTED", "DISCONNECTING", "DISCONNECTED"}]
          /\ alive' \in [Conns -> BOOLEAN]
      BY <1>1, <2>2 DEF Established, Types
    <2> QED
      BY <1>1, <1>9, <2>1, <2>3, <2>4 DEF HandleAccept, netVars, Types
  <1>10. CASE TasksDone
    BY <1>1, <1>3, <1>10 DEF TasksDone, connVars, netVars, Types
  <1>11. ASSUME NEW c \in Conns, SkipRead(c) \/ SkipRest(c)
         PROVE  Types'
    BY <1>1, <1>3, <1>11 DEF SkipRead, SkipRest, connVars, netVars, Types
  <1>12. ASSUME NEW c \in Conns, HandleRead(c)
         PROVE  Types'
    BY <1>1, <1>3, <1>12, ReadHandles, HandlesTyped DEF Types
  <1>13. ASSUME NEW c \in Conns, HandleReadEnd(c)
         PROVE  Types'
    <2>1. tasks' \in Seq(Conns)
      BY <1>1, <1>13, ReleaseEffect DEF HandleReadEnd
    <2> QED
      BY <1>1, <1>3, <1>13, <2>1 DEF HandleReadEnd, connVars, netVars, Types
  <1>14. ASSUME NEW c \in Conns, HandleWrite(c)
         PROVE  Types'
    <2>1. tasks' \in Seq(Conns)
      BY <1>1, <1>14, WriteEffect, ReleaseEffect
    <2> QED
      BY <1>1, <1>3, <1>14, <2>1, WriteEffect DEF netVars, Types
  <1>15. ASSUME NEW c \in Conns, HandleFailure(c)
         PROVE  Types'
    <2>1. tasks' \in Seq(Conns)
      BY <1>1, <1>15, FailureHandles, ReleaseEffect
    <2> QED
      BY <1>1, <1>3, <1>15, <2>1, FailureHandles, HandlesTyped DEF netVars, Types
  <1>16. ASSUME NEW c \in Conns, HandleEvent(c)
         PROVE  Types'
    <2>1. actives' \in Seq(Ready) /\ phase' \in {"tasks", "read"}
      BY <1>1, <1>16, NextChannelEffect DEF HandleEvent, AtConn, IInv
    <2>2. WheelTypeOK'
      BY <1>1, <1>16, WheelTypes DEF HandleEvent
    <2> QED
      BY <1>1, <1>16, <2>1, <2>2 DEF HandleEvent, connVars, netVars, Types
  <1>17. ASSUME NEW c \in Conns, ReleaseInLoop(c)
         PROVE  Types'
    <2>1. tasks' \in Seq(Conns)
      BY <1>1, <1>17, TasksTail DEF ReleaseInLoop
    <2>2. WheelTypeOK'
      BY <1>1, <1>17, WheelTypes DEF ReleaseInLoop
    <2>3. /\ statu' \in [Conns -> {"absent", "CONNECTED", "DISCONNECTING", "DISCONNECTED"}]
          /\ alive' \in [Conns -> BOOLEAN] /\ net' \in [Conns -> Seq(Requests)]
      BY <1>1, <1>2, <1>17 DEF ReleaseInLoop, RemoveConnection, Drained, Types
    <2> QED
      BY <1>1, <1>17, <2>1, <2>2, <2>3 DEF ReleaseInLoop, Types
  <1>18. ASSUME NEW c \in Conns, ReleaseAgain(c)
         PROVE  Types'
    <2>1. tasks' \in Seq(Conns)
      BY <1>1, <1>18, TasksTail DEF ReleaseAgain
    <2> QED
      BY <1>1, <1>3, <1>18, <2>1 DEF ReleaseAgain, connVars, netVars, Types
  <1> QED
    BY <1>4, <1>5, <1>6, <1>7, <1>8, <1>9, <1>10, <1>11, <1>12, <1>13, <1>14, <1>15, <1>16, <1>17,
       <1>18 DEF Next, LoopNext, ConnNext

LEMMA CountsNext ==
    ASSUME IInv, [Next]_vars
    PROVE  Counts'
  <1>1. /\ inb \in [Conns -> Seq(Requests)] /\ net \in [Conns -> Seq(Requests)]
        /\ outb \in [Conns -> Nat] /\ asked \in [Conns -> Nat] /\ Types
    BY DEF IInv, Types
  <1>2. /\ outb' \in [Conns -> Nat] /\ asked' \in [Conns -> Nat]
        /\ inb' \in [Conns -> Seq(Requests)] /\ net' \in [Conns -> Seq(Requests)]
    BY TypesNext DEF Types
  <1>3. \A d \in Conns : Len(inb[d]) \in Nat /\ Len(net[d]) \in Nat
    BY <1>1, LenProperties
  <1>4. \A d \in Conns : Len(inb'[d]) \in Nat /\ Len(net'[d]) \in Nat
    BY <1>2, LenProperties
  <1>5. \A d \in Conns : /\ outb[d] + Len(inb[d]) + Len(net[d]) <= asked[d]
                         /\ asked[d] <= MaxRequests[d] /\ MaxRequests[d] \in Nat
    BY LoopAssumption DEF IInv, Counts, Conns
  <1>6. Len(<<>>) = 0
    BY EmptySeq
  <1>7. CASE UNCHANGED <<outb, inb, net, asked>>
    BY <1>5, <1>7 DEF Counts
  <1>8. CASE \E c \in Conns : ClientNext(c)
    <2>1. UNCHANGED <<outb, inb>>
      BY <1>8, ClientEffect DEF connVars
    <2>2. \A d \in Conns : /\ Len(net'[d]) + asked[d] <= Len(net[d]) + asked'[d]
                           /\ asked'[d] <= MaxRequests[d] \/ asked'[d] = asked[d]
      BY <1>8, ClientEffect
    <2>3. ASSUME NEW d \in Conns
          PROVE  outb[d] + Len(inb[d]) + Len(net'[d]) <= asked'[d]
      <3> DEFINE o == outb[d]
                 i == Len(inb[d])
                 n == Len(net[d])
                 n1 == Len(net'[d])
                 a == asked[d]
                 a1 == asked'[d]
      <3>1. o \in Nat /\ i \in Nat /\ n \in Nat /\ n1 \in Nat /\ a \in Nat /\ a1 \in Nat
        BY <1>1, <1>2, <1>3, <1>4
      <3>2. o + i + n <= a /\ n1 + a <= n + a1
        BY <1>5, <2>2
      <3> HIDE DEF o, i, n, n1, a, a1
      <3>3. o + i + n1 <= a1
        BY <3>1, <3>2
      <3> QED
        BY <3>3 DEF o, i, n1, a1
    <2>4. \A d \in Conns : asked'[d] <= MaxRequests[d]
      BY <1>5, <2>2
    <2> QED
      BY <2>1, <2>3, <2>4 DEF Counts
  <1>9. ASSUME NEW c \in Conns, Handles(c), UNCHANGED asked
        PROVE  Counts'
    <2>1. /\ outb'[c] + Len(inb'[c]) + Len(net'[c]) <= outb[c] + Len(inb[c]) + Len(net[c])
          /\ \A d \in Conns : d # c =>
                 outb'[d] = outb[d] /\ inb'[d] = inb[d] /\ net'[d] = net[d]
      BY <1>1, <1>9, HandlesTyped
    <2>2. outb'[c] + Len(inb'[c]) + Len(net'[c]) <= asked[c]
      <3> DEFINE x == outb'[c] + Len(inb'[c]) + Len(net'[c])
                 y == outb[c] + Len(inb[c]) + Len(net[c])
      <3>1. x \in Nat /\ y \in Nat /\ asked[c] \in Nat
        BY <1>1, <1>2, <1>3, <1>4
      <3>2. x <= y /\ y <= asked[c]
        BY <1>5, <2>1
      <3> HIDE DEF x, y
      <3>3. x <= asked[c]
        BY <3>1, <3>2
      <3> QED
        BY <3>3 DEF x
    <2> QED
      BY <1>5, <1>9, <2>1, <2>2 DEF Counts
  <1>10. ASSUME NEW c \in Conns, HandleWrite(c)
         PROVE  Counts'
    <2>1. /\ outb'[c] <= outb[c] /\ \A d \in Conns : d # c => outb'[d] = outb[d]
          /\ UNCHANGED <<inb, net, asked>>
      BY <1>10, WriteEffect DEF netVars
    <2>2. outb'[c] + Len(inb[c]) + Len(net[c]) <= asked[c]
      BY <1>1, <1>2, <1>3, <1>5, <2>1
    <2> QED
      BY <1>5, <2>1, <2>2 DEF Counts
  <1>11. ASSUME NEW c \in Conns, ReleaseInLoop(c)
         PROVE  Counts'
    <2>1. net' = [net EXCEPT ![c] = <<>>] /\ UNCHANGED <<outb, inb, asked>>
      BY <1>11 DEF ReleaseInLoop, Drained
    <2>2. net'[c] = <<>> /\ \A d \in Conns : d # c => net'[d] = net[d]
      BY <1>1, <2>1
    <2>3. outb[c] + Len(inb[c]) + Len(<<>>) <= asked[c]
      BY <1>1, <1>3, <1>5, <1>6
    <2> QED
      BY <1>5, <2>1, <2>2, <2>3 DEF Counts
  <1>12. CASE ClockTick \/ Poll \/ HandleTimer \/ HandleAccept \/ TasksDone \/ UNCHANGED vars
    BY <1>7, <1>12 DEF ClockTick, Poll, HandleTimer, HandleAccept, TasksDone, vars, connVars, netVars
  <1>13. ASSUME NEW c \in Conns, SkipRead(c) \/ SkipRest(c) \/ HandleReadEnd(c) \/ HandleEvent(c)
                                 \/ ReleaseAgain(c)
         PROVE  Counts'
    BY <1>7, <1>13 DEF SkipRead, SkipRest, HandleReadEnd, HandleEvent, ReleaseAgain, connVars, netVars
  <1>14. ASSUME NEW c \in Conns, HandleRead(c) \/ HandleFailure(c)
         PROVE  Counts'
    BY <1>9, <1>14, ReadHandles, FailureHandles DEF netVars
  <1> QED
    BY <1>8, <1>10, <1>11, <1>12, <1>13, <1>14 DEF Next, LoopNext, ConnNext

\* A connection's life does not depend on the others.
LEMMA LifeFrame ==
    ASSUME NEW d \in Conns, Life(d), alive'[d] = alive[d], statu'[d] = statu[d],
           writing'[d] = writing[d], outb'[d] = outb[d], inb'[d] = inb[d],
           timer'[d] \in {timer[d], "none"},
           peer[d] # "off" => peer'[d] # "off",
           peer[d] \in {"fin", "rst"} => peer'[d] = peer[d],
           expired \subseteq expired', Types
    PROVE  Life(d)'
  BY DEF Life, Types

LEMMA LifeNext ==
    ASSUME IInv, [Next]_vars, NEW d \in Conns
    PROVE  Life(d)'
  <1>1. Types /\ Life(d)
    BY DEF IInv
  <1>2. CASE UNCHANGED <<wheelVars, connVars, peer>>
    BY <1>1, <1>2, LifeFrame DEF wheelVars, connVars
  <1>3. CASE \E c \in Conns : ClientNext(c)
    <2>1. /\ UNCHANGED <<wheelVars, connVars>>
          /\ peer[d] # "off" => peer'[d] # "off"
          /\ peer[d] \in {"fin", "rst"} => peer'[d] = peer[d]
      BY <1>3, ClientEffect
    <2> QED
      BY <1>1, <2>1, LifeFrame DEF wheelVars, connVars
  <1>4. CASE HandleTimer
    <2>1. UNCHANGED <<connVars, peer>> /\ timer'[d] \in {timer[d], "none"} /\ expired \subseteq expired'
      BY <1>4 DEF HandleTimer, OnTime, Conns, netVars
    <2> QED
      BY <1>1, <2>1, LifeFrame DEF connVars
  <1>5. CASE HandleAccept
    <2>1. PICK c \in Conns : /\ statu[c] = "absent" /\ peer[c] # "off"
                             /\ TimerAdd(c) /\ Established(c)
      BY <1>5 DEF HandleAccept, NewConnection
    <2>2. /\ statu' = [statu EXCEPT ![c] = "CONNECTED"] /\ alive' = [alive EXCEPT ![c] = TRUE]
          /\ timer' = [timer EXCEPT ![c] = "armed"] /\ UNCHANGED <<expired, writing, inb, outb, peer>>
      BY <1>5, <2>1 DEF HandleAccept, TimerAdd, Established, netVars
    <2>3. timer \in [Conns -> {"none", "armed", "canceled"}]
      BY <1>1 DEF Types, WheelTypeOK, Conns
    <2>4. CASE d = c
      BY <1>1, <2>1, <2>2, <2>3, <2>4 DEF Life, Types
    <2>5. CASE d # c
      BY <1>1, <2>2, <2>3, <2>5, LifeFrame DEF Types
    <2> QED
      BY <2>4, <2>5
  <1>6. ASSUME NEW c \in Conns, Handles(c), UNCHANGED <<wheelVars, alive, peer>>,
               alive[c], statu[c] \in {"CONNECTED", "DISCONNECTING"}
        PROVE  Life(d)'
    <2>1. CASE d = c
      <3>1. /\ (writing[c] <=> outb[c] > 0) => (writing'[c] <=> outb'[c] > 0)
            /\ statu'[c] \in {statu[c], "DISCONNECTING"}
        BY <1>1, <1>6, HandlesTyped
      <3> QED
        BY <1>1, <1>6, <2>1, <3>1 DEF Life, wheelVars
    <2>2. CASE d # c
      <3>1. outb'[d] = outb[d] /\ writing'[d] = writing[d] /\ inb'[d] = inb[d] /\ statu'[d] = statu[d]
        BY <1>1, <1>6, <2>2, HandlesTyped
      <3> QED
        BY <1>1, <1>6, <3>1, LifeFrame DEF wheelVars
    <2> QED
      BY <2>1, <2>2
  <1>7. ASSUME NEW c \in Conns, HandleWrite(c)
        PROVE  Life(d)'
    <2>1. /\ UNCHANGED <<wheelVars, statu, alive, inb, peer>> /\ AtConn(c, "rest")
          /\ writing'[c] <=> outb'[c] > 0
          /\ \A e \in Conns : e # c => outb'[e] = outb[e] /\ writing'[e] = writing[e]
      BY <1>7, WriteEffect DEF netVars
    <2>2. alive[c] /\ statu[c] \in {"CONNECTED", "DISCONNECTING"}
      BY <2>1, ConnInHand
    <2>3. CASE d = c
      BY <1>1, <2>1, <2>2, <2>3 DEF Life, wheelVars
    <2>4. CASE d # c
      BY <1>1, <2>1, <2>4, LifeFrame DEF wheelVars
    <2> QED
      BY <2>3, <2>4
  <1>8. ASSUME NEW c \in Conns, HandleEvent(c)
        PROVE  Life(d)'
    BY <1>1, <1>8, LifeFrame DEF HandleEvent, TimerRefresh, connVars, netVars
  <1>9. ASSUME NEW c \in Conns, ReleaseInLoop(c)
        PROVE  Life(d)'
    <2>1. /\ statu' = [statu EXCEPT ![c] = "DISCONNECTED"] /\ alive' = [alive EXCEPT ![c] = FALSE]
          /\ timer' = IF HasTimer(c) THEN [timer EXCEPT ![c] = "canceled"] ELSE timer
          /\ UNCHANGED <<expired, writing, inb, outb, peer>>
          /\ tasks # <<>> /\ Head(tasks) = c /\ alive[c]
      BY <1>9 DEF ReleaseInLoop, RemoveConnection, TimerCancel
    <2>2. timer \in [Conns -> {"none", "armed", "canceled"}]
      BY <1>1 DEF Types, WheelTypeOK, Conns
    <2>3. CASE d = c
      <3>1. Len(tasks) \in Nat \ {0} /\ Head(tasks) = tasks[1]
        BY <1>1, <1>9, TasksTail DEF ReleaseInLoop
      <3>2. Reason(c)
        BY <2>1, <3>1 DEF IInv, Releases
      <3>3. timer'[c] # "armed"
        BY <2>1, <2>2 DEF HasTimer
      <3>4. statu'[c] = "DISCONNECTED" /\ alive'[c] = FALSE
        BY <1>1, <2>1 DEF Types
      <3>5. outb[c] > 0 => peer[c] # "open" \/ c \in expired
        BY <1>1, <3>2 DEF Reason, Types
      <3> QED
        BY <1>1, <2>1, <2>3, <3>2, <3>3, <3>4, <3>5 DEF Life, Reason
    <2>4. CASE d # c
      BY <1>1, <2>1, <2>2, <2>4, LifeFrame DEF Types
    <2> QED
      BY <2>3, <2>4
  <1>10. CASE ClockTick \/ Poll \/ TasksDone \/ UNCHANGED vars
    BY <1>2, <1>10 DEF ClockTick, Poll, TasksDone, vars, netVars
  <1>11. ASSUME NEW c \in Conns, SkipRead(c) \/ SkipRest(c) \/ HandleReadEnd(c) \/ ReleaseAgain(c)
         PROVE  Life(d)'
    BY <1>2, <1>11 DEF SkipRead, SkipRest, HandleReadEnd, ReleaseAgain, netVars
  <1>12. ASSUME NEW c \in Conns, HandleRead(c) \/ HandleFailure(c)
         PROVE  Life(d)'
    <2>1. Handles(c) /\ UNCHANGED <<wheelVars, alive, peer>> /\ (AtConn(c, "read") \/ AtConn(c, "rest"))
      BY <1>12, ReadHandles, FailureHandles DEF netVars
    <2>2. alive[c] /\ statu[c] \in {"CONNECTED", "DISCONNECTING"}
      BY <2>1, ConnInHand
    <2> QED
      BY <1>6, <2>1, <2>2
  <1> QED
    BY <1>3, <1>4, <1>5, <1>7, <1>8, <1>9, <1>10, <1>11, <1>12 DEF Next, LoopNext, ConnNext

LEMMA PassNext ==
    ASSUME IInv, [Next]_vars
    PROVE  Pass'
  <1>1. Types /\ Pass /\ actives \in Seq(Ready) /\ Len(actives) \in Nat
    BY LenProperties DEF IInv, Types
  <1>2. \A k \in 1..Len(actives) : actives[k] \in Ready
    BY <1>1, ElementOfSeq
  <1>3. \A c \in Conns : alive[c] => peer[c] # "off"
    BY DEF IInv, Life
  <1>4. ASSUME UNCHANGED <<phase, actives, alive>>,
               \A d \in Conns : /\ peer[d] # "off" => peer'[d] # "off"
                                /\ peer[d] \in {"fin", "rst"} => peer'[d] = peer[d]
                                /\ net[d] # <<>> => net'[d] # <<>>
        PROVE  Pass'
    <2>1. \A k \in 1..Len(actives) : Promised(actives[k])'
      BY <1>1, <1>4 DEF Pass, Promised
    <2>2. \A k \in 1..Len(actives) : Readable(actives[k]) => Readable(actives[k])'
      <3> SUFFICES ASSUME NEW k \in 1..Len(actives), Readable(actives[k]),
                          actives[k].ch \in Conns, "IN" \in actives[k].ev
                   PROVE  net'[actives[k].ch] # <<>> \/ peer'[actives[k].ch] # "open"
        BY <1>4 DEF Readable
      <3>1. alive[actives[k].ch]
        BY <1>1 DEF Pass, Promised
      <3>2. peer[actives[k].ch] \in {"fin", "rst"} \/ net[actives[k].ch] # <<>>
        BY <1>1, <1>3, <3>1 DEF Readable, Types
      <3> QED
        BY <1>4, <3>2
    <2> QED
      BY <1>1, <1>4, <2>1, <2>2 DEF Pass
  <1>5. CASE \E c \in Conns : ClientNext(c)
    <2>1. UNCHANGED <<phase, actives, alive>>
      BY <1>5, ClientEffect DEF loopVars, connVars
    <2> QED
      BY <1>4, <1>5, <2>1, ClientEffect
  <1>6. CASE ClockTick \/ UNCHANGED vars
    BY <1>4, <1>6 DEF ClockTick, vars, loopVars, connVars, netVars
  <1>7. CASE Poll
    <2>1. UNCHANGED <<alive, peer, net>> /\ phase' = "read"
      BY <1>7 DEF Poll, connVars, netVars
    <2>2. /\ Len(actives') \in Nat \ {0} /\ actives' # <<>>
          /\ \A k \in 1..Len(actives') :
                actives'[k].ch \in Conns =>
                   alive[actives'[k].ch] /\ actives'[k].ev \in Events(actives'[k].ch)
          /\ \A i, k \in 1..Len(actives') : i # k => actives'[i].ch # actives'[k].ch
      BY <1>1, <1>7, PollEffect
    <2>3. \A c \in Conns : \A ev \in Events(c) :
             /\ "ERR" \in ev => peer[c] = "rst"
             /\ "IN" \in ev => net[c] # <<>> \/ peer[c] # "open"
      BY DEF Events
    <2>4. \A k \in 1..Len(actives') : Promised(actives[k])' /\ Readable(actives[k])'
      BY <2>1, <2>2, <2>3 DEF Promised, Readable
    <2> QED
      BY <2>1, <2>2, <2>4 DEF Pass
  <1>8. ASSUME NextChannel, phase \notin {"poll", "tasks"}, UNCHANGED <<peer, net>>,
               \A d \in Conns : alive[d] => alive'[d]
        PROVE  Pass'
    <2>1. /\ Len(actives') \in Nat
          /\ \A k \in 1..Len(actives') : k + 1 \in 1..Len(actives) /\ actives'[k] = actives[k + 1]
          /\ phase' = IF actives' = <<>> THEN "tasks" ELSE "read"
      BY <1>1, <1>8, NextChannelEffect
    <2>2. \A k \in 1..Len(actives') : k + 1 > 1
      BY <2>1
    <2>3. \A k \in 1..Len(actives') : Promised(actives[k + 1]) /\ Readable(actives[k + 1])
      BY <1>1, <2>1, <2>2 DEF Pass
    <2>4. \A k \in 1..Len(actives') : Promised(actives[k])' /\ Readable(actives[k])'
      BY <1>8, <2>1, <2>3 DEF Promised, Readable
    <2>5. \A i, k \in 1..Len(actives') : i # k => i + 1 # k + 1
      BY <2>1
    <2>6. \A i, k \in 1..Len(actives') : i # k => actives'[i].ch # actives'[k].ch
      BY <1>1, <2>1, <2>5 DEF Pass
    <2> QED
      BY <2>1, <2>4, <2>6 DEF Pass
  <1>9. CASE HandleTimer
    BY <1>8, <1>9 DEF HandleTimer, connVars, netVars
  <1>10. CASE HandleAccept
    <2>1. \A d \in Conns : alive[d] => alive'[d]
      BY <1>1, <1>10 DEF HandleAccept, NewConnection, Established, Types
    <2> QED
      BY <1>8, <1>10, <2>1 DEF HandleAccept, netVars
  <1>11. ASSUME NEW c \in Conns, HandleEvent(c)
         PROVE  Pass'
    BY <1>8, <1>11 DEF HandleEvent, AtConn, connVars, netVars
  <1>12. ASSUME NEW c \in Conns, AtConn(c, "read") \/ AtConn(c, "rest"), phase' \in {"rest", "event"},
                UNCHANGED <<actives, alive, peer>>, \A d \in Conns : d # c => net'[d] = net[d]
         PROVE  Pass'
    <2>1. /\ actives[1].ch = c /\ 1 \in 1..Len(actives)
          /\ \A k \in 2..Len(actives) : actives[k].ch # c
      BY <1>12, ConnInHand
    <2>2. \A k \in 1..Len(actives) : Promised(actives[k])'
      BY <1>1, <1>12 DEF Pass, Promised
    <2>3. \A k \in 1..Len(actives) : k > 1 => k \in 2..Len(actives)
      BY <1>1
    <2>4. \A k \in 1..Len(actives) : k > 1 => Readable(actives[k])'
      BY <1>1, <1>12, <2>1, <2>3 DEF Pass, Readable
    <2>5. actives # <<>> /\ phase' \notin {"poll", "tasks", "read"}
      BY <1>12 DEF AtConn
    <2>6. \A i, k \in 1..Len(actives) : i # k => actives[i].ch # actives[k].ch
      BY <1>1 DEF Pass
    <2> QED
      BY <1>12, <2>1, <2>2, <2>4, <2>5, <2>6 DEF Pass
  <1>13. ASSUME NEW c \in Conns, SkipRead(c) \/ SkipRest(c) \/ HandleReadEnd(c)
         PROVE  Pass'
    BY <1>12, <1>13 DEF SkipRead, SkipRest, HandleReadEnd, connVars, netVars
  <1>14. ASSUME NEW c \in Conns, HandleRead(c)
         PROVE  Pass'
    <2>1. \A d \in Conns : d # c => net'[d] = net[d]
      BY <1>1, <1>14, ReadHandles, HandlesTyped
    <2>2. AtConn(c, "read") /\ phase' = "rest" /\ UNCHANGED <<actives, alive, peer>>
      BY <1>14, ReadHandles
    <2> QED
      BY <1>12, <2>1, <2>2
  <1>15. ASSUME NEW c \in Conns, HandleFailure(c)
         PROVE  Pass'
    <2>1. AtConn(c, "rest") /\ phase' = "event" /\ UNCHANGED <<actives, alive, peer, net>>
      BY <1>15, FailureHandles DEF netVars
    <2> QED
      BY <1>12, <2>1
  <1>16. ASSUME NEW c \in Conns, HandleWrite(c)
         PROVE  Pass'
    <2>1. AtConn(c, "rest") /\ phase' = "event" /\ UNCHANGED <<actives, alive, peer, net>>
      BY <1>16, WriteEffect DEF netVars
    <2> QED
      BY <1>12, <2>1
  <1>17. ASSUME phase = "tasks", phase' \in {"poll", "tasks"}, UNCHANGED actives
         PROVE  Pass'
    <2>1. actives = <<>>
      BY <1>1, <1>17 DEF Pass
    <2>2. Len(actives) = 0
      BY <2>1, EmptySeq
    <2>3. \A k \in 1..Len(actives) : FALSE
      BY <2>2
    <2> QED
      BY <1>17, <2>1, <2>3 DEF Pass
  <1>18. CASE TasksDone
    BY <1>17, <1>18 DEF TasksDone
  <1>19. ASSUME NEW c \in Conns, ReleaseInLoop(c) \/ ReleaseAgain(c)
         PROVE  Pass'
    BY <1>17, <1>19 DEF ReleaseInLoop, ReleaseAgain
  <1> QED
    BY <1>5, <1>6, <1>7, <1>9, <1>10, <1>11, <1>13, <1>14, <1>15, <1>16, <1>18, <1>19
    DEF Next, LoopNext, ConnNext

\* A reason to release a connection stays one, while its turn has not come.
LEMMA ReasonStays ==
    ASSUME NEW d \in Conns, Reason(d), Types, statu'[d] = statu[d], outb'[d] = outb[d],
           peer[d] \in {"fin", "rst"} => peer'[d] = peer[d], peer[d] # "off",
           expired \subseteq expired',
           statu[d] = "DISCONNECTED" => phase' = "tasks"
    PROVE  Reason(d)'
  BY DEF Reason, Types

LEMMA ReleasesNext ==
    ASSUME IInv, [Next]_vars
    PROVE  Releases'
  <1>1. Types /\ Releases /\ tasks \in Seq(Conns) /\ Len(tasks) \in Nat
    BY LenProperties DEF IInv, Types
  <1>2. \A k \in 1..Len(tasks) : tasks[k] \in Conns /\ Reason(tasks[k])
    BY <1>1, ElementOfSeq DEF Releases
  <1>3. \A d \in Conns : statu[d] # "absent" => peer[d] # "off"
    BY DEF IInv, Life
  <1>4. \A d \in Conns : Reason(d) => peer[d] # "off"
    BY <1>3 DEF Reason
  <1>5. phase = "poll" => \A k \in 1..Len(tasks) : FALSE
    BY <1>1, EmptySeq DEF Releases
  \* Steps that leave the connections as they are.
  <1>6. ASSUME UNCHANGED <<statu, outb>>, phase' = phase \/ phase \notin {"poll", "tasks"},
               \A d \in Conns : peer[d] \in {"fin", "rst"} => peer'[d] = peer[d],
               expired \subseteq expired', NEW d \in Conns, Reason(d)
        PROVE  Reason(d)'
    <2>1. statu[d] = "DISCONNECTED" => phase' = "tasks"
      BY <1>6 DEF Reason
    <2> QED
      BY <1>1, <1>4, <1>6, <2>1, ReasonStays
  <1>7. ASSUME UNCHANGED <<statu, outb, tasks>>, phase' = phase \/ phase \notin {"poll", "tasks"},
               phase' = "poll" => phase = "poll",
               \A d \in Conns : peer[d] \in {"fin", "rst"} => peer'[d] = peer[d],
               expired \subseteq expired'
        PROVE  Releases'
    <2>1. \A k \in 1..Len(tasks) : Reason(tasks[k])'
      BY <1>2, <1>6, <1>7
    <2> QED
      BY <1>1, <1>7, <2>1 DEF Releases
  <1>8. CASE ClockTick \/ UNCHANGED vars
    BY <1>7, <1>8 DEF ClockTick, vars, wheelVars, loopVars, connVars, netVars
  <1>9. CASE \E c \in Conns : ClientNext(c)
    <2>1. UNCHANGED <<wheelVars, loopVars, connVars>>
          /\ \A d \in Conns : peer[d] \in {"fin", "rst"} => peer'[d] = peer[d]
      BY <1>9, ClientEffect
    <2> QED
      BY <1>7, <2>1 DEF wheelVars, loopVars, connVars
  <1>10. CASE Poll
    BY <1>1, <1>5, <1>10 DEF Poll, Releases
  <1>11. CASE TasksDone
    BY <1>1, <1>11, EmptySeq DEF TasksDone, Releases
  <1>12. CASE HandleTimer
    <2>1. UNCHANGED <<statu, outb, peer>> /\ phase = "read" /\ phase' # "poll" /\ due \in Nat
      BY <1>1, <1>12, ReleasedEffect DEF HandleTimer, NextChannel, connVars, netVars
    <2>2. expired' = expired \cup Fired(due)
      BY <1>12 DEF HandleTimer, OnTime
    <2>3. \A d \in Fired(due) : d \in Conns /\ alive[d] /\ d \in expired'
      BY <2>2 DEF Fired, Dropped, IInv, Life, Conns
    <2>4. \A d \in Fired(due) : Reason(d)'
      BY <2>1, <2>3 DEF Reason, IInv, Life
    <2>5. \A d \in Conns : Reason(d) => Reason(d)'
      BY <1>6, <2>1, <2>2
    <2>6. PICK released \in Seq(Conns) :
             /\ \A k \in 1..Len(tasks) : tasks'[k] = tasks[k]
             /\ Len(tasks) \in Nat /\ Len(released) \in Nat
             /\ Len(tasks') = Len(tasks) + Len(released)
             /\ \A k \in 1..Len(tasks') : k > Len(tasks) =>
                   k - Len(tasks) \in 1..Len(released) /\ tasks'[k] = released[k - Len(tasks)]
             /\ \A k \in 1..Len(released) : released[k] \in Fired(due)
      BY <1>1, <1>12, ReleasedEffect
    <2>7. \A k \in 1..Len(tasks') : k <= Len(tasks) => k \in 1..Len(tasks)
      BY <2>6
    <2>8. \A k \in 1..Len(tasks') : k <= Len(tasks) \/ k > Len(tasks)
      BY <2>6
    <2>9. \A k \in 1..Len(tasks') : k <= Len(tasks) => Reason(tasks[k])'
      BY <1>2, <2>5, <2>6, <2>7
    <2>10. \A k \in 1..Len(tasks') : k > Len(tasks) => Reason(tasks[k])'
      BY <2>4, <2>6
    <2> QED
      BY <2>1, <2>8, <2>9, <2>10 DEF Releases
  <1>13. CASE HandleAccept
    <2>1. PICK c \in Conns : statu[c] = "absent" /\ Established(c) /\ TimerAdd(c)
      BY <1>13 DEF HandleAccept, NewConnection
    <2>2. UNCHANGED <<tasks, outb, peer, expired>> /\ phase = "read" /\ phase' # "poll"
      BY <1>13, <2>1 DEF HandleAccept, NextChannel, netVars, TimerAdd
    <2>3. \A d \in Conns : d # c => statu'[d] = statu[d]
      BY <1>1, <2>1 DEF Established, Types
    <2>4. \A d \in Conns : Reason(d) => d # c /\ statu[d] # "DISCONNECTED"
      BY <2>1, <2>2 DEF Reason
    <2>5. \A d \in Conns : Reason(d) => Reason(d)'
      BY <1>1, <1>4, <2>2, <2>3, <2>4, ReasonStays
    <2> QED
      BY <1>2, <2>2, <2>5 DEF Releases
  <1>14. ASSUME NEW c \in Conns, Release(c), Reason(c)', phase' # "poll",
                \A d \in Conns : Reason(d) => Reason(d)'
         PROVE  Releases'
    <2>1. /\ Len(tasks') = Len(tasks) + 1 /\ Len(tasks) \in Nat
          /\ \A k \in 1..Len(tasks) : tasks'[k] = tasks[k]
          /\ tasks'[Len(tasks) + 1] = c
      BY <1>1, <1>14, ReleaseEffect
    <2>2. \A k \in 1..Len(tasks') : k \in 1..Len(tasks) \/ k = Len(tasks) + 1
      BY <2>1
    <2>3. \A k \in 1..Len(tasks) : Reason(tasks[k])'
      BY <1>2, <1>14, <2>1
    <2> QED
      BY <1>14, <2>1, <2>2, <2>3 DEF Releases
  <1>15. ASSUME NEW c \in Conns, SkipRead(c) \/ SkipRest(c) \/ ReleaseAgain(c) \/ HandleEvent(c)
         PROVE  /\ UNCHANGED <<statu, outb, expired, peer>> /\ phase' # "poll"
                /\ phase' = phase \/ phase \notin {"poll", "tasks"}
                /\ UNCHANGED tasks \/ (tasks # <<>> /\ tasks' = Tail(tasks))
    BY <1>15 DEF SkipRead, SkipRest, HandleEvent, ReleaseAgain, AtConn, TimerRefresh, NextChannel,
                 wheelVars, connVars, netVars
  <1>16. ASSUME tasks # <<>>, tasks' = Tail(tasks), phase' # "poll",
                \A d \in Conns : Reason(d) => Reason(d)'
         PROVE  Releases'
    <2>1. \A k \in 1..Len(tasks') : tasks'[k] = tasks[k + 1] /\ k + 1 \in 1..Len(tasks)
      BY <1>1, <1>16, TasksTail
    <2>2. \A k \in 1..Len(tasks') : Reason(tasks[k])'
      BY <1>2, <1>16, <2>1
    <2> QED
      BY <1>16, <2>2 DEF Releases
  <1>17. ASSUME NEW c \in Conns, SkipRead(c) \/ SkipRest(c) \/ ReleaseAgain(c) \/ HandleEvent(c)
         PROVE  Releases'
    <2>1. \A d \in Conns : Reason(d) => Reason(d)'
      BY <1>6, <1>15, <1>17
    <2>2. CASE UNCHANGED tasks
      BY <1>2, <1>15, <1>17, <2>1, <2>2 DEF Releases
    <2>3. CASE tasks # <<>> /\ tasks' = Tail(tasks)
      BY <1>15, <1>16, <1>17, <2>1, <2>3
    <2> QED
      BY <1>15, <1>17, <2>2, <2>3
  <1>18. ASSUME NEW c \in Conns, HandleReadEnd(c)
         PROVE  Releases'
    <2>1. UNCHANGED <<statu, outb, expired, peer>> /\ phase' = "rest" /\ AtConn(c, "read") /\ Release(c)
      BY <1>18 DEF HandleReadEnd, wheelVars, connVars, netVars
    <2>2. phase = "read"
      BY <2>1 DEF AtConn
    <2>3. \A d \in Conns : Reason(d) => Reason(d)'
      BY <1>6, <2>1, <2>2
    <2>4. "IN" \in Current.ev /\ net[c] = <<>>
      BY <1>18 DEF HandleReadEnd
    <2>5. peer[c] # "open" /\ statu[c] \in {"CONNECTED", "DISCONNECTING"}
      BY <2>1, <2>4, ConnInHand
    <2>6. Reason(c)'
      BY <2>1, <2>5 DEF Reason
    <2> QED
      BY <1>14, <2>1, <2>3, <2>6
  <1>19. ASSUME NEW c \in Conns, HandleWrite(c)
         PROVE  Releases'
    <2>1. /\ \A d \in Conns : d # c => outb'[d] = outb[d]
          /\ outb'[c] <= outb[c] /\ outb'[c] \in Nat
          /\ UNCHANGED tasks \/ (Release(c) /\ outb'[c] = 0 /\ statu[c] = "DISCONNECTING")
          /\ UNCHANGED <<expired, statu, peer>> /\ phase' = "event" /\ AtConn(c, "rest")
      BY <1>19, WriteEffect DEF wheelVars, netVars
    <2>2. phase = "rest" /\ outb[c] \in Nat
      BY <1>1, <2>1 DEF AtConn, Types
    <2>3. outb[c] = 0 => outb'[c] = 0
      BY <2>1, <2>2
    <2>4. \A d \in Conns : Reason(d) => statu[d] # "DISCONNECTED"
      BY <2>2 DEF Reason
    <2>5. \A d \in Conns : Reason(d) => Reason(d)'
      BY <2>1, <2>3, <2>4 DEF Reason
    <2>6. CASE UNCHANGED tasks
      BY <1>2, <2>1, <2>5, <2>6 DEF Releases
    <2>7. CASE Release(c) /\ outb'[c] = 0 /\ statu[c] = "DISCONNECTING"
      <3>1. Reason(c)'
        BY <2>1, <2>7 DEF Reason
      <3> QED
        BY <1>14, <2>1, <2>5, <2>7, <3>1
    <2> QED
      BY <2>1, <2>6, <2>7
  \* Requests are consumed while their connection may have a release queued.
  <1>20. ASSUME NEW c \in Conns, Handles(c), UNCHANGED <<expired, peer>>,
                AtConn(c, "read") \/ AtConn(c, "rest"), phase' \in {"rest", "event"},
                peer[c] # "open" \/ statu[c] = "CONNECTED" \/ UNCHANGED outb
         PROVE  \A d \in Conns : Reason(d) => Reason(d)'
    <2>1. /\ statu'[c] \in {statu[c], "DISCONNECTING"}
          /\ \A d \in Conns : d # c => outb'[d] = outb[d] /\ statu'[d] = statu[d]
      BY <1>1, <1>20, HandlesTyped
    <2>2. phase \in {"read", "rest"} /\ statu[c] \in {"CONNECTED", "DISCONNECTING"}
      BY <1>20, ConnInHand
    <2>3. \A d \in Conns : Reason(d) => statu[d] # "DISCONNECTED"
      BY <2>2 DEF Reason
    <2>4. \A d \in Conns : d # c /\ Reason(d) => Reason(d)'
      BY <1>20, <2>1, <2>3 DEF Reason
    <2>5. Reason(c) => Reason(c)'
      BY <1>20, <2>1, <2>2, <2>3 DEF Reason
    <2> QED
      BY <2>4, <2>5
  <1>21. ASSUME NEW c \in Conns, HandleRead(c)
         PROVE  Releases'
    <2>1. Handles(c) /\ UNCHANGED <<expired, peer, tasks>> /\ AtConn(c, "read") /\ phase' = "rest"
      BY <1>21, ReadHandles DEF wheelVars
    <2>2. statu[c] = "CONNECTED" \/ UNCHANGED outb
      BY <1>21 DEF HandleRead
    <2>3. \A d \in Conns : Reason(d) => Reason(d)'
      BY <1>20, <2>1, <2>2
    <2> QED
      BY <1>2, <2>1, <2>3 DEF Releases
  <1>22. ASSUME NEW c \in Conns, HandleFailure(c)
         PROVE  Releases'
    <2>1. /\ Handles(c) /\ Release(c) /\ AtConn(c, "rest") /\ peer[c] # "open"
          /\ UNCHANGED <<expired, peer>> /\ phase' = "event"
      BY <1>22, FailureHandles DEF wheelVars, netVars
    <2>2. \A d \in Conns : Reason(d) => Reason(d)'
      BY <1>20, <2>1
    <2>3. statu'[c] \in {statu[c], "DISCONNECTING"}
      BY <1>1, <2>1, HandlesTyped
    <2>4. statu[c] \in {"CONNECTED", "DISCONNECTING"}
      BY <2>1, ConnInHand
    <2>5. Reason(c)'
      BY <2>1, <2>3, <2>4 DEF Reason
    <2> QED
      BY <1>14, <2>1, <2>2, <2>5
  <1>23. ASSUME NEW c \in Conns, ReleaseInLoop(c)
         PROVE  Releases'
    <2>1. /\ statu' = [statu EXCEPT ![c] = "DISCONNECTED"] /\ tasks # <<>> /\ tasks' = Tail(tasks)
          /\ UNCHANGED <<outb, peer, expired>> /\ phase = "tasks" /\ phase' = "tasks" /\ alive[c]
      BY <1>23 DEF ReleaseInLoop, TimerCancel
    <2>2. statu'[c] = "DISCONNECTED" /\ \A d \in Conns : d # c => statu'[d] = statu[d]
      BY <1>1, <2>1 DEF Types
    <2>3. \A d \in Conns : d # c /\ Reason(d) => Reason(d)'
      BY <2>1, <2>2 DEF Reason
    <2>4. Reason(c) => Reason(c)'
      BY <2>1, <2>2 DEF Reason
    <2> QED
      BY <1>16, <2>1, <2>3, <2>4
  <1> QED
    BY <1>8, <1>9, <1>10, <1>11, <1>12, <1>13, <1>17, <1>18, <1>19, <1>21, <1>22, <1>23
    DEF Next, LoopNext, ConnNext

LEMMA IInvInit ==
    ASSUME Init
    PROVE  IInv
  <1>1. /\ <<>> \in Seq(Requests) /\ <<>> \in Seq(Ready) /\ <<>> \in Seq(Conns) /\ Len(<<>>) = 0
    BY EmptySeq
  <1>2. Capacity \in Nat \ {0} /\ MaxDue \in Nat /\ MaxRequests \in [Conns -> Nat]
    BY WheelAssumption, LoopAssumption DEF Conns
  <1>3. WheelTypeOK
    BY <1>2 DEF Init, WheelInit, WheelTypeOK, Positions
  <1>4. Types
    BY <1>1, <1>2, <1>3 DEF Init, Types
  <1>5. Counts
    BY <1>1, <1>2 DEF Init, Counts
  <1>6. \A c \in Conns : Life(c)
    BY DEF Init, WheelInit, Life, Conns
  <1>7. \A k \in 1..Len(<<>>) : FALSE
    BY <1>1
  <1>8. Pass
    BY <1>7 DEF Init, Pass
  <1>9. Releases
    BY <1>7 DEF Init, Releases
  <1> QED
    BY <1>4, <1>5, <1>6, <1>8, <1>9 DEF IInv

LEMMA IInvNext ==
    ASSUME IInv, [Next]_vars
    PROVE  IInv'
  <1>1. \A c \in Conns : Life(c)'
    BY LifeNext
  <1> QED
    BY <1>1, TypesNext, CountsNext, PassNext, ReleasesNext DEF IInv

\* The invariant that carries the results on the loop: every response was
\* asked for, a connection is alive, timed and watched as its status says,
\* the channels still to be handled are alive and as epoll reported them, and
\* every release that is queued has its reason.
THEOREM IInvHolds == Spec => []IInv
  BY IInvInit, IInvNext, PTL DEF Spec

\* The loop's variables have their types, and no connection owes more
\* responses than its client has sent requests.
THEOREM TypeCorrect == Spec => []TypeOK
  <1>1. ASSUME IInv
        PROVE  TypeOK
    <2>1. \A c \in Conns : /\ outb[c] \in Nat /\ asked[c] \in Nat /\ MaxRequests[c] \in Nat
                           /\ inb[c] \in Seq(Requests) /\ net[c] \in Seq(Requests)
      BY <1>1, LoopAssumption DEF IInv, Types, Conns
    <2>2. \A c \in Conns : Len(inb[c]) \in Nat /\ Len(net[c]) \in Nat
      BY <2>1, LenProperties
    <2>3. \A c \in Conns : outb[c] + Len(inb[c]) + Len(net[c]) <= asked[c] /\ asked[c] <= MaxRequests[c]
      BY <1>1 DEF IInv, Counts
    <2>4. \A c \in Conns : outb[c] \in 0..asked[c] /\ asked[c] \in 0..MaxRequests[c]
      BY <2>1, <2>2, <2>3
    <2> QED
      BY <1>1, <2>4 DEF IInv, Types, TypeOK, Ready
  <1> QED
    BY <1>1, IInvHolds, PTL

\* The loop never handles a channel whose connection was destroyed earlier in
\* the same pass: every channel that epoll reported is alive until its turn.
THEOREM ChannelsLiveToTheirTurn == Spec => []ActivesAlive
  <1>1. ASSUME IInv
        PROVE  ActivesAlive
    <2>1. actives \in Seq(Ready)
      BY <1>1 DEF IInv, Types
    <2>2. DOMAIN actives = 1..Len(actives)
      BY <2>1, LenProperties
    <2> QED
      BY <1>1, <2>2 DEF IInv, Pass, Promised, ActivesAlive
  <1> QED
    BY <1>1, IInvHolds, PTL

\* A connection is watched for EPOLLOUT exactly while it has output, and one
\* that is torn down with a response unsent has lost its client or exceeded
\* its time: Connection: close never cuts a response off.
THEOREM ResponsesAreWritten == Spec => []OutputInv
  <1>1. ASSUME IInv
        PROVE  OutputInv
    BY <1>1 DEF IInv, Life, OutputInv, WriteInterest, DrainBeforeClose
  <1> QED
    BY <1>1, IInvHolds, PTL
-----------------------------------------------------------------------------
(***************************************************************************)
(* Late releases.                                                          *)
(***************************************************************************)
\* Where c is in a queue.
PlacesOf(s, c) == {k \in DOMAIN s : s[k] = c}

LEMMA PlacesCounted ==
    ASSUME NEW s \in Seq(Conns), NEW c
    PROVE  /\ IsFiniteSet(PlacesOf(s, c)) /\ Cardinality(PlacesOf(s, c)) \in Nat
           /\ Cardinality(PlacesOf(s, c)) > 0 => \E k \in 1..Len(s) : s[k] = c
  <1>1. Len(s) \in Nat /\ DOMAIN s = 1..Len(s)
    BY LenProperties
  <1>2. IsFiniteSet(1..Len(s)) /\ PlacesOf(s, c) \in SUBSET (1..Len(s))
    BY <1>1, FS_Interval DEF PlacesOf
  <1>3. IsFiniteSet(PlacesOf(s, c)) /\ Cardinality(PlacesOf(s, c)) \in Nat
    BY <1>2, FS_Subset, FS_CardinalityType
  <1>4. PlacesOf(s, c) = {} => Cardinality(PlacesOf(s, c)) = 0
    BY FS_EmptySet
  <1>5. PlacesOf(s, c) # {} => \E k \in 1..Len(s) : s[k] = c
    BY <1>1 DEF PlacesOf
  <1> QED
    BY <1>3, <1>4, <1>5

\* Taking the first element adds no place.
LEMMA PlacesInTail ==
    ASSUME NEW s \in Seq(Conns), s # <<>>, NEW c
    PROVE  Cardinality(PlacesOf(Tail(s), c)) <= Cardinality(PlacesOf(s, c))
  <1>1. Len(s) \in Nat /\ DOMAIN s = 1..Len(s)
    BY LenProperties
  <1>2. /\ Tail(s) \in Seq(Conns) /\ Len(Tail(s)) = Len(s) - 1
        /\ \A k \in 1..Len(Tail(s)) : Tail(s)[k] = s[k + 1]
    BY HeadTailProperties
  <1>3. DOMAIN Tail(s) = 1..Len(Tail(s))
    BY <1>2, LenProperties
  <1> DEFINE P == PlacesOf(Tail(s), c)
             Q == PlacesOf(s, c)
             f == [k \in P |-> k + 1]
  <1>4. \A k \in P : k \in Nat /\ k + 1 \in Q
    BY <1>1, <1>2, <1>3 DEF PlacesOf
  <1>5. f \in Injection(P, Q)
    <2>1. f \in [P -> Q]
      BY <1>4
    <2>2. \A i, k \in P : f[i] = f[k] => i = k
      BY <1>4
    <2> HIDE DEF f, P, Q
    <2> QED
      BY <2>1, <2>2 DEF Injection, IsInjective
  <1>6. IsFiniteSet(Q)
    BY PlacesCounted
  <1> HIDE DEF f, P, Q
  <1>7. Cardinality(P) <= Cardinality(Q)
    BY <1>5, <1>6, FS_Injection
  <1> QED
    BY <1>7 DEF P, Q

\* Appending others adds no place.
LEMMA PlacesBehind ==
    ASSUME NEW s \in Seq(Conns), NEW t \in Seq(Conns), NEW c, Len(s) <= Len(t),
           \A k \in 1..Len(s) : t[k] = s[k],
           \A k \in 1..Len(t) : k > Len(s) => t[k] # c
    PROVE  PlacesOf(t, c) = PlacesOf(s, c)
  <1>1. Len(s) \in Nat /\ DOMAIN s = 1..Len(s) /\ Len(t) \in Nat /\ DOMAIN t = 1..Len(t)
    BY LenProperties
  <1>2. \A k \in 1..Len(t) : k \in 1..Len(s) \/ k > Len(s)
    BY <1>1
  <1>3. \A k \in 1..Len(s) : k \in 1..Len(t)
    BY <1>1
  <1> QED
    BY <1>1, <1>2, <1>3 DEF PlacesOf

LEMMA QueuedStep ==
    ASSUME IInv, [Next]_vars, NEW c \in Conns, statu[c] = "DISCONNECTED"
    PROVE  Queued(c)' <= Queued(c)
  <1>1. Types /\ tasks \in Seq(Conns) /\ tasks' \in Seq(Conns) /\ ~alive[c]
    BY TypesNext DEF IInv, Types, Life
  <1>2. Queued(c) = Cardinality(PlacesOf(tasks, c)) /\ Queued(c)' = Cardinality(PlacesOf(tasks', c))
    BY DEF Queued, PlacesOf
  <1>3. Queued(c) \in Nat
    BY <1>1, <1>2, PlacesCounted
  <1>4. CASE UNCHANGED tasks
    BY <1>2, <1>3, <1>4
  <1>5. CASE tasks # <<>> /\ tasks' = Tail(tasks)
    BY <1>1, <1>2, <1>5, PlacesInTail
  <1>6. ASSUME NEW d \in Conns, Release(d), alive[d]
        PROVE  Queued(c)' <= Queued(c)
    <2>1. /\ Len(tasks') = Len(tasks) + 1 /\ Len(tasks) \in Nat
          /\ \A k \in 1..Len(tasks) : tasks'[k] = tasks[k]
          /\ tasks'[Len(tasks) + 1] = d /\ d # c
      BY <1>1, <1>6, ReleaseEffect
    <2>2. \A k \in 1..Len(tasks') : k > Len(tasks) => k = Len(tasks) + 1
      BY <2>1
    <2>3. PlacesOf(tasks', c) = PlacesOf(tasks, c)
      BY <1>1, <2>1, <2>2, PlacesBehind
    <2> QED
      BY <1>2, <1>3, <2>3
  <1>7. CASE HandleTimer
    <2>1. PICK released \in Seq(Conns) :
             /\ \A k \in 1..Len(tasks) : tasks'[k] = tasks[k]
             /\ Len(tasks) \in Nat /\ Len(released) \in Nat
             /\ Len(tasks') = Len(tasks) + Len(released)
             /\ \A k \in 1..Len(tasks') : k > Len(tasks) =>
                   k - Len(tasks) \in 1..Len(released) /\ tasks'[k] = released[k - Len(tasks)]
             /\ \A k \in 1..Len(released) : released[k] \in Fired(due)
      BY <1>1, <1>7, ReleasedEffect
    <2>2. c \notin Fired(due)
      BY <1>1 DEF Fired, IInv, Life
    <2>3. \A k \in 1..Len(tasks') : k > Len(tasks) => tasks'[k] # c
      BY <2>1, <2>2
    <2>4. PlacesOf(tasks', c) = PlacesOf(tasks, c)
      BY <1>1, <2>1, <2>3, PlacesBehind
    <2> QED
      BY <1>2, <1>3, <2>4
  <1>8. CASE ClockTick \/ Poll \/ HandleAccept \/ TasksDone \/ UNCHANGED vars
    BY <1>4, <1>8 DEF ClockTick, Poll, HandleAccept, TasksDone, vars, loopVars
  <1>9. CASE \E d \in Conns : ClientNext(d)
    BY <1>4, <1>9, ClientEffect DEF loopVars
  <1>10. ASSUME NEW d \in Conns, ConnNext(d)
         PROVE  Queued(c)' <= Queued(c)
    <2>1. CASE SkipRead(d) \/ HandleRead(d) \/ SkipRest(d) \/ HandleEvent(d)
      BY <1>4, <2>1 DEF SkipRead, HandleRead, SkipRest, HandleEvent
    <2>2. CASE HandleReadEnd(d)
      BY <1>6, <2>2, ConnInHand DEF HandleReadEnd
    <2>3. CASE HandleFailure(d)
      BY <1>6, <2>3, ConnInHand, FailureHandles
    <2>4. CASE HandleWrite(d)
      BY <1>4, <1>6, <2>4, ConnInHand, WriteEffect
    <2>5. CASE ReleaseInLoop(d) \/ ReleaseAgain(d)
      BY <1>5, <2>5 DEF ReleaseInLoop, ReleaseAgain
    <2> QED
      BY <1>10, <2>1, <2>2, <2>3, <2>4, <2>5 DEF ConnNext
  <1> QED
    BY <1>7, <1>8, <1>9, <1>10 DEF Next, LoopNext

\* Once a connection is torn down nothing queues a release of it any more,
\* its inactivity timer least of all, and what was queued before runs in the
\* batch of tasks that tore it down.
THEOREM ReleasesInTime == Spec => NoLateRelease
  <1>1. ASSUME IInv, [Next]_vars
        PROVE  [\A c \in Conns : statu[c] = "DISCONNECTED" =>
                  /\ Queued(c)' <= Queued(c)
                  /\ Queued(c) > 0 => phase = "tasks"]_vars
    <2> SUFFICES ASSUME NEW c \in Conns, statu[c] = "DISCONNECTED"
                 PROVE  Queued(c)' <= Queued(c) /\ (Queued(c) > 0 => phase = "tasks")
      OBVIOUS
    <2>1. tasks \in Seq(Conns) /\ Queued(c) = Cardinality(PlacesOf(tasks, c))
      BY <1>1 DEF IInv, Types, Queued, PlacesOf
    <2>2. Queued(c) > 0 => \E k \in 1..Len(tasks) : tasks[k] = c
      BY <2>1, PlacesCounted
    <2>3. Queued(c) > 0 => phase = "tasks"
      BY <1>1, <2>2 DEF IInv, Releases, Reason
    <2> QED
      BY <1>1, <2>3, QueuedStep
  <1> QED
    BY <1>1, IInvHolds, PTL DEF Spec, NoLateRelease
-----------------------------------------------------------------------------
(***************************************************************************)
(* The wheel is a set of countdown timers.  Its arithmetic first, for any  *)
(* place t of the hand.                                                    *)
(***************************************************************************)
StepsFrom(t, p) == IF p > t THEN p - t ELSE p - t + Capacity

\* Steps until the last of the positions S is cleared.
LastOf(t, S) ==
    LET steps == {StepsFrom(t, p) : p \in S}
    IN  IF steps = {} THEN 0 ELSE CHOOSE n \in steps : \A k \in steps : k <= n

\* The hand goes round at most once.
LEMMA OneRound ==
    ASSUME NEW n \in Nat \ {0}, NEW x \in 0..(2 * n - 1)
    PROVE  x % n = IF x < n THEN x ELSE x - n
  <1>1. CASE x < n
    <2>1. x \in 0..(n - 1)
      BY <1>1
    <2>2. x % n = x
      BY <2>1
    <2> QED
      BY <1>1, <2>2
  <1>2. CASE x >= n
    <2>1. x \in n..(2 * n - 1)
      BY <1>2
    <2>2. x % n = x - n
      BY <2>1
    <2> QED
      BY <1>2, <2>2
  <1> QED
    BY <1>1, <1>2

LEMMA StepsRange ==
    ASSUME NEW t \in Positions, NEW p \in Positions
    PROVE  /\ StepsFrom(t, p) \in 1..Capacity
           /\ (t + StepsFrom(t, p)) % Capacity = p
           /\ \A k \in 1..Capacity : (t + k) % Capacity = p => k = StepsFrom(t, p)
  <1>1. Capacity \in Nat \ {0} /\ t \in 0..(Capacity - 1) /\ p \in 0..(Capacity - 1)
    BY WheelAssumption DEF Positions
  <1>2. StepsFrom(t, p) \in 1..Capacity
    BY <1>1 DEF StepsFrom
  <1>3. ASSUME NEW k \in 1..Capacity
        PROVE  (t + k) % Capacity = IF t + k < Capacity THEN t + k ELSE t + k - Capacity
    <2> DEFINE x == t + k
    <2>1. x \in 0..(2 * Capacity - 1)
      BY <1>1
    <2> HIDE DEF x
    <2>2. x % Capacity = IF x < Capacity THEN x ELSE x - Capacity
      BY <1>1, <2>1, OneRound
    <2> QED
      BY <1>1, <2>2 DEF x
  <1>4. (t + StepsFrom(t, p)) % Capacity
           = IF t + StepsFrom(t, p) < Capacity THEN t + StepsFrom(t, p) ELSE t + StepsFrom(t, p) - Capacity
    BY <1>2, <1>3
  <1>5. (IF t + StepsFrom(t, p) < Capacity THEN t + StepsFrom(t, p)
                                           ELSE t + StepsFrom(t, p) - Capacity) = p
    BY <1>1 DEF StepsFrom
  <1>6. ASSUME NEW k \in 1..Capacity,
               (IF t + k < Capacity THEN t + k ELSE t + k - Capacity) = p
        PROVE  k = StepsFrom(t, p)
    BY <1>1, <1>6 DEF StepsFrom
  <1> QED
    BY <1>2, <1>3, <1>4, <1>5, <1>6

\* Where a timer is put.
LEMMA StepsAhead ==
    ASSUME NEW t \in Positions
    PROVE  /\ (t + Timeout) % Capacity \in Positions
           /\ StepsFrom(t, (t + Timeout) % Capacity) = Timeout
  <1>1. Capacity \in Nat \ {0} /\ t \in 0..(Capacity - 1) /\ Timeout \in 1..Capacity
    BY WheelAssumption DEF Positions
  <1>3. (t + Timeout) % Capacity = IF t + Timeout < Capacity THEN t + Timeout ELSE t + Timeout - Capacity
    <2> DEFINE x == t + Timeout
    <2>1. x \in 0..(2 * Capacity - 1)
      BY <1>1
    <2> HIDE DEF x
    <2>2. x % Capacity = IF x < Capacity THEN x ELSE x - Capacity
      BY <1>1, <2>1, OneRound
    <2> QED
      BY <1>1, <2>2 DEF x
  <1>4. (t + Timeout) % Capacity \in Positions
    BY <1>1, <1>3 DEF Positions
  <1>5. StepsFrom(t, (t + Timeout) % Capacity) = Timeout
    BY <1>4, <1>1, <1>3, StepsRange
  <1> QED
    BY <1>4, <1>5

\* The positions the hand clears in n steps.
Swept(t, n) == {(t + k) % Capacity : k \in 1..n}

\* What the hand clears in n steps, and how far the rest are then.
LEMMA StepsCleared ==
    ASSUME NEW t \in Positions, NEW p \in Positions, NEW n \in Nat
    PROVE  /\ p \in Swept(t, n) <=> StepsFrom(t, p) <= n
           /\ (t + n) % Capacity \in Positions
           /\ StepsFrom(t, p) > n => StepsFrom((t + n) % Capacity, p) = StepsFrom(t, p) - n
  <1>1. Capacity \in Nat \ {0} /\ t \in 0..(Capacity - 1) /\ p \in 0..(Capacity - 1)
    BY WheelAssumption DEF Positions
  <1>2. /\ StepsFrom(t, p) \in 1..Capacity /\ (t + StepsFrom(t, p)) % Capacity = p
        /\ \A k \in 1..Capacity : (t + k) % Capacity = p => k = StepsFrom(t, p)
    BY StepsRange
  <1>3. StepsFrom(t, p) <= n => p \in Swept(t, n)
    <2>1. StepsFrom(t, p) <= n => StepsFrom(t, p) \in 1..n
      BY <1>1, <1>2
    <2> QED
      BY <1>2, <2>1 DEF Swept
  <1>4. StepsFrom(t, p) > n => \A k \in 1..n : k \in 1..Capacity /\ k # StepsFrom(t, p)
    BY <1>1, <1>2
  <1>5. StepsFrom(t, p) > n => p \notin Swept(t, n)
    BY <1>2, <1>4 DEF Swept
  <1>6. StepsFrom(t, p) > n \/ StepsFrom(t, p) <= n
    BY <1>1, <1>2
  <1>7. (t + n) % Capacity \in Positions
    BY <1>1, Moduli DEF Positions
  <1>8. ASSUME StepsFrom(t, p) > n
        PROVE  StepsFrom((t + n) % Capacity, p) = StepsFrom(t, p) - n
    <2>1. n < Capacity
      BY <1>1, <1>2, <1>8
    <2>2. (t + n) % Capacity = IF t + n < Capacity THEN t + n ELSE t + n - Capacity
      <3> DEFINE x == t + n
      <3>1. x \in 0..(2 * Capacity - 1)
        BY <1>1, <2>1
      <3> HIDE DEF x
      <3>2. x % Capacity = IF x < Capacity THEN x ELSE x - Capacity
        BY <1>1, <3>1, OneRound
      <3> QED
        BY <1>1, <3>2 DEF x
    <2>3. StepsFrom(IF t + n < Capacity THEN t + n ELSE t + n - Capacity, p) = StepsFrom(t, p) - n
      BY <1>1, <1>8, <2>1 DEF StepsFrom
    <2> QED
      BY <2>2, <2>3
  <1> QED
    BY <1>3, <1>5, <1>6, <1>7, <1>8

LEMMA LastIs ==
    ASSUME NEW t \in Positions, NEW S \in SUBSET Positions
    PROVE  /\ S = {} => LastOf(t, S) = 0
           /\ S # {} => /\ \E p \in S : LastOf(t, S) = StepsFrom(t, p)
                        /\ \A p \in S : StepsFrom(t, p) <= LastOf(t, S)
  <1> DEFINE steps == {StepsFrom(t, p) : p \in S}
             room == {Capacity - StepsFrom(t, p) : p \in S}
  <1>1. S = {} => LastOf(t, S) = 0
    BY DEF LastOf
  <1>2. ASSUME S # {}
        PROVE  /\ \E p \in S : LastOf(t, S) = StepsFrom(t, p)
               /\ \A p \in S : StepsFrom(t, p) <= LastOf(t, S)
    <2>1. Capacity \in Nat /\ \A p \in S : StepsFrom(t, p) \in 1..Capacity
      BY StepsRange, WheelAssumption
    <2>2. room \in SUBSET Nat /\ room # {}
      BY <1>2, <2>1
    <2>3. PICK m \in room : \A k \in room : m <= k
      BY <2>2, Least
    <2>4. PICK p \in S : m = Capacity - StepsFrom(t, p)
      BY <2>3
    <2>5. ASSUME NEW q \in S
          PROVE  StepsFrom(t, q) <= StepsFrom(t, p)
      <3>1. Capacity - StepsFrom(t, p) <= Capacity - StepsFrom(t, q)
        BY <2>3, <2>4
      <3>2. StepsFrom(t, p) \in Int /\ StepsFrom(t, q) \in Int
        BY <2>1
      <3> QED
        BY <2>1, <3>1, <3>2
    <2>6. StepsFrom(t, p) \in steps /\ \A k \in steps : k <= StepsFrom(t, p)
      BY <2>5
    <2>7. LastOf(t, S) = CHOOSE n \in steps : \A k \in steps : k <= n
      BY <2>6 DEF LastOf
    <2> HIDE DEF steps
    <2>8. LastOf(t, S) \in steps /\ \A k \in steps : k <= LastOf(t, S)
      BY <2>6, <2>7
    <2> QED
      BY <2>8 DEF steps
  <1> QED
    BY <1>1, <1>2

\* The furthest position decides.
LEMMA LastDecided ==
    ASSUME NEW t \in Positions, NEW S \in SUBSET Positions, NEW p \in S,
           \A q \in S : StepsFrom(t, q) <= StepsFrom(t, p)
    PROVE  LastOf(t, S) = StepsFrom(t, p)
  <1>1. PICK q \in S : LastOf(t, S) = StepsFrom(t, q)
    BY LastIs
  <1>2. StepsFrom(t, p) <= LastOf(t, S)
    BY LastIs
  <1>3. StepsFrom(t, p) \in Int /\ StepsFrom(t, q) \in Int
    BY StepsRange
  <1> QED
    BY <1>1, <1>2, <1>3

\* One more pointer ahead of the hand sets the timer back to its delay.
LEMMA LastAhead ==
    ASSUME NEW t \in Positions, NEW S \in SUBSET Positions,
           \A q \in S : StepsFrom(t, q) <= Timeout
    PROVE  LastOf(t, S \cup {(t + Timeout) % Capacity}) = Timeout
  <1> DEFINE p == (t + Timeout) % Capacity
  <1>1. p \in Positions /\ StepsFrom(t, p) = Timeout /\ Timeout \in Int
    BY StepsAhead, WheelAssumption
  <1> HIDE DEF p
  <1>2. /\ S \cup {p} \in SUBSET Positions /\ p \in S \cup {p}
        /\ \A q \in S \cup {p} : StepsFrom(t, q) <= StepsFrom(t, p)
    BY <1>1
  <1>3. LastOf(t, S \cup {p}) = StepsFrom(t, p)
    BY <1>2, LastDecided
  <1> QED
    BY <1>1, <1>3 DEF p

\* After n steps of the hand a timer has n fewer to go, or none.
LEMMA LastCleared ==
    ASSUME NEW t \in Positions, NEW S \in SUBSET Positions, NEW n \in Nat
    PROVE  /\ LastOf((t + n) % Capacity, S \ Swept(t, n))
                 = IF LastOf(t, S) > n THEN LastOf(t, S) - n ELSE 0
           /\ S \subseteq Swept(t, n) <=> LastOf(t, S) <= n
           /\ LastOf(t, S) \in 0..Capacity /\ (LastOf(t, S) = 0 <=> S = {})
  <1> DEFINE gone == Swept(t, n)
             u == (t + n) % Capacity
  <1>1. /\ u \in Positions
        /\ \A p \in S : /\ p \in gone <=> StepsFrom(t, p) <= n
                        /\ StepsFrom(t, p) > n => StepsFrom(u, p) = StepsFrom(t, p) - n
    BY StepsCleared, WheelAssumption DEF Positions
  <1>2. \A p \in S : StepsFrom(t, p) \in 1..Capacity
    BY StepsRange
  <1>3. Capacity \in Nat \ {0}
    BY WheelAssumption
  <1> HIDE DEF gone, u
  <1>4. CASE S = {}
    <2>1. LastOf(t, S) = 0 /\ S \ gone = {}
      BY <1>4, LastIs
    <2>2. LastOf(u, S \ gone) = 0
      BY <1>1, <2>1, LastIs
    <2> QED
      BY <1>3, <1>4, <2>1, <2>2 DEF gone, u
  <1>5. CASE S # {}
    <2>1. PICK p \in S : LastOf(t, S) = StepsFrom(t, p)
      BY <1>5, LastIs
    <2>2. \A q \in S : StepsFrom(t, q) <= StepsFrom(t, p)
      BY <1>5, <2>1, LastIs
    <2>3. StepsFrom(t, p) \in 1..Capacity /\ (StepsFrom(t, p) > n \/ StepsFrom(t, p) <= n)
      BY <1>2, <1>3
    <2>4. CASE StepsFrom(t, p) > n
      <3>1. p \in S \ gone
        BY <1>1, <1>2, <1>3, <2>4
      <3>2. \A q \in S \ gone : StepsFrom(t, q) > n
        BY <1>1, <1>2, <1>3
      <3>3. \A q \in S \ gone : StepsFrom(u, q) <= StepsFrom(u, p)
        <4> SUFFICES ASSUME NEW q \in S \ gone
                     PROVE  StepsFrom(u, q) <= StepsFrom(u, p)
          OBVIOUS
        <4>1. StepsFrom(u, q) = StepsFrom(t, q) - n /\ StepsFrom(u, p) = StepsFrom(t, p) - n
          BY <1>1, <2>4, <3>2
        <4>2. StepsFrom(t, q) \in Int /\ StepsFrom(t, p) \in Int /\ StepsFrom(t, q) <= StepsFrom(t, p)
          BY <1>2, <2>2
        <4> QED
          BY <4>1, <4>2
      <3>4. LastOf(u, S \ gone) = StepsFrom(u, p)
        BY <1>1, <3>1, <3>3, LastDecided
      <3>5. LastOf(u, S \ gone) = LastOf(t, S) - n
        BY <1>1, <2>1, <2>4, <3>4
      <3>6. ~(S \subseteq gone) /\ ~(LastOf(t, S) <= n)
        BY <1>3, <2>1, <2>3, <2>4, <3>1
      <3> QED
        BY <1>3, <1>5, <2>1, <2>3, <2>4, <3>5, <3>6 DEF gone, u
    <2>5. CASE StepsFrom(t, p) <= n
      <3>1. \A q \in S : StepsFrom(t, q) <= n
        BY <1>2, <1>3, <2>2, <2>5
      <3>2. S \subseteq gone /\ S \ gone = {}
        BY <1>1, <3>1
      <3>3. LastOf(u, S \ gone) = 0
        BY <1>1, <3>2, LastIs
      <3>4. ~(LastOf(t, S) > n)
        BY <1>3, <2>1, <2>3, <2>5
      <3> QED
        BY <1>3, <1>5, <2>1, <2>3, <2>5, <3>2, <3>3, <3>4 DEF gone, u
    <2> QED
      BY <2>3, <2>4, <2>5
  <1> QED
    BY <1>4, <1>5
-----------------------------------------------------------------------------
(***************************************************************************)
(* The wheel implements CountdownTimers.                                   *)
(***************************************************************************)
\* A timer has a pointer in the wheel, none further ahead than its delay.
WheelInv ==
    \A id \in Timers : /\ HasTimer(id) <=> slots[id] # {}
                       /\ \A p \in slots[id] : StepsFrom(tick, p) <= Timeout

\* The loop works the wheel by its operations only, and starts a timer for
\* connections that have none.
LEMMA WheelSteps ==
    ASSUME IInv, [Next]_vars
    PROVE  \/ UNCHANGED wheelVars
           \/ \E id \in Timers : \/ timer[id] = "none" /\ TimerAdd(id)
                                 \/ TimerRefresh(id)
                                 \/ TimerCancel(id)
           \/ \E times \in Nat : OnTime(times)
  <1>1. CASE ClockTick \/ Poll \/ TasksDone \/ UNCHANGED vars
    BY <1>1 DEF ClockTick, Poll, TasksDone, vars
  <1>2. CASE \E c \in Conns : ClientNext(c)
    BY <1>2, ClientEffect
  <1>3. CASE HandleTimer
    BY <1>3, ReleasedEffect DEF IInv
  <1>4. CASE HandleAccept
    <2>1. PICK c \in Conns : statu[c] = "absent" /\ TimerAdd(c)
      BY <1>4 DEF HandleAccept, NewConnection
    <2>2. timer[c] = "none"
      BY <2>1 DEF IInv, Life
    <2> QED
      BY <2>1, <2>2 DEF Conns
  <1>5. ASSUME NEW c \in Conns, ConnNext(c)
        PROVE  UNCHANGED wheelVars \/ TimerRefresh(c) \/ TimerCancel(c)
    <2>1. CASE SkipRead(c) \/ HandleRead(c) \/ HandleReadEnd(c) \/ SkipRest(c) \/ HandleWrite(c)
               \/ HandleFailure(c) \/ ReleaseAgain(c)
      BY <2>1 DEF SkipRead, HandleRead, HandleReadEnd, SkipRest, HandleWrite, HandleFailure, ReleaseAgain
    <2>2. CASE HandleEvent(c) \/ ReleaseInLoop(c)
      BY <2>2 DEF HandleEvent, ReleaseInLoop
    <2> QED
      BY <1>5, <2>1, <2>2 DEF ConnNext
  <1> QED
    BY <1>1, <1>2, <1>3, <1>4, <1>5 DEF Next, LoopNext, Conns

\* How long the timers have to go, in terms of the wheel.
LEMMA LeftIs ==
    /\ \A id : Left(id) = LastOf(tick, slots[id]) /\ Left(id)' = LastOf(tick', slots'[id])
    /\ WheelTypeOK => tick \in Positions /\ \A id \in Timers : slots[id] \in SUBSET Positions
  BY DEF Left, LastOf, StepsTo, StepsFrom, WheelTypeOK

\* What WheelInv says of the time a timer has left.
LEMMA LeftRange ==
    ASSUME WheelTypeOK, WheelInv, NEW id \in Timers
    PROVE  Left(id) \in 0..Timeout /\ (HasTimer(id) <=> Left(id) > 0)
  <1>1. tick \in Positions /\ slots[id] \in SUBSET Positions /\ Left(id) = LastOf(tick, slots[id])
    BY LeftIs
  <1>2. LastOf(tick, slots[id]) \in 0..Capacity /\ (LastOf(tick, slots[id]) = 0 <=> slots[id] = {})
    <2>1. 0 \in Nat
      OBVIOUS
    <2> QED
      BY <1>1, <2>1, LastCleared
  <1>3. Timeout \in Nat /\ Capacity \in Nat
    BY WheelAssumption
  <1>4. CASE slots[id] = {}
    BY <1>1, <1>2, <1>3, <1>4 DEF WheelInv
  <1>5. CASE slots[id] # {}
    <2>1. PICK p \in slots[id] : LastOf(tick, slots[id]) = StepsFrom(tick, p)
      BY <1>1, <1>5, LastIs
    <2>2. LastOf(tick, slots[id]) <= Timeout
      BY <2>1 DEF WheelInv
    <2> QED
      BY <1>1, <1>2, <1>3, <1>5, <2>2 DEF WheelInv
  <1> QED
    BY <1>4, <1>5

\* Starting and refreshing a timer.
LEMMA WheelSet ==
    ASSUME WheelTypeOK, WheelInv, NEW id \in Timers,
           \/ timer[id] = "none" /\ TimerAdd(id)
           \/ HasTimer(id) /\ TimerRefresh(id)
    PROVE  /\ WheelInv'
           /\ Left(id)' = Timeout /\ \A d \in Timers : d # id => Left(d)' = Left(d)
           /\ \A d \in Timers : timer[d] = "canceled" <=> timer'[d] = "canceled"
           /\ expired' = expired
  <1>1. /\ tick \in Positions /\ tick' = tick /\ expired' = expired
        /\ slots \in [Timers -> SUBSET Positions] /\ timer \in [Timers -> {"none", "armed", "canceled"}]
    BY DEF WheelTypeOK, TimerAdd, TimerRefresh
  <1> DEFINE a == (tick + Timeout) % Capacity
             S == IF timer[id] = "none" THEN {} ELSE slots[id]
  <1>2. a \in Positions /\ StepsFrom(tick, a) = Timeout /\ Timeout \in Int
    BY <1>1, StepsAhead, WheelAssumption
  <1>3. slots' = [slots EXCEPT ![id] = S \cup {a}]
    BY DEF TimerAdd, TimerRefresh, HasTimer, Ahead
  <1>4. /\ timer'[id] # "none" /\ (timer'[id] = "canceled" <=> timer[id] = "canceled")
        /\ \A d \in Timers : d # id => timer'[d] = timer[d]
    BY <1>1 DEF TimerAdd, TimerRefresh, HasTimer
  <1>5. S \in SUBSET Positions /\ \A q \in S : StepsFrom(tick, q) <= Timeout
    BY <1>1 DEF WheelInv
  <1>6. LastOf(tick, S \cup {a}) = Timeout
    BY <1>1, <1>5, LastAhead
  <1> HIDE DEF a, S
  <1>7. slots'[id] = S \cup {a} /\ \A d \in Timers : d # id => slots'[d] = slots[d]
    BY <1>1, <1>3
  <1>8. \A q \in S \cup {a} : StepsFrom(tick, q) <= Timeout
    BY <1>2, <1>5
  <1>9. WheelInv'
    BY <1>1, <1>4, <1>7, <1>8 DEF WheelInv, HasTimer
  <1>10. Left(id)' = Timeout /\ \A d \in Timers : d # id => Left(d)' = Left(d)
    BY <1>1, <1>6, <1>7, LeftIs
  <1> QED
    BY <1>1, <1>4, <1>9, <1>10

\* The hand moves.
LEMMA WheelMoves ==
    ASSUME WheelTypeOK, WheelInv, NEW times \in Nat, OnTime(times)
    PROVE  /\ WheelInv'
           /\ \A id \in Timers :
                 /\ Left(id)' = IF Left(id) > times THEN Left(id) - times ELSE 0
                 /\ id \in Dropped(times) <=> Left(id) \in 1..times
                 /\ timer'[id] = IF Left(id) \in 1..times THEN "none" ELSE timer[id]
           /\ expired' = expired \cup {id \in Timers : Left(id) \in 1..times /\ timer[id] = "armed"}
  <1>1. tick \in Positions /\ \A id \in Timers : slots[id] \in SUBSET Positions
    BY LeftIs
  <1>2. /\ tick' = (tick + times) % Capacity
        /\ \A id \in Timers : slots'[id] = slots[id] \ Swept(tick, times)
        /\ \A id \in Timers : timer'[id] = IF id \in Dropped(times) THEN "none" ELSE timer[id]
    BY DEF OnTime, Cleared, Swept
  <1>3. ASSUME NEW id \in Timers
        PROVE  /\ Left(id)' = IF Left(id) > times THEN Left(id) - times ELSE 0
               /\ id \in Dropped(times) <=> Left(id) \in 1..times
               /\ Left(id) \in 0..Timeout
               /\ slots[id] \subseteq Swept(tick, times) <=> Left(id) <= times
    <2>1. /\ LastOf((tick + times) % Capacity, slots[id] \ Swept(tick, times))
                = IF LastOf(tick, slots[id]) > times THEN LastOf(tick, slots[id]) - times ELSE 0
          /\ slots[id] \subseteq Swept(tick, times) <=> LastOf(tick, slots[id]) <= times
      BY <1>1, LastCleared
    <2>2. Left(id) = LastOf(tick, slots[id]) /\ Left(id)' = LastOf(tick', slots'[id])
      BY LeftIs
    <2>3. Left(id)' = IF Left(id) > times THEN Left(id) - times ELSE 0
      BY <1>2, <2>1, <2>2
    <2>4. Left(id) \in 0..Timeout /\ (HasTimer(id) <=> Left(id) > 0)
      BY LeftRange
    <2>5. slots[id] \subseteq Cleared(times) <=> Left(id) <= times
      BY <2>1, <2>2 DEF Cleared, Swept
    <2>6. id \in Dropped(times) <=> HasTimer(id) /\ slots[id] \subseteq Cleared(times)
      BY DEF Dropped
    <2>7. Left(id) > 0 /\ Left(id) <= times <=> Left(id) \in 1..times
      BY <2>4, WheelAssumption
    <2> QED
      BY <2>1, <2>2, <2>3, <2>4, <2>5, <2>6, <2>7
  <1>4. expired' = expired \cup {id \in Timers : Left(id) \in 1..times /\ timer[id] = "armed"}
    <2>1. \A id \in Dropped(times) : id \in Timers
      BY DEF Dropped
    <2>2. Fired(times) = {id \in Timers : Left(id) \in 1..times /\ timer[id] = "armed"}
      BY <1>3, <2>1 DEF Fired
    <2> QED
      BY <2>2 DEF OnTime
  <1>5. ASSUME NEW id \in Timers
        PROVE  /\ timer'[id] # "none" <=> slots'[id] # {}
               /\ \A p \in slots'[id] : StepsFrom(tick', p) <= Timeout
    <2>1. slots'[id] = {} <=> Left(id) <= times
      BY <1>2, <1>3
    <2>2. timer'[id] = "none" <=> Left(id) \in 1..times \/ ~HasTimer(id)
      BY <1>2, <1>3 DEF HasTimer
    <2>3. HasTimer(id) <=> Left(id) > 0
      BY LeftRange
    <2>4. Left(id) \in 1..times \/ ~(Left(id) > 0) <=> Left(id) <= times
      BY <1>3, WheelAssumption
    <2>5. timer'[id] # "none" <=> slots'[id] # {}
      BY <2>1, <2>2, <2>3, <2>4
    <2>6. ASSUME NEW p \in slots'[id]
          PROVE  StepsFrom(tick', p) <= Timeout
      <3>1. p \in Positions /\ p \in slots[id] /\ p \notin Swept(tick, times)
        BY <1>1, <1>2
      <3>2. StepsFrom(tick, p) \in 1..Capacity /\ StepsFrom(tick, p) <= Timeout
        BY <1>1, <3>1, StepsRange DEF WheelInv
      <3>3. ~(StepsFrom(tick, p) <= times)
        BY <1>1, <3>1, StepsCleared
      <3>4. StepsFrom(tick, p) > times
        BY <3>2, <3>3, WheelAssumption
      <3>5. StepsFrom(tick', p) = StepsFrom(tick, p) - times
        BY <1>1, <1>2, <3>1, <3>4, StepsCleared
      <3> QED
        BY <3>2, <3>4, <3>5, WheelAssumption
    <2> QED
      BY <2>5, <2>6
  <1>6. WheelInv'
    BY <1>5 DEF WheelInv, HasTimer
  <1> QED
    BY <1>2, <1>3, <1>4, <1>6

LEMMA WheelInvInit ==
    ASSUME Init
    PROVE  WheelInv /\ Countdown!Init
  <1>1. tick = 0 /\ slots = [id \in Timers |-> {}] /\ timer = [id \in Timers |-> "none"] /\ expired = {}
    BY DEF Init, WheelInit
  <1>2. WheelInv
    BY <1>1 DEF WheelInv, HasTimer
  <1>3. 0 \in Positions
    BY WheelAssumption DEF Positions
  <1>4. \A id \in Timers : Left(id) = 0
    BY <1>1, <1>3, LeftIs, LastIs
  <1>5. [id \in Timers |-> Left(id)] = [id \in Timers |-> 0]
    BY <1>4
  <1>6. {id \in Timers : timer[id] = "canceled"} = {}
    BY <1>1
  <1> QED
    BY <1>1, <1>2, <1>5, <1>6 DEF Countdown!Init

LEMMA WheelInvNext ==
    ASSUME IInv, WheelInv, [Next]_vars
    PROVE  WheelInv' /\ [Countdown!Next]_(Countdown!vars)
  <1>1. WheelTypeOK
    BY DEF IInv, Types
  <1> DEFINE left == [id \in Timers |-> Left(id)]
             canceled == {id \in Timers : timer[id] = "canceled"}
             left1 == [id \in Timers |-> Left(id)']
             canceled1 == {id \in Timers : timer'[id] = "canceled"}
             kept == WheelInv' /\ [Countdown!Next]_(Countdown!vars)
  <1>2. left' = left1 /\ canceled' = canceled1
    OBVIOUS
  <1>3. timer \in [Timers -> {"none", "armed", "canceled"}] /\ slots \in [Timers -> SUBSET Positions]
    BY <1>1 DEF WheelTypeOK
  <1>4. \A id \in Timers : Left(id) \in 0..Timeout /\ (HasTimer(id) <=> Left(id) > 0)
    BY <1>1, LeftRange
  <1>5. Timeout \in Nat \ {0}
    BY WheelAssumption
  <1>6. ASSUME UNCHANGED wheelVars
        PROVE  kept
    <2>1. UNCHANGED <<tick, slots, timer, expired>>
      BY <1>6 DEF wheelVars
    <2>2. WheelInv'
      BY <2>1 DEF WheelInv, HasTimer
    <2>3. \A id : Left(id)' = Left(id)
      BY <2>1, LeftIs
    <2>4. left1 = left /\ canceled1 = canceled
      BY <2>1, <2>3
    <2> QED
      BY <1>2, <2>1, <2>2, <2>4 DEF Countdown!vars
  <1>7. ASSUME NEW id \in Timers,
               (timer[id] = "none" /\ TimerAdd(id)) \/ (HasTimer(id) /\ TimerRefresh(id))
        PROVE  kept
    <2>1. /\ WheelInv' /\ expired' = expired
          /\ Left(id)' = Timeout /\ \A d \in Timers : d # id => Left(d)' = Left(d)
          /\ \A d \in Timers : timer[d] = "canceled" <=> timer'[d] = "canceled"
      BY <1>1, <1>7, WheelSet
    <2>2. left1 = [left EXCEPT ![id] = Timeout] /\ canceled1 = canceled
      BY <2>1
    <2>3. left[id] = 0 \/ left[id] > 0
      BY <1>4, <1>5
    <2>4. Countdown!Add(id) \/ Countdown!Refresh(id)
      BY <1>2, <2>1, <2>2, <2>3 DEF Countdown!Add, Countdown!Refresh
    <2> QED
      BY <2>1, <2>4 DEF Countdown!Next
  <1>8. ASSUME NEW id \in Timers, TimerRefresh(id), ~HasTimer(id)
        PROVE  UNCHANGED wheelVars
    BY <1>8 DEF TimerRefresh, wheelVars
  <1>9. ASSUME NEW id \in Timers, TimerCancel(id)
        PROVE  kept
    <2>1. UNCHANGED <<tick, slots, expired>>
      BY <1>9 DEF TimerCancel
    <2>2. \A d : Left(d)' = Left(d)
      BY <2>1, LeftIs
    <2>3. CASE HasTimer(id)
      <3>1. timer' = [timer EXCEPT ![id] = "canceled"]
        BY <1>9, <2>3 DEF TimerCancel
      <3>2. \A d \in Timers : timer'[d] = "none" <=> timer[d] = "none"
        BY <1>3, <2>3, <3>1 DEF HasTimer
      <3>3. WheelInv'
        BY <2>1, <3>2 DEF WheelInv, HasTimer
      <3>4. left1 = left /\ canceled1 = canceled \cup {id} /\ left[id] > 0
        BY <1>3, <1>4, <2>2, <2>3, <3>1
      <3>5. Countdown!Cancel(id)
        BY <1>2, <2>1, <3>4 DEF Countdown!Cancel
      <3> QED
        BY <3>3, <3>5 DEF Countdown!Next
    <2>4. CASE ~HasTimer(id)
      <3>1. UNCHANGED wheelVars
        BY <1>9, <2>1, <2>4 DEF TimerCancel, wheelVars
      <3> QED
        BY <1>6, <3>1
    <2> QED
      BY <2>3, <2>4
  <1>10. ASSUME NEW times \in Nat, OnTime(times)
         PROVE  kept
    <2>1. /\ WheelInv'
          /\ \A id \in Timers : Left(id)' = IF Left(id) > times THEN Left(id) - times ELSE 0
          /\ \A id \in Timers : timer'[id] = IF Left(id) \in 1..times THEN "none" ELSE timer[id]
          /\ expired' = expired \cup {id \in Timers : Left(id) \in 1..times /\ timer[id] = "armed"}
      BY <1>1, <1>10, WheelMoves
    <2> DEFINE n == IF times > Timeout THEN Timeout ELSE times
               done == {id \in Timers : left[id] \in 1..n}
    <2>2. n \in 0..Timeout
      BY <1>5
    <2>3. \A id \in Timers : /\ Left(id) > times <=> Left(id) > n
                             /\ Left(id) \in 1..times <=> Left(id) \in 1..n
                             /\ Left(id) > times => times = n
      BY <1>4, <1>5
    <2> HIDE DEF n
    <2>4. left1 = [id \in Timers |-> IF left[id] > n THEN left[id] - n ELSE 0]
      BY <2>1, <2>3
    <2>5. \A id \in Timers : left[id] \in 1..n => HasTimer(id) /\ left[id] = Left(id)
      BY <1>4, <1>5, <2>2
    <2>6. \A id \in Timers : HasTimer(id) => timer[id] \in {"armed", "canceled"}
      BY <1>3 DEF HasTimer
    <2>7. expired' = expired \cup (done \ canceled)
      BY <2>1, <2>3, <2>5, <2>6
    <2>8. canceled1 = canceled \ done
      BY <2>1, <2>3
    <2>9. Countdown!Elapse(n)
      BY <1>2, <2>4, <2>7, <2>8 DEF Countdown!Elapse
    <2>10. CASE n \in 1..Timeout
      BY <2>1, <2>9, <2>10 DEF Countdown!Next
    <2>11. CASE n = 0
      <3>1. \A id \in Timers : Left(id)' = Left(id) /\ left[id] \notin 1..n
        BY <1>4, <1>5, <2>4, <2>11
      <3>2. left1 = left /\ done = {}
        BY <3>1
      <3>3. canceled1 = canceled /\ expired' = expired
        BY <2>7, <2>8, <3>2
      <3> QED
        BY <1>2, <2>1, <3>2, <3>3 DEF Countdown!vars
    <2> QED
      BY <1>5, <2>2, <2>10, <2>11
  <1> HIDE DEF kept
  <1>11. ASSUME NEW id \in Timers, TimerRefresh(id)
         PROVE  kept
    BY <1>6, <1>7, <1>8, <1>11
  <1>12. ASSUME NEW id \in Timers, timer[id] = "none", TimerAdd(id)
         PROVE  kept
    BY <1>7, <1>12
  <1>13. kept
    BY WheelSteps, <1>6, <1>9, <1>10, <1>11, <1>12
  <1> QED
    BY <1>13 DEF kept

\* The wheel keeps its promise, for every capacity, delay and lag of the
\* clock: a timer fires exactly Timeout expirations after it was last
\* refreshed, once, and not at all when it was cancelled.
THEOREM WheelImplementsCountdown == Spec => WheelPromise
  <1>1. Init => WheelInv /\ Countdown!Init
    BY WheelInvInit
  <1>2. IInv /\ WheelInv /\ [Next]_vars => WheelInv' /\ [Countdown!Next]_(Countdown!vars)
    BY WheelInvNext
  <1> QED
    BY <1>1, <1>2, IInvHolds, PTL DEF Spec, WheelPromise, Countdown!Spec
=============================================================================
