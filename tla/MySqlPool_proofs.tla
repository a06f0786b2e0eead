--------------------------- MODULE MySqlPool_proofs ---------------------------
(***************************************************************************)
(* Proofs about the connection pool, for every finite set of clients and   *)
(* every max_connections.  The inductive invariant adds to the properties  *)
(* of MySqlPool a budget that survives Shutdown: the idle connections and  *)
(* the clients that hold a slot are never more than max_connections, even  *)
(* when total_ no longer counts them.                                      *)
(***************************************************************************)
EXTENDS MySqlPool, FiniteSetTheorems, SequenceTheorems, TLAPS

Budget == Len(idle) + Cardinality(Busy) <= MaxConnections

\* Clients with a given control state in the state function f.
Sel(f, L) == {c \in Clients : f[c] \in L}

LEMMA SelFinite ==
    ASSUME NEW f, NEW L
    PROVE  IsFiniteSet(Sel(f, L)) /\ Cardinality(Sel(f, L)) \in Nat
  BY PoolAssumption, FS_Subset, FS_CardinalityType DEF Sel

\* In g, client c has moved to l.
Moved(f, g, c, l) ==
    /\ f \in [Clients -> Labels] /\ c \in Clients /\ l \in Labels
    /\ g = [f EXCEPT ![c] = l]

(* Moving one client changes the number of clients at the labels L by what  *)
(* it leaves and enters.                                                    *)
LEMMA SelMove ==
    ASSUME NEW f \in [Clients -> Labels], NEW g, NEW c \in Clients, NEW l, NEW L,
           Moved(f, g, c, l)
    PROVE  /\ Cardinality(Sel(f, L)) \in Nat
           /\ (l \in L <=> f[c] \in L) => Cardinality(Sel(g, L)) = Cardinality(Sel(f, L))
           /\ l \in L /\ f[c] \notin L => Cardinality(Sel(g, L)) = Cardinality(Sel(f, L)) + 1
           /\ l \notin L /\ f[c] \in L => Cardinality(Sel(g, L)) = Cardinality(Sel(f, L)) - 1
  <1> DEFINE S == Sel(f, L)
             T == Sel(g, L)
  <1>1. IsFiniteSet(S) /\ Cardinality(S) \in Nat
    BY SelFinite
  <1>2. (l \in L <=> f[c] \in L) => T = S
    BY DEF Sel, Moved
  <1>3. l \in L /\ f[c] \notin L => T = S \cup {c} /\ c \notin S
    BY DEF Sel, Moved
  <1>4. l \notin L /\ f[c] \in L => T = S \ {c} /\ c \in S
    BY DEF Sel, Moved
  <1> HIDE DEF S, T
  <1>5. c \notin S => Cardinality(S \cup {c}) = Cardinality(S) + 1
    BY <1>1, FS_AddElement
  <1>6. c \in S => Cardinality(S \ {c}) = Cardinality(S) - 1
    BY <1>1, FS_RemoveElement
  <1>7. /\ (l \in L <=> f[c] \in L) => Cardinality(T) = Cardinality(S)
        /\ l \in L /\ f[c] \notin L => Cardinality(T) = Cardinality(S) + 1
        /\ l \notin L /\ f[c] \in L => Cardinality(T) = Cardinality(S) - 1
    BY <1>2, <1>3, <1>4, <1>5, <1>6
  <1> QED
    BY <1>1, <1>7 DEF S, T

\* The labels the invariants count.
BusyL == {"ping", "using", "connect"}
ReadyL == {"woken", "retry"}

\* The two counts the invariants speak of.
BusyCount == Cardinality(Busy)
ReadyCount == Cardinality(At({"woken", "retry"}))

LEMMA Counts ==
    /\ BusyCount = Cardinality(Sel(pc, BusyL))
    /\ BusyCount' = Cardinality(Sel(pc', BusyL))
    /\ ReadyCount = Cardinality(Sel(pc, ReadyL))
    /\ ReadyCount' = Cardinality(Sel(pc', ReadyL))
    /\ BusyCount \in Nat /\ BusyCount' \in Nat
    /\ ReadyCount \in Nat /\ ReadyCount' \in Nat
  <1>1. /\ Busy = Sel(pc, BusyL)
        /\ Busy' = Sel(pc', BusyL)
        /\ At({"woken", "retry"}) = Sel(pc, ReadyL)
        /\ At({"woken", "retry"})' = Sel(pc', ReadyL)
    BY DEF Busy, At, Sel, BusyL, ReadyL
  <1> QED
    BY <1>1, SelFinite DEF BusyCount, ReadyCount

(* What Move does to the counts.                                            *)
LEMMA MoveCounts ==
    ASSUME pc \in [Clients -> Labels], NEW c \in Clients, NEW l \in Labels,
           Move(c, l)
    PROVE  /\ (l \in BusyL <=> pc[c] \in BusyL) => BusyCount' = BusyCount
           /\ l \in BusyL /\ pc[c] \notin BusyL => BusyCount' = BusyCount + 1
           /\ l \notin BusyL /\ pc[c] \in BusyL => BusyCount' = BusyCount - 1
           /\ (l \in ReadyL <=> pc[c] \in ReadyL) => ReadyCount' = ReadyCount
           /\ l \in ReadyL /\ pc[c] \notin ReadyL => ReadyCount' = ReadyCount + 1
           /\ l \notin ReadyL /\ pc[c] \in ReadyL => ReadyCount' = ReadyCount - 1
           /\ BusyCount \in Nat /\ BusyCount' \in Nat
           /\ ReadyCount \in Nat /\ ReadyCount' \in Nat
           /\ pc' \in [Clients -> Labels] /\ pc'[c] = l
           /\ \A d \in Clients : d # c => pc'[d] = pc[d]
  <1>1. Moved(pc, pc', c, l)
    BY DEF Move, Moved
  <1>2. /\ (l \in BusyL <=> pc[c] \in BusyL) => BusyCount' = BusyCount
        /\ l \in BusyL /\ pc[c] \notin BusyL => BusyCount' = BusyCount + 1
        /\ l \notin BusyL /\ pc[c] \in BusyL => BusyCount' = BusyCount - 1
    BY <1>1, Counts, SelMove
  <1>3. /\ (l \in ReadyL <=> pc[c] \in ReadyL) => ReadyCount' = ReadyCount
        /\ l \in ReadyL /\ pc[c] \notin ReadyL => ReadyCount' = ReadyCount + 1
        /\ l \notin ReadyL /\ pc[c] \in ReadyL => ReadyCount' = ReadyCount - 1
    BY <1>1, Counts, SelMove
  <1>4. /\ pc' \in [Clients -> Labels] /\ pc'[c] = l
        /\ \A d \in Clients : d # c => pc'[d] = pc[d]
    BY <1>1 DEF Moved
  <1> QED
    BY <1>2, <1>3, <1>4, Counts

(* A notification makes one more client ready.                              *)
LEMMA WakeCounts ==
    ASSUME NEW f \in [Clients -> Labels], NEW g, NEW w \in Clients,
           Moved(f, g, w, "woken"), f[w] = "waiting"
    PROVE  /\ Cardinality(Sel(g, BusyL)) = Cardinality(Sel(f, BusyL))
           /\ Cardinality(Sel(g, ReadyL)) = Cardinality(Sel(f, ReadyL)) + 1
  <1>1. /\ "woken" \notin BusyL /\ "woken" \in ReadyL
        /\ f[w] \notin BusyL /\ f[w] \notin ReadyL
    BY DEF BusyL, ReadyL
  <1>2. Cardinality(Sel(g, BusyL)) = Cardinality(Sel(f, BusyL))
    BY <1>1, SelMove
  <1>3. Cardinality(Sel(g, ReadyL)) = Cardinality(Sel(f, ReadyL)) + 1
    BY <1>1, SelMove
  <1> QED
    BY <1>2, <1>3

(* What MoveAndNotify(c, "out") does to the counts when c gives up a slot:  *)
(* if somebody waits, somebody is woken.                                    *)
LEMMA NotifyCounts ==
    ASSUME pc \in [Clients -> Labels], NEW c \in Clients,
           pc[c] \in {"using", "connect"}, MoveAndNotify(c, "out")
    PROVE  /\ pc' \in [Clients -> Labels]
           /\ pc'[c] = "out"
           /\ \A d \in Clients : d # c => pc'[d] = pc[d]
                                          \/ (pc[d] = "waiting" /\ pc'[d] = "woken")
           /\ BusyCount' = BusyCount - 1
           /\ \/ At({"waiting"})' = {}
              \/ ReadyCount' = ReadyCount + 1 /\ At({"waiting"}) # {}
           /\ BusyCount \in Nat /\ BusyCount' \in Nat
           /\ ReadyCount \in Nat /\ ReadyCount' \in Nat
  <1>0. /\ "out" \in Labels /\ "woken" \in Labels
        /\ "out" \notin BusyL /\ "out" \notin ReadyL
        /\ "woken" \notin BusyL /\ "woken" \in ReadyL
        /\ "waiting" \notin BusyL /\ "waiting" \notin ReadyL
        /\ pc[c] \in BusyL /\ pc[c] \notin ReadyL /\ pc[c] # "waiting"
    BY DEF Labels, BusyL, ReadyL
  <1>1. CASE At({"waiting"}) = {}
    <2>1. Move(c, "out")
      BY <1>1 DEF MoveAndNotify, Move
    <2>3. /\ BusyCount' = BusyCount - 1
          /\ BusyCount \in Nat /\ BusyCount' \in Nat
          /\ ReadyCount \in Nat /\ ReadyCount' \in Nat
          /\ pc' \in [Clients -> Labels] /\ pc'[c] = "out"
          /\ \A d \in Clients : d # c => pc'[d] = pc[d]
      BY <1>0, <2>1, MoveCounts
    <2>2. At({"waiting"})' = {}
      BY <1>1, <2>3 DEF At
    <2> QED
      BY <2>2, <2>3
  <1>2. CASE At({"waiting"}) # {}
    <2>1. PICK w \in At({"waiting"}) :
             pc' = [pc EXCEPT ![c] = "out", ![w] = "woken"]
      BY <1>2 DEF MoveAndNotify
    <2>2. w \in Clients /\ pc[w] = "waiting" /\ w # c
      BY <1>0, <2>1 DEF At
    <2>3. PICK f : Moved(pc, f, c, "out")
      BY <1>0 DEF Moved
    <2>4. /\ f \in [Clients -> Labels] /\ w \in Clients
          /\ f[w] = "waiting" /\ Moved(f, pc', w, "woken")
      BY <1>0, <2>1, <2>2, <2>3 DEF Moved
    <2>5. Cardinality(Sel(f, BusyL)) = BusyCount - 1
      BY <1>0, <2>3, Counts, SelMove
    <2>6. Cardinality(Sel(f, ReadyL)) = ReadyCount
      BY <1>0, <2>3, Counts, SelMove
    <2>7. BusyCount' = Cardinality(Sel(f, BusyL))
      BY <2>4, Counts, WakeCounts
    <2>8. ReadyCount' = Cardinality(Sel(f, ReadyL)) + 1
      BY <2>4, Counts, WakeCounts
    <2>9. /\ pc' \in [Clients -> Labels] /\ pc'[c] = "out"
          /\ \A d \in Clients : d # c => \/ pc'[d] = pc[d]
                                         \/ pc[d] = "waiting" /\ pc'[d] = "woken"
      BY <2>2, <2>3, <2>4 DEF Moved
    <2> QED
      BY <1>2, <2>5, <2>6, <2>7, <2>8, <2>9, Counts
  <1> QED
    BY <1>1, <1>2
-----------------------------------------------------------------------------
\* The invariants about numbers, with the counts named.
Counted ==
    /\ ~shutdown => total = Len(idle) + BusyCount
    /\ Len(idle) + BusyCount <= MaxConnections
    /\ ~shutdown /\ At({"waiting"}) # {} =>
           Len(idle) + MaxConnections - total <= ReadyCount

LEMMA CountedForm == Counted <=> Accounting /\ Budget /\ NoLostWakeup
  BY DEF Counted, Accounting, Budget, NoLostWakeup, BusyCount, ReadyCount

(* No action but AcquireWaits makes a client wait.                          *)
LEMMA WaitingMove ==
    ASSUME pc \in [Clients -> Labels], NEW c \in Clients, NEW l \in Labels,
           Move(c, l), l # "waiting"
    PROVE  At({"waiting"})' # {} => At({"waiting"}) # {}
  BY DEF Move, At

(* Every step of a client keeps the count invariants.                       *)
LEMMA CountStep ==
    ASSUME TypeOK, Counted, NEW c \in Clients, Acquire(c) \/ Release(c)
    PROVE  Counted'
  <1> DEFINE Waiting == At({"waiting"}) # {}
  <1>t. /\ pc \in [Clients -> Labels] /\ shutdown \in BOOLEAN
        /\ idle \in Seq(Conns) /\ total \in Nat /\ Len(idle) \in Nat
    BY PoolAssumption DEF TypeOK
  <1>m. MaxConnections \in Nat
    BY PoolAssumption
  <1>l. /\ "out" \in Labels /\ "waiting" \in Labels /\ "ping" \in Labels
        /\ "using" \in Labels /\ "connect" \in Labels /\ "retry" \in Labels
    BY DEF Labels
  <1>b. /\ "out" \notin BusyL /\ "waiting" \notin BusyL /\ "retry" \notin BusyL
        /\ "woken" \notin BusyL
        /\ "ping" \in BusyL /\ "using" \in BusyL /\ "connect" \in BusyL
        /\ "out" \notin ReadyL /\ "waiting" \notin ReadyL /\ "ping" \notin ReadyL
        /\ "using" \notin ReadyL /\ "connect" \notin ReadyL
        /\ "retry" \in ReadyL /\ "woken" \in ReadyL
    BY DEF BusyL, ReadyL
  <1>1. CASE AcquireThrows(c)
    <2>1. Move(c, "out") /\ Enters(c) /\ shutdown /\ shutdown' /\ idle' = idle
      BY <1>1, <1>t DEF AcquireThrows
    <2>2. BusyCount' = BusyCount /\ BusyCount \in Nat
      BY <2>1, <1>t, <1>l, <1>b, MoveCounts DEF Enters
    <2> QED
      BY <2>1, <2>2, <1>t, <1>m DEF Counted
  <1>2. CASE AcquireWaits(c)
    <2>1. /\ Move(c, "waiting") /\ Enters(c) /\ ~shutdown /\ ~shutdown'
          /\ idle' = idle /\ total' = total /\ Len(idle) = 0
          /\ total >= MaxConnections
      BY <1>2, <1>t DEF AcquireWaits
    <2>2. BusyCount' = BusyCount /\ BusyCount \in Nat /\ ReadyCount' \in Nat
      BY <2>1, <1>t, <1>l, <1>b, MoveCounts DEF Enters
    <2> QED
      BY <2>1, <2>2, <1>t, <1>m DEF Counted
  <1>3. CASE AcquireIdle(c)
    <2>1. /\ Move(c, "ping") /\ Enters(c) /\ ~shutdown /\ ~shutdown'
          /\ total' = total /\ Len(idle') = Len(idle) - 1 /\ Len(idle') \in Nat
      BY <1>3, <1>t DEF AcquireIdle
    <2>2. /\ BusyCount' = BusyCount + 1 /\ BusyCount \in Nat
          /\ ReadyCount \in Nat /\ ReadyCount' \in Nat
          /\ ReadyCount' = ReadyCount \/ ReadyCount' = ReadyCount - 1
      BY <2>1, <1>t, <1>l, <1>b, MoveCounts DEF Enters
    <2>3. Waiting' => Waiting
      BY <2>1, <1>t, <1>l, WaitingMove
    <2> QED
      BY <2>1, <2>2, <2>3, <1>t, <1>m DEF Counted
  <1>4. CASE AcquireNew(c)
    <2>1. /\ Move(c, "connect") /\ Enters(c) /\ ~shutdown /\ ~shutdown'
          /\ idle' = idle /\ Len(idle) = 0 /\ total' = total + 1
          /\ total < MaxConnections
      BY <1>4, <1>t DEF AcquireNew
    <2>2. /\ BusyCount' = BusyCount + 1 /\ BusyCount \in Nat
          /\ ReadyCount \in Nat /\ ReadyCount' \in Nat
          /\ ReadyCount' = ReadyCount \/ ReadyCount' = ReadyCount - 1
      BY <2>1, <1>t, <1>l, <1>b, MoveCounts DEF Enters
    <2>3. Waiting' => Waiting
      BY <2>1, <1>t, <1>l, WaitingMove
    <2> QED
      BY <2>1, <2>2, <2>3, <1>t, <1>m DEF Counted
  <1>5. CASE PingAlive(c) \/ ConnectSucceeds(c)
    <2>1. /\ Move(c, "using") /\ pc[c] \in {"ping", "connect"}
          /\ shutdown' = shutdown /\ idle' = idle /\ total' = total
      BY <1>5 DEF PingAlive, ConnectSucceeds
    <2>2. BusyCount' = BusyCount /\ ReadyCount' = ReadyCount
      BY <2>1, <1>t, <1>l, <1>b, MoveCounts
    <2>3. Waiting' => Waiting
      BY <2>1, <1>t, <1>l, WaitingMove
    <2> QED
      BY <2>1, <2>2, <2>3 DEF Counted
  <1>6. CASE PingDead(c)
    <2>1. /\ Move(c, "retry") /\ pc[c] = "ping"
          /\ shutdown' = shutdown /\ idle' = idle /\ total' = Decrement(total)
      BY <1>6 DEF PingDead
    <2>2. /\ BusyCount' = BusyCount - 1 /\ BusyCount \in Nat /\ BusyCount' \in Nat
          /\ ReadyCount' = ReadyCount + 1 /\ ReadyCount \in Nat
      BY <2>1, <1>t, <1>l, <1>b, MoveCounts
    <2>3. Waiting' => Waiting
      BY <2>1, <1>t, <1>l, WaitingMove
    <2>4. ~shutdown => total' = total - 1
      BY <2>1, <2>2, <1>t DEF Counted, Decrement
    <2> QED
      BY <2>1, <2>2, <2>3, <2>4, <1>t, <1>m DEF Counted
  <1>7. CASE ConnectFails(c) \/ ReleaseDead(c)
    <2>1. /\ MoveAndNotify(c, "out") /\ pc[c] \in {"using", "connect"}
          /\ shutdown' = shutdown /\ idle' = idle
          /\ total' = Decrement(total) \/ total' = IF total > 0 THEN total - 1 ELSE total
      BY <1>7 DEF ConnectFails, ReleaseDead
    <2>2. /\ BusyCount' = BusyCount - 1 /\ BusyCount \in Nat /\ BusyCount' \in Nat
          /\ ReadyCount \in Nat /\ ReadyCount' \in Nat
          /\ ~Waiting' \/ (ReadyCount' = ReadyCount + 1 /\ Waiting)
      BY <2>1, <1>t, NotifyCounts
    <2>4. ~shutdown => total' = total - 1
      BY <2>1, <2>2, <1>t DEF Counted, Decrement
    <2> QED
      BY <2>1, <2>2, <2>4, <1>t, <1>m DEF Counted
  <1>8. CASE ReleaseClosed(c)
    <2>1. Move(c, "out") /\ pc[c] = "using" /\ shutdown /\ shutdown' /\ idle' = idle
      BY <1>8, <1>t DEF ReleaseClosed
    <2>2. BusyCount' = BusyCount - 1 /\ BusyCount \in Nat
      BY <2>1, <1>t, <1>l, <1>b, MoveCounts
    <2> QED
      BY <2>1, <2>2, <1>t, <1>m DEF Counted
  <1>9. CASE ReleaseAlive(c)
    <2>1. /\ MoveAndNotify(c, "out") /\ pc[c] = "using"
          /\ ~shutdown /\ ~shutdown' /\ total' = total
          /\ idle' = Append(idle, conn[c])
      BY <1>9, <1>t DEF ReleaseAlive
    <2>2. Len(idle') = Len(idle) + 1
      BY <2>1, <1>t
    <2>3. /\ BusyCount' = BusyCount - 1 /\ BusyCount \in Nat /\ BusyCount' \in Nat
          /\ ReadyCount \in Nat /\ ReadyCount' \in Nat
          /\ ~Waiting' \/ (ReadyCount' = ReadyCount + 1 /\ Waiting)
      BY <2>1, <1>t, NotifyCounts
    <2> QED
      BY <2>1, <2>2, <2>3, <1>t, <1>m DEF Counted
  <1> QED
    BY <1>1, <1>2, <1>3, <1>4, <1>5, <1>6, <1>7, <1>8, <1>9 DEF Acquire, Release

(* So does Shutdown, after which only the budget speaks.                    *)
LEMMA CountShutdown ==
    ASSUME TypeOK, Counted, Shutdown
    PROVE  Counted'
  <1>1. /\ pc \in [Clients -> Labels]
        /\ shutdown' = TRUE /\ idle' = <<>> /\ Len(idle) \in Nat
        /\ pc' = [d \in Clients |-> IF pc[d] = "waiting" THEN "woken" ELSE pc[d]]
    BY DEF Shutdown, TypeOK
  <1>2. Busy' = Busy
    BY <1>1 DEF Busy, At
  <1>3. BusyCount' = BusyCount /\ BusyCount \in Nat
    BY <1>2, Counts DEF BusyCount
  <1> QED
    BY <1>1, <1>3, PoolAssumption DEF Counted
-----------------------------------------------------------------------------
(* OneOwner over arbitrary values: queue q, holders H with handles f, open   *)
(* connections L.                                                           *)
Owned(q, H, f, L) ==
    /\ \A k, l \in DOMAIN q : q[k] = q[l] => k = l
    /\ \A c, d \in H : f[c] = f[d] => c = d
    /\ \A c \in H, k \in DOMAIN q : f[c] # q[k]
    /\ \A k \in DOMAIN q : q[k] \in L
    /\ \A c \in H : f[c] \in L
    /\ \A x \in L : (\E k \in DOMAIN q : x = q[k]) \/ (\E c \in H : x = f[c])

LEMMA OwnedForm ==
    /\ OneOwner <=> Owned(idle, Holders, conn, live)
    /\ OneOwner' <=> Owned(idle', Holders', conn', live')
  BY DEF OneOwner, Owned

(* The head of the queue goes to a client.                                  *)
LEMMA OwnedTake ==
    ASSUME NEW q \in Seq(Conns), q # <<>>, NEW H \in SUBSET Clients,
           NEW c \in Clients \ H, NEW f \in [Clients -> Conns \cup {0}], NEW L,
           Owned(q, H, f, L)
    PROVE  Owned(Tail(q), H \cup {c}, [f EXCEPT ![c] = Head(q)], L)
  <1> DEFINE r == Tail(q)
             g == [f EXCEPT ![c] = Head(q)]
  <1>1. /\ Len(q) \in Nat \ {0} /\ DOMAIN q = 1..Len(q) /\ DOMAIN r = 1..(Len(q) - 1)
        /\ \A k \in 1..(Len(q) - 1) : r[k] = q[k + 1] /\ k + 1 \in DOMAIN q /\ k + 1 # 1
        /\ \A j \in DOMAIN q : j = 1 \/ (j - 1 \in DOMAIN r /\ r[j - 1] = q[j])
        /\ 1 \in DOMAIN q
    BY EmptySeq
  <1>2. g[c] = q[1] /\ \A d \in H : g[d] = f[d] /\ d # c
    OBVIOUS
  <1> HIDE DEF r, g
  <1>3. Owned(r, H \cup {c}, g, L)
    <2>1. \A k, l \in DOMAIN r : r[k] = r[l] => k = l
      <3> SUFFICES ASSUME NEW k \in 1..(Len(q) - 1), NEW l \in 1..(Len(q) - 1),
                          r[k] = r[l]
                   PROVE  k = l
        BY <1>1
      <3>1. q[k + 1] = q[l + 1] /\ k + 1 \in DOMAIN q /\ l + 1 \in DOMAIN q
        BY <1>1
      <3>2. k + 1 = l + 1
        BY <3>1 DEF Owned
      <3> QED
        BY <1>1, <3>2
    <2>2. \A d, e \in H \cup {c} : g[d] = g[e] => d = e
      BY <1>1, <1>2 DEF Owned
    <2>3. \A d \in H \cup {c}, k \in DOMAIN r : g[d] # r[k]
      BY <1>1, <1>2 DEF Owned
    <2>4. \A k \in DOMAIN r : r[k] \in L
      BY <1>1 DEF Owned
    <2>5. \A d \in H \cup {c} : g[d] \in L
      BY <1>1, <1>2 DEF Owned
    <2>6. \A x \in L : (\E k \in DOMAIN r : x = r[k]) \/ (\E d \in H \cup {c} : x = g[d])
      BY <1>1, <1>2 DEF Owned
    <2> QED
      BY <2>1, <2>2, <2>3, <2>4, <2>5, <2>6 DEF Owned
  <1> QED
    BY <1>3 DEF r, g

(* A client opens a connection.                                             *)
LEMMA OwnedOpen ==
    ASSUME NEW q, NEW H \in SUBSET Clients, NEW c \in Clients \ H,
           NEW f \in [Clients -> Conns \cup {0}], NEW L, NEW k \in Conns \ L,
           Owned(q, H, f, L)
    PROVE  Owned(q, H \cup {c}, [f EXCEPT ![c] = k], L \cup {k})
  BY DEF Owned

(* A client closes its connection.                                          *)
LEMMA OwnedClose ==
    ASSUME NEW q, NEW H \in SUBSET Clients, NEW c \in H,
           NEW f \in [Clients -> Conns \cup {0}], NEW L, Owned(q, H, f, L)
    PROVE  Owned(q, H \ {c}, [f EXCEPT ![c] = 0], L \ {f[c]})
  BY DEF Owned

(* A client puts its connection back into the queue.                        *)
LEMMA OwnedReturn ==
    ASSUME NEW q \in Seq(Conns), NEW H \in SUBSET Clients, NEW c \in H,
           NEW f \in [Clients -> Conns \cup {0}], NEW L, f[c] \in Conns,
           Owned(q, H, f, L)
    PROVE  Owned(Append(q, f[c]), H \ {c}, [f EXCEPT ![c] = 0], L)
  <1> DEFINE r == Append(q, f[c])
             g == [f EXCEPT ![c] = 0]
  <1>1. /\ Len(q) \in Nat /\ DOMAIN q = 1..Len(q) /\ DOMAIN r = 1..(Len(q) + 1)
        /\ r[Len(q) + 1] = f[c] /\ \A k \in DOMAIN q : r[k] = q[k]
        /\ \A k \in DOMAIN r : k \in DOMAIN q \/ k = Len(q) + 1
        /\ \A k \in DOMAIN q : k \in DOMAIN r
        /\ Len(q) + 1 \in DOMAIN r
    OBVIOUS
  <1>2. \A d \in H \ {c} : g[d] = f[d] /\ d # c
    OBVIOUS
  <1> HIDE DEF r, g
  <1>3. Owned(r, H \ {c}, g, L)
    <2>1. \A k, l \in DOMAIN r : r[k] = r[l] => k = l
      BY <1>1 DEF Owned
    <2>2. \A d, e \in H \ {c} : g[d] = g[e] => d = e
      BY <1>2 DEF Owned
    <2>3. \A d \in H \ {c}, k \in DOMAIN r : g[d] # r[k]
      BY <1>1, <1>2 DEF Owned
    <2>4. \A k \in DOMAIN r : r[k] \in L
      BY <1>1 DEF Owned
    <2>5. \A d \in H \ {c} : g[d] \in L
      BY <1>2 DEF Owned
    <2>6. \A x \in L : (\E k \in DOMAIN r : x = r[k]) \/ (\E d \in H \ {c} : x = g[d])
      BY <1>1, <1>2 DEF Owned
    <2> QED
      BY <2>1, <2>2, <2>3, <2>4, <2>5, <2>6 DEF Owned
  <1> QED
    BY <1>3 DEF r, g

(* Every step of a client keeps the types and the ownership.                *)
LEMMA OwnerStep ==
    ASSUME TypeOK, Counted, OneOwner, NEW c \in Clients, Acquire(c) \/ Release(c)
    PROVE  TypeOK' /\ OneOwner'
  <1>t. /\ pc \in [Clients -> Labels] /\ shutdown \in BOOLEAN
        /\ idle \in Seq(Conns) /\ total \in 0..SizeMax
        /\ conn \in [Clients -> Conns \cup {0}] /\ live \in SUBSET Conns
    BY DEF TypeOK
  <1>o. Owned(idle, Holders, conn, live) /\ Holders \in SUBSET Clients
    BY OwnedForm DEF Holders, At
  <1>p. MaxConnections \in Nat \ {0} /\ SizeMax \in Nat /\ SizeMax > MaxConnections
    BY PoolAssumption
  <1>l. /\ "out" \in Labels /\ "waiting" \in Labels /\ "ping" \in Labels
        /\ "using" \in Labels /\ "connect" \in Labels /\ "retry" \in Labels
    BY DEF Labels
  <1>d. Decrement(total) \in 0..SizeMax
    BY <1>t, <1>p DEF Decrement
  <1>1. CASE AcquireThrows(c) \/ AcquireWaits(c) \/ AcquireNew(c)
    <2>1. /\ pc' \in [Clients -> Labels] /\ idle' = idle /\ conn' = conn
          /\ live' = live /\ shutdown' = shutdown /\ Holders' = Holders
      BY <1>1, <1>t, <1>l
         DEF AcquireThrows, AcquireWaits, AcquireNew, Enters, Move, Holders, At
    <2>2. total' \in 0..SizeMax
      BY <1>1, <1>t, <1>p DEF AcquireThrows, AcquireWaits, AcquireNew
    <2> QED
      BY <2>1, <2>2, <1>t, <1>o, OwnedForm DEF TypeOK
  <1>2. CASE AcquireIdle(c)
    <2>1. /\ pc' \in [Clients -> Labels] /\ idle' = Tail(idle) /\ idle # <<>>
          /\ conn' = [conn EXCEPT ![c] = Head(idle)] /\ total' = total
          /\ live' = live /\ shutdown' = shutdown
      BY <1>2, <1>t, <1>l DEF AcquireIdle, Move
    <2>2. Holders' = Holders \cup {c} /\ c \in Clients \ Holders
      BY <1>2, <1>t, <1>l DEF AcquireIdle, Enters, Move, Holders, At
    <2>3. idle' \in Seq(Conns) /\ Head(idle) \in Conns
      BY <2>1, <1>t
    <2>4. Owned(Tail(idle), Holders \cup {c}, [conn EXCEPT ![c] = Head(idle)], live)
      BY <2>1, <2>2, <1>t, <1>o, OwnedTake
    <2>5. conn' \in [Clients -> Conns \cup {0}]
      BY <2>1, <2>3, <1>t
    <2> QED
      BY <2>1, <2>2, <2>3, <2>4, <2>5, <1>t, OwnedForm DEF TypeOK
  <1>3. CASE PingAlive(c)
    <2>1. /\ pc' \in [Clients -> Labels] /\ idle' = idle /\ conn' = conn
          /\ live' = live /\ shutdown' = shutdown /\ total' = total
          /\ Holders' = Holders
      BY <1>3, <1>t, <1>l DEF PingAlive, Move, Holders, At
    <2> QED
      BY <2>1, <1>t, <1>o, OwnedForm DEF TypeOK
  <1>4. CASE PingDead(c) \/ ReleaseClosed(c) \/ ReleaseDead(c)
    <2>1. /\ idle' = idle /\ conn' = [conn EXCEPT ![c] = 0]
          /\ live' = live \ {conn[c]} /\ shutdown' = shutdown
          /\ pc[c] \in {"ping", "using"}
      BY <1>4 DEF PingDead, ReleaseClosed, ReleaseDead
    <2>2. total' \in 0..SizeMax
      BY <1>4, <1>t, <1>d, <1>p DEF PingDead, ReleaseClosed, ReleaseDead
    <2>3. /\ pc' \in [Clients -> Labels]
          /\ pc'[c] \in {"out", "retry"}
          /\ \A d \in Clients : d # c => \/ pc'[d] = pc[d]
                                         \/ pc[d] = "waiting" /\ pc'[d] = "woken"
      <3>1. CASE PingDead(c) \/ ReleaseClosed(c)
        BY <3>1, <1>t, <1>l DEF PingDead, ReleaseClosed, Move
      <3>2. CASE ReleaseDead(c)
        BY <3>2, <1>t, NotifyCounts DEF ReleaseDead
      <3> QED
        BY <1>4, <3>1, <3>2
    <2>4. Holders' = Holders \ {c} /\ c \in Holders
      BY <2>1, <2>3 DEF Holders, At
    <2>5. Owned(idle, Holders \ {c}, [conn EXCEPT ![c] = 0], live \ {conn[c]})
      BY <2>4, <1>t, <1>o, OwnedClose
    <2> QED
      BY <2>1, <2>2, <2>3, <2>4, <2>5, <1>t, OwnedForm DEF TypeOK
  <1>5. CASE ConnectSucceeds(c)
    <2>1. PICK k \in Conns \ live : /\ conn' = [conn EXCEPT ![c] = k]
                                    /\ live' = live \cup {k}
      BY <1>5 DEF ConnectSucceeds
    <2>2. /\ pc' \in [Clients -> Labels] /\ idle' = idle /\ total' = total
          /\ shutdown' = shutdown /\ Holders' = Holders \cup {c}
          /\ c \in Clients \ Holders
      BY <1>5, <1>t, <1>l DEF ConnectSucceeds, Move, Holders, At
    <2>3. Owned(idle, Holders \cup {c}, [conn EXCEPT ![c] = k], live \cup {k})
      BY <2>2, <1>t, <1>o, OwnedOpen
    <2> QED
      BY <2>1, <2>2, <2>3, <1>t, OwnedForm DEF TypeOK
  <1>6. CASE ConnectFails(c)
    <2>1. /\ idle' = idle /\ conn' = conn /\ live' = live /\ shutdown' = shutdown
          /\ total' = Decrement(total)
          /\ MoveAndNotify(c, "out") /\ pc[c] = "connect"
      BY <1>6 DEF ConnectFails
    <2>2. /\ pc' \in [Clients -> Labels] /\ pc'[c] = "out"
          /\ \A d \in Clients : d # c => \/ pc'[d] = pc[d]
                                         \/ pc[d] = "waiting" /\ pc'[d] = "woken"
      BY <2>1, <1>t, NotifyCounts
    <2>3. Holders' = Holders
      BY <2>1, <2>2 DEF Holders, At
    <2> QED
      BY <2>1, <2>2, <2>3, <1>t, <1>d, <1>o, OwnedForm DEF TypeOK
  <1>7. CASE ReleaseAlive(c)
    <2>1. /\ idle' = Append(idle, conn[c]) /\ conn' = [conn EXCEPT ![c] = 0]
          /\ live' = live /\ shutdown' = shutdown /\ total' = total
          /\ MoveAndNotify(c, "out") /\ pc[c] = "using"
      BY <1>7 DEF ReleaseAlive
    <2>2. /\ pc' \in [Clients -> Labels] /\ pc'[c] = "out"
          /\ \A d \in Clients : d # c => \/ pc'[d] = pc[d]
                                         \/ pc[d] = "waiting" /\ pc'[d] = "woken"
      BY <2>1, <1>t, NotifyCounts
    <2>3. Holders' = Holders \ {c} /\ c \in Holders
      BY <2>1, <2>2 DEF Holders, At
    <2>4. conn[c] \in Conns
      BY <2>3, <1>o, <1>t DEF Owned
    <2>5. Owned(Append(idle, conn[c]), Holders \ {c}, [conn EXCEPT ![c] = 0], live)
      BY <2>3, <2>4, <1>t, <1>o, OwnedReturn
    <2> QED
      BY <2>1, <2>2, <2>3, <2>4, <2>5, <1>t, OwnedForm DEF TypeOK
  <1> QED
    BY <1>1, <1>2, <1>3, <1>4, <1>5, <1>6, <1>7 DEF Acquire, Release

(* So does Shutdown, which closes the idle connections.                     *)
LEMMA OwnerShutdown ==
    ASSUME TypeOK, OneOwner, Shutdown
    PROVE  TypeOK' /\ OneOwner'
  <1>1. /\ shutdown' = TRUE /\ idle' = <<>> /\ total' = 0 /\ conn' = conn
        /\ live' = live \ {idle[k] : k \in DOMAIN idle}
    BY DEF Shutdown
  <1>2. pc' \in [Clients -> Labels] /\ Holders' = Holders
    BY DEF Shutdown, TypeOK, Holders, At, Labels
  <1>3. Owned(idle, Holders, conn, live)
    BY OwnedForm
  <1>4. Owned(idle', Holders', conn', live')
    BY <1>1, <1>2, <1>3 DEF Owned
  <1>5. TypeOK'
    BY <1>1, <1>2, PoolAssumption DEF TypeOK
  <1> QED
    BY <1>4, <1>5, OwnedForm
-----------------------------------------------------------------------------
\* The inductive invariant.
IInv == TypeOK /\ Counted /\ OneOwner

LEMMA IInvInit == Init => IInv
  <1> SUFFICES ASSUME Init PROVE IInv
    OBVIOUS
  <1>1. Busy = {} /\ Holders = {} /\ At({"waiting"}) = {}
    BY DEF Init, Busy, Holders, At
  <1>2. BusyCount = 0
    BY <1>1, FS_EmptySet DEF BusyCount
  <1>3. TypeOK
    <2>1. idle \in Seq(Conns) /\ shutdown \in BOOLEAN /\ live \subseteq Conns
      BY EmptySeq DEF Init
    <2>2. total \in 0..SizeMax
      BY PoolAssumption DEF Init
    <2>3. pc \in [Clients -> Labels]
      BY DEF Init, Labels
    <2>4. conn \in [Clients -> Conns \cup {0}]
      BY DEF Init
    <2> QED
      BY <2>1, <2>2, <2>3, <2>4 DEF TypeOK
  <1>4. Counted
    BY <1>1, <1>2, PoolAssumption DEF Init, Counted
  <1>5. OneOwner
    BY <1>1 DEF Init, OneOwner
  <1> QED
    BY <1>3, <1>4, <1>5 DEF IInv

LEMMA IInvStep == IInv /\ [Next]_vars => IInv'
  <1> SUFFICES ASSUME IInv, [Next]_vars PROVE IInv'
    OBVIOUS
  <1>1. CASE Shutdown
    BY <1>1, CountShutdown, OwnerShutdown DEF IInv
  <1>2. ASSUME NEW c \in Clients, Acquire(c) \/ Release(c) PROVE IInv'
    BY <1>2, CountStep, OwnerStep DEF IInv
  <1>3. CASE UNCHANGED vars
    BY <1>3 DEF IInv, TypeOK, Counted, OneOwner, vars, Holders, At, Busy,
                BusyCount, ReadyCount
  <1> QED
    BY <1>1, <1>2, <1>3 DEF Next

(* The inductive invariant holds in every reachable state of the pool.      *)
THEOREM IInvHolds == Spec => []IInv
  <1> QED
    BY IInvInit, IInvStep, PTL DEF Spec

(* Type correctness, for every set of clients and every limit: in            *)
(* particular total_, a std::size_t that two branches decrement without      *)
(* looking at it, stays in range.                                            *)
THEOREM TypeCorrect == Spec => []TypeOK
  <1>1. IInv => TypeOK
    BY DEF IInv
  <1> QED
    BY <1>1, IInvHolds, PTL

(* Until Shutdown total_ is exactly the number of idle connections plus the  *)
(* clients that hold a connection or a slot for one (mysql_pool.cpp,         *)
(* Acquire and Release).                                                     *)
THEOREM TotalIsExact == Spec => []Accounting
  <1>1. IInv => Accounting
    BY CountedForm DEF IInv
  <1> QED
    BY <1>1, IInvHolds, PTL

(* No handle is shared, closed twice, used after closing, or leaked.         *)
THEOREM EveryHandleOwnedOnce == Spec => []OneOwner
  <1>1. IInv => OneOwner
    BY DEF IInv
  <1> QED
    BY <1>1, IInvHolds, PTL

(* Capacity is never free while a client waits for it and nobody is on the   *)
(* way to take it, although the dead connection found in Acquire is given    *)
(* back without a notification.                                              *)
THEOREM WakeupsSuffice == Spec => []NoLostWakeup
  <1>1. IInv => NoLostWakeup
    BY CountedForm DEF IInv
  <1> QED
    BY <1>1, IInvHolds, PTL

(* A set that a function maps a finite set onto is no larger.                *)
LEMMA OntoBound ==
    ASSUME NEW S, IsFiniteSet(S), NEW T, NEW f \in [S -> T],
           \A y \in T : \E x \in S : f[x] = y
    PROVE  IsFiniteSet(T) /\ Cardinality(T) <= Cardinality(S)
  <1>1. f \in Surjection(S, T)
    BY DEF Surjection
  <1> QED
    BY <1>1, FS_Surjection

(* The open connections are no more than the budget allows.                  *)
LEMMA BudgetBoundsLive == IInv => LiveBound
  <1> SUFFICES ASSUME IInv PROVE LiveBound
    OBVIOUS
  <1> DEFINE I == {idle[k] : k \in DOMAIN idle}
             G == {conn[c] : c \in Holders}
             n == Len(idle)
  <1>1. idle \in Seq(Conns) /\ n \in Nat /\ DOMAIN idle = 1..n
    BY DEF IInv, TypeOK
  <1>2. IsFiniteSet(1..n) /\ Cardinality(1..n) = n
    BY <1>1, FS_Interval
  <1>3. IsFiniteSet(I) /\ Cardinality(I) <= n
    <2>1. idle \in [1..n -> I] /\ \A y \in I : \E x \in 1..n : idle[x] = y
      BY <1>1
    <2> HIDE DEF I, n
    <2> QED
      BY <1>2, <2>1, OntoBound
  <1>4. /\ IsFiniteSet(Holders) /\ Cardinality(Holders) <= BusyCount
        /\ Cardinality(Holders) \in Nat /\ BusyCount \in Nat
    <2>1. IsFiniteSet(Busy)
      BY PoolAssumption, FS_Subset DEF Busy, At
    <2>2. Holders \in SUBSET Busy
      BY DEF Holders, Busy, At
    <2> QED
      BY <2>1, <2>2, FS_Subset, FS_CardinalityType DEF BusyCount
  <1>5. IsFiniteSet(G) /\ Cardinality(G) <= Cardinality(Holders)
    <2> DEFINE f == [c \in Holders |-> conn[c]]
    <2>1. f \in [Holders -> G] /\ \A y \in G : \E x \in Holders : f[x] = y
      OBVIOUS
    <2> HIDE DEF G, f
    <2> QED
      BY <1>4, <2>1, OntoBound
  <1>6. live = I \cup G
    BY DEF IInv, OneOwner
  <1>7. n + BusyCount <= MaxConnections
    BY DEF IInv, Counted
  <1> HIDE DEF I, G, n
  <1>8. /\ Cardinality(I \cup G) = Cardinality(I) + Cardinality(G) - Cardinality(I \cap G)
        /\ Cardinality(I) \in Nat /\ Cardinality(G) \in Nat
    BY <1>3, <1>5, FS_Union, FS_CardinalityType
  <1>9. Cardinality(I \cap G) \in Nat
    <2>1. IsFiniteSet(I \cap G)
      BY <1>3, FS_Subset
    <2> QED
      BY <2>1, FS_CardinalityType
  <1> QED
    BY <1>1, <1>3, <1>4, <1>5, <1>6, <1>7, <1>8, <1>9, PoolAssumption DEF LiveBound

(* At most max_connections connections are open at any time, also in the     *)
(* races with Shutdown.                                                      *)
THEOREM PoolStaysBounded == Spec => []LiveBound
  BY BudgetBoundsLive, IInvHolds, PTL

(* The three together: total_ stays in range, is exact until Shutdown, and   *)
(* keeps the open connections within max_connections.                        *)
THEOREM PoolCountsRight == Spec => []PoolInv
  BY TypeCorrect, TotalIsExact, PoolStaysBounded, PTL DEF PoolInv
=============================================================================
