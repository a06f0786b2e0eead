------------------------- MODULE JudgeManager_proofs -------------------------
(***************************************************************************)
(* Proofs about the judging pipeline and its registry of workers, for      *)
(* every finite set of judge threads, every set of endpoints, every number *)
(* of submissions and of retries and every combination of faults.          *)
(***************************************************************************)
EXTENDS JudgeManager, FiniteSetTheorems, SequenceTheorems, NaturalsInduction,
        WellFoundedInduction, TLAPS

-----------------------------------------------------------------------------
(***************************************************************************)
(* The worker registry, by itself: for every set of endpoints, every       *)
(* finite set of judge threads and every configuration file.               *)
(***************************************************************************)
(* A function over 1..n with values in S is a sequence of length n.         *)
LEMMA FunctionIsSeq ==
    ASSUME NEW S, NEW n \in Nat, NEW f \in [1..n -> S]
    PROVE  f \in Seq(S) /\ Len(f) = n
  OBVIOUS

(* Updating one node gives a registry of the same length whose other nodes, *)
(* and whose endpoints, are the same.                                       *)
LEMMA NodeUpdate ==
    ASSUME nodes \in Seq(WorkerNode), NEW i \in Ids,
           NEW l \in Nat, NEW o \in BOOLEAN, SetNode(i, l, o)
    PROVE  /\ nodes' \in Seq(WorkerNode)
           /\ Len(nodes') = Len(nodes)
           /\ \A j \in Ids : nodes'[j].cfg = nodes[j].cfg
           /\ \A j \in Ids : j # i => nodes'[j] = nodes[j]
           /\ nodes'[i].load = l /\ nodes'[i].online = o
  <1> DEFINE e == [cfg |-> nodes[i].cfg, load |-> l, online |-> o]
  <1>1. nodes[i] \in WorkerNode
    BY ElementOfSeq DEF Ids
  <1>2. e \in WorkerNode
    BY <1>1 DEF WorkerNode
  <1>3. nodes' = [nodes EXCEPT ![i] = e]
    BY DEF SetNode
  <1>4. /\ nodes' \in Seq(WorkerNode)
        /\ Len(nodes') = Len(nodes)
        /\ \A j \in 1..Len(nodes) : nodes'[j] = IF j = i THEN e ELSE nodes[j]
    BY <1>2, <1>3, ExceptSeq DEF Ids
  <1> QED
    BY <1>4 DEF Ids

(* What a registration does to the registry, node by node.                  *)
LEMMA UpsertEffect ==
    ASSUME nodes \in Seq(WorkerNode), NEW e \in Endpoints, UpsertWorker(e)
    PROVE  /\ nodes' \in Seq(WorkerNode)
           /\ Len(nodes') \in Nat /\ Len(nodes) \in Nat
           /\ \A j \in 1..Len(nodes) : nodes'[j].cfg = nodes[j].cfg
           /\ \A j \in 1..Len(nodes') :
                 \/ j \in 1..Len(nodes) /\ nodes'[j] = nodes[j]
                 \/ nodes'[j].load = 0 /\ nodes'[j].online
           /\ \/ Len(nodes') = Len(nodes)
              \/ /\ Len(nodes') = Len(nodes) + 1
                 /\ nodes'[Len(nodes) + 1].cfg = e
                 /\ \A j \in 1..Len(nodes) : nodes[j].cfg # e
  <1>0. /\ NewNode(e) \in WorkerNode
        /\ NewNode(e).cfg = e /\ NewNode(e).load = 0 /\ NewNode(e).online
    BY DEF NewNode, WorkerNode
  <1>n. Len(nodes) \in Nat
    BY LenProperties
  <1>1. CASE \E i \in Ids : nodes[i].cfg = e
    <2> DEFINE f == [i \in Ids |-> IF nodes[i].cfg = e THEN NewNode(e)
                                                       ELSE nodes[i]]
    <2>1. nodes' = f
      BY <1>1 DEF UpsertWorker
    <2>2. f \in [1..Len(nodes) -> WorkerNode]
      BY <1>0, ElementOfSeq DEF Ids
    <2>3. f \in Seq(WorkerNode) /\ Len(f) = Len(nodes)
      BY <2>2, <1>n, FunctionIsSeq
    <2>4. ASSUME NEW j \in 1..Len(nodes)
          PROVE  /\ nodes'[j].cfg = nodes[j].cfg
                 /\ \/ nodes'[j] = nodes[j]
                    \/ nodes'[j].load = 0 /\ nodes'[j].online
      <3>1. nodes'[j] = IF nodes[j].cfg = e THEN NewNode(e) ELSE nodes[j]
        BY <2>1 DEF Ids
      <3> QED
        BY <3>1, <1>0
    <2> QED
      BY <2>1, <2>3, <2>4, <1>n
  <1>2. CASE ~ \E i \in Ids : nodes[i].cfg = e
    <2>1. nodes' = Append(nodes, NewNode(e))
      BY <1>2 DEF UpsertWorker
    <2>2. /\ nodes' \in Seq(WorkerNode)
          /\ Len(nodes') = Len(nodes) + 1
          /\ nodes'[Len(nodes) + 1] = NewNode(e)
          /\ \A j \in 1..Len(nodes) : nodes'[j] = nodes[j]
      BY <2>1, <1>0, <1>n
    <2>3. ASSUME NEW j \in 1..Len(nodes')
          PROVE  \/ j \in 1..Len(nodes) /\ nodes'[j] = nodes[j]
                 \/ nodes'[j].load = 0 /\ nodes'[j].online
      <3>1. j \in 1..Len(nodes) \/ j = Len(nodes) + 1
        BY <2>2, <1>n
      <3> QED
        BY <3>1, <2>2, <1>0
    <2> QED
      BY <2>2, <2>3, <1>0, <1>2, <1>n DEF Ids
  <1> QED
    BY <1>1, <1>2

(* The actions other than registration update one node.                     *)
LEMMA SelectEffect ==
    ASSUME BalancerTypeOK, NEW t \in Threads, NEW best \in Ids,
           SetNode(best, nodes[best].load + 1, nodes[best].online)
    PROVE  /\ nodes[best].load \in Nat
           /\ nodes' \in Seq(WorkerNode)
           /\ Len(nodes') = Len(nodes)
           /\ \A j \in Ids : nodes'[j].cfg = nodes[j].cfg
           /\ \A j \in Ids : j # best => nodes'[j] = nodes[j]
           /\ nodes'[best].load = nodes[best].load + 1
           /\ nodes'[best].online = nodes[best].online
  <1>1. nodes[best] \in WorkerNode
    BY ElementOfSeq DEF BalancerTypeOK, Ids
  <1>2. nodes[best].load \in Nat /\ nodes[best].load + 1 \in Nat
        /\ nodes[best].online \in BOOLEAN
    BY <1>1 DEF WorkerNode
  <1> QED
    BY <1>2, NodeUpdate DEF BalancerTypeOK

LEMMA ReleaseEffect ==
    ASSUME BalancerTypeOK, NEW t \in Threads, ReleaseWorkerLoad(t)
    PROVE  /\ holding[t] \in Ids
           /\ nodes[holding[t]].load \in Nat
           /\ nodes' \in Seq(WorkerNode)
           /\ Len(nodes') = Len(nodes)
           /\ \A j \in Ids : nodes'[j].cfg = nodes[j].cfg
           /\ \A j \in Ids : j # holding[t] => nodes'[j] = nodes[j]
           /\ \/ nodes'[holding[t]].load = nodes[holding[t]].load - 1
              \/ nodes'[holding[t]].load = 0
           /\ nodes[holding[t]].load = 0 => nodes'[holding[t]].load = 0
           /\ nodes'[holding[t]].online = nodes[holding[t]].online
  <1> DEFINE i == holding[t]
             l == IF nodes[i].load > 0 THEN nodes[i].load - 1 ELSE 0
  <1>1. i \in Ids
    BY DEF BalancerTypeOK, Ids, ReleaseWorkerLoad
  <1>2. nodes[i] \in WorkerNode
    BY <1>1, ElementOfSeq DEF BalancerTypeOK, Ids
  <1>3. nodes[i].load \in Nat /\ l \in Nat /\ nodes[i].online \in BOOLEAN
    BY <1>2 DEF WorkerNode
  <1>4. SetNode(i, l, nodes[i].online)
    BY DEF ReleaseWorkerLoad
  <1>5. nodes \in Seq(WorkerNode)
    BY DEF BalancerTypeOK
  <1> HIDE DEF i
  <1>6. /\ nodes' \in Seq(WorkerNode)
        /\ Len(nodes') = Len(nodes)
        /\ \A j \in Ids : nodes'[j].cfg = nodes[j].cfg
        /\ \A j \in Ids : j # i => nodes'[j] = nodes[j]
        /\ nodes'[i].load = l /\ nodes'[i].online = nodes[i].online
    BY <1>1, <1>3, <1>4, <1>5, NodeUpdate
  <1> QED
    BY <1>1, <1>3, <1>6 DEF i

LEMMA MarkEffect ==
    ASSUME BalancerTypeOK, NEW i \in Ids, MarkOffline(i) \/ MarkOnline(i)
    PROVE  /\ nodes[i].load \in Nat
           /\ nodes' \in Seq(WorkerNode)
           /\ Len(nodes') = Len(nodes)
           /\ \A j \in Ids : nodes'[j].cfg = nodes[j].cfg
           /\ \A j \in Ids : j # i => nodes'[j] = nodes[j]
           /\ nodes'[i].load = 0 \/ nodes'[i].load = nodes[i].load
           /\ nodes'[i].load = 0 \/ nodes'[i].online
           /\ UNCHANGED <<next_worker, holding>>
  <1>1. nodes \in Seq(WorkerNode) /\ nodes[i] \in WorkerNode
    BY ElementOfSeq DEF BalancerTypeOK, Ids
  <1>2. nodes[i].load \in Nat
    BY <1>1 DEF WorkerNode
  <1>3. CASE MarkOffline(i)
    <2>1. SetNode(i, 0, FALSE) /\ UNCHANGED <<next_worker, holding>>
      BY <1>3 DEF MarkOffline
    <2> QED
      BY <1>1, <1>2, <2>1, NodeUpdate
  <1>4. CASE MarkOnline(i)
    <2>1. SetNode(i, nodes[i].load, TRUE) /\ UNCHANGED <<next_worker, holding>>
      BY <1>4 DEF MarkOnline
    <2> QED
      BY <1>1, <1>2, <2>1, NodeUpdate
  <1> QED
    BY <1>3, <1>4
-----------------------------------------------------------------------------
(* Initially the registry is the configuration file's.                      *)
LEMMA InitEffect ==
    ASSUME BalancerInit
    PROVE  /\ nodes \in Seq(WorkerNode)
           /\ Len(nodes) = Len(Bootstrap)
           /\ \A i \in Ids : nodes[i] = NewNode(Bootstrap[i])
  <1>1. Len(Bootstrap) \in Nat
    BY BalancerAssumption, LenProperties
  <1>2. \A i \in 1..Len(Bootstrap) : NewNode(Bootstrap[i]) \in WorkerNode
    BY BalancerAssumption, ElementOfSeq DEF NewNode, WorkerNode
  <1>3. nodes \in [1..Len(Bootstrap) -> WorkerNode]
    BY <1>2 DEF BalancerInit
  <1>4. nodes \in Seq(WorkerNode) /\ Len(nodes) = Len(Bootstrap)
    BY <1>1, <1>3, FunctionIsSeq
  <1> QED
    BY <1>4 DEF BalancerInit, Ids

(* Every action preserves the type invariant.                               *)
LEMMA TypeStep ==
    ASSUME BalancerTypeOK, BalancerNext
    PROVE  BalancerTypeOK'
  <1>0. nodes \in Seq(WorkerNode) /\ Len(nodes) \in Nat
    BY LenProperties DEF BalancerTypeOK
  <1>1. ASSUME NEW e \in Endpoints, UpsertWorker(e)
        PROVE  BalancerTypeOK'
    <2>1. /\ nodes' \in Seq(WorkerNode)
          /\ Len(nodes') = Len(nodes) \/ Len(nodes') = Len(nodes) + 1
      BY <1>0, <1>1, UpsertEffect
    <2>2. nodes' = <<>> => Len(nodes') = 0
      OBVIOUS
    <2>3. nodes = <<>> => Len(nodes) = 0
      OBVIOUS
    <2> QED
      BY <2>1, <2>2, <2>3, <1>0, <1>1, EmptySeq DEF UpsertWorker, BalancerTypeOK
  <1>2. ASSUME NEW t \in Threads, SelectWorker(t)
        PROVE  BalancerTypeOK'
    <2>1. PICK best \in Ids :
              /\ SetNode(best, nodes[best].load + 1, nodes[best].online)
              /\ next_worker' = (best % Len(nodes)) + 1
              /\ holding' = [holding EXCEPT ![t] = best]
      BY <1>2 DEF SelectWorker
    <2>2. nodes' \in Seq(WorkerNode) /\ Len(nodes') = Len(nodes)
      BY <2>1, SelectEffect
    <2>3. next_worker' \in 1..Len(nodes) /\ nodes' # <<>>
      BY <2>1, <2>2, <1>0 DEF Ids
    <2> QED
      BY <2>1, <2>2, <2>3 DEF BalancerTypeOK, Ids
  <1>3. ASSUME NEW t \in Threads, ReleaseWorkerLoad(t)
        PROVE  BalancerTypeOK'
    <2>1. nodes' \in Seq(WorkerNode) /\ Len(nodes') = Len(nodes)
      BY <1>3, ReleaseEffect
    <2>2. nodes' = <<>> <=> nodes = <<>>
      BY <2>1, <1>0, EmptySeq
    <2> QED
      BY <1>3, <2>1, <2>2 DEF BalancerTypeOK, ReleaseWorkerLoad
  <1>4. ASSUME NEW i \in Ids, MarkOffline(i) \/ MarkOnline(i)
        PROVE  BalancerTypeOK'
    <2>1. nodes' \in Seq(WorkerNode) /\ Len(nodes') = Len(nodes)
      BY <1>4, MarkEffect
    <2>2. nodes' = <<>> <=> nodes = <<>>
      BY <2>1, <1>0, EmptySeq
    <2> QED
      BY <1>4, <2>1, <2>2, MarkEffect DEF BalancerTypeOK
  <1> QED
    BY <1>1, <1>2, <1>3, <1>4 DEF BalancerNext

(* The registry stays well typed: nodes_, next_worker_ and every id a       *)
(* judge thread holds, whatever the interleaving of the class's methods.    *)
THEOREM BalancerTypeCorrect == BalancerSpec => []BalancerTypeOK
  <1>1. BalancerInit => BalancerTypeOK
    <2> SUFFICES ASSUME BalancerInit PROVE BalancerTypeOK
      OBVIOUS
    <2>1. nodes \in Seq(WorkerNode) /\ Len(nodes) \in Nat
      BY InitEffect, LenProperties
    <2>2. nodes # <<>> => Len(nodes) \in Nat \ {0}
      BY <2>1, EmptySeq
    <2> QED
      BY <2>1, <2>2 DEF BalancerInit, BalancerTypeOK
  <1>2. BalancerTypeOK /\ [BalancerNext]_balancerVars => BalancerTypeOK'
    <2> SUFFICES ASSUME BalancerTypeOK, [BalancerNext]_balancerVars
                 PROVE  BalancerTypeOK'
      OBVIOUS
    <2>1. CASE BalancerNext
      BY <2>1, TypeStep
    <2>2. CASE UNCHANGED balancerVars
      BY <2>2 DEF balancerVars, BalancerTypeOK
    <2> QED
      BY <2>1, <2>2
  <1> QED
    BY <1>1, <1>2, PTL DEF BalancerSpec
-----------------------------------------------------------------------------
(* Ids handed out by SelectWorker keep naming the same endpoint: no method  *)
(* of the class removes, moves or renames a node.                           *)
LEMMA IdsStep ==
    ASSUME BalancerTypeOK, BalancerNext
    PROVE  /\ Len(nodes) <= Len(nodes')
           /\ \A i \in Ids : nodes'[i].cfg = nodes[i].cfg
  <1>0. nodes \in Seq(WorkerNode) /\ Len(nodes) \in Nat
    BY LenProperties DEF BalancerTypeOK
  <1>1. ASSUME NEW e \in Endpoints, UpsertWorker(e)
        PROVE  /\ Len(nodes) <= Len(nodes')
               /\ \A i \in Ids : nodes'[i].cfg = nodes[i].cfg
    BY <1>0, <1>1, UpsertEffect DEF Ids
  <1>2. ASSUME NEW t \in Threads, SelectWorker(t)
        PROVE  /\ Len(nodes) <= Len(nodes')
               /\ \A i \in Ids : nodes'[i].cfg = nodes[i].cfg
    BY <1>0, <1>2, SelectEffect DEF SelectWorker
  <1>3. ASSUME NEW t \in Threads, ReleaseWorkerLoad(t)
        PROVE  /\ Len(nodes) <= Len(nodes')
               /\ \A i \in Ids : nodes'[i].cfg = nodes[i].cfg
    BY <1>0, <1>3, ReleaseEffect
  <1>4. ASSUME NEW i \in Ids, MarkOffline(i) \/ MarkOnline(i)
        PROVE  /\ Len(nodes) <= Len(nodes')
               /\ \A j \in Ids : nodes'[j].cfg = nodes[j].cfg
    BY <1>0, <1>4, MarkEffect
  <1> QED
    BY <1>1, <1>2, <1>3, <1>4 DEF BalancerNext

(* No step of the balancer invalidates an id that is held across an HTTP    *)
(* exchange.                                                                *)
THEOREM IdsNeverMove == BalancerSpec => IdsStable
  <1>1. BalancerTypeOK /\ [BalancerNext]_balancerVars =>
          [/\ Len(nodes) <= Len(nodes')
           /\ \A i \in Ids : nodes'[i].cfg = nodes[i].cfg]_balancerVars
    BY IdsStep
  <1> QED
    BY <1>1, BalancerTypeCorrect, PTL DEF BalancerSpec, IdsStable
-----------------------------------------------------------------------------
(* UpsertWorker keeps the endpoints of the registry distinct.               *)
THEOREM EndpointsStayDistinct == BalancerSpec => []DistinctEndpoints
  <1>1. BalancerInit => DistinctEndpoints
    <2> SUFFICES ASSUME BalancerInit, NEW i \in Ids, NEW j \in Ids,
                        nodes[i].cfg = nodes[j].cfg
                 PROVE  i = j
      BY DEF DistinctEndpoints
    <2>1. /\ nodes[i] = NewNode(Bootstrap[i]) /\ nodes[j] = NewNode(Bootstrap[j])
          /\ i \in 1..Len(Bootstrap) /\ j \in 1..Len(Bootstrap)
      BY InitEffect DEF Ids
    <2>2. Bootstrap[i] = Bootstrap[j]
      BY <2>1 DEF NewNode
    <2> QED
      BY <2>1, <2>2, BalancerAssumption
  <1>2. BalancerTypeOK /\ DistinctEndpoints /\ [BalancerNext]_balancerVars
          => DistinctEndpoints'
    <2> SUFFICES ASSUME BalancerTypeOK, DistinctEndpoints, BalancerNext
                 PROVE  DistinctEndpoints'
      BY DEF DistinctEndpoints, balancerVars, Ids
    <2>0. nodes \in Seq(WorkerNode) /\ Len(nodes) \in Nat
      BY LenProperties DEF BalancerTypeOK
    <2>1. ASSUME NEW e \in Endpoints, UpsertWorker(e)
          PROVE  DistinctEndpoints'
      <3>1. CASE Len(nodes') = Len(nodes)
        BY <2>0, <2>1, <3>1, IdsStep DEF DistinctEndpoints, Ids
      <3>2. CASE Len(nodes') # Len(nodes)
        <4>1. /\ Len(nodes') = Len(nodes) + 1
              /\ nodes'[Len(nodes) + 1].cfg = e
              /\ \A j \in Ids : nodes[j].cfg # e
          BY <2>0, <2>1, <3>2, UpsertEffect DEF Ids
        <4> QED
          BY <2>0, <4>1, IdsStep DEF DistinctEndpoints, Ids
      <3> QED
        BY <3>1, <3>2
    <2>2. ASSUME Len(nodes') = Len(nodes)
          PROVE  DistinctEndpoints'
      BY <2>0, <2>2, IdsStep DEF DistinctEndpoints, Ids
    <2>3. ASSUME NEW t \in Threads, SelectWorker(t)
          PROVE  Len(nodes') = Len(nodes)
      BY <2>3, SelectEffect DEF SelectWorker
    <2>4. ASSUME NEW t \in Threads, ReleaseWorkerLoad(t)
          PROVE  Len(nodes') = Len(nodes)
      BY <2>4, ReleaseEffect
    <2>5. ASSUME NEW i \in Ids, MarkOffline(i) \/ MarkOnline(i)
          PROVE  Len(nodes') = Len(nodes)
      BY <2>5, MarkEffect
    <2> QED
      BY <2>1, <2>2, <2>3, <2>4, <2>5 DEF BalancerNext
  <1> QED
    BY <1>1, <1>2, BalancerTypeCorrect, PTL DEF BalancerSpec
-----------------------------------------------------------------------------
(* The requests in flight on a node are a finite set.                       *)
LEMMA InFlightFinite ==
    ASSUME NEW i
    PROVE  IsFiniteSet(InFlight(i)) /\ Cardinality(InFlight(i)) \in Nat
  BY BalancerAssumption, FS_Subset, FS_CardinalityType DEF InFlight

(* A selection adds one request in flight to the node it returns, a release *)
(* takes one away; the other nodes keep theirs.                             *)
LEMMA InFlightSelect ==
    ASSUME BalancerTypeOK, NEW t \in Threads, holding[t] = 0,
           NEW best \in Ids, holding' = [holding EXCEPT ![t] = best]
    PROVE  /\ Cardinality(InFlight(best)') = Cardinality(InFlight(best)) + 1
           /\ \A j \in Ids : j # best => InFlight(j)' = InFlight(j)
  <1>1. InFlight(best)' = InFlight(best) \cup {t} /\ t \notin InFlight(best)
    BY DEF InFlight, BalancerTypeOK, Ids
  <1>2. \A j \in Ids : j # best => InFlight(j)' = InFlight(j)
    BY DEF InFlight, BalancerTypeOK, Ids
  <1>3. Cardinality(InFlight(best) \cup {t}) = Cardinality(InFlight(best)) + 1
    BY <1>1, InFlightFinite, FS_AddElement
  <1> QED
    BY <1>1, <1>2, <1>3

LEMMA InFlightRelease ==
    ASSUME BalancerTypeOK, NEW t \in Threads, holding[t] # 0,
           holding' = [holding EXCEPT ![t] = 0]
    PROVE  /\ Cardinality(InFlight(holding[t]))
                = Cardinality({u \in Threads : holding'[u] = holding[t]}) + 1
           /\ \A j \in Ids : j # holding[t] => InFlight(j)' = InFlight(j)
  <1> DEFINE i == holding[t]
             After == {u \in Threads : holding'[u] = i}
  <1>1. After = InFlight(i) \ {t} /\ t \in InFlight(i)
    BY DEF InFlight, BalancerTypeOK
  <1>2. \A j \in Ids : j # i => InFlight(j)' = InFlight(j)
    BY DEF InFlight, BalancerTypeOK, Ids
  <1>3. Cardinality(InFlight(i) \ {t}) = Cardinality(InFlight(i)) - 1
    BY <1>1, InFlightFinite, FS_RemoveElement
  <1>4. Cardinality(InFlight(i)) \in Nat
    BY InFlightFinite
  <1> QED
    BY <1>1, <1>2, <1>3, <1>4

(* The load of a node never exceeds the requests in flight on it, although  *)
(* MarkOffline and UpsertWorker reset it under threads that release later.  *)
THEOREM LoadNeverDriftsUp == BalancerSpec => []LoadBound
  <1>1. BalancerInit => LoadBound
    <2> SUFFICES ASSUME BalancerInit, NEW i \in Ids
                 PROVE  nodes[i].load <= Cardinality(InFlight(i))
      BY DEF LoadBound
    <2>1. nodes[i] = NewNode(Bootstrap[i])
      BY InitEffect
    <2>2. Cardinality(InFlight(i)) \in Nat
      BY InFlightFinite
    <2> QED
      BY <2>1, <2>2 DEF NewNode
  <1>2. BalancerTypeOK /\ LoadBound /\ [BalancerNext]_balancerVars => LoadBound'
    <2> SUFFICES ASSUME BalancerTypeOK, LoadBound, BalancerNext
                 PROVE  LoadBound'
      BY DEF LoadBound, balancerVars, Ids, InFlight
    <2>0. nodes \in Seq(WorkerNode) /\ Len(nodes) \in Nat
      BY LenProperties DEF BalancerTypeOK
    <2>1. ASSUME NEW e \in Endpoints, UpsertWorker(e)
          PROVE  LoadBound'
      <3>1. holding' = holding
        BY <2>1 DEF UpsertWorker
      <3>2. \A i : InFlight(i)' = InFlight(i)
        BY <3>1 DEF InFlight
      <3>3. \A i \in 1..Len(nodes') :
               \/ i \in Ids /\ nodes'[i] = nodes[i]
               \/ nodes'[i].load = 0
        BY <2>0, <2>1, UpsertEffect DEF Ids
      <3> SUFFICES ASSUME NEW i \in 1..Len(nodes')
                   PROVE  nodes'[i].load <= Cardinality(InFlight(i)')
        BY DEF LoadBound, Ids
      <3>4. Cardinality(InFlight(i)) \in Nat
        BY InFlightFinite
      <3> QED
        BY <3>2, <3>3, <3>4 DEF LoadBound
    <2>2. ASSUME NEW t \in Threads, SelectWorker(t)
          PROVE  LoadBound'
      <3>1. PICK best \in Ids :
              /\ SetNode(best, nodes[best].load + 1, nodes[best].online)
              /\ holding' = [holding EXCEPT ![t] = best]
        BY <2>2 DEF SelectWorker
      <3>2. /\ Cardinality(InFlight(best)') = Cardinality(InFlight(best)) + 1
            /\ \A j \in Ids : j # best => InFlight(j)' = InFlight(j)
        BY <2>2, <3>1, InFlightSelect DEF SelectWorker
      <3>3. /\ nodes[best].load \in Nat
            /\ Len(nodes') = Len(nodes)
            /\ \A j \in Ids : j # best => nodes'[j] = nodes[j]
            /\ nodes'[best].load = nodes[best].load + 1
        BY <3>1, SelectEffect
      <3>4. Cardinality(InFlight(best)) \in Nat
        BY InFlightFinite
      <3>5. nodes[best].load <= Cardinality(InFlight(best))
        BY DEF LoadBound
      <3>6. ASSUME NEW i \in Ids
            PROVE  nodes'[i].load <= Cardinality(InFlight(i)')
        BY <3>2, <3>3, <3>4, <3>5 DEF LoadBound
      <3> QED
        BY <3>3, <3>6 DEF LoadBound, Ids
    <2>3. ASSUME NEW t \in Threads, ReleaseWorkerLoad(t)
          PROVE  LoadBound'
      <3> DEFINE h == holding[t]
                 After == {u \in Threads : holding'[u] = h}
      <3>1. /\ Cardinality(InFlight(h)) = Cardinality(After) + 1
            /\ \A j \in Ids : j # h => InFlight(j)' = InFlight(j)
        BY <2>3, InFlightRelease DEF ReleaseWorkerLoad
      <3>2. /\ h \in Ids
            /\ nodes[h].load \in Nat
            /\ Len(nodes') = Len(nodes)
            /\ \A j \in Ids : j # h => nodes'[j] = nodes[j]
            /\ \/ nodes'[h].load = nodes[h].load - 1
               \/ nodes'[h].load = 0
        BY <2>3, ReleaseEffect
      <3>3. Cardinality(After) \in Nat
        BY BalancerAssumption, FS_Subset, FS_CardinalityType
      <3>4. nodes[h].load <= Cardinality(InFlight(h))
        BY <3>2 DEF LoadBound
      <3>5. nodes'[h].load <= Cardinality(After)
        BY <3>1, <3>2, <3>3, <3>4
      <3>6. ASSUME NEW i \in Ids
            PROVE  nodes'[i].load <= Cardinality(InFlight(i)')
        <4>1. CASE i = h
          <5>1. InFlight(i)' = After
            BY <4>1 DEF InFlight
          <5> QED
            BY <3>5, <4>1, <5>1
        <4>2. CASE i # h
          BY <3>1, <3>2, <4>2 DEF LoadBound
        <4> QED
          BY <4>1, <4>2
      <3> QED
        BY <3>2, <3>6 DEF LoadBound, Ids
    <2>4. ASSUME NEW i \in Ids, MarkOffline(i) \/ MarkOnline(i)
          PROVE  LoadBound'
      <3>1. \A j : InFlight(j)' = InFlight(j)
        BY <2>4, MarkEffect DEF InFlight
      <3>2. ASSUME NEW j \in Ids
            PROVE  nodes'[j].load <= Cardinality(InFlight(j)')
        <4>1. Cardinality(InFlight(j)) \in Nat
          BY InFlightFinite
        <4>2. nodes'[j].load = 0 \/ nodes'[j].load = nodes[j].load
          BY <2>4, MarkEffect
        <4> QED
          BY <3>1, <4>1, <4>2 DEF LoadBound
      <3>3. Len(nodes') = Len(nodes)
        BY <2>4, MarkEffect
      <3> QED
        BY <3>2, <3>3 DEF LoadBound, Ids
    <2> QED
      BY <2>1, <2>2, <2>3, <2>4 DEF BalancerNext
  <1> QED
    BY <1>1, <1>2, BalancerTypeCorrect, PTL DEF BalancerSpec
-----------------------------------------------------------------------------
(* An offline node carries no load, so a health probe that marks a node a   *)
(* second time changes nothing.                                             *)
THEOREM OfflineNodesUnloaded == BalancerSpec => []OfflineUnloaded
  <1>1. BalancerInit => OfflineUnloaded
    <2> SUFFICES ASSUME BalancerInit, NEW i \in Ids
                 PROVE  nodes[i].online
      BY DEF OfflineUnloaded
    <2>1. nodes[i] = NewNode(Bootstrap[i])
      BY InitEffect
    <2> QED
      BY <2>1 DEF NewNode
  <1>2. BalancerTypeOK /\ OfflineUnloaded /\ [BalancerNext]_balancerVars
          => OfflineUnloaded'
    <2> SUFFICES ASSUME BalancerTypeOK, OfflineUnloaded, BalancerNext
                 PROVE  OfflineUnloaded'
      BY DEF OfflineUnloaded, balancerVars, Ids
    <2>0. nodes \in Seq(WorkerNode) /\ Len(nodes) \in Nat
      BY LenProperties DEF BalancerTypeOK
    <2>1. ASSUME NEW e \in Endpoints, UpsertWorker(e)
          PROVE  OfflineUnloaded'
      BY <2>0, <2>1, UpsertEffect DEF OfflineUnloaded, Ids
    <2>2. ASSUME NEW t \in Threads, SelectWorker(t)
          PROVE  OfflineUnloaded'
      <3>1. PICK best \in Ids :
              /\ nodes[best].online
              /\ SetNode(best, nodes[best].load + 1, nodes[best].online)
        BY <2>2 DEF SelectWorker, IsBest
      <3> QED
        BY <2>2, <3>1, SelectEffect DEF OfflineUnloaded, Ids
    <2>3. ASSUME NEW t \in Threads, ReleaseWorkerLoad(t)
          PROVE  OfflineUnloaded'
      BY <2>3, ReleaseEffect DEF OfflineUnloaded, Ids
    <2>4. ASSUME NEW i \in Ids, MarkOffline(i) \/ MarkOnline(i)
          PROVE  OfflineUnloaded'
      BY <2>4, MarkEffect DEF OfflineUnloaded, Ids
    <2> QED
      BY <2>1, <2>2, <2>3, <2>4 DEF BalancerNext
  <1> QED
    BY <1>1, <1>2, BalancerTypeCorrect, PTL DEF BalancerSpec
-----------------------------------------------------------------------------
(* The three together: what the registry says of the workers' loads holds   *)
(* however UpsertWorker, MarkOffline and ReleaseWorkerLoad interleave.      *)
THEOREM RegistryConsistent == BalancerSpec => []RegistryInv
  BY EndpointsStayDistinct, LoadNeverDriftsUp, OfflineNodesUnloaded, PTL DEF RegistryInv
-----------------------------------------------------------------------------
(***************************************************************************)
(* The scan of SelectWorker.  Leader says without recursion what its loop  *)
(* has found after k iterations.                                           *)
(***************************************************************************)
LEMMA FirstOf ==
    ASSUME NEW T \in SUBSET Nat, T # {}
    PROVE  \E n \in T : \A m \in T : n <= m
  <1> DEFINE R == OpToRel(<, Nat)
  <1>1. IsWellFoundedOn(R, Nat)
    BY NatLessThanWellFounded
  <1>2. \A x, y \in Nat : x < y => <<x, y>> \in R
    BY DEF OpToRel
  <1> HIDE DEF R
  <1>3. PICK n \in T : \A y \in T : ~(<<y, n>> \in R)
    BY <1>1, WFMin
  <1>4. \A m \in T : ~(m < n)
    BY <1>2, <1>3
  <1>5. \A m \in T : n <= m
    BY <1>4
  <1> QED
    BY <1>5

\* Node i is the best of those that the first k iterations visit.
Leads(i, k) ==
    /\ i \in Ids /\ nodes[i].online /\ Offset(i) < k
    /\ \A j \in Ids \ {i} : nodes[j].online /\ Offset(j) < k =>
          \/ nodes[i].load < nodes[j].load
          \/ nodes[i].load = nodes[j].load /\ Offset(i) < Offset(j)

NoneIn(k) == \A j \in Ids : Offset(j) < k => ~nodes[j].online

Leader(k) == IF \E i \in Ids : Leads(i, k) THEN CHOOSE i \in Ids : Leads(i, k) ELSE 0

\* The scan visits every node once, in the order of the offsets.
LEMMA ScanVisits ==
    ASSUME BalancerTypeOK
    PROVE  /\ \A i \in Ids : Offset(i) \in 0..(Len(nodes) - 1)
           /\ \A k \in 0..(Len(nodes) - 1) : Visited(k) \in Ids /\ Offset(Visited(k)) = k
           /\ \A i, j \in Ids : Offset(i) = Offset(j) => i = j
  <1> DEFINE n == Len(nodes)
             w == next_worker
  <1>1. n \in Nat /\ (n = 0 <=> nodes = <<>>)
    BY LenProperties, EmptySeq DEF BalancerTypeOK
  <1>2. CASE n = 0
    BY <1>2 DEF Ids
  <1>3. CASE n # 0
    <2>1. w \in 1..n
      BY <1>1, <1>3 DEF BalancerTypeOK
    <2>2. \A i \in 1..n : Offset(i) = IF i >= w THEN i - w ELSE i - w + n
      BY DEF Offset
    <2>3. Ids = 1..n /\ n \in Nat \ {0}
      BY <1>1, <1>3 DEF Ids
    <2> HIDE DEF n, w
    <2>4. \A i \in 1..n : Offset(i) \in 0..(n - 1)
      BY <2>1, <2>2, <2>3
    <2>5. \A i, j \in 1..n : Offset(i) = Offset(j) => i = j
      BY <2>1, <2>2, <2>3
    <2>6. ASSUME NEW k \in 0..(n - 1)
          PROVE  Visited(k) \in 1..n /\ Offset(Visited(k)) = k
      <3> DEFINE x == w - 1 + k
                 v == IF x < n THEN x + 1 ELSE x - n + 1
      <3>1. x \in 0..(2 * n - 1)
        BY <2>1, <2>3
      <3>2. Visited(k) = (x % n) + 1
        BY DEF Visited, n, w
      <3>3. x < n => x \in 0..(n - 1)
        BY <2>3, <3>1
      <3>4. ~(x < n) => x \in n..(2 * n - 1)
        BY <2>3, <3>1
      <3> HIDE DEF x
      <3>5. Visited(k) = v
        <4>1. CASE x < n
          <5>1. x % n = x
            BY <2>3, <3>3, <4>1
          <5> QED
            BY <3>2, <4>1, <5>1
        <4>2. CASE ~(x < n)
          <5>1. x % n = x - n
            BY <2>3, <3>4, <4>2
          <5> QED
            BY <3>2, <4>2, <5>1
        <4> QED
          BY <4>1, <4>2
      <3>6. v \in 1..n /\ (IF v >= w THEN v - w ELSE v - w + n) = k
        BY <2>1, <2>3, <3>1 DEF x
      <3> QED
        BY <2>2, <3>5, <3>6
    <2> QED
      BY <2>3, <2>4, <2>5, <2>6 DEF n
  <1> QED
    BY <1>2, <1>3

LEMMA OneLeader ==
    ASSUME BalancerTypeOK, NEW k \in Nat, NEW i \in Ids, Leads(i, k)
    PROVE  Leader(k) = i
  <1>1. \A j \in Ids : nodes[j].load \in Nat /\ Offset(j) \in Int
    <2>1. \A j \in Ids : nodes[j] \in WorkerNode
      BY ElementOfSeq DEF BalancerTypeOK, Ids
    <2> QED
      BY <2>1, ScanVisits DEF WorkerNode
  <1>2. ASSUME NEW j \in Ids, Leads(j, k), j # i
        PROVE  FALSE
    <2>1. \/ nodes[i].load < nodes[j].load
          \/ nodes[i].load = nodes[j].load /\ Offset(i) < Offset(j)
      BY <1>2 DEF Leads
    <2>2. \/ nodes[j].load < nodes[i].load
          \/ nodes[j].load = nodes[i].load /\ Offset(j) < Offset(i)
      BY <1>2 DEF Leads
    <2> QED
      BY <1>1, <2>1, <2>2
  <1> QED
    BY <1>2 DEF Leader

\* One iteration of the loop.
LEMMA NextLeader ==
    ASSUME BalancerTypeOK, NEW k \in 0..(Len(nodes) - 1), NEW b,
           \/ b \in Ids /\ Leads(b, k)
           \/ b = 0 /\ NoneIn(k)
    PROVE  LET i == Visited(k)
               next == IF nodes[i].online /\ (b = 0 \/ nodes[i].load < nodes[b].load) THEN i ELSE b
           IN  \/ next \in Ids /\ Leads(next, k + 1)
               \/ next = 0 /\ NoneIn(k + 1)
  <1> DEFINE i == Visited(k)
             next == IF nodes[i].online /\ (b = 0 \/ nodes[i].load < nodes[b].load) THEN i ELSE b
  <1>1. i \in Ids /\ Offset(i) = k /\ k \in Nat
    BY ScanVisits
  <1>2. \A j \in Ids : nodes[j].load \in Nat /\ Offset(j) \in Int
    <2>1. \A j \in Ids : nodes[j] \in WorkerNode
      BY ElementOfSeq DEF BalancerTypeOK, Ids
    <2> QED
      BY <2>1, ScanVisits DEF WorkerNode
  <1>3. \A j \in Ids : Offset(j) < k + 1 <=> Offset(j) < k \/ j = i
    <2>1. \A j \in Ids : Offset(j) = k => j = i
      BY <1>1, ScanVisits
    <2> QED
      BY <1>1, <1>2, <2>1
  <1>4. 0 \notin Ids
    BY DEF Ids
  <1> HIDE DEF i
  <1>5. CASE ~nodes[i].online
    <2>1. next = b
      BY <1>5
    <2>2. b = 0 /\ NoneIn(k) => NoneIn(k + 1)
      BY <1>3, <1>5 DEF NoneIn
    <2>3. b \in Ids /\ Leads(b, k) => Leads(b, k + 1)
      BY <1>3, <1>5 DEF Leads
    <2> QED
      BY <2>1, <2>2, <2>3 DEF i
  <1>6. CASE nodes[i].online /\ b = 0
    <2>1. NoneIn(k) /\ next = i
      BY <1>4, <1>6
    <2>2. Leads(i, k + 1)
      BY <1>1, <1>3, <1>6, <2>1 DEF Leads, NoneIn
    <2> QED
      BY <1>1, <2>1, <2>2 DEF i
  <1>7. CASE nodes[i].online /\ b # 0 /\ nodes[i].load < nodes[b].load
    <2>1. Leads(b, k) /\ next = i /\ b \in Ids
      BY <1>7
    <2>2. \A j \in Ids \ {i} : nodes[j].online /\ Offset(j) < k => nodes[i].load < nodes[j].load
      <3> SUFFICES ASSUME NEW j \in Ids \ {i}, nodes[j].online, Offset(j) < k
                   PROVE  nodes[i].load < nodes[j].load
        OBVIOUS
      <3>1. j = b \/ nodes[b].load < nodes[j].load \/ nodes[b].load = nodes[j].load
        BY <2>1 DEF Leads
      <3> QED
        BY <1>1, <1>2, <1>7, <2>1, <3>1
    <2>3. Leads(i, k + 1)
      BY <1>1, <1>3, <1>7, <2>2 DEF Leads
    <2> QED
      BY <1>1, <2>1, <2>3 DEF i
  <1>8. CASE nodes[i].online /\ b # 0 /\ ~(nodes[i].load < nodes[b].load)
    <2>1. Leads(b, k) /\ next = b /\ b \in Ids
      BY <1>8
    <2>2. nodes[b].load < nodes[i].load \/ nodes[b].load = nodes[i].load
      BY <1>1, <1>2, <1>8, <2>1
    <2>3. Offset(b) < Offset(i)
      BY <1>1, <2>1 DEF Leads
    <2>4. Leads(b, k + 1)
      BY <1>1, <1>3, <2>1, <2>2, <2>3 DEF Leads
    <2> QED
      BY <2>1, <2>4 DEF i
  <1> QED
    BY <1>5, <1>6, <1>7, <1>8

LEMMA LeaderStep ==
    ASSUME BalancerTypeOK, NEW k \in 0..Len(nodes)
    PROVE  \/ Leader(k) \in Ids /\ Leads(Leader(k), k)
           \/ Leader(k) = 0 /\ NoneIn(k)
  <1> DEFINE good(m) == (\E b \in Ids : Leads(b, m)) \/ NoneIn(m)
             bad == {m \in 0..Len(nodes) : ~good(m)}
  <1>1. Len(nodes) \in Nat
    BY LenProperties DEF BalancerTypeOK
  <1>2. good(0)
    BY ScanVisits DEF NoneIn
  <1>3. ASSUME NEW m \in 0..(Len(nodes) - 1), good(m)
        PROVE  good(m + 1)
    <2>1. PICK b : (b \in Ids /\ Leads(b, m)) \/ (b = 0 /\ NoneIn(m))
      BY <1>3
    <2> DEFINE next == IF nodes[Visited(m)].online /\ (b = 0 \/ nodes[Visited(m)].load < nodes[b].load)
                       THEN Visited(m) ELSE b
    <2>2. (next \in Ids /\ Leads(next, m + 1)) \/ (next = 0 /\ NoneIn(m + 1))
      BY <2>1, NextLeader
    <2> HIDE DEF next
    <2> QED
      BY <2>2
  <1> HIDE DEF good
  <1>4. bad = {}
    <2> SUFFICES ASSUME bad # {}
                 PROVE  FALSE
      OBVIOUS
    <2>1. bad \in SUBSET Nat
      BY <1>1
    <2>2. PICK m \in bad : \A l \in bad : m <= l
      BY <2>1, FirstOf
    <2>3. m \in 0..Len(nodes) /\ ~good(m) /\ m # 0
      BY <1>2, <2>2
    <2>4. m - 1 \in 0..(Len(nodes) - 1) /\ (m - 1) + 1 = m /\ m - 1 \in 0..Len(nodes) /\ ~(m <= m - 1)
      BY <1>1, <2>3
    <2>5. m - 1 \notin bad
      BY <2>2, <2>4
    <2>6. good(m - 1)
      BY <2>4, <2>5
    <2>7. good((m - 1) + 1)
      BY <1>3, <2>4, <2>6
    <2> QED
      BY <2>3, <2>4, <2>7
  <1>5. good(k)
    BY <1>4
  <1>6. CASE \E b \in Ids : Leads(b, k)
    BY <1>6 DEF Leader
  <1>7. CASE ~\E b \in Ids : Leads(b, k)
    BY <1>5, <1>7 DEF good, Leader
  <1> QED
    BY <1>6, <1>7

\* The loop computes the leader.
LEMMA ScanIsLeader ==
    ASSUME BalancerTypeOK
    PROVE  \A k \in 0..Len(nodes) : Scan[k] = Leader(k)
  <1> DEFINE body(f, k) == IF k = 0 THEN 0
                           ELSE LET best == f[k - 1]
                                    i    == Visited(k - 1)
                                IN  IF nodes[i].online /\ (best = 0 \/ nodes[i].load < nodes[best].load)
                                    THEN i ELSE best
             lead == [k \in 0..Len(nodes) |-> Leader(k)]
  <1>1. Len(nodes) \in Nat
    BY LenProperties DEF BalancerTypeOK
  <1>2. Leader(0) = 0
    <2>1. \A b \in Ids : ~(Offset(b) < 0)
      BY ScanVisits
    <2> QED
      BY <2>1 DEF Leader, Leads
  <1>3. ASSUME NEW k \in 0..Len(nodes), k # 0
        PROVE  Leader(k) = IF nodes[Visited(k - 1)].online
                              /\ (Leader(k - 1) = 0 \/ nodes[Visited(k - 1)].load < nodes[Leader(k - 1)].load)
                           THEN Visited(k - 1) ELSE Leader(k - 1)
    <2> DEFINE m == k - 1
               b == Leader(m)
               next == IF nodes[Visited(m)].online /\ (b = 0 \/ nodes[Visited(m)].load < nodes[b].load)
                       THEN Visited(m) ELSE b
    <2>1. m \in 0..(Len(nodes) - 1) /\ m + 1 = k /\ m \in 0..Len(nodes) /\ k \in Nat
      BY <1>1, <1>3
    <2> HIDE DEF m
    <2>2. (b \in Ids /\ Leads(b, m)) \/ (b = 0 /\ NoneIn(m))
      BY <2>1, LeaderStep
    <2> HIDE DEF b
    <2>3. (next \in Ids /\ Leads(next, m + 1)) \/ (next = 0 /\ NoneIn(m + 1))
      BY <2>1, <2>2, NextLeader
    <2> HIDE DEF next
    <2>4. CASE next \in Ids /\ Leads(next, k)
      BY <2>1, <2>4, OneLeader DEF next, b, m
    <2>5. CASE next = 0 /\ NoneIn(k)
      <3>1. Leader(k) = 0
        BY <2>5 DEF Leader, Leads, NoneIn
      <3> QED
        BY <2>5, <3>1 DEF next, b, m
    <2> QED
      BY <2>1, <2>3, <2>4, <2>5
  <1>4. \A k \in 0..Len(nodes) : k # 0 => k - 1 \in 0..Len(nodes)
    BY <1>1
  <1>5. \A k \in 0..Len(nodes) : lead[k] = body(lead, k)
    BY <1>2, <1>3, <1>4
  <1>6. lead = [k \in 0..Len(nodes) |-> body(lead, k)]
    BY <1>5
  <1>7. Scan = CHOOSE f : f = [k \in 0..Len(nodes) |-> body(f, k)]
    BY DEF Scan
  <1> HIDE DEF lead
  <1>8. Scan = [k \in 0..Len(nodes) |-> body(Scan, k)]
    <2> HIDE DEF body
    <2> QED
      BY <1>6, <1>7
  <1>9. \A k \in 0..Len(nodes) : Scan[k] = body(Scan, k)
    <2> HIDE DEF body
    <2> QED
      BY <1>8
  <1> DEFINE bad == {k \in 0..Len(nodes) : Scan[k] # lead[k]}
  <1>10. bad = {}
    <2> SUFFICES ASSUME bad # {}
                 PROVE  FALSE
      OBVIOUS
    <2>1. bad \in SUBSET Nat
      BY <1>1
    <2>2. PICK m \in bad : \A l \in bad : m <= l
      BY <2>1, FirstOf
    <2>3. m \in 0..Len(nodes) /\ Scan[m] # lead[m] /\ Scan[m] = body(Scan, m) /\ lead[m] = body(lead, m)
      BY <1>5, <1>9, <2>2
    <2>4. m # 0
      BY <2>3
    <2>5. m - 1 \in 0..Len(nodes) /\ ~(m <= m - 1)
      BY <1>1, <2>3, <2>4
    <2>6. Scan[m - 1] = lead[m - 1]
      BY <2>2, <2>5
    <2>7. body(Scan, m) = body(lead, m)
      BY <2>6
    <2> QED
      BY <2>3, <2>7
  <1> QED
    BY <1>10 DEF lead

\* Whatever loads and flags the registrations, selections, releases and marks
\* have left, the loop of SelectWorker finds the online node of least load
\* that is nearest to next_worker_, and -1 exactly when no node is online.
THEOREM ScanIsRight == BalancerSpec => []ScanFindsBest
  <1>1. ASSUME BalancerTypeOK
        PROVE  ScanFindsBest
    <2> DEFINE n == Len(nodes)
    <2>1. n \in Nat /\ n \in 0..n
      BY <1>1, LenProperties DEF BalancerTypeOK
    <2>2. \A i \in Ids : Offset(i) < n
      BY <1>1, <2>1, ScanVisits
    <2>3. \A i \in Ids : Leads(i, n) <=> IsBest(i)
      BY <2>2 DEF Leads, IsBest
    <2>4. NoneIn(n) <=> NoneOnline
      BY <2>2 DEF NoneIn, NoneOnline
    <2>5. Scan[n] = Leader(n)
      BY <1>1, <2>1, ScanIsLeader
    <2>6. (Leader(n) \in Ids /\ Leads(Leader(n), n)) \/ (Leader(n) = 0 /\ NoneIn(n))
      BY <1>1, <2>1, LeaderStep
    <2>7. 0 \notin Ids
      BY DEF Ids
    <2>8. \A i \in Ids : IsBest(i) => i = Leader(n)
      BY <1>1, <2>1, <2>3, OneLeader
    <2> QED
      BY <2>3, <2>4, <2>5, <2>6, <2>7, <2>8 DEF ScanFindsBest
  <1> QED
    BY <1>1, BalancerTypeCorrect, PTL

-----------------------------------------------------------------------------
(***************************************************************************)
(* The manager uses the balancer only through its operations.              *)
(***************************************************************************)

(* Every step of the pipeline is one operation of the balancer or leaves it *)
(* alone.                                                                   *)
LEMMA BalancerStep == [Next]_vars => [BalancerNext]_balancerVars
  <1> SUFFICES ASSUME [Next]_vars
               PROVE  BalancerNext \/ UNCHANGED balancerVars
    OBVIOUS
  <1>1. CASE HttpNext
    <2>1. ASSUME NEW e \in Endpoints, RegisterWorker(e) PROVE BalancerNext
      BY <2>1 DEF RegisterWorker, BalancerNext
    <2> QED
      BY <1>1, <2>1 DEF HttpNext, Create, CreateThrows, SubmitCheck, SubmitPush,
                        SubmitNotify, SubmitRefused
  <1>2. CASE Shutdown
    BY <1>2 DEF Shutdown
  <1>3. ASSUME NEW t \in Threads, ThreadNext(t)
        PROVE  BalancerNext \/ UNCHANGED balancerVars
    <2>1. CASE ApplyProbe(t)
      <3>1. \/ UNCHANGED balancerVars
            \/ MarkOnline(probe[t].at) \/ MarkOffline(probe[t].at)
        BY <2>1 DEF ApplyProbe
      <3> QED
        BY <3>1 DEF BalancerNext, MarkOnline, MarkOffline
    <2>2. CASE Dispatch(t)
      BY <2>2 DEF Dispatch, BalancerNext
    <2>3. CASE Release(t)
      BY <2>3 DEF Release, BalancerNext
    <2>4. CASE FailOver(t)
      BY <2>4 DEF FailOver, BalancerNext, MarkOffline
    <2> QED
      BY <1>3, <2>1, <2>2, <2>3, <2>4
      DEF ThreadNext, Top, Dequeue, Leave, Doze, Sleep, ExecuteJob,
          RetriesExhausted, ProbeWorkersIfNeeded, HealthCheck, SelectFails,
          GiveUp, Persist
  <1>4. CASE WorkerNext
    BY <1>4 DEF WorkerNext, Answer, Crash, Start
  <1>5. CASE Quiet \/ UNCHANGED vars
    BY <1>5 DEF Quiet, vars
  <1> QED
    BY <1>1, <1>2, <1>3, <1>4, <1>5 DEF Next

(* The pipeline implements the balancer's specification: whatever the judge *)
(* threads, the probes and the registrations do, and in whatever order, the *)
(* registry only sees the methods of JudgeWorkerBalancer.                   *)
THEOREM PipelineUsesBalancer == Spec => BalancerSpec
  <1>1. Init => BalancerInit
    BY DEF Init
  <1> QED
    BY <1>1, BalancerStep, PTL DEF Spec, BalancerSpec

(* So the registry stays consistent in the whole pipeline.                  *)
THEOREM PipelineRegistry == Spec => []RegistryInv
  BY PipelineUsesBalancer, RegistryConsistent, PTL

(* And an id that a judge thread keeps during an HTTP exchange names the    *)
(* same worker after it.                                                    *)
THEOREM PipelineIds == Spec => IdsStable
  BY PipelineUsesBalancer, IdsNeverMove, PTL

(* Whatever requests, time-outs and probes are under way, a judge thread    *)
(* gets the least loaded worker that is online, or learns that there is     *)
(* none.                                                                    *)
THEOREM PipelineScan == Spec => []ScanFindsBest
  BY PipelineUsesBalancer, ScanIsRight, PTL
-----------------------------------------------------------------------------
(***************************************************************************)
(* The inductive invariant.                                                *)
(***************************************************************************)

\* Where a judge thread has a job, and where it is in an attempt.
Working == {"execute", "attempt", "probe", "mark", "select", "sent", "release",
            "offline", "persist"}
Attempting == {"probe", "mark", "select", "sent", "release", "offline"}

\* Where the HTTP thread has a row that it has not queued.
Submitting == {"submit", "push", "refused"}

\* A judge thread has a job exactly from Dequeue to Persist, starts no
\* attempt beyond retry_count, and posts to a node of the registry.
ThreadShape ==
    \A t \in Threads :
        /\ job[t] # 0 <=> pc[t] \in Working
        /\ pc[t] \in Attempting => attempt[t] < RetryCount
        /\ pc[t] = "sent" => wid[t] \in Ids

\* The snapshot of a probe is a prefix of the registry as it is now.
ProbeShape ==
    \A t \in Threads : pc[t] \in {"probe", "mark"} =>
        /\ probe[t].at \in 1..Len(probe[t].cfgs)
        /\ Len(probe[t].cfgs) <= Len(nodes)
        /\ \A i \in 1..Len(probe[t].cfgs) : nodes[i].cfg = probe[t].cfgs[i]

\* The rows inserted so far, the one in the hands of the HTTP thread, the
\* queue in order of submission, and the jobs taken before it.
Places ==
    /\ http.pc # "idle" => http.id # 0
    /\ \A s \in Submissions : s > http.id => table[s] = "absent"
    /\ \A k \in DOMAIN queue : queue[k] <= http.id /\ table[queue[k]] = "pending"
    /\ \A k, l \in DOMAIN queue : k < l => queue[k] < queue[l]
    /\ \A t \in Threads : job[t] # 0 =>
          /\ job[t] <= http.id /\ table[job[t]] = "pending"
          /\ \A k \in DOMAIN queue : job[t] < queue[k]
          /\ \A u \in Threads : job[u] = job[t] => u = t
    /\ http.pc \in Submitting =>
          /\ table[http.id] = "pending"
          /\ \A k \in DOMAIN queue : queue[k] < http.id
          /\ \A t \in Threads : job[t] < http.id

\* An open connection belongs to the thread that waits on it, for the job
\* it has, at the worker it selected; it has one only.
Connections ==
    /\ \A e \in Endpoints : \A k \in DOMAIN backlog[e] :
          LET r == backlog[e][k]
          IN  r.conn # Nobody =>
                 /\ pc[r.conn] = "sent"
                 /\ job[r.conn] = r.id
                 /\ nodes[wid[r.conn]].cfg = e
    /\ \A e \in Endpoints : \A k, l \in DOMAIN backlog[e] :
          backlog[e][k].conn = backlog[e][l].conn /\ backlog[e][k].conn # Nobody
             => k = l

\* A verdict in hand was computed for the job in hand.
RepliesEarned == \A t \in Threads : reply[t] = "verdict" => job[t] \in judged

\* A thread on its way to sleep holds the lock and has seen an empty queue.
\* Until shutdown no thread has left, and somebody will look at the queue.
Wakeful ==
    /\ \A t \in Threads : pc[t] = "dozing" => mu = t /\ queue = <<>>
    /\ running => \A t \in Threads : pc[t] # "exited"
    /\ running /\ queue # <<>> => Attended

\* A row that is pending is somewhere, or a statement about it failed.
Accounted ==
    \A s \in Submissions : table[s] = "pending" =>
        Queued(s) \/ Held(s) \/ (http.id = s /\ http.pc \in Submitting) \/ s \in lost

IInv ==
    /\ TypeOK /\ ThreadShape /\ ProbeShape /\ Places
    /\ Connections /\ RepliesEarned /\ VerdictsEarned /\ Wakeful /\ Accounted
-----------------------------------------------------------------------------
(* In every step the registry stays well typed and only grows.              *)
LEMMA Registry ==
    ASSUME TypeOK, [Next]_vars
    PROVE  /\ BalancerTypeOK'
           /\ Len(nodes) \in Nat /\ Len(nodes') \in Nat
           /\ Len(nodes) <= Len(nodes')
           /\ \A i \in Ids : nodes'[i].cfg = nodes[i].cfg
  <1>1. BalancerTypeOK
    BY DEF TypeOK
  <1>2. BalancerTypeOK'
    BY <1>1, BalancerStep, TypeStep DEF BalancerTypeOK, balancerVars
  <1>3. Len(nodes) \in Nat /\ Len(nodes') \in Nat
    BY <1>1, <1>2, LenProperties DEF BalancerTypeOK
  <1>4. CASE BalancerNext
    BY <1>1, <1>2, <1>3, <1>4, IdsStep
  <1>5. CASE UNCHANGED balancerVars
    BY <1>2, <1>3, <1>5 DEF balancerVars
  <1> QED
    BY <1>2, <1>3, <1>4, <1>5, BalancerStep

\* The conjuncts of TypeOK by owner.
ManagerTypes ==
    /\ table \in [Submissions -> {"absent", "pending"} \cup Final]
    /\ queue \in Seq(Submissions)
    /\ mu \in Threads \cup {Nobody}
    /\ running \in BOOLEAN /\ remote_mode \in BOOLEAN
    /\ http \in [pc : HttpLabels, id : 0..MaxSubmissions]
    /\ lost \subseteq Submissions
    /\ missed \subseteq Threads

ThreadTypes ==
    /\ pc \in [Threads -> Labels]
    /\ job \in [Threads -> 0..MaxSubmissions]
    /\ attempt \in [Threads -> 0..RetryCount]
    /\ reply \in [Threads -> Replies]

RegistryTypes ==
    /\ wid \in [Threads -> 0..Len(nodes)]
    /\ probe \in [Threads -> [at : 0..Len(nodes), cfgs : Seq(Endpoints), healthy : BOOLEAN]]

WorkerTypes ==
    /\ up \in [Endpoints -> BOOLEAN]
    /\ backlog \in [Endpoints -> Seq([id : Submissions, conn : Threads \cup {Nobody}])]
    /\ judged \subseteq Submissions

LEMMA TypeForm ==
    TypeOK <=> BalancerTypeOK /\ ManagerTypes /\ ThreadTypes /\ RegistryTypes /\ WorkerTypes
  BY DEF TypeOK, ManagerTypes, ThreadTypes, RegistryTypes, WorkerTypes

LEMMA ManagerTypesStep == IInv /\ [Next]_vars => ManagerTypes'
  <1> SUFFICES ASSUME IInv, [Next]_vars PROVE ManagerTypes'
    OBVIOUS
  <1>0. ManagerTypes /\ ThreadTypes
    BY TypeForm DEF IInv
  <1> USE <1>0, ManagerAssumption DEF ManagerTypes, Submissions, Final, HttpLabels
  <1>1. CASE Create \/ CreateThrows
    <2>1. http.id + 1 \in Submissions
      BY <1>1 DEF Create, CreateThrows
    <2> QED
      BY <1>1, <2>1 DEF Create, CreateThrows, history
  <1>2. CASE SubmitCheck
    BY <1>2 DEF SubmitCheck, HttpGoto, history
  <1>3. CASE SubmitPush
    <2>1. http.id \in Submissions
      BY <1>3 DEF SubmitPush, IInv, Places
    <2>2. queue' \in Seq(Submissions)
      BY <1>3, <2>1, AppendProperties DEF SubmitPush
    <2> QED
      BY <1>3, <2>2 DEF SubmitPush, HttpGoto, history
  <1>4. CASE SubmitNotify
    BY <1>4 DEF SubmitNotify, HttpGoto, history
  <1>5. CASE SubmitRefused
    <2>1. http.id \in Submissions
      BY <1>5 DEF SubmitRefused, IInv, Places
    <2> QED
      BY <1>5, <2>1 DEF SubmitRefused, HttpGoto
  <1>6. ASSUME NEW e \in Endpoints, RegisterWorker(e) PROVE ManagerTypes'
    BY <1>6 DEF RegisterWorker, history
  <1>7. CASE Shutdown
    BY <1>7 DEF Shutdown
  <1>8. ASSUME NEW t \in Threads, Dequeue(t) PROVE ManagerTypes'
    BY <1>8, HeadTailProperties DEF Dequeue, history
  <1>9. ASSUME NEW t \in Threads, Doze(t) \/ Sleep(t) PROVE ManagerTypes'
    BY <1>9 DEF Doze, Sleep, history
  <1>10. ASSUME NEW t \in Threads, Persist(t) PROVE ManagerTypes'
    <2>1. job[t] \in Submissions
      BY <1>10 DEF Persist, IInv, ThreadShape, Working, ThreadTypes
    <2> QED
      BY <1>10, <2>1 DEF Persist, Outcome
  <1>11. CASE UNCHANGED <<managerVars, lost, missed>>
    BY <1>11 DEF managerVars
  <1>12. ASSUME NEW t \in Threads, ThreadNext(t) PROVE ManagerTypes'
    BY <1>8, <1>9, <1>10, <1>11, <1>12
    DEF ThreadNext, Top, Leave, ExecuteJob, RetriesExhausted, ProbeWorkersIfNeeded,
        HealthCheck, ApplyProbe, SelectFails, Dispatch, GiveUp, Release, FailOver, history
  <1>13. CASE WorkerNext \/ Quiet \/ UNCHANGED vars
    BY <1>11, <1>13 DEF WorkerNext, Answer, Crash, Start, Quiet, vars, history
  <1> QED
    BY <1>1, <1>2, <1>3, <1>4, <1>5, <1>6, <1>7, <1>12, <1>13 DEF Next, HttpNext

LEMMA ThreadTypesStep == IInv /\ [Next]_vars => ThreadTypes'
  <1> SUFFICES ASSUME IInv, [Next]_vars PROVE ThreadTypes'
    OBVIOUS
  <1>0. ManagerTypes /\ ThreadTypes
    BY TypeForm DEF IInv
  <1> USE <1>0, ManagerAssumption DEF ThreadTypes, Labels, Replies
  <1>1. CASE HttpNext
    BY <1>1 DEF HttpNext, Create, CreateThrows, SubmitCheck, SubmitPush, SubmitNotify,
                SubmitRefused, RegisterWorker, threadVars, Goto
  <1>2. CASE Shutdown
    BY <1>2 DEF Shutdown
  <1>3. ASSUME NEW t \in Threads, ThreadNext(t) PROVE ThreadTypes'
    <2>1. CASE Dequeue(t)
      <3>1. Head(queue) \in 0..MaxSubmissions
        BY <2>1, HeadTailProperties DEF Dequeue, ManagerTypes, Submissions
      <3> QED
        BY <2>1, <3>1 DEF Dequeue, Goto
    <2>2. CASE SelectFails(t) \/ FailOver(t)
      <3>1. attempt[t] + 1 \in 0..RetryCount
        BY <2>2 DEF SelectFails, FailOver, IInv, ThreadShape, Attempting
      <3> QED
        BY <2>2, <3>1 DEF SelectFails, FailOver, Goto, managerVars
    <2>3. CASE ProbeWorkersIfNeeded(t) \/ HealthCheck(t) \/ ApplyProbe(t)
      BY <2>3 DEF ProbeWorkersIfNeeded, HealthCheck, ApplyProbe, Goto
    <2>4. CASE ExecuteJob(t)
      BY <2>4 DEF ExecuteJob, Goto
    <2>5. CASE Dispatch(t)
      BY <2>5 DEF Dispatch, Goto
    <2>6. CASE GiveUp(t) \/ Release(t)
      BY <2>6 DEF GiveUp, Release, Goto
    <2>7. CASE Persist(t)
      BY <2>7 DEF Persist, Goto
    <2> QED
      BY <1>3, <2>1, <2>2, <2>3, <2>4, <2>5, <2>6, <2>7
      DEF ThreadNext, Top, Leave, Doze, Sleep, RetriesExhausted, Goto
  <1>4. ASSUME NEW e \in Endpoints, Answer(e) \/ Crash(e) \/ Start(e)
        PROVE  ThreadTypes'
    <2>1. \/ UNCHANGED <<pc, reply>>
          \/ \E t \in Threads : \E r \in {"verdict", "cut"} :
                pc' = [pc EXCEPT ![t] = "release"] /\ reply' = [reply EXCEPT ![t] = r]
      <3>1. CASE Answer(e)
        <4>1. backlog[e] # <<>> /\ backlog[e] \in Seq([id : Submissions, conn : Threads \cup {Nobody}])
          BY <3>1, TypeForm DEF Answer, IInv, WorkerTypes
        <4>2. Head(backlog[e]).conn \in Threads \cup {Nobody}
          <5>1. Head(backlog[e]) \in [id : Submissions, conn : Threads \cup {Nobody}]
            BY <4>1, HeadTailProperties
          <5> QED
            BY <5>1
        <4> QED
          BY <3>1, <4>2 DEF Answer, Goto
      <3>2. CASE Crash(e)
        BY <3>2 DEF Crash, Goto
      <3>3. CASE Start(e)
        BY <3>3 DEF Start, threadVars
      <3> QED
        BY <1>4, <3>1, <3>2, <3>3
    <2>2. UNCHANGED <<job, attempt>>
      BY <1>4 DEF Answer, Crash, Start, threadVars
    <2> QED
      BY <2>1, <2>2
  <1>5. CASE Quiet \/ UNCHANGED vars
    BY <1>5 DEF Quiet, vars, threadVars
  <1> QED
    BY <1>1, <1>2, <1>3, <1>4, <1>5 DEF Next, WorkerNext

LEMMA RegistryTypesStep == IInv /\ [Next]_vars => RegistryTypes'
  <1> SUFFICES ASSUME IInv, [Next]_vars PROVE RegistryTypes'
    OBVIOUS
  <1>0. ThreadTypes /\ RegistryTypes /\ BalancerTypeOK
    BY TypeForm DEF IInv
  <1>n. /\ Len(nodes) \in Nat /\ Len(nodes') \in Nat /\ Len(nodes) <= Len(nodes')
        /\ 0..Len(nodes) \subseteq 0..Len(nodes')
        /\ BalancerTypeOK'
    BY Registry DEF IInv
  <1>1. CASE UNCHANGED <<wid, probe>>
    <2>1. wid' \in [Threads -> 0..Len(nodes')]
      BY <1>0, <1>n, <1>1 DEF RegistryTypes
    <2>2. probe' \in [Threads -> [at : 0..Len(nodes'), cfgs : Seq(Endpoints), healthy : BOOLEAN]]
      BY <1>0, <1>n, <1>1 DEF RegistryTypes
    <2> QED
      BY <2>1, <2>2 DEF RegistryTypes
  <1>2. ASSUME NEW t \in Threads, NEW w \in 0..Len(nodes'),
               wid' = [wid EXCEPT ![t] = w], UNCHANGED probe
        PROVE  RegistryTypes'
    <2>1. wid' \in [Threads -> 0..Len(nodes')]
      BY <1>0, <1>n, <1>2 DEF RegistryTypes
    <2>2. probe' \in [Threads -> [at : 0..Len(nodes'), cfgs : Seq(Endpoints), healthy : BOOLEAN]]
      BY <1>0, <1>n, <1>2 DEF RegistryTypes
    <2> QED
      BY <2>1, <2>2 DEF RegistryTypes
  <1>3. ASSUME NEW t \in Threads,
               NEW p \in [at : 0..Len(nodes'), cfgs : Seq(Endpoints), healthy : BOOLEAN],
               probe' = [probe EXCEPT ![t] = p], UNCHANGED wid
        PROVE  RegistryTypes'
    <2>1. wid' \in [Threads -> 0..Len(nodes')]
      BY <1>0, <1>n, <1>3 DEF RegistryTypes
    <2>2. probe' \in [Threads -> [at : 0..Len(nodes'), cfgs : Seq(Endpoints), healthy : BOOLEAN]]
      BY <1>0, <1>n, <1>3 DEF RegistryTypes
    <2> QED
      BY <2>1, <2>2 DEF RegistryTypes
  <1>4. ASSUME NEW t \in Threads, ThreadNext(t) PROVE RegistryTypes'
    <2>1. CASE ProbeWorkersIfNeeded(t)
      <3> DEFINE c == [i \in Ids |-> nodes[i].cfg]
      <3>1. c \in Seq(Endpoints) /\ (nodes # <<>> => 1 \in 0..Len(nodes))
        <4>1. nodes \in Seq(WorkerNode)
          BY <1>0 DEF BalancerTypeOK
        <4>2. \A i \in Ids : nodes[i].cfg \in Endpoints
          <5> SUFFICES ASSUME NEW i \in Ids PROVE nodes[i].cfg \in Endpoints
            OBVIOUS
          <5>1. nodes[i] \in WorkerNode
            BY <4>1, ElementOfSeq DEF Ids
          <5> QED
            BY <5>1 DEF WorkerNode
        <4>3. c \in [1..Len(nodes) -> Endpoints]
          BY <4>2 DEF Ids
        <4> QED
          BY <4>1, <4>3, <1>n, FunctionIsSeq, EmptySeq
      <3>2. CASE UNCHANGED probe
        BY <1>1, <2>1, <3>2 DEF ProbeWorkersIfNeeded
      <3>3. CASE ~ UNCHANGED probe
        <4> DEFINE p == [at |-> 1, cfgs |-> c, healthy |-> FALSE]
        <4>1. probe' = [probe EXCEPT ![t] = p] /\ nodes # <<>> /\ UNCHANGED wid
          BY <2>1, <3>3 DEF ProbeWorkersIfNeeded
        <4>2. p \in [at : 0..Len(nodes'), cfgs : Seq(Endpoints), healthy : BOOLEAN]
          BY <3>1, <4>1, <1>n
        <4> QED
          BY <1>3, <4>1, <4>2
      <3> QED
        BY <3>2, <3>3
    <2>2. CASE HealthCheck(t)
      <3>1. PICK h \in BOOLEAN : probe' = [probe EXCEPT ![t].healthy = h]
        BY <2>2 DEF HealthCheck
      <3> DEFINE p == [at |-> probe[t].at, cfgs |-> probe[t].cfgs, healthy |-> h]
      <3>2. probe' = [probe EXCEPT ![t] = p]
        <4>1. [probe[t] EXCEPT !.healthy = h] = p
          BY <1>0 DEF RegistryTypes
        <4> QED
          BY <1>0, <3>1, <4>1 DEF RegistryTypes
      <3>3. p \in [at : 0..Len(nodes'), cfgs : Seq(Endpoints), healthy : BOOLEAN]
        BY <1>0, <1>n DEF RegistryTypes
      <3> QED
        BY <1>3, <2>2, <3>2, <3>3 DEF HealthCheck
    <2>3. CASE ApplyProbe(t)
      <3> DEFINE i == probe[t].at
                 p == [at |-> i + 1, cfgs |-> probe[t].cfgs, healthy |-> FALSE]
      <3>1. CASE i < Len(probe[t].cfgs)
        <4>1. probe' = [probe EXCEPT ![t] = p]
          BY <1>0, <2>3, <3>1 DEF ApplyProbe, RegistryTypes
        <4>2. Len(probe[t].cfgs) <= Len(nodes) /\ i \in Nat /\ Len(probe[t].cfgs) \in Nat
          BY <1>0, <2>3, LenProperties DEF ApplyProbe, RegistryTypes, IInv, ProbeShape
        <4>3. p \in [at : 0..Len(nodes'), cfgs : Seq(Endpoints), healthy : BOOLEAN]
          BY <1>0, <1>n, <3>1, <4>2 DEF RegistryTypes
        <4> QED
          BY <1>3, <2>3, <4>1, <4>3 DEF ApplyProbe
      <3>2. CASE ~ (i < Len(probe[t].cfgs))
        <4>1. probe' = [probe EXCEPT ![t] = NoProbe]
          BY <2>3, <3>2 DEF ApplyProbe
        <4>2. NoProbe \in [at : 0..Len(nodes'), cfgs : Seq(Endpoints), healthy : BOOLEAN]
          BY <1>n, EmptySeq DEF NoProbe
        <4> QED
          BY <1>3, <2>3, <4>1, <4>2 DEF ApplyProbe
      <3> QED
        BY <3>1, <3>2
    <2>4. CASE Dispatch(t)
      <3>1. holding'[t] \in 0..Len(nodes')
        BY <1>n DEF BalancerTypeOK
      <3> QED
        BY <1>2, <2>4, <3>1 DEF Dispatch
    <2>5. CASE Persist(t)
      <3>1. /\ 0 \in 0..Len(nodes')
            /\ wid' = [wid EXCEPT ![t] = 0] /\ UNCHANGED probe
        BY <1>n, <2>5 DEF Persist
      <3> QED
        BY <1>2, <3>1
    <2> QED
      BY <1>1, <1>4, <2>1, <2>2, <2>3, <2>4, <2>5
      DEF ThreadNext, Top, Dequeue, Leave, Doze, Sleep, ExecuteJob,
          RetriesExhausted, SelectFails, GiveUp, Release, FailOver
  <1>5. CASE HttpNext \/ Shutdown \/ WorkerNext \/ Quiet \/ UNCHANGED vars
    BY <1>1, <1>5
    DEF HttpNext, Create, CreateThrows, SubmitCheck, SubmitPush, SubmitNotify, SubmitRefused,
        RegisterWorker, Shutdown, WorkerNext, Answer, Crash, Start, Quiet, vars,
        threadVars
  <1> QED
    BY <1>4, <1>5 DEF Next
-----------------------------------------------------------------------------
Request == [id : Submissions, conn : Threads \cup {Nobody}]

(* A dispatched request joins the backlog of the node that was selected, or *)
(* that node's worker is not there.                                         *)
LEMMA DispatchEffect ==
    ASSUME IInv, [Next]_vars, NEW t \in Threads, Dispatch(t)
    PROVE  \E w \in Ids :
             /\ wid' = [wid EXCEPT ![t] = w]
             /\ nodes[w].cfg \in Endpoints /\ nodes'[w].cfg = nodes[w].cfg
             /\ \/ /\ pc' = [pc EXCEPT ![t] = "sent"]
                   /\ backlog' = [backlog EXCEPT ![nodes[w].cfg] =
                                    Append(@, [id |-> job[t], conn |-> t])]
                \/ /\ pc' = [pc EXCEPT ![t] = "release"]
                   /\ UNCHANGED backlog
  <1>1. PICK w \in Ids : holding' = [holding EXCEPT ![t] = w]
    BY DEF Dispatch, SelectWorker
  <1>2. holding'[t] = w
    BY <1>1, TypeForm DEF IInv, BalancerTypeOK
  <1>3. nodes[w] \in WorkerNode
    BY <1>1, ElementOfSeq, TypeForm DEF IInv, BalancerTypeOK, Ids
  <1>4. nodes'[w].cfg = nodes[w].cfg
    BY Registry DEF IInv
  <1>5. nodes[w].cfg \in Endpoints
    BY <1>3 DEF WorkerNode
  <1> QED
    BY <1>2, <1>4, <1>5 DEF Dispatch, Goto

(* Giving up cuts the thread's connection at its worker and changes nothing *)
(* else of the backlogs.                                                    *)
LEMMA GiveUpEffect ==
    ASSUME IInv, NEW t \in Threads, GiveUp(t)
    PROVE  /\ Worker(t) \in Endpoints
           /\ backlog' \in [Endpoints -> Seq(Request)]
           /\ \A e \in Endpoints : e # Worker(t) => backlog'[e] = backlog[e]
           /\ \A e \in Endpoints : DOMAIN backlog'[e] = DOMAIN backlog[e]
           /\ \A k \in DOMAIN backlog[Worker(t)] :
                 /\ backlog[Worker(t)][k].conn = t => backlog'[Worker(t)][k].conn = Nobody
                 /\ backlog[Worker(t)][k].conn # t =>
                       backlog'[Worker(t)][k] = backlog[Worker(t)][k]
  <1> DEFINE e == Worker(t)
             f == [k \in DOMAIN backlog[e] |->
                     IF backlog[e][k].conn = t THEN [backlog[e][k] EXCEPT !.conn = Nobody]
                                               ELSE backlog[e][k]]
  <1>1. e \in Endpoints
    <2>1. wid[t] \in Ids
      BY DEF GiveUp, IInv, ThreadShape
    <2>2. nodes[wid[t]] \in WorkerNode
      BY <2>1, ElementOfSeq, TypeForm DEF IInv, BalancerTypeOK, Ids
    <2> QED
      BY <2>2 DEF Worker, WorkerNode
  <1>2. backlog \in [Endpoints -> Seq(Request)]
    BY TypeForm DEF IInv, WorkerTypes, Request
  <1>3. backlog' = [backlog EXCEPT ![e] = f]
    BY DEF GiveUp
  <1>4. backlog[e] \in Seq(Request)
    BY <1>1, <1>2
  <1>5. Len(backlog[e]) \in Nat /\ DOMAIN backlog[e] = 1..Len(backlog[e])
    BY <1>4, LenProperties
  <1>6. ASSUME NEW k \in DOMAIN backlog[e]
        PROVE  /\ backlog[e][k] \in Request
               /\ f[k] \in Request
               /\ backlog[e][k].conn = t => f[k].conn = Nobody
               /\ backlog[e][k].conn # t => f[k] = backlog[e][k]
    <2>1. backlog[e][k] \in Request
      BY <1>4, <1>5, <1>6, ElementOfSeq
    <2>2. [backlog[e][k] EXCEPT !.conn = Nobody] = [id |-> backlog[e][k].id, conn |-> Nobody]
      BY <2>1 DEF Request
    <2> HIDE DEF e
    <2>3. f[k] = IF backlog[e][k].conn = t THEN [id |-> backlog[e][k].id, conn |-> Nobody]
                                           ELSE backlog[e][k]
      BY <1>6, <2>2
    <2> QED
      BY <2>1, <2>3 DEF Request
  <1>7. f \in Seq(Request) /\ DOMAIN f = DOMAIN backlog[e]
    <2>1. f \in [1..Len(backlog[e]) -> Request]
      BY <1>5, <1>6
    <2> QED
      BY <1>5, <2>1, FunctionIsSeq
  <1> HIDE DEF e, f
  <1>8. backlog'[e] = f /\ \A d \in Endpoints : d # e => backlog'[d] = backlog[d]
    BY <1>1, <1>2, <1>3
  <1>9. backlog' \in [Endpoints -> Seq(Request)]
    BY <1>1, <1>2, <1>3, <1>7
  <1> QED
    BY <1>1, <1>6, <1>7, <1>8, <1>9 DEF e

(* An answer takes the oldest request from the backlog.                     *)
LEMMA AnswerEffect ==
    ASSUME IInv, NEW e \in Endpoints, backlog[e] # <<>>
    PROVE  /\ backlog \in [Endpoints -> Seq(Request)]
           /\ Head(backlog[e]) = backlog[e][1]
           /\ Head(backlog[e]) \in Request
           /\ 1 \in DOMAIN backlog[e]
           /\ Tail(backlog[e]) \in Seq(Request)
           /\ \A k \in DOMAIN Tail(backlog[e]) :
                 k \in Nat /\ k + 1 \in DOMAIN backlog[e] /\ Tail(backlog[e])[k] = backlog[e][k + 1]
  <1>1. backlog \in [Endpoints -> Seq(Request)]
    BY TypeForm DEF IInv, WorkerTypes, Request
  <1>2. backlog[e] \in Seq(Request)
    BY <1>1
  <1>3. Len(backlog[e]) \in Nat \ {0} /\ DOMAIN backlog[e] = 1..Len(backlog[e])
    BY <1>2, EmptySeq, LenProperties
  <1>4. /\ Tail(backlog[e]) \in Seq(Request)
        /\ Len(Tail(backlog[e])) = Len(backlog[e]) - 1
        /\ \A k \in 1..Len(Tail(backlog[e])) : Tail(backlog[e])[k] = backlog[e][k + 1]
        /\ Head(backlog[e]) \in Request
    BY <1>2, HeadTailProperties
  <1>5. DOMAIN Tail(backlog[e]) = 1..Len(Tail(backlog[e]))
    BY <1>4, LenProperties
  <1>6. Head(backlog[e]) = backlog[e][1]
    BY <1>2
  <1> QED
    BY <1>1, <1>3, <1>4, <1>5, <1>6

LEMMA WorkerTypesStep == IInv /\ [Next]_vars => WorkerTypes'
  <1> SUFFICES ASSUME IInv, [Next]_vars PROVE WorkerTypes'
    OBVIOUS
  <1>0. /\ backlog \in [Endpoints -> Seq(Request)]
        /\ up \in [Endpoints -> BOOLEAN] /\ judged \subseteq Submissions
    BY TypeForm DEF IInv, WorkerTypes, Request
  <1> SUFFICES /\ backlog' \in [Endpoints -> Seq(Request)]
               /\ up' \in [Endpoints -> BOOLEAN] /\ judged' \subseteq Submissions
    BY DEF WorkerTypes, Request
  <1>1. ASSUME NEW t \in Threads, Dispatch(t)
        PROVE  backlog' \in [Endpoints -> Seq(Request)] /\ UNCHANGED <<up, judged>>
    <2>1. job[t] \in Submissions
      BY <1>1, TypeForm, ManagerAssumption
      DEF Dispatch, IInv, ThreadShape, Working, ThreadTypes, Submissions
    <2> DEFINE r == [id |-> job[t], conn |-> t]
    <2>2. r \in Request
      BY <2>1 DEF Request
    <2>3. PICK w \in Ids :
             /\ nodes[w].cfg \in Endpoints
             /\ \/ backlog' = [backlog EXCEPT ![nodes[w].cfg] = Append(@, r)]
                \/ UNCHANGED backlog
      BY <1>1, DispatchEffect
    <2>4. Append(backlog[nodes[w].cfg], r) \in Seq(Request)
      BY <1>0, <2>2, <2>3, AppendProperties
    <2> HIDE DEF r
    <2>5. backlog' \in [Endpoints -> Seq(Request)]
      BY <1>0, <2>3, <2>4
    <2> QED
      BY <1>1, <2>5 DEF Dispatch, history
  <1>2. ASSUME NEW t \in Threads, GiveUp(t)
        PROVE  backlog' \in [Endpoints -> Seq(Request)] /\ UNCHANGED <<up, judged>>
    BY <1>2, GiveUpEffect DEF GiveUp, history
  <1>3. ASSUME NEW e \in Endpoints, Answer(e)
        PROVE  backlog' \in [Endpoints -> Seq(Request)] /\ UNCHANGED up
               /\ judged' \subseteq Submissions
    BY <1>0, <1>3, AnswerEffect DEF Answer, Request
  <1>4. ASSUME NEW e \in Endpoints, Crash(e) \/ Start(e)
        PROVE  backlog' \in [Endpoints -> Seq(Request)] /\ up' \in [Endpoints -> BOOLEAN]
               /\ UNCHANGED judged
    <2>1. <<>> \in Seq(Request)
      BY EmptySeq
    <2> QED
      BY <1>0, <1>4, <2>1 DEF Crash, Start, history
  <1>5. CASE UNCHANGED <<backlog, up, judged>>
    BY <1>0, <1>5
  <1>6. ASSUME NEW t \in Threads, ThreadNext(t), ~Dispatch(t), ~GiveUp(t)
        PROVE  UNCHANGED <<backlog, up, judged>>
    BY <1>6 DEF ThreadNext, Top, Dequeue, Leave, Doze, Sleep, ExecuteJob,
                RetriesExhausted, ProbeWorkersIfNeeded, HealthCheck, ApplyProbe,
                SelectFails, Release, FailOver, Persist, workerVars, history
  <1>7. CASE HttpNext \/ Shutdown \/ Quiet \/ UNCHANGED vars
    BY <1>5, <1>7
    DEF HttpNext, Create, CreateThrows, SubmitCheck, SubmitPush, SubmitNotify, SubmitRefused,
        RegisterWorker, Shutdown, Quiet, vars, workerVars, history
  <1> QED
    BY <1>0, <1>1, <1>2, <1>3, <1>4, <1>5, <1>6, <1>7 DEF Next, WorkerNext
-----------------------------------------------------------------------------
(* A thread takes a job in Dequeue, drops it in Persist, and starts an      *)
(* attempt only below retry_count.                                          *)
LEMMA ThreadShapeStep == IInv /\ [Next]_vars => ThreadShape'
  <1> SUFFICES ASSUME IInv, [Next]_vars, NEW u \in Threads
               PROVE  /\ job'[u] # 0 <=> pc'[u] \in Working
                      /\ pc'[u] \in Attempting => attempt'[u] < RetryCount
                      /\ pc'[u] = "sent" => wid'[u] \in Ids'
    BY DEF ThreadShape
  <1>0. /\ pc \in [Threads -> Labels] /\ job \in [Threads -> 0..MaxSubmissions]
        /\ attempt \in [Threads -> 0..RetryCount] /\ wid \in [Threads -> 0..Len(nodes)]
    BY TypeForm DEF IInv, ThreadTypes, RegistryTypes
  <1>1. /\ job[u] # 0 <=> pc[u] \in Working
        /\ pc[u] \in Attempting => attempt[u] < RetryCount
        /\ pc[u] = "sent" => wid[u] \in Ids
    BY DEF IInv, ThreadShape
  <1>2. Ids \subseteq Ids'
    BY Registry DEF IInv, Ids
  <1> USE DEF Working, Attempting, Labels
  <1>3. CASE UNCHANGED <<pc, job, attempt, wid>>
    BY <1>1, <1>2, <1>3
  <1>4. CASE HttpNext
    <2>1. CASE SubmitNotify
      BY <1>0, <1>1, <1>2, <2>1 DEF SubmitNotify, Goto
    <2> QED
      BY <1>3, <1>4, <2>1
      DEF HttpNext, Create, CreateThrows, SubmitCheck, SubmitPush, SubmitRefused,
          RegisterWorker, threadVars
  <1>5. CASE Shutdown
    BY <1>0, <1>1, <1>2, <1>5 DEF Shutdown
  <1>6. ASSUME NEW t \in Threads, ThreadNext(t)
        PROVE  /\ job'[u] # 0 <=> pc'[u] \in Working
               /\ pc'[u] \in Attempting => attempt'[u] < RetryCount
               /\ pc'[u] = "sent" => wid'[u] \in Ids'
    <2>1. CASE Dequeue(t)
      <3>1. Head(queue) # 0
        <4>1. queue \in Seq(Submissions)
          BY TypeForm DEF IInv, ManagerTypes
        <4> QED
          BY <2>1, <4>1, HeadTailProperties, ManagerAssumption DEF Dequeue, Submissions
      <3> QED
        BY <1>0, <1>1, <1>2, <2>1, <3>1 DEF Dequeue, Goto
    <2>2. CASE Dispatch(t)
      <3>1. PICK w \in Ids : /\ wid' = [wid EXCEPT ![t] = w]
                             /\ \/ pc' = [pc EXCEPT ![t] = "sent"]
                                \/ pc' = [pc EXCEPT ![t] = "release"]
        BY <2>2, DispatchEffect
      <3> QED
        BY <1>0, <1>1, <1>2, <2>2, <3>1 DEF Dispatch
    <2>3. CASE Persist(t)
      BY <1>0, <1>1, <1>2, <2>3 DEF Persist, Goto
    <2>4. CASE Top(t) \/ Leave(t) \/ Doze(t) \/ Sleep(t)
      BY <1>0, <1>1, <1>2, <2>4 DEF Top, Leave, Doze, Sleep, Goto
    <2>5. CASE ExecuteJob(t) \/ RetriesExhausted(t) \/ SelectFails(t) \/ FailOver(t)
      BY <1>0, <1>1, <1>2, <2>5
      DEF ExecuteJob, RetriesExhausted, SelectFails, FailOver, Goto, managerVars
    <2>6. CASE ProbeWorkersIfNeeded(t) \/ HealthCheck(t) \/ ApplyProbe(t)
      BY <1>0, <1>1, <1>2, <2>6 DEF ProbeWorkersIfNeeded, HealthCheck, ApplyProbe, Goto
    <2>7. CASE GiveUp(t) \/ Release(t)
      BY <1>0, <1>1, <1>2, <2>7 DEF GiveUp, Release, Goto
    <2> QED
      BY <1>6, <2>1, <2>2, <2>3, <2>4, <2>5, <2>6, <2>7 DEF ThreadNext
  <1>7. ASSUME NEW e \in Endpoints, Answer(e)
        PROVE  /\ job'[u] # 0 <=> pc'[u] \in Working
               /\ pc'[u] \in Attempting => attempt'[u] < RetryCount
               /\ pc'[u] = "sent" => wid'[u] \in Ids'
    BY <1>0, <1>1, <1>2, <1>7 DEF Answer, Goto
  <1>8. ASSUME NEW e \in Endpoints, Crash(e)
        PROVE  /\ job'[u] # 0 <=> pc'[u] \in Working
               /\ pc'[u] \in Attempting => attempt'[u] < RetryCount
               /\ pc'[u] = "sent" => wid'[u] \in Ids'
    <2>1. CASE UNCHANGED pc
      BY <1>1, <1>2, <1>8, <2>1 DEF Crash
    <2>2. CASE ~ UNCHANGED pc
      <3>1. PICK t \in Threads : /\ Head(backlog[e]).conn = t /\ backlog[e] # <<>>
                                 /\ pc' = [pc EXCEPT ![t] = "release"]
        BY <1>8, <2>2 DEF Crash, Goto
      <3>2. pc[t] = "sent"
        BY <3>1, AnswerEffect, ManagerAssumption DEF IInv, Connections
      <3> QED
        BY <1>0, <1>1, <1>2, <1>8, <3>1, <3>2 DEF Crash
    <2> QED
      BY <2>1, <2>2
  <1>9. CASE Quiet \/ UNCHANGED vars \/ \E e \in Endpoints : Start(e)
    BY <1>3, <1>9 DEF Quiet, vars, Start, threadVars
  <1> QED
    BY <1>4, <1>5, <1>6, <1>7, <1>8, <1>9 DEF Next, WorkerNext

(* Registrations only append to the registry, so the snapshot of a probe    *)
(* stays a prefix of it.                                                    *)
LEMMA ProbeShapeStep == IInv /\ [Next]_vars => ProbeShape'
  <1> DEFINE Good(p) == /\ p.at \in 1..Len(p.cfgs)
                        /\ Len(p.cfgs) <= Len(nodes')
                        /\ \A i \in 1..Len(p.cfgs) : nodes'[i].cfg = p.cfgs[i]
  <1> SUFFICES ASSUME IInv, [Next]_vars, NEW u \in Threads,
                      pc'[u] \in {"probe", "mark"}
               PROVE  Good(probe'[u])
    BY DEF ProbeShape
  <1>0. /\ pc \in [Threads -> Labels]
        /\ probe \in [Threads -> [at : 0..Len(nodes), cfgs : Seq(Endpoints), healthy : BOOLEAN]]
    BY TypeForm DEF IInv, ThreadTypes, RegistryTypes
  <1>n. /\ Len(nodes) \in Nat /\ Len(nodes') \in Nat /\ Len(nodes) <= Len(nodes')
        /\ \A i \in Ids : nodes'[i].cfg = nodes[i].cfg
    BY Registry DEF IInv
  <1>l. Len(probe[u].cfgs) \in Nat
    BY <1>0, LenProperties
  <1>1. ASSUME pc[u] \in {"probe", "mark"}
        PROVE  Good(probe[u])
    BY <1>1, <1>n, <1>l DEF IInv, ProbeShape, Ids
  <1> HIDE DEF Good
  <1>2. CASE probe'[u] = probe[u] /\ pc'[u] = pc[u]
    BY <1>1, <1>2
  <1>3. ASSUME NEW t \in Threads, ThreadNext(t), pc'[u] # pc[u] \/ probe'[u] # probe[u]
        PROVE  Good(probe'[u])
    <2>1. CASE ProbeWorkersIfNeeded(t)
      <3>1. PICK c : /\ c = [i \in Ids |-> nodes[i].cfg] /\ nodes # <<>>
                     /\ probe' = [probe EXCEPT ![t] = [at |-> 1, cfgs |-> c, healthy |-> FALSE]]
                     /\ pc' = [pc EXCEPT ![t] = "probe"]
        BY <1>0, <1>3, <2>1 DEF ProbeWorkersIfNeeded, Goto
      <3>2. u = t /\ probe'[u] = [at |-> 1, cfgs |-> c, healthy |-> FALSE]
        BY <1>0, <1>3, <3>1
      <3>3. nodes \in Seq(WorkerNode)
        BY TypeForm DEF IInv, BalancerTypeOK
      <3>4. Len(nodes) \in Nat \ {0}
        BY <3>1, <3>3, EmptySeq
      <3>5. Len(c) = Len(nodes)
        <4>1. c \in [1..Len(nodes) -> {nodes[i].cfg : i \in Ids}]
          BY <3>1 DEF Ids
        <4> QED
          BY <4>1, <3>4, FunctionIsSeq
      <3>6. \A i \in 1..Len(c) : c[i] = nodes[i].cfg
        BY <3>1, <3>5 DEF Ids
      <3> QED
        BY <1>n, <3>2, <3>4, <3>5, <3>6 DEF Good, Ids
    <2>2. CASE HealthCheck(t)
      <3>1. PICK h \in BOOLEAN : probe' = [probe EXCEPT ![t].healthy = h]
        BY <2>2 DEF HealthCheck
      <3>2. u = t /\ pc[u] = "probe"
        BY <1>0, <1>3, <2>2, <3>1 DEF HealthCheck, Goto
      <3>3. probe'[u] = [at |-> probe[u].at, cfgs |-> probe[u].cfgs, healthy |-> h]
        <4>1. [probe[u] EXCEPT !.healthy = h]
                 = [at |-> probe[u].at, cfgs |-> probe[u].cfgs, healthy |-> h]
          BY <1>0
        <4> QED
          BY <1>0, <3>1, <3>2, <4>1
      <3> QED
        BY <1>1, <3>2, <3>3 DEF Good
    <2>3. CASE ApplyProbe(t)
      <3>1. u = t /\ pc[u] = "mark"
        BY <1>0, <1>3, <2>3 DEF ApplyProbe, Goto
      <3>2. probe[u].at < Len(probe[u].cfgs)
        BY <1>0, <2>3, <3>1 DEF ApplyProbe, Goto
      <3>3. probe'[u] = [at |-> probe[u].at + 1, cfgs |-> probe[u].cfgs, healthy |-> FALSE]
        BY <1>0, <2>3, <3>1, <3>2 DEF ApplyProbe
      <3> QED
        BY <1>1, <1>l, <3>1, <3>2, <3>3 DEF Good
    <2>4. CASE Persist(t)
      BY <1>0, <1>3, <2>4 DEF Persist, Goto
    <2>5. CASE Dispatch(t)
      BY <1>0, <1>3, <2>5 DEF Dispatch, Goto
    <2> QED
      BY <1>0, <1>3, <2>1, <2>2, <2>3, <2>4, <2>5
      DEF ThreadNext, Top, Dequeue, Leave, Doze, Sleep, ExecuteJob, RetriesExhausted,
          SelectFails, GiveUp, Release, FailOver, Goto
  <1>4. ASSUME NEW e \in Endpoints, Answer(e) \/ Crash(e)
        PROVE  probe'[u] = probe[u] /\ pc'[u] = pc[u]
    BY <1>0, <1>4 DEF Answer, Crash, Goto
  <1>5. ASSUME HttpNext \/ Shutdown
        PROVE  probe'[u] = probe[u] /\ pc'[u] = pc[u]
    BY <1>0, <1>5 DEF HttpNext, Create, CreateThrows, SubmitCheck, SubmitPush, SubmitNotify,
                      SubmitRefused, RegisterWorker, Shutdown, threadVars, Goto
  <1>6. CASE Quiet \/ UNCHANGED vars \/ \E e \in Endpoints : Start(e)
    BY <1>2, <1>6 DEF Quiet, vars, Start, threadVars
  <1> QED
    BY <1>2, <1>3, <1>4, <1>5, <1>6 DEF Next, WorkerNext
-----------------------------------------------------------------------------
(* The queue as a function on positions.                                    *)
LEMMA QueueFacts ==
    ASSUME IInv
    PROVE  /\ queue \in Seq(Submissions)
           /\ Len(queue) \in Nat /\ DOMAIN queue = 1..Len(queue)
           /\ \A k \in DOMAIN queue : queue[k] \in Submissions
           /\ queue # <<>> => 1 \in DOMAIN queue /\ Head(queue) = queue[1]
  <1>1. queue \in Seq(Submissions)
    BY TypeForm DEF IInv, ManagerTypes
  <1>2. Len(queue) \in Nat /\ DOMAIN queue = 1..Len(queue)
    BY <1>1, LenProperties
  <1>3. \A k \in DOMAIN queue : queue[k] \in Submissions
    BY <1>1, <1>2, ElementOfSeq
  <1>4. queue # <<>> => Len(queue) \in Nat \ {0}
    BY <1>1, EmptySeq
  <1> QED
    BY <1>1, <1>2, <1>3, <1>4

LEMMA TailFacts ==
    ASSUME IInv, queue # <<>>, queue' = Tail(queue)
    PROVE  \A k \in DOMAIN queue' :
              k \in Nat \ {0} /\ k + 1 \in DOMAIN queue /\ queue'[k] = queue[k + 1]
  <1>1. /\ Tail(queue) \in Seq(Submissions)
        /\ Len(Tail(queue)) = Len(queue) - 1
        /\ \A k \in 1..Len(Tail(queue)) : Tail(queue)[k] = queue[k + 1]
    BY QueueFacts, HeadTailProperties
  <1>2. DOMAIN Tail(queue) = 1..Len(Tail(queue))
    BY <1>1, LenProperties
  <1> QED
    BY <1>1, <1>2, QueueFacts

(* Rows are queued in order, taken in order, and written by their owner     *)
(* only.                                                                    *)
LEMMA PlacesStep == IInv /\ [Next]_vars => Places'
  <1> SUFFICES ASSUME IInv, [Next]_vars PROVE Places'
    OBVIOUS
  <1>0. /\ table \in [Submissions -> {"absent", "pending"} \cup Final]
        /\ http \in [pc : HttpLabels, id : 0..MaxSubmissions]
        /\ job \in [Threads -> 0..MaxSubmissions]
        /\ pc \in [Threads -> Labels]
    BY TypeForm DEF IInv, ManagerTypes, ThreadTypes
  <1>p. Places
    BY DEF IInv
  <1> USE ManagerAssumption DEF Places, Submissions, Submitting
  <1>1. CASE UNCHANGED <<table, queue, job, http>>
    BY <1>p, <1>1
  <1>2. CASE Create \/ CreateThrows
    <2>1. UNCHANGED <<queue, job>>
      BY <1>2 DEF Create, CreateThrows, threadVars
    <2>2. /\ http'.id = http.id + 1 /\ http'.pc \in {"idle", "submit"} /\ http'.id \in Submissions
          /\ \A s \in Submissions : table'[s] = IF s = http'.id THEN "pending" ELSE table[s]
      BY <1>0, <1>2 DEF Create, CreateThrows
    <2>3. \A k \in DOMAIN queue : queue[k] \in Submissions /\ queue[k] <= http.id
      BY <1>p, QueueFacts
    <2>4. \A t \in Threads : job[t] <= http.id /\ job[t] \in 0..MaxSubmissions
      BY <1>0, <1>p
    <2> HIDE ManagerAssumption
    <2> QED
      BY <1>0, <1>p, <2>1, <2>2, <2>3, <2>4
  <1>3. CASE SubmitCheck
    BY <1>0, <1>p, <1>3 DEF SubmitCheck, HttpGoto, threadVars
  <1>4. CASE SubmitPush
    <2>1. UNCHANGED <<table, job>> /\ http'.id = http.id /\ http'.pc = "notify"
      BY <1>0, <1>4 DEF SubmitPush, HttpGoto, threadVars
    <2>2. http.id \in Submissions
      BY <1>0, <1>p, <1>4 DEF SubmitPush
    <2>3. /\ DOMAIN queue' = 1..(Len(queue) + 1)
          /\ \A k \in 1..Len(queue) : queue'[k] = queue[k]
          /\ queue'[Len(queue) + 1] = http.id
      <3>1. queue' = Append(queue, http.id) /\ queue' \in Seq(Submissions)
        BY <1>4, <2>2, QueueFacts, AppendProperties DEF SubmitPush
      <3>2. /\ Len(queue') = Len(queue) + 1
            /\ \A k \in 1..Len(queue) : queue'[k] = queue[k]
            /\ queue'[Len(queue) + 1] = http.id
        BY <2>2, <3>1, QueueFacts, AppendProperties
      <3> QED
        BY <3>1, <3>2, LenProperties
    <2>4. /\ table[http.id] = "pending"
          /\ \A k \in DOMAIN queue : queue[k] < http.id
          /\ \A t \in Threads : job[t] < http.id
      BY <1>p, <1>4 DEF SubmitPush
    <2>5. \A k \in DOMAIN queue' : queue'[k] <= http.id /\ table[queue'[k]] = "pending"
      BY <1>p, <2>2, <2>3, <2>4, QueueFacts
    <2>6. \A k, l \in DOMAIN queue' : k < l => queue'[k] < queue'[l]
      BY <1>p, <2>3, <2>4, QueueFacts
    <2>7. \A t \in Threads : job[t] # 0 => \A k \in DOMAIN queue' : job[t] < queue'[k]
      BY <1>p, <2>3, <2>4, QueueFacts
    <2>8. http.pc # "idle" /\ "notify" \notin Submitting
      BY <1>4 DEF SubmitPush
    <2> HIDE DEF Submitting
    <2> QED
      BY <1>p, <2>1, <2>5, <2>6, <2>7, <2>8
  <1>5. CASE SubmitNotify
    BY <1>0, <1>p, <1>5 DEF SubmitNotify, HttpGoto
  <1>6. CASE SubmitRefused
    <2>1. /\ UNCHANGED <<queue, job>> /\ http'.id = http.id /\ http'.pc = "idle"
          /\ \A s \in Submissions : s # http.id => table'[s] = table[s]
      BY <1>0, <1>6 DEF SubmitRefused, HttpGoto, threadVars
    <2>2. /\ \A k \in DOMAIN queue : queue[k] # http.id
          /\ \A t \in Threads : job[t] # http.id
      BY <1>0, <1>p, <1>6, QueueFacts DEF SubmitRefused
    <2> QED
      BY <1>0, <1>p, <2>1, <2>2, QueueFacts
  <1>7. ASSUME NEW t \in Threads, Dequeue(t) PROVE Places'
    <2>1. /\ UNCHANGED <<table, http>> /\ queue # <<>> /\ queue' = Tail(queue)
          /\ job' = [job EXCEPT ![t] = queue[1]]
      BY <1>7, QueueFacts DEF Dequeue
    <2>2. \A k \in DOMAIN queue' :
             k \in Nat \ {0} /\ k + 1 \in DOMAIN queue /\ queue'[k] = queue[k + 1]
      BY <2>1, TailFacts
    <2>3. \A u \in Threads : job'[u] = IF u = t THEN queue[1] ELSE job[u]
      BY <1>0, <2>1
    <2>4. /\ 1 \in DOMAIN queue /\ queue[1] \in Submissions
          /\ \A k \in DOMAIN queue' : queue[1] < queue'[k]
      <3>1. 1 \in DOMAIN queue /\ queue[1] \in Submissions
        BY <2>1, QueueFacts
      <3>2. ASSUME NEW k \in DOMAIN queue' PROVE queue[1] < queue'[k]
        <4>1. 1 < k + 1 /\ k + 1 \in DOMAIN queue /\ queue'[k] = queue[k + 1]
          BY <2>2
        <4> QED
          BY <1>p, <3>1, <4>1
      <3> QED
        BY <3>1, <3>2
    <2>5. /\ \A k \in DOMAIN queue' : queue'[k] <= http.id /\ table[queue'[k]] = "pending"
          /\ \A k, l \in DOMAIN queue' : k < l => queue'[k] < queue'[l]
      BY <1>p, <2>2, QueueFacts
    <2>6. ASSUME NEW u \in Threads, job'[u] # 0
          PROVE  /\ job'[u] <= http.id /\ table[job'[u]] = "pending"
                 /\ \A k \in DOMAIN queue' : job'[u] < queue'[k]
                 /\ \A v \in Threads : job'[v] = job'[u] => v = u
      <3>1. \A v \in Threads : job[v] < queue[1]
        BY <1>0, <1>p, <2>4
      <3>2. CASE u = t
        BY <1>p, <2>3, <2>4, <3>1, <3>2
      <3>3. CASE u # t
        <4>1. job'[u] = job[u] /\ job[u] < queue[1] /\ job[u] \in Int /\ job[u] # 0
          BY <1>0, <2>3, <2>6, <3>1, <3>3
        <4>2. \A k \in DOMAIN queue' : job[u] < queue'[k]
          BY <1>p, <2>2, <4>1
        <4>3. \A v \in Threads : job'[v] = job[u] => v = u
          BY <1>p, <2>3, <2>4, <4>1
        <4> QED
          BY <1>p, <4>1, <4>2, <4>3
      <3> QED
        BY <3>2, <3>3
    <2>7. http.pc \in Submitting =>
             /\ \A k \in DOMAIN queue' : queue'[k] < http.id
             /\ \A u \in Threads : job'[u] < http.id
      BY <1>p, <2>2, <2>3, <2>4
    <2> QED
      BY <1>p, <2>1, <2>5, <2>6, <2>7
  <1>8. ASSUME NEW t \in Threads, Persist(t) PROVE Places'
    <2>1. job[t] # 0 /\ job[t] \in Submissions
      BY <1>0, <1>8 DEF Persist, IInv, ThreadShape, Working
    <2>2. /\ UNCHANGED <<queue, http>>
          /\ \A u \in Threads : job'[u] = IF u = t THEN 0 ELSE job[u]
          /\ \A s \in Submissions : s # job[t] => table'[s] = table[s]
      BY <1>0, <1>8 DEF Persist
    <2>3. /\ \A k \in DOMAIN queue : queue[k] # job[t]
          /\ \A u \in Threads : u # t => job[u] # job[t]
          /\ http.pc \in Submitting => http.id # job[t]
      BY <1>0, <1>p, <2>1, QueueFacts
    <2>4. \A s \in Submissions : s > http.id => s # job[t]
      BY <1>0, <1>p, <2>1
    <2>5. \A u \in Threads : job[u] # 0 => job[u] \in Submissions
      BY <1>0
    <2>6. http.pc \in Submitting => http.id \in Submissions
      BY <1>0, <1>p
    <2>7. \A k \in DOMAIN queue : table'[queue[k]] = "pending"
      BY <1>p, <2>2, <2>3, QueueFacts
    <2>8. \A u \in Threads : job'[u] # 0 =>
             /\ job'[u] = job[u] /\ table'[job[u]] = "pending"
             /\ \A v \in Threads : job'[v] = job[u] => u = v
      BY <1>p, <2>2, <2>3, <2>5
    <2>9. http.pc \in Submitting =>
             /\ table'[http.id] = "pending"
             /\ \A u \in Threads : job'[u] < http.id
      BY <1>0, <1>p, <2>2, <2>3, <2>6
    <2>10. \A s \in Submissions : s > http.id => table'[s] = "absent"
      BY <1>p, <2>2, <2>4
    <2> HIDE DEF Submitting, Submissions
    <2> QED
      BY <1>p, <2>2, <2>7, <2>8, <2>9, <2>10
  <1>9. ASSUME NEW t \in Threads, ThreadNext(t), ~Dequeue(t), ~Persist(t)
        PROVE  UNCHANGED <<table, queue, job, http>>
    BY <1>9 DEF ThreadNext, Top, Leave, Doze, Sleep, ExecuteJob, RetriesExhausted,
                ProbeWorkersIfNeeded, HealthCheck, ApplyProbe, SelectFails, Dispatch,
                GiveUp, Release, FailOver, managerVars
  <1>10. CASE Shutdown \/ WorkerNext \/ Quiet \/ UNCHANGED vars
              \/ \E e \in Endpoints : RegisterWorker(e)
    BY <1>1, <1>10 DEF Shutdown, WorkerNext, Answer, Crash, Start, Quiet, RegisterWorker,
                       vars, managerVars, threadVars
  <1> QED
    BY <1>1, <1>2, <1>3, <1>4, <1>5, <1>6, <1>7, <1>8, <1>9, <1>10 DEF Next, HttpNext
-----------------------------------------------------------------------------
(* A step by which every waiting thread keeps its job and its worker, and   *)
(* no request is added, keeps the connections right.                        *)
LEMMA ConnectionsFrame ==
    ASSUME IInv, [Next]_vars, UNCHANGED backlog,
           \A u \in Threads : pc[u] = "sent" =>
              pc'[u] = "sent" /\ job'[u] = job[u] /\ wid'[u] = wid[u]
    PROVE  Connections'
  <1>1. \A u \in Threads : pc[u] = "sent" => nodes'[wid[u]].cfg = nodes[wid[u]].cfg
    BY Registry DEF IInv, ThreadShape
  <1>2. ASSUME NEW e \in Endpoints, NEW k \in DOMAIN backlog[e]
        PROVE  backlog[e][k].conn \in Threads \cup {Nobody}
    <2>1. backlog[e] \in Seq(Request)
      BY TypeForm DEF IInv, WorkerTypes, Request
    <2>2. backlog[e][k] \in Request
      BY <1>2, <2>1, ElementOfSeq, LenProperties
    <2> QED
      BY <2>2 DEF Request
  <1> QED
    BY <1>1, <1>2 DEF IInv, Connections

\* What Connections says of one request r in the backlog of e.
Open(r, e) == r.conn # Nobody =>
    pc[r.conn] = "sent" /\ job[r.conn] = r.id /\ nodes[wid[r.conn]].cfg = e

\* No two requests of a backlog are on the same connection.
Unshared(b) == \A k, l \in DOMAIN b : b[k].conn = b[l].conn /\ b[k].conn # Nobody => k = l

LEMMA ConnectionsForm ==
    Connections <=> \A e \in Endpoints :
                       /\ \A k \in DOMAIN backlog[e] : Open(backlog[e][k], e)
                       /\ Unshared(backlog[e])
  BY DEF Connections, Open, Unshared

\* The same of a request after the step.
OpenNext(r, e) == r.conn # Nobody =>
    pc'[r.conn] = "sent" /\ job'[r.conn] = r.id /\ nodes'[wid'[r.conn]].cfg = e

LEMMA ConnectionsNext ==
    Connections' <=> \A e \in Endpoints :
                        /\ \A k \in DOMAIN backlog'[e] : OpenNext(backlog'[e][k], e)
                        /\ Unshared(backlog'[e])
  BY DEF Connections, OpenNext, Unshared

(* An open request stays open for every thread that a step leaves alone.    *)
LEMMA OpenStays ==
    ASSUME IInv, [Next]_vars, NEW r \in Request, NEW e \in Endpoints, Open(r, e),
           r.conn # Nobody => /\ pc'[r.conn] = "sent" /\ job'[r.conn] = job[r.conn]
                              /\ wid'[r.conn] = wid[r.conn]
    PROVE  OpenNext(r, e)
  <1>1. SUFFICES ASSUME r.conn # Nobody
                 PROVE  nodes'[wid[r.conn]].cfg = nodes[wid[r.conn]].cfg
    BY DEF Open, OpenNext
  <1>2. r.conn \in Threads /\ pc[r.conn] = "sent"
    BY <1>1 DEF Request, Open
  <1>3. wid[r.conn] \in Ids
    BY <1>2 DEF IInv, ThreadShape
  <1> QED
    BY <1>3, Registry DEF IInv

LEMMA ConnectionsStep == IInv /\ [Next]_vars => Connections'
  <1> SUFFICES ASSUME IInv, [Next]_vars PROVE Connections'
    OBVIOUS
  <1>0. /\ pc \in [Threads -> Labels] /\ job \in [Threads -> 0..MaxSubmissions]
        /\ wid \in [Threads -> 0..Len(nodes)]
        /\ backlog \in [Endpoints -> Seq(Request)]
    BY TypeForm DEF IInv, ThreadTypes, RegistryTypes, WorkerTypes, Request
  <1>b. ASSUME NEW e \in Endpoints
        PROVE  /\ backlog[e] \in Seq(Request)
               /\ Len(backlog[e]) \in Nat /\ DOMAIN backlog[e] = 1..Len(backlog[e])
               /\ \A k \in DOMAIN backlog[e] : backlog[e][k] \in Request
    <2>1. backlog[e] \in Seq(Request)
      BY <1>0
    <2> QED
      BY <2>1, LenProperties, ElementOfSeq
  <1>c. \A e \in Endpoints : /\ \A k \in DOMAIN backlog[e] : Open(backlog[e][k], e)
                             /\ Unshared(backlog[e])
    BY ConnectionsForm DEF IInv
  <1>1. CASE HttpNext \/ Shutdown
    BY <1>0, <1>1, ConnectionsFrame
    DEF HttpNext, Create, CreateThrows, SubmitCheck, SubmitPush, SubmitNotify, SubmitRefused,
        RegisterWorker, Shutdown, threadVars, workerVars, Goto
  <1>2. ASSUME NEW t \in Threads, ThreadNext(t), ~Dispatch(t), ~GiveUp(t)
        PROVE  Connections'
    <2>1. UNCHANGED backlog /\ pc[t] # "sent"
      BY <1>2 DEF ThreadNext, Top, Dequeue, Leave, Doze, Sleep, ExecuteJob,
                  RetriesExhausted, ProbeWorkersIfNeeded, HealthCheck, ApplyProbe,
                  SelectFails, Release, FailOver, Persist, workerVars
    <2>2. \A u \in Threads : u # t =>
             pc'[u] = pc[u] /\ job'[u] = job[u] /\ wid'[u] = wid[u]
      BY <1>0, <1>2
      DEF ThreadNext, Top, Dequeue, Leave, Doze, Sleep, ExecuteJob,
          RetriesExhausted, ProbeWorkersIfNeeded, HealthCheck, ApplyProbe,
          SelectFails, Release, FailOver, Persist, Goto
    <2> QED
      BY <2>1, <2>2, ConnectionsFrame
  <1>3. ASSUME NEW t \in Threads, Dispatch(t) PROVE Connections'
    <2>1. PICK w \in Ids :
             /\ wid' = [wid EXCEPT ![t] = w]
             /\ nodes[w].cfg \in Endpoints /\ nodes'[w].cfg = nodes[w].cfg
             /\ \/ /\ pc' = [pc EXCEPT ![t] = "sent"]
                   /\ backlog' = [backlog EXCEPT ![nodes[w].cfg] =
                                    Append(@, [id |-> job[t], conn |-> t])]
                \/ /\ pc' = [pc EXCEPT ![t] = "release"]
                   /\ UNCHANGED backlog
      BY <1>3, DispatchEffect
    <2>2. pc[t] = "select" /\ UNCHANGED job
      BY <1>3 DEF Dispatch
    <2>3. CASE UNCHANGED backlog
      BY <1>0, <2>1, <2>2, <2>3, ConnectionsFrame
    <2>4. CASE /\ pc' = [pc EXCEPT ![t] = "sent"]
               /\ backlog' = [backlog EXCEPT ![nodes[w].cfg] =
                                Append(@, [id |-> job[t], conn |-> t])]
      <3> DEFINE d == nodes[w].cfg
                 r == [id |-> job[t], conn |-> t]
      <3>1. r \in Request
        BY <1>0, <2>2, ManagerAssumption
        DEF Request, IInv, ThreadShape, Working, Submissions
      <3>2. OpenNext(r, d)
        BY <1>0, <2>1, <2>2, <2>4 DEF OpenNext
      <3>3. \A u \in Threads : u # t =>
               pc'[u] = pc[u] /\ job'[u] = job[u] /\ wid'[u] = wid[u]
        BY <1>0, <2>1, <2>2, <2>4
      <3>4. ASSUME NEW e \in Endpoints, NEW k \in DOMAIN backlog[e]
            PROVE  OpenNext(backlog[e][k], e) /\ backlog[e][k].conn # t
        <4>1. backlog[e][k] \in Request /\ Open(backlog[e][k], e)
          BY <1>b, <1>c, <3>4
        <4>2. backlog[e][k].conn # t
          BY <2>2, <4>1, ManagerAssumption DEF Open
        <4> QED
          <5> DEFINE q == backlog[e][k]
          <5>1. q.conn # Nobody => q.conn \in Threads /\ pc[q.conn] = "sent" /\ q.conn # t
            BY <4>1, <4>2 DEF Open, Request
          <5>2. q.conn # Nobody => /\ pc'[q.conn] = "sent" /\ job'[q.conn] = job[q.conn]
                                   /\ wid'[q.conn] = wid[q.conn]
            BY <3>3, <5>1
          <5> QED
            BY <4>1, <4>2, <5>2, OpenStays
      <3> HIDE DEF r, d
      <3>5. backlog'[d] = Append(backlog[d], r)
            /\ \A e \in Endpoints : e # d => backlog'[e] = backlog[e]
        BY <1>0, <2>1, <2>4 DEF d, r
      <3>6. /\ DOMAIN backlog'[d] = 1..(Len(backlog[d]) + 1)
            /\ \A k \in 1..Len(backlog[d]) : backlog'[d][k] = backlog[d][k]
            /\ backlog'[d][Len(backlog[d]) + 1] = r
        <4>1. backlog[d] \in Seq(Request) /\ d \in Endpoints
          BY <1>b, <2>1 DEF d
        <4>2. backlog'[d] \in Seq(Request) /\ Len(backlog'[d]) = Len(backlog[d]) + 1
          BY <3>1, <3>5, <4>1, AppendProperties
        <4>3. DOMAIN backlog'[d] = 1..(Len(backlog[d]) + 1)
          BY <4>2, LenProperties
        <4> QED
          BY <3>1, <3>5, <4>1, <4>3, AppendProperties
      <3>7. ASSUME NEW e \in Endpoints
            PROVE  /\ \A k \in DOMAIN backlog'[e] : OpenNext(backlog'[e][k], e)
                   /\ Unshared(backlog'[e])
        <4>1. CASE e # d
          BY <1>c, <3>4, <3>5, <4>1 DEF Unshared
        <4>2. CASE e = d
          <5>1. ASSUME NEW k \in DOMAIN backlog'[e]
                PROVE  \/ k \in DOMAIN backlog[d] /\ backlog'[d][k] = backlog[d][k]
                       \/ k = Len(backlog[d]) + 1 /\ backlog'[d][k] = r
            BY <1>b, <3>6, <4>2
          <5>2. \A k \in DOMAIN backlog'[e] : OpenNext(backlog'[e][k], e)
            BY <3>2, <3>4, <4>2, <5>1
          <5>3. \A k \in DOMAIN backlog[d] : backlog[d][k].conn # r.conn
            BY <3>4, <4>2 DEF r
          <5> QED
            BY <1>c, <4>2, <5>1, <5>2, <5>3 DEF Unshared
        <4> QED
          BY <4>1, <4>2
      <3> QED
        BY <3>7, ConnectionsNext
    <2> QED
      BY <2>1, <2>3, <2>4
  <1>4. ASSUME NEW t \in Threads, GiveUp(t) PROVE Connections'
    <2> DEFINE w == Worker(t)
    <2>1. /\ w \in Endpoints
          /\ \A e \in Endpoints : e # w => backlog'[e] = backlog[e]
          /\ \A e \in Endpoints : DOMAIN backlog'[e] = DOMAIN backlog[e]
          /\ \A k \in DOMAIN backlog[w] :
                /\ backlog[w][k].conn = t => backlog'[w][k].conn = Nobody
                /\ backlog[w][k].conn # t => backlog'[w][k] = backlog[w][k]
      BY <1>4, GiveUpEffect
    <2>2. /\ \A u \in Threads : u # t => pc'[u] = pc[u]
          /\ UNCHANGED <<job, wid>>
      BY <1>0, <1>4 DEF GiveUp, Goto
    <2>3. ASSUME NEW e \in Endpoints, NEW k \in DOMAIN backlog[e], backlog[e][k].conn # t
          PROVE  OpenNext(backlog[e][k], e)
      <3> DEFINE q == backlog[e][k]
      <3>1. q \in Request /\ Open(q, e)
        BY <1>b, <1>c, <2>3
      <3>2. q.conn # Nobody => q.conn \in Threads /\ pc[q.conn] = "sent" /\ q.conn # t
        BY <2>3, <3>1 DEF Open, Request
      <3>3. q.conn # Nobody => /\ pc'[q.conn] = "sent" /\ job'[q.conn] = job[q.conn]
                               /\ wid'[q.conn] = wid[q.conn]
        BY <2>2, <3>2
      <3> QED
        BY <3>1, <3>3, OpenStays
    <2>4. ASSUME NEW e \in Endpoints, NEW k \in DOMAIN backlog[e], e # w
          PROVE  backlog[e][k].conn # t
      BY <1>c, <2>4, ManagerAssumption DEF Open, Worker
    <2> HIDE DEF w
    <2>5. ASSUME NEW e \in Endpoints, NEW k \in DOMAIN backlog[e]
          PROVE  \/ backlog'[e][k] = backlog[e][k] /\ backlog[e][k].conn # t
                 \/ backlog'[e][k].conn = Nobody
      BY <2>1, <2>4
    <2>6. ASSUME NEW e \in Endpoints
          PROVE  /\ \A k \in DOMAIN backlog'[e] : OpenNext(backlog'[e][k], e)
                 /\ Unshared(backlog'[e])
      <3>1. \A k \in DOMAIN backlog[e] : OpenNext(backlog'[e][k], e)
        <4> SUFFICES ASSUME NEW k \in DOMAIN backlog[e]
                     PROVE  OpenNext(backlog'[e][k], e)
          OBVIOUS
        <4>1. CASE backlog'[e][k] = backlog[e][k] /\ backlog[e][k].conn # t
          BY <2>3, <4>1
        <4>2. CASE backlog'[e][k].conn = Nobody
          BY <4>2 DEF OpenNext
        <4> QED
          BY <2>5, <4>1, <4>2
      <3>2. Unshared(backlog'[e])
        BY <1>c, <2>1, <2>5 DEF Unshared
      <3> QED
        BY <2>1, <3>1, <3>2
    <2> QED
      BY <2>6, ConnectionsNext
  <1>5. ASSUME NEW e \in Endpoints, Answer(e) \/ Crash(e) \/ Start(e)
        PROVE  /\ UNCHANGED <<job, wid>>
               /\ \A d \in Endpoints : d # e => backlog'[d] = backlog[d]
               /\ \/ pc' = pc
                  \/ /\ backlog[e] # <<>>
                     /\ pc' = [pc EXCEPT ![Head(backlog[e]).conn] = "release"]
    BY <1>0, <1>5 DEF Answer, Crash, Start, Goto, threadVars
  <1>6. ASSUME NEW e \in Endpoints, NEW d \in Endpoints, NEW k \in DOMAIN backlog[d],
               Answer(e) \/ Crash(e) \/ Start(e), backlog[e] # <<>> => d # e \/ k # 1
        PROVE  OpenNext(backlog[d][k], d)
    <2>1. backlog[d][k] \in Request /\ Open(backlog[d][k], d)
      BY <1>b, <1>c, <1>6
    <2>2. CASE pc' = pc
      BY <1>5, <1>6, <2>1, <2>2, OpenStays DEF Open
    <2>3. CASE /\ backlog[e] # <<>>
               /\ pc' = [pc EXCEPT ![Head(backlog[e]).conn] = "release"]
      <3> DEFINE r == backlog[d][k]
                 h == Head(backlog[e])
      <3>1. h = backlog[e][1] /\ 1 \in DOMAIN backlog[e] /\ Open(h, e)
        BY <1>c, <2>3, AnswerEffect
      <3>2. r.conn # Nobody => r.conn # h.conn
        <4>1. CASE d = e
          BY <1>c, <1>6, <2>3, <3>1, <4>1 DEF Unshared
        <4>2. CASE d # e
          BY <2>1, <3>1, <4>2 DEF Open
        <4> QED
          BY <4>1, <4>2
      <3>3. r.conn # Nobody => pc'[r.conn] = "sent"
        BY <1>0, <2>1, <2>3, <3>2 DEF Open, Request
      <3> QED
        BY <1>5, <1>6, <2>1, <3>3, OpenStays
    <2> QED
      BY <1>5, <1>6, <2>2, <2>3
  <1>7. ASSUME NEW e \in Endpoints, Answer(e) PROVE Connections'
    <2> DEFINE b == Tail(backlog[e])
    <2>1. /\ backlog[e] # <<>> /\ backlog'[e] = b
          /\ \A k \in DOMAIN b : /\ k \in Nat /\ k + 1 \in DOMAIN backlog[e]
                                 /\ b[k] = backlog[e][k + 1]
      BY <1>0, <1>7, AnswerEffect DEF Answer
    <2> HIDE DEF b
    <2>2. ASSUME NEW k \in DOMAIN b PROVE k \in Nat \ {0}
      <3>1. b \in Seq(Request)
        BY <2>1, AnswerEffect DEF b
      <3> QED
        BY <2>2, <3>1, LenProperties
    <2>3. ASSUME NEW d \in Endpoints
          PROVE  /\ \A k \in DOMAIN backlog'[d] : OpenNext(backlog'[d][k], d)
                 /\ Unshared(backlog'[d])
      <3>1. CASE d = e
        <4>1. \A k \in DOMAIN b : OpenNext(b[k], e)
          <5> SUFFICES ASSUME NEW k \in DOMAIN b PROVE OpenNext(b[k], e)
            OBVIOUS
          <5>1. k + 1 \in DOMAIN backlog[e] /\ k + 1 # 1 /\ b[k] = backlog[e][k + 1]
            BY <2>1, <2>2
          <5> QED
            BY <1>6, <1>7, <5>1
        <4>2. Unshared(b)
          BY <1>c, <2>1 DEF Unshared
        <4> QED
          BY <2>1, <3>1, <4>1, <4>2
      <3>2. CASE d # e
        BY <1>c, <1>5, <1>6, <1>7, <3>2
      <3> QED
        BY <3>1, <3>2
    <2> QED
      BY <2>3, ConnectionsNext
  <1>8. ASSUME NEW e \in Endpoints, Crash(e) PROVE Connections'
    <2>1. backlog'[e] = <<>> /\ DOMAIN backlog'[e] = {}
      BY <1>0, <1>8 DEF Crash
    <2>2. ASSUME NEW d \in Endpoints
          PROVE  /\ \A k \in DOMAIN backlog'[d] : OpenNext(backlog'[d][k], d)
                 /\ Unshared(backlog'[d])
      <3>1. CASE d = e
        BY <2>1, <3>1 DEF Unshared
      <3>2. CASE d # e
        BY <1>c, <1>5, <1>6, <1>8, <3>2
      <3> QED
        BY <3>1, <3>2
    <2> QED
      BY <2>2, ConnectionsNext
  <1>9. CASE Quiet \/ UNCHANGED vars \/ \E e \in Endpoints : Start(e)
    BY <1>9, ConnectionsFrame DEF Quiet, vars, Start, threadVars, workerVars
  <1> QED
    BY <1>1, <1>2, <1>3, <1>4, <1>7, <1>8, <1>9 DEF Next, WorkerNext
-----------------------------------------------------------------------------
(* A thread that hears a verdict hears it for the job it has.               *)
LEMMA RepliesStep == IInv /\ [Next]_vars => RepliesEarned'
  <1> SUFFICES ASSUME IInv, [Next]_vars, NEW u \in Threads, reply'[u] = "verdict"
               PROVE  job'[u] \in judged'
    BY DEF RepliesEarned
  <1>0. /\ reply \in [Threads -> Replies] /\ job \in [Threads -> 0..MaxSubmissions]
        /\ judged \subseteq Submissions
    BY TypeForm DEF IInv, ThreadTypes, WorkerTypes
  <1>1. reply[u] = "verdict" => job[u] \in judged /\ job[u] # 0
    BY <1>0, ManagerAssumption DEF IInv, RepliesEarned, Submissions
  <1>2. CASE reply'[u] = reply[u] /\ job'[u] = job[u] /\ judged \subseteq judged'
    BY <1>1, <1>2
  <1>3. CASE HttpNext \/ Shutdown \/ Quiet \/ UNCHANGED vars
    BY <1>2, <1>3
    DEF HttpNext, Create, CreateThrows, SubmitCheck, SubmitPush, SubmitNotify, SubmitRefused,
        RegisterWorker, Shutdown, Quiet, vars, threadVars, history
  <1>4. ASSUME NEW t \in Threads, ThreadNext(t) PROVE job'[u] \in judged'
    <2>1. CASE Dequeue(t)
      <3>1. t # u
        BY <1>1, <2>1 DEF Dequeue, IInv, ThreadShape, Working
      <3> QED
        BY <1>0, <1>2, <2>1, <3>1 DEF Dequeue, history
    <2>2. CASE Persist(t) \/ ExecuteJob(t) \/ Dispatch(t) \/ GiveUp(t) \/ FailOver(t)
      <3>1. t = u => reply'[u] \in {"none", "fail", reply[u]} /\ (reply'[u] # "none" => job'[u] = job[u])
        BY <1>0, <2>2 DEF Persist, ExecuteJob, Dispatch, GiveUp, FailOver, managerVars
      <3>2. t # u => reply'[u] = reply[u] /\ job'[u] = job[u]
        BY <1>0, <2>2 DEF Persist, ExecuteJob, Dispatch, GiveUp, FailOver, managerVars
      <3>3. UNCHANGED judged
        BY <2>2 DEF Persist, ExecuteJob, Dispatch, GiveUp, FailOver, history
      <3> QED
        BY <1>2, <3>1, <3>2, <3>3
    <2> QED
      BY <1>2, <1>4, <2>1, <2>2
      DEF ThreadNext, Top, Leave, Doze, Sleep, RetriesExhausted, ProbeWorkersIfNeeded,
          HealthCheck, ApplyProbe, SelectFails, Release, managerVars, history
  <1>5. ASSUME NEW e \in Endpoints, Answer(e) PROVE job'[u] \in judged'
    <2> DEFINE h == Head(backlog[e])
    <2>1. /\ backlog[e] # <<>> /\ judged' = judged \cup {h.id} /\ UNCHANGED job
          /\ \/ UNCHANGED reply
             \/ h.conn # Nobody /\ reply' = [reply EXCEPT ![h.conn] = "verdict"]
      BY <1>5 DEF Answer
    <2>2. h.conn # Nobody => job[h.conn] = h.id
      BY <2>1, AnswerEffect DEF IInv, Connections
    <2> HIDE DEF h
    <2> QED
      BY <1>0, <1>1, <2>1, <2>2
  <1>6. ASSUME NEW e \in Endpoints, Crash(e) \/ Start(e) PROVE job'[u] \in judged'
    BY <1>0, <1>1, <1>6 DEF Crash, Start, threadVars, history
  <1> QED
    BY <1>3, <1>4, <1>5, <1>6 DEF Next, WorkerNext

(* So no verdict is written that was not computed for that submission.      *)
LEMMA VerdictsStep == IInv /\ [Next]_vars => VerdictsEarned'
  <1> SUFFICES ASSUME IInv, [Next]_vars, NEW s \in Submissions, table'[s] = "verdict"
               PROVE  s \in judged'
    BY DEF VerdictsEarned
  <1>0. /\ table \in [Submissions -> {"absent", "pending"} \cup Final]
        /\ job \in [Threads -> 0..MaxSubmissions]
    BY TypeForm DEF IInv, ManagerTypes, ThreadTypes
  <1>1. CASE table'[s] = table[s] /\ judged \subseteq judged'
    BY <1>1 DEF IInv, VerdictsEarned
  <1>2. CASE Create \/ CreateThrows
    BY <1>0, <1>1, <1>2 DEF Create, CreateThrows, history
  <1>3. CASE SubmitRefused
    BY <1>0, <1>1, <1>3 DEF SubmitRefused
  <1>4. ASSUME NEW t \in Threads, Persist(t) PROVE s \in judged'
    <2>1. CASE s = job[t] /\ reply[t] = "verdict"
      BY <1>4, <2>1 DEF Persist, IInv, RepliesEarned
    <2>2. CASE ~ (s = job[t] /\ reply[t] = "verdict")
      BY <1>0, <1>1, <1>4, <2>2 DEF Persist, Outcome
    <2> QED
      BY <2>1, <2>2
  <1>5. ASSUME NEW t \in Threads, ThreadNext(t), ~Persist(t)
        PROVE  UNCHANGED <<table, judged>>
    BY <1>5 DEF ThreadNext, Top, Dequeue, Leave, Doze, Sleep, ExecuteJob,
                RetriesExhausted, ProbeWorkersIfNeeded, HealthCheck, ApplyProbe,
                SelectFails, Dispatch, GiveUp, Release, FailOver, managerVars, history
  <1>6. ASSUME HttpNext \/ Shutdown \/ WorkerNext \/ Quiet \/ UNCHANGED vars,
               ~Create, ~CreateThrows, ~SubmitRefused
        PROVE  UNCHANGED table /\ judged \subseteq judged'
    BY <1>6 DEF HttpNext, SubmitCheck, SubmitPush, SubmitNotify, RegisterWorker,
                Shutdown, WorkerNext, Answer, Crash, Start, Quiet, vars, managerVars, history
  <1> QED
    BY <1>1, <1>2, <1>3, <1>4, <1>5, <1>6 DEF Next

(* A thread that leaves sleep, the queue or a stage of its job for another  *)
(* stage keeps the queue attended.                                          *)
LEMMA WakefulMove ==
    ASSUME Wakeful, pc \in [Threads -> Labels], NEW t \in Threads,
           NEW l \in Working \cup {"top", "lock"},
           Goto(t, l), UNCHANGED <<queue, mu, running>>
    PROVE  Wakeful'
  BY DEF Wakeful, Attended, Goto, Working

(* No wake-up is lost while the manager runs: a thread goes to sleep only   *)
(* when it has seen an empty queue under the lock, and whoever queues a job *)
(* notifies after it.                                                       *)
LEMMA WakefulStep == IInv /\ [Next]_vars => Wakeful'
  <1> SUFFICES ASSUME IInv, [Next]_vars PROVE Wakeful'
    OBVIOUS
  <1>0. /\ pc \in [Threads -> Labels]
        /\ http \in [pc : HttpLabels, id : 0..MaxSubmissions]
    BY TypeForm DEF IInv, ManagerTypes, ThreadTypes
  <1>w. Wakeful
    BY DEF IInv
  <1>1. CASE UNCHANGED <<queue, mu, running, pc>> /\ (http.pc = "notify" => UNCHANGED http)
    BY <1>w, <1>1 DEF Wakeful, Attended
  <1>2. CASE SubmitPush
    BY <1>0, <1>w, <1>2, ManagerAssumption
    DEF SubmitPush, HttpGoto, threadVars, Wakeful, Attended
  <1>3. CASE SubmitNotify
    <2>1. CASE \E t \in Threads : pc[t] = "asleep"
      <3>1. PICK t \in Threads : Goto(t, "lock")
        BY <1>3, <2>1 DEF SubmitNotify
      <3> QED
        BY <1>0, <1>w, <1>3, <3>1, WakefulMove DEF SubmitNotify
    <2>2. CASE \A t \in Threads : pc[t] # "asleep"
      BY <1>w, <1>3, <2>2, ManagerAssumption DEF SubmitNotify, Wakeful, Attended
    <2> QED
      BY <2>1, <2>2
  <1>4. CASE Shutdown
    BY <1>0, <1>w, <1>4 DEF Shutdown, Wakeful
  <1>5. ASSUME NEW t \in Threads, ThreadNext(t) PROVE Wakeful'
    <2>1. CASE Top(t)
      BY <1>0, <1>w, <2>1 DEF Top, Goto, managerVars, Wakeful, Attended
    <2>2. CASE Dequeue(t)
      BY <1>0, <1>w, <2>2, ManagerAssumption DEF Dequeue, Goto, Wakeful, Attended
    <2>3. CASE Leave(t)
      BY <1>0, <1>w, <2>3 DEF Leave, Goto, managerVars, Wakeful
    <2>4. CASE Doze(t)
      BY <1>0, <1>w, <2>4, ManagerAssumption DEF Doze, Goto, Wakeful, Attended
    <2>5. CASE Sleep(t)
      BY <1>0, <1>w, <2>5 DEF Sleep, Goto, Wakeful, Attended
    <2>6. ASSUME ~Top(t), ~Dequeue(t), ~Leave(t), ~Doze(t), ~Sleep(t)
          PROVE  /\ UNCHANGED <<queue, mu, running>>
                 /\ \E l \in Working \cup {"top", "lock"} : Goto(t, l)
      BY <1>5, <2>6 DEF ThreadNext, ExecuteJob, RetriesExhausted, ProbeWorkersIfNeeded,
                        HealthCheck, ApplyProbe, SelectFails, Dispatch, GiveUp, Release,
                        FailOver, Persist, Working, managerVars
    <2> QED
      BY <1>0, <1>w, <2>1, <2>2, <2>3, <2>4, <2>5, <2>6, WakefulMove
  <1>6. ASSUME NEW e \in Endpoints, Answer(e) \/ Crash(e) PROVE Wakeful'
    <2>1. UNCHANGED <<queue, mu, running, http>>
      BY <1>6 DEF Answer, Crash, managerVars
    <2>2. UNCHANGED pc \/ \E t \in Threads : Goto(t, "release")
      <3>1. CASE Crash(e)
        BY <3>1 DEF Crash
      <3>2. CASE Answer(e)
        <4>1. backlog[e] # <<>> => Head(backlog[e]).conn \in Threads \cup {Nobody}
          BY AnswerEffect DEF Request
        <4> QED
          BY <3>2, <4>1 DEF Answer
      <3> QED
        BY <1>6, <3>1, <3>2
    <2> QED
      BY <1>0, <1>1, <1>w, <2>1, <2>2, WakefulMove DEF Working
  <1>7. CASE HttpNext
    BY <1>1, <1>2, <1>3, <1>7
    DEF HttpNext, Create, CreateThrows, SubmitCheck, SubmitRefused, RegisterWorker, threadVars
  <1>8. CASE Quiet \/ UNCHANGED vars \/ \E e \in Endpoints : Start(e)
    BY <1>1, <1>8 DEF Quiet, vars, Start, managerVars, threadVars
  <1> QED
    BY <1>3, <1>4, <1>5, <1>6, <1>7, <1>8 DEF Next, WorkerNext

(* A pending row has an owner, or a statement about it failed.              *)
LEMMA AccountedStep == IInv /\ [Next]_vars => Accounted'
  <1> SUFFICES ASSUME IInv, [Next]_vars, NEW s \in Submissions, table'[s] = "pending"
               PROVE  \/ Queued(s)' \/ Held(s)'
                      \/ http'.id = s /\ http'.pc \in Submitting
                      \/ s \in lost'
    BY DEF Accounted
  <1>0. /\ table \in [Submissions -> {"absent", "pending"} \cup Final]
        /\ http \in [pc : HttpLabels, id : 0..MaxSubmissions]
        /\ job \in [Threads -> 0..MaxSubmissions]
    BY TypeForm DEF IInv, ManagerTypes, ThreadTypes
  <1>p. table[s] = "pending" => \/ Queued(s) \/ Held(s)
                                \/ http.id = s /\ http.pc \in Submitting
                                \/ s \in lost
    BY DEF IInv, Accounted
  <1> USE DEF Queued, Held, Submitting
  <1>1. CASE UNCHANGED <<table, queue, job, http, lost>>
    BY <1>p, <1>1
  <1>2. CASE Create \/ CreateThrows
    BY <1>0, <1>p, <1>2 DEF Create, CreateThrows, threadVars, history, IInv, Places
  <1>3. CASE SubmitCheck
    BY <1>0, <1>p, <1>3 DEF SubmitCheck, HttpGoto, threadVars, history
  <1>4. CASE SubmitPush
    <2>1. queue' = Append(queue, http.id) /\ http.id \in Submissions
      BY <1>0, <1>4 DEF SubmitPush, IInv, Places, Submissions
    <2>2. /\ DOMAIN queue' = 1..(Len(queue) + 1)
          /\ \A k \in 1..Len(queue) : queue'[k] = queue[k]
          /\ queue'[Len(queue) + 1] = http.id
      BY <2>1, QueueFacts, AppendProperties, LenProperties
    <2>3. Queued(s) \/ s = http.id => Queued(s)'
      BY <2>2, QueueFacts
    <2> QED
      BY <1>p, <1>4, <2>3 DEF SubmitPush, threadVars, history
  <1>5. CASE SubmitNotify
    BY <1>0, <1>p, <1>5 DEF SubmitNotify, HttpGoto, history
  <1>6. CASE SubmitRefused
    BY <1>0, <1>p, <1>6 DEF SubmitRefused, HttpGoto, threadVars
  <1>7. ASSUME NEW t \in Threads, Dequeue(t)
        PROVE  Queued(s)' \/ Held(s)' \/ (http'.id = s /\ http'.pc \in Submitting) \/ s \in lost'
    <2>1. job[t] = 0
      BY <1>7 DEF Dequeue, IInv, ThreadShape, Working
    <2>2. queue # <<>> /\ queue' = Tail(queue) /\ job' = [job EXCEPT ![t] = queue[1]]
      BY <1>7, QueueFacts DEF Dequeue
    <2>3. Queued(s) => Queued(s)' \/ Held(s)'
      <3> SUFFICES ASSUME NEW k \in DOMAIN queue, queue[k] = s
                   PROVE  Queued(s)' \/ Held(s)'
        OBVIOUS
      <3>1. CASE k = 1
        BY <1>0, <2>2, <3>1
      <3>2. CASE k # 1
        <4>1. /\ Len(queue') = Len(queue) - 1 /\ DOMAIN queue' = 1..Len(queue')
              /\ \A i \in 1..Len(queue') : queue'[i] = queue[i + 1]
          BY <2>2, QueueFacts, HeadTailProperties, LenProperties
        <4>2. k - 1 \in DOMAIN queue' /\ queue'[k - 1] = s
          BY <3>2, <4>1, QueueFacts
        <4> QED
          BY <4>2
      <3> QED
        BY <3>1, <3>2
    <2>4. Held(s) => Held(s)'
      BY <1>0, <2>1, <2>2, ManagerAssumption DEF Submissions
    <2> QED
      BY <1>p, <1>7, <2>3, <2>4 DEF Dequeue, history
  <1>8. ASSUME NEW t \in Threads, Persist(t)
        PROVE  Queued(s)' \/ Held(s)' \/ (http'.id = s /\ http'.pc \in Submitting) \/ s \in lost'
    <2>1. CASE s = job[t]
      BY <1>0, <1>8, <2>1 DEF Persist, Outcome
    <2>2. CASE s # job[t]
      BY <1>0, <1>p, <1>8, <2>2 DEF Persist
    <2> QED
      BY <2>1, <2>2
  <1>9. ASSUME NEW t \in Threads, ThreadNext(t), ~Dequeue(t), ~Persist(t)
        PROVE  UNCHANGED <<table, queue, job, http, lost>>
    BY <1>9 DEF ThreadNext, Top, Leave, Doze, Sleep, ExecuteJob, RetriesExhausted,
                ProbeWorkersIfNeeded, HealthCheck, ApplyProbe, SelectFails, Dispatch,
                GiveUp, Release, FailOver, managerVars, history
  <1>10. CASE Shutdown \/ WorkerNext \/ Quiet \/ UNCHANGED vars
              \/ \E e \in Endpoints : RegisterWorker(e)
    BY <1>1, <1>10 DEF Shutdown, WorkerNext, Answer, Crash, Start, Quiet, RegisterWorker,
                       vars, managerVars, threadVars, history
  <1> QED
    BY <1>1, <1>2, <1>3, <1>4, <1>5, <1>6, <1>7, <1>8, <1>9, <1>10 DEF Next, HttpNext
-----------------------------------------------------------------------------
LEMMA IInvInit == Init => IInv
  <1> SUFFICES ASSUME Init PROVE IInv
    OBVIOUS
  <1> USE ManagerAssumption
  <1>1. BalancerTypeOK
    <2>1. nodes \in Seq(WorkerNode) /\ Len(nodes) \in Nat
      BY InitEffect, LenProperties DEF Init
    <2>2. nodes # <<>> => Len(nodes) \in Nat \ {0}
      BY <2>1, EmptySeq
    <2> QED
      BY <2>1, <2>2 DEF Init, BalancerInit, BalancerTypeOK
  <1>2. ManagerTypes
    BY EmptySeq DEF Init, ManagerTypes, HttpLabels
  <1>3. ThreadTypes
    BY DEF Init, ThreadTypes, Labels, Replies
  <1>4. RegistryTypes
    <2>1. 0 \in 0..Len(nodes) /\ <<>> \in Seq(Endpoints)
      BY <1>1, LenProperties, EmptySeq DEF BalancerTypeOK
    <2> QED
      BY <2>1 DEF Init, RegistryTypes, NoProbe
  <1>5. WorkerTypes
    <2>1. <<>> \in Seq(Request)
      BY EmptySeq
    <2> QED
      BY <2>1 DEF Init, WorkerTypes, Request
  <1>6. TypeOK
    BY <1>1, <1>2, <1>3, <1>4, <1>5, TypeForm
  <1>7. ThreadShape /\ ProbeShape
    BY DEF Init, ThreadShape, ProbeShape, Working, Attempting
  <1>8. Places
    BY DEF Init, Places, Submitting
  <1>9. Connections
    BY DEF Init, Connections
  <1>10. RepliesEarned /\ VerdictsEarned /\ Wakeful /\ Accounted
    BY DEF Init, RepliesEarned, VerdictsEarned, Wakeful, Accounted
  <1> QED
    BY <1>6, <1>7, <1>8, <1>9, <1>10 DEF IInv

LEMMA IInvStep == IInv /\ [Next]_vars => IInv'
  <1> SUFFICES ASSUME IInv, [Next]_vars PROVE IInv'
    OBVIOUS
  <1>1. TypeOK'
    <2>1. /\ BalancerTypeOK' /\ ManagerTypes' /\ ThreadTypes' /\ RegistryTypes' /\ WorkerTypes'
      BY Registry, ManagerTypesStep, ThreadTypesStep, RegistryTypesStep, WorkerTypesStep DEF IInv
    <2> QED
      BY <2>1 DEF TypeOK, ManagerTypes, ThreadTypes, RegistryTypes, WorkerTypes
  <1> QED
    BY <1>1, ThreadShapeStep, ProbeShapeStep, PlacesStep, ConnectionsStep, RepliesStep,
       VerdictsStep, WakefulStep, AccountedStep DEF IInv

(* The inductive invariant holds in every reachable state of the pipeline.  *)
THEOREM IInvHolds == Spec => []IInv
  BY IInvInit, IInvStep, PTL DEF Spec

(* Type correctness: in particular no thread starts more than retry_count   *)
(* attempts (ExecuteJob), writes to row 0, or posts to a node that is not   *)
(* there.                                                                   *)
THEOREM TypeCorrect == Spec => []TypeOK
  <1>1. IInv => TypeOK
    BY DEF IInv
  <1> QED
    BY <1>1, IInvHolds, PTL

(* A submission is in one place at a time and jobs are taken in order,      *)
(* although submit looks at running_ outside the lock and any number of     *)
(* threads take from queue_.                                                *)
THEOREM JobsInOnePlace == Spec => []OnePlace
  <1>1. IInv => OnePlace
    <2> SUFFICES ASSUME IInv PROVE OnePlace
      OBVIOUS
    <2>0. job \in [Threads -> 0..MaxSubmissions] /\ Places
      BY TypeForm DEF IInv, ThreadTypes
    <2>1. \A k, l \in DOMAIN queue : queue[k] = queue[l] => k = l
      BY <2>0, QueueFacts DEF Places, Submissions
    <2>2. \A t, u \in Threads : job[t] = job[u] /\ job[t] # 0 => t = u
      BY <2>0 DEF Places
    <2>3. ASSUME NEW s \in Submissions, Queued(s) \/ Held(s)
          PROVE  ~(Queued(s) /\ Held(s)) /\ table[s] = "pending"
      BY <2>0, <2>3, QueueFacts, ManagerAssumption DEF Places, Queued, Held, Submissions
    <2>4. TakenInOrder
      BY <2>0 DEF Places, TakenInOrder, Queued
    <2> QED
      BY <2>1, <2>2, <2>3, <2>4 DEF OnePlace
  <1> QED
    BY <1>1, IInvHolds, PTL

(* A verdict in the table was computed for that submission: an answer that  *)
(* comes after its time-out is never credited to the thread's next job.     *)
THEOREM EveryVerdictEarned == Spec => []VerdictsEarned
  <1>1. IInv => VerdictsEarned
    BY DEF IInv
  <1> QED
    BY <1>1, IInvHolds, PTL

(* ProbeWorkersIfNeeded marks the worker it has probed, whatever registers  *)
(* between the snapshot and the mark.                                       *)
THEOREM ProbesMarkProbed == Spec => []ProbeMarksProbed
  <1>1. IInv => ProbeMarksProbed
    BY DEF IInv, ProbeShape, ProbeMarksProbed
  <1> QED
    BY <1>1, IInvHolds, PTL

(* No accepted job is lost: time-outs, retries, crashes of workers and a    *)
(* shutdown leave every pending row with an owner, and until the shutdown   *)
(* no job is queued with every judge thread asleep.  A row is set aside     *)
(* only when its INSERT or UPDATE was answered with an error: the handler   *)
(* (submission_handler.cpp:174) and the thread (judge_manager.cpp:133)      *)
(* leave it as it is.                                                       *)
THEOREM NoPendingRowForgotten == Spec => []NoRowForgotten
  <1>1. IInv => NoRowForgotten
    <2> SUFFICES ASSUME IInv, NEW s \in Submissions, table[s] = "pending", Queued(s), running
                 PROVE  Attended
      BY DEF IInv, Accounted, NoRowForgotten, Submitting
    <2>1. queue # <<>>
      BY DEF Queued
    <2> QED
      BY <2>1 DEF IInv, Wakeful
  <1> QED
    BY <1>1, IInvHolds, PTL

(* A final row is never written again, whatever answers arrive late.        *)
THEOREM FinalRowsNeverChange == Spec => FinalRowsStay
  <1>1. IInv /\ [Next]_vars =>
          [\A s \in Submissions : table[s] \in Final => table'[s] = table[s]]_vars
    <2> SUFFICES ASSUME IInv, [Next]_vars, NEW s \in Submissions, table[s] \in Final
                 PROVE  table'[s] = table[s]
      OBVIOUS
    <2>0. /\ table \in [Submissions -> {"absent", "pending"} \cup Final]
          /\ http \in [pc : HttpLabels, id : 0..MaxSubmissions]
      BY TypeForm DEF IInv, ManagerTypes
    <2>1. CASE Create \/ CreateThrows
      BY <2>0, <2>1 DEF Create, CreateThrows, IInv, Places, Final
    <2>2. CASE SubmitRefused
      BY <2>0, <2>2 DEF SubmitRefused, IInv, Places, Submitting, Final
    <2>3. ASSUME NEW t \in Threads, Persist(t) PROVE table'[s] = table[s]
      <3>1. job[t] # 0
        BY <2>3 DEF Persist, IInv, ThreadShape, Working
      <3>2. job[t] # s
        BY <3>1 DEF IInv, Places, Final
      <3> QED
        BY <2>0, <2>3, <3>2 DEF Persist
    <2>4. ASSUME NEW t \in Threads, ThreadNext(t), ~Persist(t)
          PROVE  UNCHANGED table
      BY <2>4 DEF ThreadNext, Top, Dequeue, Leave, Doze, Sleep, ExecuteJob,
                  RetriesExhausted, ProbeWorkersIfNeeded, HealthCheck, ApplyProbe,
                  SelectFails, Dispatch, GiveUp, Release, FailOver, managerVars
    <2>5. ASSUME HttpNext \/ Shutdown \/ WorkerNext \/ Quiet \/ UNCHANGED vars,
                 ~Create, ~CreateThrows, ~SubmitRefused
          PROVE  UNCHANGED table
      BY <2>5 DEF HttpNext, SubmitCheck, SubmitPush, SubmitNotify, RegisterWorker,
                  Shutdown, WorkerNext, Answer, Crash, Start, Quiet, vars, managerVars
    <2> QED
      BY <2>1, <2>2, <2>3, <2>4, <2>5 DEF Next
  <1> QED
    BY <1>1, IInvHolds, PTL DEF Spec, FinalRowsStay
=============================================================================
