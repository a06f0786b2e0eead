------------------------- MODULE JudgeWorkerBalancer -------------------------
(***************************************************************************)
(* The worker registry and load balancer of the judge manager              *)
(* (judge_worker_balancer.h).  Every public method of the class takes the  *)
(* mutex mu_ for its whole body, so every method is one atomic action.     *)
(*                                                                         *)
(* The vector nodes_ is a sequence, so the ids of the model are the ids of *)
(* the code plus one, and next_worker likewise.  A node keeps of its       *)
(* configuration the endpoint (host and port) that SameEndpoint compares;  *)
(* the other fields (paths, time-out) decide nothing here.                 *)
(*                                                                         *)
(* holding[t] is the local variable `id' of JudgeManager::ExecuteRemotely  *)
(* on judge thread t between the selection of a worker and the release of  *)
(* its load: it is how the class is used, and what `load' is meant to      *)
(* count.                                                                  *)
(***************************************************************************)
EXTENDS Integers, Sequences, FiniteSets

CONSTANTS
    Threads,    \* the judge threads of the manager
    Endpoints,  \* host:port pairs of judge workers
    Bootstrap   \* workers of the configuration file, in order

ASSUME BalancerAssumption ==
    /\ IsFiniteSet(Threads)
    /\ Bootstrap \in Seq(Endpoints)
    /\ \A i, j \in 1..Len(Bootstrap) : Bootstrap[i] = Bootstrap[j] => i = j

VARIABLES
    nodes,        \* nodes_: sequence of worker nodes
    next_worker,  \* next_worker_ + 1: where the next scan starts
    holding       \* per thread: id of the worker whose load it holds, or 0

balancerVars == <<nodes, next_worker, holding>>

WorkerNode == [cfg : Endpoints, load : Nat, online : BOOLEAN]

Ids == 1..Len(nodes)

\* A freshly registered or refreshed node: no load, online.
NewNode(e) == [cfg |-> e, load |-> 0, online |-> TRUE]

\* Node i gets load l and flag o, and keeps its configuration.
SetNode(i, l, o) ==
    nodes' = [nodes EXCEPT ![i] = [cfg |-> nodes[i].cfg, load |-> l, online |-> o]]

\* The threads that selected node i and have not released it yet.
InFlight(i) == {t \in Threads : holding[t] = i}
-----------------------------------------------------------------------------
(***************************************************************************)
(* Selection.  The scan starts at next_worker_, skips offline nodes and    *)
(* keeps the first node of strictly lowest load.                           *)
(***************************************************************************)

\* The node visited at a given offset of the scan.
Visited(offset) == ((next_worker - 1 + offset) % Len(nodes)) + 1

\* Distance of node i from the start of the scan.
Offset(i) == IF i >= next_worker THEN i - next_worker
                                 ELSE i - next_worker + Len(nodes)

\* Mutant: the tie goes to the last node (<= for < in the loop).
IsBest_LastOnTie(i) ==
    /\ i \in Ids /\ nodes[i].online
    /\ \A j \in Ids \ {i} : nodes[j].online =>
          \/ nodes[i].load < nodes[j].load
          \/ nodes[i].load = nodes[j].load /\ Offset(i) > Offset(j)

\* What the scan returns: an online node of least load, the nearest to
\* next_worker_ among those.
IsBest(i) ==
    /\ i \in Ids /\ nodes[i].online
    /\ \A j \in Ids \ {i} : nodes[j].online =>
          \/ nodes[i].load < nodes[j].load
          \/ nodes[i].load = nodes[j].load /\ Offset(i) < Offset(j)

\* The loop of SelectWorker after k iterations: `best', or 0 for -1.
Scan[k \in 0..Len(nodes)] ==
    IF k = 0 THEN 0
    ELSE LET best == Scan[k - 1]
             i    == Visited(k - 1)
         IN  IF nodes[i].online /\ (best = 0 \/ nodes[i].load < nodes[best].load)
             THEN i ELSE best
-----------------------------------------------------------------------------
BalancerInit ==
    /\ nodes = [i \in 1..Len(Bootstrap) |-> NewNode(Bootstrap[i])]
    /\ next_worker = 1
    /\ holding = [t \in Threads |-> 0]

\* Mutant: a worker that registers again is moved to the end of the vector.
UpsertWorker_Reinsert(e) ==
    /\ nodes' = Append(SelectSeq(nodes, LAMBDA n : n.cfg # e), NewNode(e))
    /\ UNCHANGED <<next_worker, holding>>

\* Registration: the node of a known endpoint is reset (load 0, online), an
\* unknown endpoint is appended.  Nodes are never removed.
UpsertWorker(e) ==
    /\ IF \E i \in Ids : nodes[i].cfg = e
       THEN nodes' = [i \in Ids |-> IF nodes[i].cfg = e THEN NewNode(e)
                                                        ELSE nodes[i]]
       ELSE nodes' = Append(nodes, NewNode(e))
    /\ UNCHANGED <<next_worker, holding>>

\* Thread t takes the best node, counts itself on it and advances the start
\* of the next scan.
SelectWorker(t) ==
    /\ holding[t] = 0
    /\ \E best \in Ids :
          /\ IsBest(best)
          /\ SetNode(best, nodes[best].load + 1, nodes[best].online)
          /\ next_worker' = (best % Len(nodes)) + 1
          /\ holding' = [holding EXCEPT ![t] = best]

\* SelectWorker returns false: there is no online node.
NoneOnline == \A i \in Ids : ~nodes[i].online

\* Mutant: the release is forgotten.
ReleaseWorkerLoad_Forgotten(t) ==
    /\ holding[t] # 0
    /\ nodes[holding[t]].load <= Cardinality(Threads)
    /\ holding' = [holding EXCEPT ![t] = 0]
    /\ UNCHANGED <<nodes, next_worker>>

\* Thread t gives its load back; a load that was reset meanwhile stays 0.
ReleaseWorkerLoad(t) ==
    /\ holding[t] # 0
    /\ LET i == holding[t]
       IN  SetNode(i, IF nodes[i].load > 0 THEN nodes[i].load - 1 ELSE 0,
                   nodes[i].online)
    /\ holding' = [holding EXCEPT ![t] = 0]
    /\ UNCHANGED next_worker

\* A failed request or health check takes the node out and forgets its load.
MarkOffline(i) ==
    /\ i \in Ids
    /\ SetNode(i, 0, FALSE)
    /\ UNCHANGED <<next_worker, holding>>

\* A successful health check puts the node back with the load it has.
MarkOnline(i) ==
    /\ i \in Ids
    /\ SetNode(i, nodes[i].load, TRUE)
    /\ UNCHANGED <<next_worker, holding>>

BalancerNext ==
    \/ \E e \in Endpoints : UpsertWorker(e)
    \/ \E t \in Threads : SelectWorker(t) \/ ReleaseWorkerLoad(t)
    \/ \E i \in Ids : MarkOffline(i) \/ MarkOnline(i)

BalancerSpec == BalancerInit /\ [][BalancerNext]_balancerVars
-----------------------------------------------------------------------------
\* Type invariant: nodes_ holds worker nodes, next_worker_ indexes them and
\* every held id is the id of a node.
BalancerTypeOK ==
    /\ nodes \in Seq(WorkerNode)
    /\ next_worker \in 1..(IF nodes = <<>> THEN 1 ELSE Len(nodes))
    /\ holding \in [Threads -> 0..Len(nodes)]

\* UpsertWorker never registers an endpoint twice, however registrations,
\* selections and health marks interleave: the load of a worker is counted
\* on one node only.
DistinctEndpoints ==
    \A i, j \in Ids : nodes[i].cfg = nodes[j].cfg => i = j

\* The load of a node never exceeds the number of requests in flight on it,
\* although MarkOffline and UpsertWorker reset it under threads that release
\* it later: `load > 0' in ReleaseWorkerLoad never lets a stale release take
\* more than one count, and the 64-bit counter can neither wrap nor drift up.
LoadBound ==
    \A i \in Ids : nodes[i].load <= Cardinality(InFlight(i))

\* An offline node has no load.  This is what makes the check-then-act of
\* the health probe (GetWorker, then MarkOnline or MarkOffline, each under
\* its own lock) equivalent to one atomic step: repeating a mark changes
\* nothing.
OfflineUnloaded ==
    \A i \in Ids : ~nodes[i].online => nodes[i].load = 0

\* The registry counts the requests of each worker once, on one node, and
\* none for a worker that is offline.
RegistryInv == DistinctEndpoints /\ LoadBound /\ OfflineUnloaded

\* The scan loop of SelectWorker returns exactly the node IsBest describes,
\* and -1 exactly when no node is online.
ScanFindsBest ==
    LET best == Scan[Len(nodes)]
    IN  IF best = 0 THEN NoneOnline
                    ELSE IsBest(best) /\ \A i \in Ids : IsBest(i) => i = best

\* An id handed out by SelectWorker stays valid and keeps naming the same
\* endpoint: nodes are never removed or reordered, so ReleaseWorkerLoad and
\* MarkOffline, called with that id after an HTTP exchange without the lock,
\* act on the worker that served the request.
IdsStable ==
    [][/\ Len(nodes) <= Len(nodes')
       /\ \A i \in Ids : nodes'[i].cfg = nodes[i].cfg]_balancerVars
=============================================================================
