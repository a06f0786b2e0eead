------------------------------ MODULE MySqlPool ------------------------------
(***************************************************************************)
(* The MySQL connection pool (mysql_pool.cpp): a FIFO of idle connections, *)
(* a count of the connections that exist or are being opened, and a        *)
(* condition variable for clients that find neither an idle connection nor *)
(* a free slot.  Clients are the HTTP thread and the judge threads, each   *)
(* of which holds one connection at a time (a DAO method acquires one and  *)
(* returns it when its PooledMySqlConnection is destroyed).                *)
(*                                                                         *)
(* Everything between two releases of mu_ is one action.  Pinging and      *)
(* opening a connection happen without mu_ in Acquire, with it in Release. *)
(* A connection may die at any time, which only a ping finds out.          *)
(***************************************************************************)
EXTENDS Integers, Sequences, FiniteSets

CONSTANTS
    Clients,         \* threads that use the pool
    Conns,           \* MYSQL handles
    MaxConnections,  \* cfg_.pool.max_connections (0 is replaced by 1)
    SizeMax          \* largest value of std::size_t

ASSUME PoolAssumption ==
    /\ IsFiniteSet(Clients)
    /\ MaxConnections \in Nat \ {0}
    /\ SizeMax \in Nat /\ SizeMax > MaxConnections

VARIABLES
    idle,      \* idle_
    total,     \* total_
    shutdown,  \* shutdown_
    pc,        \* per client: where it is
    conn,      \* per client: the connection it pings or uses
    live       \* the connections that are open

vars == <<idle, total, shutdown, pc, conn, live>>

\* out: holds nothing.  waiting: on cv_.  woken: was notified and wants mu_.
\* ping, retry, connect: inside Acquire without mu_.  using: holds a
\* PooledMySqlConnection.
Labels == {"out", "waiting", "woken", "ping", "retry", "connect", "using"}

At(labels) == {c \in Clients : pc[c] \in labels}

Init ==
    /\ idle = <<>>
    /\ total = 0
    /\ shutdown = FALSE
    /\ pc = [c \in Clients |-> "out"]
    /\ conn = [c \in Clients |-> 0]
    /\ live = {}

\* --total_ on a std::size_t.
Decrement(n) == IF n = 0 THEN SizeMax ELSE n - 1

\* Client c goes to l; cv_.notify_one() wakes one of the waiting clients.
MoveAndNotify(c, l) ==
    IF At({"waiting"}) = {} THEN pc' = [pc EXCEPT ![c] = l]
    ELSE \E w \in At({"waiting"}) : pc' = [pc EXCEPT ![c] = l, ![w] = "woken"]

Move(c, l) == pc' = [pc EXCEPT ![c] = l]
-----------------------------------------------------------------------------
(***************************************************************************)
(* Acquire.  Its first stretch under mu_ has the same alternatives for a   *)
(* new call, for the recursive call after a dead connection and for a      *)
(* client woken inside the loop.                                           *)
(***************************************************************************)
Enters(c) == pc[c] \in {"out", "retry", "woken"}

AcquireThrows(c) ==
    /\ Enters(c) /\ shutdown
    /\ Move(c, "out")
    /\ UNCHANGED <<idle, total, shutdown, conn, live>>

AcquireWaits(c) ==
    /\ Enters(c) /\ ~shutdown
    /\ idle = <<>> /\ total >= MaxConnections
    /\ Move(c, "waiting")
    /\ UNCHANGED <<idle, total, shutdown, conn, live>>

AcquireIdle(c) ==
    /\ Enters(c) /\ ~shutdown
    /\ idle # <<>>
    /\ conn' = [conn EXCEPT ![c] = Head(idle)]
    /\ idle' = Tail(idle)
    /\ Move(c, "ping")
    /\ UNCHANGED <<total, shutdown, live>>

\* The slot is taken before the connection is opened.
AcquireNew(c) ==
    /\ Enters(c) /\ ~shutdown
    /\ idle = <<>> /\ total < MaxConnections
    /\ total' = total + 1
    /\ Move(c, "connect")
    /\ UNCHANGED <<idle, shutdown, conn, live>>

PingAlive(c) ==
    /\ pc[c] = "ping"
    /\ Move(c, "using")
    /\ UNCHANGED <<idle, total, shutdown, conn, live>>

\* Mutant: a dead connection keeps its slot.
PingDead_KeepSlot(c) ==
    /\ pc[c] = "ping"
    /\ live' = live \ {conn[c]}
    /\ conn' = [conn EXCEPT ![c] = 0]
    /\ Move(c, "retry")
    /\ UNCHANGED <<idle, total, shutdown>>

\* Mutant: the client gives up instead of calling Acquire again.
PingDead_GiveUp(c) ==
    /\ pc[c] = "ping"
    /\ live' = live \ {conn[c]}
    /\ conn' = [conn EXCEPT ![c] = 0]
    /\ total' = Decrement(total)
    /\ Move(c, "out")
    /\ UNCHANGED <<idle, shutdown>>

\* The dead connection is closed and its slot given back, without a
\* notification: the client calls Acquire again.
PingDead(c) ==
    /\ pc[c] = "ping"
    /\ live' = live \ {conn[c]}
    /\ conn' = [conn EXCEPT ![c] = 0]
    /\ total' = Decrement(total)
    /\ Move(c, "retry")
    /\ UNCHANGED <<idle, shutdown>>

ConnectSucceeds(c) ==
    /\ pc[c] = "connect"
    /\ \E k \in Conns \ live :
          /\ conn' = [conn EXCEPT ![c] = k]
          /\ live' = live \cup {k}
    /\ Move(c, "using")
    /\ UNCHANGED <<idle, total, shutdown>>

\* Mutant: the failure is passed on without waking a waiter.
ConnectFails_NoNotify(c) ==
    /\ pc[c] = "connect"
    /\ total' = Decrement(total)
    /\ Move(c, "out")
    /\ UNCHANGED <<idle, shutdown, conn, live>>

\* CreateConnection throws: the slot is given back, a waiter is woken and
\* the exception passed on.
ConnectFails(c) ==
    /\ pc[c] = "connect"
    /\ total' = Decrement(total)
    /\ MoveAndNotify(c, "out")
    /\ UNCHANGED <<idle, shutdown, conn, live>>
-----------------------------------------------------------------------------
(***************************************************************************)
(* Release and Shutdown, each wholly under mu_.                            *)
(***************************************************************************)

\* Mutant: the connection goes back to the pool although it is shut down.
ReleaseClosed_KeepIdle(c) ==
    /\ pc[c] = "using" /\ shutdown
    /\ idle' = Append(idle, conn[c])
    /\ conn' = [conn EXCEPT ![c] = 0]
    /\ Move(c, "out")
    /\ UNCHANGED <<total, shutdown, live>>

\* After Shutdown the connection is closed.
ReleaseClosed(c) ==
    /\ pc[c] = "using" /\ shutdown
    /\ live' = live \ {conn[c]}
    /\ conn' = [conn EXCEPT ![c] = 0]
    /\ Move(c, "out")
    /\ UNCHANGED <<idle, total, shutdown>>

\* The ping fails: the connection is closed and its slot given back.
ReleaseDead(c) ==
    /\ pc[c] = "using" /\ ~shutdown
    /\ live' = live \ {conn[c]}
    /\ conn' = [conn EXCEPT ![c] = 0]
    /\ total' = IF total > 0 THEN total - 1 ELSE total
    /\ MoveAndNotify(c, "out")
    /\ UNCHANGED <<idle, shutdown>>

\* Mutant: the client keeps its handle after returning it.
ReleaseAlive_KeepHandle(c) ==
    /\ pc[c] = "using" /\ ~shutdown
    /\ idle' = Append(idle, conn[c])
    /\ UNCHANGED <<conn, pc, total, shutdown, live>>

ReleaseAlive(c) ==
    /\ pc[c] = "using" /\ ~shutdown
    /\ idle' = Append(idle, conn[c])
    /\ conn' = [conn EXCEPT ![c] = 0]
    /\ MoveAndNotify(c, "out")
    /\ UNCHANGED <<total, shutdown, live>>

\* Idle connections are closed, the count is zeroed, every waiter is woken.
Shutdown ==
    /\ ~shutdown
    /\ shutdown' = TRUE
    /\ live' = live \ {idle[k] : k \in DOMAIN idle}
    /\ idle' = <<>>
    /\ total' = 0
    /\ pc' = [c \in Clients |-> IF pc[c] = "waiting" THEN "woken" ELSE pc[c]]
    /\ UNCHANGED conn
-----------------------------------------------------------------------------
Acquire(c) ==
    \/ AcquireThrows(c) \/ AcquireWaits(c) \/ AcquireIdle(c) \/ AcquireNew(c)
    \/ PingAlive(c) \/ PingDead(c) \/ ConnectSucceeds(c) \/ ConnectFails(c)

Release(c) == ReleaseClosed(c) \/ ReleaseDead(c) \/ ReleaseAlive(c)

Next == Shutdown \/ \E c \in Clients : Acquire(c) \/ Release(c)

Spec == Init /\ [][Next]_vars

\* A call of Acquire that was begun goes on when it can, and a client gives
\* back what it holds when its DAO method returns.  New calls and Shutdown
\* are up to the program.
FairSpec ==
    /\ Spec
    /\ \A c \in Clients : /\ WF_vars(pc[c] # "out" /\ Acquire(c))
                          /\ WF_vars(Release(c))
-----------------------------------------------------------------------------
\* Connections in the hands of a client.
Holders == At({"ping", "using"})

\* Clients that hold a connection or a slot for one.
Busy == At({"ping", "using", "connect"})

\* Type invariant.
TypeOK ==
    /\ idle \in Seq(Conns)
    /\ total \in 0..SizeMax
    /\ shutdown \in BOOLEAN
    /\ pc \in [Clients -> Labels]
    /\ conn \in [Clients -> Conns \cup {0}]
    /\ live \subseteq Conns

\* Until Shutdown, total_ counts exactly the idle connections and the
\* clients that hold a connection or are opening one, through every dead
\* connection, failed connect and retry.
Accounting == ~shutdown => total = Len(idle) + Cardinality(Busy)

\* The pool never has more than max_connections connections open, and none
\* is opened above the limit in the races with Shutdown, whose total_ = 0
\* forgets the connections in use.
LiveBound == Cardinality(live) <= MaxConnections

\* total_ never counts wrong, nor does it let too many connections open.
PoolInv == TypeOK /\ Accounting /\ LiveBound

\* Every open connection has one owner, the idle queue or one client, and
\* every owned one is open: no handle is used by two clients, closed twice,
\* used after it was closed, or leaked.
OneOwner ==
    /\ \A k, l \in DOMAIN idle : idle[k] = idle[l] => k = l
    /\ \A c, d \in Holders : conn[c] = conn[d] => c = d
    /\ \A c \in Holders, k \in DOMAIN idle : conn[c] # idle[k]
    /\ live = {idle[k] : k \in DOMAIN idle} \cup {conn[c] : c \in Holders}

\* No lost wake-up: while a client waits, the free capacity (idle
\* connections and unused slots) is no more than the clients that have been
\* woken or are about to call Acquire again will take.  A dead connection
\* found in Acquire gives its slot back without a notification; the retry of
\* the same client is what makes up for it.
NoLostWakeup ==
    ~shutdown /\ At({"waiting"}) # {} =>
        Len(idle) + MaxConnections - total <= Cardinality(At({"woken", "retry"}))

\* After Shutdown the pool drains: every client leaves, also those that were
\* waiting, and every connection is closed.
ShutdownDrains == shutdown ~> (live = {} /\ At(Labels \ {"out"}) = {})
=============================================================================
