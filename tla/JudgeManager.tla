----------------------------- MODULE JudgeManager -----------------------------
(***************************************************************************)
(* The judging pipeline: the submission handler of the HTTP thread puts a  *)
(* pending row in the submissions table and queues a job; the judge        *)
(* threads of JudgeManager take jobs, pick a worker from the balancer,     *)
(* POST the job, and write the outcome in the table.                       *)
(*                                                                         *)
(* Actors: the HTTP thread (one: the server runs its base loop only), the  *)
(* judge threads, the thread that shuts the manager down, and, as their    *)
(* environment, the judge worker processes.  One action per stretch of     *)
(* code between two accesses to shared state (a mutex section, an atomic,  *)
(* a socket, the database).                                                *)
(*                                                                         *)
(* A worker process serves its requests one after another (its HttpServer  *)
(* has no extra threads), so its sockets form a queue, `backlog', whose    *)
(* head is being judged.  A request whose client gave up stays in it: the  *)
(* worker reads and judges it all the same.                                *)
(***************************************************************************)
EXTENDS JudgeWorkerBalancer

CONSTANTS
    MaxSubmissions,  \* how many submissions users make
    RetryCount,      \* judge_cfg.retry_count
    ProbesEnabled,   \* health_check_interval_ms > 0
    Faults           \* what may go wrong: see AllFaults

\* db: a statement on the submissions table is answered with an error, and
\* may have been applied all the same.  slow: a request times out or is
\* answered with an error.  crash: a worker process dies.  shutdown:
\* JudgeManager::shutdown is called.
AllFaults == {"db", "slow", "crash", "shutdown"}

\* No judge thread: the holder of a free mu_, the client of a request that
\* was given up.
Nobody == "nobody"

ASSUME ManagerAssumption ==
    /\ MaxSubmissions \in Nat
    /\ RetryCount \in Nat
    /\ ProbesEnabled \in BOOLEAN
    /\ Faults \subseteq AllFaults
    /\ Threads # {} /\ Nobody \notin Threads

VARIABLES
    table,       \* status column of the submissions table, by id
    queue,       \* queue_
    mu,          \* the judge thread that holds mu_ while it goes to sleep
    running,     \* running_
    remote_mode, \* remote_mode_
    http,        \* the HTTP thread: [pc, id]
    pc,          \* per judge thread: where it is in worker_thread
    job,         \* per judge thread: submission id of its job, or 0
    attempt,     \* per judge thread: loop variable of ExecuteJob
    wid,         \* per judge thread: `id' in ExecuteRemotely
    reply,       \* per judge thread: what SendHttpJson returned
    probe,       \* per judge thread: progress of ProbeWorkersIfNeeded
    up,          \* per endpoint: the worker process runs
    backlog,     \* per endpoint: requests the worker has, oldest first
    judged,      \* submissions some worker has judged to the end (history)
    missed,      \* threads between predicate and wait at notify_all (history)
    lost         \* submissions a statement about which failed (history)

managerVars == <<table, queue, mu, running, remote_mode, http>>
threadVars == <<pc, job, attempt, wid, reply, probe>>
workerVars == <<up, backlog>>
history == <<judged, missed, lost>>
vars == <<balancerVars, managerVars, threadVars, workerVars, history>>

Submissions == 1..MaxSubmissions
Final == {"verdict", "system_error"}

\* What worker_thread makes of an exchange: a verdict in a well-formed body,
\* a body that is cut off, or no usable answer.
Replies == {"none", "verdict", "cut", "fail"}

NoProbe == [at |-> 0, cfgs |-> <<>>, healthy |-> FALSE]

\* The endpoint thread t talks to.
Worker(t) == nodes[wid[t]].cfg

Init ==
    /\ BalancerInit
    /\ table = [s \in Submissions |-> "absent"]
    /\ queue = <<>>
    /\ mu = Nobody
    /\ running = TRUE
    /\ remote_mode = (Bootstrap # <<>>)
    /\ http = [pc |-> "idle", id |-> 0]
    /\ pc = [t \in Threads |-> "top"]
    /\ job = [t \in Threads |-> 0]
    /\ attempt = [t \in Threads |-> 0]
    /\ wid = [t \in Threads |-> 0]
    /\ reply = [t \in Threads |-> "none"]
    /\ probe = [t \in Threads |-> NoProbe]
    /\ up = [e \in Endpoints |-> TRUE]
    /\ backlog = [e \in Endpoints |-> <<>>]
    /\ judged = {}
    /\ missed = {}
    /\ lost = {}

Goto(t, l) == pc' = [pc EXCEPT ![t] = l]
-----------------------------------------------------------------------------
(***************************************************************************)
(* The HTTP thread: POST /api/submissions and the registration of workers. *)
(***************************************************************************)

HttpGoto(l) == http' = [http EXCEPT !.pc = l]

\* SubmissionDao::Create inserts the row with status pending; ids grow.
Create ==
    /\ http.pc = "idle" /\ http.id < MaxSubmissions
    /\ http' = [pc |-> "submit", id |-> http.id + 1]
    /\ table' = [table EXCEPT ![http.id + 1] = "pending"]
    /\ UNCHANGED <<balancerVars, queue, mu, running, remote_mode, threadVars,
                   workerVars, history>>

\* The INSERT takes effect, but its answer is an error: the connection broke
\* first.  Create throws, the user is told 500, and no job is queued.  (An
\* INSERT that fails without effect changes nothing.)
CreateThrows ==
    /\ "db" \in Faults
    /\ http.pc = "idle" /\ http.id < MaxSubmissions
    /\ http' = [http EXCEPT !.id = @ + 1]
    /\ table' = [table EXCEPT ![http.id + 1] = "pending"]
    /\ lost' = lost \cup {http.id + 1}
    /\ UNCHANGED <<balancerVars, queue, mu, running, remote_mode, threadVars,
                   workerVars, judged, missed>>

\* JudgeManager::submit, before the lock: running_ is read.
SubmitCheck ==
    /\ http.pc = "submit"
    /\ HttpGoto(IF running THEN "push" ELSE "refused")
    /\ UNCHANGED <<balancerVars, table, queue, mu, running, remote_mode,
                   threadVars, workerVars, history>>

\* JudgeManager::submit, under the lock.
SubmitPush ==
    /\ http.pc = "push" /\ mu = Nobody
    /\ queue' = Append(queue, http.id)
    /\ HttpGoto("notify")
    /\ UNCHANGED <<balancerVars, table, mu, running, remote_mode, threadVars,
                   workerVars, history>>

\* Mutant: cv_.notify_one() is forgotten.
SubmitNotify_Forgotten ==
    /\ http.pc = "notify"
    /\ HttpGoto("idle")
    /\ UNCHANGED <<balancerVars, table, queue, mu, running, remote_mode,
                   threadVars, workerVars, history>>

\* cv_.notify_one(): some sleeping thread, if there is one, wakes up.
SubmitNotify ==
    /\ http.pc = "notify"
    /\ HttpGoto("idle")
    /\ IF \E t \in Threads : pc[t] = "asleep"
       THEN \E t \in Threads : pc[t] = "asleep" /\ Goto(t, "lock")
       ELSE UNCHANGED pc
    /\ UNCHANGED <<balancerVars, table, queue, mu, running, remote_mode, job,
                   attempt, wid, reply, probe, workerVars, history>>

\* submit returned false: the handler writes system_error itself (503).
\* When the statement fails (500) the row may or may not be written.
SubmitRefused ==
    /\ http.pc = "refused"
    /\ HttpGoto("idle")
    /\ \/ /\ table' = [table EXCEPT ![http.id] = "system_error"]
          /\ lost' = lost \/ ("db" \in Faults /\ lost' = lost \cup {http.id})
       \/ /\ "db" \in Faults
          /\ UNCHANGED table
          /\ lost' = lost \cup {http.id}
    /\ UNCHANGED <<balancerVars, queue, mu, running, remote_mode, threadVars,
                   workerVars, judged, missed>>

\* POST /api/judge/workers/register by a running worker process.  A judge
\* thread that reads remote_mode_ between the two assignments behaves as if
\* it had read it before both.
RegisterWorker(e) ==
    /\ http.pc = "idle" /\ up[e]
    /\ UpsertWorker(e)
    /\ remote_mode' = TRUE
    /\ UNCHANGED <<table, queue, mu, running, http, threadVars, workerVars, history>>
-----------------------------------------------------------------------------
(***************************************************************************)
(* shutdown: running_ is cleared and the sleepers are woken, both without  *)
(* mu_.  A thread that found the queue empty and running_ set, and has not *)
(* yet gone to sleep, misses the wake-up.                                  *)
(***************************************************************************)
Shutdown ==
    /\ "shutdown" \in Faults /\ running
    /\ running' = FALSE
    /\ pc' = [t \in Threads |-> IF pc[t] = "asleep" THEN "lock" ELSE pc[t]]
    /\ missed' = {t \in Threads : pc[t] = "dozing"}
    /\ UNCHANGED <<balancerVars, table, queue, mu, remote_mode, http, job,
                   attempt, wid, reply, probe, workerVars, judged, lost>>
-----------------------------------------------------------------------------
(***************************************************************************)
(* A judge thread: worker_thread.                                          *)
(***************************************************************************)

\* while (running_)
Top(t) ==
    /\ pc[t] = "top"
    /\ Goto(t, IF running THEN "lock" ELSE "exited")
    /\ UNCHANGED <<balancerVars, managerVars, job, attempt, wid, reply, probe,
                   workerVars, history>>

\* Mutant: the job is read from the front but not popped.
Dequeue_NoPop(t) ==
    /\ pc[t] = "lock" /\ mu = Nobody /\ queue # <<>>
    /\ job' = [job EXCEPT ![t] = Head(queue)]
    /\ Goto(t, "execute")
    /\ UNCHANGED <<balancerVars, managerVars, attempt, wid, reply, probe,
                   workerVars, history>>

\* Mutant: the job is popped but not kept, as if the thread left the block
\* on a spurious wake-up.
Dequeue_Lost(t) ==
    /\ pc[t] = "lock" /\ mu = Nobody /\ queue # <<>>
    /\ queue' = Tail(queue)
    /\ Goto(t, "top")
    /\ UNCHANGED <<balancerVars, table, mu, running, remote_mode, http, job,
                   attempt, wid, reply, probe, workerVars, history>>

\* Under mu_: there is a job, whether or not the manager is shutting down.
Dequeue(t) ==
    /\ pc[t] = "lock" /\ mu = Nobody /\ queue # <<>>
    /\ job' = [job EXCEPT ![t] = Head(queue)]
    /\ queue' = Tail(queue)
    /\ Goto(t, "execute")
    /\ UNCHANGED <<balancerVars, table, mu, running, remote_mode, http, attempt,
                   wid, reply, probe, workerVars, history>>

\* Under mu_: no job and no more to come.
Leave(t) ==
    /\ pc[t] = "lock" /\ mu = Nobody /\ queue = <<>> /\ ~running
    /\ Goto(t, "exited")
    /\ UNCHANGED <<balancerVars, managerVars, job, attempt, wid, reply, probe,
                   workerVars, history>>

\* Under mu_: the predicate of cv_.wait is false; mu_ is kept until the
\* thread is on the condition variable.
Doze(t) ==
    /\ pc[t] = "lock" /\ mu = Nobody /\ queue = <<>> /\ running
    /\ mu' = t
    /\ Goto(t, "dozing")
    /\ UNCHANGED <<balancerVars, table, queue, running, remote_mode, http, job,
                   attempt, wid, reply, probe, workerVars, history>>

Sleep(t) ==
    /\ pc[t] = "dozing"
    /\ mu' = Nobody
    /\ Goto(t, "asleep")
    /\ UNCHANGED <<balancerVars, table, queue, running, remote_mode, http, job,
                   attempt, wid, reply, probe, workerVars, history>>

\* ExecuteJob: without a worker ever registered the job fails at once.
ExecuteJob(t) ==
    /\ pc[t] = "execute"
    /\ attempt' = [attempt EXCEPT ![t] = 0]
    /\ reply' = [reply EXCEPT ![t] = "none"]
    /\ Goto(t, IF remote_mode THEN "attempt" ELSE "persist")
    /\ UNCHANGED <<balancerVars, managerVars, job, wid, probe, workerVars, history>>

\* The loop of ExecuteJob ends without an answer.
RetriesExhausted(t) ==
    /\ pc[t] = "attempt" /\ attempt[t] >= RetryCount
    /\ Goto(t, "persist")
    /\ UNCHANGED <<balancerVars, managerVars, job, attempt, wid, reply, probe,
                   workerVars, history>>

\* Mutant: the loop of ExecuteJob runs once too often (<= for <).
ProbeWorkersIfNeeded_OffByOne(t) ==
    /\ pc[t] = "attempt" /\ attempt[t] <= RetryCount
    /\ Goto(t, "select")
    /\ UNCHANGED <<balancerVars, managerVars, job, attempt, wid, reply, probe,
                   workerVars, history>>

\* ProbeWorkersIfNeeded: either the interval has not elapsed, or this thread
\* takes a snapshot of the registry and probes its workers in order.  The
\* clock is left out; last_health_probe_ is read and written by all threads
\* without a lock, so any number of them may find the probe due.
ProbeWorkersIfNeeded(t) ==
    /\ pc[t] = "attempt" /\ attempt[t] < RetryCount
    /\ \/ Goto(t, "select") /\ UNCHANGED probe
       \/ /\ ProbesEnabled /\ nodes # <<>>
          /\ probe' = [probe EXCEPT ![t] =
                [at |-> 1, cfgs |-> [i \in Ids |-> nodes[i].cfg], healthy |-> FALSE]]
          /\ Goto(t, "probe")
    /\ UNCHANGED <<balancerVars, managerVars, job, attempt, wid, reply,
                   workerVars, history>>

\* GET /healthz, without a lock.  A dead worker does not answer; a worker
\* that is judging answers only when it has finished, which may be too late.
HealthCheck(t) ==
    LET e == probe[t].cfgs[probe[t].at]
    IN  /\ pc[t] = "probe"
        /\ \E healthy \in BOOLEAN :
              /\ healthy => up[e]
              /\ ~healthy => ~up[e] \/ ("slow" \in Faults /\ backlog[e] # <<>>)
              /\ probe' = [probe EXCEPT ![t].healthy = healthy]
        /\ Goto(t, "mark")
        /\ UNCHANGED <<balancerVars, managerVars, job, attempt, wid, reply,
                       workerVars, history>>

\* The result of the probe is applied to the node as it is now, and the next
\* node of the snapshot is probed.  GetWorker and the mark are two lock
\* sections; OfflineUnloaded makes them equivalent to one.
ApplyProbe(t) ==
    LET i == probe[t].at
    IN  /\ pc[t] = "mark"
        /\ IF probe[t].healthy = nodes[i].online THEN UNCHANGED balancerVars
           ELSE IF probe[t].healthy THEN MarkOnline(i) ELSE MarkOffline(i)
        /\ IF i < Len(probe[t].cfgs)
           THEN /\ probe' = [probe EXCEPT ![t].at = i + 1, ![t].healthy = FALSE]
                /\ Goto(t, "probe")
           ELSE /\ probe' = [probe EXCEPT ![t] = NoProbe]
                /\ Goto(t, "select")
        /\ UNCHANGED <<managerVars, job, attempt, wid, reply, workerVars, history>>

\* SelectWorker finds no online worker; after a pause the loop goes on.
SelectFails(t) ==
    /\ pc[t] = "select" /\ NoneOnline
    /\ attempt' = [attempt EXCEPT ![t] = @ + 1]
    /\ Goto(t, "attempt")
    /\ UNCHANGED <<balancerVars, managerVars, job, wid, reply, probe, workerVars,
                   history>>

\* SelectWorker returns a worker and the request is sent to it: it joins the
\* worker's backlog, or the connection is refused.
Dispatch(t) ==
    /\ pc[t] = "select"
    /\ SelectWorker(t)
    /\ wid' = [wid EXCEPT ![t] = holding'[t]]
    /\ LET e == nodes[holding'[t]].cfg
       IN  IF up[e]
           THEN /\ backlog' = [backlog EXCEPT ![e] = Append(@, [id |-> job[t], conn |-> t])]
                /\ Goto(t, "sent") /\ UNCHANGED reply
           ELSE /\ Goto(t, "release")
                /\ reply' = [reply EXCEPT ![t] = "fail"]
                /\ UNCHANGED backlog
    /\ UNCHANGED <<managerVars, job, attempt, probe, up, history>>

\* Mutant: the connection of a request that timed out stays open.
GiveUp_KeepConnection(t) ==
    /\ pc[t] = "sent"
    /\ "slow" \in Faults
    /\ reply' = [reply EXCEPT ![t] = "fail"]
    /\ Goto(t, "release")
    /\ UNCHANGED <<balancerVars, managerVars, job, attempt, wid, probe,
                   workerVars, history>>

\* SendHttpJson returns false, or a status other than 200: the read timed
\* out, the worker died or answered with an error.  The socket is closed; a
\* request the worker already has stays in its backlog without a client.
GiveUp(t) ==
    LET e == Worker(t)
    IN  /\ pc[t] = "sent"
        /\ "slow" \in Faults \/ \A k \in DOMAIN backlog[e] : backlog[e][k].conn # t
        /\ backlog' = [backlog EXCEPT ![e] = [k \in DOMAIN backlog[e] |->
              IF backlog[e][k].conn = t THEN [backlog[e][k] EXCEPT !.conn = Nobody]
                                        ELSE backlog[e][k]]]
        /\ reply' = [reply EXCEPT ![t] = "fail"]
        /\ Goto(t, "release")
        /\ UNCHANGED <<balancerVars, managerVars, job, attempt, wid, probe, up, history>>

\* Mutant: the thread forgets its worker without giving the load back.
Release_Forgotten(t) ==
    /\ pc[t] = "release"
    /\ holding' = [holding EXCEPT ![t] = 0]
    /\ Goto(t, IF reply[t] = "fail" THEN "offline" ELSE "persist")
    /\ UNCHANGED <<nodes, next_worker, managerVars, job, attempt, wid, reply,
                   probe, workerVars, history>>

\* ReleaseWorkerLoad(id), in either case.
Release(t) ==
    /\ pc[t] = "release"
    /\ ReleaseWorkerLoad(t)
    /\ Goto(t, IF reply[t] = "fail" THEN "offline" ELSE "persist")
    /\ UNCHANGED <<managerVars, job, attempt, wid, reply, probe, workerVars, history>>

\* Mutant: the retry counter is not advanced.
FailOver_NoCount(t) ==
    /\ pc[t] = "offline"
    /\ MarkOffline(wid[t])
    /\ reply' = [reply EXCEPT ![t] = "none"]
    /\ Goto(t, "attempt")
    /\ UNCHANGED <<managerVars, job, attempt, wid, probe, workerVars, history>>

\* MarkOffline(id), the pause and the next iteration of ExecuteJob.
FailOver(t) ==
    /\ pc[t] = "offline"
    /\ MarkOffline(wid[t])
    /\ attempt' = [attempt EXCEPT ![t] = @ + 1]
    /\ reply' = [reply EXCEPT ![t] = "none"]
    /\ Goto(t, "attempt")
    /\ UNCHANGED <<managerVars, job, wid, probe, workerVars, history>>

\* What UpdateResult is called with: the status of a well-formed answer, or
\* system_error.
Outcome(t) == IF reply[t] = "verdict" THEN "verdict" ELSE "system_error"

\* SubmissionDao::UpdateResult.  A cut body is parsed in vain, and then the
\* JSON column result_json refuses it: the statement throws, the exception
\* is logged, and the row stays as it is.  Any other statement may fail too,
\* before or after it took effect.
Persist(t) ==
    /\ pc[t] = "persist"
    /\ \/ /\ reply[t] # "cut"
          /\ table' = [table EXCEPT ![job[t]] = Outcome(t)]
          /\ lost' = lost \/ ("db" \in Faults /\ lost' = lost \cup {job[t]})
       \/ /\ reply[t] = "cut" \/ "db" \in Faults
          /\ UNCHANGED table
          /\ lost' = lost \cup {job[t]}
    /\ job' = [job EXCEPT ![t] = 0]
    /\ attempt' = [attempt EXCEPT ![t] = 0]
    /\ wid' = [wid EXCEPT ![t] = 0]
    /\ reply' = [reply EXCEPT ![t] = "none"]
    /\ Goto(t, "top")
    /\ UNCHANGED <<balancerVars, queue, mu, running, remote_mode, http, probe,
                   workerVars, judged, missed>>
-----------------------------------------------------------------------------
(***************************************************************************)
(* The worker processes.                                                   *)
(***************************************************************************)

\* The worker finishes the request at the head of its backlog and writes the
\* response; if the client is gone the response is dropped.
Answer(e) ==
    /\ up[e] /\ backlog[e] # <<>>
    /\ backlog' = [backlog EXCEPT ![e] = Tail(@)]
    /\ judged' = judged \cup {Head(backlog[e]).id}
    /\ LET t == Head(backlog[e]).conn
       IN  IF t # Nobody /\ pc[t] = "sent"
           THEN /\ reply' = [reply EXCEPT ![t] = "verdict"]
                /\ Goto(t, "release")
           ELSE UNCHANGED <<reply, pc>>
    /\ UNCHANGED <<balancerVars, managerVars, job, attempt, wid, probe, up, missed, lost>>

\* The process dies with everything it had accepted.  If it was writing the
\* response to its current client, that client may see the head of a 200
\* response and the end of the stream: SendHttpJson takes what it has, for
\* it does not compare the body with its Content-Length.
Crash(e) ==
    /\ "crash" \in Faults /\ up[e]
    /\ up' = [up EXCEPT ![e] = FALSE]
    /\ backlog' = [backlog EXCEPT ![e] = <<>>]
    /\ \/ UNCHANGED <<reply, pc>>
       \/ /\ backlog[e] # <<>>
          /\ \E t \in Threads : /\ Head(backlog[e]).conn = t
                                /\ reply' = [reply EXCEPT ![t] = "cut"]
                                /\ Goto(t, "release")
    /\ UNCHANGED <<balancerVars, managerVars, job, attempt, wid, probe, history>>

\* The process is started again (it then registers: RegisterWorker).
Start(e) ==
    /\ ~up[e]
    /\ up' = [up EXCEPT ![e] = TRUE]
    /\ UNCHANGED <<balancerVars, managerVars, threadVars, backlog, history>>
-----------------------------------------------------------------------------
HttpNext ==
    \/ Create \/ CreateThrows
    \/ SubmitCheck \/ SubmitPush \/ SubmitNotify \/ SubmitRefused
    \/ \E e \in Endpoints : RegisterWorker(e)

ThreadNext(t) ==
    \/ Top(t) \/ Dequeue(t) \/ Leave(t) \/ Doze(t) \/ Sleep(t)
    \/ ExecuteJob(t) \/ RetriesExhausted(t) \/ ProbeWorkersIfNeeded(t)
    \/ HealthCheck(t) \/ ApplyProbe(t) \/ SelectFails(t) \/ Dispatch(t)
    \/ GiveUp(t) \/ Release(t) \/ FailOver(t) \/ Persist(t)

WorkerNext == \E e \in Endpoints : Answer(e) \/ Crash(e) \/ Start(e)

\* Everything has been submitted and every thread is asleep or gone.
Quiet ==
    /\ http.pc = "idle" /\ http.id = MaxSubmissions
    /\ \A t \in Threads : pc[t] \in {"asleep", "exited"}
    /\ UNCHANGED vars

Next == HttpNext \/ Shutdown \/ (\E t \in Threads : ThreadNext(t)) \/ WorkerNext \/ Quiet

Spec == Init /\ [][Next]_vars

\* Every thread that can take a step eventually does: the operating system
\* schedules threads, mu_ is held for a bounded time only, and a request
\* ends at the latest when SO_RCVTIMEO expires (GiveUp).  Users, workers
\* and the caller of shutdown owe nothing.
Fairness ==
    /\ WF_vars(SubmitCheck \/ SubmitPush \/ SubmitNotify \/ SubmitRefused)
    /\ \A t \in Threads : WF_vars(ThreadNext(t))

FairSpec == Spec /\ Fairness
-----------------------------------------------------------------------------
Labels == {"top", "lock", "dozing", "asleep", "exited", "execute", "attempt",
           "probe", "mark", "select", "sent", "release", "offline", "persist"}
HttpLabels == {"idle", "submit", "push", "notify", "refused"}

\* Type invariant.
TypeOK ==
    /\ BalancerTypeOK
    /\ table \in [Submissions -> {"absent", "pending"} \cup Final]
    /\ queue \in Seq(Submissions)
    /\ mu \in Threads \cup {Nobody}
    /\ running \in BOOLEAN /\ remote_mode \in BOOLEAN
    /\ http \in [pc : HttpLabels, id : 0..MaxSubmissions]
    /\ pc \in [Threads -> Labels]
    /\ job \in [Threads -> 0..MaxSubmissions]
    /\ attempt \in [Threads -> 0..RetryCount]
    /\ wid \in [Threads -> 0..Len(nodes)]
    /\ reply \in [Threads -> Replies]
    /\ probe \in [Threads -> [at : 0..Len(nodes), cfgs : Seq(Endpoints), healthy : BOOLEAN]]
    /\ up \in [Endpoints -> BOOLEAN]
    /\ backlog \in [Endpoints -> Seq([id : Submissions, conn : Threads \cup {Nobody}])]
    /\ judged \subseteq Submissions
    /\ missed \subseteq Threads
    /\ lost \subseteq Submissions

Queued(s) == \E k \in DOMAIN queue : queue[k] = s
Held(s) == \E t \in Threads : job[t] = s

\* Jobs are taken in the order of their submission: when a job has left the
\* queue, no earlier one is still in it.
TakenInOrder ==
    \A s \in Submissions, t \in Threads :
        Queued(s) /\ job[t] # 0 => job[t] < s

\* A submission is in one place at a time: at most once in the queue, with
\* at most one judge thread, never in both, and no longer in either once its
\* row is final.  So no submission is judged by two threads, and no row is
\* written by two; and the queue is a queue.
OnePlace ==
    /\ \A k, l \in DOMAIN queue : queue[k] = queue[l] => k = l
    /\ \A t, u \in Threads : job[t] = job[u] /\ job[t] # 0 => t = u
    /\ \A s \in Submissions : Queued(s) \/ Held(s) =>
          /\ ~(Queued(s) /\ Held(s))
          /\ table[s] = "pending"
    /\ TakenInOrder

\* A verdict, or a system_error, is never overwritten: the client that saw
\* it polls no more.  The retry that follows a time-out races the late
\* answer of the first attempt; only one of the two reaches the table.
FinalRowsStay ==
    [][\A s \in Submissions : table[s] \in Final => table'[s] = table[s]]_vars

\* A row says `verdict' only when some worker judged that very submission to
\* the end: the answer to a request that was given up is never credited to
\* the job its thread took on later.
VerdictsEarned ==
    \A s \in Submissions : table[s] = "verdict" => s \in judged

\* The result of a health check marks the worker that was checked: the
\* probe works on a copy of the registry and marks by index, while workers
\* register and re-register.
ProbeMarksProbed ==
    \A t \in Threads : pc[t] \in {"probe", "mark"} =>
        nodes[probe[t].at].cfg = probe[t].cfgs[probe[t].at]

\* Somebody will look at the queue: the notification is still to come, or a
\* judge thread is neither asleep nor gone.
Attended == http.pc = "notify" \/ \E t \in Threads : pc[t] \notin {"asleep", "exited"}

\* A pending row is with the HTTP thread, with a judge thread, or in the
\* queue; and while the manager runs, no job is queued with every thread
\* asleep.  So no accepted job gets lost in time-outs, retries,
\* registrations, crashes of workers or a shutdown.  Left out are the rows
\* whose INSERT or UPDATE was answered with an error (lost): the code tells
\* an error, drops the job and never looks at the row again.  After a
\* shutdown, jobs that are still queued may stay there.
NoRowForgotten ==
    \A s \in Submissions : table[s] = "pending" =>
        \/ Queued(s) /\ (running => Attended)
        \/ Held(s)
        \/ http.id = s /\ http.pc # "idle"
        \/ s \in lost

\* Every row whose statements succeed becomes final, unless the manager is
\* shut down first: no wake-up of a judge thread is lost, no job is dropped
\* on the way, and the retries end.
RowsBecomeFinal ==
    \A s \in Submissions :
        table[s] = "pending" ~> (table[s] \in Final \/ ~running \/ s \in lost)

\* After shutdown every thread exits, except those that found no work just
\* before and had not yet gone to sleep when notify_all was called without
\* mu_: these sleep on.
ShutdownJoins ==
    ~running ~> (\A t \in Threads \ missed : pc[t] = "exited")
=============================================================================
