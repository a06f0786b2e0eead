----------------------------- MODULE JudgeExecutor -----------------------------
(***************************************************************************)
(* ExecuteJudgeRequest (judge/judge_executor.h) in the worker processes,   *)
(* with RunProgramWithLimits (judge/sandbox_runner.cpp), and as much of    *)
(* the judge manager as decides who executes what: an attempt may time out *)
(* while its worker goes on, and the next attempt may go to any worker.    *)
(* (JudgeManager models the manager itself.)                               *)
(*                                                                         *)
(* A worker executes its requests one after the other, in the directory    *)
(* the request names: ./run/judge_<submission id>, below the directory the *)
(* worker was started in.  Workers of one host are started in one          *)
(* directory (DEPLOY.md), so two attempts at a submission may be in the    *)
(* same directory at the same time.  (The source file, which each attempt  *)
(* writes anew with the same text, is taken to be always readable.)        *)
(***************************************************************************)
EXTENDS Integers, Sequences, FiniteSets

CONSTANTS
    Workers,
    Jobs,        \* submission ids
    MaxAttempts, \* judge.retry_count
    Shared,      \* the workers are started in one directory
    Compiles(_), \* the program compiles
    RunOf(_, _, _) \* program, test, limits -> how a run of it ends, see Runs

\* How a run ends: whether the wall-clock limit stops it, its signal or exit
\* code, whether it took more memory than allowed, and whether its output, cut
\* to 64 KiB and without trailing white space, is the expected one.
Runs == [killed : BOOLEAN, signal : {"none", "KILL", "XCPU", "other"}, exit : {0, 1},
         memory : BOOLEAN, right : BOOLEAN]

ASSUME ExecutorAssumption == MaxAttempts \in Nat /\ Shared \in BOOLEAN

VARIABLES
    sent,     \* per job: its payload [program, tests, limits], or NoPayload
    attempts, \* per job: attempts made
    awaited,  \* per job: the attempt whose answer the judge thread waits for, or 0
    verdict,  \* per job: the status recorded, or "none"
    inbox,    \* per worker: requests [job, attempt] not yet read
    work,     \* per worker: the request in execution and where it is
    built,    \* directories whose user_bin is there
    output    \* per directory and test: tc_out: "none", "empty", "right" or "wrong"

executorVars == <<sent, attempts, awaited, verdict, inbox, work, built, output>>

NoPayload == [program |-> "none", tests |-> <<>>, limits |-> "none"]

\* No request: the worker is in its event loop.
AtRest == [pc |-> "idle", job |-> 0, attempt |-> 0, k |-> 0, rr |-> "none", status |-> "none"]

\* The directory of a job at a worker.
Dir(w, j) == <<IF Shared THEN CHOOSE v \in Workers : TRUE ELSE w, j>>
Dirs == {Dir(w, j) : w \in Workers, j \in Jobs}

ExecutorInit ==
    /\ sent = [j \in Jobs |-> NoPayload]
    /\ attempts = [j \in Jobs |-> 0]
    /\ awaited = [j \in Jobs |-> 0]
    /\ verdict = [j \in Jobs |-> "none"]
    /\ inbox = [w \in Workers |-> <<>>]
    /\ work = [w \in Workers |-> AtRest]
    /\ built = {}
    /\ output = [d \in Dirs |-> <<>>]
-----------------------------------------------------------------------------
(***************************************************************************)
(* The manager's side.                                                     *)
(***************************************************************************)
Attempt(j, w) ==
    /\ sent[j] # NoPayload /\ verdict[j] = "none"
    /\ awaited[j] = 0 /\ attempts[j] < MaxAttempts
    /\ attempts' = [attempts EXCEPT ![j] = @ + 1]
    /\ awaited' = [awaited EXCEPT ![j] = attempts[j] + 1]
    /\ inbox' = [inbox EXCEPT ![w] = Append(@, [job |-> j, attempt |-> attempts[j] + 1])]
    /\ UNCHANGED <<sent, verdict, work, built, output>>

\* No answer within timeout_ms.  After the last attempt the row is closed.
TimeOut(j) ==
    /\ awaited[j] > 0
    /\ awaited' = [awaited EXCEPT ![j] = 0]
    /\ verdict' = IF attempts[j] = MaxAttempts THEN [verdict EXCEPT ![j] = "system_error"]
                  ELSE verdict
    /\ UNCHANGED <<sent, attempts, inbox, work, built, output>>
-----------------------------------------------------------------------------
(***************************************************************************)
(* A worker executing a request.                                           *)
(***************************************************************************)
At(w, pc) == work[w].pc = pc
Here(w) == Dir(w, work[w].job)
Payload(w) == sent[work[w].job]
Tests(w) == Payload(w).tests

Work(w, changes) ==
    work' = [work EXCEPT ![w] = [f \in DOMAIN @ |-> IF f \in DOMAIN changes THEN changes[f] ELSE @[f]]]

\* The request is read, the source written and the compiler started.
Take(w) ==
    /\ At(w, "idle") /\ inbox[w] # <<>>
    /\ work' = [work EXCEPT ![w] = [AtRest EXCEPT !.pc = "compile", !.job = Head(inbox[w]).job,
                                                  !.attempt = Head(inbox[w]).attempt]]
    /\ inbox' = [inbox EXCEPT ![w] = Tail(@)]
    /\ UNCHANGED <<sent, attempts, awaited, verdict, built, output>>

CompileFails(w) ==
    /\ At(w, "compile") /\ ~Compiles(Payload(w).program)
    /\ Work(w, [pc |-> "answer", status |-> "compile_error"])
    /\ UNCHANGED <<sent, attempts, awaited, verdict, inbox, built, output>>

\* The linker removes user_bin before it writes a new one.
Unlink(w) ==
    /\ At(w, "compile") /\ Compiles(Payload(w).program)
    /\ built' = built \ {Here(w)}
    /\ Work(w, [pc |-> "link"])
    /\ UNCHANGED <<sent, attempts, awaited, verdict, inbox, output>>

Link(w) ==
    /\ At(w, "link")
    /\ built' = built \cup {Here(w)}
    /\ Work(w, [pc |-> "exec", k |-> 1, status |-> "accepted"])
    /\ UNCHANGED <<sent, attempts, awaited, verdict, inbox, output>>

SetOutput(d, k, text) ==
    output' = [output EXCEPT ![d] =
        [i \in 1..(IF k > Len(@) THEN k ELSE Len(@)) |->
            IF i = k THEN text ELSE IF i <= Len(@) THEN @[i] ELSE "none"]]

\* fork: the child truncates tc_out and becomes the program; without a
\* program it exits with 127.
Exec(w) ==
    /\ At(w, "exec") /\ work[w].k <= Len(Tests(w))
    /\ SetOutput(Here(w), work[w].k, "empty")
    /\ IF Here(w) \in built
       THEN Work(w, [pc |-> "run"])
       ELSE Work(w, [pc |-> "compare", rr |-> "runtime_error"])
    /\ UNCHANGED <<sent, attempts, awaited, verdict, inbox, built>>

\* RunProgramWithLimits: what the end of a run counts as.
RunStatus(run) ==
    CASE run.killed -> "time_limit_exceeded"
      [] ~run.killed /\ run.memory -> "memory_limit_exceeded"
      [] ~run.killed /\ ~run.memory /\ run.signal \in {"KILL", "XCPU"} -> "time_limit_exceeded"
      [] ~run.killed /\ ~run.memory /\ run.signal = "none" /\ run.exit = 0 -> "accepted"
      [] OTHER -> "runtime_error"

\* The program ends, having written its output.
Run(w) ==
    /\ At(w, "run")
    /\ LET run == RunOf(Payload(w).program, Tests(w)[work[w].k], Payload(w).limits)
       IN  /\ SetOutput(Here(w), work[w].k, IF run.right THEN "right" ELSE "wrong")
           /\ Work(w, [pc |-> "compare", rr |-> RunStatus(run)])
    /\ UNCHANGED <<sent, attempts, awaited, verdict, inbox, built>>

\* The status of a test: what the run ended with, or what its output says.
TestStatus(w) ==
    IF work[w].rr # "accepted" THEN work[w].rr
    ELSE IF output[Here(w)][work[w].k] = "right" THEN "accepted" ELSE "wrong_answer"

\* Mutant: the status of the last test is the status of all.
Compare_LastTest(w) ==
    /\ At(w, "compare")
    /\ Work(w, [pc |-> "exec", k |-> work[w].k + 1, rr |-> "none", status |-> TestStatus(w)])
    /\ UNCHANGED <<sent, attempts, awaited, verdict, inbox, built, output>>

\* tc_out is read and compared; a test that is not accepted decides the
\* status, and the later ones are run all the same.
Compare(w) ==
    /\ At(w, "compare")
    /\ Work(w, [pc |-> "exec", k |-> work[w].k + 1, rr |-> "none",
                status |-> IF TestStatus(w) = "accepted" THEN work[w].status ELSE TestStatus(w)])
    /\ UNCHANGED <<sent, attempts, awaited, verdict, inbox, built, output>>

\* The answer is recorded if the judge thread still waits for it.
Answer(w) ==
    /\ At(w, "answer") \/ (At(w, "exec") /\ work[w].k > Len(Tests(w)))
    /\ LET j == work[w].job
       IN  IF awaited[j] = work[w].attempt
           THEN /\ verdict' = [verdict EXCEPT ![j] = work[w].status]
                /\ awaited' = [awaited EXCEPT ![j] = 0]
           ELSE UNCHANGED <<verdict, awaited>>
    /\ work' = [work EXCEPT ![w] = AtRest]
    /\ UNCHANGED <<sent, attempts, inbox, built, output>>

WorkerNext(w) ==
    \/ Take(w) \/ CompileFails(w) \/ Unlink(w) \/ Link(w)
    \/ Exec(w) \/ Run(w) \/ Compare(w) \/ Answer(w)

ExecutorNext ==
    \/ \E j \in Jobs, w \in Workers : Attempt(j, w)
    \/ \E j \in Jobs : TimeOut(j)
    \/ \E w \in Workers : WorkerNext(w)
-----------------------------------------------------------------------------
\* Type invariant of the executors.
ExecutorTypeOK ==
    /\ \A j \in Jobs : attempts[j] \in 0..MaxAttempts /\ awaited[j] \in {0, attempts[j]}
    /\ \A w \in Workers :
          /\ work[w].pc \in {"idle", "compile", "link", "exec", "run", "compare", "answer"}
          /\ At(w, "idle") <=> work[w].job = 0
          /\ work[w].pc \in {"run", "compare"} => work[w].k \in DOMAIN output[Here(w)]
    /\ built \subseteq Dirs

\* A test is passed.
Passes(run) ==
    ~run.killed /\ ~run.memory /\ run.signal = "none" /\ run.exit = 0 /\ run.right

RunsOf(j) ==
    [k \in DOMAIN sent[j].tests |-> RunOf(sent[j].program, sent[j].tests[k], sent[j].limits)]

\* The statuses that the outcome of j's own program on j's own tests admits.
Deserved(j) ==
    IF ~Compiles(sent[j].program) THEN {"compile_error"}
    ELSE IF \A k \in DOMAIN RunsOf(j) : Passes(RunsOf(j)[k]) THEN {"accepted"}
    ELSE {IF RunStatus(RunsOf(j)[k]) = "accepted" THEN "wrong_answer" ELSE RunStatus(RunsOf(j)[k]) :
            k \in {i \in DOMAIN RunsOf(j) : ~Passes(RunsOf(j)[i])}}

\* Every verdict is one that the submission's program deserves on the tests
\* of its payload: accepted exactly when every run passes, otherwise the
\* status of a test that failed, although attempts overlap, are repeated in a
\* directory with files of an earlier attempt, and answers come late.
VerdictDeserved ==
    \A j \in Jobs : verdict[j] \in {"none", "system_error"} \cup Deserved(j)
=============================================================================
