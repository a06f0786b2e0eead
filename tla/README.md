# oj-vibe-coding in TLA+

This directory holds a formal model of the online judge: TLA+ modules that
translate the concurrent and stateful parts of `src/src/`, `src/tools/` and `src/web/`, TLC configurations
that check them on small instances, and theorems about them checked by TLAPS.
Paths below are relative to the repository (`src/judge/judge_manager.cpp` and
so on); `PROJECT.json` gives, for every definition that models code, the lines
it translates.

## The system

A user submits a program over HTTP. The **server** process (one thread for all
HTTP traffic) stores a row in MySQL and queues a job in its **judge manager**,
whose threads send the job over HTTP to a **judge worker** process, picked by a
**load balancer**, and write the outcome back to the row, which the browser
polls. A worker compiles and runs the program in a **sandbox**. Both processes
are built on the same hand-written **network library** (event loop, timer wheel,
TCP connection, HTTP parser). Every DAO call borrows a connection from the
**MySQL pool**.

| Component | State | Operations | Interacts with | What is hard | Correct when |
|---|---|---|---|---|---|
| Judge manager `judge/judge_manager.cpp` | `queue_`, `running_`, `remote_mode_`, `last_health_probe_`, per thread the job and the attempt | `submit`, `worker_thread`, `ExecuteJob`, `ExecuteRemotely`, `ProbeWorkersIfNeeded`, `RegisterWorker`, `shutdown` | handler (calls), balancer (shared), workers (HTTP), database (rows) | time-outs racing late answers, fail-over, shutdown without the lock, probes on stale snapshots | a submission has one owner; a final row stays; every row becomes final; verdicts belong to their submission |
| Load balancer `judge/judge_worker_balancer.h` | `nodes_`, `next_worker_` | `UpsertWorker`, `SelectWorker`, `ReleaseWorkerLoad`, `MarkOffline`, `MarkOnline`, `GetWorker`, `SnapshotWorkers` | judge threads, HTTP thread | loads reset under requests in flight; ids used after the lock | ids stable, endpoints distinct, loads never drift up, least loaded chosen |
| MySQL pool `db/mysql_pool.cpp` | `idle_`, `total_`, `shutdown_` | `Acquire`, `Release`, `Shutdown` | every DAO, in HTTP and judge threads | dead connections, failed connects, waiters, shutdown with connections out | exact count, bound, one owner, no lost wake-up |
| Submission handler, DAO `handler/submission_handler.cpp`, `db/dao/submission_dao.cpp` | the row's `status` | create, update, update result, queries | judge manager | refused submit; a statement that fails, or takes effect and is answered with an error all the same | part of the judge manager's properties |
| Judge worker `judge/judge_worker_server.cpp` | registration flag | `/judge`, `/healthz`, registration thread | manager (HTTP) | serial service, crash in a response, registration ends after its first success | a restarted fleet finds itself again |
| Event loop, timer wheel, connections `net/muduo.hpp` | task queue, wheel, connection status, buffers | `HandleEvent`, `RunAllTask`, `OnTime`, `Send`, `Shutdown`, `Release`, timers | HTTP server | order of queued tasks, timers and socket events | a connection is released once and all it sent is written |
| HTTP parser, server `net/http.hpp` | `HttpContext` | `RecvHttpRequest`, `OnMessage`, `Route`, `FileHandler`, multipart forms, exception and error handlers | connections, handlers | fragments and pipelining; several writers of one response | result independent of the cuts; no half of an answer mixed with another |
| Judge executor, sandbox `judge/judge_executor.h`, `judge/sandbox_runner.cpp` | working directory, child process | compile, run tests, compare | worker | shared directory of two workers, status precedence | verdict determined by the tests |
| Admin handlers `handler/admin_handler.cpp` | problems, test cases, languages, users | CRUD, zip upload | DAOs | several statements per request | no problem left without its test cases |
| Accounts `handler/auth_handler.cpp`, `middleware/auth.cpp`, `db/dao/user_dao.cpp`, `tools/register_admin.cpp` | table `users`, tokens, row locks | register, login, verify, change of status, the tool's transaction | MySQL, the tool beside the server | check then insert; a token outlives what it says; lock waits | one account per name, as its last writer was told; tokens name the right user; nobody waits for ever |
| Logger `utils/logger.cpp` | current file, its date and size | `Init`, `Log`, `RotateLogFile`, `CreateNewLogFile` | files, the tools' loggers | failure and kill within a rotation | no line of the server is lost, archives stay, what is added to a file between two openings is bounded by the limit and a line |
| Bootstrap, router, config, crypto, models | none | run once, or pure | - | - | - |
| Front end `web/js` | address, `templateCache`, `cleanupCurrentView`, `pollTimer`, token | `render`, `navigate`, `refreshResult`, login, logout | HTTP API | templates and answers out of order | a result page rests on a result or an error; polling ends; the page is the address's |
| Tools `tools/*.cpp`, scripts | none | `register_admin` (see accounts), `reset_web_data` | MySQL, logger | `register_admin` and any tool's log lines beside a running server | part of the accounts' (`register_admin`) and the logger's properties (log lines only); `reset_web_data` is run while the server is stopped, and its statements are not modelled |

## Modules

| Module | Models | State and actions |
|---|---|---|
| `JudgeWorkerBalancer` | the class of `judge_worker_balancer.h` | one action per public method, each atomic because each takes `mu_`; `holding[t]` is the id a judge thread has selected and not yet released; the scan loop is the recursive function `Scan`, compared with the declarative `IsBest` |
| `JudgeManager` (extends it) | `judge_manager.cpp`, the submission handler's writes, `SubmissionDao::Create/UpdateStatus/UpdateResult`, worker processes as environment | a statement may fail before or after it took effect, the `INSERT` of `Create` as well as the `UPDATE`s; `pc[t]` follows a judge thread through `worker_thread`; one action per stretch of code between two accesses to shared state; the condition variable is a two-step sleep (`Doze` holds `mu`, `Sleep` gives it up) so that a notification without the lock can fall between |
| `MySqlPool` | `mysql_pool.cpp` | `pc[c]` follows a client through `Acquire`, which drops `mutex_` to ping and to connect; `total_` is a `size_t` of width `SizeMax`; a client's thread may also fail, leaving its connection to the destructor |
| `TimerWheel` | class `TimerWheel` of `net/muduo.hpp` | `wheel[k]` holds timer ids by position, `_tick` is the hand; `TimerAdd`, `TimerRefresh`, `TimerCancel` and `OnTime` are operators used by the loop |
| `CountdownTimers` | what a timer wheel promises | a countdown per timer, the abstract specification of the wheel |
| `EventLoop` (extends `TimerWheel`) | `EventLoop::Start`, `RunAllTask`, `Channel::HandleEvent`, `Connection`, the acceptor, `OnMessage` as far as the connection sees it | one pass is poll, the channels in turn, the queued tasks; one action per callback. Clients and the clock are environment |
| `ByteQueue`, `Buffer` | class `Buffer` | a FIFO of bytes, and the vector with its two offsets: writing in place, after moving, after growing; refinement |
| `HttpContext` (extends `Buffer`) | `HttpContext` and `HttpServer::OnMessage` | `recv`, `resp` and `request` are the context; reading a fragment runs the callback, whose loop takes one action per stage (line, head, body, response), or leaves it by the exception of `std::stol` (`LeaveByException`). A complete request is routed to a static file, a handler (which may read form files, or throw) or none, and the exception and error handlers write the response after it; `ParseMultipartBody` and `Find` work on the bytes of the body. Beside the parser the module says what a whole message means (`Begins`, `Headed`, `Served`, `Refused`, `Unanswerable`, `Owed`), without reference to the parser's state |
| `Catalog` | admin handlers, `ProblemDao`, `TestCaseDao`, the selection of test cases in `POST /api/submissions` | tables as sets and functions; handlers run alone, but the zip upload takes one action per statement |
| `JudgeExecutor` | `ExecuteJudgeRequest`, `RunProgramWithLimits`, and the attempts of a judge thread reduced to send, time out, answer | `work[w]` follows a worker through compile, link, exec, run, compare; `built` and `output` are the files of the directories |
| `Accounts` | registration, login, tokens, change of status; `register_admin` | `serving` is the one HTTP thread inside a statement, `tool[t]` a run of the tool inside its transaction; row and index locks decide who waits; a statement may fail, or take effect with its answer lost |
| `Logger` | class `Logger` | a process holds the file it opened, whatever becomes of the directory's entry; rotation takes one action per system call (close and tar, remove, open), each of which may fail or be the last |
| `WebApp` | `app.js`, `submission-result.js`, `request`, the token | one action per stretch between two awaits; `loading` are the renders that wait for a template, `polls` the requests and answers under way, unordered |
| `Judging` (extends both) | the way from the catalogue to the verdict, and the kill of the server | posting a submission changes rows and payloads together; everything else interleaves |
| `MC*` | constants, symmetry | one per module |
| `*_proofs` | theorems | see below |

The balancer is modelled once, and `JudgeManager` shows that it uses it only
through its operations: `BalancerSpec`, the balancer's specification, is a
property of the manager's run, and so are the balancer's own invariants. What is proved of `BalancerSpec` for any number
of threads and endpoints therefore carries over.

### What the models leave out

* What a submission, a test or an answer contains. An answer is `verdict`,
  `cut` (a 200 response cut off by a dying worker; `SendHttpJson` does not
  compare the body with its Content-Length, so the row's JSON column refuses
  it) or `fail`.
* Clocks. A probe may be due or not at any attempt, a request may time out at
  any time; both are choices.
* `submit` is the only way into the queue and the HTTP thread is one thread:
  the server never asks for more (`SetThreadCount` is not called).
* Registration of an endpoint by two workers at once: the HTTP thread serialises
  them. A running worker may register at any time, although its registration
  thread ends with its first success: the model has more registrations than
  the program.
* `EventLoop`: a request arrives whole (fragments are `HttpContext`'s), the
  wake-up eventfd (only the loop's own thread queues tasks), a difference
  between `EPOLLHUP` and `EPOLLERR` (both end in the close callback), different
  timeouts (all connections use one), and how much of a response one `send`
  takes: a response is written or not yet. `ReleaseAgain`, the second release of
  a destroyed connection, is undefined behaviour; the model takes the outcome
  in which the freed memory still reads `DISCONNECTED`, which ends it at once.
  `NoLateRelease` bounds it: such a release runs in the batch of tasks that
  destroyed the connection, never later. A callback that throws ends the loop
  and the process with it (see `HttpContext`); here every callback returns.
* `HttpContext`: a request line is a target, told apart by where its path leads
  (a file, the static root, a handler that answers, stores a file, refuses or
  throws, or none); methods, regular expressions, query strings and MIME types
  are not in it, `HEAD` is answered like `GET`, and of the headers only those
  that the parser and the connection act on. Bytes are members of a small
  alphabet that tell apart the places at which parsing waits and the marks of a
  form. The value of a Content-Length is a natural number, a negative one, which
  wraps round to a large `size_t`, or one that `std::stol` refuses, which ends
  `OnMessage` by an exception; digits with something behind them, of which
  `std::stol` takes the digits, are such a number. It is the server process whose handlers are modelled; a worker's server
  has neither static files nor an error handler.
* `Accounts`: password hashes, the e-mail address, the contents of a token but
  id, name and role. A `PUT` of a status that meets a locked row waits before it
  starts.
* `Logger`: a line is its length and its process; `rm -f` does not fail; one
  process of a directory rotates (a tool logs a few lines); a kill takes the
  shell that runs `tar` along, as systemd does with a service.
* `WebApp`: what a page draws; `pending` and `running` are one status; pages
  other than a submission's and the login are one; a login, once answered,
  takes effect on the login page.
* `Catalog`: authorisation (a refused request changes nothing), statements that
  only read, other problems' rows. The `AUTO_INCREMENT` of problems is replaced
  by reuse of ids to which nothing refers.
* `JudgeExecutor`: the directory's source file, compiler and program as such; a
  program is given by how each of its runs ends (`RunOf`). A correct output of
  more than 64 KiB counts as wrong there as in the code. That `fork` fails, that `system()`
  returns -1 and that the compiler is killed by a signal are not among the
  outcomes of a run. What a judge thread
  does around an attempt is in `JudgeManager`.

## Runs

| Run | Bounds | Question and answer |
|---|---|---|
| `manager` | 2 threads, 2 workers (1 configured), 2 submissions, 2 attempts, slow + crash, probes | one owner, no final row overwritten, verdicts earned, jobs taken in order; probe results reach the worker that was probed; the registry consistent and the scan right under every interleaving of the operations the manager calls; refinement of `BalancerSpec` |
| `manager_stop` | the same, 1 attempt, all faults but crash (every `INSERT` and `UPDATE` may also take effect and be answered with an error), fair | a pending row is with a thread, with the handler, or in a queue that somebody will look at, unless a statement about it was answered with an error; every other row becomes final; shutdown lets every thread exit but those it misses |
| `pool` | 4 clients, 2 connections with 3 handles, fair | accounting, bound, ownership, wake-ups, draining |
| `loop` | 2 connections, wheel of 3 with timeout 2, up to 2 expirations late, 2 requests, fair loop and clock | channels of live connections only, write interest exactly while there is output, output drained before a graceful close, no late release and no timer on a destroyed connection, timers fire when promised (`CountdownTimers`), no connection is kept for ever |
| `http` | up to 3 requests (with and without body, closing, for files, pages, handlers of every kind or none, forms, malformed, over-long) cut anywhere; buffer of 4, lines of 3, bodies of up to 16; two Content-Length headers, a negative one (-16 of 32 values), one that is no number, alone or before or behind a good one; fair callback | same requests and responses whatever the cuts; each request gets the whole answer it is owed and nothing of another; the buffer is a queue; `OnMessage` comes to an end, by an exception only at a length that is no number |
| `judging` | 1 problem, 3 admin requests, 1 submission of 3 programs, 2 workers, 2 attempts, failing statements and kills | admins who are answered with success know the cases; verdicts are deserved; accepted means passing all cases |
| `accounts` | 2 names, 2 passwords, 2 runs of `register_admin`, 2 requests that write, failing statements; fair | one account per name, as its last writer was told; tokens tell the truth until they expire; nobody waits for ever for a row lock |
| `logger` | server and a tool, 2 days, 6 lines of 1 or 2 bytes, files full at 3, 3 faults | no line of the server is lost, archives stay; between two openings the server adds less to a file than the limit and a line |
| `webapp` | 1 submission, 3 acts or faults, a poll sent while another is unanswered; fair polling and judging | a page rests on a result or an error only; polling stops; the page shown is the address's unless two templates raced |
| `inactive` | violation | after a handler longer than the timeout the loop closes, as inactive, the connection it has just served: the hand of the wheel lags behind the clock when the timer is refreshed |
| `partial_upload` | violation | a failing `INSERT` of a zip upload leaves half of the cases, on which programs are then accepted |
| `shared_dir` | violation | workers of one host started in one directory (DEPLOY.md:207) execute overlapping attempts in one `work_dir`: a correct program gets another verdict |

**Why the bounds suffice.** Every hazard needs at most two judge threads (one
acting on what the other changed), two workers (one to fail, one to fail over
to), and two submissions (a late answer and the next job of the same thread).
Two attempts are the least with a fail-over. Four clients on two connections
let two wait while one is overtaken. The state spaces are finite without state
constraints: submissions and attempts are bounded by constants that the code
has too.

A wheel of three positions with timeout two wraps round, and two late expirations
are enough for the hand to pass a refreshed timer. A buffer of four bytes is
written in place, moved and grown by fragments of a request; three requests let
one arrive complete, one in the middle and one behind. In `judging` three admin
requests are a problem, a sample and an upload, or a problem, an upload that
fails and its repetition, or an upload and a change of limits while the job
waits; two attempts overlap, or follow each other in one directory. Deadlock is
not checked in `http`, `judging`, `accounts`, `logger` and `webapp`, where every
actor may have finished.

In `accounts` two requests that write and two runs of the tool put two
transactions on one name and on two, in both orders. In `logger` six lines of
one or two bytes fill a file exactly and beyond, for up to three rotations; three faults are a failed
`tar`, a kill in the repetition and one in the next life. In `webapp` three
acts leave a page before its first answer and open it again, or change the
address twice while templates are under way; two polls are enough for an
answer to come late. `manager` has 2 million states, which is what five minutes
allow.

**Fairness.** Weak fairness of every judge thread, of the HTTP thread inside
`submit`, of an `Acquire` once begun and of a client's `Release`: the operating
system schedules runnable threads, mutexes are held for bounded time, and
`SO_RCVTIMEO` ends every exchange. In the network runs the loop's thread runs
on (`LoopNext`), the timerfd expires every second (`ClockTick`) and a callback
that was entered goes on (`OnMessage`). In `accounts` the server's and each
tool's statements go on (MySQL ends a lock wait or a deadlock with an error);
in `webapp` intervals expire, requests end in an answer or an error, and
submissions are judged (`RowsBecomeFinal` of the manager): `PollingStops` is
about those, and a row the manager has in `lost` is polled for ever. Users, clients, workers, faults and
`shutdown` owe nothing. The two liveness properties of `manager_stop`
name their exceptions (`lost`: a statement about the row was answered with an
error, whether or not it took effect; `missed`: the thread was between its
predicate and its wait when `shutdown` notified without the lock).

In the program `shutdown` is called by the destructor only, on the thread that
ran `Listen`, when an exception has ended the event loop (main.cpp:35; a
Content-Length that is no number is one way there). A judge thread between its
predicate and its wait is then possible, and the process hangs in `join`; a
`submit` that races `shutdown` is not, and concerns the interface of the class.

## Proofs

Every safety invariant, action property and refinement of the passing runs is
proved for all values of the constants. `PROJECT.json` lists the theorems with the property each states.
A module `X_proofs` has one inductive invariant, mostly called `IInv`, whose
parts are named and commented there; one lemma per part and, under it, one step
per action. TLC checked each `IInv` on the bounds of the runs before it was
proved. What the proofs assume of the constants are the `ASSUME`s of the
models, which TLC evaluates in the runs.

**Balancer** (`JudgeManager_proofs`, first part), for every set of threads and
endpoints and every bootstrap list without repetitions: types, stable ids,
distinct endpoints, the load bound and unloaded offline nodes (the last three
are `RegistryInv`). `LoadBound` needs that a load counts at most the threads that
hold the id; a reset only lowers it, and a release lowers both by one unless
the load is already 0. `ScanFindsBest` speaks of the recursive function `Scan`,
one value per iteration of the loop in `SelectWorker`. Its proof states without
recursion what the loop has found after k iterations (`Leader`: the node of
the least load among those visited, the first visited of equals) and considers
the least k at which `Scan` differs; there is none as an iteration that starts
right ends right.

**Manager** (`JudgeManager_proofs`, second part), for any threads, workers, submissions and
attempts, with every fault. That it implements `BalancerSpec` is the step
simulation: every step is one of the balancer's operations or leaves the
registry alone, so all that is proved of the balancer holds in it. `OnePlace`,
`VerdictsEarned` and `NoRowForgotten` need to know where every row is (`Places`:
queue in order of submission, jobs taken before it, the HTTP thread's row
after it), that a connection belongs to the thread that waits on it, for the job it
has, at the worker it selected (`Connections`, which is what makes a late answer
harmless), and that a verdict in hand was computed for the job in hand
(`RepliesEarned`). `NoRowForgotten` also says that until shutdown somebody looks at
a queue that is not empty: `Wakeful` holds because a thread goes to sleep only
after it has seen an empty queue under the lock, which whoever queues a job needs
and whose `notify_one` comes after. `ProbeMarksProbed` rests on the snapshot being a prefix of the
registry as it is now (`ProbeShape`). Assumed: `Nobody`, the owner of a connection
that was closed, is no thread.

**Pool** (`MySqlPool_proofs`), for any finite set of clients and any limit. The
invariant is inductive with these parts: types, labels that agree with `conn`,
`OneOwner`, the exact count before `Shutdown`, and the number of open connections
bounded through the holders; the counting steps rest on lemmas on the
cardinality of `At(labels)` when one client moves. `NoLostWakeup` follows because
each step that adds capacity moves a waiter to `woken`, or is the dead
connection found in `Acquire`, whose client is on its way to call it again.

**Event loop** (`EventLoop_proofs`), for any finite set of connections, numbers of
requests, hang-ups and lag of the clock. `ActivesAlive` needs that the channels
that epoll reported are distinct and that what it reported still holds
(`Pass`): nothing but a handler of the same channel takes it back. `OutputInv` needs the life
of a connection (`Life`) and that every queued release has its reason
(`Reason`: nothing to send, a client that is gone, or time that is over);
`NoLateRelease` follows from the same parts, as a connection is destroyed by the
tasks of a pass only. That the wheel implements `CountdownTimers` is a refinement: the
countdown of a timer is how many positions ahead of the hand its last pointer is,
and `WheelInv` says that a timer has one exactly when it exists, none farther
ahead than its delay. Assumed: connections are finite in number and have names other
than those of the listener and the timerfd.

**Buffer** (`HttpContext_proofs`, first part), for any alphabet and size: the offsets stay in
order and within the vector, and it implements `ByteQueue`. Each of the three
ways of writing appends exactly the data to the readable bytes
(`WriteIsAppend`), reading removes a prefix. The moving case rests on a lemma
that the copy towards the front keeps every byte.

**HTTP server** (`HttpContext_proofs`, second part), for any streams, in any pieces, and
any limits of lines and buffers. It uses the buffer through its operations only, so
what is proved of `Buffer` holds in it, and the assertion in `MoveReadOffset`
never fails. That needs `RequestInv`: a body is never longer than announced, so
what it lacks is never negative; a request that is refused or whose headers are
being read has no body. `AnswersWhole` follows the three hands that write a
response, target by target (`HandledIsOwed`, `OwedIsWhole`). What a handler works on is a
sequence of the stream's bytes: for files of a form that is a lemma about the
recursive function `ParseMultipartBody` (`FormType`), which ends because each
boundary it finds is behind the one before.

`HttpInv` adds that the answers depend on the bytes and not on the reads they
came in. A message comes with the answer it is owed, and `Meant` says which that
is: a message begins with n lines that are a request line and headers, and then
either a blank line and a body as long as the first Content-Length says
(`Served`), or a blank line and a first Content-Length that `std::stol` refuses
(`Unanswerable`), or a line for which it is refused, at a known place (`Refused`). This
speaks of the whole text at once; the parser sees a prefix of unknown length. Its
inductive invariant `CutInv` relates the two:

* `Buffered`: what is in the buffer is the stream's text from where the parser
  stands (`Consumed`) up to what has been delivered;
* `Unclosed`, while the connection is open: the answers are those owed to the first
  messages, none of which closes it; and in the message after them the parser has
  taken as many symbols as its state says (`Reading`: between two lines the
  request is what the lines so far make, in a body it has the stretch of the text
  from the blank line on, and one that is refused is due). When the callback has
  returned, that message is not yet due;
* `Closed` afterwards: all messages up to one that closes the connection are answered.

Where an exception has left the callback the answers stop before a message that is
unanswerable and has arrived (`LeftAt`).

The step lemmas rest on `LineAhead`: whatever prefix is buffered, the line that
`GetLine` finds, or fails to find, is the next line of the message, and if it is the
one for which the message is refused or its headers end (`HeadersEnd`), then enough
has arrived. That in turn
needs that at most one n fits a message (`NextLine`), as no header is a blank line.
Texts are laid out one behind the other (`StreamLayout`); as `FlattenSeq` is
recursive, this is shown by the least prefix that would not be
(`Flattening`, `FirstNext`). `CutIndependent` follows because a later message is due
later (`StartsLater`), and `Delimited` because only a torn file is owed an empty
answer. TLC checked `CutInv` on the states of the run `http` before it was proved.

`CallbackProgresses` is the part of `CallbackEnds` that can be proved: a step of
the callback ends it or makes `Distance` smaller, four times what is buffered plus
a rank of the parser's state. That a step is always enabled, and taken, is
left to TLC.

Assumed: a `size_t` has a value for every `long` (`-SizeValues` is at most any
length), a line has room for a
symbol and its newline, the mark of an error body is no byte of a request, and what
clients send are messages each of which has one of the three forms
(`StreamAssumption`; a client that stops in the middle is one whose
stream is not delivered to its end).

**Browser** (`WebApp_proofs`), for any submissions, acts, failures and polls. `RestsOnResult`
is inductive with the shape of a page (`Page`: one interval exactly while
`pollTimer` names it, a cleared id only after the cleanup). `ShownIsAddressed` needs
`Ordered`: unless two renders wait at once, at most one does, and for the address.

**From the catalogue to the verdict** (`Judging_proofs`), for any programs, tests,
limits, archives and requests. `AsTold` needs what an upload under way has
replaced so far (`Told`, `UploadState`), and a submission keeps a
copy: its tests include every case its problem was told to have
(`RowsTold`). `AcceptedPassesAll` adds that a row and its payload agree
(`Handed`) and that a status of `accepted` has every run so far behind it, with
an output that is right only if the run that wrote it was (`WorkSound`,
`OutputSound`): this holds although workers may share directories, as two
attempts at a submission run the same program on the same tests. What they can
spoil is a verdict other than `accepted`, so `VerdictDeserved` is proved for
`~Shared`, as the run `judging` checks it: there a worker finds the files it has written
(`OwnFiles`). The test list of a payload is defined by rank (`ListByProblem`: a
case stands behind as many as are before it), not by recursion, so that the
proof can show that every case is in it. Assumed: the outcome of a run is one of
`Runs`, the limits of a problem that exists are not the mark of one that does
not.

**Accounts** (`Accounts_proofs`), for any names, passwords, runs of `register_admin`
and faults. `AccountsAsTold` and `TokensTruthful` depend on what an open
transaction of the tool remembers from before: the row it has found is still there
under the same name (`Found`), the id and the name of a row it has inserted are not
taken by a committed one (`Reserved`), and open transactions have written different
rows (`Alone`). `RowsStay`, which no run checks, adds that no step removes an
account, renames it or takes the administrator's role from it.

**Logger** (`Logger_proofs`), for any number of days, lines, tools and faults.
`ServerLinesSurvive` needs that the server's entry stays that of its file until it
is archived, and that what `rm` removes is in a finished archive (`Rotates`);
tools never rotate (`Small`: they never fill a file). The bound on a file
counts the bytes the server has added since it opened it (`Bounded`): fewer than the
limit before the last line, as the size is compared after each, and that line. What the
tools add is a product of their number, their lines and the longest line (`Products`,
`Constants`).

**Only model-checked:**

* Liveness under fairness, which is out of the prover's reach: `RowsBecomeFinal`
  and `ShutdownJoins` of the manager, `ShutdownDrains`, `NoConnectionLeak`,
  `CallbackEnds`, `NobodyWaits`, `PollingStops`.
* What `ParseMultipartBody` makes of a form: proved is that it is a sequence of
  bytes, and that the parser applies it to the whole body however that arrived;
  that a file comes out as it was put in is checked on the forms of the run.

## Observations that are not claims

* `judge.max_concurrency` is read from the configuration as the number of judge
  threads; `retry_count` is the number of attempts, not of repetitions.
* After a restart of the server the rows of queued jobs stay `pending`
  (`queue_` is memory) and workers that are not configured never register again
  (their registration thread has ended). Both are in the hazard list.
* DEPLOY.md:255 says the workers are probed every interval. `ProbeWorkersIfNeeded`
  is called only from `SelectWorker`, so a worker that was taken out stays out
  until there is a job to place.
* docs/SPEC.md:572 says queued jobs are executed with correct results. A request
  times out after `request_timeout_ms` (3 s) whatever the number and limits of
  its tests, so a long list of tests is recorded as `system_error` although a
  worker judged it to the end.
* A correct output of more than 64 KiB is compared cut, with an expected output
  that is not (`judge_executor.h:124`), and counts as wrong.
* A `PUT` that changes nothing may be answered 404, as the DAO looks at the
  number of changed rows.
* Bytes behind a request that was refused or asked to close are not parsed
  while the connection drains, but `HandleClose` may still hand them to the
  callback when the connection fails.
* DEPLOY.md:253 says the worker with the fewest requests gets the next; a
  re-registration or a failed probe zeroes the count of a busy worker
  (`judge_worker_balancer.h:26`).
* docs/web_testcase.md:137 says a banned user can no longer log in or submit.
  `LoginHandler` does not look at `status`, and `VerifyJwt` asks no table.
  Tokens live for 3600 s, a constant, whatever `expires_seconds` says
  (DEPLOY.md:91).
* A handler's own body for a status of 400 and above (say `user exists`) is
  replaced by the error handler's; a static file that cannot be read is answered
  with 200 and no body.
* A form whose boundary has no line break before it yields the rest of the body
  (`net/http.hpp:612`).
* A log file exceeds `max_file_size` (config.yaml:35) by part of the line that fills
  it, as the size is compared after the line was written (`utils/logger.cpp:196`),
  and by as much as fits again after a restart or a failed `tar`, as an opening
  appends and counts from 0; lines of a tool
  are lost when the server archives the file it has open.
* docs/web_testcase.md:147 says the result page stops polling after an error.
  If an answer that is not final is still under way it starts again.
* Of two pages whose templates are fetched at once the one that comes last is
  shown, whatever the address (`web/js/app.js:122`), and the other is never
  cleaned up; docs/web_testcase.md:155 says that path and content agree.
  `ShownIsAddressed` leaves exactly this case out (`raced`).
* net/http.hpp:946 says that data that cannot be parsed is answered with an error.
  A Content-Length that `std::stol` refuses is not: the exception (`http.hpp:435`)
  leaves `OnMessage`, whose `try` begins later, and ends the event loop and the
  server. `LeaveByException` is that step, and `CutIndependent` says that nothing
  else makes the callback end so.
* `judge/judger_cli.cpp`, which CMakeLists.txt:71 builds, defines `main` (and two
  helpers) twice.

## Plan

1. *Done*: balancer, manager, pool.
2. *Done*: event loop, timer wheel, connection life cycle.
3. *Done*: buffer and incremental HTTP parsing, routing and forms.
4. *Done*: catalogue, executor and their composition.
5. *Done*: accounts, logger, the browser.
6. *Done*: the inductive invariants of all of these, and the refinements
   `BalancerSpec`, `CountdownTimers` and `ByteQueue`.
7. *Done*: what a whole message means, and that the parser's steps give that
   for every cut (`CutInv`).
8. Open: restarts of the server within `JudgeManager` and a registration thread
   that ends. Both multiply a state space that is at its limit; with the safety
   properties proved, a smaller instance is enough for them.
