-------------------------------- MODULE Catalog --------------------------------
(***************************************************************************)
(* The catalogue of the judge: problems, their test cases and a language,  *)
(* as the admin handlers (handler/admin_handler.cpp) change them and the   *)
(* submission handler reads them, through ProblemDao, TestCaseDao and      *)
(* LanguageDao.                                                            *)
(*                                                                         *)
(* One thread serves all HTTP requests, so a handler runs alone.  But each *)
(* of its statements is a transaction of its own on a connection of its    *)
(* own: it may fail, it may take effect and have its answer lost, and the  *)
(* process may be killed between two of them.  Requests here have passed   *)
(* RequireAdmin; the others change nothing.                                *)
(***************************************************************************)
EXTENDS Integers, Sequences, SequencesExt, FiniteSets

CONSTANTS
    MaxProblems, \* bound on problems created
    MaxRequests, \* bound on requests of admins
    MaxRows,     \* bound on submissions
    Limits,      \* what matters of a problem's content: its resource limits
    Data,        \* contents of a test case: its input and its output
    Archives,    \* what zip files hold: sequences of Data
    SortOrders,  \* sort_order of the cases added one by one; those of a zip
                 \* file are numbered from 1
    Programs,    \* programs users submit
    Faults       \* subset of {"sql", "kill"}

ASSUME CatalogAssumption ==
    /\ MaxProblems \in Nat /\ MaxRequests \in Nat /\ MaxRows \in Nat
    /\ Archives \subseteq Seq(Data)
    /\ "absent" \notin Limits /\ SortOrders \subseteq Int
    /\ Faults \subseteq {"sql", "kill"}

ProblemIds == 1..MaxProblems

VARIABLES
    problems,   \* table problems: per id its limits, or "absent"
    cases,      \* table test_cases: records [id, problem, is_sample, order, data]
    nextCase,   \* AUTO_INCREMENT of test_cases
    enabled,    \* table languages: the language is enabled
    rows,       \* table submissions, with the payload handed to the manager and
                \* (history) the cases the admin thinks the problem has, and
                \* whether all changes of them had success
    upload,     \* the zip upload that is under way, or NoUpload
    intended,   \* per problem: the cases its admin has been told it has
    failed,     \* <<problem, is_sample>>: a change of these cases had no success
    requests    \* number of requests of admins so far

tables == <<problems, cases, nextCase, enabled, rows>>
catalogVars == <<tables, upload, intended, failed, requests>>

NoUpload == [problem |-> 0, todo |-> <<>>, done |-> 0, deleted |-> FALSE]

CatalogInit ==
    /\ problems = [p \in ProblemIds |-> "absent"]
    /\ cases = {} /\ nextCase = 1
    /\ enabled = TRUE
    /\ rows = <<>>
    /\ upload = NoUpload
    /\ intended = [p \in ProblemIds |-> {}]
    /\ failed = {}
    /\ requests = 0

\* No handler is running.
Ready == upload = NoUpload

\* An admin's request is taken up.
AdminRequest ==
    /\ Ready
    /\ requests < MaxRequests /\ requests' = requests + 1

Exists(p) == problems[p] # "absent"

CasesOf(p) == {c \in cases : c.problem = p}

\* DeleteByProblem, with only_non_sample.
WithoutTests(p) == {c \in cases : c.problem = p => c.is_sample}

\* What an admin knows of a case.
Shape(c) == [is_sample |-> c.is_sample, order |-> c.order, data |-> c.data]

\* ORDER BY sort_order, id.
Before(c, d) == c.order < d.order \/ (c.order = d.order /\ c.id < d.id)

\* The k-th case of the list is the one that k - 1 others come before.
ListByProblem(p, only_sample) ==
    LET found == {c \in CasesOf(p) : only_sample => c.is_sample}
    IN  [k \in 1..Cardinality(found) |->
            CHOOSE c \in found : Cardinality({d \in found : Before(d, c)}) = k - 1]

\* How a statement may end: it takes effect and says so, it fails, or it
\* takes effect and the answer is lost.
Endings == {"ok"} \cup (IF "sql" \in Faults THEN {"error", "lost"} ELSE {})
-----------------------------------------------------------------------------
(***************************************************************************)
(* Handlers of one statement that matters.                                 *)
(***************************************************************************)
\* INSERT INTO problems.
ProblemCreate(p, limits) == problems' = [problems EXCEPT ![p] = limits]

\* UPDATE problems, with all columns.
ProblemUpdate(p, limits) == problems' = [problems EXCEPT ![p] = limits]

\* DELETE FROM problems: the schema cascades to the test cases.
ProblemDelete(p) ==
    /\ problems' = [problems EXCEPT ![p] = "absent"]
    /\ cases' = cases \ CasesOf(p)

\* A failed statement changes nothing here and a lost answer nothing else.
\* (The id of a deleted problem, to which nothing refers, stands for a new
\* one.)
CreateProblem(limits) ==
    /\ AdminRequest
    /\ \E p \in ProblemIds :
          /\ ~Exists(p) /\ \A q \in 1..(p - 1) : Exists(q)
          /\ ProblemCreate(p, limits)
    /\ UNCHANGED <<cases, nextCase, enabled, rows, upload, intended, failed>>

UpdateProblem(p, limits) ==
    /\ AdminRequest /\ Exists(p)
    /\ ProblemUpdate(p, limits)
    /\ UNCHANGED <<cases, nextCase, enabled, rows, upload, intended, failed>>

\* Mutant: problems that have submissions are deleted too.
DeleteProblem_NoCheck(p) ==
    /\ AdminRequest /\ Exists(p)
    /\ ProblemDelete(p)
    /\ intended' = [intended EXCEPT ![p] = {}]
    /\ failed' = failed \ ({p} \X BOOLEAN)
    /\ UNCHANGED <<nextCase, enabled, rows, upload>>

\* The schema refuses to delete a problem that has submissions.
DeleteProblem(p) ==
    /\ AdminRequest /\ Exists(p)
    /\ \A r \in DOMAIN rows : rows[r].problem # p
    /\ ProblemDelete(p)
    /\ intended' = [intended EXCEPT ![p] = {}]
    /\ failed' = failed \ ({p} \X BOOLEAN)
    /\ UNCHANGED <<nextCase, enabled, rows, upload>>

Insert(p, is_sample, order, data) ==
    /\ cases' = cases \cup {[id |-> nextCase, problem |-> p, is_sample |-> is_sample,
                             order |-> order, data |-> data]}
    /\ nextCase' = nextCase + 1

AddCase(p, is_sample, order, data, ending) ==
    /\ AdminRequest /\ Exists(p)
    /\ IF ending = "error" THEN UNCHANGED <<cases, nextCase>> ELSE Insert(p, is_sample, order, data)
    /\ IF ending = "ok"
       THEN /\ intended' = [intended EXCEPT ![p] = @ \cup
                                {[is_sample |-> is_sample, order |-> order, data |-> data]}]
            /\ UNCHANGED failed
       ELSE failed' = failed \cup {<<p, is_sample>>} /\ UNCHANGED intended
    /\ UNCHANGED <<problems, enabled, rows, upload>>

LanguageUpdate(on) == enabled' = on

UpdateLanguage(on) ==
    /\ AdminRequest
    /\ LanguageUpdate(on)
    /\ UNCHANGED <<problems, cases, nextCase, rows, upload, intended, failed>>
-----------------------------------------------------------------------------
(***************************************************************************)
(* The zip upload: replace all cases that are not samples.                 *)
(***************************************************************************)

\* The archive is unpacked into a temporary directory and parsed; its pairs
\* are 1.in, 1.out and so on.  One without valid pairs is refused, and the
\* directory removed.
UploadBegin(p, archive) ==
    /\ AdminRequest /\ Exists(p)
    /\ archive # <<>>
    /\ upload' = [problem |-> p, todo |-> archive, done |-> 0, deleted |-> FALSE]
    /\ UNCHANGED <<tables, intended, failed>>

\* Mutant: samples are deleted as well.
UploadDelete_All(ending) ==
    /\ ~Ready /\ ~upload.deleted /\ ending = "ok"
    /\ upload' = [upload EXCEPT !.deleted = TRUE]
    /\ cases' = cases \ CasesOf(upload.problem)
    /\ UNCHANGED <<problems, nextCase, enabled, rows, intended, failed, requests>>

UploadDelete(ending) ==
    /\ ~Ready /\ ~upload.deleted /\ ending = "ok"
    /\ upload' = [upload EXCEPT !.deleted = TRUE]
    /\ cases' = WithoutTests(upload.problem)
    /\ UNCHANGED <<problems, nextCase, enabled, rows, intended, failed, requests>>

UploadAdd(ending) ==
    /\ ~Ready /\ upload.deleted /\ upload.done < Len(upload.todo) /\ ending = "ok"
    /\ upload' = [upload EXCEPT !.done = @ + 1]
    /\ Insert(upload.problem, FALSE, upload.done + 1, upload.todo[upload.done + 1])
    /\ UNCHANGED <<problems, enabled, rows, intended, failed, requests>>

\* A statement of the upload fails: the exception leaves the handler, with
\* what the earlier statements did and with the temporary directory.
UploadFails(ending) ==
    /\ ~Ready /\ ending # "ok"
    /\ ~upload.deleted \/ upload.done < Len(upload.todo)
    /\ \/ ending = "error" /\ UNCHANGED <<cases, nextCase>>
       \/ /\ ending = "lost" /\ upload.deleted
          /\ Insert(upload.problem, FALSE, upload.done + 1, upload.todo[upload.done + 1])
       \/ /\ ending = "lost" /\ ~upload.deleted
          /\ cases' = WithoutTests(upload.problem) /\ UNCHANGED nextCase
    /\ upload' = NoUpload
    /\ failed' = failed \cup {<<upload.problem, FALSE>>}
    /\ UNCHANGED <<problems, enabled, rows, intended, requests>>

\* The cases the archive's order makes of it.
Numbered(archive) ==
    {[is_sample |-> FALSE, order |-> k, data |-> archive[k]] : k \in DOMAIN archive}

UploadEnd ==
    /\ ~Ready /\ upload.deleted /\ upload.done = Len(upload.todo)
    /\ upload' = NoUpload
    /\ intended' = [intended EXCEPT ![upload.problem] =
                        {c \in @ : c.is_sample} \cup Numbered(upload.todo)]
    /\ failed' = failed \ {<<upload.problem, FALSE>>}
    /\ UNCHANGED <<tables, requests>>

\* The server process is killed, and started again; the tables stay.
Kill ==
    /\ "kill" \in Faults
    /\ upload' = NoUpload
    /\ failed' = IF Ready THEN failed ELSE failed \cup {<<upload.problem, FALSE>>}
    /\ UNCHANGED <<tables, intended, requests>>
-----------------------------------------------------------------------------
(***************************************************************************)
(* POST /api/submissions, up to the judge manager.                         *)
(***************************************************************************)

\* Mutant: every submission is judged on the samples when there are some.
JudgedOn_Samples(p, mode) ==
    LET samples == ListByProblem(p, TRUE)
    IN  IF samples # <<>> THEN samples ELSE ListByProblem(p, FALSE)

\* The cases a submission is judged on: in mode `run' the samples, or all of
\* them when there are no samples.
JudgedOn(p, mode) ==
    LET samples == ListByProblem(p, TRUE)
    IN  IF mode = "run" /\ samples # <<>> THEN samples ELSE ListByProblem(p, FALSE)

\* The row is inserted and the job, with the text of its test cases, goes to
\* the manager.  When the answer of the INSERT is lost the row stays alone.
Submit(p, program, mode, ending) ==
    /\ Ready /\ Exists(p) /\ enabled /\ Len(rows) < MaxRows
    /\ JudgedOn(p, mode) # <<>> /\ ending # "error"
    /\ rows' = Append(rows, [problem |-> p, mode |-> mode, program |-> program,
                             queued |-> ending = "ok",
                             limits |-> problems[p],
                             tests |-> [k \in DOMAIN JudgedOn(p, mode) |-> JudgedOn(p, mode)[k].data],
                             wanted |-> {c.data : c \in intended[p]},
                             settled |-> failed \cap ({p} \X BOOLEAN) = {}])
    /\ UNCHANGED <<problems, cases, nextCase, enabled, upload, intended, failed, requests>>

CatalogNext ==
    \/ \E limits \in Limits : CreateProblem(limits)
    \/ \E p \in ProblemIds, limits \in Limits : UpdateProblem(p, limits)
    \/ \E p \in ProblemIds : DeleteProblem(p)
    \/ \E ending \in Endings :
          \/ \E p \in ProblemIds, is_sample \in BOOLEAN, order \in SortOrders, d \in Data :
                AddCase(p, is_sample, order, d, ending)
          \/ UploadDelete(ending)
          \/ UploadAdd(ending)
          \/ UploadFails(ending)
    \/ \E on \in BOOLEAN : UpdateLanguage(on)
    \/ \E p \in ProblemIds, archive \in Archives : UploadBegin(p, archive)
    \/ UploadEnd
-----------------------------------------------------------------------------
\* Type invariant of the catalogue.
CatalogTypeOK ==
    /\ problems \in [ProblemIds -> Limits \cup {"absent"}]
    /\ nextCase \in Nat \ {0} /\ requests \in 0..MaxRequests
    /\ \A c \in cases :
          /\ c.id \in 1..(nextCase - 1) /\ Exists(c.problem) /\ c.is_sample \in BOOLEAN
          /\ c.data \in Data
    /\ \A c, d \in cases : c.id = d.id => c = d
    /\ enabled \in BOOLEAN
    /\ \A r \in DOMAIN rows : Exists(rows[r].problem)
    /\ upload.problem \in {0} \cup ProblemIds /\ upload.done \in 0..Len(upload.todo)
    /\ failed \subseteq ProblemIds \X BOOLEAN

\* An admin who was answered with success knows what the problem's cases
\* are: samples survive every upload, an upload replaces all the others by
\* exactly the archive, and a failed upload is mended by repeating it.  Only
\* changes that were not answered with success leave a set of cases that
\* nobody asked for.
AsTold ==
    Ready => \A p \in ProblemIds, is_sample \in BOOLEAN :
        <<p, is_sample>> \notin failed =>
            {Shape(c) : c \in {d \in CasesOf(p) : d.is_sample = is_sample}}
                = {c \in intended[p] : c.is_sample = is_sample}
=============================================================================
