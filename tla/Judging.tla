-------------------------------- MODULE Judging --------------------------------
(***************************************************************************)
(* The way of a submission from the catalogue to its verdict: the handlers *)
(* of the server process (Catalog) hand payloads to the judge threads and  *)
(* the workers (JudgeExecutor).  The payload is a snapshot: what admins    *)
(* change later does not reach it.                                         *)
(***************************************************************************)
EXTENDS Catalog, JudgeExecutor

ASSUME JobsAreRows == Jobs = 1..MaxRows

ASSUME RunsEnd ==
    \A program \in Programs, d \in Data, limits \in Limits : RunOf(program, d, limits) \in Runs

vars == <<catalogVars, executorVars>>

Init == CatalogInit /\ ExecutorInit

\* BuildJudgePayload.
PayloadOf(row) == [program |-> row.program, tests |-> row.tests, limits |-> row.limits]

PostSubmission(p, program, mode, ending) ==
    /\ Submit(p, program, mode, ending)
    /\ sent' = IF ending = "ok" THEN [sent EXCEPT ![Len(rows')] = PayloadOf(Last(rows'))] ELSE sent
    /\ UNCHANGED <<attempts, awaited, verdict, inbox, work, built, output>>

\* The queue and the judge threads go with the server process.  The workers
\* stay, and execute what they have been sent.
KillServer ==
    /\ Kill
    /\ attempts' = [j \in Jobs |-> IF sent[j] = NoPayload THEN 0 ELSE MaxAttempts]
    /\ awaited' = [j \in Jobs |-> 0]
    /\ UNCHANGED <<sent, verdict, inbox, work, built, output>>

Next ==
    \/ KillServer
    \/ CatalogNext /\ UNCHANGED executorVars
    \/ \E p \in ProblemIds, program \in Programs, mode \in {"run", "submit"}, e \in Endings :
          PostSubmission(p, program, mode, e)
    \/ ExecutorNext /\ UNCHANGED catalogVars

Spec == Init /\ [][Next]_vars
-----------------------------------------------------------------------------
\* Type invariant.  Among its parts: a row and its payload agree, and only a
\* queued row has one.
TypeOK ==
    /\ CatalogTypeOK /\ ExecutorTypeOK
    /\ \A j \in Jobs :
          sent[j] = IF j \in DOMAIN rows /\ rows[j].queued THEN PayloadOf(rows[j]) ELSE NoPayload

PassesAll(row) == \A d \in row.wanted : Passes(RunOf(row.program, d, row.limits))

AcceptedInFull(j) == verdict[j] = "accepted" /\ rows[j].mode = "submit"

\* A submission accepted in mode `submit' passes every test case that the
\* admin was told the problem has when it was posted, provided that no change
\* of these cases was without success: from the admin's requests through the
\* tables, the payload and overlapping attempts to the verdict.
AcceptedPassesAll ==
    \A j \in Jobs : AcceptedInFull(j) /\ rows[j].settled => PassesAll(rows[j])

\* docs/SPEC.md: Submit executes all test cases.  The same without the
\* proviso: an upload replaces the cases by one statement per case, and what
\* one that fails leaves behind is what submissions are accepted on.
AllCasesCount ==
    \A j \in Jobs : AcceptedInFull(j) => PassesAll(rows[j])

\* docs/SPEC.md: the result of a queued task is correct.  The status recorded
\* for a program that passes every test it is given is `accepted'.
CorrectIsAccepted ==
    \A j \in Jobs : Deserved(j) = {"accepted"} => verdict[j] \in {"none", "accepted", "system_error"}
=============================================================================
