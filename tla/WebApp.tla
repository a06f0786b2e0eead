--------------------------------- MODULE WebApp ---------------------------------
(***************************************************************************)
(* The single-page application in the browser (web/js): app.js shows the   *)
(* page of the address, fetching its template first, and the page of a     *)
(* submission (submission-result.js) polls its status on a timer.  What the *)
(* handlers await, templates and answers, comes in any order or fails;     *)
(* between two awaits a handler runs alone.                                *)
(*                                                                         *)
(* Pages other than a submission's and the login stand as `problems'.      *)
(***************************************************************************)
EXTENDS Integers, SequencesExt, Bags

CONSTANTS
    Submissions, \* ids of submissions: each has a page
    MaxEvents,     \* bound on acts of the user, failures and expirations
    MaxInFlight  \* bound on unanswered polls when a timer sends another

Routes == Submissions \cup {"login", "problems"}

ASSUME WebAppAssumption ==
    /\ Submissions \cap {"login", "problems"} = {} /\ IsFiniteSet(Submissions)
    /\ MaxEvents \in Nat /\ MaxInFlight \in Nat \ {0}

VARIABLES
    row,     \* per submission: its status on the server
    auth,    \* the token in localStorage: "none", "valid", "expired"
    hash,    \* the address
    changes, \* hashchange events to come
    cached,  \* templateCache
    loading, \* the renders that wait for their template, by route
    shown,   \* what #app contains: a route, or "error"
    current, \* the page whose cleanup is cleanupCurrentView, or 0
    pages,   \* the submission pages there have been
    polls,   \* bag of <<page, "sent" or the answer under way>>
    raced,   \* history: the last render began while another waited
    events

addressVars == <<hash, changes>>
viewVars == <<cached, loading, shown, current, raced>>
vars == <<row, auth, addressVars, viewVars, pages, polls, events>>

\* isFinished: `waiting' stands for pending and running.
Statuses == {"waiting", "final"}
Answers == Statuses \cup {"error"}

\* initSubmissionResultPage.  timer is pollTimer: 0, the id of an interval, or
\* the id of one that is cleared; intervals counts those that are not.
NewPage(s) ==
    [of |-> s, timer |-> "none", intervals |-> 0,
     status |-> "loading", summary |-> "loading", left |-> FALSE]

Init ==
    /\ row = [s \in Submissions |-> "waiting"]
    /\ auth = "valid"
    /\ hash \in Routes /\ changes = 1
    /\ cached = {} /\ loading = <<>> /\ shown = "nothing" /\ current = 0
    /\ pages = <<>> /\ polls = EmptyBag
    /\ raced = FALSE /\ events = 0

Template(route) == IF route \in Submissions THEN "submissionResult" ELSE route

\* getCurrentUser drops a token that has expired.
Known == IF auth = "expired" THEN "none" ELSE auth

Cleared(page) == IF page.timer = "on" THEN [page EXCEPT !.intervals = @ - 1] ELSE page
Stopped(page) == [Cleared(page) EXCEPT !.timer = "none"]

\* The catch of refreshResult.
Caught(page) == [Stopped(page) EXCEPT !.summary = "error"]

\* Mutant: a final answer leaves the timer running.
Answered_GoesOn(page, status) ==
    LET drawn == [page EXCEPT !.status = status, !.summary = "result"]
    IN  IF status # "final" /\ page.timer = "none"
        THEN [drawn EXCEPT !.timer = "on", !.intervals = @ + 1]
        ELSE drawn

\* Mutant: only the first answer starts the timer.
Answered_Once(page, status) ==
    LET drawn == [page EXCEPT !.status = status, !.summary = "result"]
    IN  IF status = "final" THEN Stopped(drawn)
        ELSE IF page.status = "loading"
             THEN [drawn EXCEPT !.timer = "on", !.intervals = @ + 1]
             ELSE drawn

\* The rest of refreshResult after an answer.
Answered(page, status) ==
    LET drawn == [page EXCEPT !.status = status, !.summary = "result"]
    IN  IF status = "final" THEN Stopped(drawn)
        ELSE IF page.timer = "none"
             THEN [drawn EXCEPT !.timer = "on", !.intervals = @ + 1]
             ELSE drawn

\* What initSubmissionResultPage returns: pollTimer keeps the id it has.
Cleanup(page) ==
    [Cleared(page) EXCEPT !.timer = IF @ = "none" THEN "none" ELSE "cleared", !.left = TRUE]

\* A poll of page v, or the answer to it, is under way.
Awaits(v) == \E m \in BagToSet(polls) : m[1] = v

\* refreshResult up to its await, on page v of ps.  request() throws at once
\* when it finds the token expired, and has dropped it then.
RefreshResult(ps, v) ==
    /\ auth' = Known
    /\ IF auth = "expired"
       THEN pages' = [ps EXCEPT ![v] = Caught(@)] /\ UNCHANGED polls
       ELSE pages' = ps /\ polls' = polls (+) SetToBag({<<v, "sent">>})

\* navigate, when n events are to come.
To(route, n) ==
    /\ hash' = route
    /\ changes' = n + (IF hash = route THEN 0 ELSE 1)

Event == events < MaxEvents /\ events' = events + 1
-----------------------------------------------------------------------------
(***************************************************************************)
(* app.js                                                                  *)
(***************************************************************************)

\* The rest of render once it has the template: n events are to come.  The
\* login page sends a user who is logged in on.
Show(route, ps, n) ==
    /\ shown' = route
    /\ IF route \in Submissions
       THEN /\ current' = Len(ps) + 1
            /\ RefreshResult(Append(ps, NewPage(route)), Len(ps) + 1)
       ELSE current' = 0 /\ pages' = ps /\ auth' = Known /\ UNCHANGED polls
    /\ IF route = "login" /\ Known # "none"
       THEN To("problems", n)
       ELSE To(hash, n)

\* Mutant: a user who is not logged in gets no page.
Redirect_Ignored ==
    /\ auth' = Known
    /\ changes' = changes - 1
    /\ UNCHANGED <<row, hash, viewVars, pages, polls, events>>

\* render for a user who is not logged in.
Redirect ==
    /\ auth' = Known
    /\ To("login", changes - 1)
    /\ UNCHANGED <<row, viewVars, pages, polls, events>>

\* render up to its await: the page that leaves is cleaned up.
Render ==
    /\ changes > 0
    /\ IF Known = "none" /\ hash # "login"
       THEN Redirect
       ELSE LET ps == IF current = 0 THEN pages ELSE [pages EXCEPT ![current] = Cleanup(@)]
            IN  /\ raced' = (loading # <<>>)
                /\ IF Template(hash) \in cached
                   THEN Show(hash, ps, changes - 1) /\ UNCHANGED loading
                   ELSE /\ loading' = Append(loading, hash)
                        /\ current' = 0 /\ pages' = ps /\ auth' = Known
                        /\ To(hash, changes - 1)
                        /\ UNCHANGED <<shown, polls>>
                /\ UNCHANGED <<row, cached, events>>

TemplateArrives(i) ==
    /\ i \in DOMAIN loading
    /\ loading' = RemoveAt(loading, i)
    /\ cached' = cached \cup {Template(loading[i])}
    /\ Show(loading[i], pages, changes)
    /\ UNCHANGED <<row, raced, events>>

\* The error is shown, and the page stays without one to clean up.
TemplateFails(i) ==
    /\ Event /\ i \in DOMAIN loading
    /\ loading' = RemoveAt(loading, i)
    /\ shown' = "error"
    /\ UNCHANGED <<row, auth, addressVars, cached, current, raced, pages, polls>>

\* A link, the history of the browser, or a submission that was accepted.
Navigate(route) ==
    /\ Event /\ route # hash
    /\ To(route, changes)
    /\ UNCHANGED <<row, auth, viewVars, pages, polls>>

\* onSubmit of the login page, and the click on logout: the request's answer
\* matters to the former only.
Login ==
    /\ Event /\ shown = "login"
    /\ auth' = "valid"
    /\ To("problems", changes)
    /\ UNCHANGED <<row, viewVars, pages, polls>>

Logout ==
    /\ Event /\ auth # "none"
    /\ auth' = "none"
    /\ To("login", changes)
    /\ UNCHANGED <<row, viewVars, pages, polls>>

Expire ==
    /\ Event /\ auth = "valid"
    /\ auth' = "expired"
    /\ UNCHANGED <<row, addressVars, viewVars, pages, polls>>
-----------------------------------------------------------------------------
(***************************************************************************)
(* Polling, and the server                                                 *)
(***************************************************************************)
Tick(v) ==
    /\ v \in DOMAIN pages /\ pages[v].intervals > 0
    /\ BagCardinality(polls) < MaxInFlight
    /\ RefreshResult(pages, v)
    /\ UNCHANGED <<row, addressVars, viewVars, events>>

Reply(v, a) == polls' = (polls (-) SetToBag({<<v, "sent">>})) (+) SetToBag({<<v, a>>})

\* GET /api/submissions/<id> reads the row, or fails.
Serve(v) ==
    /\ BagIn(<<v, "sent">>, polls)
    /\ \/ Reply(v, row[pages[v].of]) /\ UNCHANGED events
       \/ Reply(v, "error") /\ Event
    /\ UNCHANGED <<row, auth, addressVars, viewVars, pages>>

\* refreshResult goes on with the answer or the exception.
Receive(v, a) ==
    /\ BagIn(<<v, a>>, polls)
    /\ polls' = polls (-) SetToBag({<<v, a>>})
    /\ pages' = [pages EXCEPT ![v] = IF a = "error" THEN Caught(@) ELSE Answered(@, a)]
    /\ UNCHANGED <<row, auth, addressVars, viewVars, events>>

\* The judging goes on.
Judged(s) ==
    /\ row[s] = "waiting"
    /\ row' = [row EXCEPT ![s] = "final"]
    /\ UNCHANGED <<auth, addressVars, viewVars, pages, polls, events>>

Polling ==
    \E v \in DOMAIN pages : Tick(v) \/ Serve(v) \/ \E a \in Answers : Receive(v, a)

Next ==
    \/ Render
    \/ \E i \in DOMAIN loading : TemplateArrives(i) \/ TemplateFails(i)
    \/ \E route \in Routes : Navigate(route)
    \/ Login \/ Logout \/ Expire
    \/ Polling
    \/ \E s \in Submissions : Judged(s)

Spec == Init /\ [][Next]_vars

\* Intervals expire, requests end in an answer or an error; a submission is
\* judged to the end.
FairSpec == Spec /\ WF_vars(Polling) /\ \A s \in Submissions : WF_vars(Judged(s))
-----------------------------------------------------------------------------
\* Type invariant; there are as many intervals as timers are on.
TypeOK ==
    /\ row \in [Submissions -> Statuses]
    /\ auth \in {"none", "valid", "expired"}
    /\ hash \in Routes /\ changes \in Nat
    /\ cached \subseteq {Template(r) : r \in Routes}
    /\ loading \in Seq(Routes) /\ shown \in Routes \cup {"nothing", "error"}
    /\ current \in 0..Len(pages)
    /\ \A v \in DOMAIN pages :
          /\ pages[v].of \in Submissions
          /\ pages[v].timer \in {"none", "on", "cleared"}
          /\ pages[v].intervals = IF pages[v].timer = "on" THEN 1 ELSE 0
    /\ IsABag(polls) /\ BagToSet(polls) \subseteq (DOMAIN pages) \X (Answers \cup {"sent"})

\* UI-JUDGE-011, UI-JUDGE-012 (docs/web_testcase.md): a page keeps polling
\* while its submission is not judged.  Whatever the order of the answers, the
\* page of a submission comes to rest on a final status or an error only.
RestsOnResult ==
    \A v \in DOMAIN pages :
        ~pages[v].left /\ pages[v].intervals = 0 /\ ~Awaits(v) =>
            pages[v].status = "final" \/ pages[v].summary = "error"

\* A page has at most one interval, named by its pollTimer, and none only when
\* it has nothing to wait for.
PagesInv == TypeOK /\ RestsOnResult

\* The page shown is the one of the address when nothing is under way, unless
\* two templates were fetched at once: then the one that came last is shown.
ShownIsAddressed ==
    changes = 0 /\ loading = <<>> /\ ~raced => shown \in {hash, "error"}

\* UI-JUDGE-013: polling stops when the submission is judged; so it does on
\* pages that were left before their first answer, whose timer starts
\* afterwards with nobody to clear it.  This is about submissions that are
\* judged in the end: a row that the server has lost is polled for as long as
\* a page of it has an interval.
PollingStops ==
    \A v \in 1..(MaxEvents + 1) :
        <>[](v \in DOMAIN pages => pages[v].intervals = 0 /\ ~Awaits(v))
=============================================================================
