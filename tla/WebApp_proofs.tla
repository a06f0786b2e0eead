----------------------------- MODULE WebApp_proofs -----------------------------
(***************************************************************************)
(* Theorems about the application in the browser, for any submissions and  *)
(* any number of acts, failures and polls under way, whatever the order in *)
(* which templates and answers come.                                       *)
(***************************************************************************)
EXTENDS WebApp, SequenceTheorems, TLAPS

-----------------------------------------------------------------------------
(***************************************************************************)
(* The pages.                                                              *)
(***************************************************************************)
PageFields ==
    [of : Submissions, timer : {"none", "on", "cleared"}, intervals : {0, 1},
     status : {"loading"} \cup Statuses, summary : {"loading", "result", "error"}, left : BOOLEAN]

\* The interval of a page is named by its pollTimer, and only the cleanup
\* leaves the id of one that is cleared.
Page ==
    {p \in PageFields : /\ p.intervals = IF p.timer = "on" THEN 1 ELSE 0
                        /\ p.timer = "cleared" => p.left = TRUE}

\* A page that needs no poll under way: it is left, polls on, or has what it
\* waits for.
Rests(p) == p.left = TRUE \/ p.intervals > 0 \/ p.status = "final" \/ p.summary = "error"

LEMMA ClearedPage ==
    ASSUME NEW p \in Page
    PROVE  /\ Cleared(p) \in PageFields /\ Cleared(p).intervals = 0
           /\ Cleared(p).timer = p.timer /\ Cleared(p).left = p.left
           /\ Cleared(p).status = p.status /\ Cleared(p).summary = p.summary
           /\ Cleared(p).of = p.of
  <1>1. p \in PageFields /\ p.intervals = IF p.timer = "on" THEN 1 ELSE 0
    BY DEF Page
  <1>2. CASE p.timer = "on"
    <2>1. Cleared(p) = [p EXCEPT !.intervals = 0]
      BY <1>1, <1>2 DEF Cleared
    <2> QED
      BY <1>1, <2>1 DEF PageFields
  <1>3. CASE p.timer # "on"
    BY <1>1, <1>3 DEF Cleared
  <1> QED
    BY <1>2, <1>3

LEMMA StoppedPage ==
    ASSUME NEW p \in Page
    PROVE  /\ Stopped(p) \in Page /\ Stopped(p).intervals = 0
           /\ Stopped(p).status = p.status /\ Stopped(p).summary = p.summary
           /\ Stopped(p).of = p.of
  <1> DEFINE c == Cleared(p)
             r == [c EXCEPT !.timer = "none"]
  <1>1. /\ c \in PageFields /\ c.intervals = 0
        /\ c.status = p.status /\ c.summary = p.summary /\ c.of = p.of
    BY ClearedPage
  <1>2. Stopped(p) = r
    BY DEF Stopped
  <1> HIDE DEF c
  <1>3. /\ r \in PageFields /\ r.timer = "none" /\ r.intervals = 0
        /\ r.status = c.status /\ r.summary = c.summary /\ r.of = c.of
    BY <1>1 DEF PageFields
  <1> HIDE DEF r
  <1>4. r \in Page
    BY <1>3 DEF Page
  <1> QED
    BY <1>1, <1>2, <1>3, <1>4

\* An error ends the polling.
LEMMA CaughtPage ==
    ASSUME NEW p \in Page
    PROVE  Caught(p) \in Page /\ Rests(Caught(p)) /\ Caught(p).of = p.of
  <1> DEFINE s == Stopped(p)
             r == [s EXCEPT !.summary = "error"]
  <1>1. s \in Page /\ s \in PageFields /\ s.of = p.of
    BY StoppedPage DEF Page
  <1>2. Caught(p) = r
    BY DEF Caught
  <1> HIDE DEF s
  <1>3. /\ r \in PageFields /\ r.timer = s.timer /\ r.intervals = s.intervals /\ r.left = s.left
        /\ r.of = s.of /\ r.summary = "error"
    BY <1>1 DEF PageFields
  <1>4. r \in Page
    BY <1>1, <1>3 DEF Page
  <1> QED
    BY <1>1, <1>2, <1>3, <1>4 DEF Rests

\* An answer is final, or finds an interval, or starts one.
LEMMA AnsweredPage ==
    ASSUME NEW p \in Page, NEW status \in Statuses
    PROVE  Answered(p, status) \in Page /\ Rests(Answered(p, status)) /\ Answered(p, status).of = p.of
  <1> DEFINE d == [p EXCEPT !.status = status, !.summary = "result"]
             s == Stopped(d)
             on == [d EXCEPT !.timer = "on", !.intervals = @ + 1]
  <1>1. p \in PageFields
    BY DEF Page
  <1>2. d \in PageFields /\ d.status = status /\ d.of = p.of
        /\ d.timer = p.timer /\ d.intervals = p.intervals /\ d.left = p.left
    BY <1>1 DEF PageFields
  <1> HIDE DEF d
  <1>3. d \in Page
    BY <1>2 DEF Page
  <1>4. Answered(p, status) = IF status = "final" THEN s ELSE IF d.timer = "none" THEN on ELSE d
    <2>1. Answered(p, status) = IF status = "final" THEN Stopped(d)
                                ELSE IF p.timer = "none" THEN on ELSE d
      BY <1>2 DEF Answered, d
    <2> QED
      BY <1>2, <2>1
  <1>5. CASE status = "final"
    <2>1. s \in Page /\ s.status = "final" /\ s.of = p.of
      BY <1>2, <1>3, <1>5, StoppedPage
    <2> QED
      BY <1>4, <1>5, <2>1 DEF Rests
  <1>6. CASE status # "final" /\ d.timer = "none"
    <2>1. d.intervals = 0
      BY <1>3, <1>6 DEF Page
    <2>2. on = [[d EXCEPT !.timer = "on"] EXCEPT !.intervals = 1]
      BY <1>2, <2>1 DEF PageFields
    <2>3. on \in PageFields /\ on.timer = "on" /\ on.intervals = 1 /\ on.of = d.of
      BY <1>2, <2>2 DEF PageFields
    <2> HIDE DEF on
    <2>4. on \in Page
      BY <2>3 DEF Page
    <2> QED
      BY <1>2, <1>4, <1>6, <2>3, <2>4 DEF Rests
  <1>7. CASE status # "final" /\ d.timer = "on"
    <2>1. d.intervals = 1
      BY <1>3, <1>7 DEF Page
    <2> QED
      BY <1>2, <1>3, <1>4, <1>7, <2>1 DEF Rests
  <1>8. CASE status # "final" /\ d.timer = "cleared"
    BY <1>2, <1>3, <1>4, <1>8 DEF Rests, Page
  <1> QED
    BY <1>2, <1>5, <1>6, <1>7, <1>8 DEF PageFields

\* The cleanup leaves no interval behind.
LEMMA CleanupPage ==
    ASSUME NEW p \in Page
    PROVE  Cleanup(p) \in Page /\ Rests(Cleanup(p))
  <1> DEFINE c == Cleared(p)
             kind == IF c.timer = "none" THEN "none" ELSE "cleared"
             r == [c EXCEPT !.timer = kind, !.left = TRUE]
  <1>1. c \in PageFields /\ c.intervals = 0
    BY ClearedPage
  <1>2. Cleanup(p) = [c EXCEPT !.timer = IF @ = "none" THEN "none" ELSE "cleared", !.left = TRUE]
    BY DEF Cleanup
  <1> HIDE DEF c
  <1>3. Cleanup(p) = r
    BY <1>2
  <1>4. kind \in {"none", "cleared"}
    OBVIOUS
  <1> HIDE DEF kind
  <1>5. r \in PageFields /\ r.timer = kind /\ r.left = TRUE /\ r.intervals = 0
    BY <1>1, <1>4 DEF PageFields
  <1> HIDE DEF r
  <1>6. r \in Page
    BY <1>4, <1>5 DEF Page
  <1> QED
    BY <1>3, <1>5, <1>6 DEF Rests

LEMMA FreshPage ==
    ASSUME NEW s \in Submissions
    PROVE  NewPage(s) \in Page
  BY DEF NewPage, Page, PageFields
-----------------------------------------------------------------------------
(***************************************************************************)
(* The polls.                                                              *)
(***************************************************************************)
PollsType(n) ==
    /\ IsABag(polls)
    /\ BagToSet(polls) \subseteq (1..n) \X (Answers \cup {"sent"})

\* Every page but, maybe, the one at k rests or awaits an answer.
OthersRest(ps, k) == \A v \in 1..Len(ps) : v = k \/ Awaits(v) \/ Rests(ps[v])

AllRest == \A v \in 1..Len(pages) : Awaits(v) \/ Rests(pages[v])

LEMMA BagAdded ==
    ASSUME NEW B, IsABag(B), NEW m
    PROVE  IsABag(B (+) SetToBag({m})) /\ BagToSet(B (+) SetToBag({m})) = BagToSet(B) \cup {m}
  <1> DEFINE C == B (+) SetToBag({m})
             count == [e \in {m} |-> 1]
  <1>1. C = [e \in (DOMAIN B) \cup {m} |->
                (IF e \in DOMAIN B THEN B[e] ELSE 0) + (IF e \in {m} THEN count[e] ELSE 0)]
    BY DEF (+), SetToBag
  <1>2. DOMAIN C = (DOMAIN B) \cup {m}
    BY <1>1
  <1>3. B \in [DOMAIN B -> {n \in Nat : n > 0}]
    BY DEF IsABag
  <1>4. ASSUME NEW e \in DOMAIN C
        PROVE  C[e] \in {n \in Nat : n > 0}
    <2>1. C[e] = (IF e \in DOMAIN B THEN B[e] ELSE 0) + (IF e = m THEN 1 ELSE 0)
      BY <1>1, <1>2, <1>4
    <2>2. e \in DOMAIN B => B[e] \in Nat /\ B[e] > 0
      BY <1>3
    <2>3. e \in DOMAIN B \/ e = m
      BY <1>2, <1>4
    <2> QED
      BY <2>1, <2>2, <2>3
  <1>5. C = [e \in DOMAIN C |-> C[e]]
    BY <1>1
  <1> HIDE DEF C
  <1>6. C \in [DOMAIN C -> {n \in Nat : n > 0}]
    BY <1>4, <1>5
  <1> QED
    BY <1>2, <1>6 DEF IsABag, BagToSet, C

LEMMA BagRemoved ==
    ASSUME NEW B, IsABag(B), NEW m
    PROVE  /\ IsABag(B (-) SetToBag({m}))
           /\ BagToSet(B (-) SetToBag({m})) \subseteq BagToSet(B)
           /\ BagToSet(B) \subseteq BagToSet(B (-) SetToBag({m})) \cup {m}
  <1> DEFINE D == [e \in DOMAIN B |-> IF e \in {m} THEN B[e] - [x \in {m} |-> 1][e] ELSE B[e]]
             C == [e \in {d \in DOMAIN D : D[d] > 0} |-> D[e]]
  <1>1. B (-) SetToBag({m}) = C
    BY DEF (-), SetToBag
  <1>2. B \in [DOMAIN B -> {n \in Nat : n > 0}]
    BY DEF IsABag
  <1>3. DOMAIN D = DOMAIN B /\ \A e \in DOMAIN B : D[e] = IF e = m THEN B[e] - 1 ELSE B[e]
    OBVIOUS
  <1>4. \A e \in DOMAIN B : D[e] \in Int /\ (e # m => D[e] > 0)
    BY <1>2, <1>3
  <1> HIDE DEF D
  <1>5. DOMAIN C = {d \in DOMAIN B : D[d] > 0} /\ \A e \in DOMAIN C : C[e] = D[e]
    BY <1>3
  <1>6. C \in [DOMAIN C -> {n \in Nat : n > 0}]
    BY <1>3, <1>4
  <1> HIDE DEF C
  <1> QED
    BY <1>1, <1>4, <1>5, <1>6 DEF IsABag, BagToSet

\* refreshResult sends a poll for its page or ends the polling.
LEMMA RefreshKeeps ==
    ASSUME NEW ps \in Seq(Page), NEW v \in 1..Len(ps), PollsType(Len(ps)), OthersRest(ps, v),
           RefreshResult(ps, v)
    PROVE  /\ pages' \in Seq(Page) /\ Len(pages') = Len(ps)
           /\ PollsType(Len(ps))' /\ AllRest'
  <1>0. DOMAIN ps = 1..Len(ps) /\ ps[v] \in Page
    BY LenProperties, ElementOfSeq
  <1>1. CASE auth = "expired"
    <2>1. pages' = [ps EXCEPT ![v] = Caught(ps[v])] /\ polls' = polls
      BY <1>1 DEF RefreshResult
    <2>2. Caught(ps[v]) \in Page /\ Rests(Caught(ps[v]))
      BY <1>0, CaughtPage
    <2>3. /\ pages' \in Seq(Page) /\ Len(pages') = Len(ps)
          /\ \A w \in 1..Len(ps) : pages'[w] = IF w = v THEN Caught(ps[v]) ELSE ps[w]
      BY <2>1, <2>2, ExceptSeq
    <2>4. PollsType(Len(ps))'
      BY <2>1 DEF PollsType
    <2>5. ASSUME NEW w \in 1..Len(pages')
          PROVE  Awaits(w)' \/ Rests(pages'[w])
      BY <2>1, <2>2, <2>3 DEF OthersRest, Awaits
    <2> QED
      BY <2>3, <2>4, <2>5 DEF AllRest
  <1>2. CASE auth # "expired"
    <2>1. pages' = ps /\ polls' = polls (+) SetToBag({<<v, "sent">>})
      BY <1>2 DEF RefreshResult
    <2>2. IsABag(polls') /\ BagToSet(polls') = BagToSet(polls) \cup {<<v, "sent">>}
      BY <2>1, BagAdded DEF PollsType
    <2>3. PollsType(Len(ps))'
      BY <2>2 DEF PollsType
    <2>4. Awaits(v)' /\ \A w : Awaits(w) => Awaits(w)'
      <3>1. <<v, "sent">>[1] = v /\ <<v, "sent">> \in BagToSet(polls')
        BY <2>2
      <3>2. BagToSet(polls) \subseteq BagToSet(polls')
        BY <2>2
      <3> QED
        BY <3>1, <3>2 DEF Awaits
    <2>5. ASSUME NEW w \in 1..Len(pages')
          PROVE  Awaits(w)' \/ Rests(pages'[w])
      BY <2>1, <2>4 DEF OthersRest
    <2> QED
      BY <2>1, <2>3, <2>5 DEF AllRest
  <1> QED
    BY <1>1, <1>2
-----------------------------------------------------------------------------
(***************************************************************************)
(* The inductive invariant.                                                *)
(***************************************************************************)
ServerPart ==
    /\ row \in [Submissions -> Statuses]
    /\ auth \in {"none", "valid", "expired"}

PagesPart ==
    /\ pages \in Seq(Page) /\ current \in 0..Len(pages)
    /\ PollsType(Len(pages)) /\ AllRest

\* Unless two renders have waited at once, there is one at most, and when the
\* address has been heeded it is the address's, or that is shown.
Ordered ==
    raced = FALSE =>
        /\ Len(loading) <= 1
        /\ changes = 0 => IF loading = <<>> THEN shown \in {hash, "error"} ELSE loading[1] = hash

ViewPart ==
    /\ hash \in Routes /\ changes \in Nat
    /\ cached \subseteq {Template(r) : r \in Routes}
    /\ loading \in Seq(Routes) /\ shown \in Routes \cup {"nothing", "error"}
    /\ raced \in BOOLEAN /\ Ordered

IInv == ServerPart /\ PagesPart /\ ViewPart

LEMMA Initially == Init => IInv
  <1> SUFFICES ASSUME Init
               PROVE  IInv
    OBVIOUS
  <1>1. ServerPart
    BY DEF Init, ServerPart, Statuses
  <1>2. PagesPart
    <2>1. pages = <<>> /\ current = 0 /\ polls = EmptyBag
      BY DEF Init
    <2>2. pages \in Seq(Page) /\ Len(pages) = 0
      BY <2>1, EmptySeq
    <2>3. IsABag(EmptyBag) /\ BagToSet(EmptyBag) = {}
      BY DEF IsABag, BagToSet, EmptyBag, SetToBag
    <2> QED
      BY <2>1, <2>2, <2>3 DEF PagesPart, PollsType, AllRest
  <1>3. ViewPart
    <2>1. hash \in Routes /\ changes = 1 /\ cached = {} /\ loading = <<>> /\ shown = "nothing"
      BY DEF Init
    <2>2. raced \in BOOLEAN
      BY DEF Init
    <2>3. <<>> \in Seq(Routes) /\ Len(<<>>) = 0
      BY EmptySeq
    <2> QED
      BY <2>1, <2>2, <2>3 DEF ViewPart, Ordered
  <1> QED
    BY <1>1, <1>2, <1>3 DEF IInv

LEMMA ServerKept ==
    ASSUME IInv, [Next]_vars
    PROVE  ServerPart'
  <1>1. row' = row \/ \E s \in Submissions : row' = [row EXCEPT ![s] = "final"]
    BY DEF Next, Render, Redirect, TemplateArrives, TemplateFails, Navigate, Login, Logout, Expire,
           Polling, Tick, Serve, Receive, Judged, vars
  <1>2. auth' \in {auth, Known, "none", "valid", "expired"}
    <2>1. ASSUME NEW route, NEW ps, NEW n, Show(route, ps, n)
          PROVE  auth' = Known
      BY <2>1 DEF Show, RefreshResult
    <2>2. CASE Render
      BY <2>1, <2>2 DEF Render, Redirect
    <2>3. ASSUME NEW i \in DOMAIN loading, TemplateArrives(i)
          PROVE  auth' = Known
      BY <2>1, <2>3 DEF TemplateArrives
    <2>4. CASE ~Render /\ ~\E i \in DOMAIN loading : TemplateArrives(i)
      BY <2>4 DEF Next, TemplateFails, Navigate, Login, Logout, Expire,
                  Polling, Tick, RefreshResult, Serve, Receive, Judged, vars
    <2> QED
      BY <2>2, <2>3, <2>4
  <1> QED
    BY <1>1, <1>2 DEF IInv, ServerPart, Statuses, Known
-----------------------------------------------------------------------------
(***************************************************************************)
(* The steps keep the pages.                                               *)
(***************************************************************************)
LEMMA MorePolls ==
    ASSUME NEW n \in Nat, PollsType(n)
    PROVE  PollsType(n + 1)
  <1>1. 1..n \subseteq 1..(n + 1)
    OBVIOUS
  <1> QED
    BY <1>1 DEF PollsType

\* A page is shown: a submission's polls at once.
LEMMA ShowKeepsPages ==
    ASSUME NEW route, NEW ps \in Seq(Page), PollsType(Len(ps)), OthersRest(ps, 0),
           NEW n, Show(route, ps, n)
    PROVE  PagesPart'
  <1>0. Len(ps) \in Nat
    BY LenProperties
  <1>1. CASE route \in Submissions
    <2> DEFINE qs == Append(ps, NewPage(route))
               k == Len(ps) + 1
    <2>1. current' = k /\ RefreshResult(qs, k)
      BY <1>1 DEF Show
    <2>2. /\ qs \in Seq(Page) /\ Len(qs) = k /\ k \in 1..Len(qs)
          /\ \A v \in 1..Len(ps) : qs[v] = ps[v]
      BY <1>0, <1>1, FreshPage, AppendProperties
    <2>3. PollsType(Len(qs))
      BY <1>0, <2>2, MorePolls
    <2>4. OthersRest(qs, k)
      BY <1>0, <2>2 DEF OthersRest
    <2> HIDE DEF qs, k
    <2>5. /\ pages' \in Seq(Page) /\ Len(pages') = Len(qs)
          /\ PollsType(Len(qs))' /\ AllRest'
      BY <2>1, <2>2, <2>3, <2>4, RefreshKeeps
    <2>6. PollsType(Len(pages))'
      BY <2>5 DEF PollsType
    <2> QED
      BY <2>1, <2>2, <2>5, <2>6 DEF PagesPart
  <1>2. CASE route \notin Submissions
    <2>1. current' = 0 /\ pages' = ps /\ polls' = polls
      BY <1>2 DEF Show
    <2> QED
      BY <1>0, <2>1 DEF PagesPart, PollsType, AllRest, OthersRest, Awaits
  <1> QED
    BY <1>1, <1>2

\* The page that leaves needs nothing any more.
LEMMA LeaveKeepsPages ==
    ASSUME PagesPart, NEW ps,
           ps = IF current = 0 THEN pages ELSE [pages EXCEPT ![current] = Cleanup(pages[current])]
    PROVE  ps \in Seq(Page) /\ Len(ps) = Len(pages) /\ OthersRest(ps, 0)
  <1>1. CASE current = 0
    BY <1>1 DEF PagesPart, AllRest, OthersRest
  <1>2. CASE current # 0
    <2>1. current \in 1..Len(pages) /\ pages \in Seq(Page)
      BY <1>2, LenProperties DEF PagesPart
    <2>2. Cleanup(pages[current]) \in Page /\ Rests(Cleanup(pages[current]))
      BY <2>1, ElementOfSeq, CleanupPage
    <2>3. /\ ps \in Seq(Page) /\ Len(ps) = Len(pages)
          /\ \A v \in 1..Len(pages) : ps[v] = IF v = current THEN Cleanup(pages[current]) ELSE pages[v]
      BY <1>2, <2>1, <2>2, ExceptSeq
    <2> QED
      BY <2>2, <2>3 DEF PagesPart, AllRest, OthersRest
  <1> QED
    BY <1>1, <1>2

LEMMA RenderKeepsPages ==
    ASSUME PagesPart, Render
    PROVE  PagesPart'
  <1> DEFINE ps == IF current = 0 THEN pages ELSE [pages EXCEPT ![current] = Cleanup(pages[current])]
  <1>1. CASE Redirect
    <2>1. pages' = pages /\ polls' = polls /\ current' = current
      BY <1>1 DEF Redirect, viewVars
    <2> QED
      BY <2>1 DEF PagesPart, PollsType, AllRest, Awaits
  <1>2. ps \in Seq(Page) /\ Len(ps) = Len(pages) /\ OthersRest(ps, 0) /\ PollsType(Len(ps))
    <2>1. ps \in Seq(Page) /\ Len(ps) = Len(pages) /\ OthersRest(ps, 0)
      BY LeaveKeepsPages
    <2> QED
      BY <2>1 DEF PagesPart
  <1>3. Redirect \/ Show(hash, ps, changes - 1) \/ (current' = 0 /\ pages' = ps /\ polls' = polls)
    BY DEF Render
  <1> HIDE DEF ps
  <1>4. CASE Show(hash, ps, changes - 1)
    BY <1>2, <1>4, ShowKeepsPages
  <1>5. CASE current' = 0 /\ pages' = ps /\ polls' = polls
    <2>1. Len(ps) \in Nat
      BY <1>2, LenProperties
    <2> QED
      BY <1>2, <1>5, <2>1 DEF PagesPart, PollsType, AllRest, OthersRest, Awaits
  <1> QED
    BY <1>1, <1>3, <1>4, <1>5

LEMMA TickKeepsPages ==
    ASSUME PagesPart, NEW v, Tick(v)
    PROVE  PagesPart'
  <1>1. v \in 1..Len(pages) /\ pages \in Seq(Page) /\ current' = current /\ RefreshResult(pages, v)
    BY LenProperties DEF Tick, viewVars, PagesPart
  <1>2. OthersRest(pages, v)
    BY DEF PagesPart, AllRest, OthersRest
  <1>3. pages' \in Seq(Page) /\ Len(pages') = Len(pages) /\ PollsType(Len(pages))' /\ AllRest'
    <2>0. PICK ps : ps = pages
      OBVIOUS
    <2>1. ps \in Seq(Page) /\ v \in 1..Len(ps) /\ PollsType(Len(ps)) /\ OthersRest(ps, v)
          /\ RefreshResult(ps, v)
      BY <1>1, <1>2, <2>0 DEF PagesPart
    <2>2. pages' \in Seq(Page) /\ Len(pages') = Len(ps) /\ PollsType(Len(ps))' /\ AllRest'
      BY <2>1, RefreshKeeps
    <2>3. PollsType(Len(pages))'
      BY <2>2 DEF PollsType
    <2> QED
      BY <2>0, <2>2, <2>3
  <1> QED
    BY <1>1, <1>3 DEF PagesPart

\* A poll gives way to its answer.
LEMMA ServeKeepsPages ==
    ASSUME IInv, NEW v \in DOMAIN pages, Serve(v)
    PROVE  PagesPart'
  <1> DEFINE B == polls (-) SetToBag({<<v, "sent">>})
  <1>1. /\ pages \in Seq(Page) /\ v \in 1..Len(pages) /\ IsABag(polls)
        /\ BagToSet(polls) \subseteq (1..Len(pages)) \X (Answers \cup {"sent"})
        /\ pages' = pages /\ current' = current
    BY LenProperties DEF IInv, PagesPart, PollsType, Serve, viewVars
  <1>2. PICK a \in Answers : polls' = B (+) SetToBag({<<v, a>>})
    <2>1. pages[v] \in Page
      BY <1>1, ElementOfSeq
    <2>2. pages[v].of \in Submissions
      BY <2>1 DEF Page, PageFields
    <2>3. row[pages[v].of] \in Answers
      BY <2>2 DEF IInv, ServerPart, Answers
    <2> QED
      BY <2>3 DEF Serve, Reply, Answers
  <1>3. /\ IsABag(B) /\ BagToSet(B) \subseteq BagToSet(polls)
        /\ BagToSet(polls) \subseteq BagToSet(B) \cup {<<v, "sent">>}
    BY <1>1, BagRemoved
  <1> HIDE DEF B
  <1>4. IsABag(polls') /\ BagToSet(polls') = BagToSet(B) \cup {<<v, a>>}
    BY <1>2, <1>3, BagAdded
  <1>5. PollsType(Len(pages))'
    BY <1>1, <1>3, <1>4 DEF PollsType
  <1>6. ASSUME NEW w, Awaits(w)
        PROVE  Awaits(w)'
    <2>1. PICK m \in BagToSet(polls) : m[1] = w
      BY <1>6 DEF Awaits
    <2>2. CASE m \in BagToSet(B)
      BY <1>4, <2>1, <2>2 DEF Awaits
    <2>3. CASE m = <<v, "sent">>
      <3>1. <<v, a>> \in BagToSet(polls') /\ <<v, a>>[1] = w
        BY <1>4, <2>1, <2>3
      <3> QED
        BY <3>1 DEF Awaits
    <2> QED
      BY <1>3, <2>2, <2>3
  <1>7. AllRest'
    BY <1>1, <1>6 DEF AllRest, IInv, PagesPart
  <1> QED
    BY <1>1, <1>5, <1>7 DEF PagesPart, IInv

\* The page whose answer comes rests on it.
LEMMA ReceiveKeepsPages ==
    ASSUME PagesPart, NEW v \in DOMAIN pages, NEW a \in Answers, Receive(v, a)
    PROVE  PagesPart'
  <1> DEFINE p == IF a = "error" THEN Caught(pages[v]) ELSE Answered(pages[v], a)
  <1>1. /\ pages \in Seq(Page) /\ v \in 1..Len(pages) /\ pages[v] \in Page
        /\ current' = current /\ pages' = [pages EXCEPT ![v] = p]
        /\ polls' = polls (-) SetToBag({<<v, a>>}) /\ IsABag(polls)
    BY LenProperties, ElementOfSeq DEF PagesPart, PollsType, Receive, viewVars
  <1>2. p \in Page /\ Rests(p)
    <2>1. CASE a = "error"
      BY <1>1, <2>1, CaughtPage
    <2>2. CASE a # "error"
      <3>1. a \in Statuses
        BY <2>2 DEF Answers
      <3> QED
        BY <1>1, <2>2, <3>1, AnsweredPage
    <2> QED
      BY <2>1, <2>2
  <1> HIDE DEF p
  <1>3. /\ pages' \in Seq(Page) /\ Len(pages') = Len(pages)
        /\ \A w \in 1..Len(pages) : pages'[w] = IF w = v THEN p ELSE pages[w]
    BY <1>1, <1>2, ExceptSeq
  <1>4. /\ IsABag(polls') /\ BagToSet(polls') \subseteq BagToSet(polls)
        /\ BagToSet(polls) \subseteq BagToSet(polls') \cup {<<v, a>>}
    BY <1>1, BagRemoved
  <1>5. PollsType(Len(pages))'
    BY <1>3, <1>4 DEF PagesPart, PollsType
  <1>6. ASSUME NEW w, w # v, Awaits(w)
        PROVE  Awaits(w)'
    <2>1. PICK m \in BagToSet(polls) : m[1] = w
      BY <1>6 DEF Awaits
    <2>2. m # <<v, a>>
      BY <1>6, <2>1
    <2> QED
      BY <1>4, <2>1, <2>2 DEF Awaits
  <1>7. AllRest'
    <2> SUFFICES ASSUME NEW w \in 1..Len(pages')
                 PROVE  Awaits(w)' \/ Rests(pages'[w])
      BY DEF AllRest
    <2>1. CASE w = v
      BY <1>2, <1>3, <2>1
    <2>2. CASE w # v
      <3>1. Awaits(w) \/ Rests(pages[w])
        BY <1>3 DEF PagesPart, AllRest
      <3> QED
        BY <1>3, <1>6, <2>2, <3>1
    <2> QED
      BY <2>1, <2>2
  <1> QED
    BY <1>1, <1>3, <1>5, <1>7 DEF PagesPart

LEMMA PagesKept ==
    ASSUME IInv, [Next]_vars
    PROVE  PagesPart'
  <1>0. PagesPart /\ loading \in Seq(Routes)
    BY DEF IInv, ViewPart
  <1>1. CASE Render
    BY <1>0, <1>1, RenderKeepsPages
  <1>2. ASSUME NEW i \in DOMAIN loading, TemplateArrives(i)
        PROVE  PagesPart'
    <2> DEFINE ps == pages
    <2>1. ps \in Seq(Page) /\ PollsType(Len(ps)) /\ OthersRest(ps, 0)
      BY <1>0 DEF PagesPart, AllRest, OthersRest
    <2>2. Show(loading[i], ps, changes)
      BY <1>2 DEF TemplateArrives
    <2> HIDE DEF ps
    <2> QED
      BY <2>1, <2>2, ShowKeepsPages
  <1>3. ASSUME NEW v \in DOMAIN pages, Tick(v)
        PROVE  PagesPart'
    BY <1>0, <1>3, TickKeepsPages
  <1>4. ASSUME NEW v \in DOMAIN pages, Serve(v)
        PROVE  PagesPart'
    BY <1>4, ServeKeepsPages
  <1>5. ASSUME NEW v \in DOMAIN pages, NEW a \in Answers, Receive(v, a)
        PROVE  PagesPart'
    BY <1>0, <1>5, ReceiveKeepsPages
  <1>6. ASSUME pages' = pages, polls' = polls, current' = current
        PROVE  PagesPart'
    BY <1>0, <1>6 DEF PagesPart, PollsType, AllRest, Awaits
  <1>7. \/ Render
        \/ \E i \in DOMAIN loading : TemplateArrives(i)
        \/ Polling
        \/ pages' = pages /\ polls' = polls /\ current' = current
    BY DEF Next, TemplateFails, Navigate, Login, Logout, Expire, Judged, vars, viewVars
  <1> QED
    BY <1>1, <1>2, <1>3, <1>4, <1>5, <1>6, <1>7 DEF Polling
-----------------------------------------------------------------------------
(***************************************************************************)
(* The steps keep the view.                                                *)
(***************************************************************************)
\* Where navigate leads: to the address there was, or an event is to come.
LEMMA Addressed ==
    ASSUME NEW route \in Routes, NEW n \in Nat, To(route, n)
    PROVE  /\ hash' = route /\ hash' \in Routes /\ changes' \in Nat
           /\ changes' = 0 => n = 0 /\ hash = route
  BY DEF To

\* A page that is shown for the address stays the address's, or an event is
\* to come.
LEMMA ShowKeepsView ==
    ASSUME NEW route \in Routes, NEW ps, NEW n \in Nat, hash \in Routes, Show(route, ps, n)
    PROVE  /\ shown' = route /\ hash' \in Routes /\ changes' \in Nat
           /\ (n = 0 => hash = route) /\ changes' = 0 => hash' = route
  <1>1. shown' = route
    BY DEF Show
  <1>2. CASE route = "login" /\ Known # "none"
    <2>1. To("problems", n) /\ "problems" \in Routes
      BY <1>2 DEF Show, Routes
    <2>2. /\ hash' \in Routes /\ changes' \in Nat
          /\ changes' = 0 => n = 0 /\ hash = "problems"
      BY <2>1, Addressed
    <2> QED
      BY <1>1, <1>2, <2>2
  <1>3. CASE ~(route = "login" /\ Known # "none")
    <2>1. To(hash, n)
      BY <1>3 DEF Show
    <2> QED
      BY <1>1, <2>1, Addressed
  <1> QED
    BY <1>2, <1>3

LEMMA Removed ==
    ASSUME NEW s \in Seq(Routes), NEW i \in DOMAIN s
    PROVE  /\ RemoveAt(s, i) \in Seq(Routes) /\ s[i] \in Routes
           /\ Len(s) <= 1 => RemoveAt(s, i) = <<>> /\ i = 1 /\ s # <<>>
  <1>1. Len(s) \in Nat /\ i \in 1..Len(s)
    BY LenProperties
  <1> DEFINE a == SubSeq(s, 1, i - 1)
             b == SubSeq(s, i + 1, Len(s))
  <1>2. a \in Seq(Routes)
    <2>1. \A k \in 1..(i - 1) : s[k] \in Routes
      BY <1>1, ElementOfSeq
    <2> QED
      BY <1>1, <2>1, SubSeqProperties
  <1>3. b \in Seq(Routes)
    <2>1. \A k \in (i + 1)..Len(s) : s[k] \in Routes
      BY <1>1, ElementOfSeq
    <2> QED
      BY <1>1, <2>1, SubSeqProperties
  <1>4. Len(s) <= 1 => a = <<>> /\ b = <<>> /\ i = 1 /\ s # <<>>
    BY <1>1, SubSeqEmpty
  <1> HIDE DEF a, b
  <1>5. RemoveAt(s, i) = a \o b
    BY DEF RemoveAt, a, b
  <1>6. a \o b \in Seq(Routes) /\ (a = <<>> /\ b = <<>> => a \o b = <<>>)
    BY <1>2, <1>3, ConcatProperties, ConcatEmptySeq
  <1> QED
    BY <1>1, <1>4, <1>5, <1>6, ElementOfSeq

LEMMA RenderKeepsView ==
    ASSUME ViewPart, Render
    PROVE  ViewPart'
  <1>0. changes \in Nat \ {0} /\ changes - 1 \in Nat /\ hash \in Routes /\ loading \in Seq(Routes)
    BY DEF ViewPart, Render
  <1>1. CASE Known = "none" /\ hash # "login"
    <2>1. /\ cached' = cached /\ loading' = loading /\ shown' = shown /\ raced' = raced
          /\ To("login", changes - 1) /\ "login" \in Routes
      BY <1>1 DEF Render, Redirect, viewVars, Routes
    <2>2. hash' \in Routes /\ changes' \in Nat /\ changes' # 0
      BY <1>0, <1>1, <2>1, Addressed
    <2> QED
      BY <2>1, <2>2 DEF ViewPart, Ordered
  <1>2. CASE ~(Known = "none" /\ hash # "login")
    <2>1. PICK ps : ps = IF current = 0 THEN pages
                         ELSE [pages EXCEPT ![current] = Cleanup(pages[current])]
      OBVIOUS
    <2>2. /\ raced' = (loading # <<>>) /\ cached' = cached
          /\ \/ Show(hash, ps, changes - 1) /\ loading' = loading
             \/ loading' = Append(loading, hash) /\ shown' = shown /\ To(hash, changes - 1)
      BY <1>2, <2>1 DEF Render
    <2>3. raced' \in BOOLEAN /\ (raced' = FALSE => loading = <<>>)
      BY <2>2
    <2>4. CASE Show(hash, ps, changes - 1) /\ loading' = loading
      <3>1. PICK route : route = hash
        OBVIOUS
      <3>2. /\ shown' = route /\ hash' \in Routes /\ changes' \in Nat
            /\ changes' = 0 => hash' = route
        BY <1>0, <2>4, <3>1, ShowKeepsView
      <3>3. Len(<<>>) = 0
        OBVIOUS
      <3> QED
        BY <1>0, <2>2, <2>3, <2>4, <3>1, <3>2, <3>3 DEF ViewPart, Ordered
    <2>5. CASE loading' = Append(loading, hash) /\ shown' = shown /\ To(hash, changes - 1)
      <3>1. hash' = hash /\ hash' \in Routes /\ changes' \in Nat
        BY <1>0, <2>5 DEF To
      <3>2. loading' \in Seq(Routes)
        BY <1>0, <2>5, AppendProperties
      <3>3. loading = <<>> => loading' = <<hash>> /\ Len(loading') = 1 /\ loading'[1] = hash
                              /\ loading' # <<>>
        BY <2>5
      <3> QED
        BY <2>2, <2>3, <2>5, <3>1, <3>2, <3>3 DEF ViewPart, Ordered
    <2> QED
      BY <2>2, <2>4, <2>5
  <1> QED
    BY <1>1, <1>2

LEMMA TemplateKeepsView ==
    ASSUME ViewPart, NEW i \in DOMAIN loading, TemplateArrives(i) \/ TemplateFails(i)
    PROVE  ViewPart'
  <1>0. /\ loading \in Seq(Routes) /\ hash \in Routes /\ changes \in Nat
        /\ loading' = RemoveAt(loading, i) /\ raced' = raced
    BY DEF ViewPart, TemplateArrives, TemplateFails
  <1>1. /\ loading' \in Seq(Routes) /\ loading[i] \in Routes
        /\ Len(loading) <= 1 => loading' = <<>> /\ i = 1 /\ loading # <<>>
    BY <1>0, Removed
  <1>2. Len(<<>>) = 0
    OBVIOUS
  <1>3. CASE TemplateArrives(i)
    <2>1. PICK route, ps : route = loading[i] /\ ps = pages
      OBVIOUS
    <2>2. cached' = cached \cup {Template(route)} /\ Show(route, ps, changes) /\ route \in Routes
      BY <1>1, <1>3, <2>1 DEF TemplateArrives
    <2>3. /\ shown' = route /\ hash' \in Routes /\ changes' \in Nat
          /\ (changes = 0 => hash = route) /\ changes' = 0 => hash' = route
      BY <1>0, <2>2, ShowKeepsView
    <2>4. raced = FALSE /\ changes = 0 => hash = route
      BY <1>1, <2>1 DEF ViewPart, Ordered
    <2>5. raced = FALSE => Len(loading) <= 1
      BY DEF ViewPart, Ordered
    <2> QED
      BY <1>0, <1>1, <1>2, <2>2, <2>3, <2>4, <2>5 DEF ViewPart, Ordered
  <1>4. CASE TemplateFails(i)
    <2>1. shown' = "error" /\ cached' = cached /\ hash' = hash /\ changes' = changes
      BY <1>4 DEF TemplateFails, addressVars
    <2> QED
      BY <1>0, <1>1, <1>2, <2>1 DEF ViewPart, Ordered
  <1> QED
    BY <1>3, <1>4

LEMMA ViewKept ==
    ASSUME IInv, [Next]_vars
    PROVE  ViewPart'
  <1>0. ViewPart
    BY DEF IInv
  <1>1. CASE Render
    BY <1>0, <1>1, RenderKeepsView
  <1>2. ASSUME NEW i \in DOMAIN loading, TemplateArrives(i) \/ TemplateFails(i)
        PROVE  ViewPart'
    BY <1>0, <1>2, TemplateKeepsView
  <1>3. ASSUME NEW route \in Routes, To(route, changes), UNCHANGED viewVars
        PROVE  ViewPart'
    <2>1. /\ hash' \in Routes /\ changes' \in Nat
          /\ changes' = 0 => changes = 0 /\ hash' = hash
      BY <1>0, <1>3, Addressed DEF ViewPart
    <2> QED
      BY <1>0, <1>3, <2>1 DEF ViewPart, Ordered, viewVars
  <1>4. ASSUME UNCHANGED <<addressVars, viewVars>>
        PROVE  ViewPart'
    BY <1>0, <1>4 DEF ViewPart, Ordered, addressVars, viewVars
  <1>5. "problems" \in Routes /\ "login" \in Routes
    BY DEF Routes
  <1>6. \/ Render
        \/ \E i \in DOMAIN loading : TemplateArrives(i) \/ TemplateFails(i)
        \/ \E route \in Routes : To(route, changes) /\ UNCHANGED viewVars
        \/ UNCHANGED <<addressVars, viewVars>>
    BY <1>5 DEF Next, Navigate, Login, Logout, Expire, Polling, Tick, Serve, Receive, Judged, vars
  <1> QED
    BY <1>1, <1>2, <1>3, <1>4, <1>6

THEOREM IInvHolds == Spec => []IInv
  <1>1. IInv /\ [Next]_vars => IInv'
    BY ServerKept, PagesKept, ViewKept DEF IInv
  <1> QED
    BY Initially, <1>1, PTL DEF Spec

\* A page has at most one interval, and its pollTimer names it.  Whatever the
\* order of the answers, the page comes to rest on a final status or an error
\* only.
THEOREM PagesRest == Spec => []PagesInv
  <1>1. IInv => PagesInv
    <2> SUFFICES ASSUME IInv
                 PROVE  PagesInv
      OBVIOUS
    <2>1. /\ pages \in Seq(Page) /\ DOMAIN pages = 1..Len(pages)
          /\ \A v \in 1..Len(pages) : pages[v] \in Page
      BY LenProperties, ElementOfSeq DEF IInv, PagesPart
    <2>2. TypeOK
      <3>1. ASSUME NEW v \in DOMAIN pages
            PROVE  /\ pages[v].of \in Submissions
                   /\ pages[v].timer \in {"none", "on", "cleared"}
                   /\ pages[v].intervals = IF pages[v].timer = "on" THEN 1 ELSE 0
        BY <2>1 DEF Page, PageFields
      <3>2. BagToSet(polls) \subseteq (DOMAIN pages) \X (Answers \cup {"sent"}) /\ IsABag(polls)
        BY <2>1 DEF IInv, PagesPart, PollsType
      <3> QED
        BY <3>1, <3>2 DEF IInv, ServerPart, PagesPart, ViewPart, TypeOK
    <2>3. RestsOnResult
      <3> SUFFICES ASSUME NEW v \in DOMAIN pages, ~pages[v].left, pages[v].intervals = 0, ~Awaits(v)
                   PROVE  pages[v].status = "final" \/ pages[v].summary = "error"
        BY DEF RestsOnResult
      <3>1. Rests(pages[v])
        BY <2>1 DEF IInv, PagesPart, AllRest
      <3> QED
        BY <3>1 DEF Rests
    <2> QED
      BY <2>2, <2>3 DEF PagesInv
  <1> QED
    BY <1>1, IInvHolds, PTL

\* When nothing is under way and no two templates were, the page shown is the
\* one of the address, or an error.
THEOREM AddressIsShown == Spec => []ShownIsAddressed
  <1>1. IInv => ShownIsAddressed
    <2> SUFFICES ASSUME IInv, changes = 0, loading = <<>>, ~raced
                 PROVE  shown \in {hash, "error"}
      BY DEF ShownIsAddressed
    <2>1. raced = FALSE
      BY DEF IInv, ViewPart
    <2> QED
      BY <2>1 DEF IInv, ViewPart, Ordered
  <1> QED
    BY <1>1, IInvHolds, PTL
=============================================================================
