----------------------------- MODULE Judging_proofs -----------------------------
(***************************************************************************)
(* Theorems about Judging: what admins were told of the test cases is what *)
(* submissions are judged on, and every verdict is one the program         *)
(* deserves.  They hold for any problems, archives, programs, workers and  *)
(* attempts, whichever statements fail and whenever the server is killed.  *)
(***************************************************************************)
EXTENDS Judging, FiniteSetTheorems, SequenceTheorems, TLAPS

-----------------------------------------------------------------------------
(***************************************************************************)
(* ORDER BY: the list of test cases holds every case that was selected,    *)
(* and nothing else.                                                       *)
(***************************************************************************)
\* Rows of test_cases.
CaseRows ==
    [id : Nat \ {0}, problem : ProblemIds, is_sample : BOOLEAN, order : Int, data : Data]

\* How many of S come before c.
Rank(S, c) == Cardinality({d \in S : Before(d, c)})

Listed(S) == [k \in 1..Cardinality(S) |-> CHOOSE c \in S : Rank(S, c) = k - 1]

\* Sorting is strict and total on rows with different ids.
LEMMA BeforeOrders ==
    ASSUME NEW c \in CaseRows, NEW d \in CaseRows, NEW e \in CaseRows
    PROVE  /\ ~Before(c, c)
           /\ Before(c, d) /\ Before(d, e) => Before(c, e)
           /\ c.id # d.id => Before(c, d) \/ Before(d, c)
  BY DEF CaseRows, Before

\* The ranks of n rows are 0 to n - 1, each taken once.
LEMMA Ranks ==
    ASSUME NEW S, IsFiniteSet(S), S \subseteq CaseRows,
           \A c, d \in S : c.id = d.id => c = d
    PROVE  /\ Cardinality(S) \in Nat
           /\ \A c \in S : Rank(S, c) \in 0..(Cardinality(S) - 1)
           /\ \A c, d \in S : Rank(S, c) = Rank(S, d) => c = d
  <1> DEFINE below(c) == {d \in S : Before(d, c)}
  <1>1. Cardinality(S) \in Nat
    BY FS_CardinalityType
  <1>2. ASSUME NEW c \in S
        PROVE  IsFiniteSet(below(c)) /\ Cardinality(below(c)) \in Nat
    <2>1. below(c) \in SUBSET S
      OBVIOUS
    <2>2. IsFiniteSet(below(c))
      BY <2>1, FS_Subset
    <2> QED
      BY <2>2, FS_CardinalityType
  <1>3. ASSUME NEW c \in S
        PROVE  Rank(S, c) \in 0..(Cardinality(S) - 1)
    <2>1. below(c) \in SUBSET S /\ c \notin below(c)
      BY BeforeOrders
    <2>2. below(c) # S
      BY <2>1
    <2>3. Cardinality(below(c)) <= Cardinality(S) /\ Cardinality(below(c)) # Cardinality(S)
      BY <2>1, <2>2, FS_Subset
    <2>4. Cardinality(below(c)) \in Nat
      BY <1>2
    <2> HIDE DEF below
    <2>5. Cardinality(below(c)) \in 0..(Cardinality(S) - 1)
      BY <1>1, <2>3, <2>4
    <2> QED
      BY <2>5 DEF Rank, below
  <1>4. ASSUME NEW c \in S, NEW d \in S, Before(c, d)
        PROVE  Rank(S, c) # Rank(S, d)
    <2>1. below(c) \in SUBSET below(d) /\ c \in below(d) /\ c \notin below(c)
      BY <1>4, BeforeOrders
    <2>2. IsFiniteSet(below(d)) /\ below(c) # below(d)
      BY <1>2, <2>1
    <2>3. Cardinality(below(d)) # Cardinality(below(c))
      BY <2>1, <2>2, FS_Subset
    <2> QED
      BY <2>3 DEF Rank
  <1> QED
    BY <1>1, <1>3, <1>4, BeforeOrders

LEMMA ListHoldsAll ==
    ASSUME NEW S, IsFiniteSet(S), S \subseteq CaseRows,
           \A c, d \in S : c.id = d.id => c = d
    PROVE  /\ Cardinality(S) \in Nat /\ DOMAIN Listed(S) = 1..Cardinality(S)
           /\ \A k \in 1..Cardinality(S) : Listed(S)[k] \in S
           /\ \A c \in S : \E k \in 1..Cardinality(S) : Listed(S)[k] = c
  <1> DEFINE n == Cardinality(S)
             place == [c \in S |-> Rank(S, c) + 1]
  <1>1. n \in Nat /\ (\A c \in S : Rank(S, c) \in 0..(n - 1))
        /\ \A c, d \in S : Rank(S, c) = Rank(S, d) => c = d
    BY Ranks
  <1>2. place \in [S -> 1..n]
    BY <1>1
  <1>3. place \in Injection(S, 1..n)
    BY <1>1, <1>2 DEF Injection, IsInjective
  <1>4. IsFiniteSet(1..n) /\ Cardinality(1..n) = n
    BY <1>1, FS_Interval
  <1>5. place \in Surjection(S, 1..n)
    BY <1>3, <1>4, FS_Injection
  <1>6. ASSUME NEW k \in 1..n PROVE \E c \in S : Rank(S, c) = k - 1
    <2>1. PICK c \in S : place[c] = k
      BY <1>5 DEF Surjection
    <2> QED
      BY <1>1, <2>1
  <1>7. ASSUME NEW k \in 1..n PROVE Listed(S)[k] \in S
    BY <1>6 DEF Listed
  <1>8. ASSUME NEW c \in S PROVE \E k \in 1..n : Listed(S)[k] = c
    <2>1. Rank(S, c) + 1 \in 1..n /\ (Rank(S, c) + 1) - 1 = Rank(S, c)
      BY <1>1
    <2>2. \A d \in S : Rank(S, d) = Rank(S, c) => d = c
      BY <1>1
    <2>3. Listed(S)[Rank(S, c) + 1] = CHOOSE d \in S : Rank(S, d) = Rank(S, c)
      BY <2>1 DEF Listed
    <2> QED
      BY <2>1, <2>2, <2>3
  <1>9. DOMAIN Listed(S) = 1..n
    BY DEF Listed
  <1> QED
    BY <1>1, <1>7, <1>8, <1>9

LEMMA ListIsListed ==
    ASSUME NEW p, NEW only_sample
    PROVE  ListByProblem(p, only_sample) = Listed({c \in CasesOf(p) : only_sample => c.is_sample})
  BY DEF ListByProblem, Listed, Rank
-----------------------------------------------------------------------------
(***************************************************************************)
(* The catalogue.  AsTold speaks of the moments when no upload is under    *)
(* way; Told says what becomes of the cases meanwhile.                     *)
(***************************************************************************)
CaseShapes == [is_sample : BOOLEAN, order : Int, data : Data]

SubmittedRows ==
    [problem : ProblemIds, mode : {"run", "submit"}, program : Programs, queued : BOOLEAN,
     limits : Limits, tests : Seq(Data) \ {<<>>}, wanted : SUBSET Data, settled : BOOLEAN]

Uploads ==
    [problem : {0} \cup ProblemIds, todo : Seq(Data), done : Nat, deleted : BOOLEAN]

CatalogTypes ==
    /\ problems \in [ProblemIds -> Limits \cup {"absent"}]
    /\ requests \in 0..MaxRequests /\ enabled \in BOOLEAN
    /\ failed \subseteq ProblemIds \X BOOLEAN
    /\ intended \in [ProblemIds -> SUBSET CaseShapes]

CaseTable ==
    /\ cases \subseteq CaseRows /\ IsFiniteSet(cases) /\ nextCase \in Nat \ {0}
    /\ \A c \in cases : c.id < nextCase /\ Exists(c.problem)
    /\ \A c, d \in cases : c.id = d.id => c = d

\* An upload under way replaces the cases of a problem there is.
UploadState ==
    /\ upload \in Uploads /\ upload.done <= Len(upload.todo)
    /\ ~Ready => upload.problem \in ProblemIds /\ Exists(upload.problem)
    /\ ~upload.deleted => upload.done = 0

ProblemsKept == \A r \in DOMAIN rows : Exists(rows[r].problem)

RowTable == rows \in Seq(SubmittedRows) /\ Len(rows) <= MaxRows /\ ProblemsKept

ShapesOf(p, is_sample) == {Shape(c) : c \in {d \in CasesOf(p) : d.is_sample = is_sample}}

NumberedTo(n) ==
    {[is_sample |-> FALSE, order |-> k, data |-> upload.todo[k]] : k \in 1..n}

AddedSoFar == ShapesOf(upload.problem, FALSE) = NumberedTo(upload.done)

\* The cases of a problem are those its admin was told of, except those an
\* upload is about to replace; of these, the ones it has added so far.
Told ==
    /\ \A p \in ProblemIds, is_sample \in BOOLEAN :
          <<p, is_sample>> \notin failed /\ (Ready \/ p # upload.problem \/ is_sample)
             => ShapesOf(p, is_sample) = {c \in intended[p] : c.is_sample = is_sample}
    /\ upload.deleted => AddedSoFar

\* The tests of a submission include every case that its problem was told to
\* have.
RowsTold ==
    \A r \in DOMAIN rows : rows[r].settled /\ rows[r].mode = "submit" =>
        \A d \in rows[r].wanted : \E k \in DOMAIN rows[r].tests : rows[r].tests[k] = d

CatalogInv == CatalogTypes /\ CaseTable /\ UploadState /\ RowTable /\ Told /\ RowsTold

LEMMA CatalogInvGives == CatalogInv => CatalogTypeOK /\ AsTold
  <1> SUFFICES ASSUME CatalogInv PROVE CatalogTypeOK /\ AsTold
    OBVIOUS
  <1>1. /\ \A c \in cases : /\ c.id \in 1..(nextCase - 1) /\ Exists(c.problem)
                            /\ c.is_sample \in BOOLEAN /\ c.data \in Data
        /\ \A c, d \in cases : c.id = d.id => c = d
        /\ nextCase \in Nat \ {0}
    <2>1. nextCase \in Nat \ {0} /\ \A c \in cases : c.id < nextCase /\ Exists(c.problem)
      BY DEF CatalogInv, CaseTable
    <2>2. \A c \in CaseRows : c.id \in Nat \ {0} /\ c.is_sample \in BOOLEAN /\ c.data \in Data
      BY DEF CaseRows
    <2>3. cases \subseteq CaseRows /\ \A c, d \in cases : c.id = d.id => c = d
      BY DEF CatalogInv, CaseTable
    <2> QED
      BY <2>1, <2>2, <2>3
  <1>2. upload.problem \in {0} \cup ProblemIds /\ upload.done \in 0..Len(upload.todo)
    BY LenProperties DEF CatalogInv, UploadState, Uploads
  <1>3. CatalogTypeOK
    BY <1>1, <1>2 DEF CatalogInv, CatalogTypes, RowTable, ProblemsKept, CatalogTypeOK
  <1>4. AsTold
    BY DEF CatalogInv, Told, AsTold, ShapesOf
  <1> QED
    BY <1>3, <1>4

(* Statements on test_cases. *)
LEMMA InsertEffect ==
    ASSUME CaseTable, UNCHANGED problems, NEW p \in ProblemIds, Exists(p),
           NEW is_sample \in BOOLEAN, NEW order \in Int, NEW data \in Data,
           Insert(p, is_sample, order, data)
    PROVE  /\ CaseTable'
           /\ \A q, b : ShapesOf(q, b)' =
                 IF q = p /\ b = is_sample
                 THEN ShapesOf(q, b) \cup {[is_sample |-> is_sample, order |-> order, data |-> data]}
                 ELSE ShapesOf(q, b)
  <1> DEFINE new == [id |-> nextCase, problem |-> p, is_sample |-> is_sample,
                     order |-> order, data |-> data]
  <1>1. cases' = cases \cup {new} /\ nextCase' = nextCase + 1
    BY DEF Insert
  <1>2. /\ new \in CaseRows /\ new.id = nextCase /\ new.problem = p
        /\ new.is_sample = is_sample
        /\ Shape(new) = [is_sample |-> is_sample, order |-> order, data |-> data]
    BY DEF CaseTable, CaseRows, Shape
  <1> HIDE DEF new
  <1>3. IsFiniteSet(cases')
    BY <1>1, FS_AddElement DEF CaseTable
  <1>4. \A c \in cases : c.id \in Nat /\ c.id < nextCase
    BY DEF CaseTable, CaseRows
  <1>5. CaseTable'
    <2>1. cases' \subseteq CaseRows /\ nextCase' \in Nat \ {0}
      BY <1>1, <1>2 DEF CaseTable
    <2>2. \A c \in cases' : c.id < nextCase' /\ Exists(c.problem)'
      BY <1>1, <1>2, <1>4 DEF CaseTable, Exists
    <2>3. \A c, d \in cases' : c.id = d.id => c = d
      BY <1>1, <1>2, <1>4 DEF CaseTable
    <2> QED
      BY <1>3, <2>1, <2>2, <2>3 DEF CaseTable
  <1>6. \A q, b : ShapesOf(q, b)' =
            IF q = p /\ b = is_sample THEN ShapesOf(q, b) \cup {Shape(new)} ELSE ShapesOf(q, b)
    BY <1>1, <1>2 DEF ShapesOf, CasesOf
  <1> QED
    BY <1>2, <1>5, <1>6

LEMMA DeleteEffect ==
    ASSUME CaseTable, cases' \subseteq cases, UNCHANGED nextCase,
           \A c \in cases' : Exists(c.problem)'
    PROVE  CaseTable'
  <1>1. IsFiniteSet(cases')
    BY FS_Subset DEF CaseTable
  <1> QED
    BY <1>1 DEF CaseTable
\* A step of the server process on its tables.
CatalogStep ==
    \/ CatalogNext
    \/ \E p \in ProblemIds, program \in Programs, mode \in {"run", "submit"}, e \in Endings :
          Submit(p, program, mode, e)
    \/ Kill
    \/ UNCHANGED catalogVars

LEMMA NumberedTyped ==
    ASSUME UploadState
    PROVE  /\ Numbered(upload.todo) \subseteq CaseShapes
           /\ Numbered(upload.todo) = NumberedTo(Len(upload.todo))
           /\ \A k \in 1..Len(upload.todo) : upload.todo[k] \in Data
  <1>1. upload.todo \in Seq(Data)
    BY DEF UploadState, Uploads
  <1>2. DOMAIN upload.todo = 1..Len(upload.todo) /\ Len(upload.todo) \in Nat
    BY <1>1, LenProperties
  <1>3. \A k \in 1..Len(upload.todo) : upload.todo[k] \in Data
    BY <1>1, ElementOfSeq
  <1>4. \A k \in 1..Len(upload.todo) :
            [is_sample |-> FALSE, order |-> k, data |-> upload.todo[k]] \in CaseShapes
    BY <1>3 DEF CaseShapes
  <1>5. Numbered(upload.todo) = NumberedTo(Len(upload.todo))
    BY <1>2 DEF Numbered, NumberedTo
  <1>6. NumberedTo(Len(upload.todo)) \subseteq CaseShapes
    BY <1>4 DEF NumberedTo
  <1> QED
    BY <1>3, <1>5, <1>6

LEMMA CatalogTypesNext ==
    ASSUME CatalogInv, CatalogStep
    PROVE  CatalogTypes'
  <1>0. CatalogTypes /\ UploadState /\ MaxRequests \in Nat
    BY CatalogAssumption DEF CatalogInv
  <1>1. AdminRequest => requests' \in 0..MaxRequests
    BY <1>0 DEF AdminRequest, CatalogTypes
  <1>2. ASSUME NEW limits \in Limits, CreateProblem(limits) PROVE CatalogTypes'
    BY <1>0, <1>1, <1>2 DEF CreateProblem, ProblemCreate, CatalogTypes
  <1>3. ASSUME NEW p \in ProblemIds, NEW limits \in Limits, UpdateProblem(p, limits) PROVE CatalogTypes'
    BY <1>0, <1>1, <1>3 DEF UpdateProblem, ProblemUpdate, CatalogTypes
  <1>4. ASSUME NEW p \in ProblemIds, DeleteProblem(p) PROVE CatalogTypes'
    BY <1>0, <1>1, <1>4 DEF DeleteProblem, ProblemDelete, CatalogTypes
  <1>5. ASSUME NEW p \in ProblemIds, NEW is_sample \in BOOLEAN, NEW order \in SortOrders,
               NEW d \in Data, NEW e \in Endings, AddCase(p, is_sample, order, d, e)
        PROVE  CatalogTypes'
    <2>1. [is_sample |-> is_sample, order |-> order, data |-> d] \in CaseShapes
      BY CatalogAssumption DEF CaseShapes
    <2>2. intended' \in [ProblemIds -> SUBSET CaseShapes]
      BY <1>0, <1>5, <2>1 DEF AddCase, CatalogTypes
    <2>3. failed' \subseteq ProblemIds \X BOOLEAN
      BY <1>0, <1>5 DEF AddCase, CatalogTypes
    <2> QED
      BY <1>0, <1>1, <1>5, <2>2, <2>3 DEF AddCase, CatalogTypes
  <1>6. ASSUME NEW on \in BOOLEAN, UpdateLanguage(on) PROVE CatalogTypes'
    BY <1>0, <1>1, <1>6 DEF UpdateLanguage, LanguageUpdate, CatalogTypes
  <1>7. ASSUME NEW p \in ProblemIds, NEW archive \in Archives, UploadBegin(p, archive) PROVE CatalogTypes'
    BY <1>0, <1>1, <1>7 DEF UploadBegin, tables, CatalogTypes
  <1>8. ASSUME NEW e \in Endings, UploadDelete(e) \/ UploadAdd(e) PROVE CatalogTypes'
    BY <1>0, <1>8 DEF UploadDelete, UploadAdd, CatalogTypes
  <1>9. ~Ready => {<<upload.problem, FALSE>>} \subseteq ProblemIds \X BOOLEAN
    <2> SUFFICES ASSUME ~Ready PROVE <<upload.problem, FALSE>> \in ProblemIds \X BOOLEAN
      OBVIOUS
    <2>1. upload.problem \in ProblemIds
      BY <1>0 DEF UploadState
    <2> QED
      BY <2>1
  <1>10. ASSUME NEW e \in Endings, UploadFails(e) PROVE CatalogTypes'
    BY <1>0, <1>9, <1>10 DEF UploadFails, CatalogTypes
  <1>11. CASE UploadEnd
    <2>1. upload.problem \in ProblemIds /\ Numbered(upload.todo) \subseteq CaseShapes
      BY <1>0, <1>11, NumberedTyped DEF UploadEnd, UploadState
    <2>2. intended' \in [ProblemIds -> SUBSET CaseShapes]
      BY <1>0, <1>11, <2>1 DEF UploadEnd, CatalogTypes
    <2> QED
      BY <1>0, <1>11, <2>2 DEF UploadEnd, tables, CatalogTypes
  <1>12. CASE Kill
    BY <1>0, <1>9, <1>12 DEF Kill, tables, CatalogTypes
  <1>13. ASSUME NEW p \in ProblemIds, NEW program \in Programs, NEW mode \in {"run", "submit"},
                NEW e \in Endings, Submit(p, program, mode, e)
         PROVE  CatalogTypes'
    BY <1>0, <1>13 DEF Submit, CatalogTypes
  <1>14. CASE UNCHANGED catalogVars
    BY <1>0, <1>14 DEF catalogVars, tables, CatalogTypes
  <1> QED
    BY <1>2, <1>3, <1>4, <1>5, <1>6, <1>7, <1>8, <1>10, <1>11, <1>12, <1>13, <1>14
    DEF CatalogStep, CatalogNext

\* Only the deletion of a problem makes one disappear.
LEMMA ProblemsStay ==
    ASSUME CatalogInv, CatalogStep, \A p \in ProblemIds : ~DeleteProblem(p)
    PROVE  \A p \in ProblemIds : Exists(p) => Exists(p)'
  <1>1. problems \in [ProblemIds -> Limits \cup {"absent"}] /\ "absent" \notin Limits
    BY CatalogAssumption DEF CatalogInv, CatalogTypes
  <1>2. ASSUME NEW limits \in Limits, CreateProblem(limits)
        PROVE  \A p \in ProblemIds : Exists(p) => Exists(p)'
    BY <1>1, <1>2 DEF CreateProblem, ProblemCreate, Exists
  <1>3. ASSUME NEW p \in ProblemIds, NEW limits \in Limits, UpdateProblem(p, limits)
        PROVE  \A q \in ProblemIds : Exists(q) => Exists(q)'
    BY <1>1, <1>3 DEF UpdateProblem, ProblemUpdate, Exists
  <1>4. CASE UNCHANGED problems
    BY <1>4 DEF Exists
  <1> QED
    BY <1>2, <1>3, <1>4
    DEF CatalogStep, CatalogNext, catalogVars, tables, AddCase, UpdateLanguage, UploadBegin,
        UploadDelete, UploadAdd, UploadFails, UploadEnd, Kill, Submit

LEMMA CaseTableNext ==
    ASSUME CatalogInv, CatalogStep
    PROVE  CaseTable'
  <1>0. CaseTable /\ UploadState
    BY DEF CatalogInv
  <1>1. cases \subseteq CaseRows /\ \A c \in CaseRows : c.problem \in ProblemIds
    BY <1>0 DEF CaseTable, CaseRows
  <1>2. ASSUME UNCHANGED nextCase, cases' \subseteq cases, \A p \in ProblemIds : ~DeleteProblem(p)
        PROVE  CaseTable'
    <2>1. \A c \in cases' : Exists(c.problem)'
      BY <1>0, <1>1, <1>2, ProblemsStay DEF CaseTable
    <2> QED
      BY <1>0, <1>2, <2>1, DeleteEffect
  <1>3. ASSUME NEW p \in ProblemIds, DeleteProblem(p) PROVE CaseTable'
    <2>1. /\ cases' = cases \ CasesOf(p) /\ problems' = [problems EXCEPT ![p] = "absent"]
          /\ UNCHANGED nextCase
      BY <1>3 DEF DeleteProblem, ProblemDelete
    <2>2. \A c \in cases' : c.problem # p /\ Exists(c.problem)
      BY <1>0, <2>1 DEF CasesOf, CaseTable
    <2>3. \A c \in cases' : Exists(c.problem)'
      BY <1>1, <2>1, <2>2 DEF Exists, CatalogInv, CatalogTypes
    <2> QED
      BY <1>0, <2>1, <2>3, DeleteEffect
  <1>4. ASSUME NEW p \in ProblemIds, NEW is_sample \in BOOLEAN, NEW order \in SortOrders,
               NEW d \in Data, NEW e \in Endings, AddCase(p, is_sample, order, d, e),
               \A q \in ProblemIds : ~DeleteProblem(q)
        PROVE  CaseTable'
    <2>1. CASE e = "error"
      BY <1>2, <1>4, <2>1 DEF AddCase
    <2>2. CASE e # "error"
      BY <1>0, <1>4, <2>2, InsertEffect, CatalogAssumption DEF AddCase
    <2> QED
      BY <2>1, <2>2
  <1>5. ASSUME ~Ready, upload.done < Len(upload.todo), UNCHANGED problems,
               Insert(upload.problem, FALSE, upload.done + 1, upload.todo[upload.done + 1])
        PROVE  CaseTable'
    <2>1. /\ upload.problem \in ProblemIds /\ Exists(upload.problem)
          /\ upload.done + 1 \in 1..Len(upload.todo)
      BY <1>0, <1>5, LenProperties DEF UploadState, Uploads
    <2>2. upload.todo[upload.done + 1] \in Data
      BY <1>0, <2>1, NumberedTyped
    <2>3. upload.done + 1 \in Int /\ FALSE \in BOOLEAN
      BY <2>1
    <2>4. CaseTable /\ UNCHANGED problems
      BY <1>0, <1>5
    <2> HIDE DEF UploadState
    <2> QED
      BY <1>5, <2>1, <2>2, <2>3, <2>4, InsertEffect
  <1>6. ASSUME NEW e \in Endings, UploadDelete(e), \A q \in ProblemIds : ~DeleteProblem(q)
        PROVE  CaseTable'
    BY <1>2, <1>6 DEF UploadDelete, WithoutTests
  <1>7. ASSUME NEW e \in Endings, UploadAdd(e) PROVE CaseTable'
    BY <1>5, <1>7 DEF UploadAdd
  <1>8. ASSUME NEW e \in Endings, UploadFails(e), \A q \in ProblemIds : ~DeleteProblem(q)
        PROVE  CaseTable'
    <2>1. CASE UNCHANGED nextCase /\ cases' \subseteq cases
      BY <1>2, <1>8, <2>1
    <2>2. CASE ~(UNCHANGED nextCase /\ cases' \subseteq cases)
      <3>1. \/ UNCHANGED <<cases, nextCase>>
            \/ cases' = WithoutTests(upload.problem) /\ UNCHANGED nextCase
            \/ /\ Insert(upload.problem, FALSE, upload.done + 1, upload.todo[upload.done + 1])
               /\ upload.deleted
        BY <1>8 DEF UploadFails
      <3>2. /\ Insert(upload.problem, FALSE, upload.done + 1, upload.todo[upload.done + 1])
            /\ upload.deleted
        BY <2>2, <3>1 DEF WithoutTests
      <3> QED
        BY <1>5, <1>8, <3>2 DEF UploadFails
    <2> QED
      BY <2>1, <2>2
  <1>9. CASE UNCHANGED <<cases, nextCase>> /\ \A q \in ProblemIds : ~DeleteProblem(q)
    BY <1>2, <1>9
  <1> QED
    BY <1>3, <1>4, <1>6, <1>7, <1>8, <1>9
    DEF CatalogStep, CatalogNext, catalogVars, tables, CreateProblem, UpdateProblem, UpdateLanguage,
        UploadBegin, UploadEnd, Kill, Submit

LEMMA UploadNext ==
    ASSUME CatalogInv, CatalogStep
    PROVE  UploadState'
  <1>0. UploadState /\ Len(upload.todo) \in Nat
    BY LenProperties DEF CatalogInv, UploadState, Uploads
  <1>1. CASE upload' = NoUpload
    <2>1. /\ upload' \in Uploads /\ upload'.done = 0 /\ upload'.todo = <<>>
          /\ upload'.deleted = FALSE /\ Ready'
      BY <1>1, EmptySeq DEF NoUpload, Uploads, Ready
    <2> QED
      BY <2>1, EmptySeq DEF UploadState
  <1>2. ASSUME UNCHANGED upload, \A q \in ProblemIds : ~DeleteProblem(q) PROVE UploadState'
    BY <1>0, <1>2, ProblemsStay DEF UploadState, Ready
  <1>3. ASSUME NEW p \in ProblemIds, DeleteProblem(p) PROVE UploadState'
    BY <1>1, <1>3 DEF DeleteProblem, AdminRequest, Ready
  <1>4. ASSUME NEW p \in ProblemIds, NEW archive \in Archives, UploadBegin(p, archive)
        PROVE  UploadState'
    <2>1. /\ upload' = [problem |-> p, todo |-> archive, done |-> 0, deleted |-> FALSE]
          /\ Exists(p) /\ archive \in Seq(Data) /\ UNCHANGED problems
      BY <1>4, CatalogAssumption DEF UploadBegin, tables
    <2>2. Len(archive) \in Nat
      BY <2>1, LenProperties
    <2> QED
      BY <2>1, <2>2 DEF UploadState, Uploads, Exists
  <1>5. ASSUME NEW e \in Endings, UploadDelete(e) PROVE UploadState'
    <2>1. /\ upload' = [upload EXCEPT !.deleted = TRUE] /\ UNCHANGED problems /\ ~Ready
      BY <1>5 DEF UploadDelete
    <2>2. /\ upload' \in Uploads /\ upload'.done = upload.done /\ upload'.todo = upload.todo
          /\ upload'.problem = upload.problem /\ upload'.deleted
      BY <1>0, <2>1 DEF UploadState, Uploads
    <2> QED
      BY <1>0, <2>1, <2>2 DEF UploadState, Exists
  <1>6. ASSUME NEW e \in Endings, UploadAdd(e) PROVE UploadState'
    <2>1. /\ upload' = [upload EXCEPT !.done = @ + 1] /\ UNCHANGED problems /\ ~Ready
          /\ upload.deleted /\ upload.done < Len(upload.todo)
      BY <1>6 DEF UploadAdd
    <2>a. upload \in Uploads /\ upload.deleted = TRUE
      BY <1>0, <2>1 DEF UploadState, Uploads
    <2>b. upload' = [problem |-> upload.problem, todo |-> upload.todo, done |-> upload.done + 1,
                     deleted |-> TRUE]
      BY <2>1, <2>a DEF Uploads
    <2>2. /\ upload' \in Uploads /\ upload'.done = upload.done + 1 /\ upload'.todo = upload.todo
          /\ upload'.problem = upload.problem /\ upload'.deleted
      BY <2>a, <2>b DEF Uploads
    <2>3. upload.done + 1 <= Len(upload.todo)
      BY <1>0, <2>1 DEF UploadState, Uploads
    <2> QED
      BY <1>0, <2>1, <2>2, <2>3 DEF UploadState, Exists
  <1> QED
    BY <1>1, <1>2, <1>3, <1>4, <1>5, <1>6
    DEF CatalogStep, CatalogNext, catalogVars, tables, CreateProblem, UpdateProblem, AddCase,
        UpdateLanguage, UploadFails, UploadEnd, Kill, Submit

(* What a submission is judged on. *)
LEMMA JudgedOnCases ==
    ASSUME CatalogInv, NEW p \in ProblemIds, NEW mode
    PROVE  \E n \in Nat :
              /\ DOMAIN JudgedOn(p, mode) = 1..n
              /\ JudgedOn(p, mode) # <<>> => n > 0
              /\ \A k \in 1..n : JudgedOn(p, mode)[k] \in CasesOf(p)
              /\ mode = "submit" =>
                    \A c \in CasesOf(p) : \E k \in 1..n : JudgedOn(p, mode)[k] = c
  <1> DEFINE S(only) == {c \in CasesOf(p) : only => c.is_sample}
  <1>1. ASSUME NEW only \in BOOLEAN
        PROVE  \E n \in Nat :
                  /\ DOMAIN ListByProblem(p, only) = 1..n
                  /\ ListByProblem(p, only) # <<>> => n > 0
                  /\ \A k \in 1..n : ListByProblem(p, only)[k] \in S(only)
                  /\ \A c \in S(only) : \E k \in 1..n : ListByProblem(p, only)[k] = c
    <2>1. /\ S(only) \subseteq CaseRows /\ S(only) \in SUBSET cases /\ IsFiniteSet(cases)
          /\ \A c, d \in S(only) : c.id = d.id => c = d
      BY DEF CatalogInv, CaseTable, CasesOf
    <2>2. IsFiniteSet(S(only))
      BY <2>1, FS_Subset
    <2>3. ListByProblem(p, only) = Listed(S(only))
      BY ListIsListed
    <2> HIDE DEF S
    <2>4. /\ Cardinality(S(only)) \in Nat /\ DOMAIN Listed(S(only)) = 1..Cardinality(S(only))
          /\ \A k \in 1..Cardinality(S(only)) : Listed(S(only))[k] \in S(only)
          /\ \A c \in S(only) : \E k \in 1..Cardinality(S(only)) : Listed(S(only))[k] = c
      BY <2>1, <2>2, ListHoldsAll
    <2>5. Cardinality(S(only)) = 0 => Listed(S(only)) = <<>>
      BY DEF Listed
    <2> QED
      BY <2>3, <2>4, <2>5
  <1>2. JudgedOn(p, mode) = ListByProblem(p, FALSE)
        \/ (mode # "submit" /\ JudgedOn(p, mode) = ListByProblem(p, TRUE))
    BY DEF JudgedOn
  <1>3. S(FALSE) = CasesOf(p) /\ S(TRUE) \subseteq CasesOf(p)
    OBVIOUS
  <1> HIDE DEF S
  <1>4. CASE JudgedOn(p, mode) = ListByProblem(p, FALSE)
    BY <1>1, <1>3, <1>4
  <1>5. CASE mode # "submit" /\ JudgedOn(p, mode) = ListByProblem(p, TRUE)
    BY <1>1, <1>3, <1>5
  <1> QED
    BY <1>2, <1>4, <1>5

LEMMA SubmittedRow ==
    ASSUME CatalogInv, NEW p \in ProblemIds, NEW program \in Programs,
           NEW mode \in {"run", "submit"}, NEW e \in Endings, Submit(p, program, mode, e)
    PROVE  \E row \in SubmittedRows :
              /\ rows' = Append(rows, row) /\ row.problem = p /\ Exists(p)
              /\ Len(rows) < MaxRows /\ Ready /\ (row.queued <=> e = "ok")
              /\ row.settled /\ row.mode = "submit" =>
                    \A d \in row.wanted : \E k \in DOMAIN row.tests : row.tests[k] = d
  <1> DEFINE tests == [k \in DOMAIN JudgedOn(p, mode) |-> JudgedOn(p, mode)[k].data]
             queued == e = "ok"
             settled == failed \cap ({p} \X BOOLEAN) = {}
             wanted == {c.data : c \in intended[p]}
             row == [problem |-> p, mode |-> mode, program |-> program, queued |-> queued,
                     limits |-> problems[p], tests |-> tests, wanted |-> wanted, settled |-> settled]
  <1>1. rows' = Append(rows, row) /\ Exists(p) /\ Len(rows) < MaxRows /\ Ready /\ JudgedOn(p, mode) # <<>>
    BY DEF Submit
  <1>2. PICK n \in Nat :
              /\ DOMAIN JudgedOn(p, mode) = 1..n
              /\ n > 0
              /\ \A k \in 1..n : JudgedOn(p, mode)[k] \in CasesOf(p)
              /\ mode = "submit" =>
                    \A c \in CasesOf(p) : \E k \in 1..n : JudgedOn(p, mode)[k] = c
    BY <1>1, JudgedOnCases
  <1>3. CasesOf(p) \subseteq CaseRows
    BY DEF CatalogInv, CaseTable, CasesOf
  <1>4. tests \in [1..n -> Data]
    BY <1>2, <1>3 DEF CaseRows
  <1>5. tests \in Seq(Data) /\ tests # <<>>
    BY <1>2, <1>4
  <1>6. wanted \in SUBSET Data /\ problems[p] \in Limits
    BY <1>1 DEF CatalogInv, CatalogTypes, CaseShapes, Exists
  <1>7. ASSUME settled, mode = "submit", NEW d \in wanted
        PROVE  \E k \in DOMAIN tests : tests[k] = d
    <2>1. PICK c \in intended[p] : c.data = d
      OBVIOUS
    <2>2. c \in CaseShapes /\ c.is_sample \in BOOLEAN
      BY DEF CatalogInv, CatalogTypes, CaseShapes
    <2>3. <<p, c.is_sample>> \notin failed
      BY <1>7, <2>2
    <2>4. c \in ShapesOf(p, c.is_sample)
      BY <1>1, <2>2, <2>3 DEF CatalogInv, Told
    <2>5. PICK r \in CasesOf(p) : Shape(r) = c
      BY <2>4 DEF ShapesOf
    <2>6. PICK k \in 1..n : JudgedOn(p, mode)[k] = r
      BY <1>2, <1>7
    <2> QED
      BY <1>2, <2>1, <2>5, <2>6 DEF Shape
  <1>8. queued \in BOOLEAN /\ settled \in BOOLEAN
    OBVIOUS
  <1> HIDE DEF tests, queued, settled, wanted
  <1>9. /\ row.problem = p /\ row.mode = mode /\ row.tests = tests /\ row.queued = queued
        /\ row.wanted = wanted /\ row.settled = settled
    OBVIOUS
  <1>10. row \in SubmittedRows
    BY <1>5, <1>6, <1>8 DEF SubmittedRows
  <1>11. queued <=> e = "ok"
    BY DEF queued
  <1> HIDE DEF row
  <1> QED
    BY <1>1, <1>7, <1>9, <1>10, <1>11
LEMMA RowsNext ==
    ASSUME CatalogInv, CatalogStep
    PROVE  /\ RowTable' /\ RowsTold'
           /\ Len(rows) <= Len(rows') /\ \A r \in 1..Len(rows) : rows'[r] = rows[r]
  <1>0. /\ rows \in Seq(SubmittedRows) /\ Len(rows) \in Nat /\ DOMAIN rows = 1..Len(rows)
        /\ MaxRows \in Nat /\ Len(rows) <= MaxRows /\ RowTable /\ RowsTold
        /\ \A r \in 1..Len(rows) : rows[r] \in SubmittedRows
    BY LenProperties, ElementOfSeq, CatalogAssumption DEF CatalogInv, RowTable
  <1>1. \A r \in 1..Len(rows) : rows[r].problem \in ProblemIds /\ Exists(rows[r].problem)
    BY <1>0 DEF RowTable, ProblemsKept, SubmittedRows
  <1>2. ASSUME NEW p \in ProblemIds, NEW program \in Programs, NEW mode \in {"run", "submit"},
               NEW e \in Endings, Submit(p, program, mode, e), \A q \in ProblemIds : ~DeleteProblem(q)
        PROVE  /\ RowTable' /\ RowsTold'
               /\ Len(rows) <= Len(rows') /\ \A r \in 1..Len(rows) : rows'[r] = rows[r]
    <2>1. PICK row \in SubmittedRows :
              /\ rows' = Append(rows, row) /\ row.problem = p /\ Exists(p) /\ Len(rows) < MaxRows
              /\ row.settled /\ row.mode = "submit" =>
                    \A d \in row.wanted : \E k \in DOMAIN row.tests : row.tests[k] = d
      BY <1>2, SubmittedRow
    <2>2. /\ rows' \in Seq(SubmittedRows) /\ Len(rows') = Len(rows) + 1
          /\ \A r \in 1..Len(rows) : rows'[r] = rows[r]
          /\ rows'[Len(rows) + 1] = row
      BY <1>0, <2>1, AppendProperties
    <2>3. DOMAIN rows' = 1..(Len(rows) + 1)
      BY <2>2, LenProperties
    <2>4. ProblemsKept'
      BY <1>0, <1>1, <1>2, <2>1, <2>2, <2>3, ProblemsStay DEF ProblemsKept, Exists
    <2>5. RowTable'
      BY <1>0, <2>1, <2>2, <2>4 DEF RowTable
    <2>6. RowsTold'
      BY <1>0, <2>1, <2>2, <2>3 DEF RowsTold
    <2> QED
      BY <1>0, <2>2, <2>5, <2>6
  <1>3. ASSUME UNCHANGED rows, \A q \in ProblemIds : ~DeleteProblem(q)
        PROVE  RowTable' /\ RowsTold'
    <2>1. ProblemsKept'
      BY <1>0, <1>1, <1>3, ProblemsStay DEF ProblemsKept, Exists
    <2> QED
      BY <1>0, <1>3, <2>1 DEF RowTable, RowsTold
  <1>4. ASSUME NEW p \in ProblemIds, DeleteProblem(p) PROVE UNCHANGED rows /\ RowTable' /\ RowsTold'
    <2>1. /\ UNCHANGED rows /\ problems' = [problems EXCEPT ![p] = "absent"]
          /\ \A r \in DOMAIN rows : rows[r].problem # p
      BY <1>4 DEF DeleteProblem, ProblemDelete
    <2>2. ProblemsKept'
      BY <1>0, <1>1, <2>1 DEF ProblemsKept, Exists, CatalogInv, CatalogTypes
    <2> QED
      BY <1>0, <2>1, <2>2 DEF RowTable, RowsTold
  <1>5. CASE UNCHANGED rows
    BY <1>0, <1>3, <1>4, <1>5
  <1> QED
    BY <1>2, <1>4, <1>5
    DEF CatalogStep, CatalogNext, catalogVars, tables, CreateProblem, UpdateProblem, AddCase,
        UpdateLanguage, UploadBegin, UploadDelete, UploadAdd, UploadFails, UploadEnd, Kill

ToldOf(p, is_sample) == ShapesOf(p, is_sample) = {c \in intended[p] : c.is_sample = is_sample}

LEMMA ToldNext ==
    ASSUME CatalogInv, CatalogStep
    PROVE  Told'
  <1>0. /\ CatalogTypes /\ CaseTable /\ UploadState
        /\ intended \in [ProblemIds -> SUBSET CaseShapes]
        /\ \A q \in ProblemIds, b \in BOOLEAN :
              <<q, b>> \notin failed /\ (Ready \/ q # upload.problem \/ b) => ToldOf(q, b)
        /\ upload.deleted => AddedSoFar
    BY DEF CatalogInv, Told, ToldOf, CatalogTypes
  <1>1. ASSUME Ready', \A q \in ProblemIds, b \in BOOLEAN : <<q, b>> \notin failed' => ToldOf(q, b)'
        PROVE  Told'
    <2>1. upload'.deleted = FALSE
      BY <1>1 DEF Ready, NoUpload
    <2> QED
      BY <1>1, <2>1 DEF Told, ToldOf
  <1>2. CASE UNCHANGED <<cases, upload, intended, failed>>
    BY <1>0, <1>2 DEF Told, ToldOf, AddedSoFar, ShapesOf, CasesOf, NumberedTo, Ready
  <1>3. ASSUME NEW p \in ProblemIds, DeleteProblem(p) PROVE Told'
    <2>1. /\ cases' = cases \ CasesOf(p) /\ intended' = [intended EXCEPT ![p] = {}]
          /\ failed' = failed \ ({p} \X BOOLEAN) /\ Ready /\ Ready'
      BY <1>3 DEF DeleteProblem, ProblemDelete, AdminRequest, Ready
    <2>2. ASSUME NEW q \in ProblemIds, NEW b \in BOOLEAN, <<q, b>> \notin failed' PROVE ToldOf(q, b)'
      <3>1. CASE q = p
        <4>1. ShapesOf(q, b)' = {} /\ intended'[q] = {}
          BY <1>0, <2>1, <3>1 DEF ShapesOf, CasesOf
        <4> QED
          BY <4>1 DEF ToldOf
      <3>2. CASE q # p
        <4>1. ShapesOf(q, b)' = ShapesOf(q, b) /\ intended'[q] = intended[q] /\ <<q, b>> \notin failed
          BY <1>0, <2>1, <2>2, <3>2 DEF ShapesOf, CasesOf
        <4> QED
          BY <1>0, <2>1, <4>1 DEF ToldOf
      <3> QED
        BY <3>1, <3>2
    <2> QED
      BY <1>1, <2>1, <2>2
  <1>4. ASSUME NEW p \in ProblemIds, NEW is_sample \in BOOLEAN, NEW order \in SortOrders,
               NEW d \in Data, NEW e \in Endings, AddCase(p, is_sample, order, d, e)
        PROVE  Told'
    <2> DEFINE new == [is_sample |-> is_sample, order |-> order, data |-> d]
    <2>1. Ready /\ Ready' /\ Exists(p) /\ UNCHANGED problems
      BY <1>4 DEF AddCase, AdminRequest, Ready
    <2>2. \/ \A q, b : ShapesOf(q, b)' = ShapesOf(q, b)
          \/ \A q, b : ShapesOf(q, b)' = IF q = p /\ b = is_sample THEN ShapesOf(q, b) \cup {new}
                                        ELSE ShapesOf(q, b)
      <3>1. CASE e = "error"
        BY <1>4, <3>1 DEF AddCase, ShapesOf, CasesOf
      <3>2. CASE e # "error"
        <4>1. Insert(p, is_sample, order, d) /\ order \in Int
          BY <1>4, <3>2, CatalogAssumption DEF AddCase
        <4> QED
          BY <1>0, <2>1, <4>1, InsertEffect
      <3> QED
        BY <3>1, <3>2
    <2>3. CASE e # "ok"
      <3>1. failed' = failed \cup {<<p, is_sample>>} /\ UNCHANGED intended
        BY <1>4, <2>3 DEF AddCase
      <3>2. ASSUME NEW q \in ProblemIds, NEW b \in BOOLEAN, <<q, b>> \notin failed' PROVE ToldOf(q, b)'
        <4>1. <<q, b>> \notin failed /\ ~(q = p /\ b = is_sample)
          BY <3>1, <3>2
        <4>2. ShapesOf(q, b)' = ShapesOf(q, b)
          BY <2>2, <4>1
        <4> QED
          BY <1>0, <2>1, <3>1, <4>1, <4>2 DEF ToldOf
      <3> QED
        BY <1>1, <2>1, <3>2
    <2>4. CASE e = "ok"
      <3>1. /\ intended' = [intended EXCEPT ![p] = @ \cup {new}] /\ UNCHANGED failed
            /\ Insert(p, is_sample, order, d) /\ order \in Int
        BY <1>4, <2>4, CatalogAssumption DEF AddCase
      <3>2. \A q, b : ShapesOf(q, b)' = IF q = p /\ b = is_sample THEN ShapesOf(q, b) \cup {new}
                                      ELSE ShapesOf(q, b)
        BY <1>0, <2>1, <3>1, InsertEffect
      <3>3. new.is_sample = is_sample
        OBVIOUS
      <3> HIDE DEF new
      <3>4. ASSUME NEW q \in ProblemIds, NEW b \in BOOLEAN, <<q, b>> \notin failed' PROVE ToldOf(q, b)'
        <4>1. ToldOf(q, b)
          BY <1>0, <2>1, <3>1, <3>4
        <4>2. intended'[q] = IF q = p THEN intended[q] \cup {new} ELSE intended[q]
          BY <1>0, <3>1
        <4> QED
          BY <3>2, <3>3, <4>1, <4>2 DEF ToldOf
      <3> QED
        BY <1>1, <2>1, <3>4
    <2> QED
      BY <2>3, <2>4
  <1>5. ASSUME NEW p \in ProblemIds, NEW archive \in Archives, UploadBegin(p, archive) PROVE Told'
    <2>1. /\ UNCHANGED <<cases, intended, failed>> /\ Ready /\ upload'.deleted = FALSE
      BY <1>5 DEF UploadBegin, AdminRequest, tables
    <2>2. \A q \in ProblemIds, b \in BOOLEAN : <<q, b>> \notin failed' => ToldOf(q, b)'
      BY <1>0, <2>1 DEF ToldOf, ShapesOf, CasesOf
    <2> QED
      BY <2>1, <2>2 DEF Told, ToldOf
  <1>6. ASSUME NEW e \in Endings, UploadDelete(e) PROVE Told'
    <2>1. /\ cases' = WithoutTests(upload.problem) /\ UNCHANGED <<intended, failed>> /\ ~Ready
          /\ upload' = [upload EXCEPT !.deleted = TRUE] /\ ~upload.deleted
      BY <1>6 DEF UploadDelete
    <2>2. /\ upload'.problem = upload.problem /\ upload'.done = 0 /\ upload.problem \in ProblemIds
      BY <1>0, <2>1 DEF UploadState, Uploads
    <2>3. \A c \in cases : c.is_sample \in BOOLEAN
      BY <1>0 DEF CaseTable, CaseRows
    <2>4. ASSUME NEW q \in ProblemIds, NEW b \in BOOLEAN, q # upload.problem \/ b
          PROVE  ShapesOf(q, b)' = ShapesOf(q, b)
      BY <2>1, <2>3, <2>4 DEF ShapesOf, CasesOf, WithoutTests
    <2>5. AddedSoFar'
      <3>1. {c \in cases' : c.problem = upload.problem /\ c.is_sample = FALSE} = {}
        BY <2>1, <2>3 DEF WithoutTests
      <3>2. \A n : n = 0 => 1..n = {}
        OBVIOUS
      <3> QED
        BY <2>2, <3>1, <3>2 DEF AddedSoFar, ShapesOf, CasesOf, NumberedTo
    <2>6. \A q \in ProblemIds, b \in BOOLEAN :
             <<q, b>> \notin failed' /\ (q # upload.problem \/ b) => ToldOf(q, b)'
      BY <1>0, <2>1, <2>4 DEF ToldOf
    <2>7. ~Ready'
      BY <2>2 DEF Ready, NoUpload, ProblemIds
    <2> QED
      BY <2>2, <2>5, <2>6, <2>7 DEF Told, ToldOf
  <1>7. ASSUME NEW e \in Endings, UploadAdd(e) PROVE Told'
    <2> DEFINE P == upload.problem
               k == upload.done + 1
               new == [is_sample |-> FALSE, order |-> k, data |-> upload.todo[k]]
    <2>1. /\ Insert(P, FALSE, k, upload.todo[k]) /\ UNCHANGED <<problems, intended, failed>>
          /\ ~Ready /\ upload' = [upload EXCEPT !.done = @ + 1] /\ upload.deleted
          /\ upload.done < Len(upload.todo)
      BY <1>7 DEF UploadAdd
    <2>2. /\ upload'.problem = P /\ upload'.done = k /\ upload'.todo = upload.todo
          /\ P \in ProblemIds /\ Exists(P) /\ upload.done \in Nat /\ k \in 1..Len(upload.todo)
      BY <1>0, <2>1, LenProperties DEF UploadState, Uploads
    <2>3. upload.todo[k] \in Data /\ k \in Int /\ FALSE \in BOOLEAN
      BY <1>0, <2>2, NumberedTyped
    <2>4. /\ CaseTable /\ UNCHANGED problems
          /\ \A q, b : ShapesOf(q, b)' = IF q = P /\ b = FALSE THEN ShapesOf(q, b) \cup {new}
                                        ELSE ShapesOf(q, b)
      <3>1. CaseTable /\ UNCHANGED problems
        BY <1>0, <2>1
      <3>3. Insert(P, FALSE, k, upload.todo[k]) /\ P \in ProblemIds /\ Exists(P)
        BY <2>1, <2>2
      <3> HIDE DEF P, k
      <3>2. \A q, b : ShapesOf(q, b)' =
                IF q = P /\ b = FALSE
                THEN ShapesOf(q, b) \cup {[is_sample |-> FALSE, order |-> k, data |-> upload.todo[k]]}
                ELSE ShapesOf(q, b)
        BY <2>3, <3>1, <3>3, InsertEffect
      <3> QED
        BY <3>1, <3>2
    <2>5. AddedSoFar'
      <3>1. 1..k = 1..upload.done \cup {k}
        BY <2>2
      <3>2. NumberedTo(k) = NumberedTo(upload.done) \cup {new}
        BY <3>1 DEF NumberedTo
      <3>3. ShapesOf(P, FALSE) = NumberedTo(upload.done)
        BY <1>0, <2>1 DEF AddedSoFar
      <3>4. \A q : q = P => ShapesOf(q, FALSE)' = NumberedTo(k)
        BY <2>4, <3>2, <3>3
      <3>5. \A q : ShapesOf(q, FALSE)' = {Shape(c) : c \in {d \in {c \in cases' : c.problem = q} : d.is_sample = FALSE}}
        BY DEF ShapesOf, CasesOf
      <3> QED
        BY <2>2, <3>4, <3>5 DEF AddedSoFar, ShapesOf, CasesOf, NumberedTo
    <2>6. \A q \in ProblemIds, b \in BOOLEAN :
             <<q, b>> \notin failed' /\ (q # P \/ b) => ToldOf(q, b)'
      BY <1>0, <2>1, <2>4 DEF ToldOf
    <2>7. ~Ready'
      BY <2>2 DEF Ready, NoUpload, ProblemIds
    <2> QED
      BY <2>2, <2>5, <2>6, <2>7 DEF Told, ToldOf
  <1>8. ASSUME ~Ready, upload' = NoUpload, UNCHANGED intended,
               failed' = failed \cup {<<upload.problem, FALSE>>},
               \A q \in ProblemIds, b \in BOOLEAN :
                  q # upload.problem \/ b => ShapesOf(q, b)' = ShapesOf(q, b)
        PROVE  Told'
    <2>1. ASSUME NEW q \in ProblemIds, NEW b \in BOOLEAN, <<q, b>> \notin failed' PROVE ToldOf(q, b)'
      <3>1. <<q, b>> \notin failed /\ (q # upload.problem \/ b)
        BY <1>8, <2>1
      <3>2. ToldOf(q, b) /\ ShapesOf(q, b)' = ShapesOf(q, b)
        BY <1>0, <1>8, <3>1
      <3> QED
        BY <1>8, <3>2 DEF ToldOf
    <2> QED
      BY <1>1, <1>8, <2>1 DEF Ready
  <1>9. ASSUME NEW e \in Endings, UploadFails(e) PROVE Told'
    <2> DEFINE P == upload.problem
               k == upload.done + 1
    <2>1. /\ ~Ready /\ upload' = NoUpload /\ UNCHANGED <<problems, intended>>
          /\ failed' = failed \cup {<<P, FALSE>>}
          /\ ~upload.deleted \/ upload.done < Len(upload.todo)
          /\ \/ UNCHANGED cases
             \/ upload.deleted /\ Insert(P, FALSE, k, upload.todo[k])
             \/ cases' = WithoutTests(P)
      BY <1>9 DEF UploadFails
    <2>2. \A c \in cases : c.is_sample \in BOOLEAN
      BY <1>0 DEF CaseTable, CaseRows
    <2>3. CASE UNCHANGED cases \/ cases' = WithoutTests(P)
      <3>1. \A q \in ProblemIds, b \in BOOLEAN : q # P \/ b => ShapesOf(q, b)' = ShapesOf(q, b)
        BY <2>2, <2>3 DEF ShapesOf, CasesOf, WithoutTests
      <3> QED
        BY <1>8, <2>1, <3>1
    <2>4. CASE upload.deleted /\ Insert(P, FALSE, k, upload.todo[k])
      <3>1. /\ P \in ProblemIds /\ Exists(P) /\ k \in 1..Len(upload.todo)
        BY <1>0, <2>1, <2>4, LenProperties DEF UploadState, Uploads
      <3>2. upload.todo[k] \in Data /\ k \in Int /\ FALSE \in BOOLEAN
        BY <1>0, <3>1, NumberedTyped
      <3>3. \A q, b : ShapesOf(q, b)' =
                IF q = P /\ b = FALSE
                THEN ShapesOf(q, b) \cup {[is_sample |-> FALSE, order |-> k, data |-> upload.todo[k]]}
                ELSE ShapesOf(q, b)
        <4> HIDE DEF P, k
        <4> QED
          BY <1>0, <2>1, <2>4, <3>1, <3>2, InsertEffect
      <3>4. \A q \in ProblemIds, b \in BOOLEAN : q # P \/ b => ShapesOf(q, b)' = ShapesOf(q, b)
        BY <3>3
      <3> QED
        BY <1>8, <2>1, <3>4
    <2> QED
      BY <2>1, <2>3, <2>4
  <1>10. CASE UploadEnd
    <2> DEFINE P == upload.problem
    <2>1. /\ ~Ready /\ upload.deleted /\ upload.done = Len(upload.todo) /\ upload' = NoUpload
          /\ intended' = [intended EXCEPT ![P] = {c \in @ : c.is_sample} \cup Numbered(upload.todo)]
          /\ failed' = failed \ {<<P, FALSE>>} /\ UNCHANGED cases
      BY <1>10 DEF UploadEnd, tables
    <2>2. P \in ProblemIds /\ ShapesOf(P, FALSE) = Numbered(upload.todo)
      BY <1>0, <2>1, NumberedTyped DEF UploadState, AddedSoFar
    <2>3. \A q, b : ShapesOf(q, b)' = ShapesOf(q, b)
      BY <2>1 DEF ShapesOf, CasesOf
    <2>4. \A c \in Numbered(upload.todo) : c.is_sample = FALSE
      BY DEF Numbered
    <2>5. \A c \in intended[P] : c.is_sample \in BOOLEAN
      BY <1>0, <2>2 DEF CaseShapes
    <2>6. ASSUME NEW q \in ProblemIds, NEW b \in BOOLEAN, <<q, b>> \notin failed' PROVE ToldOf(q, b)'
      <3>1. CASE q = P /\ b = FALSE
        <4>1. intended'[q] = {c \in intended[P] : c.is_sample} \cup Numbered(upload.todo)
          BY <1>0, <2>1, <3>1
        <4>2. {c \in intended'[q] : c.is_sample = FALSE} = Numbered(upload.todo)
          BY <2>4, <2>5, <4>1
        <4> QED
          BY <2>2, <2>3, <3>1, <4>2 DEF ToldOf
      <3>2. CASE ~(q = P /\ b = FALSE)
        <4>1. ToldOf(q, b)
          BY <1>0, <2>1, <2>6, <3>2
        <4>2. {c \in intended'[q] : c.is_sample = b} = {c \in intended[q] : c.is_sample = b}
          <5>1. CASE q # P
            BY <1>0, <2>1, <5>1
          <5>2. CASE q = P
            <6>1. b = TRUE /\ intended'[q] = {c \in intended[P] : c.is_sample} \cup Numbered(upload.todo)
              BY <1>0, <2>1, <3>2, <5>2
            <6> QED
              BY <2>4, <2>5, <5>2, <6>1
          <5> QED
            BY <5>1, <5>2
        <4> QED
          BY <2>3, <4>1, <4>2 DEF ToldOf
      <3> QED
        BY <3>1, <3>2
    <2> QED
      BY <1>1, <2>1, <2>6 DEF Ready
  <1>11. CASE Kill
    <2>1. /\ upload' = NoUpload /\ UNCHANGED <<cases, intended>>
          /\ failed' = IF Ready THEN failed ELSE failed \cup {<<upload.problem, FALSE>>}
      BY <1>11 DEF Kill, tables
    <2>2. \A q, b : ShapesOf(q, b)' = ShapesOf(q, b)
      BY <2>1 DEF ShapesOf, CasesOf
    <2>3. CASE Ready
      BY <1>2, <2>1, <2>3 DEF Ready
    <2>4. CASE ~Ready
      BY <1>8, <2>1, <2>2, <2>4
    <2> QED
      BY <2>3, <2>4
  <1> QED
    BY <1>2, <1>3, <1>4, <1>5, <1>6, <1>7, <1>9, <1>10, <1>11
    DEF CatalogStep, CatalogNext, catalogVars, tables, CreateProblem, UpdateProblem, UpdateLanguage, Submit

LEMMA CatalogInvNext ==
    ASSUME CatalogInv, CatalogStep
    PROVE  CatalogInv'
  BY CatalogTypesNext, CaseTableNext, UploadNext, RowsNext, ToldNext DEF CatalogInv

LEMMA CatalogInvInit == CatalogInit => CatalogInv
  <1> SUFFICES ASSUME CatalogInit PROVE CatalogInv
    OBVIOUS
  <1>1. CatalogTypes
    BY CatalogAssumption DEF CatalogInit, CatalogTypes
  <1>2. CaseTable
    BY FS_EmptySet DEF CatalogInit, CaseTable
  <1>3. /\ upload.done = 0 /\ upload.todo = <<>> /\ upload.deleted = FALSE /\ Ready
        /\ upload \in Uploads
    BY EmptySeq DEF CatalogInit, NoUpload, Uploads, Ready
  <1>4. UploadState
    BY <1>3, EmptySeq DEF UploadState
  <1>5. rows = <<>> /\ Len(rows) = 0 /\ DOMAIN rows = {} /\ rows \in Seq(SubmittedRows)
    BY EmptySeq DEF CatalogInit
  <1>6. RowTable /\ RowsTold
    BY <1>5, CatalogAssumption DEF RowTable, RowsTold, ProblemsKept
  <1>7. Told
    BY <1>3 DEF CatalogInit, Told, ShapesOf, CasesOf
  <1> QED
    BY <1>1, <1>2, <1>4, <1>6, <1>7 DEF CatalogInv

(* Rows are never changed. *)
LEMMA RowsGrow ==
    ASSUME CatalogInv, CatalogStep
    PROVE  /\ Len(rows) \in Nat /\ DOMAIN rows = 1..Len(rows) /\ DOMAIN rows' = 1..Len(rows')
           /\ Len(rows) <= Len(rows') /\ \A r \in 1..Len(rows) : rows'[r] = rows[r]
  <1>1. CatalogInv'
    BY CatalogInvNext
  <1>2. rows \in Seq(SubmittedRows) /\ rows' \in Seq(SubmittedRows)
    BY <1>1 DEF CatalogInv, RowTable
  <1> QED
    BY <1>2, RowsNext, LenProperties
-----------------------------------------------------------------------------
(***************************************************************************)
(* Executors: what the payloads, the requests under way, the files and the *)
(* recorded verdicts have to do with each other.                           *)
(***************************************************************************)
Statuses ==
    {"none", "accepted", "wrong_answer", "compile_error", "runtime_error",
     "time_limit_exceeded", "memory_limit_exceeded", "system_error"}

Payloads == [program : Programs, tests : Seq(Data) \ {<<>>}, limits : Limits]

Texts == {"none", "empty", "right", "wrong"}

WorkStates ==
    [pc : {"idle", "compile", "link", "exec", "run", "compare", "answer"}, job : Jobs \cup {0},
     attempt : Nat, k : Nat, rr : Statuses, status : Statuses]

ExecutorTypes ==
    /\ sent \in [Jobs -> Payloads \cup {NoPayload}]
    /\ attempts \in [Jobs -> 0..MaxAttempts] /\ awaited \in [Jobs -> Nat]
    /\ \A j \in Jobs : awaited[j] \in {0, attempts[j]}
    /\ verdict \in [Jobs -> Statuses]
    /\ inbox \in [Workers -> Seq([job : Jobs, attempt : Nat])]
    /\ work \in [Workers -> WorkStates]
    /\ built \subseteq Dirs
    /\ output \in [Dirs -> Seq(Texts)]

\* The step from one worker state to the next.
Moved(w, pc, k, rr, status) ==
    work' = [work EXCEPT ![w] = [pc |-> pc, job |-> work[w].job, attempt |-> work[w].attempt,
                                 k |-> k, rr |-> rr, status |-> status]]

LEMMA WorkEffect ==
    ASSUME work \in [Workers -> WorkStates], NEW w \in Workers,
           NEW pc, NEW k, NEW rr, NEW status
    PROVE  /\ Work(w, [pc |-> pc]) => Moved(w, pc, work[w].k, work[w].rr, work[w].status)
           /\ Work(w, [pc |-> pc, status |-> status]) => Moved(w, pc, work[w].k, work[w].rr, status)
           /\ Work(w, [pc |-> pc, rr |-> rr]) => Moved(w, pc, work[w].k, rr, work[w].status)
           /\ Work(w, [pc |-> pc, k |-> k, status |-> status]) => Moved(w, pc, k, work[w].rr, status)
           /\ Work(w, [pc |-> pc, k |-> k, rr |-> rr, status |-> status]) => Moved(w, pc, k, rr, status)
  <1> DEFINE Fields == {"pc", "job", "attempt", "k", "rr", "status"}
             Now(changes, names) ==
                [f \in Fields |-> IF f \in names THEN changes[f] ELSE work[w][f]]
             Then(p, n, r, s) == [pc |-> p, job |-> work[w].job, attempt |-> work[w].attempt,
                                  k |-> n, rr |-> r, status |-> s]
  <1>1. DOMAIN work[w] = Fields
    BY DEF WorkStates
  <1>2. ASSUME NEW changes, NEW names, DOMAIN changes = names, Work(w, changes)
        PROVE  work' = [work EXCEPT ![w] = Now(changes, names)]
    BY <1>1, <1>2 DEF Work
  <1>3. ASSUME Work(w, [pc |-> pc])
        PROVE  Moved(w, pc, work[w].k, work[w].rr, work[w].status)
    <2>1. DOMAIN [pc |-> pc] = {"pc"}
      OBVIOUS
    <2>2. Now([pc |-> pc], {"pc"}) = Then(pc, work[w].k, work[w].rr, work[w].status)
      OBVIOUS
    <2> HIDE DEF Now
    <2> QED
      BY <1>2, <1>3, <2>1, <2>2 DEF Moved
  <1>4. ASSUME Work(w, [pc |-> pc, status |-> status])
        PROVE  Moved(w, pc, work[w].k, work[w].rr, status)
    <2>1. DOMAIN [pc |-> pc, status |-> status] = {"pc", "status"}
      OBVIOUS
    <2>2. Now([pc |-> pc, status |-> status], {"pc", "status"})
            = Then(pc, work[w].k, work[w].rr, status)
      OBVIOUS
    <2> HIDE DEF Now
    <2> QED
      BY <1>2, <1>4, <2>1, <2>2 DEF Moved
  <1>5. ASSUME Work(w, [pc |-> pc, rr |-> rr])
        PROVE  Moved(w, pc, work[w].k, rr, work[w].status)
    <2>1. DOMAIN [pc |-> pc, rr |-> rr] = {"pc", "rr"}
      OBVIOUS
    <2>2. Now([pc |-> pc, rr |-> rr], {"pc", "rr"}) = Then(pc, work[w].k, rr, work[w].status)
      OBVIOUS
    <2> HIDE DEF Now
    <2> QED
      BY <1>2, <1>5, <2>1, <2>2 DEF Moved
  <1>6. ASSUME Work(w, [pc |-> pc, k |-> k, status |-> status])
        PROVE  Moved(w, pc, k, work[w].rr, status)
    <2>1. DOMAIN [pc |-> pc, k |-> k, status |-> status] = {"pc", "k", "status"}
      OBVIOUS
    <2>2. Now([pc |-> pc, k |-> k, status |-> status], {"pc", "k", "status"})
            = Then(pc, k, work[w].rr, status)
      OBVIOUS
    <2> HIDE DEF Now
    <2> QED
      BY <1>2, <1>6, <2>1, <2>2 DEF Moved
  <1>7. ASSUME Work(w, [pc |-> pc, k |-> k, rr |-> rr, status |-> status])
        PROVE  Moved(w, pc, k, rr, status)
    <2>1. DOMAIN [pc |-> pc, k |-> k, rr |-> rr, status |-> status] = {"pc", "k", "rr", "status"}
      OBVIOUS
    <2>2. Now([pc |-> pc, k |-> k, rr |-> rr, status |-> status], {"pc", "k", "rr", "status"})
            = Then(pc, k, rr, status)
      OBVIOUS
    <2> HIDE DEF Now
    <2> QED
      BY <1>2, <1>7, <2>1, <2>2 DEF Moved
  <1> QED
    BY <1>3, <1>4, <1>5, <1>6, <1>7

LEMMA OutputEffect ==
    ASSUME output \in [Dirs -> Seq(Texts)], NEW d \in Dirs, NEW k \in Nat \ {0},
           NEW text \in Texts, SetOutput(d, k, text)
    PROVE  /\ output' \in [Dirs -> Seq(Texts)]
           /\ \A e \in Dirs : e # d => output'[e] = output[e]
           /\ Len(output'[d]) = IF k > Len(output[d]) THEN k ELSE Len(output[d])
           /\ output'[d][k] = text
           /\ \A i \in 1..Len(output'[d]) :
                 \/ i = k
                 \/ output'[d][i] = "none"
                 \/ i \in 1..Len(output[d]) /\ output'[d][i] = output[d][i]
  <1> DEFINE n == IF k > Len(output[d]) THEN k ELSE Len(output[d])
             new == [i \in 1..n |->
                        IF i = k THEN text ELSE IF i <= Len(output[d]) THEN output[d][i] ELSE "none"]
  <1>1. output[d] \in Seq(Texts) /\ Len(output[d]) \in Nat
    BY LenProperties
  <1>2. \A i \in 1..Len(output[d]) : output[d][i] \in Texts
    BY <1>1, ElementOfSeq
  <1>3. n \in Nat /\ k \in 1..n
    BY <1>1
  <1>4. output' = [output EXCEPT ![d] = new]
    BY DEF SetOutput
  <1>5. \A i \in 1..n : new[i] \in Texts
    <2> SUFFICES ASSUME NEW i \in 1..n PROVE new[i] \in Texts
      OBVIOUS
    <2>1. CASE i = k
      BY <2>1
    <2>2. CASE i # k /\ i <= Len(output[d])
      BY <1>1, <1>2, <1>3, <2>2
    <2>3. CASE i # k /\ ~(i <= Len(output[d]))
      BY <2>3 DEF Texts
    <2> QED
      BY <2>1, <2>2, <2>3
  <1>6. new[k] = text
    BY <1>3
  <1>7. \A i \in 1..n : i = k \/ new[i] = "none"
                        \/ (i \in 1..Len(output[d]) /\ new[i] = output[d][i])
    BY <1>1, <1>3
  <1>8. DOMAIN new = 1..n /\ new = [i \in 1..n |-> new[i]]
    OBVIOUS
  <1> HIDE DEF new, n
  <1>9. new \in [1..n -> Texts]
    BY <1>5, <1>8
  <1>10. new \in Seq(Texts) /\ Len(new) = n
    BY <1>3, <1>8, <1>9, LenProperties
  <1>11. output'[d] = new /\ output' \in [Dirs -> Seq(Texts)]
         /\ \A e \in Dirs : e # d => output'[e] = output[e]
    BY <1>4, <1>10
  <1> QED
    BY <1>3, <1>6, <1>7, <1>10, <1>11 DEF n

LEMMA RunStatusTyped ==
    ASSUME NEW run \in Runs
    PROVE  /\ RunStatus(run) \in Statuses \ {"none", "wrong_answer", "system_error"}
           /\ Passes(run) <=> RunStatus(run) = "accepted" /\ run.right
  BY DEF Runs, RunStatus, Passes, Statuses

\* How the k-th run of a submission ends.
RunAt(j, k) == RunOf(sent[j].program, sent[j].tests[k], sent[j].limits)

PassedTo(j, n) == \A i \in 1..n : Passes(RunAt(j, i))

Building(w) == work[w].pc \in {"exec", "run", "compare"}

\* Who works on something works on what has been sent, with what the program
\* does by itself; a status that is still `accepted' has all its runs behind.
WorkSound(w) ==
    LET s == work[w]
    IN  /\ s.pc = "idle" <=> s.job = 0
        /\ s.pc # "idle" => sent[s.job] # NoPayload
        /\ s.pc = "answer" => s.status = "compile_error" /\ ~Compiles(sent[s.job].program)
        /\ s.pc = "link" => Compiles(sent[s.job].program)
        /\ Building(w) =>
              /\ Compiles(sent[s.job].program) /\ s.k \in 1..(Len(sent[s.job].tests) + 1)
              /\ s.status = "accepted" => PassedTo(s.job, s.k - 1)
        /\ s.pc \in {"run", "compare"} =>
              s.k <= Len(sent[s.job].tests) /\ s.k <= Len(output[Here(w)])
        /\ s.pc = "compare" /\ s.rr = "accepted" => RunStatus(RunAt(s.job, s.k)) = "accepted"

\* A file that is right is the output of a run that is right, whoever ran it.
OutputSound(w, j) ==
    /\ Len(output[Dir(w, j)]) <= Len(sent[j].tests)
    /\ \A k \in 1..Len(output[Dir(w, j)]) : output[Dir(w, j)][k] = "right" => RunAt(j, k).right

RequestsSent == \A w \in Workers : \A i \in 1..Len(inbox[w]) : sent[inbox[w][i].job] # NoPayload

VerdictSound(j) ==
    /\ verdict[j] # "none" \/ awaited[j] # 0 => sent[j] # NoPayload
    /\ verdict[j] = "accepted" => PassedTo(j, Len(sent[j].tests))

ExecutorInv ==
    /\ ExecutorTypes /\ RequestsSent
    /\ \A w \in Workers : WorkSound(w)
    /\ \A w \in Workers, j \in Jobs : OutputSound(w, j)
    /\ \A j \in Jobs : VerdictSound(j)

LEMMA SentTyped ==
    ASSUME ExecutorTypes, NEW j \in Jobs
    PROVE  /\ Len(sent[j].tests) \in Nat /\ DOMAIN sent[j].tests = 1..Len(sent[j].tests)
           /\ sent[j] # NoPayload => \A k \in 1..Len(sent[j].tests) : RunAt(j, k) \in Runs
           /\ sent[j] = NoPayload => Len(sent[j].tests) = 0
  <1>1. CASE sent[j] = NoPayload
    <2>1. sent[j].tests = <<>>
      BY <1>1 DEF NoPayload
    <2> QED
      BY <1>1, <2>1, EmptySeq
  <1>2. CASE sent[j] # NoPayload
    <2>1. sent[j] \in Payloads
      BY <1>2 DEF ExecutorTypes
    <2>2. sent[j].tests \in Seq(Data) /\ sent[j].program \in Programs /\ sent[j].limits \in Limits
      BY <2>1 DEF Payloads
    <2>3. \A k \in 1..Len(sent[j].tests) : sent[j].tests[k] \in Data
      BY <2>2, ElementOfSeq
    <2> QED
      BY <1>2, <2>2, <2>3, LenProperties, RunsEnd DEF RunAt
  <1> QED
    BY <1>1, <1>2

LEMMA HereTyped ==
    ASSUME NEW w \in Workers
    PROVE  /\ \A j \in Jobs : Dir(w, j) \in Dirs
           /\ \A v \in Workers : \A i, j \in Jobs : Dir(w, i) = Dir(v, j) => i = j
           /\ ~Shared => \A v \in Workers, i, j \in Jobs : Dir(w, i) = Dir(v, j) => v = w
  BY DEF Dir, Dirs

\* The worker's action, seen from the other ones and from the payloads.
LEMMA WorkerFrame ==
    ASSUME ExecutorTypes, NEW w \in Workers, WorkerNext(w)
    PROVE  UNCHANGED <<sent, attempts>> /\ \A v \in Workers : v # w => work'[v] = work[v]
  BY DEF WorkerNext, Take, CompileFails, Unlink, Link, Exec, Run, Compare, Answer, Work, ExecutorTypes

LEMMA Restated ==
    ASSUME UNCHANGED sent
    PROVE  /\ \A j, k : RunAt(j, k)' = RunAt(j, k)
           /\ \A j, n : PassedTo(j, n)' = PassedTo(j, n)
  BY DEF RunAt, PassedTo

\* The state a worker is in after its action.
LEMMA WorkerMoves ==
    ASSUME ExecutorTypes, NEW w \in Workers
    PROVE  /\ CompileFails(w) => Moved(w, "answer", work[w].k, work[w].rr, "compile_error")
           /\ Unlink(w) => Moved(w, "link", work[w].k, work[w].rr, work[w].status)
           /\ Link(w) => Moved(w, "exec", 1, work[w].rr, "accepted")
           /\ Exec(w) => IF Here(w) \in built
                         THEN Moved(w, "run", work[w].k, work[w].rr, work[w].status)
                         ELSE Moved(w, "compare", work[w].k, "runtime_error", work[w].status)
           /\ Run(w) => Moved(w, "compare", work[w].k, RunStatus(RunAt(work[w].job, work[w].k)),
                              work[w].status)
           /\ Compare(w) => Moved(w, "exec", work[w].k + 1, "none",
                                  IF TestStatus(w) = "accepted" THEN work[w].status ELSE TestStatus(w))
  <1>1. work \in [Workers -> WorkStates]
    BY DEF ExecutorTypes
  <1> QED
    BY <1>1, WorkEffect DEF CompileFails, Unlink, Link, Exec, Run, Compare, RunAt, Payload, Tests

LEMMA MovedTyped ==
    ASSUME work \in [Workers -> WorkStates], NEW w \in Workers,
           NEW pc \in {"idle", "compile", "link", "exec", "run", "compare", "answer"},
           NEW k \in Nat, NEW rr \in Statuses, NEW status \in Statuses, Moved(w, pc, k, rr, status)
    PROVE  /\ work' \in [Workers -> WorkStates]
           /\ work'[w].pc = pc /\ work'[w].job = work[w].job /\ work'[w].attempt = work[w].attempt
           /\ work'[w].k = k /\ work'[w].rr = rr /\ work'[w].status = status
           /\ \A v \in Workers : v # w => work'[v] = work[v]
  <1>1. work[w].job \in Jobs \cup {0} /\ work[w].attempt \in Nat
    BY DEF WorkStates
  <1> DEFINE new == [pc |-> pc, job |-> work[w].job, attempt |-> work[w].attempt,
                     k |-> k, rr |-> rr, status |-> status]
  <1>2. new \in WorkStates
    BY <1>1 DEF WorkStates
  <1>3. /\ new.pc = pc /\ new.job = work[w].job /\ new.attempt = work[w].attempt
        /\ new.k = k /\ new.rr = rr /\ new.status = status
    OBVIOUS
  <1>4. work' = [work EXCEPT ![w] = new]
    BY DEF Moved
  <1> HIDE DEF new
  <1> QED
    BY <1>2, <1>3, <1>4

LEMMA Busy ==
    ASSUME ExecutorInv, NEW w \in Workers, work[w].pc # "idle"
    PROVE  /\ work[w].job \in Jobs /\ sent[work[w].job] # NoPayload /\ Here(w) \in Dirs
           /\ work[w].k \in Nat /\ work[w].rr \in Statuses /\ work[w].status \in Statuses
           /\ work \in [Workers -> WorkStates] /\ ExecutorTypes
           /\ Len(Tests(w)) \in Nat
           /\ \A k \in 1..Len(Tests(w)) : RunAt(work[w].job, k) \in Runs
  <1>1. WorkSound(w) /\ ExecutorTypes
    BY DEF ExecutorInv
  <1>2. work[w] \in WorkStates
    BY <1>1 DEF ExecutorTypes
  <1>3. work[w].job \in Jobs /\ sent[work[w].job] # NoPayload
    BY <1>1, <1>2 DEF WorkSound, WorkStates
  <1>4. Here(w) \in Dirs
    BY <1>3, HereTyped DEF Here
  <1> QED
    BY <1>1, <1>2, <1>3, <1>4, SentTyped DEF WorkStates, ExecutorTypes, Tests, Payload

\* The worker's writing of tc_out.
LEMMA Written ==
    ASSUME ExecutorInv, NEW w \in Workers, Exec(w) \/ Run(w)
    PROVE  \E text \in Texts :
              /\ SetOutput(Here(w), work[w].k, text)
              /\ work[w].pc # "idle" /\ work[w].k \in 1..Len(Tests(w))
              /\ text = "right" => RunAt(work[w].job, work[w].k).right
              /\ Run(w) => text = IF RunAt(work[w].job, work[w].k).right THEN "right" ELSE "wrong"
  <1>1. WorkSound(w) /\ work[w].pc \in {"exec", "run"}
    BY DEF ExecutorInv, Exec, Run, At
  <1>2. work[w].k \in Nat /\ Len(Tests(w)) \in Nat
    BY <1>1, Busy
  <1>3. work[w].k \in 1..Len(Tests(w))
    BY <1>1, <1>2 DEF WorkSound, Building, Exec, Run, At, Tests, Payload
  <1>4. CASE Exec(w)
    <2>1. SetOutput(Here(w), work[w].k, "empty") /\ ~Run(w)
      BY <1>4 DEF Exec, Run, At
    <2> QED
      BY <1>1, <1>3, <2>1 DEF Texts
  <1>5. CASE Run(w)
    <2> DEFINE text == IF RunAt(work[w].job, work[w].k).right THEN "right" ELSE "wrong"
    <2>1. SetOutput(Here(w), work[w].k, text)
      BY <1>5 DEF Run, RunAt, Payload, Tests
    <2>2. text \in Texts
      BY DEF Texts
    <2> QED
      BY <1>1, <1>3, <2>1, <2>2
  <1> QED
    BY <1>4, <1>5

LEMMA OutputGrows ==
    ASSUME ExecutorInv, ExecutorNext
    PROVE  /\ output' \in [Dirs -> Seq(Texts)]
           /\ \A d \in Dirs : Len(output[d]) <= Len(output'[d])
  <1>1. ExecutorTypes /\ \A d \in Dirs : Len(output[d]) \in Nat
    BY LenProperties DEF ExecutorInv, ExecutorTypes
  <1>2. ASSUME NEW w \in Workers, Exec(w) \/ Run(w)
        PROVE  /\ output' \in [Dirs -> Seq(Texts)]
               /\ \A d \in Dirs : Len(output[d]) <= Len(output'[d])
    <2>1. PICK text \in Texts : SetOutput(Here(w), work[w].k, text) /\ work[w].pc # "idle"
                                /\ work[w].k \in 1..Len(Tests(w))
      BY <1>2, Written
    <2>2. Here(w) \in Dirs /\ work[w].k \in Nat \ {0} /\ output \in [Dirs -> Seq(Texts)]
      BY <1>1, <2>1, Busy DEF ExecutorTypes
    <2>3. /\ output' \in [Dirs -> Seq(Texts)]
          /\ \A e \in Dirs : e # Here(w) => output'[e] = output[e]
          /\ Len(output'[Here(w)]) = IF work[w].k > Len(output[Here(w)]) THEN work[w].k
                                     ELSE Len(output[Here(w)])
      BY <2>1, <2>2, OutputEffect
    <2> HIDE DEF Here
    <2>4. ASSUME NEW d \in Dirs PROVE Len(output[d]) <= Len(output'[d])
      <3>1. CASE d = Here(w)
        BY <1>1, <2>2, <2>3, <3>1
      <3>2. CASE d # Here(w)
        BY <1>1, <2>3, <3>2
      <3> QED
        BY <3>1, <3>2
    <2> QED
      BY <2>3, <2>4
  <1>3. CASE UNCHANGED output
    BY <1>1, <1>3 DEF ExecutorTypes
  <1> QED
    BY <1>2, <1>3
    DEF ExecutorNext, WorkerNext, Attempt, TimeOut, Take, CompileFails, Unlink, Link, Compare, Answer

\* What Take makes of the state of a worker.
Started(s, j, a) == [s EXCEPT !.pc = "compile", !.job = j, !.attempt = a]

LEMMA StartedTyped ==
    ASSUME NEW s \in WorkStates, NEW j \in Jobs, NEW a \in Nat
    PROVE  /\ Started(s, j, a) \in WorkStates
           /\ Started(s, j, a).pc = "compile" /\ Started(s, j, a).job = j
           /\ Started(s, j, a).attempt = a
  BY DEF Started, WorkStates

LEMMA Taken ==
    ASSUME ExecutorInv, NEW w \in Workers, Take(w)
    PROVE  /\ work' \in [Workers -> WorkStates]
           /\ work'[w].pc = "compile" /\ work'[w].job \in Jobs /\ sent[work'[w].job] # NoPayload
           /\ work'[w].attempt \in Nat
           /\ \A v \in Workers : v # w => work'[v] = work[v]
           /\ inbox' \in [Workers -> Seq([job : Jobs, attempt : Nat])]
           /\ RequestsSent'
  <1>1. /\ inbox[w] \in Seq([job : Jobs, attempt : Nat]) /\ inbox[w] # <<>>
        /\ work \in [Workers -> WorkStates]
        /\ inbox \in [Workers -> Seq([job : Jobs, attempt : Nat])]
    BY DEF Take, ExecutorInv, ExecutorTypes
  <1> DEFINE first == Head(inbox[w])
             new == [AtRest EXCEPT !.pc = "compile", !.job = first.job, !.attempt = first.attempt]
  <1>2. /\ first \in [job : Jobs, attempt : Nat] /\ Tail(inbox[w]) \in Seq([job : Jobs, attempt : Nat])
        /\ Len(inbox[w]) \in Nat /\ Len(inbox[w]) # 0 /\ first = inbox[w][1]
        /\ Len(Tail(inbox[w])) = Len(inbox[w]) - 1
        /\ \A i \in 1..Len(Tail(inbox[w])) : Tail(inbox[w])[i] = inbox[w][i + 1]
    <2>1. /\ first \in [job : Jobs, attempt : Nat] /\ Tail(inbox[w]) \in Seq([job : Jobs, attempt : Nat])
          /\ Len(Tail(inbox[w])) = Len(inbox[w]) - 1
          /\ \A i \in 1..Len(Tail(inbox[w])) : Tail(inbox[w])[i] = inbox[w][i + 1]
      BY <1>1, HeadTailProperties
    <2>2. Len(inbox[w]) \in Nat /\ Len(inbox[w]) # 0
      BY <1>1, EmptySeq, LenProperties
    <2>3. first = inbox[w][1]
      BY <1>1
    <2> QED
      BY <2>1, <2>2, <2>3
  <1>3. first.job \in Jobs /\ first.attempt \in Nat
    BY <1>2
  <1>4. sent[first.job] # NoPayload
    BY <1>2 DEF ExecutorInv, RequestsSent
  <1>5. work' = [work EXCEPT ![w] = new] /\ inbox' = [inbox EXCEPT ![w] = Tail(@)] /\ UNCHANGED sent
    BY DEF Take
  <1>6. new \in WorkStates /\ new.pc = "compile" /\ new.job = first.job /\ new.attempt = first.attempt
    <2>1. AtRest \in WorkStates
      BY DEF AtRest, WorkStates, Statuses
    <2>2. new = Started(AtRest, first.job, first.attempt)
      BY DEF Started
    <2> HIDE DEF new, first
    <2>3. first.job \in Jobs /\ first.attempt \in Nat
      BY <1>3
    <2> QED
      BY <2>1, <2>2, <2>3, StartedTyped
  <1>7. RequestsSent'
    <2> SUFFICES ASSUME NEW v \in Workers, NEW i \in 1..Len(inbox'[v])
                 PROVE  sent[inbox'[v][i].job] # NoPayload
      BY <1>5 DEF RequestsSent
    <2>1. CASE v = w
      <3>1. inbox'[v] = Tail(inbox[w])
        BY <1>1, <1>5, <2>1
      <3>2. i + 1 \in 1..Len(inbox[w]) /\ inbox'[v][i] = inbox[w][i + 1]
        BY <1>2, <3>1
      <3> QED
        BY <3>2 DEF ExecutorInv, RequestsSent
    <2>2. CASE v # w
      BY <1>1, <1>5, <2>2 DEF ExecutorInv, RequestsSent
    <2> QED
      BY <2>1, <2>2
  <1> HIDE DEF new, first
  <1> QED
    BY <1>1, <1>2, <1>3, <1>4, <1>5, <1>6, <1>7

\* The actions of a worker that is not at rest, and the state they lead to:
\* its request stays, and the rest has its types.
LEMMA BusyMoves ==
    ASSUME ExecutorInv, NEW w \in Workers, WorkerNext(w), ~Take(w), ~Answer(w)
    PROVE  /\ work[w].pc # "idle" /\ work' \in [Workers -> WorkStates]
           /\ work'[w].job = work[w].job /\ work'[w].attempt = work[w].attempt
           /\ UNCHANGED <<sent, attempts, awaited, verdict, inbox>>
           /\ \A v \in Workers : v # w => work'[v] = work[v]
           /\ CompileFails(w) => work'[w].pc = "answer" /\ work'[w].status = "compile_error"
           /\ Unlink(w) => work'[w].pc = "link"
           /\ Link(w) => work'[w].pc = "exec" /\ work'[w].k = 1 /\ work'[w].status = "accepted"
           /\ Exec(w) =>
                 /\ work'[w].k = work[w].k /\ work'[w].status = work[w].status
                 /\ IF Here(w) \in built THEN work'[w].pc = "run"
                    ELSE work'[w].pc = "compare" /\ work'[w].rr = "runtime_error"
           /\ Run(w) =>
                 /\ work'[w].pc = "compare" /\ work'[w].k = work[w].k
                 /\ work'[w].status = work[w].status
                 /\ work'[w].rr = RunStatus(RunAt(work[w].job, work[w].k))
           /\ Compare(w) =>
                 /\ work'[w].pc = "exec" /\ work'[w].k = work[w].k + 1
                 /\ work'[w].status =
                       IF TestStatus(w) = "accepted" THEN work[w].status ELSE TestStatus(w)
  <1>1. /\ work[w].pc # "idle"
        /\ UNCHANGED <<sent, attempts, awaited, verdict, inbox>>
    BY DEF WorkerNext, CompileFails, Unlink, Link, Exec, Run, Compare, At
  <1>2. /\ work \in [Workers -> WorkStates] /\ ExecutorTypes
        /\ work[w].k \in Nat /\ work[w].rr \in Statuses /\ work[w].status \in Statuses
        /\ work[w].k + 1 \in Nat /\ 1 \in Nat
    BY <1>1, Busy
  <1>3. {"accepted", "compile_error", "runtime_error", "wrong_answer", "none"} \subseteq Statuses
    BY DEF Statuses
  <1>4. CASE CompileFails(w)
    <2>1. ~Unlink(w) /\ ~Link(w) /\ ~Exec(w) /\ ~Run(w) /\ ~Compare(w)
      BY <1>4 DEF CompileFails, Unlink, Link, Exec, Run, Compare, At
    <2>2. Moved(w, "answer", work[w].k, work[w].rr, "compile_error")
      BY <1>2, <1>4, WorkerMoves
    <2> QED
      BY <1>1, <1>2, <1>3, <2>1, <2>2, MovedTyped
  <1>5. CASE Unlink(w)
    <2>1. ~CompileFails(w) /\ ~Link(w) /\ ~Exec(w) /\ ~Run(w) /\ ~Compare(w)
      BY <1>5 DEF CompileFails, Unlink, Link, Exec, Run, Compare, At
    <2>2. Moved(w, "link", work[w].k, work[w].rr, work[w].status)
      BY <1>2, <1>5, WorkerMoves
    <2> QED
      BY <1>1, <1>2, <1>3, <2>1, <2>2, MovedTyped
  <1>6. CASE Link(w)
    <2>1. ~CompileFails(w) /\ ~Unlink(w) /\ ~Exec(w) /\ ~Run(w) /\ ~Compare(w)
      BY <1>6 DEF CompileFails, Unlink, Link, Exec, Run, Compare, At
    <2>2. Moved(w, "exec", 1, work[w].rr, "accepted")
      BY <1>2, <1>6, WorkerMoves
    <2> QED
      BY <1>1, <1>2, <1>3, <2>1, <2>2, MovedTyped
  <1>7. CASE Exec(w)
    <2>1. ~CompileFails(w) /\ ~Unlink(w) /\ ~Link(w) /\ ~Run(w) /\ ~Compare(w)
      BY <1>7 DEF CompileFails, Unlink, Link, Exec, Run, Compare, At
    <2>2. CASE Here(w) \in built
      BY <1>1, <1>2, <1>3, <1>7, <2>1, <2>2, WorkerMoves, MovedTyped
    <2>3. CASE Here(w) \notin built
      BY <1>1, <1>2, <1>3, <1>7, <2>1, <2>3, WorkerMoves, MovedTyped
    <2> QED
      BY <2>2, <2>3
  <1>8. CASE Run(w)
    <2>1. ~CompileFails(w) /\ ~Unlink(w) /\ ~Link(w) /\ ~Exec(w) /\ ~Compare(w)
      BY <1>8 DEF CompileFails, Unlink, Link, Exec, Run, Compare, At
    <2>2. work[w].k \in 1..Len(Tests(w))
      BY <1>8, Written
    <2>3. RunStatus(RunAt(work[w].job, work[w].k)) \in Statuses
      BY <1>1, <2>2, Busy, RunStatusTyped
    <2> QED
      BY <1>1, <1>2, <1>8, <2>1, <2>3, WorkerMoves, MovedTyped
  <1>9. CASE Compare(w)
    <2> DEFINE next == IF TestStatus(w) = "accepted" THEN work[w].status ELSE TestStatus(w)
    <2>1. ~CompileFails(w) /\ ~Unlink(w) /\ ~Link(w) /\ ~Exec(w) /\ ~Run(w)
      BY <1>9 DEF CompileFails, Unlink, Link, Exec, Run, Compare, At
    <2>2. next \in Statuses
      BY <1>2, <1>3 DEF TestStatus
    <2>3. Moved(w, "exec", work[w].k + 1, "none", next)
      BY <1>2, <1>9, WorkerMoves
    <2> HIDE DEF next
    <2>4. /\ work' \in [Workers -> WorkStates]
          /\ work'[w].pc = "exec" /\ work'[w].job = work[w].job /\ work'[w].attempt = work[w].attempt
          /\ work'[w].k = work[w].k + 1 /\ work'[w].status = next
          /\ \A v \in Workers : v # w => work'[v] = work[v]
      BY <1>2, <1>3, <2>2, <2>3, MovedTyped
    <2> QED
      BY <1>1, <2>1, <2>4 DEF next
  <1> QED
    BY <1>4, <1>5, <1>6, <1>7, <1>8, <1>9 DEF WorkerNext

LEMMA Answered ==
    ASSUME ExecutorInv, NEW w \in Workers, Answer(w)
    PROVE  /\ work' \in [Workers -> WorkStates] /\ work'[w] = AtRest
           /\ \A v \in Workers : v # w => work'[v] = work[v]
  <1>1. AtRest \in WorkStates /\ work \in [Workers -> WorkStates]
    BY DEF AtRest, WorkStates, Statuses, ExecutorInv, ExecutorTypes
  <1> QED
    BY <1>1 DEF Answer

LEMMA ExecutorTypesNext ==
    ASSUME ExecutorInv, ExecutorNext
    PROVE  ExecutorTypes'
  <1>0. ExecutorTypes /\ MaxAttempts \in Nat
    BY ExecutorAssumption DEF ExecutorInv
  <1>1. output' \in [Dirs -> Seq(Texts)]
    BY OutputGrows
  <1>2. ASSUME NEW j \in Jobs, NEW w \in Workers, Attempt(j, w) PROVE ExecutorTypes'
    <2>1. attempts[j] + 1 \in 0..MaxAttempts /\ attempts[j] + 1 \in Nat
      BY <1>0, <1>2 DEF Attempt, ExecutorTypes
    <2>2. attempts' = [attempts EXCEPT ![j] = attempts[j] + 1]
          /\ awaited' = [awaited EXCEPT ![j] = attempts[j] + 1]
      BY <1>2 DEF Attempt
    <2>3. /\ attempts' \in [Jobs -> 0..MaxAttempts] /\ awaited' \in [Jobs -> Nat]
          /\ \A i \in Jobs : awaited'[i] \in {0, attempts'[i]}
      BY <1>0, <2>1, <2>2 DEF ExecutorTypes
    <2>4. inbox' \in [Workers -> Seq([job : Jobs, attempt : Nat])]
      <3>1. [job |-> j, attempt |-> attempts[j] + 1] \in [job : Jobs, attempt : Nat]
        BY <2>1
      <3>2. Append(inbox[w], [job |-> j, attempt |-> attempts[j] + 1])
              \in Seq([job : Jobs, attempt : Nat])
        BY <1>0, <3>1, AppendProperties DEF ExecutorTypes
      <3> QED
        BY <1>0, <1>2, <3>2 DEF Attempt, ExecutorTypes
    <2> QED
      BY <1>0, <1>1, <1>2, <2>3, <2>4 DEF Attempt, ExecutorTypes
  <1>3. ASSUME NEW j \in Jobs, TimeOut(j) PROVE ExecutorTypes'
    <2>1. verdict' \in [Jobs -> Statuses]
      BY <1>0, <1>3 DEF TimeOut, ExecutorTypes, Statuses
    <2>2. awaited' \in [Jobs -> Nat] /\ \A i \in Jobs : awaited'[i] \in {0, attempts'[i]}
      BY <1>0, <1>3 DEF TimeOut, ExecutorTypes
    <2> QED
      BY <1>0, <1>3, <2>1, <2>2 DEF TimeOut, ExecutorTypes
  <1>4. ASSUME NEW w \in Workers, Take(w) PROVE ExecutorTypes'
    BY <1>0, <1>4, Taken DEF Take, ExecutorTypes
  <1>5. ASSUME NEW w \in Workers, WorkerNext(w), ~Take(w), ~Answer(w) PROVE ExecutorTypes'
    <2>1. /\ work' \in [Workers -> WorkStates]
          /\ UNCHANGED <<sent, attempts, awaited, verdict, inbox>>
      BY <1>5, BusyMoves
    <2>2. work[w].pc # "idle" /\ Here(w) \in Dirs
      BY <1>5, BusyMoves, Busy
    <2>3. built' \subseteq Dirs
      BY <1>0, <1>5, <2>2
      DEF WorkerNext, CompileFails, Unlink, Link, Exec, Run, Compare, ExecutorTypes
    <2> QED
      BY <1>0, <1>1, <2>1, <2>3 DEF ExecutorTypes
  <1>6. ASSUME NEW w \in Workers, Answer(w) PROVE ExecutorTypes'
    <2>1. work' \in [Workers -> WorkStates] /\ work[w].pc # "idle"
      BY <1>6, Answered DEF Answer, At
    <2>2. work[w].status \in Statuses /\ work[w].job \in Jobs
      BY <2>1, Busy
    <2>3. verdict' \in [Jobs -> Statuses]
      BY <1>0, <1>6, <2>2 DEF Answer, ExecutorTypes
    <2>4. UNCHANGED attempts /\ (UNCHANGED awaited \/ awaited' = [awaited EXCEPT ![work[w].job] = 0])
      BY <1>6 DEF Answer
    <2>5. awaited' \in [Jobs -> Nat] /\ \A i \in Jobs : awaited'[i] \in {0, attempts'[i]}
      <3>1. CASE UNCHANGED awaited
        BY <1>0, <2>4, <3>1 DEF ExecutorTypes
      <3>2. CASE awaited' = [awaited EXCEPT ![work[w].job] = 0]
        <4>1. awaited' \in [Jobs -> Nat]
          BY <1>0, <3>2 DEF ExecutorTypes
        <4>2. \A i \in Jobs : awaited'[i] \in {0, awaited[i]}
          BY <1>0, <3>2 DEF ExecutorTypes
        <4> QED
          BY <1>0, <2>4, <4>1, <4>2 DEF ExecutorTypes
      <3> QED
        BY <2>4, <3>1, <3>2
    <2> QED
      BY <1>0, <1>6, <2>1, <2>3, <2>5 DEF Answer, ExecutorTypes
  <1> QED
    BY <1>2, <1>3, <1>4, <1>5, <1>6 DEF ExecutorNext, WorkerNext

LEMMA SentKept == ASSUME ExecutorInv, ExecutorNext PROVE UNCHANGED sent
  BY WorkerFrame DEF ExecutorNext, Attempt, TimeOut, ExecutorInv

LEMMA OutputSoundNext ==
    ASSUME ExecutorInv, ExecutorNext, NEW v \in Workers, NEW j \in Jobs
    PROVE  OutputSound(v, j)'
  <1>0. OutputSound(v, j) /\ ExecutorTypes /\ UNCHANGED sent /\ Dir(v, j) \in Dirs
    BY SentKept, HereTyped DEF ExecutorInv
  <1>1. CASE UNCHANGED output
    BY <1>0, <1>1 DEF OutputSound, RunAt
  <1>2. ASSUME NEW w \in Workers, Exec(w) \/ Run(w) PROVE OutputSound(v, j)'
    <2>1. PICK text \in Texts :
              /\ SetOutput(Here(w), work[w].k, text) /\ work[w].pc # "idle"
              /\ work[w].k \in 1..Len(Tests(w))
              /\ text = "right" => RunAt(work[w].job, work[w].k).right
      BY <1>2, Written
    <2>2. Here(w) \in Dirs /\ work[w].k \in Nat \ {0} /\ output \in [Dirs -> Seq(Texts)]
          /\ work[w].job \in Jobs
      BY <1>0, <2>1, Busy DEF ExecutorTypes
    <2> DEFINE d == Here(w)
               k == work[w].k
    <2>3. /\ \A e \in Dirs : e # d => output'[e] = output[e]
          /\ Len(output'[d]) = IF k > Len(output[d]) THEN k ELSE Len(output[d])
          /\ output'[d][k] = text
          /\ \A i \in 1..Len(output'[d]) :
                \/ i = k
                \/ output'[d][i] = "none"
                \/ i \in 1..Len(output[d]) /\ output'[d][i] = output[d][i]
      BY <2>1, <2>2, OutputEffect
    <2>4. CASE Dir(v, j) # d
      <3>1. output'[Dir(v, j)] = output[Dir(v, j)]
        BY <1>0, <2>3, <2>4
      <3> QED
        BY <1>0, <3>1 DEF OutputSound, RunAt, Dir
    <2>5. CASE Dir(v, j) = d
      <3>1. j = work[w].job
        BY <2>2, <2>5, HereTyped DEF Here
      <3>2. k <= Len(sent[j].tests) /\ k \in Nat
        BY <2>1, <2>2, <3>1 DEF Tests, Payload
      <3>3. Len(output'[d]) <= Len(sent[j].tests)
        BY <1>0, <2>3, <2>5, <3>2 DEF OutputSound
      <3>4. ASSUME NEW i \in 1..Len(output'[d]), output'[d][i] = "right"
            PROVE  RunAt(j, i).right
        <4>1. CASE i = k
          BY <2>1, <2>3, <3>1, <3>4, <4>1
        <4>2. CASE i # k
          <5>1. i \in 1..Len(output[d]) /\ output[d][i] = "right"
            BY <2>3, <3>4, <4>2
          <5> QED
            BY <1>0, <2>5, <5>1 DEF OutputSound
        <4> QED
          BY <4>1, <4>2
      <3> HIDE DEF d, k
      <3>5. /\ Len(output'[Dir(v, j)]) <= Len(sent'[j].tests)
            /\ \A i \in 1..Len(output'[Dir(v, j)]) :
                  output'[Dir(v, j)][i] = "right" => RunAt(j, i)'.right
        BY <1>0, <2>5, <3>3, <3>4, Restated
      <3>6. Dir(v, j)' = Dir(v, j)
        BY DEF Dir
      <3> QED
        BY <3>5, <3>6 DEF OutputSound
    <2> QED
      BY <2>4, <2>5
  <1> QED
    BY <1>1, <1>2
    DEF ExecutorNext, WorkerNext, Attempt, TimeOut, Take, CompileFails, Unlink, Link, Compare, Answer

\* The status of a test speaks for its run.
LEMMA TestStatusSound ==
    ASSUME ExecutorInv, NEW w \in Workers, work[w].pc = "compare"
    PROVE  /\ work[w].k \in 1..Len(Tests(w))
           /\ TestStatus(w) = "accepted" => Passes(RunAt(work[w].job, work[w].k))
  <1>1. WorkSound(w) /\ work[w].job \in Jobs /\ work[w].k \in Nat
    BY Busy DEF ExecutorInv
  <1>2. /\ work[w].k \in 1..Len(Tests(w)) /\ work[w].k <= Len(output[Here(w)])
        /\ work[w].rr = "accepted" => RunStatus(RunAt(work[w].job, work[w].k)) = "accepted"
    BY <1>1, Busy DEF WorkSound, Building, Tests, Payload
  <1>3. RunAt(work[w].job, work[w].k) \in Runs
    BY <1>2, Busy
  <1>4. ASSUME TestStatus(w) = "accepted" PROVE Passes(RunAt(work[w].job, work[w].k))
    <2>1. work[w].rr = "accepted" /\ output[Here(w)][work[w].k] = "right"
      BY <1>4 DEF TestStatus
    <2>2. OutputSound(w, work[w].job)
      BY <1>1 DEF ExecutorInv
    <2>3. work[w].k \in 1..Len(output[Here(w)])
      <3>1. Len(output[Here(w)]) \in Nat
        BY Busy, LenProperties DEF ExecutorTypes
      <3> QED
        BY <1>2, <3>1
    <2>4. RunAt(work[w].job, work[w].k).right
      BY <2>1, <2>2, <2>3 DEF OutputSound, Here
    <2> QED
      BY <1>2, <1>3, <2>1, <2>4, RunStatusTyped
  <1> QED
    BY <1>2, <1>4

LEMMA WorkSoundNext ==
    ASSUME ExecutorInv, ExecutorNext, NEW v \in Workers
    PROVE  WorkSound(v)'
  <1>0. /\ WorkSound(v) /\ ExecutorTypes /\ ExecutorTypes' /\ UNCHANGED sent
        /\ \A d \in Dirs : Len(output[d]) <= Len(output'[d])
        /\ \A d \in Dirs : Len(output[d]) \in Nat /\ Len(output'[d]) \in Nat
    BY SentKept, OutputGrows, ExecutorTypesNext, LenProperties DEF ExecutorInv, ExecutorTypes
  <1>1. ASSUME work'[v] = work[v] PROVE WorkSound(v)'
    <2>1. CASE work[v].pc = "idle"
      BY <1>0, <1>1, <2>1 DEF WorkSound, Building
    <2>2. CASE work[v].pc # "idle"
      <3>1. Here(v) \in Dirs /\ work[v].k \in Nat
        BY <2>2, Busy
      <3>2. work[v].k <= Len(output[Here(v)]) => work[v].k <= Len(output'[Here(v)])
        BY <1>0, <3>1
      <3> QED
        BY <1>0, <1>1, <3>2, Restated DEF WorkSound, Building, Here, Dir
    <2> QED
      BY <2>1, <2>2
  <1>2. ASSUME Take(v) PROVE WorkSound(v)'
    <2>1. work'[v].pc = "compile" /\ work'[v].job \in Jobs /\ sent[work'[v].job] # NoPayload
      BY <1>2, Taken
    <2>2. work'[v].job # 0
      BY <2>1, JobsAreRows
    <2> QED
      BY <1>0, <2>1, <2>2 DEF WorkSound, Building
  <1>3. ASSUME Answer(v) PROVE WorkSound(v)'
    BY <1>3, Answered DEF WorkSound, Building, AtRest
  <1>4. ASSUME WorkerNext(v), ~Take(v), ~Answer(v) PROVE WorkSound(v)'
    <2>1. /\ work[v].pc # "idle" /\ work'[v].job = work[v].job
      BY <1>4, BusyMoves
    <2>2. /\ work[v].job \in Jobs /\ sent[work[v].job] # NoPayload /\ Here(v) \in Dirs
          /\ work[v].k \in Nat /\ Len(sent[work[v].job].tests) \in Nat /\ work[v].job # 0
      BY <2>1, Busy, JobsAreRows DEF Tests, Payload
    <2>3. Here(v)' = Here(v)
      BY <2>1 DEF Here, Dir
    <2>4. CASE CompileFails(v)
      <3>1. work'[v].pc = "answer" /\ work'[v].status = "compile_error"
            /\ ~Compiles(sent[work[v].job].program)
        BY <1>4, <2>4, BusyMoves DEF CompileFails, Payload
      <3> QED
        BY <1>0, <2>1, <2>2, <3>1 DEF WorkSound, Building
    <2>5. CASE Unlink(v)
      <3>1. work'[v].pc = "link" /\ Compiles(sent[work[v].job].program)
        BY <1>4, <2>5, BusyMoves DEF Unlink, Payload
      <3> QED
        BY <1>0, <2>1, <2>2, <3>1 DEF WorkSound, Building
    <2>6. CASE Link(v)
      <3>1. /\ work'[v].pc = "exec" /\ work'[v].k = 1 /\ work'[v].status = "accepted"
            /\ Compiles(sent[work[v].job].program)
        BY <1>0, <1>4, <2>6, BusyMoves DEF Link, At, WorkSound
      <3>2. PassedTo(work[v].job, 0)
        BY DEF PassedTo
      <3> QED
        BY <1>0, <2>1, <2>2, <3>1, <3>2, Restated DEF WorkSound, Building
    <2>7. ASSUME Exec(v) \/ Run(v) PROVE WorkSound(v)'
      <3>1. PICK text \in Texts :
                SetOutput(Here(v), work[v].k, text) /\ work[v].k \in 1..Len(Tests(v))
        BY <2>7, Written
      <3>2. Len(output'[Here(v)]) = IF work[v].k > Len(output[Here(v)]) THEN work[v].k
                                    ELSE Len(output[Here(v)])
        BY <1>0, <2>2, <3>1, OutputEffect DEF ExecutorTypes
      <3>3. work[v].k <= Len(output'[Here(v)]) /\ work[v].k <= Len(sent[work[v].job].tests)
        BY <1>0, <2>2, <3>1, <3>2 DEF Tests, Payload
      <3>4. /\ Compiles(sent[work[v].job].program) /\ work[v].k \in 1..(Len(sent[work[v].job].tests) + 1)
            /\ work[v].status = "accepted" => PassedTo(work[v].job, work[v].k - 1)
        BY <1>0, <2>7 DEF WorkSound, Building, Exec, Run, At
      <3>5. /\ work'[v].k = work[v].k /\ work'[v].status = work[v].status
            /\ work'[v].pc \in {"run", "compare"}
            /\ work'[v].pc = "compare" /\ work'[v].rr = "accepted" =>
                  RunStatus(RunAt(work[v].job, work[v].k)) = "accepted"
        <4>1. CASE Exec(v)
          BY <1>4, <4>1, BusyMoves
        <4>2. CASE Run(v)
          BY <1>4, <4>2, BusyMoves
        <4> QED
          BY <2>7, <4>1, <4>2
      <3> QED
        BY <1>0, <2>1, <2>2, <2>3, <3>3, <3>4, <3>5, Restated DEF WorkSound, Building
    <2>8. CASE Compare(v)
      <3>1. /\ work'[v].pc = "exec" /\ work'[v].k = work[v].k + 1
            /\ work'[v].status = IF TestStatus(v) = "accepted" THEN work[v].status ELSE TestStatus(v)
            /\ work[v].pc = "compare"
        BY <1>4, <2>8, BusyMoves DEF Compare, At
      <3>2. /\ work[v].k \in 1..Len(sent[work[v].job].tests)
            /\ TestStatus(v) = "accepted" => Passes(RunAt(work[v].job, work[v].k))
        BY <3>1, TestStatusSound DEF Tests, Payload
      <3>3. /\ Compiles(sent[work[v].job].program)
            /\ work[v].status = "accepted" => PassedTo(work[v].job, work[v].k - 1)
        BY <1>0, <3>1 DEF WorkSound, Building
      <3>4. work'[v].status = "accepted" => PassedTo(work[v].job, work'[v].k - 1)
        <4> SUFFICES ASSUME work'[v].status = "accepted", NEW i \in 1..(work'[v].k - 1)
                     PROVE  Passes(RunAt(work[v].job, i))
          BY DEF PassedTo
        <4>1. TestStatus(v) = "accepted" /\ work[v].status = "accepted"
          BY <3>1
        <4>2. i = work[v].k \/ i \in 1..(work[v].k - 1)
          BY <2>2, <3>1
        <4> QED
          BY <3>2, <3>3, <4>1, <4>2 DEF PassedTo
      <3>5. work'[v].k \in 1..(Len(sent[work[v].job].tests) + 1)
        BY <2>2, <3>1, <3>2
      <3> QED
        BY <1>0, <2>1, <2>2, <3>1, <3>3, <3>4, <3>5, Restated DEF WorkSound, Building
    <2> QED
      BY <1>4, <2>4, <2>5, <2>6, <2>7, <2>8 DEF WorkerNext
  <1>5. ASSUME NEW w \in Workers, WorkerNext(w) PROVE WorkSound(v)'
    <2>1. CASE v = w
      BY <1>2, <1>3, <1>4, <1>5, <2>1
    <2>2. CASE v # w
      BY <1>0, <1>1, <1>5, <2>2, WorkerFrame
    <2> QED
      BY <2>1, <2>2
  <1>6. CASE UNCHANGED work
    BY <1>1, <1>6
  <1> QED
    BY <1>5, <1>6 DEF ExecutorNext, Attempt, TimeOut

LEMMA RequestsSentNext ==
    ASSUME ExecutorInv, ExecutorNext
    PROVE  RequestsSent'
  <1>0. RequestsSent /\ ExecutorTypes /\ UNCHANGED sent
    BY SentKept DEF ExecutorInv
  <1>1. ASSUME NEW j \in Jobs, NEW w \in Workers, Attempt(j, w) PROVE RequestsSent'
    <2> DEFINE new == [job |-> j, attempt |-> attempts[j] + 1]
    <2>1. /\ sent[j] # NoPayload /\ inbox' = [inbox EXCEPT ![w] = Append(inbox[w], new)]
          /\ new.job = j /\ new \in [job : Jobs, attempt : Nat]
          /\ inbox[w] \in Seq([job : Jobs, attempt : Nat])
      BY <1>0, <1>1, ExecutorAssumption DEF Attempt, ExecutorTypes
    <2> HIDE DEF new
    <2>2. /\ Len(Append(inbox[w], new)) = Len(inbox[w]) + 1 /\ Len(inbox[w]) \in Nat
          /\ \A i \in 1..Len(inbox[w]) : Append(inbox[w], new)[i] = inbox[w][i]
          /\ Append(inbox[w], new)[Len(inbox[w]) + 1] = new
      BY <2>1, AppendProperties, LenProperties
    <2> SUFFICES ASSUME NEW v \in Workers, NEW i \in 1..Len(inbox'[v])
                 PROVE  sent[inbox'[v][i].job] # NoPayload
      BY <1>0 DEF RequestsSent
    <2>3. CASE v = w
      <3>1. inbox'[v] = Append(inbox[w], new)
        BY <1>0, <2>1, <2>3 DEF ExecutorTypes
      <3>2. i \in 1..Len(inbox[w]) \/ i = Len(inbox[w]) + 1
        BY <2>2, <3>1
      <3>3. CASE i \in 1..Len(inbox[w])
        BY <1>0, <2>2, <3>1, <3>3 DEF RequestsSent
      <3>4. CASE i = Len(inbox[w]) + 1
        BY <2>1, <2>2, <3>1, <3>4
      <3> QED
        BY <3>2, <3>3, <3>4
    <2>4. CASE v # w
      BY <1>0, <2>1, <2>4 DEF RequestsSent, ExecutorTypes
    <2> QED
      BY <2>3, <2>4
  <1>2. ASSUME NEW w \in Workers, Take(w) PROVE RequestsSent'
    BY <1>2, Taken
  <1>3. CASE UNCHANGED inbox
    BY <1>0, <1>3 DEF RequestsSent
  <1> QED
    BY <1>1, <1>2, <1>3
    DEF ExecutorNext, WorkerNext, TimeOut, CompileFails, Unlink, Link, Exec, Run, Compare, Answer

\* The end of a request: the compiler has failed, or all tests are behind.
LEMMA AtTheEnd ==
    ASSUME ExecutorInv, NEW w \in Workers, Answer(w)
    PROVE  /\ work[w].pc # "idle" /\ work[w].job \in Jobs /\ sent[work[w].job] # NoPayload
           /\ \/ work[w].pc = "answer" /\ work[w].status = "compile_error"
                 /\ ~Compiles(sent[work[w].job].program)
              \/ work[w].pc = "exec" /\ work[w].k - 1 = Len(sent[work[w].job].tests)
                 /\ Compiles(sent[work[w].job].program)
                 /\ (work[w].status = "accepted"
                        => PassedTo(work[w].job, Len(sent[work[w].job].tests)))
  <1>1. WorkSound(w) /\ work[w].pc \in {"answer", "exec"}
        /\ (work[w].pc = "exec" => work[w].k > Len(Tests(w)))
    BY DEF ExecutorInv, Answer, At
  <1>2. work[w].job \in Jobs /\ sent[work[w].job] # NoPayload
        /\ work[w].k \in Nat /\ Len(sent[work[w].job].tests) \in Nat
    BY <1>1, Busy DEF Tests, Payload
  <1>3. CASE work[w].pc = "answer"
    BY <1>1, <1>2, <1>3 DEF WorkSound
  <1>4. CASE work[w].pc = "exec"
    <2>1. work[w].k \in 1..(Len(sent[work[w].job].tests) + 1)
          /\ work[w].k > Len(sent[work[w].job].tests)
          /\ Compiles(sent[work[w].job].program)
          /\ (work[w].status = "accepted" => PassedTo(work[w].job, work[w].k - 1))
      BY <1>1, <1>4 DEF WorkSound, Building, Tests, Payload
    <2>2. work[w].k - 1 = Len(sent[work[w].job].tests)
      BY <1>2, <2>1
    <2> QED
      BY <1>2, <1>4, <2>1, <2>2
  <1> QED
    BY <1>1, <1>3, <1>4

LEMMA VerdictSoundNext ==
    ASSUME ExecutorInv, ExecutorNext, NEW j \in Jobs
    PROVE  VerdictSound(j)'
  <1>0. VerdictSound(j) /\ ExecutorTypes /\ UNCHANGED sent
    BY SentKept DEF ExecutorInv
  <1>1. ASSUME NEW i \in Jobs, NEW w \in Workers, Attempt(i, w) PROVE VerdictSound(j)'
    <2>1. /\ UNCHANGED verdict /\ sent[i] # NoPayload
          /\ \A x \in Jobs : x # i => awaited'[x] = awaited[x]
      BY <1>0, <1>1 DEF Attempt, ExecutorTypes
    <2> QED
      BY <1>0, <2>1, Restated DEF VerdictSound
  <1>2. ASSUME NEW i \in Jobs, TimeOut(i) PROVE VerdictSound(j)'
    <2>1. /\ awaited[i] # 0 /\ awaited' = [awaited EXCEPT ![i] = 0]
          /\ UNCHANGED verdict \/ verdict' = [verdict EXCEPT ![i] = "system_error"]
      BY <1>0, <1>2 DEF TimeOut, ExecutorTypes
    <2>2. \/ verdict'[j] = verdict[j]
          \/ verdict'[j] = "system_error" /\ j = i
      BY <1>0, <2>1 DEF ExecutorTypes
    <2>3. awaited'[j] # 0 => awaited[j] # 0
      BY <1>0, <2>1 DEF ExecutorTypes
    <2> QED
      BY <1>0, <2>1, <2>2, <2>3, Restated DEF VerdictSound
  <1>3. ASSUME NEW w \in Workers, Answer(w) PROVE VerdictSound(j)'
    <2> DEFINE i == work[w].job
    <2>1. /\ i \in Jobs /\ sent[i] # NoPayload
          /\ work[w].status = "accepted" => PassedTo(i, Len(sent[i].tests))
      BY <1>3, AtTheEnd
    <2>2. \/ UNCHANGED <<verdict, awaited>>
          \/ verdict' = [verdict EXCEPT ![i] = work[w].status] /\ awaited' = [awaited EXCEPT ![i] = 0]
      BY <1>3 DEF Answer
    <2> HIDE DEF i
    <2>3. verdict'[j] = verdict[j] \/ (j = i /\ verdict'[j] = work[w].status)
      BY <1>0, <2>1, <2>2 DEF ExecutorTypes
    <2>4. awaited'[j] # 0 => awaited[j] # 0
      BY <1>0, <2>1, <2>2 DEF ExecutorTypes
    <2> QED
      BY <1>0, <2>1, <2>3, <2>4, Restated DEF VerdictSound
  <1>4. CASE UNCHANGED <<verdict, awaited>>
    BY <1>0, <1>4, Restated DEF VerdictSound
  <1> QED
    BY <1>1, <1>2, <1>3, <1>4
    DEF ExecutorNext, WorkerNext, Take, CompileFails, Unlink, Link, Exec, Run, Compare

LEMMA ExecutorInvNext ==
    ASSUME ExecutorInv, ExecutorNext
    PROVE  ExecutorInv'
  <1>1. \A w \in Workers, j \in Jobs : OutputSound(w, j)'
    BY OutputSoundNext
  <1>2. \A w \in Workers : WorkSound(w)'
    BY WorkSoundNext
  <1>3. \A j \in Jobs : VerdictSound(j)'
    BY VerdictSoundNext
  <1> QED
    BY <1>1, <1>2, <1>3, ExecutorTypesNext, RequestsSentNext DEF ExecutorInv

LEMMA ExecutorInvInit == ExecutorInit => ExecutorInv
  <1> SUFFICES ASSUME ExecutorInit PROVE ExecutorInv
    OBVIOUS
  <1>1. /\ \A j \in Jobs : sent[j] = NoPayload /\ verdict[j] = "none" /\ awaited[j] = 0
        /\ \A w \in Workers : work[w] = AtRest /\ inbox[w] = <<>> /\ Len(inbox[w]) = 0
        /\ \A d \in Dirs : output[d] = <<>> /\ Len(output[d]) = 0
    BY EmptySeq DEF ExecutorInit
  <1>2. AtRest \in WorkStates
    BY DEF AtRest, WorkStates, Statuses
  <1>3. ExecutorTypes
    <2>1. /\ sent \in [Jobs -> Payloads \cup {NoPayload}] /\ verdict \in [Jobs -> Statuses]
          /\ attempts \in [Jobs -> 0..MaxAttempts] /\ awaited \in [Jobs -> Nat]
          /\ \A j \in Jobs : awaited[j] \in {0, attempts[j]}
      BY ExecutorAssumption DEF ExecutorInit, Statuses
    <2>2. inbox \in [Workers -> Seq([job : Jobs, attempt : Nat])] /\ output \in [Dirs -> Seq(Texts)]
      BY EmptySeq DEF ExecutorInit
    <2> QED
      BY <1>2, <2>1, <2>2 DEF ExecutorInit, ExecutorTypes
  <1>4. \A w \in Workers : WorkSound(w)
    BY <1>1 DEF WorkSound, AtRest, Building
  <1>5. RequestsSent
    BY <1>1 DEF RequestsSent
  <1>6. \A w \in Workers, j \in Jobs : OutputSound(w, j)
    <2> SUFFICES ASSUME NEW w \in Workers, NEW j \in Jobs PROVE OutputSound(w, j)
      OBVIOUS
    <2>1. Len(output[Dir(w, j)]) = 0 /\ Len(sent[j].tests) \in Nat
      BY <1>1, <1>3, HereTyped, SentTyped
    <2> QED
      BY <2>1 DEF OutputSound
  <1>7. \A j \in Jobs : VerdictSound(j)
    BY <1>1 DEF VerdictSound
  <1> QED
    BY <1>3, <1>4, <1>5, <1>6, <1>7 DEF ExecutorInv
-----------------------------------------------------------------------------
(***************************************************************************)
(* Both together.  A row and its payload agree.                            *)
(***************************************************************************)
Handed ==
    \A j \in Jobs :
        sent[j] = IF j \in DOMAIN rows /\ rows[j].queued THEN PayloadOf(rows[j]) ELSE NoPayload

IInv == CatalogInv /\ ExecutorInv /\ Handed

\* Steps outside the executors: payloads are only added.
LEMMA ExecutorInvStays ==
    ASSUME ExecutorInv, UNCHANGED <<verdict, inbox, work, built, output>>,
           sent' \in [Jobs -> Payloads \cup {NoPayload}],
           \A j \in Jobs : sent[j] # NoPayload => sent'[j] = sent[j],
           attempts' \in [Jobs -> 0..MaxAttempts], awaited' \in [Jobs -> Nat],
           \A j \in Jobs : awaited'[j] \in {0, attempts'[j]} /\ (awaited'[j] # 0 => awaited[j] # 0)
    PROVE  ExecutorInv'
  <1>0. ExecutorTypes /\ ExecutorTypes'
    BY DEF ExecutorInv, ExecutorTypes
  <1>1. \A j \in Jobs : sent[j] # NoPayload =>
            /\ sent'[j] = sent[j] /\ sent'[j] # NoPayload
            /\ \A k : RunAt(j, k)' = RunAt(j, k)
            /\ \A n : PassedTo(j, n)' = PassedTo(j, n)
    BY DEF RunAt, PassedTo
  <1>2. RequestsSent'
    <2> SUFFICES ASSUME NEW w \in Workers, NEW i \in 1..Len(inbox[w])
                 PROVE  sent'[inbox[w][i].job] # NoPayload
      BY DEF RequestsSent
    <2>1. inbox[w] \in Seq([job : Jobs, attempt : Nat])
      BY <1>0 DEF ExecutorTypes
    <2>2. inbox[w][i] \in [job : Jobs, attempt : Nat]
      BY <2>1, ElementOfSeq
    <2>3. inbox[w][i].job \in Jobs
      BY <2>2
    <2> QED
      BY <1>1, <2>3 DEF ExecutorInv, RequestsSent
  <1>3. ASSUME NEW w \in Workers PROVE WorkSound(w)'
    <2>1. WorkSound(w) /\ work'[w] = work[w]
      BY DEF ExecutorInv
    <2>2. CASE work[w].pc = "idle"
      BY <2>1, <2>2 DEF WorkSound, Building
    <2>3. CASE work[w].pc # "idle"
      <3>1. work[w].job \in Jobs /\ sent[work[w].job] # NoPayload
        BY <2>3, Busy
      <3>2. Here(w)' = Here(w)
        BY <2>1 DEF Here, Dir
      <3> QED
        BY <1>1, <2>1, <3>1, <3>2 DEF WorkSound, Building
    <2> QED
      BY <2>2, <2>3
  <1>4. ASSUME NEW w \in Workers, NEW j \in Jobs PROVE OutputSound(w, j)'
    <2>1. OutputSound(w, j) /\ Dir(w, j)' = Dir(w, j) /\ Dir(w, j) \in Dirs
      BY HereTyped DEF ExecutorInv, Dir
    <2>2. CASE sent[j] # NoPayload
      BY <1>1, <2>1, <2>2 DEF OutputSound
    <2>3. CASE sent[j] = NoPayload
      <3>1. Len(sent[j].tests) = 0 /\ Len(sent[j].tests)' \in Nat
        <4>1. \A s \in Payloads \cup {NoPayload} : Len(s.tests) \in Nat
          <5>1. \A s \in Payloads : Len(s.tests) \in Nat
            BY LenProperties DEF Payloads
          <5>2. NoPayload.tests = <<>>
            BY DEF NoPayload
          <5> QED
            BY <5>1, <5>2, EmptySeq
        <4> QED
          BY <1>0, <2>3, <4>1, SentTyped
      <3>2. Len(output[Dir(w, j)]) \in Nat
        BY <1>0, <2>1, LenProperties DEF ExecutorTypes
      <3>3. Len(output[Dir(w, j)]) = 0
        BY <2>1, <3>1, <3>2 DEF OutputSound
      <3> QED
        BY <2>1, <3>1, <3>3 DEF OutputSound
    <2> QED
      BY <2>2, <2>3
  <1>5. ASSUME NEW j \in Jobs PROVE VerdictSound(j)'
    <2>1. VerdictSound(j)
      BY DEF ExecutorInv
    <2>2. CASE verdict[j] = "none" /\ awaited[j] = 0
      BY <2>2 DEF VerdictSound
    <2>3. CASE ~(verdict[j] = "none" /\ awaited[j] = 0)
      BY <1>1, <2>1, <2>3 DEF VerdictSound
    <2> QED
      BY <2>2, <2>3
  <1> QED
    BY <1>0, <1>2, <1>3, <1>4, <1>5 DEF ExecutorInv

\* What PostSubmission hands over.
LEMMA HandOver ==
    ASSUME IInv, NEW p \in ProblemIds, NEW program \in Programs, NEW mode \in {"run", "submit"},
           NEW e \in Endings, PostSubmission(p, program, mode, e)
    PROVE  /\ sent' \in [Jobs -> Payloads \cup {NoPayload}]
           /\ \A j \in Jobs : sent[j] # NoPayload => sent'[j] = sent[j]
           /\ Handed'
           /\ \A j \in Jobs : sent'[j] # sent[j] => j = Len(rows) + 1
  <1>0. CatalogInv /\ ExecutorTypes /\ Handed /\ Submit(p, program, mode, e)
    BY DEF IInv, ExecutorInv, PostSubmission
  <1>1. PICK row \in SubmittedRows :
            rows' = Append(rows, row) /\ Len(rows) < MaxRows /\ (row.queued <=> e = "ok")
    BY <1>0, SubmittedRow
  <1>2. /\ rows \in Seq(SubmittedRows) /\ Len(rows) \in Nat /\ DOMAIN rows = 1..Len(rows)
    BY <1>0, LenProperties DEF CatalogInv, RowTable
  <1>3. /\ rows' \in Seq(SubmittedRows) /\ Len(rows') = Len(rows) + 1
        /\ \A r \in 1..Len(rows) : rows'[r] = rows[r]
        /\ rows'[Len(rows) + 1] = row
    BY <1>1, <1>2, AppendProperties
  <1>4. DOMAIN rows' = 1..(Len(rows) + 1)
    BY <1>3, LenProperties
  <1> DEFINE new == Len(rows) + 1
  <1>5. new \in Jobs /\ new \notin DOMAIN rows /\ sent[new] = NoPayload
    BY <1>0, <1>1, <1>2, JobsAreRows, CatalogAssumption DEF Handed
  <1>6. PayloadOf(row) \in Payloads
    BY DEF SubmittedRows, PayloadOf, Payloads
  <1>7. Last(rows') = row
    BY <1>3 DEF Last
  <1>8. sent' = IF e = "ok" THEN [sent EXCEPT ![new] = PayloadOf(row)] ELSE sent
    BY <1>3, <1>7 DEF PostSubmission
  <1> HIDE DEF new
  <1>9. sent' \in [Jobs -> Payloads \cup {NoPayload}]
    BY <1>0, <1>6, <1>8 DEF ExecutorTypes
  <1>10. \A j \in Jobs : sent'[j] = IF j = new /\ e = "ok" THEN PayloadOf(row) ELSE sent[j]
    BY <1>0, <1>8 DEF ExecutorTypes
  <1>11. ASSUME NEW j \in Jobs
         PROVE  sent'[j] = IF j \in DOMAIN rows' /\ rows'[j].queued THEN PayloadOf(rows'[j])
                           ELSE NoPayload
    <2>1. CASE j = new
      BY <1>1, <1>2, <1>3, <1>4, <1>5, <1>10, <2>1 DEF new
    <2>2. CASE j # new
      <3>1. j \in DOMAIN rows' <=> j \in DOMAIN rows
        BY <1>2, <1>4, <2>2, JobsAreRows DEF new
      <3>2. j \in DOMAIN rows => rows'[j] = rows[j]
        BY <1>2, <1>3
      <3> QED
        BY <1>0, <1>10, <2>2, <3>1, <3>2 DEF Handed
    <2> QED
      BY <2>1, <2>2
  <1>12. Handed'
    BY <1>11 DEF Handed, PayloadOf
  <1> QED
    BY <1>5, <1>9, <1>10, <1>12 DEF new

\* Among the steps of the system, those of the catalogue.
LEMMA CatalogSteps == ASSUME [Next]_vars PROVE CatalogStep
  BY DEF Next, vars, KillServer, PostSubmission, CatalogStep

LEMMA RowsOnlyPosted ==
    ASSUME CatalogNext \/ Kill \/ UNCHANGED catalogVars
    PROVE  UNCHANGED rows
  BY DEF CatalogNext, Kill, catalogVars, tables, CreateProblem, UpdateProblem, DeleteProblem, AddCase,
         UpdateLanguage, UploadBegin, UploadDelete, UploadAdd, UploadFails, UploadEnd

LEMMA IInvNext ==
    ASSUME IInv, [Next]_vars
    PROVE  IInv'
  <1>0. CatalogInv /\ ExecutorInv /\ Handed /\ ExecutorTypes
    BY DEF IInv, ExecutorInv
  <1>1. CatalogInv'
    BY <1>0, CatalogSteps, CatalogInvNext
  <1>2. ASSUME UNCHANGED <<sent, rows>> PROVE Handed'
    BY <1>0, <1>2 DEF Handed, PayloadOf
  <1>3. CASE KillServer
    <2>1. /\ Kill /\ UNCHANGED <<sent, verdict, inbox, work, built, output>>
          /\ attempts' = [j \in Jobs |-> IF sent[j] = NoPayload THEN 0 ELSE MaxAttempts]
          /\ awaited' = [j \in Jobs |-> 0]
      BY <1>3 DEF KillServer
    <2>2. attempts' \in [Jobs -> 0..MaxAttempts] /\ awaited' \in [Jobs -> Nat]
      BY <2>1, ExecutorAssumption
    <2>3. sent' \in [Jobs -> Payloads \cup {NoPayload}]
      BY <1>0, <2>1 DEF ExecutorTypes
    <2>4. ExecutorInv'
      BY <1>0, <2>1, <2>2, <2>3, ExecutorInvStays
    <2> QED
      BY <1>1, <1>2, <2>1, <2>4, RowsOnlyPosted DEF IInv
  <1>4. CASE (CatalogNext \/ UNCHANGED catalogVars) /\ UNCHANGED executorVars
    <2>1. UNCHANGED <<sent, attempts, awaited, verdict, inbox, work, built, output>>
      BY <1>4 DEF executorVars
    <2>2. ExecutorInv'
      BY <1>0, <2>1, ExecutorInvStays DEF ExecutorTypes
    <2> QED
      BY <1>1, <1>2, <1>4, <2>1, <2>2, RowsOnlyPosted DEF IInv
  <1>5. ASSUME NEW p \in ProblemIds, NEW program \in Programs, NEW mode \in {"run", "submit"},
               NEW e \in Endings, PostSubmission(p, program, mode, e)
        PROVE  IInv'
    <2>1. UNCHANGED <<attempts, awaited, verdict, inbox, work, built, output>>
      BY <1>5 DEF PostSubmission
    <2>2. /\ sent' \in [Jobs -> Payloads \cup {NoPayload}] /\ Handed'
          /\ \A j \in Jobs : sent[j] # NoPayload => sent'[j] = sent[j]
      BY <1>5, HandOver
    <2>3. ExecutorInv'
      BY <1>0, <2>1, <2>2, ExecutorInvStays DEF ExecutorTypes
    <2> QED
      BY <1>1, <2>2, <2>3 DEF IInv
  <1>6. CASE ExecutorNext /\ UNCHANGED catalogVars
    BY <1>0, <1>1, <1>2, <1>6, ExecutorInvNext, SentKept, RowsOnlyPosted DEF IInv
  <1> QED
    BY <1>3, <1>4, <1>5, <1>6 DEF Next, vars

LEMMA IInvInit == Init => IInv
  <1> SUFFICES ASSUME Init PROVE IInv
    OBVIOUS
  <1>1. CatalogInv /\ ExecutorInv
    BY CatalogInvInit, ExecutorInvInit DEF Init
  <1>2. rows = <<>> /\ DOMAIN rows = {} /\ \A j \in Jobs : sent[j] = NoPayload
    BY DEF Init, CatalogInit, ExecutorInit
  <1> QED
    BY <1>1, <1>2 DEF IInv, Handed

\* The inductive invariant.
THEOREM IInvHolds == Spec => []IInv
  <1>1. Init => IInv
    BY IInvInit
  <1>2. IInv /\ [Next]_vars => IInv'
    BY IInvNext
  <1> QED
    BY <1>1, <1>2, PTL DEF Spec

\* The tables, the payloads, the workers and the files have their types; a row
\* and the payload handed to the judge manager agree.
THEOREM TypeCorrect == Spec => []TypeOK
  <1>1. IInv => TypeOK
    <2> SUFFICES ASSUME IInv PROVE TypeOK
      OBVIOUS
    <2>1. CatalogTypeOK /\ ExecutorInv /\ ExecutorTypes
      BY CatalogInvGives DEF IInv, ExecutorInv
    <2>2. ASSUME NEW w \in Workers
          PROVE  /\ work[w].pc \in {"idle", "compile", "link", "exec", "run", "compare", "answer"}
                 /\ At(w, "idle") <=> work[w].job = 0
                 /\ work[w].pc \in {"run", "compare"} => work[w].k \in DOMAIN output[Here(w)]
      <3>1. work[w] \in WorkStates /\ WorkSound(w)
        BY <2>1 DEF ExecutorTypes, ExecutorInv
      <3>2. ASSUME work[w].pc \in {"run", "compare"} PROVE work[w].k \in DOMAIN output[Here(w)]
        <4>1. Here(w) \in Dirs /\ work[w].k \in Nat
          BY <2>1, <3>2, Busy
        <4>2. DOMAIN output[Here(w)] = 1..Len(output[Here(w)]) /\ Len(output[Here(w)]) \in Nat
          BY <2>1, <4>1, LenProperties DEF ExecutorTypes
        <4>3. work[w].k <= Len(output[Here(w)]) /\ work[w].k >= 1
          <5>1. Len(sent[work[w].job].tests) \in Nat
            BY <2>1, <3>2, Busy DEF Tests, Payload
          <5> QED
            BY <3>1, <3>2, <5>1 DEF WorkSound, Building
        <4> QED
          BY <4>1, <4>2, <4>3
      <3> QED
        BY <3>1, <3>2 DEF WorkSound, WorkStates, At
    <2>3. ExecutorTypeOK
      BY <2>1, <2>2 DEF ExecutorTypeOK, ExecutorTypes
    <2> QED
      BY <2>1, <2>3 DEF TypeOK, IInv, Handed
  <1> QED
    BY <1>1, IInvHolds, PTL

\* Admins know what cases the problems have: what they were told with success
\* is what the tables hold, however uploads and other changes alternate, fail
\* or are cut off.
THEOREM CasesAreAsTold == Spec => []AsTold
  <1>1. IInv => AsTold
    BY CatalogInvGives DEF IInv
  <1> QED
    BY <1>1, IInvHolds, PTL

\* A submission accepted in mode `submit' passes every test case its problem
\* was told to have, whether or not the workers share a directory.
THEOREM AcceptedMeansPassed == Spec => []AcceptedPassesAll
  <1>1. IInv => AcceptedPassesAll
    <2> SUFFICES ASSUME IInv, NEW j \in Jobs, AcceptedInFull(j), rows[j].settled,
                        NEW d \in rows[j].wanted
                 PROVE  Passes(RunOf(rows[j].program, d, rows[j].limits))
      BY DEF AcceptedPassesAll, PassesAll
    <2>1. /\ verdict[j] = "accepted" /\ rows[j].mode = "submit"
          /\ VerdictSound(j) /\ ExecutorTypes /\ RowsTold /\ rows \in Seq(SubmittedRows)
          /\ sent[j] = IF j \in DOMAIN rows /\ rows[j].queued THEN PayloadOf(rows[j]) ELSE NoPayload
      BY DEF IInv, AcceptedInFull, ExecutorInv, Handed, CatalogInv, RowTable
    <2>2. sent[j] # NoPayload /\ PassedTo(j, Len(sent[j].tests))
      BY <2>1 DEF VerdictSound
    <2>3. j \in DOMAIN rows /\ sent[j] = PayloadOf(rows[j])
      BY <2>1, <2>2
    <2>4. PICK k \in DOMAIN rows[j].tests : rows[j].tests[k] = d
      BY <2>1, <2>3 DEF RowsTold
    <2>5. sent[j].tests = rows[j].tests /\ sent[j].program = rows[j].program
          /\ sent[j].limits = rows[j].limits
      BY <2>3 DEF PayloadOf
    <2>6. k \in 1..Len(sent[j].tests)
      BY <2>1, <2>4, <2>5, SentTyped
    <2> QED
      BY <2>2, <2>4, <2>5, <2>6 DEF PassedTo, RunAt
  <1> QED
    BY <1>1, IInvHolds, PTL
-----------------------------------------------------------------------------
(***************************************************************************)
(* Workers that do not share a directory: each one finds its own files.    *)
(***************************************************************************)
FailedWith(j, i, status) ==
    /\ ~Passes(RunAt(j, i))
    /\ status = IF RunStatus(RunAt(j, i)) = "accepted" THEN "wrong_answer"
                ELSE RunStatus(RunAt(j, i))

\* The program a worker built is there until its last run, the output it
\* compares is that of the run before, and a status that is not `accepted' is
\* that of a test that failed.
OwnFiles(w) ==
    LET s == work[w]
    IN  /\ Building(w) => Here(w) \in built
        /\ s.pc = "compare" =>
              /\ s.rr = RunStatus(RunAt(s.job, s.k))
              /\ output[Here(w)][s.k] = IF RunAt(s.job, s.k).right THEN "right" ELSE "wrong"
        /\ Building(w) /\ s.status # "accepted" =>
              \E i \in 1..(s.k - 1) : FailedWith(s.job, i, s.status)

AloneInv == (\A w \in Workers : OwnFiles(w)) /\ VerdictDeserved

LEMMA DeservedWhen ==
    ASSUME ExecutorTypes, NEW j \in Jobs, sent[j] # NoPayload
    PROVE  /\ ~Compiles(sent[j].program) => "compile_error" \in Deserved(j)
           /\ Compiles(sent[j].program) /\ PassedTo(j, Len(sent[j].tests)) => "accepted" \in Deserved(j)
           /\ \A i \in 1..Len(sent[j].tests) : \A s :
                 Compiles(sent[j].program) /\ FailedWith(j, i, s) => s \in Deserved(j)
  <1>1. /\ DOMAIN sent[j].tests = 1..Len(sent[j].tests) /\ DOMAIN RunsOf(j) = 1..Len(sent[j].tests)
        /\ \A k \in 1..Len(sent[j].tests) : RunsOf(j)[k] = RunAt(j, k)
    BY SentTyped DEF RunsOf, RunAt
  <1>2. Compiles(sent[j].program) /\ PassedTo(j, Len(sent[j].tests)) => "accepted" \in Deserved(j)
    BY <1>1 DEF Deserved, PassedTo
  <1>3. ASSUME NEW i \in 1..Len(sent[j].tests), NEW s, Compiles(sent[j].program), FailedWith(j, i, s)
        PROVE  s \in Deserved(j)
    <2>1. ~Passes(RunsOf(j)[i])
          /\ s = IF RunStatus(RunsOf(j)[i]) = "accepted" THEN "wrong_answer"
                 ELSE RunStatus(RunsOf(j)[i])
      BY <1>1, <1>3 DEF FailedWith
    <2> QED
      BY <1>1, <1>3, <2>1 DEF Deserved
  <1> QED
    BY <1>2, <1>3 DEF Deserved

\* What a worker does in its directory does not reach those of the others.
LEMMA OthersKeepFiles ==
    ASSUME ~Shared, ExecutorInv, NEW w \in Workers, WorkerNext(w), NEW v \in Workers, v # w,
           OwnFiles(v)
    PROVE  OwnFiles(v)'
  <1>0. UNCHANGED sent /\ work'[v] = work[v] /\ Here(v)' = Here(v) /\ Building(v)' = Building(v)
    BY WorkerFrame DEF ExecutorInv, Here, Dir, Building
  <1>1. ASSUME Building(v) PROVE (Here(v) \in built => Here(v) \in built') /\ output'[Here(v)] = output[Here(v)]
    <2>1. Here(v) \in Dirs /\ work[v].job \in Jobs /\ ExecutorTypes
      BY <1>1, Busy DEF Building
    <2>2. work[w].pc # "idle" => Here(w) # Here(v) /\ Here(w) \in Dirs
      BY <2>1, Busy, HereTyped DEF Here
    <2>3. Here(v) \in built => Here(v) \in built'
      BY <2>2
      DEF WorkerNext, Take, CompileFails, Unlink, Link, Exec, Run, Compare, Answer, At
    <2>4. CASE Exec(w) \/ Run(w)
      <3>1. PICK text \in Texts : SetOutput(Here(w), work[w].k, text) /\ work[w].pc # "idle"
                                  /\ work[w].k \in 1..Len(Tests(w))
        BY <2>4, Written
      <3>2. work[w].k \in Nat \ {0} /\ output \in [Dirs -> Seq(Texts)]
        BY <2>1, <3>1, Busy DEF ExecutorTypes
      <3> QED
        BY <2>1, <2>2, <2>3, <3>1, <3>2, OutputEffect
    <2>5. CASE UNCHANGED output
      BY <2>3, <2>5
    <2> QED
      BY <2>4, <2>5 DEF WorkerNext, Take, CompileFails, Unlink, Link, Compare, Answer
  <1>2. CASE Building(v)
    <2>1. /\ \A i : RunAt(work[v].job, i)' = RunAt(work[v].job, i)
          /\ \A i, s : FailedWith(work[v].job, i, s)' = FailedWith(work[v].job, i, s)
      BY <1>0 DEF RunAt, FailedWith
    <2> QED
      BY <1>0, <1>1, <1>2, <2>1 DEF OwnFiles
  <1>3. CASE ~Building(v)
    BY <1>0, <1>3 DEF OwnFiles, Building
  <1> QED
    BY <1>2, <1>3

LEMMA OwnFilesNext ==
    ASSUME ExecutorInv, NEW w \in Workers, WorkerNext(w), OwnFiles(w)
    PROVE  OwnFiles(w)'
  <1>0. UNCHANGED sent /\ ExecutorTypes
    BY WorkerFrame DEF ExecutorInv
  <1>1. CASE Take(w)
    BY <1>1, Taken DEF OwnFiles, Building
  <1>2. CASE Answer(w)
    BY <1>2, Answered DEF OwnFiles, Building, AtRest
  <1>3. ASSUME ~Take(w), ~Answer(w) PROVE OwnFiles(w)'
    <2>0. /\ work[w].pc # "idle" /\ work'[w].job = work[w].job /\ Here(w)' = Here(w)
          /\ work[w].k \in Nat /\ Here(w) \in Dirs /\ Len(Tests(w)) \in Nat
          /\ \A i : RunAt(work[w].job, i)' = RunAt(work[w].job, i)
          /\ \A i, s : FailedWith(work[w].job, i, s)' = FailedWith(work[w].job, i, s)
      BY <1>0, <1>3, BusyMoves, Busy DEF Here, Dir, RunAt, FailedWith
    <2>1. CASE CompileFails(w) \/ Unlink(w)
      <3>1. work'[w].pc \in {"answer", "link"}
        BY <1>3, <2>1, BusyMoves
      <3> QED
        BY <3>1 DEF OwnFiles, Building
    <2>2. CASE Link(w)
      <3>1. work'[w].pc = "exec" /\ work'[w].status = "accepted" /\ Here(w) \in built'
        BY <1>3, <2>2, BusyMoves DEF Link
      <3> QED
        BY <2>0, <3>1 DEF OwnFiles, Building
    <2>3. CASE Exec(w)
      <3>1. Building(w) /\ UNCHANGED built
        BY <2>3 DEF Exec, Building, At
      <3>2. /\ Here(w) \in built /\ work'[w].pc = "run" /\ work'[w].k = work[w].k
            /\ work'[w].status = work[w].status
        BY <1>3, <2>3, <3>1, BusyMoves DEF OwnFiles
      <3> QED
        BY <2>0, <3>1, <3>2 DEF OwnFiles, Building
    <2>4. CASE Run(w)
      <3>1. Building(w) /\ UNCHANGED built
        BY <2>4 DEF Run, Building, At
      <3>2. /\ work'[w].pc = "compare" /\ work'[w].k = work[w].k
            /\ work'[w].status = work[w].status
            /\ work'[w].rr = RunStatus(RunAt(work[w].job, work[w].k))
        BY <1>3, <2>4, BusyMoves
      <3>3. PICK text \in Texts :
                /\ SetOutput(Here(w), work[w].k, text) /\ work[w].k \in 1..Len(Tests(w))
                /\ text = IF RunAt(work[w].job, work[w].k).right THEN "right" ELSE "wrong"
        BY <2>4, Written
      <3>4. output'[Here(w)][work[w].k] = text
        BY <1>0, <2>0, <3>3, OutputEffect DEF ExecutorTypes
      <3>5. /\ work'[w].rr = RunStatus(RunAt(work'[w].job, work'[w].k))
            /\ output'[Here(w)][work'[w].k] =
                  IF RunAt(work'[w].job, work'[w].k).right THEN "right" ELSE "wrong"
        BY <2>0, <3>2, <3>3, <3>4
      <3>6. OwnFiles(w)
        OBVIOUS
      <3> QED
        BY <2>0, <3>1, <3>2, <3>5, <3>6, <1>0, Restated DEF OwnFiles, Building
    <2>5. CASE Compare(w)
      <3>1. /\ work'[w].pc = "exec" /\ work'[w].k = work[w].k + 1
            /\ work'[w].status = IF TestStatus(w) = "accepted" THEN work[w].status ELSE TestStatus(w)
            /\ work[w].pc = "compare" /\ Building(w) /\ UNCHANGED built
        BY <1>3, <2>5, BusyMoves DEF Compare, At, Building
      <3> DEFINE run == RunAt(work[w].job, work[w].k)
      <3>2. /\ work[w].rr = RunStatus(run) /\ Here(w) \in built
            /\ output[Here(w)][work[w].k] = IF run.right THEN "right" ELSE "wrong"
            /\ work[w].status # "accepted" =>
                  \E i \in 1..(work[w].k - 1) : FailedWith(work[w].job, i, work[w].status)
        BY <3>1 DEF OwnFiles
      <3>3. work[w].k \in 1..Len(Tests(w)) /\ run \in Runs
        BY <2>0, <3>1, TestStatusSound, Busy
      <3>4. TestStatus(w) # "accepted" => FailedWith(work[w].job, work[w].k, TestStatus(w))
        BY <3>2, <3>3, RunStatusTyped DEF TestStatus, FailedWith
      <3>5. work'[w].status # "accepted" =>
                \E i \in 1..(work'[w].k - 1) : FailedWith(work[w].job, i, work'[w].status)
        <4>1. CASE TestStatus(w) # "accepted"
          <5>1. work[w].k \in 1..(work'[w].k - 1)
            BY <2>0, <3>1, <3>3
          <5> QED
            BY <3>1, <3>4, <4>1, <5>1
        <4>2. CASE TestStatus(w) = "accepted"
          <5>1. 1..(work[w].k - 1) \subseteq 1..(work'[w].k - 1)
            BY <2>0, <3>1
          <5> QED
            BY <3>1, <3>2, <4>2, <5>1
        <4> QED
          BY <4>1, <4>2
      <3> QED
        BY <2>0, <3>1, <3>2, <3>5 DEF OwnFiles, Building
    <2> QED
      BY <1>3, <2>1, <2>2, <2>3, <2>4, <2>5 DEF WorkerNext
  <1> QED
    BY <1>1, <1>2, <1>3

\* The answer a worker that found its own files gives.
LEMMA AnswerDeserved ==
    ASSUME ExecutorInv, NEW w \in Workers, Answer(w), OwnFiles(w)
    PROVE  work[w].status \in Deserved(work[w].job)
  <1> DEFINE j == work[w].job
  <1>1. /\ j \in Jobs /\ sent[j] # NoPayload /\ ExecutorTypes
    BY AtTheEnd DEF ExecutorInv
  <1>2. CASE work[w].pc = "answer"
    BY <1>1, <1>2, AtTheEnd, DeservedWhen
  <1>3. CASE work[w].pc = "exec"
    <2>1. /\ work[w].k - 1 = Len(sent[j].tests) /\ Compiles(sent[j].program)
          /\ (work[w].status = "accepted" => PassedTo(j, Len(sent[j].tests)))
      BY <1>3, AtTheEnd
    <2>2. work[w].status # "accepted" =>
              \E i \in 1..Len(sent[j].tests) : FailedWith(j, i, work[w].status)
      BY <1>3, <2>1 DEF OwnFiles, Building
    <2> HIDE DEF j
    <2> QED
      BY <1>1, <2>1, <2>2, DeservedWhen DEF j
  <1> QED
    BY <1>2, <1>3, AtTheEnd

LEMMA AloneNext ==
    ASSUME ~Shared, IInv, AloneInv, [Next]_vars
    PROVE  AloneInv'
  <1>0. ExecutorInv /\ ExecutorTypes /\ (\A w \in Workers : OwnFiles(w)) /\ VerdictDeserved
    BY DEF IInv, ExecutorInv, AloneInv
  <1>1. ASSUME UNCHANGED <<verdict, work, built, output>>,
               \A j \in Jobs : sent[j] # NoPayload => sent'[j] = sent[j]
        PROVE  AloneInv'
    <2>1. ASSUME NEW w \in Workers PROVE OwnFiles(w)'
      <3>1. CASE Building(w)
        <4>1. work[w].job \in Jobs /\ sent[work[w].job] # NoPayload
          BY <1>0, <3>1, Busy DEF Building
        <4>2. /\ \A i : RunAt(work[w].job, i)' = RunAt(work[w].job, i)
              /\ \A i, s : FailedWith(work[w].job, i, s)' = FailedWith(work[w].job, i, s)
          BY <1>1, <4>1 DEF RunAt, FailedWith
        <4> QED
          BY <1>0, <1>1, <4>2 DEF OwnFiles, Building, Here, Dir
      <3>2. CASE ~Building(w)
        BY <1>1, <3>2 DEF OwnFiles, Building
      <3> QED
        BY <3>1, <3>2
    <2>2. ASSUME NEW j \in Jobs PROVE verdict'[j] \in {"none", "system_error"} \cup Deserved(j)'
      <3>1. CASE verdict[j] = "none"
        BY <1>1, <3>1
      <3>2. CASE verdict[j] # "none"
        <4>1. sent'[j] = sent[j]
          BY <1>0, <1>1, <3>2 DEF ExecutorInv, VerdictSound
        <4>2. Deserved(j)' = Deserved(j)
          BY <4>1 DEF Deserved, RunsOf
        <4> QED
          BY <1>0, <1>1, <4>2 DEF VerdictDeserved
      <3> QED
        BY <3>1, <3>2
    <2> QED
      BY <2>1, <2>2 DEF AloneInv, VerdictDeserved
  <1>2. CASE KillServer
    BY <1>1, <1>2 DEF KillServer
  <1>3. CASE UNCHANGED executorVars
    BY <1>1, <1>3 DEF executorVars
  <1>4. ASSUME NEW p \in ProblemIds, NEW program \in Programs, NEW mode \in {"run", "submit"},
               NEW e \in Endings, PostSubmission(p, program, mode, e)
        PROVE  AloneInv'
    BY <1>1, <1>4, HandOver DEF PostSubmission
  <1>5. CASE ExecutorNext
    <2>1. UNCHANGED sent /\ \A j : Deserved(j)' = Deserved(j)
      BY <1>0, <1>5, SentKept DEF Deserved, RunsOf
    <2>2. ASSUME NEW w \in Workers PROVE OwnFiles(w)'
      <3>1. ASSUME NEW v \in Workers, WorkerNext(v) PROVE OwnFiles(w)'
        BY <1>0, <3>1, OthersKeepFiles, OwnFilesNext
      <3>2. CASE UNCHANGED <<work, built, output>>
        BY <1>0, <2>1, <3>2 DEF OwnFiles, Building, Here, Dir, RunAt, FailedWith
      <3> QED
        BY <1>5, <3>1, <3>2 DEF ExecutorNext, Attempt, TimeOut
    <2>3. ASSUME NEW j \in Jobs PROVE verdict'[j] \in {"none", "system_error"} \cup Deserved(j)
      <3>1. ASSUME NEW i \in Jobs, TimeOut(i)
            PROVE  verdict'[j] \in {"none", "system_error"} \cup Deserved(j)
        BY <1>0, <3>1 DEF TimeOut, VerdictDeserved, ExecutorTypes
      <3>2. ASSUME NEW w \in Workers, Answer(w)
            PROVE  verdict'[j] \in {"none", "system_error"} \cup Deserved(j)
        <4>1. work[w].status \in Deserved(work[w].job) /\ work[w].job \in Jobs
          BY <1>0, <3>2, AnswerDeserved, AtTheEnd
        <4>2. \/ verdict'[j] = verdict[j]
              \/ j = work[w].job /\ verdict'[j] = work[w].status
          BY <1>0, <3>2, <4>1 DEF Answer, ExecutorTypes
        <4> QED
          BY <1>0, <4>1, <4>2 DEF VerdictDeserved
      <3>3. CASE UNCHANGED verdict
        BY <1>0, <3>3 DEF VerdictDeserved
      <3> QED
        BY <1>5, <3>1, <3>2, <3>3
        DEF ExecutorNext, WorkerNext, Attempt, Take, CompileFails, Unlink, Link, Exec, Run, Compare
    <2> QED
      BY <2>1, <2>2, <2>3 DEF AloneInv, VerdictDeserved
  <1> QED
    BY <1>2, <1>3, <1>4, <1>5 DEF Next, vars

\* Every verdict is one the program deserves on the tests of its payload,
\* although attempts overlap and answers come late, provided that no two
\* workers are started in one directory.
THEOREM VerdictsAreDeserved == ~Shared /\ Spec => []VerdictDeserved
  <1> SUFFICES ASSUME ~Shared PROVE Spec => []VerdictDeserved
    OBVIOUS
  <1>1. Init => AloneInv
    <2> SUFFICES ASSUME Init PROVE AloneInv
      OBVIOUS
    <2>1. (\A w \in Workers : work[w] = AtRest) /\ (\A j \in Jobs : verdict[j] = "none")
      BY DEF Init, ExecutorInit
    <2> QED
      BY <2>1 DEF AloneInv, OwnFiles, Building, AtRest, VerdictDeserved
  <1>2. IInv /\ AloneInv /\ [Next]_vars => AloneInv'
    BY AloneNext
  <1>3. AloneInv => VerdictDeserved
    BY DEF AloneInv
  <1> QED
    BY <1>1, <1>2, <1>3, IInvHolds, PTL DEF Spec
=============================================================================
