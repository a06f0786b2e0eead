----------------------------- MODULE Accounts_proofs -----------------------------
(***************************************************************************)
(* Theorems about Accounts: usernames stay unique and variables typed, an  *)
(* account is what its last successful writer made it, and the claims of a *)
(* token stay true although no request asks the table about them.  They    *)
(* hold for any names, passwords, runs of register_admin and faults.       *)
(*                                                                         *)
(* AccountsAsTold and TokensTruthful are not inductive: both depend on     *)
(* what an open transaction of register_admin remembers from before.       *)
(* Found, Reserved and Alone say what that is worth when it commits.       *)
(***************************************************************************)
EXTENDS Accounts, TLAPS

ToolStates ==
    [pc : {"start", "found", "written", "done", "failed"}, name : Names \cup {"none"},
     password : Passwords \cup {"none"}, id : Nat, found : BOOLEAN]

\* The table and the tools are functions; a run that is under way has its
\* arguments and no other run remembers a row.
Shape ==
    /\ users \in [DOMAIN users -> UserRow]
    /\ tool \in [Tools -> ToolStates]
    /\ \A t \in Tools :
          IF tool[t].pc \in {"found", "written"}
          THEN tool[t].name \in Names /\ tool[t].password \in Passwords
          ELSE ~tool[t].found

\* The row a run has found is still there, under the same name.
Found ==
    \A t \in Tools : tool[t].found =>
        tool[t].id \in DOMAIN users /\ users[tool[t].id].username = tool[t].name

\* A row that was inserted and is not committed: neither its id nor its name
\* is taken by a row that is.
Reserved ==
    \A t \in Tools : tool[t].pc = "written" /\ ~tool[t].found =>
        /\ tool[t].id \in 1..(nextId - 1) /\ tool[t].id \notin DOMAIN users
        /\ \A i \in DOMAIN users : users[i].username # tool[t].name

\* Open transactions have written rows of different names and ids.
Alone ==
    \A t, u \in Tools : tool[t].pc = "written" /\ tool[u].pc = "written" /\ t # u =>
        tool[t].name # tool[u].name /\ tool[t].id # tool[u].id

\* The row of a name is the one its writers were told of.
Known(n) ==
    \/ told[n] = NoRow /\ \A i \in DOMAIN users : users[i].username # n
    \/ \E i \in DOMAIN users : users[i].username = n /\ users[i] = told[n]

AllKnown == \A n \in Names \ doubt : Known(n)

\* The inductive invariant.
IInv == TypeOK /\ Shape /\ Found /\ Reserved /\ Alone /\ AllKnown /\ TokensTruthful
-----------------------------------------------------------------------------
(***************************************************************************)
(* Rows.                                                                   *)
(***************************************************************************)
LEMMA RowTyped ==
    ASSUME NEW n \in Names, NEW p \in Passwords, NEW r \in {"student", "admin"}, NEW s \in Statuses
    PROVE  /\ Row(n, p, r, s) \in UserRow /\ Row(n, p, r, s) # NoRow
           /\ Row(n, p, r, s).username = n /\ Row(n, p, r, s).role = r
  BY DEF Row, NoRow, UserRow

LEMMA RowFields ==
    ASSUME NEW row \in UserRow
    PROVE  /\ row.username \in Names /\ row.role \in {"student", "admin"} /\ row # NoRow
           /\ \A s \in Statuses :
                 /\ [row EXCEPT !.status = s] \in UserRow
                 /\ [row EXCEPT !.status = s].username = row.username
                 /\ [row EXCEPT !.status = s].role = row.role
  BY DEF Row, NoRow, UserRow

\* What is known of an account is said by Known as by AccountsAsTold.
LEMMA ToldIsKnown ==
    ASSUME TypeOK, AllKnown
    PROVE  AccountsAsTold
  <1> SUFFICES ASSUME NEW n \in Names \ doubt
               PROVE  {users[id] : id \in GetByUsername(n)} = {told[n]} \ {NoRow}
    BY DEF AccountsAsTold
  <1>1. Known(n)
    BY DEF AllKnown
  <1>2. CASE told[n] = NoRow /\ \A i \in DOMAIN users : users[i].username # n
    BY <1>2 DEF GetByUsername
  <1>3. CASE \E i \in DOMAIN users : users[i].username = n /\ users[i] = told[n]
    <2>1. PICK i \in DOMAIN users : users[i].username = n /\ users[i] = told[n]
      BY <1>3
    <2>2. GetByUsername(n) = {i}
      BY <2>1 DEF GetByUsername, TypeOK
    <2>3. users[i] # NoRow
      BY RowFields DEF TypeOK
    <2> QED
      BY <2>1, <2>2, <2>3
  <1> QED
    BY <1>1, <1>2, <1>3 DEF Known

\* A row is written over the one of its name, or under a fresh id.
Written(id, row) ==
    /\ id \in 1..(nextId' - 1) /\ row \in UserRow
    /\ users' = WithRow(id, row)
    /\ IF id \in DOMAIN users THEN users[id].username = row.username
       ELSE \A i \in DOMAIN users : users[i].username # row.username

Effect(id, row) ==
    /\ DOMAIN users' = DOMAIN users \cup {id} /\ users'[id] = row
    /\ \A i \in DOMAIN users : i # id => users'[i] = users[i]
    /\ \A i \in DOMAIN users : users'[i].username = users[i].username
    /\ users' \in [DOMAIN users' -> UserRow]
    /\ \A i, j \in DOMAIN users' : users'[i].username = users'[j].username => i = j
    /\ id \in DOMAIN users => users[id].username = row.username

LEMMA WrittenRow ==
    ASSUME IInv, NEW id, NEW row, Written(id, row)
    PROVE  Effect(id, row)
  <1>1. /\ DOMAIN users' = DOMAIN users \cup {id} /\ users'[id] = row
        /\ \A i \in DOMAIN users : i # id => users'[i] = users[i]
    BY DEF Written, WithRow
  <1>2. users' \in [DOMAIN users' -> UserRow]
    BY DEF Written, WithRow, IInv, Shape
  <1>3. \A i \in DOMAIN users : users'[i].username = users[i].username
    BY <1>1 DEF Written
  <1>4. \A i, j \in DOMAIN users' : users'[i].username = users'[j].username => i = j
    BY <1>1, <1>3 DEF Written, IInv, TypeOK
  <1> QED
    BY <1>1, <1>2, <1>3, <1>4 DEF Written, Effect
-----------------------------------------------------------------------------
(***************************************************************************)
(* The three actions that write the table.                                 *)
(***************************************************************************)
LEMMA RegisterWrites ==
    ASSUME IInv, NEW e \in Endings, RegisterInsert(e)
    PROVE  /\ Effect(nextId, RegisteredRow) /\ nextId' = nextId + 1
           /\ nextId \notin DOMAIN users
           /\ RegisteredRow \in UserRow /\ RegisteredRow.username = serving.name
           /\ RegisteredRow.role = "student"
  <1>1. serving.name \in Names /\ serving.password \in Passwords
    BY DEF IInv, TypeOK, RegisterInsert
  <1>2. RegisteredRow \in UserRow /\ RegisteredRow.username = serving.name /\ RegisteredRow.role = "student"
    BY <1>1, RowTyped DEF RegisteredRow, Statuses
  <1>3. nextId \in Nat \ {0} /\ nextId \notin DOMAIN users
    BY DEF IInv, TypeOK
  <1>4. users' = WithRow(nextId, RegisteredRow) /\ nextId' = nextId + 1
    BY DEF RegisterInsert, CreateUser
  <1>5. \A i \in DOMAIN users : users[i].username # serving.name
    BY DEF RegisterInsert, GetByUsername
  <1>6. Written(nextId, RegisteredRow)
    BY <1>1, <1>2, <1>3, <1>4, <1>5 DEF Written
  <1> QED
    BY <1>1, <1>2, <1>3, <1>4, <1>6, WrittenRow

StatusRow(id, status) == [users[id] EXCEPT !.status = status]

LEMMA StatusWrites ==
    ASSUME IInv, NEW token \in tokens, NEW id \in DOMAIN users, NEW status \in Statuses,
           NEW e \in Endings, UpdateStatus(token, id, status, e)
    PROVE  /\ Effect(id, StatusRow(id, status)) /\ nextId' = nextId
           /\ StatusRow(id, status) \in UserRow
           /\ StatusRow(id, status).username = users[id].username
           /\ StatusRow(id, status).role = users[id].role
  <1>1. users[id] \in UserRow /\ id \in 1..(nextId - 1) /\ nextId' = nextId
    BY DEF IInv, TypeOK, UpdateStatus
  <1>2. /\ StatusRow(id, status) \in UserRow
        /\ StatusRow(id, status).username = users[id].username
        /\ StatusRow(id, status).role = users[id].role
    BY <1>1, RowFields DEF StatusRow
  <1>3. users' = WithRow(id, StatusRow(id, status))
    <2>1. users' = [users EXCEPT ![id].status = status]
      BY DEF UpdateStatus, SetStatus
    <2>2. users \in [DOMAIN users -> UserRow] /\ DOMAIN users \cup {id} = DOMAIN users
      BY DEF IInv, Shape
    <2> QED
      BY <2>1, <2>2 DEF WithRow, StatusRow
  <1>4. Written(id, StatusRow(id, status))
    BY <1>1, <1>2, <1>3 DEF Written
  <1> QED
    BY <1>1, <1>2, <1>4, WrittenRow

LEMMA CommitWrites ==
    ASSUME IInv, NEW t \in Tools, NEW e \in Endings, CommitTransaction(t, e)
    PROVE  /\ Effect(tool[t].id, AdminRow(t)) /\ nextId' = nextId
           /\ tool[t].id \in 1..(nextId - 1)
           /\ AdminRow(t) \in UserRow /\ tool[t].name \in Names
           /\ AdminRow(t).username = tool[t].name /\ AdminRow(t).role = "admin"
  <1>1. tool[t].pc = "written" /\ users' = WithRow(tool[t].id, AdminRow(t)) /\ nextId' = nextId
    BY DEF CommitTransaction
  <1>2. tool[t].name \in Names /\ tool[t].password \in Passwords
    BY <1>1 DEF IInv, Shape
  <1>3. AdminRow(t) \in UserRow /\ AdminRow(t).username = tool[t].name /\ AdminRow(t).role = "admin"
    BY <1>2, RowTyped DEF AdminRow, Statuses
  <1>4. Written(tool[t].id, AdminRow(t))
    <2>1. CASE tool[t].found
      <3>1. /\ tool[t].id \in DOMAIN users /\ users[tool[t].id].username = tool[t].name
            /\ tool[t].id \in 1..(nextId - 1)
        BY <2>1 DEF IInv, TypeOK, Found
      <3> QED
        BY <1>1, <1>2, <1>3, <3>1 DEF Written
    <2>2. CASE ~tool[t].found
      <3>1. /\ tool[t].id \in 1..(nextId - 1) /\ tool[t].id \notin DOMAIN users
            /\ \A i \in DOMAIN users : users[i].username # tool[t].name
        BY <1>1, <2>2 DEF IInv, Reserved
      <3> QED
        BY <1>1, <1>2, <1>3, <3>1 DEF Written
    <2> QED
      BY <2>1, <2>2
  <1>5. tool[t].id \in 1..(nextId - 1)
    BY <1>1, <1>4 DEF Written
  <1> QED
    BY <1>1, <1>2, <1>3, <1>4, <1>5, WrittenRow
-----------------------------------------------------------------------------
(***************************************************************************)
(* What no step does to the table.                                         *)
(***************************************************************************)
RowsStayStep ==
    \A i \in DOMAIN users :
        /\ i \in DOMAIN users' /\ users'[i].username = users[i].username
        /\ users[i].role = "admin" => users'[i].role = "admin"

LEMMA RowsStayNext ==
    ASSUME IInv, [Next]_vars
    PROVE  RowsStayStep
  <1>1. CASE UNCHANGED users
    BY <1>1 DEF RowsStayStep
  <1>2. ASSUME NEW e \in Endings, RegisterInsert(e) PROVE RowsStayStep
    BY <1>2, RegisterWrites DEF RowsStayStep, Effect
  <1>3. ASSUME NEW e \in Endings, NEW token \in tokens, NEW id \in DOMAIN users,
               NEW status \in Statuses, UpdateStatus(token, id, status, e)
        PROVE  RowsStayStep
    BY <1>3, StatusWrites DEF RowsStayStep, Effect
  <1>4. ASSUME NEW e \in Endings, NEW t \in Tools, CommitTransaction(t, e) PROVE RowsStayStep
    BY <1>4, CommitWrites DEF RowsStayStep, Effect
  <1> QED
    BY <1>1, <1>2, <1>3, <1>4
    DEF Next, vars, RegisterHandler, LoginHandler, FindUserIdByUsername, RegisterDuplicate,
        RegisterError, Expire, UpdateAdminUser, InsertAdminUser, ToolDuplicate, ToolError

TableTypes ==
    /\ nextId \in Nat \ {0} /\ DOMAIN users \subseteq 1..(nextId - 1)
    /\ users \in [DOMAIN users -> UserRow]
    /\ \A i, j \in DOMAIN users : users[i].username = users[j].username => i = j

TableTypesNext ==
    /\ nextId' \in Nat \ {0} /\ DOMAIN users' \subseteq 1..(nextId' - 1)
    /\ users' \in [DOMAIN users' -> UserRow]
    /\ \A i, j \in DOMAIN users' : users'[i].username = users'[j].username => i = j

\* Ids are never handed out twice, names never taken twice.
LEMMA TableTyped ==
    ASSUME IInv, [Next]_vars
    PROVE  TableTypesNext /\ nextId <= nextId'
  <1>0. TableTypes /\ TypeOK /\ Shape
    BY DEF IInv, TypeOK, Shape, TableTypes
  <1>1. CASE UNCHANGED <<users, nextId>>
    BY <1>0, <1>1 DEF TableTypes, TableTypesNext
  <1>2. ASSUME NEW e \in Endings, RegisterInsert(e) PROVE TableTypesNext /\ nextId <= nextId'
    BY <1>0, <1>2, RegisterWrites DEF TableTypes, TableTypesNext, Effect
  <1>3. ASSUME NEW e \in Endings, NEW token \in tokens, NEW id \in DOMAIN users,
               NEW status \in Statuses, UpdateStatus(token, id, status, e)
        PROVE  TableTypesNext /\ nextId <= nextId'
    <2>1. Effect(id, StatusRow(id, status)) /\ nextId' = nextId
      BY <1>3, StatusWrites
    <2> QED
      BY <1>0, <2>1 DEF TableTypes, TableTypesNext, Effect
  <1>4. ASSUME NEW e \in Endings, NEW t \in Tools, CommitTransaction(t, e)
        PROVE  TableTypesNext /\ nextId <= nextId'
    <2>1. Effect(tool[t].id, AdminRow(t)) /\ nextId' = nextId /\ tool[t].id \in 1..(nextId - 1)
      BY <1>4, CommitWrites
    <2> QED
      BY <1>0, <2>1 DEF TableTypes, TableTypesNext, Effect
  <1>5. ASSUME NEW t \in Tools, InsertAdminUser(t) PROVE TableTypesNext /\ nextId <= nextId'
    BY <1>0, <1>5 DEF InsertAdminUser, TableTypes, TableTypesNext
  <1> QED
    BY <1>1, <1>2, <1>3, <1>4, <1>5
    DEF Next, vars, RegisterHandler, LoginHandler, FindUserIdByUsername, RegisterDuplicate,
        RegisterError, Expire, UpdateAdminUser, ToolDuplicate, ToolError
-----------------------------------------------------------------------------
(***************************************************************************)
(* The runs of register_admin.                                             *)
(***************************************************************************)
LEMMA EndedTyped ==
    ASSUME Shape, NEW t \in Tools, NEW state \in {"done", "failed"}
    PROVE  /\ Ended(t, state) \in ToolStates
           /\ Ended(t, state).pc = state /\ ~Ended(t, state).found
  BY DEF Shape, Ended, NewTool, ToolStates

\* A step of the tool t alone, to the state next.
Moves(t, next) == tool' = [tool EXCEPT ![t] = next]

FoundState(name, password) ==
    [pc |-> "found", name |-> name, password |-> password,
     id |-> IF GetByUsername(name) = {} THEN 0 ELSE CHOOSE id \in GetByUsername(name) : TRUE,
     found |-> GetByUsername(name) # {}]

WrittenState(t, id) ==
    [pc |-> "written", name |-> tool[t].name, password |-> tool[t].password,
     id |-> id, found |-> tool[t].found]

LEMMA ToolMoves ==
    ASSUME IInv, NEW t \in Tools
    PROVE  /\ \A n \in Names, p \in Passwords :
                 FindUserIdByUsername(t, n, p) => Moves(t, FoundState(n, p))
           /\ UpdateAdminUser(t) => Moves(t, WrittenState(t, tool[t].id))
           /\ InsertAdminUser(t) => Moves(t, WrittenState(t, nextId))
           /\ \A e \in Endings : CommitTransaction(t, e) =>
                 \E state \in {"done", "failed"} : Moves(t, Ended(t, state))
           /\ ToolDuplicate(t) => Moves(t, Ended(t, "failed"))
           /\ ToolError(t) => Moves(t, Ended(t, "failed"))
  <1>1. tool[t] \in ToolStates /\ tool \in [Tools -> ToolStates]
    BY DEF IInv, Shape
  <1>2. nextId \in Nat
    BY DEF IInv, TypeOK
  <1>3. UpdateAdminUser(t) => Moves(t, WrittenState(t, tool[t].id))
    <2>1. [tool[t] EXCEPT !.pc = "written"] = WrittenState(t, tool[t].id)
      BY <1>1 DEF WrittenState, ToolStates
    <2>2. [tool EXCEPT ![t].pc = "written"] = [tool EXCEPT ![t] = [tool[t] EXCEPT !.pc = "written"]]
      OBVIOUS
    <2> QED
      BY <2>1, <2>2 DEF UpdateAdminUser, Moves
  <1>4. InsertAdminUser(t) => Moves(t, WrittenState(t, nextId))
    <2>0. /\ [tool[t] EXCEPT !.pc = "written"] = WrittenState(t, tool[t].id)
          /\ [WrittenState(t, tool[t].id) EXCEPT !.id = nextId] = WrittenState(t, nextId)
      BY <1>1, <1>2 DEF WrittenState, ToolStates
    <2>1. [tool[t] EXCEPT !.pc = "written", !.id = nextId] = WrittenState(t, nextId)
      BY <2>0
    <2>2. [tool EXCEPT ![t].pc = "written", ![t].id = nextId]
          = [tool EXCEPT ![t] = [tool[t] EXCEPT !.pc = "written", !.id = nextId]]
      BY <1>1
    <2> QED
      BY <2>1, <2>2 DEF InsertAdminUser, Moves
  <1>5. \A n \in Names, p \in Passwords :
            FindUserIdByUsername(t, n, p) => Moves(t, FoundState(n, p))
    BY DEF FindUserIdByUsername, Moves, FoundState
  <1>6. \A e \in Endings : CommitTransaction(t, e) =>
            \E state \in {"done", "failed"} : Moves(t, Ended(t, state))
    BY DEF CommitTransaction, Moves
  <1> QED
    BY <1>3, <1>4, <1>5, <1>6 DEF ToolDuplicate, ToolError, Moves

\* What the steps of a tool lead to.
LEMMA ToolStatesNext ==
    ASSUME IInv, NEW t \in Tools
    PROVE  /\ \A n \in Names, p \in Passwords :
                 /\ FoundState(n, p) \in ToolStates
                 /\ FoundState(n, p).pc = "found" /\ FoundState(n, p).name = n
                 /\ FoundState(n, p).password = p
                 /\ FoundState(n, p).found =>
                       /\ FoundState(n, p).id \in DOMAIN users
                       /\ users[FoundState(n, p).id].username = n
           /\ \A id \in Nat :
                 /\ WrittenState(t, id) \in ToolStates
                 /\ WrittenState(t, id).pc = "written" /\ WrittenState(t, id).id = id
                 /\ WrittenState(t, id).name = tool[t].name
                 /\ WrittenState(t, id).password = tool[t].password
                 /\ WrittenState(t, id).found = tool[t].found
           /\ \A state \in {"done", "failed"} :
                 /\ Ended(t, state) \in ToolStates
                 /\ Ended(t, state).pc = state /\ ~Ended(t, state).found
  <1>1. tool[t] \in ToolStates /\ Shape /\ DOMAIN users \subseteq Nat
    BY DEF IInv, Shape, TypeOK
  <1>2. ASSUME NEW n \in Names, NEW p \in Passwords
        PROVE  /\ FoundState(n, p) \in ToolStates
               /\ FoundState(n, p).pc = "found" /\ FoundState(n, p).name = n
               /\ FoundState(n, p).password = p
               /\ FoundState(n, p).found =>
                     /\ FoundState(n, p).id \in DOMAIN users
                     /\ users[FoundState(n, p).id].username = n
    <2> DEFINE id == IF GetByUsername(n) = {} THEN 0 ELSE CHOOSE i \in GetByUsername(n) : TRUE
    <2>1. GetByUsername(n) # {} => id \in DOMAIN users /\ users[id].username = n
      BY DEF GetByUsername
    <2>2. id \in Nat
      BY <1>1, <2>1
    <2> DEFINE taken == GetByUsername(n) # {}
    <2>4. taken \in BOOLEAN /\ (taken => GetByUsername(n) # {})
      OBVIOUS
    <2> HIDE DEF id, taken
    <2>3. FoundState(n, p) = [pc |-> "found", name |-> n, password |-> p, id |-> id,
                              found |-> taken]
      BY DEF FoundState, id, taken
    <2>5. /\ FoundState(n, p).pc = "found" /\ FoundState(n, p).name = n
          /\ FoundState(n, p).password = p /\ FoundState(n, p).id = id
          /\ FoundState(n, p).found = taken
      BY <2>3
    <2>6. FoundState(n, p) \in ToolStates
      BY <2>2, <2>3, <2>4 DEF ToolStates
    <2> QED
      BY <2>1, <2>4, <2>5, <2>6
  <1>3. ASSUME NEW id \in Nat
        PROVE  /\ WrittenState(t, id) \in ToolStates
               /\ WrittenState(t, id).pc = "written" /\ WrittenState(t, id).id = id
               /\ WrittenState(t, id).name = tool[t].name
               /\ WrittenState(t, id).password = tool[t].password
               /\ WrittenState(t, id).found = tool[t].found
    BY <1>1 DEF WrittenState, ToolStates
  <1> QED
    BY <1>1, <1>2, <1>3, EndedTyped

\* A step of one run: the state it leaves it in; the others stay in theirs.
Stepped(t, next) ==
    /\ tool' \in [Tools -> ToolStates] /\ tool'[t] = next
    /\ \A u \in Tools : u # t => tool'[u] = tool[u]

LEMMA MovesOne ==
    ASSUME Shape, NEW t \in Tools, NEW next \in ToolStates, Moves(t, next)
    PROVE  Stepped(t, next)
  BY DEF Shape, Moves, Stepped

LEMMA ToolStep ==
    ASSUME IInv, NEW t \in Tools
    PROVE  /\ \A n \in Names, p \in Passwords :
                 FindUserIdByUsername(t, n, p) => Stepped(t, FoundState(n, p))
           /\ UpdateAdminUser(t) => Stepped(t, WrittenState(t, tool[t].id))
           /\ InsertAdminUser(t) => Stepped(t, WrittenState(t, nextId))
           /\ \A e \in Endings : CommitTransaction(t, e) =>
                 \E state \in {"done", "failed"} : Stepped(t, Ended(t, state))
           /\ ToolDuplicate(t) => Stepped(t, Ended(t, "failed"))
           /\ ToolError(t) => Stepped(t, Ended(t, "failed"))
  <1>1. Shape /\ tool[t].id \in Nat /\ nextId \in Nat
    BY DEF IInv, Shape, TypeOK, ToolStates
  <1>2. \A next \in ToolStates : Moves(t, next) => Stepped(t, next)
    BY <1>1, MovesOne
  <1> QED
    BY <1>1, <1>2, ToolMoves, ToolStatesNext
-----------------------------------------------------------------------------
(***************************************************************************)
(* The inductive invariant, conjunct by conjunct.                          *)
(***************************************************************************)
LEMMA ShapeNext ==
    ASSUME IInv, [Next]_vars
    PROVE  Shape'
  <1>0. Shape
    BY DEF IInv
  <1>1. users' \in [DOMAIN users' -> UserRow]
    BY TableTyped DEF TableTypesNext
  <1> DEFINE Sound(state) ==
                IF state.pc \in {"found", "written"}
                THEN state.name \in Names /\ state.password \in Passwords
                ELSE ~state.found
  <1>2. ASSUME NEW t \in Tools, NEW next, Stepped(t, next), Sound(next)
        PROVE  Shape'
    BY <1>0, <1>1, <1>2 DEF Shape, Stepped
  <1>3. CASE UNCHANGED tool
    BY <1>0, <1>1, <1>3 DEF Shape
  <1>4. ASSUME NEW t \in Tools, NEW n \in Names, NEW p \in Passwords, FindUserIdByUsername(t, n, p)
        PROVE  Shape'
    BY <1>2, <1>4, ToolStep, ToolStatesNext
  <1>5. ASSUME NEW t \in Tools, UpdateAdminUser(t) \/ InsertAdminUser(t)
        PROVE  Shape'
    <2>1. /\ tool[t].name \in Names /\ tool[t].password \in Passwords
          /\ tool[t].id \in Nat /\ nextId \in Nat
      BY <1>0, <1>5 DEF Shape, IInv, TypeOK, ToolStates, UpdateAdminUser, InsertAdminUser
    <2> QED
      BY <1>2, <1>5, <2>1, ToolStep, ToolStatesNext
  <1>6. ASSUME NEW t \in Tools, NEW state \in {"done", "failed"}, Stepped(t, Ended(t, state))
        PROVE  Shape'
    BY <1>2, <1>6, ToolStatesNext
  <1>7. ASSUME NEW e \in Endings, NEW t \in Tools, CommitTransaction(t, e) PROVE Shape'
    BY <1>6, <1>7, ToolStep
  <1>8. ASSUME NEW t \in Tools, ToolDuplicate(t) \/ ToolError(t) PROVE Shape'
    BY <1>6, <1>8, ToolStep
  <1> QED
    BY <1>3, <1>4, <1>5, <1>7, <1>8
    DEF Next, vars, RegisterHandler, LoginHandler, RegisterInsert, RegisterDuplicate,
        RegisterError, UpdateStatus, Expire

\* What was found stays, because rows stay; what is found now is there.
LEMMA FoundNext ==
    ASSUME IInv, [Next]_vars
    PROVE  Found'
  <1>0. Found /\ RowsStayStep
    BY RowsStayNext DEF IInv
  <1>1. CASE UNCHANGED tool
    BY <1>0, <1>1 DEF Found, RowsStayStep
  <1>2. ASSUME NEW t \in Tools, NEW next, Stepped(t, next),
               next.found => next.id \in DOMAIN users /\ users[next.id].username = next.name
        PROVE  Found'
    BY <1>0, <1>2 DEF Found, RowsStayStep, Stepped
  <1>3. ASSUME NEW t \in Tools, NEW n \in Names, NEW p \in Passwords, FindUserIdByUsername(t, n, p)
        PROVE  Found'
    BY <1>2, <1>3, ToolStep, ToolStatesNext
  <1>4. ASSUME NEW t \in Tools, UpdateAdminUser(t) \/ InsertAdminUser(t)
        PROVE  Found'
    <2>1. tool[t].id \in Nat /\ nextId \in Nat
      BY DEF IInv, TypeOK, Shape, ToolStates
    <2>2. tool[t].found => tool[t].id \in DOMAIN users /\ users[tool[t].id].username = tool[t].name
      BY <1>0 DEF Found
    <2>3. InsertAdminUser(t) => ~tool[t].found
      BY DEF InsertAdminUser
    <2> QED
      BY <1>2, <1>4, <2>1, <2>2, <2>3, ToolStep, ToolStatesNext
  <1>5. ASSUME NEW t \in Tools, NEW state \in {"done", "failed"}, Stepped(t, Ended(t, state))
        PROVE  Found'
    BY <1>2, <1>5, ToolStatesNext
  <1>6. ASSUME NEW e \in Endings, NEW t \in Tools, CommitTransaction(t, e) PROVE Found'
    BY <1>5, <1>6, ToolStep
  <1>7. ASSUME NEW t \in Tools, ToolDuplicate(t) \/ ToolError(t) PROVE Found'
    BY <1>5, <1>7, ToolStep
  <1> QED
    BY <1>1, <1>3, <1>4, <1>6, <1>7
    DEF Next, vars, RegisterHandler, LoginHandler, RegisterInsert, RegisterDuplicate,
        RegisterError, UpdateStatus, Expire

\* Two transactions that have written exclude each other: the second finds the
\* name locked, and its id is found in the table or fresh.
LEMMA AloneNext ==
    ASSUME IInv, [Next]_vars
    PROVE  Alone'
  <1>0. Alone /\ Found /\ Reserved /\ Shape
    BY DEF IInv
  <1>1. CASE UNCHANGED tool
    BY <1>0, <1>1 DEF Alone
  <1>2. ASSUME NEW t \in Tools, NEW next, Stepped(t, next),
               next.pc = "written" =>
                  \A u \in Tools : u # t /\ tool[u].pc = "written" =>
                      next.name # tool[u].name /\ next.id # tool[u].id
        PROVE  Alone'
    BY <1>0, <1>2 DEF Alone, Stepped
  <1>3. ASSUME NEW t \in Tools, NEW n \in Names, NEW p \in Passwords, FindUserIdByUsername(t, n, p)
        PROVE  Alone'
    BY <1>2, <1>3, ToolStep, ToolStatesNext
  <1>4. ASSUME NEW t \in Tools, UpdateAdminUser(t)
        PROVE  Alone'
    <2>1. tool[t].id \in Nat
      BY <1>0 DEF Shape, ToolStates
    <2>2. /\ tool[t].id \in DOMAIN users /\ users[tool[t].id].username = tool[t].name
          /\ ~Locked(tool[t].name)
      BY <1>0, <1>4 DEF Found, UpdateAdminUser
    <2>3. ASSUME NEW u \in Tools, tool[u].pc = "written"
          PROVE  tool[t].name # tool[u].name /\ tool[t].id # tool[u].id
      BY <1>0, <2>2, <2>3 DEF Locked, Found, Reserved
    <2> QED
      BY <1>2, <1>4, <2>1, <2>3, ToolStep, ToolStatesNext
  <1>5. ASSUME NEW t \in Tools, InsertAdminUser(t)
        PROVE  Alone'
    <2>1. nextId \in Nat /\ DOMAIN users \subseteq 1..(nextId - 1) /\ ~Locked(tool[t].name)
      BY <1>5 DEF IInv, TypeOK, InsertAdminUser
    <2>2. ASSUME NEW u \in Tools, tool[u].pc = "written"
          PROVE  tool[t].name # tool[u].name /\ nextId # tool[u].id
      <3>1. tool[u].id \in 1..(nextId - 1)
        BY <1>0, <2>1, <2>2 DEF Found, Reserved
      <3> QED
        BY <2>1, <2>2, <3>1 DEF Locked
    <2> QED
      BY <1>2, <1>5, <2>1, <2>2, ToolStep, ToolStatesNext
  <1>6. ASSUME NEW t \in Tools, NEW state \in {"done", "failed"}, Stepped(t, Ended(t, state))
        PROVE  Alone'
    BY <1>2, <1>6, ToolStatesNext
  <1>7. ASSUME NEW e \in Endings, NEW t \in Tools, CommitTransaction(t, e) PROVE Alone'
    BY <1>6, <1>7, ToolStep
  <1>8. ASSUME NEW t \in Tools, ToolDuplicate(t) \/ ToolError(t) PROVE Alone'
    BY <1>6, <1>8, ToolStep
  <1> QED
    BY <1>1, <1>3, <1>4, <1>5, <1>7, <1>8
    DEF Next, vars, RegisterHandler, LoginHandler, RegisterInsert, RegisterDuplicate,
        RegisterError, UpdateStatus, Expire
\* An inserted row keeps its id and its name until its transaction ends.
LEMMA ReservedNext ==
    ASSUME IInv, [Next]_vars
    PROVE  Reserved'
  <1>0. Reserved /\ Alone /\ Found /\ Shape /\ nextId <= nextId' /\ nextId' \in Nat /\ nextId \in Nat
    BY TableTyped DEF IInv, TableTypesNext, TypeOK
  <1>1. ASSUME UNCHANGED users, NEW t \in Tools, NEW next, Stepped(t, next),
               next.pc = "written" /\ ~next.found =>
                  /\ next.id \in 1..(nextId' - 1) /\ next.id \notin DOMAIN users
                  /\ \A i \in DOMAIN users : users[i].username # next.name
        PROVE  Reserved'
    BY <1>0, <1>1 DEF Reserved, Stepped
  <1>2. CASE UNCHANGED <<users, tool>>
    BY <1>0, <1>2 DEF Reserved
  <1>3. ASSUME NEW t \in Tools, NEW n \in Names, NEW p \in Passwords, FindUserIdByUsername(t, n, p)
        PROVE  Reserved'
    <2>1. UNCHANGED users
      BY <1>3 DEF FindUserIdByUsername
    <2> QED
      BY <1>1, <1>3, <2>1, ToolStep, ToolStatesNext
  <1>4. ASSUME NEW t \in Tools, UpdateAdminUser(t) PROVE Reserved'
    <2>1. UNCHANGED users /\ tool[t].found /\ tool[t].id \in Nat
      BY <1>0, <1>4 DEF UpdateAdminUser, Shape, ToolStates
    <2> QED
      BY <1>1, <1>4, <2>1, ToolStep, ToolStatesNext
  <1>5. ASSUME NEW t \in Tools, InsertAdminUser(t) PROVE Reserved'
    <2>1. /\ UNCHANGED users /\ nextId' = nextId + 1
          /\ \A i \in DOMAIN users : users[i].username # tool[t].name
      BY <1>5 DEF InsertAdminUser, GetByUsername
    <2>2. nextId \in 1..(nextId' - 1) /\ nextId \notin DOMAIN users
      BY <2>1 DEF IInv, TypeOK
    <2> QED
      BY <1>0, <1>1, <1>5, <2>1, <2>2, ToolStep, ToolStatesNext
  <1>6. ASSUME NEW t \in Tools, ToolDuplicate(t) \/ ToolError(t) PROVE Reserved'
    <2>1. UNCHANGED users
      BY <1>6 DEF ToolDuplicate, ToolError
    <2> QED
      BY <1>1, <1>6, <2>1, ToolStep, ToolStatesNext
  <1>7. ASSUME NEW e \in Endings, RegisterInsert(e) PROVE Reserved'
    <2>1. UNCHANGED tool /\ ~Locked(serving.name)
      BY <1>7 DEF RegisterInsert
    <2>2. \A u \in Tools : tool[u].pc = "written" => tool[u].name # serving.name
      BY <2>1 DEF Locked
    <2> QED
      BY <1>0, <1>7, <2>1, <2>2, RegisterWrites DEF Reserved, Effect
  <1>8. ASSUME NEW e \in Endings, NEW token \in tokens, NEW id \in DOMAIN users,
               NEW status \in Statuses, UpdateStatus(token, id, status, e)
        PROVE  Reserved'
    <2>1. UNCHANGED tool /\ Effect(id, StatusRow(id, status))
      BY <1>8, StatusWrites DEF UpdateStatus
    <2>2. DOMAIN users' = DOMAIN users /\ \A i \in DOMAIN users : users'[i].username = users[i].username
      BY <2>1 DEF Effect
    <2> QED
      BY <1>0, <2>1, <2>2 DEF Reserved
  <1>9. ASSUME NEW e \in Endings, NEW t \in Tools, CommitTransaction(t, e) PROVE Reserved'
    <2>1. tool[t].pc = "written" /\ Effect(tool[t].id, AdminRow(t)) /\ AdminRow(t).username = tool[t].name
      BY <1>9, CommitWrites DEF CommitTransaction
    <2>2. PICK state \in {"done", "failed"} : Stepped(t, Ended(t, state))
      BY <1>9, ToolStep
    <2>3. tool'[t].pc # "written" /\ \A u \in Tools : u # t => tool'[u] = tool[u]
      BY <2>2, ToolStatesNext DEF Stepped
    <2>4. ASSUME NEW u \in Tools, u # t, tool[u].pc = "written", ~tool[u].found
          PROVE  /\ tool[u].id \in 1..(nextId' - 1) /\ tool[u].id \notin DOMAIN users'
                 /\ \A i \in DOMAIN users' : users'[i].username # tool[u].name
      <3>1. tool[u].name # tool[t].name /\ tool[u].id # tool[t].id
        BY <1>0, <2>1, <2>4 DEF Alone
      <3>2. /\ tool[u].id \in 1..(nextId - 1) /\ tool[u].id \notin DOMAIN users
            /\ \A i \in DOMAIN users : users[i].username # tool[u].name
        BY <1>0, <2>4 DEF Reserved
      <3> QED
        BY <1>0, <2>1, <3>1, <3>2 DEF Effect
    <2> QED
      BY <2>3, <2>4 DEF Reserved
  <1> QED
    BY <1>2, <1>3, <1>4, <1>5, <1>6, <1>7, <1>8, <1>9
    DEF Next, vars, RegisterHandler, LoginHandler, RegisterDuplicate, RegisterError, Expire

Histories == told \in [Names -> UserRow \cup {NoRow}] /\ doubt \subseteq Names

HistoriesNext == told' \in [Names -> UserRow \cup {NoRow}] /\ doubt' \subseteq Names

\* A row is written and its writer told, or left in doubt.
LEMMA WrittenKnown ==
    ASSUME IInv, NEW id, NEW row \in UserRow, Effect(id, row), NEW e \in Endings,
           Told(row.username, row, e)
    PROVE  AllKnown' /\ HistoriesNext
  <1>0. Histories /\ AllKnown /\ row.username \in Names
    BY RowFields DEF IInv, TypeOK, Histories
  <1>1. HistoriesNext
    BY <1>0 DEF Told, Histories, HistoriesNext
  <1>2. ASSUME NEW n \in Names \ doubt'
        PROVE  Known(n)'
    <2>1. CASE n = row.username
      <3>1. e = "ok" /\ n \notin doubt
        BY <1>0, <1>2, <2>1 DEF Told, Histories, Endings
      <3>2. told'[n] = row
        BY <1>0, <2>1, <3>1 DEF Told, Histories
      <3> QED
        BY <2>1, <3>2 DEF Known, Effect
    <2>2. CASE n # row.username
      <3>1. n \notin doubt /\ told'[n] = told[n]
        BY <1>0, <1>2, <2>2 DEF Told, Histories, Endings
      <3>2. Known(n)
        BY <1>0, <3>1 DEF AllKnown
      <3> QED
        BY <2>2, <3>1, <3>2 DEF Known, Effect
    <2> QED
      BY <2>1, <2>2
  <1> QED
    BY <1>1, <1>2 DEF AllKnown
LEMMA KnownNext ==
    ASSUME IInv, [Next]_vars
    PROVE  AllKnown' /\ HistoriesNext
  <1>0. Histories /\ AllKnown /\ Shape
    BY DEF IInv, TypeOK, Histories
  <1>1. CASE UNCHANGED <<users, told, doubt>>
    BY <1>0, <1>1 DEF AllKnown, Known, Histories, HistoriesNext
  <1>2. ASSUME NEW e \in Endings, RegisterInsert(e) PROVE AllKnown' /\ HistoriesNext
    <2>1. Told(RegisteredRow.username, RegisteredRow, e) /\ RegisteredRow \in UserRow
      BY <1>2, RegisterWrites DEF RegisterInsert
    <2> QED
      BY <1>2, <2>1, RegisterWrites, WrittenKnown
  <1>3. ASSUME NEW e \in Endings, NEW token \in tokens, NEW id \in DOMAIN users,
               NEW status \in Statuses, UpdateStatus(token, id, status, e)
        PROVE  AllKnown' /\ HistoriesNext
    <2> DEFINE name == users[id].username
    <2>1. /\ Effect(id, StatusRow(id, status)) /\ StatusRow(id, status) \in UserRow
          /\ StatusRow(id, status).username = name
      BY <1>3, StatusWrites
    <2>2. Told(name, [told[name] EXCEPT !.status = status], e) /\ name \in Names
      BY <1>3, RowFields DEF UpdateStatus, IInv, TypeOK
    <2>3. CASE e = "ok" /\ name \in doubt
      <3>1. UNCHANGED <<told, doubt>>
        BY <2>2, <2>3 DEF Told
      <3>2. HistoriesNext
        BY <1>0, <3>1 DEF Histories, HistoriesNext
      <3>3. ASSUME NEW n \in Names \ doubt PROVE Known(n)'
        <4>1. Known(n) /\ n # name
          BY <1>0, <2>3, <3>3 DEF AllKnown
        <4> QED
          BY <2>1, <3>1, <4>1 DEF Known, Effect
      <3> QED
        BY <3>1, <3>2, <3>3 DEF AllKnown
    <2>4. CASE name \notin doubt
      <3>1. Known(name)
        BY <1>0, <2>2, <2>4 DEF AllKnown
      <3>2. told[name] = users[id]
        BY <3>1 DEF Known, IInv, TypeOK
      <3>3. Told(name, StatusRow(id, status), e)
        BY <2>2, <3>2 DEF StatusRow
      <3> QED
        BY <2>1, <3>3, WrittenKnown
    <2>5. CASE e # "ok"
      <3>1. Told(name, StatusRow(id, status), e)
        BY <2>2, <2>5 DEF Told
      <3> QED
        BY <2>1, <3>1, WrittenKnown
    <2> QED
      BY <2>3, <2>4, <2>5
  <1>4. ASSUME NEW e \in Endings, NEW t \in Tools, CommitTransaction(t, e)
        PROVE  AllKnown' /\ HistoriesNext
    <2>1. /\ Effect(tool[t].id, AdminRow(t)) /\ AdminRow(t) \in UserRow
          /\ AdminRow(t).username = tool[t].name /\ tool[t].name \in Names
      BY <1>4, CommitWrites
    <2>2. CASE e # "ok"
      <3>1. Told(AdminRow(t).username, AdminRow(t), e)
        BY <1>4, <2>1, <2>2 DEF CommitTransaction
      <3> QED
        BY <2>1, <3>1, WrittenKnown
    <2>3. CASE e = "ok"
      <3>1. told' = [told EXCEPT ![tool[t].name] = AdminRow(t)] /\ doubt' = doubt \ {tool[t].name}
        BY <1>4, <2>3 DEF CommitTransaction
      <3>2. HistoriesNext
        BY <1>0, <2>1, <3>1 DEF Histories, HistoriesNext
      <3>3. ASSUME NEW n \in Names \ doubt' PROVE Known(n)'
        <4>1. CASE n = tool[t].name
          <5>1. told'[n] = AdminRow(t)
            BY <1>0, <3>1, <4>1 DEF Histories
          <5> QED
            BY <2>1, <4>1, <5>1 DEF Known, Effect
        <4>2. CASE n # tool[t].name
          <5>1. Known(n) /\ told'[n] = told[n]
            BY <1>0, <3>1, <3>3, <4>2 DEF AllKnown, Histories
          <5> QED
            BY <2>1, <4>2, <5>1 DEF Known, Effect
        <4> QED
          BY <4>1, <4>2
      <3> QED
        BY <3>2, <3>3 DEF AllKnown
    <2> QED
      BY <2>2, <2>3
  <1> QED
    BY <1>1, <1>2, <1>3, <1>4
    DEF Next, vars, RegisterHandler, LoginHandler, FindUserIdByUsername, RegisterDuplicate,
        RegisterError, Expire, UpdateAdminUser, InsertAdminUser, ToolDuplicate, ToolError

\* A token is true when it is handed out, and rows keep what it says.
LEMMA TokensNext ==
    ASSUME IInv, [Next]_vars
    PROVE  TokensTruthful'
  <1> DEFINE True(token) == /\ token.id \in DOMAIN users'
                            /\ users'[token.id].username = token.username
                            /\ token.role = "admin" => users'[token.id].role = "admin"
  <1>0. \A token \in tokens : True(token)
    BY RowsStayNext DEF IInv, TokensTruthful, RowsStayStep
  <1>1. SUFFICES \A token \in tokens' : True(token)
    BY DEF TokensTruthful
  <1>2. CASE tokens' \subseteq tokens
    BY <1>0, <1>2
  <1>3. ASSUME NEW n \in Names, NEW p \in Passwords, LoginHandler(n, p)
        PROVE  \A token \in tokens' : True(token)
    <2>1. /\ UNCHANGED users
          /\ \E id \in DOMAIN users : tokens' = tokens \cup {GenerateJwt(id, users[id].username, users[id].role)}
      BY <1>3 DEF LoginHandler, GetByUsername
    <2> QED
      BY <1>0, <2>1 DEF GenerateJwt
  <1>4. ASSUME NEW e \in Endings, RegisterInsert(e) PROVE \A token \in tokens' : True(token)
    <2>1. tokens' \subseteq tokens \cup {GenerateJwt(nextId, serving.name, "student")}
      BY <1>4 DEF RegisterInsert
    <2>2. True(GenerateJwt(nextId, serving.name, "student"))
      BY <1>4, RegisterWrites DEF GenerateJwt, Effect
    <2> QED
      BY <1>0, <2>1, <2>2
  <1> QED
    BY <1>2, <1>3, <1>4
    DEF Next, vars, RegisterHandler, FindUserIdByUsername, RegisterDuplicate, RegisterError, Expire,
        UpdateStatus, UpdateAdminUser, InsertAdminUser, CommitTransaction, ToolDuplicate, ToolError

\* What is left of the types: the request that is served and the counter.
LEMMA ServingTyped ==
    ASSUME IInv, [Next]_vars
    PROVE  serving' \in [name : Names, password : Passwords] \cup {Idle} /\ requests' \in 0..MaxRequests
  <1>0. serving \in [name : Names, password : Passwords] \cup {Idle} /\ requests \in 0..MaxRequests
        /\ MaxRequests \in Nat
    BY AccountsAssumption DEF IInv, TypeOK
  <1>1. ASSUME NEW n \in Names, NEW p \in Passwords, RegisterHandler(n, p)
        PROVE  serving' \in [name : Names, password : Passwords] \cup {Idle} /\ requests' \in 0..MaxRequests
    BY <1>0, <1>1 DEF RegisterHandler
  <1>2. ASSUME NEW e \in Endings, NEW token \in tokens, NEW id \in DOMAIN users,
               NEW status \in Statuses, UpdateStatus(token, id, status, e)
        PROVE  serving' \in [name : Names, password : Passwords] \cup {Idle} /\ requests' \in 0..MaxRequests
    BY <1>0, <1>2 DEF UpdateStatus
  <1>3. CASE UNCHANGED requests /\ (UNCHANGED serving \/ serving' = Idle)
    BY <1>0, <1>3
  <1> QED
    BY <1>1, <1>2, <1>3
    DEF Next, vars, LoginHandler, FindUserIdByUsername, RegisterInsert, RegisterDuplicate, RegisterError,
        Expire, UpdateAdminUser, InsertAdminUser, CommitTransaction, ToolDuplicate, ToolError
-----------------------------------------------------------------------------
LEMMA IInvInit == Init => IInv
  <1> SUFFICES ASSUME Init PROVE IInv
    OBVIOUS
  <1>0. DOMAIN users = {} /\ users \in [DOMAIN users -> UserRow] /\ tokens = {} /\ doubt = {}
    BY DEF Init
  <1>1. \A t \in Tools : tool[t].pc = "start" /\ ~tool[t].found /\ tool[t] \in ToolStates
    BY DEF Init, NewTool, ToolStates
  <1>2. Shape
    BY <1>0, <1>1 DEF Init, Shape
  <1>3. TypeOK
    BY <1>0, <1>1, AccountsAssumption DEF Init, TypeOK
  <1>4. Found /\ Reserved /\ Alone
    BY <1>1 DEF Found, Reserved, Alone
  <1>5. AllKnown /\ TokensTruthful
    BY <1>0 DEF Init, AllKnown, Known, TokensTruthful
  <1> QED
    BY <1>2, <1>3, <1>4, <1>5 DEF IInv

LEMMA IInvNext == IInv /\ [Next]_vars => IInv'
  <1> SUFFICES ASSUME IInv, [Next]_vars PROVE IInv'
    OBVIOUS
  <1>1. Shape' /\ Found' /\ Reserved' /\ Alone'
    BY ShapeNext, FoundNext, ReservedNext, AloneNext
  <1>2. TypeOK'
    <2>1. \A t \in Tools : tool'[t].pc \in {"start", "found", "written", "done", "failed"}
      BY <1>1 DEF Shape, ToolStates
    <2>2. \A t \in Tools : tool'[t].found => tool'[t].id \in DOMAIN users'
      BY <1>1 DEF Found
    <2> QED
      BY <2>1, <2>2, TableTyped, KnownNext, ServingTyped DEF TypeOK, TableTypesNext, HistoriesNext
  <1> QED
    BY <1>1, <1>2, KnownNext, TokensNext DEF IInv

THEOREM IInvHolds == Spec => []IInv
  BY IInvInit, IInvNext, PTL DEF Spec

(* The table and the tools keep their types, ids stay below AUTO_INCREMENT, *)
(* usernames stay unique and a run of the tool keeps the row it has found.  *)
THEOREM TypeCorrect == Spec => []TypeOK
  <1>1. IInv => TypeOK
    BY DEF IInv
  <1> QED
    BY <1>1, IInvHolds, PTL

(* An account is what the last writer that was answered with success made   *)
(* it, in every interleaving of the handlers with runs of register_admin.   *)
THEOREM AccountsStayAsTold == Spec => []AccountsAsTold
  <1>1. IInv => AccountsAsTold
    BY ToldIsKnown DEF IInv
  <1> QED
    BY <1>1, IInvHolds, PTL

(* The claims of a token that has not expired are true of the table, which  *)
(* verify_jwt never asks.                                                   *)
THEOREM TokensStayTruthful == Spec => []TokensTruthful
  <1>1. IInv => TokensTruthful
    BY DEF IInv
  <1> QED
    BY <1>1, IInvHolds, PTL

(* No step removes an account, renames it or takes the administrator's role *)
(* from it: why a token can be trusted until it expires.                    *)
THEOREM RowsStay == Spec => [][RowsStayStep]_vars
  <1>1. IInv /\ [Next]_vars => RowsStayStep
    BY RowsStayNext
  <1> QED
    BY <1>1, IInvHolds, PTL DEF Spec
=============================================================================
