-------------------------------- MODULE Accounts --------------------------------
(***************************************************************************)
(* User accounts: the handlers of /api/auth (handler/auth_handler.cpp),    *)
(* the status of a user (handler/admin_handler.cpp), UserDao and the       *)
(* tokens of middleware/auth.cpp in the server process, and the program    *)
(* tools/register_admin.cpp, which administrators run beside it on the     *)
(* same database.                                                          *)
(*                                                                         *)
(* The server's handlers run one at a time, each statement in a            *)
(* transaction of its own; a run of the tool is one transaction.  A        *)
(* statement may fail, and one that takes effect may have its answer lost. *)
(* A process that is killed between two statements is not told apart from  *)
(* one whose next statement fails: tokens are signed with a secret of the  *)
(* configuration, so a restart leaves nothing behind but the table.        *)
(***************************************************************************)
EXTENDS Integers, FiniteSets, FiniteSetsExt

CONSTANTS
    Names,       \* user names (one for all that the table's collation equates)
    Passwords,
    Tools,       \* runs of register_admin
    MaxRequests, \* bound on requests that write
    Faults       \* subset of {"sql"}

ASSUME AccountsAssumption ==
    /\ IsFiniteSet(Names) /\ IsFiniteSet(Passwords) /\ IsFiniteSet(Tools)
    /\ MaxRequests \in Nat
    /\ Faults \subseteq {"sql"}

Statuses == {"active", "banned"}

VARIABLES
    users,    \* table users, committed: a function from ids to rows
    nextId,   \* AUTO_INCREMENT of users
    serving,  \* the registration between its SELECT and its INSERT, or Idle
    tool,     \* per run of the tool: its state and its transaction
    tokens,   \* tokens that have been handed out and have not expired
    requests, \* number of requests that write
    told,     \* history, per name: the row its writers were told of, or NoRow
    doubt     \* history: names for which a write took effect unanswered

vars == <<users, nextId, serving, tool, tokens, requests, told, doubt>>

Row(name, password, role, status) ==
    [username |-> name, password |-> password, role |-> role, status |-> status]
NoRow == Row("none", "none", "none", "none")

Idle == [name |-> "none", password |-> "none"]
NewTool == [pc |-> "start", name |-> "none", password |-> "none", id |-> 0, found |-> FALSE]

Init ==
    /\ users = [id \in {} |-> NoRow] /\ nextId = 1
    /\ serving = Idle
    /\ tool = [t \in Tools |-> NewTool]
    /\ tokens = {}
    /\ requests = 0
    /\ told = [n \in Names |-> NoRow] /\ doubt = {}

\* How a statement that takes effect may end: it says so, or the answer is lost.
Endings == {"ok"} \cup (IF "sql" \in Faults THEN {"lost"} ELSE {})

\* SELECT ... WHERE username=?: the ids of the rows, none or one.
GetByUsername(name) == {id \in DOMAIN users : users[id].username = name}

WithRow(id, row) == [i \in DOMAIN users \cup {id} |-> IF i = id THEN row ELSE users[i]]

\* INSERT INTO users.
CreateUser(row) == users' = WithRow(nextId, row) /\ nextId' = nextId + 1

\* UPDATE users SET status=?.
SetStatus(id, status) == users' = [users EXCEPT ![id].status = status]

\* Mutant: the transaction is still open when the tool has reported success.
Locked_Open(name) == \E t \in Tools : tool[t].pc \in {"written", "done"} /\ tool[t].name = name

\* A transaction that has written the row and not ended keeps it, and its
\* name, from other writers.
Locked(name) == \E t \in Tools : tool[t].pc = "written" /\ tool[t].name = name

\* A write had ending; what is now known of the name.
Told(name, row, ending) ==
    /\ told' = IF ending = "ok" /\ name \notin doubt THEN [told EXCEPT ![name] = row] ELSE told
    /\ doubt' = IF ending = "lost" THEN doubt \cup {name} ELSE doubt
-----------------------------------------------------------------------------
(***************************************************************************)
(* POST /api/auth/register, /login and PUT /api/admin/users/<id>/status.   *)
(***************************************************************************)
GenerateJwt(id, name, role) == [id |-> id, username |-> name, role |-> role]

\* The SELECT: a name that is taken is refused (409).
RegisterHandler(name, password) ==
    /\ serving = Idle
    /\ requests < MaxRequests /\ requests' = requests + 1
    /\ GetByUsername(name) = {}
    /\ serving' = [name |-> name, password |-> password]
    /\ UNCHANGED <<users, nextId, tool, tokens, told, doubt>>

RegisteredRow == Row(serving.name, serving.password, "student", "active")

\* Mutant: the table has no unique index on username.
RegisterInsert_NoIndex(ending) ==
    /\ serving # Idle /\ ~Locked(serving.name)
    /\ CreateUser(RegisteredRow)
    /\ tokens' = IF ending = "ok" THEN tokens \cup {GenerateJwt(nextId, serving.name, "student")}
                 ELSE tokens
    /\ Told(serving.name, RegisteredRow, ending)
    /\ serving' = Idle
    /\ UNCHANGED <<tool, requests>>

\* Mutant: the token names the number of accounts instead of mysql_insert_id.
RegisterInsert_Counted(ending) ==
    /\ serving # Idle
    /\ ~Locked(serving.name) /\ GetByUsername(serving.name) = {}
    /\ CreateUser(RegisteredRow)
    /\ tokens' = IF ending = "ok"
                 THEN tokens \cup {GenerateJwt(Cardinality(DOMAIN users) + 1, serving.name, "student")}
                 ELSE tokens
    /\ Told(serving.name, RegisteredRow, ending)
    /\ serving' = Idle
    /\ UNCHANGED <<tool, requests>>

\* The INSERT, and the token that answers it.
RegisterInsert(ending) ==
    /\ serving # Idle
    /\ ~Locked(serving.name) /\ GetByUsername(serving.name) = {}
    /\ CreateUser(RegisteredRow)
    /\ tokens' = IF ending = "ok" THEN tokens \cup {GenerateJwt(nextId, serving.name, "student")}
                 ELSE tokens
    /\ Told(serving.name, RegisteredRow, ending)
    /\ serving' = Idle
    /\ UNCHANGED <<tool, requests>>

\* register_admin has taken the name since the SELECT: 500.
RegisterDuplicate ==
    /\ serving # Idle /\ ~Locked(serving.name) /\ GetByUsername(serving.name) # {}
    /\ serving' = Idle
    /\ UNCHANGED <<users, nextId, tool, tokens, requests, told, doubt>>

\* A fault, which includes a lock that is not given up in time.
RegisterError ==
    /\ serving # Idle /\ "sql" \in Faults
    /\ serving' = Idle
    /\ UNCHANGED <<users, nextId, tool, tokens, requests, told, doubt>>

\* A wrong password, like an unknown name, is answered 401.
LoginHandler(name, password) ==
    /\ serving = Idle
    /\ \E id \in GetByUsername(name) :
          /\ users[id].password = password
          /\ tokens' = tokens \cup {GenerateJwt(id, users[id].username, users[id].role)}
    /\ UNCHANGED <<users, nextId, serving, tool, requests, told, doubt>>

\* A token expires.
Expire(token) ==
    /\ tokens' = tokens \ {token}
    /\ UNCHANGED <<users, nextId, serving, tool, requests, told, doubt>>

\* The signature is right and the token has not expired: it was handed out
\* here, by this process or an earlier one.
VerifyJwt(token) == token \in tokens

RequireAdmin(token) == VerifyJwt(token) /\ token.role = "admin"

\* A request that fails, or changes nothing (404), leaves everything as it is.
UpdateStatus(token, id, status, ending) ==
    LET name == users[id].username
    IN  /\ serving = Idle /\ RequireAdmin(token)
        /\ requests < MaxRequests /\ requests' = requests + 1
        /\ ~Locked(name) /\ users[id].status # status
        /\ SetStatus(id, status)
        /\ Told(name, [told[name] EXCEPT !.status = status], ending)
        /\ UNCHANGED <<nextId, serving, tool, tokens>>
-----------------------------------------------------------------------------
(***************************************************************************)
(* register_admin.                                                         *)
(***************************************************************************)

\* START TRANSACTION and the SELECT, a read that takes no lock.
FindUserIdByUsername(t, name, password) ==
    /\ tool[t].pc = "start"
    /\ tool' = [tool EXCEPT ![t] =
                   [pc |-> "found", name |-> name, password |-> password,
                    id |-> IF GetByUsername(name) = {} THEN 0 ELSE CHOOSE id \in GetByUsername(name) : TRUE,
                    found |-> GetByUsername(name) # {}]]
    /\ UNCHANGED <<users, nextId, serving, tokens, requests, told, doubt>>

\* All columns of the row that was found.
UpdateAdminUser(t) ==
    /\ tool[t].pc = "found" /\ tool[t].found
    /\ ~Locked(tool[t].name)
    /\ tool' = [tool EXCEPT ![t].pc = "written"]
    /\ UNCHANGED <<users, nextId, serving, tokens, requests, told, doubt>>

InsertAdminUser(t) ==
    /\ tool[t].pc = "found" /\ ~tool[t].found
    /\ ~Locked(tool[t].name) /\ GetByUsername(tool[t].name) = {}
    /\ tool' = [tool EXCEPT ![t].pc = "written", ![t].id = nextId]
    /\ nextId' = nextId + 1
    /\ UNCHANGED <<users, serving, tokens, requests, told, doubt>>

\* A run that is over.
Ended(t, pc) == [NewTool EXCEPT !.pc = pc, !.name = tool[t].name]

AdminRow(t) == Row(tool[t].name, tool[t].password, "admin", "active")

\* Mutant: the commit is left out after an UPDATE.
CommitTransaction_OnInsert(t, ending) ==
    /\ tool[t].pc = "written"
    /\ tool' = [tool EXCEPT ![t] = Ended(t, IF ending = "ok" THEN "done" ELSE "failed")]
    /\ users' = IF tool[t].found THEN users ELSE WithRow(tool[t].id, AdminRow(t))
    /\ Told(tool[t].name, AdminRow(t), ending)
    /\ UNCHANGED <<nextId, serving, tokens, requests>>

\* COMMIT.  When its answer is lost the tool reports a failure.  A success
\* settles what is known of the name: the row has been written as a whole.
CommitTransaction(t, ending) ==
    /\ tool[t].pc = "written"
    /\ tool' = [tool EXCEPT ![t] = Ended(t, IF ending = "ok" THEN "done" ELSE "failed")]
    /\ users' = WithRow(tool[t].id, AdminRow(t))
    /\ IF ending = "ok"
       THEN /\ told' = [told EXCEPT ![tool[t].name] = AdminRow(t)]
            /\ doubt' = doubt \ {tool[t].name}
       ELSE Told(tool[t].name, AdminRow(t), ending)
    /\ UNCHANGED <<nextId, serving, tokens, requests>>

\* The name was registered since the SELECT.
ToolDuplicate(t) ==
    /\ tool[t].pc = "found" /\ ~tool[t].found
    /\ ~Locked(tool[t].name) /\ GetByUsername(tool[t].name) # {}
    /\ tool' = [tool EXCEPT ![t] = Ended(t, "failed")]
    /\ UNCHANGED <<users, nextId, serving, tokens, requests, told, doubt>>

\* A statement fails: the connection is closed and the transaction rolled back.
ToolError(t) ==
    /\ tool[t].pc \in {"found", "written"} /\ "sql" \in Faults
    /\ tool' = [tool EXCEPT ![t] = Ended(t, "failed")]
    /\ UNCHANGED <<users, nextId, serving, tokens, requests, told, doubt>>

ToolRuns(t) ==
    \/ UpdateAdminUser(t) \/ InsertAdminUser(t)
    \/ CommitTransaction(t, "ok") \/ ToolDuplicate(t)

ServerRuns == RegisterInsert("ok") \/ RegisterDuplicate

Next ==
    \/ \E n \in Names, p \in Passwords :
          \/ RegisterHandler(n, p) \/ LoginHandler(n, p)
          \/ \E t \in Tools : FindUserIdByUsername(t, n, p)
    \/ RegisterDuplicate \/ RegisterError
    \/ \E e \in Endings :
          \/ RegisterInsert(e)
          \/ \E token \in tokens, id \in DOMAIN users, status \in Statuses :
                UpdateStatus(token, id, status, e)
          \/ \E t \in Tools : CommitTransaction(t, e)
    \/ \E token \in tokens : Expire(token)
    \/ \E t \in Tools :
          UpdateAdminUser(t) \/ InsertAdminUser(t) \/ ToolDuplicate(t) \/ ToolError(t)

\* The server and a tool that has been started run on; nothing has to fail.
Fairness == WF_vars(ServerRuns) /\ \A t \in Tools : WF_vars(ToolRuns(t))

Spec == Init /\ [][Next]_vars /\ Fairness
-----------------------------------------------------------------------------
UserRow ==
    [username : Names, password : Passwords, role : {"student", "admin"}, status : Statuses]

\* Type invariant; usernames are unique (the schema's index).
TypeOK ==
    /\ nextId \in Nat \ {0} /\ DOMAIN users \subseteq 1..(nextId - 1)
    /\ \A id \in DOMAIN users : users[id] \in UserRow
    /\ \A i, j \in DOMAIN users : users[i].username = users[j].username => i = j
    /\ serving \in [name : Names, password : Passwords] \cup {Idle}
    /\ \A t \in Tools :
          /\ tool[t].pc \in {"start", "found", "written", "done", "failed"}
          /\ tool[t].found => tool[t].id \in DOMAIN users
    /\ requests \in 0..MaxRequests
    /\ told \in [Names -> UserRow \cup {NoRow}] /\ doubt \subseteq Names

\* docs/SPEC.md: whoever has registered with success can log in.  An account
\* is what the last writer that was answered with success made it
\* (registration, status, register_admin), however their statements overlap
\* and whichever of them fails; only an answer that was lost leaves a doubt.
\* A name nobody was told of is free.
AccountsAsTold ==
    \A n \in Names \ doubt :
        {users[id] : id \in GetByUsername(n)} = {told[n]} \ {NoRow}

\* The claims of a token hold as long as it is valid: its id is the account of
\* its username, and an admin's token belongs to an admin, although the
\* middleware never asks the table and ids are handed out while transactions
\* of register_admin are open or rolled back.
TokensTruthful ==
    \A token \in tokens :
        /\ token.id \in DOMAIN users
        /\ users[token.id].username = token.username
        /\ token.role = "admin" => users[token.id].role = "admin"

\* The only thread that serves HTTP is blocked by a lock of register_admin
\* for as long as that takes, and runs of register_admin by each other; none
\* of them waits for ever.
NobodyWaits ==
    /\ serving # Idle ~> serving = Idle
    /\ \A t \in Tools : tool[t].pc \in {"found", "written"} ~> tool[t].pc \in {"done", "failed"}
=============================================================================
