------------------------------ MODULE Accounts ------------------------------
(***************************************************************************)
(* The accounts of the panel: the requests of route_api_admin.c that list, *)
(* create, delete, re-rank and re-key them and clear the audit log, and    *)
(* the account ar-ws/main.c creates at start-up.  Every connection has its *)
(* thread and no request holds a lock across its database calls, so what a *)
(* request read of an account may be out of date when it acts on it; the   *)
(* orchestrator kills the server between any two steps.                    *)
(*                                                                         *)
(* user_manager.c and database.c are not in the repository: they are       *)
(* modelled from their calls and from schema.sql, where a username is      *)
(* unique.  What db_get_user_role says of an unknown name is left open.    *)
(*                                                                         *)
(* A role is any int a body carries: neither the handlers nor schema.sql    *)
(* check that it is one of the three that have a name.                     *)
(*                                                                         *)
(* Of the audit log the model keeps what the last event about an account   *)
(* says of it, which is all that is needed to compare the two.             *)
(***************************************************************************)
EXTENDS Integers

CONSTANTS
    User,       \* usernames
    Master,     \* "admin"
    AdminReq,   \* connections that serve such a request at the same time
    Absent,     \* no account; what an event says of a deleted one
    Unsaid,     \* the log has no event about the account
    Role,       \* roles an account may get: 0 ROOT, 1 ADMIN, 2 SUP, any other int
    NoRole,     \* what db_get_user_role may answer for an unknown name
    MaxAdmin    \* bound: requests ever served

ASSUME UserAssumption == Master \in User /\ Absent \notin User
ASSUME RoleAssumption == 0 \in Role /\ Role \subseteq Int
ASSUME NoRoleNames == {Absent, Unsaid} \cap Int = {} /\ Absent # Unsaid
ASSUME NoRoleAssumption == NoRole \subseteq Int /\ MaxAdmin \in Nat

VARIABLES
    users,      \* the table: the role of each account
    events,     \* the audit log: what the last event about an account says
    archive,    \* audit_archive.log: "empty", or what came of the last try to
                \* add a line
    areq,       \* what each connection is doing
    up,         \* the server runs
    blurred,    \* history: accounts whose last changes overlapped or lost an event
    admitted    \* history: requests that were let in

accountVars == <<users, events, archive, areq, up, blurred, admitted>>

Op == {"list", "audit", "create", "delete", "role", "update", "clear"}
Step == {"forbid", "sudo", "read", "check", "act", "log", "archive", "alert", "clear"}
AIdle == [step |-> "idle"]

\* The locals of a handler: auth.user and auth.role as authenticate_request
\* read them, the target and the role of the body; history: whether either
\* account changed since it was read.
AdminRequest == [step : Step, op : Op, user : User, role : Role, target : User, arg : Role,
                 moved : BOOLEAN]

AccountsTypeOK ==
    /\ users \in [User -> Role \cup {Absent}]
    /\ events \in [User -> Role \cup {Absent, Unsaid}]
    /\ archive \in {"empty", "line", "failed"} /\ up \in BOOLEAN /\ admitted \in Nat
    /\ areq \in [AdminReq -> AdminRequest \cup {AIdle}]
    /\ blurred \subseteq User

\* schema.sql may have created the master account; else the table is empty.
AccountsInit ==
    /\ \E r \in {0, Absent} : users = [u \in User |-> IF u = Master THEN r ELSE Absent]
    /\ events = [u \in User |-> Unsaid]
    /\ archive = "empty" /\ admitted = 0 /\ up = FALSE
    /\ areq = [q \in AdminReq |-> AIdle]
    /\ blurred = {}

-----------------------------------------------------------------------------
Stored(u) == users[u] # Absent
Doing(q, step) == areq[q] # AIdle /\ areq[q].step = step
TellsRole(q) == areq[q].op \in {"create", "delete", "role"}
Pending(u) == {q \in AdminReq : Doing(q, "log") /\ TellsRole(q) /\ areq[q].target = u}

Deciding(q) == \E step \in {"sudo", "check", "act"} : Doing(q, step)

\* The lowest rank a handler accepts.
Rank(op) == IF op \in {"create", "delete", "role"} THEN 0 ELSE 1

Goto(q, step) == areq' = [areq EXCEPT ![q].step = step]
Reply(q) == areq' = [areq EXCEPT ![q] = AIdle]

\* q changes the row of its target to r and goes on to log it; those at work
\* on this account, or in its name, are told apart.
Change(q, r) ==
    LET t == areq[q].target IN
    /\ users' = [users EXCEPT ![t] = r]
    /\ areq' = [p \in AdminReq |->
                  CASE p = q -> [areq[q] EXCEPT !.step = "log"]
                    [] p # q /\ Deciding(p) -> [areq[p] EXCEPT !.moved =
                           @ \/ (t \in {areq[p].user, areq[p].target} /\ users[t] # r)]
                    [] OTHER -> areq[p]]
    /\ blurred' = CASE ~TellsRole(q) -> blurred
                    [] TellsRole(q) /\ Pending(t) # {} -> blurred \cup {t}
                    [] OTHER -> blurred \ {t}
    /\ UNCHANGED <<events, archive, up, admitted>>

\* The first step of a request of a user with that rank, 0 being the highest.
StartStep(rank, lowest, op) ==
    CASE rank > lowest -> "forbid"
      [] rank <= lowest /\ op \in {"list", "audit"} -> "read"
      [] OTHER -> "sudo"

\* Wrong: any ADMIN may create, delete and re-rank accounts.
authenticateAnyAdmin(q) ==
    /\ up /\ areq[q] = AIdle /\ admitted < MaxAdmin
    /\ admitted' = admitted + 1
    /\ \E u \in User, op \in Op, t \in User, a \in Role :
          /\ Stored(u)
          /\ areq' = [areq EXCEPT ![q] =
                [step |-> StartStep(users[u], 1, op), op |-> op,
                 user |-> u, role |-> users[u], target |-> t, arg |-> a, moved |-> FALSE]]
    /\ UNCHANGED <<users, events, archive, up, blurred>>

\* A request with a valid session; any other is answered 401 at once.  The list
\* and the log need no password.
authenticate_request(q) ==
    /\ up /\ areq[q] = AIdle /\ admitted < MaxAdmin
    /\ admitted' = admitted + 1
    /\ \E u \in User, op \in Op, t \in User, a \in Role :
          /\ Stored(u)
          /\ op \notin {"create", "role"} => a = 0
          /\ op \in {"list", "audit", "clear"} => t = Master
          /\ areq' = [areq EXCEPT ![q] =
                [step |-> StartStep(users[u], Rank(op), op), op |-> op,
                 user |-> u, role |-> users[u], target |-> t, arg |-> a, moved |-> FALSE]]
    /\ UNCHANGED <<users, events, archive, up, blurred>>

\* 403 for want of rank, or the list of the accounts or of the events.
answer(q) ==
    /\ Doing(q, "forbid") \/ Doing(q, "read")
    /\ Reply(q)
    /\ UNCHANGED <<users, events, archive, up, blurred, admitted>>

FirstStep(op) == CASE op = "update" -> "check" [] op = "clear" -> "archive" [] OTHER -> "act"

\* The password is asked of an account that must still be there.
verify_sudo(q) ==
    /\ Doing(q, "sudo")
    /\ \/ Stored(areq[q].user) /\ Goto(q, FirstStep(areq[q].op))
       \/ Reply(q)                                          \* 401
    /\ UNCHANGED <<users, events, archive, up, blurred, admitted>>

\* Wrong: whatever the database answers, the event is written and 200 sent.
db_add_userLoggedAnyway(q) ==
    LET t == areq[q].target IN
    /\ Doing(q, "act") /\ areq[q].op = "create"
    /\ Change(q, IF Stored(t) THEN users[t] ELSE areq[q].arg)

db_add_user(q) ==
    LET t == areq[q].target IN
    /\ Doing(q, "act") /\ areq[q].op = "create"
    /\ \/ ~Stored(t) /\ Change(q, areq[q].arg)
       \/ Reply(q) /\ UNCHANGED <<users, events, archive, up, blurred, admitted>>  \* 400

\* Wrong: the master account can be deleted.
db_delete_userMaster(q) ==
    LET t == areq[q].target IN
    /\ Doing(q, "act") /\ areq[q].op = "delete"
    /\ \/ Stored(t) /\ Change(q, Absent)
       \/ Reply(q) /\ UNCHANGED <<users, events, archive, up, blurred, admitted>>

db_delete_user(q) ==
    LET t == areq[q].target IN
    /\ Doing(q, "act") /\ areq[q].op = "delete"
    /\ \/ t # Master /\ Stored(t) /\ Change(q, Absent)
       \/ Reply(q) /\ UNCHANGED <<users, events, archive, up, blurred, admitted>>  \* 403, 404

db_change_role(q) ==
    LET t == areq[q].target IN
    /\ Doing(q, "act") /\ areq[q].op = "role"
    /\ \/ t # Master /\ Stored(t) /\ Change(q, areq[q].arg)
       \/ Reply(q) /\ UNCHANGED <<users, events, archive, up, blurred, admitted>>  \* 403, 404

\* The role of the target decides whether an ADMIN may set its password.
db_get_user_role(q) ==
    LET t == areq[q].target
        known == IF Stored(t) THEN {users[t]} ELSE NoRole
    IN  /\ Doing(q, "check")
        /\ \E r \in known : IF areq[q].role = 1 /\ r <= 1 THEN Reply(q) ELSE Goto(q, "act")
        /\ UNCHANGED <<users, events, archive, up, blurred, admitted>>

\* Passwords are not modelled: the row stays as it is.
db_update_password(q) ==
    LET t == areq[q].target IN
    /\ Doing(q, "act") /\ areq[q].op = "update"
    /\ \/ Stored(t) /\ Change(q, users[t])
       \/ Reply(q) /\ UNCHANGED <<users, events, archive, up, blurred, admitted>>  \* 404

\* What an event of q says of its target: PASSWORD_RESET says no role.
Says(q) == CASE areq[q].op = "delete" -> Absent
             [] areq[q].op \in {"create", "role"} -> areq[q].arg
             [] OTHER -> events[areq[q].target]

\* The result of db_log_event is not looked at; 200 is answered either way.
db_log_event(q) ==
    /\ Doing(q, "log")
    /\ \/ events' = [events EXCEPT ![areq[q].target] = Says(q)] /\ UNCHANGED blurred
       \/ /\ blurred' = IF TellsRole(q) THEN blurred \cup {areq[q].target} ELSE blurred
          /\ UNCHANGED events
    /\ Reply(q)
    /\ UNCHANGED <<users, archive, up, admitted>>

-----------------------------------------------------------------------------
(* Clearing the log: a line in a file, an event, then all events go.        *)

\* Wrong: the log is emptied before the line is written.
archive_lineLast(q) ==
    /\ Doing(q, "archive")
    /\ Goto(q, "clear")
    /\ UNCHANGED <<users, events, archive, up, blurred, admitted>>

\* fopen may fail; nothing is made of that.
archive_line(q) ==
    /\ Doing(q, "archive")
    /\ archive' \in {"line", IF archive = "line" THEN "line" ELSE "failed"}
    /\ Goto(q, "alert")
    /\ UNCHANGED <<users, events, up, blurred, admitted>>

\* The alert is one more event of the log that the next step empties.
log_alert(q) ==
    /\ Doing(q, "alert")
    /\ Goto(q, "clear")
    /\ UNCHANGED <<users, events, archive, up, blurred, admitted>>

db_clear_all_logs(q) ==
    /\ Doing(q, "clear")
    /\ \/ events' = [u \in User |-> Unsaid]
       \/ UNCHANGED events                                \* 500
    /\ Reply(q)
    /\ UNCHANGED <<users, archive, up, blurred, admitted>>

-----------------------------------------------------------------------------
\* Start-up: with ADMIN_PASS_HASH given, an empty table gets the master.
main_bootstrap ==
    /\ ~up /\ up' = TRUE
    /\ \E given \in BOOLEAN :
          users' = IF given /\ \A u \in User : ~Stored(u) THEN [users EXCEPT ![Master] = 0]
                   ELSE users
    /\ UNCHANGED <<events, archive, areq, blurred, admitted>>

\* The server is killed: its requests end where they are.
Killed ==
    /\ up /\ up' = FALSE
    /\ areq' = [q \in AdminReq |-> AIdle]
    /\ blurred' = blurred \cup {u \in User : Pending(u) # {}}
    /\ UNCHANGED <<users, events, archive, admitted>>

Administer(q) ==
    \/ authenticate_request(q) \/ answer(q) \/ verify_sudo(q)
    \/ db_add_user(q) \/ db_delete_user(q) \/ db_change_role(q)
    \/ db_get_user_role(q) \/ db_update_password(q) \/ db_log_event(q)
    \/ archive_line(q) \/ log_alert(q) \/ db_clear_all_logs(q)

AccountsNext == main_bootstrap \/ Killed \/ \E q \in AdminReq : Administer(q)

AccountsSpec == AccountsInit /\ [][AccountsNext]_accountVars

-----------------------------------------------------------------------------
\* A request that has just changed an account.
Changed(q) == Doing(q, "act") /\ areq'[q] = [areq[q] EXCEPT !.step = "log"]

\* Accounts are changed within the rank the requester has at that moment: only
\* a ROOT creates, deletes and re-ranks, an ADMIN sets the passwords of those
\* below it only.  A rank below 0 counts as ROOT, and a ROOT can give one, with
\* which the account is its equal; one above 2 counts as SUP.  Excepted are
\* requests during which the requester's account or the target was changed: the
\* roles they go by were read before (a ROOT taken down meanwhile still acts).
WithinRank ==
    [][\A q \in AdminReq : Changed(q) /\ ~areq[q].moved =>
          LET rank == users[areq[q].user] IN
          \/ rank <= 0
          \/ rank = 1 /\ areq[q].op = "update" /\ users[areq[q].target] >= 2]_accountVars

\* The audit log tells the state of the accounts: the last event about one
\* says its role or its absence, unless two changes of it overlapped (their
\* events may come in the other order) or an event was lost to a failed
\* write or a killed server.
AuditTellsRole ==
    \A u \in User \ blurred :
        Pending(u) = {} /\ events[u] # Unsaid => events[u] = users[u]

\* No sequence of requests and restarts takes the last ROOT away: while the
\* table has any account, "admin" is there as ROOT.
MasterStays == (\E u \in User : Stored(u)) => users[Master] = 0

\* The audit log is never emptied without a line in the archive file, which
\* the clearing cannot erase, or a failed try to write one, whatever step the
\* server is killed at.
ClearLeavesTrace ==
    [][(\E u \in User : events[u] # Unsaid /\ events'[u] = Unsaid) => archive # "empty"]_accountVars

\* docs.md: ADMIN is for "User management, logs", so none of the requests of
\* route_api_admin.c is forbidden to an ADMIN.
AdminsManageUsers == \A q \in AdminReq : Doing(q, "forbid") => areq[q].role > 1
=============================================================================
