------------------------------ MODULE Accounts ------------------------------
(***************************************************************************)
(* User administration (backend/app/api/routes/users.py, api/deps.py,      *)
(* auth/cli.py) over PostgreSQL at READ COMMITTED: several administrators  *)
(* change accounts at once, one action per SQL statement that matters.     *)
(* An account that is removed and created again has another id; a request  *)
(* names accounts by id.                                                   *)
(***************************************************************************)
EXTENDS Integers, FiniteSets

CONSTANTS
  Users, Admins,   \* the logins, and those that are administrators at first
  Newcomer,        \* a login without an account at first
  AdminRequests,        \* requests of the API, numbered in the order they come in
  CliUsers,        \* the logins the command line tool is used for
  MaxCli           \* bound on its uses

ASSUME AccountsAssumption == CliUsers \subseteq Users

VARIABLES
  account,  \* committed rows: [role, active, id], or NoAccount
  born,     \* ids given so far
  stage, request, seen,
  cli,
  (* history *)
  crossed   \* requests in progress during which another change was committed

accountVars == <<account, born, stage, request, seen, cli, crossed>>

NoAccount == [role |-> "none", active |-> "no", id |-> 0]
Roles == {"viewer", "admin"}
NoChange == [kind |-> "none"]

AccountsInit ==
  /\ account = [u \in Users |->
       IF u = Newcomer THEN NoAccount
       ELSE [role |-> IF u \in Admins THEN "admin" ELSE "viewer", active |-> "yes", id |-> 1]]
  /\ born = 1
  /\ stage = [r \in AdminRequests |-> "new"]
  /\ request = [r \in AdminRequests |-> NoChange]
  /\ seen = [r \in AdminRequests |-> NoAccount]
  /\ cli = 0
  /\ crossed = {}

(* current_user and require_role(ADMIN): the row is read on every request. *)
IsAdmin(row) == row.role = "admin" /\ row.active = "yes"

Active(rows) == {u \in Users : rows[u].role = "admin" /\ rows[u].active = "yes"}
Done == {"ok", "unauthorized", "absent", "conflict", "error"}
Move(r, label) == stage' = [stage EXCEPT ![r] = label]

(* A request ends: its session and what it read are gone. *)
Answer(r, answer) ==
  /\ Move(r, answer)
  /\ request' = [request EXCEPT ![r] = NoChange]
  /\ seen' = [seen EXCEPT ![r] = NoAccount]

(* What the body of a request asks for: PATCH with a role, an activity, or *)
(* only a password ("keep" leaves a column alone).                         *)
Changes ==
  [kind : {"update"}, role : Roles \cup {"keep"}, active : {"yes", "no", "keep"}]
  \cup [kind : {"delete"}, role : {"keep"}, active : {"keep"}]
  \cup [kind : {"create"}, role : Roles, active : {"yes"}]

-----------------------------------------------------------------------------
(* A request of the account `by`, authorised before its handler runs. *)
Authorize(r, by, u, change) ==
  /\ stage[r] = "new" /\ \A q \in AdminRequests : q < r => stage[q] # "new"
  /\ IsAdmin(account[by])
  /\ request' = [request EXCEPT ![r] =
                   [kind |-> change.kind, role |-> change.role, active |-> change.active,
                    by |-> by, byId |-> account[by].id, user |-> u, userId |-> account[u].id]]
  /\ Move(r, IF change.kind = "create" THEN "checked" ELSE "authorized")
  /\ UNCHANGED <<account, born, seen, cli, crossed>>

(* 401 or 403: no account, inactive, or another role. *)
Unauthorized(r, by) ==
  /\ stage[r] = "new" /\ \A q \in AdminRequests : q < r => stage[q] # "new"
  /\ ~IsAdmin(account[by])
  /\ Move(r, "unauthorized")
  /\ UNCHANGED <<account, born, request, seen, cli, crossed>>

(* The row update_user would leave, from the row it read. *)
Wanted(r) ==
  [seen[r] EXCEPT !.role = IF request[r].role = "keep" THEN @ ELSE request[r].role,
                  !.active = IF request[r].active = "keep" THEN @ ELSE request[r].active]

Loses(r) == IsAdmin(seen[r]) /\ (request[r].kind = "delete" \/ ~IsAdmin(Wanted(r)))

(* Is the account of the request, or of its sender, still there? *)
Exists(r) == request[r].userId # 0 /\ account[request[r].user].id = request[r].userId
SenderExists(r) == account[request[r].by].id = request[r].byId

(* _get *)
Read(r) ==
  /\ stage[r] = "authorized"
  /\ IF ~Exists(r) THEN Answer(r, "absent")
     ELSE /\ seen' = [seen EXCEPT ![r] = account[request[r].user]]
          /\ Move(r, "read")
          /\ UNCHANGED request
  /\ UNCHANGED <<account, born, cli, crossed>>

(* Nobody removes, demotes or deactivates himself. *)
OwnAccount(r) ==
  /\ request[r].by = request[r].user
  /\ request[r].kind = "delete" \/ Loses(r) \/ Wanted(r).active = "no"

(* Mutant of Forbidden: the checks protect a deletion only. *)
ForbiddenDelete(r) == request[r].kind = "delete" /\ OwnAccount(r)

(* The 409 of update_user and delete_user; _other_active_admins is a query *)
(* of its own.                                                             *)
Forbidden(r) ==
  \/ OwnAccount(r)
  \/ Loses(r) /\ Active(account) \ {request[r].user} = {}

Check(r) ==
  /\ stage[r] = "read"
  /\ IF Forbidden(r) THEN Answer(r, "conflict")
     ELSE Move(r, "checked") /\ UNCHANGED <<request, seen>>
  /\ UNCHANGED <<account, born, cli, crossed>>

(* The UPDATE writes the columns that changed since the row was read, and  *)
(* nothing when none did; a row that is gone is an error (StaleDataError). *)
Merged(r) ==
  [account[request[r].user] EXCEPT
     !.role = IF Wanted(r).role # seen[r].role THEN Wanted(r).role ELSE @,
     !.active = IF Wanted(r).active # seen[r].active THEN Wanted(r).active ELSE @]

Store(u, row) ==
  /\ account' = [account EXCEPT ![u] = row]
  /\ crossed' = {q \in crossed \cup AdminRequests : stage'[q] \notin Done \cup {"new"}}

Decline(r, answer) == Answer(r, answer) /\ UNCHANGED <<account, born, crossed>>

(* A new row, with a new id. *)
Insert(u, role) ==
  /\ born' = born + 1
  /\ Store(u, [role |-> role, active |-> "yes", id |-> born + 1])

Remove(u) == Store(u, NoAccount) /\ UNCHANGED born

(* The statement of the handler and its audit row, whose foreign key fails *)
(* when the account of the sender is gone.  A DELETE that finds no row is  *)
(* only a warning.                                                         *)
Commit(r) ==
  /\ stage[r] = "checked"
  /\ LET u == request[r].user
     IN \/ /\ ~SenderExists(r)
           /\ Decline(r, "error")
        \/ /\ SenderExists(r) /\ request[r].kind = "create"
           /\ IF account[u] = NoAccount THEN Answer(r, "ok") /\ Insert(u, request[r].role)
              ELSE Decline(r, "conflict")
        \/ /\ SenderExists(r) /\ request[r].kind = "delete"
           /\ IF Exists(r) THEN Answer(r, "ok") /\ Remove(u)
              ELSE Decline(r, "ok")
        \/ /\ SenderExists(r) /\ request[r].kind = "update"
           /\ IF Exists(r) THEN Answer(r, "ok") /\ Store(u, Merged(r)) /\ UNCHANGED born
              ELSE Decline(r, IF Wanted(r) = seen[r] THEN "ok" ELSE "error")
  /\ UNCHANGED cli

(* The session is lost, or the commit fails: nothing is written. *)
CommitFails(r) ==
  /\ stage[r] = "checked"
  /\ Decline(r, "error")
  /\ UNCHANGED cli

(* app.auth.cli create-user, with --update for an account that exists. *)
CliCreateUser(u, role) ==
  /\ cli < MaxCli
  /\ cli' = cli + 1
  /\ UNCHANGED <<stage, request, seen>>
  /\ IF account[u] = NoAccount THEN Insert(u, role)
     ELSE Store(u, [account[u] EXCEPT !.role = role, !.active = "yes"]) /\ UNCHANGED born

AccountsNext ==
  \/ \E r \in AdminRequests : Read(r) \/ Check(r) \/ Commit(r) \/ CommitFails(r)
  \/ \E r \in AdminRequests, by \in Users, u \in Users, change \in Changes :
       Authorize(r, by, u, change)
  \/ \E r \in AdminRequests, by \in Users : Unauthorized(r, by)
  \/ \E u \in CliUsers, role \in Roles : CliCreateUser(u, role)

AccountsSpec == AccountsInit /\ [][AccountsNext]_accountVars

-----------------------------------------------------------------------------
(* "il en reste toujours un" (update_user, delete_user): the last active   *)
(* administrator is lost only by a request during which another change was *)
(* committed; two that demote each other at once leave none.               *)
CrossingStep ==
  Active(account) # {} /\ Active(account') = {} /\ cli' = cli
    => \E r \in crossed : stage[r] = "checked" /\ stage'[r] = "ok"

AdminLostOnlyByCrossing == [][CrossingStep]_accountVars
=============================================================================
