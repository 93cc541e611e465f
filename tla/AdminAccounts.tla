--------------------------- MODULE AdminAccounts ---------------------------
(***************************************************************************)
(* The accounts of administrators (apps/api/admin_users.py), the check of  *)
(* credentials (core/security/admin_auth.py) and the two scripts of the    *)
(* command line.  A request authenticates, reads its account, checks, and  *)
(* commits in separate statements of one READ COMMITTED transaction that   *)
(* takes no lock: other requests commit between any two of them.           *)
(***************************************************************************)
EXTENDS Naturals, FiniteSets

CONSTANTS
    Users,      \* primary keys; a key is never used twice
    Requests,   \* requests and scripts that run at the same time
    Asks,       \* bodies of PATCH requests
    First       \* the account the installation creates

Roles == {"admin", "viewer"}

\* An AdminUserUpdate: "keep" stands for a field that is not sent, "null" for
\* one that is sent as an explicit null, which the schema admits.
Ask == [role : Roles \cup {"keep", "null"}, enabled : {"yes", "no", "keep", "null"}]
SendsNull(ask) == "null" \in {ask.role, ask.enabled}

ASSUME AccountsAssumption ==
    /\ First \in Users /\ IsFiniteSet(Users)
    /\ Asks \subseteq Ask

VARIABLES
    rows,    \* row of each key: [state, role, enabled]
    req,     \* what each request has read and decided
    serial,  \* history: no commit fell between another request's read and its commit
    stated   \* history: no update was committed that sends an explicit null

history == <<serial, stated>>
vars == <<rows, req, serial, stated>>

\* The column of the role is any text; "None" is what a null becomes in it.
Row == [state : {"absent", "row", "deleted"}, role : Roles \cup {"None"},
        enabled : {"yes", "no"}]
Absent == [state |-> "absent", role |-> "admin", enabled |-> "yes"]
NewRow(role) == [state |-> "row", role |-> role, enabled |-> "yes"]

NoAsk == [role |-> "keep", enabled |-> "keep"]

Operations == {"create", "update", "delete", "reset"}
Request == [stage : {"idle", "authenticated", "read", "checked"}, op : Operations,
            target : Users, self : BOOLEAN, ask : Ask, read : Row]
Progress(stage, op, target, self, ask, read) ==
    [stage |-> stage, op |-> op, target |-> target, self |-> self, ask |-> ask, read |-> read]
Idle == Progress("idle", "update", First, FALSE, NoAsk, Absent)

Exists(u) == rows[u].state = "row"
Active(row) == row = NewRow("admin")
ActiveAdmins == {u \in Users : Active(rows[u])}

\* Requests that have read their account and not yet committed.
Window == {r \in Requests : req[r].stage \in {"read", "checked"}}

Finish(r) == req' = [req EXCEPT ![r] = Idle]
Committed(r) ==
    /\ serial' = (serial /\ Window \subseteq {r})
    /\ stated' = (stated /\ ~SendsNull(req[r].ask))

-----------------------------------------------------------------------------
(* require_admin_user and require_admin_secret: the account that sends the *)
(* request is enabled and has the role admin.  A password that is sent and *)
(* stored changes neither role nor enabled and is left out.                *)
Authenticate(r, by, op, target, ask) ==
    /\ req[r].stage = "idle"
    /\ Active(rows[by])
    /\ CASE op = "create" -> ask.role \in Roles /\ ask.enabled = "keep"
         [] op = "delete" -> ask = NoAsk
         [] OTHER -> ask \in Asks
    /\ req' = [req EXCEPT ![r] =
                  Progress("authenticated", op, target, by = target, ask, Absent)]
    /\ UNCHANGED <<rows, history>>

Insert(u, role) == rows' = [rows EXCEPT ![u] = NewRow(role)]

\* create_admin_user.
Create(r) ==
    /\ req[r].stage = "authenticated" /\ req[r].op = "create"
    /\ rows[req[r].target].state = "absent"
    /\ Insert(req[r].target, req[r].ask.role)
    /\ Committed(r)
    /\ Finish(r)

\* A taken username violates the unique constraint and is answered with 409.
CreateRefused(r) ==
    /\ req[r].stage = "authenticated" /\ req[r].op = "create"
    /\ Finish(r)
    /\ UNCHANGED <<rows, history>>

\* scripts/create_admin_user.py: no authentication, no audit entry.
ScriptCreate(r, u) ==
    /\ req[r].stage = "idle"
    /\ rows[u].state = "absent"
    /\ Insert(u, "admin")
    /\ Committed(r)
    /\ UNCHANGED req

\* scripts/reset_admin_password.py, with or without --enable.
ScriptReset(r, u, enable) ==
    /\ req[r].stage = "idle"
    /\ Exists(u)
    /\ req' = [req EXCEPT ![r] =
                  Progress("checked", "reset", u, FALSE,
                           [NoAsk EXCEPT !.enabled = IF enable THEN "yes" ELSE "keep"],
                           rows[u])]
    /\ UNCHANGED <<rows, history>>

\* db.get(AdminUser, user_id): no row is answered with 404.  An account that
\* changes itself is the one the authentication has loaded.
ReadTarget(r) ==
    /\ req[r].stage = "authenticated" /\ req[r].op # "create"
    /\ IF req[r].self
       THEN req' = [req EXCEPT ![r].stage = "read", ![r].read = NewRow("admin")]
       ELSE IF Exists(req[r].target)
            THEN req' = [req EXCEPT ![r].stage = "read", ![r].read = rows[req[r].target]]
            ELSE Finish(r)
    /\ UNCHANGED <<rows, history>>

\* The conditions compare what was sent: a null, which disables an account or
\* takes its role as well, is neither False nor "viewer".
Revokes(ask) == ask.enabled = "no" \/ ask.role = "viewer"

\* Fault: the other active administrators are not counted.
UpdateRefusedWithoutCount(q) == q.self /\ Revokes(q.ask)

\* Fault: an enabled account is deleted.
DeleteRefusedForSelf(q) == q.self

\* Conditions of update_admin_user and delete_admin_user that answer 409; the
\* number of active administrators is counted by a statement of its own.
UpdateRefused(q) ==
    \/ q.self /\ Revokes(q.ask)
    \/ Active(q.read) /\ Revokes(q.ask) /\ Cardinality(ActiveAdmins) = 1
DeleteRefused(q) == q.self \/ q.read.enabled = "yes"

Check(r) ==
    /\ req[r].stage = "read"
    /\ IF \/ req[r].op = "update" /\ UpdateRefused(req[r])
          \/ req[r].op = "delete" /\ DeleteRefused(req[r])
       THEN Finish(r)
       ELSE req' = [req EXCEPT ![r].stage = "checked"]
    /\ UNCHANGED <<rows, history>>

-----------------------------------------------------------------------------
\* str(changes["role"]) and bool(changes["enabled"]).
StoredRole(ask) == IF ask.role = "null" THEN "None" ELSE ask.role
StoredEnabled(ask) == IF ask.enabled = "null" THEN "no" ELSE ask.enabled

\* The row as the request leaves it in its session, which is also the
\* new_value of its audit entry.
Asked(row, ask) ==
    [row EXCEPT !.role = IF ask.role = "keep" THEN @ ELSE StoredRole(ask),
                !.enabled = IF ask.enabled = "keep" THEN @ ELSE StoredEnabled(ask)]

\* Fault: every column is written back.
WrittenWhole(row, read, ask) == Asked(read, ask)

\* Fault: a new role leaves the rest of the body out.
WrittenRoleFirst(row, read, ask) ==
    IF ask.role # "keep" THEN [row EXCEPT !.role = StoredRole(ask)]
    ELSE Asked(row, ask)

\* The UPDATE statement of the session: only columns whose value differs from
\* the one loaded are written.
Written(row, read, ask) ==
    LET new == Asked(read, ask)
    IN [row EXCEPT !.role = IF new.role # read.role THEN new.role ELSE @,
                   !.enabled = IF new.enabled # read.enabled THEN new.enabled ELSE @]

\* An UPDATE that finds no row raises and rolls back.
CommitUpdate(r) ==
    LET q == req[r] IN
    /\ q.stage = "checked" /\ q.op \in {"update", "reset"}
    /\ IF Exists(q.target)
       THEN /\ rows' = [rows EXCEPT ![q.target] = Written(@, q.read, q.ask)]
            /\ Committed(r)
       ELSE UNCHANGED <<rows, history>>
    /\ Finish(r)

\* The DELETE is by primary key; finding no row is only a warning.
CommitDelete(r) ==
    LET q == req[r] IN
    /\ q.stage = "checked" /\ q.op = "delete"
    /\ rows' = [rows EXCEPT ![q.target] = [Absent EXCEPT !.state = "deleted"]]
    /\ Committed(r)
    /\ Finish(r)

Init ==
    /\ rows = [u \in Users |-> IF u = First THEN NewRow("admin") ELSE Absent]
    /\ req = [r \in Requests |-> Idle]
    /\ serial = TRUE
    /\ stated = TRUE

Next ==
    \E r \in Requests :
        \/ \E by, u \in Users, op \in Operations \ {"reset"}, ask \in Ask :
              Authenticate(r, by, op, u, ask)
        \/ Create(r)
        \/ CreateRefused(r)
        \/ \E u \in Users : ScriptCreate(r, u)
        \/ \E u \in Users, enable \in BOOLEAN : ScriptReset(r, u, enable)
        \/ ReadTarget(r)
        \/ Check(r)
        \/ CommitUpdate(r)
        \/ CommitDelete(r)

Spec == Init /\ [][Next]_vars

-----------------------------------------------------------------------------
(* Every row is an account as the table admits it, also when two requests *)
(* of the API have merged their columns into it.                           *)
TypeOK ==
    /\ rows \in [Users -> Row]
    /\ req \in [Requests -> Request]
    /\ serial \in BOOLEAN
    /\ stated \in BOOLEAN

(* "The last administrator must remain active": the number is counted      *)
(* before the commit and without a lock, and the conditions know no null,  *)
(* so this holds as long as no other request commits between the read and  *)
(* the commit of one, and no committed update has sent an explicit null.   *)
(* A request may authenticate at any time before.                          *)
AdminRemainsIfSerial == serial /\ stated => ActiveAdmins # {}

(* The same without a condition, as the API and its help promise it        *)
(* ("Der letzte aktive Administrator kann nicht entfernt werden"): two     *)
(* requests at the same time break it.                                     *)
AdminRemains == ActiveAdmins # {}

(* Without interference only disabled accounts are deleted, although the   *)
(* DELETE is by primary key and much later than the check.                 *)
OnlyDisabledDeleted ==
    [][\A u \in Users : Exists(u) /\ ~Exists(u)' /\ serial' => rows[u].enabled = "no"]_vars

(* A request changes its account only, there only a column whose field it  *)
(* sends, and only to the value it sends, however old its reading of the   *)
(* account is: no change of another is lost.  A field sent as null is no   *)
(* value for the column; it is stored as the role "None" or as disabled.   *)
OnlySentFieldsChange ==
    [][\A r \in Requests, u \in Users :
         req[r].stage = "checked" /\ req[r].op # "delete" /\ req'[r].stage = "idle"
           => LET ask == req[r].ask
              IN /\ rows'[u] # rows[u] => u = req[r].target
                 /\ rows'[u].role # rows[u].role
                      => ask.role # "keep" /\ rows'[u].role = StoredRole(ask)
                 /\ rows'[u].enabled # rows[u].enabled
                      => ask.enabled # "keep" /\ rows'[u].enabled = StoredEnabled(ask)]_vars

(* The audit entry of a request, computed from what it has read, tells the *)
(* row as it is after the commit, unless another commit came in between or *)
(* the account changed itself: that one was read with the credentials.     *)
AuditTellsRow ==
    [][\A r \in Requests :
         LET q == req[r] IN
         (/\ q.stage = "checked" /\ q.op # "delete" /\ req'[r].stage = "idle"
          /\ ~q.self /\ serial')
         => rows'[q.target] = Asked(q.read, q.ask)]_vars

=============================================================================
