------------------------ MODULE AdminAccounts_proofs ------------------------
(***************************************************************************)
(* Proofs about AdminAccounts for any accounts and requests.  As long as   *)
(* no commit falls between the read and the commit of another request, a   *)
(* request still sees the row it has read (Fresh), and one that takes the  *)
(* access of an active administrator still sees another one (Safe), unless *)
(* it takes it by a null.                                                  *)
(***************************************************************************)
EXTENDS AdminAccounts, FiniteSetTheorems, TLAPS

InWindow(r) == req[r].stage \in {"read", "checked"}

Fresh(r) ==
    InWindow(r) => IF req[r].self
                   THEN req[r].read = NewRow("admin")
                   ELSE req[r].read = rows[req[r].target] /\ req[r].read.state = "row"

Safe(r) ==
    req[r].stage = "checked" =>
        /\ req[r].op \in {"update", "delete", "reset"}
        /\ req[r].op = "delete" => ~req[r].self /\ req[r].read.enabled = "no"
        /\ req[r].op = "reset" => ~Revokes(req[r].ask)
        /\ req[r].op = "update" /\ Revokes(req[r].ask)
             => /\ ~req[r].self
                /\ Active(req[r].read) => \E u \in Users \ {req[r].target} : Active(rows[u])

SerialInv == serial => /\ stated => ActiveAdmins # {}
                       /\ \A r \in Requests : Fresh(r) /\ Safe(r)

\* A request to create an account names its role and reads none, and a script
\* has no credentials to check.
CreateInv == \A r \in Requests :
    /\ req[r].op = "create" => req[r].ask.role \in Roles
    /\ req[r].stage = "authenticated" => req[r].op # "reset"
    /\ req[r].stage = "read" => req[r].op \in {"update", "delete"}

TypeInv == TypeOK /\ CreateInv

IInv == TypeInv /\ SerialInv

-----------------------------------------------------------------------------
(* What a request may take the access of is not the last administrator.    *)
LEMMA AnotherAdmin ==
    ASSUME NEW u \in Users, Active(rows[u]), Cardinality(ActiveAdmins) # 1
    PROVE  \E w \in Users \ {u} : Active(rows[w])
<1> SUFFICES ASSUME \A w \in Users \ {u} : ~Active(rows[w]) PROVE FALSE
  OBVIOUS
<1>1. ActiveAdmins = {u}
  BY DEF ActiveAdmins
<1>2. Cardinality({u}) = 1
  BY FS_Singleton
<1> QED BY <1>1, <1>2

LEMMA WrittenType ==
    ASSUME NEW row \in Row, NEW read \in Row, NEW ask \in Ask
    PROVE  Asked(read, ask) \in Row /\ Written(row, read, ask) \in Row
<1>1. Asked(read, ask) \in Row
  BY ZenonT(30) DEF Asked, Row, Ask, Roles, StoredRole, StoredEnabled
<1>2. Written(row, read, ask) \in Row
  BY <1>1 DEF Written, Row
<1> QED BY <1>1, <1>2

LEMMA AskTypes == NoAsk \in Ask /\ Absent \in Row /\ Asks \subseteq Ask
  BY AccountsAssumption DEF NoAsk, Absent, Ask, Row, Roles

LEMMA IdleType == Idle \in Request
  BY AskTypes, AccountsAssumption DEF Idle, Progress, Request, Operations

(* The type invariant. *)
LEMMA TypeInit == Init => TypeInv
  BY IdleType, AskTypes, AccountsAssumption
  DEF Init, TypeInv, TypeOK, CreateInv, NewRow, Row, Roles, Idle, Progress

LEMMA TypeStep == TypeInv /\ [Next]_vars => TypeInv'
<1> SUFFICES ASSUME TypeInv, [Next]_vars PROVE TypeInv'
  OBVIOUS
<1> USE DEF TypeInv, TypeOK, CreateInv, history
<1>2. ASSUME NEW r \in Requests, Finish(r)
      PROVE  req' \in [Requests -> Request] /\ CreateInv'
  <2>1. Idle.op = "update" /\ Idle.stage = "idle"
    BY DEF Idle, Progress
  <2> QED BY <1>2, <2>1, IdleType DEF Finish
<1>3. ASSUME NEW r \in Requests, Committed(r) PROVE serial' \in BOOLEAN /\ stated' \in BOOLEAN
  BY <1>3 DEF Committed
<1>4. ASSUME NEW u \in Users, NEW role \in Roles, Insert(u, role)
      PROVE  rows' \in [Users -> Row]
  BY <1>4 DEF Insert, NewRow, Row
<1>5. \A r \in Requests : /\ req[r] \in Request /\ req[r].target \in Users
                          /\ req[r].ask \in Ask /\ req[r].read \in Row
  BY DEF Request
<1>6. ASSUME NEW r \in Requests, NEW by \in Users, NEW u \in Users,
             NEW op \in Operations \ {"reset"}, NEW ask \in Ask,
             Authenticate(r, by, op, u, ask)
      PROVE  TypeInv'
  <2> DEFINE q == Progress("authenticated", op, u, by = u, ask, Absent)
  <2>1. q \in Request /\ q.op = op /\ q.ask = ask /\ q.stage = "authenticated"
    BY AskTypes DEF Request, Progress
  <2>2. op = "create" => ask.role \in Roles
    BY <1>6 DEF Authenticate, Ask
  <2>3. req' = [req EXCEPT ![r] = q] /\ rows' = rows /\ serial' = serial /\ stated' = stated
    BY <1>6 DEF Authenticate, history
  <2> HIDE DEF q
  <2> QED BY <2>1, <2>2, <2>3
<1>7. ASSUME NEW r \in Requests, Create(r) PROVE TypeInv'
  BY <1>2, <1>3, <1>4, <1>5, <1>7 DEF Create
<1>8. ASSUME NEW r \in Requests, CreateRefused(r) PROVE TypeInv'
  BY <1>2, <1>8 DEF CreateRefused
<1>9. ASSUME NEW r \in Requests, NEW u \in Users, ScriptCreate(r, u) PROVE TypeInv'
  BY <1>3, <1>4, <1>9 DEF ScriptCreate, Roles
<1>10. ASSUME NEW r \in Requests, NEW u \in Users, NEW enable \in BOOLEAN,
              ScriptReset(r, u, enable)
       PROVE  TypeInv'
  <2> DEFINE ask == [NoAsk EXCEPT !.enabled = IF enable THEN "yes" ELSE "keep"]
             q == Progress("checked", "reset", u, FALSE, ask, rows[u])
  <2>1. ask \in Ask
    BY DEF NoAsk, Ask
  <2>2. req' = [req EXCEPT ![r] = q] /\ rows' = rows /\ serial' = serial /\ stated' = stated
    BY <1>10 DEF ScriptReset, history
  <2> HIDE DEF ask
  <2>3. q \in Request /\ q.op = "reset" /\ q.stage = "checked"
    BY <2>1 DEF Request, Operations, Progress
  <2> HIDE DEF q
  <2> QED BY <2>2, <2>3
<1>11. ASSUME NEW r \in Requests, ReadTarget(r) PROVE TypeInv'
  <2>1. NewRow("admin") \in Row
    BY DEF NewRow, Row, Roles
  <2>2. CASE req' = [req EXCEPT ![r].stage = "read", ![r].read = NewRow("admin")]
    BY <1>5, <1>11, <2>1, <2>2 DEF ReadTarget, Request, Operations
  <2>3. CASE req' = [req EXCEPT ![r].stage = "read", ![r].read = rows[req[r].target]]
    BY SMTT(30), <1>5, <1>11, <2>3 DEF ReadTarget, Request, Operations
  <2>4. CASE Finish(r)
    BY <1>2, <1>11, <2>4 DEF ReadTarget
  <2> QED BY <1>11, <2>2, <2>3, <2>4 DEF ReadTarget
<1>12. ASSUME NEW r \in Requests, Check(r) PROVE TypeInv'
  <2>1. CASE Finish(r)
    BY <1>2, <1>12, <2>1 DEF Check
  <2>2. CASE req' = [req EXCEPT ![r].stage = "checked"]
    BY <1>5, <1>12, <2>2 DEF Check, Request
  <2> QED BY <1>12, <2>1, <2>2 DEF Check
<1>13. ASSUME NEW r \in Requests, CommitUpdate(r) PROVE TypeInv'
  <2>1. Written(rows[req[r].target], req[r].read, req[r].ask) \in Row
    BY <1>5, WrittenType
  <2> QED BY <1>2, <1>3, <1>5, <1>13, <2>1 DEF CommitUpdate
<1>14. ASSUME NEW r \in Requests, CommitDelete(r) PROVE TypeInv'
  <2>1. [Absent EXCEPT !.state = "deleted"] \in Row
    BY DEF Absent, Row, Roles
  <2> QED BY <1>2, <1>3, <1>5, <1>14, <2>1 DEF CommitDelete
<1>15. CASE UNCHANGED vars
  BY <1>15 DEF vars
<1> QED BY <1>6, <1>7, <1>8, <1>9, <1>10, <1>11, <1>12, <1>13, <1>14, <1>15 DEF Next
(* Every account and every request stays well formed. *)
THEOREM AccountsTypeCorrect == Spec => []TypeOK
<1>1. TypeInv => TypeOK
  BY DEF TypeInv
<1> QED BY TypeInit, TypeStep, <1>1, PTL DEF Spec

-----------------------------------------------------------------------------
(* A commit while serial holds leaves no other request in its window.      *)
LEMMA SerialCommit ==
    ASSUME NEW r \in Requests, Committed(r), serial'
    PROVE  serial /\ \A s \in Requests \ {r} : ~InWindow(s)
  BY DEF Committed, Window, InWindow

(* A request that leaves the window, or never entered it, promises nothing. *)
LEMMA Outside ==
    ASSUME NEW r \in Requests, ~InWindow(r)
    PROVE  Fresh(r) /\ Safe(r)
  BY DEF Fresh, Safe, InWindow

LEMMA OutsidePrimed ==
    ASSUME NEW r \in Requests, ~InWindow(r)'
    PROVE  (Fresh(r) /\ Safe(r))'
  BY DEF Fresh, Safe, InWindow

LEMMA FinishLeaves ==
    ASSUME TypeOK, NEW r \in Requests, Finish(r)
    PROVE  /\ ~InWindow(r)'
           /\ \A s \in Requests \ {r} : req'[s] = req[s]
<1>1. req'[r] = Idle /\ \A s \in Requests \ {r} : req'[s] = req[s]
  BY DEF Finish, TypeOK
<1> QED BY <1>1 DEF InWindow, Idle, Progress

(* Steps that commit nothing keep what the other requests have.            *)
LEMMA OthersKeep ==
    ASSUME NEW s \in Requests, req'[s] = req[s], rows' = rows, Fresh(s), Safe(s)
    PROVE  (Fresh(s) /\ Safe(s))'
  BY DEF Fresh, Safe, InWindow

(* After a commit in its own window a request is outside, as all others are. *)
LEMMA CommitKeeps ==
    ASSUME TypeOK, NEW r \in Requests, Finish(r), Committed(r), serial'
    PROVE  \A s \in Requests : (Fresh(s) /\ Safe(s))'
<1>1. \A s \in Requests : ~InWindow(s)'
  BY FinishLeaves, SerialCommit DEF InWindow
<1> QED BY <1>1, OutsidePrimed

(* The only commit that can take an access away is that of a checked       *)
(* request, and Safe names the administrator that remains.                 *)
LEMMA UpdateKeepsAdmin ==
    ASSUME TypeOK, NEW r \in Requests, CommitUpdate(r), Fresh(r), Safe(r), ActiveAdmins # {},
           stated'
    PROVE  ActiveAdmins' # {}
<1> DEFINE q == req[r]
           t == req[r].target
           new == Asked(q.read, q.ask)
<1>1. CASE ~Exists(t)
  BY <1>1 DEF CommitUpdate, ActiveAdmins
<1>2. CASE Exists(t)
  <2>0. /\ rows' = [rows EXCEPT ![t] = Written(rows[t], q.read, q.ask)]
        /\ ~SendsNull(q.ask)
        /\ q \in Request /\ q.ask \in Ask /\ t \in Users /\ q.read \in Row /\ rows[t] \in Row
    BY <1>2 DEF CommitUpdate, Committed, TypeOK, Request
  <2>1. PICK w \in Users : Active(rows[w])
    BY DEF ActiveAdmins
  <2>2. CASE w # t
    BY <2>0, <2>1, <2>2 DEF ActiveAdmins, TypeOK
  <2>3. CASE w = t
    <3>1. CASE Revokes(q.ask)
      <4>1. q.op = "update" /\ ~q.self
        BY <3>1 DEF CommitUpdate, Safe
      <4>2. Active(q.read)
        BY <4>1, <2>1, <2>3 DEF CommitUpdate, Fresh, InWindow
      <4>3. PICK v \in Users \ {t} : Active(rows[v])
        BY <4>1, <4>2, <3>1 DEF CommitUpdate, Safe
      <4> QED BY <4>3, <2>0 DEF ActiveAdmins, TypeOK
    <3>2. CASE ~Revokes(q.ask)
      <4>1. q.read = NewRow("admin")
        BY <2>1, <2>3 DEF CommitUpdate, Fresh, InWindow, Active
      <4>2. q.ask.role \in {"keep", "admin"} /\ q.ask.enabled \in {"keep", "yes"}
        BY <3>2, <2>0 DEF Revokes, SendsNull, Ask, Roles
      <4>3. new.role = q.read.role /\ new.enabled = q.read.enabled
        BY <4>1, <4>2, <2>0 DEF Asked, StoredRole, StoredEnabled, NewRow, Row
      <4>4. Written(rows[t], q.read, q.ask) = rows[t]
        BY <4>3, <2>0 DEF Written, Row
      <4> QED BY <4>4, <2>0, <2>1, <2>3 DEF ActiveAdmins, TypeOK
    <3> QED BY <3>1, <3>2
  <2> QED BY <2>2, <2>3
<1> QED BY <1>1, <1>2

LEMMA DeleteKeepsAdmin ==
    ASSUME TypeOK, NEW r \in Requests, CommitDelete(r), Fresh(r), Safe(r)
    PROVE  /\ rows[req[r].target].enabled = "no"
           /\ ActiveAdmins # {} => ActiveAdmins' # {}
<1>1. rows[req[r].target].enabled = "no"
  BY DEF CommitDelete, Fresh, Safe, InWindow
<1>2. ASSUME NEW w \in Users, Active(rows[w]) PROVE Active(rows'[w])
  <2>1. w # req[r].target
    BY <1>1, <1>2 DEF Active, NewRow
  <2> QED BY <1>2, <2>1 DEF CommitDelete, TypeOK
<1> QED BY <1>1, <1>2 DEF ActiveAdmins

LEMMA InsertKeepsAdmin ==
    ASSUME TypeOK, NEW u \in Users, NEW role \in Roles, Insert(u, role),
           rows[u].state = "absent", ActiveAdmins # {}
    PROVE  ActiveAdmins' # {}
<1>1. PICK w \in Users : Active(rows[w])
  BY DEF ActiveAdmins
<1>2. w # u
  BY <1>1 DEF Active, NewRow
<1>3. rows'[w] = rows[w]
  BY <1>2 DEF Insert, TypeOK
<1> QED BY <1>1, <1>3 DEF ActiveAdmins

-----------------------------------------------------------------------------
LEMMA SerialInit == Init => SerialInv
<1> SUFFICES ASSUME Init PROVE SerialInv
  OBVIOUS
<1>1. First \in ActiveAdmins
  BY AccountsAssumption DEF Init, ActiveAdmins, Active
<1>2. \A r \in Requests : ~InWindow(r)
  BY DEF Init, InWindow, Idle, Progress
<1> QED BY <1>1, <1>2, Outside DEF SerialInv

LEMMA SerialStep == TypeInv /\ SerialInv /\ [Next]_vars => SerialInv'
<1> SUFFICES ASSUME TypeInv, SerialInv, [Next]_vars, serial' PROVE SerialInv'
  BY DEF SerialInv
<1>1. TypeOK /\ \A r \in Requests : req[r] \in Request
  BY DEF TypeInv, TypeOK
<1>2. ASSUME serial
      PROVE  /\ stated => ActiveAdmins # {}
             /\ \A r \in Requests : Fresh(r) /\ Safe(r)
  BY <1>2 DEF SerialInv
<1>3. ASSUME rows' = rows PROVE ActiveAdmins' = ActiveAdmins
  BY <1>3 DEF ActiveAdmins
<1>4. ASSUME NEW r \in Requests, UNCHANGED <<rows, history>>, (Fresh(r) /\ Safe(r))',
             \A s \in Requests \ {r} : req'[s] = req[s]
      PROVE  SerialInv'
  BY <1>2, <1>3, <1>4, OthersKeep DEF SerialInv, history
<1>5. ASSUME NEW r \in Requests, UNCHANGED <<rows, history>>, Finish(r)
      PROVE  SerialInv'
  BY <1>1, <1>4, <1>5, FinishLeaves, OutsidePrimed
<1>6. ASSUME NEW r \in Requests, NEW by \in Users, NEW u \in Users,
             NEW op \in Operations \ {"reset"}, NEW ask \in Ask,
             Authenticate(r, by, op, u, ask)
      PROVE  SerialInv'
  <2>1. req'[r].stage = "authenticated" /\ \A s \in Requests \ {r} : req'[s] = req[s]
    BY <1>1, <1>6 DEF Authenticate, Progress, TypeOK
  <2>2. ~InWindow(r)'
    BY <2>1 DEF InWindow
  <2> QED BY <1>4, <1>6, <2>1, <2>2, OutsidePrimed DEF Authenticate
<1>7. ASSUME NEW r \in Requests, Create(r) PROVE SerialInv'
  <2>1. serial /\ req[r].target \in Users /\ req[r].ask.role \in Roles
    BY <1>1, <1>7, SerialCommit DEF Create, TypeInv, CreateInv, Request
  <2>2. stated' => ActiveAdmins' # {}
    BY <1>1, <1>2, <1>7, <2>1, InsertKeepsAdmin DEF Create, Committed
  <2> QED BY <1>1, <1>7, <2>2, CommitKeeps DEF Create, SerialInv
<1>8. ASSUME NEW r \in Requests, CreateRefused(r) PROVE SerialInv'
  BY <1>5, <1>8 DEF CreateRefused
<1>9. ASSUME NEW r \in Requests, NEW u \in Users, ScriptCreate(r, u) PROVE SerialInv'
  <2>1. serial /\ \A s \in Requests : ~InWindow(s)
    BY <1>9, SerialCommit DEF ScriptCreate, InWindow
  <2>2. \A s \in Requests : ~InWindow(s)'
    BY <1>9, <2>1 DEF ScriptCreate, InWindow
  <2>3. stated' => ActiveAdmins' # {}
    BY <1>1, <1>2, <1>9, <2>1, InsertKeepsAdmin DEF ScriptCreate, Roles, Committed
  <2> QED BY <2>2, <2>3, OutsidePrimed DEF SerialInv
<1>10. ASSUME NEW r \in Requests, NEW u \in Users, NEW enable \in BOOLEAN,
              ScriptReset(r, u, enable)
       PROVE  SerialInv'
  <2> DEFINE ask == [NoAsk EXCEPT !.enabled = IF enable THEN "yes" ELSE "keep"]
  <2>1. ask.role = "keep" /\ ask.enabled \in {"yes", "keep"}
    BY DEF NoAsk
  <2>2. ~Revokes(ask)
    BY <2>1 DEF Revokes
  <2>3. /\ req'[r] = Progress("checked", "reset", u, FALSE, ask, rows[u])
        /\ rows' = rows /\ rows[u].state = "row"
        /\ \A s \in Requests \ {r} : req'[s] = req[s]
    BY <1>1, <1>10 DEF ScriptReset, TypeOK, Exists
  <2> HIDE DEF ask
  <2>4. Fresh(r)' /\ Safe(r)'
    BY <2>2, <2>3 DEF Fresh, Safe, Progress, InWindow, Revokes
  <2> QED BY <1>4, <1>10, <2>3, <2>4 DEF ScriptReset
<1>11. ASSUME NEW r \in Requests, ReadTarget(r) PROVE SerialInv'
  <2>1. CASE Finish(r)
    BY <1>5, <1>11, <2>1 DEF ReadTarget
  <2>2. CASE ~Finish(r)
    <3>1. /\ req'[r].stage = "read" /\ req'[r].op = req[r].op
          /\ req'[r].self = req[r].self /\ req'[r].target = req[r].target
          /\ \A s \in Requests \ {r} : req'[s] = req[s]
          /\ rows' = rows
      BY <1>1, <1>11, <2>2 DEF ReadTarget, TypeOK, Request
    <3>2. IF req[r].self THEN req'[r].read = NewRow("admin")
          ELSE req'[r].read = rows[req[r].target] /\ rows[req[r].target].state = "row"
      BY <1>1, <1>11, <2>2 DEF ReadTarget, TypeOK, Request, Exists
    <3>3. Fresh(r)' /\ Safe(r)'
      BY <3>1, <3>2 DEF Fresh, Safe, InWindow
    <3> QED BY <1>4, <1>11, <3>1, <3>3 DEF ReadTarget
  <2> QED BY <2>1, <2>2
<1>12. ASSUME NEW r \in Requests, Check(r) PROVE SerialInv'
  <2> DEFINE q == req[r]
  <2>1. CASE Finish(r)
    BY <1>5, <1>12, <2>1 DEF Check
  <2>2. CASE ~Finish(r)
    <3>1. /\ req' = [req EXCEPT ![r].stage = "checked"] /\ rows' = rows /\ UNCHANGED history
          /\ ~(q.op = "update" /\ UpdateRefused(q)) /\ ~(q.op = "delete" /\ DeleteRefused(q))
          /\ q.stage = "read"
      BY <1>12, <2>2 DEF Check
    <3>2. req'[r] = [q EXCEPT !.stage = "checked"] /\ \A s \in Requests \ {r} : req'[s] = req[s]
      BY <1>1, <3>1 DEF TypeOK
    <3>3. /\ req'[r].op = q.op /\ req'[r].self = q.self /\ req'[r].target = q.target
          /\ req'[r].ask = q.ask /\ req'[r].read = q.read /\ req'[r].stage = "checked"
      BY <1>1, <3>2 DEF Request
    <3>4. Fresh(r)
      BY <1>2, <3>1 DEF history
    <3>5. Fresh(r)'
      BY <3>1, <3>3, <3>4 DEF Fresh, InWindow
    <3>6. q.op = "delete" => ~q.self /\ q.read.enabled = "no"
      BY <1>1, <3>1 DEF DeleteRefused, Request, Row
    <3>7. q.op \in {"update", "delete"}
      BY <3>1 DEF TypeInv, CreateInv
    <3>8. ASSUME q.op = "update", Revokes(q.ask)
          PROVE  ~q.self /\ (Active(q.read) => \E u \in Users \ {q.target} : Active(rows[u]))
      <4>1. ~q.self /\ (Active(q.read) => Cardinality(ActiveAdmins) # 1)
        BY <3>1, <3>8 DEF UpdateRefused
      <4>2. rows[q.target] = q.read /\ q.target \in Users
        BY <1>1, <3>1, <3>4, <4>1 DEF Fresh, InWindow, Request
      <4> QED BY <4>1, <4>2, AnotherAdmin
    <3>9. Safe(r)'
      BY <3>1, <3>3, <3>6, <3>7, <3>8 DEF Safe, Revokes, Active
    <3> QED BY <1>4, <3>1, <3>2, <3>5, <3>9
  <2> QED BY <2>1, <2>2
<1>13. ASSUME NEW r \in Requests, CommitUpdate(r) PROVE SerialInv'
  <2>1. serial
    BY <1>13 DEF CommitUpdate, Committed, history
  <2>2. stated' => ActiveAdmins' # {}
    <3>1. stated' => stated
      BY <1>13 DEF CommitUpdate, Committed, history
    <3> QED BY <1>1, <1>2, <1>13, <2>1, <3>1, UpdateKeepsAdmin
  <2>3. CASE Committed(r)
    BY <1>1, <1>13, <2>2, <2>3, CommitKeeps DEF CommitUpdate, SerialInv
  <2>4. CASE UNCHANGED <<rows, history>>
    BY <1>5, <1>13, <2>4 DEF CommitUpdate
  <2> QED BY <1>13, <2>3, <2>4 DEF CommitUpdate
<1>14. ASSUME NEW r \in Requests, CommitDelete(r) PROVE SerialInv'
  <2>1. serial
    BY <1>14 DEF CommitDelete, Committed
  <2>2. stated' => ActiveAdmins' # {}
    BY <1>1, <1>2, <1>14, <2>1, DeleteKeepsAdmin DEF CommitDelete, Committed
  <2> QED BY <1>1, <1>14, <2>2, CommitKeeps DEF CommitDelete, SerialInv
<1>15. CASE UNCHANGED vars
  <2>1. req' = req /\ rows' = rows /\ serial' = serial /\ stated' = stated
    BY <1>15 DEF vars
  <2> QED BY <1>2, <1>3, <2>1, OthersKeep DEF SerialInv
<1> QED BY <1>6, <1>7, <1>8, <1>9, <1>10, <1>11, <1>12, <1>13, <1>14, <1>15 DEF Next

LEMMA AccountsInvariant == Spec => []IInv
<1>1. Init => IInv
  BY TypeInit, SerialInit DEF IInv
<1>2. IInv /\ [Next]_vars => IInv'
  BY TypeStep, SerialStep DEF IInv
<1> QED BY <1>1, <1>2, PTL DEF Spec

(* An administrator remains in every execution in which no commit falls    *)
(* between the read and the commit of another request and no update sends  *)
(* an explicit null.                                                       *)
THEOREM AdminRemainsIfSerialTheorem == Spec => []AdminRemainsIfSerial
<1>1. IInv => AdminRemainsIfSerial
  BY DEF IInv, SerialInv, AdminRemainsIfSerial
<1> QED BY <1>1, AccountsInvariant, PTL

-----------------------------------------------------------------------------
(* What a step does to the row of one account.                             *)
LEMMA StepEffects ==
    ASSUME TypeOK, NEW r \in Requests, [Next]_vars,
           req[r].stage = "checked", req'[r].stage = "idle"
    PROVE  CommitUpdate(r) \/ CommitDelete(r)
<1>1. \A s \in Requests : Finish(s) => \A w \in Requests \ {s} : req'[w] = req[w]
  BY FinishLeaves
<1>2. ASSUME NEW s \in Requests, NEW by \in Users, NEW u \in Users,
             NEW op \in Operations \ {"reset"}, NEW ask \in Ask,
             Authenticate(s, by, op, u, ask)
      PROVE  FALSE
  BY <1>2 DEF Authenticate, TypeOK
<1>3. ASSUME NEW s \in Requests, Create(s) \/ CreateRefused(s) PROVE FALSE
  BY <1>1, <1>3 DEF Create, CreateRefused
<1>4. ASSUME NEW s \in Requests, NEW u \in Users, ScriptCreate(s, u) PROVE FALSE
  BY <1>4 DEF ScriptCreate
<1>5. ASSUME NEW s \in Requests, NEW u \in Users, NEW enable \in BOOLEAN,
             ScriptReset(s, u, enable)
      PROVE  FALSE
  BY <1>5 DEF ScriptReset, TypeOK
<1>6. ASSUME NEW s \in Requests, ReadTarget(s) PROVE FALSE
  BY <1>1, <1>6 DEF ReadTarget, TypeOK
<1>7. ASSUME NEW s \in Requests, Check(s) PROVE FALSE
  BY <1>1, <1>7 DEF Check, TypeOK
<1>8. ASSUME NEW s \in Requests, CommitUpdate(s) \/ CommitDelete(s) PROVE s = r
  BY <1>1, <1>8 DEF CommitUpdate, CommitDelete
<1>9. ~UNCHANGED vars
  BY DEF vars
<1> QED BY <1>2, <1>3, <1>4, <1>5, <1>6, <1>7, <1>8, <1>9 DEF Next

(* A row disappears by CommitDelete only.                                  *)
LEMMA GoneByDelete ==
    ASSUME TypeOK, [Next]_vars, NEW u \in Users, Exists(u), ~Exists(u)'
    PROVE  \E r \in Requests : CommitDelete(r) /\ u = req[r].target
<1>1. rows' # rows
  BY DEF Exists
<1>2. ASSUME NEW r \in Requests, Create(r) PROVE FALSE
  BY <1>2 DEF Create, Insert, Exists, NewRow, TypeOK
<1>3. ASSUME NEW r \in Requests, NEW w \in Users, ScriptCreate(r, w) PROVE FALSE
  BY <1>3 DEF ScriptCreate, Insert, Exists, NewRow, TypeOK
<1>4. ASSUME NEW r \in Requests, CommitUpdate(r) PROVE FALSE
  <2>1. \A row, read \in Row, ask \in Ask : Written(row, read, ask).state = row.state
    BY DEF Written, Row
  <2>2. req[r] \in Request /\ req[r].read \in Row /\ req[r].ask \in Ask
    BY DEF TypeOK, Request
  <2> QED BY <1>1, <1>4, <2>1, <2>2 DEF CommitUpdate, Exists, TypeOK
<1>5. ASSUME NEW r \in Requests, CommitDelete(r) PROVE u = req[r].target
  BY <1>5 DEF CommitDelete, Exists, TypeOK
<1> QED BY <1>1, <1>2, <1>3, <1>4, <1>5
    DEF Next, vars, Authenticate, CreateRefused, ScriptReset, ReadTarget, Check

(* Without interference an account is deleted only when it is disabled.    *)
THEOREM OnlyDisabledDeletedTheorem == Spec => OnlyDisabledDeleted
<1>1. ASSUME IInv, [Next]_vars, NEW u \in Users, Exists(u), ~Exists(u)', serial'
      PROVE  rows[u].enabled = "no"
  <2>1. TypeOK
    BY <1>1 DEF IInv, TypeInv
  <2>2. PICK r \in Requests : CommitDelete(r) /\ u = req[r].target
    BY <1>1, <2>1, GoneByDelete
  <2>3. serial
    BY <1>1, <2>2 DEF CommitDelete, Committed
  <2> QED BY <1>1, <2>1, <2>2, <2>3, DeleteKeepsAdmin DEF IInv, SerialInv
<1>2. IInv /\ [Next]_vars
        => [\A u \in Users : Exists(u) /\ ~Exists(u)' /\ serial' => rows[u].enabled = "no"]_vars
  BY <1>1
<1> QED BY <1>2, AccountsInvariant, PTL DEF Spec, OnlyDisabledDeleted

(* A request changes only its account, only columns whose field it sends,  *)
(* and only to what that field is stored as.                               *)
THEOREM OnlySentFieldsChangeTheorem == Spec => OnlySentFieldsChange
<1> DEFINE Sent(r, u) ==
             /\ rows'[u] # rows[u] => u = req[r].target
             /\ rows'[u].role # rows[u].role
                  => req[r].ask.role # "keep" /\ rows'[u].role = StoredRole(req[r].ask)
             /\ rows'[u].enabled # rows[u].enabled
                  => req[r].ask.enabled # "keep" /\ rows'[u].enabled = StoredEnabled(req[r].ask)
<1>1. ASSUME TypeOK, [Next]_vars, NEW r \in Requests, NEW u \in Users,
             req[r].stage = "checked", req[r].op # "delete", req'[r].stage = "idle"
      PROVE  Sent(r, u)
  <2>1. CommitUpdate(r)
    BY <1>1, StepEffects DEF CommitDelete
  <2>2. req[r].read \in Row /\ req[r].ask \in Ask /\ rows[u] \in Row
    BY <1>1 DEF TypeOK, Request
  <2>3. CASE rows'[u] = rows[u]
    BY <2>3
  <2>4. CASE rows'[u] # rows[u]
    <3>1. /\ u = req[r].target
          /\ rows'[u] = Written(rows[u], req[r].read, req[r].ask)
      BY <1>1, <2>1, <2>4 DEF CommitUpdate, TypeOK
    <3> DEFINE new == Asked(req[r].read, req[r].ask)
    <3>2. /\ rows'[u].role = IF new.role # req[r].read.role THEN new.role ELSE rows[u].role
          /\ rows'[u].enabled = IF new.enabled # req[r].read.enabled THEN new.enabled
                                                                    ELSE rows[u].enabled
      BY <3>1, <2>2 DEF Written, Row
    <3>3. /\ new.role = IF req[r].ask.role = "keep" THEN req[r].read.role
                        ELSE StoredRole(req[r].ask)
          /\ new.enabled = IF req[r].ask.enabled = "keep" THEN req[r].read.enabled
                           ELSE StoredEnabled(req[r].ask)
      BY <2>2 DEF Asked, Row
    <3> HIDE DEF new
    <3> QED BY <3>1, <3>2, <3>3
  <2> QED BY <2>3, <2>4
<1>2. TypeOK /\ [Next]_vars
        => [\A r \in Requests, u \in Users :
              req[r].stage = "checked" /\ req[r].op # "delete" /\ req'[r].stage = "idle"
                => Sent(r, u)]_vars
  BY <1>1
<1> QED BY <1>2, AccountsTypeCorrect, PTL DEF Spec, OnlySentFieldsChange

(* The new value in the audit entry of a request without interference is   *)
(* the row after its commit.                                               *)
THEOREM AuditTellsRowTheorem == Spec => AuditTellsRow
<1>1. ASSUME IInv, [Next]_vars, NEW r \in Requests, req[r].stage = "checked",
             req[r].op # "delete", req'[r].stage = "idle", ~req[r].self, serial'
      PROVE  rows'[req[r].target] = Asked(req[r].read, req[r].ask)
  <2>1. TypeOK /\ CommitUpdate(r)
    BY <1>1, StepEffects DEF CommitDelete, IInv, TypeInv
  <2>2. serial
    BY <1>1, <2>1 DEF CommitUpdate, Committed, history
  <2>3. /\ req[r].read = rows[req[r].target] /\ Exists(req[r].target)
        /\ req[r].target \in Users
        /\ req[r].read \in Row /\ req[r].ask \in Ask
    BY <1>1, <2>1, <2>2 DEF IInv, SerialInv, Fresh, InWindow, Exists, TypeOK, Request
  <2>4. rows'[req[r].target] = Written(req[r].read, req[r].read, req[r].ask)
    BY <2>1, <2>3 DEF CommitUpdate, TypeOK
  <2>5. Written(req[r].read, req[r].read, req[r].ask) = Asked(req[r].read, req[r].ask)
    BY <2>3 DEF Written, Asked, Row
  <2> QED BY <2>4, <2>5
<1>2. IInv /\ [Next]_vars
        => [\A r \in Requests :
              (/\ req[r].stage = "checked" /\ req[r].op # "delete" /\ req'[r].stage = "idle"
               /\ ~req[r].self /\ serial')
              => rows'[req[r].target] = Asked(req[r].read, req[r].ask)]_vars
  BY <1>1
<1> QED BY <1>2, AccountsInvariant, PTL DEF Spec, AuditTellsRow
=============================================================================
