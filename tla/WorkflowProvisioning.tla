------------------------ MODULE WorkflowProvisioning ------------------------
(***************************************************************************)
(* The workflows of one Paperless server and the calls that set them up:   *)
(* ensure_ezeus_workflow of the connector, called by create_instance and   *)
(* provision_instance_workflow of apps/api/paperless_instances.py.  A call *)
(* lists the workflows once and derives all its writes from that listing;  *)
(* other calls and the users of Paperless change workflows meanwhile.      *)
(***************************************************************************)
EXTENDS Naturals, Sequences, FiniteSets

CONSTANTS
    Slugs,         \* instances of this server; the slug is part of the webhook URL
    Calls,         \* provisioning requests that run at the same time
    Settings,      \* settings an instance may have
    MaxId,         \* bound: workflows ever created in Paperless
    MaxChanges,    \* bound: changed settings, rotated secrets and deleted instances
    MaxTroubles    \* bound: failing requests, dying calls and edits of users

\* Settings _validate_active_workflow_tags accepts.  ocrRequest tells whether
\* the OCR handoff has a request tag; secret counts the rotations.
ValidSettings ==
    {s \in [mode : {"document_added", "tag_added"}, ocr : BOOLEAN, ocrRequest : BOOLEAN,
            manual : BOOLEAN, secret : Nat] :
        /\ ~(s.ocr /\ s.mode = "tag_added")
        /\ s.ocrRequest => s.ocr}

\* The defaults of the table, with the first secret.
DefaultSettings ==
    [mode |-> "document_added", ocr |-> FALSE, ocrRequest |-> FALSE, manual |-> FALSE,
     secret |-> 1]

NoUrl == "no webhook"  \* URL of a workflow that calls no webhook

ASSUME ProvisioningAssumption ==
    /\ Settings \subseteq ValidSettings /\ DefaultSettings \in Settings
    /\ {MaxId, MaxChanges, MaxTroubles} \subseteq Nat
    /\ NoUrl \notin Slugs

VARIABLES
    rows,         \* row of each instance: [state, settings]
    workflows,    \* workflow of each identifier, or None
    calls,        \* what each call has listed and still has to write
    provisioned,  \* history: the last call for the instance succeeded undisturbed and
                  \* neither its settings nor a workflow has changed since
    budget        \* what is left of the bounds

vars == <<rows, workflows, calls, provisioned, budget>>

Ids == 1..MaxId

\* Names that ensure_ezeus_workflow manages; "legacy" is the former name of
\* the manual workflow, "user" any other.
ManagedNames == {"managed", "manual", "legacy", "ocr request", "ocr complete"}

\* What the triggers and actions of a workflow amount to.  "scheduled" stands
\* for triggers of other types than 2 (added) and 3 (updated).
Kinds == {"document-added", "tag-added", "ocr-complete", "ocr-complete, unmark",
          "manual", "request OCR", "complete OCR", "scheduled"}

Workflow == [name : ManagedNames \cup {"user"}, enabled : BOOLEAN,
             url : Slugs \cup {NoUrl}, secret : Nat, kind : Kinds]
None == [name |-> "none"]        \* not created yet
Deleted == [name |-> "deleted"]  \* identifiers are not used twice

Spend(what) ==
    /\ budget[what] > 0
    /\ budget' = [budget EXCEPT ![what] = @ - 1]

Present(list) == {id \in Ids : list[id] \notin {None, Deleted}}
Unused == {id \in Ids : workflows[id] = None}

-----------------------------------------------------------------------------
(* Payloads.                                                               *)

Enabled(name, url, secret, kind) ==
    [name |-> name, enabled |-> TRUE, url |-> url, secret |-> secret, kind |-> kind]

AutomaticPayload(i, s) ==
    Enabled("managed", i, s.secret,
            CASE s.ocrRequest -> "ocr-complete, unmark"
              [] s.ocr /\ ~s.ocrRequest -> "ocr-complete"
              [] s.mode = "tag_added" -> "tag-added"
              [] OTHER -> "document-added")
ManualPayload(i, s) == Enabled("manual", i, s.secret, "manual")
RequestPayload == Enabled("ocr request", NoUrl, 0, "request OCR")
CompletePayload == Enabled("ocr complete", NoUrl, 0, "complete OCR")

(* The writes of a call.                                                   *)

Write(do, id, payload) == [do |-> do, id |-> id, payload |-> payload]

\* next(item for item in workflows if item.get("name") in names)
Named(list, names) == {id \in Present(list) : list[id].name \in names}
FirstOf(ids) == CHOOSE id \in ids : \A other \in ids : id <= other

\* _upsert_workflow
Upsert(list, names, payload) ==
    IF Named(list, names) = {}
    THEN <<Write("post", 0, payload)>>
    ELSE <<Write("put", FirstOf(Named(list, names)), payload)>>

\* _disable_workflow
Disable(list, names) ==
    LET found == Named(list, names)
    IN IF found # {} /\ list[FirstOf(found)].enabled
       THEN <<Write("disable", FirstOf(found), None)>>
       ELSE << >>

\* Fault: managed workflows count as conflicts.
ConflictsWithManaged(list, i) ==
    {id \in Present(list) :
        list[id].enabled /\ list[id].url = i /\ list[id].kind # "scheduled"}

\* Fault: triggers of any type count.
ConflictsOfAnyKind(list, i) ==
    {id \in Present(list) :
        list[id].name \notin ManagedNames /\ list[id].enabled /\ list[id].url = i}

\* Other enabled workflows that send document events to the same URL.
Conflicts(list, i) ==
    {id \in Present(list) :
        /\ list[id].name \notin ManagedNames
        /\ list[id].enabled
        /\ list[id].url = i
        /\ list[id].kind # "scheduled"}
Position(ids, id) == Cardinality({other \in ids : other <= id})
DisableConflicts(list, i) ==
    LET ids == Conflicts(list, i)
        nth(n) == CHOOSE id \in ids : Position(ids, id) = n
    IN [n \in 1..Cardinality(ids) |-> Write("disable", nth(n), None)]

\* Fault: the plan leaves the OCR workflows alone without the handoff.
PlanWithoutOcrCleanup(list, i, s) ==
    (IF s.ocr /\ s.ocrRequest
     THEN Upsert(list, {"ocr request"}, RequestPayload)
          \o Upsert(list, {"ocr complete"}, CompletePayload)
     ELSE << >>)
    \o DisableConflicts(list, i)
    \o Upsert(list, {"managed"}, AutomaticPayload(i, s))
    \o (IF s.manual
        THEN Upsert(list, {"manual", "legacy"}, ManualPayload(i, s))
        ELSE Disable(list, {"manual", "legacy"}))

Plan(list, i, s) ==
    (IF s.ocr /\ s.ocrRequest
     THEN Upsert(list, {"ocr request"}, RequestPayload)
          \o Upsert(list, {"ocr complete"}, CompletePayload)
     ELSE Disable(list, {"ocr request"}) \o Disable(list, {"ocr complete"}))
    \o DisableConflicts(list, i)
    \o Upsert(list, {"managed"}, AutomaticPayload(i, s))
    \o (IF s.manual
        THEN Upsert(list, {"manual", "legacy"}, ManualPayload(i, s))
        ELSE Disable(list, {"manual", "legacy"}))

\* What the users of an instance rely on after a successful call: the enabled
\* workflows that eZEUS manages or that send document events to the instance.
Expected(i, s) ==
    {AutomaticPayload(i, s)}
    \cup (IF s.manual THEN {ManualPayload(i, s)} ELSE {})
    \cup (IF s.ocrRequest THEN {RequestPayload, CompletePayload} ELSE {})

Effective(i) ==
    {w \in {workflows[id] : id \in Present(workflows)} :
        w.enabled /\ (w.name \in ManagedNames \/ (w.url = i /\ w.kind # "scheduled"))}

-----------------------------------------------------------------------------
(* A write or an edit that changes a workflow disturbs the calls of others *)
(* and ends what earlier calls have promised.                              *)
Change(list) ==
    /\ workflows' = list
    /\ provisioned' = IF list = workflows THEN provisioned ELSE [i \in Slugs |-> FALSE]

Idle == [stage |-> "idle"]
Running(c) == calls[c] # Idle
Disturbed(others) ==
    [c \in Calls |-> IF Running(c) /\ c \in others THEN [calls[c] EXCEPT !.alone = FALSE]
                                                   ELSE calls[c]]

\* Calls that have loaded settings of an instance which change now.
Outdated(i) ==
    [c \in Calls |-> IF Running(c) /\ calls[c].slug = i THEN [calls[c] EXCEPT !.alone = FALSE]
                                                        ELSE calls[c]]

Started(i, s, creating) ==
    [stage |-> "list", slug |-> i, settings |-> s, creating |-> creating,
     todo |-> << >>, alone |-> TRUE, again |-> FALSE, edited |-> {}]

\* create_instance: the row is committed before Paperless is called.
Create(c, i) ==
    /\ ~Running(c)
    /\ rows[i].state = "free"
    /\ rows' = [rows EXCEPT ![i] = [state |-> "row", settings |-> DefaultSettings]]
    /\ calls' = [Outdated(i) EXCEPT ![c] = Started(i, DefaultSettings, TRUE)]
    /\ UNCHANGED <<workflows, provisioned, budget>>

\* provision_instance_workflow: the settings are those of the row read here.
Provision(c, i) ==
    /\ ~Running(c)
    /\ rows[i].state = "row"
    /\ calls' = [calls EXCEPT ![c] = Started(i, rows[i].settings, FALSE)]
    /\ UNCHANGED <<rows, workflows, provisioned, budget>>

\* GET /api/workflows/ decides all writes; the settings are not needed again.
List(c) ==
    /\ calls[c].stage = "list"
    /\ calls' = [calls EXCEPT ![c].stage = "write",
                              ![c].todo = Plan(workflows, calls[c].slug, calls[c].settings),
                              ![c].settings = DefaultSettings,
                              ![c].again = calls[c].alone /\ provisioned[calls[c].slug],
                              ![c].edited = {}]
    /\ UNCHANGED <<rows, workflows, provisioned, budget>>

\* Paperless (external): it refuses a second workflow of one name and answers
\* 404 for a deleted one.
Accepted(w) ==
    /\ w.do = "post" => Unused # {}
    /\ w.do # "post" => w.id \in Present(workflows)
    /\ w.do # "disable" => Named(workflows, {w.payload.name}) \subseteq {w.id}
Applied(w) ==
    CASE w.do = "post" -> [workflows EXCEPT ![FirstOf(Unused)] = w.payload]
      [] w.do = "put" -> [workflows EXCEPT ![w.id] = w.payload]
      [] OTHER -> [workflows EXCEPT ![w.id].enabled = FALSE]

\* A failing creation takes its row back; the workflows written so far stay.
Fail(c) ==
    /\ IF calls[c].creating
       THEN /\ rows' = [rows EXCEPT ![calls[c].slug].state = "free"]
            /\ calls' = [Outdated(calls[c].slug) EXCEPT ![c] = Idle]
            /\ provisioned' = [provisioned EXCEPT ![calls[c].slug] = FALSE]
       ELSE /\ calls' = [calls EXCEPT ![c] = Idle]
            /\ UNCHANGED <<rows, provisioned>>
    /\ UNCHANGED workflows

WriteNext(c) ==
    /\ calls[c].stage = "write" /\ calls[c].todo # << >>
    /\ Accepted(Head(calls[c].todo))
    /\ Change(Applied(Head(calls[c].todo)))
    /\ calls' = [(IF workflows' = workflows THEN calls ELSE Disturbed(Calls \ {c}))
                    EXCEPT ![c].todo = Tail(@)]
    /\ UNCHANGED <<rows, budget>>

WriteRefused(c) ==
    /\ calls[c].stage = "write" /\ calls[c].todo # << >>
    /\ ~Accepted(Head(calls[c].todo))
    /\ Fail(c)
    /\ UNCHANGED budget

\* A request to Paperless fails, before or after it has been carried out.
RequestFails(c) ==
    /\ Running(c)
    /\ Spend("troubles")
    /\ Fail(c)

AnswerLost(c) ==
    /\ calls[c].stage = "write" /\ calls[c].todo # << >>
    /\ Accepted(Head(calls[c].todo))
    /\ Spend("troubles")
    /\ workflows' = Applied(Head(calls[c].todo))
    /\ calls' = [Disturbed(Calls \ {c}) EXCEPT ![c] = Idle]
    /\ provisioned' = [i \in Slugs |-> FALSE]
    /\ rows' = IF calls[c].creating THEN [rows EXCEPT ![calls[c].slug].state = "free"] ELSE rows

\* The API dies: a row being created stays.
CallDies(c) ==
    /\ Running(c)
    /\ Spend("troubles")
    /\ calls' = [calls EXCEPT ![c] = Idle]
    /\ UNCHANGED <<rows, workflows, provisioned>>

\* The call has done all its writes and is answered with 200 or 201.
Succeed(c) ==
    /\ calls[c].stage = "write" /\ calls[c].todo = << >>
    /\ calls' = [calls EXCEPT ![c] = Idle]
    /\ provisioned' = [provisioned EXCEPT ![calls[c].slug] = @ \/ calls[c].alone]
    /\ UNCHANGED <<rows, workflows, budget>>

-----------------------------------------------------------------------------
\* update_instance changes the row only; nothing provisions it again.
UpdateInstance(i, s) ==
    /\ rows[i].state = "row" /\ s # rows[i].settings
    /\ Spend("changes")
    /\ rows' = [rows EXCEPT ![i].settings = s]
    /\ provisioned' = [provisioned EXCEPT ![i] = FALSE]
    /\ calls' = Outdated(i)
    /\ UNCHANGED workflows

\* delete_instance marks the row of a disabled instance; its workflows stay and
\* its slug stays taken.  Provisioning does not look at the flag enabled, which
\* is left out.
DeleteInstance(i) ==
    /\ rows[i].state = "row"
    /\ Spend("changes")
    /\ rows' = [rows EXCEPT ![i].state = "deleted"]
    /\ provisioned' = [provisioned EXCEPT ![i] = FALSE]
    /\ calls' = Outdated(i)
    /\ UNCHANGED workflows

\* Paperless (external): a user creates, switches, deletes or edits a workflow.
\* anew is what he has made another workflow of since the calls have listed.
UserWorkflow(url, kind) == Enabled("user", url, 0, kind)
UserEdits(id, w, anew) ==
    /\ Spend("troubles")
    /\ w # workflows[id]
    /\ Change([workflows EXCEPT ![id] = w])
    /\ calls' = [c \in Calls |->
                   IF Running(c) THEN [calls[c] EXCEPT !.alone = FALSE, !.edited = @ \cup anew]
                                 ELSE calls[c]]
    /\ UNCHANGED rows

UserUrls == Slugs \cup {NoUrl}
UserKinds == {"document-added", "scheduled"}
UserCreates ==
    \E url \in UserUrls, kind \in UserKinds :
        /\ Unused # {}
        /\ UserEdits(FirstOf(Unused), UserWorkflow(url, kind), {})
UserSwitches ==
    \E id \in Present(workflows) :
        UserEdits(id, [workflows[id] EXCEPT !.enabled = ~@], {})
UserDeletes ==
    \E id \in Present(workflows) : UserEdits(id, Deleted, {})

\* The name, webhook URL or trigger changes.  Paperless admits no name twice; that
\* a user brings the former and the present name of the manual workflow together
\* is left out.
FreeNames(id) ==
    {name \in {"user"} \cup (ManagedNames \ {"legacy"}) :
        /\ name # "user" => Named(workflows, {name}) \subseteq {id}
        /\ name = "manual" => Named(workflows, {"legacy"}) \subseteq {id}}
UserChanges ==
    \E id \in Present(workflows) :
        \/ \E name \in FreeNames(id) :
              UserEdits(id, [workflows[id] EXCEPT !.name = name], {id})
        \/ \E url \in UserUrls : UserEdits(id, [workflows[id] EXCEPT !.url = url], {id})
        \/ \E kind \in UserKinds : UserEdits(id, [workflows[id] EXCEPT !.kind = kind], {id})

\* Instances may exist that no call has provisioned: without a public webhook
\* URL create_instance does not call Paperless.
Init ==
    /\ rows \in [Slugs -> {[state |-> "free", settings |-> DefaultSettings]}
                        \cup [state : {"row"}, settings : Settings \ {DefaultSettings}]]
    /\ \E old \in {Enabled("legacy", i, 0, "manual") : i \in Slugs}
                \cup {UserWorkflow(i, "document-added") : i \in Slugs} :
          workflows = [id \in Ids |-> IF id = 1 THEN old ELSE None]
    /\ calls = [c \in Calls |-> Idle]
    /\ provisioned = [i \in Slugs |-> FALSE]
    /\ budget = [changes |-> MaxChanges, troubles |-> MaxTroubles]

CallStep(c) ==
    \/ \E i \in Slugs : Create(c, i)
    \/ \E i \in Slugs : Provision(c, i)
    \/ List(c)
    \/ WriteNext(c)
    \/ WriteRefused(c)
    \/ RequestFails(c)
    \/ AnswerLost(c)
    \/ CallDies(c)
    \/ Succeed(c)

Next ==
    \/ \E c \in Calls : CallStep(c)
    \/ \E i \in Slugs, s \in Settings : UpdateInstance(i, s)
    \/ \E i \in Slugs : DeleteInstance(i)
    \/ UserCreates
    \/ UserSwitches
    \/ UserDeletes
    \/ UserChanges

Spec == Init /\ [][Next]_vars

-----------------------------------------------------------------------------
Budget == [changes : 0..MaxChanges, troubles : 0..MaxTroubles]
WriteType == [do : {"post", "put", "disable"}, id : {0} \cup Ids, payload : Workflow \cup {None}]
CallType ==
    [stage : {"list", "write"}, slug : Slugs, settings : Settings, creating : BOOLEAN,
     todo : Seq(WriteType), alone : BOOLEAN, again : BOOLEAN, edited : SUBSET Ids]

(* Rows, workflows and running calls stay what the table and Paperless     *)
(* admit; the list of writes still to send never holds a deletion.         *)
TypeOK ==
    /\ rows \in [Slugs -> [state : {"free", "row", "deleted"}, settings : Settings]]
    /\ workflows \in [Ids -> Workflow \cup {None, Deleted}]
    /\ calls \in [Calls -> CallType \cup {Idle}]
    /\ provisioned \in [Slugs -> BOOLEAN]
    /\ budget \in Budget

(* A call that succeeds without interference leaves exactly the workflows  *)
(* its settings ask for, whatever failed, crashed or overlapping calls and *)
(* users have left behind: every trigger once, nothing else for this URL.  *)
ProvisionedAsConfigured ==
    \A i \in Slugs : provisioned[i] => Effective(i) = Expected(i, rows[i].settings)

(* "The stable workflow name makes this operation idempotent": repeated    *)
(* after a success, without interference, a call changes nothing.          *)
RepetitionChangesNothing ==
    [][\A c \in Calls :
          Running(c) /\ calls[c].stage = "write" /\ calls[c].again /\ calls[c].alone
          /\ WriteNext(c) => workflows' = workflows]_vars

(* A workflow of a user that sends no document events to the instance of a *)
(* call is not touched by it, however old its listing is, unless the user  *)
(* has given it its name, webhook URL or trigger after that listing.       *)
Foreign(w, i) == w.name = "user" /\ (w.url # i \/ w.kind = "scheduled")
ForeignWorkflowsKept ==
    [][\A id \in Ids, c \in Calls :
          (/\ WriteNext(c) \/ AnswerLost(c)
           /\ Foreign(workflows[id], calls[c].slug)
           /\ id \notin calls[c].edited)
          => workflows'[id] = workflows[id]]_vars

=============================================================================
