--------------------------- MODULE WebhookIntake ---------------------------
(***************************************************************************)
(* How a document of Paperless starts a job: the workflows that            *)
(* ensure_ezeus_workflow sets up, their execution by Paperless (external),  *)
(* and the webhook router that verifies the trigger, accepts the event and  *)
(* consumes the one-shot tag.  One document of one instance; its job is     *)
(* reduced to "active or not" (module JobQueue has the rest).               *)
(***************************************************************************)
EXTENDS Naturals, Sequences

CONSTANTS
    Handlers,      \* webhook requests the API handles at the same time
    Instances,     \* settings an instance may have
    Bounds         \* bounds: one-shot tags set by users, other changes of the document,
                   \* and faults: failing calls of the router and tags deleted in Paperless

OneShot == {"manual", "automatic"}
OcrTags == {"request", "pending", "complete", "triggered"}
Tags == OneShot \cup OcrTags

Triggers == {"document-added", "tag-added", "ocr-complete", "manual"}

\* Settings that the API accepts: OCR handoff and automatic tag trigger
\* exclude each other, and the OCR request tag belongs to the handoff.
ValidInstance ==
    {i \in [mode : {"document_added", "tag_added"}, ocr : BOOLEAN, ocrRequest : BOOLEAN,
            manual : BOOLEAN] :
        /\ ~(i.ocr /\ i.mode = "tag_added")
        /\ i.ocrRequest => i.ocr}

ASSUME IntakeAssumption ==
    /\ Instances \subseteq ValidInstance
    /\ Bounds \subseteq [commands : Nat, changes : Nat, faults : Nat]

VARIABLES
    instance,      \* settings; the workflows are provisioned from them
    tags,          \* tags of the document
    deleted,       \* tags deleted in Paperless
    events,        \* document events Paperless has not run its workflows for
    todo,          \* workflows the running pass still evaluates
    actions,       \* actions of the matching workflow still to be done
    webhooks,      \* webhooks under way to the API
    handler,       \* [stage, trigger, read] of each request
    jobActive,     \* the document has an active job
    jobs,          \* jobs created by each trigger
    unanswered,    \* one-shot tags no event was accepted for since they were set
    overlapped,    \* those of them set while a request removed a one-shot tag
    given,         \* tags that users and Paperless-gpt have set on the document
    budget,        \* what is left of the bounds
    faulty         \* history: a fault has occurred

docVars == <<tags, deleted, events>>
engineVars == <<todo, actions>>
jobVars == <<jobActive, jobs>>
commandVars == <<unanswered, overlapped>>
boundVars == <<budget, faulty>>
vars == <<instance, docVars, engineVars, webhooks, handler, jobVars, commandVars, given, boundVars>>

Spend(what) ==
    /\ budget[what] > 0
    /\ budget' = [budget EXCEPT ![what] = @ - 1]
    /\ faulty' = (faulty \/ what = "faults")

Idle == [stage |-> "idle", trigger |-> "manual", read |-> {}]

-----------------------------------------------------------------------------
(* Workflows: connectors/paperless/connector.py, ensure_ezeus_workflow.     *)

Webhook(trigger) == [do |-> "webhook", arg |-> {trigger}]
Assign(S) == [do |-> "assign", arg |-> S]
Remove(S) == [do |-> "remove", arg |-> S]

Workflow(type, has, hasNot, acts) ==
    [type |-> type, has |-> has, hasNot |-> hasNot, actions |-> acts]

\* order -20 and -10, only with an OCR request tag.
OcrRequestWorkflow == Workflow("added", {}, {}, <<Assign({"request", "pending"})>>)
OcrCompleteWorkflow ==
    Workflow("updated", {"pending"}, {"request", "complete"},
             <<Assign({"complete"}), Remove({"pending"})>>)

\* order 0, the managed workflow.
AutomaticWorkflow(i) ==
    CASE i.ocr ->
           Workflow("updated", {"complete"}, {"triggered"},
                    <<Webhook("ocr-complete"), Assign({"triggered"})>>
                    \o (IF i.ocrRequest THEN <<Remove({"pending"})>> ELSE << >>))
      [] i.mode = "tag_added" ->
           Workflow("updated", {"automatic"}, {}, <<Webhook("tag-added")>>)
      [] OTHER ->
           Workflow("added", {}, {}, <<Webhook("document-added")>>)

\* order 10.
ManualWorkflow == Workflow("updated", {"manual"}, {}, <<Webhook("manual")>>)

\* The enabled workflows with a trigger of one type, in their order.
Workflows(i, type) ==
    LET enabled(condition, w) == IF condition /\ w.type = type THEN <<w>> ELSE << >>
    IN enabled(i.ocrRequest, OcrRequestWorkflow) \o enabled(i.ocrRequest, OcrCompleteWorkflow)
       \o enabled(TRUE, AutomaticWorkflow(i)) \o enabled(i.manual, ManualWorkflow)

\* Tags the workflows of an instance refer to.
UsedTags(i) ==
    (IF i.manual THEN {"manual"} ELSE {})
    \cup (IF i.mode = "tag_added" THEN {"automatic"} ELSE {})
    \cup (IF i.ocr THEN {"complete", "triggered"} ELSE {})
    \cup (IF i.ocrRequest THEN {"request", "pending"} ELSE {})

-----------------------------------------------------------------------------
(* Paperless (external): documents, tags and the execution of workflows.    *)

Changed == [events EXCEPT !.updated = @ + 1]

\* Requests that are about to write back the tags of the document.
Removing == {h \in Handlers : handler[h].stage \in {"consume", "patch"}}

\* A user sets a one-shot tag of the instance.
SetTag(t) ==
    /\ t \in UsedTags(instance) \ (tags \cup deleted)
    /\ Spend("commands")
    /\ tags' = tags \cup {t}
    /\ given' = given \cup {t}
    /\ unanswered' = unanswered \cup {t}
    /\ overlapped' = IF Removing = {} THEN overlapped \ {t} ELSE overlapped \cup {t}
    /\ events' = Changed
    /\ UNCHANGED <<instance, deleted, engineVars, webhooks, handler, jobVars>>

\* A user or the running job changes something else of the document.
ChangeDocument ==
    /\ Spend("changes")
    /\ events' = Changed
    /\ UNCHANGED <<instance, tags, deleted, engineVars, webhooks, handler, jobVars, commandVars,
                   given>>

\* Paperless-gpt ends its OCR: it takes the request tag off, or sets the
\* completion tag itself.
FinishOcr ==
    /\ instance.ocr
    /\ IF instance.ocrRequest
       THEN /\ "request" \in tags
            /\ tags' = tags \ {"request"}
       ELSE /\ "complete" \notin given \cup deleted
            /\ tags' = tags \cup {"complete"}
    /\ given' = given \cup {"complete"}
    /\ events' = Changed
    /\ UNCHANGED <<instance, deleted, engineVars, webhooks, handler, jobVars, commandVars,
                   boundVars>>

\* A tag is deleted: Paperless takes it off documents and out of workflows.
DeleteTag(t) ==
    /\ t \in UsedTags(instance) \ deleted
    /\ Spend("faults")
    /\ deleted' = deleted \cup {t}
    /\ tags' = tags \ {t}
    /\ UNCHANGED <<instance, events, engineVars, webhooks, handler, jobVars, commandVars, given>>

\* Paperless runs its workflows, in their order, for a document event.
StartPass(type) ==
    /\ todo = << >> /\ actions = << >>
    /\ events[type] > 0
    /\ type = "updated" => events["added"] = 0
    /\ events' = [events EXCEPT ![type] = @ - 1]
    /\ todo' = Workflows(instance, type)
    /\ UNCHANGED <<instance, tags, deleted, actions, webhooks, handler, jobVars, commandVars, given,
                   boundVars>>

\* The filter of a trigger; a deleted tag is no longer part of it.
Matches(w) ==
    /\ w.has \ deleted \subseteq tags
    /\ w.hasNot \cap tags = {}

EvaluateWorkflow ==
    /\ actions = << >> /\ todo # << >>
    /\ todo' = Tail(todo)
    /\ actions' = IF Matches(Head(todo)) THEN Head(todo).actions ELSE << >>
    /\ UNCHANGED <<instance, docVars, webhooks, handler, jobVars, commandVars, given, boundVars>>

\* One action of a workflow.  A webhook is only handed to a background task:
\* "The webhook is executed asynchronously by Paperless" (connector.py).
RunAction ==
    /\ actions # << >>
    /\ LET a == Head(actions)
       IN /\ tags' = CASE a.do = "assign" -> tags \cup (a.arg \ deleted)
                       [] a.do = "remove" -> tags \ a.arg
                       [] OTHER -> tags
          /\ webhooks' = IF a.do = "webhook"
                         THEN [t \in Triggers |-> webhooks[t] + IF t \in a.arg THEN 1 ELSE 0]
                         ELSE webhooks
    /\ actions' = Tail(actions)
    /\ UNCHANGED <<instance, deleted, events, todo, handler, jobVars, commandVars, given, boundVars>>

-----------------------------------------------------------------------------
(* Router: webhooks/paperless/router.py.                                    *)

Stage(h, stage) == handler' = [handler EXCEPT ![h].stage = stage]
Answer(h) == handler' = [handler EXCEPT ![h] = Idle]

\* required_tag_names and forbidden_tag_names of a trigger.
RequiredTags(trigger) ==
    CASE trigger = "manual" -> {"manual"}
      [] trigger = "tag-added" -> {"automatic"}
      [] trigger = "ocr-complete" -> {"complete"}
      [] OTHER -> {}
ForbiddenTags(trigger) == IF trigger = "ocr-complete" THEN {"triggered"} ELSE {}

\* The settings refuse a trigger that the instance does not use.
TriggerEnabled(trigger) ==
    CASE trigger = "document-added" -> instance.mode = "document_added"
      [] trigger = "manual" -> instance.manual
      [] trigger = "tag-added" -> instance.mode = "tag_added"
      [] OTHER -> instance.ocr

\* The tag a handler removes after it has accepted the event.
ConsumedTags(trigger) == IF trigger \in {"tag-added", "manual"} THEN RequiredTags(trigger) ELSE {}

Receive(h, trigger) ==
    /\ handler[h].stage = "idle"
    /\ webhooks[trigger] > 0
    /\ webhooks' = [webhooks EXCEPT ![trigger] = @ - 1]
    /\ handler' = [handler EXCEPT ![h] = [stage |-> "verify", trigger |-> trigger, read |-> {}]]
    /\ UNCHANGED <<instance, docVars, engineVars, jobVars, commandVars, given, boundVars>>

\* Fault: a missing tag is no reason to refuse the trigger.
ValidByPresentTags(trigger, read) ==
    /\ RequiredTags(trigger) \ deleted \subseteq read
    /\ (ForbiddenTags(trigger) \ deleted) \cap read = {}

\* The condition on the document and on the tags find_tag finds.
Valid(trigger, read) ==
    /\ (RequiredTags(trigger) \cup ForbiddenTags(trigger)) \cap deleted = {}
    /\ RequiredTags(trigger) \subseteq read
    /\ ForbiddenTags(trigger) \cap read = {}

\* _verify_instance_trigger.  The document is read before the tags; a tag
\* deleted between the two calls counts as deleted after both.
VerifyTrigger(h) ==
    /\ handler[h].stage = "verify"
    /\ LET trigger == handler[h].trigger
       IN IF TriggerEnabled(trigger) /\ Valid(trigger, tags) THEN Stage(h, "accept") ELSE Answer(h)
    /\ UNCHANGED <<instance, docVars, engineVars, webhooks, jobVars, commandVars, given,
                   boundVars>>

\* Fault: a request that fails consumes its tag nevertheless.
HandlerFailsConsuming(h) ==
    /\ handler[h].stage \in {"verify", "accept"}
    /\ ConsumedTags(handler[h].trigger) # {}
    /\ Spend("faults")
    /\ Stage(h, "consume")
    /\ UNCHANGED <<instance, docVars, engineVars, webhooks, jobVars, commandVars, given>>

\* 503: Paperless or the job service does not answer.
HandlerFails(h) ==
    /\ handler[h].stage \in {"verify", "accept"}
    /\ handler[h].stage = "verify" => handler[h].trigger # "document-added"
    /\ Spend("faults")
    /\ Answer(h)
    /\ UNCHANGED <<instance, docVars, engineVars, webhooks, jobVars, commandVars, given>>

\* Where a handler goes after the event is accepted.
AfterAccept(trigger) == IF ConsumedTags(trigger) = {} THEN "idle" ELSE "consume"

\* Fault: an event for a document with an active job is refused.
AcceptEventWithoutJob(h) ==
    /\ handler[h].stage = "accept"
    /\ LET trigger == handler[h].trigger
       IN IF jobActive
          THEN Answer(h) /\ UNCHANGED <<jobVars, unanswered>>
          ELSE /\ jobs' = [jobs EXCEPT ![trigger] = @ + 1]
               /\ unanswered' = unanswered \ RequiredTags(trigger)
               /\ jobActive' = TRUE
               /\ IF AfterAccept(trigger) = "idle" THEN Answer(h) ELSE Stage(h, AfterAccept(trigger))
    /\ UNCHANGED <<instance, docVars, engineVars, webhooks, overlapped, given, boundVars>>

\* _accept_event: a new job, unless the document has an active one.
AcceptEvent(h) ==
    /\ handler[h].stage = "accept"
    /\ LET trigger == handler[h].trigger
       IN /\ jobs' = IF jobActive THEN jobs ELSE [jobs EXCEPT ![trigger] = @ + 1]
          /\ unanswered' = unanswered \ RequiredTags(trigger)
          /\ IF AfterAccept(trigger) = "idle" THEN Answer(h) ELSE Stage(h, AfterAccept(trigger))
    /\ jobActive' = TRUE
    /\ UNCHANGED <<instance, docVars, engineVars, webhooks, overlapped, given, boundVars>>

\* remove_document_tag reads the tags ...
ReadTags(h) ==
    /\ handler[h].stage = "consume"
    /\ handler' = [handler EXCEPT ![h].stage = "patch", ![h].read = tags]
    /\ UNCHANGED <<instance, docVars, engineVars, webhooks, jobVars, commandVars, given, boundVars>>

\* ... and writes the whole list back.  Paperless refuses a list that names
\* a tag it has deleted; the failure is logged.
PatchTags(h) ==
    /\ handler[h].stage = "patch"
    /\ LET remaining == handler[h].read \ ConsumedTags(handler[h].trigger)
       IN IF remaining \cap deleted = {}
          THEN tags' = remaining /\ events' = Changed
          ELSE UNCHANGED <<tags, events>>
    /\ Answer(h)
    /\ UNCHANGED <<instance, deleted, engineVars, webhooks, jobVars, commandVars, given, boundVars>>

\* remove_document_tag raises: "eine spätere Änderung kann erneut auslösen".
ConsumeFails(h) ==
    /\ handler[h].stage \in {"consume", "patch"}
    /\ Spend("faults")
    /\ Answer(h)
    /\ UNCHANGED <<instance, docVars, engineVars, webhooks, jobVars, commandVars, given>>

\* The job of the document ends (module JobQueue).
JobEnds ==
    /\ jobActive
    /\ jobActive' = FALSE
    /\ UNCHANGED <<instance, docVars, engineVars, webhooks, handler, jobs, commandVars, given,
                   boundVars>>

-----------------------------------------------------------------------------
Init ==
    /\ instance \in Instances
    /\ tags = {} /\ deleted = {}
    /\ events \in {[added |-> n, updated |-> 0] : n \in {0, 1}}   \* 0: older than the workflows
    /\ todo = << >> /\ actions = << >>
    /\ webhooks = [t \in Triggers |-> 0]
    /\ handler = [h \in Handlers |-> Idle]
    /\ jobActive = FALSE
    /\ jobs = [t \in Triggers |-> 0]
    /\ unanswered = {} /\ overlapped = {} /\ given = {}
    /\ budget \in Bounds /\ faulty = FALSE

\* Paperless and the people who use it.
Environment ==
    \/ \E t \in OneShot : SetTag(t)
    \/ ChangeDocument
    \/ FinishOcr
    \/ \E t \in Tags : DeleteTag(t)

Engine ==
    \/ \E type \in {"added", "updated"} : StartPass(type)
    \/ EvaluateWorkflow
    \/ RunAction

\* A request goes on without a failure.
HandlerStep(h) ==
    \/ VerifyTrigger(h)
    \/ AcceptEvent(h)
    \/ ReadTags(h)
    \/ PatchTags(h)

Next ==
    \/ Environment
    \/ Engine
    \/ \E h \in Handlers :
          \/ \E trigger \in Triggers : Receive(h, trigger)
          \/ HandlerStep(h)
          \/ HandlerFails(h)
          \/ ConsumeFails(h)
    \/ JobEnds

Spec == Init /\ [][Next]_vars

\* Paperless runs its workflows and delivers their webhooks, requests are
\* answered, and a job ends (AcceptedJobEnds of JobQueue).
FairSpec ==
    /\ Spec
    /\ WF_vars(Engine)
    /\ WF_vars(JobEnds)
    /\ \A h \in Handlers : WF_vars(HandlerStep(h))
    /\ \A trigger \in Triggers : WF_vars(\E h \in Handlers : Receive(h, trigger))

-----------------------------------------------------------------------------
TypeOK ==
    /\ instance \in ValidInstance
    /\ tags \in SUBSET Tags /\ deleted \in SUBSET Tags
    /\ tags \cap deleted = {}
    /\ events \in [added : Nat, updated : Nat]
    /\ webhooks \in [Triggers -> Nat]
    /\ handler \in [Handlers -> [stage : {"idle", "verify", "accept", "consume", "patch"},
                                 trigger : Triggers, read : SUBSET Tags]]
    /\ \A h \in Handlers :
          handler[h].stage \in {"consume", "patch"} => ConsumedTags(handler[h].trigger) # {}
    /\ jobActive \in BOOLEAN
    /\ jobs \in [Triggers -> Nat]
    /\ unanswered \in SUBSET OneShot /\ overlapped \in SUBSET OneShot
    /\ given \in SUBSET Tags
    /\ budget \in [commands : Nat, changes : Nat, faults : Nat] /\ faulty \in BOOLEAN

\* "Wurde ein verwendetes Tag in Paperless gelöscht und dadurch der dortige
\* Filter entfernt, lehnt eZEUS den Webhook ab" (docs/paperless-integration.md):
\* no job comes from a one-shot tag, or from an OCR completion tag that
\* Paperless-gpt sets itself, unless that tag was set on the document.  (With
\* a request tag it does not hold: without its pending tag the completion
\* workflow itself sets the completion tag on every changed document.)
JobsNeedTheirTag ==
    \A t \in Triggers :
        jobs[t] > 0 /\ ~(t = "ocr-complete" /\ instance.ocrRequest) => RequiredTags(t) \subseteq given

\* "Bereits-verarbeitet-Tag: verhindert automatische Wiederholungen": the OCR
\* handoff starts one job at most, also when its marker tags are deleted, as
\* long as no one-shot tag is consumed (the list written back may lack the
\* marker that the workflow has set meanwhile).
OcrJobOnce ==
    given \cap OneShot = {} => jobs["ocr-complete"] <= 1

\* A one-shot tag leaves the document only after an event was accepted for
\* it: the command of a user is not dropped by a failing or refused request.
\* (One set while remove_document_tag works on the document may be: the list
\* written back has been read before.)
CommandKept ==
    unanswered \ overlapped \subseteq tags \cup deleted

\* Such a command is answered, unless a call fails or a tag is deleted.
CommandAnswered ==
    \A t \in OneShot :
        t \in unanswered ~> t \notin unanswered \ overlapped \/ faulty
=============================================================================
