------------------------ MODULE WebhookIntake_proofs ------------------------
(***************************************************************************)
(* Proofs about WebhookIntake for any requests, settings and bounds.  What *)
(* Paperless still has to do decides what the router may be asked: the     *)
(* invariants speak of workflows and actions that have not run, webhooks   *)
(* under way, requests in progress and jobs together.                      *)
(***************************************************************************)
EXTENDS WebhookIntake, TLAPS

(* What the engine can hold. *)
WorkflowSet(i) ==
    {AutomaticWorkflow(i)}
    \cup (IF i.ocrRequest THEN {OcrRequestWorkflow, OcrCompleteWorkflow} ELSE {})
    \cup (IF i.manual THEN {ManualWorkflow} ELSE {})

AutomaticTrigger(i) ==
    CASE i.ocr -> "ocr-complete"
      [] i.mode = "tag_added" -> "tag-added"
      [] OTHER -> "document-added"

ActionSet(i) ==
    {Webhook(AutomaticTrigger(i)), Webhook("manual")}
    \cup (IF i.ocr THEN {Assign({"triggered"})} ELSE {})
    \cup (IF i.ocrRequest THEN {Assign({"request", "pending"}), Assign({"complete"}),
                                Remove({"pending"})} ELSE {})

EngineInv ==
    /\ todo \in Seq(WorkflowSet(instance))
    /\ actions \in Seq(ActionSet(instance))

TypeInv == TypeOK /\ EngineInv

(* Tags that only their users set, and what requests know of them. *)
UserTags == OneShot \cup (IF instance.ocrRequest THEN {} ELSE {"complete"})

GivenInv ==
    /\ tags \cap UserTags \subseteq given
    /\ \A h \in Handlers :
          /\ handler[h].read \cap UserTags \subseteq given
          /\ handler[h].stage \in {"accept", "consume", "patch"}
                => RequiredTags(handler[h].trigger) \cap UserTags \subseteq given
    /\ \A t \in Triggers : jobs[t] > 0 => RequiredTags(t) \cap UserTags \subseteq given

(* The webhook of the OCR handoff is the first of its actions, right before its *)
(* marker is set.                                                          *)
Ocr == "ocr-complete"
Announced == actions # << >> /\ actions[1] = Webhook(Ocr)
Marked == \/ "triggered" \in tags
          \/ \E n \in DOMAIN actions : actions[n] = Assign({"triggered"})

MarkerFollows ==
    \A n \in DOMAIN actions :
        actions[n] = Webhook(Ocr) =>
            n = 1 /\ Len(actions) > 1 /\ actions[2] = Assign({"triggered"})

Verifies(h) == handler[h].stage = "verify" /\ handler[h].trigger = Ocr
Accepts(h) == handler[h].stage = "accept" /\ handler[h].trigger = Ocr
Handles(h) == Verifies(h) \/ Accepts(h)

(* Jobs and requests that have passed the guard, of which there is one. *)
OncePassed ==
    /\ jobs[Ocr] <= 1
    /\ \A h \in Handlers : Accepts(h) =>
          /\ jobs[Ocr] = 0
          /\ \A other \in Handlers \ {h} : ~Accepts(other)

(* Before the marker tag is deleted: everything that leads to a job. *)
OnceSent ==
    /\ webhooks[Ocr] <= 1
    /\ jobs[Ocr] > 0 => webhooks[Ocr] = 0
    /\ \A h \in Handlers : Handles(h) =>
          /\ webhooks[Ocr] = 0 /\ jobs[Ocr] = 0
          /\ \A other \in Handlers \ {h} : ~Handles(other)
    /\ (webhooks[Ocr] > 0 \/ jobs[Ocr] > 0 \/ \E h \in Handlers : Handles(h))
          => Marked /\ ~Announced

OnceInv ==
    given \cap OneShot = {} =>
        /\ Removing = {}
        /\ OncePassed
        /\ "triggered" \notin deleted => OnceSent

(* A command that is not answered stays, in the tags and in every list of  *)
(* tags still to be written back.                                          *)
CommandInv ==
    \A t \in unanswered \ overlapped :
        /\ t \in tags \cup deleted
        /\ \A h \in Removing :
              /\ t \notin ConsumedTags(handler[h].trigger)
              /\ handler[h].stage = "patch" => t \in handler[h].read \cup deleted

IInv == TypeInv /\ GivenInv /\ MarkerFollows /\ OnceInv /\ CommandInv

-----------------------------------------------------------------------------
(* The workflows. *)
LEMMA TriggerFacts ==
    /\ \A t \in Triggers : RequiredTags(t) \subseteq Tags /\ ConsumedTags(t) \subseteq RequiredTags(t)
    /\ \A t \in Triggers : ConsumedTags(t) \subseteq OneShot /\ RequiredTags(t) \cap OneShot = ConsumedTags(t)
    /\ RequiredTags(Ocr) = {"complete"} /\ ForbiddenTags(Ocr) = {"triggered"}
    /\ ConsumedTags(Ocr) = {}
  BY DEF Triggers, RequiredTags, ForbiddenTags, ConsumedTags, Tags, OneShot, OcrTags, Ocr

LEMMA WorkflowsType ==
    ASSUME NEW i \in ValidInstance, NEW type \in {"added", "updated"}
    PROVE  Workflows(i, type) \in Seq(WorkflowSet(i))
<1>1. AutomaticWorkflow(i) \in WorkflowSet(i)
  BY DEF WorkflowSet
<1>2. i.ocrRequest => {OcrRequestWorkflow, OcrCompleteWorkflow} \subseteq WorkflowSet(i)
  BY DEF WorkflowSet
<1>3. i.manual => ManualWorkflow \in WorkflowSet(i)
  BY DEF WorkflowSet
<1> QED BY <1>1, <1>2, <1>3 DEF Workflows

LEMMA AutomaticActions ==
    ASSUME NEW i \in ValidInstance
    PROVE  /\ AutomaticTrigger(i) \in {"ocr-complete", "tag-added", "document-added"}
           /\ i.ocr <=> AutomaticTrigger(i) = Ocr
           /\ ~i.ocr => AutomaticWorkflow(i).actions = <<Webhook(AutomaticTrigger(i))>>
           /\ i.ocr => /\ AutomaticWorkflow(i).hasNot = {"triggered"}
                       /\ AutomaticWorkflow(i).actions
                            = <<Webhook(Ocr), Assign({"triggered"})>>
                              \o (IF i.ocrRequest THEN <<Remove({"pending"})>> ELSE << >>)
  BY DEF ValidInstance, AutomaticTrigger, AutomaticWorkflow, Workflow, Ocr

LEMMA ActionsDiffer ==
    /\ \A S, T : Assign(S) = Assign(T) <=> S = T
    /\ \A S, t : Assign(S) # Webhook(t) /\ Remove(S) # Webhook(t)
    /\ \A S, T : Assign(S) # Remove(T)
    /\ \A t, u : Webhook(t) = Webhook(u) <=> t = u
  BY DEF Assign, Webhook, Remove

LEMMA WorkflowActions ==
    ASSUME NEW i \in ValidInstance, NEW w \in WorkflowSet(i)
    PROVE  /\ w.actions \in Seq(ActionSet(i))
           /\ \A n \in DOMAIN w.actions : w.actions[n] = Webhook(Ocr) =>
                 /\ n = 1 /\ Len(w.actions) > 1 /\ w.actions[2] = Assign({"triggered"})
                 /\ w.hasNot = {"triggered"}
<1>1. CASE w = OcrRequestWorkflow /\ i.ocrRequest
  BY <1>1, ActionsDiffer DEF OcrRequestWorkflow, Workflow, ActionSet
<1>2. CASE w = OcrCompleteWorkflow /\ i.ocrRequest
  BY <1>2, ActionsDiffer DEF OcrCompleteWorkflow, Workflow, ActionSet
<1>3. CASE w = ManualWorkflow
  BY <1>3, ActionsDiffer DEF ManualWorkflow, Workflow, ActionSet, Ocr
<1>4. CASE w = AutomaticWorkflow(i) /\ ~i.ocr
  BY <1>4, AutomaticActions, ActionsDiffer DEF ActionSet
<1>5. CASE w = AutomaticWorkflow(i) /\ i.ocr
  <2>1. CASE i.ocrRequest
    <3>1. w.actions = <<Webhook(Ocr), Assign({"triggered"}), Remove({"pending"})>>
      BY <1>5, <2>1, AutomaticActions
    <3> QED BY <3>1, <1>5, <2>1, AutomaticActions, ActionsDiffer DEF ActionSet
  <2>2. CASE ~i.ocrRequest
    <3>1. w.actions = <<Webhook(Ocr), Assign({"triggered"})>>
      BY <1>5, <2>2, AutomaticActions
    <3> QED BY <3>1, <1>5, <2>2, AutomaticActions, ActionsDiffer DEF ActionSet
  <2> QED BY <2>1, <2>2
<1> QED BY <1>1, <1>2, <1>3, <1>4, <1>5 DEF WorkflowSet


-----------------------------------------------------------------------------
(* Type correctness. *)
Request == [stage : {"idle", "verify", "accept", "consume", "patch"},
            trigger : Triggers, read : SUBSET Tags]

ConsumersInv ==
    \A h \in Handlers :
        handler[h].stage \in {"consume", "patch"} => ConsumedTags(handler[h].trigger) # {}

LEMMA RequestTypes ==
    ASSUME TypeOK
    PROVE  /\ Idle \in Request /\ Idle.stage = "idle"
           /\ handler \in [Handlers -> Request] /\ ConsumersInv
           /\ \A h \in Handlers : /\ handler[h].trigger \in Triggers
                                  /\ handler[h].read \in SUBSET Tags
<1>1. handler \in [Handlers -> Request]
  BY DEF TypeOK, Request
<1> QED BY <1>1 DEF Idle, Request, Triggers, TypeOK, ConsumersInv

LEMMA AnswerStep ==
    ASSUME TypeOK, NEW h \in Handlers, Answer(h)
    PROVE  /\ handler' \in [Handlers -> Request] /\ ConsumersInv'
           /\ handler'[h].stage = "idle" /\ handler'[h].read = {}
           /\ \A other \in Handlers \ {h} : handler'[other] = handler[other]
  BY RequestTypes DEF Answer, Idle, ConsumersInv

LEMMA StageStep ==
    ASSUME TypeOK, NEW h \in Handlers, NEW stage \in {"verify", "accept", "consume", "patch"},
           Stage(h, stage), stage = "consume" => ConsumedTags(handler[h].trigger) # {},
           stage # "patch"
    PROVE  /\ handler' \in [Handlers -> Request] /\ ConsumersInv'
           /\ handler'[h].stage = stage /\ handler'[h].trigger = handler[h].trigger
           /\ handler'[h].read = handler[h].read
           /\ \A other \in Handlers \ {h} : handler'[other] = handler[other]
<1>1. handler'[h] = [handler[h] EXCEPT !.stage = stage] /\ handler[h] \in Request
  BY RequestTypes DEF Stage
<1>2. handler'[h] \in Request /\ handler'[h].stage = stage
      /\ handler'[h].trigger = handler[h].trigger /\ handler'[h].read = handler[h].read
  BY <1>1 DEF Request
<1>3. \A other \in Handlers \ {h} : handler'[other] = handler[other]
  BY RequestTypes DEF Stage
<1>4. handler' \in [Handlers -> Request]
  BY <1>2, RequestTypes DEF Stage
<1> QED BY <1>2, <1>3, <1>4, RequestTypes DEF ConsumersInv

LEMMA ChangedType == ASSUME TypeOK PROVE Changed \in [added : Nat, updated : Nat]
  BY DEF TypeOK, Changed

LEMMA TypeInit == Init => TypeInv
<1> SUFFICES ASSUME Init PROVE TypeInv
  OBVIOUS
<1>1. instance \in ValidInstance
  BY IntakeAssumption DEF Init
<1>2. handler \in [Handlers -> Request] /\ \A h \in Handlers : handler[h].stage = "idle"
  BY DEF Init, Idle, Request, Triggers
<1>3. todo \in Seq(WorkflowSet(instance)) /\ actions \in Seq(ActionSet(instance))
  BY DEF Init
<1>4. budget \in [commands : Nat, changes : Nat, faults : Nat]
  BY IntakeAssumption DEF Init
<1>5. events \in [added : Nat, updated : Nat]
  BY DEF Init
<1>6. webhooks \in [Triggers -> Nat] /\ jobs \in [Triggers -> Nat]
  BY DEF Init
<1>7. tags = {} /\ deleted = {} /\ unanswered = {} /\ overlapped = {} /\ given = {}
      /\ jobActive = FALSE /\ faulty = FALSE
  BY DEF Init
<1> QED BY <1>1, <1>2, <1>3, <1>4, <1>5, <1>6, <1>7 DEF TypeInv, TypeOK, EngineInv, Request

LEMMA SpendType ==
    ASSUME TypeOK, NEW what \in {"commands", "changes", "faults"}, Spend(what)
    PROVE  budget' \in [commands : Nat, changes : Nat, faults : Nat] /\ faulty' \in BOOLEAN
  BY DEF TypeOK, Spend

LEMMA TypeStep == TypeInv /\ [Next]_vars => TypeInv'
<1> SUFFICES ASSUME TypeInv, [Next]_vars PROVE TypeInv'
  OBVIOUS
<1>0. TypeOK
  BY DEF TypeInv
<1>1. ASSUME NEW t \in OneShot, SetTag(t) PROVE TypeInv'
  <2>1. t \in Tags \ deleted
    BY <1>1 DEF SetTag, Tags
  <2>2. events' \in [added : Nat, updated : Nat]
    BY <1>0, <1>1, ChangedType DEF SetTag
  <2> QED BY SMTT(20), <1>0, <1>1, <2>1, <2>2, SpendType
          DEF SetTag, TypeInv, TypeOK, EngineInv, engineVars, jobVars
<1>2. CASE ChangeDocument
  BY <1>0, <1>2, SpendType, ChangedType
     DEF ChangeDocument, TypeInv, TypeOK, EngineInv, engineVars, jobVars, commandVars
<1>3. CASE FinishOcr
  <2>1. tags' \subseteq Tags /\ tags' \cap deleted = {}
    BY <1>0, <1>3 DEF FinishOcr, TypeOK, Tags, OcrTags
  <2>2. given' \subseteq Tags
    BY <1>0, <1>3 DEF FinishOcr, TypeOK, Tags, OcrTags
  <2> QED BY <1>0, <1>3, <2>1, <2>2, ChangedType
          DEF FinishOcr, TypeInv, TypeOK, EngineInv, engineVars, jobVars, commandVars, boundVars
<1>4. ASSUME NEW t \in Tags, DeleteTag(t) PROVE TypeInv'
  BY <1>0, <1>4, SpendType
     DEF DeleteTag, TypeInv, TypeOK, EngineInv, engineVars, jobVars, commandVars
<1>5. ASSUME NEW type \in {"added", "updated"}, StartPass(type) PROVE TypeInv'
  BY <1>0, <1>5, WorkflowsType
     DEF StartPass, TypeInv, TypeOK, EngineInv, jobVars, commandVars, boundVars
<1>6. CASE EvaluateWorkflow
  <2>1. Head(todo) \in WorkflowSet(instance) /\ todo' \in Seq(WorkflowSet(instance))
    BY <1>6 DEF EvaluateWorkflow, TypeInv, EngineInv
  <2>2. actions' \in Seq(ActionSet(instance))
    BY <1>0, <1>6, <2>1, WorkflowActions DEF EvaluateWorkflow, TypeOK
  <2> QED BY <1>0, <1>6, <2>1, <2>2
          DEF EvaluateWorkflow, TypeInv, TypeOK, EngineInv, docVars, jobVars, commandVars, boundVars
<1>7. CASE RunAction
  <2>1. Head(actions) \in ActionSet(instance) /\ actions' \in Seq(ActionSet(instance))
    BY <1>7 DEF RunAction, TypeInv, EngineInv
  <2>2. tags' \subseteq Tags /\ tags' \cap deleted = {}
    BY <1>0, <1>7, <2>1
       DEF RunAction, TypeOK, ActionSet, Webhook, Assign, Remove, Tags, OcrTags
  <2>3. webhooks' \in [Triggers -> Nat]
    BY <1>0, <1>7 DEF RunAction, TypeOK
  <2> QED BY <1>0, <1>7, <2>1, <2>2, <2>3
          DEF RunAction, TypeInv, TypeOK, EngineInv, jobVars, commandVars, boundVars
<1>8. ASSUME NEW h \in Handlers, NEW trigger \in Triggers, Receive(h, trigger) PROVE TypeInv'
  <2>1. handler' \in [Handlers -> Request] /\ handler'[h].stage = "verify"
        /\ \A other \in Handlers \ {h} : handler'[other] = handler[other]
    BY <1>0, <1>8 DEF Receive, TypeOK, Request
  <2>2. webhooks' \in [Triggers -> Nat]
    BY <1>0, <1>8 DEF Receive, TypeOK
  <2> QED BY <1>0, <1>8, <2>1, <2>2
          DEF Receive, TypeInv, TypeOK, EngineInv, docVars, engineVars, jobVars, commandVars,
              boundVars, Request
<1> DEFINE Requests == handler' \in [Handlers -> Request] /\ ConsumersInv'
<1>9. ASSUME NEW h \in Handlers, VerifyTrigger(h) PROVE TypeInv'
  <2>1. Requests
    <3>1. CASE Answer(h)
      BY <1>0, <3>1, AnswerStep
    <3>2. CASE Stage(h, "accept")
      BY <1>0, <3>2, StageStep
    <3> QED BY <1>9, <3>1, <3>2 DEF VerifyTrigger
  <2> QED BY <1>0, <1>9, <2>1
          DEF VerifyTrigger, TypeInv, TypeOK, EngineInv, docVars, engineVars, jobVars,
              commandVars, boundVars, Request, ConsumersInv
<1>10. ASSUME NEW h \in Handlers, AcceptEvent(h) PROVE TypeInv'
  <2>1. Requests
    <3>1. CASE Answer(h)
      BY <1>0, <3>1, AnswerStep
    <3>2. CASE Stage(h, "consume") /\ ConsumedTags(handler[h].trigger) # {}
      BY <1>0, <3>2, StageStep
    <3> QED BY <1>10, <3>1, <3>2 DEF AcceptEvent, AfterAccept
  <2>2. jobs' \in [Triggers -> Nat] /\ unanswered' \subseteq OneShot
    BY <1>0, <1>10, RequestTypes DEF AcceptEvent, TypeOK
  <2> QED BY <1>0, <1>10, <2>1, <2>2
          DEF AcceptEvent, TypeInv, TypeOK, EngineInv, docVars, engineVars, boundVars, Request,
              ConsumersInv
<1>11. ASSUME NEW h \in Handlers, ReadTags(h) PROVE TypeInv'
  <2>1. Requests
    BY ZenonT(30), <1>0, <1>11 DEF ReadTags, ConsumersInv, TypeOK, Request
  <2> QED BY <1>0, <1>11, <2>1
          DEF ReadTags, TypeInv, TypeOK, EngineInv, docVars, engineVars, jobVars, commandVars,
              boundVars, Request, ConsumersInv
<1>12. ASSUME NEW h \in Handlers, PatchTags(h) PROVE TypeInv'
  <2>1. Requests
    BY <1>0, <1>12, AnswerStep DEF PatchTags
  <2>2. tags' \subseteq Tags /\ tags' \cap deleted = {} /\ events' \in [{"added", "updated"} -> Nat]
    BY <1>0, <1>12, RequestTypes DEF PatchTags, TypeOK, Changed
  <2> QED BY <1>0, <1>12, <2>1, <2>2
          DEF PatchTags, TypeInv, TypeOK, EngineInv, engineVars, jobVars, commandVars, boundVars,
              Request, ConsumersInv
<1>13. ASSUME NEW h \in Handlers, HandlerFails(h) \/ ConsumeFails(h) PROVE TypeInv'
  <2>1. Requests
    BY <1>0, <1>13, AnswerStep DEF HandlerFails, ConsumeFails
  <2>2. budget' \in [commands : Nat, changes : Nat, faults : Nat] /\ faulty' \in BOOLEAN
    BY <1>0, <1>13, SpendType DEF HandlerFails, ConsumeFails
  <2> QED BY <1>0, <1>13, <2>1, <2>2
          DEF HandlerFails, ConsumeFails, TypeInv, TypeOK, EngineInv, docVars, engineVars, jobVars,
              commandVars, Request, ConsumersInv
<1>14. CASE JobEnds
  BY <1>0, <1>14
     DEF JobEnds, TypeInv, TypeOK, EngineInv, docVars, engineVars, commandVars, boundVars
<1>15. CASE UNCHANGED vars
  BY <1>0, <1>15
     DEF vars, TypeInv, TypeOK, EngineInv, docVars, engineVars, jobVars, commandVars, boundVars
<1> QED BY <1>1, <1>2, <1>3, <1>4, <1>5, <1>6, <1>7, <1>8, <1>9, <1>10, <1>11, <1>12, <1>13,
           <1>14, <1>15
        DEF Next, Environment, Engine, HandlerStep


-----------------------------------------------------------------------------
(* Jobs need their tag. *)
LEMMA ActionTags ==
    ASSUME TypeInv, RunAction
    PROVE  tags \cap OneShot \subseteq tags' /\ tags' \cap UserTags \subseteq tags
<1>1. Head(actions) \in ActionSet(instance)
  BY DEF RunAction, TypeInv, EngineInv
<1>2. instance.ocrRequest => instance.ocr
  BY DEF TypeInv, TypeOK, ValidInstance
<1>3. CASE Head(actions).do = "webhook"
  BY <1>3 DEF RunAction
<1>4. CASE Head(actions) = Assign({"triggered"})
  BY <1>4 DEF RunAction, Assign, UserTags, OneShot
<1>5. CASE /\ instance.ocrRequest
           /\ Head(actions) \in {Assign({"request", "pending"}), Assign({"complete"}),
                                 Remove({"pending"})}
  BY <1>5 DEF RunAction, Assign, Remove, UserTags, OneShot
<1> QED BY <1>1, <1>2, <1>3, <1>4, <1>5 DEF ActionSet, Webhook

LEMMA GivenInit == Init => GivenInv
<1> SUFFICES ASSUME Init PROVE GivenInv
  OBVIOUS
<1>1. \A h \in Handlers : handler[h] = Idle
  BY DEF Init
<1> QED BY <1>1 DEF Init, GivenInv, Idle

LEMMA GivenStep == TypeInv /\ TypeInv' /\ GivenInv /\ [Next]_vars => GivenInv'
<1> SUFFICES ASSUME TypeInv, TypeInv', GivenInv, [Next]_vars PROVE GivenInv'
  OBVIOUS
<1>0. TypeOK /\ TypeOK'
  BY DEF TypeInv
<1>inst. instance' = instance /\ UserTags' = UserTags
  BY DEF Next, Environment, Engine, HandlerStep, SetTag, ChangeDocument, FinishOcr, DeleteTag,
         StartPass, EvaluateWorkflow, RunAction, Receive, VerifyTrigger, AcceptEvent, ReadTags,
         PatchTags, HandlerFails, ConsumeFails, JobEnds, vars, UserTags
<1>1. ASSUME NEW t \in OneShot, SetTag(t) PROVE GivenInv'
  BY <1>1, <1>inst DEF SetTag, GivenInv, jobVars
<1>2. CASE ChangeDocument
  BY <1>2, <1>inst DEF ChangeDocument, GivenInv, jobVars
<1>3. CASE FinishOcr
  BY <1>3, <1>inst DEF FinishOcr, GivenInv, jobVars
<1>4. ASSUME NEW t \in Tags, DeleteTag(t) PROVE GivenInv'
  BY <1>4, <1>inst DEF DeleteTag, GivenInv, jobVars
<1>5. ASSUME NEW type \in {"added", "updated"}, StartPass(type) PROVE GivenInv'
  BY <1>5, <1>inst DEF StartPass, GivenInv, jobVars
<1>6. CASE EvaluateWorkflow
  BY <1>6, <1>inst DEF EvaluateWorkflow, GivenInv, jobVars, docVars
<1>7. CASE RunAction
  BY <1>7, <1>inst, ActionTags DEF RunAction, GivenInv, jobVars
<1>8. ASSUME NEW h \in Handlers, NEW trigger \in Triggers, Receive(h, trigger) PROVE GivenInv'
  <2>1. handler'[h].stage = "verify" /\ handler'[h].read = {}
        /\ \A other \in Handlers \ {h} : handler'[other] = handler[other]
    BY <1>0, <1>8 DEF Receive, TypeOK
  <2> QED BY <1>8, <2>1, <1>inst DEF Receive, GivenInv, jobVars, docVars
<1>9. ASSUME NEW h \in Handlers, VerifyTrigger(h) PROVE GivenInv'
  <2>0. given' = given /\ tags' = tags /\ jobs' = jobs
    BY <1>9 DEF VerifyTrigger, docVars, jobVars
  <2>1. CASE Answer(h)
    BY <1>0, <2>0, <2>1, AnswerStep, <1>inst DEF GivenInv
  <2>2. CASE Stage(h, "accept") /\ Valid(handler[h].trigger, tags)
    <3>1. RequiredTags(handler[h].trigger) \cap UserTags \subseteq given
      BY <2>2 DEF Valid, GivenInv
    <3> QED BY <1>0, <2>0, <2>2, <3>1, StageStep, <1>inst DEF GivenInv
  <2> QED BY <1>9, <2>1, <2>2 DEF VerifyTrigger
<1>10. ASSUME NEW h \in Handlers, AcceptEvent(h) PROVE GivenInv'
  <2>0. given' = given /\ tags' = tags /\ handler[h].stage = "accept"
    BY <1>10 DEF AcceptEvent, docVars
  <2>1. \A t \in Triggers : jobs'[t] > 0 => jobs[t] > 0 \/ t = handler[h].trigger
    BY <1>0, <1>10 DEF AcceptEvent, TypeOK
  <2>2. \A t \in Triggers : jobs'[t] > 0 => RequiredTags(t) \cap UserTags \subseteq given
    BY <2>0, <2>1 DEF GivenInv
  <2>3. CASE Answer(h)
    BY <1>0, <2>0, <2>2, <2>3, AnswerStep, <1>inst DEF GivenInv
  <2>4. CASE Stage(h, "consume") /\ ConsumedTags(handler[h].trigger) # {}
    BY <1>0, <2>0, <2>2, <2>4, StageStep, <1>inst DEF GivenInv
  <2> QED BY <1>10, <2>3, <2>4 DEF AcceptEvent, AfterAccept
<1>11. ASSUME NEW h \in Handlers, ReadTags(h) PROVE GivenInv'
  <2>1. handler'[h].read = tags /\ handler'[h].trigger = handler[h].trigger
        /\ handler[h].stage = "consume"
        /\ \A other \in Handlers \ {h} : handler'[other] = handler[other]
    BY <1>0, <1>11, RequestTypes DEF ReadTags, Request
  <2> QED BY <1>11, <2>1, <1>inst DEF ReadTags, GivenInv, docVars, jobVars
<1>12. ASSUME NEW h \in Handlers, PatchTags(h) PROVE GivenInv'
  <2>1. Answer(h) /\ given' = given /\ jobs' = jobs /\ (tags' \subseteq handler[h].read \/ tags' = tags)
    BY <1>12 DEF PatchTags, jobVars
  <2> QED BY <1>0, <2>1, AnswerStep, <1>inst DEF GivenInv
<1>13. ASSUME NEW h \in Handlers, HandlerFails(h) \/ ConsumeFails(h) PROVE GivenInv'
  <2>1. Answer(h) /\ given' = given /\ jobs' = jobs /\ tags' = tags
    BY <1>13 DEF HandlerFails, ConsumeFails, jobVars, docVars
  <2> QED BY <1>0, <2>1, AnswerStep, <1>inst DEF GivenInv
<1>14. CASE JobEnds
  BY <1>14, <1>inst DEF JobEnds, GivenInv, docVars
<1>15. CASE UNCHANGED vars
  BY <1>15, <1>inst DEF vars, GivenInv, docVars, jobVars
<1> QED BY <1>1, <1>2, <1>3, <1>4, <1>5, <1>6, <1>7, <1>8, <1>9, <1>10, <1>11, <1>12, <1>13,
           <1>14, <1>15
        DEF Next, Environment, Engine, HandlerStep

LEMMA GivenMeansTag == GivenInv => JobsNeedTheirTag
  BY DEF GivenInv, JobsNeedTheirTag, UserTags, RequiredTags, OneShot, Triggers

-----------------------------------------------------------------------------
(* Commands are kept. *)
LEMMA CommandInit == Init => CommandInv
  BY DEF Init, CommandInv

LEMMA CommandStep == TypeInv /\ TypeInv' /\ CommandInv /\ [Next]_vars => CommandInv'
<1> SUFFICES ASSUME TypeInv, TypeInv', CommandInv, [Next]_vars PROVE CommandInv'
  OBVIOUS
<1>0. TypeOK /\ TypeOK'
  BY DEF TypeInv
<1> DEFINE Open == unanswered \ overlapped
           Same == unanswered' = unanswered /\ overlapped' = overlapped
<1>1. ASSUME NEW t \in OneShot, SetTag(t) PROVE CommandInv'
  <2>1. handler' = handler /\ Removing' = Removing /\ deleted' = deleted /\ tags' = tags \cup {t}
    BY <1>1 DEF SetTag, Removing
  <2>2. CASE Removing = {}
    <3>1. \A u \in Open' : u \in tags' \cup deleted'
      BY <1>1, <2>1, <2>2 DEF SetTag, CommandInv
    <3> QED BY <2>1, <2>2, <3>1 DEF CommandInv
  <2>3. CASE Removing # {}
    <3>1. Open' \subseteq Open
      BY <1>1, <2>3 DEF SetTag
    <3> QED BY <2>1, <3>1 DEF CommandInv
  <2> QED BY <2>2, <2>3
<1>2. CASE ChangeDocument
  BY <1>2 DEF ChangeDocument, CommandInv, commandVars, Removing
<1>3. CASE FinishOcr
  <2>1. tags \cap OneShot \subseteq tags' /\ handler' = handler /\ deleted' = deleted /\ Same
    BY <1>3 DEF FinishOcr, OneShot, commandVars
  <2>2. Open \subseteq OneShot
    BY <1>0 DEF TypeOK
  <2> QED BY <2>1, <2>2 DEF CommandInv, Removing
<1>4. ASSUME NEW t \in Tags, DeleteTag(t) PROVE CommandInv'
  BY <1>4 DEF DeleteTag, CommandInv, commandVars, Removing
<1>5. ASSUME NEW type \in {"added", "updated"}, StartPass(type) PROVE CommandInv'
  BY <1>5 DEF StartPass, CommandInv, commandVars, Removing
<1>6. CASE EvaluateWorkflow
  BY <1>6 DEF EvaluateWorkflow, CommandInv, commandVars, docVars, Removing
<1>7. CASE RunAction
  <2>1. Open \subseteq OneShot
    BY <1>0 DEF TypeOK
  <2> QED BY <1>7, <2>1, ActionTags DEF RunAction, CommandInv, commandVars, Removing
<1>8. ASSUME NEW h \in Handlers, NEW trigger \in Triggers, Receive(h, trigger) PROVE CommandInv'
  <2>1. handler'[h].stage = "verify"
        /\ \A other \in Handlers \ {h} : handler'[other] = handler[other]
    BY <1>0, <1>8 DEF Receive, TypeOK
  <2> QED BY <1>8, <2>1 DEF Receive, CommandInv, commandVars, docVars, Removing
<1>9. ASSUME NEW h \in Handlers, VerifyTrigger(h) PROVE CommandInv'
  <2>0. Same /\ tags' = tags /\ deleted' = deleted
    BY <1>9 DEF VerifyTrigger, docVars, commandVars
  <2>1. CASE Answer(h)
    BY <1>0, <2>0, <2>1, AnswerStep DEF CommandInv, Removing
  <2>2. CASE Stage(h, "accept")
    BY <1>0, <2>0, <2>2, StageStep DEF CommandInv, Removing
  <2> QED BY <1>9, <2>1, <2>2 DEF VerifyTrigger
<1>10. ASSUME NEW h \in Handlers, AcceptEvent(h) PROVE CommandInv'
  <2>0. tags' = tags /\ deleted' = deleted /\ overlapped' = overlapped
        /\ unanswered' = unanswered \ RequiredTags(handler[h].trigger)
    BY <1>10 DEF AcceptEvent, docVars
  <2>1. CASE Answer(h)
    BY <1>0, <2>0, <2>1, AnswerStep DEF CommandInv, Removing
  <2>2. CASE Stage(h, "consume") /\ ConsumedTags(handler[h].trigger) # {}
    <3>1. ConsumedTags(handler[h].trigger) \subseteq RequiredTags(handler[h].trigger)
      BY <1>0, RequestTypes, TriggerFacts
    <3> QED BY <1>0, <2>0, <2>2, <3>1, StageStep DEF CommandInv, Removing
  <2> QED BY <1>10, <2>1, <2>2 DEF AcceptEvent, AfterAccept
<1>11. ASSUME NEW h \in Handlers, ReadTags(h) PROVE CommandInv'
  <2>1. handler'[h].read = tags /\ handler'[h].trigger = handler[h].trigger
        /\ handler[h].stage = "consume"
        /\ \A other \in Handlers \ {h} : handler'[other] = handler[other]
    BY <1>0, <1>11, RequestTypes DEF ReadTags, Request
  <2>2. Removing' = Removing /\ Removing \subseteq Handlers /\ h \in Removing
    BY <1>0, <2>1, <1>11 DEF ReadTags, Removing, TypeOK
  <2>3. Same /\ tags' = tags /\ deleted' = deleted
    BY <1>11 DEF ReadTags, docVars, commandVars
  <2> QED BY <2>1, <2>2, <2>3 DEF CommandInv
<1>12. ASSUME NEW h \in Handlers, PatchTags(h) PROVE CommandInv'
  <2>1. Answer(h) /\ Same /\ deleted' = deleted /\ h \in Removing
        /\ (tags' = handler[h].read \ ConsumedTags(handler[h].trigger) \/ tags' = tags)
    BY <1>12 DEF PatchTags, commandVars, Removing
  <2>2. \A t \in Open : t \in tags' \cup deleted
    BY <1>12, <2>1 DEF CommandInv, PatchTags
  <2> QED BY <1>0, <2>1, <2>2, AnswerStep DEF CommandInv, Removing
<1>13. ASSUME NEW h \in Handlers, HandlerFails(h) \/ ConsumeFails(h) PROVE CommandInv'
  <2>1. Answer(h) /\ Same /\ deleted' = deleted /\ tags' = tags
    BY <1>13 DEF HandlerFails, ConsumeFails, commandVars, docVars
  <2> QED BY <1>0, <2>1, AnswerStep DEF CommandInv, Removing
<1>14. CASE JobEnds
  BY <1>14 DEF JobEnds, CommandInv, docVars, commandVars, Removing
<1>15. CASE UNCHANGED vars
  BY <1>15 DEF vars, CommandInv, docVars, commandVars, Removing
<1> QED BY <1>1, <1>2, <1>3, <1>4, <1>5, <1>6, <1>7, <1>8, <1>9, <1>10, <1>11, <1>12, <1>13,
           <1>14, <1>15
        DEF Next, Environment, Engine, HandlerStep

-----------------------------------------------------------------------------
(* The OCR handoff starts one job. *)
LEMMA MarkerInit == Init => MarkerFollows
  BY DEF Init, MarkerFollows

LEMMA MarkerStep == TypeInv /\ MarkerFollows /\ [Next]_vars => MarkerFollows'
<1> SUFFICES ASSUME TypeInv, MarkerFollows, [Next]_vars PROVE MarkerFollows'
  OBVIOUS
<1>1. CASE EvaluateWorkflow
  <2>1. Head(todo) \in WorkflowSet(instance) /\ instance \in ValidInstance
    BY <1>1 DEF EvaluateWorkflow, TypeInv, TypeOK, EngineInv
  <2>2. actions' = Head(todo).actions \/ actions' = << >>
    BY <1>1 DEF EvaluateWorkflow
  <2> QED BY <2>1, <2>2, WorkflowActions DEF MarkerFollows
<1>2. CASE RunAction
  <2>1. actions \in Seq(ActionSet(instance)) /\ actions # << >> /\ actions' = Tail(actions)
    BY <1>2 DEF RunAction, TypeInv, EngineInv
  <2>2. ASSUME NEW n \in DOMAIN actions' PROVE actions'[n] # Webhook(Ocr)
    <3>1. n + 1 \in DOMAIN actions /\ n + 1 # 1 /\ actions'[n] = actions[n + 1]
      BY <2>1, <2>2
    <3> QED BY <3>1 DEF MarkerFollows
  <2> QED BY <2>2 DEF MarkerFollows
<1>3. CASE actions' = actions
  BY <1>3 DEF MarkerFollows
<1> QED BY <1>1, <1>2, <1>3
        DEF Next, Environment, Engine, HandlerStep, SetTag, ChangeDocument, FinishOcr, DeleteTag,
            StartPass, Receive, VerifyTrigger, AcceptEvent, ReadTags, PatchTags, HandlerFails,
            ConsumeFails, JobEnds, vars, engineVars

Clean == given \cap OneShot = {}

(* Without a one-shot tag no request gets to consume one. *)
LEMMA NothingConsumed ==
    TypeInv /\ GivenInv /\ Clean =>
        /\ Removing = {}
        /\ \A h \in Handlers :
              handler[h].stage = "accept" => ConsumedTags(handler[h].trigger) = {}
<1> SUFFICES ASSUME TypeInv, GivenInv, Clean
             PROVE  /\ Removing = {}
                    /\ \A h \in Handlers :
                          handler[h].stage = "accept" => ConsumedTags(handler[h].trigger) = {}
  OBVIOUS
<1>0. TypeOK
  BY DEF TypeInv
<1>1. ASSUME NEW h \in Handlers, handler[h].stage \in {"accept", "consume", "patch"}
      PROVE  ConsumedTags(handler[h].trigger) = {}
  <2>1. RequiredTags(handler[h].trigger) \cap UserTags \subseteq given
    BY <1>1 DEF GivenInv
  <2>2. RequiredTags(handler[h].trigger) \cap OneShot = ConsumedTags(handler[h].trigger)
    BY <1>0, RequestTypes, TriggerFacts
  <2>3. OneShot \subseteq UserTags
    BY DEF UserTags
  <2> QED BY <2>1, <2>2, <2>3 DEF Clean
<1> QED BY <1>0, <1>1, RequestTypes DEF Removing, ConsumersInv

LEMMA NothingRemoved == (TypeInv /\ GivenInv /\ Clean => Removing = {})'
<1>1. TypeInv /\ GivenInv /\ Clean => Removing = {}
  BY NothingConsumed
<1> QED BY <1>1, PTL

(* A step that sends and accepts nothing, and keeps the marker unless its  *)
(* tag is deleted.                                                         *)
LEMMA OnceFrame ==
    ASSUME OnceInv, Removing' = {}, given \subseteq given', deleted \subseteq deleted',
           jobs'[Ocr] = jobs[Ocr], webhooks'[Ocr] = webhooks[Ocr], actions' = actions,
           "triggered" \in tags => "triggered" \in tags' \cup deleted',
           \A h \in Handlers : Accepts(h)' => Accepts(h),
           \A h \in Handlers : Handles(h)' => Handles(h)
    PROVE  OnceInv'
<1> SUFFICES ASSUME Clean' PROVE OncePassed' /\ ("triggered" \notin deleted' => OnceSent')
  BY DEF OnceInv, Clean
<1>1. OncePassed /\ ("triggered" \notin deleted => OnceSent)
  BY DEF OnceInv, Clean
<1>2. OncePassed'
  BY <1>1 DEF OncePassed
<1>3. ASSUME "triggered" \notin deleted' PROVE OnceSent'
  <2>1. OnceSent
    BY <1>1, <1>3
  <2>2. Announced' = Announced /\ (Marked => Marked')
    BY <1>3 DEF Announced, Marked
  <2> QED BY <2>1, <2>2 DEF OnceSent
<1> QED BY <1>2, <1>3

LEMMA OnceInit == Init => OnceInv
<1> SUFFICES ASSUME Init PROVE OnceInv
  OBVIOUS
<1>1. \A h \in Handlers : handler[h].stage = "idle"
  BY DEF Init, Idle
<1>2. jobs[Ocr] = 0 /\ webhooks[Ocr] = 0
  BY DEF Init, Triggers, Ocr
<1> QED BY <1>1, <1>2 DEF OnceInv, OncePassed, OnceSent, Accepts, Verifies, Handles, Removing

LEMMA OnceEvaluate ==
    ASSUME TypeInv, OnceInv, Clean, EvaluateWorkflow
    PROVE  OncePassed' /\ ("triggered" \notin deleted' => OnceSent')
<1>0. handler' = handler /\ jobs' = jobs /\ webhooks' = webhooks /\ tags' = tags /\ deleted' = deleted
  BY DEF EvaluateWorkflow, docVars, jobVars
<1>1. OncePassed /\ ("triggered" \notin deleted => OnceSent)
  BY DEF OnceInv, Clean
<1>2. Head(todo) \in WorkflowSet(instance) /\ instance \in ValidInstance
  BY DEF EvaluateWorkflow, TypeInv, TypeOK, EngineInv
<1>3. Marked => "triggered" \in tags
  BY DEF EvaluateWorkflow, Marked
<1>4. Announced' => "triggered" \notin tags
  <2>1. CASE actions' = Head(todo).actions /\ Matches(Head(todo))
    <3>1. Head(todo).actions \in Seq(ActionSet(instance))
      BY <1>2, WorkflowActions
    <3>2. Announced' => Head(todo).hasNot = {"triggered"}
      BY <1>2, <2>1, <3>1, WorkflowActions DEF Announced
    <3> QED BY <2>1, <3>2 DEF Matches
  <2>2. CASE actions' = << >>
    BY <2>2 DEF Announced
  <2> QED BY <2>1, <2>2 DEF EvaluateWorkflow
<1>5. OncePassed'
  BY <1>0, <1>1 DEF OncePassed, Accepts
<1>6. ASSUME "triggered" \notin deleted' PROVE OnceSent'
  <2>1. OnceSent
    BY <1>0, <1>1, <1>6
  <2>2. Marked => Marked' /\ ~Announced'
    BY <1>0, <1>3, <1>4 DEF Marked
  <2> QED BY <1>0, <2>1, <2>2 DEF OnceSent, Handles, Accepts, Verifies
<1> QED BY <1>5, <1>6

LEMMA OnceRun ==
    ASSUME TypeInv, MarkerFollows, OnceInv, Clean, RunAction
    PROVE  OncePassed' /\ ("triggered" \notin deleted' => OnceSent')
<1>0. handler' = handler /\ jobs' = jobs /\ deleted' = deleted
  BY DEF RunAction, jobVars
<1>1. OncePassed /\ ("triggered" \notin deleted => OnceSent)
  BY DEF OnceInv, Clean
<1>2. /\ actions \in Seq(ActionSet(instance)) /\ actions # << >> /\ actions' = Tail(actions)
      /\ Head(actions) = actions[1] /\ actions[1] \in ActionSet(instance)
  BY DEF RunAction, TypeInv, EngineInv
<1>3. \A n \in DOMAIN actions' : n + 1 \in DOMAIN actions /\ actions'[n] = actions[n + 1]
  BY <1>2
<1>4. \A n \in DOMAIN actions : n = 1 \/ (n - 1 \in DOMAIN actions' /\ actions'[n - 1] = actions[n])
  BY <1>2
<1>5. webhooks \in [Triggers -> Nat] /\ jobs \in [Triggers -> Nat] /\ Ocr \in Triggers
  BY DEF TypeInv, TypeOK, Ocr, Triggers
<1>6. OncePassed'
  BY <1>0, <1>1 DEF OncePassed, Accepts
<1>7. ~Announced'
  BY <1>2, <1>3 DEF Announced, MarkerFollows
<1>8. ASSUME "triggered" \notin deleted' PROVE OnceSent'
  <2>1. OnceSent
    BY <1>0, <1>1, <1>8
  <2>2. CASE actions[1] = Webhook(Ocr)
    <3>1. webhooks'[Ocr] = webhooks[Ocr] + 1
      BY <1>2, <1>5, <2>2 DEF RunAction, Webhook
    <3>2. Announced
      BY <1>2, <2>2 DEF Announced
    <3>3. webhooks[Ocr] = 0 /\ jobs[Ocr] = 0 /\ \A h \in Handlers : ~Handles(h)
      BY <1>5, <2>1, <3>2 DEF OnceSent
    <3>4. Len(actions) > 1 /\ actions[2] = Assign({"triggered"})
      BY <1>2, <2>2 DEF MarkerFollows
    <3>5. 1 \in DOMAIN actions' /\ actions'[1] = Assign({"triggered"})
      BY <1>2, <3>4
    <3>6. Marked'
      BY <3>5 DEF Marked
    <3> QED BY <1>0, <1>7, <3>1, <3>3, <3>6 DEF OnceSent, Handles, Accepts, Verifies
  <2>3. CASE actions[1] # Webhook(Ocr)
    <3>1. webhooks'[Ocr] = webhooks[Ocr]
      <4>1. CASE actions[1].do = "webhook"
        <5>1. actions[1] \in {Webhook(AutomaticTrigger(instance)), Webhook("manual")}
          BY <1>2, <4>1 DEF ActionSet, Assign, Remove
        <5>2. Ocr \notin actions[1].arg
          BY <2>3, <5>1 DEF Webhook
        <5> QED BY <1>2, <1>5, <4>1, <5>2 DEF RunAction
      <4>2. CASE actions[1].do # "webhook"
        BY <1>2, <4>2 DEF RunAction
      <4> QED BY <4>1, <4>2
    <3>2. "triggered" \in tags => "triggered" \in tags'
      <4>1. actions[1].do = "remove" => actions[1].arg = {"pending"}
        BY <1>2 DEF ActionSet, Webhook, Assign, Remove
      <4> QED BY <1>2, <4>1 DEF RunAction
    <3>3. actions[1] = Assign({"triggered"}) => "triggered" \in tags'
      BY <1>0, <1>2, <1>8 DEF RunAction, Assign
    <3>4. Marked => Marked'
      BY <1>4, <3>2, <3>3 DEF Marked
    <3> QED BY <1>0, <1>7, <2>1, <3>1, <3>4 DEF OnceSent, Handles, Accepts, Verifies
  <2> QED BY <2>2, <2>3
<1> QED BY <1>6, <1>8

LEMMA OnceReceive ==
    ASSUME TypeInv, OnceInv, Clean, NEW h \in Handlers, NEW trigger \in Triggers,
           Receive(h, trigger)
    PROVE  OncePassed' /\ ("triggered" \notin deleted' => OnceSent')
<1>0. jobs' = jobs /\ actions' = actions /\ tags' = tags /\ deleted' = deleted
  BY DEF Receive, docVars, engineVars, jobVars
<1>1. OncePassed /\ ("triggered" \notin deleted => OnceSent)
  BY DEF OnceInv, Clean
<1>2. webhooks \in [Triggers -> Nat] /\ jobs \in [Triggers -> Nat] /\ Ocr \in Triggers
  BY DEF TypeInv, TypeOK, Ocr, Triggers
<1>3. /\ handler[h].stage = "idle" /\ handler'[h].stage = "verify" /\ handler'[h].trigger = trigger
      /\ \A other \in Handlers \ {h} : handler'[other] = handler[other]
  BY DEF Receive, TypeInv, TypeOK
<1>4. webhooks[trigger] > 0 /\ webhooks' = [webhooks EXCEPT ![trigger] = @ - 1]
  BY DEF Receive
<1>5. OncePassed'
  BY <1>0, <1>1, <1>3 DEF OncePassed, Accepts
<1>6. Marked' = Marked /\ Announced' = Announced
  BY <1>0 DEF Marked, Announced
<1>7. ASSUME "triggered" \notin deleted' PROVE OnceSent'
  <2>1. OnceSent
    BY <1>0, <1>1, <1>7
  <2>2. CASE trigger = Ocr
    <3>1. webhooks'[Ocr] = 0 /\ jobs[Ocr] = 0 /\ Marked /\ ~Announced
          /\ \A other \in Handlers : ~Handles(other)
      BY <1>2, <1>4, <2>1, <2>2 DEF OnceSent
    <3> QED BY <1>0, <1>3, <1>6, <3>1 DEF OnceSent, Handles, Accepts, Verifies
  <2>3. CASE trigger # Ocr
    <3>1. webhooks'[Ocr] = webhooks[Ocr]
      BY <1>2, <1>4, <2>3
    <3>2. \A other \in Handlers : Handles(other)' <=> Handles(other)
      BY <1>3, <2>3 DEF Handles, Accepts, Verifies
    <3> QED BY <1>0, <1>6, <2>1, <3>1, <3>2 DEF OnceSent
  <2> QED BY <2>2, <2>3
<1> QED BY <1>5, <1>7

LEMMA OnceVerify ==
    ASSUME TypeInv, OnceInv, Clean, NEW h \in Handlers, VerifyTrigger(h)
    PROVE  OncePassed' /\ ("triggered" \notin deleted' => OnceSent')
<1>0. /\ jobs' = jobs /\ actions' = actions /\ tags' = tags /\ deleted' = deleted
      /\ webhooks' = webhooks /\ handler[h].stage = "verify" /\ TypeOK
  BY DEF VerifyTrigger, docVars, engineVars, jobVars, TypeInv
<1>1. OncePassed /\ ("triggered" \notin deleted => OnceSent)
  BY DEF OnceInv, Clean
<1>2. Marked' = Marked /\ Announced' = Announced
  BY <1>0 DEF Marked, Announced
<1>3. CASE Answer(h)
  <2>1. \A other \in Handlers : /\ Accepts(other)' => Accepts(other)
                                /\ Handles(other)' => Handles(other)
    BY <1>0, <1>3, AnswerStep DEF Handles, Accepts, Verifies
  <2> QED BY <1>0, <1>1, <1>2, <2>1 DEF OncePassed, OnceSent
<1>4. CASE Stage(h, "accept") /\ Valid(handler[h].trigger, tags)
  <2>1. /\ handler'[h].stage = "accept" /\ handler'[h].trigger = handler[h].trigger
        /\ \A other \in Handlers \ {h} : handler'[other] = handler[other]
    BY <1>0, <1>4, StageStep
  <2>2. \A other \in Handlers : Handles(other)' <=> Handles(other)
    BY <1>0, <2>1 DEF Handles, Accepts, Verifies
  <2>3. "triggered" \notin deleted' => OnceSent'
    BY <1>0, <1>1, <1>2, <2>2 DEF OnceSent
  <2>4. CASE handler[h].trigger = Ocr
    <3>1. "triggered" \notin deleted
      BY <1>4, <2>4, TriggerFacts DEF Valid
    <3>2. jobs[Ocr] = 0 /\ \A other \in Handlers \ {h} : ~Handles(other)
      BY <1>0, <1>1, <2>4, <3>1 DEF OnceSent, Handles, Verifies
    <3>3. OncePassed'
      BY <1>0, <2>1, <3>2 DEF OncePassed, Handles, Accepts
    <3> QED BY <2>3, <3>3
  <2>5. CASE handler[h].trigger # Ocr
    <3>1. OncePassed'
      BY <1>0, <1>1, <2>1, <2>5 DEF OncePassed, Accepts
    <3> QED BY <2>3, <3>1
  <2> QED BY <2>4, <2>5
<1> QED BY <1>3, <1>4 DEF VerifyTrigger

LEMMA OnceAccept ==
    ASSUME TypeInv, GivenInv, OnceInv, Clean, NEW h \in Handlers, AcceptEvent(h)
    PROVE  OncePassed' /\ ("triggered" \notin deleted' => OnceSent')
<1>0. /\ actions' = actions /\ tags' = tags /\ deleted' = deleted
      /\ webhooks' = webhooks /\ handler[h].stage = "accept" /\ TypeOK
  BY DEF AcceptEvent, docVars, engineVars, TypeInv
<1>1. OncePassed /\ ("triggered" \notin deleted => OnceSent)
  BY DEF OnceInv, Clean
<1>2. Marked' = Marked /\ Announced' = Announced
  BY <1>0 DEF Marked, Announced
<1>3. Answer(h)
  <2>1. ConsumedTags(handler[h].trigger) = {}
    BY <1>0, NothingConsumed
  <2> QED BY <2>1 DEF AcceptEvent, AfterAccept
<1>4. /\ handler'[h].stage = "idle"
      /\ \A other \in Handlers \ {h} : handler'[other] = handler[other]
  BY <1>0, <1>3, AnswerStep
<1>5. \A other \in Handlers : /\ Accepts(other)' <=> Accepts(other) /\ other # h
                              /\ Handles(other)' <=> Handles(other) /\ other # h
  BY <1>4 DEF Handles, Accepts, Verifies
<1>6. jobs \in [Triggers -> Nat] /\ Ocr \in Triggers
  BY <1>0 DEF TypeOK, Ocr, Triggers
<1>7. CASE handler[h].trigger = Ocr
  <2>1. Accepts(h) /\ Handles(h)
    BY <1>0, <1>7 DEF Accepts, Handles
  <2>2. jobs[Ocr] = 0 /\ \A other \in Handlers \ {h} : ~Accepts(other)
    BY <1>1, <2>1 DEF OncePassed
  <2>3. jobs'[Ocr] \in {0, 1}
    BY <1>6, <1>7, <2>2 DEF AcceptEvent
  <2>4. OncePassed'
    BY <1>5, <2>2, <2>3 DEF OncePassed
  <2>5. ASSUME "triggered" \notin deleted' PROVE OnceSent'
    <3>1. OnceSent
      BY <1>0, <1>1, <2>5
    <3>2. /\ webhooks[Ocr] = 0 /\ Marked /\ ~Announced
          /\ \A other \in Handlers \ {h} : ~Handles(other)
      BY <2>1, <3>1 DEF OnceSent
    <3> QED BY <1>0, <1>2, <1>5, <3>2 DEF OnceSent
  <2> QED BY <2>4, <2>5
<1>8. CASE handler[h].trigger # Ocr
  <2>1. jobs'[Ocr] = jobs[Ocr]
    BY <1>6, <1>8 DEF AcceptEvent
  <2> QED BY <1>0, <1>1, <1>2, <1>5, <2>1 DEF OncePassed, OnceSent
<1> QED BY <1>7, <1>8

LEMMA OnceStep ==
    TypeInv /\ TypeInv' /\ GivenInv /\ GivenInv' /\ MarkerFollows /\ OnceInv /\ [Next]_vars => OnceInv'
<1> SUFFICES ASSUME TypeInv, TypeInv', GivenInv, GivenInv', MarkerFollows, OnceInv, [Next]_vars,
                    Clean'
             PROVE  OnceInv'
  BY DEF OnceInv, Clean
<1>0. TypeOK /\ Removing' = {}
  BY NothingRemoved DEF TypeInv
<1>given. given \subseteq given' /\ Clean
  <2>1. given \subseteq given'
    BY DEF Next, Environment, Engine, HandlerStep, SetTag, ChangeDocument, FinishOcr, DeleteTag,
           StartPass, EvaluateWorkflow, RunAction, Receive, VerifyTrigger, AcceptEvent, ReadTags,
           PatchTags, HandlerFails, ConsumeFails, JobEnds, vars
  <2> QED BY <2>1 DEF Clean
<1>none. Removing = {}
  BY <1>given, NothingConsumed
<1> DEFINE Quiet == /\ deleted \subseteq deleted' /\ jobs' = jobs /\ webhooks' = webhooks
                    /\ actions' = actions
                    /\ "triggered" \in tags => "triggered" \in tags' \cup deleted'
<1>1. ASSUME NEW t \in OneShot, SetTag(t) PROVE OnceInv'
  BY <1>1 DEF SetTag, Clean
<1>2. CASE Quiet /\ handler' = handler
  BY <1>0, <1>2, <1>given, OnceFrame DEF Handles, Accepts, Verifies
<1>3. ASSUME Quiet, NEW h \in Handlers, Answer(h) PROVE OnceInv'
  <2>1. \A other \in Handlers : /\ Accepts(other)' => Accepts(other)
                                /\ Handles(other)' => Handles(other)
    BY <1>0, <1>3, AnswerStep DEF Handles, Accepts, Verifies
  <2> QED BY <1>0, <1>3, <1>given, <2>1, OnceFrame
<1>4. CASE OncePassed' /\ ("triggered" \notin deleted' => OnceSent')
  BY <1>0, <1>4 DEF OnceInv
<1>5. CASE ChangeDocument \/ FinishOcr \/ JobEnds \/ UNCHANGED vars
  <2>1. Quiet /\ handler' = handler
    BY <1>5 DEF ChangeDocument, FinishOcr, JobEnds, vars, docVars, engineVars, jobVars
  <2> QED BY <1>2, <2>1
<1>6. ASSUME NEW t \in Tags, DeleteTag(t) PROVE OnceInv'
  BY <1>2, <1>6 DEF DeleteTag, engineVars, jobVars
<1>7. ASSUME NEW type \in {"added", "updated"}, StartPass(type) PROVE OnceInv'
  BY <1>2, <1>7 DEF StartPass, jobVars
<1>8. CASE EvaluateWorkflow
  BY <1>4, <1>8, <1>given, OnceEvaluate
<1>9. CASE RunAction
  BY <1>4, <1>9, <1>given, OnceRun
<1>10. ASSUME NEW h \in Handlers, NEW trigger \in Triggers, Receive(h, trigger) PROVE OnceInv'
  BY <1>4, <1>10, <1>given, OnceReceive
<1>11. ASSUME NEW h \in Handlers, VerifyTrigger(h) PROVE OnceInv'
  BY <1>4, <1>11, <1>given, OnceVerify
<1>12. ASSUME NEW h \in Handlers, AcceptEvent(h) PROVE OnceInv'
  BY <1>4, <1>12, <1>given, OnceAccept
<1>13. ASSUME NEW h \in Handlers, ReadTags(h) \/ PatchTags(h) PROVE OnceInv'
  BY <1>none, <1>13 DEF ReadTags, PatchTags, Removing
<1>14. ASSUME NEW h \in Handlers, HandlerFails(h) \/ ConsumeFails(h) PROVE OnceInv'
  <2>1. Quiet /\ Answer(h)
    BY <1>14 DEF HandlerFails, ConsumeFails, docVars, engineVars, jobVars
  <2> QED BY <1>3, <2>1
<1> QED BY <1>1, <1>5, <1>6, <1>7, <1>8, <1>9, <1>10, <1>11, <1>12, <1>13, <1>14
        DEF Next, Environment, Engine, HandlerStep

LEMMA OnceMeansOneJob == TypeInv /\ OnceInv => OcrJobOnce
  BY DEF OnceInv, OncePassed, OcrJobOnce, Ocr

-----------------------------------------------------------------------------
(* The invariants of the specification. *)
LEMMA IInvInit == Init => IInv
  BY TypeInit, GivenInit, MarkerInit, OnceInit, CommandInit DEF IInv

LEMMA IInvStep == IInv /\ [Next]_vars => IInv'
<1> SUFFICES ASSUME IInv, [Next]_vars PROVE IInv'
  OBVIOUS
<1>1. TypeInv'
  BY TypeStep DEF IInv
<1>2. GivenInv'
  BY <1>1, GivenStep DEF IInv
<1>3. MarkerFollows' /\ OnceInv'
  BY <1>1, <1>2, MarkerStep, OnceStep DEF IInv
<1>4. CommandInv'
  BY <1>1, CommandStep DEF IInv
<1> QED BY <1>1, <1>2, <1>3, <1>4 DEF IInv

LEMMA IInvAlways == Spec => []IInv
  BY IInvInit, IInvStep, PTL DEF Spec

(* Every variable keeps its type, a request only consumes a tag its        *)
(* trigger has, and no deleted tag is left on the document.                *)
THEOREM IntakeTypeCorrect == Spec => []TypeOK
<1>1. IInv => TypeOK
  BY DEF IInv, TypeInv
<1> QED BY <1>1, IInvAlways, PTL

(* However many requests the API handles at a time and however many        *)
(* changes, failures and deleted tags there are, a trigger that needs a    *)
(* tag starts no job for a document that never had the tag set (router.py, *)
(* _verify_instance_trigger).                                              *)
THEOREM JobsNeedTheirTagAlways == Spec => []JobsNeedTheirTag
<1>1. IInv => JobsNeedTheirTag
  BY GivenMeansTag DEF IInv
<1> QED BY <1>1, IInvAlways, PTL

(* The OCR handoff of a document starts one job at most, whatever order    *)
(* its webhooks are delivered in, unless a one-shot tag is used on it.     *)
THEOREM OcrJobOnceAlways == Spec => []OcrJobOnce
<1>1. IInv => OcrJobOnce
  BY OnceMeansOneJob DEF IInv
<1> QED BY <1>1, IInvAlways, PTL

(* A one-shot tag is on the document until an event is accepted for it,    *)
(* unless it was set while a request removed such a tag: no failing,       *)
(* refused or repeated request of any other takes it off.                  *)
THEOREM CommandKeptAlways == Spec => []CommandKept
<1>1. IInv => CommandKept
  BY DEF IInv, CommandInv, CommandKept
<1> QED BY <1>1, IInvAlways, PTL
=============================================================================
