# Verification of eZEUS-AI-2

eZEUS-AI-2 extracts metadata from documents of Paperless-ngx. Paperless sends a
webhook, eZEUS creates a job, a Celery worker reads the document, extracts
values and writes those that are still missing back into Paperless. This
directory holds TLA+ models of the parts whose correctness depends on the order
of steps of several processes, TLC configurations that check them on small
instances, and TLAPS proofs of the most important properties for every value of
the constants. Paths below are relative to the repository's root.

- [1 Inventory of the system](#1-inventory-of-the-system)
- [2 The modules and how they correspond to the code](#2-the-modules-and-how-they-correspond-to-the-code)
- [3 What the runs check](#3-what-the-runs-check)
- [4 What is proved](#4-what-is-proved)
- [5 Where code and documentation disagree](#5-where-code-and-documentation-disagree)
- [6 What is not modelled](#6-what-is-not-modelled)
- [7 Plan](#7-plan)

## 1 Inventory of the system

### Components, their state and operations

| Component | Code | State | Operations | Correct when |
|---|---|---|---|---|
| webhook intake | `webhooks/paperless/router.py`, `core/jobs/service.py` | none of its own; tags of the document in Paperless | verify the trigger, create the job and its event, remove the one-shot tag | no job without a trigger; a command of a user is not lost; no loop |
| transactional outbox | `core/queue/outbox.py`, `core/models/queue_outbox.py` | `queue_outbox` rows: status, claim, `available_at` | add, claim, send, mark, back off, take over an expired claim | every committed job is sent; nothing is marked sent that was not |
| worker task | `apps/worker/tasks.py`, `core/queue/celery_app.py` | `jobs.status`, `jobs.retry_count`; the unacknowledged message | claim, run, record the outcome, retry, acknowledge late | a job is not lost, not run by two workers, and ends |
| sweeper | `core/queue/sweeper.py` | reads and writes `jobs`, adds events | requeue or fail jobs that have not changed for too long | only orphans are touched; nothing stays active for ever |
| job table | `core/models/job.py`, `core/jobs/service.py`, `core/jobs/retention.py`, `apps/api/admin.py`, `apps/api/dashboard.py` | `jobs` with the partial unique index `uq_active_job_document`, `documents`, `audit_entries` | administrative retry, deletion, retention | one active job per document; a deletion takes what it was asked for and leaves no empty document |
| orchestrator | `core/orchestration/orchestrator.py` | phases of a run, audit entries, the snapshot of the document | load, extract, validate, reload, write correspondent, title and fields, audit | what users have entered is not replaced; the audit is true; the outcome says what was filled |
| Paperless connector | `connectors/paperless/connector.py` | none; one HTTP client per job | read and patch a document, tags, workflows | a patch changes what it is meant to change only |
| workflow provisioning | `connectors/paperless/connector.py` (`ensure_ezeus_workflow`) | the managed workflows in Paperless | create, replace, disable workflows and tags | one enabled workflow per trigger, repairable after a failure at any step |
| field configuration | `core/field_config/service.py`, `apps/api/field_config.py` | `instance_field_configs` rows; custom fields in Paperless | defaults, save, import, synchronise with Paperless | each value reaches the custom field of its own field; a failed synchronisation can be repeated |
| Paperless instances | `apps/api/paperless_instances.py`, `core/paperless/service.py` | `paperless_instances` rows, encrypted credentials | create, update, rotate, soft delete | a slug and a secret identify one instance |
| administrators | `apps/api/admin_users.py`, `core/security/admin_auth.py` | `admin_users` rows, sessions | create, demote, deactivate, delete | an administrator remains |
| validation and selection | `core/validation/engine.py`, `core/orchestration/orchestrator.py` | pure | check and choose candidates | weak findings do not interfere with strong ones; amounts and signs are read right |
| correspondent matching, title template | `core/correspondents/matcher.py`, `core/paperless/title_template.py` | pure | score and choose, render | an ambiguous match is refused, a reference is no sender; titles are clean and settle |
| extraction providers | `plugins/extraction/*`, `plugins/llm/*` | pure, one HTTP call | extract a value from the text | - |
| limits and policy | `core/security/rate_limit.py`, `body_limit.py`, `outbound.py` | counters of one process | admit or refuse a request | the window is not exceeded |
| views | `apps/api/dashboard.py`, `ui.py`, `status.py`, `help.py`, `core/metrics.py` | read-only | render | - |

### How they interact

```
 Paperless --webhook--> router --one transaction--> jobs + queue_outbox
     ^                                                   |
     | read / patch                       dispatcher, API, sweeper publish
     |                                                   v
 orchestrator <-- worker task <-- Celery/Redis (acks late, redelivers)
     |                 |
     v                 v
 audit_entries     jobs.status <--- sweeper, administrator, retention
```

No actor holds a lock longer than one transaction. Between two transactions
lie broker calls, HTTP calls and the death of processes, and every actor acts
on what it has read before. Five actors write `jobs.status`: webhook request,
worker, sweeper, administrator, deletion. Users, Paperless-gpt and Paperless
workflows change the document at any time.

### What is hard

- *Crashes between two transactions*: event claimed but not sent; sent but not
  marked; job claimed but the worker dead; patched but not audited.
- *Duplicates*: the broker redelivers, a publisher whose lease expired is only
  slow, the send raises although the message was stored.
- *Stale reads*: the sweeper's list after its first commit, the row that
  `retry_job` read, the snapshot of the document all writes of a run share, the
  list of tags that `remove_document_tag` writes back.
- *Numeric edges*: `job_max_retries` against Celery's own limit, and
  `jobs.retry_count`, which two actors write with different meanings.
- *Liveness*: an active job blocks its document, because the unique index
  answers every later webhook with the old job.
- *External ordering*: workflow actions of Paperless against its own
  asynchronous webhooks.
- *Sequences of requests to Paperless without a transaction*: provisioning and
  synchronisation derive many writes from one listing; any of them may fail, be
  applied without an answer, or meet a user's change.
- *Checks before the commit*: the last administrator is counted, and a deletion
  looks for other jobs of a document, in statements of their own at READ
  COMMITTED.
- *Rules with many branches*: scores, contexts, strategies and notations, where
  tests hold examples only.

`PROJECT.json` lists these hazards one by one, at the lines where they bite.

## 2 The modules and how they correspond to the code

### JobQueue (with JobLifecycle, JobQueueRefinement, JobQueue_proofs)

The delivery core: rows of `jobs` and `queue_outbox`, the broker as a bag of
messages, and all actors that change them. One action is one committed
transaction, one broker call, or the death of a process between two of them.

| Variable | Code |
|---|---|
| `status`, `retryCount`, `stale` | `jobs.status`, `jobs.retry_count`, "`updated_at` is older than the threshold" |
| `issued`, `outbox`, `delayed` | rows of `queue_outbox`, their status, `available_at` in the future |
| `broker`, `held` | queued messages; the unacknowledged message of each worker |
| `workerStage` | where a worker is in `process_document_job`, `_claim_job` and `Orchestrator.process` |
| `pubStage`, `pubEvent` | where a caller of `publish_outbox_event` is, and with which event |
| `sweepList` | rows `sweep_stale_jobs` has loaded and not yet handled |
| `admin`, `deleting` | what `retry_job` has read; what a deletion has selected |
| `sent`, `abandoned` | history variables of the properties |

Actions follow the code's transactions: `AcceptWebhook` (job and event in one
commit, refused by the index), `ClaimEvent` / `SendEvent` / `MarkPublished` /
`SendFails` / `PublisherCrash`, `Receive` / `ClaimJob` / `SkipJob` /
`StartProcess` / `StartRaises` / `Heartbeat` / `Complete` / `Fail` / `RowGone` /
`MarkRetryWaiting` / `RetryConflicts` / `SendRetry` / `Ack`, the faults
`WorkerLost` (redelivery) and `TaskAborts` (the hard limit, acknowledged),
`BecomeStale` / `SweepFirst` / `SweepNext` / `SweepAborts`, `RetryRead` /
`RetryWrite` / `RetryRefused`, `DeleteSelect` / `DeleteJobs`.

Abstractions. Time is reduced to the facts the code tests (a row is stale, an
event backs off, a claim has expired at some point). The three priority queues
are one bag: a message can be received at any time, in any order. The status
`RECEIVED` exists inside the inserting transaction only, and `CANCELLED` is
never assigned; neither occurs. `LimitBelowThreshold` says whether the task
time limit is smaller than the sweeper's threshold, as the default settings
have it; only otherwise can the sweeper find a job stale whose worker lives.

`JobLifecycle` is what clients of the job table may rely on: a job is accepted
once, opens and closes, is removed for good, and a document has one open job.
`JobQueueRefinement` maps rows to these states (`LifecycleState`), and
`ImplementsLifecycle` is `JobLifecycle!Spec` under that mapping. JobRetention, which
has the steps within a transaction that JobQueue takes at once, implements the same
specification.

### DocumentProcessing (with DocumentProcessing_proofs)

One document and the calls of `Orchestrator.process` on it, phase by phase:
`LoadDocument`, `ReadDocumentText`, `SelectTemplate`, `ExtractFields`,
`ValidateResults`, `ReloadMetadata`, `MatchCorrespondent`, then the writes
`WriteMatch`, `WriteDefault`, `WriteTitle`, `WriteField`, each followed by
`AuditWrite`, and `Complete` or `RunFails`. A crash ends a run at any point;
JobQueue says why a further run follows.

| Variable | Code |
|---|---|
| `paperless`, `known`, `text` | the document, the correspondents and the OCR text in Paperless |
| `beforeWrite` | the snapshot `before_write` that all writes of a run share |
| `extracted`, `outside`, `match`, `todo` | the local variables of `process` of these names |
| `pending`, `audit` | a confirmed write before the commit of `_audit`; `audit_entries` |
| `behind`, `written` | history: items that may differ from the snapshot; confirmed writes |

A patch has three outcomes: applied and confirmed, applied but the answer is
lost, not applied. A field write sends the whole list of custom fields built
from the snapshot (`Merged`), as `write_empty_fields` does. Extraction is a
choice over the values a field may have; which text leads to which value is
outside the model. JobQueue decides which runs overlap: `Exclusive` is TRUE for
sequential runs and FALSE for the overlap that a duplicate delivery produces.

### WebhookIntake (with WebhookIntake_proofs)

How a document starts a job: the triggers, filters and actions of the managed
workflows as a function of the settings (`Workflows`, from
`ensure_ezeus_workflow`), their execution by Paperless, and the router, with
several requests at a time: `Receive`, `VerifyTrigger`, `AcceptEvent`, then
`ReadTags` and `PatchTags` of `remove_document_tag`. The job is reduced to
"active or not". `given` (tags that users or Paperless-gpt have set),
`unanswered` and `overlapped` (one-shot tags no event was accepted for, and those
of them set while another was being removed) and `faulty` are history.

Paperless itself is external. What the model takes from the repository about it:
workflows run in the order of their `order` attribute, with the filters of
their triggers (the payloads of `ensure_ezeus_workflow`); a webhook "is executed
asynchronously" (comment in `connector.py`); a deleted tag disappears from the
filters, and a trigger without a filter matches every change (docstring of
`_verify_instance_trigger`). Workflow actions fire no further event. A document
may be older than the workflows (`events.added` is 0 at the start).

### JobRetention (with JobRetention_proofs)

`delete_jobs` statement by statement, called by the sweeper after the retention
time and by the dashboard, against the other users of the same rows:
`create_from_event` (`FindDocument`, `InsertJob`, `CommitJob`), `retry_job`
(`RetryRead`, `RetryWrite`) and the worker (`Audit`, `Finish`). A deletion goes
through `SelectExpired` or `SelectAsked`, `ClearAudit`, `DeleteRows`,
`FindEmpty`, `DeleteDocuments`, `CommitDeletion`; it may also meet an audit
entry newer than those it cleared (`DeletionForbidden`) or die. The tables are
PostgreSQL's at READ COMMITTED: a statement sees what is committed when it
begins and waits for rows of uncommitted transactions, and deleting a document
cascades to its jobs. JobQueue has the effect of a deletion on delivery as one
step; this module has its steps.

| Variable | Code |
|---|---|
| `documents`, `status`, `audited` | rows of `documents` and `jobs`; jobs with rows in `audit_entries` |
| `deletion` | the local sets of `delete_jobs` and the rows its transaction has deleted |
| `intake`, `retrying` | the transaction of a webhook; the row `retry_job` has read |
| `overlapped` | history: two deletions were under way at the same time |

### AdminAccounts (with AdminAccounts_proofs)

The accounts of administrators: `Authenticate` (`require_admin_user`),
`ReadTarget`, `Check` (the rule of the last administrator, with its count), then
`CommitUpdate` or `CommitDelete`, each a statement of its own between which
other requests commit; `Create`, and the two scripts of the command line, which
skip the checks. A body leaves each field out, states it, or sends it as an explicit
null, which the schema admits (`SendsNull`): the conditions of the check do not know
it, and it is stored as the role "None" or as disabled (`StoredRole`,
`StoredEnabled`). An update writes the changed columns only, as SQLAlchemy does
(`Written`), into the row as it is by then. Passwords and sessions have no
bearing on role and `enabled` and are left out. Two variables are history:
`serial`, no commit fell between the read and the commit of another request, and
`stated`, no committed update has sent a null.

### WorkflowProvisioning (with WorkflowProvisioning_proofs)

`ensure_ezeus_workflow` as the sequence of its requests: `List` computes from one
listing all writes (`Plan`, with `Upsert`, `Disable` and `DisableConflicts`), and
`WriteNext` sends them one by one; a request may be refused by Paperless
(`WriteRefused`), fail, be applied without an answer (`AnswerLost`), or the process may
die (`CallDies`). Around it: `Create` (whose failure removes the row but not the
workflows, `Fail`), `Provision`, `UpdateInstance`, `DeleteInstance` with the slug that
stays taken, and users of Paperless who create, switch and delete workflows and edit
their name, webhook URL and trigger (`UserChanges`; of a call, `edited` tells which
workflows users have edited so after its listing). `Effective` is the set of enabled
workflows that send to an instance, `Expected` what its settings ask for: the abstract
promise of the component. Tags are found or created before and never changed: they are
part of a workflow's kind. A workflow of a user, too, may carry the webhook's address
and name any trigger. Left out is a user who brings the former and the present name of
the manual workflow together, each on a workflow of its own.

### FieldConfiguration (with FieldConfiguration_proofs)

The field editor: `Open` and `Import` (GET), `Save` (PUT: rows and their commit) and the
synchronisation that follows, field by field (`List`, `Read`, `Create`, `Rename`,
`Keep`, `Commit`), with requests that are refused, fail or are applied without an
answer, and users who create, rename and delete custom fields. Before each save the
administrator may have made one change to the form (`Drafts`): another label, type or
Paperless ID of a row, a field switched on or off, or an added field; a typed ID may be
one that Paperless has not given yet (`Typed`).

| Variable | Code |
|---|---|
| `rows`, `remote` | rows of `instance_field_configs` by key; the custom fields of Paperless |
| `editors` | a form, and the request it has sent: the list of custom fields it goes by, the rows its session keeps in memory (`known`), those still to be synchronised (`todo`), the links it will commit |
| `synced` | history: the last synchronisation was undisturbed, its configuration orderly, and nothing has changed since |

A key is its position in `sort_order` and keeps it: that a save moves edited fields to
the front (`promoteEditedFields`) and the buttons that move a field are left out. First
come added fields, a standard field, then imported ones, whose key has a suffix when
another row holds the plain one (`_paperless_field_key`). The loop of
`import_paperless_fields` is stated by what it comes to (`ImportedRows`): the row a
custom field belongs to (`Owner`) depends on links and names before the loop, a row
without a link gets the first of its custom fields, and of several that belong to no row
and share a name the first becomes one. SQLAlchemy does not read again what its session
has in memory: `Known` are the rows as they were saved, unless the commit of a changed
title template has expired them. `NormalForm` stands for `normalized_name`.
`WriteTarget` is where a worker writes the value of a field. The endpoints run on one
event loop and wait only at requests to Paperless, so that actions end there.

### ExtractionRules (CorrespondentMatching, ValueSelection, TitleTemplate, Subsequence, ExtractionRules_proofs)

The pure rules of a run, as operators, and one question with its answer per behaviour.
*CorrespondentMatching*: name contexts, the algorithms of Paperless' matching rules,
scores and the choice of `matcher.py`; a text is a sequence of lines of words, and which
word is a part, a prefix or a suffix of another, and what it is without upper case
(`Folded`), is data of the instance; an expression regards upper case unless its entry
is `insensitive`. Whether the search of an expression fails, by its time limit or as no
valid expression, is data of the entry (`fails`); `difflib`'s ratio is external.
*Subsequence* is what list comprehensions and substitutions leave of a sequence.
*ValueSelection*: amounts as digits with marks (comma or point) between them and a sign,
which says where a minus stands (before brackets, before the digits or behind them) and
whether brackets are around the whole text or inside of a currency; the validator
`monetary_amount`, which refuses what `Decimal` does, an amount of more than its 28
digits (`AmountLimit`) included; the candidates of patterns (with the negating context)
and of the language model, each with its place, which is its pattern and its number
among the findings of that pattern; the minimum confidence and every selection strategy
of VALIDATE_RESULTS. Python's lists of candidates are sets here: a place says where in
the list a candidate stands, and the first of the greatest is what `max` returns.
*TitleTemplate*: rendering, cleaning and cutting of a title, and the title the next run
would write; texts are sequences over the constant `Characters`.

## 3 What the runs check

| Run | Instance | Question |
|---|---|---|
| `queue_workers` | 1 job, 2 workers, 2 publishers, 1 fault, 1 deletion, 2 events, task limit above the threshold | Is a job ever lost, an unsent event marked, a job shared by two workers without a redelivery or a requeue? Is each step one of `JobLifecycle`? |
| `queue_document` | 2 jobs of one document, 1 worker, 1 administrative retry, no faults | Can a document get two active jobs? |
| `queue_sweep` | 2 jobs of two documents, 1 worker, 1 deletion, no faults, task limit above the threshold | The sweeper's list of two rows, unlocked after the first commit, against living workers and deletions: is a job stranded? |
| `queue_live` | 1 job, 3 faults, 3 events, `CeleryMaxRetries` below `JobMaxRetries` | Does every active job end, does the outbox drain? |
| `document_retries` | 2 sequential runs, 2 fields, 2 titles, 2 correspondents, 1 edit of a user, 1 fault, from a freshly consumed document | Snapshot, protection of content, audit, and what COMPLETED means |
| `webhook_intake` | 4 settings, 2 requests; 2 commands, or 1 command with 2 changes and 1 failing call or deleted tag | Jobs need their tag; one job per OCR handoff; commands are kept and answered |
| `retention` | 2 jobs of one document, the sweeper and 1 deletion by an administrator, 2 retries or deaths | Do other jobs survive, is a document left empty, do expired jobs go? Is each step one of `JobLifecycle`? |
| `accounts` | 3 accounts, 2 requests or scripts at a time, 3 bodies, one of them with a null for `enabled` | The last administrator, deletions, lost updates and the audit under interference |
| `accounts_last_admin` | the same with 3 bodies without nulls | refuted: section 5 |
| `provisioning` | 1 instance, 2 calls at a time, 3 settings, 4 workflows, 1 change of the instance, 1 trouble (an edit of a user is one), from an existing instance with a legacy workflow or a new one with a user's workflow | Does an undisturbed call repair whatever was left behind, and what may no call touch? |
| `fields` | 2 editors, 3 labels of which two differ in spelling only, 2 custom fields, the second of which may be typed before it exists, 1 added field, 2 saves, 1 trouble (an edited type or ID is one), from one custom field in another spelling of the standard field | Does each value reach its field, can a failed synchronisation be repeated? |
| `rules` | texts of up to 3 lines out of 11, and some of 6; 6 directories, and 4 of two expressions with one name; monetary and text fields with 2 patterns, of up to 2 findings and of one, and a suggestion; amounts in all notations with all signs; templates of up to 3 parts, 8 runs | What the rules of `matcher.py`, `engine.py`, the selection strategies and the title template are meant to decide |

The properties:

- `ActiveHasCarrier` (JobQueue): an active job has an unsent event, a message
  `_claim_job` would accept, or a worker, unless a task was acknowledged without
  an outcome. This is the property that makes at-least-once delivery work; it
  relates the row, the outbox, the broker and the worker, and only the sweeper
  may repair what it excludes (`abandoned`).
- `OneActivePerDocument`: the index against webhooks, retries, sweeps, late
  writes.
- `PublishedWasSent`: takeover and crash of publishers.
- `DuplicatesDropped`: two workers run one job only after a redelivery or a
  requeue of the row.
- `ImplementsLifecycle`: the refinement.
- `AcceptedJobEnds`, `OutboxDrains`: liveness.
- `SnapshotFresh`: the snapshot is right about every item that nobody else has
  changed; a write that is not learned breaks the next merged list.
- `ProtectsKnownContent`, `AuditedWritesStand`, `CompletedIsFilledWithoutFaults`.
  The last one holds for sequential runs only: of two overlapping runs one can
  remove, with its stale list, the required field the other has filled; and it
  does not survive a failing write, which is only logged.
- `JobsNeedTheirTag`, `OcrJobOnce`, `CommandKept`, `CommandAnswered`
  (WebhookIntake). The last two are about commands that are not set while another
  one-shot tag is being removed (section 5). `JobsNeedTheirTag` excludes the handoff with a request tag:
  when the pending tag is deleted, the completion workflow loses its own filter
  and sets the completion tag on every changed document, which the guard of the
  router cannot tell from a finished OCR.
- `NoEmptyDocuments`, `OthersSurvive`, `ImplementsLifecycle`, `ExpiredJobsGo`
  (JobRetention): what a deletion leaves and what it may take, when the document's
  jobs change between its statements; that all this is again `JobLifecycle` for
  those who look at committed rows; that expired jobs go in the end although
  other transactions make a deletion fail.
- `AdminRemainsIfSerial`, `OnlyDisabledDeleted`, `OnlySentFieldsChange`,
  `AuditTellsRow` (AdminAccounts): the rule of the last administrator holds without
  interference and without a committed null, the check before a deletion without
  interference (with these they do not, section 5); that no update is lost, and no
  column changes whose field was not sent, holds always, nulls included.
- `ProvisionedAsConfigured`, `RepetitionChangesNothing`, `ForeignWorkflowsKept`
  (WorkflowProvisioning): an undisturbed call leaves exactly the workflows its
  settings ask for, whatever failed, dead and overlapping calls and users have
  left behind; repeated, it changes nothing; workflows that send eZEUS nothing
  are not touched, unless a user has edited one after the listing of the call (section 5).
- `ValuesReachTheirField`, `ImportTakesNoLink`, `LoadingSettles`, `RetryIsAccepted`
  (FieldConfiguration): after an undisturbed synchronisation each enabled field
  has a custom field of its own with its label and type; loading keeps rows and
  links, and repeated it would change nothing. `Orderly` excludes
  enabled fields that share a name or a custom field, custom fields that share
  a name, a field that bears the name of the custom field another one is
  linked to, and a typed ID that Paperless has not given yet (section 5).
- `CourtsAreNoSenders`, `SenderIsNotPassedOver`, `EqualEntriesMatchNobody`
  (matching), `WeakerFindingsDoNotInterfere`, `ModelOnlyFillsGaps`,
  `CreditNoteMirrorsInvoice`, `AmountsReadRight` (values), `TitleIsClean`,
  `TitleSettles` (titles): each relates the answer to a question to the answer
  to another one, or to what was meant (`Meant`: cents behind the last mark, or in full).
  The first is about names that some three lines contain, since the code judges no other
  occurrence; in the second, "far" is further than three lines before and one
  after any line with a word of the name, which is how far a context reaches.
  `EqualEntriesMatchNobody` is about entries of one name and rule (`SameRule`): of two
  expressions both must regard upper case or neither, and the search of both fail or of
  neither (section 5). `CreditNoteMirrorsInvoice` excludes findings with a minus behind a
  bracket or a currency, and `AmountsReadRight` brackets inside of a currency (section 5).
  The latter says of every other sign that the value is the amount or refused, and
  that one minus in front, or brackets around, are not refused.

Type correctness is proved for the state machines of the protocols (section 4).

Each property has a mutant of the model, a plausible bug that the property
detects: the definitions whose comment begins with "Fault:" or "A changed", which
no specification uses.

**Bounds.** The protocols have no data structure whose behaviour changes with size: a
second worker, publisher, job or run brings every race between two of them, and the
proofs of section 4 do not depend on these numbers. Two events per job give a first
delivery and one requeue; a third lets the sweeper requeue after a retry. One fault
reaches each single point of failure; `queue_live` has three: crashes during the
recovery from a crash. One field in `Required` and one in `Scoped` distinguish the
fields `ValidateResults` treats differently; one field value and one title besides the
file name suffice, since the code compares values with empty, with the snapshot and with
the file name only. The four settings of `webhook_intake` contain every form of the
automatic workflow. Two runs of a document at the same time, as a duplicate delivery
produces them, are left to the proofs of DocumentProcessing, which hold for both values
of `Exclusive`. Three accounts are an administrator who acts, one who is acted on and
one to remain. A null for the role is left to the proofs. Four workflows are those of
one call and one more of a user or of an earlier call; one instance suffices for
repairs, since a call looks at workflows by name and by the address of its own instance.
In `fields` the two custom fields may bear names that are equal, equal but for spelling,
or different; a typed ID is that of the second one, which need not exist yet; a form
with an edited type or ID counts as a trouble; an imported row whose plain key is taken
occurs, one whose two keys are taken (`KeysTaken`) needs more saves and is left to the
proofs. Where the starting states of a module multiply those of its actions, the MC
module keeps the start from which the most can happen (`ConsumedSpec`, `StartSpec`):
everything is still to be written and the default correspondent to be created; a custom
field differs from its label in spelling only. `AmountLimit` is a million euros there
instead of the 10^26 of `Decimal`'s 28 digits, so that amounts on both sides of it
occur. The texts of `rules` put a name before, behind, into and far from each kind of
phrase, since a context reaches one line back and three forward. `queue_live` has
`JobMaxRetries` = 1, with which the overwritten `retry_count` of section 5 does not
show: with 2, liveness takes longer to check than is reasonable, or the events are used
up first.

**Deadlock** is not checked: every model stops when its bounds are used up and
its jobs have ended.

**Fairness.** `queue_live` assumes what the processes' loops guarantee: the
dispatcher, the sweeper and the workers repeat for ever, a begun transaction
ends, the hard time limit ends the orchestrator, time passes (`BecomeStale`,
`BackoffElapses`). All of it is weak fairness per process. Webhooks, errors,
crashes, administrators and deletions are not fair. `webhook_intake` assumes
that Paperless runs its workflows and delivers its webhooks, that requests are
answered, and that a job ends, which is `AcceptedJobEnds`. `retention` assumes
that the sweeper's loop begins its deletions again, and that a begun
transaction, request or task ends; webhooks, retries, the dashboard and deaths
are not fair.

## 4 What is proved

All theorems hold for every value of the constants under the named assumptions of the
modules (`JobQueueAssumption`, `ProcessingAssumption`, `NoEntryAssumption`,
`AccountsAssumption`, `DocOfAssumption`, `BoundsAssumption`, `IntakeAssumption`,
`ProvisioningAssumption`, `FieldAssumption`, `DirectoryAssumption`, `WordsAssumption`,
`TextAssumption`, `LengthsAssumption`, `TitleQuestionAssumption`,
`AmountLimitAssumption`, `AmountAssumption`, `FieldQuestionAssumption`), which only say
what the constants are: for any number of jobs, workers, publishers, runs, fields,
documents, accounts, requests, instances, calls, workflows, editors, labels,
correspondents, lines, words, digits, patterns and findings. Those of the rules say
this:

- `DirectoryAssumption`: a directory lists each correspondent under a primary key of its
  own, as the database of Paperless has it.
- `WordsAssumption`, `TextAssumption`: texts, names and phrases are finite sequences of
  words; the beginning and the end of a word are parts of it.
- `LengthsAssumption`, `TitleQuestionAssumption`: the lengths at which titles and
  values are cut are numbers; templates, values and titles are texts.
- `AmountLimitAssumption`: the limit beyond which `Decimal` refuses an amount is a number.
- `AmountAssumption`: an amount is written with any sign and with cents, two digits
  behind its last mark, whose
  other marks are of the other kind, or in full, with a point before each three digits or
  none. `1,234` is not among these (section 5).
- `FieldQuestionAssumption`: patterns and findings are finite lists, there are fewer
  patterns than the number that stands for none, and what a pattern finds for an amount is
  digits with marks.

| Theorem | Statement |
|---|---|
| `TypeCorrect` | `Spec => [](TypeOK /\ RetriesLeft)` |
| `NoTwoActiveJobs` | `Spec => []OneActivePerDocument` |
| `PublishedEventsWereSent` | `Spec => []PublishedWasSent` |
| `NoJobLost` | `Spec => []ActiveHasCarrier` |
| `Implementation` | `Spec => ImplementsLifecycle` |
| `DuplicatesAreDropped` | `Spec => []DuplicatesDropped` |
| `ProcessingTypeCorrect` | `Spec => []TypeOK` |
| `SnapshotStaysFresh` | `Spec => []SnapshotFresh` |
| `AuditIsTrue` | `Spec => []AuditedWritesStand` |
| `KnownContentProtected` | `Spec => ProtectsKnownContent` |
| `CompletedIsFilledIfSequential` | `Exclusive => (Spec => []CompletedIsFilledWithoutFaults)` |
| `AccountsTypeCorrect` | `Spec => []TypeOK` |
| `AdminRemainsIfSerialTheorem` | `Spec => []AdminRemainsIfSerial` |
| `OnlyDisabledDeletedTheorem` | `Spec => OnlyDisabledDeleted` |
| `OnlySentFieldsChangeTheorem` | `Spec => OnlySentFieldsChange` |
| `AuditTellsRowTheorem` | `Spec => AuditTellsRow` |
| `RetentionTypeCorrect` | `Spec => []TypeOK` |
| `NoEmptyDocumentsTheorem` | `Spec => []NoEmptyDocuments` |
| `OthersSurviveTheorem` | `Spec => OthersSurvive` |
| `RetentionImplementsLifecycle` | `Spec => ImplementsLifecycle` |
| `IntakeTypeCorrect` | `Spec => []TypeOK` |
| `JobsNeedTheirTagAlways` | `Spec => []JobsNeedTheirTag` |
| `OcrJobOnceAlways` | `Spec => []OcrJobOnce` |
| `CommandKeptAlways` | `Spec => []CommandKept` |
| `ProvisioningTypeCorrect` | `Spec => []TypeOK` |
| `ProvisionedAsConfiguredAlways` | `Spec => []ProvisionedAsConfigured` |
| `RepetitionChangesNothingAlways` | `Spec => RepetitionChangesNothing` |
| `ForeignWorkflowsKeptAlways` | `Spec => ForeignWorkflowsKept` |
| `FieldsTypeCorrect` | `Spec => []TypeOK` |
| `ImportTakesNoLinkAlways` | `Spec => ImportTakesNoLink` |
| `LoadingSettlesAlways` | `Spec => LoadingSettles` |
| `ValuesReachTheirFieldAlways` | `Spec => []ValuesReachTheirField` |
| `RetryIsAcceptedAlways` | `Spec => RetryIsAccepted` |
| `EqualEntriesMatchNobodyAlways` | `Spec => []EqualEntriesMatchNobody` |
| `WeakerFindingsDoNotInterfereAlways` | `Spec => []WeakerFindingsDoNotInterfere` |
| `ModelOnlyFillsGapsAlways` | `Spec => []ModelOnlyFillsGaps` |
| `CreditNoteMirrorsInvoiceAlways` | `Spec => []CreditNoteMirrorsInvoice` |
| `TitleIsCleanAlways` | `Spec => []TitleIsClean` |
| `AmountsReadRightAlways` | `Spec => []AmountsReadRight` |
| `CourtsAreNoSendersAlways` | `Spec => []CourtsAreNoSenders` |
| `SenderIsNotPassedOverAlways` | `Spec => []SenderIsNotPassedOver` |

**JobQueue_proofs.** Type correctness needs `RetriesLeft`: the message that
`SendRetry` produces is one only because a task in `failed` has a retry left;
the two are one induction. `OneActivePerDocument` is inductive given the types:
every action that makes a row active passes `IndexAllows`.
`PublishedWasSent` is not inductive: a publisher in stage `sent` must own an
event that was sent, and an event that was never issued must be `NONE`
(`OutboxInv`). `ActiveHasCarrier` is inductive with types and `RetriesLeft`;
its proof goes by carriers: each lemma says which actions keep the carriers of
jobs they do not touch, and only `WorkerKeepsOwnJob` looks at the stages of a
task. The refinement adds `DeletingExisted` (a deletion selects rows that
exist, so that it never removes a job that was never accepted).
`DuplicatesDropped` rests on `OneClaim`: a job never returns to its first
attempt, since events are only added and every requeue and retry counts. On its
first attempt it has never waited for a retry and no worker processes it before
the claim, so that a second claim finds it `RUNNING` and needs a redelivery.

**DocumentProcessing_proofs.** `IInv` is the conjunction of `TypeOK`,
`SnapshotFresh`, `AuditedWritesStand` in the form of `Recorded`, and four facts
about where a run is: `Valued` (a field still to be written has a value),
`StillEmpty` (the items it is about to write are empty in the snapshot),
`NothingWrittenYet` (before the reload) and `PendingWritten` (an entry about to
be audited was confirmed). `SnapshotFresh` alone is not inductive: that a merged
list does not change other fields rests on the snapshot being right about them,
and that a write fills an item which is empty now rests on `StillEmpty`.
`KnownContentProtected` follows from `IInv` at each write.
`SequentialInv` adds what holds of runs one at a time: as long as no bound is
spent, the snapshot of the run that writes knows every field, a value no longer
to be written is there, and no field is emptied; `CompletedIsFilledWithoutFaults`
follows when nothing is left to be written. That runs do not overlap (`Exclusive`)
is what OneActivePerDocument and DuplicatesDropped grant the first attempt.

**AdminAccounts_proofs.** That an administrator remains is not inductive: it
rests on what requests in progress know. As long as no commit has fallen between
the read and the commit of another request (`serial`), and no null was committed
(`stated`), a request still sees the
row it has read (`Fresh`), and one that has passed the check and takes the access
of an active administrator still has another one beside its target (`Safe`);
`SerialInv` says both and that there is an administrator. The count of the code
becomes the other administrator in `AnotherAdmin`, by the cardinality of a
singleton: the only place where the number matters. The action properties follow
from the same invariant; `OnlySentFieldsChange` needs neither `serial` nor `stated`.

**JobRetention_proofs.** `Meant` says what the sets of a deletion mean at each of
its statements: rows deleted by key were asked for, and rows the cascade took
were not there when the last statement looked. It is inductive with `Committed`
(a deletion knows committed jobs only, so that an insertion in progress is not
among them) and `IntakeInv`, and gives `OthersSurvive` for any number of
overlapping deletions. `NoEmptyDocuments` needs `AloneInv`: as long as deletions
have not overlapped, each document of the deleted jobs is among those that will
be deleted, or keeps a job that the deletion does not take (`Kept`). The
refinement of `JobLifecycle` (`StepRefines`) adds `InsertedAlone`: between the
statement that inserts a job and its commit no other job of the document becomes
active, because the unique index makes a retry wait.

**WebhookIntake_proofs.** The router's decisions rest on what Paperless has still
to do, so that `IInv` speaks of workflows, actions, webhooks, requests and jobs
together. `TypeInv` says which workflows and actions the engine can hold
(`WorkflowSet`, `ActionSet`). `GivenInv`: a tag that only users set is on the
document, in a list a request has read, or behind an accepted job only if it was
given. `MarkerFollows`: a webhook of the OCR handoff is the first of its actions
and its marker the second; `OnceInv` says with it that there is one webhook,
request or job of the handoff as long as the marker can be trusted, and one
request past the guard in any case. `CommandInv` follows a command through every
list of tags that is still to be written back. `OcrJobOnce` is not inductive
without any of these: what makes a second job impossible is the marker that a
later action sets.

**WorkflowProvisioning_proofs.** A call acts on an old listing, so that the argument is
about lists of writes. The lemmas about `Plan` say what one listing gives: one write per
target, the expected payloads, a target for whatever takes part, and for a listing that
is as expected nothing but repetitions (`PlanWrites`, `PlanCovers`, `PlanRepeats`).
`WritesFit` and `LegacyFit` (`PlansInv`) say what such a list keeps true while other
calls and users go on: its targets are managed or send document events, or a user has
edited them after the listing (`edited`): identifiers are not used again, and a call
changes neither the managed names nor what sends nothing (`ListFollows`, `TargetsInv`).
This gives `ForeignWorkflowsKept` and that managed names stay unique (`NamesInv`). As
long as a call is undisturbed, what it has still to send turns the workflows into the
wanted ones (`Completes`, `AloneInv`); each write keeps this, and with nothing left to
send it is `ProvisionedAsConfigured`. `RepeatInv` is the same for a repetition. Where
several workflows conflict, `DisableConflicts` takes them in the order of their
identifiers (`Position`); that each place is taken once follows from cardinalities
(`PositionsTaken`).

**FieldConfiguration_proofs.** A synchronisation goes by one list of custom
fields, which learns of those it creates but not of those it renames. `OnCourse`
says what list, custom fields and rows have to do with each other while nothing
disturbs the request: each field done so far has a target in the list that bears
its label and type in Paperless and is the link to be committed, and the list
differs from Paperless at most at these targets. What keeps it true is that fields of an
orderly configuration have targets of their own (`TargetsDiffer`), and that a
created custom field is no other field's target (`OtherTargetsStay`): its
identifier is new, whereas the links of an orderly configuration lead to identifiers
Paperless has given. With nothing left to do it gives `ValuesReachTheirField`; that the
name asked for is free (`NamesAccepted`) gives `RetryIsAccepted`. `AloneInv` says
what an undisturbed request relies on before: the rows its session remembers
are those of the table (`Knows`) and the list is what Paperless has. `LoadingSettles` and
`ImportTakesNoLink` need types only: a row that loading adds or links is
the owner of its custom field afterwards (`LoadedLinksDiffer`, `LoadedOwner`).

**ExtractionRules_proofs.** `EqualEntriesMatchNobody` needs nothing of how scores are
computed: entries of one name and rule (`SameRule`) make equal claims
(`EqualEntriesClaimEqually`), of equal claims both or neither win
(`EqualClaimsWinTogether`), and a correspondent is chosen as the single winner only
(`ChosenIsTheWinner`). The inductive invariant `AnswerIsTheMatch` says that an answer is
the one `MatchCorrespondent` gives to the question that was asked.

The properties of values go by `AnswerIsTheValue`, which says the same of `Value`; what
remains are facts about `Value` itself, for any number of patterns and findings. A set of
places has an earliest one (`EarliestPlace`), by the principle of the least number, which
the library states for sets and which stands in for inductions here and in `NumberType`.
Its first consequence is `FindingIsCandidate`: a finding that is dropped as a repetition
repeats a candidate before it. `LaterPatternsChangeNothing`: a readable finding of a
pattern is a valid candidate or repeats one, so that the foremost candidates are among
the patterns up to it, and those do not depend on later ones (`FirstPatternsFindTheSame`).
`LaterCandidatesChangeNothing` does the same for the candidates of the model, which have
the last place. For `CreditNoteMirrorsInvoice`, an amount and its negation are read alike
but for the sign (`NegatedReads`), so that invoice and credit note have valid candidates
at the same places with the same absolute values (`ComparedAmounts`) and choose the same
greatest one (`ChosenAmount`).

Titles, amounts and names are read by recursive functions and folds of the library, about
which there is no induction. The proofs go by least counterexamples instead: where a
property of all prefixes fails, it fails first at some prefix, and the step of the recursion
that leads there contradicts this. So a number is ten times the number before its last
digit, and that digit (`LastDigit`), and a run of lines falls into two at any
place (`FlattenSplit`).

*Titles.* What is kept of a text stands in its order (`KeptInOrder`), because the
rank of a position is the cardinality of the kept positions up to it (`Ranks`). From this
follows that collapsing leaves no two separators with only blanks between them
(`CollapsedIsSpaced`), and that the steps after it, blanks, edges and cutting, keep it so
(`CollapsedBlanksStaySpaced`, `PartStaysSpaced`, `CutIsClean`). `TitlesAreRendered` is the
inductive invariant: every title after the first run came out of `RenderTitle`, and it is
a text whatever the values were.

*Amounts.* `MarksType` and `ThousandsByMark` say when `DecimalMark` takes the last mark for
the decimal one. With cents the digits are split behind it (`CentsSplitOff`), in
full nothing is (`NothingSplitOff`), and both give the figure that was meant
(`ReadIsFigure`); the sign is added to it or the text refused (`SignIsSeen`).

*Names.* A wider window of lines mentions what a narrower one does (`WiderWindow`), so that
markers and names can be followed from a line to a context and to the whole text. A name
that a text mentions only together with its last part has a word in that part
(`LastPartIsTouched`). The window of an occurrence is the shortest, so that its last line is
touched (`NameEnds`) and the context lies within three lines before it and one
after. Hence a name with references only has the priority 0 in every occurrence and
claims nothing (`ReferencesClaimNothing`); a sender's name has the
highest priority (`SenderClaims`), and one far from every such phrase a lower one, or
is nowhere whole, and similarity does not exceed equality
(`UnmarkedClaims`, `SimilarVerdict`). A claim that is preceded does not win
(`PrecededDoesNotWin`).

Only model-checked: liveness (`AcceptedJobEnds`, `OutboxDrains`, `CommandAnswered`,
`ExpiredJobsGo`), which rests on fairness and ENABLED; and `TitleSettles` of ExtractionRules.
That repeated runs come to rest is a statement about the composition of substitution,
cleaning and cutting with itself, as often as a title has characters: its proof would be an
induction over runs, for which the least counterexample is no substitute as long as it is
not known what of a title has settled after each of them.

## 5 Where code and documentation disagree

The run `accounts_last_admin` refutes a promise of the API: the active
administrators are counted by a statement of its own and without a lock, so that
two requests which demote or disable each other's account at the same time both
count two, and none remains ("The last administrator must remain active",
`src/apps/api/admin_users.py:305`).

The following was met while modelling. The models contain it, and the properties
of section 3 are stated so that they hold with it.

Delivery (JobQueue, JobRetention):
- A redelivered message, or one of a requeued row, is accepted while the job is
  `RUNNING`, so that two workers process it (`docs/security.md:53-54`: duplicate
  deliveries are discarded). `DuplicatesDropped` is what remains.
- The locks of the sweeper's query end with the commit for its first row; the
  others are written without another test, so that a job which has ended
  meanwhile is requeued (`tests/unit/test_sweeper.py:102`).
- The task overwrites `jobs.retry_count` with the retry number of its message,
  which undoes the sweeper's increments: automatic retries exceed
  `JOB_MAX_RETRIES` (`README.md:738`), and a job that fails every time is
  requeued again and again when `job_max_retries` exceeds the limit of Celery by more than one.
- A deletion selects terminal jobs and deletes them by key: a job retried in
  between is deleted while it is active (`docs/dashboard.md:76`). A job that a
  webhook inserts between the last two statements goes with its document.
- Two deletions at a time can each take the other's jobs for remaining ones and
  leave a document without jobs. An audit entry written after the entries were
  cleared rolls the whole deletion back; the next one repeats it.

Documents (DocumentProcessing, WebhookIntake):
- What a user enters between the reload and a write is overwritten, or removed
  by the merged list of custom fields (`docs/CURRENT_STATE.md:135`,
  `docs/architecture.md:55-56`).
- A crash between a confirmed patch and the commit of its audit entry leaves the
  change out of the audit for good, because the next run finds the item filled.
- An empty text ends the run as FAILED and is retried, while
  `docs/architecture.md:48` says it completes with warnings.
- A one-shot tag that is set while `remove_document_tag` removes another one is
  lost without a job (`docs/benutzerhandbuch.md:111`).
- The workflow of the OCR handoff sets the marker the router forbids right after
  it has handed over the webhook: when the marker is there first, no job starts.

Accounts (AdminAccounts):
- `enabled` or `role` sent as an explicit null is neither `False` nor `"viewer"`: it
  passes the conditions of `src/apps/api/admin_users.py:287-305` and is written as
  disabled or as the role "None" (309-312). One request of the last administrator about
  the own account leaves none, with nothing else under way: `AdminRemainsIfSerial`
  fails in the model without its condition `stated`.
- A deletion looks at the account it has read: one that is enabled before the commit
  is deleted ("Ein Konto muss vor dem endgültigen Löschen deaktiviert werden",
  `docs/benutzerhandbuch.md:426`). `OnlyDisabledDeleted` fails without its condition `serial`.

Workflows and fields of Paperless:
- The docstring of `ensure_ezeus_workflow` says that workflows of users are never
  modified; those that send document events to the instance's address are
  switched off.
- The managed names belong to a server, not to an instance: two instances of one
  server replace each other's workflows, and the run has one instance for that reason.
- A workflow that a user takes out of the way between the listing and the write, by
  another name, address or trigger, is switched off or written over all the same
  (`src/connectors/paperless/connector.py:435-439`, `589-593`).
- A creation that fails removes its row and leaves its workflows; changed
  settings take effect in Paperless only with the next provisioning.
- Of two fields, one relabelled and one added under the old name in the same
  form, both are linked to the same custom field. Saving again after the
  synchronisation failed adds the new field twice, since the rows are committed
  before. A typed Paperless ID is not checked against Paperless: when it is the one
  Paperless gives next, a synchronisation creates that custom field for one row and
  renames it for the other (`src/core/field_config/service.py:603-607`, `624-637`).
  A custom field of the name an enabled field takes is renamed with it,
  although a field that is not enabled is linked to it (`docs/architecture.md:24-26`).
- A synchronisation goes by the rows of its own save, even when another
  administrator has saved meanwhile, unless its title template has changed too.

Rules:
- `1,234` is 1.23 and not 1234: a single comma is always a decimal mark.
- "(9,00) EUR" is nine euros, not minus nine: brackets count only when they are the first and
  last characters. A minus behind the amount and more than 28 digits are refused.
- Of two entries with the same name and expression, one is chosen when the search of only
  the other one exceeds its time limit.
- An amount with a minus behind a bracket or a currency is rejected as having two
  signs in a credit note; an amount suggested by the language model in a credit note keeps its
  sign.
- "First exact occurrence" (docstring of `_name_context`) is the end of a window
  of three lines: an occurrence may be attributed to up to two lines before it. A name
  spread over more than three lines is found, but counts as neither sender nor reference.
- The invoice number that stands in for a title is not cut to the maximal length.

## 6 What is not modelled

- The rate limiter, the limit of bodies and the outbound policy: counters of one
  process and checks of one request, which share no state with the rest; their
  windows are clock arithmetic.
- The language of texts: regular expressions, OCR and language models. What they
  find is an input of ValueSelection and a choice in DocumentProcessing. A value that
  is no amount is a text together with what its validator makes of it, or unfit.
- The tables of profiles, document types and automatic templates: data.
- The preview of fields, the dashboard's filters, and the paging of lists of
  Paperless: they only read.
- Credentials, HTML and JSON of the views, migrations and scripts: no state that
  several actors share.
- Clock values: limits and backoffs are reduced to "has passed".
- Webhooks without a trigger header and those of the legacy endpoint: they skip
  verification and consumption and are `AcceptEvent` alone.

## 7 Plan

Done, in this order: JobQueue with its refinement and proofs;
DocumentProcessing and its proofs; WebhookIntake; AdminAccounts and its proofs;
WorkflowProvisioning; FieldConfiguration; JobRetention and its proofs; the
extraction rules; the proofs about WebhookIntake, WorkflowProvisioning and
FieldConfiguration, about duplicates and completed runs, and about the extraction rules;
the second refinement of JobLifecycle.

Left:

1. Composition: JobQueue's `Complete`, `Fail` and `TaskAborts` as the outcomes
   DocumentProcessing allows, and WebhookIntake's job as JobLifecycle's.
2. Several instances on one server in WorkflowProvisioning, once the managed
   names tell them apart.
3. The validators of dates and texts, and the sliding window of the rate limiter.
