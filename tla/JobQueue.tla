------------------------------ MODULE JobQueue ------------------------------
(***************************************************************************)
(* The delivery core of eZEUS: the rows of the tables jobs and             *)
(* queue_outbox, the Celery/Redis broker between them and the workers, and *)
(* the five actors that change those rows without holding a lock for       *)
(* longer than one transaction:                                            *)
(*                                                                         *)
(*   - a webhook request creates a job together with its outbox event      *)
(*     (core/jobs/service.py);                                             *)
(*   - a publisher (the dispatcher, or the API and the sweeper right after *)
(*     their commit) claims an event, sends it, marks it                   *)
(*     (core/queue/outbox.py);                                             *)
(*   - a worker receives a message, claims the job, runs the orchestrator, *)
(*     records the outcome and acknowledges late (apps/worker/tasks.py);   *)
(*   - the sweeper requeues or fails jobs whose row has not changed for    *)
(*     sweeper_stale_threshold_seconds (core/queue/sweeper.py);            *)
(*   - an administrator retries a job (apps/api/admin.py) or deletes logs, *)
(*     which retention does too (core/jobs/retention.py).                  *)
(*                                                                         *)
(* One action is one committed transaction, one broker call, or the death  *)
(* of a process between two of them.  Time is abstracted to the facts the  *)
(* code tests: a job is stale or not, an event is backing off or not.      *)
(***************************************************************************)
EXTENDS Integers, FiniteSets

CONSTANTS
    Jobs,                 \* primary keys of rows that may be inserted
    Docs,                 \* documents
    DocOf,                \* the document a job is created for
    Workers,              \* Celery worker processes
    Publishers,           \* processes that call publish_outbox_event
    JobMaxRetries,        \* settings.job_max_retries
    CeleryMaxRetries,     \* Task.max_retries of Celery (3, never overridden)
    LimitBelowThreshold,  \* celery_task_time_limit < sweeper_stale_threshold
    NoMessage,            \* a worker that holds nothing
    NoEvent,              \* a publisher that holds nothing
    NoJob,                \* no administrator request in progress
    MaxEvents,            \* bound: outbox events per job
    MaxAdminRetries,      \* bound: retry requests of administrators
    MaxFaults,            \* bound: crashes, aborts and broker errors
    MaxDeletions          \* bound: log deletions

Message == [job : Jobs, retries : 0..JobMaxRetries, redelivered : BOOLEAN]
EventId == Jobs \X (1..MaxEvents)

ASSUME JobQueueAssumption ==
    /\ DocOf \in [Jobs -> Docs]
    /\ JobMaxRetries \in Nat
    /\ CeleryMaxRetries \in Nat
    /\ LimitBelowThreshold \in BOOLEAN
    /\ MaxEvents \in Nat \ {0}
    /\ MaxAdminRetries \in Nat
    /\ MaxFaults \in Nat
    /\ MaxDeletions \in Nat
    /\ NoMessage \notin Message
    /\ NoEvent \notin EventId
    /\ NoJob \notin Jobs

ActiveStatuses == {"QUEUED", "RUNNING", "RETRY_WAITING"}
TerminalStatuses == {"COMPLETED", "COMPLETED_WITH_WARNINGS", "FAILED"}
\* ABSENT and DELETED stand for "no row": not yet, and no longer.
JobStatus == ActiveStatuses \cup TerminalStatuses \cup {"ABSENT", "DELETED"}

EventStatus == {"NONE", "PENDING", "PROCESSING", "PUBLISHED"}

\* idle     waiting for a message
\* received _claim_job not yet committed
\* claimed  _claim_job committed, the orchestrator not yet started
\* running  inside the try block of Orchestrator.process
\* failed   FAILED committed, a retryable ConnectorError travels to the task
\* retrying RETRY_WAITING committed, self.retry not yet sent
\* done     the task has returned, the message is not yet acknowledged
WorkerStage == {"idle", "received", "claimed", "running", "failed", "retrying", "done"}
PublisherStage == {"idle", "claimed", "sent"}

VARIABLES
    status,       \* jobs.status
    retryCount,   \* jobs.retry_count
    stale,        \* jobs whose updated_at is older than the threshold
    issued,       \* number of outbox events ever added for a job
    outbox,       \* queue_outbox.status
    delayed,      \* events whose available_at lies in the future
    broker,       \* the bag of messages in the Celery queues
    workerStage,  \* where each worker is in process_document_job
    held,         \* the unacknowledged message of each worker
    pubStage,     \* where each publisher is in publish_outbox_event
    pubEvent,     \* the event it has claimed
    sweepList,    \* rows the sweeper loaded and has yet to handle
    admin,        \* the job (and its retry_count) an admin request has read
    deleting,     \* terminal jobs a deletion has selected
    budget,       \* what is left of the bounds
    sent,         \* history: events handed to the broker at least once
    abandoned     \* history: active jobs whose message was acknowledged
                  \* although the task recorded no outcome

jobVars    == <<status, retryCount, stale>>
outboxVars == <<issued, outbox, delayed>>
workerVars == <<workerStage, held>>
pubVars    == <<pubStage, pubEvent>>
otherVars  == <<sweepList, admin, deleting>>
vars == <<jobVars, outboxVars, broker, workerVars, pubVars, otherVars, budget, sent, abandoned>>

Budget == [faults : 0..MaxFaults, retries : 0..MaxAdminRetries, deletions : 0..MaxDeletions]
AdminRequest == [job : Jobs, retryCount : Nat]

-----------------------------------------------------------------------------
(* Reading the state.                                                      *)

Exists(j)   == status[j] \notin {"ABSENT", "DELETED"}
Active(j)   == status[j] \in ActiveStatuses
Terminal(j) == status[j] \in TerminalStatuses

\* Fault: the index forgets one of the active statuses.
IndexedStatusesMissingOne == ActiveStatuses \ {"RETRY_WAITING"}

\* The statuses covered by the partial unique index uq_active_job_document.
IndexedStatuses == ActiveStatuses

\* The index lets row j become active.
IndexAllows(j) ==
    \A k \in Jobs \ {j} : DocOf[k] = DocOf[j] => status[k] \notin IndexedStatuses

\* Fault: a retry message is refused because its job is not QUEUED.
ClaimableQueuedOnly(m) == {"QUEUED"} \cup (IF m.redelivered THEN {"RUNNING"} ELSE {})

\* Fault: RUNNING is taken over whether the message is redelivered or not.
ClaimableRunning(m) == {"QUEUED", "RETRY_WAITING", "RUNNING"}

\* Statuses _claim_job takes over; a redelivered message may recover RUNNING.
Claimable(m) ==
    {"QUEUED", "RETRY_WAITING"} \cup (IF m.redelivered THEN {"RUNNING"} ELSE {})

AdminRetryable == {"FAILED", "COMPLETED_WITH_WARNINGS", "RUNNING", "RETRY_WAITING"}

EventsOf(j) == {e \in EventId : e[1] = j /\ e[2] <= issued[j]}

\* Stages in which the task has written to the row of its job less than
\* celery_task_time_limit_seconds ago.
Engaged == {"claimed", "running", "failed", "retrying"}

NewMessage(j, n) == [job |-> j, retries |-> n, redelivered |-> FALSE]
Redelivery(m) == [m EXCEPT !.redelivered = TRUE]

-----------------------------------------------------------------------------
(* Effects shared by several operations.                                   *)

\* An UPDATE of the job row; onupdate refreshes updated_at.
WriteStatus(j, s) ==
    /\ status' = [status EXCEPT ![j] = s]
    /\ stale' = stale \ {j}

\* add_job_to_outbox: a new PENDING event, and the job is QUEUED.
AddJobToOutbox(j) ==
    /\ issued[j] < MaxEvents
    /\ issued' = [issued EXCEPT ![j] = @ + 1]
    /\ outbox' = [outbox EXCEPT ![<<j, issued[j] + 1>>] = "PENDING"]
    /\ WriteStatus(j, "QUEUED")
    /\ abandoned' = abandoned \ {j}
    /\ UNCHANGED delayed

Enqueue(m) == broker' = [broker EXCEPT ![m] = @ + 1]

Spend(what) ==
    /\ budget[what] > 0
    /\ budget' = [budget EXCEPT ![what] = @ - 1]

WorkerTo(w, s) == workerStage' = [workerStage EXCEPT ![w] = s] /\ UNCHANGED held

PublisherIdle(p) ==
    /\ pubStage' = [pubStage EXCEPT ![p] = "idle"]
    /\ pubEvent' = [pubEvent EXCEPT ![p] = NoEvent]

-----------------------------------------------------------------------------
Init ==
    /\ status = [j \in Jobs |-> "ABSENT"]
    /\ retryCount = [j \in Jobs |-> 0]
    /\ stale = {}
    /\ issued = [j \in Jobs |-> 0]
    /\ outbox = [e \in EventId |-> "NONE"]
    /\ delayed = {}
    /\ broker = [m \in Message |-> 0]
    /\ workerStage = [w \in Workers |-> "idle"]
    /\ held = [w \in Workers |-> NoMessage]
    /\ pubStage = [p \in Publishers |-> "idle"]
    /\ pubEvent = [p \in Publishers |-> NoEvent]
    /\ sweepList = {}
    /\ admin = NoJob
    /\ deleting = {}
    /\ budget = [faults |-> MaxFaults, retries |-> MaxAdminRetries, deletions |-> MaxDeletions]
    /\ sent = {}
    /\ abandoned = {}

-----------------------------------------------------------------------------
(* Webhook: JobService.create_from_event inserts job and event in one      *)
(* transaction.  A request that finds an active job, or loses the race for *)
(* the unique index and is answered 503, changes nothing.                  *)

AcceptWebhook(j) ==
    /\ status[j] = "ABSENT"
    /\ IndexAllows(j)
    /\ AddJobToOutbox(j)
    /\ UNCHANGED <<retryCount, broker, workerVars, pubVars, otherVars, budget, sent>>

-----------------------------------------------------------------------------
(* Publisher: publish_outbox_event.                                        *)

\* Fault: a claim is never taken over.
ClaimEventPendingOnly(p, e) ==
    /\ pubStage[p] = "idle"
    /\ outbox[e] = "PENDING" /\ e \notin delayed
    /\ outbox' = [outbox EXCEPT ![e] = "PROCESSING"]
    /\ pubStage' = [pubStage EXCEPT ![p] = "claimed"]
    /\ pubEvent' = [pubEvent EXCEPT ![p] = e]
    /\ UNCHANGED <<jobVars, issued, delayed, broker, workerVars, otherVars, budget, sent, abandoned>>

\* FOR UPDATE SKIP LOCKED lets one publisher claim an available event; a
\* claim older than outbox_claim_timeout_seconds may be taken over, whether
\* its publisher died or is only slow.
ClaimEvent(p, e) ==
    /\ pubStage[p] = "idle"
    /\ \/ outbox[e] = "PENDING" /\ e \notin delayed
       \/ outbox[e] = "PROCESSING"
    /\ outbox' = [outbox EXCEPT ![e] = "PROCESSING"]
    /\ pubStage' = [pubStage EXCEPT ![p] = "claimed"]
    /\ pubEvent' = [pubEvent EXCEPT ![p] = e]
    /\ UNCHANGED <<jobVars, issued, delayed, broker, workerVars, otherVars, budget, sent, abandoned>>

SendEvent(p) ==
    /\ pubStage[p] = "claimed"
    /\ Enqueue(NewMessage(pubEvent[p][1], 0))
    /\ sent' = sent \cup {pubEvent[p]}
    /\ pubStage' = [pubStage EXCEPT ![p] = "sent"]
    /\ UNCHANGED <<jobVars, outboxVars, workerVars, pubEvent, otherVars, budget, abandoned>>

\* Fault: the event is marked before it is sent.
MarkPublishedEarly(p) ==
    LET e == pubEvent[p] IN
    /\ pubStage[p] \in {"claimed", "sent"}
    /\ outbox' = [outbox EXCEPT ![e] = IF @ = "NONE" THEN @ ELSE "PUBLISHED"]
    /\ PublisherIdle(p)
    /\ UNCHANGED <<jobVars, issued, delayed, broker, workerVars, otherVars, budget, sent, abandoned>>

\* The row may be gone by now: the UPDATE then matches nothing and raises.
MarkPublished(p) ==
    LET e == pubEvent[p] IN
    /\ pubStage[p] = "sent"
    /\ outbox' = [outbox EXCEPT ![e] = IF @ = "NONE" THEN @ ELSE "PUBLISHED"]
    /\ PublisherIdle(p)
    /\ UNCHANGED <<jobVars, issued, delayed, broker, workerVars, otherVars, budget, sent, abandoned>>

\* send_task raises: the event is PENDING again, with a backoff.  The broker
\* may have stored the message before the connection broke.
SendFails(p) ==
    LET e == pubEvent[p] IN
    /\ pubStage[p] = "claimed"
    /\ Spend("faults")
    /\ \/ UNCHANGED <<broker, sent>>
       \/ Enqueue(NewMessage(e[1], 0)) /\ sent' = sent \cup {e}
    /\ outbox' = [outbox EXCEPT ![e] = IF @ = "NONE" THEN @ ELSE "PENDING"]
    /\ delayed' = IF outbox[e] = "NONE" THEN delayed ELSE delayed \cup {e}
    /\ PublisherIdle(p)
    /\ UNCHANGED <<jobVars, issued, workerVars, otherVars, abandoned>>

BackoffElapses(e) ==
    /\ e \in delayed
    /\ delayed' = delayed \ {e}
    /\ UNCHANGED <<jobVars, issued, outbox, broker, workerVars, pubVars, otherVars, budget, sent,
                   abandoned>>

\* The process dies after the claim, or after the send and before the commit.
PublisherCrash(p) ==
    /\ pubStage[p] # "idle"
    /\ Spend("faults")
    /\ PublisherIdle(p)
    /\ UNCHANGED <<jobVars, outboxVars, broker, workerVars, otherVars, sent, abandoned>>

-----------------------------------------------------------------------------
(* Worker: process_document_job.                                           *)

Receive(w, m) ==
    /\ workerStage[w] = "idle"
    /\ broker[m] > 0
    /\ broker' = [broker EXCEPT ![m] = @ - 1]
    /\ workerStage' = [workerStage EXCEPT ![w] = "received"]
    /\ held' = [held EXCEPT ![w] = m]
    /\ UNCHANGED <<jobVars, outboxVars, pubVars, otherVars, budget, sent, abandoned>>

\* _claim_job under FOR UPDATE.
ClaimJob(w) ==
    LET j == held[w].job IN
    /\ workerStage[w] = "received"
    /\ status[j] \in Claimable(held[w])
    /\ WriteStatus(j, "RUNNING")
    /\ abandoned' = abandoned \ {j}
    /\ WorkerTo(w, "claimed")
    /\ UNCHANGED <<retryCount, outboxVars, broker, pubVars, otherVars, budget, sent>>

\* _claim_job returns False: the message is acknowledged as a duplicate.
SkipJob(w) ==
    /\ workerStage[w] = "received"
    /\ status[held[w].job] \notin Claimable(held[w])
    /\ WorkerTo(w, "done")
    /\ UNCHANGED <<jobVars, outboxVars, broker, pubVars, otherVars, budget, sent, abandoned>>

\* Orchestrator.process reads the row again and writes RUNNING, whatever the
\* row has become since the claim.
StartProcess(w) ==
    LET j == held[w].job IN
    /\ workerStage[w] = "claimed"
    /\ Exists(j)
    /\ IndexAllows(j)
    /\ WriteStatus(j, "RUNNING")
    /\ WorkerTo(w, "running")
    /\ UNCHANGED <<retryCount, outboxVars, broker, pubVars, otherVars, budget, sent, abandoned>>

\* The same lines raise outside the try block: the row is gone, its instance
\* is disabled, or RUNNING would break the index.  No outcome is recorded
\* and the message is acknowledged.
StartRaises(w) ==
    /\ workerStage[w] = "claimed"
    /\ abandoned' = abandoned \cup {held[w].job}
    /\ WorkerTo(w, "done")
    /\ UNCHANGED <<jobVars, outboxVars, broker, pubVars, otherVars, budget, sent>>

\* A phase commit changes jobs.phase and with it updated_at.
Heartbeat(w) ==
    LET j == held[w].job IN
    /\ workerStage[w] = "running"
    /\ Exists(j)
    /\ j \in stale
    /\ stale' = stale \ {j}
    /\ UNCHANGED <<status, retryCount, outboxVars, broker, workerVars, pubVars, otherVars, budget,
                   sent, abandoned>>

\* The orchestrator commits its final status.
Complete(w) ==
    LET j == held[w].job IN
    /\ workerStage[w] = "running"
    /\ Exists(j)
    /\ \E s \in {"COMPLETED", "COMPLETED_WITH_WARNINGS"} : WriteStatus(j, s)
    /\ WorkerTo(w, "done")
    /\ UNCHANGED <<retryCount, outboxVars, broker, pubVars, otherVars, budget, sent, abandoned>>

\* Its except block commits FAILED; a retryable ConnectorError with retries
\* left goes on to the task, any other error ends the task.
Fail(w) ==
    LET j == held[w].job IN
    /\ workerStage[w] = "running"
    /\ Exists(j)
    /\ WriteStatus(j, "FAILED")
    /\ \/ held[w].retries < JobMaxRetries /\ WorkerTo(w, "failed")
       \/ WorkerTo(w, "done")
    /\ UNCHANGED <<retryCount, outboxVars, broker, pubVars, otherVars, budget, sent, abandoned>>

\* The row was deleted under the orchestrator: every write raises.
RowGone(w) ==
    /\ workerStage[w] = "running"
    /\ ~Exists(held[w].job)
    /\ WorkerTo(w, "done")
    /\ UNCHANGED <<jobVars, outboxVars, broker, pubVars, otherVars, budget, sent, abandoned>>

\* Fault: the row is merged, so that a deleted job is inserted again.
MarkRetryWaitingMerged(w) ==
    LET j == held[w].job IN
    /\ workerStage[w] = "failed"
    /\ IndexAllows(j)
    /\ WriteStatus(j, "RETRY_WAITING")
    /\ retryCount' = [retryCount EXCEPT ![j] = held[w].retries + 1]
    /\ WorkerTo(w, "retrying")
    /\ UNCHANGED <<outboxVars, broker, pubVars, otherVars, budget, sent, abandoned>>

\* A session of its own sets RETRY_WAITING on whatever row it finds.
MarkRetryWaiting(w) ==
    LET j == held[w].job IN
    /\ workerStage[w] = "failed"
    /\ \/ /\ Exists(j)
          /\ IndexAllows(j)
          /\ WriteStatus(j, "RETRY_WAITING")
          /\ retryCount' = [retryCount EXCEPT ![j] = held[w].retries + 1]
       \/ ~Exists(j) /\ UNCHANGED jobVars
    /\ WorkerTo(w, "retrying")
    /\ UNCHANGED <<outboxVars, broker, pubVars, otherVars, budget, sent, abandoned>>

\* A newer job of the document is active: the commit breaks the index and
\* the task ends with that error.
RetryConflicts(w) ==
    LET j == held[w].job IN
    /\ workerStage[w] = "failed"
    /\ Exists(j)
    /\ ~IndexAllows(j)
    /\ WorkerTo(w, "done")
    /\ UNCHANGED <<jobVars, outboxVars, broker, pubVars, otherVars, budget, sent, abandoned>>

\* self.retry sends a new message with the next retry number; Celery raises
\* the original error instead once its own max_retries is reached.
SendRetry(w) ==
    LET m == held[w] IN
    /\ workerStage[w] = "retrying"
    /\ IF m.retries < CeleryMaxRetries
       THEN Enqueue(NewMessage(m.job, m.retries + 1)) /\ UNCHANGED abandoned
       ELSE abandoned' = abandoned \cup {m.job} /\ UNCHANGED broker
    /\ WorkerTo(w, "done")
    /\ UNCHANGED <<jobVars, outboxVars, pubVars, otherVars, budget, sent>>

\* acks_late: the message leaves the broker when the task has returned.
Ack(w) ==
    /\ workerStage[w] = "done"
    /\ workerStage' = [workerStage EXCEPT ![w] = "idle"]
    /\ held' = [held EXCEPT ![w] = NoMessage]
    /\ UNCHANGED <<jobVars, outboxVars, broker, pubVars, otherVars, budget, sent, abandoned>>

\* task_reject_on_worker_lost: the unacknowledged message is requeued and
\* marked as redelivered.
WorkerLost(w) ==
    /\ workerStage[w] # "idle"
    /\ Spend("faults")
    /\ Enqueue(Redelivery(held[w]))
    /\ workerStage' = [workerStage EXCEPT ![w] = "idle"]
    /\ held' = [held EXCEPT ![w] = NoMessage]
    /\ UNCHANGED <<jobVars, outboxVars, pubVars, otherVars, sent, abandoned>>

\* The hard time limit, a database error or a failing self.retry ends the
\* task where it stands; Celery acknowledges a failed or timed-out task.
TaskAborts(w) ==
    /\ workerStage[w] \in {"received"} \cup Engaged
    /\ Spend("faults")
    /\ abandoned' = abandoned \cup {held[w].job}
    /\ workerStage' = [workerStage EXCEPT ![w] = "idle"]
    /\ held' = [held EXCEPT ![w] = NoMessage]
    /\ UNCHANGED <<jobVars, outboxVars, broker, pubVars, otherVars, sent>>

-----------------------------------------------------------------------------
(* Sweeper: sweep_stale_jobs.                                              *)

\* updated_at falls behind the threshold.  A task writes to the row when it
\* claims it and lives at most celery_task_time_limit_seconds after that.
BecomeStale(j) ==
    /\ Active(j)
    /\ j \notin stale
    /\ LimitBelowThreshold =>
          \A w \in Workers : workerStage[w] \in Engaged => held[w].job # j
    /\ stale' = stale \cup {j}
    /\ UNCHANGED <<status, retryCount, outboxVars, broker, workerVars, pubVars, otherVars, budget,
                   sent, abandoned>>

\* Fault: the sweeper leaves RUNNING rows to their workers.
SweepCandidatesNotRunning == {j \in stale : Active(j) /\ status[j] # "RUNNING"}

\* Rows the sweeper selects: active, unchanged for too long, and without an
\* event that waits for its backoff.
SweepCandidates ==
    {j \in stale : /\ Active(j)
                   /\ \A e \in EventsOf(j) : ~(outbox[e] = "PENDING" /\ e \in delayed)}

\* The body of the loop for a row the sweeper may write.
SweepJob(j) ==
    IF retryCount[j] < JobMaxRetries
    THEN /\ AddJobToOutbox(j)
         /\ retryCount' = [retryCount EXCEPT ![j] = @ + 1]
    ELSE /\ WriteStatus(j, "FAILED")
         /\ UNCHANGED <<retryCount, outboxVars, abandoned>>

\* The query locks the candidates; the locks last until the commit for the
\* first of them, so that query and first iteration are one step.
SweepFirst(j) ==
    /\ sweepList = {}
    /\ j \in SweepCandidates
    /\ SweepJob(j)
    /\ sweepList' = SweepCandidates \ {j}
    /\ UNCHANGED <<broker, workerVars, pubVars, admin, deleting, budget, sent>>

\* Every further iteration handles a row that is no longer locked.  Its
\* status is not tested again; only retry_count is read anew.
SweepNext(j) ==
    /\ j \in sweepList
    /\ Exists(j)
    /\ retryCount[j] < JobMaxRetries => IndexAllows(j)
    /\ SweepJob(j)
    /\ sweepList' = sweepList \ {j}
    /\ UNCHANGED <<broker, workerVars, pubVars, admin, deleting, budget, sent>>

\* A deleted row, or an update that breaks the index, ends the run; so does
\* the death of the process.
SweepAborts ==
    /\ \/ /\ \E j \in sweepList :
                ~Exists(j) \/ (retryCount[j] < JobMaxRetries /\ ~IndexAllows(j))
          /\ UNCHANGED budget
       \/ sweepList # {} /\ Spend("faults")
    /\ sweepList' = {}
    /\ UNCHANGED <<jobVars, outboxVars, broker, workerVars, pubVars, admin, deleting, sent,
                   abandoned>>

-----------------------------------------------------------------------------
(* Administrators: retry_job, and the deletion of logs, which retention    *)
(* performs in the same two steps.                                         *)

\* retry_job reads the row without a lock and tests its status.
RetryRead(j) ==
    /\ admin = NoJob
    /\ budget.retries > 0
    /\ status[j] \in AdminRetryable
    /\ admin' = [job |-> j, retryCount |-> retryCount[j]]
    /\ UNCHANGED <<jobVars, outboxVars, broker, workerVars, pubVars, sweepList, deleting, budget,
                   sent, abandoned>>

\* Its commit writes the row as it was read, whatever it is now.
RetryWrite ==
    /\ admin # NoJob
    /\ Exists(admin.job)
    /\ IndexAllows(admin.job)
    /\ AddJobToOutbox(admin.job)
    /\ retryCount' = [retryCount EXCEPT ![admin.job] = admin.retryCount + 1]
    /\ Spend("retries")
    /\ admin' = NoJob
    /\ UNCHANGED <<broker, workerVars, pubVars, sweepList, deleting, sent>>

\* The row is gone or another job of the document is active: the request
\* ends with an error and changes nothing.
RetryRefused ==
    /\ admin # NoJob
    /\ ~Exists(admin.job) \/ ~IndexAllows(admin.job)
    /\ admin' = NoJob
    /\ UNCHANGED <<jobVars, outboxVars, broker, workerVars, pubVars, sweepList, deleting, budget,
                   sent, abandoned>>

\* purge_expired_logs or _delete_log_jobs selects terminal jobs ...
DeleteSelect(S) ==
    /\ deleting = {}
    /\ S # {}
    /\ \A j \in S : Terminal(j)
    /\ Spend("deletions")
    /\ deleting' = S
    /\ UNCHANGED <<jobVars, outboxVars, broker, workerVars, pubVars, sweepList, admin, sent,
                   abandoned>>

\* ... and delete_jobs deletes them by primary key with their events.
DeleteJobs ==
    /\ deleting # {}
    /\ status' = [j \in Jobs |-> IF j \in deleting THEN "DELETED" ELSE status[j]]
    /\ stale' = stale \ deleting
    /\ outbox' = [e \in EventId |-> IF e[1] \in deleting THEN "NONE" ELSE outbox[e]]
    /\ delayed' = {e \in delayed : e[1] \notin deleting}
    /\ deleting' = {}
    /\ UNCHANGED <<retryCount, issued, broker, workerVars, pubVars, sweepList, admin, budget, sent,
                   abandoned>>

-----------------------------------------------------------------------------
PublisherStep(p) ==
    \/ \E e \in EventId : ClaimEvent(p, e)
    \/ SendEvent(p)
    \/ MarkPublished(p)
    \/ SendFails(p)
    \/ PublisherCrash(p)

WorkerStep(w) ==
    \/ \E m \in Message : Receive(w, m)
    \/ ClaimJob(w)
    \/ SkipJob(w)
    \/ StartProcess(w)
    \/ StartRaises(w)
    \/ Heartbeat(w)
    \/ Complete(w)
    \/ Fail(w)
    \/ RowGone(w)
    \/ MarkRetryWaiting(w)
    \/ RetryConflicts(w)
    \/ SendRetry(w)
    \/ Ack(w)
    \/ WorkerLost(w)
    \/ TaskAborts(w)

Next ==
    \/ \E j \in Jobs : \/ AcceptWebhook(j)
                       \/ BecomeStale(j)
                       \/ SweepFirst(j)
                       \/ SweepNext(j)
                       \/ RetryRead(j)
    \/ \E e \in EventId : BackoffElapses(e)
    \/ \E p \in Publishers : PublisherStep(p)
    \/ \E w \in Workers : WorkerStep(w)
    \/ SweepAborts
    \/ RetryWrite
    \/ RetryRefused
    \/ \E S \in SUBSET Jobs : DeleteSelect(S)
    \/ DeleteJobs

Spec == Init /\ [][Next]_vars

-----------------------------------------------------------------------------
(* Fairness: the dispatcher, the sweeper and the workers loop for ever,    *)
(* time passes, and a transaction once begun ends.  The hard time limit    *)
(* bounds the orchestrator.  Webhooks, administrators, crashes and errors  *)
(* are not fair.                                                           *)

Fairness ==
    /\ \A p \in Publishers :
          /\ WF_vars(\E e \in EventId : ClaimEvent(p, e))
          /\ WF_vars(SendEvent(p))
          /\ WF_vars(MarkPublished(p))
    /\ \A w \in Workers :
          /\ WF_vars(\E m \in Message : Receive(w, m))
          /\ WF_vars(ClaimJob(w) \/ SkipJob(w))
          /\ WF_vars(StartProcess(w) \/ StartRaises(w))
          /\ WF_vars(Complete(w) \/ Fail(w) \/ RowGone(w))
          /\ WF_vars(MarkRetryWaiting(w) \/ RetryConflicts(w))
          /\ WF_vars(SendRetry(w))
          /\ WF_vars(Ack(w))
    /\ \A e \in EventId : WF_vars(BackoffElapses(e))
    /\ \A j \in Jobs :
          /\ WF_vars(BecomeStale(j))
          /\ WF_vars(SweepFirst(j))
          /\ WF_vars(SweepNext(j))
    /\ WF_vars(SweepAborts)
    /\ WF_vars(RetryWrite \/ RetryRefused)
    /\ WF_vars(DeleteJobs)

FairSpec == Spec /\ Fairness

-----------------------------------------------------------------------------
(* Invariants.                                                             *)

\* Every variable stays within its domain.
TypeOK ==
    /\ status \in [Jobs -> JobStatus]
    /\ retryCount \in [Jobs -> Nat]
    /\ stale \subseteq Jobs
    /\ issued \in [Jobs -> 0..MaxEvents]
    /\ outbox \in [EventId -> EventStatus]
    /\ delayed \subseteq EventId
    /\ broker \in [Message -> Nat]
    /\ workerStage \in [Workers -> WorkerStage]
    /\ held \in [Workers -> Message \cup {NoMessage}]
    /\ \A w \in Workers : workerStage[w] = "idle" <=> held[w] = NoMessage
    /\ pubStage \in [Publishers -> PublisherStage]
    /\ pubEvent \in [Publishers -> EventId \cup {NoEvent}]
    /\ \A p \in Publishers : pubStage[p] = "idle" <=> pubEvent[p] = NoEvent
    /\ sweepList \subseteq Jobs
    /\ admin \in AdminRequest \cup {NoJob}
    /\ deleting \subseteq Jobs
    /\ budget \in Budget
    /\ sent \subseteq EventId
    /\ abandoned \subseteq Jobs

\* A task that is about to retry has a retry left: no message carries a
\* retry number above job_max_retries, whatever the sweeper has done to
\* jobs.retry_count meanwhile.
RetriesLeft ==
    \A w \in Workers :
        workerStage[w] \in {"failed", "retrying"} => held[w].retries < JobMaxRetries

\* "Schutz vor doppelten aktiven Jobs für dasselbe Dokument" (README.md):
\* whatever webhooks, retries of administrators, sweeps and late writes of
\* workers do, a document never has two active jobs.
OneActivePerDocument ==
    \A j, k \in Jobs : Active(j) /\ Active(k) /\ DocOf[j] = DocOf[k] => j = k

\* An event marked PUBLISHED has been handed to the broker: neither a slow
\* publisher whose claim was taken over nor a crash marks it unsent.
PublishedWasSent ==
    \A e \in EventId : outbox[e] = "PUBLISHED" => e \in sent

\* A message of job j that a worker has yet to decide on, and that
\* _claim_job would accept in the present status of j.
Pending(j, m) ==
    /\ m.job = j
    /\ status[j] \in Claimable(m)
    /\ broker[m] > 0 \/ \E w \in Workers : workerStage[w] = "received" /\ held[w] = m

WorkerAt(j, stages) == \E w \in Workers : workerStage[w] \in stages /\ held[w].job = j

\* Something other than the sweeper will move active job j on.
HasCarrier(j) ==
    \/ status[j] = "QUEUED" /\ EventsOf(j) \ sent # {}
    \/ status[j] = "RUNNING" /\ WorkerAt(j, {"claimed", "running"})
    \/ status[j] = "RETRY_WAITING" /\ WorkerAt(j, {"retrying"})
    \/ \E m \in Message : Pending(j, m)

\* No job is lost between the database and the broker: an active job always
\* has an unsent event, an acceptable message or a worker, unless a task has
\* ended without recording an outcome.  Only that case is left to the
\* sweeper ("wirklich verwaister Job", README.md).
ActiveHasCarrier ==
    \A j \in Jobs \ abandoned : Active(j) => HasCarrier(j)

-----------------------------------------------------------------------------
(* Concurrency of the workers.                                             *)

Processing(w, j) == workerStage[w] \in {"claimed", "running"} /\ held[w].job = j

\* "doppelte Celery-Zustellungen werden idempotent verworfen"
\* (docs/security.md): a second message of one event, sent by another
\* publisher or stored although sending failed, does not start a second
\* worker on the first attempt of a job.  (Two workers meet once the broker
\* has redelivered a message, or the job has been requeued or retried.)
DuplicatesDropped ==
    \A v, w \in Workers : \A j \in Jobs :
        (/\ v # w
         /\ Processing(v, j)
         /\ Processing(w, j)
         /\ issued[j] = 1
         /\ retryCount[j] = 0)
        => held[v].redelivered \/ held[w].redelivered

-----------------------------------------------------------------------------
(* Liveness.                                                               *)

\* Every accepted job leaves the active statuses: no crash, lost
\* acknowledgement or broker error blocks the unique index of its document
\* for ever.
AcceptedJobEnds ==
    \A j \in Jobs : Active(j) ~> ~Active(j)

\* Every event that stays in the outbox is published eventually, however
\* often its publishers die or the broker refuses it.
OutboxDrains ==
    \A e \in EventId : outbox[e] = "PENDING" ~> outbox[e] \in {"PUBLISHED", "NONE"}

=============================================================================
