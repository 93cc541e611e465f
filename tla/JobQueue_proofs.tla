--------------------------- MODULE JobQueue_proofs ---------------------------
(***************************************************************************)
(* Proofs about the delivery core, for every set of jobs, documents,       *)
(* workers and publishers and every value of the bounds.                   *)
(***************************************************************************)
EXTENDS JobQueueRefinement, TLAPS

-----------------------------------------------------------------------------
(* Facts about the data.                                                   *)

\* A worker that is not idle holds a message of some job.
LEMMA HeldMessage ==
    ASSUME TypeOK, NEW w \in Workers, workerStage[w] # "idle"
    PROVE  /\ held[w] \in Message
           /\ held[w].job \in Jobs
           /\ held[w].retries \in 0..JobMaxRetries
           /\ held[w].redelivered \in BOOLEAN
           /\ Redelivery(held[w]) \in Message
<1>1. held[w] \in Message
  BY DEF TypeOK
<1>2. /\ held[w].job \in Jobs
      /\ held[w].retries \in 0..JobMaxRetries
      /\ held[w].redelivered \in BOOLEAN
  BY <1>1 DEF Message
<1>3. Redelivery(held[w]) \in Message
  BY <1>1 DEF Message, Redelivery
<1>. QED
  BY <1>1, <1>2, <1>3

\* A publisher that is not idle holds an event.
LEMMA ClaimedEvent ==
    ASSUME TypeOK, NEW p \in Publishers, pubStage[p] # "idle"
    PROVE  pubEvent[p] \in EventId /\ pubEvent[p][1] \in Jobs
BY DEF TypeOK, EventId

\* The messages the code sends are messages.
LEMMA NewMessageType ==
    ASSUME NEW j \in Jobs, NEW n \in 0..JobMaxRetries
    PROVE  NewMessage(j, n) \in Message
BY DEF NewMessage, Message

\* What add_job_to_outbox leaves behind is well typed.
LEMMA AddJobToOutboxType ==
    ASSUME TypeOK, NEW j \in Jobs, AddJobToOutbox(j)
    PROVE  /\ status' \in [Jobs -> JobStatus]
           /\ stale' \subseteq Jobs
           /\ issued' \in [Jobs -> 0..MaxEvents]
           /\ outbox' \in [EventId -> EventStatus]
           /\ delayed' \subseteq EventId
           /\ abandoned' \subseteq Jobs
<1>1. issued[j] \in 0..MaxEvents /\ issued[j] + 1 \in 0..MaxEvents
  BY JobQueueAssumption DEF TypeOK, AddJobToOutbox
<1>2. issued' \in [Jobs -> 0..MaxEvents]
  BY <1>1 DEF TypeOK, AddJobToOutbox
<1>3. QED
  BY <1>2 DEF TypeOK, AddJobToOutbox, WriteStatus, JobStatus, ActiveStatuses, EventStatus

\* Spending a bound keeps the budget well typed.
LEMMA SpendType ==
    ASSUME budget \in Budget, NEW what \in {"faults", "retries", "deletions"}, Spend(what)
    PROVE  budget' \in Budget
BY JobQueueAssumption DEF Budget, Spend

\* Adding a message to the bag keeps it a bag.
LEMMA EnqueueType ==
    ASSUME broker \in [Message -> Nat], NEW m \in Message, Enqueue(m)
    PROVE  broker' \in [Message -> Nat]
BY DEF Enqueue

-----------------------------------------------------------------------------
(* Type correctness.                                                       *)

\* The empty tables of a new installation are within the domains.
LEMMA TypeInit == Init => TypeOK
<1>1. ASSUME Init PROVE budget \in Budget
  BY <1>1, JobQueueAssumption DEF Init, Budget
<1>2. ASSUME Init PROVE \A e \in EventId : outbox[e] = "NONE"
  BY <1>2 DEF Init
<1>3. QED
  BY <1>1, JobQueueAssumption
  DEF Init, TypeOK, JobStatus, ActiveStatuses, TerminalStatuses, EventStatus, WorkerStage,
      PublisherStage

\* A publisher changes the outbox, the broker and its own claim.
LEMMA PublisherType ==
    ASSUME TypeOK, NEW p \in Publishers, PublisherStep(p)
    PROVE  TypeOK'
<1>1. ASSUME NEW e \in EventId, ClaimEvent(p, e) PROVE TypeOK'
  BY <1>1, JobQueueAssumption
  DEF TypeOK, ClaimEvent, EventStatus, PublisherStage, jobVars, workerVars, otherVars
<1>2. CASE SendEvent(p)
  <2>1. pubEvent[p] \in EventId /\ pubEvent[p][1] \in Jobs
    BY <1>2, ClaimedEvent DEF SendEvent
  <2>2. NewMessage(pubEvent[p][1], 0) \in Message
    BY <2>1, NewMessageType, JobQueueAssumption
  <2>3. broker' \in [Message -> Nat]
    BY <1>2, <2>2, EnqueueType DEF SendEvent, TypeOK
  <2>4. QED
    BY <1>2, <2>1, <2>3, JobQueueAssumption
    DEF TypeOK, SendEvent, PublisherStage, jobVars, outboxVars, workerVars, otherVars
<1>3. CASE MarkPublished(p)
  BY <1>3, JobQueueAssumption
  DEF TypeOK, MarkPublished, PublisherIdle, EventStatus, PublisherStage, jobVars, workerVars,
      otherVars
<1>4. CASE SendFails(p)
  <2>1. pubEvent[p] \in EventId /\ pubEvent[p][1] \in Jobs
    BY <1>4, ClaimedEvent DEF SendFails
  <2>2. NewMessage(pubEvent[p][1], 0) \in Message
    BY <2>1, NewMessageType, JobQueueAssumption
  <2>3. broker' \in [Message -> Nat]
    BY <1>4, <2>2, EnqueueType DEF SendFails, TypeOK
  <2>4. budget' \in Budget
    BY <1>4, SpendType DEF SendFails, TypeOK
  <2>5. sent' \subseteq EventId
    BY <1>4, <2>1 DEF SendFails, TypeOK
  <2>6. QED
    BY <1>4, <2>1, <2>3, <2>4, <2>5, JobQueueAssumption
    DEF TypeOK, SendFails, PublisherIdle, EventStatus, PublisherStage, jobVars, workerVars,
        otherVars
<1>5. CASE PublisherCrash(p)
  <2>1. budget' \in Budget
    BY <1>5, SpendType DEF PublisherCrash, TypeOK
  <2>2. QED
    BY <1>5, <2>1, JobQueueAssumption
    DEF TypeOK, PublisherCrash, PublisherIdle, PublisherStage, jobVars, outboxVars, workerVars,
        otherVars
<1>6. QED
  BY <1>1, <1>2, <1>3, <1>4, <1>5 DEF PublisherStep

\* A worker changes the row of its job, the broker and its own message.
LEMMA WorkerType ==
    ASSUME TypeOK, RetriesLeft, NEW w \in Workers, WorkerStep(w)
    PROVE  TypeOK'
<1> USE JobQueueAssumption
<1>1. ASSUME NEW m \in Message, Receive(w, m) PROVE TypeOK'
  <2>1. broker' \in [Message -> Nat]
    BY <1>1 DEF TypeOK, Receive
  <2>2. QED
    BY <1>1, <2>1
    DEF TypeOK, Receive, WorkerStage, jobVars, outboxVars, pubVars, otherVars
<1>2. CASE ClaimJob(w)
  BY <1>2, HeldMessage
  DEF TypeOK, ClaimJob, WriteStatus, WorkerTo, WorkerStage, JobStatus, ActiveStatuses,
      outboxVars, pubVars, otherVars
<1>3. CASE SkipJob(w)
  BY <1>3 DEF TypeOK, SkipJob, WorkerTo, WorkerStage, jobVars, outboxVars, pubVars, otherVars
<1>4. CASE StartProcess(w)
  BY <1>4, HeldMessage
  DEF TypeOK, StartProcess, WriteStatus, WorkerTo, WorkerStage, JobStatus, ActiveStatuses,
      outboxVars, pubVars, otherVars
<1>5. CASE StartRaises(w)
  BY <1>5, HeldMessage
  DEF TypeOK, StartRaises, WorkerTo, WorkerStage, jobVars, outboxVars, pubVars, otherVars
<1>6. CASE Heartbeat(w)
  BY <1>6 DEF TypeOK, Heartbeat, outboxVars, workerVars, pubVars, otherVars
<1>7. CASE Complete(w)
  BY <1>7, HeldMessage
  DEF TypeOK, Complete, WriteStatus, WorkerTo, WorkerStage, JobStatus, TerminalStatuses,
      outboxVars, pubVars, otherVars
<1>8. CASE Fail(w)
  BY <1>8, HeldMessage
  DEF TypeOK, Fail, WriteStatus, WorkerTo, WorkerStage, JobStatus, TerminalStatuses,
      outboxVars, pubVars, otherVars
<1>9. CASE RowGone(w)
  BY <1>9 DEF TypeOK, RowGone, WorkerTo, WorkerStage, jobVars, outboxVars, pubVars, otherVars
<1>10. CASE MarkRetryWaiting(w)
  <2>1. held[w].job \in Jobs /\ held[w].retries + 1 \in Nat
    BY <1>10, HeldMessage DEF MarkRetryWaiting
  <2>2. retryCount' \in [Jobs -> Nat] /\ status' \in [Jobs -> JobStatus] /\ stale' \subseteq Jobs
    BY <1>10, <2>1
    DEF TypeOK, MarkRetryWaiting, WriteStatus, JobStatus, ActiveStatuses, jobVars
  <2>3. QED
    BY <1>10, <2>2
    DEF TypeOK, MarkRetryWaiting, WorkerTo, WorkerStage, outboxVars, pubVars, otherVars
<1>11. CASE RetryConflicts(w)
  BY <1>11
  DEF TypeOK, RetryConflicts, WorkerTo, WorkerStage, jobVars, outboxVars, pubVars, otherVars
<1>12. CASE SendRetry(w)
  <2>1. held[w].job \in Jobs /\ held[w].retries + 1 \in 0..JobMaxRetries
    BY <1>12, HeldMessage DEF SendRetry, RetriesLeft
  <2>2. NewMessage(held[w].job, held[w].retries + 1) \in Message
    BY <2>1, NewMessageType
  <2>3. broker' \in [Message -> Nat] /\ abandoned' \subseteq Jobs
    BY <1>12, <2>1, <2>2, EnqueueType DEF TypeOK, SendRetry
  <2>4. QED
    BY <1>12, <2>3
    DEF TypeOK, SendRetry, WorkerTo, WorkerStage, jobVars, outboxVars, pubVars, otherVars
<1>13. CASE Ack(w)
  BY <1>13
  DEF TypeOK, Ack, WorkerStage, jobVars, outboxVars, pubVars, otherVars
<1>14. CASE WorkerLost(w)
  <2>1. broker' \in [Message -> Nat]
    BY <1>14, HeldMessage, EnqueueType DEF WorkerLost, TypeOK
  <2>2. budget' \in Budget
    BY <1>14, SpendType DEF WorkerLost, TypeOK
  <2>3. QED
    BY <1>14, <2>1, <2>2
    DEF TypeOK, WorkerLost, WorkerStage, jobVars, outboxVars, pubVars, otherVars
<1>15. CASE TaskAborts(w)
  <2>1. held[w].job \in Jobs
    BY <1>15, HeldMessage DEF TaskAborts, Engaged
  <2>2. budget' \in Budget
    BY <1>15, SpendType DEF TaskAborts, TypeOK
  <2>3. QED
    BY <1>15, <2>1, <2>2
    DEF TypeOK, TaskAborts, WorkerStage, jobVars, outboxVars, pubVars, otherVars
<1>16. QED
  BY <1>1, <1>2, <1>3, <1>4, <1>5, <1>6, <1>7, <1>8, <1>9, <1>10, <1>11, <1>12, <1>13, <1>14,
     <1>15
  DEF WorkerStep

\* The sweeper and the administrators change rows and their own bookkeeping.
LEMMA OperatorType ==
    ASSUME TypeOK, NEW j \in Jobs,
           \/ AcceptWebhook(j) \/ BecomeStale(j) \/ SweepFirst(j) \/ SweepNext(j) \/ RetryRead(j)
    PROVE  TypeOK'
<1> USE JobQueueAssumption
<1>1. CASE AcceptWebhook(j)
  BY <1>1, AddJobToOutboxType DEF TypeOK, AcceptWebhook, workerVars, pubVars, otherVars
<1>2. CASE BecomeStale(j)
  BY <1>2 DEF TypeOK, BecomeStale, outboxVars, workerVars, pubVars, otherVars
<1>3. ASSUME SweepJob(j), sweepList' \subseteq Jobs,
             UNCHANGED <<broker, workerVars, pubVars, admin, deleting, budget, sent>>
      PROVE  TypeOK'
  <2>1. CASE retryCount[j] < JobMaxRetries
    <3>1. AddJobToOutbox(j) /\ retryCount' \in [Jobs -> Nat]
      BY <1>3, <2>1 DEF SweepJob, TypeOK
    <3>2. QED
      BY <1>3, <3>1, AddJobToOutboxType DEF TypeOK, workerVars, pubVars
  <2>2. CASE ~(retryCount[j] < JobMaxRetries)
    BY <1>3, <2>2
    DEF TypeOK, SweepJob, WriteStatus, JobStatus, TerminalStatuses, outboxVars, workerVars, pubVars
  <2>3. QED
    BY <2>1, <2>2
<1>4. CASE SweepFirst(j)
  BY <1>3, <1>4 DEF TypeOK, SweepFirst, SweepCandidates
<1>5. CASE SweepNext(j)
  BY <1>3, <1>5 DEF TypeOK, SweepNext
<1>6. CASE RetryRead(j)
  BY <1>6
  DEF TypeOK, RetryRead, AdminRequest, jobVars, outboxVars, workerVars, pubVars
<1>7. QED
  BY <1>1, <1>2, <1>4, <1>5, <1>6

\* No step of any actor leaves the domains.
LEMMA TypeStep == TypeOK /\ RetriesLeft /\ [Next]_vars => TypeOK'
<1> SUFFICES ASSUME TypeOK, RetriesLeft, [Next]_vars PROVE TypeOK'
  OBVIOUS
<1> USE JobQueueAssumption
<1>1. ASSUME NEW j \in Jobs,
             AcceptWebhook(j) \/ BecomeStale(j) \/ SweepFirst(j) \/ SweepNext(j) \/ RetryRead(j)
      PROVE  TypeOK'
  BY <1>1, OperatorType
<1>2. ASSUME NEW e \in EventId, BackoffElapses(e) PROVE TypeOK'
  BY <1>2 DEF TypeOK, BackoffElapses, jobVars, workerVars, pubVars, otherVars
<1>3. ASSUME NEW p \in Publishers, PublisherStep(p) PROVE TypeOK'
  BY <1>3, PublisherType
<1>4. ASSUME NEW w \in Workers, WorkerStep(w) PROVE TypeOK'
  BY <1>4, WorkerType
<1>5. CASE SweepAborts
  <2>1. budget' \in Budget
    BY <1>5, SpendType DEF SweepAborts, TypeOK
  <2>2. QED
    BY <1>5, <2>1 DEF TypeOK, SweepAborts, jobVars, outboxVars, workerVars, pubVars
<1>6. CASE RetryWrite
  <2>1. admin.job \in Jobs /\ admin.retryCount + 1 \in Nat
    BY <1>6 DEF TypeOK, RetryWrite, AdminRequest
  <2>2. budget' \in Budget
    BY <1>6, SpendType DEF RetryWrite, TypeOK
  <2>3. AddJobToOutbox(admin.job)
    BY <1>6 DEF RetryWrite
  <2>4. retryCount' \in [Jobs -> Nat]
    BY <1>6, <2>1 DEF RetryWrite, TypeOK
  <2>5. QED
    BY <1>6, <2>1, <2>2, <2>3, <2>4, AddJobToOutboxType DEF TypeOK, RetryWrite, workerVars, pubVars
<1>7. CASE RetryRefused
  BY <1>7 DEF TypeOK, RetryRefused, jobVars, outboxVars, workerVars, pubVars
<1>8. ASSUME NEW S \in SUBSET Jobs, DeleteSelect(S) PROVE TypeOK'
  <2>1. budget' \in Budget
    BY <1>8, SpendType DEF DeleteSelect, TypeOK
  <2>2. QED
    BY <1>8, <2>1 DEF TypeOK, DeleteSelect, jobVars, outboxVars, workerVars, pubVars
<1>9. CASE DeleteJobs
  BY <1>9 DEF TypeOK, DeleteJobs, JobStatus, EventStatus, workerVars, pubVars
<1>10. CASE UNCHANGED vars
  BY <1>10 DEF TypeOK, vars, jobVars, outboxVars, workerVars, pubVars, otherVars
<1>11. QED
  BY <1>1, <1>2, <1>3, <1>4, <1>5, <1>6, <1>7, <1>8, <1>9, <1>10 DEF Next

-----------------------------------------------------------------------------
(* Frames: which actors touch the workers.                                 *)

\* Only the steps of a worker change a worker or its message.
LEMMA OthersKeepWorkers ==
    ASSUME [Next]_vars, \A w \in Workers : ~WorkerStep(w)
    PROVE  UNCHANGED workerVars
<1>1. ASSUME NEW p \in Publishers, PublisherStep(p) PROVE UNCHANGED workerVars
  BY <1>1
  DEF PublisherStep, ClaimEvent, SendEvent, MarkPublished, SendFails, PublisherCrash, workerVars
<1>2. ASSUME NEW j \in Jobs,
             AcceptWebhook(j) \/ BecomeStale(j) \/ SweepFirst(j) \/ SweepNext(j) \/ RetryRead(j)
      PROVE  UNCHANGED workerVars
  BY <1>2 DEF AcceptWebhook, BecomeStale, SweepFirst, SweepNext, RetryRead, workerVars
<1>3. ASSUME NEW e \in EventId, BackoffElapses(e) PROVE UNCHANGED workerVars
  BY <1>3 DEF BackoffElapses, workerVars
<1>4. ASSUME SweepAborts \/ RetryWrite \/ RetryRefused PROVE UNCHANGED workerVars
  BY <1>4 DEF SweepAborts, RetryWrite, RetryRefused, workerVars
<1>5. ASSUME NEW S \in SUBSET Jobs, DeleteSelect(S) PROVE UNCHANGED workerVars
  BY <1>5 DEF DeleteSelect, workerVars
<1>6. CASE DeleteJobs
  BY <1>6 DEF DeleteJobs, workerVars
<1>7. CASE UNCHANGED vars
  BY <1>7 DEF vars, workerVars
<1>8. QED
  BY <1>1, <1>2, <1>3, <1>4, <1>5, <1>6, <1>7 DEF Next

-----------------------------------------------------------------------------
(* Retries.                                                                *)

\* A worker enters the retry path only with a retry left, and keeps the
\* message it decided on until the retry is sent.
LEMMA RetriesLeftStep == TypeOK /\ RetriesLeft /\ [Next]_vars => RetriesLeft'
<1> SUFFICES ASSUME TypeOK, RetriesLeft, [Next]_vars PROVE RetriesLeft'
  OBVIOUS
<1>1. CASE \A w \in Workers : ~WorkerStep(w)
  BY <1>1, OthersKeepWorkers DEF RetriesLeft, workerVars
<1>2. ASSUME NEW w \in Workers, WorkerStep(w) PROVE RetriesLeft'
  <2>1. \A v \in Workers \ {w} : workerStage'[v] = workerStage[v] /\ held'[v] = held[v]
    BY <1>2
    DEF TypeOK, WorkerStep, Receive, ClaimJob, SkipJob, StartProcess, StartRaises, Heartbeat,
        Complete, Fail, RowGone, MarkRetryWaiting, RetryConflicts, SendRetry, Ack, WorkerLost,
        TaskAborts, WorkerTo, workerVars
  <2>2. workerStage'[w] \in {"failed", "retrying"} => held'[w].retries < JobMaxRetries
    <3>1. CASE Fail(w)
      BY <3>1 DEF Fail, WorkerTo, TypeOK
    <3>2. CASE MarkRetryWaiting(w)
      BY <3>2 DEF MarkRetryWaiting, WorkerTo, TypeOK, RetriesLeft
    <3>3. CASE Heartbeat(w)
      BY <3>3 DEF Heartbeat, workerVars, RetriesLeft
    <3>4. CASE ~Fail(w) /\ ~MarkRetryWaiting(w) /\ ~Heartbeat(w)
      BY <1>2, <3>4
      DEF TypeOK, WorkerStep, Receive, ClaimJob, SkipJob, StartProcess, StartRaises, Complete,
          RowGone, RetryConflicts, SendRetry, Ack, WorkerLost, TaskAborts, WorkerTo
    <3>5. QED
      BY <3>1, <3>2, <3>3, <3>4
  <2>3. QED
    BY <2>1, <2>2 DEF RetriesLeft
<1>3. QED
  BY <1>1, <1>2

\* Type correctness and RetriesLeft are inductive together: the retry number
\* of a new message stays in its range only because the task tests it.
THEOREM TypeCorrect == Spec => [](TypeOK /\ RetriesLeft)
<1>1. Init => RetriesLeft
  BY DEF Init, RetriesLeft
<1>2. QED
  BY <1>1, TypeInit, TypeStep, RetriesLeftStep, PTL DEF Spec

-----------------------------------------------------------------------------
(* The unique index.                                                       *)

\* Writing one row keeps the index when the row does not become active, was
\* active before, or meets no active row of its document.
LEMMA WriteKeepsIndex ==
    ASSUME TypeOK, OneActivePerDocument, NEW j \in Jobs, NEW s, WriteStatus(j, s),
           s \notin ActiveStatuses \/ Active(j) \/ IndexAllows(j)
    PROVE  OneActivePerDocument'
BY DEF TypeOK, OneActivePerDocument, WriteStatus, Active, IndexAllows, IndexedStatuses

\* Rows that keep their status, or lose it, keep the index.
LEMMA FewerActiveKeepIndex ==
    ASSUME OneActivePerDocument, \A j \in Jobs : Active(j)' => Active(j)
    PROVE  OneActivePerDocument'
BY DEF OneActivePerDocument

\* A worker makes a job active only where the unique index lets it.
LEMMA WorkerKeepsIndex ==
    ASSUME TypeOK, OneActivePerDocument, NEW w \in Workers, WorkerStep(w)
    PROVE  OneActivePerDocument'
<1>1. CASE ClaimJob(w)
  <2>1. held[w].job \in Jobs /\ Active(held[w].job)
    BY <1>1, HeldMessage DEF ClaimJob, Claimable, Active, ActiveStatuses
  <2>2. QED
    BY <1>1, <2>1, WriteKeepsIndex DEF ClaimJob
<1>2. CASE StartProcess(w)
  <2>1. held[w].job \in Jobs
    BY <1>2, HeldMessage DEF StartProcess
  <2>2. QED
    BY <1>2, <2>1, WriteKeepsIndex DEF StartProcess
<1>3. CASE Complete(w)
  <2>1. held[w].job \in Jobs
    BY <1>3, HeldMessage DEF Complete
  <2>2. QED
    BY <1>3, <2>1, WriteKeepsIndex DEF Complete, ActiveStatuses
<1>4. CASE Fail(w)
  <2>1. held[w].job \in Jobs
    BY <1>4, HeldMessage DEF Fail
  <2>2. QED
    BY <1>4, <2>1, WriteKeepsIndex DEF Fail, ActiveStatuses
<1>5. CASE MarkRetryWaiting(w)
  <2>1. held[w].job \in Jobs
    BY <1>5, HeldMessage DEF MarkRetryWaiting
  <2>2. CASE Exists(held[w].job)
    BY <1>5, <2>1, <2>2, WriteKeepsIndex DEF MarkRetryWaiting
  <2>3. CASE ~Exists(held[w].job)
    BY <1>5, <2>3, FewerActiveKeepIndex DEF MarkRetryWaiting, jobVars, Active
  <2>4. QED
    BY <2>2, <2>3
<1>6. CASE ~(\/ ClaimJob(w) \/ StartProcess(w) \/ Complete(w) \/ Fail(w) \/ MarkRetryWaiting(w))
  <2>1. status' = status
    BY <1>6
    DEF WorkerStep, Receive, SkipJob, StartRaises, Heartbeat, RowGone, RetryConflicts, SendRetry,
        Ack, WorkerLost, TaskAborts, jobVars
  <2>2. QED
    BY <2>1, FewerActiveKeepIndex DEF Active
<1>7. QED
  BY <1>1, <1>2, <1>3, <1>4, <1>5, <1>6

\* No step of any actor gives a document a second active job.
LEMMA IndexStep == TypeOK /\ OneActivePerDocument /\ [Next]_vars => OneActivePerDocument'
<1> SUFFICES ASSUME TypeOK, OneActivePerDocument, [Next]_vars PROVE OneActivePerDocument'
  OBVIOUS
<1>1. ASSUME NEW j \in Jobs, AcceptWebhook(j) PROVE OneActivePerDocument'
  BY <1>1, WriteKeepsIndex DEF AcceptWebhook, AddJobToOutbox
<1>2. ASSUME NEW j \in Jobs, SweepFirst(j) PROVE OneActivePerDocument'
  <2>1. Active(j)
    BY <1>2 DEF SweepFirst, SweepCandidates
  <2>2. QED
    BY <1>2, <2>1, WriteKeepsIndex DEF SweepFirst, SweepJob, AddJobToOutbox
<1>3. ASSUME NEW j \in Jobs, SweepNext(j) PROVE OneActivePerDocument'
  <2>1. CASE retryCount[j] < JobMaxRetries
    BY <1>3, <2>1, WriteKeepsIndex DEF SweepNext, SweepJob, AddJobToOutbox
  <2>2. CASE ~(retryCount[j] < JobMaxRetries)
    BY <1>3, <2>2, WriteKeepsIndex DEF SweepNext, SweepJob, ActiveStatuses
  <2>3. QED
    BY <2>1, <2>2
<1>4. ASSUME NEW w \in Workers, WorkerStep(w) PROVE OneActivePerDocument'
  BY <1>4, WorkerKeepsIndex
<1>5. CASE RetryWrite
  <2>1. admin.job \in Jobs
    BY <1>5 DEF TypeOK, RetryWrite, AdminRequest
  <2>2. QED
    BY <1>5, <2>1, WriteKeepsIndex DEF RetryWrite, AddJobToOutbox
<1>6. CASE DeleteJobs
  <2>1. \A j \in Jobs : Active(j)' => Active(j)
    BY <1>6 DEF DeleteJobs, Active, ActiveStatuses
  <2>2. QED
    BY <2>1, FewerActiveKeepIndex
<1>7. ASSUME status' = status PROVE OneActivePerDocument'
  BY <1>7, FewerActiveKeepIndex DEF Active
<1>8. ASSUME NEW p \in Publishers, PublisherStep(p) PROVE status' = status
  BY <1>8
  DEF PublisherStep, ClaimEvent, SendEvent, MarkPublished, SendFails, PublisherCrash, jobVars
<1>9. ASSUME NEW j \in Jobs, BecomeStale(j) \/ RetryRead(j) PROVE status' = status
  BY <1>9 DEF BecomeStale, RetryRead, jobVars
<1>10. ASSUME NEW e \in EventId, BackoffElapses(e) PROVE status' = status
  BY <1>10 DEF BackoffElapses, jobVars
<1>11. ASSUME SweepAborts \/ RetryRefused PROVE status' = status
  BY <1>11 DEF SweepAborts, RetryRefused, jobVars
<1>12. ASSUME NEW S \in SUBSET Jobs, DeleteSelect(S) PROVE status' = status
  BY <1>12 DEF DeleteSelect, jobVars
<1>13. CASE UNCHANGED vars
  BY <1>7, <1>13 DEF vars, jobVars
<1>14. QED
  BY <1>1, <1>2, <1>3, <1>4, <1>5, <1>6, <1>7, <1>8, <1>9, <1>10, <1>11, <1>12, <1>13 DEF Next

\* A document never has two active jobs: every write that makes a row active
\* (webhook, sweeper, administrator, orchestrator start, RETRY_WAITING) is
\* tested by the index or finds the row active already.
THEOREM NoTwoActiveJobs == Spec => []OneActivePerDocument
<1>1. Init => OneActivePerDocument
  BY DEF Init, OneActivePerDocument, Active, ActiveStatuses
<1>2. QED
  BY <1>1, IndexStep, TypeCorrect, PTL DEF Spec

-----------------------------------------------------------------------------
(* The outbox.                                                             *)

\* Every event in use has been issued: claimed ones, sent ones and rows.
EventsIssued ==
    /\ \A e \in EventId : outbox[e] # "NONE" => e \in EventsOf(e[1])
    /\ \A p \in Publishers : pubStage[p] # "idle" => pubEvent[p] \in EventsOf(pubEvent[p][1])
    /\ \A e \in sent : e \in EventsOf(e[1])

\* A publisher that is about to mark its event has sent it.
SentBeforeMark == \A p \in Publishers : pubStage[p] = "sent" => pubEvent[p] \in sent

\* Issuing an event keeps the ones issued before.
LEMMA IssueGrows ==
    ASSUME TypeOK, NEW j \in Jobs, AddJobToOutbox(j)
    PROVE  /\ issued[j] \in Nat /\ issued[j] + 1 \in 1..MaxEvents
           /\ \A k \in Jobs : EventsOf(k) \subseteq EventsOf(k)'
           /\ \A e \in EventId : outbox'[e] # outbox[e] => e = <<j, issued[j] + 1>>
           /\ <<j, issued[j] + 1>> \in EventId
           /\ <<j, issued[j] + 1>> \in EventsOf(j)'
           /\ outbox'[<<j, issued[j] + 1>>] = "PENDING"
<1>1. issued[j] \in 0..MaxEvents /\ issued[j] + 1 \in 1..MaxEvents
  BY JobQueueAssumption DEF TypeOK, AddJobToOutbox
<1>2. \A k \in Jobs : issued[k] \in Nat /\ issued'[k] = IF k = j THEN issued[k] + 1 ELSE issued[k]
  BY <1>1 DEF TypeOK, AddJobToOutbox
<1>3. <<j, issued[j] + 1>> \in EventId
  BY <1>1 DEF EventId
<1>4. \A e \in EventId : outbox'[e] = IF e = <<j, issued[j] + 1>> THEN "PENDING" ELSE outbox[e]
  BY <1>3 DEF TypeOK, AddJobToOutbox
<1>5. \A k \in Jobs : EventsOf(k) \subseteq EventsOf(k)'
  <2> SUFFICES ASSUME NEW k \in Jobs, NEW e \in EventsOf(k) PROVE e \in EventsOf(k)'
    OBVIOUS
  <2>1. e \in EventId /\ e[1] = k /\ e[2] \in Nat /\ e[2] <= issued[k]
    BY JobQueueAssumption DEF EventsOf, EventId
  <2>2. issued[k] <= issued'[k] /\ issued'[k] \in Nat
    BY <1>2
  <2>3. e[2] <= issued'[k]
    BY <1>2, <2>1, <2>2
  <2>4. QED
    BY <2>1, <2>3 DEF EventsOf
<1>6. <<j, issued[j] + 1>> \in EventsOf(j)'
  BY <1>1, <1>2, <1>3 DEF EventsOf
<1>7. QED
  BY <1>1, <1>3, <1>4, <1>5, <1>6

OutboxInv == EventsIssued /\ SentBeforeMark /\ PublishedWasSent

\* A new event disturbs none of the three: it is issued and PENDING.
LEMMA IssueKeepsOutboxInv ==
    ASSUME TypeOK, OutboxInv, NEW j \in Jobs, AddJobToOutbox(j), UNCHANGED <<pubVars, sent>>
    PROVE  OutboxInv'
<1> DEFINE new == <<j, issued[j] + 1>>
<1>1. /\ \A k \in Jobs : EventsOf(k) \subseteq EventsOf(k)'
      /\ \A e \in EventId : outbox'[e] # outbox[e] => e = new
      /\ new \in EventId
      /\ new \in EventsOf(j)'
      /\ outbox'[new] = "PENDING"
      /\ new[1] = j
  BY IssueGrows
<1>2. \A e \in EventId : e[1] \in Jobs
  BY DEF EventId
<1> HIDE DEF new
<1>3. \A e \in EventId : outbox'[e] # "NONE" => e \in EventsOf(e[1])'
  BY <1>1, <1>2 DEF OutboxInv, EventsIssued
<1>4. (\A p \in Publishers : pubStage[p] # "idle" => pubEvent[p] \in EventsOf(pubEvent[p][1]))'
  <2> SUFFICES ASSUME NEW p \in Publishers, pubStage[p] # "idle"
               PROVE  (pubEvent[p] \in EventsOf(pubEvent[p][1]))'
    BY DEF pubVars
  <2> DEFINE k == pubEvent[p][1]
  <2>1. k \in Jobs /\ pubEvent[p] \in EventsOf(k)
    BY ClaimedEvent DEF OutboxInv, EventsIssued
  <2>2. pubEvent[p] \in EventsOf(k)'
    BY <1>1, <2>1 DEF pubVars
  <2>3. QED
    BY <2>2 DEF pubVars, EventsOf
<1>5. \A e \in sent' : e \in EventsOf(e[1])'
  BY <1>1, <1>2 DEF OutboxInv, EventsIssued, TypeOK
<1>6. PublishedWasSent'
  BY <1>1 DEF OutboxInv, PublishedWasSent
<1>7. SentBeforeMark'
  BY DEF OutboxInv, SentBeforeMark, pubVars
<1>8. EventsIssued'
  BY <1>3, <1>4, <1>5 DEF EventsIssued
<1>9. QED
  BY <1>6, <1>7, <1>8 DEF OutboxInv

\* Steps that issue nothing, send nothing, claim nothing and bring no event
\* to another status than NONE keep the three.
LEMMA QuietKeepsOutboxInv ==
    ASSUME TypeOK, OutboxInv, UNCHANGED <<issued, pubVars, sent>>,
           \A e \in EventId : outbox'[e] \in {outbox[e], "NONE"}
    PROVE  OutboxInv'
<1>1. \A k : EventsOf(k)' = EventsOf(k)
  BY DEF EventsOf
<1>2. QED
  BY <1>1 DEF OutboxInv, EventsIssued, SentBeforeMark, PublishedWasSent, pubVars

\* A publisher marks an event only after it has sent it.
LEMMA PublisherKeepsOutboxInv ==
    ASSUME TypeOK, OutboxInv, NEW p \in Publishers, PublisherStep(p)
    PROVE  OutboxInv'
<1>1. ASSUME issued' = issued PROVE \A k : EventsOf(k)' = EventsOf(k)
  BY <1>1 DEF EventsOf
<1>2. ASSUME NEW e \in EventId, ClaimEvent(p, e) PROVE OutboxInv'
  BY <1>1, <1>2
  DEF TypeOK, ClaimEvent, OutboxInv, EventsIssued, SentBeforeMark, PublishedWasSent
<1>3. CASE SendEvent(p)
  BY <1>1, <1>3, ClaimedEvent
  DEF TypeOK, SendEvent, OutboxInv, EventsIssued, SentBeforeMark, PublishedWasSent, outboxVars
<1>4. CASE MarkPublished(p)
  BY <1>1, <1>4, ClaimedEvent, JobQueueAssumption
  DEF TypeOK, MarkPublished, PublisherIdle, OutboxInv, EventsIssued, SentBeforeMark,
      PublishedWasSent
<1>5. CASE SendFails(p)
  BY <1>1, <1>5, ClaimedEvent, JobQueueAssumption
  DEF TypeOK, SendFails, PublisherIdle, OutboxInv, EventsIssued, SentBeforeMark,
      PublishedWasSent
<1>6. CASE PublisherCrash(p)
  BY <1>1, <1>6, ClaimedEvent
  DEF TypeOK, PublisherCrash, PublisherIdle, OutboxInv, EventsIssued, SentBeforeMark,
      PublishedWasSent, outboxVars
<1>7. QED
  BY <1>2, <1>3, <1>4, <1>5, <1>6 DEF PublisherStep

\* Workers do not touch the outbox.
LEMMA WorkerKeepsOutboxInv ==
    ASSUME TypeOK, OutboxInv, NEW w \in Workers, WorkerStep(w)
    PROVE  OutboxInv'
<1>1. UNCHANGED <<issued, outbox, pubVars, sent>>
  BY DEF WorkerStep, Receive, ClaimJob, SkipJob, StartProcess, StartRaises, Heartbeat, Complete,
         Fail, RowGone, MarkRetryWaiting, RetryConflicts, SendRetry, Ack, WorkerLost, TaskAborts,
         outboxVars
<1>2. QED
  BY <1>1, QuietKeepsOutboxInv DEF pubVars

\* Every step keeps the discipline of the outbox.
LEMMA OutboxStep == TypeOK /\ OutboxInv /\ [Next]_vars => OutboxInv'
<1> SUFFICES ASSUME TypeOK, OutboxInv, [Next]_vars PROVE OutboxInv'
  OBVIOUS
<1>1. ASSUME NEW j \in Jobs, AcceptWebhook(j) PROVE OutboxInv'
  BY <1>1, IssueKeepsOutboxInv DEF AcceptWebhook
<1>2. ASSUME NEW j \in Jobs, SweepJob(j), UNCHANGED <<pubVars, sent>> PROVE OutboxInv'
  <2>1. CASE retryCount[j] < JobMaxRetries
    BY <1>2, <2>1, IssueKeepsOutboxInv DEF SweepJob
  <2>2. CASE ~(retryCount[j] < JobMaxRetries)
    BY <1>2, <2>2, QuietKeepsOutboxInv DEF SweepJob, outboxVars
  <2>3. QED
    BY <2>1, <2>2
<1>3. ASSUME NEW j \in Jobs, SweepFirst(j) \/ SweepNext(j) PROVE OutboxInv'
  BY <1>2, <1>3 DEF SweepFirst, SweepNext
<1>4. CASE RetryWrite
  <2>1. admin.job \in Jobs
    BY <1>4 DEF TypeOK, RetryWrite, AdminRequest
  <2>2. QED
    BY <1>4, <2>1, IssueKeepsOutboxInv DEF RetryWrite
<1>5. ASSUME NEW p \in Publishers, PublisherStep(p) PROVE OutboxInv'
  BY <1>5, PublisherKeepsOutboxInv
<1>6. ASSUME NEW w \in Workers, WorkerStep(w) PROVE OutboxInv'
  BY <1>6, WorkerKeepsOutboxInv
<1>7. CASE DeleteJobs
  BY <1>7, QuietKeepsOutboxInv DEF DeleteJobs
<1>8. ASSUME NEW j \in Jobs, BecomeStale(j) \/ RetryRead(j) PROVE OutboxInv'
  BY <1>8, QuietKeepsOutboxInv DEF BecomeStale, RetryRead, outboxVars
<1>9. ASSUME NEW e \in EventId, BackoffElapses(e) PROVE OutboxInv'
  BY <1>9, QuietKeepsOutboxInv DEF BackoffElapses
<1>10. CASE SweepAborts \/ RetryRefused
  BY <1>10, QuietKeepsOutboxInv DEF SweepAborts, RetryRefused, outboxVars
<1>11. ASSUME NEW S \in SUBSET Jobs, DeleteSelect(S) PROVE OutboxInv'
  BY <1>11, QuietKeepsOutboxInv DEF DeleteSelect, outboxVars
<1>12. CASE UNCHANGED vars
  BY <1>12, QuietKeepsOutboxInv DEF vars, outboxVars
<1>13. QED
  BY <1>1, <1>3, <1>4, <1>5, <1>6, <1>7, <1>8, <1>9, <1>10, <1>11, <1>12 DEF Next

\* An empty outbox satisfies it.
LEMMA OutboxInit == Init => OutboxInv
BY DEF Init, OutboxInv, EventsIssued, SentBeforeMark, PublishedWasSent

\* An event is PUBLISHED only after some publisher has handed it to the
\* broker, however claims are taken over, processes die and sends fail.
THEOREM PublishedEventsWereSent == Spec => []PublishedWasSent
<1>1. OutboxInv => PublishedWasSent
  BY DEF OutboxInv
<1>2. QED
  BY <1>1, OutboxInit, OutboxStep, TypeCorrect, PTL DEF Spec

-----------------------------------------------------------------------------
(* No job is lost.                                                         *)

\* The stages in which a worker can carry a job.
CarrierStages == {"received", "claimed", "running", "retrying"}

\* What carries job j is still there after the step: its unsent events, its
\* messages and its workers.
CarriersKept(j) ==
    /\ \A e \in EventsOf(j) \ sent : e \in EventsOf(j)' /\ e \notin sent'
    /\ \A m \in Message : broker[m] > 0 /\ m.job = j => broker'[m] > 0
    /\ \A w \in Workers :
          workerStage[w] \in CarrierStages /\ held[w].job = j
              => workerStage'[w] = workerStage[w] /\ held'[w] = held[w]

\* A job whose status and carriers a step leaves alone still has a carrier.
LEMMA KeptCarriers ==
    ASSUME NEW j \in Jobs, CarriersKept(j), HasCarrier(j), status'[j] = status[j]
    PROVE  HasCarrier(j)'
<1>1. CASE status[j] = "QUEUED" /\ EventsOf(j) \ sent # {}
  <2>1. (EventsOf(j) \ sent # {})'
    BY <1>1 DEF CarriersKept
  <2>2. QED
    BY <1>1, <2>1 DEF HasCarrier
<1>2. CASE status[j] = "RUNNING" /\ WorkerAt(j, {"claimed", "running"})
  <2>1. WorkerAt(j, {"claimed", "running"})'
    BY <1>2 DEF CarriersKept, CarrierStages, WorkerAt
  <2>2. QED
    BY <1>2, <2>1 DEF HasCarrier
<1>3. CASE status[j] = "RETRY_WAITING" /\ WorkerAt(j, {"retrying"})
  <2>1. WorkerAt(j, {"retrying"})'
    BY <1>3 DEF CarriersKept, CarrierStages, WorkerAt
  <2>2. QED
    BY <1>3, <2>1 DEF HasCarrier
<1>4. ASSUME NEW m \in Message, Pending(j, m) PROVE HasCarrier(j)'
  <2>1. Pending(j, m)'
    BY <1>4 DEF CarriersKept, CarrierStages, Pending, Claimable
  <2>2. QED
    BY <2>1 DEF HasCarrier
<1>5. QED
  BY <1>1, <1>2, <1>3, <1>4 DEF HasCarrier

\* A job that the step leaves alone keeps its carriers.
LEMMA UntouchedJob ==
    ASSUME ActiveHasCarrier, NEW j \in Jobs, CarriersKept(j), status'[j] = status[j],
           j \in abandoned => j \in abandoned',
           (j \notin abandoned /\ Active(j))'
    PROVE  HasCarrier(j)'
<1>1. HasCarrier(j)
  BY DEF ActiveHasCarrier, Active
<1>2. QED
  BY <1>1, KeptCarriers

\* A message in the broker that the status admits carries its job.
LEMMA MessageCarries ==
    ASSUME NEW j \in Jobs, NEW m \in Message, m.job = j, broker'[m] > 0,
           status'[j] \in Claimable(m)
    PROVE  HasCarrier(j)'
<1>1. Pending(j, m)'
  BY DEF Pending, Claimable
<1>2. QED
  BY <1>1 DEF HasCarrier

\* A new event carries its job: no earlier event has its number.
LEMMA IssueKeepsCarriers ==
    ASSUME TypeOK, OutboxInv, ActiveHasCarrier, NEW j \in Jobs, AddJobToOutbox(j),
           UNCHANGED <<broker, workerVars, sent>>
    PROVE  ActiveHasCarrier'
<1> DEFINE new == <<j, issued[j] + 1>>
<1>1. /\ \A k \in Jobs : EventsOf(k) \subseteq EventsOf(k)'
      /\ new \in EventsOf(j)'
      /\ issued[j] \in Nat
  BY IssueGrows
<1>2. new \notin sent
  BY <1>1 DEF OutboxInv, EventsIssued, EventsOf
<1>3. status'[j] = "QUEUED"
  BY DEF TypeOK, AddJobToOutbox, WriteStatus
<1> HIDE DEF new
<1>4. HasCarrier(j)'
  <2>1. (EventsOf(j) \ sent # {})'
    BY <1>1, <1>2
  <2>2. QED
    BY <1>3, <2>1 DEF HasCarrier
<1>5. ASSUME NEW k \in Jobs \ {j}, (k \notin abandoned /\ Active(k))' PROVE HasCarrier(k)'
  <2>1. CarriersKept(k)
    BY <1>1 DEF CarriersKept, workerVars
  <2>2. status'[k] = status[k] /\ (k \in abandoned => k \in abandoned')
    BY DEF TypeOK, AddJobToOutbox, WriteStatus
  <2>3. QED
    BY <1>5, <2>1, <2>2, UntouchedJob
<1>6. QED
  BY <1>4, <1>5 DEF ActiveHasCarrier

\* Steps that keep every message, event and worker, and bring no row from
\* one active status to another, lose no job.
LEMMA QuietKeepsCarriers ==
    ASSUME TypeOK, ActiveHasCarrier, UNCHANGED <<issued, broker, workerVars, sent, abandoned>>,
           \A j \in Jobs : Active(j)' => status'[j] = status[j]
    PROVE  ActiveHasCarrier'
<1> SUFFICES ASSUME NEW j \in Jobs, (j \notin abandoned /\ Active(j))' PROVE HasCarrier(j)'
  BY DEF ActiveHasCarrier
<1>1. CarriersKept(j)
  BY DEF CarriersKept, EventsOf, workerVars
<1>2. QED
  BY <1>1, UntouchedJob

\* A publisher that takes an unsent event leaves a message in its place.
LEMMA PublisherKeepsCarriers ==
    ASSUME TypeOK, OutboxInv, ActiveHasCarrier, NEW p \in Publishers, PublisherStep(p)
    PROVE  ActiveHasCarrier'
<1>1. CASE UNCHANGED <<jobVars, issued, broker, workerVars, sent, abandoned>>
  BY <1>1, QuietKeepsCarriers DEF jobVars, Active
<1>2. ASSUME UNCHANGED <<status, issued, workerVars, abandoned>>,
             pubEvent[p] \in EventId,
             Enqueue(NewMessage(pubEvent[p][1], 0)),
             sent' = sent \cup {pubEvent[p]}
      PROVE  ActiveHasCarrier'
  <2> DEFINE m == NewMessage(pubEvent[p][1], 0)
  <2>1. m \in Message /\ m.job = pubEvent[p][1] /\ pubEvent[p][1] \in Jobs
    BY <1>2, NewMessageType, JobQueueAssumption DEF EventId, NewMessage
  <2>2. /\ broker'[m] > 0
        /\ \A n \in Message : broker[n] > 0 => broker'[n] > 0
    BY <1>2, <2>1 DEF Enqueue, TypeOK
  <2>3. ASSUME NEW j \in Jobs, (j \notin abandoned /\ Active(j))' PROVE HasCarrier(j)'
    <3>1. HasCarrier(j) /\ status'[j] = status[j]
      BY <1>2, <2>3 DEF ActiveHasCarrier, Active
    <3>2. CASE j = m.job /\ status[j] = "QUEUED"
      BY <2>1, <2>2, <3>1, <3>2, MessageCarries DEF Claimable
    <3>3. CASE j # m.job
      <4>1. \A e \in EventsOf(j) : e # pubEvent[p]
        BY <2>1, <3>3 DEF EventsOf
      <4>2. CarriersKept(j)
        BY <1>2, <2>2, <4>1 DEF CarriersKept, EventsOf, workerVars
      <4>3. QED
        BY <3>1, <4>2, KeptCarriers
    <3>4. CASE status[j] # "QUEUED"
      <4>1. CASE WorkerAt(j, {"claimed", "running"}) /\ status[j] = "RUNNING"
        BY <1>2, <3>1, <4>1 DEF WorkerAt, HasCarrier, workerVars
      <4>2. CASE WorkerAt(j, {"retrying"}) /\ status[j] = "RETRY_WAITING"
        BY <1>2, <3>1, <4>2 DEF WorkerAt, HasCarrier, workerVars
      <4>3. ASSUME NEW n \in Message, Pending(j, n) PROVE HasCarrier(j)'
        <5>1. Pending(j, n)'
          BY <1>2, <2>2, <3>1, <4>3 DEF Pending, Claimable, workerVars
        <5>2. QED
          BY <5>1 DEF HasCarrier
      <4>4. QED
        BY <3>1, <3>4, <4>1, <4>2, <4>3 DEF HasCarrier
    <3>5. QED
      BY <3>2, <3>3, <3>4
  <2>4. QED
    BY <2>3 DEF ActiveHasCarrier
<1>3. CASE SendEvent(p)
  BY <1>2, <1>3, ClaimedEvent DEF SendEvent, jobVars, outboxVars
<1>4. CASE SendFails(p)
  BY <1>1, <1>2, <1>4, ClaimedEvent DEF SendFails, jobVars
<1>5. CASE (\E e \in EventId : ClaimEvent(p, e)) \/ MarkPublished(p) \/ PublisherCrash(p)
  BY <1>1, <1>5 DEF ClaimEvent, MarkPublished, PublisherCrash, outboxVars
<1>6. QED
  BY <1>3, <1>4, <1>5 DEF PublisherStep

\* A worker disturbs the carriers of the job in its hands only.
LEMMA WorkerLeavesOthers ==
    ASSUME TypeOK, RetriesLeft, NEW w \in Workers, WorkerStep(w), workerStage[w] # "idle",
           NEW j \in Jobs, j # held[w].job
    PROVE  CarriersKept(j) /\ status'[j] = status[j] /\ (j \in abandoned => j \in abandoned')
<1>1. /\ held[w].job \in Jobs
      /\ held[w].retries \in 0..JobMaxRetries
      /\ Redelivery(held[w]) \in Message
  BY HeldMessage
<1>2. issued' = issued /\ sent' = sent
  BY DEF WorkerStep, Receive, ClaimJob, SkipJob, StartProcess, StartRaises, Heartbeat, Complete,
         Fail, RowGone, MarkRetryWaiting, RetryConflicts, SendRetry, Ack, WorkerLost, TaskAborts,
         outboxVars
<1>3. \A v \in Workers \ {w} : workerStage'[v] = workerStage[v] /\ held'[v] = held[v]
  BY DEF TypeOK, WorkerStep, Receive, ClaimJob, SkipJob, StartProcess, StartRaises, Heartbeat,
         Complete, Fail, RowGone, MarkRetryWaiting, RetryConflicts, SendRetry, Ack, WorkerLost,
         TaskAborts, WorkerTo, workerVars
<1>4. status'[j] = status[j] /\ (j \in abandoned => j \in abandoned')
  BY <1>1
  DEF TypeOK, WorkerStep, Receive, ClaimJob, SkipJob, StartProcess, StartRaises, Heartbeat,
      Complete, Fail, RowGone, MarkRetryWaiting, RetryConflicts, SendRetry, Ack, WorkerLost,
      TaskAborts, WriteStatus, jobVars
<1>5. ASSUME NEW m \in Message, broker[m] > 0 PROVE broker'[m] > 0
  <2>1. CASE SendRetry(w)
    <3>1. held[w].retries + 1 \in 0..JobMaxRetries
      BY <1>1, <2>1, JobQueueAssumption DEF SendRetry, RetriesLeft
    <3>2. NewMessage(held[w].job, held[w].retries + 1) \in Message
      BY <1>1, <3>1, NewMessageType
    <3>3. QED
      BY <1>5, <2>1, <3>2 DEF SendRetry, Enqueue, TypeOK
  <2>2. CASE WorkerLost(w)
    BY <1>1, <1>5, <2>2 DEF WorkerLost, Enqueue, TypeOK
  <2>3. CASE ~SendRetry(w) /\ ~WorkerLost(w)
    BY <1>5, <2>3
    DEF WorkerStep, Receive, ClaimJob, SkipJob, StartProcess, StartRaises, Heartbeat, Complete,
        Fail, RowGone, MarkRetryWaiting, RetryConflicts, Ack, TaskAborts
  <2>4. QED
    BY <2>1, <2>2, <2>3
<1>6. CarriersKept(j)
  BY <1>2, <1>3, <1>5 DEF CarriersKept, EventsOf
<1>7. QED
  BY <1>4, <1>6

\* A received message moves from the broker into the hands of the worker.
LEMMA ReceiveKeepsCarriers ==
    ASSUME TypeOK, ActiveHasCarrier, NEW w \in Workers, NEW m \in Message, Receive(w, m)
    PROVE  ActiveHasCarrier'
<1> SUFFICES ASSUME NEW j \in Jobs, (j \notin abandoned /\ Active(j))' PROVE HasCarrier(j)'
  BY DEF ActiveHasCarrier
<1>1. /\ UNCHANGED <<status, issued, sent, abandoned>>
      /\ workerStage'[w] = "received" /\ held'[w] = m
      /\ \A v \in Workers \ {w} : workerStage'[v] = workerStage[v] /\ held'[v] = held[v]
      /\ \A n \in Message \ {m} : broker'[n] = broker[n]
      /\ workerStage[w] = "idle"
  BY DEF Receive, TypeOK, jobVars, outboxVars
<1>2. HasCarrier(j)
  BY <1>1 DEF ActiveHasCarrier, Active
<1>3. CASE status[j] = "QUEUED" /\ EventsOf(j) \ sent # {}
  BY <1>1, <1>3 DEF HasCarrier, EventsOf
<1>4. CASE status[j] = "RUNNING" /\ WorkerAt(j, {"claimed", "running"})
  BY <1>1, <1>4 DEF HasCarrier, WorkerAt
<1>5. CASE status[j] = "RETRY_WAITING" /\ WorkerAt(j, {"retrying"})
  BY <1>1, <1>5 DEF HasCarrier, WorkerAt
<1>6. ASSUME NEW n \in Message, Pending(j, n) PROVE HasCarrier(j)'
  <2>1. Pending(j, n)'
    BY <1>1, <1>6 DEF Pending, Claimable
  <2>2. QED
    BY <2>1 DEF HasCarrier
<1>7. QED
  BY <1>2, <1>3, <1>4, <1>5, <1>6 DEF HasCarrier

\* The job in the hands of a worker keeps a carrier or is abandoned.
LEMMA WorkerKeepsOwnJob ==
    ASSUME TypeOK, RetriesLeft, ActiveHasCarrier, NEW w \in Workers, WorkerStep(w),
           workerStage[w] # "idle",
           NEW h, h = held[w], NEW own, own = h.job,
           own \notin abandoned', Active(own)'
    PROVE  HasCarrier(own)'
<1>1. h \in Message /\ own \in Jobs /\ h.retries \in 0..JobMaxRetries /\ Redelivery(h) \in Message
  BY HeldMessage
<1>2. ASSUME status' = status, broker' = broker, issued' = issued, sent' = sent,
             abandoned' = abandoned,
             \/ workerStage'[w] = workerStage[w] /\ held'[w] = held[w]
             \/ workerStage[w] \notin CarrierStages
             \/ workerStage[w] = "received" /\ status[own] \notin Claimable(h),
             \A v \in Workers \ {w} : workerStage'[v] = workerStage[v] /\ held'[v] = held[v]
      PROVE  HasCarrier(own)'
  <2>1. HasCarrier(own)
    BY <1>1, <1>2 DEF ActiveHasCarrier, Active
  <2>2. CASE workerStage[w] = "received" /\ status[own] \notin Claimable(h)
    <3>1. CASE status[own] = "QUEUED" /\ EventsOf(own) \ sent # {}
      BY <1>2, <3>1 DEF HasCarrier, EventsOf
    <3>2. CASE status[own] = "RUNNING" /\ WorkerAt(own, {"claimed", "running"})
      BY <1>2, <2>2, <3>2 DEF HasCarrier, WorkerAt
    <3>3. CASE status[own] = "RETRY_WAITING" /\ WorkerAt(own, {"retrying"})
      BY <1>2, <2>2, <3>3 DEF HasCarrier, WorkerAt
    <3>4. ASSUME NEW n \in Message, Pending(own, n) PROVE HasCarrier(own)'
      <4>1. n # h
        BY <2>2, <3>4 DEF Pending
      <4>2. Pending(own, n)'
        BY <1>2, <3>4, <4>1 DEF Pending, Claimable
      <4>3. QED
        BY <4>2 DEF HasCarrier
    <3>5. QED
      BY <2>1, <3>1, <3>2, <3>3, <3>4 DEF HasCarrier
  <2>3. CASE ~(workerStage[w] = "received" /\ status[own] \notin Claimable(h))
    <3>1. CarriersKept(own)
      BY <1>2, <2>3 DEF CarriersKept, EventsOf
    <3>2. QED
      BY <1>1, <1>2, <2>1, <3>1, KeptCarriers
  <2>4. QED
    BY <2>2, <2>3
<1>3. CASE SkipJob(w) \/ RetryConflicts(w) \/ Ack(w) \/ Heartbeat(w)
  BY <1>2, <1>3
  DEF SkipJob, RetryConflicts, Ack, Heartbeat, WorkerTo, TypeOK, CarrierStages, jobVars,
      outboxVars, workerVars
<1>4. CASE ClaimJob(w) \/ StartProcess(w)
  <2>1. status'[own] = "RUNNING" /\ workerStage'[w] \in {"claimed", "running"} /\ held' = held
    BY <1>1, <1>4 DEF ClaimJob, StartProcess, WriteStatus, WorkerTo, TypeOK
  <2>2. QED
    BY <2>1 DEF HasCarrier, WorkerAt
<1>5. CASE StartRaises(w) \/ TaskAborts(w)
  BY <1>5 DEF StartRaises, TaskAborts
<1>6. CASE Complete(w) \/ Fail(w) \/ RowGone(w)
  BY <1>1, <1>6
  DEF Complete, Fail, RowGone, WriteStatus, Exists, TypeOK, Active, ActiveStatuses, jobVars
<1>7. CASE MarkRetryWaiting(w)
  <2>1. workerStage'[w] = "retrying" /\ held' = held
    BY <1>7 DEF MarkRetryWaiting, WorkerTo, TypeOK
  <2>2. status'[own] = "RETRY_WAITING"
    BY <1>1, <1>7
    DEF MarkRetryWaiting, WriteStatus, Exists, TypeOK, Active, ActiveStatuses, jobVars
  <2>3. QED
    BY <2>1, <2>2 DEF HasCarrier, WorkerAt
<1>8. CASE SendRetry(w)
  <2>1. own \in abandoned' \/ Enqueue(NewMessage(own, h.retries + 1))
    BY <1>8 DEF SendRetry
  <2>2. Enqueue(NewMessage(own, h.retries + 1))
    BY <2>1
  <2>3. h.retries + 1 \in 0..JobMaxRetries
    BY <1>1, <1>8, JobQueueAssumption DEF SendRetry, RetriesLeft
  <2>4. NewMessage(own, h.retries + 1) \in Message
    BY <1>1, <2>3, NewMessageType
  <2>5. broker'[NewMessage(own, h.retries + 1)] > 0
    BY <2>2, <2>4 DEF Enqueue, TypeOK
  <2>6. UNCHANGED <<status, issued, sent>> /\ held' = held
        /\ \A v \in Workers \ {w} : workerStage'[v] = workerStage[v]
    BY <1>8 DEF SendRetry, jobVars, outboxVars, WorkerTo, TypeOK
  <2>7. CASE status[own] \in {"QUEUED", "RETRY_WAITING"}
    <3>1. NewMessage(own, h.retries + 1).job = own
      BY DEF NewMessage
    <3>2. status'[own] \in Claimable(NewMessage(own, h.retries + 1))
      BY <2>6, <2>7 DEF Claimable
    <3>3. QED
      BY <1>1, <2>4, <2>5, <3>1, <3>2, MessageCarries
  <2>8. CASE status[own] = "RUNNING"
    <3>1. own \notin abandoned
      BY <1>8 DEF SendRetry
    <3>2. HasCarrier(own)
      BY <1>1, <2>8, <3>1 DEF ActiveHasCarrier, Active, ActiveStatuses
    <3>3. CASE WorkerAt(own, {"claimed", "running"})
      BY <1>8, <2>6, <2>8, <3>3 DEF SendRetry, HasCarrier, WorkerAt
    <3>4. ASSUME NEW n \in Message, Pending(own, n) PROVE HasCarrier(own)'
      <4>1. broker[n] > 0 => broker'[n] > 0
        BY <2>2, <2>4 DEF Enqueue, TypeOK
      <4>2. Pending(own, n)'
        BY <1>8, <2>6, <3>4, <4>1 DEF SendRetry, Pending, Claimable
      <4>3. QED
        BY <4>2 DEF HasCarrier
    <3>5. QED
      BY <2>8, <3>2, <3>3, <3>4 DEF HasCarrier
  <2>9. QED
    BY <2>6, <2>7, <2>8 DEF Active, ActiveStatuses
<1>9. CASE WorkerLost(w)
  <2>1. broker'[Redelivery(h)] > 0 /\ Redelivery(h).job = own /\ Redelivery(h).redelivered = TRUE
    <3>1. Enqueue(Redelivery(h))
      BY <1>9 DEF WorkerLost
    <3>2. broker'[Redelivery(h)] > 0
      BY <1>1, <3>1 DEF Enqueue, TypeOK
    <3>3. Redelivery(h).job = own /\ Redelivery(h).redelivered = TRUE
      BY <1>1 DEF Redelivery, Message
    <3>4. QED
      BY <3>2, <3>3
  <2>2. status'[own] \in Claimable(Redelivery(h))
    BY <2>1 DEF Claimable, Active, ActiveStatuses
  <2>3. QED
    BY <1>1, <2>1, <2>2, MessageCarries
<1>10. ASSUME NEW m \in Message, Receive(w, m) PROVE FALSE
  BY <1>10 DEF Receive
<1>11. QED
  BY <1>3, <1>4, <1>5, <1>6, <1>7, <1>8, <1>9, <1>10 DEF WorkerStep

\* No step of a worker leaves an active job without a carrier.
LEMMA WorkerKeepsCarriers ==
    ASSUME TypeOK, RetriesLeft, ActiveHasCarrier, NEW w \in Workers, WorkerStep(w)
    PROVE  ActiveHasCarrier'
<1>1. CASE workerStage[w] = "idle"
  <2>1. \E m \in Message : Receive(w, m)
    BY <1>1
    DEF WorkerStep, ClaimJob, SkipJob, StartProcess, StartRaises, Heartbeat, Complete, Fail,
        RowGone, MarkRetryWaiting, RetryConflicts, SendRetry, Ack, WorkerLost, TaskAborts, Engaged
  <2>2. QED
    BY <2>1, ReceiveKeepsCarriers
<1>2. CASE workerStage[w] # "idle"
  <2> SUFFICES ASSUME NEW j \in Jobs, (j \notin abandoned /\ Active(j))' PROVE HasCarrier(j)'
    BY DEF ActiveHasCarrier
  <2>1. CASE j = held[w].job
    BY <1>2, <2>1, WorkerKeepsOwnJob
  <2>2. CASE j # held[w].job
    BY <1>2, <2>2, WorkerLeavesOthers, UntouchedJob
  <2>3. QED
    BY <2>1, <2>2
<1>3. QED
  BY <1>1, <1>2

\* No step of any actor does.
LEMMA CarrierStep ==
    TypeOK /\ RetriesLeft /\ OutboxInv /\ ActiveHasCarrier /\ [Next]_vars => ActiveHasCarrier'
<1> SUFFICES ASSUME TypeOK, RetriesLeft, OutboxInv, ActiveHasCarrier, [Next]_vars
             PROVE  ActiveHasCarrier'
  OBVIOUS
<1>1. ASSUME NEW j \in Jobs, AcceptWebhook(j) PROVE ActiveHasCarrier'
  BY <1>1, IssueKeepsCarriers DEF AcceptWebhook
<1>2. ASSUME NEW j \in Jobs, SweepJob(j), UNCHANGED <<broker, workerVars, sent>>
      PROVE  ActiveHasCarrier'
  <2>1. CASE retryCount[j] < JobMaxRetries
    BY <1>2, <2>1, IssueKeepsCarriers DEF SweepJob
  <2>2. CASE ~(retryCount[j] < JobMaxRetries)
    <3>1. \A k \in Jobs : Active(k)' => status'[k] = status[k]
      BY <1>2, <2>2 DEF SweepJob, WriteStatus, TypeOK, Active, ActiveStatuses
    <3>2. QED
      BY <1>2, <2>2, <3>1, QuietKeepsCarriers DEF SweepJob, outboxVars
  <2>3. QED
    BY <2>1, <2>2
<1>3. ASSUME NEW j \in Jobs, SweepFirst(j) \/ SweepNext(j) PROVE ActiveHasCarrier'
  BY <1>2, <1>3 DEF SweepFirst, SweepNext
<1>4. CASE RetryWrite
  <2>1. admin.job \in Jobs
    BY <1>4 DEF TypeOK, RetryWrite, AdminRequest
  <2>2. QED
    BY <1>4, <2>1, IssueKeepsCarriers DEF RetryWrite
<1>5. ASSUME NEW p \in Publishers, PublisherStep(p) PROVE ActiveHasCarrier'
  BY <1>5, PublisherKeepsCarriers
<1>6. ASSUME NEW w \in Workers, WorkerStep(w) PROVE ActiveHasCarrier'
  BY <1>6, WorkerKeepsCarriers
<1>7. CASE DeleteJobs
  <2>1. \A k \in Jobs : Active(k)' => status'[k] = status[k]
    BY <1>7 DEF DeleteJobs, Active, ActiveStatuses
  <2>2. QED
    BY <1>7, <2>1, QuietKeepsCarriers DEF DeleteJobs
<1>8. ASSUME UNCHANGED <<status, issued, broker, workerVars, sent, abandoned>>
      PROVE  ActiveHasCarrier'
  BY <1>8, QuietKeepsCarriers
<1>9. ASSUME NEW j \in Jobs, BecomeStale(j) \/ RetryRead(j) PROVE ActiveHasCarrier'
  BY <1>8, <1>9 DEF BecomeStale, RetryRead, jobVars, outboxVars
<1>10. ASSUME NEW e \in EventId, BackoffElapses(e) PROVE ActiveHasCarrier'
  BY <1>8, <1>10 DEF BackoffElapses, jobVars
<1>11. CASE SweepAborts \/ RetryRefused
  BY <1>8, <1>11 DEF SweepAborts, RetryRefused, jobVars, outboxVars
<1>12. ASSUME NEW S \in SUBSET Jobs, DeleteSelect(S) PROVE ActiveHasCarrier'
  BY <1>8, <1>12 DEF DeleteSelect, jobVars, outboxVars
<1>13. CASE UNCHANGED vars
  BY <1>8, <1>13 DEF vars, jobVars, outboxVars
<1>14. QED
  BY <1>1, <1>3, <1>4, <1>5, <1>6, <1>7, <1>9, <1>10, <1>11, <1>12, <1>13 DEF Next

\* No job is lost between the tables and the broker: an active job that no
\* task has abandoned always has an unsent event, an acceptable message or a
\* worker that will move it on, whatever is lost, duplicated, swept or
\* retried, and whatever the settings are.
THEOREM NoJobLost == Spec => []ActiveHasCarrier
<1>1. Init => ActiveHasCarrier
  BY DEF Init, ActiveHasCarrier, Active, ActiveStatuses
<1>2. Init => OutboxInv
  BY OutboxInit
<1>3. QED
  BY <1>1, <1>2, OutboxStep, CarrierStep, TypeCorrect, PTL DEF Spec

-----------------------------------------------------------------------------
(* Refinement: JobQueue implements JobLifecycle.                           *)

\* Jobs selected for deletion have existed; nothing makes a row unborn.
DeletingExisted == \A j \in deleting : status[j] # "ABSENT"

Abstract == [j \in Jobs |-> LifecycleState(j)]

\* The abstract state tells apart exactly the four kinds of status.
LEMMA AbstractState ==
    ASSUME TypeOK, NEW j \in Jobs
    PROVE  /\ LifecycleState(j) \in {"none", "removed", "open", "closed"}
           /\ LifecycleState(j) = "none" <=> status[j] = "ABSENT"
           /\ LifecycleState(j) = "removed" <=> status[j] = "DELETED"
           /\ LifecycleState(j) = "open" <=> Active(j)
           /\ LifecycleState(j) = "closed" <=> Terminal(j)
BY DEF TypeOK, JobStatus, LifecycleState, Active, Terminal, ActiveStatuses, TerminalStatuses

\* A step that changes no status is a stutter.
LEMMA SameStatusStutters ==
    ASSUME status' = status
    PROVE  Abstract' = Abstract
BY DEF Abstract, LifecycleState, Active, Terminal

\* A write to one row accepts, closes or reopens its job or is a stutter.
LEMMA WriteRefines ==
    ASSUME TypeOK, TypeOK', NEW j \in Jobs, NEW s \in ActiveStatuses \cup TerminalStatuses,
           WriteStatus(j, s),
           s \in ActiveStatuses => Active(j) \/ IndexAllows(j),
           Exists(j) \/ (status[j] = "ABSENT" /\ s \in ActiveStatuses)
    PROVE  [Lifecycle!Next]_Abstract
<1> DEFINE L(k) == LifecycleState(k)
<1>1. status'[j] = s /\ \A k \in Jobs \ {j} : status'[k] = status[k]
  BY DEF TypeOK, WriteStatus
<1>2. \A k \in Jobs \ {j} : L(k)' = L(k)
  BY <1>1 DEF LifecycleState, Active, Terminal
<1>3. L(j)' = IF s \in ActiveStatuses THEN "open" ELSE "closed"
  BY <1>1 DEF LifecycleState, Active, Terminal, ActiveStatuses, TerminalStatuses
<1>4. /\ L(j) = "open" <=> Active(j)
      /\ L(j) = "closed" <=> Terminal(j)
      /\ L(j) = "none" <=> status[j] = "ABSENT"
      /\ Active(j) \/ Terminal(j) \/ status[j] = "ABSENT"
  BY AbstractState DEF TypeOK, JobStatus, Active, Terminal, Exists
<1>5. IndexAllows(j) => \A k \in Jobs \ {j} : DocOf[k] = DocOf[j] => L(k) # "open"
  BY AbstractState DEF IndexAllows, IndexedStatuses, Active
<1> HIDE DEF L
<1>6. Abstract = [k \in Jobs |-> L(k)] /\ Abstract' = [k \in Jobs |-> L(k)']
  BY DEF Abstract, L
<1>7. Abstract' = [Abstract EXCEPT ![j] = L(j)']
  BY <1>2, <1>6
<1>8. CASE L(j)' = L(j)
  BY <1>6, <1>7, <1>8
<1>9. CASE L(j)' # L(j)
  <2>1. CASE s \in ActiveStatuses
    <3>1. L(j)' = "open" /\ L(j) \in {"none", "closed"} /\ IndexAllows(j)
      BY <1>3, <1>4, <1>9, <2>1
    <3>2. Lifecycle!Alone(j)
      BY <1>5, <1>6, <3>1 DEF Lifecycle!Alone, Abstract
    <3>3. Lifecycle!Accept(j) \/ Lifecycle!Reopen(j)
      BY <1>6, <1>7, <3>1, <3>2 DEF Lifecycle!Accept, Lifecycle!Reopen, Abstract
    <3>4. QED
      BY <3>3 DEF Lifecycle!Next
  <2>2. CASE s \notin ActiveStatuses
    <3>1. L(j)' = "closed" /\ L(j) = "open"
      BY <1>3, <1>4, <1>9, <2>2 DEF Exists
    <3>2. Lifecycle!Close(j)
      BY <1>6, <1>7, <3>1 DEF Lifecycle!Close, Abstract
    <3>3. QED
      BY <3>2 DEF Lifecycle!Next
  <2>3. QED
    BY <2>1, <2>2
<1>10. QED
  BY <1>8, <1>9

\* A step of a worker opens, closes or leaves its job.
LEMMA WorkerRefines ==
    ASSUME TypeOK, TypeOK', NEW w \in Workers, WorkerStep(w)
    PROVE  [Lifecycle!Next]_Abstract
<1>1. CASE ClaimJob(w)
  <2>1. held[w].job \in Jobs /\ Active(held[w].job)
    BY <1>1, HeldMessage DEF ClaimJob, Claimable, Active, ActiveStatuses
  <2>2. Exists(held[w].job)
    BY <2>1 DEF Exists, Active, ActiveStatuses
  <2>3. QED
    BY <1>1, <2>1, <2>2, WriteRefines DEF ClaimJob, ActiveStatuses
<1>2. CASE StartProcess(w)
  <2>1. held[w].job \in Jobs
    BY <1>2, HeldMessage DEF StartProcess
  <2>2. QED
    BY <1>2, <2>1, WriteRefines DEF StartProcess, ActiveStatuses
<1>3. CASE Complete(w)
  <2>1. held[w].job \in Jobs
    BY <1>3, HeldMessage DEF Complete
  <2>2. PICK s \in {"COMPLETED", "COMPLETED_WITH_WARNINGS"} : WriteStatus(held[w].job, s)
    BY <1>3 DEF Complete
  <2>3. s \in TerminalStatuses /\ s \notin ActiveStatuses
    BY DEF TerminalStatuses, ActiveStatuses
  <2>4. QED
    BY <1>3, <2>1, <2>2, <2>3, WriteRefines DEF Complete
<1>4. CASE Fail(w)
  <2>1. held[w].job \in Jobs
    BY <1>4, HeldMessage DEF Fail
  <2>2. QED
    BY <1>4, <2>1, WriteRefines DEF Fail, TerminalStatuses, ActiveStatuses
<1>5. CASE MarkRetryWaiting(w)
  <2>1. held[w].job \in Jobs
    BY <1>5, HeldMessage DEF MarkRetryWaiting
  <2>2. CASE Exists(held[w].job)
    BY <1>5, <2>1, <2>2, WriteRefines DEF MarkRetryWaiting, ActiveStatuses
  <2>3. CASE ~Exists(held[w].job)
    BY <1>5, <2>3, SameStatusStutters DEF MarkRetryWaiting, jobVars
  <2>4. QED
    BY <2>2, <2>3
<1>6. CASE ~(\/ ClaimJob(w) \/ StartProcess(w) \/ Complete(w) \/ Fail(w) \/ MarkRetryWaiting(w))
  <2>1. status' = status
    BY <1>6
    DEF WorkerStep, Receive, SkipJob, StartRaises, Heartbeat, RowGone, RetryConflicts, SendRetry,
        Ack, WorkerLost, TaskAborts, jobVars
  <2>2. QED
    BY <2>1, SameStatusStutters
<1>7. QED
  BY <1>1, <1>2, <1>3, <1>4, <1>5, <1>6

\* Deleting the selected rows removes their jobs at once.
LEMMA DeleteRefines ==
    ASSUME TypeOK, TypeOK', DeletingExisted, DeleteJobs
    PROVE  [Lifecycle!Next]_Abstract
<1>1. \A j \in Jobs : LifecycleState(j)' = IF j \in deleting THEN "removed" ELSE LifecycleState(j)
  <2> SUFFICES ASSUME NEW j \in Jobs
               PROVE  LifecycleState(j)'
                        = IF j \in deleting THEN "removed" ELSE LifecycleState(j)
    OBVIOUS
  <2>1. status'[j] = IF j \in deleting THEN "DELETED" ELSE status[j]
    BY DEF DeleteJobs
  <2>2. CASE j \in deleting
    BY <2>1, <2>2
    DEF LifecycleState, Active, Terminal, ActiveStatuses, TerminalStatuses
  <2>3. CASE j \notin deleting
    <3>1. status'[j] = status[j]
      BY <2>1, <2>3
    <3>2. LifecycleState(j)' = LifecycleState(j)
      BY <3>1 DEF LifecycleState, Active, Terminal
    <3>3. QED
      BY <2>3, <3>2
  <2>4. QED
    BY <2>2, <2>3
<1>2. \A j \in deleting : LifecycleState(j) # "none"
  BY AbstractState DEF DeletingExisted, TypeOK
<1>3. deleting \in SUBSET Jobs
  BY DEF TypeOK
<1>4. Lifecycle!Remove(deleting)
  BY <1>1, <1>2, <1>3 DEF Lifecycle!Remove, Abstract
<1>5. QED
  BY <1>3, <1>4 DEF Lifecycle!Next

\* Every step of the delivery core is a step of the lifecycle or a stutter.
LEMMA StepRefines ==
    TypeOK /\ TypeOK' /\ DeletingExisted /\ [Next]_vars => [Lifecycle!Next]_Abstract
<1> SUFFICES ASSUME TypeOK, TypeOK', DeletingExisted, [Next]_vars
             PROVE  [Lifecycle!Next]_Abstract
  OBVIOUS
<1>1. "QUEUED" \in ActiveStatuses /\ "FAILED" \in TerminalStatuses \ ActiveStatuses
  BY DEF ActiveStatuses, TerminalStatuses
<1>2. ASSUME NEW j \in Jobs, AcceptWebhook(j) PROVE [Lifecycle!Next]_Abstract
  BY <1>1, <1>2, WriteRefines DEF AcceptWebhook, AddJobToOutbox
<1>3. ASSUME NEW j \in Jobs, SweepJob(j), Exists(j),
             retryCount[j] < JobMaxRetries => Active(j) \/ IndexAllows(j)
      PROVE  [Lifecycle!Next]_Abstract
  BY <1>1, <1>3, WriteRefines DEF SweepJob, AddJobToOutbox
<1>4. ASSUME NEW j \in Jobs, SweepFirst(j) PROVE [Lifecycle!Next]_Abstract
  <2>1. Active(j) /\ Exists(j)
    BY <1>4 DEF SweepFirst, SweepCandidates, Active, ActiveStatuses, Exists
  <2>2. QED
    BY <1>3, <1>4, <2>1 DEF SweepFirst
<1>5. ASSUME NEW j \in Jobs, SweepNext(j) PROVE [Lifecycle!Next]_Abstract
  BY <1>3, <1>5 DEF SweepNext
<1>6. CASE RetryWrite
  <2>1. admin.job \in Jobs
    BY <1>6 DEF TypeOK, RetryWrite, AdminRequest
  <2>2. QED
    BY <1>1, <1>6, <2>1, WriteRefines DEF RetryWrite, AddJobToOutbox
<1>7. ASSUME NEW w \in Workers, WorkerStep(w) PROVE [Lifecycle!Next]_Abstract
  BY <1>7, WorkerRefines
<1>8. CASE DeleteJobs
  BY <1>8, DeleteRefines
<1>9. ASSUME NEW p \in Publishers, PublisherStep(p) PROVE status' = status
  BY <1>9
  DEF PublisherStep, ClaimEvent, SendEvent, MarkPublished, SendFails, PublisherCrash, jobVars
<1>10. ASSUME NEW j \in Jobs, BecomeStale(j) \/ RetryRead(j) PROVE status' = status
  BY <1>10 DEF BecomeStale, RetryRead, jobVars
<1>11. ASSUME NEW e \in EventId, BackoffElapses(e) PROVE status' = status
  BY <1>11 DEF BackoffElapses, jobVars
<1>12. ASSUME SweepAborts \/ RetryRefused PROVE status' = status
  BY <1>12 DEF SweepAborts, RetryRefused, jobVars
<1>13. ASSUME NEW S \in SUBSET Jobs, DeleteSelect(S) PROVE status' = status
  BY <1>13 DEF DeleteSelect, jobVars
<1>14. ASSUME UNCHANGED vars PROVE status' = status
  BY <1>14 DEF vars, jobVars
<1>15. QED
  BY <1>2, <1>4, <1>5, <1>6, <1>7, <1>8, <1>9, <1>10, <1>11, <1>12, <1>13, <1>14,
     SameStatusStutters
  DEF Next

\* No step makes a row unborn, and only rows that exist are selected.
LEMMA DeletingStep == TypeOK /\ DeletingExisted /\ [Next]_vars => DeletingExisted'
<1> SUFFICES ASSUME TypeOK, DeletingExisted, [Next]_vars PROVE DeletingExisted'
  OBVIOUS
<1>1. ASSUME NEW j \in Jobs, NEW s \in ActiveStatuses \cup TerminalStatuses, WriteStatus(j, s)
      PROVE  \A k \in Jobs : status[k] # "ABSENT" => status'[k] # "ABSENT"
  BY <1>1 DEF TypeOK, WriteStatus, ActiveStatuses, TerminalStatuses
<1>2. "QUEUED" \in ActiveStatuses /\ "RUNNING" \in ActiveStatuses
      /\ "RETRY_WAITING" \in ActiveStatuses /\ "FAILED" \in TerminalStatuses
      /\ {"COMPLETED", "COMPLETED_WITH_WARNINGS"} \subseteq TerminalStatuses
  BY DEF ActiveStatuses, TerminalStatuses
<1>3. ASSUME deleting' = deleting,
             \A k \in Jobs : status[k] # "ABSENT" => status'[k] # "ABSENT"
      PROVE  DeletingExisted'
  BY <1>3 DEF DeletingExisted, TypeOK
<1>4. ASSUME NEW j \in Jobs, AcceptWebhook(j) \/ SweepFirst(j) \/ SweepNext(j)
      PROVE  DeletingExisted'
  BY <1>1, <1>2, <1>3, <1>4
  DEF AcceptWebhook, SweepFirst, SweepNext, SweepJob, AddJobToOutbox, otherVars
<1>5. CASE RetryWrite
  <2>1. admin.job \in Jobs
    BY <1>5 DEF TypeOK, RetryWrite, AdminRequest
  <2>2. QED
    BY <1>1, <1>2, <1>3, <1>5, <2>1 DEF RetryWrite, AddJobToOutbox
<1>6. ASSUME NEW w \in Workers, WorkerStep(w) PROVE DeletingExisted'
  <2>1. deleting' = deleting
    BY <1>6
    DEF WorkerStep, Receive, ClaimJob, SkipJob, StartProcess, StartRaises, Heartbeat, Complete,
        Fail, RowGone, MarkRetryWaiting, RetryConflicts, SendRetry, Ack, WorkerLost, TaskAborts,
        otherVars
  <2>2. CASE \/ ClaimJob(w) \/ StartProcess(w) \/ Complete(w) \/ Fail(w) \/ MarkRetryWaiting(w)
    <3>1. held[w].job \in Jobs
      BY <2>2, HeldMessage DEF ClaimJob, StartProcess, Complete, Fail, MarkRetryWaiting
    <3>2. \/ status' = status
          \/ \E s \in ActiveStatuses \cup TerminalStatuses : WriteStatus(held[w].job, s)
      BY <1>2, <2>2 DEF ClaimJob, StartProcess, Complete, Fail, MarkRetryWaiting, jobVars
    <3>3. QED
      BY <1>1, <1>3, <2>1, <3>1, <3>2
  <2>3. CASE ~(\/ ClaimJob(w) \/ StartProcess(w) \/ Complete(w) \/ Fail(w) \/ MarkRetryWaiting(w))
    <3>1. status' = status
      BY <1>6, <2>3
      DEF WorkerStep, Receive, SkipJob, StartRaises, Heartbeat, RowGone, RetryConflicts,
          SendRetry, Ack, WorkerLost, TaskAborts, jobVars
    <3>2. QED
      BY <1>3, <2>1, <3>1
  <2>4. QED
    BY <2>2, <2>3
<1>7. CASE DeleteJobs
  BY <1>7 DEF DeleteJobs, DeletingExisted
<1>8. ASSUME NEW S \in SUBSET Jobs, DeleteSelect(S) PROVE DeletingExisted'
  BY <1>8 DEF DeleteSelect, DeletingExisted, Terminal, TerminalStatuses, jobVars
<1>9. ASSUME status' = status, deleting' = deleting PROVE DeletingExisted'
  BY <1>3, <1>9
<1>10. ASSUME NEW p \in Publishers, PublisherStep(p) PROVE DeletingExisted'
  BY <1>9, <1>10
  DEF PublisherStep, ClaimEvent, SendEvent, MarkPublished, SendFails, PublisherCrash, jobVars,
      otherVars
<1>11. ASSUME NEW j \in Jobs, BecomeStale(j) \/ RetryRead(j) PROVE DeletingExisted'
  BY <1>9, <1>11 DEF BecomeStale, RetryRead, jobVars, otherVars
<1>12. ASSUME NEW e \in EventId, BackoffElapses(e) PROVE DeletingExisted'
  BY <1>9, <1>12 DEF BackoffElapses, jobVars, otherVars
<1>13. CASE SweepAborts \/ RetryRefused
  BY <1>9, <1>13 DEF SweepAborts, RetryRefused, jobVars
<1>14. CASE UNCHANGED vars
  BY <1>9, <1>14 DEF vars, jobVars, otherVars
<1>15. QED
  BY <1>4, <1>5, <1>6, <1>7, <1>8, <1>10, <1>11, <1>12, <1>13, <1>14 DEF Next

\* The delivery core implements the life cycle the rest of the system relies
\* on: whatever the five actors do, a job is accepted once, opened and closed
\* one at a time per document, and never comes back after its removal.
THEOREM Implementation == Spec => ImplementsLifecycle
<1>1. Init => Lifecycle!Init
  <2> SUFFICES ASSUME Init PROVE \A j \in Jobs : LifecycleState(j) = "none"
    BY DEF Lifecycle!Init
  <2>1. TypeOK /\ \A j \in Jobs : status[j] = "ABSENT"
    BY TypeInit DEF Init
  <2>2. QED
    BY <2>1, AbstractState
<1>2. Init => DeletingExisted
  BY DEF Init, DeletingExisted
<1>3. TypeOK /\ TypeOK' /\ DeletingExisted /\ [Next]_vars
         => [Lifecycle!Next]_([j \in Jobs |-> LifecycleState(j)])
  BY StepRefines DEF Abstract
<1>4. QED
  BY <1>1, <1>2, <1>3, DeletingStep, TypeCorrect, PTL
  DEF Spec, ImplementsLifecycle, Lifecycle!Spec

-----------------------------------------------------------------------------
(* Duplicate deliveries.                                                   *)

\* Job j has one event at most and was neither retried nor requeued.
FirstAttempt(j) == issued[j] <= 1 /\ retryCount[j] = 0

\* On its first attempt a job never waits for a retry, no worker processes it
\* before it is claimed, and of two workers one had its message redelivered.
OneClaim ==
    \A j \in Jobs : FirstAttempt(j) =>
        /\ status[j] # "RETRY_WAITING"
        /\ status[j] \in {"ABSENT", "QUEUED"} => \A w \in Workers : ~Processing(w, j)
        /\ \A v, w \in Workers :
              v # w /\ Processing(v, j) /\ Processing(w, j)
              => held[v].redelivered \/ held[w].redelivered

\* A step that leaves or makes j a job on its first attempt.
FirstStep(j) ==
    /\ FirstAttempt(j)
    /\ \/ status'[j] = status[j]
       \/ status[j] = "ABSENT" /\ status'[j] = "QUEUED"
       \/ status'[j] \in {"RUNNING", "DELETED"} \cup TerminalStatuses

\* add_job_to_outbox leaves the other jobs alone.
LEMMA IssueElsewhere ==
    ASSUME TypeOK, NEW k \in Jobs, AddJobToOutbox(k), NEW j \in Jobs \ {k}
    PROVE  issued'[j] = issued[j] /\ status'[j] = status[j]
BY DEF TypeOK, AddJobToOutbox, WriteStatus

\* A job cannot return to its first attempt: events are only added, and every
\* requeue, retry and sweep counts.
LEMMA RowsOnFirstAttempt ==
    ASSUME TypeOK, [Next]_vars, NEW j \in Jobs, FirstAttempt(j)'
    PROVE  FirstStep(j)
<1> USE JobQueueAssumption
<1>0. issued'[j] <= 1 /\ retryCount'[j] = 0 /\ issued[j] \in Nat /\ retryCount[j] \in Nat
  BY DEF FirstAttempt, TypeOK
<1>1. ASSUME NEW k \in Jobs, AcceptWebhook(k) PROVE FirstStep(j)
  <2>1. AddJobToOutbox(k) /\ status[k] = "ABSENT" /\ retryCount' = retryCount
    BY <1>1 DEF AcceptWebhook
  <2>2. issued'[k] = issued[k] + 1 /\ status'[k] = "QUEUED"
    BY <2>1 DEF AddJobToOutbox, WriteStatus, TypeOK
  <2>3. CASE j = k
    BY <1>0, <2>1, <2>2, <2>3 DEF FirstStep, FirstAttempt
  <2>4. CASE j # k
    BY <1>0, <2>1, <2>4, IssueElsewhere DEF FirstStep, FirstAttempt
  <2> QED BY <2>3, <2>4
<1>2. ASSUME NEW k \in Jobs, SweepJob(k) PROVE FirstStep(j)
  <2>1. CASE retryCount[k] < JobMaxRetries
    <3>1. AddJobToOutbox(k) /\ retryCount' = [retryCount EXCEPT ![k] = @ + 1]
      BY <1>2, <2>1 DEF SweepJob
    <3>2. j # k
      BY <1>0, <3>1 DEF TypeOK
    <3>3. retryCount'[j] = retryCount[j]
      BY <3>1, <3>2 DEF TypeOK
    <3> QED BY <1>0, <3>1, <3>2, <3>3, IssueElsewhere DEF FirstStep, FirstAttempt
  <2>2. CASE ~(retryCount[k] < JobMaxRetries)
    BY <1>0, <1>2, <2>2
    DEF SweepJob, WriteStatus, outboxVars, TypeOK, FirstStep, FirstAttempt, TerminalStatuses
  <2> QED BY <2>1, <2>2
<1>3. CASE RetryWrite
  <2>1. /\ AddJobToOutbox(admin.job) /\ admin.job \in Jobs /\ admin.retryCount \in Nat
        /\ retryCount' = [retryCount EXCEPT ![admin.job] = admin.retryCount + 1]
    BY <1>3 DEF RetryWrite, TypeOK, AdminRequest
  <2>2. j # admin.job
    BY <1>0, <2>1 DEF TypeOK
  <2>3. retryCount'[j] = retryCount[j]
    BY <2>1, <2>2 DEF TypeOK
  <2> QED BY <1>0, <2>1, <2>2, <2>3, IssueElsewhere DEF FirstStep, FirstAttempt
<1>4. ASSUME NEW w \in Workers, MarkRetryWaiting(w) PROVE FirstStep(j)
  <2>1. held[w].job \in Jobs /\ held[w].retries \in Nat /\ issued' = issued
    BY <1>4, HeldMessage DEF MarkRetryWaiting, outboxVars
  <2>2. CASE UNCHANGED jobVars
    BY <1>0, <2>1, <2>2 DEF FirstStep, FirstAttempt, jobVars
  <2>3. CASE /\ WriteStatus(held[w].job, "RETRY_WAITING")
             /\ retryCount' = [retryCount EXCEPT ![held[w].job] = held[w].retries + 1]
    <3>1. j # held[w].job
      BY <1>0, <2>1, <2>3 DEF TypeOK
    <3> QED BY <1>0, <2>1, <2>3, <3>1 DEF FirstStep, FirstAttempt, WriteStatus, TypeOK
  <2> QED BY <1>4, <2>2, <2>3 DEF MarkRetryWaiting
<1>5. ASSUME NEW w \in Workers, WorkerStep(w), ~MarkRetryWaiting(w) PROVE FirstStep(j)
  <2>1. issued' = issued /\ retryCount' = retryCount
    BY <1>5
    DEF WorkerStep, Receive, ClaimJob, SkipJob, StartProcess, StartRaises, Heartbeat, Complete,
        Fail, RowGone, RetryConflicts, SendRetry, Ack, WorkerLost, TaskAborts, jobVars, outboxVars
  <2>2. \/ status' = status
        \/ \E s \in {"RUNNING"} \cup TerminalStatuses : WriteStatus(held[w].job, s)
    BY <1>5
    DEF WorkerStep, Receive, ClaimJob, SkipJob, StartProcess, StartRaises, Heartbeat, Complete,
        Fail, RowGone, RetryConflicts, SendRetry, Ack, WorkerLost, TaskAborts, jobVars,
        TerminalStatuses
  <2> QED BY <1>0, <2>1, <2>2 DEF FirstStep, FirstAttempt, WriteStatus, TypeOK
<1>6. ASSUME NEW p \in Publishers, PublisherStep(p) PROVE FirstStep(j)
  <2>1. UNCHANGED <<jobVars, issued>>
    BY <1>6
    DEF PublisherStep, ClaimEvent, SendEvent, MarkPublished, SendFails, PublisherCrash, outboxVars
  <2> QED BY <1>0, <2>1 DEF FirstStep, FirstAttempt, jobVars
<1>7. CASE DeleteJobs
  BY <1>0, <1>7 DEF DeleteJobs, FirstStep, FirstAttempt, TypeOK
<1>8. ASSUME UNCHANGED <<status, retryCount, issued>> PROVE FirstStep(j)
  BY <1>0, <1>8 DEF FirstStep, FirstAttempt
<1>9. ASSUME NEW k \in Jobs, BecomeStale(k) \/ RetryRead(k) PROVE FirstStep(j)
  BY <1>8, <1>9 DEF BecomeStale, RetryRead, jobVars, outboxVars
<1>10. ASSUME NEW e \in EventId, BackoffElapses(e) PROVE FirstStep(j)
  BY <1>8, <1>10 DEF BackoffElapses, jobVars
<1>11. CASE SweepAborts \/ RetryRefused
  BY <1>8, <1>11 DEF SweepAborts, RetryRefused, jobVars, outboxVars
<1>12. ASSUME NEW S \in SUBSET Jobs, DeleteSelect(S) PROVE FirstStep(j)
  BY <1>8, <1>12 DEF DeleteSelect, jobVars, outboxVars
<1>13. CASE UNCHANGED vars
  BY <1>8, <1>13 DEF vars, jobVars, outboxVars
<1> QED
  BY <1>1, <1>2, <1>3, <1>4, <1>5, <1>6, <1>7, <1>9, <1>10, <1>11, <1>12, <1>13
  DEF Next, SweepFirst, SweepNext

\* A worker comes to process a job only by claiming it.
LEMMA ProcessingBegins ==
    ASSUME TypeOK, [Next]_vars, NEW w \in Workers, NEW j \in Jobs, Processing(w, j)'
    PROVE  /\ held'[w] = held[w]
           /\ \/ Processing(w, j)
              \/ /\ ClaimJob(w) /\ held[w].job = j
                 /\ \A v \in Workers \ {w} : Processing(v, j)' => Processing(v, j)
<1>1. CASE \A v \in Workers : ~WorkerStep(v)
  BY <1>1, OthersKeepWorkers DEF Processing, workerVars
<1>2. ASSUME NEW u \in Workers, WorkerStep(u), u # w
      PROVE  held'[w] = held[w] /\ Processing(w, j)
  BY <1>2
  DEF TypeOK, WorkerStep, Receive, ClaimJob, SkipJob, StartProcess, StartRaises, Heartbeat,
      Complete, Fail, RowGone, MarkRetryWaiting, RetryConflicts, SendRetry, Ack, WorkerLost,
      TaskAborts, WorkerTo, workerVars, Processing
<1>3. CASE ClaimJob(w)
  BY <1>3 DEF ClaimJob, WorkerTo, Processing, TypeOK
<1>4. CASE StartProcess(w) \/ Heartbeat(w)
  BY <1>4 DEF StartProcess, Heartbeat, WorkerTo, Processing, workerVars
<1>5. ASSUME WorkerStep(w), ~ClaimJob(w), ~StartProcess(w), ~Heartbeat(w)
      PROVE  workerStage'[w] \notin {"claimed", "running"}
  BY <1>5
  DEF TypeOK, WorkerStep, Receive, SkipJob, StartRaises, Complete, Fail, RowGone,
      MarkRetryWaiting, RetryConflicts, SendRetry, Ack, WorkerLost, TaskAborts, WorkerTo
<1> QED
  BY <1>1, <1>2, <1>3, <1>4, <1>5 DEF Processing

\* A first attempt is claimed once, but for redelivered messages.
LEMMA OneClaimStep == TypeOK /\ OneClaim /\ [Next]_vars => OneClaim'
<1> SUFFICES ASSUME TypeOK, OneClaim, [Next]_vars, NEW j \in Jobs, FirstAttempt(j)'
             PROVE  /\ status'[j] # "RETRY_WAITING"
                    /\ status'[j] \in {"ABSENT", "QUEUED"} => \A w \in Workers : ~Processing(w, j)'
                    /\ \A v, w \in Workers :
                          v # w /\ Processing(v, j)' /\ Processing(w, j)'
                          => held'[v].redelivered \/ held'[w].redelivered
  BY DEF OneClaim, FirstAttempt, Processing
<1>1. FirstStep(j) /\ FirstAttempt(j)
  BY RowsOnFirstAttempt DEF FirstStep
<1>2. /\ status[j] # "RETRY_WAITING"
      /\ status[j] \in {"ABSENT", "QUEUED"} => \A w \in Workers : ~Processing(w, j)
  BY <1>1 DEF OneClaim
<1>3. status'[j] # "RETRY_WAITING"
  BY <1>1, <1>2 DEF FirstStep, TerminalStatuses
<1>4. ASSUME status'[j] \in {"ABSENT", "QUEUED"}, NEW w \in Workers, Processing(w, j)' PROVE FALSE
  <2>1. status[j] \in {"ABSENT", "QUEUED"}
    BY <1>1, <1>4 DEF FirstStep, TerminalStatuses
  <2>2. ClaimJob(w) /\ held[w].job = j
    BY <1>2, <1>4, <2>1, ProcessingBegins
  <2> QED BY <1>4, <2>2 DEF ClaimJob, WriteStatus, TypeOK
<1>5. ASSUME NEW v \in Workers, NEW w \in Workers, v # w, Processing(v, j)', Processing(w, j)',
             ClaimJob(w), held[w].job = j
      PROVE  held'[w].redelivered
  <2>1. Processing(v, j)
    BY <1>5, ProcessingBegins DEF ClaimJob, Processing, WorkerTo, TypeOK
  <2>2. status[j] = "RUNNING"
    BY <1>2, <1>5, <2>1 DEF ClaimJob, Claimable
  <2>3. held[w].redelivered
    BY <1>5, <2>2 DEF ClaimJob, Claimable
  <2> QED BY <1>5, <2>3, ProcessingBegins
<1>6. ASSUME NEW v \in Workers, NEW w \in Workers, v # w, Processing(v, j)', Processing(w, j)'
      PROVE  held'[v].redelivered \/ held'[w].redelivered
  <2>1. CASE Processing(v, j) /\ Processing(w, j)
    BY <1>1, <1>6, <2>1, ProcessingBegins DEF OneClaim
  <2>2. CASE ClaimJob(w) /\ held[w].job = j
    BY <1>5, <1>6, <2>2
  <2>3. CASE ClaimJob(v) /\ held[v].job = j
    BY <1>5, <1>6, <2>3
  <2> QED BY <1>6, <2>1, <2>2, <2>3, ProcessingBegins
<1> QED
  BY <1>3, <1>4, <1>6

\* "doppelte Celery-Zustellungen werden idempotent verworfen" (docs/security.md),
\* as far as it holds: whatever publishers send twice, two workers process the
\* first attempt of a job only when the broker has redelivered a message.
THEOREM DuplicatesAreDropped == Spec => []DuplicatesDropped
<1>1. Init => OneClaim
  BY DEF Init, OneClaim, Processing
<1>2. OneClaim => DuplicatesDropped
  BY DEF OneClaim, DuplicatesDropped, FirstAttempt
<1> QED
  BY <1>1, <1>2, OneClaimStep, TypeCorrect, PTL DEF Spec
=============================================================================
