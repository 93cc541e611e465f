---------------------------- MODULE JobRetention ----------------------------
(***************************************************************************)
(* The deletion of finished jobs with their documents                      *)
(* (src/core/jobs/retention.py), by the sweeper after the retention time   *)
(* and by administrators, statement by statement, against the requests     *)
(* that use the same rows meanwhile: a webhook that creates a job, a retry *)
(* and the worker that runs the retried job.                               *)
(*                                                                         *)
(* The tables are those of PostgreSQL at its default isolation: a          *)
(* statement sees what is committed when it begins; a row that another     *)
(* transaction has deleted, or a document another transaction refers to    *)
(* with a new job, is waited for; the wait does not evaluate the condition *)
(* of the statement again.  Deleting a document deletes its jobs           *)
(* (ON DELETE CASCADE), while an audit entry keeps its job from being      *)
(* deleted.  Events of the outbox and phases go with their job.            *)
(***************************************************************************)
EXTENDS FiniteSets, Naturals

CONSTANTS
  Jobs,          \* identities of jobs, each used once
  Docs,          \* documents of Paperless
  DocOf,         \* the document of each job
  MaxDeletions,  \* deletions by the administrator
  MaxTroubles    \* retries by the administrator and transactions that die

ASSUME DocOfAssumption == DocOf \in [Jobs -> Docs]
ASSUME BoundsAssumption == {MaxDeletions, MaxTroubles} \subseteq Nat

Deleters == {"retention", "dashboard"}

VARIABLES
  documents,  \* rows of documents
  status,     \* rows of jobs: none, active, finished, expired, deleted
  audited,    \* jobs that audit entries refer to
  deletion,   \* the transaction of each deleter
  intake,     \* the transaction of create_from_event
  retrying,   \* the job an administrator's request has read
  budget,     \* what may still happen
  overlapped  \* history: two deletions were under way at the same time

vars == <<documents, status, audited, deletion, intake, retrying, budget, overlapped>>

NoJob == "no job"

\* jobs are the selected ones, docs their documents, victims the documents
\* found without jobs; seen are the jobs of that moment, gone the rows deleted so
\* far, late the jobs with audit entries newer than those cleared.
NoDeletion == [phase |-> "idle", jobs |-> {}, docs |-> {}, victims |-> {},
               seen |-> {}, gone |-> {}, late |-> {}]

NoIntake == [phase |-> "idle", job |-> NoJob, new |-> FALSE]

Exists(j) == status[j] \in {"active", "finished", "expired"}
Terminal(j) == status[j] \in {"finished", "expired"}
JobsOf(d) == {j \in Jobs : DocOf[j] = d}
ActiveJobs(d) == {j \in JobsOf(d) : status[j] = "active"}

\* Rows that a transaction has deleted and not committed.
LockedJobs == UNION {deletion[x].gone : x \in Deleters}
LockedDocs(phases) ==
  UNION {IF deletion[x].phase \in phases THEN deletion[x].victims ELSE {} : x \in Deleters}

Spend(kind) == budget[kind] > 0 /\ budget' = [budget EXCEPT ![kind] = @ - 1]

Init ==
  /\ documents = {}
  /\ status = [j \in Jobs |-> "none"]
  /\ audited = {}
  /\ deletion = [x \in Deleters |-> NoDeletion]
  /\ intake = NoIntake
  /\ retrying = NoJob
  /\ budget = [kind \in {"deletions", "troubles"} |->
                 IF kind = "deletions" THEN MaxDeletions ELSE MaxTroubles]
  /\ overlapped = FALSE

-----------------------------------------------------------------------------
(* create_from_event: the document is read or inserted, then the job.  An  *)
(* active job of the document is answered instead; nothing changes.        *)

FindDocument(j) ==
  /\ intake.phase = "idle"
  /\ status[j] = "none"
  /\ ActiveJobs(DocOf[j]) = {}
  /\ intake' = [phase |-> "found", job |-> j, new |-> DocOf[j] \notin documents]
  /\ UNCHANGED <<documents, status, audited, deletion, retrying, budget, overlapped>>

\* The foreign key of the new job waits for a deletion of the document.
InsertJob ==
  /\ intake.phase = "found"
  /\ intake.new \/ DocOf[intake.job] \in documents
  /\ intake.new \/ DocOf[intake.job] \notin LockedDocs({"emptied"})
  /\ ActiveJobs(DocOf[intake.job]) = {}
  /\ intake' = [intake EXCEPT !.phase = "inserted"]
  /\ UNCHANGED <<documents, status, audited, deletion, retrying, budget, overlapped>>

\* A deletion that still means an earlier row of the document does not touch the
\* new one.
CommitJob ==
  /\ intake.phase = "inserted"
  /\ documents' = documents \cup {DocOf[intake.job]}
  /\ status' = [status EXCEPT ![intake.job] = "active"]
  /\ deletion' = [x \in Deleters |->
       IF intake.new
       THEN [deletion[x] EXCEPT !.docs = @ \ {DocOf[intake.job]},
                                !.victims = @ \ {DocOf[intake.job]}]
       ELSE deletion[x]]
  /\ intake' = NoIntake
  /\ UNCHANGED <<audited, retrying, budget, overlapped>>

\* The document is gone or a retry has made another job active: answer 503.
IntakeRefused ==
  /\ intake.phase = "found"
  /\ \/ ~intake.new /\ DocOf[intake.job] \notin documents
     \/ ActiveJobs(DocOf[intake.job]) # {}
  /\ intake' = NoIntake
  /\ UNCHANGED <<documents, status, audited, deletion, retrying, budget, overlapped>>

IntakeDies ==
  /\ intake.phase # "idle"
  /\ Spend("troubles")
  /\ intake' = NoIntake
  /\ UNCHANGED <<documents, status, audited, deletion, retrying, overlapped>>

-----------------------------------------------------------------------------
(* The worker, the clock and the retry of the administrator. *)

\* A write of the run is audited in the same session.
Audit(j) ==
  /\ status[j] = "active"
  /\ j \notin LockedJobs
  /\ audited' = audited \cup {j}
  /\ deletion' = [x \in Deleters |->
       [deletion[x] EXCEPT !.late = IF deletion[x].phase \in {"idle", "selected"} THEN {}
                                    ELSE @ \cup {j}]]
  /\ <<audited, deletion>>' # <<audited, deletion>>
  /\ UNCHANGED <<documents, status, intake, retrying, budget, overlapped>>

Finish(j) ==
  /\ status[j] = "active"
  /\ j \notin LockedJobs
  /\ status' = [status EXCEPT ![j] = "finished"]
  /\ UNCHANGED <<documents, audited, deletion, intake, retrying, budget, overlapped>>

\* The retention time of a finished job is over.
Expire(j) ==
  /\ status[j] = "finished"
  /\ status' = [status EXCEPT ![j] = "expired"]
  /\ UNCHANGED <<documents, audited, deletion, intake, retrying, budget, overlapped>>

RetryRead(j) ==
  /\ retrying = NoJob
  /\ Terminal(j)
  /\ Spend("troubles")
  /\ retrying' = j
  /\ UNCHANGED <<documents, status, audited, deletion, intake, overlapped>>

\* A changed retry that does not wait for a job of the same document being inserted.
RetryWriteAtOnce ==
  /\ retrying # NoJob
  /\ Exists(retrying)
  /\ retrying \notin LockedJobs
  /\ ActiveJobs(DocOf[retrying]) \subseteq {retrying}
  /\ status' = [status EXCEPT ![retrying] = "active"]
  /\ retrying' = NoJob
  /\ UNCHANGED <<documents, audited, deletion, intake, budget, overlapped>>

\* The commit waits for a deletion of the row and for a job being inserted.
RetryWrite ==
  /\ retrying # NoJob
  /\ Exists(retrying)
  /\ retrying \notin LockedJobs
  /\ ~(intake.phase = "inserted" /\ DocOf[intake.job] = DocOf[retrying])
  /\ ActiveJobs(DocOf[retrying]) \subseteq {retrying}
  /\ status' = [status EXCEPT ![retrying] = "active"]
  /\ retrying' = NoJob
  /\ UNCHANGED <<documents, audited, deletion, intake, budget, overlapped>>

RetryRefused ==
  /\ retrying # NoJob
  /\ ~Exists(retrying) \/ ~(ActiveJobs(DocOf[retrying]) \subseteq {retrying})
  /\ retrying' = NoJob
  /\ UNCHANGED <<documents, status, audited, deletion, intake, budget, overlapped>>

-----------------------------------------------------------------------------
(* A deletion: selection, the statements of delete_jobs and the commit. *)

At(x, phase) == deletion[x].phase = phase

Begin(x, selected) ==
  /\ At(x, "idle")
  /\ selected # {}
  /\ deletion' = [deletion EXCEPT ![x] =
                    [NoDeletion EXCEPT !.phase = "selected", !.jobs = selected]]
  /\ overlapped' = (overlapped \/ \E y \in Deleters \ {x} : ~At(y, "idle"))
  /\ UNCHANGED <<documents, status, audited, intake, retrying>>

\* A changed comparison that selects the jobs still within the retention time.
SelectRecent ==
  /\ Begin("retention", {j \in Jobs : status[j] = "finished"})
  /\ UNCHANGED budget

\* purge_expired_logs.
SelectExpired ==
  /\ Begin("retention", {j \in Jobs : status[j] = "expired"})
  /\ UNCHANGED budget

\* _delete_log_jobs and delete_processing_log: terminal jobs among those asked for.
SelectAsked(asked) ==
  /\ Begin("dashboard", {j \in asked : Terminal(j)})
  /\ Spend("deletions")

\* The documents are read and the audit entries let go of the jobs.
ClearAudit(x) ==
  /\ At(x, "selected")
  /\ deletion' = [deletion EXCEPT ![x].phase = "cleared",
                                  ![x].docs = {DocOf[j] : j \in {k \in deletion[x].jobs : Exists(k)}}]
  /\ UNCHANGED <<documents, status, audited, intake, retrying, budget, overlapped>>

\* The rows are deleted by their keys, whatever their status has become.
DeleteRows(x) ==
  /\ At(x, "cleared")
  /\ deletion[x].jobs \cap (LockedJobs \cup deletion[x].late) = {}
  /\ deletion' = [deletion EXCEPT ![x].phase = "deleted",
                                  ![x].gone = {j \in deletion[x].jobs : Exists(j)}]
  /\ UNCHANGED <<documents, status, audited, intake, retrying, budget, overlapped>>

\* A changed statement that counts the jobs being deleted as remaining ones.
RemainingBefore(x) == {j \in Jobs : Exists(j)}

\* The last statement begins: which of the documents have no job left?
Remaining(x) == {j \in Jobs : Exists(j)} \ deletion[x].gone

\* A changed statement without the NOT IN: every document of a deleted job.
FindEvery(x) ==
  /\ At(x, "deleted")
  /\ deletion' = [deletion EXCEPT ![x].phase = "searched",
                                  ![x].victims = deletion[x].docs,
                                  ![x].seen = Remaining(x)]
  /\ UNCHANGED <<documents, status, audited, intake, retrying, budget, overlapped>>

FindEmpty(x) ==
  /\ At(x, "deleted")
  /\ deletion' = [deletion EXCEPT ![x].phase = "searched",
                                  ![x].victims = {d \in deletion[x].docs :
                                                    JobsOf(d) \cap Remaining(x) = {}},
                                  ![x].seen = Remaining(x)]
  /\ UNCHANGED <<documents, status, audited, intake, retrying, budget, overlapped>>

\* Their deletion waits for a job being inserted and cascades to what is there.
Cascaded(x) ==
  {j \in Jobs : Exists(j) /\ DocOf[j] \in deletion[x].victims} \ deletion[x].gone

DeleteDocuments(x) ==
  /\ At(x, "searched")
  /\ ~(intake.phase = "inserted" /\ ~intake.new /\ DocOf[intake.job] \in deletion[x].victims)
  /\ deletion[x].victims \cap LockedDocs({"emptied"}) = {}
  /\ Cascaded(x) \cap (audited \cup LockedJobs) = {}
  /\ deletion' = [deletion EXCEPT ![x].phase = "emptied",
                                  ![x].gone = @ \cup Cascaded(x)]
  /\ UNCHANGED <<documents, status, audited, intake, retrying, budget, overlapped>>

CommitDeletion(x) ==
  /\ At(x, "emptied")
  /\ documents' = documents \ deletion[x].victims
  /\ status' = [j \in Jobs |-> IF j \in deletion[x].gone THEN "deleted" ELSE status[j]]
  /\ audited' = audited \ deletion[x].jobs
  /\ deletion' = [deletion EXCEPT ![x] = NoDeletion]
  /\ UNCHANGED <<intake, retrying, budget, overlapped>>

\* An audit entry that is newer than those cleared, or one of a cascaded job,
\* forbids the deletion: everything is rolled back.
DeletionForbidden(x) ==
  /\ \/ At(x, "cleared") /\ deletion[x].jobs \cap deletion[x].late # {}
     \/ At(x, "searched") /\ Cascaded(x) \cap audited # {}
  /\ deletion' = [deletion EXCEPT ![x] = NoDeletion]
  /\ UNCHANGED <<documents, status, audited, intake, retrying, budget, overlapped>>

DeletionDies(x) ==
  /\ ~At(x, "idle")
  /\ Spend("troubles")
  /\ deletion' = [deletion EXCEPT ![x] = NoDeletion]
  /\ UNCHANGED <<documents, status, audited, intake, retrying, overlapped>>

DeletionStep(x) ==
  \/ ClearAudit(x)
  \/ DeleteRows(x)
  \/ FindEmpty(x)
  \/ DeleteDocuments(x)
  \/ CommitDeletion(x)
  \/ DeletionForbidden(x)

Next ==
  \/ \E j \in Jobs : FindDocument(j) \/ Audit(j) \/ Finish(j) \/ Expire(j) \/ RetryRead(j)
  \/ InsertJob \/ CommitJob \/ IntakeRefused \/ IntakeDies
  \/ RetryWrite \/ RetryRefused
  \/ SelectExpired
  \/ \E asked \in SUBSET Jobs : SelectAsked(asked)
  \/ \E x \in Deleters : DeletionStep(x) \/ DeletionDies(x)

Spec == Init /\ [][Next]_vars

\* Requests run to their end, the worker finishes its jobs and the sweeper
\* deletes what has expired in every interval.
Fairness ==
  /\ WF_vars(InsertJob) /\ WF_vars(CommitJob) /\ WF_vars(IntakeRefused)
  /\ WF_vars(RetryWrite) /\ WF_vars(RetryRefused)
  /\ WF_vars(SelectExpired)
  /\ \A x \in Deleters : WF_vars(DeletionStep(x))
  /\ \A j \in Jobs : WF_vars(Finish(j))

FairSpec == Spec /\ Fairness

-----------------------------------------------------------------------------
\* Every statement of a deletion works on keys of the right table, jobs where it
\* deletes jobs and documents where it deletes documents (delete_jobs).
TypeOK ==
  /\ documents \subseteq Docs
  /\ status \in [Jobs -> {"none", "active", "finished", "expired", "deleted"}]
  /\ audited \subseteq Jobs
  /\ deletion \in [Deleters ->
       [phase : {"idle", "selected", "cleared", "deleted", "searched", "emptied"},
        jobs : SUBSET Jobs, docs : SUBSET Docs, victims : SUBSET Docs,
        seen : SUBSET Jobs, gone : SUBSET Jobs, late : SUBSET Jobs]]
  /\ intake \in [phase : {"idle", "found", "inserted"}, job : Jobs \cup {NoJob},
                 new : BOOLEAN]
  /\ retrying \in Jobs \cup {NoJob}
  /\ budget \in [{"deletions", "troubles"} -> Nat]
  /\ overlapped \in BOOLEAN

\* A document is kept only for its jobs (delete_jobs): unless two deletions ran
\* at the same time, which each take the other's jobs for remaining ones, no
\* document without a job is left behind.
NoEmptyDocuments ==
  ~overlapped => \A d \in documents : \E j \in JobsOf(d) : Exists(j)

\* A job that nobody asked to delete goes only with a document that had no job
\* when the last statement of the deletion began: a job that was there then
\* survives every deletion (the NOT IN of delete_jobs and the cascade).
OthersSurvive ==
  [][\A j \in Jobs : (Exists(j) /\ status'[j] = "deleted") =>
        \E x \in Deleters : /\ j \in deletion[x].gone
                            /\ j \in deletion[x].jobs \/ j \notin deletion[x].seen]_vars

\* What clients can tell of a row: whether retention calls it expired is not seen.
LifecycleState(j) ==
  CASE status[j] = "none"    -> "none"
    [] status[j] = "active"  -> "open"
    [] status[j] = "deleted" -> "removed"
    [] OTHER                 -> "closed"

Lifecycle == INSTANCE JobLifecycle WITH state <- [j \in Jobs |-> LifecycleState(j)]

\* Deletions, webhooks and retries keep what the job tables promise, although each
\* goes by rows it has read statements earlier: a document never has two open
\* jobs, a deleted job never comes back, and none is deleted that was never there
\* (create_from_event, retry_job and delete_jobs under uq_active_job_document).
ImplementsLifecycle == Lifecycle!Spec

\* A job past the retention time is deleted in the end, or has been retried,
\* although retries, webhooks and other deletions get in the way
\* (purge_expired_logs in run_sweeper).
ExpiredJobsGo ==
  \A j \in Jobs : status[j] = "expired" ~> status[j] # "expired"

=============================================================================
