------------------------- MODULE JobRetention_proofs -------------------------
(***************************************************************************)
(* Proofs about JobRetention for any jobs and documents.  A deletion means *)
(* the jobs it was asked for, and the documents that have no others        *)
(* (Meant); when it is alone, each of its documents is deleted or keeps a  *)
(* job (Kept).                                                             *)
(***************************************************************************)
EXTENDS JobRetention, TLAPS

Deletion ==
  [phase : {"idle", "selected", "cleared", "deleted", "searched", "emptied"},
   jobs : SUBSET Jobs, docs : SUBSET Docs, victims : SUBSET Docs,
   seen : SUBSET Jobs, gone : SUBSET Jobs, late : SUBSET Jobs]

\* What a deletion has deleted was selected or unknown to its last statement.
Meant(D) ==
  /\ D.victims \subseteq D.docs
  /\ D.phase \in {"idle", "selected", "cleared", "deleted"} => D.victims = {}
  /\ D.phase \in {"deleted", "searched"} => D.gone \subseteq D.jobs
  /\ D.phase = "searched" => \A j \in D.seen : DocOf[j] \notin D.victims
  /\ D.phase = "emptied" => \A j \in D.gone : j \in D.jobs \/ j \notin D.seen

\* A deletion knows jobs that have been committed only.
Committed(D) == \A j \in D.jobs \cup D.gone : status[j] # "none"

IntakeInv ==
  intake.phase # "idle" => intake.job \in Jobs /\ status[intake.job] = "none"

Live == {"active", "finished", "expired"}

\* Among the given statuses, a job of the document stays that is none of jobs.
Stays(statuses, d, jobs) == \E k \in JobsOf(d) : statuses[k] \in Live /\ k \notin jobs

Kept(statuses, D) ==
  /\ D.phase = "cleared" =>
       \A j \in D.jobs : statuses[j] \in Live =>
          DocOf[j] \in D.docs \/ Stays(statuses, DocOf[j], D.jobs)
  /\ D.phase \in {"deleted", "searched", "emptied"} =>
       \A j \in D.gone : DocOf[j] \in D.docs \/ Stays(statuses, DocOf[j], D.gone)
  /\ D.phase \in {"searched", "emptied"} =>
       \A d \in D.docs : d \in D.victims \/ Stays(statuses, d, D.gone)

AloneInv ==
  ~overlapped =>
    /\ \A x, y \in Deleters : x # y => At(x, "idle") \/ At(y, "idle")
    /\ \A x \in Deleters : Kept(status, deletion[x])

TypeInv == TypeOK /\ IntakeInv

DeletionInv == \A x \in Deleters : Meant(deletion[x]) /\ Committed(deletion[x])

IInv == TypeInv /\ DeletionInv /\ AloneInv /\ NoEmptyDocuments

-----------------------------------------------------------------------------
(* Types.                                                                  *)

LEMMA TypeInit == Init => TypeInv
<1> SUFFICES ASSUME Init PROVE TypeInv
  OBVIOUS
<1>1. budget \in [{"deletions", "troubles"} -> Nat]
  BY BoundsAssumption DEF Init
<1>2. deletion \in [Deleters -> Deletion]
  BY DEF Init, NoDeletion, Deletion
<1>3. /\ intake \in [phase : {"idle", "found", "inserted"}, job : Jobs \cup {NoJob},
                    new : BOOLEAN]
      /\ intake.phase = "idle"
  BY DEF Init, NoIntake
<1> QED BY <1>1, <1>2, <1>3 DEF Init, TypeInv, TypeOK, IntakeInv, Deletion

LEMMA SpendType ==
  ASSUME TypeOK, NEW kind \in {"deletions", "troubles"}, Spend(kind)
  PROVE  budget' \in [{"deletions", "troubles"} -> Nat]
BY DEF TypeOK, Spend

LEMMA BeginType ==
  ASSUME TypeInv, NEW x \in Deleters, NEW selected \in SUBSET Jobs, Begin(x, selected),
         budget' \in [{"deletions", "troubles"} -> Nat]
  PROVE  TypeInv'
<1>1. [NoDeletion EXCEPT !.phase = "selected", !.jobs = selected] \in Deletion
  BY DEF NoDeletion, Deletion
<1>2. deletion' \in [Deleters -> Deletion]
  BY <1>1 DEF Begin, TypeInv, TypeOK, Deletion
<1> QED
  BY <1>2 DEF Begin, TypeInv, TypeOK, Deletion, IntakeInv, Deleters, At

LEMMA DeletionStepType ==
  ASSUME TypeInv, DeletionInv, NEW x \in Deleters, DeletionStep(x) \/ DeletionDies(x)
  PROVE  TypeInv'
<1> DEFINE D == deletion[x]
<1>t. /\ deletion \in [Deleters -> Deletion] /\ D \in Deletion
  BY DEF TypeInv, TypeOK, Deletion
<1> USE DEF TypeInv, IntakeInv
<1>1. CASE ClearAudit(x)
  <2>1. {DocOf[j] : j \in {k \in D.jobs : Exists(k)}} \in SUBSET Docs
    BY <1>t, DocOfAssumption DEF Deletion
  <2>2. deletion' \in [Deleters -> Deletion]
    BY <1>1, <1>t, <2>1 DEF ClearAudit, Deletion
  <2> QED BY <1>1, <2>2 DEF ClearAudit, TypeOK, Deletion
<1>2. CASE DeleteRows(x)
  <2>1. deletion' \in [Deleters -> Deletion]
    BY <1>2, <1>t DEF DeleteRows, Deletion
  <2> QED BY <1>2, <2>1 DEF DeleteRows, TypeOK, Deletion
<1>3. CASE FindEmpty(x)
  <2>1. /\ {d \in D.docs : JobsOf(d) \cap Remaining(x) = {}} \in SUBSET Docs
        /\ Remaining(x) \in SUBSET Jobs
    BY <1>t DEF Deletion, Remaining
  <2>2. deletion' \in [Deleters -> Deletion]
    BY <1>3, <1>t, <2>1 DEF FindEmpty, Deletion
  <2> QED BY <1>3, <2>2 DEF FindEmpty, TypeOK, Deletion
<1>4. CASE DeleteDocuments(x)
  <2>1. Cascaded(x) \in SUBSET Jobs
    BY DEF Cascaded
  <2>2. deletion' \in [Deleters -> Deletion]
    BY <1>4, <1>t, <2>1 DEF DeleteDocuments, Deletion
  <2> QED BY <1>4, <2>2 DEF DeleteDocuments, TypeOK, Deletion
<1>n. NoDeletion \in Deletion
  BY DEF NoDeletion, Deletion
<1>5. CASE CommitDeletion(x)
  <2>1. deletion' \in [Deleters -> Deletion]
    BY <1>5, <1>t, <1>n DEF CommitDeletion
  <2>2. /\ documents' \subseteq Docs /\ audited' \subseteq Jobs
        /\ status' \in [Jobs -> {"none", "active", "finished", "expired", "deleted"}]
    BY <1>5 DEF CommitDeletion, TypeOK
  <2>3. TypeOK'
    BY <1>5, <2>1, <2>2 DEF CommitDeletion, TypeOK, Deletion
  <2>4. \A j \in Jobs : status[j] = "none" => status'[j] = "none"
    BY <1>5 DEF CommitDeletion, DeletionInv, Committed
  <2> QED BY <1>5, <2>3, <2>4 DEF CommitDeletion
<1>6. CASE DeletionForbidden(x)
  <2>1. deletion' \in [Deleters -> Deletion]
    BY <1>6, <1>t, <1>n DEF DeletionForbidden
  <2> QED BY <1>6, <2>1 DEF DeletionForbidden, TypeOK, Deletion
<1>7. CASE DeletionDies(x)
  <2>1. deletion' \in [Deleters -> Deletion]
    BY <1>7, <1>t, <1>n DEF DeletionDies
  <2>2. budget' \in [{"deletions", "troubles"} -> Nat]
    BY <1>7, SpendType DEF DeletionDies
  <2> QED BY <1>7, <2>1, <2>2 DEF DeletionDies, TypeOK, Deletion
<1> QED BY <1>1, <1>2, <1>3, <1>4, <1>5, <1>6, <1>7 DEF DeletionStep

\* What CommitJob leaves of a deletion.
Without(D, d) == [D EXCEPT !.docs = @ \ {d}, !.victims = @ \ {d}]

LEMMA WithoutFields ==
  ASSUME NEW D \in Deletion, NEW d
  PROVE  /\ Without(D, d) \in Deletion
         /\ Without(D, d).docs = D.docs \ {d}
         /\ Without(D, d).victims = D.victims \ {d}
         /\ Without(D, d).phase = D.phase /\ Without(D, d).jobs = D.jobs
         /\ Without(D, d).seen = D.seen /\ Without(D, d).gone = D.gone
<1> DEFINE E == [D EXCEPT !.docs = D.docs \ {d}]
<1>1. /\ E \in Deletion /\ E.docs = D.docs \ {d} /\ E.victims = D.victims
      /\ E.phase = D.phase /\ E.jobs = D.jobs /\ E.seen = D.seen /\ E.gone = D.gone
  BY DEF Deletion
<1>2. Without(D, d) = [E EXCEPT !.victims = D.victims \ {d}]
  BY DEF Without
<1> HIDE DEF E
<1> QED BY <1>1, <1>2 DEF Deletion

LEMMA TypeNext ==
  ASSUME TypeInv, DeletionInv, [Next]_vars
  PROVE  TypeInv'
<1> USE DEF TypeInv, IntakeInv
<1>1. CASE UNCHANGED vars
  BY <1>1 DEF vars, TypeOK, NoIntake
<1>2. ASSUME NEW j \in Jobs, FindDocument(j)
      PROVE  TypeInv'
  BY <1>2 DEF FindDocument, TypeOK
<1>3. ASSUME NEW j \in Jobs, Audit(j)
      PROVE  TypeInv'
  <2> DEFINE late(x) == IF deletion[x].phase \in {"idle", "selected"} THEN {}
                        ELSE deletion[x].late \cup {j}
  <2>1. \A x \in Deleters : [deletion[x] EXCEPT !.late = late(x)] \in Deletion
    BY DEF TypeOK, Deletion
  <2>2. deletion' = [x \in Deleters |-> [deletion[x] EXCEPT !.late = late(x)]]
    BY <1>3 DEF Audit
  <2> HIDE DEF late
  <2>3. deletion' \in [Deleters -> Deletion]
    BY <2>1, <2>2
  <2> QED BY <1>3, <2>3 DEF Audit, TypeOK, Deletion
<1>4. ASSUME NEW j \in Jobs, Finish(j)
      PROVE  TypeInv'
  BY <1>4 DEF Finish, TypeOK
<1>5. ASSUME NEW j \in Jobs, Expire(j)
      PROVE  TypeInv'
  BY <1>5 DEF Expire, TypeOK
<1>6. ASSUME NEW j \in Jobs, RetryRead(j)
      PROVE  TypeInv'
  BY <1>6, SpendType DEF RetryRead, TypeOK
<1>7. CASE InsertJob
  BY <1>7 DEF InsertJob, TypeOK
<1>8. CASE CommitJob
  <2> DEFINE d == DocOf[intake.job]
  <2>1. /\ intake.job \in Jobs /\ d \in Docs
        /\ \A x \in Deleters : deletion[x] \in Deletion
    BY <1>8, DocOfAssumption DEF CommitJob, TypeOK, Deletion
  <2>2. \A x \in Deleters : Without(deletion[x], d) \in Deletion
    BY <2>1, WithoutFields
  <2>3. deletion' = [x \in Deleters |-> IF intake.new THEN Without(deletion[x], d)
                                                     ELSE deletion[x]]
    BY <1>8 DEF CommitJob, Without
  <2>4. deletion' \in [Deleters -> Deletion]
    BY <2>1, <2>2, <2>3
  <2> QED BY <1>8, <2>1, <2>4 DEF CommitJob, TypeOK, NoIntake, Deletion
<1>9. CASE IntakeRefused
  BY <1>9 DEF IntakeRefused, TypeOK, NoIntake
<1>10. CASE IntakeDies
  BY <1>10, SpendType DEF IntakeDies, TypeOK, NoIntake
<1>11. CASE RetryWrite
  BY <1>11 DEF RetryWrite, TypeOK, Exists
<1>12. CASE RetryRefused
  BY <1>12 DEF RetryRefused, TypeOK
<1>13. CASE SelectExpired
  <2>1. {j \in Jobs : status[j] = "expired"} \in SUBSET Jobs
    OBVIOUS
  <2>2. "retention" \in Deleters /\ budget' \in [{"deletions", "troubles"} -> Nat]
    BY <1>13 DEF SelectExpired, TypeOK, Deleters
  <2> QED BY <1>13, <2>1, <2>2, BeginType DEF SelectExpired
<1>14. ASSUME NEW asked \in SUBSET Jobs, SelectAsked(asked)
       PROVE  TypeInv'
  <2>1. {j \in asked : Terminal(j)} \in SUBSET Jobs
    OBVIOUS
  <2>2. "dashboard" \in Deleters /\ budget' \in [{"deletions", "troubles"} -> Nat]
    BY <1>14, SpendType DEF SelectAsked, Deleters
  <2> QED BY <1>14, <2>1, <2>2, BeginType DEF SelectAsked
<1>15. ASSUME NEW x \in Deleters, DeletionStep(x) \/ DeletionDies(x)
       PROVE  TypeInv'
  BY <1>15, DeletionStepType
<1> QED
  BY <1>1, <1>2, <1>3, <1>4, <1>5, <1>6, <1>7, <1>8, <1>9, <1>10, <1>11, <1>12, <1>13,
     <1>14, <1>15 DEF Next

-----------------------------------------------------------------------------
(* What a deletion is after each step.                                     *)

LEMMA BeginFields ==
  ASSUME TypeInv, NEW x \in Deleters, NEW selected, Begin(x, selected)
  PROVE  /\ deletion'[x].phase = "selected" /\ deletion'[x].jobs = selected
         /\ deletion'[x].docs = {} /\ deletion'[x].victims = {}
         /\ deletion'[x].seen = {} /\ deletion'[x].gone = {}
         /\ \A y \in Deleters \ {x} : deletion'[y] = deletion[y]
<1> DEFINE E == [NoDeletion EXCEPT !.phase = "selected"]
<1>1. /\ E = [phase |-> "selected", jobs |-> {}, docs |-> {}, victims |-> {},
              seen |-> {}, gone |-> {}, late |-> {}]
  BY DEF NoDeletion
<1>2. deletion'[x] = [E EXCEPT !.jobs = selected]
  BY DEF Begin, TypeInv, TypeOK
<1>3. \A y \in Deleters \ {x} : deletion'[y] = deletion[y]
  BY DEF Begin, TypeInv, TypeOK
<1> HIDE DEF E
<1> QED BY <1>1, <1>2, <1>3

LEMMA OtherDeletions ==
  ASSUME TypeInv, NEW x \in Deleters, DeletionStep(x) \/ DeletionDies(x)
  PROVE  /\ \A y \in Deleters \ {x} : deletion'[y] = deletion[y]
         /\ UNCHANGED <<intake, overlapped>>
         /\ CommitDeletion(x) \/ UNCHANGED <<status, documents>>
BY DEF DeletionStep, DeletionDies, ClearAudit, DeleteRows, FindEmpty, DeleteDocuments,
       CommitDeletion, DeletionForbidden, TypeInv, TypeOK

LEMMA ClearAuditFields ==
  ASSUME TypeInv, NEW x \in Deleters, ClearAudit(x)
  PROVE  /\ deletion'[x].phase = "cleared"
         /\ deletion'[x].docs = {DocOf[j] : j \in {k \in deletion[x].jobs : Exists(k)}}
         /\ deletion'[x].victims = deletion[x].victims
         /\ deletion'[x].jobs = deletion[x].jobs /\ deletion'[x].gone = deletion[x].gone
<1>1. deletion \in [Deleters -> Deletion]
  BY DEF TypeInv, TypeOK, Deletion
<1> QED BY <1>1 DEF ClearAudit, Deletion

LEMMA DeleteRowsFields ==
  ASSUME TypeInv, NEW x \in Deleters, DeleteRows(x)
  PROVE  /\ deletion'[x].phase = "deleted"
         /\ deletion'[x].gone = {j \in deletion[x].jobs : Exists(j)}
         /\ deletion'[x].docs = deletion[x].docs
         /\ deletion'[x].victims = deletion[x].victims
         /\ deletion'[x].jobs = deletion[x].jobs
<1>1. deletion \in [Deleters -> Deletion]
  BY DEF TypeInv, TypeOK, Deletion
<1> QED BY <1>1 DEF DeleteRows, Deletion

LEMMA FindEmptyFields ==
  ASSUME TypeInv, NEW x \in Deleters, FindEmpty(x)
  PROVE  /\ deletion'[x].phase = "searched"
         /\ deletion'[x].victims = {d \in deletion[x].docs : JobsOf(d) \cap Remaining(x) = {}}
         /\ deletion'[x].seen = Remaining(x)
         /\ deletion'[x].docs = deletion[x].docs
         /\ deletion'[x].jobs = deletion[x].jobs /\ deletion'[x].gone = deletion[x].gone
<1>1. deletion \in [Deleters -> Deletion]
  BY DEF TypeInv, TypeOK, Deletion
<1> QED BY <1>1 DEF FindEmpty, Deletion

LEMMA DeleteDocumentsFields ==
  ASSUME TypeInv, NEW x \in Deleters, DeleteDocuments(x)
  PROVE  /\ deletion'[x].phase = "emptied"
         /\ deletion'[x].gone = deletion[x].gone \cup Cascaded(x)
         /\ deletion'[x].docs = deletion[x].docs
         /\ deletion'[x].victims = deletion[x].victims
         /\ deletion'[x].jobs = deletion[x].jobs /\ deletion'[x].seen = deletion[x].seen
<1>1. deletion \in [Deleters -> Deletion]
  BY DEF TypeInv, TypeOK, Deletion
<1> QED BY <1>1 DEF DeleteDocuments, Deletion

LEMMA DeletionEnds ==
  ASSUME TypeInv, NEW x \in Deleters,
         CommitDeletion(x) \/ DeletionForbidden(x) \/ DeletionDies(x)
  PROVE  deletion'[x] = NoDeletion
BY DEF CommitDeletion, DeletionForbidden, DeletionDies, TypeInv, TypeOK

LEMMA AuditFields ==
  ASSUME TypeInv, NEW j \in Jobs, Audit(j), NEW x \in Deleters
  PROVE  /\ deletion'[x].phase = deletion[x].phase /\ deletion'[x].jobs = deletion[x].jobs
         /\ deletion'[x].docs = deletion[x].docs /\ deletion'[x].victims = deletion[x].victims
         /\ deletion'[x].seen = deletion[x].seen /\ deletion'[x].gone = deletion[x].gone
<1> DEFINE late == IF deletion[x].phase \in {"idle", "selected"} THEN {}
                   ELSE deletion[x].late \cup {j}
<1>1. deletion[x] \in Deletion
  BY DEF TypeInv, TypeOK, Deletion
<1>2. deletion'[x] = [deletion[x] EXCEPT !.late = late]
  BY DEF Audit
<1> HIDE DEF late
<1> QED BY <1>1, <1>2 DEF Deletion

LEMMA CommitJobFields ==
  ASSUME TypeInv, CommitJob, NEW x \in Deleters,
         deletion[x].victims \subseteq deletion[x].docs
  PROVE  LET D == deletion[x]
             E == deletion'[x]
             d == DocOf[intake.job]
         IN /\ E.phase = D.phase /\ E.jobs = D.jobs /\ E.seen = D.seen /\ E.gone = D.gone
            /\ E.docs \subseteq D.docs /\ D.docs \subseteq E.docs \cup {d}
            /\ E.victims = D.victims \cap E.docs
<1> DEFINE d == DocOf[intake.job]
<1>1. deletion[x] \in Deletion
  BY DEF TypeInv, TypeOK, Deletion
<1>2. deletion'[x] = IF intake.new THEN Without(deletion[x], d) ELSE deletion[x]
  BY DEF CommitJob, Without
<1>3. CASE intake.new
  <2>1. deletion'[x] = Without(deletion[x], d)
    BY <1>2, <1>3
  <2> QED BY <1>1, <2>1, WithoutFields
<1>4. CASE ~intake.new
  BY <1>2, <1>4
<1> QED BY <1>3, <1>4

-----------------------------------------------------------------------------
(* What a deletion deletes.                                                *)

LEMMA StatusNext ==
  ASSUME TypeInv, DeletionInv, [Next]_vars
  PROVE  \A j \in Jobs : status[j] # "none" => status'[j] # "none"
<1>1. CASE UNCHANGED vars
  BY <1>1 DEF vars
<1>2. ASSUME NEW j \in Jobs,
             FindDocument(j) \/ Audit(j) \/ Finish(j) \/ Expire(j) \/ RetryRead(j)
      PROVE  \A k \in Jobs : status[k] # "none" => status'[k] # "none"
  BY <1>2 DEF FindDocument, Audit, Finish, Expire, RetryRead, TypeInv, TypeOK
<1>3. CASE InsertJob \/ CommitJob \/ IntakeRefused \/ IntakeDies
  BY <1>3 DEF InsertJob, CommitJob, IntakeRefused, IntakeDies, TypeInv, TypeOK
<1>4. CASE RetryWrite \/ RetryRefused
  BY <1>4 DEF RetryWrite, RetryRefused, TypeInv, TypeOK
<1>5. CASE SelectExpired \/ \E asked \in SUBSET Jobs : SelectAsked(asked)
  BY <1>5 DEF SelectExpired, SelectAsked, Begin
<1>6. ASSUME NEW x \in Deleters, DeletionStep(x) \/ DeletionDies(x)
      PROVE  \A j \in Jobs : status[j] # "none" => status'[j] # "none"
  <2>1. CASE CommitDeletion(x)
    BY <2>1 DEF CommitDeletion
  <2> QED BY <1>6, <2>1, OtherDeletions
<1> QED BY <1>1, <1>2, <1>3, <1>4, <1>5, <1>6 DEF Next

LEMMA DeletionStepMeant ==
  ASSUME TypeInv, DeletionInv, NEW x \in Deleters, DeletionStep(x) \/ DeletionDies(x)
  PROVE  /\ Meant(deletion'[x])
         /\ \A j \in deletion'[x].jobs \cup deletion'[x].gone : j \in Jobs /\ status[j] # "none"
<1> DEFINE D == deletion[x]
<1>t. D \in Deletion
  BY DEF TypeInv, TypeOK, Deletion
<1>m. Meant(D) /\ Committed(D)
  BY DEF DeletionInv
<1>j. \A j \in D.jobs \cup D.gone : j \in Jobs /\ status[j] # "none"
  BY <1>t, <1>m DEF Committed, Deletion
<1>1. CASE ClearAudit(x)
  <2>1. deletion'[x].victims = {}
    BY <1>1, <1>m, ClearAuditFields DEF ClearAudit, At, Meant
  <2> QED BY <1>1, <1>m, <1>j, <2>1, ClearAuditFields DEF Meant
<1>2. CASE DeleteRows(x)
  BY <1>2, <1>m, <1>j, DeleteRowsFields DEF Meant, DeleteRows, At
<1>3. CASE FindEmpty(x)
  <2>1. D.gone \subseteq D.jobs
    BY <1>3, <1>m DEF FindEmpty, At, Meant
  <2>2. \A j \in Remaining(x) : j \in JobsOf(DocOf[j])
    BY DEF Remaining, JobsOf
  <2>3. \A j \in deletion'[x].seen : DocOf[j] \notin deletion'[x].victims
    BY <1>3, <2>2, FindEmptyFields
  <2> QED BY <1>3, <1>j, <2>1, <2>3, FindEmptyFields DEF Meant
<1>4. CASE DeleteDocuments(x)
  <2>1. /\ D.gone \subseteq D.jobs
        /\ \A j \in D.seen : DocOf[j] \notin D.victims
    BY <1>4, <1>m DEF DeleteDocuments, At, Meant
  <2>2. \A j \in Cascaded(x) : j \in Jobs /\ DocOf[j] \in D.victims /\ Exists(j)
    BY DEF Cascaded
  <2>3. \A j \in deletion'[x].gone : j \in D.jobs \/ j \notin D.seen
    BY <1>4, <2>1, <2>2, DeleteDocumentsFields
  <2>4. \A j \in Cascaded(x) : status[j] # "none"
    BY <2>2 DEF Exists
  <2> QED BY <1>4, <1>m, <1>j, <2>2, <2>3, <2>4, DeleteDocumentsFields DEF Meant
<1>5. CASE CommitDeletion(x) \/ DeletionForbidden(x) \/ DeletionDies(x)
  BY <1>5, DeletionEnds DEF Meant, NoDeletion
<1> QED BY <1>1, <1>2, <1>3, <1>4, <1>5 DEF DeletionStep

LEMMA DeletionNext ==
  ASSUME TypeInv, DeletionInv, [Next]_vars
  PROVE  DeletionInv'
<1> SUFFICES ASSUME NEW x \in Deleters
             PROVE  /\ Meant(deletion'[x])
                    /\ \A j \in deletion'[x].jobs \cup deletion'[x].gone :
                          j \in Jobs /\ status[j] # "none"
  BY StatusNext DEF DeletionInv, Committed
<1> DEFINE D == deletion[x]
<1>t. D \in Deletion
  BY DEF TypeInv, TypeOK, Deletion
<1>m. /\ Meant(D)
      /\ \A j \in D.jobs \cup D.gone : j \in Jobs /\ status[j] # "none"
  BY <1>t DEF DeletionInv, Committed, Deletion
<1>1. CASE deletion' = deletion
  BY <1>1, <1>m
<1>2. ASSUME NEW j \in Jobs, Audit(j)
      PROVE  /\ Meant(deletion'[x])
             /\ \A k \in deletion'[x].jobs \cup deletion'[x].gone :
                   k \in Jobs /\ status[k] # "none"
  BY <1>2, <1>m, AuditFields DEF Meant
<1>3. CASE CommitJob
  <2>1. D.victims \subseteq D.docs
    BY <1>m DEF Meant
  <2> QED BY <1>3, <1>m, <2>1, CommitJobFields DEF Meant
<1>4. ASSUME NEW y \in Deleters, NEW selected \in SUBSET Jobs, Begin(y, selected),
             \A j \in selected : status[j] # "none"
      PROVE  /\ Meant(deletion'[x])
             /\ \A k \in deletion'[x].jobs \cup deletion'[x].gone :
                   k \in Jobs /\ status[k] # "none"
  <2>1. CASE x = y
    BY <1>4, <2>1, BeginFields DEF Meant
  <2>2. CASE x # y
    BY <1>4, <1>m, <2>2, BeginFields
  <2> QED BY <2>1, <2>2
<1>5. CASE SelectExpired
  <2>1. \A j \in {k \in Jobs : status[k] = "expired"} : status[j] # "none"
    OBVIOUS
  <2> QED BY <1>5, <1>4, <2>1 DEF SelectExpired, Deleters
<1>6. ASSUME NEW asked \in SUBSET Jobs, SelectAsked(asked)
      PROVE  /\ Meant(deletion'[x])
             /\ \A k \in deletion'[x].jobs \cup deletion'[x].gone :
                   k \in Jobs /\ status[k] # "none"
  <2>1. \A j \in {k \in asked : Terminal(k)} : status[j] # "none"
    BY DEF Terminal
  <2> QED BY <1>6, <1>4, <2>1 DEF SelectAsked, Deleters
<1>7. ASSUME NEW y \in Deleters, DeletionStep(y) \/ DeletionDies(y)
      PROVE  /\ Meant(deletion'[x])
             /\ \A k \in deletion'[x].jobs \cup deletion'[x].gone :
                   k \in Jobs /\ status[k] # "none"
  <2>1. CASE x = y
    BY <1>7, <2>1, DeletionStepMeant
  <2>2. CASE x # y
    BY <1>7, <1>m, <2>2, OtherDeletions
  <2> QED BY <2>1, <2>2
<1>8. ASSUME NEW j \in Jobs, FindDocument(j) \/ Finish(j) \/ Expire(j) \/ RetryRead(j)
      PROVE  deletion' = deletion
  BY <1>8 DEF FindDocument, Finish, Expire, RetryRead
<1>9. CASE UNCHANGED vars \/ InsertJob \/ IntakeRefused \/ IntakeDies \/ RetryWrite \/ RetryRefused
  BY <1>1, <1>9 DEF vars, InsertJob, IntakeRefused, IntakeDies, RetryWrite, RetryRefused
<1> QED BY <1>1, <1>2, <1>3, <1>5, <1>6, <1>7, <1>8, <1>9 DEF Next

-----------------------------------------------------------------------------
(* The documents of a deletion that is alone.                              *)

LEMMA KeptGrows ==
  ASSUME NEW before, NEW after, NEW D, NEW E,
         \A k \in Jobs : before[k] \in Live => after[k] \in Live,
         \A k \in D.jobs : after[k] \in Live => before[k] \in Live,
         E.phase = D.phase, E.jobs = D.jobs, E.gone = D.gone,
         E.victims = D.victims \cap E.docs,
         \A d \in D.docs : d \in E.docs \/ (Stays(after, d, D.jobs) /\ Stays(after, d, D.gone)),
         E.docs \subseteq D.docs,
         Kept(before, D)
  PROVE  Kept(after, E)
<1>1. \A d, jobs : Stays(before, d, jobs) => Stays(after, d, jobs)
  BY DEF Stays, JobsOf
<1>2. ASSUME E.phase = "cleared", NEW j \in E.jobs, after[j] \in Live
      PROVE  DocOf[j] \in E.docs \/ Stays(after, DocOf[j], E.jobs)
  BY <1>1, <1>2 DEF Kept
<1>3. ASSUME E.phase \in {"deleted", "searched", "emptied"}, NEW j \in E.gone
      PROVE  DocOf[j] \in E.docs \/ Stays(after, DocOf[j], E.gone)
  BY <1>1, <1>3 DEF Kept
<1>4. ASSUME E.phase \in {"searched", "emptied"}, NEW d \in E.docs
      PROVE  d \in E.victims \/ Stays(after, d, E.gone)
  BY <1>1, <1>4 DEF Kept
<1> QED BY <1>2, <1>3, <1>4 DEF Kept

LEMMA DeletionStepKept ==
  ASSUME TypeInv, DeletionInv, NEW x \in Deleters, Kept(status, deletion[x]),
         DeletionStep(x) \/ DeletionDies(x)
  PROVE  Kept(status', deletion'[x])
<1> DEFINE D == deletion[x]
<1>m. Meant(D)
  BY DEF DeletionInv
<1>e. \A j \in Jobs : Exists(j) <=> status[j] \in Live
  BY DEF Exists, Live
<1>t. D.jobs \subseteq Jobs
  BY DEF TypeInv, TypeOK
<1>s. CommitDeletion(x) \/ status' = status
  BY OtherDeletions
<1>1. CASE ClearAudit(x)
  <2>1. status' = status
    BY <1>1 DEF ClearAudit
  <2>2. \A j \in D.jobs : status[j] \in Live => DocOf[j] \in deletion'[x].docs
    BY <1>1, <1>e, <1>t, ClearAuditFields
  <2> QED BY <1>1, <2>1, <2>2, ClearAuditFields DEF Kept
<1>2. CASE DeleteRows(x)
  <2>1. status' = status /\ D.phase = "cleared"
    BY <1>2 DEF DeleteRows, At
  <2>2. ASSUME NEW j \in deletion'[x].gone
        PROVE  DocOf[j] \in D.docs \/ Stays(status, DocOf[j], deletion'[x].gone)
    <3>1. j \in D.jobs /\ status[j] \in Live
      BY <1>2, <1>e, <1>t, <2>2, DeleteRowsFields
    <3>2. deletion'[x].gone \subseteq D.jobs
      BY <1>2, DeleteRowsFields
    <3>3. Stays(status, DocOf[j], D.jobs) => Stays(status, DocOf[j], deletion'[x].gone)
      BY <3>2 DEF Stays
    <3> QED BY <2>1, <3>1, <3>3 DEF Kept
  <2> QED BY <1>2, <2>1, <2>2, DeleteRowsFields DEF Kept
<1>3. CASE FindEmpty(x)
  <2>1. status' = status /\ D.phase = "deleted"
    BY <1>3 DEF FindEmpty, At
  <2>2. ASSUME NEW d \in D.docs
        PROVE  d \in deletion'[x].victims \/ Stays(status, d, D.gone)
    <3>1. d \in deletion'[x].victims \/ \E k \in JobsOf(d) : k \in Remaining(x)
      BY <1>3, FindEmptyFields
    <3>2. \A k \in Remaining(x) : status[k] \in Live /\ k \notin D.gone
      BY <1>e DEF Remaining
    <3> QED BY <3>1, <3>2 DEF Stays
  <2> QED BY <1>3, <2>1, <2>2, FindEmptyFields DEF Kept
<1>4. CASE DeleteDocuments(x)
  <2>1. status' = status /\ D.phase = "searched"
    BY <1>4 DEF DeleteDocuments, At
  <2>2. D.victims \subseteq D.docs
    BY <1>m DEF Meant
  <2>3. \A k \in Cascaded(x) : DocOf[k] \in D.victims
    BY DEF Cascaded
  <2>4. \A d : Stays(status, d, D.gone) => d \in D.victims \/ Stays(status, d, deletion'[x].gone)
    BY <1>4, <2>3, DeleteDocumentsFields DEF Stays, JobsOf
  <2>5. \A j \in deletion'[x].gone :
           DocOf[j] \in D.docs \/ Stays(status, DocOf[j], deletion'[x].gone)
    BY <1>4, <2>1, <2>2, <2>3, <2>4, DeleteDocumentsFields DEF Kept
  <2>6. \A d \in D.docs : d \in D.victims \/ Stays(status, d, deletion'[x].gone)
    BY <2>1, <2>4 DEF Kept
  <2> QED BY <1>4, <2>1, <2>5, <2>6, DeleteDocumentsFields DEF Kept
<1>5. CASE CommitDeletion(x) \/ DeletionForbidden(x) \/ DeletionDies(x)
  BY <1>5, DeletionEnds DEF Kept, NoDeletion
<1> QED BY <1>1, <1>2, <1>3, <1>4, <1>5 DEF DeletionStep

LEMMA CommitKeepsDocuments ==
  ASSUME TypeInv, DeletionInv, NEW x \in Deleters, CommitDeletion(x),
         Kept(status, deletion[x]),
         \A d \in documents : \E j \in JobsOf(d) : Exists(j)
  PROVE  \A d \in documents' : \E j \in JobsOf(d) : status'[j] \in Live
<1> DEFINE D == deletion[x]
<1> SUFFICES ASSUME NEW d \in documents'
             PROVE  \E j \in JobsOf(d) : status'[j] \in Live
  OBVIOUS
<1>1. d \in documents /\ d \notin D.victims /\ D.phase = "emptied"
  BY DEF CommitDeletion, At
<1>2. \A j \in JobsOf(d) : status[j] \in Live /\ j \notin D.gone => status'[j] \in Live
  BY DEF CommitDeletion, JobsOf
<1>3. Stays(status, d, D.gone) => \E j \in JobsOf(d) : status'[j] \in Live
  BY <1>2 DEF Stays
<1>4. CASE d \in D.docs
  BY <1>1, <1>3, <1>4 DEF Kept
<1>5. CASE d \notin D.docs
  <2>1. PICK k \in JobsOf(d) : Exists(k)
    BY <1>1
  <2>2. CASE k \in D.gone
    <3>1. DocOf[k] = d
      BY DEF JobsOf
    <3> QED BY <1>1, <1>3, <1>5, <2>2, <3>1 DEF Kept
  <2>3. CASE k \notin D.gone
    BY <1>2, <2>1, <2>3 DEF Exists, Live
  <2> QED BY <2>2, <2>3
<1> QED BY <1>4, <1>5

LEMMA AloneNext ==
  ASSUME IInv, [Next]_vars, ~overlapped'
  PROVE  /\ \A x, y \in Deleters : x # y => At(x, "idle")' \/ At(y, "idle")'
         /\ \A x \in Deleters : Kept(status', deletion'[x])
         /\ \A d \in documents' : \E j \in JobsOf(d) : status'[j] \in Live
<1> DEFINE Idle(x) == deletion[x].phase = "idle"
           Goal == /\ \A x, y \in Deleters :
                         x # y => deletion'[x].phase = "idle" \/ deletion'[y].phase = "idle"
                   /\ \A x \in Deleters : Kept(status', deletion'[x])
                   /\ \A d \in documents' : \E j \in JobsOf(d) : status'[j] \in Live
<1> SUFFICES Goal
  BY DEF At
<1> USE DEF IInv
<1>e. \A j \in Jobs : Exists(j) <=> status[j] \in Live
  BY DEF Exists, Live
\* Steps that leave deletions, documents and the lives of jobs as they are.
<1>q. ASSUME deletion' = deletion, documents' = documents, overlapped' = overlapped,
             \A k \in Jobs : status[k] \in Live <=> status'[k] \in Live
      PROVE  Goal
  <2>1. \A x \in Deleters : Meant(deletion[x]) /\ deletion[x].jobs \subseteq Jobs
    BY DEF DeletionInv, TypeInv, TypeOK
  <2>2. ASSUME NEW x \in Deleters
        PROVE  Kept(status', deletion'[x])
    <3>1. deletion[x].victims = deletion[x].victims \cap deletion[x].docs
      BY <2>1 DEF Meant
    <3>2. Kept(status, deletion[x])
      BY <1>q DEF AloneInv
    <3> QED BY <1>q, <2>1, <3>1, <3>2, KeptGrows
  <2> QED BY <1>q, <1>e, <2>2 DEF AloneInv, At, NoEmptyDocuments, JobsOf
<1>1. CASE UNCHANGED vars
  BY <1>1, <1>q DEF vars
<1>2. ASSUME NEW j \in Jobs, FindDocument(j) \/ Finish(j) \/ Expire(j) \/ RetryRead(j)
      PROVE  Goal
  <2>1. \A k \in Jobs : status[k] \in Live <=> status'[k] \in Live
    BY <1>2 DEF FindDocument, Finish, Expire, RetryRead, TypeInv, TypeOK, Live
  <2> QED BY <1>2, <1>q, <2>1 DEF FindDocument, Finish, Expire, RetryRead
<1>3. CASE InsertJob \/ IntakeRefused \/ IntakeDies \/ RetryRefused
  BY <1>3, <1>q DEF InsertJob, IntakeRefused, IntakeDies, RetryRefused
<1>4. CASE RetryWrite
  <2>1. \A k \in Jobs : status[k] \in Live <=> status'[k] \in Live
    BY <1>4 DEF RetryWrite, TypeInv, TypeOK, Live, Exists
  <2> QED BY <1>4, <1>q, <2>1 DEF RetryWrite
<1>5. ASSUME NEW j \in Jobs, Audit(j)
      PROVE  Goal
  <2>1. status' = status /\ documents' = documents /\ ~overlapped
    BY <1>5 DEF Audit
  <2>2. \A x \in Deleters : Kept(status', deletion'[x])
    BY <1>5, <2>1, AuditFields DEF AloneInv, Kept
  <2>3. \A x \in Deleters : deletion'[x].phase = deletion[x].phase
    BY <1>5, AuditFields
  <2> QED BY <1>e, <2>1, <2>2, <2>3 DEF AloneInv, At, NoEmptyDocuments, JobsOf
<1>6. CASE CommitJob
  <2> DEFINE i == intake.job
             d == DocOf[i]
  <2>1. /\ i \in Jobs /\ status[i] = "none" /\ ~overlapped
        /\ documents' = documents \cup {d}
        /\ status' = [status EXCEPT ![i] = "active"]
    BY <1>6 DEF CommitJob, TypeInv, IntakeInv
  <2>2. /\ \A k \in Jobs : status[k] \in Live => status'[k] \in Live
        /\ status'[i] \in Live
        /\ \A k \in Jobs : k # i => status'[k] = status[k]
    BY <2>1 DEF TypeInv, TypeOK, Live
  <2>3. ASSUME NEW x \in Deleters
        PROVE  /\ Kept(status', deletion'[x])
               /\ deletion'[x].phase = deletion[x].phase
    <3> DEFINE D == deletion[x]
               E == deletion'[x]
    <3>1. D.victims \subseteq D.docs /\ D.jobs \subseteq Jobs
      BY DEF DeletionInv, Meant, TypeInv, TypeOK
    <3>2. /\ E.phase = D.phase /\ E.jobs = D.jobs /\ E.gone = D.gone
          /\ E.docs \subseteq D.docs /\ D.docs \subseteq E.docs \cup {d}
          /\ E.victims = D.victims \cap E.docs
      BY <1>6, <3>1, CommitJobFields
    <3>3. i \notin D.jobs /\ i \notin D.gone
      BY <2>1 DEF DeletionInv, Committed
    <3>4. Stays(status', d, D.jobs) /\ Stays(status', d, D.gone)
      BY <2>1, <2>2, <3>3 DEF Stays, JobsOf
    <3>5. \A k \in D.jobs : status'[k] \in Live => status[k] \in Live
      BY <2>2, <3>1, <3>3
    <3>6. Kept(status, D)
      BY <2>1 DEF AloneInv
    <3>7. \A c \in D.docs : c \in E.docs \/ (Stays(status', c, D.jobs) /\ Stays(status', c, D.gone))
      BY <3>2, <3>4
    <3> HIDE DEF D, E
    <3>8. Kept(status', E)
      BY <2>2, <3>2, <3>5, <3>6, <3>7, KeptGrows
    <3> QED BY <3>2, <3>8 DEF D, E
  <2>4. \A c \in documents' : \E j \in JobsOf(c) : status'[j] \in Live
    BY <1>e, <2>1, <2>2 DEF NoEmptyDocuments, JobsOf
  <2> QED BY <2>1, <2>3, <2>4 DEF AloneInv, At
<1>7. ASSUME NEW x \in Deleters, NEW selected, Begin(x, selected)
      PROVE  Goal
  <2>1. /\ status' = status /\ documents' = documents /\ ~overlapped
        /\ \A y \in Deleters \ {x} : Idle(y)
    BY <1>7 DEF Begin, At
  <2>2. \A y \in Deleters \ {x} : deletion'[y] = deletion[y]
    BY <1>7, BeginFields
  <2>3. Kept(status', deletion'[x])
    BY <1>7, BeginFields DEF Kept
  <2>4. \A y \in Deleters : Kept(status', deletion'[y])
    BY <2>1, <2>2, <2>3 DEF AloneInv
  <2> QED BY <1>e, <2>1, <2>2, <2>4 DEF NoEmptyDocuments, JobsOf
<1>8. CASE SelectExpired \/ \E asked \in SUBSET Jobs : SelectAsked(asked)
  BY <1>8, <1>7 DEF SelectExpired, SelectAsked, Deleters
<1>9. ASSUME NEW x \in Deleters, DeletionStep(x) \/ DeletionDies(x)
      PROVE  Goal
  <2>1. /\ ~overlapped /\ Kept(status, deletion[x])
        /\ \A y \in Deleters \ {x} : deletion'[y] = deletion[y]
    BY <1>9, OtherDeletions DEF AloneInv
  <2>2. ~Idle(x)
    BY <1>9 DEF DeletionStep, DeletionDies, ClearAudit, DeleteRows, FindEmpty,
                DeleteDocuments, CommitDeletion, DeletionForbidden, At
  <2>3. \A y \in Deleters \ {x} : deletion'[y].phase = "idle"
    BY <2>1, <2>2 DEF AloneInv, At
  <2>4. Kept(status', deletion'[x])
    BY <1>9, <2>1, DeletionStepKept
  <2>5. \A y \in Deleters : Kept(status', deletion'[y])
    BY <2>3, <2>4 DEF Kept
  <2>6. \A d \in documents : \E j \in JobsOf(d) : Exists(j)
    BY <2>1 DEF NoEmptyDocuments
  <2>7. \A d \in documents' : \E j \in JobsOf(d) : status'[j] \in Live
    <3>1. CASE CommitDeletion(x)
      BY <2>1, <2>6, <3>1, CommitKeepsDocuments
    <3>2. CASE status' = status /\ documents' = documents
      BY <1>e, <2>6, <3>2 DEF JobsOf
    <3> QED BY <1>9, <3>1, <3>2, OtherDeletions
  <2> QED BY <2>3, <2>5, <2>7
<1> HIDE DEF Goal
<1> QED BY <1>1, <1>2, <1>3, <1>4, <1>5, <1>6, <1>8, <1>9 DEF Next

-----------------------------------------------------------------------------
(* The theorems.                                                           *)

LEMMA InvInit == Init => IInv
<1> SUFFICES ASSUME Init PROVE IInv
  OBVIOUS
<1>1. TypeInv
  BY TypeInit
<1>2. DeletionInv /\ AloneInv /\ NoEmptyDocuments
  BY DEF Init, NoDeletion, DeletionInv, Meant, Committed, AloneInv, At, Kept, NoEmptyDocuments
<1> QED BY <1>1, <1>2 DEF IInv

LEMMA InvNext == IInv /\ [Next]_vars => IInv'
<1> SUFFICES ASSUME IInv, [Next]_vars PROVE IInv'
  OBVIOUS
<1>1. TypeInv' /\ DeletionInv'
  BY TypeNext, DeletionNext DEF IInv
<1>2. AloneInv' /\ NoEmptyDocuments'
  BY AloneNext DEF AloneInv, NoEmptyDocuments, Exists, Live
<1> QED BY <1>1, <1>2 DEF IInv

\* Every table and every deletion of JobRetention stays in its domain.
THEOREM RetentionTypeCorrect == Spec => []TypeOK
<1>1. IInv => TypeOK
  BY DEF IInv, TypeInv
<1> QED BY <1>1, InvInit, InvNext, PTL DEF Spec

\* delete_jobs leaves no document without a job, whatever webhooks, retries and
\* failures happen meanwhile, as long as deletions do not overlap.
THEOREM NoEmptyDocumentsTheorem == Spec => []NoEmptyDocuments
<1>1. IInv => NoEmptyDocuments
  BY DEF IInv
<1> QED BY <1>1, InvInit, InvNext, PTL DEF Spec

\* delete_jobs deletes the jobs it was asked for and those that arrived for a
\* document after its last statement had found no job of it, and no other.
THEOREM OthersSurviveTheorem == Spec => OthersSurvive
<1> DEFINE Survive ==
      \A j \in Jobs : (Exists(j) /\ status'[j] = "deleted") =>
        \E x \in Deleters : /\ j \in deletion[x].gone
                            /\ j \in deletion[x].jobs \/ j \notin deletion[x].seen
<1>1. IInv /\ [Next]_vars => [Survive]_vars
  <2> SUFFICES ASSUME IInv, Next, NEW j \in Jobs, Exists(j), status'[j] = "deleted"
               PROVE  \E x \in Deleters : /\ j \in deletion[x].gone
                                          /\ j \in deletion[x].jobs \/ j \notin deletion[x].seen
    OBVIOUS
  <2>1. PICK x \in Deleters : CommitDeletion(x)
    <3>1. status' = status => FALSE
      BY DEF Exists
    <3>2. ASSUME NEW k \in Jobs,
                 FindDocument(k) \/ Audit(k) \/ Finish(k) \/ Expire(k) \/ RetryRead(k)
          PROVE  FALSE
      BY <3>1, <3>2 DEF FindDocument, Audit, Finish, Expire, RetryRead, Exists,
                        IInv, TypeInv, TypeOK
    <3>3. ASSUME InsertJob \/ CommitJob \/ IntakeRefused \/ IntakeDies PROVE FALSE
      BY <3>1, <3>3 DEF InsertJob, CommitJob, IntakeRefused, IntakeDies, Exists,
                        IInv, TypeInv, TypeOK
    <3>4. ASSUME RetryWrite \/ RetryRefused PROVE FALSE
      BY <3>1, <3>4 DEF RetryWrite, RetryRefused, Exists, IInv, TypeInv, TypeOK
    <3>5. ASSUME SelectExpired \/ \E asked \in SUBSET Jobs : SelectAsked(asked) PROVE FALSE
      BY <3>1, <3>5 DEF SelectExpired, SelectAsked, Begin
    <3>6. ASSUME NEW x \in Deleters, DeletionStep(x) \/ DeletionDies(x)
          PROVE  CommitDeletion(x)
      BY <3>1, <3>6, OtherDeletions DEF IInv
    <3> QED BY <3>2, <3>3, <3>4, <3>5, <3>6 DEF Next
  <2>2. j \in deletion[x].gone /\ deletion[x].phase = "emptied"
    BY <2>1 DEF CommitDeletion, At, Exists
  <2> QED BY <2>2 DEF IInv, DeletionInv, Meant
<1> QED BY <1>1, InvInit, InvNext, PTL DEF Spec, OthersSurvive
-----------------------------------------------------------------------------
(* Refinement: JobRetention implements JobLifecycle.                       *)

\* A job being inserted is the only active one of its document until its commit:
\* the unique index makes a retry wait for it.
InsertedAlone ==
  intake.phase = "inserted" => ActiveJobs(DocOf[intake.job]) = {}

LEMMA InsertedAloneNext ==
  ASSUME TypeInv, InsertedAlone, [Next]_vars
  PROVE  InsertedAlone'
<1> USE DEF InsertedAlone, ActiveJobs, JobsOf
\* Steps that make no job active and leave the insertion alone.
<1>q. ASSUME intake' = intake,
             \A k \in Jobs : status'[k] = "active" => status[k] = "active"
      PROVE  InsertedAlone'
  BY <1>q
<1>1. CASE UNCHANGED vars
  BY <1>1, <1>q DEF vars
<1>2. ASSUME NEW j \in Jobs, FindDocument(j) PROVE InsertedAlone'
  BY <1>2 DEF FindDocument
<1>3. ASSUME NEW j \in Jobs, Audit(j) \/ Finish(j) \/ Expire(j) \/ RetryRead(j)
      PROVE  InsertedAlone'
  <2>1. \A k \in Jobs : status'[k] = "active" => status[k] = "active"
    BY <1>3 DEF Audit, Finish, Expire, RetryRead, TypeInv, TypeOK
  <2> QED BY <1>3, <1>q, <2>1 DEF Audit, Finish, Expire, RetryRead
<1>4. CASE InsertJob
  BY <1>4 DEF InsertJob, TypeInv, TypeOK
<1>5. CASE CommitJob \/ IntakeRefused \/ IntakeDies
  <2>1. intake' = NoIntake
    BY <1>5 DEF CommitJob, IntakeRefused, IntakeDies
  <2>2. intake'.phase # "inserted"
    BY <2>1 DEF NoIntake
  <2> QED BY <2>2
<1>6. CASE RetryWrite
  BY <1>6 DEF RetryWrite, TypeInv, TypeOK, Exists
<1>7. CASE RetryRefused
  BY <1>7, <1>q DEF RetryRefused
<1>8. CASE SelectExpired \/ \E asked \in SUBSET Jobs : SelectAsked(asked)
  BY <1>8, <1>q DEF SelectExpired, SelectAsked, Begin
<1>9. ASSUME NEW x \in Deleters, DeletionStep(x) \/ DeletionDies(x) PROVE InsertedAlone'
  <2>1. \A k \in Jobs : status'[k] = "active" => status[k] = "active"
    BY <1>9, OtherDeletions DEF CommitDeletion
  <2> QED BY <1>9, <1>q, <2>1, OtherDeletions
<1> QED
  BY <1>1, <1>2, <1>3, <1>4, <1>5, <1>6, <1>7, <1>8, <1>9 DEF Next

Abstract == [j \in Jobs |-> LifecycleState(j)]

\* The abstract state tells apart exactly what clients can tell apart.
LEMMA AbstractState ==
  ASSUME TypeOK, NEW j \in Jobs
  PROVE  /\ Abstract[j] = "none" <=> status[j] = "none"
         /\ Abstract[j] = "open" <=> status[j] = "active"
         /\ Abstract[j] = "closed" <=> Terminal(j)
         /\ Abstract[j] = "removed" <=> status[j] = "deleted"
BY DEF TypeOK, Abstract, LifecycleState, Terminal

\* A step that changes no status is a stutter.
LEMMA SameStatusStutters ==
  ASSUME status' = status
  PROVE  Abstract' = Abstract
BY DEF Abstract, LifecycleState

\* A step that changes one status changes the abstract state of one job.
LEMMA OneStatusChanges ==
  ASSUME TypeOK, NEW j \in Jobs, NEW s, status' = [status EXCEPT ![j] = s]
  PROVE  Abstract' = [Abstract EXCEPT ![j] = CASE s = "none"    -> "none"
                                               [] s = "active"  -> "open"
                                               [] s = "deleted" -> "removed"
                                               [] OTHER         -> "closed"]
<1> DEFINE L(k) == LifecycleState(k)
<1>1. status'[j] = s /\ \A k \in Jobs \ {j} : status'[k] = status[k]
  BY DEF TypeOK
<1>2. \A k \in Jobs \ {j} : L(k)' = L(k)
  BY <1>1 DEF LifecycleState
<1>3. L(j)' = CASE s = "none"    -> "none"
                [] s = "active"  -> "open"
                [] s = "deleted" -> "removed"
                [] OTHER         -> "closed"
  BY <1>1 DEF LifecycleState
<1>4. Abstract = [k \in Jobs |-> L(k)] /\ Abstract' = [k \in Jobs |-> L(k)']
  BY DEF Abstract
<1> HIDE DEF L
<1>5. Abstract' = [Abstract EXCEPT ![j] = L(j)']
  BY <1>2, <1>4
<1> QED BY <1>3, <1>5

\* A job of a document without other active ones may be opened.
LEMMA AloneIsAllowed ==
  ASSUME TypeOK, NEW j \in Jobs, ActiveJobs(DocOf[j]) \subseteq {j}
  PROVE  Lifecycle!Alone(j)
<1>1. \A k \in Jobs \ {j} : DocOf[k] = DocOf[j] => Abstract[k] # "open"
  BY AbstractState DEF ActiveJobs, JobsOf
<1> QED BY <1>1 DEF Lifecycle!Alone, Abstract

LEMMA CommitRefines ==
  ASSUME IInv, InsertedAlone, CommitJob
  PROVE  Lifecycle!Accept(intake.job)
<1> DEFINE j == intake.job
<1>1. /\ j \in Jobs /\ status[j] = "none" /\ status' = [status EXCEPT ![j] = "active"]
      /\ ActiveJobs(DocOf[j]) = {}
  BY DEF IInv, TypeInv, IntakeInv, CommitJob, InsertedAlone
<1>2. TypeOK
  BY DEF IInv, TypeInv
<1>3. Lifecycle!Alone(j)
  BY <1>1, <1>2, AloneIsAllowed
<1>4. Abstract[j] = "none" /\ Abstract' = [Abstract EXCEPT ![j] = "open"]
  BY <1>1, <1>2, AbstractState, OneStatusChanges
<1> HIDE DEF j
<1> QED BY <1>3, <1>4 DEF Lifecycle!Accept, Abstract, j

LEMMA RetryRefines ==
  ASSUME IInv, RetryWrite
  PROVE  [Lifecycle!Next]_Abstract
<1> DEFINE j == retrying
<1>1. /\ j \in Jobs /\ Exists(j) /\ status' = [status EXCEPT ![j] = "active"]
      /\ ActiveJobs(DocOf[j]) \subseteq {j}
  BY DEF IInv, TypeInv, TypeOK, RetryWrite
<1>2. TypeOK
  BY DEF IInv, TypeInv
<1>3. Abstract' = [Abstract EXCEPT ![j] = "open"]
  BY <1>1, <1>2, OneStatusChanges
<1>4. CASE status[j] = "active"
  <2>1. Abstract[j] = "open"
    BY <1>1, <1>2, <1>4, AbstractState
  <2>2. Abstract' = Abstract
    BY <1>3, <2>1 DEF Abstract
  <2> QED BY <2>2
<1>5. CASE status[j] # "active"
  <2>1. Abstract[j] = "closed"
    BY <1>1, <1>2, <1>5, AbstractState DEF Exists, Terminal
  <2>2. Lifecycle!Alone(j)
    BY <1>1, <1>2, AloneIsAllowed
  <2> HIDE DEF j
  <2>3. Lifecycle!Reopen(j)
    BY <1>3, <2>1, <2>2 DEF Lifecycle!Reopen, Abstract
  <2> QED BY <1>1, <2>3 DEF Lifecycle!Next
<1> QED BY <1>4, <1>5

LEMMA DeletionRefines ==
  ASSUME IInv, NEW x \in Deleters, CommitDeletion(x)
  PROVE  Lifecycle!Remove(deletion[x].gone)
<1> DEFINE S == deletion[x].gone
<1>1. /\ S \subseteq Jobs /\ \A j \in S : status[j] # "none"
      /\ status' = [j \in Jobs |-> IF j \in S THEN "deleted" ELSE status[j]]
  BY DEF IInv, TypeInv, TypeOK, DeletionInv, Committed, CommitDeletion
<1>2. \A j \in Jobs : LifecycleState(j)' = IF j \in S THEN "removed" ELSE LifecycleState(j)
  BY <1>1 DEF LifecycleState
<1>3. \A j \in S : LifecycleState(j) # "none"
  BY <1>1 DEF LifecycleState, IInv, TypeInv, TypeOK
<1> HIDE DEF S
<1> QED BY <1>1, <1>2, <1>3 DEF Lifecycle!Remove, S

LEMMA StepRefines ==
  ASSUME IInv, InsertedAlone, [Next]_vars
  PROVE  [Lifecycle!Next]_Abstract
<1>t. TypeOK
  BY DEF IInv, TypeInv
<1>1. CASE status' = status
  BY <1>1, SameStatusStutters
<1>2. ASSUME NEW j \in Jobs, Finish(j) PROVE [Lifecycle!Next]_Abstract
  <2>1. Abstract[j] = "open" /\ Abstract' = [Abstract EXCEPT ![j] = "closed"]
    <3>1. status[j] = "active" /\ status' = [status EXCEPT ![j] = "finished"]
      BY <1>2 DEF Finish
    <3>2. status'[j] = "finished" /\ Abstract[j] = "open"
      BY <3>1, <1>t, AbstractState DEF TypeOK
    <3> QED BY <3>1, <3>2, <1>t, OneStatusChanges
  <2>2. Lifecycle!Close(j)
    BY <2>1 DEF Lifecycle!Close, Abstract
  <2> QED BY <2>2 DEF Lifecycle!Next
<1>3. ASSUME NEW j \in Jobs, Expire(j) PROVE [Lifecycle!Next]_Abstract
  <2>1. Abstract[j] = "closed" /\ Abstract' = [Abstract EXCEPT ![j] = "closed"]
    <3>1. status[j] = "finished" /\ status' = [status EXCEPT ![j] = "expired"]
      BY <1>3 DEF Expire
    <3>2. Abstract[j] = "closed"
      BY <3>1, <1>t, AbstractState DEF Terminal
    <3> QED BY <3>1, <3>2, <1>t, OneStatusChanges
  <2>2. Abstract' = Abstract
    BY <2>1 DEF Abstract
  <2> QED BY <2>2
<1>4. CASE CommitJob
  <2>1. Lifecycle!Accept(intake.job) /\ intake.job \in Jobs
    BY <1>4, CommitRefines DEF IInv, TypeInv, IntakeInv, CommitJob
  <2> QED BY <2>1 DEF Lifecycle!Next
<1>5. CASE RetryWrite
  BY <1>5, RetryRefines
<1>6. ASSUME NEW x \in Deleters, CommitDeletion(x) PROVE [Lifecycle!Next]_Abstract
  <2>1. Lifecycle!Remove(deletion[x].gone) /\ deletion[x].gone \in SUBSET Jobs
    BY <1>6, DeletionRefines DEF IInv, TypeInv, TypeOK
  <2> QED BY <2>1 DEF Lifecycle!Next
<1>7. \/ status' = status
      \/ \E j \in Jobs : Finish(j) \/ Expire(j)
      \/ CommitJob \/ RetryWrite
      \/ \E x \in Deleters : CommitDeletion(x)
  <2>1. CASE UNCHANGED vars
    BY <2>1 DEF vars
  <2>2. ASSUME NEW j \in Jobs, FindDocument(j) \/ Audit(j) \/ RetryRead(j)
        PROVE  status' = status
    BY <2>2 DEF FindDocument, Audit, RetryRead
  <2>3. CASE InsertJob \/ IntakeRefused \/ IntakeDies \/ RetryRefused
    BY <2>3 DEF InsertJob, IntakeRefused, IntakeDies, RetryRefused
  <2>4. CASE SelectExpired \/ \E asked \in SUBSET Jobs : SelectAsked(asked)
    BY <2>4 DEF SelectExpired, SelectAsked, Begin
  <2>5. ASSUME NEW x \in Deleters, DeletionStep(x) \/ DeletionDies(x)
        PROVE  CommitDeletion(x) \/ status' = status
    BY <2>5, OtherDeletions DEF IInv
  <2> QED BY <2>1, <2>2, <2>3, <2>4, <2>5 DEF Next
<1> QED BY <1>1, <1>2, <1>3, <1>4, <1>5, <1>6, <1>7

\* Seen from outside, webhooks, workers, retries and deletions accept, close,
\* reopen and remove jobs as the job tables promise: a document never has two open
\* jobs and a deleted job never comes back (create_from_event, retry_job and
\* delete_jobs), for any number of jobs and documents.
THEOREM RetentionImplementsLifecycle == Spec => ImplementsLifecycle
<1>1. Init => Lifecycle!Init
  BY DEF Init, Lifecycle!Init, LifecycleState
<1>2. Init => InsertedAlone
  BY DEF Init, NoIntake, InsertedAlone
<1>3. IInv /\ InsertedAlone /\ [Next]_vars
         => InsertedAlone' /\ [Lifecycle!Next]_([j \in Jobs |-> LifecycleState(j)])
  BY InsertedAloneNext, StepRefines DEF IInv, Abstract
<1> QED
  BY <1>1, <1>2, <1>3, InvInit, InvNext, PTL DEF Spec, ImplementsLifecycle, Lifecycle!Spec
=============================================================================
