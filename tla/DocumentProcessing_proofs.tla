--------------------- MODULE DocumentProcessing_proofs ---------------------
(***************************************************************************)
(* Theorems about DocumentProcessing for every number of runs, fields,     *)
(* values, edits and failures, whether runs overlap or not.                *)
(*                                                                         *)
(* The inductive invariant is IInv: beside the types and the freshness of  *)
(* the snapshot it says what a run has to write (Valued), that nothing is  *)
(* written before the reload (NothingWrittenYet), that the correspondent   *)
(* is written only where the snapshot has none (StillEmpty), and that an   *)
(* audited item that is not behind the snapshot is in it (Recorded).       *)
(***************************************************************************)
EXTENDS DocumentProcessing, TLAPS

\* What a run is about to write is a value.
Valued ==
    \A r \in Runs :
        /\ pc[r] = "writeMatch" => match[r] \in Correspondents
        /\ \A f \in todo[r] : extracted[r][f] # NoValue

\* The snapshot has no correspondent while one is being written.
StillEmpty ==
    \A r \in Runs :
        pc[r] \in {"writeMatch", "writeDefault"} => beforeWrite[r]["correspondent"] = Empty

\* Steps up to the reload of the document.
Reading == {"queued", "load", "text", "noText", "select", "extract", "validate", "reload"}

\* A run writes nothing before it has reloaded the document, and audits only
\* behind a write.
NothingWrittenYet ==
    \A r \in Runs :
        /\ pc[r] \in Reading => written[r] = {}
        /\ pending[r] # NoEntry => pc[r] \in {"title", "fields"}

\* An entry that waits to be audited belongs to its run and was confirmed.
PendingWritten ==
    \A r \in Runs :
        pending[r] # NoEntry => pending[r].run = r /\ pending[r].item \in written[r]

\* An audited write was confirmed; unless its item is behind the snapshot,
\* the snapshot has the audited content and no other write of it waits.  The
\* snapshot never takes an audited title.
Recorded ==
    \A a \in audit :
        /\ a.item \in written[a.run]
        /\ a.item \notin behind[a.run] =>
              /\ a.item # "title"
              /\ beforeWrite[a.run][a.item] = a.new
              /\ pending[a.run] # NoEntry => pending[a.run].item # a.item

IInv ==
    /\ TypeOK
    /\ Valued
    /\ StillEmpty
    /\ NothingWrittenYet
    /\ PendingWritten
    /\ SnapshotFresh
    /\ Recorded

-----------------------------------------------------------------------------
(* Types.                                                                  *)

Document == [Items -> Contents \cup {Empty}]

\* The documents a PATCH produces are documents.
LEMMA PatchType ==
    ASSUME TypeOK, NEW r \in Runs
    PROVE  /\ \A i \in Items, v \in Contents \cup {Empty} : With(i, v) \in Document
           /\ \A f \in Fields, v \in FieldValues : Merged(r, f, v) \in Document
BY DEF TypeOK, Document, With, Merged, Contents, Items

\* The bounds stay within theirs.
LEMMA SpendKeepsBudget ==
    ASSUME TypeOK, NEW what \in {"edits", "faults"}, Spend(what)
    PROVE  budget' \in [edits : 0..MaxEdits, faults : 0..MaxFaults]
BY SMTT(20), ProcessingAssumption DEF TypeOK, Spend

\* A run that moves on stays within the steps.
LEMMA GotoType ==
    ASSUME TypeOK, NEW r \in Runs, NEW s \in Step, Goto(r, s)
    PROVE  pc' \in [Runs -> Step]
BY DEF TypeOK, Goto

\* A confirmed write keeps the types of what it changes.
LEMMA ConfirmType ==
    ASSUME TypeOK, NEW r \in Runs, NEW d \in Document, NEW i \in Items,
           NEW old \in Contents \cup {Empty}, NEW new \in Contents, Confirm(r, d, i, old, new)
    PROVE  /\ paperless' \in Document
           /\ behind' \in [Runs -> SUBSET Items]
           /\ written' \in [Runs -> SUBSET Items]
           /\ pending' \in [Runs -> Entry \cup {NoEntry}]
BY DEF TypeOK, Document, Confirm, Differs, Entry

\* So does a write that fails.
LEMMA PatchFailsType ==
    ASSUME TypeOK, NEW d \in Document, PatchFails(d)
    PROVE  /\ paperless' \in Document
           /\ behind' \in [Runs -> SUBSET Items]
           /\ written' \in [Runs -> SUBSET Items]
           /\ pending' \in [Runs -> Entry \cup {NoEntry}]
           /\ budget' \in [edits : 0..MaxEdits, faults : 0..MaxFaults]
<1>1. Spend("faults")
  BY DEF PatchFails
<1>2. QED
  BY <1>1, SpendKeepsBudget DEF TypeOK, Document, PatchFails, Differs

\* The document of a fresh installation of a run is within the domains.
LEMMA ProcessingTypeInit == Init => TypeOK
<1> SUFFICES ASSUME Init PROVE TypeOK
  OBVIOUS
<1> USE ProcessingAssumption
<1>1. budget \in [edits : 0..MaxEdits, faults : 0..MaxFaults]
  BY DEF Init
<1>2. pc \in [Runs -> Step] /\ known \subseteq Correspondents
  BY DEF Init, Step
<1>3. QED
  BY <1>1, <1>2 DEF Init, TypeOK

\* Reading, extracting and validating keep the types.
LEMMA ReadingType ==
    ASSUME TypeOK, NEW r \in Runs,
           \/ Start(r) \/ LoadDocument(r) \/ ReadDocumentText(r) \/ SelectTemplate(r)
           \/ ExtractFields(r) \/ ValidateResults(r) \/ ReloadMetadata(r)
    PROVE  TypeOK'
<1>1. CASE Start(r)
  <2>1. pc' \in [Runs -> Step]
    BY <1>1, GotoType DEF Start, Step, Working
  <2>2. QED
    BY <1>1, <2>1 DEF Start, TypeOK, remoteVars, runVars
<1>2. CASE LoadDocument(r)
  <2>1. pc' \in [Runs -> Step]
    BY <1>2, GotoType DEF LoadDocument, Step, Working
  <2>2. QED
    BY <1>2, <2>1 DEF LoadDocument, TypeOK, remoteVars, runVars
<1>3. CASE ReadDocumentText(r)
  <2>1. pc' \in [Runs -> Step]
    BY <1>3, GotoType DEF ReadDocumentText, Step, Working, Outcome
  <2>2. QED
    BY <1>3, <2>1 DEF ReadDocumentText, TypeOK, remoteVars, runVars
<1>4. CASE SelectTemplate(r)
  <2>1. pc' \in [Runs -> Step]
    BY <1>4, GotoType DEF SelectTemplate, Step, Working, Outcome
  <2>2. QED
    BY <1>4, <2>1 DEF SelectTemplate, TypeOK, remoteVars, runVars
<1>5. CASE ExtractFields(r)
  <2>1. pc' \in [Runs -> Step]
    BY <1>5, GotoType DEF ExtractFields, Step, Working
  <2>2. outside' \in [Runs -> SUBSET Scoped]
    BY <1>5 DEF ExtractFields, TypeOK
  <2>3. QED
    BY <1>5, <2>1, <2>2 DEF ExtractFields, TypeOK, remoteVars
<1>6. CASE ValidateResults(r)
  <2>1. pc' \in [Runs -> Step]
    BY <1>6, GotoType DEF ValidateResults, Step, Working
  <2>2. /\ extracted' \in [Runs -> [Configured -> FieldValues \cup {NoValue}]]
        /\ todo' \in [Runs -> SUBSET Configured]
    BY <1>6 DEF ValidateResults, TypeOK
  <2>3. QED
    BY <1>6, <2>1, <2>2 DEF ValidateResults, TypeOK, remoteVars
<1>7. CASE ReloadMetadata(r)
  <2>1. pc' \in [Runs -> Step]
    BY <1>7, GotoType DEF ReloadMetadata, Step, Working
  <2>2. /\ beforeWrite' \in [Runs -> Document]
        /\ behind' \in [Runs -> SUBSET Items]
    BY <1>7 DEF ReloadMetadata, TypeOK, Document
  <2>3. QED
    BY <1>7, <2>1, <2>2 DEF ReloadMetadata, TypeOK, remoteVars, runVars, Document
<1>8. QED
  BY <1>1, <1>2, <1>3, <1>4, <1>5, <1>6, <1>7

\* So does finding a correspondent, and the end of a run.
LEMMA DecidingType ==
    ASSUME TypeOK, NEW r \in Runs, MatchCorrespondent(r) \/ Complete(r) \/ RunFails(r)
    PROVE  TypeOK'
<1>1. CASE MatchCorrespondent(r)
  <2>1. pc' \in [Runs -> Step]
    BY <1>1, GotoType DEF MatchCorrespondent, Step, Working
  <2>2. known' \subseteq Correspondents
    BY <1>1, ProcessingAssumption DEF MatchCorrespondent, TypeOK
  <2>3. match' \in [Runs -> Correspondents \cup {NoValue}]
    BY <1>1, ProcessingAssumption DEF MatchCorrespondent, TypeOK
  <2>4. budget' \in [edits : 0..MaxEdits, faults : 0..MaxFaults]
    <3>1. Spend("faults") \/ UNCHANGED budget
      BY <1>1 DEF MatchCorrespondent
    <3>2. QED
      BY <3>1, SpendKeepsBudget DEF TypeOK
  <2>5. QED
    BY <1>1, <2>1, <2>2, <2>3, <2>4 DEF MatchCorrespondent, TypeOK
<1>2. CASE Complete(r)
  <2>1. pc' \in [Runs -> Step]
    BY <1>2, GotoType DEF Complete, Step, Outcome
  <2>2. QED
    BY <1>2, <2>1 DEF Complete, TypeOK, remoteVars, runVars
<1>3. CASE RunFails(r)
  <2>1. pc' \in [Runs -> Step]
    BY <1>3, GotoType DEF RunFails, Step, Outcome
  <2>2. budget' \in [edits : 0..MaxEdits, faults : 0..MaxFaults]
    BY <1>3, SpendKeepsBudget DEF RunFails
  <2>3. /\ pending' \in [Runs -> Entry \cup {NoEntry}]
        /\ behind' \in [Runs -> SUBSET Items]
    BY <1>3 DEF RunFails, TypeOK
  <2>4. QED
    BY <1>3, <2>1, <2>2, <2>3 DEF RunFails, TypeOK, remoteVars, runVars
<1>4. QED
  BY <1>1, <1>2, <1>3

\* A PATCH, confirmed or not, and its audit entry keep the types.
LEMMA WritingType ==
    ASSUME TypeOK, Valued, NEW r \in Runs, WriteStep(r) \/ AuditWrite(r)
    PROVE  TypeOK'
<1> USE ProcessingAssumption
<1>0. /\ "correspondent" \in Items /\ "title" \in Items /\ Configured \subseteq Items
      /\ Correspondents \subseteq Contents /\ Titles \subseteq Contents
      /\ FieldValues \subseteq Contents
  BY DEF Items, Contents
<1>1. CASE WriteMatch(r)
  <2>1. match[r] \in Correspondents
    BY <1>1 DEF WriteMatch, At, Valued
  <2>2. With("correspondent", match[r]) \in Document
    BY <1>0, <2>1, PatchType
  <2>3. pc' \in [Runs -> Step]
    BY <1>1, GotoType DEF WriteMatch, Step, Working
  <2>4. CASE Confirm(r, With("correspondent", match[r]), "correspondent", Empty, match[r])
                /\ UNCHANGED budget
    <3>1. match[r] \in Contents
      BY <1>0, <2>1
    <3>2. /\ paperless' \in Document
          /\ behind' \in [Runs -> SUBSET Items]
          /\ written' \in [Runs -> SUBSET Items]
          /\ pending' \in [Runs -> Entry \cup {NoEntry}]
      BY <1>0, <2>2, <2>4, <3>1, ConfirmType
    <3>3. QED
      BY <1>1, <2>3, <2>4, <3>2 DEF WriteMatch, TypeOK, Document, remoteVars, runVars
  <2>5. CASE PatchFails(With("correspondent", match[r]))
    BY <1>1, <2>2, <2>3, <2>5, PatchFailsType DEF WriteMatch, TypeOK, Document, remoteVars, runVars
  <2>6. QED
    BY <1>1, <2>4, <2>5 DEF WriteMatch
<1>2. CASE WriteDefault(r)
  <2>1. With("correspondent", Default) \in Document
    BY <1>0, PatchType
  <2>2. pc' \in [Runs -> Step]
    BY <1>2, GotoType DEF WriteDefault, Step, Working
  <2>3. known' \subseteq Correspondents /\ match' \in [Runs -> Correspondents \cup {NoValue}]
    <3>1. known' = known \/ known' = known \cup {Default}
      BY <1>2 DEF WriteDefault
    <3>2. match' = match \/ match' = [match EXCEPT ![r] = Default]
      BY <1>2 DEF WriteDefault
    <3>3. Default \in Correspondents
      BY ProcessingAssumption
    <3>4. known' \subseteq Correspondents
      BY <3>1, <3>3 DEF TypeOK
    <3>5. match' \in [Runs -> Correspondents \cup {NoValue}]
      BY <3>2, <3>3 DEF TypeOK
    <3>6. QED
      BY <3>4, <3>5
  <2>4. CASE Confirm(r, With("correspondent", Default), "correspondent", Empty, Default)
                /\ UNCHANGED budget
    <3>1. /\ paperless' \in Document
          /\ behind' \in [Runs -> SUBSET Items]
          /\ written' \in [Runs -> SUBSET Items]
          /\ pending' \in [Runs -> Entry \cup {NoEntry}]
      BY <1>0, <2>1, <2>4, ConfirmType
    <3>2. QED
      BY <1>2, <2>2, <2>3, <2>4, <3>1 DEF WriteDefault, TypeOK, Document
  <2>5. CASE PatchFails(With("correspondent", Default))
    BY <1>2, <2>1, <2>2, <2>3, <2>5, PatchFailsType DEF WriteDefault, TypeOK, Document
  <2>6. CASE Spend("faults") /\ UNCHANGED <<paperless, behind, written, match, pending>>
    BY <1>2, <2>2, <2>3, <2>6, SpendKeepsBudget DEF WriteDefault, TypeOK
  <2>7. QED
    BY <1>2, <2>4, <2>5, <2>6 DEF WriteDefault
<1>3. CASE WriteTitle(r)
  <2>1. pc' \in [Runs -> Step]
    BY <1>3, GotoType DEF WriteTitle, Step, Working
  <2>2. CASE UNCHANGED <<paperless, behind, written, pending, budget>>
    BY <1>3, <2>1, <2>2 DEF WriteTitle, TypeOK, remoteVars, runVars
  <2>3. ASSUME NEW t \in Titles, UNCHANGED budget,
               Confirm(r, With("title", t), "title", beforeWrite[r]["title"], t)
        PROVE  TypeOK'
    <3>1. With("title", t) \in Document
      BY <1>0, PatchType
    <3>2. beforeWrite[r]["title"] \in Contents \cup {Empty}
      BY <1>0 DEF TypeOK
    <3>3. /\ paperless' \in Document
          /\ behind' \in [Runs -> SUBSET Items]
          /\ written' \in [Runs -> SUBSET Items]
          /\ pending' \in [Runs -> Entry \cup {NoEntry}]
      BY <1>0, <2>3, <3>1, <3>2, ConfirmType
    <3>4. QED
      BY <1>3, <2>1, <2>3, <3>3 DEF WriteTitle, TypeOK, Document, remoteVars, runVars
  <2>4. ASSUME NEW t \in Titles, PatchFails(With("title", t)) PROVE TypeOK'
    <3>1. With("title", t) \in Document
      BY <1>0, PatchType
    <3>2. QED
      BY <1>3, <2>1, <2>4, <3>1, PatchFailsType
         DEF WriteTitle, TypeOK, Document, remoteVars, runVars
  <2>5. QED
    BY <1>3, <2>2, <2>3, <2>4 DEF WriteTitle
<1>4. ASSUME NEW f \in Configured, WriteField(r, f) PROVE TypeOK'
  <2> DEFINE v == extracted[r][f]
  <2>1. f \in Fields /\ v \in FieldValues
    BY <1>4 DEF WriteField, Valued, TypeOK
  <2>2. Merged(r, f, v) \in Document
    BY <2>1, PatchType
  <2>3. todo' \in [Runs -> SUBSET Configured]
    BY <1>4 DEF WriteField, TypeOK
  <2>4. CASE UNCHANGED <<paperless, behind, written, pending, budget>>
    BY <1>4, <2>3, <2>4 DEF WriteField, TypeOK, remoteVars
  <2>5. CASE Confirm(r, Merged(r, f, v), f, Empty, v) /\ UNCHANGED budget
    <3>1. /\ paperless' \in Document
          /\ behind' \in [Runs -> SUBSET Items]
          /\ written' \in [Runs -> SUBSET Items]
          /\ pending' \in [Runs -> Entry \cup {NoEntry}]
      <4>1. f \in Items /\ v \in Contents
        BY <1>0, <2>1
      <4>2. QED
        BY <2>2, <2>5, <4>1, ConfirmType
    <3>2. QED
      BY <1>4, <2>3, <2>5, <3>1 DEF WriteField, TypeOK, Document, remoteVars
  <2>6. CASE PatchFails(Merged(r, f, v))
    BY <1>4, <2>2, <2>3, <2>6, PatchFailsType DEF WriteField, TypeOK, Document, remoteVars
  <2>7. QED
    BY <1>4, <2>4, <2>5, <2>6 DEF WriteField
<1>5. CASE AuditWrite(r)
  <2>1. pending[r] \in Entry /\ pending[r].item \in Items /\ pending[r].new \in Contents
    BY <1>5 DEF AuditWrite, TypeOK, Entry
  <2>2. audit' \subseteq Entry /\ pending' \in [Runs -> Entry \cup {NoEntry}]
    BY <1>5, <2>1 DEF AuditWrite, TypeOK
  <2>3. behind' \in [Runs -> SUBSET Items]
    BY <1>5, <2>1 DEF AuditWrite, TypeOK
  <2>4. beforeWrite' \in [Runs -> Document]
    <3>1. CASE pending[r].item = "title"
      BY <1>5, <3>1 DEF AuditWrite, TypeOK, Document
    <3>2. CASE pending[r].item # "title"
      <4>1. beforeWrite' = [beforeWrite EXCEPT ![r] =
                              [beforeWrite[r] EXCEPT ![pending[r].item] = pending[r].new]]
        BY <1>5, <3>2 DEF AuditWrite
      <4>2. [beforeWrite[r] EXCEPT ![pending[r].item] = pending[r].new] \in Document
        BY <2>1 DEF TypeOK, Document
      <4>3. QED
        BY <4>1, <4>2 DEF TypeOK, Document
    <3>3. QED
      BY <3>1, <3>2
  <2>5. QED
    BY <1>5, <2>2, <2>3, <2>4 DEF AuditWrite, TypeOK, Document, remoteVars, runVars
<1>6. QED
  BY <1>1, <1>2, <1>3, <1>4, <1>5 DEF WriteStep

\* Every step keeps the types.
LEMMA ProcessingTypeStep == TypeOK /\ Valued /\ [Next]_vars => TypeOK'
<1> SUFFICES ASSUME TypeOK, Valued, [Next]_vars PROVE TypeOK'
  OBVIOUS
<1>1. ASSUME NEW i \in Items, NEW v \in Contents \cup {Empty}, UserEdits(i, v) PROVE TypeOK'
  <2>1. With(i, v) \in Document
    BY DEF With, Document, TypeOK
  <2>2. budget' \in [edits : 0..MaxEdits, faults : 0..MaxFaults]
    BY <1>1, SpendKeepsBudget DEF UserEdits
  <2>3. behind' \in [Runs -> SUBSET Items]
    BY <1>1 DEF UserEdits, TypeOK
  <2>4. QED
    BY <1>1, <2>1, <2>2, <2>3 DEF UserEdits, TypeOK, Document, remoteVars, runVars
<1>2. CASE OcrFinishes
  BY <1>2 DEF OcrFinishes, TypeOK, runVars
<1>3. ASSUME NEW r \in Runs, RunStep(r) PROVE TypeOK'
  BY <1>3, ReadingType, DecidingType, WritingType DEF RunStep
<1>4. CASE UNCHANGED vars
  BY <1>4 DEF vars, TypeOK, remoteVars, runVars
<1>5. QED
  BY <1>1, <1>2, <1>3, <1>4 DEF Next

-----------------------------------------------------------------------------
(* The snapshot and the audit.                                             *)

\* What the snapshot, the document and the audit say about each other.
Faithful == SnapshotFresh /\ PendingWritten /\ Recorded

\* A step without a confirmed write keeps them faithful when it puts behind
\* the snapshots every item it changes.
LEMMA UnconfirmedKeepsFaithful ==
    ASSUME TypeOK, Faithful, UNCHANGED <<beforeWrite, pending, audit, written>>,
           \A q \in Runs : \A k \in Items \ behind'[q] :
               k \notin behind[q] /\ paperless'[k] = paperless[k]
    PROVE  Faithful'
<1>1. SnapshotFresh'
  BY DEF Faithful, SnapshotFresh, Believed
<1>2. PendingWritten'
  BY DEF Faithful, PendingWritten
<1>3. Recorded'
  <2> SUFFICES ASSUME NEW a \in audit
               PROVE  /\ a.item \in written[a.run]
                      /\ a.item \notin behind'[a.run] =>
                            /\ a.item # "title"
                            /\ beforeWrite[a.run][a.item] = a.new
                            /\ pending[a.run] # NoEntry => pending[a.run].item # a.item
    BY DEF Recorded
  <2>1. a.run \in Runs /\ a.item \in Items
    BY DEF TypeOK, Entry
  <2>2. QED
    BY <2>1 DEF Faithful, Recorded
<1>4. QED
  BY <1>1, <1>2, <1>3 DEF Faithful

\* A failing PATCH does.
LEMMA PatchFailsKeepsFaithful ==
    ASSUME TypeOK, Faithful, NEW d \in Document, PatchFails(d), UNCHANGED <<beforeWrite, audit>>
    PROVE  Faithful'
BY UnconfirmedKeepsFaithful DEF PatchFails, Differs, TypeOK, Document

\* A confirmed PATCH keeps them faithful when no earlier audit entry of the
\* run is about the item, and the document it leaves has the written value
\* and, where the snapshot is right, its other items.
LEMMA ConfirmKeepsFaithful ==
    ASSUME TypeOK, Faithful, NEW r \in Runs, NEW d \in Document, NEW i \in Items,
           NEW old, NEW new, Confirm(r, d, i, old, new), UNCHANGED <<beforeWrite, audit>>,
           pending[r] = NoEntry, pending'[r] # NoEntry, d[i] = new,
           \A k \in Items \ {i} : k \notin behind[r] => d[k] = paperless[k],
           \A a \in audit : a.run = r /\ a.item = i => i \in behind[r]
    PROVE  Faithful'
<1>1. /\ \A q \in Runs : behind[q] \subseteq behind'[q] /\ written[q] \subseteq written'[q]
      /\ \A q \in Runs \ {r} : pending'[q] = pending[q]
      /\ pending'[r].item = i /\ pending'[r].run = r /\ pending'[r].new = new
      /\ i \in written'[r]
  BY DEF Confirm, TypeOK
<1>2. SnapshotFresh'
  <2> SUFFICES ASSUME NEW q \in Runs, NEW k \in Items, k \notin behind'[q]
               PROVE  paperless'[k] = Believed(q, k)'
    BY DEF SnapshotFresh
  <2>1. k \notin behind[q] /\ paperless[k] = Believed(q, k) /\ paperless' = d
    BY <1>1 DEF Faithful, SnapshotFresh, Confirm
  <2>2. CASE q # r
    <3>1. d[k] = paperless[k]
      BY <2>2 DEF Confirm, Differs, TypeOK
    <3>2. QED
      BY <1>1, <2>1, <2>2, <3>1 DEF Believed
  <2>3. CASE q = r /\ k = i
    BY <1>1, <2>1, <2>3 DEF Believed
  <2>4. CASE q = r /\ k # i
    BY <1>1, <2>1, <2>4 DEF Believed
  <2>5. QED
    BY <2>2, <2>3, <2>4
<1>3. PendingWritten'
  BY <1>1 DEF Faithful, PendingWritten
<1>4. Recorded'
  <2> SUFFICES ASSUME NEW a \in audit
               PROVE  /\ a.item \in written'[a.run]
                      /\ a.item \notin behind'[a.run] =>
                            /\ a.item # "title"
                            /\ beforeWrite[a.run][a.item] = a.new
                            /\ pending'[a.run] # NoEntry => pending'[a.run].item # a.item
    BY DEF Recorded
  <2>1. a.run \in Runs /\ a.item \in Items
    BY DEF TypeOK, Entry
  <2>2. CASE a.run = r /\ a.item = i
    BY <1>1, <2>1, <2>2 DEF Faithful, Recorded
  <2>3. CASE ~(a.run = r /\ a.item = i)
    BY <1>1, <2>1, <2>3 DEF Faithful, Recorded
  <2>4. QED
    BY <2>2, <2>3
<1>5. QED
  BY <1>2, <1>3, <1>4 DEF Faithful

\* The writes of WRITE_METADATA keep snapshot, document and audit faithful.
LEMMA WritesKeepFaithful ==
    ASSUME IInv, NEW r \in Runs, WriteStep(r)
    PROVE  Faithful'
<1> USE ProcessingAssumption
<1>0. /\ TypeOK /\ Faithful
      /\ "correspondent" \in Items /\ "title" \in Items /\ Configured \subseteq Fields
      /\ Fields \subseteq Items /\ Correspondents \subseteq Contents /\ Titles \subseteq Contents
      /\ FieldValues \subseteq Contents
  BY DEF IInv, Faithful, Items, Contents
<1>1. pending[r] = NoEntry /\ UNCHANGED <<beforeWrite, audit>>
  BY DEF WriteStep, WriteMatch, WriteDefault, WriteTitle, WriteField, At
<1>2. ASSUME NEW i \in Items, NEW v \in Contents
      PROVE  /\ With(i, v) \in Document /\ With(i, v)[i] = v
             /\ \A k \in Items \ {i} : With(i, v)[k] = paperless[k]
  BY <1>0 DEF TypeOK, With, Document
\* An item that the snapshot shows as empty has no audit entry that stands.
<1>3. ASSUME NEW i \in Items, beforeWrite[r][i] = Empty,
             NEW a \in audit, a.run = r, a.item = i
      PROVE  i \in behind[r]
  <2>1. a.new \in Contents
    BY <1>0 DEF TypeOK, Entry
  <2>2. QED
    BY <1>0, <1>3, <2>1 DEF Faithful, Recorded
<1>4. ASSUME NEW i \in Items, NEW d, NEW old, NEW new, Confirm(r, d, i, old, new)
      PROVE  pending'[r] # NoEntry \/ ~(old \in Contents \cup {Empty} /\ new \in Contents)
  <2>1. pending'[r] = [run |-> r, item |-> i, old |-> old, new |-> new]
    BY <1>0, <1>4 DEF Confirm, TypeOK
  <2>2. QED
    BY <2>1, NoEntryAssumption DEF Entry
\* The correspondent, whether matched or default.
<1>5. ASSUME NEW c \in Correspondents, beforeWrite[r]["correspondent"] = Empty,
             Confirm(r, With("correspondent", c), "correspondent", Empty, c)
      PROVE  Faithful'
  <2>1. c \in Contents
    BY <1>0
  <2>2. pending'[r] # NoEntry
    BY <1>0, <1>4, <1>5, <2>1
  <2>3. \A a \in audit : a.run = r /\ a.item = "correspondent" => "correspondent" \in behind[r]
    BY <1>0, <1>3, <1>5
  <2>4. QED
    BY <1>0, <1>1, <1>2, <1>5, <2>1, <2>2, <2>3, ConfirmKeepsFaithful
<1>6. ASSUME NEW i \in Items, NEW v \in Contents, PatchFails(With(i, v)) PROVE Faithful'
  BY <1>0, <1>1, <1>2, <1>6, PatchFailsKeepsFaithful
<1>7. ASSUME UNCHANGED <<paperless, behind, pending, written>> PROVE Faithful'
  BY <1>0, <1>1, <1>7, UnconfirmedKeepsFaithful
<1>8. CASE WriteMatch(r)
  <2>1. match[r] \in Correspondents /\ beforeWrite[r]["correspondent"] = Empty
    BY <1>8 DEF WriteMatch, At, IInv, Valued, StillEmpty
  <2>2. CASE Confirm(r, With("correspondent", match[r]), "correspondent", Empty, match[r])
    BY <1>5, <2>1, <2>2
  <2>3. CASE PatchFails(With("correspondent", match[r]))
    BY <1>0, <1>6, <2>1, <2>3
  <2>4. QED
    BY <1>8, <2>2, <2>3 DEF WriteMatch
<1>9. CASE WriteDefault(r)
  <2>1. beforeWrite[r]["correspondent"] = Empty
    BY <1>9 DEF WriteDefault, At, IInv, StillEmpty
  <2>2. CASE Confirm(r, With("correspondent", Default), "correspondent", Empty, Default)
    BY <1>5, <2>1, <2>2
  <2>3. CASE PatchFails(With("correspondent", Default))
    BY <1>0, <1>6, <2>3
  <2>4. CASE UNCHANGED <<paperless, behind, written, match, pending>>
    BY <1>7, <2>4
  <2>5. QED
    BY <1>9, <2>2, <2>3, <2>4 DEF WriteDefault
<1>10. CASE WriteTitle(r)
  <2>1. ASSUME NEW t \in Titles,
               Confirm(r, With("title", t), "title", beforeWrite[r]["title"], t)
        PROVE  Faithful'
    <3>1. t \in Contents /\ beforeWrite[r]["title"] \in Contents \cup {Empty}
      BY <1>0 DEF TypeOK
    <3>2. pending'[r] # NoEntry
      BY <1>0, <1>4, <2>1, <3>1
    <3>3. \A a \in audit : a.run = r /\ a.item = "title" => "title" \in behind[r]
      BY <1>0 DEF Faithful, Recorded
    <3>4. QED
      BY <1>0, <1>1, <1>2, <2>1, <3>1, <3>2, <3>3, ConfirmKeepsFaithful
  <2>2. ASSUME NEW t \in Titles, PatchFails(With("title", t)) PROVE Faithful'
    BY <1>0, <1>6, <2>2
  <2>3. QED
    BY <1>7, <1>10, <2>1, <2>2 DEF WriteTitle
<1>11. ASSUME NEW f \in Configured, WriteField(r, f) PROVE Faithful'
  <2> DEFINE v == extracted[r][f]
             d == Merged(r, f, v)
  <2>1. f \in Fields /\ f \in Items /\ v \in FieldValues /\ v \in Contents
    BY <1>0, <1>11 DEF WriteField, IInv, Valued, TypeOK
  <2>2. d \in Document
    BY <1>0, <2>1, PatchType
  <2>3. CASE beforeWrite[r][f] = Empty /\ Confirm(r, d, f, Empty, v)
    <3>1. pending'[r] # NoEntry
      BY <1>4, <2>1, <2>3
    <3>2. \A a \in audit : a.run = r /\ a.item = f => f \in behind[r]
      BY <1>3, <2>1, <2>3
    <3>3. d[f] = v
      BY <2>1 DEF Merged
    <3>4. \A k \in Items \ {f} : k \notin behind[r] => d[k] = paperless[k]
      BY <1>0, <1>1 DEF Merged, Faithful, SnapshotFresh, Believed
    <3>5. QED
      BY <1>0, <1>1, <2>1, <2>2, <2>3, <3>1, <3>2, <3>3, <3>4, ConfirmKeepsFaithful
  <2>4. CASE PatchFails(d)
    BY <1>0, <1>1, <2>2, <2>4, PatchFailsKeepsFaithful
  <2>5. QED
    BY <1>7, <1>11, <2>3, <2>4 DEF WriteField
<1>12. QED
  BY <1>8, <1>9, <1>10, <1>11 DEF WriteStep

\* The commit of an audit entry does, and the snapshot takes its content.
LEMMA AuditKeepsFaithful ==
    ASSUME IInv, NEW r \in Runs, AuditWrite(r)
    PROVE  Faithful'
<1> DEFINE e == pending[r]
<1>0. TypeOK /\ Faithful
  BY DEF IInv, Faithful
<1>1. /\ e \in Entry /\ e.run = r /\ e.item \in Items /\ e.new \in Contents
      /\ e.item \in written[r]
  BY <1>0 DEF AuditWrite, TypeOK, Entry, Faithful, PendingWritten
<1>2. /\ \A q \in Runs \ {r} : /\ beforeWrite'[q] = beforeWrite[q] /\ behind'[q] = behind[q]
                               /\ pending'[q] = pending[q]
      /\ pending'[r] = NoEntry
      /\ behind[r] \subseteq behind'[r]
  BY <1>0 DEF AuditWrite, TypeOK
<1>3. \A k \in Items \ {e.item} : beforeWrite'[r][k] = beforeWrite[r][k]
  BY <1>0, <1>1 DEF AuditWrite, TypeOK
<1>4. e.item \notin behind'[r] => e.item # "title" /\ beforeWrite'[r][e.item] = e.new
  BY <1>0, <1>1 DEF AuditWrite, TypeOK
<1>5. SnapshotFresh'
  <2> SUFFICES ASSUME NEW q \in Runs, NEW k \in Items, k \notin behind'[q]
               PROVE  paperless[k] = Believed(q, k)'
    BY DEF SnapshotFresh, AuditWrite
  <2>1. paperless[k] = Believed(q, k)
    BY <1>0, <1>2 DEF Faithful, SnapshotFresh
  <2>2. CASE q # r
    BY <1>2, <2>1, <2>2 DEF Believed
  <2>3. CASE q = r /\ k = e.item
    BY <1>2, <1>4, <2>1, <2>3 DEF Believed, AuditWrite
  <2>4. CASE q = r /\ k # e.item
    BY <1>2, <1>3, <2>1, <2>4 DEF Believed
  <2>5. QED
    BY <2>2, <2>3, <2>4
<1>6. PendingWritten'
  BY <1>0, <1>2 DEF Faithful, PendingWritten, AuditWrite
<1>7. Recorded'
  <2> SUFFICES ASSUME NEW a \in audit \cup {e}
               PROVE  /\ a.item \in written[a.run]
                      /\ a.item \notin behind'[a.run] =>
                            /\ a.item # "title"
                            /\ beforeWrite'[a.run][a.item] = a.new
                            /\ pending'[a.run] # NoEntry => pending'[a.run].item # a.item
    BY DEF Recorded, AuditWrite
  <2>1. a.run \in Runs /\ a.item \in Items
    BY <1>0, <1>1 DEF TypeOK, Entry
  <2>2. CASE a = e
    BY <1>1, <1>2, <1>4, <2>2
  <2>3. CASE a \in audit /\ a.run # r
    BY <1>0, <1>2, <2>1, <2>3 DEF Faithful, Recorded
  <2>4. CASE a \in audit /\ a.run = r
    <3>1. a.item \notin behind[r] => a.item # e.item
      BY <1>0, <2>4 DEF Faithful, Recorded, AuditWrite
    <3>2. QED
      BY <1>0, <1>2, <1>3, <2>1, <2>4, <3>1 DEF Faithful, Recorded
  <2>5. QED
    BY <2>2, <2>3, <2>4
<1>8. QED
  BY <1>5, <1>6, <1>7 DEF Faithful

\* The reload makes the snapshot right about everything; the run has audited
\* nothing before it.
LEMMA ReloadKeepsFaithful ==
    ASSUME IInv, NEW r \in Runs, ReloadMetadata(r)
    PROVE  Faithful'
<1>0. TypeOK /\ Faithful /\ NothingWrittenYet
  BY DEF IInv, Faithful
<1>1. written[r] = {} /\ pending[r] = NoEntry
  BY <1>0 DEF NothingWrittenYet, ReloadMetadata, At, Reading
<1>2. SnapshotFresh'
  BY <1>0, <1>1 DEF Faithful, SnapshotFresh, Believed, ReloadMetadata, TypeOK
<1>3. PendingWritten'
  BY <1>0 DEF Faithful, PendingWritten, ReloadMetadata
<1>4. Recorded'
  <2> SUFFICES ASSUME NEW a \in audit
               PROVE  /\ a.item \in written[a.run]
                      /\ a.item \notin behind'[a.run] =>
                            /\ a.item # "title"
                            /\ beforeWrite'[a.run][a.item] = a.new
                            /\ pending[a.run] # NoEntry => pending[a.run].item # a.item
    BY DEF Recorded, ReloadMetadata
  <2>1. a.run \in Runs /\ a.item \in Items /\ a.run # r
    BY <1>0, <1>1 DEF TypeOK, Entry, Faithful, Recorded
  <2>2. QED
    BY <1>0, <2>1 DEF Faithful, Recorded, ReloadMetadata, TypeOK
<1>5. QED
  BY <1>2, <1>3, <1>4 DEF Faithful

\* A run that ends knows nothing of the document any more.
LEMMA EndKeepsFaithful ==
    ASSUME TypeOK, Faithful, NEW r \in Runs, RunFails(r)
    PROVE  Faithful'
<1>1. /\ behind'[r] = Items /\ pending'[r] = NoEntry
      /\ \A q \in Runs \ {r} : behind'[q] = behind[q] /\ pending'[q] = pending[q]
  BY DEF RunFails, TypeOK
<1>2. SnapshotFresh'
  BY <1>1 DEF Faithful, SnapshotFresh, Believed, RunFails
<1>3. PendingWritten'
  BY <1>1 DEF Faithful, PendingWritten, RunFails
<1>4. Recorded'
  <2> SUFFICES ASSUME NEW a \in audit
               PROVE  /\ a.item \in written[a.run]
                      /\ a.item \notin behind'[a.run] =>
                            /\ a.item # "title"
                            /\ beforeWrite[a.run][a.item] = a.new
                            /\ pending'[a.run] # NoEntry => pending'[a.run].item # a.item
    BY DEF Recorded, RunFails
  <2>1. a.run \in Runs /\ a.item \in Items
    BY DEF TypeOK, Entry
  <2>2. QED
    BY <1>1, <2>1 DEF Faithful, Recorded
<1>5. QED
  BY <1>2, <1>3, <1>4 DEF Faithful

\* No step takes them apart.
LEMMA FaithfulStep == IInv /\ [Next]_vars => Faithful'
<1> SUFFICES ASSUME IInv, [Next]_vars PROVE Faithful'
  OBVIOUS
<1>0. TypeOK /\ Faithful
  BY DEF IInv, Faithful
<1>1. ASSUME UNCHANGED <<paperless, beforeWrite, pending, audit, behind, written>> PROVE Faithful'
  BY <1>0, <1>1, UnconfirmedKeepsFaithful
<1>2. ASSUME NEW i \in Items, NEW v \in Contents \cup {Empty}, UserEdits(i, v) PROVE Faithful'
  <2>1. \A q \in Runs : \A k \in Items \ behind'[q] :
            k \notin behind[q] /\ paperless'[k] = paperless[k]
    BY <1>0, <1>2 DEF UserEdits, With, TypeOK
  <2>2. QED
    BY <1>0, <1>2, <2>1, UnconfirmedKeepsFaithful DEF UserEdits
<1>3. CASE OcrFinishes
  BY <1>1, <1>3 DEF OcrFinishes
<1>4. ASSUME NEW r \in Runs, RunStep(r) PROVE Faithful'
  <2>1. CASE \/ Start(r) \/ LoadDocument(r) \/ ReadDocumentText(r) \/ SelectTemplate(r)
             \/ ExtractFields(r) \/ ValidateResults(r)
    BY <1>1, <2>1 DEF Start, LoadDocument, ReadDocumentText, SelectTemplate, ExtractFields,
                      ValidateResults
  <2>2. CASE MatchCorrespondent(r) \/ Complete(r)
    BY <1>1, <2>2 DEF MatchCorrespondent, Complete
  <2>3. QED
    BY <1>0, <1>4, <2>1, <2>2, ReloadKeepsFaithful, WritesKeepFaithful, AuditKeepsFaithful,
       EndKeepsFaithful DEF RunStep
<1>5. CASE UNCHANGED vars
  BY <1>1, <1>5 DEF vars
<1>6. QED
  BY <1>2, <1>3, <1>4, <1>5 DEF Next

-----------------------------------------------------------------------------
(* Control of a run.                                                       *)

\* What the place of a run in the code says about its variables.
Placed == Valued /\ StillEmpty /\ NothingWrittenYet

\* A run that does not move stays placed, and only its own steps move it.
LEMMA OthersKeepPlaced ==
    ASSUME TypeOK, Placed, NEW r \in Runs, RunStep(r), NEW q \in Runs, q # r
    PROVE  /\ pc'[q] = pc[q] /\ match'[q] = match[q] /\ todo'[q] = todo[q]
           /\ extracted'[q] = extracted[q] /\ beforeWrite'[q] = beforeWrite[q]
           /\ written'[q] = written[q] /\ pending'[q] = pending[q]
<1> USE DEF TypeOK, Goto, runVars
<1>1. CASE Start(r) \/ LoadDocument(r) \/ ReadDocumentText(r) \/ SelectTemplate(r)
  BY <1>1 DEF Start, LoadDocument, ReadDocumentText, SelectTemplate
<1>2. CASE ExtractFields(r) \/ ValidateResults(r) \/ ReloadMetadata(r)
  BY <1>2 DEF ExtractFields, ValidateResults, ReloadMetadata
<1>3. CASE MatchCorrespondent(r) \/ Complete(r) \/ RunFails(r)
  BY <1>3 DEF MatchCorrespondent, Complete, RunFails
<1>4. CASE WriteMatch(r)
  BY <1>4 DEF WriteMatch, Confirm, PatchFails
<1>5. CASE WriteDefault(r)
  BY <1>5 DEF WriteDefault, Confirm, PatchFails
<1>6. CASE WriteTitle(r)
  BY <1>6 DEF WriteTitle, Confirm, PatchFails
<1>7. ASSUME NEW f \in Configured, WriteField(r, f)
      PROVE  /\ pc'[q] = pc[q] /\ match'[q] = match[q] /\ todo'[q] = todo[q]
             /\ extracted'[q] = extracted[q] /\ beforeWrite'[q] = beforeWrite[q]
             /\ written'[q] = written[q] /\ pending'[q] = pending[q]
  BY <1>7 DEF WriteField, Confirm, PatchFails
<1>8. CASE AuditWrite(r)
  BY <1>8 DEF AuditWrite
<1>9. QED
  BY <1>1, <1>2, <1>3, <1>4, <1>5, <1>6, <1>7, <1>8 DEF RunStep, WriteStep

\* The three parts of Placed for one run.
PlacedAt(r) ==
    /\ pc[r] = "writeMatch" => match[r] \in Correspondents
    /\ \A f \in todo[r] : extracted[r][f] # NoValue
    /\ pc[r] \in {"writeMatch", "writeDefault"} => beforeWrite[r]["correspondent"] = Empty
    /\ pc[r] \in Reading => written[r] = {}
    /\ pending[r] # NoEntry => pc[r] \in {"title", "fields"}

\* The steps of a run keep it placed.
LEMMA OwnStepPlaced ==
    ASSUME TypeOK, Placed, NEW r \in Runs, RunStep(r)
    PROVE  PlacedAt(r)'
<1>0. PlacedAt(r)
  BY DEF Placed, Valued, StillEmpty, NothingWrittenYet, PlacedAt
<1> USE <1>0 DEF PlacedAt, TypeOK, Goto, At, Reading, runVars, Outcome, Working
<1>1. CASE Start(r)
  BY <1>1 DEF Start
<1>2. CASE LoadDocument(r)
  BY <1>2 DEF LoadDocument
<1>3. CASE ReadDocumentText(r)
  BY <1>3 DEF ReadDocumentText
<1>4. CASE SelectTemplate(r)
  BY <1>4 DEF SelectTemplate
<1>5. CASE ExtractFields(r)
  BY <1>5 DEF ExtractFields
<1>6. CASE ValidateResults(r)
  <2>1. PICK e \in [Configured -> FieldValues \cup {NoValue}] :
            /\ extracted' = [extracted EXCEPT ![r] = e]
            /\ todo' = [todo EXCEPT ![r] = {f \in Configured : e[f] # NoValue}]
    BY <1>6 DEF ValidateResults
  <2>2. \A f \in todo'[r] : extracted'[r][f] # NoValue
    BY <2>1
  <2>3. QED
    BY <1>6, <2>2 DEF ValidateResults
<1>7. CASE ReloadMetadata(r)
  BY <1>7 DEF ReloadMetadata
<1>8. CASE MatchCorrespondent(r)
  <2>1. \A c \in known \cup {Default} : c \in Correspondents
    BY ProcessingAssumption
  <2>2. QED
    BY <1>8, <2>1 DEF MatchCorrespondent
<1>9. CASE WriteMatch(r)
  <2>1. /\ pc[r] = "writeMatch" /\ pending[r] = NoEntry
        /\ UNCHANGED <<extracted, todo, beforeWrite>>
    BY <1>9 DEF WriteMatch
  <2>2. pc'[r] = "title" \/ (pc'[r] = "writeDefault" /\ pending'[r] = NoEntry)
    BY <1>9, <2>1 DEF WriteMatch, PatchFails
  <2>3. QED
    BY <2>1, <2>2
<1>10. CASE WriteDefault(r)
  <2>1. pc'[r] = "title" /\ pc[r] \notin Reading
    BY <1>10 DEF WriteDefault
  <2>2. UNCHANGED <<extracted, todo>>
    BY <1>10 DEF WriteDefault
  <2>3. QED
    BY <2>1, <2>2
<1>11. CASE WriteTitle(r)
  BY <1>11 DEF WriteTitle
<1>12. ASSUME NEW f \in Configured, WriteField(r, f) PROVE PlacedAt(r)'
  <2>1. pc'[r] = "fields" /\ extracted' = extracted /\ todo'[r] \subseteq todo[r]
    BY <1>12 DEF WriteField
  <2>2. QED
    BY <2>1
<1>13. CASE AuditWrite(r)
  <2>1. pc[r] \notin Reading
    BY <1>13 DEF AuditWrite
  <2>2. pc[r] \notin {"writeMatch", "writeDefault"}
    BY <1>13 DEF AuditWrite
  <2>3. QED
    BY <1>13, <2>1, <2>2 DEF AuditWrite
<1>14. CASE Complete(r)
  BY <1>14 DEF Complete
<1>15. CASE RunFails(r)
  BY <1>15 DEF RunFails
<1>16. QED
  BY <1>1, <1>2, <1>3, <1>4, <1>5, <1>6, <1>7, <1>8, <1>9, <1>10, <1>11, <1>12, <1>13, <1>14, <1>15
     DEF RunStep, WriteStep

\* Every step keeps every run placed.
LEMMA PlacedStep == TypeOK /\ Placed /\ [Next]_vars => Placed'
<1> SUFFICES ASSUME TypeOK, Placed, [Next]_vars PROVE Placed'
  OBVIOUS
<1>0. \A r \in Runs : PlacedAt(r)
  BY DEF Placed, Valued, StillEmpty, NothingWrittenYet, PlacedAt
<1>1. ASSUME \A r \in Runs : PlacedAt(r)' PROVE Placed'
  BY <1>1 DEF Placed, Valued, StillEmpty, NothingWrittenYet, PlacedAt
<1>2. ASSUME UNCHANGED <<pc, match, todo, extracted, beforeWrite, written, pending>> PROVE Placed'
  BY <1>2 DEF Placed, Valued, StillEmpty, NothingWrittenYet
<1>3. ASSUME NEW i \in Items, NEW v \in Contents \cup {Empty}, UserEdits(i, v) PROVE Placed'
  BY <1>2, <1>3 DEF UserEdits, runVars
<1>4. CASE OcrFinishes
  BY <1>2, <1>4 DEF OcrFinishes, runVars
<1>5. ASSUME NEW r \in Runs, RunStep(r) PROVE Placed'
  <2>1. ASSUME NEW q \in Runs, q # r PROVE PlacedAt(q)'
    BY <1>0, <1>5, <2>1, OthersKeepPlaced DEF PlacedAt
  <2>2. PlacedAt(r)'
    BY <1>5, OwnStepPlaced
  <2>3. QED
    BY <1>1, <2>1, <2>2
<1>6. CASE UNCHANGED vars
  BY <1>2, <1>6 DEF vars, runVars
<1>7. QED
  BY <1>3, <1>4, <1>5, <1>6 DEF Next

-----------------------------------------------------------------------------
(* The theorems.                                                           *)

\* The inductive invariant holds before the first run.
LEMMA ProcessingInvInit == Init => IInv
<1> SUFFICES ASSUME Init PROVE IInv
  OBVIOUS
<1>1. TypeOK
  BY ProcessingTypeInit
<1>2. Placed
  BY DEF Init, Placed, Valued, StillEmpty, NothingWrittenYet, Reading
<1>3. SnapshotFresh /\ PendingWritten /\ Recorded
  BY DEF Init, SnapshotFresh, PendingWritten, Recorded
<1>4. QED
  BY <1>1, <1>2, <1>3 DEF IInv, Placed

\* Every step keeps it.
LEMMA ProcessingInvStep == IInv /\ [Next]_vars => IInv'
<1>1. IInv /\ [Next]_vars => TypeOK'
  BY ProcessingTypeStep DEF IInv
<1>2. IInv /\ [Next]_vars => Placed'
  BY PlacedStep DEF IInv, Placed
<1>3. IInv /\ [Next]_vars => Faithful'
  BY FaithfulStep
<1>4. TypeOK' /\ Placed' /\ Faithful' => IInv'
  BY DEF IInv, Placed, Faithful
<1>5. QED
  BY <1>1, <1>2, <1>3, <1>4

\* It holds in every reachable state.
LEMMA ProcessingInv == Spec => []IInv
BY ProcessingInvInit, ProcessingInvStep, PTL DEF Spec

\* Every variable of the processing of a document stays in its domain.
THEOREM ProcessingTypeCorrect == Spec => []TypeOK
<1>1. IInv => TypeOK
  BY DEF IInv
<1>2. QED
  BY <1>1, ProcessingInv, PTL

\* The one snapshot Orchestrator.process reads before its writes is right,
\* through all of them, about every item that nobody else has changed and no
\* unconfirmed write has touched.
THEOREM SnapshotStaysFresh == Spec => []SnapshotFresh
<1>1. IInv => SnapshotFresh
  BY DEF IInv
<1>2. QED
  BY <1>1, ProcessingInv, PTL

\* What the audit records was written, and the item still has the recorded
\* content unless someone else has changed it or the run has ended badly.
THEOREM AuditIsTrue == Spec => []AuditedWritesStand
<1>1. IInv => AuditedWritesStand
  <2> SUFFICES ASSUME IInv, NEW a \in audit
               PROVE  /\ a.item \in written[a.run]
                      /\ a.item \notin behind[a.run] => paperless[a.item] = a.new
    BY DEF AuditedWritesStand
  <2>1. a.run \in Runs /\ a.item \in Items
    BY DEF IInv, TypeOK, Entry
  <2>2. QED
    BY <2>1 DEF IInv, Recorded, SnapshotFresh, Believed
<1>2. QED
  BY <1>1, ProcessingInv, PTL

\* One write replaces only content that the run knows to be empty or, for
\* the title, replaceable.
LEMMA WriteProtects ==
    ASSUME IInv, NEW r \in Runs, WriteStep(r), NEW i \in Items \ behind[r]
    PROVE  \/ paperless'[i] = paperless[i]
           \/ paperless[i] = Empty
           \/ i = "title" /\ (paperless[i] = Stem \/ AllowTitleOverwrite)
<1>1. TypeOK /\ pending[r] = NoEntry
  BY DEF IInv, WriteStep, WriteMatch, WriteDefault, WriteTitle, WriteField, At
<1>2. paperless[i] = beforeWrite[r][i]
  BY <1>1 DEF IInv, SnapshotFresh, Believed
<1>3. CASE WriteMatch(r) \/ WriteDefault(r)
  <2>1. beforeWrite[r]["correspondent"] = Empty
    BY <1>3 DEF WriteMatch, WriteDefault, At, IInv, StillEmpty
  <2>2. \/ paperless' = paperless
        \/ \E c \in Correspondents \cup {match[r]} : paperless' = With("correspondent", c)
    BY <1>3, ProcessingAssumption DEF WriteMatch, WriteDefault, Confirm, PatchFails
  <2>3. i # "correspondent" => paperless'[i] = paperless[i]
    BY <1>1, <2>2 DEF With, TypeOK
  <2>4. QED
    BY <1>2, <2>1, <2>3
<1>4. CASE WriteTitle(r)
  <2>1. \/ paperless' = paperless
        \/ \E t \in Titles : TitleWritable(r, t) /\ paperless' = With("title", t)
    BY <1>4 DEF WriteTitle, Confirm, PatchFails
  <2>2. i # "title" => paperless'[i] = paperless[i]
    BY <1>1, <2>1 DEF With, TypeOK
  <2>3. QED
    BY <1>2, <2>1, <2>2 DEF TitleWritable
<1>5. ASSUME NEW f \in Configured, WriteField(r, f)
      PROVE  paperless'[i] = paperless[i] \/ paperless[i] = Empty
  <2>1. \/ paperless' = paperless
        \/ beforeWrite[r][f] = Empty /\ paperless' = Merged(r, f, extracted[r][f])
    BY <1>5 DEF WriteField, Confirm, PatchFails
  <2>2. i # f /\ paperless' # paperless => paperless'[i] = paperless[i]
    BY <1>2, <2>1 DEF Merged
  <2>3. QED
    BY <1>2, <2>1, <2>2
<1>6. QED
  BY <1>3, <1>4, <1>5 DEF WriteStep

\* As far as the run can know, no write replaces content of the document,
\* whatever users, other runs and failing calls do.
THEOREM KnownContentProtected == Spec => ProtectsKnownContent
<1>1. IInv /\ [Next]_vars =>
        [\A r \in Runs : WriteStep(r) =>
          \A i \in Items \ behind[r] :
             \/ paperless'[i] = paperless[i]
             \/ paperless[i] = Empty
             \/ i = "title" /\ (paperless[i] = Stem \/ AllowTitleOverwrite)]_vars
  BY WriteProtects
<1>2. QED
  BY <1>1, ProcessingInv, PTL DEF Spec, ProtectsKnownContent

-----------------------------------------------------------------------------
(* What COMPLETED means, for sequential runs that nobody disturbs.         *)

Writing == {"correspondent", "writeMatch", "writeDefault", "title", "fields"}

Undisturbed == budget = [edits |-> MaxEdits, faults |-> MaxFaults]

OneRun == \A q, r \in Runs : pc[q] \in Working /\ pc[r] \in Working => q = r

\* The snapshot of a run that writes is right about all fields.
FieldsKnown == \A r \in Runs : pc[r] \in Writing => behind[r] \cap Fields = {}

\* A value that is no longer to be written, or needed not be, is there.
WrittenStays ==
    \A r \in Runs : \A f \in Configured :
        extracted[r][f] # NoValue /\ f \notin todo[r] => paperless[f] # Empty

CompletedIsFilled ==
    \A r \in Runs : pc[r] = "COMPLETED" =>
        \A f \in Required \ outside[r] : paperless[f] # Empty

SequentialInv ==
    /\ OneRun
    /\ Undisturbed => FieldsKnown /\ WrittenStays /\ CompletedIsFilled

\* Whatever spends a bound disturbs.
LEMMA SpendDisturbs ==
    ASSUME TypeOK, NEW what \in {"edits", "faults"}, Spend(what)
    PROVE  ~Undisturbed'
BY ProcessingAssumption DEF TypeOK, Spend, Undisturbed

\* Nothing disturbs an undisturbed step.
LEMMA UndisturbedBefore ==
    ASSUME TypeOK, [Next]_vars, Undisturbed'
    PROVE  /\ Undisturbed
           /\ \A i \in Items, v \in Contents \cup {Empty} : ~UserEdits(i, v)
           /\ \A r \in Runs : ~RunFails(r)
           /\ \A d : ~PatchFails(d)
<1>1. ~Spend("edits") /\ ~Spend("faults")
  BY SpendDisturbs
<1>2. \A i \in Items, v \in Contents \cup {Empty} : ~UserEdits(i, v)
  BY <1>1 DEF UserEdits
<1>3. (\A r \in Runs : ~RunFails(r)) /\ (\A d : ~PatchFails(d))
  BY <1>1 DEF RunFails, PatchFails
<1>4. ASSUME NEW r \in Runs, RunStep(r) PROVE budget' = budget
  BY <1>1, <1>3, <1>4
  DEF RunStep, Start, LoadDocument, ReadDocumentText, SelectTemplate, ExtractFields,
      ValidateResults, ReloadMetadata, MatchCorrespondent, WriteStep, WriteMatch, WriteDefault,
      WriteTitle, WriteField, AuditWrite, Complete
<1>5. budget' = budget
  BY <1>2, <1>4 DEF Next, OcrFinishes, vars
<1> QED BY <1>2, <1>3, <1>5 DEF Undisturbed

\* A run works before and after each of its steps but the first and the last.
LEMMA WorkingSteps ==
    ASSUME TypeOK, NEW r \in Runs, RunStep(r), ~Start(r)
    PROVE  pc[r] \in Working
BY DEF RunStep, LoadDocument, ReadDocumentText, SelectTemplate, ExtractFields, ValidateResults,
       ReloadMetadata, MatchCorrespondent, WriteStep, WriteMatch, WriteDefault, WriteTitle,
       WriteField, AuditWrite, Complete, RunFails, At, Working

\* Sequential runs stay sequential.
LEMMA OneRunStep ==
    ASSUME Exclusive, IInv, OneRun, [Next]_vars
    PROVE  OneRun'
<1>0. TypeOK /\ Placed
  BY DEF IInv, Placed
<1>1. ASSUME NEW r \in Runs, RunStep(r) PROVE OneRun'
  <2>1. \A q \in Runs \ {r} : pc'[q] = pc[q]
    BY <1>0, <1>1, OthersKeepPlaced
  <2>2. CASE Start(r)
    BY <2>1, <2>2 DEF Start, OneRun
  <2>3. CASE ~Start(r)
    BY <1>0, <1>1, <2>1, <2>3, WorkingSteps DEF OneRun
  <2> QED BY <2>2, <2>3
<1>2. ASSUME UNCHANGED pc PROVE OneRun'
  BY <1>2 DEF OneRun
<1> QED BY <1>1, <1>2 DEF Next, UserEdits, OcrFinishes, vars

\* While a run works no other run does anything.
LEMMA OthersWait ==
    ASSUME Exclusive, TypeOK, OneRun, NEW r \in Runs, RunStep(r), NEW q \in Runs, q # r
    PROVE  pc[q] \notin Working
BY WorkingSteps DEF OneRun, Start

\* An undisturbed write fills the field it is about, empties none and is
\* confirmed to the run.
LEMMA UndisturbedWrite ==
    ASSUME IInv, NEW r \in Runs, WriteStep(r), \A d : ~PatchFails(d), ~Spend("faults"),
           FieldsKnown
    PROVE  /\ behind'[r] = behind[r] /\ pc[r] \in Writing
           /\ \A f \in Fields : paperless[f] # Empty => paperless'[f] # Empty
           /\ \A f \in Configured : extracted'[r][f] = extracted[r][f] /\ outside' = outside
           /\ \A f \in todo[r] \ todo'[r] : paperless'[f] # Empty
<1>0. TypeOK /\ Fields \subseteq Items /\ Configured \subseteq Fields /\ "title" \notin Fields
  BY ProcessingAssumption DEF IInv, Items
<1>1. behind'[r] = behind[r]
  BY <1>0 DEF WriteStep, WriteMatch, WriteDefault, WriteTitle, WriteField, Confirm, TypeOK
<1>2. pc[r] \in Writing /\ pending[r] = NoEntry /\ extracted' = extracted /\ outside' = outside
  BY DEF WriteStep, WriteMatch, WriteDefault, WriteTitle, WriteField, At, Writing, runVars
<1>3. ASSUME NEW f \in Fields, paperless[f] # Empty PROVE paperless'[f] # Empty
  <2>1. f \in Items \ behind[r] /\ f # "title"
    BY <1>0, <1>2 DEF FieldsKnown
  <2> QED BY <1>3, <2>1, WriteProtects
<1>4. ASSUME NEW f \in todo[r] \ todo'[r] PROVE paperless'[f] # Empty
  <2>1. WriteField(r, f) /\ f \in Configured /\ f \in Fields /\ f \in Items
    BY <1>0, <1>4 DEF WriteStep, WriteMatch, WriteDefault, WriteTitle, WriteField, runVars, TypeOK
  <2>2. CASE beforeWrite[r][f] # Empty
    <3>1. paperless[f] = beforeWrite[r][f]
      BY <1>0, <1>2, <2>1 DEF IInv, SnapshotFresh, Believed, FieldsKnown
    <3> QED BY <1>3, <2>1, <2>2, <3>1
  <2>3. CASE beforeWrite[r][f] = Empty
    <3>1. paperless' = Merged(r, f, extracted[r][f])
      BY <2>1, <2>3 DEF WriteField, Confirm
    <3>2. extracted[r][f] \in FieldValues
      BY <1>0, <1>4, <2>1 DEF IInv, Valued, TypeOK
    <3>3. extracted[r][f] # Empty
      BY <3>2, ProcessingAssumption DEF Contents
    <3> QED BY <2>1, <3>1, <3>3 DEF Merged
  <2> QED BY <2>2, <2>3
<1> QED BY <1>1, <1>2, <1>3, <1>4

\* What a step leaves to be shown: the snapshot of the run that moves knows
\* all fields, its values are there, and no field is emptied.
QuietStep(r) ==
    /\ pc'[r] \in Writing => behind'[r] \cap Fields = {}
    /\ \A f \in Configured : extracted'[r][f] # NoValue /\ f \notin todo'[r] => paperless'[f] # Empty
    /\ \A f \in Fields : paperless[f] # Empty => paperless'[f] # Empty
    /\ pc'[r] = "COMPLETED" => \A f \in Required \ outside'[r] : paperless'[f] # Empty

\* Every step of a run that is not disturbed is quiet.
LEMMA QuietRunStep ==
    ASSUME IInv, NEW r \in Runs, RunStep(r), ~RunFails(r), \A d : ~PatchFails(d),
           ~Spend("faults"), FieldsKnown, WrittenStays
    PROVE  QuietStep(r)
<1>0. /\ TypeOK /\ Configured \subseteq Fields /\ Required \subseteq Configured
      /\ "title" \notin Fields
  BY ProcessingAssumption DEF IInv
<1>1. CASE Start(r) \/ LoadDocument(r) \/ ReadDocumentText(r) \/ SelectTemplate(r)
  <2>1. pc'[r] \notin Writing /\ pc'[r] # "COMPLETED"
    BY <1>0, <1>1
    DEF Start, LoadDocument, ReadDocumentText, SelectTemplate, Goto, TypeOK, Writing
  <2>2. UNCHANGED <<paperless, extracted, todo>>
    BY <1>1 DEF Start, LoadDocument, ReadDocumentText, SelectTemplate, runVars
  <2> QED BY <1>0, <2>1, <2>2 DEF QuietStep, WrittenStays
<1>2. CASE ExtractFields(r)
  <2>1. pc'[r] = "validate" /\ UNCHANGED <<paperless, extracted, todo>>
    BY <1>0, <1>2 DEF ExtractFields, Goto, TypeOK
  <2> QED BY <1>0, <2>1 DEF QuietStep, WrittenStays, Writing
<1>3. CASE ValidateResults(r)
  <2>1. pc'[r] = "reload" /\ UNCHANGED paperless
    BY <1>0, <1>3 DEF ValidateResults, Goto, TypeOK
  <2>2. \A f \in Configured : extracted'[r][f] # NoValue => f \in todo'[r]
    BY <1>0, <1>3 DEF ValidateResults, TypeOK
  <2> QED BY <1>0, <2>1, <2>2 DEF QuietStep, Writing
<1>4. CASE ReloadMetadata(r)
  <2>1. /\ pc'[r] = "correspondent" /\ behind'[r] = {}
        /\ UNCHANGED <<paperless, extracted, todo>>
    BY <1>0, <1>4 DEF ReloadMetadata, Goto, TypeOK, runVars
  <2> QED BY <1>0, <2>1 DEF QuietStep, WrittenStays
<1>5. CASE MatchCorrespondent(r)
  <2>1. /\ pc[r] \in Writing /\ pc'[r] # "COMPLETED"
        /\ UNCHANGED <<paperless, extracted, todo, behind>>
    BY <1>0, <1>5 DEF MatchCorrespondent, Goto, At, TypeOK, Writing
  <2> QED BY <1>0, <2>1 DEF QuietStep, WrittenStays, FieldsKnown
<1>6. CASE WriteStep(r)
  <2>1. /\ behind'[r] = behind[r] /\ pc[r] \in Writing
        /\ \A f \in Fields : paperless[f] # Empty => paperless'[f] # Empty
        /\ \A f \in Configured : extracted'[r][f] = extracted[r][f]
        /\ \A f \in todo[r] \ todo'[r] : paperless'[f] # Empty
    BY <1>6, UndisturbedWrite
  <2>2. pc'[r] # "COMPLETED"
    BY <1>0, <1>6
    DEF WriteStep, WriteMatch, WriteDefault, WriteTitle, WriteField, Goto, At, TypeOK
  <2>3. \A f \in Configured : extracted'[r][f] # NoValue /\ f \notin todo'[r] => paperless'[f] # Empty
    BY <1>0, <2>1 DEF WrittenStays
  <2> QED BY <2>1, <2>2, <2>3 DEF QuietStep, FieldsKnown
<1>7. CASE AuditWrite(r)
  <2>1. /\ pc'[r] = pc[r] /\ pc[r] # "COMPLETED"
        /\ UNCHANGED <<paperless, extracted, todo>>
    BY <1>7 DEF AuditWrite, runVars, Working
  <2>2. behind'[r] \subseteq behind[r] \cup {"title"}
    BY <1>0, <1>7 DEF AuditWrite, TypeOK
  <2> QED BY <1>0, <2>1, <2>2 DEF QuietStep, WrittenStays, FieldsKnown
<1>8. CASE Complete(r)
  <2>1. /\ pc'[r] = "COMPLETED" => Missing(r) = {}
        /\ pc'[r] \notin Writing /\ todo[r] = {}
        /\ UNCHANGED <<paperless, extracted, todo, outside>>
    BY <1>0, <1>8 DEF Complete, Goto, TypeOK, Writing, runVars
  <2>2. ASSUME Missing(r) = {}, NEW f \in Required \ outside[r] PROVE paperless[f] # Empty
    BY <1>0, <2>1, <2>2 DEF Missing, WrittenStays
  <2> QED BY <1>0, <2>1, <2>2 DEF QuietStep, WrittenStays
<1> QED
  BY <1>1, <1>2, <1>3, <1>4, <1>5, <1>6, <1>7, <1>8 DEF RunStep

\* Sequential runs that nobody disturbs keep what they and others have filled.
LEMMA SequentialStep ==
    ASSUME Exclusive, IInv, SequentialInv, [Next]_vars
    PROVE  SequentialInv'
<1>0. TypeOK /\ Placed /\ OneRun
  BY DEF IInv, Placed, SequentialInv
<1>1. ASSUME Undisturbed' PROVE (FieldsKnown /\ WrittenStays /\ CompletedIsFilled)'
  <2>1. /\ FieldsKnown /\ WrittenStays /\ CompletedIsFilled
        /\ \A i \in Items, v \in Contents \cup {Empty} : ~UserEdits(i, v)
        /\ \A r \in Runs : ~RunFails(r)
        /\ \A d : ~PatchFails(d)
    BY <1>0, <1>1, UndisturbedBefore DEF SequentialInv
  <2>2. ~Spend("faults")
    BY <1>0, <1>1, SpendDisturbs
  <2>3. ASSUME NEW r \in Runs, RunStep(r) PROVE (FieldsKnown /\ WrittenStays /\ CompletedIsFilled)'
    <3>1. QuietStep(r)
      BY <2>1, <2>2, <2>3, QuietRunStep
    <3>2. ASSUME NEW q \in Runs, q # r
          PROVE  /\ pc'[q] = pc[q] /\ pc[q] \notin Writing
                 /\ todo'[q] = todo[q] /\ extracted'[q] = extracted[q] /\ outside'[q] = outside[q]
      <4>1. pc[q] \notin Working
        BY <1>0, <2>3, <3>2, OthersWait
      <4>2. outside'[q] = outside[q]
        BY <1>0, <2>3, <3>2
        DEF TypeOK, RunStep, Start, LoadDocument, ReadDocumentText, SelectTemplate, ExtractFields,
            ValidateResults, ReloadMetadata, MatchCorrespondent, WriteStep, WriteMatch,
            WriteDefault, WriteTitle, WriteField, AuditWrite, Complete, RunFails, runVars
      <4> QED BY <1>0, <2>3, <3>2, <4>1, <4>2, OthersKeepPlaced DEF Working, Writing
    <3>3. FieldsKnown'
      BY <3>1, <3>2 DEF FieldsKnown, QuietStep
    <3>4. Configured \subseteq Fields /\ Required \subseteq Fields
      BY ProcessingAssumption
    <3>5. WrittenStays'
      BY <2>1, <3>1, <3>2, <3>4 DEF WrittenStays, QuietStep
    <3>6. CompletedIsFilled'
      BY <2>1, <3>1, <3>2, <3>4 DEF CompletedIsFilled, QuietStep
    <3> QED BY <3>3, <3>5, <3>6
  <2>4. ASSUME UNCHANGED <<paperless, pc, behind, runVars>>
        PROVE  (FieldsKnown /\ WrittenStays /\ CompletedIsFilled)'
    BY <2>1, <2>4 DEF FieldsKnown, WrittenStays, CompletedIsFilled, runVars
  <2> QED BY <2>1, <2>3, <2>4 DEF Next, OcrFinishes, vars
<1>2. OneRun'
  BY <1>0, OneRunStep
<1> QED BY <1>1, <1>2 DEF SequentialInv

\* "Mit Warnungen abgeschlossen: ... mindestens ein Pflichtfeld fehlte"
\* (docs/benutzerhandbuch.md): as long as runs do not overlap, no call fails
\* and no user edits, a COMPLETED run has left no required field of its
\* document type empty, and no later run takes the value away.
THEOREM CompletedIsFilledIfSequential ==
    ASSUME Exclusive
    PROVE  Spec => []CompletedIsFilledWithoutFaults
<1>1. Init => SequentialInv
  <2> SUFFICES ASSUME Init PROVE SequentialInv
    OBVIOUS
  <2>1. OneRun
    BY DEF Init, OneRun, Working
  <2>2. FieldsKnown /\ CompletedIsFilled
    BY DEF Init, FieldsKnown, CompletedIsFilled, Writing
  <2>3. WrittenStays
    BY DEF Init, WrittenStays
  <2> QED BY <2>1, <2>2, <2>3 DEF SequentialInv
<1>2. IInv /\ SequentialInv /\ [Next]_vars => SequentialInv'
  BY SequentialStep
<1>3. SequentialInv => CompletedIsFilledWithoutFaults
  BY DEF SequentialInv, Undisturbed, CompletedIsFilled, CompletedIsFilledWithoutFaults
<1> QED
  BY <1>1, <1>2, <1>3, ProcessingInv, PTL DEF Spec
=============================================================================
