------------------------- MODULE DocumentProcessing -------------------------
(***************************************************************************)
(* The processing of one Paperless document: Orchestrator.process          *)
(* (core/orchestration/orchestrator.py) with the reads and writes of       *)
(* PaperlessConnector (connectors/paperless/connector.py), while users     *)
(* keep editing the document in Paperless.                                 *)
(*                                                                         *)
(* A run is one call of process(): the first delivery of a job, a retry, a *)
(* recovery after a crash, or a later job of the same document.  JobQueue  *)
(* says which runs exist and what becomes of the job row; here Exclusive   *)
(* says whether two of them may overlap (they do when a delivery is        *)
(* repeated, see DuplicatesDropped in JobQueue).                           *)
(*                                                                         *)
(* One action is one phase without effects outside the database, or one    *)
(* call of the Paperless API, or the commit of one audit entry.            *)
(***************************************************************************)
EXTENDS Integers, FiniteSets

CONSTANTS
    Runs,                   \* calls of Orchestrator.process
    Fields,                 \* custom fields of the document in Paperless
    Configured,             \* those the field configuration extracts
    Required,               \* those whose absence is a warning
    Scoped,                 \* those bound to certain document types
    FieldValues,            \* values of custom fields
    Titles,                 \* titles, Stem among them
    Stem,                   \* the original file name without its extension
    Correspondents,         \* correspondents, Default among them
    Default,                \* the correspondent "(noch nicht angelegt)"
    Empty,                  \* no content in Paperless
    NoValue,                \* nothing extracted, matched or chosen
    NoEntry,                \* no audit entry is pending
    AllowTitleOverwrite,    \* PaperlessInstance.allow_title_overwrite
    CorrespondentEnabled,   \* the correspondent is looked for by rule or model
    CorrespondentRequired,  \* the required flag of the correspondent field
    Exclusive,              \* runs do not overlap
    MaxEdits,               \* bound: edits of users
    MaxFaults               \* bound: failing calls and crashes

Items == Fields \cup {"title", "correspondent"}
Contents == FieldValues \cup Titles \cup Correspondents

ASSUME ProcessingAssumption ==
    /\ Required \subseteq Configured
    /\ Scoped \subseteq Configured
    /\ Configured \subseteq Fields
    /\ "title" \notin Fields /\ "correspondent" \notin Fields
    /\ Stem \in Titles
    /\ Default \in Correspondents
    /\ Empty \notin Contents
    /\ NoValue \notin Contents
    /\ AllowTitleOverwrite \in BOOLEAN
    /\ CorrespondentEnabled \in BOOLEAN
    /\ CorrespondentRequired \in BOOLEAN
    /\ Exclusive \in BOOLEAN
    /\ MaxEdits \in Nat
    /\ MaxFaults \in Nat

\* What may stand in an item of the document.
ContentOf(i) ==
    {Empty} \cup (IF i = "title" THEN Titles
                  ELSE IF i = "correspondent" THEN Correspondents ELSE FieldValues)

Entry == [run : Runs, item : Items, old : Contents \cup {Empty}, new : Contents]
ASSUME NoEntryAssumption == NoEntry \notin Entry

\* Where a run is: before a phase, or before a write of WRITE_METADATA.
Working == {"load", "text", "noText", "select", "extract", "validate", "reload",
            "correspondent", "writeMatch", "writeDefault", "title", "fields"}
Outcome == {"COMPLETED", "COMPLETED_WITH_WARNINGS", "FAILED"}
Step == {"queued", "crashed"} \cup Working \cup Outcome

VARIABLES
    paperless,    \* the document as it stands in Paperless
    text,         \* Paperless has finished its OCR
    known,        \* the correspondents Paperless has
    pc,           \* where each run is, or how it ended
    beforeWrite,  \* before_write: the document as RELOAD_METADATA read it
    extracted,    \* extracted_values by field
    outside,      \* fields_outside_document_type
    match,        \* correspondent_match
    todo,         \* fields whose value is still to be written
    pending,      \* a confirmed write that is not yet audited
    audit,        \* audit_entries of the document
    budget,       \* what is left of the bounds
    behind,       \* history: items that may differ from before_write
    written       \* history: items whose write Paperless has confirmed to the run

runVars == <<extracted, outside, match, todo>>
remoteVars == <<text, known>>
vars == <<paperless, remoteVars, pc, beforeWrite, runVars, pending, audit, budget, behind, written>>

-----------------------------------------------------------------------------
(* Helpers.                                                                *)

Spend(what) ==
    /\ budget[what] > 0
    /\ budget' = [budget EXCEPT ![what] = @ - 1]

Goto(r, s) == pc' = [pc EXCEPT ![r] = s]

\* A run works and has no audit entry to commit first.
At(r, s) == pc[r] = s /\ pending[r] = NoEntry

Differs(d) == {i \in Items : d[i] # paperless[i]}

\* Run r has its write of new to item i confirmed, where old was before: the
\* document is d now, and what has changed is behind the snapshots of the
\* other runs.  The entry is to be audited next.
Confirm(r, d, i, old, new) ==
    /\ paperless' = d
    /\ behind' = [q \in Runs |-> IF q = r THEN behind[q] ELSE behind[q] \cup Differs(d)]
    /\ written' = [written EXCEPT ![r] = @ \cup {i}]
    /\ pending' = [pending EXCEPT ![r] = [run |-> r, item |-> i, old |-> old, new |-> new]]

\* Error or no response: the PATCH may have been applied all the same.
PatchFails(d) ==
    /\ Spend("faults")
    /\ \/ UNCHANGED <<paperless, behind>>
       \/ /\ paperless' = d
          /\ behind' = [q \in Runs |-> behind[q] \cup Differs(d)]
    /\ UNCHANGED <<pending, written>>

\* The document with the correspondent or the title of a PATCH.
With(i, v) == [paperless EXCEPT ![i] = v]

\* Fault: only the field itself is sent, so that the list loses the others.
MergedAlone(r, f, v) ==
    [i \in Items |-> IF i = f THEN v ELSE IF i \in Fields THEN Empty ELSE paperless[i]]

\* The payload of write_empty_fields: the whole list of custom fields, as
\* read at the reload and written since.  Paperless replaces its list.
Merged(r, f, v) ==
    [i \in Items |-> IF i = f THEN v ELSE IF i \in Fields THEN beforeWrite[r][i] ELSE paperless[i]]

\* write_title sends a PATCH.
TitleWritable(r, t) ==
    LET old == beforeWrite[r]["title"] IN
    /\ old # t
    /\ old \in {Empty, Stem} \/ AllowTitleOverwrite

\* missing_fields, with the correspondent if it is required.
Missing(r) ==
    {f \in Required \ outside[r] : extracted[r][f] = NoValue}
        \cup {i \in {"correspondent"} : /\ CorrespondentRequired
                                        /\ beforeWrite[r]["correspondent"] = Empty
                                        /\ match[r] = NoValue}

-----------------------------------------------------------------------------
Init ==
    /\ paperless \in [Items -> Contents \cup {Empty}]
    /\ \A i \in Items : paperless[i] \in ContentOf(i)
    /\ text \in BOOLEAN
    /\ known \in SUBSET Correspondents
    /\ paperless["correspondent"] \in known \cup {Empty}
    /\ pc = [r \in Runs |-> "queued"]
    /\ beforeWrite = [r \in Runs |-> [i \in Items |-> Empty]]
    /\ extracted = [r \in Runs |-> [f \in Configured |-> NoValue]]
    /\ outside = [r \in Runs |-> {}]
    /\ match = [r \in Runs |-> NoValue]
    /\ todo = [r \in Runs |-> {}]
    /\ pending = [r \in Runs |-> NoEntry]
    /\ audit = {}
    /\ budget = [edits |-> MaxEdits, faults |-> MaxFaults]
    /\ behind = [r \in Runs |-> Items]
    /\ written = [r \in Runs |-> {}]

-----------------------------------------------------------------------------
(* Users and the OCR of Paperless.                                         *)

UserEdits(i, v) ==
    /\ v \in ContentOf(i) \ {paperless[i]}
    /\ i = "correspondent" => v \in known \cup {Empty}
    /\ Spend("edits")
    /\ paperless' = With(i, v)
    /\ behind' = [r \in Runs |-> behind[r] \cup {i}]
    /\ UNCHANGED <<remoteVars, pc, beforeWrite, runVars, pending, audit, written>>

OcrFinishes ==
    /\ ~text
    /\ text' = TRUE
    /\ UNCHANGED <<paperless, known, pc, beforeWrite, runVars, pending, audit, budget, behind,
                   written>>

-----------------------------------------------------------------------------
(* Reading and extracting.                                                 *)

Start(r) ==
    /\ pc[r] = "queued"
    /\ Exclusive => \A q \in Runs : pc[q] \notin Working
    /\ Goto(r, "load")
    /\ UNCHANGED <<paperless, remoteVars, beforeWrite, runVars, pending, audit, budget, behind,
                   written>>

\* LOAD_DOCUMENT: the text is read here and judged in the next phase.
LoadDocument(r) ==
    /\ At(r, "load")
    /\ Goto(r, IF text THEN "text" ELSE "noText")
    /\ UNCHANGED <<paperless, remoteVars, beforeWrite, runVars, pending, audit, budget, behind,
                   written>>

\* READ_DOCUMENT_TEXT: no text raises RetryableEmptyTextError.
ReadDocumentText(r) ==
    /\ \/ At(r, "text") /\ Goto(r, "select")
       \/ At(r, "noText") /\ Goto(r, "FAILED")
    /\ UNCHANGED <<paperless, remoteVars, beforeWrite, runVars, pending, audit, budget, behind,
                   written>>

\* SELECT_TEMPLATE: without any template the job ends with a warning.
SelectTemplate(r) ==
    /\ At(r, "select")
    /\ Goto(r, "extract") \/ Goto(r, "COMPLETED_WITH_WARNINGS")
    /\ UNCHANGED <<paperless, remoteVars, beforeWrite, runVars, pending, audit, budget, behind,
                   written>>

\* EXTRACT_FIELDS: fields of other document types are left out; a document
\* type that cannot be read leaves out every scoped field.
ExtractFields(r) ==
    /\ At(r, "extract")
    /\ \E S \in SUBSET Scoped : outside' = [outside EXCEPT ![r] = S]
    /\ Goto(r, "validate")
    /\ UNCHANGED <<paperless, remoteVars, beforeWrite, extracted, match, todo, pending, audit,
                   budget, behind, written>>

\* VALIDATE_RESULTS: each field has one accepted value, or none at all
\* because nothing valid was found or the candidates contradict each other.
ValidateResults(r) ==
    /\ At(r, "validate")
    /\ \E e \in [Configured -> FieldValues \cup {NoValue}] :
          /\ \A f \in outside[r] : e[f] = NoValue
          /\ extracted' = [extracted EXCEPT ![r] = e]
          /\ todo' = [todo EXCEPT ![r] = {f \in Configured : e[f] # NoValue}]
    /\ Goto(r, "reload")
    /\ UNCHANGED <<paperless, remoteVars, beforeWrite, outside, match, pending, audit, budget,
                   behind, written>>

\* RELOAD_METADATA.
ReloadMetadata(r) ==
    /\ At(r, "reload")
    /\ beforeWrite' = [beforeWrite EXCEPT ![r] = paperless]
    /\ behind' = [behind EXCEPT ![r] = {}]
    /\ Goto(r, "correspondent")
    /\ UNCHANGED <<paperless, remoteVars, runVars, pending, audit, budget, written>>

-----------------------------------------------------------------------------
(* WRITE_METADATA: correspondent, then title, then each field.             *)

\* An empty correspondent is matched by rule or model; without a match it is
\* the default, created when Paperless does not have it.
MatchCorrespondent(r) ==
    LET sought == CorrespondentEnabled /\ beforeWrite[r]["correspondent"] = Empty IN
    /\ At(r, "correspondent")
    /\ \/ /\ ~sought
          /\ Goto(r, "title")
          /\ UNCHANGED <<match, known, budget>>
       \/ /\ sought
          /\ \E c \in known \cup {Default} :
                /\ match' = [match EXCEPT ![r] = c]
                /\ known' = known \cup {c}
          /\ Goto(r, "writeMatch")
          /\ UNCHANGED budget
       \/ /\ sought    \* the default can be neither found nor created
          /\ Spend("faults")
          /\ known' \in {known, known \cup {Default}}
          /\ Goto(r, "title")
          /\ UNCHANGED match
    /\ UNCHANGED <<paperless, text, beforeWrite, extracted, outside, todo, pending, audit, behind,
                   written>>

\* A failing match is replaced by the default, a failing default is given up.
WriteMatch(r) ==
    /\ At(r, "writeMatch")
    /\ \/ /\ Confirm(r, With("correspondent", match[r]), "correspondent", Empty, match[r])
          /\ Goto(r, "title")
          /\ UNCHANGED budget
       \/ /\ PatchFails(With("correspondent", match[r]))
          /\ Goto(r, IF match[r] = Default THEN "title" ELSE "writeDefault")
    /\ UNCHANGED <<remoteVars, beforeWrite, runVars, audit>>

WriteDefault(r) ==
    /\ At(r, "writeDefault")
    /\ Goto(r, "title")
    /\ \/ /\ Confirm(r, With("correspondent", Default), "correspondent", Empty, Default)
          /\ match' = [match EXCEPT ![r] = Default]
          /\ known' = known \cup {Default}
          /\ UNCHANGED budget
       \/ /\ PatchFails(With("correspondent", Default))
          /\ known' = known \cup {Default}
          /\ UNCHANGED match
       \/ /\ Spend("faults")    \* the default can be neither found nor created
          /\ known' \in {known, known \cup {Default}}
          /\ UNCHANGED <<paperless, behind, written, match, pending>>
    /\ UNCHANGED <<text, beforeWrite, extracted, outside, todo, audit>>

\* The title comes from the model, the template or the invoice number; there
\* may be none.
WriteTitle(r) ==
    /\ At(r, "title")
    /\ Goto(r, "fields")
    /\ \/ UNCHANGED <<paperless, behind, written, pending, budget>>
       \/ \E t \in Titles :
             /\ TitleWritable(r, t)
             /\ \/ /\ Confirm(r, With("title", t), "title", beforeWrite[r]["title"], t)
                   /\ UNCHANGED budget
                \/ PatchFails(With("title", t))
    /\ UNCHANGED <<remoteVars, beforeWrite, runVars, audit>>

\* Each field that was empty at the reload is sent with the whole list; a
\* failing field does not keep the others from being tried.
WriteField(r, f) ==
    LET v == extracted[r][f] IN
    /\ At(r, "fields")
    /\ f \in todo[r]
    /\ todo' = [todo EXCEPT ![r] = @ \ {f}]
    /\ IF beforeWrite[r][f] # Empty
       THEN UNCHANGED <<paperless, behind, written, pending, budget>>
       ELSE \/ Confirm(r, Merged(r, f, v), f, Empty, v) /\ UNCHANGED budget
            \/ PatchFails(Merged(r, f, v))
    /\ UNCHANGED <<remoteVars, pc, beforeWrite, extracted, outside, match, audit>>

\* Fault: before_write does not learn what was written.
AuditWriteForgets(r) ==
    /\ pending[r] # NoEntry
    /\ audit' = audit \cup {pending[r]}
    /\ pending' = [pending EXCEPT ![r] = NoEntry]
    /\ UNCHANGED <<paperless, remoteVars, pc, beforeWrite, runVars, budget, behind, written>>

\* _audit commits the entry; before_write takes the new content, except for
\* the title, which no later write reads.
AuditWrite(r) ==
    LET i == pending[r].item IN
    /\ pc[r] \in Working
    /\ pending[r] # NoEntry
    /\ audit' = audit \cup {pending[r]}
    /\ pending' = [pending EXCEPT ![r] = NoEntry]
    /\ IF i = "title"
       THEN behind' = [behind EXCEPT ![r] = @ \cup {i}] /\ UNCHANGED beforeWrite
       ELSE beforeWrite' = [beforeWrite EXCEPT ![r][i] = pending[r].new] /\ UNCHANGED behind
    /\ UNCHANGED <<paperless, remoteVars, pc, runVars, budget, written>>

\* CLEANUP and COMPLETE.
Complete(r) ==
    /\ At(r, "fields")
    /\ todo[r] = {}
    /\ Goto(r, IF Missing(r) = {} THEN "COMPLETED" ELSE "COMPLETED_WITH_WARNINGS")
    /\ UNCHANGED <<paperless, remoteVars, beforeWrite, runVars, pending, audit, budget, behind,
                   written>>

\* Any other error (a failing read, a provider, the database, the soft time
\* limit outside a write) ends the run as FAILED, also before the audit entry
\* of a confirmed write is committed; the death of the process leaves it.
RunFails(r) ==
    /\ pc[r] \in Working
    /\ Spend("faults")
    /\ Goto(r, "FAILED") \/ Goto(r, "crashed")
    /\ pending' = [pending EXCEPT ![r] = NoEntry]
    /\ behind' = [behind EXCEPT ![r] = Items]
    /\ UNCHANGED <<paperless, remoteVars, beforeWrite, runVars, audit, written>>

-----------------------------------------------------------------------------
WriteStep(r) == WriteMatch(r) \/ WriteDefault(r) \/ WriteTitle(r) \/ \E f \in Configured : WriteField(r, f)

RunStep(r) ==
    \/ Start(r)
    \/ LoadDocument(r)
    \/ ReadDocumentText(r)
    \/ SelectTemplate(r)
    \/ ExtractFields(r)
    \/ ValidateResults(r)
    \/ ReloadMetadata(r)
    \/ MatchCorrespondent(r)
    \/ WriteStep(r)
    \/ AuditWrite(r)
    \/ Complete(r)
    \/ RunFails(r)

Next ==
    \/ \E i \in Items, v \in Contents \cup {Empty} : UserEdits(i, v)
    \/ OcrFinishes
    \/ \E r \in Runs : RunStep(r)

Spec == Init /\ [][Next]_vars

-----------------------------------------------------------------------------
(* Properties.                                                             *)

\* Every variable stays within its domain.
TypeOK ==
    /\ paperless \in [Items -> Contents \cup {Empty}]
    /\ text \in BOOLEAN
    /\ known \subseteq Correspondents
    /\ pc \in [Runs -> Step]
    /\ beforeWrite \in [Runs -> [Items -> Contents \cup {Empty}]]
    /\ extracted \in [Runs -> [Configured -> FieldValues \cup {NoValue}]]
    /\ outside \in [Runs -> SUBSET Scoped]
    /\ match \in [Runs -> Correspondents \cup {NoValue}]
    /\ todo \in [Runs -> SUBSET Configured]
    /\ pending \in [Runs -> Entry \cup {NoEntry}]
    /\ audit \subseteq Entry
    /\ budget \in [edits : 0..MaxEdits, faults : 0..MaxFaults]
    /\ behind \in [Runs -> SUBSET Items]
    /\ written \in [Runs -> SUBSET Items]

\* What run r takes item i to contain: before_write, or what it has just
\* written and is about to audit.
Believed(r, i) ==
    IF pending[r] # NoEntry /\ pending[r].item = i THEN pending[r].new ELSE beforeWrite[r][i]

\* "Derselbe aktuelle Snapshot wird an alle Schreiboperationen weitergegeben"
\* (README.md): the snapshot is right about every item that neither a user
\* nor another run nor an unconfirmed write has changed since the reload.
SnapshotFresh ==
    \A r \in Runs : \A i \in Items \ behind[r] : paperless[i] = Believed(r, i)

\* "Benutzerdefinierte Felder und Korrespondenten werden nur geschrieben,
\* wenn das Ziel noch leer ist" (README.md), as far as the run can know: a
\* write replaces content only where the document has changed behind the
\* snapshot, or where the title may be replaced.
ProtectsKnownContent ==
    [][\A r \in Runs : WriteStep(r) =>
          \A i \in Items \ behind[r] :
             \/ paperless'[i] = paperless[i]
             \/ paperless[i] = Empty
             \/ i = "title" /\ (paperless[i] = Stem \/ AllowTitleOverwrite)]_vars

\* "jede erfolgreiche Schreiboperation im Audit protokollieren"
\* (docs/CURRENT_STATE.md), the sound direction: what the audit records was
\* written, and nothing the run did afterwards took it back; the item still
\* has the recorded content unless it has changed behind the snapshot.
AuditedWritesStand ==
    \A a \in audit :
        /\ a.item \in written[a.run]
        /\ a.item \notin behind[a.run] => paperless[a.item] = a.new

\* "Mit Warnungen abgeschlossen: ... mindestens ein Pflichtfeld fehlte oder
\* konnte nicht sicher übernommen werden" (docs/benutzerhandbuch.md): a run
\* that is COMPLETED has left no required field of its document type empty,
\* and no order of the writes, no earlier and no later run loses a required
\* value, as long as no call fails and no user edits the document.  (With a
\* failing call it does not hold: missing_fields is computed before the
\* writes.)
CompletedIsFilledWithoutFaults ==
    budget = [edits |-> MaxEdits, faults |-> MaxFaults] =>
        \A r \in Runs : pc[r] = "COMPLETED" =>
            \A f \in Required \ outside[r] : paperless[f] # Empty
=============================================================================
