------------------------- MODULE FieldConfiguration -------------------------
(***************************************************************************)
(* The configured fields of one Paperless instance and the custom fields   *)
(* of its Paperless server: FieldConfigurationService of                   *)
(* core/field_config/service.py behind the two endpoints of                *)
(* apps/api/field_config.py.  Opening the editor imports the custom fields *)
(* of Paperless; saving commits the rows and then synchronizes the enabled *)
(* ones, one request after the other.  The endpoints run on one event      *)
(* loop: between two requests to Paperless a handler is not interrupted.   *)
(***************************************************************************)
EXTENDS Naturals, Functions

CONSTANTS
    Editors,      \* administrators with an open editor
    Labels,       \* labels of fields and names of custom fields
    StandardLabel,   \* label of the standard field at first
    NormalForm,   \* normalized_name: what Labels amount to without spelling
    MaxId,        \* bound: custom fields ever created in Paperless
    Typed,        \* bound: identifiers that administrators type into their forms
    MaxNew,       \* bound: fields added in editors and saved
    MaxSaves,     \* bound: times a configuration is saved
    MaxTroubles   \* bound: failing requests, changes by users of Paperless, and forms
                  \* with an edited type or ID

ASSUME FieldAssumption ==
    /\ NormalForm \in [Labels -> Labels]
    /\ {MaxId, MaxNew, MaxSaves, MaxTroubles} \subseteq Nat
    /\ Typed \subseteq 1..MaxId
    /\ StandardLabel \in Labels

VARIABLES
    rows,      \* row of each field key, or None
    remote,    \* custom field of each identifier in Paperless, None or Deleted
    editors,   \* what each editor shows and how far its request has got
    synced,    \* history: the last synchronization succeeded undisturbed on an
               \* orderly configuration, and nothing has changed since
    budget     \* what is left of the bounds

vars == <<rows, remote, editors, synced, budget>>

None == [label |-> "none"]
Deleted == [label |-> "deleted"]   \* identifiers are not used twice
Ids == 1..MaxId
NoLink == 0

\* Keys in the order of sort_order: added fields come first, then a standard
\* field, then the imported ones, whose key has a suffix when a row that was
\* linked elsewhere since holds the plain one (_paperless_field_key).
NoKey == 0
NewKeys == 1..MaxNew
Standard == MaxNew + 1
Imported(id) == Standard + id
Suffixed(id) == Standard + MaxId + id
Keys == 1..Suffixed(MaxId)

\* The fields title and correspondent are never synchronized, and further names of
\* a standard field (FIELD_ALIASES) are left out.
\* The types that tell fields apart here: text (string) and money (monetary).
Types == {"text", "money"}
Row(label, type, enabled, link) ==
    [label |-> label, type |-> type, enabled |-> enabled, link |-> link]
CustomField(label, type) == [label |-> label, type |-> type]

Present(table) == {key \in DOMAIN table : table[key] \notin {None, Deleted}}
Lowest(numbers) == CHOOSE n \in numbers : \A m \in numbers : n <= m
Highest(numbers) == CHOOSE n \in numbers : \A m \in numbers : m <= n
Same(label, other) == NormalForm[label] = NormalForm[other]

\* remote_by_name: of two names with one normal form the later one wins.
Bearing(listing, label) == {id \in Present(listing) : Same(listing[id].label, label)}
ByName(listing, label) ==
    IF Bearing(listing, label) = {} THEN NoLink ELSE Highest(Bearing(listing, label))

Spend(what) ==
    /\ budget[what] > 0
    /\ budget' = [budget EXCEPT ![what] = @ - 1]

-----------------------------------------------------------------------------
(* What an editor holds.  rows and new are the form: the rows it was       *)
(* loaded with and an added field that has no key yet.  known are the rows *)
(* the session of its request has in memory, todo those it has still to    *)
(* synchronize, and links what it will commit.                             *)
Nothing == [key \in {} |-> None]
Closed ==
    [stage |-> "closed", rows |-> Nothing, new |-> None, known |-> Nothing, listing |-> Nothing,
     todo |-> Nothing, links |-> Nothing, alone |-> FALSE, orderly |-> FALSE]
Editing(form, new) == [Closed EXCEPT !.stage = "editing", !.rows = form, !.new = new]

\* Requests of the other editors that work on what changes now.
Disturbed(e) == [other \in Editors |->
                   IF other = e THEN editors[other] ELSE [editors[other] EXCEPT !.alone = FALSE]]
Continue(e, state, changed) ==
    editors' = [(IF changed THEN Disturbed(e) ELSE editors) EXCEPT ![e] = state]

\* A request of e ends with an error: the form stays as it is.
GiveUp(e) == Editing(editors[e].rows, editors[e].new)

-----------------------------------------------------------------------------
(* GET: list_custom_fields, then import_paperless_fields.                  *)

Open(e) ==
    /\ editors[e].stage \in {"closed", "editing"}
    /\ editors' = [editors EXCEPT ![e] = [Closed EXCEPT !.stage = "import", !.listing = remote]]
    /\ UNCHANGED <<rows, remote, synced, budget>>

\* Fault: the name comes before the link.
OwnerByName(table, listing, id) ==
    LET linked == {key \in Present(table) : table[key].link = id}
        named == {key \in Present(table) : Same(table[key].label, listing[id].label)}
    IN IF named # {} THEN Highest(named) ELSE IF linked # {} THEN Highest(linked) ELSE NoKey

\* The row a listed custom field belongs to: linked (by_external_id), or of the
\* same name (by_name), which a later row takes from an earlier one.
Owner(table, listing, id) ==
    LET linked == {key \in Present(table) : table[key].link = id}
        named == {key \in Present(table) : Same(table[key].label, listing[id].label)}
    IN IF linked # {} THEN Highest(linked) ELSE IF named # {} THEN Highest(named) ELSE NoKey

\* Custom fields in the order of their identifiers: a row without a link is linked
\* to the first one that belongs to it ...
Owned(table, listing, key) == {id \in Present(listing) : Owner(table, listing, id) = key}

\* ... and of those of one name that belong to no row the first one becomes a row.
Added(table, listing) ==
    {id \in Owned(table, listing, NoKey) :
        \A other \in Owned(table, listing, NoKey) :
            Same(listing[other].label, listing[id].label) => id <= other}

\* Fault: the plain key is used whoever holds it.
ImportKeysPlain(table, id) == {Imported(id)}

\* _paperless_field_key: the keys that are not used yet.
ImportKeys(table, id) == {Imported(id), Suffixed(id)} \ Present(table)

\* A custom field becomes a row that is not enabled.
ImportedRow(listing, id) == Row(listing[id].label, listing[id].type, FALSE, id)

ImportedRows(table, listing) ==
    [key \in Keys |->
        IF \E id \in Added(table, listing) : key = Lowest(ImportKeys(table, id))
        THEN ImportedRow(listing,
                CHOOSE id \in Added(table, listing) : key = Lowest(ImportKeys(table, id)))
        ELSE IF table[key] # None /\ table[key].link = NoLink /\ Owned(table, listing, key) # {}
        THEN [table[key] EXCEPT !.link = Lowest(Owned(table, listing, key))]
        ELSE table[key]]

\* With both keys taken the unique index refuses the row, and the request fails.
KeysTaken(table, listing) == \E id \in Added(table, listing) : ImportKeys(table, id) = {}

Import(e) ==
    /\ editors[e].stage = "import"
    /\ LET refused == KeysTaken(rows, editors[e].listing)
       IN /\ rows' = IF refused THEN rows ELSE ImportedRows(rows, editors[e].listing)
          /\ Continue(e, IF refused THEN Closed ELSE Editing(rows', None), rows' # rows)
    /\ synced' = (synced /\ rows' = rows)
    /\ UNCHANGED <<remote, budget>>

-----------------------------------------------------------------------------
(* PUT: save, then synchronize_paperless_fields.                           *)

\* What the administrator may have typed since: nothing, another label, type or
\* Paperless ID (none, or one that Paperless may not have given yet), a field
\* switched on or off, or an added field.
Relabelled(form) ==
    {[form EXCEPT ![change[1]].label = change[2]] : change \in Present(form) \X Labels}
Retyped(form) ==
    {[form EXCEPT ![change[1]].type = change[2]] : change \in Present(form) \X Types}
Relinked(form) ==
    {[form EXCEPT ![change[1]].link = change[2]] :
        change \in Present(form) \X ({NoLink} \cup Typed)}
Switched(form) == {[form EXCEPT ![key].enabled = ~@] : key \in Present(form)}
Edited(form) == {form} \cup Relabelled(form) \cup Retyped(form) \cup Relinked(form) \cup Switched(form)
Additions ==
    {Row(added[1], "text", TRUE, added[2]) : added \in Labels \X ({NoLink} \cup Typed)}
Drafts(form, new) ==
    (Edited(form) \X {new}) \cup (IF new = None THEN {form} \X Additions ELSE {})

\* save: every row of the form replaces the stored one, links included; an
\* added field gets a fresh key each time it is saved.  The session keeps the rows
\* in memory unless the commit of a changed title template expires them.
FreshKeys == {key \in NewKeys : rows[key] = None}
Saved(form, new) ==
    [key \in Keys |->
        IF new # None /\ key = Lowest(FreshKeys) THEN new
        ELSE IF form[key] # None THEN form[key] ELSE rows[key]]

\* A form with an edited type or ID is as rare as a trouble, and counts as one.
Unusual(e, form, new) ==
    \/ \E key \in Present(form) : \/ form[key].type # editors[e].rows[key].type
                                  \/ form[key].link # editors[e].rows[key].link
    \/ new # editors[e].new /\ new.link # NoLink
Charge(unusual) ==
    LET cost == IF unusual THEN 1 ELSE 0
    IN /\ budget.saves > 0 /\ budget.troubles >= cost
       /\ budget' = [saves |-> budget.saves - 1, troubles |-> budget.troubles - cost]

Save(e, form, new, expired) ==
    /\ editors[e].stage = "editing"
    /\ new # None => FreshKeys # {}
    /\ Charge(Unusual(e, form, new))
    /\ rows' = Saved(form, new)
    /\ Continue(e, [Editing(form, new) EXCEPT !.stage = "list", !.alone = TRUE,
                                              !.known = IF expired THEN Nothing ELSE rows'],
                rows' # rows)
    /\ synced' = (synced /\ rows' = rows)
    /\ UNCHANGED remote

List(e) ==
    /\ editors[e].stage = "list"
    /\ editors' = [editors EXCEPT ![e].stage = "read", ![e].listing = remote]
    /\ UNCHANGED <<rows, remote, synced, budget>>

Synchronized(table) == {key \in Present(table) : table[key].enabled}

\* Configurations and custom fields that leave no doubt what belongs together: no
\* two of one name, no two rows on one custom field, no row on one that another
\* row is named after, and no typed ID that Paperless has not given yet.
Orderly(table, listing) ==
    LET keys == Synchronized(table)
    IN /\ \A key \in keys : table[key].link # NoLink => listing[table[key].link] # None
       /\ \A key, other \in keys : key # other =>
             /\ ~Same(table[key].label, table[other].label)
             /\ table[key].link \in Present(listing) =>
                   /\ table[key].link # table[other].link
                   /\ ~Same(listing[table[key].link].label, table[other].label)
       /\ \A id, other \in Present(listing) :
             id # other => ~Same(listing[id].label, listing[other].label)

\* The rows are selected when the listing has arrived, but those in memory are
\* not read again.
Known(e) ==
    [key \in Keys |->
        IF key \in Present(editors[e].known) THEN editors[e].known[key] ELSE rows[key]]
Read(e) ==
    /\ editors[e].stage = "read"
    /\ editors' = [editors EXCEPT
          ![e].stage = "sync",
          ![e].known = Nothing,
          ![e].todo = Restrict(Known(e), Synchronized(Known(e))),
          ![e].orderly = Orderly(Known(e), editors[e].listing)]
    /\ UNCHANGED <<rows, remote, synced, budget>>

\* Fault: the linked custom field is the target whatever it is called.
TargetLinkedFirst(listing, row) ==
    IF row.link \in Present(listing) THEN row.link ELSE ByName(listing, row.label)

\* Linked custom field, unless it bears another name and one with the right
\* name exists.
Target(listing, row) ==
    LET named == ByName(listing, row.label)
    IN IF row.link \in Present(listing) /\ (listing[row.link].label = row.label \/ named = NoLink)
       THEN row.link
       ELSE named

\* Paperless (external): no two custom fields of one name.
Unused == {id \in Ids : remote[id] = None}
NameFree(label, id) == \A other \in Present(remote) : remote[other].label = label => other = id

CurrentKey(e) == Lowest(DOMAIN editors[e].todo)
Current(e) == editors[e].todo[CurrentKey(e)]
CurrentTarget(e) == Target(editors[e].listing, Current(e))
Synchronizing(e) == editors[e].stage = "sync" /\ DOMAIN editors[e].todo # {}
TypesAgree(e) ==
    CurrentTarget(e) # NoLink => editors[e].listing[CurrentTarget(e)].type = Current(e).type

\* The next field is linked unless it is already; the listing learns of a created
\* custom field, but not of a new name.
Put(links, key, id) ==
    [other \in DOMAIN links \cup {key} |-> IF other = key THEN id ELSE links[other]]
Link(e, id, listing) ==
    [editors[e] EXCEPT !.todo = Restrict(@, DOMAIN @ \ {CurrentKey(e)}), !.listing = listing,
                       !.links = IF Current(e).link = id THEN @ ELSE Put(@, CurrentKey(e), id)]
Requested(e, id) == [remote EXCEPT ![id] = CustomField(Current(e).label, Current(e).type)]

Mismatch(e) ==
    /\ Synchronizing(e) /\ ~TypesAgree(e)
    /\ editors' = [editors EXCEPT ![e] = GiveUp(e)]
    /\ UNCHANGED <<rows, remote, synced, budget>>

Creates(e) == Synchronizing(e) /\ CurrentTarget(e) = NoLink
Create(e) ==
    /\ Creates(e)
    /\ NameFree(Current(e).label, NoLink) /\ Unused # {}
    /\ LET id == Lowest(Unused)
       IN /\ remote' = Requested(e, id)
          /\ Continue(e, Link(e, id, [editors[e].listing EXCEPT ![id] = remote'[id]]), TRUE)
    /\ synced' = FALSE
    /\ UNCHANGED <<rows, budget>>

\* Fault: a label of another spelling counts as the same name.
RenamesByNormalForm(e) ==
    /\ Synchronizing(e) /\ TypesAgree(e) /\ CurrentTarget(e) # NoLink
    /\ ~Same(editors[e].listing[CurrentTarget(e)].label, Current(e).label)

Renames(e) ==
    /\ Synchronizing(e) /\ TypesAgree(e) /\ CurrentTarget(e) # NoLink
    /\ editors[e].listing[CurrentTarget(e)].label # Current(e).label
Rename(e) ==
    /\ Renames(e)
    /\ CurrentTarget(e) \in Present(remote) /\ NameFree(Current(e).label, CurrentTarget(e))
    /\ remote' = [remote EXCEPT ![CurrentTarget(e)].label = Current(e).label]
    /\ Continue(e, Link(e, CurrentTarget(e), editors[e].listing), remote' # remote)
    /\ synced' = (synced /\ remote' = remote)
    /\ UNCHANGED <<rows, budget>>

Keep(e) ==
    /\ Synchronizing(e) /\ TypesAgree(e) /\ CurrentTarget(e) # NoLink /\ ~Renames(e)
    /\ Continue(e, Link(e, CurrentTarget(e), editors[e].listing), FALSE)
    /\ UNCHANGED <<rows, remote, synced, budget>>

\* Paperless answers 400 or 404: what has been requested so far stays, the
\* links are rolled back.
Refused(e) ==
    /\ \/ Creates(e) /\ ~(NameFree(Current(e).label, NoLink) /\ Unused # {})
       \/ Renames(e) /\ ~(CurrentTarget(e) \in Present(remote)
                          /\ NameFree(Current(e).label, CurrentTarget(e)))
    /\ editors' = [editors EXCEPT ![e] = GiveUp(e)]
    /\ UNCHANGED <<rows, remote, synced, budget>>

Linked(e) ==
    [key \in Keys |-> IF key \in DOMAIN editors[e].links
                       THEN [rows[key] EXCEPT !.link = editors[e].links[key]]
                       ELSE rows[key]]
Commit(e) ==
    /\ editors[e].stage = "sync" /\ DOMAIN editors[e].todo = {}
    /\ rows' = Linked(e)
    /\ Continue(e, Editing(rows', None), rows' # rows)
    /\ synced' = \/ editors[e].alone /\ editors[e].orderly
                 \/ synced /\ rows' = rows
    /\ UNCHANGED <<remote, budget>>

-----------------------------------------------------------------------------
\* A request to Paperless fails, or its answer is lost after it was carried out.
RequestFails(e) ==
    /\ editors[e].stage \in {"import", "list", "read", "sync"}
    /\ Spend("troubles")
    /\ editors' = [editors EXCEPT ![e] = IF @.stage = "import" THEN Closed ELSE GiveUp(e)]
    /\ UNCHANGED <<rows, remote, synced>>

AnswerLost(e) ==
    /\ \/ Creates(e) /\ NameFree(Current(e).label, NoLink) /\ Unused # {}
          /\ remote' = Requested(e, Lowest(Unused))
       \/ Renames(e) /\ CurrentTarget(e) \in Present(remote)
          /\ NameFree(Current(e).label, CurrentTarget(e))
          /\ remote' = [remote EXCEPT ![CurrentTarget(e)].label = Current(e).label]
    /\ Spend("troubles")
    /\ Continue(e, GiveUp(e), TRUE)
    /\ synced' = FALSE
    /\ UNCHANGED rows

\* Paperless (external): users create, rename and delete custom fields.
UserEdits(id, field) ==
    /\ Spend("troubles")
    /\ field # Deleted => NameFree(field.label, id)
    /\ remote' = [remote EXCEPT ![id] = field]
    /\ editors' = [e \in Editors |-> [editors[e] EXCEPT !.alone = FALSE]]
    /\ synced' = FALSE
    /\ UNCHANGED rows

UserCreates ==
    /\ Unused # {}
    /\ \E label \in Labels, type \in Types : UserEdits(Lowest(Unused), CustomField(label, type))
UserRenames ==
    \E id \in Present(remote), label \in Labels : UserEdits(id, [remote[id] EXCEPT !.label = label])
UserDeletes == \E id \in Present(remote) : UserEdits(id, Deleted)

Init ==
    /\ rows = [key \in Keys |->
                  IF key = Standard THEN Row(StandardLabel, "text", TRUE, NoLink) ELSE None]
    /\ \E field \in {None} \cup {CustomField(label, "text") : label \in Labels} :
          remote = [id \in Ids |-> IF id = 1 THEN field ELSE None]
    /\ editors = [e \in Editors |-> Closed]
    /\ synced = FALSE
    /\ budget = [saves |-> MaxSaves, troubles |-> MaxTroubles]

EditorStep(e) ==
    \/ Open(e)
    \/ Import(e)
    \/ editors[e].stage = "editing" /\ budget.saves > 0
       /\ \E draft \in Drafts(editors[e].rows, editors[e].new), expired \in BOOLEAN :
             Save(e, draft[1], draft[2], expired)
    \/ List(e)
    \/ Read(e)
    \/ Mismatch(e)
    \/ Create(e)
    \/ Rename(e)
    \/ Keep(e)
    \/ Refused(e)
    \/ Commit(e)
    \/ RequestFails(e)
    \/ AnswerLost(e)

Next ==
    \/ \E e \in Editors : EditorStep(e)
    \/ UserCreates
    \/ UserRenames
    \/ UserDeletes

Spec == Init /\ [][Next]_vars

-----------------------------------------------------------------------------
RowType == [label : Labels, type : Types, enabled : BOOLEAN, link : {NoLink} \cup Ids]
FieldType == [label : Labels, type : Types]
Tables == [Keys -> RowType \cup {None}]

(* Rows, custom fields and the readings of open editors stay what the      *)
(* tables and Paperless admit: an import translates each data type.        *)
TypeOK ==
    /\ rows \in Tables
    /\ remote \in [Ids -> FieldType \cup {None, Deleted}]
    /\ \A e \in Editors :
          /\ editors[e].stage \in {"closed", "import", "editing", "list", "read", "sync"}
          /\ editors[e].stage \in {"closed", "import"} \/ editors[e].rows \in Tables
          /\ editors[e].new \in RowType \cup {None}
          /\ \A key \in DOMAIN editors[e].todo : editors[e].todo[key] \in RowType
          /\ \A key \in DOMAIN editors[e].links : editors[e].links[key] \in Ids
    /\ synced \in BOOLEAN
    /\ budget \in [saves : 0..MaxSaves, troubles : 0..MaxTroubles]

\* runtime_config, _target_id: where the worker writes the value of a field.
WriteTarget(row) == IF row.link # NoLink THEN row.link ELSE ByName(remote, row.label)

(* After an undisturbed synchronization of an orderly configuration the    *)
(* worker writes the value of every enabled field to a custom field of     *)
(* Paperless that exists, bears the field's label and belongs to no other  *)
(* enabled field, whatever failed synchronizations have left behind.  With *)
(* a typed ID that Paperless gives to a field of the same synchronization  *)
(* it does not hold: that is why Orderly excludes it.                      *)
ValuesReachTheirField ==
    synced => \A key \in Synchronized(rows) :
        /\ WriteTarget(rows[key]) \in Present(remote)
        /\ remote[WriteTarget(rows[key])] = CustomField(rows[key].label, rows[key].type)
        /\ \A other \in Synchronized(rows) \ {key} :
              WriteTarget(rows[other]) # WriteTarget(rows[key])

(* Loading links a custom field to a row only when no other row is linked  *)
(* to it, whatever has been saved since Paperless was asked.               *)
ImportTakesNoLink ==
    [][\A e \in Editors : Import(e) =>
          \A key \in {changed \in Keys : rows'[changed] # rows[changed]} :
             \A other \in Present(rows') \ {key} : rows'[other].link # rows'[key].link]_vars

(* Loading replaces no row: it sets missing links and adds rows.  With     *)
(* what it has committed the same custom fields of Paperless would change  *)
(* nothing again, so that opening the editor twice adds no duplicate.      *)
Settled(listing) == ImportedRows(rows, listing) = rows
LoadingSettles ==
    [][\A e \in Editors : Import(e) =>
          /\ \A key \in Present(rows) :
                /\ rows'[key] = [rows[key] EXCEPT !.link = rows'[key].link]
                /\ rows[key].link # NoLink => rows'[key].link = rows[key].link
          /\ \A listing \in {editors[e].listing} :
                editors'[e].stage = "editing" => Settled(listing)']_vars

(* "Prefer that exact-name field": without interference Paperless refuses  *)
(* no request of a synchronization, even when it repeats one that failed   *)
(* half way.                                                               *)
RetryIsAccepted ==
    [][\A e \in Editors : editors[e].alone /\ editors[e].orderly
          => ~(Refused(e) /\ (Creates(e) => Unused # {}))]_vars

=============================================================================
