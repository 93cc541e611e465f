---------------------- MODULE FieldConfiguration_proofs ----------------------
(***************************************************************************)
(* Proofs about FieldConfiguration for any editors, labels, custom fields  *)
(* and bounds.  A synchronization works on a list of custom fields that    *)
(* does not follow its own renamings: the invariant says what this list,   *)
(* the custom fields and the fields done so far have to do with each other *)
(* as long as nothing disturbs the request.                                *)
(***************************************************************************)
EXTENDS FieldConfiguration, FiniteSetTheorems, TLAPS

-----------------------------------------------------------------------------
(* The invariants.                                                         *)

Listings == [Ids -> FieldType \cup {None, Deleted}]
PartialTables == UNION {[keys -> RowType] : keys \in SUBSET Keys}
PartialLinks == UNION {[keys -> Ids] : keys \in SUBSET Keys}
Stages == {"closed", "import", "editing", "list", "read", "sync"}
EditorType ==
    [stage : Stages, rows : Tables \cup {Nothing}, new : RowType \cup {None},
     known : Tables \cup {Nothing}, listing : Listings \cup {Nothing}, todo : PartialTables,
     links : PartialLinks, alone : BOOLEAN, orderly : BOOLEAN]

\* What each stage of a request has at hand.
Equipped(editor) ==
    /\ editor.stage \in {"editing", "list", "read", "sync"} => editor.rows \in Tables
    /\ editor.stage \in {"import", "read", "sync"} => editor.listing \in Listings

TypeInv ==
    /\ rows \in Tables
    /\ remote \in Listings
    /\ editors \in [Editors -> EditorType]
    /\ \A e \in Editors : Equipped(editors[e])
    /\ synced \in BOOLEAN
    /\ budget \in [saves : 0..MaxSaves, troubles : 0..MaxTroubles]

\* No row is ever removed.
EditorStays(table, editor) ==
    Present(editor.known) \cup DOMAIN editor.todo \cup DOMAIN editor.links \subseteq Present(table)
RowsStay == \A e \in Editors : EditorStays(rows, editors[e])

Done(e) == Synchronized(rows) \ DOMAIN editors[e].todo
TargetOf(e, key) == Target(editors[e].listing, rows[key])

\* Field key has got its custom field, and will be linked to it.
Settles(e, key) ==
    /\ TargetOf(e, key) \in Present(editors[e].listing)
    /\ remote[TargetOf(e, key)] = CustomField(rows[key].label, rows[key].type)
    /\ Linked(e)[key].link = TargetOf(e, key)

\* A synchronization that nothing has disturbed: the list differs from the
\* custom fields only where a field is done.
OnCourse(e) ==
    /\ DOMAIN editors[e].todo \subseteq Synchronized(rows)
    /\ DOMAIN editors[e].links \subseteq Done(e)
    /\ \A key \in DOMAIN editors[e].todo : editors[e].todo[key] = rows[key]
    /\ Orderly(rows, editors[e].listing)
    /\ \A key \in Done(e) : Settles(e, key)
    /\ \A id \in Ids : \/ editors[e].listing[id] = remote[id]
                       \/ \E key \in Done(e) : TargetOf(e, key) = id

Knows(e) == \A key \in Present(editors[e].known) : editors[e].known[key] = rows[key]

\* What an undisturbed request can rely on at each of its stages.
Relies(e) ==
    /\ editors[e].stage \in {"list", "read", "sync"}
    /\ editors[e].stage \in {"list", "read"} => Knows(e) /\ DOMAIN editors[e].links = {}
    /\ editors[e].stage = "read" => editors[e].listing = remote
    /\ editors[e].stage = "sync" /\ editors[e].orderly => OnCourse(e)

AloneInv == \A e \in Editors : editors[e].alone => Relies(e)

IInv == TypeInv /\ RowsStay /\ AloneInv /\ ValuesReachTheirField

-----------------------------------------------------------------------------
(* Lowest and highest numbers.                                             *)

Below == {p \in Nat \X Nat : p[1] < p[2]}

\* Numbers are well-founded, in the form that WFMin takes.
LEMMA BelowWellFounded == IsWellFoundedOn(Below, Nat)
<1>1. IsWellFoundedOn(OpToRel(<, Nat), Nat)
  BY NatLessThanWellFounded
<1>2. OpToRel(<, Nat) = Below
  BY Zenon DEF OpToRel, Below
<1> QED BY <1>1, <1>2, Zenon

\* Lowest is the minimum of a set of numbers.
LEMMA LowestIs ==
    ASSUME NEW numbers \in SUBSET Nat, numbers # {}
    PROVE  Lowest(numbers) \in numbers /\ \A m \in numbers : Lowest(numbers) <= m
<1>1. PICK n \in numbers : \A m \in numbers : ~(<<m, n>> \in Below)
  BY WFMin, BelowWellFounded
<1>2. ASSUME NEW m \in numbers PROVE n <= m
  <2>1. m \in Nat /\ n \in Nat
    OBVIOUS
  <2>2. m < n => <<m, n>> \in Below
    BY <2>1 DEF Below
  <2> QED BY <1>1, <2>1, <2>2
<1> QED BY <1>2 DEF Lowest

\* Highest is the maximum of a bounded set of numbers.
LEMMA HighestIs ==
    ASSUME NEW bound \in Nat, NEW numbers \in SUBSET (0..bound), numbers # {}
    PROVE  Highest(numbers) \in numbers /\ \A m \in numbers : m <= Highest(numbers)
<1> DEFINE bounds == {n \in Nat : \A m \in numbers : m <= n}
<1>1. bounds # {} /\ bounds \in SUBSET Nat
  <2>1. bound \in bounds
    OBVIOUS
  <2> QED BY <2>1
<1>2. PICK top \in bounds : \A n \in bounds : top <= n
  BY <1>1, LowestIs
<1>3. top \in numbers
  <2>1. SUFFICES ASSUME top \notin numbers PROVE FALSE
    OBVIOUS
  <2>2. PICK m \in numbers : TRUE
    OBVIOUS
  <2>3. m \in Nat /\ m <= top /\ m # top /\ top \in Nat
    BY <2>1
  <2>4. top - 1 \in Nat /\ ~(top <= top - 1)
    BY <2>3
  <2>5. \A n \in numbers : n <= top - 1
    <3>1. ASSUME NEW n \in numbers PROVE n <= top - 1
      <4>1. n \in Nat /\ n <= top /\ n # top
        BY <2>1
      <4> QED BY <2>3, <4>1
    <3> QED BY <3>1
  <2> QED BY <1>2, <2>4, <2>5
<1> QED BY <1>2, <1>3 DEF Highest

-----------------------------------------------------------------------------
(* Rows, custom fields and targets.                                        *)

\* Missing and deleted rows and custom fields are told apart from real ones.
LEMMA Distinct ==
    /\ None # Deleted
    /\ None \notin RowType /\ Deleted \notin RowType
    /\ None \notin FieldType /\ Deleted \notin FieldType
<1>1. None # Deleted
  BY DEF None, Deleted
<1>2. DOMAIN None = {"label"} /\ DOMAIN Deleted = {"label"}
  BY DEF None, Deleted
<1>3. ASSUME NEW r \in RowType PROVE "link" \in DOMAIN r
  BY DEF RowType
<1>4. ASSUME NEW r \in FieldType PROVE "type" \in DOMAIN r
  BY DEF FieldType
<1> QED BY <1>1, <1>2, <1>3, <1>4

\* A table of rows holds rows where it is present, and nothing else otherwise.
LEMMA PresentRows ==
    ASSUME NEW table \in Tables
    PROVE  /\ Present(table) \subseteq Keys /\ DOMAIN table = Keys
           /\ \A key \in Keys : key \in Present(table) <=> table[key] # None
           /\ \A key \in Present(table) : table[key] \in RowType
BY Distinct DEF Present, Tables

\* The same for custom fields.
LEMMA PresentFields ==
    ASSUME NEW listing \in Listings
    PROVE  /\ Present(listing) \subseteq Ids /\ DOMAIN listing = Ids
           /\ \A id \in Present(listing) : listing[id] \in FieldType /\ listing[id] # None
           /\ \A id \in Ids : listing[id] \in FieldType => id \in Present(listing)
BY Distinct DEF Present, Listings

\* The empty table.
LEMMA NothingIsPresent == Present(Nothing) = {} /\ DOMAIN Nothing = {}
BY DEF Present, Nothing

\* Identifiers are bounded numbers, and no link is none of them.
LEMMA IdsAreNumbers ==
    /\ Ids \subseteq Nat /\ Ids \subseteq 0..MaxId /\ MaxId \in Nat
    /\ NoLink \notin Ids
BY FieldAssumption DEF Ids, NoLink

\* The custom field of a name.
LEMMA ByNameIs ==
    ASSUME NEW listing \in Listings, NEW label
    PROVE  \/ ByName(listing, label) = NoLink /\ Bearing(listing, label) = {}
           \/ /\ ByName(listing, label) \in Bearing(listing, label)
              /\ ByName(listing, label) \in Present(listing)
<1>1. Bearing(listing, label) \subseteq Present(listing)
  BY DEF Bearing
<1>2. Bearing(listing, label) \in SUBSET (0..MaxId)
  BY <1>1, PresentFields, IdsAreNumbers
<1>3. CASE Bearing(listing, label) = {}
  BY <1>3 DEF ByName
<1>4. CASE Bearing(listing, label) # {}
  <2>1. Highest(Bearing(listing, label)) \in Bearing(listing, label)
    BY <1>2, <1>4, HighestIs, IdsAreNumbers
  <2> QED BY <1>1, <1>4, <2>1 DEF ByName
<1> QED BY <1>3, <1>4

\* A target is the linked custom field, or the one of the name.
LEMMA TargetIs ==
    ASSUME NEW listing \in Listings, NEW row
    PROVE  /\ Target(listing, row) \in Present(listing) \cup {NoLink}
           /\ \/ /\ Target(listing, row) = row.link /\ row.link \in Present(listing)
                 /\ \/ listing[row.link].label = row.label
                    \/ Bearing(listing, row.label) = {}
              \/ /\ Target(listing, row) = ByName(listing, row.label)
                 /\ \/ row.link \notin Present(listing)
                    \/ Bearing(listing, row.label) # {}
<1>1. \/ ByName(listing, row.label) = NoLink /\ Bearing(listing, row.label) = {}
      \/ /\ ByName(listing, row.label) \in Bearing(listing, row.label)
         /\ ByName(listing, row.label) \in Present(listing)
  BY ByNameIs
<1>2. NoLink \notin Present(listing)
  BY PresentFields, IdsAreNumbers
<1> QED BY <1>1, <1>2 DEF Target

\* Fields of an orderly configuration have targets of their own.
LEMMA TargetsDiffer ==
    ASSUME NEW table, NEW listing \in Listings, Orderly(table, listing),
           NEW key \in Synchronized(table), NEW other \in Synchronized(table), key # other,
           Target(listing, table[key]) # NoLink
    PROVE  Target(listing, table[key]) # Target(listing, table[other])
<1>1. /\ ~Same(table[key].label, table[other].label)
      /\ table[key].link \in Present(listing) =>
            /\ table[key].link # table[other].link
            /\ ~Same(listing[table[key].link].label, table[other].label)
      /\ table[other].link \in Present(listing) =>
            ~Same(listing[table[other].link].label, table[key].label)
  BY DEF Orderly
<1>2. ASSUME NEW row, Target(listing, row) # NoLink
      PROVE  \/ Target(listing, row) = row.link /\ row.link \in Present(listing)
             \/ Same(listing[Target(listing, row)].label, row.label)
  BY <1>2, TargetIs, ByNameIs DEF Bearing
<1> SUFFICES ASSUME Target(listing, table[key]) = Target(listing, table[other]) PROVE FALSE
  OBVIOUS
<1>3. Target(listing, table[other]) # NoLink
  OBVIOUS
<1> QED BY <1>1, <1>2, <1>3 DEF Same

-----------------------------------------------------------------------------
(* Type correctness.                                                       *)

\* What a request of e means for another editor: nothing, or a disturbance.
Bystander(other) ==
    \/ editors'[other] = editors[other] /\ rows' = rows /\ remote' = remote
    \/ editors'[other] = [editors[other] EXCEPT !.alone = FALSE]

\* Editor e goes on, and the others are disturbed by what it changes.
Moves(e) ==
    \E editor \in EditorType :
        /\ Equipped(editor)
        /\ \/ editors' = [editors EXCEPT ![e] = editor] /\ rows' = rows /\ remote' = remote
           \/ editors' = [Disturbed(e) EXCEPT ![e] = editor]

\* The empty tables have their types.
LEMMA NothingTyped == Nothing \in PartialTables /\ Nothing \in PartialLinks
<1>1. {} \in SUBSET Keys /\ Nothing \in [{} -> RowType] /\ Nothing \in [{} -> Ids]
  BY DEF Nothing
<1> QED BY <1>1 DEF PartialTables, PartialLinks

\* A closed editor and a form.
LEMMA ClosedTyped == Closed \in EditorType /\ Equipped(Closed)
BY NothingTyped DEF Closed, EditorType, Stages, Equipped

\* An editor that shows a form.
LEMMA EditingTyped ==
    ASSUME NEW form \in Tables, NEW new \in RowType \cup {None}
    PROVE  /\ Editing(form, new) \in EditorType /\ Equipped(Editing(form, new))
           /\ Editing(form, new).stage = "editing" /\ Editing(form, new).rows = form
           /\ Editing(form, new).new = new /\ ~Editing(form, new).alone
           /\ Editing(form, new).known = Nothing /\ Editing(form, new).listing = Nothing
           /\ Editing(form, new).todo = Nothing /\ Editing(form, new).links = Nothing
BY NothingTyped DEF Editing, Closed, EditorType, Stages, Equipped

\* A move keeps the types, and other editors stand by.
LEMMA MovesTyped ==
    ASSUME TypeInv, NEW e \in Editors, Moves(e)
    PROVE  /\ editors' \in [Editors -> EditorType]
           /\ \A other \in Editors : Equipped(editors'[other])
           /\ \A other \in Editors \ {e} : Bystander(other)
<1>1. PICK editor \in EditorType :
        /\ Equipped(editor)
        /\ \/ editors' = [editors EXCEPT ![e] = editor] /\ rows' = rows /\ remote' = remote
           \/ editors' = [Disturbed(e) EXCEPT ![e] = editor]
  BY DEF Moves
<1>2. ASSUME NEW other \in Editors
      PROVE  /\ [editors[other] EXCEPT !.alone = FALSE] \in EditorType
             /\ Equipped([editors[other] EXCEPT !.alone = FALSE])
  BY DEF TypeInv, EditorType, Equipped
<1>3. /\ Disturbed(e) \in [Editors -> EditorType]
      /\ \A other \in Editors \ {e} :
            Disturbed(e)[other] = [editors[other] EXCEPT !.alone = FALSE]
  BY <1>2 DEF Disturbed, TypeInv
<1>4. CASE editors' = [editors EXCEPT ![e] = editor] /\ rows' = rows /\ remote' = remote
  BY <1>1, <1>4 DEF TypeInv, Bystander
<1>5. CASE editors' = [Disturbed(e) EXCEPT ![e] = editor]
  BY <1>1, <1>2, <1>3, <1>5 DEF Bystander
<1> QED BY <1>1, <1>4, <1>5

\* An action that continues a request and may change what others work on.
LEMMA ContinueMoves ==
    ASSUME NEW e \in Editors, NEW editor \in EditorType, Equipped(editor), NEW changed \in BOOLEAN,
           Continue(e, editor, changed), ~changed => rows' = rows /\ remote' = remote
    PROVE  Moves(e)
BY DEF Continue, Moves

\* Loading keeps the table well typed.
LEMMA ImportTyped ==
    ASSUME TypeInv, NEW listing \in Listings
    PROVE  ImportedRows(rows, listing) \in Tables
<1>1. ASSUME NEW id \in Added(rows, listing) PROVE ImportedRow(listing, id) \in RowType
  <2>1. id \in Present(listing)
    BY <1>1 DEF Added, Owned
  <2> QED BY <2>1, PresentFields DEF ImportedRow, Row, RowType, FieldType
<1>2. ASSUME NEW key \in Keys, rows[key] # None, Owned(rows, listing, key) # {}
      PROVE  [rows[key] EXCEPT !.link = Lowest(Owned(rows, listing, key))] \in RowType
  <2>1. Owned(rows, listing, key) \subseteq Ids
    BY PresentFields DEF Owned
  <2>2. Lowest(Owned(rows, listing, key)) \in Ids
    BY <1>2, <2>1, LowestIs, IdsAreNumbers
  <2>3. rows[key] \in RowType
    BY <1>2 DEF TypeInv, Tables
  <2> QED BY <2>2, <2>3 DEF RowType
<1>3. ASSUME NEW key \in Keys PROVE ImportedRows(rows, listing)[key] \in RowType \cup {None}
  <2>1. rows[key] \in RowType \cup {None}
    BY DEF TypeInv, Tables
  <2> QED BY <1>1, <1>2, <2>1 DEF ImportedRows
<1>4. ImportedRows(rows, listing) = [key \in Keys |-> ImportedRows(rows, listing)[key]]
  BY DEF ImportedRows
<1> QED BY <1>3, <1>4 DEF Tables

\* So does saving whatever an administrator may have typed.
LEMMA DraftsTyped ==
    ASSUME NEW form \in Tables, NEW new \in RowType \cup {None}, NEW draft \in Drafts(form, new)
    PROVE  draft[1] \in Tables /\ draft[2] \in RowType \cup {None}
<1>1. ASSUME NEW key \in Present(form), NEW label \in Labels
      PROVE  [form EXCEPT ![key].label = label] \in Tables
  BY <1>1, PresentRows DEF Tables, RowType
<1>2. ASSUME NEW key \in Present(form) PROVE [form EXCEPT ![key].enabled = ~@] \in Tables
  <2>1. form[key] \in RowType /\ key \in Keys
    BY <1>2, PresentRows
  <2>2. ASSUME NEW switch \in BOOLEAN PROVE [form EXCEPT ![key].enabled = switch] \in Tables
    BY <2>1 DEF Tables, RowType
  <2>3. (~form[key].enabled) \in BOOLEAN
    OBVIOUS
  <2> QED BY <2>2, <2>3, Zenon
<1>3. Relabelled(form) \subseteq Tables
  <2>1. ASSUME NEW change \in Present(form) \X Labels
        PROVE  [form EXCEPT ![change[1]].label = change[2]] \in Tables
    <3>1. change[1] \in Present(form) /\ change[2] \in Labels
      OBVIOUS
    <3> QED BY <1>1, <3>1
  <2> QED BY <2>1 DEF Relabelled
<1>4. Switched(form) \subseteq Tables
  BY <1>2 DEF Switched
<1>5. Retyped(form) \subseteq Tables
  <2>1. ASSUME NEW change \in Present(form) \X Types
        PROVE  [form EXCEPT ![change[1]].type = change[2]] \in Tables
    <3>1. change[1] \in Present(form) /\ change[2] \in Types
      OBVIOUS
    <3> QED BY <3>1, PresentRows DEF Tables, RowType
  <2> QED BY <2>1 DEF Retyped
<1>6. Typed \subseteq Ids
  BY FieldAssumption DEF Ids
<1>7. Relinked(form) \subseteq Tables
  <2>1. ASSUME NEW change \in Present(form) \X ({NoLink} \cup Typed)
        PROVE  [form EXCEPT ![change[1]].link = change[2]] \in Tables
    <3>1. change[1] \in Present(form) /\ change[2] \in {NoLink} \cup Ids
      BY <1>6
    <3> QED BY <3>1, PresentRows DEF Tables, RowType
  <2> QED BY <2>1 DEF Relinked
<1>8. Additions \subseteq RowType
  <2>1. ASSUME NEW added \in Labels \X ({NoLink} \cup Typed)
        PROVE  Row(added[1], "text", TRUE, added[2]) \in RowType
    <3>1. added[1] \in Labels /\ added[2] \in {NoLink} \cup Ids
      BY <1>6
    <3> QED BY <3>1 DEF Row, RowType, Types
  <2> QED BY <2>1 DEF Additions
<1> QED BY <1>3, <1>4, <1>5, <1>7, <1>8 DEF Drafts, Edited

\* Rows of a form in the place of those stored.
LEMMA SavedTyped ==
    ASSUME TypeInv, NEW form \in Tables, NEW new \in RowType \cup {None}
    PROVE  Saved(form, new) \in Tables
BY DEF TypeInv, Saved, Tables

\* A bound is spent by one.
LEMMA SpendTyped ==
    ASSUME TypeInv, NEW what \in {"saves", "troubles"}, Spend(what)
    PROVE  budget' \in [saves : 0..MaxSaves, troubles : 0..MaxTroubles]
BY FieldAssumption DEF TypeInv, Spend

LEMMA ChargeTyped ==
    ASSUME TypeInv, NEW unusual \in BOOLEAN, Charge(unusual)
    PROVE  budget' \in [saves : 0..MaxSaves, troubles : 0..MaxTroubles]
<1>1. /\ budget.saves \in 0..MaxSaves /\ budget.troubles \in 0..MaxTroubles
      /\ MaxSaves \in Nat /\ MaxTroubles \in Nat
  BY FieldAssumption DEF TypeInv
<1>2. PICK cost \in {0, 1} : /\ budget.saves > 0 /\ budget.troubles >= cost
                           /\ budget' = [saves |-> budget.saves - 1, troubles |-> budget.troubles - cost]
  BY DEF Charge
<1> QED BY <1>1, <1>2

\* The field that comes next, and its target.
LEMMA CurrentIs ==
    ASSUME TypeInv, NEW e \in Editors, Synchronizing(e)
    PROVE  /\ CurrentKey(e) \in DOMAIN editors[e].todo
           /\ CurrentKey(e) \in Keys /\ Current(e) \in RowType
           /\ editors[e].listing \in Listings /\ editors[e].rows \in Tables
           /\ editors[e].new \in RowType \cup {None}
           /\ CurrentTarget(e) \in Present(editors[e].listing) \cup {NoLink}
           /\ CurrentTarget(e) # NoLink => CurrentTarget(e) \in Ids
<1>1. /\ editors[e] \in EditorType /\ editors[e].todo \in PartialTables
      /\ editors[e].listing \in Listings /\ editors[e].rows \in Tables
      /\ editors[e].new \in RowType \cup {None}
  BY DEF TypeInv, EditorType, Equipped, Synchronizing
<1>2. PICK keys \in SUBSET Keys : editors[e].todo \in [keys -> RowType]
  BY <1>1 DEF PartialTables
<1>3. keys \in SUBSET Nat /\ keys = DOMAIN editors[e].todo /\ keys # {}
  BY <1>2, IdsAreNumbers DEF Keys, Synchronizing
<1>4. CurrentKey(e) \in keys
  BY <1>3, LowestIs DEF CurrentKey
<1>5. Current(e) \in RowType
  BY <1>2, <1>4 DEF Current
<1>6. CurrentTarget(e) \in Present(editors[e].listing) \cup {NoLink}
  BY <1>1, TargetIs DEF CurrentTarget
<1> QED BY <1>1, <1>3, <1>4, <1>5, <1>6, PresentFields

\* What an editor knows after a field has got its custom field.
LEMMA LinkIs ==
    ASSUME TypeInv, NEW e \in Editors, Synchronizing(e), NEW id \in Ids, NEW listing \in Listings
    PROVE  /\ Link(e, id, listing) \in EditorType /\ Equipped(Link(e, id, listing))
           /\ Link(e, id, listing).stage = "sync"
           /\ Link(e, id, listing).rows = editors[e].rows
           /\ Link(e, id, listing).new = editors[e].new
           /\ Link(e, id, listing).known = editors[e].known
           /\ Link(e, id, listing).listing = listing
           /\ Link(e, id, listing).alone = editors[e].alone
           /\ Link(e, id, listing).orderly = editors[e].orderly
           /\ Link(e, id, listing).todo
                = Restrict(editors[e].todo, DOMAIN editors[e].todo \ {CurrentKey(e)})
           /\ Current(e).link = id => Link(e, id, listing).links = editors[e].links
           /\ Current(e).link # id =>
                 Link(e, id, listing).links = Put(editors[e].links, CurrentKey(e), id)
<1> DEFINE todo == Restrict(editors[e].todo, DOMAIN editors[e].todo \ {CurrentKey(e)})
           links == IF Current(e).link = id THEN editors[e].links
                    ELSE Put(editors[e].links, CurrentKey(e), id)
<1>1. /\ editors[e] \in EditorType /\ editors[e].todo \in PartialTables
      /\ editors[e].links \in PartialLinks /\ editors[e].stage = "sync"
  BY DEF TypeInv, EditorType, Synchronizing
<1>2. todo \in PartialTables
  <2>1. PICK keys \in SUBSET Keys : editors[e].todo \in [keys -> RowType]
    BY <1>1 DEF PartialTables
  <2>2. todo \in [keys \ {CurrentKey(e)} -> RowType] /\ keys \ {CurrentKey(e)} \in SUBSET Keys
    BY <2>1 DEF Restrict
  <2> QED BY <2>2 DEF PartialTables
<1>3. Put(editors[e].links, CurrentKey(e), id) \in PartialLinks
  <2>1. PICK keys \in SUBSET Keys : editors[e].links \in [keys -> Ids]
    BY <1>1 DEF PartialLinks
  <2>2. CurrentKey(e) \in Keys
    BY CurrentIs
  <2>3. /\ Put(editors[e].links, CurrentKey(e), id) \in [keys \cup {CurrentKey(e)} -> Ids]
        /\ keys \cup {CurrentKey(e)} \in SUBSET Keys
    BY <2>1, <2>2 DEF Put
  <2> QED BY <2>3 DEF PartialLinks
<1>4. links \in PartialLinks
  BY <1>1, <1>3
<1>5. Link(e, id, listing)
        = [editors[e] EXCEPT !.todo = todo, !.listing = listing, !.links = links]
  BY DEF Link
<1>6. Equipped(editors[e])
  BY DEF TypeInv
<1> HIDE DEF todo, links
<1>7. /\ Link(e, id, listing) \in EditorType
      /\ Link(e, id, listing).stage = "sync"
      /\ Link(e, id, listing).rows = editors[e].rows
      /\ Link(e, id, listing).new = editors[e].new
      /\ Link(e, id, listing).known = editors[e].known
      /\ Link(e, id, listing).listing = listing
      /\ Link(e, id, listing).alone = editors[e].alone
      /\ Link(e, id, listing).orderly = editors[e].orderly
      /\ Link(e, id, listing).todo = todo
      /\ Link(e, id, listing).links = links
  BY ZenonT(30), <1>1, <1>2, <1>4, <1>5 DEF EditorType
<1>8. Equipped(Link(e, id, listing))
  BY <1>1, <1>6, <1>7 DEF Equipped
<1> QED BY <1>7, <1>8 DEF todo, links

\* An editor whose request fails keeps the form.
LEMMA GiveUpTyped ==
    ASSUME TypeInv, NEW e \in Editors, editors[e].stage \in {"list", "read", "sync"}
    PROVE  /\ editors[e].rows \in Tables /\ editors[e].new \in RowType \cup {None}
           /\ GiveUp(e) = Editing(editors[e].rows, editors[e].new)
           /\ GiveUp(e) \in EditorType /\ Equipped(GiveUp(e))
<1>1. editors[e].rows \in Tables /\ editors[e].new \in RowType \cup {None}
  BY DEF TypeInv, EditorType, Equipped
<1> QED BY <1>1, EditingTyped DEF GiveUp

TypeRest ==
    /\ rows' \in Tables
    /\ remote' \in Listings
    /\ synced' \in BOOLEAN
    /\ budget' \in [saves : 0..MaxSaves, troubles : 0..MaxTroubles]

\* Loading and saving.
LEMMA FormStepsTyped ==
    ASSUME TypeInv, NEW e \in Editors,
           \/ Open(e)
           \/ Import(e)
           \/ /\ editors[e].stage = "editing"
              /\ \E draft \in Drafts(editors[e].rows, editors[e].new), expired \in BOOLEAN :
                    Save(e, draft[1], draft[2], expired)
    PROVE  Moves(e) /\ TypeRest
<1>0. editors[e] \in EditorType /\ Equipped(editors[e])
  BY DEF TypeInv
<1>1. CASE Open(e)
  <2> DEFINE editor == [Closed EXCEPT !.stage = "import", !.listing = remote]
  <2>1. editor \in EditorType /\ Equipped(editor)
    BY NothingTyped DEF Closed, EditorType, Stages, Equipped, TypeInv
  <2>2. editors' = [editors EXCEPT ![e] = editor] /\ rows' = rows /\ remote' = remote
    BY <1>1 DEF Open
  <2>3. Moves(e)
    BY <2>1, <2>2 DEF Moves
  <2> QED BY <1>1, <2>3 DEF Open, TypeInv, TypeRest
<1>2. CASE Import(e)
  <2> DEFINE refused == KeysTaken(rows, editors[e].listing)
             editor == IF refused THEN Closed ELSE Editing(rows', None)
  <2>1. /\ rows' = IF refused THEN rows ELSE ImportedRows(rows, editors[e].listing)
        /\ Continue(e, editor, rows' # rows)
        /\ synced' = (synced /\ rows' = rows)
        /\ UNCHANGED <<remote, budget>>
        /\ editors[e].stage = "import"
    BY <1>2 DEF Import
  <2>2. editors[e].listing \in Listings
    BY <1>0, <2>1 DEF Equipped
  <2>3. rows' \in Tables
    BY <2>1, <2>2, ImportTyped DEF TypeInv
  <2>4. editor \in EditorType /\ Equipped(editor)
    BY <2>3, EditingTyped, ClosedTyped
  <2> HIDE DEF refused, editor
  <2>5. Moves(e)
    BY <2>1, <2>4 DEF Continue, Moves
  <2> QED BY <2>1, <2>3, <2>5 DEF TypeInv, TypeRest
<1>3. ASSUME editors[e].stage = "editing",
             NEW draft \in Drafts(editors[e].rows, editors[e].new), NEW expired \in BOOLEAN,
             Save(e, draft[1], draft[2], expired)
      PROVE  Moves(e) /\ TypeRest
  <2> DEFINE form == draft[1]
             new == draft[2]
             known == IF expired THEN Nothing ELSE rows'
             editor == [Editing(form, new) EXCEPT !.stage = "list", !.alone = TRUE, !.known = known]
  <2>1. form \in Tables /\ new \in RowType \cup {None}
    <3>1. editors[e].rows \in Tables /\ editors[e].new \in RowType \cup {None}
      BY <1>0, <1>3 DEF Equipped, EditorType
    <3> QED BY <1>3, <3>1, DraftsTyped
  <2>2. /\ rows' = Saved(form, new)
        /\ Continue(e, editor, rows' # rows)
        /\ synced' = (synced /\ rows' = rows)
        /\ remote' = remote
        /\ Charge(Unusual(e, form, new))
    BY <1>3 DEF Save
  <2>3. rows' \in Tables
    BY <2>1, <2>2, SavedTyped
  <2>4. known \in Tables \cup {Nothing}
    BY <2>3
  <2>5. Editing(form, new) \in EditorType /\ Editing(form, new).rows = form
    BY <2>1, EditingTyped
  <2>6. editor \in EditorType /\ editor.stage = "list" /\ editor.rows = form
    <3> HIDE DEF form, new, known
    <3> QED BY <2>4, <2>5 DEF EditorType, Stages
  <2>7. Equipped(editor)
    BY <2>1, <2>6 DEF Equipped
  <2>8. budget' \in [saves : 0..MaxSaves, troubles : 0..MaxTroubles]
    BY <2>2, ChargeTyped DEF Unusual
  <2> HIDE DEF form, new, known, editor
  <2>9. Moves(e)
    BY <2>2, <2>6, <2>7 DEF Continue, Moves
  <2> QED BY <2>2, <2>3, <2>8, <2>9 DEF TypeInv, TypeRest
<1> QED BY <1>1, <1>2, <1>3

\* Renaming and creating keep custom fields well typed.
LEMMA RequestTyped ==
    ASSUME TypeInv, NEW row \in RowType
    PROVE  /\ \A id \in Ids : [remote EXCEPT ![id] = CustomField(row.label, row.type)] \in Listings
           /\ \A id \in Present(remote) : [remote EXCEPT ![id].label = row.label] \in Listings
<1>1. remote \in [Ids -> FieldType \cup {None, Deleted}] /\ remote \in Listings
  BY DEF TypeInv, Listings
<1>2. CustomField(row.label, row.type) \in FieldType
  BY DEF CustomField, RowType, FieldType
<1>3. ASSUME NEW id \in Ids
      PROVE  [remote EXCEPT ![id] = CustomField(row.label, row.type)] \in Listings
  BY <1>1, <1>2 DEF Listings
<1>4. ASSUME NEW id \in Present(remote) PROVE [remote EXCEPT ![id].label = row.label] \in Listings
  <2>1. id \in Ids /\ remote[id] \in FieldType
    BY <1>1, <1>4, PresentFields
  <2>2. [remote[id] EXCEPT !.label = row.label] \in FieldType
    BY <2>1 DEF FieldType, RowType
  <2>3. [remote EXCEPT ![id].label = row.label]
          = [remote EXCEPT ![id] = [remote[id] EXCEPT !.label = row.label]]
    BY <1>1, <2>1
  <2> QED BY <1>1, <2>1, <2>2, <2>3 DEF Listings
<1> QED BY <1>3, <1>4

\* The lowest unused identifier.
LEMMA UnusedIs ==
    ASSUME Unused # {}
    PROVE  Lowest(Unused) \in Ids /\ remote[Lowest(Unused)] = None
<1>1. Unused \in SUBSET Nat
  BY IdsAreNumbers DEF Unused
<1>2. Lowest(Unused) \in Unused
  BY <1>1, LowestIs
<1> QED BY <1>2 DEF Unused

\* Reading a list of custom fields and the rows.
LEMMA ReadStepsTyped ==
    ASSUME TypeInv, NEW e \in Editors, List(e) \/ Read(e) \/ RequestFails(e)
    PROVE  Moves(e) /\ TypeRest
<1>0. editors[e] \in EditorType /\ Equipped(editors[e])
  BY DEF TypeInv
<1>1. CASE List(e)
  <2> DEFINE editor == [editors[e] EXCEPT !.stage = "read", !.listing = remote]
  <2>1. editors' = [editors EXCEPT ![e] = editor] /\ UNCHANGED <<rows, remote, synced, budget>>
    BY <1>1 DEF List, TypeInv
  <2>2. editor \in EditorType /\ Equipped(editor)
    BY <1>0, <1>1 DEF List, EditorType, Equipped, Stages, TypeInv
  <2>3. Moves(e)
    BY <2>1, <2>2 DEF Moves
  <2> QED BY <2>1, <2>3 DEF TypeInv, TypeRest
<1>2. CASE Read(e)
  <2> DEFINE todo == Restrict(Known(e), Synchronized(Known(e)))
             orderly == Orderly(Known(e), editors[e].listing)
             editor == [editors[e] EXCEPT !.stage = "sync", !.known = Nothing, !.todo = todo,
                                          !.orderly = orderly]
  <2>1. editors' = [editors EXCEPT ![e] = editor] /\ UNCHANGED <<rows, remote, synced, budget>>
    BY <1>2 DEF Read, TypeInv
  <2>2. todo \in PartialTables
    <3>1. Known(e) \in Tables
      <4>1. editors[e].known \in Tables \cup {Nothing}
        BY <1>0 DEF EditorType
      <4>2. \A key \in Present(editors[e].known) : editors[e].known[key] \in RowType
        BY <4>1, PresentRows, NothingIsPresent
      <4> QED BY <4>2 DEF Known, Tables, TypeInv
    <3>2. todo \in [Synchronized(Known(e)) -> RowType] /\ Synchronized(Known(e)) \in SUBSET Keys
      BY <3>1, PresentRows DEF Restrict, Synchronized
    <3> QED BY <3>2 DEF PartialTables
  <2>3. orderly \in BOOLEAN
    BY DEF Orderly
  <2>4. /\ editors[e].rows \in Tables /\ editors[e].listing \in Listings
    BY <1>0, <1>2 DEF Read, Equipped
  <2> HIDE DEF todo, orderly
  <2>5. editor \in EditorType /\ Equipped(editor)
    BY <1>0, <2>2, <2>3, <2>4 DEF EditorType, Equipped, Stages
  <2>6. Moves(e)
    BY <2>1, <2>5 DEF Moves
  <2> QED BY <2>1, <2>6 DEF TypeInv, TypeRest
<1>3. CASE RequestFails(e)
  <2> DEFINE editor == IF editors[e].stage = "import" THEN Closed ELSE GiveUp(e)
  <2>1. /\ editors' = [editors EXCEPT ![e] = editor]
        /\ UNCHANGED <<rows, remote, synced>>
        /\ editors[e].stage \in {"import", "list", "read", "sync"}
        /\ Spend("troubles")
    BY <1>3 DEF RequestFails, TypeInv
  <2>2. editor \in EditorType /\ Equipped(editor)
    BY <2>1, GiveUpTyped, ClosedTyped
  <2>3. Moves(e)
    BY <2>1, <2>2 DEF Moves
  <2> QED BY <2>1, <2>3, SpendTyped DEF TypeInv, TypeRest
<1> QED BY <1>1, <1>2, <1>3

\* Synchronizing one field after the other.
LEMMA SyncStepsTyped ==
    ASSUME TypeInv, NEW e \in Editors,
           Mismatch(e) \/ Create(e) \/ Rename(e) \/ Keep(e) \/ Refused(e) \/ AnswerLost(e)
    PROVE  Moves(e) /\ TypeRest
<1>0. /\ Synchronizing(e) /\ editors[e].stage \in {"list", "read", "sync"}
      /\ editors[e].listing \in Listings /\ Current(e) \in RowType
      /\ CurrentTarget(e) # NoLink => CurrentTarget(e) \in Ids
  <2>1. Synchronizing(e)
    BY DEF Mismatch, Create, Rename, Keep, Refused, AnswerLost, Creates, Renames
  <2> QED BY <2>1, CurrentIs DEF Synchronizing
<1>1. CASE Mismatch(e) \/ Refused(e)
  <2>1. editors' = [editors EXCEPT ![e] = GiveUp(e)] /\ UNCHANGED <<rows, remote, synced, budget>>
    BY <1>1 DEF Mismatch, Refused
  <2>2. Moves(e)
    BY <1>0, <2>1, GiveUpTyped DEF Moves
  <2> QED BY <2>1, <2>2 DEF TypeInv, TypeRest
<1>2. CASE Create(e)
  <2> DEFINE id == Lowest(Unused)
             listing == [editors[e].listing EXCEPT ![id] = remote'[id]]
  <2>1. /\ remote' = Requested(e, id) /\ id \in Ids
        /\ Continue(e, Link(e, id, listing), TRUE)
        /\ synced' = FALSE /\ UNCHANGED <<rows, budget>>
    BY <1>2, UnusedIs DEF Create
  <2>2. remote' \in Listings
    BY <1>0, <2>1, RequestTyped DEF Requested
  <2>3. listing \in Listings
    <3>1. remote'[id] \in FieldType \cup {None, Deleted}
      BY <2>1, <2>2 DEF Listings
    <3> QED BY <1>0, <2>1, <3>1 DEF Listings
  <2> HIDE DEF id, listing
  <2>4. Link(e, id, listing) \in EditorType /\ Equipped(Link(e, id, listing))
    BY <1>0, <2>1, <2>3, LinkIs
  <2>5. Moves(e)
    BY <2>1, <2>4 DEF Continue, Moves
  <2> QED BY <2>1, <2>2, <2>5 DEF TypeInv, TypeRest
<1>3. CASE Rename(e) \/ Keep(e)
  <2> DEFINE editor == Link(e, CurrentTarget(e), editors[e].listing)
  <2>1. CurrentTarget(e) \in Ids
    BY <1>0, <1>3 DEF Rename, Keep, Renames
  <2>2. editor \in EditorType /\ Equipped(editor)
    BY <1>0, <2>1, LinkIs
  <2>3. CASE Rename(e)
    <3>1. /\ remote' = [remote EXCEPT ![CurrentTarget(e)].label = Current(e).label]
          /\ CurrentTarget(e) \in Present(remote)
          /\ Continue(e, editor, remote' # remote)
          /\ synced' = (synced /\ remote' = remote)
          /\ UNCHANGED <<rows, budget>>
      BY <2>3 DEF Rename
    <3>2. remote' \in Listings
      BY <1>0, <3>1, RequestTyped
    <3> HIDE DEF editor
    <3>3. Moves(e)
      BY <2>2, <3>1 DEF Continue, Moves
    <3> QED BY <3>1, <3>2, <3>3 DEF TypeInv, TypeRest
  <2>4. CASE Keep(e)
    <3>1. Continue(e, editor, FALSE) /\ UNCHANGED <<rows, remote, synced, budget>>
      BY <2>4 DEF Keep
    <3> HIDE DEF editor
    <3>2. Moves(e)
      BY <2>2, <3>1 DEF Continue, Moves
    <3> QED BY <3>1, <3>2 DEF TypeInv, TypeRest
  <2> QED BY <1>3, <2>3, <2>4
<1>4. CASE AnswerLost(e)
  <2>1. /\ Continue(e, GiveUp(e), TRUE)
        /\ synced' = FALSE /\ rows' = rows /\ Spend("troubles")
        /\ \/ remote' = Requested(e, Lowest(Unused)) /\ Unused # {}
           \/ /\ remote' = [remote EXCEPT ![CurrentTarget(e)].label = Current(e).label]
              /\ CurrentTarget(e) \in Present(remote)
    BY <1>4 DEF AnswerLost
  <2>2. remote' \in Listings
    BY <1>0, <2>1, RequestTyped, UnusedIs DEF Requested
  <2>3. GiveUp(e) \in EditorType /\ Equipped(GiveUp(e))
    BY <1>0, GiveUpTyped
  <2>4. Moves(e)
    BY <2>1, <2>3 DEF Continue, Moves
  <2> QED BY <2>1, <2>2, <2>4, SpendTyped DEF TypeInv, TypeRest
<1> QED BY <1>1, <1>2, <1>3, <1>4

\* Committing writes links to custom fields into rows that are there.
LEMMA CommitTyped ==
    ASSUME TypeInv, RowsStay, NEW e \in Editors, Commit(e)
    PROVE  Moves(e) /\ TypeRest
<1>1. /\ rows' = Linked(e) /\ Continue(e, Editing(rows', None), rows' # rows)
      /\ UNCHANGED <<remote, budget>>
  BY DEF Commit
<1>5. synced' \in BOOLEAN
  BY DEF Commit
<1>2. rows' \in Tables
  <2>1. /\ DOMAIN editors[e].links \subseteq Present(rows)
        /\ \A key \in DOMAIN editors[e].links : editors[e].links[key] \in Ids
    BY DEF RowsStay, EditorStays, TypeInv, EditorType, PartialLinks
  <2>2. ASSUME NEW key \in DOMAIN editors[e].links
        PROVE  [rows[key] EXCEPT !.link = editors[e].links[key]] \in RowType
    <3>1. rows[key] \in RowType /\ editors[e].links[key] \in Ids
      BY <2>1, PresentRows DEF TypeInv
    <3> QED BY <3>1 DEF RowType
  <2> QED BY <1>1, <2>2 DEF Linked, TypeInv, Tables
<1>3. Editing(rows', None) \in EditorType /\ Equipped(Editing(rows', None))
  BY <1>2, EditingTyped
<1>4. Moves(e)
  BY <1>1, <1>3 DEF Continue, Moves
<1> QED BY <1>1, <1>2, <1>4, <1>5 DEF TypeInv, TypeRest

\* Users disturb everybody.
LEMMA UsersTyped ==
    ASSUME TypeInv, UserCreates \/ UserRenames \/ UserDeletes
    PROVE  /\ TypeInv'
           /\ \A e \in Editors : editors'[e] = [editors[e] EXCEPT !.alone = FALSE]
           /\ rows' = rows /\ synced' = FALSE
           /\ \A id \in Ids : remote[id] # None => remote'[id] # None
<1>1. PICK id \in Ids, field \in FieldType \cup {Deleted} : UserEdits(id, field)
  <2>1. CASE UserCreates
    <3>1. PICK label \in Labels, type \in Types :
            UserEdits(Lowest(Unused), CustomField(label, type))
      BY <2>1 DEF UserCreates
    <3>2. CustomField(label, type) \in FieldType
      BY DEF CustomField, FieldType
    <3> QED BY <2>1, <3>1, <3>2, UnusedIs DEF UserCreates
  <2>2. CASE UserRenames
    <3>1. PICK id \in Present(remote), label \in Labels :
            UserEdits(id, [remote[id] EXCEPT !.label = label])
      BY <2>2 DEF UserRenames
    <3>2. id \in Ids /\ remote[id] \in FieldType
      BY PresentFields DEF TypeInv
    <3>3. [remote[id] EXCEPT !.label = label] \in FieldType
      BY <3>2 DEF FieldType
    <3> QED BY <3>1, <3>2, <3>3
  <2>3. CASE UserDeletes
    <3>1. PICK id \in Present(remote) : UserEdits(id, Deleted)
      BY <2>3 DEF UserDeletes
    <3> QED BY <3>1, PresentFields DEF TypeInv
  <2> QED BY <2>1, <2>2, <2>3
<1>2. /\ Spend("troubles") /\ remote' = [remote EXCEPT ![id] = field]
      /\ editors' = [e \in Editors |-> [editors[e] EXCEPT !.alone = FALSE]]
      /\ synced' = FALSE /\ rows' = rows
  BY <1>1 DEF UserEdits
<1>3. remote' \in Listings /\ field # None
  BY <1>2, Distinct DEF TypeInv, Listings
<1>4. ASSUME NEW e \in Editors
      PROVE  /\ [editors[e] EXCEPT !.alone = FALSE] \in EditorType
             /\ Equipped([editors[e] EXCEPT !.alone = FALSE])
  BY ZenonT(90) DEF TypeInv, EditorType, Equipped
<1>5. editors' \in [Editors -> EditorType] /\ \A e \in Editors : Equipped(editors'[e])
  BY <1>2, <1>4
<1>6. \A i \in Ids : remote[i] # None => remote'[i] # None
  BY <1>2, <1>3 DEF TypeInv, Listings
<1> QED BY <1>2, <1>3, <1>5, <1>6, SpendTyped DEF TypeInv

\* Each step of an editor is a move.
LEMMA EditorStepTyped ==
    ASSUME TypeInv, RowsStay, NEW e \in Editors, EditorStep(e)
    PROVE  Moves(e) /\ TypeRest /\ TypeInv' /\ \A other \in Editors \ {e} : Bystander(other)
<1>1. Moves(e) /\ TypeRest
  BY FormStepsTyped, ReadStepsTyped, SyncStepsTyped, CommitTyped DEF EditorStep
<1> QED BY <1>1, MovesTyped DEF TypeInv, TypeRest

\* One standard field, at most one custom field, no editor open.
LEMMA InitTyped == Init => TypeInv
<1> SUFFICES ASSUME Init PROVE TypeInv
  OBVIOUS
<1>1. rows \in Tables
  BY FieldAssumption DEF Init, Tables, Row, RowType, Types
<1>2. remote \in Listings
  <2>1. PICK field \in {None} \cup {CustomField(label, "text") : label \in Labels} :
          remote = [id \in Ids |-> IF id = 1 THEN field ELSE None]
    BY DEF Init
  <2>2. field \in FieldType \cup {None}
    BY DEF CustomField, FieldType, Types
  <2> QED BY <2>1, <2>2 DEF Listings
<1>3. budget \in [saves : 0..MaxSaves, troubles : 0..MaxTroubles]
  BY FieldAssumption DEF Init
<1> QED BY <1>1, <1>2, <1>3, ClosedTyped DEF Init, TypeInv

-----------------------------------------------------------------------------
(* Rows stay.                                                              *)

\* A form holds nothing but what it was given.
LEMMA EditingStays ==
    ASSUME NEW table, NEW form \in Tables, NEW new \in RowType \cup {None}
    PROVE  EditorStays(table, Editing(form, new))
BY EditingTyped, NothingIsPresent DEF EditorStays

\* A closed editor holds nothing.
LEMMA ClosedStays == ASSUME NEW table PROVE EditorStays(table, Closed)
<1>1. Closed.known = Nothing /\ Closed.todo = Nothing /\ Closed.links = Nothing
  BY DEF Closed
<1> QED BY <1>1, NothingIsPresent DEF EditorStays

\* What is to be shown of a step of editor e.
Keeps(e) == Present(rows) \subseteq Present(rows') /\ EditorStays(rows', editors'[e])

\* Loading adds rows and sets links.
LEMMA ImportKeeps ==
    ASSUME TypeInv, NEW e \in Editors, Import(e)
    PROVE  Keeps(e)
<1> DEFINE listing == editors[e].listing
           refused == KeysTaken(rows, listing)
<1>0. /\ listing \in Listings
      /\ rows' = IF refused THEN rows ELSE ImportedRows(rows, listing)
      /\ editors'[e] = IF refused THEN Closed ELSE Editing(rows', None)
  <2>1. Equipped(editors[e])
    BY DEF TypeInv
  <2>2. Continue(e, IF refused THEN Closed ELSE Editing(rows', None), rows' # rows)
    BY DEF Import
  <2>3. editors'[e] = IF refused THEN Closed ELSE Editing(rows', None)
    <3> HIDE DEF refused
    <3> QED BY <2>2 DEF Continue, Disturbed, TypeInv
  <2> QED BY <2>1, <2>3 DEF Import, Equipped
<1>1. rows' \in Tables
  BY <1>0, ImportTyped DEF TypeInv
<1>2. Present(rows) \subseteq Present(rows')
  <2>1. ASSUME NEW key \in Keys, rows[key] # None PROVE ImportedRows(rows, listing)[key] # None
    <3>1. rows[key] \in RowType
      BY <2>1 DEF TypeInv, Tables
    <3>2. \A link : [rows[key] EXCEPT !.link = link] # None
      BY <3>1 DEF RowType, None
    <3>3. \A id : ImportedRow(listing, id) # None
      BY DEF ImportedRow, Row, None
    <3> QED BY <2>1, <3>2, <3>3 DEF ImportedRows
  <2> QED BY <1>0, <1>1, <2>1, PresentRows DEF TypeInv
<1>3. EditorStays(rows', editors'[e])
  BY <1>0, <1>1, EditingStays, ClosedStays
<1> QED BY <1>2, <1>3 DEF Keeps

\* Saving replaces rows by those of the form, and adds one.
LEMMA SaveKeeps ==
    ASSUME TypeInv, NEW e \in Editors, editors[e].stage = "editing",
           \E draft \in Drafts(editors[e].rows, editors[e].new), expired \in BOOLEAN :
              Save(e, draft[1], draft[2], expired)
    PROVE  /\ Keeps(e)
           /\ \E form \in Tables, new \in RowType \cup {None}, known \in {Nothing, rows'} :
                 editors'[e] = [Editing(form, new) EXCEPT !.stage = "list", !.alone = TRUE,
                                                          !.known = known]
<1>a. PICK draft \in Drafts(editors[e].rows, editors[e].new), expired \in BOOLEAN :
        Save(e, draft[1], draft[2], expired)
  OBVIOUS
<1> DEFINE form == draft[1]
           new == draft[2]
           known == IF expired THEN Nothing ELSE rows'
           editor == [Editing(form, new) EXCEPT !.stage = "list", !.alone = TRUE, !.known = known]
<1>0. editors[e].rows \in Tables /\ editors[e].new \in RowType \cup {None}
  BY DEF TypeInv, Equipped, EditorType
<1>1. form \in Tables /\ new \in RowType \cup {None}
  BY <1>0, DraftsTyped
<1>2. rows' = Saved(form, new) /\ Continue(e, editor, rows' # rows)
  BY <1>a DEF Save
<1>3. editors'[e] = editor
  <2> HIDE DEF editor
  <2> QED BY <1>2 DEF Continue, Disturbed, TypeInv
<1>4. rows' \in Tables
  BY <1>1, <1>2, SavedTyped
<1> HIDE DEF form, new
<1>5. Present(rows) \subseteq Present(rows')
  BY <1>1, <1>2, <1>4, PresentRows DEF Saved, TypeInv
<1>6. EditorStays(rows', editors'[e])
  <2>1. EditorStays(rows', Editing(form, new))
    BY <1>1, EditingStays
  <2>2. /\ editor.todo = Editing(form, new).todo /\ editor.links = Editing(form, new).links
        /\ editor.known = known
    <3>1. Editing(form, new) \in EditorType
      BY <1>1, EditingTyped
    <3> HIDE DEF known
    <3> QED BY <3>1 DEF EditorType
  <2>3. Present(known) \subseteq Present(rows')
    BY NothingIsPresent
  <2> HIDE DEF known, editor
  <2> QED BY <1>3, <2>1, <2>2, <2>3 DEF EditorStays
<1>7. known \in {Nothing, rows'}
  OBVIOUS
<1> HIDE DEF known
<1> QED BY <1>1, <1>3, <1>5, <1>6, <1>7 DEF Keeps

\* A table of rows to be synchronized holds rows only.
LEMMA PresentTodo ==
    ASSUME TypeInv, NEW e \in Editors
    PROVE  /\ Present(editors[e].todo) = DOMAIN editors[e].todo
           /\ DOMAIN editors[e].todo \subseteq Keys
           /\ \A key \in DOMAIN editors[e].todo : editors[e].todo[key] \in RowType
<1>1. editors[e] \in EditorType
  BY DEF TypeInv
<1>2. editors[e].todo \in PartialTables
  BY <1>1 DEF EditorType
<1>3. PICK keys \in SUBSET Keys : editors[e].todo \in [keys -> RowType]
  BY <1>2 DEF PartialTables
<1> QED BY <1>3, Distinct DEF Present

\* The rows a synchronization goes by.
LEMMA KnownIs ==
    ASSUME TypeInv, RowsStay, NEW e \in Editors
    PROVE  Known(e) \in Tables /\ Present(Known(e)) \subseteq Present(rows)
<1>1. editors[e].known \in Tables \cup {Nothing}
  BY DEF TypeInv, EditorType
<1>2. \A key \in Present(editors[e].known) : editors[e].known[key] \in RowType
  BY <1>1, PresentRows, NothingIsPresent
<1>3. Known(e) \in Tables
  BY <1>2 DEF Known, Tables, TypeInv
<1>4. ASSUME NEW key \in Present(Known(e)) PROVE key \in Present(rows)
  <2>1. key \in Keys /\ Known(e)[key] # None
    BY <1>3, <1>4, PresentRows
  <2>2. CASE key \in Present(editors[e].known)
    BY <2>2 DEF RowsStay, EditorStays
  <2>3. CASE key \notin Present(editors[e].known)
    BY <2>1, <2>3, PresentRows DEF Known, TypeInv
  <2> QED BY <2>2, <2>3
<1> QED BY <1>3, <1>4

\* Reading takes over what is there.
LEMMA ReadKeeps ==
    ASSUME TypeInv, RowsStay, NEW e \in Editors,
           Open(e) \/ List(e) \/ Read(e) \/ RequestFails(e)
    PROVE  Keeps(e)
<1>0. rows' = rows /\ EditorStays(rows, editors[e]) /\ editors[e] \in EditorType
  BY DEF Open, List, Read, RequestFails, RowsStay, TypeInv
<1>1. CASE Open(e)
  <2> DEFINE editor == [Closed EXCEPT !.stage = "import", !.listing = remote]
  <2>1. editors'[e] = editor
    BY <1>1 DEF Open, TypeInv
  <2>2. editor.known = Closed.known /\ editor.todo = Closed.todo /\ editor.links = Closed.links
    BY DEF Closed
  <2> HIDE DEF editor
  <2>3. EditorStays(rows, editor)
    BY <2>2, ClosedStays DEF EditorStays
  <2> QED BY <1>0, <2>1, <2>3 DEF Keeps
<1>2. CASE List(e)
  <2> DEFINE editor == [editors[e] EXCEPT !.stage = "read", !.listing = remote]
  <2>1. editors'[e] = editor
    BY <1>2 DEF List, TypeInv
  <2>2. /\ editor.known = editors[e].known /\ editor.todo = editors[e].todo
        /\ editor.links = editors[e].links
    BY <1>0 DEF EditorType
  <2> HIDE DEF editor
  <2> QED BY <1>0, <2>1, <2>2 DEF Keeps, EditorStays
<1>3. CASE Read(e)
  <2> DEFINE todo == Restrict(Known(e), Synchronized(Known(e)))
             orderly == Orderly(Known(e), editors[e].listing)
             editor == [editors[e] EXCEPT !.stage = "sync", !.known = Nothing, !.todo = todo,
                                          !.orderly = orderly]
  <2>1. editors'[e] = editor
    BY <1>3 DEF Read, TypeInv
  <2>2. DOMAIN todo \subseteq Present(Known(e))
    BY DEF Restrict, Synchronized
  <2> HIDE DEF todo, orderly
  <2>3. editor.known = Nothing /\ editor.todo = todo /\ editor.links = editors[e].links
    BY <1>0 DEF EditorType
  <2> HIDE DEF editor
  <2>4. EditorStays(rows, editor)
    BY <1>0, <2>2, <2>3, KnownIs, NothingIsPresent DEF EditorStays
  <2> QED BY <1>0, <2>1, <2>4 DEF Keeps
<1>4. CASE RequestFails(e)
  <2>1. CASE editors[e].stage = "import"
    <3>1. editors'[e] = Closed
      BY <1>4, <2>1 DEF RequestFails, TypeInv
    <3> QED BY <1>0, <3>1, ClosedStays DEF Keeps
  <2>2. CASE editors[e].stage # "import"
    <3>1. editors'[e] = GiveUp(e) /\ editors[e].stage \in {"list", "read", "sync"}
      BY <1>4, <2>2 DEF RequestFails, TypeInv
    <3>2. EditorStays(rows, Editing(editors[e].rows, editors[e].new))
      BY <3>1, GiveUpTyped, EditingStays
    <3>3. GiveUp(e) = Editing(editors[e].rows, editors[e].new)
      BY <3>1, GiveUpTyped
    <3> QED BY <1>0, <3>1, <3>2, <3>3 DEF Keeps
  <2> QED BY <2>1, <2>2
<1> QED BY <1>1, <1>2, <1>3, <1>4

\* Synchronizing a field links a row that is there.
LEMMA SyncKeeps ==
    ASSUME TypeInv, RowsStay, NEW e \in Editors,
           Mismatch(e) \/ Create(e) \/ Rename(e) \/ Keep(e) \/ Refused(e) \/ AnswerLost(e)
    PROVE  Keeps(e)
<1>0. /\ Synchronizing(e) /\ Current(e) \in RowType /\ CurrentKey(e) \in DOMAIN editors[e].todo
      /\ editors[e].listing \in Listings
      /\ CurrentTarget(e) # NoLink => CurrentTarget(e) \in Ids
      /\ GiveUp(e) = Editing(editors[e].rows, editors[e].new)
      /\ editors[e].rows \in Tables /\ editors[e].new \in RowType \cup {None}
  <2>1. Synchronizing(e)
    BY DEF Mismatch, Create, Rename, Keep, Refused, AnswerLost, Creates, Renames
  <2> QED BY <2>1, CurrentIs, GiveUpTyped DEF Synchronizing
<1>1. EditorStays(rows, editors[e])
  BY DEF RowsStay
<1>2. rows' = rows
  BY DEF Mismatch, Create, Rename, Keep, Refused, AnswerLost
<1>3. ASSUME NEW id \in Ids, NEW listing \in Listings, editors'[e] = Link(e, id, listing)
      PROVE  Keeps(e)
  <2> DEFINE editor == Link(e, id, listing)
  <2>1. /\ editor.known = editors[e].known
        /\ editor.todo = Restrict(editors[e].todo, DOMAIN editors[e].todo \ {CurrentKey(e)})
        /\ \/ editor.links = editors[e].links
           \/ editor.links = Put(editors[e].links, CurrentKey(e), id)
    BY ZenonT(30), <1>0, LinkIs
  <2> HIDE DEF editor
  <2>2. DOMAIN editor.todo \subseteq DOMAIN editors[e].todo
    BY <2>1 DEF Restrict
  <2>3. DOMAIN editor.links \subseteq Present(rows)
    BY <1>0, <1>1, <2>1 DEF Put, EditorStays
  <2>4. EditorStays(rows', editor)
    BY <1>1, <1>2, <2>1, <2>2, <2>3 DEF EditorStays
  <2> QED BY <1>2, <1>3, <2>4 DEF Keeps, editor
<1>4. CASE Mismatch(e) \/ Refused(e) \/ AnswerLost(e)
  <2>1. editors'[e] = GiveUp(e)
    BY <1>4 DEF Mismatch, Refused, AnswerLost, Continue, Disturbed, TypeInv
  <2> QED BY <1>0, <1>2, <2>1, EditingStays DEF Keeps
<1>5. CASE Rename(e) \/ Keep(e)
  <2>1. CurrentTarget(e) \in Ids
    BY <1>0, <1>5 DEF Rename, Keep, Renames
  <2>2. editors'[e] = Link(e, CurrentTarget(e), editors[e].listing)
    <3> DEFINE editor == Link(e, CurrentTarget(e), editors[e].listing)
    <3>1. Continue(e, editor, remote' # remote) \/ Continue(e, editor, FALSE)
      BY <1>5 DEF Rename, Keep
    <3> HIDE DEF editor
    <3>2. editors'[e] = editor
      BY <3>1 DEF Continue, Disturbed, TypeInv
    <3> QED BY <3>2 DEF editor
  <2> QED BY <1>0, <1>3, <2>1, <2>2
<1>6. CASE Create(e)
  <2> DEFINE id == Lowest(Unused)
             listing == [editors[e].listing EXCEPT ![id] = remote'[id]]
  <2>1. /\ id \in Ids
        /\ remote' = [remote EXCEPT ![id] = CustomField(Current(e).label, Current(e).type)]
        /\ Continue(e, Link(e, id, listing), TRUE)
    BY <1>6, UnusedIs DEF Create, Requested
  <2>2. remote'[id] = CustomField(Current(e).label, Current(e).type)
    BY <2>1 DEF TypeInv, Listings
  <2>3. remote'[id] \in FieldType
    BY <1>0, <2>2 DEF CustomField, FieldType, RowType
  <2>4. listing \in Listings
    BY <1>0, <2>1, <2>3 DEF Listings
  <2> HIDE DEF id, listing
  <2>5. editors'[e] = Link(e, id, listing)
    BY <2>1 DEF Continue, Disturbed, TypeInv
  <2> QED BY <1>3, <2>1, <2>4, <2>5
<1> QED BY <1>4, <1>5, <1>6

\* The links of a finished synchronization are committed.
LEMMA CommitKeeps ==
    ASSUME TypeInv, RowsStay, NEW e \in Editors, Commit(e)
    PROVE  Keeps(e)
<1>1. rows' = Linked(e) /\ editors'[e] = Editing(rows', None)
  BY DEF Commit, Continue, Disturbed, TypeInv
<1>2. rows' \in Tables
  BY CommitTyped DEF TypeRest
<1>3. ASSUME NEW key \in Present(rows) PROVE rows'[key] # None
  <2>1. key \in Keys /\ rows[key] \in RowType
    BY <1>3, PresentRows DEF TypeInv
  <2>2. CASE key \in DOMAIN editors[e].links
    <3>1. rows'[key] = [rows[key] EXCEPT !.link = editors[e].links[key]]
      BY <1>1, <2>1, <2>2 DEF Linked
    <3>2. editors[e].links[key] \in Ids
      BY <2>2 DEF TypeInv, EditorType, PartialLinks
    <3>3. rows'[key] \in RowType
      BY <2>1, <3>1, <3>2 DEF RowType
    <3> QED BY <3>3, Distinct
  <2>3. CASE key \notin DOMAIN editors[e].links
    BY <1>1, <2>1, <2>3, Distinct DEF Linked
  <2> QED BY <2>2, <2>3
<1>4. Present(rows) \subseteq Present(rows')
  BY <1>2, <1>3, PresentRows DEF TypeInv
<1> QED BY <1>1, <1>2, <1>4, EditingStays DEF Keeps

\* Each step of an editor keeps the rows.
LEMMA EditorStepKeeps ==
    ASSUME TypeInv, RowsStay, NEW e \in Editors, EditorStep(e)
    PROVE  Keeps(e)
<1>1. CASE Import(e)
  BY <1>1, ImportKeeps
<1>2. CASE /\ editors[e].stage = "editing"
           /\ \E draft \in Drafts(editors[e].rows, editors[e].new), expired \in BOOLEAN :
                 Save(e, draft[1], draft[2], expired)
  BY <1>2, SaveKeeps
<1>3. CASE Open(e) \/ List(e) \/ Read(e) \/ RequestFails(e)
  BY <1>3, ReadKeeps
<1>4. CASE Mismatch(e) \/ Create(e) \/ Rename(e) \/ Keep(e) \/ Refused(e) \/ AnswerLost(e)
  BY <1>4, SyncKeeps
<1>5. CASE Commit(e)
  BY <1>5, CommitKeeps
<1> QED BY <1>1, <1>2, <1>3, <1>4, <1>5 DEF EditorStep

\* Types are kept, and rows stay.
LEMMA TypeStep ==
    ASSUME TypeInv, RowsStay, [Next]_vars
    PROVE  TypeInv' /\ RowsStay'
<1>1. ASSUME NEW e \in Editors, EditorStep(e) PROVE TypeInv' /\ RowsStay'
  <2>1. TypeInv' /\ Keeps(e) /\ \A other \in Editors \ {e} : Bystander(other)
    BY <1>1, EditorStepTyped, EditorStepKeeps
  <2>2. ASSUME NEW other \in Editors \ {e} PROVE EditorStays(rows', editors'[other])
    <3>1. editors[other] \in EditorType /\ Bystander(other)
      BY <2>1 DEF TypeInv
    <3>2. EditorStays(rows', editors[other])
      BY <2>1 DEF Keeps, RowsStay, EditorStays
    <3>3. /\ editors'[other].known = editors[other].known
          /\ editors'[other].todo = editors[other].todo
          /\ editors'[other].links = editors[other].links
      BY <3>1 DEF Bystander, EditorType
    <3> QED BY <3>2, <3>3 DEF EditorStays
  <2> QED BY <2>1, <2>2 DEF Keeps, RowsStay
<1>2. CASE UserCreates \/ UserRenames \/ UserDeletes
  <2>1. /\ TypeInv' /\ rows' = rows
        /\ \A e \in Editors : editors'[e] = [editors[e] EXCEPT !.alone = FALSE]
    BY <1>2, UsersTyped
  <2>2. ASSUME NEW e \in Editors PROVE EditorStays(rows', editors'[e])
    <3>1. editors[e] \in EditorType
      BY DEF TypeInv
    <3>2. EditorStays(rows', editors[e])
      BY <2>1 DEF RowsStay
    <3>3. /\ editors'[e].known = editors[e].known /\ editors'[e].todo = editors[e].todo
          /\ editors'[e].links = editors[e].links
      BY <2>1, <3>1 DEF EditorType
    <3> QED BY <3>2, <3>3 DEF EditorStays
  <2> QED BY <2>1, <2>2 DEF RowsStay
<1>3. CASE UNCHANGED vars
  BY <1>3 DEF vars, TypeInv, RowsStay
<1> QED BY <1>1, <1>2, <1>3 DEF Next

\* No request at first.
LEMMA InitStays == Init => RowsStay
BY ClosedStays DEF Init, RowsStay

\* Rows, custom fields, and what every open editor holds of them, stay in their
\* domains: data types of Paperless are translated before they are stored.
THEOREM FieldsTypeCorrect == Spec => []TypeOK
<1>1. Init => TypeInv /\ RowsStay
  BY InitTyped, InitStays
<1>2. TypeInv /\ RowsStay /\ [Next]_vars => TypeInv' /\ RowsStay'
  BY TypeStep
<1>3. TypeInv => TypeOK
  <2> SUFFICES ASSUME TypeInv PROVE TypeOK
    OBVIOUS
  <2>1. ASSUME NEW e \in Editors
        PROVE  /\ editors[e].stage \in {"closed", "import"} \/ editors[e].rows \in Tables
               /\ editors[e].stage \in {"closed", "import", "editing", "list", "read", "sync"}
               /\ editors[e].new \in RowType \cup {None}
               /\ \A key \in DOMAIN editors[e].links : editors[e].links[key] \in Ids
    BY DEF TypeInv, EditorType, Equipped, Stages, PartialLinks
  <2> QED BY <2>1, PresentTodo DEF TypeInv, TypeOK, Listings
<1> QED BY <1>1, <1>2, <1>3, PTL DEF Spec

-----------------------------------------------------------------------------
(* Loading.                                                                *)

\* Keys are bounded numbers, and no key is none of them.
LEMMA KeysAreNumbers ==
    /\ Keys \subseteq Nat /\ Keys \subseteq 0..Suffixed(MaxId) /\ Suffixed(MaxId) \in Nat
    /\ NoKey \notin Keys
BY FieldAssumption DEF Keys, Suffixed, Standard, NoKey

\* The row a custom field belongs to is linked to it, or bears its name while
\* none is linked.
LEMMA OwnerIs ==
    ASSUME NEW table \in Tables, NEW listing, NEW id
    PROVE  LET owner == Owner(table, listing, id)
               named(key) == Same(table[key].label, listing[id].label)
           IN \/ owner \in Present(table) /\ table[owner].link = id
              \/ /\ \A key \in Present(table) : table[key].link # id
                 /\ \/ owner \in Present(table) /\ named(owner)
                    \/ owner = NoKey /\ \A key \in Present(table) : ~named(key)
<1> DEFINE linked == {key \in Present(table) : table[key].link = id}
           others == {key \in Present(table) : Same(table[key].label, listing[id].label)}
<1>1. Present(table) \in SUBSET (0..Suffixed(MaxId)) /\ Suffixed(MaxId) \in Nat
  BY PresentRows, KeysAreNumbers
<1>2. CASE linked # {}
  <2>1. Highest(linked) \in linked
    BY <1>1, <1>2, HighestIs
  <2> QED BY <1>2, <2>1 DEF Owner
<1>3. CASE linked = {} /\ others # {}
  <2>1. Highest(others) \in others
    BY <1>1, <1>3, HighestIs
  <2> QED BY <1>3, <2>1 DEF Owner
<1>4. CASE linked = {} /\ others = {}
  BY <1>4 DEF Owner
<1> QED BY <1>2, <1>3, <1>4

\* Added custom fields get keys of their own that no row has.
LEMMA AddedKeys ==
    ASSUME NEW table \in Tables, NEW listing \in Listings, ~KeysTaken(table, listing),
           NEW id \in Added(table, listing)
    PROVE  /\ Lowest(ImportKeys(table, id)) \in Keys \ Present(table)
           /\ \A other \in Added(table, listing) :
                 Lowest(ImportKeys(table, other)) = Lowest(ImportKeys(table, id)) => other = id
<1>1. ASSUME NEW i \in Added(table, listing)
      PROVE  /\ i \in Ids
             /\ Lowest(ImportKeys(table, i)) \in {Imported(i), Suffixed(i)} \ Present(table)
  <2>1. i \in Ids
    BY PresentFields DEF Added, Owned
  <2>2. /\ ImportKeys(table, i) # {}
        /\ ImportKeys(table, i) = {Imported(i), Suffixed(i)} \ Present(table)
    BY DEF KeysTaken, ImportKeys
  <2>3. {Imported(i), Suffixed(i)} \in SUBSET Nat
    BY <2>1, FieldAssumption, IdsAreNumbers DEF Imported, Suffixed, Standard
  <2>4. ImportKeys(table, i) \in SUBSET Nat
    BY <2>2, <2>3
  <2> QED BY <2>1, <2>2, <2>4, LowestIs
<1>2. ASSUME NEW i \in Ids
      PROVE  Imported(i) \in Keys /\ Suffixed(i) \in Keys
  BY FieldAssumption DEF Imported, Suffixed, Standard, Keys, Ids
<1>3. ASSUME NEW i \in Ids, NEW j \in Ids
      PROVE  /\ Imported(i) = Imported(j) => i = j
             /\ Suffixed(i) = Suffixed(j) => i = j
             /\ Imported(i) # Suffixed(j)
  BY FieldAssumption DEF Imported, Suffixed, Standard, Ids
<1>4. Lowest(ImportKeys(table, id)) \in Keys \ Present(table)
  BY <1>1, <1>2
<1>5. ASSUME NEW other \in Added(table, listing),
             Lowest(ImportKeys(table, other)) = Lowest(ImportKeys(table, id))
      PROVE  other = id
  <2>1. /\ Lowest(ImportKeys(table, id)) \in {Imported(id), Suffixed(id)}
        /\ Lowest(ImportKeys(table, id)) \in {Imported(other), Suffixed(other)}
        /\ id \in Ids /\ other \in Ids
    BY <1>1, <1>5
  <2> QED BY <1>3, <2>1
<1> QED BY <1>4, <1>5

\* A row after loading: added, newly linked, or as it was.  A new link leads to
\* a custom field that no row was linked to.
AddedAt(table, listing, key, id) ==
    /\ id \in Added(table, listing) /\ key = Lowest(ImportKeys(table, id))
    /\ key \notin Present(table)
    /\ ImportedRows(table, listing)[key] = ImportedRow(listing, id)
LinkedAt(table, listing, key, id) ==
    /\ key \in Present(table) /\ table[key].link = NoLink
    /\ id \in Present(listing) /\ Owner(table, listing, id) = key
    /\ id = Lowest(Owned(table, listing, key))
    /\ ImportedRows(table, listing)[key] = [table[key] EXCEPT !.link = id]

\* Loading adds a row at a key, links the row there, or leaves it alone.
LEMMA LoadedRow ==
    ASSUME NEW table \in Tables, NEW listing \in Listings, ~KeysTaken(table, listing),
           NEW key \in Keys
    PROVE  \/ \E id \in Present(listing) : AddedAt(table, listing, key, id)
           \/ \E id \in Present(listing) : LinkedAt(table, listing, key, id)
           \/ /\ ImportedRows(table, listing)[key] = table[key]
              /\ key \in Present(table) /\ table[key].link = NoLink =>
                    Owned(table, listing, key) = {}
<1>1. CASE \E id \in Added(table, listing) : key = Lowest(ImportKeys(table, id))
  <2> DEFINE id == CHOOSE i \in Added(table, listing) : key = Lowest(ImportKeys(table, i))
  <2>1. id \in Added(table, listing) /\ key = Lowest(ImportKeys(table, id))
    BY <1>1
  <2>2. ImportedRows(table, listing)[key] = ImportedRow(listing, id)
    BY <1>1 DEF ImportedRows
  <2> HIDE DEF id
  <2>3. key \notin Present(table) /\ id \in Present(listing)
    BY <2>1, AddedKeys DEF Added, Owned
  <2> QED BY <2>1, <2>2, <2>3 DEF AddedAt
<1>2. CASE /\ ~\E id \in Added(table, listing) : key = Lowest(ImportKeys(table, id))
           /\ table[key] # None /\ table[key].link = NoLink /\ Owned(table, listing, key) # {}
  <2> DEFINE id == Lowest(Owned(table, listing, key))
  <2>1. ImportedRows(table, listing)[key] = [table[key] EXCEPT !.link = id]
    BY <1>2 DEF ImportedRows
  <2>2. Owned(table, listing, key) \in SUBSET Nat
    BY PresentFields, IdsAreNumbers DEF Owned
  <2>3. id \in Owned(table, listing, key)
    BY <1>2, <2>2, LowestIs
  <2>4. id \in Present(listing) /\ Owner(table, listing, id) = key
    BY <2>3 DEF Owned
  <2>5. key \in Present(table)
    BY <1>2, PresentRows
  <2>6. LinkedAt(table, listing, key, id)
    BY <1>2, <2>1, <2>4, <2>5 DEF LinkedAt
  <2> QED BY <2>4, <2>6
<1>3. CASE /\ ~\E id \in Added(table, listing) : key = Lowest(ImportKeys(table, id))
           /\ ~(table[key] # None /\ table[key].link = NoLink /\ Owned(table, listing, key) # {})
  <2>1. ImportedRows(table, listing)[key] = table[key]
    BY <1>3 DEF ImportedRows
  <2> QED BY <1>3, <2>1, PresentRows
<1> QED BY <1>1, <1>2, <1>3

\* A new link is new in the whole table.
LEMMA NewLinkIsNew ==
    ASSUME NEW table \in Tables, NEW listing \in Listings, NEW key, NEW id \in Present(listing),
           AddedAt(table, listing, key, id) \/ LinkedAt(table, listing, key, id)
    PROVE  /\ \A other \in Present(table) : table[other].link # id
           /\ AddedAt(table, listing, key, id) => Owner(table, listing, id) = NoKey
           /\ LinkedAt(table, listing, key, id) => Owner(table, listing, id) = key
           /\ ImportedRows(table, listing)[key].link = id
<1>1. id \in Ids /\ id # NoLink
  BY PresentFields, IdsAreNumbers
<1>2. CASE AddedAt(table, listing, key, id)
  <2>1. Owner(table, listing, id) = NoKey
    BY <1>2 DEF AddedAt, Added, Owned
  <2>2. NoKey \notin Present(table)
    BY PresentRows, KeysAreNumbers
  <2>3. \A other \in Present(table) : table[other].link # id
    BY <2>1, <2>2, OwnerIs
  <2>4. ImportedRows(table, listing)[key].link = id
    BY <1>2 DEF AddedAt, ImportedRow, Row
  <2>5. ~LinkedAt(table, listing, key, id)
    BY <1>2 DEF AddedAt, LinkedAt
  <2> QED BY <2>1, <2>3, <2>4, <2>5
<1>3. CASE LinkedAt(table, listing, key, id)
  <2>1. /\ key \in Present(table) /\ table[key].link = NoLink /\ Owner(table, listing, id) = key
        /\ ImportedRows(table, listing)[key] = [table[key] EXCEPT !.link = id]
    BY <1>3 DEF LinkedAt
  <2>2. \A other \in Present(table) : table[other].link # id
    BY <1>1, <2>1, OwnerIs
  <2>3. table[key] \in RowType
    BY <2>1, PresentRows
  <2>4. ImportedRows(table, listing)[key].link = id
    BY <2>1, <2>3 DEF RowType
  <2>5. ~AddedAt(table, listing, key, id)
    BY <1>3 DEF AddedAt, LinkedAt
  <2> QED BY <2>1, <2>2, <2>4, <2>5
<1> QED BY <1>2, <1>3

\* Loading links a custom field to a row only when no other row has its link.
LEMMA LoadedLinksDiffer ==
    ASSUME NEW table \in Tables, NEW listing \in Listings, ~KeysTaken(table, listing),
           NEW key \in Keys, ImportedRows(table, listing)[key] # table[key],
           NEW other \in Keys, other # key, ImportedRows(table, listing)[other] # None
    PROVE  ImportedRows(table, listing)[other].link # ImportedRows(table, listing)[key].link
<1>1. PICK id \in Present(listing) :
        AddedAt(table, listing, key, id) \/ LinkedAt(table, listing, key, id)
  BY LoadedRow
<1>2. /\ \A row \in Present(table) : table[row].link # id
      /\ AddedAt(table, listing, key, id) => Owner(table, listing, id) = NoKey
      /\ LinkedAt(table, listing, key, id) => Owner(table, listing, id) = key
      /\ ImportedRows(table, listing)[key].link = id
  BY <1>1, NewLinkIsNew
<1>3. CASE ImportedRows(table, listing)[other] = table[other]
  BY <1>2, <1>3, PresentRows
<1>4. ASSUME NEW i \in Present(listing),
             AddedAt(table, listing, other, i) \/ LinkedAt(table, listing, other, i)
      PROVE  ImportedRows(table, listing)[other].link # id
  <2>1. /\ AddedAt(table, listing, other, i) => Owner(table, listing, i) = NoKey
        /\ LinkedAt(table, listing, other, i) => Owner(table, listing, i) = other
        /\ ImportedRows(table, listing)[other].link = i
    BY <1>4, NewLinkIsNew
  <2>2. SUFFICES ASSUME i = id PROVE FALSE
    BY <2>1
  <2>3. CASE AddedAt(table, listing, other, i) /\ AddedAt(table, listing, key, id)
    BY <2>2, <2>3 DEF AddedAt
  <2>4. CASE ~(AddedAt(table, listing, other, i) /\ AddedAt(table, listing, key, id))
    BY <1>1, <1>2, <1>4, <2>1, <2>2, <2>4, KeysAreNumbers
  <2> QED BY <2>3, <2>4
<1> QED BY <1>2, <1>3, <1>4, LoadedRow

\* Loading keeps rows but for missing links.
LEMMA LoadedKeeps ==
    ASSUME NEW table \in Tables, NEW listing \in Listings, ~KeysTaken(table, listing),
           NEW key \in Present(table), NEW row, row = ImportedRows(table, listing)[key]
    PROVE  /\ row = [table[key] EXCEPT !.link = row.link] /\ row # None
           /\ table[key].link # NoLink => row.link = table[key].link
           /\ row.label = table[key].label
<1>1. key \in Keys /\ table[key] \in RowType
  BY PresentRows
<1>2. table[key] = [table[key] EXCEPT !.link = table[key].link]
  BY <1>1 DEF RowType
<1>3. \A link : /\ [table[key] EXCEPT !.link = link].link = link
                /\ [table[key] EXCEPT !.link = link].label = table[key].label
                /\ [table[key] EXCEPT !.link = link] # None
  BY <1>1 DEF RowType, None
<1>4. \A id : ~AddedAt(table, listing, key, id)
  BY DEF AddedAt
<1>5. CASE \E id \in Present(listing) : LinkedAt(table, listing, key, id)
  BY <1>3, <1>5 DEF LinkedAt
<1>6. CASE ImportedRows(table, listing)[key] = table[key]
  BY <1>1, <1>2, <1>6, Distinct
<1> QED BY <1>1, <1>4, <1>5, <1>6, LoadedRow

\* After loading each custom field of the list belongs to a row with a link.
LEMMA LoadedOwner ==
    ASSUME NEW table \in Tables, NEW listing \in Listings, ~KeysTaken(table, listing),
           ImportedRows(table, listing) \in Tables, NEW id \in Present(listing)
    PROVE  LET later == ImportedRows(table, listing)
           IN /\ Owner(later, listing, id) \in Present(later)
              /\ later[Owner(later, listing, id)].link # NoLink
<1> DEFINE later == ImportedRows(table, listing)
           named(row) == Same(row.label, listing[id].label)
<1>0. later \in Tables
  OBVIOUS
<1> SUFFICES /\ Owner(later, listing, id) \in Present(later)
             /\ later[Owner(later, listing, id)].link # NoLink
  OBVIOUS
<1>1. \A key \in Present(table) :
         /\ key \in Present(later) /\ later[key].label = table[key].label
         /\ table[key].link # NoLink => later[key].link = table[key].link
  <2>1. ASSUME NEW key \in Present(table)
        PROVE  /\ key \in Present(later) /\ later[key].label = table[key].label
               /\ table[key].link # NoLink => later[key].link = table[key].link
    <3>1. /\ later[key].label = table[key].label /\ later[key] # None
          /\ table[key].link # NoLink => later[key].link = table[key].link
      BY LoadedKeeps
    <3>2. key \in Keys
      BY PresentRows
    <3> QED BY <1>0, <3>1, <3>2, PresentRows
  <2> QED BY <2>1
<1>2. \A key \in Present(later) \ Present(table) :
         \E i \in Added(table, listing) :
            /\ key = Lowest(ImportKeys(table, i)) /\ later[key] = ImportedRow(listing, i)
            /\ later[key].link # NoLink /\ Owner(table, listing, i) = NoKey
  <2>1. ASSUME NEW key \in Present(later) \ Present(table)
        PROVE  \E i \in Present(listing) : AddedAt(table, listing, key, i)
    <3>1. key \in Keys /\ later[key] # None /\ table[key] = None
      BY <1>0, PresentRows
    <3>2. \A i : ~LinkedAt(table, listing, key, i)
      BY <2>1 DEF LinkedAt
    <3> QED BY <3>1, <3>2, LoadedRow
  <2>2. ASSUME NEW key, NEW i \in Present(listing), AddedAt(table, listing, key, i)
        PROVE  later[key].link # NoLink /\ Owner(table, listing, i) = NoKey
    BY <2>2, NewLinkIsNew, PresentFields, IdsAreNumbers
  <2> QED BY <2>1, <2>2 DEF AddedAt
<1>3. /\ id \in Ids /\ id # NoLink /\ NoKey \notin Present(later) /\ NoKey \notin Present(table)
  BY <1>0, PresentFields, IdsAreNumbers, PresentRows, KeysAreNumbers
<1> HIDE DEF later
<1>4. CASE \E key \in Present(later) : later[key].link = id
  BY <1>0, <1>3, <1>4, OwnerIs
<1>5. CASE \A key \in Present(later) : later[key].link # id
  <2>1. \A key \in Present(table) : table[key].link # id
    BY <1>1, <1>3, <1>5
  <2>2. CASE \E key \in Present(table) : named(table[key])
    <3> DEFINE key == Owner(table, listing, id)
    <3>1. key \in Present(table) /\ named(table[key])
      BY <2>1, <2>2, OwnerIs
    <3>2. \A other \in Present(later) : named(later[other]) => other \in Present(table)
      <4>1. ASSUME NEW other \in Present(later) \ Present(table), named(later[other]) PROVE FALSE
        <5>1. PICK i \in Added(table, listing) :
                later[other] = ImportedRow(listing, i) /\ Owner(table, listing, i) = NoKey
          BY <1>2
        <5>2. Same(listing[i].label, listing[id].label)
          BY <4>1, <5>1 DEF ImportedRow, Row
        <5>3. Same(table[key].label, listing[i].label)
          BY <3>1, <5>2 DEF Same
        <5>4. \A k \in Present(table) : ~Same(table[k].label, listing[i].label)
          BY <1>3, <5>1, OwnerIs
        <5> QED BY <3>1, <5>3, <5>4
      <4> QED BY <4>1
    <3>3. {k \in Present(later) : named(later[k])} = {k \in Present(table) : named(table[k])}
      BY <1>1, <3>2
    <3>4. {k \in Present(later) : later[k].link = id} = {}
      BY <1>5
    <3>5. {k \in Present(table) : table[k].link = id} = {}
      BY <2>1
    <3>6. Owner(later, listing, id) = key
      BY <3>3, <3>4, <3>5 DEF Owner
    <3>7. later[key].link # NoLink
      <4>1. CASE table[key].link # NoLink
        BY <1>1, <3>1, <4>1
      <4>2. CASE table[key].link = NoLink
        <5>1. id \in Owned(table, listing, key)
          BY DEF Owned
        <5>2. \A i : ~AddedAt(table, listing, key, i)
          BY <3>1 DEF AddedAt
        <5>3. key \in Keys
          BY <3>1, PresentRows
        <5> HIDE DEF key
        <5>4. PICK i \in Present(listing) : LinkedAt(table, listing, key, i)
          BY <3>1, <4>2, <5>1, <5>2, <5>3, LoadedRow
        <5>5. later[key].link = i
          BY <5>4, NewLinkIsNew DEF later
        <5> QED BY <5>5, PresentFields, IdsAreNumbers
      <4> QED BY <4>1, <4>2
    <3> QED BY <1>1, <3>1, <3>6, <3>7
  <2>3. CASE \A key \in Present(table) : ~named(table[key])
    <3>1. Owner(table, listing, id) = NoKey
      BY <2>1, <2>3, OwnerIs
    <3> DEFINE alike == {other \in Owned(table, listing, NoKey) :
                            Same(listing[other].label, listing[id].label)}
    <3>2. id \in alike /\ alike \in SUBSET Nat
      BY <3>1, PresentFields, IdsAreNumbers DEF Owned, Same
    <3>3. PICK first \in alike : \A other \in alike : first <= other
      BY <3>2, LowestIs
    <3>4. first \in Added(table, listing)
      BY <3>3 DEF Added, Same
    <3> DEFINE new == Lowest(ImportKeys(table, first))
    <3>5. new \in Keys \ Present(table)
      BY <3>4, AddedKeys
    <3>6. later[new] = ImportedRow(listing, first)
      <4>1. \E i \in Added(table, listing) : new = Lowest(ImportKeys(table, i))
        BY <3>4
      <4>2. \A i \in Added(table, listing) : new = Lowest(ImportKeys(table, i)) => i = first
        BY <3>4, AddedKeys
      <4>3. later[new] = ImportedRow(listing,
                CHOOSE i \in Added(table, listing) : new = Lowest(ImportKeys(table, i)))
        BY <3>5, <4>1 DEF later, ImportedRows
      <4> QED BY <4>1, <4>2, <4>3
    <3>7. new \in Present(later) /\ named(later[new])
      <4>1. ImportedRow(listing, first) # None
        BY DEF ImportedRow, Row, None
      <4>2. named(ImportedRow(listing, first))
        BY <3>3 DEF ImportedRow, Row
      <4> QED BY <1>0, <3>5, <3>6, <4>1, <4>2, PresentRows
    <3>8. Owner(later, listing, id) \in Present(later) /\ named(later[Owner(later, listing, id)])
      BY <1>0, <1>5, <3>7, OwnerIs
    <3>9. Owner(later, listing, id) \notin Present(table)
      BY <1>1, <2>3, <3>8
    <3> QED BY <1>2, <3>8, <3>9
  <2> QED BY <2>2, <2>3
<1> QED BY <1>4, <1>5

\* Loading what has been loaded changes nothing.
LEMMA LoadedSettles ==
    ASSUME NEW table \in Tables, NEW listing \in Listings, ~KeysTaken(table, listing),
           ImportedRows(table, listing) \in Tables
    PROVE  ImportedRows(ImportedRows(table, listing), listing) = ImportedRows(table, listing)
<1> DEFINE later == ImportedRows(table, listing)
<1>1. /\ later \in Tables /\ NoKey \notin Present(later)
      /\ \A id \in Present(listing) : /\ Owner(later, listing, id) \in Present(later)
                                      /\ later[Owner(later, listing, id)].link # NoLink
  BY LoadedOwner, PresentRows, KeysAreNumbers
<1> SUFFICES ImportedRows(later, listing) = later
  OBVIOUS
<1> HIDE DEF later
<1>2. Added(later, listing) = {}
  BY <1>1 DEF Added, Owned
<1>3. \A key : later[key].link = NoLink => Owned(later, listing, key) = {}
  BY <1>1 DEF Owned
<1>4. ImportedRows(later, listing) = [key \in Keys |-> later[key]]
  BY <1>2, <1>3 DEF ImportedRows
<1> QED BY <1>1, <1>4 DEF Tables

\* What the action of loading does.
LEMMA ImportIs ==
    ASSUME TypeInv, NEW e \in Editors, Import(e)
    PROVE  /\ editors[e].listing \in Listings /\ rows' \in Tables
           /\ \/ rows' = rows /\ editors'[e] = Closed
              \/ /\ ~KeysTaken(rows, editors[e].listing)
                 /\ rows' = ImportedRows(rows, editors[e].listing)
                 /\ editors'[e] = Editing(rows', None)
<1> DEFINE refused == KeysTaken(rows, editors[e].listing)
           editor == IF refused THEN Closed ELSE Editing(rows', None)
<1>1. Equipped(editors[e])
  BY DEF TypeInv
<1>2. /\ Continue(e, editor, rows' # rows)
      /\ rows' = IF refused THEN rows ELSE ImportedRows(rows, editors[e].listing)
  BY DEF Import
<1>3. editors'[e] = editor
  <2> HIDE DEF editor
  <2> QED BY <1>2 DEF Continue, Disturbed, TypeInv
<1>4. editors[e].listing \in Listings
  BY <1>1 DEF Import, Equipped
<1>5. rows' \in Tables
  BY <1>2, <1>4, ImportTyped DEF TypeInv
<1> QED BY <1>2, <1>3, <1>4, <1>5

\* import_paperless_fields: for any rows and custom fields loading links a custom
\* field to one row only, and to none when a row is linked to it already.
THEOREM ImportTakesNoLinkAlways == Spec => ImportTakesNoLink
<1> DEFINE step == \A e \in Editors : Import(e) =>
          \A key \in {changed \in Keys : rows'[changed] # rows[changed]} :
             \A other \in Present(rows') \ {key} : rows'[other].link # rows'[key].link
<1>1. TypeInv /\ [Next]_vars => [step]_vars
  <2> SUFFICES ASSUME TypeInv, NEW e \in Editors, Import(e),
                      NEW key \in Keys, rows'[key] # rows[key],
                      NEW other \in Present(rows') \ {key}
               PROVE  rows'[other].link # rows'[key].link
    OBVIOUS
  <2>1. ~KeysTaken(rows, editors[e].listing) /\ rows' = ImportedRows(rows, editors[e].listing)
    BY ImportIs
  <2>2. editors[e].listing \in Listings /\ rows \in Tables
    BY ImportIs DEF TypeInv
  <2>3. other \in Keys /\ rows'[other] # None
    BY ImportIs, PresentRows
  <2> QED BY <2>1, <2>2, <2>3, LoadedLinksDiffer
<1>2. Spec => []TypeInv
  <2>1. Init => TypeInv /\ RowsStay
    BY InitTyped, InitStays
  <2>2. TypeInv /\ RowsStay /\ [Next]_vars => TypeInv' /\ RowsStay'
    BY TypeStep
  <2> QED BY <2>1, <2>2, PTL DEF Spec
<1> QED BY <1>1, <1>2, PTL DEF Spec, ImportTakesNoLink

\* Loading keeps every row, sets missing links only, and leaves nothing to do
\* for a second loading, however names, links and keys have got mixed up.
THEOREM LoadingSettlesAlways == Spec => LoadingSettles
<1> DEFINE step == \A e \in Editors : Import(e) =>
          /\ \A key \in Present(rows) :
                /\ rows'[key] = [rows[key] EXCEPT !.link = rows'[key].link]
                /\ rows[key].link # NoLink => rows'[key].link = rows[key].link
          /\ \A listing \in {editors[e].listing} :
                editors'[e].stage = "editing" => Settled(listing)'
<1>1. TypeInv /\ [Next]_vars => [step]_vars
  <2> SUFFICES ASSUME TypeInv, NEW e \in Editors, Import(e)
               PROVE  /\ \A key \in Present(rows) :
                            /\ rows'[key] = [rows[key] EXCEPT !.link = rows'[key].link]
                            /\ rows[key].link # NoLink => rows'[key].link = rows[key].link
                      /\ \A listing \in {editors[e].listing} :
                            editors'[e].stage = "editing" => Settled(listing)'
    OBVIOUS
  <2>1. editors[e].listing \in Listings /\ rows \in Tables /\ rows' \in Tables
    BY ImportIs DEF TypeInv
  <2>2. CASE rows' = rows /\ editors'[e] = Closed
    <3>1. \A key \in Present(rows) : rows[key] = [rows[key] EXCEPT !.link = rows[key].link]
      BY <2>1, PresentRows DEF RowType
    <3>2. editors'[e].stage # "editing"
      BY <2>2 DEF Closed
    <3> QED BY <2>2, <3>1, <3>2
  <2>3. CASE /\ ~KeysTaken(rows, editors[e].listing)
             /\ rows' = ImportedRows(rows, editors[e].listing)
    <3>1. \A key \in Present(rows) :
             /\ rows'[key] = [rows[key] EXCEPT !.link = rows'[key].link]
             /\ rows[key].link # NoLink => rows'[key].link = rows[key].link
      BY <2>1, <2>3, LoadedKeeps
    <3>2. ImportedRows(rows', editors[e].listing) = rows'
      BY <2>1, <2>3, LoadedSettles
    <3> QED BY <3>1, <3>2 DEF Settled
  <2> QED BY <2>2, <2>3, ImportIs
<1>2. Spec => []TypeInv
  <2>1. Init => TypeInv /\ RowsStay
    BY InitTyped, InitStays
  <2>2. TypeInv /\ RowsStay /\ [Next]_vars => TypeInv' /\ RowsStay'
    BY TypeStep
  <2> QED BY <2>1, <2>2, PTL DEF Spec
<1> QED BY <1>1, <1>2, PTL DEF Spec, LoadingSettles

-----------------------------------------------------------------------------
(* Synchronizing undisturbed.                                              *)

\* The list of an undisturbed synchronization names the custom fields that exist,
\* and tells the truth about all but the targets of fields that are done.
LEMMA ListTellsTruth ==
    ASSUME TypeInv, NEW e \in Editors, OnCourse(e), editors[e].stage = "sync"
    PROVE  /\ \A id \in Ids : id \in Present(remote) <=> id \in Present(editors[e].listing)
           /\ \A id \in Ids : remote[id] = None => id \notin Present(editors[e].listing)
           /\ \A key \in Done(e) : remote[TargetOf(e, key)].label = rows[key].label
<1>1. editors[e].listing \in Listings /\ remote \in Listings /\ rows \in Tables
  BY DEF TypeInv, Equipped
<1>2. ASSUME NEW key \in Done(e)
      PROVE  /\ TargetOf(e, key) \in Present(editors[e].listing) /\ TargetOf(e, key) \in Ids
             /\ remote[TargetOf(e, key)] \in FieldType
             /\ remote[TargetOf(e, key)].label = rows[key].label
  <2>1. rows[key] \in RowType
    BY <1>1, PresentRows DEF Done, Synchronized
  <2>2. Settles(e, key)
    BY DEF OnCourse
  <2> QED BY <1>1, <2>1, <2>2, PresentFields DEF Settles, CustomField, RowType, FieldType
<1>3. \A id \in Ids : id \in Present(remote) <=> id \in Present(editors[e].listing)
  <2>1. ASSUME NEW id \in Ids PROVE id \in Present(remote) <=> id \in Present(editors[e].listing)
    <3>1. CASE editors[e].listing[id] = remote[id]
      BY <1>1, <3>1, PresentFields DEF Present
    <3>2. CASE \E key \in Done(e) : TargetOf(e, key) = id
      BY <1>1, <1>2, <3>2, PresentFields
    <3> QED BY <3>1, <3>2 DEF OnCourse
  <2> QED BY <2>1
<1> QED BY <1>1, <1>2, <1>3, PresentFields

\* The field whose turn it is.
LEMMA CurrentOnCourse ==
    ASSUME TypeInv, NEW e \in Editors, OnCourse(e), Synchronizing(e)
    PROVE  /\ CurrentKey(e) \in Synchronized(rows) /\ CurrentKey(e) \notin Done(e)
           /\ CurrentKey(e) \in Keys /\ CurrentKey(e) \in DOMAIN editors[e].todo
           /\ Current(e) = rows[CurrentKey(e)] /\ Current(e) \in RowType
           /\ CurrentTarget(e) = TargetOf(e, CurrentKey(e))
           /\ \A key \in Synchronized(rows) \ {CurrentKey(e)} :
                 ~Same(rows[key].label, Current(e).label)
           /\ CurrentTarget(e) # NoLink =>
                 /\ CurrentTarget(e) \in Present(editors[e].listing)
                 /\ remote[CurrentTarget(e)] = editors[e].listing[CurrentTarget(e)]
                 /\ \A key \in Done(e) : TargetOf(e, key) # CurrentTarget(e)
<1>1. /\ CurrentKey(e) \in DOMAIN editors[e].todo /\ CurrentKey(e) \in Keys
      /\ Current(e) \in RowType /\ editors[e].listing \in Listings
      /\ CurrentTarget(e) \in Present(editors[e].listing) \cup {NoLink}
      /\ CurrentTarget(e) # NoLink => CurrentTarget(e) \in Ids
  BY CurrentIs
<1>2. CurrentKey(e) \in Synchronized(rows) /\ CurrentKey(e) \notin Done(e)
  BY <1>1 DEF OnCourse, Done
<1>3. Current(e) = rows[CurrentKey(e)]
  BY <1>1 DEF OnCourse, Current
<1>4. CurrentTarget(e) = TargetOf(e, CurrentKey(e))
  BY <1>3 DEF CurrentTarget, TargetOf
<1>5. \A key \in Synchronized(rows) \ {CurrentKey(e)} : ~Same(rows[key].label, Current(e).label)
  BY <1>2, <1>3 DEF OnCourse, Orderly
<1>6. ASSUME CurrentTarget(e) # NoLink, NEW key \in Done(e)
      PROVE  TargetOf(e, key) # CurrentTarget(e)
  <2>1. key \in Synchronized(rows) /\ key # CurrentKey(e)
    BY <1>2 DEF Done
  <2>2. Orderly(rows, editors[e].listing)
    BY DEF OnCourse
  <2>3. Target(editors[e].listing, rows[CurrentKey(e)]) # NoLink
    BY <1>4, <1>6 DEF TargetOf
  <2> QED BY <1>1, <1>2, <1>4, <2>1, <2>2, <2>3, TargetsDiffer DEF TargetOf
<1>7. CurrentTarget(e) # NoLink => remote[CurrentTarget(e)] = editors[e].listing[CurrentTarget(e)]
  BY <1>1, <1>6 DEF OnCourse
<1> QED BY <1>1, <1>2, <1>3, <1>4, <1>5, <1>6, <1>7

\* Paperless has no other custom field of the name that is asked for.
LEMMA NamesAccepted ==
    ASSUME TypeInv, NEW e \in Editors, OnCourse(e), Synchronizing(e)
    PROVE  /\ Creates(e) => NameFree(Current(e).label, NoLink)
           /\ Renames(e) => /\ CurrentTarget(e) \in Present(remote)
                            /\ NameFree(Current(e).label, CurrentTarget(e))
<1> DEFINE listing == editors[e].listing
<1>1. listing \in Listings /\ remote \in Listings
  BY CurrentIs DEF TypeInv
<1>2. ASSUME NEW other \in Present(remote), remote[other].label = Current(e).label
      PROVE  other \in Bearing(listing, Current(e).label)
  <2>1. other \in Present(listing) /\ other \in Ids
    BY <1>1, PresentFields, ListTellsTruth DEF Synchronizing
  <2>2. CASE listing[other] = remote[other]
    BY <1>2, <2>1, <2>2 DEF Bearing, Same
  <2>3. CASE \E key \in Done(e) : TargetOf(e, key) = other
    <3>1. PICK key \in Done(e) : TargetOf(e, key) = other
      BY <2>3
    <3>2. rows[key].label = Current(e).label
      BY <1>2, <3>1, ListTellsTruth DEF Synchronizing
    <3>3. key \in Synchronized(rows) \ {CurrentKey(e)}
      BY CurrentOnCourse DEF Done
    <3> QED BY <3>2, <3>3, CurrentOnCourse DEF Same
  <2> QED BY <2>1, <2>2, <2>3 DEF OnCourse
<1>3. Orderly(rows, listing)
  BY DEF OnCourse
<1>4. CASE Creates(e)
  <2>1. CurrentTarget(e) = NoLink
    BY <1>4 DEF Creates
  <2>2. Bearing(listing, Current(e).label) = {}
    <3>1. NoLink \notin Present(listing)
      BY <1>1, PresentFields, IdsAreNumbers
    <3> QED BY <1>1, <2>1, <3>1, TargetIs, ByNameIs DEF CurrentTarget
  <2>3. ~Renames(e)
    BY <2>1 DEF Renames
  <2> QED BY <1>2, <2>2, <2>3 DEF NameFree
<1>5. CASE Renames(e)
  <2>1. /\ CurrentTarget(e) # NoLink /\ ~Creates(e)
        /\ listing[CurrentTarget(e)].label # Current(e).label
    BY <1>5 DEF Renames, Creates
  <2>2. CurrentTarget(e) \in Present(listing) /\ CurrentTarget(e) \in Ids
    BY <1>1, <2>1, CurrentOnCourse, PresentFields
  <2>3. CurrentTarget(e) \in Present(remote)
    BY <2>2, ListTellsTruth DEF Synchronizing
  <2>4. ASSUME NEW other \in Bearing(listing, Current(e).label) PROVE other = CurrentTarget(e)
    <3>1. CurrentTarget(e) = ByName(listing, Current(e).label)
      BY <1>1, <2>1, <2>4, TargetIs DEF CurrentTarget
    <3>2. CurrentTarget(e) \in Bearing(listing, Current(e).label)
      BY <1>1, <2>1, <3>1, ByNameIs
    <3> QED BY <1>3, <2>4, <3>2 DEF Orderly, Bearing, Same
  <2> QED BY <1>2, <2>1, <2>3, <2>4 DEF NameFree
<1> QED BY <1>4, <1>5

\* What the next field leaves behind.
LEMMA LinkedIs ==
    ASSUME TypeInv, NEW e \in Editors, OnCourse(e), Synchronizing(e),
           NEW id \in Ids, NEW listing \in Listings,
           rows' = rows, editors'[e] = Link(e, id, listing)
    PROVE  /\ editors'[e].listing = listing
           /\ DOMAIN editors'[e].todo = DOMAIN editors[e].todo \ {CurrentKey(e)}
           /\ \A key \in DOMAIN editors'[e].todo : editors'[e].todo[key] = editors[e].todo[key]
           /\ DOMAIN editors'[e].links \subseteq DOMAIN editors[e].links \cup {CurrentKey(e)}
           /\ Done(e)' = Done(e) \cup {CurrentKey(e)}
           /\ \A key \in Keys \ {CurrentKey(e)} : Linked(e)'[key] = Linked(e)[key]
           /\ Linked(e)'[CurrentKey(e)].link = id
<1>1. /\ editors'[e].listing = listing
      /\ editors'[e].todo
            = Restrict(editors[e].todo, DOMAIN editors[e].todo \ {CurrentKey(e)})
      /\ Current(e).link = id => editors'[e].links = editors[e].links
      /\ Current(e).link # id =>
            editors'[e].links = Put(editors[e].links, CurrentKey(e), id)
  <2> DEFINE editor == Link(e, id, listing)
  <2>1. /\ editor.listing = listing
        /\ editor.todo = Restrict(editors[e].todo, DOMAIN editors[e].todo \ {CurrentKey(e)})
    BY LinkIs
  <2>2. Current(e).link = id => editor.links = editors[e].links
    BY LinkIs
  <2>3. Current(e).link # id => editor.links = Put(editors[e].links, CurrentKey(e), id)
    BY LinkIs
  <2>4. editors'[e] = editor
    OBVIOUS
  <2> HIDE DEF editor
  <2> QED BY <2>1, <2>2, <2>3, <2>4
<1> DEFINE current == CurrentKey(e)
           links == editors[e].links
<1>2. /\ current \in Synchronized(rows) /\ current \notin Done(e) /\ current \in Keys
      /\ current \in DOMAIN editors[e].todo /\ Current(e) = rows[current]
      /\ rows[current] \in RowType
  BY CurrentOnCourse
<1>3. current \notin DOMAIN links
  BY <1>2 DEF OnCourse
<1> HIDE DEF current, links
<1>4. /\ DOMAIN editors'[e].todo = DOMAIN editors[e].todo \ {current}
      /\ \A key \in DOMAIN editors'[e].todo : editors'[e].todo[key] = editors[e].todo[key]
  BY <1>1 DEF Restrict, current
<1>5. Done(e)' = Done(e) \cup {current}
  <2>1. Done(e)' = Synchronized(rows) \ DOMAIN editors'[e].todo
    BY DEF Done
  <2> QED BY <1>2, <1>4, <2>1 DEF Done
<1>6. \A key \in Keys : Linked(e)'[key] = IF key \in DOMAIN editors'[e].links
                                           THEN [rows[key] EXCEPT !.link = editors'[e].links[key]]
                                           ELSE rows[key]
  BY DEF Linked
<1>7. \A key \in Keys : Linked(e)[key] = IF key \in DOMAIN links
                                          THEN [rows[key] EXCEPT !.link = links[key]]
                                          ELSE rows[key]
  BY DEF Linked, links
<1>8. CASE Current(e).link = id
  <2>1. editors'[e].links = links
    BY <1>1, <1>8 DEF links
  <2> QED BY <1>1, <1>2, <1>3, <1>4, <1>5, <1>6, <1>7, <1>8, <2>1 DEF current, links
<1>9. CASE Current(e).link # id
  <2>1. /\ DOMAIN editors'[e].links = DOMAIN links \cup {current}
        /\ editors'[e].links[current] = id
        /\ \A key \in DOMAIN links : editors'[e].links[key] = links[key]
    BY <1>1, <1>3, <1>9 DEF Put, current, links
  <2>2. Linked(e)'[current].link = id
    BY <1>2, <1>6, <2>1 DEF RowType
  <2>3. \A key \in Keys \ {current} : Linked(e)'[key] = Linked(e)[key]
    BY <1>6, <1>7, <2>1
  <2> QED BY <1>1, <1>4, <1>5, <2>1, <2>2, <2>3 DEF current, links
<1> QED BY <1>8, <1>9

\* A field that gets its custom field disturbs no other field.
LEMMA OnCourseStep ==
    ASSUME TypeInv, NEW e \in Editors, OnCourse(e), Synchronizing(e),
           NEW id \in Ids, NEW listing \in Listings, id \in Present(listing),
           rows' = rows, editors'[e] = Link(e, id, listing),
           Orderly(rows, listing),
           Target(listing, rows[CurrentKey(e)]) = id,
           \A key \in Synchronized(rows) \ {CurrentKey(e)} :
              Target(listing, rows[key]) = TargetOf(e, key),
           \A key \in Done(e) : TargetOf(e, key) # id,
           \A other \in Ids \ {id} : /\ listing[other] = editors[e].listing[other]
                                     /\ remote'[other] = remote[other],
           remote'[id] = CustomField(Current(e).label, Current(e).type)
    PROVE  OnCourse(e)'
<1> DEFINE current == CurrentKey(e)
<1>1. /\ editors'[e].listing = listing
      /\ DOMAIN editors'[e].todo = DOMAIN editors[e].todo \ {current}
      /\ \A key \in DOMAIN editors'[e].todo : editors'[e].todo[key] = editors[e].todo[key]
      /\ DOMAIN editors'[e].links \subseteq DOMAIN editors[e].links \cup {current}
      /\ Done(e)' = Done(e) \cup {current}
      /\ \A key \in Keys \ {current} : Linked(e)'[key] = Linked(e)[key]
      /\ Linked(e)'[current].link = id
  BY LinkedIs
<1>2. /\ current \in Synchronized(rows) /\ current \notin Done(e)
      /\ Current(e) = rows[current]
  BY CurrentOnCourse
<1>3. \A key : TargetOf(e, key)' = Target(listing, rows[key])
  BY <1>1 DEF TargetOf
<1> HIDE DEF current
<1>4. /\ DOMAIN editors'[e].todo \subseteq Synchronized(rows)
      /\ DOMAIN editors'[e].links \subseteq Done(e)'
      /\ \A key \in DOMAIN editors'[e].todo : editors'[e].todo[key] = rows[key]
  BY <1>1 DEF OnCourse
<1>5. ASSUME NEW key \in Done(e)' PROVE Settles(e, key)'
  <2>1. CASE key = current
    <3>1. Target(listing, rows[key]) = id
      BY <2>1 DEF current
    <3>2. /\ id \in Present(editors'[e].listing)
          /\ remote'[id] = CustomField(rows[key].label, rows[key].type)
          /\ Linked(e)'[key].link = id
      BY <1>1, <1>2, <2>1
    <3> QED BY <1>3, <3>1, <3>2 DEF Settles
  <2>2. CASE key # current
    <3>1. key \in Done(e) /\ key \in Synchronized(rows) /\ key \in Keys
      BY <1>1, <2>2, PresentRows DEF Done, Synchronized, TypeInv
    <3>2. Settles(e, key)
      BY <3>1 DEF OnCourse
    <3>3. TargetOf(e, key) # id /\ Target(listing, rows[key]) = TargetOf(e, key)
      BY <2>2, <3>1 DEF current
    <3>4. TargetOf(e, key) \in Ids /\ TargetOf(e, key) \in Present(editors[e].listing)
      BY <3>2, PresentFields, CurrentIs DEF Settles
    <3>5. TargetOf(e, key) \in Present(listing)
      BY <3>3, <3>4, PresentFields, CurrentIs
    <3>6. remote'[TargetOf(e, key)] = CustomField(rows[key].label, rows[key].type)
      BY <3>2, <3>3, <3>4 DEF Settles
    <3>7. Linked(e)'[key].link = TargetOf(e, key)
      BY <1>1, <2>2, <3>1, <3>2 DEF Settles
    <3> QED BY <1>1, <1>3, <3>3, <3>5, <3>6, <3>7 DEF Settles
  <2> QED BY <2>1, <2>2
<1>6. ASSUME NEW other \in Ids
      PROVE  \/ editors'[e].listing[other] = remote'[other]
             \/ \E key \in Done(e)' : TargetOf(e, key)' = other
  <2>1. CASE other = id
    <3>1. Target(listing, rows[current]) = id /\ current \in Done(e)'
      BY <1>1 DEF current
    <3> QED BY <1>3, <2>1, <3>1
  <2>2. CASE other # id /\ editors[e].listing[other] = remote[other]
    BY <1>1, <2>2
  <2>3. CASE \E key \in Done(e) : TargetOf(e, key) = other
    <3>1. PICK key \in Done(e) : TargetOf(e, key) = other
      BY <2>3
    <3>2. key \in Synchronized(rows) \ {current}
      BY <1>2 DEF Done
    <3>3. TargetOf(e, key)' = other
      BY <1>3, <3>1, <3>2 DEF current
    <3> QED BY <1>1, <3>3
  <2> QED BY <2>1, <2>2, <2>3 DEF OnCourse
<1>7. Orderly(rows, listing)' /\ Synchronized(rows)' = Synchronized(rows)
  BY DEF Orderly, Synchronized, Present
<1> QED BY <1>1, <1>4, <1>5, <1>6 DEF OnCourse

\* A custom field more is nobody's target but that of rows of its name.
LEMMA OtherTargetsStay ==
    ASSUME NEW listing \in Listings, NEW id \in Ids \ Present(listing), NEW field \in FieldType,
           NEW later \in Listings, later[id] = field,
           \A other \in Ids \ {id} : later[other] = listing[other]
    PROVE  /\ Present(later) = Present(listing) \cup {id}
           /\ \A row : ~Same(field.label, row.label) =>
                 Bearing(later, row.label) = Bearing(listing, row.label)
           /\ \A row : row.link # id /\ ~Same(field.label, row.label) =>
                 Target(later, row) = Target(listing, row)
<1>2. Present(later) = Present(listing) \cup {id}
  BY PresentFields, Distinct DEF Present
<1>3. ASSUME NEW row, ~Same(field.label, row.label)
      PROVE  Bearing(later, row.label) = Bearing(listing, row.label)
  <2>1. \A other \in Present(later) : other # id => other \in Present(listing) /\ other \in Ids
    BY <1>2, PresentFields
  <2>2. \A other \in Present(listing) : later[other] = listing[other] /\ other \in Present(later)
    BY <1>2, PresentFields
  <2>3. id \notin Bearing(later, row.label) /\ id \notin Bearing(listing, row.label)
    BY <1>3 DEF Bearing
  <2> QED BY <2>1, <2>2, <2>3 DEF Bearing
<1>4. ASSUME NEW row, row.link # id, ~Same(field.label, row.label)
      PROVE  Target(later, row) = Target(listing, row)
  <2>1. ByName(later, row.label) = ByName(listing, row.label)
    BY <1>3, <1>4 DEF ByName
  <2>2. row.link \in Present(later) <=> row.link \in Present(listing)
    BY <1>2, <1>4
  <2>3. row.link \in Present(listing) => later[row.link] = listing[row.link]
    BY <1>4, PresentFields
  <2> QED BY <2>1, <2>2, <2>3 DEF Target
<1> QED BY <1>2, <1>3, <1>4

\* What the steps of a synchronization do.
LEMMA SyncIs ==
    ASSUME TypeInv, NEW e \in Editors
    PROVE  /\ Keep(e) \/ Rename(e) =>
                 /\ editors'[e] = Link(e, CurrentTarget(e), editors[e].listing) /\ rows' = rows
                 /\ Synchronizing(e) /\ TypesAgree(e) /\ CurrentTarget(e) # NoLink
           /\ Create(e) =>
                 /\ editors'[e] = Link(e, Lowest(Unused),
                       [editors[e].listing EXCEPT ![Lowest(Unused)] = remote'[Lowest(Unused)]])
                 /\ rows' = rows /\ Synchronizing(e) /\ CurrentTarget(e) = NoLink
                 /\ remote' = Requested(e, Lowest(Unused)) /\ Unused # {}
<1>1. ASSUME NEW editor, NEW changed, Continue(e, editor, changed) PROVE editors'[e] = editor
  BY <1>1 DEF Continue, Disturbed, TypeInv
<1>2. CASE Keep(e) \/ Rename(e)
  <2>1. \E changed : Continue(e, Link(e, CurrentTarget(e), editors[e].listing), changed)
    BY <1>2 DEF Keep, Rename
  <2>2. rows' = rows /\ Synchronizing(e) /\ TypesAgree(e) /\ CurrentTarget(e) # NoLink
    BY <1>2 DEF Keep, Rename, Renames
  <2>3. ~Create(e)
    BY <2>2 DEF Create, Creates
  <2> QED BY <1>1, <2>1, <2>2, <2>3
<1>3. CASE Create(e)
  <2>1. \E changed : Continue(e, Link(e, Lowest(Unused),
           [editors[e].listing EXCEPT ![Lowest(Unused)] = remote'[Lowest(Unused)]]), changed)
    BY <1>3 DEF Create
  <2>2. /\ rows' = rows /\ Synchronizing(e) /\ CurrentTarget(e) = NoLink
        /\ remote' = Requested(e, Lowest(Unused)) /\ Unused # {}
    BY <1>3 DEF Create, Creates
  <2>3. ~(Keep(e) \/ Rename(e))
    BY <2>2 DEF Keep, Rename, Renames
  <2> QED BY <1>1, <2>1, <2>2, <2>3
<1> QED BY <1>2, <1>3

\* A field whose custom field exists gets it, by its name.
LEMMA FoundKeepsCourse ==
    ASSUME TypeInv, NEW e \in Editors, OnCourse(e), Keep(e) \/ Rename(e)
    PROVE  OnCourse(e)'
<1> DEFINE id == CurrentTarget(e)
           listing == editors[e].listing
<1>1. /\ editors'[e] = Link(e, id, listing) /\ rows' = rows
      /\ Synchronizing(e) /\ TypesAgree(e) /\ id # NoLink
  BY SyncIs
<1>2. listing \in Listings /\ id \in Ids /\ Current(e) \in RowType
  BY <1>1, CurrentIs
<1>3. /\ id \in Present(listing) /\ remote[id] = listing[id]
      /\ \A key \in Done(e) : TargetOf(e, key) # id
      /\ id = TargetOf(e, CurrentKey(e))
  BY <1>1, CurrentOnCourse
<1>4. Orderly(rows, listing)
  BY DEF OnCourse
<1>5. listing[id] \in FieldType /\ listing[id].type = Current(e).type
  BY <1>1, <1>2, <1>3, PresentFields DEF TypesAgree
<1>6. CASE Keep(e)
  <2>1. remote' = remote /\ listing[id].label = Current(e).label
    BY <1>1, <1>6 DEF Keep, Renames
  <2>2. remote'[id] = CustomField(Current(e).label, Current(e).type)
    BY <1>3, <1>5, <2>1 DEF FieldType, CustomField
  <2> HIDE DEF id, listing
  <2> QED BY <1>1, <1>2, <1>3, <1>4, <2>1, <2>2, OnCourseStep DEF TargetOf, listing
<1>7. CASE Rename(e)
  <2>1. remote' = [remote EXCEPT ![id].label = Current(e).label]
    BY <1>7 DEF Rename
  <2>2. remote \in [Ids -> FieldType \cup {None, Deleted}]
    BY DEF TypeInv, Listings
  <2>3. remote'[id] = CustomField(Current(e).label, Current(e).type)
    <3>1. remote'[id] = [remote[id] EXCEPT !.label = Current(e).label]
      BY <1>2, <2>1, <2>2
    <3> QED BY <1>3, <1>5, <3>1 DEF FieldType, CustomField
  <2>4. \A other \in Ids \ {id} : remote'[other] = remote[other]
    BY <2>1, <2>2
  <2> HIDE DEF id, listing
  <2> QED BY <1>1, <1>2, <1>3, <1>4, <2>3, <2>4, OnCourseStep DEF TargetOf, listing
<1> QED BY <1>6, <1>7

\* A field that has none gets a new one, which the list learns of.
LEMMA CreateKeepsCourse ==
    ASSUME TypeInv, NEW e \in Editors, OnCourse(e), Create(e)
    PROVE  OnCourse(e)'
<1> DEFINE id == Lowest(Unused)
           listing == editors[e].listing
           later == [listing EXCEPT ![id] = remote'[id]]
           field == CustomField(Current(e).label, Current(e).type)
           current == CurrentKey(e)
<1>1. /\ editors'[e] = Link(e, id, later) /\ rows' = rows
      /\ Synchronizing(e) /\ CurrentTarget(e) = NoLink
      /\ remote' = [remote EXCEPT ![id] = field] /\ Unused # {}
  BY SyncIs DEF Requested
<1>2. listing \in Listings /\ Current(e) \in RowType
  BY <1>1, CurrentIs
<1>3. id \in Ids /\ remote[id] = None /\ id \notin Present(listing)
  BY <1>1, UnusedIs, ListTellsTruth DEF Synchronizing
<1>4. field \in FieldType /\ field.label = Current(e).label
  BY <1>2 DEF CustomField, RowType, FieldType
<1>5. remote'[id] = field /\ \A other \in Ids \ {id} : remote'[other] = remote[other]
  BY <1>1, <1>3 DEF TypeInv, Listings
<1>6. /\ current \in Synchronized(rows) /\ Current(e) = rows[current]
      /\ \A key \in Synchronized(rows) \ {current} : ~Same(rows[key].label, rows[current].label)
      /\ CurrentTarget(e) = Target(listing, rows[current])
  BY <1>1, CurrentOnCourse DEF TargetOf
<1>9. \A key \in Done(e) : TargetOf(e, key) # id
  BY <1>3 DEF OnCourse, Settles
<1>8. Orderly(rows, listing)
  BY DEF OnCourse
<1>7. \A key \in Synchronized(rows) : rows[key].link # id
  <2>1. listing[id] = remote[id]
    BY <1>3, <1>9 DEF OnCourse
  <2>2. \A key \in Synchronized(rows) : rows[key].link # NoLink => listing[rows[key].link] # None
    BY <1>8 DEF Orderly
  <2> QED BY <1>3, <2>1, <2>2, IdsAreNumbers
<1> HIDE DEF id, listing, field, current
<1>10. later = [listing EXCEPT ![id] = field]
  BY <1>5
<1> HIDE DEF later
<1>11. /\ later \in Listings /\ Present(later) = Present(listing) \cup {id}
       /\ later[id] = field /\ \A other \in Ids \ {id} : later[other] = listing[other]
       /\ \A row : row.link # id /\ ~Same(field.label, row.label) =>
             Target(later, row) = Target(listing, row)
  <2>1. id \in Ids \ Present(listing)
    BY <1>3
  <2>2. /\ later \in Listings /\ later[id] = field
        /\ \A other \in Ids \ {id} : later[other] = listing[other]
    BY <1>2, <1>4, <1>10, <2>1 DEF Listings
  <2>3. \A row : row.link # id /\ ~Same(field.label, row.label) =>
           Target(later, row) = Target(listing, row)
    BY <1>2, <1>4, <2>1, <2>2, OtherTargetsStay
  <2>4. Present(later) = Present(listing) \cup {id}
    BY <1>2, <1>4, <2>1, <2>2, OtherTargetsStay
  <2> QED BY <2>2, <2>3, <2>4
<1>12. Bearing(listing, rows[current].label) = {} /\ rows[current].link \notin Present(listing)
  <2>1. NoLink \notin Present(listing)
    BY <1>2, PresentFields, IdsAreNumbers
  <2> QED BY <1>1, <1>2, <1>6, <2>1, TargetIs, ByNameIs
<1>13. Target(later, rows[current]) = id
  <2>1. Bearing(later, rows[current].label) = {id}
    <3>1. \A other \in Present(listing) : ~Same(later[other].label, rows[current].label)
      <4>1. \A other \in Present(listing) : later[other] = listing[other]
        BY <1>2, <1>3, <1>11, PresentFields
      <4> QED BY <1>12, <4>1 DEF Bearing
    <3>2. Same(later[id].label, rows[current].label)
      BY <1>4, <1>6, <1>11 DEF Same
    <3> QED BY <1>11, <3>1, <3>2 DEF Bearing
  <2>2. ByName(later, rows[current].label) = id
    BY <1>11, <2>1, ByNameIs
  <2>3. rows[current].link \notin Present(later)
    BY <1>6, <1>7, <1>11, <1>12
  <2> QED BY <2>2, <2>3 DEF Target
<1>14. ASSUME NEW key \in Synchronized(rows) \ {current}
       PROVE  Target(later, rows[key]) = TargetOf(e, key)
  <2>1. ~Same(field.label, rows[key].label)
    BY <1>4, <1>6 DEF Same
  <2> QED BY <1>7, <1>11, <2>1 DEF TargetOf, listing
<1>15. Orderly(rows, later)
  <2>1. \A key \in Synchronized(rows) : rows[key].link \in Present(later) =>
           rows[key].link \in Present(listing) /\ later[rows[key].link] = listing[rows[key].link]
    BY <1>2, <1>7, <1>11, PresentFields
  <2>2. ASSUME NEW i \in Present(later), NEW other \in Present(later), i # other
        PROVE  ~Same(later[i].label, later[other].label)
    <3>1. \A j \in Present(listing) : later[j] = listing[j]
      BY <1>2, <1>3, <1>11, PresentFields
    <3>2. \A j \in Present(listing) : ~Same(listing[j].label, field.label)
      BY <1>4, <1>6, <1>12 DEF Bearing
    <3> QED BY <1>8, <1>11, <2>2, <3>1, <3>2 DEF Orderly, Same
  <2>3. ASSUME NEW key \in Synchronized(rows), rows[key].link # NoLink
        PROVE  later[rows[key].link] # None
    <3>1. listing[rows[key].link] # None
      BY <1>8, <2>3 DEF Orderly
    <3>2. rows[key].link \in Ids \ {id}
      <4>1. rows[key] \in RowType
        BY PresentRows DEF Synchronized, TypeInv
      <4> QED BY <1>7, <2>3, <4>1 DEF RowType
    <3> QED BY <1>11, <3>1, <3>2
  <2> QED BY <1>8, <2>1, <2>2, <2>3 DEF Orderly
<1>16. id \in Present(later)
  BY <1>11
<1> QED BY <1>1, <1>3, <1>5, <1>9, <1>11, <1>13, <1>14, <1>15, <1>16, OnCourseStep
       DEF listing, field, current

\* A request whose steps leave rows and custom fields alone relies on the same.
LEMMA StandingBy ==
    ASSUME NEW e \in Editors, Relies(e),
           editors'[e] = editors[e], rows' = rows, remote' = remote
    PROVE  Relies(e)'
<1>1. Knows(e)' <=> Knows(e)
  BY DEF Knows
<1>2. ASSUME OnCourse(e) PROVE OnCourse(e)'
  <2>1. Done(e)' = Done(e)
    BY DEF Done
  <2>2. \A key : TargetOf(e, key)' = TargetOf(e, key)
    BY DEF TargetOf
  <2>3. \A key \in Keys : Linked(e)'[key] = Linked(e)[key]
    BY DEF Linked
  <2>4. \A key \in Done(e) : Settles(e, key)'
    <3>1. ASSUME NEW key \in Done(e) PROVE Settles(e, key)'
      <4>1. Settles(e, key)
        BY <1>2 DEF OnCourse
      <4>2. Linked(e)' = Linked(e)
        BY DEF Linked
      <4> QED BY <2>2, <4>1, <4>2 DEF Settles
    <3> QED BY <3>1
  <2> QED BY <1>2, <2>1, <2>2, <2>4 DEF OnCourse
<1> QED BY <1>1, <1>2 DEF Relies

\* Saving begins a request that nothing has disturbed yet.
LEMMA SaveRelies ==
    ASSUME TypeInv, NEW e \in Editors, editors[e].stage = "editing",
           \E draft \in Drafts(editors[e].rows, editors[e].new), expired \in BOOLEAN :
              Save(e, draft[1], draft[2], expired)
    PROVE  Relies(e)'
<1>1. PICK form \in Tables, new \in RowType \cup {None}, known \in {Nothing, rows'} :
        editors'[e] = [Editing(form, new) EXCEPT !.stage = "list", !.alone = TRUE, !.known = known]
  BY SaveKeeps
<1>2. Editing(form, new) \in EditorType /\ Editing(form, new).links = Nothing
  BY EditingTyped
<1>3. editors'[e].stage = "list" /\ editors'[e].known = known /\ editors'[e].links = Nothing
  BY <1>1, <1>2 DEF EditorType
<1>4. \A key \in Present(known) : known[key] = rows'[key]
  BY NothingIsPresent
<1>5. Knows(e)'
  BY <1>3, <1>4 DEF Knows
<1> QED BY <1>3, <1>5, NothingIsPresent DEF Relies

\* The rows in memory are those of the table, and the list is what Paperless has.
LEMMA ReadRelies ==
    ASSUME TypeInv, NEW e \in Editors, Relies(e), List(e) \/ Read(e)
    PROVE  Relies(e)'
<1>0. editors[e] \in EditorType /\ rows' = rows /\ remote' = remote
  BY DEF TypeInv, List, Read
<1>1. CASE List(e)
  <2>1. editors'[e] = [editors[e] EXCEPT !.stage = "read", !.listing = remote]
    BY <1>1 DEF List, TypeInv
  <2>2. /\ editors'[e].stage = "read" /\ editors'[e].listing = remote
        /\ editors'[e].known = editors[e].known /\ editors'[e].links = editors[e].links
    BY <1>0, <2>1 DEF EditorType
  <2>3. Knows(e) /\ DOMAIN editors[e].links = {}
    BY <1>1 DEF List, Relies
  <2> QED BY <1>0, <2>2, <2>3 DEF Relies, Knows
<1>2. CASE Read(e)
  <2>1. Knows(e) /\ DOMAIN editors[e].links = {} /\ editors[e].listing = remote
    BY <1>2 DEF Read, Relies
  <2>2. Known(e) = rows
    <3>1. \A key \in Keys : Known(e)[key] = rows[key]
      BY <2>1 DEF Knows, Known
    <3>2. Known(e) = [key \in Keys |-> Known(e)[key]]
      BY DEF Known
    <3>3. rows = [key \in Keys |-> rows[key]]
      BY DEF TypeInv, Tables
    <3> QED BY <3>1, <3>2, <3>3
  <2> DEFINE todo == Restrict(rows, Synchronized(rows))
             orderly == Orderly(rows, editors[e].listing)
  <2>3. editors'[e] = [editors[e] EXCEPT !.stage = "sync", !.known = Nothing, !.todo = todo,
                                         !.orderly = orderly]
    BY <1>2, <2>2 DEF Read, TypeInv
  <2> HIDE DEF todo, orderly
  <2>4. /\ editors'[e].stage = "sync" /\ editors'[e].todo = todo
        /\ editors'[e].orderly = orderly /\ editors'[e].listing = remote
        /\ editors'[e].links = editors[e].links
    BY <1>0, <2>1, <2>3 DEF EditorType
  <2>5. DOMAIN todo = Synchronized(rows) /\ \A key \in DOMAIN todo : todo[key] = rows[key]
    BY DEF todo, Restrict
  <2>6. Done(e)' = {}
    BY <1>0, <2>4, <2>5 DEF Done
  <2>7. ASSUME orderly PROVE OnCourse(e)'
    <3>1. Orderly(rows', editors'[e].listing)
      BY <1>0, <2>1, <2>4, <2>7 DEF orderly
    <3>2. Synchronized(rows') = Synchronized(rows)
      BY <1>0
    <3> QED BY <1>0, <2>1, <2>4, <2>5, <2>6, <3>1, <3>2 DEF OnCourse
  <2> QED BY <2>4, <2>7 DEF Relies
<1> QED BY <1>1, <1>2

\* A request that goes on undisturbed still can rely on what it knows.
LEMMA OwnStepRelies ==
    ASSUME TypeInv, RowsStay, AloneInv, NEW e \in Editors, EditorStep(e),
           editors'[e].alone
    PROVE  Relies(e)'
<1>0. editors[e] \in EditorType
  BY DEF TypeInv
<1>1. ASSUME NEW editor, NEW changed, Continue(e, editor, changed) PROVE editors'[e] = editor
  BY <1>1 DEF Continue, Disturbed, TypeInv
<1>2. \A form, new : ~Editing(form, new).alone
  BY DEF Editing, Closed
<1>3. ~Open(e) /\ ~Import(e)
  <2>1. Open(e) => ~editors'[e].alone
    BY DEF Open, Closed, TypeInv
  <2>2. Import(e) => ~editors'[e].alone
    BY <1>2, ImportIs DEF Closed
  <2> QED BY <2>1, <2>2
<1>4. ~Mismatch(e) /\ ~Refused(e) /\ ~RequestFails(e) /\ ~AnswerLost(e) /\ ~Commit(e)
  <2>1. editors'[e] = GiveUp(e) => ~editors'[e].alone
    BY <1>2 DEF GiveUp
  <2>2. Mismatch(e) \/ Refused(e) => editors'[e] = GiveUp(e)
    BY DEF Mismatch, Refused, TypeInv
  <2>3. RequestFails(e) => editors'[e] = Closed \/ editors'[e] = GiveUp(e)
    BY DEF RequestFails, TypeInv
  <2>4. AnswerLost(e) => editors'[e] = GiveUp(e)
    BY <1>1 DEF AnswerLost
  <2>5. Commit(e) => editors'[e] = Editing(rows', None)
    BY <1>1 DEF Commit
  <2>6. ~Closed.alone
    BY DEF Closed
  <2> QED BY <1>2, <2>1, <2>2, <2>3, <2>4, <2>5, <2>6
<1>5. CASE List(e) \/ Read(e)
  <2>1. editors'[e].alone = editors[e].alone
    <3>1. CASE List(e)
      <4>1. editors'[e] = [editors[e] EXCEPT !.stage = "read", !.listing = remote]
        BY <3>1 DEF List, TypeInv
      <4> QED BY <1>0, <4>1 DEF EditorType
    <3>2. CASE Read(e)
      <4> DEFINE todo == Restrict(Known(e), Synchronized(Known(e)))
                 orderly == Orderly(Known(e), editors[e].listing)
      <4>1. editors'[e] = [editors[e] EXCEPT !.stage = "sync", !.known = Nothing, !.todo = todo,
                                             !.orderly = orderly]
        BY <3>2 DEF Read, TypeInv
      <4> HIDE DEF todo, orderly
      <4> QED BY <1>0, <4>1 DEF EditorType
    <3> QED BY <1>5, <3>1, <3>2
  <2> QED BY <1>5, <2>1, ReadRelies DEF AloneInv
<1>6. CASE Create(e) \/ Rename(e) \/ Keep(e)
  <2>1. Synchronizing(e) /\ \E id \in Ids, listing \in Listings : editors'[e] = Link(e, id, listing)
    <3>1. CASE Rename(e) \/ Keep(e)
      <4>1. /\ editors'[e] = Link(e, CurrentTarget(e), editors[e].listing)
            /\ Synchronizing(e) /\ CurrentTarget(e) # NoLink
        BY <3>1, SyncIs
      <4> QED BY <4>1, CurrentIs
    <3>2. CASE Create(e)
      <4> DEFINE id == Lowest(Unused)
                 listing == [editors[e].listing EXCEPT ![id] = remote'[id]]
      <4>1. editors'[e] = Link(e, id, listing) /\ Synchronizing(e) /\ Unused # {}
        BY <3>2, SyncIs
      <4>2. id \in Ids
        BY <4>1, UnusedIs
      <4>3. remote' \in Listings
        BY EditorStepTyped DEF TypeInv
      <4>4. listing \in Listings
        BY <4>1, <4>2, <4>3, CurrentIs DEF Listings
      <4> QED BY <4>1, <4>2, <4>4
    <3> QED BY <1>6, <3>1, <3>2
  <2>2. PICK id \in Ids, listing \in Listings : editors'[e] = Link(e, id, listing)
    BY <2>1
  <2>3. /\ Link(e, id, listing).stage = "sync"
        /\ Link(e, id, listing).alone = editors[e].alone
        /\ Link(e, id, listing).orderly = editors[e].orderly
    <3>1. Link(e, id, listing).stage = "sync"
      BY <2>1, LinkIs
    <3>2. Link(e, id, listing).alone = editors[e].alone
      BY ZenonT(30), <2>1, LinkIs
    <3>3. Link(e, id, listing).orderly = editors[e].orderly
      BY ZenonT(30), <2>1, LinkIs
    <3> QED BY <3>1, <3>2, <3>3
  <2>4. Relies(e) /\ editors[e].stage = "sync"
    BY <2>1, <2>2, <2>3 DEF AloneInv, Synchronizing
  <2>5. ASSUME editors[e].orderly PROVE OnCourse(e)'
    BY <1>6, <2>4, <2>5, FoundKeepsCourse, CreateKeepsCourse DEF Relies
  <2> QED BY <2>2, <2>3, <2>5 DEF Relies
<1>7. CASE /\ editors[e].stage = "editing"
           /\ \E draft \in Drafts(editors[e].rows, editors[e].new), expired \in BOOLEAN :
                 Save(e, draft[1], draft[2], expired)
  BY <1>7, SaveRelies
<1> QED BY <1>3, <1>4, <1>5, <1>6, <1>7 DEF EditorStep

\* Undisturbed requests stay on course, whatever the others do.
LEMMA AloneStep ==
    ASSUME TypeInv, RowsStay, AloneInv, [Next]_vars
    PROVE  AloneInv'
<1>1. ASSUME NEW e \in Editors, EditorStep(e) PROVE AloneInv'
  <2>1. \A other \in Editors \ {e} : Bystander(other)
    BY <1>1, EditorStepTyped
  <2>2. ASSUME NEW other \in Editors, other # e, editors'[other].alone PROVE Relies(other)'
    <3>1. editors[other] \in EditorType
      BY DEF TypeInv
    <3>2. editors'[other] = editors[other] /\ rows' = rows /\ remote' = remote
      BY <2>1, <2>2, <3>1 DEF Bystander, EditorType
    <3> QED BY <2>2, <3>2, StandingBy DEF AloneInv
  <2>3. editors'[e].alone => Relies(e)'
    BY <1>1, OwnStepRelies
  <2> QED BY <2>2, <2>3 DEF AloneInv
<1>2. CASE UserCreates \/ UserRenames \/ UserDeletes
  <2>1. \A e \in Editors : editors'[e] = [editors[e] EXCEPT !.alone = FALSE]
    BY <1>2, UsersTyped
  <2>2. \A e \in Editors : ~editors'[e].alone
    BY <2>1 DEF TypeInv, EditorType
  <2> QED BY <2>2 DEF AloneInv
<1>3. CASE UNCHANGED vars
  <2>1. editors' = editors /\ rows' = rows /\ remote' = remote
    BY <1>3 DEF vars
  <2> QED BY <2>1, StandingBy DEF AloneInv
<1> QED BY <1>1, <1>2, <1>3 DEF Next

\* Committing gives each enabled field the link to its custom field.
LEMMA CommitReaches ==
    ASSUME TypeInv, NEW e \in Editors, Commit(e), OnCourse(e)
    PROVE  ValuesReachTheirField'
<1> DEFINE listing == editors[e].listing
           target(key) == TargetOf(e, key)
<1>1. /\ rows' = Linked(e) /\ remote' = remote /\ editors[e].stage = "sync"
      /\ DOMAIN editors[e].todo = {}
  BY DEF Commit
<1>2. listing \in Listings /\ rows \in Tables
  BY <1>1 DEF TypeInv, Equipped
<1>3. Done(e) = Synchronized(rows)
  BY <1>1 DEF Done
<1>4. \A key \in Keys :
        /\ rows'[key] = rows[key] \/ \E id : rows'[key] = [rows[key] EXCEPT !.link = id]
        /\ key \notin Synchronized(rows) => rows'[key] = rows[key]
  BY <1>1, <1>3 DEF Linked, OnCourse
<1>5. ASSUME NEW key \in Synchronized(rows')
      PROVE  /\ key \in Synchronized(rows) /\ key \in Keys
             /\ rows'[key].label = rows[key].label /\ rows'[key].type = rows[key].type
  <2>1. key \in Keys /\ rows'[key] \notin {None, Deleted} /\ rows'[key].enabled
    BY <1>1, <1>5 DEF Synchronized, Present, Linked
  <2>2. key \in Synchronized(rows)
    <3>1. SUFFICES ASSUME key \notin Synchronized(rows) PROVE FALSE
      OBVIOUS
    <3>2. rows'[key] = rows[key]
      BY <1>4, <2>1, <3>1
    <3> QED BY <1>2, <2>1, <3>1, <3>2, PresentRows DEF Synchronized
  <2>3. rows[key] \in RowType
    BY <1>2, <2>2, PresentRows DEF Synchronized
  <2> QED BY <1>4, <2>1, <2>2, <2>3 DEF RowType
<1>6. ASSUME NEW key \in Synchronized(rows')
      PROVE  /\ target(key) \in Present(listing) /\ target(key) \in Ids
             /\ remote[target(key)] = CustomField(rows[key].label, rows[key].type)
             /\ rows'[key].link = target(key)
  <2>1. Settles(e, key)
    BY <1>3, <1>5 DEF OnCourse
  <2> QED BY <1>1, <1>2, <2>1, PresentFields DEF Settles
<1>7. ASSUME NEW key \in Synchronized(rows') PROVE WriteTarget(rows[key])' = target(key)
  BY <1>6, IdsAreNumbers DEF WriteTarget
<1>8. ASSUME NEW key \in Synchronized(rows')
      PROVE  /\ target(key) \in Present(remote)
             /\ remote[target(key)] = CustomField(rows'[key].label, rows'[key].type)
             /\ \A other \in Synchronized(rows') \ {key} : target(other) # target(key)
  <2>1. target(key) \in Present(remote)
    BY <1>1, <1>6, ListTellsTruth
  <2>2. ASSUME NEW other \in Synchronized(rows') \ {key} PROVE target(other) # target(key)
    <3>1. Orderly(rows, listing)
      BY DEF OnCourse
    <3>2. key \in Synchronized(rows) /\ other \in Synchronized(rows) /\ other # key
      BY <1>5
    <3>3. Target(listing, rows[key]) # NoLink
      BY <1>6, IdsAreNumbers DEF TargetOf
    <3> QED BY <1>2, <3>1, <3>2, <3>3, TargetsDiffer DEF TargetOf
  <2> QED BY <1>5, <1>6, <2>1, <2>2
<1> HIDE DEF target
<1>9. ASSUME NEW key \in Synchronized(rows')
      PROVE  /\ WriteTarget(rows[key])' \in Present(remote')
             /\ remote'[WriteTarget(rows[key])'] = CustomField(rows'[key].label, rows'[key].type)
             /\ \A other \in Synchronized(rows') \ {key} :
                   WriteTarget(rows[other])' # WriteTarget(rows[key])'
  BY <1>1, <1>7, <1>8
<1> QED BY <1>9 DEF ValuesReachTheirField

\* A configuration becomes synchronized by an undisturbed commit only.
LEMMA SyncedStep ==
    ASSUME TypeInv, [Next]_vars, synced'
    PROVE  \/ synced /\ rows' = rows /\ remote' = remote
           \/ \E e \in Editors : Commit(e) /\ editors[e].alone /\ editors[e].orderly
<1>1. CASE UserCreates \/ UserRenames \/ UserDeletes
  BY <1>1, UsersTyped
<1>2. CASE UNCHANGED vars
  BY <1>2 DEF vars
<1>3. ASSUME NEW e \in Editors, EditorStep(e)
      PROVE  \/ synced /\ rows' = rows /\ remote' = remote
             \/ Commit(e) /\ editors[e].alone /\ editors[e].orderly
  <2>1. CASE \/ Open(e) \/ List(e) \/ Read(e) \/ RequestFails(e)
             \/ Mismatch(e) \/ Keep(e) \/ Refused(e)
    BY <2>1 DEF Open, List, Read, Mismatch, Keep, Refused, RequestFails
  <2>2. CASE Import(e) \/ Rename(e)
    BY <2>2 DEF Import, Rename
  <2>3. CASE Create(e) \/ AnswerLost(e)
    BY <2>3 DEF Create, AnswerLost
  <2>4. CASE \E draft \in Drafts(editors[e].rows, editors[e].new), expired \in BOOLEAN :
                Save(e, draft[1], draft[2], expired)
    BY <2>4 DEF Save
  <2>5. CASE Commit(e)
    BY <2>5 DEF Commit
  <2> QED BY <1>3, <2>1, <2>2, <2>3, <2>4, <2>5 DEF EditorStep
<1> QED BY <1>1, <1>2, <1>3 DEF Next

\* The invariant is inductive.
LEMMA FieldInvariant == Spec => []IInv
<1>1. Init => IInv
  <2> SUFFICES ASSUME Init PROVE IInv
    OBVIOUS
  <2>1. AloneInv
    BY DEF Init, AloneInv, Closed
  <2>2. ValuesReachTheirField
    BY DEF Init, ValuesReachTheirField
  <2> QED BY <2>1, <2>2, InitTyped, InitStays DEF IInv
<1>2. IInv /\ [Next]_vars => IInv'
  <2> SUFFICES ASSUME IInv, [Next]_vars PROVE IInv'
    OBVIOUS
  <2>1. TypeInv /\ RowsStay /\ AloneInv
    BY DEF IInv
  <2>2. TypeInv' /\ RowsStay'
    BY <2>1, TypeStep
  <2>3. AloneInv'
    BY <2>1, AloneStep
  <2>4. CASE ~synced'
    BY <2>2, <2>3, <2>4 DEF IInv, ValuesReachTheirField
  <2>5. CASE synced /\ rows' = rows /\ remote' = remote
    <3>1. ValuesReachTheirField
      BY DEF IInv
    <3>2. ValuesReachTheirField'
      BY <2>5, <3>1 DEF ValuesReachTheirField, WriteTarget
    <3> QED BY <2>2, <2>3, <3>2 DEF IInv
  <2>6. ASSUME NEW e \in Editors, Commit(e), editors[e].alone, editors[e].orderly PROVE IInv'
    <3>1. OnCourse(e)
      BY <2>1, <2>6 DEF AloneInv, Relies, Commit
    <3>2. ValuesReachTheirField'
      BY <2>1, <2>6, <3>1, CommitReaches
    <3> QED BY <2>2, <2>3, <3>2 DEF IInv
  <2> QED BY <2>1, <2>4, <2>5, <2>6, SyncedStep
<1> QED BY <1>1, <1>2, PTL DEF Spec

\* After an undisturbed synchronization of an orderly configuration the worker writes
\* every value to a custom field that exists, bears the label and the type of the
\* field and serves no other one: for any number of fields, labels and editors,
\* whatever renamings the list of custom fields has not followed and whatever IDs
\* administrators type, as long as an orderly configuration has none that Paperless
\* has not given when the synchronization asks for its custom fields.
THEOREM ValuesReachTheirFieldAlways == Spec => []ValuesReachTheirField
<1>1. IInv => ValuesReachTheirField
  BY DEF IInv
<1> QED BY <1>1, FieldInvariant, PTL

\* Paperless refuses no request of an undisturbed synchronization: no name that it is
\* asked for belongs to another custom field, not even after one that failed half way.
THEOREM RetryIsAcceptedAlways == Spec => RetryIsAccepted
<1> DEFINE step == \A e \in Editors : editors[e].alone /\ editors[e].orderly
                      => ~(Refused(e) /\ (Creates(e) => Unused # {}))
<1>1. IInv /\ [Next]_vars => [step]_vars
  <2> SUFFICES ASSUME IInv, NEW e \in Editors, Refused(e), Creates(e) => Unused # {},
                      editors[e].alone, editors[e].orderly
               PROVE  FALSE
    OBVIOUS
  <2>1. Synchronizing(e) /\ editors[e].stage = "sync"
    BY DEF Refused, Creates, Renames, Synchronizing
  <2>2. OnCourse(e) /\ TypeInv
    BY <2>1 DEF IInv, AloneInv, Relies
  <2>3. /\ Creates(e) => NameFree(Current(e).label, NoLink)
        /\ Renames(e) => /\ CurrentTarget(e) \in Present(remote)
                         /\ NameFree(Current(e).label, CurrentTarget(e))
    BY <2>1, <2>2, NamesAccepted
  <2> QED BY <2>3 DEF Refused
<1> QED BY <1>1, FieldInvariant, PTL DEF Spec, RetryIsAccepted
=============================================================================
