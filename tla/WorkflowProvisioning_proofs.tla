--------------------- MODULE WorkflowProvisioning_proofs ---------------------
(***************************************************************************)
(* Proofs about WorkflowProvisioning for any instances, calls, settings    *)
(* and bounds.  A call acts on a listing that may be old: the invariants   *)
(* say what the writes it still has to send have to do with the workflows  *)
(* as they are now.                                                        *)
(***************************************************************************)
EXTENDS WorkflowProvisioning, FiniteSetTheorems, TLAPS

(* A workflow of a user that sends document events to an instance. *)
SendsEvents(w, i) == w.name = "user" /\ w.url = i /\ w.kind # "scheduled"

(* What a list of writes replaces or disables, and what it puts in place. *)
Writes(t) == {t[n] : n \in DOMAIN t}
Targets(t) == {w.id : w \in {other \in Writes(t) : other.do # "post"}}
Payloads(t) == {w.payload : w \in {other \in Writes(t) : other.do # "disable"}}
OneWriteEach(t) ==
    \A m, n \in DOMAIN t :
        m # n /\ t[m].do # "post" /\ t[n].do # "post" => t[m].id # t[n].id

Alone(c) == Running(c) /\ calls[c].alone

(* Workflows that take part in what Effective says. *)
TakesPart(w, i) == w.enabled /\ (w.name \in ManagedNames \/ (w.url = i /\ w.kind # "scheduled"))

-----------------------------------------------------------------------------
(* The first and the n-th of some identifiers. *)
Below == {p \in Nat \X Nat : p[1] < p[2]}

LEMMA BelowWellFounded == IsWellFoundedOn(Below, Nat)
<1>1. IsWellFoundedOn(OpToRel(<, Nat), Nat)
  BY NatLessThanWellFounded
<1>2. OpToRel(<, Nat) = Below
  BY Zenon DEF OpToRel, Below
<1> QED BY <1>1, <1>2, Zenon

LEMMA FirstOfMember ==
    ASSUME NEW ids \in SUBSET Ids, ids # {}
    PROVE  FirstOf(ids) \in ids
<1>1. ids \subseteq Nat
  BY ProvisioningAssumption DEF Ids
<1>2. PICK id \in ids : \A other \in ids : ~(<<other, id>> \in Below)
  BY <1>1, WFMin, BelowWellFounded
<1>3. ASSUME NEW other \in ids PROVE id <= other
  <2>1. other \in Nat /\ id \in Nat
    BY <1>1
  <2>2. other < id => <<other, id>> \in Below
    BY <2>1 DEF Below
  <2> QED BY <1>2, <2>1, <2>2
<1> QED BY <1>3 DEF FirstOf

LEMMA IdsFinite ==
    ASSUME NEW ids \in SUBSET Ids
    PROVE  IsFiniteSet(ids) /\ Cardinality(ids) \in Nat
<1>1. IsFiniteSet(Ids)
  BY ProvisioningAssumption, FS_Interval DEF Ids
<1>2. IsFiniteSet(ids)
  BY <1>1, FS_Subset
<1> QED BY <1>2, FS_CardinalityType

LEMMA PositionBound ==
    ASSUME NEW ids \in SUBSET Ids, NEW id \in ids
    PROVE  Position(ids, id) \in 1..Cardinality(ids)
<1> DEFINE upTo == {other \in ids : other <= id}
<1>0. id \in Nat
  BY ProvisioningAssumption DEF Ids
<1>1. upTo \in SUBSET ids /\ upTo \in SUBSET Ids /\ id \in upTo
  <2>1. id <= id
    BY <1>0
  <2> QED BY <2>1
<1>2. IsFiniteSet(ids) /\ IsFiniteSet(upTo) /\ Cardinality(ids) \in Nat /\ Cardinality(upTo) \in Nat
  BY <1>1, IdsFinite
<1>3. Cardinality(upTo) <= Cardinality(ids)
  BY <1>1, <1>2, FS_Subset
<1>4. Cardinality(upTo) # 0
  BY <1>1, <1>2, FS_EmptySet
<1> QED BY <1>2, <1>3, <1>4 DEF Position

LEMMA PositionsDiffer ==
    ASSUME NEW ids \in SUBSET Ids, NEW low \in ids, NEW high \in ids, low < high
    PROVE  Position(ids, low) # Position(ids, high)
<1> DEFINE lows == {other \in ids : other <= low}
           highs == {other \in ids : other <= high}
<1>1. ids \subseteq Nat
  BY ProvisioningAssumption DEF Ids
<1>2. ASSUME NEW other \in ids, other <= low PROVE other <= high
  <2>1. other \in Nat /\ low \in Nat /\ high \in Nat
    BY <1>1
  <2> QED BY <1>2, <2>1
<1>3. high \in highs /\ high \notin lows
  <2>1. low \in Nat /\ high \in Nat
    BY <1>1
  <2> QED BY <2>1
<1>4. lows \in SUBSET highs
  BY <1>2
<1>5. IsFiniteSet(highs)
  BY IdsFinite
<1>6. Cardinality(lows) # Cardinality(highs)
  BY <1>3, <1>4, <1>5, FS_Subset
<1> QED BY <1>6 DEF Position

LEMMA PositionsTaken ==
    ASSUME NEW ids \in SUBSET Ids, NEW n \in 1..Cardinality(ids)
    PROVE  \E id \in ids : Position(ids, id) = n
<1> DEFINE f == [id \in ids |-> Position(ids, id)]
           places == 1..Cardinality(ids)
<1>1. Cardinality(ids) \in Nat /\ IsFiniteSet(ids)
  BY IdsFinite
<1>2. f \in [ids -> places]
  BY PositionBound
<1>3. \A x, y \in ids : f[x] = f[y] => x = y
  <2> SUFFICES ASSUME NEW x \in ids, NEW y \in ids, x # y PROVE f[x] # f[y]
    OBVIOUS
  <2>1. x < y \/ y < x
    BY ProvisioningAssumption DEF Ids
  <2>2. Position(ids, x) # Position(ids, y)
    BY <2>1, PositionsDiffer
  <2> QED BY <2>2
<1>4. IsFiniteSet(places) /\ Cardinality(places) = Cardinality(ids)
  BY <1>1, FS_Interval
<1> HIDE DEF f
<1>5. f \in Injection(ids, places)
  BY <1>2, <1>3 DEF Injection, IsInjective
<1>6. f \in Surjection(ids, places)
  BY <1>4, <1>5, FS_Injection
<1>7. \E id \in ids : f[id] = n
  BY <1>6 DEF Surjection
<1> QED BY <1>7 DEF f
-----------------------------------------------------------------------------
(* Workflows and payloads. *)
Listings == [Ids -> Workflow \cup {None, Deleted}]

LEMMA WorkflowFacts ==
    /\ \A w \in Workflow : /\ w # None /\ w # Deleted /\ w.name \in ManagedNames \cup {"user"}
                           /\ w.enabled \in BOOLEAN
    /\ None # Deleted /\ None.name = "none" /\ Deleted.name = "deleted"
    /\ "user" \notin ManagedNames /\ "none" \notin ManagedNames /\ "deleted" \notin ManagedNames
<1>1. \A w \in Workflow : w.name \in ManagedNames \cup {"user"} /\ w.enabled \in BOOLEAN
  BY DEF Workflow
<1>2. None.name = "none" /\ Deleted.name = "deleted"
  BY DEF None, Deleted
<1>3. "user" \notin ManagedNames /\ "none" \notin ManagedNames /\ "deleted" \notin ManagedNames
  BY DEF ManagedNames
<1> QED BY <1>1, <1>2, <1>3

LEMMA PresentFacts ==
    ASSUME NEW list \in Listings
    PROVE  /\ Present(list) \subseteq Ids
           /\ \A id \in Ids : id \in Present(list) <=> list[id] \in Workflow
           /\ \A id \in Ids \ Present(list) : list[id] \in {None, Deleted}
<1>1. \A id \in Ids : list[id] \in Workflow \cup {None, Deleted}
  BY DEF Listings
<1> QED BY <1>1, WorkflowFacts DEF Present

LEMMA NamedFacts ==
    ASSUME NEW list \in Listings, NEW names
    PROVE  /\ Named(list, names) \in SUBSET Ids
           /\ Named(list, names) # {} => FirstOf(Named(list, names)) \in Named(list, names)
           /\ \A id \in Named(list, names) : list[id] \in Workflow /\ list[id].name \in names
<1>1. Named(list, names) \in SUBSET Ids
  BY PresentFacts DEF Named
<1>2. \A id \in Named(list, names) : list[id] \in Workflow /\ list[id].name \in names
  BY PresentFacts DEF Named
<1> QED BY <1>1, <1>2, FirstOfMember

LEMMA EnabledFacts ==
    ASSUME NEW name \in ManagedNames, NEW url \in Slugs \cup {NoUrl}, NEW secret \in Nat,
           NEW kind \in Kinds
    PROVE  /\ Enabled(name, url, secret, kind) \in Workflow
           /\ Enabled(name, url, secret, kind).name = name
           /\ Enabled(name, url, secret, kind).enabled
  BY DEF Enabled, Workflow

LEMMA PayloadFacts ==
    ASSUME NEW i \in Slugs, NEW s \in ValidSettings
    PROVE  /\ AutomaticPayload(i, s) \in Workflow /\ AutomaticPayload(i, s).name = "managed"
           /\ ManualPayload(i, s) \in Workflow /\ ManualPayload(i, s).name = "manual"
           /\ RequestPayload \in Workflow /\ RequestPayload.name = "ocr request"
           /\ CompletePayload \in Workflow /\ CompletePayload.name = "ocr complete"
           /\ \A w \in Expected(i, s) : w \in Workflow /\ w.enabled /\ w.name \in ManagedNames \ {"legacy"}
<1>1. s.secret \in Nat
  BY DEF ValidSettings
<1>4. {"managed", "manual", "ocr request", "ocr complete"} \subseteq ManagedNames \ {"legacy"}
  BY DEF ManagedNames
<1>5. AutomaticPayload(i, s) \in Workflow /\ AutomaticPayload(i, s).name = "managed"
      /\ AutomaticPayload(i, s).enabled
  <2> DEFINE kind == CASE s.ocrRequest -> "ocr-complete, unmark"
                       [] s.ocr /\ ~s.ocrRequest -> "ocr-complete"
                       [] s.mode = "tag_added" -> "tag-added"
                       [] OTHER -> "document-added"
  <2>1. AutomaticPayload(i, s) = Enabled("managed", i, s.secret, kind)
    BY DEF AutomaticPayload
  <2>2. kind \in Kinds
    BY DEF Kinds
  <2>3. "managed" \in ManagedNames /\ i \in Slugs \cup {NoUrl}
    BY <1>4
  <2> HIDE DEF kind
  <2>4. /\ Enabled("managed", i, s.secret, kind) \in Workflow
        /\ Enabled("managed", i, s.secret, kind).name = "managed"
        /\ Enabled("managed", i, s.secret, kind).enabled
    BY <1>1, <2>2, <2>3, EnabledFacts
  <2> QED BY <2>1, <2>4
<1>6. ManualPayload(i, s) \in Workflow /\ ManualPayload(i, s).name = "manual"
      /\ ManualPayload(i, s).enabled
  <2>1. "manual" \in Kinds
    BY DEF Kinds
  <2>2. ManualPayload(i, s) = Enabled("manual", i, s.secret, "manual")
    BY DEF ManualPayload
  <2>3. /\ Enabled("manual", i, s.secret, "manual") \in Workflow
        /\ Enabled("manual", i, s.secret, "manual").name = "manual"
        /\ Enabled("manual", i, s.secret, "manual").enabled
    BY <1>1, <1>4, <2>1, EnabledFacts
  <2> QED BY <2>2, <2>3
<1>7. /\ RequestPayload \in Workflow /\ RequestPayload.name = "ocr request" /\ RequestPayload.enabled
      /\ CompletePayload \in Workflow /\ CompletePayload.name = "ocr complete" /\ CompletePayload.enabled
  <2>1. "request OCR" \in Kinds /\ "complete OCR" \in Kinds /\ 0 \in Nat
        /\ "ocr request" \in ManagedNames /\ "ocr complete" \in ManagedNames
    BY <1>4 DEF Kinds
  <2>2. RequestPayload \in Workflow /\ RequestPayload.name = "ocr request" /\ RequestPayload.enabled
    BY <2>1, EnabledFacts DEF RequestPayload
  <2>3. CompletePayload \in Workflow /\ CompletePayload.name = "ocr complete" /\ CompletePayload.enabled
    BY <2>1, EnabledFacts DEF CompletePayload
  <2> QED BY <2>2, <2>3
<1> QED BY <1>4, <1>5, <1>6, <1>7 DEF Expected

-----------------------------------------------------------------------------
(* Lists of writes. *)
LEMMA ConcatWrites ==
    ASSUME NEW s \in Seq(WriteType), NEW t \in Seq(WriteType)
    PROVE  /\ s \o t \in Seq(WriteType)
           /\ Writes(s \o t) = Writes(s) \cup Writes(t)
           /\ Targets(s \o t) = Targets(s) \cup Targets(t)
           /\ Payloads(s \o t) = Payloads(s) \cup Payloads(t)
           /\ OneWriteEach(s) /\ OneWriteEach(t) /\ Targets(s) \cap Targets(t) = {}
                => OneWriteEach(s \o t)
<1>1. s \o t \in Seq(WriteType) /\ Len(s \o t) = Len(s) + Len(t)
  OBVIOUS
<1>2. \A n \in DOMAIN s : n \in DOMAIN (s \o t) /\ (s \o t)[n] = s[n]
  OBVIOUS
<1>3. \A n \in DOMAIN t : n + Len(s) \in DOMAIN (s \o t) /\ (s \o t)[n + Len(s)] = t[n]
  OBVIOUS
<1>4. \A n \in DOMAIN (s \o t) :
         \/ n \in DOMAIN s /\ (s \o t)[n] = s[n]
         \/ n - Len(s) \in DOMAIN t /\ (s \o t)[n] = t[n - Len(s)]
  OBVIOUS
<1>5. Writes(s \o t) = Writes(s) \cup Writes(t)
  <2>1. Writes(s \o t) \subseteq Writes(s) \cup Writes(t)
    BY <1>4 DEF Writes
  <2>2. Writes(s) \subseteq Writes(s \o t)
    BY <1>2 DEF Writes
  <2>3. Writes(t) \subseteq Writes(s \o t)
    BY <1>3 DEF Writes
  <2> QED BY <2>1, <2>2, <2>3
<1>6. Targets(s \o t) = Targets(s) \cup Targets(t) /\ Payloads(s \o t) = Payloads(s) \cup Payloads(t)
  BY <1>5 DEF Targets, Payloads
<1>7. ASSUME OneWriteEach(s), OneWriteEach(t), Targets(s) \cap Targets(t) = {}
      PROVE  OneWriteEach(s \o t)
  <2> SUFFICES ASSUME NEW m \in DOMAIN (s \o t), NEW n \in DOMAIN (s \o t), m # n,
                      (s \o t)[m].do # "post", (s \o t)[n].do # "post"
               PROVE  (s \o t)[m].id # (s \o t)[n].id
    BY DEF OneWriteEach
  <2>1. \A k \in DOMAIN s : s[k].do # "post" => s[k].id \in Targets(s)
    BY DEF Targets, Writes
  <2>2. \A k \in DOMAIN t : t[k].do # "post" => t[k].id \in Targets(t)
    BY DEF Targets, Writes
  <2>3. CASE m \in DOMAIN s /\ (s \o t)[m] = s[m] /\ n \in DOMAIN s /\ (s \o t)[n] = s[n]
    BY <1>7, <2>3 DEF OneWriteEach
  <2>4. CASE /\ m - Len(s) \in DOMAIN t /\ (s \o t)[m] = t[m - Len(s)]
             /\ n - Len(s) \in DOMAIN t /\ (s \o t)[n] = t[n - Len(s)]
    <3>1. m - Len(s) # n - Len(s)
      BY <1>1
    <3> QED BY <1>7, <2>4, <3>1 DEF OneWriteEach
  <2>5. CASE /\ m \in DOMAIN s /\ (s \o t)[m] = s[m]
             /\ n - Len(s) \in DOMAIN t /\ (s \o t)[n] = t[n - Len(s)]
    BY <1>7, <2>1, <2>2, <2>5
  <2>6. CASE /\ n \in DOMAIN s /\ (s \o t)[n] = s[n]
             /\ m - Len(s) \in DOMAIN t /\ (s \o t)[m] = t[m - Len(s)]
    BY <1>7, <2>1, <2>2, <2>6
  <2> QED BY <1>4, <2>3, <2>4, <2>5, <2>6
<1> QED BY <1>1, <1>5, <1>6, <1>7

LEMMA SingleWrite ==
    ASSUME NEW w \in WriteType
    PROVE  /\ <<w>> \in Seq(WriteType) /\ Writes(<<w>>) = {w} /\ OneWriteEach(<<w>>)
           /\ Targets(<<w>>) = IF w.do = "post" THEN {} ELSE {w.id}
           /\ Payloads(<<w>>) = IF w.do = "disable" THEN {} ELSE {w.payload}
<1>1. DOMAIN <<w>> = {1} /\ <<w>>[1] = w
  OBVIOUS
<1>2. Writes(<<w>>) = {w} /\ OneWriteEach(<<w>>)
  BY <1>1 DEF Writes, OneWriteEach
<1>3. Targets(<<w>>) = IF w.do = "post" THEN {} ELSE {w.id}
  BY <1>2 DEF Targets
<1>4. Payloads(<<w>>) = IF w.do = "disable" THEN {} ELSE {w.payload}
  BY <1>2 DEF Payloads
<1> QED BY <1>2, <1>3, <1>4

LEMMA NoWrite ==
    /\ << >> \in Seq(WriteType) /\ Writes(<< >>) = {} /\ OneWriteEach(<< >>)
    /\ Targets(<< >>) = {} /\ Payloads(<< >>) = {}
<1>1. Writes(<< >>) = {} /\ OneWriteEach(<< >>)
  BY DEF Writes, OneWriteEach
<1> QED BY <1>1 DEF Targets, Payloads

(* What the plan does about the workflows of some names. *)
Part(list, names, payload, wanted) ==
    IF wanted THEN Upsert(list, names, payload) ELSE Disable(list, names)

LEMMA PartWrites ==
    ASSUME NEW list \in Listings, NEW names, NEW payload \in Workflow, NEW wanted \in BOOLEAN,
           NEW P, P = Part(list, names, payload, wanted)
    PROVE  /\ P \in Seq(WriteType) /\ OneWriteEach(P)
           /\ \A w \in Writes(P) :
                 /\ w.do = "disable" <=> ~wanted
                 /\ wanted => w.payload = payload
                 /\ w.do = "post" => Named(list, names) = {} /\ w.id = 0
                 /\ w.do # "post" => w.id = FirstOf(Named(list, names)) /\ w.id \in Named(list, names)
           /\ (wanted => Payloads(P) = {payload}) /\ (~wanted => Payloads(P) = {})
           /\ Targets(P) \subseteq Named(list, names)
           /\ \A id \in Named(list, names) :
                 (\A other \in Named(list, names) : other = id) /\ (wanted \/ list[id].enabled)
                     => id \in Targets(P)
           /\ ~wanted /\ (\A id \in Named(list, names) : ~list[id].enabled) => Writes(P) = {}
<1> DEFINE found == Named(list, names)
           first == FirstOf(found)
<1>0. found \in SUBSET Ids /\ (found # {} => first \in found)
  BY NamedFacts
<1>1. ASSUME wanted, found = {}
      PROVE  \E w \in WriteType : P = <<w>> /\ w.do = "post" /\ w.payload = payload /\ w.id = 0
  BY <1>1 DEF Part, Upsert, Write, WriteType
<1>2. ASSUME wanted, found # {}
      PROVE  \E w \in WriteType : P = <<w>> /\ w.do = "put" /\ w.payload = payload /\ w.id = first
  BY <1>0, <1>2 DEF Part, Upsert, Write, WriteType
<1>3. ASSUME ~wanted, found # {}, list[first].enabled
      PROVE  \E w \in WriteType : P = <<w>> /\ w.do = "disable" /\ w.id = first
  BY <1>0, <1>3 DEF Part, Disable, Write, WriteType
<1>4. CASE wanted
  <2>1. CASE found = {}
    <3>1. PICK w \in WriteType : P = <<w>> /\ w.do = "post" /\ w.payload = payload /\ w.id = 0
      BY <1>1, <1>4, <2>1
    <3> QED BY ZenonT(30), <1>4, <2>1, <3>1, SingleWrite
  <2>2. CASE found # {}
    <3>1. PICK w \in WriteType : P = <<w>> /\ w.do = "put" /\ w.payload = payload /\ w.id = first
      BY <1>2, <1>4, <2>2
    <3>2. /\ P \in Seq(WriteType) /\ OneWriteEach(P) /\ Writes(P) = {w}
          /\ Targets(P) = {first} /\ Payloads(P) = {payload}
      BY <3>1, SingleWrite
    <3>3. first \in found
      BY <1>0, <2>2
    <3> QED BY <1>4, <3>1, <3>2, <3>3
  <2> QED BY <2>1, <2>2
<1>5. CASE ~wanted /\ found # {} /\ list[first].enabled
  <2>1. PICK w \in WriteType : P = <<w>> /\ w.do = "disable" /\ w.id = first
    BY <1>3, <1>5
  <2>2. /\ P \in Seq(WriteType) /\ OneWriteEach(P) /\ Writes(P) = {w}
        /\ Targets(P) = {first} /\ Payloads(P) = {}
    BY <2>1, SingleWrite
  <2>3. first \in found
    BY <1>0, <1>5
  <2>4. \E id \in found : list[id].enabled
    BY <1>5, <2>3
  <2> QED BY <1>5, <2>1, <2>2, <2>3, <2>4
<1>6. CASE ~wanted /\ ~(found # {} /\ list[first].enabled)
  <2>1. P = << >>
    BY <1>6 DEF Part, Disable
  <2>2. /\ P \in Seq(WriteType) /\ OneWriteEach(P) /\ Writes(P) = {}
        /\ Targets(P) = {} /\ Payloads(P) = {}
    BY <2>1, NoWrite
  <2> QED BY <1>0, <1>6, <2>2
<1> QED BY <1>4, <1>5, <1>6

LEMMA UpsertPayload ==
    ASSUME NEW list \in Listings, NEW names, NEW payload \in Workflow
    PROVE  Payloads(Upsert(list, names, payload)) = {payload}
<1>1. Named(list, names) # {} => FirstOf(Named(list, names)) \in Ids
  BY NamedFacts
<1>2. PICK w \in WriteType :
          Upsert(list, names, payload) = <<w>> /\ w.do # "disable" /\ w.payload = payload
  BY <1>1 DEF Upsert, Write, WriteType
<1> QED BY <1>2, SingleWrite

LEMMA PartSummary ==
    ASSUME NEW list \in Listings, NEW names, NEW payload \in Workflow, NEW wanted \in BOOLEAN
    PROVE  LET P == Part(list, names, payload, wanted)
           IN /\ P \in Seq(WriteType) /\ OneWriteEach(P) /\ Targets(P) \subseteq Named(list, names)
              /\ (wanted => Payloads(P) = {payload}) /\ (~wanted => Payloads(P) = {})
<1> DEFINE P == Part(list, names, payload, wanted)
<1>1. P = Part(list, names, payload, wanted)
  OBVIOUS
<1> HIDE DEF P
<1>2. P \in Seq(WriteType) /\ OneWriteEach(P)
  BY <1>1, PartWrites
<1>3. Targets(P) \subseteq Named(list, names)
  BY <1>1, PartWrites
<1>4. ASSUME wanted PROVE Payloads(P) = {payload}
  <2>1. P = Upsert(list, names, payload)
    BY <1>1, <1>4 DEF Part
  <2> QED BY <2>1, UpsertPayload
<1>5. ~wanted => Payloads(P) = {}
  BY <1>1, PartWrites
<1> QED BY <1>2, <1>3, <1>4, <1>5 DEF P

LEMMA ConflictWrites ==
    ASSUME NEW list \in Listings, NEW i \in Slugs, NEW P, P = DisableConflicts(list, i)
    PROVE  /\ P \in Seq(WriteType) /\ OneWriteEach(P)
           /\ \A w \in Writes(P) : w.do = "disable" /\ w.id \in Conflicts(list, i)
           /\ Payloads(P) = {}
           /\ Targets(P) = Conflicts(list, i)
<1> DEFINE ids == Conflicts(list, i)
           nth(n) == CHOOSE id \in ids : Position(ids, id) = n
<1>0. ids \in SUBSET Ids /\ Cardinality(ids) \in Nat
  <2>1. ids \in SUBSET Ids
    BY DEF Conflicts, Present
  <2> QED BY <2>1, IdsFinite
<1>1. \A n \in 1..Cardinality(ids) : nth(n) \in ids /\ Position(ids, nth(n)) = n
  BY <1>0, PositionsTaken
<1>2. \A id \in ids : Position(ids, id) \in 1..Cardinality(ids) /\ nth(Position(ids, id)) = id
  <2> SUFFICES ASSUME NEW id \in ids
               PROVE  Position(ids, id) \in 1..Cardinality(ids) /\ nth(Position(ids, id)) = id
    OBVIOUS
  <2>1. Position(ids, id) \in 1..Cardinality(ids)
    BY <1>0, PositionBound
  <2>2. nth(Position(ids, id)) \in ids /\ Position(ids, nth(Position(ids, id))) = Position(ids, id)
    BY <1>1, <2>1
  <2>3. ids \subseteq Nat
    BY <1>0, ProvisioningAssumption DEF Ids
  <2>4. ~(id < nth(Position(ids, id))) /\ ~(nth(Position(ids, id)) < id)
    BY <1>0, <2>2, PositionsDiffer
  <2> QED BY <2>1, <2>2, <2>3, <2>4
<1>3. /\ DOMAIN P = 1..Cardinality(ids)
      /\ \A n \in DOMAIN P : P[n] = Write("disable", nth(n), None)
      /\ P = [n \in 1..Cardinality(ids) |-> Write("disable", nth(n), None)]
  BY DEF DisableConflicts
<1> HIDE DEF nth
<1>4. \A n \in DOMAIN P : /\ P[n].do = "disable" /\ P[n].id = nth(n) /\ P[n] \in WriteType
                          /\ nth(n) \in ids
  BY <1>0, <1>1, <1>3 DEF Write, WriteType
<1>5. P \in Seq(WriteType)
  BY <1>0, <1>3, <1>4
<1>6. OneWriteEach(P)
  BY <1>1, <1>3, <1>4 DEF OneWriteEach
<1>7. \A w \in Writes(P) : w.do = "disable" /\ w.id \in ids
  BY <1>4 DEF Writes
<1>8. \A id \in ids : \E w \in Writes(P) : w.do = "disable" /\ w.id = id
  BY <1>2, <1>3, <1>4 DEF Writes
<1> QED BY <1>5, <1>6, <1>7, <1>8 DEF Targets, Payloads

-----------------------------------------------------------------------------
(* The plan. *)
RequestNames == {"ocr request"}
CompleteNames == {"ocr complete"}
AutomaticNames == {"managed"}
ManualNames == {"manual", "legacy"}

RequestPart(list, s) == Part(list, RequestNames, RequestPayload, s.ocrRequest)
CompletePart(list, s) == Part(list, CompleteNames, CompletePayload, s.ocrRequest)
AutomaticPart(list, i, s) == Part(list, AutomaticNames, AutomaticPayload(i, s), TRUE)
ManualPart(list, i, s) == Part(list, ManualNames, ManualPayload(i, s), s.manual)

LEMMA PlanIsParts ==
    ASSUME NEW list, NEW i, NEW s \in ValidSettings
    PROVE  Plan(list, i, s)
             = (((RequestPart(list, s) \o CompletePart(list, s)) \o DisableConflicts(list, i))
                  \o AutomaticPart(list, i, s)) \o ManualPart(list, i, s)
<1>1. (s.ocr /\ s.ocrRequest) <=> s.ocrRequest
  BY DEF ValidSettings
<1> QED BY <1>1 DEF Plan, Part, RequestPart, CompletePart, AutomaticPart, ManualPart,
               RequestNames, CompleteNames, AutomaticNames, ManualNames

LEMMA PartsDisjoint ==
    ASSUME NEW list \in Listings, NEW i
    PROVE  /\ Named(list, RequestNames) \cap Named(list, CompleteNames) = {}
           /\ Named(list, AutomaticNames)
                \cap (Named(list, RequestNames) \cup Named(list, CompleteNames)) = {}
           /\ Named(list, ManualNames)
                \cap (Named(list, RequestNames) \cup Named(list, CompleteNames)
                        \cup Named(list, AutomaticNames)) = {}
           /\ Conflicts(list, i)
                \cap (Named(list, RequestNames) \cup Named(list, CompleteNames)
                        \cup Named(list, AutomaticNames) \cup Named(list, ManualNames)) = {}
  BY DEF Named, Conflicts, ManagedNames, RequestNames, CompleteNames, AutomaticNames, ManualNames

LEMMA PlanWrites ==
    ASSUME NEW list \in Listings, NEW i \in Slugs, NEW s \in ValidSettings,
           NEW P, P = Plan(list, i, s)
    PROVE  /\ P \in Seq(WriteType) /\ OneWriteEach(P)
           /\ Writes(P) = Writes(RequestPart(list, s)) \cup Writes(CompletePart(list, s))
                \cup Writes(DisableConflicts(list, i)) \cup Writes(AutomaticPart(list, i, s))
                \cup Writes(ManualPart(list, i, s))
           /\ Targets(P) = Targets(RequestPart(list, s)) \cup Targets(CompletePart(list, s))
                \cup Targets(DisableConflicts(list, i)) \cup Targets(AutomaticPart(list, i, s))
                \cup Targets(ManualPart(list, i, s))
           /\ Payloads(P) = Expected(i, s)
<1> DEFINE A == RequestPart(list, s)
           B == CompletePart(list, s)
           C == DisableConflicts(list, i)
           D == AutomaticPart(list, i, s)
           M == ManualPart(list, i, s)
<1>0. /\ s.ocrRequest \in BOOLEAN /\ s.manual \in BOOLEAN /\ TRUE \in BOOLEAN
      /\ RequestPayload \in Workflow /\ CompletePayload \in Workflow
      /\ AutomaticPayload(i, s) \in Workflow /\ ManualPayload(i, s) \in Workflow
  BY PayloadFacts DEF ValidSettings
<1>1. /\ A \in Seq(WriteType) /\ OneWriteEach(A) /\ Targets(A) \subseteq Named(list, RequestNames)
      /\ (s.ocrRequest => Payloads(A) = {RequestPayload}) /\ (~s.ocrRequest => Payloads(A) = {})
  BY <1>0, PartSummary DEF RequestPart
<1>2. /\ B \in Seq(WriteType) /\ OneWriteEach(B) /\ Targets(B) \subseteq Named(list, CompleteNames)
      /\ (s.ocrRequest => Payloads(B) = {CompletePayload}) /\ (~s.ocrRequest => Payloads(B) = {})
  BY <1>0, PartSummary DEF CompletePart
<1>3. /\ C \in Seq(WriteType) /\ OneWriteEach(C) /\ Targets(C) = Conflicts(list, i)
      /\ Payloads(C) = {}
  BY ConflictWrites
<1>4. /\ D \in Seq(WriteType) /\ OneWriteEach(D) /\ Targets(D) \subseteq Named(list, AutomaticNames)
      /\ Payloads(D) = {AutomaticPayload(i, s)}
  BY <1>0, PartSummary DEF AutomaticPart
<1>5. /\ M \in Seq(WriteType) /\ OneWriteEach(M)
      /\ Targets(M) \subseteq Named(list, ManualNames)
      /\ (s.manual => Payloads(M) = {ManualPayload(i, s)}) /\ (~s.manual => Payloads(M) = {})
  BY <1>0, PartSummary DEF ManualPart
<1>6. P = (((A \o B) \o C) \o D) \o M
  BY PlanIsParts
<1> HIDE DEF A, B, C, D, M
<1>names. /\ Targets(A) \cap Targets(B) = {} /\ (Targets(A) \cup Targets(B)) \cap Targets(C) = {}
          /\ (Targets(A) \cup Targets(B) \cup Targets(C)) \cap Targets(D) = {}
          /\ (Targets(A) \cup Targets(B) \cup Targets(C) \cup Targets(D)) \cap Targets(M) = {}
  BY <1>1, <1>2, <1>3, <1>4, <1>5, PartsDisjoint
<1>7. /\ A \o B \in Seq(WriteType) /\ OneWriteEach(A \o B)
      /\ Writes(A \o B) = Writes(A) \cup Writes(B) /\ Targets(A \o B) = Targets(A) \cup Targets(B)
      /\ Payloads(A \o B) = Payloads(A) \cup Payloads(B)
  BY <1>1, <1>2, <1>names, ConcatWrites
<1> DEFINE AB == A \o B
           ABC == AB \o C
           ABCD == ABC \o D
<1>8. /\ ABC \in Seq(WriteType) /\ OneWriteEach(ABC)
      /\ Writes(ABC) = Writes(AB) \cup Writes(C) /\ Targets(ABC) = Targets(AB) \cup Targets(C)
      /\ Payloads(ABC) = Payloads(AB) \cup Payloads(C)
  <2>1. Targets(AB) \cap Targets(C) = {}
    BY <1>names, <1>7
  <2> QED BY <1>3, <1>7, <2>1, ConcatWrites
<1>9. /\ ABCD \in Seq(WriteType) /\ OneWriteEach(ABCD)
      /\ Writes(ABCD) = Writes(ABC) \cup Writes(D) /\ Targets(ABCD) = Targets(ABC) \cup Targets(D)
      /\ Payloads(ABCD) = Payloads(ABC) \cup Payloads(D)
  <2>1. Targets(ABC) \cap Targets(D) = {}
    BY <1>names, <1>7, <1>8
  <2> QED BY <1>4, <1>8, <2>1, ConcatWrites
<1>10. /\ P \in Seq(WriteType) /\ OneWriteEach(P)
       /\ Writes(P) = Writes(ABCD) \cup Writes(M) /\ Targets(P) = Targets(ABCD) \cup Targets(M)
       /\ Payloads(P) = Payloads(ABCD) \cup Payloads(M)
  <2>1. Targets(ABCD) \cap Targets(M) = {}
    BY <1>names, <1>7, <1>8, <1>9
  <2>2. /\ ABCD \o M \in Seq(WriteType) /\ OneWriteEach(ABCD \o M)
        /\ Writes(ABCD \o M) = Writes(ABCD) \cup Writes(M)
        /\ Targets(ABCD \o M) = Targets(ABCD) \cup Targets(M)
        /\ Payloads(ABCD \o M) = Payloads(ABCD) \cup Payloads(M)
    BY <1>5, <1>9, <2>1, ConcatWrites
  <2> QED BY <1>6, <2>2
<1>11. Payloads(P) = Expected(i, s)
  BY <1>0, <1>1, <1>2, <1>3, <1>4, <1>5, <1>7, <1>8, <1>9, <1>10 DEF Expected
<1> USE DEF A, B, C, D, M
<1> QED BY <1>7, <1>8, <1>9, <1>10, <1>11

-----------------------------------------------------------------------------
(* What the plan promises for the workflows it was made for.               *)
PartRecord(names, payload, wanted) == [names |-> names, payload |-> payload, wanted |-> wanted]
Parts(i, s) ==
    {PartRecord(RequestNames, RequestPayload, s.ocrRequest),
     PartRecord(CompleteNames, CompletePayload, s.ocrRequest),
     PartRecord(AutomaticNames, AutomaticPayload(i, s), TRUE),
     PartRecord(ManualNames, ManualPayload(i, s), s.manual)}
PartOf(list, p) == Part(list, p.names, p.payload, p.wanted)

LEMMA PartsFacts ==
    ASSUME NEW i \in Slugs, NEW s \in ValidSettings
    PROVE  /\ \A p \in Parts(i, s) :
                 /\ p.wanted \in BOOLEAN /\ p.names \subseteq ManagedNames
                 /\ p.payload \in Workflow /\ p.payload.enabled
                 /\ p.payload.name \in p.names \ {"legacy"}
                 /\ p.wanted => p.payload \in Expected(i, s)
                 /\ ~p.wanted => \A e \in Expected(i, s) : e.name \notin p.names
                 /\ p.names \in {RequestNames, CompleteNames, AutomaticNames, ManualNames}
           /\ \A name \in ManagedNames : \E p \in Parts(i, s) : name \in p.names
<1> DEFINE R == PartRecord(RequestNames, RequestPayload, s.ocrRequest)
           C == PartRecord(CompleteNames, CompletePayload, s.ocrRequest)
           A == PartRecord(AutomaticNames, AutomaticPayload(i, s), TRUE)
           M == PartRecord(ManualNames, ManualPayload(i, s), s.manual)
           Good(p) == /\ p.wanted \in BOOLEAN /\ p.names \subseteq ManagedNames
                      /\ p.payload \in Workflow /\ p.payload.enabled
                      /\ p.payload.name \in p.names \ {"legacy"}
                      /\ p.wanted => p.payload \in Expected(i, s)
                      /\ ~p.wanted => \A e \in Expected(i, s) : e.name \notin p.names
                      /\ p.names \in {RequestNames, CompleteNames, AutomaticNames, ManualNames}
<1>1. /\ R.names = RequestNames /\ R.payload = RequestPayload /\ R.wanted = s.ocrRequest
      /\ C.names = CompleteNames /\ C.payload = CompletePayload /\ C.wanted = s.ocrRequest
      /\ A.names = AutomaticNames /\ A.payload = AutomaticPayload(i, s) /\ A.wanted = TRUE
      /\ M.names = ManualNames /\ M.payload = ManualPayload(i, s) /\ M.wanted = s.manual
  BY DEF PartRecord
<1>2. Parts(i, s) = {R, C, A, M}
  BY DEF Parts
<1> HIDE DEF R, C, A, M
<1>3. /\ s.ocrRequest \in BOOLEAN /\ s.manual \in BOOLEAN
      /\ RequestPayload \in Workflow /\ RequestPayload.name = "ocr request"
      /\ CompletePayload \in Workflow /\ CompletePayload.name = "ocr complete"
      /\ AutomaticPayload(i, s) \in Workflow /\ AutomaticPayload(i, s).name = "managed"
      /\ ManualPayload(i, s) \in Workflow /\ ManualPayload(i, s).name = "manual"
      /\ \A e \in Expected(i, s) : e.enabled
  BY PayloadFacts DEF ValidSettings
<1>4. /\ AutomaticPayload(i, s) \in Expected(i, s)
      /\ s.manual => ManualPayload(i, s) \in Expected(i, s)
      /\ s.ocrRequest => RequestPayload \in Expected(i, s) /\ CompletePayload \in Expected(i, s)
      /\ \A e \in Expected(i, s) :
            \/ e = AutomaticPayload(i, s)
            \/ s.manual /\ e = ManualPayload(i, s)
            \/ s.ocrRequest /\ e \in {RequestPayload, CompletePayload}
  BY DEF Expected
<1>5. RequestPayload.enabled /\ CompletePayload.enabled /\ AutomaticPayload(i, s).enabled
      /\ ManualPayload(i, s).enabled
  BY DEF RequestPayload, CompletePayload, AutomaticPayload, ManualPayload, Enabled
<1>6. Good(R)
  BY <1>1, <1>3, <1>4, <1>5 DEF RequestNames, ManagedNames
<1>7. Good(C)
  BY <1>1, <1>3, <1>4, <1>5 DEF CompleteNames, ManagedNames
<1>8. Good(A)
  BY <1>1, <1>3, <1>4, <1>5 DEF AutomaticNames, ManagedNames
<1>9. Good(M)
  BY <1>1, <1>3, <1>4, <1>5 DEF ManualNames, ManagedNames
<1>10. \A name \in ManagedNames : \E p \in {R, C, A, M} : name \in p.names
  BY <1>1 DEF RequestNames, CompleteNames, AutomaticNames, ManualNames, ManagedNames
<1> QED BY <1>2, <1>6, <1>7, <1>8, <1>9, <1>10

LEMMA PlanParts ==
    ASSUME NEW list \in Listings, NEW i \in Slugs, NEW s \in ValidSettings,
           NEW P, P = Plan(list, i, s)
    PROVE  /\ \A w \in Writes(P) :
                 \/ w \in Writes(DisableConflicts(list, i))
                 \/ \E p \in Parts(i, s) : w \in Writes(PartOf(list, p))
           /\ \A p \in Parts(i, s) : Targets(PartOf(list, p)) \subseteq Targets(P)
           /\ Conflicts(list, i) \subseteq Targets(P)
<1> DEFINE R == PartRecord(RequestNames, RequestPayload, s.ocrRequest)
           C == PartRecord(CompleteNames, CompletePayload, s.ocrRequest)
           A == PartRecord(AutomaticNames, AutomaticPayload(i, s), TRUE)
           M == PartRecord(ManualNames, ManualPayload(i, s), s.manual)
<1>1. /\ PartOf(list, R) = RequestPart(list, s) /\ PartOf(list, C) = CompletePart(list, s)
      /\ PartOf(list, A) = AutomaticPart(list, i, s) /\ PartOf(list, M) = ManualPart(list, i, s)
  BY DEF PartRecord, PartOf, RequestPart, CompletePart, AutomaticPart, ManualPart
<1>2. Parts(i, s) = {R, C, A, M}
  BY DEF Parts
<1> HIDE DEF R, C, A, M
<1>3. /\ Writes(P) = Writes(PartOf(list, R)) \cup Writes(PartOf(list, C))
           \cup Writes(DisableConflicts(list, i)) \cup Writes(PartOf(list, A))
           \cup Writes(PartOf(list, M))
      /\ Targets(P) = Targets(PartOf(list, R)) \cup Targets(PartOf(list, C))
           \cup Targets(DisableConflicts(list, i)) \cup Targets(PartOf(list, A))
           \cup Targets(PartOf(list, M))
  BY <1>1, PlanWrites
<1>4. Targets(DisableConflicts(list, i)) = Conflicts(list, i)
  BY ConflictWrites
<1> QED BY <1>2, <1>3, <1>4

LEMMA PartOfFacts ==
    ASSUME NEW list \in Listings, NEW i \in Slugs, NEW s \in ValidSettings, NEW p \in Parts(i, s)
    PROVE  /\ \A w \in Writes(PartOf(list, p)) :
                 /\ w.do = "disable" <=> ~p.wanted
                 /\ p.wanted => w.payload = p.payload
                 /\ w.do = "post" => Named(list, p.names) = {} /\ w.id = 0
                 /\ w.do # "post" => w.id \in Named(list, p.names)
           /\ \A id \in Named(list, p.names) :
                 (\A other \in Named(list, p.names) : other = id) /\ (p.wanted \/ list[id].enabled)
                     => id \in Targets(PartOf(list, p))
           /\ ~p.wanted /\ (\A id \in Named(list, p.names) : ~list[id].enabled)
                 => Writes(PartOf(list, p)) = {}
<1>1. p.wanted \in BOOLEAN /\ p.payload \in Workflow
  BY PartsFacts
<1> DEFINE names == p.names
           payload == p.payload
           wanted == p.wanted
<1>2. PartOf(list, p) = Part(list, names, payload, wanted)
  BY DEF PartOf
<1> HIDE DEF names, payload, wanted
<1>3. wanted \in BOOLEAN /\ payload \in Workflow
  BY <1>1 DEF wanted, payload
<1>4. /\ \A w \in Writes(PartOf(list, p)) :
                 /\ w.do = "disable" <=> ~wanted
                 /\ wanted => w.payload = payload
                 /\ w.do = "post" => Named(list, names) = {} /\ w.id = 0
                 /\ w.do # "post" => w.id = FirstOf(Named(list, names)) /\ w.id \in Named(list, names)
      /\ \A id \in Named(list, names) :
                 (\A other \in Named(list, names) : other = id) /\ (wanted \/ list[id].enabled)
                     => id \in Targets(PartOf(list, p))
      /\ ~wanted /\ (\A id \in Named(list, names) : ~list[id].enabled) => Writes(PartOf(list, p)) = {}
  BY <1>2, <1>3, PartWrites
<1> QED BY <1>4 DEF names, payload, wanted

(* No managed name is borne twice, the former and the present name of the   *)
(* manual workflow counting as one.                                         *)
UniqueNames(list) ==
    \A id, other \in Present(list) :
        list[id].name = list[other].name /\ list[id].name \in ManagedNames => id = other
LegacyAlone(list) ==
    \A id, other \in Present(list) : ~(list[id].name = "legacy" /\ list[other].name = "manual")

LEMMA OneOfEach ==
    ASSUME NEW list \in Listings, UniqueNames(list), LegacyAlone(list),
           NEW i \in Slugs, NEW s \in ValidSettings, NEW p \in Parts(i, s),
           NEW id \in Named(list, p.names), NEW other \in Named(list, p.names)
    PROVE  id = other
<1>1. /\ id \in Present(list) /\ other \in Present(list)
      /\ list[id].name \in p.names /\ list[other].name \in p.names
  BY DEF Named
<1>2. p.names \subseteq ManagedNames
      /\ p.names \in {RequestNames, CompleteNames, AutomaticNames, ManualNames}
  BY PartsFacts
<1>3. CASE list[id].name = list[other].name
  BY <1>1, <1>2, <1>3 DEF UniqueNames
<1>4. CASE list[id].name # list[other].name
  <2>0. \A a, b : ~(a # b /\ a \in RequestNames /\ b \in RequestNames)
               /\ ~(a # b /\ a \in CompleteNames /\ b \in CompleteNames)
               /\ ~(a # b /\ a \in AutomaticNames /\ b \in AutomaticNames)
    BY DEF RequestNames, CompleteNames, AutomaticNames
  <2>1. p.names = ManualNames
    BY <1>1, <1>2, <1>4, <2>0
  <2>2. \/ list[id].name = "legacy" /\ list[other].name = "manual"
        \/ list[other].name = "legacy" /\ list[id].name = "manual"
    BY <1>1, <1>4, <2>1 DEF ManualNames
  <2> QED BY <1>1, <2>2 DEF LegacyAlone
<1> QED BY <1>3, <1>4

LEMMA PlanTargets ==
    ASSUME NEW list \in Listings, NEW i \in Slugs, NEW s \in ValidSettings,
           NEW w \in Writes(Plan(list, i, s))
    PROVE  /\ w.do # "disable" => w.payload \in Workflow /\ w.payload.name \in ManagedNames \ {"legacy"}
           /\ w.do = "post" => w.id = 0
           /\ w.do # "post" =>
                 /\ w.id \in Ids /\ list[w.id] \in Workflow
                 /\ list[w.id].name \in ManagedNames \/ (w.do = "disable" /\ SendsEvents(list[w.id], i))
<1>1. CASE w \in Writes(DisableConflicts(list, i))
  <2>1. w.do = "disable" /\ w.id \in Conflicts(list, i)
    BY <1>1, ConflictWrites
  <2>2. w.id \in Ids /\ list[w.id] \in Workflow
    BY <2>1, PresentFacts DEF Conflicts
  <2>3. list[w.id].name = "user" /\ list[w.id].url = i /\ list[w.id].kind # "scheduled"
    BY <2>1, <2>2, WorkflowFacts DEF Conflicts
  <2> QED BY <2>1, <2>2, <2>3 DEF SendsEvents
<1>2. ASSUME NEW p \in Parts(i, s), w \in Writes(PartOf(list, p))
      PROVE  /\ w.do # "disable" => w.payload \in Workflow /\ w.payload.name \in ManagedNames \ {"legacy"}
             /\ w.do = "post" => w.id = 0
             /\ w.do # "post" =>
                   w.id \in Ids /\ list[w.id] \in Workflow /\ list[w.id].name \in ManagedNames
  <2>1. /\ p.wanted \in BOOLEAN /\ p.names \subseteq ManagedNames
        /\ p.payload \in Workflow /\ p.payload.name \in p.names \ {"legacy"}
    BY PartsFacts
  <2>2. /\ w.do = "disable" <=> ~p.wanted
        /\ p.wanted => w.payload = p.payload
        /\ w.do = "post" => w.id = 0
        /\ w.do # "post" => w.id \in Named(list, p.names)
    BY <1>2, PartOfFacts
  <2>3. w.do # "post" => w.id \in Ids /\ list[w.id] \in Workflow /\ list[w.id].name \in p.names
    BY <2>2, NamedFacts
  <2> QED BY <2>1, <2>2, <2>3
<1> QED BY <1>1, <1>2, PlanParts

LEMMA PlanCovers ==
    ASSUME NEW list \in Listings, UniqueNames(list), LegacyAlone(list),
           NEW i \in Slugs, NEW s \in ValidSettings,
           NEW id \in Present(list), TakesPart(list[id], i)
    PROVE  id \in Targets(Plan(list, i, s))
<1>1. CASE list[id].name \in ManagedNames
  <2>1. PICK p \in Parts(i, s) : list[id].name \in p.names
    BY <1>1, PartsFacts
  <2>2. id \in Named(list, p.names)
    BY <2>1 DEF Named
  <2>3. \A other \in Named(list, p.names) : other = id
    BY <2>2, OneOfEach
  <2>4. id \in Targets(PartOf(list, p))
    BY <2>2, <2>3, PartOfFacts DEF TakesPart
  <2> QED BY <2>4, PlanParts
<1>2. CASE list[id].name \notin ManagedNames
  <2>1. id \in Conflicts(list, i)
    BY <1>2 DEF Conflicts, TakesPart
  <2> QED BY <2>1, PlanParts
<1> QED BY <1>1, <1>2

LEMMA PlanManual ==
    ASSUME NEW list \in Listings, UniqueNames(list), LegacyAlone(list),
           NEW i \in Slugs, NEW s \in ValidSettings,
           NEW old \in Present(list), list[old].name = "legacy",
           NEW w \in Writes(Plan(list, i, s)), w.do # "disable", w.payload.name = "manual"
    PROVE  w.do # "post" /\ w.id = old
<1>1. PICK p \in Parts(i, s) : w \in Writes(PartOf(list, p))
  BY PlanParts, ConflictWrites
<1>2. /\ p.wanted /\ w.payload = p.payload
      /\ w.do = "post" => Named(list, p.names) = {}
      /\ w.do # "post" => w.id \in Named(list, p.names)
  BY <1>1, PartsFacts, PartOfFacts
<1>3. p.names = ManualNames
  <2>1. "manual" \in p.names
        /\ p.names \in {RequestNames, CompleteNames, AutomaticNames, ManualNames}
    BY <1>2, PartsFacts
  <2>2. "manual" \notin RequestNames /\ "manual" \notin CompleteNames /\ "manual" \notin AutomaticNames
    BY DEF RequestNames, CompleteNames, AutomaticNames
  <2> QED BY <2>1, <2>2
<1>4. old \in Named(list, p.names)
  BY <1>3 DEF Named, ManualNames
<1> QED BY <1>2, <1>4, OneOfEach

LEMMA PlanRepeats ==
    ASSUME NEW list \in Listings, UniqueNames(list), LegacyAlone(list),
           NEW i \in Slugs, NEW s \in ValidSettings,
           \A id \in Present(list) : TakesPart(list[id], i) => list[id] \in Expected(i, s),
           \A e \in Expected(i, s) : \E id \in Present(list) : list[id] = e,
           NEW w \in Writes(Plan(list, i, s))
    PROVE  w.do # "disable" /\ w.do # "post" /\ list[w.id] = w.payload
<1>1. Conflicts(list, i) = {}
  <2> SUFFICES ASSUME NEW id \in Conflicts(list, i) PROVE FALSE
    OBVIOUS
  <2>1. id \in Present(list) /\ TakesPart(list[id], i) /\ list[id].name \notin ManagedNames
    BY DEF Conflicts, TakesPart
  <2>2. list[id] \in Expected(i, s)
    BY <2>1
  <2> QED BY <2>1, <2>2, PayloadFacts
<1>2. PICK p \in Parts(i, s) : w \in Writes(PartOf(list, p))
  BY <1>1, PlanParts, ConflictWrites
<1>3. /\ p.wanted \in BOOLEAN /\ p.names \subseteq ManagedNames /\ p.payload.name \in p.names
      /\ p.wanted => p.payload \in Expected(i, s)
      /\ ~p.wanted => \A e \in Expected(i, s) : e.name \notin p.names
  BY PartsFacts
<1>4. CASE p.wanted
  <2>1. PICK id \in Present(list) : list[id] = p.payload
    BY <1>3, <1>4
  <2>2. id \in Named(list, p.names)
    BY <1>3, <2>1 DEF Named
  <2>3. w.do # "disable" /\ w.payload = p.payload /\ w.do # "post" /\ w.id \in Named(list, p.names)
    BY <1>2, <1>4, <2>2, PartOfFacts
  <2> QED BY <2>1, <2>2, <2>3, OneOfEach
<1>5. CASE ~p.wanted
  <2>1. ASSUME NEW id \in Named(list, p.names) PROVE ~list[id].enabled
    <3>1. id \in Present(list) /\ list[id].name \in p.names
      BY DEF Named
    <3>2. list[id].enabled => TakesPart(list[id], i)
      BY <1>3, <3>1 DEF TakesPart
    <3> QED BY <1>3, <1>5, <3>1, <3>2
  <2> QED BY <1>2, <1>5, <2>1, PartOfFacts
<1> QED BY <1>3, <1>4, <1>5

-----------------------------------------------------------------------------
(* Type correctness.                                                       *)
Interrupted(k) == [k EXCEPT !.alone = FALSE]
Touched(k, anew) == [k EXCEPT !.alone = FALSE, !.edited = @ \cup anew]
CallTable == [Calls -> CallType \cup {Idle}]

LEMMA CallFacts ==
    /\ Idle.stage = "idle" /\ Idle \notin CallType
    /\ \A k \in CallType :
          /\ k # Idle /\ k.stage \in {"list", "write"} /\ k.slug \in Slugs /\ k.settings \in Settings
          /\ k.creating \in BOOLEAN /\ k.alone \in BOOLEAN /\ k.again \in BOOLEAN
          /\ k.todo \in Seq(WriteType)
          /\ Interrupted(k) \in CallType /\ ~Interrupted(k).alone
          /\ Interrupted(k).stage = k.stage /\ Interrupted(k).slug = k.slug
          /\ Interrupted(k).settings = k.settings /\ Interrupted(k).todo = k.todo
          /\ Interrupted(k).again = k.again /\ Interrupted(k).edited = k.edited
          /\ k.edited \in SUBSET Ids
<1>1. Idle.stage = "idle"
  BY DEF Idle
<1>2. ASSUME NEW k \in CallType
      PROVE  /\ k.stage \in {"list", "write"} /\ k.slug \in Slugs /\ k.settings \in Settings
             /\ k.creating \in BOOLEAN /\ k.alone \in BOOLEAN /\ k.again \in BOOLEAN
             /\ k.todo \in Seq(WriteType) /\ k.edited \in SUBSET Ids
  BY DEF CallType
<1>3. ASSUME NEW k \in CallType
      PROVE  /\ Interrupted(k) \in CallType /\ ~Interrupted(k).alone
             /\ Interrupted(k).stage = k.stage /\ Interrupted(k).slug = k.slug
             /\ Interrupted(k).settings = k.settings /\ Interrupted(k).todo = k.todo
             /\ Interrupted(k).again = k.again /\ Interrupted(k).edited = k.edited
  BY DEF CallType, Interrupted
<1> QED BY <1>1, <1>2, <1>3

LEMMA TouchedFacts ==
    ASSUME NEW k \in CallType, NEW anew \in SUBSET Ids
    PROVE  /\ Touched(k, anew) \in CallType /\ ~Touched(k, anew).alone
           /\ Touched(k, anew).stage = k.stage /\ Touched(k, anew).slug = k.slug
           /\ Touched(k, anew).settings = k.settings /\ Touched(k, anew).todo = k.todo
           /\ Touched(k, anew).again = k.again /\ Touched(k, anew).edited = k.edited \cup anew
  BY DEF CallType, Touched

(* An edit reaches the calls that run. *)
LEMMA EditedCalls ==
    ASSUME calls \in CallTable, NEW id, NEW w, NEW anew \in SUBSET Ids, UserEdits(id, w, anew)
    PROVE  /\ calls' \in CallTable
           /\ \A c \in Calls : calls'[c] # Idle =>
                 /\ calls[c] \in CallType /\ calls'[c] = Touched(calls[c], anew)
<1>1. calls' = [c \in Calls |-> IF calls[c] # Idle THEN Touched(calls[c], anew) ELSE calls[c]]
  BY DEF UserEdits, Running, Touched
<1>2. ASSUME NEW c \in Calls, calls[c] # Idle PROVE calls[c] \in CallType
  BY <1>2 DEF CallTable
<1>3. \A c \in Calls : calls'[c] \in CallType \cup {Idle}
  BY <1>1, <1>2, TouchedFacts
<1>4. calls' \in CallTable
  BY <1>1, <1>3 DEF CallTable
<1> QED BY <1>1, <1>2, <1>4

LEMMA InterruptedCalls ==
    ASSUME calls \in CallTable, NEW others, NEW i
    PROVE  /\ Disturbed(others) \in CallTable /\ Outdated(i) \in CallTable
           /\ \A c \in Calls : calls[c] = Idle => Disturbed(others)[c] = Idle /\ Outdated(i)[c] = Idle
           /\ \A c \in Calls : calls[c] # Idle =>
                 /\ (c \in others => Disturbed(others)[c] = Interrupted(calls[c]))
                 /\ (c \notin others => Disturbed(others)[c] = calls[c])
                 /\ (calls[c].slug = i => Outdated(i)[c] = Interrupted(calls[c]))
                 /\ (calls[c].slug # i => Outdated(i)[c] = calls[c])
<1>1. \A c \in Calls :
         /\ Disturbed(others)[c] = IF calls[c] # Idle /\ c \in others THEN Interrupted(calls[c])
                                                                      ELSE calls[c]
         /\ Outdated(i)[c] = IF calls[c] # Idle /\ calls[c].slug = i THEN Interrupted(calls[c])
                                                                     ELSE calls[c]
  BY DEF Disturbed, Outdated, Interrupted, Running
<1>2. \A c \in Calls : calls[c] \in CallType \cup {Idle}
  BY DEF CallTable
<1>3. \A c \in Calls : Disturbed(others)[c] \in CallType \cup {Idle} /\ Outdated(i)[c] \in CallType \cup {Idle}
  BY <1>1, <1>2, CallFacts
<1>4. Disturbed(others) = [c \in Calls |-> Disturbed(others)[c]] /\ Outdated(i) = [c \in Calls |-> Outdated(i)[c]]
  BY DEF Disturbed, Outdated
<1>5. Disturbed(others) \in CallTable /\ Outdated(i) \in CallTable
  BY <1>3, <1>4 DEF CallTable
<1> QED BY <1>1, <1>5

LEMMA StartedFacts ==
    ASSUME NEW i \in Slugs, NEW s \in Settings, NEW creating \in BOOLEAN
    PROVE  /\ Started(i, s, creating) \in CallType /\ Started(i, s, creating).slug = i
           /\ Started(i, s, creating).settings = s /\ Started(i, s, creating).stage = "list"
           /\ Started(i, s, creating).todo = << >> /\ Started(i, s, creating).again = FALSE
           /\ Started(i, s, creating).edited = {}
  BY DEF Started, CallType

LEMMA AppliedListing ==
    ASSUME workflows \in Listings, NEW w \in WriteType, Accepted(w)
    PROVE  /\ w.do = "post" => /\ FirstOf(Unused) \in Ids /\ workflows[FirstOf(Unused)] = None
                               /\ Applied(w) = [workflows EXCEPT ![FirstOf(Unused)] = w.payload]
           /\ w.do # "post" => w.id \in Present(workflows)
           /\ w.do = "put" => Applied(w) = [workflows EXCEPT ![w.id] = w.payload]
           /\ w.do = "disable" => /\ Applied(w) = [workflows EXCEPT ![w.id].enabled = FALSE]
                                  /\ [workflows[w.id] EXCEPT !.enabled = FALSE] \in Workflow
           /\ Applied(w) \in Listings
<1>1. w.do \in {"post", "put", "disable"} /\ w.payload \in Workflow \cup {None}
  BY DEF WriteType
<1>2. w.do = "post" => FirstOf(Unused) \in Ids /\ workflows[FirstOf(Unused)] = None
  <2>1. Unused \in SUBSET Ids
    BY DEF Unused
  <2>2. w.do = "post" => FirstOf(Unused) \in Unused
    BY <2>1, FirstOfMember DEF Accepted
  <2> QED BY <2>2 DEF Unused
<1>3. w.do # "post" => w.id \in Present(workflows) /\ w.id \in Ids /\ workflows[w.id] \in Workflow
  BY PresentFacts DEF Accepted
<1>4. w.do = "post" => Applied(w) = [workflows EXCEPT ![FirstOf(Unused)] = w.payload]
  BY DEF Applied
<1>5. w.do = "put" => Applied(w) = [workflows EXCEPT ![w.id] = w.payload]
  BY DEF Applied
<1>6. w.do = "disable" => Applied(w) = [workflows EXCEPT ![w.id].enabled = FALSE]
  BY DEF Applied
<1>7. w.do = "disable" => [workflows[w.id] EXCEPT !.enabled = FALSE] \in Workflow
  BY <1>3 DEF Workflow
<1>8. Applied(w) \in Listings
  <2>1. CASE w.do = "post"
    BY <1>1, <1>2, <1>4, <2>1 DEF Listings
  <2>2. CASE w.do = "put"
    BY <1>1, <1>3, <1>5, <2>2 DEF Listings
  <2>3. CASE w.do = "disable"
    BY <1>6, <1>7, <2>3 DEF Listings
  <2> QED BY <1>1, <2>1, <2>2, <2>3
<1> QED BY <1>2, <1>3, <1>4, <1>5, <1>6, <1>7, <1>8

RowTable == [Slugs -> [state : {"free", "row", "deleted"}, settings : Settings]]

LEMMA TypeParts ==
    TypeOK <=> /\ rows \in RowTable /\ workflows \in Listings /\ calls \in CallTable
               /\ provisioned \in [Slugs -> BOOLEAN] /\ budget \in Budget
  BY DEF TypeOK, RowTable, Listings, CallTable

LEMMA SpendType ==
    ASSUME budget \in Budget, NEW what \in {"changes", "troubles"}, Spend(what)
    PROVE  budget' \in Budget
<1>1. MaxChanges \in Nat /\ MaxTroubles \in Nat
  BY ProvisioningAssumption
<1>2. budget.changes \in 0..MaxChanges /\ budget.troubles \in 0..MaxTroubles
  BY DEF Budget
<1>3. CASE what = "changes"
  <2>1. budget.changes - 1 \in 0..MaxChanges
    BY <1>1, <1>2, <1>3 DEF Spend
  <2> QED BY <1>3, <2>1 DEF Spend, Budget
<1>4. CASE what = "troubles"
  <2>1. budget.troubles - 1 \in 0..MaxTroubles
    BY <1>1, <1>2, <1>4 DEF Spend
  <2> QED BY <1>4, <2>1 DEF Spend, Budget
<1> QED BY <1>3, <1>4

LEMMA TodoFacts ==
    ASSUME NEW t \in Seq(WriteType), t # << >>
    PROVE  /\ Head(t) \in WriteType /\ Tail(t) \in Seq(WriteType)
           /\ Writes(t) = {Head(t)} \cup Writes(Tail(t))
           /\ OneWriteEach(t) => /\ OneWriteEach(Tail(t))
                                 /\ Head(t).do # "post" => Head(t).id \notin Targets(Tail(t))
<1>1. t = <<Head(t)>> \o Tail(t) /\ Head(t) \in WriteType /\ Tail(t) \in Seq(WriteType)
  OBVIOUS
<1>2. Len(t) \in Nat /\ 1 \in DOMAIN t /\ Head(t) = t[1] /\ DOMAIN t = 1..Len(t)
      /\ DOMAIN Tail(t) = 1..(Len(t) - 1) /\ \A n \in DOMAIN Tail(t) : Tail(t)[n] = t[n + 1]
  OBVIOUS
<1>3. Writes(t) = {Head(t)} \cup Writes(Tail(t))
  <2>1. <<Head(t)>> \in Seq(WriteType) /\ Writes(<<Head(t)>>) = {Head(t)}
    BY <1>1, SingleWrite
  <2>2. Writes(<<Head(t)>> \o Tail(t)) = Writes(<<Head(t)>>) \cup Writes(Tail(t))
    BY <1>1, <2>1, ConcatWrites
  <2> QED BY <1>1, <2>1, <2>2
<1>4. ASSUME OneWriteEach(t) PROVE OneWriteEach(Tail(t))
  <2> SUFFICES ASSUME NEW m \in DOMAIN Tail(t), NEW n \in DOMAIN Tail(t), m # n,
                      Tail(t)[m].do # "post", Tail(t)[n].do # "post"
               PROVE  Tail(t)[m].id # Tail(t)[n].id
    BY DEF OneWriteEach
  <2>1. m + 1 \in DOMAIN t /\ n + 1 \in DOMAIN t /\ m + 1 # n + 1
    BY <1>2
  <2> QED BY <1>2, <1>4, <2>1 DEF OneWriteEach
<1>5. ASSUME OneWriteEach(t), Head(t).do # "post" PROVE Head(t).id \notin Targets(Tail(t))
  <2> SUFFICES ASSUME NEW n \in DOMAIN Tail(t), Tail(t)[n].do # "post"
               PROVE  Tail(t)[n].id # Head(t).id
    BY DEF Targets, Writes
  <2>1. n + 1 \in DOMAIN t /\ n + 1 # 1
    BY <1>2
  <2> QED BY <1>2, <1>5, <2>1 DEF OneWriteEach
<1> QED BY <1>1, <1>3, <1>4, <1>5

LEMMA FailType ==
    ASSUME TypeOK, NEW c \in Calls, Running(c), Fail(c)
    PROVE  /\ rows' \in RowTable /\ workflows' \in Listings /\ calls' \in CallTable
           /\ provisioned' \in [Slugs -> BOOLEAN]
<1>1. /\ rows \in RowTable /\ workflows \in Listings /\ calls \in CallTable
      /\ provisioned \in [Slugs -> BOOLEAN]
  BY TypeParts
<1>2. calls[c] \in CallType /\ calls[c].slug \in Slugs
  BY <1>1, CallFacts DEF CallTable, Running
<1>3. CASE calls[c].creating
  <2>1. rows' = [rows EXCEPT ![calls[c].slug].state = "free"]
        /\ calls' = [Outdated(calls[c].slug) EXCEPT ![c] = Idle]
        /\ provisioned' = [provisioned EXCEPT ![calls[c].slug] = FALSE]
        /\ workflows' = workflows
    BY <1>3 DEF Fail
  <2>2. rows' \in RowTable
    BY <1>1, <1>2, <2>1 DEF RowTable
  <2>3. Outdated(calls[c].slug) \in CallTable
    BY <1>1, InterruptedCalls
  <2>4. calls' \in CallTable
    BY <2>1, <2>3 DEF CallTable
  <2> QED BY <1>1, <2>1, <2>2, <2>4
<1>4. CASE ~calls[c].creating
  <2>1. calls' = [calls EXCEPT ![c] = Idle] /\ UNCHANGED <<rows, provisioned, workflows>>
    BY <1>4 DEF Fail
  <2> QED BY <1>1, <2>1 DEF CallTable
<1> QED BY <1>3, <1>4

LEMMA ChangeType ==
    ASSUME provisioned \in [Slugs -> BOOLEAN], NEW list \in Listings, Change(list)
    PROVE  workflows' \in Listings /\ provisioned' \in [Slugs -> BOOLEAN]
  BY DEF Change

LEMMA WorkingCall ==
    ASSUME TypeOK, NEW c \in Calls, calls[c].stage \in {"list", "write"}
    PROVE  Running(c) /\ calls[c] \in CallType
<1>1. calls[c] \in CallType \cup {Idle}
  BY DEF TypeOK
<1> QED BY <1>1, CallFacts DEF Running

LEMMA EditType ==
    ASSUME TypeOK, NEW id \in Ids, NEW w \in Workflow \cup {Deleted},
           NEW anew \in SUBSET Ids, UserEdits(id, w, anew)
    PROVE  TypeOK'
<1>1. /\ rows \in RowTable /\ workflows \in Listings /\ calls \in CallTable
      /\ provisioned \in [Slugs -> BOOLEAN] /\ budget \in Budget
  BY TypeParts
<1>2. [workflows EXCEPT ![id] = w] \in Listings
  BY <1>1 DEF Listings
<1>3. workflows' \in Listings /\ provisioned' \in [Slugs -> BOOLEAN]
  BY <1>1, <1>2, ChangeType DEF UserEdits
<1>4. calls' \in CallTable
  BY <1>1, EditedCalls
<1>5. budget' \in Budget
  BY <1>1, SpendType DEF UserEdits
<1>6. rows' \in RowTable
  BY <1>1 DEF UserEdits
<1> QED BY <1>3, <1>4, <1>5, <1>6 DEF TypeOK, RowTable, Listings, CallTable

LEMMA UserWorkflowType ==
    ASSUME NEW url \in UserUrls, NEW kind \in UserKinds
    PROVE  UserWorkflow(url, kind) \in Workflow /\ UserWorkflow(url, kind).name = "user"
<1>1. kind \in Kinds /\ 0 \in Nat
  BY DEF UserKinds, Kinds
<1> QED BY <1>1 DEF UserWorkflow, Enabled, Workflow, UserUrls

(* What a user makes of a workflow: another name, or what its events are. *)
LEMMA ChangesEdit ==
    ASSUME workflows \in Listings, UserChanges
    PROVE  \E id \in Ids, w \in Workflow :
              /\ workflows[id] \in Workflow /\ UserEdits(id, w, {id})
              /\ w.name = workflows[id].name \/ w.name \in FreeNames(id)
<1>0. ASSUME NEW id \in Present(workflows) PROVE id \in Ids /\ workflows[id] \in Workflow
  BY PresentFacts
<1>1. ASSUME NEW id \in Present(workflows), NEW name \in FreeNames(id)
      PROVE  /\ [workflows[id] EXCEPT !.name = name] \in Workflow
             /\ [workflows[id] EXCEPT !.name = name].name = name
  <2>1. name \in ManagedNames \cup {"user"}
    BY DEF FreeNames
  <2> QED BY <1>0, <2>1 DEF Workflow
<1>2. ASSUME NEW id \in Present(workflows), NEW url \in UserUrls
      PROVE  /\ [workflows[id] EXCEPT !.url = url] \in Workflow
             /\ [workflows[id] EXCEPT !.url = url].name = workflows[id].name
  BY <1>0 DEF Workflow, UserUrls
<1>3. ASSUME NEW id \in Present(workflows), NEW kind \in UserKinds
      PROVE  /\ [workflows[id] EXCEPT !.kind = kind] \in Workflow
             /\ [workflows[id] EXCEPT !.kind = kind].name = workflows[id].name
  <2>1. kind \in Kinds
    BY DEF UserKinds, Kinds
  <2> QED BY <1>0, <2>1 DEF Workflow
<1>4. PICK id \in Present(workflows) :
        \/ \E name \in FreeNames(id) : UserEdits(id, [workflows[id] EXCEPT !.name = name], {id})
        \/ \E url \in UserUrls : UserEdits(id, [workflows[id] EXCEPT !.url = url], {id})
        \/ \E kind \in UserKinds : UserEdits(id, [workflows[id] EXCEPT !.kind = kind], {id})
  BY DEF UserChanges
<1>5. ASSUME NEW w \in Workflow, UserEdits(id, w, {id}),
             w.name = workflows[id].name \/ w.name \in FreeNames(id)
      PROVE  \E i \in Ids, v \in Workflow :
                /\ workflows[i] \in Workflow /\ UserEdits(i, v, {i})
                /\ v.name = workflows[i].name \/ v.name \in FreeNames(i)
  BY <1>0, <1>5
<1>6. CASE \E name \in FreeNames(id) : UserEdits(id, [workflows[id] EXCEPT !.name = name], {id})
  BY <1>1, <1>5, <1>6
<1>7. CASE \E url \in UserUrls : UserEdits(id, [workflows[id] EXCEPT !.url = url], {id})
  BY <1>2, <1>5, <1>7
<1>8. CASE \E kind \in UserKinds : UserEdits(id, [workflows[id] EXCEPT !.kind = kind], {id})
  BY <1>3, <1>5, <1>8
<1> QED BY <1>4, <1>6, <1>7, <1>8

LEMMA TypeInit == Init => TypeOK
<1> SUFFICES ASSUME Init PROVE TypeOK
  OBVIOUS
<1>1. rows \in RowTable
  <2>1. DefaultSettings \in Settings
    BY ProvisioningAssumption
  <2> QED BY <2>1 DEF Init, RowTable
<1>2. workflows \in Listings
  <2>1. PICK old \in {Enabled("legacy", i, 0, "manual") : i \in Slugs}
                \cup {UserWorkflow(i, "document-added") : i \in Slugs} :
             workflows = [id \in Ids |-> IF id = 1 THEN old ELSE None]
    BY DEF Init
  <2>2. old \in Workflow
    <3>1. \A i \in Slugs : Enabled("legacy", i, 0, "manual") \in Workflow
      BY EnabledFacts DEF ManagedNames, Kinds
    <3>2. \A i \in Slugs : i \in UserUrls /\ "document-added" \in UserKinds
      BY DEF UserUrls, UserKinds
    <3> QED BY <3>1, <3>2, UserWorkflowType
  <2> QED BY <2>1, <2>2 DEF Listings
<1>3. calls \in CallTable
  BY DEF Init, CallTable
<1>4. budget \in Budget
  BY ProvisioningAssumption DEF Init, Budget
<1>5. provisioned \in [Slugs -> BOOLEAN]
  BY DEF Init
<1> QED BY <1>1, <1>2, <1>3, <1>4, <1>5, TypeParts

LEMMA TypeStep == TypeOK /\ [Next]_vars => TypeOK'
<1> SUFFICES ASSUME TypeOK, [Next]_vars PROVE TypeOK'
  OBVIOUS
<1>0. /\ rows \in RowTable /\ workflows \in Listings /\ calls \in CallTable
      /\ provisioned \in [Slugs -> BOOLEAN] /\ budget \in Budget
  BY TypeParts
<1>goal. /\ rows' \in RowTable /\ workflows' \in Listings /\ calls' \in CallTable
         /\ provisioned' \in [Slugs -> BOOLEAN] /\ budget' \in Budget
         => TypeOK'
  BY DEF TypeOK, RowTable, Listings, CallTable
<1>valid. \A s \in Settings : s \in ValidSettings
  BY ProvisioningAssumption
<1>1. ASSUME NEW c \in Calls, NEW i \in Slugs, Create(c, i) PROVE TypeOK'
  <2>1. DefaultSettings \in Settings /\ TRUE \in BOOLEAN
    BY ProvisioningAssumption
  <2>2. Started(i, DefaultSettings, TRUE) \in CallType /\ Outdated(i) \in CallTable
    BY <1>0, <2>1, StartedFacts, InterruptedCalls
  <2>3. calls' \in CallTable
    BY <1>1, <2>2 DEF Create, CallTable
  <2>4. rows' \in RowTable
    BY <1>0, <1>1, <2>1 DEF Create, RowTable
  <2> QED BY <1>0, <1>1, <1>goal, <2>3, <2>4 DEF Create
<1>2. ASSUME NEW c \in Calls, NEW i \in Slugs, Provision(c, i) PROVE TypeOK'
  <2>1. rows[i].settings \in Settings /\ FALSE \in BOOLEAN
    BY <1>0 DEF RowTable
  <2>2. Started(i, rows[i].settings, FALSE) \in CallType
    BY <2>1, StartedFacts
  <2>3. calls' \in CallTable
    BY <1>0, <1>2, <2>2 DEF Provision, CallTable
  <2> QED BY <1>0, <1>2, <1>goal, <2>3 DEF Provision
<1>3. ASSUME NEW c \in Calls, List(c) PROVE TypeOK'
  <2>1. calls[c] \in CallType
    BY <1>3, WorkingCall DEF List
  <2>2. Plan(workflows, calls[c].slug, calls[c].settings) \in Seq(WriteType)
    BY <1>0, <1>valid, <2>1, CallFacts, PlanWrites
  <2>3. DefaultSettings \in Settings /\ (calls[c].alone /\ provisioned[calls[c].slug]) \in BOOLEAN
    BY <2>1, CallFacts, ProvisioningAssumption
  <2> DEFINE k == [calls[c] EXCEPT !.stage = "write",
                      !.todo = Plan(workflows, calls[c].slug, calls[c].settings),
                      !.settings = DefaultSettings,
                      !.again = calls[c].alone /\ provisioned[calls[c].slug],
                      !.edited = {}]
  <2>4. k \in CallType
    BY <2>1, <2>2, <2>3 DEF CallType
  <2>5. calls' = [calls EXCEPT ![c] = k]
    BY <1>0, <1>3 DEF List, CallTable
  <2> HIDE DEF k
  <2>6. calls' \in CallTable
    BY <1>0, <2>4, <2>5 DEF CallTable
  <2> QED BY <1>0, <1>3, <1>goal, <2>6 DEF List
<1>4. ASSUME NEW c \in Calls, WriteNext(c) PROVE TypeOK'
  <2>1. calls[c] \in CallType /\ calls[c].todo # << >>
    BY <1>4, WorkingCall DEF WriteNext
  <2>2. Head(calls[c].todo) \in WriteType /\ Tail(calls[c].todo) \in Seq(WriteType)
    BY <2>1, CallFacts, TodoFacts
  <2>3. Applied(Head(calls[c].todo)) \in Listings
    BY <1>0, <1>4, <2>2, AppliedListing DEF WriteNext
  <2>4. workflows' \in Listings /\ provisioned' \in [Slugs -> BOOLEAN]
    BY <1>0, <1>4, <2>3, ChangeType DEF WriteNext
  <2>5. PICK table \in {calls, Disturbed(Calls \ {c})} :
            calls' = [table EXCEPT ![c].todo = Tail(@)]
    BY <1>4 DEF WriteNext
  <2>6. table \in CallTable /\ table[c] = calls[c]
    <3>1. calls[c] # Idle /\ c \notin Calls \ {c}
      BY <2>1, CallFacts
    <3>2. Disturbed(Calls \ {c}) \in CallTable /\ Disturbed(Calls \ {c})[c] = calls[c]
      BY <1>0, <3>1, InterruptedCalls
    <3> QED BY <1>0, <3>2
  <2>7. [calls[c] EXCEPT !.todo = Tail(@)] \in CallType
    BY <2>1, <2>2 DEF CallType
  <2>8. calls' \in CallTable
    BY <2>5, <2>6, <2>7 DEF CallTable
  <2> QED BY <1>0, <1>4, <1>goal, <2>4, <2>8 DEF WriteNext
<1>5. ASSUME NEW c \in Calls, WriteRefused(c) PROVE TypeOK'
  <2>1. Running(c) /\ Fail(c) /\ budget' = budget
    BY <1>5, WorkingCall DEF WriteRefused
  <2> QED BY <1>0, <1>goal, <2>1, FailType
<1>6. ASSUME NEW c \in Calls, RequestFails(c) PROVE TypeOK'
  <2>1. Running(c) /\ Fail(c) /\ budget' \in Budget
    BY <1>0, <1>6, SpendType DEF RequestFails
  <2> QED BY <1>goal, <2>1, FailType
<1>7. ASSUME NEW c \in Calls, AnswerLost(c) PROVE TypeOK'
  <2>1. calls[c] \in CallType /\ calls[c].todo # << >> /\ calls[c].slug \in Slugs
    BY <1>7, WorkingCall, CallFacts DEF AnswerLost
  <2>2. Head(calls[c].todo) \in WriteType
    BY <2>1, CallFacts, TodoFacts
  <2>3. workflows' \in Listings
    BY <1>0, <1>7, <2>2, AppliedListing DEF AnswerLost
  <2>4. Disturbed(Calls \ {c}) \in CallTable
    BY <1>0, InterruptedCalls
  <2>5. calls' \in CallTable
    BY <1>7, <2>4 DEF AnswerLost, CallTable
  <2>6. rows' \in RowTable
    BY <1>0, <1>7, <2>1 DEF AnswerLost, RowTable
  <2>7. budget' \in Budget /\ provisioned' \in [Slugs -> BOOLEAN]
    BY <1>0, <1>7, SpendType DEF AnswerLost
  <2> QED BY <1>goal, <2>3, <2>5, <2>6, <2>7
<1>8. ASSUME NEW c \in Calls, CallDies(c) PROVE TypeOK'
  <2>1. budget' \in Budget
    BY <1>0, <1>8, SpendType DEF CallDies
  <2> QED BY <1>0, <1>8, <1>goal, <2>1 DEF CallDies, CallTable
<1>9. ASSUME NEW c \in Calls, Succeed(c) PROVE TypeOK'
  <2>1. calls[c] \in CallType /\ calls[c].slug \in Slugs /\ calls[c].alone \in BOOLEAN
    BY <1>9, WorkingCall, CallFacts DEF Succeed
  <2>2. calls' \in CallTable
    BY <1>0, <1>9 DEF Succeed, CallTable
  <2>3. provisioned' \in [Slugs -> BOOLEAN]
    BY <1>0, <1>9, <2>1 DEF Succeed
  <2> QED BY <1>0, <1>9, <1>goal, <2>2, <2>3 DEF Succeed
<1>10. ASSUME NEW i \in Slugs, NEW s \in Settings, UpdateInstance(i, s) PROVE TypeOK'
  <2>1. calls' \in CallTable /\ budget' \in Budget
    BY <1>0, <1>10, InterruptedCalls, SpendType DEF UpdateInstance
  <2>2. rows' \in RowTable
    BY <1>0, <1>10 DEF UpdateInstance, RowTable
  <2> QED BY <1>0, <1>10, <1>goal, <2>1, <2>2 DEF UpdateInstance
<1>11. ASSUME NEW i \in Slugs, DeleteInstance(i) PROVE TypeOK'
  <2>1. calls' \in CallTable /\ budget' \in Budget
    BY <1>0, <1>11, InterruptedCalls, SpendType DEF DeleteInstance
  <2>2. rows' \in RowTable
    BY <1>0, <1>11 DEF DeleteInstance, RowTable
  <2> QED BY <1>0, <1>11, <1>goal, <2>1, <2>2 DEF DeleteInstance
<1>12. CASE UserCreates
  <2>1. PICK url \in UserUrls, kind \in UserKinds :
            Unused # {} /\ UserEdits(FirstOf(Unused), UserWorkflow(url, kind), {})
    BY <1>12 DEF UserCreates
  <2>2. Unused \in SUBSET Ids
    BY DEF Unused
  <2>3. FirstOf(Unused) \in Ids
    BY <2>1, <2>2, FirstOfMember
  <2> QED BY <2>1, <2>3, UserWorkflowType, EditType
<1>13. CASE UserSwitches
  <2>1. PICK id \in Present(workflows) :
            UserEdits(id, [workflows[id] EXCEPT !.enabled = ~@], {})
    BY <1>13 DEF UserSwitches
  <2>2. id \in Ids /\ workflows[id] \in Workflow
    BY <1>0, PresentFacts
  <2>3. [workflows[id] EXCEPT !.enabled = ~@] \in Workflow
    BY <2>2 DEF Workflow
  <2> QED BY <2>1, <2>2, <2>3, EditType
<1>14. CASE UserDeletes
  <2>1. PICK id \in Present(workflows) : UserEdits(id, Deleted, {})
    BY <1>14 DEF UserDeletes
  <2>2. id \in Ids
    BY <1>0, PresentFacts
  <2> QED BY <2>1, <2>2, EditType
<1>15. CASE UserChanges
  <2>1. PICK id \in Ids, w \in Workflow : workflows[id] \in Workflow /\ UserEdits(id, w, {id})
    BY <1>0, <1>15, ChangesEdit
  <2> QED BY <2>1, EditType
<1>16. CASE UNCHANGED vars
  BY <1>16 DEF vars, TypeOK
<1> QED BY <1>1, <1>2, <1>3, <1>4, <1>5, <1>6, <1>7, <1>8, <1>9, <1>10, <1>11, <1>12, <1>13,
           <1>14, <1>15, <1>16 DEF Next, CallStep

(* Rows, workflows and running calls always have the values the table and  *)
(* Paperless admit; the writes a call has planned are well formed for any  *)
(* listing and any valid settings.                                         *)
THEOREM ProvisioningTypeCorrect == Spec => []TypeOK
<1> QED BY TypeInit, TypeStep, PTL DEF Spec

-----------------------------------------------------------------------------
(* What a step does to a running call, to the workflows and to a promise.  *)
Begins(c) ==
    \E i \in Slugs, creating \in BOOLEAN :
        rows'[i].state = "row" /\ calls'[c] = Started(i, rows'[i].settings, creating)
Stays(c) ==
    /\ Running(c)
    /\ \/ calls'[c] = calls[c] \/ calls'[c] = Interrupted(calls[c])
       \/ \E anew \in SUBSET Ids : calls'[c] = Touched(calls[c], anew)
    /\ calls'[c].alone => workflows' = workflows /\ rows'[calls[c].slug] = rows[calls[c].slug]

LEMMA FailCalls ==
    ASSUME TypeOK, NEW d \in Calls, Running(d), Fail(d), NEW c \in Calls, calls'[c] # Idle
    PROVE  Stays(c)
<1>0. /\ rows \in RowTable /\ calls \in CallTable /\ calls[d].slug \in Slugs
  BY TypeParts, CallFacts DEF CallTable, Running
<1>1. CASE calls[d].creating
  <2>1. /\ rows' = [rows EXCEPT ![calls[d].slug].state = "free"]
        /\ calls' = [Outdated(calls[d].slug) EXCEPT ![d] = Idle] /\ workflows' = workflows
    BY <1>1 DEF Fail
  <2>2. Outdated(calls[d].slug) \in CallTable
    BY <1>0, InterruptedCalls
  <2>3. c # d /\ calls'[c] = Outdated(calls[d].slug)[c]
    BY <2>1, <2>2 DEF CallTable
  <2>4. calls[c] # Idle
    BY <1>0, <2>3, InterruptedCalls
  <2>5. calls[c] \in CallType
    BY <1>0, <2>4 DEF CallTable
  <2>6. CASE calls[c].slug = calls[d].slug
    <3>1. calls'[c] = Interrupted(calls[c])
      BY <1>0, <2>3, <2>4, <2>6, InterruptedCalls
    <3> QED BY <2>4, <2>5, <3>1, CallFacts DEF Stays, Running
  <2>7. CASE calls[c].slug # calls[d].slug
    <3>1. calls'[c] = calls[c]
      BY <1>0, <2>3, <2>4, <2>7, InterruptedCalls
    <3>2. rows'[calls[c].slug] = rows[calls[c].slug]
      BY <1>0, <2>1, <2>5, <2>7, CallFacts DEF RowTable
    <3> QED BY <2>1, <2>4, <3>1, <3>2 DEF Stays, Running
  <2> QED BY <2>6, <2>7
<1>2. CASE ~calls[d].creating
  <2>1. calls' = [calls EXCEPT ![d] = Idle] /\ UNCHANGED <<rows, workflows>>
    BY <1>2 DEF Fail
  <2>2. calls'[c] = calls[c]
    BY <1>0, <2>1 DEF CallTable
  <2> QED BY <2>1, <2>2 DEF Stays, Running
<1> QED BY <1>1, <1>2

LEMMA DisturbedCalls ==
    ASSUME calls \in CallTable, NEW others, NEW c \in Calls, c \in others,
           calls'[c] # Idle, calls'[c] = Disturbed(others)[c]
    PROVE  Stays(c)
<1>1. calls[c] # Idle
  BY InterruptedCalls
<1>2. calls[c] \in CallType /\ calls'[c] = Interrupted(calls[c])
  BY <1>1, InterruptedCalls DEF CallTable
<1> QED BY <1>1, <1>2, CallFacts DEF Stays, Running

LEMMA OutdatedCalls ==
    ASSUME calls \in CallTable, rows \in RowTable, NEW i \in Slugs, NEW row,
           rows' = [rows EXCEPT ![i] = row], workflows' = workflows,
           NEW c \in Calls, calls'[c] # Idle, calls'[c] = Outdated(i)[c]
    PROVE  Stays(c)
<1>1. calls[c] # Idle
  BY InterruptedCalls
<1>2. calls[c] \in CallType
  BY <1>1 DEF CallTable
<1>3. CASE calls[c].slug = i
  <2>1. calls'[c] = Interrupted(calls[c])
    BY <1>1, <1>3, InterruptedCalls
  <2> QED BY <1>1, <1>2, <2>1, CallFacts DEF Stays, Running
<1>4. CASE calls[c].slug # i
  <2>1. calls'[c] = calls[c]
    BY <1>1, <1>4, InterruptedCalls
  <2>2. rows'[calls[c].slug] = rows[calls[c].slug]
    BY <1>2, <1>4, CallFacts DEF RowTable
  <2> QED BY <1>1, <2>1, <2>2 DEF Stays, Running
<1> QED BY <1>3, <1>4

LEMMA CallSteps ==
    ASSUME TypeOK, [Next]_vars, NEW c \in Calls, calls'[c] # Idle
    PROVE  Begins(c) \/ Stays(c) \/ List(c) \/ WriteNext(c)
<1>0. /\ rows \in RowTable /\ workflows \in Listings /\ calls \in CallTable
  BY TypeParts
<1>same. calls'[c] = calls[c] /\ workflows' = workflows /\ rows' = rows => Stays(c)
  BY DEF Stays, Running
<1>1. ASSUME NEW d \in Calls, NEW i \in Slugs, Create(d, i) PROVE Begins(c) \/ Stays(c)
  <2>1. Outdated(i) \in CallTable
    BY <1>0, InterruptedCalls
  <2>2. CASE c = d
    <3>1. calls'[c] = Started(i, DefaultSettings, TRUE)
      BY <1>1, <2>1, <2>2 DEF Create, CallTable
    <3>2. rows'[i] = [state |-> "row", settings |-> DefaultSettings]
      BY <1>0, <1>1 DEF Create, RowTable
    <3>3. rows'[i].state = "row" /\ rows'[i].settings = DefaultSettings /\ TRUE \in BOOLEAN
      BY <3>2
    <3> QED BY <3>1, <3>3 DEF Begins
  <2>3. CASE c # d
    <3>1. calls'[c] = Outdated(i)[c]
      BY <1>1, <2>1, <2>3 DEF Create, CallTable
    <3> QED BY <1>0, <1>1, <3>1, OutdatedCalls DEF Create
  <2> QED BY <2>2, <2>3
<1>2. ASSUME NEW d \in Calls, NEW i \in Slugs, Provision(d, i) PROVE Begins(c) \/ Stays(c)
  <2>1. CASE c = d
    <3>1. calls'[c] = Started(i, rows'[i].settings, FALSE) /\ rows'[i].state = "row"
      BY <1>0, <1>2, <2>1 DEF Provision, CallTable
    <3> QED BY <3>1 DEF Begins
  <2>2. CASE c # d
    BY <1>0, <1>2, <1>same, <2>2 DEF Provision, CallTable
  <2> QED BY <2>1, <2>2
<1>3. ASSUME NEW d \in Calls, List(d) PROVE List(c) \/ Stays(c)
  BY <1>0, <1>3, <1>same DEF List, CallTable
<1>4. ASSUME NEW d \in Calls, WriteNext(d) PROVE WriteNext(c) \/ Stays(c)
  <2>1. CASE c # d /\ workflows' = workflows
    <3>1. calls'[c] = calls[c]
      BY <1>0, <1>4, <2>1 DEF WriteNext, CallTable
    <3> QED BY <1>4, <2>1, <3>1, <1>same DEF WriteNext
  <2>2. CASE c # d /\ workflows' # workflows
    <3>1. Disturbed(Calls \ {d}) \in CallTable
      BY <1>0, InterruptedCalls
    <3>2. calls'[c] = Disturbed(Calls \ {d})[c]
      BY <1>4, <2>2, <3>1 DEF WriteNext, CallTable
    <3>3. c \in Calls \ {d}
      BY <2>2
    <3> QED BY <1>0, <3>2, <3>3, DisturbedCalls
  <2> QED BY <1>4, <2>1, <2>2
<1>5. ASSUME NEW d \in Calls, WriteRefused(d) PROVE Stays(c)
  BY <1>5, WorkingCall, FailCalls DEF WriteRefused
<1>6. ASSUME NEW d \in Calls, RequestFails(d) PROVE Stays(c)
  BY <1>6, FailCalls DEF RequestFails
<1>7. ASSUME NEW d \in Calls, AnswerLost(d) PROVE Stays(c)
  <2>1. Disturbed(Calls \ {d}) \in CallTable
    BY <1>0, InterruptedCalls
  <2>2. c # d /\ calls'[c] = Disturbed(Calls \ {d})[c]
    BY <1>7, <2>1 DEF AnswerLost, CallTable
  <2>3. c \in Calls \ {d}
    BY <2>2
  <2> QED BY <1>0, <2>2, <2>3, DisturbedCalls
<1>8. ASSUME NEW d \in Calls, CallDies(d) PROVE Stays(c)
  BY <1>0, <1>8, <1>same DEF CallDies, CallTable
<1>9. ASSUME NEW d \in Calls, Succeed(d) PROVE Stays(c)
  BY <1>0, <1>9, <1>same DEF Succeed, CallTable
<1>10. ASSUME NEW i \in Slugs, NEW s \in Settings, UpdateInstance(i, s) PROVE Stays(c)
  <2>1. rows' = [rows EXCEPT ![i] = [rows[i] EXCEPT !.settings = s]]
    BY <1>0, <1>10 DEF UpdateInstance, RowTable
  <2>2. calls'[c] = Outdated(i)[c] /\ workflows' = workflows
    BY <1>10 DEF UpdateInstance
  <2> QED BY <1>0, <2>1, <2>2, OutdatedCalls
<1>11. ASSUME NEW i \in Slugs, DeleteInstance(i) PROVE Stays(c)
  <2>1. rows' = [rows EXCEPT ![i] = [rows[i] EXCEPT !.state = "deleted"]]
    BY <1>0, <1>11 DEF DeleteInstance, RowTable
  <2>2. calls'[c] = Outdated(i)[c] /\ workflows' = workflows
    BY <1>11 DEF DeleteInstance
  <2> QED BY <1>0, <2>1, <2>2, OutdatedCalls
<1>12. ASSUME NEW id, NEW w, NEW anew \in SUBSET Ids, UserEdits(id, w, anew) PROVE Stays(c)
  <2>1. calls[c] \in CallType /\ calls'[c] = Touched(calls[c], anew)
    BY <1>0, <1>12, EditedCalls
  <2>2. ~calls'[c].alone
    BY <2>1, TouchedFacts
  <2> QED BY <2>1, <2>2, CallFacts DEF Stays, Running
<1>13. CASE UserCreates \/ UserSwitches \/ UserDeletes \/ UserChanges
  <2>1. CASE UserChanges
    <3>1. PICK id \in Ids, w \in Workflow : UserEdits(id, w, {id})
      BY <1>0, <2>1, ChangesEdit
    <3>2. {id} \in SUBSET Ids
      OBVIOUS
    <3> QED BY <1>12, <3>1, <3>2
  <2>2. CASE UserCreates \/ UserSwitches \/ UserDeletes
    <3>1. PICK id, w : UserEdits(id, w, {})
      BY <2>2 DEF UserCreates, UserSwitches, UserDeletes
    <3>2. {} \in SUBSET Ids
      OBVIOUS
    <3> QED BY <1>12, <3>1, <3>2
  <2> QED BY <1>13, <2>1, <2>2
<1>14. CASE UNCHANGED vars
  BY <1>14, <1>same DEF vars
<1> QED BY <1>1, <1>2, <1>3, <1>4, <1>5, <1>6, <1>7, <1>8, <1>9, <1>10, <1>11, <1>13, <1>14
        DEF Next, CallStep

Sent(c) ==
    /\ calls[c].stage = "write" /\ calls[c].todo # << >>
    /\ Accepted(Head(calls[c].todo))
    /\ workflows' = Applied(Head(calls[c].todo))
Anew(id) == \A c \in Calls : calls'[c] # Idle => id \in calls'[c].edited
Edited ==
    \E id \in Ids, w \in Workflow \cup {Deleted} :
        /\ workflows' = [workflows EXCEPT ![id] = w]
        /\ \/ workflows[id] = None /\ w # Deleted /\ w.name = "user"
           \/ id \in Present(workflows) /\ w = Deleted
           \/ id \in Present(workflows) /\ w = [workflows[id] EXCEPT !.enabled = ~@]
           \/ /\ workflows[id] \in Workflow /\ w \in Workflow /\ Anew(id)
              /\ w.name = workflows[id].name \/ w.name \in FreeNames(id)

LEMMA ListSteps ==
    ASSUME TypeOK, [Next]_vars
    PROVE  workflows' = workflows \/ (\E c \in Calls : Sent(c)) \/ Edited
<1>0. workflows \in Listings
  BY TypeParts
<1>1. ASSUME NEW c \in Calls, Fail(c) PROVE workflows' = workflows
  BY <1>1 DEF Fail
<1>2. ASSUME NEW c \in Calls, CallStep(c) PROVE workflows' = workflows \/ Sent(c)
  BY <1>1, <1>2 DEF CallStep, Create, Provision, List, WriteNext, WriteRefused, RequestFails,
                    AnswerLost, CallDies, Succeed, Sent, Change
<1>3. CASE UserCreates
  <2>1. PICK url \in UserUrls, kind \in UserKinds :
            Unused # {} /\ UserEdits(FirstOf(Unused), UserWorkflow(url, kind), {})
    BY <1>3 DEF UserCreates
  <2> DEFINE id == FirstOf(Unused)
             w == UserWorkflow(url, kind)
  <2>2. Unused \in SUBSET Ids
    BY DEF Unused
  <2>3. id \in Unused
    BY <2>1, <2>2, FirstOfMember
  <2>4. id \in Ids /\ workflows[id] = None
    BY <2>3 DEF Unused
  <2>5. w \in Workflow /\ w # Deleted /\ w.name = "user"
    BY UserWorkflowType, WorkflowFacts
  <2>6. workflows' = [workflows EXCEPT ![id] = w]
    BY <2>1 DEF UserEdits, Change
  <2> HIDE DEF id, w
  <2> QED BY <2>4, <2>5, <2>6 DEF Edited
<1>4. CASE UserSwitches
  <2>1. PICK id \in Present(workflows) :
            UserEdits(id, [workflows[id] EXCEPT !.enabled = ~@], {})
    BY <1>4 DEF UserSwitches
  <2>2. id \in Ids /\ workflows[id] \in Workflow
    BY <1>0, PresentFacts
  <2>3. [workflows[id] EXCEPT !.enabled = ~@] \in Workflow
    BY <2>2 DEF Workflow
  <2>4. workflows' = [workflows EXCEPT ![id] = [workflows[id] EXCEPT !.enabled = ~@]]
    BY <2>1 DEF UserEdits, Change
  <2> QED BY <2>2, <2>3, <2>4 DEF Edited
<1>5. CASE UserDeletes
  <2>1. PICK id \in Present(workflows) : UserEdits(id, Deleted, {})
    BY <1>5 DEF UserDeletes
  <2>2. id \in Ids
    BY <1>0, PresentFacts
  <2> QED BY <2>1, <2>2 DEF UserEdits, Change, Edited
<1>6. ASSUME NEW i \in Slugs, NEW s \in Settings, UpdateInstance(i, s) \/ DeleteInstance(i)
      PROVE  workflows' = workflows
  BY <1>6 DEF UpdateInstance, DeleteInstance
<1>7. CASE UNCHANGED vars
  BY <1>7 DEF vars
<1>8. CASE \E i \in Slugs : DeleteInstance(i)
  BY <1>8 DEF DeleteInstance
<1>9. CASE UserChanges
  <2>1. PICK id \in Ids, w \in Workflow :
              /\ workflows[id] \in Workflow /\ UserEdits(id, w, {id})
              /\ w.name = workflows[id].name \/ w.name \in FreeNames(id)
    BY <1>0, <1>9, ChangesEdit
  <2>2. calls \in CallTable
    BY TypeParts
  <2>3. Anew(id)
    BY <2>1, <2>2, EditedCalls, TouchedFacts DEF Anew
  <2>4. workflows' = [workflows EXCEPT ![id] = w]
    BY <2>1 DEF UserEdits, Change
  <2> QED BY <2>1, <2>3, <2>4 DEF Edited
<1> QED BY <1>2, <1>3, <1>4, <1>5, <1>6, <1>7, <1>8, <1>9 DEF Next

-----------------------------------------------------------------------------
(* The invariants.  No managed name is borne twice.                        *)
NamesInv == UniqueNames(workflows) /\ LegacyAlone(workflows)

(* What a call writes is well formed, and it writes to what it found.      *)
WritesFit(t, list) ==
    \A w \in Writes(t) :
        /\ w.do # "disable" => w.payload \in Workflow /\ w.payload.name \in ManagedNames \ {"legacy"}
        /\ w.do = "post" => w.id = 0
        /\ w.do # "post" => w.id \in Ids /\ list[w.id] # None

(* While the manual workflow bears its former name, a call that wants it   *)
(* renames that one.                                                       *)
LegacyFit(t, list) ==
    \A w \in Writes(t), old \in Ids :
        list[old].name = "legacy" /\ w.do # "disable" /\ w.payload.name = "manual"
            => w.do # "post" /\ w.id = old

PlansInv ==
    \A c \in Calls : Running(c) =>
        WritesFit(calls[c].todo, workflows) /\ LegacyFit(calls[c].todo, workflows)

(* That is a managed workflow or one that sends document events, however   *)
(* old the listing is, unless a user has deleted it or made it another.    *)
Target(w, k, list) ==
    w.do # "post" =>
        \/ w.id \in k.edited
        \/ list[w.id] = Deleted
        \/ list[w.id].name \in ManagedNames
        \/ w.do = "disable" /\ SendsEvents(list[w.id], k.slug)
TargetsInv ==
    \A c \in Calls : Running(c) =>
        \A w \in Writes(calls[c].todo) : Target(w, calls[c], workflows)

(* How one workflow may follow another under the same identifier. *)
Follows(new, old) ==
    \/ new = old
    \/ old = None
    \/ new = Deleted
    \/ new # None /\ new.name \in ManagedNames
    \/ new # None /\ new.name = old.name /\ new.url = old.url /\ new.kind = old.kind

LEMMA SentWrite ==
    ASSUME TypeOK, PlansInv, NEW c \in Calls, Sent(c)
    PROVE  LET w == Head(calls[c].todo)
           IN /\ w \in WriteType /\ w \in Writes(calls[c].todo) /\ Running(c)
              /\ w.do # "disable" => w.payload \in Workflow
                                     /\ w.payload.name \in ManagedNames \ {"legacy"}
              /\ w.do # "disable" => Named(workflows, {w.payload.name}) \subseteq {w.id}
              /\ w.do = "post" => /\ FirstOf(Unused) \in Ids /\ workflows[FirstOf(Unused)] = None
                                  /\ workflows' = [workflows EXCEPT ![FirstOf(Unused)] = w.payload]
                                  /\ Named(workflows, {w.payload.name}) = {}
              /\ w.do # "post" => w.id \in Ids /\ workflows[w.id] \in Workflow
              /\ w.do = "put" => workflows' = [workflows EXCEPT ![w.id] = w.payload]
              /\ w.do = "disable" => /\ workflows' = [workflows EXCEPT ![w.id].enabled = FALSE]
                                     /\ [workflows[w.id] EXCEPT !.enabled = FALSE] \in Workflow
<1> DEFINE w == Head(calls[c].todo)
<1>0. workflows \in Listings
  BY TypeParts
<1>1. calls[c] \in CallType /\ Running(c) /\ calls[c].todo \in Seq(WriteType) /\ calls[c].todo # << >>
  BY WorkingCall, CallFacts DEF Sent
<1>2. w \in WriteType /\ w \in Writes(calls[c].todo)
  BY <1>1, TodoFacts
<1>3. WritesFit(calls[c].todo, workflows)
  BY <1>1 DEF PlansInv
<1>4. Accepted(w) /\ workflows' = Applied(w)
  BY DEF Sent
<1> HIDE DEF w
<1>5. /\ w.do = "post" => /\ FirstOf(Unused) \in Ids /\ workflows[FirstOf(Unused)] = None
                          /\ workflows' = [workflows EXCEPT ![FirstOf(Unused)] = w.payload]
      /\ w.do # "post" => w.id \in Present(workflows)
      /\ w.do = "put" => workflows' = [workflows EXCEPT ![w.id] = w.payload]
      /\ w.do = "disable" => /\ workflows' = [workflows EXCEPT ![w.id].enabled = FALSE]
                             /\ [workflows[w.id] EXCEPT !.enabled = FALSE] \in Workflow
  BY <1>0, <1>2, <1>4, AppliedListing
<1>6. w.do # "post" => w.id \in Ids /\ workflows[w.id] \in Workflow
  BY <1>0, <1>5, PresentFacts
<1>7. w.do # "disable" => Named(workflows, {w.payload.name}) \subseteq {w.id}
  BY <1>4 DEF Accepted
<1>8. w.do # "disable" => w.payload \in Workflow /\ w.payload.name \in ManagedNames \ {"legacy"}
  BY <1>2, <1>3 DEF WritesFit
<1>9. w.do = "post" => Named(workflows, {w.payload.name}) = {}
  <2>1. w.do = "post" => w.id \notin Ids
    BY <1>2, <1>3, ProvisioningAssumption DEF WritesFit, Ids
  <2>2. Named(workflows, {w.payload.name}) \subseteq Ids
    BY DEF Named, Present
  <2> QED BY <1>7, <2>1, <2>2
<1> QED BY <1>1, <1>2, <1>5, <1>6, <1>7, <1>8, <1>9 DEF w

LEMMA ListFollows ==
    ASSUME TypeOK, PlansInv, [Next]_vars, NEW id \in Ids
    PROVE  /\ Follows(workflows'[id], workflows[id]) \/ Anew(id)
           /\ workflows'[id] = None => workflows[id] = None
           /\ workflows'[id].name = "legacy" => workflows[id].name = "legacy"
<1>0. workflows \in [Ids -> Workflow \cup {None, Deleted}]
  BY TypeParts DEF Listings
<1>1. CASE workflows' = workflows
  BY <1>1 DEF Follows
<1>2. ASSUME NEW c \in Calls, Sent(c)
      PROVE  /\ Follows(workflows'[id], workflows[id])
             /\ workflows'[id] = None => workflows[id] = None
             /\ workflows'[id].name = "legacy" => workflows[id].name = "legacy"
  <2> DEFINE w == Head(calls[c].todo)
  <2>1. /\ w \in WriteType
        /\ w.do # "disable" => w.payload \in Workflow /\ w.payload.name \in ManagedNames \ {"legacy"}
        /\ w.do = "post" => /\ FirstOf(Unused) \in Ids /\ workflows[FirstOf(Unused)] = None
                            /\ workflows' = [workflows EXCEPT ![FirstOf(Unused)] = w.payload]
        /\ w.do # "post" => w.id \in Ids /\ workflows[w.id] \in Workflow
        /\ w.do = "put" => workflows' = [workflows EXCEPT ![w.id] = w.payload]
        /\ w.do = "disable" => /\ workflows' = [workflows EXCEPT ![w.id].enabled = FALSE]
                               /\ [workflows[w.id] EXCEPT !.enabled = FALSE] \in Workflow
    BY <1>2, SentWrite
  <2> HIDE DEF w
  <2>2. w.do \in {"post", "put", "disable"}
    BY <2>1 DEF WriteType
  <2>3. CASE w.do = "post"
    BY <1>0, <2>1, <2>3, WorkflowFacts DEF Follows
  <2>4. CASE w.do = "put"
    BY <1>0, <2>1, <2>4, WorkflowFacts DEF Follows
  <2>5. CASE w.do = "disable"
    <3>1. CASE id = w.id
      <4>1. workflows'[id] = [workflows[id] EXCEPT !.enabled = FALSE]
        BY <1>0, <2>1, <2>5, <3>1
      <4>2. /\ workflows'[id].name = workflows[id].name /\ workflows'[id].url = workflows[id].url
            /\ workflows'[id].kind = workflows[id].kind /\ workflows'[id] # None
        BY <2>1, <2>5, <3>1, <4>1, WorkflowFacts DEF Workflow
      <4> QED BY <4>2 DEF Follows
    <3>2. CASE id # w.id
      BY <1>0, <2>1, <2>5, <3>2 DEF Follows
    <3> QED BY <3>1, <3>2
  <2> QED BY <2>2, <2>3, <2>4, <2>5
<1>3. CASE Edited
  <2>1. PICK other \in Ids, w \in Workflow \cup {Deleted} :
            /\ workflows' = [workflows EXCEPT ![other] = w]
            /\ \/ workflows[other] = None /\ w # Deleted /\ w.name = "user"
               \/ other \in Present(workflows) /\ w = Deleted
               \/ other \in Present(workflows) /\ w = [workflows[other] EXCEPT !.enabled = ~@]
               \/ /\ workflows[other] \in Workflow /\ w \in Workflow /\ Anew(other)
                  /\ w.name = workflows[other].name \/ w.name \in FreeNames(other)
    BY <1>3 DEF Edited
  <2>2. CASE id # other
    BY <1>0, <2>1, <2>2 DEF Follows
  <2>3. CASE id = other /\ workflows[other] = None /\ w # Deleted /\ w.name = "user"
    BY <1>0, <2>1, <2>3 DEF Follows
  <2>4. CASE id = other /\ w = Deleted
    BY <1>0, <2>1, <2>4, WorkflowFacts DEF Follows
  <2>5. CASE /\ id = other /\ id \in Present(workflows)
             /\ w = [workflows[other] EXCEPT !.enabled = ~@]
    <3>1. workflows[id] \in Workflow
      BY <1>0, <2>5, WorkflowFacts DEF Present
    <3>2. workflows'[id] = [workflows[id] EXCEPT !.enabled = ~@]
      BY <1>0, <2>1, <2>5
    <3>3. /\ workflows'[id].name = workflows[id].name /\ workflows'[id].url = workflows[id].url
          /\ workflows'[id].kind = workflows[id].kind /\ workflows'[id] \in Workflow
      BY <3>1, <3>2 DEF Workflow
    <3> QED BY <3>3, WorkflowFacts DEF Follows
  <2>6. CASE /\ id = other /\ w \in Workflow /\ Anew(other)
             /\ w.name = workflows[other].name \/ w.name \in FreeNames(other)
    <3>1. workflows'[id] = w
      BY <1>0, <2>1, <2>6
    <3>2. "legacy" \notin FreeNames(other)
      BY DEF FreeNames
    <3>3. w # None /\ (w.name = "legacy" => workflows[other].name = "legacy")
      BY <2>6, <3>2, WorkflowFacts
    <3> QED BY <2>6, <3>1, <3>3
  <2> QED BY <2>1, <2>2, <2>3, <2>4, <2>5, <2>6
<1> QED BY <1>1, <1>2, <1>3, ListSteps

LEMMA NamesInit == Init => NamesInv /\ PlansInv /\ TargetsInv
<1> SUFFICES ASSUME Init PROVE NamesInv /\ PlansInv /\ TargetsInv
  OBVIOUS
<1>1. PICK old : workflows = [id \in Ids |-> IF id = 1 THEN old ELSE None]
  BY DEF Init
<1>2. \A id \in Present(workflows) : id = 1
  BY <1>1 DEF Present
<1>3. NamesInv
  BY <1>2 DEF NamesInv, UniqueNames, LegacyAlone
<1>4. PlansInv /\ TargetsInv
  BY DEF Init, PlansInv, TargetsInv, Running
<1> QED BY <1>3, <1>4

LEMMA NamesStep ==
    ASSUME TypeOK, TypeOK', NamesInv, PlansInv, [Next]_vars
    PROVE  NamesInv'
<1>0. /\ workflows \in [Ids -> Workflow \cup {None, Deleted}]
      /\ workflows' \in [Ids -> Workflow \cup {None, Deleted}]
  BY DEF TypeOK
<1>p. /\ \A id \in Ids : id \in Present(workflows) <=> workflows[id] \in Workflow
      /\ \A id \in Ids : id \in Present(workflows') <=> workflows'[id] \in Workflow
      /\ Present(workflows) \subseteq Ids /\ Present(workflows') \subseteq Ids
  BY <1>0, WorkflowFacts DEF Present
<1>1. CASE workflows' = workflows
  BY <1>1 DEF NamesInv
<1>2. ASSUME NEW c \in Calls, Sent(c) PROVE NamesInv'
  <2> DEFINE w == Head(calls[c].todo)
  <2>1. /\ w \in WriteType /\ w \in Writes(calls[c].todo) /\ Running(c)
        /\ w.do # "disable" => w.payload \in Workflow /\ w.payload.name \in ManagedNames \ {"legacy"}
        /\ w.do # "disable" => Named(workflows, {w.payload.name}) \subseteq {w.id}
        /\ w.do = "post" => /\ FirstOf(Unused) \in Ids /\ workflows[FirstOf(Unused)] = None
                            /\ workflows' = [workflows EXCEPT ![FirstOf(Unused)] = w.payload]
                            /\ Named(workflows, {w.payload.name}) = {}
        /\ w.do # "post" => w.id \in Ids /\ workflows[w.id] \in Workflow
        /\ w.do = "put" => workflows' = [workflows EXCEPT ![w.id] = w.payload]
        /\ w.do = "disable" => /\ workflows' = [workflows EXCEPT ![w.id].enabled = FALSE]
                               /\ [workflows[w.id] EXCEPT !.enabled = FALSE] \in Workflow
    BY <1>2, SentWrite
  <2>l. LegacyFit(calls[c].todo, workflows)
    BY <2>1 DEF PlansInv
  <2> HIDE DEF w
  <2>2. w.do \in {"post", "put", "disable"}
    BY <2>1 DEF WriteType
  <2>3. CASE w.do = "disable"
    <3>1. \A id \in Ids : workflows'[id].name = workflows[id].name
                          /\ (id \in Present(workflows') <=> id \in Present(workflows))
      <4> SUFFICES ASSUME NEW id \in Ids
                   PROVE  workflows'[id].name = workflows[id].name
                          /\ (id \in Present(workflows') <=> id \in Present(workflows))
        OBVIOUS
      <4>1. CASE id = w.id
        <5>1. workflows'[id] = [workflows[id] EXCEPT !.enabled = FALSE]
          BY <1>0, <2>1, <2>3, <4>1
        <5> QED BY <1>p, <2>1, <2>3, <4>1, <5>1 DEF Workflow
      <4>2. CASE id # w.id
        BY <1>0, <1>p, <2>1, <2>3, <4>2
      <4> QED BY <4>1, <4>2
    <3> QED BY <1>p, <3>1 DEF NamesInv, UniqueNames, LegacyAlone
  <2>4. ASSUME w.do # "disable",
               NEW place \in Ids, workflows' = [workflows EXCEPT ![place] = w.payload],
               w.do = "put" => place = w.id,
               w.do = "post" => place \notin Present(workflows)
        PROVE  NamesInv'
    <3>1. \A id \in Present(workflows) : workflows[id].name = w.payload.name => id = w.id
      BY <2>1, <2>4 DEF Named
    <3>0. w.do = "post" => \A id \in Present(workflows) : workflows[id].name # w.payload.name
      BY <2>1 DEF Named
    <3>2. \A id \in Present(workflows') \ {place} :
             id \in Present(workflows) /\ workflows'[id] = workflows[id]
      BY <1>0, <1>p, <2>4
    <3>3. workflows'[place] = w.payload
      BY <1>0, <2>4
    <3>4. \A id \in Present(workflows') \ {place} : workflows'[id].name # w.payload.name
      BY <2>2, <2>4, <3>0, <3>1, <3>2
    <3>5. UniqueNames(workflows')
      BY <3>2, <3>3, <3>4 DEF NamesInv, UniqueNames
    <3>6. LegacyAlone(workflows')
      <4> SUFFICES ASSUME NEW id \in Present(workflows'), NEW other \in Present(workflows'),
                          workflows'[id].name = "legacy", workflows'[other].name = "manual"
                   PROVE  FALSE
        BY DEF LegacyAlone
      <4>1. id # place
        BY <2>1, <2>4, <3>3
      <4>2. id \in Ids /\ id \in Present(workflows) /\ workflows[id].name = "legacy"
        BY <1>p, <3>2, <4>1
      <4>3. CASE other = place
        <5>1. w.payload.name = "manual"
          BY <3>3, <4>3
        <5>2. w.do # "post" /\ w.id = id
          BY <2>1, <2>4, <2>l, <4>2, <5>1 DEF LegacyFit
        <5> QED BY <2>2, <2>4, <4>1, <5>2
      <4>4. CASE other # place
        BY <3>2, <4>2, <4>4 DEF NamesInv, LegacyAlone
      <4> QED BY <4>3, <4>4
    <3> QED BY <3>5, <3>6 DEF NamesInv
  <2>5. CASE w.do = "post"
    <3>1. FirstOf(Unused) \notin Present(workflows)
      BY <2>1, <2>5 DEF Present
    <3> QED BY <2>1, <2>4, <2>5, <3>1
  <2>6. CASE w.do = "put"
    BY <2>1, <2>4, <2>6
  <2> QED BY <2>2, <2>3, <2>5, <2>6
<1>3. CASE Edited
  <2>1. PICK place \in Ids, w \in Workflow \cup {Deleted} :
            /\ workflows' = [workflows EXCEPT ![place] = w]
            /\ \/ workflows[place] = None /\ w # Deleted /\ w.name = "user"
               \/ place \in Present(workflows) /\ w = Deleted
               \/ place \in Present(workflows) /\ w = [workflows[place] EXCEPT !.enabled = ~@]
               \/ /\ workflows[place] \in Workflow /\ w \in Workflow
                  /\ w.name = workflows[place].name \/ w.name \in FreeNames(place)
    BY <1>3 DEF Edited
  <2>2. \A id \in Ids : id # place => workflows'[id] = workflows[id]
    BY <1>0, <2>1
  <2>3. workflows'[place] = w
    BY <1>0, <2>1
  <2>4. CASE w = Deleted \/ w.name = "user"
    <3>1. \A id \in Present(workflows') : workflows'[id].name \in ManagedNames
             => id # place /\ id \in Present(workflows)
      BY <1>p, <2>2, <2>3, <2>4, WorkflowFacts
    <3>2. "legacy" \in ManagedNames /\ "manual" \in ManagedNames
      BY DEF ManagedNames
    <3>3. UniqueNames(workflows')
      BY <1>p, <2>2, <3>1 DEF NamesInv, UniqueNames
    <3>4. LegacyAlone(workflows')
      BY <1>p, <2>2, <3>1, <3>2 DEF NamesInv, LegacyAlone
    <3> QED BY <3>3, <3>4 DEF NamesInv
  <2>5. ASSUME workflows[place] \in Workflow, w.name = workflows[place].name
        PROVE  NamesInv'
    <3>1. workflows[place] \in Workflow /\ w.name = workflows[place].name
      BY <2>5
    <3>2. \A id \in Present(workflows') :
             id \in Present(workflows) /\ workflows'[id].name = workflows[id].name
      BY <1>p, <2>2, <2>3, <2>5, <3>1
    <3> QED BY <3>2 DEF NamesInv, UniqueNames, LegacyAlone
  <2>6. CASE place \in Present(workflows) /\ w = [workflows[place] EXCEPT !.enabled = ~@]
    <3>1. workflows[place] \in Workflow /\ w.name = workflows[place].name
      BY <1>p, <2>6 DEF Workflow
    <3> QED BY <2>5, <3>1
  <2>7. ASSUME workflows[place] \in Workflow, w \in Workflow, w.name \in FreeNames(place),
               w.name # "user"
        PROVE  NamesInv'
    <3>1. /\ w.name \in ManagedNames \ {"legacy"}
          /\ Named(workflows, {w.name}) \subseteq {place}
          /\ w.name = "manual" => Named(workflows, {"legacy"}) \subseteq {place}
      BY <2>7 DEF FreeNames
    <3>2. \A id \in Present(workflows') \ {place} :
             id \in Present(workflows) /\ workflows'[id] = workflows[id]
      BY <1>p, <2>2
    <3>3. \A id \in Present(workflows') \ {place} :
             /\ workflows'[id].name # w.name
             /\ w.name = "manual" => workflows'[id].name # "legacy"
      BY <3>1, <3>2 DEF Named
    <3>4. UniqueNames(workflows')
      BY <2>3, <3>2, <3>3 DEF NamesInv, UniqueNames
    <3>5. LegacyAlone(workflows')
      BY <2>3, <3>1, <3>2, <3>3 DEF NamesInv, LegacyAlone
    <3> QED BY <3>4, <3>5 DEF NamesInv
  <2> QED BY <2>1, <2>4, <2>5, <2>6, <2>7
<1> QED BY <1>1, <1>2, <1>3, ListSteps

(* The writes still to send after a step were to be sent before it, or have *)
(* just been planned for the workflows as they are.                         *)
LEMMA TodoSteps ==
    ASSUME TypeOK, [Next]_vars, NEW c \in Calls, calls'[c] # Idle
    PROVE  \/ Writes(calls'[c].todo) = {}
           \/ Running(c) /\ Writes(calls'[c].todo) \subseteq Writes(calls[c].todo)
           \/ /\ workflows' = workflows
              /\ \E i \in Slugs, s \in ValidSettings : calls'[c].todo = Plan(workflows, i, s)
<1>0. calls \in CallTable
  BY TypeParts
<1>1. CASE Begins(c)
  BY <1>1, NoWrite DEF Begins, Started
<1>2. CASE Stays(c)
  <2>1. calls[c] \in CallType
    BY <1>0, <1>2 DEF Stays, Running, CallTable
  <2> QED BY <1>2, <2>1, CallFacts, TouchedFacts DEF Stays
<1>3. CASE List(c)
  <2>1. calls[c] \in CallType
    BY <1>3, WorkingCall DEF List
  <2>2. calls[c].slug \in Slugs /\ calls[c].settings \in ValidSettings
    BY <2>1, CallFacts, ProvisioningAssumption
  <2>3. calls'[c] = [calls[c] EXCEPT !.stage = "write",
                      !.todo = Plan(workflows, calls[c].slug, calls[c].settings),
                      !.settings = DefaultSettings,
                      !.again = calls[c].alone /\ provisioned[calls[c].slug],
                      !.edited = {}]
    BY <1>0, <1>3 DEF List, CallTable
  <2>4. calls'[c].todo = Plan(workflows, calls[c].slug, calls[c].settings)
    BY <2>1, <2>3 DEF CallType
  <2> QED BY <1>3, <2>2, <2>4 DEF List
<1>4. CASE WriteNext(c)
  <2>1. calls[c] \in CallType /\ Running(c) /\ calls[c].todo # << >>
    BY <1>4, WorkingCall DEF WriteNext
  <2>2. PICK table \in {calls, Disturbed(Calls \ {c})} :
            calls' = [table EXCEPT ![c].todo = Tail(@)]
    BY <1>4 DEF WriteNext
  <2>3. table \in CallTable /\ table[c] = calls[c]
    <3>1. calls[c] # Idle /\ c \notin Calls \ {c}
      BY <2>1, CallFacts
    <3>2. Disturbed(Calls \ {c}) \in CallTable /\ Disturbed(Calls \ {c})[c] = calls[c]
      BY <1>0, <3>1, InterruptedCalls
    <3> QED BY <1>0, <3>2
  <2>4. calls'[c] = [calls[c] EXCEPT !.todo = Tail(@)]
    BY <2>2, <2>3 DEF CallTable
  <2>5. calls'[c].todo = Tail(calls[c].todo)
    BY <2>1, <2>4 DEF CallType
  <2>6. Writes(Tail(calls[c].todo)) \subseteq Writes(calls[c].todo)
    BY <2>1, CallFacts, TodoFacts
  <2> QED BY <2>1, <2>5, <2>6
<1> QED BY <1>1, <1>2, <1>3, <1>4, CallSteps

LEMMA FitsStay ==
    ASSUME TypeOK, PlansInv, [Next]_vars, NEW t, WritesFit(t, workflows), LegacyFit(t, workflows),
           NEW rest, Writes(rest) \subseteq Writes(t)
    PROVE  WritesFit(rest, workflows') /\ LegacyFit(rest, workflows')
<1>1. ASSUME NEW w \in Writes(rest), w.do # "post" PROVE workflows'[w.id] # None
  <2>1. w.id \in Ids /\ workflows[w.id] # None
    BY <1>1 DEF WritesFit
  <2> QED BY <2>1, ListFollows
<1>2. WritesFit(rest, workflows')
  BY <1>1 DEF WritesFit
<1>3. LegacyFit(rest, workflows')
  BY ListFollows DEF LegacyFit
<1> QED BY <1>2, <1>3

LEMMA PlanFits ==
    ASSUME workflows \in Listings, NamesInv, NEW i \in Slugs, NEW s \in ValidSettings
    PROVE  /\ WritesFit(Plan(workflows, i, s), workflows)
           /\ LegacyFit(Plan(workflows, i, s), workflows)
<1>1. WritesFit(Plan(workflows, i, s), workflows)
  BY PlanTargets, WorkflowFacts DEF WritesFit
<1>2. LegacyFit(Plan(workflows, i, s), workflows)
  <2> SUFFICES ASSUME NEW w \in Writes(Plan(workflows, i, s)), NEW old \in Ids,
                      workflows[old].name = "legacy", w.do # "disable", w.payload.name = "manual"
               PROVE  w.do # "post" /\ w.id = old
    BY DEF LegacyFit
  <2>1. old \in Present(workflows)
    BY WorkflowFacts DEF Present
  <2> QED BY <2>1, PlanManual DEF NamesInv
<1> QED BY <1>1, <1>2

LEMMA PlansStep ==
    ASSUME TypeOK, NamesInv, PlansInv, [Next]_vars
    PROVE  PlansInv'
<1> SUFFICES ASSUME NEW c \in Calls, calls'[c] # Idle
             PROVE  /\ WritesFit(calls'[c].todo, workflows')
                    /\ LegacyFit(calls'[c].todo, workflows')
  BY DEF PlansInv, Running
<1>1. CASE Writes(calls'[c].todo) = {}
  BY <1>1 DEF WritesFit, LegacyFit
<1>2. CASE Running(c) /\ Writes(calls'[c].todo) \subseteq Writes(calls[c].todo)
  BY <1>2, FitsStay DEF PlansInv
<1>3. CASE /\ workflows' = workflows
           /\ \E i \in Slugs, s \in ValidSettings : calls'[c].todo = Plan(workflows, i, s)
  BY <1>3, PlanFits, TypeParts
<1> QED BY <1>1, <1>2, <1>3, TodoSteps

(* A call that stays knows what has been made another workflow. *)
LEMMA TargetStays ==
    ASSUME TypeOK, PlansInv, [Next]_vars, NEW old, NEW new,
           NEW w \in WriteType, w.do # "post" => w.id \in Ids /\ workflows[w.id] # None,
           Target(w, old, workflows),
           new.slug = old.slug, old.edited \subseteq new.edited,
           \A id \in Ids : Anew(id) => id \in new.edited
    PROVE  Target(w, new, workflows')
<1> SUFFICES ASSUME w.do # "post", w.id \notin new.edited PROVE Target(w, new, workflows')
  BY DEF Target
<1>1. Follows(workflows'[w.id], workflows[w.id])
  BY ListFollows
<1> DEFINE now == workflows'[w.id]
           was == workflows[w.id]
<1>2. /\ was # None
      /\ was = Deleted \/ was.name \in ManagedNames \/ (w.do = "disable" /\ SendsEvents(was, new.slug))
      /\ Follows(now, was)
  BY <1>1 DEF Target
<1>3. now \in Workflow \cup {None, Deleted}
  BY TypeStep DEF TypeOK
<1> SUFFICES \/ now = Deleted
             \/ now.name \in ManagedNames
             \/ w.do = "disable" /\ SendsEvents(now, new.slug)
  BY DEF Target
<1> HIDE DEF now, was
<1>4. Deleted # None /\ Deleted.name = "deleted" /\ "deleted" \notin ManagedNames
  BY WorkflowFacts
<1>5. CASE now = was \/ now = Deleted
  BY <1>2, <1>4, <1>5
<1>6. CASE now # None /\ now.name \in ManagedNames
  BY <1>6
<1>7. CASE now # None /\ now.name = was.name /\ now.url = was.url /\ now.kind = was.kind
  <2>1. CASE was = Deleted
    <3>1. now.name = "deleted"
      BY <1>4, <1>7, <2>1
    <3>2. now \notin Workflow
      BY <3>1, WorkflowFacts DEF ManagedNames
    <3> QED BY <1>3, <1>7, <3>2
  <2>2. CASE was.name \in ManagedNames
    BY <1>7, <2>2
  <2>3. CASE w.do = "disable" /\ SendsEvents(was, new.slug)
    BY <1>7, <2>3 DEF SendsEvents
  <2> QED BY <1>2, <2>1, <2>2, <2>3
<1> QED BY <1>2, <1>5, <1>6, <1>7 DEF Follows

-----------------------------------------------------------------------------
(* The promise of a call that nothing has disturbed.                       *)
LEMMA ListResult ==
    ASSUME TypeOK, NEW c \in Calls, List(c)
    PROVE  /\ calls[c] \in CallType /\ calls[c].stage = "list" /\ Running(c)
           /\ calls'[c].stage = "write" /\ calls'[c].slug = calls[c].slug
           /\ calls'[c].alone = calls[c].alone
           /\ calls'[c].todo = Plan(workflows, calls[c].slug, calls[c].settings)
           /\ calls'[c].again = (calls[c].alone /\ provisioned[calls[c].slug])
           /\ calls'[c].edited = {} /\ workflows' = workflows /\ rows' = rows
<1>1. calls[c] \in CallType /\ calls \in CallTable /\ Running(c)
  BY WorkingCall, TypeParts DEF List
<1>2. calls'[c] = [calls[c] EXCEPT !.stage = "write",
                      !.todo = Plan(workflows, calls[c].slug, calls[c].settings),
                      !.settings = DefaultSettings,
                      !.again = calls[c].alone /\ provisioned[calls[c].slug],
                      !.edited = {}]
  BY <1>1 DEF List, CallTable
<1>3. /\ calls'[c].stage = "write" /\ calls'[c].slug = calls[c].slug
      /\ calls'[c].alone = calls[c].alone
      /\ calls'[c].todo = Plan(workflows, calls[c].slug, calls[c].settings)
      /\ calls'[c].again = (calls[c].alone /\ provisioned[calls[c].slug])
      /\ calls'[c].edited = {}
  BY <1>1, <1>2 DEF CallType
<1> QED BY <1>1, <1>3 DEF List

LEMMA WriteResult ==
    ASSUME TypeOK, NEW c \in Calls, WriteNext(c)
    PROVE  /\ calls[c] \in CallType /\ calls[c].stage = "write" /\ Running(c) /\ Sent(c)
           /\ calls'[c].stage = "write" /\ calls'[c].slug = calls[c].slug
           /\ calls'[c].alone = calls[c].alone /\ calls'[c].again = calls[c].again
           /\ calls'[c].todo = Tail(calls[c].todo) /\ calls'[c].edited = calls[c].edited
           /\ rows' = rows
<1>1. calls[c] \in CallType /\ calls \in CallTable /\ Running(c)
  BY WorkingCall, TypeParts DEF WriteNext
<1>2. PICK table \in {calls, Disturbed(Calls \ {c})} :
          calls' = [table EXCEPT ![c].todo = Tail(@)]
  BY DEF WriteNext
<1>3. table \in CallTable /\ table[c] = calls[c]
  <2>1. calls[c] # Idle /\ c \notin Calls \ {c}
    BY <1>1, CallFacts
  <2>2. Disturbed(Calls \ {c}) \in CallTable /\ Disturbed(Calls \ {c})[c] = calls[c]
    BY <1>1, <2>1, InterruptedCalls
  <2> QED BY <1>1, <2>2
<1>4. calls'[c] = [calls[c] EXCEPT !.todo = Tail(@)]
  BY <1>2, <1>3 DEF CallTable
<1>5. /\ calls'[c].stage = calls[c].stage /\ calls'[c].slug = calls[c].slug
      /\ calls'[c].alone = calls[c].alone /\ calls'[c].again = calls[c].again
      /\ calls'[c].todo = Tail(calls[c].todo) /\ calls'[c].edited = calls[c].edited
  BY <1>1, <1>4 DEF CallType
<1> QED BY <1>1, <1>5 DEF WriteNext, Sent, Change

LEMMA StayingAlone ==
    ASSUME TypeOK, NEW c \in Calls, Stays(c), calls'[c].alone
    PROVE  /\ calls[c] \in CallType /\ Running(c) /\ calls[c].slug \in Slugs
           /\ calls'[c] = calls[c] /\ workflows' = workflows
           /\ rows'[calls[c].slug] = rows[calls[c].slug]
<1>1. calls[c] \in CallType
  BY DEF TypeOK, Stays, Running
<1> QED BY <1>1, CallFacts, TouchedFacts DEF Stays

LEMMA TargetsStep ==
    ASSUME TypeOK, PlansInv, TargetsInv, [Next]_vars
    PROVE  TargetsInv'
<1> SUFFICES ASSUME NEW c \in Calls, calls'[c] # Idle, NEW w \in Writes(calls'[c].todo)
             PROVE  Target(w, calls'[c], workflows')
  BY DEF TargetsInv, Running
<1>0. workflows \in Listings
  BY TypeParts
<1>1. CASE Begins(c)
  BY <1>1, NoWrite DEF Begins, Started
<1>2. ASSUME Running(c), calls'[c].slug = calls[c].slug, w \in Writes(calls[c].todo),
             calls[c].edited \subseteq calls'[c].edited
      PROVE  Target(w, calls'[c], workflows')
  <2>1. calls[c] \in CallType
    BY <1>2 DEF TypeOK, Running
  <2>2. w \in WriteType
    BY <1>2, <2>1, CallFacts DEF Writes
  <2>3. w.do # "post" => w.id \in Ids /\ workflows[w.id] # None
    BY <1>2 DEF PlansInv, WritesFit
  <2>4. Target(w, calls[c], workflows)
    BY <1>2 DEF TargetsInv
  <2>5. \A id \in Ids : Anew(id) => id \in calls'[c].edited
    BY DEF Anew
  <2> QED BY <1>2, <2>2, <2>3, <2>4, <2>5, TargetStays
<1>3. CASE Stays(c)
  <2>1. calls[c] \in CallType /\ Running(c)
    BY <1>3 DEF TypeOK, Stays, Running
  <2>2. /\ calls'[c].slug = calls[c].slug /\ calls'[c].todo = calls[c].todo
        /\ calls[c].edited \subseteq calls'[c].edited
    BY <1>3, <2>1, CallFacts, TouchedFacts DEF Stays
  <2> QED BY <1>2, <2>1, <2>2
<1>4. CASE List(c)
  <2>1. /\ calls[c] \in CallType /\ calls'[c].slug = calls[c].slug /\ workflows' = workflows
        /\ calls'[c].todo = Plan(workflows, calls[c].slug, calls[c].settings)
    BY <1>4, ListResult
  <2>2. calls[c].slug \in Slugs /\ calls[c].settings \in ValidSettings
    BY <2>1, CallFacts, ProvisioningAssumption
  <2>3. w.do # "post" =>
           \/ workflows[w.id].name \in ManagedNames
           \/ w.do = "disable" /\ SendsEvents(workflows[w.id], calls[c].slug)
    BY <1>0, <2>1, <2>2, PlanTargets
  <2> QED BY <2>1, <2>3 DEF Target
<1>5. CASE WriteNext(c)
  <2>1. /\ calls[c] \in CallType /\ Running(c) /\ Sent(c)
        /\ calls'[c].slug = calls[c].slug /\ calls'[c].edited = calls[c].edited
        /\ calls'[c].todo = Tail(calls[c].todo)
    BY <1>5, WriteResult
  <2>2. Writes(Tail(calls[c].todo)) \subseteq Writes(calls[c].todo)
    BY <2>1, CallFacts, TodoFacts DEF Sent
  <2> QED BY <1>2, <2>1, <2>2
<1> QED BY <1>1, <1>3, <1>4, <1>5, CallSteps

RowInv ==
    /\ \A i \in Slugs : provisioned[i] => rows[i].state = "row"
    /\ \A c \in Calls : Alone(c) =>
          /\ rows[calls[c].slug].state = "row"
          /\ calls[c].stage = "list" => calls[c].settings = rows[calls[c].slug].settings

LEMMA PromiseSteps ==
    ASSUME TypeOK, RowInv, [Next]_vars, NEW i \in Slugs, provisioned'[i]
    PROVE  \/ provisioned[i] /\ workflows' = workflows /\ rows'[i] = rows[i]
           \/ \E c \in Calls : Succeed(c) /\ calls[c].slug = i /\ calls[c].alone
<1> DEFINE Holds == provisioned[i] /\ workflows' = workflows /\ rows'[i] = rows[i]
<1>0. /\ rows \in RowTable /\ workflows \in Listings /\ calls \in CallTable
      /\ provisioned \in [Slugs -> BOOLEAN]
  BY TypeParts
<1>1. ASSUME NEW d \in Calls, NEW j \in Slugs, Create(d, j) PROVE Holds
  <2>1. provisioned[i] /\ workflows' = workflows
    BY <1>1 DEF Create
  <2>2. rows[i].state = "row" /\ rows[j].state = "free"
    BY <1>1, <2>1 DEF RowInv, Create
  <2>3. rows'[i] = rows[i]
    BY <1>0, <1>1, <2>2 DEF Create, RowTable
  <2> QED BY <2>1, <2>3
<1>2. ASSUME NEW d \in Calls, Running(d), Fail(d) PROVE Holds
  <2>1. calls[d].slug \in Slugs /\ workflows' = workflows
    BY <1>0, <1>2, CallFacts DEF Running, CallTable, Fail
  <2>2. CASE calls[d].creating
    <3>1. i # calls[d].slug /\ provisioned[i]
      BY <1>0, <1>2, <2>1, <2>2 DEF Fail
    <3>2. rows'[i] = rows[i]
      BY <1>0, <1>2, <2>1, <2>2, <3>1 DEF Fail, RowTable
    <3> QED BY <2>1, <3>1, <3>2
  <2>3. CASE ~calls[d].creating
    BY <1>2, <2>1, <2>3 DEF Fail
  <2> QED BY <2>2, <2>3
<1>3. ASSUME NEW d \in Calls, List(d) \/ CallDies(d) PROVE Holds
  BY <1>3 DEF List, CallDies
<1>p. ASSUME NEW d \in Calls, NEW j \in Slugs, Provision(d, j) PROVE Holds
  BY <1>p DEF Provision
<1>4. ASSUME NEW d \in Calls, WriteNext(d) PROVE Holds
  <2>1. workflows' = workflows
    BY <1>4 DEF WriteNext, Change
  <2> QED BY <1>4, <2>1 DEF WriteNext, Change
<1>5. ASSUME NEW d \in Calls, WriteRefused(d) PROVE Holds
  BY <1>2, <1>5, WorkingCall DEF WriteRefused
<1>6. ASSUME NEW d \in Calls, RequestFails(d) PROVE Holds
  BY <1>2, <1>6 DEF RequestFails
<1>7. ASSUME NEW d \in Calls, AnswerLost(d) PROVE Holds
  BY <1>7 DEF AnswerLost
<1>8. ASSUME NEW d \in Calls, Succeed(d)
      PROVE  Holds \/ (Succeed(d) /\ calls[d].slug = i /\ calls[d].alone)
  BY <1>0, <1>8 DEF Succeed
<1>9. ASSUME NEW j \in Slugs, NEW s \in Settings, UpdateInstance(j, s) PROVE Holds
  <2>1. i # j /\ provisioned[i]
    BY <1>0, <1>9 DEF UpdateInstance
  <2> QED BY <1>0, <1>9, <2>1 DEF UpdateInstance, RowTable
<1>10. ASSUME NEW j \in Slugs, DeleteInstance(j) PROVE Holds
  <2>1. i # j /\ provisioned[i]
    BY <1>0, <1>10 DEF DeleteInstance
  <2> QED BY <1>0, <1>10, <2>1 DEF DeleteInstance, RowTable
<1>11. ASSUME NEW id, NEW w, NEW anew, UserEdits(id, w, anew) PROVE Holds
  <2>1. workflows' = workflows
    BY <1>11 DEF UserEdits, Change
  <2> QED BY <1>11, <2>1 DEF UserEdits, Change
<1>12. CASE UserCreates \/ UserSwitches \/ UserDeletes \/ UserChanges
  BY <1>11, <1>12 DEF UserCreates, UserSwitches, UserDeletes, UserChanges
<1>13. CASE UNCHANGED vars
  BY <1>13 DEF vars
<1> QED BY <1>1, <1>3, <1>p, <1>4, <1>5, <1>6, <1>7, <1>8, <1>9, <1>10, <1>12, <1>13
        DEF Next, CallStep

LEMMA RowStep ==
    ASSUME TypeOK, RowInv, [Next]_vars
    PROVE  RowInv'
<1>1. ASSUME NEW i \in Slugs, provisioned'[i] PROVE rows'[i].state = "row"
  <2>1. CASE provisioned[i] /\ rows'[i] = rows[i]
    BY <2>1 DEF RowInv
  <2>2. ASSUME NEW c \in Calls, Succeed(c), calls[c].slug = i, calls[c].alone
        PROVE  rows'[i].state = "row"
    BY <2>2, WorkingCall DEF RowInv, Alone, Succeed
  <2> QED BY <1>1, <2>1, <2>2, PromiseSteps
<1>2. ASSUME NEW c \in Calls, calls'[c] # Idle, calls'[c].alone
      PROVE  /\ rows'[calls'[c].slug].state = "row"
             /\ calls'[c].stage = "list" => calls'[c].settings = rows'[calls'[c].slug].settings
  <2>1. CASE Begins(c)
    BY <2>1 DEF Begins, Started
  <2>2. CASE Stays(c)
    BY <1>2, <2>2, StayingAlone DEF RowInv, Alone
  <2>3. CASE List(c)
    BY <1>2, <2>3, ListResult DEF RowInv, Alone
  <2>4. CASE WriteNext(c)
    BY <1>2, <2>4, WriteResult DEF RowInv, Alone
  <2> QED BY <1>2, <2>1, <2>2, <2>3, <2>4, CallSteps
<1> QED BY <1>1, <1>2 DEF RowInv, Alone, Running

(* The workflows that take part are exactly the wanted ones. *)
EffectIn(list, i) == {w \in {list[id] : id \in Present(list)} : TakesPart(w, i)}
Kept(list, i, wanted) ==
    /\ \A id \in Present(list) : TakesPart(list[id], i) => list[id] \in wanted
    /\ \A e \in wanted : \E id \in Present(list) : list[id] = e

LEMMA EffectiveMeans ==
    ASSUME NEW list, NEW i \in Slugs, NEW s \in ValidSettings
    PROVE  EffectIn(list, i) = Expected(i, s) <=> Kept(list, i, Expected(i, s))
<1>1. \A e \in Expected(i, s) : TakesPart(e, i)
  BY PayloadFacts DEF TakesPart
<1>2. ASSUME EffectIn(list, i) = Expected(i, s) PROVE Kept(list, i, Expected(i, s))
  BY <1>2 DEF EffectIn, Kept
<1>3. ASSUME Kept(list, i, Expected(i, s)) PROVE EffectIn(list, i) = Expected(i, s)
  <2>1. EffectIn(list, i) \subseteq Expected(i, s)
    BY <1>3 DEF EffectIn, Kept
  <2>2. Expected(i, s) \subseteq EffectIn(list, i)
    BY <1>1, <1>3 DEF EffectIn, Kept
  <2> QED BY <2>1, <2>2
<1> QED BY <1>2, <1>3

(* What is still to be sent turns the workflows into the wanted ones. *)
Completes(t, list, i, wanted) ==
    /\ OneWriteEach(t)
    /\ Payloads(t) \subseteq wanted
    /\ \A id \in Present(list) : TakesPart(list[id], i) => list[id] \in wanted \/ id \in Targets(t)
    /\ \A e \in wanted : \/ e \in Payloads(t)
                         \/ \E id \in Present(list) : list[id] = e /\ id \notin Targets(t)

AloneInv ==
    \A c \in Calls : Alone(c) /\ calls[c].stage = "write" =>
        Completes(calls[c].todo, workflows, calls[c].slug,
                  Expected(calls[c].slug, rows[calls[c].slug].settings))

(* After a success every write repeats what Paperless has. *)
Repeats(t, list) ==
    \A w \in Writes(t) : w.do # "disable" /\ w.do # "post" /\ list[w.id] = w.payload
RepeatInv ==
    \A c \in Calls : Alone(c) /\ calls[c].stage = "write" /\ calls[c].again =>
        Repeats(calls[c].todo, workflows)

LEMMA PlanCompletes ==
    ASSUME NEW list \in Listings, UniqueNames(list), LegacyAlone(list),
           NEW i \in Slugs, NEW s \in ValidSettings
    PROVE  Completes(Plan(list, i, s), list, i, Expected(i, s))
<1>1. OneWriteEach(Plan(list, i, s)) /\ Payloads(Plan(list, i, s)) = Expected(i, s)
  BY PlanWrites
<1>2. \A id \in Present(list) : TakesPart(list[id], i) => id \in Targets(Plan(list, i, s))
  BY PlanCovers
<1> QED BY <1>1, <1>2 DEF Completes

LEMMA WriteCompletes ==
    ASSUME TypeOK, PlansInv, NEW c \in Calls, Sent(c), NEW i, NEW wanted,
           Completes(calls[c].todo, workflows, i, wanted)
    PROVE  Completes(Tail(calls[c].todo), workflows', i, wanted)
<1> DEFINE t == calls[c].todo
           w == Head(t)
           rest == Tail(t)
<1>0. workflows \in [Ids -> Workflow \cup {None, Deleted}] /\ workflows \in Listings
  BY TypeParts DEF Listings
<1>1. /\ w \in WriteType /\ Running(c)
      /\ w.do # "disable" => w.payload \in Workflow
      /\ w.do = "post" => /\ FirstOf(Unused) \in Ids /\ workflows[FirstOf(Unused)] = None
                          /\ workflows' = [workflows EXCEPT ![FirstOf(Unused)] = w.payload]
      /\ w.do # "post" => w.id \in Ids /\ workflows[w.id] \in Workflow
      /\ w.do = "put" => workflows' = [workflows EXCEPT ![w.id] = w.payload]
      /\ w.do = "disable" => /\ workflows' = [workflows EXCEPT ![w.id].enabled = FALSE]
                             /\ [workflows[w.id] EXCEPT !.enabled = FALSE] \in Workflow
  BY SentWrite
<1>2. calls[c] \in CallType /\ t \in Seq(WriteType) /\ t # << >>
  BY WorkingCall, CallFacts DEF Sent
<1>3. /\ Writes(t) = {w} \cup Writes(rest)
      /\ OneWriteEach(rest)
      /\ w.do # "post" => w.id \notin Targets(rest)
  BY <1>2, TodoFacts DEF Completes
<1>4. \A id \in Targets(rest) : workflows[id] # None
  <2>1. \A other \in Writes(rest) : other.do # "post" => workflows[other.id] # None
    BY <1>1, <1>3 DEF PlansInv, WritesFit
  <2> QED BY <2>1 DEF Targets
<1>c. /\ Payloads(t) \subseteq wanted
      /\ \A id \in Present(workflows) :
            TakesPart(workflows[id], i) => workflows[id] \in wanted \/ id \in Targets(t)
      /\ \A e \in wanted :
            \/ e \in Payloads(t)
            \/ \E id \in Present(workflows) : workflows[id] = e /\ id \notin Targets(t)
  BY DEF Completes
<1>5. /\ w.do # "post" => Targets(t) = {w.id} \cup Targets(rest)
      /\ w.do = "post" => Targets(t) = Targets(rest)
      /\ w.do # "disable" => Payloads(t) = {w.payload} \cup Payloads(rest)
      /\ w.do = "disable" => Payloads(t) = Payloads(rest)
  <2>1. \A x \in Writes(t) : x = w \/ x \in Writes(rest)
    BY <1>3
  <2>2. w \in Writes(t) /\ Writes(rest) \subseteq Writes(t)
    BY <1>3
  <2> HIDE DEF w, rest, t
  <2>3. w.do # "post" => Targets(t) = {w.id} \cup Targets(rest)
    BY <2>1, <2>2 DEF Targets
  <2>4. w.do = "post" => Targets(t) = Targets(rest)
    BY <2>1, <2>2 DEF Targets
  <2>5. w.do # "disable" => Payloads(t) = {w.payload} \cup Payloads(rest)
    BY <2>1, <2>2 DEF Payloads
  <2>6. w.do = "disable" => Payloads(t) = Payloads(rest)
    BY <2>1, <2>2 DEF Payloads
  <2> QED BY <2>3, <2>4, <2>5, <2>6
<1> SUFFICES Completes(rest, workflows', i, wanted)
  OBVIOUS
<1> HIDE DEF w, rest, t
<1>6. \A list \in Listings : \A id \in Ids : id \in Present(list) <=> list[id] \in Workflow
  BY PresentFacts
<1>i. \A list \in Listings : Present(list) \subseteq Ids
  BY PresentFacts
<1>7. ASSUME w.do # "disable", NEW place \in Ids,
             workflows' = [workflows EXCEPT ![place] = w.payload],
             w.do = "put" => place = w.id,
             w.do = "post" => workflows[place] = None
      PROVE  Completes(rest, workflows', i, wanted)
  <2>1. workflows' \in Listings
    BY <1>0, <1>1, <1>7 DEF Listings
  <2>2. workflows'[place] = w.payload /\ w.payload \in Workflow /\ place \in Present(workflows')
    BY <1>0, <1>1, <1>6, <1>7, <2>1
  <2>3. place \notin Targets(rest)
    BY <1>1, <1>3, <1>4, <1>7 DEF WriteType
  <2>4. w.payload \in wanted /\ Payloads(rest) \subseteq wanted
    BY <1>5, <1>7, <1>c
  <2>5. \A id \in Ids \ {place} : /\ workflows'[id] = workflows[id]
                                  /\ id \in Present(workflows') <=> id \in Present(workflows)
    BY <1>0, <1>6, <1>7, <2>1
  <2>6. \A id \in Targets(t) : id \in Targets(rest) \/ id = place
    BY <1>1, <1>5, <1>7 DEF WriteType
  <2>7. ASSUME NEW id \in Present(workflows'), TakesPart(workflows'[id], i)
        PROVE  workflows'[id] \in wanted \/ id \in Targets(rest)
    <3>1. CASE id = place
      BY <2>2, <2>4, <3>1
    <3>2. CASE id # place
      BY <1>c, <1>i, <2>1, <2>5, <2>6, <2>7, <3>2
    <3> QED BY <3>1, <3>2
  <2>8. ASSUME NEW e \in wanted
        PROVE  \/ e \in Payloads(rest)
               \/ \E id \in Present(workflows') : workflows'[id] = e /\ id \notin Targets(rest)
    <3>1. CASE e \in Payloads(t)
      <4>1. e = w.payload \/ e \in Payloads(rest)
        BY <1>5, <1>7, <3>1
      <4> QED BY <2>2, <2>3, <4>1
    <3>2. CASE e \notin Payloads(t)
      <4>1. PICK id \in Present(workflows) : workflows[id] = e /\ id \notin Targets(t)
        BY <1>c, <3>2
      <4>2. id # place
        <5>1. CASE w.do = "post"
          BY <1>0, <1>6, <1>7, <4>1, <5>1, WorkflowFacts
        <5>2. CASE w.do # "post"
          <6>1. w.id = place
            BY <1>1, <1>7, <5>2 DEF WriteType
          <6> QED BY <1>5, <4>1, <5>2, <6>1
        <5> QED BY <5>1, <5>2
      <4>3. id \in Ids /\ id \notin Targets(rest)
        BY <1>0, <1>5, <1>i, <4>1
      <4> QED BY <2>5, <4>1, <4>2, <4>3
    <3> QED BY <3>1, <3>2
  <2> QED BY <1>3, <2>4, <2>7, <2>8 DEF Completes
<1>8. CASE w.do = "disable"
  <2> DEFINE off == [workflows[w.id] EXCEPT !.enabled = FALSE]
  <2>1. workflows' = [workflows EXCEPT ![w.id] = off] /\ off \in Workflow /\ ~off.enabled
    BY <1>0, <1>1, <1>8 DEF Workflow
  <2> HIDE DEF off
  <2>2. workflows' \in Listings /\ workflows'[w.id] = off
    BY <1>0, <1>1, <1>8, <2>1 DEF Listings
  <2>3. \A id \in Ids \ {w.id} : /\ workflows'[id] = workflows[id]
                                 /\ id \in Present(workflows') <=> id \in Present(workflows)
    BY <1>0, <1>6, <2>1, <2>2
  <2>4. Targets(t) = {w.id} \cup Targets(rest) /\ Payloads(t) = Payloads(rest)
    BY <1>5, <1>8
  <2>5. ASSUME NEW id \in Present(workflows'), TakesPart(workflows'[id], i)
        PROVE  workflows'[id] \in wanted \/ id \in Targets(rest)
    <3>1. id # w.id
      BY <2>1, <2>2, <2>5 DEF TakesPart
    <3> QED BY <1>c, <1>i, <2>2, <2>3, <2>4, <2>5, <3>1
  <2>6. ASSUME NEW e \in wanted
        PROVE  \/ e \in Payloads(rest)
               \/ \E id \in Present(workflows') : workflows'[id] = e /\ id \notin Targets(rest)
    <3>1. CASE e \in Payloads(t)
      BY <2>4, <3>1
    <3>2. CASE e \notin Payloads(t)
      <4>1. PICK id \in Present(workflows) : workflows[id] = e /\ id \notin Targets(t)
        BY <1>c, <3>2
      <4>2. id # w.id /\ id \in Ids /\ id \notin Targets(rest)
        BY <1>0, <1>i, <2>4, <4>1
      <4> QED BY <2>3, <4>1, <4>2
    <3> QED BY <3>1, <3>2
  <2> QED BY <1>3, <1>c, <2>4, <2>5, <2>6 DEF Completes
<1>9. CASE w.do = "post"
  BY <1>1, <1>7, <1>9
<1>10. CASE w.do = "put"
  BY <1>1, <1>7, <1>10
<1> QED BY <1>1, <1>8, <1>9, <1>10 DEF WriteType

LEMMA RepeatedWrite ==
    ASSUME TypeOK, PlansInv, RepeatInv, NEW c \in Calls, Sent(c), Alone(c), calls[c].again
    PROVE  workflows' = workflows /\ Repeats(calls[c].todo, workflows)
<1> DEFINE w == Head(calls[c].todo)
<1>1. Repeats(calls[c].todo, workflows)
  BY DEF RepeatInv, Sent
<1>2. /\ w \in WriteType /\ w \in Writes(calls[c].todo)
      /\ w.do # "post" => w.id \in Ids
      /\ w.do = "put" => workflows' = [workflows EXCEPT ![w.id] = w.payload]
  BY SentWrite
<1>3. w.do = "put" /\ workflows[w.id] = w.payload
  BY <1>1, <1>2 DEF Repeats, WriteType
<1>4. [workflows EXCEPT ![w.id] = workflows[w.id]] = workflows
  BY DEF TypeOK
<1> QED BY <1>1, <1>2, <1>3, <1>4

LEMMA PromiseStep ==
    ASSUME TypeOK, NamesInv, PlansInv, RowInv, AloneInv, RepeatInv, ProvisionedAsConfigured,
           [Next]_vars
    PROVE  AloneInv' /\ RepeatInv' /\ ProvisionedAsConfigured'
<1>0. /\ rows \in RowTable /\ workflows \in Listings /\ calls \in CallTable
      /\ provisioned \in [Slugs -> BOOLEAN]
  BY TypeParts
<1>valid. \A i \in Slugs : rows[i].settings \in ValidSettings
  BY <1>0, ProvisioningAssumption DEF RowTable
<1>1. ASSUME NEW c \in Calls, calls'[c] # Idle, calls'[c].alone, calls'[c].stage = "write"
      PROVE  /\ Completes(calls'[c].todo, workflows', calls'[c].slug,
                          Expected(calls'[c].slug, rows'[calls'[c].slug].settings))
             /\ calls'[c].again => Repeats(calls'[c].todo, workflows')
  <2>1. CASE Begins(c)
    BY <1>1, <2>1 DEF Begins, Started
  <2>2. CASE Stays(c)
    <3>1. /\ calls'[c] = calls[c] /\ workflows' = workflows /\ Running(c)
          /\ rows'[calls[c].slug] = rows[calls[c].slug]
      BY <1>1, <2>2, StayingAlone
    <3>2. Alone(c) /\ calls[c].stage = "write"
      BY <1>1, <3>1 DEF Alone
    <3> QED BY <3>1, <3>2 DEF AloneInv, RepeatInv
  <2>3. CASE List(c)
    <3>1. /\ calls[c] \in CallType /\ calls[c].stage = "list" /\ Running(c)
          /\ calls'[c].slug = calls[c].slug /\ calls[c].alone
          /\ calls'[c].todo = Plan(workflows, calls[c].slug, calls[c].settings)
          /\ calls'[c].again = (calls[c].alone /\ provisioned[calls[c].slug])
          /\ workflows' = workflows /\ rows' = rows
      BY <1>1, <2>3, ListResult
    <3> DEFINE i == calls[c].slug
               s == rows[i].settings
    <3>2. i \in Slugs /\ s \in ValidSettings /\ calls[c].settings = s
      BY <1>valid, <3>1, CallFacts DEF RowInv, Alone
    <3>3. UniqueNames(workflows) /\ LegacyAlone(workflows)
      BY DEF NamesInv
    <3> HIDE DEF s, i
    <3>4. Completes(Plan(workflows, i, s), workflows, i, Expected(i, s))
      BY <1>0, <3>2, <3>3, PlanCompletes
    <3>5. ASSUME provisioned[i] PROVE Repeats(Plan(workflows, i, s), workflows)
      <4>1. EffectIn(workflows, i) = Expected(i, s)
        BY <3>2, <3>5 DEF ProvisionedAsConfigured, Effective, EffectIn, TakesPart, s
      <4>2. Kept(workflows, i, Expected(i, s))
        BY <3>2, <4>1, EffectiveMeans
      <4> QED BY <1>0, <3>2, <3>3, <4>2, PlanRepeats DEF Kept, Repeats
    <3>6. /\ calls'[c].todo = Plan(workflows, i, s) /\ calls'[c].slug = i
          /\ rows'[i].settings = s /\ workflows' = workflows
          /\ calls'[c].again => provisioned[i]
      BY <3>1, <3>2 DEF i, s
    <3> QED BY <3>4, <3>5, <3>6
  <2>4. CASE WriteNext(c)
    <3>1. /\ calls[c] \in CallType /\ calls[c].stage = "write" /\ Running(c) /\ Sent(c)
          /\ calls'[c].slug = calls[c].slug /\ calls[c].alone /\ calls'[c].again = calls[c].again
          /\ calls'[c].todo = Tail(calls[c].todo) /\ rows' = rows
      BY <1>1, <2>4, WriteResult
    <3>2. Completes(calls[c].todo, workflows, calls[c].slug,
                    Expected(calls[c].slug, rows[calls[c].slug].settings))
      BY <3>1 DEF AloneInv, Alone
    <3>3. Completes(Tail(calls[c].todo), workflows', calls[c].slug,
                    Expected(calls[c].slug, rows[calls[c].slug].settings))
      BY <3>1, <3>2, WriteCompletes
    <3>4. ASSUME calls[c].again PROVE Repeats(Tail(calls[c].todo), workflows')
      <4>1. workflows' = workflows /\ Repeats(calls[c].todo, workflows)
        BY <3>1, <3>4, RepeatedWrite DEF Alone, RepeatInv
      <4>2. Writes(Tail(calls[c].todo)) \subseteq Writes(calls[c].todo)
        BY <3>1, CallFacts, TodoFacts DEF Sent
      <4> QED BY <4>1, <4>2 DEF Repeats
    <3> QED BY <3>1, <3>3, <3>4
  <2> QED BY <1>1, <2>1, <2>2, <2>3, <2>4, CallSteps
<1>2. ASSUME NEW i \in Slugs, provisioned'[i]
      PROVE  Effective(i)' = Expected(i, rows'[i].settings)
  <2>0. Effective(i) = EffectIn(workflows, i) /\ Effective(i)' = EffectIn(workflows', i)
    BY DEF Effective, EffectIn, TakesPart
  <2>1. CASE provisioned[i] /\ workflows' = workflows /\ rows'[i] = rows[i]
    BY <2>0, <2>1 DEF ProvisionedAsConfigured
  <2>2. ASSUME NEW c \in Calls, Succeed(c), calls[c].slug = i, calls[c].alone
        PROVE  Effective(i)' = Expected(i, rows'[i].settings)
    <3>1. Alone(c) /\ calls[c].stage = "write" /\ calls[c].todo = << >>
          /\ workflows' = workflows /\ rows' = rows
      BY <2>2, WorkingCall DEF Alone, Succeed
    <3>2. Completes(<< >>, workflows, i, Expected(i, rows[i].settings))
      BY <2>2, <3>1 DEF AloneInv
    <3>3. Kept(workflows, i, Expected(i, rows[i].settings))
      BY <3>2, NoWrite DEF Completes, Kept
    <3>4. EffectIn(workflows, i) = Expected(i, rows[i].settings)
      BY <1>valid, <3>3, EffectiveMeans
    <3> QED BY <2>0, <3>1, <3>4
  <2> QED BY <1>2, <2>1, <2>2, PromiseSteps
<1>3. AloneInv'
  BY <1>1 DEF AloneInv, Alone, Running
<1>4. RepeatInv'
  BY <1>1 DEF RepeatInv, Alone, Running
<1>5. ProvisionedAsConfigured'
  BY <1>2 DEF ProvisionedAsConfigured
<1> QED BY <1>3, <1>4, <1>5

LEMMA ForeignKept ==
    ASSUME TypeOK, PlansInv, TargetsInv, NEW c \in Calls, Sent(c), NEW id \in Ids,
           Foreign(workflows[id], calls[c].slug), id \notin calls[c].edited
    PROVE  workflows'[id] = workflows[id]
<1> DEFINE w == Head(calls[c].todo)
<1>0. workflows \in [Ids -> Workflow \cup {None, Deleted}]
  BY TypeParts DEF Listings
<1>1. /\ w \in WriteType /\ w \in Writes(calls[c].todo) /\ Running(c)
      /\ w.do = "post" => /\ FirstOf(Unused) \in Ids /\ workflows[FirstOf(Unused)] = None
                          /\ workflows' = [workflows EXCEPT ![FirstOf(Unused)] = w.payload]
      /\ w.do = "put" => workflows' = [workflows EXCEPT ![w.id] = w.payload]
      /\ w.do = "disable" => workflows' = [workflows EXCEPT ![w.id].enabled = FALSE]
  BY SentWrite
<1>2. Target(w, calls[c], workflows)
  BY <1>1 DEF TargetsInv
<1> HIDE DEF w
<1>3. /\ workflows[id] # None /\ workflows[id] # Deleted /\ workflows[id].name \notin ManagedNames
      /\ ~SendsEvents(workflows[id], calls[c].slug)
  BY WorkflowFacts DEF Foreign, SendsEvents
<1>4. w.do # "post" => id # w.id
  BY <1>2, <1>3 DEF Target
<1>5. CASE w.do = "post"
  BY <1>0, <1>1, <1>3, <1>5
<1>6. CASE w.do # "post"
  BY <1>0, <1>1, <1>4, <1>6 DEF WriteType
<1> QED BY <1>5, <1>6

-----------------------------------------------------------------------------
(* The inductive invariant and the theorems.                               *)
IInv ==
    /\ TypeOK
    /\ NamesInv /\ PlansInv /\ TargetsInv
    /\ RowInv /\ AloneInv /\ RepeatInv
    /\ ProvisionedAsConfigured

LEMMA IInvInit == Init => IInv
<1>1. Init => RowInv /\ AloneInv /\ RepeatInv /\ ProvisionedAsConfigured
  BY DEF Init, RowInv, AloneInv, RepeatInv, Alone, Running, ProvisionedAsConfigured
<1> QED BY <1>1, TypeInit, NamesInit DEF IInv

LEMMA IInvStep == IInv /\ [Next]_vars => IInv'
<1> SUFFICES ASSUME IInv, [Next]_vars PROVE IInv'
  OBVIOUS
<1>1. TypeOK /\ TypeOK'
  BY TypeStep DEF IInv
<1>2. NamesInv' /\ PlansInv' /\ TargetsInv'
  BY <1>1, NamesStep, PlansStep, TargetsStep DEF IInv
<1>3. RowInv' /\ AloneInv' /\ RepeatInv' /\ ProvisionedAsConfigured'
  BY <1>1, RowStep, PromiseStep DEF IInv
<1> QED BY <1>1, <1>2, <1>3 DEF IInv

LEMMA IInvAlways == Spec => []IInv
  BY IInvInit, IInvStep, PTL DEF Spec

(* A call that ends undisturbed leaves the workflows its settings ask for, *)
(* whatever failed, crashed or overlapping calls and users of Paperless    *)
(* have left behind (ensure_ezeus_workflow), for any number of instances,  *)
(* calls and workflows.                                                    *)
THEOREM ProvisionedAsConfiguredAlways == Spec => []ProvisionedAsConfigured
<1>1. IInv => ProvisionedAsConfigured
  BY DEF IInv
<1> QED BY <1>1, IInvAlways, PTL

(* Provisioning again after a success, undisturbed, writes to each workflow *)
(* what it is already (the docstring of ensure_ezeus_workflow).             *)
THEOREM RepetitionChangesNothingAlways == Spec => RepetitionChangesNothing
<1>1. IInv => [\A c \in Calls :
                  Running(c) /\ calls[c].stage = "write" /\ calls[c].again /\ calls[c].alone
                  /\ WriteNext(c) => workflows' = workflows]_vars
  <2> SUFFICES ASSUME IInv, NEW c \in Calls, Running(c), calls[c].again, calls[c].alone,
                      WriteNext(c)
               PROVE  workflows' = workflows
    OBVIOUS
  <2>1. Sent(c) /\ Alone(c)
    BY WriteResult DEF IInv, Alone
  <2> QED BY <2>1, RepeatedWrite DEF IInv
<1> QED BY <1>1, IInvAlways, PTL DEF RepetitionChangesNothing

(* No call, however old its listing, touches a workflow of a user that     *)
(* sends no document events to its instance, unless he has given it its    *)
(* name, webhook URL or trigger since.                                     *)
THEOREM ForeignWorkflowsKeptAlways == Spec => ForeignWorkflowsKept
<1>1. IInv => [\A id \in Ids, c \in Calls :
                  (/\ WriteNext(c) \/ AnswerLost(c)
                   /\ Foreign(workflows[id], calls[c].slug)
                   /\ id \notin calls[c].edited)
                  => workflows'[id] = workflows[id]]_vars
  <2> SUFFICES ASSUME IInv, NEW id \in Ids, NEW c \in Calls, WriteNext(c) \/ AnswerLost(c),
                      Foreign(workflows[id], calls[c].slug), id \notin calls[c].edited
               PROVE  workflows'[id] = workflows[id]
    OBVIOUS
  <2>1. Sent(c)
    BY DEF WriteNext, AnswerLost, Sent, Change
  <2> QED BY <2>1, ForeignKept DEF IInv
<1> QED BY <1>1, IInvAlways, PTL DEF ForeignWorkflowsKept
=============================================================================
