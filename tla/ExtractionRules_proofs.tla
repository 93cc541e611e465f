----------------------- MODULE ExtractionRules_proofs -----------------------
(***************************************************************************)
(* Proofs about the rules of ExtractionRules, for all texts, directories,  *)
(* findings, amounts and titles: equal entries of a directory choose       *)
(* nobody, references are no senders and senders are not passed over;      *)
(* weaker findings and the language model change no value, credit notes    *)
(* are read like invoices, amounts as they were meant; titles are clean.   *)
(***************************************************************************)
EXTENDS ExtractionRules, FiniteSetTheorems, WellFoundedInduction, TLAPS

\* What a correspondent claims depends on its name, its matching rule, its algorithm
\* and what becomes of the search for an expression, not on its identity or its place
\* in the list.
LEMMA EqualEntriesClaimEqually ==
  ASSUME NEW text, NEW d, NEW k \in DOMAIN d, NEW l \in DOMAIN d,
         SameRule(d[k], d[l])
  PROVE  ClaimsOn(text, d)[k] = ClaimsOn(text, d)[l]
<1>1. ScoreRule(d[k], text) = ScoreRule(d[l], text)
  BY DEF SameRule, ScoreRule
<1>2. Claims(d[k], text) = Claims(d[l], text)
  BY <1>1 DEF SameRule, Claims
<1> QED
  BY <1>2 DEF SameRule, ClaimsOn

\* Nobody precedes one of two equal claims without preceding the other.
LEMMA EqualClaimsWinTogether ==
  ASSUME NEW claims, NEW k \in DOMAIN claims, NEW l \in DOMAIN claims,
         claims[k] = claims[l],
         k \in Winners(claims)
  PROVE  l \in Winners(claims)
<1> DEFINE strongest == [i \in {j \in DOMAIN claims : claims[j] # {}} |-> Strongest(claims[i])]
<1>1. k \in Unpreceded(strongest)
  BY DEF Winners
<1> HIDE DEF strongest
<1>2. k \in DOMAIN strongest /\ \A j \in DOMAIN strongest : ~Precedes(strongest[j], strongest[k])
  BY <1>1 DEF Unpreceded
<1>3. l \in DOMAIN strongest
  BY <1>2 DEF strongest
<1>4. strongest[k] = strongest[l]
  BY <1>2, <1>3 DEF strongest
<1>5. l \in Unpreceded(strongest)
  BY <1>2, <1>3, <1>4 DEF Unpreceded
<1> QED
  BY <1>5 DEF Winners, strongest

\* The winners are entries of the list.
LEMMA WinnersAreListed ==
  ASSUME NEW text, NEW d
  PROVE  Winners(ClaimsOn(text, d)) \subseteq DOMAIN d
<1>1. DOMAIN ClaimsOn(text, d) = DOMAIN d
  BY DEF ClaimsOn
<1> HIDE DEF ClaimsOn
<1> QED
  BY <1>1 DEF Winners, Unpreceded

\* A correspondent is chosen only as the single winner.
LEMMA ChosenIsTheWinner ==
  ASSUME NEW text, NEW d \in Directories,
         NEW k \in DOMAIN d, MatchCorrespondent(text, d) = d[k].id
  PROVE  Winners(ClaimsOn(text, d)) = {k}
<1> DEFINE best == Winners(ClaimsOn(text, d))
<1>1. d \in Seq(Range(d)) /\ d[k].id # Nobody
  BY DirectoryAssumption
<1>2. IsFiniteSet(DOMAIN d)
  <2>1. DOMAIN d = 1..Len(d) /\ Len(d) \in Nat
    BY <1>1
  <2> QED
    BY <2>1, FS_Interval
<1>3. best \subseteq DOMAIN d
  BY WinnersAreListed
<1>4. IsFiniteSet(best)
  BY <1>2, <1>3, FS_Subset
<1> HIDE DEF best
<1>5. MatchCorrespondent(text, d) =
        IF Cardinality(best) # 1 THEN Nobody ELSE d[CHOOSE i \in best : TRUE].id
  BY DEF MatchCorrespondent, best
<1>6. Cardinality(best) = 1
  BY <1>1, <1>5
<1>7. PICK i : best = {i}
  BY <1>4, <1>6, FS_Singleton
<1>8. d[i].id = d[k].id
  BY <1>5, <1>6, <1>7
<1>9. i = k
  BY <1>3, <1>7, <1>8, DirectoryAssumption
<1> QED
  BY <1>7, <1>9 DEF best

LEMMA EqualEntriesAreNotChosen ==
  ASSUME NEW text, NEW d \in Directories,
         NEW k \in DOMAIN d, NEW l \in DOMAIN d, k # l,
         SameRule(d[k], d[l])
  PROVE  MatchCorrespondent(text, d) # d[k].id
<1> SUFFICES ASSUME MatchCorrespondent(text, d) = d[k].id PROVE FALSE
  OBVIOUS
<1>1. Winners(ClaimsOn(text, d)) = {k}
  BY ChosenIsTheWinner
<1>2. DOMAIN ClaimsOn(text, d) = DOMAIN d
  BY DEF ClaimsOn
<1>3. ClaimsOn(text, d)[k] = ClaimsOn(text, d)[l]
  BY EqualEntriesClaimEqually
<1>4. l \in Winners(ClaimsOn(text, d))
  BY <1>1, <1>2, <1>3, EqualClaimsWinTogether
<1> QED
  BY <1>1, <1>4

-----------------------------------------------------------------------------
\* The question stays the one that was asked, and an answer about a correspondent
\* is the one match_correspondent gives.
AnswerIsTheMatch ==
  question.kind = "correspondent" =>
    /\ question.of \in MatchQuestions
    /\ answer # Pending => answer = MatchCorrespondent(question.of.text, Directory)

LEMMA AnswerIsTheMatchInit == Init => AnswerIsTheMatch
  BY DEF Init, AnswerIsTheMatch, Ask

LEMMA AnswerIsTheMatchNext == AnswerIsTheMatch /\ [Next]_vars => AnswerIsTheMatch'
<1> SUFFICES ASSUME AnswerIsTheMatch, [Next]_vars PROVE AnswerIsTheMatch'
  OBVIOUS
<1>1. CASE Correspond
  BY <1>1 DEF Correspond, Unanswered, AnswerIsTheMatch, Directory
<1>2. CASE ExtractField
  BY <1>2 DEF ExtractField, Unanswered, AnswerIsTheMatch
<1>3. CASE Read
  BY <1>3 DEF Read, Unanswered, AnswerIsTheMatch
<1>4. CASE WriteTitle
  BY <1>4 DEF WriteTitle, AnswerIsTheMatch
<1>5. CASE UNCHANGED vars
  BY <1>5 DEF vars, AnswerIsTheMatch, Directory
<1> QED
  BY <1>1, <1>2, <1>3, <1>4, <1>5 DEF Next

\* Two entries of a directory with the same name and rule, of whose searches neither
\* or both fail, are never chosen, whatever the text and however many entries there are
\* (the tie in match_correspondent).
THEOREM EqualEntriesMatchNobodyAlways == Spec => []EqualEntriesMatchNobody
<1>1. AnswerIsTheMatch => EqualEntriesMatchNobody
  <2> SUFFICES ASSUME AnswerIsTheMatch, Answered("correspondent"),
                      NEW k \in DOMAIN Directory, NEW l \in DOMAIN Directory, k # l,
                      SameRule(Directory[k], Directory[l])
               PROVE  answer # Directory[k].id /\ answer # Directory[l].id
    BY DEF EqualEntriesMatchNobody
  <2>1. answer = MatchCorrespondent(question.of.text, Directory)
    BY DEF AnswerIsTheMatch, Answered
  <2>2. Directory \in Directories
    BY DEF AnswerIsTheMatch, Answered, MatchQuestions, Directory
  <2> HIDE DEF Directory
  <2>3. answer # Directory[k].id
    BY <2>1, <2>2, EqualEntriesAreNotChosen
  <2>4. SameRule(Directory[l], Directory[k])
    BY DEF SameRule
  <2>5. answer # Directory[l].id
    BY <2>1, <2>2, <2>4, EqualEntriesAreNotChosen
  <2> QED
    BY <2>3, <2>5
<1> QED
  BY <1>1, AnswerIsTheMatchInit, AnswerIsTheMatchNext, PTL DEF Spec

-----------------------------------------------------------------------------
(* The value of a field. *)

LEMMA LeastNumber ==
  ASSUME NEW S \in SUBSET Nat, S # {}
  PROVE  \E n \in S : \A m \in S : n <= m
<1> DEFINE Less == OpToRel(<, Nat)
<1>1. \E n \in S : \A m \in S : <<m, n>> \notin Less
  BY WFMin, NatLessThanWellFounded, Zenon
<1>2. \A m, n \in Nat : m < n => <<m, n>> \in Less
  BY DEF OpToRel
<1> HIDE DEF Less
<1>3. PICK n \in S : \A m \in S : <<m, n>> \notin Less
  BY <1>1
<1>4. ASSUME NEW m \in S PROVE n <= m
  <2>1. n \in Nat /\ m \in Nat /\ ~(m < n)
    BY <1>2, <1>3
  <2> QED BY <2>1
<1> QED
  BY <1>4

\* Of some findings one stands before all others.
LEMMA EarliestPlace ==
  ASSUME NEW S, S # {}, S \subseteq Nat \X Nat
  PROVE  \E x \in S : \A y \in S : ~Before(y, x)
<1> DEFINE P == {x[1] : x \in S}
<1>1. PICK p \in P : \A q \in P : p <= q
  <2>1. P \in SUBSET Nat /\ P # {}
    OBVIOUS
  <2> HIDE DEF P
  <2> QED BY <2>1, LeastNumber
<1> DEFINE K == {x[2] : x \in {y \in S : y[1] = p}}
<1>2. PICK k \in K : \A l \in K : k <= l
  <2>1. K \in SUBSET Nat /\ K # {}
    BY <1>1
  <2> HIDE DEF K
  <2> QED BY <2>1, LeastNumber
<1>3. PICK x \in S : x[1] = p /\ x[2] = k
  BY <1>2
<1>4. ASSUME NEW y \in S, Before(y, x) PROVE FALSE
  <2>1. y[1] \in Nat /\ y[2] \in Nat /\ p \in Nat /\ k \in Nat /\ p <= y[1]
    BY <1>1, <1>2
  <2>2. y[1] = p /\ y[2] < k
    BY <2>1, <1>3, <1>4 DEF Before
  <2>3. y[2] \in K
    BY <2>2
  <2> QED BY <1>2, <2>1, <2>2, <2>3
<1> QED BY <1>3, <1>4

\* Candidates of later patterns change nothing about what is chosen by priority or
\* by the first match among earlier ones.
LEMMA LaterCandidatesChangeNothing ==
  ASSUME NEW V, NEW W, NEW n \in Int, NEW strategy,
         GoesByPriority(strategy) \/ strategy = "first",
         V # {},
         \A c \in V : c.place[1] \in Int /\ c.place[1] <= n,
         \A c \in W : c.place[1] \in Int /\ n < c.place[1]
  PROVE  Select(strategy, V \cup W) = Select(strategy, V)
<1>1. Foremost(V \cup W) = Foremost(V)
  BY DEF Foremost
<1>2. First(V \cup W) = First(V)
  BY DEF First, Before
<1>3. CASE GoesByPriority(strategy)
  BY <1>1, <1>3 DEF Select, Rivals
<1>4. CASE strategy = "first"
  <2>1. \A S : Greatest(strategy, S) = S
    BY <1>4 DEF Greatest, Exceeds
  <2>2. ~GoesByPriority(strategy)
    BY <1>4 DEF GoesByPriority
  <2> QED BY <1>2, <1>4, <2>1, <2>2 DEF Select, Rivals
<1> QED BY <1>3, <1>4

LEMMA ValidOfBoth ==
  ASSUME NEW field, NEW A, NEW B
  PROVE  Valid(field, A \cup B) = Valid(field, A) \cup Valid(field, B)
BY DEF Valid

LEMMA ValidPlaces ==
  ASSUME NEW field, NEW A, NEW c \in Valid(field, A)
  PROVE  \E d \in A : c.place = d.place
BY DEF Valid, Candidate


\* The findings of the first patterns.
LEMMA FirstPatterns ==
  ASSUME NEW hits, AreFindings(hits),
         NEW p \in DOMAIN hits
  PROVE  /\ Places(SubSeq(hits, 1, p)) = {x \in Places(hits) : x[1] <= p}
         /\ \A x \in Places(SubSeq(hits, 1, p)) : Hit(SubSeq(hits, 1, p), x) = Hit(hits, x)
         /\ Places(hits) \subseteq Nat \X Nat
<1> DEFINE first == SubSeq(hits, 1, p)
<1>1. DOMAIN hits = 1..Len(hits) /\ Len(hits) \in Nat
  BY DEF IsList, AreFindings
<1>2. DOMAIN first = 1..p /\ \A i \in 1..p : first[i] = hits[i]
  BY <1>1 DEF IsList, AreFindings
<1> HIDE DEF first
<1>3. \A i \in DOMAIN hits : DOMAIN hits[i] \subseteq Nat
  BY DEF IsList, AreFindings
<1>4. Places(hits) \subseteq Nat \X Nat
  BY <1>1, <1>3 DEF Places
<1>5. Places(first) = {x \in Places(hits) : x[1] <= p}
  BY <1>1, <1>2 DEF Places
<1>6. \A x \in Places(first) : Hit(first, x) = Hit(hits, x)
  BY <1>2 DEF Hit, Places
<1> QED BY <1>4, <1>5, <1>6 DEF first

\* What the first patterns find does not depend on the others.
LEMMA FirstPatternsFindTheSame ==
  ASSUME NEW field, NEW note, NEW hits, AreFindings(hits),
         NEW p \in DOMAIN hits
  PROVE  RegexCandidates(field, SubSeq(hits, 1, p), note) =
           {c \in RegexCandidates(field, hits, note) : c.place[1] <= p}
<1> DEFINE first == SubSeq(hits, 1, p)
           P == Places(hits)
           Q == Places(first)
           Old(h, y) == \E z \in Places(h) : Before(z, y) /\ Alike(field, h, note, z, y)
<1>1. Q = {x \in P : x[1] <= p} /\ P \subseteq Nat \X Nat /\ p \in Nat
  BY FirstPatterns DEF IsList, AreFindings
<1>2. \A x \in Q : Hit(first, x) = Hit(hits, x)
  BY FirstPatterns
<1>3. \A x \in Q : FoundValue(field, first, note, x) = FoundValue(field, hits, note, x)
  BY <1>2 DEF FoundValue
<1>4. \A x, y \in Q : Alike(field, first, note, x, y) <=> Alike(field, hits, note, x, y)
  BY <1>2, <1>3 DEF Alike
<1>5. \A y \in Q, z \in P : Before(z, y) => z \in Q
  BY <1>1 DEF Before
<1>6. \A y \in Q : Old(first, y) <=> Old(hits, y)
  BY <1>1, <1>4, <1>5
<1>7. \A x, v : Candidate(x, v, 95).place = x
  BY DEF Candidate
<1>8. /\ RegexCandidates(field, first, note) =
            {Candidate(x, FoundValue(field, first, note, x), 95) : x \in {y \in Q : ~Old(first, y)}}
      /\ RegexCandidates(field, hits, note) =
            {Candidate(x, FoundValue(field, hits, note, x), 95) : x \in {y \in P : ~Old(hits, y)}}
  BY Zenon DEF RegexCandidates
<1> HIDE DEF first, P, Q, Old
<1>9. {y \in Q : ~Old(first, y)} = {x \in {y \in P : ~Old(hits, y)} : x[1] <= p}
  BY <1>1, <1>6
<1>10. RegexCandidates(field, first, note) = {c \in RegexCandidates(field, hits, note) : c.place[1] <= p}
  BY <1>1, <1>3, <1>7, <1>8, <1>9
<1> QED BY <1>10 DEF first

\* A finding is a candidate, or a finding before it with the same value is.
LEMMA FindingIsCandidate ==
  ASSUME NEW field, NEW note, NEW hits, AreFindings(hits),
         NEW x \in Places(hits)
  PROVE  \E c \in RegexCandidates(field, hits, note) :
           /\ c.value = FoundValue(field, hits, note, x)
           /\ c.confidence = 95
           /\ c.place \in Nat \X Nat /\ c.place[1] <= x[1]
<1> DEFINE S == {y \in Places(hits) : Alike(field, hits, note, y, x)}
<1>1. Places(hits) \subseteq Nat \X Nat
  <2>1. \A i \in DOMAIN hits : i \in Nat /\ DOMAIN hits[i] \subseteq Nat
    BY DEF IsList, AreFindings
  <2> QED BY <2>1 DEF Places
<1>2. x \in S
  BY DEF Alike
<1>3. PICK y \in S : \A z \in S : ~Before(z, y)
  <2>1. S # {} /\ S \subseteq Nat \X Nat
    BY <1>1, <1>2
  <2> HIDE DEF S
  <2> QED BY <2>1, EarliestPlace
<1>4. y \in Places(hits) /\ Alike(field, hits, note, y, x)
  BY <1>3
<1>5. ~\E z \in Places(hits) : Before(z, y) /\ Alike(field, hits, note, z, y)
  BY <1>3, <1>4 DEF Alike
<1> DEFINE c == Candidate(y, FoundValue(field, hits, note, y), 95)
<1>6. c \in RegexCandidates(field, hits, note)
  BY <1>4, <1>5 DEF RegexCandidates
<1>7. y[1] <= x[1]
  <2>1. ~Before(x, y) /\ x \in Nat \X Nat /\ y \in Nat \X Nat
    BY <1>1, <1>2, <1>3
  <2> QED BY <2>1 DEF Before
<1>8. c.place = y /\ c.value = FoundValue(field, hits, note, x) /\ c.confidence = 95
  BY <1>4 DEF Candidate, Alike
<1> HIDE DEF c
<1> QED BY <1>1, <1>4, <1>6, <1>7, <1>8

\* The candidates of a field: those of its patterns up to p, and later ones.
LEMMA LaterCandidates ==
  ASSUME NEW q \in FieldQuestions, NEW field, NEW p \in DOMAIN q.hits,
         InScope(field, q.documentType), field.ocr
  PROVE  \E rest : /\ Candidates(field, q) =
                        RegexCandidates(field, SubSeq(q.hits, 1, p), q.creditNote) \cup rest
                   /\ \A c \in rest : c.place[1] \in Int /\ p < c.place[1]
<1> DEFINE R == RegexCandidates(field, q.hits, q.creditNote)
           M == IF field.ai THEN ModelCandidates(q.suggestions) ELSE {}
           late == {c \in R : ~(c.place[1] <= p)}
<1>0. AreFindings(q.hits)
  BY FieldQuestionAssumption
<1>1. Candidates(field, q) = R \cup M
  BY DEF Candidates
<1>2. RegexCandidates(field, SubSeq(q.hits, 1, p), q.creditNote) =
        {c \in R : c.place[1] <= p}
  BY <1>0, FirstPatternsFindTheSame
<1>3. p \in Nat /\ p < NoPattern
  BY <1>0 DEF IsList, AreFindings, NoPattern
<1>4. \A c \in M : c.place[1] = NoPattern
  BY DEF ModelCandidates, Candidate
<1>5. \A c \in R : c.place[1] \in Nat
  <2>1. \A c \in R : c.place \in Places(q.hits)
    BY DEF RegexCandidates, Candidate
  <2>2. Places(q.hits) \subseteq Nat \X Nat
    BY <1>0, FirstPatterns
  <2> QED BY <2>1, <2>2
<1> HIDE DEF R, M
<1>6. \A c \in late \cup M : c.place[1] \in Int /\ p < c.place[1]
  BY <1>3, <1>4, <1>5 DEF NoPattern
<1>7. Candidates(field, q) = {c \in R : c.place[1] <= p} \cup (late \cup M)
  BY <1>1
<1> QED BY <1>2, <1>6, <1>7

\* The choice among the valid candidates is the same without those of later patterns
\* and of the model, when a valid one is left.
LEMMA LaterPatternsChangeNothing ==
  ASSUME NEW q \in FieldQuestions, NEW field, NEW p \in DOMAIN q.hits,
         InScope(field, q.documentType), field.ocr,
         GoesByPriority(Strategy(field)) \/ Strategy(field) = "first",
         Valid(field, RegexCandidates(field, SubSeq(q.hits, 1, p), q.creditNote)) # {}
  PROVE  ExtractedValue(field, q) =
           Chosen(Select(Strategy(field),
                         Valid(field, RegexCandidates(field, SubSeq(q.hits, 1, p), q.creditNote))))
<1> DEFINE early == RegexCandidates(field, SubSeq(q.hits, 1, p), q.creditNote)
<1>1. PICK rest : /\ Candidates(field, q) = early \cup rest
                  /\ \A c \in rest : c.place[1] \in Int /\ p < c.place[1]
  BY LaterCandidates
<1>2. \A c \in early : c.place[1] \in Int /\ c.place[1] <= p
  <2>0. AreFindings(q.hits)
    BY FieldQuestionAssumption
  <2>1. early = {c \in RegexCandidates(field, q.hits, q.creditNote) : c.place[1] <= p}
    BY <2>0, FirstPatternsFindTheSame
  <2>2. \A c \in RegexCandidates(field, q.hits, q.creditNote) : c.place \in Places(q.hits)
    BY DEF RegexCandidates, Candidate
  <2>3. Places(q.hits) \subseteq Nat \X Nat
    BY <2>0, FirstPatterns
  <2> QED BY <2>1, <2>2, <2>3
<1> HIDE DEF early
<1>3. Valid(field, Candidates(field, q)) = Valid(field, early) \cup Valid(field, rest)
  BY <1>1, ValidOfBoth
<1>4. \A c \in Valid(field, early) : c.place[1] \in Int /\ c.place[1] <= p
  BY <1>2, ValidPlaces
<1>5. \A c \in Valid(field, rest) : c.place[1] \in Int /\ p < c.place[1]
  BY <1>1, ValidPlaces
<1>6. p \in Int
  BY FieldQuestionAssumption DEF IsList, AreFindings
<1>7. Valid(field, early) # {}
  BY DEF early
<1>8. Select(Strategy(field), Valid(field, Candidates(field, q)))
        = Select(Strategy(field), Valid(field, early))
  <2> DEFINE V == Valid(field, early)
             W == Valid(field, rest)
             strategy == Strategy(field)
  <2>1. /\ GoesByPriority(strategy) \/ strategy = "first"
        /\ V # {}
        /\ \A c \in V : c.place[1] \in Int /\ c.place[1] <= p
        /\ \A c \in W : c.place[1] \in Int /\ p < c.place[1]
    BY <1>4, <1>5, <1>7
  <2> HIDE DEF V, W, strategy
  <2>2. Select(strategy, V \cup W) = Select(strategy, V)
    BY <1>6, <2>1, LaterCandidatesChangeNothing
  <2> QED BY <1>3, <2>2 DEF V, W, strategy
<1> QED BY <1>8 DEF ExtractedValue, early

-----------------------------------------------------------------------------
\* An answer about a field is the value that is extracted for it.
AnswerIsTheValue ==
  question.kind = "field" =>
    /\ question.of \in FieldQuestions
    /\ answer # Pending => answer = Value(question.of)

LEMMA AnswerIsTheValueInit == Init => AnswerIsTheValue
  BY DEF Init, AnswerIsTheValue, Ask

LEMMA AnswerIsTheValueNext == AnswerIsTheValue /\ [Next]_vars => AnswerIsTheValue'
<1> SUFFICES ASSUME AnswerIsTheValue, [Next]_vars PROVE AnswerIsTheValue'
  OBVIOUS
<1>1. CASE Correspond
  BY <1>1 DEF Correspond, Unanswered, AnswerIsTheValue
<1>2. CASE ExtractField
  BY <1>2 DEF ExtractField, Unanswered, AnswerIsTheValue
<1>3. CASE Read
  BY <1>3 DEF Read, Unanswered, AnswerIsTheValue
<1>4. CASE WriteTitle
  BY <1>4 DEF WriteTitle, AnswerIsTheValue
<1>5. CASE UNCHANGED vars
  BY <1>5 DEF vars, AnswerIsTheValue
<1> QED
  BY <1>1, <1>2, <1>3, <1>4, <1>5 DEF Next

\* The fields of a question of which findings or suggestions are left out.
LEMMA Without ==
  ASSUME NEW q \in FieldQuestions, NEW h
  PROVE  LET some == [q EXCEPT !.hits = h, !.suggestions = <<>>]
             own == [q EXCEPT !.suggestions = <<>>]
         IN /\ some.field = q.field /\ some.documentType = q.documentType
            /\ some.creditNote = q.creditNote /\ some.hits = h /\ some.suggestions = <<>>
            /\ own.field = q.field /\ own.documentType = q.documentType
            /\ own.creditNote = q.creditNote /\ own.hits = q.hits /\ own.suggestions = <<>>
BY FieldQuestionAssumption

LEMMA NoSuggestions == ModelCandidates(<<>>) = {}
BY DEF ModelCandidates

\* Whatever patterns there are and whatever weaker ones and the language model add to
\* the readable findings of a stronger one, the value of a field whose strategy goes by
\* priority is the same without it (pattern_priority_* in Orchestrator.process).
THEOREM WeakerFindingsDoNotInterfereAlways == Spec => []WeakerFindingsDoNotInterfere
<1>1. AnswerIsTheValue => WeakerFindingsDoNotInterfere
  <2> DEFINE q == question.of
             field == q.field
  <2> SUFFICES ASSUME AnswerIsTheValue, Answered("field"), ByPriority(field), field.ocr,
                      InScope(field, q.documentType),
                      NEW p \in DOMAIN q.hits,
                      NEW k \in DOMAIN q.hits[p], Readable(q.hits[p][k])
               PROVE  answer = Value([q EXCEPT !.hits = SubSeq(q.hits, 1, p),
                                               !.suggestions = <<>>])
    BY DEF WeakerFindingsDoNotInterfere, Extracted
  <2> DEFINE first == SubSeq(q.hits, 1, p)
             early == RegexCandidates(field, first, q.creditNote)
             part == [q EXCEPT !.hits = first, !.suggestions = <<>>]
  <2>1. q \in FieldQuestions /\ answer = ExtractedValue(field, q)
    BY DEF AnswerIsTheValue, Answered, Value
  <2>2. AreFindings(q.hits) /\ <<p, k>> \in Places(q.hits) /\ p \in Nat
    BY <2>1, FieldQuestionAssumption DEF Places, IsList, AreFindings
  <2>3. Normalized(field, FoundValue(field, q.hits, q.creditNote, <<p, k>>)).accepted
    BY DEF Readable, FoundValue, Hit, Extracted
  <2>4. Valid(field, early) # {}
    <3>1. PICK c \in RegexCandidates(field, q.hits, q.creditNote) :
             /\ c.value = FoundValue(field, q.hits, q.creditNote, <<p, k>>)
             /\ c.confidence = 95
             /\ c.place[1] <= p
      BY <2>2, FindingIsCandidate
    <3>2. c \in early
      BY <2>2, <3>1, FirstPatternsFindTheSame
    <3> HIDE DEF early
    <3>3. Candidate(c.place, Normalized(field, c.value).value, c.confidence) \in Valid(field, early)
      BY <2>3, <3>1, <3>2 DEF Valid, MinimumConfidence
    <3> QED BY <3>3
  <2>5. answer = Chosen(Select(Strategy(field), Valid(field, early)))
    BY <2>1, <2>4, LaterPatternsChangeNothing DEF ByPriority
  <2>6. /\ part.field = field /\ part.documentType = q.documentType
        /\ part.creditNote = q.creditNote /\ part.hits = first /\ part.suggestions = <<>>
    <3> HIDE DEF first
    <3> QED BY <2>1, Without
  <2> HIDE DEF part, early, first
  <2>7. Candidates(field, part) = early
    BY <2>6, NoSuggestions DEF Candidates, early
  <2>8. Value(part) = Chosen(Select(Strategy(field), Valid(field, early)))
    BY <2>6, <2>7 DEF Value, ExtractedValue
  <2> QED BY <2>5, <2>8 DEF part, first
<1> QED
  BY <1>1, AnswerIsTheValueInit, AnswerIsTheValueNext, PTL DEF Spec

LEMMA NothingValidNoValue ==
  ASSUME NEW strategy
  PROVE  ~Chosen(Select(strategy, {})).found
<1>1. Rivals(strategy, {}) = {}
  BY DEF Rivals, Foremost
<1>2. Greatest(strategy, {}) = {} /\ First({}) = {}
  BY DEF Greatest, First
<1>3. Select(strategy, {}) = {}
  BY <1>1, <1>2 DEF Select
<1> QED BY <1>3 DEF Chosen, NoValue

\* Where the patterns alone give a value by priority or by the first match, the
\* suggestions of the language model change nothing, however many patterns and findings
\* there are (runtime_config and Orchestrator.process).
THEOREM ModelOnlyFillsGapsAlways == Spec => []ModelOnlyFillsGaps
<1>1. AnswerIsTheValue => ModelOnlyFillsGaps
  <2> DEFINE q == question.of
             field == q.field
             own == [q EXCEPT !.suggestions = <<>>]
  <2> SUFFICES ASSUME AnswerIsTheValue, Answered("field"),
                      GoesByPriority(Strategy(field)) \/ Strategy(field) = "first",
                      Value(own).found
               PROVE  answer = Value(own)
    BY DEF ModelOnlyFillsGaps, Extracted, ByPriority
  <2> DEFINE found == RegexCandidates(field, q.hits, q.creditNote)
  <2>1. q \in FieldQuestions /\ answer = ExtractedValue(field, q)
    BY DEF AnswerIsTheValue, Answered, Value
  <2>2. /\ own.field = field /\ own.documentType = q.documentType
        /\ own.creditNote = q.creditNote /\ own.hits = q.hits /\ own.suggestions = <<>>
    BY <2>1, Without
  <2> HIDE DEF own, found
  <2>3. Value(own) = Chosen(Select(Strategy(field), Valid(field, Candidates(field, own))))
    BY <2>2 DEF Value, ExtractedValue
  <2>4. CASE ~InScope(field, q.documentType)
    <3>1. Candidates(field, own) = Candidates(field, q)
      BY <2>2, <2>4 DEF Candidates
    <3> QED BY <2>1, <2>3, <3>1 DEF ExtractedValue
  <2>5. CASE InScope(field, q.documentType)
    <3>1. Candidates(field, own) = IF field.ocr THEN found ELSE {}
      BY <2>2, <2>5, NoSuggestions DEF Candidates, found
    <3>2. Valid(field, {}) = {}
      BY DEF Valid
    <3>3. field.ocr /\ Valid(field, found) # {}
      BY <2>3, <3>1, <3>2, NothingValidNoValue
    <3>4. Len(q.hits) \in DOMAIN q.hits /\ SubSeq(q.hits, 1, Len(q.hits)) = q.hits
      <4>1. AreFindings(q.hits)
        BY <2>1, FieldQuestionAssumption
      <4>2. q.hits # <<>>
        <5>1. SUFFICES ASSUME q.hits = <<>> PROVE FALSE
          OBVIOUS
        <5>2. Places(q.hits) = {}
          BY <5>1 DEF Places
        <5>3. found = {}
          BY <5>2 DEF found, RegexCandidates
        <5> QED BY <3>2, <3>3, <5>3
      <4> QED BY <4>1, <4>2 DEF AreFindings, IsList
    <3>5. answer = Chosen(Select(Strategy(field), Valid(field, found)))
      BY <2>1, <2>5, <3>3, <3>4, LaterPatternsChangeNothing DEF found
    <3> QED BY <2>3, <3>1, <3>3, <3>5
  <2> QED BY <2>4, <2>5 DEF own
<1> QED
  BY <1>1, AnswerIsTheValueInit, AnswerIsTheValueNext, PTL DEF Spec

-----------------------------------------------------------------------------
(* Amounts. *)

\* The number a prefix of some digits stands for is well defined.
LEMMA PrefixesRead ==
  ASSUME NEW digits, NEW n \in Nat
  PROVE  \E f : f = [k \in 0..n |-> IF k = 0 THEN 0 ELSE 10 * f[k - 1] + digits[k]]
<1> DEFINE Reads(f, m) == f = [k \in 0..m |-> IF k = 0 THEN 0 ELSE 10 * f[k - 1] + digits[k]]
           Bad == {m \in Nat : ~\E f : Reads(f, m)}
<1> SUFFICES ASSUME Bad # {} PROVE FALSE
  OBVIOUS
<1>1. PICK m \in Bad : \A l \in Bad : m <= l
  <2>1. Bad \in SUBSET Nat
    OBVIOUS
  <2> HIDE DEF Bad
  <2> QED BY <2>1, LeastNumber
<1>2. m # 0
  <2>1. Reads([k \in 0..0 |-> 0], 0)
    OBVIOUS
  <2> QED BY <1>1, <2>1
<1>3. m \in Nat /\ m - 1 \in Nat /\ m - 1 \notin Bad
  BY <1>1, <1>2
<1>4. PICK f : Reads(f, m - 1)
  BY <1>3
<1> DEFINE g == [k \in 0..m |-> IF k = m THEN 10 * f[m - 1] + digits[m] ELSE f[k]]
<1>5. \A k \in 0..(m - 1) : f[k] = IF k = 0 THEN 0 ELSE 10 * f[k - 1] + digits[k]
  BY <1>3, <1>4
<1>6. \A k \in 0..m : g[k] = IF k = 0 THEN 0 ELSE 10 * g[k - 1] + digits[k]
  BY <1>2, <1>3, <1>5
<1>7. Reads(g, m)
  <2>1. g = [k \in 0..m |-> g[k]]
    OBVIOUS
  <2> HIDE DEF g
  <2> QED BY <1>6, <2>1
<1> QED BY <1>1, <1>7

LEMMA NumberType ==
  ASSUME NEW digits \in Seq(0..9)
  PROVE  Number(digits) \in Nat
<1> DEFINE n == Len(digits)
           F == CHOOSE f : f = [k \in 0..n |-> IF k = 0 THEN 0 ELSE 10 * f[k - 1] + digits[k]]
<1>1. Number(digits) = F[n]
  BY DEF Number
<1>2. n \in Nat /\ \A k \in 1..n : digits[k] \in 0..9
  OBVIOUS
<1>3. F = [k \in 0..n |-> IF k = 0 THEN 0 ELSE 10 * F[k - 1] + digits[k]]
  BY <1>2, PrefixesRead
<1> HIDE DEF F
<1>4. \A k \in 0..n : F[k] = IF k = 0 THEN 0 ELSE 10 * F[k - 1] + digits[k]
  BY <1>3
<1> HIDE DEF n
<1> DEFINE Bad == {k \in Nat : k <= n /\ F[k] \notin Nat}
<1>5. Bad = {}
  <2> SUFFICES ASSUME Bad # {} PROVE FALSE
    OBVIOUS
  <2>1. PICK k \in Bad : \A l \in Bad : k <= l
    <3>1. Bad \in SUBSET Nat
      OBVIOUS
    <3> HIDE DEF Bad
    <3> QED BY <3>1, LeastNumber
  <2>2. k # 0
    BY <1>4, <2>1
  <2>3. k \in 1..n /\ k - 1 \in Nat /\ k - 1 \notin Bad
    BY <1>2, <2>1, <2>2
  <2>4. F[k - 1] \in Nat /\ digits[k] \in Nat
    BY <1>2, <2>3
  <2>5. F[k] = 10 * F[k - 1] + digits[k]
    BY <1>2, <1>4, <2>3
  <2> QED BY <2>1, <2>4, <2>5
<1> QED BY <1>1, <1>2, <1>5

LEMMA CentsType ==
  ASSUME NEW whole \in Seq(0..9), NEW fraction \in Seq(0..9)
  PROVE  Cents(whole, fraction) \in Nat
<1> DEFINE digit(i) == IF i <= Len(fraction) THEN fraction[i] ELSE 0
<1>1. digit(1) \in Nat /\ digit(2) \in Nat
  <2>1. \A i \in 1..Len(fraction) : fraction[i] \in Nat
    OBVIOUS
  <2>2. Len(fraction) \in Nat
    OBVIOUS
  <2> QED BY <2>1, <2>2
<1>2. Number(whole) \in Nat
  BY NumberType
<1> QED BY <1>1, <1>2, SMTT(20) DEF Cents

\* A minus put before an amount changes the sign of what is read and nothing else.
LEMMA NegatedReads ==
  ASSUME NEW written, IsWritten(written), ~written.sign.within
  PROVE  /\ ReadAmount(Negated(written)).accepted = ReadAmount(written).accepted
         /\ ReadAmount(written).accepted =>
              /\ ReadAmount(written).value \in Int
              /\ ReadAmount(Negated(written)).value = -Absolute(ReadAmount(written))
<1> DEFINE other == Negated(written)
           digits == written.digits
<1>1. other.digits = digits /\ other.marks = written.marks
  BY DEF Negated, IsWritten, Written
<1>2. Negative(other.sign) /\ (Misplaced(other.sign) <=> Misplaced(written.sign))
  <2> DEFINE sign == written.sign
  <2>1. sign \in Signs /\ ~sign.within
    BY DEF IsWritten
  <2>2. other.sign = [sign EXCEPT !.before = TRUE]
    BY DEF Negated, IsWritten, Written
  <2> HIDE DEF sign, other
  <2>3. other.sign.before /\ ~other.sign.within /\ (other.sign.behind <=> sign.behind)
    BY <2>1, <2>2 DEF Signs
  <2>4. Misplaced(other.sign) <=> Misplaced(sign)
    BY <2>1, <2>3 DEF Misplaced
  <2> QED BY <2>3, <2>4 DEF Negative, sign
<1> HIDE DEF other
<1>3. DecimalMarks(other) = DecimalMarks(written)
  <2>1. MarkKinds(other) = MarkKinds(written)
    BY <1>1 DEF MarkKinds
  <2>2. ThousandsOnly(other) <=> ThousandsOnly(written)
    BY <1>1, <2>1 DEF ThousandsOnly
  <2>3. DecimalMark(other) = DecimalMark(written)
    BY <1>1, <2>1, <2>2 DEF DecimalMark
  <2> QED BY <1>1, <2>3 DEF DecimalMarks
<1> DEFINE marks == DecimalMarks(written)
           split == IF marks = {} THEN Len(digits)
                    ELSE written.marks[CHOOSE i \in marks : TRUE].at
           cents == Cents(SubSeq(digits, 1, split), SubSeq(digits, split + 1, Len(digits)))
           bad == \/ Misplaced(written.sign)
                  \/ Cardinality(marks) > 1
                  \/ digits = <<>>
                  \/ cents >= AmountLimit
<1>4. cents \in Nat
  <2>0. /\ digits \in Seq(0..9) /\ Len(digits) \in Nat
        /\ \A i \in DOMAIN written.marks : written.marks[i].at \in 0..Len(digits)
    <3> DEFINE Marks == [mark : {"comma", "point"}, at : 0..Len(digits)]
    <3>1. digits \in Seq(0..9)
      BY DEF IsWritten
    <3>2. written.marks \in Seq(Marks)
      BY DEF IsWritten
    <3>3. \A m \in Marks : m.at \in 0..Len(digits)
      OBVIOUS
    <3> HIDE DEF Marks, digits
    <3>4. Len(digits) \in Nat
      BY <3>1
    <3>5. \A i \in DOMAIN written.marks : written.marks[i] \in Marks
      BY <3>2
    <3> QED BY <3>1, <3>3, <3>4, <3>5
  <2>1. split \in 0..Len(digits)
    <3>1. marks \subseteq DOMAIN written.marks
      BY DEF DecimalMarks
    <3> HIDE DEF marks, digits
    <3>2. CASE marks = {}
      BY <2>0, <3>2
    <3>3. CASE marks # {}
      BY <2>0, <3>1, <3>3
    <3> QED BY <3>2, <3>3
  <2> HIDE DEF split
  <2>2. SubSeq(digits, 1, split) \in Seq(0..9) /\ SubSeq(digits, split + 1, Len(digits)) \in Seq(0..9)
    BY <2>0, <2>1, SMTT(20)
  <2> QED BY <2>2, CentsType
<1>5. ReadAmount(written) =
        IF bad THEN NotAccepted
        ELSE Accepted(IF Negative(written.sign) THEN -cents ELSE cents)
  BY DEF ReadAmount, ReadSplit
<1>6. ReadAmount(other) = IF bad THEN NotAccepted ELSE Accepted(-cents)
  BY <1>1, <1>2, <1>3 DEF ReadAmount, ReadSplit
<1> HIDE DEF cents, bad
<1> QED BY <1>4, <1>5, <1>6 DEF NotAccepted, Accepted, Absolute, other

\* What is chosen among amounts of the same confidence: one of the foremost pattern
\* and of the greatest absolute value.
LEMMA GreatestAmount ==
  ASSUME NEW V,
         \A c \in V : c.place \in Nat \X Nat /\ c.value \in Int /\ c.confidence = 95
  PROVE  LET W == Select("pattern_priority_highest", V)
             T == {Absolute(c) : c \in Foremost(V)}
         IN /\ W # {} <=> \E t \in T : \A u \in T : u <= t
            /\ \A c \in W : c \in V /\ Absolute(c) \in T /\ \A u \in T : u <= Absolute(c)
<1> DEFINE S == "pattern_priority_highest"
           W == Select(S, V)
           F == Foremost(V)
           T == {Absolute(c) : c \in F}
           G == Greatest(S, F)
<1>1. W = First(G)
  BY DEF Select, Rivals, GoesByPriority
<1>2. F \subseteq V
  BY DEF Foremost
<1>3. \A c \in F : Absolute(c) \in Int /\ Weight(S, c) = Absolute(c)
  BY <1>2 DEF Absolute, Weight
<1>4. \A c, d \in F : Exceeds(S, c, d) <=> Absolute(c) > Absolute(d)
  BY <1>2, <1>3 DEF Exceeds
<1> HIDE DEF F, S
<1>5. G = {c \in F : \A d \in F : Absolute(d) <= Absolute(c)}
  BY <1>3, <1>4 DEF Greatest
<1>6. W # {} <=> G # {}
  <2>1. G = {} => First(G) = {}
    BY DEF First
  <2>2. ASSUME G # {} PROVE First(G) # {}
    <3> DEFINE P == {c.place : c \in G}
    <3>1. P # {} /\ P \subseteq Nat \X Nat
      BY <1>2, <1>5, <2>2
    <3>2. PICK x \in P : \A y \in P : ~Before(y, x)
      <4> HIDE DEF P
      <4> QED BY <3>1, EarliestPlace
    <3>3. PICK c \in G : c.place = x
      BY <3>2
    <3> HIDE DEF G
    <3>4. c \in First(G)
      BY <3>2, <3>3 DEF First
    <3> QED BY <3>4
  <2> QED BY <1>1, <2>1, <2>2
<1>7. W \subseteq G
  BY <1>1 DEF First
<1> HIDE DEF W, G
<1>8. W # {} <=> \E t \in T : \A u \in T : u <= t
  BY <1>5, <1>6
<1>9. \A c \in W : c \in V /\ Absolute(c) \in T /\ \A u \in T : u <= Absolute(c)
  BY <1>2, <1>5, <1>7
<1> QED BY <1>8, <1>9 DEF W, T, F, S

\* The readable amounts of the first pattern that has any.
ReadableAt(hits, x) == ReadAmount(Hit(hits, x).value)
ReadablePlaces(hits) == {x \in Places(hits) : ReadableAt(hits, x).accepted}
ForemostReadable(hits) ==
  {x \in ReadablePlaces(hits) : \A y \in ReadablePlaces(hits) : x[1] <= y[1]}

\* Amounts as an invoice or a credit note has them.
LEMMA AmountCandidates ==
  ASSUME NEW field, field.profile = "amount", NEW note \in BOOLEAN, NEW hits,
         AreFindings(hits),
         \A x \in Places(hits) : IsWritten(Hit(hits, x).value) /\ ~Hit(hits, x).value.sign.within
  PROVE  \A c \in Valid(field, RegexCandidates(field, hits, note)) :
           /\ c.confidence = 95
           /\ c.place \in ReadablePlaces(hits) /\ c.place \in Nat \X Nat
           /\ c.value \in Int
           /\ Absolute(c) = Absolute(ReadableAt(hits, c.place))
           /\ note => c.value = -Absolute(c)
<1> SUFFICES ASSUME NEW c \in Valid(field, RegexCandidates(field, hits, note))
             PROVE  /\ c.confidence = 95
                    /\ c.place \in ReadablePlaces(hits) /\ c.place \in Nat \X Nat
                    /\ c.value \in Int
                    /\ Absolute(c) = Absolute(ReadableAt(hits, c.place))
                    /\ note => c.value = -Absolute(c)
  OBVIOUS
<1>1. IsMonetary(field)
  BY DEF IsMonetary
<1>2. PICK d \in RegexCandidates(field, hits, note) :
        /\ c = Candidate(d.place, Normalized(field, d.value).value, d.confidence)
        /\ Normalized(field, d.value).accepted
  BY DEF Valid
<1>3. PICK x \in Places(hits) : d = Candidate(x, FoundValue(field, hits, note, x), 95)
  BY DEF RegexCandidates
<1> DEFINE w == Hit(hits, x).value
<1>4. FoundValue(field, hits, note, x) = IF note THEN Negated(w) ELSE w
  BY DEF FoundValue, Cleaned
<1>5. /\ c.place = x /\ c.confidence = 95
      /\ c.value = ReadAmount(FoundValue(field, hits, note, x)).value
      /\ ReadAmount(FoundValue(field, hits, note, x)).accepted
  BY <1>1, <1>2, <1>3 DEF Candidate, Normalized
<1>6. /\ ReadAmount(Negated(w)).accepted = ReadAmount(w).accepted
      /\ ReadAmount(w).accepted =>
           /\ ReadAmount(w).value \in Int
           /\ ReadAmount(Negated(w)).value = -Absolute(ReadAmount(w))
  BY NegatedReads
<1>7. x \in Nat \X Nat
  <2>1. \A i \in DOMAIN hits : i \in Nat /\ DOMAIN hits[i] \subseteq Nat
    BY DEF AreFindings, IsList
  <2> QED BY <2>1 DEF Places
<1> HIDE DEF w
<1>8. ReadAmount(w).accepted
  BY <1>4, <1>5, <1>6
<1>9. c.place \in ReadablePlaces(hits) /\ ReadableAt(hits, x) = ReadAmount(w)
  BY <1>5, <1>8 DEF ReadablePlaces, ReadableAt, w
<1>10. c.value = IF note THEN -Absolute(ReadAmount(w)) ELSE ReadAmount(w).value
  BY <1>4, <1>5, <1>6, <1>8
<1>11. ReadAmount(w).value \in Int
  BY <1>6, <1>8
<1>12. c.value \in Int /\ Absolute(c) = Absolute(ReadAmount(w)) /\ (note => c.value = -Absolute(c))
  BY <1>10, <1>11 DEF Absolute
<1> QED BY <1>5, <1>7, <1>9, <1>12

\* A readable amount is a valid candidate, or one like it is before.
LEMMA ReadableIsValid ==
  ASSUME NEW field, field.profile = "amount", NEW note \in BOOLEAN, NEW hits,
         AreFindings(hits),
         \A x \in Places(hits) : IsWritten(Hit(hits, x).value) /\ ~Hit(hits, x).value.sign.within,
         NEW x \in ReadablePlaces(hits)
  PROVE  \E c \in Valid(field, RegexCandidates(field, hits, note)) :
           c.place[1] <= x[1] /\ Absolute(c) = Absolute(ReadableAt(hits, x))
<1>1. IsMonetary(field) /\ x \in Places(hits)
  BY DEF IsMonetary, ReadablePlaces
<1> DEFINE w == Hit(hits, x).value
<1>2. PICK d \in RegexCandidates(field, hits, note) :
        /\ d.value = FoundValue(field, hits, note, x)
        /\ d.confidence = 95
        /\ d.place[1] <= x[1]
  BY <1>1, FindingIsCandidate
<1>3. FoundValue(field, hits, note, x) = IF note THEN Negated(w) ELSE w
  BY DEF FoundValue, Cleaned
<1>4. /\ ReadAmount(Negated(w)).accepted = ReadAmount(w).accepted
      /\ ReadAmount(w).accepted =>
           /\ ReadAmount(w).value \in Int
           /\ ReadAmount(Negated(w)).value = -Absolute(ReadAmount(w))
  BY <1>1, NegatedReads
<1>5. ReadAmount(w).accepted /\ ReadableAt(hits, x) = ReadAmount(w)
  BY DEF ReadablePlaces, ReadableAt
<1> DEFINE c == Candidate(d.place, Normalized(field, d.value).value, d.confidence)
<1>6. Normalized(field, d.value) = ReadAmount(IF note THEN Negated(w) ELSE w)
  BY <1>1, <1>2, <1>3 DEF Normalized
<1>7. c \in Valid(field, RegexCandidates(field, hits, note))
  <2>1. Normalized(field, d.value).accepted
    <3>1. CASE note
      BY <1>4, <1>5, <1>6, <3>1
    <3>2. CASE ~note
      BY <1>5, <1>6, <3>2
    <3> QED BY <3>1, <3>2
  <2>2. d.confidence >= MinimumConfidence
    BY <1>2 DEF MinimumConfidence
  <2> QED BY <1>2, <2>1, <2>2 DEF Valid
<1>8. c.place = d.place /\ c.value = Normalized(field, d.value).value
  BY DEF Candidate
<1> HIDE DEF w, c
<1>9. c.value = IF note THEN -Absolute(ReadAmount(w)) ELSE ReadAmount(w).value
  BY <1>4, <1>5, <1>6, <1>8
<1>10. Absolute(c) = Absolute(ReadAmount(w))
  BY <1>4, <1>5, <1>9 DEF Absolute
<1> QED BY <1>2, <1>5, <1>7, <1>8, <1>10

\* Invoice and credit note compare the same absolute values.
LEMMA ComparedAmounts ==
  ASSUME NEW field, field.profile = "amount", NEW note \in BOOLEAN, NEW hits,
         AreFindings(hits),
         \A x \in Places(hits) : IsWritten(Hit(hits, x).value) /\ ~Hit(hits, x).value.sign.within
  PROVE  {Absolute(c) : c \in Foremost(Valid(field, RegexCandidates(field, hits, note)))} =
           {Absolute(ReadableAt(hits, x)) : x \in ForemostReadable(hits)}
<1> DEFINE V == Valid(field, RegexCandidates(field, hits, note))
           A == ReadablePlaces(hits)
           size(x) == Absolute(ReadableAt(hits, x))
<1>1. \A c \in V : c.place \in A /\ Absolute(c) = size(c.place)
  BY AmountCandidates
<1>2. \A x \in A : \E c \in V : c.place[1] <= x[1] /\ Absolute(c) = size(x)
  BY ReadableIsValid
<1>3. \A x \in A : x[1] \in Nat
  <2>1. \A i \in DOMAIN hits : i \in Nat
    BY DEF AreFindings, IsList
  <2> QED BY <2>1 DEF ReadablePlaces, Places
<1> HIDE DEF V, A, size
<1>4. ASSUME NEW c \in Foremost(V) PROVE \E x \in ForemostReadable(hits) : Absolute(c) = size(x)
  <2>1. c \in V /\ \A d \in V : c.place[1] <= d.place[1]
    BY <1>4 DEF Foremost
  <2>2. \A y \in A : c.place[1] <= y[1]
    BY <1>1, <1>2, <1>3, <2>1
  <2>3. c.place \in ForemostReadable(hits)
    BY <1>1, <2>1, <2>2 DEF ForemostReadable, A
  <2> QED BY <1>1, <2>1, <2>3
<1>5. ASSUME NEW x \in ForemostReadable(hits) PROVE \E c \in Foremost(V) : Absolute(c) = size(x)
  <2>1. x \in A /\ \A y \in A : x[1] <= y[1]
    BY <1>5 DEF ForemostReadable, A
  <2>2. PICK c \in V : c.place[1] <= x[1] /\ Absolute(c) = size(x)
    BY <1>2, <2>1
  <2>3. \A d \in V : c.place[1] <= d.place[1]
    BY <1>1, <1>3, <2>1, <2>2
  <2> QED BY <2>2, <2>3 DEF Foremost
<1> QED BY <1>4, <1>5 DEF V, size

\* What a field of amounts gets from its patterns: nothing, or one of the foremost
\* readable amounts that no other one exceeds.
LEMMA ChosenAmount ==
  ASSUME NEW field, field.profile = "amount", NEW note \in BOOLEAN, NEW hits,
         AreFindings(hits),
         \A x \in Places(hits) : IsWritten(Hit(hits, x).value) /\ ~Hit(hits, x).value.sign.within
  PROVE  LET T == {Absolute(ReadableAt(hits, x)) : x \in ForemostReadable(hits)}
             a == Chosen(Select("pattern_priority_highest",
                                Valid(field, RegexCandidates(field, hits, note))))
         IN /\ a.found = \E t \in T : \A u \in T : u <= t
            /\ a.found => /\ a.value \in Int
                          /\ Absolute(a) \in T /\ \A u \in T : u <= Absolute(a)
                          /\ note => a.value = -Absolute(a)
<1> DEFINE V == Valid(field, RegexCandidates(field, hits, note))
           W == Select("pattern_priority_highest", V)
           T == {Absolute(c) : c \in Foremost(V)}
           a == Chosen(W)
<1>1. \A c \in V : /\ c.place \in Nat \X Nat /\ c.value \in Int /\ c.confidence = 95
                   /\ note => c.value = -Absolute(c)
  BY AmountCandidates
<1>2. T = {Absolute(ReadableAt(hits, x)) : x \in ForemostReadable(hits)}
  BY ComparedAmounts
<1> HIDE DEF V
<1>3. /\ W # {} <=> \E t \in T : \A u \in T : u <= t
      /\ \A c \in W : c \in V /\ Absolute(c) \in T /\ \A u \in T : u <= Absolute(c)
  <2>1. \A c \in V : c.place \in Nat \X Nat /\ c.value \in Int /\ c.confidence = 95
    BY <1>1
  <2> QED BY <2>1, GreatestAmount
<1> HIDE DEF W, T
<1>4. a.found = (W # {})
  BY DEF Chosen, NoValue
<1>5. ASSUME W # {}
      PROVE  \E c \in W : a.value = c.value
  BY <1>5 DEF Chosen
<1> HIDE DEF a
<1>6. ASSUME W # {}
      PROVE  /\ a.value \in Int
             /\ Absolute(a) \in T /\ \A u \in T : u <= Absolute(a)
             /\ note => a.value = -Absolute(a)
  <2>1. PICK c \in W : a.value = c.value
    BY <1>5, <1>6
  <2>2. Absolute(a) = Absolute(c)
    BY <2>1 DEF Absolute
  <2> QED BY <1>1, <1>3, <2>1, <2>2
<1>7. /\ a.found = \E t \in T : \A u \in T : u <= t
      /\ a.found => /\ a.value \in Int
                    /\ Absolute(a) \in T /\ \A u \in T : u <= Absolute(a)
                    /\ note => a.value = -Absolute(a)
  BY <1>3, <1>4, <1>6
<1> QED BY <1>2, <1>7 DEF a, W, V

\* However many patterns and findings there are, and however their amounts are written
\* (but with a minus behind a bracket or a currency), a credit note gets the total of the invoice
\* with the same figures, as a negative amount (negate_on_negative_context).
THEOREM CreditNoteMirrorsInvoiceAlways == Spec => []CreditNoteMirrorsInvoice
<1>1. AnswerIsTheValue => CreditNoteMirrorsInvoice
  <2> DEFINE q == question.of
             field == q.field
             hits == q.hits
             invoice == [q EXCEPT !.creditNote = ~q.creditNote]
             other == Value(invoice)
  <2> SUFFICES ASSUME AnswerIsTheValue, Answered("field"), field.profile = "amount",
                      ~field.ai, q.creditNote,
                      \A x \in Places(hits) : ~Hit(hits, x).value.sign.within
               PROVE  /\ answer.found = other.found
                      /\ answer.found => answer.value = -Absolute(other)
    BY DEF CreditNoteMirrorsInvoice, Extracted
  <2>1. q \in FieldQuestions /\ answer = ExtractedValue(field, q)
    BY DEF AnswerIsTheValue, Answered, Value
  <2>2. /\ invoice.field = field /\ invoice.documentType = q.documentType
        /\ invoice.hits = hits /\ invoice.creditNote = FALSE
    <3>1. /\ q = [field |-> q.field, documentType |-> q.documentType,
                  creditNote |-> q.creditNote, hits |-> q.hits, suggestions |-> q.suggestions]
          /\ q.creditNote \in BOOLEAN
      BY <2>1, FieldQuestionAssumption
    <3>2. invoice = [q EXCEPT !.creditNote = FALSE]
      OBVIOUS
    <3> HIDE DEF invoice
    <3> QED BY <3>1, <3>2
  <2> HIDE DEF invoice
  <2>3. Strategy(field) = "pattern_priority_highest"
    BY DEF Strategy
  <2>4. /\ AreFindings(hits)
        /\ \A x \in Places(hits) : IsWritten(Hit(hits, x).value)
    BY <2>1, FieldQuestionAssumption
  <2>5. CASE ~InScope(field, q.documentType) \/ ~field.ocr
    <3>1. Candidates(field, q) = {} /\ Candidates(field, invoice) = {}
      BY <2>2, <2>5 DEF Candidates
    <3>2. Valid(field, {}) = {}
      BY DEF Valid
    <3>3. ~answer.found /\ ~other.found /\ answer = other
      BY <2>1, <2>2, <3>1, <3>2, NothingValidNoValue DEF ExtractedValue, Value
    <3> QED BY <3>3
  <2>6. CASE InScope(field, q.documentType) /\ field.ocr
    <3> DEFINE T == {Absolute(ReadableAt(hits, x)) : x \in ForemostReadable(hits)}
               C(note) == Chosen(Select("pattern_priority_highest",
                                        Valid(field, RegexCandidates(field, hits, note))))
    <3>1. answer = C(TRUE) /\ other = C(FALSE)
      <4>1. q.creditNote = TRUE
        BY <2>1, FieldQuestionAssumption
      <4>2. /\ Candidates(field, q) = RegexCandidates(field, hits, TRUE)
            /\ Candidates(field, invoice) = RegexCandidates(field, hits, FALSE)
        BY <2>2, <2>6, <4>1 DEF Candidates
      <4> QED BY <2>1, <2>2, <2>3, <4>2 DEF ExtractedValue, Value
    <3>2. /\ answer.found = \E t \in T : \A u \in T : u <= t
          /\ answer.found => /\ answer.value = -Absolute(answer)
                             /\ Absolute(answer) \in T /\ \A u \in T : u <= Absolute(answer)
      BY <2>4, <3>1, ChosenAmount
    <3>3. /\ other.found = \E t \in T : \A u \in T : u <= t
          /\ other.found => /\ other.value \in Int
                            /\ Absolute(other) \in T /\ \A u \in T : u <= Absolute(other)
      <4>1. FALSE \in BOOLEAN
        OBVIOUS
      <4>2. /\ C(FALSE).found = \E t \in T : \A u \in T : u <= t
            /\ C(FALSE).found => /\ C(FALSE).value \in Int
                                 /\ Absolute(C(FALSE)) \in T
                                 /\ \A u \in T : u <= Absolute(C(FALSE))
        BY <2>4, <4>1, ChosenAmount
      <4> HIDE DEF T, C
      <4> QED BY <3>1, <4>2
    <3>4. \A t \in T : t \in Int
      BY <2>4, NegatedReads DEF ForemostReadable, ReadablePlaces, ReadableAt, Absolute
    <3> HIDE DEF T, C
    <3>5. answer.found = other.found
      BY <3>2, <3>3
    <3>6. ASSUME answer.found PROVE answer.value = -Absolute(other)
      <4>1. /\ Absolute(answer) \in T /\ \A u \in T : u <= Absolute(answer)
            /\ Absolute(other) \in T /\ \A u \in T : u <= Absolute(other)
        BY <3>2, <3>3, <3>5, <3>6
      <4>2. Absolute(answer) = Absolute(other)
        BY <3>4, <4>1
      <4> QED BY <3>2, <3>6, <4>2
    <3> QED BY <3>5, <3>6
  <2> QED BY <2>5, <2>6 DEF invoice
<1> QED
  BY <1>1, AnswerIsTheValueInit, AnswerIsTheValueNext, PTL DEF Spec

-----------------------------------------------------------------------------
(* Titles. *)

\* A set of positions has a first and a last one.
LEMMA FirstAndLast ==
  ASSUME NEW n \in Nat, NEW S \in SUBSET (1..n), S # {}
  PROVE  /\ Min(S) \in S /\ \A x \in S : Min(S) <= x
         /\ Max(S) \in S /\ \A x \in S : x <= Max(S)
<1> S \in SUBSET Nat
  OBVIOUS
<1>1. \E x \in S : \A y \in S : x <= y
  BY LeastNumber
<1>2. Min(S) \in S /\ \A x \in S : Min(S) <= x
  BY <1>1 DEF Min
<1>3. \E x \in S : \A y \in S : x >= y
  <2> DEFINE R == {k \in 0..n : n - k \in S}
  <2>0. R \in SUBSET Nat
    OBVIOUS
  <2>1. R # {}
    <3>1. PICK x \in S : TRUE
      OBVIOUS
    <3>2. n - x \in 0..n /\ n - (n - x) = x
      OBVIOUS
    <3>3. n - x \in R
      BY <3>2
    <3> HIDE DEF R
    <3> QED BY <3>3
  <2> HIDE DEF R
  <2>2. PICK k \in R : \A l \in R : k <= l
    BY <2>0, <2>1, LeastNumber
  <2> USE DEF R
  <2>3. n - k \in S
    BY <2>2
  <2>4. ASSUME NEW y \in S PROVE n - k >= y
    <3>1. n - y \in R
      OBVIOUS
    <3> QED BY <2>2, <3>1
  <2> QED BY <2>3, <2>4
<1>4. Max(S) \in S /\ \A x \in S : Max(S) >= x
  BY <1>3 DEF Max
<1>5. \A x \in S : x <= Max(S)
  BY <1>4
<1> QED BY <1>2, <1>4, <1>5

\* The k-th of some positions, for every k up to their number.
LEMMA Ranks ==
  ASSUME NEW n \in Nat, NEW P \in SUBSET (1..n), NEW rank,
         rank = [i \in P |-> Cardinality({j \in P : j <= i})]
  PROVE  /\ Cardinality(P) \in Nat
         /\ \A i \in P : rank[i] \in 1..Cardinality(P)
         /\ \A i, j \in P : i < j => rank[i] < rank[j]
         /\ \A k \in 1..Cardinality(P) : \E i \in P : rank[i] = k
<1> DEFINE Upto(i) == {j \in P : j <= i}
           places == 1..Cardinality(P)
<1>0. \A i \in P : i \in Nat
  OBVIOUS
<1>1. IsFiniteSet(P) /\ Cardinality(P) \in Nat
  <2>1. IsFiniteSet(1..n)
    BY FS_Interval
  <2> QED BY <2>1, FS_Subset, FS_CardinalityType
<1>2. \A i \in P : IsFiniteSet(Upto(i)) /\ Cardinality(Upto(i)) \in places
  <2> SUFFICES ASSUME NEW i \in P PROVE IsFiniteSet(Upto(i)) /\ Cardinality(Upto(i)) \in places
    OBVIOUS
  <2>1. Upto(i) \in SUBSET P /\ i \in Upto(i)
    OBVIOUS
  <2> HIDE DEF Upto
  <2>2. IsFiniteSet(Upto(i)) /\ Cardinality(Upto(i)) <= Cardinality(P)
    BY <1>1, <2>1, FS_Subset
  <2>3. Cardinality(Upto(i)) \in Nat /\ Cardinality(Upto(i)) # 0
    BY <2>1, <2>2, FS_CardinalityType, FS_EmptySet
  <2> QED BY <1>1, <2>2, <2>3
<1>3. \A i, j \in P : i < j => Cardinality(Upto(i)) < Cardinality(Upto(j))
  <2> SUFFICES ASSUME NEW i \in P, NEW j \in P, i < j
               PROVE  Cardinality(Upto(i)) < Cardinality(Upto(j))
    OBVIOUS
  <2>1. Upto(i) \in SUBSET Upto(j)
    <3>1. \A x \in P : x <= i => x <= j
      BY <1>0
    <3> QED BY <3>1
  <2>2. Upto(i) # Upto(j)
    OBVIOUS
  <2>3. /\ IsFiniteSet(Upto(j))
        /\ Cardinality(Upto(i)) \in places /\ Cardinality(Upto(j)) \in places
    BY <1>2
  <2> HIDE DEF Upto
  <2>4. Cardinality(Upto(i)) <= Cardinality(Upto(j)) /\ Cardinality(Upto(i)) # Cardinality(Upto(j))
    BY <2>1, <2>2, <2>3, FS_Subset
  <2> QED BY <1>1, <2>3, <2>4
<1>4. rank = [i \in P |-> Cardinality(Upto(i))]
  OBVIOUS
<1> HIDE DEF Upto
<1>5. \A i \in P : rank[i] \in places
  BY <1>2, <1>4
<1>6. \A i, j \in P : i < j => rank[i] < rank[j]
  BY <1>3, <1>4
<1>7. IsFiniteSet(places) /\ Cardinality(places) = Cardinality(P)
  BY <1>1, FS_Interval
<1>8. rank \in Injection(P, places)
  <2>1. \A i, j \in P : rank[i] = rank[j] => i = j
    <3> SUFFICES ASSUME NEW i \in P, NEW j \in P, i # j PROVE rank[i] # rank[j]
      OBVIOUS
    <3>1. i < j \/ j < i
      OBVIOUS
    <3>2. rank[i] < rank[j] \/ rank[j] < rank[i]
      BY <1>6, <3>1
    <3> QED BY <1>1, <1>5, <3>2
  <2>2. rank \in [P -> places]
    BY <1>4, <1>5
  <2> QED BY <2>1, <2>2 DEF Injection, IsInjective
<1>9. rank \in Surjection(P, places)
  BY <1>7, <1>8, FS_Injection
<1>10. \A k \in places : \E i \in P : rank[i] = k
  BY <1>9 DEF Surjection
<1> QED BY <1>1, <1>5, <1>6, <1>10

\* What is kept of a text stands in its order, and nothing of it is missing.
KeptAt(text, P, at, new) ==
  /\ Len(new) = Cardinality(P) /\ Len(new) \in Nat
  /\ \A k \in 1..Len(new) : at[k] \in P /\ new[k] = text[at[k]]
  /\ \A k, l \in 1..Len(new) : k < l => at[k] < at[l]
  /\ \A i \in P : \E k \in 1..Len(new) : at[k] = i

LEMMA KeptInOrder ==
  ASSUME NEW Chars, NEW text \in Seq(Chars), NEW P \in SUBSET (1..Len(text))
  PROVE  /\ Kept(text, P) \in Seq(Chars)
         /\ \E at : KeptAt(text, P, at, Kept(text, P))
<1> DEFINE n == Len(text)
           m == Cardinality(P)
           rank == [i \in P |-> Cardinality({j \in P : j <= i})]
           at == [k \in 1..m |-> CHOOSE i \in P : rank[i] = k]
<1>1. n \in Nat /\ \A i \in 1..n : text[i] \in Chars
  <2> HIDE DEF m, rank, at
  <2> QED OBVIOUS
<1>0. \A i \in P : i \in Nat
  OBVIOUS
<1>2. /\ m \in Nat
      /\ \A i \in P : rank[i] \in 1..m
      /\ \A i, j \in P : i < j => rank[i] < rank[j]
      /\ \A k \in 1..m : \E i \in P : rank[i] = k
  BY <1>1, Ranks, ZenonT(30)
<1>3. Kept(text, P) = [k \in 1..m |-> text[CHOOSE i \in P : rank[i] = k]]
  BY DEF Kept
<1> HIDE DEF rank, m, n
<1>4. \A k \in 1..m : at[k] \in P /\ rank[at[k]] = k
  BY <1>2
<1>5. \A k \in 1..m : Kept(text, P)[k] = text[at[k]]
  BY <1>3
<1>6. Kept(text, P) \in Seq(Chars) /\ Len(Kept(text, P)) = m
  <2>1. \A k \in 1..m : text[at[k]] \in Chars
    BY <1>1, <1>4 DEF n
  <2>2. Kept(text, P) = [k \in 1..m |-> text[at[k]]]
    BY <1>3
  <2> HIDE DEF at
  <2> QED BY <1>2, <2>1, <2>2
<1> HIDE DEF at
<1>7. \A k, l \in 1..m : k < l => at[k] < at[l]
  <2> SUFFICES ASSUME NEW k \in 1..m, NEW l \in 1..m, k < l PROVE at[k] < at[l]
    OBVIOUS
  <2>1. at[k] \in P /\ at[l] \in P /\ rank[at[k]] = k /\ rank[at[l]] = l
    BY <1>4
  <2>2. ~(rank[at[l]] < rank[at[k]]) /\ at[k] # at[l]
    BY <1>2, <2>1
  <2>3. ~(at[l] < at[k])
    BY <1>2, <2>1, <2>2
  <2>4. at[k] \in Nat /\ at[l] \in Nat
    BY <1>0, <2>1
  <2> QED BY <2>2, <2>3, <2>4
<1>8. \A i \in P : \E k \in 1..m : at[k] = i
  <2> SUFFICES ASSUME NEW i \in P PROVE \E k \in 1..m : at[k] = i
    OBVIOUS
  <2>1. rank[i] \in 1..m /\ at[rank[i]] \in P /\ rank[at[rank[i]]] = rank[i]
    BY <1>2, <1>4
  <2>2. ~(at[rank[i]] < i) /\ ~(i < at[rank[i]])
    <3>1. ~(rank[at[rank[i]]] < rank[i]) /\ ~(rank[i] < rank[at[rank[i]]])
      BY <1>2, <2>1
    <3> QED BY <1>2, <2>1, <3>1
  <2>3. at[rank[i]] = i
    <3>1. at[rank[i]] \in Nat /\ i \in Nat
      BY <1>0, <2>1
    <3> QED BY <2>2, <3>1
  <2> QED BY <2>1, <2>3
<1>9. KeptAt(text, P, at, Kept(text, P))
  BY <1>2, <1>4, <1>5, <1>6, <1>7, <1>8 DEF KeptAt, m
<1> QED BY <1>6, <1>9

LEMMA CollapsedIsSpaced ==
  ASSUME NEW Chars, NEW text \in Seq(Chars)
  PROVE  /\ CollapseSeparators(text) \in Seq(Chars)
         /\ Spaced(CollapseSeparators(text))
<1> DEFINE P == {i \in DOMAIN text : ~InRunAfterFirst(text, i)}
           new == CollapseSeparators(text)
<1>0. DOMAIN text = 1..Len(text) /\ Len(text) \in Nat
  OBVIOUS
<1>1. P \in SUBSET (1..Len(text)) /\ new = Kept(text, P)
  BY <1>0 DEF CollapseSeparators
<1>2. \A i \in 1..Len(text) : text[i] \notin EdgeSeparators => i \in P
  BY DEF InRunAfterFirst
<1>3. \A i, j \in 1..Len(text) :
        (/\ i < j /\ text[i] \in Separators /\ text[j] \in Separators
         /\ \A k \in i..j : text[k] \in EdgeSeparators) => j \notin P
  <2> SUFFICES ASSUME NEW i \in 1..Len(text), NEW j \in 1..Len(text),
                      i < j, text[i] \in Separators, text[j] \in Separators,
                      \A k \in i..j : text[k] \in EdgeSeparators
               PROVE  InRunAfterFirst(text, j)
    OBVIOUS
  <2>1. i \in 1..(j - 1) /\ j \in j..Len(text) /\ \A k \in j..j : text[k] \in EdgeSeparators
    OBVIOUS
  <2> QED BY <2>1 DEF InRunAfterFirst
<1> HIDE DEF P, new
<1>4. new \in Seq(Chars) /\ \E at : KeptAt(text, P, at, new)
  BY <1>1, KeptInOrder
<1> DEFINE m == Len(new)
<1>5. PICK at : KeptAt(text, P, at, new)
  BY <1>4
<1>6. /\ m \in Nat /\ DOMAIN new = 1..m
      /\ \A k \in 1..m : at[k] \in P /\ new[k] = text[at[k]]
      /\ \A k, l \in 1..m : k < l => at[k] < at[l]
      /\ \A i \in P : \E k \in 1..m : at[k] = i
  <2>1. DOMAIN new = 1..m
    BY <1>4
  <2> QED BY <1>5, <2>1 DEF KeptAt
<1> HIDE DEF m
<1>7. Spaced(new)
  <2> SUFFICES ASSUME NEW i \in 1..m, NEW j \in 1..m, i < j,
                      new[i] \in Separators, new[j] \in Separators
               PROVE  \E k \in i..j : new[k] \notin EdgeSeparators
    BY <1>6 DEF Spaced
  <2>1. at[i] \in P /\ at[j] \in P /\ at[i] < at[j] /\ text[at[i]] = new[i] /\ text[at[j]] = new[j]
    BY <1>6
  <2>2. PICK q \in at[i]..at[j] : text[q] \notin EdgeSeparators
    BY <1>1, <1>3, <2>1
  <2>3. q \in P /\ q \in Nat
    <3> DEFINE n == Len(text)
    <3>1. at[i] \in 1..n /\ at[j] \in 1..n
      BY <1>1, <2>1
    <3> HIDE DEF n
    <3>2. q \in 1..n
      BY <1>0, <3>1 DEF n
    <3> QED BY <1>2, <2>2, <3>2 DEF n
  <2>4. PICK k \in 1..m : at[k] = q
    BY <1>6, <2>3
  <2>5. ~(k < i) /\ ~(j < k)
    <3>0. \A p \in P : p \in Nat
      <4>1. P \in SUBSET (1..Len(text))
        BY <1>1
      <4> QED BY <1>0, <4>1
    <3>1. at[i] \in Nat /\ at[j] \in Nat
      BY <2>1, <3>0
    <3>2. ~(at[k] < at[i]) /\ ~(at[j] < at[k])
      BY <2>2, <2>4, <3>1
    <3> QED BY <1>6, <2>4, <3>2
  <2>6. k \in i..j /\ new[k] \notin EdgeSeparators
    BY <1>6, <2>2, <2>4, <2>5
  <2> QED BY <2>6
<1> QED BY <1>4, <1>7 DEF new

LEMMA CollapsedBlanksStaySpaced ==
  ASSUME NEW Chars, NEW text \in Seq(Chars), Spaced(text)
  PROVE  /\ CollapseBlanks(text) \in Seq(Chars)
         /\ Spaced(CollapseBlanks(text))
<1> DEFINE P == {i \in DOMAIN text : ~(text[i] = " " /\ i > 1 /\ text[i - 1] = " ")}
           new == CollapseBlanks(text)
<1>0. DOMAIN text = 1..Len(text) /\ Len(text) \in Nat
  OBVIOUS
<1>1. P \in SUBSET (1..Len(text)) /\ new = Kept(text, P)
  <2>1. new = Kept(text, P)
    BY DEF CollapseBlanks
  <2>2. P \in SUBSET DOMAIN text
    OBVIOUS
  <2> HIDE DEF P, new
  <2> QED BY <1>0, <2>1, <2>2
<1>2. \A i \in 1..Len(text) : text[i] \notin EdgeSeparators => i \in P
  <2> SUFFICES ASSUME NEW i \in DOMAIN text, text[i] \notin EdgeSeparators PROVE i \in P
    BY <1>0
  <2>1. text[i] # " "
    BY DEF EdgeSeparators
  <2> QED BY <2>1
<1> HIDE DEF P, new
<1>4. new \in Seq(Chars) /\ \E at : KeptAt(text, P, at, new)
  BY <1>1, KeptInOrder
<1> DEFINE m == Len(new)
<1>5. PICK at : KeptAt(text, P, at, new)
  BY <1>4
<1>6. /\ m \in Nat /\ DOMAIN new = 1..m
      /\ \A k \in 1..m : at[k] \in P /\ new[k] = text[at[k]]
      /\ \A k, l \in 1..m : k < l => at[k] < at[l]
      /\ \A i \in P : \E k \in 1..m : at[k] = i
  <2>1. DOMAIN new = 1..m
    BY <1>4
  <2> QED BY <1>5, <2>1 DEF KeptAt
<1> HIDE DEF m
<1>7. Spaced(new)
  <2> SUFFICES ASSUME NEW i \in 1..m, NEW j \in 1..m, i < j,
                      new[i] \in Separators, new[j] \in Separators
               PROVE  \E k \in i..j : new[k] \notin EdgeSeparators
    BY <1>6 DEF Spaced
  <2>1. at[i] \in P /\ at[j] \in P /\ at[i] < at[j] /\ text[at[i]] = new[i] /\ text[at[j]] = new[j]
    BY <1>6
  <2>2. PICK q \in at[i]..at[j] : text[q] \notin EdgeSeparators
    BY <1>0, <1>1, <2>1 DEF Spaced
  <2>3. q \in P /\ q \in Nat
    <3> DEFINE n == Len(text)
    <3>1. at[i] \in 1..n /\ at[j] \in 1..n
      BY <1>1, <2>1
    <3> HIDE DEF n
    <3>2. q \in 1..n
      BY <1>0, <3>1 DEF n
    <3> QED BY <1>2, <2>2, <3>2 DEF n
  <2>4. PICK k \in 1..m : at[k] = q
    BY <1>6, <2>3
  <2>5. ~(k < i) /\ ~(j < k)
    <3>0. \A p \in P : p \in Nat
      <4>1. P \in SUBSET (1..Len(text))
        BY <1>1
      <4> QED BY <1>0, <4>1
    <3>1. at[i] \in Nat /\ at[j] \in Nat
      BY <2>1, <3>0
    <3>2. ~(at[k] < at[i]) /\ ~(at[j] < at[k])
      BY <2>2, <2>4, <3>1
    <3> QED BY <1>6, <2>4, <3>2
  <2>6. k \in i..j /\ new[k] \notin EdgeSeparators
    BY <1>6, <2>2, <2>4, <2>5
  <2> QED BY <2>6
<1> QED BY <1>4, <1>7 DEF new

\* A part of a text whose separators have words between them is of the same kind.
LEMMA PartStaysSpaced ==
  ASSUME NEW Chars, NEW text \in Seq(Chars), Spaced(text),
         NEW a \in 1..Len(text), NEW b \in 0..Len(text)
  PROVE  /\ SubSeq(text, a, b) \in Seq(Chars)
         /\ Spaced(SubSeq(text, a, b))
<1> DEFINE part == SubSeq(text, a, b)
<1>1. /\ part \in Seq(Chars) /\ DOMAIN part = 1..Len(part)
      /\ Len(part) = IF a <= b THEN b - a + 1 ELSE 0
      /\ \A i \in 1..Len(part) : part[i] = text[a + i - 1]
  OBVIOUS
<1> HIDE DEF part
<1>2. Spaced(part)
  <2> SUFFICES ASSUME NEW i \in 1..Len(part), NEW j \in 1..Len(part), i < j,
                      part[i] \in Separators, part[j] \in Separators
               PROVE  \E k \in i..j : part[k] \notin EdgeSeparators
    BY <1>1 DEF Spaced
  <2>1. /\ a + i - 1 \in 1..Len(text) /\ a + j - 1 \in 1..Len(text) /\ a + i - 1 < a + j - 1
        /\ text[a + i - 1] \in Separators /\ text[a + j - 1] \in Separators
    BY <1>1
  <2>2. PICK q \in (a + i - 1)..(a + j - 1) : text[q] \notin EdgeSeparators
    <3> DEFINE x == a + i - 1
               y == a + j - 1
    <3> HIDE DEF x, y
    <3>1. x \in DOMAIN text /\ y \in DOMAIN text /\ x < y /\ {text[x], text[y]} \subseteq Separators
      BY <2>1 DEF x, y
    <3> QED BY <3>1 DEF Spaced, x, y
  <2> DEFINE k == q - a + 1
  <2>3. k \in i..j /\ k \in 1..Len(part) /\ a + k - 1 = q
    BY <2>1, <2>2
  <2> HIDE DEF k
  <2>4. part[k] = text[q]
    BY <1>1, <2>3
  <2> QED BY <2>2, <2>3, <2>4
<1> QED BY <1>1, <1>2 DEF part

\* Blanks and separators at the ends of a text are stripped.
LEMMA StrippedEdges ==
  ASSUME NEW Chars, NEW text \in Seq(Chars), Spaced(text)
  PROVE  /\ StripEdges(text) \in Seq(Chars)
         /\ Spaced(StripEdges(text))
         /\ StripEdges(text) # <<>> => StripEdges(text)[1] \notin EdgeSeparators
<1> DEFINE inner == {i \in DOMAIN text : text[i] \notin EdgeSeparators}
           a == Min(inner)
           b == Max(inner)
<1>1. DOMAIN text = 1..Len(text) /\ Len(text) \in Nat
  OBVIOUS
<1>2. CASE inner = {}
  <2>1. StripEdges(text) = <<>>
    BY <1>2 DEF StripEdges
  <2>2. Spaced(<<>>) /\ <<>> \in Seq(Chars)
    BY DEF Spaced
  <2> QED BY <2>1, <2>2
<1>3. CASE inner # {}
  <2>1. inner \in SUBSET (1..Len(text)) /\ \A i \in inner : text[i] \notin EdgeSeparators
    BY <1>1
  <2>2. StripEdges(text) = SubSeq(text, a, b)
    BY <1>3 DEF StripEdges
  <2> HIDE DEF inner
  <2>3. a \in inner /\ b \in inner /\ a <= b
    BY <1>1, <1>3, <2>1, FirstAndLast
  <2> HIDE DEF a, b
  <2>4. a \in 1..Len(text) /\ b \in 0..Len(text) /\ text[a] \notin EdgeSeparators
    BY <1>1, <2>1, <2>3
  <2>5. SubSeq(text, a, b)[1] = text[a]
    BY <1>1, <2>3, <2>4
  <2>6. SubSeq(text, a, b) \in Seq(Chars) /\ Spaced(SubSeq(text, a, b))
    BY <1>1, <2>4, PartStaysSpaced
  <2> QED BY <2>2, <2>4, <2>5, <2>6
<1> QED BY <1>2, <1>3

\* The beginning of a text that fits, without blanks and separators at its end.
LEMMA CutIsClean ==
  ASSUME NEW Chars, NEW text \in Seq(Chars), Spaced(text),
         text # <<>> => text[1] \notin EdgeSeparators,
         NEW max \in Nat, NEW cut, cut = StripEnd(Truncate(text, max))
  PROVE  /\ cut \in Seq(Chars) /\ Len(cut) <= max
         /\ Spaced(cut)
         /\ cut = StripEdges(cut)
<1> DEFINE n == IF Len(text) < max THEN Len(text) ELSE max
           begin == SubSeq(text, 1, n)
           inner == {i \in DOMAIN begin : begin[i] \notin EdgeSeparators}
           b == Max(inner)
<1>1. /\ Len(text) \in Nat /\ n \in 0..Len(text) /\ n <= max
      /\ Truncate(text, max) = begin
  BY DEF Truncate
<1> HIDE DEF n
<1>2. /\ begin \in Seq(Chars) /\ Len(begin) = n /\ DOMAIN begin = 1..n
      /\ \A i \in 1..n : begin[i] = text[i]
  BY <1>1
<1> HIDE DEF begin
<1>3. CASE inner = {}
  <2>1. cut = <<>>
    BY <1>1, <1>3 DEF StripEnd
  <2>2. Spaced(<<>>) /\ <<>> \in Seq(Chars) /\ Len(<<>>) = 0
    BY DEF Spaced
  <2>3. StripEdges(<<>>) = <<>>
    BY DEF StripEdges
  <2> QED BY <2>1, <2>2, <2>3
<1>4. CASE inner # {}
  <2>1. inner \in SUBSET (1..n) /\ \A i \in inner : begin[i] \notin EdgeSeparators
    BY <1>2
  <2>2. cut = SubSeq(begin, 1, b)
    BY <1>1, <1>4 DEF StripEnd
  <2> HIDE DEF inner
  <2>3. b \in inner
    <3>1. n \in Nat
      BY <1>1
    <3> QED BY <1>4, <2>1, <3>1, FirstAndLast
  <2> HIDE DEF b
  <2>4. b \in 1..n /\ begin[b] \notin EdgeSeparators
    BY <2>1, <2>3
  <2>5. cut = SubSeq(text, 1, b)
    <3>1. b \in 1..Len(text)
      BY <1>1, <2>4
    <3>2. SubSeq(begin, 1, b) = SubSeq(text, 1, b)
      BY <1>1, <1>2, <2>4, <3>1 DEF begin
    <3> QED BY <2>2, <3>2
  <2>6. /\ b \in 1..Len(text) /\ 1 \in 1..Len(text)
        /\ text[b] \notin EdgeSeparators
    BY <1>1, <1>2, <2>4
  <2>7. text[1] \notin EdgeSeparators
    <3>1. text # <<>>
      BY <2>6
    <3> QED BY <3>1
  <2>8. cut \in Seq(Chars) /\ Spaced(cut)
    <3>1. b \in 0..Len(text)
      BY <1>1, <2>6
    <3> QED BY <2>5, <2>6, <3>1, PartStaysSpaced
  <2>9. /\ Len(cut) = b /\ DOMAIN cut = 1..b
        /\ cut[1] \notin EdgeSeparators /\ cut[b] \notin EdgeSeparators
        /\ 1 \in 1..b /\ b \in 1..b
    BY <2>5, <2>6, <2>7
  <2>10. cut = StripEdges(cut)
    <3> DEFINE own == {i \in DOMAIN cut : cut[i] \notin EdgeSeparators}
    <3>1. 1 \in own /\ b \in own /\ own \in SUBSET (1..b)
      BY <2>9
    <3>2. StripEdges(cut) = SubSeq(cut, Min(own), Max(own))
      BY <3>1 DEF StripEdges
    <3> HIDE DEF own
    <3>3. b \in Nat
      BY <2>4
    <3>4. /\ Min(own) \in 1..b /\ Min(own) <= 1
          /\ Max(own) \in 1..b /\ b <= Max(own)
      BY <3>1, <3>3, FirstAndLast
    <3>5. Min(own) = 1 /\ Max(own) = b
      BY <3>3, <3>4
    <3>6. SubSeq(cut, 1, b) = cut
      BY <2>8, <2>9
    <3> QED BY <3>2, <3>5, <3>6
  <2>11. Len(cut) <= max
    BY <1>1, <2>4, <2>9
  <2> QED BY <2>8, <2>10, <2>11
<1> QED BY <1>3, <1>4

LEMMA CleanedTitle ==
  ASSUME NEW Chars, NEW text \in Seq(Chars), NEW title,
         title = StripEnd(Truncate(Cleanup(text), MaxTitleLength))
  PROVE  /\ title \in Seq(Chars) /\ Len(title) <= MaxTitleLength
         /\ Spaced(title)
         /\ title = StripEdges(title)
<1>1. CollapseSeparators(text) \in Seq(Chars) /\ Spaced(CollapseSeparators(text))
  BY CollapsedIsSpaced
<1> DEFINE blanks == CollapseBlanks(CollapseSeparators(text))
<1>2. blanks \in Seq(Chars) /\ Spaced(blanks)
  BY <1>1, CollapsedBlanksStaySpaced
<1>3. Cleanup(text) = StripEdges(blanks)
  BY DEF Cleanup
<1> HIDE DEF blanks
<1>4. /\ Cleanup(text) \in Seq(Chars) /\ Spaced(Cleanup(text))
      /\ Cleanup(text) # <<>> => Cleanup(text)[1] \notin EdgeSeparators
  BY <1>2, <1>3, StrippedEdges
<1> QED BY <1>4, CutIsClean, LengthsAssumption

\* What the parts of a text give, one after the other.
LEMMA PrefixesFlat ==
  ASSUME NEW parts, NEW n \in Nat
  PROVE  \E f : f = [i \in 1..n |-> IF i = 1 THEN parts[i] ELSE f[i - 1] \o parts[i]]
<1> DEFINE Flat(f, m) == f = [i \in 1..m |-> IF i = 1 THEN parts[i] ELSE f[i - 1] \o parts[i]]
           Bad == {m \in Nat : ~\E f : Flat(f, m)}
<1> SUFFICES ASSUME Bad # {} PROVE FALSE
  OBVIOUS
<1>1. PICK m \in Bad : \A l \in Bad : m <= l
  <2>1. Bad \in SUBSET Nat
    OBVIOUS
  <2> HIDE DEF Bad
  <2> QED BY <2>1, LeastNumber
<1>2. m # 0
  <2>1. Flat([i \in 1..0 |-> 0], 0)
    OBVIOUS
  <2> QED BY <1>1, <2>1
<1>3. m \in Nat /\ m - 1 \in Nat /\ m - 1 \notin Bad
  <2>1. m \in Nat
    BY <1>1
  <2>2. m - 1 \in Nat /\ ~(m <= m - 1)
    BY <1>2, <2>1
  <2> HIDE DEF Bad
  <2> QED BY <1>1, <2>1, <2>2
<1>4. PICK f : Flat(f, m - 1)
  BY <1>3
<1> DEFINE next == IF m = 1 THEN parts[m] ELSE f[m - 1] \o parts[m]
           g == [i \in 1..m |-> IF i = m THEN next ELSE f[i]]
<1>5. \A i \in 1..(m - 1) : f[i] = IF i = 1 THEN parts[i] ELSE f[i - 1] \o parts[i]
  BY <1>3, <1>4
<1>6. \A i \in 1..m : g[i] = IF i = 1 THEN parts[i] ELSE g[i - 1] \o parts[i]
  <2> SUFFICES ASSUME NEW i \in 1..m PROVE g[i] = IF i = 1 THEN parts[i] ELSE g[i - 1] \o parts[i]
    OBVIOUS
  <2>1. i # 1 => i - 1 \in 1..m /\ i - 1 # m /\ g[i - 1] = f[i - 1]
    BY <1>3
  <2>2. CASE i = m
    BY <2>1, <2>2
  <2>3. CASE i # m
    <3>1. i \in 1..(m - 1)
      BY <1>3, <2>3
    <3>2. g[i] = f[i]
      BY <2>3
    <3> QED BY <1>5, <2>1, <3>1, <3>2
  <2> QED BY <2>2, <2>3
<1>7. Flat(g, m)
  <2>1. g = [i \in 1..m |-> g[i]]
    OBVIOUS
  <2> HIDE DEF g
  <2> QED BY <1>6, <2>1
<1> QED BY <1>1, <1>7

\* f gives what the first parts are together.
Joins(f, parts, n) ==
  \A i \in 1..n : f[i] = IF i = 1 THEN parts[i] ELSE f[i - 1] \o parts[i]

Flattens(f, parts) ==
  FlattenSeq(parts) = f[Len(parts)] /\ Joins(f, parts, Len(parts))

LEMMA FlattenSteps ==
  ASSUME NEW parts, Len(parts) \in Nat, Len(parts) # 0
  PROVE  \E f : Flattens(f, parts)
<1> DEFINE n == Len(parts)
           F == CHOOSE f : f = [i \in 1..n |-> IF i = 1 THEN parts[i] ELSE f[i - 1] \o parts[i]]
<1>1. FlattenSeq(parts) = F[n]
  BY DEF FlattenSeq
<1>2. F = [i \in 1..n |-> IF i = 1 THEN parts[i] ELSE F[i - 1] \o parts[i]]
  BY PrefixesFlat
<1> HIDE DEF F
<1>3. \A i \in 1..n : F[i] = IF i = 1 THEN parts[i] ELSE F[i - 1] \o parts[i]
  BY <1>2
<1> QED BY <1>1, <1>3 DEF Flattens, Joins

LEMMA FlattenType ==
  ASSUME NEW Chars, NEW parts \in Seq(Seq(Chars))
  PROVE  FlattenSeq(parts) \in Seq(Chars)
<1> DEFINE n == Len(parts)
<1>1. n \in Nat /\ \A i \in 1..n : parts[i] \in Seq(Chars)
  OBVIOUS
<1>2. CASE n = 0
  <2>1. FlattenSeq(parts) = parts
    BY <1>2 DEF FlattenSeq
  <2>2. parts = <<>>
    BY <1>2
  <2> QED BY <2>1, <2>2
<1>3. CASE n # 0
  <2>0. PICK F : Flattens(F, parts)
    BY <1>1, <1>3, FlattenSteps
  <2>1. /\ FlattenSeq(parts) = F[n]
        /\ \A i \in 1..n : F[i] = IF i = 1 THEN parts[i] ELSE F[i - 1] \o parts[i]
    BY <2>0 DEF Flattens, Joins
  <2> HIDE DEF n
  <2> DEFINE Bad == {i \in Nat : i \in 1..n /\ F[i] \notin Seq(Chars)}
  <2>2. Bad = {}
    <3> SUFFICES ASSUME Bad # {} PROVE FALSE
      OBVIOUS
    <3>1. PICK i \in Bad : \A l \in Bad : i <= l
      <4>1. Bad \in SUBSET Nat
        OBVIOUS
      <4> HIDE DEF Bad
      <4> QED BY <4>1, LeastNumber
    <3>2. i # 1
      BY <1>1, <2>1, <3>1
    <3>3. i \in 1..n /\ i - 1 \in 1..n /\ i - 1 \notin Bad
      BY <1>1, <3>1, <3>2
    <3>4. F[i - 1] \in Seq(Chars) /\ parts[i] \in Seq(Chars)
      BY <1>1, <3>3
    <3>5. F[i] = F[i - 1] \o parts[i]
      BY <2>1, <3>2, <3>3
    <3>6. F[i] \in Seq(Chars)
      <4> DEFINE a == F[i - 1]
                 b == parts[i]
      <4>1. a \in Seq(Chars) /\ b \in Seq(Chars) /\ F[i] = a \o b
        BY <3>4, <3>5
      <4> HIDE DEF a, b
      <4>2. a \o b \in Seq(Chars)
        BY <4>1
      <4> QED BY <4>1, <4>2
    <3> QED BY <3>1, <3>6
  <2>3. n \in 1..n /\ n \in Nat
    BY <1>1, <1>3
  <2> QED BY <2>1, <2>2, <2>3
<1> QED BY <1>2, <1>3

\* What a template gives is a text, whatever values there are.
LEMMA SubstitutedType ==
  ASSUME NEW q \in TitleQuestions, NEW old \in Seq(Characters), ValidTemplate(q.template)
  PROVE  Substituted(q.template, TitleContext(old, q.values)) \in Seq(Characters)
<1> DEFINE context == TitleContext(old, q.values)
           part(i) == IF IsLiteral(q.template[i]) THEN q.template[i].text
                      ELSE Truncate(context[q.template[i].placeholder], MaxValueLength)
           parts == [i \in DOMAIN q.template |-> part(i)]
<1>1. /\ IsList(q.template)
      /\ \A k \in DOMAIN q.template : q.template[k].text \in Seq(Characters)
      /\ \A p \in DOMAIN q.values : q.values[p] \in Seq(Characters)
  BY TitleQuestionAssumption
<1>2. \A p \in Placeholders : context[p] \in Seq(Characters)
  <2>1. <<>> \in Seq(Characters)
    OBVIOUS
  <2> QED BY <1>1, <2>1 DEF TitleContext
<1> HIDE DEF context
<1>3. ASSUME NEW text \in Seq(Characters) PROVE Truncate(text, MaxValueLength) \in Seq(Characters)
  <2>1. MaxValueLength \in Nat
    BY LengthsAssumption
  <2> DEFINE n == IF Len(text) < MaxValueLength THEN Len(text) ELSE MaxValueLength
  <2>2. n \in 0..Len(text)
    BY <2>1
  <2> HIDE DEF n
  <2>3. SubSeq(text, 1, n) \in Seq(Characters)
    BY <2>2
  <2> QED BY <2>3 DEF Truncate, n
<1>4. ASSUME NEW i \in DOMAIN q.template PROVE part(i) \in Seq(Characters)
  <2>1. CASE IsLiteral(q.template[i])
    BY <1>1, <2>1
  <2>2. CASE ~IsLiteral(q.template[i])
    <3>1. q.template[i].placeholder \in Placeholders
      BY <2>2 DEF ValidTemplate
    <3>2. context[q.template[i].placeholder] \in Seq(Characters)
      BY <1>2, <3>1
    <3> QED BY <1>3, <2>2, <3>2
  <2> QED BY <2>1, <2>2
<1> HIDE DEF part
<1>5. parts \in Seq(Seq(Characters))
  <2>1. Len(q.template) \in Nat /\ DOMAIN q.template = 1..Len(q.template)
    BY <1>1 DEF IsList
  <2> QED BY <1>4, <2>1
<1>6. Substituted(q.template, context) = FlattenSeq(parts)
  BY DEF Substituted, part
<1> HIDE DEF parts
<1> QED BY <1>5, <1>6, FlattenType DEF context

\* A title is the one the document had, or what the template gives for some title.
RenderedFrom(q, title) ==
  \/ title = q.title
  \/ /\ title \in Seq(Characters)
     /\ \E old \in Seq(Characters) :
          title = RenderTitle(q.template, TitleContext(old, q.values))

TitlesAreRendered ==
  question.kind = "title" =>
    /\ question.of \in TitleQuestions
    /\ (ValidTemplate(question.of.template) /\ question.of.template # <<>>) =>
         (answer # Pending => RenderedFrom(question.of, answer))

LEMMA TitlesAreRenderedInit == Init => TitlesAreRendered
  BY DEF Init, TitlesAreRendered, Ask

LEMMA NextTitleIsRendered ==
  ASSUME NEW q \in TitleQuestions, ValidTemplate(q.template), q.template # <<>>,
         NEW title, RenderedFrom(q, title)
  PROVE  RenderedFrom(q, NextTitle(q.template, q.values, title))
<1> DEFINE new == RenderTitle(q.template, TitleContext(title, q.values))
<1>1. NextTitle(q.template, q.values, title) = IF new = <<>> THEN title ELSE new
  BY DEF NextTitle, RuleTitle
<1>2. title \in Seq(Characters)
  BY TitleQuestionAssumption DEF RenderedFrom
<1>3. Substituted(q.template, TitleContext(title, q.values)) \in Seq(Characters)
  BY <1>2, SubstitutedType
<1>4. new \in Seq(Characters)
  BY <1>3, CleanedTitle DEF RenderTitle
<1>5. RenderedFrom(q, new)
  BY <1>2, <1>4 DEF RenderedFrom
<1> HIDE DEF new
<1> QED BY <1>1, <1>5

LEMMA TitlesAreRenderedNext == TitlesAreRendered /\ [Next]_vars => TitlesAreRendered'
<1> SUFFICES ASSUME TitlesAreRendered, [Next]_vars PROVE TitlesAreRendered'
  OBVIOUS
<1>1. CASE Correspond
  BY <1>1 DEF Correspond, Unanswered, TitlesAreRendered
<1>2. CASE ExtractField
  BY <1>2 DEF ExtractField, Unanswered, TitlesAreRendered
<1>3. CASE Read
  BY <1>3 DEF Read, Unanswered, TitlesAreRendered
<1>4. CASE WriteTitle
  <2> SUFFICES ASSUME ValidTemplate(question.of.template), question.of.template # <<>>
               PROVE  RenderedFrom(question.of, answer')
    BY <1>4 DEF WriteTitle, TitlesAreRendered
  <2>1. question.of \in TitleQuestions
    BY <1>4 DEF WriteTitle, TitlesAreRendered
  <2>2. RenderedFrom(question.of, TitleNow)
    BY <1>4 DEF WriteTitle, TitlesAreRendered, TitleNow, RenderedFrom
  <2>3. answer' = NextTitle(question.of.template, question.of.values, TitleNow)
    BY <1>4 DEF WriteTitle
  <2> QED BY <2>1, <2>2, <2>3, NextTitleIsRendered
<1>5. CASE UNCHANGED vars
  BY <1>5 DEF vars, TitlesAreRendered
<1> QED
  BY <1>1, <1>2, <1>3, <1>4, <1>5 DEF Next

\* Whatever the template, the values and the number of runs are, a title from the
\* template fits and has no separators at its ends or side by side (render_title).
THEOREM TitleIsCleanAlways == Spec => []TitleIsClean
<1>1. TitlesAreRendered => TitleIsClean
  <2> SUFFICES ASSUME TitlesAreRendered, Answered("title"),
                      ValidTemplate(question.of.template), question.of.template # <<>>,
                      answer # question.of.title
               PROVE  /\ Len(answer) <= MaxTitleLength
                      /\ answer = StripEdges(answer)
                      /\ Spaced(answer)
    BY DEF TitleIsClean
  <2> DEFINE q == question.of
  <2>1. q \in TitleQuestions /\ RenderedFrom(q, answer)
    BY DEF TitlesAreRendered, Answered
  <2>2. PICK old \in Seq(Characters) :
          answer = RenderTitle(q.template, TitleContext(old, q.values))
    BY <2>1 DEF RenderedFrom
  <2>3. Substituted(q.template, TitleContext(old, q.values)) \in Seq(Characters)
    BY <2>1, SubstitutedType
  <2> QED BY <2>2, <2>3, CleanedTitle DEF RenderTitle
<1> QED
  BY <1>1, TitlesAreRenderedInit, TitlesAreRenderedNext, PTL DEF Spec

-----------------------------------------------------------------------------
(* Amounts and what was meant by them. *)

\* The numbers of the prefixes of some digits.
Reads(f, digits, n) ==
  \A k \in 0..n : f[k] = IF k = 0 THEN 0 ELSE 10 * f[k - 1] + digits[k]

LEMMA NumberOfPrefix ==
  ASSUME NEW digits, Len(digits) \in Nat
  PROVE  \E f : Number(digits) = f[Len(digits)] /\ Reads(f, digits, Len(digits))
<1> DEFINE n == Len(digits)
           F == CHOOSE f : f = [k \in 0..n |-> IF k = 0 THEN 0 ELSE 10 * f[k - 1] + digits[k]]
<1>1. Number(digits) = F[n]
  BY DEF Number
<1>2. F = [k \in 0..n |-> IF k = 0 THEN 0 ELSE 10 * F[k - 1] + digits[k]]
  BY PrefixesRead
<1> HIDE DEF F
<1>3. \A k \in 0..n : F[k] = IF k = 0 THEN 0 ELSE 10 * F[k - 1] + digits[k]
  BY <1>2
<1> QED BY <1>1, <1>3 DEF Reads

\* Numbers of prefixes depend on the digits only.
LEMMA ReadsAgree ==
  ASSUME NEW n \in Nat, NEW f, NEW g, NEW digits, NEW others,
         Reads(f, digits, n), Reads(g, others, n),
         \A k \in 1..n : digits[k] = others[k]
  PROVE  f[n] = g[n]
<1> DEFINE Bad == {k \in Nat : k <= n /\ f[k] # g[k]}
<1>1. Bad = {}
  <2> SUFFICES ASSUME Bad # {} PROVE FALSE
    OBVIOUS
  <2>1. PICK k \in Bad : \A l \in Bad : k <= l
    <3>1. Bad \in SUBSET Nat
      OBVIOUS
    <3> HIDE DEF Bad
    <3> QED BY <3>1, LeastNumber
  <2>2. k \in Nat /\ k <= n /\ f[k] # g[k]
    BY <2>1
  <2>3. k # 0
    BY <2>2 DEF Reads
  <2>4. k - 1 \in Nat /\ k - 1 <= n /\ ~(k <= k - 1) /\ k \in 0..n /\ k \in 1..n
    BY <2>2, <2>3
  <2>5. k - 1 \notin Bad
    <3> HIDE DEF Bad
    <3> QED BY <2>1, <2>4
  <2>6. f[k - 1] = g[k - 1]
    BY <2>4, <2>5
  <2>7. f[k] = 10 * f[k - 1] + digits[k]
    BY <2>3, <2>4 DEF Reads
  <2>8. g[k] = 10 * g[k - 1] + others[k]
    BY <2>3, <2>4 DEF Reads
  <2> QED BY <2>2, <2>4, <2>6, <2>7, <2>8
<1> QED BY <1>1

\* The last digit counts once, those before it ten times.
LEMMA LastDigit ==
  ASSUME NEW digits \in Seq(0..9), NEW n \in Nat, Len(digits) = n + 1
  PROVE  Number(digits) = 10 * Number(SubSeq(digits, 1, n)) + digits[n + 1]
<1> DEFINE front == SubSeq(digits, 1, n)
<1>1. front \in Seq(0..9) /\ Len(front) = n /\ \A k \in 1..n : front[k] = digits[k]
  OBVIOUS
<1> HIDE DEF front
<1>2. PICK f : Number(digits) = f[n + 1] /\ Reads(f, digits, n + 1)
  BY NumberOfPrefix
<1>3. PICK g : Number(front) = g[n] /\ Reads(g, front, n)
  BY <1>1, NumberOfPrefix
<1>4. Reads(f, digits, n)
  BY <1>2 DEF Reads
<1>5. f[n] = g[n]
  BY <1>1, <1>3, <1>4, ReadsAgree
<1>6. f[n + 1] = 10 * f[n] + digits[n + 1]
  BY <1>2 DEF Reads
<1> QED BY <1>2, <1>3, <1>5, <1>6 DEF front

LEMMA LastTwoDigits ==
  ASSUME NEW digits \in Seq(0..9), NEW n \in Nat, Len(digits) = n + 2
  PROVE  Number(digits) =
           100 * Number(SubSeq(digits, 1, n)) + 10 * digits[n + 1] + digits[n + 2]
<1> DEFINE front == SubSeq(digits, 1, n + 1)
<1>1. /\ front \in Seq(0..9) /\ Len(front) = n + 1
      /\ front[n + 1] = digits[n + 1] /\ SubSeq(front, 1, n) = SubSeq(digits, 1, n)
  OBVIOUS
<1>2. Number(digits) = 10 * Number(front) + digits[n + 2]
  <2>1. n + 1 \in Nat /\ Len(digits) = (n + 1) + 1 /\ (n + 1) + 1 = n + 2
    OBVIOUS
  <2> HIDE DEF front
  <2> QED BY <2>1, LastDigit DEF front
<1> HIDE DEF front
<1>3. Number(front) = 10 * Number(SubSeq(digits, 1, n)) + digits[n + 1]
  BY <1>1, LastDigit
<1>4. /\ Number(SubSeq(digits, 1, n)) \in Nat
      /\ digits[n + 1] \in Nat /\ digits[n + 2] \in Nat
  <2>1. SubSeq(digits, 1, n) \in Seq(0..9)
    OBVIOUS
  <2>2. digits[n + 1] \in 0..9 /\ digits[n + 2] \in 0..9
    OBVIOUS
  <2>3. Number(SubSeq(digits, 1, n)) \in Nat
    BY <2>1, NumberType
  <2>4. digits[n + 1] \in Nat /\ digits[n + 2] \in Nat
    BY <2>2
  <2> QED BY <2>3, <2>4
<1> QED BY <1>2, <1>3, <1>4

\* Two digits of cents, or none, are not rounded.
LEMMA CentsOfTwo ==
  ASSUME NEW whole, NEW a \in 0..9, NEW b \in 0..9, NEW fraction, fraction = <<a, b>>
  PROVE  Cents(whole, fraction) = 100 * Number(whole) + 10 * a + b + 0
<1>1. Len(fraction) = 2 /\ fraction[1] = a /\ fraction[2] = b
  OBVIOUS
<1> QED BY <1>1 DEF Cents

LEMMA CentsOfNone ==
  ASSUME NEW whole
  PROVE  Cents(whole, <<>>) = 100 * Number(whole) + 10 * 0 + 0 + 0
<1>1. Len(<<>>) = 0
  OBVIOUS
<1> QED BY <1>1 DEF Cents

\* The facts about an amount that is written that its reading goes by.
LEMMA MarksType ==
  ASSUME NEW w, IsWritten(w)
  PROVE  /\ w.digits \in Seq(0..9) /\ Len(w.digits) \in Nat
         /\ Len(w.marks) \in Nat /\ DOMAIN w.marks = 1..Len(w.marks)
         /\ \A i \in 1..Len(w.marks) : /\ w.marks[i].mark \in {"comma", "point"}
                                       /\ w.marks[i].at \in 0..Len(w.digits)
<1> DEFINE Mark == [mark : {"comma", "point"}, at : 0..Len(w.digits)]
<1>1. w.digits \in Seq(0..9)
  BY DEF IsWritten
<1>2. w.marks \in Seq(Mark)
  BY DEF IsWritten
<1>3. \A m \in Mark : m.mark \in {"comma", "point"} /\ m.at \in 0..Len(w.digits)
  OBVIOUS
<1> HIDE DEF Mark
<1>4. /\ Len(w.marks) \in Nat /\ DOMAIN w.marks = 1..Len(w.marks)
      /\ \A i \in 1..Len(w.marks) : w.marks[i] \in Mark
  BY <1>2
<1>5. Len(w.digits) \in Nat
  BY <1>1
<1> QED BY <1>1, <1>3, <1>4, <1>5

\* The groups of three of ThousandsOnly, mark by mark.
LEMMA ThousandsByMark ==
  ASSUME NEW w, IsWritten(w), NEW n, n = Len(w.marks), n # 0
  PROVE  ThousandsOnly(w) <=>
           /\ MarkKinds(w) = {"point"}
           /\ w.marks[1].at \in 1..3
           /\ \A i \in 1..n :
                (IF i = n THEN Len(w.digits) ELSE w.marks[i + 1].at) = w.marks[i].at + 3
<1> DEFINE ats == [i \in DOMAIN w.marks |-> w.marks[i].at]
           at == ats \o <<Len(w.digits)>>
<1>0. n \in Nat /\ DOMAIN w.marks = 1..n /\ Len(w.digits) \in Nat
  BY MarksType
<1>1. n \in Nat /\ DOMAIN w.marks = 1..n /\ \A i \in 1..n : w.marks[i].at \in Nat
  <2> SUFFICES ASSUME NEW i \in 1..n PROVE w.marks[i].at \in Nat
    BY <1>0
  <2>1. w.marks[i].at \in 0..Len(w.digits)
    BY MarksType
  <2> QED BY <1>0, <2>1
<1>2. ats \in Seq(Nat) /\ Len(ats) = n /\ Len(w.digits) \in Nat
  <2>1. ats = [i \in 1..n |-> w.marks[i].at]
    BY <1>1
  <2> QED BY <1>0, <1>1, <2>1
<1>3. \A i \in 1..n : ats[i] = w.marks[i].at
  BY <1>1
<1>4. ThousandsOnly(w) <=>
        /\ MarkKinds(w) = {"point"}
        /\ at[1] \in 1..3
        /\ \A i \in DOMAIN w.marks : at[i + 1] = at[i] + 3
  BY DEF ThousandsOnly
<1> HIDE DEF ats
<1>5. \A i \in 1..(n + 1) : at[i] = IF i = n + 1 THEN Len(w.digits) ELSE ats[i]
  BY <1>1, <1>2
<1> HIDE DEF at
<1>6. at[1] = w.marks[1].at
  BY <1>1, <1>3, <1>5
<1>7. \A i \in 1..n : /\ at[i] = w.marks[i].at
                      /\ at[i + 1] = IF i = n THEN Len(w.digits) ELSE w.marks[i + 1].at
  <2> SUFFICES ASSUME NEW i \in 1..n
               PROVE  /\ at[i] = w.marks[i].at
                      /\ at[i + 1] = IF i = n THEN Len(w.digits) ELSE w.marks[i + 1].at
    OBVIOUS
  <2>1. at[i] = w.marks[i].at
    BY <1>1, <1>3, <1>5
  <2>2. CASE i = n
    BY <1>1, <1>5, <2>1, <2>2
  <2>3. CASE i # n
    <3>1. i + 1 \in 1..n /\ i + 1 # n + 1 /\ i + 1 \in 1..(n + 1)
      BY <1>1, <2>3
    <3>2. at[i + 1] = ats[i + 1] /\ ats[i + 1] = w.marks[i + 1].at
      BY <1>3, <1>5, <3>1
    <3> QED BY <2>1, <2>3, <3>2
  <2> QED BY <2>2, <2>3
<1> DEFINE next(i) == IF i = n THEN Len(w.digits) ELSE w.marks[i + 1].at
<1>8. (\A i \in DOMAIN w.marks : at[i + 1] = at[i] + 3)
        <=> \A i \in 1..n : next(i) = w.marks[i].at + 3
  <2>1. \A i \in 1..n : at[i] = w.marks[i].at /\ at[i + 1] = next(i)
    BY <1>7
  <2> HIDE DEF next
  <2> QED BY <1>1, <2>1
<1> QED BY <1>4, <1>6, <1>8

\* An amount with cents is split before its last two digits.
LEMMA CentsSplitOff ==
  ASSUME NEW w, IsWritten(w), HasCents(w)
  PROVE  DecimalMarks(w) = {Len(w.marks)}
<1> DEFINE n == Len(w.marks)
           last == w.marks[n].mark
<1>1. /\ n \in Nat /\ n > 0 /\ DOMAIN w.marks = 1..n /\ Len(w.digits) \in Nat
      /\ \A i \in 1..n : w.marks[i].mark \in {"comma", "point"}
  BY MarksType DEF HasCents
<1>2. w.marks[n].at = Len(w.digits) - 2 /\ \A i \in 1..(n - 1) : w.marks[i].mark # last
  BY DEF HasCents
<1>3. Last(w.marks).mark = last
  BY DEF Last
<1>4. MarkKinds(w) = {w.marks[i].mark : i \in 1..n}
  BY <1>1 DEF MarkKinds
<1>5. DecimalMarks(w) = {i \in 1..n : w.marks[i].mark = DecimalMark(w)}
  BY <1>1 DEF DecimalMarks
<1> HIDE DEF last, n
<1>6. n \in 1..n /\ w.marks[n].mark = last
  BY <1>1 DEF last
<1>7. \A i \in 1..n : w.marks[i].mark = last => i = n
  <2> SUFFICES ASSUME NEW i \in 1..n, i # n PROVE w.marks[i].mark # last
    OBVIOUS
  <2>1. i \in 1..(n - 1)
    BY <1>1
  <2> QED BY <1>2, <2>1
<1>8. last \in MarkKinds(w) /\ MarkKinds(w) \subseteq {"comma", "point"}
  BY <1>1, <1>4, <1>6
<1>9. {"comma", "point"} # {"comma"} /\ {"comma", "point"} # {"point"} /\ {"comma"} # {"point"}
  OBVIOUS
<1>10. ThousandsOnly(w) => MarkKinds(w) = {"point"}
  BY DEF ThousandsOnly
<1>11. DecimalMark(w) = last
  <2>1. CASE MarkKinds(w) = {"comma", "point"}
    BY <1>3, <1>9, <1>10, <2>1 DEF DecimalMark
  <2>2. CASE MarkKinds(w) = {"comma"}
    <3>1. last = "comma"
      BY <1>8, <2>2
    <3> QED BY <1>9, <1>10, <2>2, <3>1 DEF DecimalMark
  <2>3. CASE MarkKinds(w) = {"point"}
    <3>1. last = "point"
      BY <1>8, <2>3
    <3>2. ~ThousandsOnly(w)
      <4> SUFFICES ASSUME ThousandsOnly(w) PROVE FALSE
        OBVIOUS
      <4>1. n # 0 /\ n = Len(w.marks)
        BY <1>1 DEF n
      <4>2. \A i \in 1..n :
              (IF i = n THEN Len(w.digits) ELSE w.marks[i + 1].at) = w.marks[i].at + 3
        BY <4>1, ThousandsByMark
      <4>3. Len(w.digits) = w.marks[n].at + 3
        BY <1>6, <4>2
      <4>4. Len(w.digits) = Len(w.digits) + 1
        BY <1>1, <1>2, <4>3
      <4> QED BY <1>1, <4>4
    <3> QED BY <1>9, <2>3, <3>1, <3>2 DEF DecimalMark
  <2>4. MarkKinds(w) = {"comma", "point"} \/ MarkKinds(w) = {"comma"} \/ MarkKinds(w) = {"point"}
    <3> DEFINE K == MarkKinds(w)
    <3>1. last \in K /\ last \in {"comma", "point"} /\ K \subseteq {"comma", "point"}
      BY <1>8
    <3> HIDE DEF K
    <3>2. K = {"comma", "point"} \/ K = {"comma"} \/ K = {"point"}
      BY <3>1
    <3> QED BY <3>2 DEF K
  <2> QED BY <2>1, <2>2, <2>3, <2>4
<1> QED BY <1>5, <1>6, <1>7, <1>11 DEF n

LEMMA NothingSplitOff ==
  ASSUME NEW w, IsWritten(w), InFull(w)
  PROVE  DecimalMarks(w) = {}
<1> DEFINE n == Len(w.marks)
<1>1. /\ n \in Nat /\ DOMAIN w.marks = 1..n /\ Len(w.digits) \in Nat
  BY MarksType
<1>2. \A i \in 1..n : /\ w.marks[i].mark = "point"
                      /\ w.marks[i].at = Len(w.digits) - 3 * (n + 1 - i)
                      /\ w.marks[i].at \in 1..(3 * i)
  BY DEF InFull
<1>3. CASE n = 0
  BY <1>1, <1>3 DEF DecimalMarks
<1>4. CASE n # 0
  <2>1. 1 \in 1..n
    BY <1>1, <1>4
  <2>2. MarkKinds(w) = {"point"}
    BY <1>1, <1>2, <2>1 DEF MarkKinds
  <2> HIDE DEF n
  <2>3. w.marks[1].at \in 1..3
    BY <1>2, <2>1
  <2>4. ASSUME NEW i \in 1..n
        PROVE  (IF i = n THEN Len(w.digits) ELSE w.marks[i + 1].at) = w.marks[i].at + 3
    <3>1. w.marks[i].at = Len(w.digits) - 3 * (n + 1 - i)
      BY <1>2
    <3>2. CASE i = n
      BY <1>1, <3>1, <3>2
    <3>3. CASE i # n
      <4>1. i + 1 \in 1..n
        BY <1>1, <3>3
      <4>2. w.marks[i + 1].at = Len(w.digits) - 3 * (n + 1 - (i + 1))
        BY <1>2, <4>1
      <4> DEFINE here == w.marks[i].at
                 next == w.marks[i + 1].at
      <4>3. /\ here = Len(w.digits) - 3 * (n + 1 - i)
            /\ next = Len(w.digits) - 3 * (n + 1 - (i + 1))
        BY <3>1, <4>2
      <4> HIDE DEF here, next
      <4>4. next = here + 3
        BY <1>1, <4>3, SMTT(20)
      <4> QED BY <3>3, <4>4, Zenon DEF here, next
    <3> QED BY <3>2, <3>3
  <2>5. ThousandsOnly(w)
    BY <1>4, <2>2, <2>3, <2>4, ThousandsByMark DEF n
  <2>6. DecimalMark(w) = "none"
    BY <2>2, <2>5 DEF DecimalMark
  <2> QED BY <1>1, <1>2, <2>6 DEF DecimalMarks
<1> QED BY <1>3, <1>4

\* The cents an amount stands for.
Figure(w) == IF HasCents(w) THEN Number(w.digits) ELSE 100 * Number(w.digits)

\* What is read is what the digits stand for, with the sign the validator sees.
LEMMA ReadIsFigure ==
  ASSUME NEW w, IsWritten(w), w.digits # <<>>, HasCents(w) \/ InFull(w)
  PROVE  /\ Figure(w) \in Nat
         /\ ReadAmount(w) = IF Misplaced(w.sign) \/ Figure(w) >= AmountLimit
                            THEN NotAccepted
                            ELSE Accepted(IF Negative(w.sign) THEN -Figure(w) ELSE Figure(w))
<1> DEFINE digits == w.digits
           n == Len(digits)
           marks == DecimalMarks(w)
           split == IF marks = {} THEN Len(digits) ELSE w.marks[CHOOSE i \in marks : TRUE].at
           cents == Cents(SubSeq(digits, 1, split), SubSeq(digits, split + 1, Len(digits)))
           meant == IF HasCents(w) THEN Number(digits) ELSE 100 * Number(digits)
<1>1. digits \in Seq(0..9) /\ n \in Nat
  BY MarksType
<1>2. cents = meant /\ ~(Cardinality(marks) > 1)
  <2>1. CASE HasCents(w)
    <3>1. marks = {Len(w.marks)}
      BY <2>1, CentsSplitOff
    <3>2. split = n - 2 /\ n - 2 \in Nat
      <4>1. w.marks[Len(w.marks)].at = n - 2 /\ n > 2
        BY <2>1 DEF HasCents
      <4> HIDE DEF n, marks
      <4>2. split = w.marks[Len(w.marks)].at
        BY <3>1 DEF marks
      <4> QED BY <1>1, <4>1, <4>2
    <3>3. Cardinality(marks) = 1
      BY <3>1, FS_Singleton
    <3> DEFINE whole == SubSeq(digits, 1, n - 2)
               fraction == SubSeq(digits, n - 1, n)
    <3>4. digits[n - 1] \in 0..9 /\ digits[n] \in 0..9
      BY <1>1, <3>2
    <3>4a. fraction = <<digits[n - 1], digits[n]>>
      <4>1. n - 1 \in 1..n /\ n \in 1..n
        BY <1>1, <3>2
      <4>2. fraction \in Seq(0..9) /\ Len(fraction) = 2 /\ fraction[1] = digits[n - 1] /\ fraction[2] = digits[n]
        BY <1>1, <4>1
      <4> HIDE DEF fraction, digits
      <4> QED BY <4>2
    <3>5. cents = Cents(whole, fraction)
      <4>1. n - 2 + 1 = n - 1
        BY <1>1
      <4> HIDE DEF split, n
      <4> QED BY <3>2, <4>1 DEF n
    <3> HIDE DEF whole, fraction
    <3>6. Cents(whole, fraction) = 100 * Number(whole) + 10 * digits[n - 1] + digits[n] + 0
      <4> DEFINE x == digits[n - 1]
                 y == digits[n]
      <4>1. x \in 0..9 /\ y \in 0..9 /\ fraction = <<x, y>>
        BY <3>4, <3>4a
      <4> HIDE DEF x, y
      <4>2. Cents(whole, fraction) = 100 * Number(whole) + 10 * x + y + 0
        BY <4>1, CentsOfTwo
      <4> QED BY <4>2 DEF x, y
    <3>7. Number(digits) = 100 * Number(whole) + 10 * digits[n - 1] + digits[n]
      <4> DEFINE k == n - 2
      <4>1. k \in Nat /\ n = k + 2 /\ k + 1 = n - 1
        BY <1>1, <3>2
      <4> HIDE DEF k, digits
      <4>2. Number(digits) = 100 * Number(SubSeq(digits, 1, k)) + 10 * digits[k + 1] + digits[k + 2]
        BY <1>1, <4>1, LastTwoDigits
      <4> QED BY <4>1, <4>2 DEF whole, k
    <3>8. Number(whole) \in Nat
      <4>1. whole \in Seq(0..9)
        BY <1>1, <3>2 DEF whole
      <4> QED BY <4>1, NumberType
    <3>9. Cents(whole, fraction) = Number(digits)
      <4> DEFINE x == digits[n - 1]
                 y == digits[n]
                 z == Number(whole)
      <4>1. /\ x \in 0..9 /\ y \in 0..9 /\ z \in Nat
            /\ Cents(whole, fraction) = 100 * z + 10 * x + y + 0
            /\ Number(digits) = 100 * z + 10 * x + y
        BY <3>4, <3>6, <3>7, <3>8
      <4> HIDE DEF x, y, z
      <4> QED BY <4>1
    <3> HIDE DEF cents
    <3> QED BY <2>1, <3>3, <3>5, <3>9
  <2>2. CASE ~HasCents(w)
    <3>1. marks = {}
      BY <2>2, NothingSplitOff
    <3>2. split = n /\ Cardinality(marks) = 0
      BY <3>1, FS_EmptySet
    <3>3. SubSeq(digits, 1, n) = digits /\ SubSeq(digits, n + 1, n) = <<>>
      BY <1>1
    <3>4. cents = Cents(digits, <<>>)
      <4> HIDE DEF split
      <4> QED BY <3>2, <3>3
    <3>5. Number(digits) \in Nat
      BY <1>1, NumberType
    <3>6. Cents(digits, <<>>) = 100 * Number(digits)
      BY <3>5, CentsOfNone
    <3> HIDE DEF cents
    <3> QED BY <2>2, <3>2, <3>4, <3>6
  <2> QED BY <2>1, <2>2
<1>3. ReadAmount(w) = IF Misplaced(w.sign) \/ cents >= AmountLimit
                      THEN NotAccepted
                      ELSE Accepted(IF Negative(w.sign) THEN -cents ELSE cents)
  <2>1. ReadAmount(w) = IF \/ Misplaced(w.sign)
                           \/ Cardinality(marks) > 1
                           \/ digits = <<>>
                           \/ cents >= AmountLimit
                        THEN NotAccepted
                        ELSE Accepted(IF Negative(w.sign) THEN -cents ELSE cents)
    BY DEF ReadAmount, ReadSplit
  <2> HIDE DEF cents, marks
  <2> QED BY <1>1, <1>2, <2>1
<1>4. meant = Figure(w)
  BY DEF Figure
<1>5. meant \in Nat
  <2>1. Number(digits) \in Nat
    BY <1>1, NumberType
  <2> QED BY <2>1
<1> HIDE DEF cents, meant
<1> QED BY <1>2, <1>3, <1>4, <1>5

\* A sign that is not refused is seen, but for brackets inside of a currency.
LEMMA SignIsSeen ==
  ASSUME NEW sign \in Signs, ~Misplaced(sign), ~BracketsOverlooked(sign)
  PROVE  Negative(sign) <=> ~Unsigned(sign)
<1>1. sign = Sign(sign.before, sign.within, sign.behind, sign.brackets)
  BY DEF Signs, Sign
<1>2. /\ sign.before \in BOOLEAN /\ sign.within \in BOOLEAN /\ sign.behind = FALSE
      /\ sign.brackets \in {"none", "around", "inside"}
  BY DEF Signs, Misplaced
<1>3. CASE Negative(sign)
  BY <1>3 DEF Negative, Unsigned, Sign
<1>4. CASE ~Negative(sign)
  <2>1. sign.before = FALSE /\ sign.within = FALSE /\ sign.brackets = "none"
    BY <1>2, <1>4 DEF Negative, BracketsOverlooked
  <2> QED BY <1>1, <1>2, <1>4, <2>1 DEF Unsigned
<1> QED BY <1>3, <1>4

\* An answer about an amount is what the validator reads.
AnswerIsTheReading ==
  question.kind = "amount" =>
    /\ question.of \in Amounts
    /\ answer # Pending => answer = ReadAmount(question.of.written)

LEMMA AnswerIsTheReadingInit == Init => AnswerIsTheReading
  BY DEF Init, AnswerIsTheReading, Ask

LEMMA AnswerIsTheReadingNext == AnswerIsTheReading /\ [Next]_vars => AnswerIsTheReading'
<1> SUFFICES ASSUME AnswerIsTheReading, [Next]_vars PROVE AnswerIsTheReading'
  OBVIOUS
<1>1. CASE Correspond
  BY <1>1 DEF Correspond, Unanswered, AnswerIsTheReading
<1>2. CASE ExtractField
  BY <1>2 DEF ExtractField, Unanswered, AnswerIsTheReading
<1>3. CASE Read
  BY <1>3 DEF Read, Unanswered, AnswerIsTheReading
<1>4. CASE WriteTitle
  BY <1>4 DEF WriteTitle, AnswerIsTheReading
<1>5. CASE UNCHANGED vars
  BY <1>5 DEF vars, AnswerIsTheReading
<1> QED
  BY <1>1, <1>2, <1>3, <1>4, <1>5 DEF Next

\* However many digits and groups an amount has and however many digits Decimal
\* keeps, an amount is never read as another one than was meant, and with one minus in
\* front, with brackets around it or with neither it is read (the validator
\* monetary_amount).  Brackets inside of a currency are not seen.
THEOREM AmountsReadRightAlways == Spec => []AmountsReadRight
<1>1. AnswerIsTheReading => AmountsReadRight
  <2> DEFINE w == question.of.written
             sign == w.sign
  <2> SUFFICES ASSUME AnswerIsTheReading, Answered("amount"),
                      sign.behind \/ ~BracketsOverlooked(sign)
               PROVE  /\ answer.accepted => answer.value = question.of.cents
                      /\ (/\ ~sign.behind /\ ~(sign.before /\ sign.within)
                          /\ question.of.cents \in (-AmountLimit + 1)..(AmountLimit - 1))
                         => answer.accepted
    BY DEF AmountsReadRight
  <2>1. question.of \in Amounts /\ answer = ReadAmount(w)
    BY DEF AnswerIsTheReading, Answered
  <2>2. /\ IsWritten(w) /\ w.digits # <<>>
        /\ HasCents(w) \/ InFull(w)
        /\ question.of.cents = Meant(w)
    BY <2>1, AmountAssumption
  <2>3. sign \in Signs
    BY <2>2 DEF IsWritten
  <2>4. question.of.cents = IF Unsigned(sign) THEN Figure(w) ELSE -Figure(w)
    BY <2>2 DEF Meant, Figure
  <2>5. /\ Figure(w) \in Nat
        /\ answer = IF Misplaced(sign) \/ Figure(w) >= AmountLimit
                    THEN NotAccepted
                    ELSE Accepted(IF Negative(sign) THEN -Figure(w) ELSE Figure(w))
    BY <2>1, <2>2, ReadIsFigure
  <2> HIDE DEF w, sign
  <2>6. ASSUME answer.accepted PROVE answer.value = question.of.cents
    <3>1. /\ ~Misplaced(sign)
          /\ answer = Accepted(IF Negative(sign) THEN -Figure(w) ELSE Figure(w))
      BY <2>5, <2>6 DEF NotAccepted
    <3>2. Negative(sign) <=> ~Unsigned(sign)
      <4>1. ~BracketsOverlooked(sign)
        BY <2>3, <3>1 DEF Misplaced
      <4> QED BY <2>3, <3>1, <4>1, SignIsSeen
    <3> QED BY <2>4, <3>1, <3>2 DEF Accepted
  <2>7. ASSUME ~sign.behind /\ ~(sign.before /\ sign.within),
               question.of.cents \in (-AmountLimit + 1)..(AmountLimit - 1)
        PROVE  answer.accepted
    <3>1. ~Misplaced(sign)
      BY <2>7 DEF Misplaced
    <3>2. Figure(w) < AmountLimit
      BY <2>4, <2>5, <2>7, AmountLimitAssumption
    <3> QED BY <2>5, <3>1, <3>2, AmountLimitAssumption DEF Accepted
  <2> QED BY <2>6, <2>7
<1> QED
  BY <1>1, AnswerIsTheReadingInit, AnswerIsTheReadingNext, PTL DEF Spec

-----------------------------------------------------------------------------
(* The names of correspondents in the lines of a text. *)

\* The flattened prefixes of a sequence depend on its elements only.
LEMMA FlattensAgree ==
  ASSUME NEW n \in Nat, n # 0, NEW f, NEW g, NEW parts, NEW others,
         Joins(f, parts, n), Joins(g, others, n),
         \A i \in 1..n : parts[i] = others[i]
  PROVE  f[n] = g[n]
<1> DEFINE Bad == {i \in Nat : i \in 1..n /\ f[i] # g[i]}
<1>1. Bad = {}
  <2> SUFFICES ASSUME Bad # {} PROVE FALSE
    OBVIOUS
  <2>1. PICK i \in Bad : \A l \in Bad : i <= l
    <3>1. Bad \in SUBSET Nat
      OBVIOUS
    <3> HIDE DEF Bad
    <3> QED BY <3>1, LeastNumber
  <2>2. i \in Nat /\ i \in 1..n /\ f[i] # g[i]
    BY <2>1
  <2>3. i # 1
    BY <2>2 DEF Joins
  <2>4. i - 1 \in Nat /\ i - 1 \in 1..n /\ ~(i <= i - 1)
    BY <2>2, <2>3
  <2>5. i - 1 \notin Bad
    <3> HIDE DEF Bad
    <3> QED BY <2>1, <2>4
  <2>6. f[i - 1] = g[i - 1]
    BY <2>4, <2>5
  <2>7. f[i] = f[i - 1] \o parts[i] /\ g[i] = g[i - 1] \o others[i] /\ parts[i] = others[i]
    BY <2>2, <2>3 DEF Joins
  <2> QED BY <2>2, <2>6, <2>7
<1> QED BY <1>1

\* The last part comes last.
LEMMA FlattenFront ==
  ASSUME NEW Chars, NEW parts \in Seq(Seq(Chars)), NEW n \in Nat, Len(parts) = n + 1
  PROVE  FlattenSeq(parts) = FlattenSeq(SubSeq(parts, 1, n)) \o parts[n + 1]
<1> DEFINE front == SubSeq(parts, 1, n)
<1>1. front \in Seq(Seq(Chars)) /\ Len(front) = n /\ \A i \in 1..n : front[i] = parts[i]
  OBVIOUS
<1>2. n = 0 => front = <<>>
  OBVIOUS
<1>3. parts[n + 1] \in Seq(Chars)
  OBVIOUS
<1> HIDE DEF front
<1>4. PICK f : Flattens(f, parts)
  BY FlattenSteps
<1>5. FlattenSeq(parts) = f[n + 1] /\ Joins(f, parts, n + 1)
  BY <1>4 DEF Flattens, Joins
<1>6. CASE n = 0
  <2>1. FlattenSeq(front) = <<>>
    BY <1>2, <1>6 DEF FlattenSeq
  <2>2. FlattenSeq(parts) = parts[n + 1]
    BY <1>5, <1>6 DEF Joins
  <2>3. <<>> \o parts[n + 1] = parts[n + 1]
    <3> DEFINE x == parts[n + 1]
    <3>1. x \in Seq(Chars)
      BY <1>3
    <3> HIDE DEF x
    <3>2. <<>> \o x = x
      BY <3>1
    <3> QED BY <3>2 DEF x
  <2> QED BY <2>1, <2>2, <2>3 DEF front
<1>7. CASE n # 0
  <2>1. PICK g : Flattens(g, front)
    BY <1>1, <1>7, FlattenSteps
  <2>2. FlattenSeq(front) = g[n] /\ Joins(g, front, n)
    BY <1>1, <2>1 DEF Flattens, Joins
  <2>3. Joins(f, parts, n)
    BY <1>5 DEF Joins
  <2>4. f[n] = g[n]
    BY <1>1, <1>7, <2>2, <2>3, FlattensAgree
  <2>5. f[n + 1] = f[n] \o parts[n + 1]
    <3> DEFINE last == n + 1
    <3>1. last \in 1..(n + 1) /\ last # 1 /\ last - 1 = n
      BY <1>7
    <3> HIDE DEF last
    <3>2. f[last] = f[last - 1] \o parts[last]
      BY <1>5, <3>1 DEF Joins
    <3> QED BY <3>1, <3>2 DEF last
  <2> QED BY <1>5, <2>2, <2>4, <2>5 DEF front
<1> QED BY <1>6, <1>7

\* One text after another.  Kept closed where the provers would unfold it.
Joined(a, b) == a \o b

LEMMA JoinedInTurn ==
  ASSUME NEW Chars, NEW a \in Seq(Chars), NEW b \in Seq(Chars), NEW c \in Seq(Chars)
  PROVE  Joined(Joined(a, b), c) = Joined(a, Joined(b, c))
  BY DEF Joined

\* A run of parts falls into two at any place.
LEMMA FlattenSplit ==
  ASSUME NEW Chars, NEW parts \in Seq(Seq(Chars)),
         NEW c \in Nat, NEW m \in Nat, NEW d \in Nat,
         1 <= c, c <= m + 1, m <= d, d <= Len(parts)
  PROVE  FlattenSeq(SubSeq(parts, c, d)) =
           Joined(FlattenSeq(SubSeq(parts, c, m)), FlattenSeq(SubSeq(parts, m + 1, d)))
<1> DEFINE Flat(i, j) == FlattenSeq(SubSeq(parts, i, j))
           Bad == {n \in Nat : n \in m..d /\ Flat(c, n) # Joined(Flat(c, m), Flat(m + 1, n))}
<1>0. \A i, j \in Nat : 1 <= i /\ j <= d =>
         /\ SubSeq(parts, i, j) \in Seq(Seq(Chars))
         /\ Flat(i, j) \in Seq(Chars)
  <2> SUFFICES ASSUME NEW i \in Nat, NEW j \in Nat, 1 <= i, j <= d
               PROVE  /\ SubSeq(parts, i, j) \in Seq(Seq(Chars))
                      /\ Flat(i, j) \in Seq(Chars)
    OBVIOUS
  <2>1. SubSeq(parts, i, j) \in Seq(Seq(Chars))
    OBVIOUS
  <2> QED BY <2>1, FlattenType
<1>1. \A i, j \in Nat : 1 <= i /\ i <= j /\ j <= d => Flat(i, j) = Joined(Flat(i, j - 1), parts[j])
  <2> SUFFICES ASSUME NEW i \in Nat, NEW j \in Nat, 1 <= i, i <= j, j <= d
               PROVE  Flat(i, j) = Joined(Flat(i, j - 1), parts[j])
    OBVIOUS
  <2> DEFINE s == SubSeq(parts, i, j)
             n == j - i
  <2>1. /\ s \in Seq(Seq(Chars)) /\ n \in Nat /\ Len(s) = n + 1
        /\ s[n + 1] = parts[j] /\ SubSeq(s, 1, n) = SubSeq(parts, i, j - 1)
    OBVIOUS
  <2> HIDE DEF s, n
  <2>2. FlattenSeq(s) = FlattenSeq(SubSeq(s, 1, n)) \o s[n + 1]
    BY <2>1, FlattenFront
  <2> QED BY <2>1, <2>2 DEF s, Joined
<1>2. Bad = {}
  <2> SUFFICES ASSUME Bad # {} PROVE FALSE
    OBVIOUS
  <2>1. PICK n \in Bad : \A l \in Bad : n <= l
    <3>1. Bad \in SUBSET Nat
      OBVIOUS
    <3> HIDE DEF Bad
    <3> QED BY <3>1, LeastNumber
  <2>2. n \in Nat /\ n \in m..d /\ Flat(c, n) # Joined(Flat(c, m), Flat(m + 1, n))
    BY <2>1
  <2>3. n # m
    <3>1. Flat(c, m) \in Seq(Chars)
      BY <1>0
    <3>2. SubSeq(parts, m + 1, m) = <<>>
      OBVIOUS
    <3>3. Flat(m + 1, m) = <<>>
      BY <3>2 DEF FlattenSeq
    <3> HIDE DEF Flat
    <3>4. Flat(c, m) = Joined(Flat(c, m), <<>>)
      BY <3>1 DEF Joined
    <3> QED BY <2>2, <3>3, <3>4
  <2>4. n - 1 \in Nat /\ n - 1 \in m..d /\ ~(n <= n - 1)
    BY <2>2, <2>3
  <2>5. n - 1 \notin Bad
    <3> HIDE DEF Bad
    <3> QED BY <2>1, <2>4
  <2>6. Flat(c, n - 1) = Joined(Flat(c, m), Flat(m + 1, n - 1))
    BY <2>4, <2>5
  <2>7. /\ Flat(c, n) = Joined(Flat(c, n - 1), parts[n])
        /\ Flat(m + 1, n) = Joined(Flat(m + 1, n - 1), parts[n])
    <3>1. m + 1 \in Nat /\ 1 <= m + 1 /\ m + 1 <= n /\ c <= n /\ n <= d
      BY <2>2, <2>4
    <3> HIDE DEF Flat
    <3> QED BY <1>1, <2>2, <3>1
  <2>8. /\ Flat(c, m) \in Seq(Chars) /\ Flat(m + 1, n - 1) \in Seq(Chars)
        /\ parts[n] \in Seq(Chars)
    <3>1. parts[n] \in Seq(Chars)
      <4>1. n \in 1..Len(parts)
        BY <2>2, <2>4
      <4> QED BY <4>1
    <3>2. m + 1 \in Nat /\ 1 <= m + 1 /\ n - 1 <= d /\ m <= d
      BY <2>4
    <3> HIDE DEF Flat
    <3> QED BY <1>0, <2>4, <3>1, <3>2
  <2> HIDE DEF Flat
  <2>9. Joined(Joined(Flat(c, m), Flat(m + 1, n - 1)), parts[n]) =
          Joined(Flat(c, m), Joined(Flat(m + 1, n - 1), parts[n]))
    BY <2>8, JoinedInTurn
  <2> QED BY <2>2, <2>6, <2>7, <2>9
<1>3. d \in m..d
  OBVIOUS
<1> QED BY <1>2, <1>3

Run(text, i, m) == SubSeq(text, i + 1, i + m)

LEMMA RunOf ==
  ASSUME NEW Chars, NEW text \in Seq(Chars), NEW i \in Nat, NEW m \in Nat, i + m <= Len(text)
  PROVE  /\ Run(text, i, m) \in Seq(Chars) /\ Len(Run(text, i, m)) = m
         /\ \A k \in 1..m : Run(text, i, m)[k] = text[i + k]
<1>1. SubSeq(text, i + 1, i + m) \in Seq(Chars) /\ Len(SubSeq(text, i + 1, i + m)) = m
  OBVIOUS
<1>2. \A k \in 1..m : SubSeq(text, i + 1, i + m)[k] = text[i + k]
  OBVIOUS
<1> QED BY <1>1, <1>2 DEF Run

\* Runs with the same elements are the same.
SameFrom(a, i, b, j, m) == \A k \in 1..m : a[i + k] = b[j + k]

LEMMA SameRun ==
  ASSUME NEW Chars, NEW a \in Seq(Chars), NEW b \in Seq(Chars),
         NEW i \in Nat, NEW j \in Nat, NEW m \in Nat,
         i + m <= Len(a), j + m <= Len(b),
         SameFrom(a, i, b, j, m)
  PROVE  Run(a, i, m) = Run(b, j, m)
<1> DEFINE x == Run(a, i, m)
           y == Run(b, j, m)
<1>1. x \in Seq(Chars) /\ Len(x) = m /\ \A k \in 1..m : x[k] = a[i + k]
  BY RunOf
<1>2. y \in Seq(Chars) /\ Len(y) = m /\ \A k \in 1..m : y[k] = b[j + k]
  BY RunOf
<1> HIDE DEF x, y
<1>3. x = y
  <2>1. \A k \in 1..m : x[k] = y[k]
    BY <1>1, <1>2 DEF SameFrom
  <2> QED BY <1>1, <1>2, <2>1
<1> QED BY <1>3 DEF x, y

\* What a part of a text mentions the text mentions.
LEMMA MentionsOfParts ==
  ASSUME NEW Chars, NEW a \in Seq(Chars), NEW b \in Seq(Chars), NEW phrase \in Seq(Chars),
         Mentions(a, phrase) \/ Mentions(b, phrase)
  PROVE  Mentions(Joined(a, b), phrase)
<1> DEFINE m == Len(phrase)
           ab == Joined(a, b)
<1>1. /\ m \in Nat /\ Len(a) \in Nat /\ Len(b) \in Nat
      /\ ab \in Seq(Chars) /\ Len(ab) = Len(a) + Len(b)
      /\ \A i \in 1..Len(a) : ab[i] = a[i]
      /\ \A i \in 1..Len(b) : ab[Len(a) + i] = b[i]
  BY DEF Joined
<1> HIDE DEF ab
<1>2. CASE Mentions(a, phrase)
  <2>1. phrase # <<>> /\ \E i \in 0..(Len(a) - m) : Spells(Run(a, i, m), phrase)
    BY <1>2 DEF Mentions, Run
  <2>2. PICK i \in 0..(Len(a) - m) : Spells(Run(a, i, m), phrase)
    BY <2>1
  <2> HIDE DEF m
  <2>3. Run(ab, i, m) = Run(a, i, m)
    <3>1. i \in Nat /\ i + m <= Len(a) /\ i + m <= Len(ab)
      BY <1>1
    <3>2. SameFrom(ab, i, a, i, m)
      <4> SUFFICES ASSUME NEW k \in 1..m PROVE ab[i + k] = a[i + k]
        BY DEF SameFrom
      <4>1. i + k \in 1..Len(a)
        BY <1>1, <3>1
      <4> QED BY <1>1, <4>1
    <3> QED BY <1>1, <3>1, <3>2, SameRun
  <2>4. i \in 0..(Len(ab) - m)
    BY <1>1
  <2> QED BY <2>1, <2>2, <2>3, <2>4 DEF Mentions, ab, m, Run
<1>3. CASE Mentions(b, phrase)
  <2>1. phrase # <<>> /\ \E i \in 0..(Len(b) - m) : Spells(Run(b, i, m), phrase)
    BY <1>3 DEF Mentions, Run
  <2>2. PICK i \in 0..(Len(b) - m) : Spells(Run(b, i, m), phrase)
    BY <2>1
  <2> HIDE DEF m
  <2> DEFINE j == Len(a) + i
  <2>3. Run(ab, j, m) = Run(b, i, m)
    <3>1. j \in Nat /\ i \in Nat /\ i + m <= Len(b) /\ j + m <= Len(ab)
      BY <1>1
    <3>2. SameFrom(ab, j, b, i, m)
      <4> SUFFICES ASSUME NEW k \in 1..m PROVE ab[j + k] = b[i + k]
        BY DEF SameFrom
      <4>1. i + k \in 1..Len(b) /\ j + k = Len(a) + (i + k)
        BY <1>1, <3>1
      <4> HIDE DEF j
      <4> QED BY <1>1, <4>1
    <3> HIDE DEF j
    <3> QED BY <1>1, <3>1, <3>2, SameRun
  <2>4. j \in 0..(Len(ab) - m)
    BY <1>1
  <2> HIDE DEF j
  <2> QED BY <2>1, <2>2, <2>3, <2>4 DEF Mentions, ab, m, Run
<1> QED BY <1>2, <1>3

\* A phrase that a text mentions only together with what follows touches that.
LEMMA LastPartIsTouched ==
  ASSUME NEW Chars, NEW a \in Seq(Chars), NEW b \in Seq(Chars), NEW phrase \in Seq(Chars),
         Mentions(Joined(a, b), phrase), ~Mentions(a, phrase)
  PROVE  Touches(b, phrase)
<1> DEFINE m == Len(phrase)
           ab == Joined(a, b)
<1>1. /\ m \in Nat /\ Len(a) \in Nat /\ Len(b) \in Nat
      /\ ab \in Seq(Chars) /\ Len(ab) = Len(a) + Len(b)
      /\ \A i \in 1..Len(a) : ab[i] = a[i]
      /\ \A i \in 1..Len(b) : ab[Len(a) + i] = b[i]
  BY DEF Joined
<1>2. phrase # <<>> /\ \E i \in 0..(Len(ab) - m) : Spells(Run(ab, i, m), phrase)
  BY DEF Mentions, Run
<1>3. m # 0
  BY <1>2
<1> HIDE DEF ab
<1>4. PICK i \in 0..(Len(ab) - m) : Spells(Run(ab, i, m), phrase)
  BY <1>2
<1>5. i + m > Len(a)
  <2> SUFFICES ASSUME i + m <= Len(a) PROVE FALSE
    BY <1>1
  <2>1. i \in 0..(Len(a) - m)
    BY <1>1
  <2>2. Run(ab, i, m) = Run(a, i, m)
    <3>1. i \in Nat /\ i + m <= Len(a) /\ i + m <= Len(ab)
      BY <1>1
    <3>2. SameFrom(ab, i, a, i, m)
      <4> SUFFICES ASSUME NEW k \in 1..m PROVE ab[i + k] = a[i + k]
        BY DEF SameFrom
      <4>1. i + k \in 1..Len(a)
        BY <1>1, <3>1
      <4> QED BY <1>1, <4>1
    <3> QED BY <1>1, <3>1, <3>2, SameRun
  <2> QED BY <1>2, <1>4, <2>1, <2>2 DEF Mentions, Run
<1> DEFINE run == Run(ab, i, m)
           j == i + m - Len(a)
           w == phrase[m]
<1>6. j \in 1..Len(b) /\ Len(run) = m /\ run[m] = b[j]
  <2>1. j \in 1..Len(b)
    BY <1>1, <1>5
  <2>2. Len(run) = m /\ run[m] = ab[i + m]
    <3>1. i \in Nat /\ i + m <= Len(ab) /\ m \in 1..m
      BY <1>1, <1>3
    <3> HIDE DEF m
    <3>2. ab \in Seq(Chars) /\ m \in Nat
      BY <1>1
    <3>4. Len(Run(ab, i, m)) = m
      BY <3>1, <3>2, RunOf
    <3>5. Run(ab, i, m)[m] = ab[i + m]
      BY <3>1, <3>2, RunOf
    <3> HIDE DEF run
    <3>3. run = Run(ab, i, m)
      BY DEF run
    <3> QED BY <3>3, <3>4, <3>5
  <2>3. ab[Len(a) + j] = b[j] /\ Len(a) + j = i + m
    <3>1. Len(a) + j = i + m
      BY <1>1
    <3> HIDE DEF j
    <3> QED BY <1>1, <2>1, <3>1
  <2> HIDE DEF run, j
  <2> QED BY <2>1, <2>2, <2>3
<1>7. <<w, run[m]>> \in PartOf
  <2> HIDE DEF run
  <2>1. Spells(run, phrase)
    BY <1>4 DEF run
  <2>2. CASE m = 1
    BY <2>1, <2>2 DEF Spells
  <2>3. CASE m # 1
    <3>1. <<Last(phrase), Last(run)>> \in PrefixOf
      BY <2>1, <2>3 DEF Spells
    <3>2. Last(phrase) = w /\ Last(run) = run[m]
      BY <1>6 DEF Last
    <3> QED BY <3>1, <3>2, WordsAssumption
  <2> QED BY <2>2, <2>3
<1>8. <<w, b[j]>> \in PartOf
  BY <1>6, <1>7
<1>9. j \in 1..Len(b)
  BY <1>6
<1> HIDE DEF run, j
<1>10. Mentions(b, <<w>>)
  <2>1. /\ j - 1 \in 0..(Len(b) - Len(<<w>>))
        /\ SubSeq(b, (j - 1) + 1, (j - 1) + Len(<<w>>))[1] = b[j]
    BY <1>1, <1>9
  <2>2. <<w>> # <<>> /\ Len(<<w>>) = 1 /\ <<w>>[1] = w
    OBVIOUS
  <2> HIDE DEF w
  <2>3. Spells(SubSeq(b, (j - 1) + 1, (j - 1) + Len(<<w>>)), <<w>>)
    BY <1>8, <2>1, <2>2 DEF Spells
  <2> QED BY <2>1, <2>2, <2>3 DEF Mentions
<1>11. w \in Words(phrase)
  BY <1>1, <1>3 DEF Words, Range
<1> QED BY <1>10, <1>11 DEF Touches

\* A window of one line, and the window of all lines.
LEMMA WindowOfOne ==
  ASSUME NEW Chars, NEW lines \in Seq(Seq(Chars)), NEW i \in DOMAIN lines
  PROVE  Window(lines, i, i) = lines[i]
<1> DEFINE s == SubSeq(lines, i, i)
<1>1. /\ i \in 1..Len(lines) /\ Len(lines) \in Nat /\ lines[i] \in Seq(Chars)
      /\ s \in Seq(Seq(Chars)) /\ Len(s) = 0 + 1 /\ s[0 + 1] = lines[i] /\ SubSeq(s, 1, 0) = <<>>
  <2>1. i \in 1..Len(lines) /\ Len(lines) \in Nat
    OBVIOUS
  <2>2. lines[i] \in Seq(Chars)
    OBVIOUS
  <2>3. s \in Seq(Seq(Chars)) /\ Len(s) = 1 /\ s[1] = lines[i]
    BY <2>1
  <2>4. SubSeq(s, 1, 0) = <<>>
    OBVIOUS
  <2> HIDE DEF s
  <2> QED BY <2>1, <2>2, <2>3, <2>4
<1>2. Window(lines, i, i) = FlattenSeq(s)
  BY <1>1 DEF Window
<1> HIDE DEF s
<1>3. FlattenSeq(s) = FlattenSeq(SubSeq(s, 1, 0)) \o s[0 + 1]
  BY <1>1, FlattenFront
<1>4. FlattenSeq(<<>>) = <<>>
  BY DEF FlattenSeq
<1>5. FlattenSeq(s) = <<>> \o lines[i]
  BY <1>1, <1>3, <1>4
<1>6. ASSUME NEW x \in Seq(Chars) PROVE <<>> \o x = x
  OBVIOUS
<1> QED BY <1>1, <1>2, <1>5, <1>6

LEMMA WindowOfAll ==
  ASSUME NEW Chars, NEW lines \in Seq(Seq(Chars)),
         NEW a \in Int, NEW b \in Int, a <= 1, Len(lines) <= b
  PROVE  Window(lines, a, b) = FlattenSeq(lines)
<1>1. SubSeq(lines, 1, Len(lines)) = lines
  OBVIOUS
<1>2. (IF a < 1 THEN 1 ELSE a) = 1 /\ (IF b > Len(lines) THEN Len(lines) ELSE b) = Len(lines)
  OBVIOUS
<1>3. Window(lines, a, b) = FlattenSeq(SubSeq(lines, 1, Len(lines)))
  BY <1>2 DEF Window
<1> QED BY <1>1, <1>3

\* A window is a text.
LEMMA WindowType ==
  ASSUME NEW Chars, NEW lines \in Seq(Seq(Chars)), NEW a \in Int, NEW b \in Int
  PROVE  Window(lines, a, b) \in Seq(Chars)
<1> DEFINE f == IF a < 1 THEN 1 ELSE a
           l == IF b > Len(lines) THEN Len(lines) ELSE b
<1>1. f \in Int /\ l \in Int /\ 1 <= f /\ l <= Len(lines) /\ Len(lines) \in Nat
  OBVIOUS
<1>2. Window(lines, a, b) = FlattenSeq(SubSeq(lines, f, l))
  BY DEF Window
<1> HIDE DEF f, l
<1>3. SubSeq(lines, f, l) \in Seq(Seq(Chars))
  BY <1>1
<1> QED BY <1>2, <1>3, FlattenType

\* A wider window mentions what a narrower one does.
LEMMA WiderWindow ==
  ASSUME NEW Chars, NEW lines \in Seq(Seq(Chars)), NEW phrase \in Seq(Chars),
         NEW a \in Int, NEW b \in Int, NEW c \in Int, NEW d \in Int, c <= a, b <= d,
         Mentions(Window(lines, a, b), phrase)
  PROVE  Mentions(Window(lines, c, d), phrase)
<1> DEFINE Flat(i, j) == FlattenSeq(SubSeq(lines, i, j))
           f == IF a < 1 THEN 1 ELSE a
           l == IF b > Len(lines) THEN Len(lines) ELSE b
           g == IF c < 1 THEN 1 ELSE c
           r == IF d > Len(lines) THEN Len(lines) ELSE d
<1>1. /\ f \in Int /\ l \in Int /\ g \in Int /\ r \in Int
      /\ 1 <= f /\ 1 <= g /\ g <= f /\ l <= r /\ r <= Len(lines) /\ Len(lines) \in Nat
  OBVIOUS
<1>2. Window(lines, a, b) = Flat(f, l) /\ Window(lines, c, d) = Flat(g, r)
  BY DEF Window
<1> HIDE DEF f, l, g, r
<1>3. f <= l
  <2> SUFFICES ASSUME f > l PROVE FALSE
    BY <1>1
  <2>1. SubSeq(lines, f, l) = <<>>
    BY <1>1
  <2>2. Flat(f, l) = <<>>
    BY <2>1 DEF FlattenSeq
  <2>3. ~Mentions(<<>>, phrase)
    <3>1. phrase # <<>> => Len(phrase) \in Nat /\ Len(phrase) # 0
      OBVIOUS
    <3>2. phrase # <<>> => 0..(0 - Len(phrase)) = {}
      BY <3>1
    <3>3. Len(<<>>) = 0
      OBVIOUS
    <3> QED BY <3>2, <3>3 DEF Mentions
  <2> QED BY <1>2, <2>2, <2>3
<1>4. \A i, j \in Nat : 1 <= i /\ j <= Len(lines) => Flat(i, j) \in Seq(Chars)
  <2> SUFFICES ASSUME NEW i \in Nat, NEW j \in Nat, 1 <= i, j <= Len(lines)
               PROVE  Flat(i, j) \in Seq(Chars)
    OBVIOUS
  <2>1. SubSeq(lines, i, j) \in Seq(Seq(Chars))
    BY <1>1
  <2> QED BY <2>1, FlattenType
<1>5. Flat(g, l) = Joined(Flat(g, f - 1), Flat(f, l))
  <2>1. /\ g \in Nat /\ f - 1 \in Nat /\ l \in Nat /\ (f - 1) + 1 = f
        /\ 1 <= g /\ g <= (f - 1) + 1 /\ f - 1 <= l /\ l <= Len(lines)
    BY <1>1, <1>3
  <2> HIDE DEF Flat
  <2>2. Flat(g, l) = Joined(Flat(g, f - 1), Flat((f - 1) + 1, l))
    BY <2>1, FlattenSplit DEF Flat
  <2> QED BY <2>1, <2>2
<1>6. Flat(g, r) = Joined(Flat(g, l), Flat(l + 1, r))
  <2>1. /\ g \in Nat /\ l \in Nat /\ r \in Nat /\ 1 <= g /\ g <= l + 1
        /\ l <= r /\ r <= Len(lines)
    BY <1>1, <1>3
  <2> QED BY <2>1, FlattenSplit
<1>7. /\ Flat(g, f - 1) \in Seq(Chars) /\ Flat(f, l) \in Seq(Chars)
      /\ Flat(g, l) \in Seq(Chars) /\ Flat(l + 1, r) \in Seq(Chars)
  <2>1. /\ g \in Nat /\ f - 1 \in Nat /\ f \in Nat /\ l \in Nat /\ l + 1 \in Nat /\ r \in Nat
        /\ 1 <= g /\ 1 <= f /\ 1 <= l + 1
        /\ f - 1 <= Len(lines) /\ l <= Len(lines) /\ r <= Len(lines)
    BY <1>1, <1>3
  <2> HIDE DEF Flat
  <2> QED BY <1>4, <2>1
<1> HIDE DEF Flat
<1>8. Mentions(Flat(g, l), phrase)
  BY <1>2, <1>5, <1>7, MentionsOfParts
<1> QED BY <1>2, <1>6, <1>7, <1>8, MentionsOfParts

\* Text without a number at its beginning or end is text.
LEMMA MatchNameType ==
  ASSUME NEW name \in Phrases
  PROVE  MatchName(name) \in Phrases
<1> DEFINE W == DOMAIN Letters
<1>1. name \in Seq(W) /\ Len(name) \in Nat
  BY DEF Phrases
<1> HIDE DEF W
<1>2. CASE Len(name) >= 2
  <2>1. Tail(name) \in Seq(W)
    BY <1>1, <1>2
  <2>2. Front(name) \in Seq(W)
    BY <1>1, <1>2 DEF Front
  <2> QED BY <1>1, <2>1, <2>2 DEF MatchName, Phrases, W
<1>3. CASE ~(Len(name) >= 2)
  BY <1>3 DEF MatchName
<1> QED BY <1>2, <1>3

LEMMA LinesType ==
  ASSUME NEW text \in Seq(Phrases)
  PROVE  Lines(text) \in Seq(Phrases)
<1> DEFINE P == {i \in DOMAIN text : text[i] # <<>>}
           folded == [i \in DOMAIN text |-> Normal(text[i])]
<1>1. ASSUME NEW i \in 1..Len(text) PROVE Normal(text[i]) \in Phrases
  <2> DEFINE words == text[i]
             W == DOMAIN Letters
  <2>1. words \in Seq(W)
    BY DEF Phrases
  <2>2. Folded \in [W -> W]
    BY WordsAssumption
  <2> HIDE DEF words, W
  <2>3. [j \in DOMAIN words |-> Folded[words[j]]] \in Seq(W)
    BY <2>1, <2>2
  <2> QED BY <2>3 DEF Normal, Phrases, words, W
<1>2. folded \in Seq(Phrases) /\ P \in SUBSET (1..Len(folded))
  BY <1>1
<1> HIDE DEF P, folded
<1>3. Kept(folded, P) \in Seq(Phrases)
  BY <1>2, KeptInOrder
<1> QED BY <1>3 DEF Lines, P, folded

LEMMA LeastOf ==
  ASSUME NEW S \in SUBSET Nat, S # {}
  PROVE  Min(S) \in S /\ \A n \in S : Min(S) <= n
<1>1. \E n \in S : \A m \in S : n <= m
  BY LeastNumber
<1> QED BY <1>1 DEF Min

\* A wider window mentions the markers that a narrower one does.
LEMMA WiderWindowMarks ==
  ASSUME NEW lines \in Seq(Phrases), NEW markers \in SUBSET Phrases,
         NEW a \in Int, NEW b \in Int, NEW c \in Int, NEW d \in Int, c <= a, b <= d,
         MentionsAny(Window(lines, a, b), markers)
  PROVE  MentionsAny(Window(lines, c, d), markers)
<1>1. PICK p \in markers : Mentions(Window(lines, a, b), p)
  BY DEF MentionsAny
<1>2. lines \in Seq(Seq(DOMAIN Letters)) /\ p \in Seq(DOMAIN Letters)
  BY DEF Phrases
<1>3. Mentions(Window(lines, c, d), p)
  BY <1>1, <1>2, WiderWindow
<1> QED BY <1>1, <1>3 DEF MentionsAny

\* The end of the shortest window with a name is a line with a word of it.
LEMMA NameEnds ==
  ASSUME NEW lines \in Seq(Phrases), NEW name \in Phrases, NEW start \in DOMAIN lines,
         Ends(name, lines, start) # {}
  PROVE  LET last == Min(Ends(name, lines, start))
         IN /\ last \in DOMAIN lines
            /\ start <= last /\ last <= start + 2
            /\ Touches(lines[last], name)
<1> DEFINE W == DOMAIN Letters
           E == Ends(name, lines, start)
           last == Min(E)
           a == FlattenSeq(SubSeq(lines, start, last - 1))
<1>1. lines \in Seq(Seq(W)) /\ name \in Seq(W) /\ start \in 1..Len(lines) /\ Len(lines) \in Nat
  BY DEF Phrases
<1>2. E \in SUBSET Nat
  BY <1>1 DEF Ends
<1>3. last \in E /\ \A n \in E : last <= n
  <2> HIDE DEF last
  <2>1. E # {}
    OBVIOUS
  <2> HIDE DEF E
  <2> QED BY <1>2, <2>1, LeastOf DEF last
<1> HIDE DEF last, W
<1>4. /\ last \in Nat /\ start <= last /\ last <= start + 2 /\ last <= Len(lines)
      /\ Mentions(Window(lines, start, last), name)
  BY <1>1, <1>3 DEF Ends
<1>5. last \in DOMAIN lines /\ lines[last] \in Seq(W)
  <2>1. last \in 1..Len(lines)
    BY <1>1, <1>4
  <2> QED BY <1>1, <2>1
<1>6. Window(lines, start, last) = FlattenSeq(SubSeq(lines, start, last))
  BY <1>1, <1>4 DEF Window
<1>7. FlattenSeq(SubSeq(lines, start, last)) = Joined(a, lines[last])
  <2>1. /\ start \in Nat /\ last - 1 \in Nat /\ 1 <= start /\ start <= (last - 1) + 1
        /\ last - 1 <= last /\ (last - 1) + 1 = last
    BY <1>1, <1>4
  <2>2. FlattenSeq(SubSeq(lines, start, last)) =
          Joined(a, FlattenSeq(SubSeq(lines, (last - 1) + 1, last)))
    BY <1>1, <1>4, <2>1, FlattenSplit
  <2>3. FlattenSeq(SubSeq(lines, last, last)) = Window(lines, last, last)
    BY <1>1, <1>4 DEF Window
  <2>4. Window(lines, last, last) = lines[last]
    BY <1>1, <1>5, WindowOfOne
  <2> QED BY <2>1, <2>2, <2>3, <2>4
<1>8. a \in Seq(W)
  <2>1. SubSeq(lines, start, last - 1) \in Seq(Seq(W))
    BY <1>1, <1>4
  <2> QED BY <2>1, FlattenType
<1>9. ~Mentions(a, name)
  <2>1. CASE last = start
    <3>1. SubSeq(lines, start, last - 1) = <<>>
      BY <1>1, <2>1
    <3>2. a = <<>>
      BY <3>1 DEF FlattenSeq
    <3> HIDE DEF a
    <3>3. name # <<>> => 0..(Len(a) - Len(name)) = {}
      <4>1. name # <<>> => Len(name) \in Nat /\ Len(name) # 0
        BY <1>1
      <4>2. Len(a) = 0
        BY <3>2
      <4> QED BY <4>1, <4>2
    <3> QED BY <3>3 DEF Mentions
  <2>2. CASE last # start
    <3>1. last - 1 \in start..(start + 2) /\ last - 1 <= Len(lines) /\ ~(last <= last - 1)
      BY <1>1, <1>4, <2>2
    <3>2. last - 1 \notin E
      <4> HIDE DEF E
      <4> QED BY <1>3, <3>1
    <3>3. ~Mentions(Window(lines, start, last - 1), name)
      BY <3>1, <3>2 DEF Ends
    <3>4. Window(lines, start, last - 1) = a
      BY <1>1, <3>1 DEF Window
    <3> QED BY <3>3, <3>4
  <2> QED BY <2>1, <2>2
<1> HIDE DEF a
<1>10. Touches(lines[last], name)
  BY <1>1, <1>4, <1>5, <1>6, <1>7, <1>8, <1>9, LastPartIsTouched
<1> QED BY <1>4, <1>5, <1>10 DEF last

LEMMA PriorityType ==
  ASSUME NEW name, NEW context
  PROVE  Priority(name, context) \in {0, 1, 2}
  BY DEF Priority

\* The lines a name's occurrence is judged by.
Context(name, lines, start) ==
  Window(lines, start - 1, Min(Ends(name, lines, start)) + 1)

\* The context of a name is its occurrence of the highest priority.
LEMMA NameContextIsBest ==
  ASSUME NEW name, NEW lines, Len(lines) \in Nat, Occurrences(name, lines) # {}
  PROVE  /\ \E start \in 1..Len(lines) :
              /\ Ends(name, lines, start) # {}
              /\ NameContext(name, lines).priority = Priority(name, Context(name, lines, start))
         /\ \A start \in 1..Len(lines) :
              Ends(name, lines, start) # {} =>
                Priority(name, Context(name, lines, start)) <=
                  NameContext(name, lines).priority
<1> DEFINE starts == {s \in 1..Len(lines) : Ends(name, lines, s) # {}}
           P(s) == Priority(name, Context(name, lines, s))
           found == {[priority |-> P(s), line |-> s] : s \in starts}
           best == {o \in found : \A p \in found : p.priority <= o.priority}
           chosen == CHOOSE o \in best : \A p \in best : o.line <= p.line
<1>1. Occurrences(name, lines) = found
  BY DEF Occurrences, Context
<1>2. NameContext(name, lines) = chosen
  BY <1>1 DEF NameContext
<1>3. \A s : P(s) \in {0, 1, 2}
  BY PriorityType
<1> HIDE DEF P
<1>4. \A o \in found : o.priority \in {0, 1, 2} /\ o.line \in Nat
  BY <1>3
<1>5. best # {}
  <2> DEFINE S == {2 - o.priority : o \in found}
  <2>1. S \in SUBSET Nat /\ S # {}
    BY <1>1, <1>4
  <2> HIDE DEF S
  <2>2. PICK n \in S : \A m \in S : n <= m
    BY <2>1, LeastNumber
  <2> HIDE DEF found
  <2>3. PICK o \in found : n = 2 - o.priority
    BY <2>2 DEF S
  <2>4. \A p \in found : 2 - p.priority \in S
    BY DEF S
  <2>5. \A p \in found : p.priority <= o.priority
    <3> SUFFICES ASSUME NEW p \in found PROVE p.priority <= o.priority
      OBVIOUS
    <3>1. 2 - o.priority <= 2 - p.priority
      BY <2>2, <2>3, <2>4
    <3> QED BY <1>4, <3>1
  <2> QED BY <2>5
<1>6. \E o \in best : \A p \in best : o.line <= p.line
  <2> DEFINE S == {o.line : o \in best}
  <2> HIDE DEF found
  <2>1. S \in SUBSET Nat /\ S # {}
    BY <1>4, <1>5
  <2> HIDE DEF S
  <2>2. PICK n \in S : \A m \in S : n <= m
    BY <2>1, LeastNumber
  <2> HIDE DEF best
  <2> QED BY <2>2 DEF S
<1>7. chosen \in best
  <2> HIDE DEF best
  <2> QED BY <1>6
<1> HIDE DEF chosen
<1>8. chosen \in found /\ \A p \in found : p.priority <= chosen.priority
  <2> HIDE DEF found
  <2> QED BY <1>7
<1>9. PICK s \in starts : chosen = [priority |-> P(s), line |-> s]
  BY <1>8
<1>10. \A t \in starts : P(t) <= chosen.priority
  <2> SUFFICES ASSUME NEW t \in starts PROVE P(t) <= chosen.priority
    OBVIOUS
  <2>1. [priority |-> P(t), line |-> t] \in found
    OBVIOUS
  <2> HIDE DEF found
  <2> QED BY <1>8, <2>1
<1> QED BY <1>2, <1>9, <1>10 DEF P

\* A sequence has at most as many words as places.
LEMMA WordCount ==
  ASSUME NEW Chars, NEW text \in Seq(Chars)
  PROVE  IsFiniteSet(Words(text)) /\ Cardinality(Words(text)) <= Len(text)
<1>1. Len(text) \in Nat /\ DOMAIN text = 1..Len(text)
  OBVIOUS
<1>2. IsFiniteSet(1..Len(text)) /\ Cardinality(1..Len(text)) = Len(text)
  BY <1>1, FS_Interval
<1>3. Words(text) = {text[i] : i \in 1..Len(text)}
  BY <1>1 DEF Words, Range
<1> DEFINE f == [i \in 1..Len(text) |-> text[i]]
<1>4. f \in Surjection(1..Len(text), Words(text))
  BY <1>3 DEF Surjection
<1> HIDE DEF f
<1>5. IsFiniteSet(Words(text)) /\ Cardinality(Words(text)) <= Cardinality(1..Len(text))
  BY <1>2, <1>4, FS_Surjection
<1> QED BY <1>2, <1>5

LEMMA Percentage ==
  ASSUME NEW c \in Nat, NEW k \in Nat, k > 0, 2 * c <= k
  PROVE  (200 * c) \div k \in Int /\ (200 * c) \div k <= 100
  OBVIOUS

\* Similarity is at most that of equal texts.
LEMMA LineScoreType ==
  ASSUME NEW rule \in Phrases, NEW line \in Phrases
  PROVE  LineScore(rule, line, TRUE) \in Int /\ LineScore(rule, line, TRUE) <= 100
<1> DEFINE common == DistinctiveWords(rule) \cap Words(line)
<1>1. CASE Mentions(line, rule)
  BY <1>1 DEF LineScore
<1>2. CASE ~Mentions(line, rule) /\ (Len(rule) = 1 \/ common = {})
  BY <1>2 DEF LineScore
<1>3. CASE ~Mentions(line, rule) /\ ~(Len(rule) = 1 \/ common = {})
  <2>1. LineScore(rule, line, TRUE) = Ratio(rule, line)
    BY <1>3 DEF LineScore
  <2> DEFINE shared == Words(rule) \cap Words(line)
             c == Cardinality(shared)
             k == Len(rule) + Len(line)
  <2>2. Len(rule) \in Nat /\ Len(line) \in Nat
    BY DEF Phrases
  <2>3. Len(line) # 0
    <3>1. PICK w \in Words(line) : TRUE
      BY <1>3
    <3>2. PICK i \in DOMAIN line : line[i] = w
      BY <3>1 DEF Words, Range
    <3>3. DOMAIN line = 1..Len(line)
      BY DEF Phrases
    <3> QED BY <2>2, <3>2, <3>3
  <2>4. /\ IsFiniteSet(Words(rule)) /\ Cardinality(Words(rule)) <= Len(rule)
        /\ IsFiniteSet(Words(line)) /\ Cardinality(Words(line)) <= Len(line)
    BY WordCount DEF Phrases
  <2>5. /\ IsFiniteSet(shared)
        /\ Cardinality(shared) <= Cardinality(Words(rule))
        /\ Cardinality(shared) <= Cardinality(Words(line))
    <3>1. shared \in SUBSET Words(rule) /\ shared \in SUBSET Words(line)
      OBVIOUS
    <3> HIDE DEF shared
    <3> QED BY <2>4, <3>1, FS_Subset
  <2>6. c \in Nat /\ Cardinality(Words(rule)) \in Nat /\ Cardinality(Words(line)) \in Nat
    BY <2>4, <2>5, FS_CardinalityType
  <2>7. k \in Nat /\ k > 0 /\ 2 * c <= k
    <3> HIDE DEF shared
    <3> QED BY <2>2, <2>3, <2>4, <2>5, <2>6
  <2>8. Ratio(rule, line) = (200 * c) \div k
    BY DEF Ratio
  <2> HIDE DEF c, k
  <2>9. (200 * c) \div k \in Int /\ (200 * c) \div k <= 100
    BY <2>6, <2>7, Percentage
  <2>10. LineScore(rule, line, TRUE) = (200 * c) \div k
    BY <2>1, <2>8
  <2> QED BY <2>9, <2>10
<1> QED BY <1>1, <1>2, <1>3

\* A name that is nowhere whole claims at most as much as the spelling does.
LEMMA SimilarVerdict ==
  ASSUME NEW name \in Phrases, NEW lines \in Seq(Phrases)
  PROVE  LET verdict == ScoreSimilar(name, lines, "correspondent_name")
         IN verdict.score \in Int /\ verdict.score <= 100 /\ verdict.priority = 1
<1> DEFINE scores == [i \in DOMAIN lines |-> LineScore(name, lines[i], TRUE)]
           source == "correspondent_name"
           verdict == BestLine(scores, source)
           G == {i \in DOMAIN scores : \A j \in DOMAIN scores : scores[j] <= scores[i]}
<1>1. ScoreSimilar(name, lines, "correspondent_name") = verdict
  BY DEF ScoreSimilar
<1>2. Len(lines) \in Nat /\ DOMAIN scores = 1..Len(lines)
  OBVIOUS
<1>3. \A i \in DOMAIN scores : scores[i] \in Int /\ scores[i] <= 100
  <2> SUFFICES ASSUME NEW i \in DOMAIN lines
               PROVE  scores[i] \in Int /\ scores[i] <= 100
    OBVIOUS
  <2>1. lines[i] \in Phrases
    OBVIOUS
  <2>2. scores[i] = LineScore(name, lines[i], TRUE)
    OBVIOUS
  <2> HIDE DEF scores
  <2> QED BY <2>1, <2>2, LineScoreType
<1>4. CASE scores = <<>>
  <2> HIDE DEF scores, source
  <2>1. verdict = Verdict(0, 1, NoLine, source)
    BY <1>4 DEF BestLine, Rejected
  <2>2. verdict.score = 0 /\ verdict.priority = 1
    BY <2>1 DEF Verdict
  <2> HIDE DEF verdict
  <2> QED BY <1>1, <2>2
<1>5. CASE scores # <<>>
  <2>1. DOMAIN scores # {}
    <3> SUFFICES ASSUME DOMAIN scores = {} PROVE scores = <<>>
      BY <1>5
    <3>1. scores \in Seq(Int) /\ Len(scores) = Len(lines)
      BY <1>2, <1>3
    <3> HIDE DEF scores
    <3>2. Len(scores) = 0
      BY <1>2, <3>1
    <3> QED BY <3>1, <3>2
  <2> HIDE DEF scores
  <2> DEFINE S == {100 - scores[i] : i \in DOMAIN scores}
  <2>2. S \in SUBSET Nat /\ S # {}
    BY <1>3, <2>1
  <2> HIDE DEF S
  <2>3. PICK n \in S : \A m \in S : n <= m
    BY <2>2, LeastNumber
  <2>4. PICK i \in DOMAIN scores : n = 100 - scores[i]
    BY <2>3 DEF S
  <2>5. i \in G
    <3> SUFFICES ASSUME NEW j \in DOMAIN scores PROVE scores[j] <= scores[i]
      OBVIOUS
    <3>1. 100 - scores[j] \in S
      BY DEF S
    <3>2. 100 - scores[i] <= 100 - scores[j]
      BY <2>3, <2>4, <3>1
    <3> QED BY <1>3, <3>2
  <2>6. G \in SUBSET Nat
    BY <1>2
  <2> HIDE DEF G
  <2>7. Min(G) \in G
    BY <2>5, <2>6, LeastOf
  <2>8. Min(G) \in DOMAIN scores
    BY <2>7 DEF G
  <2>9. FirstGreatest(scores) = Min(G)
    BY DEF FirstGreatest, G
  <2>10. verdict.score = scores[Min(G)] /\ verdict.priority = 1
    BY <1>5, <2>9 DEF BestLine, Verdict
  <2> QED BY <1>1, <1>3, <2>8, <2>10
<1> QED BY <1>4, <1>5

\* An entry that is preceded, or claims nothing, does not win.
LEMMA PrecededDoesNotWin ==
  ASSUME NEW claims, NEW k \in DOMAIN claims, NEW l \in DOMAIN claims,
         claims[k] # {},
         claims[l] # {} => Precedes(Strongest(claims[k]), Strongest(claims[l]))
  PROVE  l \notin Winners(claims)
<1> DEFINE strongest == [i \in {j \in DOMAIN claims : claims[j] # {}} |-> Strongest(claims[i])]
<1> SUFFICES ASSUME l \in Winners(claims) PROVE FALSE
  OBVIOUS
<1>1. l \in Unpreceded(strongest)
  BY DEF Winners
<1>2. /\ k \in DOMAIN strongest /\ strongest[k] = Strongest(claims[k])
      /\ l \in DOMAIN strongest => claims[l] # {} /\ strongest[l] = Strongest(claims[l])
  OBVIOUS
<1> HIDE DEF strongest
<1> QED BY <1>1, <1>2 DEF Unpreceded

LEMMA ClaimlessDoesNotWin ==
  ASSUME NEW claims, NEW l \in DOMAIN claims, claims[l] = {}
  PROVE  l \notin Winners(claims)
  BY DEF Winners, Unpreceded

LEMMA StrongestOfOne ==
  ASSUME NEW claim
  PROVE  Strongest({claim}) = claim
  BY DEF Strongest

\* What an entry that is matched by its name alone claims.
LEMMA NamedOnlyClaims ==
  ASSUME NEW text, NEW d, NEW k \in DOMAIN d, d[k].match = <<>>
  PROVE  LET name == MatchName(d[k].name)
         IN ClaimsOn(text, d)[k] =
              IF IsDefault(d[k].name) THEN {} ELSE NameClaims(ScoreName(name, Lines(text)), name)
  BY DEF ClaimsOn, Claims

LEMMA LinesAreTexts ==
  ASSUME NEW lines \in Seq(Phrases)
  PROVE  /\ lines \in Seq(Seq(DOMAIN Letters))
         /\ Len(lines) \in Nat /\ DOMAIN lines = 1..Len(lines)
         /\ \A i \in DOMAIN lines : i \in Nat /\ lines[i] \in Phrases
  BY DEF Phrases

\* Each occurrence is judged by the lines around the last line of it.
LEMMA ContextWindow ==
  ASSUME NEW lines \in Seq(Phrases), NEW name \in Phrases, NEW start \in DOMAIN lines,
         Ends(name, lines, start) # {}
  PROVE  \E last \in DOMAIN lines :
           /\ Context(name, lines, start) = Window(lines, start - 1, last + 1)
           /\ start <= last /\ last <= start + 2
           /\ Touches(lines[last], name)
  BY NameEnds DEF Context

\* What a line mentions each window with it mentions.
LEMMA LineMarks ==
  ASSUME NEW lines \in Seq(Phrases), NEW markers \in SUBSET Phrases,
         NEW i \in DOMAIN lines, NEW c \in Int, NEW d \in Int, c <= i, i <= d,
         MentionsAny(lines[i], markers)
  PROVE  MentionsAny(Window(lines, c, d), markers)
<1>1. i \in Int /\ lines \in Seq(Seq(DOMAIN Letters))
  BY LinesAreTexts
<1>2. Window(lines, i, i) = lines[i]
  BY <1>1, WindowOfOne
<1> QED BY <1>1, <1>2, WiderWindowMarks

\* A name within three lines begins an occurrence.
LEMMA WithinThreeLines ==
  ASSUME NEW lines \in Seq(Phrases), NEW name, NEW i \in DOMAIN lines,
         Mentions(Window(lines, i, i + 2), name)
  PROVE  Ends(name, lines, i) # {}
<1>1. i \in Nat /\ 1 <= i /\ i <= Len(lines) /\ Len(lines) \in Nat
  BY LinesAreTexts
<1> DEFINE last == IF i + 2 > Len(lines) THEN Len(lines) ELSE i + 2
<1>2. last \in i..(i + 2) /\ last <= Len(lines)
  BY <1>1
<1>3. Window(lines, i, last) = Window(lines, i, i + 2)
  BY <1>1 DEF Window
<1> HIDE DEF last
<1> QED BY <1>2, <1>3 DEF Ends

LEMMA OccursWhereItEnds ==
  ASSUME NEW lines \in Seq(Phrases), NEW name, NEW i \in DOMAIN lines,
         Ends(name, lines, i) # {}
  PROVE  Occurrences(name, lines) # {}
  BY LinesAreTexts DEF Occurrences

\* A name that only references have claims nothing.
LEMMA ReferencesClaimNothing ==
  ASSUME NEW lines \in Seq(Phrases), NEW name \in Phrases, NEW i \in DOMAIN lines,
         Mentions(Window(lines, i, i + 2), name),
         ~MentionsAny(FlattenSeq(lines), SenderMarkers \cup LegalMarkers),
         \A j \in DOMAIN lines :
           Touches(lines[j], name) => MentionsAny(lines[j], ReferenceMarkers)
  PROVE  NameClaims(ScoreName(name, lines), name) = {}
<1>1. /\ Len(lines) \in Nat /\ DOMAIN lines = 1..Len(lines)
      /\ lines \in Seq(Seq(DOMAIN Letters)) /\ name \in Seq(DOMAIN Letters)
  BY LinesAreTexts DEF Phrases
<1>2. Window(lines, 0, Len(lines) + 2) = FlattenSeq(lines)
  BY <1>1, WindowOfAll
<1>3. Mentions(FlattenSeq(lines), name)
  <2>1. i \in Int /\ 0 <= i /\ i + 2 <= Len(lines) + 2
    BY <1>1
  <2>2. Mentions(Window(lines, 0, Len(lines) + 2), name)
    BY <1>1, <2>1, WiderWindow
  <2> QED BY <1>2, <2>2
<1>4. ASSUME NEW start \in 1..Len(lines), Ends(name, lines, start) # {}
      PROVE  Priority(name, Context(name, lines, start)) = 0
  <2>1. PICK last \in DOMAIN lines :
           /\ Context(name, lines, start) = Window(lines, start - 1, last + 1)
           /\ start <= last /\ last <= start + 2
           /\ Touches(lines[last], name)
    BY <1>1, <1>4, ContextWindow
  <2> DEFINE context == Window(lines, start - 1, last + 1)
  <2>2. /\ SenderMarkers \in SUBSET Phrases /\ LegalMarkers \in SUBSET Phrases
        /\ ReferenceMarkers \in SUBSET Phrases
    BY WordsAssumption
  <2>3. MentionsAny(context, ReferenceMarkers)
    <3>1. start - 1 \in Int /\ last + 1 \in Int /\ start - 1 <= last /\ last <= last + 1
      BY <1>1, <2>1
    <3>2. MentionsAny(lines[last], ReferenceMarkers)
      BY <2>1
    <3> QED BY <2>2, <3>1, <3>2, LineMarks
  <2>4. ASSUME NEW markers \in SUBSET Phrases, markers \subseteq SenderMarkers \cup LegalMarkers
        PROVE  ~MentionsAny(context, markers)
    <3>1. /\ start - 1 \in Int /\ last + 1 \in Int
          /\ 0 <= start - 1 /\ last + 1 <= Len(lines) + 2
      BY <1>1, <2>1
    <3>2. ~MentionsAny(FlattenSeq(lines), markers)
      BY <2>4 DEF MentionsAny
    <3> SUFFICES ASSUME MentionsAny(context, markers) PROVE FALSE
      OBVIOUS
    <3>3. MentionsAny(Window(lines, 0, Len(lines) + 2), markers)
      BY <1>1, <3>1, WiderWindowMarks
    <3> QED BY <1>2, <3>2, <3>3
  <2>5. ~MentionsAny(context, SenderMarkers) /\ ~MentionsAny(context, LegalMarkers)
    BY <2>2, <2>4
  <2> HIDE DEF context
  <2>6. Priority(name, context) = 0
    BY <2>3, <2>5 DEF Priority
  <2> QED BY <2>1, <2>6 DEF context
<1>5. Occurrences(name, lines) # {}
  BY WithinThreeLines, OccursWhereItEnds
<1>6. NameContext(name, lines).priority = 0
  BY <1>1, <1>4, <1>5, NameContextIsBest
<1>7. ScoreName(name, lines).priority = 0
  BY <1>3, <1>6 DEF ScoreName, NameVerdict, Verdict
<1> QED BY <1>7 DEF NameClaims

\* A name in a line with a sender's phrase claims as much as a name can.
LEMMA SenderClaims ==
  ASSUME NEW lines \in Seq(Phrases), NEW name \in Phrases, NEW i \in DOMAIN lines,
         Mentions(lines[i], name),
         MentionsAny(lines[i], SenderMarkers)
  PROVE  ScoreName(name, lines).score = 100 /\ ScoreName(name, lines).priority = 2
<1>1. /\ Len(lines) \in Nat /\ DOMAIN lines = 1..Len(lines)
      /\ lines \in Seq(Seq(DOMAIN Letters)) /\ name \in Seq(DOMAIN Letters)
      /\ i \in Nat /\ 1 <= i /\ i <= Len(lines)
  BY LinesAreTexts DEF Phrases
<1>2. Mentions(Window(lines, i, i), name)
  BY <1>1, WindowOfOne
<1>3. Mentions(FlattenSeq(lines), name)
  <2>1. Window(lines, 0, Len(lines) + 2) = FlattenSeq(lines)
    BY <1>1, WindowOfAll
  <2>2. Mentions(Window(lines, 0, Len(lines) + 2), name)
    BY <1>1, <1>2, WiderWindow
  <2> QED BY <2>1, <2>2
<1>4. Ends(name, lines, i) # {}
  <2>1. Mentions(Window(lines, i, i + 2), name)
    BY <1>1, <1>2, WiderWindow
  <2> QED BY <2>1, WithinThreeLines
<1>5. Priority(name, Context(name, lines, i)) = 2
  <2>1. PICK last \in DOMAIN lines :
           /\ Context(name, lines, i) = Window(lines, i - 1, last + 1)
           /\ i <= last
    BY <1>4, ContextWindow
  <2>2. i - 1 \in Int /\ last + 1 \in Int /\ i - 1 <= i /\ i <= last + 1
    BY <1>1, <2>1
  <2>3. SenderMarkers \in SUBSET Phrases
    BY WordsAssumption
  <2>4. MentionsAny(Context(name, lines, i), SenderMarkers)
    BY <2>1, <2>2, <2>3, LineMarks
  <2> QED BY <2>4 DEF Priority
<1>6. Occurrences(name, lines) # {}
  BY <1>4, OccursWhereItEnds
<1>7. NameContext(name, lines).priority = 2
  <2>1. 2 <= NameContext(name, lines).priority
    BY <1>1, <1>4, <1>5, <1>6, NameContextIsBest
  <2>2. NameContext(name, lines).priority \in {0, 1, 2}
    BY <1>1, <1>6, NameContextIsBest, PriorityType
  <2> QED BY <2>1, <2>2
<1> QED BY <1>3, <1>7 DEF ScoreName, NameVerdict, Verdict

\* A name far from every sender's phrase and imprint claims less.
LEMMA UnmarkedClaims ==
  ASSUME NEW lines \in Seq(Phrases), NEW name \in Phrases,
         \A j \in DOMAIN lines :
           Touches(lines[j], name) =>
             ~MentionsAny(Window(lines, j - 3, j + 1), SenderMarkers \cup LegalMarkers)
  PROVE  /\ ScoreName(name, lines).score \in Int /\ ScoreName(name, lines).score <= 100
         /\ ScoreName(name, lines).priority \in {0, 1}
<1>1. Len(lines) \in Nat /\ DOMAIN lines = 1..Len(lines)
  BY LinesAreTexts
<1>2. ASSUME NEW start \in 1..Len(lines), Ends(name, lines, start) # {}
      PROVE  Priority(name, Context(name, lines, start)) \in {0, 1}
  <2>1. PICK last \in DOMAIN lines :
           /\ Context(name, lines, start) = Window(lines, start - 1, last + 1)
           /\ start <= last /\ last <= start + 2
           /\ Touches(lines[last], name)
    BY <1>1, <1>2, ContextWindow
  <2> DEFINE context == Window(lines, start - 1, last + 1)
  <2>2. SenderMarkers \in SUBSET Phrases /\ LegalMarkers \in SUBSET Phrases
    BY WordsAssumption
  <2>3. ASSUME NEW markers \in SUBSET Phrases, markers \subseteq SenderMarkers \cup LegalMarkers
        PROVE  ~MentionsAny(context, markers)
    <3>1. /\ start - 1 \in Int /\ last + 1 \in Int /\ last - 3 \in Int
          /\ last - 3 <= start - 1 /\ last + 1 <= last + 1
      BY <1>1, <2>1
    <3>2. ~MentionsAny(Window(lines, last - 3, last + 1), markers)
      BY <2>1, <2>3 DEF MentionsAny
    <3> QED BY <3>1, <3>2, WiderWindowMarks
  <2>4. ~MentionsAny(context, SenderMarkers) /\ ~MentionsAny(context, LegalMarkers)
    BY <2>2, <2>3
  <2> HIDE DEF context
  <2>5. Priority(name, context) \in {0, 1}
    BY <2>4 DEF Priority
  <2> QED BY <2>1, <2>5 DEF context
<1>3. NameContext(name, lines).priority \in {0, 1}
  <2>1. CASE Occurrences(name, lines) = {}
    BY <2>1 DEF NameContext, NoOccurrence
  <2>2. CASE Occurrences(name, lines) # {}
    BY <1>1, <1>2, <2>2, NameContextIsBest
  <2> QED BY <2>1, <2>2
<1>4. CASE Mentions(FlattenSeq(lines), name)
  BY <1>3, <1>4 DEF ScoreName, NameVerdict, Verdict
<1>5. CASE ~Mentions(FlattenSeq(lines), name)
  <2>1. ScoreName(name, lines) = ScoreSimilar(name, lines, "correspondent_name")
    BY <1>5 DEF ScoreName
  <2> QED BY <2>1, SimilarVerdict
<1> QED BY <1>4, <1>5

LEMMA ReferencesAreNotChosen ==
  ASSUME NEW text \in Texts, NEW d \in Directories, NEW k \in DOMAIN d,
         d[k].match = <<>>,
         NameClaims(ScoreName(MatchName(d[k].name), Lines(text)), MatchName(d[k].name)) = {}
  PROVE  MatchCorrespondent(text, d) # d[k].id
<1> SUFFICES ASSUME MatchCorrespondent(text, d) = d[k].id PROVE FALSE
  OBVIOUS
<1>1. Winners(ClaimsOn(text, d)) = {k}
  BY ChosenIsTheWinner
<1>2. ClaimsOn(text, d)[k] = {}
  BY NamedOnlyClaims
<1>3. DOMAIN ClaimsOn(text, d) = DOMAIN d
  BY DEF ClaimsOn
<1> HIDE DEF ClaimsOn
<1> QED BY <1>1, <1>2, <1>3, ClaimlessDoesNotWin

\* What is only in references to registers, courts and cases is never the
\* correspondent, for all texts and directories (_name_context).
THEOREM CourtsAreNoSendersAlways == Spec => []CourtsAreNoSenders
<1>1. AnswerIsTheMatch => CourtsAreNoSenders
  <2> DEFINE name(k) == MatchName(Directory[k].name)
  <2> SUFFICES ASSUME AnswerIsTheMatch, Answered("correspondent"),
                      NEW k \in DOMAIN Directory, NamedOnly(Directory[k]),
                      NEW i \in DOMAIN MatchedLines,
                      Mentions(Window(MatchedLines, i, i + 2), name(k)),
                      ~MentionsAny(FlattenSeq(MatchedLines), SenderMarkers \cup LegalMarkers),
                      \A j \in DOMAIN MatchedLines :
                        Touches(MatchedLines[j], name(k)) =>
                          MentionsAny(MatchedLines[j], ReferenceMarkers)
               PROVE  answer # Directory[k].id
    BY DEF CourtsAreNoSenders
  <2>1. answer = MatchCorrespondent(question.of.text, Directory)
    BY DEF AnswerIsTheMatch, Answered
  <2>2. Directory \in Directories /\ question.of.text \in Texts
    BY DEF AnswerIsTheMatch, Answered, MatchQuestions, Directory
  <2>3. MatchedLines \in Seq(Phrases)
    BY <2>2, TextAssumption, LinesType DEF MatchedLines
  <2>4. name(k) \in Phrases
    BY <2>2, TextAssumption, MatchNameType
  <2>5. NameClaims(ScoreName(name(k), MatchedLines), name(k)) = {}
    <3> HIDE DEF name
    <3> QED BY <2>3, <2>4, ReferencesClaimNothing
  <2>6. Directory[k].match = <<>>
    BY DEF NamedOnly
  <2> HIDE DEF Directory
  <2> QED BY <2>1, <2>2, <2>5, <2>6, ReferencesAreNotChosen DEF MatchedLines
<1> QED
  BY <1>1, AnswerIsTheMatchInit, AnswerIsTheMatchNext, PTL DEF Spec

\* An entry that claims less than another one is not chosen.
LEMMA WeakerNamesAreNotChosen ==
  ASSUME NEW text, NEW d \in Directories, NEW k \in DOMAIN d, NEW l \in DOMAIN d,
         d[k].match = <<>>, d[l].match = <<>>, ~IsDefault(d[k].name),
         LET verdict == ScoreName(MatchName(d[k].name), Lines(text))
         IN verdict.score = 100 /\ verdict.priority = 2,
         LET verdict == ScoreName(MatchName(d[l].name), Lines(text))
         IN verdict.score \in Int /\ verdict.score <= 100 /\ verdict.priority \in {0, 1}
  PROVE  MatchCorrespondent(text, d) # d[l].id
<1> DEFINE claims == ClaimsOn(text, d)
           verdict(i) == ScoreName(MatchName(d[i].name), Lines(text))
           claim(i) == Claim(verdict(i), MatchName(d[i].name))
<1> SUFFICES ASSUME MatchCorrespondent(text, d) = d[l].id PROVE FALSE
  OBVIOUS
<1>1. Winners(claims) = {l}
  BY ChosenIsTheWinner
<1>2. DOMAIN claims = DOMAIN d
  BY DEF ClaimsOn
<1>3. /\ verdict(k).score = 100 /\ verdict(k).priority = 2
      /\ verdict(l).score \in Int /\ verdict(l).score <= 100 /\ verdict(l).priority \in {0, 1}
  OBVIOUS
<1>4. claims[k] = NameClaims(verdict(k), MatchName(d[k].name))
  BY NamedOnlyClaims
<1>5. claims[l] # {} => claims[l] = NameClaims(verdict(l), MatchName(d[l].name))
  BY NamedOnlyClaims
<1> HIDE DEF claims, verdict
<1>6. claims[k] = {claim(k)}
  BY <1>3, <1>4 DEF NameClaims, MinimumNameScore
<1>7. claims[l] # {} => claims[l] = {claim(l)}
  BY <1>5 DEF NameClaims
<1>8. Precedes(claim(k), claim(l))
  <2>0. \A i : claim(i).score = verdict(i).score /\ claim(i).priority = verdict(i).priority
    BY DEF Claim
  <2>1. /\ claim(k).score = 100 /\ claim(k).priority = 2
        /\ claim(l).score = verdict(l).score /\ claim(l).priority = verdict(l).priority
    <3> HIDE DEF claim
    <3> QED BY <1>3, <2>0
  <2> HIDE DEF claim
  <2>2. claim(k).score > claim(l).score \/
          (claim(k).score = claim(l).score /\ claim(k).priority > claim(l).priority)
    BY <1>3, <2>1
  <2> QED BY <2>2 DEF Precedes
<1> HIDE DEF claim
<1>9. claims[l] # {} => Precedes(Strongest(claims[k]), Strongest(claims[l]))
  <2>1. Strongest(claims[k]) = claim(k)
    BY <1>6, StrongestOfOne
  <2>2. claims[l] # {} => Strongest(claims[l]) = claim(l)
    BY <1>7, StrongestOfOne
  <2> QED BY <1>8, <2>1, <2>2
<1>10. claims[k] # {}
  BY <1>6
<1> QED BY <1>1, <1>2, <1>9, <1>10, PrecededDoesNotWin

\* A name in a line with a sender's phrase is never passed over for one that is
\* far from every such phrase, for all texts and directories.
THEOREM SenderIsNotPassedOverAlways == Spec => []SenderIsNotPassedOver
<1>1. AnswerIsTheMatch => SenderIsNotPassedOver
  <2> DEFINE name(i) == MatchName(Directory[i].name)
  <2> SUFFICES ASSUME AnswerIsTheMatch, Answered("correspondent"),
                      NEW k \in DOMAIN Directory, NEW l \in DOMAIN Directory,
                      NamedOnly(Directory[k]), NamedOnly(Directory[l]),
                      ~IsDefault(Directory[k].name),
                      NEW i \in DOMAIN MatchedLines,
                      Mentions(MatchedLines[i], name(k)),
                      MentionsAny(MatchedLines[i], SenderMarkers),
                      \A j \in DOMAIN MatchedLines :
                        Touches(MatchedLines[j], name(l)) =>
                          ~MentionsAny(Window(MatchedLines, j - 3, j + 1),
                                       SenderMarkers \cup LegalMarkers)
               PROVE  answer # Directory[l].id
    BY DEF SenderIsNotPassedOver
  <2>1. answer = MatchCorrespondent(question.of.text, Directory)
    BY DEF AnswerIsTheMatch, Answered
  <2>2. Directory \in Directories /\ question.of.text \in Texts
    BY DEF AnswerIsTheMatch, Answered, MatchQuestions, Directory
  <2>3. MatchedLines \in Seq(Phrases)
    BY <2>2, TextAssumption, LinesType DEF MatchedLines
  <2>4. name(k) \in Phrases /\ name(l) \in Phrases
    BY <2>2, TextAssumption, MatchNameType
  <2> HIDE DEF name
  <2>5. /\ ScoreName(name(k), MatchedLines).score = 100
        /\ ScoreName(name(k), MatchedLines).priority = 2
    BY <2>3, <2>4, SenderClaims
  <2>6. /\ ScoreName(name(l), MatchedLines).score \in Int
        /\ ScoreName(name(l), MatchedLines).score <= 100
        /\ ScoreName(name(l), MatchedLines).priority \in {0, 1}
    BY <2>3, <2>4, UnmarkedClaims
  <2>7. Directory[k].match = <<>> /\ Directory[l].match = <<>>
    BY DEF NamedOnly
  <2> HIDE DEF Directory
  <2> QED
    BY <2>1, <2>2, <2>5, <2>6, <2>7, WeakerNamesAreNotChosen DEF MatchedLines, name
<1> QED
  BY <1>1, AnswerIsTheMatchInit, AnswerIsTheMatchNext, PTL DEF Spec

=============================================================================
