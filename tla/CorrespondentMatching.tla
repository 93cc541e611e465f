------------------------ MODULE CorrespondentMatching ------------------------
(***************************************************************************)
(* The rules that choose the correspondent of a document                   *)
(* (src/core/correspondents/matcher.py).  A text is a sequence of lines, a  *)
(* line a sequence of words as they are written; a blank line is the empty *)
(* sequence.  Names, rules and markers are sequences of words as well.     *)
(* What _normalize does to a word is Folded: names and markers are of      *)
(* folded words, texts and expressions as they are written.                *)
(* The code looks for substrings, which may begin and end within a word.   *)
(* Scores are percents.  Line numbers start at 1.                          *)
(***************************************************************************)
EXTENDS Integers, Sequences, SequencesExt, FiniteSetsExt, Subsequence

CONSTANTS
  CompanyForms,        \* "gmbh", "ag", ...
  AuthorityWords,      \* "amtsgericht", "finanzamt", ...
  NonDistinctive,      \* words that many company names share
  InternalNumbers,     \* words of four to six digits
  SenderMarkers,       \* phrases that introduce the sender
  ReferenceMarkers,    \* phrases of registers, courts and case numbers
  LegalMarkers,        \* phrases of the legal imprint of a company
  DefaultNames,        \* the names of the stand-in correspondent
  Letters,             \* the length of each word
  Folded,              \* each word without upper case
  PartOf,              \* pairs of words, the first somewhere within the second
  PrefixOf,            \* pairs of words, the second beginning with the first
  SuffixOf             \* pairs of words, the second ending with the first

\* Names, rules and phrases are made of words of known length; the beginning and the
\* end of a word are parts of it.
Phrases == Seq(DOMAIN Letters)

ASSUME WordsAssumption ==
  /\ PrefixOf \cup SuffixOf \subseteq PartOf
  /\ Folded \in [DOMAIN Letters -> DOMAIN Letters]
  /\ SenderMarkers \cup ReferenceMarkers \cup LegalMarkers \subseteq Phrases

\* MINIMUM_NAME_SCORE and the default minimum_score of match_correspondent.
MinimumNameScore == 85
MinimumScore == 60

\* No line: 2**31 - 1 in the code.
NoLine == 2147483647

Nobody == "nobody"

\* phrase in words: whole words but for the ends of the phrase.
Spells(run, phrase) ==
  IF Len(phrase) = 1 THEN <<phrase[1], run[1]>> \in PartOf
  ELSE /\ <<phrase[1], run[1]>> \in SuffixOf
       /\ <<Last(phrase), Last(run)>> \in PrefixOf
       /\ \A k \in 2..(Len(phrase) - 1) : run[k] = phrase[k]

Mentions(words, phrase) ==
  /\ phrase # <<>>
  /\ \E i \in 0..(Len(words) - Len(phrase)) :
        Spells(SubSeq(words, i + 1, i + Len(phrase)), phrase)

MentionsAny(words, phrases) == \E p \in phrases : Mentions(words, p)

Words(value) == Range(value)

\* len(_normalize(value)): the letters and a blank between two words.
Size(value) ==
  FoldLeft(LAMBDA n, w : n + Letters[w], 0, value)
    + (IF value = <<>> THEN 0 ELSE Len(value) - 1)

IsDefault(name) == name \in DefaultNames
HasCompanyForm(name) == Words(name) \cap CompanyForms # {}
IsAuthorityName(name) == Words(name) \cap AuthorityWords # {}
DistinctiveWords(name) == {w \in Words(name) \ NonDistinctive : Letters[w] > 1}

\* _match_name: an internal number before or after a company's name is dropped.
MatchName(name) ==
  LET without == IF Head(name) \in InternalNumbers THEN Tail(name)
                 ELSE IF Last(name) \in InternalNumbers THEN Front(name)
                 ELSE name
  IN IF Len(name) >= 2 /\ HasCompanyForm(without) THEN without ELSE name

\* difflib's similarity of two texts, by the words they have in common.
Ratio(rule, line) ==
  (200 * Cardinality(Words(rule) \cap Words(line))) \div (Len(rule) + Len(line))

LineScore(rule, line, byName) ==
  IF Mentions(line, rule) THEN 100
  ELSE IF \/ Len(rule) = 1
          \/ byName /\ DistinctiveWords(rule) \cap Words(line) = {}
       THEN 0
  ELSE Ratio(rule, line)

\* _normalize, and the lines of a text that are not blank.
Normal(words) == [i \in DOMAIN words |-> Folded[words[i]]]

Lines(text) ==
  Kept([i \in DOMAIN text |-> Normal(text[i])], {i \in DOMAIN text : text[i] # <<>>})

Window(lines, first, last) ==
  FlattenSeq(SubSeq(lines, IF first < 1 THEN 1 ELSE first,
                           IF last > Len(lines) THEN Len(lines) ELSE last))

(***************************************************************************)
(* _name_context.  A name may be split over up to three lines; the         *)
(* narrowest window that begins at a line and contains the name is an      *)
(* occurrence, judged with one more line before and after it.              *)
(***************************************************************************)
\* A changed priority that knows no references to registers and courts.
PriorityWithoutReferences(name, context) ==
  IF \/ MentionsAny(context, SenderMarkers)
     \/ HasCompanyForm(name) /\ MentionsAny(context, LegalMarkers)
  THEN 2 ELSE 1

Priority(name, context) ==
  LET legal == MentionsAny(context, LegalMarkers)
  IN IF \/ MentionsAny(context, SenderMarkers)
        \/ HasCompanyForm(name) /\ legal
     THEN 2
     ELSE IF \/ MentionsAny(context, ReferenceMarkers)
             \/ IsAuthorityName(name) /\ legal
     THEN 0
     ELSE 1

\* A name that is spread over more than three lines has no occurrence.
NoOccurrence == [priority |-> 1, line |-> NoLine]

Ends(name, lines, start) ==
  {last \in start..(start + 2) : /\ last <= Len(lines)
                                 /\ Mentions(Window(lines, start, last), name)}

Occurrences(name, lines) ==
  {[priority |-> Priority(name, Window(lines, start - 1,
                                       Min(Ends(name, lines, start)) + 1)),
    line |-> start] :
     start \in {s \in 1..Len(lines) : Ends(name, lines, s) # {}}}

\* The highest priority, and the first line among those that have it.
NameContext(name, lines) ==
  LET found == Occurrences(name, lines)
      best == {o \in found : \A p \in found : p.priority <= o.priority}
  IN IF found = {} THEN NoOccurrence
     ELSE CHOOSE o \in best : \A p \in best : o.line <= p.line

(***************************************************************************)
(* _score_rule: one rule against a text.  A rule is the correspondent's    *)
(* matching rule with its algorithm, or its name (algorithm 0).  Whether   *)
(* the search for an expression fails in this text comes with the question *)
(* (fails): the code says nothing about the time a search takes.           *)
(***************************************************************************)
Verdict(score, priority, line, source) ==
  [score |-> score, priority |-> priority, line |-> line, source |-> source]

Rejected(source) == Verdict(0, 1, NoLine, source)

FirstLine(lines, Test(_)) ==
  LET hits == {i \in 1..Len(lines) : Test(lines[i])}
  IN IF hits = {} THEN NoLine ELSE Min(hits)

\* Algorithm 4 searches the text as it is written, whose blank lines count, and with
\* is_insensitive without regard to upper case.  An invalid expression, and a search
\* that takes too long, find nothing.
Finds(rule, insensitive, line) ==
  IF insensitive THEN Mentions(Normal(line), Normal(rule)) ELSE Mentions(line, rule)

ScoreExpression(rule, insensitive, fails, text) ==
  LET first == FirstLine(text, LAMBDA line : Finds(rule, insensitive, line))
  IN IF fails \/ first = NoLine THEN Rejected("matching_rule")
     ELSE Verdict(100, 1, first, "matching_rule")

\* Algorithms 1 (any word), 2 (every word) and 3 (the phrase).
ScoreWords(rule, algorithm, lines) ==
  LET whole == FlattenSeq(lines)
      matches == Cardinality({i \in DOMAIN rule : Mentions(whole, <<rule[i]>>)})
      score == CASE algorithm = 3 -> IF Mentions(whole, rule) THEN 100 ELSE 0
                 [] algorithm = 2 -> IF matches = Len(rule) THEN 100 ELSE 0
                 [] OTHER -> (100 * matches) \div Len(rule)
  IN Verdict(score, 1,
             FirstLine(lines, LAMBDA l : \E w \in Words(rule) : Mentions(l, <<w>>)),
             "matching_rule")

\* Every other rule, and a name that is nowhere whole: the most similar line.
FirstGreatest(scores) ==
  Min({i \in DOMAIN scores : \A j \in DOMAIN scores : scores[j] <= scores[i]})

BestLine(scores, source) ==
  IF scores = <<>> THEN Rejected(source)
  ELSE Verdict(scores[FirstGreatest(scores)], 1, FirstGreatest(scores), source)

ScoreSimilar(rule, lines, source) ==
  BestLine([i \in DOMAIN lines |->
              LineScore(rule, lines[i], source = "correspondent_name")], source)

ScoreRule(c, text) ==
  IF c.algorithm = 4 THEN ScoreExpression(c.match, c.insensitive, c.fails, text)
  ELSE IF c.algorithm \in {1, 2, 3} THEN ScoreWords(Normal(c.match), c.algorithm, Lines(text))
  ELSE ScoreSimilar(Normal(c.match), Lines(text), "matching_rule")

NameVerdict(context) ==
  Verdict(100, context.priority, context.line, "correspondent_name")

ScoreName(name, lines) ==
  IF Mentions(FlattenSeq(lines), name) THEN NameVerdict(NameContext(name, lines))
  ELSE ScoreSimilar(name, lines, "correspondent_name")

(***************************************************************************)
(* match_correspondent.  Claims are compared by score, priority, line and  *)
(* the length of the rule that made them; equal claims choose nobody.      *)
(***************************************************************************)
Claim(verdict, value) ==
  [score |-> verdict.score, priority |-> verdict.priority,
   line |-> verdict.line, size |-> Size(value)]

NameClaims(verdict, name) ==
  IF verdict.score >= MinimumNameScore /\ verdict.priority # 0
  THEN {Claim(verdict, name)} ELSE {}

RuleClaims(verdict, rule) ==
  IF verdict.score >= MinimumScore THEN {Claim(verdict, rule)} ELSE {}

Claims(c, text) ==
  NameClaims(ScoreName(MatchName(c.name), Lines(text)), MatchName(c.name))
    \cup (IF c.match = <<>> THEN {} ELSE RuleClaims(ScoreRule(c, text), c.match))

\* A changed comparison that looks at the line before the priority.
PrecedesByLine(a, b) ==
  \/ a.score > b.score
  \/ a.score = b.score /\ a.line < b.line
  \/ a.score = b.score /\ a.line = b.line /\ a.priority > b.priority
  \/ /\ a.score = b.score /\ a.line = b.line /\ a.priority = b.priority
     /\ a.size > b.size

Precedes(a, b) ==
  \/ a.score > b.score
  \/ a.score = b.score /\ a.priority > b.priority
  \/ a.score = b.score /\ a.priority = b.priority /\ a.line < b.line
  \/ /\ a.score = b.score /\ a.priority = b.priority /\ a.line = b.line
     /\ a.size > b.size

Strongest(claims) == CHOOSE a \in claims : \A b \in claims \ {a} : ~Precedes(b, a)

\* The claims of each correspondent of the list, none for the stand-in.
ClaimsOn(text, correspondents) ==
  [i \in DOMAIN correspondents |->
     IF IsDefault(correspondents[i].name) THEN {} ELSE Claims(correspondents[i], text)]

\* The places in the list of the claims that no other one precedes.
Unpreceded(claim) ==
  {i \in DOMAIN claim : \A j \in DOMAIN claim : ~Precedes(claim[j], claim[i])}

Winners(claims) ==
  Unpreceded([i \in {k \in DOMAIN claims : claims[k] # {}} |-> Strongest(claims[i])])

\* A changed choice that takes the first listed of equal claims.
MatchFirstListed(text, correspondents) ==
  LET best == Winners(ClaimsOn(text, correspondents))
  IN IF best = {} THEN Nobody ELSE correspondents[Min(best)].id

MatchCorrespondent(text, correspondents) ==
  LET best == Winners(ClaimsOn(text, correspondents))
  IN IF Cardinality(best) # 1 THEN Nobody
     ELSE correspondents[CHOOSE i \in best : TRUE].id

=============================================================================
