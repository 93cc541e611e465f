--------------------------- MODULE ValueSelection ---------------------------
(***************************************************************************)
(* How a field of the configuration gets its value: the candidates of the  *)
(* providers, the validation of each and the choice among the valid ones.  *)
(* The text of a document is abstracted to what a provider finds in it; a  *)
(* field is the entry of the runtime configuration                         *)
(* (src/core/field_config/service.py).  Confidences are percents.          *)
(***************************************************************************)
EXTENDS Integers, Sequences, SequencesExt, FiniteSetsExt

\* The least number of cents with more digits than Decimal keeps: 10^28 in the code.
CONSTANT AmountLimit

ASSUME AmountLimitAssumption == AmountLimit \in Nat

(***************************************************************************)
(* An amount as it is written: its digits, the marks with the number of    *)
(* digits before each, and a sign.  A minus stands at the very beginning   *)
(* (before), behind a bracket or a currency but in front of the digits     *)
(* (within), or behind a digit (behind).  Brackets are the first and the   *)
(* last character (around) or have a currency or a word outside (inside).  *)
(***************************************************************************)
Sign(before, within, behind, brackets) ==
  [before |-> before, within |-> within, behind |-> behind, brackets |-> brackets]

Signs ==
  [before : BOOLEAN, within : BOOLEAN, behind : BOOLEAN,
   brackets : {"none", "around", "inside"}]

Written(sign, digits, marks) == [sign |-> sign, digits |-> digits, marks |-> marks]

IsWritten(written) ==
  /\ written = Written(written.sign, written.digits, written.marks)
  /\ written.sign \in Signs
  /\ written.digits \in Seq(0..9)
  /\ written.marks \in Seq([mark : {"comma", "point"}, at : 0..Len(written.digits)])

Number(digits) ==
  LET read[n \in 0..Len(digits)] == IF n = 0 THEN 0 ELSE 10 * read[n - 1] + digits[n]
  IN read[Len(digits)]

\* The sign ValidationEngine reads: brackets count when the text begins and ends with
\* them.  A minus behind a digit, or a second one, is left in the text: no number.
Negative(sign) == sign.before \/ sign.within \/ sign.brackets = "around"
Misplaced(sign) == sign.behind \/ (sign.before /\ sign.within)

MarkKinds(written) == {written.marks[i].mark : i \in DOMAIN written.marks}

\* The mark that separates the fraction: the last of two kinds, a comma, or a
\* point unless every group of digits after the first has three.
ThousandsOnly(written) ==
  LET at == [i \in DOMAIN written.marks |-> written.marks[i].at] \o <<Len(written.digits)>>
  IN /\ MarkKinds(written) = {"point"}
     /\ at[1] \in 1..3
     /\ \A i \in DOMAIN written.marks : at[i + 1] = at[i] + 3

\* A changed reading that takes every single kind of mark for the decimal mark.
DecimalMarkAlways(written) ==
  CASE MarkKinds(written) = {"comma", "point"} -> Last(written.marks).mark
    [] MarkKinds(written) = {"comma"} -> "comma"
    [] OTHER -> "point"

DecimalMark(written) ==
  CASE MarkKinds(written) = {"comma", "point"} -> Last(written.marks).mark
    [] MarkKinds(written) = {"comma"} -> "comma"
    [] ThousandsOnly(written) -> "none"
    [] OTHER -> "point"

\* quantize(Decimal("0.01")): the even neighbour when it lies between two.
Cents(whole, fraction) ==
  LET digit(i) == IF i <= Len(fraction) THEN fraction[i] ELSE 0
      more == \E i \in 4..Len(fraction) : fraction[i] # 0
      roundsUp == digit(3) > 5 \/ (digit(3) = 5 /\ (more \/ digit(2) % 2 = 1))
  IN 100 * Number(whole) + 10 * digit(1) + digit(2) + (IF roundsUp THEN 1 ELSE 0)

\* What a validator answers: the normal form of the value, here an amount in
\* cents, or a reason.
NotAccepted == [accepted |-> FALSE]
Accepted(value) == [accepted |-> TRUE, value |-> value]

\* The digits before the decimal mark are the whole, those after it the fraction.
DecimalMarks(written) ==
  {i \in DOMAIN written.marks : written.marks[i].mark = DecimalMark(written)}

ReadSplit(written, marks) ==
  LET digits == written.digits
      split == IF marks = {} THEN Len(digits) ELSE written.marks[CHOOSE i \in marks : TRUE].at
      cents == Cents(SubSeq(digits, 1, split), SubSeq(digits, split + 1, Len(digits)))
  IN IF \/ Misplaced(written.sign)
        \/ Cardinality(marks) > 1
        \/ digits = <<>>
        \/ cents >= AmountLimit
     THEN NotAccepted
     ELSE Accepted(IF Negative(written.sign) THEN -cents ELSE cents)

\* The validator monetary_amount.
ReadAmount(written) == ReadSplit(written, DecimalMarks(written))

(***************************************************************************)
(* Any other value is a text with what the validators of its field make of *)
(* it: its normal form (an IBAN without spaces, in capitals), or Unfit.    *)
(***************************************************************************)
Unfit == "unfit"
Text(spelling, normal) == [spelling |-> spelling, normal |-> normal]

IsMonetary(field) ==
  field.profile = "amount" \/ (field.profile = "none" /\ field.type = "money")

Normalized(field, value) ==
  IF IsMonetary(field) THEN ReadAmount(value)
  ELSE IF value.normal = Unfit THEN NotAccepted ELSE Accepted(value.normal)

(***************************************************************************)
(* The providers.  A candidate has a place: the pattern that found it, and *)
(* its number among the findings of that pattern.  Patterns are asked in   *)
(* their order and before the language model, whose candidates have no     *)
(* pattern: 2**31 in the code.                                             *)
(***************************************************************************)
NoPattern == 2147483647

Candidate(place, value, confidence) ==
  [place |-> place, value |-> value, confidence |-> confidence]

Before(x, y) == x[1] < y[1] \/ (x[1] = y[1] /\ x[2] < y[2])

\* A value in a credit note gets a minus unless it begins with one.
Negated(written) == [written EXCEPT !.sign = [written.sign EXCEPT !.before = TRUE]]

Cleaned(field, written, creditNote) ==
  IF creditNote /\ field.profile = "amount" THEN Negated(written) ELSE written

\* hits[p] are the matches of pattern p in the order of the text.
Places(hits) == UNION {{p} \X DOMAIN hits[p] : p \in DOMAIN hits}
Hit(hits, x) == hits[x[1]][x[2]]

\* RegexExtractionProvider.extract: a value found before at the same offset is
\* not repeated.
FoundValue(field, hits, creditNote, x) == Cleaned(field, Hit(hits, x).value, creditNote)

Alike(field, hits, creditNote, x, y) ==
  /\ Hit(hits, x).offset = Hit(hits, y).offset
  /\ FoundValue(field, hits, creditNote, x) = FoundValue(field, hits, creditNote, y)

RegexCandidates(field, hits, creditNote) ==
  {Candidate(x, FoundValue(field, hits, creditNote, x), 95) :
     x \in {y \in Places(hits) : ~\E z \in Places(hits) :
                                   Before(z, y) /\ Alike(field, hits, creditNote, z, y)}}

\* A changed default that ranks candidates without a pattern before the others.
ModelCandidatesFirst(suggestions) ==
  {Candidate(<<0, k>>, suggestions[k].value, suggestions[k].confidence) :
     k \in DOMAIN suggestions}

\* OllamaExtractionProvider.extract: one value the text contains, or none.
ModelCandidates(suggestions) ==
  {Candidate(<<NoPattern, k>>, suggestions[k].value, suggestions[k].confidence) :
     k \in DOMAIN suggestions}

\* A field may belong to some document types only.
InScope(field, documentType) ==
  field.types = {} \/ documentType \in field.types

\* The providers of a field as runtime_config lists them.
Candidates(field, question) ==
  IF ~InScope(field, question.documentType) THEN {}
  ELSE (IF field.ocr THEN RegexCandidates(field, question.hits, question.creditNote)
        ELSE {})
       \cup (IF field.ai THEN ModelCandidates(question.suggestions) ELSE {})

(***************************************************************************)
(* VALIDATE_RESULTS.  Valid candidates keep their places; the strategy of  *)
(* the field picks one of them or none.                                    *)
(***************************************************************************)
MinimumConfidence == 55

Valid(field, candidates) ==
  {Candidate(c.place, Normalized(field, c.value).value, c.confidence) :
     c \in {d \in candidates : /\ Normalized(field, d.value).accepted
                               /\ d.confidence >= MinimumConfidence}}

\* A changed strategy that treats the profile of amounts like any money field.
StrategyByType(field) ==
  CASE field.profile = "deliveryNote" -> "pattern_priority_unique"
    [] field.profile = "account" -> "unique"
    [] OTHER -> IF field.type = "money" THEN "highest" ELSE "first"

\* The strategy of runtime_config: a profile's own, else by the type of the field.
Strategy(field) ==
  CASE field.profile = "amount" -> "pattern_priority_highest"
    [] field.profile = "deliveryNote" -> "pattern_priority_unique"
    [] field.profile = "account" -> "unique"
    [] OTHER -> IF field.type = "money" THEN "highest" ELSE "first"

GoesByPriority(strategy) ==
  strategy \in {"pattern_priority_highest", "pattern_priority_unique"}

\* A changed selection that compares the candidates of all patterns.
ForemostOfAll(valid) == valid

Foremost(valid) == {c \in valid : \A d \in valid : c.place[1] <= d.place[1]}

Rivals(strategy, valid) == IF GoesByPriority(strategy) THEN Foremost(valid) ELSE valid

Agree(among) == \A c, d \in among : c.value = d.value

Absolute(c) == IF c.value < 0 THEN -c.value ELSE c.value

\* The key of Python's max: what a strategy compares, then the confidence.
Weight(strategy, c) ==
  CASE strategy = "highest" -> c.value
    [] strategy = "pattern_priority_highest" -> Absolute(c)
    [] OTHER -> 0

Exceeds(strategy, c, d) ==
  /\ strategy # "first"
  /\ \/ Weight(strategy, c) > Weight(strategy, d)
     \/ Weight(strategy, c) = Weight(strategy, d) /\ c.confidence > d.confidence

Greatest(strategy, among) == {c \in among : \A d \in among : ~Exceeds(strategy, d, c)}

First(among) == {c \in among : \A d \in among : ~Before(d.place, c.place)}

\* The winner, or nobody: the first of the greatest, or none when values conflict.
Select(strategy, valid) ==
  LET among == Rivals(strategy, valid)
  IN IF strategy \in {"pattern_priority_unique", "unique"} /\ ~Agree(among) THEN {}
     ELSE First(Greatest(strategy, among))

\* The value of a field: what extracted_by_key holds, or none.
NoValue == [found |-> FALSE]

Chosen(winners) ==
  IF winners = {} THEN NoValue
  ELSE LET winner == CHOOSE c \in winners : TRUE
       IN [found |-> TRUE, value |-> winner.value, pattern |-> winner.place[1]]

ExtractedValue(field, question) ==
  Chosen(Select(Strategy(field), Valid(field, Candidates(field, question))))

=============================================================================
