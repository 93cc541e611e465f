--------------------------- MODULE ExtractionRules ---------------------------
(***************************************************************************)
(* The rules a run of the orchestrator applies to the text of a document,  *)
(* each as a question and its answer: the correspondent the text names,    *)
(* the value of a field, the amount a piece of text stands for, and the    *)
(* titles that repeated runs write from one template.  The control of a    *)
(* run around the rules is DocumentProcessing.                             *)
(***************************************************************************)
EXTENDS CorrespondentMatching, ValueSelection, TitleTemplate

CONSTANTS
  Texts,          \* the texts in which a correspondent is looked up
  Directories,    \* lists of correspondents as Paperless returns them
  FieldQuestions, \* a field with what its providers find
  Amounts,        \* [written, cents]: what was meant by a piece of text
  Characters,     \* of which titles and templates consist
  TitleQuestions, \* a template, extracted values and the title before
  MaxRuns,        \* runs of one document with the title overwritten each time
  Pending         \* no answer yet

\* A directory lists correspondents of Paperless by their primary keys, each with what
\* becomes of the search for its expression.
ASSUME DirectoryAssumption ==
  \A d \in Directories :
    /\ d \in Seq(Range(d))
    /\ \A k \in DOMAIN d : d[k].id # Nobody
    /\ \A k, l \in DOMAIN d : k # l => d[k].id # d[l].id

\* Texts are lists of lines, and names lists of words.
ASSUME TextAssumption ==
  /\ \A t \in Texts : t \in Seq(Phrases)
  /\ \A d \in Directories : \A k \in DOMAIN d : d[k].name \in Phrases

\* An amount is written with two digits behind the last mark and the other marks, if
\* any, of the other kind, or in full, with a point before each three digits or with none.
HasCents(written) ==
  LET n == Len(written.marks)
  IN /\ n > 0 /\ Len(written.digits) > 2
     /\ written.marks[n].at = Len(written.digits) - 2
     /\ \A i \in 1..(n - 1) : written.marks[i].mark # written.marks[n].mark

InFull(written) ==
  LET n == Len(written.marks)
  IN \A i \in 1..n : /\ written.marks[i].mark = "point"
                     /\ written.marks[i].at = Len(written.digits) - 3 * (n + 1 - i)
                     /\ written.marks[i].at \in 1..(3 * i)

Unsigned(sign) == sign = Sign(FALSE, FALSE, FALSE, "none")

\* What the writer of an amount means by its digits and by any minus or brackets.
Meant(written) ==
  LET cents == IF HasCents(written) THEN Number(written.digits) ELSE 100 * Number(written.digits)
  IN IF Unsigned(written.sign) THEN cents ELSE -cents

ASSUME AmountAssumption ==
  \A a \in Amounts :
    /\ IsWritten(a.written)
    /\ a.written.digits # <<>>
    /\ HasCents(a.written) \/ InFull(a.written)
    /\ a.cents = Meant(a.written)

\* A question about a field lists what each pattern and the model have found; no
\* pattern has the number that stands for none.
IsList(s) == s \in Seq(Range(s))

AreFindings(hits) ==
  IsList(hits) /\ Len(hits) < NoPattern /\ \A p \in DOMAIN hits : IsList(hits[p])

ASSUME FieldQuestionAssumption ==
  \A q \in FieldQuestions :
    /\ q = [field |-> q.field, documentType |-> q.documentType, creditNote |-> q.creditNote,
            hits |-> q.hits, suggestions |-> q.suggestions]
    /\ q.creditNote \in BOOLEAN
    /\ AreFindings(q.hits)
    /\ IsList(q.suggestions)
    /\ q.field.profile = "amount" =>
         \A x \in Places(q.hits) : IsWritten(Hit(q.hits, x).value)

ASSUME TitleQuestionAssumption ==
  \A q \in TitleQuestions :
    /\ IsList(q.template)
    /\ \A k \in DOMAIN q.template : q.template[k].text \in Seq(Characters)
    /\ q.title \in Seq(Characters)
    /\ \A p \in DOMAIN q.values : q.values[p] \in Seq(Characters)

VARIABLES question, answer, runs

vars == <<question, answer, runs>>

Ask(kind, Questions) == {[kind |-> kind, of |-> q] : q \in Questions}

MatchQuestions == {[text |-> t, directory |-> d] : t \in Texts, d \in Directories}

Value(q) == ExtractedValue(q.field, q)

Init ==
  /\ question \in Ask("correspondent", MatchQuestions)
             \cup Ask("field", FieldQuestions)
             \cup Ask("amount", Amounts)
             \cup Ask("title", TitleQuestions)
  /\ answer = Pending
  /\ runs = 0

Unanswered(kind) == question.kind = kind /\ answer = Pending

Correspond ==
  /\ Unanswered("correspondent")
  /\ answer' = MatchCorrespondent(question.of.text, question.of.directory)
  /\ UNCHANGED <<question, runs>>

ExtractField ==
  /\ Unanswered("field")
  /\ answer' = Value(question.of)
  /\ UNCHANGED <<question, runs>>

Read ==
  /\ Unanswered("amount")
  /\ answer' = ReadAmount(question.of.written)
  /\ UNCHANGED <<question, runs>>

TitleNow == IF answer = Pending THEN question.of.title ELSE answer

WriteTitle ==
  /\ question.kind = "title"
  /\ runs < MaxRuns
  /\ answer' = NextTitle(question.of.template, question.of.values, TitleNow)
  /\ runs' = runs + 1
  /\ UNCHANGED question

Next == Correspond \/ ExtractField \/ Read \/ WriteTitle

Spec == Init /\ [][Next]_vars

Answered(kind) == question.kind = kind /\ answer # Pending

-----------------------------------------------------------------------------
(* The correspondent. *)

MatchedLines == Lines(question.of.text)
Directory == question.of.directory

NamedOnly(c) == c.match = <<>>

\* A line has a word of the name, whole or within a longer one.
Touches(line, name) == \E w \in Words(name) : Mentions(line, <<w>>)

\* A name that the text has, within three lines, but only in references to registers,
\* courts or cases, with no sender or imprint anywhere, is never the correspondent
\* (_name_context and match_correspondent in matcher.py): the spelling alone
\* proves nothing.
CourtsAreNoSenders ==
  Answered("correspondent") =>
    \A k \in DOMAIN Directory :
      LET name == MatchName(Directory[k].name)
      IN (/\ NamedOnly(Directory[k])
          /\ \E i \in DOMAIN MatchedLines : Mentions(Window(MatchedLines, i, i + 2), name)
          /\ ~MentionsAny(FlattenSeq(MatchedLines), SenderMarkers \cup LegalMarkers)
          /\ \A i \in DOMAIN MatchedLines :
                Touches(MatchedLines[i], name) =>
                   MentionsAny(MatchedLines[i], ReferenceMarkers))
         => answer # Directory[k].id

\* A correspondent whose name shares a line with a sender's phrase is never
\* passed over for one whose name is far from every such phrase, wherever in the
\* text the two stand and however long their names are (_name_context).
SenderIsNotPassedOver ==
  Answered("correspondent") =>
    \A k, l \in DOMAIN Directory :
      LET name(i) == MatchName(Directory[i].name)
          around(i) == Window(MatchedLines, i - 3, i + 1)
      IN (/\ NamedOnly(Directory[k]) /\ NamedOnly(Directory[l])
          /\ ~IsDefault(Directory[k].name)
          /\ \E i \in DOMAIN MatchedLines :
                /\ Mentions(MatchedLines[i], name(k))
                /\ MentionsAny(MatchedLines[i], SenderMarkers)
          /\ \A i \in DOMAIN MatchedLines :
                Touches(MatchedLines[i], name(l)) =>
                   ~MentionsAny(around(i), SenderMarkers \cup LegalMarkers))
         => answer # Directory[l].id

\* Two entries of one name and rule: of two expressions, both or neither regard upper
\* case, and the search for both or neither fails.
SameRule(c, d) ==
  /\ c.name = d.name /\ c.match = d.match /\ c.algorithm = d.algorithm
  /\ c.algorithm = 4 => c.insensitive = d.insensitive /\ c.fails = d.fails

\* Two such entries claim a document equally: neither of them is chosen, in whatever
\* order Paperless lists them, rather than one at random (the tie in
\* match_correspondent).  When only one of two equal searches takes too long, the
\* other entry can be chosen.
EqualEntriesMatchNobody ==
  Answered("correspondent") =>
    \A k, l \in DOMAIN Directory :
      k # l /\ SameRule(Directory[k], Directory[l])
      => answer \notin {Directory[k].id, Directory[l].id}

-----------------------------------------------------------------------------
(* The value of a field. *)

Extracted == question.of
ByPriority(field) == GoesByPriority(Strategy(field))

\* A finding that the validators of its field accept.
Readable(finding) ==
  Normalized(Extracted.field,
             Cleaned(Extracted.field, finding.value, Extracted.creditNote)).accepted

\* What a weaker pattern or the language model adds to the readable findings of a
\* stronger pattern changes nothing about a field whose strategy goes by
\* priority (pattern_priority_* in Orchestrator.process): the value, or the conflict that
\* leaves none, is the same with everything weaker removed.
WeakerFindingsDoNotInterfere ==
  (Answered("field") /\ ByPriority(Extracted.field) /\ Extracted.field.ocr
     /\ InScope(Extracted.field, Extracted.documentType)) =>
    \A p \in DOMAIN Extracted.hits :
      (\E k \in DOMAIN Extracted.hits[p] : Readable(Extracted.hits[p][k])) =>
        answer = Value([Extracted EXCEPT !.hits = SubSeq(Extracted.hits, 1, p),
                                   !.suggestions = <<>>])

\* The language model fills gaps only: where the patterns alone give a value by
\* priority or by the first match, its suggestions neither replace that value nor
\* put it in doubt (runtime_config and Orchestrator.process).
ModelOnlyFillsGaps ==
  LET byPatterns == Value([Extracted EXCEPT !.suggestions = <<>>])
  IN (/\ Answered("field")
      /\ ByPriority(Extracted.field) \/ Strategy(Extracted.field) = "first"
      /\ byPatterns.found)
     => answer = byPatterns

\* A credit note is read like the invoice with the same figures, as a debt the
\* other way: the same total is chosen and its sign is negative, once
\* (negate_on_negative_context and pattern_priority_highest).  An amount with a
\* minus behind a bracket or a currency is the exception: the validator rejects a
\* second one.
CreditNoteMirrorsInvoice ==
  LET other == Value([Extracted EXCEPT !.creditNote = ~Extracted.creditNote])
  IN (/\ Answered("field")
      /\ Extracted.field.profile = "amount"
      /\ ~Extracted.field.ai
      /\ Extracted.creditNote
      /\ \A x \in Places(Extracted.hits) : ~Hit(Extracted.hits, x).value.sign.within)
     => /\ answer.found = other.found
        /\ answer.found => answer.value = -Absolute(other)

\* Brackets with a currency outside and no minus: these the validator overlooks.
BracketsOverlooked(sign) == sign.brackets = "inside" /\ ~sign.before /\ ~sign.within

\* An amount written the German way, the plain way or the English way with its
\* cents is never read as another amount than was meant: a sign that is not
\* understood, like a minus behind the digits, makes the value be refused and not
\* be taken for the amount without it.  With one minus in front, with brackets
\* around it or with neither it is not refused, as long as Decimal keeps its digits
\* (the validator monetary_amount).  Brackets inside of a currency are the
\* exception: "(9,00) EUR" is read as nine euros.
AmountsReadRight ==
  LET sign == question.of.written.sign
  IN (Answered("amount") /\ (sign.behind \/ ~BracketsOverlooked(sign))) =>
       /\ answer.accepted => answer.value = question.of.cents
       /\ (/\ ~sign.behind /\ ~(sign.before /\ sign.within)
           /\ question.of.cents \in (-AmountLimit + 1)..(AmountLimit - 1))
          => answer.accepted

-----------------------------------------------------------------------------
(* The title. *)

\* Two separators of a text have something else than blanks between them.
Spaced(text) ==
  \A i, j \in DOMAIN text :
    (/\ i < j
     /\ {text[i], text[j]} \subseteq Separators)
    => \E k \in i..j : text[k] \notin EdgeSeparators

\* A title from a template fits, does not begin or end with a separator and has
\* no two separators side by side, also when values are missing or the length
\* cuts it (render_title).
TitleIsClean ==
  (Answered("title") /\ ValidTemplate(question.of.template)
     /\ question.of.template # <<>> /\ answer # question.of.title) =>
    /\ Len(answer) <= MaxTitleLength
    /\ answer = StripEdges(answer)
    /\ Spaced(answer)

\* With allow_title_overwrite each run writes the title again, and a template
\* that contains the title makes it longer; the length limit ends this: after as
\* many runs as a title has characters, another run changes nothing.
TitleSettles ==
  (Answered("title") /\ runs >= MaxTitleLength) =>
    NextTitle(question.of.template, question.of.values, answer) = answer

=============================================================================
