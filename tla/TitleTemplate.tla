---------------------------- MODULE TitleTemplate ----------------------------
(***************************************************************************)
(* The title of a document from a template (src/core/paperless/            *)
(* title_template.py).  A text is a sequence of characters of which only   *)
(* separators and blanks are told apart from the others; a template is a   *)
(* sequence of parts, each a literal text or a placeholder.                *)
(***************************************************************************)
EXTENDS Integers, Sequences, SequencesExt, FiniteSetsExt, Subsequence

CONSTANTS
  Placeholders,     \* ALLOWED_PLACEHOLDERS
  MaxTitleLength,   \* MAX_TITLE_LENGTH
  MaxValueLength,   \* _MAX_VALUE_LENGTH
  MaxTemplateLength \* MAX_TEMPLATE_LENGTH

ASSUME LengthsAssumption ==
  /\ MaxTitleLength \in Nat
  /\ MaxValueLength \in Nat

Separators == {",", ";", "/", "-"}
EdgeSeparators == Separators \cup {" "}
Braces == {"{", "}"}

Literal(text) == [placeholder |-> "", text |-> text]
Placeholder(name) == [placeholder |-> name, text |-> <<>>]
IsLiteral(part) == part.placeholder = ""

\* validate_template.  A placeholder counts as two characters here.
PartLength(part) == IF IsLiteral(part) THEN Len(part.text) ELSE 2

ValidTemplate(template) ==
  /\ FoldLeft(LAMBDA n, part : n + PartLength(part), 0, template) <= MaxTemplateLength
  /\ \A i \in DOMAIN template :
        IF IsLiteral(template[i]) THEN Range(template[i].text) \cap Braces = {}
        ELSE template[i].placeholder \in Placeholders

\* A run of separators, with blanks among them, shrinks to its first separator.
InRunAfterFirst(text, i) ==
  LET only(a, b) == \A k \in a..b : text[k] \in EdgeSeparators
  IN /\ \E a \in 1..(i - 1) : text[a] \in Separators /\ only(a, i)
     /\ \E b \in i..Len(text) : text[b] \in Separators /\ only(i, b)

CollapseSeparators(text) ==
  Kept(text, {i \in DOMAIN text : ~InRunAfterFirst(text, i)})

CollapseBlanks(text) ==
  Kept(text, {i \in DOMAIN text : ~(text[i] = " " /\ i > 1 /\ text[i - 1] = " ")})

StripEnd(text) ==
  LET inner == {i \in DOMAIN text : text[i] \notin EdgeSeparators}
  IN IF inner = {} THEN <<>> ELSE SubSeq(text, 1, Max(inner))

StripEdges(text) ==
  LET inner == {i \in DOMAIN text : text[i] \notin EdgeSeparators}
  IN IF inner = {} THEN <<>> ELSE SubSeq(text, Min(inner), Max(inner))

Cleanup(text) == StripEdges(CollapseBlanks(CollapseSeparators(text)))

\* A changed cut that counts two characters as one.
TruncateWide(text, length) ==
  SubSeq(text, 1, IF Len(text) < 2 * length THEN Len(text) ELSE 2 * length)

Truncate(text, length) == SubSeq(text, 1, IF Len(text) < length THEN Len(text) ELSE length)

\* render_title: context gives every placeholder its text, empty when unknown.
Substituted(template, context) ==
  FlattenSeq([i \in DOMAIN template |->
    IF IsLiteral(template[i]) THEN template[i].text
    ELSE Truncate(context[template[i].placeholder], MaxValueLength)])

\* A changed rendering that does not clean the end after the cut.
RenderTitleCutLast(template, context) ==
  Truncate(Cleanup(Substituted(template, context)), MaxTitleLength)

RenderTitle(template, context) ==
  StripEnd(Truncate(Cleanup(Substituted(template, context)), MaxTitleLength))

\* The title rule of a run: an invalid template falls back to the number of the
\* invoice, which no template and an empty context leave as the only title.
\* A document without a new title keeps the one it has.
RuleTitle(template, context) ==
  IF template # <<>> /\ ValidTemplate(template) THEN RenderTitle(template, context)
  ELSE context["invoice_number"]

\* _build_title_context: the title the document has now is part of the context.
TitleContext(title, values) ==
  [p \in Placeholders |-> IF p = "title" THEN title
                          ELSE IF p \in DOMAIN values THEN values[p] ELSE <<>>]

\* One run with allow_title_overwrite: write_title replaces the title unless the
\* new one is empty.
NextTitle(template, values, title) ==
  LET new == RuleTitle(template, TitleContext(title, values))
  IN IF new = <<>> THEN title ELSE new

=============================================================================
