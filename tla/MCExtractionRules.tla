-------------------------- MODULE MCExtractionRules --------------------------
(***************************************************************************)
(* Bounded questions for ExtractionRules: short texts over a few lines and *)
(* directories of up to three correspondents, two patterns (of up to two   *)
(* findings and of one), several notations, templates of three parts.      *)
(***************************************************************************)
EXTENDS ExtractionRules

McCompanyForms == {"gmbh"}
McAuthorityWords == {"amtsgericht"}
McNonDistinctive == {"gmbh"}
McInternalNumbers == {"4711"}
McSenderMarkers == {<<"absender">>}
McReferenceMarkers == {<<"handelsregister">>, <<"hra">>}
McLegalMarkers == {<<"ustid">>}
McDefaultNames == {<<"noch", "nicht", "angelegt">>}

Vocabulary == {"bau", "gmbh", "amtsgericht", "ulm", "4711", "absender",
               "handelsregister", "ustid", "rechnung", "noch", "nicht", "angelegt",
               "ulmer", "neubau", "hra", "uhrarmband", "Ulm"}
McLetters == [w \in Vocabulary |-> IF w \in {"ulm", "Ulm", "bau"} THEN 3 ELSE 6]
McFolded == [w \in Vocabulary |-> IF w = "Ulm" THEN "ulm" ELSE w]

\* Substrings: of the beginning, the end and the middle of a word.
Itself == {<<w, w>> : w \in Vocabulary}
McPrefixOf == Itself \cup {<<"ulm", "ulmer">>}
McSuffixOf == Itself \cup {<<"bau", "neubau">>}
McPartOf == McPrefixOf \cup McSuffixOf \cup {<<"hra", "uhrarmband">>}

Bau == <<"bau", "gmbh">>
BauNumbered == <<"4711", "bau", "gmbh">>
Court == <<"amtsgericht", "ulm">>
City == <<"ulm">>

LineSet == {Bau, <<"bau">>, <<"gmbh">>, <<"handelsregister", "amtsgericht", "ulm">>,
            <<"absender">>, <<"absender", "bau", "gmbh">>, <<"ustid">>, <<"ulmer">>,
            <<"neubau", "gmbh">>, <<"uhrarmband", "rechnung">>, <<"Ulm">>, <<>>}

\* Texts of up to three lines, and some of six.
McTexts ==
  UNION {[1..n -> LineSet] : n \in 0..3}
  \cup {<<a, b, <<"rechnung">>, c, <<"rechnung">>, d>> :
           a, b, c, d \in {Bau, <<"ulm">>, <<"absender">>, <<"absender", "bau", "gmbh">>,
                          <<"rechnung">>}}

Entry(id, name, match, algorithm) ==
  [id |-> id, name |-> name, match |-> match, algorithm |-> algorithm,
   insensitive |-> TRUE, fails |-> FALSE]
Expression(id, insensitive, fails) ==
  [id |-> id, name |-> Bau, match |-> <<"ulm">>, algorithm |-> 4,
   insensitive |-> insensitive, fails |-> fails]

McDirectories ==
  { <<Entry("c1", Bau, <<>>, 0), Entry("c2", Court, <<>>, 0)>>,
    <<Entry("c1", BauNumbered, <<>>, 0), Entry("c2", City, <<>>, 0)>>,
    <<Entry("c1", Bau, <<>>, 6), Entry("c2", City, <<>>, 0), Entry("c3", Bau, <<>>, 6)>>,
    <<Entry("c1", City, Bau, 3), Entry("c2", Court, <<"ulm">>, 4)>>,
    <<Entry("c1", Court, <<"rechnung", "ulm">>, 1), Entry("c2", City, <<"bau", "ulm">>, 2),
      Entry("c3", <<"noch", "nicht", "angelegt">>, <<"rechnung">>, 3)>>,
    <<Entry("c1", Court, <<"rechnung", "gmbh">>, 6), Entry("c2", Bau, <<>>, 0)>> }
  \cup {<<Expression("c1", insensitive, FALSE), Expression("c2", FALSE, fails)>> :
           insensitive, fails \in BOOLEAN}

-----------------------------------------------------------------------------
\* 9, -9, (9), -(9), (-9) or EUR -9, 9-, (9) EUR
NoSign == Sign(FALSE, FALSE, FALSE, "none")
Minus == Sign(TRUE, FALSE, FALSE, "none")
Brackets == Sign(FALSE, FALSE, FALSE, "around")
MinusBrackets == Sign(TRUE, FALSE, FALSE, "around")
MinusWithin == Sign(FALSE, TRUE, FALSE, "around")
MinusBehind == Sign(FALSE, FALSE, TRUE, "none")
BracketsInside == Sign(FALSE, FALSE, FALSE, "inside")

\* Groups of digits with marks between them.
InGroups(sign, groups, marks) ==
  Written(sign, FlattenSeq(groups),
          [i \in DOMAIN marks |->
             [mark |-> marks[i], at |-> Len(FlattenSeq(SubSeq(groups, 1, i)))]])

Euro(sign, whole, mark, fraction) == InGroups(sign, <<whole, fraction>>, <<mark>>)

Field(type, profile, ai) ==
  [type |-> type, profile |-> profile, types |-> {}, ocr |-> TRUE, ai |-> ai,
   required |-> TRUE, target |-> TRUE]

AmountFields ==
  {Field("money", "none", TRUE), Field("money", "amount", FALSE),
   Field("money", "amount", TRUE)}
TextFields ==
  {Field("number", "none", TRUE), Field("text", "vehicle", TRUE),
   Field("text", "deliveryNote", TRUE), Field("text", "account", TRUE),
   [Field("text", "deliveryNote", TRUE) EXCEPT !.types = {"Lieferschein"}],
   [Field("text", "account", TRUE) EXCEPT !.ocr = FALSE]}

FoundValues ==
  {Euro(NoSign, <<9>>, "comma", <<0, 0>>), Euro(Minus, <<1, 2>>, "comma", <<0, 0>>),
   Euro(NoSign, <<1, 2>>, "point", <<0>>), Euro(MinusWithin, <<5>>, "comma", <<0, 0>>),
   Euro(MinusBehind, <<1, 5>>, "comma", <<0, 0>>),
   InGroups(NoSign, <<<<1>>, <<2>>, <<3>>>>, <<"comma", "comma">>)}
SuggestedValues ==
  {Euro(MinusWithin, <<5>>, "comma", <<0, 0>>), Euro(Brackets, <<9>>, "comma", <<0, 0>>),
   Euro(NoSign, <<9, 9>>, "comma", <<0, 0>>), Euro(BracketsInside, <<7>>, "comma", <<0, 0>>)}
\* Two spellings of one text, another one, and one the validators reject.
FoundTexts == {Text("LS 1", "LS1"), Text("LS1", "LS1"), Text("LS2", "LS2"), Text("Datum", Unfit)}

UpToOne(values, offset) ==
  {<<>>} \cup {<<[offset |-> offset, value |-> v]>> : v \in values}
UpToTwo(values, offset) ==
  UpToOne(values, offset)
    \cup {<<[offset |-> offset, value |-> v], [offset |-> 7, value |-> w]>> :
              v, w \in values}
Suggestions(values) ==
  {<<>>} \cup {<<[value |-> v, confidence |-> c]>> : v \in values, c \in {40, 90}}

Questions(fields, notes, found, suggested) ==
  {[field |-> f, documentType |-> "Rechnung", creditNote |-> n,
    hits |-> <<h, g>>, suggestions |-> s] :
      f \in fields, n \in notes, h \in UpToTwo(found, 1), g \in UpToOne(found, 2),
      s \in Suggestions(suggested)}

McFieldQuestions ==
  Questions(AmountFields, BOOLEAN, FoundValues, SuggestedValues)
    \cup Questions(TextFields, {FALSE}, FoundTexts, FoundTexts)

-----------------------------------------------------------------------------
DigitsOf(n) ==
  IF n >= 1000 THEN <<n \div 1000, (n \div 100) % 10, (n \div 10) % 10, n % 10>>
  ELSE IF n >= 100 THEN <<n \div 100, (n \div 10) % 10, n % 10>>
  ELSE IF n >= 10 THEN <<n \div 10, n % 10>> ELSE <<n>>
Padded(n, width) == [i \in 1..width |-> (n \div 10 ^ (width - i)) % 10]

\* The euros of an amount below ten million, in groups of three or in one.
Grouped(n) ==
  IF n >= 1000000
  THEN <<DigitsOf(n \div 1000000), Padded((n \div 1000) % 1000, 3), Padded(n % 1000, 3)>>
  ELSE IF n >= 1000 THEN <<DigitsOf(n \div 1000), Padded(n % 1000, 3)>> ELSE <<DigitsOf(n)>>
Plain(n) == IF n >= 10000 THEN <<DigitsOf(n \div 10000) \o Padded(n % 10000, 4)>>
            ELSE <<DigitsOf(n)>>

Marks(groups, mark) == [i \in 1..(Len(groups) - 1) |-> mark]
WithCents(sign, groups, thousands, decimal, cents) ==
  InGroups(sign, Append(groups, Padded(cents, 2)),
           Append(Marks(groups, thousands), decimal))

Notations(sign, euros, cents) ==
  {WithCents(sign, groups, marks[1], marks[2], cents) :
     groups \in {Grouped(euros), Plain(euros)},
     marks \in {<<"point", "comma">>, <<"comma", "point">>}}
  \cup (IF cents = 0 THEN {InGroups(sign, Grouped(euros), Marks(Grouped(euros), "point")),
                           InGroups(sign, Plain(euros), <<>>)} ELSE {})

McAmountLimit == 100000000
McAmounts ==
  UNION {{[written |-> w, cents |-> IF s = NoSign THEN 100 * e + c ELSE -(100 * e + c)] :
             w \in Notations(s, e, c)} :
           s \in Signs,
           e \in {0, 7, 42, 100, 999, 1000, 1234, 20050, 999999, 1234567}, c \in {0, 5, 50, 99}}

-----------------------------------------------------------------------------
McPlaceholders == {"title", "invoice_number", "correspondent"}
McMaxTitleLength == 6
McMaxValueLength == 5
McMaxTemplateLength == 7
McMaxRuns == 8

Parts == {Placeholder("title"), Placeholder("invoice_number"), Literal(<<"-">>),
          Literal(<<" ", "/", " ">>), Literal(<<"r">>), Placeholder("unknown"), Literal(<<"{">>)}
McCharacters == EdgeSeparators \cup Braces \cup {"a", "b", "c", "r", "1"}
McTemplates == UNION {[1..n -> Parts] : n \in 0..3}
McTitleQuestions ==
  {[template |-> t, title |-> s,
    values |-> [p \in {"invoice_number"} |-> n]] :
      t \in McTemplates, s \in {<<>>, <<"a">>, <<"a", " ", "b">>, <<"a", "-", "b", " ", ",", "c">>},
      n \in {<<>>, <<"1">>, <<"-", "1", "/">>}}
=============================================================================
