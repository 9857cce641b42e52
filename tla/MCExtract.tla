------------------------------- MODULE MCExtract -------------------------------
EXTENDS Extract

\* The longest texts, in lines: of lines of every kind, and of those a table is made of.
MaxLines == 3
MaxTableLines == 6

\* A heading may look like the key of another column without a slug.
MCSlugOf == [A |-> "a", B |-> "b", C |-> "col_1"] @@ ("7" :> "7") @@ ("?" :> "")
MCColumnKeys == <<"col_0", "col_1", "col_2", "col_3", "col_4">>

Plain(runes, bytes) ==
    [runes |-> runes, bytes |-> bytes, cells |-> <<>>, pair |-> <<>>, item |-> FALSE]
Row(cells) == [Plain(3, 3) EXCEPT !.cells = cells]
Pair(k, v) == [Plain(2, 2) EXCEPT !.pair = <<k, v>>]

Blank == Plain(0, 0)
Prose == Plain(1, 1)
Wide == Plain(2, 6)
Item == [Plain(2, 2) EXCEPT !.item = TRUE]
Lines ==
    {Blank, Prose, Wide, Item,
     Row(<<"A", "B">>), Row(<<"A", "", "A">>),
     Row(<<"7", "7">>), Row(<<"7", "A", "7">>), Row(<<"A">>),
     Pair("a", "x"), Pair("a", "y"), Pair("b", "x"), Pair("http", "x"),
     [Pair("c", "x") EXCEPT !.cells = <<"7", "B">>],
     [Pair("a", "z") EXCEPT !.bytes = 9]}

Trimmed(text) == text # <<>> => (~IsBlank(Head(text)) /\ ~IsBlank(Last(text)))
Texts(kinds, max) == UNION {{text \in [1 .. n -> kinds] : Trimmed(text)} : n \in 0 .. max}
TableKinds == {Blank, Prose, Row(<<"A", "", "A">>), Row(<<"7", "7">>)}

\* HTML tables: headings with the same key, without a key, with an empty cell below, rows
\* longer and shorter than the headings, a row and a table without a text.
HTMLTable1 ==
    <<<<"A", "?", "A", "C">>, <<"7", "A", "B", "">>, <<"", "">>, <<"7", "B", "", "A", "B">>,
      <<"A">>, <<"", "", "", "", "7">>>>
HTMLTable2 == <<<<"7", "7", "7">>, <<"7", "A">>>>
HTMLTable3 == <<<<"B", "A">>, <<"", "", "7">>>>
NoTable == <<<<"">>>>

HTMLs == {<<>>, <<NoTable>>, <<HTMLTable1>>, <<NoTable, HTMLTable3, HTMLTable2>>}

Others ==
    {<<>>, <<Wide, Pair("a", "x")>>, <<Row(<<"A", "B">>), Prose, Row(<<"7", "A">>)>>}
VisibleLines ==
    {<<Wide>>, <<[Pair("a", "x") EXCEPT !.runes = 5, !.cells = <<"A", "B">>]>>}

MCDocuments ==
    [plain : Texts(Lines, MaxLines) \union Texts(TableKinds, MaxTableLines),
     html : {<<>>}, visible : {<<>>}]
      \union [plain : Others, html : HTMLs, visible : VisibleLines]
===============================================================================
