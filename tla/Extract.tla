-------------------------------- MODULE Extract --------------------------------
(***************************************************************************)
(* extractHandler and package extract: a parsed mail is read from the      *)
(* bucket, its body's length checked, and tables, key-values and listed    *)
(* items taken from it.                                                    *)
(*                                                                         *)
(* A text is the sequence of its lines once trimmed.  A line is what the   *)
(* regular expressions and strings.Split make of it: its runes and bytes,  *)
(* the cells between its pipes or tabs, the key and value of a "key:       *)
(* value" line, and whether it is bulleted or numbered.  A cell is a text, *)
(* "" an empty one; a key is given as slugKey leaves it.                   *)
(***************************************************************************)
EXTENDS Integers, Sequences, SequencesExt, FiniteSetsExt

CONSTANTS
    Documents,    \* the mails: [plain: lines, html: tables, visible: a line or none]
    SlugOf,       \* slugKey's replacements: a text's key, "" when nothing is left
    ColumnKeys,   \* "col_0", "col_1" and so on: the keys of headings without a slug
    Numeric,      \* the texts isMostlyNumeric holds of
    NoiseKeys,
    MinRunes, MaxRunes,   \* MinExtractBodyRunes, MaxExtractBodyRunes
    Preview,      \* 2000, counted once in bytes and once in runes
    LongLine,     \* 300: bytes beyond which a line is no key-value
    Rooms         \* the allocator's size classes, in runes

Line == [runes : Nat, bytes : Nat, cells : Seq(STRING),
         pair : {<<>>} \union (STRING \X STRING), item : BOOLEAN]

ASSUME DocumentsAssumption ==
    Documents \subseteq [plain : Seq(Line), html : Seq(Seq(Seq(STRING))), visible : Seq(Line)]

\* The allocator has room for every text that passes the length check.
ASSUME RoomsAssumption ==
    /\ MinRunes \in Nat /\ MaxRunes \in Nat /\ Preview \in Nat /\ Rooms \subseteq Nat
    /\ \A n \in 0 .. MaxRunes : \E room \in Rooms : room >= n

VARIABLES
    mail,
    pc,        \* the request: "get", "run", "answered", "rejected", "failed" or "panicked"
    answer

vars == <<mail, pc, answer>>

IsBlank(line) == line.runes = 0

\* Lines joined by newlines: the sizes of the lines, and one for each newline.
Joined(sizes) == IF sizes = <<>> THEN 0 ELSE FoldLeft(+, Len(sizes) - 1, sizes)
Runes(text) == Joined([i \in DOMAIN text |-> text[i].runes])
Bytes(text) == Joined([i \in DOMAIN text |-> text[i].bytes])

\* Without a plain text, the HTML's: stripHTMLBasic makes one line of it, for the newlines
\* that <br> has become are undone by strings.Fields.
ExtractionText(m) == IF m.plain = <<>> THEN m.visible ELSE m.plain
-------------------------------------------------------------------------------
\* The values at some positions of a sequence, in order: a slice appended to under a condition.
Kept(P, v) ==
    LET out[i \in 0 .. Len(v)] ==
            IF i = 0 THEN <<>> ELSE IF i \in P THEN Append(out[i - 1], v[i]) ELSE out[i - 1]
    IN  out[Len(v)]

\* Mutant of Put: the first value stays.
PutOnce(f, k, v) == [x \in DOMAIN f \union {k} |-> IF x \in DOMAIN f THEN f[x] ELSE v]

Put(f, k, v) == [x \in DOMAIN f \union {k} |-> IF x = k THEN v ELSE f[x]]

\* The map that the pairs at some positions leave, put into it in order.
Written(P, pairs) ==
    LET out[i \in 0 .. Len(pairs)] ==
            IF i = 0 THEN <<>>
            ELSE IF i \in P THEN Put(out[i - 1], pairs[i][1], pairs[i][2]) ELSE out[i - 1]
    IN  out[Len(pairs)]

NonEmpty(cells) == Kept({i \in DOMAIN cells : cells[i] # ""}, cells)

LooksLikeHeaderRow(cells) ==
    /\ Len(cells) >= 2
    /\ Cardinality({i \in DOMAIN cells : cells[i] # "" /\ cells[i] \notin Numeric})
          >= Len(cells) \div 2

SlugKey(h, i) == IF SlugOf[h] = "" THEN ColumnKeys[i] ELSE SlugOf[h]

\* A row may be shorter than the headings.
Cell(row, i) == IF i \in DOMAIN row THEN row[i] ELSE ""

\* Mutant of Given: an empty cell takes the value of its key away.
GivenAll(header, row) == DOMAIN header

Given(header, row) == {i \in DOMAIN header : Cell(row, i) # ""}

Record(header, row) ==
    Written(Given(header, row),
            [i \in DOMAIN header |-> <<SlugKey(header[i], i), Cell(row, i)>>])

RowsToRecords(header, data) ==
    LET records == [r \in DOMAIN data |-> Record(header, data[r])]
    IN  Kept({r \in DOMAIN data : records[r] # <<>>}, records)

\* A table's entry: its rows, or its records where the first row looks like a header.
Entry(i, rows) ==
    IF Len(rows) >= 2 /\ LooksLikeHeaderRow(rows[1])
    THEN [index |-> i, records |-> RowsToRecords(rows[1], Tail(rows)), rows |-> <<>>]
    ELSE [index |-> i, records |-> <<>>, rows |-> rows]

HasText(row) == \E i \in DOMAIN row : row[i] # ""
TextRows(table) == Kept({r \in DOMAIN table : HasText(table[r])}, table)

\* The <table> blocks of the HTML, numbered before those without a row are left out.
HTMLTables(html) ==
    Kept({i \in DOMAIN html : TextRows(html[i]) # <<>>},
         [i \in DOMAIN html |-> Entry(i - 1, TextRows(html[i]))])

\* Mutant of AddLine: the rows before the blank line stay where they are too few.
AddLineKeeping(current, line) ==
    IF IsBlank(line) /\ Len(current) >= 2 THEN <<>>
    ELSE IF Len(NonEmpty(line.cells)) >= 2 THEN Append(current, NonEmpty(line.cells))
    ELSE current

\* One line of extractDelimitedTable: a blank line ends the block, other lines without
\* two cells are passed over.
AddLine(current, line) ==
    IF IsBlank(line) THEN <<>>
    ELSE IF Len(NonEmpty(line.cells)) >= 2 THEN Append(current, NonEmpty(line.cells))
    ELSE current

\* The block under way after each number of lines.
Current(text) ==
    LET current[n \in 0 .. Len(text)] ==
            IF n = 0 THEN <<>> ELSE AddLine(current[n - 1], text[n])
    IN  current

\* A block of two rows counts when a blank line or the end of the text comes up.
DelimitedTables(text) ==
    LET rows == [e \in 1 .. Len(text) + 1 |-> Current(text)[e - 1]]
        ended == {e \in DOMAIN rows : e \in DOMAIN text => IsBlank(text[e])}
        blocks == Kept({e \in ended : Len(rows[e]) >= 2}, rows)
    IN  [b \in DOMAIN blocks |-> Entry(b - 1, blocks[b])]

IsPair(line) == line.pair # <<>> /\ line.bytes <= LongLine /\ line.pair[1] \notin NoiseKeys

KeyValues(text) ==
    Written({i \in DOMAIN text : IsPair(text[i])}, [i \in DOMAIN text |-> text[i].pair])

OrderedList(text) == Kept({i \in DOMAIN text : text[i].item}, text)

Confidence(tables, kv) ==
    IF tables # <<>> /\ Cardinality(DOMAIN kv) >= 2 THEN 85
    ELSE IF tables # <<>> \/ Cardinality(DOMAIN kv) >= 3 THEN 75
    ELSE 55

Tables(m) ==
    LET html == HTMLTables(m.html)
    IN  IF html = <<>> THEN DelimitedTables(ExtractionText(m)) ELSE html
-------------------------------------------------------------------------------
NoAnswer == <<>>

Init == mail \in Documents /\ pc = "get" /\ answer = NoAnswer

\* The bucket fails, or the object is no parsed mail.
GetFails == pc = "get" /\ pc' \in {"failed", "rejected"} /\ UNCHANGED <<mail, answer>>

BodyLengthOk(m) == Runes(ExtractionText(m)) \in MinRunes .. MaxRunes

Validate ==
    /\ pc = "get"
    /\ pc' = IF BodyLengthOk(mail) THEN "run" ELSE "rejected"
    /\ UNCHANGED <<mail, answer>>

Run(preview) ==
    /\ pc = "run"
    /\ answer' = [tables |-> Tables(mail),
                  keyValues |-> KeyValues(ExtractionText(mail)),
                  items |-> OrderedList(ExtractionText(mail)),
                  confidence |-> Confidence(Tables(mail), KeyValues(ExtractionText(mail))),
                  preview |-> preview]
    /\ pc' = "answered"
    /\ UNCHANGED mail

\* The check counts bytes, the cut runes: []rune(preview)[:2000] of a text with fewer
\* runes reaches into the zeroed room the conversion allocated behind them, or beyond it.
Cut == Bytes(ExtractionText(mail)) > Preview
Length == Runes(ExtractionText(mail))
Room == Min({room \in Rooms : room >= Length})

RunWhole == ~Cut /\ Run([runes |-> Length, zeros |-> 0])

RunCut ==
    /\ Cut /\ Room >= Preview
    /\ Run([runes |-> Min({Length, Preview}), zeros |-> Max({0, Preview - Length})])

\* net/http recovers the panic and closes the connection.
Panic ==
    /\ pc = "run" /\ Cut /\ Room < Preview
    /\ pc' = "panicked"
    /\ UNCHANGED <<mail, answer>>

Over == pc \notin {"get", "run"} /\ UNCHANGED vars

Next == GetFails \/ Validate \/ RunWhole \/ RunCut \/ Panic \/ Over

Spec == Init /\ [][Next]_vars
-------------------------------------------------------------------------------
(* What the tables should be, by position and not by accumulation. *)

\* The position with k - 1 others of the set before it, and what stands at those of a set.
Nth(L, k) == CHOOSE i \in L : Cardinality({j \in L : j <= i}) = k
Ranked(L, v) == [k \in 1 .. Cardinality(L) |-> v[Nth(L, k)]]

Filled(cells) == {i \in DOMAIN cells : cells[i] # ""}
Filling(text) == [i \in DOMAIN text |-> Ranked(Filled(text[i].cells), text[i].cells)]

\* The lines before position e with two cells, back to the last blank one.
TableLines(text, e) ==
    {i \in 1 .. e - 1 :
        /\ Cardinality(Filled(text[i].cells)) >= 2
        /\ \A j \in i .. e - 1 : ~IsBlank(text[j])}

\* The blank lines, and the end of the text, that have a table before them.
TableEnds(text) ==
    {e \in 1 .. Len(text) + 1 :
        /\ e \in DOMAIN text => IsBlank(text[e])
        /\ Cardinality(TableLines(text, e)) >= 2}

DelimitedFound(text) ==
    [k \in 1 .. Cardinality(TableEnds(text)) |->
        [index |-> k - 1,
         rows |-> Ranked(TableLines(text, Nth(TableEnds(text), k)), Filling(text))]]

TextTables(html) == {i \in DOMAIN html : \E r \in DOMAIN html[i] : HasText(html[i][r])}

HTMLFound(html) ==
    [k \in 1 .. Cardinality(TextTables(html)) |->
        LET i == Nth(TextTables(html), k)
        IN  [index |-> i - 1,
             rows |-> Ranked({r \in DOMAIN html[i] : HasText(html[i][r])}, html[i])]]

Found(m) ==
    IF HTMLFound(m.html) = <<>> THEN DelimitedFound(ExtractionText(m)) ELSE HTMLFound(m.html)

\* Every stretch of lines without a blank one that has two rows is a table, in the order
\* of the text, whatever other lines stand between the rows; an HTML mail's tables are
\* its own, under their positions among all <table> blocks (extractDelimitedTable,
\* extractHTMLTables: a block left open, closed twice or forgotten at the end).
TablesExact ==
    pc = "answered" =>
        /\ Len(answer.tables) = Len(Found(mail))
        /\ \A i \in DOMAIN answer.tables :
              /\ answer.tables[i].index = Found(mail)[i].index
              /\ answer.tables[i].rows # <<>> => answer.tables[i].rows = Found(mail)[i].rows

\* The columns of the row that give the record's field: under the key, not empty, and
\* the last of these.
Givers(header, row, key) ==
    LET given == {j \in (DOMAIN header) \cap (DOMAIN row) :
                     row[j] # "" /\ SlugKey(header[j], j) = key}
    IN  {j \in given : \A k \in given : k <= j}

\* Records tell all their rows say: one for every row with a value under some heading, in
\* order, whose fields are that row's own values under that very heading; of two columns
\* with one key only the last value is lost, and an empty cell never takes a value's
\* place (rowsToRecords, slugKey).
RecordsTrue ==
    pc = "answered" =>
        \A i \in {n \in DOMAIN answer.tables : answer.tables[n].rows = <<>>} :
            LET header == Head(Found(mail)[i].rows)
                Keys == {SlugKey(header[j], j) : j \in DOMAIN header}
                data == Tail(Found(mail)[i].rows)
                told == Ranked({r \in DOMAIN data :
                                   \E k \in Keys : Givers(header, data[r], k) # {}}, data)
                records == answer.tables[i].records
            IN  /\ Len(records) = Len(told)
                /\ \A r \in DOMAIN records :
                      /\ DOMAIN records[r] = {k \in Keys : Givers(header, told[r], k) # {}}
                      /\ \A k \in DOMAIN records[r] :
                            \E j \in Givers(header, told[r], k) : records[r][k] = told[r][j]

\* A key's value is the one of its last line, and a key is there only by a line of the
\* text (extractKeyValues).
LastValueWins ==
    pc = "answered" =>
        LET text == ExtractionText(mail)
            Of(k) == {i \in DOMAIN text : IsPair(text[i]) /\ text[i].pair[1] = k}
        IN  /\ DOMAIN answer.keyValues =
                    {text[i].pair[1] : i \in {j \in DOMAIN text : IsPair(text[j])}}
            /\ \A k \in DOMAIN answer.keyValues : answer.keyValues[k] = text[Max(Of(k))].pair[2]

\* A mail that passes the length check is answered ("Output always includes intent +
\* envelope fields", structured.go:59).
AlwaysAnswers == pc # "panicked"
===============================================================================
