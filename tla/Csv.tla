--------------------------------- MODULE Csv ---------------------------------
(***************************************************************************)
(* The pure modules of the CSV import (blocks/csv-import: parse.ts,        *)
(* coerce.ts, merge.ts).  A text is a sequence of characters: the four     *)
(* that CSV gives a meaning, and letters.  A sheet is a sequence of rows,  *)
(* a row a sequence of cells, a cell a text.  A reader and a writer of     *)
(* sheets have no state; `sheet` is the input under test.                  *)
(***************************************************************************)
EXTENDS Naturals, SequencesExt

CONSTANTS Sheets,     \* the inputs
          ColumnMap   \* header -> [column, type, required, hasDefault, default]

VARIABLE sheet

Quote == "q"
Comma == ","
CR == "r"
LF == "n"
Header == sheet[1]
-----------------------------------------------------------------------------
(* parseCsv: one character after the other; skip marks a character that    *)
(* was read together with the one before it.                               *)

Blank == [rows |-> << >>, row |-> << >>, field |-> << >>, quoted |-> FALSE,
          content |-> FALSE, skip |-> FALSE]

EndRecord(s) ==
    [s EXCEPT !.rows = Append(@, Append(s.row, s.field)), !.row = << >>, !.field = << >>,
              !.content = FALSE]

ReadChar(s, ch, next) ==
    IF s.skip THEN [s EXCEPT !.skip = FALSE]
    ELSE IF s.quoted
    THEN IF ch # Quote THEN [s EXCEPT !.field = Append(@, ch)]
         ELSE IF next = Quote THEN [s EXCEPT !.field = Append(@, ch), !.skip = TRUE]
         ELSE [s EXCEPT !.quoted = FALSE]
    ELSE CASE ch = Quote -> [s EXCEPT !.quoted = TRUE, !.content = TRUE]
           [] ch = Comma -> [s EXCEPT !.row = Append(@, s.field), !.field = << >>,
                                      !.content = TRUE]
           [] ch = CR -> [EndRecord(s) EXCEPT !.skip = (next = LF)]
           [] ch = LF -> EndRecord(s)
           [] OTHER -> [s EXCEPT !.field = Append(@, ch), !.content = TRUE]

ParseCsv(text) ==
    LET read[i \in 0..Len(text)] ==
            IF i = 0 THEN Blank
            ELSE ReadChar(read[i - 1], text[i], IF i < Len(text) THEN text[i + 1] ELSE "end")
        last == read[Len(text)]
    IN  IF last.content \/ last.field # << >> \/ last.row # << >>
        THEN EndRecord(last).rows ELSE last.rows

Join(texts, between) ==
    LET joined[n \in 0..Len(texts)] ==
            IF n = 0 THEN << >>
            ELSE IF n = 1 THEN texts[1] ELSE joined[n - 1] \o between \o texts[n]
    IN  joined[Len(texts)]

\* Commas and quotes only.
NeedsQuotesOnALine(cell) == \E i \in DOMAIN cell : cell[i] \in {Quote, Comma}

NeedsQuotes(cell) == \E i \in DOMAIN cell : cell[i] \in {Quote, Comma, CR, LF}

CsvEscape(cell) ==
    IF NeedsQuotes(cell)
    THEN <<Quote>> \o FlattenSeq([i \in DOMAIN cell |->
             IF cell[i] = Quote THEN <<Quote, Quote>> ELSE <<cell[i]>>]) \o <<Quote>>
    ELSE cell

ToCsv(rows) ==
    Join([r \in DOMAIN rows |->
             Join([c \in DOMAIN rows[r] |-> CsvEscape(rows[r][c])], <<Comma>>)], <<CR, LF>>)

-----------------------------------------------------------------------------
(* mapHeaders, validateRow, buildRejectedCsv                               *)

Cell(row, c) == IF c <= Len(row) THEN row[c] ELSE << >>
HasContent(row) == \E c \in DOMAIN row : row[c] # << >>

\* The elements of s at the positions of S, in their order.
Picked(s, S) ==
    LET kept[n \in 0..Len(s)] ==
            IF n = 0 THEN << >> ELSE IF n \in S THEN Append(kept[n - 1], s[n]) ELSE kept[n - 1]
    IN  kept[Len(s)]

Filled(rows) == Picked(rows, {r \in DOMAIN rows : HasContent(rows[r])})
DataRows(rows) == Filled(Tail(rows))

\* The columns of the header that the definition names.
MapHeaders(header) == {c \in DOMAIN header : header[c] \in DOMAIN ColumnMap}

\* coerceValue: 1 and 0 are texts, integers, numbers, booleans and dates alike.
Coerces(cell, type) ==
    CASE type = "text" -> TRUE
      [] type \in {"int", "numeric", "date"} -> cell # << >> /\ \A i \in DOMAIN cell : cell[i] \in {"0", "1"}
      [] type = "bool" -> cell \in {<<"0">>, <<"1">>}
      [] OTHER -> FALSE

\* The columns of a row with an error, as validateRow collects them.
RowErrors(row, header) ==
    {c \in MapHeaders(header) :
        LET spec == ColumnMap[header[c]]
        IN  IF Cell(row, c) = << >> THEN ~spec.hasDefault /\ spec.required
            ELSE ~Coerces(Cell(row, c), spec.type)}

\* The value of a column, of a row without errors; "null" where the row has none.
Value(row, header, column) ==
    LET cols == {c \in MapHeaders(header) : ColumnMap[header[c]].column = column}
        c == CHOOSE x \in cols : \A y \in cols : y <= x
        spec == ColumnMap[header[c]]
    IN  IF Cell(row, c) # << >> THEN Cell(row, c)
        ELSE IF spec.hasDefault THEN spec.default ELSE <<"null">>

Rejected(rows) ==
    LET data == DataRows(rows)
    IN  Picked([i \in DOMAIN data |-> [line |-> i + 1, cells |-> data[i]]],
               {i \in DOMAIN data : RowErrors(data[i], rows[1]) # {}})

\* The cells as they are, however many, then the line and the reasons.
Reported(cells, line, reasons) == Append(Append(cells, line), reasons)

RejectedCsv(rows) ==
    ToCsv(<<Reported(rows[1], <<"l">>, <<"e">>)>> \o
          [i \in DOMAIN Rejected(rows) |-> Reported(Rejected(rows)[i].cells, <<"1">>, <<"e">>)])

-----------------------------------------------------------------------------
(* buildInsertSql: the parameters of rowCount rows, numbered row by row,   *)
(* which the caller passes as one flat sequence.                           *)

Placeholder(columns, r, c) == (r - 1) * Len(columns) + c

InsertedCell(values, columns, r, c) == FlattenSeq(values)[Placeholder(columns, r, c)]

Columns(header) == SetToSeq({ColumnMap[header[c]].column : c \in MapHeaders(header)})
ValidRows(rows) ==
    LET data == DataRows(rows)
    IN  Picked(data, {i \in DOMAIN data : RowErrors(data[i], rows[1]) = {}})

-----------------------------------------------------------------------------
Unread == << >>
Init == sheet = Unread
Next == sheet = Unread /\ sheet' \in Sheets
Spec == Init /\ [][Next]_sheet

\* A sheet that is written and read again is the same sheet but for rows without
\* content, whatever quotes, commas and line ends its cells have.
RoundTrip == Filled(ParseCsv(ToCsv(sheet))) = Filled(sheet)

\* A file with another line end, or with one at its end, has the same rows.
LineEnds ==
    \A end \in {<<CR>>, <<LF>>, <<CR, LF>>} :
        Filled(ParseCsv(Join([r \in DOMAIN sheet |-> ToCsv(<<sheet[r]>>)], end) \o end)) = Filled(sheet)

\* The report re-parses into the rejected rows and no other, each with its cells, its line
\* and its reasons.  Imported again a row is rejected for the same columns, but only one that
\* has a cell for each column of the header: see ShortRowsRoundTrip.
ReportRoundTrip ==
    LET report == ParseCsv(RejectedCsv(sheet))
        rejected == Rejected(sheet)
    IN  /\ Len(report) = 1 + Len(rejected) /\ report[1] = Reported(Header, <<"l">>, <<"e">>)
        /\ \A i \in DOMAIN rejected :
              /\ report[i + 1] = Reported(rejected[i].cells, <<"1">>, <<"e">>)
              /\ Len(rejected[i].cells) >= Len(Header) =>
                     RowErrors(report[i + 1], report[1]) = RowErrors(rejected[i].cells, Header)

\* Every value is inserted in the row and the column it was validated for.
InsertedInPlace ==
    LET columns == Columns(Header)
        valid == ValidRows(sheet)
        values == [r \in DOMAIN valid |->
                      [c \in DOMAIN columns |-> Value(valid[r], Header, columns[c])]]
    IN  \A r \in DOMAIN valid, c \in DOMAIN columns :
            InsertedCell(values, columns, r, c) = Value(valid[r], Header, columns[c])

Safety == sheet # Unread => RoundTrip /\ LineEnds /\ ReportRoundTrip /\ InsertedInPlace

\* The line a rejected row is reported at is the line it has in the file.
LineNumbersTrue ==
    sheet # Unread => \A i \in DOMAIN Rejected(sheet) :
                          sheet[Rejected(sheet)[i].line] = Rejected(sheet)[i].cells

\* Imported again, a rejected row is rejected for the same columns, however wide it is:
\* violated, since line and reasons move into the columns that a short row has no cell for.
ShortRowsRoundTrip ==
    LET report == ParseCsv(RejectedCsv(sheet))
        rejected == Rejected(sheet)
    IN  sheet # Unread => \A i \in DOMAIN rejected :
            RowErrors(report[i + 1], report[1]) = RowErrors(rejected[i].cells, Header)

-----------------------------------------------------------------------------
(* What the proof of Safety assumes.                                       *)

\* A sheet is of texts; the two columns that the report adds are not the import's own.
Sane == Sheets \subseteq Seq(Seq(Seq(STRING))) /\ {<<"l">>, <<"e">>} \intersect DOMAIN ColumnMap = {}
=============================================================================
