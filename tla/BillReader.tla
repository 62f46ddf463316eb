------------------------------ MODULE BillReader -------------------------------
(***************************************************************************)
(* Priced bills of quantities as they are read out of the lines of a       *)
(* document (extraction/pdf_boq.py).  In one layout every cell is a line   *)
(* and a heading announces the table; in the other a row is a line, which  *)
(* is known by its shape.                                                  *)
(*                                                                         *)
(* A line is one of the records below; what no reader looks for is prose.  *)
(* Rates and amounts show two decimals and are in hundredths; a quantity   *)
(* is a figure of RowArithmetic.                                           *)
(***************************************************************************)
EXTENDS RowArithmetic, PageText

CONSTANT MaxBlock   \* lines of one item: _MAX_DESCRIPTION_LINES + 8

Mark(is) == [is |-> is]
ItemLine(n, more) == [is |-> "item", n |-> n, more |-> more]   \* more: text after the number
FigureLine(m) == [is |-> "figure", m |-> m]
SubLine(letter) == [is |-> "sub", letter |-> letter]
UnitLine(unit) == [is |-> "unit", unit |-> unit]
TotalLine(m) == [is |-> "sum", m |-> m]                        \* a label and its amount
RowLine(item, unit, quantity, rate, amount) ==
    [is |-> "row", item |-> item, unit |-> unit, quantity |-> quantity, rate |-> rate, amount |-> amount]
TripleLine(quantity, rate, amount) ==
    [is |-> "triple", quantity |-> quantity, rate |-> rate, amount |-> amount]

Money(m) == [m |-> m, p |-> 2]

NoBill == [rows |-> <<>>, rejected |-> 0, total |-> {}]

\* BoqRow; the fields that are text are left out.
BoqRow(item, unit, quantity, rate, amount) ==
    [item |-> item, unit |-> unit, quantity |-> quantity, rate |-> rate, amount |-> amount]

\* The lines of a page; a transcribed page is one line.
Lines(page) == IF page.lined THEN page.marks ELSE <<Mark("prose")>>

TotalAmount(rows) == FoldLeft(LAMBDA n, row : n + row.amount, 0, rows)

-----------------------------------------------------------------------------
(* One cell a line *)

\* _find_table_page: the heading and the headers of two columns, on one page.
HasTable(page) ==
    LET seen == {Lines(page)[i].is : i \in DOMAIN Lines(page)}
    IN  {"heading", "rate header", "quantity header"} \subseteq seen

TablePage(pages) ==
    LET at == {i \in DOMAIN pages : HasTable(pages[i])} IN IF at = {} THEN 0 ELSE Min(at)

\* _sequential_item_starts: a number is an item if it is the one that is due.
SequentialItemStarts(lines) ==
    FoldLeftDomain(LAMBDA starts, i :
        IF lines[i].is = "item" /\ lines[i].n = Len(starts) + 1 THEN Append(starts, i) ELSE starts,
        <<>>, lines)

\* _split_sub_items: each has the heading of its item, and its own lines.
SplitSubItems(item, block) ==
    LET marks == SetToSortSeq({i \in DOMAIN block : block[i].is = "sub"}, LAMBDA a, b : a < b)
        last(k) == IF k < Len(marks) THEN marks[k + 1] - 1 ELSE Len(block)
    IN  IF marks = <<>> THEN << [item |-> <<item, "">>, lines |-> block] >>
        ELSE [k \in DOMAIN marks |->
                [item |-> <<item, block[marks[k]].letter>>,
                 lines |-> SubSeq(block, 1, marks[1] - 1) \o SubSeq(block, marks[k] + 1, last(k))]]

UnitIn(lines) ==
    LET units == SelectSeq(lines, LAMBDA line : line.is = "unit")
    IN  IF units = <<>> THEN "" ELSE units[1].unit

\* Mutant: the figures of the first row are the row.
BuildFirstRow(part) ==
    LET f == SelectSeq(part.lines, LAMBDA line : line.is = "figure")
    IN  IF Len(f) < 3 THEN NoBill
        ELSE [NoBill EXCEPT !.rows = <<BoqRow(part.item, UnitIn(part.lines), Money(f[1].m), f[2].m, f[3].m)>>]

\* _build_row: the last three figures, unless the three before them are a row
\* as well: then none.  Less than three figures are no row.
BuildRow(part) ==
    LET f == SelectSeq(part.lines, LAMBDA line : line.is = "figure")
        n == Len(f)
    IN  IF n < 3 THEN NoBill
        ELSE IF n >= 6 /\ Closes(Money(f[n - 5].m), Money(f[n - 4].m), Money(f[n - 3].m))
        THEN [NoBill EXCEPT !.rejected = 1]
        ELSE [NoBill EXCEPT !.rows =
                <<BoqRow(part.item, UnitIn(part.lines), Money(f[n - 2].m), f[n - 1].m, f[n].m)>>]

Both(left, right) ==
    [left EXCEPT !.rows = @ \o right.rows, !.rejected = @ + right.rejected]

\* A block that is too long is passed over, and not counted.
ReadBlock(item, block) ==
    IF Len(block) > MaxBlock THEN NoBill
    ELSE FoldLeft(LAMBDA bill, part : Both(bill, BuildRow(part)), NoBill, SplitSubItems(item, block))

\* Where the label of the total is, after the first item; 0 if nowhere.
TotalAt(lines, starts) ==
    LET first == IF starts = <<>> THEN 1 ELSE starts[1]
        at == {i \in DOMAIN lines : i > first /\ lines[i].is = "total"}
    IN  IF at = {} THEN 0 ELSE Min(at)

\* _stated_total: the first figure after the label.
StatedTotal(lines, at) ==
    LET after == {i \in DOMAIN lines : i > at /\ lines[i].is = "figure"}
    IN  IF at = 0 \/ after = {} THEN {} ELSE {lines[Min(after)].m}

ReadTable(lines) ==
    LET all == SequentialItemStarts(lines)
        end == TotalAt(lines, all)
        items == IF end = 0 THEN lines ELSE SubSeq(lines, 1, end - 1)
        starts == SelectSeq(all, LAMBDA i : i <= Len(items))
        last(k) == IF k < Len(starts) THEN starts[k + 1] - 1 ELSE Len(items)
        block(k) == (IF items[starts[k]].more THEN <<Mark("prose")>> ELSE <<>>)
                    \o SubSeq(items, starts[k] + 1, last(k))
        bill == FoldLeftDomain(LAMBDA b, k : Both(b, ReadBlock(items[starts[k]].n, block(k))), NoBill, starts)
    IN  [bill EXCEPT !.total = StatedTotal(lines, end)]

-----------------------------------------------------------------------------
(* One row a line *)

\* Three figures after no unit begin with a number as well, their quantity.
Numbered(line, unit) == line.is = "item" \/ (line.is = "triple" /\ unit = "")

NumberOf(line) == IF line.is = "triple" THEN line.quantity ELSE line.n

\* A line after the unit of a row, then the item and the totals so far.
AtStart == [bill |-> NoBill, item |-> "", unit |-> "", totals |-> <<>>]

ReadLine(seen, line) ==
    CASE line.is = "sum" ->
           [seen EXCEPT !.totals = IF line.m > 0 THEN Append(@, line.m) ELSE @, !.unit = ""]
      [] line.is = "row" ->
           LET item == IF line.item = "" THEN seen.item ELSE line.item
           IN  [seen EXCEPT !.item = item, !.unit = "",
                  !.bill.rows = Append(@, BoqRow(item, line.unit, line.quantity, line.rate, line.amount))]
      [] line.is = "triple" /\ seen.unit # "" ->
           [seen EXCEPT !.unit = "",
              !.bill.rows = Append(@, BoqRow(seen.item, seen.unit, line.quantity, line.rate, line.amount))]
      [] Numbered(line, seen.unit) -> [seen EXCEPT !.item = NumberOf(line), !.unit = ""]
      [] line.is = "unit" -> [seen EXCEPT !.unit = line.unit]
      [] OTHER -> [seen EXCEPT !.unit = ""]

\* _bill_total: the first that the rows do not exceed.
BillTotal(totals, sum) ==
    LET enough == SelectSeq(totals, LAMBDA n : n >= sum)
    IN  IF enough = <<>> THEN {} ELSE {enough[1]}

\* _read_line_layout
ReadLineLayout(lines) ==
    LET seen == FoldLeft(ReadLine, AtStart, lines)
    IN  [seen.bill EXCEPT !.total = BillTotal(seen.totals, TotalAmount(seen.bill.rows))]

\* read_pdf_boq
ReadBill(pages) ==
    LET start == TablePage(pages)
        from == IF start = 0 THEN 1 ELSE start
        lines == FlattenSeq([i \in 1..(Len(pages) - from + 1) |-> Lines(pages[from + i - 1])])
    IN  IF start = 0 THEN ReadLineLayout(lines) ELSE ReadTable(lines)

=============================================================================
