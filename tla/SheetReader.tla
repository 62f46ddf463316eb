----------------------------- MODULE SheetReader ------------------------------
(***************************************************************************)
(* Bills of quantities, measurement sheets and running bills as they are   *)
(* read out of spreadsheets (extraction/spreadsheet.py): columns are found *)
(* by the names in their header, and a row counts if it names an item and  *)
(* states a value.                                                         *)
(*                                                                         *)
(* A grid is a sequence of rows, a row a sequence of cells.  A cell is     *)
(* [is |-> "blank"], a text, a number in thousandths, an item number (the  *)
(* item and how it is spelt) or a line that names the project.             *)
(***************************************************************************)
EXTENDS Integers, Sequences, FiniteSetsExt

CONSTANTS MaxRows, MaxColumns   \* MAX_ROWS, MAX_COLUMNS

ASSUME SheetAssumption == MaxRows \in Nat /\ MaxColumns \in Nat

Blank == [is |-> "blank"]
Text(t) == [is |-> "text", text |-> t]
Number(n) == [is |-> "number", n |-> n]
Item(i, spelt) == [is |-> "item", item |-> i, spelt |-> spelt]
ProjectLine(ref) == [is |-> "project", ref |-> ref]

\* SheetFact: a value, or 0 and the cell of what has none; item is the one
\* that the row names.
Fact(type, row, item, value, literal, unit) ==
    [type |-> type, row |-> row, item |-> item, value |-> value, literal |-> literal, unit |-> unit]

UnitHeaders == {"unit", "uom"}
RateHeaders == {"rate", "unit rate"}

\* What the columns of each field are called; "Rate" alone is another matter.
HeaderAliases ==
    [item_identifier |-> {"item no", "sl no"}, item_description |-> {"description"}, unit |-> UnitHeaders,
     contracted_quantity |-> {"quantity", "qty"}, measured_quantity |-> {"measured quantity"},
     previous_certified_quantity |-> {"previous quantity"},
     current_claim_quantity |-> {"current quantity"}, cumulative_claim_quantity |-> {"cumulative quantity"}]

QuantityFields ==
    {"contracted_quantity", "measured_quantity", "previous_certified_quantity",
     "current_claim_quantity", "cumulative_claim_quantity"}
MoneyFields == {"contract_rate", "claimed_rate"}

\* A bare "Rate" column is told apart by the type of the document alone.
RateFieldFor(type) == IF type = "running_bill" THEN "claimed_rate" ELSE "contract_rate"

\* What a column holds that has this cell in its header, or "".
FieldOf(cell, type) ==
    LET named(headers) == cell.is = "text" /\ cell.text \in headers
        fields == {f \in DOMAIN HeaderAliases : named(HeaderAliases[f])}
    IN  IF named(RateHeaders) THEN RateFieldFor(type)
        ELSE IF fields # {} THEN CHOOSE f \in fields : TRUE ELSE ""

\* The sheet up to MAX_ROWS and MAX_COLUMNS; what is beyond is not looked at.
Window(grid) ==
    [r \in 1..Min({Len(grid), MaxRows}) |-> SubSeq(grid[r], 1, Min({Len(grid[r]), MaxColumns}))]

Columns(row, type) == [c \in {x \in DOMAIN row : FieldOf(row[x], type) # ""} |-> FieldOf(row[c], type)]

Holding(columns, field) == {c \in DOMAIN columns : columns[c] = field}

IsHeader(columns) ==
    /\ Holding(columns, "item_identifier") # {}
    /\ \E c \in DOMAIN columns : columns[c] \in QuantityFields \cup MoneyFields

\* The first row with an item column and a quantity or a rate, or 0.
HeaderRow(grid, type) ==
    LET rows == {r \in DOMAIN grid : IsHeader(Columns(grid[r], type))}
    IN  IF rows = {} THEN 0 ELSE Min(rows)

\* The first line, in reading order, that names the project; it is a fact of
\* its row, whatever else the row states.
ProjectReference(grid) ==
    LET places == {p \in (DOMAIN grid) \X (1..MaxColumns) :
                     p[2] \in DOMAIN grid[p[1]] /\ grid[p[1]][p[2]].is = "project"}
        First(p) == \A q \in places : p[1] < q[1] \/ (p[1] = q[1] /\ p[2] <= q[2])
    IN  {Fact("project_reference", p[1], "", 0, <<grid[p[1]][p[2]]>>, "") :
            p \in {x \in places : First(x)}}

\* A cell yields a value if it parses as its column demands; any text describes.
Usable(cell, field) ==
    IF field = "item_description" THEN cell.is # "blank" ELSE cell.is = "number"

ItemAt(columns) == Min(Holding(columns, "item_identifier"))

UnitOf(row, columns) ==
    LET at == Holding(columns, "unit")
    IN  IF at = {} \/ Min(at) \notin DOMAIN row THEN ""
        ELSE IF row[Min(at)].is = "text" THEN row[Min(at)].text ELSE ""

\* Where a row states a field, and which fields it does state.
Stating(row, columns, f) == {c \in DOMAIN columns \cap DOMAIN row : columns[c] = f /\ Usable(row[c], f)}

StatedFields(row, columns) ==
    {f \in QuantityFields \cup MoneyFields \cup {"item_description"} : Stating(row, columns, f) # {}}

\* Of two columns for a field the later is written last.
FieldFact(row, r, columns, f) ==
    LET named == row[ItemAt(columns)].item
        last == row[Max(Stating(row, columns, f))]
    IN  IF f = "item_description" THEN Fact(f, r, named, 0, <<last>>, "")
        ELSE Fact(f, r, named, last.n, <<>>, IF f \in QuantityFields THEN UnitOf(row, columns) ELSE "")

ItemFact(r, cell) == Fact("item_identifier", r, cell.item, 0, <<cell>>, "")

\* _read_rows: the facts of a row, none unless it names an item and states
\* something else.
RowFacts(row, r, columns) ==
    IF /\ ItemAt(columns) \in DOMAIN row /\ row[ItemAt(columns)].is = "item"
       /\ StatedFields(row, columns) # {}
    THEN {FieldFact(row, r, columns, f) : f \in StatedFields(row, columns)}
         \cup {ItemFact(r, row[ItemAt(columns)])}
    ELSE {}

\* read_construction_sheet
SheetFacts(sheet, type) ==
    LET grid == Window(sheet)
        h == HeaderRow(grid, type)
    IN  ProjectReference(grid)
        \cup IF h = 0 THEN {}
             ELSE UNION {RowFacts(grid[r], r, Columns(grid[h], type)) : r \in (h + 1)..Len(grid)}

=============================================================================
