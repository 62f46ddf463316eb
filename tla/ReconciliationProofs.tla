------------------------- MODULE ReconciliationProofs -------------------------
(***************************************************************************)
(* Theorems of Reconciliation, for any sheets, documents, versions and     *)
(* items: what a verdict that nothing has outdated rests on, and what the  *)
(* figures that a verdict cites add up to ever after.                      *)
(***************************************************************************)
EXTENDS Reconciliation, WellFoundedInduction, TLAPS

-----------------------------------------------------------------------------
(* The invariant *)

FactTypes ==
    QuantityFields \cup MoneyFields \cup {"item_description", "item_identifier", "project_reference"}

\* A fact that some version reads, whatever the type of the sheet.
IsRead(f) ==
    /\ f.doc \in Documents /\ f.version \in Versions
    /\ \E t \in Types : f \in Reading[<<f.doc, f.version, t>>]

FactsAreRead == \A f \in facts : IsRead(f)

ColumnsOk ==
    /\ type \in [Documents -> Types] /\ deployed \in Versions
    /\ items \subseteq Items
    /\ DOMAIN findings = Items \X Rules
    /\ session.pc \in {"idle", "judge"}

\* Facts are linked in whole rows, to items that exist.
LinkOk(link, to) ==
    /\ \A k \in DOMAIN link : link[k] \in to
    /\ \A k, l \in DOMAIN link : k.doc = l.doc /\ k.row = l.row => link[k] = link[l]

LinkedIsAnchored == DOMAIN linked \subseteq {KeyOf(f) : f \in Anchored}

SessionLinks ==
    session.pc = "judge" =>
        /\ session.facts \subseteq Anchored
        /\ DOMAIN session.link = {KeyOf(f) : f \in session.facts}
        /\ DOMAIN linked \subseteq DOMAIN session.link
        /\ items \subseteq session.items /\ session.items \subseteq Items
        /\ LinkOk(session.link, session.items)

\* Nothing has changed since it began: what it has loaded is what there is.
SessionIsCurrent ==
    session.pc = "judge" /\ session.steady => session.inForce = InForce /\ session.facts = Anchored

\* What the facts of an item select, and what is judged of that.
Selections(i, all, link, inForce) == SelectFacts(OfItem(i, all, link), inForce, {})

Verdict(i, rule, selections) ==
    Cited(EvaluateWorkItem(selections, ComputeForWorkItem(Chosen(selections)))[rule], i)

LinkedFacts == {f \in facts : KeyOf(f) \in DOMAIN linked}

\* While nothing changed, every verdict is the one that the store gives.
VerdictsAreCurrent ==
    fresh =>
        /\ DOMAIN linked = {KeyOf(f) : f \in Anchored}
        /\ \A i \in items, r \in Rules :
              findings[<<i, r>>] = Verdict(i, r, Selections(i, LinkedFacts, linked, InForce))

OnlyItemsAreJudged == \A p \in Items \X Rules : p[1] \notin items => findings[p] = NoFinding

\* A row of this key is there, and every such row states this of these facts.
Computes(rows, key, value, inputs) ==
    /\ \E r \in rows : r.key = key
    /\ \A r \in rows : r.key = key => r.value = value /\ r.inputs = inputs

\* The figures behind a verdict on a claim c that m measures.
RestsOn(i, found, rows, all, c, m) ==
    /\ c.type = "cumulative_claim_quantity" /\ m.type = "measured_quantity"
    /\ found.cites = {KeyOf(c), KeyOf(m)}
    /\ found.outcome = IF c.value - m.value <= 0 THEN "pass" ELSE "review"
    /\ Computes(rows, Scoped(i, "quantity_variance"), c.value - m.value, found.cites)
    /\ Scoped(i, "unsupported_amount") \in found.uses =>
          \E f \in all :
             Computes(rows, Scoped(i, "unsupported_amount"),
                      (IF c.value - m.value > 0 THEN c.value - m.value ELSE 0) * f.value, {KeyOf(f)})

ClaimsRest ==
    \A i \in Items :
        LET found == findings[<<i, "claim">>]
        IN  found.uses # {} =>
              \E c \in facts, m \in facts :
                 /\ RestsOn(i, found, derived, facts, c, m)
                 /\ \A k \in found.cites : k \in DOMAIN linked /\ linked[k] = i

RInv ==
    /\ ColumnsOk /\ FactsAreRead
    /\ LinkedIsAnchored /\ LinkOk(linked, items)
    /\ SessionLinks /\ SessionIsCurrent
    /\ VerdictsAreCurrent /\ OnlyItemsAreJudged /\ ClaimsRest

-----------------------------------------------------------------------------
(* Least and greatest *)

LEMMA LeastOf ==
    ASSUME NEW S \in SUBSET Nat, S # {}
    PROVE  Min(S) \in S /\ \A n \in S : Min(S) <= n
<1>1. PICK n \in S : \A m \in S : ~ (<<m, n>> \in OpToRel(<, Nat))
  BY WFMin, NatLessThanWellFounded
<1>2. \A m \in S : n <= m
  <2> SUFFICES ASSUME NEW m \in S, m < n PROVE FALSE
    OBVIOUS
  <2> QED BY <1>1 DEF OpToRel
<1> QED BY <1>2 DEF Min

LEMMA GreatestOf ==
    ASSUME NEW n \in Nat, NEW S, S \subseteq 1..n, S # {}
    PROVE  Max(S) \in S
<1> DEFINE T == {n - x : x \in S}
<1>1. \A x \in S : x \in Nat /\ n - x \in Nat
  <2>1. \A x \in S : x \in 1..n
    OBVIOUS
  <2> QED BY <2>1
<1>2. T \subseteq Nat /\ T # {}
  BY <1>1
<1>3. PICK t \in T : \A u \in T : t <= u
  <2> HIDE DEF T
  <2> QED BY <1>2, LeastOf
<1>4. PICK x \in S : t = n - x
  BY <1>3
<1>5. ASSUME NEW y \in S PROVE x >= y
  <2>1. n - x <= n - y
    BY <1>3, <1>4
  <2>2. x \in Nat /\ y \in Nat
    BY <1>1
  <2> QED BY <2>1, <2>2
<1> QED BY <1>4, <1>5 DEF Max

-----------------------------------------------------------------------------
(* What is read of a sheet *)

\* A row of cells, and a sheet of rows.
IsRow(row) == \E m \in Nat : DOMAIN row = 1..m /\ \A c \in 1..m : row[c] \in Cells

IsGrid(grid) == \E n \in Nat : DOMAIN grid = 1..n /\ \A r \in 1..n : IsRow(grid[r])

LEMMA LeastOfTwo ==
    ASSUME NEW a \in Nat, NEW b \in Nat
    PROVE  Min({a, b}) \in Nat /\ Min({a, b}) <= a
<1>1. {a, b} \in SUBSET Nat /\ {a, b} # {} /\ a \in {a, b}
  OBVIOUS
<1> QED BY <1>1, LeastOf

LEMMA WindowIsGrid ==
    ASSUME NEW grid \in Seq(Seq(Cells))
    PROVE  IsGrid(Window(grid))
<1> DEFINE n == Min({Len(grid), MaxRows})
           m(r) == Min({Len(grid[r]), MaxColumns})
<1>1. n \in Nat /\ n <= Len(grid)
  <2>1. Len(grid) \in Nat
    OBVIOUS
  <2> QED BY <2>1, LeastOfTwo, SheetAssumption
<1>2. ASSUME NEW r \in 1..n PROVE IsRow(SubSeq(grid[r], 1, m(r)))
  <2>1. grid[r] \in Seq(Cells)
    BY <1>1
  <2>2. Len(grid[r]) \in Nat
    BY <2>1
  <2>3. m(r) \in Nat /\ m(r) <= Len(grid[r])
    BY <2>2, LeastOfTwo, SheetAssumption
  <2> HIDE DEF m
  <2>4. DOMAIN SubSeq(grid[r], 1, m(r)) = 1..m(r)
    BY <2>1, <2>3
  <2>5. ASSUME NEW c \in 1..m(r) PROVE SubSeq(grid[r], 1, m(r))[c] \in Cells
    BY <2>1, <2>3
  <2> QED BY <2>3, <2>4, <2>5 DEF IsRow
<1>3. DOMAIN Window(grid) = 1..n /\ \A r \in 1..n : Window(grid)[r] = SubSeq(grid[r], 1, m(r))
  BY DEF Window
<1> HIDE DEF n, m
<1> QED BY <1>1, <1>2, <1>3 DEF IsGrid

LEMMA NamesAreNotMoney ==
    /\ "item_identifier" \notin MoneyFields /\ "unit" \notin MoneyFields
    /\ "item_description" \notin MoneyFields /\ "" \notin MoneyFields
    /\ \A f \in QuantityFields : f \notin MoneyFields
BY DEF QuantityFields, MoneyFields

\* The type of the document decides only what a rate column is.
LEMMA FieldsAlike ==
    ASSUME NEW cell, NEW t, NEW u
    PROVE  \/ FieldOf(cell, t) = FieldOf(cell, u) /\ FieldOf(cell, t) \notin MoneyFields
           \/ /\ FieldOf(cell, t) = RateFieldFor(t) /\ FieldOf(cell, u) = RateFieldFor(u)
              /\ RateFieldFor(t) \in MoneyFields /\ RateFieldFor(u) \in MoneyFields
<1>1. DOMAIN HeaderAliases \subseteq QuantityFields \cup {"item_identifier", "item_description", "unit"}
  BY DEF HeaderAliases, QuantityFields
<1>2. \A f \in DOMAIN HeaderAliases : f \notin MoneyFields
  BY <1>1, NamesAreNotMoney
<1>3. RateFieldFor(t) \in MoneyFields /\ RateFieldFor(u) \in MoneyFields
  BY DEF RateFieldFor, MoneyFields
<1> QED BY <1>2, <1>3, NamesAreNotMoney DEF FieldOf

LEMMA ColumnsAlike ==
    ASSUME NEW row, NEW t, NEW u
    PROVE  DOMAIN Columns(row, t) = DOMAIN Columns(row, u)
<1>1. ASSUME NEW c PROVE FieldOf(row[c], t) # "" <=> FieldOf(row[c], u) # ""
  BY FieldsAlike, NamesAreNotMoney
<1>2. {c \in DOMAIN row : FieldOf(row[c], t) # ""} = {c \in DOMAIN row : FieldOf(row[c], u) # ""}
  BY <1>1
<1> QED BY <1>2 DEF Columns

LEMMA OthersAlike ==
    ASSUME NEW row, NEW t, NEW u, NEW f, f \notin MoneyFields
    PROVE  Holding(Columns(row, t), f) = Holding(Columns(row, u), f)
<1>1. ASSUME NEW c \in DOMAIN Columns(row, t)
      PROVE  Columns(row, t)[c] = f <=> Columns(row, u)[c] = f
  <2>1. c \in DOMAIN Columns(row, u)
    BY ColumnsAlike
  <2>2. Columns(row, t)[c] = FieldOf(row[c], t) /\ Columns(row, u)[c] = FieldOf(row[c], u)
    BY <2>1 DEF Columns
  <2> QED BY <2>2, FieldsAlike
<1> QED BY <1>1, ColumnsAlike DEF Holding

LEMMA MoneyAlike ==
    ASSUME NEW row, NEW t, NEW u, NEW c \in DOMAIN Columns(row, t)
    PROVE  /\ Columns(row, t)[c] \in MoneyFields <=> Columns(row, u)[c] \in MoneyFields
           /\ Columns(row, t)[c] \in MoneyFields => Columns(row, t)[c] = RateFieldFor(t)
<1>1. c \in DOMAIN Columns(row, u)
  BY ColumnsAlike
<1>2. Columns(row, t)[c] = FieldOf(row[c], t) /\ Columns(row, u)[c] = FieldOf(row[c], u)
  BY <1>1 DEF Columns
<1> QED BY <1>2, <1>1, FieldsAlike

\* So two types of document do not make two facts of one place.
LEMMA StatingAlike ==
    ASSUME NEW row, NEW header, NEW t, NEW u, NEW f,
           f \in StatedFields(row, Columns(header, t)), f \in StatedFields(row, Columns(header, u))
    PROVE  Stating(row, Columns(header, t), f) = Stating(row, Columns(header, u), f)
<1>1. CASE f \notin MoneyFields
  <2>1. Holding(Columns(header, t), f) = Holding(Columns(header, u), f)
    BY <1>1, OthersAlike
  <2> QED BY <2>1 DEF Stating, Holding
<1>2. CASE f \in MoneyFields
  <2>1. PICK c \in DOMAIN Columns(header, t) : Columns(header, t)[c] = f
    BY DEF StatedFields, Stating
  <2>2. PICK d \in DOMAIN Columns(header, u) : Columns(header, u)[d] = f
    BY DEF StatedFields, Stating
  <2>3. f = RateFieldFor(t)
    BY <1>2, <2>1, MoneyAlike
  <2>4. f = RateFieldFor(u)
    BY <1>2, <2>2, MoneyAlike
  <2>5. ASSUME NEW cell PROVE FieldOf(cell, t) = FieldOf(cell, u)
    BY <2>3, <2>4, FieldsAlike
  <2>6. Columns(header, t) = Columns(header, u)
    BY <2>5 DEF Columns
  <2> QED BY <2>6
<1> QED BY <1>1, <1>2

LEMMA FieldFactOf ==
    ASSUME NEW row, NEW r, NEW columns, NEW x \in StatedFields(row, columns)
    PROVE  /\ FieldFact(row, r, columns, x).type = x /\ FieldFact(row, r, columns, x).row = r
           /\ x # "item_identifier"
BY DEF FieldFact, Fact, StatedFields, QuantityFields, MoneyFields

LEMMA ItemFactOf ==
    ASSUME NEW r, NEW cell
    PROVE  /\ ItemFact(r, cell).type = "item_identifier" /\ ItemFact(r, cell).row = r
           /\ ItemFact(r, cell).item = cell.item /\ ItemFact(r, cell).value = 0
BY DEF ItemFact, Fact

\* A fact of a row is the one of its type.
LEMMA RowFactIs ==
    ASSUME NEW row, NEW r, NEW columns, NEW f \in RowFacts(row, r, columns)
    PROVE  /\ f.row = r
           /\ ItemAt(columns) \in DOMAIN row /\ row[ItemAt(columns)].is = "item"
           /\ f.type = "item_identifier" => f = ItemFact(r, row[ItemAt(columns)])
           /\ f.type # "item_identifier" =>
                 f.type \in StatedFields(row, columns) /\ f = FieldFact(row, r, columns, f.type)
<1>1. /\ \/ \E x \in StatedFields(row, columns) : f = FieldFact(row, r, columns, x)
         \/ f = ItemFact(r, row[ItemAt(columns)])
      /\ ItemAt(columns) \in DOMAIN row /\ row[ItemAt(columns)].is = "item"
  BY DEF RowFacts
<1>2. CASE f = ItemFact(r, row[ItemAt(columns)])
  BY <1>1, <1>2, ItemFactOf
<1>3. CASE \E x \in StatedFields(row, columns) : f = FieldFact(row, r, columns, x)
  BY <1>1, <1>3, FieldFactOf
<1> QED BY <1>1, <1>2, <1>3

LEMMA RowsAlike ==
    ASSUME NEW row, NEW r, NEW header, NEW t, NEW u,
           NEW f \in RowFacts(row, r, Columns(header, t)), NEW g \in RowFacts(row, r, Columns(header, u)),
           f.type = g.type
    PROVE  f = g
<1> DEFINE C == Columns(header, t)
           D == Columns(header, u)
<1>1. Holding(C, "item_identifier") = Holding(D, "item_identifier")
  <2>1. "item_identifier" \notin MoneyFields
    BY NamesAreNotMoney
  <2> QED BY <2>1, OthersAlike
<1>2. Holding(C, "unit") = Holding(D, "unit")
  <2>1. "unit" \notin MoneyFields
    BY NamesAreNotMoney
  <2> QED BY <2>1, OthersAlike
<1>3. ItemAt(C) = ItemAt(D) /\ UnitOf(row, C) = UnitOf(row, D)
  <2> HIDE DEF C, D
  <2> QED BY <1>1, <1>2 DEF ItemAt, UnitOf
<1>4. ASSUME NEW x \in StatedFields(row, C), x \in StatedFields(row, D)
      PROVE  FieldFact(row, r, C, x) = FieldFact(row, r, D, x)
  <2>1. Stating(row, C, x) = Stating(row, D, x)
    BY <1>4, StatingAlike
  <2> HIDE DEF C, D
  <2> QED BY <1>3, <2>1 DEF FieldFact
<1> HIDE DEF C, D
<1>5. f \in RowFacts(row, r, C) /\ g \in RowFacts(row, r, D)
  BY DEF C, D
<1>6. CASE f.type = "item_identifier"
  <2>1. f = ItemFact(r, row[ItemAt(C)])
    BY <1>5, <1>6, RowFactIs
  <2>2. g.type = "item_identifier"
    BY <1>6
  <2>3. g = ItemFact(r, row[ItemAt(D)])
    BY <1>5, <2>2, RowFactIs
  <2> QED BY <1>3, <2>1, <2>3
<1>7. CASE f.type # "item_identifier"
  <2>1. f.type \in StatedFields(row, C) /\ f = FieldFact(row, r, C, f.type)
    BY <1>5, <1>7, RowFactIs
  <2>2. g.type \in StatedFields(row, D) /\ g = FieldFact(row, r, D, g.type)
    BY <1>5, <1>7, RowFactIs
  <2> QED BY <1>4, <2>1, <2>2
<1> QED BY <1>6, <1>7

LEMMA HeadersAlike ==
    ASSUME NEW grid, NEW t, NEW u
    PROVE  HeaderRow(grid, t) = HeaderRow(grid, u)
<1>1. ASSUME NEW r PROVE IsHeader(Columns(grid[r], t)) <=> IsHeader(Columns(grid[r], u))
  <2> DEFINE C == Columns(grid[r], t)
             D == Columns(grid[r], u)
  <2>1. Holding(C, "item_identifier") = Holding(D, "item_identifier")
    <3>1. "item_identifier" \notin MoneyFields
      BY NamesAreNotMoney
    <3> QED BY <3>1, OthersAlike
  <2>2. DOMAIN C = DOMAIN D
    BY ColumnsAlike
  <2>3. \A c \in DOMAIN C : C[c] \in MoneyFields <=> D[c] \in MoneyFields
    BY MoneyAlike
  <2>4. ASSUME NEW f \in QuantityFields PROVE Holding(C, f) = Holding(D, f)
    <3>1. f \notin MoneyFields
      BY NamesAreNotMoney
    <3> QED BY <3>1, OthersAlike
  <2> HIDE DEF C, D
  <2>5. \A c \in DOMAIN C : C[c] \in QuantityFields <=> D[c] \in QuantityFields
    BY <2>2, <2>4 DEF Holding
  <2>6. IsHeader(C) <=> IsHeader(D)
    BY <2>1, <2>2, <2>3, <2>5 DEF IsHeader
  <2> QED BY <2>6 DEF C, D
<1>2. {r \in DOMAIN grid : IsHeader(Columns(grid[r], t))} = {r \in DOMAIN grid : IsHeader(Columns(grid[r], u))}
  BY <1>1
<1> QED BY <1>2 DEF HeaderRow

LEMMA HeaderIs ==
    ASSUME NEW grid, IsGrid(grid), NEW t, HeaderRow(grid, t) # 0
    PROVE  HeaderRow(grid, t) \in Nat \ {0} /\ HeaderRow(grid, t) \in DOMAIN grid
<1> DEFINE rows == {r \in DOMAIN grid : IsHeader(Columns(grid[r], t))}
<1>1. rows # {} /\ HeaderRow(grid, t) = Min(rows)
  BY DEF HeaderRow
<1>2. \A r \in rows : r \in Nat \ {0} /\ r \in DOMAIN grid
  BY DEF IsGrid
<1> HIDE DEF rows
<1>3. rows \in SUBSET Nat
  BY <1>2
<1>4. Min(rows) \in rows
  BY <1>1, <1>3, LeastOf
<1> QED BY <1>1, <1>2, <1>4

\* At most one line names the project.
LEMMA ProjectFact ==
    ASSUME NEW grid, IsGrid(grid), NEW f \in ProjectReference(grid), NEW g \in ProjectReference(grid)
    PROVE  f = g /\ f.type = "project_reference" /\ f.row \in Nat /\ f.value = 0
<1> DEFINE places == {p \in (DOMAIN grid) \X (1..MaxColumns) :
                        p[2] \in DOMAIN grid[p[1]] /\ grid[p[1]][p[2]].is = "project"}
           First(p) == \A q \in places : p[1] < q[1] \/ (p[1] = q[1] /\ p[2] <= q[2])
           Of(p) == Fact("project_reference", p[1], "", 0, <<grid[p[1]][p[2]]>>, "")
<1>1. ProjectReference(grid) = {Of(p) : p \in {x \in places : First(x)}}
  BY DEF ProjectReference
<1>2. PICK p \in places : First(p) /\ f = Of(p)
  BY <1>1
<1>3. PICK q \in places : First(q) /\ g = Of(q)
  BY <1>1
<1>4. p[1] \in Nat /\ p[2] \in Nat /\ q[1] \in Nat /\ q[2] \in Nat
  BY SheetAssumption DEF IsGrid
<1>5. p[1] = q[1] /\ p[2] = q[2]
  <2>1. p[1] < q[1] \/ (p[1] = q[1] /\ p[2] <= q[2])
    BY <1>2, <1>3
  <2>2. q[1] < p[1] \/ (q[1] = p[1] /\ q[2] <= p[2])
    BY <1>2, <1>3
  <2> QED BY <1>4, <2>1, <2>2
<1> QED BY <1>2, <1>3, <1>4, <1>5 DEF Fact

\* A row states no project.
LEMMA RowsNameNone ==
    ASSUME NEW row, NEW r, NEW columns, NEW f \in RowFacts(row, r, columns)
    PROVE  f.type # "project_reference"
<1>1. f.type # "item_identifier" => f.type \in StatedFields(row, columns)
  BY RowFactIs
<1> QED BY <1>1 DEF StatedFields, QuantityFields, MoneyFields

\* A fact of a sheet is its project line or of a row below the header.
LEMMA SheetFactIs ==
    ASSUME NEW sheet, NEW t, NEW f \in SheetFacts(sheet, t), IsGrid(Window(sheet))
    PROVE  LET grid == Window(sheet)
               h == HeaderRow(grid, t)
           IN  \/ f \in ProjectReference(grid)
               \/ /\ h # 0 /\ f.row \in Nat \ {0} /\ f.row \in DOMAIN grid
                  /\ f \in RowFacts(grid[f.row], f.row, Columns(grid[h], t))
<1> DEFINE grid == Window(sheet)
           h == HeaderRow(grid, t)
<1>1. CASE f \in ProjectReference(grid)
  BY <1>1
<1>2. CASE f \notin ProjectReference(grid)
  <2>1. PICK n \in Nat : DOMAIN grid = 1..n
    BY DEF IsGrid
  <2>2. h # 0 /\ \E r \in (h + 1)..Len(grid) : f \in RowFacts(grid[r], r, Columns(grid[h], t))
    BY <1>2 DEF SheetFacts
  <2>3. h \in Nat
    BY <2>2, HeaderIs
  <2>4. grid = [r \in 1..n |-> grid[r]]
    BY <2>1 DEF Window
  <2>5. Len(grid) = n
    BY <2>1, <2>4
  <2>6. PICK r \in (h + 1)..n : f \in RowFacts(grid[r], r, Columns(grid[h], t))
    BY <2>2, <2>5
  <2>7. f.row = r
    BY <2>6, RowFactIs
  <2>8. r \in Nat \ {0} /\ r \in DOMAIN grid
    BY <2>1, <2>3
  <2> QED BY <2>2, <2>6, <2>7, <2>8
<1> QED BY <1>1, <1>2

LEMMA SheetFactsAlike ==
    ASSUME NEW sheet, IsGrid(Window(sheet)), NEW t, NEW u,
           NEW f \in SheetFacts(sheet, t), NEW g \in SheetFacts(sheet, u),
           f.type = g.type, f.row = g.row
    PROVE  f = g
<1> DEFINE grid == Window(sheet)
<1>1. CASE f.type = "project_reference"
  <2>1. f \in ProjectReference(grid)
    BY <1>1, SheetFactIs, RowsNameNone
  <2>2. g \in ProjectReference(grid)
    BY <1>1, SheetFactIs, RowsNameNone
  <2> QED BY <2>1, <2>2, ProjectFact
<1>2. CASE f.type # "project_reference"
  <2>1. f \notin ProjectReference(grid) /\ g \notin ProjectReference(grid)
    BY <1>2, ProjectFact
  <2>2. f \in RowFacts(grid[f.row], f.row, Columns(grid[HeaderRow(grid, t)], t))
    BY <2>1, SheetFactIs
  <2>3. g \in RowFacts(grid[g.row], g.row, Columns(grid[HeaderRow(grid, u)], u))
    BY <2>1, SheetFactIs
  <2>4. HeaderRow(grid, t) = HeaderRow(grid, u)
    BY HeadersAlike
  <2> QED BY <2>2, <2>3, <2>4, RowsAlike
<1> QED BY <1>1, <1>2

LEMMA CellIs ==
    ASSUME NEW cell \in Cells
    PROVE  /\ cell.is = "number" => cell.n \in Int
           /\ cell.is = "item" => cell.item \in Items
BY DEF Cells

LEMMA FieldFactValue ==
    ASSUME NEW row, IsRow(row), NEW r, NEW header, NEW t, NEW f \in StatedFields(row, Columns(header, t))
    PROVE  FieldFact(row, r, Columns(header, t), f).value \in Int
<1> DEFINE C == Columns(header, t)
           S == Stating(row, C, f)
<1>1. PICK m \in Nat : DOMAIN row = 1..m /\ \A c \in 1..m : row[c] \in Cells
  BY DEF IsRow
<1>2. S \subseteq 1..m /\ S # {}
  BY <1>1 DEF Stating, StatedFields
<1>3. Max(S) \in S
  <2> HIDE DEF S
  <2> QED BY <1>2, GreatestOf
<1>4. Usable(row[Max(S)], f) /\ row[Max(S)] \in Cells
  BY <1>1, <1>2, <1>3 DEF Stating
<1>5. CASE f = "item_description"
  BY <1>5 DEF FieldFact, Fact
<1>6. CASE f # "item_description"
  <2>1. row[Max(S)].is = "number"
    BY <1>4, <1>6 DEF Usable
  <2>2. row[Max(S)].n \in Int
    BY <1>4, <2>1, CellIs
  <2>3. FieldFact(row, r, C, f).value = row[Max(S)].n
    BY <1>6 DEF FieldFact, Fact
  <2> QED BY <2>2, <2>3
<1> QED BY <1>5, <1>6

LEMMA SheetFactTyped ==
    ASSUME NEW sheet, IsGrid(Window(sheet)), NEW t, NEW f \in SheetFacts(sheet, t)
    PROVE  /\ f.row \in Nat /\ f.type \in FactTypes /\ f.value \in Int
           /\ f.type = "item_identifier" => f.item \in Items
<1> DEFINE grid == Window(sheet)
           header == grid[HeaderRow(grid, t)]
<1>1. CASE f \in ProjectReference(grid)
  <2>1. f.type = "project_reference" /\ f.row \in Nat /\ f.value = 0
    BY <1>1, ProjectFact
  <2> QED BY <2>1 DEF FactTypes
<1>2. CASE f \notin ProjectReference(grid)
  <2>1. /\ f.row \in Nat \ {0} /\ f.row \in DOMAIN grid
        /\ f \in RowFacts(grid[f.row], f.row, Columns(header, t))
    BY <1>2, SheetFactIs
  <2>2. IsRow(grid[f.row])
    BY <2>1 DEF IsGrid
  <2> DEFINE row == grid[f.row]
             C == Columns(header, t)
  <2>3. CASE f.type = "item_identifier"
    <3>1. f = ItemFact(f.row, row[ItemAt(C)]) /\ ItemAt(C) \in DOMAIN row /\ row[ItemAt(C)].is = "item"
      BY <2>1, <2>3, RowFactIs
    <3>2. row[ItemAt(C)] \in Cells
      BY <2>2, <3>1 DEF IsRow
    <3>3. row[ItemAt(C)].item \in Items
      BY <3>1, <3>2, CellIs
    <3>4. f.value = 0 /\ f.item = row[ItemAt(C)].item
      BY <3>1, ItemFactOf
    <3> QED BY <2>1, <2>3, <3>3, <3>4 DEF FactTypes
  <2>4. CASE f.type # "item_identifier"
    <3>1. f.type \in StatedFields(row, C) /\ f = FieldFact(row, f.row, C, f.type)
      BY <2>1, <2>4, RowFactIs
    <3>2. f.value \in Int
      BY <2>2, <3>1, FieldFactValue
    <3>3. f.type \in FactTypes
      BY <3>1 DEF StatedFields, FactTypes
    <3> QED BY <2>1, <2>4, <3>2, <3>3
  <2> QED BY <2>3, <2>4
<1> QED BY <1>1, <1>2

-----------------------------------------------------------------------------
(* What is stored of it *)

LEMMA SheetIsGrid ==
    ASSUME NEW d \in Documents, NEW v \in Versions
    PROVE  IsGrid(Window(Sheet[d][v]))
<1>1. Sheet[d][v] \in Seq(Seq(Cells))
  BY ReconciliationAssumption
<1> QED BY <1>1, WindowIsGrid

LEMMA StoredIsInt ==
    ASSUME NEW n \in Int
    PROVE  Stored(n) \in Int
BY DEF Stored

LEMMA ReadingIs ==
    ASSUME NEW d \in Documents, NEW v \in Versions, NEW t \in Types, NEW f \in Reading[<<d, v, t>>]
    PROVE  \E x \in SheetFacts(Sheet[d][v], t) : f = Row(d, v, x)
<1>1. Reading[<<d, v, t>>] = {Row(d, v, x) : x \in SheetFacts(Sheet[d][v], t)}
  BY DEF Reading
<1> QED BY <1>1

\* What the proofs need of a stored fact.
Typed(f) ==
    /\ f.doc \in Documents /\ f.version \in Versions
    /\ f.row \in Nat /\ f.type \in FactTypes /\ f.value \in Int
    /\ f.type = "item_identifier" => f.item \in Items

LEMMA ReadingIsTyped ==
    ASSUME NEW d \in Documents, NEW v \in Versions, NEW t \in Types, NEW f \in Reading[<<d, v, t>>]
    PROVE  Typed(f) /\ f.doc = d /\ f.version = v /\ IsRead(f)
<1>1. PICK x \in SheetFacts(Sheet[d][v], t) : f = Row(d, v, x)
  BY ReadingIs
<1>2. /\ x.row \in Nat /\ x.type \in FactTypes /\ x.value \in Int
      /\ x.type = "item_identifier" => x.item \in Items
  BY SheetIsGrid, SheetFactTyped
<1>3. Stored(x.value) \in Int
  BY <1>2, StoredIsInt
<1>4. /\ f.doc = d /\ f.version = v /\ f.row = x.row /\ f.type = x.type
      /\ f.value = Stored(x.value) /\ f.item = x.item
  BY <1>1 DEF Row
<1> QED BY <1>2, <1>3, <1>4 DEF Typed, IsRead

\* Facts that were read are told apart by their keys.
LEMMA OneOfAKey ==
    ASSUME NEW f, NEW g, IsRead(f), IsRead(g), KeyOf(f) = KeyOf(g)
    PROVE  f = g
<1>1. f.doc = g.doc /\ f.version = g.version /\ f.type = g.type /\ f.row = g.row
  BY DEF KeyOf
<1> DEFINE d == f.doc
           v == f.version
<1>2. d \in Documents /\ v \in Versions
  BY DEF IsRead
<1>3. PICK t \in Types : f \in Reading[<<d, v, t>>]
  BY DEF IsRead
<1>4. PICK u \in Types : g \in Reading[<<d, v, u>>]
  BY <1>1 DEF IsRead
<1>5. PICK x \in SheetFacts(Sheet[d][v], t) : f = Row(d, v, x)
  BY <1>2, <1>3, ReadingIs
<1>6. PICK y \in SheetFacts(Sheet[d][v], u) : g = Row(d, v, y)
  BY <1>2, <1>4, ReadingIs
<1>7. x.type = y.type /\ x.row = y.row
  <2>1. f.type = x.type /\ f.row = x.row
    BY <1>5 DEF Row
  <2>2. g.type = y.type /\ g.row = y.row
    BY <1>6 DEF Row
  <2> QED BY <1>1, <2>1, <2>2
<1>8. x = y
  BY <1>2, <1>5, <1>6, <1>7, SheetIsGrid, SheetFactsAlike
<1> QED BY <1>5, <1>6, <1>8

LEMMA ReadIsTyped ==
    ASSUME NEW f, IsRead(f)
    PROVE  Typed(f)
BY ReadingIsTyped DEF IsRead

-----------------------------------------------------------------------------
(* What is selected *)

\* Candidates of a type among some facts.
CandidatesOf(t, all, inForce) == NewestPerClaim({f \in all : f.type = t /\ f.doc \in inForce})

LEMMA CandidateIs ==
    ASSUME NEW t, NEW all, NEW inForce, NEW f
    PROVE  f \in CandidatesOf(t, all, inForce) <=>
              /\ f \in all /\ f.type = t /\ f.doc \in inForce
              /\ \A g \in all :
                    g.type = t /\ g.doc \in inForce /\ g.doc = f.doc /\ g.row = f.row =>
                       Rank[g.version] <= Rank[f.version]
BY DEF CandidatesOf, NewestPerClaim

LEMMA NoFactIs ==
    ASSUME NEW f, IsRead(f)
    PROVE  f # NoFact
<1>1. f.type \in FactTypes
  BY ReadIsTyped DEF Typed
<1>2. "" \notin FactTypes
  BY DEF FactTypes, QuantityFields, MoneyFields
<1>3. NoFact.type = ""
  BY DEF NoFact
<1> QED BY <1>1, <1>2, <1>3

\* The candidate that stands first in its document.
LEMMA FirstCandidate ==
    ASSUME NEW S, S # {}, \A f \in S : IsRead(f)
    PROVE  (CHOOSE f \in S : \A g \in S : f.doc = g.doc => f.row <= g.row) \in S
<1>1. PICK f \in S : TRUE
  OBVIOUS
<1> DEFINE rows == {g.row : g \in {x \in S : x.doc = f.doc}}
<1>2. \A g \in S : g.row \in Nat
  BY ReadIsTyped DEF Typed
<1>3. rows \in SUBSET Nat /\ rows # {}
  BY <1>1, <1>2
<1>4. PICK r \in rows : \A q \in rows : r <= q
  <2> HIDE DEF rows
  <2> QED BY <1>3, LeastOf
<1>5. PICK g \in S : g.doc = f.doc /\ g.row = r
  BY <1>4
<1>6. ASSUME NEW h \in S, g.doc = h.doc PROVE g.row <= h.row
  <2>1. h.row \in rows
    BY <1>5, <1>6
  <2> QED BY <1>4, <1>5, <2>1
<1> QED BY <1>6

LEMMA SelectedIs ==
    ASSUME NEW t, NEW all, NEW inForce, \A f \in all : IsRead(f)
    PROVE  LET s == SelectOne(t, {f \in all : f.type = t}, inForce, {})
               C == CandidatesOf(t, all, inForce)
           IN  /\ s.type = t /\ s.considered = C
               /\ s.conflicting <=> \E f \in C, g \in C : Comparable(f) # Comparable(g)
               /\ s.fact # NoFact <=> C # {} /\ ~ s.conflicting
               /\ s.fact # NoFact => s.fact \in C
<1> DEFINE C == CandidatesOf(t, all, inForce)
<1>1. {f \in {f \in all : f.type = t} \ {} : f.doc \in inForce} = {f \in all : f.type = t /\ f.doc \in inForce}
  OBVIOUS
<1>2. SelectOne(t, {f \in all : f.type = t}, inForce, {}) = Selected(t, C)
  BY <1>1 DEF SelectOne, CandidatesOf
<1>3. \A f \in C : IsRead(f)
  BY CandidateIs
<1> HIDE DEF C
<1>4. C # {} => FirstOf(C) \in C
  BY <1>3, FirstCandidate DEF FirstOf
<1>5. C # {} => FirstOf(C) # NoFact
  BY <1>3, <1>4, NoFactIs
<1>6. Agree(C) <=> ~ \E f \in C, g \in C : Comparable(f) # Comparable(g)
  BY DEF Agree
<1>7. /\ Selected(t, C).type = t /\ Selected(t, C).considered = C
      /\ Selected(t, C).conflicting <=> ~ Agree(C)
      /\ Selected(t, C).fact # NoFact <=> C # {} /\ Agree(C)
      /\ Selected(t, C).fact # NoFact => Selected(t, C).fact \in C
  BY <1>4, <1>5 DEF Selected
<1>8. LET s == Selected(t, C)
      IN  /\ s.type = t /\ s.considered = C
          /\ s.conflicting <=> \E f \in C, g \in C : Comparable(f) # Comparable(g)
          /\ s.fact # NoFact <=> C # {} /\ ~ s.conflicting
          /\ s.fact # NoFact => s.fact \in C
  BY <1>6, <1>7
<1> QED BY <1>2, <1>8 DEF C

\* One selection for each type that is stated.
SelectionOf(t, all, inForce) == SelectOne(t, {f \in all : f.type = t}, inForce, {})

LEMMA SelectionsAre ==
    ASSUME NEW all, NEW inForce
    PROVE  SelectFacts(all, inForce, {}) = {SelectionOf(t, all, inForce) : t \in {f.type : f \in all}}
BY DEF SelectFacts, SelectionOf

\* A chosen fact is the one of its selection: at most one of a type.
LEMMA ChosenIs ==
    ASSUME NEW all, NEW inForce, \A f \in all : IsRead(f),
           NEW f \in Chosen(SelectFacts(all, inForce, {}))
    PROVE  /\ f = SelectionOf(f.type, all, inForce).fact /\ f # NoFact
           /\ f \in CandidatesOf(f.type, all, inForce) /\ f \in all
           /\ \A g \in CandidatesOf(f.type, all, inForce) : Comparable(g) = Comparable(f)
<1>1. PICK s \in SelectFacts(all, inForce, {}) : s.fact # NoFact /\ f = s.fact
  BY DEF Chosen
<1>2. PICK t : s = SelectionOf(t, all, inForce)
  BY <1>1, SelectionsAre
<1>3. /\ s.fact \in CandidatesOf(t, all, inForce)
      /\ \A g \in CandidatesOf(t, all, inForce), h \in CandidatesOf(t, all, inForce) :
            Comparable(g) = Comparable(h)
  BY <1>1, <1>2, SelectedIs DEF SelectionOf
<1>4. f.type = t /\ f \in all
  BY <1>1, <1>3, CandidateIs
<1> QED BY <1>1, <1>2, <1>3, <1>4

LEMMA ChosenOnce ==
    ASSUME NEW all, NEW inForce, \A f \in all : IsRead(f),
           NEW f \in Chosen(SelectFacts(all, inForce, {})), NEW g \in Chosen(SelectFacts(all, inForce, {})),
           f.type = g.type
    PROVE  f = g
BY ChosenIs

LEMMA TheIs ==
    ASSUME NEW all, NEW inForce, \A f \in all : IsRead(f),
           NEW f \in Chosen(SelectFacts(all, inForce, {}))
    PROVE  The(Chosen(SelectFacts(all, inForce, {})), f.type) = f
BY ChosenOnce DEF The

\* What is in dispute, of the types a rule reads.
LEMMA DisputedAre ==
    ASSUME NEW all, NEW inForce, \A f \in all : IsRead(f), NEW types,
           NEW f \in all, NEW g \in all, f.type = g.type, f.type \in types,
           f \in CandidatesOf(f.type, all, inForce), g \in CandidatesOf(f.type, all, inForce),
           Comparable(f) # Comparable(g)
    PROVE  Disputed(SelectFacts(all, inForce, {}), types) # {}
<1> DEFINE s == SelectionOf(f.type, all, inForce)
<1>1. s \in SelectFacts(all, inForce, {})
  BY SelectionsAre
<1>2. s.type = f.type /\ s.conflicting
  BY SelectedIs DEF SelectionOf
<1> HIDE DEF s
<1> QED BY <1>1, <1>2 DEF Disputed

LEMMA ConsideredAre ==
    ASSUME NEW all, NEW inForce, \A f \in all : IsRead(f),
           NEW s \in SelectFacts(all, inForce, {}), NEW f \in s.considered
    PROVE  f \in all /\ f.doc \in inForce
<1>1. PICK t : s = SelectionOf(t, all, inForce)
  BY SelectionsAre
<1>2. f \in CandidatesOf(t, all, inForce)
  BY <1>1, SelectedIs DEF SelectionOf
<1> QED BY <1>2, CandidateIs

-----------------------------------------------------------------------------
(* What is judged *)

ClaimInputs == {"cumulative_claim_quantity", "measured_quantity"}

ClaimJudged(S, computed) ==
    Judged(S, computed, ClaimInputs, {"quantity_variance"}, Amount(computed, "quantity_variance") <= 0)

LEMMA ClaimUses ==
    ASSUME NEW S, NEW computed
    PROVE  LET E == EvaluateClaimWithinMeasured(S, computed)
               J == ClaimJudged(S, computed)
           IN  /\ E.outcome = J.outcome /\ E.cites = J.cites
               /\ E.uses # {} => J.uses # {}
               /\ E.uses \subseteq J.uses \cup (TypesOf(computed) \cap {"unsupported_amount"})
               /\ J.uses = {} => E.uses = {}
<1> DEFINE J == ClaimJudged(S, computed)
           X == TypesOf(computed) \cap {"unsupported_amount"}
<1>1. EvaluateClaimWithinMeasured(S, computed) = IF J.uses = {} THEN J ELSE [J EXCEPT !.uses = @ \cup X]
  BY DEF EvaluateClaimWithinMeasured, ClaimJudged, ClaimInputs
<1>2. PICK o, c, u : J = [outcome |-> o, cites |-> c, uses |-> u]
  BY DEF ClaimJudged, Judged
<1> HIDE DEF J, X
<1>3. [J EXCEPT !.uses = @ \cup X] = [outcome |-> J.outcome, cites |-> J.cites, uses |-> J.uses \cup X]
  BY <1>2
<1> QED BY <1>1, <1>3 DEF J, X

\* Every rule cites what was considered or chosen.
LEMMA RuleCites ==
    ASSUME NEW S, NEW computed, NEW r \in Rules, NEW f \in EvaluateWorkItem(S, computed)[r].cites
    PROVE  (\E s \in S : f \in s.considered) \/ f \in Chosen(S)
<1> DEFINE Backed(J) == \A g \in J.cites : (\E s \in S : g \in s.considered) \/ g \in Chosen(S)
<1>1. \A types : \A g \in UNION {s.considered : s \in Disputed(S, types)} : \E s \in S : g \in s.considered
  BY DEF Disputed
<1>2. Backed(EvaluateUnambiguousEvidence(S))
  BY <1>1 DEF EvaluateUnambiguousEvidence, Judged
<1>3. Backed(EvaluateRateMatchesContract(S, computed))
  BY <1>1 DEF EvaluateRateMatchesContract, Judged
<1>4. Backed(EvaluateCumulativeNotRegressed(S))
  BY <1>1 DEF EvaluateCumulativeNotRegressed, Judged
<1>5. Backed(EvaluateClaimWithinMeasured(S, computed))
  <2>1. Backed(ClaimJudged(S, computed))
    BY <1>1 DEF ClaimJudged, Judged
  <2> QED BY <2>1, ClaimUses
<1> QED BY <1>2, <1>3, <1>4, <1>5 DEF EvaluateWorkItem, Rules

LEMMA RuleCitesOfItem ==
    ASSUME NEW all, NEW inForce, \A f \in all : IsRead(f), NEW computed, NEW r \in Rules,
           NEW f \in EvaluateWorkItem(SelectFacts(all, inForce, {}), computed)[r].cites
    PROVE  f \in all /\ f.doc \in inForce
<1> DEFINE S == SelectFacts(all, inForce, {})
<1>1. (\E s \in S : f \in s.considered) \/ f \in Chosen(S)
  BY RuleCites
<1>2. CASE f \in Chosen(S)
  BY <1>2, ChosenIs, CandidateIs
<1>3. CASE \E s \in S : f \in s.considered
  BY <1>3, ConsideredAre
<1> QED BY <1>1, <1>2, <1>3

\* Each computation has a type of its own.
LEMMA ComputedIs ==
    ASSUME NEW chosen, NEW x \in ComputeForWorkItem(chosen)
    PROVE  /\ x.type = "quantity_variance" => x \in QuantityVariance(chosen)
           /\ x.type = "unsupported_amount" => x \in UnsupportedAmount(chosen, QuantityVariance(chosen))
<1>1. ASSUME NEW kind, NEW left, NEW right, NEW y \in Difference(chosen, kind, left, right)
      PROVE  y.type = kind
  BY DEF Difference, Calculated
<1>2. \A y \in QuantityVariance(chosen) : y.type = "quantity_variance"
  BY <1>1 DEF QuantityVariance
<1>3. \A y \in RemainingContractQuantity(chosen) : y.type = "remaining_contract_quantity"
  BY <1>1 DEF RemainingContractQuantity
<1>4. \A y \in RateVariance(chosen) : y.type = "rate_variance"
  BY <1>1 DEF RateVariance
<1>5. \A y \in UnsupportedAmount(chosen, QuantityVariance(chosen)) : y.type = "unsupported_amount"
  BY DEF UnsupportedAmount, Calculated
<1> QED BY <1>2, <1>3, <1>4, <1>5 DEF ComputeForWorkItem

\* The variance of a claim c that m measures, and what the excess is worth.
Excess(c, m) == IF c.value - m.value > 0 THEN c.value - m.value ELSE 0

ClaimRow(c, m) == Calculated("quantity_variance", c.value - m.value, {c, m})

WorthRow(c, m, f) == Calculated("unsupported_amount", Excess(c, m) * f.value, {f})

LEMMA VarianceIs ==
    ASSUME NEW all, NEW inForce, \A f \in all : IsRead(f),
           "quantity_variance" \in TypesOf(ComputeForWorkItem(Chosen(SelectFacts(all, inForce, {}))))
    PROVE  \E c \in Chosen(SelectFacts(all, inForce, {})), m \in Chosen(SelectFacts(all, inForce, {})) :
              /\ c.type = "cumulative_claim_quantity" /\ m.type = "measured_quantity" /\ SameUnit(c, m)
              /\ QuantityVariance(Chosen(SelectFacts(all, inForce, {}))) = {ClaimRow(c, m)}
<1> DEFINE chosen == Chosen(SelectFacts(all, inForce, {}))
           left == "cumulative_claim_quantity"
           right == "measured_quantity"
<1>1. QuantityVariance(chosen) # {}
  BY ComputedIs DEF TypesOf
<1>2. /\ Has(chosen, {left, right}) /\ SameUnit(The(chosen, left), The(chosen, right))
      /\ QuantityVariance(chosen) =
            {Calculated("quantity_variance", The(chosen, left).value - The(chosen, right).value,
                        {The(chosen, left), The(chosen, right)})}
  <2> HIDE DEF chosen
  <2> QED BY <1>1 DEF QuantityVariance, Difference
<1>3. PICK c \in chosen : c.type = left
  BY <1>2 DEF Has
<1>4. PICK m \in chosen : m.type = right
  BY <1>2 DEF Has
<1>5. The(chosen, left) = c
  BY <1>3, TheIs
<1>6. The(chosen, right) = m
  BY <1>4, TheIs
<1> HIDE DEF chosen
<1>7. SameUnit(c, m) /\ QuantityVariance(chosen) = {ClaimRow(c, m)}
  BY <1>2, <1>5, <1>6 DEF ClaimRow
<1> QED BY <1>3, <1>4, <1>7 DEF chosen

LEMMA WorthIs ==
    ASSUME NEW all, NEW inForce, \A f \in all : IsRead(f), NEW c, NEW m,
           QuantityVariance(Chosen(SelectFacts(all, inForce, {}))) = {ClaimRow(c, m)},
           "unsupported_amount" \in TypesOf(ComputeForWorkItem(Chosen(SelectFacts(all, inForce, {}))))
    PROVE  \E f \in Chosen(SelectFacts(all, inForce, {})) :
              UnsupportedAmount(Chosen(SelectFacts(all, inForce, {})), {ClaimRow(c, m)}) = {WorthRow(c, m, f)}
<1> DEFINE chosen == Chosen(SelectFacts(all, inForce, {}))
<1>1. UnsupportedAmount(chosen, {ClaimRow(c, m)}) # {}
  BY ComputedIs DEF TypesOf
<1>2. Has(chosen, {"contract_rate"})
  <2> HIDE DEF chosen
  <2> QED BY <1>1 DEF UnsupportedAmount
<1>3. PICK f \in chosen : f.type = "contract_rate"
  BY <1>2 DEF Has
<1>4. The(chosen, "contract_rate") = f
  BY <1>3, TheIs
<1> HIDE DEF chosen
<1>5. ClaimRow(c, m).value = c.value - m.value
  BY DEF ClaimRow, Calculated
<1>6. UnsupportedAmount(chosen, {ClaimRow(c, m)}) =
        {Calculated("unsupported_amount",
                    (IF v.value > 0 THEN v.value ELSE 0) * The(chosen, "contract_rate").value,
                    {The(chosen, "contract_rate")}) : v \in {ClaimRow(c, m)}}
  BY <1>2 DEF UnsupportedAmount
<1>7. UnsupportedAmount(chosen, {ClaimRow(c, m)}) = {WorthRow(c, m, f)}
  BY <1>4, <1>5, <1>6 DEF WorthRow, Excess
<1> QED BY <1>7 DEF chosen

LEMMA AmountIs ==
    ASSUME NEW chosen, NEW c, NEW m, QuantityVariance(chosen) = {ClaimRow(c, m)}
    PROVE  Amount(ComputeForWorkItem(chosen), "quantity_variance") = c.value - m.value
<1>1. ClaimRow(c, m) \in ComputeForWorkItem(chosen)
  BY DEF ComputeForWorkItem
<1>2. ClaimRow(c, m).type = "quantity_variance" /\ ClaimRow(c, m).value = c.value - m.value
  BY DEF ClaimRow, Calculated
<1>3. \A x \in ComputeForWorkItem(chosen) : x.type = "quantity_variance" => x = ClaimRow(c, m)
  BY ComputedIs
<1>4. The(ComputeForWorkItem(chosen), "quantity_variance") = ClaimRow(c, m)
  BY <1>1, <1>2, <1>3 DEF The
<1> QED BY <1>2, <1>4 DEF Amount

\* A verdict that uses a computation, or passes, on one claim that one figure
\* measures.
LEMMA ClaimVerdict ==
    ASSUME NEW all, NEW inForce, \A f \in all : IsRead(f),
           LET S == SelectFacts(all, inForce, {})
               E == EvaluateClaimWithinMeasured(S, ComputeForWorkItem(Chosen(S)))
           IN  E.uses # {} \/ E.outcome = "pass"
    PROVE  LET S == SelectFacts(all, inForce, {})
               E == EvaluateClaimWithinMeasured(S, ComputeForWorkItem(Chosen(S)))
           IN  \E c \in Chosen(S), m \in Chosen(S) :
                  /\ c.type = "cumulative_claim_quantity" /\ m.type = "measured_quantity" /\ SameUnit(c, m)
                  /\ QuantityVariance(Chosen(S)) = {ClaimRow(c, m)}
                  /\ E.cites = {c, m}
                  /\ E.outcome = IF c.value - m.value <= 0 THEN "pass" ELSE "review"
                  /\ E.uses \subseteq TypesOf(ComputeForWorkItem(Chosen(S)))
<1> DEFINE S == SelectFacts(all, inForce, {})
           chosen == Chosen(S)
           computed == ComputeForWorkItem(chosen)
           E == EvaluateClaimWithinMeasured(S, computed)
           J == ClaimJudged(S, computed)
<1>1. J.uses # {} \/ J.outcome = "pass"
  BY ClaimUses
<1>2. /\ ClaimInputs \subseteq TypesOf(chosen) /\ {"quantity_variance"} \subseteq TypesOf(computed)
      /\ J.cites = {f \in chosen : f.type \in ClaimInputs} /\ J.uses = {"quantity_variance"}
      /\ J.outcome = IF Amount(computed, "quantity_variance") <= 0 THEN "pass" ELSE "review"
  <2> HIDE DEF S, computed
  <2> QED BY <1>1 DEF ClaimJudged, Judged, chosen
<1>3. PICK c \in chosen, m \in chosen :
        /\ c.type = "cumulative_claim_quantity" /\ m.type = "measured_quantity" /\ SameUnit(c, m)
        /\ QuantityVariance(chosen) = {ClaimRow(c, m)}
  BY <1>2, VarianceIs
<1>4. Amount(computed, "quantity_variance") = c.value - m.value
  BY <1>3, AmountIs
<1>5. J.cites = {c, m}
  <2>1. \A f \in chosen : f.type = c.type => f = c
    BY ChosenOnce
  <2>2. \A f \in chosen : f.type = m.type => f = m
    BY ChosenOnce
  <2> HIDE DEF chosen
  <2> QED BY <1>2, <1>3, <2>1, <2>2 DEF ClaimInputs
<1>6. E.outcome = J.outcome /\ E.cites = J.cites /\ E.uses \subseteq TypesOf(computed)
  <2>1. E.uses \subseteq J.uses \cup TypesOf(computed)
    BY ClaimUses
  <2> QED BY <1>2, <2>1, ClaimUses
<1> QED BY <1>2, <1>3, <1>4, <1>5, <1>6

\* What is stored of a verdict.
LEMMA CitedIs ==
    ASSUME NEW J, NEW i
    PROVE  /\ Cited(J, i).outcome = J.outcome /\ Cited(J, i).cites = {KeyOf(f) : f \in J.cites}
           /\ Cited(J, i).uses # {} => J.uses # {}
           /\ \A t : Scoped(i, t) \in Cited(J, i).uses => t \in J.uses
BY DEF Cited, Scoped

-----------------------------------------------------------------------------
(* What the invariant says of the properties *)

Current(i) == OfItem(i, LinkedFacts, linked)

LEMMA CurrentAreRead ==
    ASSUME RInv, NEW i
    PROVE  Current(i) \subseteq facts /\ \A f \in Current(i) : IsRead(f)
BY DEF Current, OfItem, LinkedFacts, RInv, FactsAreRead

\* What is served of an item are its candidates, when everything is linked.
LEMMA ServedIs ==
    ASSUME RInv, fresh, NEW i, NEW t
    PROVE  Served(i, t) = CandidatesOf(t, Current(i), InForce)
<1>1. \A f \in facts : IsRead(f)
  BY DEF RInv, FactsAreRead
<1>2. \A f \in facts : f.doc \in Documents /\ f.version \in Versions /\ Rank[f.version] \in Int
  BY <1>1, ReadIsTyped, ReconciliationAssumption DEF Typed
<1>3. \A f \in facts : f \in Current(i) <=> KeyOf(f) \in DOMAIN linked /\ linked[KeyOf(f)] = i
  BY DEF Current, OfItem, LinkedFacts
<1>4. \A f \in facts : f.doc \in InForce <=> versionState[f.doc] = "active"
  BY <1>2 DEF InForce
<1>5. ASSUME NEW f \in Served(i, t) PROVE f \in CandidatesOf(t, Current(i), InForce)
  <2>1. f \in facts /\ f.type = t /\ f \in Current(i) /\ f.doc \in InForce
    BY <1>3, <1>4 DEF Served
  <2>2. ASSUME NEW g \in Current(i), g.type = t, g.doc = f.doc, g.row = f.row
        PROVE  Rank[g.version] <= Rank[f.version]
    <3>1. g \in facts
      BY CurrentAreRead
    <3>2. ~ (Rank[g.version] > Rank[f.version])
      BY <2>2, <3>1 DEF Served
    <3> QED BY <1>2, <2>1, <3>1, <3>2
  <2> QED BY <2>1, <2>2, CandidateIs
<1>6. ASSUME NEW f \in CandidatesOf(t, Current(i), InForce) PROVE f \in Served(i, t)
  <2>1. f \in Current(i) /\ f.type = t /\ f.doc \in InForce
    BY CandidateIs
  <2>2. f \in facts /\ KeyOf(f) \in DOMAIN linked /\ linked[KeyOf(f)] = i
    BY <1>3, <2>1, CurrentAreRead
  <2>3. ASSUME NEW g \in facts, g.doc = f.doc, g.row = f.row, g.type = t
        PROVE  ~ (Rank[g.version] > Rank[f.version])
    <3>1. Place(f) \in Places
      <4>1. PICK h \in Anchored : KeyOf(h) = KeyOf(f)
        BY <2>2 DEF RInv, LinkedIsAnchored
      <4>2. Place(h) = Place(f)
        BY <4>1 DEF KeyOf, Place
      <4> QED BY <4>1, <4>2 DEF Anchored
    <3>2. g \in Anchored
      BY <2>3, <3>1 DEF Anchored, Place
    <3>3. KeyOf(g) \in DOMAIN linked
      BY <3>2 DEF RInv, VerdictsAreCurrent
    <3>4. KeyOf(g).doc = KeyOf(f).doc /\ KeyOf(g).row = KeyOf(f).row
      BY <2>3 DEF KeyOf
    <3>5. linked[KeyOf(g)] = i
      BY <2>2, <3>3, <3>4 DEF RInv, LinkOk
    <3>6. g \in Current(i) /\ g.doc \in InForce
      BY <1>3, <2>1, <2>3, <3>3, <3>5
    <3>7. Rank[g.version] <= Rank[f.version]
      BY <2>3, <3>6, CandidateIs
    <3> QED BY <1>2, <2>2, <3>7
  <2>4. versionState[f.doc] = "active"
    BY <1>4, <2>1, <2>2
  <2> QED BY <2>1, <2>2, <2>3, <2>4 DEF Served
<1> QED BY <1>5, <1>6

LEMMA VerdictIs ==
    ASSUME RInv, fresh, NEW i \in Items, NEW r \in Rules, findings[<<i, r>>] # NoFinding
    PROVE  LET S == SelectFacts(Current(i), InForce, {})
           IN  findings[<<i, r>>] = Cited(EvaluateWorkItem(S, ComputeForWorkItem(Chosen(S)))[r], i)
<1>1. i \in items
  BY DEF RInv, OnlyItemsAreJudged
<1> QED BY <1>1 DEF RInv, VerdictsAreCurrent, Verdict, Selections, Current

LEMMA ComparableIs ==
    ASSUME NEW f, NEW g, Comparable(f) = Comparable(g)
    PROVE  f.value = g.value /\ f.unit = g.unit
BY DEF Comparable

LEMMA InvPass ==
    ASSUME RInv
    PROVE  PassMeansMeasured
<1> SUFFICES ASSUME fresh, NEW i \in Items, Passes(i, "claim")
             PROVE  LET claims == Served(i, "cumulative_claim_quantity")
                        measured == Served(i, "measured_quantity")
                    IN  /\ claims # {} /\ measured # {}
                        /\ \A c \in claims, m \in measured : c.value <= m.value /\ SameUnit(c, m)
  BY DEF PassMeansMeasured
<1> DEFINE S == SelectFacts(Current(i), InForce, {})
           E == EvaluateClaimWithinMeasured(S, ComputeForWorkItem(Chosen(S)))
<1>1. findings[<<i, "claim">>] = Cited(E, i)
  <2>1. findings[<<i, "claim">>] # NoFinding
    BY DEF Passes, NoFinding
  <2> QED BY <2>1, VerdictIs DEF EvaluateWorkItem, Rules
<1>2. E.outcome = "pass"
  BY <1>1, CitedIs DEF Passes
<1>3. \A f \in Current(i) : IsRead(f)
  BY CurrentAreRead
<1>4. PICK c \in Chosen(S), m \in Chosen(S) :
        /\ c.type = "cumulative_claim_quantity" /\ m.type = "measured_quantity" /\ SameUnit(c, m)
        /\ E.outcome = IF c.value - m.value <= 0 THEN "pass" ELSE "review"
  BY <1>2, <1>3, ClaimVerdict
<1>5. /\ c \in Served(i, "cumulative_claim_quantity") /\ c \in Current(i)
      /\ \A d \in Served(i, "cumulative_claim_quantity") : Comparable(d) = Comparable(c)
  BY <1>3, <1>4, ChosenIs, ServedIs
<1>6. /\ m \in Served(i, "measured_quantity") /\ m \in Current(i)
      /\ \A d \in Served(i, "measured_quantity") : Comparable(d) = Comparable(m)
  BY <1>3, <1>4, ChosenIs, ServedIs
<1>7. c.value <= m.value
  <2>1. c.value \in Int /\ m.value \in Int
    BY <1>3, <1>5, <1>6, ReadIsTyped DEF Typed
  <2>2. c.value - m.value <= 0
    BY <1>2, <1>4
  <2> QED BY <2>1, <2>2
<1>8. ASSUME NEW d \in Served(i, "cumulative_claim_quantity"), NEW n \in Served(i, "measured_quantity")
      PROVE  d.value <= n.value /\ SameUnit(d, n)
  <2>1. d.value = c.value /\ d.unit = c.unit
    BY <1>5, ComparableIs
  <2>2. n.value = m.value /\ n.unit = m.unit
    BY <1>6, ComparableIs
  <2> QED BY <1>4, <1>7, <2>1, <2>2 DEF SameUnit
<1> QED BY <1>5, <1>6, <1>8

LEMMA InvDisputes ==
    ASSUME RInv
    PROVE  DisputesAreReviewed
<1> SUFFICES ASSUME fresh, NEW i \in Items, NEW f \in facts, NEW g \in facts,
                    f.type = g.type, f.value # g.value, f \in Served(i, f.type), g \in Served(i, g.type)
             PROVE  findings[<<i, "evidence">>].outcome = "review"
  BY DEF DisputesAreReviewed
<1> DEFINE S == SelectFacts(Current(i), InForce, {})
<1>1. \A h \in Current(i) : IsRead(h)
  BY CurrentAreRead
<1>2. f \in CandidatesOf(f.type, Current(i), InForce) /\ g \in CandidatesOf(f.type, Current(i), InForce)
  BY ServedIs
<1>3. f \in Current(i) /\ g \in Current(i)
  BY <1>2, CandidateIs
<1>4. f.type \in TypesOf(S)
  <2>1. SelectionOf(f.type, Current(i), InForce) \in S
    BY <1>3, SelectionsAre
  <2>2. SelectionOf(f.type, Current(i), InForce).type = f.type
    BY <1>1, SelectedIs DEF SelectionOf
  <2> QED BY <2>1, <2>2 DEF TypesOf
<1>5. Disputed(S, TypesOf(S)) # {}
  <2>1. Comparable(f) # Comparable(g)
    BY ComparableIs
  <2> HIDE DEF S
  <2>2. \A types : f.type \in types => Disputed(SelectFacts(Current(i), InForce, {}), types) # {}
    BY <1>1, <1>2, <1>3, <2>1, DisputedAre
  <2> QED BY <1>4, <2>2 DEF S
<1>6. i \in items
  <2>1. KeyOf(f) \in DOMAIN linked /\ linked[KeyOf(f)] = i
    BY DEF Served
  <2> QED BY <2>1 DEF RInv, LinkOk
<1> HIDE DEF S
<1>7. EvaluateUnambiguousEvidence(S).outcome = "review"
  BY <1>5 DEF EvaluateUnambiguousEvidence, Judged
<1>8. findings[<<i, "evidence">>] = Cited(EvaluateUnambiguousEvidence(S), i)
  BY <1>6 DEF RInv, VerdictsAreCurrent, Verdict, Selections, Current, EvaluateWorkItem, Rules, S
<1> QED BY <1>7, <1>8, CitedIs

LEMMA InvSuperseded ==
    ASSUME RInv
    PROVE  SupersededIsNotJudged
<1> SUFFICES ASSUME fresh, NEW i \in Items, NEW r \in Rules, NEW k \in findings[<<i, r>>].cites
             PROVE  versionState[k.doc] = "active"
  BY DEF SupersededIsNotJudged
<1> DEFINE S == SelectFacts(Current(i), InForce, {})
           E == EvaluateWorkItem(S, ComputeForWorkItem(Chosen(S)))[r]
<1>1. findings[<<i, r>>] = Cited(E, i)
  <2>1. findings[<<i, r>>] # NoFinding
    BY DEF NoFinding
  <2> QED BY <2>1, VerdictIs
<1>2. PICK f \in E.cites : k = KeyOf(f)
  BY <1>1, CitedIs
<1>3. f.doc \in InForce
  <2>1. \A g \in Current(i) : IsRead(g)
    BY CurrentAreRead
  <2> QED BY <2>1, RuleCitesOfItem
<1>4. k.doc = f.doc
  BY <1>2 DEF KeyOf
<1> QED BY <1>3, <1>4 DEF InForce

LEMMA AtIs ==
    ASSUME RInv, NEW f \in facts
    PROVE  At(KeyOf(f)) = f
<1>1. \A g \in facts : KeyOf(g) = KeyOf(f) => g = f
  BY OneOfAKey DEF RInv, FactsAreRead
<1> QED BY <1>1 DEF At

LEMMA ComputedRow ==
    ASSUME NEW rows, NEW key, NEW value, NEW inputs, Computes(rows, key, value, inputs)
    PROVE  /\ (CHOOSE r \in rows : r.key = key).value = value
           /\ (CHOOSE r \in rows : r.key = key).inputs = inputs
BY DEF Computes

LEMMA InvCited ==
    ASSUME RInv
    PROVE  CitedFiguresAddUp
<1> SUFFICES ASSUME NEW i \in Items, findings[<<i, "claim">>].uses # {}
             PROVE  LET found == findings[<<i, "claim">>]
                        row(t) == CHOOSE r \in derived : r.key = Scoped(i, t)
                        variance == row("quantity_variance")
                        exposure == row("unsupported_amount")
                        stating(t) == CHOOSE k \in found.cites : k.type = t
                    IN  /\ \A k \in found.cites : linked[k] = i
                        /\ variance.inputs = found.cites
                        /\ variance.value = At(stating("cumulative_claim_quantity")).value
                                            - At(stating("measured_quantity")).value
                        /\ (found.outcome = "pass") <=> (variance.value <= 0)
                        /\ Scoped(i, "unsupported_amount") \in found.uses =>
                              /\ found.outcome = "pass" => exposure.value = 0
                              /\ found.outcome = "review" =>
                                    \A k \in exposure.inputs : exposure.value = variance.value * At(k).value
  BY DEF CitedFiguresAddUp
<1> DEFINE found == findings[<<i, "claim">>]
           row(t) == CHOOSE r \in derived : r.key = Scoped(i, t)
           variance == row("quantity_variance")
           exposure == row("unsupported_amount")
           stating(t) == CHOOSE k \in found.cites : k.type = t
<1>1. PICK c \in facts, m \in facts :
        /\ RestsOn(i, found, derived, facts, c, m)
        /\ \A k \in found.cites : k \in DOMAIN linked /\ linked[k] = i
  BY DEF RInv, ClaimsRest
<1>2. /\ c.type = "cumulative_claim_quantity" /\ m.type = "measured_quantity"
      /\ found.cites = {KeyOf(c), KeyOf(m)}
      /\ found.outcome = IF c.value - m.value <= 0 THEN "pass" ELSE "review"
  BY <1>1 DEF RestsOn
<1>3. variance.value = c.value - m.value /\ variance.inputs = found.cites
  <2>1. Computes(derived, Scoped(i, "quantity_variance"), c.value - m.value, found.cites)
    BY <1>1 DEF RestsOn
  <2> QED BY <2>1, ComputedRow
<1>4. c.value \in Int /\ m.value \in Int
  BY ReadIsTyped DEF RInv, FactsAreRead, Typed
<1>5. stating("cumulative_claim_quantity") = KeyOf(c) /\ stating("measured_quantity") = KeyOf(m)
  <2>1. KeyOf(c).type = "cumulative_claim_quantity" /\ KeyOf(m).type = "measured_quantity"
    BY <1>2 DEF KeyOf
  <2> HIDE DEF found
  <2> QED BY <1>2, <2>1
<1>6. At(stating("cumulative_claim_quantity")) = c /\ At(stating("measured_quantity")) = m
  BY <1>5, AtIs
<1>7. ASSUME Scoped(i, "unsupported_amount") \in found.uses
      PROVE  /\ found.outcome = "pass" => exposure.value = 0
             /\ found.outcome = "review" =>
                   \A k \in exposure.inputs : exposure.value = variance.value * At(k).value
  <2>1. PICK f \in facts :
          Computes(derived, Scoped(i, "unsupported_amount"),
                   (IF c.value - m.value > 0 THEN c.value - m.value ELSE 0) * f.value, {KeyOf(f)})
    BY <1>1, <1>7 DEF RestsOn
  <2>2. /\ exposure.value = (IF c.value - m.value > 0 THEN c.value - m.value ELSE 0) * f.value
        /\ exposure.inputs = {KeyOf(f)}
    BY <2>1, ComputedRow
  <2>3. At(KeyOf(f)) = f /\ f.value \in Int
    BY AtIs, ReadIsTyped DEF RInv, FactsAreRead, Typed
  <2> HIDE DEF found, exposure, variance
  <2>4. CASE c.value - m.value <= 0
    <3>1. ~ (c.value - m.value > 0)
      BY <1>4, <2>4
    <3>2. found.outcome = "pass"
      BY <1>2, <2>4
    <3>3. 0 * f.value = 0
      BY <2>3
    <3>4. exposure.value = 0
      BY <2>2, <3>1, <3>3
    <3> QED BY <3>2, <3>4
  <2>5. CASE ~ (c.value - m.value <= 0)
    <3>1. c.value - m.value > 0
      BY <1>4, <2>5
    <3>2. found.outcome = "review"
      BY <1>2, <2>5
    <3>3. exposure.value = variance.value * f.value
      BY <1>3, <2>2, <3>1
    <3> QED BY <2>2, <2>3, <3>2, <3>3
  <2> QED BY <2>4, <2>5
<1>8. (found.outcome = "pass") <=> (variance.value <= 0)
  <2> HIDE DEF found, variance
  <2> QED BY <1>2, <1>3
<1> HIDE DEF found, variance, exposure, stating
<1>9. /\ \A k \in found.cites : linked[k] = i
      /\ variance.value = At(stating("cumulative_claim_quantity")).value - At(stating("measured_quantity")).value
  BY <1>1, <1>3, <1>6
<1> QED BY <1>3, <1>7, <1>8, <1>9 DEF found, row, variance, exposure, stating

-----------------------------------------------------------------------------
(* Every step keeps the invariant *)

LEMMA InitRInv ==
    ASSUME Init
    PROVE  RInv
<1>1. ColumnsOk
  BY ReconciliationAssumption DEF Init, ColumnsOk, Idle
<1>2. FactsAreRead /\ LinkedIsAnchored /\ LinkOk(linked, items)
  BY DEF Init, FactsAreRead, LinkedIsAnchored, LinkOk
<1>3. SessionLinks /\ SessionIsCurrent /\ VerdictsAreCurrent
  BY DEF Init, SessionLinks, SessionIsCurrent, VerdictsAreCurrent, Idle
<1>4. OnlyItemsAreJudged
  BY DEF Init, OnlyItemsAreJudged
<1>5. ClaimsRest
  <2>1. \A i \in Items : findings[<<i, "claim">>] = NoFinding
    BY DEF Init, Rules
  <2> QED BY <2>1 DEF ClaimsRest, NoFinding
<1> QED BY <1>1, <1>2, <1>3, <1>4, <1>5 DEF RInv

\* An analysis only adds facts: a place that is written over says the same.
LEMMA AnalyseAdds ==
    ASSUME RInv, NEW d \in Documents, Analyse(d)
    PROVE  facts \subseteq facts' /\ \A f \in facts' : IsRead(f)
<1> DEFINE new == Reading[<<d, deployed, type[d]>>]
<1>1. deployed \in Versions /\ type[d] \in Types
  BY DEF RInv, ColumnsOk
<1>2. \A f \in new : IsRead(f)
  BY <1>1, ReadingIsTyped
<1>3. facts' = (facts \ Rewritten(new)) \cup new
  BY DEF Analyse
<1>4. \A f \in facts : IsRead(f)
  BY DEF RInv, FactsAreRead
<1> HIDE DEF new
<1>5. Rewritten(new) \subseteq new
  BY <1>2, <1>4, OneOfAKey DEF Rewritten
<1> QED BY <1>2, <1>3, <1>4, <1>5

LEMMA RestsGrow ==
    ASSUME NEW i, NEW found, NEW rows, NEW all, NEW more, all \subseteq more, NEW c, NEW m,
           RestsOn(i, found, rows, all, c, m)
    PROVE  RestsOn(i, found, rows, more, c, m)
BY DEF RestsOn

\* What does not disturb the store but what it was computed from.
LEMMA DisturbKeeps ==
    ASSUME RInv, facts \subseteq facts', \A f \in facts' : IsRead(f), Disturb,
           UNCHANGED <<items, linked, derived, findings>>,
           type' \in [Documents -> Types], deployed' \in Versions
    PROVE  RInv'
<1>1. /\ ~ fresh' /\ ~ session'.steady
      /\ session'.pc = session.pc /\ session'.facts = session.facts
      /\ session'.items = session.items /\ session'.link = session.link
  BY DEF Disturb
<1>2. ColumnsOk'
  BY <1>1 DEF RInv, ColumnsOk
<1>3. FactsAreRead'
  BY DEF FactsAreRead
<1>4. Anchored \subseteq Anchored'
  BY DEF Anchored, Places, Identifiers
<1>5. LinkedIsAnchored' /\ LinkOk(linked, items)'
  BY <1>4 DEF RInv, LinkedIsAnchored, LinkOk
<1>6. SessionLinks'
  BY <1>1, <1>4 DEF RInv, SessionLinks, LinkOk
<1>7. SessionIsCurrent' /\ VerdictsAreCurrent'
  BY <1>1 DEF SessionIsCurrent, VerdictsAreCurrent
<1>8. OnlyItemsAreJudged'
  BY DEF RInv, OnlyItemsAreJudged
<1>9. ClaimsRest'
  <2> SUFFICES ASSUME NEW i \in Items, findings'[<<i, "claim">>].uses # {}
               PROVE  LET found == findings'[<<i, "claim">>]
                      IN  \E c \in facts', m \in facts' :
                             /\ RestsOn(i, found, derived', facts', c, m)
                             /\ \A k \in found.cites : k \in DOMAIN linked' /\ linked'[k] = i
    BY DEF ClaimsRest
  <2> DEFINE found == findings[<<i, "claim">>]
  <2>1. PICK c \in facts, m \in facts :
          /\ RestsOn(i, found, derived, facts, c, m)
          /\ \A k \in found.cites : k \in DOMAIN linked /\ linked[k] = i
    BY DEF RInv, ClaimsRest
  <2>2. RestsOn(i, found, derived, facts', c, m)
    BY <2>1, RestsGrow
  <2> QED BY <2>1, <2>2
<1> QED BY <1>2, <1>3, <1>5, <1>6, <1>7, <1>8, <1>9 DEF RInv

LEMMA AnalyseRInv ==
    ASSUME RInv, NEW d \in Documents, Analyse(d)
    PROVE  RInv'
<1>1. facts \subseteq facts' /\ \A f \in facts' : IsRead(f)
  BY AnalyseAdds
<1>2. Disturb /\ UNCHANGED <<items, linked, derived, findings>>
  BY DEF Analyse
<1>3. type' \in [Documents -> Types] /\ deployed' \in Versions
  BY DEF Analyse, RInv, ColumnsOk
<1> QED BY <1>1, <1>2, <1>3, DisturbKeeps

LEMMA ChangeRInv ==
    ASSUME RInv, Change, type' \in [Documents -> Types], deployed' \in Versions
    PROVE  RInv'
<1>1. facts \subseteq facts' /\ \A f \in facts' : IsRead(f)
  BY DEF Change, store, RInv, FactsAreRead
<1>2. Disturb /\ UNCHANGED <<items, linked, derived, findings>>
  BY DEF Change, store
<1> QED BY <1>1, <1>2, DisturbKeeps

\* What leaves the store and the documents as they are.
LEMMA StoreKeeps ==
    ASSUME RInv, UNCHANGED <<type, supersedes, versionState, deployed, store, fresh, changes>>
    PROVE  /\ FactsAreRead' /\ LinkedIsAnchored' /\ LinkOk(linked, items)'
           /\ VerdictsAreCurrent' /\ OnlyItemsAreJudged' /\ ClaimsRest'
           /\ Anchored' = Anchored /\ InForce' = InForce
<1>1. /\ type' = type /\ versionState' = versionState /\ facts' = facts /\ items' = items
      /\ linked' = linked /\ derived' = derived /\ findings' = findings /\ fresh' = fresh
  BY DEF store
<1>2. Anchored' = Anchored /\ InForce' = InForce /\ LinkedFacts' = LinkedFacts
  BY <1>1 DEF Anchored, Places, Identifiers, InForce, LinkedFacts
<1>3. FactsAreRead' /\ LinkedIsAnchored' /\ LinkOk(linked, items)'
  BY <1>1, <1>2 DEF RInv, FactsAreRead, LinkedIsAnchored, LinkOk
<1>4. VerdictsAreCurrent'
  BY <1>1, <1>2 DEF RInv, VerdictsAreCurrent
<1>5. OnlyItemsAreJudged' /\ ClaimsRest'
  BY <1>1 DEF RInv, OnlyItemsAreJudged, ClaimsRest
<1> QED BY <1>2, <1>3, <1>4, <1>5

LEMMA BeginRInv ==
    ASSUME RInv, Begin
    PROVE  RInv'
<1>1. PICK a \in Anchorings :
        session' = [pc |-> "judge", inForce |-> InForce, facts |-> Anchored,
                    items |-> items \cup {a[p] : p \in Places}, link |-> Link(a), steady |-> TRUE]
  BY DEF Begin
<1>2. UNCHANGED <<type, supersedes, versionState, deployed, store, fresh, changes>>
  BY DEF Begin
<1>3. a \in [Places -> Items]
  BY DEF Anchorings
<1>4. DOMAIN Link(a) = {KeyOf(f) : f \in Anchored}
      /\ \A k \in DOMAIN Link(a) : <<k.doc, k.row>> \in Places /\ Link(a)[k] = a[<<k.doc, k.row>>]
  <2>1. DOMAIN Link(a) = {KeyOf(f) : f \in Anchored} /\ \A k \in DOMAIN Link(a) : Link(a)[k] = a[<<k.doc, k.row>>]
    BY DEF Link
  <2>2. ASSUME NEW f \in Anchored PROVE <<KeyOf(f).doc, KeyOf(f).row>> \in Places
    BY DEF Anchored, KeyOf, Place
  <2> HIDE DEF Link
  <2> QED BY <2>1, <2>2
<1>5. LinkOk(Link(a), items \cup {a[p] : p \in Places})
  <2> HIDE DEF Link
  <2> QED BY <1>4 DEF LinkOk
<1>6. facts' = facts /\ items' = items /\ linked' = linked /\ type' = type /\ deployed' = deployed /\ findings' = findings
  BY <1>2 DEF store
<1>7. SessionLinks'
  <2>1. DOMAIN linked \subseteq DOMAIN Link(a)
    BY <1>4 DEF RInv, LinkedIsAnchored
  <2>2. items \cup {a[p] : p \in Places} \subseteq Items
    BY <1>3 DEF RInv, ColumnsOk
  <2>3. Anchored' = Anchored
    BY <1>2, StoreKeeps
  <2> QED BY <1>1, <1>4, <1>5, <1>6, <2>1, <2>2, <2>3 DEF SessionLinks
<1>8. SessionIsCurrent'
  BY <1>1, <1>2, StoreKeeps DEF SessionIsCurrent
<1>9. ColumnsOk'
  BY <1>1, <1>6 DEF RInv, ColumnsOk
<1> QED BY <1>2, <1>7, <1>8, <1>9, StoreKeeps DEF RInv

LEMMA AbandonRInv ==
    ASSUME RInv, Abandon
    PROVE  RInv'
<1>1. UNCHANGED <<type, supersedes, versionState, deployed, store, fresh, changes>> /\ session'.pc = "idle"
  BY DEF Abandon, Idle
<1>2. SessionLinks' /\ SessionIsCurrent'
  BY <1>1 DEF SessionLinks, SessionIsCurrent
<1>3. ColumnsOk'
  BY <1>1 DEF RInv, ColumnsOk, store
<1> QED BY <1>1, <1>2, <1>3, StoreKeeps DEF RInv

-----------------------------------------------------------------------------
(* A reconciliation that is saved *)

OfSession(i) == OfItem(i, session.facts, session.link)

SessionSelections(i) == SelectFacts(OfSession(i), session.inForce, {})

LEMMA SavedFindings ==
    ASSUME RInv, Save, NEW i \in session.items, NEW r \in Rules
    PROVE  LET S == SessionSelections(i)
           IN  findings'[<<i, r>>] = Cited(EvaluateWorkItem(S, ComputeForWorkItem(Chosen(S)))[r], i)
<1> DEFINE done == {Reconciled(j) : j \in session.items}
<1>1. \A j : Reconciled(j).item = j
  BY DEF Reconciled
<1>2. session.items \subseteq Items
  BY DEF Save, RInv, SessionLinks
<1>3. findings'[<<i, r>>] = IF \E j \in done : j.item = i
                            THEN (CHOOSE j \in done : j.item = i).found[r] ELSE findings[<<i, r>>]
  <2>1. <<i, r>> \in Items \X Rules /\ <<i, r>>[1] = i /\ <<i, r>>[2] = r
    BY <1>2
  <2>2. findings' = [p \in Items \X Rules |->
            IF \E j \in done : j.item = p[1] THEN (CHOOSE j \in done : j.item = p[1]).found[p[2]] ELSE findings[p]]
    BY DEF Save
  <2> HIDE DEF done
  <2> QED BY <2>1, <2>2
<1>4. Reconciled(i) \in done /\ \A j \in done : j.item = i => j = Reconciled(i)
  BY <1>1
<1>5. findings'[<<i, r>>] = Reconciled(i).found[r]
  <2> HIDE DEF done
  <2> QED BY <1>1, <1>3, <1>4
<1>6. Reconciled(i).found[r] =
        Cited(EvaluateWorkItem(SessionSelections(i), ComputeForWorkItem(Chosen(SessionSelections(i))))[r], i)
  BY DEF Reconciled, SessionSelections, OfSession
<1> QED BY <1>5, <1>6

\* What no reconciled item has is as it was.
LEMMA SavedOthers ==
    ASSUME RInv, Save, NEW p \in Items \X Rules, p[1] \notin session.items
    PROVE  findings'[p] = findings[p]
<1>1. \A j \in {Reconciled(i) : i \in session.items} : j.item \in session.items
  BY DEF Reconciled
<1> QED BY <1>1 DEF Save

\* The rows of an item that is reconciled.
LEMMA SavedRows ==
    ASSUME RInv, Save, NEW i \in session.items, NEW x \in ComputeForWorkItem(Chosen(SessionSelections(i))),
           \A y \in ComputeForWorkItem(Chosen(SessionSelections(i))) : y.type = x.type => y = x
    PROVE  Computes(derived', Scoped(i, x.type), x.value, {KeyOf(f) : f \in x.inputs})
<1> DEFINE RowOf(j, c) == [key |-> Scoped(j, c.type), value |-> c.value, inputs |-> {KeyOf(f) : f \in c.inputs}]
           C(j) == ComputeForWorkItem(Chosen(SessionSelections(j)))
           done == {Reconciled(j) : j \in session.items}
<1>1. \A j : Reconciled(j).rows = {RowOf(j, c) : c \in C(j)}
  BY DEF Reconciled, SessionSelections, OfSession
<1>2. derived' = {r \in derived : ~ \E j \in done : \E n \in j.rows : n.key = r.key} \cup UNION {j.rows : j \in done}
  BY DEF Save
<1>3. \A j, c : RowOf(j, c).key = Scoped(j, c.type)
  OBVIOUS
<1>4. \A j, t, u : Scoped(i, t) = Scoped(j, u) => i = j /\ t = u
  BY DEF Scoped
<1>5. RowOf(i, x) \in Reconciled(i).rows /\ Reconciled(i) \in done
  <2> HIDE DEF RowOf, C
  <2> QED BY <1>1 DEF C
<1>6. RowOf(i, x) \in derived' /\ RowOf(i, x).key = Scoped(i, x.type)
  <2> HIDE DEF RowOf, done
  <2> QED BY <1>2, <1>3, <1>5
<1>7. ASSUME NEW r \in derived', r.key = Scoped(i, x.type)
      PROVE  r = RowOf(i, x)
  <2>1. PICK j \in session.items : r \in Reconciled(j).rows
    <3>1. \/ ~ \E j \in done : \E n \in j.rows : n.key = r.key
          \/ \E j \in done : r \in j.rows
      <4> HIDE DEF done
      <4> QED BY <1>2
    <3>2. \E j \in done : r \in j.rows
      <4> HIDE DEF done, RowOf
      <4> QED BY <1>5, <1>6, <1>7, <3>1
    <3> QED BY <3>2
  <2>2. PICK y \in C(j) : r = RowOf(j, y)
    <3> HIDE DEF RowOf, C
    <3> QED BY <1>1, <2>1
  <2>3. j = i /\ y.type = x.type
    <3>1. Scoped(i, x.type) = Scoped(j, y.type)
      BY <1>3, <1>7, <2>2
    <3> QED BY <1>4, <3>1
  <2>4. y = x
    BY <2>2, <2>3
  <2> QED BY <2>2, <2>3, <2>4
<1>8. RowOf(i, x).value = x.value /\ RowOf(i, x).inputs = {KeyOf(f) : f \in x.inputs}
  OBVIOUS
<1> HIDE DEF RowOf
<1> QED BY <1>6, <1>7, <1>8 DEF Computes

\* The verdict on the claims of an item that is reconciled rests on facts.
LEMMA SavedClaims ==
    ASSUME RInv, Save, NEW i \in session.items, findings'[<<i, "claim">>].uses # {}
    PROVE  \E c \in OfSession(i), m \in OfSession(i) :
              /\ RestsOn(i, findings'[<<i, "claim">>], derived', facts, c, m)
              /\ findings'[<<i, "claim">>].cites = {KeyOf(c), KeyOf(m)}
<1> DEFINE S == SessionSelections(i)
           computed == ComputeForWorkItem(Chosen(S))
           E == EvaluateClaimWithinMeasured(S, computed)
           found == findings'[<<i, "claim">>]
<1>1. found = Cited(E, i)
  <2>1. "claim" \in Rules
    BY DEF Rules
  <2> QED BY <2>1, SavedFindings DEF EvaluateWorkItem
<1>2. E.uses # {}
  BY <1>1, CitedIs
<1>3. OfSession(i) \subseteq facts /\ \A f \in OfSession(i) : IsRead(f)
  BY DEF OfSession, OfItem, Save, RInv, SessionLinks, FactsAreRead, Anchored
<1>4. PICK c \in Chosen(S), m \in Chosen(S) :
        /\ c.type = "cumulative_claim_quantity" /\ m.type = "measured_quantity"
        /\ QuantityVariance(Chosen(S)) = {ClaimRow(c, m)}
        /\ E.cites = {c, m}
        /\ E.outcome = IF c.value - m.value <= 0 THEN "pass" ELSE "review"
        /\ E.uses \subseteq TypesOf(computed)
  BY <1>2, <1>3, ClaimVerdict DEF SessionSelections
<1>5. \A f \in Chosen(S) : f \in OfSession(i)
  BY <1>3, ChosenIs DEF SessionSelections
<1>6. found.cites = {KeyOf(c), KeyOf(m)} /\ found.outcome = IF c.value - m.value <= 0 THEN "pass" ELSE "review"
  <2>1. {KeyOf(f) : f \in {c, m}} = {KeyOf(c), KeyOf(m)}
    OBVIOUS
  <2> HIDE DEF E, found
  <2> QED BY <1>1, <1>4, <2>1, CitedIs
<1>7. Computes(derived', Scoped(i, "quantity_variance"), c.value - m.value, {KeyOf(c), KeyOf(m)})
  <2>1. /\ ClaimRow(c, m).type = "quantity_variance" /\ ClaimRow(c, m).value = c.value - m.value
        /\ ClaimRow(c, m).inputs = {c, m}
    BY DEF ClaimRow, Calculated
  <2>2. ClaimRow(c, m) \in computed
    BY <1>4 DEF ComputeForWorkItem
  <2>3. \A y \in computed : y.type = "quantity_variance" => y = ClaimRow(c, m)
    BY <1>4, ComputedIs
  <2>4. {KeyOf(f) : f \in ClaimRow(c, m).inputs} = {KeyOf(c), KeyOf(m)}
    BY <2>1
  <2>5. Computes(derived', Scoped(i, ClaimRow(c, m).type), ClaimRow(c, m).value,
                 {KeyOf(f) : f \in ClaimRow(c, m).inputs})
    BY <2>1, <2>2, <2>3, SavedRows
  <2> QED BY <2>1, <2>4, <2>5
<1>8. ASSUME Scoped(i, "unsupported_amount") \in found.uses
      PROVE  \E f \in facts :
                Computes(derived', Scoped(i, "unsupported_amount"),
                         (IF c.value - m.value > 0 THEN c.value - m.value ELSE 0) * f.value, {KeyOf(f)})
  <2>1. "unsupported_amount" \in TypesOf(computed)
    <3>1. "unsupported_amount" \in E.uses
      BY <1>1, <1>8, CitedIs
    <3> QED BY <1>4, <3>1
  <2>2. PICK f \in Chosen(S) : UnsupportedAmount(Chosen(S), {ClaimRow(c, m)}) = {WorthRow(c, m, f)}
    BY <1>3, <1>4, <2>1, WorthIs DEF SessionSelections
  <2>3. /\ WorthRow(c, m, f).type = "unsupported_amount" /\ WorthRow(c, m, f).inputs = {f}
        /\ WorthRow(c, m, f).value = (IF c.value - m.value > 0 THEN c.value - m.value ELSE 0) * f.value
    BY DEF WorthRow, Calculated, Excess
  <2>4. WorthRow(c, m, f) \in computed
    BY <1>4, <2>2 DEF ComputeForWorkItem
  <2>5. \A y \in computed : y.type = "unsupported_amount" => y = WorthRow(c, m, f)
    BY <1>4, <2>2, ComputedIs
  <2>6. Computes(derived', Scoped(i, WorthRow(c, m, f).type), WorthRow(c, m, f).value,
                 {KeyOf(g) : g \in WorthRow(c, m, f).inputs})
    BY <2>3, <2>4, <2>5, SavedRows
  <2>7. {KeyOf(g) : g \in WorthRow(c, m, f).inputs} = {KeyOf(f)}
    BY <2>3
  <2>8. f \in facts
    BY <1>3, <1>5
  <2> QED BY <2>3, <2>6, <2>7, <2>8
<1> HIDE DEF found, computed, E
<1>9. RestsOn(i, found, derived', facts, c, m)
  BY <1>4, <1>6, <1>7, <1>8 DEF RestsOn
<1> QED BY <1>4, <1>5, <1>6, <1>9 DEF found

LEMMA SaveRInv ==
    ASSUME RInv, Save
    PROVE  RInv'
<1>1. /\ facts' = facts /\ type' = type /\ versionState' = versionState /\ deployed' = deployed
      /\ items' = session.items /\ fresh' = session.steady /\ session'.pc = "idle"
  BY DEF Save, Idle
<1>2. session.pc = "judge"
  BY DEF Save
<1>3. /\ session.facts \subseteq facts /\ DOMAIN session.link = {KeyOf(f) : f \in session.facts}
      /\ DOMAIN linked \subseteq DOMAIN session.link
      /\ items \subseteq session.items /\ session.items \subseteq Items
      /\ LinkOk(session.link, session.items)
  BY <1>2 DEF RInv, SessionLinks, Anchored
<1>4. DOMAIN linked' = DOMAIN session.link /\ \A k \in DOMAIN session.link : linked'[k] = session.link[k]
  BY <1>3 DEF Save
<1>5. \A f \in facts : IsRead(f)
  BY DEF RInv, FactsAreRead
<1>6. Anchored' = Anchored /\ InForce' = InForce
  BY <1>1 DEF Anchored, Places, Identifiers, InForce
<1>7. \A f \in facts : KeyOf(f) \in DOMAIN session.link <=> f \in session.facts
  BY <1>3, <1>5, OneOfAKey
<1>8. LinkedFacts' = session.facts
  BY <1>1, <1>3, <1>4, <1>7 DEF LinkedFacts
<1>9. ASSUME NEW i PROVE OfItem(i, LinkedFacts', linked') = OfSession(i)
  <2>1. \A f \in session.facts : linked'[KeyOf(f)] = session.link[KeyOf(f)]
    BY <1>3, <1>4
  <2> QED BY <1>8, <2>1 DEF OfItem, OfSession
<1>10. ColumnsOk'
  <2>1. DOMAIN findings' = Items \X Rules
    BY DEF Save
  <2> QED BY <1>1, <1>3, <2>1 DEF RInv, ColumnsOk
<1>11. FactsAreRead'
  BY <1>1 DEF RInv, FactsAreRead
<1>12. LinkOk(linked, items)'
  BY <1>1, <1>3, <1>4 DEF LinkOk
<1>13. session.facts \subseteq Anchored => LinkedIsAnchored'
  BY <1>3, <1>4, <1>6 DEF LinkedIsAnchored
<1>14. VerdictsAreCurrent'
  <2> SUFFICES ASSUME session.steady
               PROVE  /\ DOMAIN linked' = {KeyOf(f) : f \in Anchored'}
                      /\ \A i \in items', r \in Rules :
                            findings'[<<i, r>>] = Verdict(i, r, Selections(i, LinkedFacts', linked', InForce'))
    BY <1>1 DEF VerdictsAreCurrent
  <2>1. session.inForce = InForce /\ session.facts = Anchored
    BY <1>2 DEF RInv, SessionIsCurrent
  <2>2. ASSUME NEW i \in session.items, NEW r \in Rules
        PROVE  findings'[<<i, r>>] = Verdict(i, r, Selections(i, LinkedFacts', linked', InForce'))
    <3>1. Selections(i, LinkedFacts', linked', InForce') = SessionSelections(i)
      BY <1>6, <1>9, <2>1 DEF Selections, SessionSelections
    <3> QED BY <3>1, SavedFindings DEF Verdict
  <2> QED BY <1>1, <1>3, <1>4, <1>6, <2>1, <2>2
<1>15. OnlyItemsAreJudged'
  <2> SUFFICES ASSUME NEW p \in Items \X Rules, p[1] \notin session.items PROVE findings'[p] = NoFinding
    BY <1>1 DEF OnlyItemsAreJudged
  <2>1. p[1] \notin items
    BY <1>3
  <2> QED BY <2>1, SavedOthers DEF RInv, OnlyItemsAreJudged
<1>16. ClaimsRest'
  <2> SUFFICES ASSUME NEW i \in Items, findings'[<<i, "claim">>].uses # {}
               PROVE  LET found == findings'[<<i, "claim">>]
                      IN  \E c \in facts', m \in facts' :
                             /\ RestsOn(i, found, derived', facts', c, m)
                             /\ \A k \in found.cites : k \in DOMAIN linked' /\ linked'[k] = i
    BY DEF ClaimsRest
  <2>1. i \in session.items
    <3> SUFFICES ASSUME i \notin session.items PROVE FALSE
      OBVIOUS
    <3>1. <<i, "claim">> \in Items \X Rules /\ <<i, "claim">>[1] = i
      BY DEF Rules
    <3>2. findings'[<<i, "claim">>] = NoFinding
      BY <1>1, <1>15, <3>1 DEF OnlyItemsAreJudged
    <3> QED BY <3>2 DEF NoFinding
  <2>2. PICK c \in OfSession(i), m \in OfSession(i) :
          /\ RestsOn(i, findings'[<<i, "claim">>], derived', facts, c, m)
          /\ findings'[<<i, "claim">>].cites = {KeyOf(c), KeyOf(m)}
    BY <2>1, SavedClaims
  <2>3. \A f \in OfSession(i) :
           f \in facts /\ KeyOf(f) \in DOMAIN linked' /\ linked'[KeyOf(f)] = i
    BY <1>3, <1>4 DEF OfSession, OfItem
  <2> QED BY <1>1, <2>2, <2>3
<1>17. session.facts \subseteq Anchored
  BY <1>2 DEF RInv, SessionLinks
<1>18. SessionLinks' /\ SessionIsCurrent'
  BY <1>1 DEF SessionLinks, SessionIsCurrent
<1> QED BY <1>10, <1>11, <1>12, <1>13, <1>14, <1>15, <1>16, <1>17, <1>18 DEF RInv

LEMMA StutterRInv ==
    ASSUME RInv, UNCHANGED vars
    PROVE  RInv'
<1>1. UNCHANGED <<type, supersedes, versionState, deployed, store, fresh, changes>> /\ session' = session
  BY DEF vars, store
<1>2. Anchored' = Anchored /\ InForce' = InForce
  BY <1>1, StoreKeeps
<1>3. SessionLinks' /\ SessionIsCurrent' /\ ColumnsOk'
  BY <1>1, <1>2 DEF RInv, SessionLinks, SessionIsCurrent, ColumnsOk, store
<1> QED BY <1>1, <1>3, StoreKeeps DEF RInv

LEMMA NextRInv ==
    ASSUME RInv, [Next]_vars
    PROVE  RInv'
<1>1. ASSUME NEW d \in Documents, Analyse(d) PROVE RInv'
  BY <1>1, AnalyseRInv
<1>2. ASSUME NEW d \in Documents, Supersede(d) PROVE RInv'
  <2>1. Change /\ type' = type /\ deployed' = deployed
    BY <1>2 DEF Supersede
  <2> QED BY <2>1, ChangeRInv DEF RInv, ColumnsOk
<1>3. ASSUME NEW d \in Documents, NEW t \in Types, Retype(d, t) PROVE RInv'
  <2>1. Change /\ type' = [type EXCEPT ![d] = t] /\ deployed' = deployed
    BY <1>3 DEF Retype
  <2>2. type' \in [Documents -> Types]
    BY <2>1 DEF RInv, ColumnsOk
  <2> QED BY <2>1, <2>2, ChangeRInv DEF RInv, ColumnsOk
<1>4. ASSUME Upgrade PROVE RInv'
  <2>1. Change /\ type' = type /\ deployed' \in Versions
    BY <1>4 DEF Upgrade
  <2> QED BY <2>1, ChangeRInv DEF RInv, ColumnsOk
<1> QED BY <1>1, <1>2, <1>3, <1>4, BeginRInv, SaveRInv, AbandonRInv, StutterRInv DEF Next

\* The invariant, at all times.
THEOREM Reconciles == Spec => []RInv
<1>1. Init => RInv
  BY InitRInv
<1>2. RInv /\ [Next]_vars => RInv'
  BY NextRInv
<1> QED BY <1>1, <1>2, PTL DEF Spec

-----------------------------------------------------------------------------
(* Theorems *)

\* While nothing has changed since, a claim that passes is within every
\* measurement that a current document gives of its item, in the same unit
\* (select_one, evaluate_claim_within_measured).
THEOREM PassedIsMeasured == Spec => []PassMeansMeasured
BY Reconciles, InvPass, PTL

\* While nothing has changed since, figures of current documents that differ
\* are brought to a person (evaluate_unambiguous_evidence).
THEOREM DisputesReachAPerson == Spec => []DisputesAreReviewed
BY Reconciles, InvDisputes, PTL

\* A verdict that nothing has outdated rests on no superseded document
\* (reconcile_work_items).
THEOREM OnlyCurrentIsJudged == Spec => []SupersededIsNotJudged
BY Reconciles, InvSuperseded, PTL

\* The figures that a stored verdict on a claim cites always add up to it:
\* whatever has been analysed, retyped or superseded since
\* (persist_derived_facts, persist_facts).
THEOREM CitedAddsUp == Spec => []CitedFiguresAddUp
BY Reconciles, InvCited, PTL

=============================================================================
