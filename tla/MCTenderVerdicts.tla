---------------------------- MODULE MCTenderVerdicts ----------------------------
(***************************************************************************)
(* A manual with a schedule of bid securities, a notice and a priced bill, *)
(* each laid out in several ways.                                          *)
(***************************************************************************)
EXTENDS TenderVerdicts

MCDocuments == {"manual", "notice", "bill"}
MCOrder == <<"notice", "bill", "manual">>

Page(marks) == [marks |-> marks, image |-> <<>>]
Scanned(marks) == [marks |-> <<>>, image |-> marks]

-----------------------------------------------------------------------------
(* The manual: it also quotes a notice. *)

Printed(letter, share, from, to, cap) ==
    [authority |-> "nhai", letter |-> letter, share |-> share, from |-> from, to |-> to, cap |-> cap]

Schedule == {Printed("a", 20, {}, {2000}, {}), Printed("b", 15, {2000}, {5000}, {}),
             Printed("c", 5, {5000}, {}, {30})}

Clauses ==
    << SubClause("a", Words(2, FALSE), TRUE, {"up to"}, <<2000>>, <<>>),
       SubClause("b", Words(1, TRUE), TRUE, {"between"}, <<5000, 2000>>, <<>>),
       SubClause("c", Fraction(1, 2), TRUE, {"above"}, <<5000>>, <<30>>),
       SubClause("d", Unreadable, TRUE, {"above"}, <<9000>>, <<>>) >>

Manual ==
    << Page(<<Issuer("nhai"), Label("security"), RateOf(20), Label("cost"), Rupees(700)>>),
       Page(<<Label("cost"), Label("security"), Rupees(400), Rupees(8)>>),
       Page(<<ClauseHead(4)>> \o Clauses) >>

-----------------------------------------------------------------------------
(* Notices *)

Notice(pages, cost, security) == [pages |-> pages, cost |-> cost, security |-> security]

Block(cost, security) ==
    Notice(<<Page(<<Nit(1), Dated(7, TRUE), Label("cost"), Label("security"), Label("prose"),
                    Rupees(cost), Rupees(security)>>)>>, {cost}, {security})

\* Each label owns what follows it, and a fee stands between them.
Separate(cost, security) ==
    Notice(<<Page(<<RateOf(10), Label("cost"), Rupees(100), Label("security"), Rupees(2)>>),
             Page(<<Nit(1), Dated(40, FALSE), Label("cost"), Label("prose"), Rupees(cost), Label("fee"), Rupees(7),
                    Label("security"), Label("fee"), Rupees(5), Label("prose"), Rupees(security)>>)>>,
           {cost}, {security})

Parts(first, second, security) ==
    Notice(<<Page(<<Nit(1), Label("cost"), Rupees(first), Rupees(second), Label("total"), Rupees(first + second),
                    Label("total"), Label("with tax"), Rupees(9000), Label("security"), Label("prose"),
                    Rupees(security), RateOf(10), Label("cost")>>)>>,
           {first + second}, {security})

OnTwoImages(cost, security) ==
    Notice(<<Scanned(<<Nit(1), Dated(7, TRUE)>>),
             Scanned(<<Label("cost"), Label("security"), Rupees(cost), Rupees(security)>>)>>,
           {cost}, {security})

Notices == {Block(1000, 20), Block(2000, 40), Block(8000, 40), Separate(3000, 40), Separate(5600, 28),
            Parts(1000, 2000, 45), OnTwoImages(1000, 25)}

-----------------------------------------------------------------------------
(* Bills *)

BillRow(n, m) == [item |-> n, unit |-> "m", quantity |-> Money(200), rate |-> m, amount |-> 2 * m]
Figures(row) == <<FigureLine(row.quantity.m), FigureLine(row.rate), FigureLine(row.amount)>>
Cell(row, noise) == <<ItemLine(row.item, TRUE)>> \o noise \o <<UnitLine("m")>> \o Figures(row)
TableHead == <<Mark("heading"), Mark("rate header"), Mark("quantity header")>>
TableFoot(total) == <<Mark("total"), FigureLine(total)>>

First == BillRow(1, 1000)
Second == BillRow(2, 500)
Third == BillRow(3, 700)

Bill(pages, rows, total, unknownShape) ==
    [pages |-> pages, rows |-> rows, total |-> {total}, unknownShape |-> unknownShape]

Table(marks, rows, total) == Bill(<<Page(<<Mark("prose")>>), Page(TableHead \o marks \o TableFoot(total))>>, rows, total, FALSE)

Plain == Table(Cell(First, <<>>) \o Cell(Second, <<>>), <<First, Second>>, 3000)

Tables ==
    {Plain,
     Table(Cell(First, <<>>) \o Cell(Second, <<>>), <<First, Second>>, 9000),
     \* a figure and a number in a description
     Table(Cell(First, <<FigureLine(450)>>) \o Cell(Second, <<ItemLine(7, TRUE)>>), <<First, Second>>, 3000),
     \* two rows under one number
     Table(Cell(First, <<>>) \o Figures(Second) \o Cell(BillRow(2, 700), <<>>),
           <<First, Second, BillRow(2, 700)>>, 4400),
     \* sub-items
     Table(<<ItemLine(1, TRUE), SubLine("a"), UnitLine("m")>> \o Figures(First)
             \o <<SubLine("b")>> \o Figures(Second), <<First, Second>>, 3000)}

Line(row) == RowLine("1", "m", row.quantity, row.rate, row.amount)
Triple(row) == <<UnitLine("m"), TripleLine(row.quantity, row.rate, row.amount)>>

\* The total comes first, and the total of a part after it.
ByLine(rest, rows, unknownShape) ==
    Bill(<<Page(<<TotalLine(TotalAmount(rows)), ItemLine(1, TRUE), Line(First), TotalLine(2000)>>), Page(rest)>>,
         rows, TotalAmount(rows), unknownShape)

Lists ==
    {ByLine(Triple(Second), <<First, Second>>, FALSE),
     ByLine(<<Mark("prose")>>, <<First, Second>>, TRUE),
     ByLine(<<UnitLine("m"), Mark("prose")>> \o Tail(Triple(Second)), <<First, Second>>, TRUE)}

-----------------------------------------------------------------------------

Laid(manual, notice, bill) ==
    [content |-> [d \in MCDocuments |->
                    CASE d = "manual" -> manual [] d = "notice" -> notice.pages [] OTHER -> bill.pages],
     types |-> [d \in MCDocuments |-> IF d = "manual" THEN "specification" ELSE "tender"],
     damaged |-> {},
     origins |-> [d \in MCDocuments |-> <<"nhai">>],
     schedule |-> Schedule,
     notice |-> [cost |-> notice.cost, security |-> notice.security],
     bill |-> [rows |-> bill.rows, total |-> bill.total, unknownShape |-> bill.unknownShape]]

Others == {[Laid(Manual, Block(1000, 20), Plain) EXCEPT !.damaged = {"notice"}],
           [Laid(Manual, Block(1000, 20), Plain) EXCEPT !.origins["notice"] = <<"iitb">>],
           [Laid(Manual, Block(1000, 20), Plain) EXCEPT !.types["manual"] = "tender"]}

MCPrints == {Laid(Manual, n, Plain) : n \in Notices}
            \cup {Laid(Manual, Block(1000, 20), b) : b \in Tables \cup Lists}
            \cup Others

MCSupplied == {{}, {15}}

=============================================================================
