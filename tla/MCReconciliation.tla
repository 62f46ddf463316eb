--------------------------- MODULE MCReconciliation ---------------------------
(* A contract's bill of quantities, a measurement sheet and a running bill, *)
(* which spell the items in their own ways; and a second running bill that  *)
(* was uploaded as a contract.                                              *)
EXTENDS Reconciliation, TLC

Order == [v \in Versions |-> v]

Initially == ("measured" :> "measurement_sheet") @@ ("bill" :> "running_bill")
             @@ ("other" :> "contract")

Thousand(n) == Number(1000 * n)

\* Version 1 misreads one of the two measurements of item 1.
Measured(v) ==
    << <<Text("sl no"), Text("description"), Text("measured quantity"), Text("uom")>>,
       <<Item("1", "1"), Text("earth"), Number(10004), Text("cum")>>,
       <<Item("1", "1"), Blank, Thousand(IF v = 1 THEN 1 ELSE 10), Text("cum")>>,
       <<Text("Total"), Blank, Thousand(20), Blank>>,
       <<Item("2", "2."), ProjectLine("A"), Thousand(5), Text("MT")>> >>

\* It claims less than what was certified before.
Bill ==
    << <<Text("item no"), Text("cumulative quantity"), Text("unit rate"), Text("previous quantity")>>,
       <<Item("1", "1"), Thousand(9), Thousand(5), Thousand(10)>> >>

\* Another item, and another unit; its claim of item 1 is beyond what is
\* measured.  Version 1 misreads one number, so that the row is of either item.
Other(v) ==
    << <<Text("Bill no 2"), ProjectLine("A")>>,
       <<Text("item no"), Text("cumulative quantity"), Text("unit"), Text("rate")>>,
       <<Item("1", "1.0"), Thousand(IF v = 1 THEN 9 ELSE 12), Text("Cum"), Thousand(5)>>,
       <<Item(IF v = 1 THEN "1" ELSE "2", "2"), Thousand(4), Text("MT"), Thousand(7)>> >>

Sheets ==
    [d \in Documents |-> [v \in Versions |->
        CASE d = "measured" -> Measured(v) [] d = "bill" -> Bill [] d = "other" -> Other(v)]]

\* Its type is set right in the end.
Retypings == {<<"other", "running_bill">>}

=============================================================================
