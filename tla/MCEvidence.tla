----------------------------- MODULE MCEvidence ------------------------------
(* A tender and a document that may turn out to be a reference. *)
EXTENDS Evidence, TLC

CONSTANTS d1, d2, s1, s2

Sizes == [d \in Documents |-> IF d = d1 THEN 1 ELSE 2]

\* The second version reads another cost; only d1 holds a bill.
Readings ==
    [d \in Documents |-> [v \in Versions |->
        [nit |-> FALSE, states |-> IF d = d1 THEN {"cost", "line"} ELSE {"cost"}]]]

Verdicts == [d \in Documents |-> [v \in Versions |-> "fail"]]
Amounts == [d \in Documents |-> [v \in Versions |-> IF d = d1 THEN v ELSE 1]]

Interchangeable == Permutations(Sessions)

=============================================================================
