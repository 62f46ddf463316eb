--------------------------- MODULE MCProjectRecord ---------------------------
(* Two documents of one tender, as version 4 reads them, in the second a   *)
(* project reference as well.  Version 5 spells the number of the first    *)
(* otherwise, and takes the reference for the number of the second.        *)
EXTENDS ProjectRecord, TLC

CONSTANTS o1, o2, pwd, upload, clerk

Norm == [x \in Spellings |-> IF x = "a" THEN "A" ELSE x]

Read(nit, reference) == ("nit" :> nit) @@ ("reference" :> reference)

Identifiers ==
    (1 :> (4 :> Read("A", None) @@ 5 :> Read("a", None)))
    @@ (2 :> (4 :> Read("a", "B") @@ 5 :> Read("B", None)))

FromPortal == [d \in Documents |-> {pwd}]

\* Both have a row of item 1.
Bills == (1 :> {"1"}) @@ (2 :> {"1"})

Interchangeable == Permutations(Operators)

=============================================================================
