----------------------------- MODULE RowArithmetic -----------------------------
(***************************************************************************)
(* Whether the figures of a priced row agree: quantity times rate against  *)
(* the amount (calculation/row_arithmetic.py).  A figure is shown with a   *)
(* number of decimals, so a rate that was rounded for display leaves a     *)
(* window around the product, and so does the amount.                      *)
(*                                                                         *)
(* A figure is [m |-> its digits, p |-> how many of them are decimals], so *)
(* that the rules of decimal arithmetic are rules about integers here.     *)
(***************************************************************************)
EXTENDS Integers

MaxPlaces == 4   \* bound: decimals that a figure shows

Figure == [m : Int, p : 0..MaxPlaces]

\* Ten to the number of decimals.
Scale(p) == CASE p = 0 -> 1 [] p = 1 -> 10 [] p = 2 -> 100 [] p = 3 -> 1000 [] p = 4 -> 10000

\* The scale of quantity * rate.
ProductScale(quantity, rate) == Scale(quantity.p) * Scale(rate.p)

IsExact(quantity, rate, amount) ==
    quantity.m * rate.m * Scale(amount.p) = amount.m * ProductScale(quantity, rate)

\* Twice the products with the lowest and the highest rate that is shown as
\* this one; with a negative quantity they change places.
LowProduct(quantity, rate) == quantity.m * (2 * rate.m - 1)
HighProduct(quantity, rate) == quantity.m * (2 * rate.m + 1)

LeastPossible(quantity, rate) ==
    IF LowProduct(quantity, rate) <= HighProduct(quantity, rate)
    THEN LowProduct(quantity, rate) ELSE HighProduct(quantity, rate)

MostPossible(quantity, rate) ==
    IF LowProduct(quantity, rate) <= HighProduct(quantity, rate)
    THEN HighProduct(quantity, rate) ELSE LowProduct(quantity, rate)

\* The window of the products meets the window of the amount.
WindowsMeet(quantity, rate, amount) ==
    /\ (2 * amount.m - 1) * ProductScale(quantity, rate) <= MostPossible(quantity, rate) * Scale(amount.p)
    /\ (2 * amount.m + 1) * ProductScale(quantity, rate) >= LeastPossible(quantity, rate) * Scale(amount.p)

\* ArithmeticConsistency
Consistencies == {"exact", "consistent", "review"}

\* classify_row_arithmetic
Classify(quantity, rate, amount) ==
    IF IsExact(quantity, rate, amount) THEN "exact"
    ELSE IF WindowsMeet(quantity, rate, amount) THEN "consistent" ELSE "review"

\* _closes
Closes(quantity, rate, amount) == Classify(quantity, rate, amount) # "review"

=============================================================================
