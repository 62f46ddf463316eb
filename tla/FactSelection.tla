---------------------------- MODULE FactSelection -----------------------------
(***************************************************************************)
(* Which of the stated values a comparison may use (extraction/selection.py)*)
(* and what is computed from the values it uses (calculation/engine.py).   *)
(*                                                                         *)
(* A fact is a row of extracted_facts, a record with at least doc, type,   *)
(* row, version, value, literal and unit, no two of them alike in the      *)
(* first four.  Values are in thousandths.                                 *)
(***************************************************************************)
EXTENDS Integers

CONSTANT Rank   \* of a version: the order of its string

\* numeric_value is a NUMERIC(20, 2): a value is rounded when it is stored.
Stored(n) == IF n >= 0 THEN ((n + 5) \div 10) * 10 ELSE -(((5 - n) \div 10) * 10)

\* Mutant: one claim a document.
NewestPerDocument(facts) ==
    LET at == {f.doc : f \in facts}
    IN  {CHOOSE f \in facts : f.doc = d /\ \A g \in facts : g.doc = d => Rank[g.version] <= Rank[f.version] :
            d \in at}

\* _newest_per_claim: the newest reading of each row of each document.
NewestPerClaim(facts) ==
    {f \in facts : \A g \in facts :
        g.doc = f.doc /\ g.row = f.row => Rank[g.version] <= Rank[f.version]}

\* Two facts are one claim if they agree in this.
Comparable(f) == <<f.value, f.unit, f.literal>>

NoFact == [type |-> ""]

\* Claims that differ resolve to none.
Agree(candidates) == \A f \in candidates, g \in candidates : Comparable(f) = Comparable(g)

FirstOf(candidates) == CHOOSE f \in candidates : \A g \in candidates : f.doc = g.doc => f.row <= g.row

Selected(type, candidates) ==
    [type |-> type,
     fact |-> IF candidates # {} /\ Agree(candidates) THEN FirstOf(candidates) ELSE NoFact,
     considered |-> candidates,
     conflicting |-> ~ Agree(candidates)]

\* select_one: only documents that are in force count, and facts that are not
\* retracted.
SelectOne(type, facts, inForce, retracted) ==
    Selected(type, NewestPerClaim({f \in facts \ retracted : f.doc \in inForce}))

\* select_facts: one selection for each type that is stated.
SelectFacts(facts, inForce, retracted) ==
    {SelectOne(t, {f \in facts : f.type = t}, inForce, retracted) : t \in {f.type : f \in facts}}

\* The facts that were chosen, at most one of a type.
Chosen(selections) == {s.fact : s \in {x \in selections : x.fact # NoFact}}

-----------------------------------------------------------------------------
(* Calculations *)

Has(facts, types) == types \subseteq {f.type : f \in facts}
The(facts, type) == CHOOSE f \in facts : f.type = type

Folded(unit) == IF unit = "cum" THEN "Cum" ELSE unit

\* _comparable_pair: a missing unit agrees with any.
SameUnit(left, right) == "" \in {left.unit, right.unit} \/ Folded(left.unit) = Folded(right.unit)

\* What was computed, and from which facts.
Calculated(type, value, inputs) == [type |-> type, value |-> value, inputs |-> inputs]

Difference(facts, type, left, right) ==
    IF Has(facts, {left, right}) /\ SameUnit(The(facts, left), The(facts, right))
    THEN {Calculated(type, The(facts, left).value - The(facts, right).value,
                     {The(facts, left), The(facts, right)})}
    ELSE {}

QuantityVariance(facts) ==
    Difference(facts, "quantity_variance", "cumulative_claim_quantity", "measured_quantity")

RemainingContractQuantity(facts) ==
    Difference(facts, "remaining_contract_quantity", "contracted_quantity", "cumulative_claim_quantity")

RateVariance(facts) == Difference(facts, "rate_variance", "claimed_rate", "contract_rate")

\* What the excess is worth at the contract rate (in millionths).
UnsupportedAmount(facts, variances) ==
    {Calculated("unsupported_amount",
                (IF v.value > 0 THEN v.value ELSE 0) * The(facts, "contract_rate").value,
                {The(facts, "contract_rate")}) :
        v \in {x \in variances : Has(facts, {"contract_rate"})}}

\* compute_for_work_item
ComputeForWorkItem(facts) ==
    QuantityVariance(facts) \cup RemainingContractQuantity(facts) \cup RateVariance(facts)
    \cup UnsupportedAmount(facts, QuantityVariance(facts))

=============================================================================
