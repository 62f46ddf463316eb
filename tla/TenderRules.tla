------------------------------ MODULE TenderRules -------------------------------
(***************************************************************************)
(* What is calculated from the facts of a tender (calculation/engine.py)   *)
(* and the rules that judge a document (verification/rules.py,             *)
(* bill_estimate.py, bill_total.py, reference_policy.py) and a project     *)
(* (verification/cross_document.py).                                       *)
(*                                                                         *)
(* Facts are functions from a field to a value.  Money of a notice is in   *)
(* rupees, that of a bill in hundredths, a share in thousandths.  A share  *)
(* that is calculated is the pair [part, whole]; a required security is in *)
(* thousandths of a rupee.                                                 *)
(***************************************************************************)
EXTENDS NoticeReader, PolicyReader, BillReader

DocumentRules == {"bid_security_share", "priced_bill_matches_estimate", "bill_total", "reference_policy"}
ProjectRules == {"fact_agreement", "share_consistency"}

\* RuleResult: the outcome, the fields, calculated values and provisions cited.
Result(outcome, facts, derived, provisions) ==
    [outcome |-> outcome, facts |-> facts, derived |-> derived, provisions |-> provisions]

Inconclusive(facts) == Result("inconclusive", facts, {}, {})

Has(facts, name) == name \in DOMAIN facts

Distinct(a, b) == IF a > b THEN a - b ELSE b - a   \* abs(a - b)

-----------------------------------------------------------------------------
(* Calculations *)

\* compute_bid_security_share
BidSecurityShare(facts) ==
    IF /\ {"estimated_cost", "bid_security"} \subseteq DOMAIN facts
       /\ facts["estimated_cost"] > 0
    THEN {[part |-> facts["bid_security"], whole |-> facts["estimated_cost"]]} ELSE {}

\* compute_bill_items_total: of the rows of this reading.
BillItemsTotal(rows) == IF rows = <<>> THEN {} ELSE {TotalAmount(rows)}

\* compute_required_bid_security: the share of the cost, up to the cap.
RequiredBidSecurity(cost, provision) ==
    Min({cost * provision.share} \cup {1000 * cap : cap \in provision.cap})

-----------------------------------------------------------------------------
(* Rules about a document *)

\* evaluate_bid_security: what the caller asks for outranks what the document
\* prescribes; a difference of a thousandth agrees.
EvaluateBidSecurity(facts, supplied, share) ==
    LET cited == {"estimated_cost", "bid_security", "prescribed_bid_security_share"} \cap DOMAIN facts
        stated == IF Has(facts, "prescribed_bid_security_share")
                  THEN {facts["prescribed_bid_security_share"]} ELSE {}
        required == IF supplied # {} THEN supplied ELSE stated
    IN  IF share = {} THEN Inconclusive(cited)
        ELSE LET s == CHOOSE s \in share : TRUE
                 judged(r) == IF Distinct(1000 * s.part, r * s.whole) <= s.whole THEN "pass" ELSE "fail"
             IN  Result(IF required = {} THEN "inconclusive" ELSE judged(CHOOSE r \in required : TRUE),
                        cited, {"bid_security_share"}, {})

\* evaluate_bill_against_estimate: reported, never judged.
EvaluateBillAgainstEstimate(facts) ==
    Inconclusive({"stated_bill_total", "estimated_cost"} \cap DOMAIN facts)

BillTotalTolerance == 100   \* BILL_TOTAL_TOLERANCE

\* Mutant: rows that could not be read are not counted.
ReadableRowsAddUp(facts, rows, rejected, total) ==
    LET cited == {"stated_bill_total"} \cap DOMAIN facts
        adds == \A t \in total : Distinct(t, facts["stated_bill_total"]) <= BillTotalTolerance
    IN  IF rows = <<>> \/ total = {} THEN Inconclusive(cited)
        ELSE Result(IF cited = {} THEN "inconclusive" ELSE IF adds THEN "pass" ELSE "review",
                    cited, {"bill_items_total"}, {})

\* evaluate_bill_total: no verdict without rows, without a stated total, or if
\* a row could not be read.
EvaluateBillTotal(facts, rows, rejected, total) ==
    LET cited == {"stated_bill_total"} \cap DOMAIN facts
        adds == \A t \in total : Distinct(t, facts["stated_bill_total"]) <= BillTotalTolerance
    IN  IF rows = <<>> \/ total = {} THEN Inconclusive(cited)
        ELSE Result(IF cited = {} \/ rejected > 0 THEN "inconclusive"
                    ELSE IF adds THEN "pass" ELSE "review",
                    cited, {"bill_items_total"}, {})

ReferenceTolerance == 1000   \* REFERENCE_BID_SECURITY_TOLERANCE

\* evaluate_bid_security_against_policy: judged if a single provision applies.
EvaluateAgainstPolicy(facts, considered, required) ==
    LET cited == {"estimated_cost", "bid_security"} \cap DOMAIN facts
        agrees == \A r \in required : Distinct(1000 * facts["bid_security"], r) <= ReferenceTolerance
    IN  IF ~ Has(facts, "estimated_cost") THEN Inconclusive(cited)
        ELSE IF Cardinality(considered) # 1 THEN Result("inconclusive", cited, {}, considered)
        ELSE Result(IF ~ Has(facts, "bid_security") THEN "inconclusive"
                    ELSE IF agrees THEN "pass" ELSE "fail",
                    cited, {"required_bid_security"}, considered)

-----------------------------------------------------------------------------
(* Rules about a project *)

\* Of stated[type][document], one value for each document that states the type.

Comparable(stated) == {t \in DOMAIN stated : Cardinality(DOMAIN stated[t]) > 1}

Agree(stated, t) == Cardinality(Range(stated[t])) = 1

\* evaluate_fact_agreement
EvaluateFactAgreement(stated) ==
    IF Comparable(stated) = {} THEN "inconclusive"
    ELSE IF \A t \in Comparable(stated) : Agree(stated, t) THEN "pass" ELSE "fail"

SameShare(a, b) == a.part * b.whole = b.part * a.whole

\* evaluate_derived_share_consistency: shares[document]
EvaluateShareConsistency(shares) ==
    IF Cardinality(DOMAIN shares) < 2 THEN "inconclusive"
    ELSE IF \A d, e \in DOMAIN shares : SameShare(shares[d], shares[e]) THEN "pass" ELSE "fail"

=============================================================================
