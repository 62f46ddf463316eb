------------------------- MODULE TenderVerdictsProofs --------------------------
(***************************************************************************)
(* Theorems of TenderVerdicts, for any documents, whatever the readers     *)
(* make of them: what is written refers to what is there, what a reference *)
(* quotes is compared with nothing, and a priced row is sent to review     *)
(* exactly if rounding what is shown cannot explain it.                    *)
(***************************************************************************)
EXTENDS TenderVerdicts, WellFoundedInduction, FiniteSetTheorems, TLAPS

-----------------------------------------------------------------------------
(* Induction *)

LEMMA LeastNumber ==
    ASSUME NEW S \in SUBSET Nat, S # {}
    PROVE  \E n \in S : \A m \in S : n <= m
<1>1. PICK n \in S : \A m \in S : ~ (<<m, n>> \in OpToRel(<, Nat))
  BY WFMin, NatLessThanWellFounded
<1>2. \A m \in S : n <= m
  <2> SUFFICES ASSUME NEW m \in S, m < n PROVE FALSE
    OBVIOUS
  <2> QED BY <1>1 DEF OpToRel
<1> QED BY <1>2

\* T is the set of the numbers for which something holds.
LEMMA Inductively ==
    ASSUME NEW N \in Nat, NEW T, 0 \in T, \A n \in 1..N : n - 1 \in T => n \in T
    PROVE  0..N \subseteq T
<1> DEFINE Bad == {n \in 0..N : n \notin T}
<1> SUFFICES ASSUME Bad # {} PROVE FALSE
  OBVIOUS
<1>1. Bad \in SUBSET Nat
  OBVIOUS
<1>2. PICK n \in Bad : \A m \in Bad : n <= m
  <2> HIDE DEF Bad
  <2> QED BY <1>1, LeastNumber
<1>3. n \in 1..N
  BY <1>2
<1>4. n - 1 \in 0..N /\ n - 1 \notin Bad
  BY <1>2, <1>3
<1> QED BY <1>2, <1>3, <1>4

-----------------------------------------------------------------------------
(* What is written over what was there *)

LEMMA OverIs ==
    ASSUME NEW new, NEW old, NEW k
    PROVE  /\ k \in DOMAIN Over(new, old) <=> k \in DOMAIN new \/ k \in DOMAIN old
           /\ k \in DOMAIN new => Over(new, old)[k] = new[k]
           /\ k \in DOMAIN old /\ k \notin DOMAIN new => Over(new, old)[k] = old[k]
BY DEF Over

LEMMA NothingIs == DOMAIN Nothing = {}
BY DEF Nothing

LEMMA EntryIs ==
    ASSUME NEW d, NEW name, NEW values, NEW keys, NEW provisions
    PROVE  \A k \in DOMAIN Entry(d, name, values, keys, provisions) :
              /\ k = <<d, name>> /\ values # {}
              /\ Entry(d, name, values, keys, provisions)[k].facts = keys
              /\ Entry(d, name, values, keys, provisions)[k].value = values
BY DEF Entry

LEMMA EntryOf ==
    ASSUME NEW d, NEW name, NEW values, NEW keys, NEW provisions, values # {}
    PROVE  <<d, name>> \in DOMAIN Entry(d, name, values, keys, provisions)
BY DEF Entry

-----------------------------------------------------------------------------
(* What a reading states *)

BillTypes == {"contracted_quantity", "contract_rate", "line_amount", "stated_bill_total"}

\* What a bill states is nothing that a notice states.
LEMMA BillFactsAre ==
    ASSUME NEW bill
    PROVE  /\ \A f \in DOMAIN BillFacts(bill) : f = <<f[1], f[2]>> /\ f[1] \in BillTypes
           /\ bill.rows = <<>> => DOMAIN BillFacts(bill) = {}
           /\ bill.rows # <<>> => \A k \in DOMAIN bill.rows : <<"line_amount", k>> \in DOMAIN BillFacts(bill)
<1> DEFINE fields == {"contracted_quantity", "contract_rate", "line_amount"} \X (DOMAIN bill.rows)
           total == {"stated_bill_total"} \X (IF bill.total = {} THEN {} ELSE {0})
<1>1. CASE bill.rows = <<>>
  BY <1>1, NothingIs DEF BillFacts
<1>2. CASE bill.rows # <<>>
  <2>1. DOMAIN BillFacts(bill) = fields \cup total
    BY <1>2 DEF BillFacts, Over
  <2>2. \A f \in fields : f = <<f[1], f[2]>> /\ f[1] \in BillTypes
    BY DEF BillTypes
  <2>3. \A f \in total : f = <<f[1], f[2]>> /\ f[1] \in BillTypes
    BY DEF BillTypes
  <2>4. \A k \in DOMAIN bill.rows : <<"line_amount", k>> \in fields
    OBVIOUS
  <2> HIDE DEF fields, total
  <2> QED BY <1>2, <2>1, <2>2, <2>3, <2>4
<1> QED BY <1>1, <1>2

LEMMA FieldsAre ==
    ASSUME NEW reading
    PROVE  /\ DOMAIN Fields(reading) = ((DOMAIN reading.notice) \X {0}) \cup DOMAIN BillFacts(reading.bill)
           /\ \A f \in DOMAIN Fields(reading) : f = <<f[1], f[2]>>
<1>1. DOMAIN Fields(reading) = ((DOMAIN reading.notice) \X {0}) \cup DOMAIN BillFacts(reading.bill)
  BY DEF Fields, Over
<1>2. \A f \in (DOMAIN reading.notice) \X {0} : f = <<f[1], f[2]>>
  OBVIOUS
<1> QED BY <1>1, <1>2, BillFactsAre

\* The keys under which a reading of a document is stored.
Written(d, fields) == {<<d, f[1], f[2]>> : f \in DOMAIN fields}

LEMMA WrittenAre ==
    ASSUME NEW d, NEW fields, \A f \in DOMAIN fields : f = <<f[1], f[2]>>
    PROVE  /\ \A k \in Written(d, fields) : k = <<k[1], k[2], k[3]>> /\ k[1] = d /\ <<k[2], k[3]>> \in DOMAIN fields
           /\ \A f \in DOMAIN fields : <<d, f[1], f[2]>> \in Written(d, fields)
           /\ \A t \in DOMAIN ByType(fields) : <<d, t, 0>> \in Written(d, fields)
<1>1. ASSUME NEW k \in Written(d, fields)
      PROVE  k = <<k[1], k[2], k[3]>> /\ k[1] = d /\ <<k[2], k[3]>> \in DOMAIN fields
  <2>1. PICK f \in DOMAIN fields : k = <<d, f[1], f[2]>>
    BY DEF Written
  <2>2. k[1] = d /\ k[2] = f[1] /\ k[3] = f[2]
    BY <2>1
  <2> QED BY <2>1, <2>2
<1>2. \A f \in DOMAIN fields : <<d, f[1], f[2]>> \in Written(d, fields)
  BY DEF Written
<1>3. ASSUME NEW t \in DOMAIN ByType(fields) PROVE <<d, t, 0>> \in Written(d, fields)
  <2>1. PICK f \in DOMAIN fields : f[2] = 0 /\ f[1] = t
    BY DEF ByType
  <2> QED BY <1>2, <2>1
<1> QED BY <1>1, <1>2, <1>3

-----------------------------------------------------------------------------
(* What a verdict about a document cites *)

Outcomes == {"pass", "fail", "review", "inconclusive"}

\* What a result cites is there: facts among those stated, the value of the
\* one name if there is a value.
Cites(result, facts, name, value) ==
    /\ result.outcome \in Outcomes
    /\ result.facts \subseteq DOMAIN facts
    /\ result.derived \subseteq {name} /\ (value = {} => result.derived = {})

LEMMA ShareCites ==
    ASSUME NEW facts, NEW supplied, NEW share
    PROVE  Cites(EvaluateBidSecurity(facts, supplied, share), facts, "bid_security_share", share)
BY DEF EvaluateBidSecurity, Cites, Inconclusive, Result, Outcomes

LEMMA EstimateCites ==
    ASSUME NEW facts, NEW name, NEW value
    PROVE  Cites(EvaluateBillAgainstEstimate(facts), facts, name, value)
BY DEF EvaluateBillAgainstEstimate, Cites, Inconclusive, Result, Outcomes

LEMMA TotalCites ==
    ASSUME NEW facts, NEW rows, NEW rejected, NEW total
    PROVE  Cites(EvaluateBillTotal(facts, rows, rejected, total), facts, "bill_items_total", total)
BY DEF EvaluateBillTotal, Cites, Inconclusive, Result, Outcomes

LEMMA PolicyCites ==
    ASSUME NEW facts, NEW considered, NEW required,
           Has(facts, "estimated_cost") /\ Cardinality(considered) = 1 => required # {}
    PROVE  Cites(EvaluateAgainstPolicy(facts, considered, required), facts, "required_bid_security", required)
BY DEF EvaluateAgainstPolicy, Cites, Inconclusive, Result, Outcomes

-----------------------------------------------------------------------------
(* What a calculated value is calculated from *)

LEMMA CalculatedFrom ==
    ASSUME NEW d, NEW facts, NEW rows, NEW considered, NEW keys,
           Keys(d, DOMAIN facts) \subseteq keys,
           rows # <<>> => {<<d, "line_amount", k>> : k \in DOMAIN rows} \subseteq keys,
           considered # {} => Has(facts, "estimated_cost")
    PROVE  /\ \A k \in DOMAIN Calculated(d, facts, rows, considered) :
                 /\ k[1] = d
                 /\ Calculated(d, facts, rows, considered)[k].facts \subseteq keys
           /\ Has(facts, "estimated_cost") /\ Cardinality(considered) = 1 =>
                 ValuesOf(d, Calculated(d, facts, rows, considered), "required_bid_security") # {}
<1> DEFINE required == IF Cardinality(considered) # 1 THEN {}
                       ELSE {RequiredBidSecurity(facts["estimated_cost"], p) : p \in considered}
           share == BidSecurityShare(facts)
           total == BillItemsTotal(rows)
           both == Keys(d, {"estimated_cost", "bid_security"})
           rowKeys == {<<d, "line_amount", k>> : k \in DOMAIN rows}
           cost == Keys(d, {"estimated_cost"})
           none == {}
           A == Entry(d, "bid_security_share", share, both, none)
           B == Entry(d, "bill_items_total", total, rowKeys, none)
           C == Entry(d, "required_bid_security", required, cost, considered)
<1>1. Calculated(d, facts, rows, considered) = Over(A, Over(B, C))
  BY DEF Calculated
<1>2. \A k \in DOMAIN A : k = <<d, "bid_security_share">> /\ A[k].facts \subseteq keys
  <2>1. share # {} => both \subseteq keys
    BY DEF BidSecurityShare, Keys
  <2> HIDE DEF share, both, none
  <2> QED BY <2>1, EntryIs
<1>3. \A k \in DOMAIN B : k = <<d, "bill_items_total">> /\ B[k].facts \subseteq keys
  <2>1. total # {} => rowKeys \subseteq keys
    BY DEF BillItemsTotal
  <2> HIDE DEF total, rowKeys, none
  <2> QED BY <2>1, EntryIs
<1>4. \A k \in DOMAIN C : /\ k = <<d, "required_bid_security">> /\ required # {}
                          /\ C[k].facts \subseteq keys /\ C[k].value = required
  <2>1. required # {} => cost \subseteq keys
    BY DEF Keys, Has
  <2> HIDE DEF required, cost
  <2> QED BY <2>1, EntryIs
<1>5. ASSUME Has(facts, "estimated_cost"), Cardinality(considered) = 1
      PROVE  <<d, "required_bid_security">> \in DOMAIN C
  <2>1. considered # {}
    BY <1>5, FS_EmptySet
  <2>2. required # {}
    BY <1>5, <2>1
  <2> HIDE DEF required, cost
  <2> QED BY <2>2, EntryOf
<1> HIDE DEF A, B, C, required
<1>6. \A k \in DOMAIN Over(A, Over(B, C)) : k[1] = d /\ Over(A, Over(B, C))[k].facts \subseteq keys
  <2> DEFINE BC == Over(B, C)
  <2>1. ASSUME NEW k \in DOMAIN BC PROVE k[1] = d /\ BC[k].facts \subseteq keys
    BY <1>3, <1>4, <2>1, OverIs
  <2> HIDE DEF BC
  <2>2. ASSUME NEW k \in DOMAIN Over(A, BC) PROVE k[1] = d /\ Over(A, BC)[k].facts \subseteq keys
    BY <1>2, <2>1, <2>2, OverIs
  <2> QED BY <2>2 DEF BC
<1>7. ASSUME Has(facts, "estimated_cost"), Cardinality(considered) = 1
      PROVE  ValuesOf(d, Over(A, Over(B, C)), "required_bid_security") # {}
  <2> DEFINE k == <<d, "required_bid_security">>
             BC == Over(B, C)
  <2>1. k # <<d, "bid_security_share">> /\ k # <<d, "bill_items_total">>
    OBVIOUS
  <2>2. k \in DOMAIN C
    BY <1>5, <1>7
  <2> HIDE DEF k
  <2>3. k \notin DOMAIN A /\ k \notin DOMAIN B /\ C[k].value # {}
    BY <1>2, <1>3, <1>4, <2>1, <2>2
  <2>4. k \in DOMAIN BC /\ BC[k] = C[k]
    BY <2>2, <2>3, OverIs
  <2> HIDE DEF BC
  <2>5. k \in DOMAIN Over(A, BC) /\ Over(A, BC)[k] = C[k]
    BY <2>3, <2>4, OverIs
  <2> QED BY <2>3, <2>5 DEF ValuesOf, k, BC
<1> QED BY <1>1, <1>6, <1>7

\* What the results of all rules cite is there.
LEMMA AllCite ==
    ASSUME NEW d, NEW facts, NEW bill, NEW supplied, NEW considered, NEW derived,
           Has(facts, "estimated_cost") /\ Cardinality(considered) = 1 =>
               ValuesOf(d, derived, "required_bid_security") # {},
           NEW rule \in DocumentRules
    PROVE  /\ Evaluated(d, facts, bill, supplied, considered, derived)[rule].outcome \in Outcomes
           /\ Evaluated(d, facts, bill, supplied, considered, derived)[rule].facts \subseteq DOMAIN facts
           /\ \A name \in Evaluated(d, facts, bill, supplied, considered, derived)[rule].derived :
                 <<d, name>> \in DOMAIN derived
<1> DEFINE of(name) == ValuesOf(d, derived, name)
           result == Evaluated(d, facts, bill, supplied, considered, derived)
<1>1. /\ result.bid_security_share = EvaluateBidSecurity(facts, supplied, of("bid_security_share"))
      /\ result.priced_bill_matches_estimate = EvaluateBillAgainstEstimate(facts)
      /\ result.bill_total = EvaluateBillTotal(facts, bill.rows, bill.rejected, of("bill_items_total"))
      /\ result.reference_policy = EvaluateAgainstPolicy(facts, considered, of("required_bid_security"))
  BY DEF Evaluated
<1>2. \A name : of(name) # {} => <<d, name>> \in DOMAIN derived
  BY DEF ValuesOf
<1> HIDE DEF of, result
<1>3. ASSUME NEW r, NEW name, Cites(r, facts, name, of(name))
      PROVE  /\ r.outcome \in Outcomes /\ r.facts \subseteq DOMAIN facts
             /\ \A n \in r.derived : <<d, n>> \in DOMAIN derived
  BY <1>2, <1>3 DEF Cites
<1>4. Cites(result.bid_security_share, facts, "bid_security_share", of("bid_security_share"))
  BY <1>1, ShareCites
<1>5. Cites(result.priced_bill_matches_estimate, facts, "bid_security_share", of("bid_security_share"))
  BY <1>1, EstimateCites
<1>6. Cites(result.bill_total, facts, "bill_items_total", of("bill_items_total"))
  BY <1>1, TotalCites
<1>7. Cites(result.reference_policy, facts, "required_bid_security", of("required_bid_security"))
  <2>1. Has(facts, "estimated_cost") /\ Cardinality(considered) = 1 => of("required_bid_security") # {}
    BY DEF of
  <2> QED BY <1>1, <2>1, PolicyCites
<1>8. /\ result[rule].outcome \in Outcomes /\ result[rule].facts \subseteq DOMAIN facts
      /\ \A n \in result[rule].derived : <<d, n>> \in DOMAIN derived
  <2>1. CASE rule = "bid_security_share"
    BY <1>3, <1>4, <2>1
  <2>2. CASE rule = "priced_bill_matches_estimate"
    BY <1>3, <1>5, <2>2
  <2>3. CASE rule = "bill_total"
    BY <1>3, <1>6, <2>3
  <2>4. CASE rule = "reference_policy"
    BY <1>3, <1>7, <2>4
  <2> QED BY <2>1, <2>2, <2>3, <2>4 DEF DocumentRules
<1> QED BY <1>8 DEF result

-----------------------------------------------------------------------------
(* The store *)

\* What is in the store belongs to a document that was processed, and refers to
\* what else is in it.
Formed(s) ==
    s = [state |-> s.state, facts |-> s.facts, retracted |-> s.retracted, provisions |-> s.provisions,
         readAs |-> s.readAs, derived |-> s.derived, findings |-> s.findings]

FactsStand(s) ==
    \A k \in DOMAIN s.facts :
        k = <<k[1], k[2], k[3]>> /\ k[1] \in Documents /\ s.state[k[1]] = "processed"

DerivedStand(s) == \A k \in DOMAIN s.derived : s.derived[k].facts \subseteq DOMAIN s.facts

FindingStands(s, k) ==
    /\ s.findings[k].outcome \in Outcomes
    /\ Keys(k[1], s.findings[k].facts) \subseteq DOMAIN s.facts
    /\ {k[1]} \X s.findings[k].derived \subseteq DOMAIN s.derived

Sound(s) ==
    /\ Formed(s)
    /\ s.state \in [Documents -> States]
    /\ s.readAs = [d \in Documents |-> s.readAs[d]]
    /\ FactsStand(s)
    /\ s.retracted \subseteq DOMAIN s.facts
    /\ DerivedStand(s)
    /\ \A k \in DOMAIN s.findings : FindingStands(s, k)

LEMMA ConsideredForACost ==
    ASSUME NEW d, NEW provisions, NEW facts, Considered(d, provisions, facts) # {}
    PROVE  Has(facts, "estimated_cost")
BY DEF Considered

LEMMA AnalysedIsSound ==
    ASSUME NEW d \in Documents, NEW s, Sound(s), NEW reading, NEW supplied
    PROVE  Sound(Analysed(d, s, reading, supplied))
<1> DEFINE t == Analysed(d, s, reading, supplied)
           fields == Fields(reading)
           facts == ByType(fields)
           rows == reading.bill.rows
           considered == Considered(d, Provisions(d, s, reading.provisions), facts)
           derived == Calculated(d, facts, rows, considered)
           result == Evaluated(d, facts, reading.bill, supplied, considered, derived)
           written == [k \in Written(d, fields) |-> fields[<<k[2], k[3]>>]]
           found == [k \in {d} \X DocumentRules |-> result[k[2]]]
           keys == DOMAIN t.facts
<1>1. /\ Formed(t)
      /\ t.state = [s.state EXCEPT ![d] = "processed"]
      /\ t.facts = Over(written, s.facts)
      /\ t.retracted = Retracted(d, s, reading.suppressed)
      /\ t.readAs = [s.readAs EXCEPT ![d] = type[d]]
      /\ t.derived = Over(derived, s.derived)
      /\ t.findings = Over(found, s.findings)
  BY DEF Analysed, Formed, Written
<1>2. \A f \in DOMAIN fields : f = <<f[1], f[2]>>
  BY FieldsAre
<1>3. /\ \A k \in Written(d, fields) : k = <<k[1], k[2], k[3]>> /\ k[1] = d
      /\ \A f \in DOMAIN fields : <<d, f[1], f[2]>> \in Written(d, fields)
      /\ \A n \in DOMAIN facts : <<d, n, 0>> \in Written(d, fields)
  <2> HIDE DEF fields
  <2> QED BY <1>2, WrittenAre
<1>4. rows # <<>> => {<<d, "line_amount", k>> : k \in DOMAIN rows} \subseteq Written(d, fields)
  <2> SUFFICES ASSUME rows # <<>>, NEW k \in DOMAIN rows
               PROVE  <<d, "line_amount", k>> \in Written(d, fields)
    OBVIOUS
  <2>1. <<"line_amount", k>> \in DOMAIN BillFacts(reading.bill)
    BY BillFactsAre
  <2>2. <<"line_amount", k>> \in DOMAIN fields
    BY <2>1, FieldsAre
  <2> HIDE DEF fields
  <2> QED BY <1>3, <2>2
<1>5. considered # {} => Has(facts, "estimated_cost")
  <2> HIDE DEF facts
  <2> QED BY ConsideredForACost
<1>6. DOMAIN written = Written(d, fields) /\ DOMAIN found = {d} \X DocumentRules
  OBVIOUS
<1>7. \A k : k \in keys <=> k \in Written(d, fields) \/ k \in DOMAIN s.facts
  <2> HIDE DEF t, written, fields
  <2> QED BY <1>1, <1>6, OverIs
<1>8. /\ \A k \in DOMAIN derived : k[1] = d /\ derived[k].facts \subseteq Written(d, fields)
      /\ Has(facts, "estimated_cost") /\ Cardinality(considered) = 1 =>
            ValuesOf(d, derived, "required_bid_security") # {}
  <2> DEFINE all == Written(d, fields)
  <2>1. Keys(d, DOMAIN facts) \subseteq all
    BY <1>3 DEF Keys
  <2>2. rows # <<>> => {<<d, "line_amount", k>> : k \in DOMAIN rows} \subseteq all
    BY <1>4
  <2> HIDE DEF all, facts, rows, considered
  <2>3. /\ \A k \in DOMAIN derived : k[1] = d /\ derived[k].facts \subseteq all
        /\ Has(facts, "estimated_cost") /\ Cardinality(considered) = 1 =>
              ValuesOf(d, derived, "required_bid_security") # {}
    BY <1>5, <2>1, <2>2, CalculatedFrom
  <2> QED BY <2>3 DEF all
<1>9. ASSUME NEW rule \in DocumentRules
      PROVE  /\ result[rule].outcome \in Outcomes /\ result[rule].facts \subseteq DOMAIN facts
             /\ \A name \in result[rule].derived : <<d, name>> \in DOMAIN derived
  <2> HIDE DEF facts, considered, derived
  <2> QED BY <1>8, AllCite
<1> HIDE DEF t, fields, facts, rows, considered, derived, result, written, found
<1>10. /\ s.state \in [Documents -> States] /\ FactsStand(s) /\ s.retracted \subseteq DOMAIN s.facts
       /\ DerivedStand(s) /\ (\A k \in DOMAIN s.findings : FindingStands(s, k))
       /\ s.readAs = [e \in Documents |-> s.readAs[e]]
  BY DEF Sound
<1>11. t.state \in [Documents -> States] /\ t.state[d] = "processed"
       /\ \A e \in Documents : e # d => t.state[e] = s.state[e]
  BY <1>1, <1>10 DEF States
<1>12. t.readAs = [e \in Documents |-> t.readAs[e]]
  BY <1>1, <1>10
<1>13. FactsStand(t)
  <2> SUFFICES ASSUME NEW k \in keys
               PROVE  k = <<k[1], k[2], k[3]>> /\ k[1] \in Documents /\ t.state[k[1]] = "processed"
    BY DEF FactsStand
  <2>1. CASE k \in Written(d, fields)
    BY <1>3, <1>11, <2>1
  <2>2. CASE k \in DOMAIN s.facts
    <3>1. k = <<k[1], k[2], k[3]>> /\ k[1] \in Documents /\ s.state[k[1]] = "processed"
      BY <1>10, <2>2 DEF FactsStand
    <3> QED BY <1>11, <3>1
  <2> QED BY <1>7, <2>1, <2>2
<1>14. t.retracted \subseteq DOMAIN t.facts
  BY <1>1, <1>7, <1>10 DEF Retracted
<1>15. DerivedStand(t)
  <2> SUFFICES ASSUME NEW k \in DOMAIN t.derived PROVE t.derived[k].facts \subseteq keys
    BY DEF DerivedStand
  <2>1. CASE k \in DOMAIN derived
    <3>1. t.derived[k] = derived[k]
      BY <1>1, <2>1, OverIs
    <3> QED BY <1>7, <1>8, <2>1, <3>1
  <2>2. CASE k \notin DOMAIN derived
    <3>1. k \in DOMAIN s.derived /\ t.derived[k] = s.derived[k]
      BY <1>1, <2>2, OverIs
    <3>2. s.derived[k].facts \subseteq DOMAIN s.facts
      BY <1>10, <3>1 DEF DerivedStand
    <3> QED BY <1>7, <3>1, <3>2
  <2> QED BY <2>1, <2>2
<1>16. ASSUME NEW k \in DOMAIN t.findings PROVE FindingStands(t, k)
  <2>1. CASE k \in DOMAIN found
    <3>1. k[1] = d /\ k[2] \in DocumentRules
      BY <1>6, <2>1
    <3>2. t.findings[k] = result[k[2]]
      <4>1. t.findings[k] = found[k]
        BY <1>1, <2>1, OverIs
      <4> QED BY <2>1, <4>1 DEF found
    <3> DEFINE r == result[k[2]]
    <3>3. r.outcome \in Outcomes /\ r.facts \subseteq DOMAIN facts
          /\ \A name \in r.derived : <<d, name>> \in DOMAIN derived
      BY <1>9, <3>1
    <3> HIDE DEF r
    <3>4. Keys(d, r.facts) \subseteq keys
      BY <1>3, <1>7, <3>3 DEF Keys
    <3>5. {d} \X r.derived \subseteq DOMAIN t.derived
      <4>1. \A e \in {d} \X r.derived : e \in DOMAIN derived
        BY <3>3
      <4> QED BY <1>1, <4>1, OverIs
    <3>6. t.findings[k] = r
      BY <3>2 DEF r
    <3> QED BY <3>1, <3>3, <3>4, <3>5, <3>6 DEF FindingStands
  <2>2. CASE k \notin DOMAIN found
    <3>1. k \in DOMAIN s.findings /\ t.findings[k] = s.findings[k]
      BY <1>1, <2>2, OverIs
    <3>2. FindingStands(s, k)
      BY <1>10, <3>1
    <3>3. DOMAIN s.facts \subseteq keys
      BY <1>7
    <3>4. DOMAIN s.derived \subseteq DOMAIN t.derived
      BY <1>1, OverIs
    <3> QED BY <3>1, <3>2, <3>3, <3>4 DEF FindingStands
  <2> QED BY <2>1, <2>2
<1>17. Sound(t)
  BY <1>1, <1>11, <1>12, <1>13, <1>14, <1>15, <1>16 DEF Sound
<1> QED BY <1>17 DEF t

-----------------------------------------------------------------------------
(* What a reference quotes *)

\* A document with a text layer, in which no tender number is found.
Numberless(p, d) ==
    /\ HasTextLayer(ExtractText(p.content[d]))
    /\ FindNitNumber(ExtractText(p.content[d]).pages) = {}

\* What its text states, whoever states it.
StatedBy(p, d) == DOMAIN ExtractTenderNotice(ExtractText(p.content[d]))

ReadingsStand(p, r) ==
    r = [d \in Documents |-> [ocr \in BOOLEAN |-> {Read(text) : text \in Texts(p.content[d], ocr)}]]

LEMMA NoticeIs ==
    ASSUME NEW text
    PROVE  /\ DOMAIN ExtractTenderNotice(text) \subseteq NoticeFields
           /\ FindNitNumber(text.pages) = {} => "nit_number" \notin DOMAIN ExtractTenderNotice(text)
BY DEF ExtractTenderNotice

LEMMA ReadingIs ==
    ASSUME NEW p, NEW r, ReadingsStand(p, r), NEW d \in Documents, NEW ocr \in BOOLEAN
    PROVE  r[d][ocr] = {Read(text) : text \in Texts(p.content[d], ocr)}
BY DEF ReadingsStand

LEMMA ReadWithout ==
    ASSUME NEW p, NEW r, ReadingsStand(p, r), NEW d \in Documents
    PROVE  r[d][FALSE] # {}
<1>1. r[d][FALSE] = {Read(text) : text \in Texts(p.content[d], FALSE)}
  BY ReadingIs
<1>2. Texts(p.content[d], FALSE) = {ExtractText(p.content[d])}
  BY DEF Texts
<1> QED BY <1>1, <1>2

LEMMA NumberlessReading ==
    ASSUME NEW p, NEW r, ReadingsStand(p, r), NEW d \in Documents, Numberless(p, d),
           NEW ocr \in BOOLEAN, NEW read \in r[d][ocr]
    PROVE  /\ DOMAIN read.notice = StatedBy(p, d)
           /\ StatedBy(p, d) \subseteq NoticeFields /\ ~ Has(read.notice, "nit_number")
<1>1. Texts(p.content[d], ocr) = {ExtractText(p.content[d])}
  BY DEF Texts, Numberless
<1>2. read = Read(ExtractText(p.content[d]))
  BY <1>1, ReadingIs
<1>3. read.notice = ExtractTenderNotice(ExtractText(p.content[d]))
  BY <1>2 DEF Read
<1>4. FindNitNumber(ExtractText(p.content[d]).pages) = {}
  BY DEF Numberless
<1> QED BY <1>3, <1>4, NoticeIs DEF StatedBy, Has

\* The facts of a document that a notice may state of itself.
OfNotice(s, d) == {k \in DOMAIN s.facts : k[1] = d /\ k[2] \in NoticeFields}

\* Such facts are those that its text states; if it was last read as a
\* reference, all of them are withdrawn.
Withdrawn(p, s, d) ==
    /\ \A k \in OfNotice(s, d) : k[3] = 0 /\ k[2] \in StatedBy(p, d)
    /\ s.readAs[d] \in ReferenceTypes => OfNotice(s, d) \subseteq s.retracted

Quoted(p, s) == \A d \in Documents : Numberless(p, d) => Withdrawn(p, s, d)

\* An analysis of another document leaves both the facts and what they were
\* read as.
LEMMA OthersStay ==
    ASSUME NEW d \in Documents, NEW e \in Documents, e # d, NEW s, Sound(s), NEW reading, NEW supplied, NEW p,
           Withdrawn(p, s, e)
    PROVE  Withdrawn(p, Analysed(d, s, reading, supplied), e)
<1> DEFINE t == Analysed(d, s, reading, supplied)
           fields == Fields(reading)
           written == [k \in Written(d, fields) |-> fields[<<k[2], k[3]>>]]
<1>1. /\ t.facts = Over(written, s.facts)
      /\ t.retracted = Retracted(d, s, reading.suppressed)
      /\ t.readAs = [s.readAs EXCEPT ![d] = type[d]]
  BY DEF Analysed, Written
<1>2. \A k \in DOMAIN written : k[1] = d
  BY DEF Written
<1> HIDE DEF t, written
<1>3. ASSUME NEW k \in OfNotice(t, e) PROVE k \in OfNotice(s, e)
  BY <1>1, <1>2, <1>3, OverIs DEF OfNotice
<1>4. t.readAs[e] = s.readAs[e]
  BY <1>1 DEF Sound
<1>5. s.retracted \subseteq t.retracted
  BY <1>1 DEF Retracted
<1>6. Withdrawn(p, t, e)
  BY <1>3, <1>4, <1>5 DEF Withdrawn
<1> QED BY <1>6 DEF t

\* An analysis of the document itself.
LEMMA QuotesAreWithdrawn ==
    ASSUME NEW d \in Documents, NEW s, Sound(s), NEW supplied, NEW p, NEW r,
           Numberless(p, d), Withdrawn(p, s, d),
           ReadingsStand(p, r), NEW ocr \in BOOLEAN, NEW read \in r[d][ocr]
    PROVE  Withdrawn(p, Analysed(d, s, Taken(d, read), supplied), d)
<1> DEFINE reading == Taken(d, read)
           t == Analysed(d, s, reading, supplied)
           fields == Fields(reading)
           written == [k \in Written(d, fields) |-> fields[<<k[2], k[3]>>]]
<1>1. /\ t.facts = Over(written, s.facts)
      /\ t.retracted = Retracted(d, s, reading.suppressed)
      /\ t.readAs = [s.readAs EXCEPT ![d] = type[d]]
  BY DEF Analysed, Written
<1>2. DOMAIN read.notice = StatedBy(p, d) /\ StatedBy(p, d) \subseteq NoticeFields /\ ~ Has(read.notice, "nit_number")
  BY NumberlessReading
<1>3. /\ type[d] \in ReferenceTypes => /\ reading.notice = Nothing /\ reading.bill = NoBill
                                       /\ reading.suppressed = StatedBy(p, d)
      /\ type[d] \notin ReferenceTypes => reading.notice = read.notice
  BY <1>2 DEF Taken
<1>4. t.readAs[d] = type[d]
  BY <1>1 DEF Sound
<1>5. DOMAIN fields = ((DOMAIN reading.notice) \X {0}) \cup DOMAIN BillFacts(reading.bill)
      /\ \A f \in DOMAIN fields : f = <<f[1], f[2]>>
  <2> HIDE DEF reading
  <2> QED BY FieldsAre
<1>6. ASSUME NEW k \in DOMAIN written, k[2] \in NoticeFields
      PROVE  k[3] = 0 /\ k[2] \in DOMAIN reading.notice
  <2>1. k \in Written(d, fields)
    OBVIOUS
  <2> HIDE DEF fields, reading
  <2>2. <<k[2], k[3]>> \in DOMAIN fields
    BY <1>5, <2>1, WrittenAre
  <2>3. CASE <<k[2], k[3]>> \in (DOMAIN reading.notice) \X {0}
    BY <2>3
  <2>4. CASE <<k[2], k[3]>> \in DOMAIN BillFacts(reading.bill)
    <3> DEFINE f == <<k[2], k[3]>>
    <3>1. f[1] \in BillTypes
      <4> HIDE DEF f
      <4>1. f \in DOMAIN BillFacts(reading.bill)
        BY <2>4 DEF f
      <4> QED BY <4>1, BillFactsAre
    <3>2. k[2] \in BillTypes
      BY <3>1
    <3> QED BY <1>6, <3>2 DEF BillTypes, NoticeFields
  <2> QED BY <1>5, <2>2, <2>3, <2>4
<1> HIDE DEF t, written, fields, reading
<1>7. \A k \in OfNotice(t, d) : k \in OfNotice(s, d) \/ (k \in DOMAIN written /\ k[2] \in NoticeFields)
  BY <1>1, OverIs DEF OfNotice
<1>8. \A k \in OfNotice(s, d) : k[3] = 0 /\ k[2] \in StatedBy(p, d) /\ k \in DOMAIN s.facts /\ k[1] = d
  BY DEF Withdrawn, OfNotice
<1>9. ASSUME NEW k \in OfNotice(t, d) PROVE k[3] = 0 /\ k[2] \in StatedBy(p, d)
  <2>1. DOMAIN reading.notice \subseteq StatedBy(p, d)
    BY <1>2, <1>3, NothingIs
  <2> QED BY <1>6, <1>7, <1>8, <2>1
<1>10. ASSUME type[d] \in ReferenceTypes, NEW k \in OfNotice(t, d) PROVE k \in t.retracted
  <2>1. DOMAIN reading.notice = {}
    BY <1>3, <1>10, NothingIs
  <2>2. k \in OfNotice(s, d)
    BY <1>6, <1>7, <2>1
  <2> QED BY <1>1, <1>3, <1>8, <1>10, <2>2 DEF Retracted
<1>11. Withdrawn(p, t, d)
  BY <1>4, <1>9, <1>10 DEF Withdrawn
<1> QED BY <1>11 DEF t, reading

LEMMA AnalysedIsQuoted ==
    ASSUME NEW d \in Documents, NEW s, Sound(s), NEW supplied, NEW p, NEW r, Quoted(p, s),
           ReadingsStand(p, r), NEW ocr \in BOOLEAN, NEW read \in r[d][ocr]
    PROVE  Quoted(p, Analysed(d, s, Taken(d, read), supplied))
<1> SUFFICES ASSUME NEW e \in Documents, Numberless(p, e)
             PROVE  Withdrawn(p, Analysed(d, s, Taken(d, read), supplied), e)
  BY DEF Quoted
<1>1. Withdrawn(p, s, e)
  BY DEF Quoted
<1> DEFINE reading == Taken(d, read)
<1>2. CASE e = d
  BY <1>1, <1>2, QuotesAreWithdrawn
<1>3. CASE e # d
  <2> HIDE DEF reading
  <2>1. Withdrawn(p, Analysed(d, s, reading, supplied), e)
    BY <1>1, <1>3, OthersStay
  <2> QED BY <2>1 DEF reading
<1> QED BY <1>2, <1>3

-----------------------------------------------------------------------------
(* The loop over the documents *)

\* What holds of the store, of the readings of what is printed.
Stands(p, s) == Sound(s) /\ Quoted(p, s)

LEMMA AnalysedStands ==
    ASSUME NEW d \in Documents, NEW s, NEW supplied, NEW p, NEW r, Stands(p, s),
           ReadingsStand(p, r), NEW ocr \in BOOLEAN, NEW read \in r[d][ocr]
    PROVE  Stands(p, Analysed(d, s, Taken(d, read), supplied))
<1> DEFINE reading == Taken(d, read)
<1>1. Quoted(p, Analysed(d, s, Taken(d, read), supplied))
  BY AnalysedIsQuoted DEF Stands
<1>2. Sound(Analysed(d, s, reading, supplied))
  <2> HIDE DEF reading
  <2> QED BY AnalysedIsSound DEF Stands
<1> QED BY <1>1, <1>2 DEF Stands

\* A document that cannot be read changes nothing but its own state.
LEMMA FailedStands ==
    ASSUME NEW d \in Documents, NEW s, NEW p, Stands(p, s)
    PROVE  Stands(p, [s EXCEPT !.state = [s.state EXCEPT ![d] = IF @ = "processed" THEN @ ELSE "failed"]])
<1> DEFINE t == [s EXCEPT !.state = [s.state EXCEPT ![d] = IF @ = "processed" THEN @ ELSE "failed"]]
<1>1. Formed(s) /\ s.state \in [Documents -> States]
  BY DEF Stands, Sound
<1>2. /\ t.state = [s.state EXCEPT ![d] = IF @ = "processed" THEN @ ELSE "failed"]
      /\ t.facts = s.facts /\ t.retracted = s.retracted /\ t.readAs = s.readAs
      /\ t.derived = s.derived /\ t.findings = s.findings /\ t.provisions = s.provisions
      /\ Formed(t)
  <2> DEFINE st == [s.state EXCEPT ![d] = IF @ = "processed" THEN @ ELSE "failed"]
  <2>1. t = [s EXCEPT !.state = st]
    OBVIOUS
  <2> HIDE DEF st
  <2>2. t = [state |-> st, facts |-> s.facts, retracted |-> s.retracted, provisions |-> s.provisions,
             readAs |-> s.readAs, derived |-> s.derived, findings |-> s.findings]
    BY <1>1, <2>1 DEF Formed
  <2> HIDE DEF t
  <2> QED BY <2>2 DEF Formed, st
<1> HIDE DEF t
<1>3. t.state \in [Documents -> States]
      /\ \A e \in Documents : s.state[e] = "processed" => t.state[e] = "processed"
  BY <1>1, <1>2 DEF States
<1>4. Sound(t)
  <2>1. FactsStand(t)
    BY <1>2, <1>3 DEF Stands, Sound, FactsStand
  <2>2. DerivedStand(t)
    BY <1>2 DEF Stands, Sound, DerivedStand
  <2>3. \A k \in DOMAIN t.findings : FindingStands(t, k)
    BY <1>2 DEF Stands, Sound, FindingStands
  <2> QED BY <1>2, <1>3, <2>1, <2>2, <2>3 DEF Stands, Sound
<1>5. Quoted(p, t)
  <2>1. \A e \in Documents : OfNotice(t, e) = OfNotice(s, e)
    BY <1>2 DEF OfNotice
  <2> QED BY <1>2, <2>1 DEF Stands, Quoted, Withdrawn
<1>6. Stands(p, t)
  BY <1>4, <1>5 DEF Stands
<1> QED BY <1>6 DEF t

LEMMA ProcessedStands ==
    ASSUME NEW d \in Documents, NEW s, NEW p, Stands(p, s), ReadingsStand(p, readings), NEW reprocess
    PROVE  Stands(p, Processed(d, s, reprocess))
<1> DEFINE read == CHOOSE read \in readings[d][FALSE] : TRUE
           none == {}
<1>1. read \in readings[d][FALSE]
  BY ReadWithout
<1>2. Stands(p, Analysed(d, s, Taken(d, read), none))
  <2> HIDE DEF read, none
  <2> QED BY <1>1, AnalysedStands
<1>3. Stands(p, Analysed(d, s, TakenPlainly(d), {}))
  BY <1>2 DEF TakenPlainly
<1>4. Stands(p, [s EXCEPT !.state = [s.state EXCEPT ![d] = IF @ = "processed" THEN @ ELSE "failed"]])
  BY FailedStands
<1>5. \/ Processed(d, s, reprocess) = s
      \/ Processed(d, s, reprocess) = [s EXCEPT !.state = [s.state EXCEPT ![d] = IF @ = "processed" THEN @ ELSE "failed"]]
      \/ Processed(d, s, reprocess) = Analysed(d, s, TakenPlainly(d), {})
  BY DEF Processed
<1> QED BY <1>3, <1>4, <1>5

\* The stores after 0..n documents.
LoopTo(f, n, reprocess) ==
    f = [m \in 0..n |-> IF m = 0 THEN store ELSE Processed(Order[m], f[m - 1], reprocess)]

LEMMA LoopRuns ==
    ASSUME NEW N \in Nat, NEW reprocess
    PROVE  \E f : LoopTo(f, N, reprocess)
<1> DEFINE T == {n \in 0..N : \E f : LoopTo(f, n, reprocess)}
<1>1. 0 \in T
  <2> DEFINE f == [m \in 0..0 |-> store]
  <2>1. LoopTo(f, 0, reprocess)
    <3>1. \A m \in 0..0 : m = 0
      OBVIOUS
    <3> QED BY <3>1 DEF LoopTo
  <2> QED BY <2>1
<1>2. ASSUME NEW n \in 1..N, n - 1 \in T PROVE n \in T
  <2>1. PICK f : LoopTo(f, n - 1, reprocess)
    BY <1>2
  <2> DEFINE v == Processed(Order[n], f[n - 1], reprocess)
             g == [m \in 0..n |-> IF m = n THEN v ELSE f[m]]
             h == [m \in 0..n |-> IF m = 0 THEN store ELSE Processed(Order[m], g[m - 1], reprocess)]
  <2>2. ASSUME NEW m \in 0..n PROVE g[m] = h[m]
    <3>1. CASE m = n
      <4>1. n - 1 \in 0..n /\ n - 1 # n /\ n # 0
        OBVIOUS
      <4>2. g[n - 1] = f[n - 1] /\ g[m] = v
        BY <3>1, <4>1
      <4>3. h[m] = Processed(Order[n], g[n - 1], reprocess)
        BY <3>1, <4>1
      <4> QED BY <4>2, <4>3
    <3>2. CASE m # n
      <4>1. m \in 0..n-1 /\ g[m] = f[m]
        BY <3>2
      <4>2. f[m] = IF m = 0 THEN store ELSE Processed(Order[m], f[m - 1], reprocess)
        BY <2>1, <4>1 DEF LoopTo
      <4>3. m # 0 => m - 1 \in 0..n /\ m - 1 # n
        BY <4>1
      <4>4. m # 0 => g[m - 1] = f[m - 1]
        BY <4>3
      <4> QED BY <4>1, <4>2, <4>4
    <3> QED BY <3>1, <3>2
  <2>3. g = h
    <3>1. g = [m \in 0..n |-> g[m]] /\ h = [m \in 0..n |-> h[m]]
      OBVIOUS
    <3> HIDE DEF g, h
    <3> QED BY <2>2, <3>1
  <2>4. LoopTo(g, n, reprocess)
    <3> HIDE DEF g
    <3> QED BY <2>3 DEF LoopTo
  <2> HIDE DEF g
  <2> QED BY <2>4
<1>3. 0..N \subseteq T
  <2> HIDE DEF T
  <2> QED BY <1>1, <1>2, Inductively
<1> QED BY <1>3

LEMMA LoopEnds ==
    ASSUME NEW reprocess
    PROVE  \E f : LoopTo(f, Len(Order), reprocess) /\ AllProcessed(reprocess) = f[Len(Order)]
<1> DEFINE f == CHOOSE f : LoopTo(f, Len(Order), reprocess)
<1>1. Len(Order) \in Nat
  BY TenderAssumption
<1>2. LoopTo(f, Len(Order), reprocess)
  BY <1>1, LoopRuns
<1>3. AllProcessed(reprocess) = f[Len(Order)]
  BY DEF AllProcessed, LoopTo
<1> QED BY <1>2, <1>3

LEMMA AllProcessedStands ==
    ASSUME NEW p, Stands(p, store), ReadingsStand(p, readings), NEW reprocess
    PROVE  Stands(p, AllProcessed(reprocess))
<1> DEFINE N == Len(Order)
<1>1. PICK f : LoopTo(f, N, reprocess) /\ AllProcessed(reprocess) = f[N]
  BY LoopEnds
<1>2. N \in Nat /\ \A n \in 1..N : Order[n] \in Documents
  BY TenderAssumption
<1> DEFINE T == {n \in 0..N : Stands(p, f[n])}
<1>3. 0 \in T
  <2>1. f[0] = store
    BY <1>1, <1>2 DEF LoopTo
  <2> QED BY <1>2, <2>1
<1>4. ASSUME NEW n \in 1..N, n - 1 \in T PROVE n \in T
  <2>1. n \in 0..N /\ n # 0
    BY <1>2
  <2>2. f[n] = Processed(Order[n], f[n - 1], reprocess)
    BY <1>1, <2>1 DEF LoopTo
  <2> DEFINE s == f[n - 1]
             d == Order[n]
  <2>3. d \in Documents /\ Stands(p, s)
    BY <1>2, <1>4
  <2>4. Stands(p, Processed(d, s, reprocess))
    <3> HIDE DEF s, d
    <3> QED BY <2>3, ProcessedStands
  <2> QED BY <2>1, <2>2, <2>4
<1>5. 0..N \subseteq T
  <2> HIDE DEF T, N
  <2> QED BY <1>2, <1>3, <1>4, Inductively
<1>6. N \in T
  BY <1>2, <1>5
<1> QED BY <1>1, <1>6

-----------------------------------------------------------------------------
(* What is compared between the documents *)

LEMMA JudgedIs ==
    ASSUME NEW s, NEW chosen \in Representatives(Loaded(s))
    PROVE  /\ DOMAIN Judged(s, chosen) = {"fact_agreement", "share_consistency"}
           /\ Judged(s, chosen).fact_agreement.facts \subseteq DOMAIN s.facts \ s.retracted
           /\ \A rule \in DOMAIN Judged(s, chosen) : Judged(s, chosen)[rule].facts \subseteq DOMAIN s.facts
<1>1. chosen \subseteq DOMAIN s.facts \ s.retracted
  BY DEF Representatives, Loaded
<1>2. Judged(s, chosen).fact_agreement.facts \subseteq chosen
  BY DEF Judged, Result
<1>3. Judged(s, chosen).share_consistency.facts = {}
  BY DEF Judged, Result
<1>4. DOMAIN Judged(s, chosen) = {"fact_agreement", "share_consistency"}
  BY DEF Judged
<1> QED BY <1>1, <1>2, <1>3, <1>4

\* What has been withdrawn is not loaded.
LEMMA NotCompared ==
    ASSUME NEW p, NEW s, Stands(p, s), NEW chosen \in Representatives(Loaded(s)),
           NEW d \in Documents, Numberless(p, d), s.readAs[d] \in ReferenceTypes,
           NEW k \in Judged(s, chosen).fact_agreement.facts, k[1] = d
    PROVE  k[2] \notin NoticeFields
<1>1. k \in DOMAIN s.facts /\ k \notin s.retracted
  BY JudgedIs
<1>2. OfNotice(s, d) \subseteq s.retracted
  BY DEF Stands, Quoted, Withdrawn
<1> QED BY <1>1, <1>2 DEF OfNotice

LEMMA AnalysedKeeps ==
    ASSUME NEW d, NEW s, NEW reading, NEW supplied
    PROVE  DOMAIN s.facts \subseteq DOMAIN Analysed(d, s, reading, supplied).facts
<1> DEFINE fields == Fields(reading)
           written == [k \in {<<d, f[1], f[2]>> : f \in DOMAIN fields} |-> fields[<<k[2], k[3]>>]]
<1>1. Analysed(d, s, reading, supplied).facts = Over(written, s.facts)
  BY DEF Analysed
<1> HIDE DEF written
<1> QED BY <1>1, OverIs

-----------------------------------------------------------------------------
(* The invariant *)

PaperStands ==
    /\ printed \in Prints /\ ReadingsStand(printed, readings)
    /\ damaged \subseteq Documents
    /\ type \in [Documents -> Types \cup {printed.types[d] : d \in Documents}]
    /\ origins \in [Documents -> Seq(Authorities)]

VerdictsStand == \A r \in DOMAIN verdicts : verdicts[r].facts \subseteq DOMAIN store.facts

Counted == report \in {"none", "complete", "aborted"} /\ changes \in 0..MaxChanges

VInv ==
    /\ PaperStands
    /\ linked \subseteq Documents
    /\ Stands(printed, store)
    /\ VerdictsStand
    /\ Counted

LEMMA VInvTyped == VInv => TypeOK
<1> SUFFICES ASSUME VInv PROVE TypeOK
  OBVIOUS
<1>1. \A d \in Documents : Range(origins[d]) \subseteq Authorities
  BY DEF VInv, PaperStands, Range
<1>2. /\ store.state \in [Documents -> States]
      /\ \A k \in DOMAIN store.facts : k[1] \in Documents /\ store.state[k[1]] = "processed"
      /\ store.retracted \subseteq DOMAIN store.facts
      /\ \A k \in DOMAIN store.derived : store.derived[k].facts \subseteq DOMAIN store.facts
      /\ \A k \in DOMAIN store.findings :
            /\ store.findings[k].outcome \in {"pass", "fail", "review", "inconclusive"}
            /\ Keys(k[1], store.findings[k].facts) \subseteq DOMAIN store.facts
            /\ {k[1]} \X store.findings[k].derived \subseteq DOMAIN store.derived
  BY DEF VInv, Stands, Sound, FactsStand, DerivedStand, FindingStands, Outcomes
<1> QED BY <1>1, <1>2 DEF VInv, PaperStands, VerdictsStand, Counted, TypeOK

LEMMA InitStands == Init => VInv
<1> SUFFICES ASSUME Init PROVE VInv
  OBVIOUS
<1>1. /\ DOMAIN store.facts = {} /\ DOMAIN store.derived = {} /\ DOMAIN store.findings = {}
      /\ store.retracted = {} /\ store.state = [d \in Documents |-> "downloaded"]
      /\ store.readAs = [d \in Documents |-> "none"] /\ Formed(store)
  BY NothingIs DEF Init, Formed
<1>2. Sound(store)
  BY <1>1 DEF Sound, FactsStand, DerivedStand, States
<1>3. Quoted(printed, store)
  <2>1. \A d \in Documents : OfNotice(store, d) = {}
    BY <1>1 DEF OfNotice
  <2> QED BY <2>1 DEF Quoted, Withdrawn
<1>4. PaperStands
  BY TenderAssumption DEF Init, PaperStands, ReadingsStand
<1>5. VerdictsStand
  BY NothingIs DEF Init, VerdictsStand
<1>6. linked \subseteq Documents /\ Counted
  BY TenderAssumption DEF Init, Counted
<1> QED BY <1>2, <1>3, <1>4, <1>5, <1>6 DEF VInv, Stands

LEMMA AnalyseStands ==
    ASSUME VInv, NEW d \in Documents, Analyse(d)
    PROVE  VInv'
<1>1. PICK ocr \in BOOLEAN, supplied \in Supplied : \E read \in readings[d][ocr] :
         store' = Analysed(d, store, Taken(d, read), supplied)
  BY DEF Analyse
<1>2. PICK read \in readings[d][ocr] : store' = Analysed(d, store, Taken(d, read), supplied)
  BY <1>1
<1> DEFINE reading == Taken(d, read)
<1>3. Stands(printed, Analysed(d, store, Taken(d, read), supplied))
  BY AnalysedStands DEF VInv, PaperStands
<1>4. DOMAIN store.facts \subseteq DOMAIN store'.facts
  <2>1. store' = Analysed(d, store, reading, supplied)
    BY <1>2
  <2> HIDE DEF reading
  <2> QED BY <2>1, AnalysedKeeps
<1>5. UNCHANGED <<printed, readings, damaged, type, origins, linked, verdicts, report, changes>>
  BY DEF Analyse, paper
<1>6. Stands(printed', store')
  BY <1>2, <1>3, <1>5
<1>7. VerdictsStand'
  BY <1>4, <1>5 DEF VInv, VerdictsStand
<1> QED BY <1>5, <1>6, <1>7 DEF VInv, PaperStands, Counted

LEMMA AnalyseProjectStands ==
    ASSUME VInv, AnalyseProject
    PROVE  VInv'
<1>1. PICK chosen \in Representatives(Loaded(store)) : verdicts' = Judged(store, chosen)
  BY DEF AnalyseProject
<1>2. UNCHANGED <<printed, readings, damaged, type, origins, linked, store, report, changes>>
  BY DEF AnalyseProject, paper
<1>3. VerdictsStand'
  BY <1>1, <1>2, JudgedIs DEF VerdictsStand
<1> QED BY <1>2, <1>3 DEF VInv, PaperStands, Counted

LEMMA ProcessProjectStands ==
    ASSUME VInv, NEW reprocess \in BOOLEAN, ProcessProject(reprocess)
    PROVE  VInv'
<1>1. store' = AllProcessed(reprocess)
  BY DEF ProcessProject
<1>2. PICK chosen \in Representatives(Loaded(AllProcessed(reprocess))) :
         verdicts' = Judged(AllProcessed(reprocess), chosen)
  BY DEF ProcessProject
<1>3. Stands(printed, AllProcessed(reprocess))
  BY AllProcessedStands DEF VInv, PaperStands
<1>4. UNCHANGED <<printed, readings, damaged, type, origins, linked, changes>> /\ report' = "complete"
  BY DEF ProcessProject, paper
<1>5. VerdictsStand'
  <2> DEFINE s == AllProcessed(reprocess)
  <2>1. chosen \in Representatives(Loaded(s)) /\ verdicts' = Judged(s, chosen) /\ store' = s
    BY <1>1, <1>2
  <2> HIDE DEF s
  <2> QED BY <2>1, JudgedIs DEF VerdictsStand
<1>6. Stands(printed', store')
  BY <1>1, <1>3, <1>4
<1> QED BY <1>4, <1>5, <1>6 DEF VInv, PaperStands, Counted

LEMMA OthersStand ==
    ASSUME VInv,
           \/ \E d \in Documents : Retype(d) \/ Recur(d)
           \/ \E reprocess \in BOOLEAN : ProcessingAborts(reprocess)
           \/ Link \/ UNCHANGED vars
    PROVE  VInv'
<1> USE TenderAssumption
<1>1. ASSUME UNCHANGED <<printed, readings, store, verdicts>>, linked' \subseteq Documents, Counted',
             damaged' = damaged, type' \in [Documents -> Types \cup {printed.types[d] : d \in Documents}],
             origins' \in [Documents -> Seq(Authorities)]
      PROVE  VInv'
  BY <1>1 DEF VInv, PaperStands, VerdictsStand
<1>2. Change => changes' \in 0..MaxChanges
  BY DEF VInv, Counted, Change
<1>3. ASSUME NEW d \in Documents, Retype(d) PROVE VInv'
  <2>1. PICK t \in Types : type' = [type EXCEPT ![d] = t]
    BY <1>3 DEF Retype
  <2>2. type' \in [Documents -> Types \cup {printed.types[e] : e \in Documents}]
    BY <2>1 DEF VInv, PaperStands
  <2> QED BY <1>1, <1>2, <1>3, <2>2 DEF Retype, paper, VInv, Counted, PaperStands
<1>4. ASSUME NEW d \in Documents, Recur(d) PROVE VInv'
  <2>1. PICK a \in Authorities : origins' = [origins EXCEPT ![d] = Append(@, a)]
    BY <1>4 DEF Recur
  <2>2. origins' \in [Documents -> Seq(Authorities)]
    BY <2>1 DEF VInv, PaperStands
  <2> QED BY <1>1, <1>2, <1>4, <2>2 DEF Recur, paper, VInv, Counted, PaperStands
<1>5. ASSUME NEW reprocess \in BOOLEAN, ProcessingAborts(reprocess) PROVE VInv'
  BY <1>1, <1>5 DEF ProcessingAborts, paper, VInv, Counted, PaperStands
<1>6. ASSUME Link PROVE VInv'
  <2>1. linked' \subseteq Documents
    BY <1>6 DEF Link, VInv, Stands, Sound, FactsStand
  <2> QED BY <1>1, <1>2, <1>6, <2>1 DEF Link, paper, VInv, Counted, PaperStands
<1>7. ASSUME UNCHANGED vars PROVE VInv'
  BY <1>1, <1>7 DEF vars, paper, VInv, Counted, PaperStands
<1> QED BY <1>3, <1>4, <1>5, <1>6, <1>7

LEMMA StepStands == VInv /\ [Next]_vars => VInv'
BY AnalyseStands, AnalyseProjectStands, ProcessProjectStands, OthersStand DEF Next

LEMMA AlwaysStands == Spec => []VInv
BY InitStands, StepStands, PTL DEF Spec

\* analyse_document, process_project: after any analyses, alone or together,
\* again or for the first time, with or without recognition, every finding cites
\* facts and calculated values that are stored, every value was calculated from
\* facts that are stored, and only a processed document has any.
THEOREM TypeCorrect == Spec => []TypeOK
BY AlwaysStands, VInvTyped, PTL

\* persist_retractions, load_project_facts: whatever a document was taken for
\* before, and whatever it states, what a reference without a number of its own
\* quotes is in no comparison that is made after it was read as one.
THEOREM QuotedStaysOut == Spec => QuotedIsNotCompared
<1>1. VInv /\ [Next]_vars =>
        [\A d \in Documents :
          (/\ verdicts' # verdicts /\ store'.readAs[d] \in ReferenceTypes
           /\ HasTextLayer(ExtractText(printed.content[d]))
           /\ FindNitNumber(ExtractText(printed.content[d]).pages) = {})
          => \A k \in verdicts'.fact_agreement.facts : k[1] = d => k[2] \notin NoticeFields]_vars
  <2> SUFFICES ASSUME VInv, [Next]_vars, verdicts' # verdicts,
                      NEW d \in Documents, Numberless(printed, d), store'.readAs[d] \in ReferenceTypes,
                      NEW k \in verdicts'.fact_agreement.facts, k[1] = d
               PROVE  k[2] \notin NoticeFields
    BY DEF Numberless
  <2>1. ASSUME NEW s, Stands(printed, s), NEW chosen \in Representatives(Loaded(s)),
               store' = s, verdicts' = Judged(s, chosen)
        PROVE  k[2] \notin NoticeFields
    BY <2>1, NotCompared
  <2>2. CASE AnalyseProject
    BY <2>1, <2>2 DEF AnalyseProject, VInv
  <2>3. ASSUME NEW reprocess \in BOOLEAN, ProcessProject(reprocess) PROVE k[2] \notin NoticeFields
    <3>1. Stands(printed, AllProcessed(reprocess))
      BY AllProcessedStands DEF VInv, PaperStands
    <3> QED BY <2>1, <2>3, <3>1 DEF ProcessProject
  <2>4. AnalyseProject \/ \E reprocess \in BOOLEAN : ProcessProject(reprocess)
    BY DEF Next, Analyse, Retype, Recur, ProcessingAborts, Link, vars
  <2> QED BY <2>2, <2>3, <2>4
<1> QED BY <1>1, AlwaysStands, PTL DEF Spec, QuotedIsNotCompared

-----------------------------------------------------------------------------
(* The arithmetic of rows: what the interval test decides *)

\* With figures that are k times finer than half a unit of what is shown, a rate
\* t that is shown as this one times the quantity is an amount b that is shown as
\* this one.
ExplainedBy(quantity, rate, amount, k, t, b) ==
    /\ k * (2 * rate.m - 1) <= t /\ t <= k * (2 * rate.m + 1)
    /\ k * (2 * amount.m - 1) <= b /\ b <= k * (2 * amount.m + 1)
    /\ quantity.m * t * Scale(amount.p) = b * ProductScale(quantity, rate)

Explained(quantity, rate, amount) ==
    \E k \in Nat \ {0}, t, b \in Int : ExplainedBy(quantity, rate, amount, k, t, b)

LEMMA Scales == \A p \in 0..MaxPlaces : Scale(p) \in Nat /\ Scale(p) > 0
<1> SUFFICES ASSUME NEW p \in 0..MaxPlaces PROVE Scale(p) \in Nat /\ Scale(p) > 0
  OBVIOUS
<1>1. p = 0 \/ p = 1 \/ p = 2 \/ p = 3 \/ p = 4
  BY DEF MaxPlaces
<1> QED BY <1>1 DEF Scale

LEMMA Times ==
    ASSUME NEW c \in Int, c >= 0, NEW x \in Int, NEW y \in Int, x <= y
    PROVE  c * x <= c * y
OBVIOUS

LEMMA Divided ==
    ASSUME NEW c \in Int, c > 0, NEW x \in Int, NEW y \in Int, c * x <= c * y
    PROVE  x <= y
OBVIOUS

\* The product of a quantity with a rate of the window lies in the window of products.
LEMMA InProducts ==
    ASSUME NEW quantity \in Figure, NEW rate \in Figure, NEW k \in Nat \ {0}, NEW t \in Int,
           k * (2 * rate.m - 1) <= t, t <= k * (2 * rate.m + 1)
    PROVE  /\ LeastPossible(quantity, rate) \in Int /\ MostPossible(quantity, rate) \in Int
           /\ k * LeastPossible(quantity, rate) <= quantity.m * t
           /\ quantity.m * t <= k * MostPossible(quantity, rate)
<1> DEFINE q == quantity.m
           r == rate.m
           low == 2 * r - 1
           high == 2 * r + 1
<1>1. q \in Int /\ r \in Int
  BY DEF Figure
<1>2. low \in Int /\ high \in Int /\ low <= high
  BY <1>1
<1>3. LowProduct(quantity, rate) = q * low /\ HighProduct(quantity, rate) = q * high
  BY DEF LowProduct, HighProduct
<1>4. k * low <= t /\ t <= k * high /\ k * low \in Int /\ k * high \in Int
  BY <1>2
<1>5. q * low \in Int /\ q * high \in Int
  BY <1>1, <1>2
<1> HIDE DEF q, r, low, high
<1>6. CASE q >= 0
  <2>1. q * low <= q * high
    BY <1>1, <1>2, <1>6, Times
  <2>2. q * (k * low) <= q * t /\ q * t <= q * (k * high)
    BY <1>1, <1>4, <1>6, Times
  <2>3. q * (k * low) = k * (q * low) /\ q * (k * high) = k * (q * high)
    BY <1>1, <1>2
  <2> QED BY <1>3, <1>5, <2>1, <2>2, <2>3 DEF LeastPossible, MostPossible, q
<1>7. CASE q < 0
  <2> DEFINE n == - q
  <2>0. n \in Int /\ n >= 0
    BY <1>1, <1>7
  <2>1. n * low <= n * high
    BY <1>2, <2>0, Times
  <2>2. n * (k * low) <= n * t /\ n * t <= n * (k * high)
    BY <1>4, <2>0, Times
  <2>3. q * low >= q * high
    BY <1>1, <1>2, <2>1
  <2>4. q * (k * low) >= q * t /\ q * t >= q * (k * high)
    BY <1>1, <1>4, <2>2
  <2>5. q * (k * low) = k * (q * low) /\ q * (k * high) = k * (q * high)
    BY <1>1, <1>2
  <2>6. q * low = q * high => k * (q * low) = k * (q * high)
    OBVIOUS
  <2> QED BY <1>3, <1>5, <2>3, <2>4, <2>5, <2>6 DEF LeastPossible, MostPossible, q
<1> QED BY <1>1, <1>6, <1>7

LEMMA FiguresAre ==
    ASSUME NEW quantity \in Figure, NEW rate \in Figure, NEW amount \in Figure
    PROVE  /\ quantity.m \in Int /\ rate.m \in Int /\ amount.m \in Int
           /\ Scale(amount.p) \in Int /\ Scale(amount.p) > 0
           /\ ProductScale(quantity, rate) \in Int /\ ProductScale(quantity, rate) > 0
<1>1. Scale(amount.p) \in Nat /\ Scale(amount.p) > 0
  BY Scales DEF Figure
<1> DEFINE x == Scale(quantity.p)
           y == Scale(rate.p)
<1>2. x \in Nat /\ x > 0 /\ y \in Nat /\ y > 0
  BY Scales DEF Figure
<1>3. x * y \in Int /\ x * y > 0
  <2> HIDE DEF x, y
  <2> QED BY <1>2
<1> QED BY <1>1, <1>3 DEF Figure, ProductScale

\* classify_row_arithmetic, "display rounding cannot explain it": whatever the
\* signs and the decimals of the figures, a row is sent to review exactly if no
\* rate that is shown as its rate gives an amount that is shown as its amount.
THEOREM ReviewIsUnexplained ==
    \A quantity, rate, amount \in Figure :
        Classify(quantity, rate, amount) = "review" <=> ~ Explained(quantity, rate, amount)
<1> SUFFICES ASSUME NEW quantity \in Figure, NEW rate \in Figure, NEW amount \in Figure
             PROVE  Classify(quantity, rate, amount) = "review" <=> ~ Explained(quantity, rate, amount)
  OBVIOUS
<1> DEFINE q == quantity.m
           r == rate.m
           a == amount.m
           S == Scale(amount.p)
           P == ProductScale(quantity, rate)
           least == LeastPossible(quantity, rate)
           most == MostPossible(quantity, rate)
<1>1. q \in Int /\ r \in Int /\ a \in Int /\ S \in Int /\ S > 0 /\ P \in Int /\ P > 0
  BY FiguresAre
<1>2. /\ least \in Int /\ most \in Int /\ least <= most
      /\ \/ least = q * (2 * r - 1) /\ most = q * (2 * r + 1) /\ q >= 0
         \/ least = q * (2 * r + 1) /\ most = q * (2 * r - 1) /\ q < 0
  <2> DEFINE low == LowProduct(quantity, rate)
             high == HighProduct(quantity, rate)
  <2>1. low = q * (2 * r - 1) /\ high = q * (2 * r + 1)
    BY DEF LowProduct, HighProduct
  <2>2. q * (2 * r - 1) = 2 * (q * r) - q /\ q * (2 * r + 1) = 2 * (q * r) + q /\ q * r \in Int
    BY <1>1
  <2> HIDE DEF q, r
  <2>3. low \in Int /\ high \in Int /\ (low <= high <=> q >= 0)
    BY <1>1, <2>1, <2>2
  <2>4. (low <= high => least = low /\ most = high) /\ (~ low <= high => least = high /\ most = low)
    BY DEF LeastPossible, MostPossible
  <2> HIDE DEF low, high, least, most
  <2> QED BY <1>1, <2>1, <2>3, <2>4
<1>3. WindowsMeet(quantity, rate, amount) <=> (2 * a - 1) * P <= most * S /\ (2 * a + 1) * P >= least * S
  BY DEF WindowsMeet
<1>4. ExplainedBy(quantity, rate, amount, 1, 2 * r, 2 * a) <=> q * (2 * r) * S = (2 * a) * P
  <2>1. 1 * (2 * r - 1) <= 2 * r /\ 2 * r <= 1 * (2 * r + 1) /\ 1 * (2 * a - 1) <= 2 * a /\ 2 * a <= 1 * (2 * a + 1)
    BY <1>1
  <2> QED BY <2>1 DEF ExplainedBy
<1>5. IsExact(quantity, rate, amount) => Explained(quantity, rate, amount)
  <2> SUFFICES ASSUME IsExact(quantity, rate, amount) PROVE Explained(quantity, rate, amount)
    OBVIOUS
  <2>1. q * r * S = a * P
    BY DEF IsExact
  <2>2. q * (2 * r) * S = (2 * a) * P /\ 2 * r \in Int /\ 2 * a \in Int
    <3> HIDE DEF q, r, a, S, P
    <3> QED BY <1>1, <2>1
  <2> DEFINE t == 2 * r
             b == 2 * a
  <2>3. ExplainedBy(quantity, rate, amount, 1, t, b) /\ t \in Int /\ b \in Int
    BY <1>4, <2>2
  <2> HIDE DEF t, b
  <2> QED BY <2>3 DEF Explained
<1>6. ASSUME NEW k \in Nat \ {0}, NEW t \in Int, NEW b \in Int, ExplainedBy(quantity, rate, amount, k, t, b)
      PROVE  WindowsMeet(quantity, rate, amount)
  <2>1. /\ k * (2 * r - 1) <= t /\ t <= k * (2 * r + 1)
        /\ k * (2 * a - 1) <= b /\ b <= k * (2 * a + 1)
        /\ q * t * S = b * P
    BY <1>6 DEF ExplainedBy
  <2>2. k * least <= q * t /\ q * t <= k * most
    BY <2>1, InProducts
  <2> HIDE DEF q, r, a, S, P, least, most
  <2>3. S * (k * least) <= S * (q * t) /\ S * (q * t) <= S * (k * most)
    BY <1>1, <1>2, <2>2, Times
  <2>4. P * (k * (2 * a - 1)) <= P * b /\ P * b <= P * (k * (2 * a + 1))
    BY <1>1, <2>1, Times
  <2>5. S * (q * t) = P * b
    BY <1>1, <2>1
  <2>6. k * ((2 * a - 1) * P) <= k * (most * S) /\ k * (least * S) <= k * ((2 * a + 1) * P)
    BY <1>1, <1>2, <2>3, <2>4, <2>5
  <2>7. (2 * a - 1) * P <= most * S /\ least * S <= (2 * a + 1) * P
    BY <1>1, <1>2, <2>6, Divided
  <2> QED BY <1>1, <1>2, <1>3, <2>7
<1>7. ASSUME WindowsMeet(quantity, rate, amount) PROVE Explained(quantity, rate, amount)
  <2> HIDE DEF q, r, a, S, P, least, most
  <2>1. CASE least * S >= (2 * a - 1) * P
    <3> DEFINE side == IF q >= 0 THEN 2 * r - 1 ELSE 2 * r + 1
               k == P
               t == P * side
               b == least * S
    <3>1. side \in Int /\ least = q * side /\ 2 * r - 1 <= side /\ side <= 2 * r + 1
      BY <1>1, <1>2
    <3> HIDE DEF side
    <3>2. k * (2 * r - 1) <= t /\ t <= k * (2 * r + 1)
      BY <1>1, <3>1, Times
    <3>3. k * (2 * a - 1) <= b /\ b <= k * (2 * a + 1)
      BY <1>1, <1>2, <1>3, <1>7, <2>1
    <3>4. q * t * S = b * P
      BY <1>1, <3>1
    <3>5. k \in Nat \ {0} /\ t \in Int /\ b \in Int
      BY <1>1, <1>2, <3>1
    <3> HIDE DEF k, t, b
    <3>6. ExplainedBy(quantity, rate, amount, k, t, b)
      BY <3>2, <3>3, <3>4 DEF ExplainedBy, q, r, a, S, P
    <3> QED BY <3>5, <3>6 DEF Explained
  <2>2. CASE least * S < (2 * a - 1) * P
    <3> DEFINE n == IF q >= 0 THEN q ELSE - q
               k == n * S
               t == IF q >= 0 THEN (2 * a - 1) * P ELSE - ((2 * a - 1) * P)
               b == k * (2 * a - 1)
    <3>1. (2 * a - 1) * P <= most * S /\ (2 * a - 1) * P \in Int /\ least * S \in Int /\ most * S \in Int
      BY <1>1, <1>2, <1>3, <1>7
    <3>2. q # 0
      <4>1. q = 0 => least = most
        BY <1>1, <1>2
      <4>2. least * S # most * S
        BY <2>2, <3>1
      <4> QED BY <4>1, <4>2
    <3>3. n \in Int /\ n > 0
      BY <1>1, <3>2
    <3>4. k \in Int /\ k > 0
      BY <1>1, <3>3
    <3>5. k * (2 * r - 1) <= t /\ t <= k * (2 * r + 1)
      <4>1. CASE q >= 0
        <5>1. k * (2 * r - 1) = least * S /\ k * (2 * r + 1) = most * S
          BY <1>1, <1>2, <4>1
        <5> QED BY <2>2, <3>1, <4>1, <5>1
      <4>2. CASE q < 0
        <5>1. k * (2 * r - 1) = - (most * S) /\ k * (2 * r + 1) = - (least * S)
          BY <1>1, <1>2, <4>2
        <5>2. t = - ((2 * a - 1) * P)
          BY <1>1, <4>2
        <5> HIDE DEF k, t
        <5> QED BY <2>2, <3>1, <5>1, <5>2
      <4> QED BY <1>1, <4>1, <4>2
    <3>6. k * (2 * a - 1) <= b /\ b <= k * (2 * a + 1) /\ b \in Int
      <4> HIDE DEF k
      <4> QED BY <1>1, <3>4
    <3>7. q * t * S = b * P
      <4>1. CASE q >= 0
        BY <1>1, <4>1
      <4>2. CASE q < 0
        BY <1>1, <4>2
      <4> QED BY <1>1, <4>1, <4>2
    <3>8. k \in Nat \ {0} /\ t \in Int
      BY <3>1, <3>4
    <3> HIDE DEF k, t, b
    <3>9. ExplainedBy(quantity, rate, amount, k, t, b)
      BY <3>5, <3>6, <3>7 DEF ExplainedBy, q, r, a, S, P
    <3> QED BY <3>6, <3>8, <3>9 DEF Explained
  <2>3. least * S \in Int /\ (2 * a - 1) * P \in Int
    BY <1>1, <1>2
  <2> QED BY <2>1, <2>2, <2>3
<1>8. Classify(quantity, rate, amount) = "review" <=>
        ~ IsExact(quantity, rate, amount) /\ ~ WindowsMeet(quantity, rate, amount)
  BY DEF Classify
<1>9. Explained(quantity, rate, amount) => WindowsMeet(quantity, rate, amount)
  BY <1>6 DEF Explained
<1> QED BY <1>5, <1>7, <1>8, <1>9

=============================================================================
