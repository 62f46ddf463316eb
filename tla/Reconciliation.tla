---------------------------- MODULE Reconciliation ----------------------------
(***************************************************************************)
(* Payment reconciliation of one project: spreadsheets are analysed        *)
(* (analyse_spreadsheet), documents are retyped and superseded, and the    *)
(* command line links the facts to items of work, selects, computes and    *)
(* judges them (reconcile_work_items, verification/reconciliation.py).     *)
(*                                                                         *)
(* An analysis is a transaction of its own.  A reconciliation loads the    *)
(* documents and the facts once, so that others may commit between what    *)
(* it has loaded and what it saves.                                        *)
(***************************************************************************)
EXTENDS SheetReader, FactSelection

CONSTANTS
    Documents,
    Items,          \* the item numbers of the sheets, normalised
    Versions,       \* of the extractor, the first being 1
    Sheet,          \* Sheet[d][v]: the cells of d as version v reads them
    FirstType, Types,
    Corrections,    \* the types that people confirm, and for which document
    Changes         \* bound: retypings, supersessions and upgrades

Cells ==
    [is : {"blank"}] \cup [is : {"text"}, text : STRING] \cup [is : {"number"}, n : Int]
    \cup [is : {"item"}, item : Items, spelt : STRING] \cup [is : {"project"}, ref : STRING]

\* Versions are compared by what they are called.
ASSUME ReconciliationAssumption ==
    /\ 1 \in Versions /\ Rank \in [Versions -> Int]
    /\ Sheet \in [Documents -> [Versions -> Seq(Seq(Cells))]]
    /\ FirstType \in [Documents -> Types]

VARIABLES
    type,           \* columns of documents
    supersedes,     \* edges of document_relationships
    versionState,
    deployed,
    facts,          \* extracted_facts
    items,          \* work_items of the project, by their number
    linked,         \* work_item_id of the facts that have one, by their keys
    derived,        \* derived_facts of the project
    findings,       \* by item and rule, with the keys they cite
    session,
    fresh,          \* history: nothing changed since the findings were judged
    changes

store == <<facts, items, linked, derived, findings>>
vars == <<type, supersedes, versionState, deployed, store, session, fresh, changes>>

Rules == {"evidence", "claim", "rate", "cumulative"}
NoFinding == [outcome |-> "none", cites |-> {}, uses |-> {}]

Idle == [pc |-> "idle", inForce |-> {}, facts |-> {}, items |-> {}, link |-> <<>>, steady |-> TRUE]

Row(d, v, f) ==
    [doc |-> d, version |-> v, type |-> f.type, row |-> f.row, literal |-> f.literal,
     item |-> f.item, unit |-> f.unit, value |-> Stored(f.value)]

\* What each version stores of each sheet that has a type.
Reading ==
    [x \in Documents \X Versions \X Types |->
        {Row(x[1], x[2], f) : f \in SheetFacts(Sheet[x[1]][x[2]], x[3])}]

\* What persist_facts looks a fact up by.
KeyOf(f) == [doc |-> f.doc, type |-> f.type, version |-> f.version, row |-> f.row]

At(k) == CHOOSE f \in facts : KeyOf(f) = k

-----------------------------------------------------------------------------
(* link_work_items *)

Place(f) == <<f.doc, f.row>>

\* The facts that say which item a row is about.
Identifiers == {f \in facts : f.type = "item_identifier"}

Places == {Place(f) : f \in Identifiers}

\* One identifier claims every fact of its row, whichever version has read it:
\* the last one, in an order that the query does not settle.  The spelling of
\* the number does not count.
Anchorings ==
    {a \in [Places -> Items] : \A p \in Places : \E f \in Identifiers : Place(f) = p /\ f.item = a[p]}

Anchored == {f \in facts : Place(f) \in Places}

Link(a) == [k \in {KeyOf(f) : f \in Anchored} |-> a[<<k.doc, k.row>>]]

OfItem(i, all, link) == {f \in all : link[KeyOf(f)] = i}

-----------------------------------------------------------------------------
Init ==
    /\ type = FirstType
    /\ supersedes = {} /\ versionState = [d \in Documents |-> "active"]
    /\ deployed = 1
    /\ facts = {} /\ items = {} /\ linked = <<>> /\ derived = {}
    /\ findings = [p \in Items \X Rules |-> NoFinding]
    /\ session = Idle /\ fresh = FALSE /\ changes = 0

\* What a reconciliation that is under way does not know of.
Disturb == fresh' = FALSE /\ session' = [session EXCEPT !.steady = FALSE]

-----------------------------------------------------------------------------
(* What happens to documents *)

\* persist_facts: a fact that has a row is written over.
Rewritten(new) == {f \in facts : \E g \in new : KeyOf(f) = KeyOf(g)}

\* analyse_spreadsheet: nothing that an earlier analysis stored is withdrawn.
Analyse(d) ==
    LET new == Reading[<<d, deployed, type[d]>>]
    IN  /\ ~ new \subseteq facts
        /\ facts' = (facts \ Rewritten(new)) \cup new
        /\ Disturb
        /\ UNCHANGED <<type, supersedes, versionState, deployed, items, linked, derived, findings, changes>>

Change ==
    /\ changes < Changes
    /\ changes' = changes + 1
    /\ Disturb
    /\ UNCHANGED store

\* confirm_document_type
Retype(d, t) ==
    /\ <<d, t>> \in Corrections /\ t # type[d]
    /\ type' = [type EXCEPT ![d] = t]
    /\ Change /\ UNCHANGED <<supersedes, versionState, deployed>>

\* record_supersession of one of its documents by another, whatever their types
\* and states; of two that supersede each other neither counts.
Supersede(d) ==
    /\ \E by \in Documents \ {d} :
         /\ supersedes' = supersedes \cup {<<by, d>>}
         /\ versionState' = IF <<d, by>> \in supersedes
                            THEN [versionState EXCEPT ![d] = "unknown", ![by] = "unknown"]
                            ELSE [versionState EXCEPT ![d] = "superseded"]
    /\ Change /\ UNCHANGED <<type, deployed>>

Upgrade ==
    /\ deployed + 1 \in Versions
    /\ deployed' = deployed + 1
    /\ Change /\ UNCHANGED <<type, supersedes, versionState>>

-----------------------------------------------------------------------------
(* Rules of reconciliation: from the selections for an item, the facts that *)
(* were chosen and what was computed from them                              *)

TypesOf(rows) == {r.type : r \in rows}

\* Mutant: what is in dispute is passed over.
Undisputed(selections, types) == {s \in selections : s.type \in types /\ s.fact # NoFact /\ s.conflicting}

Disputed(selections, types) == {s \in selections : s.type \in types /\ s.conflicting}

\* The shape of a rule over some types of facts: conflicts first, then what is
\* missing, then the comparison.
Judged(selections, computed, inputs, needs, agrees) ==
    LET disputed == Disputed(selections, inputs)
        chosen == Chosen(selections)
    IN  IF disputed # {}
        THEN [outcome |-> "review", cites |-> UNION {s.considered : s \in disputed}, uses |-> {}]
        ELSE IF ~ (inputs \subseteq TypesOf(chosen) /\ needs \subseteq TypesOf(computed))
        THEN [outcome |-> "inconclusive", cites |-> {}, uses |-> {}]
        ELSE [outcome |-> IF agrees THEN "pass" ELSE "review",
              cites |-> {f \in chosen : f.type \in inputs}, uses |-> needs]

Amount(rows, t) == The(rows, t).value

EvaluateClaimWithinMeasured(selections, computed) ==
    LET judged == Judged(selections, computed,
                         {"cumulative_claim_quantity", "measured_quantity"}, {"quantity_variance"},
                         Amount(computed, "quantity_variance") <= 0)
        exposure == TypesOf(computed) \cap {"unsupported_amount"}
    IN  IF judged.uses = {} THEN judged ELSE [judged EXCEPT !.uses = @ \cup exposure]

EvaluateRateMatchesContract(selections, computed) ==
    Judged(selections, computed, {"claimed_rate", "contract_rate"}, {"rate_variance"},
           Amount(computed, "rate_variance") = 0)

EvaluateCumulativeNotRegressed(selections) ==
    Judged(selections, {}, {"cumulative_claim_quantity", "previous_certified_quantity"}, {},
           Amount(Chosen(selections), "cumulative_claim_quantity")
             >= Amount(Chosen(selections), "previous_certified_quantity"))

\* It reads every selection, identifiers and descriptions among them.
EvaluateUnambiguousEvidence(selections) ==
    LET stated == TypesOf(selections)
        needed == IF Chosen(selections) = {} THEN {"a value"} ELSE {}
    IN  IF Disputed(selections, stated) # {}
        THEN Judged(selections, {}, stated, {}, TRUE)
        ELSE Judged(selections, {}, TypesOf(Chosen(selections)), needed, TRUE)

\* evaluate_work_item
EvaluateWorkItem(selections, computed) ==
    [evidence |-> EvaluateUnambiguousEvidence(selections),
     claim |-> EvaluateClaimWithinMeasured(selections, computed),
     rate |-> EvaluateRateMatchesContract(selections, computed),
     cumulative |-> EvaluateCumulativeNotRegressed(selections)]

-----------------------------------------------------------------------------
(* reconcile_work_items *)

\* Mutant: the documents that are superseded count.
AnyDocument == Documents

InForce == {d \in Documents : versionState[d] = "active"}

\* The facts are linked, then the documents and the facts of the items loaded.
Begin ==
    /\ session.pc = "idle"
    /\ \E a \in Anchorings :
         session' = [pc |-> "judge", inForce |-> InForce, facts |-> Anchored,
                     items |-> items \cup {a[p] : p \in Places}, link |-> Link(a), steady |-> TRUE]
    /\ UNCHANGED <<type, supersedes, versionState, deployed, store, fresh, changes>>

\* Mutant: a computed row is keyed without its item.
Unscoped(i, t) == <<"", t>>

\* persist_derived_facts: the fact type of a computed row names its item.
Scoped(i, t) == <<i, t>>

Cited(judged, i) ==
    [outcome |-> judged.outcome, cites |-> {KeyOf(f) : f \in judged.cites},
     uses |-> {Scoped(i, t) : t \in judged.uses}]

Reconciled(i) ==
    LET selections == SelectFacts(OfItem(i, session.facts, session.link), session.inForce, {})
        computed == ComputeForWorkItem(Chosen(selections))
    IN  [item |-> i,
         rows |-> {[key |-> Scoped(i, c.type), value |-> c.value,
                    inputs |-> {KeyOf(f) : f \in c.inputs}] : c \in computed},
         found |-> [r \in Rules |-> Cited(EvaluateWorkItem(selections, computed)[r], i)]]

\* Findings and computed rows are replaced; a row that is not computed any
\* more stays.
Save ==
    /\ session.pc = "judge"
    /\ items' = session.items
    /\ linked' = [k \in DOMAIN linked \cup DOMAIN session.link |->
                     IF k \in DOMAIN session.link THEN session.link[k] ELSE linked[k]]
    /\ LET done == {Reconciled(i) : i \in session.items}
       IN  /\ derived' = {r \in derived : ~ \E j \in done : \E n \in j.rows : n.key = r.key}
                          \cup UNION {j.rows : j \in done}
           /\ findings' = [p \in Items \X Rules |->
                 IF \E j \in done : j.item = p[1]
                 THEN (CHOOSE j \in done : j.item = p[1]).found[p[2]] ELSE findings[p]]
    /\ fresh' = session.steady
    /\ session' = Idle
    /\ UNCHANGED <<type, supersedes, versionState, deployed, facts, changes>>

\* An error or the end of the process: nothing was committed.
Abandon ==
    /\ session.pc = "judge"
    /\ session' = Idle
    /\ UNCHANGED <<type, supersedes, versionState, deployed, store, fresh, changes>>

Next ==
    \/ \E d \in Documents : Analyse(d) \/ Supersede(d) \/ \E t \in Types : Retype(d, t)
    \/ Upgrade \/ Begin \/ Save \/ Abandon

Spec == Init /\ [][Next]_vars

-----------------------------------------------------------------------------
(* Properties *)

\* What a current document states in its newest reading of the rows of an item.
Served(i, t) ==
    {f \in facts : /\ f.type = t /\ versionState[f.doc] = "active"
                   /\ KeyOf(f) \in DOMAIN linked /\ linked[KeyOf(f)] = i
                   /\ ~ \E g \in facts : /\ g.doc = f.doc /\ g.row = f.row /\ g.type = t
                                         /\ Rank[g.version] > Rank[f.version]}

Passes(i, rule) == findings[<<i, rule>>].outcome = "pass"

\* While nothing changed since, a claim passes only if every claim a current
\* document makes for the item is within every measurement of it, in the same
\* unit, whichever rows and documents state them (select_one, rule 1).
PassMeansMeasured ==
    fresh => \A i \in Items : Passes(i, "claim") =>
        LET claims == Served(i, "cumulative_claim_quantity")
            measured == Served(i, "measured_quantity")
        IN  /\ claims # {} /\ measured # {}
            /\ \A c \in claims, m \in measured : c.value <= m.value /\ SameUnit(c, m)

\* While nothing changed since, two current documents, or two rows of one,
\* that state different figures for an item are brought to a person
\* (evaluate_unambiguous_evidence).
DisputesAreReviewed ==
    fresh => \A i \in Items :
        (\E f \in facts, g \in facts :
            /\ f.type = g.type /\ f.value # g.value
            /\ f \in Served(i, f.type) /\ g \in Served(i, g.type))
        => findings[<<i, "evidence">>].outcome = "review"

\* No verdict that nothing has outdated rests on a document that another one
\* supersedes (select_one, reconcile_work_items).
SupersededIsNotJudged ==
    fresh => \A p \in Items \X Rules : \A k \in findings[p].cites : versionState[k.doc] = "active"

\* The figures a stored verdict cites are those it was reached with, through
\* later analyses, new versions and runs over other items: the variance is the
\* difference of the cited facts, of this item, its sign the outcome, and the
\* exposure its worth (persist_derived_facts, evaluate_claim_within_measured).
CitedFiguresAddUp ==
    \A i \in Items :
        LET found == findings[<<i, "claim">>]
            row(t) == CHOOSE r \in derived : r.key = Scoped(i, t)
            variance == row("quantity_variance")
            exposure == row("unsupported_amount")
            stating(t) == CHOOSE k \in found.cites : k.type = t
        IN  found.uses # {} =>
              /\ \A k \in found.cites : linked[k] = i
              /\ variance.inputs = found.cites
              /\ variance.value = At(stating("cumulative_claim_quantity")).value
                                  - At(stating("measured_quantity")).value
              /\ (found.outcome = "pass") <=> (variance.value <= 0)
              /\ Scoped(i, "unsupported_amount") \in found.uses =>
                    /\ found.outcome = "pass" => exposure.value = 0
                    /\ found.outcome = "review" =>
                          \A k \in exposure.inputs : exposure.value = variance.value * At(k).value

=============================================================================
