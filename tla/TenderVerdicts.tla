----------------------------- MODULE TenderVerdicts -----------------------------
(***************************************************************************)
(* The documents of a project become facts, provisions, calculated values  *)
(* and verdicts (extraction/runner.py, extraction/store.py), one by one or *)
(* all together (workspace.process_project), while their types, their      *)
(* origins and the links of their rows change.                             *)
(*                                                                         *)
(* Each action is one transaction.  The documents, what they print and the *)
(* truth about it are chosen at the start.                                 *)
(***************************************************************************)
EXTENDS TenderRules

CONSTANTS
    Documents,      \* the members of the project
    Order,          \* the same, smallest first
    Prints,         \* what the documents may be at first: content, types, origins and
                    \* damaged; and the truth about what they print
    Authorities,    \* the sources that documents are acquired from
    Types,          \* the types that the documents are given
    Supplied,       \* required shares that a caller may supply, as sets
    MaxChanges      \* bound: changes of types, origins and links

ASSUME TenderAssumption ==
    /\ Order \in Seq(Documents) /\ MaxChanges \in Nat
    /\ \A p \in Prints :
          /\ p.types \in [Documents -> STRING]
          /\ p.origins \in [Documents -> Seq(Authorities)]
          /\ p.damaged \subseteq Documents

VARIABLES
    printed,   \* what the documents print, a member of Prints
    readings,  \* what the readers make of them, which never changes
    damaged,   \* documents whose stored bytes are not those that were recorded
    type,      \* Document.document_type
    origins,   \* per document the sources of its retrievals and uploads
    linked,    \* documents whose rows are linked to work items
    store,     \* what analyses have written: see Store
    verdicts,  \* findings about the project
    report,    \* how the last process_project ended
    changes    \* the changes so far

paper == <<printed, readings>>
vars == <<paper, damaged, type, origins, linked, store, verdicts, report, changes>>

ReferenceTypes == {"specification", "schedule_of_rates", "model_agreement", "audit_report"}

\* state      Document.state
\* facts      ExtractedFact: [<<document, type, row>> -> value], row 0 if it has none
\* retracted  the facts that have a FactRetraction
\* provisions PolicyProvision, each with its document
\* derived    DerivedFact: [<<document, name>> -> [value, facts, provisions]]
\* findings   Finding: [<<document, rule>> -> result]
\* readAs     history: the type a document had when it was last read
States == {"downloaded", "processed", "failed"}

\* What the readers make of a text.
Read(text) ==
    [notice |-> ExtractTenderNotice(text), provisions |-> ReadBidSecurityPolicy(text),
     bill |-> ReadBill(text.pages)]

Init ==
    /\ printed \in Prints
    /\ readings = [d \in Documents |-> [ocr \in BOOLEAN |->
                    {Read(text) : text \in Texts(printed.content[d], ocr)}]]
    /\ damaged = printed.damaged
    /\ type = printed.types
    /\ origins = printed.origins
    /\ linked = {}
    /\ store = [state |-> [d \in Documents |-> "downloaded"],
                facts |-> Nothing, retracted |-> {}, provisions |-> {},
                readAs |-> [d \in Documents |-> "none"],
                derived |-> Nothing, findings |-> Nothing]
    /\ verdicts = Nothing
    /\ report = "none"
    /\ changes = 0

-----------------------------------------------------------------------------
(* The analysis of one document *)

\* What is written over what was there.
Over(new, old) ==
    [k \in DOMAIN new \cup DOMAIN old |-> IF k \in DOMAIN new THEN new[k] ELSE old[k]]

\* The fields of a bill, by the rows it was read in; its total goes with them.
BillFacts(bill) ==
    LET of(row) == [contracted_quantity |-> row.quantity, contract_rate |-> row.rate, line_amount |-> row.amount]
        fields == {"contracted_quantity", "contract_rate", "line_amount"} \X (DOMAIN bill.rows)
    IN  IF bill.rows = <<>> THEN Nothing
        ELSE Over([k \in fields |-> of(bill.rows[k[2]])[k[1]]],
                  [k \in {"stated_bill_total"} \X (IF bill.total = {} THEN {} ELSE {0}) |->
                      CHOOSE t \in bill.total : TRUE])

\* What an analysis takes from a text.  A reference that has no tender number
\* of its own states nothing of itself, and its tables are no bill.
Taken(d, read) ==
    LET reference == type[d] \in ReferenceTypes
        quotes == reference /\ ~ Has(read.notice, "nit_number")
    IN  [notice |-> IF quotes THEN Nothing ELSE read.notice,
         suppressed |-> IF quotes THEN DOMAIN read.notice ELSE {},
         provisions |-> IF reference THEN read.provisions ELSE {},
         bill |-> IF reference THEN NoBill ELSE read.bill]

\* Without OCR a document has one text.
TakenPlainly(d) == Taken(d, CHOOSE read \in readings[d][FALSE] : TRUE)

\* Those of the facts that are not of a row, by type.
ByType(facts) ==
    [t \in {k[1] : k \in {k \in DOMAIN facts : k[2] = 0}} |-> facts[<<t, 0>>]]

Keys(d, types) == {<<d, t, 0>> : t \in types}

\* Mutant: what is suppressed is withdrawn, whether it was ever stored or not.
NeverStored(d, s, types) == s.retracted \cup Keys(d, types)

\* Mutant: facts of an earlier reading are not withdrawn.
NothingRetracted(d, s, types) == s.retracted

\* persist_retractions
Retracted(d, s, types) ==
    s.retracted \cup {k \in DOMAIN s.facts : k[1] = d /\ k[2] \in types /\ k[3] = 0}

\* persist_provisions: by document and clause; none is ever removed.
Provisions(d, s, read) ==
    {p \in s.provisions : ~ \E q \in read : p.document = d /\ p.clause = q.clause}
    \cup {[document |-> d, authority |-> q.authority, clause |-> q.clause, share |-> q.share,
           from |-> q.from, to |-> q.to, cap |-> q.cap] : q \in read}

\* The provisions to consider for the cost that a document states.  A document
\* without an origin is under no authority.
Considered(d, provisions, facts) ==
    IF Has(facts, "estimated_cost") /\ Len(origins[d]) = 1
    THEN SelectProvision(facts["estimated_cost"], origins[d][1], provisions) ELSE {}

\* _authority_of raises an error that is not the program's own if there is
\* more than one origin.
Breaks(d, reading) == Has(reading.notice, "estimated_cost") /\ Len(origins[d]) > 1

\* All facts that a reading states, as _boq_fields adds those of the bill.
Fields(reading) ==
    Over([k \in (DOMAIN reading.notice) \X {0} |-> reading.notice[k[1]]], BillFacts(reading.bill))

\* A calculated value, if there is one, with what it was calculated from.
Entry(d, name, values, keys, provisions) ==
    [k \in {d} \X (IF values = {} THEN {} ELSE {name}) |->
        [value |-> values, facts |-> keys, provisions |-> provisions]]

\* compute_for_document and, if a single provision applies, what it requires.
Calculated(d, facts, rows, considered) ==
    LET required == IF Cardinality(considered) # 1 THEN {}
                    ELSE {RequiredBidSecurity(facts["estimated_cost"], p) : p \in considered}
    IN  Over(Entry(d, "bid_security_share", BidSecurityShare(facts), Keys(d, {"estimated_cost", "bid_security"}), {}),
        Over(Entry(d, "bill_items_total", BillItemsTotal(rows), {<<d, "line_amount", k>> : k \in DOMAIN rows}, {}),
             Entry(d, "required_bid_security", required, Keys(d, {"estimated_cost"}), considered)))

ValuesOf(d, derived, name) == IF <<d, name>> \in DOMAIN derived THEN derived[<<d, name>>].value ELSE {}

\* evaluate_all
Evaluated(d, facts, bill, supplied, considered, derived) ==
    LET of(name) == ValuesOf(d, derived, name)
    IN  [bid_security_share |-> EvaluateBidSecurity(facts, supplied, of("bid_security_share")),
         priced_bill_matches_estimate |-> EvaluateBillAgainstEstimate(facts),
         bill_total |-> EvaluateBillTotal(facts, bill.rows, bill.rejected, of("bill_items_total")),
         reference_policy |-> EvaluateAgainstPolicy(facts, considered, of("required_bid_security"))]

\* analyse_document: what is in the store afterwards.
Analysed(d, s, reading, supplied) ==
    LET fields == Fields(reading)
        facts == ByType(fields)
        provisions == Provisions(d, s, reading.provisions)
        considered == Considered(d, provisions, facts)
        derived == Calculated(d, facts, reading.bill.rows, considered)
        result == Evaluated(d, facts, reading.bill, supplied, considered, derived)
    IN  [state |-> [s.state EXCEPT ![d] = "processed"],
         facts |-> Over([k \in {<<d, f[1], f[2]>> : f \in DOMAIN fields} |-> fields[<<k[2], k[3]>>]], s.facts),
         retracted |-> Retracted(d, s, reading.suppressed),
         provisions |-> provisions,
         readAs |-> [s.readAs EXCEPT ![d] = type[d]],
         derived |-> Over(derived, s.derived),
         findings |-> Over([k \in {d} \X DocumentRules |-> result[k[2]]], s.findings)]

\* analyse --document: alone.  An error leaves everything as it was.
Analyse(d) ==
    /\ d \notin damaged
    /\ \E ocr \in BOOLEAN, supplied \in Supplied : \E read \in readings[d][ocr] :
         LET reading == Taken(d, read)
         IN  /\ ~ Breaks(d, reading)
             /\ store' = Analysed(d, store, reading, supplied)
    /\ UNCHANGED <<paper, damaged, type, origins, linked, verdicts, report, changes>>

-----------------------------------------------------------------------------
(* The project *)

\* load_project_facts, latest_by_type: not what was withdrawn, and no row that
\* is linked to a work item.
Loaded(s) == {k \in DOMAIN s.facts \ s.retracted : k[3] = 0 \/ k[1] \notin linked}

\* One fact of a type stands for a document; of rows the code leaves open which.
\* What a single document states is compared with nothing, and left out.
Representatives(keys) ==
    LET shared == {k \in keys : \E l \in keys : l[2] = k[2] /\ l[1] # k[1]}
    IN  {c \in SUBSET shared :
            \A k \in shared : Cardinality({l \in c : l[1] = k[1] /\ l[2] = k[2]}) = 1}

ComparedTypes == {"estimated_cost", "bid_security", "prescribed_bid_security_share", "stated_bill_total",
                  "contracted_quantity", "contract_rate", "line_amount"}

\* evaluate_project, persist_project_finding
Judged(s, chosen) ==
    LET of(t) == {k \in chosen : k[2] = t}
        stated == [t \in {k[2] : k \in chosen} \cap ComparedTypes |->
                    [d \in {k[1] : k \in of(t)} |-> s.facts[CHOOSE k \in of(t) : k[1] = d]]]
        shares == {k \in DOMAIN s.derived : k[2] = "bid_security_share"}
        share == [d \in {k[1] : k \in shares} |-> CHOOSE v \in s.derived[<<d, "bid_security_share">>].value : TRUE]
    IN  [fact_agreement |->
           Result(EvaluateFactAgreement(stated), {k \in chosen : k[2] \in Comparable(stated)}, {}, {}),
         share_consistency |-> Result(EvaluateShareConsistency(share), {}, shares, {})]

\* analyse_project
AnalyseProject ==
    /\ \E chosen \in Representatives(Loaded(store)) : verdicts' = Judged(store, chosen)
    /\ UNCHANGED <<paper, damaged, type, origins, linked, store, report, changes>>

\* One document in the loop: an error of the program's own marks it failed,
\* which a processed document cannot be.
Processed(d, s, reprocess) ==
    IF s.state[d] = "processed" /\ ~ reprocess THEN s
    ELSE IF d \in damaged
    THEN [s EXCEPT !.state = [s.state EXCEPT ![d] = IF @ = "processed" THEN @ ELSE "failed"]]
    ELSE Analysed(d, s, TakenPlainly(d), {})

\* Any other error ends the loop, and the transaction is undone.
Aborts(reprocess) ==
    \E d \in Documents \ damaged :
        /\ store.state[d] = "processed" => reprocess
        /\ Breaks(d, TakenPlainly(d))

\* The store after the loop.
AllProcessed(reprocess) ==
    LET after[n \in 0..Len(Order)] ==
            IF n = 0 THEN store ELSE Processed(Order[n], after[n - 1], reprocess)
    IN  after[Len(Order)]

\* process_project: every document, the smallest first, then the project.
ProcessProject(reprocess) ==
    LET s == AllProcessed(reprocess)
    IN  /\ ~ Aborts(reprocess)
        /\ store' = s
        /\ \E chosen \in Representatives(Loaded(s)) : verdicts' = Judged(s, chosen)
        /\ report' = "complete"
        /\ UNCHANGED <<paper, damaged, type, origins, linked, changes>>

ProcessingAborts(reprocess) ==
    /\ Aborts(reprocess)
    /\ report' = "aborted"
    /\ UNCHANGED <<paper, damaged, type, origins, linked, store, verdicts, changes>>

-----------------------------------------------------------------------------
(* What else happens to documents *)

Change == changes < MaxChanges /\ changes' = changes + 1

\* confirm_document_type
Retype(d) ==
    /\ Change
    /\ \E t \in Types \ {type[d]} : type' = [type EXCEPT ![d] = t]
    /\ UNCHANGED <<paper, damaged, origins, linked, store, verdicts, report>>

\* Another retrieval of the same bytes, or an upload of them.
Recur(d) ==
    /\ Change
    /\ \E a \in Authorities : origins' = [origins EXCEPT ![d] = Append(@, a)]
    /\ UNCHANGED <<paper, damaged, type, linked, store, verdicts, report>>

\* link_work_items: the rows that are facts by now.
Link ==
    /\ Change
    /\ linked' = {k[1] : k \in {k \in DOMAIN store.facts : k[3] # 0}}
    /\ linked' # linked
    /\ UNCHANGED <<paper, damaged, type, origins, store, verdicts, report>>

Next ==
    \/ \E d \in Documents : Analyse(d) \/ Retype(d) \/ Recur(d)
    \/ \E reprocess \in BOOLEAN : ProcessProject(reprocess) \/ ProcessingAborts(reprocess)
    \/ AnalyseProject
    \/ Link

Spec == Init /\ [][Next]_vars

-----------------------------------------------------------------------------
(* Properties.  The truth that a member of Prints comes with: the bands of   *)
(* printed.schedule, the cost and the security of printed.notice, and the    *)
(* rows and the total of printed.bill.                                       *)

TypeOK ==
    /\ printed \in Prints
    /\ damaged \subseteq Documents
    /\ type \in [Documents -> Types \cup {printed.types[d] : d \in Documents}]
    /\ \A d \in Documents : Range(origins[d]) \subseteq Authorities
    /\ linked \subseteq Documents
    /\ store.state \in [Documents -> States]
    /\ \A k \in DOMAIN store.facts : k[1] \in Documents /\ store.state[k[1]] = "processed"
    /\ store.retracted \subseteq DOMAIN store.facts
    /\ \A k \in DOMAIN store.derived : store.derived[k].facts \subseteq DOMAIN store.facts
    /\ \A k \in DOMAIN store.findings :
          /\ store.findings[k].outcome \in {"pass", "fail", "review", "inconclusive"}
          /\ Keys(k[1], store.findings[k].facts) \subseteq DOMAIN store.facts
          /\ {k[1]} \X store.findings[k].derived \subseteq DOMAIN store.derived
    /\ \A r \in DOMAIN verdicts : verdicts[r].facts \subseteq DOMAIN store.facts
    /\ report \in {"none", "complete", "aborted"}
    /\ changes \in 0..MaxChanges

Outcome(d, rule) ==
    IF <<d, rule>> \in DOMAIN store.findings THEN store.findings[<<d, rule>>].outcome ELSE "none"

\* The bands of the printed schedule that hold the printed cost, and what the
\* one of them asks for.
Governing == {b \in printed.schedule : \E c \in printed.notice.cost : InBand(c, b)}

Demanded(band, cost) ==
    LET share == cost * band.share
    IN  IF band.cap = {} THEN share ELSE Min({share} \cup {1000 * c : c \in band.cap})

\* Printed manual, printed notice, verdict: a security is judged only for a cost
\* that one band of the document's own authority holds, and by that band.
PolicyVerdictsArePrinted ==
    Outcome("notice", "reference_policy") \in {"pass", "fail"} =>
        /\ Cardinality(Governing) = 1
        /\ \E b \in Governing, c \in printed.notice.cost, s \in printed.notice.security :
             /\ b.authority \in Range(origins["notice"])
             /\ (Outcome("notice", "reference_policy") = "pass")
                    <=> (Distinct(1000 * s, Demanded(b, c)) <= 1000)

\* The figures that the store holds of a row of a bill are those of one printed
\* row, in whatever layout and between whatever other figures it stands.
RowsArePrinted ==
    \A k \in DOMAIN store.facts : k[2] = "line_amount" =>
        \E row \in Range(printed.bill.rows) :
            /\ store.facts[k] = row.amount
            /\ store.facts[<<k[1], "contract_rate", k[3]>>] = row.rate
            /\ store.facts[<<k[1], "contracted_quantity", k[3]>>] = row.quantity

AddsUp ==
    \A t \in printed.bill.total : Distinct(TotalAmount(printed.bill.rows), t) <= BillTotalTolerance

\* A bill that passes was read whole and adds up; a bill that is sent to a
\* person does not add up, unless a row had a shape that no reader knows.
BillVerdictsArePrinted ==
    /\ Outcome("bill", "bill_total") = "pass" =>
          /\ AddsUp
          /\ store.derived[<<"bill", "bill_items_total">>].value = {TotalAmount(printed.bill.rows)}
    /\ Outcome("bill", "bill_total") = "review" => ~ AddsUp \/ printed.bill.unknownShape

\* What a reference quotes is not its own: once it has been read as one, no
\* later verdict about the project compares it.
QuotedIsNotCompared ==
    [][\A d \in Documents :
          (/\ verdicts' # verdicts /\ store'.readAs[d] \in ReferenceTypes
           /\ HasTextLayer(ExtractText(printed.content[d]))
           /\ FindNitNumber(ExtractText(printed.content[d]).pages) = {})
          => \A k \in verdicts'.fact_agreement.facts : k[1] = d => k[2] \notin NoticeFields]_vars

\* "One document's failure must not cost the others their analysis"
\* (workspace/__init__.py): when process_project has ended, every document is
\* processed, or has failed.
EveryDocumentIsReached ==
    report # "none" => \A d \in Documents : store.state[d] # "downloaded"

=============================================================================
