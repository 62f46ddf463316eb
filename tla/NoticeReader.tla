------------------------------ MODULE NoticeReader ------------------------------
(***************************************************************************)
(* What a notice inviting tenders says of itself                           *)
(* (extraction/tender_notice.py): its number, its estimated cost, the bid  *)
(* security it asks for, its date and the share that it prescribes.        *)
(*                                                                         *)
(* A page is a sequence of marks.  The distances that the readers allow,   *)
(* characters in the code, are counted in marks.  Money is in rupees and a *)
(* share in thousandths.                                                   *)
(***************************************************************************)
EXTENDS PageText

CONSTANTS
    BlockGap,      \* _HEADER_BLOCK_GAP: between the headers of one block
    LabelWindow,   \* _LABEL_WINDOW: from a label to its value
    TotalWindow,   \* _TOTAL_LABEL_WINDOW: from an amount back to its label
    FeeWindow,     \* 130 characters: from an amount back to the label of a fee
    ClauseGap      \* 60 characters: from "bid security" to "N% of estimated cost"

Label(is) == [is |-> is]
Nit(reference) == [is |-> "nit", value |-> reference]
Rupees(value) == [is |-> "amount", value |-> value]
Dated(day, real) == [is |-> "date", value |-> day, real |-> real]   \* real: the calendar has it
RateOf(share) == [is |-> "rate of", value |-> share]                \* "N% of the", at a cost label

At(page, is) == {i \in DOMAIN page.marks : page.marks[i].is = is}

\* The first page of those that satisfy Is, and 0 if there is none.
FirstPage(pages, Is(_)) ==
    LET at == {i \in DOMAIN pages : Is(pages[i])} IN IF at = {} THEN 0 ELSE Min(at)

\* _find_nit_number
FindNitNumber(pages) ==
    LET i == FirstPage(pages, LAMBDA page : At(page, "nit") # {})
    IN  IF i = 0 THEN {} ELSE {pages[i].marks[Min(At(pages[i], "nit"))].value}

-----------------------------------------------------------------------------
(* The invitation table *)

IsRate(page, i) == i \in DOMAIN page.marks /\ page.marks[i].is = "rate of"

\* "N% of the estimated cost" is a rule and not the label of a value.
CostHeaders(page) == {i \in At(page, "cost") : ~ IsRate(page, i - 1)}

IsFee(page, i, from) == \E j \in At(page, "fee") : j < i /\ j >= i - FeeWindow /\ j > from

\* _amounts_after: where the amounts after a label are; fees are none.
AmountsAfter(page, from) ==
    SetToSortSeq({i \in At(page, "amount") : /\ i > from /\ i <= from + LabelWindow
                                             /\ ~ IsFee(page, i, from)},
                 LAMBDA a, b : a < b)

ValueAt(page, i) == page.marks[i].value

SumAt(page, places) == FoldLeft(LAMBDA n, i : n + ValueAt(page, i), 0, places)

LabelledTotal(page, i) ==
    LET before == {j \in DOMAIN page.marks : j < i /\ j >= i - TotalWindow}
    IN  /\ before \cap At(page, "total") # {}
        /\ before \cap At(page, "with tax") = {}

\* _stated_total: an amount that is called a total, and is that of those before it.
TotalOf(page, places) ==
    {k \in DOMAIN places : /\ k >= 2
                           /\ LabelledTotal(page, places[k])
                           /\ SumAt(page, SubSeq(places, 1, k - 1)) = ValueAt(page, places[k])}

StatedOrFirst(page, places) ==
    LET totals == TotalOf(page, places)
    IN  IF places = <<>> THEN {} ELSE {places[IF totals = {} THEN 1 ELSE Min(totals)]}

Distance(a, b) == IF a > b THEN a - b ELSE b - a

\* Where the two values of a page are.  The headers of one block come before
\* the values of both; else each label owns what follows it.
AmountPlaces(page) ==
    LET cost == Min(CostHeaders(page))
        labels == At(page, "security")
        security == Min(labels)
        block == AmountsAfter(page, Max({cost, security}))
        own == AmountsAfter(page, security)
    IN  IF labels # {} /\ Distance(security, cost) <= BlockGap
        THEN [cost |-> IF block = <<>> THEN {} ELSE {block[1]},
              security |-> IF Len(block) < 2 THEN {} ELSE {block[2]}]
        ELSE [cost |-> StatedOrFirst(page, AmountsAfter(page, cost)),
              security |-> IF labels = {} \/ own = <<>> THEN {} ELSE {own[1]}]

\* A security is another figure than the cost, and less than half of it.
Plausible(page, security, cost) ==
    /\ security # cost
    /\ ValueAt(page, cost) > 0
    /\ 2 * ValueAt(page, security) < ValueAt(page, cost)

\* _find_table_amounts
FindTableAmounts(pages) ==
    LET places == [i \in DOMAIN pages |->
                     IF CostHeaders(pages[i]) = {} THEN [cost |-> {}, security |-> {}]
                     ELSE AmountPlaces(pages[i])]
        i == FirstPage([k \in DOMAIN pages |-> k], LAMBDA k : places[k].cost # {})
        value(places_) == {ValueAt(pages[i], p) : p \in places_}
    IN  IF i = 0 THEN [cost |-> {}, security |-> {}]
        ELSE [cost |-> value(places[i].cost),
              security |-> value({s \in places[i].security :
                                    \A c \in places[i].cost : Plausible(pages[i], s, c)})]

-----------------------------------------------------------------------------
(* The other fields *)

\* _find_document_date: the first that the calendar has.
Dates(page) == {i \in At(page, "date") : page.marks[i].real}

FindDocumentDate(pages) ==
    LET i == FirstPage(pages, LAMBDA page : Dates(page) # {})
    IN  IF i = 0 THEN {} ELSE {ValueAt(pages[i], Min(Dates(pages[i])))}

\* Where a sentence that ends in a rate of the cost speaks of bid security.
LeadIns(page, i) ==
    {j \in At(page, "security") :
        /\ j < i /\ i - j <= ClauseGap
        /\ \A k \in j..(i - 1) : page.marks[k].is \notin {"full stop", "rate of"}}

\* "bid security ... N% of the estimated cost", with no other instrument that
\* the percentage could belong to.
Prescribes(page, i) ==
    /\ IsRate(page, i) /\ i + 1 \in At(page, "cost")
    /\ LeadIns(page, i) # {}
    /\ \A k \in Min(LeadIns(page, i))..i : page.marks[k].is # "other instrument"

\* _find_prescribed_share
FindPrescribedShare(pages) ==
    LET clauses(page) == {i \in DOMAIN page.marks : Prescribes(page, i)}
        i == FirstPage(pages, LAMBDA page : clauses(page) # {})
    IN  IF i = 0 THEN {} ELSE {ValueAt(pages[i], Min(clauses(pages[i])))}

Nothing == [n \in {} |-> 0]

NoticeFields == {"nit_number", "estimated_cost", "bid_security", "document_date",
                 "prescribed_bid_security_share"}

\* extract_tender_notice: the fields that are found.  It leaves out the pages
\* without text, in which no reader finds anything.
ExtractTenderNotice(text) ==
    LET amounts == FindTableAmounts(text.pages)
        found == [nit_number |-> FindNitNumber(text.pages),
                  estimated_cost |-> amounts.cost,
                  bid_security |-> amounts.security,
                  document_date |-> FindDocumentDate(text.pages),
                  prescribed_bid_security_share |-> FindPrescribedShare(text.pages)]
    IN  [n \in {n \in NoticeFields : found[n] # {}} |-> CHOOSE v \in found[n] : TRUE]

=============================================================================
