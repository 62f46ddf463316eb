------------------------------ MODULE PolicyReader ------------------------------
(***************************************************************************)
(* The schedule of bid securities that the manual of an authority lays     *)
(* down (extraction/policy.py), and which of its bands governs a cost      *)
(* (extraction/applicability.py).                                          *)
(*                                                                         *)
(* The marks of a page that matter are the name of an authority, the head  *)
(* of a clause with its number, and sub-clauses.                           *)
(***************************************************************************)
EXTENDS PageText

Issuer(authority) == [is |-> "issuer", authority |-> authority]
ClauseHead(number) == [is |-> "clause", number |-> number]

\* The body of a sub-clause: how its rate is written, whether it is a rate of
\* the estimated cost, the words that make a band, the amounts before "subject
\* to a maximum of" and those after it.
SubClause(letter, rate, ofCost, words, amounts, cap) ==
    [is |-> "sub-clause", letter |-> letter, rate |-> rate, ofCost |-> ofCost,
     words |-> words, amounts |-> amounts, cap |-> cap]

\* A percentage in thousandths as it is written: digits, a fraction, words.
Digits(tenths) == [form |-> "digits", tenths |-> tenths]
Fraction(n, d) == [form |-> "fraction", n |-> n, d |-> d]
Words(whole, half) == [form |-> "words", whole |-> whole, half |-> half]   \* "... and one-half"
Unreadable == [form |-> "other"]

\* _percent_as_fraction: a denominator of zero and other words are no rate.
PercentAsFraction(rate) ==
    CASE rate.form = "digits" -> {rate.tenths}
      [] rate.form = "fraction" -> IF rate.d = 0 THEN {} ELSE {(10 * rate.n) \div rate.d}
      [] rate.form = "words" -> {10 * rate.whole + (IF rate.half THEN 5 ELSE 0)}
      [] OTHER -> {}

NoBand == [known |-> FALSE]
BandOf(from, to) == [known |-> TRUE, from |-> from, to |-> to]   \* each bound a set, {} if none

SaysAbove(words) == words \cap {"above", "not exceeding"} # {}   \* "exceeding" is found in both
SaysUpTo(words) == words \cap {"up to", "not exceeding"} # {}

\* _band: between two amounts, above one, or up to one; tried in this order.
Band(body) ==
    LET amounts == body.amounts
    IN  CASE amounts = <<>> -> NoBand
          [] "between" \in body.words /\ Len(amounts) >= 2 ->
               BandOf({Min({amounts[1], amounts[2]})}, {Max({amounts[1], amounts[2]})})
          [] SaysAbove(body.words) -> BandOf({amounts[1]}, {})
          [] SaysUpTo(body.words) -> BandOf({}, {amounts[1]})
          [] OTHER -> NoBand

\* A sub-clause counts if its rate, what it is of and its band can all be read.
Readable(body) == PercentAsFraction(body.rate) # {} /\ body.ofCost /\ Band(body).known

\* ExtractedProvision
Provision(authority, clause, letter, body) ==
    LET band == Band(body)
    IN  [authority |-> authority, clause |-> <<clause, letter>>,
         share |-> CHOOSE s \in PercentAsFraction(body.rate) : TRUE,
         from |-> IF band.known THEN band.from ELSE {}, to |-> IF band.known THEN band.to ELSE {},
         cap |-> IF body.cap = <<>> THEN {} ELSE {body.cap[1]}]

\* _issuing_authority: the first that the document names.
IssuingAuthority(text) ==
    LET marks == FlattenSeq([i \in DOMAIN text.pages |-> text.pages[i].marks])
        named == SelectSeq(marks, LAMBDA mark : mark.is = "issuer")
    IN  IF named = <<>> THEN {} ELSE {named[1].authority}

\* The sub-clauses after the head of the clause, on the page of the head.
PageProvisions(authority, marks) ==
    LET heads == {i \in DOMAIN marks : marks[i].is = "clause"}
        head == Min(heads)
        subs == {i \in DOMAIN marks : i > head /\ marks[i].is = "sub-clause" /\ Readable(marks[i])}
    IN  IF heads = {} THEN {}
        ELSE {Provision(authority, marks[head].number, marks[i].letter, marks[i]) : i \in subs}

\* read_bid_security_policy: from the first page that has any.
ReadBidSecurityPolicy(text) ==
    LET of(i) == UNION {PageProvisions(a, text.pages[i].marks) : a \in IssuingAuthority(text)}
        at == {i \in DOMAIN text.pages : of(i) # {}}
    IN  IF at = {} THEN {} ELSE of(Min(at))

-----------------------------------------------------------------------------
(* Which provision applies *)

\* _in_band: both ends belong to the band.
InBand(value, provision) ==
    /\ \A from \in provision.from : value >= from
    /\ \A to \in provision.to : value <= to

\* Mutant: if two bands hold the value, one of them is taken.
SelectFirst(value, authority, provisions) ==
    LET matching == {p \in provisions : p.authority = authority /\ InBand(value, p)}
    IN  IF matching = {} THEN {} ELSE {CHOOSE p \in matching : TRUE}

\* select_provision: what is considered; it is resolved if that is a single one.
SelectProvision(value, authority, provisions) ==
    {p \in provisions : p.authority = authority /\ InBand(value, p)}

=============================================================================
