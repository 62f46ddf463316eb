---------------------------- MODULE MCCrawlRunner ----------------------------
(* Instances of CrawlRunner for TLC. *)
EXTENDS CrawlRunner, TLC

CONSTANTS j1, j2, w1, w2, p, d, e

\* A listing page and what it links to: the page itself and both documents.
LinksOfP == [x \in {p} |-> {p, d, e}]
LinksPD == [x \in {p} |-> {d}]
NoLinks == [x \in {} |-> {}]

RankOf(order) == [u \in {order[i] : i \in DOMAIN order} |->
                    CHOOSE i \in DOMAIN order : order[i] = u]
RankPD == RankOf(<<p, d>>)
RankPDE == RankOf(<<p, d, e>>)
RankD == RankOf(<<d>>)

\* No process is a dry run, or one of them at the most is.
NobodyDry == {{}}
AtMostOneDry == {S \in SUBSET Workers : Cardinality(S) <= 1}

Interchangeable == Permutations(Workers) \cup Permutations(Jobs)

=============================================================================
