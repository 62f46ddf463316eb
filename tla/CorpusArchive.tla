--------------------------- MODULE CorpusArchive ----------------------------
(***************************************************************************)
(* What the corpus promises: an archive that keeps what it was given.  A   *)
(* stored object is never removed, a document is recorded once, under an   *)
(* object that is already there, and neither its object nor its format     *)
(* ever changes.                                                           *)
(***************************************************************************)
CONSTANTS Keys, Digests, NoKey

VARIABLES held,     \* the keys that have an object
          recorded  \* the key each document is recorded under, or NoKey

archive == <<held, recorded>>

Init == held = {} /\ recorded = [d \in Digests |-> NoKey]

Store(k) == held' = held \cup {k} /\ UNCHANGED recorded

Record(d, k) ==
    /\ k \in held
    /\ recorded[d] = NoKey
    /\ recorded' = [recorded EXCEPT ![d] = k]
    /\ UNCHANGED held

Next == \/ \E k \in Keys : Store(k)
        \/ \E d \in Digests, k \in Keys : Record(d, k)

Spec == Init /\ [][Next]_archive

=============================================================================
