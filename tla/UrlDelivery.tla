----------------------------- MODULE UrlDelivery -----------------------------
(***************************************************************************)
(* What the crawl queue promises about one source's URLs (ADR 0012, rules  *)
(* 46 and 47): each is tried a bounded number of times, its outcome is     *)
(* recorded once, and no outcome is taken back.  Leases, processes, jobs   *)
(* and time are not visible here.                                          *)
(***************************************************************************)
EXTENDS Naturals

CONSTANTS Urls, MaxAttempts

VARIABLES
    status,     \* what is known of each URL
    tries       \* failed attempts at each URL that may be tried again

vars == <<status, tries>>

Status == {"unknown", "pending", "acquired", "quarantined", "retired", "exhausted"}

Init ==
    /\ status = [u \in Urls |-> "unknown"]
    /\ tries = [u \in Urls |-> 0]

Found(S) == [u \in Urls |-> IF u \in S /\ status[u] = "unknown"
                            THEN "pending" ELSE status[u]]

Discover(S) ==
    /\ status' = Found(S)
    /\ UNCHANGED tries

\* An outcome that is no failure ends the URL; a page also brings new URLs.
Conclude(u, outcome, S) ==
    /\ status[u] = "pending"
    /\ status' = [Found(S) EXCEPT ![u] = outcome]
    /\ tries' = [tries EXCEPT ![u] = 0]

\* A failure is charged, and the last one there may be ends the URL.
Fail(u) ==
    /\ status[u] = "pending"
    /\ tries' = [tries EXCEPT ![u] = @ + 1]
    /\ status' = [status EXCEPT
                    ![u] = IF tries[u] + 1 >= MaxAttempts THEN "exhausted" ELSE @]

Next ==
    \/ \E S \in SUBSET Urls : Discover(S)
    \/ \E u \in Urls :
        \/ Fail(u)
        \/ \E outcome \in {"acquired", "quarantined"} : Conclude(u, outcome, {})
        \/ \E S \in SUBSET Urls : Conclude(u, "retired", S)

Spec == Init /\ [][Next]_vars

=============================================================================
