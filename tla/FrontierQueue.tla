---------------------------- MODULE FrontierQueue ----------------------------
(***************************************************************************)
(* One row of discovered_urls, and what the queue operations of            *)
(* FrontierQueue and the unit of work of the ORM do to it.                 *)
(*                                                                         *)
(* Time is counted in ticks of 300 s, the total budget of one request, the *)
(* base of the retry backoff and a third of a lease; a timer holds the     *)
(* ticks it still has to run.                                              *)
(***************************************************************************)
EXTENDS Integers, DocumentLifecycle

CONSTANTS
    LeaseTicks,     \* DEFAULT_LEASE_SECONDS, in ticks
    MaxAttempts,    \* DEFAULT_MAX_ATTEMPTS
    CeilingTicks    \* _RETRY_CEILING_SECONDS, in ticks

ASSUME QueueAssumption ==
    /\ LeaseTicks \in Nat \ {0}
    /\ MaxAttempts \in Nat \ {0}
    /\ CeilingTicks \in Nat \ {0}

\* Columns that are NULL: no lease, and a deferral the session has not touched.
NoLease == -1
Untouched == -1

\* The columns of DiscoveredUrl that the queue and the acquirer decide by.
\* "absent" is a URL this source has not seen.  lease is lease_expires_at (0: it
\* has passed) and stands for lease_owner too, which no code reads back; wait is
\* next_attempt_after, dead is dead_lettered_at and document is document_id,
\* the last two only for being set.
Row == [state: DocumentState \cup {"absent"},
        attempts: Nat,
        lease: {NoLease} \cup 0..LeaseTicks,
        wait: Nat,
        dead: BOOLEAN,
        document: BOOLEAN]

Absent == [state |-> "absent", attempts |-> 0, lease |-> NoLease, wait |-> 0,
           dead |-> FALSE, document |-> FALSE]

Fresh == [Absent EXCEPT !.state = "discovered"]

\* enqueue: ON CONFLICT DO NOTHING, so a URL already seen keeps its row.
Enqueue(rows, candidates) ==
    [u \in DOMAIN rows |->
        IF u \in candidates /\ rows[u].state = "absent" THEN Fresh ELSE rows[u]]

\* Mutant: the query forgets dead_lettered_at.
ClaimableDead(r) ==
    /\ r.state \in {"discovered", "failed"}
    /\ r.attempts < MaxAttempts
    /\ r.lease <= 0
    /\ r.wait = 0

\* _claimable
Claimable(r) ==
    /\ r.state \in {"discovered", "failed"}
    /\ ~r.dead
    /\ r.attempts < MaxAttempts
    /\ r.lease <= 0
    /\ r.wait = 0

\* claim: what it writes to each row it takes.
Lease(r) == [r EXCEPT !.lease = LeaseTicks]

\* reclaim_expired: the CASE in it also clears dead_lettered_at.
ReclaimExpired(rows) ==
    [u \in DOMAIN rows |->
        LET r == rows[u] IN
        IF r.state = "downloading" /\ r.lease = 0
        THEN [r EXCEPT !.state = "failed", !.attempts = @ + 1, !.lease = NoLease,
                       !.dead = (r.attempts + 1 >= MaxAttempts)]
        ELSE r]

-----------------------------------------------------------------------------
(* A handler works on the copy of the row its session loaded, and the flush *)
(* writes only the columns whose value it changed.                          *)

\* What a session may hold: a row, or one whose deferral it has not read.
SessionRow == [state: DocumentState \cup {"absent"},
               attempts: Nat,
               lease: {NoLease} \cup 0..LeaseTicks,
               wait: {Untouched} \cup Nat,
               dead: BOOLEAN,
               document: BOOLEAN]

\* session.get: the deferral is never read, so a new one is always a change.
Loaded(r) == [r EXCEPT !.wait = Untouched]

\* The columns an UPDATE sets: those that differ between what was loaded and
\* what the session holds now.  The rest keep what the table has.
Flush(loaded, mine, r) ==
    LET Column(old, new, stored) == IF new = old THEN stored ELSE new IN
    [state    |-> Column(loaded.state, mine.state, r.state),
     attempts |-> Column(loaded.attempts, mine.attempts, r.attempts),
     lease    |-> Column(loaded.lease, mine.lease, r.lease),
     wait     |-> Column(loaded.wait, mine.wait, r.wait),
     dead     |-> Column(loaded.dead, mine.dead, r.dead),
     document |-> Column(loaded.document, mine.document, r.document)]

\* Mutant: one attempt more than _claimable grants.
ExhaustedLate(r) == r.state = "failed" /\ r.attempts > MaxAttempts

\* settle: whether the URL has spent its attempts
Exhausted(r) == r.state = "failed" /\ r.attempts >= MaxAttempts

\* Mutant: dead_lettered_at is recomputed instead of only ever set.
SettleAnew(r) == [r EXCEPT !.lease = NoLease, !.dead = Exhausted(r)]

\* settle: the lease released, and the dead letter
Settle(r) == [r EXCEPT !.lease = NoLease, !.dead = @ \/ Exhausted(r)]

\* Mutant: the write goes to the detached row and is never flushed.
ReleaseDetached(r) == r

\* release, without and with retry_after_seconds
Release(r) == [r EXCEPT !.lease = NoLease]

Defer(r, ticks) == [r EXCEPT !.lease = NoLease, !.wait = ticks]

\* _backoff: one base delay per attempt already made, doubling, up to a ceiling.
Backoff(attempts) ==
    LET delay == 2 ^ (IF attempts > 0 THEN attempts - 1 ELSE 0)
    IN  IF delay \in 0..CeilingTicks THEN delay ELSE CeilingTicks

=============================================================================
