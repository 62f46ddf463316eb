----------------------------- MODULE PoliteFetch -----------------------------
(***************************************************************************)
(* Fetching one URL at a time from each of several threads that share one  *)
(* RateLimiter: RedirectController around RetryController around           *)
(* RateLimiter.slot around Transport.open.                                 *)
(*                                                                         *)
(* Time is counted in ticks and kept relative: left is what remains of a   *)
(* fetch's TimeoutBudget, timer what remains of the sleep or socket timeout*)
(* in progress, a grant is its age.  Ages saturate where no limit can tell *)
(* them apart, so the clock needs no bound.  A sleep or a socket timeout   *)
(* ends when it is due; any other step may be late.                        *)
(***************************************************************************)
EXTENDS Integers, Sequences, FiniteSets

CONSTANTS
    Threads,            \* each performs one fetch after another
    Sources,
    MaxConcurrency, MinDelay, PerWindow,    \* RateLimits of each source
    Window,             \* RATE_WINDOW_SECONDS
    GlobalConcurrency,
    TotalSeconds, ConnectSeconds, ReadSeconds,  \* TimeoutPolicy
    MaxAttempts, BackoffFactor, BackoffCap,     \* BackoffPolicy, base 1
    RetryAfterCap,      \* max_server_requested_delay_seconds
    RetryAfters,        \* delays a server asks for
    Locations,          \* spellings of URLs: what is asked for, what Location says
    Normal,             \* the URL validate_url makes of each
    Valid,              \* the URLs that pass the SSRF guard
    Refused,            \* Location values with a downgrade or no absolute URL
    MaxHops,            \* RedirectPolicy.max_hops
    None                \* no URL

Urls == {Normal[l] : l \in Locations}
NoDelay == -1

ASSUME FetchAssumption ==
    /\ IsFiniteSet(Threads)
    /\ MaxConcurrency \in [Sources -> Nat \ {0}]
    /\ PerWindow \in [Sources -> Nat \ {0}]
    /\ MinDelay \in [Sources -> Nat]
    /\ GlobalConcurrency \in Nat \ {0}
    /\ {Window, ConnectSeconds, ReadSeconds, MaxAttempts, BackoffFactor, BackoffCap}
         \subseteq Nat \ {0}
    /\ TotalSeconds \in Nat /\ TotalSeconds >= ConnectSeconds + ReadSeconds
    /\ RetryAfterCap \in Nat /\ MaxHops \in Nat
    /\ RetryAfters \subseteq Nat
    /\ Normal \in [Locations -> Locations]
    /\ \A l \in Locations : Normal[Normal[l]] = Normal[l]
    /\ None \notin Locations

VARIABLES
    pc,             \* where each thread is
    source,         \* target.source_id
    url,            \* current_url, and once it is validated target.url
    visited,        \* visited of RedirectController.fetch
    attempt,        \* attempt of RetryController.fetch
    left,           \* budget: total_seconds less what has elapsed
    timer,          \* what is left of the sleep or socket timeout in progress
    readLimit,      \* the read timeout the attempt was given
    late,           \* history: how far past its deadline the fetch was when the
                    \* last read ended that is followed by no check of it
    sourceSlots,    \* free slots of _source_slots, for each source
    globalSlots,    \* free slots of _global_slots
    grants,         \* the ages of _grants, oldest first, for each source
    stop,           \* the cancellation event
    granted         \* history: the ages of all grants, whatever _grants forgot

fetch == <<source, url, visited, attempt>>
clock == <<left, timer, readLimit, late>>
slots == <<sourceSlots, globalSlots>>
vars == <<pc, fetch, clock, slots, grants, stop, granted>>

Waiting == {"sleeping", "backoff"}
Connected == {"connect", "headers", "body"}
HoldsGlobal == {"open"} \cup Connected
HoldsSource == {"rate", "sleeping", "global", "global_wait"} \cup HoldsGlobal
Labels == {"idle", "validate", "source", "source_wait", "backoff"} \cup HoldsSource

Larger(a, b) == IF a > b THEN a ELSE b
Smaller(a, b) == IF a < b THEN a ELSE b

\* An age at which a grant is of no consequence to its source.
Old(s) == Larger(Window, MinDelay[s])

\* How far past its end a budget is followed.
Overrun == -(2 * ReadSeconds + 1)

Remaining(t) == Larger(0, left[t])
IsExhausted(t) == Remaining(t) <= 0

Init ==
    /\ pc = [t \in Threads |-> "idle"]
    /\ source \in [Threads -> Sources]
    /\ url = [t \in Threads |-> None]
    /\ visited = [t \in Threads |-> << >>]
    /\ attempt = [t \in Threads |-> 0]
    /\ left = [t \in Threads |-> 0]
    /\ timer = [t \in Threads |-> 0]
    /\ readLimit = [t \in Threads |-> 0]
    /\ late = [t \in Threads |-> 0]
    /\ sourceSlots = MaxConcurrency
    /\ globalSlots = GlobalConcurrency
    /\ grants = [s \in Sources |-> << >>]
    /\ stop = FALSE
    /\ granted = [s \in Sources |-> << >>]

Goto(t, label) == pc' = [pc EXCEPT ![t] = label]
SetTimer(t, delay) == timer' = [timer EXCEPT ![t] = delay]

\* The history a tick later, without the grants that are then of no consequence:
\* the oldest, which are the first.
Aged(s) ==
    LET recent == {i \in DOMAIN granted[s] : granted[s][i] + 1 < Old(s)}
        gone == Len(granted[s]) - Cardinality(recent)
    IN [i \in 1..Cardinality(recent) |-> granted[s][gone + i] + 1]

\* Time passes for everyone, up to the next sleep or timeout that is due.
Tick ==
    /\ \A t \in Threads : pc[t] \in Waiting \cup Connected => timer[t] > 0
    /\ left' = [t \in Threads |-> IF pc[t] = "idle" THEN left[t]
                                  ELSE Larger(Overrun, left[t] - 1)]
    /\ timer' = [t \in Threads |-> Larger(0, timer[t] - 1)]
    /\ grants' = [s \in Sources |->
                    [i \in DOMAIN grants[s] |-> Smaller(Old(s), grants[s][i] + 1)]]
    /\ granted' = [s \in Sources |-> Aged(s)]
    /\ UNCHANGED <<pc, fetch, readLimit, late, slots, stop>>

-----------------------------------------------------------------------------
(* Slots *)

SourceHolders(s) == {t \in Threads : pc[t] \in HoldsSource /\ source[t] = s}
GlobalHolders == {t \in Threads : pc[t] \in HoldsGlobal}

TakeSource(t) == sourceSlots' = [sourceSlots EXCEPT ![source[t]] = @ - 1]
ReturnSource(t) == sourceSlots' = [sourceSlots EXCEPT ![source[t]] = @ + 1]

\* Mutant: the outer finally is missing.
ReturnGlobal(t) == UNCHANGED sourceSlots /\ globalSlots' = globalSlots + 1

\* The way out of RateLimiter.slot.
ReturnSlots(t) == ReturnSource(t) /\ globalSlots' = globalSlots + 1

-----------------------------------------------------------------------------
(* The end of a fetch, of an attempt and of a hop *)

\* The fetch is over, with a response read or an error raised; the slots are
\* the caller's.
EndFetch(t) ==
    /\ Goto(t, "idle")
    /\ url' = [url EXCEPT ![t] = None]
    /\ visited' = [visited EXCEPT ![t] = << >>]
    /\ attempt' = [attempt EXCEPT ![t] = 0]
    /\ left' = [left EXCEPT ![t] = 0]
    /\ SetTimer(t, 0)
    /\ readLimit' = [readLimit EXCEPT ![t] = 0]
    /\ late' = [late EXCEPT ![t] = 0]
    /\ UNCHANGED <<source, grants, stop, granted>>

\* BackoffPolicy.ceiling_for.
Ceiling(n) == Smaller(BackoffFactor ^ (n - 1), BackoffCap)

\* Mutant: one attempt more than max_attempts.
DecisionsLate(t, transient, retryAfter) ==
    IF ~transient \/ attempt[t] > MaxAttempts \/ retryAfter > RetryAfterCap
    THEN {NoDelay}
    ELSE { IF delay >= Remaining(t) THEN NoDelay ELSE delay :
             delay \in IF retryAfter # NoDelay THEN {retryAfter}
                       ELSE 0..Ceiling(attempt[t]) }

\* Mutant: the delay is not held against what remains.
DecisionsUnbudgeted(t, transient, retryAfter) ==
    IF ~transient \/ attempt[t] >= MaxAttempts \/ retryAfter > RetryAfterCap
    THEN {NoDelay}
    ELSE IF retryAfter # NoDelay THEN {retryAfter} ELSE 0..Ceiling(attempt[t])

\* RetryPolicy.classify: the delays before a next attempt that it may decide
\* on, NoDelay for none.  A jittered delay is any up to the ceiling.
Decisions(t, transient, retryAfter) ==
    IF ~transient \/ attempt[t] >= MaxAttempts \/ retryAfter > RetryAfterCap
    THEN {NoDelay}
    ELSE { IF delay >= Remaining(t) THEN NoDelay ELSE delay :
             delay \in IF retryAfter # NoDelay THEN {retryAfter}
                       ELSE 0..Ceiling(attempt[t]) }

\* What RetryController.fetch does once the slots of a failed attempt are back.
AfterFailure(t, transient, retryAfter) ==
    \E delay \in Decisions(t, transient, retryAfter) :
        \/ delay = NoDelay /\ EndFetch(t)
        \/ /\ delay >= 0
           /\ IF delay = 0 THEN Goto(t, "source") ELSE Goto(t, "backoff")
           /\ attempt' = [attempt EXCEPT ![t] = IF delay = 0 THEN @ + 1 ELSE @]
           /\ SetTimer(t, delay)
           /\ readLimit' = [readLimit EXCEPT ![t] = 0]
           /\ late' = [late EXCEPT ![t] = 0]
           /\ UNCHANGED <<source, url, visited, left, grants, stop, granted>>

FailAttempt(t, transient, retryAfter) ==
    ReturnSlots(t) /\ AfterFailure(t, transient, retryAfter)

-----------------------------------------------------------------------------
(* One fetch *)

Begin(t) ==
    /\ pc[t] = "idle" /\ ~stop
    /\ Goto(t, "validate")
    /\ \E s \in Sources : source' = [source EXCEPT ![t] = s]
    /\ \E l \in Locations : url' = [url EXCEPT ![t] = l]
    /\ left' = [left EXCEPT ![t] = TotalSeconds]
    /\ UNCHANGED <<visited, attempt, timer, readLimit, late, slots, grants, stop,
                   granted>>

\* Mutant: the URL is compared as it was spelled.
AlreadyRequestedSo(t) == \E i \in DOMAIN visited[t] : visited[t][i] = url[t]

AlreadyRequested(t) == \E i \in DOMAIN visited[t] : visited[t][i] = Normal[url[t]]

\* The top of the loop of RedirectController.fetch.
ValidateHop(t) ==
    /\ pc[t] = "validate"
    /\ UNCHANGED slots
    /\ \/ (Normal[url[t]] \notin Valid \/ AlreadyRequested(t)) /\ EndFetch(t)
       \/ /\ Normal[url[t]] \in Valid /\ ~AlreadyRequested(t)
          /\ visited' = [visited EXCEPT ![t] = Append(@, Normal[url[t]])]
          /\ url' = [url EXCEPT ![t] = Normal[@]]
          /\ attempt' = [attempt EXCEPT ![t] = 1]
          /\ Goto(t, "source")
          /\ UNCHANGED <<source, clock, grants, stop, granted>>

\* _acquire, up to the call of the semaphore.
AskSource(t) ==
    /\ pc[t] = "source"
    /\ UNCHANGED slots
    /\ \/ IsExhausted(t) /\ AfterFailure(t, FALSE, NoDelay)
       \/ /\ ~IsExhausted(t)
          /\ Goto(t, "source_wait")
          /\ UNCHANGED <<fetch, clock, grants, stop, granted>>

\* The semaphore gives a slot, at any time, or none and the wait times out.
AwaitSource(t) ==
    /\ pc[t] = "source_wait"
    /\ UNCHANGED globalSlots
    /\ \/ /\ sourceSlots[source[t]] > 0
          /\ TakeSource(t)
          /\ Goto(t, "rate")
          /\ UNCHANGED <<fetch, clock, grants, stop, granted>>
       \/ /\ sourceSlots[source[t]] = 0 /\ IsExhausted(t)
          /\ AfterFailure(t, FALSE, NoDelay)
          /\ UNCHANGED sourceSlots

\* Mutant: one grant too many is forgotten.
KeptShort(s) ==
    LET n == Len(grants[s]) IN
    IF n >= PerWindow[s] THEN SubSeq(grants[s], n - PerWindow[s] + 2, n) ELSE grants[s]

\* _forget_expired.
Kept(s) ==
    LET n == Len(grants[s]) IN
    IF n > PerWindow[s] THEN SubSeq(grants[s], n - PerWindow[s] + 1, n) ELSE grants[s]

\* wait_seconds, on ages.
WaitSeconds(s, ages) ==
    IF ages = << >> THEN 0
    ELSE Larger(Larger(0, MinDelay[s] - ages[Len(ages)]),
                IF Len(ages) >= PerWindow[s]
                THEN Window - ages[Len(ages) - PerWindow[s] + 1] ELSE 0)

\* One turn of the loop of _wait_for_rate.
WaitForRate(t) ==
    LET s == source[t]
        wait == WaitSeconds(s, Kept(s))
    IN
    /\ pc[t] = "rate"
    /\ UNCHANGED globalSlots
    /\ \/ /\ wait <= 0
          /\ grants' = [grants EXCEPT ![s] = Append(Kept(s), 0)]
          /\ granted' = [granted EXCEPT ![s] = Append(@, 0)]
          /\ Goto(t, "global")
          /\ UNCHANGED <<fetch, clock, sourceSlots, stop>>
       \/ /\ wait > 0 /\ ~IsExhausted(t) /\ wait <= Remaining(t)
          /\ grants' = [grants EXCEPT ![s] = Kept(s)]
          /\ Goto(t, "sleeping")
          /\ SetTimer(t, wait)
          /\ UNCHANGED <<fetch, left, readLimit, late, sourceSlots, stop, granted>>
       \/ /\ wait > 0 /\ (IsExhausted(t) \/ wait > Remaining(t))
          /\ ReturnSource(t)
          /\ AfterFailure(t, FALSE, NoDelay)

Awake(t) ==
    /\ pc[t] = "sleeping" /\ timer[t] = 0
    /\ Goto(t, "rate")
    /\ UNCHANGED <<fetch, clock, slots, grants, stop, granted>>

AskGlobal(t) ==
    /\ pc[t] = "global"
    /\ UNCHANGED globalSlots
    /\ \/ IsExhausted(t) /\ ReturnSource(t) /\ AfterFailure(t, FALSE, NoDelay)
       \/ /\ ~IsExhausted(t)
          /\ Goto(t, "global_wait")
          /\ UNCHANGED <<fetch, clock, sourceSlots, grants, stop, granted>>

AwaitGlobal(t) ==
    /\ pc[t] = "global_wait"
    /\ \/ /\ globalSlots > 0
          /\ globalSlots' = globalSlots - 1
          /\ Goto(t, "open")
          /\ UNCHANGED <<fetch, clock, sourceSlots, grants, stop, granted>>
       \/ /\ globalSlots = 0 /\ IsExhausted(t)
          /\ ReturnSource(t)
          /\ AfterFailure(t, FALSE, NoDelay)
          /\ UNCHANGED globalSlots

\* TransportTimeouts.from_budget, and Transport.open up to the connection.
Open(t) ==
    /\ pc[t] = "open"
    /\ \/ IsExhausted(t) /\ FailAttempt(t, FALSE, NoDelay)
       \/ /\ ~IsExhausted(t)
          /\ Goto(t, "connect")
          /\ SetTimer(t, Smaller(ConnectSeconds, Remaining(t)))
          /\ readLimit' = [readLimit EXCEPT ![t] = Smaller(ReadSeconds, Remaining(t))]
          /\ UNCHANGED <<fetch, left, late, slots, grants, stop, granted>>

\* The connection is made, TLS agreed and the request written, which is one wait
\* here, or one of them fails or times out.
Connect(t) ==
    /\ pc[t] = "connect"
    /\ \/ /\ Goto(t, "headers")
          /\ SetTimer(t, readLimit[t])
          /\ UNCHANGED <<fetch, left, readLimit, late, slots, grants, stop, granted>>
       \/ \E transient \in BOOLEAN : FailAttempt(t, transient, NoDelay)

\* Where the fetch is past its deadline now, with nobody to notice.
Unnoticed(t) == late' = [late EXCEPT ![t] = Smaller(0, left[t])]

\* A socket operation ends, the phase it belongs to does not, and the next one
\* has a timeout of its own: a step of the handshake, a part of the headers, an
\* interim response, framing or compressed bytes that make no piece of the body.
\* No deadline is looked at.
Drip(t) ==
    /\ pc[t] \in Connected
    /\ SetTimer(t, IF pc[t] = "connect" THEN ConnectSeconds ELSE readLimit[t])
    /\ Unnoticed(t)
    /\ UNCHANGED <<pc, fetch, left, readLimit, slots, grants, stop, granted>>

\* A read of the headers times out, or the connection is lost.  An error that is
\* never retried ends the fetch as a refusal does.
LoseHeaders(t) ==
    /\ pc[t] = "headers"
    /\ FailAttempt(t, TRUE, NoDelay)

\* A status of 400 or more, with a Retry-After or without; or headers that
\* declare too long a body or break the protocol.
Refuse(t) ==
    /\ pc[t] = "headers"
    /\ \E transient \in BOOLEAN, retryAfter \in RetryAfters \cup {NoDelay} :
            FailAttempt(t, transient, retryAfter)

\* RedirectPolicy.evaluate.
Follows(t, location) ==
    /\ location # None
    /\ Len(visited[t]) - 1 < MaxHops
    /\ \A i \in DOMAIN visited[t] : visited[t][i] # location
    /\ location \notin Refused

\* A redirect: the slots go back, the budget and the chain go on.
Redirect(t) ==
    /\ pc[t] = "headers"
    /\ ReturnSlots(t)
    /\ \E location \in Locations \cup {None} :
        \/ ~Follows(t, location) /\ EndFetch(t)
        \/ /\ Follows(t, location)
           /\ Goto(t, "validate")
           /\ url' = [url EXCEPT ![t] = location]
           /\ attempt' = [attempt EXCEPT ![t] = 0]
           /\ SetTimer(t, 0)
           /\ readLimit' = [readLimit EXCEPT ![t] = 0]
           /\ late' = [late EXCEPT ![t] = 0]
           /\ UNCHANGED <<source, visited, left, grants, stop, granted>>

\* The response the caller gets to read.
Answer(t) ==
    /\ pc[t] = "headers"
    /\ Goto(t, "body")
    /\ SetTimer(t, readLimit[t])
    /\ Unnoticed(t)
    /\ UNCHANGED <<fetch, left, readLimit, slots, grants, stop, granted>>

\* Mutant: the budget is left to the timeouts of the reads.
PieceUnchecked(t) ==
    /\ pc[t] = "body"
    /\ SetTimer(t, readLimit[t])
    /\ UNCHANGED <<pc, fetch, left, readLimit, late, slots, grants, stop, granted>>

\* A piece of the body arrives and the budget is checked.
Piece(t) ==
    /\ pc[t] = "body"
    /\ \/ IsExhausted(t) /\ ReturnSlots(t) /\ EndFetch(t)
       \/ /\ ~IsExhausted(t)
          /\ SetTimer(t, readLimit[t])
          /\ UNCHANGED <<pc, fetch, left, readLimit, late, slots, grants, stop, granted>>

\* The body ends, or reading it fails: the caller leaves the with block.
Finish(t) ==
    /\ pc[t] = "body"
    /\ ReturnSlots(t)
    /\ EndFetch(t)

\* _backoff: the wait is over, or a shutdown ends it and the fetch.
Retry(t) ==
    /\ pc[t] = "backoff" /\ timer[t] = 0 /\ ~stop
    /\ Goto(t, "source")
    /\ attempt' = [attempt EXCEPT ![t] = @ + 1]
    /\ UNCHANGED <<source, url, visited, clock, slots, grants, stop, granted>>

Cancel(t) ==
    /\ pc[t] = "backoff" /\ stop
    /\ UNCHANGED slots
    /\ EndFetch(t)

Shutdown ==
    /\ ~stop
    /\ stop' = TRUE
    /\ UNCHANGED <<pc, fetch, clock, slots, grants, granted>>

\* Steps of a thread that the network does not decide alone.
Acquire(t) ==
    \/ ValidateHop(t) \/ AskSource(t) \/ AwaitSource(t) \/ WaitForRate(t)
    \/ Awake(t) \/ AskGlobal(t) \/ AwaitGlobal(t) \/ Open(t)

Exchange(t) ==
    \/ Connect(t) \/ Drip(t) \/ LoseHeaders(t) \/ Refuse(t) \/ Redirect(t)
    \/ Answer(t) \/ Piece(t) \/ Finish(t)

Next ==
    \/ \E t \in Threads : Begin(t) \/ Acquire(t) \/ Exchange(t) \/ Retry(t) \/ Cancel(t)
    \/ Tick
    \/ Shutdown

Spec == Init /\ [][Next]_vars

-----------------------------------------------------------------------------
(* Properties *)

\* The types of the variables, with the bounds the ages and budgets keep to.
TypeOK ==
    /\ pc \in [Threads -> Labels]
    /\ source \in [Threads -> Sources]
    /\ url \in [Threads -> Locations \cup {None}]
    /\ visited \in [Threads -> Seq(Urls)]
    /\ attempt \in [Threads -> 0..MaxAttempts]
    /\ left \in [Threads -> Overrun..TotalSeconds]
    /\ timer \in [Threads -> Nat]
    /\ readLimit \in [Threads -> 0..ReadSeconds]
    /\ late \in [Threads -> {n \in Int : n <= 0}]
    /\ sourceSlots \in [Sources -> Nat]
    /\ globalSlots \in Nat
    /\ grants \in [Sources -> Seq(Nat)]
    /\ stop \in BOOLEAN
    /\ granted \in [Sources -> Seq(Nat)]

\* A slot is free or held by one thread that is waiting out the politeness
\* limits (the source's only) or exchanging a request (both), and by none that
\* waits for a retry or is between two hops: RateLimiter.slot and the ExitStack
\* of the controllers give back what was taken, on every path.
SlotsAreReturned ==
    /\ \A s \in Sources :
        sourceSlots[s] + Cardinality(SourceHolders(s)) = MaxConcurrency[s]
    /\ globalSlots + Cardinality(GlobalHolders) = GlobalConcurrency

\* Two grants of one source are at least min_delay_seconds apart, and no window
\* holds more than requests_per_minute of them, although the threads sleep
\* at the same time and _forget_expired drops the history.
GrantsArePolite ==
    \A s \in Sources : \A i, j \in DOMAIN granted[s] :
        /\ i < j => granted[s][i] - granted[s][j] >= MinDelay[s]
        /\ j = i + PerWindow[s] => granted[s][i] - granted[s][j] >= Window

\* No thread sleeps past the end of the one budget of its fetch, whatever the
\* attempts and hops before, and reading a body outlives it by one read timeout
\* at the most: past the deadline, or past the last read that brought no piece
\* of the body, if that was later.  For the headers, and for reads that bring
\* none, the budget bounds nothing (TimeoutBudget, TransportTimeouts.from_budget,
\* _iter_mapped, whose docstring has one read past the deadline and no more).
BudgetBoundsTheFetch ==
    \A t \in Threads :
        /\ pc[t] \in Waiting => timer[t] <= left[t]
        /\ pc[t] = "body" => left[t] >= late[t] - ReadSeconds

\* A chain requests no URL twice, under any of its spellings, and is no longer
\* than max_hops allows (RedirectController.fetch, RedirectPolicy.evaluate).
ChainNeverLoops ==
    \A t \in Threads :
        /\ \A i, j \in DOMAIN visited[t] : visited[t][i] = visited[t][j] => i = j
        /\ Len(visited[t]) <= MaxHops + 1

\* The threads go on, and so does time: a sleep ends, a socket operation ends or
\* times out, and a thread that has a step left is scheduled.
Fairness ==
    /\ WF_vars(Tick)
    /\ \A t \in Threads : WF_vars(Acquire(t) \/ Exchange(t) \/ Retry(t) \/ Cancel(t))

FairSpec == Spec /\ Fairness

\* Every fetch ends, with slots that other threads hold, redirects that lead
\* back, refusals that invite a retry and a body that comes piece by piece,
\* unless its own server sends what is no piece of a body for ever.  A fetch of
\* another thread that does not end keeps its slots and stops nobody.
EveryFetchEnds ==
    \A t \in Threads :
        []<><<Drip(t)>>_vars \/ (pc[t] # "idle" ~> pc[t] = "idle")

=============================================================================
