----------------------------- MODULE CrawlRunner -----------------------------
(***************************************************************************)
(* The crawl of one source: worker processes that share the durable queue  *)
(* of discovered_urls and the crawl_jobs table (CrawlRunner, FrontierQueue *)
(* and Acquirer).                                                          *)
(*                                                                         *)
(* A variable of the first group is a committed table.  A worker handles   *)
(* one URL in one transaction: it loads the row and the job, flushes a     *)
(* first UPDATE of the row, which locks it until the transaction ends,     *)
(* then talks to the network, and commits the outcome.  A crash ends the   *)
(* transaction of the worker without a trace.                              *)
(***************************************************************************)
EXTENDS FrontierQueue, FiniteSets

CONSTANTS
    Workers,        \* processes that may crawl this source
    Pages,          \* URLs that is_document_url says are listing pages
    Documents,      \* URLs that it says are documents
    Links,          \* what each page links to
    Seeds,          \* strategy.seeds(source)
    Rank,           \* the claim order: depth, discovered_at, id
    BatchSize,      \* CrawlLimits.batch_size
    MaxDocuments,   \* CrawlLimits.max_documents
    MaxPages,       \* CrawlLimits.max_pages
    TimeLimited,    \* whether CrawlLimits.max_seconds is set
    DryRuns,        \* which processes may be started with --dry-run together
    BudgetTicks,    \* TimeoutPolicy.total_seconds, in ticks
    Prompt,         \* whether a process takes no time between its requests
    FetchTries,     \* RetryPolicy.max_attempts, within one acquisition
    Poison,         \* documents whose download kills the process
    Conflicting,    \* documents that may be served as bytes the corpus holds
                    \* under another size or format, as often as they are fetched
    Volatile,       \* URLs robots.txt may forbid to one run and allow to the next
    Jobs,           \* rows of crawl_jobs in use at a time
    CrashBudget,    \* bound: crashes in a behaviour
    StopBudget,     \* bound: shutdown signals in a behaviour
    RaceBudget,     \* bound: inserts of a new document lost to another process;
                    \* the next look-up finds the row of the winner
    NoWorker, NoJob, NoUrl

Urls == Pages \cup Documents

ASSUME CrawlAssumption ==
    /\ Pages \cap Documents = {}
    /\ Links \in [Pages -> SUBSET Urls]
    /\ Seeds \subseteq Urls
    /\ Poison \subseteq Documents
    /\ Conflicting \subseteq Documents
    /\ Volatile \subseteq Urls
    /\ Rank \in [Urls -> Nat]
    /\ \A u, v \in Urls : Rank[u] = Rank[v] => u = v
    /\ BatchSize \in Nat \ {0}
    /\ MaxDocuments \in Nat \ {0}
    /\ MaxPages \in Nat \ {0}
    /\ FetchTries \in Nat \ {0}
    /\ BudgetTicks \in 1..LeaseTicks
    /\ TimeLimited \in BOOLEAN
    /\ DryRuns \in SUBSET SUBSET Workers
    /\ Prompt \in BOOLEAN
    /\ CrashBudget \in Nat
    /\ StopBudget \in Nat
    /\ RaceBudget \in Nat
    /\ NoWorker \notin Workers
    /\ NoJob \notin Jobs
    /\ NoUrl \notin Urls

VARIABLES
    row,        \* discovered_urls
    job,        \* crawl_jobs
    lock,       \* the row locks PostgreSQL holds: which worker's transaction
    pc,         \* where each worker is
    myjob,      \* the job of its run
    denied,     \* what robots.txt forbids, as its RobotsGate caches it
    batch,      \* URLs claimed and not handled yet
    cur,        \* the URL being handled
    mine,       \* the row as its session loaded or last flushed it
    tally,      \* the job as its session loaded it
    spent,      \* ticks used of the budget of the request in progress
    progressed, \* whether the batch held anything new
    inspected,  \* documents a dry run has reported
    stopping,   \* whether a shutdown was signalled
    verdict,    \* how the run ended
    dry,        \* CrawlLimits.dry_run: the processes started with --dry-run
    crashes, stops, races, \* how much of the bounds is used
    holder,     \* history: the live run each lease comes from
    made,       \* history: acquisitions and page reads committed for each job
    kills       \* history: crashes in the middle of a request for each URL

tables == <<row, job, lock>>
session == <<cur, mine, tally, spent>>
run == <<myjob, denied, batch, progressed, inspected, verdict>>
world == <<dry, crashes, stops, races>>
history == <<holder, made, kills>>
vars == <<tables, pc, session, run, stopping, world, history>>

\* The columns of CrawlJob the runner decides by: docs is the sum of the four
\* documents_* counters, pages the number in the checkpoint.
Counts == [docs: Nat, pages: Nat]
JobRow == [status: {"none", "running", "succeeded", "cancelled", "failed"},
           docs: Nat, pages: Nat]

NewJob == [status |-> "running", docs |-> 0, pages |-> 0]
NoCounts == [docs |-> 0, pages |-> 0]

Init ==
    /\ row = [u \in Urls |-> Absent]
    /\ job = [j \in Jobs |-> [NewJob EXCEPT !.status = "none"]]
    /\ lock = [u \in Urls |-> NoWorker]
    /\ pc = [w \in Workers |-> "idle"]
    /\ myjob = [w \in Workers |-> NoJob]
    /\ denied = [w \in Workers |-> {}]
    /\ batch = [w \in Workers |-> {}]
    /\ cur = [w \in Workers |-> NoUrl]
    /\ mine = [w \in Workers |-> Absent]
    /\ tally = [w \in Workers |-> NoCounts]
    /\ spent = [w \in Workers |-> 0]
    /\ progressed = [w \in Workers |-> FALSE]
    /\ inspected = [w \in Workers |-> {}]
    /\ stopping = [w \in Workers |-> FALSE]
    /\ dry \in DryRuns
    /\ verdict = [w \in Workers |-> "none"]
    /\ crashes = 0
    /\ stops = 0
    /\ races = 0
    /\ holder = [u \in Urls |-> NoWorker]
    /\ made = [j \in Jobs |-> NoCounts]
    /\ kills = [u \in Urls |-> 0]

Goto(w, label) == pc' = [pc EXCEPT ![w] = label]

-----------------------------------------------------------------------------
(* Opening a run *)

\* _open_job, resuming: a running job of the source is taken over.
ResumeJob(w) ==
    /\ pc[w] = "idle"
    /\ \E j \in Jobs :
        /\ job[j].status = "running"
        /\ myjob' = [myjob EXCEPT ![w] = j]
    /\ Goto(w, "seeding")
    /\ UNCHANGED <<tables, session, denied, batch, progressed, inspected,
                   verdict, stopping, world, history>>

\* _open_job, first half: the SELECT found none.
FindNoJob(w) ==
    /\ pc[w] = "idle"
    /\ \A j \in Jobs : job[j].status # "running"
    /\ Goto(w, "opening")
    /\ UNCHANGED <<tables, session, run, stopping, world, history>>

\* _open_job, second half: the INSERT.  A closed job that no worker refers to
\* gives its place to the new one.
OpenJob(w) ==
    /\ pc[w] = "opening"
    /\ \E j \in Jobs :
        /\ job[j].status # "running"
        /\ \A x \in Workers : myjob[x] # j
        /\ job' = [job EXCEPT ![j] = NewJob]
        /\ made' = [made EXCEPT ![j] = NoCounts]
        /\ myjob' = [myjob EXCEPT ![w] = j]
    /\ Goto(w, "seeding")
    /\ UNCHANGED <<row, lock, session, denied, batch, progressed, inspected,
                   verdict, stopping, world, holder, kills>>

\* _seed and reclaim_expired, in one transaction: the seeds robots.txt permits
\* are queued, the checkpoint is replaced, expired downloads are recovered.
Seed(w) ==
    /\ pc[w] = "seeding"
    /\ \E forbidden \in SUBSET Volatile :
        /\ denied' = [denied EXCEPT ![w] = forbidden]
        /\ row' = ReclaimExpired(Enqueue(row, Seeds \ forbidden))
    /\ job' = [job EXCEPT ![myjob[w]].pages = 0]
    /\ Goto(w, "loop")
    /\ UNCHANGED <<lock, session, myjob, batch, progressed, inspected, verdict,
                   stopping, world, history>>

-----------------------------------------------------------------------------
(* The loop *)

\* _limit_reached, but for the clock
LimitReached(w) ==
    \/ job[myjob[w]].docs >= MaxDocuments
    \/ job[myjob[w]].pages >= MaxPages

\* The exits at the head of the loop.
Stop(w) ==
    /\ pc[w] = "loop"
    /\ \/ /\ stopping[w]
          /\ verdict' = [verdict EXCEPT ![w] = "cancelled"]
       \/ /\ ~stopping[w]
          /\ LimitReached(w) \/ TimeLimited
          /\ verdict' = [verdict EXCEPT ![w] = "succeeded"]
    /\ Goto(w, "closing")
    /\ UNCHANGED <<tables, session, myjob, denied, batch, progressed, inspected,
                   stopping, world, history>>

\* The rows the claim query returns: SKIP LOCKED passes over locked ones.
Available == {u \in Urls : Claimable(row[u]) /\ lock[u] = NoWorker}

\* ORDER BY ... LIMIT
FirstOf(S) ==
    {u \in S : Cardinality({v \in S : Rank[v] < Rank[u]}) < BatchSize}

\* claim, committed at once
Claim(w) ==
    /\ pc[w] = "loop"
    /\ ~stopping[w] /\ ~LimitReached(w)
    /\ Available # {}
    /\ LET taken == FirstOf(Available) IN
        /\ row' = [u \in Urls |-> IF u \in taken THEN Lease(row[u]) ELSE row[u]]
        /\ holder' = [u \in Urls |-> IF u \in taken THEN w ELSE holder[u]]
        /\ batch' = [batch EXCEPT ![w] = taken]
    /\ progressed' = [progressed EXCEPT ![w] = FALSE]
    /\ Goto(w, "batch")
    /\ UNCHANGED <<job, lock, session, myjob, denied, inspected, verdict,
                   stopping, world, made, kills>>

\* Mutant: the reason to stop is not returned.
DrainedSilently(w) ==
    /\ pc[w] = "loop"
    /\ ~stopping[w] /\ ~LimitReached(w)
    /\ Available = {}
    /\ Goto(w, "closing")
    /\ UNCHANGED <<tables, session, run, stopping, world, history>>

\* Nothing to claim: FRONTIER_DRAINED.
Drained(w) ==
    /\ pc[w] = "loop"
    /\ ~stopping[w] /\ ~LimitReached(w)
    /\ Available = {}
    /\ verdict' = [verdict EXCEPT ![w] = "succeeded"]
    /\ Goto(w, "closing")
    /\ UNCHANGED <<tables, session, myjob, denied, batch, progressed, inspected,
                   stopping, world, history>>

\* The end of a batch: again, or out when a dry run had reported all of it.
EndBatch(w) ==
    /\ pc[w] = "batch"
    /\ batch[w] = {}
    /\ \/ /\ progressed[w]
          /\ Goto(w, "loop")
          /\ UNCHANGED verdict
       \/ /\ ~progressed[w]
          /\ verdict' = [verdict EXCEPT ![w] = "succeeded"]
          /\ Goto(w, "closing")
    /\ UNCHANGED <<tables, session, myjob, denied, batch, progressed, inspected,
                   stopping, world, history>>

\* The row of the batch whose turn it is
Turn(w, u) == u \in batch[w] /\ \A v \in batch[w] : Rank[u] <= Rank[v]

\* continue: a document this dry run has reported before
AlreadyInspected(w, u) == w \in dry /\ u \in Documents /\ u \in inspected[w]

\* _give_back_all, at a limit or at a shutdown: one transaction over the rest
\* of the batch, which waits for the locks of others.
GiveBackAll(w) ==
    /\ pc[w] = "batch"
    /\ \E u \in Urls :
        /\ Turn(w, u)
        /\ \/ /\ LimitReached(w) \/ TimeLimited
              /\ verdict' = [verdict EXCEPT ![w] = "succeeded"]
           \/ /\ ~LimitReached(w)
              /\ stopping[w] /\ ~AlreadyInspected(w, u)
              /\ verdict' = [verdict EXCEPT ![w] = "cancelled"]
    /\ \A v \in batch[w] : lock[v] = NoWorker
    /\ row' = [v \in Urls |-> IF v \in batch[w] THEN Release(row[v]) ELSE row[v]]
    /\ holder' = [v \in Urls |-> IF v \in batch[w] /\ row'[v].lease = NoLease
                               THEN NoWorker ELSE holder[v]]
    /\ batch' = [batch EXCEPT ![w] = {}]
    /\ Goto(w, "closing")
    /\ UNCHANGED <<job, lock, session, myjob, denied, progressed, inspected,
                   stopping, world, made, kills>>

SkipInspected(w) ==
    /\ pc[w] = "batch"
    /\ ~LimitReached(w)
    /\ \E u \in Urls :
        /\ Turn(w, u) /\ AlreadyInspected(w, u)
        /\ batch' = [batch EXCEPT ![w] = @ \ {u}]
    /\ UNCHANGED <<tables, pc, session, myjob, denied, progressed, inspected,
                   verdict, stopping, world, history>>

-----------------------------------------------------------------------------
(* One URL, one transaction *)

\* Mutant: the job is loaded once for a batch.
CountersOfBatch(w) ==
    IF progressed[w] THEN tally[w]
    ELSE [docs |-> job[myjob[w]].docs, pages |-> job[myjob[w]].pages]

\* The counters of the job as the session loads them
Counters(w) == [docs |-> job[myjob[w]].docs, pages |-> job[myjob[w]].pages]

\* The head of _handle: the session loads the row and the job.
Handle(w) ==
    /\ pc[w] = "batch"
    /\ ~LimitReached(w) /\ ~stopping[w]
    /\ \E u \in Urls :
        /\ Turn(w, u) /\ ~AlreadyInspected(w, u)
        /\ cur' = [cur EXCEPT ![w] = u]
        /\ mine' = [mine EXCEPT ![w] = Loaded(row[u])]
        /\ inspected' = [inspected EXCEPT
                            ![w] = IF w \in dry THEN @ \cup ({u} \cap Documents) ELSE @]
    /\ tally' = [tally EXCEPT ![w] = Counters(w)]
    /\ progressed' = [progressed EXCEPT ![w] = TRUE]
    /\ Goto(w, "handling")
    /\ UNCHANGED <<tables, spent, myjob, denied, batch, verdict, stopping,
                   world, history>>

\* The UPDATE and the commit that end a transaction: what changed of the row,
\* and the URLs it found.
Commit(w, final, found) ==
    LET u == cur[w] IN
    /\ row' = Enqueue([row EXCEPT ![u] = Flush(mine[w], final, row[u])], found)
    /\ lock' = [lock EXCEPT ![u] = NoWorker]
    /\ holder' = [holder EXCEPT
                    ![u] = IF row'[u].lease = NoLease THEN NoWorker ELSE @]
    /\ batch' = [batch EXCEPT ![w] = @ \ {u}]
    /\ cur' = [cur EXCEPT ![w] = NoUrl]
    /\ spent' = [spent EXCEPT ![w] = 0]
    /\ Goto(w, "batch")
    /\ UNCHANGED <<mine, tally, myjob, denied, progressed, inspected, verdict,
                   stopping, world, kills>>

\* _count_acquisition: every branch adds one to one of the four counters that
\* _limit_reached sums, over what the session loaded.
CountAcquisition(w) ==
    /\ job' = [job EXCEPT ![myjob[w]].docs = tally[w].docs + 1]
    /\ made' = [made EXCEPT ![myjob[w]].docs = @ + 1]

\* _pages_read, likewise.
CountPage(w) ==
    /\ job' = [job EXCEPT ![myjob[w]].pages = tally[w].pages + 1]
    /\ made' = [made EXCEPT ![myjob[w]].pages = @ + 1]

\* A flush waits while another transaction has the row.
Unlocked(w) == lock[cur[w]] = NoWorker

\* _refuse: robots.txt forbids it, so it is retired and never retried.
Refuse(w) ==
    /\ pc[w] = "handling"
    /\ cur[w] \in denied[w]
    /\ Unlocked(w)
    /\ Commit(w, Settle([mine[w] EXCEPT !.dead = TRUE]), {})
    /\ UNCHANGED <<job, made>>

Permitted(w) == pc[w] = "handling" /\ cur[w] \notin denied[w]

\* _would_fetch: a dry run defers the document by a second, which is a part of
\* a tick.
WouldFetch(w) ==
    /\ Permitted(w)
    /\ w \in dry /\ cur[w] \in Documents
    /\ Unlocked(w)
    /\ Commit(w, Defer(mine[w], 1), {})
    /\ UNCHANGED <<job, made>>

Held(r) == r.state = "downloaded" /\ r.document

\* acquire, early return: the document is held already.
AlreadyAcquired(w) ==
    /\ Permitted(w)
    /\ w \notin dry /\ cur[w] \in Documents
    /\ Held(mine[w])
    /\ Unlocked(w)
    /\ Commit(w, Settle(mine[w]), {})
    /\ CountAcquisition(w)

\* Mutant: nothing is flushed before the request.
BeginUnflushed(w) ==
    /\ Unlocked(w)
    /\ Goto(w, "fetching")
    /\ UNCHANGED <<tables, cur, tally, spent, run, stopping, world, history>>

\* _begin flushes DOWNLOADING and a page read flushes last_attempted_at, both
\* before the request: the row is locked from here to the commit.
BeginRequest(w) ==
    /\ Unlocked(w)
    /\ lock' = [lock EXCEPT ![cur[w]] = w]
    /\ Goto(w, "fetching")
    /\ UNCHANGED <<row, job, cur, tally, spent, run, stopping, world, history>>

BeginDownload(w) ==
    /\ Permitted(w)
    /\ w \notin dry /\ cur[w] \in Documents
    /\ ~Held(mine[w])
    /\ CanTransition(mine[w].state, "downloading")
    /\ mine' = [mine EXCEPT ![w].state = "downloading"]
    /\ BeginRequest(w)

BeginPage(w) ==
    /\ Permitted(w)
    /\ cur[w] \in Pages
    /\ BeginRequest(w)
    /\ UNCHANGED mine

\* An exception _handle does not catch rolls its transaction back and ends the
\* run; the leases of the batch stay.
Abort(w) ==
    /\ lock' = [u \in Urls |-> IF lock[u] = w THEN NoWorker ELSE lock[u]]
    /\ batch' = [batch EXCEPT ![w] = {}]
    /\ cur' = [cur EXCEPT ![w] = NoUrl]
    /\ spent' = [spent EXCEPT ![w] = 0]
    /\ verdict' = [verdict EXCEPT ![w] = "failed"]
    /\ Goto(w, "closing")
    /\ UNCHANGED <<row, job, mine, tally, myjob, denied, progressed, inspected,
                   stopping, dry, crashes, stops, history>>

\* _begin, assert_transition_allowed raises: another worker quarantined it.
IllegalTransition(w) ==
    /\ Permitted(w)
    /\ w \notin dry /\ cur[w] \in Documents
    /\ ~Held(mine[w])
    /\ ~CanTransition(mine[w].state, "downloading")
    /\ Abort(w)
    /\ UNCHANGED races

Downloading(w) == pc[w] = "fetching" /\ cur[w] \in Documents \ Poison
ReadingPage(w) == pc[w] = "fetching" /\ cur[w] \in Pages

\* acquire: fetched, stored and recorded.
Acquired(w) ==
    /\ Downloading(w)
    /\ \E tries \in 1..FetchTries :
        Commit(w, Settle([mine[w] EXCEPT !.state = "downloaded",
                                         !.document = TRUE,
                                         !.attempts = tries]), {})
    /\ CountAcquisition(w)

\* acquire, an exception out of record_retrieval: the corpus describes the same
\* bytes otherwise (ProvenanceConflictError), or another process has inserted
\* the document since the look-up (IntegrityError).  Nothing catches it before
\* run does, and no attempt is charged.
RecordFails(w) ==
    /\ Downloading(w)
    /\ \/ cur[w] \in Conflicting /\ UNCHANGED races
       \/ races < RaceBudget /\ races' = races + 1
    /\ Abort(w)

\* _quarantine: the content tripped a safety limit.
Quarantine(w) ==
    /\ Downloading(w)
    /\ Commit(w, Settle([mine[w] EXCEPT !.state = "quarantined",
                                        !.attempts = @ + 1]), {})
    /\ CountAcquisition(w)

\* Settled, and deferred unless it is exhausted.
SettleFailure(r) ==
    LET settled == Settle(r) IN
    IF Exhausted(r) THEN settled ELSE Defer(settled, Backoff(r.attempts))

\* _fail: the fetch or the object store failed.
FailDownload(w) ==
    /\ Downloading(w)
    /\ Commit(w, SettleFailure([mine[w] EXCEPT !.state = "failed",
                                               !.attempts = @ + 1]), {})
    /\ CountAcquisition(w)

\* FetchCancelledError: a shutdown interrupted the fetch's own backoff.  acquire
\* restores the state and raises through _handle.
CancelDownload(w) ==
    /\ Downloading(w)
    /\ stopping[w]
    /\ Abort(w)
    /\ UNCHANGED races

\* _read_page: the permitted links are queued and the page retired.
ReadPage(w) ==
    /\ ReadingPage(w)
    /\ Commit(w, Settle([mine[w] EXCEPT !.dead = TRUE]),
              Links[cur[w]] \ denied[w])
    /\ CountPage(w)

\* Mutant: a page that cannot be read costs no attempt.
FailPageFree(w) ==
    /\ ReadingPage(w)
    /\ Commit(w, SettleFailure([mine[w] EXCEPT !.state = "failed"]), {})
    /\ UNCHANGED <<job, made>>

\* _read_page: the portal did not answer with the page.
FailPage(w) ==
    /\ ReadingPage(w)
    /\ Commit(w, SettleFailure([mine[w] EXCEPT !.state = "failed",
                                               !.attempts = @ + 1]), {})
    /\ UNCHANGED <<job, made>>

-----------------------------------------------------------------------------
(* The end of a run, and the world outside *)

\* What a process that ends forgets; its claims have no live run any more.
Forget(w) ==
    /\ myjob' = [myjob EXCEPT ![w] = NoJob]
    /\ denied' = [denied EXCEPT ![w] = {}]
    /\ batch' = [batch EXCEPT ![w] = {}]
    /\ cur' = [cur EXCEPT ![w] = NoUrl]
    /\ mine' = [mine EXCEPT ![w] = Absent]
    /\ tally' = [tally EXCEPT ![w] = NoCounts]
    /\ spent' = [spent EXCEPT ![w] = 0]
    /\ progressed' = [progressed EXCEPT ![w] = FALSE]
    /\ inspected' = [inspected EXCEPT ![w] = {}]
    /\ stopping' = [stopping EXCEPT ![w] = FALSE]
    /\ verdict' = [verdict EXCEPT ![w] = "none"]
    /\ lock' = [u \in Urls |-> IF lock[u] = w THEN NoWorker ELSE lock[u]]
    /\ holder' = [u \in Urls |-> IF holder[u] = w THEN NoWorker ELSE holder[u]]
    /\ Goto(w, "idle")
    /\ UNCHANGED <<row, made>>

\* _close_job
CloseJob(w) ==
    /\ pc[w] = "closing"
    /\ job' = [job EXCEPT ![myjob[w]].status = verdict[w]]
    /\ Forget(w)
    /\ UNCHANGED <<world, kills>>

\* The process dies; a poisoned download is certain to kill it.
Crash(w) ==
    /\ pc[w] # "idle"
    /\ crashes < CrashBudget
    /\ crashes' = crashes + 1
    /\ kills' = [u \in Urls |-> IF pc[w] = "fetching" /\ u = cur[w]
                                THEN kills[u] + 1 ELSE kills[u]]
    /\ Forget(w)
    /\ UNCHANGED <<job, stops, races, dry>>

\* SIGTERM or SIGINT
Signal(w) ==
    /\ pc[w] # "idle"
    /\ ~stopping[w]
    /\ stops < StopBudget
    /\ stops' = stops + 1
    /\ stopping' = [stopping EXCEPT ![w] = TRUE]
    /\ UNCHANGED <<tables, pc, session, run, crashes, races, dry, history>>

\* A process that is between two requests and waits for nobody
Busy(w) == \/ pc[w] \notin {"idle", "handling", "fetching"}
           \/ pc[w] = "handling" /\ Unlocked(w)

\* A tick passes for every timer; a request ends within its budget.
Tick ==
    /\ Prompt => \A w \in Workers : ~Busy(w)
    /\ \A w \in Workers : pc[w] = "fetching" => spent[w] < BudgetTicks
    /\ row' = [u \in Urls |->
                [row[u] EXCEPT !.lease = IF @ > 0 THEN @ - 1 ELSE @,
                               !.wait = IF @ > 0 THEN @ - 1 ELSE @]]
    /\ spent' = [w \in Workers |->
                    IF pc[w] = "fetching" THEN spent[w] + 1 ELSE spent[w]]
    /\ UNCHANGED <<job, lock, pc, cur, mine, tally, run, stopping, world, history>>

-----------------------------------------------------------------------------

Open(w) == ResumeJob(w) \/ FindNoJob(w) \/ OpenJob(w) \/ Seed(w)
Loop(w) == \/ Stop(w) \/ Claim(w) \/ Drained(w) \/ EndBatch(w)
           \/ GiveBackAll(w) \/ SkipInspected(w) \/ Handle(w)
Transact(w) == \/ Refuse(w) \/ WouldFetch(w) \/ AlreadyAcquired(w)
               \/ BeginDownload(w) \/ BeginPage(w) \/ IllegalTransition(w)
               \/ Acquired(w) \/ RecordFails(w) \/ Quarantine(w) \/ FailDownload(w)
               \/ CancelDownload(w) \/ ReadPage(w) \/ FailPage(w)

\* What a running process does of its own accord.
Step(w) == Open(w) \/ Loop(w) \/ Transact(w) \/ CloseJob(w)

Next ==
    \/ \E w \in Workers : Step(w) \/ Crash(w) \/ Signal(w)
    \/ Tick

Spec == Init /\ [][Next]_vars

\* A process that can go on does, an operator starts a run whenever none is
\* going, and time passes.
Fairness == WF_vars(Tick) /\ \A w \in Workers : WF_vars(Step(w))

FairSpec == Spec /\ Fairness

-----------------------------------------------------------------------------
(* Properties *)

\* Every variable has its type.
TypeOK ==
    /\ row \in [Urls -> Row]
    /\ job \in [Jobs -> JobRow]
    /\ lock \in [Urls -> Workers \cup {NoWorker}]
    /\ pc \in [Workers -> {"idle", "opening", "seeding", "loop", "batch",
                           "handling", "fetching", "closing"}]
    /\ myjob \in [Workers -> Jobs \cup {NoJob}]
    /\ \A w \in Workers :
        /\ pc[w] \notin {"idle", "opening"} => myjob[w] \in Jobs
        /\ pc[w] \in {"handling", "fetching"} => cur[w] \in Urls
        /\ pc[w] = "closing" => verdict[w] # "none"
    /\ denied \in [Workers -> SUBSET Urls]
    /\ batch \in [Workers -> SUBSET Urls]
    /\ cur \in [Workers -> Urls \cup {NoUrl}]
    /\ mine \in [Workers -> SessionRow]
    /\ tally \in [Workers -> Counts]
    /\ spent \in [Workers -> Nat]
    /\ progressed \in [Workers -> BOOLEAN]
    /\ inspected \in [Workers -> SUBSET Documents]
    /\ stopping \in [Workers -> BOOLEAN]
    /\ dry \in SUBSET Workers
    /\ verdict \in [Workers -> {"none", "succeeded", "cancelled", "failed"}]
    /\ crashes \in Nat
    /\ stops \in Nat
    /\ races \in Nat
    /\ holder \in [Urls -> Workers \cup {NoWorker}]
    /\ made \in [Jobs -> Counts]
    /\ kills \in [Urls -> Nat]

\* No two workers are ever in the middle of a request for the same URL, even
\* when a lease has run out under one of them: a worker flushes the row before
\* it fetches, and SKIP LOCKED and the second flush wait for the first commit
\* (FrontierQueue.claim, Acquirer._begin).
OneRequestPerUrl ==
    \A v, w \in Workers :
        pc[v] = "fetching" /\ pc[w] = "fetching" /\ cur[v] = cur[w] => v = w

\* A URL that has failed as often as it may is dead-lettered, so that it is
\* either still claimable or listed for an operator and never in between,
\* whatever a worker with a stale copy of the row writes (settle).
ExhaustedIsListed ==
    \A u \in Urls :
        row[u].state = "failed" /\ row[u].attempts >= MaxAttempts => row[u].dead

\* What is dead-lettered is never handed back to the queue (settle, _retire,
\* and the CASE of reclaim_expired that would clear the column).
DeadLetterIsFinal == [][\A u \in Urls : row[u].dead => row'[u].dead]_vars

Final(r) == r.state \in {"downloaded", "quarantined"} \/ r.dead

\* What the queue has come to for one URL
StatusOf(r) ==
    CASE r.state = "absent" -> "unknown"
      [] r.state = "downloaded" -> "acquired"
      [] r.state = "quarantined" -> "quarantined"
      [] OTHER -> IF ~r.dead THEN "pending"
                  ELSE IF Exhausted(r) THEN "exhausted" ELSE "retired"

Delivery == INSTANCE UrlDelivery WITH
    status <- [u \in Urls |-> StatusOf(row[u])],
    tries <- [u \in Urls |->
                IF StatusOf(row[u]) \in {"pending", "exhausted"}
                THEN row[u].attempts ELSE 0]

\* With one process per source the crawl implements the promise of the queue:
\* through crashes, resumed runs, shutdowns and limits every attempt that was
\* committed is charged, a URL is tried MaxAttempts times at the most, and
\* what was acquired, quarantined, retired or given up stays that way.
ImplementsDelivery == Delivery!Spec

\* The counters of a job say how many acquisitions were committed under it: the
\* claim, the acquisition and the counters are one transaction, so a crash at
\* any point loses both or neither (ADR 0012, _count_acquisition).
CountersAreExact == \A j \in Jobs : job[j].docs = made[j].docs

\* A real run that ends without an exception leaves no lease of its own behind,
\* on no URL, whatever other processes did to the queue in the meantime
\* (_give_back_all, settle, release).  A dry run does: the continue for what it
\* has reported before keeps the lease that claim has just written.
ClosedRunHoldsNoLease ==
    \A w \in Workers \ dry : \A u \in Urls :
        pc[w] = "closing" /\ verdict[w] # "failed" => holder[u] # w

\* A process that a URL kills every time is killed by it MaxAttempts times at
\* the most (reclaim_expired).
PoisonIsBounded == \A u \in Urls : kills[u] <= MaxAttempts

\* A document whose bytes cannot be recorded aborts every run that comes to it
\* and is charged nothing, so it may stay in the queue for ever, and so may what
\* is claimed after it: the run ends before their turn, and their leases run
\* out together with its own.
HeldUp(u) ==
    \E c \in Conflicting : Rank[c] <= Rank[u] /\ row[c].state # "absent"

\* Every URL the source has queued comes to an end: acquired, quarantined, or
\* listed as retired or exhausted, as long as runs are started and no run is
\* interrupted for ever, unless a document that cannot be recorded holds it up:
\* one that does never keeps back what is claimed before it (_handle, run).
EveryUrlSettles ==
    \A u \in Urls : row[u].state # "absent" ~> Final(row[u]) \/ HeldUp(u)

=============================================================================
