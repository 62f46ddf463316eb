-------------------------- MODULE CrawlRunnerProofs --------------------------
(***************************************************************************)
(* What holds of the crawl for any number of workers, URLs and jobs, any   *)
(* limits, and however often processes crash.                              *)
(***************************************************************************)
EXTENDS CrawlRunner, TLAPS

-----------------------------------------------------------------------------
(* The row operators *)

LEMMA BackoffType == ASSUME NEW n \in Nat PROVE Backoff(n) \in Nat
<1>1. ASSUME NEW x PROVE (IF x \in 0..CeilingTicks THEN x ELSE CeilingTicks) \in Nat
  BY QueueAssumption
<1>2. QED
  BY <1>1, Zenon DEF Backoff

LEMMA EnqueueType ==
    ASSUME NEW rows \in [Urls -> Row], NEW found
    PROVE  Enqueue(rows, found) \in [Urls -> Row]
BY DEF Enqueue, Row, Fresh, Absent, DocumentState, NoLease

LEMMA ReclaimType ==
    ASSUME NEW rows \in [Urls -> Row]
    PROVE  ReclaimExpired(rows) \in [Urls -> Row]
<1>1. ASSUME NEW r \in Row, NEW b \in BOOLEAN, NEW n \in Nat
      PROVE  [r EXCEPT !.state = "failed", !.attempts = n, !.lease = NoLease,
                       !.dead = b] \in Row
  BY DEF Row, DocumentState, NoLease
<1>2. ASSUME NEW r \in Row
      PROVE  r.attempts + 1 \in Nat /\ (r.attempts + 1 >= MaxAttempts) \in BOOLEAN
  BY DEF Row
<1>3. \A r \in Row : [r EXCEPT !.state = "failed", !.attempts = @ + 1,
                               !.lease = NoLease,
                               !.dead = (r.attempts + 1 >= MaxAttempts)] \in Row
  BY <1>1, <1>2
<1>4. QED
  BY <1>3 DEF ReclaimExpired

LEMMA FlushType ==
    ASSUME NEW loaded \in SessionRow, NEW final \in SessionRow, NEW r \in Row,
           final.wait \in Nat \/ final.wait = loaded.wait
    PROVE  Flush(loaded, final, r) \in Row
BY DEF Flush, Row, SessionRow

LEMMA LeaseType ==
    ASSUME NEW r \in Row
    PROVE  Lease(r) \in Row /\ Release(r) \in Row /\ Loaded(r) \in SessionRow
BY QueueAssumption DEF Lease, Release, Loaded, Row, SessionRow, NoLease, Untouched

\* What a handler may set on its copy of the row.
LEMMA OutcomeType ==
    ASSUME NEW r \in SessionRow, NEW s \in DocumentState, NEW n \in Nat,
           NEW b \in BOOLEAN
    PROVE  /\ [r EXCEPT !.dead = TRUE] \in SessionRow
           /\ [r EXCEPT !.state = s] \in SessionRow
           /\ [r EXCEPT !.state = s, !.attempts = n] \in SessionRow
           /\ [r EXCEPT !.state = s, !.document = TRUE, !.attempts = n] \in SessionRow
BY DEF SessionRow, DocumentState

LEMMA SettleType ==
    ASSUME NEW r \in SessionRow
    PROVE  /\ Settle(r) \in SessionRow
           /\ Settle(r).wait = r.wait
BY DEF Settle, Exhausted, SessionRow, NoLease

LEMMA DeferType ==
    ASSUME NEW r \in SessionRow, NEW n \in Nat
    PROVE  /\ Defer(r, n) \in SessionRow
           /\ Defer(r, n).wait = n
BY DEF Defer, SessionRow, NoLease

LEMMA SettleFailureType ==
    ASSUME NEW r \in SessionRow
    PROVE  /\ SettleFailure(r) \in SessionRow
           /\ SettleFailure(r).wait \in Nat \/ SettleFailure(r).wait = r.wait
<1>1. Backoff(r.attempts) \in Nat
  BY BackoffType DEF SessionRow
<1>2. QED
  BY <1>1, SettleType, DeferType DEF SettleFailure

\* The failure of one attempt, as FailDownload and FailPage write it.
LEMMA ChargeType ==
    ASSUME NEW r \in SessionRow, NEW s \in DocumentState
    PROVE  /\ [r EXCEPT !.state = s, !.attempts = @ + 1] \in SessionRow
           /\ [r EXCEPT !.state = s, !.attempts = @ + 1].wait = r.wait
<1>1. r.attempts + 1 \in Nat
  BY DEF SessionRow
<1>2. QED
  BY <1>1, OutcomeType DEF SessionRow

-----------------------------------------------------------------------------
(* Every variable has its type *)

LEMMA CommitType ==
    ASSUME TypeOK, NEW w \in Workers, NEW final \in SessionRow, NEW found,
           final.wait \in Nat \/ final.wait = mine[w].wait,
           pc[w] \in {"handling", "fetching"},
           Commit(w, final, found),
           job' \in [Jobs -> JobRow], made' \in [Jobs -> Counts]
    PROVE  TypeOK'
<1>1. cur[w] \in Urls /\ mine[w] \in SessionRow /\ row \in [Urls -> Row]
  BY DEF TypeOK
<1>2. row' \in [Urls -> Row]
  <2>1. Flush(mine[w], final, row[cur[w]]) \in Row
    BY <1>1, FlushType
  <2>2. [row EXCEPT ![cur[w]] = Flush(mine[w], final, row[cur[w]])] \in [Urls -> Row]
    BY <1>1, <2>1
  <2>3. QED
    BY <2>2, EnqueueType DEF Commit
<1>3. lock' \in [Urls -> Workers \cup {NoWorker}]
  BY <1>1 DEF TypeOK, Commit
<1>4. holder' \in [Urls -> Workers \cup {NoWorker}]
  BY <1>1 DEF TypeOK, Commit
<1>5. /\ batch' \in [Workers -> SUBSET Urls]
      /\ cur' \in [Workers -> Urls \cup {NoUrl}]
      /\ spent' \in [Workers -> Nat]
  BY DEF TypeOK, Commit
<1>6. /\ pc' = [pc EXCEPT ![w] = "batch"]
      /\ cur' = [cur EXCEPT ![w] = NoUrl]
      /\ UNCHANGED <<mine, tally, myjob, denied, progressed, inspected, verdict,
                     stopping, dry, crashes, stops, races, kills>>
  BY DEF Commit, Goto, world
<1>7. \A x \in Workers :
        /\ pc'[x] \notin {"idle", "opening"} => myjob'[x] \in Jobs
        /\ pc'[x] \in {"handling", "fetching"} => cur'[x] \in Urls
        /\ pc'[x] = "closing" => verdict'[x] # "none"
  BY <1>6 DEF TypeOK
<1>8. QED
  BY <1>2, <1>3, <1>4, <1>5, <1>6, <1>7 DEF TypeOK

LEMMA CountersType ==
    ASSUME TypeOK, NEW w \in Workers, pc[w] \notin {"idle", "opening"},
           CountAcquisition(w) \/ (pc[w] = "fetching" /\ cur[w] \in Pages /\ CountPage(w))
                               \/ UNCHANGED <<job, made>>
    PROVE  /\ job' \in [Jobs -> JobRow]
           /\ made' \in [Jobs -> Counts]
<1>1. /\ myjob[w] \in Jobs
      /\ tally[w].docs + 1 \in Nat /\ tally[w].pages + 1 \in Nat
      /\ made[myjob[w]].docs + 1 \in Nat /\ made[myjob[w]].pages + 1 \in Nat
  BY DEF TypeOK, Counts
<1> DEFINE j == myjob[w]
<1>a. job \in [Jobs -> JobRow] /\ made \in [Jobs -> Counts]
  BY DEF TypeOK
<1>b. \A n \in Nat : [job EXCEPT ![j].docs = n] \in [Jobs -> JobRow] /\ [job EXCEPT ![j].pages = n] \in [Jobs -> JobRow]
  BY <1>1, <1>a DEF JobRow, Counts
<1>c. /\ [made EXCEPT ![j].docs = @ + 1] \in [Jobs -> Counts]
      /\ [made EXCEPT ![j].pages = @ + 1] \in [Jobs -> Counts]
  <2>1. \A n \in Nat : [made EXCEPT ![j].docs = n] \in [Jobs -> Counts] /\ [made EXCEPT ![j].pages = n] \in [Jobs -> Counts]
    BY <1>1, <1>a DEF JobRow, Counts
  <2>2. QED
    BY <1>1, <2>1
<1>2. CASE CountAcquisition(w)
  BY <1>1, <1>2, <1>a, <1>b, <1>c DEF CountAcquisition
<1>3. CASE cur[w] \in Pages /\ CountPage(w)
  BY <1>1, <1>3, <1>a, <1>b, <1>c DEF CountPage
<1>4. CASE UNCHANGED <<job, made>>
  BY <1>4 DEF TypeOK
<1>5. QED
  BY <1>2, <1>3, <1>4

LEMMA InitType == Init => TypeOK
<1> SUFFICES ASSUME Init PROVE TypeOK
  OBVIOUS
<1>1. dry \in SUBSET Workers
  BY CrawlAssumption DEF Init
<1>2. /\ row \in [Urls -> Row]
      /\ job \in [Jobs -> JobRow]
      /\ mine \in [Workers -> SessionRow]
      /\ tally \in [Workers -> Counts]
      /\ made \in [Jobs -> Counts]
  BY DEF Init, Row, SessionRow, JobRow, Counts, NewJob, NoCounts, Absent, NoLease,
         Untouched, DocumentState
<1>3. QED
  BY <1>1, <1>2 DEF Init, TypeOK

LEMMA ForgetType ==
    ASSUME TypeOK, NEW w \in Workers, Forget(w), job' \in [Jobs -> JobRow],
           crashes' \in Nat, stops' \in Nat, races' \in Nat,
           kills' \in [Urls -> Nat],
           UNCHANGED dry
    PROVE  TypeOK'
<1>1. /\ mine' \in [Workers -> SessionRow]
      /\ tally' \in [Workers -> Counts]
  BY DEF TypeOK, Forget, SessionRow, Counts, Absent, NoCounts, NoLease, Untouched,
         DocumentState
<1>2. /\ row' \in [Urls -> Row]
      /\ made' \in [Jobs -> Counts]
  BY DEF TypeOK, Forget
<1>3. /\ lock' \in [Urls -> Workers \cup {NoWorker}]
      /\ holder' \in [Urls -> Workers \cup {NoWorker}]
  BY DEF TypeOK, Forget
<1>4. /\ myjob' \in [Workers -> Jobs \cup {NoJob}]
      /\ denied' \in [Workers -> SUBSET Urls]
      /\ batch' \in [Workers -> SUBSET Urls]
      /\ cur' \in [Workers -> Urls \cup {NoUrl}]
      /\ spent' \in [Workers -> Nat]
      /\ progressed' \in [Workers -> BOOLEAN]
      /\ inspected' \in [Workers -> SUBSET Documents]
      /\ stopping' \in [Workers -> BOOLEAN]
      /\ dry' \in SUBSET Workers
  BY DEF TypeOK, Forget
<1>5. /\ pc' \in [Workers -> {"idle", "opening", "seeding", "loop", "batch",
                              "handling", "fetching", "closing"}]
      /\ verdict' \in [Workers -> {"none", "succeeded", "cancelled", "failed"}]
      /\ \A x \in Workers :
          /\ pc'[x] \notin {"idle", "opening"} => myjob'[x] \in Jobs
          /\ pc'[x] \in {"handling", "fetching"} => cur'[x] \in Urls
          /\ pc'[x] = "closing" => verdict'[x] # "none"
  BY DEF TypeOK, Forget, Goto
<1>6. QED
  BY <1>1, <1>2, <1>3, <1>4, <1>5 DEF TypeOK

LEMMA AbortType ==
    ASSUME TypeOK, NEW w \in Workers, Abort(w), pc[w] \in {"handling", "fetching"},
           races' \in Nat
    PROVE  TypeOK'
BY DEF TypeOK, Abort, Goto, history

LEMMA OpenType == ASSUME TypeOK, NEW w \in Workers, Open(w) PROVE TypeOK'
<1>1. CASE ResumeJob(w)
  BY <1>1 DEF TypeOK, ResumeJob, Goto, tables, session, world, history
<1>2. CASE FindNoJob(w)
  BY <1>2 DEF TypeOK, FindNoJob, Goto, tables, session, run, world, history
<1>3. CASE OpenJob(w)
  <2>1. job' \in [Jobs -> JobRow] /\ made' \in [Jobs -> Counts]
    BY <1>3 DEF TypeOK, OpenJob, NewJob, NoCounts, JobRow, Counts
  <2>2. QED
    BY <1>3, <2>1 DEF TypeOK, OpenJob, Goto, session, world
<1>4. CASE Seed(w)
  <2>1. job' \in [Jobs -> JobRow]
    <3>1. job \in [Jobs -> JobRow] /\ job' = [job EXCEPT ![myjob[w]].pages = 0]
      BY <1>4 DEF TypeOK, Seed
    <3>2. \A j \in Jobs : [job[j] EXCEPT !.pages = 0] \in JobRow
      BY <3>1 DEF JobRow
    <3>3. QED
      BY <3>1, <3>2
  <2>2. row' \in [Urls -> Row]
    <3>1. PICK forbidden \in SUBSET Volatile :
              row' = ReclaimExpired(Enqueue(row, Seeds \ forbidden))
      BY <1>4 DEF Seed
    <3>2. row \in [Urls -> Row] /\ Seeds \ forbidden \in SUBSET Urls
      BY CrawlAssumption DEF TypeOK
    <3> QED
      BY <3>1, <3>2, EnqueueType, ReclaimType
  <2>3. denied' \in [Workers -> SUBSET Urls]
    BY <1>4, CrawlAssumption DEF TypeOK, Seed
  <2>4. /\ pc[w] = "seeding" /\ pc' = [pc EXCEPT ![w] = "loop"]
        /\ UNCHANGED <<lock, cur, mine, tally, spent, myjob, batch, progressed,
                       inspected, verdict, stopping, dry, crashes, stops, races, holder, made,
                       kills>>
    BY <1>4 DEF Seed, Goto, session, world, history
  <2>5. QED
    BY <2>1, <2>2, <2>3, <2>4 DEF TypeOK
<1>5. QED
  BY <1>1, <1>2, <1>3, <1>4 DEF Open

LEMMA LoopType == ASSUME TypeOK, NEW w \in Workers, Loop(w) PROVE TypeOK'
<1>1. CASE Stop(w)
  BY <1>1 DEF TypeOK, Stop, Goto, tables, session, world, history
<1>2. CASE Claim(w)
  <2>1. row' \in [Urls -> Row]
    <3>1. \A u \in Urls : Lease(row[u]) \in Row
      BY LeaseType DEF TypeOK
    <3>2. QED
      BY <1>2, <3>1 DEF TypeOK, Claim
  <2>2. FirstOf(Available) \subseteq Urls
    BY DEF FirstOf, Available
  <2>3. /\ batch' \in [Workers -> SUBSET Urls]
        /\ holder' \in [Urls -> Workers \cup {NoWorker}]
    BY <1>2, <2>2 DEF TypeOK, Claim
  <2>4. /\ pc[w] = "loop" /\ pc' = [pc EXCEPT ![w] = "batch"]
        /\ progressed' = [progressed EXCEPT ![w] = FALSE]
        /\ UNCHANGED <<job, lock, cur, mine, tally, spent, myjob, denied, inspected,
                       verdict, stopping, dry, crashes, stops, races, made, kills>>
    BY <1>2 DEF Claim, Goto, session, world
  <2>5. QED
    BY <2>1, <2>3, <2>4 DEF TypeOK
<1>3. CASE Drained(w)
  BY <1>3 DEF TypeOK, Drained, Goto, tables, session, world, history
<1>4. CASE EndBatch(w)
  BY <1>4 DEF TypeOK, EndBatch, Goto, tables, session, world, history
<1>5. CASE GiveBackAll(w)
  <2>1. row' \in [Urls -> Row]
    <3>1. \A u \in Urls : Release(row[u]) \in Row
      BY LeaseType DEF TypeOK
    <3>2. QED
      BY <1>5, <3>1 DEF TypeOK, GiveBackAll
  <2>2. /\ holder' \in [Urls -> Workers \cup {NoWorker}]
        /\ batch' \in [Workers -> SUBSET Urls]
        /\ verdict' \in [Workers -> {"none", "succeeded", "cancelled", "failed"}]
        /\ \A x \in Workers : verdict'[x] = verdict[x] \/ verdict'[x] # "none"
        /\ verdict'[w] # "none"
    BY <1>5 DEF TypeOK, GiveBackAll
  <2>3. /\ pc[w] = "batch" /\ pc' = [pc EXCEPT ![w] = "closing"]
        /\ UNCHANGED <<job, lock, cur, mine, tally, spent, myjob, denied, progressed,
                       inspected, stopping, dry, crashes, stops, races, made, kills>>
    BY <1>5 DEF GiveBackAll, Goto, session, world
  <2>4. QED
    BY <2>1, <2>2, <2>3 DEF TypeOK
<1>6. CASE SkipInspected(w)
  BY <1>6 DEF TypeOK, SkipInspected, tables, session, world, history
<1>7. CASE Handle(w)
  <2>1. mine' \in [Workers -> SessionRow]
    <3>1. \A u \in Urls : Loaded(row[u]) \in SessionRow
      BY LeaseType DEF TypeOK
    <3>2. QED
      BY <1>7, <3>1 DEF TypeOK, Handle
  <2>2. tally' \in [Workers -> Counts]
    <3>1. Counters(w) \in Counts
      BY <1>7 DEF TypeOK, Handle, Counters, Counts, JobRow
    <3>2. QED
      BY <1>7, <3>1 DEF TypeOK, Handle
  <2>3. inspected' \in [Workers -> SUBSET Documents]
    BY <1>7 DEF TypeOK, Handle
  <2>4. QED
    BY <1>7, <2>1, <2>2, <2>3 DEF TypeOK, Handle, Goto, tables, world, history
<1>8. QED
  BY <1>1, <1>2, <1>3, <1>4, <1>5, <1>6, <1>7 DEF Loop

LEMMA TransactType == ASSUME TypeOK, NEW w \in Workers, Transact(w) PROVE TypeOK'
<1>m. mine[w] \in SessionRow /\ {"failed", "quarantined", "downloaded",
                                 "downloading"} \subseteq DocumentState
  BY DEF TypeOK, DocumentState
<1>1. CASE Refuse(w)
  <2> DEFINE out == [mine[w] EXCEPT !.dead = TRUE]
  <2>1. out \in SessionRow /\ out.wait = mine[w].wait
    BY <1>m, OutcomeType DEF SessionRow
  <2>2. QED
    BY <1>1, <2>1, SettleType, CommitType, CountersType DEF Refuse
<1>2. CASE WouldFetch(w)
  BY <1>2, <1>m, DeferType, CommitType, CountersType DEF WouldFetch, Permitted
<1>3. CASE AlreadyAcquired(w)
  BY <1>3, <1>m, SettleType, CommitType, CountersType DEF AlreadyAcquired, Permitted
<1>4. CASE BeginDownload(w)
  <2>1. mine' \in [Workers -> SessionRow]
    <3>1. [mine[w] EXCEPT !.state = "downloading"] \in SessionRow
      BY <1>m, OutcomeType
    <3>2. QED
      BY <1>4, <3>1 DEF TypeOK, BeginDownload
  <2>2. QED
    BY <1>4, <2>1 DEF TypeOK, BeginDownload, BeginRequest, Permitted, Goto, run,
                      world, history
<1>5. CASE BeginPage(w)
  BY <1>5 DEF TypeOK, BeginPage, BeginRequest, Permitted, Goto, run, world, history
<1>6. CASE IllegalTransition(w)
  BY <1>6, AbortType DEF IllegalTransition, Permitted, TypeOK
<1>7. CASE Acquired(w)
  <2>1. PICK tries \in 1..FetchTries :
            Commit(w, Settle([mine[w] EXCEPT !.state = "downloaded",
                                             !.document = TRUE,
                                             !.attempts = tries]), {})
    BY <1>7 DEF Acquired
  <2> DEFINE out == [mine[w] EXCEPT !.state = "downloaded", !.document = TRUE,
                                    !.attempts = tries]
  <2>2. out \in SessionRow /\ out.wait = mine[w].wait
    <3>1. tries \in Nat
      BY CrawlAssumption
    <3>2. QED
      BY <1>m, <3>1, OutcomeType DEF SessionRow
  <2>3. QED
    BY <1>7, <2>1, <2>2, SettleType, CommitType, CountersType DEF Acquired, Downloading
<1>8. CASE Quarantine(w)
  BY <1>8, <1>m, ChargeType, SettleType, CommitType, CountersType
     DEF Quarantine, Downloading
<1>9. CASE FailDownload(w)
  BY <1>9, <1>m, ChargeType, SettleFailureType, CommitType, CountersType
     DEF FailDownload, Downloading
<1>10. CASE CancelDownload(w)
  BY <1>10, AbortType DEF CancelDownload, Downloading, TypeOK
<1>11. CASE ReadPage(w)
  <2> DEFINE out == [mine[w] EXCEPT !.dead = TRUE]
  <2>1. out \in SessionRow /\ out.wait = mine[w].wait
    BY <1>m, OutcomeType DEF SessionRow
  <2>2. QED
    BY <1>11, <2>1, SettleType, CommitType, CountersType DEF ReadPage, ReadingPage
<1>12. CASE FailPage(w)
  BY <1>12, <1>m, ChargeType, SettleFailureType, CommitType, CountersType
     DEF FailPage, ReadingPage
<1>13. CASE RecordFails(w)
  BY <1>13, AbortType DEF RecordFails, Downloading, TypeOK
<1>14. QED
  BY <1>1, <1>2, <1>3, <1>4, <1>5, <1>6, <1>7, <1>8, <1>9, <1>10, <1>11, <1>12, <1>13
     DEF Transact

LEMMA TickType == ASSUME TypeOK, Tick PROVE TypeOK'
<1>1. row' \in [Urls -> Row]
  <2>1. \A r \in Row : [r EXCEPT !.lease = IF @ > 0 THEN @ - 1 ELSE @,
                                 !.wait = IF @ > 0 THEN @ - 1 ELSE @] \in Row
    <3>1. ASSUME NEW r \in Row, NEW l \in {NoLease} \cup 0..LeaseTicks, NEW n \in Nat
          PROVE  [r EXCEPT !.lease = l, !.wait = n] \in Row
      BY DEF Row
    <3>2. ASSUME NEW r \in Row
          PROVE  /\ (IF r.lease > 0 THEN r.lease - 1 ELSE r.lease)
                        \in {NoLease} \cup 0..LeaseTicks
                 /\ (IF r.wait > 0 THEN r.wait - 1 ELSE r.wait) \in Nat
      BY QueueAssumption DEF Row, NoLease
    <3>3. QED
      BY <3>1, <3>2
  <2>2. QED
    BY <2>1 DEF TypeOK, Tick
<1>2. spent' \in [Workers -> Nat]
  <2>1. \A w \in Workers : spent[w] \in Nat /\ spent[w] + 1 \in Nat
    BY DEF TypeOK
  <2>2. QED
    BY <2>1 DEF Tick
<1>3. UNCHANGED <<job, lock, pc, cur, mine, tally, myjob, denied, batch, progressed,
                  inspected, verdict, stopping, dry, crashes, stops, races, holder, made,
                  kills>>
  BY DEF Tick, run, world, history
<1>4. QED
  BY <1>1, <1>2, <1>3 DEF TypeOK

LEMMA StepType == TypeOK /\ [Next]_vars => TypeOK'
<1> SUFFICES ASSUME TypeOK, [Next]_vars PROVE TypeOK'
  OBVIOUS
<1>1. ASSUME NEW w \in Workers, Open(w) PROVE TypeOK'
  BY <1>1, OpenType
<1>2. ASSUME NEW w \in Workers, Loop(w) PROVE TypeOK'
  BY <1>2, LoopType
<1>3. ASSUME NEW w \in Workers, Transact(w) PROVE TypeOK'
  BY <1>3, TransactType
<1>4. ASSUME NEW w \in Workers, CloseJob(w) PROVE TypeOK'
  <2>1. job' \in [Jobs -> JobRow]
    <3>0. /\ job \in [Jobs -> JobRow]
          /\ verdict[w] \in {"none", "succeeded", "cancelled", "failed"}
      BY <1>4 DEF TypeOK
    <3>1. \A j \in Jobs : [job[j] EXCEPT !.status = verdict[w]] \in JobRow
      BY ONLY <3>0 DEF JobRow
    <3>2. QED
      BY <1>4, <3>1 DEF TypeOK, CloseJob
  <2>2. QED
    BY <1>4, <2>1, ForgetType DEF TypeOK, CloseJob, world
<1>5. ASSUME NEW w \in Workers, Crash(w) PROVE TypeOK'
  <2>1. kills' \in [Urls -> Nat] /\ crashes' \in Nat
    BY <1>5 DEF TypeOK, Crash
  <2>2. QED
    BY <1>5, <2>1, ForgetType DEF TypeOK, Crash
<1>6. ASSUME NEW w \in Workers, Signal(w) PROVE TypeOK'
  BY <1>6 DEF TypeOK, Signal, tables, session, run, history
<1>7. CASE Tick
  BY <1>7, TickType
<1>8. CASE UNCHANGED vars
  BY <1>8 DEF TypeOK, vars, tables, session, run, world, history
<1>9. QED
  BY <1>1, <1>2, <1>3, <1>4, <1>5, <1>6, <1>7, <1>8 DEF Next, Step

\* Every variable has its type, for any number of workers, URLs and jobs.
THEOREM TypeCorrect == Spec => []TypeOK
BY InitType, StepType, PTL DEF Spec

-----------------------------------------------------------------------------
(* One request per URL, and dead letters *)

\* A worker in the middle of a request has the row locked.
RequestHoldsLock == \A w \in Workers : pc[w] = "fetching" => lock[cur[w]] = w

\* DOWNLOADING is flushed before a download and never committed, so that
\* reclaim_expired finds nothing to do.
DownloadIsFlushed ==
    \A w \in Workers : pc[w] = "fetching" /\ cur[w] \in Documents =>
                            mine[w].state = "downloading"

NoCommittedDownloading == \A u \in Urls : row[u].state # "downloading"

\* A dead letter that a session has loaded is in the table.
DeadIsCommitted ==
    \A w \in Workers : pc[w] \in {"handling", "fetching"} /\ mine[w].dead =>
                            row[cur[w]].dead

\* Only a URL that is in the table is claimed and handled, and one that is not
\* is no dead letter.
ClaimedIsKnown ==
    \A w \in Workers :
        /\ \A u \in batch[w] : row[u].state # "absent"
        /\ pc[w] \in {"handling", "fetching"} => row[cur[w]].state # "absent"

UnseenIsNotDead == \A u \in Urls : row[u].state = "absent" => ~row[u].dead

IInv ==
    /\ TypeOK
    /\ RequestHoldsLock
    /\ DownloadIsFlushed
    /\ NoCommittedDownloading
    /\ DeadIsCommitted
    /\ ClaimedIsKnown
    /\ UnseenIsNotDead
    /\ ExhaustedIsListed

\* What every step does to the table
RowStep ==
    \A u \in Urls :
        /\ row[u].dead => row'[u].dead
        /\ row[u].state # "absent" => row'[u].state # "absent"
        /\ row'[u].state = "absent" => ~row'[u].dead
        /\ row'[u].state # "downloading"
        /\ row'[u].state = "failed" /\ row'[u].attempts >= MaxAttempts => row'[u].dead

\* What a step of one worker leaves of the others, and what it owes itself
OthersKept(w) ==
    \A x \in Workers \ {w} :
        /\ pc'[x] = pc[x] /\ cur'[x] = cur[x] /\ mine'[x] = mine[x]
        /\ batch'[x] = batch[x]
        /\ pc[x] = "fetching" => lock'[cur[x]] = x

OwnSafe(w) ==
    /\ \A u \in batch'[w] : row'[u].state # "absent"
    /\ pc'[w] = "fetching" =>
        /\ lock'[cur'[w]] = w
        /\ cur'[w] \in Documents => mine'[w].state = "downloading"
    /\ pc'[w] \in {"handling", "fetching"} =>
        /\ row'[cur'[w]].state # "absent"
        /\ mine'[w].dead => row'[cur'[w]].dead

LEMMA WorkerStep ==
    ASSUME IInv, TypeOK', RowStep, NEW w \in Workers, OthersKept(w), OwnSafe(w)
    PROVE  IInv'
<1>1. ASSUME NEW x \in Workers
      PROVE  /\ \A u \in batch'[x] : row'[u].state # "absent"
             /\ pc'[x] = "fetching" =>
                 /\ lock'[cur'[x]] = x
                 /\ cur'[x] \in Documents => mine'[x].state = "downloading"
             /\ pc'[x] \in {"handling", "fetching"} =>
                 /\ row'[cur'[x]].state # "absent"
                 /\ mine'[x].dead => row'[cur'[x]].dead
  <2>1. CASE x = w
    BY <2>1 DEF OwnSafe
  <2>2. CASE x # w
    <3>1. /\ pc'[x] = pc[x] /\ cur'[x] = cur[x] /\ mine'[x] = mine[x]
          /\ batch'[x] = batch[x] /\ batch[x] \subseteq Urls
          /\ pc[x] = "fetching" => lock'[cur[x]] = x
          /\ pc[x] \in {"handling", "fetching"} => cur[x] \in Urls
      BY <2>2 DEF OthersKept, IInv, TypeOK
    <3>2. QED
      BY <3>1 DEF RowStep, IInv, RequestHoldsLock, DownloadIsFlushed, DeadIsCommitted,
                  ClaimedIsKnown
  <2>3. QED
    BY <2>1, <2>2
<1>2. /\ RequestHoldsLock' /\ DownloadIsFlushed' /\ DeadIsCommitted'
      /\ ClaimedIsKnown'
  BY <1>1 DEF RequestHoldsLock, DownloadIsFlushed, DeadIsCommitted, ClaimedIsKnown
<1>3. NoCommittedDownloading' /\ UnseenIsNotDead' /\ ExhaustedIsListed'
  BY DEF RowStep, NoCommittedDownloading, UnseenIsNotDead, ExhaustedIsListed
<1>4. QED
  BY <1>2, <1>3 DEF IInv

\* A step that touches only timers, or no row at all
LEMMA TimersOnly ==
    ASSUME IInv,
           \A u \in Urls : /\ row'[u].state = row[u].state
                           /\ row'[u].attempts = row[u].attempts
                           /\ row'[u].dead = row[u].dead
    PROVE  RowStep
BY DEF RowStep, IInv, NoCommittedDownloading, UnseenIsNotDead, ExhaustedIsListed

\* New URLs change no row that is there.
LEMMA EnqueueStep ==
    ASSUME NEW rows \in [Urls -> Row], NEW found, NEW u \in Urls
    PROVE  /\ rows[u].state # "absent" => Enqueue(rows, found)[u] = rows[u]
           /\ \/ Enqueue(rows, found)[u] = rows[u]
              \/ /\ rows[u].state = "absent"
                 /\ Enqueue(rows, found)[u] = Fresh
BY DEF Enqueue

LEMMA FreshRow ==
    Fresh.state = "discovered" /\ Fresh.attempts = 0 /\ Fresh.dead = FALSE
BY DEF Fresh, Absent

\* The three ways a handler leaves the row: decided without a failure, ended,
\* or failed once more.
Outcome(old, new) ==
    /\ old.dead => new.dead
    /\ \/ new.state = old.state /\ new.attempts = old.attempts
       \/ new.state \in {"downloaded", "quarantined"} /\ new.state # old.state
       \/ /\ new.state = "failed"
          /\ new.attempts = old.attempts + 1
          /\ new.attempts >= MaxAttempts => new.dead

LEMMA FlushStep ==
    ASSUME NEW old \in SessionRow, NEW new \in SessionRow, NEW r \in Row,
           Outcome(old, new), old.dead => r.dead,
           r.state # "downloading", r.state # "absent",
           r.state = "failed" /\ r.attempts >= MaxAttempts => r.dead
    PROVE  LET n == Flush(old, new, r) IN
           /\ r.dead => n.dead
           /\ n.state # "absent" /\ n.state # "downloading"
           /\ n.state = "failed" /\ n.attempts >= MaxAttempts => n.dead
<1> DEFINE n == Flush(old, new, r)
<1>1. /\ n.state = IF new.state = old.state THEN r.state ELSE new.state
      /\ n.attempts = IF new.attempts = old.attempts THEN r.attempts ELSE new.attempts
      /\ n.dead = IF new.dead = old.dead THEN r.dead ELSE new.dead
  BY DEF Flush
<1>2. r.dead \in BOOLEAN /\ old.dead \in BOOLEAN /\ new.dead \in BOOLEAN
  BY DEF Row, SessionRow
<1>3. (r.dead \/ new.dead) => n.dead
  BY <1>1, <1>2 DEF Outcome
<1>4. n.state # "absent" /\ n.state # "downloading"
  BY <1>1 DEF Outcome
<1>5. ASSUME n.state = "failed", n.attempts >= MaxAttempts PROVE n.dead
  <2>1. CASE new.state = old.state /\ new.attempts = old.attempts
    BY <1>1, <1>3, <1>5, <2>1
  <2>2. CASE new.state \in {"downloaded", "quarantined"} /\ new.state # old.state
    BY <1>1, <1>5, <2>2
  <2>3. CASE /\ new.state = "failed"
             /\ new.attempts = old.attempts + 1
             /\ new.attempts >= MaxAttempts => new.dead
    <3>1. new.attempts # old.attempts
      BY <2>3 DEF SessionRow
    <3>2. QED
      BY <1>1, <1>3, <1>5, <2>3, <3>1
  <2>4. QED
    BY <2>1, <2>2, <2>3 DEF Outcome
<1>6. QED
  BY <1>3, <1>4, <1>5

LEMMA CommitStep ==
    ASSUME IInv, TypeOK', NEW w \in Workers, NEW final \in SessionRow, NEW found,
           pc[w] \in {"handling", "fetching"},
           pc[w] = "handling" => Unlocked(w),
           Commit(w, final, found), Outcome(mine[w], final)
    PROVE  RowStep /\ IInv'
<1> DEFINE u == cur[w]
           flushed == Flush(mine[w], final, row[u])
           rows == [row EXCEPT ![u] = flushed]
<1>1. /\ u \in Urls /\ mine[w] \in SessionRow /\ row \in [Urls -> Row]
      /\ row' = Enqueue(rows, found)
  BY DEF IInv, TypeOK, Commit
<1>2. /\ row[u].dead => flushed.dead
      /\ flushed.state # "absent" /\ flushed.state # "downloading"
      /\ flushed.state = "failed" /\ flushed.attempts >= MaxAttempts => flushed.dead
  <2>1. /\ row[u] \in Row /\ row[u].state # "downloading" /\ row[u].state # "absent"
        /\ mine[w].dead => row[u].dead
        /\ row[u].state = "failed" /\ row[u].attempts >= MaxAttempts => row[u].dead
    BY <1>1 DEF IInv, NoCommittedDownloading, ClaimedIsKnown, DeadIsCommitted,
                ExhaustedIsListed
  <2>2. QED
    BY <1>1, <2>1, FlushStep
<1>3. /\ row'[u] = flushed
      /\ \A v \in Urls \ {u} :
            row'[v] = row[v] \/ (row[v].state = "absent" /\ row'[v] = Fresh)
  BY <1>1, <1>2 DEF Enqueue
<1>4. RowStep
  <2> SUFFICES ASSUME NEW v \in Urls
               PROVE  /\ row[v].dead => row'[v].dead
                      /\ row[v].state # "absent" => row'[v].state # "absent"
                      /\ row'[v].state = "absent" => ~row'[v].dead
                      /\ row'[v].state # "downloading"
                      /\ row'[v].state = "failed" /\ row'[v].attempts >= MaxAttempts
                            => row'[v].dead
    BY DEF RowStep
  <2>1. CASE v = u
    BY <1>2, <1>3, <2>1
  <2>2. CASE row'[v] = row[v]
    BY <2>2 DEF IInv, NoCommittedDownloading, UnseenIsNotDead, ExhaustedIsListed
  <2>3. CASE row[v].state = "absent" /\ row'[v] = Fresh
    BY <2>3, FreshRow DEF IInv, UnseenIsNotDead
  <2>4. QED
    BY <1>3, <2>1, <2>2, <2>3
<1>5. /\ pc' = [pc EXCEPT ![w] = "batch"] /\ cur' = [cur EXCEPT ![w] = NoUrl]
      /\ lock' = [lock EXCEPT ![u] = NoWorker]
      /\ batch' = [batch EXCEPT ![w] = @ \ {u}] /\ mine' = mine
  BY DEF Commit, Goto
<1>6. OthersKept(w)
  <2> SUFFICES ASSUME NEW x \in Workers \ {w}
               PROVE  /\ pc'[x] = pc[x] /\ cur'[x] = cur[x] /\ mine'[x] = mine[x]
                      /\ batch'[x] = batch[x]
                      /\ pc[x] = "fetching" => lock'[cur[x]] = x
    BY DEF OthersKept
  <2>1. pc'[x] = pc[x] /\ cur'[x] = cur[x] /\ mine'[x] = mine[x] /\ batch'[x] = batch[x]
    BY <1>5 DEF IInv, TypeOK
  <2>2. lock[u] \in {w, NoWorker}
    BY DEF IInv, RequestHoldsLock, Unlocked
  <2>3. ASSUME pc[x] = "fetching" PROVE lock'[cur[x]] = x
    <3>1. lock[cur[x]] = x /\ cur[x] \in Urls
      BY <2>3 DEF IInv, RequestHoldsLock, TypeOK
    <3>2. cur[x] # u
      BY <2>2, <3>1, CrawlAssumption
    <3>3. QED
      BY <1>5, <3>1, <3>2 DEF IInv, TypeOK
  <2>4. QED
    BY <2>1, <2>3
<1>7. OwnSafe(w)
  <2>1. pc'[w] = "batch" /\ batch'[w] \subseteq batch[w] /\ batch[w] \subseteq Urls
    BY <1>5 DEF IInv, TypeOK
  <2>2. QED
    BY <1>4, <2>1 DEF OwnSafe, RowStep, IInv, ClaimedIsKnown
<1>8. QED
  BY <1>4, <1>6, <1>7, WorkerStep

\* A step that changes neither a row, a lock nor a copy, after which its worker
\* handles nothing
LEMMA QuietStep ==
    ASSUME IInv, TypeOK', NEW w \in Workers, UNCHANGED <<row, lock, mine, cur>>,
           NEW l, l \notin {"handling", "fetching"}, pc' = [pc EXCEPT ![w] = l],
           NEW B \in SUBSET batch[w], batch' = [batch EXCEPT ![w] = B]
    PROVE  RowStep /\ IInv'
<1>1. RowStep
  BY TimersOnly
<1>2. OthersKept(w)
  BY DEF OthersKept, IInv, TypeOK, RequestHoldsLock
<1>3. OwnSafe(w)
  BY DEF OwnSafe, IInv, TypeOK, ClaimedIsKnown
<1>4. QED
  BY <1>1, <1>2, <1>3, WorkerStep

LEMMA InitSafe == Init => IInv
<1> SUFFICES ASSUME Init PROVE IInv
  OBVIOUS
<1>1. TypeOK
  BY InitType
<1>2. /\ \A u \in Urls : row[u].state = "absent" /\ ~row[u].dead
      /\ \A w \in Workers : pc[w] = "idle" /\ batch[w] = {}
  BY DEF Init, Absent
<1>3. QED
  BY <1>1, <1>2 DEF IInv, RequestHoldsLock, DownloadIsFlushed, NoCommittedDownloading,
                    DeadIsCommitted, ClaimedIsKnown, UnseenIsNotDead, ExhaustedIsListed

\* A process that ends releases its own locks only.
LEMMA ForgetStep ==
    ASSUME IInv, TypeOK', NEW w \in Workers, Forget(w)
    PROVE  RowStep /\ IInv'
<1>1. /\ pc' = [pc EXCEPT ![w] = "idle"] /\ cur' = [cur EXCEPT ![w] = NoUrl]
      /\ mine' = [mine EXCEPT ![w] = Absent] /\ batch' = [batch EXCEPT ![w] = {}]
      /\ lock' = [u \in Urls |-> IF lock[u] = w THEN NoWorker ELSE lock[u]]
      /\ row' = row
  BY DEF Forget, Goto
<1>2. RowStep
  BY <1>1, TimersOnly
<1>3. OthersKept(w)
  BY <1>1 DEF OthersKept, IInv, TypeOK, RequestHoldsLock
<1>4. OwnSafe(w)
  BY <1>1 DEF OwnSafe, IInv, TypeOK
<1>5. QED
  BY <1>2, <1>3, <1>4, WorkerStep

LEMMA AbortStep ==
    ASSUME IInv, TypeOK', NEW w \in Workers, Abort(w)
    PROVE  RowStep /\ IInv'
<1>1. /\ pc' = [pc EXCEPT ![w] = "closing"] /\ cur' = [cur EXCEPT ![w] = NoUrl]
      /\ mine' = mine /\ batch' = [batch EXCEPT ![w] = {}]
      /\ lock' = [u \in Urls |-> IF lock[u] = w THEN NoWorker ELSE lock[u]]
      /\ row' = row
  BY DEF Abort, Goto
<1>2. RowStep
  BY <1>1, TimersOnly
<1>3. OthersKept(w)
  BY <1>1 DEF OthersKept, IInv, TypeOK, RequestHoldsLock
<1>4. OwnSafe(w)
  BY <1>1 DEF OwnSafe, IInv, TypeOK
<1>5. QED
  BY <1>2, <1>3, <1>4, WorkerStep

LEMMA OpenStep ==
    ASSUME IInv, TypeOK', NEW w \in Workers, Open(w)
    PROVE  RowStep /\ IInv'
<1>0. batch = [batch EXCEPT ![w] = batch[w]] /\ batch[w] \in SUBSET batch[w]
  BY DEF IInv, TypeOK
<1>1. CASE ResumeJob(w)
  BY <1>0, <1>1, QuietStep DEF ResumeJob, Goto, tables, session
<1>2. CASE FindNoJob(w)
  BY <1>0, <1>2, QuietStep DEF FindNoJob, Goto, tables, session, run
<1>3. CASE OpenJob(w)
  BY <1>0, <1>3, QuietStep DEF OpenJob, Goto, session
<1>4. CASE Seed(w)
  <2>1. PICK forbidden \in SUBSET Volatile :
            row' = ReclaimExpired(Enqueue(row, Seeds \ forbidden))
    BY <1>4 DEF Seed
  <2> DEFINE rows == Enqueue(row, Seeds \ forbidden)
  <2>2. rows \in [Urls -> Row]
    BY EnqueueType DEF IInv, TypeOK
  <2>3. \A u \in Urls : rows[u] = row[u] \/ (row[u].state = "absent" /\ rows[u] = Fresh)
    BY EnqueueStep DEF IInv, TypeOK
  <2>4. \A u \in Urls : rows[u].state # "downloading"
    BY <2>3, FreshRow DEF IInv, NoCommittedDownloading
  <2>5. \A u \in Urls : row'[u] = rows[u]
    BY <2>1, <2>2, <2>4 DEF ReclaimExpired
  <2>6. RowStep
    BY <2>3, <2>5, FreshRow
       DEF RowStep, IInv, NoCommittedDownloading, UnseenIsNotDead, ExhaustedIsListed
  <2>7. /\ UNCHANGED <<lock, cur, mine, batch>> /\ pc' = [pc EXCEPT ![w] = "loop"]
    BY <1>4 DEF Seed, Goto, session
  <2>8. OthersKept(w)
    BY <2>7 DEF OthersKept, IInv, TypeOK, RequestHoldsLock
  <2>9. OwnSafe(w)
    BY <2>6, <2>7 DEF OwnSafe, RowStep, IInv, TypeOK, ClaimedIsKnown
  <2>10. QED
    BY <2>6, <2>8, <2>9, WorkerStep
<1>5. QED
  BY <1>1, <1>2, <1>3, <1>4 DEF Open

LEMMA LoopStep ==
    ASSUME IInv, TypeOK', NEW w \in Workers, Loop(w)
    PROVE  RowStep /\ IInv'
<1>0. batch = [batch EXCEPT ![w] = batch[w]] /\ batch[w] \in SUBSET batch[w]
  BY DEF IInv, TypeOK
<1>1. CASE Stop(w)
  BY <1>0, <1>1, QuietStep DEF Stop, Goto, tables, session
<1>2. CASE Claim(w)
  <2>1. /\ row' = [u \in Urls |-> IF u \in FirstOf(Available) THEN Lease(row[u])
                                  ELSE row[u]]
        /\ batch' = [batch EXCEPT ![w] = FirstOf(Available)]
        /\ pc' = [pc EXCEPT ![w] = "batch"] /\ UNCHANGED <<lock, cur, mine>>
    BY <1>2 DEF Claim, Goto, session
  <2>2. \A u \in FirstOf(Available) : u \in Urls /\ row[u].state # "absent"
    BY DEF FirstOf, Available, Claimable
  <2>3. \A u \in Urls : /\ row'[u].state = row[u].state
                        /\ row'[u].attempts = row[u].attempts
                        /\ row'[u].dead = row[u].dead
    BY <2>1 DEF Lease, IInv, TypeOK, Row
  <2>4. RowStep
    BY <2>3, TimersOnly
  <2>5. OthersKept(w)
    BY <2>1 DEF OthersKept, IInv, TypeOK, RequestHoldsLock
  <2>6. OwnSafe(w)
    <3>1. pc'[w] = "batch" /\ batch'[w] = FirstOf(Available)
      BY <2>1 DEF IInv, TypeOK
    <3>2. QED
      BY <2>2, <2>3, <3>1 DEF OwnSafe
  <2>7. QED
    BY <2>4, <2>5, <2>6, WorkerStep
<1>3. CASE Drained(w)
  BY <1>0, <1>3, QuietStep DEF Drained, Goto, tables, session
<1>4. CASE EndBatch(w)
  <2>1. \/ pc' = [pc EXCEPT ![w] = "loop"]
        \/ pc' = [pc EXCEPT ![w] = "closing"]
    BY <1>4 DEF EndBatch, Goto
  <2>2. QED
    BY <1>0, <1>4, <2>1, QuietStep DEF EndBatch, tables, session
<1>5. CASE GiveBackAll(w)
  <2>1. /\ row' = [v \in Urls |-> IF v \in batch[w] THEN Release(row[v]) ELSE row[v]]
        /\ batch' = [batch EXCEPT ![w] = {}]
        /\ pc' = [pc EXCEPT ![w] = "closing"] /\ UNCHANGED <<lock, cur, mine>>
    BY <1>5 DEF GiveBackAll, Goto, session
  <2>2. \A u \in Urls : /\ row'[u].state = row[u].state
                        /\ row'[u].attempts = row[u].attempts
                        /\ row'[u].dead = row[u].dead
    BY <2>1 DEF Release, IInv, TypeOK, Row
  <2>3. RowStep
    BY <2>2, TimersOnly
  <2>4. OthersKept(w)
    BY <2>1 DEF OthersKept, IInv, TypeOK, RequestHoldsLock
  <2>5. OwnSafe(w)
    BY <2>1 DEF OwnSafe, IInv, TypeOK
  <2>6. QED
    BY <2>3, <2>4, <2>5, WorkerStep
<1>6. CASE SkipInspected(w)
  <2>1. PICK u \in Urls : batch' = [batch EXCEPT ![w] = @ \ {u}]
    BY <1>6 DEF SkipInspected
  <2>2. batch' = [batch EXCEPT ![w] = batch[w] \ {u}] /\ batch[w] \ {u} \in SUBSET batch[w]
    BY <2>1
  <2>3. pc' = [pc EXCEPT ![w] = "batch"] /\ UNCHANGED <<row, lock, mine, cur>>
    BY <1>6 DEF SkipInspected, tables, session, IInv, TypeOK
  <2>4. QED
    BY <2>2, <2>3, QuietStep
<1>7. CASE Handle(w)
  <2>1. PICK u \in Urls : /\ u \in batch[w]
                          /\ cur' = [cur EXCEPT ![w] = u]
                          /\ mine' = [mine EXCEPT ![w] = Loaded(row[u])]
    BY <1>7 DEF Handle, Turn
  <2>2. pc' = [pc EXCEPT ![w] = "handling"] /\ UNCHANGED <<row, lock, batch>>
    BY <1>7 DEF Handle, Goto, tables
  <2>3. RowStep
    BY <2>2, TimersOnly
  <2>4. OthersKept(w)
    BY <2>1, <2>2 DEF OthersKept, IInv, TypeOK, RequestHoldsLock
  <2>5. Loaded(row[u]).dead = row[u].dead /\ row[u].state # "absent"
    BY <2>1 DEF Loaded, IInv, TypeOK, Row, ClaimedIsKnown
  <2>6. OwnSafe(w)
    BY <2>1, <2>2, <2>5 DEF OwnSafe, IInv, TypeOK, ClaimedIsKnown
  <2>7. QED
    BY <2>3, <2>4, <2>6, WorkerStep
<1>8. QED
  BY <1>1, <1>2, <1>3, <1>4, <1>5, <1>6, <1>7 DEF Loop

\* A request begins under the row's lock.
LEMMA BeginStep ==
    ASSUME IInv, TypeOK', NEW w \in Workers, Permitted(w), BeginRequest(w),
           NEW r \in SessionRow, mine' = [mine EXCEPT ![w] = r],
           r.dead = mine[w].dead,
           cur[w] \in Documents => r.state = "downloading"
    PROVE  RowStep /\ IInv'
<1>1. /\ pc[w] = "handling" /\ lock[cur[w]] = NoWorker /\ cur[w] \in Urls
      /\ pc' = [pc EXCEPT ![w] = "fetching"] /\ lock' = [lock EXCEPT ![cur[w]] = w]
      /\ UNCHANGED <<row, cur, batch>>
  BY DEF BeginRequest, Permitted, Unlocked, Goto, run, IInv, TypeOK
<1>2. RowStep
  BY <1>1, TimersOnly
<1>3. OthersKept(w)
  <2> SUFFICES ASSUME NEW x \in Workers \ {w}
               PROVE  /\ pc'[x] = pc[x] /\ cur'[x] = cur[x] /\ mine'[x] = mine[x]
                      /\ batch'[x] = batch[x]
                      /\ pc[x] = "fetching" => lock'[cur[x]] = x
    BY DEF OthersKept
  <2>1. pc'[x] = pc[x] /\ cur'[x] = cur[x] /\ mine'[x] = mine[x] /\ batch'[x] = batch[x]
    BY <1>1 DEF IInv, TypeOK
  <2>2. ASSUME pc[x] = "fetching" PROVE lock'[cur[x]] = x
    <3>1. lock[cur[x]] = x /\ cur[x] \in Urls
      BY <2>2 DEF IInv, RequestHoldsLock, TypeOK
    <3>2. cur[x] # cur[w]
      BY <1>1, <3>1, CrawlAssumption
    <3>3. QED
      BY <1>1, <3>1, <3>2 DEF IInv, TypeOK
  <2>3. QED
    BY <2>1, <2>2
<1>4. OwnSafe(w)
  <2>1. /\ pc'[w] = "fetching" /\ cur'[w] = cur[w] /\ mine'[w] = r
        /\ lock'[cur[w]] = w /\ batch'[w] = batch[w] /\ row' = row
    BY <1>1 DEF IInv, TypeOK
  <2>2. /\ row[cur[w]].state # "absent"
        /\ mine[w].dead => row[cur[w]].dead
        /\ \A u \in batch[w] : row[u].state # "absent"
    BY <1>1 DEF IInv, ClaimedIsKnown, DeadIsCommitted
  <2>3. QED
    BY <2>1, <2>2 DEF OwnSafe
<1>5. QED
  BY <1>2, <1>3, <1>4, WorkerStep

\* What settling makes of an outcome
LEMMA SettleOutcome ==
    ASSUME NEW old \in SessionRow, NEW r \in SessionRow, old.dead => r.dead,
           \/ r.state = old.state /\ r.attempts = old.attempts
           \/ r.state \in {"downloaded", "quarantined"} /\ r.state # old.state
    PROVE  Outcome(old, Settle(r))
BY DEF Outcome, Settle, SessionRow

LEMMA FailureOutcome ==
    ASSUME NEW old \in SessionRow
    PROVE  Outcome(old, SettleFailure([old EXCEPT !.state = "failed",
                                                  !.attempts = @ + 1]))
<1> DEFINE r == [old EXCEPT !.state = "failed", !.attempts = @ + 1]
<1>1. r \in SessionRow
  BY ChargeType DEF DocumentState
<1>2. /\ r.state = "failed" /\ r.attempts = old.attempts + 1 /\ r.dead = old.dead
      /\ r.dead \in BOOLEAN
  BY <1>1 DEF SessionRow
<1> HIDE DEF r
<1>3. /\ SettleFailure(r).state = r.state
      /\ SettleFailure(r).attempts = r.attempts
      /\ SettleFailure(r).dead = (r.dead \/ Exhausted(r))
  BY <1>1 DEF SettleFailure, Settle, Defer, SessionRow
<1>4. QED
  BY <1>2, <1>3 DEF Outcome, Exhausted, r

LEMMA TransactStep ==
    ASSUME IInv, TypeOK', NEW w \in Workers, Transact(w)
    PROVE  RowStep /\ IInv'
<1>m. mine[w] \in SessionRow /\ cur[w] \in Urls \cup {NoUrl}
      /\ {"failed", "quarantined", "downloaded", "downloading"} \subseteq DocumentState
  BY DEF IInv, TypeOK, DocumentState
<1>r. \* a retired URL
  /\ [mine[w] EXCEPT !.dead = TRUE] \in SessionRow
  /\ Outcome(mine[w], Settle([mine[w] EXCEPT !.dead = TRUE]))
  <2> DEFINE out == [mine[w] EXCEPT !.dead = TRUE]
  <2>1. /\ out \in SessionRow /\ out.dead = TRUE /\ out.state = mine[w].state
        /\ out.attempts = mine[w].attempts
    BY <1>m, OutcomeType DEF SessionRow
  <2>2. QED
    BY <1>m, <2>1, SettleOutcome
<1>f. \* a URL that failed
  LET failed == SettleFailure([mine[w] EXCEPT !.state = "failed", !.attempts = @ + 1])
  IN  failed \in SessionRow /\ Outcome(mine[w], failed)
  BY <1>m, ChargeType, SettleFailureType, FailureOutcome
<1>1. CASE Refuse(w)
  BY <1>1, <1>r, SettleType, CommitStep DEF Refuse
<1>2. CASE WouldFetch(w)
  <2>1. Defer(mine[w], 1) \in SessionRow /\ Outcome(mine[w], Defer(mine[w], 1))
    BY <1>m, DeferType DEF Outcome, Defer, SessionRow
  <2>2. QED
    BY <1>2, <2>1, CommitStep DEF WouldFetch, Permitted
<1>3. CASE AlreadyAcquired(w)
  BY <1>3, <1>m, SettleType, SettleOutcome, CommitStep DEF AlreadyAcquired, Permitted
<1>4. CASE BeginDownload(w)
  <2> DEFINE r == [mine[w] EXCEPT !.state = "downloading"]
  <2>1. r \in SessionRow /\ r.state = "downloading" /\ r.dead = mine[w].dead
    BY <1>m, OutcomeType DEF SessionRow
  <2>2. mine' = [mine EXCEPT ![w] = r] /\ Permitted(w) /\ BeginRequest(w)
    BY <1>4 DEF BeginDownload
  <2>3. QED
    BY <2>1, <2>2, BeginStep
<1>5. CASE BeginPage(w)
  <2>1. mine' = [mine EXCEPT ![w] = mine[w]]
    BY <1>5 DEF BeginPage, IInv, TypeOK
  <2>2. cur[w] \notin Documents
    BY <1>5, CrawlAssumption DEF BeginPage
  <2>3. QED
    BY <1>5, <1>m, <2>1, <2>2, BeginStep DEF BeginPage
<1>6. CASE IllegalTransition(w)
  BY <1>6, AbortStep DEF IllegalTransition
<1>7. CASE Acquired(w)
  <2>1. PICK tries \in 1..FetchTries :
            Commit(w, Settle([mine[w] EXCEPT !.state = "downloaded",
                                             !.document = TRUE,
                                             !.attempts = tries]), {})
    BY <1>7 DEF Acquired
  <2> DEFINE out == [mine[w] EXCEPT !.state = "downloaded", !.document = TRUE,
                                    !.attempts = tries]
  <2>2. tries \in Nat
    BY CrawlAssumption
  <2>3. out \in SessionRow /\ out.state = "downloaded" /\ out.dead = mine[w].dead
    BY <1>m, <2>2, OutcomeType DEF SessionRow
  <2>4. mine[w].state = "downloading" /\ pc[w] = "fetching"
    BY <1>7 DEF Acquired, Downloading, IInv, DownloadIsFlushed
  <2>5. Settle(out) \in SessionRow /\ Outcome(mine[w], Settle(out))
    <3> HIDE DEF out
    <3>1. QED
      BY <1>m, <2>3, <2>4, SettleType, SettleOutcome
  <2>6. QED
    BY <2>1, <2>4, <2>5, CommitStep
<1>8. CASE Quarantine(w)
  <2> DEFINE out == [mine[w] EXCEPT !.state = "quarantined", !.attempts = @ + 1]
  <2>1. out \in SessionRow
    BY <1>m, ChargeType
  <2>2. out.state = "quarantined" /\ out.dead = mine[w].dead
    BY <1>m DEF SessionRow
  <2>3. mine[w].state = "downloading" /\ pc[w] = "fetching"
    BY <1>8 DEF Quarantine, Downloading, IInv, DownloadIsFlushed
  <2>4. Commit(w, Settle(out), {})
    BY <1>8 DEF Quarantine
  <2>5. Settle(out) \in SessionRow /\ Outcome(mine[w], Settle(out))
    <3> HIDE DEF out
    <3>1. QED
      BY <1>m, <2>1, <2>2, <2>3, SettleType, SettleOutcome
  <2>6. QED
    BY <2>3, <2>4, <2>5, CommitStep
<1>9. CASE FailDownload(w)
  BY <1>9, <1>f, CommitStep DEF FailDownload, Downloading
<1>10. CASE CancelDownload(w)
  BY <1>10, AbortStep DEF CancelDownload
<1>11. CASE ReadPage(w)
  BY <1>11, <1>r, SettleType, CommitStep DEF ReadPage, ReadingPage
<1>12. CASE FailPage(w)
  BY <1>12, <1>f, CommitStep DEF FailPage, ReadingPage
<1>13. CASE RecordFails(w)
  BY <1>13, AbortStep DEF RecordFails
<1>14. QED
  BY <1>1, <1>2, <1>3, <1>4, <1>5, <1>6, <1>7, <1>8, <1>9, <1>10, <1>11, <1>12, <1>13
     DEF Transact

LEMMA StepSafe == IInv /\ [Next]_vars => RowStep /\ IInv'
<1> SUFFICES ASSUME IInv, [Next]_vars PROVE RowStep /\ IInv'
  OBVIOUS
<1>t. TypeOK'
  BY StepType DEF IInv
<1>1. ASSUME NEW w \in Workers, Step(w) PROVE RowStep /\ IInv'
  BY <1>t, <1>1, OpenStep, LoopStep, TransactStep, ForgetStep DEF Step, CloseJob
<1>2. ASSUME NEW w \in Workers, Crash(w) PROVE RowStep /\ IInv'
  BY <1>t, <1>2, ForgetStep DEF Crash
<1>3. ASSUME \A w \in Workers : /\ pc'[w] = pc[w] /\ cur'[w] = cur[w]
                                /\ mine'[w] = mine[w] /\ batch'[w] = batch[w],
             lock' = lock, RowStep
      PROVE  IInv'
  <2>1. \A w \in Workers : batch[w] \subseteq Urls /\
                           (pc[w] \in {"handling", "fetching"} => cur[w] \in Urls)
    BY DEF IInv, TypeOK
  <2>2. /\ RequestHoldsLock' /\ DownloadIsFlushed' /\ DeadIsCommitted'
        /\ ClaimedIsKnown'
    BY <1>3, <2>1 DEF RowStep, IInv, RequestHoldsLock, DownloadIsFlushed,
                      DeadIsCommitted, ClaimedIsKnown
  <2>3. NoCommittedDownloading' /\ UnseenIsNotDead' /\ ExhaustedIsListed'
    BY <1>3 DEF RowStep, NoCommittedDownloading, UnseenIsNotDead, ExhaustedIsListed
  <2>4. QED
    BY <1>t, <2>2, <2>3 DEF IInv
<1>4. ASSUME NEW w \in Workers, Signal(w) PROVE RowStep /\ IInv'
  BY <1>3, <1>4, TimersOnly DEF Signal, tables, session, run
<1>5. CASE Tick
  <2>1. \A u \in Urls : /\ row'[u].state = row[u].state
                        /\ row'[u].attempts = row[u].attempts
                        /\ row'[u].dead = row[u].dead
    <3>1. \A u \in Urls :
            /\ row[u] \in Row
            /\ row'[u] = [row[u] EXCEPT !.lease = IF @ > 0 THEN @ - 1 ELSE @,
                                        !.wait = IF @ > 0 THEN @ - 1 ELSE @]
      BY <1>5 DEF Tick, IInv, TypeOK
    <3>2. ASSUME NEW u \in Urls
          PROVE  /\ row'[u].state = row[u].state
                 /\ row'[u].attempts = row[u].attempts
                 /\ row'[u].dead = row[u].dead
      <4> DEFINE l == IF row[u].lease > 0 THEN row[u].lease - 1 ELSE row[u].lease
                 n == IF row[u].wait > 0 THEN row[u].wait - 1 ELSE row[u].wait
      <4>1. row'[u] = [row[u] EXCEPT !.lease = l, !.wait = n]
        BY <3>1
      <4> HIDE DEF l, n
      <4>2. QED
        BY <3>1, <4>1 DEF Row
    <3>3. QED
      BY <3>2
  <2>2. RowStep
    BY <2>1, TimersOnly
  <2>3. QED
    BY <1>3, <1>5, <2>2 DEF Tick, run
<1>6. CASE UNCHANGED vars
  BY <1>3, <1>6, TimersOnly DEF vars, tables, session, run
<1>7. QED
  BY <1>1, <1>2, <1>4, <1>5, <1>6 DEF Next

LEMMA Safe == Spec => []IInv
BY InitSafe, StepSafe, PTL DEF Spec

\* No two workers are ever in the middle of a request for the same URL.
THEOREM OneRequest == Spec => []OneRequestPerUrl
<1>1. IInv => OneRequestPerUrl
  BY DEF IInv, RequestHoldsLock, OneRequestPerUrl
<1>2. QED
  BY <1>1, Safe, PTL

\* A URL that has spent its attempts is dead-lettered.
THEOREM ExhaustedListed == Spec => []ExhaustedIsListed
<1>1. IInv => ExhaustedIsListed
  BY DEF IInv
<1>2. QED
  BY <1>1, Safe, PTL

\* A dead letter is never taken back.
THEOREM DeadLetterKept == Spec => DeadLetterIsFinal
<1>1. IInv /\ [Next]_vars => [\A u \in Urls : row[u].dead => row'[u].dead]_vars
  BY StepSafe DEF RowStep
<1>2. QED
  BY <1>1, Safe, PTL DEF Spec, DeadLetterIsFinal

-----------------------------------------------------------------------------
(* The leases of a run that ends *)

\* What is known of leases: work is at hand only while a batch is worked on, a
\* verdict only at the end, a URL that was claimed keeps its lease until it is
\* written back, a session that claimed its URL has loaded the lease, and what a
\* real run has claimed is in its batch.
BatchAtWork ==
    \A w \in Workers : batch[w] # {} => pc[w] \in {"batch", "handling", "fetching"}

VerdictAtEnd == \A w \in Workers : verdict[w] # "none" => pc[w] = "closing"

HeldIsLeased ==
    \A u \in Urls : holder[u] # NoWorker =>
                        row[u].state # "absent" /\ row[u].lease # NoLease

LeaseIsLoaded ==
    \A w \in Workers :
        pc[w] \in {"handling", "fetching"} /\ holder[cur[w]] = w =>
            mine[w].lease # NoLease

HeldIsInBatch ==
    \A w \in Workers \ dry : \A u \in Urls :
        holder[u] = w /\ verdict[w] # "failed" => u \in batch[w]

LInv ==
    /\ IInv
    /\ BatchAtWork
    /\ VerdictAtEnd
    /\ HeldIsLeased
    /\ LeaseIsLoaded
    /\ HeldIsInBatch

\* What a step of one worker leaves of the other runs
RunsKept(w) ==
    /\ dry' = dry
    /\ \A x \in Workers \ {w} :
        /\ pc'[x] = pc[x] /\ cur'[x] = cur[x] /\ mine'[x] = mine[x]
        /\ batch'[x] = batch[x] /\ verdict'[x] = verdict[x]
    /\ \A u \in Urls : holder'[u] \in {holder[u], w, NoWorker}

\* What it owes itself
OwnLeases(w) ==
    /\ batch'[w] # {} => pc'[w] \in {"batch", "handling", "fetching"}
    /\ verdict'[w] # "none" => pc'[w] = "closing"
    /\ pc'[w] \in {"handling", "fetching"} /\ holder'[cur'[w]] = w =>
            mine'[w].lease # NoLease
    /\ w \notin dry => \A u \in Urls :
            holder'[u] = w /\ verdict'[w] # "failed" => u \in batch'[w]

LEMMA LeaseStep ==
    ASSUME LInv, IInv', NEW w \in Workers, RunsKept(w), OwnLeases(w), HeldIsLeased'
    PROVE  LInv'
<1>1. TypeOK
  BY DEF LInv, IInv
<1>2. ASSUME NEW x \in Workers
      PROVE  /\ batch'[x] # {} => pc'[x] \in {"batch", "handling", "fetching"}
             /\ verdict'[x] # "none" => pc'[x] = "closing"
             /\ pc'[x] \in {"handling", "fetching"} /\ holder'[cur'[x]] = x =>
                    mine'[x].lease # NoLease
             /\ x \notin dry => \A u \in Urls :
                    holder'[u] = x /\ verdict'[x] # "failed" => u \in batch'[x]
  <2>1. CASE x = w
    BY <2>1 DEF OwnLeases
  <2>2. CASE x # w
    <3>1. /\ pc'[x] = pc[x] /\ cur'[x] = cur[x] /\ mine'[x] = mine[x]
          /\ batch'[x] = batch[x] /\ verdict'[x] = verdict[x]
      BY <2>2 DEF RunsKept
    <3>2. \A u \in Urls : holder'[u] = x => holder[u] = x
      BY <2>2, CrawlAssumption DEF RunsKept
    <3>3. pc[x] \in {"handling", "fetching"} => cur[x] \in Urls
      BY <1>1 DEF TypeOK
    <3>4. QED
      BY <3>1, <3>2, <3>3 DEF LInv, BatchAtWork, VerdictAtEnd, LeaseIsLoaded, HeldIsInBatch
  <2>3. QED
    BY <2>1, <2>2
<1>3. dry' = dry
  BY DEF RunsKept
<1>4. BatchAtWork' /\ VerdictAtEnd' /\ LeaseIsLoaded' /\ HeldIsInBatch'
  BY <1>2, <1>3 DEF BatchAtWork, VerdictAtEnd, LeaseIsLoaded, HeldIsInBatch
<1>5. QED
  BY <1>4 DEF LInv

\* Rows that keep their leases and claims keep what is known of them.
LEMMA RowsLeased ==
    ASSUME LInv, holder' = holder,
           \A u \in Urls : /\ row[u].state # "absent" => row'[u].state # "absent"
                           /\ row[u].state # "absent" /\ row[u].lease # NoLease =>
                                row'[u].lease # NoLease
    PROVE  HeldIsLeased'
BY DEF LInv, HeldIsLeased

LEMMA ForgetLeases ==
    ASSUME LInv, IInv', NEW w \in Workers, Forget(w), dry' = dry
    PROVE  LInv'
<1>1. TypeOK
  BY DEF LInv, IInv
<1>2. RunsKept(w)
  BY <1>1 DEF RunsKept, Forget, Goto, TypeOK
<1>3. OwnLeases(w)
  BY <1>1, CrawlAssumption DEF OwnLeases, Forget, Goto, TypeOK
<1>4. HeldIsLeased'
  BY <1>1 DEF LInv, HeldIsLeased, Forget, TypeOK
<1>5. QED
  BY <1>2, <1>3, <1>4, LeaseStep

LEMMA AbortLeases ==
    ASSUME LInv, IInv', NEW w \in Workers, Abort(w)
    PROVE  LInv'
<1>1. TypeOK
  BY DEF LInv, IInv
<1>2. RunsKept(w)
  BY <1>1 DEF RunsKept, Abort, Goto, TypeOK, history
<1>3. OwnLeases(w)
  BY <1>1 DEF OwnLeases, Abort, Goto, TypeOK
<1>4. HeldIsLeased'
  BY RowsLeased DEF Abort, history
<1>5. QED
  BY <1>2, <1>3, <1>4, LeaseStep

\* A step that changes neither a row nor a claim, of a run with nothing in its
\* batch
LEMMA IdleLeases ==
    ASSUME LInv, IInv', NEW w \in Workers, batch[w] = {}, batch' = batch,
           UNCHANGED <<cur, mine, holder, dry>>,
           \A u \in Urls : /\ row[u].state # "absent" => row'[u].state # "absent"
                           /\ row[u].state # "absent" /\ row[u].lease # NoLease =>
                                row'[u].lease # NoLease,
           NEW l, l \notin {"handling", "fetching"}, pc' = [pc EXCEPT ![w] = l],
           verdict[w] # "failed",
           \/ verdict' = verdict /\ verdict[w] = "none"
           \/ /\ l = "closing"
              /\ \E v : verdict' = [verdict EXCEPT ![w] = v]
    PROVE  LInv'
<1>1. TypeOK
  BY DEF LInv, IInv
<1>2. RunsKept(w)
  BY <1>1 DEF RunsKept, TypeOK
<1>3. OwnLeases(w)
  BY <1>1 DEF OwnLeases, TypeOK, LInv, HeldIsInBatch
<1>4. HeldIsLeased'
  BY RowsLeased
<1>5. QED
  BY <1>2, <1>3, <1>4, LeaseStep

LEMMA OpenLeases ==
    ASSUME LInv, IInv', NEW w \in Workers, Open(w)
    PROVE  LInv'
<1>1. TypeOK /\ IInv
  BY DEF LInv, IInv
<1>2. pc[w] \in {"idle", "opening", "seeding"}
  BY DEF Open, ResumeJob, FindNoJob, OpenJob, Seed
<1>3. batch[w] = {} /\ verdict[w] = "none"
  BY <1>2 DEF LInv, BatchAtWork, VerdictAtEnd
<1>4. CASE ResumeJob(w)
  BY <1>3, <1>4, IdleLeases DEF ResumeJob, Goto, tables, session, world, history
<1>5. CASE FindNoJob(w)
  BY <1>3, <1>5, IdleLeases DEF FindNoJob, Goto, tables, session, run, world, history
<1>6. CASE OpenJob(w)
  BY <1>3, <1>6, IdleLeases DEF OpenJob, Goto, session, world
<1>7. CASE Seed(w)
  <2>1. PICK forbidden \in SUBSET Volatile :
            row' = ReclaimExpired(Enqueue(row, Seeds \ forbidden))
    BY <1>7 DEF Seed
  <2> DEFINE rows == Enqueue(row, Seeds \ forbidden)
  <2>2. rows \in [Urls -> Row]
    BY <1>1, EnqueueType DEF TypeOK
  <2>3. \A u \in Urls : rows[u] = row[u] \/ (row[u].state = "absent" /\ rows[u] = Fresh)
    BY <1>1, EnqueueStep DEF TypeOK
  <2>4. \A u \in Urls : rows[u].state # "downloading"
    BY <1>1, <2>3, FreshRow DEF IInv, NoCommittedDownloading
  <2>5. \A u \in Urls : row'[u] = rows[u]
    BY <2>1, <2>2, <2>4 DEF ReclaimExpired
  <2>6. \A u \in Urls : row[u].state # "absent" => row'[u] = row[u]
    BY <2>3, <2>5
  <2>7. /\ UNCHANGED <<cur, mine, holder, dry, batch, verdict>>
        /\ pc' = [pc EXCEPT ![w] = "loop"]
    BY <1>7 DEF Seed, Goto, session, world, history
  <2>8. QED
    BY <1>3, <2>6, <2>7, IdleLeases
<1>8. QED
  BY <1>4, <1>5, <1>6, <1>7 DEF Open

LEMMA LoopLeases ==
    ASSUME LInv, IInv', NEW w \in Workers, Loop(w)
    PROVE  LInv'
<1>1. TypeOK /\ IInv
  BY DEF LInv, IInv
<1>2. pc[w] \in {"loop", "batch"}
  BY DEF Loop, Stop, Claim, Drained, EndBatch, GiveBackAll, SkipInspected, Handle
<1>3. verdict[w] = "none" /\ (pc[w] = "loop" => batch[w] = {})
  BY <1>2 DEF LInv, BatchAtWork, VerdictAtEnd
<1>4. CASE Stop(w)
  BY <1>3, <1>4, IdleLeases DEF Stop, Goto, tables, session, world, history
<1>5. CASE Drained(w)
  BY <1>3, <1>5, IdleLeases DEF Drained, Goto, tables, session, world, history
<1>6. CASE EndBatch(w)
  BY <1>3, <1>6, IdleLeases DEF EndBatch, Goto, tables, session, world, history
<1>7. CASE Claim(w)
  <2> DEFINE taken == FirstOf(Available)
  <2>1. /\ row' = [u \in Urls |-> IF u \in taken THEN Lease(row[u]) ELSE row[u]]
        /\ holder' = [u \in Urls |-> IF u \in taken THEN w ELSE holder[u]]
        /\ batch' = [batch EXCEPT ![w] = taken]
        /\ pc' = [pc EXCEPT ![w] = "batch"]
        /\ UNCHANGED <<cur, mine, verdict, dry>> /\ pc[w] = "loop"
    BY <1>7 DEF Claim, Goto, session, world
  <2>2. \A u \in taken : u \in Urls /\ row[u].state # "absent"
    BY DEF FirstOf, Available, Claimable
  <2>3. \A u \in Urls : /\ Lease(row[u]).state = row[u].state
                        /\ Lease(row[u]).lease # NoLease
    BY <1>1, QueueAssumption DEF Lease, TypeOK, Row, NoLease
  <2>4. HeldIsLeased'
    BY <2>1, <2>2, <2>3 DEF LInv, HeldIsLeased
  <2>5. RunsKept(w)
    BY <1>1, <2>1 DEF RunsKept, TypeOK
  <2>6. OwnLeases(w)
    <3>1. pc'[w] = "batch" /\ batch'[w] = taken /\ verdict'[w] = "none"
      BY <1>1, <1>3, <2>1 DEF TypeOK
    <3>2. w \notin dry => \A u \in Urls : holder[u] # w
      BY <1>3, <2>1 DEF LInv, HeldIsInBatch
    <3>3. QED
      BY <2>1, <3>1, <3>2 DEF OwnLeases
  <2>7. QED
    BY <2>4, <2>5, <2>6, LeaseStep
<1>8. CASE GiveBackAll(w)
  <2>1. /\ row' = [v \in Urls |-> IF v \in batch[w] THEN Release(row[v]) ELSE row[v]]
        /\ holder' = [v \in Urls |-> IF v \in batch[w] /\ row'[v].lease = NoLease
                                     THEN NoWorker ELSE holder[v]]
        /\ batch' = [batch EXCEPT ![w] = {}]
        /\ pc' = [pc EXCEPT ![w] = "closing"]
        /\ UNCHANGED <<cur, mine, dry>>
        /\ \E v : verdict' = [verdict EXCEPT ![w] = v]
    BY <1>8 DEF GiveBackAll, Goto, session, world
  <2>2. \A u \in Urls : /\ Release(row[u]).state = row[u].state
                        /\ Release(row[u]).lease = NoLease
    BY <1>1 DEF Release, TypeOK, Row
  <2>3. \A v \in Urls : /\ v \in batch[w] => holder'[v] = NoWorker
                        /\ v \notin batch[w] => holder'[v] = holder[v] /\ row'[v] = row[v]
    BY <2>1, <2>2
  <2>4. HeldIsLeased'
    BY <2>3 DEF LInv, HeldIsLeased
  <2>5. RunsKept(w)
    BY <1>1, <2>1, <2>3 DEF RunsKept, TypeOK
  <2>6. OwnLeases(w)
    <3>1. pc'[w] = "closing" /\ batch'[w] = {}
      BY <1>1, <2>1 DEF TypeOK
    <3>2. w \notin dry => \A u \in Urls : holder'[u] # w
      BY <1>3, <2>3, CrawlAssumption DEF LInv, HeldIsInBatch
    <3>3. QED
      BY <3>1, <3>2 DEF OwnLeases
  <2>7. QED
    BY <2>4, <2>5, <2>6, LeaseStep
<1>9. CASE SkipInspected(w)
  <2>1. PICK u \in Urls : /\ AlreadyInspected(w, u)
                          /\ batch' = [batch EXCEPT ![w] = @ \ {u}]
    BY <1>9 DEF SkipInspected
  <2>2. UNCHANGED <<row, holder, pc, cur, mine, verdict, dry>> /\ pc[w] = "batch"
    BY <1>9 DEF SkipInspected, tables, session, world, history
  <2>3. HeldIsLeased' /\ RunsKept(w)
    BY <1>1, <2>1, <2>2 DEF LInv, HeldIsLeased, RunsKept, TypeOK
  <2>4. OwnLeases(w)
    BY <1>1, <1>3, <2>1, <2>2 DEF OwnLeases, AlreadyInspected
  <2>5. QED
    BY <2>3, <2>4, LeaseStep
<1>10. CASE Handle(w)
  <2>1. PICK u \in Urls : /\ u \in batch[w]
                          /\ cur' = [cur EXCEPT ![w] = u]
                          /\ mine' = [mine EXCEPT ![w] = Loaded(row[u])]
    BY <1>10 DEF Handle, Turn
  <2>2. /\ pc' = [pc EXCEPT ![w] = "handling"]
        /\ UNCHANGED <<row, holder, batch, verdict, dry>>
    BY <1>10 DEF Handle, Goto, tables, world, history
  <2>3. HeldIsLeased' /\ RunsKept(w)
    BY <1>1, <2>1, <2>2 DEF LInv, HeldIsLeased, RunsKept, TypeOK
  <2>4. Loaded(row[u]).lease = row[u].lease
    BY <1>1 DEF Loaded, TypeOK, Row
  <2>5. OwnLeases(w)
    <3>1. /\ pc'[w] = "handling" /\ cur'[w] = u /\ mine'[w] = Loaded(row[u])
          /\ batch'[w] = batch[w] /\ verdict'[w] = "none"
      BY <1>1, <1>3, <2>1, <2>2 DEF TypeOK
    <3>2. holder[u] = w => row[u].lease # NoLease
      BY CrawlAssumption DEF LInv, HeldIsLeased
    <3>3. w \notin dry => \A v \in Urls : holder[v] = w => v \in batch[w]
      BY <1>3 DEF LInv, HeldIsInBatch
    <3>4. QED
      BY <2>2, <2>4, <3>1, <3>2, <3>3 DEF OwnLeases
  <2>6. QED
    BY <2>3, <2>5, LeaseStep
<1>11. QED
  BY <1>4, <1>5, <1>6, <1>7, <1>8, <1>9, <1>10 DEF Loop

\* The commit of an outcome that gives the lease up
LEMMA CommitLeases ==
    ASSUME LInv, IInv', NEW w \in Workers, NEW final, NEW found,
           pc[w] \in {"handling", "fetching"},
           Commit(w, final, found), final.lease = NoLease,
           final.state = mine[w].state \/ final.state # "absent"
    PROVE  LInv'
<1> DEFINE u == cur[w]
           flushed == Flush(mine[w], final, row[u])
<1>1. TypeOK /\ IInv /\ u \in Urls /\ verdict[w] = "none"
  BY DEF LInv, IInv, TypeOK, VerdictAtEnd
<1>2. /\ row' = Enqueue([row EXCEPT ![u] = flushed], found)
      /\ holder' = [holder EXCEPT ![u] = IF row'[u].lease = NoLease THEN NoWorker ELSE @]
      /\ batch' = [batch EXCEPT ![w] = @ \ {u}]
      /\ cur' = [cur EXCEPT ![w] = NoUrl]
      /\ pc' = [pc EXCEPT ![w] = "batch"]
      /\ UNCHANGED <<mine, verdict, dry>>
  BY DEF Commit, Goto, world
<1>3. row'[u].lease = flushed.lease /\ row'[u].state # "absent"
  <2>1. flushed.state = IF final.state = mine[w].state THEN row[u].state ELSE final.state
    BY DEF Flush
  <2>2. flushed.state # "absent"
    BY <1>1, <2>1 DEF IInv, ClaimedIsKnown
  <2>3. QED
    BY <1>1, <1>2, <2>2 DEF Enqueue, TypeOK
<1>4. \A v \in Urls \ {u} : row[v].state # "absent" => row'[v] = row[v]
  BY <1>1, <1>2 DEF Enqueue, TypeOK
<1>5. flushed.lease = IF mine[w].lease = NoLease THEN row[u].lease ELSE NoLease
  BY DEF Flush
<1>6. holder[u] = w => holder'[u] = NoWorker
  BY <1>1, <1>2, <1>3, <1>5 DEF LInv, LeaseIsLoaded, TypeOK
<1>7. HeldIsLeased'
  BY <1>1, <1>2, <1>3, <1>4 DEF LInv, HeldIsLeased, TypeOK
<1>8. RunsKept(w)
  BY <1>1, <1>2 DEF RunsKept, TypeOK
<1>9. OwnLeases(w)
  <2>1. /\ pc'[w] = "batch" /\ batch'[w] = batch[w] \ {u} /\ verdict'[w] = "none"
        /\ holder' \in [Urls -> Workers \cup {NoWorker}]
    BY <1>1, <1>2 DEF TypeOK
  <2>2. \A v \in Urls : holder'[v] = w => v # u /\ holder[v] = w
    BY <1>1, <1>2, <1>6, CrawlAssumption DEF TypeOK
  <2>3. w \notin dry => \A v \in Urls : holder[v] = w => v \in batch[w]
    BY <1>1 DEF LInv, HeldIsInBatch
  <2>4. QED
    BY <2>1, <2>2, <2>3 DEF OwnLeases
<1>10. QED
  BY <1>7, <1>8, <1>9, LeaseStep

\* Every outcome gives the lease up and leaves the URL known.
LEMMA OutcomeUnleased ==
    ASSUME NEW r \in SessionRow
    PROVE  /\ Settle(r).lease = NoLease /\ Settle(r).state = r.state
           /\ \A n : Defer(r, n).lease = NoLease /\ Defer(r, n).state = r.state
           /\ SettleFailure(r).lease = NoLease /\ SettleFailure(r).state = r.state
<1>1. Settle(r).lease = NoLease /\ Settle(r).state = r.state
  BY DEF Settle, SessionRow
<1>2. \A n : Defer(r, n).lease = NoLease /\ Defer(r, n).state = r.state
  BY DEF Defer, SessionRow
<1>3. \A n : /\ Defer(Settle(r), n).lease = NoLease
             /\ Defer(Settle(r), n).state = r.state
  <2>1. Settle(r) \in SessionRow
    BY SettleType
  <2> QED
    BY <1>1, <2>1 DEF Defer, SessionRow
<1>4. QED
  BY <1>1, <1>2, <1>3 DEF SettleFailure

\* A request changes the state of the copy at the most.
LEMMA BeginLeases ==
    ASSUME LInv, IInv', NEW w \in Workers, pc[w] = "handling",
           BeginRequest(w), NEW r, mine' = [mine EXCEPT ![w] = r],
           r.lease = mine[w].lease
    PROVE  LInv'
<1>1. TypeOK /\ verdict[w] = "none"
  BY DEF LInv, IInv, VerdictAtEnd
<1>2. /\ pc' = [pc EXCEPT ![w] = "fetching"]
      /\ UNCHANGED <<row, cur, batch, verdict, holder, dry>>
  BY DEF BeginRequest, Goto, run, world, history
<1>3. RunsKept(w) /\ HeldIsLeased'
  BY <1>1, <1>2 DEF LInv, HeldIsLeased, RunsKept, TypeOK
<1>4. OwnLeases(w)
  BY <1>1, <1>2 DEF OwnLeases, TypeOK, LInv, LeaseIsLoaded, HeldIsInBatch
<1>5. QED
  BY <1>3, <1>4, LeaseStep

LEMMA TransactLeases ==
    ASSUME LInv, IInv', NEW w \in Workers, Transact(w)
    PROVE  LInv'
<1>1. /\ mine[w] \in SessionRow /\ mine \in [Workers -> SessionRow]
      /\ {"failed", "quarantined", "downloaded", "downloading"} \subseteq DocumentState
  BY DEF LInv, IInv, TypeOK, DocumentState
<1>r. \* a retired URL
  LET retired == Settle([mine[w] EXCEPT !.dead = TRUE])
  IN  retired.lease = NoLease /\ retired.state = mine[w].state
  <2> DEFINE out == [mine[w] EXCEPT !.dead = TRUE]
  <2>1. out \in SessionRow /\ out.state = mine[w].state
    BY <1>1, OutcomeType DEF SessionRow
  <2>2. QED
    BY <2>1, OutcomeUnleased
<1>f. \* a URL that failed
  LET failed == SettleFailure([mine[w] EXCEPT !.state = "failed", !.attempts = @ + 1])
  IN  failed.lease = NoLease /\ failed.state # "absent"
  <2> DEFINE out == [mine[w] EXCEPT !.state = "failed", !.attempts = @ + 1]
  <2>1. out \in SessionRow
    BY <1>1, ChargeType
  <2>2. out.state = "failed"
    BY <1>1 DEF SessionRow
  <2>3. QED
    BY <2>1, <2>2, OutcomeUnleased
<1>2. CASE Refuse(w)
  BY <1>2, <1>r, CommitLeases DEF Refuse
<1>3. CASE WouldFetch(w)
  BY <1>3, <1>1, OutcomeUnleased, CommitLeases DEF WouldFetch, Permitted
<1>4. CASE AlreadyAcquired(w)
  BY <1>4, <1>1, OutcomeUnleased, CommitLeases DEF AlreadyAcquired, Permitted
<1>5. CASE BeginDownload(w)
  <2> DEFINE r == [mine[w] EXCEPT !.state = "downloading"]
  <2>1. r.lease = mine[w].lease
    BY <1>1 DEF SessionRow
  <2>2. mine' = [mine EXCEPT ![w] = r] /\ pc[w] = "handling" /\ BeginRequest(w)
    BY <1>5 DEF BeginDownload, Permitted
  <2>3. QED
    BY <2>1, <2>2, BeginLeases
<1>6. CASE BeginPage(w)
  <2>1. mine' = [mine EXCEPT ![w] = mine[w]]
    BY <1>1, <1>6 DEF BeginPage
  <2>2. QED
    BY <1>6, <2>1, BeginLeases DEF BeginPage, Permitted
<1>7. CASE IllegalTransition(w)
  BY <1>7, AbortLeases DEF IllegalTransition
<1>8. CASE Acquired(w)
  <2>1. PICK tries \in 1..FetchTries :
            Commit(w, Settle([mine[w] EXCEPT !.state = "downloaded",
                                             !.document = TRUE,
                                             !.attempts = tries]), {})
    BY <1>8 DEF Acquired
  <2> DEFINE out == [mine[w] EXCEPT !.state = "downloaded", !.document = TRUE,
                                    !.attempts = tries]
  <2>a. tries \in Nat
    BY CrawlAssumption
  <2>2. out \in SessionRow /\ out.state = "downloaded"
    BY <1>1, <2>a, OutcomeType DEF SessionRow
  <2>3. Settle(out).lease = NoLease /\ Settle(out).state = "downloaded"
    BY <2>2, OutcomeUnleased
  <2>4. QED
    BY <1>8, <2>1, <2>3, CommitLeases DEF Acquired, Downloading
<1>9. CASE Quarantine(w)
  <2> DEFINE out == [mine[w] EXCEPT !.state = "quarantined", !.attempts = @ + 1]
  <2>1. out \in SessionRow
    BY <1>1, ChargeType
  <2>2. out.state = "quarantined"
    BY <1>1 DEF SessionRow
  <2>3. Settle(out).lease = NoLease /\ Settle(out).state = "quarantined"
    BY <2>1, <2>2, OutcomeUnleased
  <2>4. QED
    BY <1>9, <2>3, CommitLeases DEF Quarantine, Downloading
<1>10. CASE FailDownload(w)
  BY <1>10, <1>f, CommitLeases DEF FailDownload, Downloading
<1>11. CASE CancelDownload(w)
  BY <1>11, AbortLeases DEF CancelDownload
<1>12. CASE ReadPage(w)
  BY <1>12, <1>r, CommitLeases DEF ReadPage, ReadingPage
<1>13. CASE FailPage(w)
  BY <1>13, <1>f, CommitLeases DEF FailPage, ReadingPage
<1>14. CASE RecordFails(w)
  BY <1>14, AbortLeases DEF RecordFails
<1>15. QED
  BY <1>2, <1>3, <1>4, <1>5, <1>6, <1>7, <1>8, <1>9, <1>10, <1>11, <1>12, <1>13, <1>14
     DEF Transact

LEMMA InitLeases == Init => LInv
<1> SUFFICES ASSUME Init PROVE LInv
  OBVIOUS
<1>1. /\ \A u \in Urls : holder[u] = NoWorker
      /\ \A w \in Workers : pc[w] = "idle" /\ batch[w] = {} /\ verdict[w] = "none"
  BY DEF Init
<1>2. QED
  BY <1>1, InitSafe, CrawlAssumption
     DEF LInv, BatchAtWork, VerdictAtEnd, HeldIsLeased, LeaseIsLoaded, HeldIsInBatch

LEMMA StepLeases == LInv /\ [Next]_vars => LInv'
<1> SUFFICES ASSUME LInv, [Next]_vars PROVE LInv'
  OBVIOUS
<1>1. IInv'
  BY StepSafe DEF LInv
<1>2. ASSUME NEW w \in Workers, Step(w) PROVE LInv'
  BY <1>1, <1>2, OpenLeases, LoopLeases, TransactLeases, ForgetLeases
     DEF Step, CloseJob, world
<1>3. ASSUME NEW w \in Workers, Crash(w) PROVE LInv'
  BY <1>1, <1>3, ForgetLeases DEF Crash
<1>4. ASSUME UNCHANGED <<pc, cur, mine, batch, verdict, dry, holder>>,
             \A u \in Urls : /\ row'[u].state = row[u].state
                             /\ row[u].lease # NoLease => row'[u].lease # NoLease
      PROVE  LInv'
  BY <1>1, <1>4 DEF LInv, BatchAtWork, VerdictAtEnd, HeldIsLeased, LeaseIsLoaded,
                    HeldIsInBatch
<1>5. ASSUME NEW w \in Workers, Signal(w) PROVE LInv'
  BY <1>4, <1>5 DEF Signal, tables, session, run, history
<1>6. CASE Tick
  <2>1. ASSUME NEW u \in Urls
        PROVE  /\ row'[u].state = row[u].state
               /\ row[u].lease # NoLease => row'[u].lease # NoLease
    <3> DEFINE l == IF row[u].lease > 0 THEN row[u].lease - 1 ELSE row[u].lease
               n == IF row[u].wait > 0 THEN row[u].wait - 1 ELSE row[u].wait
    <3>1. row[u] \in Row /\ row'[u] = [row[u] EXCEPT !.lease = l, !.wait = n]
      BY <1>6 DEF Tick, LInv, IInv, TypeOK
    <3>2. row[u].lease # NoLease => l # NoLease
      BY <3>1, QueueAssumption DEF Row, NoLease
    <3> HIDE DEF l, n
    <3>3. QED
      BY <3>1, <3>2 DEF Row
  <2>2. QED
    BY <1>4, <1>6, <2>1 DEF Tick, run, world, history
<1>7. CASE UNCHANGED vars
  BY <1>4, <1>7 DEF vars, tables, session, run, world, history
<1>8. QED
  BY <1>2, <1>3, <1>5, <1>6, <1>7 DEF Next

LEMMA Leased == Spec => []LInv
BY InitLeases, StepLeases, PTL DEF Spec

\* A real run that ends without an exception leaves no lease of its own behind.
THEOREM NoLeaseLeft == Spec => []ClosedRunHoldsNoLease
<1>1. LInv => ClosedRunHoldsNoLease
  BY DEF LInv, BatchAtWork, HeldIsInBatch, ClosedRunHoldsNoLease
<1>2. QED
  BY <1>1, Leased, PTL

-----------------------------------------------------------------------------
(* The counters of a job *)

\* One process crawls the source at a time, as an operator runs it.
OneProcess == \A v, w \in Workers : v = w

\* What the session in progress has loaded of its job is what the job says.
TallyIsCurrent ==
    \A w \in Workers : pc[w] \in {"handling", "fetching"} =>
                            tally[w].docs = job[myjob[w]].docs

CInv == TypeOK /\ CountersAreExact /\ TallyIsCurrent

\* A step that counts nothing
LEMMA CountsNothing ==
    ASSUME CInv, TypeOK', OneProcess,
           \A j \in Jobs : job'[j].docs = job[j].docs /\ made'[j].docs = made[j].docs,
           \A w \in Workers : pc'[w] \in {"handling", "fetching"} =>
                /\ pc[w] \in {"handling", "fetching"}
                /\ myjob'[w] = myjob[w] /\ tally'[w] = tally[w]
    PROVE  CInv'
<1>1. \A w \in Workers : pc[w] \in {"handling", "fetching"} => myjob[w] \in Jobs
  BY DEF CInv, TypeOK
<1>2. QED
  BY <1>1 DEF CInv, CountersAreExact, TallyIsCurrent

LEMMA CountedOne ==
    ASSUME CInv, TypeOK', OneProcess, NEW w \in Workers,
           pc[w] \in {"handling", "fetching"}, pc' = [pc EXCEPT ![w] = "batch"],
           \/ CountAcquisition(w)
           \/ CountPage(w)
           \/ UNCHANGED <<job, made>>
    PROVE  CInv'
<1>1. /\ myjob[w] \in Jobs /\ job \in [Jobs -> JobRow] /\ made \in [Jobs -> Counts]
      /\ tally[w].docs = job[myjob[w]].docs /\ job[myjob[w]].docs = made[myjob[w]].docs
  BY DEF CInv, TypeOK, TallyIsCurrent, CountersAreExact
<1>2. \A j \in Jobs : job[j].docs = made[j].docs
  BY DEF CInv, CountersAreExact
<1>3. \A v \in Workers : pc'[v] = "batch"
  BY DEF OneProcess, CInv, TypeOK
<1>4. \A j \in Jobs : job'[j].docs = made'[j].docs
  <2>1. CASE CountAcquisition(w)
    BY <1>1, <1>2, <2>1 DEF CountAcquisition, JobRow, Counts
  <2>2. CASE CountPage(w)
    BY <1>1, <1>2, <2>2 DEF CountPage, JobRow, Counts
  <2>3. CASE UNCHANGED <<job, made>>
    BY <1>2, <2>3
  <2>4. QED
    BY <2>1, <2>2, <2>3
<1>5. QED
  BY <1>3, <1>4 DEF CInv, CountersAreExact, TallyIsCurrent

LEMMA OpenCounts ==
    ASSUME CInv, TypeOK', OneProcess, NEW w \in Workers, Open(w)
    PROVE  CInv'
<1>1. \A v \in Workers : v = w
  BY DEF OneProcess
<1>2. CASE ResumeJob(w)
  BY <1>1, <1>2, CountsNothing DEF ResumeJob, Goto, tables, history, CInv, TypeOK
<1>3. CASE FindNoJob(w)
  BY <1>1, <1>3, CountsNothing DEF FindNoJob, Goto, tables, history, CInv, TypeOK
<1>4. CASE OpenJob(w)
  <2>1. PICK j \in Jobs : /\ job' = [job EXCEPT ![j] = NewJob]
                          /\ made' = [made EXCEPT ![j] = NoCounts]
    BY <1>4 DEF OpenJob
  <2>2. CountersAreExact'
    BY <2>1 DEF CInv, CountersAreExact, TypeOK, NewJob, NoCounts
  <2>3. pc'[w] = "seeding"
    BY <1>4 DEF OpenJob, Goto, CInv, TypeOK
  <2>4. QED
    BY <1>1, <2>2, <2>3 DEF CInv, TallyIsCurrent
<1>5. CASE Seed(w)
  <2>1. job' = [job EXCEPT ![myjob[w]].pages = 0] /\ made' = made
    BY <1>5 DEF Seed, history
  <2>2. \A j \in Jobs : job'[j].docs = job[j].docs
    BY <2>1 DEF CInv, TypeOK, JobRow
  <2>3. pc'[w] = "loop"
    BY <1>5 DEF Seed, Goto, CInv, TypeOK
  <2>4. QED
    BY <1>1, <2>1, <2>2, <2>3, CountsNothing
<1>6. QED
  BY <1>2, <1>3, <1>4, <1>5 DEF Open

LEMMA LoopCounts ==
    ASSUME CInv, TypeOK', OneProcess, NEW w \in Workers, Loop(w)
    PROVE  CInv'
<1>1. \A v \in Workers : v = w
  BY DEF OneProcess
<1>2. UNCHANGED <<job, made>>
  BY DEF Loop, Stop, Claim, Drained, EndBatch, GiveBackAll, SkipInspected, Handle,
         tables, history
<1>3. CASE Handle(w)
  <2>1. tally' = [tally EXCEPT ![w] = Counters(w)] /\ myjob' = myjob
    BY <1>3 DEF Handle
  <2>2. tally'[w].docs = job'[myjob'[w]].docs
    BY <1>2, <2>1 DEF Counters, CInv, TypeOK
  <2>3. QED
    BY <1>1, <1>2, <2>2 DEF CInv, CountersAreExact, TallyIsCurrent
<1>4. CASE ~Handle(w)
  <2>1. pc'[w] \notin {"handling", "fetching"}
    BY <1>4 DEF Loop, Stop, Claim, Drained, EndBatch, GiveBackAll, SkipInspected, Goto,
                CInv, TypeOK
  <2>2. QED
    BY <1>1, <1>2, <2>1, CountsNothing
<1>5. QED
  BY <1>3, <1>4

LEMMA TransactCounts ==
    ASSUME CInv, TypeOK', OneProcess, NEW w \in Workers, Transact(w)
    PROVE  CInv'
<1>1. \A v \in Workers : v = w
  BY DEF OneProcess
<1>2. pc[w] \in {"handling", "fetching"}
  BY DEF Transact, Refuse, WouldFetch, AlreadyAcquired, BeginDownload, BeginPage,
         IllegalTransition, Acquired, RecordFails, Quarantine, FailDownload,
         CancelDownload, ReadPage, FailPage, Permitted, Downloading, ReadingPage
<1>3. CASE BeginDownload(w) \/ BeginPage(w)
  BY <1>1, <1>2, <1>3, CountsNothing
     DEF BeginDownload, BeginPage, BeginRequest, tables, run, history
<1>4. CASE IllegalTransition(w) \/ CancelDownload(w) \/ RecordFails(w)
  BY <1>1, <1>4, CountsNothing
     DEF IllegalTransition, CancelDownload, RecordFails, Abort, Goto, history, CInv, TypeOK
<1>5. ASSUME NEW final, NEW found, Commit(w, final, found)
      PROVE  pc' = [pc EXCEPT ![w] = "batch"]
  BY <1>5 DEF Commit, Goto
<1>6. CASE Refuse(w) \/ WouldFetch(w) \/ AlreadyAcquired(w) \/ Acquired(w)
           \/ Quarantine(w) \/ FailDownload(w) \/ ReadPage(w) \/ FailPage(w)
  BY <1>2, <1>5, <1>6, CountedOne
     DEF Refuse, WouldFetch, AlreadyAcquired, Acquired, Quarantine, FailDownload,
         ReadPage, FailPage
<1>7. QED
  BY <1>3, <1>4, <1>6 DEF Transact

LEMMA StepCounts == OneProcess => (CInv /\ [Next]_vars => CInv')
<1> SUFFICES ASSUME OneProcess, CInv, [Next]_vars PROVE CInv'
  OBVIOUS
<1>1. TypeOK'
  BY StepType DEF CInv
<1>2. ASSUME NEW w \in Workers, Forget(w),
             \A j \in Jobs : job'[j].docs = job[j].docs
      PROVE  CInv'
  <2>1. \A v \in Workers : pc'[v] = "idle"
    BY <1>2 DEF Forget, Goto, OneProcess, CInv, TypeOK
  <2>2. QED
    BY <1>1, <1>2, <2>1, CountsNothing DEF Forget
<1>3. ASSUME NEW w \in Workers, CloseJob(w) PROVE CInv'
  <2>1. \A j \in Jobs : job'[j].docs = job[j].docs
    BY <1>3 DEF CloseJob, CInv, TypeOK, JobRow
  <2>2. QED
    BY <1>2, <1>3, <2>1 DEF CloseJob
<1>4. ASSUME NEW w \in Workers, Crash(w) PROVE CInv'
  BY <1>2, <1>4 DEF Crash
<1>5. ASSUME NEW w \in Workers, Step(w) PROVE CInv'
  BY <1>1, <1>3, <1>5, OpenCounts, LoopCounts, TransactCounts DEF Step
<1>6. ASSUME NEW w \in Workers, Signal(w) PROVE CInv'
  BY <1>1, <1>6, CountsNothing DEF Signal, tables, session, run, history
<1>7. CASE Tick
  BY <1>1, <1>7, CountsNothing DEF Tick, run, history
<1>8. CASE UNCHANGED vars
  BY <1>1, <1>8, CountsNothing DEF vars, tables, session, run, history
<1>9. QED
  BY <1>4, <1>5, <1>6, <1>7, <1>8 DEF Next

\* With one process, the counters of a job say how many acquisitions were
\* committed under it.
THEOREM CountersExact ==
    ASSUME OneProcess
    PROVE  Spec => []CountersAreExact
<1>1. Init => CInv
  BY InitType DEF Init, CInv, CountersAreExact, TallyIsCurrent, NewJob, NoCounts
<1>2. CInv /\ [Next]_vars => CInv'
  BY StepCounts
<1>3. CInv => CountersAreExact
  BY DEF CInv
<1>4. QED
  BY <1>1, <1>2, <1>3, PTL DEF Spec

-----------------------------------------------------------------------------
(* The promise of the queue: what a row says of its URL *)

\* What the mapping of ImplementsDelivery reads of a row
TriesOf(r) == IF StatusOf(r) \in {"pending", "exhausted"} THEN r.attempts ELSE 0

LEMMA StatusByState ==
    ASSUME NEW r \in Row
    PROVE  /\ StatusOf(r) = "unknown" <=> r.state = "absent"
           /\ r.state = "downloaded" => StatusOf(r) = "acquired"
           /\ r.state = "quarantined" => StatusOf(r) = "quarantined"
           /\ r.state \in {"discovered", "failed"} /\ ~r.dead => StatusOf(r) = "pending"
           /\ r.state \in {"discovered", "failed"} /\ r.dead =>
                StatusOf(r) = IF Exhausted(r) THEN "exhausted" ELSE "retired"
<1>1. r.dead \in BOOLEAN
  BY DEF Row
<1>2. QED
  BY <1>1 DEF StatusOf

LEMMA FreshStatus == StatusOf(Fresh) = "pending" /\ TriesOf(Fresh) = 0
<1>1. Fresh \in Row
  BY DEF Fresh, Absent, Row, DocumentState, NoLease
<1>2. QED
  BY <1>1, FreshRow, StatusByState DEF TriesOf

\* Rows that differ in timers, or in nothing, say the same.
LEMMA SameStatus ==
    ASSUME NEW r \in Row, NEW s \in Row,
           s.state = r.state, s.attempts = r.attempts, s.dead = r.dead
    PROVE  StatusOf(s) = StatusOf(r) /\ TriesOf(s) = TriesOf(r)
BY DEF StatusOf, TriesOf, Exhausted

LEMMA QueueStutters ==
    ASSUME TypeOK, TypeOK',
           \A u \in Urls : /\ row'[u].state = row[u].state
                           /\ row'[u].attempts = row[u].attempts
                           /\ row'[u].dead = row[u].dead
    PROVE  UNCHANGED Delivery!vars
<1>1. \A u \in Urls : /\ StatusOf(row'[u]) = StatusOf(row[u])
                      /\ TriesOf(row'[u]) = TriesOf(row[u])
  BY SameStatus DEF TypeOK
<1>2. QED
  BY <1>1 DEF Delivery!vars, TriesOf

\* New URLs are pending, with no attempt charged.
LEMMA QueueDiscovers ==
    ASSUME TypeOK, NEW S \in SUBSET Urls, row' = Enqueue(row, S)
    PROVE  Delivery!Discover(S)
<1>1. ASSUME NEW u \in Urls
      PROVE  /\ StatusOf(row'[u]) = IF u \in S /\ StatusOf(row[u]) = "unknown"
                                    THEN "pending" ELSE StatusOf(row[u])
             /\ TriesOf(row'[u]) = TriesOf(row[u])
  <2>1. row[u] \in Row /\ row'[u] = IF u \in S /\ row[u].state = "absent" THEN Fresh ELSE row[u]
    BY DEF TypeOK, Enqueue
  <2>2. StatusOf(row[u]) = "unknown" <=> row[u].state = "absent"
    BY <2>1, StatusByState
  <2>3. row[u].state = "absent" => TriesOf(row[u]) = 0
    BY <2>2 DEF TriesOf
  <2>4. QED
    BY <2>1, <2>2, <2>3, FreshStatus
<1>2. QED
  BY <1>1 DEF Delivery!Discover, Delivery!Found, TriesOf

LEMMA QueueConcludes ==
    ASSUME TypeOK, NEW u \in Urls, NEW S \in SUBSET Urls,
           NEW outcome \in {"acquired", "quarantined", "retired"},
           StatusOf(row[u]) = "pending", StatusOf(row'[u]) = outcome,
           \A v \in Urls \ {u} : row'[v] = Enqueue(row, S)[v]
    PROVE  Delivery!Conclude(u, outcome, S)
<1>1. ASSUME NEW v \in Urls, v # u
      PROVE  /\ StatusOf(row'[v]) = IF v \in S /\ StatusOf(row[v]) = "unknown"
                                    THEN "pending" ELSE StatusOf(row[v])
             /\ TriesOf(row'[v]) = TriesOf(row[v])
  <2>1. row[v] \in Row /\ row'[v] = IF v \in S /\ row[v].state = "absent" THEN Fresh ELSE row[v]
    BY <1>1 DEF TypeOK, Enqueue
  <2>2. StatusOf(row[v]) = "unknown" <=> row[v].state = "absent"
    BY <2>1, StatusByState
  <2>3. row[v].state = "absent" => TriesOf(row[v]) = 0
    BY <2>2 DEF TriesOf
  <2>4. QED
    BY <2>1, <2>2, <2>3, FreshStatus
<1>2. TriesOf(row'[u]) = 0
  BY DEF TriesOf
<1>3. QED
  BY <1>1, <1>2 DEF Delivery!Conclude, Delivery!Found, TriesOf

LEMMA QueueFails ==
    ASSUME TypeOK, NEW u \in Urls,
           StatusOf(row[u]) = "pending", row'[u].attempts = row[u].attempts + 1,
           StatusOf(row'[u]) = IF row[u].attempts + 1 >= MaxAttempts THEN "exhausted"
                               ELSE "pending",
           \A v \in Urls \ {u} : row'[v] = row[v]
    PROVE  Delivery!Fail(u)
<1>1. /\ TriesOf(row[u]) = row[u].attempts
      /\ TriesOf(row'[u]) = row[u].attempts + 1
  BY DEF TriesOf
<1>2. \A v \in Urls \ {u} : /\ StatusOf(row'[v]) = StatusOf(row[v])
                            /\ TriesOf(row'[v]) = TriesOf(row[v])
  OBVIOUS
<1>3. QED
  BY <1>1, <1>2 DEF Delivery!Fail, TriesOf

-----------------------------------------------------------------------------
(* What waits for the one process, and the copy it works on *)

\* What may still be tried
MayBeTried(r) == /\ r.state \in {"discovered", "failed"}
                 /\ ~r.dead
                 /\ r.attempts < MaxAttempts

\* What one process has claimed waits for it.
BatchWaits == \A w \in Workers : \A u \in batch[w] : MayBeTried(row[u])

\* The copy that a session works on is the row, but for the DOWNLOADING it has
\* flushed.
CopyIsCurrent ==
    \A w \in Workers : pc[w] \in {"handling", "fetching"} =>
        /\ cur[w] \in batch[w]
        /\ mine[w].attempts = row[cur[w]].attempts
        /\ mine[w].dead = row[cur[w]].dead
        /\ mine[w].state = IF pc[w] = "fetching" /\ cur[w] \in Documents
                           THEN "downloading" ELSE row[cur[w]].state

DInv == LInv /\ BatchWaits /\ CopyIsCurrent

LEMMA PendingRow ==
    ASSUME NEW r \in Row, MayBeTried(r)
    PROVE  StatusOf(r) = "pending"
BY StatusByState DEF MayBeTried

\* A step with no outcome: the queue waits as before, and of the one process
\* the batch has become no larger and no copy has been made.
LEMMA NoOutcome ==
    ASSUME DInv, LInv', OneProcess, NEW w \in Workers,
           \A u \in Urls : /\ row'[u].state = row[u].state
                           /\ row'[u].attempts = row[u].attempts
                           /\ row'[u].dead = row[u].dead,
           batch'[w] \subseteq batch[w],
           \/ pc'[w] \notin {"handling", "fetching"}
           \/ /\ pc'[w] = pc[w] /\ cur'[w] = cur[w] /\ mine'[w] = mine[w]
              /\ batch'[w] = batch[w]
    PROVE  DInv' /\ UNCHANGED Delivery!vars
<1>1. TypeOK /\ TypeOK'
  BY DEF DInv, LInv, IInv
<1>2. UNCHANGED Delivery!vars
  BY <1>1, QueueStutters
<1>3. batch[w] \subseteq Urls /\ \A v \in Workers : v = w
  BY <1>1 DEF TypeOK, OneProcess
<1>4. BatchWaits'
  BY <1>3 DEF DInv, BatchWaits, MayBeTried
<1>5. CopyIsCurrent'
  BY <1>3 DEF DInv, CopyIsCurrent
<1>6. QED
  BY <1>2, <1>4, <1>5 DEF DInv

\* An outcome, written back to the row of the URL handled
LEMMA OutcomeKept ==
    ASSUME DInv, LInv', OneProcess, NEW w \in Workers, NEW final, NEW found,
           pc[w] \in {"handling", "fetching"}, Commit(w, final, found)
    PROVE  /\ DInv'
           /\ cur[w] \in Urls /\ MayBeTried(row[cur[w]]) /\ row[cur[w]] \in Row
           /\ StatusOf(row[cur[w]]) = "pending"
           /\ final.state # "absent" =>
                row'[cur[w]] = Flush(mine[w], final, row[cur[w]])
           /\ \A v \in Urls \ {cur[w]} : row'[v] = Enqueue(row, found)[v]
<1> DEFINE u == cur[w]
           flushed == Flush(mine[w], final, row[u])
<1>1. TypeOK /\ \A v \in Workers : v = w
  BY DEF DInv, LInv, IInv, OneProcess
<1>2. /\ u \in Urls /\ u \in batch[w] /\ row \in [Urls -> Row]
      /\ batch[w] \subseteq Urls
  BY <1>1 DEF TypeOK, DInv, CopyIsCurrent
<1>3. MayBeTried(row[u]) /\ StatusOf(row[u]) = "pending"
  BY <1>2, PendingRow DEF DInv, BatchWaits
<1>4. /\ row' = Enqueue([row EXCEPT ![u] = flushed], found)
      /\ batch' = [batch EXCEPT ![w] = @ \ {u}]
      /\ pc' = [pc EXCEPT ![w] = "batch"]
  BY DEF Commit, Goto
<1>5. \A v \in Urls \ {u} : row'[v] = Enqueue(row, found)[v]
  BY <1>2, <1>4 DEF Enqueue
<1>6. final.state # "absent" => row'[u] = flushed
  <2>1. flushed.state = IF final.state = mine[w].state THEN row[u].state ELSE final.state
    BY DEF Flush
  <2>2. row[u].state # "absent"
    BY <1>3 DEF MayBeTried
  <2>3. QED
    BY <1>2, <1>4, <2>1, <2>2 DEF Enqueue
<1>7. BatchWaits'
  <2>1. batch'[w] = batch[w] \ {u}
    BY <1>1, <1>4 DEF TypeOK
  <2>2. \A v \in batch[w] \ {u} : MayBeTried(row[v]) /\ row'[v] = row[v]
    BY <1>2, <1>5 DEF DInv, BatchWaits, MayBeTried, Enqueue
  <2>3. QED
    BY <1>1, <2>1, <2>2 DEF BatchWaits
<1>8. CopyIsCurrent'
  BY <1>1, <1>4 DEF CopyIsCurrent, TypeOK
<1>9. QED
  BY <1>2, <1>3, <1>5, <1>6, <1>7, <1>8 DEF DInv

\* What the queue says after an outcome that is no failure
LEMMA Concluded ==
    ASSUME DInv, LInv', OneProcess, NEW w \in Workers, NEW final \in SessionRow,
           NEW found \in SUBSET Urls,
           pc[w] \in {"handling", "fetching"}, Commit(w, final, found),
           \/ /\ final.state \in {"downloaded", "quarantined"}
              /\ mine[w].state = "downloading" /\ found = {}
           \/ /\ final.state = row[cur[w]].state /\ mine[w].state = final.state
              /\ final.attempts = mine[w].attempts /\ final.dead = TRUE
    PROVE  DInv' /\ Delivery!Next
<1> DEFINE u == cur[w]
           new == Flush(mine[w], final, row[u])
<1>1. /\ DInv' /\ u \in Urls /\ MayBeTried(row[u]) /\ row[u] \in Row
      /\ StatusOf(row[u]) = "pending"
      /\ final.state # "absent" => row'[u] = new
      /\ \A v \in Urls \ {u} : row'[v] = Enqueue(row, found)[v]
  BY OutcomeKept
<1>2. TypeOK /\ TypeOK'
  BY <1>1 DEF DInv, LInv, IInv
<1>3. row'[u] = new /\ new \in Row
  BY <1>1, <1>2 DEF MayBeTried, TypeOK
<1>4. CASE /\ final.state \in {"downloaded", "quarantined"}
           /\ mine[w].state = "downloading" /\ found = {}
  <2>1. new.state = final.state
    BY <1>4 DEF Flush
  <2> DEFINE outcome == IF final.state = "downloaded" THEN "acquired" ELSE "quarantined"
  <2>2. StatusOf(row'[u]) = outcome /\ outcome \in {"acquired", "quarantined"}
    BY <1>3, <1>4, <2>1, StatusByState
  <2>3. Delivery!Conclude(u, outcome, {})
    BY <1>1, <1>2, <1>4, <2>2, QueueConcludes
  <2>4. QED
    BY <1>1, <2>2, <2>3 DEF Delivery!Next
<1>5. CASE /\ final.state = row[u].state /\ mine[w].state = final.state
           /\ final.attempts = mine[w].attempts /\ final.dead = TRUE
  <2>1. new.state = row[u].state /\ new.attempts = row[u].attempts /\ new.dead = TRUE
    BY <1>1, <1>5 DEF Flush, DInv, CopyIsCurrent, MayBeTried
  <2>2. ~Exhausted(new)
    BY <1>1, <2>1, QueueAssumption DEF Exhausted, MayBeTried, Row
  <2>3. StatusOf(row'[u]) = "retired"
    BY <1>1, <1>3, <2>1, <2>2, StatusByState DEF MayBeTried
  <2>4. Delivery!Conclude(u, "retired", found)
    BY <1>1, <1>2, <2>3, QueueConcludes
  <2>5. QED
    BY <1>1, <2>4 DEF Delivery!Next
<1>6. QED
  BY <1>4, <1>5

\* What the queue says after a failure
LEMMA Charged ==
    ASSUME DInv, LInv', OneProcess, NEW w \in Workers, pc[w] = "fetching",
           Commit(w, SettleFailure([mine[w] EXCEPT !.state = "failed",
                                                   !.attempts = @ + 1]), {})
    PROVE  DInv' /\ Delivery!Next
<1> DEFINE u == cur[w]
           failed == [mine[w] EXCEPT !.state = "failed", !.attempts = @ + 1]
           final == SettleFailure(failed)
           new == Flush(mine[w], final, row[u])
<1>1. TypeOK /\ TypeOK' /\ mine[w] \in SessionRow /\ "failed" \in DocumentState
  BY DEF DInv, LInv, IInv, TypeOK, DocumentState
<1>2. failed \in SessionRow
  BY <1>1, ChargeType
<1>3. /\ failed.state = "failed" /\ failed.attempts = mine[w].attempts + 1
      /\ failed.dead = mine[w].dead
  BY <1>1 DEF SessionRow
<1>4. /\ final.state = "failed" /\ final.attempts = failed.attempts
      /\ final.dead = (failed.dead \/ Exhausted(failed))
  <2> HIDE DEF failed
  <2>1. QED
    BY <1>2, <1>3 DEF SettleFailure, Settle, Defer, SessionRow
<1> HIDE DEF failed, final
<1>5. /\ DInv' /\ u \in Urls /\ MayBeTried(row[u]) /\ row[u] \in Row
      /\ StatusOf(row[u]) = "pending"
      /\ row'[u] = new
      /\ \A v \in Urls \ {u} : row'[v] = Enqueue(row, {})[v]
  <2>1. Commit(w, final, {})
    BY DEF final, failed
  <2>2. QED
    BY <1>4, <2>1, OutcomeKept
<1>6. /\ mine[w].attempts = row[u].attempts /\ mine[w].dead = row[u].dead
      /\ mine[w].dead = FALSE /\ row[u].attempts \in Nat
      /\ mine[w].state \in {"downloading", row[u].state}
  BY <1>1, <1>5 DEF DInv, CopyIsCurrent, MayBeTried, Row, SessionRow
<1>7. /\ new.state = "failed"
      /\ new.attempts = row[u].attempts + 1
      /\ new.dead = (row[u].attempts + 1 >= MaxAttempts)
  <2>1. final.dead = (row[u].attempts + 1 >= MaxAttempts)
    BY <1>3, <1>4, <1>6 DEF Exhausted
  <2>2. new.state = IF final.state = mine[w].state THEN row[u].state ELSE final.state
    BY DEF Flush
  <2>3. new.attempts = IF final.attempts = mine[w].attempts THEN row[u].attempts
                       ELSE final.attempts
    BY DEF Flush
  <2>4. new.dead = IF final.dead = mine[w].dead THEN row[u].dead ELSE final.dead
    BY DEF Flush
  <2>5. new.state = "failed"
    BY <1>4, <1>6, <2>2
  <2>6. new.attempts = row[u].attempts + 1
    BY <1>3, <1>4, <1>6, <2>3
  <2>7. new.dead = final.dead
    BY <1>6, <2>4
  <2>8. QED
    BY <2>1, <2>5, <2>6, <2>7
<1> HIDE DEF new
<1>8. StatusOf(row'[u]) = IF row[u].attempts + 1 >= MaxAttempts THEN "exhausted"
                          ELSE "pending"
  <2>1. row'[u] \in Row
    BY <1>1, <1>5 DEF TypeOK
  <2>2. Exhausted(new) = (row[u].attempts + 1 >= MaxAttempts)
    BY <1>7 DEF Exhausted
  <2>3. QED
    BY <1>5, <1>7, <2>1, <2>2, StatusByState
<1>9. \A v \in Urls \ {u} : row'[v] = row[v]
  BY <1>1, <1>5 DEF Enqueue, TypeOK
<1>10. \E v \in Urls : Delivery!Fail(v)
  <2>1. PICK v \in Urls : v = u
    BY <1>5
  <2> HIDE DEF u
  <2>2. /\ StatusOf(row[v]) = "pending" /\ row'[v].attempts = row[v].attempts + 1
        /\ StatusOf(row'[v]) = IF row[v].attempts + 1 >= MaxAttempts THEN "exhausted"
                               ELSE "pending"
        /\ \A x \in Urls \ {v} : row'[x] = row[x]
    BY <1>5, <1>7, <1>8, <1>9, <2>1
  <2>3. Delivery!Fail(v)
    BY <1>1, <2>2, QueueFails
  <2>4. QED
    BY <2>3
<1>11. QED
  BY <1>5, <1>10 DEF Delivery!Next

LEMMA TransactDelivers ==
    ASSUME DInv, LInv', OneProcess, NEW w \in Workers, Transact(w)
    PROVE  DInv' /\ [Delivery!Next]_(Delivery!vars)
<1>1. /\ mine[w] \in SessionRow /\ mine \in [Workers -> SessionRow] /\ cur[w] \in Urls
      /\ {"failed", "quarantined", "downloaded", "downloading"} \subseteq DocumentState
      /\ pc[w] \in {"handling", "fetching"} /\ TypeOK
  BY DEF DInv, LInv, IInv, TypeOK, DocumentState, Transact, Refuse, WouldFetch,
         AlreadyAcquired, BeginDownload, BeginPage, IllegalTransition, Acquired,
         RecordFails, Quarantine, FailDownload, CancelDownload, ReadPage, FailPage, Permitted,
         Downloading, ReadingPage
<1>c. /\ pc[w] = "handling" \/ cur[w] \in Pages => mine[w].state = row[cur[w]].state
      /\ pc[w] = "fetching" /\ cur[w] \in Documents => mine[w].state = "downloading"
      /\ cur[w] \in batch[w] /\ MayBeTried(row[cur[w]])
  BY <1>1, CrawlAssumption DEF DInv, CopyIsCurrent, BatchWaits
<1>n. {} \in SUBSET Urls
  OBVIOUS
<1>r. \* a retired URL
  LET retired == Settle([mine[w] EXCEPT !.dead = TRUE])
  IN  /\ retired \in SessionRow /\ retired.state = mine[w].state
      /\ retired.attempts = mine[w].attempts /\ retired.dead = TRUE
  <2> DEFINE out == [mine[w] EXCEPT !.dead = TRUE]
  <2>1. /\ out \in SessionRow /\ out.state = mine[w].state /\ out.dead = TRUE
        /\ out.attempts = mine[w].attempts
    BY <1>1, OutcomeType DEF SessionRow
  <2> HIDE DEF out
  <2>2. /\ Settle(out) \in SessionRow /\ Settle(out).state = mine[w].state
        /\ Settle(out).attempts = mine[w].attempts /\ Settle(out).dead = TRUE
    BY <2>1, SettleType DEF Settle, SessionRow
  <2>3. QED
    BY <2>2 DEF out
<1>2. CASE Refuse(w)
  <2>1. /\ Commit(w, Settle([mine[w] EXCEPT !.dead = TRUE]), {})
        /\ mine[w].state = row[cur[w]].state
    BY <1>2, <1>c DEF Refuse
  <2>2. QED
    BY <1>1, <1>n, <1>r, <2>1, Concluded
<1>3. CASE WouldFetch(w)
  <2> DEFINE final == Defer(mine[w], 1)
             new == Flush(mine[w], final, row[cur[w]])
  <2>1. /\ final.state = mine[w].state /\ final.attempts = mine[w].attempts
        /\ final.dead = mine[w].dead
    BY <1>1 DEF Defer, SessionRow
  <2>2. /\ new.state = row[cur[w]].state /\ new.attempts = row[cur[w]].attempts
        /\ new.dead = row[cur[w]].dead
    BY <2>1 DEF Flush
  <2>3. Commit(w, final, {}) /\ mine[w].state # "absent"
    BY <1>3, <1>c DEF WouldFetch, Permitted, MayBeTried
  <2>4. /\ DInv' /\ row'[cur[w]] = new
        /\ \A v \in Urls \ {cur[w]} : row'[v] = row[v]
    <3>1. /\ DInv'
          /\ final.state # "absent" => row'[cur[w]] = new
          /\ \A v \in Urls \ {cur[w]} : row'[v] = Enqueue(row, {})[v]
      BY <1>1, <2>3, OutcomeKept
    <3>2. QED
      BY <1>1, <2>1, <2>3, <3>1 DEF Enqueue, TypeOK
  <2>5. TypeOK'
    BY <2>4 DEF DInv, LInv, IInv
  <2> HIDE DEF new
  <2>6. QED
    BY <1>1, <2>2, <2>4, <2>5, QueueStutters
<1>4. CASE AlreadyAcquired(w)
  BY <1>4, <1>c DEF AlreadyAcquired, Permitted, Held, MayBeTried
<1>5. CASE BeginDownload(w) \/ BeginPage(w)
  <2>1. /\ pc' = [pc EXCEPT ![w] = "fetching"]
        /\ UNCHANGED <<row, batch, cur>> /\ pc[w] = "handling"
    BY <1>5 DEF BeginDownload, BeginPage, BeginRequest, Goto, run, Permitted
  <2>2. \A v \in Workers : v = w
    BY DEF OneProcess
  <2>3. /\ mine'[w].attempts = mine[w].attempts /\ mine'[w].dead = mine[w].dead
        /\ mine'[w].state = IF cur[w] \in Documents THEN "downloading"
                            ELSE row[cur[w]].state
    BY <1>1, <1>5, <1>c, <2>1, CrawlAssumption DEF BeginDownload, BeginPage, SessionRow
  <2>4. CopyIsCurrent'
    BY <1>1, <2>1, <2>2, <2>3 DEF DInv, CopyIsCurrent, TypeOK
  <2>5. BatchWaits'
    BY <2>1 DEF DInv, BatchWaits
  <2>6. TypeOK'
    BY DEF LInv, IInv
  <2>7. UNCHANGED Delivery!vars
    BY <1>1, <2>1, <2>6, QueueStutters
  <2>8. QED
    BY <2>4, <2>5, <2>7 DEF DInv
<1>6. CASE IllegalTransition(w) \/ CancelDownload(w) \/ RecordFails(w)
  <2>1. row' = row /\ batch'[w] = {} /\ pc'[w] = "closing"
    BY <1>1, <1>6 DEF IllegalTransition, CancelDownload, RecordFails, Abort, Goto, TypeOK
  <2>2. DInv' /\ UNCHANGED Delivery!vars
    BY <2>1, NoOutcome
  <2>3. QED
    BY <2>2
<1>7. CASE Acquired(w)
  <2>1. PICK tries \in 1..FetchTries :
            Commit(w, Settle([mine[w] EXCEPT !.state = "downloaded",
                                             !.document = TRUE,
                                             !.attempts = tries]), {})
    BY <1>7 DEF Acquired
  <2> DEFINE out == [mine[w] EXCEPT !.state = "downloaded", !.document = TRUE,
                                    !.attempts = tries]
  <2>2. tries \in Nat
    BY CrawlAssumption
  <2>3. out \in SessionRow /\ out.state = "downloaded"
    BY <1>1, <2>2, OutcomeType DEF SessionRow
  <2>4. Commit(w, Settle(out), {}) /\ mine[w].state = "downloading"
    BY <1>7, <1>c, <2>1, CrawlAssumption DEF Acquired, Downloading
  <2> HIDE DEF out
  <2>5. Settle(out) \in SessionRow /\ Settle(out).state = "downloaded"
    BY <2>3, SettleType, OutcomeUnleased
  <2>6. QED
    BY <1>1, <1>n, <2>4, <2>5, Concluded
<1>8. CASE Quarantine(w)
  <2> DEFINE out == [mine[w] EXCEPT !.state = "quarantined", !.attempts = @ + 1]
  <2>1. out \in SessionRow
    BY <1>1, ChargeType
  <2>2. out.state = "quarantined"
    BY <1>1 DEF SessionRow
  <2>3. Commit(w, Settle(out), {}) /\ mine[w].state = "downloading"
    BY <1>8, <1>c, CrawlAssumption DEF Quarantine, Downloading
  <2> HIDE DEF out
  <2>4. Settle(out) \in SessionRow /\ Settle(out).state = "quarantined"
    BY <2>1, <2>2, SettleType, OutcomeUnleased
  <2>5. QED
    BY <1>1, <1>n, <2>3, <2>4, Concluded
<1>9. CASE FailDownload(w)
  BY <1>9, Charged DEF FailDownload, Downloading
<1>10. CASE ReadPage(w)
  <2>1. /\ Commit(w, Settle([mine[w] EXCEPT !.dead = TRUE]), Links[cur[w]] \ denied[w])
        /\ mine[w].state = row[cur[w]].state /\ cur[w] \in Pages
    BY <1>10, <1>c DEF ReadPage, ReadingPage
  <2>2. Links[cur[w]] \ denied[w] \in SUBSET Urls
    BY <2>1, CrawlAssumption
  <2>3. QED
    BY <1>1, <1>r, <2>1, <2>2, Concluded
<1>11. CASE FailPage(w)
  BY <1>11, Charged DEF FailPage, ReadingPage
<1>12. QED
  BY <1>2, <1>3, <1>4, <1>5, <1>6, <1>7, <1>8, <1>9, <1>10, <1>11 DEF Transact

LEMMA OpenDelivers ==
    ASSUME DInv, LInv', OneProcess, NEW w \in Workers, Open(w)
    PROVE  DInv' /\ [Delivery!Next]_(Delivery!vars)
<1>1. TypeOK /\ TypeOK' /\ IInv /\ IInv' /\ pc[w] \in {"idle", "opening", "seeding"}
  BY DEF DInv, LInv, IInv, Open, ResumeJob, FindNoJob, OpenJob, Seed
<1>2. batch[w] = {} /\ batch' = batch
  BY <1>1 DEF DInv, LInv, BatchAtWork, Open, ResumeJob, FindNoJob, OpenJob, Seed, run
<1>3. CASE ResumeJob(w) \/ FindNoJob(w) \/ OpenJob(w)
  <2>1. row' = row /\ pc'[w] \notin {"handling", "fetching"}
    BY <1>1, <1>3 DEF ResumeJob, FindNoJob, OpenJob, Goto, tables, TypeOK
  <2>2. DInv' /\ UNCHANGED Delivery!vars
    BY <1>2, <2>1, NoOutcome
  <2>3. QED
    BY <2>2
<1>4. CASE Seed(w)
  <2>1. PICK forbidden \in SUBSET Volatile :
            row' = ReclaimExpired(Enqueue(row, Seeds \ forbidden))
    BY <1>4 DEF Seed
  <2> DEFINE rows == Enqueue(row, Seeds \ forbidden)
  <2>2. rows \in [Urls -> Row]
    BY <1>1, EnqueueType DEF TypeOK
  <2>3. \A u \in Urls : rows[u] = row[u] \/ rows[u] = Fresh
    BY <1>1, EnqueueStep DEF TypeOK
  <2>4. \A u \in Urls : rows[u].state # "downloading"
    BY <1>1, <2>3, FreshRow DEF IInv, NoCommittedDownloading
  <2>5. row' = rows
    <3> HIDE DEF rows
    <3>1. row' = ReclaimExpired(rows)
      BY <2>1 DEF rows
    <3>2. QED
      BY <2>2, <2>4, <3>1 DEF ReclaimExpired
  <2>6. Delivery!Discover(Seeds \ forbidden) /\ Seeds \ forbidden \in SUBSET Urls
    BY <1>1, <2>5, CrawlAssumption, QueueDiscovers
  <2>7. pc'[w] = "loop" /\ \A v \in Workers : v = w
    BY <1>1, <1>4 DEF Seed, Goto, OneProcess, TypeOK
  <2>8. BatchWaits' /\ CopyIsCurrent'
    BY <1>2, <2>7 DEF BatchWaits, CopyIsCurrent
  <2>9. QED
    BY <2>6, <2>8 DEF DInv, Delivery!Next
<1>5. QED
  BY <1>3, <1>4 DEF Open

LEMMA LoopDelivers ==
    ASSUME DInv, LInv', OneProcess, NEW w \in Workers, Loop(w)
    PROVE  DInv' /\ [Delivery!Next]_(Delivery!vars)
<1>1. TypeOK /\ TypeOK' /\ row \in [Urls -> Row] /\ \A v \in Workers : v = w
  BY DEF DInv, LInv, IInv, TypeOK, OneProcess
<1>2. CASE Stop(w) \/ Drained(w) \/ EndBatch(w) \/ SkipInspected(w)
  <2>1. /\ row' = row /\ pc'[w] \notin {"handling", "fetching"}
        /\ batch'[w] \subseteq batch[w]
    BY <1>1, <1>2 DEF Stop, Drained, EndBatch, SkipInspected, Goto, tables, TypeOK
  <2>2. DInv' /\ UNCHANGED Delivery!vars
    BY <2>1, NoOutcome
  <2>3. QED
    BY <2>2
<1>3. CASE GiveBackAll(w)
  <2>1. /\ row' = [v \in Urls |-> IF v \in batch[w] THEN Release(row[v]) ELSE row[v]]
        /\ batch'[w] = {} /\ pc'[w] = "closing"
    BY <1>1, <1>3 DEF GiveBackAll, Goto, TypeOK
  <2>2. \A u \in Urls : /\ row'[u].state = row[u].state
                        /\ row'[u].attempts = row[u].attempts
                        /\ row'[u].dead = row[u].dead
    BY <1>1, <2>1 DEF Release, Row
  <2>3. DInv' /\ UNCHANGED Delivery!vars
    BY <2>1, <2>2, NoOutcome
  <2>4. QED
    BY <2>3
<1>4. CASE Claim(w)
  <2> DEFINE taken == FirstOf(Available)
  <2>1. /\ row' = [u \in Urls |-> IF u \in taken THEN Lease(row[u]) ELSE row[u]]
        /\ batch'[w] = taken /\ pc'[w] = "batch"
    BY <1>1, <1>4 DEF Claim, Goto, TypeOK
  <2>2. \A u \in Urls : /\ row'[u].state = row[u].state
                        /\ row'[u].attempts = row[u].attempts
                        /\ row'[u].dead = row[u].dead
    BY <1>1, <2>1 DEF Lease, Row
  <2>3. \A u \in taken : u \in Urls /\ MayBeTried(row[u])
    BY DEF FirstOf, Available, Claimable, MayBeTried
  <2>4. BatchWaits' /\ CopyIsCurrent'
    BY <1>1, <2>1, <2>2, <2>3 DEF BatchWaits, CopyIsCurrent, MayBeTried
  <2>5. UNCHANGED Delivery!vars
    BY <1>1, <2>2, QueueStutters
  <2>6. QED
    BY <2>4, <2>5 DEF DInv
<1>5. CASE Handle(w)
  <2>1. PICK u \in Urls : /\ u \in batch[w]
                          /\ cur' = [cur EXCEPT ![w] = u]
                          /\ mine' = [mine EXCEPT ![w] = Loaded(row[u])]
    BY <1>5 DEF Handle, Turn
  <2>2. pc' = [pc EXCEPT ![w] = "handling"] /\ UNCHANGED <<row, batch>>
    BY <1>5 DEF Handle, Goto, tables
  <2>3. /\ Loaded(row[u]).state = row[u].state
        /\ Loaded(row[u]).attempts = row[u].attempts
        /\ Loaded(row[u]).dead = row[u].dead
    BY <1>1 DEF Loaded, Row
  <2>4. BatchWaits'
    BY <2>2 DEF DInv, BatchWaits
  <2>5. CopyIsCurrent'
    BY <1>1, <2>1, <2>2, <2>3 DEF CopyIsCurrent, TypeOK
  <2>6. UNCHANGED Delivery!vars
    BY <1>1, <2>2, QueueStutters
  <2>7. QED
    BY <2>4, <2>5, <2>6 DEF DInv
<1>6. QED
  BY <1>2, <1>3, <1>4, <1>5 DEF Loop

LEMMA StepDelivers ==
    OneProcess => (DInv /\ [Next]_vars => DInv' /\ [Delivery!Next]_(Delivery!vars))
<1> SUFFICES ASSUME OneProcess, DInv, [Next]_vars
             PROVE  DInv' /\ [Delivery!Next]_(Delivery!vars)
  OBVIOUS
<1>1. LInv' /\ TypeOK
  BY StepLeases DEF DInv, LInv, IInv
<1>2. ASSUME NEW w \in Workers, Forget(w)
      PROVE  DInv' /\ [Delivery!Next]_(Delivery!vars)
  <2>1. row' = row /\ batch'[w] = {} /\ pc'[w] = "idle"
    BY <1>1, <1>2 DEF Forget, Goto, TypeOK
  <2>2. DInv' /\ UNCHANGED Delivery!vars
    BY <1>1, <2>1, NoOutcome
  <2>3. QED
    BY <2>2
<1>3. ASSUME NEW w \in Workers, Step(w)
      PROVE  DInv' /\ [Delivery!Next]_(Delivery!vars)
  BY <1>1, <1>2, <1>3, OpenDelivers, LoopDelivers, TransactDelivers DEF Step, CloseJob
<1>4. ASSUME NEW w \in Workers, Crash(w)
      PROVE  DInv' /\ [Delivery!Next]_(Delivery!vars)
  BY <1>2, <1>4 DEF Crash
<1>5. ASSUME UNCHANGED <<pc, cur, mine, batch>>,
             \A u \in Urls : /\ row'[u].state = row[u].state
                             /\ row'[u].attempts = row[u].attempts
                             /\ row'[u].dead = row[u].dead
      PROVE  DInv' /\ [Delivery!Next]_(Delivery!vars)
  <2>1. \A w \in Workers : /\ batch[w] \subseteq Urls
                           /\ pc[w] \in {"handling", "fetching"} => cur[w] \in Urls
    BY <1>1 DEF TypeOK
  <2>2. BatchWaits' /\ CopyIsCurrent'
    BY <1>5, <2>1 DEF DInv, BatchWaits, CopyIsCurrent, MayBeTried
  <2>3. TypeOK'
    BY <1>1 DEF LInv, IInv
  <2>4. UNCHANGED Delivery!vars
    BY <1>1, <1>5, <2>3, QueueStutters
  <2>5. QED
    BY <1>1, <2>2, <2>4 DEF DInv
<1>6. ASSUME NEW w \in Workers, Signal(w)
      PROVE  DInv' /\ [Delivery!Next]_(Delivery!vars)
  BY <1>5, <1>6 DEF Signal, tables, session, run
<1>7. CASE Tick
  <2>1. ASSUME NEW u \in Urls
        PROVE  /\ row'[u].state = row[u].state
               /\ row'[u].attempts = row[u].attempts
               /\ row'[u].dead = row[u].dead
    <3> DEFINE l == IF row[u].lease > 0 THEN row[u].lease - 1 ELSE row[u].lease
               n == IF row[u].wait > 0 THEN row[u].wait - 1 ELSE row[u].wait
    <3>1. row[u] \in Row /\ row'[u] = [row[u] EXCEPT !.lease = l, !.wait = n]
      BY <1>1, <1>7 DEF Tick, TypeOK
    <3> HIDE DEF l, n
    <3>2. QED
      BY <3>1 DEF Row
  <2>2. QED
    BY <1>5, <1>7, <2>1 DEF Tick, run
<1>8. CASE UNCHANGED vars
  BY <1>5, <1>8 DEF vars, tables, session, run
<1>9. QED
  BY <1>3, <1>4, <1>6, <1>7, <1>8 DEF Next

\* With one process per source the crawl implements the promise of the queue.
THEOREM Delivers ==
    ASSUME OneProcess
    PROVE  Spec => ImplementsDelivery
<1>1. Init => DInv
  <2> SUFFICES ASSUME Init PROVE DInv
    OBVIOUS
  <2>1. \A w \in Workers : pc[w] = "idle" /\ batch[w] = {}
    BY DEF Init
  <2>2. QED
    BY <2>1, InitLeases DEF DInv, BatchWaits, CopyIsCurrent
<1>2. Init => Delivery!Init
  <2> SUFFICES ASSUME Init PROVE Delivery!Init
    OBVIOUS
  <2>1. \A u \in Urls : StatusOf(row[u]) = "unknown"
    BY DEF Init, StatusOf, Absent
  <2>2. QED
    BY <2>1 DEF Delivery!Init
<1>3. DInv /\ [Next]_vars => DInv' /\ [Delivery!Next]_(Delivery!vars)
  BY StepDelivers
<1>4. QED
  BY <1>1, <1>2, <1>3, PTL DEF Spec, ImplementsDelivery, Delivery!Spec

=============================================================================
