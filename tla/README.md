# Formal models of Aedifex

TLA+ modules, TLC runs and TLAPS proofs for the evidence platform in this repository. Each definition
is translated from the Python source; `PROJECT.json` maps it to its lines. Paths are relative to
`src/aedifex/` unless they start with `apps/`.

## 1. The system

Aedifex collects public procurement documents, keeps them by content, extracts facts from them, compares
the facts by rules and puts the findings before a human.

    crawl -> fetch -> store -> record -> analyse -> select -> verify -> review

| Component | State it keeps | Operations | Interacts with |
| --- | --- | --- | --- |
| Document lifecycle (`domain/documents.py`) | none; a transition table | `can_transition`, `assert_transition_allowed` | every module that moves a row |
| Crawl frontier (`acquisition/crawl/frontier.py`) | `discovered_urls`: state, attempts, lease, deferral, dead letter | enqueue, claim, settle, release, reclaim | PostgreSQL row locks, the runner |
| Crawl runner (`acquisition/crawl/runner.py`) | `crawl_jobs`: status, counters, checkpoint; in memory: batch, inspected | run, seed, handle one URL, stop, close | frontier, acquirer, robots gate, page reader, shutdown signal |
| robots gate (`acquisition/crawl/robots.py`) | rules cached per authority and run | `allows`, `polite_limits` | runner, fetch layer |
| Fetch layer (`acquisition/fetch/`) | semaphores and grants per source, one budget per fetch | slot, attempt, backoff, redirect | threads of one process, the network |
| Acquisition (`acquisition/pipeline.py`) | the frontier row it is handed | begin, fetch, check, store, record; finish, fail or quarantine | fetch layer, object store, provenance |
| Corpus (`acquisition/provenance.py`, `infrastructure/storage/`, `extraction/ingest.py`) | `documents`, `document_retrievals`, `document_uploads`; objects by source, digest and format | `put`, `record_retrieval`, `ingest_file` | crawlers, operators, workspace |
| Document analysis (`extraction/runner.py`, `extraction/store.py`) | document state, facts, retractions, derived facts, findings | `analyse_document`, `analyse_spreadsheet`, `analyse_project`, `persist_*` | readers, rules, workspace |
| Readers (`extraction/pdftext.py`, `ocr.py`, `pdf_boq.py`, `tender_notice.py`, `policy.py`, `spreadsheet.py`) | none | text, bills, notices, manuals, sheets | document analysis |
| Projects (`extraction/projects.py`, `supersede.py`, `work_items.py`) | projects, members, relations, `version_state`, work items | `reconcile_projects`, `record_supersession`, `link_work_items` | workspace, fact selection |
| Selection and rules (`extraction/selection.py`, `applicability.py`, `calculation/`, `verification/`) | none | `select_one`, `select_provision`, `compute_*`, `evaluate_*` | facts, findings |
| Review (`review/`, `domain/review.py`) | reviews by the fingerprint of a conclusion | `record_review` | API |
| Workspace (`workspace/`) | projects, membership, uploads, types | `create_project`, `attach_upload`, `process_project`, `confirm_document_type` | corpus, analysis, review |
| HTTP API, command line, frontend (`apps/`, `frontend/`) | none of their own | requests | all of the above |

What makes it hard:

* **Concurrency.** Several crawler processes may run one source, separated by leases only; several threads
  share one rate limiter; several sessions of the command line and the API analyse, group and review the
  same documents, read committed, with unique keys as the only guard of a look-up followed by an insert.
* **Crashes and failures.** A process may die anywhere: its transaction disappears, its leases and its
  objects stay. A store may refuse a write. One document of a project may be unreadable.
* **Timeouts and retries.** Four kinds, nested: the tries of one fetch under one budget, redirects within
  it, the deferral of a failed URL to a later run, and the expiry of a lease.
* **Ordering.** Re-analysis by a newer extractor, retyping, retraction, supersession and review arrive in any
  order, and each leaves rows behind that the next one reads.
* **Figures.** What is read out of a damaged table is compared with tolerances, over rounded columns.

The hazards are listed one by one, with the line where each bites, in `PROJECT.json`. For each component the
properties that make it correct are the ones of section 3.

## 2. Modules

| Modules | Model |
| --- | --- |
| `DocumentLifecycle` | `DocumentState`, `STATE_TRANSITIONS` and the test of a move |
| `FrontierQueue`, `CrawlRunner` | one row of the frontier and what each queue operation does to it; the crawl of one source: worker processes, jobs, the whole loop, crashes, signals, time |
| `UrlDelivery` | abstract: what the queue promises for each URL |
| `PoliteFetch` | concurrent fetches that share one rate limiter: slots, waits, attempts, backoff, redirects |
| `RobotsRules`, `RobotsGate` | how a robots.txt is read, beside the standard's own rules; the gate's cache and the delay a run adopts |
| `ContentFormats`, `CorpusIntake` | which bytes are accepted as which format; how they become an object, a document and an event |
| `CorpusArchive` | abstract: an archive that records a document once, under an object that is there |
| `Evidence` | analyses as transactions: lifecycle, facts, retractions, findings and reviews under concurrent sessions |
| `ProjectRecord` | projects, memberships, relations, supersession and work items under concurrent operators |
| `SheetReader`, `RowArithmetic`, `FactSelection`, `Reconciliation` | the payment path: sheets to facts, facts to one figure per kind, figures to verdicts about claims |
| `PageText`, `BillReader`, `NoticeReader`, `PolicyReader`, `TenderRules`, `TenderVerdicts` | the tender path: pages to bills, notices and schedules, and these to verdicts about documents and projects |
| `MC*` | instances for TLC, one for each module that is run |
| `*Proofs` | theorems, section 4 |

Composition: `CrawlRunner` is the frontier, the runner and `Acquirer.acquire` as the queue sees it; `CorpusIntake` is the
same `acquire` as the corpus sees it; `PoliteFetch` is the inside of the one request that both take as an
outcome. `Evidence`, `TenderVerdicts` and `Reconciliation` are three views of `analyse_*`: `Evidence` has its
transactions and few data, the others its data and each transaction as one step.

### The crawl: `CrawlRunner`

A worker is a crawler process. Its `pc` says where it is between two effects that others can see:

    idle -> (opening) -> seeding -> loop -> batch -> handling -> fetching -> batch ... -> closing -> idle

`row`, `job` and `lock` are what PostgreSQL holds. `cur`, `mine`, `tally` and `spent` are one transaction
(`_handle`): the row and the counters as the session loaded them, and the budget used. `dry` is the set of
processes that were started as dry runs. Three facts of the code decide what the model must show:

1. The session loads the row and the job at the head of `_handle` and writes back, after the network, only
   the columns whose value it changed (`Loaded`, `Flush`). Between the two, others may have committed.
2. `_begin` and `_read_page` flush an UPDATE *before* the request. The row is locked from there to the
   commit (`lock`), `claim` skips it, and a second worker's flush waits. DOWNLOADING is therefore never
   committed: a crash rolls it back.
3. Claims are committed at once and their leases survive the process.

One action stands for each stretch of code without an effect in between: `Acquired`, for instance, is the
end of `acquire`, `_count_acquisition`, `settle` and the commit, since all of it is one transaction. Time is
counted in ticks of 300 s: the budget of one fetch (`TimeoutPolicy.total_seconds`), the base of the retry
backoff, and a third of a lease. `Prompt` says that a process takes no time between requests; without it a
process may be suspended anywhere, which is the weaker assumption. `RecordFails` is an exception out of `record_retrieval`: of a
document in `Conflicting` the corpus holds the same bytes under another size or format, so that it may raise every time; of any other the
insert may be lost to another process, `RaceBudget` times. The transaction is rolled back, nothing is charged, and the run ends as failed.

`UrlDelivery` knows neither leases nor processes nor time: a URL is unknown, pending, acquired,
quarantined, retired or exhausted, failures are charged one at a time, and no outcome is taken back.

### The fetch: `PoliteFetch`

A thread performs one fetch after another. Its `pc` walks through three nested controllers:

    idle -> validate -> source -> source_wait -> rate <-> sleeping -> global -> global_wait
         -> open -> connect -> headers -> body -> idle
    (a failed attempt) -> backoff -> source        (a redirect) -> validate

`validate` is the head of `RedirectController.fetch`, `source` to `open` are `RateLimiter.slot` entered by
`RetryController.fetch`, `connect` to `body` are `Transport.open` and the reading of the response. A
semaphore is asked in two steps, because the code checks the deadline first and may get a slot after it
(`_acquire`); the wait for the rate is a loop whose every turn is one step under the lock
(`WaitForRate`). Time is relative: budgets and timers count down, grants age, and ages stop where no limit can
tell them apart, so that no bound on the clock is needed and threads fetch for ever. A sleep or a socket
timeout is punctual; any other step may be late. A socket timeout restarts with each operation of a phase (`Drip`): a step of the
handshake, a part of the headers, an interim response, or bytes that decode to nothing. No deadline is looked at on the way, so
`late` remembers how far past its deadline a fetch was when the last such read ended. Jitter is any delay up to the ceiling. `Normal` is the
spelling of a URL after validation, because a loop is detected twice, once on what `Location` says and once
on what validation makes of it.

### The robots gate: `RobotsRules`, `RobotsGate`

A file is a sequence of directives, a path and a pattern are sequences of characters. `ReadLine` takes the
lines one by one and makes groups of them as the parser does, including the lines that end a header and those that do not;
loops over lines and rules are recursive functions, so that they can be proved about; a header without a name binds nobody,
of two agents of one length the first that is mentioned is obeyed, and of rules that are equally specific one that allows.
`ObeyedAgent` and `Deciding` choose group and rule. `Forbidden` and `AskedDelay` say the same by the standard,
independently of the fold: they are the reference the properties compare with. The gate reads a file
once under its lock; a site may change it at any time; a run reads the delay of its own authority before the first
document and refuses to run if it is longer than 300 s.

### The corpus: `ContentFormats`, `CorpusIntake`, `CorpusArchive`

A writer is a crawler with a body or an operator with a file. `put` is three steps (head, upload,
confirming head), recording is a look-up, an insert and a commit, and a second insert of one key waits for the
first to end. A fault is a store that fails, a transaction that is rolled back or a writer that dies.
`ContentFormats` has the checks of length and format that come before. `CorpusArchive` has no writers, no
look-ups and no faults.

### Evidence

A session is a transaction of the command line or the API, for one document, for a project with its
documents, or for the project alone. It holds the documents as it loaded them (`held`), what it wrote
(`work`) and what it last looked up (`seen`, `loaded`). A step is a flush with the reads that follow it. A
statement on a row that another open session wrote waits; one that violates a key rolls its session back.
`Merge` is what SQLAlchemy does to a finding: a column is written only if it differs from what was *loaded*,
and citations are added and removed as a difference. `read` and `steady` are history: how a document was
last read, and whether its type was confirmed under that analysis. Three properties speak of `Undisturbed`
documents: nobody confirmed a type meanwhile, and the versions agree on whether the document states a cost and whether it is a
notice. Section 5 says what happens otherwise.

### Projects: `ProjectRecord`

`create_project`, `attach_upload`, `reconcile_projects`, `record_supersession` and `link_work_items`, each as
look-ups in a step or two and one committing step. A fact of an identifier is of a document, a type and a version: each version
that read one keeps its row. `Readings` has the unordered query over the rows of all versions that picks one identifier of a document; `LookUp` the groups, memberships and pairs that are missing by then.

### The payment path: `SheetReader` to `Reconciliation`

A grid of parsed cells becomes facts by header aliases, in thousandths, rounded as the columns of
`models.py` round them (`Stored`). `SelectOne` is `select_one`: what it chooses, from what, and whether they
conflict. A reconciliation links facts to items (`link_work_items`) and loads documents and facts in one step,
and saves in another; sheets are analysed by either version, retyped and superseded in between. Linking goes by rows: one
item number claims every fact of its row, old readings too, and of two versions that read the number differently the query
does not say whose it is (`Anchorings`).

### The tender path: `PageText` to `TenderVerdicts`

A page is a sequence of marks, each of which stands for one thing that some reader looks for; the regular
expressions of the readers are the kinds of text they tell apart, and the distances they allow are counted
in marks. `paper` is what the documents print, together with the truth about it, chosen in `Init`;
`readings` are what the readers make of it, computed there once per document, with and without OCR. The properties
relate verdicts to the truth, over everything between. `Analysed` is `analyse_document` with all it stores,
`ProcessProject` the loop of `process_project`, whose transaction is undone as a whole by an error that is not
the program's own.

## 3. Runs

| Run | Shows | Instance |
| --- | --- | --- |
| `CrawlOne` | counters equal the committed acquisitions; a real run that was closed holds no lease; the queue implements `UrlDelivery`; every URL comes to an end that no document which cannot be recorded holds up | 1 process, a page that links to itself and 2 documents, one of which some runs refuse; batches of 2, limits of 2, 2 attempts, leases of 1 tick; one document whose record may fail each time, 1 lost insert; 1 crash, 1 signal |
| `CrawlTwo` | one request per URL at a time; dead letters are complete and final | 2 processes, one of which may be a dry run, 1 page, 1 document, leases of 1 tick, 1 crash |
| `Fetch` | no slot is lost; granted requests are as far apart and as few as configured; nobody sleeps past a budget and a body is read within it; no chain loops; every fetch ends, unless its own server drips for ever | 2 threads, 1 source with 2 slots, 1 global slot, a window of 3 s, a budget of 3 s, 2 attempts, Retry-After 0 or above the cap, 1 URL in two spellings, 1 hop |
| `Robots` | what is requested, refused and waited for follows the file that was read | 2 threads, 2 authorities, 3 paths; 5 answers of the source's own authority, 11 of the other; 1 change |
| `Intake` | nothing is recorded that is not stored; `CorpusArchive` is implemented; every item settles | 2 writers, 9 items of one document, 2 faults |
| `Evidence` | processed means read to the end; what is suppressed is not served; fingerprints and acceptances describe what is shown | 2 documents, 2 sessions, 2 versions, contract or model agreement, 3 analyses, 1 event |
| `Projects` | one project per reference; groups have evidence and all their pairs; a replaced document does not count | 2 documents with two spellings of one number, 2 versions that read both differently, 2 sources, 1 uploader, 2 operators, 3 transactions, 1 retraction |
| `Reconcile` | a claim that passes is measured; what is disputed goes to a person; superseded figures are not judged; cited figures add up | 3 sheets, 2 items, 2 versions that read one row as different items, a project named on the row of an item, 1 retyping, 2 changes |
| `Tender` | verdicts, rows and sums are those of the printed documents; what a reference quotes is never compared | 17 variants of a manual, a notice and a bill; 2 pages of OCR, 1 change |
| `PoisonUrl`, `RetractedForGood`, `TwiceFetched` | expected violations, section 5 | smallest instance that shows each; `PoisonUrl` with the code's own lease (3 ticks) and 5 attempts |

Why the bounds are enough. *Crawl*: two attempts give a first failure, a retry and a last failure; a lease of
one tick runs out within one request, and a claim by another process follows; two documents make a batch that
is partly handled when a limit or a signal comes; one crash resumes a run, and a resumed run may be
signalled. `CrashBudget` and `StopBudget` bound only crashes and signals: a behaviour may start runs for ever,
since job rows are reused once closed. *Fetch*: two threads race for a slot and for a grant; the global slot
makes the second of two granted requests wait; the budget has room for a retry, a Retry-After or a wait for the rate
and is short enough to run out in each; two spellings and one hop give a redirect that is followed, one that
`evaluate` sees as a loop and one that only the head of the loop sees. *Robots*: the answers cover each
status that is read differently, two agents in one header, a wildcard against a named group, an
allow against a longer or equally long disallow, `*` and `$`, and delays on either side of both limits.
*Intake*: two writers are what a race of look-up and insert takes; the items agree in the content and differ in each of source, format,
declared length, type and person. *Evidence*: three analyses give an overtaken one, an overtaking one and a re-run; the one event is a
retyping, a review, a failed read or a death, at any point. *Projects*: two operators and three transactions
give a declaration and a reconciliation that race, or two reconciliations, and one more of any kind after them; of the two versions one spells
a number otherwise, which changes nothing, and one takes another identifier for it, which moves the document. *Reconcile*: three
sheets give a measurement, a claim below and a claim beyond it, with one misread measurement and one misread item number that a later
version corrects. *Tender*: each variant of `MCTenderVerdicts` is one layout, figure, origin or
damage that a reader or a rule treats differently; boundaries of bands are printed costs.
Symmetry permutes processes, jobs, sessions, documents or operators where no property tells them apart, never with liveness.

Fairness. Crawl: `WF(Step(w))`, a process that can go on does, and an operator or a timer starts a run when
none is going, since nothing in the repository restarts a crawl by itself; `WF(Tick)`, time passes. No
outcome is assumed: a fetch may always fail, and the URL then ends as exhausted; the record of a conflicting document may always
fail as well, and `EveryUrlSettles` then promises an end only to what is claimed before it. Fetch: `WF(Tick)` and `WF`
of the steps of each thread, which is what an operating system promises; no fairness of semaphores is assumed (a
thread that is passed over is ended by its deadline), nor that a server answers. That a server which drips stops is not assumed either:
`EveryFetchEnds` says of each thread that its fetch ends or its own server drips for ever. Intake: `WF(Step(w))`, and
faults are bounded, without which a writer could be interrupted for ever. The other runs check safety only
and state no fairness.

`CHECK_DEADLOCK FALSE` is set where the bounded number of changes, events or transactions is used up
(`Evidence`, `RetractedForGood`, `Projects`, `Reconcile`), where a run is refused (`Robots`), and
where a poisoned download never returns once its crashes are spent (`PoisonUrl`).

Each property has a mutant in `PROJECT.json`: a definition of the model changed the way a plausible slip in
its code would change it, under which TLC finds the property violated in the same run.

## 4. Proofs

All for every value of the constants, under the assumptions named beside their CONSTANTS.

`CrawlRunnerProofs` (`QueueAssumption`, `CrawlAssumption`: positive limits, disjoint pages and documents, markers
outside of what they mark): `TypeCorrect`, `OneRequest`, `ExhaustedListed`, `DeadLetterKept`. None of the last
three is inductive. `IInv` adds: a worker in the middle of a request has the row locked, its copy says
DOWNLOADING when it downloads, no committed row does, a dead letter that a session has loaded is in the
table, and only rows that exist are claimed or dead. The argument: since no committed row is DOWNLOADING,
`reclaim_expired`, the only statement that could clear `dead_lettered_at`, changes nothing, so dead letters
are only added; hence a stale copy that says *dead* is right, and a stale copy that does not can only write
*dead*. `Outcome` names the three ways a handler leaves its copy, and `FlushStep` shows that each keeps the
table right whatever the table says by then.

`NoLeaseLeft` is of any number of workers too: `LInv` says that a worker has a batch only while it works on it, that what it holds is leased
and, if it is a real run, in its batch, and that a session which holds its URL has loaded the lease, so that the flush at the
end of the handler clears it. `CountersExact` and `Delivers`, the refinement of `UrlDelivery`, assume
`OneProcess`, as `CrawlOne` does: with two processes on one job both are false, because a worker with a stale copy writes over what
the other committed (section 5). `CInv` adds that the counters that a session has loaded are those of the job. `DInv` adds
that what is in a batch may still be tried and that the copy a session works on is its row, but for the DOWNLOADING that it has flushed;
each outcome of a handler is then one step of `UrlDelivery` and any other step is none.

`PoliteFetchProofs` (`FetchAssumption`: positive limits as the `__post_init__` methods require them, a normal form
that is its own): `SlotsNeverLeak`, `BudgetHolds`, `ChainsEnd`. Every step of a thread is `Balanced`: it leaves
the slots alone and stays a holder or a non-holder, or takes one and becomes a holder, or returns one and
ceases to be; `SourcesBalance` and `GlobalBalances` then count. `TimerFits` strengthens the bound on
budgets: a sleep ends with the budget, and while a body is read its timer runs out one read after the deadline or after the
last read that no deadline was held against, whichever is later (`LimitIs`, `SocketIsSafe`, `DripIsSafe`: each operation of a phase has the
limit that was fixed at the opening, and a `Drip` is noted in `late` when it ends). `ChainFits` adds that a hop still to be validated leaves room for itself.

Its other half has `TypeCorrect` and `GrantsSpaced`. The limiter keeps only the grants its window can
still need and the property is about all that were ever made, so the invariant has both: the limiter's table *covers*
the history (what it dropped is older than the window or beyond the count it needs), and the history is
*spaced*. A grant is made only if the table lets it, hence if the history does.

`CorpusIntakeProofs` (`IntakeAssumption`): `TypeCorrect`, `Backed`, and the refinement `Archives`. The invariant: a
writer that has passed the confirming look has its object in the store, a row that was read is still there, an insert
that is pending is of a key that nobody has, and a format that was found allowed is the format of the
row. Each step of intake is then a step of the archive or leaves it alone.

`ProjectRecordProofs` (`RecordAssumption`): `TypeCorrect`, `OneProject`, `Grouped`, `Superseded`, `Recorded`. What a
transaction looked up may be out of date when it writes, so the invariant says, for each waiting transaction, which
part of it stays true whatever others commit: projects found are still there with their key, identifiers that
were read were stated, edges that were recorded are recorded. Keys are normal, which makes the test at the write decide. `Recorded` is about two
reconciliations that do not see each other's rows. `PInv` orders them by what they have read: of a steady document (one source, nothing
withdrawn, and every version that read it read the same identifiers in their normal form) there is one reading, although there is a row for each version
(`ReadAlike`, `FactsStay`), so the two agree on its group; the one that read later has read every document of the other, and
so either looks up the pair and adds it or finds it there.

`EvidenceProofs` (`EvidenceAssumption`): `TypeCorrect`, `ProcessedMeansRead`. A session reads what is committed under
what it wrote, and what is committed may change while it is open, so the invariant speaks of each session: a document
it has read has its verdict and its facts among the committed rows and its own; only the document in hand is
"processing", and only from its flush to its verdict; facts that were found, or found stale, are there; a finding that
was loaded has not gone; the shares that a finding cites are there. None of it can be undone from outside, because a
commit only adds rows (`Adds`, and `SoundStays` for what that leaves true). At its own commit, then, a session shows
nothing as processed but what it has read whole.

Its other half has `NothingSuppressedIsServed`, `FingerprintsAreTrue` and `AcceptedAsShown`. These relate rows
to how a document was last read, so `HInv` says what an open session will have written by the time it commits: what its own version
reads (`OwnRead`), under a type that is still the row's (`HeldNow`), with every suppressed fact withdrawn
or about to be (`Withdraws`) and the verdict of its version (`Concludes`). `Compares` is the part that is needed for the merge:
the row it loaded is the one that is there, unless another session passed it, and then that one concluded what
some version concludes. `OpenAlike`: a confirmation of a type disturbs all open sessions alike, so that of two overlapping
analyses either both are vouched for or neither is.

`ReconciliationProofs` (`ReconciliationAssumption`, `SheetAssumption`: sheets are sequences of rows of cells, versions are
compared by integers): `Reconciles` is the invariant `RInv`, and from it `PassedIsMeasured`, `DisputesReachAPerson`,
`OnlyCurrentIsJudged`, `CitedAddsUp`. The first three speak of now: while nothing has changed, the verdicts of the store are those that
its own facts and links give (`VerdictsAreCurrent`), and while nothing has changed under a session that has loaded,
what it has loaded is what there is (`SessionIsCurrent`). They then follow from what a selection and a rule do with any facts at
all. `CitedAddsUp` speaks of ever after: `ClaimsRest` says that behind each verdict on a claim are facts that exist, of its item,
and computed rows that state their difference. It survives analyses because of `OneOfAKey`: a fact of a sheet is
determined by its key, whatever the type of the sheet, so that `persist_facts`, which writes in place, never changes a
figure; and it survives runs because links and computed rows are replaced for all items at once, and each row's key names its item.

`RobotsGateProofs` (`AgentAssumption`, `GateAssumption`): `Obeys`, `RefusesByTheSite`, `KeepsItsDistance`, for files of any length.
Their core is that the parser and the standard agree: `FileDescribed` says of the state after each line which groups there are, which
agents head them and which rules and delays they have, in terms of the lines so far; `ObeyedIsOurs` that the group which is chosen is the
standard's, `DecidingRight` that of its rules the one that decides is. What a recursive function computes is proved by the least
number for which it would be otherwise (`LeastOf`, `Inductively`, over sets of numbers, since an induction over operators cannot be
used here). `GInv` adds what the gate holds: the file in its cache is one that the site gave, the rules are those of that file, and the delay
of the run is the one its own authority asks for, or the configured one.

`TenderVerdictsProofs` (`TenderAssumption`): `TypeCorrect`, which says of all that an analysis writes that it refers to what is stored, and
`QuotedStaysOut`. Of the readers it takes only that a notice has fields of its own types, and a number exactly if one is found. `Sound` is preserved by an analysis of any document
under any type (`AnalysedIsSound`), because a rule cites a calculated value only if there is one, a value is calculated only from facts
of the same reading, and rows are only ever added. `Withdrawn` is what `QuotedIsNotCompared` needs: of a document with no number, the facts that a notice
could state are those that its text states, the same at every reading; so when it is read as a reference, withdrawing what this
reading suppresses withdraws what any earlier one stored, and no bill brings a fact of those types back. Documents with no text layer are left
out, since recognition reads different pages each time (section 5). `AllProcessedStands` carries both through the loop of `process_project`.

`ReviewIsUnexplained`, in the same module, is about the arithmetic of `classify_row_arithmetic` alone, for figures of either sign with up to
`MaxPlaces` decimals: `Classify` says "review" exactly if there is no finer rate, shown as the one printed, that gives an amount shown as
the one printed (`Explained`; the ends of the windows count, as in the code). One direction multiplies the windows (`InProducts`, by the sign of the quantity); the other gives the witness, which is the end of the
product's window if that lies in the amount's, and otherwise the least amount divided by the quantity, which is then not zero.

Only model-checked: liveness (`EveryUrlSettles`, `EveryFetchEnds`, `EveryItemSettles`), which is out of the prover's reach,
and `PolicyVerdictsArePrinted`, `RowsArePrinted` and `BillVerdictsArePrinted` of `TenderVerdicts`: they relate verdicts to a truth that comes with each
layout of the instance, and hold of documents laid out in one of these ways, not of any sequence of marks.

## 5. What the runs found

Three disagreements between the code and what it says of itself have a run that ends with a counterexample.

* `PoisonUrl`: the attempt of a crashed download is never charged, because DOWNLOADING is never committed
  and `reclaim_expired` looks for nothing else. A document that kills its worker is tried for ever, against
  `frontier.py:283`.
* `RetractedForGood`: `persist_facts` rewrites the row of a fact in place and never lifts its retraction. A contract
  retyped as a model agreement and back states its cost in a row every reader skips, against `models.py:604`.
* `TwiceFetched`: `_authority_of` (`applicability.py:76`) allows for one origin; a document that was retrieved twice
  ends `process_project` with an error that undoes the work on all documents, against `workspace/__init__.py:607`.

Further disagreements, met while modelling. Crawl and fetch:

* `_seed` (`runner.py:538`) overwrites the checkpoint that holds the page count, so that `max_pages` starts anew
  on a resume (`runner.py:660`).
* In a dry run `continue` on a document already inspected (`runner.py:364`) leaves its lease in place (`runner.py:617`).
* A document whose bytes the corpus holds under another size or format raises out of `record_retrieval` (`pipeline.py:315`) and ends the
  run as FAILED, so does an insert lost to another process. No attempt is charged, the rest of the batch stays leased, and the next run
  comes to the same document first: what is claimed after it may never have its turn.
* A shutdown during the backoff of a fetch closes the run as FAILED (`pipeline.py:290`, against `pipeline.py:267`).
* A worker with a stale copy writes over a quarantine (`pipeline.py:388`, against `frontier.py:82`).
* A page that failed and is then read stays FAILED (`runner.py:681`).
* One lease of 900 s covers a batch of ten requests of up to 300 s each (`frontier.py:64`). `CrawlTwo` has leases
  of one tick for that reason and shows that the row locks still keep requests apart.
* `_count_acquisition` adds to a counter that was read before the fetch; two processes on one job lose updates.
* The minimum delay holds between grants; the wait for a global slot comes after the grant, so that the
  requests themselves may follow each other faster. This takes two threads in one process.
* The deadline is checked between pieces of a body and nowhere else: headers that drip, interim responses and bytes that decode to nothing
  restart the read timeout each time (`httpx_transport.py:359`) and outlive the budget without a bound, against the total that
  `httpx_transport.py:422` promises. Once headers came late the body may take another read, where `httpx_transport.py:436` allows for
  one past the deadline.
* An unrecognised line between two `User-agent` lines ends the header (`robots.py`), where the standard ignores it; the
  Crawl-delay of an authority other than the source's own is read and not used.

Evidence, review and projects:

* A share stays in the store after the facts it was computed from were withdrawn, and `cross_document.py:313`
  compares it, against its loader's doc (`cross_document.py:168`).
* Analyses that overlap under different types leave verdict columns of one and citations of the other; so do overlapping
  analyses by two versions that disagree on whether the document is a notice or states a cost. A review taken then counts on, though
  it was of the mixture. Hence `Undisturbed` in the properties. The current review of a project's finding stays current while a cited row changes.
* A review is bound to the fingerprint at the POST, not at the moment the reviewer looked.
* Two contradictory supersessions recorded at once leave both documents superseded and not unknown (`supersede.py:139`), and a cycle
  of three leaves none current. `version_state` is global though edges belong to a project.
* Two declarations of one reference at once end in an IntegrityError and status 500 (`create_project`).
* A document of two sources, or that two versions of the extractor read differently, may be grouped differently by two runs of
  `reconcile_projects`: a row for each version stays, and the query neither filters by version nor orders. Hence a second run over the same facts may
  create a project, against "Idempotent" (`projects.py:113`), and a document that moved misses relations to those it was placed with before.
* A "Project:" line in a cell of an item's row is linked to the item with the figures of that row, where `work_items.py:84` says that
  references to projects are left unattached.
* `link_work_items` (`work_items.py:104`) orders facts by document and row only. If two versions read the item of a row
  differently, the row with all its readings may move from one item to the other with each run, against "Idempotent" (`work_items.py:87`).
* `link_work_items` moves the rows of a document of two projects to the project linked last (`work_items.py:120`).
* A second upload with a stated type replaces one that a person confirmed.
* `process_project` never links rows to work items, so that rows of two bills are compared as facts of
  their documents (`cross_document.py:110`); and it goes by size, so that a manual may be read after the notices it governs.

Readers and rules:

* `Numeric(20,2)` (`models.py:532`) rounds before the comparison: a claim that exceeds the measurement by
  less than a hundredth may pass, against `reconciliation.py:191`.
* A contract retyped as a running bill keeps its `contract_rate` facts, and a claimed rate is then compared with itself.
* `_ABOVE` (`policy.py:104`) matches inside "not exceeding": such a band is stored upside down. A schedule
  that is broken over two pages is read from the first only.
* `quantities.py:63` reads an amount without separators, such as "Rs. 84649969", as its first three digits, and the window of
  `tender_notice.py:393` may cut one. The figures of `TenderVerdicts` are taken as read right.
* A line of three figures whose unit is on no line before it becomes the item of the rows after it (`pdf_boq.py:562`).
* `_bill_total` takes the first total that is not below the rows' sum; a missing row may make a part's total fit.
* A block that is too long is skipped silently, and so is one with fewer than three figures (`bill_total.py:157`).
* A page that went through OCR is one line, so that bills on it yield no rows; truncation is only logged
  (`ocr.py:371`); facts of pages that a partial OCR missed are not retracted, nor the rows of a bill that
  becomes a reference.
* Version strings are compared as strings (`selection.py:72`); "sl no" and "item no" are one column
  (`spreadsheet.py`); differently spelt item numbers are different items (`work_items.py:69`); `MAX_ROWS` cuts silently.

## 6. Hazards without a property

Three, listed above because the property would fail: rounding before the comparison (`models.py:532`), shares of
withdrawn facts (`cross_document.py:313`) and the counters of a job that two processes share (`runner.py:599`). The properties of
`Reconciliation` are about stored values for the first reason; for the second, no property is stated about `share_consistency`; for the
third, `CountersAreExact` is of one process. Of others a property catches a part only, and their note in `PROJECT.json` says which: leases of a
run that failed, a document that cannot be recorded, headers that drip, documents that two versions read differently, contradictory
supersessions recorded at once, and what changes between the loading and the saving of a reconciliation.

## 7. Not modelled

Characters: HTML, the drawing of PDF text, rendering and recognition, cells of spreadsheets, regular expressions, normalisation of
URLs (a URL, a page's marks and a sheet's cells are given). Sockets, TLS and the validation of addresses: `PoliteFetch` takes
their verdicts as outcomes. Listing pages (`pages.py`, `links.py`, `discovery.py`, `nhai.py`): `CrawlRunner` takes the links of a
page as a constant, without the depth limits of `strategy_for`. The source registry, settings, classification and the
knowledge tables: configuration and read-only tables. The catalog, the summaries of the workspace, `processing_status` and the handlers of
the API that only read: queries over rows that the modules write. The frontend, logging and argument parsing.
In the crawl also the order of rows within one INSERT and `max_documents = None` (a large limit stands for it); in the fetch headers, method
and body of a hop and the parsing of `Retry-After`.
