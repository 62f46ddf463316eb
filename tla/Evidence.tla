------------------------------ MODULE Evidence -------------------------------
(***************************************************************************)
(* From stored bytes to a reviewed verdict.  Analyses of documents         *)
(* (extraction/runner.py, called by the command line for one document and  *)
(* by workspace/__init__.py for a project) write facts, retractions,       *)
(* computed shares and findings (extraction/store.py) in one transaction   *)
(* each, while an operator retypes documents, the extractor is upgraded    *)
(* and people review findings (review/__init__.py).                        *)
(*                                                                         *)
(* Sessions read what is committed and what they wrote.  A statement that  *)
(* touches a row another open session wrote waits for that session to end, *)
(* and one that violates a unique key ends its own session.  A step below  *)
(* is a flush, with the reads that follow it up to the next flush.         *)
(***************************************************************************)
EXTENDS DocumentLifecycle, Integers, FiniteSets

CONSTANTS
    Documents,      \* the documents of one project
    Size,           \* their sizes, by which a project is processed
    Sessions,       \* concurrent transactions of the command line and the API
    Versions,       \* versions of the extractor, the first being 1
    Reading,        \* Reading[d][v]: [nit, states], what version v reads in d
    Verdict,        \* Verdict[d][v]: the outcome for the share it computes
    Amount,         \* Amount[d][v]: that share
    Types, ReferenceTypes, FirstType,
    Analyses,       \* bound: sessions started
    Events,         \* bound: confirmations of a type, reviews, reads that
                    \* fail and processes that die, together
    Project,        \* the subject of project findings
    None

FactTypes == {"cost", "line"}   \* of the notice, and of a row of its bill
Subjects == Documents \cup {Project}

\* ExtractedFact: the unique key; the value is what Reading says.
Key == [doc : Documents, type : FactTypes, version : Versions]

VARIABLES
    type, state,    \* columns of documents
    facts,          \* keys that have a row
    withdrawn,      \* those with a row in fact_retractions
    derived,        \* the share of a document: the version it was read by, or 0
    findings,       \* by subject, or None
    reviews,        \* by subject: the rows of finding_reviews
    session, deployed,
    read,           \* history: how the last analysis of a document read it
    count

corpus == <<facts, withdrawn, derived, findings, reviews>>
vars == <<type, state, corpus, session, deployed, read, count>>

Outcomes == {"pass", "fail", "inconclusive"}
Digest == [outcome : Outcomes, shares : SUBSET (Documents \X Versions)]

\* Finding: its verdict, the derived rows it cites and the fingerprint.
Finding == [outcome : Outcomes, cites : SUBSET Documents, print : Digest]

\* History: how an analysis read a document, and whether undisturbed.
ReadRow == [version : Versions, type : Types, steady : BOOLEAN]

\* FindingReview: the fingerprint it is bound to.  History: what the reviewer was
\* shown, and whether the document had been read undisturbed.
Review == [print : Digest, shown : Digest, steady : BOOLEAN]

ASSUME EvidenceAssumption ==
    /\ Size \in [Documents -> Nat]
    /\ Versions \subseteq Nat \ {0} /\ 1 \in Versions
    /\ FirstType \in Types
    /\ Project \notin Documents
    /\ Reading \in [Documents -> [Versions -> [nit : BOOLEAN, states : SUBSET FactTypes]]]
    /\ Verdict \in [Documents -> [Versions -> Outcomes]]
    /\ None \notin Finding \cup ReadRow

-----------------------------------------------------------------------------
(* What an analysis does with what it reads *)

IsReference(t) == t \in ReferenceTypes

\* Self-metadata decides: a reference that names no tender states norms.
Suppresses(d, v, t) == IsReference(t) /\ ~ Reading[d][v].nit

SuppressedTypes(d, v, t) ==
    IF Suppresses(d, v, t) THEN Reading[d][v].states \cap {"cost"} ELSE {}

\* The fields that are persisted; no reference has a bill of its own.
Emitted(d, v, t) ==
    Reading[d][v].states \ (SuppressedTypes(d, v, t)
                            \cup IF IsReference(t) THEN {"line"} ELSE {})

Rows(d, v, t) == {[doc |-> d, type |-> f, version |-> v] : f \in Emitted(d, v, t)}

\* Mutant: a version withdraws only what earlier versions wrote.
StaleOfOlder(d, v, t, rows, gone) ==
    {k \in rows \ gone : k.doc = d /\ k.type \in SuppressedTypes(d, v, t) /\ k.version < v}

\* Mutant: what is suppressed is withdrawn unseen.
StaleUnseen(d, v, t, rows, gone) ==
    {[doc |-> d, type |-> f, version |-> x] : f \in SuppressedTypes(d, v, t), x \in Versions} \ gone

\* persist_retractions: the facts to withdraw, of whichever version.
Stale(d, v, t, rows, gone) ==
    {k \in rows \ gone : k.doc = d /\ k.type \in SuppressedTypes(d, v, t)}

\* compute_for_document, evaluate_all: the share, if the cost is stated.
ShareOf(d, v, t) == IF "cost" \in Emitted(d, v, t) THEN v ELSE 0

Conclusion(outcome, shares) ==
    [outcome |-> outcome, cites |-> {p[1] : p \in shares},
     print |-> [outcome |-> outcome, shares |-> shares]]

Verify(d, v, t) ==
    IF ShareOf(d, v, t) = 0 THEN Conclusion("inconclusive", {})
    ELSE Conclusion(Verdict[d][v], {<<d, v>>})

\* evaluate_derived_share_consistency
ConsistentShares(shares) ==
    LET stated == {<<d, shares[d]>> : d \in {x \in Documents : shares[x] # 0}}
        amounts == {Amount[p[1]][p[2]] : p \in stated}
    IN  Conclusion(IF Cardinality(stated) < 2 THEN "inconclusive"
                   ELSE IF Cardinality(amounts) = 1 THEN "pass" ELSE "fail",
                   stated)

-----------------------------------------------------------------------------
(* Sessions *)

NoWork == [facts |-> {}, withdrawn |-> {}, state |-> <<>>, derived |-> <<>>, findings |-> <<>>]

Idle == [pc |-> "idle", version |-> 1, whole |-> FALSE, again |-> FALSE, rest |-> {},
         held |-> <<>>, seen |-> {}, loaded |-> None, passed |-> {},
         work |-> NoWork, read |-> <<>>, steady |-> TRUE]

Others(s) == {session[o] : o \in Sessions \ {s}}
Open == {s \in Sessions : session[s].pc # "idle"}

\* The documents still to analyse, by size.
Current(s) ==
    CHOOSE d \in session[s].rest : \A e \in session[s].rest : Size[d] <= Size[e]

Held(s, d) == session[s].held[d]
My(s) == session[s].work

\* Rows f over rows g, and the row x of f rewritten.
Over(f, g) == [x \in DOMAIN f \cup DOMAIN g |-> IF x \in DOMAIN f THEN f[x] ELSE g[x]]
Put(f, x, row) == [y \in DOMAIN f \cup {x} |-> IF y = x THEN row ELSE f[y]]

\* What session s reads: the committed rows under its own.
FactsSeen(s) == facts \cup My(s).facts
WithdrawnSeen(s) == withdrawn \cup My(s).withdrawn
DerivedSeen(s) == Over(My(s).derived, derived)
FindingsSeen(s) == Over(My(s).findings, findings)
StateSeen(s, d) == IF d \in DOMAIN My(s).state THEN My(s).state[d] ELSE Held(s, d).state

Locked(s, d) == \E o \in Others(s) : d \in DOMAIN o.work.state

\* session_scope: an exception ends the session and takes back its work.
RollBack(s) ==
    /\ session' = [session EXCEPT ![s] = Idle]
    /\ UNCHANGED <<type, state, corpus, deployed, read, count>>

\* A flush that succeeds changes nothing that others can see.
Flush(s, becomes) ==
    /\ session' = [session EXCEPT ![s] = becomes]
    /\ UNCHANGED <<type, state, corpus, deployed, read, count>>

TypeOK ==
    /\ type \in [Documents -> Types]
    /\ state \in [Documents -> DocumentState]
    /\ facts \subseteq Key /\ withdrawn \subseteq facts
    /\ derived \in [Documents -> Versions \cup {0}]
    /\ findings \in [Subjects -> Finding \cup {None}]
    /\ \A f \in Subjects : reviews[f] \subseteq Review
    /\ \A s \in Sessions : session[s].work.withdrawn \subseteq FactsSeen(s)
    /\ deployed \in Versions

Init ==
    /\ type = [d \in Documents |-> FirstType]
    /\ state = [d \in Documents |-> "downloaded"]
    /\ facts = {} /\ withdrawn = {}
    /\ derived = [d \in Documents |-> 0]
    /\ findings = [f \in Subjects |-> None]
    /\ reviews = [f \in Subjects |-> {}]
    /\ session = [s \in Sessions |-> Idle]
    /\ deployed = 1
    /\ read = [d \in Documents |-> None]
    /\ count = [analyses |-> 0, events |-> 0]

Spend(what) == count' = [count EXCEPT ![what] = @ + 1]

\* A session for one document (analyse ID), for a project and its documents
\* (process_project), or for the project alone (analyse --project).  It holds
\* the rows of the documents as they are now.
Start(s) ==
    /\ session[s].pc = "idle" /\ count.analyses < Analyses
    /\ \E docs \in {{d} : d \in Documents} \cup {Documents, {}}, again \in BOOLEAN :
         /\ again => docs # {}
         /\ LET whole == Cardinality(docs) # 1
                opened == [Idle EXCEPT !.pc = "next", !.version = deployed, !.rest = docs,
                                       !.whole = whole, !.again = again \/ ~ whole,
                                       !.steady = \A o \in Open : session[o].steady,
                                       !.held = [d \in docs |-> [type |-> type[d], state |-> state[d]]]]
            IN  /\ ~ whole => again
                /\ session' = [session EXCEPT ![s] = opened]
    /\ Spend("analyses")
    /\ UNCHANGED <<type, state, corpus, deployed, read>>

\* A project skips what it holds as processed, unless told to reprocess.
Skip(s) ==
    /\ session[s].pc = "next" /\ session[s].rest # {}
    /\ Held(s, Current(s)).state = "processed" /\ ~ session[s].again
    /\ Flush(s, [session[s] EXCEPT !.rest = @ \ {Current(s)}])

\* analyse_document: the bytes match and are parsed; then the stale facts are
\* looked up.
ReadDocument(s) ==
    /\ session[s].pc = "next" /\ session[s].rest # {}
    /\ Held(s, Current(s)).state = "processed" => session[s].again
    /\ LET d == Current(s)
       IN  Flush(s, [session[s] EXCEPT !.pc = "withdraw",
             !.seen = Stale(d, session[s].version, Held(s, d).type, FactsSeen(s), WithdrawnSeen(s))])

\* persist_retractions: one retraction a fact.
Withdraw(s) ==
    /\ session[s].pc = "withdraw"
    /\ \A o \in Others(s) : o.work.withdrawn \cap session[s].seen = {}
    /\ IF session[s].seen \cap withdrawn # {}
       THEN RollBack(s)
       ELSE Flush(s, [session[s] EXCEPT !.pc = "advance", !.work.withdrawn = @ \cup session[s].seen])

\* Mutant: the state is committed at once, for others to see.
AdvanceInSight(s) ==
    /\ session[s].pc = "advance"
    /\ LET rows == Rows(Current(s), session[s].version, Held(s, Current(s)).type)
       IN  session' = [session EXCEPT ![s].pc = "store", ![s].seen = rows \cap FactsSeen(s)]
    /\ state' = [state EXCEPT ![Current(s)] = IF @ = "processed" THEN @ ELSE "processing"]
    /\ UNCHANGED <<type, corpus, deployed, read, count>>

\* _advance: PROCESSING, unless the document is held as processed; then the
\* facts that are there are looked up.
Advance(s) ==
    /\ session[s].pc = "advance"
    /\ LET d == Current(s)
           from == StateSeen(s, d)
           rows == Rows(d, session[s].version, Held(s, d).type)
           found == [session[s] EXCEPT !.pc = "store", !.seen = rows \cap FactsSeen(s)]
       IN  IF from = "processed" THEN Flush(s, found)
           ELSE /\ ~ Locked(s, d)
                /\ CanTransition(IF from = "downloaded" THEN "validated" ELSE from, "processing")
                /\ Flush(s, [found EXCEPT !.work.state = Put(@, d, "processing")])

\* persist_facts: rows not found are inserted, and the verdict's row is read.
StoreFacts(s) ==
    /\ session[s].pc = "store"
    /\ LET d == Current(s)
           new == Rows(d, session[s].version, Held(s, d).type) \ session[s].seen
       IN  /\ \A o \in Others(s) : o.work.facts \cap new = {}
           /\ IF new \cap facts # {} THEN RollBack(s)
              ELSE Flush(s, [session[s] EXCEPT !.pc = "judge", !.work.facts = @ \cup new,
                                !.loaded = FindingsSeen(s)[d], !.passed = {}])

\* A column is written only if it differs from the row that was loaded.
Column(new, loaded, now) == IF new = loaded THEN now ELSE new

\* persist_finding, of a row that was loaded when it was `was' and is `now'.
Merge(new, was, now) ==
    IF was = None THEN new
    ELSE [outcome |-> Column(new.outcome, was.outcome, now.outcome),
          cites |-> new.cites \cup (now.cites \ was.cites),
          print |-> Column(new.print, was.print, now.print)]

\* Mutant: the citations have no key.
CollidesOnInsert(s, f, new) ==
    f \in session[s].passed /\ session[s].loaded = None

\* Another session committed the finding since it was read: a second insert,
\* and a second citation in one role, violate a key.
Collides(s, f, new) ==
    /\ f \in session[s].passed
    /\ session[s].loaded = None \/ findings[f].cites \cap new.cites # {}

\* persist_derived_facts and persist_finding; then PROCESSED.
Judge(s) ==
    /\ session[s].pc = "judge"
    /\ LET d == Current(s)
           t == Held(s, d).type
           new == Verify(d, session[s].version, t)
           share == ShareOf(d, session[s].version, t)
           done == IF StateSeen(s, d) = "processed" THEN My(s).state
                   ELSE Put(My(s).state, d, "processed")
       IN  /\ \A o \in Others(s) : d \notin DOMAIN o.work.findings
           /\ IF Collides(s, d, new) THEN RollBack(s)
              ELSE Flush(s, [session[s] EXCEPT
                     !.pc = IF session[s].whole THEN "next" ELSE "commit",
                     !.rest = @ \ {d},
                     !.work.derived = IF share = 0 THEN @ ELSE Put(@, d, share),
                     !.work.findings = Put(@, d, Merge(new, session[s].loaded, FindingsSeen(s)[d])),
                     !.work.state = done,
                     !.read = Put(@, d, [version |-> session[s].version, type |-> t, steady |-> FALSE])])

\* analyse_project: the shares are loaded and compared.
LoadProject(s) ==
    /\ session[s].pc = "next" /\ session[s].rest = {} /\ session[s].whole
    /\ Flush(s, [session[s] EXCEPT !.pc = "project", !.loaded = FindingsSeen(s)[Project],
                    !.seen = {ConsistentShares(DerivedSeen(s))}, !.passed = {}])

\* persist_project_finding
JudgeProject(s) ==
    /\ session[s].pc = "project"
    /\ \A o \in Others(s) : Project \notin DOMAIN o.work.findings
    /\ LET new == CHOOSE c \in session[s].seen : TRUE
       IN  IF Collides(s, Project, new) THEN RollBack(s)
           ELSE Flush(s, [session[s] EXCEPT !.pc = "commit", !.seen = {},
                  !.work.findings = Put(@, Project, Merge(new, session[s].loaded, FindingsSeen(s)[Project]))])

\* Sessions that have read a finding which is written under them.
Overtaken(o, by) ==
    IF session[o].pc \in {"judge", "project"}
    THEN [session[o] EXCEPT !.passed = @ \cup DOMAIN by.findings] ELSE session[o]

Commit(s) ==
    /\ session[s].pc = "commit"
    /\ LET w == My(s)
       IN  /\ facts' = facts \cup w.facts
           /\ withdrawn' = withdrawn \cup w.withdrawn
           /\ state' = Over(w.state, state)
           /\ derived' = Over(w.derived, derived)
           /\ findings' = Over(w.findings, findings)
           /\ read' = Over([d \in DOMAIN session[s].read |->
                               [session[s].read[d] EXCEPT !.steady = session[s].steady]], read)
           /\ session' = [o \in Sessions |-> IF o = s THEN Idle ELSE Overtaken(o, w)]
    /\ UNCHANGED <<type, reviews, deployed, count>>

-----------------------------------------------------------------------------
(* Failures *)

\* process_project catches the error: FAILED, if the state it holds may fail.
FailInProject(s) ==
    /\ session[s].pc = "next" /\ session[s].rest # {} /\ session[s].whole
    /\ Held(s, Current(s)).state = "processed" => session[s].again
    /\ count.events < Events
    /\ LET d == Current(s)
       IN  /\ ~ Locked(s, d)
           /\ session' = [session EXCEPT ![s].rest = @ \ {d},
                 ![s].work.state = IF CanTransition(StateSeen(s, d), "failed")
                                   THEN Put(@, d, "failed") ELSE @]
    /\ Spend("events")
    /\ UNCHANGED <<type, state, corpus, deployed, read>>

\* The command line rolls back and looks at the document anew...
FailAlone(s) ==
    /\ session[s].pc = "next" /\ session[s].rest # {} /\ ~ session[s].whole
    /\ count.events < Events
    /\ LET d == Current(s)
       IN  session' = [session EXCEPT ![s] =
              [Idle EXCEPT !.pc = "fail", !.rest = {d}, !.steady = session[s].steady,
                           !.held = [x \in {d} |-> [type |-> type[x], state |-> state[x]]]]]
    /\ Spend("events")
    /\ UNCHANGED <<type, state, corpus, deployed, read>>

\* ...to record the failure if it may fail (record_analysis_failure).
RecordFailure(s) ==
    /\ session[s].pc = "fail"
    /\ LET d == Current(s)
       IN  IF CanTransition(Held(s, d).state, "failed")
           THEN /\ ~ Locked(s, d)
                /\ Flush(s, [session[s] EXCEPT !.pc = "commit", !.work.state = Put(@, d, "failed")])
           ELSE RollBack(s)

\* The process dies, a statement times out, or a deadlock is broken.
Die(s) ==
    /\ session[s].pc # "idle" /\ count.events < Events
    /\ session' = [session EXCEPT ![s] = Idle]
    /\ Spend("events")
    /\ UNCHANGED <<type, state, corpus, deployed, read>>

-----------------------------------------------------------------------------
(* People *)

\* confirm_document_type: waits for an analysis that wrote the row.
Confirm(d) ==
    /\ count.events < Events
    /\ \A s \in Sessions : d \notin DOMAIN session[s].work.state
    /\ \E t \in Types \ {type[d]} : type' = [type EXCEPT ![d] = t]
    /\ session' = [s \in Sessions |->
          [session[s] EXCEPT !.steady = session[s].pc = "idle"]]
    /\ Spend("events")
    /\ UNCHANGED <<state, corpus, deployed, read>>

\* The extractor is replaced; sessions that run keep theirs.
Upgrade ==
    /\ deployed + 1 \in Versions
    /\ deployed' = deployed + 1
    /\ UNCHANGED <<type, state, corpus, session, read, count>>

\* No type was confirmed while the analysis, or one it overlapped, ran.
ReadSteadily(d) == read[d] # None /\ read[d].steady

\* What a reader of the finding is shown: the rows it cites as they are.
Shown(f) ==
    [outcome |-> findings[f].outcome,
     shares |-> {<<d, derived[d]>> : d \in findings[f].cites}]

\* record_review: bound to the fingerprint of the finding.
RecordReview(f) ==
    /\ count.events < Events
    /\ findings[f] # None
    /\ reviews' = [reviews EXCEPT ![f] = @ \cup {[print |-> findings[f].print, shown |-> Shown(f),
                                                  steady |-> f \in Documents /\ ReadSteadily(f)]}]
    /\ Spend("events")
    /\ UNCHANGED <<type, state, facts, withdrawn, derived, findings, session, deployed, read>>

\* Mutant: a review is bound to the outcome.
CurrentByOutcome(f) ==
    {r \in reviews[f] : findings[f] # None /\ r.print.outcome = findings[f].outcome}

\* Finding.current_review: the reviews that still speak for the finding.
Current_review(f) ==
    {r \in reviews[f] : /\ findings[f] # None
                        /\ r.print = findings[f].print
                        /\ r.print.outcome = findings[f].outcome}

Next ==
    \/ \E s \in Sessions :
         \/ Start(s) \/ Skip(s) \/ ReadDocument(s) \/ Withdraw(s) \/ Advance(s) \/ StoreFacts(s)
         \/ Judge(s) \/ LoadProject(s) \/ JudgeProject(s) \/ Commit(s)
         \/ FailInProject(s) \/ FailAlone(s) \/ RecordFailure(s) \/ Die(s)
    \/ \E d \in Documents : Confirm(d)
    \/ Upgrade
    \/ \E f \in Subjects : RecordReview(f)

Spec == Init /\ [][Next]_vars

-----------------------------------------------------------------------------
(* Properties *)

\* The versions of the extractor agree on whether the document names a tender
\* and states a cost.  Between two that do not, sessions that overlap leave a
\* mixture behind, which the properties below leave out.
ReadAlike(d) ==
    \A v, w \in Versions :
        /\ Reading[d][v].nit = Reading[d][w].nit
        /\ "cost" \in Reading[d][v].states <=> "cost" \in Reading[d][w].states

Undisturbed(d) == ReadSteadily(d) /\ ReadAlike(d)

\* A document shown as processed was read to its end, verdict included, and a
\* reader never meets one in the middle of an analysis (process_project).
ProcessedIsRead ==
    \A d \in Documents :
        /\ state[d] \in {"downloaded", "processed", "failed"}
        /\ state[d] = "processed" =>
              /\ read[d] # None /\ findings[d] # None
              /\ Rows(d, read[d].version, read[d].type) \subseteq facts

\* When a document was last read as a reference that states nothing about
\* itself, and nobody retyped a document meanwhile, no fact of a suppressed type
\* is served any more, whichever version wrote it and whatever sessions ran
\* beside it (persist_retractions).
SuppressedIsWithdrawn ==
    \A d \in Documents : Undisturbed(d) =>
        \A k \in facts \ withdrawn :
            k.doc = d => k.type \notin SuppressedTypes(d, read[d].version, read[d].type)

\* The fingerprint of a document's finding describes the verdict and the
\* computed values that the stored rows hold, though analyses of two versions
\* overlap (persist_finding, persist_derived_facts).
FingerprintsDescribeTheirRows ==
    \A d \in Documents : Undisturbed(d) => findings[d].print = Shown(d)

\* A review of a document's finding that counts was taken on what the finding
\* shows now (Finding.current_review).
AcceptanceIsOfWhatIsShown ==
    \A d \in Documents : Undisturbed(d) =>
        \A r \in Current_review(d) : r.steady => r.shown = Shown(d)

\* "None for every fact that still stands" (models.py, ExtractedFact): what
\* the last analysis states of a document is served.
StatedIsServed ==
    \A d \in Documents : ReadSteadily(d) =>
        Rows(d, read[d].version, read[d].type) \cap withdrawn = {}

=============================================================================
