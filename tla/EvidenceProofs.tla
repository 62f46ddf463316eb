---------------------------- MODULE EvidenceProofs ----------------------------
(***************************************************************************)
(* Theorems of Evidence, for any documents, sessions, versions and types:  *)
(* what is committed is well formed, and a document is shown as processed  *)
(* only when it was read to its end, verdict included, whatever sessions   *)
(* run beside each other, fail or die; no suppressed fact is served, the   *)
(* fingerprint of the finding describes the rows it cites, and a review    *)
(* that counts was taken on what the finding shows.                        *)
(***************************************************************************)
EXTENDS Evidence, WellFoundedInduction, TLAPS

\* Functions from a part of S.
PartialFn(S, T) == UNION {[D -> T] : D \in SUBSET S}

-----------------------------------------------------------------------------
(* What a session is *)

\* States in which a transaction may leave a document, and to which it moves
\* one.
Settled == {"downloaded", "processed", "failed"}
Moved == {"processing", "processed", "failed"}

HeldRow == [type : Types, state : Settled]

Work == [facts : SUBSET Key, withdrawn : SUBSET Key,
         state : PartialFn(Documents, Moved),
         derived : PartialFn(Documents, Versions),
         findings : PartialFn(Subjects, Finding)]

Phases == {"idle", "next", "withdraw", "advance", "store", "judge", "project", "commit", "fail"}

Session == [pc : Phases, version : Versions, whole : BOOLEAN, again : BOOLEAN,
            rest : SUBSET Documents, held : PartialFn(Documents, HeldRow),
            seen : SUBSET (Key \cup Finding), loaded : Finding \cup {None},
            passed : SUBSET Subjects, work : Work, read : PartialFn(Documents, ReadRow),
            steady : BOOLEAN]

\* What others see: the committed rows that sessions rely on.
Committed == [facts |-> facts, derived |-> derived, findings |-> findings]

Committable == [facts : SUBSET Key, derived : [Documents -> Versions \cup {0}],
                findings : [Subjects -> Finding \cup {None}]]

\* Of a session r beside c: the document it is at, the facts and the shares it
\* sees, and whether it sees a finding.
First(r) == CHOOSE d \in r.rest : \A e \in r.rest : Size[d] <= Size[e]
FactsOf(r, c) == c.facts \cup r.work.facts
SharesOf(r, c) == {d \in Documents : d \in DOMAIN r.work.derived \/ c.derived[d] # 0}
Present(r, c, f) == f \in DOMAIN r.work.findings \/ c.findings[f] # None

\* There is a document while one is read, and its row is held.
AtDocument(r) ==
    /\ r.pc \in {"withdraw", "advance", "store", "judge", "fail"} => r.rest # {}
    /\ r.rest \subseteq DOMAIN r.held

\* Only the document that is being read is in the middle of its analysis.
InProgress(r) ==
    \A d \in DOMAIN r.work.state :
        r.work.state[d] = "processing" => r.pc \in {"store", "judge"} /\ d = First(r)

\* What was read has its verdict and its facts, and only that is processed.
ReadWhole(r, c) ==
    /\ \A d \in DOMAIN r.read :
          d \in DOMAIN r.work.findings /\ Rows(d, r.read[d].version, r.read[d].type) \subseteq FactsOf(r, c)
    /\ \A d \in DOMAIN r.work.state : r.work.state[d] = "processed" => d \in DOMAIN r.read

\* What is withdrawn, or was found, is there.
Sees(r, c) ==
    /\ r.work.withdrawn \subseteq FactsOf(r, c)
    /\ r.pc \in {"withdraw", "store"} => r.seen \subseteq FactsOf(r, c)

\* The facts of the document are there when it is judged.
Judges(r, c) ==
    r.pc = "judge" => Rows(First(r), r.version, r.held[First(r)].type) \subseteq FactsOf(r, c)

\* A finding that was loaded has not gone.
Loads(r, c) ==
    r.loaded # None =>
        /\ r.pc = "judge" => Present(r, c, First(r))
        /\ r.pc = "project" => Present(r, c, Project)

\* Shares that are cited are there.
Cites(r, c) ==
    /\ \A f \in DOMAIN r.work.findings : r.work.findings[f].cites \subseteq SharesOf(r, c)
    /\ r.pc = "project" => \E n \in Finding : r.seen = {n} /\ n.cites \subseteq SharesOf(r, c)

Sound(r, c) ==
    /\ AtDocument(r) /\ InProgress(r) /\ ReadWhole(r, c) /\ Sees(r, c)
    /\ Judges(r, c) /\ Loads(r, c) /\ Cites(r, c)

SessionsSound ==
    /\ session \in [Sessions -> Session]
    /\ \A s \in Sessions : Sound(session[s], Committed)

\* What is committed: a share that is cited is there.
CitesStored ==
    \A f \in Subjects : findings[f] # None =>
        findings[f].cites \subseteq {d \in Documents : derived[d] # 0}

HistoryTyped ==
    /\ read \in [Documents -> ReadRow \cup {None}]
    /\ DOMAIN reviews = Subjects

IInv == TypeOK /\ ProcessedIsRead /\ HistoryTyped /\ CitesStored /\ SessionsSound

-----------------------------------------------------------------------------
(* Functions *)

LEMMA PartialFnDef ==
    ASSUME NEW S, NEW T, NEW f
    PROVE  f \in PartialFn(S, T) <=> f \in [DOMAIN f -> T] /\ DOMAIN f \subseteq S
BY DEF PartialFn

LEMMA EmptyFn == ASSUME NEW S, NEW T PROVE <<>> \in PartialFn(S, T) /\ DOMAIN <<>> = {}
<1>1. <<>> \in [{} -> T]
  OBVIOUS
<1> QED BY <1>1 DEF PartialFn

LEMMA PutPoint ==
    ASSUME NEW S, NEW T, NEW f \in PartialFn(S, T), NEW x \in S, NEW row \in T
    PROVE  Put(f, x, row) \in PartialFn(S, T)
<1>1. f \in [DOMAIN f -> T] /\ DOMAIN f \subseteq S
  BY PartialFnDef
<1>2. Put(f, x, row) \in [DOMAIN f \cup {x} -> T]
  BY <1>1 DEF Put
<1> QED BY <1>1, <1>2 DEF PartialFn

LEMMA PartialFnGrows ==
    ASSUME NEW S, NEW T, NEW U, T \subseteq U, NEW f \in PartialFn(S, T)
    PROVE  f \in PartialFn(S, U)
BY DEF PartialFn

LEMMA OverAll ==
    ASSUME NEW S, NEW U, NEW g \in [S -> U], NEW f \in PartialFn(S, U)
    PROVE  /\ Over(f, g) \in [S -> U]
           /\ \A y \in S : Over(f, g)[y] = IF y \in DOMAIN f THEN f[y] ELSE g[y]
<1>1. f \in [DOMAIN f -> U] /\ DOMAIN f \subseteq S
  BY PartialFnDef
<1> QED BY <1>1 DEF Over

-----------------------------------------------------------------------------
(* What an analysis computes *)

\* A set of documents has a smallest one.
LEMMA SomeFirst ==
    ASSUME NEW R \in SUBSET Documents, R # {}
    PROVE  (CHOOSE d \in R : \A e \in R : Size[d] <= Size[e]) \in R
<1> DEFINE sizes == {Size[d] : d \in R}
<1>1. Size \in [Documents -> Nat]
  BY EvidenceAssumption
<1>2. sizes \subseteq Nat /\ sizes # {}
  BY <1>1
<1>3. PICK n \in sizes : \A m \in sizes : ~ (<<m, n>> \in OpToRel(<, Nat))
  <2> HIDE DEF sizes
  <2> QED BY <1>2, WFMin, NatLessThanWellFounded
<1>4. \A m \in sizes : n <= m
  <2> HIDE DEF sizes
  <2> SUFFICES ASSUME NEW m \in sizes, m < n PROVE FALSE
    BY <1>2
  <2> QED BY <1>2, <1>3 DEF OpToRel
<1>5. PICK d \in R : n = Size[d]
  BY <1>3
<1>6. \A e \in R : Size[d] <= Size[e]
  BY <1>4, <1>5
<1> QED BY <1>6

LEMMA FirstIsLeft ==
    ASSUME NEW r \in Session, r.rest # {}
    PROVE  First(r) \in r.rest /\ First(r) \in Documents
BY SomeFirst DEF Session, First

LEMMA RowsAreKeys ==
    ASSUME NEW d \in Documents, NEW v \in Versions, NEW t
    PROVE  Rows(d, v, t) \subseteq Key
BY EvidenceAssumption DEF Rows, Emitted, Key

LEMMA Concluded ==
    ASSUME NEW outcome \in Outcomes, NEW shares \in SUBSET (Documents \X Versions)
    PROVE  /\ Conclusion(outcome, shares) \in Finding
           /\ Conclusion(outcome, shares).cites = {p[1] : p \in shares}
BY DEF Conclusion, Finding, Digest

LEMMA Verified ==
    ASSUME NEW d \in Documents, NEW v \in Versions, NEW t
    PROVE  /\ Verify(d, v, t) \in Finding
           /\ Verify(d, v, t).cites \subseteq IF ShareOf(d, v, t) = 0 THEN {} ELSE {d}
           /\ ShareOf(d, v, t) # 0 => ShareOf(d, v, t) \in Versions
<1>1. ShareOf(d, v, t) \in {v, 0}
  BY DEF ShareOf
<1>2. CASE ShareOf(d, v, t) = 0
  BY <1>2, Concluded DEF Verify, Outcomes
<1>3. CASE ShareOf(d, v, t) # 0
  <2>1. Verdict[d][v] \in Outcomes
    BY EvidenceAssumption
  <2>2. {<<d, v>>} \in SUBSET (Documents \X Versions)
    OBVIOUS
  <2>3. Verify(d, v, t) = Conclusion(Verdict[d][v], {<<d, v>>})
    BY <1>3 DEF Verify
  <2> QED BY <1>1, <1>3, <2>1, <2>2, <2>3, Concluded
<1> QED BY <1>2, <1>3

LEMMA SharesCompared ==
    ASSUME NEW shares \in [Documents -> Versions \cup {0}]
    PROVE  /\ ConsistentShares(shares) \in Finding
           /\ ConsistentShares(shares).cites \subseteq {d \in Documents : shares[d] # 0}
<1> DEFINE stated == {<<d, shares[d]>> : d \in {x \in Documents : shares[x] # 0}}
           amounts == {Amount[p[1]][p[2]] : p \in stated}
           outcome == IF Cardinality(stated) < 2 THEN "inconclusive"
                      ELSE IF Cardinality(amounts) = 1 THEN "pass" ELSE "fail"
<1>1. stated \in SUBSET (Documents \X Versions)
  OBVIOUS
<1>2. outcome \in Outcomes
  BY DEF Outcomes
<1>3. ConsistentShares(shares) = Conclusion(outcome, stated)
  BY DEF ConsistentShares
<1>4. {p[1] : p \in stated} \subseteq {d \in Documents : shares[d] # 0}
  OBVIOUS
<1> HIDE DEF stated, outcome
<1> QED BY <1>1, <1>2, <1>3, <1>4, Concluded

LEMMA Merged ==
    ASSUME NEW new \in Finding, NEW was \in Finding \cup {None}, NEW now \in Finding \cup {None},
           was # None => now # None
    PROVE  /\ Merge(new, was, now) \in Finding
           /\ Merge(new, was, now).cites \subseteq new.cites \cup (IF now = None THEN {} ELSE now.cites)
<1>1. CASE was = None
  BY <1>1 DEF Merge, Finding
<1>2. CASE was # None
  <2>1. was \in Finding /\ now \in Finding
    BY <1>2
  <2> DEFINE outcome == Column(new.outcome, was.outcome, now.outcome)
             cites == new.cites \cup (now.cites \ was.cites)
             print == Column(new.print, was.print, now.print)
  <2>2. outcome \in Outcomes /\ print \in Digest /\ cites \in SUBSET Documents
    BY <2>1 DEF Column, Finding
  <2>3. Merge(new, was, now) = [outcome |-> outcome, cites |-> cites, print |-> print]
    BY <1>2 DEF Merge
  <2>4. now # None /\ cites \subseteq new.cites \cup now.cites
    BY <1>2
  <2> HIDE DEF outcome, cites, print
  <2> QED BY <2>2, <2>3, <2>4 DEF Finding
<1> QED BY <1>1, <1>2

-----------------------------------------------------------------------------
(* A step of one session *)

LEMMA CommittedIs ==
    ASSUME TypeOK
    PROVE  /\ Committed \in Committable
           /\ Committed.facts = facts /\ Committed.derived = derived /\ Committed.findings = findings
BY DEF TypeOK, Committed, Committable

\* What others commit only adds to what a session relies on.
Adds(c, e) ==
    /\ c.facts \subseteq e.facts
    /\ \A d \in Documents : c.derived[d] # 0 => e.derived[d] # 0
    /\ \A f \in Subjects : c.findings[f] # None => e.findings[f] # None

\* A session that is as it was stays sound, whatever it learns of others.
LEMMA SoundStays ==
    ASSUME NEW r \in Session, NEW q \in Session, NEW c, NEW e, Sound(r, c), Adds(c, e),
           q.pc = r.pc, q.version = r.version, q.rest = r.rest, q.held = r.held, q.seen = r.seen,
           q.loaded = r.loaded, q.work = r.work, q.read = r.read
    PROVE  Sound(q, e)
<1>0. First(q) = First(r) /\ FactsOf(r, c) \subseteq FactsOf(q, e) /\ SharesOf(r, c) \subseteq SharesOf(q, e)
  BY DEF First, FactsOf, SharesOf, Adds
<1>1. AtDocument(q) /\ InProgress(q)
  BY <1>0 DEF Sound, AtDocument, InProgress
<1>2. ReadWhole(q, e)
  BY <1>0 DEF Sound, ReadWhole
<1>3. Sees(q, e)
  BY <1>0 DEF Sound, Sees
<1>4. Judges(q, e)
  BY <1>0 DEF Sound, Judges
<1>5. Loads(q, e)
  <2>1. First(r) \in Subjects \/ r.pc # "judge"
    BY FirstIsLeft DEF Sound, AtDocument, Subjects
  <2> QED BY <1>0, <2>1 DEF Sound, Loads, Present, Adds, Subjects
<1>6. Cites(q, e)
  BY <1>0 DEF Sound, Cites
<1> QED BY <1>1, <1>2, <1>3, <1>4, <1>5, <1>6 DEF Sound

LEMMA SessionStep ==
    ASSUME IInv, NEW s \in Sessions, NEW b \in Session, Sound(b, Committed),
           session' = [session EXCEPT ![s] = b],
           UNCHANGED <<type, state, corpus, deployed, read>>
    PROVE  IInv'
<1> USE DEF corpus
<1>1. Committed' = Committed
  BY DEF Committed
<1>2. session' \in [Sessions -> Session]
  BY DEF IInv, SessionsSound
<1>3. \A o \in Sessions : Sound(session'[o], Committed)
  BY DEF IInv, SessionsSound
<1>4. SessionsSound'
  BY <1>1, <1>2, <1>3 DEF SessionsSound
<1>5. \A o \in Sessions : session'[o].work.withdrawn \subseteq facts \cup session'[o].work.facts
  <2> SUFFICES ASSUME NEW o \in Sessions
               PROVE  session'[o].work.withdrawn \subseteq facts \cup session'[o].work.facts
    OBVIOUS
  <2>1. Sees(session'[o], Committed)
    BY <1>3 DEF Sound
  <2> QED BY <2>1 DEF Sees, FactsOf, Committed
<1>6. TypeOK'
  BY <1>5 DEF IInv, TypeOK, FactsSeen, My
<1>7. ProcessedIsRead' /\ HistoryTyped' /\ CitesStored'
  BY DEF IInv, ProcessedIsRead, HistoryTyped, CitesStored
<1> QED BY <1>4, <1>6, <1>7 DEF IInv

LEMMA Acting ==
    ASSUME IInv, NEW s \in Sessions
    PROVE  /\ session[s] \in Session /\ Sound(session[s], Committed)
           /\ Committed \in Committable
           /\ Committed.facts = facts /\ Committed.derived = derived /\ Committed.findings = findings
BY CommittedIs DEF IInv, SessionsSound

LEMMA NoWorkTyped == NoWork \in Work
BY EmptyFn DEF NoWork, Work

LEMMA IdleTyped == Idle \in Session
BY NoWorkTyped, EmptyFn, EvidenceAssumption DEF Idle, Session, Phases

\* A session that has written nothing.
LEMMA FreshSound ==
    ASSUME NEW r \in Session, NEW c, r.work = NoWork, r.read = <<>>, r.rest \subseteq DOMAIN r.held,
           r.pc \in {"idle", "next", "fail"}, r.pc = "fail" => r.rest # {}
    PROVE  Sound(r, c)
<1>1. DOMAIN r.work.state = {} /\ DOMAIN r.read = {} /\ DOMAIN r.work.findings = {} /\ r.work.withdrawn = {}
  BY EmptyFn DEF NoWork
<1> QED BY <1>1 DEF Sound, AtDocument, InProgress, ReadWhole, Sees, Judges, Loads, Cites

LEMMA IdleSound == ASSUME NEW c PROVE Sound(Idle, c)
<1>1. Idle.work = NoWork /\ Idle.read = <<>> /\ Idle.rest = {} /\ Idle.pc = "idle"
  BY DEF Idle
<1> QED BY <1>1, IdleTyped, FreshSound

LEMMA EndStep ==
    ASSUME IInv, NEW s \in Sessions, session' = [session EXCEPT ![s] = Idle],
           UNCHANGED <<type, state, corpus, deployed, read>>
    PROVE  IInv'
BY IdleTyped, IdleSound, SessionStep

LEMMA RollBackStep == ASSUME IInv, NEW s \in Sessions, RollBack(s) PROVE IInv'
BY EndStep DEF RollBack

LEMMA DieStep == ASSUME IInv, NEW s \in Sessions, Die(s) PROVE IInv'
BY EndStep DEF Die

\* The rows of documents as a session holds them.
LEMMA HeldTyped ==
    ASSUME IInv, NEW docs \in SUBSET Documents
    PROVE  [d \in docs |-> [type |-> type[d], state |-> state[d]]] \in PartialFn(Documents, HeldRow)
<1> DEFINE held == [d \in docs |-> [type |-> type[d], state |-> state[d]]]
<1>1. ASSUME NEW d \in docs PROVE held[d] \in HeldRow
  BY DEF IInv, TypeOK, ProcessedIsRead, HeldRow, Settled
<1> QED BY <1>1 DEF PartialFn

LEMMA StartStep == ASSUME IInv, NEW s \in Sessions, Start(s) PROVE IInv'
<1>1. PICK docs \in SUBSET Documents, again \in BOOLEAN :
        \E whole \in BOOLEAN, steady \in BOOLEAN :
          session' = [session EXCEPT ![s] =
             [Idle EXCEPT !.pc = "next", !.version = deployed, !.rest = docs,
                !.whole = whole, !.again = again \/ ~ whole, !.steady = steady,
                !.held = [d \in docs |-> [type |-> type[d], state |-> state[d]]]]]
  <2>1. PICK docs \in {{d} : d \in Documents} \cup {Documents, {}}, again \in BOOLEAN :
          LET whole == Cardinality(docs) # 1
              opened == [Idle EXCEPT !.pc = "next", !.version = deployed, !.rest = docs,
                                     !.whole = whole, !.again = again \/ ~ whole,
                                     !.steady = \A o \in Open : session[o].steady,
                                     !.held = [d \in docs |-> [type |-> type[d], state |-> state[d]]]]
          IN  session' = [session EXCEPT ![s] = opened]
    BY DEF Start
  <2>2. docs \in SUBSET Documents
    BY <2>1
  <2> QED BY <2>1, <2>2
<1>2. PICK whole \in BOOLEAN, steady \in BOOLEAN :
          session' = [session EXCEPT ![s] =
             [Idle EXCEPT !.pc = "next", !.version = deployed, !.rest = docs,
                !.whole = whole, !.again = again \/ ~ whole, !.steady = steady,
                !.held = [d \in docs |-> [type |-> type[d], state |-> state[d]]]]]
  BY <1>1
<1> DEFINE held == [d \in docs |-> [type |-> type[d], state |-> state[d]]]
           b == [Idle EXCEPT !.pc = "next", !.version = deployed, !.rest = docs,
                   !.whole = whole, !.again = again \/ ~ whole, !.steady = steady, !.held = held]
<1>3. held \in PartialFn(Documents, HeldRow) /\ DOMAIN held = docs
  BY HeldTyped
<1>4. deployed \in Versions /\ (again \/ ~ whole) \in BOOLEAN
  BY DEF IInv, TypeOK
<1>5. session' = [session EXCEPT ![s] = b]
  BY <1>2
<1> HIDE DEF held
<1>6. b \in Session /\ b.work = NoWork /\ b.read = <<>> /\ b.rest = docs /\ b.held = held /\ b.pc = "next"
  BY <1>3, <1>4, IdleTyped DEF Idle, Session, Phases
<1> HIDE DEF b
<1>7. Sound(b, Committed)
  BY <1>3, <1>6, FreshSound
<1> QED BY <1>5, <1>6, <1>7, SessionStep DEF Start

LEMMA SkipStep == ASSUME IInv, NEW s \in Sessions, Skip(s) PROVE IInv'
<1> DEFINE r == session[s]
           b == [r EXCEPT !.rest = @ \ {Current(s)}]
<1>1. r \in Session /\ Sound(r, Committed)
  BY Acting
<1>2. /\ b \in Session /\ b.pc = "next" /\ r.pc = "next" /\ b.rest \subseteq r.rest
      /\ b.version = r.version /\ b.held = r.held /\ b.seen = r.seen
      /\ b.loaded = r.loaded /\ b.work = r.work /\ b.read = r.read
  BY <1>1 DEF Skip, Session
<1>3. session' = [session EXCEPT ![s] = b]
  BY DEF Skip, Flush
<1> HIDE DEF r, b
<1>4. Sound(b, Committed)
  BY <1>1, <1>2
     DEF Sound, AtDocument, InProgress, ReadWhole, Sees, Judges, Loads, Cites, FactsOf, SharesOf
<1> QED BY <1>2, <1>3, <1>4, SessionStep DEF Skip, Flush

LEMMA ReadDocumentStep == ASSUME IInv, NEW s \in Sessions, ReadDocument(s) PROVE IInv'
<1> DEFINE r == session[s]
           seen == Stale(Current(s), r.version, Held(s, Current(s)).type, FactsSeen(s), WithdrawnSeen(s))
           b == [r EXCEPT !.pc = "withdraw", !.seen = seen]
<1>1. r \in Session /\ Sound(r, Committed) /\ Committed \in Committable /\ Committed.facts = facts
  BY Acting
<1>2. seen \subseteq FactsOf(r, Committed)
  BY <1>1 DEF Stale, FactsSeen, My, FactsOf
<1>3. FactsOf(r, Committed) \subseteq Key
  BY <1>1 DEF FactsOf, Committable, Session, Work
<1>4. session' = [session EXCEPT ![s] = b]
  BY DEF ReadDocument, Flush
<1>5. r.pc = "next" /\ r.rest # {}
  BY DEF ReadDocument
<1> HIDE DEF r, seen
<1>6. /\ b \in Session /\ b.pc = "withdraw" /\ b.rest = r.rest /\ b.version = r.version /\ b.held = r.held
      /\ b.seen = seen /\ b.loaded = r.loaded /\ b.work = r.work /\ b.read = r.read
  BY <1>1, <1>2, <1>3 DEF Session, Phases
<1> HIDE DEF b
<1>7. Sound(b, Committed)
  BY <1>1, <1>2, <1>5, <1>6
     DEF Sound, AtDocument, InProgress, ReadWhole, Sees, Judges, Loads, Cites, FactsOf, SharesOf
<1> QED BY <1>4, <1>6, <1>7, SessionStep DEF ReadDocument, Flush

\* What a session sees of the findings and the shares.
LEMMA FindingsAreSeen ==
    ASSUME IInv, NEW s \in Sessions
    PROVE  /\ FindingsSeen(s) \in [Subjects -> Finding \cup {None}]
           /\ \A f \in Subjects :
                /\ FindingsSeen(s)[f] # None <=> Present(session[s], Committed, f)
                /\ FindingsSeen(s)[f] # None => FindingsSeen(s)[f].cites \subseteq SharesOf(session[s], Committed)
<1> DEFINE mine == session[s].work.findings
           maybe == Finding \cup {None}
<1>1. mine \in PartialFn(Subjects, Finding) /\ findings \in [Subjects -> maybe] /\ Finding \subseteq maybe
  BY Acting DEF Session, Work, IInv, TypeOK
<1>2. FindingsSeen(s) = Over(mine, findings)
  BY DEF FindingsSeen, My
<1>3. \A f \in DOMAIN mine : mine[f] \in Finding /\ mine[f] # None
  BY <1>1, PartialFnDef, EvidenceAssumption
<1>4. \A f \in DOMAIN mine : mine[f].cites \subseteq SharesOf(session[s], Committed)
  BY Acting DEF Sound, Cites
<1>5. \A f \in Subjects : findings[f] # None => findings[f].cites \subseteq SharesOf(session[s], Committed)
  BY Acting DEF IInv, CitesStored, SharesOf
<1>6. \A f \in Subjects : Present(session[s], Committed, f) <=> f \in DOMAIN mine \/ findings[f] # None
  BY Acting DEF Present
<1>7. /\ Over(mine, findings) \in [Subjects -> maybe]
      /\ \A y \in Subjects : Over(mine, findings)[y] = IF y \in DOMAIN mine THEN mine[y] ELSE findings[y]
  <2> HIDE DEF mine, maybe
  <2>1. mine \in PartialFn(Subjects, maybe)
    BY <1>1, PartialFnGrows
  <2> QED BY <1>1, <2>1, OverAll
<1> HIDE DEF mine
<1> QED BY <1>2, <1>3, <1>4, <1>5, <1>6, <1>7

LEMMA SharesAreSeen ==
    ASSUME IInv, NEW s \in Sessions
    PROVE  /\ DerivedSeen(s) \in [Documents -> Versions \cup {0}]
           /\ \A d \in Documents : DerivedSeen(s)[d] # 0 => d \in SharesOf(session[s], Committed)
<1> DEFINE mine == session[s].work.derived
           maybe == Versions \cup {0}
<1>1. mine \in PartialFn(Documents, Versions) /\ derived \in [Documents -> maybe] /\ Versions \subseteq maybe
  BY Acting DEF Session, Work, IInv, TypeOK
<1>2. DerivedSeen(s) = Over(mine, derived)
  BY DEF DerivedSeen, My
<1>3. \A d \in Documents : d \in SharesOf(session[s], Committed) <=> d \in DOMAIN mine \/ derived[d] # 0
  BY Acting DEF SharesOf
<1>4. /\ Over(mine, derived) \in [Documents -> maybe]
      /\ \A y \in Documents : Over(mine, derived)[y] = IF y \in DOMAIN mine THEN mine[y] ELSE derived[y]
  <2> HIDE DEF mine, maybe
  <2>1. mine \in PartialFn(Documents, maybe)
    BY <1>1, PartialFnGrows
  <2> QED BY <1>1, <2>1, OverAll
<1> HIDE DEF mine
<1> QED BY <1>2, <1>3, <1>4

LEMMA WithdrawStep == ASSUME IInv, NEW s \in Sessions, Withdraw(s) PROVE IInv'
<1> DEFINE r == session[s]
           b == [r EXCEPT !.pc = "advance", !.work.withdrawn = @ \cup r.seen]
<1>1. CASE RollBack(s)
  BY <1>1, RollBackStep
<1>2. CASE Flush(s, b)
  <2>1. r \in Session /\ Sound(r, Committed) /\ Committed \in Committable /\ r.pc = "withdraw"
    BY Acting DEF Withdraw
  <2>2. r.seen \subseteq FactsOf(r, Committed) /\ r.work \in Work
    BY <2>1 DEF Sound, Sees, Session
  <2>3. FactsOf(r, Committed) \subseteq Key
    BY <2>1, <2>2 DEF FactsOf, Committable, Work
  <2>4. session' = [session EXCEPT ![s] = b] /\ UNCHANGED <<type, state, corpus, deployed, read>>
    BY <1>2 DEF Flush
  <2> HIDE DEF r
  <2> DEFINE w == [r.work EXCEPT !.withdrawn = @ \cup r.seen]
  <2>5. /\ w \in Work /\ w.facts = r.work.facts /\ w.state = r.work.state
        /\ w.derived = r.work.derived /\ w.findings = r.work.findings
        /\ w.withdrawn = r.work.withdrawn \cup r.seen
    BY <2>2, <2>3 DEF Work
  <2>6. /\ b \in Session /\ b.pc = "advance" /\ b.rest = r.rest /\ b.version = r.version /\ b.held = r.held
        /\ b.seen = r.seen /\ b.loaded = r.loaded /\ b.work = w /\ b.read = r.read
    BY <2>1, <2>5 DEF Session, Phases
  <2> HIDE DEF b, w
  <2>7. Sound(b, Committed)
    BY <2>1, <2>2, <2>5, <2>6
       DEF Sound, AtDocument, InProgress, ReadWhole, Sees, Judges, Loads, Cites, FactsOf, SharesOf
  <2> QED BY <2>4, <2>6, <2>7, SessionStep
<1> QED BY <1>1, <1>2 DEF Withdraw

LEMMA AdvanceStep == ASSUME IInv, NEW s \in Sessions, Advance(s) PROVE IInv'
<1> DEFINE r == session[s]
           d == First(r)
           seen == Rows(d, r.version, r.held[d].type) \cap FactsOf(r, Committed)
           found == [r EXCEPT !.pc = "store", !.seen = seen]
           b == [found EXCEPT !.work.state = Put(@, d, "processing")]
<1>1. r \in Session /\ Sound(r, Committed) /\ Committed \in Committable /\ r.pc = "advance"
  BY Acting DEF Advance
<1>2. d \in r.rest /\ d \in Documents
  BY <1>1, FirstIsLeft DEF Sound, AtDocument
<1>3. Current(s) = d /\ Held(s, d) = r.held[d] /\ FactsSeen(s) = FactsOf(r, Committed)
  BY Acting DEF Current, First, Held, FactsSeen, My, FactsOf
<1>4. /\ Flush(s, found) \/ Flush(s, b)
  BY <1>3 DEF Advance
<1>5. seen \subseteq FactsOf(r, Committed) /\ seen \subseteq Key
  BY <1>1 DEF FactsOf, Committable, Session, Work
<1> HIDE DEF r, d, seen
<1>6. /\ found \in Session /\ found.pc = "store" /\ found.rest = r.rest /\ found.version = r.version
      /\ found.held = r.held /\ found.seen = seen /\ found.loaded = r.loaded /\ found.work = r.work
      /\ found.read = r.read
  BY <1>1, <1>5 DEF Session, Phases
<1> HIDE DEF found
<1>7. \A x \in DOMAIN r.work.state : r.work.state[x] # "processing"
  BY <1>1 DEF Sound, InProgress
<1>8. Sound(found, Committed)
  BY <1>1, <1>5, <1>6, <1>7
     DEF Sound, AtDocument, InProgress, ReadWhole, Sees, Judges, Loads, Cites, FactsOf, SharesOf
<1>9. CASE Flush(s, found)
  BY <1>6, <1>8, <1>9, SessionStep DEF Flush
<1>10. CASE Flush(s, b)
  <2> DEFINE w == [r.work EXCEPT !.state = Put(@, d, "processing")]
  <2>1. r.work \in Work /\ r.work.state \in PartialFn(Documents, Moved)
    BY <1>1 DEF Session, Work
  <2>2. /\ Put(r.work.state, d, "processing") \in PartialFn(Documents, Moved)
        /\ DOMAIN Put(r.work.state, d, "processing") = DOMAIN r.work.state \cup {d}
        /\ Put(r.work.state, d, "processing")[d] = "processing"
        /\ \A x \in DOMAIN r.work.state : x # d => Put(r.work.state, d, "processing")[x] = r.work.state[x]
    <3> DEFINE mine == r.work.state
    <3>1. mine \in PartialFn(Documents, Moved) /\ d \in Documents /\ "processing" \in Moved
      BY <1>2, <2>1 DEF Moved
    <3> HIDE DEF w, mine
    <3>2. Put(mine, d, "processing") \in PartialFn(Documents, Moved)
      BY <3>1, PutPoint
    <3>3. /\ DOMAIN Put(mine, d, "processing") = DOMAIN mine \cup {d}
          /\ Put(mine, d, "processing")[d] = "processing"
          /\ \A x \in DOMAIN mine : x # d => Put(mine, d, "processing")[x] = mine[x]
      BY DEF Put
    <3> QED BY <3>2, <3>3 DEF mine
  <2>3. /\ w \in Work /\ w.facts = r.work.facts /\ w.withdrawn = r.work.withdrawn
        /\ w.derived = r.work.derived /\ w.findings = r.work.findings
        /\ w.state = Put(r.work.state, d, "processing")
    BY <2>1, <2>2 DEF Work
  <2>4. /\ b \in Session /\ b.pc = "store" /\ b.rest = r.rest /\ b.version = r.version /\ b.held = r.held
        /\ b.seen = seen /\ b.loaded = r.loaded /\ b.work = w /\ b.read = r.read
    BY <1>6, <2>3 DEF Session
  <2> HIDE DEF b, w
  <2>5. First(b) = d
    BY <2>4 DEF First, d
  <2>6. InProgress(b)
    BY <1>7, <2>2, <2>3, <2>4, <2>5 DEF InProgress
  <2>7. ReadWhole(b, Committed)
    BY <1>1, <2>2, <2>3, <2>4 DEF Sound, ReadWhole, FactsOf
  <2>8. AtDocument(b) /\ Sees(b, Committed) /\ Judges(b, Committed) /\ Loads(b, Committed) /\ Cites(b, Committed)
    BY <1>1, <1>5, <2>3, <2>4 DEF Sound, AtDocument, Sees, Judges, Loads, Cites, FactsOf, SharesOf
  <2>9. Sound(b, Committed)
    BY <2>6, <2>7, <2>8 DEF Sound
  <2> QED BY <1>10, <2>4, <2>9, SessionStep DEF Flush
<1> QED BY <1>4, <1>9, <1>10

LEMMA StoreFactsStep == ASSUME IInv, NEW s \in Sessions, StoreFacts(s) PROVE IInv'
<1> DEFINE r == session[s]
           d == First(r)
           rows == Rows(d, r.version, r.held[d].type)
           loaded == FindingsSeen(s)[d]
           b == [r EXCEPT !.pc = "judge", !.work.facts = @ \cup (rows \ r.seen), !.loaded = loaded, !.passed = {}]
<1>1. r \in Session /\ Sound(r, Committed) /\ Committed \in Committable /\ r.pc = "store"
  BY Acting DEF StoreFacts
<1>2. d \in r.rest /\ d \in Documents /\ d \in Subjects
  BY <1>1, FirstIsLeft DEF Sound, AtDocument, Subjects
<1>3. Current(s) = d /\ Held(s, d) = r.held[d]
  BY DEF Current, First, Held
<1>4. CASE RollBack(s)
  BY <1>4, RollBackStep
<1>5. CASE Flush(s, b)
  <2>1. rows \subseteq Key
    BY <1>1, <1>2, RowsAreKeys DEF Session
  <2>3. loaded \in Finding \cup {None} /\ (loaded # None => Present(r, Committed, d))
    BY <1>2, FindingsAreSeen
  <2>4. session' = [session EXCEPT ![s] = b] /\ UNCHANGED <<type, state, corpus, deployed, read>>
    BY <1>5 DEF Flush
  <2> HIDE DEF r, d, rows, loaded
  <2> DEFINE w == [r.work EXCEPT !.facts = @ \cup (rows \ r.seen)]
  <2>5. /\ w \in Work /\ w.facts = r.work.facts \cup (rows \ r.seen) /\ w.withdrawn = r.work.withdrawn
        /\ w.derived = r.work.derived /\ w.findings = r.work.findings /\ w.state = r.work.state
    BY <1>1, <2>1 DEF Session, Work
  <2>6. /\ b \in Session /\ b.pc = "judge" /\ b.rest = r.rest /\ b.version = r.version /\ b.held = r.held
        /\ b.seen = r.seen /\ b.loaded = loaded /\ b.work = w /\ b.read = r.read
    BY <1>1, <2>3, <2>5 DEF Session, Phases
  <2> HIDE DEF b, w
  <2>7. First(b) = d
    BY <2>6 DEF First, d
  <2>8. rows \subseteq FactsOf(b, Committed) /\ FactsOf(r, Committed) \subseteq FactsOf(b, Committed)
    BY <1>1, <2>5, <2>6 DEF Sound, Sees, FactsOf
  <2>9. Judges(b, Committed)
    BY <2>6, <2>7, <2>8 DEF Judges, rows
  <2>10. Loads(b, Committed)
    BY <2>3, <2>5, <2>6, <2>7 DEF Loads, Present
  <2>11. ReadWhole(b, Committed) /\ Sees(b, Committed)
    BY <1>1, <2>5, <2>6, <2>8 DEF Sound, ReadWhole, Sees
  <2>12. InProgress(b)
    BY <1>1, <2>5, <2>6, <2>7 DEF Sound, InProgress, d
  <2>13. AtDocument(b) /\ Cites(b, Committed)
    BY <1>1, <2>5, <2>6 DEF Sound, AtDocument, Cites, SharesOf
  <2>14. Sound(b, Committed)
    BY <2>9, <2>10, <2>11, <2>12, <2>13 DEF Sound
  <2> QED BY <2>4, <2>6, <2>14, SessionStep
<1> QED BY <1>3, <1>4, <1>5 DEF StoreFacts

LEMMA JudgeStep == ASSUME IInv, NEW s \in Sessions, Judge(s) PROVE IInv'
<1> DEFINE r == session[s]
           d == First(r)
           t == r.held[d].type
           share == ShareOf(d, r.version, t)
           merged == Merge(Verify(d, r.version, t), r.loaded, FindingsSeen(s)[d])
           shares == IF share = 0 THEN r.work.derived ELSE Put(r.work.derived, d, share)
           verdicts == Put(r.work.findings, d, merged)
           states == IF StateSeen(s, d) = "processed" THEN r.work.state
                     ELSE Put(r.work.state, d, "processed")
           row == [version |-> r.version, type |-> t, steady |-> FALSE]
           b == [r EXCEPT !.pc = IF r.whole THEN "next" ELSE "commit", !.rest = @ \ {d},
                   !.work.derived = shares, !.work.findings = verdicts, !.work.state = states,
                   !.read = Put(@, d, row)]
<1>1. r \in Session /\ Sound(r, Committed) /\ Committed \in Committable /\ r.pc = "judge"
  BY Acting DEF Judge
<1>2. d \in r.rest /\ d \in Documents /\ d \in Subjects
  BY <1>1, FirstIsLeft DEF Sound, AtDocument, Subjects
<1>3. CASE RollBack(s)
  BY <1>3, RollBackStep
<1>4. CASE Flush(s, b)
  <2>1. session' = [session EXCEPT ![s] = b] /\ UNCHANGED <<type, state, corpus, deployed, read>>
    BY <1>4 DEF Flush
  <2>2. r.held[d] \in HeldRow /\ r.version \in Versions
    BY <1>1, <1>2, PartialFnDef DEF Sound, AtDocument, Session
  <2>3. row \in ReadRow
    BY <2>2 DEF HeldRow, ReadRow
  <2>4. /\ merged \in Finding
        /\ merged.cites \subseteq SharesOf(r, Committed) \cup (IF share = 0 THEN {} ELSE {d})
        /\ share # 0 => share \in Versions
    <3> DEFINE new == Verify(d, r.version, t)
               now == FindingsSeen(s)[d]
    <3>1. /\ new \in Finding /\ new.cites \subseteq IF share = 0 THEN {} ELSE {d}
          /\ share # 0 => share \in Versions
      BY <1>2, <2>2, Verified
    <3>2. /\ now \in Finding \cup {None} /\ (now # None <=> Present(r, Committed, d))
          /\ now # None => now.cites \subseteq SharesOf(r, Committed)
      BY <1>2, FindingsAreSeen
    <3>3. r.loaded \in Finding \cup {None} /\ (r.loaded # None => now # None)
      BY <1>1, <3>2 DEF Sound, Loads, Session
    <3>4. merged = Merge(new, r.loaded, now)
      OBVIOUS
    <3> HIDE DEF new, now, share, merged, r, d
    <3>5. /\ merged \in Finding
          /\ merged.cites \subseteq new.cites \cup (IF now = None THEN {} ELSE now.cites)
      BY <3>1, <3>2, <3>3, <3>4, Merged
    <3> QED BY <3>1, <3>2, <3>5
  <2>5. \A x \in DOMAIN r.work.state : x # d => r.work.state[x] # "processing"
    BY <1>1 DEF Sound, InProgress
  <2>6. StateSeen(s, d) = "processed" => d \notin DOMAIN r.work.state \/ r.work.state[d] = "processed"
    BY DEF StateSeen, My
  <2>7. /\ r.work.state \in PartialFn(Documents, Moved) /\ r.work.derived \in PartialFn(Documents, Versions)
        /\ r.work.findings \in PartialFn(Subjects, Finding) /\ r.read \in PartialFn(Documents, ReadRow)
    BY <1>1 DEF Session, Work
  <2>8. Rows(d, r.version, t) \subseteq FactsOf(r, Committed)
    BY <1>1 DEF Sound, Judges
  <2>9. row.version = r.version /\ row.type = t
    OBVIOUS
  <2> DEFINE reads == Put(r.read, d, row)
  <2> HIDE DEF t, share, merged, row, d
  <2>10. /\ verdicts \in PartialFn(Subjects, Finding) /\ DOMAIN verdicts = DOMAIN r.work.findings \cup {d}
         /\ verdicts[d] = merged /\ \A x \in DOMAIN r.work.findings : x # d => verdicts[x] = r.work.findings[x]
    <3> DEFINE old == r.work.findings
    <3>1. old \in PartialFn(Subjects, Finding) /\ d \in Subjects /\ merged \in Finding
      BY <1>2, <2>4, <2>7
    <3> HIDE DEF old
    <3>2. Put(old, d, merged) \in PartialFn(Subjects, Finding)
      BY <3>1, PutPoint
    <3>3. /\ DOMAIN Put(old, d, merged) = DOMAIN old \cup {d}
          /\ Put(old, d, merged)[d] = merged /\ \A x \in DOMAIN old : x # d => Put(old, d, merged)[x] = old[x]
      BY DEF Put
    <3> QED BY <3>2, <3>3 DEF old
  <2>11. /\ reads \in PartialFn(Documents, ReadRow) /\ DOMAIN reads = DOMAIN r.read \cup {d}
         /\ reads[d] = row /\ \A x \in DOMAIN r.read : x # d => reads[x] = r.read[x]
    <3> DEFINE old == r.read
    <3>1. old \in PartialFn(Documents, ReadRow) /\ d \in Documents /\ row \in ReadRow
      BY <1>2, <2>3, <2>7
    <3> HIDE DEF old
    <3>2. Put(old, d, row) \in PartialFn(Documents, ReadRow)
      BY <3>1, PutPoint
    <3>3. /\ DOMAIN Put(old, d, row) = DOMAIN old \cup {d}
          /\ Put(old, d, row)[d] = row /\ \A x \in DOMAIN old : x # d => Put(old, d, row)[x] = old[x]
      BY DEF Put
    <3> QED BY <3>2, <3>3 DEF old
  <2>12. /\ shares \in PartialFn(Documents, Versions) /\ DOMAIN r.work.derived \subseteq DOMAIN shares
         /\ share # 0 => d \in DOMAIN shares
    <3>1. CASE share = 0
      BY <2>7, <3>1
    <3>2. CASE share # 0
      <4> DEFINE old == r.work.derived
      <4>1. old \in PartialFn(Documents, Versions) /\ d \in Documents /\ share \in Versions
        BY <1>2, <2>4, <2>7, <3>2
      <4> HIDE DEF old
      <4>2. Put(old, d, share) \in PartialFn(Documents, Versions)
        BY <4>1, PutPoint
      <4>3. DOMAIN Put(old, d, share) = DOMAIN old \cup {d}
        BY DEF Put
      <4> QED BY <3>2, <4>2, <4>3 DEF old
    <3> QED BY <3>1, <3>2
  <2>13. /\ states \in PartialFn(Documents, Moved) /\ DOMAIN states \subseteq DOMAIN r.work.state \cup {d}
         /\ \A x \in DOMAIN states : x # d => x \in DOMAIN r.work.state /\ states[x] = r.work.state[x]
         /\ d \in DOMAIN states => states[d] = "processed"
    <3>1. CASE StateSeen(s, d) = "processed"
      BY <2>6, <2>7, <3>1
    <3>2. CASE StateSeen(s, d) # "processed"
      <4> DEFINE old == r.work.state
      <4>1. old \in PartialFn(Documents, Moved) /\ d \in Documents /\ "processed" \in Moved
        BY <1>2, <2>7 DEF Moved
      <4> HIDE DEF old
      <4>2. Put(old, d, "processed") \in PartialFn(Documents, Moved)
        BY <4>1, PutPoint
      <4>3. /\ DOMAIN Put(old, d, "processed") = DOMAIN old \cup {d}
            /\ Put(old, d, "processed")[d] = "processed"
            /\ \A x \in DOMAIN old : x # d => Put(old, d, "processed")[x] = old[x]
        BY DEF Put
      <4> QED BY <3>2, <4>2, <4>3 DEF old
    <3> QED BY <3>1, <3>2
  <2> HIDE DEF r, verdicts, reads, shares, states
  <2> DEFINE w == [r.work EXCEPT !.derived = shares, !.findings = verdicts, !.state = states]
  <2>14. /\ w \in Work /\ w.facts = r.work.facts /\ w.withdrawn = r.work.withdrawn
         /\ w.derived = shares /\ w.findings = verdicts /\ w.state = states
    BY <1>1, <2>10, <2>12, <2>13 DEF Session, Work
  <2>15. /\ b \in Session /\ b.pc \in {"next", "commit"} /\ b.rest = r.rest \ {d} /\ b.held = r.held
         /\ b.work = w /\ b.read = reads
    BY <1>1, <2>11, <2>14 DEF Session, Phases, reads
  <2> HIDE DEF b, w
  <2>16. FactsOf(b, Committed) = FactsOf(r, Committed)
         /\ SharesOf(r, Committed) \cup (IF share = 0 THEN {} ELSE {d}) \subseteq SharesOf(b, Committed)
    BY <1>2, <2>12, <2>14, <2>15 DEF FactsOf, SharesOf
  <2>17. AtDocument(b) /\ Sees(b, Committed) /\ Judges(b, Committed) /\ Loads(b, Committed)
    BY <1>1, <2>14, <2>15, <2>16 DEF Sound, AtDocument, Sees, Judges, Loads
  <2>18. InProgress(b)
    BY <2>5, <2>13, <2>14, <2>15 DEF InProgress
  <2>19. ReadWhole(b, Committed)
    <3>1. ASSUME NEW x \in DOMAIN reads
          PROVE  x \in DOMAIN verdicts /\ Rows(x, reads[x].version, reads[x].type) \subseteq FactsOf(b, Committed)
      BY <1>1, <2>8, <2>9, <2>10, <2>11, <2>16 DEF Sound, ReadWhole
    <3>2. ASSUME NEW x \in DOMAIN states, states[x] = "processed" PROVE x \in DOMAIN reads
      BY <1>1, <2>11, <2>13, <3>2 DEF Sound, ReadWhole
    <3> QED BY <2>14, <2>15, <3>1, <3>2 DEF ReadWhole
  <2>20. Cites(b, Committed)
    BY <1>1, <2>4, <2>10, <2>14, <2>15, <2>16 DEF Sound, Cites
  <2>21. Sound(b, Committed)
    BY <2>17, <2>18, <2>19, <2>20 DEF Sound
  <2> QED BY <2>1, <2>15, <2>21, SessionStep
<1>5. RollBack(s) \/ Flush(s, b)
  BY DEF Judge, Current, First, Held, My
<1> QED BY <1>3, <1>4, <1>5

LEMMA LoadProjectStep == ASSUME IInv, NEW s \in Sessions, LoadProject(s) PROVE IInv'
<1> DEFINE r == session[s]
           new == ConsistentShares(DerivedSeen(s))
           loaded == FindingsSeen(s)[Project]
           b == [r EXCEPT !.pc = "project", !.loaded = loaded, !.seen = {new}, !.passed = {}]
<1>1. r \in Session /\ Sound(r, Committed) /\ r.pc = "next"
  BY Acting DEF LoadProject
<1>2. new \in Finding /\ new.cites \subseteq SharesOf(r, Committed)
  BY SharesAreSeen, SharesCompared
<1>3. loaded \in Finding \cup {None} /\ (loaded # None => Present(r, Committed, Project))
  BY FindingsAreSeen DEF Subjects
<1>4. session' = [session EXCEPT ![s] = b] /\ UNCHANGED <<type, state, corpus, deployed, read>>
  BY DEF LoadProject, Flush
<1> HIDE DEF r, new, loaded
<1>5. /\ b \in Session /\ b.pc = "project" /\ b.rest = r.rest /\ b.held = r.held
      /\ b.seen = {new} /\ b.loaded = loaded /\ b.work = r.work /\ b.read = r.read
  BY <1>1, <1>2, <1>3 DEF Session, Phases
<1> HIDE DEF b
<1>6. Loads(b, Committed)
  BY <1>3, <1>5 DEF Loads, Present
<1>7. Cites(b, Committed)
  BY <1>1, <1>2, <1>5 DEF Sound, Cites, SharesOf
<1>8. Sound(b, Committed)
  BY <1>1, <1>5, <1>6, <1>7
     DEF Sound, AtDocument, InProgress, ReadWhole, Sees, Judges, FactsOf
<1> QED BY <1>4, <1>5, <1>8, SessionStep

LEMMA JudgeProjectStep == ASSUME IInv, NEW s \in Sessions, JudgeProject(s) PROVE IInv'
<1> DEFINE r == session[s]
           new == CHOOSE c \in r.seen : TRUE
           now == FindingsSeen(s)[Project]
           merged == Merge(new, r.loaded, now)
           verdicts == Put(r.work.findings, Project, merged)
           b == [r EXCEPT !.pc = "commit", !.seen = {}, !.work.findings = verdicts]
<1>1. r \in Session /\ Sound(r, Committed) /\ r.pc = "project"
  BY Acting DEF JudgeProject
<1>2. new \in Finding /\ new.cites \subseteq SharesOf(r, Committed)
  <2>1. PICK c \in Finding : r.seen = {c} /\ c.cites \subseteq SharesOf(r, Committed)
    BY <1>1 DEF Sound, Cites
  <2> QED BY <2>1
<1>3. /\ now \in Finding \cup {None} /\ (now # None <=> Present(r, Committed, Project))
      /\ now # None => now.cites \subseteq SharesOf(r, Committed)
  BY FindingsAreSeen DEF Subjects
<1>4. r.loaded \in Finding \cup {None} /\ (r.loaded # None => now # None)
  BY <1>1, <1>3 DEF Sound, Loads, Session
<1>5. merged \in Finding /\ merged.cites \subseteq SharesOf(r, Committed)
  <2> HIDE DEF r, new, now
  <2>1. /\ merged \in Finding
        /\ merged.cites \subseteq new.cites \cup (IF now = None THEN {} ELSE now.cites)
    BY <1>2, <1>3, <1>4, Merged
  <2> QED BY <1>2, <1>3, <2>1
<1>6. CASE RollBack(s)
  BY <1>6, RollBackStep
<1>7. CASE Flush(s, b)
  <2>1. session' = [session EXCEPT ![s] = b] /\ UNCHANGED <<type, state, corpus, deployed, read>>
    BY <1>7 DEF Flush
  <2>2. /\ verdicts \in PartialFn(Subjects, Finding)
        /\ \A f \in DOMAIN verdicts : f # Project => f \in DOMAIN r.work.findings /\ verdicts[f] = r.work.findings[f]
        /\ DOMAIN r.work.findings \subseteq DOMAIN verdicts /\ verdicts[Project] = merged
    <3> DEFINE old == r.work.findings
    <3>1. old \in PartialFn(Subjects, Finding) /\ Project \in Subjects /\ merged \in Finding
      BY <1>1, <1>5 DEF Session, Work, Subjects
    <3> HIDE DEF old, merged
    <3>2. Put(old, Project, merged) \in PartialFn(Subjects, Finding)
      BY <3>1, PutPoint
    <3>3. /\ \A f \in DOMAIN Put(old, Project, merged) : f # Project =>
                f \in DOMAIN old /\ Put(old, Project, merged)[f] = old[f]
          /\ DOMAIN old \subseteq DOMAIN Put(old, Project, merged) /\ Put(old, Project, merged)[Project] = merged
      BY DEF Put
    <3> QED BY <3>2, <3>3 DEF old
  <2> HIDE DEF r, merged, verdicts
  <2> DEFINE w == [r.work EXCEPT !.findings = verdicts]
  <2>3. /\ w \in Work /\ w.facts = r.work.facts /\ w.withdrawn = r.work.withdrawn
        /\ w.derived = r.work.derived /\ w.findings = verdicts /\ w.state = r.work.state
    BY <1>1, <2>2 DEF Session, Work
  <2>4. /\ b \in Session /\ b.pc = "commit" /\ b.rest = r.rest /\ b.held = r.held
        /\ b.work = w /\ b.read = r.read
    BY <1>1, <2>3 DEF Session, Phases
  <2> HIDE DEF b, w
  <2>5. Cites(b, Committed)
    BY <1>1, <1>5, <2>2, <2>3, <2>4 DEF Sound, Cites, SharesOf
  <2>6. Sound(b, Committed)
    BY <1>1, <2>2, <2>3, <2>4, <2>5
       DEF Sound, AtDocument, InProgress, ReadWhole, Sees, Judges, Loads, FactsOf
  <2> QED BY <2>1, <2>4, <2>6, SessionStep
<1>8. RollBack(s) \/ Flush(s, b)
  BY DEF JudgeProject
<1> QED BY <1>6, <1>7, <1>8

\* A session that has marked a document as failed.
LEMMA FailedSound ==
    ASSUME NEW r \in Session, NEW b, NEW c, NEW d \in Documents, Sound(r, c),
           r.pc \in {"next", "fail"}, b.pc \in {"next", "commit"}, b.rest \subseteq r.rest, b.held = r.held,
           b.work.facts = r.work.facts, b.work.withdrawn = r.work.withdrawn,
           b.work.derived = r.work.derived, b.work.findings = r.work.findings,
           b.work.state \in {r.work.state, Put(r.work.state, d, "failed")}, b.read = r.read
    PROVE  Sound(b, c)
<1>1. \A x \in DOMAIN b.work.state :
        b.work.state[x] = "failed" \/ (x \in DOMAIN r.work.state /\ b.work.state[x] = r.work.state[x])
  <2> DEFINE old == r.work.state
             new == b.work.state
  <2>1. CASE new = old
    BY <2>1
  <2>2. CASE new = Put(old, d, "failed")
    <3> HIDE DEF old, new
    <3>1. \A x \in DOMAIN new : new[x] = "failed" \/ (x \in DOMAIN old /\ new[x] = old[x])
      BY <2>2 DEF Put
    <3> QED BY <3>1 DEF old, new
  <2> QED BY <2>1, <2>2
<1>2. InProgress(b)
  BY <1>1 DEF Sound, InProgress
<1>3. ReadWhole(b, c)
  BY <1>1 DEF Sound, ReadWhole, FactsOf
<1> QED BY <1>2, <1>3 DEF Sound, AtDocument, Sees, Judges, Loads, Cites, FactsOf, SharesOf

LEMMA FailedTyped ==
    ASSUME NEW r \in Session, NEW d \in Documents
    PROVE  Put(r.work.state, d, "failed") \in PartialFn(Documents, Moved)
<1> DEFINE old == r.work.state
<1>1. old \in PartialFn(Documents, Moved) /\ "failed" \in Moved
  BY DEF Session, Work, Moved
<1> HIDE DEF old
<1>2. Put(old, d, "failed") \in PartialFn(Documents, Moved)
  BY <1>1, PutPoint
<1> QED BY <1>2 DEF old

LEMMA FailInProjectStep == ASSUME IInv, NEW s \in Sessions, FailInProject(s) PROVE IInv'
<1> DEFINE r == session[s]
           d == First(r)
           states == IF CanTransition(StateSeen(s, d), "failed") THEN Put(r.work.state, d, "failed")
                     ELSE r.work.state
           b == [r EXCEPT !.rest = @ \ {d}, !.work.state = states]
<1>1. r \in Session /\ Sound(r, Committed) /\ r.pc = "next" /\ r.rest # {}
  BY Acting DEF FailInProject
<1>2. d \in Documents
  BY <1>1, FirstIsLeft
<1>3. session' = [session EXCEPT ![s] = b] /\ UNCHANGED <<type, state, corpus, deployed, read>>
  <2>1. session' = [session EXCEPT ![s].rest = @ \ {d}, ![s].work.state =
                       IF CanTransition(StateSeen(s, d), "failed") THEN Put(@, d, "failed") ELSE @]
    BY DEF FailInProject, Current, First
  <2>2. session \in [Sessions -> Session]
    BY DEF IInv, SessionsSound
  <2> QED BY <2>1, <2>2 DEF FailInProject, Session, Work
<1>4. states \in PartialFn(Documents, Moved) /\ states \in {r.work.state, Put(r.work.state, d, "failed")}
  BY <1>1, <1>2, FailedTyped DEF Session, Work
<1> HIDE DEF r, d, states
<1> DEFINE w == [r.work EXCEPT !.state = states]
<1>5. /\ w \in Work /\ w.facts = r.work.facts /\ w.withdrawn = r.work.withdrawn
      /\ w.derived = r.work.derived /\ w.findings = r.work.findings /\ w.state = states
  BY <1>1, <1>4 DEF Session, Work
<1>6. /\ b \in Session /\ b.pc = "next" /\ b.rest \subseteq r.rest /\ b.held = r.held
      /\ b.work = w /\ b.read = r.read
  BY <1>1, <1>5 DEF Session
<1> HIDE DEF b, w
<1>7. Sound(b, Committed)
  BY <1>1, <1>2, <1>4, <1>5, <1>6, FailedSound
<1> QED BY <1>3, <1>6, <1>7, SessionStep

LEMMA FailAloneStep == ASSUME IInv, NEW s \in Sessions, FailAlone(s) PROVE IInv'
<1> DEFINE d == Current(s)
           held == [x \in {d} |-> [type |-> type[x], state |-> state[x]]]
           b == [Idle EXCEPT !.pc = "fail", !.rest = {d}, !.steady = session[s].steady, !.held = held]
<1>1. session[s] \in Session /\ session[s].rest # {}
  BY Acting DEF FailAlone
<1>2. d \in Documents
  BY <1>1, FirstIsLeft DEF Current, First
<1>3. session' = [session EXCEPT ![s] = b]
  BY DEF FailAlone
<1>4. held \in PartialFn(Documents, HeldRow) /\ DOMAIN held = {d} /\ session[s].steady \in BOOLEAN
  <2>1. {d} \in SUBSET Documents
    BY <1>2
  <2> HIDE DEF d
  <2> QED BY <1>1, <2>1, HeldTyped DEF Session
<1> HIDE DEF held, d
<1>5. b \in Session /\ b.work = NoWork /\ b.read = <<>> /\ b.rest = {d} /\ b.held = held /\ b.pc = "fail"
  BY <1>2, <1>4, IdleTyped DEF Idle, Session, Phases
<1> HIDE DEF b
<1>6. Sound(b, Committed)
  BY <1>4, <1>5, FreshSound
<1> QED BY <1>3, <1>5, <1>6, SessionStep DEF FailAlone

LEMMA RecordFailureStep == ASSUME IInv, NEW s \in Sessions, RecordFailure(s) PROVE IInv'
<1> DEFINE r == session[s]
           d == First(r)
           states == Put(r.work.state, d, "failed")
           b == [r EXCEPT !.pc = "commit", !.work.state = states]
<1>1. r \in Session /\ Sound(r, Committed) /\ r.pc = "fail" /\ r.rest # {}
  BY Acting DEF RecordFailure, Sound, AtDocument
<1>2. d \in Documents
  BY <1>1, FirstIsLeft
<1>3. RollBack(s) \/ Flush(s, b)
  BY DEF RecordFailure, Current, First
<1>4. CASE RollBack(s)
  BY <1>4, RollBackStep
<1>5. CASE Flush(s, b)
  <2>1. session' = [session EXCEPT ![s] = b] /\ UNCHANGED <<type, state, corpus, deployed, read>>
    BY <1>5 DEF Flush
  <2>2. states \in PartialFn(Documents, Moved)
    BY <1>1, <1>2, FailedTyped
  <2>3. states \in {r.work.state, Put(r.work.state, d, "failed")}
    OBVIOUS
  <2> HIDE DEF r, d, states
  <2> DEFINE w == [r.work EXCEPT !.state = states]
  <2>4. /\ w \in Work /\ w.facts = r.work.facts /\ w.withdrawn = r.work.withdrawn
        /\ w.derived = r.work.derived /\ w.findings = r.work.findings /\ w.state = states
    BY <1>1, <2>2 DEF Session, Work
  <2>5. /\ b \in Session /\ b.pc = "commit" /\ b.rest \subseteq r.rest /\ b.held = r.held
        /\ b.work = w /\ b.read = r.read
    BY <1>1, <2>4 DEF Session, Phases
  <2> HIDE DEF b, w
  <2>6. Sound(b, Committed)
    BY <1>1, <1>2, <2>3, <2>4, <2>5, FailedSound
  <2> QED BY <2>1, <2>5, <2>6, SessionStep
<1> QED BY <1>3, <1>4, <1>5

-----------------------------------------------------------------------------
(* What is committed *)

LEMMA CommitStep == ASSUME IInv, NEW s \in Sessions, Commit(s) PROVE IInv'
<1> DEFINE r == session[s]
           w == r.work
           marked == [d \in DOMAIN r.read |-> [r.read[d] EXCEPT !.steady = r.steady]]
<1>1. r \in Session /\ Sound(r, Committed) /\ r.pc = "commit" /\ w \in Work /\ r.steady \in BOOLEAN
  BY Acting DEF Commit, Session
<1>2. /\ facts' = facts \cup w.facts /\ withdrawn' = withdrawn \cup w.withdrawn
      /\ state' = Over(w.state, state) /\ derived' = Over(w.derived, derived)
      /\ findings' = Over(w.findings, findings) /\ read' = Over(marked, read)
      /\ UNCHANGED <<type, reviews, deployed>>
      /\ session' = [o \in Sessions |-> IF o = s THEN Idle ELSE Overtaken(o, w)]
  BY DEF Commit, My
<1>3. /\ w.facts \in SUBSET Key /\ w.state \in PartialFn(Documents, Moved)
      /\ w.derived \in PartialFn(Documents, Versions) /\ w.findings \in PartialFn(Subjects, Finding)
      /\ r.read \in PartialFn(Documents, ReadRow)
  BY <1>1 DEF Session, Work
<1>4. /\ facts \subseteq Key /\ withdrawn \subseteq facts /\ type \in [Documents -> Types]
      /\ state \in [Documents -> Settled] /\ derived \in [Documents -> Versions \cup {0}]
      /\ findings \in [Subjects -> Finding \cup {None}] /\ read \in [Documents -> ReadRow \cup {None}]
  BY DEF IInv, TypeOK, ProcessedIsRead, HistoryTyped, Settled
<1>5. w.withdrawn \subseteq facts \cup w.facts
  BY <1>1, Acting DEF Sound, Sees, FactsOf
<1>6. /\ derived' \in [Documents -> Versions \cup {0}]
      /\ \A d \in Documents : derived'[d] # 0 <=> d \in SharesOf(r, Committed)
  <2>1. derived' = DerivedSeen(s)
    BY <1>2 DEF DerivedSeen, My
  <2>2. derived' \in [Documents -> Versions \cup {0}]
    BY <2>1, SharesAreSeen
  <2>3. \A d \in Documents : derived'[d] = IF d \in DOMAIN w.derived THEN w.derived[d] ELSE derived[d]
    BY <1>2, <1>4 DEF Over
  <2>4. \A d \in DOMAIN w.derived : w.derived[d] # 0
    BY <1>3, PartialFnDef, EvidenceAssumption
  <2>5. \A d \in Documents : d \in SharesOf(r, Committed) <=> d \in DOMAIN w.derived \/ derived[d] # 0
    BY Acting DEF SharesOf
  <2> QED BY <2>2, <2>3, <2>4, <2>5
<1>7. /\ findings' \in [Subjects -> Finding \cup {None}]
      /\ \A f \in Subjects : findings'[f] # None <=> Present(r, Committed, f)
      /\ \A f \in Subjects : findings'[f] # None => findings'[f].cites \subseteq SharesOf(r, Committed)
  <2>1. findings' = FindingsSeen(s)
    BY <1>2 DEF FindingsSeen, My
  <2> QED BY <2>1, FindingsAreSeen
<1>8. /\ state' \in [Documents -> Settled \cup Moved]
      /\ \A d \in Documents : state'[d] = IF d \in DOMAIN w.state THEN w.state[d] ELSE state[d]
  <2> DEFINE mine == w.state
             any == Settled \cup Moved
  <2>1. mine \in PartialFn(Documents, Moved) /\ Moved \subseteq any /\ state \in [Documents -> any]
    BY <1>3, <1>4
  <2>2. state' = Over(mine, state)
    BY <1>2
  <2> HIDE DEF mine, any
  <2>3. mine \in PartialFn(Documents, any)
    BY <2>1, PartialFnGrows
  <2>4. /\ Over(mine, state) \in [Documents -> any]
        /\ \A y \in Documents : Over(mine, state)[y] = IF y \in DOMAIN mine THEN mine[y] ELSE state[y]
    BY <2>1, <2>3, OverAll
  <2> QED BY <2>2, <2>4 DEF mine, any
<1>9. \A d \in DOMAIN w.state : w.state[d] \in {"processed", "failed"}
  <2>1. \A d \in DOMAIN w.state : w.state[d] \in Moved /\ w.state[d] # "processing"
    BY <1>1, <1>3, PartialFnDef DEF Sound, InProgress
  <2> QED BY <2>1 DEF Moved
<1>10. state' \in [Documents -> Settled]
  BY <1>4, <1>8, <1>9 DEF Settled
<1>11. /\ \A d \in DOMAIN r.read : r.read[d] \in ReadRow
       /\ marked \in PartialFn(Documents, ReadRow) /\ DOMAIN marked = DOMAIN r.read
       /\ \A d \in DOMAIN r.read : marked[d].version = r.read[d].version /\ marked[d].type = r.read[d].type
  <2>1. \A d \in DOMAIN r.read : r.read[d] \in ReadRow
    BY <1>3, PartialFnDef
  <2>2. \A d \in DOMAIN r.read : marked[d] \in ReadRow
    BY <1>1, <2>1 DEF ReadRow
  <2>3. DOMAIN r.read \in SUBSET Documents
    BY <1>3, PartialFnDef
  <2>4. marked \in [DOMAIN r.read -> ReadRow]
    BY <2>2
  <2> QED BY <2>1, <2>3, <2>4 DEF PartialFn, ReadRow
<1>12. /\ read' \in [Documents -> ReadRow \cup {None}]
       /\ \A d \in Documents : read'[d] = IF d \in DOMAIN r.read THEN marked[d] ELSE read[d]
  <2> DEFINE any == ReadRow \cup {None}
  <2>1. marked \in PartialFn(Documents, ReadRow) /\ ReadRow \subseteq any /\ read \in [Documents -> any]
    BY <1>4, <1>11
  <2>2. read' = Over(marked, read)
    BY <1>2
  <2>3. DOMAIN marked = DOMAIN r.read
    OBVIOUS
  <2> HIDE DEF marked, any
  <2>4. marked \in PartialFn(Documents, any)
    BY <2>1, PartialFnGrows
  <2>5. /\ Over(marked, read) \in [Documents -> any]
        /\ \A y \in Documents : Over(marked, read)[y] = IF y \in DOMAIN marked THEN marked[y] ELSE read[y]
    BY <2>1, <2>4, OverAll
  <2> QED BY <2>2, <2>3, <2>5 DEF any
<1>13. ProcessedIsRead'
  <2> SUFFICES ASSUME NEW d \in Documents
               PROVE  /\ state'[d] \in Settled
                      /\ state'[d] = "processed" =>
                           /\ read'[d] # None /\ findings'[d] # None
                           /\ Rows(d, read'[d].version, read'[d].type) \subseteq facts'
    BY DEF ProcessedIsRead, Settled, Rows, Emitted, SuppressedTypes, Suppresses
  <2>1. state'[d] \in Settled /\ d \in Subjects
    BY <1>10 DEF Subjects
  <2>2. CASE d \in DOMAIN r.read
    <3>1. read'[d] = marked[d] /\ marked[d] \in ReadRow
      BY <1>11, <1>12, <2>2, PartialFnDef
    <3>2. read'[d] # None
      BY <3>1, EvidenceAssumption
    <3>3. d \in DOMAIN w.findings /\ Rows(d, r.read[d].version, r.read[d].type) \subseteq facts \cup w.facts
      BY <1>1, <2>2, Acting DEF Sound, ReadWhole, FactsOf
    <3>4. findings'[d] # None
      BY <1>7, <2>1, <3>3 DEF Present
    <3>5. Rows(d, read'[d].version, read'[d].type) \subseteq facts'
      BY <1>2, <1>11, <2>2, <3>1, <3>3
    <3> QED BY <2>1, <3>2, <3>4, <3>5
  <2>3. CASE d \notin DOMAIN r.read /\ state'[d] = "processed"
    <3>1. d \notin DOMAIN w.state \/ w.state[d] # "processed"
      BY <1>1, <2>3 DEF Sound, ReadWhole
    <3>2. state[d] = "processed"
      BY <1>8, <2>3, <3>1
    <3>3. read[d] # None /\ findings[d] # None /\ Rows(d, read[d].version, read[d].type) \subseteq facts
      BY <3>2 DEF IInv, ProcessedIsRead
    <3>4. read'[d] = read[d]
      BY <1>12, <2>3
    <3>5. findings'[d] # None
      BY <1>7, <2>1, <3>3, Acting DEF Present
    <3> QED BY <1>2, <2>1, <3>3, <3>4, <3>5
  <2> QED BY <2>1, <2>2, <2>3
<1>14. HistoryTyped'
  BY <1>2, <1>12 DEF IInv, HistoryTyped
<1>15. CitesStored'
  <2> SUFFICES ASSUME NEW f \in Subjects, findings'[f] # None, NEW d \in findings'[f].cites
               PROVE  d \in Documents /\ derived'[d] # 0
    BY DEF CitesStored
  <2>1. d \in SharesOf(r, Committed)
    BY <1>7
  <2>2. SharesOf(r, Committed) \subseteq Documents
    BY DEF SharesOf
  <2> QED BY <1>6, <2>1, <2>2
<1>16. Adds(Committed, Committed')
  <2>1. Committed' = [facts |-> facts', derived |-> derived', findings |-> findings']
    BY DEF Committed
  <2>2. \A d \in Documents : derived[d] # 0 => derived'[d] # 0
    BY <1>6, Acting DEF SharesOf
  <2>3. \A f \in Subjects : findings[f] # None => findings'[f] # None
    BY <1>7, Acting DEF Present
  <2> QED BY <1>2, <2>1, <2>2, <2>3, Acting DEF Adds
<1>17. SessionsSound'
  <2>1. ASSUME NEW o \in Sessions PROVE session'[o] \in Session /\ Sound(session'[o], Committed')
    <3>1. CASE o = s
      BY <1>2, <3>1, IdleTyped, IdleSound
    <3>2. CASE o # s
      <4> DEFINE q == session[o]
                 passed == IF q.pc \in {"judge", "project"} THEN q.passed \cup DOMAIN w.findings ELSE q.passed
      <4>1. q \in Session /\ Sound(q, Committed)
        BY Acting
      <4>2. DOMAIN w.findings \subseteq Subjects
        BY <1>3, PartialFnDef
      <4>3. session'[o] = IF q.pc \in {"judge", "project"} THEN [q EXCEPT !.passed = @ \cup DOMAIN w.findings] ELSE q
        BY <1>2, <3>2 DEF Overtaken
      <4> DEFINE n == session'[o]
      <4> HIDE DEF q
      <4>4. /\ n \in Session /\ n.pc = q.pc /\ n.version = q.version /\ n.rest = q.rest /\ n.held = q.held
            /\ n.seen = q.seen /\ n.loaded = q.loaded /\ n.work = q.work /\ n.read = q.read
        BY <4>1, <4>2, <4>3 DEF Session
      <4> HIDE DEF n
      <4>5. Sound(n, Committed')
        BY <1>16, <4>1, <4>4, SoundStays
      <4> QED BY <4>4, <4>5 DEF n
    <3> QED BY <3>1, <3>2
  <2>2. session' \in [Sessions -> Session]
    BY <1>2, <2>1
  <2> QED BY <2>1, <2>2 DEF SessionsSound
<1>18. TypeOK'
  <2>1. \A o \in Sessions : session'[o].work.withdrawn \subseteq facts' \cup session'[o].work.facts
    BY <1>17 DEF SessionsSound, Sound, Sees, FactsOf, Committed
  <2>2. state' \in [Documents -> DocumentState]
    BY <1>10 DEF Settled, DocumentState
  <2>3. facts' \subseteq Key /\ withdrawn' \subseteq facts'
    BY <1>2, <1>3, <1>4, <1>5
  <2>4. type' \in [Documents -> Types] /\ deployed' \in Versions
        /\ \A f \in Subjects : reviews'[f] \subseteq Review
    BY <1>2 DEF IInv, TypeOK
  <2> QED BY <1>6, <1>7, <2>1, <2>2, <2>3, <2>4 DEF TypeOK, FactsSeen, My
<1> QED BY <1>13, <1>14, <1>15, <1>17, <1>18 DEF IInv

LEMMA ConfirmStep == ASSUME IInv, NEW d \in Documents, Confirm(d) PROVE IInv'
<1> USE DEF corpus
<1>1. type' \in [Documents -> Types]
  BY DEF Confirm, IInv, TypeOK
<1>2. session' = [s \in Sessions |-> [session[s] EXCEPT !.steady = session[s].pc = "idle"]]
      /\ UNCHANGED <<state, facts, withdrawn, derived, findings, reviews, deployed, read>>
  BY DEF Confirm
<1>3. Committed' = Committed /\ Adds(Committed, Committed)
  BY <1>2 DEF Committed, Adds
<1>4. ASSUME NEW s \in Sessions
      PROVE  session'[s] \in Session /\ Sound(session'[s], Committed) /\ session'[s].work = session[s].work
  <2> DEFINE r == session[s]
             n == session'[s]
  <2>1. r \in Session /\ Sound(r, Committed)
    BY Acting
  <2>2. n = [r EXCEPT !.steady = (r.pc = "idle")]
    BY <1>2
  <2> HIDE DEF r, n
  <2>3. /\ n \in Session /\ n.pc = r.pc /\ n.version = r.version /\ n.rest = r.rest /\ n.held = r.held
        /\ n.seen = r.seen /\ n.loaded = r.loaded /\ n.work = r.work /\ n.read = r.read
    BY <2>1, <2>2 DEF Session
  <2>4. Sound(n, Committed)
    BY <1>3, <2>1, <2>3, SoundStays
  <2> QED BY <2>3, <2>4 DEF r, n
<1>5. SessionsSound'
  BY <1>2, <1>3, <1>4 DEF SessionsSound
<1>6. TypeOK'
  BY <1>1, <1>2, <1>4 DEF IInv, TypeOK, FactsSeen, My
<1>7. ProcessedIsRead' /\ HistoryTyped' /\ CitesStored'
  BY <1>2 DEF IInv, ProcessedIsRead, HistoryTyped, CitesStored
<1> QED BY <1>5, <1>6, <1>7 DEF IInv

LEMMA UpgradeStep == ASSUME IInv, Upgrade PROVE IInv'
<1> USE DEF corpus
<1>1. deployed' \in Versions /\ UNCHANGED <<type, state, facts, withdrawn, derived, findings, reviews, session, read>>
  BY DEF Upgrade
<1>2. Committed' = Committed
  BY <1>1 DEF Committed
<1>3. SessionsSound'
  BY <1>1, <1>2 DEF IInv, SessionsSound
<1>4. TypeOK'
  BY <1>1 DEF IInv, TypeOK, FactsSeen, My
<1>5. ProcessedIsRead' /\ HistoryTyped' /\ CitesStored'
  BY <1>1 DEF IInv, ProcessedIsRead, HistoryTyped, CitesStored
<1> QED BY <1>3, <1>4, <1>5 DEF IInv

LEMMA RecordReviewStep == ASSUME IInv, NEW f \in Subjects, RecordReview(f) PROVE IInv'
<1>1. UNCHANGED <<type, state, facts, withdrawn, derived, findings, session, deployed, read>>
      /\ \E steady \in BOOLEAN :
            reviews' = [reviews EXCEPT ![f] = @ \cup {[print |-> findings[f].print, shown |-> Shown(f),
                                                       steady |-> steady]}]
      /\ findings[f] # None
  BY DEF RecordReview
<1>2. findings[f] \in Finding /\ findings[f].cites \subseteq {d \in Documents : derived[d] # 0}
  BY <1>1 DEF IInv, TypeOK, CitesStored
<1>3. Shown(f) \in Digest
  <2> DEFINE shares == {<<d, derived[d]>> : d \in findings[f].cites}
  <2>1. shares \in SUBSET (Documents \X Versions)
    BY <1>2 DEF IInv, TypeOK
  <2>2. Shown(f) = [outcome |-> findings[f].outcome, shares |-> shares]
    BY DEF Shown
  <2> HIDE DEF shares
  <2> QED BY <1>2, <2>1, <2>2 DEF Digest, Finding
<1>4. findings[f].print \in Digest
  BY <1>2 DEF Finding
<1>5. DOMAIN reviews' = Subjects /\ \A g \in Subjects : reviews'[g] \subseteq Review
  BY <1>1, <1>3, <1>4 DEF IInv, HistoryTyped, TypeOK, Review
<1>6. Committed' = Committed
  BY <1>1 DEF Committed
<1>7. SessionsSound'
  BY <1>1, <1>6 DEF IInv, SessionsSound
<1>8. TypeOK'
  BY <1>1, <1>5 DEF IInv, TypeOK, FactsSeen, My
<1>9. ProcessedIsRead' /\ HistoryTyped' /\ CitesStored'
  BY <1>1, <1>5 DEF IInv, ProcessedIsRead, HistoryTyped, CitesStored
<1> QED BY <1>7, <1>8, <1>9 DEF IInv

-----------------------------------------------------------------------------
(* Theorems *)

LEMMA InitHolds == Init => IInv
<1> SUFFICES ASSUME Init PROVE IInv
  OBVIOUS
<1>1. SessionsSound
  BY IdleTyped, IdleSound DEF Init, SessionsSound
<1>2. TypeOK
  BY EvidenceAssumption DEF Init, TypeOK, Idle, NoWork, DocumentState
<1>3. ProcessedIsRead /\ HistoryTyped /\ CitesStored
  BY DEF Init, ProcessedIsRead, HistoryTyped, CitesStored, Subjects
<1> QED BY <1>1, <1>2, <1>3 DEF IInv

LEMMA StepHolds == IInv /\ [Next]_vars => IInv'
<1> SUFFICES ASSUME IInv, [Next]_vars PROVE IInv'
  OBVIOUS
<1>1. CASE UNCHANGED vars
  <2>1. UNCHANGED <<type, state, facts, withdrawn, derived, findings, reviews, session, deployed, read>>
    BY <1>1 DEF vars, corpus
  <2>2. Committed' = Committed
    BY <2>1 DEF Committed
  <2>3. SessionsSound'
    BY <2>1, <2>2 DEF IInv, SessionsSound
  <2>4. TypeOK'
    BY <2>1 DEF IInv, TypeOK, FactsSeen, My
  <2>5. ProcessedIsRead' /\ HistoryTyped' /\ CitesStored'
    BY <2>1 DEF IInv, ProcessedIsRead, HistoryTyped, CitesStored
  <2> QED BY <2>3, <2>4, <2>5 DEF IInv
<1>2. ASSUME NEW s \in Sessions,
             \/ Start(s) \/ Skip(s) \/ ReadDocument(s) \/ Withdraw(s) \/ Advance(s) \/ StoreFacts(s)
             \/ Judge(s) \/ LoadProject(s) \/ JudgeProject(s) \/ Commit(s)
             \/ FailInProject(s) \/ FailAlone(s) \/ RecordFailure(s) \/ Die(s)
      PROVE  IInv'
  BY <1>2, StartStep, SkipStep, ReadDocumentStep, WithdrawStep, AdvanceStep, StoreFactsStep, JudgeStep,
     LoadProjectStep, JudgeProjectStep, CommitStep, FailInProjectStep, FailAloneStep, RecordFailureStep, DieStep
<1> QED BY <1>1, <1>2, ConfirmStep, UpgradeStep, RecordReviewStep DEF Next

LEMMA Inductive == Spec => []IInv
BY InitHolds, StepHolds, PTL DEF Spec

\* Whatever sessions run beside each other, fail, are rolled back or die, every
\* column has its type, and no retraction is of a fact that is not there.
THEOREM TypeCorrect == Spec => []TypeOK
<1>1. IInv => TypeOK
  BY DEF IInv
<1> QED BY <1>1, Inductive, PTL

\* analyse_document and process_project: a document is shown as processed only
\* with its verdict and its facts, and never in the middle of an analysis.
THEOREM ProcessedMeansRead == Spec => []ProcessedIsRead
<1>1. IInv => ProcessedIsRead
  BY DEF IInv
<1> QED BY <1>1, Inductive, PTL

-----------------------------------------------------------------------------
(* The committed rows of a document after an analysis that nobody disturbed:  *)
(* the invariant says of every open session what it has written so far, and   *)
(* of two open sessions that they were disturbed together.                    *)

\* The committed rows that a session's work is to agree with.
Served == [facts |-> facts, withdrawn |-> withdrawn, findings |-> findings, type |-> type]

\* A confirmation of a type disturbs all sessions that are open.
OpenAlike ==
    \A o, s \in Sessions :
        session[o].pc # "idle" /\ session[s].pc # "idle" => session[o].steady = session[s].steady

\* A session writes of the documents it has read, what its version read.
OwnRead(r) ==
    /\ DOMAIN r.read \cap r.rest = {}
    /\ \A d \in DOMAIN r.read :
          d \in DOMAIN r.held /\ r.read[d].version = r.version /\ r.read[d].type = r.held[d].type
    /\ DOMAIN r.work.findings \subseteq DOMAIN r.read \cup {Project}
    /\ DOMAIN r.work.derived \subseteq DOMAIN r.read
    /\ \A k \in r.work.facts :
          /\ k.doc \in DOMAIN r.read \/ (r.pc = "judge" /\ k.doc = First(r))
          /\ k.type \in Emitted(k.doc, r.version, r.held[k.doc].type)

\* The types it holds are those of the rows.
HeldNow(r, c) == \A d \in DOMAIN r.held : r.held[d].type = c.type[d]

\* Documents whose stale facts it has looked up, and what is or will be
\* withdrawn of one.
Treated(r) ==
    DOMAIN r.read \cup (IF r.pc \in {"withdraw", "advance", "store", "judge"} THEN {First(r)} ELSE {})

Gone(r, c, d) ==
    c.withdrawn \cup r.work.withdrawn \cup (IF r.pc = "withdraw" /\ d = First(r) THEN r.seen ELSE {})

Withdraws(r, c) ==
    \A d \in Treated(r) : ReadAlike(d) =>
        \A k \in c.facts \cup r.work.facts :
            k.doc = d /\ k.type \in SuppressedTypes(d, r.version, r.held[d].type) => k \in Gone(r, c, d)

\* What it writes of a document's verdict is what its version concludes,
\* though it merged that with the row it found.
Says(w, d, v, t) ==
    /\ w.findings[d] = Verify(d, v, t)
    /\ ShareOf(d, v, t) # 0 => d \in DOMAIN w.derived /\ w.derived[d] = ShareOf(d, v, t)

Concludes(r) == \A d \in DOMAIN r.read : ReadAlike(d) => Says(r.work, d, r.version, r.held[d].type)

\* The row that it loaded is the one that is there, unless some session has
\* passed it, which concluded what one of the versions concludes.
Compares(r, c) ==
    r.pc = "judge" /\ ReadAlike(First(r)) =>
        IF First(r) \in r.passed
        THEN \E v \in Versions : c.findings[First(r)] = Verify(First(r), v, c.type[First(r)])
        ELSE r.loaded = c.findings[First(r)]

Told(r, c) ==
    /\ OwnRead(r)
    /\ r.pc # "idle" /\ r.steady => HeldNow(r, c) /\ Withdraws(r, c) /\ Concludes(r) /\ Compares(r, c)

\* What is committed of a document that was read undisturbed.
Settles(d, v, t) ==
    /\ Says([findings |-> findings, derived |-> derived], d, v, t)
    /\ \A k \in facts \ withdrawn : k.doc = d => k.type \notin SuppressedTypes(d, v, t)

CommittedTold == \A d \in Documents : Undisturbed(d) => Settles(d, read[d].version, read[d].type)

ReviewedAsShown == \A d \in Documents : ReadAlike(d) => \A r \in reviews[d] : r.steady => r.print = r.shown

HInv ==
    /\ OpenAlike
    /\ \A s \in Sessions : Told(session[s], Served)
    /\ CommittedTold
    /\ ReviewedAsShown

-----------------------------------------------------------------------------
(* Versions that read alike *)

\* What one version suppresses, no other emits.
LEMMA SuppressedByAll ==
    ASSUME NEW d, NEW v \in Versions, NEW w \in Versions, NEW t, ReadAlike(d)
    PROVE  SuppressedTypes(d, v, t) \cap Emitted(d, w, t) = {}
BY DEF ReadAlike, SuppressedTypes, Suppresses, Emitted

\* If one computes a share, all do.
LEMMA SharedByAll ==
    ASSUME NEW d, NEW v \in Versions, NEW w \in Versions, NEW t, ReadAlike(d)
    PROVE  ShareOf(d, v, t) = 0 <=> ShareOf(d, w, t) = 0
<1>1. v # 0 /\ w # 0
  BY EvidenceAssumption
<1>2. "cost" \in Emitted(d, v, t) <=> "cost" \in Emitted(d, w, t)
  BY DEF ReadAlike, SuppressedTypes, Suppresses, Emitted
<1> QED BY <1>1, <1>2 DEF ShareOf

LEMMA VerifiedCites ==
    ASSUME NEW d \in Documents, NEW v \in Versions, NEW t
    PROVE  Verify(d, v, t).cites = IF ShareOf(d, v, t) = 0 THEN {} ELSE {d}
BY DEF Verify, Conclusion

LEMMA VerifiedPrint ==
    ASSUME NEW d \in Documents, NEW v \in Versions, NEW t
    PROVE  Verify(d, v, t).print =
              [outcome |-> Verify(d, v, t).outcome,
               shares |-> IF ShareOf(d, v, t) = 0 THEN {} ELSE {<<d, ShareOf(d, v, t)>>}]
<1>1. CASE ShareOf(d, v, t) = 0
  BY <1>1 DEF Verify, Conclusion
<1>2. CASE ShareOf(d, v, t) # 0
  <2>1. ShareOf(d, v, t) = v
    BY <1>2 DEF ShareOf
  <2> QED BY <1>2, <2>1 DEF Verify, Conclusion
<1> QED BY <1>1, <1>2

-----------------------------------------------------------------------------
(* A verdict that is merged *)

\* With the row that was loaded, still as it was: the verdict.
LEMMA MergedUnpassed ==
    ASSUME NEW new \in Finding, NEW was \in Finding \cup {None}
    PROVE  Merge(new, was, was) = new
<1>1. new = [outcome |-> new.outcome, cites |-> new.cites, print |-> new.print]
  BY DEF Finding
<1>2. CASE was = None
  BY <1>2 DEF Merge
<1>3. CASE was # None
  <2>1. new.cites \cup (was.cites \ was.cites) = new.cites
    OBVIOUS
  <2> QED BY <1>1, <1>3, <2>1 DEF Merge, Column
<1> QED BY <1>2, <1>3

\* With a row that says the same and cites nothing: the verdict.
LEMMA MergedAlike ==
    ASSUME NEW new \in Finding, NEW was \in Finding \cup {None}, new.cites = {}
    PROVE  Merge(new, was, new) = new
<1>1. new = [outcome |-> new.outcome, cites |-> new.cites, print |-> new.print]
  BY DEF Finding
<1>2. CASE was = None
  BY <1>2 DEF Merge
<1>3. CASE was # None
  <2>1. new.cites \cup (new.cites \ was.cites) = new.cites
    OBVIOUS
  <2> QED BY <1>1, <1>3, <2>1 DEF Merge, Column
<1> QED BY <1>2, <1>3

-----------------------------------------------------------------------------
(* A step of one session *)

LEMMA ServedIs ==
    /\ Served.facts = facts /\ Served.withdrawn = withdrawn
    /\ Served.findings = findings /\ Served.type = type
BY DEF Served

LEMMA HistoryStep ==
    ASSUME IInv, HInv, NEW s \in Sessions, NEW b, Told(b, Served),
           b.pc # "idle" => \A o \in Sessions :
               o # s /\ session[o].pc # "idle" => session[o].steady = b.steady,
           session' = [session EXCEPT ![s] = b],
           UNCHANGED <<type, state, corpus, deployed, read>>
    PROVE  HInv'
<1> USE DEF corpus
<1>1. Served' = Served
  BY DEF Served
<1>2. session'[s] = b /\ \A o \in Sessions : o # s => session'[o] = session[o]
  BY DEF IInv, SessionsSound
<1>3. \A o \in Sessions : Told(session'[o], Served)
  BY <1>2 DEF HInv
<1>4. OpenAlike'
  BY <1>2 DEF HInv, OpenAlike
<1>5. CommittedTold' /\ ReviewedAsShown'
  BY DEF HInv, CommittedTold, ReviewedAsShown, Undisturbed, ReadSteadily, Settles
<1> QED BY <1>1, <1>3, <1>4, <1>5 DEF HInv

\* A session that stays open is disturbed or not as it was.
LEMMA OpenStep ==
    ASSUME IInv, HInv, NEW s \in Sessions, NEW b, Told(b, Served), session[s].pc # "idle",
           b.steady = session[s].steady, session' = [session EXCEPT ![s] = b],
           UNCHANGED <<type, state, corpus, deployed, read>>
    PROVE  HInv'
<1>1. \A o \in Sessions : o # s /\ session[o].pc # "idle" => session[o].steady = b.steady
  BY DEF HInv, OpenAlike
<1> QED BY <1>1, HistoryStep

\* A session that has written nothing.
LEMMA FreshTold ==
    ASSUME NEW r, NEW c, r.work = NoWork, r.read = <<>>, r.pc \in {"idle", "next", "fail"},
           r.pc # "idle" /\ r.steady => HeldNow(r, c)
    PROVE  Told(r, c)
<1>1. /\ DOMAIN r.read = {} /\ DOMAIN r.work.findings = {} /\ DOMAIN r.work.derived = {}
      /\ r.work.facts = {}
  BY EmptyFn DEF NoWork
<1>2. Treated(r) = {}
  BY <1>1 DEF Treated
<1> QED BY <1>1, <1>2 DEF Told, OwnRead, Withdraws, Concludes, Compares

LEMMA IdleTold == ASSUME NEW c PROVE Told(Idle, c)
<1>1. Idle.work = NoWork /\ Idle.read = <<>> /\ Idle.pc = "idle"
  BY DEF Idle
<1> QED BY <1>1, FreshTold

LEMMA EndTold ==
    ASSUME IInv, HInv, NEW s \in Sessions, session' = [session EXCEPT ![s] = Idle],
           UNCHANGED <<type, state, corpus, deployed, read>>
    PROVE  HInv'
<1>1. Idle.pc = "idle"
  BY DEF Idle
<1> QED BY <1>1, IdleTold, HistoryStep

LEMMA RollBackTold == ASSUME IInv, HInv, NEW s \in Sessions, RollBack(s) PROVE HInv'
BY EndTold DEF RollBack

LEMMA DieTold == ASSUME IInv, HInv, NEW s \in Sessions, Die(s) PROVE HInv'
BY EndTold DEF Die

\* The rows that a session holds have the types they have.
LEMMA HeldIsNow ==
    ASSUME NEW docs, NEW b,
           b.held = [d \in docs |-> [type |-> type[d], state |-> state[d]]]
    PROVE  HeldNow(b, Served)
BY ServedIs DEF HeldNow

LEMMA StartTold == ASSUME IInv, HInv, NEW s \in Sessions, Start(s) PROVE HInv'
<1> DEFINE steady == \A o \in Open : session[o].steady
<1>1. session[s].pc = "idle" /\ UNCHANGED <<type, state, corpus, deployed, read>>
  BY DEF Start
<1>2. PICK docs, again, whole :
          session' = [session EXCEPT ![s] =
             [Idle EXCEPT !.pc = "next", !.version = deployed, !.rest = docs,
                !.whole = whole, !.again = again \/ ~ whole, !.steady = steady,
                !.held = [d \in docs |-> [type |-> type[d], state |-> state[d]]]]]
  BY DEF Start
<1> DEFINE held == [d \in docs |-> [type |-> type[d], state |-> state[d]]]
           b == [Idle EXCEPT !.pc = "next", !.version = deployed, !.rest = docs,
                   !.whole = whole, !.again = again \/ ~ whole, !.steady = steady, !.held = held]
<1>3. session' = [session EXCEPT ![s] = b]
  BY <1>2
<1> HIDE DEF held, steady
<1>4. b.work = NoWork /\ b.read = <<>> /\ b.held = held /\ b.pc = "next" /\ b.steady = steady
  BY DEF Idle
<1> HIDE DEF b
<1>5. HeldNow(b, Served)
  BY <1>4, HeldIsNow DEF held
<1>6. Told(b, Served)
  BY <1>4, <1>5, FreshTold
<1>7. \A o \in Sessions : o # s /\ session[o].pc # "idle" => session[o].steady = steady
  <2>1. \A o \in Sessions : session[o].steady \in BOOLEAN
    BY DEF IInv, SessionsSound, Session
  <2> QED BY <2>1 DEF HInv, OpenAlike, steady, Open
<1> QED BY <1>1, <1>3, <1>4, <1>6, <1>7, HistoryStep

LEMMA FailAloneTold == ASSUME IInv, HInv, NEW s \in Sessions, FailAlone(s) PROVE HInv'
<1> DEFINE d == Current(s)
           held == [x \in {d} |-> [type |-> type[x], state |-> state[x]]]
           b == [Idle EXCEPT !.pc = "fail", !.rest = {d}, !.steady = session[s].steady, !.held = held]
<1>1. session[s].pc # "idle" /\ UNCHANGED <<type, state, corpus, deployed, read>>
      /\ session' = [session EXCEPT ![s] = b]
  BY DEF FailAlone
<1> HIDE DEF held, d
<1>2. b.work = NoWork /\ b.read = <<>> /\ b.held = held /\ b.pc = "fail" /\ b.steady = session[s].steady
  BY DEF Idle
<1> HIDE DEF b
<1>3. HeldNow(b, Served)
  BY <1>2, HeldIsNow DEF held
<1>4. Told(b, Served)
  BY <1>2, <1>3, FreshTold
<1> QED BY <1>1, <1>2, <1>4, OpenStep

-----------------------------------------------------------------------------
(* Steps that write nothing of a document *)

\* What a session has written stays what it was to write, when it goes on to
\* another document, to the project, or to the end.
LEMMA Carried ==
    ASSUME NEW r, NEW b, NEW c, Told(r, c),
           r.pc \notin {"idle", "withdraw", "judge"}, b.pc \notin {"idle", "withdraw", "judge"},
           b.rest \subseteq r.rest, b.version = r.version, b.held = r.held, b.read = r.read,
           b.steady = r.steady, b.work.facts = r.work.facts, b.work.withdrawn = r.work.withdrawn,
           b.work.derived = r.work.derived, Project \notin DOMAIN r.read,
           DOMAIN b.work.findings \subseteq DOMAIN r.work.findings \cup {Project},
           \A d \in DOMAIN r.read : b.work.findings[d] = r.work.findings[d],
           Treated(b) \subseteq Treated(r)
    PROVE  Told(b, c)
<1>1. OwnRead(b)
  BY DEF Told, OwnRead
<1>2. ASSUME b.steady PROVE HeldNow(b, c) /\ Withdraws(b, c) /\ Concludes(b) /\ Compares(b, c)
  <2>1. HeldNow(r, c) /\ Withdraws(r, c) /\ Concludes(r)
    BY <1>2 DEF Told
  <2>2. HeldNow(b, c)
    BY <2>1 DEF HeldNow
  <2>3. \A d : Gone(b, c, d) = Gone(r, c, d)
    BY DEF Gone
  <2>4. Withdraws(b, c)
    BY <2>1, <2>3 DEF Withdraws
  <2>5. Concludes(b)
    BY <2>1 DEF Concludes, Says
  <2> QED BY <2>2, <2>4, <2>5 DEF Compares
<1> QED BY <1>1, <1>2 DEF Told

\* Of a session that acts.
LEMMA ActingTold ==
    ASSUME IInv, HInv, NEW s \in Sessions
    PROVE  /\ session[s] \in Session /\ Sound(session[s], Committed) /\ Told(session[s], Served)
           /\ Project \notin DOMAIN session[s].read
<1>1. session[s] \in Session /\ Sound(session[s], Committed) /\ Told(session[s], Served)
  BY Acting DEF HInv
<1>2. DOMAIN session[s].read \subseteq Documents
  BY <1>1, PartialFnDef DEF Session
<1> QED BY <1>1, <1>2, EvidenceAssumption

LEMMA SkipTold == ASSUME IInv, HInv, NEW s \in Sessions, Skip(s) PROVE HInv'
<1> DEFINE r == session[s]
           b == [r EXCEPT !.rest = @ \ {Current(s)}]
<1>1. r \in Session /\ Told(r, Served) /\ Project \notin DOMAIN r.read
  BY ActingTold
<1>2. session' = [session EXCEPT ![s] = b] /\ UNCHANGED <<type, state, corpus, deployed, read>>
  BY DEF Skip, Flush
<1>3. r.pc = "next" /\ r = session[s]
  BY DEF Skip
<1> HIDE DEF r
<1>4. /\ b.pc = "next" /\ b.rest \subseteq r.rest /\ b.version = r.version /\ b.held = r.held
      /\ b.work = r.work /\ b.read = r.read /\ b.steady = r.steady
  BY <1>1, <1>3 DEF Session
<1> HIDE DEF b
<1>5. Treated(b) = Treated(r)
  BY <1>3, <1>4 DEF Treated
<1>6. Told(b, Served)
  BY <1>1, <1>3, <1>4, <1>5, Carried
<1> QED BY <1>2, <1>3, <1>4, <1>6, OpenStep

LEMMA AdvanceTold == ASSUME IInv, HInv, NEW s \in Sessions, Advance(s) PROVE HInv'
<1> DEFINE r == session[s]
           seen == Rows(Current(s), r.version, Held(s, Current(s)).type) \cap FactsSeen(s)
           found == [r EXCEPT !.pc = "store", !.seen = seen]
           moved == [found EXCEPT !.work.state = Put(@, Current(s), "processing")]
<1>1. r \in Session /\ Told(r, Served) /\ Project \notin DOMAIN r.read
  BY ActingTold
<1>2. PICK b \in {found, moved} : session' = [session EXCEPT ![s] = b]
  BY DEF Advance, Flush
<1>3. r.pc = "advance" /\ r = session[s] /\ UNCHANGED <<type, state, corpus, deployed, read>>
  BY DEF Advance, Flush
<1> HIDE DEF r, seen
<1>4. found \in [pc : {"store"}, version : {r.version}, whole : BOOLEAN, again : BOOLEAN,
                 rest : {r.rest}, held : {r.held}, seen : {seen}, loaded : {r.loaded},
                 passed : {r.passed}, work : {r.work}, read : {r.read}, steady : {r.steady}]
  BY <1>1 DEF Session
<1> HIDE DEF found
<1>5. /\ b.pc = "store" /\ b.rest = r.rest /\ b.version = r.version /\ b.held = r.held
      /\ b.work.facts = r.work.facts /\ b.work.withdrawn = r.work.withdrawn
      /\ b.work.derived = r.work.derived /\ b.work.findings = r.work.findings
      /\ b.read = r.read /\ b.steady = r.steady
  <2>1. r.work \in Work
    BY <1>1 DEF Session
  <2>2. CASE b = found
    BY <1>4, <2>2
  <2>3. CASE b = moved
    <3> DEFINE states == Put(found.work.state, Current(s), "processing")
    <3>1. b = [found EXCEPT !.work.state = states]
      BY <2>3
    <3> HIDE DEF states, moved
    <3> QED BY <1>4, <2>1, <3>1 DEF Work
  <2> QED BY <1>2, <2>2, <2>3
<1> HIDE DEF moved
<1>6. Treated(b) = Treated(r)
  BY <1>3, <1>5 DEF Treated, First
<1>7. Told(b, Served)
  BY <1>1, <1>3, <1>5, <1>6, Carried
<1> QED BY <1>2, <1>3, <1>5, <1>7, OpenStep

LEMMA LoadProjectTold == ASSUME IInv, HInv, NEW s \in Sessions, LoadProject(s) PROVE HInv'
<1> DEFINE r == session[s]
           loaded == FindingsSeen(s)[Project]
           seen == {ConsistentShares(DerivedSeen(s))}
           b == [r EXCEPT !.pc = "project", !.loaded = loaded, !.seen = seen, !.passed = {}]
<1>1. r \in Session /\ Told(r, Served) /\ Project \notin DOMAIN r.read
  BY ActingTold
<1>2. session' = [session EXCEPT ![s] = b] /\ UNCHANGED <<type, state, corpus, deployed, read>>
  BY DEF LoadProject, Flush
<1>3. r.pc = "next" /\ r = session[s]
  BY DEF LoadProject
<1> HIDE DEF r, loaded, seen
<1>4. /\ b.pc = "project" /\ b.rest = r.rest /\ b.version = r.version /\ b.held = r.held
      /\ b.work = r.work /\ b.read = r.read /\ b.steady = r.steady
  BY <1>1, <1>3 DEF Session
<1> HIDE DEF b
<1>5. Treated(b) = Treated(r)
  BY <1>3, <1>4 DEF Treated
<1>6. Told(b, Served)
  BY <1>1, <1>3, <1>4, <1>5, Carried
<1> QED BY <1>2, <1>3, <1>4, <1>6, OpenStep

LEMMA JudgeProjectTold == ASSUME IInv, HInv, NEW s \in Sessions, JudgeProject(s) PROVE HInv'
<1> DEFINE r == session[s]
           merged == Merge(CHOOSE c \in r.seen : TRUE, r.loaded, FindingsSeen(s)[Project])
           verdicts == Put(r.work.findings, Project, merged)
           b == [r EXCEPT !.pc = "commit", !.seen = {}, !.work.findings = verdicts]
<1>1. r \in Session /\ Told(r, Served) /\ Project \notin DOMAIN r.read
      /\ DOMAIN r.read \subseteq DOMAIN r.work.findings
  BY ActingTold DEF Sound, ReadWhole
<1>2. CASE RollBack(s)
  BY <1>2, RollBackTold
<1>3. CASE Flush(s, b)
  <2>1. session' = [session EXCEPT ![s] = b] /\ UNCHANGED <<type, state, corpus, deployed, read>>
    BY <1>3 DEF Flush
  <2>2. r.pc = "project" /\ r = session[s]
    BY DEF JudgeProject
  <2> HIDE DEF r, merged
  <2>3. /\ DOMAIN verdicts = DOMAIN r.work.findings \cup {Project}
        /\ \A d \in DOMAIN r.work.findings : d # Project => verdicts[d] = r.work.findings[d]
    BY DEF Put
  <2> HIDE DEF verdicts
  <2>4. /\ b.pc = "commit" /\ b.rest = r.rest /\ b.version = r.version /\ b.held = r.held
        /\ b.work.facts = r.work.facts /\ b.work.withdrawn = r.work.withdrawn
        /\ b.work.derived = r.work.derived /\ b.work.findings = verdicts
        /\ b.read = r.read /\ b.steady = r.steady
    BY <1>1, <2>2 DEF Session, Work
  <2> HIDE DEF b
  <2>5. Treated(b) = Treated(r)
    BY <2>2, <2>4 DEF Treated
  <2>6. Told(b, Served)
    BY <1>1, <2>2, <2>3, <2>4, <2>5, Carried
  <2> QED BY <2>1, <2>2, <2>4, <2>6, OpenStep
<1> QED BY <1>2, <1>3 DEF JudgeProject

LEMMA FailInProjectTold == ASSUME IInv, HInv, NEW s \in Sessions, FailInProject(s) PROVE HInv'
<1> DEFINE r == session[s]
           states == IF CanTransition(StateSeen(s, Current(s)), "failed")
                     THEN Put(r.work.state, Current(s), "failed") ELSE r.work.state
           b == [r EXCEPT !.rest = @ \ {Current(s)}, !.work.state = states]
<1>1. r \in Session /\ Told(r, Served) /\ Project \notin DOMAIN r.read
  BY ActingTold
<1>2. session' = [session EXCEPT ![s] = b] /\ UNCHANGED <<type, state, corpus, deployed, read>>
  <2>1. session' = [session EXCEPT ![s].rest = @ \ {Current(s)}, ![s].work.state =
                       IF CanTransition(StateSeen(s, Current(s)), "failed") THEN Put(@, Current(s), "failed") ELSE @]
    BY DEF FailInProject
  <2>2. session \in [Sessions -> Session]
    BY DEF IInv, SessionsSound
  <2> QED BY <2>1, <2>2 DEF FailInProject, Session, Work
<1>3. r.pc = "next" /\ r = session[s]
  BY DEF FailInProject
<1> HIDE DEF r, states
<1>4. /\ b.pc = "next" /\ b.rest \subseteq r.rest /\ b.version = r.version /\ b.held = r.held
      /\ b.work.facts = r.work.facts /\ b.work.withdrawn = r.work.withdrawn
      /\ b.work.derived = r.work.derived /\ b.work.findings = r.work.findings
      /\ b.read = r.read /\ b.steady = r.steady
  BY <1>1, <1>3 DEF Session, Work
<1> HIDE DEF b
<1>5. Treated(b) = Treated(r)
  BY <1>3, <1>4 DEF Treated
<1>6. Told(b, Served)
  BY <1>1, <1>3, <1>4, <1>5, Carried
<1> QED BY <1>2, <1>3, <1>4, <1>6, OpenStep

LEMMA RecordFailureTold == ASSUME IInv, HInv, NEW s \in Sessions, RecordFailure(s) PROVE HInv'
<1> DEFINE r == session[s]
           states == Put(r.work.state, Current(s), "failed")
           b == [r EXCEPT !.pc = "commit", !.work.state = states]
<1>1. r \in Session /\ Told(r, Served) /\ Project \notin DOMAIN r.read
  BY ActingTold
<1>2. CASE RollBack(s)
  BY <1>2, RollBackTold
<1>3. CASE Flush(s, b)
  <2>1. session' = [session EXCEPT ![s] = b] /\ UNCHANGED <<type, state, corpus, deployed, read>>
    BY <1>3 DEF Flush
  <2>2. r.pc = "fail" /\ r = session[s]
    BY DEF RecordFailure
  <2> HIDE DEF r, states
  <2>3. /\ b.pc = "commit" /\ b.rest = r.rest /\ b.version = r.version /\ b.held = r.held
        /\ b.work.facts = r.work.facts /\ b.work.withdrawn = r.work.withdrawn
        /\ b.work.derived = r.work.derived /\ b.work.findings = r.work.findings
        /\ b.read = r.read /\ b.steady = r.steady
    BY <1>1, <2>2 DEF Session, Work
  <2> HIDE DEF b
  <2>4. Treated(b) = Treated(r)
    BY <2>2, <2>3 DEF Treated
  <2>5. Told(b, Served)
    BY <1>1, <2>2, <2>3, <2>4, Carried
  <2> QED BY <2>1, <2>2, <2>3, <2>5, OpenStep
<1> QED BY <1>2, <1>3 DEF RecordFailure

-----------------------------------------------------------------------------
(* The analysis of a document *)

\* The document that a session is at.
LEMMA AtFirst ==
    ASSUME IInv, HInv, NEW s \in Sessions,
           session[s].pc \in {"withdraw", "advance", "store", "judge"} \/ session[s].rest # {}
    PROVE  LET d == First(session[s])
           IN  /\ d \in Documents /\ d \in session[s].rest /\ d \notin DOMAIN session[s].read
               /\ d \in DOMAIN session[s].held /\ session[s].held[d] \in HeldRow
               /\ d \notin DOMAIN session[s].work.findings /\ d \in Subjects
               /\ Current(s) = d /\ Held(s, d) = session[s].held[d]
               /\ FindingsSeen(s)[d] = findings[d]
<1> DEFINE r == session[s]
           d == First(r)
<1>1. r \in Session /\ Sound(r, Committed) /\ Told(r, Served)
  BY ActingTold
<1>2. r.rest # {} /\ r.rest \subseteq DOMAIN r.held
  BY <1>1 DEF Sound, AtDocument
<1>3. d \in r.rest /\ d \in Documents
  BY <1>1, <1>2, FirstIsLeft
<1>4. d \notin DOMAIN r.read /\ d \notin DOMAIN r.work.findings
  BY <1>1, <1>3, EvidenceAssumption DEF Told, OwnRead
<1>5. r.held[d] \in HeldRow /\ d \in DOMAIN r.held
  BY <1>1, <1>2, <1>3, PartialFnDef DEF Session
<1>6. Current(s) = d /\ Held(s, d) = r.held[d]
  BY DEF Current, First, Held
<1>7. FindingsSeen(s)[d] = findings[d]
  <2>1. d \in DOMAIN findings
    BY <1>3 DEF IInv, TypeOK, Subjects
  <2> QED BY <1>4, <2>1 DEF FindingsSeen, My, Over
<1> QED BY <1>3, <1>4, <1>5, <1>6, <1>7 DEF Subjects

LEMMA ReadDocumentTold == ASSUME IInv, HInv, NEW s \in Sessions, ReadDocument(s) PROVE HInv'
<1> DEFINE r == session[s]
           d == First(r)
           seen == Stale(d, r.version, r.held[d].type, FactsSeen(s), WithdrawnSeen(s))
           b == [r EXCEPT !.pc = "withdraw", !.seen = seen]
           c == Served
<1>1. r \in Session /\ Told(r, c) /\ r.pc = "next" /\ r.rest # {}
  BY ActingTold DEF ReadDocument
<1>2. d \notin DOMAIN r.read /\ Current(s) = d /\ Held(s, d) = r.held[d]
  BY <1>1, AtFirst
<1>3. session' = [session EXCEPT ![s] = b] /\ UNCHANGED <<type, state, corpus, deployed, read>>
  BY <1>2 DEF ReadDocument, Flush
<1>4. \A k \in c.facts \cup r.work.facts :
         k.doc = d /\ k.type \in SuppressedTypes(d, r.version, r.held[d].type) =>
            k \in c.withdrawn \cup r.work.withdrawn \cup seen
  BY ServedIs DEF Stale, FactsSeen, WithdrawnSeen, My
<1>5. r = session[s]
  OBVIOUS
<1> HIDE DEF r, seen, c
<1>6. /\ b.pc = "withdraw" /\ b.rest = r.rest /\ b.version = r.version /\ b.held = r.held
      /\ b.work = r.work /\ b.read = r.read /\ b.steady = r.steady /\ b.seen = seen
  BY <1>1 DEF Session
<1> HIDE DEF b
<1>7. First(b) = d
  BY <1>6 DEF First
<1> HIDE DEF d
<1>8. OwnRead(b)
  BY <1>1, <1>6 DEF Told, OwnRead
<1>9. ASSUME b.steady PROVE HeldNow(b, c) /\ Withdraws(b, c) /\ Concludes(b)
  <2>1. HeldNow(r, c) /\ Withdraws(r, c) /\ Concludes(r)
    BY <1>1, <1>6, <1>9 DEF Told
  <2>2. Treated(b) = DOMAIN r.read \cup {d} /\ Treated(r) = DOMAIN r.read
    BY <1>1, <1>6, <1>7 DEF Treated
  <2>3. \A x : Gone(r, c, x) = c.withdrawn \cup r.work.withdrawn
    BY <1>1 DEF Gone
  <2>4. /\ \A x : c.withdrawn \cup r.work.withdrawn \subseteq Gone(b, c, x)
        /\ c.withdrawn \cup r.work.withdrawn \cup seen \subseteq Gone(b, c, d)
    BY <1>6, <1>7 DEF Gone
  <2>5. Withdraws(b, c)
    BY <1>4, <1>6, <2>1, <2>2, <2>3, <2>4 DEF Withdraws
  <2> QED BY <1>6, <2>1, <2>5 DEF HeldNow, Concludes
<1>10. Told(b, c)
  BY <1>6, <1>8, <1>9 DEF Told, Compares
<1> QED BY <1>1, <1>3, <1>5, <1>6, <1>10, OpenStep DEF c

LEMMA WithdrawTold == ASSUME IInv, HInv, NEW s \in Sessions, Withdraw(s) PROVE HInv'
<1> DEFINE r == session[s]
           b == [r EXCEPT !.pc = "advance", !.work.withdrawn = @ \cup r.seen]
           c == Served
<1>1. r \in Session /\ Told(r, c) /\ r.pc = "withdraw"
  BY ActingTold DEF Withdraw
<1>2. CASE RollBack(s)
  BY <1>2, RollBackTold
<1>3. CASE Flush(s, b)
  <2>1. session' = [session EXCEPT ![s] = b] /\ UNCHANGED <<type, state, corpus, deployed, read>>
    BY <1>3 DEF Flush
  <2>2. r = session[s]
    OBVIOUS
  <2> HIDE DEF r, c
  <2>3. /\ b.pc = "advance" /\ b.rest = r.rest /\ b.version = r.version /\ b.held = r.held
        /\ b.work.facts = r.work.facts /\ b.work.withdrawn = r.work.withdrawn \cup r.seen
        /\ b.work.derived = r.work.derived /\ b.work.findings = r.work.findings
        /\ b.read = r.read /\ b.steady = r.steady
    BY <1>1 DEF Session, Work
  <2> HIDE DEF b
  <2>4. Treated(b) = Treated(r) /\ \A x : Gone(r, c, x) \subseteq Gone(b, c, x)
    BY <1>1, <2>3 DEF Treated, First, Gone
  <2>5. OwnRead(b)
    BY <1>1, <2>3 DEF Told, OwnRead
  <2>6. ASSUME b.steady PROVE HeldNow(b, c) /\ Withdraws(b, c) /\ Concludes(b)
    <3>1. HeldNow(r, c) /\ Withdraws(r, c) /\ Concludes(r)
      BY <1>1, <2>3, <2>6 DEF Told
    <3>2. Withdraws(b, c)
      BY <2>3, <2>4, <3>1 DEF Withdraws
    <3> QED BY <2>3, <3>1, <3>2 DEF HeldNow, Concludes, Says
  <2>7. Told(b, c)
    BY <2>3, <2>5, <2>6 DEF Told, Compares
  <2> QED BY <1>1, <2>1, <2>2, <2>3, <2>7, OpenStep DEF c
<1> QED BY <1>2, <1>3 DEF Withdraw

LEMMA StoreFactsTold == ASSUME IInv, HInv, NEW s \in Sessions, StoreFacts(s) PROVE HInv'
<1> DEFINE r == session[s]
           d == First(r)
           t == r.held[d].type
           new == Rows(d, r.version, t) \ r.seen
           loaded == findings[d]
           b == [r EXCEPT !.pc = "judge", !.work.facts = @ \cup new, !.loaded = loaded, !.passed = {}]
           c == Served
<1>1. r \in Session /\ Told(r, c) /\ r.pc = "store"
  BY ActingTold DEF StoreFacts
<1>2. CASE RollBack(s)
  BY <1>2, RollBackTold
<1>3. CASE Flush(s, b)
  <2>1. session' = [session EXCEPT ![s] = b] /\ UNCHANGED <<type, state, corpus, deployed, read>>
    BY <1>3 DEF Flush
  <2>2. r = session[s] /\ loaded = c.findings[d] /\ r.version \in Versions
    BY <1>1, ServedIs DEF Session
  <2>3. \A k \in new : k.doc = d /\ k.type \in Emitted(d, r.version, t)
    BY DEF Rows
  <2> HIDE DEF r, c, new, loaded
  <2>4. /\ b.pc = "judge" /\ b.rest = r.rest /\ b.version = r.version /\ b.held = r.held
        /\ b.work.facts = r.work.facts \cup new /\ b.work.withdrawn = r.work.withdrawn
        /\ b.work.derived = r.work.derived /\ b.work.findings = r.work.findings
        /\ b.read = r.read /\ b.steady = r.steady /\ b.loaded = loaded /\ b.passed = {}
    BY <1>1 DEF Session, Work
  <2> HIDE DEF b
  <2>5. First(b) = d
    BY <2>4 DEF First
  <2>6. t = b.held[d].type
    BY <2>4
  <2> HIDE DEF d, t
  <2>7. OwnRead(b)
    BY <1>1, <2>3, <2>4, <2>5, <2>6 DEF Told, OwnRead
  <2>8. ASSUME b.steady PROVE HeldNow(b, c) /\ Withdraws(b, c) /\ Concludes(b)
    <3>1. HeldNow(r, c) /\ Withdraws(r, c) /\ Concludes(r)
      BY <1>1, <2>4, <2>8 DEF Told
    <3>2. Treated(b) = Treated(r)
      BY <1>1, <2>4 DEF Treated, First
    <3>3. \A x : Gone(b, c, x) = Gone(r, c, x)
      BY <1>1, <2>4 DEF Gone
    <3>4. ASSUME NEW x \in Treated(b), ReadAlike(x), NEW k \in c.facts \cup b.work.facts,
                 k.doc = x, k.type \in SuppressedTypes(x, b.version, b.held[x].type)
          PROVE  k \in Gone(b, c, x)
      <4>1. CASE k \in c.facts \cup r.work.facts
        BY <2>4, <3>1, <3>2, <3>3, <3>4, <4>1 DEF Withdraws
      <4>2. CASE k \in new
        <5>1. x = d /\ k.type \in Emitted(d, r.version, t)
          BY <2>3, <3>4, <4>2
        <5>2. SuppressedTypes(d, r.version, t) \cap Emitted(d, r.version, t) = {}
          BY <2>2, <3>4, <5>1, SuppressedByAll
        <5> QED BY <2>4, <2>6, <3>4, <5>1, <5>2
      <4> QED BY <2>4, <3>4, <4>1, <4>2
    <3>5. Withdraws(b, c)
      BY <3>4 DEF Withdraws
    <3> QED BY <2>4, <3>1, <3>5 DEF HeldNow, Concludes, Says
  <2>9. Compares(b, c)
    BY <2>2, <2>4, <2>5 DEF Compares
  <2>10. Told(b, c)
    BY <2>4, <2>7, <2>8, <2>9 DEF Told
  <2> QED BY <1>1, <2>1, <2>2, <2>4, <2>10, OpenStep DEF c
<1>4. Current(s) = d /\ Held(s, d) = r.held[d] /\ FindingsSeen(s)[d] = loaded
  BY <1>1, AtFirst
<1> QED BY <1>2, <1>3, <1>4 DEF StoreFacts

\* What is merged into the row is the verdict, unless the write collides: a row
\* that another session wrote either cites the share, or says the same.
LEMMA MergesVerdict ==
    ASSUME NEW r \in Session, NEW c, NEW d \in Documents, NEW t, d = First(r), c.type[d] = t,
           r.pc = "judge", ReadAlike(d), Compares(r, c), c.findings[d] \in Finding \cup {None},
           ~ (d \in r.passed /\ (r.loaded = None \/ c.findings[d].cites \cap Verify(d, r.version, t).cites # {}))
    PROVE  Merge(Verify(d, r.version, t), r.loaded, c.findings[d]) = Verify(d, r.version, t)
<1> DEFINE new == Verify(d, r.version, t)
<1>1. new \in Finding /\ r.version \in Versions /\ r.loaded \in Finding \cup {None}
  BY Verified DEF Session
<1>2. CASE d \notin r.passed
  <2>1. r.loaded = c.findings[d]
    BY <1>2 DEF Compares
  <2> HIDE DEF new
  <2>2. Merge(new, r.loaded, r.loaded) = new
    BY <1>1, MergedUnpassed
  <2> QED BY <2>1, <2>2 DEF new
<1>3. CASE d \in r.passed
  <2>1. PICK v \in Versions : c.findings[d] = Verify(d, v, t)
    BY <1>3 DEF Compares
  <2>2. r.loaded # None /\ Verify(d, v, t).cites \cap new.cites = {}
    BY <1>3, <2>1
  <2>3. \A w \in Versions : Verify(d, w, t).cites = IF ShareOf(d, w, t) = 0 THEN {} ELSE {d}
    BY VerifiedCites
  <2>4. ShareOf(d, v, t) = 0 /\ ShareOf(d, r.version, t) = 0
    BY <1>1, <2>2, <2>3, SharedByAll
  <2>5. c.findings[d] = new /\ new.cites = {}
    BY <2>1, <2>3, <2>4 DEF Verify
  <2> HIDE DEF new
  <2>6. Merge(new, r.loaded, new) = new
    BY <1>1, <2>5, MergedAlike
  <2> QED BY <2>5, <2>6 DEF new
<1> QED BY <1>2, <1>3

LEMMA JudgeTold == ASSUME IInv, HInv, NEW s \in Sessions, Judge(s) PROVE HInv'
<1> DEFINE r == session[s]
           d == First(r)
           t == r.held[d].type
           new == Verify(d, r.version, t)
           share == ShareOf(d, r.version, t)
           merged == Merge(new, r.loaded, findings[d])
           shares == IF share = 0 THEN r.work.derived ELSE Put(r.work.derived, d, share)
           verdicts == Put(r.work.findings, d, merged)
           states == IF StateSeen(s, d) = "processed" THEN r.work.state
                     ELSE Put(r.work.state, d, "processed")
           row == [version |-> r.version, type |-> t, steady |-> FALSE]
           reads == Put(r.read, d, row)
           phase == IF r.whole THEN "next" ELSE "commit"
           b == [r EXCEPT !.pc = phase, !.rest = @ \ {d},
                   !.work.derived = shares, !.work.findings = verdicts, !.work.state = states,
                   !.read = reads]
           c == Served
<1>1. r \in Session /\ Told(r, c) /\ r.pc = "judge" /\ r.work \in Work
  BY ActingTold DEF Judge, Session
<1>2. /\ d \in Documents /\ d \in r.rest /\ d \notin DOMAIN r.read /\ d \in DOMAIN r.held
      /\ Current(s) = d /\ Held(s, d) = r.held[d] /\ FindingsSeen(s)[d] = findings[d]
      /\ d \in Subjects
  BY <1>1, AtFirst
<1>3. CASE RollBack(s)
  BY <1>3, RollBackTold
<1>4. CASE Flush(s, b) /\ ~ Collides(s, d, new)
  <2>1. session' = [session EXCEPT ![s] = b] /\ UNCHANGED <<type, state, corpus, deployed, read>>
    BY <1>4 DEF Flush
  <2>2. r = session[s] /\ phase \in {"next", "commit"} /\ row.version = r.version /\ row.type = t
    OBVIOUS
  <2>3. /\ c.findings[d] = findings[d] /\ findings[d] \in Finding \cup {None}
        /\ ~ (d \in r.passed /\ (r.loaded = None \/ c.findings[d].cites \cap new.cites # {}))
    BY <1>2, <1>4, ServedIs DEF Collides, IInv, TypeOK
  <2>4. r.steady /\ ReadAlike(d) => merged = new
    <3> SUFFICES ASSUME r.steady, ReadAlike(d) PROVE merged = new
      OBVIOUS
    <3>1. HeldNow(r, c) /\ Compares(r, c)
      BY <1>1 DEF Told
    <3>2. c.type[d] = t
      BY <1>2, <3>1 DEF HeldNow
    <3> HIDE DEF r, c, d, t
    <3> QED BY <1>1, <1>2, <2>3, <3>1, <3>2, MergesVerdict DEF d
  <2>5. DOMAIN r.work.findings \subseteq DOMAIN r.read \cup {Project} /\ Project # d
        /\ DOMAIN r.read \subseteq DOMAIN r.work.findings /\ DOMAIN r.work.derived \subseteq DOMAIN r.read
    BY <1>1, <1>2, ActingTold, EvidenceAssumption DEF Told, OwnRead, Sound, ReadWhole
  <2> HIDE DEF merged, states, row, phase
  <2>6. /\ DOMAIN verdicts = DOMAIN r.work.findings \cup {d} /\ verdicts[d] = merged
        /\ \A x \in DOMAIN r.work.findings : x # d => verdicts[x] = r.work.findings[x]
        /\ DOMAIN reads = DOMAIN r.read \cup {d} /\ reads[d] = row
        /\ \A x \in DOMAIN r.read : x # d => reads[x] = r.read[x]
    BY DEF Put
  <2>7. /\ DOMAIN r.work.derived \subseteq DOMAIN shares
        /\ DOMAIN shares \subseteq DOMAIN r.work.derived \cup {d}
        /\ share # 0 => d \in DOMAIN shares /\ shares[d] = share
        /\ \A x \in DOMAIN r.work.derived : x # d => shares[x] = r.work.derived[x]
    BY DEF Put
  <2> HIDE DEF r, c, verdicts, reads, shares
  <2>8. /\ b.pc = phase /\ b.rest = r.rest \ {d} /\ b.version = r.version /\ b.held = r.held
        /\ b.work.facts = r.work.facts /\ b.work.withdrawn = r.work.withdrawn
        /\ b.work.derived = shares /\ b.work.findings = verdicts
        /\ b.read = reads /\ b.steady = r.steady
    BY <1>1 DEF Session, Work
  <2>9. t = r.held[d].type /\ new = Verify(d, r.version, t) /\ share = ShareOf(d, r.version, t) /\ d = First(r)
    OBVIOUS
  <2> HIDE DEF b, d, t, new, share
  <2>10. OwnRead(b)
    <3>1. OwnRead(r)
      BY <1>1 DEF Told
    <3>2. DOMAIN b.read \cap b.rest = {}
      BY <2>6, <2>8, <3>1 DEF OwnRead
    <3>3. \A x \in DOMAIN b.read :
             x \in DOMAIN b.held /\ b.read[x].version = b.version /\ b.read[x].type = b.held[x].type
      BY <1>2, <2>2, <2>6, <2>8, <2>9, <3>1 DEF OwnRead
    <3>4. DOMAIN b.work.findings \subseteq DOMAIN b.read \cup {Project} /\ DOMAIN b.work.derived \subseteq DOMAIN b.read
      BY <2>5, <2>6, <2>7, <2>8
    <3>5. \A k \in b.work.facts :
             k.doc \in DOMAIN b.read /\ k.type \in Emitted(k.doc, b.version, b.held[k.doc].type)
      BY <2>6, <2>8, <2>9, <3>1 DEF OwnRead
    <3> QED BY <3>2, <3>3, <3>4, <3>5 DEF OwnRead
  <2>11. ASSUME b.steady PROVE HeldNow(b, c) /\ Withdraws(b, c) /\ Concludes(b)
    <3>1. HeldNow(r, c) /\ Withdraws(r, c) /\ Concludes(r)
      BY <1>1, <2>8, <2>11 DEF Told
    <3>2. Treated(b) = Treated(r) /\ \A x : Gone(b, c, x) = Gone(r, c, x)
      BY <1>1, <2>2, <2>6, <2>8, <2>9 DEF Treated, Gone
    <3>3. Withdraws(b, c)
      BY <2>8, <3>1, <3>2 DEF Withdraws
    <3>4. ASSUME NEW x \in DOMAIN b.read, ReadAlike(x)
          PROVE  Says(b.work, x, b.version, b.held[x].type)
      <4>1. CASE x = d
        BY <2>4, <2>6, <2>7, <2>8, <2>9, <2>11, <3>4, <4>1 DEF Says
      <4>2. CASE x # d
        <5>1. x \in DOMAIN r.read
          BY <2>6, <2>8, <4>2
        <5>2. Says(r.work, x, r.version, r.held[x].type)
          BY <3>1, <3>4, <5>1 DEF Concludes
        <5> QED BY <2>5, <2>6, <2>7, <2>8, <4>2, <5>1, <5>2 DEF Says
      <4> QED BY <4>1, <4>2
    <3> QED BY <2>8, <3>1, <3>3, <3>4 DEF HeldNow, Concludes
  <2>12. Told(b, c)
    BY <2>2, <2>8, <2>10, <2>11 DEF Told, Compares
  <2> QED BY <1>1, <2>1, <2>2, <2>8, <2>12, OpenStep DEF c
<1>5. RollBack(s) \/ (Flush(s, b) /\ ~ Collides(s, d, new))
  <2>1. IF Collides(s, d, new) THEN RollBack(s)
        ELSE Flush(s, [r EXCEPT
               !.pc = IF r.whole THEN "next" ELSE "commit",
               !.rest = @ \ {d},
               !.work.derived = IF share = 0 THEN @ ELSE Put(@, d, share),
               !.work.findings = Put(@, d, merged),
               !.work.state = states, !.read = Put(@, d, row)])
    BY <1>2 DEF Judge, My
  <2> HIDE DEF r, d, new, share, merged, states, row
  <2> QED BY <2>1
<1> QED BY <1>3, <1>4, <1>5

-----------------------------------------------------------------------------
(* What is committed *)

LEMMA CommitIs ==
    ASSUME IInv, NEW s \in Sessions, Commit(s)
    PROVE  LET r == session[s]
           IN  /\ facts' = facts \cup r.work.facts /\ withdrawn' = withdrawn \cup r.work.withdrawn
               /\ UNCHANGED <<type, reviews>>
               /\ \A d \in Documents :
                    /\ derived'[d] = IF d \in DOMAIN r.work.derived THEN r.work.derived[d] ELSE derived[d]
                    /\ findings'[d] = IF d \in DOMAIN r.work.findings THEN r.work.findings[d] ELSE findings[d]
                    /\ read'[d] = IF d \in DOMAIN r.read THEN [r.read[d] EXCEPT !.steady = r.steady] ELSE read[d]
               /\ session' = [o \in Sessions |-> IF o = s THEN Idle ELSE Overtaken(o, r.work)]
<1> DEFINE r == session[s]
<1>1. /\ facts' = facts \cup r.work.facts /\ withdrawn' = withdrawn \cup r.work.withdrawn
      /\ UNCHANGED <<type, reviews>>
      /\ derived' = Over(r.work.derived, derived) /\ findings' = Over(r.work.findings, findings)
      /\ read' = Over([d \in DOMAIN r.read |-> [r.read[d] EXCEPT !.steady = r.steady]], read)
      /\ session' = [o \in Sessions |-> IF o = s THEN Idle ELSE Overtaken(o, r.work)]
  BY DEF Commit, My
<1>2. \A d \in Documents : d \in DOMAIN derived /\ d \in DOMAIN findings /\ d \in DOMAIN read
  BY DEF IInv, TypeOK, HistoryTyped, Subjects
<1> HIDE DEF r
<1>3. ASSUME NEW d \in Documents
      PROVE  /\ derived'[d] = IF d \in DOMAIN r.work.derived THEN r.work.derived[d] ELSE derived[d]
             /\ findings'[d] = IF d \in DOMAIN r.work.findings THEN r.work.findings[d] ELSE findings[d]
             /\ read'[d] = IF d \in DOMAIN r.read THEN [r.read[d] EXCEPT !.steady = r.steady] ELSE read[d]
  BY <1>1, <1>2 DEF Over
<1> QED BY <1>1, <1>3 DEF r

\* What the document of an open session holds is what another holds of it.
LEMMA TreatedIsHeld ==
    ASSUME NEW q, NEW c, OwnRead(q), AtDocument(q), q \in Session, NEW x \in Treated(q)
    PROVE  x \in DOMAIN q.held
<1>1. CASE x \in DOMAIN q.read
  BY <1>1 DEF OwnRead
<1>2. CASE q.pc \in {"withdraw", "advance", "store", "judge"} /\ x = First(q)
  BY <1>2, FirstIsLeft DEF AtDocument
<1> QED BY <1>1, <1>2 DEF Treated

\* What one session commits keeps what is told of another.
LEMMA OvertakenTold ==
    ASSUME IInv, HInv, NEW s \in Sessions, Commit(s), NEW o \in Sessions, o # s
    PROVE  Told(session'[o], Served')
<1> DEFINE r == session[s]
           q == session[o]
           n == session'[o]
           c == Served
           e == Served'
           passed == IF q.pc \in {"judge", "project"} THEN q.passed \cup DOMAIN r.work.findings ELSE q.passed
<1>1. r \in Session /\ Told(r, c) /\ r.pc = "commit" /\ Project \notin DOMAIN r.read
      /\ DOMAIN r.work.findings \subseteq DOMAIN r.read \cup {Project}
  BY ActingTold DEF Commit, Told, OwnRead
<1>2. q \in Session /\ Told(q, c) /\ AtDocument(q)
  BY ActingTold DEF Sound
<1>3. n = [q EXCEPT !.passed = passed]
  <2>1. n = IF q.pc \in {"judge", "project"} THEN [q EXCEPT !.passed = @ \cup DOMAIN r.work.findings] ELSE q
    BY CommitIs DEF Overtaken
  <2>2. q = [q EXCEPT !.passed = q.passed]
    BY <1>2 DEF Session
  <2> HIDE DEF q, r
  <2> QED BY <2>1, <2>2
<1>4. /\ e.facts = c.facts \cup r.work.facts /\ e.withdrawn = c.withdrawn \cup r.work.withdrawn
      /\ e.type = c.type
      /\ \A d \in Documents :
            e.findings[d] = IF d \in DOMAIN r.work.findings THEN r.work.findings[d] ELSE c.findings[d]
  BY CommitIs DEF Served
<1>5. q.pc # "idle" /\ q.steady => r.steady
  BY <1>1 DEF HInv, OpenAlike
<1>6. q.pc = "judge" => First(q) \in Documents
  BY <1>2, FirstIsLeft DEF AtDocument
<1> HIDE DEF r, q, c, e
<1>7. /\ n.pc = q.pc /\ n.version = q.version /\ n.rest = q.rest /\ n.held = q.held /\ n.seen = q.seen
      /\ n.loaded = q.loaded /\ n.work = q.work /\ n.read = q.read /\ n.steady = q.steady
      /\ n.passed = passed
  BY <1>2, <1>3 DEF Session
<1> HIDE DEF n
<1>8. First(n) = First(q) /\ Treated(n) = Treated(q)
  BY <1>7 DEF First, Treated
<1>9. OwnRead(n)
  BY <1>2, <1>7, <1>8 DEF Told, OwnRead
<1>10. ASSUME n.pc # "idle", n.steady PROVE HeldNow(n, e) /\ Withdraws(n, e) /\ Concludes(n) /\ Compares(n, e)
  <2>1. /\ HeldNow(q, c) /\ Withdraws(q, c) /\ Concludes(q) /\ Compares(q, c)
        /\ HeldNow(r, c) /\ Concludes(r)
    BY <1>1, <1>2, <1>5, <1>7, <1>10 DEF Told
  <2>2. HeldNow(n, e) /\ Concludes(n)
    BY <1>4, <1>7, <2>1 DEF HeldNow, Concludes
  <2>3. ASSUME NEW x \in Treated(n), ReadAlike(x), NEW k \in e.facts \cup n.work.facts,
               k.doc = x, k.type \in SuppressedTypes(x, n.version, n.held[x].type)
        PROVE  k \in Gone(n, e, x)
    <3>1. CASE k \in c.facts \cup q.work.facts
      <4>1. k \in Gone(q, c, x)
        BY <1>7, <1>8, <2>1, <2>3, <3>1 DEF Withdraws
      <4> QED BY <1>4, <1>7, <1>8, <4>1 DEF Gone
    <3>2. CASE k \in r.work.facts
      <4>1. x \in DOMAIN r.read /\ k.type \in Emitted(x, r.version, r.held[x].type)
        BY <1>1, <2>3, <3>2 DEF Told, OwnRead
      <4>2. x \in DOMAIN r.held /\ x \in DOMAIN q.held
        BY <1>1, <1>2, <1>8, <2>3, <4>1, TreatedIsHeld DEF Told, OwnRead
      <4>3. r.held[x].type = q.held[x].type
        BY <2>1, <4>2 DEF HeldNow
      <4>4. SuppressedTypes(x, q.version, q.held[x].type) \cap Emitted(x, r.version, q.held[x].type) = {}
        BY <1>1, <1>2, <2>3, SuppressedByAll DEF Session
      <4> QED BY <1>7, <2>3, <4>1, <4>3, <4>4
    <3> QED BY <1>4, <1>7, <2>3, <3>1, <3>2
  <2>4. Withdraws(n, e)
    BY <2>3 DEF Withdraws
  <2>5. Compares(n, e)
    <3> SUFFICES ASSUME n.pc = "judge", ReadAlike(First(n))
                 PROVE  IF First(n) \in n.passed
                        THEN \E v \in Versions : e.findings[First(n)] = Verify(First(n), v, e.type[First(n)])
                        ELSE n.loaded = e.findings[First(n)]
      BY DEF Compares
    <3> DEFINE d == First(n)
    <3>1. d \in Documents /\ q.pc = "judge" /\ d = First(q) /\ n.passed = q.passed \cup DOMAIN r.work.findings
      BY <1>6, <1>7, <1>8
    <3>2. IF d \in q.passed THEN \E v \in Versions : c.findings[d] = Verify(d, v, c.type[d])
          ELSE q.loaded = c.findings[d]
      BY <2>1, <3>1 DEF Compares
    <3> HIDE DEF d
    <3>3. CASE d \in DOMAIN r.work.findings
      <4>1. d \in DOMAIN r.read
        BY <1>1, <3>1, <3>3, EvidenceAssumption
      <4>2. d \in DOMAIN r.held
        BY <1>1, <4>1 DEF Told, OwnRead
      <4>3. r.work.findings[d] = Verify(d, r.version, c.type[d])
        BY <2>1, <4>1, <4>2 DEF Concludes, Says, HeldNow, d
      <4>4. e.findings[d] = Verify(d, r.version, e.type[d]) /\ r.version \in Versions /\ d \in n.passed
        BY <1>1, <1>4, <3>1, <3>3, <4>3 DEF Session
      <4> QED BY <4>4 DEF d
    <3>4. CASE d \notin DOMAIN r.work.findings
      <4>1. e.findings[d] = c.findings[d] /\ (d \in n.passed <=> d \in q.passed)
        BY <1>4, <3>1, <3>4
      <4> QED BY <1>4, <1>7, <3>2, <4>1 DEF d
    <3> QED BY <3>3, <3>4
  <2> QED BY <2>2, <2>4, <2>5
<1> QED BY <1>9, <1>10 DEF Told, n, e

LEMMA CommitTold == ASSUME IInv, HInv, NEW s \in Sessions, Commit(s) PROVE HInv'
<1> DEFINE r == session[s]
           c == Served
<1>1. /\ r \in Session /\ Told(r, c) /\ r.pc = "commit" /\ Project \notin DOMAIN r.read
      /\ DOMAIN r.work.findings \subseteq DOMAIN r.read \cup {Project}
      /\ DOMAIN r.read \subseteq DOMAIN r.work.findings
      /\ DOMAIN r.work.derived \subseteq DOMAIN r.read
  BY ActingTold DEF Commit, Told, OwnRead, Sound, ReadWhole
<1>2. /\ facts' = facts \cup r.work.facts /\ withdrawn' = withdrawn \cup r.work.withdrawn
      /\ UNCHANGED <<type, reviews>>
      /\ \A d \in Documents :
            /\ derived'[d] = IF d \in DOMAIN r.work.derived THEN r.work.derived[d] ELSE derived[d]
            /\ findings'[d] = IF d \in DOMAIN r.work.findings THEN r.work.findings[d] ELSE findings[d]
            /\ read'[d] = IF d \in DOMAIN r.read THEN [r.read[d] EXCEPT !.steady = r.steady] ELSE read[d]
      /\ session' = [o \in Sessions |-> IF o = s THEN Idle ELSE Overtaken(o, r.work)]
  BY CommitIs
<1>3. /\ session'[s] = Idle /\ Idle.pc = "idle"
      /\ \A o \in Sessions : o # s => session'[o].pc = session[o].pc /\ session'[o].steady = session[o].steady
  <2>1. \A o \in Sessions : session[o] \in Session
    BY DEF IInv, SessionsSound
  <2>2. Idle.pc = "idle"
    BY DEF Idle
  <2>3. ASSUME NEW o \in Sessions, o # s
        PROVE  session'[o].pc = session[o].pc /\ session'[o].steady = session[o].steady
    BY <1>2, <2>1, <2>3 DEF Overtaken, Session
  <2> QED BY <1>2, <2>2, <2>3
<1>4. OpenAlike'
  BY <1>3 DEF HInv, OpenAlike
<1>5. \A o \in Sessions : Told(session'[o], Served')
  BY <1>3, OvertakenTold, IdleTold
<1>6. ReviewedAsShown'
  BY <1>2 DEF HInv, ReviewedAsShown
<1>7. CommittedTold'
  <2> SUFFICES ASSUME NEW d \in Documents, ReadAlike(d), ReadSteadily(d)'
               PROVE  Settles(d, read[d].version, read[d].type)'
    BY DEF CommittedTold, Undisturbed
  <2> DEFINE v == read'[d].version
             t == read'[d].type
  <2>0. SUFFICES /\ findings'[d] = Verify(d, v, t)
                 /\ ShareOf(d, v, t) # 0 => derived'[d] = ShareOf(d, v, t)
                 /\ \A k \in facts' \ withdrawn' : k.doc = d => k.type \notin SuppressedTypes(d, v, t)
    <3>1. d \in DOMAIN derived'
      <4>1. IInv'
        BY CommitStep
      <4> QED BY <4>1 DEF IInv, TypeOK
    <3> QED BY <3>1 DEF Settles, Says, Verify, ShareOf, SuppressedTypes, Suppresses, Emitted
  <2>1. CASE d \in DOMAIN r.read
    <3>1. r.read[d] \in ReadRow
      BY <1>1, <2>1, PartialFnDef DEF Session
    <3>2. read'[d] = [r.read[d] EXCEPT !.steady = r.steady]
      BY <1>2, <2>1
    <3>3. r.steady /\ v = r.read[d].version /\ t = r.read[d].type
      BY <3>1, <3>2 DEF ReadSteadily, ReadRow
    <3>4. v = r.version /\ t = r.held[d].type /\ Withdraws(r, c) /\ Concludes(r)
      BY <1>1, <2>1, <3>3 DEF Told, OwnRead
    <3> HIDE DEF v, t
    <3>5. Says(r.work, d, v, t)
      BY <2>1, <3>4 DEF Concludes
    <3>6. findings'[d] = Verify(d, v, t) /\ (ShareOf(d, v, t) # 0 => derived'[d] = ShareOf(d, v, t))
      BY <1>1, <1>2, <2>1, <3>5 DEF Says
    <3>7. ASSUME NEW k \in facts' \ withdrawn', k.doc = d, k.type \in SuppressedTypes(d, v, t) PROVE FALSE
      <4>1. d \in Treated(r) /\ Gone(r, c, d) = withdrawn'
        BY <1>1, <1>2, <2>1, ServedIs DEF Treated, Gone
      <4>2. k \in Gone(r, c, d)
        BY <1>2, <3>4, <3>7, <4>1, ServedIs DEF Withdraws
      <4> QED BY <3>7, <4>1, <4>2
    <3> QED BY <3>6, <3>7
  <2>2. CASE d \notin DOMAIN r.read
    <3>1. read'[d] = read[d] /\ derived'[d] = derived[d] /\ findings'[d] = findings[d]
      BY <1>1, <1>2, <2>2, EvidenceAssumption
    <3>2. \A k \in facts' : k.doc = d => k \in facts
      BY <1>1, <1>2, <2>2 DEF Told, OwnRead
    <3>3. Settles(d, v, t)
      BY <3>1 DEF HInv, CommittedTold, Undisturbed, ReadSteadily
    <3> HIDE DEF v, t
    <3> QED BY <1>2, <3>1, <3>2, <3>3 DEF Settles, Says
  <2> QED BY <2>1, <2>2
<1> QED BY <1>4, <1>5, <1>6, <1>7 DEF HInv

-----------------------------------------------------------------------------
(* People *)

LEMMA ConfirmTold == ASSUME IInv, HInv, NEW d \in Documents, Confirm(d) PROVE HInv'
<1> USE DEF corpus
<1>1. session' = [s \in Sessions |-> [session[s] EXCEPT !.steady = session[s].pc = "idle"]]
      /\ UNCHANGED <<state, facts, withdrawn, derived, findings, reviews, deployed, read>>
  BY DEF Confirm
<1>2. ASSUME NEW s \in Sessions
      PROVE  /\ session'[s].pc = session[s].pc /\ (session'[s].pc # "idle" => ~ session'[s].steady)
             /\ OwnRead(session'[s])
  <2> DEFINE r == session[s]
             n == session'[s]
             calm == r.pc = "idle"
  <2>1. r \in Session /\ OwnRead(r)
    BY ActingTold DEF Told
  <2>2. n = [r EXCEPT !.steady = calm]
    BY <1>1
  <2> HIDE DEF r, n
  <2>3. /\ n.pc = r.pc /\ n.version = r.version /\ n.rest = r.rest /\ n.held = r.held
        /\ n.work = r.work /\ n.read = r.read /\ n.steady = calm
    BY <2>1, <2>2 DEF Session
  <2>4. OwnRead(n)
    BY <2>1, <2>3 DEF OwnRead, First
  <2> QED BY <2>3, <2>4 DEF r, n
<1>3. \A s \in Sessions : Told(session'[s], Served')
  BY <1>2 DEF Told
<1>4. OpenAlike'
  <2>1. \A s \in Sessions : session'[s].steady \in BOOLEAN
    <3>1. IInv'
      BY ConfirmStep
    <3> QED BY <3>1 DEF IInv, SessionsSound, Session
  <2> QED BY <1>2, <2>1 DEF OpenAlike
<1>5. CommittedTold' /\ ReviewedAsShown'
  BY <1>1 DEF HInv, CommittedTold, ReviewedAsShown, Undisturbed, ReadSteadily, Settles
<1> QED BY <1>3, <1>4, <1>5 DEF HInv

\* What no session, and no row, is changed by.
LEMMA UnchangedTold ==
    ASSUME HInv, UNCHANGED <<type, facts, withdrawn, derived, findings, session, read>>, ReviewedAsShown'
    PROVE  HInv'
<1>1. Served' = Served
  BY DEF Served
<1>2. OpenAlike' /\ CommittedTold'
  BY DEF HInv, OpenAlike, CommittedTold, Undisturbed, ReadSteadily, Settles
<1> QED BY <1>1, <1>2 DEF HInv

LEMMA UpgradeTold == ASSUME HInv, Upgrade PROVE HInv'
BY UnchangedTold DEF Upgrade, corpus, HInv, ReviewedAsShown

\* What is shown of an undisturbed document is what its finding is bound to.
LEMMA ShownIsPrint ==
    ASSUME IInv, HInv, NEW d \in Documents, Undisturbed(d)
    PROVE  findings[d].print = Shown(d)
<1> DEFINE v == read[d].version
           t == read[d].type
           f == findings[d]
           share == ShareOf(d, v, t)
<1>1. v \in Versions
  BY DEF IInv, HistoryTyped, Undisturbed, ReadSteadily, ReadRow
<1>2. f = Verify(d, v, t) /\ (share # 0 => derived[d] = share)
  BY DEF HInv, CommittedTold, Settles, Says
<1>3. Shown(d) = [outcome |-> f.outcome, shares |-> {<<x, derived[x]>> : x \in f.cites}]
  BY DEF Shown
<1> HIDE DEF v, t, f
<1>4. f.cites = IF share = 0 THEN {} ELSE {d}
  BY <1>1, <1>2, VerifiedCites
<1>5. f.print = [outcome |-> f.outcome, shares |-> IF share = 0 THEN {} ELSE {<<d, share>>}]
  BY <1>1, <1>2, VerifiedPrint
<1> HIDE DEF share
<1>6. {<<x, derived[x]>> : x \in f.cites} = IF share = 0 THEN {} ELSE {<<d, share>>}
  BY <1>2, <1>4
<1> QED BY <1>3, <1>5, <1>6 DEF f

LEMMA RecordReviewTold == ASSUME IInv, HInv, NEW f \in Subjects, RecordReview(f) PROVE HInv'
<1> DEFINE review == [print |-> findings[f].print, shown |-> Shown(f),
                      steady |-> f \in Documents /\ ReadSteadily(f)]
<1>1. reviews' = [reviews EXCEPT ![f] = @ \cup {review}]
      /\ UNCHANGED <<type, facts, withdrawn, derived, findings, session, read>>
  BY DEF RecordReview
<1>2. ASSUME NEW d \in Documents, ReadAlike(d), NEW r \in reviews'[d], r.steady
      PROVE  r.print = r.shown
  <2>1. CASE r \in reviews[d]
    BY <1>2, <2>1 DEF HInv, ReviewedAsShown
  <2>2. CASE r = review /\ f = d
    <3>1. Undisturbed(d)
      BY <1>2, <2>2 DEF Undisturbed
    <3> QED BY <2>2, <3>1, ShownIsPrint
  <2>3. r \in reviews[d] \/ (r = review /\ f = d)
    <3> HIDE DEF review
    <3>1. d \in DOMAIN reviews
      BY DEF IInv, HistoryTyped, Subjects
    <3> QED BY <1>1, <1>2, <3>1
  <2> QED BY <2>1, <2>2, <2>3
<1>3. ReviewedAsShown'
  BY <1>2 DEF ReviewedAsShown, ReadAlike
<1> QED BY <1>1, <1>3, UnchangedTold

-----------------------------------------------------------------------------
(* Theorems *)

LEMMA InitTold == Init => HInv
<1> SUFFICES ASSUME Init PROVE HInv
  OBVIOUS
<1>1. \A s \in Sessions : session[s] = Idle /\ Told(session[s], Served)
  BY IdleTold DEF Init
<1>2. Idle.pc = "idle"
  BY DEF Idle
<1>3. OpenAlike
  BY <1>1, <1>2 DEF OpenAlike
<1>4. CommittedTold /\ ReviewedAsShown
  BY DEF Init, CommittedTold, ReviewedAsShown, Undisturbed, ReadSteadily, Subjects
<1> QED BY <1>1, <1>3, <1>4 DEF HInv

LEMMA StepTold == IInv /\ HInv /\ [Next]_vars => HInv'
<1> SUFFICES ASSUME IInv, HInv, [Next]_vars PROVE HInv'
  OBVIOUS
<1>1. CASE UNCHANGED vars
  BY <1>1, UnchangedTold DEF vars, corpus, HInv, ReviewedAsShown
<1>2. ASSUME NEW s \in Sessions,
             \/ Start(s) \/ Skip(s) \/ ReadDocument(s) \/ Withdraw(s) \/ Advance(s) \/ StoreFacts(s)
             \/ Judge(s) \/ LoadProject(s) \/ JudgeProject(s) \/ Commit(s)
             \/ FailInProject(s) \/ FailAlone(s) \/ RecordFailure(s) \/ Die(s)
      PROVE  HInv'
  BY <1>2, StartTold, SkipTold, ReadDocumentTold, WithdrawTold, AdvanceTold, StoreFactsTold, JudgeTold,
     LoadProjectTold, JudgeProjectTold, CommitTold, FailInProjectTold, FailAloneTold, RecordFailureTold, DieTold
<1> QED BY <1>1, <1>2, ConfirmTold, UpgradeTold, RecordReviewTold DEF Next

LEMMA TellsOfAll == Spec => []IInv /\ []HInv
BY Inductive, InitTold, StepTold, PTL DEF Spec

\* persist_retractions: after an undisturbed analysis that suppresses a type, no
\* fact of that type is served, whichever version wrote it and whatever sessions
\* ran beside it.
THEOREM NothingSuppressedIsServed == Spec => []SuppressedIsWithdrawn
<1>1. HInv => SuppressedIsWithdrawn
  BY DEF HInv, CommittedTold, Settles, SuppressedIsWithdrawn
<1> QED BY <1>1, TellsOfAll, PTL

\* persist_finding, persist_derived_facts: however analyses of two versions
\* overlap, the fingerprint of a finding describes the verdict and the shares
\* that are stored.
THEOREM FingerprintsAreTrue == Spec => []FingerprintsDescribeTheirRows
<1>1. IInv /\ HInv => FingerprintsDescribeTheirRows
  BY ShownIsPrint DEF FingerprintsDescribeTheirRows
<1> QED BY <1>1, TellsOfAll, PTL

\* Finding.current_review: a review that counts was taken on what the finding
\* shows, however many analyses came between.
THEOREM AcceptedAsShown == Spec => []AcceptanceIsOfWhatIsShown
<1>1. ASSUME IInv, HInv PROVE AcceptanceIsOfWhatIsShown
  <2> SUFFICES ASSUME NEW d \in Documents, Undisturbed(d), NEW r \in Current_review(d), r.steady
               PROVE  r.shown = Shown(d)
    BY DEF AcceptanceIsOfWhatIsShown
  <2>1. r \in reviews[d] /\ r.print = findings[d].print
    BY DEF Current_review
  <2>2. r.print = r.shown
    BY <1>1, <2>1 DEF HInv, ReviewedAsShown, Undisturbed
  <2> QED BY <1>1, <2>1, <2>2, ShownIsPrint
<1> QED BY <1>1, TellsOfAll, PTL

===============================================================================
