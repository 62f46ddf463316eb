------------------------- MODULE ProjectRecordProofs -------------------------
(***************************************************************************)
(* Theorems of ProjectRecord, for any documents, operators and numbers of  *)
(* transactions: a reference has one project, reconciliation groups by     *)
(* what documents state and where they came from, it records every pair of *)
(* a group though others group at the same time, and what is superseded    *)
(* never counts again.                                                     *)
(***************************************************************************)
EXTENDS ProjectRecord, FiniteSetTheorems, TLAPS

\* References as projects have them.
NormalRefs == {Normalised[x] : x \in Spellings}

Keyed == [source : Sources, ref : NormalRefs \cup {None}]

\* Row p of the projects is the one for key k.
IsFor(p, k) ==
    p \in DOMAIN projects /\ projects[p].source = k.source /\ projects[p].ref = k.ref

\* What document d was grouped by holds of d.
ReadFrom(row, d) ==
    /\ row.source \in Sources
    /\ \E o \in origins : o[1] = d /\ o[2] = row.source
    /\ \E f \in IdentifierFacts : f[1] = d /\ row.ref = Reference(f)

SoundReading(t) ==
    /\ DOMAIN t.reading \subseteq Documents
    /\ \A d \in DOMAIN t.reading : ReadFrom(t.reading[d], d)

\* What each kind of transaction has looked up stays true while it waits.
CreateSound(t) ==
    t.pc = "create" => t.source \in Sources /\ t.ref \in NormalRefs \cup {None}

AttachSound(t) ==
    t.pc = "attach" => t.project \in DOMAIN projects /\ t.upload \in Documents \X Sources \X Uploaders

IdentifySound(t) == t.pc = "identify" => SoundReading(t)

ReconcileSound(t) ==
    t.pc = "reconcile" =>
        /\ SoundReading(t)
        /\ \A d \in DOMAIN t.reading :
             t.project[d] # None => IsFor(t.project[d], GroupKey(t.reading, d))
        /\ t.joining \subseteq DOMAIN t.reading
        /\ \A x \in t.pairs :
             /\ x.from \in DOMAIN t.reading /\ x.to \in DOMAIN t.reading
             /\ x.type \in RelationTypes \ {"supersedes"}

SupersedeSound(t) ==
    t.pc = "supersede" =>
        /\ t.from \in Documents /\ t.to \in Documents /\ t.project \in DOMAIN projects
        /\ t.recorded => Related(t.from, t.to, "supersedes")
        /\ t.contradicted => Related(t.to, t.from, "supersedes")

LinkSound(t) ==
    t.pc = "link" =>
        /\ t.project \in DOMAIN projects
        /\ DOMAIN t.loaded \subseteq Rows
        /\ \A r \in DOMAIN t.loaded : t.items[r] = <<t.project, r[2]>>
        /\ \A x \in t.missing : \E r \in Rows : x = <<t.project, r[2]>>

SoundTransaction(t) ==
    /\ CreateSound(t) /\ AttachSound(t) /\ IdentifySound(t)
    /\ ReconcileSound(t) /\ SupersedeSound(t) /\ LinkSound(t)

SessionsSound ==
    /\ DOMAIN session = Operators
    /\ \A o \in Operators : SoundTransaction(session[o])

\* No two rows have one source and one reference.
KeysAreUnique ==
    /\ projects \in Seq(Keyed)
    /\ \A p, q \in DOMAIN projects :
         projects[p] = projects[q] /\ projects[p].ref # None => p = q

IInv == TypeOK /\ SessionsSound /\ KeysAreUnique /\ GroupedByEvidence /\ SupersededIsOut

\* Rows, relations and origins are added and never removed or changed.
Grows ==
    /\ \A p \in DOMAIN projects : p \in DOMAIN projects' /\ projects'[p] = projects[p]
    /\ relations \subseteq relations'
    /\ origins \subseteq origins'

-----------------------------------------------------------------------------
(* Lists of sets and references *)

\* SetToSeq lists every element of a finite set once.
LEMMA SetToSeqLists ==
    ASSUME NEW S, IsFiniteSet(S)
    PROVE  /\ SetToSeq(S) \in Seq(S)
           /\ \A i, j \in DOMAIN SetToSeq(S) : SetToSeq(S)[i] = SetToSeq(S)[j] => i = j
           /\ \A x \in S : \E i \in DOMAIN SetToSeq(S) : SetToSeq(S)[i] = x
<1>. DEFINE n == Cardinality(S)
            D == 1..Cardinality(S)
<1>1. n \in Nat /\ ExistsBijection(D, S)
  BY FS_CardinalityType
<1>2. PICK f : f \in Bijection(D, S)
  BY <1>1 DEF ExistsBijection
<1>3. f \in [D -> S] /\ IsInjective(f)
  BY <1>2 DEF Bijection, Injection, IsInjective
<1>4. SetToSeq(S) \in [D -> S] /\ IsInjective(SetToSeq(S))
  BY <1>3 DEF SetToSeq
<1>5. SetToSeq(S) \in Injection(D, S)
  BY <1>4 DEF Injection, IsInjective
<1>6. IsFiniteSet(D) /\ Cardinality(D) = n
  BY <1>1, FS_Interval
<1>7. SetToSeq(S) \in Surjection(D, S)
  BY <1>5, <1>6, FS_Injection
<1>8. SetToSeq(S) \in Seq(S)
  BY <1>1, <1>4
<1> QED BY <1>4, <1>7, <1>8 DEF Surjection, IsInjective

\* find_project finds a row for the key when there is one.
LEMMA FindsIt ==
    ASSUME NEW source, NEW ref, projects \in Seq(Keyed)
    PROVE  LET k == [source |-> source, ref |-> ref]
           IN  /\ FindProject(source, ref) # None => IsFor(FindProject(source, ref), k)
               /\ FindProject(source, ref) = None => \A p \in DOMAIN projects : ~ IsFor(p, k)
<1>1. CASE \E p \in DOMAIN projects : projects[p].source = source /\ projects[p].ref = ref
  <2>1. /\ FindProject(source, ref) \in DOMAIN projects
        /\ projects[FindProject(source, ref)].source = source
        /\ projects[FindProject(source, ref)].ref = ref
    BY <1>1 DEF FindProject
  <2>2. FindProject(source, ref) # None
    BY <2>1, RecordAssumption DEF RecordAssumption
  <2> QED BY <2>1, <2>2 DEF IsFor
<1>2. CASE ~ \E p \in DOMAIN projects : projects[p].source = source /\ projects[p].ref = ref
  BY <1>2 DEF FindProject, IsFor
<1> QED BY <1>1, <1>2

LEMMA NormalRefsAreNormal ==
    /\ NormalRefs \subseteq Spellings
    /\ None \notin NormalRefs
    /\ \A r \in NormalRefs : Normalised[r] = r
BY RecordAssumption DEF RecordAssumption, NormalRefs

LEMMA ReferenceIsNormal == \A f \in IdentifierFacts : Reference(f) \in NormalRefs
<1> SUFFICES ASSUME NEW f \in IdentifierFacts PROVE Reference(f) \in NormalRefs
  OBVIOUS
<1>1. f[1] \in Documents /\ f[2] \in FactTypes /\ f[3] \in Versions /\ Stated[f[1]][f[3]][f[2]] # None
  BY DEF IdentifierFacts
<1>2. Stated[f[1]][f[3]] \in [{"nit", "reference"} -> Spellings \cup {None}]
  BY <1>1, RecordAssumption DEF RecordAssumption
<1>3. Stated[f[1]][f[3]][f[2]] \in Spellings
  BY <1>1, <1>2 DEF FactTypes
<1> QED BY <1>3 DEF Reference, NormalRefs

LEMMA ReadRef ==
    ASSUME NEW row, NEW d \in Documents, ReadFrom(row, d)
    PROVE  row.ref \in NormalRefs /\ row.ref # None /\ row.source \in Sources
<1>1. PICK f \in IdentifierFacts : row.ref = Reference(f)
  BY DEF ReadFrom
<1>2. row.ref \in NormalRefs
  BY <1>1, ReferenceIsNormal
<1> QED BY <1>2, NormalRefsAreNormal DEF ReadFrom

\* What is unique in the keys is unique in the references.
LEMMA UniqueKeys == KeysAreUnique => OneProjectPerReference
<1> SUFFICES ASSUME KeysAreUnique, NEW p \in DOMAIN projects, NEW q \in DOMAIN projects,
                    projects[p].source = projects[q].source,
                    projects[p].ref # None, projects[q].ref # None,
                    Normalised[projects[p].ref] = Normalised[projects[q].ref]
             PROVE  p = q
  BY DEF OneProjectPerReference
<1>1. projects[p] \in Keyed /\ projects[q] \in Keyed
  BY DEF KeysAreUnique
<1>2. projects[p].ref = projects[q].ref
  BY <1>1, NormalRefsAreNormal DEF Keyed
<1>3. projects[p] = projects[q]
  BY <1>1, <1>2 DEF Keyed
<1> QED BY <1>3 DEF KeysAreUnique

-----------------------------------------------------------------------------
(* Sessions *)

\* A transaction that waits stays sound while rows are only added.
LEMMA WaitsSoundly ==
    ASSUME NEW o \in Operators, SoundTransaction(session[o]), Grows, session'[o] = session[o]
    PROVE  SoundTransaction(session[o])'
<1>1. CreateSound(session[o])' /\ AttachSound(session[o])'
  BY DEF SoundTransaction, CreateSound, AttachSound, Grows
<1>2. SoundReading(session[o]) => SoundReading(session[o])'
  BY DEF SoundReading, ReadFrom, Grows
<1>3. IdentifySound(session[o])'
  BY <1>2 DEF SoundTransaction, IdentifySound
<1>4. ReconcileSound(session[o])'
  BY <1>2 DEF SoundTransaction, ReconcileSound, IsFor, GroupKey, Grows
<1>5. SupersedeSound(session[o])' /\ LinkSound(session[o])'
  BY DEF SoundTransaction, SupersedeSound, LinkSound, Related, Grows
<1> QED BY <1>1, <1>3, <1>4, <1>5 DEF SoundTransaction

\* The others wait when o's session becomes v.
LEMMA OneMoves ==
    ASSUME NEW o \in Operators, SessionsSound, Grows, NEW v,
           session' = [session EXCEPT ![o] = v], SoundTransaction(session[o])'
    PROVE  SessionsSound'
<1>1. DOMAIN session' = Operators
  BY DEF SessionsSound
<1>2. ASSUME NEW x \in Operators \ {o} PROVE SoundTransaction(session[x])'
  BY <1>2, WaitsSoundly DEF SessionsSound
<1> QED BY <1>1, <1>2 DEF SessionsSound

LEMMA IdlesSoundly ==
    ASSUME NEW o \in Operators, SessionsSound, Grows, session' = [session EXCEPT ![o] = Idle]
    PROVE  SessionsSound'
<1>1. session'[o] = Idle
  BY DEF SessionsSound
<1>2. SoundTransaction(session[o])'
  BY <1>1 DEF Idle, SoundTransaction, CreateSound, AttachSound, IdentifySound, ReconcileSound,
              SupersedeSound, LinkSound
<1> QED BY <1>2, OneMoves

-----------------------------------------------------------------------------
(* The projects that a reconciliation adds *)

NewKeys(t) == {GroupKey(t.reading, d) : d \in {x \in DOMAIN t.reading : t.project[x] = None}}

LEMMA AddedRows ==
    ASSUME NEW t, SoundReading(t)
    PROVE  /\ SetToSeq(NewKeys(t)) \in Seq(Keyed)
           /\ \A i \in DOMAIN SetToSeq(NewKeys(t)) :
                SetToSeq(NewKeys(t))[i] \in NewKeys(t)
           /\ \A i, j \in DOMAIN SetToSeq(NewKeys(t)) :
                SetToSeq(NewKeys(t))[i] = SetToSeq(NewKeys(t))[j] => i = j
           /\ \A k \in NewKeys(t) : k.ref # None
           /\ \A k \in NewKeys(t) : \E i \in DOMAIN SetToSeq(NewKeys(t)) : SetToSeq(NewKeys(t))[i] = k
<1>. DEFINE D == {x \in DOMAIN t.reading : t.project[x] = None}
            f == [d \in D |-> GroupKey(t.reading, d)]
<1>1. IsFiniteSet(D)
  BY RecordAssumption, FS_Subset DEF RecordAssumption, SoundReading
<1>2. f \in Surjection(D, NewKeys(t))
  BY DEF Surjection, NewKeys
<1>3. IsFiniteSet(NewKeys(t))
  BY <1>1, <1>2, FS_Surjection
<1>4. \A k \in NewKeys(t) : k \in Keyed /\ k.ref # None
  <2> SUFFICES ASSUME NEW d \in D
               PROVE  GroupKey(t.reading, d) \in Keyed /\ GroupKey(t.reading, d).ref # None
    BY DEF NewKeys
  <2>1. d \in Documents /\ ReadFrom(t.reading[d], d)
    BY DEF SoundReading
  <2>2. t.reading[d].ref \in NormalRefs /\ t.reading[d].ref # None /\ t.reading[d].source \in Sources
    BY <2>1, ReadRef
  <2> QED BY <2>2 DEF GroupKey, Keyed
<1>. DEFINE s == SetToSeq(NewKeys(t))
<1>5. /\ s \in Seq(NewKeys(t))
      /\ \A i, j \in DOMAIN s : s[i] = s[j] => i = j
      /\ \A k \in NewKeys(t) : \E i \in DOMAIN s : s[i] = k
  BY <1>3, SetToSeqLists
<1>. HIDE DEF s
<1>6. \A i \in DOMAIN s : s[i] \in NewKeys(t)
  BY <1>5
<1>7. s \in Seq(Keyed)
  BY <1>4, <1>5, <1>6
<1> QED BY <1>4, <1>5, <1>6, <1>7 DEF s

\* What a reconciliation that commits does.
LEMMA Reconciles ==
    ASSUME NEW o \in Operators, SaveReconciled(o)
    PROVE  \/ Abort(o)
           \/ /\ \A k \in NewKeys(session[o]) : FindProject(k.source, k.ref) = None
              /\ projects' = projects \o SetToSeq(NewKeys(session[o]))
              /\ members' = members \cup
                   {[project |-> IdOf(session[o], SetToSeq(NewKeys(session[o])), d),
                     doc |-> d, by |-> "shared_fact"] : d \in session[o].joining}
              /\ relations' = relations \cup
                   {[project |-> IdOf(session[o], SetToSeq(NewKeys(session[o])), x.from),
                     from |-> x.from, to |-> x.to, type |-> x.type] : x \in session[o].pairs}
              /\ UNCHANGED <<origins, versionState, items, anchor>>
              /\ Commit(o)
BY DEF SaveReconciled, NewKeys

-----------------------------------------------------------------------------
(* Growth *)

\* Nothing that is on record is changed.
LEMMA GrowthStep ==
    ASSUME TypeOK, SessionsSound, [Next]_vars
    PROVE  Grows
<1>1. CASE projects' = projects /\ relations' = relations /\ origins' = origins
  BY <1>1 DEF Grows
<1>2. ASSUME NEW o \in Operators, SaveCreate(o) PROVE Grows
  <2>1. CASE projects' = projects /\ relations' = relations /\ origins' = origins
    BY <2>1, <1>1
  <2>2. CASE /\ projects' = Append(projects, [source |-> session[o].source, ref |-> session[o].ref])
             /\ relations' = relations /\ origins' = origins
    BY <2>2 DEF Grows, TypeOK
  <2> QED BY <1>2, <2>1, <2>2 DEF SaveCreate, Abort, record
<1>3. ASSUME NEW o \in Operators, SaveAttach(o) PROVE Grows
  BY <1>3 DEF SaveAttach, Abort, record, Grows
<1>4. ASSUME NEW o \in Operators, SaveReconciled(o) PROVE Grows
  <2>1. CASE Abort(o)
    BY <2>1 DEF Abort, record, Grows
  <2>2. CASE /\ projects' = projects \o SetToSeq(NewKeys(session[o]))
             /\ relations \subseteq relations' /\ origins' = origins
    <3>1. SoundReading(session[o])
      BY <1>4 DEF SaveReconciled, SessionsSound, SoundTransaction, ReconcileSound
    <3>2. SetToSeq(NewKeys(session[o])) \in Seq(Keyed)
      BY <3>1, AddedRows
    <3> QED BY <2>2, <3>2 DEF Grows, TypeOK
  <2> QED BY <1>4, <2>1, <2>2, Reconciles
<1>5. ASSUME NEW o \in Operators, SaveSupersede(o) PROVE Grows
  BY <1>5 DEF SaveSupersede, Abort, record, Grows
<1>6. ASSUME NEW o \in Operators,
             \/ BeginCreate(o) \/ BeginAttach(o) \/ Identify(o) \/ LookUp(o)
             \/ BeginSupersede(o) \/ BeginLink(o) \/ SaveLink(o)
      PROVE  projects' = projects /\ relations' = relations /\ origins' = origins
  BY <1>6 DEF BeginCreate, BeginAttach, Identify, LookUp, BeginSupersede, BeginLink, SaveLink,
     Begin, Abort, record
<1>7. CASE (\E d \in Documents, v \in Versions : Analyse(d, v)) \/ (\E f \in IdentifierFacts : Retract(f)) \/ UNCHANGED vars
  BY <1>1, <1>7 DEF Analyse, Retract, vars, record
<1> QED BY <1>1, <1>2, <1>3, <1>4, <1>5, <1>6, <1>7 DEF Next

-----------------------------------------------------------------------------
(* What transactions look up *)

LEMMA SessionStep ==
    ASSUME TypeOK, SessionsSound, KeysAreUnique, [Next]_vars
    PROVE  SessionsSound'
<1>0. Grows
  BY GrowthStep
<1> USE DEF Begin, record
<1>1. ASSUME NEW o \in Operators, BeginCreate(o) PROVE SessionsSound'
  <2>1. PICK source \in Sources, spelling \in Spellings \cup {None} :
          session' = [session EXCEPT ![o] =
            [pc |-> "create", source |-> source, ref |-> ReferenceOf(spelling)]]
    BY <1>1 DEF BeginCreate
  <2>2. ReferenceOf(spelling) \in NormalRefs \cup {None}
    BY DEF ReferenceOf, NormalRefs
  <2>3. SoundTransaction(session[o])'
    BY <2>1, <2>2 DEF SessionsSound, SoundTransaction, CreateSound, AttachSound, IdentifySound,
       ReconcileSound, SupersedeSound, LinkSound
  <2> QED BY <1>0, <2>1, <2>3, OneMoves
<1>2. ASSUME NEW o \in Operators, BeginAttach(o) PROVE SessionsSound'
  <2>0. PICK p \in DOMAIN projects, upload \in Documents \X Sources \X Uploaders :
          Begin(o, [pc |-> "attach", project |-> p, upload |-> upload,
                    uploaded |-> upload \in origins, belongs |-> Belongs(p, upload[1])])
    BY <1>2, Zenon DEF BeginAttach
  <2>1. /\ projects' = projects
        /\ session' = [session EXCEPT ![o] =
             [pc |-> "attach", project |-> p, upload |-> upload,
              uploaded |-> upload \in origins, belongs |-> Belongs(p, upload[1])]]
    BY <2>0
  <2>2. SoundTransaction(session[o])'
    BY <2>1 DEF SessionsSound, SoundTransaction, CreateSound, AttachSound, IdentifySound,
       ReconcileSound, SupersedeSound, LinkSound
  <2> QED BY <1>0, <2>1, <2>2, OneMoves
<1>3. ASSUME NEW o \in Operators, Identify(o) PROVE SessionsSound'
  <2>1. PICK reading \in Readings :
          session' = [session EXCEPT ![o] = [pc |-> "identify", reading |-> reading]]
    BY <1>3 DEF Identify
  <2>2. DOMAIN reading \subseteq Documents /\ \A d \in DOMAIN reading : reading[d] \in JoinRows(d)
    BY DEF Readings, BestRows
  <2>3. ASSUME NEW d \in DOMAIN reading PROVE ReadFrom(reading[d], d)
    <3>1. PICK f \in standing, x \in origins :
            /\ f[1] = d /\ x[1] = d
            /\ reading[d] = [type |-> f[2], source |-> x[2], ref |-> Reference(f)]
      BY <2>2 DEF JoinRows
    <3>2. x[2] \in Sources
      BY <3>1 DEF TypeOK, Origin
    <3>3. f \in IdentifierFacts
      BY <3>1 DEF TypeOK
    <3> QED BY <3>1, <3>2, <3>3 DEF ReadFrom
  <2>4. origins' = origins
    BY <1>3 DEF Identify
  <2>5. session'[o] = [pc |-> "identify", reading |-> reading]
    BY <2>1 DEF SessionsSound
  <2>6. SoundReading(session[o])'
    BY <2>2, <2>3, <2>4, <2>5 DEF SoundReading, ReadFrom
  <2>7. SoundTransaction(session[o])'
    BY <2>5, <2>6 DEF SoundTransaction, CreateSound, AttachSound, IdentifySound,
       ReconcileSound, SupersedeSound, LinkSound
  <2> QED BY <1>0, <2>1, <2>7, OneMoves
<1>4. ASSUME NEW o \in Operators, LookUp(o) PROVE SessionsSound'
  <2>. DEFINE reading == session[o].reading
             project == [d \in DOMAIN reading |->
                           FindProject(GroupKey(reading, d).source, GroupKey(reading, d).ref)]
  <2>1. PICK type \in [DOMAIN reading -> FactTypes] :
          session' = [session EXCEPT ![o] =
             [pc |-> "reconcile", reading |-> reading, project |-> project,
              joining |-> {d \in DOMAIN reading : ~ Belongs(project[d], d)},
              pairs |-> {x \in Pairs(reading, type) : ~ Related(x.from, x.to, x.type)}]]
    BY <1>4 DEF LookUp
  <2>2. SoundReading(session[o])
    BY <1>4 DEF LookUp, SessionsSound, SoundTransaction, IdentifySound
  <2>3. projects' = projects /\ origins' = origins
    BY <1>4 DEF LookUp
  <2>4. /\ session'[o].pc = "reconcile" /\ session'[o].reading = reading
        /\ session'[o].project = project
        /\ session'[o].joining = {d \in DOMAIN reading : ~ Belongs(project[d], d)}
        /\ session'[o].pairs = {x \in Pairs(reading, type) : ~ Related(x.from, x.to, x.type)}
    BY <2>1 DEF SessionsSound
  <2>5. SoundReading(session[o])'
    BY <2>2, <2>3, <2>4 DEF SoundReading, ReadFrom
  <2>6. \A d \in DOMAIN reading : project[d] # None => IsFor(project[d], GroupKey(reading, d))
    BY FindsIt DEF GroupKey, KeysAreUnique
  <2>7. \A x \in Pairs(reading, type) :
          /\ x.from \in DOMAIN reading /\ x.to \in DOMAIN reading
          /\ x.type \in RelationTypes \ {"supersedes"}
    BY DEF Pairs, RelationshipForKey, RelationTypes
  <2>. HIDE DEF project
  <2>8. ReconcileSound(session[o])'
    BY <2>3, <2>4, <2>5, <2>6, <2>7 DEF ReconcileSound, IsFor, GroupKey
  <2>9. SoundTransaction(session[o])'
    BY <2>4, <2>8 DEF SoundTransaction, CreateSound, AttachSound, IdentifySound,
       SupersedeSound, LinkSound
  <2> QED BY <1>0, <2>1, <2>9, OneMoves
<1>5. ASSUME NEW o \in Operators, BeginSupersede(o) PROVE SessionsSound'
  <2>1. PICK a \in Documents, b \in Documents : \E p \in SharedProjects(a, b) :
          Begin(o, [pc |-> "supersede", from |-> a, to |-> b, project |-> p,
                    recorded |-> Related(a, b, "supersedes"),
                    contradicted |-> Related(b, a, "supersedes")])
    BY <1>5 DEF BeginSupersede
  <2>2. PICK p \in DOMAIN projects :
          /\ projects' = projects /\ relations' = relations
          /\ session' = [session EXCEPT ![o] =
               [pc |-> "supersede", from |-> a, to |-> b, project |-> p,
                recorded |-> Related(a, b, "supersedes"),
                contradicted |-> Related(b, a, "supersedes")]]
    BY <2>1 DEF SharedProjects
  <2>3. SoundTransaction(session[o])'
    BY <2>2 DEF SessionsSound, SoundTransaction, CreateSound, AttachSound, IdentifySound,
       ReconcileSound, SupersedeSound, LinkSound, Related
  <2> QED BY <1>0, <2>2, <2>3, OneMoves
<1>6. ASSUME NEW o \in Operators, BeginLink(o) PROVE SessionsSound'
  <2>1. PICK p \in DOMAIN projects :
          LET rows == {r \in Rows : Belongs(p, r[1])}
          IN  /\ projects' = projects
              /\ session' = [session EXCEPT ![o] =
                   [pc |-> "link", project |-> p, loaded |-> [r \in rows |-> anchor[r]],
                    items |-> [r \in rows |-> ItemOf(p, r[2])],
                    missing |-> {ItemOf(p, r[2]) : r \in rows} \ items]]
    BY <1>6 DEF BeginLink
  <2>2. SoundTransaction(session[o])'
    BY <2>1 DEF SessionsSound, SoundTransaction, CreateSound, AttachSound, IdentifySound,
       ReconcileSound, SupersedeSound, LinkSound, ItemOf
  <2> QED BY <1>0, <2>1, <2>2, OneMoves
<1>7. ASSUME NEW o \in Operators,
             \/ SaveCreate(o) \/ SaveAttach(o) \/ SaveReconciled(o) \/ SaveSupersede(o) \/ SaveLink(o)
      PROVE  SessionsSound'
  <2>1. session' = [session EXCEPT ![o] = Idle]
    BY <1>7 DEF SaveCreate, SaveAttach, SaveReconciled, SaveSupersede, SaveLink, Abort, Commit
  <2> QED BY <1>0, <2>1, IdlesSoundly
<1>8. CASE (\E d \in Documents, v \in Versions : Analyse(d, v)) \/ (\E f \in IdentifierFacts : Retract(f)) \/ UNCHANGED vars
  <2>1. session' = session
    BY <1>8 DEF Analyse, Retract, vars
  <2> QED BY <1>0, <2>1, WaitsSoundly DEF SessionsSound
<1> QED BY <1>1, <1>2, <1>3, <1>4, <1>5, <1>6, <1>7, <1>8 DEF Next

-----------------------------------------------------------------------------
(* Keys *)

\* A project is added only for a key that no project has.
LEMMA KeysStep ==
    ASSUME TypeOK, SessionsSound, KeysAreUnique, [Next]_vars
    PROVE  KeysAreUnique'
<1>1. CASE projects' = projects
  BY <1>1 DEF KeysAreUnique
<1>2. ASSUME NEW o \in Operators, SaveCreate(o) PROVE KeysAreUnique'
  <2>. DEFINE row == [source |-> session[o].source, ref |-> session[o].ref]
  <2>1. CASE projects' = projects
    BY <2>1, <1>1
  <2>2. CASE /\ ~ (row.ref # None /\ FindProject(row.source, row.ref) # None)
             /\ projects' = Append(projects, row)
    <3>1. row \in Keyed
      BY <1>2 DEF SaveCreate, SessionsSound, SoundTransaction, CreateSound, Keyed
    <3>2. row.ref # None => \A p \in DOMAIN projects : ~ IsFor(p, row)
      BY <2>2, FindsIt DEF KeysAreUnique
    <3>3. row.ref # None => \A p \in DOMAIN projects : projects[p] # row
      BY <3>2 DEF IsFor
    <3>. HIDE DEF row
    <3> QED BY <2>2, <3>1, <3>3 DEF KeysAreUnique
  <2> QED BY <1>2, <2>1, <2>2 DEF SaveCreate, Abort, record
<1>3. ASSUME NEW o \in Operators, SaveReconciled(o) PROVE KeysAreUnique'
  <2>. DEFINE t == session[o]
             s == SetToSeq(NewKeys(t))
  <2>1. CASE Abort(o)
    BY <2>1, <1>1 DEF Abort, record
  <2>2. CASE /\ \A k \in NewKeys(t) : FindProject(k.source, k.ref) = None
             /\ projects' = projects \o s
    <3>1. SoundReading(t)
      BY <1>3 DEF SaveReconciled, SessionsSound, SoundTransaction, ReconcileSound
    <3>2. /\ s \in Seq(Keyed)
          /\ \A i \in DOMAIN s : s[i] \in NewKeys(t)
          /\ \A i, j \in DOMAIN s : s[i] = s[j] => i = j
      BY <3>1, AddedRows
    <3>3. \A k \in NewKeys(t) : \A p \in DOMAIN projects : projects[p] # k
      BY <2>2, FindsIt DEF KeysAreUnique, IsFor
    <3>. HIDE DEF s
    <3>4. \A i \in DOMAIN s : \A p \in DOMAIN projects : projects[p] # s[i]
      BY <3>2, <3>3
    <3>5. projects' \in Seq(Keyed)
      BY <2>2, <3>2 DEF KeysAreUnique
    <3>6. DOMAIN projects' = 1..(Len(projects) + Len(s))
      BY <2>2, <3>2 DEF KeysAreUnique
    <3>7. /\ \A p \in DOMAIN projects : projects'[p] = projects[p]
          /\ \A p \in DOMAIN projects' : p \notin DOMAIN projects =>
                p - Len(projects) \in DOMAIN s /\ projects'[p] = s[p - Len(projects)]
      BY <2>2, <3>2, <3>6 DEF KeysAreUnique
    <3>8. ASSUME NEW p \in DOMAIN projects', NEW q \in DOMAIN projects',
                 projects'[p] = projects'[q], projects'[p].ref # None
          PROVE  p = q
      <4>1. CASE p \in DOMAIN projects /\ q \in DOMAIN projects
        BY <3>7, <3>8, <4>1 DEF KeysAreUnique
      <4>2. CASE p \in DOMAIN projects /\ q \notin DOMAIN projects
        BY <3>4, <3>7, <3>8, <4>2
      <4>3. CASE p \notin DOMAIN projects /\ q \in DOMAIN projects
        BY <3>4, <3>7, <3>8, <4>3
      <4>4. CASE p \notin DOMAIN projects /\ q \notin DOMAIN projects
        <5>1. p - Len(projects) = q - Len(projects)
          BY <3>2, <3>7, <3>8, <4>4
        <5>2. p \in Int /\ q \in Int /\ Len(projects) \in Nat
          BY <3>6, <3>8 DEF KeysAreUnique
        <5> QED BY <5>1, <5>2
      <4> QED BY <4>1, <4>2, <4>3, <4>4
    <3> QED BY <3>5, <3>8 DEF KeysAreUnique
  <2> QED BY <1>3, <2>1, <2>2, Reconciles
<1>4. ASSUME NEW o \in Operators,
             \/ BeginCreate(o) \/ BeginAttach(o) \/ SaveAttach(o) \/ Identify(o) \/ LookUp(o)
             \/ BeginSupersede(o) \/ SaveSupersede(o) \/ BeginLink(o) \/ SaveLink(o)
      PROVE  projects' = projects
  BY <1>4 DEF BeginCreate, BeginAttach, SaveAttach, Identify, LookUp, BeginSupersede,
     SaveSupersede, BeginLink, SaveLink, Begin, Abort, record
<1>5. CASE (\E d \in Documents, v \in Versions : Analyse(d, v)) \/ (\E f \in IdentifierFacts : Retract(f)) \/ UNCHANGED vars
  BY <1>1, <1>5 DEF Analyse, Retract, vars, record
<1> QED BY <1>1, <1>2, <1>3, <1>4, <1>5 DEF Next

\* The id that a reconciliation gives the group of d is that of its project.
LEMMA IdFits ==
    ASSUME NEW o \in Operators, KeysAreUnique, Grows,
           session[o].pc = "reconcile", ReconcileSound(session[o]),
           projects' = projects \o SetToSeq(NewKeys(session[o])),
           NEW d \in DOMAIN session[o].reading
    PROVE  LET p == IdOf(session[o], SetToSeq(NewKeys(session[o])), d)
           IN  /\ p \in DOMAIN projects'
               /\ projects'[p].source = session[o].reading[d].source
               /\ projects'[p].ref = session[o].reading[d].ref
<1>. DEFINE t == session[o]
            s == SetToSeq(NewKeys(t))
            k == GroupKey(t.reading, d)
<1>0. k.source = t.reading[d].source /\ k.ref = t.reading[d].ref
  BY DEF GroupKey
<1>1. CASE t.project[d] # None
  <2>1. IsFor(t.project[d], k)
    BY <1>1 DEF ReconcileSound
  <2> QED BY <1>0, <1>1, <2>1 DEF IdOf, IsFor, Grows
<1>2. CASE t.project[d] = None
  <2>1. k \in NewKeys(t) /\ SoundReading(t)
    BY <1>2 DEF NewKeys, ReconcileSound
  <2>2. s \in Seq(Keyed) /\ \E i \in DOMAIN s : s[i] = k
    BY <2>1, AddedRows
  <2>. DEFINE i == CHOOSE j \in DOMAIN s : s[j] = k
  <2>3. i \in DOMAIN s /\ s[i] = k
    BY <2>2
  <2>4. IdOf(t, s, d) = Len(projects) + i
    BY <1>2 DEF IdOf
  <2>. HIDE DEF i, s, k
  <2>5. Len(projects) + i \in DOMAIN projects' /\ projects'[Len(projects) + i] = s[i]
    BY <2>2, <2>3 DEF KeysAreUnique, s
  <2> QED BY <1>0, <2>3, <2>4, <2>5 DEF s
<1> QED BY <1>1, <1>2

-----------------------------------------------------------------------------
(* Types and properties *)

LEMMA TypeStep ==
    ASSUME IInv, [Next]_vars
    PROVE  TypeOK'
<1>0. TypeOK /\ SessionsSound /\ KeysAreUnique /\ Grows /\ KeysAreUnique'
  BY GrowthStep, KeysStep DEF IInv
<1>1. projects' \in Seq(ProjectRow)
  <2>1. Keyed \subseteq ProjectRow
    BY NormalRefsAreNormal DEF Keyed, ProjectRow
  <2> QED BY <1>0, <2>1 DEF KeysAreUnique
<1>2. DOMAIN projects \subseteq DOMAIN projects' /\ DOMAIN projects' \subseteq Nat
  BY <1>0, <1>1 DEF Grows
<1>3. CASE UNCHANGED <<members, relations, origins, versionState, items, anchor, standing, withdrawn>>
  BY <1>0, <1>1, <1>2, <1>3 DEF TypeOK
<1>4. ASSUME NEW o \in Operators, SaveAttach(o) PROVE TypeOK'
  <2>1. CASE Abort(o)
    BY <1>3, <2>1 DEF Abort, record
  <2>2. CASE ~ Abort(o)
    <3>. DEFINE upload == session[o].upload
    <3>1. session[o].project \in DOMAIN projects /\ upload \in Documents \X Sources \X Uploaders
      BY <1>0, <1>4 DEF SaveAttach, SessionsSound, SoundTransaction, AttachSound
    <3>2. /\ origins' = origins \cup {upload}
          /\ members' \subseteq members \cup
                {[project |-> session[o].project, doc |-> upload[1], by |-> "declared"]}
          /\ UNCHANGED <<relations, versionState, items, anchor, standing, withdrawn>>
      BY <1>4, <2>2 DEF SaveAttach, Commit
    <3>3. members' \subseteq Member /\ \A m \in members' : m.project \in DOMAIN projects'
      BY <1>0, <1>2, <3>1, <3>2 DEF TypeOK, Member
    <3>4. origins' \subseteq Origin
      BY <1>0, <3>1, <3>2 DEF TypeOK, Origin
    <3> QED BY <1>0, <1>1, <1>2, <3>2, <3>3, <3>4 DEF TypeOK
  <2> QED BY <2>1, <2>2
<1>5. ASSUME NEW o \in Operators, SaveReconciled(o) PROVE TypeOK'
  <2>1. CASE Abort(o)
    BY <1>3, <2>1 DEF Abort, record
  <2>2. CASE ~ Abort(o)
    <3>. DEFINE t == session[o]
               id(d) == IdOf(t, SetToSeq(NewKeys(t)), d)
    <3>1. t.pc = "reconcile" /\ ReconcileSound(t)
      BY <1>0, <1>5 DEF SaveReconciled, SessionsSound, SoundTransaction
    <3>2. /\ projects' = projects \o SetToSeq(NewKeys(t))
          /\ members' = members \cup {[project |-> id(d), doc |-> d, by |-> "shared_fact"] : d \in t.joining}
          /\ relations' = relations \cup
               {[project |-> id(x.from), from |-> x.from, to |-> x.to, type |-> x.type] : x \in t.pairs}
          /\ UNCHANGED <<origins, versionState, items, anchor, standing, withdrawn>>
      BY <1>5, <2>2, Reconciles DEF Commit
    <3>3. \A d \in DOMAIN t.reading : id(d) \in DOMAIN projects'
      BY <1>0, <3>1, <3>2, IdFits
    <3>. HIDE DEF id
    <3>4. members' \subseteq Member /\ \A m \in members' : m.project \in DOMAIN projects'
      BY <1>0, <1>2, <3>1, <3>2, <3>3 DEF TypeOK, Member, ReconcileSound, SoundReading
    <3>5. relations' \subseteq Relation
      BY <1>0, <1>2, <3>1, <3>2, <3>3 DEF TypeOK, Relation, RelationTypes, ReconcileSound, SoundReading
    <3> QED BY <1>0, <1>1, <1>2, <3>2, <3>4, <3>5 DEF TypeOK
  <2> QED BY <2>1, <2>2
<1>6. ASSUME NEW o \in Operators, SaveSupersede(o) PROVE TypeOK'
  <2>1. CASE Abort(o)
    BY <1>3, <2>1 DEF Abort, record
  <2>2. CASE ~ Abort(o)
    <3>. DEFINE t == session[o]
    <3>1. t.from \in Documents /\ t.to \in Documents /\ t.project \in DOMAIN projects
      BY <1>0, <1>6 DEF SaveSupersede, SessionsSound, SoundTransaction, SupersedeSound
    <3>2. /\ relations' \subseteq relations \cup
               {[project |-> t.project, from |-> t.from, to |-> t.to, type |-> "supersedes"]}
          /\ versionState' = Judged(t)
          /\ UNCHANGED <<members, origins, items, anchor, standing, withdrawn>>
      BY <1>6, <2>2 DEF SaveSupersede, Commit
    <3>3. versionState' \in [Documents -> {"active", "superseded", "unknown"}]
      BY <1>0, <3>1, <3>2 DEF Judged, TypeOK
    <3>4. relations' \subseteq Relation
      BY <1>0, <1>2, <3>1, <3>2 DEF TypeOK, Relation, RelationTypes
    <3> QED BY <1>0, <1>1, <1>2, <3>2, <3>3, <3>4 DEF TypeOK
  <2> QED BY <2>1, <2>2
<1>7. ASSUME NEW o \in Operators, SaveLink(o) PROVE TypeOK'
  <2>1. CASE Abort(o)
    BY <1>3, <2>1 DEF Abort, record
  <2>2. CASE ~ Abort(o)
    <3>. DEFINE t == session[o]
    <3>1. /\ t.project \in DOMAIN projects
          /\ \A r \in DOMAIN t.loaded : t.items[r] = <<t.project, r[2]>>
          /\ \A x \in t.missing : \E r \in Rows : x = <<t.project, r[2]>>
      BY <1>0, <1>7 DEF SaveLink, SessionsSound, SoundTransaction, LinkSound
    <3>2. /\ items' = items \cup t.missing
          /\ anchor' = [r \in Rows |->
                 IF r \in DOMAIN t.loaded /\ t.loaded[r] # t.items[r][1]
                 THEN t.items[r][1] ELSE anchor[r]]
          /\ UNCHANGED <<projects, members, relations, origins, versionState, standing, withdrawn>>
      BY <1>7, <2>2 DEF SaveLink, Commit
    <3>3. \A r \in Rows : r[2] \in UNION {RowKeys[d] : d \in Documents}
      BY DEF Rows
    <3>4. items' \subseteq (DOMAIN projects') \X UNION {RowKeys[d] : d \in Documents}
      BY <1>0, <3>1, <3>2, <3>3 DEF TypeOK
    <3>5. anchor' \in [Rows -> {None} \cup DOMAIN projects']
      BY <1>0, <3>1, <3>2 DEF TypeOK
    <3> QED BY <1>0, <1>1, <1>2, <3>2, <3>4, <3>5 DEF TypeOK
  <2> QED BY <2>1, <2>2
<1>8. ASSUME NEW o \in Operators,
             \/ BeginCreate(o) \/ SaveCreate(o) \/ BeginAttach(o) \/ Identify(o) \/ LookUp(o)
             \/ BeginSupersede(o) \/ BeginLink(o)
      PROVE  UNCHANGED <<members, relations, origins, versionState, items, anchor, standing, withdrawn>>
  BY <1>8 DEF BeginCreate, SaveCreate, BeginAttach, Identify, LookUp, BeginSupersede, BeginLink,
     Begin, Abort, Commit, record
<1>9. ASSUME NEW d \in Documents, NEW v \in Versions, Analyse(d, v) PROVE TypeOK'
  BY <1>0, <1>9 DEF Analyse, record, TypeOK
<1>10. ASSUME NEW f \in IdentifierFacts, Retract(f) PROVE TypeOK'
  BY <1>0, <1>10 DEF Retract, record, TypeOK, IdentifierFacts
<1>11. CASE UNCHANGED vars
  BY <1>3, <1>11 DEF vars, record
<1> QED BY <1>3, <1>4, <1>5, <1>6, <1>7, <1>8, <1>9, <1>10, <1>11 DEF Next

\* A member that reconciliation adds was read to state the reference of its
\* project, and to come from its source.
LEMMA GroupedStep ==
    ASSUME IInv, [Next]_vars
    PROVE  GroupedByEvidence'
<1>0. TypeOK /\ SessionsSound /\ KeysAreUnique /\ Grows /\ GroupedByEvidence
  BY GrowthStep DEF IInv
<1>1. ASSUME NEW m \in members, m.by = "shared_fact"
      PROVE  /\ \E x \in origins' : x[1] = m.doc /\ x[2] = projects'[m.project].source
             /\ \E f \in IdentifierFacts : f[1] = m.doc /\ Reference(f) = projects'[m.project].ref
  BY <1>0, <1>1 DEF GroupedByEvidence, Grows, TypeOK
<1>2. CASE members' = members
  BY <1>1, <1>2 DEF GroupedByEvidence
<1>3. ASSUME NEW o \in Operators, SaveAttach(o) PROVE GroupedByEvidence'
  <2>1. CASE members' = members
    BY <1>2, <2>1
  <2>2. CASE members' = members \cup
              {[project |-> session[o].project, doc |-> session[o].upload[1], by |-> "declared"]}
    BY <1>1, <2>2 DEF GroupedByEvidence
  <2> QED BY <1>3, <2>1, <2>2 DEF SaveAttach, Abort, record
<1>4. ASSUME NEW o \in Operators, SaveReconciled(o) PROVE GroupedByEvidence'
  <2>1. CASE Abort(o)
    BY <1>2, <2>1 DEF Abort, record
  <2>2. CASE ~ Abort(o)
    <3>. DEFINE t == session[o]
               id(d) == IdOf(t, SetToSeq(NewKeys(t)), d)
    <3>1. t.pc = "reconcile" /\ ReconcileSound(t)
      BY <1>0, <1>4 DEF SaveReconciled, SessionsSound, SoundTransaction
    <3>2. /\ projects' = projects \o SetToSeq(NewKeys(t))
          /\ members' = members \cup {[project |-> id(d), doc |-> d, by |-> "shared_fact"] : d \in t.joining}
          /\ origins' = origins
      BY <1>4, <2>2, Reconciles
    <3>3. \A d \in DOMAIN t.reading :
            projects'[id(d)].source = t.reading[d].source /\ projects'[id(d)].ref = t.reading[d].ref
      BY <1>0, <3>1, <3>2, IdFits
    <3>4. \A d \in t.joining : d \in DOMAIN t.reading /\ ReadFrom(t.reading[d], d)
      BY <3>1 DEF ReconcileSound, SoundReading
    <3>. HIDE DEF id
    <3>5. ASSUME NEW m \in members', m.by = "shared_fact"
          PROVE  /\ \E x \in origins' : x[1] = m.doc /\ x[2] = projects'[m.project].source
                 /\ \E f \in IdentifierFacts : f[1] = m.doc /\ Reference(f) = projects'[m.project].ref
      <4>1. CASE m \in members
        BY <1>1, <3>5, <4>1
      <4>2. CASE m \notin members
        <5>1. PICK d \in t.joining : m = [project |-> id(d), doc |-> d, by |-> "shared_fact"]
          BY <3>2, <4>2
        <5>2. m.doc = d /\ m.project = id(d)
          BY <5>1
        <5>3. ReadFrom(t.reading[d], d) /\ projects'[id(d)].source = t.reading[d].source
              /\ projects'[id(d)].ref = t.reading[d].ref
          BY <3>3, <3>4
        <5> HIDE DEF t
        <5> QED BY <3>2, <5>2, <5>3 DEF ReadFrom
      <4> QED BY <4>1, <4>2
    <3> QED BY <3>5 DEF GroupedByEvidence
  <2> QED BY <2>1, <2>2
<1>5. ASSUME NEW o \in Operators,
             \/ BeginCreate(o) \/ SaveCreate(o) \/ BeginAttach(o) \/ Identify(o) \/ LookUp(o)
             \/ BeginSupersede(o) \/ SaveSupersede(o) \/ BeginLink(o) \/ SaveLink(o)
      PROVE  members' = members
  BY <1>5 DEF BeginCreate, SaveCreate, BeginAttach, Identify, LookUp, BeginSupersede,
     SaveSupersede, BeginLink, SaveLink, Begin, Abort, record
<1>6. CASE (\E d \in Documents, v \in Versions : Analyse(d, v)) \/ (\E f \in IdentifierFacts : Retract(f)) \/ UNCHANGED vars
  BY <1>2, <1>6 DEF Analyse, Retract, vars, record
<1> QED BY <1>2, <1>3, <1>4, <1>5, <1>6 DEF Next

\* The states of versions follow the recorded edges: only a supersession
\* records one, and what it saw of the reverse edge still stands.
LEMMA SupersededStep ==
    ASSUME IInv, [Next]_vars
    PROVE  SupersededIsOut'
<1>0. TypeOK /\ SessionsSound /\ SupersededIsOut /\ Grows
  BY GrowthStep DEF IInv
<1>1. CASE versionState' = versionState /\ relations' = relations
  BY <1>0, <1>1 DEF SupersededIsOut
<1>2. ASSUME NEW o \in Operators, SaveReconciled(o) PROVE SupersededIsOut'
  <2>1. CASE Abort(o)
    BY <1>1, <2>1 DEF Abort, record
  <2>2. CASE ~ Abort(o)
    <3>1. versionState' = versionState /\ relations \subseteq relations'
      BY <1>0, <1>2, <2>2, Reconciles DEF Grows
    <3>2. \A x \in session[o].pairs : x.type # "supersedes"
      BY <1>0, <1>2 DEF SaveReconciled, SessionsSound, SoundTransaction, ReconcileSound
    <3>3. \A r \in relations' : r \notin relations => r.type # "supersedes"
      BY <1>2, <2>2, <3>2, Reconciles
    <3> QED BY <1>0, <3>1, <3>3 DEF SupersededIsOut
  <2> QED BY <2>1, <2>2
<1>3. ASSUME NEW o \in Operators, SaveSupersede(o) PROVE SupersededIsOut'
  <2>1. CASE Abort(o)
    BY <1>1, <2>1 DEF Abort, record
  <2>2. CASE ~ Abort(o)
    <3>. DEFINE t == session[o]
               edge == [project |-> t.project, from |-> t.from, to |-> t.to, type |-> "supersedes"]
    <3>1. /\ t.from \in Documents /\ t.to \in Documents
          /\ t.recorded => Related(t.from, t.to, "supersedes")
          /\ t.contradicted => Related(t.to, t.from, "supersedes")
      BY <1>0, <1>3 DEF SaveSupersede, SessionsSound, SoundTransaction, SupersedeSound
    <3>2. /\ relations' = IF t.recorded THEN relations ELSE relations \cup {edge}
          /\ versionState' = Judged(t)
      BY <1>3, <2>2 DEF SaveSupersede
    <3>3. \E r \in relations' : r.type = "supersedes" /\ r.to = t.to
      <4>1. CASE t.recorded
        BY <3>1, <3>2, <4>1 DEF Related
      <4>2. CASE ~ t.recorded
        <5>1. edge \in relations'
          BY <3>2, <4>2
        <5>2. edge.type = "supersedes" /\ edge.to = t.to
          OBVIOUS
        <5> QED BY <5>1, <5>2
      <4> QED BY <4>1, <4>2
    <3>4. t.contradicted => \E r \in relations' : r.type = "supersedes" /\ r.to = t.from
      BY <3>1, <3>2 DEF Related
    <3>5. \A r \in relations' : r.to # t.to => r \in relations
      BY <3>2
    <3>6. \A d \in Documents :
            versionState'[d] = IF d = t.to \/ (d = t.from /\ t.contradicted)
                               THEN IF t.contradicted THEN "unknown" ELSE "superseded"
                               ELSE versionState[d]
      BY <1>0, <3>1, <3>2 DEF Judged, TypeOK
    <3>7. ASSUME NEW d \in Documents
          PROVE  versionState'[d] = "active"
                   <=> \A r \in relations' : ~ (r.type = "supersedes" /\ r.to = d)
      <4>1. CASE d = t.to \/ (d = t.from /\ t.contradicted)
        BY <3>3, <3>4, <3>6, <4>1
      <4>2. CASE ~ (d = t.to \/ (d = t.from /\ t.contradicted))
        <5>1. versionState'[d] = versionState[d]
          BY <3>6, <4>2
        <5>2. \A r \in relations' : r.to = d => r \in relations
          BY <3>5, <4>2
        <5> QED BY <1>0, <5>1, <5>2 DEF SupersededIsOut, Grows
      <4> QED BY <4>1, <4>2
    <3> QED BY <3>7 DEF SupersededIsOut
  <2> QED BY <2>1, <2>2
<1>4. ASSUME NEW o \in Operators,
             \/ BeginCreate(o) \/ SaveCreate(o) \/ BeginAttach(o) \/ SaveAttach(o)
             \/ Identify(o) \/ LookUp(o) \/ BeginSupersede(o) \/ BeginLink(o) \/ SaveLink(o)
      PROVE  versionState' = versionState /\ relations' = relations
  BY <1>4 DEF BeginCreate, SaveCreate, BeginAttach, SaveAttach, Identify, LookUp,
     BeginSupersede, BeginLink, SaveLink, Begin, Abort, record
<1>5. CASE (\E d \in Documents, v \in Versions : Analyse(d, v)) \/ (\E f \in IdentifierFacts : Retract(f)) \/ UNCHANGED vars
  BY <1>1, <1>5 DEF Analyse, Retract, vars, record
<1> QED BY <1>1, <1>2, <1>3, <1>4, <1>5 DEF Next

LEMMA InitInvariant == Init => IInv
<1> SUFFICES ASSUME Init PROVE IInv
  OBVIOUS
<1>1. TypeOK
  BY DEF Init, TypeOK, Rows
<1>2. SessionsSound
  BY DEF Init, SessionsSound, Idle, SoundTransaction, CreateSound, AttachSound, IdentifySound,
     ReconcileSound, SupersedeSound, LinkSound
<1>3. KeysAreUnique /\ GroupedByEvidence /\ SupersededIsOut
  BY DEF Init, KeysAreUnique, GroupedByEvidence, SupersededIsOut
<1> QED BY <1>1, <1>2, <1>3 DEF IInv

LEMMA Inductive == IInv /\ [Next]_vars => IInv'
BY TypeStep, SessionStep, KeysStep, GroupedStep, SupersededStep DEF IInv

LEMMA Invariant == Spec => []IInv
BY InitInvariant, Inductive, PTL DEF Spec

-----------------------------------------------------------------------------
(* Pairs of one group: what every reading, membership and pair rests on *)

\* A transaction that holds a reading.
Reads(t) == t.pc \in {"identify", "reconcile"}

Derived == {m \in members : m.by = "shared_fact"}

Paired(a, b) == \E type \in RelationTypes : Related(a, b, type)

\* The relation of two documents is recorded, from the lower id to the higher.
Linked(a, b) == (a < b => Paired(a, b)) /\ (b < a => Paired(b, a))

SameKey(row, other) == row.source = other.source /\ row.ref = other.ref

\* A version adds all that it reads in a document, or nothing.
WholeOrNot ==
    \A g \in standing : (\A f \in withdrawn : f[1] # g[1]) =>
        \A f \in IdentifierFacts : f[1] = g[1] /\ f[3] = g[3] => f \in standing

\* What was read of a steady document is what would be read now.
ReadingIsBest ==
    \A o \in Operators : Reads(session[o]) =>
        \A d \in DOMAIN session[o].reading : Steady(d) => session[o].reading[d] \in BestRows(d)

MemberIsBest ==
    \A m \in Derived : Steady(m.doc) => \E row \in BestRows(m.doc) : IsFor(m.project, row)

\* Of two reconciliations the one that read later has read what the other has.
ReadingsMeet ==
    \A o, p \in Operators : Reads(session[o]) /\ Reads(session[p]) =>
        \A d \in DOMAIN session[o].reading, e \in DOMAIN session[p].reading :
            Steady(d) /\ Steady(e) =>
                e \in DOMAIN session[o].reading \/ d \in DOMAIN session[p].reading

\* So one that waits has read a member of its group, or that one linked both.
MembersMeet ==
    \A m \in Derived, o \in Operators : Reads(session[o]) /\ Steady(m.doc) =>
        \A d \in DOMAIN session[o].reading :
            Steady(d) /\ IsFor(m.project, session[o].reading[d]) =>
                m.doc \in DOMAIN session[o].reading \/ Linked(m.doc, d)

\* A pair of a group is recorded, or is to be.
PairsWait ==
    \A o \in Operators : session[o].pc = "reconcile" =>
        \A d, e \in DOMAIN session[o].reading :
            d < e /\ SameKey(session[o].reading[d], session[o].reading[e]) =>
                Paired(d, e) \/ \E x \in session[o].pairs : x.from = d /\ x.to = e

PInv ==
    /\ WholeOrNot /\ ReadingIsBest /\ MemberIsBest /\ ReadingsMeet /\ MembersMeet
    /\ PairsWait /\ PairsAreRecorded

\* What one version reads in a steady document, all that read it read.
LEMMA ReadAlike ==
    ASSUME NEW d, Steady(d), NEW f \in standing, NEW g \in standing,
           f \in IdentifierFacts, g \in IdentifierFacts, f[1] = d, g[1] = d
    PROVE  /\ <<d, f[2], g[3]>> \in IdentifierFacts
           /\ Reference(<<d, f[2], g[3]>>) = Reference(f)
<1>1. /\ d \in Documents /\ f[2] \in FactTypes /\ f[3] \in Versions /\ g[3] \in Versions
      /\ Stated[d][f[3]][f[2]] # None
  BY DEF IdentifierFacts
<1>2. Identity(d, f[3])[f[2]] = Identity(d, g[3])[f[2]]
  BY DEF Steady
<1>3. Identity(d, f[3])[f[2]] = Reference(f)
  BY <1>1 DEF Identity, Reference
<1>4. Reference(f) # None
  BY ReferenceIsNormal, NormalRefsAreNormal
<1>5. Identity(d, g[3])[f[2]] =
        IF Stated[d][g[3]][f[2]] = None THEN None ELSE Reference(<<d, f[2], g[3]>>)
  BY <1>1 DEF Identity
<1>6. Stated[d][g[3]][f[2]] # None /\ Reference(<<d, f[2], g[3]>>) = Reference(f)
  BY <1>2, <1>3, <1>4, <1>5
<1> QED BY <1>1, <1>6 DEF IdentifierFacts

LEMMA AlikeNext ==
    ASSUME NEW d, Steady(d)', NEW f \in standing', NEW g \in standing',
           f \in IdentifierFacts, g \in IdentifierFacts, f[1] = d, g[1] = d
    PROVE  /\ <<d, f[2], g[3]>> \in IdentifierFacts
           /\ Reference(<<d, f[2], g[3]>>) = Reference(f)
<1>1. /\ d \in Documents /\ f[2] \in FactTypes /\ f[3] \in Versions /\ g[3] \in Versions
      /\ Stated[d][f[3]][f[2]] # None
  BY DEF IdentifierFacts
<1>2. Identity(d, f[3])[f[2]] = Identity(d, g[3])[f[2]]
  BY DEF Steady, Identity, Reference
<1>3. Identity(d, f[3])[f[2]] = Reference(f)
  BY <1>1 DEF Identity, Reference
<1>4. Reference(f) # None
  BY ReferenceIsNormal, NormalRefsAreNormal
<1>5. Identity(d, g[3])[f[2]] =
        IF Stated[d][g[3]][f[2]] = None THEN None ELSE Reference(<<d, f[2], g[3]>>)
  BY <1>1 DEF Identity
<1>6. Stated[d][g[3]][f[2]] # None /\ Reference(<<d, f[2], g[3]>>) = Reference(f)
  BY <1>2, <1>3, <1>4, <1>5
<1> QED BY <1>1, <1>6 DEF IdentifierFacts

\* A steady document is read in one way.
LEMMA BestIsOne ==
    ASSUME TypeOK, NEW d, Steady(d), NEW row \in BestRows(d), NEW other \in BestRows(d)
    PROVE  row = other
<1>1. ASSUME NEW r \in JoinRows(d)
      PROVE  \E f \in standing, o \in origins :
               /\ f \in IdentifierFacts /\ f[1] = d /\ o[1] = d
               /\ r = [type |-> f[2], source |-> o[2], ref |-> Reference(f)]
  BY <1>1 DEF JoinRows, TypeOK
<1>2. PICK f \in standing, o \in origins :
        /\ f \in IdentifierFacts /\ f[1] = d /\ o[1] = d
        /\ row = [type |-> f[2], source |-> o[2], ref |-> Reference(f)]
  BY <1>1 DEF BestRows
<1>3. PICK g \in standing, p \in origins :
        /\ g \in IdentifierFacts /\ g[1] = d /\ p[1] = d
        /\ other = [type |-> g[2], source |-> p[2], ref |-> Reference(g)]
  BY <1>1 DEF BestRows
<1>4. o[2] = p[2]
  BY <1>2, <1>3 DEF Steady
<1>5. Rank(row.type) <= Rank(other.type) /\ Rank(other.type) <= Rank(row.type)
  BY DEF BestRows
<1>6. f[2] \in FactTypes /\ g[2] \in FactTypes
  BY <1>2, <1>3 DEF IdentifierFacts
<1>7. f[2] = g[2]
  BY <1>2, <1>3, <1>5, <1>6 DEF Rank, FactTypes
<1>8. Reference(f) = Reference(g)
  <2>1. Reference(<<d, f[2], g[3]>>) = Reference(f)
    BY <1>2, <1>3, ReadAlike
  <2>2. Reference(<<d, f[2], g[3]>>) = Reference(g)
    BY <1>3, <1>7 DEF Reference
  <2> QED BY <2>1, <2>2
<1> QED BY <1>2, <1>3, <1>4, <1>7, <1>8

LEMMA BestIsStated ==
    ASSUME NEW d, NEW row \in BestRows(d)
    PROVE  (\E f \in standing : f[1] = d) /\ (\E o \in origins : o[1] = d) /\ JoinRows(d) # {}
BY DEF BestRows, JoinRows

-----------------------------------------------------------------------------
(* What documents state *)

LEMMA WholeStep ==
    ASSUME TypeOK, WholeOrNot, [Next]_vars
    PROVE  WholeOrNot' /\ withdrawn \subseteq withdrawn'
<1>1. CASE UNCHANGED <<standing, withdrawn>>
  BY <1>1 DEF WholeOrNot
<1>2. ASSUME NEW x \in Documents, NEW v \in Versions, Analyse(x, v)
      PROVE  WholeOrNot' /\ withdrawn \subseteq withdrawn'
  <2>1. /\ standing' = standing \cup ({f \in IdentifierFacts : f[1] = x /\ f[3] = v} \ withdrawn)
        /\ withdrawn' = withdrawn
    BY <1>2 DEF Analyse
  <2> SUFFICES ASSUME NEW g \in standing', \A f \in withdrawn : f[1] # g[1],
                      NEW f \in IdentifierFacts, f[1] = g[1], f[3] = g[3]
               PROVE  f \in standing'
    BY <2>1 DEF WholeOrNot
  <2>2. CASE g \in standing
    BY <2>1, <2>2 DEF WholeOrNot
  <2>3. CASE g \notin standing
    <3>1. f[1] = x /\ f[3] = v /\ f \notin withdrawn
      BY <2>1, <2>3
    <3> QED BY <2>1, <3>1
  <2> QED BY <2>2, <2>3
<1>3. ASSUME NEW g \in IdentifierFacts, Retract(g)
      PROVE  WholeOrNot' /\ withdrawn \subseteq withdrawn'
  <2>1. standing' = standing \ {g} /\ withdrawn' = withdrawn \cup {g}
    BY <1>3 DEF Retract
  <2> QED BY <2>1 DEF WholeOrNot
<1>4. ASSUME NEW o \in Operators,
             \/ BeginCreate(o) \/ SaveCreate(o) \/ BeginAttach(o) \/ SaveAttach(o)
             \/ Identify(o) \/ LookUp(o) \/ SaveReconciled(o)
             \/ BeginSupersede(o) \/ SaveSupersede(o) \/ BeginLink(o) \/ SaveLink(o)
      PROVE  UNCHANGED <<standing, withdrawn>>
  BY <1>4 DEF BeginCreate, SaveCreate, BeginAttach, SaveAttach, Identify, LookUp, SaveReconciled,
     BeginSupersede, SaveSupersede, BeginLink, SaveLink, Begin, Abort, Commit
<1>5. CASE UNCHANGED vars
  BY <1>1, <1>5 DEF vars
<1> QED BY <1>1, <1>2, <1>3, <1>4, <1>5 DEF Next

\* Of a document of which nothing was withdrawn every fact stays.
LEMMA FactsStay ==
    ASSUME [Next]_vars, NEW d, \A f \in withdrawn' : f[1] # d
    PROVE  \A f \in standing : f[1] = d => f \in standing'
<1>1. CASE standing' = standing
  BY <1>1
<1>2. ASSUME NEW x \in Documents, NEW v \in Versions, Analyse(x, v)
      PROVE  \A f \in standing : f[1] = d => f \in standing'
  BY <1>2 DEF Analyse
<1>3. ASSUME NEW g \in IdentifierFacts, Retract(g)
      PROVE  \A f \in standing : f[1] = d => f \in standing'
  BY <1>3 DEF Retract
<1>4. ASSUME NEW o \in Operators,
             \/ BeginCreate(o) \/ SaveCreate(o) \/ BeginAttach(o) \/ SaveAttach(o)
             \/ Identify(o) \/ LookUp(o) \/ SaveReconciled(o)
             \/ BeginSupersede(o) \/ SaveSupersede(o) \/ BeginLink(o) \/ SaveLink(o)
      PROVE  standing' = standing
  BY <1>4 DEF BeginCreate, SaveCreate, BeginAttach, SaveAttach, Identify, LookUp, SaveReconciled,
     BeginSupersede, SaveSupersede, BeginLink, SaveLink, Begin, Abort, Commit
<1>5. CASE UNCHANGED vars
  BY <1>1, <1>5 DEF vars
<1> QED BY <1>1, <1>2, <1>3, <1>4, <1>5 DEF Next

\* A document that is steady was, and is read as it was.
LEMMA SteadyWas ==
    ASSUME IInv, PInv, [Next]_vars, NEW d, Steady(d)'
    PROVE  Steady(d)
<1>1. Grows /\ withdrawn \subseteq withdrawn'
  BY GrowthStep, WholeStep DEF IInv, PInv
<1>2. \A f \in standing : f[1] = d => f \in standing'
  BY FactsStay DEF Steady
<1> QED BY <1>1, <1>2 DEF Steady, Identity, Grows

LEMMA BestStays ==
    ASSUME IInv, PInv, [Next]_vars, NEW d \in Documents, Steady(d)', BestRows(d) # {}
    PROVE  BestRows(d)' = BestRows(d)
<1>0. /\ TypeOK /\ Grows /\ TypeOK' /\ \A f \in withdrawn : f[1] # d
      /\ \A f \in standing : f[1] = d => f \in standing'
  BY GrowthStep, TypeStep, SteadyWas, FactsStay DEF IInv, Steady
<1>1. PICK g \in standing, o \in origins : g[1] = d /\ o[1] = d
  BY BestIsStated
<1>2. \A p \in origins' : p[1] = d => p[2] = o[2]
  BY <1>0, <1>1 DEF Steady, Grows
<1>3. JoinRows(d) \subseteq JoinRows(d)'
  BY <1>0 DEF JoinRows, Grows
<1>4. JoinRows(d)' \subseteq JoinRows(d)
  <2> SUFFICES ASSUME NEW r \in JoinRows(d)' PROVE r \in JoinRows(d)
    OBVIOUS
  <2>0. PICK f \in {x \in standing' : x[1] = d}, p \in {x \in origins' : x[1] = d} :
          r = [type |-> f[2], source |-> p[2], ref |-> Reference(f)]
    BY DEF JoinRows, Reference
  <2> DEFINE was == <<d, f[2], g[3]>>
  <2>1. f \in IdentifierFacts /\ g \in IdentifierFacts /\ g \in standing'
    BY <1>0, <1>1 DEF TypeOK
  <2>2. was \in IdentifierFacts /\ Reference(was) = Reference(f)
    BY <1>1, <2>1, AlikeNext
  <2>3. was[1] = d /\ was[2] = f[2] /\ was[3] = g[3]
    OBVIOUS
  <2> HIDE DEF was
  <2>4. was \in standing
    BY <1>0, <1>1, <2>2, <2>3 DEF PInv, WholeOrNot
  <2>5. p[2] = o[2]
    BY <1>2
  <2>6. was \in {x \in standing : x[1] = d} /\ o \in {x \in origins : x[1] = d}
    BY <1>1, <2>3, <2>4
  <2>7. r = [type |-> was[2], source |-> o[2], ref |-> Reference(was)]
    BY <2>0, <2>2, <2>3, <2>5
  <2> QED BY <2>6, <2>7 DEF JoinRows
<1>5. JoinRows(d)' = JoinRows(d)
  BY <1>3, <1>4
<1> QED BY <1>5 DEF BestRows, Rank

-----------------------------------------------------------------------------
(* Readings *)

\* Unless a transaction begins to read, readings are as they were.
Kept == \A o \in Operators : Reads(session'[o]) => Reads(session[o]) /\ session'[o].reading = session[o].reading

LEMMA ReadsStep ==
    ASSUME IInv, [Next]_vars
    PROVE  \/ Kept /\ Derived' = Derived
           \/ \E o \in Operators : Identify(o) /\ Derived' = Derived
           \/ \E o \in Operators : SaveReconciled(o) /\ ~ Abort(o) /\ Kept
<1>0. DOMAIN session = Operators
  BY DEF IInv, SessionsSound
<1>1. ASSUME NEW o \in Operators, session' = [session EXCEPT ![o] = Idle] PROVE Kept
  BY <1>0, <1>1 DEF Kept, Idle, Reads
<1>2. ASSUME members' = members PROVE Derived' = Derived
  BY <1>2 DEF Derived
<1>3. ASSUME NEW o \in Operators, SaveCreate(o) \/ SaveSupersede(o) \/ SaveLink(o) PROVE Kept /\ Derived' = Derived
  <2>1. session' = [session EXCEPT ![o] = Idle] /\ members' = members
    BY <1>3 DEF SaveCreate, SaveSupersede, SaveLink, Abort, Commit, record
  <2> QED BY <1>1, <1>2, <2>1
<1>4. ASSUME NEW o \in Operators, SaveAttach(o) PROVE Kept /\ Derived' = Derived
  <2>1. session' = [session EXCEPT ![o] = Idle]
    BY <1>4 DEF SaveAttach, Abort, Commit
  <2>2. \/ members' = members
        \/ members' = members \cup {[project |-> session[o].project, doc |-> session[o].upload[1], by |-> "declared"]}
    BY <1>4 DEF SaveAttach, Abort, record
  <2>3. Derived' = Derived
    BY <2>2 DEF Derived
  <2> QED BY <1>1, <2>1, <2>3
<1>5. ASSUME NEW o \in Operators, BeginCreate(o) \/ BeginAttach(o) \/ BeginSupersede(o) \/ BeginLink(o)
      PROVE  Kept /\ Derived' = Derived
  <2>1. ASSUME NEW txn, Begin(o, txn), txn.pc \notin {"identify", "reconcile"} PROVE Kept /\ Derived' = Derived
    <3>1. members' = members /\ session'[o] = txn /\ \A x \in Operators : x # o => session'[x] = session[x]
      BY <1>0, <2>1 DEF Begin, record
    <3> QED BY <1>2, <2>1, <3>1 DEF Kept, Reads
  <2>2. CASE BeginCreate(o)
    BY <2>1, <2>2 DEF BeginCreate
  <2>3. CASE BeginAttach(o)
    <3>1. PICK p \in DOMAIN projects, upload \in Documents \X Sources \X Uploaders :
            Begin(o, [pc |-> "attach", project |-> p, upload |-> upload,
                      uploaded |-> upload \in origins, belongs |-> Belongs(p, upload[1])])
      BY <2>3, Zenon DEF BeginAttach
    <3> QED BY <2>1, <3>1
  <2>4. CASE BeginSupersede(o)
    BY <2>1, <2>4 DEF BeginSupersede
  <2>5. CASE BeginLink(o)
    BY <2>1, <2>5 DEF BeginLink
  <2> QED BY <1>5, <2>2, <2>3, <2>4, <2>5
<1>6. ASSUME NEW o \in Operators, LookUp(o) PROVE Kept /\ Derived' = Derived
  <2>1. /\ members' = members /\ \A x \in Operators : x # o => session'[x] = session[x]
        /\ session[o].pc = "identify" /\ session'[o].reading = session[o].reading
    BY <1>0, <1>6 DEF LookUp, record
  <2> QED BY <1>2, <2>1 DEF Kept, Reads
<1>7. ASSUME NEW o \in Operators, Identify(o) PROVE Derived' = Derived
  BY <1>2, <1>7 DEF Identify, Begin, record
<1>8. ASSUME NEW o \in Operators, SaveReconciled(o)
      PROVE  Kept /\ (Abort(o) => Derived' = Derived)
  <2>1. session' = [session EXCEPT ![o] = Idle] /\ (Abort(o) => members' = members)
    BY <1>8 DEF SaveReconciled, Abort, Commit, record
  <2> QED BY <1>1, <1>2, <2>1
<1>9. CASE (\E d \in Documents, v \in Versions : Analyse(d, v)) \/ (\E f \in IdentifierFacts : Retract(f)) \/ UNCHANGED vars
  <2>1. session' = session /\ members' = members
    BY <1>9 DEF Analyse, Retract, vars, record
  <2> QED BY <1>2, <2>1 DEF Kept
<1> QED BY <1>3, <1>4, <1>5, <1>6, <1>7, <1>8, <1>9 DEF Next

\* A new transaction reads every document that states an identifier.
LEMMA IdentifyReads ==
    ASSUME IInv, NEW o \in Operators, Identify(o)
    PROVE  /\ DOMAIN session'[o].reading = {d \in Documents : JoinRows(d) # {}}
           /\ \A d \in DOMAIN session'[o].reading : session'[o].reading[d] \in BestRows(d)
           /\ session'[o].pc = "identify"
           /\ \A x \in Operators : x # o => session'[x] = session[x]
           /\ UNCHANGED <<record, standing, withdrawn>>
<1>1. PICK reading \in Readings :
        /\ session' = [session EXCEPT ![o] = [pc |-> "identify", reading |-> reading]]
        /\ UNCHANGED <<record, standing, withdrawn>>
  BY DEF Identify, Begin
<1>2. session'[o] = [pc |-> "identify", reading |-> reading]
      /\ \A x \in Operators : x # o => session'[x] = session[x]
  BY <1>1 DEF IInv, SessionsSound
<1>3. DOMAIN reading = {d \in Documents : JoinRows(d) # {}}
      /\ \A d \in DOMAIN reading : reading[d] \in BestRows(d)
  BY DEF Readings
<1> QED BY <1>1, <1>2, <1>3

LEMMA OfDocuments ==
    ASSUME IInv
    PROVE  /\ \A o \in Operators : Reads(session[o]) => DOMAIN session[o].reading \subseteq Documents
           /\ \A m \in Derived : m.doc \in Documents /\ m.project \in DOMAIN projects
<1>1. ASSUME NEW o \in Operators, Reads(session[o]) PROVE DOMAIN session[o].reading \subseteq Documents
  <2>1. IdentifySound(session[o]) /\ ReconcileSound(session[o])
    BY DEF IInv, SessionsSound, SoundTransaction
  <2> QED BY <1>1, <2>1 DEF Reads, IdentifySound, ReconcileSound, SoundReading
<1>2. \A m \in Derived : m.doc \in Documents /\ m.project \in DOMAIN projects
  BY DEF IInv, TypeOK, Derived, Member
<1> QED BY <1>1, <1>2

LEMMA ReadingStep == ASSUME IInv, PInv, [Next]_vars PROVE ReadingIsBest'
<1> SUFFICES ASSUME NEW o \in Operators, Reads(session'[o]), NEW d \in DOMAIN session'[o].reading, Steady(d)'
             PROVE  session'[o].reading[d] \in BestRows(d)'
  BY DEF ReadingIsBest, Reads
<1>1. Steady(d)
  BY SteadyWas
<1>2. ASSUME Reads(session[o]), session'[o].reading = session[o].reading
      PROVE  session'[o].reading[d] \in BestRows(d)'
  <2>1. d \in Documents /\ session[o].reading[d] \in BestRows(d)
    BY <1>1, <1>2, OfDocuments DEF PInv, ReadingIsBest
  <2>2. BestRows(d)' = BestRows(d)
    BY <2>1, BestStays
  <2> QED BY <1>2, <2>1, <2>2
<1>3. CASE Kept
  BY <1>2, <1>3 DEF Kept
<1>4. ASSUME NEW p \in Operators, Identify(p) PROVE session'[o].reading[d] \in BestRows(d)'
  <2>1. CASE p = o
    <3>1. d \in Documents /\ session'[o].reading[d] \in BestRows(d)
      BY <1>4, <2>1, IdentifyReads
    <3>2. BestRows(d)' = BestRows(d)
      BY <3>1, BestStays
    <3> QED BY <3>1, <3>2
  <2>2. CASE p # o
    BY <1>2, <1>4, <2>2, IdentifyReads
  <2> QED BY <2>1, <2>2
<1> QED BY <1>3, <1>4, ReadsStep

\* What a steady document is read as, is read of it later.
LEMMA ReadIsRead ==
    ASSUME IInv, PInv, NEW o \in Operators, Identify(o)
    PROVE  /\ \A p \in Operators : Reads(session[p]) =>
                \A d \in DOMAIN session[p].reading : Steady(d) => d \in DOMAIN session'[o].reading
           /\ \A m \in Derived : Steady(m.doc) => m.doc \in DOMAIN session'[o].reading
<1>1. ASSUME NEW p \in Operators, Reads(session[p]), NEW d \in DOMAIN session[p].reading, Steady(d)
      PROVE  d \in DOMAIN session'[o].reading
  <2>1. d \in Documents /\ session[p].reading[d] \in BestRows(d)
    BY <1>1, OfDocuments DEF PInv, ReadingIsBest
  <2>2. JoinRows(d) # {}
    BY <2>1, BestIsStated
  <2> QED BY <2>1, <2>2, IdentifyReads
<1>2. ASSUME NEW m \in Derived, Steady(m.doc) PROVE m.doc \in DOMAIN session'[o].reading
  <2>1. m.doc \in Documents /\ \E row \in BestRows(m.doc) : TRUE
    BY <1>2, OfDocuments DEF PInv, MemberIsBest
  <2>2. JoinRows(m.doc) # {}
    BY <2>1, BestIsStated
  <2> QED BY <2>1, <2>2, IdentifyReads
<1> QED BY <1>1, <1>2

LEMMA ReadingsMeetStep == ASSUME IInv, PInv, [Next]_vars PROVE ReadingsMeet'
<1> SUFFICES ASSUME NEW o \in Operators, NEW p \in Operators, Reads(session'[o]), Reads(session'[p]),
                    NEW d \in DOMAIN session'[o].reading, NEW e \in DOMAIN session'[p].reading,
                    Steady(d)', Steady(e)'
             PROVE  e \in DOMAIN session'[o].reading \/ d \in DOMAIN session'[p].reading
  BY DEF ReadingsMeet, Reads
<1>1. Steady(d) /\ Steady(e)
  BY SteadyWas
<1>2. CASE Kept
  <2>1. /\ Reads(session[o]) /\ session'[o].reading = session[o].reading
        /\ Reads(session[p]) /\ session'[p].reading = session[p].reading
    BY <1>2 DEF Kept
  <2> QED BY <1>1, <2>1 DEF PInv, ReadingsMeet
<1>3. ASSUME NEW x \in Operators, Identify(x)
      PROVE  e \in DOMAIN session'[o].reading \/ d \in DOMAIN session'[p].reading
  <2>1. \A y \in Operators : y # x => session'[y] = session[y]
    BY <1>3, IdentifyReads
  <2>2. CASE x # o /\ x # p
    BY <1>1, <2>1, <2>2 DEF PInv, ReadingsMeet
  <2>3. CASE x = o /\ x # p
    BY <1>1, <1>3, <2>1, <2>3, ReadIsRead
  <2>4. CASE x # o /\ x = p
    BY <1>1, <1>3, <2>1, <2>4, ReadIsRead
  <2>5. CASE x = o /\ x = p
    BY <2>5
  <2> QED BY <2>2, <2>3, <2>4, <2>5
<1> QED BY <1>2, <1>3, ReadsStep

-----------------------------------------------------------------------------
(* Memberships and pairs *)

LEMMA LinkedStays ==
    ASSUME Grows
    PROVE  \A a, b : (Paired(a, b) => Paired(a, b)') /\ (Linked(a, b) => Linked(a, b)')
BY DEF Linked, Paired, Related, Grows

\* Row p is the one for key k after the step.
WillBeFor(p, k) ==
    p \in DOMAIN projects' /\ projects'[p].source = k.source /\ projects'[p].ref = k.ref

LEMMA ForStays ==
    ASSUME Grows
    PROVE  /\ \A p, row : IsFor(p, row) => WillBeFor(p, row)
           /\ \A p, row : p \in DOMAIN projects /\ WillBeFor(p, row) => IsFor(p, row)
BY DEF IsFor, WillBeFor, Grows

\* A reconciliation that commits adds members that fit what it has read, and
\* its pairs.
LEMMA Reconciled ==
    ASSUME IInv, Grows, NEW s \in Operators, SaveReconciled(s), ~ Abort(s)
    PROVE  /\ session[s].pc = "reconcile" /\ Reads(session[s])
           /\ Derived \subseteq Derived'
           /\ \A m \in Derived' \ Derived :
                m.doc \in DOMAIN session[s].reading /\ WillBeFor(m.project, session[s].reading[m.doc])
           /\ \A x \in session[s].pairs : Related(x.from, x.to, x.type)' /\ x.type \in RelationTypes
<1> DEFINE t == session[s]
           id(d) == IdOf(t, SetToSeq(NewKeys(t)), d)
<1>1. t.pc = "reconcile" /\ ReconcileSound(t)
  BY DEF IInv, SaveReconciled, SessionsSound, SoundTransaction
<1>2. /\ projects' = projects \o SetToSeq(NewKeys(t))
      /\ members' = members \cup {[project |-> id(d), doc |-> d, by |-> "shared_fact"] : d \in t.joining}
      /\ relations' = relations \cup
            {[project |-> id(x.from), from |-> x.from, to |-> x.to, type |-> x.type] : x \in t.pairs}
  BY Reconciles
<1>3. \A d \in DOMAIN t.reading : WillBeFor(id(d), t.reading[d])
  BY <1>1, <1>2, IdFits DEF IInv, WillBeFor
<1>4. t.joining \subseteq DOMAIN t.reading
  BY <1>1 DEF ReconcileSound
<1> HIDE DEF id, t
<1>5. ASSUME NEW m \in Derived' \ Derived
      PROVE  m.doc \in DOMAIN t.reading /\ WillBeFor(m.project, t.reading[m.doc])
  <2>1. m \in members' /\ m \notin members
    BY <1>5 DEF Derived
  <2>2. PICK d \in t.joining : m = [project |-> id(d), doc |-> d, by |-> "shared_fact"]
    BY <1>2, <2>1
  <2>3. m.doc = d /\ m.project = id(d) /\ d \in DOMAIN t.reading
    BY <1>4, <2>2
  <2> QED BY <1>3, <2>3
<1>6. ASSUME NEW x \in t.pairs PROVE Related(x.from, x.to, x.type)' /\ x.type \in RelationTypes
  <2>1. [project |-> id(x.from), from |-> x.from, to |-> x.to, type |-> x.type] \in relations'
    BY <1>2
  <2>2. x.type \in RelationTypes
    BY <1>1 DEF ReconcileSound
  <2> QED BY <2>1, <2>2 DEF Related
<1>7. Derived \subseteq Derived'
  BY <1>2 DEF Derived
<1> QED BY <1>1, <1>5, <1>6, <1>7 DEF t, Reads

LEMMA MemberStep == ASSUME IInv, PInv, [Next]_vars PROVE MemberIsBest'
<1> SUFFICES ASSUME NEW m \in Derived', Steady(m.doc)'
             PROVE  \E row \in BestRows(m.doc)' : WillBeFor(m.project, row)
  BY DEF MemberIsBest, IsFor, WillBeFor
<1>1. Steady(m.doc) /\ Grows
  BY SteadyWas, GrowthStep DEF IInv
<1>2. CASE m \in Derived
  <2>1. PICK row \in BestRows(m.doc) : IsFor(m.project, row)
    BY <1>1, <1>2 DEF PInv, MemberIsBest
  <2>2. BestRows(m.doc)' = BestRows(m.doc)
    BY <1>2, <2>1, OfDocuments, BestStays
  <2> QED BY <1>1, <2>1, <2>2, ForStays
<1>3. ASSUME NEW s \in Operators, SaveReconciled(s), ~ Abort(s), m \notin Derived
      PROVE  \E row \in BestRows(m.doc)' : WillBeFor(m.project, row)
  <2> DEFINE row == session[s].reading[m.doc]
  <2>1. Reads(session[s]) /\ m.doc \in DOMAIN session[s].reading /\ WillBeFor(m.project, row)
    BY <1>1, <1>3, Reconciled
  <2>2. m.doc \in Documents /\ row \in BestRows(m.doc)
    BY <1>1, <2>1, OfDocuments DEF PInv, ReadingIsBest
  <2>3. BestRows(m.doc)' = BestRows(m.doc)
    BY <2>2, BestStays
  <2> QED BY <2>1, <2>2, <2>3
<1> QED BY <1>2, <1>3, ReadsStep

\* The pairs of one group, when the reconciliation that read both commits.
LEMMA PairCommitted ==
    ASSUME IInv, PInv, Grows, NEW s \in Operators, SaveReconciled(s), ~ Abort(s),
           NEW a \in DOMAIN session[s].reading, NEW b \in DOMAIN session[s].reading,
           SameKey(session[s].reading[a], session[s].reading[b])
    PROVE  Linked(a, b)'
<1>1. session[s].pc = "reconcile" /\ \A x \in session[s].pairs : Paired(x.from, x.to)'
  BY Reconciled DEF Paired
<1>2. SameKey(session[s].reading[b], session[s].reading[a])
  BY DEF SameKey
<1>3. \A d, e \in DOMAIN session[s].reading :
        d < e /\ SameKey(session[s].reading[d], session[s].reading[e]) => Paired(d, e)'
  BY <1>1, LinkedStays DEF PInv, PairsWait
<1>4. (a < b => Paired(a, b)') /\ (b < a => Paired(b, a)')
  BY <1>2, <1>3
<1> QED BY <1>4 DEF Linked

\* Two documents that are read alike, or for one project, have one key.
LEMMA OneKey ==
    ASSUME NEW p, NEW row, NEW other, IsFor(p, row), IsFor(p, other)
    PROVE  SameKey(row, other)
BY DEF IsFor, SameKey

LEMMA OneKeyNext ==
    ASSUME NEW p, NEW row, NEW other, WillBeFor(p, row), WillBeFor(p, other)
    PROVE  SameKey(row, other)
BY DEF WillBeFor, SameKey

LEMMA MembersMeetStep == ASSUME IInv, PInv, [Next]_vars PROVE MembersMeet'
<1> SUFFICES ASSUME NEW m \in Derived', NEW o \in Operators, Reads(session'[o]), Steady(m.doc)',
                    NEW d \in DOMAIN session'[o].reading, Steady(d)',
                    WillBeFor(m.project, session'[o].reading[d])
             PROVE  m.doc \in DOMAIN session'[o].reading \/ Linked(m.doc, d)'
  BY DEF MembersMeet, Reads, IsFor, WillBeFor
<1>1. Steady(m.doc) /\ Steady(d) /\ Grows /\ TypeOK
  BY SteadyWas, GrowthStep DEF IInv
<1>2. ASSUME m \in Derived, Reads(session[o]), session'[o].reading = session[o].reading
      PROVE  m.doc \in DOMAIN session'[o].reading \/ Linked(m.doc, d)'
  <2>1. IsFor(m.project, session[o].reading[d])
    BY <1>1, <1>2, ForStays, OfDocuments
  <2>2. m.doc \in DOMAIN session[o].reading \/ Linked(m.doc, d)
    BY <1>1, <1>2, <2>1 DEF PInv, MembersMeet
  <2> QED BY <1>1, <1>2, <2>2, LinkedStays
<1>3. CASE Kept /\ m \in Derived
  BY <1>2, <1>3 DEF Kept
<1>4. ASSUME NEW x \in Operators, Identify(x), m \in Derived
      PROVE  m.doc \in DOMAIN session'[o].reading \/ Linked(m.doc, d)'
  <2>1. CASE x = o
    BY <1>1, <1>4, <2>1, ReadIsRead
  <2>2. CASE x # o
    BY <1>2, <1>4, <2>2, IdentifyReads
  <2> QED BY <2>1, <2>2
<1>5. ASSUME NEW s \in Operators, SaveReconciled(s), ~ Abort(s), Kept, m \notin Derived
      PROVE  m.doc \in DOMAIN session'[o].reading \/ Linked(m.doc, d)'
  <2> DEFINE t == session[s]
             a == m.doc
  <2>1. Reads(t) /\ a \in DOMAIN t.reading /\ WillBeFor(m.project, t.reading[a])
    BY <1>1, <1>5, Reconciled
  <2>2. Reads(session[o]) /\ session'[o].reading = session[o].reading
    BY <1>5 DEF Kept
  <2>3. d \in DOMAIN t.reading \/ a \in DOMAIN session[o].reading
    BY <1>1, <2>1, <2>2 DEF PInv, ReadingsMeet
  <2>4. CASE d \in DOMAIN t.reading
    <3>1. t.reading[d] \in BestRows(d) /\ session[o].reading[d] \in BestRows(d)
      BY <1>1, <2>1, <2>2, <2>4 DEF PInv, ReadingIsBest
    <3>2. t.reading[d] = session[o].reading[d]
      BY <1>1, <3>1, BestIsOne
    <3>3. SameKey(t.reading[a], t.reading[d])
      BY <2>1, <2>2, <3>2, OneKeyNext
    <3>4. Linked(a, d)'
      BY <1>1, <1>5, <2>1, <2>4, <3>3, PairCommitted
    <3> QED BY <3>4
  <2> QED BY <2>2, <2>3, <2>4
<1> QED BY <1>3, <1>4, <1>5, ReadsStep

\* A member that is added is linked to every member of its project.
LEMMA JoinsLinked ==
    ASSUME IInv, PInv, Grows, NEW s \in Operators, SaveReconciled(s), ~ Abort(s),
           NEW m \in Derived' \ Derived, NEW n \in Derived', m.project = n.project,
           Steady(m.doc), Steady(n.doc)
    PROVE  Linked(n.doc, m.doc)'
<1> DEFINE t == session[s]
           a == m.doc
           b == n.doc
<1>1. Reads(t) /\ a \in DOMAIN t.reading /\ WillBeFor(m.project, t.reading[a])
  BY Reconciled
<1>2. CASE n \notin Derived
  <2>1. b \in DOMAIN t.reading /\ WillBeFor(m.project, t.reading[b])
    BY <1>2, Reconciled
  <2>2. SameKey(t.reading[b], t.reading[a])
    BY <1>1, <2>1, OneKeyNext
  <2> QED BY <1>1, <2>1, <2>2, PairCommitted
<1>3. CASE n \in Derived
  <2>1. IsFor(n.project, t.reading[a])
    BY <1>1, <1>3, ForStays, OfDocuments
  <2>2. b \in DOMAIN t.reading \/ Linked(b, a)
    BY <1>1, <1>3, <2>1 DEF PInv, MembersMeet
  <2>3. CASE b \in DOMAIN t.reading
    <3>1. PICK row \in BestRows(b) : IsFor(n.project, row)
      BY <1>3 DEF PInv, MemberIsBest
    <3>2. t.reading[b] \in BestRows(b)
      BY <1>1, <2>3 DEF PInv, ReadingIsBest
    <3>3. row = t.reading[b]
      BY <3>1, <3>2, BestIsOne DEF IInv
    <3>4. SameKey(t.reading[b], t.reading[a])
      BY <2>1, <3>1, <3>3, OneKey
    <3> QED BY <1>1, <2>3, <3>4, PairCommitted
  <2> QED BY <2>2, <2>3, LinkedStays
<1> QED BY <1>2, <1>3

LEMMA PairsStep == ASSUME IInv, PInv, [Next]_vars PROVE PairsAreRecorded'
<1> SUFFICES ASSUME NEW m \in Derived', NEW n \in Derived', m.project = n.project, m.doc < n.doc,
                    Steady(m.doc)', Steady(n.doc)'
             PROVE  Paired(m.doc, n.doc)'
  BY DEF PairsAreRecorded, Derived, Paired
<1>1. Steady(m.doc) /\ Steady(n.doc) /\ Grows
  BY SteadyWas, GrowthStep DEF IInv
<1>2. CASE m \in Derived /\ n \in Derived
  <2>1. Paired(m.doc, n.doc)
    BY <1>1, <1>2 DEF PInv, PairsAreRecorded, Derived, Paired
  <2> QED BY <1>1, <2>1, LinkedStays
<1>3. ASSUME NEW s \in Operators, SaveReconciled(s), ~ Abort(s), m \notin Derived \/ n \notin Derived
      PROVE  Paired(m.doc, n.doc)'
  <2>1. CASE n \notin Derived
    <3>1. Linked(m.doc, n.doc)'
      BY <1>1, <1>3, <2>1, JoinsLinked
    <3> QED BY <3>1 DEF Linked
  <2>2. CASE m \notin Derived
    <3>1. Linked(n.doc, m.doc)'
      BY <1>1, <1>3, <2>2, JoinsLinked
    <3> QED BY <3>1 DEF Linked
  <2> QED BY <1>3, <2>1, <2>2
<1> QED BY <1>2, <1>3, ReadsStep

LEMMA WaitStep == ASSUME IInv, PInv, [Next]_vars PROVE PairsWait'
<1> SUFFICES ASSUME NEW o \in Operators, session'[o].pc = "reconcile",
                    NEW d \in DOMAIN session'[o].reading, NEW e \in DOMAIN session'[o].reading, d < e,
                    SameKey(session'[o].reading[d], session'[o].reading[e])
             PROVE  Paired(d, e)' \/ \E x \in session'[o].pairs : x.from = d /\ x.to = e
  BY DEF PairsWait, SameKey
<1>1. Grows
  BY GrowthStep DEF IInv
<1>2. CASE session'[o] = session[o]
  BY <1>1, <1>2, LinkedStays DEF PInv, PairsWait
<1>3. CASE LookUp(o)
  <2> DEFINE r == session[o].reading
  <2>1. PICK type \in [DOMAIN r -> FactTypes] :
          session' = [session EXCEPT ![o] =
            [pc |-> "reconcile", reading |-> r,
             project |-> [x \in DOMAIN r |-> FindProject(GroupKey(r, x).source, GroupKey(r, x).ref)],
             joining |-> {x \in DOMAIN r : ~ Belongs(FindProject(GroupKey(r, x).source, GroupKey(r, x).ref), x)},
             pairs |-> {x \in Pairs(r, type) : ~ Related(x.from, x.to, x.type)}]]
    BY <1>3 DEF LookUp
  <2>2. session'[o].reading = r /\ session'[o].pairs = {x \in Pairs(r, type) : ~ Related(x.from, x.to, x.type)}
    BY <2>1 DEF IInv, SessionsSound
  <2> DEFINE pair == [from |-> d, to |-> e, type |-> RelationshipForKey(type[d])]
  <2>3. pair \in Pairs(r, type)
    <3>1. d \in DOMAIN r /\ e \in DOMAIN r /\ e \in GroupOf(r, d)
      BY <2>2 DEF GroupOf, GroupKey, SameKey
    <3>2. <<d, e>> \in {x \in (DOMAIN r) \X (DOMAIN r) : x[1] < x[2] /\ x[2] \in GroupOf(r, x[1])}
      BY <3>1
    <3> QED BY <3>2 DEF Pairs
  <2>4. pair.type \in RelationTypes /\ pair.from = d /\ pair.to = e
    BY DEF RelationshipForKey, RelationTypes
  <2> HIDE DEF pair
  <2>5. CASE Related(d, e, pair.type)
    <3>1. Paired(d, e)
      BY <2>4, <2>5 DEF Paired
    <3> QED BY <1>1, <3>1, LinkedStays
  <2>6. CASE ~ Related(d, e, pair.type)
    BY <2>2, <2>3, <2>4, <2>6
  <2> QED BY <2>5, <2>6
<1>4. session'[o] = session[o] \/ LookUp(o)
  <2>0. DOMAIN session = Operators
    BY DEF IInv, SessionsSound
  <2>1. ASSUME NEW s \in Operators, session' = [session EXCEPT ![s] = Idle] PROVE session'[o] = session[o]
    BY <2>0, <2>1 DEF Idle
  <2>2. ASSUME NEW s \in Operators, NEW txn, Begin(s, txn), txn.pc # "reconcile" PROVE session'[o] = session[o]
    BY <2>0, <2>2 DEF Begin
  <2>3. ASSUME NEW s \in Operators, LookUp(s) PROVE session'[o] = session[o] \/ LookUp(o)
    <3>1. CASE s = o
      BY <2>3, <3>1
    <3>2. CASE s # o
      <4>1. \E txn : session' = [session EXCEPT ![s] = txn]
        BY <2>3 DEF LookUp
      <4> QED BY <2>0, <3>2, <4>1
    <3> QED BY <3>1, <3>2
  <2>4. ASSUME NEW s \in Operators,
               SaveCreate(s) \/ SaveAttach(s) \/ SaveReconciled(s) \/ SaveSupersede(s) \/ SaveLink(s)
        PROVE  session'[o] = session[o]
    <3>1. session' = [session EXCEPT ![s] = Idle]
      BY <2>4 DEF SaveCreate, SaveAttach, SaveReconciled, SaveSupersede, SaveLink, Abort, Commit
    <3> QED BY <2>1, <3>1
  <2>5. ASSUME NEW s \in Operators, BeginCreate(s) \/ BeginSupersede(s) \/ BeginLink(s) \/ Identify(s)
        PROVE  session'[o] = session[o]
    <3>1. CASE BeginCreate(s)
      BY <2>2, <3>1 DEF BeginCreate
    <3>2. CASE BeginSupersede(s)
      BY <2>2, <3>2 DEF BeginSupersede
    <3>3. CASE BeginLink(s)
      BY <2>2, <3>3 DEF BeginLink
    <3>4. CASE Identify(s)
      BY <2>2, <3>4 DEF Identify
    <3> QED BY <2>5, <3>1, <3>2, <3>3, <3>4
  <2>6. ASSUME NEW s \in Operators, BeginAttach(s) PROVE session'[o] = session[o]
    <3>1. PICK p \in DOMAIN projects, upload \in Documents \X Sources \X Uploaders :
            Begin(s, [pc |-> "attach", project |-> p, upload |-> upload,
                      uploaded |-> upload \in origins, belongs |-> Belongs(p, upload[1])])
      BY <2>6, Zenon DEF BeginAttach
    <3> QED BY <2>2, <3>1
  <2>7. CASE (\E x \in Documents, v \in Versions : Analyse(x, v)) \/ (\E f \in IdentifierFacts : Retract(f)) \/ UNCHANGED vars
    BY <2>7 DEF Analyse, Retract, vars
  <2> QED BY <2>3, <2>4, <2>5, <2>6, <2>7 DEF Next
<1> QED BY <1>2, <1>3, <1>4

LEMMA PairsHold == Spec => []PInv
<1>1. Init => PInv
  BY DEF Init, PInv, WholeOrNot, ReadingIsBest, MemberIsBest, ReadingsMeet, MembersMeet, PairsWait,
         PairsAreRecorded, Derived, Idle, Reads
<1>2. IInv /\ PInv /\ [Next]_vars => PInv'
  BY WholeStep, ReadingStep, MemberStep, ReadingsMeetStep, MembersMeetStep, WaitStep, PairsStep DEF IInv, PInv
<1> QED BY <1>1, <1>2, Invariant, PTL DEF Spec

-----------------------------------------------------------------------------
(* Theorems *)

\* The rows that create_project, attach_upload, reconcile_projects,
\* record_supersession and link_work_items leave behind are well formed.
THEOREM TypeCorrect == Spec => []TypeOK
<1>1. IInv => TypeOK
  BY DEF IInv
<1> QED BY <1>1, Invariant, PTL

\* However many operators declare and derive projects at once, a source has one
\* project for a reference, whatever its spelling (create_project and
\* reconcile_projects look up, then insert under a unique key).
THEOREM OneProject == Spec => []OneProjectPerReference
<1>1. IInv => OneProjectPerReference
  BY UniqueKeys DEF IInv
<1> QED BY <1>1, Invariant, PTL

\* Whatever was read before whatever was declared, a derived membership is of a
\* document that states the project's reference and came from its source.
THEOREM Grouped == Spec => []GroupedByEvidence
<1>1. IInv => GroupedByEvidence
  BY DEF IInv
<1> QED BY <1>1, Invariant, PTL

\* A document counts exactly while no recorded edge replaces it, also when two
\* operators record contradictory edges at once (record_supersession).
THEOREM Superseded == Spec => []SupersededIsOut
<1>1. IInv => SupersededIsOut
  BY DEF IInv
<1> QED BY <1>1, Invariant, PTL

\* However reconciliations overlap, and whichever of two documents was read
\* first, the relation of two documents that were placed in one project is
\* recorded (_link_documents).
THEOREM Recorded == Spec => []PairsAreRecorded
<1>1. PInv => PairsAreRecorded
  BY DEF PInv
<1> QED BY <1>1, PairsHold, PTL

=============================================================================
