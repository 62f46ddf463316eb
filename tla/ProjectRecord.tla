---------------------------- MODULE ProjectRecord ----------------------------
(***************************************************************************)
(* Which documents belong together, and which of them count: projects that *)
(* are declared (workspace/__init__.py) or derived from the identifiers    *)
(* that documents state (extraction/projects.py), supersession             *)
(* (extraction/supersede.py) and work items (extraction/work_items.py).    *)
(*                                                                         *)
(* Operators of the command line and the API work at the same time.  A     *)
(* transaction looks up what it needs in a step or two and writes in its   *)
(* last one; a unique key it then violates ends it without effect.         *)
(***************************************************************************)
EXTENDS Naturals, FiniteSets, SequencesExt

CONSTANTS
    Documents,      \* numbers, in the order of their ids
    Sources,
    Spellings,      \* of references
    Normalised,     \* normalise_project_key: case and white space
    Versions,       \* of the extractors
    Stated,         \* Stated[d][v]: the identifiers v reads in d, by fact type
    Retrieved,      \* Retrieved[d]: the sources d was retrieved from
    Uploaders,      \* who uploads, each from a path of his own
    RowKeys,        \* RowKeys[d]: the normalised item numbers of its rows
    Operators,
    Transactions,   \* bound: transactions begun
    Changes,        \* bound: identifiers retracted
    None

ASSUME RecordAssumption ==
    /\ Documents \subseteq Nat /\ IsFiniteSet(Documents)
    /\ \A x \in Spellings : Normalised[x] \in Spellings
    /\ \A x \in Spellings : Normalised[Normalised[x]] = Normalised[x]
    /\ None \notin Spellings /\ None \notin Nat
    /\ \A d \in Documents, v \in Versions :
         Stated[d][v] \in [{"nit", "reference"} -> Spellings \cup {None}]
    /\ \A d \in Documents : Retrieved[d] \subseteq Sources

VARIABLES
    projects,       \* a sequence of rows; a project's id is its index
    members,        \* project_documents
    relations,      \* document_relationships
    origins,        \* document_retrievals and document_uploads
    standing,       \* identifier facts that are stored and not retracted
    withdrawn,      \* identifier facts with a row in fact_retractions
    versionState,   \* column of documents
    items,          \* work_items
    anchor,         \* work_item_id of the facts of a row
    session, count

record == <<projects, members, relations, origins, versionState, items, anchor>>
vars == <<record, standing, withdrawn, session, count>>

FactTypes == {"nit", "reference"}

\* extracted_facts keeps a row for each version that read an identifier.
IdentifierFacts == {f \in Documents \X FactTypes \X Versions : Stated[f[1]][f[3]][f[2]] # None}

\* normalise_project_key of the literal of a fact.
Reference(f) == Normalised[Stated[f[1]][f[3]][f[2]]]

\* An upload is of a document, from a source, by someone; a retrieval by None.
Origin == Documents \X Sources \X (Uploaders \cup {None})

Rows == {r \in Documents \X UNION {RowKeys[d] : d \in Documents} : r[2] \in RowKeys[r[1]]}

ProjectRow == [source : Sources, ref : Spellings \cup {None}]
Member == [project : Nat, doc : Documents, by : {"declared", "shared_fact"}]
RelationTypes == {"same_tender", "same_contract", "supersedes"}
Relation == [project : Nat, from : Documents, to : Documents, type : RelationTypes]

Idle == [pc |-> "idle"]

\* project_documents and document_relationships without what no key is on.
Belongs(p, d) == \E m \in members : m.project = p /\ m.doc = d
Related(from, to, type) ==
    \E r \in relations : r.from = from /\ r.to = to /\ r.type = type

\* The project of a source with a reference, or None.
FindProject(source, ref) ==
    IF \E p \in DOMAIN projects : projects[p].source = source /\ projects[p].ref = ref
    THEN CHOOSE p \in DOMAIN projects : projects[p].source = source /\ projects[p].ref = ref
    ELSE None

TypeOK ==
    /\ projects \in Seq(ProjectRow)
    /\ members \subseteq Member /\ relations \subseteq Relation
    /\ \A m \in members : m.project \in DOMAIN projects
    /\ origins \subseteq Origin
    /\ versionState \in [Documents -> {"active", "superseded", "unknown"}]
    /\ anchor \in [Rows -> {None} \cup DOMAIN projects]
    /\ items \subseteq (DOMAIN projects) \X UNION {RowKeys[d] : d \in Documents}
    /\ standing \subseteq IdentifierFacts /\ withdrawn \subseteq IdentifierFacts

Init ==
    /\ projects = <<>> /\ members = {} /\ relations = {} /\ items = {}
    /\ origins = {o \in Origin : o[2] \in Retrieved[o[1]] /\ o[3] = None}
    /\ standing = {} /\ withdrawn = {}
    /\ versionState = [d \in Documents |-> "active"]
    /\ anchor = [r \in Rows |-> None]
    /\ session = [o \in Operators |-> Idle]
    /\ count = [transactions |-> 0, changes |-> 0]

\* A transaction begins with what it looked up.
Begin(o, txn) ==
    /\ session[o] = Idle /\ count.transactions < Transactions
    /\ session' = [session EXCEPT ![o] = txn]
    /\ count' = [count EXCEPT !.transactions = @ + 1]
    /\ UNCHANGED <<record, standing, withdrawn>>

\* A unique key is violated: the session is rolled back.
Abort(o) ==
    /\ session' = [session EXCEPT ![o] = Idle]
    /\ UNCHANGED <<record, standing, withdrawn, count>>

Commit(o) ==
    /\ session' = [session EXCEPT ![o] = Idle]
    /\ UNCHANGED <<standing, withdrawn, count>>

-----------------------------------------------------------------------------
(* Declared projects and uploads *)

\* Mutant: the reference is stored as it was typed.
ReferenceAsTyped(spelling) == spelling

\* create_project: the reference, in the form that reconciliation gives it.
ReferenceOf(spelling) == IF spelling = None THEN None ELSE Normalised[spelling]

\* create_project refuses a reference that its source has.
BeginCreate(o) ==
    \E source \in Sources, spelling \in Spellings \cup {None} :
        LET ref == ReferenceOf(spelling)
        IN  /\ ref # None => FindProject(source, ref) = None
            /\ Begin(o, [pc |-> "create", source |-> source, ref |-> ref])

\* A null reference is distinct from every other.
SaveCreate(o) ==
    /\ session[o].pc = "create"
    /\ LET row == [source |-> session[o].source, ref |-> session[o].ref]
       IN  IF row.ref # None /\ FindProject(row.source, row.ref) # None THEN Abort(o)
           ELSE /\ projects' = Append(projects, row)
                /\ UNCHANGED <<members, relations, origins, versionState, items, anchor>>
                /\ Commit(o)

\* attach_upload looks for the upload and for the membership.
BeginAttach(o) ==
    \E p \in DOMAIN projects, upload \in Documents \X Sources \X Uploaders :
        Begin(o, [pc |-> "attach", project |-> p, upload |-> upload,
                  uploaded |-> upload \in origins, belongs |-> Belongs(p, upload[1])])

\* One transaction for the upload and the membership.
SaveAttach(o) ==
    /\ session[o].pc = "attach"
    /\ LET t == session[o]
           doc == t.upload[1]
       IN  IF \/ ~ t.uploaded /\ t.upload \in origins
              \/ ~ t.belongs /\ Belongs(t.project, doc)
           THEN Abort(o)
           ELSE /\ origins' = origins \cup {t.upload}
                /\ members' = IF t.belongs THEN members
                              ELSE members \cup {[project |-> t.project, doc |-> doc, by |-> "declared"]}
                /\ UNCHANGED <<projects, relations, versionState, items, anchor>>
                /\ Commit(o)

-----------------------------------------------------------------------------
(* Derived projects: reconcile_projects *)

\* _PROJECT_KEY_FACTS, strongest first.
Rank(type) == IF type = "nit" THEN 0 ELSE 1

RelationshipForKey(type) == IF type = "nit" THEN "same_tender" ELSE "same_contract"

\* Mutant: the join does not say whose origin.
JoinRowsOfAny(d) ==
    {[type |-> f[2], source |-> o[2], ref |-> Reference(f)] :
        f \in {x \in standing : x[1] = d}, o \in origins}

\* The rows of the join of identifier facts, of whatever version, with the
\* origins of documents.
JoinRows(d) ==
    {[type |-> f[2], source |-> o[2], ref |-> Reference(f)] :
        f \in {x \in standing : x[1] = d}, o \in {x \in origins : x[1] = d}}

\* The first row of the strongest type; the query has no order.
BestRows(d) == {r \in JoinRows(d) : \A q \in JoinRows(d) : Rank(r.type) <= Rank(q.type)}

Readings ==
    LET placed == {d \in Documents : JoinRows(d) # {}}
        all == UNION {BestRows(d) : d \in placed}
    IN  {r \in [placed -> all] : \A d \in placed : r[d] \in BestRows(d)}

Identify(o) ==
    \E reading \in Readings : Begin(o, [pc |-> "identify", reading |-> reading])

\* Documents are grouped by source and normalised reference.
GroupKey(reading, d) == [source |-> reading[d].source, ref |-> reading[d].ref]

GroupOf(reading, d) == {x \in DOMAIN reading : GroupKey(reading, x) = GroupKey(reading, d)}

\* Mutant: only documents that are new to the project are linked.
PairsOfNew(reading, type) ==
    {[from |-> d[1], to |-> d[2], type |-> RelationshipForKey(type[d[1]])] :
        d \in {x \in (DOMAIN reading) \X (DOMAIN reading) :
                 /\ x[1] < x[2] /\ x[2] \in GroupOf(reading, x[1])
                 /\ \A m \in members : m.doc \notin {x[1], x[2]}}}

\* _link_documents: every pair of a group, the lower id first.
Pairs(reading, type) ==
    {[from |-> d[1], to |-> d[2], type |-> RelationshipForKey(type[d[1]])] :
        d \in {x \in (DOMAIN reading) \X (DOMAIN reading) :
                 x[1] < x[2] /\ x[2] \in GroupOf(reading, x[1])}}

\* The project of each document's group, its memberships and its relations as
\* they are now.  A group is named after the type of any of its facts.
LookUp(o) ==
    /\ session[o].pc = "identify"
    /\ LET reading == session[o].reading
           project == [d \in DOMAIN reading |->
                         FindProject(GroupKey(reading, d).source, GroupKey(reading, d).ref)]
       IN  \E type \in [DOMAIN reading -> FactTypes] :
             /\ \A d \in DOMAIN reading : type[d] \in {reading[x].type : x \in GroupOf(reading, d)}
             /\ \A d \in DOMAIN reading : \A x \in GroupOf(reading, d) : type[x] = type[d]
             /\ session' = [session EXCEPT ![o] =
                  [pc |-> "reconcile", reading |-> reading, project |-> project,
                   joining |-> {d \in DOMAIN reading : ~ Belongs(project[d], d)},
                   pairs |-> {x \in Pairs(reading, type) : ~ Related(x.from, x.to, x.type)}]]
    /\ UNCHANGED <<record, standing, withdrawn, count>>

\* Mutant: the id of the project before it is given to its members.
IdByOffset(t, added, d) ==
    IF t.project[d] # None THEN t.project[d]
    ELSE Len(projects) - 1 + CHOOSE i \in DOMAIN added : added[i] = GroupKey(t.reading, d)

\* The id of the project of a document, known or just inserted.
IdOf(t, added, d) ==
    IF t.project[d] # None THEN t.project[d]
    ELSE Len(projects) + CHOOSE i \in DOMAIN added : added[i] = GroupKey(t.reading, d)

\* What is missing is inserted; nothing is ever deleted.
SaveReconciled(o) ==
    /\ session[o].pc = "reconcile"
    /\ LET t == session[o]
           new == {GroupKey(t.reading, d) : d \in {x \in DOMAIN t.reading : t.project[x] = None}}
           added == SetToSeq(new)
       IN  IF \/ \E k \in new : FindProject(k.source, k.ref) # None
              \/ \E d \in t.joining : Belongs(t.project[d], d)
              \/ \E x \in t.pairs : Related(x.from, x.to, x.type)
           THEN Abort(o)
           ELSE /\ projects' = projects \o added
                /\ members' = members \cup
                     {[project |-> IdOf(t, added, d), doc |-> d, by |-> "shared_fact"] : d \in t.joining}
                /\ relations' = relations \cup
                     {[project |-> IdOf(t, added, x.from), from |-> x.from, to |-> x.to, type |-> x.type] : x \in t.pairs}
                /\ UNCHANGED <<origins, versionState, items, anchor>>
                /\ Commit(o)

-----------------------------------------------------------------------------
(* Supersession: record_supersession *)

SharedProjects(a, b) == {p \in DOMAIN projects : Belongs(p, a) /\ Belongs(p, b)}

\* The edge and its reverse, as they are now; a shared project is needed.
BeginSupersede(o) ==
    \E a, b \in Documents :
        /\ a # b
        /\ \E p \in SharedProjects(a, b) :
             Begin(o, [pc |-> "supersede", from |-> a, to |-> b, project |-> p,
                       recorded |-> Related(a, b, "supersedes"),
                       contradicted |-> Related(b, a, "supersedes")])

\* Mutant: a document that replaces its replacement is current again.
JudgedByLast(t) ==
    [versionState EXCEPT ![t.to] = "superseded", ![t.from] = IF t.contradicted THEN "active" ELSE @]

\* Two that supersede each other are both unknown.
Judged(t) ==
    IF t.contradicted
    THEN [versionState EXCEPT ![t.from] = "unknown", ![t.to] = "unknown"]
    ELSE [versionState EXCEPT ![t.to] = "superseded"]

SaveSupersede(o) ==
    /\ session[o].pc = "supersede"
    /\ LET t == session[o]
           edge == [project |-> t.project, from |-> t.from, to |-> t.to, type |-> "supersedes"]
       IN  IF ~ t.recorded /\ Related(t.from, t.to, "supersedes") THEN Abort(o)
           ELSE /\ relations' = IF t.recorded THEN relations ELSE relations \cup {edge}
                /\ versionState' = Judged(t)
                /\ UNCHANGED <<projects, members, origins, items, anchor>>
                /\ Commit(o)

-----------------------------------------------------------------------------
(* Work items: link_work_items *)

\* The item of a row: that of the project with the normalised number.
ItemOf(p, key) == <<p, key>>

\* The rows of the project's documents, and the items they point at.
BeginLink(o) ==
    \E p \in DOMAIN projects :
        LET rows == {r \in Rows : Belongs(p, r[1])}
        IN  /\ rows # {}
            /\ Begin(o, [pc |-> "link", project |-> p, loaded |-> [r \in rows |-> anchor[r]],
                         items |-> [r \in rows |-> ItemOf(p, r[2])],
                         missing |-> {ItemOf(p, r[2]) : r \in rows} \ items])

\* A fact that was loaded with the right item is left alone.
SaveLink(o) ==
    /\ session[o].pc = "link"
    /\ LET t == session[o]
       IN  IF t.missing \cap items # {} THEN Abort(o)
           ELSE /\ items' = items \cup t.missing
                /\ anchor' = [r \in Rows |->
                      IF r \in DOMAIN t.loaded /\ t.loaded[r] # t.items[r][1]
                      THEN t.items[r][1] ELSE anchor[r]]
                /\ UNCHANGED <<projects, members, relations, origins, versionState>>
                /\ Commit(o)

-----------------------------------------------------------------------------
(* Analyses, which Evidence models *)

\* A version reads a document and adds its facts.  What was withdrawn stays so.
Analyse(d, v) ==
    LET read == {f \in IdentifierFacts : f[1] = d /\ f[3] = v} \ withdrawn
    IN  /\ ~ read \subseteq standing
        /\ standing' = standing \cup read
        /\ UNCHANGED <<record, withdrawn, session, count>>

\* A fact is retracted (persist_retractions).
Retract(f) ==
    /\ f \in standing /\ count.changes < Changes
    /\ standing' = standing \ {f}
    /\ withdrawn' = withdrawn \cup {f}
    /\ count' = [count EXCEPT !.changes = @ + 1]
    /\ UNCHANGED <<record, session>>

Next ==
    \/ \E o \in Operators :
         \/ BeginCreate(o) \/ SaveCreate(o) \/ BeginAttach(o) \/ SaveAttach(o)
         \/ Identify(o) \/ LookUp(o) \/ SaveReconciled(o)
         \/ BeginSupersede(o) \/ SaveSupersede(o) \/ BeginLink(o) \/ SaveLink(o)
    \/ \E d \in Documents, v \in Versions : Analyse(d, v)
    \/ \E f \in IdentifierFacts : Retract(f)

Spec == Init /\ [][Next]_vars

-----------------------------------------------------------------------------
(* Properties *)

\* What is declared and what is derived converge: no source has two projects
\* whose references are one reference, in whatever order and spelling they
\* were declared or read (create_project, reconcile_projects).
OneProjectPerReference ==
    \A p, q \in DOMAIN projects :
        /\ projects[p].source = projects[q].source
        /\ projects[p].ref # None /\ projects[q].ref # None
        /\ Normalised[projects[p].ref] = Normalised[projects[q].ref]
        => p = q

\* A document that reconciliation placed in a project was read, by some version,
\* to state its reference, and came from its source: no group crosses sources
\* (reconcile_projects).
GroupedByEvidence ==
    \A m \in members : m.by = "shared_fact" =>
        /\ \E o \in origins : o[1] = m.doc /\ o[2] = projects[m.project].source
        /\ \E f \in IdentifierFacts : f[1] = m.doc /\ Reference(f) = projects[m.project].ref

\* What a version reads a document to be.
Identity(d, v) ==
    [type \in FactTypes |-> IF Stated[d][v][type] = None THEN None ELSE Reference(<<d, type, v>>)]

\* A document of one source that every version that read it read alike, and
\* none of whose identifiers was withdrawn.
Steady(d) ==
    /\ \A f \in withdrawn : f[1] # d
    /\ \A f, g \in standing : f[1] = d /\ g[1] = d => Identity(d, f[3]) = Identity(d, g[3])
    /\ \A a, b \in origins : a[1] = d /\ b[1] = d => a[2] = b[2]

\* Of two steady documents that reconciliation placed together the relation is
\* recorded, whichever came first (_link_documents).  Of others it need not be:
\* the query takes any row of the strongest type, so two runs may place a
\* document that two versions read differently in two projects.
PairsAreRecorded ==
    \A m, n \in members :
        /\ m.project = n.project /\ m.by = "shared_fact" /\ n.by = "shared_fact"
        /\ m.doc < n.doc /\ Steady(m.doc) /\ Steady(n.doc)
        => \E type \in RelationTypes : Related(m.doc, n.doc, type)

\* A document counts until one is recorded that replaces it, and never again,
\* not even if two operators record contradictory edges at once.
SupersededIsOut ==
    \A d \in Documents :
        versionState[d] = "active" <=> \A r \in relations : ~ (r.type = "supersedes" /\ r.to = d)

=============================================================================
