---------------------------- MODULE CorpusIntake ----------------------------
(***************************************************************************)
(* How bytes become a document.  Two kinds of writer bring them: the       *)
(* crawler, which downloads a body (acquisition/pipeline.py), and an       *)
(* operator, who ingests a file (extraction/ingest.py).  Both put the      *)
(* bytes in the object store first (infrastructure/storage/objects.py) and *)
(* record them in the database second (acquisition/provenance.py), in a    *)
(* transaction of their own, so that other writers, a failing store, a     *)
(* violated unique constraint or a crash can come between any two steps.   *)
(*                                                                         *)
(* The database is read committed: a writer reads what is committed, and   *)
(* an insert waits for an uncommitted insert of the same key and fails if  *)
(* that one commits.                                                       *)
(***************************************************************************)
EXTENDS ContentFormats

CONSTANTS
    Writers,
    Items,        \* what writers may bring: records of the fields below
    Digests,      \* DigestOf maps every item into this set
    Keys,         \* and KeyOf into this one
    Allowed,      \* DownloadPolicy.allowed_formats
    MaxBytes,     \* DownloadPolicy.max_bytes
    FaultBudget,  \* bound: crashes and refusals of the store, together
    NoRow, NoKey

(***************************************************************************)
(* An item is a body to download, with the fields of ContentFormats, or a  *)
(* file to ingest, whose operator states its format and its type:          *)
(*   kind "crawl"  source, content, bytes, sniffed, media, name, declared, *)
(*                 encoded                                                 *)
(*   kind "file"   source, content, bytes, format, type, by                *)
(***************************************************************************)

VARIABLES
    item,        \* item[w]: what writer w brings, again until it is recorded
    objects,     \* keys that have an object in the raw tier
    documents,   \* committed rows of the documents table, by digest
    retrievals,  \* committed rows of document_retrievals
    uploads,     \* committed rows of document_uploads
    pc,          \* how far writer w has come
    saw,         \* saw[w]: the document row w read, or NoRow
    writes,      \* writes[w]: what w's flushed statements do to documents
    logs,        \* logs[w]: w inserts a row for the event itself
    faults

vars == <<item, objects, documents, retrievals, uploads, pc, saw, writes, logs, faults>>

\* ContentIdentity: the document is identified by the bytes that arrived.
DigestOf(i) == <<i.content, i.bytes>>

\* The format i is stored under: what download resolves, or what the operator
\* states of a file that is not empty.
FormatOf(i) ==
    IF i.kind = "crawl" THEN Accepted(i, MaxBytes, Allowed)
    ELSE IF i.bytes = 0 THEN Refused ELSE i.format

\* raw_key: the digest, under a directory of the source.
KeyOf(i) == [source |-> i.source, digest |-> DigestOf(i), format |-> FormatOf(i)]

Digest(w) == DigestOf(item[w])
Key(w) == KeyOf(item[w])
Crawls(w) == item[w].kind = "crawl"

\* Document: the columns that intake decides.
Document ==
    [format : FileFormat, key : Keys,
     type : {"unknown"} \cup {i.type : i \in {j \in Items : j.kind # "crawl"}}]

ASSUME IntakeAssumption ==
    /\ Allowed \subseteq FileFormat
    /\ FaultBudget \in Nat
    /\ NoRow \notin Document
    /\ NoKey \notin Keys
    /\ \A i \in Items :
         /\ DigestOf(i) \in Digests
         /\ FormatOf(i) # Refused => KeyOf(i) \in Keys
         /\ i.kind # "crawl" => i.format \in FileFormat

\* The row a writer inserts; a crawled document has no type yet.
NewDocument(w) ==
    [format |-> FormatOf(item[w]), key |-> Key(w),
     type |-> IF Crawls(w) THEN "unknown" ELSE item[w].type]

\* DocumentRetrieval: appended by every acquisition, under the key it wrote.
Retrieval(w) == [document |-> Digest(w), key |-> Key(w)]

\* DocumentUpload: one row for each uploader of a document from a source.
Upload(w) == [document |-> Digest(w), source |-> item[w].source, by |-> item[w].by]

InTransaction == {"found", "flushed", "looked", "written"}
Steps == {"ready", "staged", "absent", "uploaded", "stored", "done", "refused"} \cup InTransaction

TypeOK ==
    /\ item \in [Writers -> Items]
    /\ objects \subseteq Keys
    /\ documents \in [Digests -> Document \cup {NoRow}]
    /\ retrievals \subseteq [document : Digests, key : Keys]
    /\ \A u \in uploads : u.document \in Digests
    /\ pc \in [Writers -> Steps]
    /\ saw \in [Writers -> Document \cup {NoRow}]
    /\ writes \in [Writers -> {"nothing", "insert", "retype"}]
    /\ logs \in [Writers -> BOOLEAN]
    /\ faults \in 0..FaultBudget

Init ==
    /\ item \in [Writers -> Items]
    /\ objects = {}
    /\ documents = [d \in Digests |-> NoRow]
    /\ retrievals = {}
    /\ uploads = {}
    /\ pc = [w \in Writers |-> "ready"]
    /\ saw = [w \in Writers |-> NoRow]
    /\ writes = [w \in Writers |-> "nothing"]
    /\ logs = [w \in Writers |-> FALSE]
    /\ faults = 0

database == <<documents, retrievals, uploads>>
pending == <<saw, writes, logs>>

Go(w, step) == pc' = [pc EXCEPT ![w] = step]

-----------------------------------------------------------------------------
(* Bytes *)

\* Mutant: an empty file is taken.
ReceiveAnything(w) ==
    /\ pc[w] = "ready"
    /\ Go(w, "staged")
    /\ UNCHANGED <<item, objects, database, pending, faults>>

\* download, or reading the file: a body that fails a check is quarantined, an
\* empty file is not taken, and neither is tried again.
Receive(w) ==
    /\ pc[w] = "ready"
    /\ Go(w, IF FormatOf(item[w]) = Refused THEN "refused" ELSE "staged")
    /\ UNCHANGED <<item, objects, database, pending, faults>>

\* _confirm_existing: an object under the key of w is the one w brings, for the
\* key holds the digest.
Held(w) == Key(w) \in objects

\* RawObjectStore.put looks first, and uploads nothing that is already there.
Head(w) ==
    /\ pc[w] = "staged"
    /\ Go(w, IF Held(w) THEN "stored" ELSE "absent")
    /\ UNCHANGED <<item, objects, database, pending, faults>>

\* _upload: the store checks the digest, so what it keeps is what was sent.
PutObject(w) ==
    /\ pc[w] = "absent"
    /\ objects' = objects \cup {Key(w)}
    /\ Go(w, "uploaded")
    /\ UNCHANGED <<item, database, pending, faults>>

\* put reads its object back, and confirms that it is there.
ReadBack(w) ==
    /\ pc[w] = "uploaded"
    /\ Held(w)
    /\ Go(w, "stored")
    /\ UNCHANGED <<item, objects, database, pending, faults>>

\* The store refuses a request: the crawler records the failure of the URL, the
\* operator sees an error, and either may come again.
StoreFails(w) ==
    /\ pc[w] \in {"staged", "absent", "uploaded"}
    /\ faults < FaultBudget
    /\ faults' = faults + 1
    /\ Go(w, "ready")
    /\ UNCHANGED <<item, objects, database, pending>>

-----------------------------------------------------------------------------
(* Rows *)

\* The transaction of w ends without a trace.
Forget(w) ==
    /\ saw' = [saw EXCEPT ![w] = NoRow]
    /\ writes' = [writes EXCEPT ![w] = "nothing"]
    /\ logs' = [logs EXCEPT ![w] = FALSE]

\* Mutant: only the digest of a known document is compared.
MatchesAnyFormat(w, row) == TRUE

\* Two payloads cannot have one digest, but the same bytes may be served as
\* two formats: _check_matches_existing refuses the second.
Matches(w, row) == row.format = FormatOf(item[w])

\* Mutant: ingest_file refuses what the crawler refuses.
LookUpStrictly(w) ==
    LET row == documents[Digest(w)]
    IN  /\ pc[w] = "stored"
        /\ IF row # NoRow /\ ~ Matches(w, row)
           THEN Go(w, "ready") /\ UNCHANGED saw
           ELSE Go(w, "found") /\ saw' = [saw EXCEPT ![w] = row]
        /\ UNCHANGED <<item, objects, database, writes, logs, faults>>

\* session.get(Document): a crawler that finds the digest under another format
\* raises ProvenanceConflictError, which ends its run.
LookUp(w) ==
    LET row == documents[Digest(w)]
    IN  /\ pc[w] = "stored"
        /\ IF Crawls(w) /\ row # NoRow /\ ~ Matches(w, row)
           THEN Go(w, "ready") /\ UNCHANGED saw
           ELSE Go(w, "found") /\ saw' = [saw EXCEPT ![w] = row]
        /\ UNCHANGED <<item, objects, database, writes, logs, faults>>

\* Mutant: nothing keeps two inserts of one digest apart.
NeverBlocked(w) == FALSE

\* Some other transaction holds the key of w's document, uncommitted.
Blocked(w) ==
    \E v \in Writers \ {w} :
        pc[v] \in InTransaction /\ Digest(v) = Digest(w) /\ writes[v] # "nothing"

\* record_retrieval flushes its two rows together, and ingest_file the document
\* before it looks for the upload.
AfterDocument(w) == IF Crawls(w) THEN "written" ELSE "flushed"

\* The insert of a document that was not there when w looked: the unique key of
\* the digest refuses it if another writer has committed one since.
InsertDocument(w) ==
    /\ pc[w] = "found"
    /\ saw[w] = NoRow
    /\ ~ Blocked(w)
    /\ IF documents[Digest(w)] = NoRow
       THEN /\ writes' = [writes EXCEPT ![w] = "insert"]
            /\ Go(w, AfterDocument(w))
            /\ UNCHANGED <<saw, logs>>
       ELSE Go(w, "ready") /\ Forget(w)
    /\ UNCHANGED <<item, objects, database, faults>>

\* A known document keeps its row.  An operator who states another type than
\* the row that was read has it changed, under the lock of the row.
KeepDocument(w) ==
    /\ pc[w] = "found"
    /\ saw[w] # NoRow
    /\ IF Crawls(w) \/ item[w].type = saw[w].type
       THEN UNCHANGED writes
       ELSE ~ Blocked(w) /\ writes' = [writes EXCEPT ![w] = "retype"]
    /\ Go(w, AfterDocument(w))
    /\ UNCHANGED <<item, objects, database, saw, logs, faults>>

\* ingest_file looks for the upload of this operator.
FindUpload(w) ==
    /\ pc[w] = "flushed"
    /\ logs' = [logs EXCEPT ![w] = Upload(w) \notin uploads]
    /\ Go(w, "looked")
    /\ UNCHANGED <<item, objects, database, saw, writes, faults>>

\* It inserts the upload it did not find, unless the same operator's other
\* request has: the unique key refuses the second, and waits for the first.
InsertUpload(w) ==
    /\ pc[w] = "looked"
    /\ ~ \E v \in Writers \ {w} :
           pc[v] = "written" /\ ~ Crawls(v) /\ logs[v] /\ logs[w] /\ Upload(v) = Upload(w)
    /\ IF logs[w] /\ Upload(w) \in uploads
       THEN Go(w, "ready") /\ Forget(w)
       ELSE Go(w, "written") /\ UNCHANGED pending
    /\ UNCHANGED <<item, objects, database, faults>>

\* The caller commits, and the writer is done with its item.
Commit(w) ==
    /\ pc[w] = "written"
    /\ documents' =
         CASE writes[w] = "insert" -> [documents EXCEPT ![Digest(w)] = NewDocument(w)]
           [] writes[w] = "retype" -> [documents EXCEPT ![Digest(w)].type = item[w].type]
           [] OTHER -> documents
    /\ retrievals' = IF Crawls(w) THEN retrievals \cup {Retrieval(w)} ELSE retrievals
    /\ uploads' = IF logs[w] THEN uploads \cup {Upload(w)} ELSE uploads
    /\ Forget(w)
    /\ Go(w, "done")
    /\ UNCHANGED <<item, objects, faults>>

\* The process of w dies: the server rolls its transaction back, the object
\* store keeps what it has, and the item is brought again.
Crash(w) ==
    /\ pc[w] \notin {"ready", "done", "refused"}
    /\ faults < FaultBudget
    /\ faults' = faults + 1
    /\ Forget(w)
    /\ Go(w, "ready")
    /\ UNCHANGED <<item, objects, database>>

-----------------------------------------------------------------------------

Step(w) ==
    \/ Receive(w) \/ Head(w) \/ PutObject(w) \/ ReadBack(w)
    \/ LookUp(w) \/ InsertDocument(w) \/ KeepDocument(w)
    \/ FindUpload(w) \/ InsertUpload(w) \/ Commit(w)

Settled(w) == pc[w] \in {"done", "refused"}

\* Nothing is left to bring.
Finished == (\A w \in Writers : Settled(w)) /\ UNCHANGED vars

Next ==
    \/ \E w \in Writers : Step(w) \/ StoreFails(w) \/ Crash(w)
    \/ Finished

Spec == Init /\ [][Next]_vars

\* A writer's code runs on, and what failed is brought again: by the queue for
\* a URL, by the operator for a file.
FairSpec == Spec /\ \A w \in Writers : WF_vars(Step(w))

-----------------------------------------------------------------------------
(* Properties *)

\* Every event on record names an object that the store holds, and a retrieval
\* was of the format its document is recorded under, whichever writer inserted
\* the document and whatever the two did in between (record_retrieval).
EventsAreBacked ==
    /\ \A r \in retrievals :
         /\ r.key \in objects
         /\ documents[r.document] # NoRow
         /\ documents[r.document].format = r.key.format
    /\ \A u \in uploads :
         /\ documents[u.document] # NoRow
         /\ \E k \in objects : k.digest = u.document /\ k.source = u.source

\* The rows and the objects implement the archive that keeps what it was
\* given: no crash, failure or race records a document whose object is not
\* there, records one twice, or moves one to another object.
Archive ==
    INSTANCE CorpusArchive WITH
        held <- objects,
        recorded <- [d \in Digests |-> IF documents[d] = NoRow THEN NoKey ELSE documents[d].key]

ImplementsArchive == Archive!Spec

\* Whatever a writer brings is in the end recorded or refused, though it may
\* lose the race for the row, the store may fail and the process may die;
\* except a body that the corpus already holds under another format, which
\* ends a crawl each time it comes up.
Contradicted(w) ==
    Crawls(w) /\ documents[Digest(w)] # NoRow /\ ~ Matches(w, documents[Digest(w)])

EveryItemSettles == \A w \in Writers : <>(Settled(w) \/ Contradicted(w))

=============================================================================
