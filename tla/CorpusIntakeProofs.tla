-------------------------- MODULE CorpusIntakeProofs --------------------------
(***************************************************************************)
(* Theorems of CorpusIntake, for any writers, items and faults: whatever   *)
(* races, failures and crashes come between the steps, an event on record  *)
(* names an object that is stored, and the rows and the objects together   *)
(* are the archive of CorpusArchive.                                       *)
(***************************************************************************)
EXTENDS CorpusIntake, TLAPS

\* Where a writer has flushed its document.
Flushed == {"flushed", "looked", "written"}

\* What the steps of one writer rely on.  Only an accepted item goes on.
GoesOn(w) ==
    pc[w] \notin {"ready", "refused"} => FormatOf(item[w]) # Refused

\* The object comes before the row.
HasObject(w) ==
    pc[w] \in {"uploaded", "stored"} \cup InTransaction => Key(w) \in objects

\* A row that was read is still there, in the format it was read in.
ReadHolds(w) ==
    saw[w] # NoRow =>
        /\ pc[w] \in InTransaction
        /\ documents[Digest(w)] # NoRow
        /\ documents[Digest(w)].format = saw[w].format
        /\ Crawls(w) => saw[w].format = FormatOf(item[w])

\* A pending insert is of a document that nobody has committed.
InsertIsNew(w) ==
    writes[w] = "insert" =>
        /\ pc[w] \in Flushed
        /\ saw[w] = NoRow
        /\ documents[Digest(w)] = NoRow

\* Behind a writer that has flushed, there is or will be a row.
HasRow(w) ==
    pc[w] \in Flushed => writes[w] = "insert" \/ saw[w] # NoRow

\* Only an operator states a type.
RetypeIsStated(w) ==
    writes[w] = "retype" => ~ Crawls(w) /\ saw[w] # NoRow

Sound(w) ==
    /\ GoesOn(w) /\ HasObject(w) /\ ReadHolds(w)
    /\ InsertIsNew(w) /\ HasRow(w) /\ RetypeIsStated(w)

\* The unique key: one pending insert of a digest.
OneInsert ==
    \A v, w \in Writers :
        writes[v] = "insert" /\ writes[w] = "insert" /\ Digest(v) = Digest(w) => v = w

IInv == TypeOK /\ (\A w \in Writers : Sound(w)) /\ OneInsert /\ EventsAreBacked

-----------------------------------------------------------------------------
(* Formats and keys *)

\* What download accepts is of an allowed format, so the item that is not
\* refused has a format, a key and a digest of the right sets.
LEMMA AcceptedFormat ==
    ASSUME NEW i \in Items, FormatOf(i) # Refused
    PROVE  FormatOf(i) \in FileFormat
<1>1. CASE i.kind = "crawl"
  <2>1. FormatOf(i) = Resolve(i.media, i.name, i.sniffed, Allowed)
    BY <1>1 DEF FormatOf, Accepted
  <2>2. FormatOf(i) = ResolveFormat(i.media, i.name, i.sniffed, Allowed)
    BY <2>1 DEF Resolve
  <2>3. FormatOf(i) \in Allowed
    BY <2>2 DEF ResolveFormat
  <2> QED BY <2>3, IntakeAssumption DEF IntakeAssumption
<1>2. CASE i.kind # "crawl"
  BY <1>2, IntakeAssumption DEF IntakeAssumption, FormatOf
<1> QED BY <1>1, <1>2

LEMMA NewDocumentTyped ==
    ASSUME NEW w \in Writers, TypeOK, FormatOf(item[w]) # Refused
    PROVE  /\ NewDocument(w) \in Document
           /\ NewDocument(w) # NoRow
           /\ NewDocument(w).format = FormatOf(item[w])
           /\ NewDocument(w).key = Key(w)
           /\ Key(w) \in Keys
<1>1. item[w] \in Items
  BY DEF TypeOK
<1>2. FormatOf(item[w]) \in FileFormat
  BY <1>1, AcceptedFormat
<1>3. Key(w) \in Keys
  BY <1>1, IntakeAssumption DEF IntakeAssumption, Key
<1>5. NewDocument(w) \in Document
  BY <1>1, <1>2, <1>3 DEF NewDocument, Document, Crawls
<1> QED BY <1>3, <1>5, IntakeAssumption DEF IntakeAssumption, NewDocument

LEMMA DigestTyped ==
    ASSUME NEW w \in Writers, TypeOK
    PROVE  Digest(w) \in Digests
BY IntakeAssumption DEF IntakeAssumption, TypeOK, Digest

-----------------------------------------------------------------------------
(* Types *)

LEMMA InitInvariant == Init => IInv
<1> SUFFICES ASSUME Init PROVE IInv
  OBVIOUS
<1>1. TypeOK
  BY IntakeAssumption DEF IntakeAssumption, Init, TypeOK, Steps
<1>2. \A w \in Writers : Sound(w)
  BY DEF Init, Sound, GoesOn, HasObject, ReadHolds, InsertIsNew, HasRow, RetypeIsStated,
     InTransaction, Flushed
<1>3. OneInsert /\ EventsAreBacked
  BY DEF Init, OneInsert, EventsAreBacked
<1> QED BY <1>1, <1>2, <1>3 DEF IInv

LEMMA PcTyped ==
    ASSUME TypeOK, NEW w \in Writers, NEW s \in Steps, Go(w, s)
    PROVE  pc' \in [Writers -> Steps]
BY DEF TypeOK, Go

LEMMA ForgetTyped ==
    ASSUME TypeOK, NEW w \in Writers, Forget(w)
    PROVE  /\ saw' \in [Writers -> Document \cup {NoRow}]
           /\ writes' \in [Writers -> {"nothing", "insert", "retype"}]
           /\ logs' \in [Writers -> BOOLEAN]
BY DEF TypeOK, Forget

LEMMA TypeStep == IInv /\ [Next]_vars => TypeOK'
<1> SUFFICES ASSUME IInv, [Next]_vars PROVE TypeOK'
  OBVIOUS
<1>0. TypeOK
  BY DEF IInv
<1> USE DEF Steps, InTransaction
<1>1. ASSUME NEW w \in Writers, Receive(w) PROVE TypeOK'
  <2>1. pc' \in [Writers -> Steps]
    BY <1>0, <1>1, PcTyped DEF Receive
  <2> QED BY <1>0, <1>1, <2>1 DEF TypeOK, Receive, database, pending
<1>2. ASSUME NEW w \in Writers, Head(w) PROVE TypeOK'
  <2>1. pc' \in [Writers -> Steps]
    BY <1>0, <1>2, PcTyped DEF Head
  <2> QED BY <1>0, <1>2, <2>1 DEF TypeOK, Head, database, pending
<1>3. ASSUME NEW w \in Writers, PutObject(w) PROVE TypeOK'
  <2>1. pc' \in [Writers -> Steps]
    BY <1>0, <1>3, PcTyped DEF PutObject
  <2>2. Key(w) \in Keys
    BY <1>0, <1>3, NewDocumentTyped DEF IInv, Sound, GoesOn, PutObject
  <2> QED BY <1>0, <1>3, <2>1, <2>2 DEF TypeOK, PutObject, database, pending
<1>4. ASSUME NEW w \in Writers, ReadBack(w) PROVE TypeOK'
  <2>1. pc' \in [Writers -> Steps]
    BY <1>0, <1>4, PcTyped DEF ReadBack
  <2> QED BY <1>0, <1>4, <2>1 DEF TypeOK, ReadBack, database, pending
<1>5. ASSUME NEW w \in Writers, LookUp(w) PROVE TypeOK'
  <2>1. pc' \in [Writers -> Steps]
    BY <1>0, <1>5, PcTyped DEF LookUp
  <2>2. documents[Digest(w)] \in Document \cup {NoRow}
    BY <1>0, DigestTyped DEF TypeOK
  <2>3. saw' \in [Writers -> Document \cup {NoRow}]
    BY <1>0, <1>5, <2>2 DEF LookUp, TypeOK
  <2> QED BY <1>0, <1>5, <2>1, <2>3 DEF TypeOK, LookUp, database
<1>6. ASSUME NEW w \in Writers, InsertDocument(w) PROVE TypeOK'
  <2>1. pc' \in [Writers -> Steps]
    BY <1>0, <1>6, PcTyped DEF InsertDocument, AfterDocument
  <2>2. /\ saw' \in [Writers -> Document \cup {NoRow}]
        /\ writes' \in [Writers -> {"nothing", "insert", "retype"}]
        /\ logs' \in [Writers -> BOOLEAN]
    <3>1. CASE documents[Digest(w)] = NoRow
      BY <1>0, <1>6, <3>1 DEF InsertDocument, TypeOK
    <3>2. CASE documents[Digest(w)] # NoRow
      BY <1>0, <1>6, <3>2, ForgetTyped DEF InsertDocument
    <3> QED BY <3>1, <3>2
  <2> QED BY <1>0, <1>6, <2>1, <2>2 DEF TypeOK, InsertDocument, database
<1>7. ASSUME NEW w \in Writers, KeepDocument(w) PROVE TypeOK'
  <2>1. pc' \in [Writers -> Steps]
    BY <1>0, <1>7, PcTyped DEF KeepDocument, AfterDocument
  <2>2. writes' \in [Writers -> {"nothing", "insert", "retype"}]
    BY <1>0, <1>7 DEF KeepDocument, TypeOK
  <2> QED BY <1>0, <1>7, <2>1, <2>2 DEF TypeOK, KeepDocument, database
<1>8. ASSUME NEW w \in Writers, FindUpload(w) PROVE TypeOK'
  <2>1. pc' \in [Writers -> Steps]
    BY <1>0, <1>8, PcTyped DEF FindUpload
  <2>2. logs' \in [Writers -> BOOLEAN]
    BY <1>0, <1>8 DEF FindUpload, TypeOK
  <2> QED BY <1>0, <1>8, <2>1, <2>2 DEF TypeOK, FindUpload, database
<1>9. ASSUME NEW w \in Writers, InsertUpload(w) PROVE TypeOK'
  <2>1. pc' \in [Writers -> Steps]
    BY <1>0, <1>9, PcTyped DEF InsertUpload
  <2>2. /\ saw' \in [Writers -> Document \cup {NoRow}]
        /\ writes' \in [Writers -> {"nothing", "insert", "retype"}]
        /\ logs' \in [Writers -> BOOLEAN]
    <3>1. CASE Forget(w)
      BY <1>0, <3>1, ForgetTyped
    <3>2. CASE UNCHANGED pending
      BY <1>0, <3>2 DEF pending, TypeOK
    <3> QED BY <1>9, <3>1, <3>2 DEF InsertUpload
  <2> QED BY <1>0, <1>9, <2>1, <2>2 DEF TypeOK, InsertUpload, database
<1>10. ASSUME NEW w \in Writers, Commit(w) PROVE TypeOK'
  <2>1. pc' \in [Writers -> Steps]
    BY <1>0, <1>10, PcTyped DEF Commit
  <2>2. FormatOf(item[w]) # Refused
    BY <1>10 DEF Commit, IInv, Sound, GoesOn
  <2>3. NewDocument(w) \in Document /\ Key(w) \in Keys /\ Digest(w) \in Digests
    BY <1>0, <2>2, NewDocumentTyped, DigestTyped
  <2>4. documents' \in [Digests -> Document \cup {NoRow}]
    <3>1. CASE writes[w] = "insert"
      BY <1>0, <1>10, <2>3, <3>1 DEF Commit, TypeOK
    <3>2. CASE writes[w] = "retype"
      <4>1. documents[Digest(w)] \in Document
        BY <1>0, <1>10, <2>3, <3>2 DEF Commit, IInv, Sound, ReadHolds, RetypeIsStated, TypeOK
      <4>2. documents' = [documents EXCEPT ![Digest(w)] =
                             [documents[Digest(w)] EXCEPT !.type = item[w].type]]
        BY <1>10, <3>2 DEF Commit
      <4>3. item[w] \in Items /\ item[w].kind # "crawl"
        BY <1>0, <3>2 DEF IInv, Sound, RetypeIsStated, Crawls, TypeOK
      <4>4. [documents[Digest(w)] EXCEPT !.type = item[w].type] \in Document
        BY <4>1, <4>3 DEF Document
      <4> QED BY <1>0, <4>2, <4>4 DEF TypeOK
    <3>3. CASE writes[w] = "nothing"
      BY <1>0, <1>10, <3>3 DEF Commit, TypeOK
    <3> QED BY <1>0, <3>1, <3>2, <3>3 DEF TypeOK
  <2>5. retrievals' \subseteq [document : Digests, key : Keys]
    BY <1>0, <1>10, <2>3 DEF Commit, TypeOK, Retrieval
  <2>6. \A u \in uploads' : u.document \in Digests
    BY <1>0, <1>10, <2>3 DEF Commit, TypeOK, Upload
  <2> QED BY <1>0, <1>10, <2>1, <2>4, <2>5, <2>6, ForgetTyped DEF TypeOK, Commit
<1>11. ASSUME NEW w \in Writers, StoreFails(w) \/ Crash(w) PROVE TypeOK'
  <2>1. pc' \in [Writers -> Steps]
    BY <1>0, <1>11, PcTyped DEF StoreFails, Crash
  <2>2. faults' \in 0..FaultBudget
    BY <1>0, <1>11, IntakeAssumption DEF IntakeAssumption, StoreFails, Crash, TypeOK
  <2>3. CASE StoreFails(w)
    BY <1>0, <2>1, <2>2, <2>3 DEF TypeOK, StoreFails, database, pending
  <2>4. CASE Crash(w)
    BY <1>0, <2>1, <2>2, <2>4, ForgetTyped DEF TypeOK, Crash, database
  <2> QED BY <1>11, <2>3, <2>4
<1>12. CASE UNCHANGED vars
  BY <1>0, <1>12 DEF TypeOK, vars
<1> QED
  BY <1>1, <1>2, <1>3, <1>4, <1>5, <1>6, <1>7, <1>8, <1>9, <1>10, <1>11, <1>12
  DEF Next, Step, Finished

-----------------------------------------------------------------------------
(* What a step does to the writers *)

\* A writer that did not move stays sound while documents stay as they are and
\* objects are only added.
LEMMA OthersStaySound ==
    ASSUME NEW x \in Writers, Sound(x), item' = item,
           pc'[x] = pc[x], saw'[x] = saw[x], writes'[x] = writes[x],
           objects \subseteq objects', documents' = documents
    PROVE  Sound(x)'
<1>1. (GoesOn(x) /\ HasObject(x) /\ HasRow(x) /\ RetypeIsStated(x))'
  BY DEF Sound, GoesOn, HasObject, HasRow, RetypeIsStated, Key, Crawls, InTransaction, Flushed
<1>2. (ReadHolds(x) /\ InsertIsNew(x))'
  BY DEF Sound, ReadHolds, InsertIsNew, Digest, Crawls, InTransaction, Flushed
<1> QED BY <1>1, <1>2 DEF Sound

\* A transaction that ended leaves nothing to be unsound about.
LEMMA ForgottenIsSound ==
    ASSUME NEW w \in Writers, TypeOK, Forget(w), Go(w, "ready")
    PROVE  Sound(w)'
<1>1. pc'[w] = "ready" /\ saw'[w] = NoRow /\ writes'[w] = "nothing"
  BY DEF TypeOK, Forget, Go
<1> QED
  BY <1>1 DEF Sound, GoesOn, HasObject, ReadHolds, InsertIsNew, HasRow, RetypeIsStated,
              InTransaction, Flushed

\* What a commit does to the rows: a row keeps its format and its key, and a
\* new row is the one the writer inserted.
LEMMA CommitKeepsRows ==
    ASSUME IInv, NEW w \in Writers, Commit(w), NEW d \in Digests
    PROVE  /\ documents[d] # NoRow =>
                 /\ documents'[d] # NoRow
                 /\ documents'[d].format = documents[d].format
                 /\ documents'[d].key = documents[d].key
           /\ documents[d] = NoRow /\ documents'[d] # NoRow =>
                 /\ writes[w] = "insert"
                 /\ d = Digest(w)
                 /\ documents'[d] = NewDocument(w)
<1>0. TypeOK /\ Sound(w) /\ documents \in [Digests -> Document \cup {NoRow}]
  BY DEF IInv, TypeOK
<1>1. CASE writes[w] = "insert"
  <2>1. documents' = [documents EXCEPT ![Digest(w)] = NewDocument(w)]
    BY <1>1 DEF Commit
  <2>2. documents[Digest(w)] = NoRow
    BY <1>0, <1>1 DEF Sound, InsertIsNew
  <2> QED BY <1>0, <1>1, <2>1, <2>2
<1>2. CASE writes[w] = "retype"
  <2>1. documents' = [documents EXCEPT ![Digest(w)] =
                         [documents[Digest(w)] EXCEPT !.type = item[w].type]]
    BY <1>2 DEF Commit
  <2>2. documents'[Digest(w)] \in Document \cup {NoRow} /\ Digest(w) \in Digests
    BY <1>0, TypeStep, DigestTyped DEF IInv, Next, Step, TypeOK
  <2>3. documents[Digest(w)] \in Document
    BY <1>0, <1>2, <2>2 DEF Sound, RetypeIsStated, ReadHolds
  <2>4. [documents[Digest(w)] EXCEPT !.type = item[w].type] # NoRow
    <3>1. item[w] \in Items /\ item[w].kind # "crawl"
      BY <1>0, <1>2 DEF Sound, RetypeIsStated, Crawls, TypeOK
    <3>2. [documents[Digest(w)] EXCEPT !.type = item[w].type] \in Document
      BY <2>3, <3>1 DEF Document
    <3> QED BY <3>2, IntakeAssumption DEF IntakeAssumption
  <2>5. /\ [documents[Digest(w)] EXCEPT !.type = item[w].type].format = documents[Digest(w)].format
        /\ [documents[Digest(w)] EXCEPT !.type = item[w].type].key = documents[Digest(w)].key
    BY <2>3 DEF Document
  <2>6. documents[Digest(w)] # NoRow
    BY <2>3, IntakeAssumption DEF IntakeAssumption
  <2>7. CASE d = Digest(w)
    BY <1>0, <2>1, <2>4, <2>5, <2>6, <2>7
  <2>8. CASE d # Digest(w)
    BY <1>0, <2>1, <2>8
  <2> QED BY <2>7, <2>8
<1>3. CASE writes[w] = "nothing"
  BY <1>3 DEF Commit
<1> QED BY <1>0, <1>1, <1>2, <1>3 DEF TypeOK

LEMMA SoundStep ==
    ASSUME IInv, [Next]_vars
    PROVE  \A x \in Writers : Sound(x)'
<1>0. TypeOK /\ \A x \in Writers : Sound(x)
  BY DEF IInv
<1>1. ASSUME NEW w \in Writers, Receive(w) PROVE \A x \in Writers : Sound(x)'
  <2>1. Sound(w)'
    BY <1>0, <1>1 DEF Receive, Go, TypeOK, pending, database, Sound, GoesOn, HasObject,
       ReadHolds, InsertIsNew, HasRow, RetypeIsStated, InTransaction, Flushed
  <2>2. \A x \in Writers \ {w} : Sound(x)'
    BY <1>0, <1>1, OthersStaySound DEF Receive, Go, TypeOK, pending, database
  <2> QED BY <2>1, <2>2
<1>2. ASSUME NEW w \in Writers, Head(w) PROVE \A x \in Writers : Sound(x)'
  <2>1. Sound(w)'
    BY <1>0, <1>2 DEF Head, Go, TypeOK, pending, database, Sound, GoesOn, HasObject, Held, Key,
       ReadHolds, InsertIsNew, HasRow, RetypeIsStated, InTransaction, Flushed
  <2>2. \A x \in Writers \ {w} : Sound(x)'
    BY <1>0, <1>2, OthersStaySound DEF Head, Go, TypeOK, pending, database
  <2> QED BY <2>1, <2>2
<1>3. ASSUME NEW w \in Writers, PutObject(w) PROVE \A x \in Writers : Sound(x)'
  <2>1. Sound(w)'
    BY <1>0, <1>3 DEF PutObject, Go, TypeOK, pending, database, Sound, GoesOn, HasObject, Key,
       ReadHolds, InsertIsNew, HasRow, RetypeIsStated, InTransaction, Flushed
  <2>2. \A x \in Writers \ {w} : Sound(x)'
    BY <1>0, <1>3, OthersStaySound DEF PutObject, Go, TypeOK, pending, database
  <2> QED BY <2>1, <2>2
<1>4. ASSUME NEW w \in Writers, ReadBack(w) PROVE \A x \in Writers : Sound(x)'
  <2>1. Sound(w)'
    BY <1>0, <1>4 DEF ReadBack, Go, TypeOK, pending, database, Sound, GoesOn, HasObject, Held, Key,
       ReadHolds, InsertIsNew, HasRow, RetypeIsStated, InTransaction, Flushed
  <2>2. \A x \in Writers \ {w} : Sound(x)'
    BY <1>0, <1>4, OthersStaySound DEF ReadBack, Go, TypeOK, pending, database
  <2> QED BY <2>1, <2>2
<1>5. ASSUME NEW w \in Writers, LookUp(w) PROVE \A x \in Writers : Sound(x)'
  <2>1. Sound(w)'
    <3>1. CASE Crawls(w) /\ documents[Digest(w)] # NoRow /\ ~ Matches(w, documents[Digest(w)])
      <4>1. pc'[w] = "ready" /\ saw' = saw /\ writes' = writes
        BY <1>0, <1>5, <3>1 DEF LookUp, Go, TypeOK
      <4>2. saw[w] = NoRow /\ writes[w] # "insert" /\ writes[w] # "retype"
        BY <1>0, <1>5 DEF LookUp, Sound, ReadHolds, InsertIsNew, RetypeIsStated, InTransaction, Flushed
      <4> QED BY <4>1, <4>2 DEF Sound, GoesOn, HasObject, ReadHolds, InsertIsNew, HasRow,
                 RetypeIsStated, InTransaction, Flushed
    <3>2. CASE ~ (Crawls(w) /\ documents[Digest(w)] # NoRow /\ ~ Matches(w, documents[Digest(w)]))
      <4>1. /\ pc'[w] = "found" /\ saw'[w] = documents[Digest(w)]
            /\ writes' = writes /\ documents' = documents /\ objects' = objects /\ item' = item
        BY <1>0, <1>5, <3>2 DEF LookUp, Go, TypeOK, database
      <4>2. writes[w] # "insert" /\ writes[w] # "retype"
        BY <1>0, <1>5 DEF LookUp, Sound, ReadHolds, InsertIsNew, RetypeIsStated, InTransaction, Flushed
      <4>3. FormatOf(item[w]) # Refused /\ Key(w) \in objects
        BY <1>0, <1>5 DEF LookUp, Sound, GoesOn, HasObject
      <4>4. ReadHolds(w)'
        BY <3>2, <4>1 DEF ReadHolds, Digest, Crawls, Matches, InTransaction
      <4> QED BY <4>1, <4>2, <4>3, <4>4 DEF Sound, GoesOn, HasObject, Key, InsertIsNew, HasRow,
                 RetypeIsStated, InTransaction, Flushed
    <3> QED BY <3>1, <3>2
  <2>2. \A x \in Writers \ {w} : Sound(x)'
    BY <1>0, <1>5, OthersStaySound DEF LookUp, Go, TypeOK, database
  <2> QED BY <2>1, <2>2
<1>6. ASSUME NEW w \in Writers, InsertDocument(w) PROVE \A x \in Writers : Sound(x)'
  <2>1. Sound(w)'
    <3>1. CASE documents[Digest(w)] = NoRow
      <4>1. /\ pc'[w] \in Flushed /\ writes'[w] = "insert" /\ saw'[w] = NoRow
            /\ documents' = documents /\ objects' = objects /\ item' = item
        BY <1>0, <1>6, <3>1 DEF InsertDocument, AfterDocument, Flushed, Go, TypeOK, database
      <4>2. FormatOf(item[w]) # Refused /\ Key(w) \in objects
        BY <1>0, <1>6 DEF InsertDocument, Sound, GoesOn, HasObject, InTransaction
      <4> QED BY <3>1, <4>1, <4>2 DEF Sound, GoesOn, HasObject, Key, ReadHolds, InsertIsNew, HasRow,
                 RetypeIsStated, Digest, InTransaction, Flushed
    <3>2. CASE documents[Digest(w)] # NoRow
      BY <1>0, <1>6, <3>2, ForgottenIsSound DEF InsertDocument
    <3> QED BY <3>1, <3>2
  <2>2. \A x \in Writers \ {w} : Sound(x)'
    BY <1>0, <1>6, OthersStaySound DEF InsertDocument, Forget, Go, TypeOK, database
  <2> QED BY <2>1, <2>2
<1>7. ASSUME NEW w \in Writers, KeepDocument(w) PROVE \A x \in Writers : Sound(x)'
  <2>1. Sound(w)'
    <3>1. /\ pc'[w] \in Flushed /\ saw' = saw /\ saw[w] # NoRow
          /\ documents' = documents /\ objects' = objects /\ item' = item
      BY <1>0, <1>7 DEF KeepDocument, AfterDocument, Flushed, Go, TypeOK, database
    <3>2. FormatOf(item[w]) # Refused /\ Key(w) \in objects /\ writes[w] # "insert"
      BY <1>0, <1>7 DEF KeepDocument, Sound, GoesOn, HasObject, InsertIsNew, InTransaction, Flushed
    <3>3. writes'[w] = writes[w] \/ (writes'[w] = "retype" /\ ~ Crawls(w))
      BY <1>0, <1>7 DEF KeepDocument, TypeOK
    <3>4. ReadHolds(w)'
      BY <1>0, <3>1 DEF Sound, ReadHolds, Digest, Crawls, InTransaction, Flushed
    <3>5. RetypeIsStated(w)' /\ InsertIsNew(w)'
      BY <1>0, <3>1, <3>2, <3>3 DEF Sound, RetypeIsStated, InsertIsNew, Crawls
    <3> QED BY <3>1, <3>2, <3>4, <3>5 DEF Sound, GoesOn, HasObject, Key, HasRow, InTransaction, Flushed
  <2>2. \A x \in Writers \ {w} : Sound(x)'
    BY <1>0, <1>7, OthersStaySound DEF KeepDocument, Go, TypeOK, database
  <2> QED BY <2>1, <2>2
<1>8. ASSUME NEW w \in Writers, FindUpload(w) PROVE \A x \in Writers : Sound(x)'
  <2>1. Sound(w)'
    BY <1>0, <1>8 DEF FindUpload, Go, TypeOK, database, Sound, GoesOn, HasObject, Key, Crawls,
       Digest, ReadHolds, InsertIsNew, HasRow, RetypeIsStated, InTransaction, Flushed
  <2>2. \A x \in Writers \ {w} : Sound(x)'
    BY <1>0, <1>8, OthersStaySound DEF FindUpload, Go, TypeOK, database
  <2> QED BY <2>1, <2>2
<1>9. ASSUME NEW w \in Writers, InsertUpload(w) PROVE \A x \in Writers : Sound(x)'
  <2>1. Sound(w)'
    <3>1. CASE logs[w] /\ Upload(w) \in uploads
      BY <1>0, <1>9, <3>1, ForgottenIsSound DEF InsertUpload
    <3>2. CASE ~ (logs[w] /\ Upload(w) \in uploads)
      BY <1>0, <1>9, <3>2 DEF InsertUpload, Go, TypeOK, database, pending, Sound, GoesOn, HasObject,
         Key, Crawls, Digest, ReadHolds, InsertIsNew, HasRow, RetypeIsStated, InTransaction, Flushed
    <3> QED BY <3>1, <3>2
  <2>2. \A x \in Writers \ {w} : Sound(x)'
    BY <1>0, <1>9, OthersStaySound DEF InsertUpload, Forget, Go, TypeOK, database, pending
  <2> QED BY <2>1, <2>2
<1>10. ASSUME NEW w \in Writers, Commit(w) PROVE \A x \in Writers : Sound(x)'
  <2>1. Sound(w)'
    <3>1. pc'[w] = "done" /\ saw'[w] = NoRow /\ writes'[w] = "nothing" /\ item' = item
      BY <1>0, <1>10 DEF Commit, Forget, Go, TypeOK
    <3>2. FormatOf(item[w]) # Refused
      BY <1>0, <1>10 DEF Commit, Sound, GoesOn
    <3> QED BY <3>1, <3>2 DEF Sound, GoesOn, HasObject, ReadHolds, InsertIsNew, HasRow,
               RetypeIsStated, InTransaction, Flushed
  <2>2. ASSUME NEW x \in Writers \ {w} PROVE Sound(x)'
    <3>1. /\ item' = item /\ objects' = objects
          /\ pc'[x] = pc[x] /\ saw'[x] = saw[x] /\ writes'[x] = writes[x]
      BY <1>0, <1>10 DEF Commit, Forget, Go, TypeOK
    <3>2. Digest(x) \in Digests
      BY <1>0, DigestTyped
    <3>3. ReadHolds(x)'
      BY <1>0, <1>10, <3>1, <3>2, CommitKeepsRows DEF Sound, ReadHolds, Digest, Crawls
    <3>4. InsertIsNew(x)'
      BY <1>0, <1>10, <3>1, <3>2, CommitKeepsRows DEF IInv, OneInsert, Sound, InsertIsNew, Digest
    <3>5. (GoesOn(x) /\ HasObject(x) /\ HasRow(x) /\ RetypeIsStated(x))'
      BY <1>0, <3>1 DEF Sound, GoesOn, HasObject, HasRow, RetypeIsStated, Key, Crawls
    <3> QED BY <3>3, <3>4, <3>5 DEF Sound
  <2> QED BY <2>1, <2>2
<1>11. ASSUME NEW w \in Writers, StoreFails(w) PROVE \A x \in Writers : Sound(x)'
  <2>1. Sound(w)'
    BY <1>0, <1>11 DEF StoreFails, Go, TypeOK, pending, database, Sound, GoesOn, HasObject,
       ReadHolds, InsertIsNew, HasRow, RetypeIsStated, InTransaction, Flushed
  <2>2. \A x \in Writers \ {w} : Sound(x)'
    BY <1>0, <1>11, OthersStaySound DEF StoreFails, Go, TypeOK, pending, database
  <2> QED BY <2>1, <2>2
<1>12. ASSUME NEW w \in Writers, Crash(w) PROVE \A x \in Writers : Sound(x)'
  <2>1. Sound(w)'
    BY <1>0, <1>12, ForgottenIsSound DEF Crash
  <2>2. \A x \in Writers \ {w} : Sound(x)'
    BY <1>0, <1>12, OthersStaySound DEF Crash, Forget, Go, TypeOK, database
  <2> QED BY <2>1, <2>2
<1>13. CASE UNCHANGED vars
  BY <1>0, <1>13, OthersStaySound DEF vars
<1> QED
  BY <1>1, <1>2, <1>3, <1>4, <1>5, <1>6, <1>7, <1>8, <1>9, <1>10, <1>11, <1>12, <1>13
  DEF Next, Step, Finished

\* An insert of a digest waits for the other's insert of it.
LEMMA OneInsertStep ==
    ASSUME IInv, [Next]_vars
    PROVE  OneInsert'
<1>0. TypeOK /\ OneInsert /\ \A x \in Writers : Sound(x)
  BY DEF IInv
<1>1. ASSUME NEW w \in Writers, InsertDocument(w) PROVE OneInsert'
  <2>1. CASE documents[Digest(w)] = NoRow
    <3>1. item' = item /\ writes' = [writes EXCEPT ![w] = "insert"]
      BY <1>1, <2>1 DEF InsertDocument
    <3>2. \A v \in Writers \ {w} : writes[v] = "insert" => Digest(v) # Digest(w)
      BY <1>0, <1>1 DEF InsertDocument, Blocked, Sound, InsertIsNew, Flushed, InTransaction
    <3> QED BY <1>0, <3>1, <3>2 DEF OneInsert, Digest, TypeOK
  <2>2. CASE documents[Digest(w)] # NoRow
    BY <1>0, <1>1, <2>2 DEF InsertDocument, Forget, OneInsert, Digest, TypeOK
  <2> QED BY <2>1, <2>2
<1>2. ASSUME NEW w \in Writers, KeepDocument(w) PROVE OneInsert'
  BY <1>0, <1>2 DEF KeepDocument, OneInsert, Digest, TypeOK
<1>3. ASSUME NEW w \in Writers, InsertUpload(w) PROVE OneInsert'
  BY <1>0, <1>3 DEF InsertUpload, Forget, pending, OneInsert, Digest, TypeOK
<1>4. ASSUME NEW w \in Writers, Commit(w) \/ Crash(w) PROVE OneInsert'
  BY <1>0, <1>4 DEF Commit, Crash, Forget, OneInsert, Digest, TypeOK
<1>5. CASE writes' = writes /\ item' = item
  BY <1>0, <1>5 DEF OneInsert, Digest
<1>6. ASSUME NEW w \in Writers,
             \/ Receive(w) \/ Head(w) \/ PutObject(w) \/ ReadBack(w)
             \/ LookUp(w) \/ FindUpload(w) \/ StoreFails(w)
      PROVE  writes' = writes /\ item' = item
  BY <1>6 DEF Receive, Head, PutObject, ReadBack, LookUp, FindUpload, StoreFails, pending
<1>7. CASE UNCHANGED vars
  BY <1>5, <1>7 DEF vars
<1> QED
  BY <1>1, <1>2, <1>3, <1>4, <1>5, <1>6, <1>7 DEF Next, Step, Finished

LEMMA EventsStep ==
    ASSUME IInv, [Next]_vars
    PROVE  EventsAreBacked'
<1>0. TypeOK /\ EventsAreBacked /\ \A x \in Writers : Sound(x)
  BY DEF IInv
<1>1. ASSUME NEW w \in Writers, Commit(w) PROVE EventsAreBacked'
  <2>0. objects' = objects /\ Digest(w) \in Digests
    BY <1>0, <1>1, DigestTyped DEF Commit
  <2>1. Key(w) \in objects /\ FormatOf(item[w]) # Refused
    BY <1>0, <1>1 DEF Commit, Sound, GoesOn, HasObject, InTransaction
  <2>2. /\ documents'[Digest(w)] # NoRow
        /\ Crawls(w) => documents'[Digest(w)].format = FormatOf(item[w])
    <3>1. CASE writes[w] = "insert"
      <4>1. documents'[Digest(w)] = NewDocument(w)
        BY <1>0, <1>1, <2>0, <3>1 DEF Commit, TypeOK
      <4> QED BY <1>0, <2>1, <4>1, NewDocumentTyped
    <3>2. CASE writes[w] # "insert"
      <4>1. /\ documents[Digest(w)] # NoRow
            /\ Crawls(w) => documents[Digest(w)].format = FormatOf(item[w])
        BY <1>0, <1>1, <3>2 DEF Commit, Sound, HasRow, ReadHolds, Flushed
      <4> QED BY <1>1, <2>0, <4>1, CommitKeepsRows
    <3> QED BY <3>1, <3>2
  <2>3. ASSUME NEW r \in retrievals'
        PROVE  /\ r.key \in objects'
               /\ documents'[r.document] # NoRow
               /\ documents'[r.document].format = r.key.format
    <3>1. CASE r \in retrievals
      <4>1. r.document \in Digests
        BY <1>0, <3>1 DEF TypeOK
      <4> QED BY <1>0, <1>1, <2>0, <3>1, <4>1, CommitKeepsRows DEF EventsAreBacked
    <3>2. CASE r \notin retrievals
      <4>1. Crawls(w) /\ r = Retrieval(w)
        BY <1>1, <3>2 DEF Commit
      <4>2. Key(w).format = FormatOf(item[w])
        BY DEF Key, KeyOf
      <4> QED BY <2>0, <2>1, <2>2, <4>1, <4>2 DEF Retrieval
    <3> QED BY <3>1, <3>2
  <2>4. ASSUME NEW u \in uploads'
        PROVE  /\ documents'[u.document] # NoRow
               /\ \E k \in objects' : k.digest = u.document /\ k.source = u.source
    <3>1. CASE u \in uploads
      <4>1. u.document \in Digests
        BY <1>0, <3>1 DEF TypeOK
      <4> QED BY <1>0, <1>1, <2>0, <3>1, <4>1, CommitKeepsRows DEF EventsAreBacked
    <3>2. CASE u \notin uploads
      <4>1. u = Upload(w)
        BY <1>1, <3>2 DEF Commit
      <4>2. Key(w).digest = u.document /\ Key(w).source = u.source
        BY <4>1 DEF Key, KeyOf, Upload, Digest
      <4> QED BY <2>0, <2>1, <2>2, <4>1, <4>2 DEF Upload
    <3> QED BY <3>1, <3>2
  <2> QED BY <2>3, <2>4 DEF EventsAreBacked
<1>2. CASE UNCHANGED database /\ objects \subseteq objects'
  BY <1>0, <1>2 DEF EventsAreBacked, database
<1>3. ASSUME NEW w \in Writers,
             \/ Receive(w) \/ Head(w) \/ PutObject(w) \/ ReadBack(w) \/ LookUp(w)
             \/ InsertDocument(w) \/ KeepDocument(w) \/ FindUpload(w) \/ InsertUpload(w)
             \/ StoreFails(w) \/ Crash(w)
      PROVE  UNCHANGED database /\ objects \subseteq objects'
  BY <1>3 DEF Receive, Head, PutObject, ReadBack, LookUp, InsertDocument, KeepDocument,
     FindUpload, InsertUpload, StoreFails, Crash
<1>4. CASE UNCHANGED vars
  BY <1>2, <1>4 DEF vars, database
<1> QED BY <1>1, <1>2, <1>3, <1>4 DEF Next, Step, Finished

LEMMA Inductive == IInv /\ [Next]_vars => IInv'
BY TypeStep, SoundStep, OneInsertStep, EventsStep DEF IInv

LEMMA Invariant == Spec => []IInv
<1> QED BY InitInvariant, Inductive, PTL DEF Spec

-----------------------------------------------------------------------------
(* Theorems *)

\* What the database and the object store hold, and what the writers read of
\* it, is well formed after any races, failures and crashes.
THEOREM TypeCorrect == Spec => []TypeOK
<1>1. IInv => TypeOK
  BY DEF IInv
<1> QED BY <1>1, Invariant, PTL

\* Every retrieval and every upload on record (provenance.py, ingest.py) is of
\* a document that is recorded, in its format, and of an object that is stored.
THEOREM Backed == Spec => []EventsAreBacked
<1>1. IInv => EventsAreBacked
  BY DEF IInv
<1> QED BY <1>1, Invariant, PTL

\* The key under which the archive records d.
Recorded(d) == IF documents[d] = NoRow THEN NoKey ELSE documents[d].key

\* A step of intake stores one object, records one document under an object
\* that is there, or leaves the archive as it is.
LEMMA ArchiveStep ==
    ASSUME IInv, [Next]_vars
    PROVE  [Archive!Next]_(Archive!archive)
<1>0. TypeOK /\ \A x \in Writers : Sound(x)
  BY DEF IInv
<1>1. ASSUME NEW w \in Writers, PutObject(w) PROVE Archive!Next
  <2>1. Key(w) \in Keys
    BY <1>0, <1>1, NewDocumentTyped DEF PutObject, Sound, GoesOn
  <2>2. Archive!Store(Key(w))
    BY <1>1 DEF PutObject, database, Archive!Store
  <2> QED BY <2>1, <2>2 DEF Archive!Next
<1>2. ASSUME NEW w \in Writers, Commit(w) PROVE [Archive!Next]_(Archive!archive)
  <2>0. objects' = objects /\ Digest(w) \in Digests
    BY <1>0, <1>2, DigestTyped DEF Commit
  <2>1. Key(w) \in objects /\ FormatOf(item[w]) # Refused
    BY <1>0, <1>2 DEF Commit, Sound, GoesOn, HasObject, InTransaction
  <2>2. \A d \in Digests : documents[d] # NoRow => Recorded(d)' = Recorded(d)
    BY <1>2, CommitKeepsRows DEF Recorded
  <2>3. CASE writes[w] = "insert"
    <3>1. documents' = [documents EXCEPT ![Digest(w)] = NewDocument(w)]
      BY <2>3, <1>2 DEF Commit
    <3>2. documents[Digest(w)] = NoRow
      BY <1>0, <2>3 DEF Sound, InsertIsNew
    <3>3. NewDocument(w) # NoRow /\ NewDocument(w).key = Key(w) /\ Key(w) \in Keys
      BY <1>0, <2>1, NewDocumentTyped
    <3>4. [d \in Digests |-> Recorded(d)]'
            = [[d \in Digests |-> Recorded(d)] EXCEPT ![Digest(w)] = Key(w)]
      BY <1>0, <2>0, <3>1, <3>3 DEF Recorded, TypeOK
    <3>5. Archive!Record(Digest(w), Key(w))
      <4>1. [d \in Digests |-> Recorded(d)][Digest(w)] = NoKey
        BY <2>0, <3>2 DEF Recorded
      <4> QED BY <2>0, <2>1, <3>4, <4>1 DEF Archive!Record, Recorded
    <3>6. \E d \in Digests, k \in Keys : Archive!Record(d, k)
      BY <2>0, <3>3, <3>5 DEF Archive!Record
    <3> QED BY <3>6 DEF Archive!Next
  <2>4. CASE writes[w] # "insert"
    <3>1. \A d \in Digests : Recorded(d)' = Recorded(d)
      BY <1>2, <2>2, <2>4, CommitKeepsRows DEF Recorded
    <3> QED BY <2>0, <3>1 DEF Archive!archive, Recorded
  <2> QED BY <2>3, <2>4
<1>3. CASE documents' = documents /\ objects' = objects
  BY <1>3 DEF Archive!archive
<1>4. ASSUME NEW w \in Writers,
             \/ Receive(w) \/ Head(w) \/ ReadBack(w) \/ LookUp(w)
             \/ InsertDocument(w) \/ KeepDocument(w) \/ FindUpload(w) \/ InsertUpload(w)
             \/ StoreFails(w) \/ Crash(w)
      PROVE  documents' = documents /\ objects' = objects
  BY <1>4 DEF Receive, Head, ReadBack, LookUp, InsertDocument, KeepDocument,
     FindUpload, InsertUpload, StoreFails, Crash, database
<1>5. CASE UNCHANGED vars
  BY <1>3, <1>5 DEF vars
<1> QED BY <1>1, <1>2, <1>3, <1>4, <1>5 DEF Next, Step, Finished

\* Intake implements the archive: an object once stored stays, and a document
\* is recorded once, under a stored object, and keeps its key, whatever comes
\* between the upload and the commit (objects.py, provenance.py, ingest.py).
THEOREM Archives == Spec => ImplementsArchive
<1>1. Init => Archive!Init
  BY DEF Init, Archive!Init
<1>2. IInv /\ [Next]_vars => [Archive!Next]_(Archive!archive)
  BY ArchiveStep
<1> QED BY <1>1, <1>2, Invariant, PTL DEF Spec, ImplementsArchive, Archive!Spec

=============================================================================
