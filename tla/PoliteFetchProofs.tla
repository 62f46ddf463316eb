-------------------------- MODULE PoliteFetchProofs --------------------------
(***************************************************************************)
(* Theorems of PoliteFetch: no slot is ever lost, no sleep and no read of  *)
(* a body outlives its budget, and no redirect chain loops.  They need     *)
(* the types of the variables that the steps of a thread decide by, not    *)
(* those of the histories, which come after them with the spacing of the   *)
(* grants of one source.                                                   *)
(***************************************************************************)
EXTENDS PoliteFetch, FiniteSetTheorems, TLAPS

Types ==
    /\ pc \in [Threads -> Labels]
    /\ source \in [Threads -> Sources]
    /\ url \in [Threads -> Locations \cup {None}]
    /\ visited \in [Threads -> Seq(Urls)]
    /\ left \in [Threads -> Int]
    /\ timer \in [Threads -> Nat]
    /\ readLimit \in [Threads -> 0..ReadSeconds]
    /\ late \in [Threads -> {n \in Int : n <= 0}]
    /\ grants \in [Sources -> Seq(Nat)]
    /\ sourceSlots \in [Sources -> Nat]
    /\ globalSlots \in Nat

\* What holds of one thread: a sleep ends with the budget, the read of a body in
\* progress one read timeout after it or after the last byteless read, and a hop
\* that is still to be validated leaves room for itself in the chain.
TimerFits(t) ==
    /\ pc[t] \in Waiting => timer[t] <= left[t]
    /\ pc[t] = "body" => timer[t] <= left[t] - late[t] + ReadSeconds

ChainFits(t) ==
    /\ pc[t] = "idle" => visited[t] = << >>
    /\ pc[t] = "validate" => url[t] \in Locations /\ Len(visited[t]) <= MaxHops
    /\ Len(visited[t]) <= MaxHops + 1
    /\ \A i, j \in DOMAIN visited[t] : visited[t][i] = visited[t][j] => i = j

Fits(t) == TimerFits(t) /\ ChainFits(t)

IInv == Types /\ SlotsAreReturned /\ \A t \in Threads : Fits(t)

-----------------------------------------------------------------------------
(* What a step of one thread does to the slots *)

OthersStay(t) ==
    \A x \in Threads \ {t} : pc'[x] = pc[x] /\ source'[x] = source[x]

SourceKept(t) ==
    /\ sourceSlots' = sourceSlots
    /\ pc'[t] \in HoldsSource <=> pc[t] \in HoldsSource
    /\ pc[t] \in HoldsSource => source'[t] = source[t]

SourceTaken(t) ==
    /\ sourceSlots[source[t]] > 0 /\ TakeSource(t)
    /\ pc[t] \notin HoldsSource /\ pc'[t] \in HoldsSource
    /\ source'[t] = source[t]

SourceReturned(t) ==
    /\ ReturnSource(t)
    /\ pc[t] \in HoldsSource /\ pc'[t] \notin HoldsSource
    /\ source'[t] = source[t]

GlobalKept(t) ==
    /\ globalSlots' = globalSlots
    /\ pc'[t] \in HoldsGlobal <=> pc[t] \in HoldsGlobal

GlobalTaken(t) ==
    /\ globalSlots > 0 /\ globalSlots' = globalSlots - 1
    /\ pc[t] \notin HoldsGlobal /\ pc'[t] \in HoldsGlobal

GlobalReturned(t) ==
    /\ globalSlots' = globalSlots + 1
    /\ pc[t] \in HoldsGlobal /\ pc'[t] \notin HoldsGlobal

\* What every step of a thread is, as far as the slots go.
Balanced(t) ==
    /\ OthersStay(t)
    /\ SourceKept(t) \/ SourceTaken(t) \/ SourceReturned(t)
    /\ GlobalKept(t) \/ GlobalTaken(t) \/ GlobalReturned(t)

\* A set of threads gains or loses one element, and its cardinality one.
LEMMA OneMore ==
    ASSUME NEW S, NEW T, NEW x, IsFiniteSet(S), x \notin S, T = S \cup {x}
    PROVE  Cardinality(T) = Cardinality(S) + 1
BY FS_AddElement

LEMMA OneLess ==
    ASSUME NEW S, NEW T, NEW x, IsFiniteSet(S), x \in S, T = S \ {x}
    PROVE  Cardinality(T) = Cardinality(S) - 1
BY FS_RemoveElement

LEMMA HoldersAreFinite ==
    ASSUME NEW s
    PROVE  /\ IsFiniteSet(SourceHolders(s)) /\ Cardinality(SourceHolders(s)) \in Nat
           /\ IsFiniteSet(GlobalHolders) /\ Cardinality(GlobalHolders) \in Nat
<1>1. SourceHolders(s) \subseteq Threads /\ GlobalHolders \subseteq Threads
  BY DEF SourceHolders, GlobalHolders
<1>2. IsFiniteSet(Threads)
  BY FetchAssumption DEF FetchAssumption
<1> QED BY <1>1, <1>2, FS_Subset, FS_CardinalityType

\* A balanced step keeps the balance of the slots of each source.
LEMMA SourcesBalance ==
    ASSUME NEW t \in Threads, Types, Balanced(t), NEW s \in Sources,
           sourceSlots[s] + Cardinality(SourceHolders(s)) = MaxConcurrency[s]
    PROVE  sourceSlots'[s] + Cardinality(SourceHolders(s))' = MaxConcurrency[s]
<1>. DEFINE S == SourceHolders(s)
            T == SourceHolders(s)'
<1>0. IsFiniteSet(S) /\ Cardinality(S) \in Nat
  BY HoldersAreFinite
<1>1. T = {x \in Threads : pc'[x] \in HoldsSource /\ source'[x] = s}
  BY DEF SourceHolders, HoldsSource, HoldsGlobal, Connected
<1>2. S = {x \in Threads : pc[x] \in HoldsSource /\ source[x] = s}
  BY DEF SourceHolders
<1>3. \A x \in Threads \ {t} : x \in T <=> x \in S
  BY <1>1, <1>2 DEF Balanced, OthersStay
<1>4. /\ source[t] \in Sources /\ sourceSlots[s] \in Nat
      /\ sourceSlots \in [Sources -> Nat]
  BY DEF Types
<1>5. S \subseteq Threads /\ T \subseteq Threads
  BY <1>1, <1>2
<1>. HIDE DEF S, T
<1>6. CASE SourceKept(t)
  <2>1. t \in T <=> t \in S
    BY <1>1, <1>2, <1>6 DEF SourceKept
  <2>2. T = S
    BY <2>1, <1>3, <1>5
  <2> QED BY <2>2, <1>6 DEF SourceKept, S, T
<1>7. CASE SourceTaken(t)
  <2>1. CASE source[t] = s
    <3>1. t \notin S /\ t \in T
      BY <2>1, <1>1, <1>2, <1>7 DEF SourceTaken
    <3>2. T = S \cup {t}
      BY <3>1, <1>3, <1>5
    <3>3. Cardinality(T) = Cardinality(S) + 1
      BY <3>1, <3>2, <1>0, OneMore
    <3>4. sourceSlots'[s] = sourceSlots[s] - 1
      BY <2>1, <1>4, <1>7 DEF SourceTaken, TakeSource
    <3> QED BY <3>3, <3>4, <1>0, <1>4 DEF S, T
  <2>2. CASE source[t] # s
    <3>1. T = S
      BY <2>2, <1>1, <1>2, <1>3, <1>5, <1>7 DEF SourceTaken
    <3>2. sourceSlots'[s] = sourceSlots[s]
      BY <2>2, <1>4, <1>7 DEF SourceTaken, TakeSource
    <3> QED BY <3>1, <3>2 DEF S, T
  <2> QED BY <2>1, <2>2
<1>8. CASE SourceReturned(t)
  <2>1. CASE source[t] = s
    <3>1. t \in S /\ t \notin T
      BY <2>1, <1>1, <1>2, <1>8 DEF SourceReturned
    <3>2. T = S \ {t}
      BY <3>1, <1>3, <1>5
    <3>3. Cardinality(T) = Cardinality(S) - 1
      BY <3>1, <3>2, <1>0, OneLess
    <3>4. sourceSlots'[s] = sourceSlots[s] + 1
      BY <2>1, <1>4, <1>8 DEF SourceReturned, ReturnSource
    <3> QED BY <3>3, <3>4, <1>0, <1>4 DEF S, T
  <2>2. CASE source[t] # s
    <3>1. T = S
      BY <2>2, <1>1, <1>2, <1>3, <1>5, <1>8 DEF SourceReturned
    <3>2. sourceSlots'[s] = sourceSlots[s]
      BY <2>2, <1>4, <1>8 DEF SourceReturned, ReturnSource
    <3> QED BY <3>1, <3>2 DEF S, T
  <2> QED BY <2>1, <2>2
<1> QED BY <1>6, <1>7, <1>8 DEF Balanced

\* The same of the global slots.
LEMMA GlobalBalances ==
    ASSUME NEW t \in Threads, Types, Balanced(t),
           globalSlots + Cardinality(GlobalHolders) = GlobalConcurrency
    PROVE  globalSlots' + Cardinality(GlobalHolders)' = GlobalConcurrency
<1>. DEFINE S == GlobalHolders
            T == GlobalHolders'
<1>0. IsFiniteSet(S) /\ Cardinality(S) \in Nat
  BY HoldersAreFinite
<1>1. T = {x \in Threads : pc'[x] \in HoldsGlobal}
  BY DEF GlobalHolders, HoldsGlobal, Connected
<1>2. S = {x \in Threads : pc[x] \in HoldsGlobal}
  BY DEF GlobalHolders
<1>3. \A x \in Threads \ {t} : x \in T <=> x \in S
  BY <1>1, <1>2 DEF Balanced, OthersStay
<1>4. globalSlots \in Nat
  BY DEF Types
<1>5. S \subseteq Threads /\ T \subseteq Threads
  BY <1>1, <1>2
<1>. HIDE DEF S, T
<1>6. CASE GlobalKept(t)
  <2>1. t \in T <=> t \in S
    BY <1>1, <1>2, <1>6 DEF GlobalKept
  <2>2. T = S
    BY <2>1, <1>3, <1>5
  <2> QED BY <2>2, <1>6 DEF GlobalKept, S, T
<1>7. CASE GlobalTaken(t)
  <2>1. t \notin S /\ t \in T
    BY <1>1, <1>2, <1>7 DEF GlobalTaken
  <2>2. T = S \cup {t}
    BY <2>1, <1>3, <1>5
  <2>3. Cardinality(T) = Cardinality(S) + 1
    BY <2>1, <2>2, <1>0, OneMore
  <2> QED BY <2>3, <1>0, <1>4, <1>7 DEF GlobalTaken, S, T
<1>8. CASE GlobalReturned(t)
  <2>1. t \in S /\ t \notin T
    BY <1>1, <1>2, <1>8 DEF GlobalReturned
  <2>2. T = S \ {t}
    BY <2>1, <1>3, <1>5
  <2>3. Cardinality(T) = Cardinality(S) - 1
    BY <2>1, <2>2, <1>0, OneLess
  <2> QED BY <2>3, <1>0, <1>4, <1>8 DEF GlobalReturned, S, T
<1> QED BY <1>6, <1>7, <1>8 DEF Balanced

-----------------------------------------------------------------------------
(* What a step of one thread does to that thread, and to no other *)

OthersKeep(t) ==
    \A x \in Threads \ {t} :
        /\ pc'[x] = pc[x] /\ source'[x] = source[x]
        /\ url'[x] = url[x] /\ visited'[x] = visited[x]
        /\ left'[x] = left[x] /\ timer'[x] = timer[x] /\ readLimit'[x] = readLimit[x]
        /\ late'[x] = late[x]

ThreadTypes ==
    /\ pc \in [Threads -> Labels]
    /\ source \in [Threads -> Sources]
    /\ url \in [Threads -> Locations \cup {None}]
    /\ visited \in [Threads -> Seq(Urls)]
    /\ left \in [Threads -> Int]
    /\ timer \in [Threads -> Nat]
    /\ readLimit \in [Threads -> 0..ReadSeconds]
    /\ late \in [Threads -> {n \in Int : n <= 0}]
    /\ grants \in [Sources -> Seq(Nat)]

\* What every step of a thread is, when the invariant holds before it.
Safe(t) == Types' /\ Balanced(t) /\ OthersKeep(t) /\ Fits(t)'

LEMMA Numbers ==
    /\ TotalSeconds \in Nat /\ ReadSeconds \in Nat \ {0} /\ ConnectSeconds \in Nat \ {0}
    /\ MaxHops \in Nat
BY FetchAssumption DEF FetchAssumption

LEMMA RemainingIs ==
    ASSUME NEW t \in Threads, left \in [Threads -> Int]
    PROVE  /\ Remaining(t) \in Nat
           /\ ~IsExhausted(t) => left[t] > 0 /\ Remaining(t) = left[t]
           /\ Remaining(t) = IF left[t] > 0 THEN left[t] ELSE 0
BY DEF Remaining, IsExhausted, Larger

\* The end of a fetch, in the caller's slots.
LEMMA EndFetchIs ==
    ASSUME NEW t \in Threads, ThreadTypes, EndFetch(t)
    PROVE  /\ ThreadTypes' /\ OthersKeep(t) /\ Fits(t)'
           /\ pc'[t] = "idle" /\ source' = source
<1>1. << >> \in Seq(Urls) /\ Len(<< >>) = 0 /\ DOMAIN << >> = {}
  OBVIOUS
<1>2. ReadSeconds \in Nat /\ MaxHops \in Nat
  BY Numbers
<1>3. /\ pc'[t] = "idle" /\ visited'[t] = << >>
  BY DEF EndFetch, Goto, ThreadTypes
<1>4. Fits(t)'
  BY <1>1, <1>2, <1>3 DEF Fits, TimerFits, ChainFits, Waiting
<1>5. ThreadTypes'
  BY <1>1, <1>2 DEF EndFetch, Goto, SetTimer, ThreadTypes, Labels
<1>6. OthersKeep(t)
  BY DEF EndFetch, Goto, SetTimer, ThreadTypes, OthersKeep
<1> QED BY <1>3, <1>4, <1>5, <1>6 DEF EndFetch

\* A failed attempt ends the fetch, or waits no longer than the budget lasts.
LEMMA AfterFailureIs ==
    ASSUME NEW t \in Threads, ThreadTypes, Fits(t), pc[t] \notin {"idle", "validate"},
           NEW transient, NEW retryAfter \in Nat \cup {NoDelay},
           AfterFailure(t, transient, retryAfter)
    PROVE  /\ ThreadTypes' /\ OthersKeep(t) /\ Fits(t)'
           /\ pc'[t] \in {"idle", "source", "backoff"} /\ source' = source
<1>1. CASE EndFetch(t)
  BY <1>1, EndFetchIs
<1>2. CASE ~EndFetch(t)
  <2>1. PICK delay \in Decisions(t, transient, retryAfter) :
            /\ delay >= 0
            /\ IF delay = 0 THEN Goto(t, "source") ELSE Goto(t, "backoff")
            /\ attempt' = [attempt EXCEPT ![t] = IF delay = 0 THEN @ + 1 ELSE @]
            /\ SetTimer(t, delay)
            /\ readLimit' = [readLimit EXCEPT ![t] = 0]
            /\ late' = [late EXCEPT ![t] = 0]
            /\ UNCHANGED <<source, url, visited, left, grants, stop, granted>>
    BY <1>2 DEF AfterFailure
  <2>2. delay \in Nat /\ delay < Remaining(t)
    <3>1. delay # NoDelay
      BY <2>1 DEF NoDelay
    <3>2. PICK d \in IF retryAfter # NoDelay THEN {retryAfter} ELSE 0..Ceiling(attempt[t]) :
              delay = IF d >= Remaining(t) THEN NoDelay ELSE d
      BY <3>1 DEF Decisions
    <3>3. delay = d /\ ~(d >= Remaining(t))
      BY <3>1, <3>2
    <3>4. d \in Nat
      BY <3>1, <3>2, <3>3
    <3>5. Remaining(t) \in Nat
      BY RemainingIs DEF ThreadTypes
    <3> QED BY <3>3, <3>4, <3>5
  <2>3. delay < left[t] /\ left[t] \in Int
    <3>1. left \in [Threads -> Int] /\ left[t] \in Int
      BY DEF ThreadTypes
    <3>2. Remaining(t) = IF left[t] > 0 THEN left[t] ELSE 0
      BY <3>1, RemainingIs
    <3> QED BY <2>2, <3>1, <3>2
  <2>4. /\ pc'[t] \in {"source", "backoff"} /\ timer'[t] = delay
        /\ left'[t] = left[t] /\ visited'[t] = visited[t]
    BY <2>1 DEF Goto, SetTimer, ThreadTypes
  <2>5. Fits(t)'
    BY <2>2, <2>3, <2>4 DEF Fits, TimerFits, ChainFits, Waiting
  <2>6. ReadSeconds \in Nat
    BY Numbers
  <2>9. pc' \in [Threads -> Labels]
    <3>1. CASE delay = 0
      BY <3>1, <2>1 DEF Goto, ThreadTypes, Labels
    <3>2. CASE delay # 0
      BY <3>2, <2>1 DEF Goto, ThreadTypes, Labels
    <3> QED BY <3>1, <3>2
  <2>7. ThreadTypes'
    <3>1. timer' \in [Threads -> Nat]
      BY <2>1, <2>2 DEF ThreadTypes, SetTimer
    <3>2. readLimit' \in [Threads -> 0..ReadSeconds]
      BY <2>1, <2>6 DEF ThreadTypes
    <3>3. late' \in [Threads -> {n \in Int : n <= 0}]
      BY <2>1 DEF ThreadTypes
    <3> QED BY <2>1, <2>9, <3>1, <3>2, <3>3 DEF ThreadTypes
  <2>8. OthersKeep(t)
    BY <2>1 DEF ThreadTypes, Goto, SetTimer, OthersKeep
  <2> QED BY <2>1, <2>4, <2>5, <2>7, <2>8
<1> QED BY <1>1, <1>2

-----------------------------------------------------------------------------
(* Every step is safe *)

LEMMA SafeWhen ==
    ASSUME NEW t \in Threads, Types, ThreadTypes', OthersKeep(t), Fits(t)',
           SourceKept(t) \/ SourceTaken(t) \/ SourceReturned(t),
           GlobalKept(t) \/ GlobalTaken(t) \/ GlobalReturned(t)
    PROVE  Safe(t)
<1>1. sourceSlots' \in [Sources -> Nat]
  <2>1. CASE SourceKept(t)
    BY <2>1 DEF SourceKept, Types
  <2>2. CASE SourceTaken(t)
    <3>1. source[t] \in Sources /\ sourceSlots[source[t]] \in Nat
      BY DEF Types
    <3>2. sourceSlots[source[t]] - 1 \in Nat
      BY <2>2, <3>1 DEF SourceTaken
    <3> QED BY <2>2, <3>2 DEF SourceTaken, TakeSource, Types
  <2>3. CASE SourceReturned(t)
    <3>1. source[t] \in Sources /\ sourceSlots[source[t]] \in Nat
      BY DEF Types
    <3>2. sourceSlots[source[t]] + 1 \in Nat
      BY <3>1
    <3> QED BY <2>3, <3>2 DEF SourceReturned, ReturnSource, Types
  <2> QED BY <2>1, <2>2, <2>3
<1>2. globalSlots' \in Nat
  BY DEF GlobalKept, GlobalTaken, GlobalReturned, Types
<1>3. Types'
  BY <1>1, <1>2 DEF Types, ThreadTypes
<1>4. Balanced(t)
  BY DEF Balanced, OthersStay, OthersKeep
<1> QED BY <1>3, <1>4 DEF Safe

LEMMA TypesOfThreads == Types => ThreadTypes
BY DEF Types, ThreadTypes

\* A failure that has no slot to give back, one or two.
LEMMA FailureIsSafe ==
    ASSUME NEW t \in Threads, Types, Fits(t),
           NEW transient, NEW retryAfter \in Nat \cup {NoDelay},
           AfterFailure(t, transient, retryAfter),
           \/ pc[t] \in {"source", "source_wait"} /\ UNCHANGED slots
           \/ pc[t] \in HoldsSource \ HoldsGlobal /\ ReturnSource(t) /\ UNCHANGED globalSlots
           \/ pc[t] \in HoldsGlobal /\ ReturnSlots(t)
    PROVE  Safe(t)
<1>1. pc[t] \notin {"idle", "validate"}
  BY DEF HoldsSource, HoldsGlobal, Connected
<1>2. /\ ThreadTypes' /\ OthersKeep(t) /\ Fits(t)'
      /\ pc'[t] \in {"idle", "source", "backoff"} /\ source' = source
  BY <1>1, AfterFailureIs, TypesOfThreads
<1>3. pc'[t] \notin HoldsSource /\ pc'[t] \notin HoldsGlobal
  BY <1>2 DEF HoldsSource, HoldsGlobal, Connected
<1>4. CASE pc[t] \in {"source", "source_wait"} /\ UNCHANGED slots
  <2>1. SourceKept(t) /\ GlobalKept(t)
    BY <1>2, <1>3, <1>4 DEF SourceKept, GlobalKept, slots, HoldsSource, HoldsGlobal, Connected
  <2> QED BY <2>1, <1>2, SafeWhen
<1>5. CASE pc[t] \in HoldsSource \ HoldsGlobal /\ ReturnSource(t) /\ UNCHANGED globalSlots
  <2>1. SourceReturned(t) /\ GlobalKept(t)
    BY <1>2, <1>3, <1>5 DEF SourceReturned, GlobalKept
  <2> QED BY <2>1, <1>2, SafeWhen
<1>6. CASE pc[t] \in HoldsGlobal /\ ReturnSlots(t)
  <2>1. SourceReturned(t) /\ GlobalReturned(t)
    BY <1>2, <1>3, <1>6 DEF SourceReturned, GlobalReturned, ReturnSlots, HoldsSource
  <2> QED BY <2>1, <1>2, SafeWhen
<1> QED BY <1>4, <1>5, <1>6

\* A step that moves a thread on and leaves its slots alone.
LEMMA MoveIsSafe ==
    ASSUME NEW t \in Threads, Types, NEW label \in Labels, Goto(t, label),
           ThreadTypes', OthersKeep(t), Fits(t)', UNCHANGED slots,
           source'[t] = source[t] \/ pc[t] \notin HoldsSource,
           pc[t] \in HoldsSource <=> label \in HoldsSource,
           pc[t] \in HoldsGlobal <=> label \in HoldsGlobal
    PROVE  Safe(t)
<1>1. pc'[t] = label
  BY DEF Goto, Types
<1>2. SourceKept(t) /\ GlobalKept(t)
  BY <1>1 DEF SourceKept, GlobalKept, slots
<1> QED BY <1>2, SafeWhen

LEMMA BeginIsSafe ==
    ASSUME NEW t \in Threads, Types, Fits(t), Begin(t)
    PROVE  Safe(t)
<1>1. /\ pc'[t] = "validate" /\ visited' = visited /\ left'[t] = TotalSeconds
      /\ pc[t] = "idle" /\ url'[t] \in Locations
  BY DEF Begin, Goto, Types
<1>2. visited'[t] = << >> /\ Len(<< >>) = 0 /\ DOMAIN << >> = {}
  BY <1>1 DEF Fits, ChainFits
<1>3. Fits(t)'
  BY <1>1, <1>2, Numbers DEF Fits, TimerFits, ChainFits, Waiting
<1>4. ThreadTypes'
  BY Numbers DEF Begin, Goto, Types, ThreadTypes, Labels
<1>5. OthersKeep(t)
  BY DEF Begin, Goto, Types, OthersKeep
<1>6. Goto(t, "validate") /\ UNCHANGED slots /\ "validate" \in Labels
  BY DEF Begin, Labels
<1>7. /\ {"idle", "validate"} \cap HoldsSource = {}
      /\ {"idle", "validate"} \cap HoldsGlobal = {}
  BY DEF HoldsSource, HoldsGlobal, Connected
<1> QED BY <1>1, <1>3, <1>4, <1>5, <1>6, <1>7, MoveIsSafe

\* A chain grows by a URL it does not have, below the number of hops allowed.
LEMMA ValidateHopIsSafe ==
    ASSUME NEW t \in Threads, Types, Fits(t), ValidateHop(t)
    PROVE  Safe(t)
<1>0. pc[t] = "validate" /\ UNCHANGED slots
  BY DEF ValidateHop
<1>1. CASE EndFetch(t)
  <2>1. /\ ThreadTypes' /\ OthersKeep(t) /\ Fits(t)' /\ Goto(t, "idle") /\ source' = source
    BY <1>1, EndFetchIs, TypesOfThreads DEF EndFetch
  <2>2. /\ {"idle", "validate"} \cap HoldsSource = {}
        /\ {"idle", "validate"} \cap HoldsGlobal = {} /\ "idle" \in Labels
    BY DEF HoldsSource, HoldsGlobal, Connected, Labels
  <2> QED BY <1>0, <2>1, <2>2, MoveIsSafe
<1>2. CASE ~EndFetch(t)
  <2>. DEFINE v == visited[t]
              e == Normal[url[t]]
  <2>1. /\ e \in Valid /\ ~AlreadyRequested(t)
        /\ visited' = [visited EXCEPT ![t] = Append(v, e)]
        /\ Goto(t, "source")
        /\ url' = [url EXCEPT ![t] = e]
        /\ UNCHANGED <<source, clock, grants, stop, granted>>
    BY <1>2 DEF ValidateHop, Types
  <2>2. e \in Urls /\ e \in Locations /\ v \in Seq(Urls) /\ Len(v) <= MaxHops
    BY <1>0, FetchAssumption DEF Urls, Types, Fits, ChainFits
  <2>3. \A i \in DOMAIN v : v[i] # e
    BY <2>1 DEF AlreadyRequested
  <2>4. \A i, j \in DOMAIN v : v[i] = v[j] => i = j
    BY DEF Fits, ChainFits
  <2>. HIDE DEF e, v
  <2>5. /\ Append(v, e) \in Seq(Urls) /\ Len(Append(v, e)) = Len(v) + 1 /\ Len(v) \in Nat
        /\ DOMAIN v = 1..Len(v) /\ DOMAIN Append(v, e) = 1..(Len(v) + 1)
        /\ Append(v, e)[Len(v) + 1] = e
        /\ \A i \in 1..Len(v) : Append(v, e)[i] = v[i]
    BY <2>2
  <2>6. \A i, j \in DOMAIN Append(v, e) : Append(v, e)[i] = Append(v, e)[j] => i = j
    <3>1. SUFFICES ASSUME NEW i \in 1..(Len(v) + 1), NEW j \in 1..(Len(v) + 1),
                          Append(v, e)[i] = Append(v, e)[j]
                   PROVE  i = j
      BY <2>5
    <3>2. i \in 1..Len(v) \/ i = Len(v) + 1
      BY <2>5
    <3>3. j \in 1..Len(v) \/ j = Len(v) + 1
      BY <2>5
    <3> QED BY <3>1, <3>2, <3>3, <2>3, <2>4, <2>5
  <2>7. /\ pc'[t] = "source" /\ visited'[t] = Append(v, e)
    BY <2>1 DEF Goto, Types, v
  <2>8. Len(v) + 1 <= MaxHops + 1
    BY <2>2, <2>5, Numbers
  <2>9. Fits(t)'
    BY <2>5, <2>6, <2>7, <2>8 DEF Fits, TimerFits, ChainFits, Waiting
  <2>10. visited' \in [Threads -> Seq(Urls)]
    BY <2>1, <2>5 DEF Types, v
  <2>11. ThreadTypes'
    BY <2>1, <2>2, <2>10 DEF Types, ThreadTypes, Goto, clock, Labels
  <2>12. OthersKeep(t)
    BY <2>1 DEF OthersKeep, Goto, clock, Types
  <2>13. /\ {"source", "validate"} \cap HoldsSource = {}
         /\ {"source", "validate"} \cap HoldsGlobal = {} /\ "source" \in Labels
    BY DEF HoldsSource, HoldsGlobal, Connected, Labels
  <2> QED BY <1>0, <2>1, <2>9, <2>11, <2>12, <2>13, MoveIsSafe
<1> QED BY <1>1, <1>2

\* A step that only moves a thread on, to a place without a timer.
LEMMA GotoKeeps ==
    ASSUME NEW t \in Threads, ThreadTypes, Fits(t), NEW label \in Labels,
           label \notin Waiting \cup Connected \cup {"idle", "validate"},
           Goto(t, label), UNCHANGED <<fetch, clock>>, grants' \in [Sources -> Seq(Nat)]
    PROVE  /\ ThreadTypes' /\ OthersKeep(t) /\ Fits(t)'
           /\ pc'[t] = label /\ source' = source
<1>1. /\ pc'[t] = label /\ visited' = visited /\ source' = source
  BY DEF ThreadTypes, Goto, fetch
<1>2. Fits(t)'
  BY <1>1 DEF Fits, TimerFits, ChainFits, Connected
<1>3. ThreadTypes'
  BY DEF ThreadTypes, Goto, fetch, clock
<1>4. OthersKeep(t)
  BY DEF ThreadTypes, OthersKeep, Goto, fetch, clock
<1> QED BY <1>1, <1>2, <1>3, <1>4

LEMMA Places ==
    /\ {"source", "source_wait", "rate", "global", "global_wait", "open"} \subseteq Labels
    /\ {"source", "source_wait", "rate", "global", "global_wait", "open"}
         \cap (Waiting \cup Connected \cup {"idle", "validate"}) = {}
    /\ {"rate", "sleeping", "global", "global_wait"} \subseteq HoldsSource \ HoldsGlobal
    /\ {"open", "connect", "headers", "body"} \subseteq HoldsGlobal
    /\ HoldsGlobal \subseteq HoldsSource
    /\ {"idle", "validate", "source", "source_wait", "backoff"} \cap HoldsSource = {}
BY DEF Labels, Waiting, Connected, HoldsSource, HoldsGlobal

LEMMA AskSourceIsSafe ==
    ASSUME NEW t \in Threads, Types, Fits(t), AskSource(t)
    PROVE  Safe(t)
<1>0. pc[t] = "source" /\ UNCHANGED slots
  BY DEF AskSource
<1>1. CASE AfterFailure(t, FALSE, NoDelay)
  BY <1>0, <1>1, FailureIsSafe
<1>2. CASE Goto(t, "source_wait") /\ UNCHANGED <<fetch, clock, grants>>
  <2>1. grants' \in [Sources -> Seq(Nat)]
    BY <1>2 DEF Types
  <2> QED BY <1>0, <1>2, <2>1, GotoKeeps, MoveIsSafe, Places, TypesOfThreads
<1> QED BY <1>1, <1>2 DEF AskSource

LEMMA AwaitSourceIsSafe ==
    ASSUME NEW t \in Threads, Types, Fits(t), AwaitSource(t)
    PROVE  Safe(t)
<1>0. pc[t] = "source_wait" /\ UNCHANGED globalSlots
  BY DEF AwaitSource
<1>1. CASE AfterFailure(t, FALSE, NoDelay) /\ UNCHANGED sourceSlots
  BY <1>0, <1>1, FailureIsSafe DEF slots
<1>2. CASE /\ sourceSlots[source[t]] > 0 /\ TakeSource(t)
           /\ Goto(t, "rate") /\ UNCHANGED <<fetch, clock, grants>>
  <2>0. grants' \in [Sources -> Seq(Nat)]
    BY <1>2 DEF Types
  <2>1. /\ ThreadTypes' /\ OthersKeep(t) /\ Fits(t)'
        /\ pc'[t] = "rate" /\ source' = source
    BY <1>2, <2>0, GotoKeeps, Places, TypesOfThreads
  <2>2. SourceTaken(t) /\ GlobalKept(t)
    BY <1>0, <1>2, <2>1, Places DEF SourceTaken, GlobalKept
  <2> QED BY <2>1, <2>2, SafeWhen
<1> QED BY <1>1, <1>2 DEF AwaitSource

LEMMA AwakeIsSafe ==
    ASSUME NEW t \in Threads, Types, Fits(t), Awake(t)
    PROVE  Safe(t)
<1>1. /\ pc[t] = "sleeping" /\ Goto(t, "rate")
      /\ UNCHANGED <<fetch, clock>> /\ UNCHANGED slots /\ grants' \in [Sources -> Seq(Nat)]
  BY DEF Awake, Types
<1> QED BY <1>1, GotoKeeps, MoveIsSafe, Places, TypesOfThreads

LEMMA AskGlobalIsSafe ==
    ASSUME NEW t \in Threads, Types, Fits(t), AskGlobal(t)
    PROVE  Safe(t)
<1>0. pc[t] = "global" /\ UNCHANGED globalSlots
  BY DEF AskGlobal
<1>1. CASE ReturnSource(t) /\ AfterFailure(t, FALSE, NoDelay)
  BY <1>0, <1>1, FailureIsSafe, Places
<1>2. CASE Goto(t, "global_wait") /\ UNCHANGED <<fetch, clock, sourceSlots, grants>>
  <2>1. grants' \in [Sources -> Seq(Nat)]
    BY <1>2 DEF Types
  <2> QED BY <1>0, <1>2, <2>1, GotoKeeps, MoveIsSafe, Places, TypesOfThreads DEF slots
<1> QED BY <1>1, <1>2 DEF AskGlobal

LEMMA AwaitGlobalIsSafe ==
    ASSUME NEW t \in Threads, Types, Fits(t), AwaitGlobal(t)
    PROVE  Safe(t)
<1>0. pc[t] = "global_wait"
  BY DEF AwaitGlobal
<1>1. CASE ReturnSource(t) /\ AfterFailure(t, FALSE, NoDelay) /\ UNCHANGED globalSlots
  BY <1>0, <1>1, FailureIsSafe, Places
<1>2. CASE /\ globalSlots > 0 /\ globalSlots' = globalSlots - 1
           /\ Goto(t, "open") /\ UNCHANGED <<fetch, clock, sourceSlots, grants>>
  <2>0. grants' \in [Sources -> Seq(Nat)]
    BY <1>2 DEF Types
  <2>1. /\ ThreadTypes' /\ OthersKeep(t) /\ Fits(t)'
        /\ pc'[t] = "open" /\ source' = source
    BY <1>2, <2>0, GotoKeeps, Places, TypesOfThreads
  <2>2. SourceKept(t) /\ GlobalTaken(t)
    BY <1>0, <1>2, <2>1, Places DEF SourceKept, GlobalTaken
  <2> QED BY <2>1, <2>2, SafeWhen
<1> QED BY <1>1, <1>2 DEF AwaitGlobal

LEMMA KeptIs ==
    ASSUME NEW s \in Sources, grants \in [Sources -> Seq(Nat)]
    PROVE  Kept(s) \in Seq(Nat) /\ Append(Kept(s), 0) \in Seq(Nat)
<1>. DEFINE g == grants[s]
            k == PerWindow[s]
<1>1. g \in Seq(Nat) /\ Len(g) \in Nat /\ k \in Nat \ {0}
  BY FetchAssumption DEF FetchAssumption
<1>2. Kept(s) = IF Len(g) > k THEN SubSeq(g, Len(g) - k + 1, Len(g)) ELSE g
  BY DEF Kept
<1>. HIDE DEF g, k
<1>3. ASSUME Len(g) > k
      PROVE  SubSeq(g, Len(g) - k + 1, Len(g)) \in Seq(Nat)
  <2>1. /\ Len(g) - k + 1 \in 1..Len(g) /\ Len(g) \in 1..Len(g)
    BY <1>1, <1>3
  <2>2. \A i \in (Len(g) - k + 1)..Len(g) : g[i] \in Nat
    BY <1>1, <2>1
  <2> QED BY <1>1, <2>1, <2>2
<1>4. Kept(s) \in Seq(Nat)
  BY <1>1, <1>2, <1>3
<1> QED BY <1>4

LEMMA LargerIs ==
    ASSUME NEW a \in Int, NEW b \in Int
    PROVE  Larger(a, b) \in Int /\ Larger(a, b) >= a /\ Larger(a, b) >= b
BY DEF Larger

LEMMA WaitIs ==
    ASSUME NEW s \in Sources, NEW ages \in Seq(Nat)
    PROVE  WaitSeconds(s, ages) \in Nat
<1>1. /\ MinDelay[s] \in Nat /\ PerWindow[s] \in Nat \ {0} /\ Window \in Nat
  BY FetchAssumption DEF FetchAssumption
<1>2. CASE ages = << >>
  BY <1>2 DEF WaitSeconds
<1>3. CASE ages # << >>
  <2>1. Len(ages) \in Nat \ {0} /\ ages[Len(ages)] \in Nat
    BY <1>3
  <2>2. CASE Len(ages) >= PerWindow[s]
    <3>1. Len(ages) - PerWindow[s] + 1 \in 1..Len(ages)
      BY <1>1, <2>1, <2>2
    <3>2. ages[Len(ages) - PerWindow[s] + 1] \in Nat
      BY <3>1
    <3>. DEFINE spacing == MinDelay[s] - ages[Len(ages)]
                window == Window - ages[Len(ages) - PerWindow[s] + 1]
    <3>3. WaitSeconds(s, ages) = Larger(Larger(0, spacing), window)
      BY <1>3, <2>2 DEF WaitSeconds
    <3>4. spacing \in Int /\ window \in Int
      BY <1>1, <2>1, <3>2
    <3>. HIDE DEF spacing, window
    <3>5. Larger(0, spacing) \in Int /\ Larger(0, spacing) >= 0
      BY <3>4 DEF Larger
    <3>6. /\ Larger(Larger(0, spacing), window) \in Int
          /\ Larger(Larger(0, spacing), window) >= Larger(0, spacing)
      BY <3>4, <3>5, LargerIs
    <3> QED BY <3>3, <3>5, <3>6
  <2>3. CASE ~(Len(ages) >= PerWindow[s])
    BY <1>1, <1>3, <2>1, <2>3 DEF WaitSeconds, Larger
  <2> QED BY <2>2, <2>3
<1> QED BY <1>2, <1>3

\* A thread sleeps no longer than its budget lasts.
LEMMA WaitForRateIsSafe ==
    ASSUME NEW t \in Threads, Types, Fits(t), WaitForRate(t)
    PROVE  Safe(t)
<1>. DEFINE s == source[t]
            wait == WaitSeconds(s, Kept(s))
<1>0. pc[t] = "rate" /\ UNCHANGED globalSlots /\ s \in Sources
  BY DEF WaitForRate, Types
<1>a. Kept(s) \in Seq(Nat) /\ Append(Kept(s), 0) \in Seq(Nat) /\ wait \in Nat
  BY <1>0, KeptIs, WaitIs DEF Types
<1>b. /\ [grants EXCEPT ![s] = Append(Kept(s), 0)] \in [Sources -> Seq(Nat)]
      /\ [grants EXCEPT ![s] = Kept(s)] \in [Sources -> Seq(Nat)]
  BY <1>a DEF Types
<1>. HIDE DEF wait
<1>1. CASE /\ Goto(t, "global") /\ UNCHANGED <<fetch, clock, sourceSlots>>
           /\ grants' = [grants EXCEPT ![s] = Append(Kept(s), 0)]
  <2>1. grants' \in [Sources -> Seq(Nat)]
    BY <1>1, <1>b
  <2> QED BY <1>0, <1>1, <2>1, GotoKeeps, MoveIsSafe, Places, TypesOfThreads DEF slots
<1>2. CASE /\ ~IsExhausted(t) /\ wait <= Remaining(t)
           /\ Goto(t, "sleeping") /\ SetTimer(t, wait)
           /\ UNCHANGED <<fetch, left, readLimit, late, sourceSlots>>
           /\ grants' = [grants EXCEPT ![s] = Kept(s)]
  <2>1. left[t] \in Int /\ wait <= left[t]
    BY <1>2, RemainingIs DEF Types
  <2>2. /\ pc'[t] = "sleeping" /\ timer'[t] = wait /\ left'[t] = left[t]
        /\ visited' = visited /\ source' = source
    BY <1>2 DEF Goto, SetTimer, Types, fetch
  <2>3. Fits(t)'
    BY <2>1, <2>2 DEF Fits, TimerFits, ChainFits
  <2>4. grants' \in [Sources -> Seq(Nat)] /\ "sleeping" \in Labels
    BY <1>2, <1>b, Places DEF Labels
  <2>5. ThreadTypes'
    BY <1>2, <1>a, <2>4 DEF ThreadTypes, Types, Goto, SetTimer, fetch
  <2>6. OthersKeep(t)
    BY <1>2 DEF OthersKeep, Types, Goto, SetTimer, fetch
  <2>7. UNCHANGED slots
    BY <1>0, <1>2 DEF slots
  <2> QED BY <1>0, <1>2, <2>2, <2>3, <2>4, <2>5, <2>6, <2>7, MoveIsSafe, Places
<1>3. CASE ReturnSource(t) /\ AfterFailure(t, FALSE, NoDelay)
  BY <1>0, <1>3, FailureIsSafe, Places
<1> QED BY <1>1, <1>2, <1>3 DEF WaitForRate, wait

-----------------------------------------------------------------------------
(* The steps of a connection *)

\* The end of a fetch that gives both slots back.
LEMMA EndIsSafe ==
    ASSUME NEW t \in Threads, Types, pc[t] \in HoldsGlobal, EndFetch(t), ReturnSlots(t)
    PROVE  Safe(t)
<1>1. /\ ThreadTypes' /\ OthersKeep(t) /\ Fits(t)'
      /\ pc'[t] = "idle" /\ source' = source
  BY EndFetchIs, TypesOfThreads
<1>2. SourceReturned(t) /\ GlobalReturned(t)
  BY <1>1, Places DEF SourceReturned, GlobalReturned, ReturnSlots
<1> QED BY <1>1, <1>2, SafeWhen

LEMMA FailAttemptIsSafe ==
    ASSUME NEW t \in Threads, Types, Fits(t), pc[t] \in HoldsGlobal,
           NEW transient, NEW retryAfter \in Nat \cup {NoDelay},
           FailAttempt(t, transient, retryAfter)
    PROVE  Safe(t)
BY FailureIsSafe DEF FailAttempt

\* The smaller of a timeout and what remains fits in both.
LEMMA ClampIs ==
    ASSUME NEW a \in Nat, NEW b \in Nat
    PROVE  Smaller(a, b) \in Nat /\ Smaller(a, b) <= a /\ Smaller(a, b) <= b
BY DEF Smaller

LEMMA OpenIsSafe ==
    ASSUME NEW t \in Threads, Types, Fits(t), Open(t)
    PROVE  Safe(t)
<1>0. pc[t] = "open"
  BY DEF Open
<1>1. CASE FailAttempt(t, FALSE, NoDelay)
  BY <1>0, <1>1, FailAttemptIsSafe, Places
<1>2. CASE ~FailAttempt(t, FALSE, NoDelay)
  <2>. DEFINE connect == Smaller(ConnectSeconds, Remaining(t))
              read == Smaller(ReadSeconds, Remaining(t))
  <2>1. /\ ~IsExhausted(t) /\ Goto(t, "connect") /\ SetTimer(t, connect)
        /\ readLimit' = [readLimit EXCEPT ![t] = read]
        /\ UNCHANGED <<fetch, left, late, slots, grants>>
    BY <1>2 DEF Open
  <2>2. Remaining(t) \in Nat /\ Remaining(t) = left[t]
    BY <2>1, RemainingIs DEF Types
  <2>3. /\ connect \in Nat /\ connect <= left[t]
        /\ read \in Nat /\ read <= ReadSeconds
    BY <2>2, ClampIs, Numbers
  <2>. HIDE DEF connect, read
  <2>4. /\ pc'[t] = "connect" /\ timer'[t] = connect /\ left'[t] = left[t]
        /\ visited' = visited /\ source' = source
    BY <2>1 DEF Goto, SetTimer, Types, fetch
  <2>5. Fits(t)'
    BY <2>3, <2>4 DEF Fits, TimerFits, ChainFits
  <2>6. read \in 0..ReadSeconds /\ "connect" \in Labels
    BY <2>3, Numbers, Places DEF Labels
  <2>7. ThreadTypes'
    BY <2>1, <2>3, <2>6 DEF ThreadTypes, Types, Goto, SetTimer, fetch
  <2>8. OthersKeep(t)
    BY <2>1 DEF OthersKeep, Types, Goto, SetTimer, fetch
  <2> QED BY <1>0, <2>1, <2>4, <2>5, <2>6, <2>7, <2>8, MoveIsSafe, Places
<1> QED BY <1>1, <1>2

\* A socket operation begins: one that reads the body lasts a read timeout at the
\* most, and begins no later than the lateness that is remembered.
SocketSet(t, limit) ==
    /\ SetTimer(t, limit)
    /\ UNCHANGED <<fetch, left, readLimit, slots, grants>>
    /\ \/ late' = late
       \/ Unnoticed(t)

LEMMA SocketIsSafe ==
    ASSUME NEW t \in Threads, Types, Fits(t), NEW label \in Connected,
           pc[t] \in Connected, Goto(t, label), NEW limit \in Nat, SocketSet(t, limit),
           label = "body" => limit <= ReadSeconds /\ (Unnoticed(t) \/ left[t] > 0)
    PROVE  Safe(t)
<1>1. /\ left[t] \in Int /\ ReadSeconds \in Nat /\ late[t] \in Int /\ late[t] <= 0
  BY Numbers DEF Types
<1>2. /\ pc'[t] = label /\ timer'[t] = limit /\ left'[t] = left[t]
      /\ visited' = visited /\ source' = source
  BY DEF Goto, SocketSet, SetTimer, Types, fetch
<1>3. /\ Smaller(0, left[t]) \in {n \in Int : n <= 0} /\ Smaller(0, left[t]) <= left[t]
  BY <1>1 DEF Smaller
<1>4. late' \in [Threads -> {n \in Int : n <= 0}]
  BY <1>3 DEF SocketSet, Unnoticed, Types
<1>5. TimerFits(t)'
  <2>1. label \notin Waiting
    BY DEF Waiting, Connected
  <2>2. ASSUME label = "body"
        PROVE  timer'[t] <= left'[t] - late'[t] + ReadSeconds
    <3>1. late'[t] \in Int /\ late'[t] <= left[t]
      <4>1. CASE Unnoticed(t)
        BY <1>3, <4>1 DEF Unnoticed, Types
      <4>2. CASE late' = late /\ left[t] > 0
        BY <1>1, <4>2
      <4> QED BY <2>2, <4>1, <4>2 DEF SocketSet
    <3> QED BY <1>1, <1>2, <2>2, <3>1
  <2> QED BY <1>2, <2>1, <2>2 DEF TimerFits
<1>6. ChainFits(t)'
  BY <1>2 DEF Fits, ChainFits, Connected
<1>7. label \in Labels /\ label \in HoldsGlobal /\ pc[t] \in HoldsGlobal
  BY DEF Labels, HoldsSource, HoldsGlobal
<1>8. ThreadTypes'
  BY <1>4, <1>7 DEF ThreadTypes, Types, Goto, SocketSet, SetTimer, fetch
<1>9. OthersKeep(t)
  BY DEF OthersKeep, Types, Goto, SocketSet, SetTimer, Unnoticed, fetch
<1>10. UNCHANGED slots
  BY DEF SocketSet
<1> QED BY <1>2, <1>5, <1>6, <1>7, <1>8, <1>9, <1>10, MoveIsSafe, Places DEF Fits

LEMMA LimitIs ==
    ASSUME NEW t \in Threads, Types
    PROVE  readLimit[t] \in Nat /\ readLimit[t] <= ReadSeconds
BY Numbers DEF Types

LEMMA ConnectIsSafe ==
    ASSUME NEW t \in Threads, Types, Fits(t), Connect(t)
    PROVE  Safe(t)
<1>0. pc[t] = "connect"
  BY DEF Connect
<1>1. ASSUME NEW transient \in BOOLEAN, FailAttempt(t, transient, NoDelay)
      PROVE  Safe(t)
  BY <1>0, <1>1, FailAttemptIsSafe, Places
<1>2. CASE /\ Goto(t, "headers") /\ SetTimer(t, readLimit[t])
           /\ UNCHANGED <<fetch, left, readLimit, late, slots, grants>>
  <2>1. SocketSet(t, readLimit[t])
    BY <1>2 DEF SocketSet
  <2> QED BY <1>0, <1>2, <2>1, LimitIs, SocketIsSafe DEF Connected
<1> QED BY <1>1, <1>2 DEF Connect

LEMMA AnswerIsSafe ==
    ASSUME NEW t \in Threads, Types, Fits(t), Answer(t)
    PROVE  Safe(t)
<1>1. pc[t] = "headers" /\ Goto(t, "body") /\ SocketSet(t, readLimit[t]) /\ Unnoticed(t)
  BY DEF Answer, SocketSet
<1> QED BY <1>1, LimitIs, SocketIsSafe DEF Connected

LEMMA DripIsSafe ==
    ASSUME NEW t \in Threads, Types, Fits(t), Drip(t)
    PROVE  Safe(t)
<1>. DEFINE limit == IF pc[t] = "connect" THEN ConnectSeconds ELSE readLimit[t]
<1>1. pc[t] \in Connected /\ SocketSet(t, limit) /\ Unnoticed(t)
  BY DEF Drip, SocketSet
<1>2. Goto(t, pc[t])
  BY DEF Drip, Goto, Types
<1>3. limit \in Nat /\ (pc[t] = "body" => limit <= ReadSeconds)
  BY LimitIs, Numbers
<1>. HIDE DEF limit
<1> QED BY <1>1, <1>2, <1>3, SocketIsSafe

LEMMA PieceIsSafe ==
    ASSUME NEW t \in Threads, Types, Fits(t), Piece(t)
    PROVE  Safe(t)
<1>0. pc[t] = "body"
  BY DEF Piece
<1>1. CASE ReturnSlots(t) /\ EndFetch(t)
  BY <1>0, <1>1, EndIsSafe, Places
<1>2. CASE /\ ~IsExhausted(t) /\ SetTimer(t, readLimit[t])
           /\ UNCHANGED <<pc, fetch, left, readLimit, late, slots, grants>>
  <2>1. left[t] > 0
    BY <1>2, RemainingIs DEF Types
  <2>2. Goto(t, "body") /\ SocketSet(t, readLimit[t])
    BY <1>0, <1>2 DEF Goto, SocketSet, Types
  <2> QED BY <1>0, <2>1, <2>2, LimitIs, SocketIsSafe DEF Connected
<1> QED BY <1>1, <1>2 DEF Piece

\* A redirect keeps the chain and the budget, and gives the slots back.
LEMMA RedirectIsSafe ==
    ASSUME NEW t \in Threads, Types, Fits(t), Redirect(t)
    PROVE  Safe(t)
<1>0. pc[t] = "headers" /\ ReturnSlots(t)
  BY DEF Redirect
<1>1. CASE EndFetch(t)
  BY <1>0, <1>1, EndIsSafe, Places
<1>2. CASE ~EndFetch(t)
  <2>1. PICK location \in Locations \cup {None} :
            /\ Follows(t, location) /\ Goto(t, "validate")
            /\ url' = [url EXCEPT ![t] = location]
            /\ SetTimer(t, 0) /\ readLimit' = [readLimit EXCEPT ![t] = 0]
            /\ late' = [late EXCEPT ![t] = 0]
            /\ UNCHANGED <<source, visited, left, grants>>
    BY <1>2 DEF Redirect
  <2>2. location \in Locations /\ Len(visited[t]) - 1 < MaxHops
    BY <2>1 DEF Follows
  <2>3. Len(visited[t]) \in Nat /\ MaxHops \in Nat /\ ReadSeconds \in Nat
    BY Numbers DEF Types
  <2>4. /\ pc'[t] = "validate" /\ visited' = visited /\ source' = source
        /\ url'[t] = location
    BY <2>1 DEF Goto, Types
  <2>5. Fits(t)'
    BY <2>2, <2>3, <2>4 DEF Fits, TimerFits, ChainFits, Waiting
  <2>6. ThreadTypes'
    BY <2>1, <2>2, <2>3 DEF ThreadTypes, Types, Goto, SetTimer, Labels
  <2>7. OthersKeep(t)
    BY <2>1 DEF OthersKeep, Types, Goto, SetTimer
  <2>8. SourceReturned(t) /\ GlobalReturned(t)
    BY <1>0, <2>4, Places DEF SourceReturned, GlobalReturned, ReturnSlots
  <2> QED BY <2>5, <2>6, <2>7, <2>8, SafeWhen
<1> QED BY <1>1, <1>2

LEMMA BackoffIsSafe ==
    ASSUME NEW t \in Threads, Types, Fits(t), Retry(t) \/ Cancel(t)
    PROVE  Safe(t)
<1>1. CASE Retry(t)
  <2>1. /\ pc[t] = "backoff" /\ Goto(t, "source")
        /\ UNCHANGED <<source, url, visited, clock, grants>> /\ UNCHANGED slots
    BY <1>1 DEF Retry
  <2>2. pc'[t] = "source" /\ visited' = visited /\ source' = source
    BY <2>1 DEF Goto, Types
  <2>3. Fits(t)'
    BY <2>2 DEF Fits, TimerFits, ChainFits, Waiting
  <2>4. ThreadTypes'
    BY <2>1 DEF ThreadTypes, Types, Goto, clock, Labels
  <2>5. OthersKeep(t)
    BY <2>1 DEF OthersKeep, Types, Goto, clock
  <2> QED BY <2>1, <2>2, <2>3, <2>4, <2>5, MoveIsSafe, Places
<1>2. CASE Cancel(t)
  <2>1. pc[t] = "backoff" /\ EndFetch(t) /\ UNCHANGED slots
    BY <1>2 DEF Cancel
  <2>2. /\ ThreadTypes' /\ OthersKeep(t) /\ Fits(t)' /\ Goto(t, "idle") /\ source' = source
    BY <2>1, EndFetchIs, TypesOfThreads DEF EndFetch
  <2>3. "idle" \in Labels
    BY DEF Labels
  <2> QED BY <2>1, <2>2, <2>3, MoveIsSafe, Places
<1> QED BY <1>1, <1>2

LEMMA StepIsSafe ==
    ASSUME NEW t \in Threads, Types, Fits(t),
           Begin(t) \/ Acquire(t) \/ Exchange(t) \/ Retry(t) \/ Cancel(t)
    PROVE  Safe(t)
<1>1. CASE LoseHeaders(t)
  <2>1. pc[t] = "headers" /\ FailAttempt(t, TRUE, NoDelay)
    BY <1>1 DEF LoseHeaders
  <2> QED BY <2>1, FailAttemptIsSafe, Places
<1>2. CASE Refuse(t)
  <2>1. pc[t] = "headers"
    BY <1>2 DEF Refuse
  <2>2. PICK transient \in BOOLEAN, retryAfter \in RetryAfters \cup {NoDelay} :
            FailAttempt(t, transient, retryAfter)
    BY <1>2 DEF Refuse
  <2>3. retryAfter \in Nat \cup {NoDelay}
    BY FetchAssumption DEF FetchAssumption
  <2> QED BY <2>1, <2>2, <2>3, FailAttemptIsSafe, Places
<1>3. CASE Finish(t)
  <2>1. pc[t] = "body" /\ ReturnSlots(t) /\ EndFetch(t)
    BY <1>3 DEF Finish
  <2> QED BY <2>1, EndIsSafe, Places
<1> QED
  BY <1>1, <1>2, <1>3, BeginIsSafe, ValidateHopIsSafe, AskSourceIsSafe, AwaitSourceIsSafe,
     WaitForRateIsSafe, AwakeIsSafe, AskGlobalIsSafe, AwaitGlobalIsSafe, OpenIsSafe,
     ConnectIsSafe, DripIsSafe, AnswerIsSafe, PieceIsSafe, RedirectIsSafe, BackoffIsSafe
  DEF Acquire, Exchange

-----------------------------------------------------------------------------
(* The invariant *)

LEMMA SafeStepKeeps ==
    ASSUME IInv, NEW t \in Threads, Safe(t)
    PROVE  IInv'
<1>1. Types'
  BY DEF Safe
<1>2. ASSUME NEW x \in Threads
      PROVE  Fits(x)'
  <2>1. CASE x = t
    BY <2>1 DEF Safe
  <2>2. CASE x # t
    <3>1. Fits(x)
      BY DEF IInv
    <3>2. /\ pc'[x] = pc[x] /\ url'[x] = url[x] /\ visited'[x] = visited[x]
          /\ left'[x] = left[x] /\ timer'[x] = timer[x] /\ late'[x] = late[x]
      BY <2>2 DEF Safe, OthersKeep
    <3> QED BY <3>1, <3>2 DEF Fits, TimerFits, ChainFits, Waiting
  <2> QED BY <2>1, <2>2
<1>3. SlotsAreReturned'
  <2>1. Types /\ Balanced(t) /\ SlotsAreReturned
    BY DEF IInv, Safe
  <2>2. ASSUME NEW s \in Sources
        PROVE  sourceSlots'[s] + Cardinality(SourceHolders(s))' = MaxConcurrency[s]
    BY <2>1, SourcesBalance DEF SlotsAreReturned
  <2>3. globalSlots' + Cardinality(GlobalHolders)' = GlobalConcurrency
    BY <2>1, GlobalBalances DEF SlotsAreReturned
  <2> QED BY <2>2, <2>3 DEF SlotsAreReturned
<1> QED BY <1>1, <1>2, <1>3 DEF IInv

LEMMA AgesAreAges ==
    ASSUME NEW s \in Sources, NEW g \in Seq(Nat)
    PROVE  [i \in DOMAIN g |-> Smaller(Old(s), g[i] + 1)] \in Seq(Nat)
<1>1. Old(s) \in Nat
  BY FetchAssumption DEF FetchAssumption, Old, Larger
<1>2. ASSUME NEW i \in 1..Len(g)
      PROVE  Smaller(Old(s), g[i] + 1) \in Nat
  BY <1>1, <1>2 DEF Smaller
<1>3. DOMAIN g = 1..Len(g) /\ Len(g) \in Nat
  OBVIOUS
<1>. HIDE DEF Smaller
<1> QED BY <1>2, <1>3

\* Time runs for the sleeps and the sockets as it does for the budgets.
LEMMA TickKeeps ==
    ASSUME IInv, Tick
    PROVE  IInv'
<1>0. Types
  BY DEF IInv
<1>1. UNCHANGED <<pc, source, url, visited, readLimit, late, sourceSlots, globalSlots>>
  BY DEF Tick, fetch, slots
<1>2. ASSUME NEW t \in Threads
      PROVE  /\ left'[t] \in Int /\ left'[t] >= left[t] - 1
             /\ timer'[t] \in Nat
             /\ pc[t] \in Waiting \cup Connected => timer'[t] = timer[t] - 1
  <2>1. left[t] \in Int /\ timer[t] \in Nat /\ Overrun \in Int
    BY <1>0, Numbers DEF Types, Overrun
  <2>2. /\ left'[t] = IF pc[t] = "idle" THEN left[t] ELSE Larger(Overrun, left[t] - 1)
        /\ timer'[t] = Larger(0, timer[t] - 1)
        /\ pc[t] \in Waiting \cup Connected => timer[t] > 0
    BY DEF Tick
  <2> QED BY <2>1, <2>2 DEF Larger
<1>3. Types'
  <2>1. left' \in [Threads -> Int]
    BY <1>2 DEF Tick
  <2>2. timer' \in [Threads -> Nat]
    BY <1>2 DEF Tick
  <2>3. grants' \in [Sources -> Seq(Nat)]
    <3>1. ASSUME NEW s \in Sources
          PROVE  [i \in DOMAIN grants[s] |-> Smaller(Old(s), grants[s][i] + 1)] \in Seq(Nat)
      BY <1>0, AgesAreAges DEF Types
    <3> QED BY <3>1 DEF Tick
  <2> QED BY <1>0, <1>1, <2>1, <2>2, <2>3 DEF Types
<1>4. ASSUME NEW t \in Threads
      PROVE  Fits(t)'
  <2>1. /\ Fits(t) /\ left[t] \in Int /\ timer[t] \in Nat /\ ReadSeconds \in Nat
        /\ late[t] \in Int
    BY <1>0, Numbers DEF IInv, Types
  <2>2. TimerFits(t)'
    BY <1>1, <1>2, <2>1 DEF Fits, TimerFits, Waiting, Connected
  <2>3. ChainFits(t)'
    BY <1>1, <2>1 DEF Fits, ChainFits
  <2> QED BY <2>2, <2>3 DEF Fits
<1>5. SlotsAreReturned'
  BY <1>1 DEF IInv, SlotsAreReturned, SourceHolders, GlobalHolders, HoldsSource, HoldsGlobal,
              Connected
<1> QED BY <1>3, <1>4, <1>5 DEF IInv

LEMMA StutterKeeps ==
    ASSUME IInv,
           UNCHANGED <<pc, source, url, visited, left, timer, readLimit, late,
                       sourceSlots, globalSlots, grants>>
    PROVE  IInv'
<1>1. Types'
  BY DEF IInv, Types
<1>2. \A t \in Threads : Fits(t)'
  BY DEF IInv, Fits, TimerFits, ChainFits, Waiting
<1>3. SlotsAreReturned'
  BY DEF IInv, SlotsAreReturned, SourceHolders, GlobalHolders, HoldsSource, HoldsGlobal,
         Connected
<1> QED BY <1>1, <1>2, <1>3 DEF IInv

LEMMA InitHolds == Init => IInv
<1>. SUFFICES ASSUME Init PROVE IInv
  OBVIOUS
<1>1. Types
  BY FetchAssumption, Numbers DEF FetchAssumption, Init, Types, Labels
<1>2. ASSUME NEW t \in Threads
      PROVE  Fits(t)
  BY Numbers DEF Init, Fits, TimerFits, ChainFits, Waiting
<1>3. SlotsAreReturned
  <2>1. ASSUME NEW s \in Sources
        PROVE  SourceHolders(s) = {}
    BY Places DEF Init, SourceHolders
  <2>2. GlobalHolders = {}
    BY Places DEF Init, GlobalHolders
  <2>3. Cardinality({}) = 0
    BY FS_EmptySet
  <2>4. ASSUME NEW s \in Sources
        PROVE  sourceSlots[s] + Cardinality(SourceHolders(s)) = MaxConcurrency[s]
    <3>1. sourceSlots[s] = MaxConcurrency[s] /\ MaxConcurrency[s] \in Nat
      BY FetchAssumption DEF Init, FetchAssumption
    <3>2. Cardinality(SourceHolders(s)) = 0
      BY <2>1, <2>3
    <3> QED BY <3>1, <3>2
  <2>5. globalSlots + Cardinality(GlobalHolders) = GlobalConcurrency
    <3>1. globalSlots = GlobalConcurrency /\ GlobalConcurrency \in Nat
      BY FetchAssumption DEF Init, FetchAssumption
    <3>2. Cardinality(GlobalHolders) = 0
      BY <2>2, <2>3
    <3> QED BY <3>1, <3>2
  <2> QED BY <2>4, <2>5 DEF SlotsAreReturned
<1> QED BY <1>1, <1>2, <1>3 DEF IInv

LEMMA NextKeeps == IInv /\ [Next]_vars => IInv'
<1>. SUFFICES ASSUME IInv, [Next]_vars PROVE IInv'
  OBVIOUS
<1>1. ASSUME NEW t \in Threads,
             Begin(t) \/ Acquire(t) \/ Exchange(t) \/ Retry(t) \/ Cancel(t)
      PROVE  IInv'
  <2>1. Types /\ Fits(t)
    BY DEF IInv
  <2>2. Safe(t)
    BY <1>1, <2>1, StepIsSafe
  <2> QED BY <2>2, SafeStepKeeps
<1>2. CASE Tick
  BY <1>2, TickKeeps
<1>3. CASE Shutdown
  BY <1>3, StutterKeeps DEF Shutdown, fetch, clock, slots
<1>4. CASE UNCHANGED vars
  BY <1>4, StutterKeeps DEF vars, fetch, clock, slots
<1> QED BY <1>1, <1>2, <1>3, <1>4 DEF Next

LEMMA IInvHolds == Spec => []IInv
BY InitHolds, NextKeeps, PTL DEF Spec

-----------------------------------------------------------------------------
(* What follows *)

\* For any number of threads and sources and any limits, no error path of the
\* rate limiter or the controllers loses a slot or gives one back twice.
THEOREM SlotsNeverLeak == Spec => []SlotsAreReturned
<1>1. IInv => SlotsAreReturned
  BY DEF IInv
<1> QED BY <1>1, IInvHolds, PTL

\* Whatever the retry, rate and redirect settings, no sleep goes past the budget
\* of its fetch, and no body is read for more than one read timeout past it, or
\* past the last read that brought no piece of the body.
THEOREM BudgetHolds == Spec => []BudgetBoundsTheFetch
<1>1. IInv => BudgetBoundsTheFetch
  <2>. SUFFICES ASSUME IInv, NEW t \in Threads
                PROVE  /\ pc[t] \in Waiting => timer[t] <= left[t]
                       /\ pc[t] = "body" => left[t] >= late[t] - ReadSeconds
    BY DEF BudgetBoundsTheFetch
  <2>1. /\ left[t] \in Int /\ timer[t] \in Nat /\ ReadSeconds \in Nat /\ late[t] \in Int
        /\ TimerFits(t)
    BY Numbers DEF IInv, Types, Fits
  <2> QED BY <2>1 DEF TimerFits
<1> QED BY <1>1, IInvHolds, PTL

\* However the spellings of URLs are made one by validation, no chain of
\* redirects asks for a URL twice or is longer than max_hops allows.
THEOREM ChainsEnd == Spec => []ChainNeverLoops
<1>1. IInv => ChainNeverLoops
  BY DEF IInv, Fits, ChainFits, ChainNeverLoops
<1> QED BY <1>1, IInvHolds, PTL

-----------------------------------------------------------------------------
(* Types, and the spacing of the grants of one source *)

\* An attempt that is waited for is one that may be made.
CountFits ==
    /\ attempt \in [Threads -> 0..MaxAttempts]
    /\ left \in [Threads -> Overrun..TotalSeconds]
    /\ stop \in BOOLEAN
    /\ \A t \in Threads : pc[t] = "backoff" => attempt[t] < MaxAttempts

\* The table of a limiter covers a history, newest grants last: it has as many
\* grants as the history or as the window needs, and thinks none of them older
\* than it is.
Covers(n, table, history) ==
    /\ Len(history) <= Len(table) \/ n <= Len(table)
    /\ \A k \in 0..(Len(history) - 1) :
        k < Len(table) => table[Len(table) - k] <= history[Len(history) - k]

Spaced(n, delay, window, history) ==
    \A i, j \in DOMAIN history :
        /\ i < j => history[i] - history[j] >= delay
        /\ j = i + n => history[i] - history[j] >= window

Polite(s) ==
    /\ granted[s] \in Seq(Nat)
    /\ Covers(PerWindow[s], grants[s], granted[s])
    /\ Spaced(PerWindow[s], MinDelay[s], Window, granted[s])

PInv ==
    /\ IInv
    /\ CountFits
    /\ granted \in [Sources -> Seq(Nat)]
    /\ \A s \in Sources : Polite(s)

-----------------------------------------------------------------------------
(* Tables and histories *)

\* Ages a tick later, and the newest of them.
Aging(old, table) == [i \in DOMAIN table |-> Smaller(old, table[i] + 1)]
Newest(c, history) == [i \in 1..c |-> history[Len(history) - c + i] + 1]

LEMMA ElementIs ==
    ASSUME NEW q \in Seq(Nat), NEW i \in 1..Len(q)
    PROVE  q[i] \in Nat
OBVIOUS

\* Time passes: the table may underestimate an age, and the oldest grants leave
\* the history.
LEMMA AgeingIsPolite ==
    ASSUME NEW n \in Nat \ {0}, NEW delay \in Nat, NEW window \in Nat, NEW old \in Nat,
           NEW table \in Seq(Nat), NEW history \in Seq(Nat),
           Covers(n, table, history), Spaced(n, delay, window, history),
           NEW c \in 0..Len(history)
    PROVE  /\ Newest(c, history) \in Seq(Nat)
           /\ Covers(n, Aging(old, table), Newest(c, history))
           /\ Spaced(n, delay, window, Newest(c, history))
<1>. DEFINE lt == Len(table)
            lh == Len(history)
            aged == Aging(old, table)
            later == Newest(c, history)
<1>1. /\ lt \in Nat /\ DOMAIN table = 1..lt
      /\ lh \in Nat /\ DOMAIN history = 1..lh
      /\ c \in Nat /\ c <= lh
  OBVIOUS
<1>c. /\ lh <= lt \/ n <= lt
      /\ \A k \in 0..(lh - 1) : k < lt => table[lt - k] <= history[lh - k]
  BY DEF Covers
<1>t. \A i \in 1..lt : table[i] \in Nat
  BY ElementIs
<1>h. \A i \in 1..lh : history[i] \in Nat
  BY ElementIs
<1>a. aged = [i \in 1..lt |-> Smaller(old, table[i] + 1)]
  BY DEF Aging
<1>l. later = [i \in 1..c |-> history[lh - c + i] + 1]
  BY DEF Newest
<1>. HIDE DEF lt, lh, aged, later
<1>2. ASSUME NEW i \in 1..c
      PROVE  /\ lh - c + i \in 1..lh
             /\ later[i] = history[lh - c + i] + 1
             /\ later[i] \in Nat
  <2>1. lh - c + i \in 1..lh
    BY <1>1
  <2>2. later[i] = history[lh - c + i] + 1
    BY <1>l
  <2>. DEFINE x == history[lh - c + i]
  <2>3. x \in Nat
    BY <2>1, <1>h
  <2>4. later[i] = x + 1
    BY <2>2
  <2>5. later[i] \in Nat
    <3>. HIDE DEF x
    <3> QED BY <2>3, <2>4
  <2> QED BY <2>1, <2>2, <2>5
<1>3. later \in Seq(Nat) /\ Len(later) = c /\ DOMAIN later = 1..c
  <2>1. later \in [1..c -> Nat]
    BY <1>2, <1>l
  <2> QED BY <1>1, <2>1
<1>4. Len(aged) = lt /\ DOMAIN aged = 1..lt
  <2>1. \A i \in 1..lt : Smaller(old, table[i] + 1) \in Nat
    BY <1>t DEF Smaller
  <2>. HIDE DEF Smaller
  <2>2. aged \in [1..lt -> Nat]
    BY <1>a, <2>1
  <2> QED BY <1>1, <2>2
<1>5. Covers(n, aged, later)
  <2>2. ASSUME NEW k \in 0..(c - 1), k < lt
        PROVE  aged[lt - k] <= later[c - k]
    <3>1. c - k \in 1..c /\ lh - c + (c - k) = lh - k
      BY <1>1
    <3>2. later[c - k] = history[lh - k] + 1
      BY <1>2, <3>1
    <3>3. lt - k \in 1..lt /\ lh - k \in 1..lh /\ k \in 0..(lh - 1)
      BY <1>1, <2>2
    <3>. DEFINE x == table[lt - k]
                y == history[lh - k]
    <3>4. x \in Nat /\ y \in Nat
      BY <3>3, <1>t, <1>h
    <3>5. x <= y
      BY <3>3, <2>2, <1>c
    <3>6. aged[lt - k] = Smaller(old, x + 1)
      BY <1>a, <3>3
    <3>7. later[c - k] = y + 1
      BY <3>2
    <3>. HIDE DEF x, y
    <3>8. Smaller(old, x + 1) <= x + 1 /\ Smaller(old, x + 1) \in Nat
      BY <3>4 DEF Smaller
    <3>9. Smaller(old, x + 1) <= y + 1
      BY <3>4, <3>5, <3>8
    <3> QED BY <3>6, <3>7, <3>9
  <2>1. c <= lt \/ n <= lt
    BY <1>1, <1>c
  <2> QED BY <1>3, <1>4, <2>1, <2>2 DEF Covers
<1>6. Spaced(n, delay, window, later)
  <2>1. SUFFICES ASSUME NEW i \in 1..c, NEW j \in 1..c
                 PROVE  /\ i < j => later[i] - later[j] >= delay
                        /\ j = i + n => later[i] - later[j] >= window
    BY <1>3 DEF Spaced
  <2>. DEFINE a == lh - c + i
              b == lh - c + j
              x == history[a]
              y == history[b]
  <2>2. a \in 1..lh /\ b \in 1..lh
    BY <1>2
  <2>3. (a < b => x - y >= delay) /\ (b = a + n => x - y >= window)
    BY <1>1, <2>2 DEF Spaced
  <2>4. later[i] = x + 1 /\ later[j] = y + 1
    BY <1>2
  <2>5. x \in Nat /\ y \in Nat
    BY <2>2, <1>h
  <2>6. (i < j => a < b) /\ (j = i + n => b = a + n)
    <3>1. i \in Nat /\ j \in Nat
      OBVIOUS
    <3> QED BY <1>1, <3>1
  <2>. HIDE DEF a, b, x, y
  <2>7. i < j => later[i] - later[j] >= delay
    BY <2>3, <2>4, <2>5, <2>6
  <2>8. j = i + n => later[i] - later[j] >= window
    BY <2>3, <2>4, <2>5, <2>6
  <2> QED BY <2>7, <2>8
<1> QED BY <1>3, <1>5, <1>6 DEF aged, later

\* What is kept of a table covers what the table covered.
LEMMA TrimmingIsPolite ==
    ASSUME NEW n \in Nat \ {0}, NEW table \in Seq(Nat), NEW history \in Seq(Nat),
           Covers(n, table, history), NEW kept,
           kept = IF Len(table) > n
                  THEN SubSeq(table, Len(table) - n + 1, Len(table)) ELSE table
    PROVE  Covers(n, kept, history)
<1>. DEFINE lt == Len(table)
            lh == Len(history)
<1>1. lt \in Nat /\ lh \in Nat
  OBVIOUS
<1>c. \A k \in 0..(lh - 1) : k < lt => table[lt - k] <= history[lh - k]
  BY DEF Covers
<1>2. CASE lt > n
  <2>1. /\ lt - n + 1 \in 1..lt /\ lt \in 1..lt
    BY <1>1, <1>2
  <2>2. Len(kept) = n /\ \A i \in 1..n : kept[i] = table[lt - n + i]
    BY <1>1, <1>2, <2>1
  <2>. HIDE DEF lt, lh
  <2>3. ASSUME NEW k \in 0..(lh - 1), k < n
        PROVE  kept[n - k] <= history[lh - k]
    <3>1. n - k \in 1..n /\ lt - n + (n - k) = lt - k /\ k < lt
      BY <1>1, <1>2, <2>3
    <3>2. kept[n - k] = table[lt - k]
      BY <2>2, <3>1
    <3> QED BY <3>1, <3>2, <1>c
  <2>4. \A k \in 0..(lh - 1) : k < n => kept[n - k] <= history[lh - k]
    BY <2>3
  <2>5. n <= n
    OBVIOUS
  <2> QED BY <2>2, <2>4, <2>5 DEF Covers, lh
<1>3. CASE ~(lt > n)
  BY <1>3
<1> QED BY <1>2, <1>3

\* A table that asks for no wait has waited out both limits.
LEMMA NoWaitIs ==
    ASSUME NEW s \in Sources, NEW table \in Seq(Nat), table # << >>,
           WaitSeconds(s, table) <= 0
    PROVE  /\ table[Len(table)] >= MinDelay[s]
           /\ Len(table) >= PerWindow[s] => table[Len(table) - PerWindow[s] + 1] >= Window
<1>. DEFINE n == PerWindow[s]
            delay == MinDelay[s]
            lt == Len(table)
            x == table[lt]
            y == table[lt - n + 1]
            spacing == delay - x
            window == IF lt >= n THEN Window - y ELSE 0
<1>1. n \in Nat \ {0} /\ delay \in Nat /\ Window \in Nat /\ lt \in Nat \ {0}
  BY FetchAssumption DEF FetchAssumption
<1>2. WaitSeconds(s, table) = Larger(Larger(0, spacing), window)
  BY DEF WaitSeconds
<1>. HIDE DEF n, delay, lt
<1>3. x \in Nat
  BY <1>1, ElementIs DEF lt
<1>4. lt >= n => y \in Nat
  <2>1. SUFFICES ASSUME lt >= n PROVE y \in Nat
    OBVIOUS
  <2>2. lt - n + 1 \in 1..lt
    BY <1>1, <2>1
  <2> QED BY <2>2, ElementIs DEF lt
<1>. HIDE DEF x, y
<1>5. spacing \in Int /\ window \in Int
  BY <1>1, <1>3, <1>4
<1>6. spacing <= 0 /\ window <= 0
  <2>. HIDE DEF spacing, window
  <2>. DEFINE z == Larger(0, spacing)
  <2>1. z \in Int /\ z >= spacing
    BY <1>5 DEF Larger
  <2>. HIDE DEF z
  <2>2. Larger(z, window) \in Int /\ Larger(z, window) >= z /\ Larger(z, window) >= window
    BY <1>5, <2>1, LargerIs
  <2>3. Larger(z, window) <= 0
    BY <1>2 DEF z
  <2> QED BY <1>5, <2>1, <2>2, <2>3
<1>7. x >= delay /\ (lt >= n => y >= Window)
  BY <1>1, <1>3, <1>4, <1>6
<1> QED BY <1>7 DEF x, y, lt, n, delay

\* A grant for which the kept table asks no wait is as far from every grant of
\* the history as the limits say.
LEMMA GrantIsPolite ==
    ASSUME NEW s \in Sources, NEW table \in Seq(Nat), NEW history \in Seq(Nat),
           Covers(PerWindow[s], table, history),
           Spaced(PerWindow[s], MinDelay[s], Window, history),
           WaitSeconds(s, table) <= 0
    PROVE  /\ Append(history, 0) \in Seq(Nat)
           /\ Covers(PerWindow[s], Append(table, 0), Append(history, 0))
           /\ Spaced(PerWindow[s], MinDelay[s], Window, Append(history, 0))
<1>. DEFINE n == PerWindow[s]
            delay == MinDelay[s]
            lt == Len(table)
            lh == Len(history)
            g == Append(table, 0)
            h == Append(history, 0)
<1>1. n \in Nat \ {0} /\ delay \in Nat /\ Window \in Nat /\ lt \in Nat /\ lh \in Nat
  BY FetchAssumption DEF FetchAssumption
<1>2. /\ g \in Seq(Nat) /\ Len(g) = lt + 1
      /\ h \in Seq(Nat) /\ Len(h) = lh + 1 /\ DOMAIN h = 1..(lh + 1)
      /\ g[lt + 1] = 0 /\ \A i \in 1..lt : g[i] = table[i]
      /\ h[lh + 1] = 0 /\ \A i \in 1..lh : h[i] = history[i]
  OBVIOUS
<1>c. /\ lh <= lt \/ n <= lt
      /\ \A k \in 0..(lh - 1) : k < lt => table[lt - k] <= history[lh - k]
  BY DEF Covers
<1>s. \A i, j \in 1..lh :
          /\ i < j => history[i] - history[j] >= delay
          /\ j = i + n => history[i] - history[j] >= Window
  BY DEF Spaced
<1>t. \A i \in 1..lt : table[i] \in Nat
  BY ElementIs
<1>h. \A i \in 1..lh : history[i] \in Nat
  BY ElementIs
<1>3. lt > 0 => table[lt] >= delay /\ (lt >= n => table[lt - n + 1] >= Window)
  <2>1. lt > 0 => table # << >>
    OBVIOUS
  <2> QED BY <2>1, NoWaitIs
<1>. HIDE DEF g, h, n, delay, lt, lh
<1>5. Covers(n, g, h)
  <2>1. lh + 1 <= lt + 1 \/ n <= lt + 1
    BY <1>1, <1>c
  <2>2. ASSUME NEW k \in 0..lh, k < lt + 1
        PROVE  g[lt + 1 - k] <= h[lh + 1 - k]
    <3>1. CASE k = 0
      BY <1>1, <1>2, <3>1
    <3>2. CASE k # 0
      <4>1. k - 1 \in 0..(lh - 1) /\ k - 1 < lt
        BY <1>1, <2>2, <3>2
      <4>2. table[lt - (k - 1)] <= history[lh - (k - 1)]
        BY <1>c, <4>1
      <4>3. /\ lt + 1 - k \in 1..lt /\ lh + 1 - k \in 1..lh
            /\ lt - (k - 1) = lt + 1 - k
            /\ lh - (k - 1) = lh + 1 - k
        BY <1>1, <2>2, <3>2
      <4> QED BY <1>2, <4>2, <4>3
    <3> QED BY <3>1, <3>2
  <2>4. Len(h) <= Len(g) \/ n <= Len(g)
    BY <1>2, <2>1
  <2>5. ASSUME NEW k \in 0..(Len(h) - 1), k < Len(g)
        PROVE  g[Len(g) - k] <= h[Len(h) - k]
    <3>1. Len(g) = lt + 1 /\ Len(h) = lh + 1
      BY <1>2
    <3>2. k \in 0..lh /\ k < lt + 1
      BY <1>1, <2>5, <3>1
    <3>3. g[lt + 1 - k] <= h[lh + 1 - k]
      BY <2>2, <3>2
    <3>4. Len(g) - k = lt + 1 - k /\ Len(h) - k = lh + 1 - k
      BY <1>1, <3>1, <3>2
    <3>5. g[Len(g) - k] = g[lt + 1 - k] /\ h[Len(h) - k] = h[lh + 1 - k]
      BY <3>4
    <3> QED BY <3>3, <3>5
  <2> QED BY <2>4, <2>5 DEF Covers
<1>6. ASSUME NEW i \in 1..lh
      PROVE  history[i] >= delay
  <2>1. lh \in 1..lh /\ 0 \in 0..(lh - 1) /\ lt > 0 /\ lt \in 1..lt /\ lt - 0 = lt /\ lh - 0 = lh
    BY <1>1, <1>c
  <2>. DEFINE x == history[i]
              last == history[lh]
              newest == table[lt]
  <2>2. x \in Nat /\ last \in Nat /\ newest \in Nat
    BY <1>h, <1>t, <2>1
  <2>3. newest <= last
    BY <1>c, <2>1
  <2>4. newest >= delay
    BY <1>3, <2>1
  <2>5. i = lh \/ x - last >= delay
    <3>1. i = lh \/ i < lh
      BY <1>1
    <3> QED BY <3>1, <1>s, <2>1
  <2>6. i = lh => x = last
    OBVIOUS
  <2>. HIDE DEF x, last, newest
  <2>7. x >= delay
    BY <1>1, <2>2, <2>3, <2>4, <2>5, <2>6
  <2> QED BY <2>7 DEF x
<1>7. ASSUME NEW i \in 1..lh, lh + 1 = i + n
      PROVE  history[i] >= Window
  <2>1. /\ n - 1 \in 0..(lh - 1) /\ lh - (n - 1) = i /\ n <= lh
    BY <1>1, <1>7
  <2>2. n <= lt
    BY <1>1, <1>c, <2>1
  <2>3. lt > 0 /\ lt >= n /\ n - 1 < lt /\ lt - (n - 1) = lt - n + 1 /\ lt - n + 1 \in 1..lt
    BY <1>1, <2>2
  <2>. DEFINE x == history[i]
              y == table[lt - n + 1]
  <2>4. y >= Window
    BY <1>3, <2>3
  <2>5. y <= x
    BY <1>c, <2>1, <2>3
  <2>6. x \in Nat /\ y \in Nat
    BY <1>h, <1>t, <2>3
  <2>. HIDE DEF x, y
  <2>7. x >= Window
    BY <1>1, <2>4, <2>5, <2>6
  <2> QED BY <2>7 DEF x
<1>8. Spaced(n, delay, Window, h)
  <2>1. SUFFICES ASSUME NEW i \in 1..(lh + 1), NEW j \in 1..(lh + 1)
                 PROVE  /\ i < j => h[i] - h[j] >= delay
                        /\ j = i + n => h[i] - h[j] >= Window
    BY <1>2 DEF Spaced
  <2>2. CASE j \in 1..lh
    <3>1. CASE i \in 1..lh
      BY <1>2, <1>s, <2>2, <3>1
    <3>2. CASE i = lh + 1
      <4>1. ~(i < j) /\ j # i + n
        BY <1>1, <2>2, <3>2
      <4> QED BY <4>1
    <3>3. i \in 1..lh \/ i = lh + 1
      BY <1>1
    <3> QED BY <3>1, <3>2, <3>3
  <2>3. CASE j = lh + 1
    <3>1. h[j] = 0
      BY <1>2, <2>3
    <3>2. CASE i \in 1..lh
      <4>1. h[i] = history[i] /\ history[i] \in Nat /\ history[i] >= delay
        BY <1>2, <1>h, <1>6, <3>2
      <4>2. j = i + n => history[i] >= Window
        BY <1>7, <2>3, <3>2
      <4>3. h[i] - h[j] = history[i]
        BY <3>1, <4>1
      <4> QED BY <4>1, <4>2, <4>3
    <3>3. CASE i = lh + 1
      <4>1. ~(i < j) /\ j # i + n
        BY <1>1, <2>3, <3>3
      <4> QED BY <4>1
    <3>4. i \in 1..lh \/ i = lh + 1
      BY <1>1
    <3> QED BY <3>2, <3>3, <3>4
  <2>4. j \in 1..lh \/ j = lh + 1
    BY <1>1
  <2> QED BY <2>2, <2>3, <2>4
<1> QED BY <1>2, <1>5, <1>8 DEF g, h, n, delay

-----------------------------------------------------------------------------
(* What a step of one thread does to the counters and to the grants *)

Counted(t) ==
    /\ stop' = stop
    /\ \E a \in 0..MaxAttempts, b \in Overrun..TotalSeconds :
        /\ attempt' = [attempt EXCEPT ![t] = a]
        /\ left' = [left EXCEPT ![t] = b]
        /\ pc'[t] = "backoff" => a < MaxAttempts

GrantsStay == UNCHANGED <<grants, granted>>

Trimmed(s) ==
    /\ grants' = [grants EXCEPT ![s] = Kept(s)]
    /\ UNCHANGED granted

Granted(s) ==
    /\ WaitSeconds(s, Kept(s)) <= 0
    /\ grants' = [grants EXCEPT ![s] = Append(Kept(s), 0)]
    /\ granted' = [granted EXCEPT ![s] = Append(@, 0)]

Orderly(t) ==
    /\ Counted(t)
    /\ GrantsStay \/ Trimmed(source[t]) \/ Granted(source[t])

LEMMA Bounds ==
    /\ MaxAttempts \in Nat \ {0} /\ TotalSeconds \in Nat
    /\ Overrun \in Int /\ Overrun <= 0
BY FetchAssumption DEF FetchAssumption, Overrun

LEMMA EndIsOrderly ==
    ASSUME CountFits, IInv, NEW t \in Threads, EndFetch(t)
    PROVE  Orderly(t)
<1>1. 0 \in 0..MaxAttempts /\ 0 \in Overrun..TotalSeconds
  BY Bounds
<1>2. pc'[t] = "idle"
  BY DEF EndFetch, Goto, IInv, Types
<1>3. /\ attempt' = [attempt EXCEPT ![t] = 0] /\ left' = [left EXCEPT ![t] = 0]
      /\ stop' = stop /\ UNCHANGED <<grants, granted>>
  BY DEF EndFetch
<1> QED BY <1>1, <1>2, <1>3 DEF Orderly, Counted, GrantsStay

\* A step that counts nothing.
LEMMA MoveIsCounted ==
    ASSUME CountFits, NEW t \in Threads, pc'[t] # "backoff",
           UNCHANGED <<attempt, left, stop>>
    PROVE  Counted(t)
<1>1. attempt[t] \in 0..MaxAttempts /\ left[t] \in Overrun..TotalSeconds
  BY DEF CountFits
<1>2. /\ attempt' = [attempt EXCEPT ![t] = attempt[t]]
      /\ left' = [left EXCEPT ![t] = left[t]]
  BY DEF CountFits
<1> QED BY <1>1, <1>2 DEF Counted

LEMMA MoveIsOrderly ==
    ASSUME CountFits, IInv, NEW t \in Threads, NEW label, label # "backoff",
           Goto(t, label), UNCHANGED <<attempt, left, stop, grants, granted>>
    PROVE  Orderly(t)
<1>1. pc'[t] # "backoff"
  BY DEF Goto, IInv, Types
<1> QED BY <1>1, MoveIsCounted DEF Orderly, GrantsStay

LEMMA FailureIsOrderly ==
    ASSUME CountFits, IInv, NEW t \in Threads, NEW transient, NEW retryAfter,
           AfterFailure(t, transient, retryAfter)
    PROVE  Orderly(t)
<1>1. CASE EndFetch(t)
  BY <1>1, EndIsOrderly
<1>2. CASE ~EndFetch(t)
  <2>1. PICK delay \in Decisions(t, transient, retryAfter) :
            /\ delay >= 0
            /\ IF delay = 0 THEN Goto(t, "source") ELSE Goto(t, "backoff")
            /\ attempt' = [attempt EXCEPT ![t] = IF delay = 0 THEN @ + 1 ELSE @]
            /\ UNCHANGED <<left, grants, stop, granted>>
    BY <1>2 DEF AfterFailure
  <2>2. attempt[t] \in 0..MaxAttempts /\ left[t] \in Overrun..TotalSeconds
    BY DEF CountFits
  <2>3. attempt[t] < MaxAttempts
    <3>1. ~(attempt[t] >= MaxAttempts)
      <4>1. CASE attempt[t] >= MaxAttempts
        <5>1. delay = NoDelay
          BY <2>1, <4>1 DEF Decisions
        <5> QED BY <2>1, <5>1 DEF NoDelay
      <4> QED BY <4>1
    <3> QED BY <2>2, <3>1, Bounds
  <2>. DEFINE a == IF delay = 0 THEN attempt[t] + 1 ELSE attempt[t]
  <2>4. a \in 0..MaxAttempts /\ (delay # 0 => a < MaxAttempts)
    BY <2>2, <2>3, Bounds
  <2>5. attempt' = [attempt EXCEPT ![t] = a]
    BY <2>1
  <2>6. left' = [left EXCEPT ![t] = left[t]]
    BY <2>1 DEF CountFits
  <2>7. pc'[t] = "backoff" => delay # 0
    BY <2>1 DEF Goto, IInv, Types
  <2>. HIDE DEF a
  <2> QED BY <2>1, <2>2, <2>4, <2>5, <2>6, <2>7 DEF Orderly, Counted, GrantsStay
<1> QED BY <1>1, <1>2

LEMMA FetchIsOrderly ==
    ASSUME CountFits, IInv, NEW t \in Threads,
           Begin(t) \/ ValidateHop(t) \/ Redirect(t) \/ Retry(t) \/ Cancel(t)
    PROVE  Orderly(t)
<1>1. CASE Begin(t)
  <2>1. TotalSeconds \in Overrun..TotalSeconds /\ attempt[t] \in 0..MaxAttempts
    BY Bounds DEF CountFits
  <2>2. /\ attempt' = [attempt EXCEPT ![t] = attempt[t]]
        /\ left' = [left EXCEPT ![t] = TotalSeconds]
        /\ stop' = stop /\ GrantsStay
    BY <1>1 DEF Begin, CountFits, GrantsStay
  <2>3. pc'[t] = "validate"
    BY <1>1 DEF Begin, Goto, IInv, Types
  <2> QED BY <2>1, <2>2, <2>3 DEF Orderly, Counted
<1>2. CASE ValidateHop(t)
  <2>1. CASE EndFetch(t)
    BY <2>1, EndIsOrderly
  <2>2. CASE ~EndFetch(t)
    <3>1. /\ attempt' = [attempt EXCEPT ![t] = 1] /\ Goto(t, "source")
          /\ UNCHANGED <<clock, grants, stop, granted>>
      BY <1>2, <2>2 DEF ValidateHop
    <3>2. 1 \in 0..MaxAttempts /\ left[t] \in Overrun..TotalSeconds
      BY Bounds DEF CountFits
    <3>3. left' = [left EXCEPT ![t] = left[t]]
      BY <3>1 DEF CountFits, clock
    <3>4. pc'[t] = "source"
      BY <3>1 DEF Goto, IInv, Types
    <3> QED BY <3>1, <3>2, <3>3, <3>4 DEF Orderly, Counted, GrantsStay
  <2> QED BY <2>1, <2>2
<1>3. CASE Redirect(t)
  <2>1. CASE EndFetch(t)
    BY <2>1, EndIsOrderly
  <2>2. CASE ~EndFetch(t)
    <3>1. /\ attempt' = [attempt EXCEPT ![t] = 0] /\ Goto(t, "validate")
          /\ UNCHANGED <<left, grants, stop, granted>>
      BY <1>3, <2>2 DEF Redirect
    <3>2. 0 \in 0..MaxAttempts /\ left[t] \in Overrun..TotalSeconds
      BY Bounds DEF CountFits
    <3>3. left' = [left EXCEPT ![t] = left[t]]
      BY <3>1 DEF CountFits
    <3>4. pc'[t] = "validate"
      BY <3>1 DEF Goto, IInv, Types
    <3> QED BY <3>1, <3>2, <3>3, <3>4 DEF Orderly, Counted, GrantsStay
  <2> QED BY <2>1, <2>2
<1>4. CASE Retry(t)
  <2>1. /\ attempt' = [attempt EXCEPT ![t] = @ + 1] /\ Goto(t, "source")
        /\ UNCHANGED <<clock, grants, stop, granted>> /\ pc[t] = "backoff"
    BY <1>4 DEF Retry
  <2>2. attempt[t] \in 0..MaxAttempts /\ attempt[t] < MaxAttempts
    BY <2>1 DEF CountFits
  <2>3. attempt[t] + 1 \in 0..MaxAttempts /\ left[t] \in Overrun..TotalSeconds
    BY <2>2, Bounds DEF CountFits
  <2>4. /\ attempt' = [attempt EXCEPT ![t] = attempt[t] + 1]
        /\ left' = [left EXCEPT ![t] = left[t]]
    BY <2>1 DEF CountFits, clock
  <2>5. pc'[t] = "source"
    BY <2>1 DEF Goto, IInv, Types
  <2> QED BY <2>1, <2>3, <2>4, <2>5 DEF Orderly, Counted, GrantsStay
<1>5. CASE Cancel(t)
  BY <1>5, EndIsOrderly DEF Cancel
<1> QED BY <1>1, <1>2, <1>3, <1>4, <1>5

LEMMA SlotIsOrderly ==
    ASSUME CountFits, IInv, NEW t \in Threads,
           \/ AskSource(t) \/ AwaitSource(t) \/ Awake(t) \/ AskGlobal(t) \/ AwaitGlobal(t)
    PROVE  Orderly(t)
<1>1. CASE AfterFailure(t, FALSE, NoDelay)
  BY <1>1, FailureIsOrderly
<1>2. CASE ~AfterFailure(t, FALSE, NoDelay)
  <2>1. PICK label \in {"source_wait", "rate", "global_wait", "open"} :
            Goto(t, label) /\ UNCHANGED <<fetch, clock, grants, stop, granted>>
    BY <1>2 DEF AskSource, AwaitSource, Awake, AskGlobal, AwaitGlobal
  <2>2. UNCHANGED <<attempt, left, stop, grants, granted>> /\ label # "backoff"
    BY <2>1 DEF fetch, clock
  <2> QED BY <2>1, <2>2, MoveIsOrderly
<1> QED BY <1>1, <1>2

LEMMA WaitIsOrderly ==
    ASSUME CountFits, IInv, NEW t \in Threads, WaitForRate(t)
    PROVE  Orderly(t)
<1>. DEFINE s == source[t]
            wait == WaitSeconds(s, Kept(s))
<1>1. CASE AfterFailure(t, FALSE, NoDelay)
  BY <1>1, FailureIsOrderly
<1>2. CASE /\ wait <= 0
           /\ grants' = [grants EXCEPT ![s] = Append(Kept(s), 0)]
           /\ granted' = [granted EXCEPT ![s] = Append(@, 0)]
           /\ Goto(t, "global")
           /\ UNCHANGED <<fetch, clock, sourceSlots, stop>>
  <2>1. pc'[t] # "backoff" /\ UNCHANGED <<attempt, left, stop>>
    BY <1>2 DEF Goto, IInv, Types, fetch, clock
  <2>2. Granted(s)
    BY <1>2 DEF Granted
  <2> QED BY <2>1, <2>2, MoveIsCounted DEF Orderly
<1>3. CASE /\ grants' = [grants EXCEPT ![s] = Kept(s)]
           /\ Goto(t, "sleeping")
           /\ UNCHANGED <<fetch, left, readLimit, late, sourceSlots, stop, granted>>
  <2>1. pc'[t] # "backoff" /\ UNCHANGED <<attempt, left, stop>>
    BY <1>3 DEF Goto, IInv, Types, fetch
  <2>2. Trimmed(s)
    BY <1>3 DEF Trimmed
  <2> QED BY <2>1, <2>2, MoveIsCounted DEF Orderly
<1> QED BY <1>1, <1>2, <1>3 DEF WaitForRate

LEMMA ExchangeIsOrderly ==
    ASSUME CountFits, IInv, NEW t \in Threads, Open(t) \/ (Exchange(t) /\ ~Redirect(t))
    PROVE  Orderly(t)
<1>1. ASSUME NEW transient, NEW retryAfter, FailAttempt(t, transient, retryAfter)
      PROVE  Orderly(t)
  BY <1>1, FailureIsOrderly DEF FailAttempt
<1>2. CASE LoseHeaders(t)
  BY <1>1, <1>2 DEF LoseHeaders
<1>3. CASE Refuse(t)
  BY <1>1, <1>3 DEF Refuse
<1>4. CASE Finish(t)
  BY <1>4, EndIsOrderly DEF Finish
<1>5. CASE Open(t)
  <2>1. CASE FailAttempt(t, FALSE, NoDelay)
    BY <1>1, <2>1
  <2>2. CASE Goto(t, "connect") /\ UNCHANGED <<fetch, left, late, slots, grants, stop, granted>>
    BY <2>2, MoveIsOrderly DEF fetch
  <2> QED BY <1>5, <2>1, <2>2 DEF Open
<1>6. CASE Connect(t)
  <2>1. ASSUME NEW transient \in BOOLEAN, FailAttempt(t, transient, NoDelay)
        PROVE  Orderly(t)
    BY <1>1, <2>1
  <2>2. CASE /\ Goto(t, "headers")
             /\ UNCHANGED <<fetch, left, readLimit, late, slots, grants, stop, granted>>
    BY <2>2, MoveIsOrderly DEF fetch
  <2> QED BY <1>6, <2>1, <2>2 DEF Connect
<1>7. CASE Answer(t)
  BY <1>7, MoveIsOrderly DEF Answer, fetch
<1>8. CASE Piece(t)
  <2>1. CASE EndFetch(t)
    BY <2>1, EndIsOrderly
  <2>2. CASE UNCHANGED <<pc, fetch, left, readLimit, late, slots, grants, stop, granted>>
    <3>1. pc'[t] # "backoff" /\ UNCHANGED <<attempt, left, stop>>
      BY <1>8, <2>2 DEF Piece, fetch
    <3> QED BY <2>2, <3>1, MoveIsCounted DEF Orderly, GrantsStay
  <2> QED BY <1>8, <2>1, <2>2 DEF Piece
<1>9. CASE Drip(t)
  <2>1. pc'[t] # "backoff" /\ UNCHANGED <<attempt, left, stop>> /\ GrantsStay
    BY <1>9 DEF Drip, Connected, GrantsStay, fetch
  <2> QED BY <2>1, MoveIsCounted DEF Orderly
<1> QED BY <1>2, <1>3, <1>4, <1>5, <1>6, <1>7, <1>8, <1>9 DEF Exchange

-----------------------------------------------------------------------------
(* The invariant *)

LEMMA OrderlyCounts ==
    ASSUME CountFits, IInv, NEW t \in Threads, Orderly(t),
           \A x \in Threads \ {t} : pc'[x] = pc[x]
    PROVE  CountFits'
<1>1. PICK a \in 0..MaxAttempts, b \in Overrun..TotalSeconds :
          /\ attempt' = [attempt EXCEPT ![t] = a]
          /\ left' = [left EXCEPT ![t] = b]
          /\ pc'[t] = "backoff" => a < MaxAttempts
  BY DEF Orderly, Counted
<1>2. stop' \in BOOLEAN
  BY DEF Orderly, Counted, CountFits
<1>3. attempt' \in [Threads -> 0..MaxAttempts] /\ left' \in [Threads -> Overrun..TotalSeconds]
  BY <1>1 DEF CountFits
<1>4. ASSUME NEW x \in Threads, pc'[x] = "backoff"
      PROVE  attempt'[x] < MaxAttempts
  <2>1. CASE x = t
    BY <1>1, <1>4, <2>1 DEF CountFits
  <2>2. CASE x # t
    BY <1>1, <1>4, <2>2 DEF CountFits
  <2> QED BY <2>1, <2>2
<1> QED BY <1>2, <1>3, <1>4 DEF CountFits

LEMMA OrderlyIsPolite ==
    ASSUME PInv, NEW t \in Threads, Orderly(t)
    PROVE  granted' \in [Sources -> Seq(Nat)] /\ \A s \in Sources : Polite(s)'
<1>0. /\ grants \in [Sources -> Seq(Nat)] /\ granted \in [Sources -> Seq(Nat)]
      /\ source[t] \in Sources
      /\ \A s \in Sources : Polite(s)
  BY DEF PInv, IInv, Types
<1>1. CASE GrantsStay
  BY <1>0, <1>1 DEF GrantsStay, Polite
<1>. DEFINE s == source[t]
            h == granted[s]
            g == grants[s]
            k == Kept(s)
            n == PerWindow[s]
<1>2. /\ h \in Seq(Nat) /\ g \in Seq(Nat) /\ k \in Seq(Nat) /\ Append(k, 0) \in Seq(Nat)
      /\ n \in Nat \ {0} /\ Covers(n, g, h) /\ Spaced(n, MinDelay[s], Window, h)
  BY <1>0, KeptIs, FetchAssumption DEF Polite, FetchAssumption
<1>3. k = IF Len(g) > n THEN SubSeq(g, Len(g) - n + 1, Len(g)) ELSE g
  BY DEF Kept
<1>4. Covers(n, k, h)
  <2>. HIDE DEF h, g, k, n
  <2> QED BY <1>2, <1>3, TrimmingIsPolite
<1>5. CASE Trimmed(s)
  <2>1. grants' = [grants EXCEPT ![s] = k] /\ granted' = granted
    BY <1>5 DEF Trimmed
  <2>2. ASSUME NEW x \in Sources
        PROVE  Polite(x)'
    <3>1. CASE x = s
      <4>1. grants'[x] = k /\ granted'[x] = h
        BY <1>0, <2>1, <3>1
      <4> QED BY <1>2, <1>4, <3>1, <4>1 DEF Polite
    <3>2. CASE x # s
      <4>1. grants'[x] = grants[x] /\ granted'[x] = granted[x]
        BY <1>0, <2>1, <3>2
      <4> QED BY <1>0, <4>1 DEF Polite
    <3> QED BY <3>1, <3>2
  <2> QED BY <1>0, <2>1, <2>2
<1>6. CASE Granted(s)
  <2>1. /\ grants' = [grants EXCEPT ![s] = Append(k, 0)]
        /\ granted' = [granted EXCEPT ![s] = Append(h, 0)]
        /\ WaitSeconds(s, k) <= 0
    BY <1>6 DEF Granted
  <2>2. /\ Append(h, 0) \in Seq(Nat) /\ Covers(n, Append(k, 0), Append(h, 0))
        /\ Spaced(n, MinDelay[s], Window, Append(h, 0))
    <3>1. s \in Sources
      BY <1>0
    <3>. HIDE DEF s, h, k
    <3> QED BY <1>2, <1>4, <2>1, <3>1, GrantIsPolite
  <2>3. ASSUME NEW x \in Sources
        PROVE  Polite(x)'
    <3>1. CASE x = s
      <4>1. grants'[x] = Append(k, 0) /\ granted'[x] = Append(h, 0)
        BY <1>0, <2>1, <3>1
      <4> QED BY <2>2, <3>1, <4>1 DEF Polite
    <3>2. CASE x # s
      <4>1. grants'[x] = grants[x] /\ granted'[x] = granted[x]
        BY <1>0, <2>1, <3>2
      <4> QED BY <1>0, <4>1 DEF Polite
    <3> QED BY <3>1, <3>2
  <2>4. granted' \in [Sources -> Seq(Nat)]
    BY <1>0, <2>1, <2>2
  <2> QED BY <2>3, <2>4
<1> QED BY <1>1, <1>5, <1>6 DEF Orderly

LEMMA TickIsPolite ==
    ASSUME PInv, Tick
    PROVE  PInv'
<1>0. IInv' /\ IInv /\ Types
  BY TickKeeps DEF PInv, IInv
<1>1. CountFits'
  <2>1. pc' = pc /\ attempt' = attempt /\ stop' = stop
    BY DEF Tick, fetch
  <2>2. ASSUME NEW t \in Threads
        PROVE  left'[t] \in Overrun..TotalSeconds
    <3>1. left[t] \in Overrun..TotalSeconds
      BY DEF PInv, CountFits
    <3>2. left'[t] = IF pc[t] = "idle" THEN left[t] ELSE Larger(Overrun, left[t] - 1)
      BY DEF Tick
    <3> QED BY <3>1, <3>2, Bounds DEF Larger
  <2>3. left' \in [Threads -> Overrun..TotalSeconds]
    BY <2>2 DEF Tick
  <2> QED BY <2>1, <2>3 DEF PInv, CountFits
<1>2. ASSUME NEW s \in Sources
      PROVE  Polite(s)' /\ Aged(s) \in Seq(Nat)
  <2>. DEFINE h == granted[s]
              g == grants[s]
              recent == {i \in DOMAIN h : h[i] + 1 < Old(s)}
              c == Cardinality(recent)
              aged == Aging(Old(s), g)
              later == Newest(c, h)
  <2>1. g \in Seq(Nat) /\ h \in Seq(Nat)
    BY <1>0 DEF PInv, Types
  <2>2. c \in 0..Len(h)
    <3>1. Len(h) \in Nat /\ DOMAIN h = 1..Len(h)
      BY <2>1
    <3>2. /\ IsFiniteSet(1..Len(h)) /\ Cardinality(1..Len(h)) = Len(h)
      <4>1. /\ IsFiniteSet(1..Len(h))
            /\ Cardinality(1..Len(h)) = IF 1 > Len(h) THEN 0 ELSE Len(h) - 1 + 1
        BY <3>1, FS_Interval
      <4> QED BY <3>1, <4>1
    <3>3. recent \subseteq 1..Len(h)
      BY <3>1
    <3>. HIDE DEF recent, h
    <3>4. Cardinality(recent) \in Nat /\ Cardinality(recent) <= Len(h)
      BY <3>2, <3>3, FS_Subset, FS_CardinalityType
    <3> QED BY <3>1, <3>4
  <2>3. Aged(s) = later
    BY DEF Aged, Newest
  <2>4. grants'[s] = aged /\ granted'[s] = later
    BY <2>3 DEF Tick, Aging
  <2>5. /\ Covers(PerWindow[s], g, h) /\ Spaced(PerWindow[s], MinDelay[s], Window, h)
    BY DEF PInv, Polite
  <2>6. /\ PerWindow[s] \in Nat \ {0} /\ MinDelay[s] \in Nat /\ Window \in Nat /\ Old(s) \in Nat
    BY FetchAssumption DEF FetchAssumption, Old, Larger
  <2>7. /\ later \in Seq(Nat) /\ Covers(PerWindow[s], aged, later)
        /\ Spaced(PerWindow[s], MinDelay[s], Window, later)
    <3>. HIDE DEF c, g, h
    <3> QED BY <2>1, <2>2, <2>5, <2>6, AgeingIsPolite
  <2>. HIDE DEF aged, later
  <2> QED BY <2>3, <2>4, <2>7 DEF Polite
<1>3. granted' \in [Sources -> Seq(Nat)]
  <2>1. granted' = [s \in Sources |-> Aged(s)]
    BY DEF Tick
  <2> QED BY <1>2, <2>1
<1> QED BY <1>0, <1>1, <1>2, <1>3 DEF PInv

LEMMA PInitHolds == Init => PInv
<1>. SUFFICES ASSUME Init PROVE PInv
  OBVIOUS
<1>1. CountFits
  <2>1. 0 \in 0..MaxAttempts /\ 0 \in Overrun..TotalSeconds
    BY Bounds
  <2>2. /\ attempt \in [Threads -> 0..MaxAttempts]
        /\ left \in [Threads -> Overrun..TotalSeconds]
    BY <2>1 DEF Init
  <2>3. stop \in BOOLEAN /\ \A t \in Threads : pc[t] # "backoff"
    BY DEF Init
  <2> QED BY <2>2, <2>3 DEF CountFits
<1>2. granted \in [Sources -> Seq(Nat)]
  BY DEF Init
<1>3. ASSUME NEW s \in Sources
      PROVE  Polite(s)
  <2>1. grants[s] = << >> /\ granted[s] = << >>
    BY DEF Init
  <2>2. << >> \in Seq(Nat) /\ Len(<< >>) = 0 /\ DOMAIN << >> = {}
    OBVIOUS
  <2>3. Covers(PerWindow[s], << >>, << >>) /\ Spaced(PerWindow[s], MinDelay[s], Window, << >>)
    BY <2>2 DEF Covers, Spaced
  <2> QED BY <2>1, <2>2, <2>3 DEF Polite
<1> QED BY <1>1, <1>2, <1>3, InitHolds DEF PInv

LEMMA PNextKeeps == PInv /\ [Next]_vars => PInv'
<1>. SUFFICES ASSUME PInv, [Next]_vars PROVE PInv'
  OBVIOUS
<1>0. CountFits /\ IInv /\ IInv'
  BY NextKeeps DEF PInv
<1>1. ASSUME NEW t \in Threads,
             Begin(t) \/ Acquire(t) \/ Exchange(t) \/ Retry(t) \/ Cancel(t)
      PROVE  PInv'
  <2>1. Orderly(t)
    BY <1>0, <1>1, FetchIsOrderly, SlotIsOrderly, WaitIsOrderly, ExchangeIsOrderly
    DEF Acquire, Exchange
  <2>2. \A x \in Threads \ {t} : pc'[x] = pc[x]
    BY <1>0, <1>1, StepIsSafe DEF IInv, Safe, OthersKeep
  <2>3. CountFits'
    BY <1>0, <2>1, <2>2, OrderlyCounts
  <2>4. granted' \in [Sources -> Seq(Nat)] /\ \A s \in Sources : Polite(s)'
    BY <2>1, OrderlyIsPolite
  <2> QED BY <1>0, <2>3, <2>4 DEF PInv
<1>2. CASE Tick
  BY <1>2, TickIsPolite
<1>3. ASSUME UNCHANGED <<pc, attempt, left, grants, granted>>, stop' \in BOOLEAN
      PROVE  PInv'
  <2>1. CountFits' /\ granted' \in [Sources -> Seq(Nat)]
    BY <1>3 DEF PInv, CountFits
  <2>2. \A s \in Sources : Polite(s)'
    BY <1>3 DEF PInv, Polite
  <2> QED BY <1>0, <2>1, <2>2 DEF PInv
<1>4. CASE Shutdown
  BY <1>3, <1>4 DEF Shutdown, fetch, clock
<1>5. CASE UNCHANGED vars
  BY <1>0, <1>3, <1>5 DEF vars, fetch, clock, CountFits
<1> QED BY <1>1, <1>2, <1>4, <1>5 DEF Next

LEMMA PInvHolds == Spec => []PInv
BY PInitHolds, PNextKeeps, PTL DEF Spec

-----------------------------------------------------------------------------
(* What follows *)

\* Every variable of the fetches has its type, whatever the limits: attempts stay
\* within max_attempts and budgets within the overrun that is followed.
THEOREM TypeCorrect == Spec => []TypeOK
<1>1. PInv => TypeOK
  BY DEF PInv, IInv, Types, CountFits, TypeOK
<1> QED BY <1>1, PInvHolds, PTL

\* Any number of threads that race for the grants of a source, and that sleep and
\* wake in any order, get them as far apart and as few in a window as its limits
\* say, although _forget_expired keeps only as many as the window holds.
THEOREM GrantsSpaced == Spec => []GrantsArePolite
<1>1. PInv => GrantsArePolite
  BY DEF PInv, Polite, Spaced, GrantsArePolite
<1> QED BY <1>1, PInvHolds, PTL

=============================================================================
