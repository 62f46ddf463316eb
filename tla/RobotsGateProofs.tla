--------------------------- MODULE RobotsGateProofs ---------------------------
(***************************************************************************)
(* Theorems of RobotsGate, for any files and any sites: the fold over the  *)
(* lines of a file yields the groups of the standard, its rules decide as  *)
(* the standard does, and a run requests, refuses and waits by the file    *)
(* that it has read.                                                       *)
(*                                                                         *)
(* What a recursive function computes is proved by the least number for    *)
(* which it would not be so.                                               *)
(***************************************************************************)
EXTENDS RobotsGate, WellFoundedInduction, TLAPS

-----------------------------------------------------------------------------
(* Induction and recursion *)

LEMMA LeastOf ==
    ASSUME NEW S \in SUBSET Nat, S # {}
    PROVE  Min(S) \in S /\ \A n \in S : Min(S) <= n
<1>1. PICK n \in S : \A m \in S : ~ (<<m, n>> \in OpToRel(<, Nat))
  BY WFMin, NatLessThanWellFounded
<1>2. \A m \in S : n <= m
  <2> SUFFICES ASSUME NEW m \in S, m < n PROVE FALSE
    OBVIOUS
  <2> QED BY <1>1 DEF OpToRel
<1> QED BY <1>2 DEF Min

\* T is the set of the numbers for which something holds.
LEMMA Inductively ==
    ASSUME NEW N \in Nat, NEW T, 0 \in T, \A n \in 1..N : n - 1 \in T => n \in T
    PROVE  0..N \subseteq T
<1> DEFINE Bad == {n \in 0..N : n \notin T}
<1> SUFFICES ASSUME Bad # {} PROVE FALSE
  OBVIOUS
<1>1. Bad \in SUBSET Nat
  OBVIOUS
<1>2. PICK n \in Bad : \A m \in Bad : n <= m
  <2> HIDE DEF Bad
  <2> QED BY <1>1, LeastOf
<1>3. n \in 1..N
  BY <1>2
<1>4. n - 1 \in 0..N /\ n - 1 \notin Bad
  BY <1>2, <1>3
<1> QED BY <1>2, <1>3, <1>4

\* A function of the numbers up to N may be defined from each number to the next.
Steps(N, S) == [(1..N) \X S -> S]
Follows(f, S, first, N, step) ==
    f \in [0..N -> S] /\ f[0] = first /\ \A n \in 1..N : f[n] = step[<<n, f[n - 1]>>]

LEMMA Recursively ==
    ASSUME NEW S, NEW first \in S, NEW N \in Nat, NEW step \in Steps(N, S)
    PROVE  \E f : Follows(f, S, first, N, step)
<1> USE DEF Steps, Follows
<1> DEFINE Defines(f, n) == /\ f \in [0..n -> S] /\ f[0] = first
                            /\ \A m \in 1..n : f[m] = step[<<m, f[m - 1]>>]
           T == {n \in 0..N : \E f : Defines(f, n)}
<1>1. 0 \in T
  <2>1. Defines([m \in 0..0 |-> first], 0)
    OBVIOUS
  <2> HIDE DEF Defines
  <2> QED BY <2>1
<1>2. ASSUME NEW n \in 1..N, n - 1 \in T PROVE n \in T
  <2>1. PICK f : Defines(f, n - 1)
    BY <1>2
  <2> DEFINE v == step[<<n, f[n - 1]>>]
             g == [m \in 0..n |-> IF m = n THEN v ELSE f[m]]
  <2>2. f \in [0..n-1 -> S] /\ f[n - 1] \in S
    BY <2>1
  <2>3. v \in S
    BY <2>2
  <2>4. g \in [0..n -> S]
    <3> SUFFICES ASSUME NEW m \in 0..n PROVE (IF m = n THEN v ELSE f[m]) \in S
      OBVIOUS
    <3>1. m # n => m \in 0..n-1
      OBVIOUS
    <3> HIDE DEF v
    <3> QED BY <2>2, <2>3, <3>1
  <2>5. g[0] = first
    BY <2>1
  <2>6. ASSUME NEW m \in 1..n PROVE g[m] = step[<<m, g[m - 1]>>]
    <3>1. m - 1 \in 0..n /\ m - 1 # n /\ m \in 0..n
      OBVIOUS
    <3>2. g[m - 1] = f[m - 1]
      BY <3>1
    <3>3. CASE m = n
      BY <3>1, <3>2, <3>3
    <3>4. CASE m # n
      <4>1. m \in 1..n-1
        BY <3>4
      <4>2. f[m] = step[<<m, f[m - 1]>>]
        BY <2>1, <4>1
      <4> QED BY <3>1, <3>2, <3>4, <4>2
    <3> QED BY <3>3, <3>4
  <2>7. Defines(g, n)
    <3> HIDE DEF g
    <3> QED BY <2>4, <2>5, <2>6
  <2> HIDE DEF Defines
  <2> QED BY <2>7
<1>3. 0..N \subseteq T
  <2> HIDE DEF T
  <2> QED BY <1>1, <1>2, Inductively
<1> QED BY <1>3

\* One of the numbers in T is mapped to the greatest value.
LEMMA GreatestAt ==
    ASSUME NEW N \in Nat, NEW T \in SUBSET (1..N), T # {}, NEW f, \A n \in T : f[n] \in Int
    PROVE  \E n \in T : \A m \in T : f[m] <= f[n]
<1> DEFINE Below(k) == {n \in T : n <= k}
           Served == {k \in 0..N : Below(k) # {} => \E n \in Below(k) : \A m \in Below(k) : f[m] <= f[n]}
<1>0. \A n \in T : n \in Nat /\ 1 <= n /\ n <= N
  OBVIOUS
<1>1. 0 \in Served
  <2>1. \A n \in T : ~ n <= 0
    BY <1>0
  <2>2. Below(0) = {}
    BY <2>1
  <2> HIDE DEF Below
  <2> QED BY <2>2
<1>2. ASSUME NEW k \in 1..N, k - 1 \in Served PROVE k \in Served
  <2> SUFFICES ASSUME Below(k) # {} PROVE \E n \in Below(k) : \A m \in Below(k) : f[m] <= f[n]
    OBVIOUS
  <2>1. CASE k \notin T
    <3>1. \A n \in T : n <= k <=> n <= k - 1
      BY <1>0, <2>1
    <3>2. Below(k) = Below(k - 1)
      BY <3>1
    <3> HIDE DEF Below
    <3> QED BY <1>2, <3>2
  <2>2. CASE k \in T /\ Below(k - 1) = {}
    <3>1. \A m \in Below(k) : m = k
      BY <2>2
    <3> QED BY <2>2, <3>1
  <2>3. CASE k \in T /\ Below(k - 1) # {}
    <3>1. PICK n \in Below(k - 1) : \A m \in Below(k - 1) : f[m] <= f[n]
      BY <1>2, <2>3
    <3>2. \A m \in Below(k) : m = k \/ m \in Below(k - 1)
      OBVIOUS
    <3>3. n \in Below(k) /\ k \in Below(k)
      BY <2>3
    <3>4. f[n] \in Int /\ f[k] \in Int /\ \A m \in Below(k - 1) : f[m] \in Int
      BY <2>3
    <3> HIDE DEF Below
    <3>5. CASE f[n] <= f[k]
      <4>1. \A m \in Below(k) : f[m] <= f[k]
        BY <3>1, <3>2, <3>4, <3>5
      <4> QED BY <3>3, <4>1
    <3>6. CASE ~ f[n] <= f[k]
      <4>1. \A m \in Below(k) : f[m] <= f[n]
        BY <3>1, <3>2, <3>4, <3>6
      <4> QED BY <3>3, <4>1
    <3> QED BY <3>5, <3>6
  <2> QED BY <2>1, <2>2, <2>3
<1>3. 0..N \subseteq Served
  <2> HIDE DEF Served
  <2> QED BY <1>1, <1>2, Inductively
<1>4. N \in Served
  BY <1>3
<1>5. Below(N) = T
  BY <1>0
<1> HIDE DEF Below
<1> QED BY <1>4, <1>5

-----------------------------------------------------------------------------
(* Reading the lines *)

Rule == [allow : BOOLEAN, pattern : Seq(STRING)]
Group == [rules : Seq(Rule), delay : Int, saw : BOOLEAN]
GroupMap == UNION {[A -> Group] : A \in SUBSET STRING}
State == [groups : GroupMap, current : SUBSET STRING, fresh : BOOLEAN]

IsAgent(line) == line.name = "user-agent"
IsRule(line) == line.name \in {"allow", "disallow"}
IsDelay(line) == line.name = "crawl-delay"

LEMMA LineTypes ==
    ASSUME NEW line \in Directive
    PROVE  /\ IsAgent(line) => line.value \in STRING /\ ~ IsRule(line) /\ ~ IsDelay(line)
           /\ IsRule(line) => line.value \in Seq(STRING) /\ ~ IsDelay(line)
           /\ IsDelay(line) => line.value \in Int
  BY DEF Directive, IsAgent, IsRule, IsDelay

LEMMA Maps ==
    ASSUME NEW A \in SUBSET STRING, NEW f \in [A -> Group]
    PROVE  f \in GroupMap
  BY DEF GroupMap

LEMMA Mapped ==
    ASSUME NEW f \in GroupMap
    PROVE  DOMAIN f \in SUBSET STRING /\ f \in [DOMAIN f -> Group]
<1>1. PICK A \in SUBSET STRING : f \in [A -> Group]
  BY DEF GroupMap
<1> QED BY <1>1

LEMMA GroupTypes ==
    ASSUME NEW g \in Group
    PROVE  /\ \A allow \in BOOLEAN, pattern \in Seq(STRING) : WithRule(g, allow, pattern) \in Group
           /\ \A delay \in Int : WithDelay(g, delay) \in Group
           /\ EmptyGroup \in Group
<1>0. g.rules \in Seq(Rule) /\ g.delay \in Int
  BY DEF Group
<1>1. ASSUME NEW allow \in BOOLEAN, NEW pattern \in Seq(STRING) PROVE WithRule(g, allow, pattern) \in Group
  <2>1. [allow |-> allow, pattern |-> pattern] \in Rule
    BY DEF Rule
  <2>2. Append(g.rules, [allow |-> allow, pattern |-> pattern]) \in Seq(Rule)
    BY <1>0, <2>1
  <2> QED BY <1>0, <2>2 DEF WithRule, Group
<1>2. ASSUME NEW delay \in Int PROVE WithDelay(g, delay) \in Group
  BY <1>0 DEF WithDelay, Group
<1>3. EmptyGroup \in Group
  BY DEF EmptyGroup, Group, NoDelay
<1> QED BY <1>1, <1>2, <1>3

LEMMA StartTyped == AtStart \in State
<1>1. [a \in {} |-> EmptyGroup] \in [{} -> Group]
  OBVIOUS
<1>2. [a \in {} |-> EmptyGroup] \in GroupMap
  BY <1>1, Maps
<1> QED BY <1>2 DEF AtStart, State

LEMMA AgentTyped ==
    ASSUME NEW s \in State, NEW agent \in STRING
    PROVE  ReadAgent(s, agent) \in State
<1> DEFINE A == DOMAIN s.groups \cup ({agent} \ {NoAgent})
           f == [a \in A |-> IF a \in DOMAIN s.groups THEN s.groups[a] ELSE EmptyGroup]
<1>0. s.groups \in GroupMap /\ s.current \in SUBSET STRING /\ s.fresh \in BOOLEAN
  BY DEF State
<1>1. DOMAIN s.groups \in SUBSET STRING /\ s.groups \in [DOMAIN s.groups -> Group]
  BY <1>0, Mapped
<1>2. EmptyGroup \in Group
  BY DEF EmptyGroup, Group, NoDelay
<1>3. f \in [A -> Group] /\ A \in SUBSET STRING
  BY <1>1, <1>2
<1>4. f \in GroupMap
  <2> HIDE DEF f, A
  <2> QED BY <1>3, Maps
<1>5. Header(s) \cup ({agent} \ {NoAgent}) \in SUBSET STRING
  BY <1>0 DEF Header
<1>6. ReadAgent(s, agent) = [groups |-> f, current |-> Header(s) \cup ({agent} \ {NoAgent}), fresh |-> TRUE]
  BY DEF ReadAgent
<1> HIDE DEF f
<1> QED BY <1>4, <1>5, <1>6 DEF State

\* What a line that is no user-agent line makes of a group of its header.
Changed(g, line) ==
    IF IsRule(line) THEN WithRule(g, line.name = "allow", line.value)
    ELSE IF IsDelay(line) /\ line.value > 0 THEN WithDelay(g, line.value)
    ELSE g

LEMMA OtherLines ==
    ASSUME NEW s \in State, NEW line \in Directive, ~ IsAgent(line)
    PROVE  /\ DOMAIN ReadLine(s, line).groups = DOMAIN s.groups
           /\ \A a \in DOMAIN s.groups : ReadLine(s, line).groups[a] =
                 IF a \in s.current THEN Changed(s.groups[a], line) ELSE s.groups[a]
           /\ ReadLine(s, line).current = s.current
           /\ ReadLine(s, line).fresh = FALSE
           /\ ReadLine(s, line) \in State
<1>0. s.groups \in GroupMap /\ s.current \in SUBSET STRING /\ s.fresh \in BOOLEAN
      /\ s = [groups |-> s.groups, current |-> s.current, fresh |-> s.fresh]
  BY DEF State
<1>1. DOMAIN s.groups \in SUBSET STRING /\ s.groups \in [DOMAIN s.groups -> Group]
  BY <1>0, Mapped
<1> DEFINE f == [a \in DOMAIN s.groups |-> IF a \in s.current THEN Changed(s.groups[a], line) ELSE s.groups[a]]
<1>2. ReadLine(s, line) = [groups |-> f, current |-> s.current, fresh |-> FALSE]
  <2>1. CASE IsRule(line)
    BY <2>1, LineTypes DEF ReadLine, Reaches, Changed, IsRule, IsAgent
  <2>2. CASE ~ IsRule(line) /\ IsDelay(line) /\ line.value > 0
    BY <2>2, LineTypes DEF ReadLine, Reaches, Changed, IsRule, IsAgent, IsDelay
  <2>3. CASE ~ IsRule(line) /\ ~ (IsDelay(line) /\ line.value > 0)
    <3>1. f = s.groups
      BY <1>1, <2>3 DEF Changed
    <3>2. ReadLine(s, line) = [s EXCEPT !.fresh = FALSE]
      BY <2>3 DEF ReadLine, IsRule, IsAgent, IsDelay
    <3> HIDE DEF f
    <3> QED BY <1>0, <3>1, <3>2
  <2> QED BY <2>1, <2>2, <2>3
<1>3. ASSUME NEW a \in DOMAIN s.groups PROVE Changed(s.groups[a], line) \in Group
  <2>1. s.groups[a] \in Group /\ (line.name = "allow") \in BOOLEAN
    BY <1>1
  <2> QED BY <2>1, GroupTypes, LineTypes DEF Changed
<1>4. f \in [DOMAIN s.groups -> Group]
  BY <1>1, <1>3
<1>5. f \in GroupMap
  <2> HIDE DEF f
  <2> QED BY <1>1, <1>4, Maps
<1>6. DOMAIN f = DOMAIN s.groups /\ \A a \in DOMAIN s.groups :
         f[a] = IF a \in s.current THEN Changed(s.groups[a], line) ELSE s.groups[a]
  OBVIOUS
<1> HIDE DEF f
<1> QED BY <1>0, <1>2, <1>5, <1>6 DEF State

LEMMA LineTyped ==
    ASSUME NEW s \in State, NEW line \in Directive
    PROVE  ReadLine(s, line) \in State
<1>1. CASE IsAgent(line)
  <2>1. ReadLine(s, line) = ReadAgent(s, line.value)
    BY <1>1 DEF ReadLine, IsAgent
  <2> QED BY <1>1, <2>1, LineTypes, AgentTyped
<1>2. CASE ~ IsAgent(line)
  BY <1>2, OtherLines
<1> QED BY <1>1, <1>2

LEMMA ReadingsAre ==
    ASSUME NEW file \in Seq(Directive)
    PROVE  /\ Readings(file) \in [0..Len(file) -> State]
           /\ Readings(file)[0] = AtStart
           /\ \A n \in 1..Len(file) : Readings(file)[n] = ReadLine(Readings(file)[n - 1], file[n])
<1> DEFINE N == Len(file)
           Reads(f) == f = [n \in 0..N |-> IF n = 0 THEN AtStart ELSE ReadLine(f[n - 1], file[n])]
           step == [x \in (1..N) \X State |-> ReadLine(x[2], file[x[1]])]
<1>1. N \in Nat /\ \A n \in 1..N : file[n] \in Directive
  OBVIOUS
<1>2. step \in [(1..N) \X State -> State]
  <2> SUFFICES ASSUME NEW n \in 1..N, NEW s \in State PROVE ReadLine(s, file[n]) \in State
    OBVIOUS
  <2> HIDE DEF N
  <2> QED BY <1>1, LineTyped
<1>3. \A n \in 1..N, s \in State : step[<<n, s>>] = ReadLine(s, file[n])
  OBVIOUS
<1>4. PICK f \in [0..N -> State] : f[0] = AtStart /\ \A n \in 1..N : f[n] = step[<<n, f[n - 1]>>]
  <2>1. N \in Nat /\ step \in Steps(N, State)
    BY <1>1, <1>2 DEF Steps
  <2>2. PICK f : Follows(f, State, AtStart, N, step)
    <3> HIDE DEF step, N
    <3> QED BY <2>1, StartTyped, Recursively
  <2> QED BY <2>2 DEF Follows
<1> HIDE DEF step
<1>5. ASSUME NEW n \in 0..N, n # 0 PROVE f[n] = ReadLine(f[n - 1], file[n])
  <2>1. n \in 1..N /\ n - 1 \in 0..N
    BY <1>1, <1>5
  <2>2. f[n - 1] \in State
    BY <2>1
  <2> QED BY <1>3, <1>4, <2>1, <2>2
<1>6. Reads(f)
  <2> DEFINE g == [n \in 0..N |-> IF n = 0 THEN AtStart ELSE ReadLine(f[n - 1], file[n])]
  <2>1. \A n \in 0..N : f[n] = g[n]
    BY <1>4, <1>5
  <2>2. f \in [0..N -> State] /\ DOMAIN g = 0..N /\ g = [n \in 0..N |-> g[n]]
    OBVIOUS
  <2>3. f = g
    <3> HIDE DEF g
    <3> QED BY <2>1, <2>2
  <2> QED BY <2>3
<1>7. Readings(file) = CHOOSE h : Reads(h)
  BY DEF Readings
<1>8. Reads(Readings(file))
  <2> HIDE DEF Reads
  <2> QED BY <1>6, <1>7
<1> DEFINE r == Readings(file)
<1>9. \A n \in 0..N : r[n] = IF n = 0 THEN AtStart ELSE ReadLine(r[n - 1], file[n])
  <2> HIDE DEF r
  <2> QED BY <1>8 DEF r
<1>10. r[0] = AtStart /\ \A n \in 1..N : r[n] = ReadLine(r[n - 1], file[n])
  <2>1. 0 \in 0..N /\ \A n \in 1..N : n \in 0..N /\ n # 0
    BY <1>1
  <2> HIDE DEF r
  <2> QED BY <1>9, <2>1
<1>11. \A n \in 0..N : r[n] \in State
  <2> DEFINE T == {n \in 0..N : r[n] \in State}
  <2>1. 0 \in T
    BY <1>1, <1>10, StartTyped
  <2>2. ASSUME NEW n \in 1..N, n - 1 \in T PROVE n \in T
    <3> HIDE DEF r
    <3> QED BY <1>1, <1>10, <2>2, LineTyped
  <2>3. 0..N \subseteq T
    <3> HIDE DEF T, N
    <3> QED BY <1>1, <2>1, <2>2, Inductively
  <2> QED BY <2>3
<1>12. r = [n \in 0..N |-> r[n]]
  <2> HIDE DEF r
  <2> QED BY <1>8 DEF r
<1>13. r \in [0..N -> State]
  <2> HIDE DEF r
  <2> QED BY <1>11, <1>12
<1> QED BY <1>10, <1>13

-----------------------------------------------------------------------------
(* What the lines up to one of them say *)

NamesTo(file, n) == {file[k].value : k \in {k \in 1..n : IsAgent(file[k])}} \ {NoAgent}
HeaderTo(file, n) == {file[k].value : k \in {k \in 1..n : Heads(file, k, n + 1)}} \ {NoAgent}
BoundTo(file, n, a) == {m \in Binding(file, a) : m <= n}

\* A rule that is written down: an empty value forbids nothing.
Stated(line) == IsRule(line) /\ line.value # Nothing
RuleOf(line) == [allow |-> line.name = "allow", pattern |-> line.value]

\* The group g holds what the lines B of the file say, and nothing else.
Holds(file, B, g) ==
    /\ \A i \in 1..Len(g.rules) : \E m \in B : Stated(file[m]) /\ g.rules[i] = RuleOf(file[m])
    /\ \A m \in B : Stated(file[m]) => \E i \in 1..Len(g.rules) : g.rules[i] = RuleOf(file[m])
    /\ g.delay >= 0
    /\ \A m \in B : IsDelay(file[m]) => file[m].value <= g.delay
    /\ g.delay = 0 \/ \E m \in B : IsDelay(file[m]) /\ file[m].value = g.delay
    /\ g.saw <=> \E m \in B : IsRule(file[m]) \/ (IsDelay(file[m]) /\ file[m].value > 0)

Described(file, n, s) ==
    /\ s.fresh <=> n = 0 \/ IsAgent(file[n])
    /\ DOMAIN s.groups = NamesTo(file, n)
    /\ s.current = HeaderTo(file, n)
    /\ \A a \in NamesTo(file, n) : Holds(file, BoundTo(file, n, a), s.groups[a])

LEMMA HeadsIs ==
    ASSUME NEW file, NEW k \in Nat, NEW n \in Nat
    PROVE  Heads(file, k, n) <=>
             /\ k < n /\ IsAgent(file[k])
             /\ \A i, j \in Nat : k < i /\ i < j /\ j < n /\ IsAgent(file[j]) => IsAgent(file[i])
<1>1. \A i \in Nat : k < i /\ i < n <=> i \in (k+1)..(n-1)
  OBVIOUS
<1>2. \A i \in (k+1)..(n-1) : i \in Nat /\ k < i /\ i < n
  OBVIOUS
<1>3. \A i, j \in Nat : k < i /\ i < j /\ j < n => i < n /\ k < j
  OBVIOUS
<1> QED BY <1>1, <1>2, <1>3 DEF Heads, IsAgent

LEMMA HeaderStep ==
    ASSUME NEW file \in Seq(Directive), NEW n \in 1..Len(file)
    PROVE  HeaderTo(file, n) =
             IF ~ IsAgent(file[n]) THEN HeaderTo(file, n - 1)
             ELSE (IF n = 1 \/ IsAgent(file[n - 1]) THEN HeaderTo(file, n - 1) ELSE {})
                  \cup ({file[n].value} \ {NoAgent})
<1>0. n \in Nat /\ n >= 1 /\ n - 1 + 1 = n
  OBVIOUS
<1>1. CASE ~ IsAgent(file[n])
  <2>1. ASSUME NEW k \in 1..n PROVE Heads(file, k, n + 1) <=> k \in 1..(n-1) /\ Heads(file, k, n)
    <3>1. k \in Nat /\ n + 1 \in Nat /\ \A j \in Nat : j < n + 1 <=> j < n \/ j = n
      OBVIOUS
    <3>2. k \in 1..(n-1) <=> k < n
      OBVIOUS
    <3> QED BY <1>0, <1>1, <3>1, <3>2, HeadsIs
  <2>2. 1..(n-1) \subseteq 1..n
    BY <1>0
  <2>3. {k \in 1..n : Heads(file, k, n + 1)} = {k \in 1..(n-1) : Heads(file, k, n)}
    BY <2>1, <2>2
  <2> QED BY <1>0, <1>1, <2>3 DEF HeaderTo
<1>2. CASE IsAgent(file[n]) /\ (n = 1 \/ IsAgent(file[n - 1]))
  <2>1. ASSUME NEW k \in 1..(n - 1) PROVE Heads(file, k, n + 1) <=> Heads(file, k, n)
    <3>1. k \in Nat /\ n + 1 \in Nat /\ n - 1 \in Nat /\ \A j \in Nat : j < n + 1 <=> j < n \/ j = n
      OBVIOUS
    <3>2. ASSUME Heads(file, k, n), NEW i \in Nat, k < i, i < n PROVE IsAgent(file[i])
      <4>1. IsAgent(file[n - 1])
        BY <1>2, <2>1
      <4>2. CASE i = n - 1
        BY <4>1, <4>2
      <4>3. CASE i # n - 1
        <5>1. i < n - 1 /\ n - 1 < n
          BY <3>2, <4>3
        <5> QED BY <1>0, <3>1, <3>2, <4>1, <5>1, HeadsIs
      <4> QED BY <4>2, <4>3
    <3>3. k < n
      OBVIOUS
    <3>4. \A i, j \in Nat : i < j /\ j < n + 1 => i < n
      BY <1>0
    <3>5. Heads(file, k, n) => Heads(file, k, n + 1)
      BY <1>0, <3>1, <3>2, <3>3, <3>4, HeadsIs
    <3>6. Heads(file, k, n + 1) => Heads(file, k, n)
      BY <1>0, <3>1, <3>3, HeadsIs
    <3> QED BY <3>5, <3>6
  <2>2. Heads(file, n, n + 1)
    BY <1>0, <1>2 DEF Heads, IsAgent
  <2>3. {k \in 1..n : Heads(file, k, n + 1)} = {k \in 1..(n-1) : Heads(file, k, n)} \cup {n}
    <3>1. \A k \in 1..n : k = n \/ k \in 1..(n-1)
      OBVIOUS
    <3>2. 1..(n-1) \subseteq 1..n /\ n \in 1..n
      OBVIOUS
    <3> QED BY <2>1, <2>2, <3>1, <3>2
  <2> QED BY <1>0, <1>2, <2>3 DEF HeaderTo
<1>3. CASE IsAgent(file[n]) /\ ~ (n = 1 \/ IsAgent(file[n - 1]))
  <2>1. ASSUME NEW k \in 1..n PROVE Heads(file, k, n + 1) <=> k = n
    <3>1. CASE k = n
      BY <1>0, <1>3, <3>1 DEF Heads, IsAgent
    <3>2. CASE k = n - 1
      BY <1>3, <3>2 DEF Heads, IsAgent
    <3>3. CASE k < n - 1
      <4>1. n - 1 \in Nat /\ n + 1 \in Nat /\ k \in Nat /\ k < n - 1 /\ n - 1 < n /\ n < n + 1 /\ k # n
        BY <3>3
      <4> QED BY <1>0, <1>3, <4>1, HeadsIs
    <3> QED BY <3>1, <3>2, <3>3
  <2>2. {k \in 1..n : Heads(file, k, n + 1)} = {n}
    BY <2>1
  <2> QED BY <1>3, <2>2 DEF HeaderTo
<1> QED BY <1>1, <1>2, <1>3

LEMMA NamesStep ==
    ASSUME NEW file \in Seq(Directive), NEW n \in 1..Len(file)
    PROVE  /\ IsAgent(file[n]) => NamesTo(file, n) = NamesTo(file, n - 1) \cup ({file[n].value} \ {NoAgent})
           /\ ~ IsAgent(file[n]) => NamesTo(file, n) = NamesTo(file, n - 1)
<1>1. \A k \in 1..n : k = n \/ k \in 1..(n-1)
  OBVIOUS
<1>2. 1..(n-1) \subseteq 1..n /\ n \in 1..n
  OBVIOUS
<1>3. {k \in 1..n : IsAgent(file[k])} = {k \in 1..(n-1) : IsAgent(file[k])}
        \cup (IF IsAgent(file[n]) THEN {n} ELSE {})
  BY <1>1, <1>2
<1> QED BY <1>3 DEF NamesTo

LEMMA BoundStep ==
    ASSUME NEW file \in Seq(Directive), NEW n \in 1..Len(file), NEW a
    PROVE  IF (IsRule(file[n]) \/ IsDelay(file[n])) /\ a \in HeaderTo(file, n - 1)
           THEN BoundTo(file, n, a) = BoundTo(file, n - 1, a) \cup {n}
           ELSE BoundTo(file, n, a) = BoundTo(file, n - 1, a)
<1>0. n \in Nat /\ n >= 1 /\ n - 1 + 1 = n /\ n \in DOMAIN file /\ DOMAIN file = 1..Len(file)
  OBVIOUS
<1>1. n \in Binding(file, a) <=> (IsRule(file[n]) \/ IsDelay(file[n])) /\ a \in HeaderTo(file, n - 1)
  <2>1. a \in HeaderTo(file, n - 1) <=>
          a # NoAgent /\ \E k \in 1..(n-1) : Heads(file, k, n) /\ file[k].value = a
    BY <1>0 DEF HeaderTo
  <2>2. (\E k \in 1..(n-1) : Heads(file, k, n) /\ file[k].value = a)
        <=> \E k \in DOMAIN file : Heads(file, k, n) /\ file[k].value = a
    BY <1>0 DEF Heads
  <2>3. file[n].name \in {"allow", "disallow", "crawl-delay"} <=> IsRule(file[n]) \/ IsDelay(file[n])
    BY DEF IsRule, IsDelay
  <2> QED BY <1>0, <2>1, <2>2, <2>3 DEF Binding
<1>2. \A m \in Binding(file, a) : m \in Nat /\ (m <= n <=> m = n \/ m <= n - 1)
  BY <1>0 DEF Binding
<1>3. \A m \in BoundTo(file, n, a) : (m = n /\ n \in Binding(file, a)) \/ m \in BoundTo(file, n - 1, a)
  BY <1>2 DEF BoundTo
<1>4. BoundTo(file, n - 1, a) \subseteq BoundTo(file, n, a)
  BY <1>2 DEF BoundTo
<1>5. n \in Binding(file, a) <=> n \in BoundTo(file, n, a)
  BY <1>0 DEF BoundTo
<1>6. CASE n \in Binding(file, a)
  <2>1. BoundTo(file, n, a) = BoundTo(file, n - 1, a) \cup {n}
    BY <1>3, <1>4, <1>5, <1>6
  <2> QED BY <1>1, <1>6, <2>1
<1>7. CASE n \notin Binding(file, a)
  <2>1. BoundTo(file, n, a) = BoundTo(file, n - 1, a)
    BY <1>3, <1>4, <1>7
  <2> QED BY <1>1, <1>7, <2>1
<1> QED BY <1>6, <1>7

LEMMA HoldsNothing ==
    ASSUME NEW file
    PROVE  Holds(file, {}, EmptyGroup)
  BY DEF Holds, EmptyGroup, NoDelay

LEMMA HoldsRule ==
    ASSUME NEW file, NEW B, NEW g \in Group, Holds(file, B, g), NEW n,
           file[n] \in Directive, IsRule(file[n])
    PROVE  Holds(file, B \cup {n}, Changed(g, file[n]))
<1> DEFINE h == Changed(g, file[n])
           C == B \cup {n}
<1>0. g.rules \in Seq(Rule) /\ g.delay \in Int /\ ~ IsDelay(file[n]) /\ ~ IsAgent(file[n])
      /\ file[n].value \in Seq(STRING)
  BY LineTypes DEF Group
<1>1. h = WithRule(g, file[n].name = "allow", file[n].value)
  BY DEF Changed
<1>2. /\ h.rules = IF file[n].value = Nothing THEN g.rules ELSE Append(g.rules, RuleOf(file[n]))
      /\ h.delay = g.delay /\ h.saw = TRUE
  BY <1>1 DEF WithRule, RuleOf
<1>3. Stated(file[n]) <=> file[n].value # Nothing
  BY DEF Stated
<1> HIDE DEF h
<1>4. /\ \A i \in 1..Len(h.rules) : \E m \in C : Stated(file[m]) /\ h.rules[i] = RuleOf(file[m])
      /\ \A m \in C : Stated(file[m]) => \E i \in 1..Len(h.rules) : h.rules[i] = RuleOf(file[m])
  <2>1. CASE ~ Stated(file[n])
    BY <1>2, <1>3, <2>1 DEF Holds
  <2>2. CASE Stated(file[n])
    <3> DEFINE L == Len(g.rules)
    <3>0. L \in Nat
      BY <1>0
    <3>1. h.rules = Append(g.rules, RuleOf(file[n]))
      BY <1>2, <1>3, <2>2
    <3>2. RuleOf(file[n]) \in Rule
      BY <1>0 DEF RuleOf, Rule
    <3>3. /\ Len(h.rules) = L + 1 /\ h.rules[L + 1] = RuleOf(file[n])
          /\ \A i \in 1..L : h.rules[i] = g.rules[i]
      BY <1>0, <3>1, <3>2
    <3>4. /\ \A i \in 1..(L + 1) : i = L + 1 \/ i \in 1..L
          /\ 1..L \subseteq 1..(L + 1) /\ L + 1 \in 1..(L + 1)
      BY <3>0
    <3>5. ASSUME NEW i \in 1..(L + 1) PROVE \E m \in C : Stated(file[m]) /\ h.rules[i] = RuleOf(file[m])
      <4>1. CASE i = L + 1
        BY <2>2, <3>3, <4>1
      <4>2. CASE i \in 1..L
        <5>1. PICK m \in B : Stated(file[m]) /\ g.rules[i] = RuleOf(file[m])
          BY <4>2 DEF Holds
        <5> QED BY <3>3, <4>2, <5>1
      <4> QED BY <3>4, <4>1, <4>2
    <3>6. ASSUME NEW m \in C, Stated(file[m]) PROVE \E i \in 1..(L + 1) : h.rules[i] = RuleOf(file[m])
      <4>1. CASE m = n
        BY <3>3, <3>4, <4>1
      <4>2. CASE m \in B
        <5>1. PICK i \in 1..L : g.rules[i] = RuleOf(file[m])
          BY <3>6, <4>2 DEF Holds
        <5> QED BY <3>3, <3>4, <5>1
      <4> QED BY <4>1, <4>2
    <3> QED BY <3>3, <3>5, <3>6
  <2> QED BY <2>1, <2>2
<1>5. /\ h.delay >= 0
      /\ \A m \in C : IsDelay(file[m]) => file[m].value <= h.delay
      /\ h.delay = 0 \/ \E m \in C : IsDelay(file[m]) /\ file[m].value = h.delay
  BY <1>0, <1>2 DEF Holds
<1>6. h.saw <=> \E m \in C : IsRule(file[m]) \/ (IsDelay(file[m]) /\ file[m].value > 0)
  <2>1. n \in C /\ h.saw = TRUE
    BY <1>2
  <2> HIDE DEF C
  <2>2. \E m \in C : IsRule(file[m]) \/ (IsDelay(file[m]) /\ file[m].value > 0)
    BY <2>1
  <2> QED BY <2>1, <2>2, Zenon
<1> QED BY <1>4, <1>5, <1>6 DEF Holds, h

LEMMA HoldsDelay ==
    ASSUME NEW file, NEW B, NEW g \in Group, Holds(file, B, g), NEW n,
           file[n] \in Directive, IsDelay(file[n]), \A m \in B : file[m] \in Directive
    PROVE  Holds(file, B \cup {n}, Changed(g, file[n]))
<1> DEFINE h == Changed(g, file[n])
           C == B \cup {n}
           d == file[n].value
<1>0. g.rules \in Seq(Rule) /\ g.delay \in Int /\ ~ IsRule(file[n]) /\ ~ Stated(file[n]) /\ d \in Int
      /\ \A m \in B : IsDelay(file[m]) => file[m].value \in Int
  BY LineTypes DEF Group, Stated
<1>1. h = IF d > 0 THEN [rules |-> g.rules, delay |-> IF d > g.delay THEN d ELSE g.delay, saw |-> TRUE] ELSE g
  BY <1>0 DEF Changed, WithDelay
<1>2. h.rules = g.rules /\ h.delay = (IF d > g.delay THEN d ELSE g.delay) /\ h.saw = (IF d > 0 THEN TRUE ELSE g.saw)
  BY <1>0, <1>1 DEF Holds
<1> HIDE DEF h
<1>3. /\ \A i \in 1..Len(h.rules) : \E m \in C : Stated(file[m]) /\ h.rules[i] = RuleOf(file[m])
      /\ \A m \in C : Stated(file[m]) => \E i \in 1..Len(h.rules) : h.rules[i] = RuleOf(file[m])
  BY <1>0, <1>2 DEF Holds
<1>4. /\ h.delay >= 0
      /\ \A m \in C : IsDelay(file[m]) => file[m].value <= h.delay
      /\ h.delay = 0 \/ \E m \in C : IsDelay(file[m]) /\ file[m].value = h.delay
  <2>1. CASE d > g.delay
    BY <1>0, <1>2, <2>1 DEF Holds
  <2>2. CASE ~ d > g.delay
    BY <1>0, <1>2, <2>2 DEF Holds
  <2> QED BY <2>1, <2>2
<1>5. h.saw <=> \E m \in C : IsRule(file[m]) \/ (IsDelay(file[m]) /\ file[m].value > 0)
  BY <1>0, <1>2 DEF Holds
<1> QED BY <1>3, <1>4, <1>5 DEF Holds, h

LEMMA DescribedAtStart ==
    ASSUME NEW file
    PROVE  Described(file, 0, AtStart)
<1>1. NamesTo(file, 0) = {} /\ HeaderTo(file, 0) = {}
  BY DEF NamesTo, HeaderTo
<1> QED BY <1>1 DEF Described, AtStart

\* A name that no line has mentioned binds no line.
LEMMA UnnamedUnbound ==
    ASSUME NEW file \in Seq(Directive), NEW n \in 1..Len(file), NEW a, a \notin NamesTo(file, n - 1)
    PROVE  BoundTo(file, n - 1, a) = {} /\ a \notin HeaderTo(file, n - 1)
<1>1. ASSUME NEW k \in DOMAIN file, NEW m \in Nat, m <= n, Heads(file, k, m), file[k].value = a, a # NoAgent
      PROVE  FALSE
  <2>1. k \in 1..(n-1)
    BY <1>1 DEF Heads
  <2>2. IsAgent(file[k])
    BY <1>1 DEF Heads, IsAgent
  <2> QED BY <1>1, <2>1, <2>2 DEF NamesTo
<1>2. n \in Nat /\ n - 1 + 1 = n /\ 1..(n-1) \subseteq DOMAIN file /\ \A m \in Nat : m <= n - 1 => m <= n
  OBVIOUS
<1>3. BoundTo(file, n - 1, a) = {}
  <2> SUFFICES ASSUME NEW m \in BoundTo(file, n - 1, a) PROVE FALSE
    OBVIOUS
  <2>1. m \in Nat /\ m <= n
    BY <1>2 DEF BoundTo, Binding
  <2> QED BY <1>1, <2>1 DEF BoundTo, Binding
<1>4. a \notin HeaderTo(file, n - 1)
  BY <1>1, <1>2 DEF HeaderTo
<1> QED BY <1>3, <1>4

LEMMA DescribedStep ==
    ASSUME NEW file \in Seq(Directive), NEW n \in 1..Len(file), NEW s \in State,
           Described(file, n - 1, s)
    PROVE  Described(file, n, ReadLine(s, file[n]))
<1> DEFINE line == file[n]
           t == ReadLine(s, line)
<1>0. line \in Directive /\ n \in Nat /\ n >= 1 /\ n # 0 /\ \A a : \A m \in BoundTo(file, n - 1, a) : file[m] \in Directive
  BY DEF BoundTo, Binding
<1>1. s.groups \in GroupMap /\ DOMAIN s.groups = NamesTo(file, n - 1) /\ s.current = HeaderTo(file, n - 1)
      /\ (s.fresh <=> n = 1 \/ IsAgent(file[n - 1]))
      /\ \A a \in NamesTo(file, n - 1) : Holds(file, BoundTo(file, n - 1, a), s.groups[a])
  BY DEF State, Described
<1>2. \A a \in DOMAIN s.groups : s.groups[a] \in Group
  BY <1>1, Mapped
<1>3. CASE IsAgent(line)
  <2>0. ~ IsRule(line) /\ ~ IsDelay(line)
    BY <1>0, <1>3, LineTypes
  <2>1. t = ReadAgent(s, line.value)
    BY <1>3 DEF ReadLine, IsAgent
  <2>2. /\ t.fresh = TRUE
        /\ t.current = Header(s) \cup ({line.value} \ {NoAgent})
        /\ DOMAIN t.groups = NamesTo(file, n - 1) \cup ({line.value} \ {NoAgent})
        /\ \A a \in DOMAIN t.groups : t.groups[a] = IF a \in DOMAIN s.groups THEN s.groups[a] ELSE EmptyGroup
    BY <1>1, <2>1 DEF ReadAgent
  <2>3. DOMAIN t.groups = NamesTo(file, n)
    BY <1>3, <2>2, NamesStep
  <2>4. t.current = HeaderTo(file, n)
    BY <1>1, <1>3, <2>2, HeaderStep DEF Header
  <2>5. ASSUME NEW a \in NamesTo(file, n) PROVE Holds(file, BoundTo(file, n, a), t.groups[a])
    <3>1. BoundTo(file, n, a) = BoundTo(file, n - 1, a)
      BY <2>0, BoundStep
    <3>2. CASE a \in NamesTo(file, n - 1)
      BY <1>1, <2>2, <2>3, <3>1, <3>2
    <3>3. CASE a \notin NamesTo(file, n - 1)
      <4>1. t.groups[a] = EmptyGroup
        BY <1>1, <2>2, <2>3, <3>3
      <4>2. BoundTo(file, n, a) = {}
        BY <3>1, <3>3, UnnamedUnbound
      <4> HIDE DEF t
      <4> QED BY <4>1, <4>2, HoldsNothing
    <3> QED BY <3>2, <3>3
  <2> HIDE DEF t
  <2> QED BY <1>3, <2>2, <2>3, <2>4, <2>5 DEF Described, t
<1>4. CASE ~ IsAgent(line)
  <2>1. /\ DOMAIN t.groups = DOMAIN s.groups /\ t.current = s.current /\ t.fresh = FALSE
        /\ \A a \in DOMAIN s.groups : t.groups[a] = IF a \in s.current THEN Changed(s.groups[a], line) ELSE s.groups[a]
    BY <1>0, <1>4, OtherLines
  <2>2. NamesTo(file, n) = NamesTo(file, n - 1) /\ HeaderTo(file, n) = HeaderTo(file, n - 1)
    BY <1>4, NamesStep, HeaderStep
  <2> HIDE DEF t
  <2>3. ASSUME NEW a \in NamesTo(file, n) PROVE Holds(file, BoundTo(file, n, a), t.groups[a])
    <3>0. a \in NamesTo(file, n - 1) /\ s.groups[a] \in Group /\ Holds(file, BoundTo(file, n - 1, a), s.groups[a])
      BY <1>1, <1>2, <2>2
    <3>1. CASE a \notin HeaderTo(file, n - 1)
      <4>1. BoundTo(file, n, a) = BoundTo(file, n - 1, a)
        BY <3>1, BoundStep
      <4> QED BY <1>1, <2>1, <3>0, <3>1, <4>1
    <3>2. CASE a \in HeaderTo(file, n - 1)
      <4>0. t.groups[a] = Changed(s.groups[a], line)
        BY <1>1, <2>1, <3>0, <3>2
      <4>1. CASE IsRule(line)
        <5>1. BoundTo(file, n, a) = BoundTo(file, n - 1, a) \cup {n}
          BY <3>2, <4>1, BoundStep
        <5> QED BY <1>0, <3>0, <4>0, <4>1, <5>1, HoldsRule
      <4>2. CASE IsDelay(line)
        <5>1. BoundTo(file, n, a) = BoundTo(file, n - 1, a) \cup {n}
          BY <3>2, <4>2, BoundStep
        <5> QED BY <1>0, <3>0, <4>0, <4>2, <5>1, HoldsDelay
      <4>3. CASE ~ IsRule(line) /\ ~ IsDelay(line)
        <5>1. BoundTo(file, n, a) = BoundTo(file, n - 1, a)
          BY <4>3, BoundStep
        <5> QED BY <3>0, <4>0, <4>3, <5>1 DEF Changed
      <4> QED BY <4>1, <4>2, <4>3
    <3> QED BY <3>1, <3>2
  <2> QED BY <1>1, <1>4, <2>1, <2>2, <2>3 DEF Described, t
<1> QED BY <1>3, <1>4

\* The fold over the lines yields what the file says.
LEMMA FileDescribed ==
    ASSUME NEW file \in Seq(Directive)
    PROVE  LET s == Readings(file)[Len(file)] IN s \in State /\ Described(file, Len(file), s)
<1> DEFINE r == Readings(file)
           N == Len(file)
           T == {n \in 0..N : Described(file, n, r[n])}
<1>0. N \in Nat
  OBVIOUS
<1>1. r \in [0..N -> State] /\ r[0] = AtStart /\ \A n \in 1..N : r[n] = ReadLine(r[n - 1], file[n])
  BY ReadingsAre
<1>2. 0 \in T
  BY <1>0, <1>1, DescribedAtStart
<1>3. ASSUME NEW n \in 1..N, n - 1 \in T PROVE n \in T
  <2>1. r[n - 1] \in State /\ Described(file, n - 1, r[n - 1]) /\ n \in 0..N
    BY <1>1, <1>3
  <2>2. r[n] = ReadLine(r[n - 1], file[n])
    BY <1>1
  <2> HIDE DEF r
  <2> QED BY <2>1, <2>2, DescribedStep
<1>4. 0..N \subseteq T
  <2> HIDE DEF T, N
  <2> QED BY <1>0, <1>2, <1>3, Inductively
<1>5. N \in 0..N
  BY <1>0
<1> HIDE DEF r
<1> QED BY <1>1, <1>4, <1>5 DEF r

-----------------------------------------------------------------------------
(* The agent that is obeyed *)

LEMMA GroupsOf ==
    ASSUME NEW file \in Seq(Directive)
    PROVE  /\ DOMAIN Groups(file) = NamesTo(file, Len(file))
           /\ \A a \in NamesTo(file, Len(file)) : Groups(file)[a] \in Group /\ Holds(file, Binding(file, a), Groups(file)[a])
<1> DEFINE s == Readings(file)[Len(file)]
<1>1. s \in State /\ Described(file, Len(file), s)
  BY FileDescribed
<1>2. Groups(file) = s.groups /\ s.groups \in GroupMap
  BY <1>1 DEF Groups, State
<1> HIDE DEF s
<1>3. DOMAIN s.groups = NamesTo(file, Len(file)) /\ \A a \in NamesTo(file, Len(file)) : s.groups[a] \in Group
  BY <1>1, <1>2, Mapped DEF Described
<1>4. ASSUME NEW a PROVE BoundTo(file, Len(file), a) = Binding(file, a)
  BY DEF BoundTo, Binding
<1> QED BY <1>1, <1>2, <1>3, <1>4 DEF Described

LEMMA Scores ==
    ASSUME NEW a
    PROVE  AgentScore(a) \in Int
  BY AgentAssumption DEF AgentScore

Mentions(file, a) == {n \in DOMAIN file : IsAgent(file[n]) /\ file[n].value = a}

LEMMA Mentioned ==
    ASSUME NEW file \in Seq(Directive), NEW a \in NamesTo(file, Len(file))
    PROVE  /\ FirstMention(file, a) \in Mentions(file, a) /\ FirstMention(file, a) \in Nat
           /\ \A n \in Mentions(file, a) : FirstMention(file, a) <= n
<1>1. Mentions(file, a) \in SUBSET Nat /\ Mentions(file, a) # {}
  BY DEF Mentions, NamesTo
<1>2. FirstMention(file, a) = Min(Mentions(file, a))
  BY DEF FirstMention, Mentions, IsAgent
<1> QED BY <1>1, <1>2, LeastOf

Ours(file) == {a \in NamesTo(file, Len(file)) : AgentScore(a) >= 0}
Before(file, a, b) ==
    \/ AgentScore(a) > AgentScore(b)
    \/ AgentScore(a) = AgentScore(b) /\ FirstMention(file, a) < FirstMention(file, b)

LEMMA FirstOfOurs ==
    ASSUME NEW file \in Seq(Directive), Ours(file) # {}
    PROVE  \E a \in Ours(file) : \A b \in Ours(file) \ {a} : Before(file, a, b)
<1> DEFINE N == Len(file)
           T == {k \in 1..N : IsAgent(file[k]) /\ file[k].value \in Ours(file)}
           f == [k \in 1..N |-> AgentScore(file[k].value)]
<1>0. N \in Nat /\ DOMAIN file = 1..N
  OBVIOUS
<1>1. \A a \in Ours(file) : \E k \in T : file[k].value = a
  BY DEF Ours, NamesTo
<1>2. T \in SUBSET (1..N) /\ T # {} /\ \A k \in T : f[k] \in Int
  BY <1>1, Scores
<1>3. PICK g \in T : \A m \in T : f[m] <= f[g]
  <2> HIDE DEF T, f, N
  <2> QED BY <1>0, <1>2, GreatestAt
<1>4. \A k \in T : f[k] = AgentScore(file[k].value) /\ f[k] \in Int
  BY Scores
<1> DEFINE S == {k \in T : f[k] = f[g]}
<1>5. S \in SUBSET Nat /\ g \in S
  BY <1>3
<1>6. PICK n \in S : \A m \in S : n <= m
  <2> HIDE DEF S
  <2> QED BY <1>5, LeastOf
<1> DEFINE a == file[n].value
<1>7. a \in Ours(file) /\ n \in T /\ AgentScore(a) = f[g]
  BY <1>4, <1>6
<1>8. ASSUME NEW b \in Ours(file) \ {a} PROVE Before(file, a, b)
  <2>1. FirstMention(file, b) \in Mentions(file, b) /\ FirstMention(file, b) \in Nat
    BY Mentioned DEF Ours
  <2>2. FirstMention(file, b) \in T /\ file[FirstMention(file, b)].value = b
    BY <2>1 DEF Mentions
  <2>3. AgentScore(b) <= AgentScore(a) /\ AgentScore(b) \in Int /\ AgentScore(a) \in Int
    BY <1>3, <1>4, <1>7, <2>2
  <2>4. FirstMention(file, a) \in Nat /\ n \in Nat /\ FirstMention(file, a) <= n
    <3>1. n \in Mentions(file, a)
      BY <1>0, <1>7 DEF Mentions
    <3> QED BY <1>7, <3>1, Mentioned DEF Ours
  <2>5. AgentScore(b) = AgentScore(a) => FirstMention(file, b) \in S
    BY <1>4, <1>7, <2>2
  <2>6. AgentScore(b) = AgentScore(a) => n <= FirstMention(file, b) /\ n # FirstMention(file, b)
    BY <1>6, <2>2, <2>5
  <2> HIDE DEF a
  <2> QED BY <2>1, <2>3, <2>4, <2>6 DEF Before
<1> QED BY <1>7, <1>8

\* The choice between the groups is that of the longest name that ours contains.
LEMMA ObeyedIsOurs ==
    ASSUME NEW file \in Seq(Directive)
    PROVE  /\ ObeyedAgent(file) = OurAgent(file)
           /\ OurAgent(file) = NoAgent \/ OurAgent(file) \in NamesTo(file, Len(file))
<1>1. DOMAIN Groups(file) = NamesTo(file, Len(file))
  BY GroupsOf
<1>2. {file[n].value : n \in {k \in DOMAIN file : file[k].name = "user-agent"}} \ {NoAgent} = NamesTo(file, Len(file))
  BY DEF NamesTo, IsAgent
<1>3. OurAgent(file) = IF Ours(file) = {} THEN NoAgent
        ELSE CHOOSE a \in Ours(file) : \A b \in Ours(file) \ {a} : Before(file, a, b)
  <2> DEFINE Pick(D) ==
        IF {a \in D : AgentScore(a) >= 0} = {} THEN NoAgent
        ELSE CHOOSE a \in {a \in D : AgentScore(a) >= 0} : \A b \in {a1 \in D : AgentScore(a1) >= 0} \ {a} : Before(file, a, b)
  <2>1. OurAgent(file) = Pick({file[n].value : n \in {k \in DOMAIN file : file[k].name = "user-agent"}} \ {NoAgent})
    BY DEF OurAgent, Before
  <2>2. Pick(NamesTo(file, Len(file))) = IF Ours(file) = {} THEN NoAgent
          ELSE CHOOSE a \in Ours(file) : \A b \in Ours(file) \ {a} : Before(file, a, b)
    BY DEF Ours
  <2> HIDE DEF Pick
  <2> QED BY <1>2, <2>1, <2>2
<1> DEFINE best == {a \in Ours(file) : \A b \in Ours(file) : AgentScore(a) >= AgentScore(b)}
<1>4. ObeyedAgent(file) = IF Ours(file) = {} THEN NoAgent
        ELSE CHOOSE a \in best : \A b \in best : FirstMention(file, a) <= FirstMention(file, b)
  BY <1>1 DEF ObeyedAgent, Ours
<1>5. CASE Ours(file) = {}
  BY <1>3, <1>4, <1>5
<1>6. CASE Ours(file) # {}
  <2>1. PICK a \in Ours(file) : \A b \in Ours(file) \ {a} : Before(file, a, b)
    BY <1>6, FirstOfOurs
  <2>2. \A b \in Ours(file) : AgentScore(b) \in Int /\ FirstMention(file, b) \in Nat
    BY Scores, Mentioned DEF Ours
  <2>3. ASSUME NEW c \in Ours(file), \A b \in Ours(file) \ {c} : Before(file, c, b) PROVE c = a
    BY <2>1, <2>2, <2>3 DEF Before
  <2>4. OurAgent(file) = a
    <3> DEFINE W(c) == \A b \in Ours(file) \ {c} : Before(file, c, b)
    <3>1. W(a) /\ \A c \in Ours(file) : W(c) => c = a
      BY <2>1, <2>3
    <3>2. OurAgent(file) = CHOOSE c \in Ours(file) : W(c)
      BY <1>3, <1>6
    <3> HIDE DEF W
    <3> QED BY <3>1, <3>2
  <2>5. a \in best
    BY <2>1, <2>2 DEF Before
  <2>6. \A b \in best : b = a \/ FirstMention(file, a) < FirstMention(file, b)
    BY <2>1, <2>2 DEF Before
  <2>7. ObeyedAgent(file) = a
    <3> DEFINE W(c) == \A b \in best : FirstMention(file, c) <= FirstMention(file, b)
    <3>0. best \subseteq Ours(file)
      OBVIOUS
    <3>1. W(a)
      <4> HIDE DEF best
      <4> QED BY <2>2, <2>6, <3>0
    <3>2. ASSUME NEW c \in best, W(c) PROVE c = a
      <4> HIDE DEF best
      <4> QED BY <2>2, <2>5, <2>6, <3>0, <3>2
    <3>3. ObeyedAgent(file) = CHOOSE c \in best : W(c)
      BY <1>4, <1>6
    <3> HIDE DEF W, best
    <3> QED BY <2>5, <3>1, <3>2, <3>3
  <2> QED BY <2>4, <2>7 DEF Ours
<1> QED BY <1>5, <1>6

-----------------------------------------------------------------------------
(* The rule that decides *)

LEMMA Specific ==
    ASSUME NEW r \in Rule
    PROVE  Specificity(r) \in Nat
<1>1. r.pattern \in Seq(STRING)
  BY DEF Rule
<1>2. ASSUME NEW p \in Seq(STRING), p # <<>> PROVE Len(SubSeq(p, 1, Len(p) - 1)) \in Nat
  <2>1. Len(p) \in Nat
    OBVIOUS
  <2>2. SubSeq(p, 1, Len(p) - 1) \in Seq(STRING)
    BY <2>1
  <2> QED BY <2>2
<1> QED BY <1>1, <1>2 DEF Specificity, Body, Anchored, Front, Nothing

\* What a rule after the best so far makes of it.
Better(rule, best, path) ==
    IF Covers(rule.pattern, path) /\ (best = NoRule \/ Outranks(rule, best)) THEN rule ELSE best

LEMMA DecidingIsBest ==
    ASSUME NEW rules \in Seq(Rule), NEW path
    PROVE  \E f \in [0..Len(rules) -> Rule] :
             /\ f[0] = NoRule /\ Deciding(rules, path) = f[Len(rules)]
             /\ \A n \in 1..Len(rules) : f[n] = Better(rules[n], f[n - 1], path)
<1> DEFINE N == Len(rules)
           Best(f) == f = [n \in 0..N |-> IF n = 0 THEN NoRule
                             ELSE IF /\ Covers(rules[n].pattern, path)
                                     /\ f[n - 1] = NoRule \/ Outranks(rules[n], f[n - 1])
                             THEN rules[n] ELSE f[n - 1]]
           step == [x \in (1..N) \X Rule |-> Better(rules[x[1]], x[2], path)]
<1>1. N \in Nat /\ (\A n \in 1..N : rules[n] \in Rule)
  OBVIOUS
<1>2. NoRule \in Rule
  BY DEF NoRule, Rule, Nothing
<1>3. step \in Steps(N, Rule) /\ \A n \in 1..N, s \in Rule : step[<<n, s>>] = Better(rules[n], s, path)
  BY <1>1 DEF Steps, Better
<1>4. PICK f : Follows(f, Rule, NoRule, N, step)
  <2>1. N \in Nat /\ step \in Steps(N, Rule)
    BY <1>1, <1>3
  <2> HIDE DEF step, N
  <2> QED BY <1>2, <2>1, Recursively
<1>5. f \in [0..N -> Rule] /\ f[0] = NoRule /\ \A n \in 1..N : f[n] = step[<<n, f[n - 1]>>]
  <2> HIDE DEF step, N
  <2> QED BY <1>4 DEF Follows
<1> HIDE DEF step
<1>6. ASSUME NEW n \in 1..N PROVE n - 1 \in 0..N /\ n # 0 /\ f[n] = Better(rules[n], f[n - 1], path)
  <2>1. n - 1 \in 0..N /\ n # 0
    BY <1>1
  <2> QED BY <1>3, <1>5, <2>1
<1>7. Best(f)
  <2> DEFINE g == [n \in 0..N |-> IF n = 0 THEN NoRule
                     ELSE IF /\ Covers(rules[n].pattern, path)
                             /\ f[n - 1] = NoRule \/ Outranks(rules[n], f[n - 1])
                     THEN rules[n] ELSE f[n - 1]]
  <2>0. \A n \in 0..N : n # 0 => n \in 1..N
    BY <1>1
  <2>1. ASSUME NEW n \in 0..N PROVE f[n] = g[n]
    <3>1. CASE n = 0
      BY <1>5, <3>1
    <3>2. CASE n # 0
      <4>1. f[n] = Better(rules[n], f[n - 1], path)
        BY <1>6, <2>0, <3>2
      <4> QED BY <3>2, <4>1 DEF Better
    <3> QED BY <3>1, <3>2
  <2>2. f = [n \in 0..N |-> f[n]] /\ DOMAIN g = 0..N /\ g = [n \in 0..N |-> g[n]]
    BY <1>5
  <2>3. f = g
    <3> HIDE DEF g
    <3> QED BY <2>1, <2>2
  <2> QED BY <2>3
<1> DEFINE h == CHOOSE h : Best(h)
<1>8. Deciding(rules, path) = h[N]
  BY DEF Deciding
<1>9. Best(h)
  <2> HIDE DEF Best
  <2> QED BY <1>7
<1>10. \A n \in 0..N : h[n] = IF n = 0 THEN NoRule
                     ELSE IF /\ Covers(rules[n].pattern, path)
                             /\ h[n - 1] = NoRule \/ Outranks(rules[n], h[n - 1])
                     THEN rules[n] ELSE h[n - 1]
  <2> HIDE DEF h
  <2> QED BY <1>9
<1> HIDE DEF h
<1>11. h[0] = NoRule /\ \A n \in 1..N : h[n] = Better(rules[n], h[n - 1], path)
  <2>1. 0 \in 0..N /\ \A n \in 1..N : n \in 0..N /\ n # 0
    BY <1>1
  <2> QED BY <1>10, <2>1 DEF Better
<1> DEFINE T == {n \in 0..N : h[n] = f[n]}
<1>12. 0..N \subseteq T
  <2>1. 0 \in T
    BY <1>1, <1>5, <1>11
  <2>2. ASSUME NEW n \in 1..N, n - 1 \in T PROVE n \in T
    <3>1. n \in 0..N
      OBVIOUS
    <3> QED BY <1>6, <1>11, <2>2, <3>1
  <2> HIDE DEF T, N
  <2> QED BY <1>1, <2>1, <2>2, Inductively
<1>13. N \in 0..N
  BY <1>1
<1> QED BY <1>5, <1>6, <1>8, <1>12, <1>13

\* d is the best of the first n rules: it covers the path and none of them
\* outranks it, or none covers the path.
IsBest(rules, path, n, d) ==
    /\ d = NoRule \/ \E i \in 1..n : d = rules[i] /\ Covers(rules[i].pattern, path)
    /\ \A i \in 1..n : Covers(rules[i].pattern, path) =>
          /\ d # NoRule /\ Specificity(d) >= Specificity(rules[i])
          /\ Specificity(d) = Specificity(rules[i]) /\ rules[i].allow => d.allow

LEMMA DecidingRight ==
    ASSUME NEW rules \in Seq(Rule), NEW path, \A i \in 1..Len(rules) : rules[i] # NoRule
    PROVE  Deciding(rules, path) \in Rule /\ IsBest(rules, path, Len(rules), Deciding(rules, path))
<1> DEFINE N == Len(rules)
<1>1. PICK f \in [0..N -> Rule] :
             /\ f[0] = NoRule /\ Deciding(rules, path) = f[N]
             /\ \A n \in 1..N : f[n] = Better(rules[n], f[n - 1], path)
  BY DecidingIsBest
<1> DEFINE T == {n \in 0..N : IsBest(rules, path, n, f[n])}
<1>2. N \in Nat
  OBVIOUS
<1>3. 0 \in T
  BY <1>1, <1>2 DEF IsBest
<1>4. ASSUME NEW n \in 1..N, n - 1 \in T PROVE n \in T
  <2> DEFINE e == f[n - 1]
             r == rules[n]
  <2>1. n \in 0..N /\ n - 1 \in 0..N /\ (\A i \in 1..n : i = n \/ i \in 1..(n-1)) /\ 1..(n-1) \subseteq 1..n /\ n \in 1..n
    BY <1>2
  <2>2. e \in Rule /\ r \in Rule /\ r # NoRule /\ IsBest(rules, path, n - 1, e) /\ f[n] = Better(r, e, path)
    BY <1>1, <1>4, <2>1
  <2>3. /\ Specificity(e) \in Nat /\ Specificity(r) \in Nat /\ e.allow \in BOOLEAN /\ r.allow \in BOOLEAN
        /\ \A i \in 1..n : Specificity(rules[i]) \in Nat /\ rules[i].allow \in BOOLEAN
    <3>1. \A q \in Rule : Specificity(q) \in Nat /\ q.allow \in BOOLEAN
      BY Specific DEF Rule
    <3>2. \A i \in 1..n : rules[i] \in Rule
      BY <1>2
    <3> HIDE DEF e
    <3> QED BY <2>2, <3>1, <3>2
  <2> HIDE DEF e
  <2>4. IsBest(rules, path, n, Better(r, e, path))
    <3>1. CASE ~ Covers(r.pattern, path)
      BY <2>1, <2>2, <3>1 DEF IsBest, Better
    <3>2. CASE Covers(r.pattern, path) /\ e = NoRule
      <4>1. Better(r, e, path) = r
        BY <3>2 DEF Better
      <4>2. \A i \in 1..(n-1) : ~ Covers(rules[i].pattern, path)
        BY <2>2, <3>2 DEF IsBest
      <4> QED BY <2>1, <2>2, <2>3, <3>2, <4>1, <4>2 DEF IsBest
    <3>3. CASE Covers(r.pattern, path) /\ e # NoRule /\ Outranks(r, e)
      <4>1. Better(r, e, path) = r
        BY <3>3 DEF Better
      <4>2. Specificity(r) > Specificity(e) \/ (Specificity(r) = Specificity(e) /\ r.allow)
        BY <2>3, <3>3 DEF Outranks
      <4>3. ASSUME NEW i \in 1..n, Covers(rules[i].pattern, path)
            PROVE  /\ Specificity(r) >= Specificity(rules[i])
                   /\ Specificity(r) = Specificity(rules[i]) /\ rules[i].allow => r.allow
        <5>1. CASE i = n
          BY <2>3, <5>1
        <5>2. CASE i \in 1..(n-1)
          <6>1. /\ Specificity(e) >= Specificity(rules[i])
                /\ Specificity(rules[i]) \in Nat
            BY <2>2, <2>3, <4>3, <5>2 DEF IsBest
          <6> QED BY <2>3, <4>2, <6>1
        <5> QED BY <2>1, <5>1, <5>2
      <4> QED BY <2>1, <2>2, <3>3, <4>1, <4>3 DEF IsBest
    <3>4. CASE Covers(r.pattern, path) /\ e # NoRule /\ ~ Outranks(r, e)
      <4>1. Better(r, e, path) = e
        BY <3>4 DEF Better
      <4>2. Specificity(e) >= Specificity(r) /\ (Specificity(e) = Specificity(r) /\ r.allow => e.allow)
        BY <2>3, <3>4 DEF Outranks
      <4> QED BY <2>1, <2>2, <3>4, <4>1, <4>2 DEF IsBest
    <3> QED BY <3>1, <3>2, <3>3, <3>4
  <2> QED BY <2>1, <2>2, <2>4
<1>5. 0..N \subseteq T
  <2> HIDE DEF T, N
  <2> QED BY <1>2, <1>3, <1>4, Inductively
<1>6. N \in 0..N
  BY <1>2
<1> QED BY <1>1, <1>5, <1>6

-----------------------------------------------------------------------------
(* What the rules of the obeyed group say is what the file says *)

\* The rules that bind us, and the group that the parser took them to.
OurRules(file) == {file[n] : n \in {k \in Binding(file, OurAgent(file)) : Stated(file[k])}}

LEMMA ParsedRules ==
    ASSUME NEW file \in Seq(Directive)
    PROVE  LET p == ParseRobots(file) IN
           /\ p.rules \in Seq(Rule) /\ p.delay \in Int /\ p.delay >= 0
           /\ \A i \in 1..Len(p.rules) : \E r \in OurRules(file) : p.rules[i] = RuleOf(r)
           /\ \A r \in OurRules(file) : \E i \in 1..Len(p.rules) : p.rules[i] = RuleOf(r)
           /\ p.delay = AskedDelay(file)
           /\ ~ p.saw => p.rules = <<>> /\ p.delay = 0
<1> DEFINE p == ParseRobots(file)
           B == Binding(file, OurAgent(file))
           asked == {file[n].value : n \in {k \in B : file[k].name = "crawl-delay"}}
<1>1. ObeyedAgent(file) = OurAgent(file)
  BY ObeyedIsOurs
<1>2. AskedDelay(file) = Max({0} \cup asked)
  BY DEF AskedDelay, NoDelay
<1>3. CASE OurAgent(file) = NoAgent
  <2>1. B = {}
    BY <1>3 DEF Binding
  <2>2. p.rules = <<>> /\ p.delay = 0
    BY <1>1, <1>3 DEF ParseRobots, NoDelay
  <2>3. OurRules(file) = {} /\ asked = {}
    BY <2>1 DEF OurRules
  <2>4. Max({0} \cup asked) = 0
    <3>1. \A x : x \in {0} \cup asked <=> x = 0
      BY <2>3
    <3> HIDE DEF asked
    <3> QED BY <3>1 DEF Max
  <2> QED BY <1>2, <2>2, <2>3, <2>4
<1>4. CASE OurAgent(file) # NoAgent
  <2> DEFINE g == Groups(file)[OurAgent(file)]
  <2>1. g \in Group /\ Holds(file, B, g) /\ OurAgent(file) \in DOMAIN Groups(file)
    BY <1>4, ObeyedIsOurs, GroupsOf
  <2>2. p = [rules |-> g.rules, delay |-> g.delay, saw |-> \E a \in DOMAIN Groups(file) : Groups(file)[a].saw]
    BY <1>1, <1>4 DEF ParseRobots
  <2>3. p.rules = g.rules /\ p.delay = g.delay /\ (~ p.saw => ~ g.saw)
    BY <2>1, <2>2
  <2>4. g.rules \in Seq(Rule) /\ g.delay \in Int /\ g.delay >= 0
    BY <2>1 DEF Group, Holds
  <2>5. \A m \in B : file[m] \in Directive
    BY DEF Binding
  <2> HIDE DEF g, p
  <2>6. /\ \A i \in 1..Len(g.rules) : \E r \in OurRules(file) : g.rules[i] = RuleOf(r)
        /\ \A r \in OurRules(file) : \E i \in 1..Len(g.rules) : g.rules[i] = RuleOf(r)
    <3>1. \A m \in B : Stated(file[m]) => file[m] \in OurRules(file)
      BY DEF OurRules
    <3>2. ASSUME NEW r \in OurRules(file) PROVE \E m \in B : Stated(file[m]) /\ r = file[m]
      BY DEF OurRules
    <3> HIDE DEF B
    <3>3. ASSUME NEW i \in 1..Len(g.rules) PROVE \E r \in OurRules(file) : g.rules[i] = RuleOf(r)
      BY <2>1, <3>1 DEF Holds
    <3>4. ASSUME NEW r \in OurRules(file) PROVE \E i \in 1..Len(g.rules) : g.rules[i] = RuleOf(r)
      BY <2>1, <3>2 DEF Holds
    <3> QED BY <3>3, <3>4
  <2>7. g.delay = Max({0} \cup asked)
    <3>1. \A x \in asked : x \in Int /\ x <= g.delay
      BY <2>1, <2>5, LineTypes DEF Holds, IsDelay
    <3>2. g.delay \in {0} \cup asked
      BY <2>1 DEF Holds, IsDelay
    <3> HIDE DEF asked
    <3> QED BY <2>4, <3>1, <3>2 DEF Max
  <2>8. ASSUME ~ g.saw PROVE g.rules = <<>> /\ g.delay = 0
    <3>1. \A m \in B : ~ IsRule(file[m]) /\ ~ (IsDelay(file[m]) /\ file[m].value > 0)
      BY <2>1, <2>8 DEF Holds
    <3>2. ~ \E i \in 1..Len(g.rules) : TRUE
      BY <2>1, <3>1 DEF Holds, Stated
    <3>3. Len(g.rules) = 0
      BY <2>4, <3>2
    <3>4. g.delay = 0
      BY <2>1, <2>4, <3>1 DEF Holds
    <3> QED BY <2>4, <3>3, <3>4
  <2> QED BY <1>2, <2>3, <2>4, <2>6, <2>7, <2>8 DEF p
<1> QED BY <1>3, <1>4

Refuses(rule) == rule # NoRule /\ ~ rule.allow

LEMMA ForbiddenIs ==
    ASSUME NEW file \in Seq(Directive), NEW path
    PROVE  Forbidden(file, path) <=> Refuses(Deciding(ParseRobots(file).rules, path))
<1> DEFINE rules == ParseRobots(file).rules
           d == Deciding(rules, path)
           R == OurRules(file)
           matching == {r \in R : Covers(r.value, path)}
           longest == {r \in matching : \A q \in matching : Len(Body(r.value)) >= Len(Body(q.value))}
<1>1. /\ rules \in Seq(Rule)
      /\ \A i \in 1..Len(rules) : \E r \in R : rules[i] = RuleOf(r)
      /\ \A r \in R : \E i \in 1..Len(rules) : rules[i] = RuleOf(r)
  BY ParsedRules
<1>2. Forbidden(file, path) <=> longest # {} /\ \A r \in longest : r.name = "disallow"
  <2>1. \A k \in Binding(file, OurAgent(file)) :
          file[k].name # "crawl-delay" /\ file[k].value # Nothing <=> Stated(file[k])
    BY DEF Binding, Stated, IsRule
  <2>2. R = {file[n] : n \in {k \in Binding(file, OurAgent(file)) :
                     file[k].name # "crawl-delay" /\ file[k].value # Nothing}}
    BY <2>1 DEF OurRules
  <2> HIDE DEF R
  <2> QED BY <2>2 DEF Forbidden
<1>3. \A r \in R : /\ r.value # Nothing /\ r.name \in {"allow", "disallow"} /\ RuleOf(r) \in Rule /\ RuleOf(r) # NoRule
                   /\ Specificity(RuleOf(r)) = Len(Body(r.value)) /\ RuleOf(r).pattern = r.value
                   /\ (RuleOf(r).allow <=> r.name = "allow")
  <2> SUFFICES ASSUME NEW k \in Binding(file, OurAgent(file)), Stated(file[k]) PROVE
                   /\ file[k].value # Nothing /\ file[k].name \in {"allow", "disallow"}
                   /\ RuleOf(file[k]) \in Rule /\ RuleOf(file[k]) # NoRule
                   /\ Specificity(RuleOf(file[k])) = Len(Body(file[k].value)) /\ RuleOf(file[k]).pattern = file[k].value
                   /\ (RuleOf(file[k]).allow <=> file[k].name = "allow")
    BY DEF OurRules
  <2>1. file[k] \in Directive
    BY DEF Binding
  <2>2. file[k].value \in Seq(STRING)
    BY <2>1, LineTypes DEF Stated
  <2> QED BY <2>2 DEF Stated, IsRule, RuleOf, Rule, NoRule, Specificity
<1>4. \A i \in 1..Len(rules) : rules[i] \in Rule /\ rules[i] # NoRule
  BY <1>1, <1>3
<1>5. d \in Rule /\ IsBest(rules, path, Len(rules), d)
  BY <1>1, <1>4, DecidingRight
<1>6. \A r \in R : Len(Body(r.value)) \in Nat
  BY <1>3, Specific
<1>7. \A r \in matching : /\ d # NoRule /\ Specificity(d) >= Len(Body(r.value))
                          /\ Specificity(d) = Len(Body(r.value)) /\ r.name = "allow" => d.allow
  <2> SUFFICES ASSUME NEW r \in matching
               PROVE  /\ d # NoRule /\ Specificity(d) >= Len(Body(r.value))
                      /\ Specificity(d) = Len(Body(r.value)) /\ r.name = "allow" => d.allow
    OBVIOUS
  <2>1. PICK i \in 1..Len(rules) : rules[i] = RuleOf(r)
    BY <1>1
  <2> HIDE DEF d, rules
  <2> QED BY <1>3, <1>5, <2>1 DEF IsBest
<1> HIDE DEF d, rules, R
<1>8. CASE d = NoRule
  <2>1. longest = {}
    BY <1>7, <1>8
  <2> QED BY <1>2, <1>8, <2>1 DEF Refuses, d, rules
<1>9. CASE d # NoRule
  <2>1. PICK i \in 1..Len(rules) : d = rules[i] /\ Covers(rules[i].pattern, path)
    BY <1>5, <1>9 DEF IsBest
  <2>2. PICK s \in R : d = RuleOf(s)
    BY <1>1, <2>1
  <2>3. s \in matching /\ Specificity(d) = Len(Body(s.value)) /\ (d.allow <=> s.name = "allow")
    BY <1>3, <2>1, <2>2
  <2>4. s \in longest
    BY <1>7, <2>3
  <2>5. ASSUME ~ d.allow, NEW r \in longest PROVE r.name = "disallow"
    <3>1. r \in matching /\ Len(Body(r.value)) >= Len(Body(s.value))
      BY <2>3
    <3>2. Specificity(d) = Len(Body(r.value))
      BY <1>6, <1>7, <2>3, <3>1
    <3> QED BY <1>3, <1>7, <2>5, <3>1, <3>2
  <2>6. d.allow => ~ (s.name = "disallow")
    BY <2>3
  <2> QED BY <1>2, <1>9, <2>4, <2>5, <2>6 DEF Refuses, d, rules
<1> QED BY <1>8, <1>9

-----------------------------------------------------------------------------
(* What is made of an answer *)

LEMMA DecidingNothing ==
    ASSUME NEW path
    PROVE  Deciding(<<>>, path) = NoRule
<1>1. <<>> \in Seq(Rule) /\ Len(<<>>) = 0
  OBVIOUS
<1> QED BY <1>1, DecidingIsBest

\* The rules kept for a site say what its answer says.
Renders(kept, answer) ==
    /\ kept.rules.delay \in Nat
    /\ kept.rules.delay = IF Readable(answer) THEN AskedDelay(answer.file) ELSE NoDelay
    /\ kept.origin # "unreadable" => ~ Silent(answer)
    /\ \A path : IF kept.origin = "unreadable"
          THEN ~ (Readable(answer) /\ Forbidden(answer.file, path))
          ELSE Refuses(Deciding(kept.rules.rules, path)) <=>
                  Readable(answer) /\ Forbidden(answer.file, path)

LEMMA Apart ==
    ASSUME NEW status \in {429} \cup 500..599 \cup {0}
    PROVE  status \notin Successes /\ (status = 429 \/ status \notin 400..499)
<1>1. CASE status \in {429, 0}
  BY <1>1 DEF Successes
<1>2. CASE status \in 500..599
  BY <1>2 DEF Successes
<1> QED BY <1>1, <1>2

LEMMA InterpretRenders ==
    ASSUME NEW answer, answer.file \in Seq(Directive)
    PROVE  Renders(Interpret(answer), answer)
<1> DEFINE p == ParseRobots(answer.file)
<1>1. /\ p.delay \in Nat /\ p.delay = AskedDelay(answer.file)
      /\ ~ p.saw => p.rules = <<>> /\ p.delay = 0
  BY ParsedRules
<1>2. \A path : Forbidden(answer.file, path) <=> Refuses(Deciding(p.rules, path))
  BY ForbiddenIs
<1>3. \A path : ~ Refuses(Deciding(<<>>, path))
  BY DecidingNothing DEF Refuses
<1>4. Silent(answer) => answer.status \notin Successes /\ (answer.status = 429 \/ answer.status \notin 400..499)
  BY Apart DEF Silent
<1> HIDE DEF p
<1>5. CASE answer.status \notin Successes
  <2>1. Interpret(answer) = FromStatus(answer.status) /\ ~ Readable(answer)
    BY <1>5 DEF Interpret, Readable
  <2>2. CASE answer.status \in 400..499 /\ answer.status # 429
    <3>1. Interpret(answer).rules = AllowAll /\ Interpret(answer).origin = "absent"
      BY <2>1, <2>2 DEF FromStatus
    <3> QED BY <1>3, <1>4, <2>1, <2>2, <3>1 DEF Renders, AllowAll, NoDelay
  <2>3. CASE ~ (answer.status \in 400..499 /\ answer.status # 429)
    <3>1. Interpret(answer).rules = DenyAll /\ Interpret(answer).origin = "unreadable"
      BY <2>1, <2>3 DEF FromStatus
    <3> QED BY <2>1, <3>1 DEF Renders, DenyAll, NoDelay
  <2> QED BY <2>2, <2>3
<1>6. CASE answer.status \in Successes /\ ~ answer.plain
  <2>1. Interpret(answer).rules = AllowAll /\ Interpret(answer).origin = "absent" /\ ~ Readable(answer)
    BY <1>6 DEF Interpret, Readable
  <2> QED BY <1>3, <1>4, <1>6, <2>1 DEF Renders, AllowAll, NoDelay
<1>7. CASE answer.status \in Successes /\ answer.plain
  <2>0. Readable(answer) /\ ~ Silent(answer)
    BY <1>4, <1>7 DEF Readable
  <2>1. CASE p.saw \/ ~ answer.markup
    <3>1. Interpret(answer).rules = p /\ Interpret(answer).origin # "unreadable"
      BY <1>7, <2>1 DEF Interpret, p
    <3> QED BY <1>1, <1>2, <2>0, <3>1 DEF Renders
  <2>2. CASE ~ p.saw /\ answer.markup
    <3>1. Interpret(answer).rules = DenyAll /\ Interpret(answer).origin = "unreadable"
      BY <1>7, <2>2 DEF Interpret, p
    <3>2. p.rules = <<>> /\ p.delay = 0
      BY <1>1, <2>2
    <3>3. \A path : ~ Forbidden(answer.file, path)
      BY <1>2, <1>3, <3>2
    <3> QED BY <1>1, <2>0, <3>1, <3>2, <3>3 DEF Renders, DenyAll, NoDelay
  <2> QED BY <2>1, <2>2
<1> QED BY <1>5, <1>6, <1>7

-----------------------------------------------------------------------------
(* The run *)

ThreadsOK ==
    /\ pc \in [Threads -> {"idle", "waiting", "reading"}]
    /\ url \in [Threads -> Url]

SitesOK ==
    /\ DOMAIN site = Authorities /\ site = [a \in Authorities |-> site[a]]
    /\ \A a \in Authorities : site[a] \in Answers[a]

\* A file is only read by the thread that holds the lock, and never twice.
LockOK == \A t \in Threads :
    pc[t] = "reading" => lock = t /\ cache[url[t].authority] = NotRead

\* What is kept for an authority is the one answer of it that was read.
KeptOK ==
    /\ DOMAIN cache = Authorities /\ cache = [a \in Authorities |-> cache[a]]
    /\ DOMAIN got = Authorities /\ got = [a \in Authorities |-> got[a]]
    /\ \A a \in Authorities :
          IF cache[a] = NotRead THEN got[a] = <<>>
          ELSE \E r \in Answers[a] : got[a] = <<r>> /\ cache[a] = Interpret(r)

\* A run that goes on has read the file of its source.
LimitsOK == phase = "running" =>
    /\ cache[BaseAuthority] # NotRead
    /\ limits = PoliteLimits(cache[BaseAuthority].rules.delay)

\* The last decision is still that of the rules that are kept.
VerdictOK == verdict # NotRead =>
    LET d == Decision(cache[verdict.url.authority], verdict.url.path)
    IN  /\ verdict.url.authority \in Authorities
        /\ Respect => cache[verdict.url.authority] # NotRead
        /\ verdict.allowed = d.allowed /\ verdict.cited = d.cited

GInv == ThreadsOK /\ SitesOK /\ LockOK /\ KeptOK /\ LimitsOK /\ VerdictOK

LEMMA InitInv == Init => GInv
<1> SUFFICES ASSUME Init PROVE GInv
  OBVIOUS
<1>1. PICK p \in Paths : TRUE
  BY GateAssumption
<1>2. [authority |-> BaseAuthority, path |-> p] \in Url
  BY GateAssumption DEF Url
<1>3. (CHOOSE u \in Url : u.authority = BaseAuthority) \in Url
  BY <1>2
<1>4. ThreadsOK
  BY <1>3 DEF Init, ThreadsOK
<1>5. SitesOK
  BY DEF Init, SitesOK
<1>6. LockOK /\ KeptOK /\ LimitsOK /\ VerdictOK
  BY DEF Init, LockOK, KeptOK, LimitsOK, VerdictOK
<1> QED BY <1>4, <1>5, <1>6 DEF GInv

\* A decision by the rules that are kept is the last one.
LEMMA Concluded ==
    ASSUME NEW t \in Threads, NEW kept, url[t] \in Url, Conclude(t, kept),
           cache'[url[t].authority] = kept, Respect => kept # NotRead
    PROVE  VerdictOK'
<1>1. url[t].authority \in Authorities
  BY DEF Url
<1>2. verdict' = [url |-> url[t], allowed |-> Decision(kept, url[t].path).allowed, cited |-> Decision(kept, url[t].path).cited]
  BY DEF Conclude
<1> QED BY <1>1, <1>2 DEF VerdictOK

LEMMA StepInv == GInv /\ [Next]_vars => GInv'
<1> SUFFICES ASSUME GInv, [Next]_vars PROVE GInv'
  OBVIOUS
<1> USE DEF GInv
<1>1. ASSUME NEW t \in Threads, Seed(t) PROVE GInv'
  <2>1. UNCHANGED <<site, cache, lock, phase, limits, verdict, got>>
    BY <1>1 DEF Seed, run
  <2>2. ThreadsOK'
    <3>1. url[t] \in Url /\ [url[t] EXCEPT !.authority = BaseAuthority] \in Url
      BY GateAssumption DEF ThreadsOK, Url
    <3> QED BY <1>1, <3>1 DEF Seed, ThreadsOK
  <2>3. LockOK'
    <3>1. \A v \in Threads : pc'[v] # "reading"
      BY <1>1 DEF Seed, ThreadsOK
    <3> QED BY <3>1 DEF LockOK
  <2> QED BY <2>1, <2>2, <2>3 DEF SitesOK, KeptOK, LimitsOK, VerdictOK
<1>2. ASSUME NEW t \in Threads, Ask(t) PROVE GInv'
  <2>1. UNCHANGED <<site, cache, lock, phase, limits, verdict, got>>
    BY <1>2 DEF Ask, run
  <2>2. ThreadsOK'
    BY <1>2 DEF Ask, ThreadsOK
  <2>3. LockOK'
    BY <1>2, <2>1 DEF Ask, LockOK, ThreadsOK
  <2> QED BY <2>1, <2>2, <2>3 DEF SitesOK, KeptOK, LimitsOK, VerdictOK
<1>3. ASSUME NEW t \in Threads, TakeLock(t) PROVE GInv'
  <2>0. UNCHANGED <<site, cache, url, phase, limits, got>> /\ lock = NoThread /\ url[t] \in Url
    BY <1>3 DEF TakeLock, run, ThreadsOK
  <2>1. SitesOK' /\ KeptOK' /\ LimitsOK'
    BY <2>0 DEF SitesOK, KeptOK, LimitsOK
  <2>2. CASE cache[url[t].authority] = NotRead /\ (Respect \/ phase = "seeding")
    <3>1. lock' = t /\ pc' = [pc EXCEPT ![t] = "reading"] /\ verdict' = verdict
      BY <1>3, <2>2 DEF TakeLock
    <3>2. ThreadsOK'
      BY <2>0, <3>1 DEF ThreadsOK
    <3>3. \A v \in Threads : pc[v] # "reading"
      BY <2>0, GateAssumption DEF LockOK
    <3>4. LockOK'
      BY <2>0, <2>2, <3>1, <3>3 DEF LockOK, ThreadsOK
    <3>5. VerdictOK'
      BY <2>0, <3>1 DEF VerdictOK
    <3> QED BY <2>1, <3>2, <3>4, <3>5
  <2>3. CASE ~ (cache[url[t].authority] = NotRead /\ (Respect \/ phase = "seeding"))
    <3>1. pc' = [pc EXCEPT ![t] = "idle"] /\ Conclude(t, cache[url[t].authority]) /\ lock' = lock
      BY <1>3, <2>3 DEF TakeLock, Idle
    <3>2. ThreadsOK'
      BY <2>0, <3>1 DEF ThreadsOK
    <3>3. LockOK'
      BY <2>0, <3>1 DEF LockOK, ThreadsOK
    <3>4. VerdictOK'
      BY <2>0, <2>3, <3>1, Concluded
    <3> QED BY <2>1, <3>2, <3>3, <3>4
  <2> QED BY <2>2, <2>3
<1>4. ASSUME NEW t \in Threads, ReadRobots(t) PROVE GInv'
  <2> DEFINE a == url[t].authority
             kept == Interpret(site[a])
  <2>0. /\ pc[t] = "reading" /\ url[t] \in Url /\ a \in Authorities /\ site[a] \in Answers[a]
        /\ lock = t /\ cache[a] = NotRead
        /\ cache' = [cache EXCEPT ![a] = kept] /\ got' = [got EXCEPT ![a] = Append(@, site[a])]
        /\ lock' = NoThread /\ pc' = [pc EXCEPT ![t] = "idle"] /\ UNCHANGED <<site, url>>
    BY <1>4 DEF ReadRobots, Idle, ThreadsOK, Url, SitesOK, LockOK
  <2>1. kept # NotRead
    BY <2>0, GateAssumption
  <2>2. IF phase = "seeding" THEN SettleDelay(a, kept) /\ verdict' = verdict
        ELSE Conclude(t, kept) /\ phase' = phase /\ limits' = limits
    BY <1>4 DEF ReadRobots, run
  <2> HIDE DEF kept
  <2>3. ThreadsOK' /\ SitesOK'
    BY <2>0 DEF ThreadsOK, SitesOK
  <2>4. \A v \in Threads : pc'[v] # "reading"
    BY <2>0, GateAssumption DEF LockOK, ThreadsOK
  <2>5. LockOK'
    BY <2>4 DEF LockOK
  <2>6. /\ DOMAIN cache' = Authorities /\ DOMAIN got' = Authorities /\ cache'[a] = kept
        /\ \A b \in Authorities \ {a} : cache'[b] = cache[b] /\ got'[b] = got[b]
        /\ got'[a] = <<site[a]>>
    <3>1. \A x : Append(<<>>, x) = <<x>>
      OBVIOUS
    <3>2. got[a] = <<>> /\ DOMAIN got = Authorities /\ DOMAIN cache = Authorities
      BY <2>0 DEF KeptOK
    <3>3. got'[a] = Append(got[a], site[a])
      BY <2>0, <3>2
    <3>4. got'[a] = <<site[a]>>
      BY <3>1, <3>2, <3>3
    <3> QED BY <2>0, <3>2, <3>4
  <2>7. KeptOK'
    <3>1. cache' = [b \in Authorities |-> cache'[b]] /\ got' = [b \in Authorities |-> got'[b]]
      BY <2>0 DEF KeptOK
    <3>2. ASSUME NEW b \in Authorities
          PROVE  IF cache'[b] = NotRead THEN got'[b] = <<>>
                 ELSE \E r \in Answers[b] : got'[b] = <<r>> /\ cache'[b] = Interpret(r)
      <4>1. CASE b = a
        BY <2>0, <2>1, <2>6, <4>1 DEF kept
      <4>2. CASE b # a
        BY <2>6, <4>2 DEF KeptOK
      <4> QED BY <4>1, <4>2
    <3> QED BY <2>6, <3>1, <3>2 DEF KeptOK
  <2>8. LimitsOK'
    <3>1. CASE phase = "seeding"
      BY <2>1, <2>2, <2>6, <3>1 DEF LimitsOK, SettleDelay
    <3>2. CASE phase # "seeding"
      BY <2>0, <2>2, <2>6, <3>2, GateAssumption DEF LimitsOK
    <3> QED BY <3>1, <3>2
  <2>9. VerdictOK'
    <3>1. CASE phase = "seeding"
      <4>1. verdict' = verdict
        BY <2>2, <3>1
      <4>2. CASE verdict # NotRead /\ verdict.url.authority = a
        <5>1. ~ Respect
          BY <2>0, <4>2 DEF VerdictOK
        <5> QED BY <4>1, <4>2, <5>1, <2>0 DEF VerdictOK, Decision
      <4>3. CASE ~ (verdict # NotRead /\ verdict.url.authority = a)
        BY <2>6, <4>1, <4>3 DEF VerdictOK
      <4> QED BY <4>2, <4>3
    <3>2. CASE phase # "seeding"
      BY <2>0, <2>1, <2>2, <2>6, <3>2, Concluded
    <3> QED BY <3>1, <3>2
  <2> QED BY <2>3, <2>5, <2>7, <2>8, <2>9
<1>5. ASSUME SiteChanges PROVE GInv'
  <2>1. UNCHANGED <<cache, lock, pc, url, phase, limits, verdict, got>>
    BY <1>5 DEF SiteChanges, run
  <2>2. SitesOK'
    <3>1. PICK a \in Authorities : \E r \in Answers[a] : site' = [site EXCEPT ![a] = r]
      BY <1>5 DEF SiteChanges
    <3> QED BY <3>1 DEF SitesOK
  <2> QED BY <2>1, <2>2 DEF ThreadsOK, LockOK, KeptOK, LimitsOK, VerdictOK
<1>6. ASSUME UNCHANGED vars PROVE GInv'
  BY <1>6 DEF vars, run, ThreadsOK, SitesOK, LockOK, KeptOK, LimitsOK, VerdictOK
<1> QED BY <1>1, <1>2, <1>3, <1>4, <1>5, <1>6 DEF Next

LEMMA Invariant == Spec => []GInv
  BY InitInv, StepInv, PTL DEF Spec

-----------------------------------------------------------------------------
(* The theorems *)

LEMMA Kept ==
    ASSUME KeptOK, NEW a \in Authorities, cache[a] # NotRead
    PROVE  Renders(cache[a], Basis(a))
<1>1. PICK r \in Answers[a] : got[a] = <<r>> /\ cache[a] = Interpret(r)
  BY DEF KeptOK
<1>2. Basis(a) = r /\ r.file \in Seq(Directive)
  BY <1>1, GateAssumption DEF Basis
<1> QED BY <1>1, <1>2, InterpretRenders

\* No URL is requested that the file which was read forbids, whatever the file
\* and the answer, and however the threads and the site's changes interleave.
THEOREM Obeys == Spec => []ObeysWhatItRead
<1>1. GInv => ObeysWhatItRead
  <2> SUFFICES ASSUME GInv, Respect, verdict # NotRead, verdict.allowed
               PROVE  LET answer == Basis(verdict.url.authority)
                      IN  /\ ~ Silent(answer)
                          /\ Readable(answer) => ~ Forbidden(answer.file, verdict.url.path)
    BY DEF ObeysWhatItRead
  <2> DEFINE a == verdict.url.authority
             kept == cache[a]
             rule == Deciding(kept.rules.rules, verdict.url.path)
  <2>1. a \in Authorities /\ kept # NotRead /\ Renders(kept, Basis(a)) /\ Decision(kept, verdict.url.path).allowed
    BY Kept DEF GInv, VerdictOK
  <2>2. kept.origin # "unreadable" /\ rule.allow
    BY <2>1 DEF Decision
  <2>3. ~ Refuses(rule)
    BY <2>2 DEF Refuses
  <2> HIDE DEF rule
  <2> QED BY <2>1, <2>2, <2>3 DEF Renders, rule
<1> QED BY <1>1, Invariant, PTL

\* A refusal cites the site exactly when its file forbids the path.
THEOREM RefusesByTheSite == Spec => []RefusalsAreTheSites
<1>1. GInv => RefusalsAreTheSites
  <2> SUFFICES ASSUME GInv, verdict # NotRead, ~ verdict.allowed
               PROVE  LET answer == Basis(verdict.url.authority)
                      IN  verdict.cited <=> Readable(answer) /\ Forbidden(answer.file, verdict.url.path)
    BY DEF RefusalsAreTheSites
  <2> DEFINE a == verdict.url.authority
             kept == cache[a]
             rule == Deciding(kept.rules.rules, verdict.url.path)
             d == Decision(kept, verdict.url.path)
  <2>1. a \in Authorities /\ verdict.allowed = d.allowed /\ verdict.cited = d.cited /\ (Respect => kept # NotRead)
    BY DEF GInv, VerdictOK
  <2>2. Respect
    BY <2>1 DEF Decision
  <2>3. Renders(kept, Basis(a))
    BY <2>1, <2>2, Kept DEF GInv
  <2>4. CASE kept.origin = "unreadable"
    <3>1. d.cited = FALSE
      BY <2>2, <2>4 DEF Decision
    <3> QED BY <2>1, <2>3, <2>4, <3>1 DEF Renders
  <2>5. CASE kept.origin # "unreadable"
    <3>1. d.allowed = rule.allow /\ d.cited = (rule # NoRule)
      BY <2>2, <2>5 DEF Decision
    <3>2. verdict.cited <=> Refuses(rule)
      BY <2>1, <3>1 DEF Refuses
    <3> HIDE DEF rule
    <3> QED BY <2>3, <2>5, <3>2 DEF Renders, rule
  <2> QED BY <2>4, <2>5
<1> QED BY <1>1, Invariant, PTL

LEMMA RateLeft ==
    ASSUME NEW asked \in 1..60, NEW m \in Nat, m <= 60 \div asked
    PROVE  m * asked <= 60
<1>1. (60 \div asked) * asked <= 60 /\ 60 \div asked \in Nat
  OBVIOUS
<1>2. \A q \in Nat : m <= q => m * asked <= q * asked
  OBVIOUS
<1> QED BY <1>1, <1>2

\* Whatever delay is asked for, a run that goes on waits that long and keeps
\* the rate that it leaves.
THEOREM KeepsItsDistance == Spec => []NeverFasterThanAsked
<1>1. GInv => NeverFasterThanAsked
  <2> SUFFICES ASSUME GInv, phase = "running" PROVE NeverFasterThanAsked
    BY DEF NeverFasterThanAsked
  <2> DEFINE answer == Basis(BaseAuthority)
             asked == IF Readable(answer) THEN AskedDelay(answer.file) ELSE NoDelay
  <2>1. Renders(cache[BaseAuthority], answer) /\ limits = PoliteLimits(cache[BaseAuthority].rules.delay)
    BY GateAssumption, Kept DEF GInv, LimitsOK
  <2>2. asked \in Nat /\ limits = PoliteLimits(asked)
    BY <2>1 DEF Renders
  <2>3. MinDelay \in Nat /\ PerMinute \in Nat /\ PerMinute >= 1 /\ MinDelay >= 1
    BY GateAssumption
  <2> HIDE DEF asked
  <2>4. /\ limits.delay >= asked /\ limits.delay >= MinDelay
        /\ limits.perMinute <= PerMinute
        /\ asked > MinDelay => limits.perMinute = 1 \/ limits.perMinute * asked <= 60
    <3>1. CASE asked <= MinDelay
      BY <2>2, <2>3, <3>1 DEF PoliteLimits
    <3>2. CASE asked > MinDelay /\ asked > 60
      BY <2>2, <2>3, <3>2 DEF PoliteLimits
    <3>3. CASE asked > MinDelay /\ ~ asked > 60
      <4>1. asked \in 1..60 /\ 60 \div asked \in Nat
        BY <2>2, <2>3, <3>3
      <4>2. limits.delay = asked
        BY <2>2, <2>3, <3>3 DEF PoliteLimits
      <4>3. limits.perMinute = IF 60 \div asked < PerMinute THEN 60 \div asked ELSE PerMinute
        BY <2>2, <2>3, <3>3, <4>1 DEF PoliteLimits
      <4>4. limits.perMinute \in Nat /\ limits.perMinute <= 60 \div asked /\ limits.perMinute <= PerMinute
        BY <2>3, <4>1, <4>3
      <4>5. limits.perMinute * asked <= 60
        BY <4>1, <4>4, RateLeft
      <4>6. limits.perMinute <= PerMinute
        BY <4>4
      <4> HIDE DEF answer
      <4> QED BY <2>2, <2>3, <3>3, <4>2, <4>5, <4>6
    <3> QED BY <2>2, <2>3, <3>1, <3>2, <3>3
  <2> QED BY <2>4 DEF NeverFasterThanAsked, asked
<1> QED BY <1>1, Invariant, PTL

=============================================================================
