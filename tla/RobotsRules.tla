----------------------------- MODULE RobotsRules -----------------------------
(***************************************************************************)
(* Reading a robots.txt (acquisition/crawl/robots.py, the pure half).  A   *)
(* file is a sequence of directives [name, value]; a path and a pattern    *)
(* are sequences of characters, of which "*" in a pattern stands for any   *)
(* text and a "$" at its end for the end of the path.                      *)
(***************************************************************************)
EXTENDS Integers, Sequences, SequencesExt, FiniteSetsExt

CONSTANTS
    Contained,   \* agents that occur in our product token, "*" left out
    AgentSize    \* the length of each agent's name

ASSUME AgentAssumption == AgentSize \in [Contained -> Nat]

\* What a line of a file says, by _split_directive.
Directive ==
    [name : {"user-agent"}, value : STRING]
    \cup [name : {"allow", "disallow"}, value : Seq(STRING)]
    \cup [name : STRING \ {"user-agent", "allow", "disallow"}, value : Int]

Nothing == <<>>
NoDelay == 0
NoAgent == ""
NoRule == [allow |-> TRUE, pattern |-> Nothing]

-----------------------------------------------------------------------------
(* Groups *)

\* _Group
EmptyGroup == [rules |-> <<>>, delay |-> NoDelay, saw |-> FALSE]

AtStart == [groups |-> [a \in {} |-> EmptyGroup], current |-> {}, fresh |-> TRUE]

\* A user-agent line after anything else begins a new header.
Header(s) == IF s.fresh THEN s.current ELSE {}

ReadAgent(s, agent) ==
    LET named == {agent} \ {NoAgent}
    IN  [groups |-> [a \in DOMAIN s.groups \cup named |->
                        IF a \in DOMAIN s.groups THEN s.groups[a] ELSE EmptyGroup],
         current |-> Header(s) \cup named,
         fresh |-> TRUE]

\* A directive reaches the groups of all agents of the header above it, each
\* of which it changes as told.
Reaches(s, Change(_)) ==
    [groups |-> [a \in DOMAIN s.groups |->
                    IF a \in s.current THEN Change(s.groups[a]) ELSE s.groups[a]],
     current |-> s.current,
     fresh |-> FALSE]

\* An empty value forbids nothing, yet it is a directive.
WithRule(g, allow, pattern) ==
    [rules |-> IF pattern = Nothing THEN g.rules
               ELSE Append(g.rules, [allow |-> allow, pattern |-> pattern]),
     delay |-> g.delay,
     saw |-> TRUE]

\* The longest delay that is stated wins.
WithDelay(g, delay) ==
    [rules |-> g.rules, delay |-> IF delay > g.delay THEN delay ELSE g.delay, saw |-> TRUE]

\* Mutant: only the last agent of a header is bound.
ReadLineOfLast(s, line) ==
    IF line.name = "user-agent"
    THEN [ReadAgent(s, line.value) EXCEPT !.current = {line.value} \ {NoAgent}]
    ELSE IF line.name \in {"allow", "disallow"}
    THEN Reaches(s, LAMBDA g : WithRule(g, line.name = "allow", line.value))
    ELSE IF line.name = "crawl-delay" /\ line.value > 0
    THEN Reaches(s, LAMBDA g : WithDelay(g, line.value))
    ELSE [s EXCEPT !.fresh = FALSE]

\* One directive of _collect_groups; whatever it does not know ends a header.
ReadLine(s, line) ==
    IF line.name = "user-agent" THEN ReadAgent(s, line.value)
    ELSE IF line.name \in {"allow", "disallow"}
    THEN Reaches(s, LAMBDA g : WithRule(g, line.name = "allow", line.value))
    ELSE IF line.name = "crawl-delay" /\ line.value > 0
    THEN Reaches(s, LAMBDA g : WithDelay(g, line.value))
    ELSE [s EXCEPT !.fresh = FALSE]

\* _collect_groups, after each number of lines.
Readings(file) ==
    LET after[n \in 0..Len(file)] ==
            IF n = 0 THEN AtStart ELSE ReadLine(after[n - 1], file[n])
    IN  after

Groups(file) == Readings(file)[Len(file)].groups

\* _agent_specificity: any agent whose name occurs in ours binds us.
AgentScore(agent) ==
    IF agent = "*" THEN 0 ELSE IF agent \in Contained THEN AgentSize[agent] ELSE -1

\* The agents that no other outscores; the first of the file is obeyed.
FirstMention(file, agent) ==
    Min({n \in DOMAIN file : file[n].name = "user-agent" /\ file[n].value = agent})

ObeyedAgent(file) ==
    LET named == {a \in DOMAIN Groups(file) : AgentScore(a) >= 0}
        best == {a \in named : \A b \in named : AgentScore(a) >= AgentScore(b)}
    IN  IF named = {} THEN NoAgent
        ELSE CHOOSE a \in best : \A b \in best : FirstMention(file, a) <= FirstMention(file, b)

\* parse_robots: RobotsRules
ParseRobots(file) ==
    LET groups == Groups(file)
        agent == ObeyedAgent(file)
        saw == \E a \in DOMAIN groups : groups[a].saw
    IN  IF agent = NoAgent
        THEN [rules |-> <<>>, delay |-> NoDelay, saw |-> saw]
        ELSE [rules |-> groups[agent].rules, delay |-> groups[agent].delay, saw |-> saw]

-----------------------------------------------------------------------------
(* Rules *)

Anchored(pattern) == pattern # Nothing /\ Last(pattern) = "$"
Body(pattern) == IF Anchored(pattern) THEN Front(pattern) ELSE pattern

\* _compile_rule: the expression is matched from the start of the path.
Covers(pattern, path) ==
    LET body == Body(pattern)
        ends == Len(path) + 1
        m[i \in 1..(Len(body) + 1), j \in 1..ends] ==
            IF i > Len(body) THEN Anchored(pattern) => j = ends
            ELSE IF body[i] = "*" THEN \E k \in j..ends : m[i + 1, k]
            ELSE j < ends /\ body[i] = path[j] /\ m[i + 1, j + 1]
    IN  m[1, 1]

\* _Rule.specificity
Specificity(rule) == Len(Body(rule.pattern))

\* _outranks: the longer pattern, and Allow when they are equal.
Outranks(candidate, incumbent) ==
    IF Specificity(candidate) # Specificity(incumbent)
    THEN Specificity(candidate) > Specificity(incumbent)
    ELSE candidate.allow /\ ~ incumbent.allow

\* RobotsRules.decide: the rule that wins, or NoRule, which permits.
Deciding(rules, path) ==
    LET best[n \in 0..Len(rules)] ==
            IF n = 0 THEN NoRule
            ELSE IF /\ Covers(rules[n].pattern, path)
                    /\ best[n - 1] = NoRule \/ Outranks(rules[n], best[n - 1])
            THEN rules[n] ELSE best[n - 1]
    IN  best[Len(rules)]

-----------------------------------------------------------------------------
(* Answers to the request for the file *)

DenyAll == [rules |-> <<[allow |-> FALSE, pattern |-> <<"/">>]>>, delay |-> NoDelay, saw |-> TRUE]
AllowAll == [rules |-> <<>>, delay |-> NoDelay, saw |-> FALSE]

\* The answers without an error; redirects were followed, but a 300 or a 304
\* is none and has a body like a 200.
Successes == 200..399

\* _from_status: no answer, a 429 and a 5xx deny, another 4xx permits.
FromStatus(status) ==
    IF status \in 400..499 /\ status # 429
    THEN [rules |-> AllowAll, origin |-> "absent"]
    ELSE [rules |-> DenyAll, origin |-> "unreadable"]

\* _interpret, of the last answer [status, plain, markup, file]: a body that is not
\* plain text is no robots.txt, markup without a directive was not read.
Interpret(answer) ==
    LET rules == ParseRobots(answer.file)
    IN  IF answer.status \notin Successes THEN FromStatus(answer.status)
        ELSE IF ~ answer.plain THEN [rules |-> AllowAll, origin |-> "absent"]
        ELSE IF rules.saw THEN [rules |-> rules, origin |-> "parsed"]
        ELSE IF answer.markup THEN [rules |-> DenyAll, origin |-> "unreadable"]
        ELSE [rules |-> rules, origin |-> "absent"]

-----------------------------------------------------------------------------
(* What the file says, without reading it line by line *)

\* A user-agent line heads the line n if only user-agent lines, or no further
\* user-agent line, follow it up to n: the lines between are its header's and
\* its group's.
Heads(file, k, n) ==
    /\ k < n
    /\ file[k].name = "user-agent"
    /\ ~ \E i, j \in (k + 1)..(n - 1) :
           i < j /\ file[i].name # "user-agent" /\ file[j].name = "user-agent"

\* The directives that bind an agent; a header without a name binds nobody.
Binding(file, agent) ==
    {n \in DOMAIN file :
        /\ agent # NoAgent /\ file[n].name \in {"allow", "disallow", "crawl-delay"}
        /\ \E k \in DOMAIN file : Heads(file, k, n) /\ file[k].value = agent}

\* The agent we answer to: the longest name in the file that ours contains,
\* and of two of one length the first.
OurAgent(file) ==
    LET named == {file[n].value : n \in {k \in DOMAIN file : file[k].name = "user-agent"}} \ {NoAgent}
        ours == {a \in named : AgentScore(a) >= 0}
        Before(a, b) ==
            \/ AgentScore(a) > AgentScore(b)
            \/ AgentScore(a) = AgentScore(b) /\ FirstMention(file, a) < FirstMention(file, b)
    IN  IF ours = {} THEN NoAgent
        ELSE CHOOSE a \in ours : \A b \in ours \ {a} : Before(a, b)

\* RFC 9309, 2.2.2: the most specific match permits or forbids, Allow breaking
\* the tie.
Forbidden(file, path) ==
    LET rules == {file[n] : n \in {k \in Binding(file, OurAgent(file)) :
                     file[k].name # "crawl-delay" /\ file[k].value # Nothing}}
        matching == {r \in rules : Covers(r.value, path)}
        longest == {r \in matching : \A q \in matching : Len(Body(r.value)) >= Len(Body(q.value))}
    IN  longest # {} /\ \A r \in longest : r.name = "disallow"

\* The delay the file asks of us.
AskedDelay(file) ==
    Max({NoDelay} \cup {file[n].value : n \in
            {k \in Binding(file, OurAgent(file)) : file[k].name = "crawl-delay"}})

=============================================================================
