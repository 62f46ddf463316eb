----------------------------- MODULE RobotsGate ------------------------------
(***************************************************************************)
(* RobotsGate (acquisition/crawl/robots.py): the threads of one run ask    *)
(* whether they may fetch a URL.  The robots.txt of its authority is read  *)
(* once, under a lock, and kept for the run, while the site may change it. *)
(* Before the first document the run folds the Crawl-delay of the source's *)
(* own authority into its limits (crawl/runner.py, _crawl).                *)
(***************************************************************************)
EXTENDS RobotsRules

CONSTANTS
    Threads,
    Authorities,
    BaseAuthority,  \* that of the source's base_url
    Paths,
    Answers,        \* Answers[a]: what authority a may answer in the end, at any time
    Respect,        \* robots_policy is respect
    MinDelay, PerMinute,  \* the configured RateLimits
    ChangeBudget,   \* bound: how often a site changes its answer
    NoThread, NotRead

ASSUME GateAssumption ==
    /\ BaseAuthority \in Authorities /\ Paths # {}
    /\ MinDelay \in Nat \ {0} /\ PerMinute \in Nat \ {0}
    /\ NoThread \notin Threads
    /\ \A a \in Authorities : \A r \in Answers[a] :
          /\ r.file \in Seq(Directive) /\ Interpret(r) # NotRead
          /\ r.status \notin {301, 302, 303, 307, 308}

MaxHonourableDelay == 300

VARIABLES
    site,     \* site[a]: what a would answer now
    cache,    \* cache[a]: rules and origin, or NotRead
    lock,     \* the thread that holds the lock of the cache, or NoThread
    pc, url,  \* what each thread is doing, and about which URL
    phase,    \* of the run: seeding, running, or refused for its delay
    limits,   \* the RateLimits in force
    verdict,  \* the decision last taken: the URL, whether it was requested and
              \* whether a rule of the site is cited; or NotRead
    got,      \* got[a]: the answers of a that were read, in order
    changes

vars == <<site, cache, lock, pc, url, phase, limits, verdict, got, changes>>
run == <<phase, limits>>

Url == [authority : Authorities, path : Paths]
Init ==
    /\ site \in {f \in [Authorities -> UNION {Answers[a] : a \in Authorities}] :
                    \A a \in Authorities : f[a] \in Answers[a]}
    /\ cache = [a \in Authorities |-> NotRead]
    /\ lock = NoThread
    /\ pc = [t \in Threads |-> "idle"]
    /\ url = [t \in Threads |-> CHOOSE u \in Url : u.authority = BaseAuthority]
    /\ phase = "seeding"
    /\ limits = [delay |-> MinDelay, perMinute |-> PerMinute]
    /\ verdict = NotRead
    /\ got = [a \in Authorities |-> <<>>]
    /\ changes = 0

\* polite_limits: the more polite of the two, one request at a time.
PoliteLimits(asked) ==
    LET reachable == IF asked > 60 THEN 1 ELSE 60 \div asked
    IN  IF asked <= MinDelay
        THEN [delay |-> MinDelay, perMinute |-> PerMinute]
        ELSE [delay |-> asked,
              perMinute |-> IF reachable < PerMinute THEN reachable ELSE PerMinute]

\* A delay that is longer than configured, and than this project waits.
TooLong(asked) == asked > MinDelay /\ asked > MaxHonourableDelay

\* Mutant: the rule that stands for an unreadable file is cited.
DecisionCiting(cached, path) ==
    LET rule == Deciding(cached.rules.rules, path)
    IN  IF ~ Respect THEN [allowed |-> TRUE, cited |-> FALSE]
        ELSE [allowed |-> rule.allow, cited |-> rule # NoRule]

\* allows, with the rules at hand: a gate that respects no file asks for none;
\* a file that could not be read refuses everything and cites nothing.
Decision(cached, path) ==
    LET rule == Deciding(cached.rules.rules, path)
    IN  IF ~ Respect THEN [allowed |-> TRUE, cited |-> FALSE]
        ELSE IF cached.origin = "unreadable" THEN [allowed |-> FALSE, cited |-> FALSE]
        ELSE [allowed |-> rule.allow, cited |-> rule # NoRule]

Idle(t) == pc' = [pc EXCEPT ![t] = "idle"]

\* The thread acts on the decision: the row is refused, or the URL requested.
Conclude(t, cached) ==
    LET d == Decision(cached, url[t].path)
    IN  verdict' = [url |-> url[t], allowed |-> d.allowed, cited |-> d.cited]

\* Mutant: a delay the project will not wait for is cut to what it will.
SettleDelayCut(a, cached) ==
    /\ phase = "seeding"
    /\ a = BaseAuthority
    /\ phase' = "running"
    /\ limits' = PoliteLimits(IF TooLong(cached.rules.delay)
                             THEN MaxHonourableDelay ELSE cached.rules.delay)

\* _crawl reads the rules of the base authority once, before the first
\* document, and gives the run up if they ask for more than it will wait.
SettleDelay(a, cached) ==
    /\ phase = "seeding"
    /\ a = BaseAuthority
    /\ IF TooLong(cached.rules.delay)
       THEN phase' = "refused" /\ UNCHANGED limits
       ELSE phase' = "running" /\ limits' = PoliteLimits(cached.rules.delay)

-----------------------------------------------------------------------------

\* rules_for(base_url), before the first document.
Seed(t) ==
    /\ phase = "seeding"
    /\ \A v \in Threads : pc[v] = "idle"
    /\ url' = [url EXCEPT ![t].authority = BaseAuthority]
    /\ pc' = [pc EXCEPT ![t] = "waiting"]
    /\ UNCHANGED <<site, cache, lock, run, verdict, got, changes>>

\* allows(url), called for a claimed URL.
Ask(t) ==
    /\ phase = "running"
    /\ pc[t] = "idle"
    /\ \E u \in Url : url' = [url EXCEPT ![t] = u]
    /\ pc' = [pc EXCEPT ![t] = "waiting"]
    /\ UNCHANGED <<site, cache, lock, run, verdict, got, changes>>

\* _rules_for takes the lock; if the rules are not cached it requests the file
\* with the lock held.
TakeLock(t) ==
    LET a == url[t].authority
    IN  /\ pc[t] = "waiting"
        /\ lock = NoThread
        /\ IF cache[a] = NotRead /\ (Respect \/ phase = "seeding")
           THEN /\ lock' = t
                /\ pc' = [pc EXCEPT ![t] = "reading"]
                /\ UNCHANGED <<run, verdict>>
           ELSE /\ Idle(t)
                /\ Conclude(t, cache[a])
                /\ UNCHANGED <<lock, run>>
        /\ UNCHANGED <<site, cache, url, got, changes>>

\* _fetch: the answer of the moment is interpreted and kept.
ReadRobots(t) ==
    LET a == url[t].authority
        cached == Interpret(site[a])
    IN  /\ pc[t] = "reading"
        /\ cache' = [cache EXCEPT ![a] = cached]
        /\ got' = [got EXCEPT ![a] = Append(@, site[a])]
        /\ lock' = NoThread
        /\ Idle(t)
        /\ IF phase = "seeding"
           THEN SettleDelay(a, cached) /\ UNCHANGED verdict
           ELSE Conclude(t, cached) /\ UNCHANGED run
        /\ UNCHANGED <<site, url, changes>>

\* The site answers something else from now on.
SiteChanges ==
    /\ changes < ChangeBudget
    /\ \E a \in Authorities : \E r \in Answers[a] :
         r # site[a] /\ site' = [site EXCEPT ![a] = r]
    /\ changes' = changes + 1
    /\ UNCHANGED <<cache, lock, pc, url, run, verdict, got>>

Next ==
    \/ \E t \in Threads : Seed(t) \/ Ask(t) \/ TakeLock(t) \/ ReadRobots(t)
    \/ SiteChanges

Spec == Init /\ [][Next]_vars

-----------------------------------------------------------------------------
(* Properties *)

\* The answer that a decision of this run rests on.
Basis(a) == got[a][1]

Readable(answer) == answer.status \in Successes /\ answer.plain
Silent(answer) == answer.status \in {429} \cup 500..599 \cup {0}

\* No URL is requested that the file read in this run forbids, by the rules of
\* the standard for groups and precedence, nor any URL of an authority that
\* gave no answer (parse_robots, decide, _from_status).
ObeysWhatItRead ==
    (Respect /\ verdict # NotRead /\ verdict.allowed) =>
        LET answer == Basis(verdict.url.authority)
        IN  /\ ~ Silent(answer)
            /\ Readable(answer) => ~ Forbidden(answer.file, verdict.url.path)

\* A refusal is put down to a rule of the site only if the file it gave does
\* forbid the path, and a file that was read refuses nothing else (_Origin).
RefusalsAreTheSites ==
    (verdict # NotRead /\ ~ verdict.allowed) =>
        LET answer == Basis(verdict.url.authority)
        IN  verdict.cited <=> Readable(answer) /\ Forbidden(answer.file, verdict.url.path)

\* A run that goes on keeps to the delay that its source's authority asked
\* for, never goes faster than configured, and does not exceed the rate the
\* delay leaves (polite_limits).
NeverFasterThanAsked ==
    phase = "running" =>
        LET answer == Basis(BaseAuthority)
            asked == IF Readable(answer) THEN AskedDelay(answer.file) ELSE NoDelay
        IN  /\ limits.delay >= asked /\ limits.delay >= MinDelay
            /\ limits.perMinute <= PerMinute
            /\ asked > MinDelay => limits.perMinute = 1 \/ limits.perMinute * asked <= 60

=============================================================================
