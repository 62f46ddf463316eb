---------------------------- MODULE MCRobotsGate -----------------------------
(***************************************************************************)
(* Two authorities of one source: its own, which may ask for delays, and   *)
(* one that serves documents and answers in every way that is told apart.  *)
(***************************************************************************)
EXTENDS RobotsGate

For(agent) == [name |-> "user-agent", value |-> agent]
Allow(pattern) == [name |-> "allow", value |-> pattern]
Disallow(pattern) == [name |-> "disallow", value |-> pattern]
Delay(n) == [name |-> "crawl-delay", value |-> n]
Other == [name |-> "sitemap", value |-> 0]

Slash == <<"/">>
A == <<"/", "a">>
AB == <<"/", "a", "b">>
B == <<"/", "b">>

File(lines) == [status |-> 200, plain |-> TRUE, markup |-> FALSE, file |-> lines]
Answer(status) == [status |-> status, plain |-> TRUE, markup |-> FALSE, file |-> <<>>]
NotModified == [status |-> 304, plain |-> TRUE, markup |-> FALSE, file |-> <<>>]
MultipleChoices == [status |-> 300, plain |-> TRUE, markup |-> FALSE, file |-> <<For("*"), Disallow(B)>>]
Page == [status |-> 200, plain |-> FALSE, markup |-> TRUE, file |-> <<>>]
PlainPage == [status |-> 200, plain |-> TRUE, markup |-> TRUE, file |-> <<>>]

\* Two agents share one group, ours named first, or last and asked to wait.
Shared == File(<<For("aedifexbot"), For("rival"), Disallow(A), Allow(AB)>>)
Fallback == File(<<For("*"), Disallow(Slash), Allow(A), For("bot"), Disallow(<<"/", "*", "b", "$">>), Delay(7)>>)
Slow == File(<<For("rival"), For("*"), Delay(7), Delay(400), Disallow(Nothing)>>)
Tied == File(<<For("rival"), For("*"), Other, Allow(A), Disallow(A), Disallow(B)>>)
Strangers == File(<<Disallow(Slash), For(""), Disallow(Slash), For("rival"), Disallow(Slash), Delay(400)>>)

TwoAuthorities == {"own", "files"}
ThreePaths == {A, AB, B}
SomeAnswers ==
    [a \in TwoAuthorities |->
        IF a = "own" THEN {Shared, Fallback, Slow, Answer(404), Answer(0)}
        ELSE {Shared, Fallback, Tied, Strangers, Answer(429), Answer(503), Answer(403), NotModified, MultipleChoices, Page, PlainPage}]

OurNames == {"bot", "aedifexbot"}
NameSizes == [a \in OurNames |-> IF a = "bot" THEN 3 ELSE 10]

=============================================================================
