---------------------------- MODULE MCPoliteFetch ----------------------------
(* Instances of PoliteFetch for TLC. *)
EXTENDS PoliteFetch

CONSTANTS s1, t1, t2, u, ux

Same(S, n) == [x \in S |-> n]
One == Same(Sources, 1)
Two == Same(Sources, 2)

\* ux is another spelling of u.
Spelling == [l \in Locations |-> IF l = ux THEN u ELSE l]

=============================================================================
