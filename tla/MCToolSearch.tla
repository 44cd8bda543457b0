---------------------------- MODULE MCToolSearch ----------------------------
(* An instance of ToolSearch for TLC: two workers, as in entrypoint.sh, and *)
(* one provider with so many tools that they could take all the places of a *)
(* search.  The numbers are scaled down: each provider is sure of one place.*)
EXTENDS ToolSearch, TLC

CONSTANTS p1, p2, q1, u1, p, q, u, w1, w2

TheFixedTools == {p1, p2, q1}
TheProviders == {p, q, u}
TheProvider == [t \in {p1, p2, q1, u1} |-> IF t = u1 THEN u ELSE IF t = q1 THEN q ELSE p]
TheWorkers == {w1, w2}

Interchangeable == Permutations({p1, p2}) \union Permutations(TheWorkers)
=============================================================================
