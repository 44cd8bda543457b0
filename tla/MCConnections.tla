---------------------------- MODULE MCConnections ----------------------------
(* Instances of Connections for TLC; coroutines of a kind are               *)
(* interchangeable.                                                         *)
EXTENDS Connections, TLC

Interchangeable == Permutations(Workers) \union Permutations(Operations)
=============================================================================
