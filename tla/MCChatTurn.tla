----------------------------- MODULE MCChatTurn -----------------------------
(* Instances of ChatTurn for TLC: turns, threads and ids are interchangeable. *)
EXTENDS ChatTurn, TLC

Interchangeable == Permutations(Turns) \union Permutations(Threads) \union Permutations(Ids)
=============================================================================
