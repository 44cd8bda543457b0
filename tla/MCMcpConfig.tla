---------------------------- MODULE MCMcpConfig ----------------------------
(* Instances of McpConfig for TLC: configs, tasks and the offers with tools *)
(* are interchangeable.                                                     *)
EXTENDS McpConfig, TLC

Interchangeable ==
    Permutations(Configs) \union Permutations(Tasks) \union Permutations(Offers \ {NoTools})
=============================================================================
