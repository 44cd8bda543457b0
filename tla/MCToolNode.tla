------------------------------ MODULE MCToolNode ------------------------------
(* Instances of ToolNode for TLC; providers are interchangeable.             *)
EXTENDS ToolNode, TLC

ProviderSymmetry == Permutations(Providers)
=============================================================================
