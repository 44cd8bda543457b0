------------------------- MODULE MCToolRateLimiter -------------------------
(* Instances of ToolRateLimiter for TLC: members and workers are           *)
(* interchangeable model values.                                           *)
EXTENDS ToolRateLimiter, TLC

Interchangeable == Permutations(Members) \union Permutations(Workers)
=============================================================================
