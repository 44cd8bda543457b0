--------------------------- MODULE MCChatLimiter ---------------------------
(* Instances of ChatLimiter for TLC: requests and members are               *)
(* interchangeable model values.                                            *)
EXTENDS ChatLimiter, TLC

Interchangeable == Permutations(Members) \union Permutations(Requests)
=============================================================================
