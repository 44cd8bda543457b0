---------------------------- MODULE MCOAuthFlow ----------------------------
(* Instances of OAuthFlow for TLC: flows, callbacks and users are interchangeable. *)
EXTENDS OAuthFlow, TLC

Interchangeable == Permutations(Flows) \union Permutations(Callbacks) \union Permutations(Users)
=============================================================================
