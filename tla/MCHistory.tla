------------------------------ MODULE MCHistory ------------------------------
(* Instances of History for TLC: KeepLast, 10 in the code, is scaled down so    *)
(* that a turn can be longer than what a summary keeps.                         *)
EXTENDS History
=============================================================================
