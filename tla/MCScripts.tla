----------------------------- MODULE MCScripts ------------------------------
(* A small instance of Scripts: the loop's own script engine and one on a   *)
(* thread of its own, which differ, and addresses, which do not.            *)
EXTENDS Scripts, TLC

Alike == Permutations(Addresses)
=============================================================================
