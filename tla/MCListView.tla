----------------------------- MODULE MCListView -----------------------------
EXTENDS ListView

MCWheel == {-1, 1}

(* The instance's pool is large enough for the theorems to be about it. *)
ASSUME MCPoolIsEnough == PoolIsEnough
=============================================================================
