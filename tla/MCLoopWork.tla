----------------------------- MODULE MCLoopWork -----------------------------
(* Two callers and the loop thread; the engine may stop and start again.   *)
EXTENDS LoopWork
=============================================================================
