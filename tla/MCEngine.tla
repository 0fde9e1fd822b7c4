------------------------------ MODULE MCEngine ------------------------------
(* The engine with callers on other threads, started any number of times.  *)
EXTENDS Engine
=============================================================================
