----------------------------- MODULE MCBackends -----------------------------
(* A small instance of Backends: one command, a queue of two, and polls     *)
(* that collect one, so that queues overflow and polls stop short.          *)
EXTENDS Backends
=============================================================================
