---------------------------- MODULE MC_Lifecycle ----------------------------
(* Lifecycle on a small instance: a streaming and a non-streaming request. *)
EXTENDS Lifecycle
=============================================================================
