-------------------------- MODULE MC_UpstreamGuard --------------------------
(* UpstreamGuard on a small instance: both kinds of round trip. *)
EXTENDS UpstreamGuard

MCModes == {"stream", "do"}
=============================================================================
