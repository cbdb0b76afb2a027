-------------------------- MODULE MC_StreamSession --------------------------
(* StreamSession on a small instance, and its contract as a refinement.    *)
EXTENDS StreamSession

MCFailures == {InvalidToolCall, RateLimited, TimedOut, Disconnected}
MCModes == BOOLEAN
=============================================================================
