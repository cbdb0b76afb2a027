----------------------------- MODULE MC_WsTurn -----------------------------
(* WsTurn on a small instance.                                             *)
EXTENDS WsTurn
=============================================================================
