------------------------- MODULE MC_AttachmentCache -------------------------
(* AttachmentCache on a small instance: requests that share images, in     *)
(* opposite orders and once more after an eviction, over a cache too small *)
(* for all of them.                                                        *)
EXTENDS AttachmentCache

MCPlans == {<<"a">>, <<"b", "a">>, <<"a", "b", "a">>}
MCOnePlan == {<<"a">>}
MCMaybe == BOOLEAN
=============================================================================
