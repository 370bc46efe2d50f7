----------------------------- MODULE MCCoreRing -----------------------------
(* CoreRing on the code's ring of 4 slots, for TLC.                        *)
EXTENDS CoreRing

=============================================================================
