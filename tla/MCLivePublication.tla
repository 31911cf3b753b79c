------------------------- MODULE MCLivePublication -------------------------
(***************************************************************************)
(* Instances of LivePublication for TLC: one game, two models to promote   *)
(* one after the other, one crash at any point.                            *)
(***************************************************************************)
EXTENDS LivePublication
=============================================================================
