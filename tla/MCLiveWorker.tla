---------------------------- MODULE MCLiveWorker ----------------------------
(***************************************************************************)
(* Instances of LiveWorker for TLC: two games, so that one of them can be  *)
(* priced, slow or broken while the other is not.                          *)
(***************************************************************************)
EXTENDS LiveWorker, TLC

GameSymmetry == Permutations(Game)
=============================================================================
