---------------------------- MODULE MCGosvLogDir ----------------------------
(***************************************************************************)
(* Runs are interchangeable: nothing but their identity tells them apart.  *)
(***************************************************************************)
EXTENDS GosvLogDir, TLC

MCSymmetry == Permutations(Runs)
=============================================================================
