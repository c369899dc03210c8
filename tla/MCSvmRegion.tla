----------------------------- MODULE MCSvmRegion -----------------------------
(***************************************************************************)
(* Instances of SvmRegion for TLC.                                            *)
(***************************************************************************)
EXTENDS SvmRegion, TLC

ThreadSymmetry == Permutations(Threads)
=============================================================================
