-------------------------- MODULE MCBinaryApiClient --------------------------
(***************************************************************************)
(* Instances of BinaryApiClient for TLC.  Buffers are interchangeable, as the  *)
(* client and the daemon take any free one, and so are the methods the daemon *)
(* has a message for.                                                         *)
(***************************************************************************)
EXTENDS BinaryApiClient, TLC

Symmetry == Permutations(Buffers) \cup Permutations(Table)
=============================================================================
