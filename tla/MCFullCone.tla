---------------------------- MODULE MCFullCone ----------------------------
(***************************************************************************)
(* Instances of FullCone for TLC.  Sessions, sockets and clients are       *)
(* interchangeable, which the safety runs exploit.                         *)
(***************************************************************************)
EXTENDS FullCone, TLC

Symmetry ==
  Permutations(Keys) \cup Permutations(Sessions) \cup Permutations(Handles)
=============================================================================
