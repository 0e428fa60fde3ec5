---------------------------- MODULE MCConnTable ----------------------------
(***************************************************************************)
(* The instance of ConnTable that TLC checks: ports of one bucket and a    *)
(* port of another; cells and values are interchangeable.                  *)
(***************************************************************************)
EXTENDS ConnTable, TLC

Symmetry == Permutations(Cells) \cup Permutations(Values)
=============================================================================
