------------------------------ MODULE MCTiered ------------------------------
(***************************************************************************)
(* TieredCache on a small instance.  Goroutines and values are             *)
(* interchangeable: no action and no property orders them.                 *)
(***************************************************************************)
EXTENDS Tiered, TLC

Symmetry == Permutations(Procs) \cup Permutations(Values)
=============================================================================
