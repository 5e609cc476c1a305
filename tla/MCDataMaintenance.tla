-------------------------- MODULE MCDataMaintenance --------------------------
(* A small instance of DataMaintenance for TLC. *)
EXTENDS DataMaintenance, TLC
CONSTANTS p1, p2
Symmetry == Permutations({p1, p2})
=============================================================================
