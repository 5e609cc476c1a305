--------------------------- MODULE MCModelRegistry ---------------------------
(* A small instance of ModelRegistry for TLC. *)
EXTENDS ModelRegistry
=============================================================================
