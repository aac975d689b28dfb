------------------------------ MODULE MCSpool ------------------------------
(* Small instances of Spool for TLC. *)
EXTENDS Spool, TLC

Symmetry == Permutations(Records)

=============================================================================
