--------------------------- MODULE MCBlastRadius ---------------------------
(* A small instance of BlastRadius for TLC, with the constants of MCBroker. *)
EXTENDS MCBroker, BlastRadius

=============================================================================
