--------------------------------- MODULE MCSetup ---------------------------------
(* First-boot setup, for TLC. *)
EXTENDS Setup
=============================================================================
