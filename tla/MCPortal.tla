-------------------------------- MODULE MCPortal --------------------------------
(* PortalAccess for TLC.                                                   *)
EXTENDS PortalAccess, TLC

MCSymmetry == Permutations(Connection)
==============================================================================
