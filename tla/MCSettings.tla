------------------------------ MODULE MCSettings ------------------------------
(* Settings for TLC.                                                       *)
EXTENDS Settings

\* Every failure to join or to sign in remains possible; over "lost" nobody reaches the
\* portal at all.
MCNet   == {"home", "moved", "lost"}
MCReach == {"home", "moved"}
==============================================================================
