--------------------------- MODULE MCDeviceUpdate ---------------------------
(* DeviceUpdate for TLC.                                                   *)
EXTENDS DeviceUpdate

\* Release 2 of the application runs on the delivered core, later ones need
\* the core of their own release.
MCMinCore == [r \in 1 .. MaxRelease |-> IF r <= 2 THEN 1 ELSE r]
==============================================================================
