------------------------------- MODULE MCUpload -------------------------------
(* Upload for TLC.                                                         *)
EXTENDS Upload

\* The page's identifiers are digests: here the two components of the wanted
\* release have one each, and later bundles share them, as another client may.
MCIdOf == [a \in Artifact |-> IF a.kind = "firmware" THEN "f" ELSE "a"]
==============================================================================
