-------------------------------- MODULE MCFleet --------------------------------
(* Fleet for TLC.                                                          *)
EXTENDS Fleet

MCDoes == [a |-> "check", b |-> "rollback", c |-> "activate", d |-> "download"]

\* The second policy keeps a command of the first.
MCPolicies ==
  <<[commands |-> <<"a", "c">>, auto |-> TRUE, maximum |-> 1],
    [commands |-> <<"b", "c">>, auto |-> TRUE, maximum |-> 2],
    [commands |-> <<"d">>, auto |-> FALSE, maximum |-> 2]>>

\* The second application needs the second core.
MCNeeds == <<1, 2>>
==============================================================================
