------------------------------ MODULE MCDelivery ------------------------------
(* Delivery for TLC.                                                       *)
EXTENDS Delivery

MCDevices == <<"m1">>

\* The delivered settings, and states with QoS 1, retained or not.
MCMode == {[qos |-> 0, retain |-> FALSE], [qos |-> 1, retain |-> FALSE],
           [qos |-> 1, retain |-> TRUE]}
==============================================================================
