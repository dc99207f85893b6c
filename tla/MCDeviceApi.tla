------------------------------- MODULE MCDeviceApi -------------------------------
(***************************************************************************)
(* What a device is configured with, what it answers and what it speaks    *)
(* through, for TLC: its API and history, its modules, and its MQTT        *)
(* client.  They have no variable in common, so one moves while the others *)
(* stay as they began: their states are added up and not multiplied.       *)
(***************************************************************************)
EXTENDS DeviceApi, MCModules, MqttLink

Answers    == ModInit /\ LinkInit /\ ApiNext /\ UNCHANGED <<modVars, linkVars>>
Configures == ApiInit /\ LinkInit /\ ModNext /\ UNCHANGED <<apiVars, linkVars>>
Speaks     == ApiInit /\ ModInit /\ LinkNext /\ UNCHANGED <<apiVars, modVars>>

DeviceInit == ApiInit /\ ModInit /\ LinkInit
DeviceSpec == DeviceInit /\ [][Answers \/ Configures \/ Speaks]_<<apiVars, modVars, linkVars>>
==============================================================================
