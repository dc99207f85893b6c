----------------------------- MODULE MCAppUpdate -----------------------------
(***************************************************************************)
(* The root application of a device, for TLC: its updater, and the tools   *)
(* that install a core and an application over USB.  UsbTools takes the    *)
(* updater's work in single steps of its own, so the two have no variable  *)
(* in common: one moves while the other stays as it began.                 *)
(***************************************************************************)
EXTENDS AppUpdate, UsbTools

(***************************************************************************)
(* Bounds the histories: after one torn record, one overwritten record or  *)
(* one mismatched bundle the device goes on; the other two exposures end a *)
(* history (what they break is looked at in the step that makes them).     *)
(***************************************************************************)
BoundedExposure ==
  \E e \in {"torn", "overwritten", "mismatched"} : exposed \subseteq {e}

Updates == UsbInit /\ Next /\ UNCHANGED usbVars
Serves  == Init /\ UsbNext /\ UNCHANGED vars

AppInit == Init /\ UsbInit
AppSpec == AppInit /\ [][Updates \/ Serves]_<<vars, usbVars>>
==============================================================================
