------------------------- MODULE MCControllerSlots -------------------------
(* ControllerSlots with four controllers, one of them broken, for two      *)
(* players: fewer slots than devices, index shifts, a full table.  The     *)
(* liveness properties rule symmetry out.                                  *)
EXTENDS ControllerSlots

CONSTANTS i1, i2, i3, i4

MCInstances == {i1, i2, i3, i4}
MCUnopenable == {i4}
=============================================================================
