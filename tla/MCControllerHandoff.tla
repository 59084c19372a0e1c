------------------------ MODULE MCControllerHandoff ------------------------
(* ControllerHandoff for three controllers and two players.                *)
EXTENDS ControllerHandoff

CONSTANTS i1, i2, i3

MCInstances == {i1, i2, i3}
=============================================================================
