------------------------- MODULE MCControlPlaneHistory -------------------------
(***************************************************************************)
(* The small clusters of MCControlPlane, with history.                     *)
(***************************************************************************)
EXTENDS ControlPlaneHistory, MCControlPlane

=============================================================================
