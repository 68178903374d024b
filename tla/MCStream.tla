------------------------------- MODULE MCStream -------------------------------
(* StreamVolume on the small instances of PbxMonitor. *)
EXTENDS StreamVolume, MCPbx

=============================================================================
