------------------------------ MODULE MCPacker ------------------------------
(* Packer instantiated for TLC.  Real encoded sizes are used with a small   *)
(* maximum packet: 80 bytes hold one stream frame of at most 37 bytes or    *)
(* two of together at most 11.  Callers are numbers: in the control-frame   *)
(* runs each submits frames of its own size, which tells them apart.        *)
EXTENDS Packer, TLC

OwnSize == [t \in Callers |-> {t}]
NoControl == [t \in Callers |-> {}]

=============================================================================
