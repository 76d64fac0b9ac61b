---------------------------- MODULE MCPacketLoop ----------------------------
(***************************************************************************)
(* Model-checking PacketLoop; MCPacketLoop.cfg gives the constants.        *)
(***************************************************************************)
EXTENDS PacketLoop
=============================================================================
