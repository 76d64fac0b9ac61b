------------------------------ MODULE LoopLife ------------------------------
(***************************************************************************)
(* What TunnelManager counts on of a packet loop: it works until it is     *)
(* told to stop, and then ends and gives its device and its port back.     *)
(***************************************************************************)
VARIABLE life   \* "running", "stopping", "free"

Init == life = "running"

Signal == life = "running" /\ life' = "stopping"
Exit == life = "stopping" /\ life' = "free"

SafeSpec == Init /\ [][Signal \/ Exit]_life
Spec == SafeSpec /\ WF_life(Exit)
=============================================================================
