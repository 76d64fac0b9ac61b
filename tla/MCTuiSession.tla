--------------------------- MODULE MCTuiSession ----------------------------
(* Constant values for model-checking TuiSession. *)
EXTENDS TuiSession, TLC

Keyed == [key |-> "set", ips |-> {}]
Peers(n) == [iface |-> {}, peers |-> [i \in 1 .. n |-> Keyed]]

\* The file with two connections, and with the first removed by hand.
SessionFiles == {(1 :> Peers(1)) @@ (2 :> Peers(2)), 2 :> Peers(2)}
=============================================================================
