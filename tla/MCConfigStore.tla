--------------------------- MODULE MCConfigStore ----------------------------
(***************************************************************************)
(* Constant values for model-checking ConfigStore and WgQuick.             *)
(***************************************************************************)
EXTENDS ConfigStore

\* A stem that leaves no room for the index of a peer, and one with a blank.
Stems == [mia |-> 3, tus |-> 3, long |-> 63, blank |-> 6]

Alphabet == [blank |-> 1, long |-> 2, mia |-> 3, tus |-> 4]

Key == Line("PrivateKey", <<"k">>)
Peer(ip) == <<PeerHeader, Line("PublicKey", <<"k">>), Line("AllowedIPs", <<ip>>)>>
Wg(text) == CHOOSE conn \in LoadFromStr(text) : TRUE

OnePeer == <<InterfaceHeader, Key>> \o Peer("10/8")
TwoPeers == OnePeer \o Peer("11/8")

\* The last one has no peer: it is not imported.
Sources ==
  {[stem |-> "mia", text |-> OnePeer], [stem |-> "long", text |-> TwoPeers],
   [stem |-> "blank", text |-> OnePeer], [stem |-> "mia", text |-> <<InterfaceHeader, Key>>]}

Edited == [Wg(TwoPeers) EXCEPT !.iface.MTU = <<"1420">>]
Drafts == {Edited, [Edited EXCEPT !.peers = <<>>]}
Files == {Missing, Whole("tus" :> Wg(OnePeer))}

=============================================================================
