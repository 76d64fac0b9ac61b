----------------------------- MODULE PacketLoop -----------------------------
(***************************************************************************)
(* One packet loop (ferro-wg-core/src/tunnel/mod.rs, packet_loop), its     *)
(* three buffers, and the adapters (backend/*.rs) that turn the results of *)
(* the three WireGuard libraries into a PacketAction.                      *)
(*                                                                         *)
(* The libraries are external: any call may return any result of its type, *)
(* with a new product in the destination buffer.  Every content a buffer   *)
(* can have is a number: an IP packet from the host, a datagram from the   *)
(* network, or a product; `sealed` and `opened` say which products the     *)
(* library meant for the network and which for the host.  Lengths are left *)
(* out: no packet or datagram is longer than BUF_SIZE, and the MTU leaves  *)
(* room for what is added to it.                                           *)
(*                                                                         *)
(* Operators whose comment starts with "Variant" are not part of the       *)
(* specification, see TunnelManager.                                       *)
(***************************************************************************)
EXTENDS Integers, Sequences

CONSTANTS
  Compiled,    \* the backends whose features are compiled in
  MaxContents  \* bound of the model: packets, datagrams and products

ASSUME LoopAssumption ==
  Compiled \subseteq {"boringtun", "neptun", "gotatun"} /\ MaxContents \in Nat

VARIABLES
  library,  \* what create_backend has built
  at,       \* where the loop is: "start", "select", "udp send", "tun send", "ended"
  buf,      \* contents of tun_buf, udp_buf and wg_buf
  sending,  \* the buffer an awaited send is from
  fresh,    \* contents that there have been
  sealed,   \* products for the network, by age
  opened,   \* products for the host, by age
  wire,     \* what has been sent to the endpoint
  host,     \* what has been written to the TUN device
  counted,  \* the library's counters: datagrams made and datagrams taken
  stats,    \* what the watch channel holds of them
  stop      \* has shutdown_tx been sent

loopVars == <<library, at, buf, sending, fresh, sealed, opened, wire, host, counted, stats, stop>>

Zero == [tx |-> 0, rx |-> 0]

\* create_backend: a backend that is not compiled in is refused before there is a loop.
LoopInit ==
  /\ library \in Compiled
  /\ at = "start" /\ buf = [tun |-> 0, udp |-> 0, wg |-> 0] /\ sending = "wg"
  /\ fresh = 0 /\ sealed = <<>> /\ opened = <<>> /\ wire = <<>> /\ host = <<>>
  /\ counted = Zero /\ stats = Zero /\ stop = FALSE

-----------------------------------------------------------------------------
(* The adapters                                                             *)

\* What the library's method may return.
TunnResults(call) ==
  CASE library = "boringtun" ->
         {"Done", "Err", "WriteToNetwork", "WriteToTunnelV4", "WriteToTunnelV6"}
    [] library = "neptun" -> {"Done", "Err", "WriteToNetwork", "WriteToTunnel"}
    [] library = "gotatun" /\ call = "decapsulate" ->
         {"NotWg", "Done", "Err", "WriteToNetwork", "WriteToTunnel"}
    [] library = "gotatun" /\ call = "tick" -> {"Ok Some", "Ok None", "Err"}
    [] OTHER -> {"Some", "None"}

Sealing == {"WriteToNetwork", "Some", "Ok Some"}
Opening == {"WriteToTunnel", "WriteToTunnelV4", "WriteToTunnelV6"}

\* tunn_result_to_action; the products are in dst already.
BoringtunAction(result) ==
  IF result \in {"WriteToTunnelV4", "WriteToTunnelV6"} THEN "WriteToTun" ELSE result

NeptunAction(result) == IF result = "WriteToTunnel" THEN "WriteToTun" ELSE result

\* The methods of GotatunBackend; wg_kind_to_dst and packet_to_dst copy the product.
GotatunAction(result) ==
  CASE result \in {"Some", "Ok Some"} -> "WriteToNetwork"
    [] result \in {"None", "Ok None"} -> "Done"
    [] result = "NotWg" -> "Err"
    [] result = "WriteToTunnel" -> "WriteToTun"
    [] OTHER -> result

PacketAction(result) ==
  CASE library = "boringtun" -> BoringtunAction(result)
    [] library = "neptun" -> NeptunAction(result)
    [] library = "gotatun" -> GotatunAction(result)

\* A call that returns `result` and has dst for its destination.
Call(result, dst, contents, took) ==
  LET product == fresh' IN
  /\ fresh' = fresh + took + (IF result \in Sealing \cup Opening THEN 1 ELSE 0)
  /\ fresh' <= MaxContents
  /\ buf' = IF result \in Sealing \cup Opening THEN [contents EXCEPT ![dst] = product]
            ELSE contents
  /\ sealed' = IF result \in Sealing THEN Append(sealed, product) ELSE sealed
  /\ opened' = IF result \in Opening THEN Append(opened, product) ELSE opened
  /\ counted' = [tx |-> Len(sealed'), rx |-> counted.rx + (IF dst = "tun" THEN took ELSE 0)]

\* The loop goes on to a send, or waits for the next event.
Await(where, from) == at' = where /\ sending' = from
Idle == at' = "select" /\ UNCHANGED sending
ToNetworkOnly(result, from) ==
  IF PacketAction(result) = "WriteToNetwork" THEN Await("udp send", from) ELSE Idle

-----------------------------------------------------------------------------
(* packet_loop                                                              *)

\* Before the loop: initiate_handshake(&mut wg_buf, true).
InitiateHandshake ==
  /\ at = "start"
  /\ \E result \in TunnResults("initiate_handshake") :
       Call(result, "wg", buf, 0) /\ ToNetworkOnly(result, "wg")
  /\ UNCHANGED <<library, wire, host, stats, stop>>

\* handle_outgoing; a read of no bytes, or that fails, has no effect.
TunBranch ==
  /\ at = "select"
  /\ \E result \in TunnResults("encapsulate") :
       /\ Call(result, "wg", [buf EXCEPT !.tun = fresh + 1], 1)
       /\ ToNetworkOnly(result, "wg")
  /\ UNCHANGED <<library, wire, host, stats, stop>>

\* Variant: a response is sent as the outgoing packets are.
ResponseFromWgBuf == "wg"

\* "Handshake response - send back via UDP", from the buffer it was written to.
ResponseFrom == "tun"

\* decapsulate writes to tun_buf, and `tun.send(&tun_buf[..n])` reads it.
OpenedFrom == "tun"

\* handle_incoming; products go into tun_buf.
UdpBranch ==
  /\ at = "select"
  /\ \E result \in TunnResults("decapsulate") :
       /\ Call(result, "tun", [buf EXCEPT !.udp = fresh + 1], 1)
       /\ CASE PacketAction(result) = "WriteToTun" -> Await("tun send", OpenedFrom)
            [] PacketAction(result) = "WriteToNetwork" -> Await("udp send", ResponseFrom)
            [] OTHER -> Idle
  /\ UNCHANGED <<library, wire, host, stats, stop>>

\* Variant: the snapshot is sent with a datagram only.
PublishedWhenSending(result) == IF PacketAction(result) = "WriteToNetwork" THEN counted' ELSE stats

Published(result) == counted'

\* The datagram goes out before the snapshot is sent; nobody sees the difference.
TickBranch ==
  /\ at = "select"
  /\ \E result \in TunnResults("tick") :
       Call(result, "wg", buf, 0) /\ ToNetworkOnly(result, "wg") /\ stats' = Published(result)
  /\ UNCHANGED <<library, wire, host, stop>>

ShutdownBranch ==
  /\ at = "select" /\ stop /\ at' = "ended"
  /\ UNCHANGED <<library, buf, sending, fresh, sealed, opened, wire, host, counted, stats, stop>>

\* Variant: an error of the socket ends the loop.
UdpSendOrEnd ==
  /\ at = "udp send"
  /\ \/ at' = "select" /\ wire' = Append(wire, buf[sending])
     \/ at' = "ended" /\ UNCHANGED wire
  /\ UNCHANGED <<library, buf, sending, fresh, sealed, opened, host, counted, stats, stop>>

\* udp.send_to and AsyncDevice::send; errors are logged and the packet is lost.
UdpSend ==
  /\ at = "udp send" /\ at' = "select"
  /\ wire' \in {wire, Append(wire, buf[sending])}
  /\ UNCHANGED <<library, buf, sending, fresh, sealed, opened, host, counted, stats, stop>>

TunSend ==
  /\ at = "tun send" /\ at' = "select"
  /\ host' \in {host, Append(host, buf[sending])}
  /\ UNCHANGED <<library, buf, sending, fresh, sealed, opened, wire, counted, stats, stop>>

\* TunnelManager::down
SignalStop ==
  /\ ~stop /\ stop' = TRUE
  /\ UNCHANGED <<library, at, buf, sending, fresh, sealed, opened, wire, host, counted, stats>>

LoopNext ==
  \/ InitiateHandshake \/ TunBranch \/ UdpBranch \/ TickBranch \/ ShutdownBranch
  \/ UdpSend \/ TunSend \/ SignalStop

Spec == LoopInit /\ [][LoopNext]_loopVars

\* The runtime runs the task on, and the kernel takes what is sent.  select! picks
\* at random among the branches that are ready, so one that is ready again and
\* again is taken at last.
FairSpec ==
  /\ Spec
  /\ WF_loopVars(InitiateHandshake \/ UdpSend \/ TunSend)
  /\ SF_loopVars(ShutdownBranch) /\ SF_loopVars(TickBranch)

-----------------------------------------------------------------------------
(* Properties                                                               *)

IsSubsequence(s, t) ==
  \E place \in [DOMAIN s -> DOMAIN t] :
    /\ \A i, j \in DOMAIN s : i < j => place[i] < place[j]
    /\ \A i \in DOMAIN s : s[i] = t[place[i]]

\* Only what the library has sealed goes out, each datagram at most once and in the
\* order they were made: never a packet in the clear, never an old datagram again,
\* although tun_buf holds packets of both directions and handshake responses.
WireIsSealed == IsSubsequence(wire, sealed)

\* The host gets only what the library has opened, once and in order.
HostGetsOpened == IsSubsequence(host, opened)

\* The two directions are never mixed up: what packet_loop passes between its two
\* buffers, the library and the sockets goes only where it was meant to.
PacketsKeptApart == WireIsSealed /\ HostGetsOpened

\* While the loop runs, the counters that the status shows catch up with the
\* library's, also when nothing is sent any more.
StatsCatchUp == []<>(at = "ended" \/ stats = counted)

\* What TunnelManager assumes of the loop: it ends once it is told to, whatever the
\* traffic, and not before.
Life == INSTANCE LoopLife WITH
  life <- IF at = "ended" THEN "free" ELSE IF stop THEN "stopping" ELSE "running"

LivesAsAssumed == Life!Spec

\* The same without the promise that the loop does end.
LivesSafely == Life!SafeSpec
=============================================================================
