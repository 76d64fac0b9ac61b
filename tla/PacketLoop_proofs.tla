-------------------------- MODULE PacketLoop_proofs --------------------------
(***************************************************************************)
(* Proof that a packet loop keeps its two directions apart, for any        *)
(* traffic and with any of the backends, and that it lives as              *)
(* TunnelManager assumes.                                                  *)
(***************************************************************************)
EXTENDS PacketLoop, TLAPS

LoopTypeOK ==
  /\ library \in Compiled
  /\ at \in {"start", "select", "udp send", "tun send", "ended"}
  /\ buf \in [tun : Nat, udp : Nat, wg : Nat] /\ sending \in {"tun", "wg"}
  /\ fresh \in Nat
  /\ sealed \in Seq(Nat) /\ opened \in Seq(Nat) /\ wire \in Seq(Nat) /\ host \in Seq(Nat)
  /\ counted \in [tx : Nat, rx : Nat] /\ stats \in [tx : Nat, rx : Nat]
  /\ stop \in BOOLEAN

Rising(q) == \A i, j \in DOMAIN q : i < j => q[i] < q[j]
In(x, q) == \E i \in DOMAIN q : x = q[i]
Below(q, x) == \A i \in DOMAIN q : q[i] < x

\* What has gone out was made for that direction, in the order it was made.
Apart(out, made) == Rising(out) /\ Rising(made) /\ \A i \in DOMAIN out : In(out[i], made)

\* A content is newer than all before it, so what is being sent is newer than what has been.
IInv ==
  /\ LoopTypeOK
  /\ Apart(wire, sealed) /\ Below(sealed, fresh + 1)
  /\ Apart(host, opened) /\ Below(opened, fresh + 1)
  /\ at = "udp send" => In(buf[sending], sealed) /\ Below(wire, buf[sending])
  /\ at = "tun send" => In(buf[sending], opened) /\ Below(host, buf[sending])
  /\ at = "ended" => stop

-----------------------------------------------------------------------------
(* Rising sequences                                                         *)

\* An order-preserving place for everything in `out` is where `made` has it.
LEMMA ApartIsSubsequence ==
  ASSUME NEW out \in Seq(Nat), NEW made \in Seq(Nat), Apart(out, made)
  PROVE  IsSubsequence(out, made)
<1> DEFINE place == [i \in DOMAIN out |-> CHOOSE k \in DOMAIN made : out[i] = made[k]]
<1>1. ASSUME NEW i \in DOMAIN out
      PROVE  place[i] \in DOMAIN made /\ out[i] = made[place[i]]
  BY DEF Apart, In
<1>2. place \in [DOMAIN out -> DOMAIN made]
  BY <1>1
<1>3. DOMAIN made \subseteq Int /\ \A k \in DOMAIN made : made[k] \in Nat
  OBVIOUS
<1> HIDE DEF place
<1>4. ASSUME NEW i \in DOMAIN out, NEW j \in DOMAIN out, i < j
      PROVE  place[i] < place[j]
  <2>1. made[place[i]] < made[place[j]]
    BY <1>1, <1>4 DEF Apart, Rising
  <2>2. place[i] \in Int /\ place[j] \in Int /\ made[place[i]] \in Nat /\ made[place[j]] \in Nat
    BY <1>1, <1>3
  <2>3. CASE place[i] = place[j]
    BY <2>1, <2>2, <2>3
  <2>4. CASE place[j] < place[i]
    <3>1. made[place[j]] < made[place[i]]
      BY <1>1, <2>4 DEF Apart, Rising
    <3>2. \A a, b \in Nat : ~(a < b /\ b < a)
      OBVIOUS
    <3> QED BY <3>1, <3>2, <2>1, <2>2
  <2> QED BY <2>2, <2>3, <2>4
<1> QED BY <1>1, <1>2, <1>4 DEF IsSubsequence

LEMMA AppendIsAtTheEnd ==
  ASSUME NEW q \in Seq(Nat), NEW x \in Nat
  PROVE  /\ Append(q, x) \in Seq(Nat) /\ Len(Append(q, x)) = Len(q) + 1
         /\ DOMAIN Append(q, x) = 1 .. Len(q) + 1 /\ DOMAIN q = 1 .. Len(q) /\ Len(q) \in Nat
         /\ Append(q, x)[Len(q) + 1] = x /\ \A i \in DOMAIN q : Append(q, x)[i] = q[i]
         /\ \A i \in DOMAIN Append(q, x) : i \in DOMAIN q \/ i = Len(q) + 1
OBVIOUS

LEMMA RisingAppend ==
  ASSUME NEW q \in Seq(Nat), NEW x \in Nat, Rising(q), Below(q, x)
  PROVE  Rising(Append(q, x)) /\ Below(Append(q, x), x + 1) /\ In(x, Append(q, x))
<1> DEFINE r == Append(q, x)
<1>1. /\ DOMAIN r = 1 .. Len(q) + 1 /\ DOMAIN q = 1 .. Len(q) /\ Len(q) \in Nat
      /\ r[Len(q) + 1] = x /\ \A i \in DOMAIN q : r[i] = q[i] /\ q[i] \in Nat
      /\ \A i \in DOMAIN r : i \in DOMAIN q \/ i = Len(q) + 1
  BY AppendIsAtTheEnd
<1> HIDE DEF r
<1>2. Rising(r)
  BY <1>1 DEF Rising, Below
<1>3. Below(r, x + 1)
  BY <1>1 DEF Below
<1>4. In(x, r)
  BY <1>1 DEF In
<1> QED BY <1>2, <1>3, <1>4 DEF r

\* More may be made, and the newest that was made may go out.
LEMMA ApartKept ==
  ASSUME NEW out \in Seq(Nat), NEW made \in Seq(Nat), Apart(out, made), NEW x \in Nat
  PROVE  /\ Below(made, x) => Apart(out, Append(made, x))
         /\ In(x, made) /\ Below(out, x) => Apart(Append(out, x), made)
<1>1. ASSUME Below(made, x) PROVE Apart(out, Append(made, x))
  <2>1. Rising(Append(made, x))
    BY <1>1, RisingAppend DEF Apart
  <2>2. \A i \in DOMAIN made : i \in DOMAIN Append(made, x) /\ Append(made, x)[i] = made[i]
    <3> HIDE DEF Apart
    <3> QED BY AppendIsAtTheEnd
  <2>3. ASSUME NEW i \in DOMAIN out PROVE In(out[i], Append(made, x))
    BY <2>2 DEF Apart, In
  <2> QED BY <2>1, <2>3 DEF Apart
<1>2. ASSUME In(x, made), Below(out, x) PROVE Apart(Append(out, x), made)
  <2>1. Rising(Append(out, x))
    BY <1>2, RisingAppend DEF Apart
  <2>2. \A i \in DOMAIN Append(out, x) :
          Append(out, x)[i] = x \/ (i \in DOMAIN out /\ Append(out, x)[i] = out[i])
    BY AppendIsAtTheEnd
  <2>3. ASSUME NEW i \in DOMAIN Append(out, x) PROVE In(Append(out, x)[i], made)
    BY <1>2, <2>2 DEF Apart
  <2> QED BY <2>1, <2>3 DEF Apart
<1> QED BY <1>1, <1>2

-----------------------------------------------------------------------------
(* The adapters and the library                                             *)

\* An adapter never turns a product around: what is to be sent was sealed, and what
\* is for the host was opened.
LEMMA AdaptersKeepDirection ==
  ASSUME LoopAssumption, library \in Compiled, NEW call, NEW result \in TunnResults(call)
  PROVE  /\ PacketAction(result) = "WriteToNetwork" => result \in Sealing
         /\ PacketAction(result) = "WriteToTun" => result \in Opening
<1>1. library \in {"boringtun", "neptun", "gotatun"}
  BY DEF LoopAssumption
<1>2. CASE library = "boringtun"
  BY <1>2 DEF TunnResults, PacketAction, BoringtunAction, Sealing, Opening
<1>3. CASE library = "neptun"
  BY <1>3 DEF TunnResults, PacketAction, NeptunAction, Sealing, Opening
<1>4. CASE library = "gotatun"
  BY <1>4 DEF TunnResults, PacketAction, GotatunAction, Sealing, Opening
<1> QED BY <1>1, <1>2, <1>3, <1>4

\* What a call of the library leaves behind.
LEMMA CallProperties ==
  ASSUME IInv, NEW result, NEW dst \in {"tun", "wg"}, NEW took \in {0, 1},
         NEW contents \in [tun : Nat, udp : Nat, wg : Nat], Call(result, dst, contents, took)
  PROVE  /\ fresh' \in Nat /\ buf' \in [tun : Nat, udp : Nat, wg : Nat]
         /\ sealed' \in Seq(Nat) /\ opened' \in Seq(Nat) /\ counted' \in [tx : Nat, rx : Nat]
         /\ Apart(wire, sealed') /\ Below(sealed', fresh' + 1)
         /\ Apart(host, opened') /\ Below(opened', fresh' + 1)
         /\ result \in Sealing => In(buf'[dst], sealed') /\ Below(wire, buf'[dst])
         /\ result \in Opening => In(buf'[dst], opened') /\ Below(host, buf'[dst])
<1>1. /\ fresh \in Nat /\ fresh' = fresh + took + (IF result \in Sealing \cup Opening THEN 1 ELSE 0)
      /\ sealed \in Seq(Nat) /\ opened \in Seq(Nat) /\ wire \in Seq(Nat) /\ host \in Seq(Nat)
  BY DEF IInv, LoopTypeOK, Call
<1>2. /\ fresh' \in Nat /\ fresh' >= fresh
      /\ result \in Sealing \cup Opening => fresh' > fresh
  BY <1>1
<1>3. ASSUME NEW q \in Seq(Nat), Below(q, fresh + 1)
      PROVE  Below(q, fresh' + 1) /\ (fresh' > fresh => Below(q, fresh'))
  <2>1. ASSUME NEW i \in DOMAIN q
        PROVE  q[i] < fresh' + 1 /\ (fresh' > fresh => q[i] < fresh')
    <3>1. q[i] \in Nat /\ q[i] < fresh + 1
      BY <1>3 DEF Below
    <3>2. fresh \in Nat
      BY <1>1
    <3> QED BY <1>2, <3>1, <3>2
  <2> QED BY <2>1 DEF Below
<1>4. /\ buf' \in [tun : Nat, udp : Nat, wg : Nat]
      /\ result \in Sealing \cup Opening => buf'[dst] = fresh'
  BY <1>2 DEF Call
<1>5. /\ sealed' \in Seq(Nat) /\ Apart(wire, sealed') /\ Below(sealed', fresh' + 1)
      /\ result \in Sealing => In(fresh', sealed')
  <2>1. CASE result \in Sealing
    <3>1. sealed' = Append(sealed, fresh') /\ Below(sealed, fresh')
      BY <1>1, <1>2, <1>3, <2>1 DEF Call, IInv
    <3> QED BY <1>1, <1>2, <3>1, ApartKept, RisingAppend, AppendIsAtTheEnd DEF IInv, Apart
  <2>2. CASE result \notin Sealing
    BY <1>1, <1>3, <2>2 DEF Call, IInv
  <2> QED BY <2>1, <2>2
<1>6. /\ opened' \in Seq(Nat) /\ Apart(host, opened') /\ Below(opened', fresh' + 1)
      /\ result \in Opening => In(fresh', opened')
  <2>1. CASE result \in Opening
    <3>1. opened' = Append(opened, fresh') /\ Below(opened, fresh')
      BY <1>1, <1>2, <1>3, <2>1 DEF Call, IInv
    <3> QED BY <1>1, <1>2, <3>1, ApartKept, RisingAppend, AppendIsAtTheEnd DEF IInv, Apart
  <2>2. CASE result \notin Opening
    BY <1>1, <1>3, <2>2 DEF Call, IInv
  <2> QED BY <2>1, <2>2
<1>7. counted' \in [tx : Nat, rx : Nat]
  <2>1. counted.rx \in Nat
    BY DEF IInv, LoopTypeOK
  <2>2. Len(sealed') \in Nat
    BY <1>5
  <2>3. counted.rx + (IF dst = "tun" THEN took ELSE 0) \in Nat
    BY <2>1
  <2> QED BY <2>2, <2>3 DEF Call
<1>8. ASSUME NEW out \in Seq(Nat), NEW made \in Seq(Nat), Apart(out, made), Below(made, fresh + 1),
             result \in Sealing \cup Opening
      PROVE  Below(out, fresh')
  <2>1. Below(made, fresh')
    BY <1>2, <1>3, <1>8
  <2> QED BY <2>1, <1>8 DEF Apart, Below, In
<1>9. result \in Sealing \cup Opening => Below(wire, fresh') /\ Below(host, fresh')
  BY <1>1, <1>8 DEF IInv
<1> QED BY <1>2, <1>4, <1>5, <1>6, <1>7, <1>9

-----------------------------------------------------------------------------
(* The steps                                                                *)

LEMMA InitKeeps == LoopInit => IInv
<1> SUFFICES ASSUME LoopInit PROVE IInv
  OBVIOUS
<1>1. LoopTypeOK
  <2>1. <<>> \in Seq(Nat) /\ Zero \in [tx : Nat, rx : Nat]
    BY DEF Zero
  <2>2. buf \in [tun : Nat, udp : Nat, wg : Nat]
    BY DEF LoopInit
  <2> QED BY <2>1, <2>2 DEF LoopInit, LoopTypeOK
<1>2. Apart(<<>>, <<>>) /\ \A x : Below(<<>>, x)
  BY DEF Apart, Rising, Below
<1> QED BY <1>1, <1>2 DEF LoopInit, IInv

\* A call whose product may go to the network leaves the loop in order.
LEMMA ToNetworkKeeps ==
  ASSUME LoopAssumption, IInv, NEW call, NEW result \in TunnResults(call), NEW took \in {0, 1},
         NEW contents \in [tun : Nat, udp : Nat, wg : Nat], Call(result, "wg", contents, took),
         ToNetworkOnly(result, "wg"), stop' = stop, at # "ended",
         UNCHANGED <<library, wire, host>>, stats' \in {stats, counted'}
  PROVE  IInv'
<1>1. /\ fresh' \in Nat /\ buf' \in [tun : Nat, udp : Nat, wg : Nat]
      /\ sealed' \in Seq(Nat) /\ opened' \in Seq(Nat) /\ counted' \in [tx : Nat, rx : Nat]
      /\ Apart(wire, sealed') /\ Below(sealed', fresh' + 1)
      /\ Apart(host, opened') /\ Below(opened', fresh' + 1)
      /\ result \in Sealing => In(buf'["wg"], sealed') /\ Below(wire, buf'["wg"])
  BY CallProperties
<1>2. LoopTypeOK'
  BY <1>1 DEF IInv, LoopTypeOK, ToNetworkOnly, Await, Idle
<1>3. at' = "udp send" => In(buf'[sending'], sealed') /\ Below(wire, buf'[sending'])
  <2>1. library \in Compiled
    BY DEF IInv, LoopTypeOK
  <2> QED BY <1>1, <2>1, AdaptersKeepDirection DEF ToNetworkOnly, Await, Idle
<1>4. at' \in {"udp send", "select"}
  BY DEF ToNetworkOnly, Await, Idle
<1> QED BY <1>1, <1>2, <1>3, <1>4 DEF IInv

LEMMA InitiateHandshakeKeeps ==
  ASSUME LoopAssumption, IInv, InitiateHandshake
  PROVE  IInv'
<1>1. PICK result \in TunnResults("initiate_handshake") :
        Call(result, "wg", buf, 0) /\ ToNetworkOnly(result, "wg")
  BY DEF InitiateHandshake
<1>2. buf \in [tun : Nat, udp : Nat, wg : Nat]
  BY DEF IInv, LoopTypeOK
<1> QED BY <1>1, <1>2, ToNetworkKeeps DEF InitiateHandshake

\* What the kernel has put into one of the buffers.
LEMMA HostPacketTyped ==
  ASSUME IInv
  PROVE  /\ [buf EXCEPT !.tun = fresh + 1] \in [tun : Nat, udp : Nat, wg : Nat]
         /\ [buf EXCEPT !.udp = fresh + 1] \in [tun : Nat, udp : Nat, wg : Nat]
<1>1. buf \in [tun : Nat, udp : Nat, wg : Nat] /\ fresh \in Nat
  BY DEF IInv, LoopTypeOK
<1>2. fresh + 1 \in Nat
  BY <1>1
<1> QED BY <1>1, <1>2

LEMMA TunBranchKeeps ==
  ASSUME LoopAssumption, IInv, TunBranch
  PROVE  IInv'
<1>1. PICK result \in TunnResults("encapsulate") :
        /\ Call(result, "wg", [buf EXCEPT !.tun = fresh + 1], 1)
        /\ ToNetworkOnly(result, "wg")
  BY DEF TunBranch
<1>2. [buf EXCEPT !.tun = fresh + 1] \in [tun : Nat, udp : Nat, wg : Nat]
  BY HostPacketTyped
<1> QED BY <1>1, <1>2, ToNetworkKeeps DEF TunBranch

LEMMA TickBranchKeeps ==
  ASSUME LoopAssumption, IInv, TickBranch
  PROVE  IInv'
<1>1. PICK result \in TunnResults("tick") :
        Call(result, "wg", buf, 0) /\ ToNetworkOnly(result, "wg") /\ stats' = Published(result)
  BY DEF TickBranch
<1>2. buf \in [tun : Nat, udp : Nat, wg : Nat] /\ stats' \in {stats, counted'}
  BY <1>1 DEF IInv, LoopTypeOK, Published
<1> QED BY <1>1, <1>2, ToNetworkKeeps DEF TickBranch

\* tun_buf holds the answer of the handshake or the packet for the host, and
\* which of the two is what the loop goes on with.
LEMMA UdpBranchKeeps ==
  ASSUME LoopAssumption, IInv, UdpBranch
  PROVE  IInv'
<1> DEFINE contents == [buf EXCEPT !.udp = fresh + 1]
<1>1. PICK result \in TunnResults("decapsulate") :
        /\ Call(result, "tun", contents, 1)
        /\ CASE PacketAction(result) = "WriteToTun" -> Await("tun send", "tun")
             [] PacketAction(result) = "WriteToNetwork" -> Await("udp send", "tun")
             [] OTHER -> Idle
  BY DEF UdpBranch, OpenedFrom, ResponseFrom
<1>2. contents \in [tun : Nat, udp : Nat, wg : Nat] /\ library \in Compiled
  BY HostPacketTyped DEF IInv, LoopTypeOK
<1> HIDE DEF contents
<1>3. /\ fresh' \in Nat /\ buf' \in [tun : Nat, udp : Nat, wg : Nat]
      /\ sealed' \in Seq(Nat) /\ opened' \in Seq(Nat) /\ counted' \in [tx : Nat, rx : Nat]
      /\ Apart(wire, sealed') /\ Below(sealed', fresh' + 1)
      /\ Apart(host, opened') /\ Below(opened', fresh' + 1)
      /\ result \in Sealing => In(buf'["tun"], sealed') /\ Below(wire, buf'["tun"])
      /\ result \in Opening => In(buf'["tun"], opened') /\ Below(host, buf'["tun"])
  BY <1>1, <1>2, CallProperties
<1>4. UNCHANGED <<library, wire, host, stats, stop>> /\ at = "select"
  BY DEF UdpBranch
<1>5. \/ at' = "tun send" /\ sending' = "tun" /\ PacketAction(result) = "WriteToTun"
      \/ at' = "udp send" /\ sending' = "tun" /\ PacketAction(result) = "WriteToNetwork"
      \/ at' = "select" /\ sending' = sending
  BY <1>1 DEF Await, Idle
<1>6. LoopTypeOK'
  BY <1>3, <1>4, <1>5 DEF IInv, LoopTypeOK
<1>7. /\ PacketAction(result) = "WriteToNetwork" => result \in Sealing
      /\ PacketAction(result) = "WriteToTun" => result \in Opening
  BY <1>2, AdaptersKeepDirection
<1> QED BY <1>3, <1>4, <1>5, <1>6, <1>7 DEF IInv

LEMMA SendsKeep ==
  ASSUME IInv, UdpSend \/ TunSend
  PROVE  IInv'
<1>1. buf[sending] \in Nat
  BY DEF IInv, LoopTypeOK
<1>2. CASE UdpSend
  <2>1. wire' \in Seq(Nat) /\ Apart(wire', sealed)
    <3>1. /\ wire \in Seq(Nat) /\ sealed \in Seq(Nat) /\ Apart(wire, sealed)
          /\ In(buf[sending], sealed) /\ Below(wire, buf[sending])
      BY <1>2 DEF IInv, LoopTypeOK, UdpSend
    <3>2. Append(wire, buf[sending]) \in Seq(Nat) /\ Apart(Append(wire, buf[sending]), sealed)
      BY <1>1, <3>1, ApartKept, AppendIsAtTheEnd
    <3> QED BY <1>2, <3>1, <3>2 DEF UdpSend
  <2> QED BY <1>2, <2>1 DEF IInv, LoopTypeOK, UdpSend
<1>3. CASE TunSend
  <2>1. host' \in Seq(Nat) /\ Apart(host', opened)
    <3>1. /\ host \in Seq(Nat) /\ opened \in Seq(Nat) /\ Apart(host, opened)
          /\ In(buf[sending], opened) /\ Below(host, buf[sending])
      BY <1>3 DEF IInv, LoopTypeOK, TunSend
    <3>2. Append(host, buf[sending]) \in Seq(Nat) /\ Apart(Append(host, buf[sending]), opened)
      BY <1>1, <3>1, ApartKept, AppendIsAtTheEnd
    <3> QED BY <1>3, <3>1, <3>2 DEF TunSend
  <2> QED BY <1>3, <2>1 DEF IInv, LoopTypeOK, TunSend
<1> QED BY <1>2, <1>3

LEMMA InvariantStep == LoopAssumption /\ IInv /\ [LoopNext]_loopVars => IInv'
<1> SUFFICES ASSUME LoopAssumption, IInv, [LoopNext]_loopVars PROVE IInv'
  OBVIOUS
<1>1. CASE InitiateHandshake \/ TunBranch \/ UdpBranch \/ TickBranch
  BY <1>1, InitiateHandshakeKeeps, TunBranchKeeps, UdpBranchKeeps, TickBranchKeeps
<1>2. CASE UdpSend \/ TunSend
  BY <1>2, SendsKeep
<1>3. CASE ShutdownBranch
  BY <1>3 DEF ShutdownBranch, IInv, LoopTypeOK
<1>4. CASE SignalStop
  BY <1>4 DEF SignalStop, IInv, LoopTypeOK
<1>5. CASE UNCHANGED loopVars
  BY <1>5 DEF loopVars, IInv, LoopTypeOK
<1> QED BY <1>1, <1>2, <1>3, <1>4, <1>5 DEF LoopNext

LEMMA Inductive == Spec => []IInv
BY InitKeeps, InvariantStep, LoopAssumption, PTL DEF Spec

-----------------------------------------------------------------------------
(* Theorems                                                                 *)

\* Whatever the traffic and the backend, only what the library has sealed goes out and
\* only what it has opened goes to the host, each once and in order, although
\* packet_loop has one buffer for both (tunnel/mod.rs, handle_incoming).
THEOREM Separation == Spec => []PacketsKeptApart
<1>1. IInv => PacketsKeptApart
  BY ApartIsSubsequence DEF IInv, LoopTypeOK, PacketsKeptApart, WireIsSealed, HostGetsOpened
<1> QED BY <1>1, Inductive, PTL

\* The loop ends only after it was told to, and then for good, whatever fails in it:
\* what TunnelManager counts on, but for the promise that it does end.
THEOREM LifeRefinement == Spec => LivesSafely
<1> DEFINE life == IF at = "ended" THEN "free" ELSE IF stop THEN "stopping" ELSE "running"
<1>1. LoopInit => Life!Init
  BY DEF LoopInit, Life!Init
<1>2. IInv /\ [LoopNext]_loopVars => [Life!Signal \/ Life!Exit]_life
  <2> SUFFICES ASSUME IInv, [LoopNext]_loopVars PROVE [Life!Signal \/ Life!Exit]_life
    OBVIOUS
  <2>1. CASE InitiateHandshake \/ TunBranch \/ UdpBranch \/ TickBranch
    <3>1. at # "ended" /\ at' # "ended" /\ stop' = stop
      BY <2>1 DEF InitiateHandshake, TunBranch, UdpBranch, TickBranch, ToNetworkOnly, Await, Idle
    <3> QED BY <3>1
  <2>2. CASE UdpSend \/ TunSend
    <3>1. at # "ended" /\ at' # "ended" /\ stop' = stop
      BY <2>2 DEF UdpSend, TunSend
    <3> QED BY <3>1
  <2>3. CASE ShutdownBranch
    BY <2>3 DEF ShutdownBranch, Life!Exit
  <2>4. CASE SignalStop
    BY <2>4 DEF SignalStop, IInv, Life!Signal
  <2>5. CASE UNCHANGED loopVars
    BY <2>5 DEF loopVars
  <2> QED BY <2>1, <2>2, <2>3, <2>4, <2>5 DEF LoopNext
<1> QED BY <1>1, <1>2, Inductive, PTL DEF Spec, LivesSafely, Life!SafeSpec
=============================================================================
