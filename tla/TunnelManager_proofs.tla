----------------------- MODULE TunnelManager_proofs -----------------------
(***************************************************************************)
(* Proofs about TunnelManager, for every set of connections, devices,      *)
(* configs and failing host calls.                                         *)
(*                                                                         *)
(* IInv is inductive.  LoopsOwned is not so by itself: that SpawnLoop does  *)
(* not give a device a second owner rests on the locals of `up` (ControlOK: *)
(* the frame holds a device, and the connection is still not up), which in  *)
(* turn need the types.                                                     *)
(*                                                                         *)
(* The theorems about other connections, their routes and the resolver      *)
(* come last, each with the invariant it needs beside IInv.                 *)
(***************************************************************************)
EXTENDS TunnelManager, TLAPS

IInv == TypeOK /\ ControlOK /\ LoopsOwned

LEMMA InitIInv == Init => IInv
  BY ConstantsAssumption DEF Init, IInv, TypeOK, ControlOK, LoopsOwned, IsMap, Free,
     NoFrame, NoCall, NoDns, NoWg, Base, DnsState, WgConfig, Commands, UpSteps, Steps,
     Call, Frame, Device

-----------------------------------------------------------------------------
(* Types of the values the actions build.                                   *)

LEMMA Defaults ==
  /\ Free \in Device
  /\ NoFrame \in Frame
  /\ NoCall \in Call
  /\ Base \in [Field -> SUBSET Conn]
  BY DEF Free, Device, NoFrame, Frame, NoCall, Call, Commands, NoDns, DnsState,
         NoWg, WgConfig, Base, Field

LEMMA DeviceType ==
  ASSUME TypeOK, NEW t \in Tun,
         NEW s \in {"free", "held", "running", "stopping"}, NEW p \in Port \cup {0}
  PROVE  /\ [dev EXCEPT ![t] = Free] \in [Tun -> Device]
         /\ [dev EXCEPT ![t].state = s] \in [Tun -> Device]
         /\ [dev EXCEPT ![t].port = p] \in [Tun -> Device]
  BY Defaults DEF TypeOK, Device

LEMMA FrameType ==
  ASSUME TypeOK
  PROVE  /\ \A t \in Tun : [frame EXCEPT !.tun = t] \in Frame
         /\ \A w \in WgConfig : [frame EXCEPT !.wg = w] \in Frame
         /\ \A d \in DnsState : [frame EXCEPT !.dns = d] \in Frame
  BY DEF TypeOK, Frame

LEMMA GotoType ==
  ASSUME TypeOK, NEW s \in Steps, Goto(s)
  PROVE  /\ IsMap(config, WgConfig)' /\ IsMap(active, ActiveConnection)'
         /\ step' \in Steps /\ call' \in Call /\ todo' \in SUBSET Conn
         /\ reply' \in {"none", "ok", "error"}
  BY DEF TypeOK, Goto, IsMap

LEMMA ReturnType ==
  ASSUME TypeOK, NEW r \in {"ok", "error"}, Return(r)
  PROVE  /\ step' \in Steps /\ todo' \in SUBSET Conn /\ frame' \in Frame
         /\ reply' \in {"none", "ok", "error"}
  BY Defaults DEF TypeOK, Return, Steps

LEMMA CloseType ==
  ASSUME TypeOK, NEW t \in Tun, Close(t)
  PROVE  /\ dev' \in [Tun -> Device] /\ route' \in [Cidr -> Tun \cup {NoTun}]
         /\ link' \in SUBSET Tun
  BY DeviceType DEF TypeOK, Close, RoutesWithout

LEMMA AbortType ==
  ASSUME TypeOK, frame.tun \in Tun, Abort
  PROVE  TypeOK'
  BY CloseType, ReturnType DEF Abort, TypeOK, IsMap

\* A command that is received.
LEMMA BeginType ==
  ASSUME TypeOK, NEW m \in Commands, NEW c \in Conn \cup {NoConn},
         NEW b \in Backend \cup {NoBackend}, Begin(m, c, b)
  PROVE  call' \in Call
  BY DEF Begin, Call

LEMMA ReloadType ==
  ASSUME TypeOK, Reload
  PROVE  IsMap(config, WgConfig)'
  BY ConstantsAssumption DEF Reload, TypeOK, IsMap

LEMMA RemoveType ==
  ASSUME TypeOK, NEW c \in DOMAIN active, Remove(c)
  PROVE  /\ IsMap(active, ActiveConnection)'
         /\ dev' \in [Tun -> Device] /\ route' \in [Cidr -> Tun \cup {NoTun}]
         /\ sys' \in [Field -> SUBSET Conn] /\ link' \in SUBSET Tun
<1> DEFINE a == active[c]
<1>1. a \in ActiveConnection /\ c \in Conn
  BY DEF TypeOK, IsMap
<1>2. IsMap(active, ActiveConnection)'
  BY DEF Remove, Restrict, TypeOK, IsMap
<1>3. dev' \in [Tun -> Device]
  BY <1>1, DeviceType DEF Remove, ActiveConnection
<1>4. route' \in [Cidr -> Tun \cup {NoTun}]
  BY DEF Remove, RemoveRoutes, TypeOK
<1>5. sys' \in [Field -> SUBSET Conn] /\ link' \in SUBSET Tun
  <2>1. CASE UNCHANGED <<sys, link>>
    BY <2>1 DEF TypeOK
  <2>2. CASE RemoveDns(a.dns)
    <3>1. a.dns.saved \in [Field -> SUBSET Conn]
      BY <1>1 DEF ActiveConnection, DnsState
    <3> QED
      BY <2>2, <3>1 DEF RemoveDns, RevertService, RevertLinux, WriteCut, Base, DnsState,
                            TypeOK
  <2> QED
    BY <2>1, <2>2 DEF Remove, RevertDns
<1> QED
  BY <1>2, <1>3, <1>4, <1>5

LEMMA ApplyDnsType ==
  ASSUME TypeOK, ControlOK, ApplyDns
  PROVE  TypeOK'
<1> DEFINE wanted == frame.wg.dns
           conn == call.conn
<1>1. frame.tun \in Tun /\ conn \in Conn /\ wanted \in SUBSET Field
  BY DEF ApplyDns, ControlOK, TypeOK, Frame, UpSteps, WgConfig
<1>2. \A F \in SUBSET Field :
        [kind |-> "global", iface |-> NoTun, fields |-> F, saved |-> sys] \in DnsState
  BY DEF DnsState, TypeOK
<1>3. [kind |-> "link", iface |-> frame.tun, fields |-> {}, saved |-> Base] \in DnsState
  BY <1>1, Defaults DEF DnsState
<1>4. ASSUME ApplyResolvConf(wanted)
      PROVE  sys' \in [Field -> SUBSET Conn] /\ frame' \in Frame
  BY <1>1, <1>2, <1>4, FrameType DEF ApplyResolvConf, WriteCut, Base, TypeOK
<1>5. ASSUME ApplyNetworksetup(wanted)
      PROVE  sys' \in [Field -> SUBSET Conn] /\ frame' \in Frame /\ link' \in SUBSET Tun
  <2>1. [sys EXCEPT !["servers"] = {conn}] \in [Field -> SUBSET Conn]
    BY <1>1 DEF TypeOK
  <2> QED
    BY <1>1, <1>2, <1>5, <2>1, FrameType DEF ApplyNetworksetup, DetectFails, TypeOK
<1>6. ASSUME ApplyResolvectl(wanted)
      PROVE  sys' \in [Field -> SUBSET Conn] /\ frame' \in Frame /\ link' \in SUBSET Tun
  BY <1>1, <1>3, <1>4, <1>6, FrameType DEF ApplyResolvectl, TypeOK
<1>7. sys' \in [Field -> SUBSET Conn] /\ frame' \in Frame /\ link' \in SUBSET Tun
  BY <1>4, <1>5, <1>6 DEF ApplyDns, NoDnsApplied, TypeOK
<1> QED
  BY <1>7, GotoType DEF ApplyDns, TypeOK, Steps

-----------------------------------------------------------------------------
(* Type correctness of a step.                                              *)

LEMMA ReceiveType == TypeOK /\ ControlOK /\ Receive => TypeOK'
<1> SUFFICES ASSUME TypeOK, ControlOK, Receive PROVE TypeOK'
  OBVIOUS
<1> USE DEF host
<1>1. ASSUME NEW c \in Conn, NEW b \in Backend, Up(c, b) PROVE TypeOK'
  BY <1>1, BeginType, ReloadType DEF Up, TypeOK, IsMap, Steps, Commands
<1>2. ASSUME NEW c \in Conn, NEW b \in Backend, SwitchBackend(c, b) PROVE TypeOK'
  <2>1. call' \in Call /\ step' \in Steps
    BY <1>2, BeginType DEF SwitchBackend, Steps, Commands
  <2> QED
    BY <1>2, <2>1, RemoveType DEF SwitchBackend, TypeOK, IsMap
<1>3. ASSUME NEW b \in Backend, UpAll(b) PROVE TypeOK'
  BY <1>3, BeginType, ReloadType DEF UpAll, TypeOK, IsMap, Steps, Commands
<1>4. ASSUME NEW c \in Conn, Down(c) PROVE TypeOK'
  <2>1. call' \in Call
    BY <1>4, BeginType DEF Down, Commands
  <2> QED
    BY <1>4, <2>1, RemoveType DEF Down, TypeOK, IsMap
<1>5. CASE DownAll
  BY <1>5, BeginType DEF DownAll, TypeOK, IsMap, Steps, Commands
<1>6. CASE Shutdown
  BY <1>6, BeginType DEF Shutdown, TypeOK, IsMap, Steps, Commands
<1>7. CASE Status
  BY <1>7, BeginType, ReloadType DEF Status, TypeOK, IsMap, Commands
<1> QED
  BY <1>1, <1>2, <1>3, <1>4, <1>5, <1>6, <1>7 DEF Receive

LEMMA WorkType == TypeOK /\ ControlOK /\ Work => TypeOK'
<1> SUFFICES ASSUME TypeOK, ControlOK, Work PROVE TypeOK'
  OBVIOUS
<1> USE DEF host
<1>1. CASE EnterUp
  <2>1. CanStart(call.conn) => config[call.conn] \in WgConfig
    BY DEF CanStart, TypeOK, IsMap
  <2> QED
    BY <1>1, <2>1, FrameType, GotoType, ReturnType DEF EnterUp, TypeOK, IsMap, Steps
<1>2. CASE Resolve
  BY <1>2, GotoType, ReturnType DEF Resolve, TypeOK, IsMap, Steps
<1>3. CASE CreateTun
  <2>1. ASSUME NEW t \in Tun, dev' = [dev EXCEPT ![t].state = "held"],
               frame' = [frame EXCEPT !.tun = t], Goto("configure")
        PROVE  TypeOK'
    <3>1. dev' \in [Tun -> Device]
      BY <2>1, DeviceType DEF TypeOK
    <3>2. frame' \in Frame
      BY <2>1, FrameType
    <3> QED
      BY <1>3, <2>1, <3>1, <3>2, GotoType DEF CreateTun, TypeOK, IsMap, Steps
  <2>2. ASSUME Return("error"), UNCHANGED <<config, active, call, dev>>
        PROVE  TypeOK'
    BY <1>3, <2>2, ReturnType DEF CreateTun, TypeOK, IsMap
  <2> QED
    BY <1>3, <2>1, <2>2 DEF CreateTun
<1>4. CASE Configure
  <2>1. frame.tun \in Tun
    BY <1>4 DEF Configure, ControlOK, TypeOK, Frame
  <2> QED
    BY <1>4, <2>1, GotoType, AbortType DEF Configure, TypeOK, Steps
<1>5. CASE ApplyDns
  BY <1>5, ApplyDnsType
<1>6. CASE BindSocket
  <2>1. frame.tun \in Tun /\ frame.wg.port \in Port \cup {0}
    BY <1>6 DEF BindSocket, ControlOK, TypeOK, Frame, WgConfig
  <2>2. ASSUME dev' = [dev EXCEPT ![frame.tun].port = frame.wg.port], Goto("spawn"),
               UNCHANGED <<route, sys, link, frame>>
        PROVE  TypeOK'
    <3>1. dev' \in [Tun -> Device]
      BY <2>1, <2>2, DeviceType DEF TypeOK
    <3> QED
      BY <2>2, <3>1, GotoType DEF TypeOK, Steps
  <2> QED
    BY <1>6, <2>1, <2>2, AbortType DEF BindSocket
<1>7. CASE SpawnLoop
  <2>1. /\ frame.tun \in Tun /\ frame.dns \in DnsState
        /\ call.conn \in Conn /\ call.backend \in Backend
    BY <1>7 DEF SpawnLoop, ControlOK, TypeOK, Frame, UpSteps
  <2>2. [tun |-> frame.tun, backend |-> call.backend, dns |-> frame.dns]
          \in ActiveConnection
    BY <2>1 DEF ActiveConnection
  <2>3. ASSUME dev' = [dev EXCEPT ![frame.tun].state = "running"],
               active' = [c \in DOMAIN active \cup {call.conn} |->
                            IF c = call.conn
                              THEN [tun |-> frame.tun, backend |-> call.backend,
                                    dns |-> frame.dns]
                              ELSE active[c]],
               Return("ok"), UNCHANGED <<config, route, sys, link, call>>
        PROVE  TypeOK'
    <3>1. dev' \in [Tun -> Device]
      BY <2>1, <2>3, DeviceType DEF TypeOK
    <3>2. IsMap(active, ActiveConnection)'
      BY <2>1, <2>2, <2>3 DEF TypeOK, IsMap
    <3> QED
      BY <2>3, <3>1, <3>2, ReturnType DEF TypeOK, IsMap
  <2> QED
    BY <1>7, <2>1, <2>3, AbortType DEF SpawnLoop
<1>8. CASE UpAllNext
  <2>1. ASSUME NEW c \in Conn PROVE [call EXCEPT !.conn = c] \in Call
    BY DEF TypeOK, Call
  <2> QED
    BY <1>8, <2>1 DEF UpAllNext, TypeOK, IsMap, Steps
<1>9. CASE DownAllNext
  <2>1. todo \subseteq DOMAIN active
    BY <1>9 DEF DownAllNext, ControlOK
  <2> QED
    BY <1>9, <2>1, RemoveType DEF DownAllNext, TypeOK, IsMap, Steps
<1> QED
  BY <1>1, <1>2, <1>3, <1>4, <1>5, <1>6, <1>7, <1>8, <1>9 DEF Work

LEMMA ProcessType ==
  TypeOK /\ (Crash \/ Start \/ \E t \in Tun : LoopExit(t)) => TypeOK'
<1> SUFFICES ASSUME TypeOK, Crash \/ Start \/ \E t \in Tun : LoopExit(t)
             PROVE  TypeOK'
  OBVIOUS
<1>1. ASSUME NEW t \in Tun, LoopExit(t) PROVE TypeOK'
  BY <1>1, CloseType DEF LoopExit, TypeOK, IsMap
<1>2. CASE Crash
  BY <1>2, Defaults DEF Crash, Restrict, TypeOK, IsMap, Steps
<1>3. CASE Start
  BY <1>3, Defaults, ConstantsAssumption DEF Start, TypeOK, IsMap, Steps
<1> QED
  BY <1>1, <1>2, <1>3

LEMMA StepType == TypeOK /\ ControlOK /\ [Next]_vars => TypeOK'
<1>1. TypeOK /\ UNCHANGED vars => TypeOK'
  BY DEF vars, TypeOK, IsMap
<1> QED
  BY <1>1, ReceiveType, WorkType, ProcessType DEF Next

-----------------------------------------------------------------------------
(* The locals of a command fit its place.                                   *)

LEMMA ReceiveControl == TypeOK /\ ControlOK /\ Receive => ControlOK'
<1> SUFFICES ASSUME TypeOK, ControlOK, Receive PROVE ControlOK'
  OBVIOUS
<1>1. step = "idle" /\ frame.tun = NoTun
  BY DEF Receive, Up, SwitchBackend, UpAll, Down, DownAll, Shutdown, Status, Begin,
         ControlOK
<1> USE <1>1 DEF host, Begin, ControlOK, UpSteps
<1>2. ASSUME NEW c \in Conn, NEW b \in Backend, Up(c, b) PROVE ControlOK'
  BY <1>2 DEF Up
<1>3. ASSUME NEW c \in Conn, NEW b \in Backend, SwitchBackend(c, b) PROVE ControlOK'
  BY <1>3 DEF SwitchBackend
<1>4. ASSUME NEW b \in Backend, UpAll(b) PROVE ControlOK'
  BY <1>4 DEF UpAll
<1>5. ASSUME NEW c \in Conn, Down(c) PROVE ControlOK'
  BY <1>5 DEF Down
<1>6. CASE DownAll \/ Shutdown
  BY <1>6 DEF DownAll, Shutdown
<1>7. CASE Status
  BY <1>7 DEF Status
<1> QED
  BY <1>2, <1>3, <1>4, <1>5, <1>6, <1>7 DEF Receive

LEMMA ReturnControl ==
  ASSUME TypeOK, ControlOK, step \in UpSteps, NEW r \in {"ok", "error"}, Return(r),
         UNCHANGED <<config, call>>,
         DOMAIN active \subseteq DOMAIN active',
         r = "ok" => call.conn \in DOMAIN active'
  PROVE  ControlOK'
  BY DEF ControlOK, Return, UpSteps, NoFrame, TypeOK, IsMap

LEMMA WorkControl == TypeOK /\ ControlOK /\ Work => ControlOK'
<1> SUFFICES ASSUME TypeOK, ControlOK, Work PROVE ControlOK'
  OBVIOUS
<1> USE DEF host
<1>1. CASE EnterUp
  <2>1. CASE CanStart(call.conn)
    <3>1. frame'.tun = frame.tun
      BY <1>1, <2>1 DEF EnterUp, TypeOK, Frame
    <3> QED
      BY <1>1, <2>1, <3>1 DEF EnterUp, CanStart, Goto, ControlOK, UpSteps
  <2>2. CASE ~CanStart(call.conn)
    BY <1>1, <2>2, ReturnControl DEF EnterUp, UpSteps
  <2> QED
    BY <2>1, <2>2
<1>2. CASE Resolve
  BY <1>2, ReturnControl DEF Resolve, Goto, ControlOK, UpSteps
<1>3. CASE CreateTun
  <2>1. ASSUME NEW t \in Tun, frame' = [frame EXCEPT !.tun = t], Goto("configure")
        PROVE  ControlOK'
    <3>1. frame'.tun # NoTun
      BY <2>1, ConstantsAssumption DEF TypeOK, Frame
    <3> QED
      BY <1>3, <2>1, <3>1 DEF CreateTun, Goto, ControlOK, UpSteps
  <2> QED
    BY <1>3, <2>1, ReturnControl DEF CreateTun, UpSteps
<1>4. CASE Configure
  BY <1>4, ReturnControl DEF Configure, Goto, Abort, ControlOK, UpSteps
<1>5. CASE ApplyDns
  <2>1. frame'.tun = frame.tun
    BY <1>5 DEF ApplyDns, NoDnsApplied, ApplyNetworksetup, DetectFails, ApplyResolvConf, WriteCut,
                ApplyResolvectl, TypeOK, Frame
  <2> QED
    BY <1>5, <2>1 DEF ApplyDns, Goto, ControlOK, UpSteps
<1>6. CASE BindSocket
  BY <1>6, ReturnControl DEF BindSocket, Goto, Abort, ControlOK, UpSteps
<1>7. CASE SpawnLoop
  <2>1. CASE Return("ok")
    BY <1>7, <2>1, ReturnControl DEF SpawnLoop, Return, Abort, UpSteps
  <2>2. CASE Abort
    BY <1>7, <2>2, ReturnControl DEF SpawnLoop, Abort, UpSteps
  <2> QED
    BY <1>7, <2>1, <2>2 DEF SpawnLoop
<1>8. CASE UpAllNext
  <2>1. CASE todo = {}
    BY <1>8, <2>1 DEF UpAllNext, ControlOK, UpSteps
  <2>2. ASSUME NEW c \in todo, todo' = todo \ {c}, UNCHANGED reply,
               IF c \in DOMAIN active
                 THEN UNCHANGED <<step, call>>
                 ELSE step' = "enter" /\ call' = [call EXCEPT !.conn = c]
        PROVE  ControlOK'
    <3>1. c \in Conn
      BY <2>2 DEF TypeOK
    <3>2. CASE c \in DOMAIN active
      BY <1>8, <2>2, <3>2 DEF UpAllNext, ControlOK, UpSteps
    <3>3. CASE c \notin DOMAIN active
      <4>1. call'.conn = c /\ call'.cmd = call.cmd /\ call'.backend = call.backend
        BY <2>2, <3>3 DEF TypeOK, Call
      <4> QED
        BY <1>8, <2>2, <3>1, <3>3, <4>1 DEF UpAllNext, ControlOK, UpSteps
    <3> QED
      BY <3>2, <3>3
  <2> QED
    BY <1>8, <2>1, <2>2 DEF UpAllNext
<1>9. CASE DownAllNext
  BY <1>9 DEF DownAllNext, Remove, Restrict, ControlOK, UpSteps
<1> QED
  BY <1>1, <1>2, <1>3, <1>4, <1>5, <1>6, <1>7, <1>8, <1>9 DEF Work

LEMMA ProcessControl ==
  TypeOK /\ ControlOK /\ (Crash \/ Start \/ \E t \in Tun : LoopExit(t)) => ControlOK'
<1> SUFFICES ASSUME TypeOK, ControlOK, Crash \/ Start \/ \E t \in Tun : LoopExit(t)
             PROVE  ControlOK'
  OBVIOUS
<1>1. ASSUME NEW t \in Tun, LoopExit(t) PROVE ControlOK'
  BY <1>1 DEF LoopExit, ControlOK
<1>2. CASE Crash
  BY <1>2 DEF Crash, Restrict, NoFrame, NoCall, ControlOK, UpSteps
<1>3. CASE Start
  BY <1>3 DEF Start, NoCall, host, ControlOK, UpSteps
<1> QED
  BY <1>1, <1>2, <1>3

LEMMA StepControl == TypeOK /\ ControlOK /\ [Next]_vars => ControlOK'
<1>1. ControlOK /\ UNCHANGED vars => ControlOK'
  BY DEF vars, ControlOK
<1> QED
  BY <1>1, ReceiveControl, WorkControl, ProcessControl DEF Next

-----------------------------------------------------------------------------
(* Every device in use has one owner.                                       *)

\* Taking an entry out and signalling its loop.
LEMMA RemoveOwned ==
  ASSUME TypeOK, LoopsOwned, NEW c \in DOMAIN active, Remove(c), UNCHANGED frame
  PROVE  LoopsOwned'
<1> DEFINE u == active[c].tun
<1>1. u \in Tun /\ dev[u].state = "running"
  BY DEF TypeOK, IsMap, ActiveConnection, LoopsOwned
<1>2. /\ DOMAIN active' = DOMAIN active \ {c}
      /\ \A d \in DOMAIN active' : active'[d] = active[d]
  BY DEF Remove, Restrict
<1>3. \A t \in Tun : dev'[t].state = IF t = u THEN "stopping" ELSE dev[t].state
  BY <1>1 DEF Remove, TypeOK, Device
<1> QED
  BY <1>1, <1>2, <1>3 DEF LoopsOwned

\* A device that no entry refers to and `up` does not hold is let go.
LEMMA CloseOwned ==
  ASSUME TypeOK, LoopsOwned, NEW t \in Tun, Close(t),
         dev[t].state \in {"held", "stopping"},
         frame'.tun = IF dev[t].state = "held" THEN NoTun ELSE frame.tun,
         UNCHANGED active
  PROVE  LoopsOwned'
<1>1. \A u \in Tun : dev'[u] = IF u = t THEN Free ELSE dev[u]
  BY DEF Close, TypeOK
<1> QED
  BY <1>1, ConstantsAssumption DEF LoopsOwned, Free

LEMMA AbortOwned ==
  ASSUME TypeOK, LoopsOwned, frame.tun \in Tun, Abort
  PROVE  LoopsOwned'
<1>1. dev[frame.tun].state = "held" /\ frame'.tun = NoTun
  BY DEF LoopsOwned, Abort, Return, NoFrame
<1> QED
  BY <1>1, CloseOwned DEF Abort

LEMMA SameOwned ==
  ASSUME LoopsOwned, UNCHANGED <<dev, active>>, frame'.tun = frame.tun
  PROVE  LoopsOwned'
  BY DEF LoopsOwned

LEMMA StepOwned == IInv /\ [Next]_vars => LoopsOwned'
<1> SUFFICES ASSUME TypeOK, ControlOK, LoopsOwned, [Next]_vars PROVE LoopsOwned'
  BY DEF IInv
<1> USE DEF host
<1>1. ASSUME NEW c \in Conn, NEW b \in Backend, Up(c, b) PROVE LoopsOwned'
  BY <1>1, SameOwned DEF Up
<1>2. ASSUME NEW b \in Backend, UpAll(b) PROVE LoopsOwned'
  BY <1>2, SameOwned DEF UpAll
<1>3. ASSUME NEW c \in Conn, NEW b \in Backend, SwitchBackend(c, b) PROVE LoopsOwned'
  BY <1>3, SameOwned, RemoveOwned DEF SwitchBackend
<1>4. ASSUME NEW c \in Conn, Down(c) PROVE LoopsOwned'
  BY <1>4, SameOwned, RemoveOwned DEF Down
<1>5. CASE DownAll \/ Shutdown \/ Status
  BY <1>5, SameOwned DEF DownAll, Shutdown, Status
<1>6. CASE EnterUp
  <2>1. frame'.tun = frame.tun
    BY <1>6 DEF EnterUp, Return, NoFrame, ControlOK, TypeOK, Frame
  <2> QED
    BY <1>6, <2>1, SameOwned DEF EnterUp, Goto
<1>7. CASE Resolve
  BY <1>7, SameOwned DEF Resolve, Goto, Return, NoFrame, ControlOK
<1>8. CASE CreateTun
  <2>1. frame.tun = NoTun
    BY <1>8 DEF CreateTun, ControlOK
  <2>2. ASSUME NEW t \in Tun, dev[t].state = "free",
               dev' = [dev EXCEPT ![t].state = "held"],
               frame' = [frame EXCEPT !.tun = t], Goto("configure")
        PROVE  LoopsOwned'
    <3>1. frame'.tun = t
      BY <2>2 DEF TypeOK, Frame
    <3>2. \A u \in Tun : dev'[u].state = IF u = t THEN "held" ELSE dev[u].state
      BY <2>2 DEF TypeOK, Device
    <3> QED
      BY <2>1, <2>2, <3>1, <3>2, ConstantsAssumption DEF LoopsOwned, Goto
  <2>3. ASSUME Return("error"), UNCHANGED <<config, active, call, dev>>
        PROVE  LoopsOwned'
    BY <2>1, <2>3, SameOwned DEF Return, NoFrame
  <2> QED
    BY <1>8, <2>2, <2>3 DEF CreateTun
<1>9. CASE Configure
  BY <1>9, SameOwned, AbortOwned DEF Configure, Goto, ControlOK, TypeOK, Frame
<1>10. CASE ApplyDns
  <2>1. frame'.tun = frame.tun
    BY <1>10 DEF ApplyDns, NoDnsApplied, ApplyNetworksetup, DetectFails, ApplyResolvConf, WriteCut,
                 ApplyResolvectl, TypeOK, Frame
  <2> QED
    BY <1>10, <2>1, SameOwned DEF ApplyDns, Goto
<1>11. CASE BindSocket
  <2>1. frame.tun \in Tun /\ frame.wg.port \in Port \cup {0}
    BY <1>11 DEF BindSocket, ControlOK, TypeOK, Frame, WgConfig
  <2>2. ASSUME dev' = [dev EXCEPT ![frame.tun].port = frame.wg.port], Goto("spawn"),
               UNCHANGED frame
        PROVE  LoopsOwned'
    <3>1. \A u \in Tun : dev'[u].state = dev[u].state
      BY <2>1, <2>2 DEF TypeOK, Device
    <3> QED
      BY <2>2, <3>1 DEF LoopsOwned, Goto
  <2> QED
    BY <1>11, <2>1, <2>2, AbortOwned DEF BindSocket
<1>12. CASE SpawnLoop
  <2> DEFINE u == frame.tun
             n == call.conn
  <2>1. u \in Tun /\ n \notin DOMAIN active /\ dev[u].state = "held"
    BY <1>12 DEF SpawnLoop, ControlOK, TypeOK, Frame, UpSteps, LoopsOwned
  <2>2. ASSUME dev' = [dev EXCEPT ![u].state = "running"],
               active' = [c \in DOMAIN active \cup {n} |->
                            IF c = n THEN [tun |-> u, backend |-> call.backend,
                                           dns |-> frame.dns]
                                     ELSE active[c]],
               Return("ok")
        PROVE  LoopsOwned'
    <3>1. frame'.tun = NoTun
      BY <2>2 DEF Return, NoFrame
    <3>2. \A t \in Tun : dev'[t].state = IF t = u THEN "running" ELSE dev[t].state
      BY <2>1, <2>2 DEF TypeOK, Device
    <3>3. /\ DOMAIN active' = DOMAIN active \cup {n}
          /\ active'[n].tun = u
          /\ \A c \in DOMAIN active : active'[c] = active[c]
      BY <2>1, <2>2
    <3>4. \A c \in DOMAIN active : active[c].tun # u
      BY <2>1 DEF LoopsOwned
    <3>5. \A t \in Tun : dev'[t].state = "running"
                          <=> \E c \in DOMAIN active' : active'[c].tun = t
      BY <2>1, <3>2, <3>3 DEF LoopsOwned
    <3>6. \A t \in Tun : dev'[t].state = "held" <=> frame'.tun = t
      BY <2>1, <3>1, <3>2, ConstantsAssumption DEF LoopsOwned
    <3>7. \A c, d \in DOMAIN active' : active'[c].tun = active'[d].tun => c = d
      BY <3>3, <3>4 DEF LoopsOwned
    <3> QED
      BY <3>5, <3>6, <3>7 DEF LoopsOwned
  <2> QED
    BY <1>12, <2>1, <2>2, AbortOwned DEF SpawnLoop
<1>13. CASE UpAllNext
  BY <1>13, SameOwned DEF UpAllNext
<1>14. CASE DownAllNext
  BY <1>14, SameOwned, RemoveOwned DEF DownAllNext, ControlOK
<1>15. ASSUME NEW t \in Tun, LoopExit(t) PROVE LoopsOwned'
  BY <1>15, CloseOwned DEF LoopExit
<1>16. CASE Crash
  <2>1. /\ DOMAIN active' = {} /\ frame'.tun = NoTun
        /\ \A t \in Tun : dev'[t].state = "free"
    BY <1>16 DEF Crash, Restrict, NoFrame, Free
  <2> QED
    BY <2>1, ConstantsAssumption DEF LoopsOwned
<1>17. CASE Start
  <2>1. /\ DOMAIN active' = {} /\ frame'.tun = NoTun
        /\ \A t \in Tun : dev'[t].state = "free"
    BY <1>17 DEF Start, ControlOK, Free
  <2> QED
    BY <2>1, ConstantsAssumption DEF LoopsOwned
<1>18. CASE UNCHANGED vars
  BY <1>18, SameOwned DEF vars
<1> QED
  BY <1>1, <1>2, <1>3, <1>4, <1>5, <1>6, <1>7, <1>8, <1>9, <1>10, <1>11, <1>12,
     <1>13, <1>14, <1>15, <1>16, <1>17, <1>18 DEF Next, Receive, Work

-----------------------------------------------------------------------------

LEMMA Inductive == Spec => []IInv
<1>1. IInv /\ [Next]_vars => IInv'
  BY StepType, StepControl, StepOwned DEF IInv
<1> QED
  BY InitIInv, <1>1, PTL DEF Spec

\* Whatever the host refuses and whenever loops exit, every variable keeps its type.
THEOREM TypeCorrect == Spec => []TypeOK
<1>1. IInv => TypeOK
  BY DEF IInv
<1> QED
  BY Inductive, <1>1, PTL

\* The locals of up, up_all and down_all (mod.rs:83-263) fit their place after every
\* await.
THEOREM ControlCorrect == Spec => []ControlOK
<1>1. IInv => ControlOK
  BY DEF IInv
<1> QED
  BY Inductive, <1>1, PTL

\* No packet loop without its map entry, no entry without its loop, no device with
\* two owners, for any number of connections and any failure (mod.rs:83-233).
THEOREM Ownership == Spec => []LoopsOwned
<1>1. IInv => LoopsOwned
  BY DEF IInv
<1> QED
  BY Inductive, <1>1, PTL

-----------------------------------------------------------------------------
(* Replies.                                                                 *)

\* A step that does not end a command, or ends it with something else than "ok".
LEMMA SilentReply ==
  ASSUME step' # "idle" \/ reply' # "ok"
  PROVE  ReplyTruthful'
  BY DEF ReplyTruthful

LEMMA StepReply == IInv /\ ReplyTruthful /\ [Next]_vars => ReplyTruthful'
<1> SUFFICES ASSUME TypeOK, ControlOK, ReplyTruthful, [Next]_vars PROVE ReplyTruthful'
  BY DEF IInv
<1> USE DEF host
<1>1. ASSUME NEW c \in Conn, NEW b \in Backend,
             Up(c, b) \/ UpAll(b) \/ SwitchBackend(c, b)
      PROVE  ReplyTruthful'
  BY <1>1, SilentReply DEF Up, UpAll, SwitchBackend
<1>2. ASSUME NEW b \in Backend, UpAll(b) PROVE ReplyTruthful'
  BY <1>2, SilentReply DEF UpAll
<1>3. ASSUME NEW c \in Conn, Down(c) PROVE ReplyTruthful'
  BY <1>3 DEF Down, Begin, Remove, Restrict, ReplyTruthful
<1>4. CASE DownAll \/ Shutdown \/ Status
  BY <1>4, SilentReply DEF DownAll, Shutdown, Status, Begin, ReplyTruthful
<1>5. CASE EnterUp \/ Resolve \/ CreateTun \/ ApplyDns
  BY <1>5, SilentReply DEF EnterUp, Resolve, CreateTun, ApplyDns, Return, Goto
<1>6. CASE Configure \/ BindSocket
  BY <1>6, SilentReply DEF Configure, BindSocket, Abort, Return, Goto
<1>7. CASE SpawnLoop
  <2>1. CASE Return("ok")
    <3>1. /\ call' = call /\ call.conn \in DOMAIN active'
          /\ active'[call.conn].backend = call.backend
      BY <1>7, <2>1 DEF SpawnLoop, Abort, Return
    <3>2. call.cmd \in {"Up", "UpAll", "SwitchBackend"}
      BY <1>7 DEF SpawnLoop, ControlOK, UpSteps
    <3> QED
      BY <2>1, <3>1, <3>2 DEF Return, ReplyTruthful
  <2>2. CASE Abort
    BY <2>2, SilentReply DEF Abort, Return
  <2> QED
    BY <1>7, <2>1, <2>2 DEF SpawnLoop
<1>8. CASE UpAllNext
  BY <1>8, SilentReply DEF UpAllNext, ControlOK, ReplyTruthful
<1>9. CASE DownAllNext
  BY <1>9, SilentReply DEF DownAllNext, ControlOK, ReplyTruthful
<1>10. ASSUME NEW t \in Tun, LoopExit(t) PROVE ReplyTruthful'
  BY <1>10 DEF LoopExit, ReplyTruthful
<1>11. CASE Crash \/ Start
  BY <1>11, SilentReply DEF Crash, Start
<1>12. CASE UNCHANGED vars
  BY <1>12 DEF vars, ReplyTruthful
<1> QED
  BY <1>1, <1>2, <1>3, <1>4, <1>5, <1>6, <1>7, <1>8, <1>9, <1>10, <1>11, <1>12
     DEF Next, Receive, Work

\* An Ok of the daemon is true at the moment it is sent (daemon.rs:407-462).
THEOREM RepliesTruthful == Spec => []ReplyTruthful
<1>1. Init => ReplyTruthful
  BY DEF Init, ReplyTruthful
<1> QED
  BY Inductive, <1>1, StepReply, PTL DEF Spec

-----------------------------------------------------------------------------
(* The manager implements Tunnels.                                          *)

\* The abstract view depends on the entries and on which devices are stopping.
LEMMA SameView ==
  ASSUME UNCHANGED active,
         \A t \in Tun : (dev'[t].state = "stopping") <=> (dev[t].state = "stopping")
  PROVE  UNCHANGED <<Serving, Closing>>
  BY DEF Serving, Closing

LEMMA RemoveView ==
  ASSUME TypeOK, LoopsOwned, NEW c \in DOMAIN active, Remove(c)
  PROVE  Promise!Disconnect(c)
<1> DEFINE u == active[c].tun
<1>1. u \in Tun /\ c \in DOMAIN Serving /\ Serving[c].tun = u
  BY DEF TypeOK, IsMap, ActiveConnection, Serving
<1>2. /\ DOMAIN active' = DOMAIN active \ {c}
      /\ \A d \in DOMAIN active' : active'[d] = active[d]
  BY DEF Remove, Restrict
<1>3. \A t \in Tun : dev'[t].state = IF t = u THEN "stopping" ELSE dev[t].state
  BY <1>1 DEF Remove, TypeOK, Device
<1>4. Serving' = [d \in DOMAIN Serving \ {c} |-> Serving[d]]
  BY <1>2 DEF Serving
<1>5. Closing' = Closing \cup {u}
  BY <1>1, <1>3 DEF Closing
<1> QED
  BY <1>1, <1>4, <1>5 DEF Promise!Disconnect

LEMMA CloseView ==
  ASSUME TypeOK, NEW t \in Tun, Close(t), UNCHANGED active
  PROVE  Promise!Release(t) \/ UNCHANGED <<Serving, Closing>>
<1>1. \A u \in Tun : dev'[u] = IF u = t THEN Free ELSE dev[u]
  BY DEF Close, TypeOK
<1>2. Closing' = Closing \ {t} /\ Serving' = Serving
  BY <1>1 DEF Closing, Serving, Free
<1> QED
  BY <1>2 DEF Promise!Release

LEMMA SpawnView ==
  ASSUME TypeOK, ControlOK, LoopsOwned, SpawnLoop, ~Abort
  PROVE  Promise!Connect(call.conn, call.backend, frame.tun)
<1> DEFINE u == frame.tun
           n == call.conn
<1>1. u \in Tun /\ n \notin DOMAIN active /\ dev[u].state = "held"
  BY DEF SpawnLoop, ControlOK, TypeOK, Frame, UpSteps, LoopsOwned
<1>2. ~Promise!InUse(u) /\ n \notin DOMAIN Serving
  BY <1>1 DEF Promise!InUse, Serving, Closing, LoopsOwned
<1>3. \A t \in Tun : dev'[t].state = IF t = u THEN "running" ELSE dev[t].state
  BY <1>1 DEF SpawnLoop, TypeOK, Device
<1>4. Closing' = Closing
  BY <1>1, <1>3 DEF Closing
<1>5. /\ DOMAIN active' = DOMAIN active \cup {n}
      /\ active'[n].tun = u /\ active'[n].backend = call.backend
      /\ \A c \in DOMAIN active : active'[c] = active[c]
  BY <1>1 DEF SpawnLoop
<1>6. Serving' = [d \in DOMAIN Serving \cup {n} |->
                    IF d = n THEN [backend |-> call.backend, tun |-> u] ELSE Serving[d]]
  BY <1>1, <1>5 DEF Serving
<1> QED
  BY <1>2, <1>4, <1>6 DEF Promise!Connect

LEMMA StepView == IInv /\ [Next]_vars => [Promise!Next]_<<Serving, Closing>>
<1> SUFFICES ASSUME TypeOK, ControlOK, LoopsOwned, [Next]_vars
             PROVE  Promise!Next \/ UNCHANGED <<Serving, Closing>>
  BY DEF IInv
<1> USE DEF host
<1>1. ASSUME UNCHANGED <<active, dev>> PROVE UNCHANGED <<Serving, Closing>>
  BY <1>1, SameView
<1>2. ASSUME NEW c \in DOMAIN active, Remove(c) PROVE Promise!Next
  BY <1>2, RemoveView DEF Promise!Next, TypeOK, IsMap
<1>3. ASSUME NEW t \in Tun, Close(t), UNCHANGED active
      PROVE  Promise!Next \/ UNCHANGED <<Serving, Closing>>
  BY <1>3, CloseView DEF Promise!Next
<1>4. ASSUME Abort, frame.tun \in Tun
      PROVE  Promise!Next \/ UNCHANGED <<Serving, Closing>>
  BY <1>3, <1>4 DEF Abort
<1>5. CASE Receive
  BY <1>1, <1>2, <1>5
     DEF Receive, Up, SwitchBackend, UpAll, Down, DownAll, Shutdown, Status
<1>6. CASE EnterUp \/ Resolve \/ ApplyDns \/ UpAllNext
  BY <1>1, <1>6 DEF EnterUp, Resolve, ApplyDns, UpAllNext, Goto
<1>7. CASE CreateTun
  <2>1. \A t \in Tun : (dev'[t].state = "stopping") <=> (dev[t].state = "stopping")
    BY <1>7 DEF CreateTun, TypeOK, Device
  <2> QED
    BY <1>7, <2>1, SameView DEF CreateTun, Goto
<1>8. CASE Configure
  BY <1>1, <1>4, <1>8 DEF Configure, Goto, ControlOK, TypeOK, Frame
<1>9. CASE BindSocket
  <2>1. frame.tun \in Tun
    BY <1>9 DEF BindSocket, ControlOK, TypeOK, Frame
  <2>2. ASSUME dev' = [dev EXCEPT ![frame.tun].port = frame.wg.port], Goto("spawn")
        PROVE  UNCHANGED <<Serving, Closing>>
    <3>1. \A t \in Tun : dev'[t].state = dev[t].state
      BY <2>1, <2>2 DEF TypeOK, Device
    <3> QED
      BY <2>2, <3>1, SameView DEF Goto
  <2> QED
    BY <1>4, <1>9, <2>1, <2>2 DEF BindSocket
<1>10. CASE SpawnLoop
  <2>1. /\ call.conn \in Conn /\ call.backend \in Backend /\ frame.tun \in Tun
    BY <1>10 DEF SpawnLoop, ControlOK, TypeOK, Frame, UpSteps
  <2> QED
    BY <1>4, <1>10, <2>1, SpawnView DEF Promise!Next
<1>11. CASE DownAllNext
  BY <1>1, <1>2, <1>11 DEF DownAllNext, ControlOK
<1>12. ASSUME NEW t \in Tun, LoopExit(t)
       PROVE  Promise!Next \/ UNCHANGED <<Serving, Closing>>
  BY <1>3, <1>12 DEF LoopExit
<1>13. CASE Crash \/ Start
  <2>1. DOMAIN active' = {} /\ \A t \in Tun : dev'[t].state = "free"
    BY <1>13 DEF Crash, Start, Restrict, Free, ControlOK
  <2>2. DOMAIN Serving' = {} /\ Closing' = {}
    BY <2>1 DEF Serving, Closing
  <2> QED
    BY <2>2 DEF Promise!Next, Promise!Lose
<1>14. CASE UNCHANGED vars
  BY <1>1, <1>14 DEF vars
<1> QED
  BY <1>5, <1>6, <1>7, <1>8, <1>9, <1>10, <1>11, <1>12, <1>13, <1>14 DEF Next, Work

\* The manager implements Tunnels: at most one loop per connection, no device handed
\* out before the loop that had it let go, a new backend only after a disconnect
\* (mod.rs:83-233, daemon.rs:439-451).  Fairness is left to TLC.
THEOREM Refinement == Spec => KeepsPromise
<1>1. Init => Promise!Init
  BY DEF Init, Promise!Init, Serving, Closing, Free
<1> QED
  BY <1>1, Inductive, StepView, PTL DEF Spec, KeepsPromise, Promise!Spec, Promise!vars

-----------------------------------------------------------------------------
(* Other connections while `up` works, their resolver settings, and routes. *)

\* In resolv.conf, what was given to an entry or to `up` in progress is there.
DnsInv ==
  Platform = "resolvconf" /\ "cut" \notin Faults =>
    /\ \A c \in DOMAIN active :
         active[c].dns.kind # "none" => \E f \in Field : c \in sys[f]
    /\ frame.dns.kind # "none" =>
         step \in {"bind", "spawn"} /\ \E f \in Field : call.conn \in sys[f]

\* A destination belongs to one connection in every config, and removing a route
\* does not fail.
RoutesStay ==
  /\ "unroute" \notin Faults
  /\ \A cf, cg \in Configs :
       /\ DOMAIN cf = DOMAIN cg
       /\ \A c \in DOMAIN cf : /\ cf[c].first = cg[c].first
                               /\ cf[c].first \subseteq cf[c].all
                               /\ \A d \in DOMAIN cg \ {c} : cf[c].first \cap cg[d].all = {}

\* Where `up` has added the routes.
Routed == step \in {"dns", "bind", "spawn"}

\* A route is that of an entry or of `up` in progress, and leads to its device.
RouteInv ==
  /\ config \in Configs
  /\ DOMAIN active \subseteq DOMAIN config
  /\ step \in UpSteps \ {"enter"} =>
       call.conn \in DOMAIN config /\ frame.wg = config[call.conn]
  /\ \A c \in DOMAIN active : \A r \in config[c].first : route[r] = active[c].tun
  /\ Routed => \A r \in frame.wg.first : route[r] = frame.tun
  /\ \A r \in Cidr : route[r] # NoTun =>
       \/ \E c \in DOMAIN active : r \in config[c].first
       \/ Routed /\ r \in frame.wg.first

\* Only a sets DNS, its port is the kernel's choice, and after its settings are in
\* place nothing fails and nothing kills the daemon.
OnlyResolver(a) ==
  /\ \A cf \in Configs : /\ \A c \in DOMAIN cf \ {a} : cf[c].dns = {}
                         /\ a \in DOMAIN cf => cf[a].port = 0
  /\ Faults \cap {"dns", "revert", "cut", "bind", "backend", "crash"} = {}
  /\ Backend \subseteq Compiled

\* What the DNS state d does not give back is as the user configured it in resolver s.
Restorable(d, s) ==
  /\ d.kind = "global" => d.saved = Base /\ \A f \in Field \ d.fields : s[f] = {}
  /\ d.kind # "global" => s = Base

RestoreInv(a) ==
  /\ config \in Configs
  /\ step \in UpSteps \ {"enter"} => frame.wg = config[call.conn] /\ call.conn \in DOMAIN config
  /\ \A c \in DOMAIN active : active[c].dns.kind # "none" => c = a /\ Restorable(active[c].dns, sys)
  /\ frame.dns.kind # "none" =>
       step \in {"bind", "spawn"} /\ call.conn = a /\ Restorable(frame.dns, sys)
  /\ (frame.dns.kind = "none" /\ \A c \in DOMAIN active : active[c].dns.kind = "none") =>
       sys = Base

LEMMA NoFrameParts == NoFrame.dns.kind = "none" /\ NoFrame.tun = NoTun
  BY DEF NoFrame, NoDns

LEMMA FrameParts ==
  ASSUME TypeOK
  PROVE  /\ \A t \in Tun : /\ [frame EXCEPT !.tun = t].dns = frame.dns
                           /\ [frame EXCEPT !.tun = t].wg = frame.wg
                           /\ [frame EXCEPT !.tun = t].tun = t
         /\ \A w \in WgConfig : /\ [frame EXCEPT !.wg = w].dns = frame.dns
                                /\ [frame EXCEPT !.wg = w].wg = w
         /\ \A d \in DnsState : /\ [frame EXCEPT !.dns = d].dns = d
                                /\ [frame EXCEPT !.dns = d].wg = frame.wg
                                /\ [frame EXCEPT !.dns = d].tun = frame.tun
  BY DEF TypeOK, Frame

\* What an entry's device is.
LEMMA EntryDevice ==
  ASSUME TypeOK, LoopsOwned, NEW c \in DOMAIN active
  PROVE  /\ active[c].tun \in Tun /\ active[c].tun # NoTun /\ c \in Conn
         /\ dev[active[c].tun].state = "running" /\ active[c].tun # frame.tun
<1>1. active[c].tun \in Tun /\ c \in Conn
  BY DEF TypeOK, IsMap, ActiveConnection
<1>2. dev[active[c].tun].state = "running"
  BY <1>1 DEF LoopsOwned
<1> QED
  BY <1>1, <1>2, ConstantsAssumption DEF LoopsOwned

LEMMA RemoveEntries ==
  ASSUME NEW c \in DOMAIN active, Remove(c)
  PROVE  /\ DOMAIN active' = DOMAIN active \ {c}
         /\ \A d \in DOMAIN active' : active'[d] = active[d]
  BY DEF Remove, Restrict

LEMMA SpawnEntries ==
  ASSUME ControlOK, SpawnLoop, ~Abort
  PROVE  /\ call.conn \notin DOMAIN active /\ DOMAIN active' = DOMAIN active \cup {call.conn}
         /\ active'[call.conn].tun = frame.tun /\ active'[call.conn].dns = frame.dns
         /\ \A d \in DOMAIN active : active'[d] = active[d]
         /\ UNCHANGED <<config, route, sys, link, call>> /\ frame' = NoFrame
         /\ step' \in {"up_all", "idle"}
<1>1. call.conn \notin DOMAIN active
  BY DEF SpawnLoop, ControlOK, UpSteps
<1> QED
  BY <1>1 DEF SpawnLoop, Return

\* Closing another device.
LEMMA CloseSpares ==
  ASSUME TypeOK, NEW t \in Tun, NEW u \in Tun, Close(t), u # t
  PROVE  \A r \in Cidr : (route[r] = u => route'[r] = u) /\ (route'[r] # NoTun => route'[r] = route[r])
  BY DEF Close, RoutesWithout, TypeOK

LEMMA StepSpares ==
  ASSUME IInv, [Next]_vars, step \in UpSteps, step' # "exited", NEW c \in DOMAIN active
  PROVE  /\ c \in DOMAIN active' /\ active'[c] = active[c]
         /\ \A r \in Cidr : route[r] = active[c].tun => route'[r] = route[r]
<1> USE DEF host
<1>1. TypeOK /\ ControlOK /\ LoopsOwned
  BY DEF IInv
<1>2. /\ active[c].tun \in Tun /\ active[c].tun # NoTun
      /\ dev[active[c].tun].state = "running" /\ active[c].tun # frame.tun
  BY <1>1, EntryDevice
<1> DEFINE Spared == /\ c \in DOMAIN active' /\ active'[c] = active[c]
                     /\ \A r \in Cidr : route[r] = active[c].tun => route'[r] = route[r]
<1>3. ASSUME UNCHANGED <<active, route>> PROVE Spared
  BY <1>3
<1>4. ASSUME Abort, frame.tun \in Tun PROVE Spared
  BY <1>1, <1>2, <1>4, CloseSpares DEF Abort
<1>5. CASE EnterUp \/ Resolve \/ CreateTun \/ ApplyDns
  BY <1>3, <1>5 DEF EnterUp, Resolve, CreateTun, ApplyDns, Goto
<1>6. CASE Configure
  <2>1. frame.tun \in Tun
    BY <1>1, <1>6 DEF Configure, ControlOK, TypeOK, Frame
  <2>2. ASSUME Goto("dns"),
               route' = [r \in Cidr |-> IF r \in frame.wg.first /\ route[r] = NoTun
                                        THEN frame.tun ELSE route[r]]
        PROVE  Spared
    BY <1>2, <2>2 DEF Goto
  <2> QED
    BY <1>4, <1>6, <2>1, <2>2 DEF Configure
<1>7. CASE BindSocket
  <2>1. frame.tun \in Tun
    BY <1>1, <1>7 DEF BindSocket, ControlOK, TypeOK, Frame
  <2> QED
    BY <1>3, <1>4, <1>7, <2>1 DEF BindSocket, Goto
<1>8. CASE SpawnLoop
  <2>1. frame.tun \in Tun
    BY <1>1, <1>8 DEF SpawnLoop, ControlOK, TypeOK, Frame
  <2>2. CASE ~Abort
    BY <1>1, <1>8, <2>2, SpawnEntries
  <2> QED
    BY <1>4, <2>1, <2>2
<1>9. CASE \E t \in Tun : LoopExit(t)
  BY <1>1, <1>2, <1>9, CloseSpares DEF LoopExit
<1>10. CASE UNCHANGED vars
  BY <1>3, <1>10 DEF vars
<1>11. ~Receive /\ ~UpAllNext /\ ~DownAllNext /\ ~Start /\ ~Crash
  BY DEF Receive, Up, SwitchBackend, UpAll, Down, DownAll, Shutdown, Status, Begin, UpAllNext,
         DownAllNext, Start, Crash, UpSteps
<1> QED
  BY <1>5, <1>6, <1>7, <1>8, <1>9, <1>10, <1>11 DEF Next, Work

\* While `up` works on one connection, and however it fails, the entries and the routes
\* of the others stay as they are (the early returns of up, the "File exists" case of
\* add_route).
THEOREM OthersSpared == Spec => UpSparesOthers
<1>1. IInv /\ [Next]_vars =>
        [(step \in UpSteps /\ step' # "exited") =>
           \A c \in DOMAIN active :
             /\ c \in DOMAIN active' /\ active'[c] = active[c]
             /\ \A r \in Cidr : (route[r] = active[c].tun => route'[r] = route[r])]_vars
  BY StepSpares
<1> QED
  BY <1>1, Inductive, PTL DEF Spec, UpSparesOthers

\* An entry may go: its settings are given back only when no other entry has any.
LEMMA RemoveDnsOf ==
  ASSUME NEW c \in DOMAIN active, Remove(c)
  PROVE  \/ UNCHANGED <<sys, link>>
         \/ /\ RemoveDns(active[c].dns) /\ active[c].dns.kind # "none"
            /\ \A d \in DOMAIN active' : active'[d].dns.kind = "none"
  BY RemoveEntries DEF Remove, RevertDns, DnsElsewhere

LEMMA StepDns == IInv /\ DnsInv /\ [Next]_vars => DnsInv'
<1> SUFFICES ASSUME TypeOK, ControlOK, LoopsOwned, DnsInv, [Next]_vars,
                    Platform = "resolvconf", "cut" \notin Faults
             PROVE  DnsInv'
  BY DEF IInv, DnsInv
<1> USE DEF host
<1> DEFINE Kept == /\ \A c \in DOMAIN active' :
                        active'[c].dns.kind # "none" => \E f \in Field : c \in sys'[f]
                   /\ frame'.dns.kind # "none" =>
                        step' \in {"bind", "spawn"} /\ \E f \in Field : call'.conn \in sys'[f]
<1>1. SUFFICES Kept
  BY DEF DnsInv
<1>2. /\ \A c \in DOMAIN active :
           active[c].dns.kind # "none" => \E f \in Field : c \in sys[f]
      /\ frame.dns.kind # "none" =>
           step \in {"bind", "spawn"} /\ \E f \in Field : call.conn \in sys[f]
  BY DEF DnsInv
<1>3. ASSUME UNCHANGED <<active, sys>>, frame'.dns.kind = "none" PROVE Kept
  BY <1>2, <1>3
<1>4. ASSUME UNCHANGED <<active, sys>>, frame'.dns = frame.dns, step \notin {"bind", "spawn"}
      PROVE  Kept
  BY <1>2, <1>4
<1>5. ASSUME NEW c \in DOMAIN active, Remove(c), UNCHANGED frame,
             step \notin {"bind", "spawn"}
      PROVE  Kept
  <2>1. /\ DOMAIN active' = DOMAIN active \ {c}
        /\ \A d \in DOMAIN active' : active'[d] = active[d]
    BY <1>5, RemoveEntries
  <2>2. CASE UNCHANGED sys
    BY <1>2, <1>5, <2>1, <2>2
  <2>3. CASE \A d \in DOMAIN active' : active'[d].dns.kind = "none"
    BY <1>2, <1>5, <2>3
  <2> QED
    BY <1>5, <2>2, <2>3, RemoveDnsOf
<1>6. ASSUME Abort PROVE Kept
  BY <1>3, <1>6, NoFrameParts DEF Abort, Return
<1>7. CASE Receive
  <2>1. step = "idle" /\ UNCHANGED frame
    BY <1>7 DEF Receive, Up, SwitchBackend, UpAll, Down, DownAll, Shutdown, Status, Begin
  <2>2. UNCHANGED <<active, sys>> \/ \E c \in DOMAIN active : Remove(c)
    BY <1>7 DEF Receive, Up, SwitchBackend, UpAll, Down, DownAll, Shutdown, Status
  <2> QED
    BY <1>4, <1>5, <2>1, <2>2
<1>8. CASE EnterUp \/ Resolve \/ CreateTun
  <2>1. /\ UNCHANGED <<active, sys>> /\ step \notin {"bind", "spawn"}
    BY <1>8 DEF EnterUp, Resolve, CreateTun, Goto
  <2>2. \/ UNCHANGED frame \/ frame' = NoFrame
        \/ frame' = [frame EXCEPT !.wg = config[call.conn]]
        \/ \E t \in Tun : frame' = [frame EXCEPT !.tun = t]
    BY <1>8 DEF EnterUp, Resolve, CreateTun, Return
  <2>3. frame'.dns = frame.dns \/ frame'.dns.kind = "none"
    BY <2>2, NoFrameParts DEF TypeOK, Frame
  <2> QED
    BY <1>3, <1>4, <2>1, <2>3
<1>9. CASE Configure
  BY <1>4, <1>6, <1>9 DEF Configure, Goto
<1>10. CASE ApplyDns
  <2>1. UNCHANGED <<active, call>> /\ step = "dns" /\ step' = "bind"
    BY <1>10 DEF ApplyDns, Goto
  <2>2. call.conn \in Conn /\ frame.wg.dns \subseteq Field
    BY <2>1 DEF ControlOK, TypeOK, Frame, UpSteps, WgConfig
  <2>3. CASE UNCHANGED <<sys, frame>>
    BY <1>4, <2>1, <2>3
  <2>4. CASE ~UNCHANGED <<sys, frame>>
    <3>1. /\ frame.wg.dns # {}
          /\ sys' = [f \in Field |-> IF f \in frame.wg.dns THEN sys[f] \cup {call.conn}
                                     ELSE sys[f]]
      BY <1>10, <2>4, <1>1 DEF ApplyDns, NoDnsApplied, ApplyResolvConf, WriteCut
    <3>2. \A f \in Field : sys[f] \subseteq sys'[f]
      BY <3>1
    <3>3. \E f \in Field : call.conn \in sys'[f]
      BY <2>2, <3>1
    <3> QED
      BY <1>2, <2>1, <3>2, <3>3
  <2> QED
    BY <2>3, <2>4
<1>11. CASE BindSocket
  <2>1. CASE Abort
    BY <1>6, <2>1
  <2>2. CASE Goto("spawn") /\ UNCHANGED <<sys, frame>>
    BY <1>2, <1>11, <2>2 DEF BindSocket, Goto
  <2> QED
    BY <1>11, <2>1, <2>2 DEF BindSocket
<1>12. CASE SpawnLoop
  <2>1. CASE ~Abort
    <3>1. /\ DOMAIN active' = DOMAIN active \cup {call.conn}
          /\ active'[call.conn].dns = frame.dns
          /\ \A d \in DOMAIN active : active'[d] = active[d]
          /\ UNCHANGED <<sys, call>> /\ frame' = NoFrame
      BY <1>12, <2>1, SpawnEntries
    <3> QED
      BY <1>2, <3>1, NoFrameParts
  <2> QED
    BY <1>6, <2>1
<1>13. CASE UpAllNext
  BY <1>4, <1>13 DEF UpAllNext
<1>14. CASE DownAllNext
  BY <1>4, <1>5, <1>14 DEF DownAllNext, ControlOK
<1>15. CASE \E t \in Tun : LoopExit(t)
  BY <1>2, <1>15 DEF LoopExit
<1>16. CASE Crash
  BY <1>2, <1>16, NoFrameParts DEF Crash, Restrict
<1>17. CASE Start
  BY <1>4, <1>17 DEF Start
<1>18. CASE UNCHANGED vars
  BY <1>2, <1>18 DEF vars
<1> QED
  BY <1>7, <1>8, <1>9, <1>10, <1>11, <1>12, <1>13, <1>14, <1>15, <1>16, <1>17, <1>18
     DEF Next, Work

\* On the resolv.conf platform a connection that was given a DNS state has its settings in
\* the file for as long as it is up: `down` writes the saved copy back only when no other
\* active connection holds a state (mod.rs, the DNS part of down).
THEOREM DnsKept == Spec => []ActiveDnsInEffect
<1>1. Init => DnsInv
  BY NoFrameParts DEF Init, DnsInv
<1>2. DnsInv => ActiveDnsInEffect
  BY DEF DnsInv, ActiveDnsInEffect
<1> QED
  BY <1>1, <1>2, Inductive, StepDns, PTL DEF Spec

-----------------------------------------------------------------------------

\* What RoutesStay says of two configs the daemon may have.
LEMMA Destinations ==
  ASSUME RoutesStay, TypeOK, config \in Configs, NEW cg \in Configs
  PROVE  /\ DOMAIN cg = DOMAIN config
         /\ \A c \in DOMAIN config :
              /\ cg[c].first = config[c].first /\ config[c] \in WgConfig
              /\ config[c].first \subseteq config[c].all /\ config[c].first \subseteq Cidr
              /\ \A d \in DOMAIN config \ {c} : config[d].first \cap config[c].all = {}
<1>1. \A c \in DOMAIN config : config[c] \in WgConfig
  BY DEF TypeOK, IsMap
<1> QED
  BY <1>1 DEF RoutesStay, WgConfig

\* Closing a device that routes nothing for an entry or for `up` in progress, and the end of
\* an `up` that fails.
LEMMA CloseRoutes ==
  ASSUME TypeOK, LoopsOwned, RouteInv, NEW t \in Tun, Close(t), UNCHANGED <<config, active>>,
         dev[t].state # "running",
         \/ t = frame.tun /\ step' \notin UpSteps
         \/ t # frame.tun /\ UNCHANGED <<step, call, frame>>
  PROVE  RouteInv'
<1>1. \A c \in DOMAIN active : active[c].tun # t /\ active[c].tun \in Tun /\ active[c].tun # NoTun
  BY EntryDevice
<1>2. route' = [r \in Cidr |-> IF route[r] = t THEN NoTun ELSE route[r]]
  BY DEF Close, RoutesWithout
<1>3. \A c \in DOMAIN active : c \in DOMAIN config /\ config[c].first \subseteq Cidr
  BY DEF RouteInv, TypeOK, IsMap, WgConfig
<1>4. \A c \in DOMAIN active' : \A r \in config'[c].first : route'[r] = active'[c].tun
  BY <1>1, <1>2, <1>3 DEF RouteInv
<1>5. frame.wg.first \subseteq Cidr
  BY DEF TypeOK, Frame, WgConfig
<1>6. CASE t = frame.tun /\ step' \notin UpSteps
  <2>1. \A r \in Cidr : route'[r] # NoTun => \E c \in DOMAIN active : r \in config[c].first
    BY <1>2, <1>6, ConstantsAssumption DEF RouteInv
  <2> QED
    BY <1>4, <1>6, <2>1 DEF RouteInv, Routed, UpSteps
<1>7. CASE t # frame.tun /\ UNCHANGED <<step, call, frame>>
  <2>1. Routed' => \A r \in frame'.wg.first : route'[r] = frame'.tun
    BY <1>2, <1>5, <1>7 DEF RouteInv, Routed
  <2>2. \A r \in Cidr : route'[r] # NoTun => route'[r] = route[r]
    BY <1>2
  <2> QED
    BY <1>4, <1>7, <2>1, <2>2 DEF RouteInv, Routed
<1> QED
  BY <1>6, <1>7

LEMMA RemoveRoute ==
  ASSUME RoutesStay, TypeOK, LoopsOwned, RouteInv, NEW c \in DOMAIN active, Remove(c),
         UNCHANGED config, step \notin UpSteps, step' \notin UpSteps \ {"enter"}
  PROVE  RouteInv'
<1>1. /\ DOMAIN active' = DOMAIN active \ {c}
      /\ \A d \in DOMAIN active' : active'[d] = active[d]
  BY RemoveEntries
<1>2. config \in Configs /\ c \in DOMAIN config
  BY DEF RouteInv
<1>3. \E removed \in {config[c].all} :
        route' = [r \in Cidr |-> IF r \in removed THEN NoTun ELSE route[r]]
  BY <1>2 DEF Remove, RemoveRoutes, RoutesStay
<1>4. route' = [r \in Cidr |-> IF r \in config[c].all THEN NoTun ELSE route[r]]
  BY <1>3
<1>5. \A d \in DOMAIN active' : \A r \in config[d].first :
        r \in Cidr /\ r \notin config[c].all /\ route[r] = active[d].tun
  BY <1>1, <1>2, Destinations DEF RouteInv
<1>6. \A r \in Cidr : route'[r] # NoTun =>
        \E d \in DOMAIN active' : r \in config[d].first
  <2>1. ASSUME NEW r \in Cidr, route'[r] # NoTun
        PROVE  \E d \in DOMAIN active' : r \in config[d].first
    <3>1. r \notin config[c].all /\ route[r] # NoTun
      BY <1>4, <2>1
    <3>2. PICK d \in DOMAIN active : r \in config[d].first
      BY <3>1 DEF RouteInv, Routed, UpSteps
    <3>3. d # c
      BY <1>2, <3>1, <3>2, Destinations
    <3> QED
      BY <1>1, <3>2, <3>3
  <2> QED
    BY <2>1
<1> QED
  BY <1>1, <1>2, <1>4, <1>5, <1>6 DEF RouteInv, Routed, UpSteps

LEMMA ConfigureRoute ==
  ASSUME RoutesStay, TypeOK, ControlOK, LoopsOwned, RouteInv, step = "configure", Goto("dns"),
         UNCHANGED frame,
         route' = [r \in Cidr |-> IF r \in frame.wg.first /\ route[r] = NoTun
                                  THEN frame.tun ELSE route[r]]
  PROVE  RouteInv'
<1>1. /\ config \in Configs /\ call.conn \in DOMAIN config /\ frame.wg = config[call.conn]
      /\ call.conn \notin DOMAIN active
  BY DEF RouteInv, UpSteps, ControlOK
<1>2. \A c \in DOMAIN active : \A r \in config[c].first : r \notin frame.wg.first /\ r \in Cidr
  BY <1>1, Destinations DEF RouteInv
<1>3. \A r \in frame.wg.first : r \in Cidr
  BY <1>1, Destinations
<1>4. \A r \in frame.wg.first : route[r] = NoTun
  BY <1>2, <1>3 DEF RouteInv, Routed
<1>5. \A c \in DOMAIN active : \A r \in config[c].first : route'[r] = active[c].tun
  BY <1>2 DEF RouteInv
<1>6. \A r \in frame.wg.first : route'[r] = frame.tun
  BY <1>3, <1>4
<1>7. \A r \in Cidr : route'[r] # NoTun =>
        (\E c \in DOMAIN active : r \in config[c].first) \/ r \in frame.wg.first
  BY DEF RouteInv, Routed
<1> QED
  BY <1>1, <1>5, <1>6, <1>7 DEF RouteInv, Routed, UpSteps, Goto

LEMMA StepRoute == RoutesStay /\ IInv /\ RouteInv /\ [Next]_vars => RouteInv'
<1> SUFFICES ASSUME RoutesStay, TypeOK, ControlOK, LoopsOwned, RouteInv, [Next]_vars
             PROVE  RouteInv'
  BY DEF IInv
<1> USE DEF host
<1>1. ASSUME UNCHANGED <<active, route, config>>, step \notin UpSteps \ {"enter"},
             step' \notin UpSteps \ {"enter"}
      PROVE  RouteInv'
  BY <1>1 DEF RouteInv, Routed, UpSteps
<1>2. ASSUME UNCHANGED <<active, route, config, call>>,
             frame'.wg = frame.wg, Routed => frame'.tun = frame.tun, Routed' <=> Routed,
             step' \in UpSteps \ {"enter"} => step \in UpSteps \ {"enter"}
      PROVE  RouteInv'
  BY <1>2 DEF RouteInv
<1>3. ASSUME UNCHANGED <<active, route, config>>, step' \notin UpSteps, ~Routed
      PROVE  RouteInv'
  BY <1>3 DEF RouteInv, Routed, UpSteps
<1>4. ASSUME Abort, frame.tun \in Tun, step \in UpSteps PROVE RouteInv'
  <2>1. dev[frame.tun].state = "held" /\ step' \notin UpSteps
    BY <1>4 DEF LoopsOwned, Abort, Return, UpSteps
  <2> QED
    BY <1>4, <2>1, CloseRoutes DEF Abort
<1>5. CASE Receive
  <2>1. step = "idle" /\ step' \notin UpSteps \ {"enter"}
    BY <1>5 DEF Receive, Up, SwitchBackend, UpAll, Down, DownAll, Shutdown, Status, Begin,
                UpSteps
  <2>2. \/ UNCHANGED <<active, route>> /\ Reload
        \/ UNCHANGED config /\ \E c \in DOMAIN active : Remove(c)
    BY <1>5 DEF Receive, Up, SwitchBackend, UpAll, Down, DownAll, Shutdown, Status, Reload
  <2>3. CASE UNCHANGED <<active, route>> /\ Reload
    <3>1. config \in Configs /\ config' \in Configs
      BY <2>3 DEF Reload, RouteInv
    <3>2. DOMAIN config' = DOMAIN config
          /\ \A c \in DOMAIN config : config'[c].first = config[c].first
      BY <3>1, Destinations
    <3> QED
      BY <2>1, <2>3, <3>1, <3>2 DEF RouteInv, Routed, UpSteps
  <2> QED
    BY <2>1, <2>2, <2>3, RemoveRoute DEF UpSteps
<1>6. CASE EnterUp
  <2>1. CASE CanStart(call.conn) /\ Goto("resolve")
             /\ frame' = [frame EXCEPT !.wg = config[call.conn]]
    <3>1. frame'.wg = config[call.conn]
      BY <2>1 DEF TypeOK, Frame
    <3> QED
      BY <1>6, <2>1, <3>1 DEF EnterUp, CanStart, Goto, RouteInv, Routed
  <2>2. CASE Return("error") /\ UNCHANGED <<config, active, call>>
    BY <1>3, <1>6, <2>2 DEF EnterUp, Return, Routed, UpSteps
  <2> QED
    BY <1>6, <2>1, <2>2 DEF EnterUp
<1>7. CASE Resolve
  <2>1. CASE Goto("create") /\ UNCHANGED frame
    BY <1>2, <1>7, <2>1 DEF Resolve, Goto, Routed, UpSteps
  <2>2. CASE Return("error") /\ UNCHANGED <<config, active, call>>
    BY <1>3, <1>7, <2>2 DEF Resolve, Return, Routed, UpSteps
  <2> QED
    BY <1>7, <2>1, <2>2 DEF Resolve
<1>8. CASE CreateTun
  <2>1. ASSUME NEW t \in Tun, Goto("configure"), frame' = [frame EXCEPT !.tun = t]
        PROVE  RouteInv'
    <3>1. frame'.wg = frame.wg
      BY <2>1, FrameParts
    <3> QED
      BY <1>2, <1>8, <2>1, <3>1 DEF CreateTun, Goto, Routed, UpSteps
  <2>2. CASE Return("error") /\ UNCHANGED <<config, active, call>>
    BY <1>3, <1>8, <2>2 DEF CreateTun, Return, Routed, UpSteps
  <2> QED
    BY <1>8, <2>1, <2>2 DEF CreateTun
<1>9. CASE Configure
  <2>1. frame.tun \in Tun /\ step \in UpSteps
    BY <1>9 DEF Configure, ControlOK, TypeOK, Frame, UpSteps
  <2> QED
    BY <1>4, <1>9, <2>1, ConfigureRoute DEF Configure
<1>10. CASE ApplyDns
  <2>1. frame'.wg = frame.wg /\ frame'.tun = frame.tun
    BY <1>10 DEF ApplyDns, NoDnsApplied, ApplyNetworksetup, DetectFails, ApplyResolvConf, WriteCut,
                 ApplyResolvectl, TypeOK, Frame
  <2> QED
    BY <1>2, <1>10, <2>1 DEF ApplyDns, Goto, Routed, UpSteps
<1>11. CASE BindSocket
  <2>1. frame.tun \in Tun /\ step \in UpSteps
    BY <1>11 DEF BindSocket, ControlOK, TypeOK, Frame, UpSteps
  <2>2. CASE Goto("spawn") /\ UNCHANGED <<route, frame>>
    BY <1>2, <1>11, <2>2 DEF BindSocket, Goto, Routed, UpSteps
  <2> QED
    BY <1>4, <1>11, <2>1, <2>2 DEF BindSocket
<1>12. CASE SpawnLoop
  <2>1. frame.tun \in Tun /\ step = "spawn" /\ step \in UpSteps
    BY <1>12 DEF SpawnLoop, ControlOK, TypeOK, Frame, UpSteps
  <2>2. CASE ~Abort
    <3>1. /\ DOMAIN active' = DOMAIN active \cup {call.conn}
          /\ active'[call.conn].tun = frame.tun
          /\ \A d \in DOMAIN active : active'[d] = active[d]
          /\ UNCHANGED <<config, route>> /\ step' \in {"up_all", "idle"}
      BY <1>12, <2>2, SpawnEntries
    <3>2. call.conn \in DOMAIN config /\ frame.wg = config[call.conn] /\ Routed
      BY <2>1 DEF RouteInv, UpSteps, Routed
    <3>3. \A c \in DOMAIN active' : \A r \in config[c].first : route[r] = active'[c].tun
      BY <3>1, <3>2 DEF RouteInv
    <3>4. \A r \in Cidr : route[r] # NoTun => \E c \in DOMAIN active' : r \in config[c].first
      BY <3>1, <3>2 DEF RouteInv
    <3> QED
      BY <3>1, <3>2, <3>3, <3>4 DEF RouteInv, Routed, UpSteps
  <2> QED
    BY <1>4, <2>1, <2>2
<1>13. CASE UpAllNext
  BY <1>1, <1>13 DEF UpAllNext, UpSteps
<1>14. CASE DownAllNext
  <2>1. step \notin UpSteps /\ step' \notin UpSteps /\ UNCHANGED config
    BY <1>14 DEF DownAllNext, UpSteps
  <2> QED
    BY <1>1, <1>14, <2>1, RemoveRoute DEF DownAllNext, ControlOK
<1>15. ASSUME NEW t \in Tun, LoopExit(t) PROVE RouteInv'
  <2>1. dev[t].state # "running" /\ t # frame.tun
    BY <1>15 DEF LoopExit, LoopsOwned
  <2> QED
    BY <1>15, <2>1, CloseRoutes DEF LoopExit
<1>16. CASE Crash \/ Start
  <2>1. /\ DOMAIN active' = {} /\ config' \in Configs /\ step' \notin UpSteps
        /\ \A r \in Cidr : route'[r] = NoTun
    BY <1>16 DEF Crash, Start, Restrict, ControlOK, RouteInv, UpSteps
  <2> QED
    BY <2>1 DEF RouteInv, Routed, UpSteps
<1>17. CASE UNCHANGED vars
  BY <1>17 DEF vars, RouteInv, Routed
<1> QED
  BY <1>5, <1>6, <1>7, <1>8, <1>9, <1>10, <1>11, <1>12, <1>13, <1>14, <1>15, <1>16, <1>17
     DEF Next, Work

\* While no config ever moves a destination and removals succeed, the routes of a connection
\* that is up lead to its own device: a loop that was told to stop owns no route, so its late
\* exit takes none with it (mod.rs, the route loops of up and down).
THEOREM RoutesKept == RoutesStay => (Spec => []RoutesFollowActive)
<1> SUFFICES ASSUME RoutesStay PROVE Spec => []RoutesFollowActive
  OBVIOUS
<1>1. Init => RouteInv
  BY ConstantsAssumption DEF Init, RouteInv, Routed, UpSteps
<1>2. RouteInv => RoutesFollowActive
  BY DEF RouteInv, RoutesFollowActive
<1>3. IInv /\ RouteInv /\ [Next]_vars => RouteInv'
  BY StepRoute
<1> QED
  BY <1>1, <1>2, <1>3, Inductive, PTL DEF Spec

-----------------------------------------------------------------------------

\* `up` is past the DNS step only while nothing is taken down.
LEMMA BindKeeps ==
  ASSUME IInv, [Next]_vars, step' \in {"bind", "spawn"}
  PROVE  UNCHANGED active
<1> USE DEF host
<1>1. CASE Receive
  BY <1>1 DEF Receive, Up, SwitchBackend, UpAll, Down, DownAll, Shutdown, Status, Begin
<1>2. CASE EnterUp \/ Resolve \/ CreateTun \/ Configure \/ ApplyDns \/ BindSocket
  BY <1>2 DEF EnterUp, Resolve, CreateTun, Configure, ApplyDns, BindSocket, Abort, Goto
<1>3. CASE SpawnLoop \/ UpAllNext
  BY <1>3 DEF SpawnLoop, UpAllNext, Abort, Return
<1>4. CASE DownAllNext
  BY <1>4 DEF DownAllNext
<1>5. CASE (\E t \in Tun : LoopExit(t)) \/ Crash \/ Start \/ UNCHANGED vars
  BY <1>5 DEF LoopExit, Crash, Start, vars
<1> QED
  BY <1>1, <1>2, <1>3, <1>4, <1>5 DEF Next, Work

\* Giving back what a restorable state saved.
LEMMA RemoveRestores ==
  ASSUME TypeOK, NEW d \in DnsState, d.kind # "none", Restorable(d, sys), RemoveDns(d),
         Faults \cap {"revert", "cut"} = {}
  PROVE  sys' = Base
<1>1. CASE d.kind = "global"
  <2>1. d.saved = [f \in Field |-> {}] /\ \A f \in Field \ d.fields : sys[f] = {}
    BY <1>1 DEF Restorable, Base
  <2>2. CASE Platform = "macos"
    <3>1. sys' = [f \in Field |-> IF f \in d.fields THEN d.saved[f] ELSE sys[f]]
      BY <1>1, <2>2 DEF RemoveDns, RevertService
    <3> QED
      BY <2>1, <3>1 DEF Base
  <2> QED
    BY <1>1, <2>1, <2>2 DEF RemoveDns, RevertLinux, WriteCut, Base
<1>2. CASE d.kind # "global"
  <2>1. sys = Base
    BY <1>2 DEF Restorable
  <2> QED
    BY <1>2, <2>1 DEF RemoveDns, RevertService, RevertLinux, WriteCut
<1> QED
  BY <1>1, <1>2

LEMMA ApplyRestorable ==
  ASSUME NEW a \in Conn, OnlyResolver(a), TypeOK, ControlOK, RestoreInv(a), ApplyDns
  PROVE  /\ frame'.wg = frame.wg
         /\ \/ UNCHANGED <<sys, frame>>
            \/ /\ call.conn = a /\ frame'.dns.kind # "none" /\ Restorable(frame'.dns, sys')
               /\ \A c \in DOMAIN active : active[c].dns.kind = "none"
<1> DEFINE wanted == frame.wg.dns
<1>1. /\ step = "dns" /\ call.conn \notin DOMAIN active /\ frame.dns.kind = "none"
      /\ config \in Configs /\ call.conn \in DOMAIN config /\ frame.wg = config[call.conn]
  BY DEF ApplyDns, RestoreInv, ControlOK, UpSteps
<1>2. CASE wanted = {}
  BY <1>2 DEF ApplyDns, NoDnsApplied
<1>3. CASE wanted # {}
  <2>1. call.conn = a /\ \A c \in DOMAIN active : active[c].dns.kind = "none"
    BY <1>1, <1>3 DEF OnlyResolver, RestoreInv
  <2>2. sys = Base /\ "dns" \notin Faults /\ "cut" \notin Faults
    BY <1>1, <2>1 DEF OnlyResolver, RestoreInv
  <2>3. wanted \subseteq Field
    BY DEF TypeOK, Frame, WgConfig
  <2>4. \A F \in SUBSET Field :
          LET d == [kind |-> "global", iface |-> NoTun, fields |-> F, saved |-> sys] IN
          d \in DnsState /\ d.kind = "global" /\ d.fields = F /\ d.saved = Base
    BY <2>2 DEF DnsState, TypeOK
  <2>5. CASE Platform = "macos"
    <3>1. /\ sys' = [f \in Field |-> IF f \in wanted THEN {call.conn} ELSE sys[f]]
          /\ frame' = [frame EXCEPT !.dns = [kind |-> "global", iface |-> NoTun,
                                            fields |-> wanted, saved |-> sys]]
      BY <1>3, <2>2, <2>5 DEF ApplyDns, ApplyNetworksetup, DetectFails
    <3>2. \A f \in Field \ wanted : sys'[f] = {}
      BY <2>2, <3>1 DEF Base
    <3>3. /\ frame'.wg = frame.wg /\ frame'.dns.kind = "global"
          /\ frame'.dns.fields = wanted /\ frame'.dns.saved = Base
      BY <2>3, <2>4, <3>1, FrameParts
    <3> QED
      BY <2>1, <3>2, <3>3 DEF Restorable
  <2>6. ASSUME ApplyResolvConf(wanted)
        PROVE  frame'.wg = frame.wg /\ frame'.dns.kind = "global" /\ Restorable(frame'.dns, sys')
    <3>1. frame' = [frame EXCEPT !.dns = [kind |-> "global", iface |-> NoTun,
                                         fields |-> Field, saved |-> sys]]
      BY <2>2, <2>6 DEF ApplyResolvConf, WriteCut
    <3>2. /\ frame'.wg = frame.wg /\ frame'.dns.kind = "global"
          /\ frame'.dns.fields = Field /\ frame'.dns.saved = Base
      BY <2>4, <3>1, FrameParts
    <3> QED
      BY <3>2 DEF Restorable
  <2>7. CASE Platform = "resolvconf"
    BY <1>3, <2>1, <2>6, <2>7 DEF ApplyDns
  <2>8. CASE Platform = "resolved" /\ ~ApplyResolvConf(wanted)
    <3>1. /\ frame' = [frame EXCEPT !.dns = [kind |-> "link", iface |-> frame.tun,
                                            fields |-> {}, saved |-> Base]]
          /\ UNCHANGED sys
      BY <1>3, <2>8 DEF ApplyDns, ApplyResolvectl
    <3>2. frame'.wg = frame.wg /\ frame'.dns.kind = "link"
      BY <3>1 DEF TypeOK, Frame
    <3> QED
      BY <2>1, <2>2, <3>1, <3>2 DEF Restorable
  <2> QED
    BY <2>1, <2>5, <2>6, <2>7, <2>8, ConstantsAssumption
<1> QED
  BY <1>2, <1>3 DEF ApplyDns

LEMMA StepRestore ==
  ASSUME NEW a \in Conn, OnlyResolver(a)
  PROVE  IInv /\ RestoreInv(a) /\ [Next]_vars => RestoreInv(a)'
<1> SUFFICES ASSUME TypeOK, ControlOK, LoopsOwned, RestoreInv(a), [Next]_vars
             PROVE  RestoreInv(a)'
  BY DEF IInv
<1> USE DEF host
<1>1. /\ config \in Configs
      /\ step \in UpSteps \ {"enter"} =>
           frame.wg = config[call.conn] /\ call.conn \in DOMAIN config
      /\ \A c \in DOMAIN active :
           active[c].dns.kind # "none" => c = a /\ Restorable(active[c].dns, sys)
      /\ frame.dns.kind # "none" =>
           step \in {"bind", "spawn"} /\ call.conn = a /\ Restorable(frame.dns, sys)
      /\ (frame.dns.kind = "none" /\ \A c \in DOMAIN active : active[c].dns.kind = "none") =>
           sys = Base
  BY DEF RestoreInv
<1>2. ASSUME UNCHANGED <<active, sys>>, config' \in Configs,
             step' \in UpSteps \ {"enter"} =>
               frame'.wg = config'[call'.conn] /\ call'.conn \in DOMAIN config',
             frame.dns.kind = "none", frame'.dns.kind = "none"
      PROVE  RestoreInv(a)'
  BY <1>1, <1>2 DEF RestoreInv, Restorable
<1>3. ASSUME NEW c \in DOMAIN active, Remove(c), UNCHANGED <<config, frame>>,
             step \notin {"bind", "spawn"}, step' \notin UpSteps \ {"enter"}
      PROVE  RestoreInv(a)'
  <2>1. /\ DOMAIN active' = DOMAIN active \ {c}
        /\ \A d \in DOMAIN active' : active'[d] = active[d]
    BY <1>3, RemoveEntries
  <2>2. frame'.dns.kind = "none"
    BY <1>1, <1>3
  <2>3. CASE active[c].dns.kind = "none"
    <3>1. UNCHANGED sys
      BY <1>3, <2>3 DEF Remove, RevertDns
    <3>2. (\A d \in DOMAIN active' : active'[d].dns.kind = "none") => sys' = Base
      BY <1>1, <2>1, <2>2, <2>3, <3>1, <1>3
    <3>3. \A d \in DOMAIN active' :
            active'[d].dns.kind # "none" => d = a /\ Restorable(active'[d].dns, sys')
      BY <1>1, <2>1, <3>1 DEF Restorable
    <3> QED
      BY <1>1, <1>3, <2>2, <3>2, <3>3 DEF RestoreInv
  <2>4. CASE active[c].dns.kind # "none"
    <3>1. \A d \in DOMAIN active' : active[d].dns.kind = "none" /\ active'[d].dns.kind = "none"
      BY <1>1, <2>1, <2>4
    <3>2. RemoveDns(active[c].dns)
      BY <1>3, <2>1, <2>4, <3>1 DEF Remove, RevertDns, DnsElsewhere
    <3>3. active[c].dns \in DnsState
      BY DEF TypeOK, IsMap, ActiveConnection
    <3>4. sys' = Base
      BY <1>1, <2>4, <3>2, <3>3, RemoveRestores DEF OnlyResolver
    <3> QED
      BY <1>1, <1>3, <2>2, <3>1, <3>4 DEF RestoreInv
  <2> QED
    BY <2>3, <2>4
<1>4. ASSUME Abort, frame.dns.kind = "none" PROVE RestoreInv(a)'
  BY <1>1, <1>2, <1>4, NoFrameParts DEF Abort, Return, UpSteps
<1>5. CASE Receive
  <2>1. /\ step = "idle" /\ UNCHANGED frame /\ step' \notin UpSteps \ {"enter"}
    BY <1>5 DEF Receive, Up, SwitchBackend, UpAll, Down, DownAll, Shutdown, Status, Begin,
                UpSteps
  <2>2. \/ UNCHANGED <<active, sys>> /\ config' \in Configs
        \/ UNCHANGED config /\ \E c \in DOMAIN active : Remove(c)
    BY <1>1, <1>5
       DEF Receive, Up, SwitchBackend, UpAll, Down, DownAll, Shutdown, Status, Reload
  <2> QED
    BY <1>1, <1>2, <1>3, <2>1, <2>2
<1>6. CASE EnterUp
  <2>1. UNCHANGED <<active, sys, config, call>> /\ frame.dns.kind = "none"
    BY <1>1, <1>6 DEF EnterUp, Goto
  <2>2. CASE CanStart(call.conn) /\ frame' = [frame EXCEPT !.wg = config[call.conn]]
    <3>1. frame'.wg = config[call.conn] /\ frame'.dns = frame.dns
      BY <2>2 DEF TypeOK, Frame
    <3> QED
      BY <1>1, <1>2, <2>1, <2>2, <3>1 DEF CanStart
  <2>3. CASE Return("error")
    BY <1>1, <1>2, <2>1, <2>3, NoFrameParts DEF Return, UpSteps
  <2> QED
    BY <1>6, <2>2, <2>3 DEF EnterUp
<1>7. CASE Resolve \/ CreateTun
  <2>1. /\ UNCHANGED <<active, sys, config, call>> /\ frame.dns.kind = "none"
        /\ step \in UpSteps \ {"enter"}
    BY <1>1, <1>7 DEF Resolve, CreateTun, Goto, UpSteps
  <2>2. \/ step' \notin UpSteps /\ frame' = NoFrame
        \/ UNCHANGED frame
        \/ \E t \in Tun : frame' = [frame EXCEPT !.tun = t]
    BY <1>7 DEF Resolve, CreateTun, Return, UpSteps
  <2>3. ASSUME NEW t \in Tun, frame' = [frame EXCEPT !.tun = t]
        PROVE  frame'.dns = frame.dns /\ frame'.wg = frame.wg
    BY <2>3, FrameParts
  <2>4. \/ step' \notin UpSteps /\ frame'.dns.kind = "none"
        \/ frame'.dns = frame.dns /\ frame'.wg = frame.wg
    BY <2>2, <2>3, NoFrameParts
  <2> QED
    BY <1>1, <1>2, <2>1, <2>4
<1>8. CASE Configure
  <2>1. frame.dns.kind = "none" /\ step \in UpSteps \ {"enter"}
    BY <1>1, <1>8 DEF Configure, UpSteps
  <2> QED
    BY <1>1, <1>2, <1>4, <1>8, <2>1 DEF Configure, Goto
<1>9. CASE ApplyDns
  <2>1. /\ UNCHANGED <<active, config, call>> /\ step = "dns" /\ step' = "bind"
        /\ frame.dns.kind = "none" /\ frame'.wg = frame.wg
        /\ frame.wg = config[call.conn] /\ call.conn \in DOMAIN config
    BY <1>1, <1>9, ApplyRestorable DEF ApplyDns, Goto, UpSteps
  <2>2. CASE UNCHANGED <<sys, frame>>
    BY <1>1, <1>2, <2>1, <2>2
  <2>3. CASE /\ call.conn = a /\ frame'.dns.kind # "none" /\ Restorable(frame'.dns, sys')
             /\ \A c \in DOMAIN active : active[c].dns.kind = "none"
    BY <1>1, <2>1, <2>3 DEF RestoreInv
  <2> QED
    BY <1>9, <2>2, <2>3, ApplyRestorable
<1>10. CASE BindSocket
  <2>1. /\ step = "bind" /\ frame.wg = config[call.conn] /\ call.conn \in DOMAIN config
    BY <1>1, <1>10 DEF BindSocket, UpSteps
  <2>2. CASE Goto("spawn") /\ UNCHANGED <<sys, frame>>
    BY <1>1, <2>1, <2>2 DEF Goto, RestoreInv, Restorable
  <2>3. CASE Abort /\ (PortTaken(frame.wg.port) \/ "bind" \in Faults)
    <3>1. PortTaken(frame.wg.port)
      BY <2>3 DEF OnlyResolver
    <3>2. frame.wg.port # 0
      BY <3>1 DEF PortTaken
    <3>3. call.conn # a
      BY <1>1, <2>1, <3>2 DEF OnlyResolver
    <3> QED
      BY <1>1, <1>4, <2>3, <3>3
  <2> QED
    BY <1>10, <2>2, <2>3 DEF BindSocket
<1>11. CASE SpawnLoop
  <2>1. step = "spawn" /\ call.backend \in Compiled /\ "backend" \notin Faults
    BY <1>11 DEF SpawnLoop, ControlOK, UpSteps, OnlyResolver
  <2>2. CASE ~Abort
    <3>1. /\ call.conn \notin DOMAIN active
          /\ DOMAIN active' = DOMAIN active \cup {call.conn}
          /\ active'[call.conn].dns = frame.dns
          /\ \A d \in DOMAIN active : active'[d] = active[d]
          /\ UNCHANGED <<config, sys>> /\ frame' = NoFrame /\ step' \in {"up_all", "idle"}
      BY <1>11, <2>2, SpawnEntries
    <3>2. \A c \in DOMAIN active' :
            active'[c].dns.kind # "none" => c = a /\ Restorable(active'[c].dns, sys')
      BY <1>1, <3>1 DEF Restorable
    <3>3. (\A c \in DOMAIN active' : active'[c].dns.kind = "none") => sys' = Base
      BY <1>1, <3>1
    <3> QED
      BY <1>1, <3>1, <3>2, <3>3, NoFrameParts DEF RestoreInv, UpSteps
  <2>3. CASE Abort
    <3>1. UNCHANGED active /\ call.conn \notin DOMAIN active
      BY <1>11, <2>1, <2>3 DEF Abort, ControlOK, UpSteps
    <3>2. call.conn \in DOMAIN active'
      BY <1>11, <2>1 DEF SpawnLoop
    <3> QED
      BY <3>1, <3>2
  <2> QED
    BY <2>2, <2>3
<1>12. CASE UpAllNext
  <2>1. UNCHANGED <<active, sys, config, frame>> /\ step = "up_all"
        /\ step' \notin UpSteps \ {"enter"}
    BY <1>12 DEF UpAllNext, UpSteps
  <2> QED
    BY <1>1, <1>2, <2>1
<1>13. CASE DownAllNext
  <2>1. UNCHANGED <<config, frame>> /\ step = "down_all" /\ step' \notin UpSteps
    BY <1>13 DEF DownAllNext, UpSteps
  <2> QED
    BY <1>1, <1>2, <1>3, <1>13, <2>1 DEF DownAllNext, ControlOK
<1>14. CASE (\E t \in Tun : LoopExit(t)) \/ UNCHANGED vars
  BY <1>1, <1>14 DEF LoopExit, vars, RestoreInv, Restorable
<1>15. CASE Start
  BY <1>1, <1>2, <1>15 DEF Start, UpSteps
<1>16. ~Crash
  BY DEF Crash, OnlyResolver
<1> QED
  BY <1>5, <1>6, <1>7, <1>8, <1>9, <1>10, <1>11, <1>12, <1>13, <1>14, <1>15, <1>16
     DEF Next, Work

\* Where one connection alone sets DNS and nothing fails once its settings are in place,
\* taking it down gives the user's resolver back, on each of the three platforms and in
\* whatever order other connections come and go (dns.rs:3-4, remove_dns).
THEOREM DnsRestored == \A a \in Conn : OnlyResolver(a) => (Spec => DownRestoresDns)
<1> SUFFICES ASSUME NEW CONSTANT a \in Conn, OnlyResolver(a) PROVE Spec => DownRestoresDns
  OBVIOUS
<1>1. Init => RestoreInv(a)
  BY NoFrameParts DEF Init, RestoreInv, UpSteps
<1>2. IInv /\ RestoreInv(a) /\ [Next]_vars => RestoreInv(a)'
  BY StepRestore
<1>3. IInv /\ RestoreInv(a) /\ [Next]_vars =>
        [\A c \in DOMAIN active :
           ( /\ c \notin DOMAIN active' /\ step' # "exited"
             /\ active[c].dns.kind # "none"
             /\ \A d \in DOMAIN active' : active'[d].dns.kind = "none" )
           => sys' = Base]_vars
  <2> SUFFICES ASSUME IInv, RestoreInv(a), [Next]_vars, NEW c \in DOMAIN active,
                      c \notin DOMAIN active',
                      \A d \in DOMAIN active' : active'[d].dns.kind = "none"
               PROVE  sys' = Base
    OBVIOUS
  <2>1. RestoreInv(a)'
    BY StepRestore
  <2>2. step' \notin {"bind", "spawn"}
    BY BindKeeps
  <2> QED
    BY <2>1, <2>2 DEF RestoreInv
<1> QED
  BY <1>1, <1>2, <1>3, Inductive, PTL DEF Spec, DownRestoresDns

=============================================================================
