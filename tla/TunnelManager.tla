--------------------------- MODULE TunnelManager ---------------------------
(***************************************************************************)
(* The daemon's TunnelManager (src/ferro-wg-core/src/tunnel/mod.rs), the   *)
(* part of the command handler that drives it (daemon.rs, handle_command)  *)
(* and the host resources it changes: TUN devices, UDP ports, the routing  *)
(* table and the system resolver (tunnel/dns.rs, route.rs, udp.rs,         *)
(* tun_device.rs).                                                         *)
(*                                                                         *)
(* The daemon handles one command at a time, but `up` is a sequence of     *)
(* host calls and awaits, each of which may fail, and every packet loop is *)
(* a task of its own: a loop that was told to stop releases its TUN device *)
(* and its UDP port later, at any point of a later command.  A packet loop *)
(* is identified with the TUN device it owns.                              *)
(*                                                                         *)
(* An operator whose comment starts with "Variant" is not part of the      *)
(* specification: it is the next definition with a plausible bug, kept to  *)
(* see that a property notices it.                                         *)
(***************************************************************************)
EXTENDS Integers, Functions

CONSTANTS
  Conn,       \* connection names
  Order,      \* [Conn -> Int]: the order of the config's BTreeMap keys
  Backend,    \* backend kinds a command may name
  Compiled,   \* the backends whose cargo feature is enabled
  Tun,        \* TUN devices the kernel can hand out
  Cidr,       \* destinations of routes
  Port,       \* non-zero UDP listen ports
  Configs,    \* the validated configs load_app_config may return
  Platform,   \* "macos", "resolved" or "resolvconf" (see dns.rs)
  Faults,     \* which host operations may fail
  NoTun, NoConn, NoBackend

Field == {"servers", "search"}   \* the two halves of a DNS configuration
Base == [f \in Field |-> {}]     \* the resolver as the user configured it

\* What the model keeps of a WgConfig: whether the first peer has an endpoint,
\* the allowed_ips of the first peer and of every peer, the listen port and
\* which DNS fields are set.
WgConfig == [endpoint : BOOLEAN, first : SUBSET Cidr, all : SUBSET Cidr,
             port : Port \cup {0}, dns : SUBSET Field]
NoWg == [endpoint |-> FALSE, first |-> {}, all |-> {}, port |-> 0, dns |-> {}]

\* A HashMap or BTreeMap from connection names to values of S.
IsMap(f, S) == DOMAIN f \subseteq Conn /\ f \in [DOMAIN f -> S]

\* dns::DnsState: `link` is a resolvectl setting on iface, `global` a saved
\* copy of the fields that have to be written back.
DnsState == [kind : {"none", "link", "global"}, iface : Tun \cup {NoTun},
             fields : SUBSET Field, saved : [Field -> SUBSET Conn]]
NoDns == [kind |-> "none", iface |-> NoTun, fields |-> {}, saved |-> Base]

ActiveConnection == [tun : Tun, backend : Backend, dns : DnsState]

\* A device: free, held by `up` before its loop exists, owned by a packet loop,
\* or by one that was told to stop; and the listen port bound beside it.
Device == [state : {"free", "held", "running", "stopping"}, port : Port \cup {0}]

\* The locals of `up`.
Frame == [wg : WgConfig, tun : Tun \cup {NoTun}, dns : DnsState]

Commands == {"Up", "UpAll", "Down", "DownAll", "SwitchBackend", "Shutdown",
             "Status"}
Call == [cmd : Commands, conn : Conn \cup {NoConn}, backend : Backend \cup {NoBackend}]
Steps == {"idle", "up_all", "down_all", "exited", "enter", "resolve", "create",
          "configure", "dns", "bind", "spawn"}
UpSteps == {"enter", "resolve", "create", "configure", "dns", "bind", "spawn"}

ASSUME ConstantsAssumption ==
  /\ Order \in [Conn -> Int]
  /\ \A c, d \in Conn : Order[c] = Order[d] => c = d
  /\ Compiled \subseteq Backend
  /\ NoTun \notin Tun /\ NoConn \notin Conn /\ NoBackend \notin Backend
  /\ Port \subseteq Int \ {0}
  /\ \A cf \in Configs : IsMap(cf, WgConfig)
  /\ Platform \in {"macos", "resolved", "resolvconf"}

VARIABLES
  config,   \* TunnelManager::config
  active,   \* TunnelManager::connections, name -> ActiveConnection
  dev,      \* Tun -> the device, its packet loop and the UDP port it holds
  route,    \* Cidr -> the device it is routed through, or NoTun
  sys,      \* the global resolver: Field -> the tunnels whose settings it has
  link,     \* devices with per-link settings in systemd-resolved
  step,     \* where the daemon task is
  call,     \* the command being handled, or handled last
  todo,     \* names left in the loop of up_all or down_all
  frame,    \* local variables of `up`
  reply     \* outcome of `call`, sent to the client when the task is idle

vars == <<config, active, dev, route, sys, link, step, call, todo, frame, reply>>
host == <<dev, route, sys, link>>

Free == [state |-> "free", port |-> 0]
NoFrame == [wg |-> NoWg, tun |-> NoTun, dns |-> NoDns]
NoCall == [cmd |-> "Status", conn |-> NoConn, backend |-> NoBackend]

Init ==
  /\ config \in Configs
  /\ active = [c \in {} |-> NoDns]
  /\ dev = [t \in Tun |-> Free]
  /\ route = [r \in Cidr |-> NoTun]
  /\ sys = Base
  /\ link = {}
  /\ step = "idle"
  /\ call = NoCall
  /\ todo = {}
  /\ frame = NoFrame
  /\ reply = "none"

-----------------------------------------------------------------------------
(* The kernel's part.  Dropping an AsyncDevice destroys the interface, and  *)
(* with it its routes and its per-link resolver settings; dropping the      *)
(* UdpSocket frees the port.                                                *)

RoutesWithout(t) == [r \in Cidr |-> IF route[r] = t THEN NoTun ELSE route[r]]

Close(t) ==
  /\ dev' = [dev EXCEPT ![t] = Free]
  /\ route' = RoutesWithout(t)
  /\ link' = link \ {t}

PortTaken(p) == p # 0 /\ \E t \in Tun : dev[t].port = p

-----------------------------------------------------------------------------
(* Receiving a command (daemon.rs, process_command and handle_command).     *)

\* reload_config: a config that does not load leaves the old one in place.
Reload == config' \in Configs \cup {config}

Begin(cmd, c, b) ==
  /\ step = "idle"
  /\ call' = [cmd |-> cmd, conn |-> c, backend |-> b]

Up(c, b) ==
  /\ Begin("Up", c, b)
  /\ Reload
  /\ step' = "enter" /\ reply' = "none"
  /\ UNCHANGED <<active, host, todo, frame>>

\* up_all copies the names of the config before its loop.
UpAll(b) ==
  /\ Begin("UpAll", NoConn, b)
  /\ Reload
  /\ step' = "up_all" /\ todo' = DOMAIN config' /\ reply' = "none"
  /\ UNCHANGED <<active, host, frame>>

Status ==
  /\ Begin("Status", NoConn, NoBackend)
  /\ Reload
  /\ reply' = "ok"
  /\ UNCHANGED <<active, host, step, todo, frame>>

DownAll ==
  /\ Begin("DownAll", NoConn, NoBackend)
  /\ step' = "down_all" /\ todo' = DOMAIN active /\ reply' = "none"
  /\ UNCHANGED <<config, active, host, frame>>

\* Shutdown answers Ok and leaves the loop of `run`; dropping the manager
\* then runs down_all.
Shutdown ==
  /\ Begin("Shutdown", NoConn, NoBackend)
  /\ step' = "down_all" /\ todo' = DOMAIN active /\ reply' = "ok"
  /\ UNCHANGED <<config, active, host, frame>>

-----------------------------------------------------------------------------
(* TunnelManager::up, one action per host call.                             *)

\* Variant: up_all carries on after an error and reports success.
ReturnIgnoringErrors(result) ==
  /\ frame' = NoFrame
  /\ IF call.cmd = "UpAll"
       THEN step' = "up_all" /\ UNCHANGED <<todo, reply>>
       ELSE step' = "idle" /\ todo' = {} /\ reply' = result

\* How `up` returns: to the loop of up_all, or with a reply to the client.
Return(result) ==
  /\ frame' = NoFrame
  /\ IF call.cmd = "UpAll" /\ result = "ok"
       THEN step' = "up_all" /\ UNCHANGED <<todo, reply>>
       ELSE step' = "idle" /\ todo' = {} /\ reply' = result

\* An early return after the device was created: the device and the socket
\* are dropped.  Nothing else is undone.
Abort ==
  /\ Close(frame.tun)
  /\ Return("error")
  /\ UNCHANGED <<config, active, sys, call>>

Goto(s) == step' = s /\ UNCHANGED <<config, active, call, todo, reply>>

CanStart(c) ==
  /\ c \notin DOMAIN active
  /\ c \in DOMAIN config
  /\ config[c].endpoint

EnterUp ==
  /\ step = "enter"
  /\ UNCHANGED host
  /\ \/ /\ CanStart(call.conn)
        /\ frame' = [frame EXCEPT !.wg = config[call.conn]]
        /\ Goto("resolve")
     \/ /\ ~CanStart(call.conn)
        /\ Return("error")
        /\ UNCHANGED <<config, active, call>>

\* udp::resolve_endpoint
Resolve ==
  /\ step = "resolve"
  /\ UNCHANGED host
  /\ \/ Goto("create") /\ UNCHANGED frame
     \/ /\ "resolve" \in Faults
        /\ Return("error")
        /\ UNCHANGED <<config, active, call>>

\* tun_device::create_tun
CreateTun ==
  /\ step = "create"
  /\ UNCHANGED <<route, sys, link>>
  /\ \/ \E t \in Tun :
          /\ dev[t].state = "free"
          /\ dev' = [dev EXCEPT ![t].state = "held"]
          /\ frame' = [frame EXCEPT !.tun = t]
          /\ Goto("configure")
     \/ /\ "tun" \in Faults \/ \A t \in Tun : dev[t].state # "free"
        /\ Return("error")
        /\ UNCHANGED <<config, active, call, dev>>

\* Variant: an existing route is replaced.
ConfigureReplacing ==
  /\ step = "configure"
  /\ route' = [r \in Cidr |-> IF r \in frame.wg.first THEN frame.tun ELSE route[r]]
  /\ Goto("dns")
  /\ UNCHANGED <<dev, sys, link, frame>>

\* route::set_interface_addr and route::add_route.  A route that exists is
\* left as it is ("File exists"); the routes added before a failure vanish
\* with the device.
Configure ==
  /\ step = "configure"
  /\ \/ /\ route' = [r \in Cidr |-> IF r \in frame.wg.first /\ route[r] = NoTun
                                    THEN frame.tun ELSE route[r]]
        /\ Goto("dns")
        /\ UNCHANGED <<dev, sys, link, frame>>
     \/ "configure" \in Faults /\ Abort

(***************************************************************************)
(* dns::apply_dns.  Failures are not fatal: `up` goes on without a state.  *)
(***************************************************************************)
NoDnsApplied == UNCHANGED <<sys, link, frame>>

\* Variant: the setting is read after it was replaced.
ApplyNetworksetupReadLate(wanted) ==
  /\ UNCHANGED link
  /\ sys' = [f \in Field |-> IF f \in wanted THEN {call.conn} ELSE sys[f]]
  /\ frame' = [frame EXCEPT !.dns = [kind |-> "global", iface |-> NoTun,
                                    fields |-> wanted, saved |-> sys']]

\* macOS: no default route, or no network service for its interface.
DetectFails == "dns" \in Faults /\ UNCHANGED <<sys, frame>>

\* macOS: for each wanted field, read the service's setting and replace it.
\* A failure on the search domains leaves the servers replaced.
ApplyNetworksetup(wanted) ==
  /\ UNCHANGED link
  /\ \/ /\ sys' = [f \in Field |-> IF f \in wanted THEN {call.conn} ELSE sys[f]]
        /\ frame' = [frame EXCEPT !.dns =
                       [kind |-> "global", iface |-> NoTun, fields |-> wanted,
                        saved |-> sys]]
     \/ DetectFails
     \/ /\ "dns" \in Faults
        /\ UNCHANGED frame
        /\ \/ UNCHANGED sys
           \/ wanted = Field /\ sys' = [sys EXCEPT !["servers"] = {call.conn}]

\* write_resolv_conf: where resolv.conf is a symlink it is written through, and truncated
\* first.  One that cannot be written then is empty: it has no tunnel's settings, and the
\* user's own, which `sys` does not keep, are lost as well.
WriteCut == "cut" \in Faults /\ sys' = Base

\* Linux without resolvectl: keep a copy of /etc/resolv.conf, prepend to it.
ApplyResolvConf(wanted) ==
  \/ /\ sys' = [f \in Field |-> IF f \in wanted THEN sys[f] \cup {call.conn}
                                ELSE sys[f]]
     /\ frame' = [frame EXCEPT !.dns =
                    [kind |-> "global", iface |-> NoTun, fields |-> Field,
                     saved |-> sys]]
  \/ "dns" \in Faults /\ UNCHANGED <<sys, frame>>
  \/ WriteCut /\ UNCHANGED frame

\* Linux with resolvectl: settings of the link; when resolvectl fails, maybe
\* after setting the servers, resolv.conf is edited instead.
ApplyResolvectl(wanted) ==
  \/ /\ link' = link \cup {frame.tun}
     /\ frame' = [frame EXCEPT !.dns =
                    [kind |-> "link", iface |-> frame.tun, fields |-> {},
                     saved |-> Base]]
     /\ UNCHANGED sys
  \/ /\ "resolvectl" \in Faults
     /\ link' \in {link, link \cup {frame.tun}}
     /\ ApplyResolvConf(wanted)

ApplyDns ==
  /\ step = "dns"
  /\ Goto("bind")
  /\ UNCHANGED <<dev, route>>
  /\ LET wanted == frame.wg.dns IN
     IF wanted = {} THEN NoDnsApplied
     ELSE \/ Platform = "macos" /\ ApplyNetworksetup(wanted)
          \/ Platform = "resolvconf" /\ UNCHANGED link /\ ApplyResolvConf(wanted)
          \/ Platform = "resolved" /\ ApplyResolvectl(wanted)

\* udp::create_udp_socket: a listen port held by any loop cannot be bound.
BindSocket ==
  /\ step = "bind"
  /\ \/ /\ ~PortTaken(frame.wg.port)
        /\ dev' = [dev EXCEPT ![frame.tun].port = frame.wg.port]
        /\ Goto("spawn")
        /\ UNCHANGED <<route, sys, link, frame>>
     \/ /\ PortTaken(frame.wg.port) \/ "bind" \in Faults
        /\ Abort

\* Variant: the entry is built after the locals were taken.
SpawnLoopLate ==
  /\ step = "spawn" /\ call.backend \in Compiled
  /\ dev' = [dev EXCEPT ![frame.tun].state = "running"]
  /\ Return("ok")
  /\ active' = [c \in DOMAIN active \cup {call.conn} |->
                  IF c = call.conn
                    THEN [tun |-> frame'.tun, backend |-> call.backend,
                          dns |-> frame'.dns]
                    ELSE active[c]]
  /\ UNCHANGED <<config, route, sys, link, call>>

\* backend::create_backend, the spawn of packet_loop and the insertion into
\* the connection map.
SpawnLoop ==
  /\ step = "spawn"
  /\ \/ /\ call.backend \in Compiled
        /\ dev' = [dev EXCEPT ![frame.tun].state = "running"]
        /\ active' = [c \in DOMAIN active \cup {call.conn} |->
                        IF c = call.conn
                          THEN [tun |-> frame.tun, backend |-> call.backend,
                                dns |-> frame.dns]
                          ELSE active[c]]
        /\ Return("ok")
        /\ UNCHANGED <<config, route, sys, link, call>>
     \/ /\ call.backend \notin Compiled \/ "backend" \in Faults
        /\ Abort

\* Variant: a connection that is up is looked at again and again.
UpAllNextStuck ==
  /\ step = "up_all"
  /\ UNCHANGED <<config, active, host, frame>>
  /\ \/ /\ todo = {}
        /\ step' = "idle" /\ reply' = "ok"
        /\ UNCHANGED <<call, todo>>
     \/ \E c \in todo :
          /\ \A d \in todo : Order[c] <= Order[d]
          /\ UNCHANGED reply
          /\ IF c \in DOMAIN active
               THEN UNCHANGED <<step, call, todo>>
               ELSE /\ step' = "enter" /\ call' = [call EXCEPT !.conn = c]
                    /\ todo' = todo \ {c}

\* The loop of up_all, in key order; it skips what is up already.
UpAllNext ==
  /\ step = "up_all"
  /\ UNCHANGED <<config, active, host, frame>>
  /\ \/ /\ todo = {}
        /\ step' = "idle" /\ reply' = "ok"
        /\ UNCHANGED <<call, todo>>
     \/ \E c \in todo :
          /\ \A d \in todo : Order[c] <= Order[d]
          /\ todo' = todo \ {c}
          /\ UNCHANGED reply
          /\ IF c \in DOMAIN active
               THEN UNCHANGED <<step, call>>
               ELSE step' = "enter" /\ call' = [call EXCEPT !.conn = c]

-----------------------------------------------------------------------------
(* TunnelManager::down.                                                     *)

\* Variant: other connections are not looked at.
DnsElsewhereIgnored(c) == FALSE

DnsElsewhere(c) == \E d \in DOMAIN active \ {c} : active[d].dns.kind # "none"

\* Variant: the routes are left to vanish with the device.
KeepRoutes(c) == UNCHANGED route

\* remove_route for the allowed_ips the config has now, whatever device they
\* go through; each removal may fail and is then skipped.
RemoveRoutes(c) ==
  LET cidrs == IF c \in DOMAIN config THEN config[c].all ELSE {} IN
  \E removed \in IF "unroute" \in Faults THEN SUBSET cidrs ELSE {cidrs} :
    route' = [r \in Cidr |-> IF r \in removed THEN NoTun ELSE route[r]]

\* macOS writes the saved fields back one after the other, up to a failure.
RevertService(d) ==
  /\ d.kind = "global" /\ UNCHANGED link
  /\ \E done \in {d.fields} \cup (IF "revert" \in Faults THEN {{}, d.fields \cap {"servers"}}
                                 ELSE {}) :
       sys' = [f \in Field |-> IF f \in done THEN d.saved[f] ELSE sys[f]]

\* Linux rewrites resolv.conf as a whole, or has resolvectl revert the link.
RevertLinux(d) ==
  \/ /\ d.kind = "global" /\ UNCHANGED link
     /\ \/ sys' = d.saved
        \/ "revert" \in Faults /\ UNCHANGED sys
        \/ WriteCut
  \/ /\ d.kind = "link" /\ UNCHANGED sys
     /\ \/ link' = link \ {d.iface}
        \/ "revert" \in Faults /\ UNCHANGED link

\* dns::remove_dns
RemoveDns(d) == IF Platform = "macos" THEN RevertService(d) ELSE RevertLinux(d)

RevertDns(c) ==
  IF active[c].dns.kind = "none" \/ DnsElsewhere(c)
    THEN UNCHANGED <<sys, link>>
    ELSE RemoveDns(active[c].dns)

\* Variant: the entry goes, the loop is not told.
RemoveUnsignalled(c) ==
  /\ active' = Restrict(active, DOMAIN active \ {c})
  /\ UNCHANGED dev
  /\ RemoveRoutes(c)
  /\ RevertDns(c)

\* The map entry goes, the loop is signalled, routes and DNS are reverted.
\* The loop itself keeps its device and its port until it sees the signal.
Remove(c) ==
  /\ active' = Restrict(active, DOMAIN active \ {c})
  /\ dev' = [dev EXCEPT ![active[c].tun].state = "stopping"]
  /\ RemoveRoutes(c)
  /\ RevertDns(c)

\* down of a name that is not up is an error and changes nothing.
Down(c) ==
  /\ Begin("Down", c, NoBackend)
  /\ \/ c \in DOMAIN active /\ Remove(c) /\ reply' = "ok"
     \/ c \notin DOMAIN active /\ UNCHANGED <<active, host>> /\ reply' = "error"
  /\ UNCHANGED <<config, step, todo, frame>>

\* Variant: the backend of a connection that is up is exchanged in place.
SwitchBackendInPlace(c, b) ==
  /\ Begin("SwitchBackend", c, b)
  /\ \/ /\ c \in DOMAIN active
        /\ active' = [active EXCEPT ![c].backend = b]
        /\ reply' = "ok" /\ UNCHANGED <<host, step>>
     \/ /\ c \notin DOMAIN active
        /\ step' = "enter" /\ reply' = "none" /\ UNCHANGED <<active, host>>
  /\ UNCHANGED <<config, todo, frame>>

\* SwitchBackend: down, whose error is only logged, then up.
SwitchBackend(c, b) ==
  /\ Begin("SwitchBackend", c, b)
  /\ \/ c \in DOMAIN active /\ Remove(c)
     \/ c \notin DOMAIN active /\ UNCHANGED <<active, host>>
  /\ step' = "enter" /\ reply' = "none"
  /\ UNCHANGED <<config, todo, frame>>

\* The loop of down_all, in the map's order, which is arbitrary.
DownAllNext ==
  /\ step = "down_all"
  /\ UNCHANGED <<config, call, frame>>
  /\ \/ \E c \in todo :
          /\ todo' = todo \ {c}
          /\ Remove(c)
          /\ UNCHANGED <<step, reply>>
     \/ /\ todo = {}
        /\ step' = (IF call.cmd = "Shutdown" THEN "exited" ELSE "idle")
        /\ reply' = "ok"
        /\ UNCHANGED <<active, host, todo>>

-----------------------------------------------------------------------------
(* Packet loops and the life of the daemon process.                         *)

\* packet_loop sees the shutdown signal, breaks and drops device and socket.
LoopExit(t) ==
  /\ dev[t].state = "stopping"
  /\ Close(t)
  /\ UNCHANGED <<config, active, sys, step, call, todo, frame, reply>>

\* The process is killed: the kernel takes the devices and ports back, the
\* global resolver keeps what it has.
Crash ==
  /\ "crash" \in Faults
  /\ step # "exited"
  /\ active' = Restrict(active, {})
  /\ dev' = [t \in Tun |-> Free]
  /\ route' = [r \in Cidr |-> NoTun]
  /\ link' = {}
  /\ step' = "exited" /\ call' = NoCall /\ todo' = {} /\ frame' = NoFrame
  /\ reply' = "none"
  /\ UNCHANGED <<config, sys>>

\* The daemon is started again.  With the last process went whatever its loops
\* still held.
Start ==
  /\ step = "exited"
  /\ config' \in Configs
  /\ dev' = [t \in Tun |-> Free]
  /\ route' = [r \in Cidr |-> NoTun]
  /\ link' = {}
  /\ step' = "idle" /\ call' = NoCall /\ reply' = "none"
  /\ UNCHANGED <<active, sys, todo, frame>>

Receive ==
  \/ \E c \in Conn, b \in Backend : Up(c, b) \/ SwitchBackend(c, b)
  \/ \E b \in Backend : UpAll(b)
  \/ \E c \in Conn : Down(c)
  \/ DownAll \/ Shutdown \/ Status

\* The daemon task working on the command it has received.
Work ==
  \/ EnterUp \/ Resolve \/ CreateTun \/ Configure \/ ApplyDns \/ BindSocket
  \/ SpawnLoop \/ UpAllNext \/ DownAllNext

Next ==
  \/ Receive \/ Work
  \/ \E t \in Tun : LoopExit(t)
  \/ Crash \/ Start

Spec == Init /\ [][Next]_vars

\* The runtime polls the daemon task and every signalled loop again and again.
\* Nothing makes a client send a command, or the daemon start or crash.
Fairness ==
  /\ WF_vars(Work)
  /\ \A t \in Tun : WF_vars(LoopExit(t))

FairSpec == Spec /\ Fairness

-----------------------------------------------------------------------------
(* Correctness.                                                             *)

\* Every variable keeps the shape the Rust types give it.
TypeOK ==
  /\ IsMap(config, WgConfig)
  /\ IsMap(active, ActiveConnection)
  /\ dev \in [Tun -> Device]
  /\ route \in [Cidr -> Tun \cup {NoTun}]
  /\ sys \in [Field -> SUBSET Conn]
  /\ link \in SUBSET Tun
  /\ step \in Steps
  /\ call \in Call
  /\ todo \in SUBSET Conn
  /\ frame \in Frame
  /\ reply \in {"none", "ok", "error"}

\* The devices of `up` in progress and of the connection map account for every
\* device that is in use and was not told to stop, one owner for each: no early
\* return of `up` and no order of down, switch and loop exit leaves a packet
\* loop that nothing can shut down, or a map entry without its loop.
LoopsOwned ==
  /\ \A t \in Tun :
       /\ dev[t].state = "running" <=> \E c \in DOMAIN active : active[c].tun = t
       /\ dev[t].state = "held" <=> frame.tun = t
  /\ \A c, d \in DOMAIN active : active[c].tun = active[d].tun => c = d

\* What the client is told is true when it is told (handle_command's Ok).
ReplyTruthful ==
  (step = "idle" /\ reply = "ok") =>
    CASE call.cmd \in {"Up", "SwitchBackend"} ->
           /\ call.conn \in DOMAIN active
           /\ active[call.conn].backend = call.backend
      [] call.cmd = "UpAll" -> DOMAIN config \subseteq DOMAIN active
      [] call.cmd = "Down" -> call.conn \notin DOMAIN active
      [] call.cmd = "DownAll" -> DOMAIN active = {}
      [] OTHER -> TRUE

\* The locals of a command fit the place it has come to, across every await: `up`
\* holds a device exactly between create_tun and its return, it is never in the
\* middle of bringing up what is up already, and the names that up_all and
\* down_all copied still cover everything they have to visit.
ControlOK ==
  /\ frame.tun # NoTun <=> step \in {"configure", "dns", "bind", "spawn"}
  /\ step \in UpSteps =>
       /\ call.cmd \in {"Up", "UpAll", "SwitchBackend"}
       /\ call.conn \in Conn /\ call.backend \in Backend
       /\ step # "enter" => call.conn \notin DOMAIN active
       /\ call.cmd = "UpAll" =>
            DOMAIN config \subseteq DOMAIN active \cup todo \cup {call.conn}
  /\ step = "up_all" =>
       /\ call.cmd = "UpAll" /\ call.backend \in Backend
       /\ DOMAIN config \subseteq DOMAIN active \cup todo
  /\ step = "down_all" =>
       call.cmd \in {"DownAll", "Shutdown"} /\ todo = DOMAIN active
  /\ step = "exited" => DOMAIN active = {}
  /\ call.cmd \in {"Up", "SwitchBackend", "Down"} => call.conn \in Conn

\* While `up` works on one connection, nothing it does or fails to do touches
\* another one's entry or takes a route from it (up's early returns, the
\* "File exists" case of add_route).
UpSparesOthers ==
  [][(step \in UpSteps /\ step' # "exited") =>
       \A c \in DOMAIN active :
         /\ c \in DOMAIN active' /\ active'[c] = active[c]
         /\ \A r \in Cidr : (route[r] = active[c].tun => route'[r] = route[r])]_vars

\* On the resolv.conf platform every connection that was given a DNS state has
\* its settings in the file for as long as it is up, whatever else comes and
\* goes: the "only when no other active connection has DNS" test of `down`.  A write that
\* is cut may lose them.
ActiveDnsInEffect ==
  Platform = "resolvconf" /\ "cut" \notin Faults =>
    \A c \in DOMAIN active :
      active[c].dns.kind # "none" => \E f \in Field : c \in sys[f]

\* dns.rs:3-4: the settings are reverted "cleanly on teardown".  Taking down the
\* last connection that holds a DNS state gives the user's resolver back.
DownRestoresDns ==
  [][\A c \in DOMAIN active :
       ( /\ c \notin DOMAIN active' /\ step' # "exited"
         /\ active[c].dns.kind # "none"
         /\ \A d \in DOMAIN active' : active'[d].dns.kind = "none" )
       => sys' = Base]_vars

\* Every command that is received ends, with a reply or with the process.
CommandsComplete ==
  step \notin {"idle", "exited"} ~> step \in {"idle", "exited"}

\* The abstract view of the manager's state.
Serving == [c \in DOMAIN active |->
              [backend |-> active[c].backend, tun |-> active[c].tun]]
Closing == {t \in Tun : dev[t].state = "stopping"}

Promise == INSTANCE Tunnels WITH serving <- Serving, closing <- Closing

\* The manager implements what Tunnels promises: one loop per connection, no
\* device handed out twice, a backend change only through a disconnect ...
KeepsPromise == Promise!Spec

\* ... and every loop that was told to stop lets go of its device.
KeepsPromiseFairly == Promise!FairSpec

-----------------------------------------------------------------------------
(* Claims that hold only under conditions the runs name.                    *)

\* While no config ever moves a destination, the routes of a connection that is
\* up lead to its own device (mod.rs, the route loops of up and down).
RoutesFollowActive ==
  \A c \in DOMAIN active \cap DOMAIN config : \A r \in config[c].first :
    route[r] = active[c].tun
=============================================================================
