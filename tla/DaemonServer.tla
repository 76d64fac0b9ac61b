---------------------------- MODULE DaemonServer ----------------------------
(***************************************************************************)
(* The daemon as a process and its Unix socket: setup_listener, the accept *)
(* loop of `run` (daemon.rs), the one-shot client protocol of              *)
(* send_command_to (client.rs), and the ways a daemon is started: by hand, *)
(* or by the TUI's spawn_daemon_start (ferro-wg-tui/src/lib.rs).           *)
(*                                                                         *)
(* What a command does to the tunnels is TunnelManager's subject; here a   *)
(* daemon has tunnels or has none.  A Client is one call of                *)
(* send_command_to; its slot is used again when both ends have closed.     *)
(* Operators whose comment starts with "Variant" are not part of the       *)
(* specification, see TunnelManager.                                       *)
(***************************************************************************)
EXTENDS Integers, Sequences, SequencesExt

CONSTANTS
  Daemon,    \* daemon processes, each may run several times
  Client,    \* connections of the CLI and the TUI
  Starter,   \* those that belong to a spawn_daemon_start task
  Command,   \* what the other clients send; "Up" is also SwitchBackend
  MaxPolls,  \* status polls of spawn_daemon_start (6)
  Overlap,   \* may a start begin before an earlier one has settled
  ByHand,    \* is `ferro-wg daemon` also run from the command line: "no",
             \* "stopped" (only when no daemon is serving) or "anytime"
  Faults,    \* "crash", "accept", "sudo"
  NoDaemon, NoClient

ASSUME ServerAssumption ==
  /\ Starter \subseteq Client
  /\ Command \subseteq {"Up", "Down", "Status", "Shutdown", "StreamLogs", "Unknown"}
  /\ MaxPolls \in Nat \ {0} /\ Overlap \in BOOLEAN /\ ByHand \in {"no", "stopped", "anytime"}
  /\ NoDaemon \notin Daemon /\ NoClient \notin Client

VARIABLES
  file,     \* the socket file: the daemon that bound it, and its permissions
  proc,     \* daemon -> where its process is
  tunnels,  \* daemon -> has it tunnels up
  queue,    \* daemon -> connections its listener has not accepted
  serving,  \* daemon -> the connection in handle_connection
  slot,     \* client -> its connection and command
  start     \* starter -> where its task is, and the polls left

vars == <<file, proc, tunnels, queue, serving, slot, start>>

Setup == {"exists", "remove", "bind", "chmod"}
Loop == {"accept", "read", "handle", "reply"}
Alive == Loop \cup {"chmod", "exiting"}   \* the listener exists

Slot == [phase : {"idle", "open", "reset", "done", "gone"}, peer : Daemon \cup {NoDaemon},
         cmd : Command \cup {"Status"}, wrote : BOOLEAN, ran : 0 .. 2,
         result : {"none", "ok", "error", "stream", "NotRunning", "NoResponse", "Io"}]
Unused == [phase |-> "idle", peer |-> NoDaemon, cmd |-> "Status", wrote |-> FALSE,
           ran |-> 0, result |-> "none"]

Started == {"idle", "started", "already", "timeout"}

Init ==
  /\ file = [by |-> NoDaemon, open |-> FALSE]
  /\ proc = [d \in Daemon |-> "off"]
  /\ tunnels = [d \in Daemon |-> FALSE]
  /\ queue = [d \in Daemon |-> <<>>]
  /\ serving = [d \in Daemon |-> NoClient]
  /\ slot = [c \in Client |-> Unused]
  /\ start = [c \in Starter |-> [at |-> "idle", left |-> 0]]

Enter(d, p) == proc' = [proc EXCEPT ![d] = p]

-----------------------------------------------------------------------------
(* A daemon comes and goes.                                                 *)

Settled ==
  /\ \A d \in Daemon : proc[d] \notin Setup
  /\ \A c \in Starter : start[c].at \in Started

\* `ferro-wg daemon`, which looks for no other daemon.
Launch(d) ==
  /\ proc[d] \in {"off", "failed"}
  /\ \/ ByHand = "anytime"
     \/ ByHand = "stopped" /\ \A e \in Daemon : proc[e] \notin Loop
  /\ Overlap \/ Settled
  /\ Enter(d, "exists")
  /\ UNCHANGED <<file, tunnels, queue, serving, slot, start>>

\* Variant: the path is not looked at before the bind.
CheckFileNever(d) ==
  /\ proc[d] = "exists"
  /\ Enter(d, "bind")
  /\ UNCHANGED <<file, tunnels, queue, serving, slot, start>>

\* setup_listener: "Remove stale socket file", if there is a file at all.
CheckFile(d) ==
  /\ proc[d] = "exists"
  /\ Enter(d, IF file.by = NoDaemon THEN "bind" ELSE "remove")
  /\ UNCHANGED <<file, tunnels, queue, serving, slot, start>>

RemoveFile(d) ==
  /\ proc[d] = "remove"
  /\ Enter(d, IF file.by = NoDaemon THEN "failed" ELSE "bind")
  /\ file' = [by |-> NoDaemon, open |-> FALSE]
  /\ UNCHANGED <<tunnels, queue, serving, slot, start>>

\* UnixListener::bind fails when there is a file again.
Bind(d) ==
  /\ proc[d] = "bind"
  /\ IF file.by = NoDaemon
       THEN file' = [by |-> d, open |-> FALSE] /\ Enter(d, "chmod")
       ELSE UNCHANGED file /\ Enter(d, "failed")
  /\ UNCHANGED <<tunnels, queue, serving, slot, start>>

\* The peers of d see their connections closed.
Hangup(d) ==
  /\ slot' = [c \in Client |-> IF slot[c].peer = d /\ slot[c].phase = "open"
                               THEN [slot[c] EXCEPT !.phase = "reset"] ELSE slot[c]]
  /\ queue' = [queue EXCEPT ![d] = <<>>]
  /\ serving' = [serving EXCEPT ![d] = NoClient]
  /\ tunnels' = [tunnels EXCEPT ![d] = FALSE]

\* set_socket_permissions works on whatever is at the path.
SetPermissions(d) ==
  /\ proc[d] = "chmod"
  /\ IF file.by # NoDaemon
       THEN /\ file' = [file EXCEPT !.open = TRUE] /\ Enter(d, "accept")
            /\ UNCHANGED <<tunnels, queue, serving, slot>>
       ELSE UNCHANGED file /\ Enter(d, "failed") /\ Hangup(d)
  /\ UNCHANGED start

\* Variant: the daemon tidies the path up when it exits.
ExitRemovingFile(d) ==
  /\ proc[d] = "exiting"
  /\ Enter(d, "off") /\ Hangup(d)
  /\ file' = [by |-> NoDaemon, open |-> FALSE]
  /\ UNCHANGED start

\* `run` returns: the manager takes its tunnels down, the listener is closed,
\* the socket file stays.
Exit(d) ==
  /\ proc[d] = "exiting"
  /\ Enter(d, "off") /\ Hangup(d)
  /\ UNCHANGED <<file, start>>

Crash(d) ==
  /\ "crash" \in Faults /\ proc[d] \notin {"off", "failed"}
  /\ Enter(d, "off") /\ Hangup(d)
  /\ UNCHANGED <<file, start>>

-----------------------------------------------------------------------------
(* The accept loop: one connection, one command, one answer.                *)

\* listener.accept(); an error of it ends `run`.
Accept(d) ==
  /\ proc[d] = "accept"
  /\ \/ /\ queue[d] # <<>>
        /\ serving' = [serving EXCEPT ![d] = Head(queue[d])]
        /\ queue' = [queue EXCEPT ![d] = Tail(@)]
        /\ Enter(d, "read")
     \/ /\ "accept" \in Faults
        /\ Enter(d, "exiting") /\ UNCHANGED <<serving, queue>>
  /\ UNCHANGED <<file, tunnels, slot, start>>

\* Waits for a line, or for the end of the stream when the client is gone.
ReadCommand(d) ==
  LET c == serving[d] IN
  /\ proc[d] = "read"
  /\ \/ slot[c].wrote /\ Enter(d, "handle") /\ UNCHANGED serving
     \/ /\ ~slot[c].wrote /\ slot[c].phase = "gone"
        /\ Enter(d, "accept") /\ serving' = [serving EXCEPT ![d] = NoClient]
  /\ UNCHANGED <<file, tunnels, queue, slot, start>>

Answer(c, r) == slot' = [slot EXCEPT ![c].ran = @ + 1, ![c].result = r]

\* Whether d has tunnels after the command.  An Up of all may have brought some up before it
\* fails, a SwitchBackend has taken its connection down by then, and a Down of one leaves
\* the others.
TunnelsAfter(d, cmd, r) ==
  IF cmd = "Up" THEN IF r = "ok" THEN {TRUE} ELSE BOOLEAN
  ELSE IF r = "ok" THEN {FALSE, tunnels[d]} ELSE {tunnels[d]}

\* Variant: the accept loop serves a log stream itself until its client leaves.
HandleStreamInline(d) ==
  LET c == serving[d] IN
  /\ proc[d] = "handle"
  /\ slot[c].cmd = "StreamLogs" => slot[c].phase = "gone"
  /\ Enter(d, "reply")
  /\ \/ Answer(c, "ok") /\ tunnels' = [tunnels EXCEPT ![d] = slot[c].cmd = "Up"]
     \/ Answer(c, "error") /\ UNCHANGED tunnels
  /\ UNCHANGED <<file, queue, serving, start>>

\* handle_command, or the message for a line that does not decode.  A log stream
\* goes to a task of its own.
Handle(d) ==
  LET c == serving[d] IN
  /\ proc[d] = "handle"
  /\ Enter(d, "reply")
  /\ \/ /\ slot[c].cmd \in {"Up", "Down"}
        /\ \E r \in {"ok", "error"} : \E some \in TunnelsAfter(d, slot[c].cmd, r) :
             Answer(c, r) /\ tunnels' = [tunnels EXCEPT ![d] = some]
     \/ /\ slot[c].cmd \in {"Status", "Shutdown"}
        /\ Answer(c, "ok") /\ UNCHANGED tunnels
     \/ /\ slot[c].cmd = "StreamLogs"
        /\ Answer(c, "stream") /\ UNCHANGED tunnels
     \/ /\ slot[c].cmd = "Unknown"
        /\ slot' = [slot EXCEPT ![c].result = "error"] /\ UNCHANGED tunnels
  /\ UNCHANGED <<file, queue, serving, start>>

\* Variant: the loop goes on after a Shutdown.
ReplyAndGoOn(d) ==
  LET c == serving[d] IN
  /\ proc[d] = "reply"
  /\ slot' = [slot EXCEPT ![c].phase = IF @ = "open" THEN "done" ELSE @]
  /\ serving' = [serving EXCEPT ![d] = NoClient]
  /\ Enter(d, "accept")
  /\ UNCHANGED <<file, tunnels, queue, start>>

\* send_response, whose error is ignored; Shutdown then leaves the loop.
Reply(d) ==
  LET c == serving[d] IN
  /\ proc[d] = "reply"
  /\ slot' = [slot EXCEPT ![c].phase = IF @ = "open" THEN "done" ELSE @]
  /\ serving' = [serving EXCEPT ![d] = NoClient]
  /\ Enter(d, IF slot[c].cmd = "Shutdown" THEN "exiting" ELSE "accept")
  /\ UNCHANGED <<file, tunnels, queue, start>>

-----------------------------------------------------------------------------
(* A client: connect, write one line, read one line.                        *)

\* Both ends of the slot's last connection are closed.
Reusable(c) ==
  /\ slot[c].phase \in {"idle", "done", "gone"}
  /\ \A d \in Daemon : serving[d] # c /\ ~Contains(queue[d], c)

Fresh(m) == [Unused EXCEPT !.cmd = m]

Connect(c, m) ==
  LET d == file.by
      fail(r) == /\ slot' = [slot EXCEPT ![c] = [Fresh(m) EXCEPT !.phase = "done",
                                                                 !.result = r]]
                 /\ UNCHANGED queue
  IN
  /\ Reusable(c)
  /\ \/ d = NoDaemon /\ fail("NotRunning")
     \/ d # NoDaemon /\ ~file.open /\ fail("Io")
     \/ d # NoDaemon /\ file.open /\ proc[d] \notin Alive /\ fail("NotRunning")
     \/ /\ d # NoDaemon /\ file.open /\ proc[d] \in Alive
        /\ slot' = [slot EXCEPT ![c] = [Fresh(m) EXCEPT !.phase = "open", !.peer = d]]
        /\ queue' = [queue EXCEPT ![d] = Append(@, c)]

SendCommand(c, m) ==
  /\ c \notin Starter
  /\ Connect(c, m)
  /\ UNCHANGED <<file, proc, tunnels, serving, start>>

WriteCommand(c) ==
  /\ slot[c].phase = "open" /\ ~slot[c].wrote
  /\ slot' = [slot EXCEPT ![c].wrote = TRUE]
  /\ UNCHANGED <<file, proc, tunnels, queue, serving, start>>

\* Variant: a closed connection means that no daemon is running.
ReadEofNotRunning(c) ==
  /\ slot[c].phase = "reset"
  /\ slot' = [slot EXCEPT ![c].phase = "done", ![c].result = "NotRunning"]
  /\ UNCHANGED <<file, proc, tunnels, queue, serving, start>>

\* The connection was closed without an answer.
ReadEof(c) ==
  /\ slot[c].phase = "reset"
  /\ \E r \in IF slot[c].wrote THEN {"NoResponse", "Io"} ELSE {"Io"} :
       slot' = [slot EXCEPT ![c].phase = "done", ![c].result = r]
  /\ UNCHANGED <<file, proc, tunnels, queue, serving, start>>

\* The program is stopped in the middle of the call.
Abandon(c) ==
  /\ c \notin Starter /\ slot[c].phase = "open"
  /\ slot' = [slot EXCEPT ![c].phase = "gone"]
  /\ UNCHANGED <<file, proc, tunnels, queue, serving, start>>

-----------------------------------------------------------------------------
(* spawn_daemon_start.                                                      *)

StartAt(c, s) == start' = [start EXCEPT ![c].at = s]

\* The guard: ask for the status.
StartCheck(c) ==
  /\ start[c].at \in Started
  /\ Overlap \/ Settled
  /\ Connect(c, "Status") /\ StartAt(c, "check")
  /\ UNCHANGED <<file, proc, tunnels, serving>>

\* Any decoded answer counts, any error is taken for "not running".
StartChecked(c) ==
  /\ start[c].at = "check" /\ slot[c].phase = "done"
  /\ StartAt(c, IF slot[c].result \in {"ok", "error"} THEN "already" ELSE "spawn")
  /\ UNCHANGED <<file, proc, tunnels, queue, serving, slot>>

\* sudo ferro-wg daemon; sudo may refuse without a terminal.
StartSpawn(c) ==
  /\ start[c].at = "spawn"
  /\ start' = [start EXCEPT ![c] = [at |-> "sleep", left |-> MaxPolls]]
  /\ \/ \E d \in Daemon : proc[d] \in {"off", "failed"} /\ Enter(d, "exists")
     \/ "sudo" \in Faults /\ UNCHANGED proc
  /\ UNCHANGED <<file, tunnels, queue, serving, slot>>

\* One of the status polls, each after half a second of sleep.
StartPoll(c) ==
  /\ start[c].at = "sleep"
  /\ Connect(c, "Status")
  /\ start' = [start EXCEPT ![c] = [at |-> "poll", left |-> @.left - 1]]
  /\ UNCHANGED <<file, proc, tunnels, serving>>

StartPolled(c) ==
  /\ start[c].at = "poll" /\ slot[c].phase = "done"
  /\ StartAt(c, IF slot[c].result \in {"ok", "error"} THEN "started"
                ELSE IF start[c].left > 0 THEN "sleep" ELSE "timeout")
  /\ UNCHANGED <<file, proc, tunnels, queue, serving, slot>>

-----------------------------------------------------------------------------
DaemonStep(d) ==
  \/ CheckFile(d) \/ RemoveFile(d) \/ Bind(d) \/ SetPermissions(d) \/ Exit(d)
  \/ Accept(d) \/ ReadCommand(d) \/ Handle(d) \/ Reply(d)

StarterStep(c) ==
  StartChecked(c) \/ StartSpawn(c) \/ StartPoll(c) \/ StartPolled(c)

Next ==
  \/ \E d \in Daemon : DaemonStep(d) \/ Launch(d) \/ Crash(d)
  \/ \E c \in Client :
       WriteCommand(c) \/ ReadEof(c) \/ Abandon(c) \/ \E m \in Command : SendCommand(c, m)
  \/ \E c \in Starter : StarterStep(c) \/ StartCheck(c)

Spec == Init /\ [][Next]_vars

\* A daemon that runs is scheduled, a client that has connected writes at once
\* and reads, a start task is polled.  Nobody has to send anything.
FairSpec ==
  /\ Spec
  /\ \A d \in Daemon : WF_vars(DaemonStep(d))
  /\ \A c \in Client : WF_vars(WriteCommand(c)) /\ WF_vars(ReadEof(c))
  /\ \A c \in Starter : WF_vars(StarterStep(c))

-----------------------------------------------------------------------------
(* Correctness.                                                             *)

\* Every variable keeps its type, no connection is in two places.
TypeOK ==
  /\ file \in [by : Daemon \cup {NoDaemon}, open : BOOLEAN]
  /\ proc \in [Daemon -> Setup \cup Loop \cup {"off", "failed", "exiting"}]
  /\ tunnels \in [Daemon -> BOOLEAN]
  /\ serving \in [Daemon -> Client \cup {NoClient}]
  /\ slot \in [Client -> Slot]
  /\ start \in [Starter -> [at : Started \cup {"check", "spawn", "sleep", "poll"},
                            left : 0 .. MaxPolls]]
  /\ \A d \in Daemon :
       /\ ToSet(queue[d]) \subseteq Client /\ IsInjective(queue[d])
       /\ ~Contains(queue[d], serving[d])
       /\ serving[d] # NoClient <=> proc[d] \in {"read", "handle", "reply"}

\* A command is carried out at most once, and what the client is told agrees with
\* that: an answer only after it was, "daemon is not running" only if it was not.
OutcomeTruthful ==
  \A c \in Client : slot[c].phase = "done" =>
    /\ slot[c].result \in {"ok", "stream"} => slot[c].ran = 1
    /\ slot[c].result = "NotRunning" => slot[c].ran = 0
    /\ slot[c].ran <= 1

\* The state is consistent: typed, every connection in one place only (backlog or
\* handler), and the clients told the truth.
Consistent == TypeOK /\ OutcomeTruthful

\* The answer to a Shutdown is the last one: the daemon leaves its loop, whether
\* or not the client is there to read it (is_shutdown in process_command).
ShutdownEnds ==
  \A d \in Daemon, c \in Client :
    (proc[d] = "reply" /\ serving[d] = c /\ slot[c].cmd = "Shutdown")
      ~> proc[d] \notin Loop

\* Every call returns: a client that has connected gets an answer or an error,
\* whatever the clients before it do, as long as they write or go away.
CallsReturn ==
  \A c \in Client : slot[c].phase = "open" ~> slot[c].phase \in {"done", "gone"}

\* A daemon with tunnels can be told to take them down: the path leads to it
\* (setup_listener removes the file "stale" or not).
TunnelsReachable ==
  \A d \in Daemon : (proc[d] \in Loop /\ tunnels[d]) => file.by = d

\* A daemon that is started while no other start is in progress gets its socket,
\* whatever file an earlier one has left at the path.
SetupSucceeds == \A d \in Daemon : proc[d] # "failed"
=============================================================================
