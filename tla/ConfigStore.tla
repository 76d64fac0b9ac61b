---------------------------- MODULE ConfigStore -----------------------------
(***************************************************************************)
(* config.toml and those who read and write it: the save and import tasks  *)
(* of the TUI (ferro-wg-tui/src/lib.rs), `ferro-wg import`                 *)
(* (ferro-wg/src/main.rs), and the daemon, which reads the file again for  *)
(* every Up and Status (ferro-wg-core/src/daemon.rs).  Nobody locks it.    *)
(*                                                                         *)
(* A writer loads the file, changes one connection and writes all of it    *)
(* back.  std::fs::write truncates the file and then writes it, and any    *)
(* other process may look in between.  TOML text is not modelled: a file   *)
(* that was written in one piece is read as what was written, and one      *)
(* whose end is missing is refused, or read as what it still says.  What   *)
(* the daemon's tunnels do is TunnelManager's subject; here an up          *)
(* connection is the configuration that it was brought up with.            *)
(***************************************************************************)
EXTENDS WgQuick, TLC

CONSTANTS
  Task,      \* save and import tasks: 1, 2, ..., in the order they are spawned
  Source,    \* wg-quick files that may be imported: [stem, text]
  Draft,     \* what the editor may hand to a save
  Before,    \* the files that there may be at first
  Rank,      \* stem -> its place in alphabetical order, that of the BTreeMap
  Faults     \* "kill", "disk"

VARIABLES
  file,     \* config.toml
  backup,   \* config.toml.bak
  task,     \* task -> where it is, and what it is to write
  tui,      \* the TUI: its app_config, and the ReloadConfig messages on the way
  daemon,   \* the daemon: the manager's config, and the connections that are up
  wanted,   \* history: all changes that were written, in this order
  odd       \* history: what has happened that some property excludes

storeVars == <<file, backup, task, tui, daemon, wanted, odd>>

File(is, cfg) == [is |-> is, cfg |-> cfg]
Whole(cfg) == File("whole", cfg)
Missing == File("missing", NoConnections)
Emptied == File("empty", NoConnections)
\* Parts of two files, or of one that do not load.
Mixed == File("mixed", NoConnections)
\* The beginning of a file, which says cfg.
Beginning(cfg) == File("beginning", cfg)

\* A file from elsewhere may be cut, but what is whole loads.
ASSUME StoreAssumption ==
  /\ Faults \subseteq {"kill", "disk"}
  /\ \A f \in Before : \/ f \in {Missing, Emptied, Mixed}
                       \/ f = Whole(f.cfg) /\ ValidApp(f.cfg)
  /\ Rank \in [DOMAIN StemLength -> Nat]
  /\ \A s \in Source : s.stem \in DOMAIN StemLength /\ s.text \in Seq(TextLine)

Unspawned == [at |-> "unspawned"]
NotRunning == [on |-> FALSE, cfg |-> NoConnections, inbox |-> <<>>]
NoDaemon == [on |-> FALSE, cfg |-> NoConnections, up |-> NoConnections]

StoreInit ==
  /\ file \in Before /\ backup = Missing
  /\ task = [t \in Task |-> Unspawned]
  /\ tui = NotRunning /\ daemon = NoDaemon
  /\ wanted = file.cfg /\ odd = {}

-----------------------------------------------------------------------------
(* Loading                                                                  *)

\* load_app_config.  An empty file parses, as no connections; validate refuses it.
LoadAppConfig(f) ==
  {cfg \in (CASE f.is \in {"whole", "beginning"} -> {f.cfg} [] f.is = "empty" -> {NoConnections} [] OTHER -> {}) :
     ValidApp(cfg)}

\* The first of a connection's peers.  The last one may have lost the line that follows
\* its AllowedIPs (a number cut in its digits counts as lost); a peer cut before that is
\* refused, as is an interface without peers.
FirstPeers(peers) ==
  UNION {{SubSeq(peers, 1, n), [SubSeq(peers, 1, n) EXCEPT ![n].PersistentKeepalive = <<"0">>]} :
           n \in 1 .. Len(peers)}

\* What a text of cfg whose end is missing may still say: the connections up to one of
\* them.  Of connections, peers and log_display every one may be missing (serde defaults).
Beginnings(cfg) ==
  UNION {{[n \in {m \in DOMAIN cfg : Rank[m] <= Rank[last]} |->
             IF n = last THEN [cfg[n] EXCEPT !.peers = peers] ELSE cfg[n]] :
            peers \in FirstPeers(cfg[last].peers)} : last \in DOMAIN cfg}

\* AppConfig::insert
Insert(cfg, name, conn) ==
  [n \in DOMAIN cfg \cup {name} |-> IF n = name THEN conn ELSE cfg[n]]

-----------------------------------------------------------------------------
(* Tasks                                                                    *)

At(t, places) == task[t].at \in places
\* Between the load and the end of the write.
Writing == {"backup", "backing", "open", "write"}
Busy == {"queued"} \cup Writing

MayBeSpawned(t) == At(t, {"unspawned"}) /\ \A s \in Task : s < t => ~At(s, {"unspawned"})
Go(t, place) == task' = [task EXCEPT ![t].at = place]

\* What nobody looks at before it is written: a name, and the draft of a save.
Refused(new) ==
  IF /\ \A name \in {<<new.name>>} \cup {p.name : p \in ToSet(new.conn.peers)} :
          name = <<>> \/ ValidName(name)
     /\ new.kind = "save" => ValidConn(new.conn)
  THEN {} ELSE {"refused"}

\* spawn_save_config_task
SpawnSave(t) ==
  /\ MayBeSpawned(t) /\ tui.on
  /\ \E name \in DOMAIN tui.cfg, conn \in Draft, reconnect \in BOOLEAN :
       task' = [task EXCEPT ![t] = [at |-> "queued", kind |-> "save", name |-> name, conn |-> conn,
                                    cfg |-> NoConnections, reconnect |-> reconnect]]
  /\ odd' = odd \cup Refused(task'[t])
  /\ UNCHANGED <<file, backup, tui, daemon, wanted>>

\* connection_name_from_path, in spawn_import_task and cmd_import.
Import(kind, s, peers, conn) ==
  [at |-> "queued", kind |-> kind, name |-> s.stem, conn |-> [conn EXCEPT !.peers = peers],
   cfg |-> NoConnections, reconnect |-> FALSE]

\* load_from_file is done with here: the wg-quick file does not change, and one that
\* does not load ends the task.
SpawnImport(t) ==
  /\ MayBeSpawned(t) /\ tui.on
  /\ \E s \in Source : \E conn \in LoadFromStr(s.text) :
       task' = [task EXCEPT ![t] = Import("import", s, conn.peers, conn)]
  /\ odd' = odd \cup Refused(task'[t])
  /\ UNCHANGED <<file, backup, tui, daemon, wanted>>

\* The command line names the peers, the TUI does not.
NamedPeers(peers, stem) ==
  [i \in DOMAIN peers |->
     IF peers[i].name # <<>> THEN peers[i]
     ELSE [peers[i] EXCEPT !.name = IF Len(peers) = 1 THEN <<stem>> ELSE <<stem, i - 1>>]]

CliImport(t) ==
  /\ MayBeSpawned(t)
  /\ \E s \in Source : \E conn \in LoadFromStr(s.text) :
       task' = [task EXCEPT ![t] = Import("cli", s, NamedPeers(conn.peers, s.stem), conn)]
  /\ odd' = odd \cup Refused(task'[t])
  /\ UNCHANGED <<file, backup, tui, daemon, wanted>>

\* The end of try_save_config, also after an error, or of an import.
After(t) == IF task[t].reconnect THEN "down" ELSE "done"

\* Variant: the change goes into the configuration that the TUI has.
LoadFromState(t) == IF task[t].kind # "cli" /\ tui.on THEN {tui.cfg} ELSE LoadAppConfig(file)

\* Only the command line starts a file.
LoadFor(t) ==
  IF task[t].kind = "cli" /\ file = Missing THEN {NoConnections} ELSE LoadAppConfig(file)

LoadFile(t) ==
  /\ At(t, {"queued"})
  /\ \/ \E cfg \in LoadFor(t) :
          task' = [task EXCEPT ![t].at = IF task[t].kind = "save" THEN "backup" ELSE "open",
                               ![t].cfg = cfg]
     \/ LoadFor(t) = {} /\ Go(t, After(t))   \* CommandError
  /\ odd' = odd \cup (IF \E s \in Task : At(s, Writing) THEN {"overlap"} ELSE {})
                \cup (IF \E s \in Task : At(s, {"send"}) THEN {"late"} ELSE {})
                \cup (IF file.is = "beginning" THEN {"cut read"} ELSE {})
  /\ UNCHANGED <<file, backup, tui, daemon, wanted>>

OpenBackup(t) ==
  /\ At(t, {"backup"}) /\ Go(t, "backing")
  /\ backup' = Emptied
  /\ UNCHANGED <<file, tui, daemon, wanted, odd>>

\* The change, made in memory once the backup is written.
Updated(t) == Insert(task[t].cfg, task[t].name, task[t].conn)

\* Over what another task has written since the file was truncated, the tail of the
\* longer one stays.
WrittenOver(f, cfg) == IF f = Emptied THEN {Whole(cfg)} ELSE {Whole(cfg), Mixed}

\* Variant: the backup is of what is about to be written.
BackedUpUpdated(t) == Updated(t)

BackedUp(t) == task[t].cfg

WriteBackup(t) ==
  /\ At(t, {"backing"}) /\ Go(t, "open")
  /\ backup' \in WrittenOver(backup, BackedUp(t))
  /\ UNCHANGED <<file, tui, daemon, wanted, odd>>

\* The directory or the file cannot be had.
OpenFails(t) ==
  /\ "disk" \in Faults /\ At(t, {"backup", "open"}) /\ Go(t, After(t))
  /\ UNCHANGED <<file, backup, tui, daemon, wanted, odd>>

\* "Could not write backup": the configuration is not touched.  (Nobody loads a backup:
\* Mixed is also one that ends too soon.)
BackupFails(t) ==
  /\ "disk" \in Faults /\ At(t, {"backing"}) /\ Go(t, After(t))
  /\ backup' \in {backup, Mixed}
  /\ UNCHANGED <<file, tui, daemon, wanted, odd>>

OpenFile(t) ==
  /\ At(t, {"open"}) /\ Go(t, "write")
  /\ file' = Emptied
  /\ UNCHANGED <<backup, tui, daemon, wanted, odd>>

\* Variant: the TUI is told of what was loaded.
ToldLoaded(t) == task[t].cfg

Told(t) == Updated(t)

\* save_app_config
WriteFile(t) ==
  /\ At(t, {"write"}) /\ Go(t, IF task[t].kind = "cli" THEN "done" ELSE "send")
  /\ file' \in WrittenOver(file, Updated(t))
  /\ wanted' = Insert(wanted, task[t].name, task[t].conn)
  /\ odd' = IF task[t].kind = "cli" THEN odd \cup {"cli"} ELSE odd
  /\ UNCHANGED <<backup, tui, daemon>>

\* ReloadConfig, for a TUI that is still there.
Send(t) ==
  /\ At(t, {"send"}) /\ Go(t, After(t))
  /\ tui' = IF tui.on THEN [tui EXCEPT !.inbox = Append(@, Told(t))] ELSE tui
  /\ UNCHANGED <<file, backup, daemon, wanted, odd>>

\* "Could not write config": the file has been truncated by then.
WriteFails(t) ==
  /\ "disk" \in Faults /\ At(t, {"write"}) /\ Go(t, After(t))
  /\ file' \in {file, Mixed} \cup {Beginning(cfg) : cfg \in Beginnings(Updated(t))}
  /\ odd' = odd \cup {IF task[t].kind = "save" THEN "save cut" ELSE "import cut"}
  /\ UNCHANGED <<backup, tui, daemon, wanted>>

-----------------------------------------------------------------------------
(* The daemon                                                               *)

\* `ferro-wg daemon` stops when its configuration does not load.
StartDaemon ==
  /\ ~daemon.on
  /\ \E cfg \in LoadAppConfig(file) : daemon' = [NoDaemon EXCEPT !.on = TRUE, !.cfg = cfg]
  /\ UNCHANGED <<file, backup, task, tui, wanted, odd>>

\* Shutdown or a crash: its tunnels go with it.
StopDaemon ==
  /\ daemon.on /\ daemon' = NoDaemon /\ UNCHANGED <<file, backup, task, tui, wanted, odd>>

\* Variant: only an Up reads the file.
NeedsConfigReloadUp(command) == command = "Up"

\* Variant: only the polls do.
NeedsConfigReloadStatus(command) == command = "Status"

NeedsConfigReload(command) == command \in {"Up", "Status"}

\* reload_config: a file that does not load changes nothing.
ConfigFor(command) ==
  IF NeedsConfigReload(command) /\ LoadAppConfig(file) # {}
  THEN CHOOSE cfg \in LoadAppConfig(file) : TRUE ELSE daemon.cfg

\* An Up fails for a connection that is up and for one that is not configured; one
\* without an endpoint, or for want of the system, may fail as well.
Raised(name) ==
  LET cfg == ConfigFor("Up")
  IN  {daemon.up} \cup (IF name \in DOMAIN cfg \ DOMAIN daemon.up
                        THEN {Insert(daemon.up, name, cfg[name])} ELSE {})

Lowered(name) == [n \in DOMAIN daemon.up \ {name} |-> daemon.up[n]]

DaemonUp(name) ==
  /\ daemon.on
  /\ \E up \in Raised(name) : daemon' = [daemon EXCEPT !.cfg = ConfigFor("Up"), !.up = up]

DaemonDown(name) ==
  /\ daemon.on /\ daemon' = [daemon EXCEPT !.cfg = ConfigFor("Down"), !.up = Lowered(name)]

UserUp(name) == DaemonUp(name) /\ UNCHANGED <<file, backup, task, tui, wanted, odd>>
UserDown(name) == DaemonDown(name) /\ UNCHANGED <<file, backup, task, tui, wanted, odd>>

StatusPoll ==
  /\ tui.on /\ daemon.on /\ daemon' = [daemon EXCEPT !.cfg = ConfigFor("Status")]
  /\ UNCHANGED <<file, backup, task, tui, wanted, odd>>

\* "Best-effort reconnect": also after a save that has failed, and with no daemon.
ReconnectDown(t) ==
  /\ At(t, {"down"}) /\ Go(t, "up")
  /\ IF daemon.on THEN DaemonDown(task[t].name) ELSE UNCHANGED daemon
  /\ UNCHANGED <<file, backup, tui, wanted, odd>>

ReconnectUp(t) ==
  /\ At(t, {"up"}) /\ Go(t, "done")
  /\ IF daemon.on THEN DaemonUp(task[t].name) ELSE UNCHANGED daemon
  /\ UNCHANGED <<file, backup, tui, wanted, odd>>

-----------------------------------------------------------------------------
(* The TUI                                                                  *)

StartTui ==
  /\ ~tui.on
  /\ \E cfg \in LoadAppConfig(file) : tui' = [NotRunning EXCEPT !.on = TRUE, !.cfg = cfg]
  /\ odd' = odd \ {"cli"}
  /\ UNCHANGED <<file, backup, task, daemon, wanted>>

\* handle_daemon_messages, state.reload_from_config
HandleReload ==
  /\ tui.inbox # <<>>
  /\ tui' = [tui EXCEPT !.cfg = Head(tui.inbox), !.inbox = Tail(@)]
  /\ UNCHANGED <<file, backup, task, daemon, wanted, odd>>

OfTui(t) == ~At(t, {"unspawned", "done"}) /\ task[t].kind # "cli"
\* A task without an await runs to its end once it has begun.
Begun == Writing \cup {"send"}

\* abort_all, and the end of the runtime, which waits for what has begun.
Quit ==
  /\ tui.on /\ \A t \in Task : OfTui(t) => ~At(t, Begun)
  /\ tui' = NotRunning
  /\ task' = [t \in Task |-> IF OfTui(t) THEN [task[t] EXCEPT !.at = "done"] ELSE task[t]]
  /\ UNCHANGED <<file, backup, daemon, wanted, odd>>

Cut(T) == {t \in T : At(t, {"write"})}
CutBy(T) ==
  {IF task[t].kind = "save" THEN "save cut" ELSE "import cut" : t \in Cut(T)}

KillTui ==
  /\ "kill" \in Faults /\ tui.on /\ tui' = NotRunning
  /\ task' = [t \in Task |-> IF OfTui(t) THEN [task[t] EXCEPT !.at = "done"] ELSE task[t]]
  /\ odd' = odd \cup CutBy({t \in Task : OfTui(t)})
  /\ UNCHANGED <<file, backup, daemon, wanted>>

KillImport(t) ==
  /\ "kill" \in Faults /\ At(t, Busy) /\ task[t].kind = "cli"
  /\ Go(t, "done")
  /\ odd' = odd \cup CutBy({t})
  /\ UNCHANGED <<file, backup, tui, daemon, wanted>>

-----------------------------------------------------------------------------

TaskStep(t) ==
  \/ LoadFile(t) \/ OpenBackup(t) \/ WriteBackup(t) \/ OpenFile(t) \/ WriteFile(t)
  \/ Send(t) \/ ReconnectDown(t) \/ ReconnectUp(t)

StoreNext ==
  \/ StartDaemon \/ StopDaemon \/ StatusPoll \/ StartTui \/ HandleReload \/ Quit \/ KillTui
  \/ \E name \in DOMAIN StemLength : UserUp(name) \/ UserDown(name)
  \/ \E t \in Task :
       \/ SpawnSave(t) \/ SpawnImport(t) \/ CliImport(t) \/ TaskStep(t)
       \/ OpenFails(t) \/ BackupFails(t) \/ WriteFails(t) \/ KillImport(t)

Spec == StoreInit /\ [][StoreNext]_storeVars

\* The TUI polls at every tick.
FairSpec == Spec /\ WF_storeVars(StatusPoll)

-----------------------------------------------------------------------------
(* Properties                                                               *)

StoreTypeOK ==
  /\ file.is \in {"missing", "empty", "mixed", "beginning", "whole"}
  /\ backup.is \in {"missing", "empty", "mixed", "whole"}
  /\ \A t \in Task : task[t].at \in
       Busy \cup {"unspawned", "send", "down", "up", "done"}
  /\ tui.on \/ tui = NotRunning
  /\ odd \subseteq {"overlap", "late", "cli", "refused", "save cut", "import cut", "cut read"}

\* The file holds every change that was written, the imports of the command line
\* that the TUI does not know of included, unless two writers overlapped, or one started
\* from the beginning of a file whose end was never written.
NoChangeLost ==
  odd \cap {"overlap", "cut read"} = {} /\ file.is = "whole" => file.cfg = wanted

\* "Backup exists; manual recovery possible": a save that is killed or fails at any
\* point leaves the file or its backup whole, and nothing that follows undoes it but a
\* writer that loads what is left of the file: the next save would copy that over the
\* backup.  Imports make no backup, and overlapping saves may spoil both.
Recoverable ==
  /\ odd \cap {"overlap", "import cut", "cut read"} = {}
  /\ file.is \in {"empty", "mixed", "beginning"}
  /\ \A t \in Task : At(t, {"write"}) => task[t].kind = "save"
  => backup = Whole(wanted) \/ wanted = NoConnections

\* What is written can be loaded again, as long as every name and every saved draft
\* is one that validate accepts: what a wg-quick file says has been validated.
WrittenLoads ==
  "refused" \notin odd /\ file.is = "whole" => ValidApp(file.cfg)

\* The daemon never works with an empty or refused configuration, whenever it
\* looks at the file, and never brings up a connection that is not valid.
DaemonValid ==
  daemon.on => /\ ValidApp(daemon.cfg)
               /\ \A name \in DOMAIN daemon.up : ValidConn(daemon.up[name])

\* The state is consistent: typed, a file that loads again, a daemon that works with
\* nothing else (save_app_config, reload_config).
Consistent == StoreTypeOK /\ WrittenLoads /\ DaemonValid

\* When all has been written and handled, the TUI shows what is in the file, if one
\* task was done before the next began and nobody else wrote since it was started.
TuiMatchesFile ==
  /\ tui.on /\ tui.inbox = <<>> /\ \A t \in Task : ~At(t, Busy \cup {"send"})
  /\ odd \cap {"overlap", "late", "cli", "save cut", "import cut"} = {}
  => file = Whole(tui.cfg)

\* What a save with reconnect brings up is what was saved, if the file is whole at that
\* moment and no save started from less.
ReconnectGetsSaved ==
  [][\A t \in Task :
       /\ At(t, {"up"}) /\ task'[t].at = "done" /\ daemon'.up # daemon.up /\ daemon'.on
       /\ odd \cap {"overlap", "cut read"} = {} /\ file.is = "whole" /\ LoadAppConfig(file) # {}
       => daemon'.up[task[t].name] = wanted[task[t].name]]_storeVars

\* A file that can be loaded and stays as it is reaches a daemon that stays, without
\* a command of the user.
DaemonCatchesUp ==
  [](<>[](tui.on /\ daemon.on /\ LoadAppConfig(file) # {} /\ \A t \in Task : ~At(t, Busy))
     => <>(daemon.cfg = file.cfg))
=============================================================================
