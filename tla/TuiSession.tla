----------------------------- MODULE TuiSession -----------------------------
(***************************************************************************)
(* The TUI's event loop (ferro-wg-tui/src/lib.rs): which handler a key or  *)
(* a click reaches, the background tasks the handlers spawn, the status    *)
(* poll, and the messages by which tasks answer.  The handlers themselves  *)
(* are AppState's; the keys are those the components return an Action for. *)
(*                                                                         *)
(* A background task is what its answer tells apart: "file" (import and    *)
(* save, which bring a config to reload), "daemon" (a command) or "local"  *)
(* (export).  Where a task's work takes several steps that others can see, *)
(* a module of its own has them: DaemonServer the calls and the start of a *)
(* daemon, TunnelManager the commands.  (A save that reconnects goes on    *)
(* with Down and Up after its answer; nobody sees how they end.)  What     *)
(* answers on the daemon's socket may change at any moment, also in the    *)
(* middle of a call.                                                       *)
(* The benchmark keys, row movement and the keys of the log view are left  *)
(* out.                                                                    *)
(*                                                                         *)
(* Operators whose comment starts with "Variant" are not part of the       *)
(* specification, see TunnelManager.                                       *)
(***************************************************************************)
EXTENDS AppState

CONSTANTS
  Files,      \* what a load of the config file may bring
  Slots,      \* bound on background tasks at a time
  MaxPeers,   \* bound on the peers of a draft
  MaxStatus,  \* bound on status messages the loop has not handled
  DiffLines   \* lines of a diff

\* Every peer in a file has its key: the loader demands one.
ASSUME SessionAssumption ==
  /\ \A f \in Files : /\ Conns(f)
                       /\ \A n \in DOMAIN f : \A i \in DOMAIN f[n].peers : f[n].peers[i].key = "set"
  /\ 0 \notin Slots /\ MaxPeers \in Nat /\ MaxStatus \in Nat /\ DiffLines \in Nat

VARIABLES
  app,      \* AppState
  tasks,    \* slot -> what runs in it; "sent" until its answer is handled
  inFlight, \* poll_in_flight
  polling,  \* whether spawn_status_poll's task runs
  inbox,    \* daemon_rx
  server    \* what is behind the daemon's socket

vars == <<app, tasks, inFlight, polling, inbox, server>>

Task == {"none", "file", "daemon", "local", "sent"}

\* A daemon; nothing that could be connected to; or one that answers with a response of
\* another kind (LogEntry, Status, Benchmark...: another build) or breaks the call off.
Server == {"daemon", "nothing", "another"}

\* A "toast" message, an outcome or an error, only shows one.
Message(kind, slot, conns) == [kind |-> kind, slot |-> slot, conns |-> conns]

TypeOK ==
  /\ IsAppState(app) /\ tasks \in [Slots -> Task] /\ inFlight \in BOOLEAN
  /\ polling \in BOOLEAN /\ server \in Server
  /\ \A i \in DOMAIN inbox :
       /\ inbox[i].kind \in {"status", "unreachable", "toast", "reload"}
       /\ inbox[i].slot \in Slots \cup {0} /\ Conns(inbox[i].conns)

Init ==
  /\ \E f \in Files : app = New(f)
  /\ tasks = [t \in Slots |-> "none"] /\ inFlight = FALSE /\ polling = FALSE /\ inbox = <<>>
  /\ server \in Server

-----------------------------------------------------------------------------
(* Where a key goes: the first of these that holds.                         *)

AtHelp == app.running /\ app.help
AtFilter == app.running /\ ~app.help /\ app.filter
AtDiff == app.running /\ ~app.help /\ ~app.filter /\ app.diff # NoDiff
NoPreview == app.running /\ ~app.help /\ ~app.filter /\ app.diff = NoDiff
AtConfirm == NoPreview /\ app.confirm # NoConfirm
\* Variant: the keys of the tabs work under the dialog.
NoOverlayButConfirm == NoPreview

NoOverlay == NoPreview /\ app.confirm = NoConfirm
AtStatusBar == NoOverlay /\ app.mode \in {"Search", "Import", "Export"}
\* EditField has no branch of its own.
AtTabs == NoOverlay /\ app.mode \in {"Normal", "EditField"}

Dispatch(s) == app' = s /\ UNCHANGED <<tasks, inFlight, polling, inbox, server>>

Spawn(kind) ==
  /\ \E t \in Slots : tasks[t] = "none" /\ tasks' = [tasks EXCEPT ![t] = kind]
  /\ UNCHANGED <<inFlight, polling, inbox, server>>

HelpKey == AtHelp /\ Dispatch(HideHelp(app))

FilterKey ==
  /\ AtFilter
  /\ \/ Dispatch(HideConnectionFilter(app))
     \/ \E n \in DOMAIN app.conns : Dispatch(ToggleConnectionVisibility(app, n))

\* The next frame slices the diff from the scroll offset, which nothing
\* bounds: past its last line the TUI panics.
Rendered(s) == IF s.diff # NoDiff /\ s.diff.scroll > DiffLines THEN Quit(s) ELSE s

DiffKey ==
  /\ AtDiff
  /\ \/ Dispatch(Rendered(ConfigDiffScrollDown(app)))
     \/ Dispatch(ConfigDiffScrollUp(app))
     \/ Dispatch(DiscardConfigEdits(app))

SaveKey == AtDiff /\ app' = SaveConfig(app) /\ Spawn("file")

\* handle_key_event reads the pending action before the dialog is closed.
YesKey == AtConfirm /\ app' = ConfirmYes(app) /\ Spawn("daemon")
NoKey == AtConfirm /\ Dispatch(ConfirmNo(app))

TextKey == AtStatusBar /\ Dispatch(LeaveMode(app))
SubmitImport == AtStatusBar /\ app.mode = "Import" /\ app' = LeaveMode(app) /\ Spawn("file")
SubmitExport == AtStatusBar /\ app.mode = "Export" /\ app' = LeaveMode(app) /\ Spawn("local")

\* handle_global_key
QuitKey == AtTabs /\ Dispatch(Quit(app))
TabKey ==
  /\ AtTabs
  /\ \/ \E by \in {1, -1} : Dispatch(StepTab(app, by))
     \/ \E tab \in Range(Tabs) : Dispatch(SelectTab(app, tab))
GlobalKey ==
  /\ AtTabs
  /\ Dispatch(EnterMode(app, "Search")) \/ Dispatch(EnterMode(app, "Import"))
       \/ Dispatch(ShowHelp(app))

OverviewKey ==
  /\ AtTabs /\ app.tab = "Overview"
  /\ \/ Spawn("daemon") /\ UNCHANGED app
     \/ Dispatch(RequestConfirm(app, "DisconnectAll", 0))
     \/ app.daemon /\ Dispatch(RequestConfirm(app, "StopDaemon", 0))
     \/ Dispatch(SelectTab(app, "Status"))

StatusKey ==
  /\ AtTabs /\ app.tab = "Status"
  /\ \/ app.visible # {} /\ Spawn("daemon") /\ UNCHANGED app
     \/ Dispatch(ShowConnectionFilter(app))

\* spawn_switch_backend_task: for the first visible connection, if there is one.
SpawnSwitchBackend == IF app.visible = {} THEN Spawn("local") ELSE Spawn("daemon")

CompareKey ==
  /\ AtTabs /\ app.tab = "Compare"
  /\ \/ SpawnSwitchBackend /\ UNCHANGED app
     \/ Dispatch(EnterMode(app, "Export"))

\* No Action moves the component's focus off the interface, so a peer is
\* never edited and `x` never asks.
ConfigKey ==
  /\ AtTabs /\ app.tab = "Config" /\ app.visible # {} /\ app.mode = "Normal"
  /\ \/ Dispatch(EnterConfigEdit(app, 0, 1))
     \/ (Editing(app) => Len(app.edit.draft.peers) < MaxPeers) /\ Dispatch(AddConfigPeer(app))
     \/ Dispatch(PreviewConfig(app))

\* A click on the tab bar, in any mode.
Click == NoOverlay /\ \E tab \in Range(Tabs) : Dispatch(SelectTab(app, tab))

-----------------------------------------------------------------------------
(* Tasks and their answers                                                  *)

\* A daemon starts, stops or crashes, see DaemonServer.
ServerChanges ==
  /\ app.running /\ server' \in Server \ {server}
  /\ UNCHANGED <<app, tasks, inFlight, polling, inbox>>

Tick ==
  /\ app.running /\ ~inFlight /\ inFlight' = TRUE /\ polling' = TRUE
  /\ UNCHANGED <<app, tasks, inbox, server>>

\* error_to_message
ErrorMessage(slot) ==
  Message(IF server = "nothing" THEN "unreachable" ELSE "toast", slot, <<>>)

\* What the call of a poll, and of a command, makes of its end.
PollMessage == IF server = "daemon" THEN Message("status", 0, <<>>) ELSE ErrorMessage(0)
CommandMessage(t) == IF server = "daemon" THEN Message("toast", t, <<>>) ELSE ErrorMessage(t)

\* Neither a poll nor a command says anything of an answer of another kind.
Silent == server = "another"

StatusMessages == {i \in DOMAIN inbox : inbox[i].slot = 0}
Polled == inbox' = Append(inbox, PollMessage) /\ Cardinality(StatusMessages) < MaxStatus

\* Variant: the flag is cleared only after a message.
PollEndHolding ==
  /\ app.running /\ polling /\ polling' = FALSE /\ UNCHANGED <<app, tasks, server>>
  /\ \/ Polled /\ inFlight' = FALSE
     \/ Silent /\ UNCHANGED <<inFlight, inbox>>

PollEnd ==
  /\ app.running /\ polling /\ polling' = FALSE /\ inFlight' = FALSE
  /\ Polled \/ (Silent /\ UNCHANGED inbox)
  /\ UNCHANGED <<app, tasks, server>>

\* An import or a save, see ConfigStore: it has failed, or brings the new config.
FileAnswers(t) == {Message("reload", t, f) : f \in Files} \cup {Message("toast", t, <<>>)}

\* The daemon's Ok or Error, or an error of the call; a StartDaemon has a toast for all.
CommandAnswers(t) == {Message("toast", t, <<>>), CommandMessage(t)}

\* spawn_export_task, and a switch without a connection: what it says is local.
LocalAnswers(t) == {Message("toast", t, <<>>)}

Answers(t) ==
  CASE tasks[t] = "file" -> FileAnswers(t)
    [] tasks[t] = "daemon" -> CommandAnswers(t)
    [] OTHER -> LocalAnswers(t)

TaskEnd(t) ==
  /\ app.running /\ tasks[t] \in {"file", "daemon", "local"}
  /\ \/ /\ \E m \in Answers(t) : inbox' = Append(inbox, m)
        /\ tasks' = [tasks EXCEPT ![t] = "sent"]
     \/ /\ tasks[t] = "daemon" /\ Silent
        /\ tasks' = [tasks EXCEPT ![t] = "none"] /\ UNCHANGED inbox
  /\ UNCHANGED <<app, inFlight, polling, server>>

\* handle_daemon_messages, one message.
Handle ==
  /\ app.running /\ inbox # <<>>
  /\ LET m == Head(inbox)
     IN  /\ app' = CASE m.kind = "status" -> UpdatePeers(app)
                     [] m.kind = "unreachable" -> DaemonConnectivityChanged(app, FALSE)
                     [] m.kind = "reload" -> ReloadFromConfig(app, m.conns)
                     [] OTHER -> app
         /\ tasks' = IF m.slot = 0 THEN tasks ELSE [tasks EXCEPT ![m.slot] = "none"]
  /\ inbox' = Tail(inbox) /\ UNCHANGED <<inFlight, polling, server>>

Key ==
  \/ HelpKey \/ FilterKey \/ DiffKey \/ SaveKey \/ YesKey \/ NoKey \/ TextKey
  \/ SubmitImport \/ SubmitExport \/ QuitKey \/ TabKey \/ GlobalKey
  \/ OverviewKey \/ StatusKey \/ CompareKey \/ ConfigKey

Next ==
  Key \/ Click \/ Tick \/ PollEnd \/ Handle \/ ServerChanges \/ \E t \in Slots : TaskEnd(t)

Spec == Init /\ [][Next]_vars

\* The runtime polls every task, the loop handles what has arrived before it
\* waits, and wakes up for each tick.
FairSpec ==
  Spec /\ WF_vars(Tick) /\ WF_vars(PollEnd) /\ WF_vars(Handle)
       /\ \A t \in Slots : WF_vars(TaskEnd(t))

-----------------------------------------------------------------------------
(* Properties                                                               *)

\* The tab names an active connection with find(..).unwrap(): what is visible
\* is always in the list of connections.
VisibleKnown == app.visible \subseteq DOMAIN app.conns

\* At most one overlay is open, so the one that gets the keys is the one on
\* top, though the order of routing is not that of rendering.
OneOverlay ==
  Cardinality({o \in {"help", "filter", "diff", "confirm"} :
     \/ o = "help" /\ app.help
     \/ o = "filter" /\ app.filter
     \/ o = "diff" /\ app.diff # NoDiff
     \/ o = "confirm" /\ app.confirm # NoConfirm}) <= 1

\* EditField always has an open field behind it on the tab that shows it: no
\* handler leaves a mode in which the Config tab ignores every key.
EditFieldBacked ==
  app.mode = "EditField" => /\ Editing(app) /\ app.tab = "Config"
                            /\ app.edit.buffer # NoBuffer

\* The state is consistent, through every key, click and reload: typed, what is
\* visible known, one overlay, an edit mode with its field (handle_key_event,
\* reload_from_config, handle_tab_actions).
Consistent == TypeOK /\ VisibleKnown /\ OneOverlay /\ EditFieldBacked

\* What the preview would save is the draft as it is, with every key set, and
\* closing the preview leads back to Normal.
DiffIsDraft ==
  app.diff # NoDiff =>
    /\ app.mode = "Normal" /\ Editing(app)
    /\ app.diff.name = app.edit.name /\ app.diff.draft = app.edit.draft
    /\ \A i \in DOMAIN app.diff.draft.peers : app.diff.draft.peers[i].key = "set"

\* The indicator, which decides whether the Overview offers to start or to stop the daemon,
\* follows what is behind the socket, whatever came and went there before: no answer ends
\* the polls, and no message that is late stays the last one.
IndicatorFollows ==
  /\ <>[](server = "daemon") => <>[](app.daemon \/ ~app.running)
  /\ <>[](server = "nothing") => <>[](~app.daemon \/ ~app.running)
=============================================================================
