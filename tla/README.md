# A TLA+ model of ferro-wg

ferro-wg manages WireGuard tunnels: a daemon owns TUN devices, UDP sockets,
routes and the resolver's settings, and clients, a command line and a terminal
UI, tell it what to do over a Unix socket. This directory models the parts of it
whose correctness depends on the order in which things happen, checks them with
TLC on small instances, and proves some results with TLAPS for every instance.

## Inventory

Paths are relative to `src/`.

| Component | Source | State it keeps | Operations |
|---|---|---|---|
| Tunnel manager | `ferro-wg-core/src/tunnel/mod.rs`, `handle_command` in `daemon.rs` | the config, the map of connections that are up (device name, backend, shutdown channel, saved DNS) | `up`, `up_all`, `down`, `down_all`, `status`, `reload_config`, `Drop`; a packet loop task per connection |
| DNS, route, UDP and TUN adapters | `tunnel/{dns,route,udp,tun_device}.rs` | none of their own; they change the host | `apply_dns`, `remove_dns`, `add_route`, `remove_route`, `create_udp_socket`, `create_tun` |
| WireGuard backends | `backend/*.rs` | handshake and session state inside third-party crates | `create_backend`, per-packet calls |
| Daemon and IPC | `daemon.rs`, `client.rs`, `ipc.rs`, `ferro-wg-daemon`, `cmd_daemon` in `ferro-wg/src/main.rs` | the socket file, the listener | bind, accept loop, one command and one answer per connection, shutdown |
| Packet loop | `packet_loop` in `tunnel/mod.rs`, `stats.rs` | three buffers, the library's counters, a watch channel | read, encapsulate, decapsulate, tick, send, publish, end |
| Log pipeline | `daemon.rs` (`LogLayer`, `LogBuffer`, `handle_stream_logs`), `client.rs` (`stream_logs_from`) | a ring buffer, a broadcast channel, a task per client | add, drain, broadcast, replay, forward |
| TUI session | `ferro-wg-tui/src/lib.rs`, `ferro-wg-tui-core/src/{state,app,action}.rs` | `AppState`: connections, selection, confirmations, input mode, log view | key routing, `dispatch`, background tasks that send `DaemonMessage`s |
| Config editor | `ferro-wg-tui-core/src/config_edit.rs`, `ferro-wg-tui-components/src/{config,diff_preview}.rs`, parts of `state.rs` and `lib.rs` | draft, focus (one in the state, one in the form), diff preview, new peers | edit, add, delete, preview, save |
| wg-quick files | `config/wg_quick.rs`, `config/mod.rs` | the builders of a parse | parse, validate, export |
| Config file | `config/toml.rs`, `try_save_config`, `try_import`, `cmd_import` | the TOML file and its backup | load, back up, write, reload |
| Log view | `ferro-wg-core/src/logs.rs`, `ferro-wg-tui-components/src/logs.rs` | scroll state, filters | scroll, filter, draw |
| Benchmark | `ferro-wg-tui-core/src/benchmark.rs`, `ferro-wg-tui/src/history.rs`, `compare.rs` | `benchmark_running`, progress and result history, the history file | start, progress, complete, save, load, export |
| Rows and frames | `event_loop` and `render_ui` in `lib.rs`; `status.rs`, `overview.rs`, `compare.rs`, `connection_bar.rs`, `connection_filter_overlay.rs`, `status_bar.rs`, `toast.rs` | selected rows, toasts, what is typed | move, act, type, draw |
| Presentation | `theme.rs`, `ux.rs`, help text, colours | none | drawing |

How they interact. A client connects, writes one JSON line and reads one. The
daemon handles one connection at a time: it reads the command, runs it to the
end on the single `TunnelManager`, and answers. `StreamLogs` is the exception:
it is given to a task of its own, which holds the connection. The manager calls
the adapters; a connection that is up is served by a packet loop task that owns
the device and the socket, and is told to end over a channel. The TUI's tasks
call the same client functions and send what comes back to the event loop, which
alone changes `AppState`. The daemon, the TUI and the command line share the
config file, without a lock.

What is hard about it, and what correctness means for each:

* **Tunnel manager.** `up` is six host calls with an early return after each;
  `down` does not wait for the loop it signals, which keeps the device, its routes
  and the UDP port while later commands run; a config reload may come between
  `up` and `down`; `up_all` works through names it copied. Correct: every
  device in use has exactly one owner; a reply is true when it is sent; a
  bring-up does not disturb what is up; everything a connection changed on the
  host is undone at its teardown; every command ends and every signalled loop lets go.
* **Log pipeline.** Five queues, four of them bounded, and a replay that has to
  fit together with a live stream. Correct: nothing that is logged while a
  client is connected is lost without being counted; each half is in order; a
  slow client holds nobody up; handlers of clients that left end.
* **Daemon and IPC.** Daemons start and stop while the file of an earlier one is
  in place and clients are in its queue. Correct: a command is run at most once
  and what the client is told agrees with it; calls return; a daemon that is
  started gets its socket, and one with tunnels up can be reached.
* **TUI session.** Keys, clicks, ticks and the answers of background tasks come in
  any order; a key goes to the first of several overlays and modes that is open.
  Correct: what the screen shows and what gets the keys agree; no mode is a trap;
  polling goes on whatever the answers are, and the daemon indicator follows the
  daemon; a reload never takes away what the tab being drawn looks up.
* **Config editor.** A draft whose peers are numbered, with a focus, a buffer and a set
  of new peers that hold such numbers. Correct: the numbers follow the peers; no
  peer without a key and no range twice is saved.
* **Packet loop.** One buffer holds packets of both directions and the responses of
  handshakes. Correct: only what the library sealed goes out, only what it opened
  goes to the host; counters catch up; the loop ends when it is told to and not before.
* **Config file.** Three programs load, change and rewrite one file without a lock, and a
  write is a truncation and a write. Correct: no change is lost, one of file and
  backup can be read, the daemon and the TUI end up with what is in the file.
* **wg-quick files.** Sections and keys come in any order and repeat. Correct: the parse
  says what the file says, and an export reads back as what was exported.
* **Log view, benchmark, rows and frames.** Keys act on rows, offsets and numbers that
  were right when the last frame was drawn. Correct: a key acts on what the user sees; the
  log view follows or stands still; a history is cut at its old end only; the
  answers of the daemon are shown in the order they were made.

## Modules

| Module | Models | Run by |
|---|---|---|
| `TunnelManager` | the manager, its command handler and the adapters | `MCTunnelManager` |
| `Tunnels` | what the manager promises, abstractly | refined by `TunnelManager` |
| `TunnelManager_proofs` | inductive invariant, theorems, refinement of the safety part | |
| `PacketLoop` | one packet loop with its buffers, and the backends' adapters | `MCPacketLoop` |
| `LoopLife` | what the manager assumes of a loop | refined by `PacketLoop` |
| `PacketLoop_proofs` | inductive invariant, theorem, refinement of the safety part of `LoopLife` | |
| `LogPipeline` | the way of a log entry to a client | `MCLogPipeline` |
| `LogPipeline_proofs` | two inductive invariants and theorems about them | |
| `DaemonServer` | daemon processes, the socket file, the accept loop, calls, the TUI's start task | `MCDaemonServer` |
| `DaemonServer_proofs` | two inductive invariants and theorems about them | |
| `WgQuick` | parsing, validation and export of wg-quick files | used by `ConfigStore` and `WgQuickReader` |
| `ConfigStore` | config.toml, its backup, and the three programs that read and write it | `MCConfigStore` |
| `ConfigStore_proofs` | seven inductive invariants, theorems about the parser and the export, and about what the file, the backup, the TUI and the daemon hold | |
| `WgQuickReader` | the parser, line by line, against what the text says | `MCParts` |
| `AppState` | the TUI's state and `dispatch`, one operator per action, no variables | used by `ConfigEditor` and `TuiSession` |
| `ConfigEditor` | the edit session driven by any order of editing actions | `MCConfigEditor` |
| `ConfigEditor_proofs` | inductive invariant and theorems about it | |
| `TuiSession` | key routing, background tasks, the status poll, the event loop | `MCTuiSession` |
| `TuiSession_proofs` | inductive invariant and theorems about it | |
| `TuiRows` | selected rows, the frames that show them, the keys that act on them | `MCParts` |
| `ConfigTab` | the form of the Config tab, with its own focus | `MCParts` |
| `ConfigDiff` | the diff of a preview and the window over it | `MCParts` |
| `Chrome` | the status bar with its text modes, and the toasts | `MCParts` |
| `StatusView` | status answers from the daemon to the rows | `MCParts` |
| `CompareTab` | benchmarks, their relay, the history and its file | `MCParts` |
| `LogsTab` | the log view over the buffer that the stream task fills | `MCParts` |
| `ConnectionBar` | which connections the bar has room for | `MCParts` |
| `Selection` | the elements of a sequence that a loop keeps | used by `LogsTab`, `ConfigDiff` and `WgQuick` |
| `Views` | the views together, and what they promise together | used by `MCParts` |
| `Views_proofs` | eight inductive invariants and theorems about the views | |

A definition whose comment begins with "Variant" is not part of a specification:
it is the definition that follows it with a plausible bug in it. Replacing the one
by the other makes the property named with it in `PROJECT.json` fail, which shows
that the property can.

### TunnelManager

`config`, `active` and `frame` are the fields of `TunnelManager` and the local
variables of `up`; `step` is the await the daemon task has reached, `call` and
`todo` the command and the names left in the loops of `up_all` and `down_all`.
`dev`, `route`, `sys` and `link` are the host: devices with the packet loop that
owns them and the UDP port beside them, the routing table, the global resolver
and systemd-resolved's per-link settings. A packet loop is identified with its
device, which it owns from `tokio::spawn` until it breaks.

One action is one host call of `up` with both outcomes (`EnterUp`, `Resolve`,
`CreateTun`, `Configure`, `ApplyDns`, `BindSocket`, `SpawnLoop`), one turn of a
loop (`UpAllNext`, `DownAllNext`), or a command that has no await in it (`Down`,
`Status`, and the first half of `SwitchBackend`, which runs `down` and goes on
with `up`). `LoopExit` may come between any two of them. `Abort` is an early
return with a device in hand: dropping device and socket is all that happens.
`Crash` and `Start` are the process's; the kernel takes devices and ports back,
the global resolver keeps its contents.

`Faults` names the host calls that may fail. `Platform` picks the branch of
`dns.rs`: `networksetup` on macOS, whose two writes may fail one without the other,
`resolvectl` with its fall-back, or `/etc/resolv.conf`. The resolver's contents are,
for each of its two fields, the set of tunnels whose settings are in it; the user's
own setting is the empty set. A write to resolv.conf may fail and leave the file
("dns", "dnsdown") or, where the file is a symlink, empty it ("cut"): then no tunnel's
settings are in it, and that the user's own lines are gone as well is not kept.

Not in it: packets, timers and statistics of the loop (they are `PacketLoop`'s),
the interface address, MTU, the second and later peers but for their `allowed_ips`,
which `down` uses and `up` does not, and the text of tool output.

### Tunnels

Two variables: which connection is served by which backend on which device, and
which devices are closing. A backend changes only by a disconnect and a connect; a
device is not handed out before it has been released; fairly, it is released.
`TunnelManager!Promise` maps `active` and the stopping devices to them.

### PacketLoop and LoopLife

`buf` is `tun_buf`, `udp_buf` and `wg_buf`; every content is a number in the order it came
into being, and `sealed` and `opened` say which of them the library made for the network
and for the host. The libraries answer as their types allow; the adapters
(`BoringtunAction`, `NeptunAction`, `GotatunAction`) map the answers as `backend/*.rs`
do. A branch of `select!` is an action up to its send, and the send, which is awaited, is one of
its own; errors of a send are logged and the packet is lost. `stats` is the watch
channel, which only the tick writes.

`LivesAsAssumed` closes the circle with `TunnelManager`, where a loop is no more than
`LoopExit`: under the loop's own fairness it implements `LoopLife`, running until it is told to
stop, and then ending.

### LogPipeline

An entry is its number. `buffer` is the ring buffer, `draining` the batch the
broadcaster has taken and not sent, `sent` the channel's whole history, of which
a receiver can still get the last `ChanCap`; `next` is a receiver's position,
`hand` what a handler has to write, `pipe` the socket and the client's channel
together. `evicted` and `lagged` are history variables: what the full buffer
dropped and what a receiver was told it had missed. A subscription is made in
`Subscribe`, before the handler is spawned; `Snapshot` is the handler's first
step, which copies the buffer without emptying it, while `Drain` empties it.
`LogCommand` says whether the filter lets the daemon's own "Received command"
line through; a lag is logged too, into the same buffer.

### DaemonServer

`file` is what is at the socket path: the daemon that bound it and whether
`set_socket_permissions` has run. `proc` is where each daemon is, from
`exists` through `remove`, `bind` and `chmod`, each a step of its own as in
`setup_listener`, to the accept loop and out of it. A client's slot is one call of
`send_command_to`; when both ends are closed the slot is used for the next call.
A `Starter` is a `spawn_daemon_start` task: its status query, the spawn of
`sudo ferro-wg daemon`, and its polls. Of the tunnels there is one Boolean here, whether
there are any, and `TunnelsAfter` has what an answer leaves open: an Up, which also
stands for SwitchBackend, may have changed them before it fails, and a Down of one
connection may leave others. `TunnelManager` says when it is which.

### WgQuick, WgQuickReader and ConfigStore

A wg-quick text is a sequence of lines whose values are already split at the commas.
`WgQuick` has the parser's step, the builders, every check of `validate` that a load
meets, and the export. `WgQuickReader` reads any text that can be put together from
`Pieces` and compares the result with what the text says, which is stated without the
parser's state: which header is the last above a line, and which lines give a key.

`ConfigStore` has the file and its backup as what a reader finds: nothing, an empty file, a whole
one, a mixture that does not load, or the beginning of one that may. `Beginnings` says what a cut
TOML can still say, since connections, peers and the rest of a peer are serde defaults: the
connections in alphabetical order (`Rank`) up to one of them, of that one at least the first peer,
and of the last peer at least what stands before its keepalive. A task of the TUI (`SpawnSave`,
`SpawnImport`) or `ferro-wg import` (`CliImport`) goes through `LoadFile`, the backup's and the
file's truncation and write, each a step that others may see, and the message to the TUI. The
daemon reads the file for an Up and a Status; a tunnel that is up is the config it was brought up
with. `odd` records what a property excludes by name: two writers at once ("overlap"), a message
on the way while the next task loads ("late"), the command line ("cli"), a draft or name that
nobody checks ("refused"), a write that was cut ("save cut", "import cut"), a writer that loaded
what such a write had left ("cut read").

### AppState, ConfigEditor and TuiSession

`AppState` is a module of operators: each `Action` that changes what the properties
are about is a function from the state record before `dispatch` to the one after it.
A config is one interface field and the peers, a peer whether its key is set and
its allowed IPs; `edit` is `ConfigEditState`, `diff` the preview, `confirm` the
dialog. Indices count from 1 and section 0 is the interface, so `new` holds the
same peers as `new_peer_indices`. Errors are one Boolean, "some error is shown",
because `validate_field` clears or sets the one of the field that is open.

`ConfigEditor` takes the handlers as the library that `AppState` is: any editing action at any
time, but for the two modal overlays. That is more than the keys can do today. `TuiSession` has
the keys as they are: the branches of `handle_key_event` are `AtHelp`, `AtFilter`, `AtDiff`,
`AtConfirm`, `AtStatusBar` and `AtTabs`, and each key action names its branch. A background task
occupies a slot until its answer has been handled, and is what its answers tell apart; `inFlight`
is `poll_in_flight` and `polling` the task that clears it; `inbox` is the channel of
`DaemonMessage`s. `server` is what is behind the daemon's socket, a daemon, nothing, or something
that answers with a response nobody expects or breaks the call off; it changes at any moment. A
poll and a task of the user's may end in silence then (`Silent`, `lib.rs:955`, `:1119-1128`):
nothing tells the user, and no property says that something does. `Quit` ends the loop and aborts
what runs. The two specifications share the handlers and not the variables: in `TuiSession` the
editor is reached through the keys, in `ConfigEditor` through every action there is.

### The views

Each of these modules has one part of the screen with the state behind it, and in each the
event loop's turn is what interleaves: messages are handled, the loop waits, one event
is handled, a frame is drawn.

* `TuiRows`: connections, the visible ones and a search query are sets, `rows` is the
  selected row of each table, `frame` what the last frame highlights. Messages may reload
  the connections before the loop waits (`late`). `acted` holds what a key acted on and what was
  highlighted then.
* `ConfigTab`: `viewed` is the first visible connection, `focus` the component's,
  `session` the part of `config_edit` that the form looks at.
* `ConfigDiff`: all pairs of short texts, and every scroll position the preview can have
  before it panics.
* `Chrome`: a text is a sequence of characters, a toast its number; `Wait` lets time pass.
* `StatusView`: `readings` is all that the daemon has had of a tunnel; an answer, a message
  and a row hold the number of the reading they were made from, so that "older" has a meaning.
  A poll's task sends its message and clears the flag in two steps.
* `CompareTab`: a benchmark is its number. The daemon streams what the protocol
  allows. A save of the history truncates and then writes, may fail before either, and a restart
  may come in between; a load may fail. `odd` has "apart" from a save that was not alone, a
  failed save or a failed load until the next save that is alone and succeeds.
* `LogsTab`: the stream task may append between a key, which uses the height of the last
  frame, and the frame after it.
* `ConnectionBar`: one frame. The loops that count digits and let the window grow are recursive
  functions, a round of the loop for each step of the recursion.

`Views` states what several of them promise together; the conjunction of their
specifications is their composition.

`MCParts` puts them together with `WgQuickReader` in one run. They share no variables and
none disables another, so the state space of their interleaving would be the product of
theirs and say nothing more; the variable `moving` picks which one makes all the steps.

## What is checked

| Run | Shows |
|---|---|
| `manager_safety` | with two connections, all commands, three backends of which one is not compiled in, any of ten host calls failing, crashes, and reloads to a config that drops a connection, breaks it, or lets it collide in port and destination: `TypeOK`, `LoopsOwned`, `ReplyTruthful`, `ActiveDnsInEffect`, `UpSparesOthers` |
| `manager_live` | under fairness, with crashes, on the systemd-resolved platform, whose fall-back may cut resolv.conf: `CommandsComplete`, and `KeepsPromiseFairly`, the implementation of `Tunnels` |
| `manager_teardown` | under the conditions below: `RoutesFollowActive`, `DownRestoresDns` |
| `packet_loop` | with each backend: `PacketsKeptApart`, and under fairness `StatsCatchUp` and `LivesAsAssumed` |
| `log_stream` | `NothingLostSilently`, `Consistent`, `Arrives`, `LeftHandlersEnd` for one client that may be slow, stop reading or leave |
| `server_calls` | two clients, one daemon that is shut down, crashes, fails in `accept` and is started again: `Consistent` (what a client is told agrees with what was run), `CallsReturn`, `ShutdownEnds` |
| `server_restart` | two daemon processes one after the other, one start task, one other client: `TunnelsReachable`, `SetupSucceeds` |
| `config_store` | with any order of two tasks, polls, commands, restarts, kills, and writes that fail at any point and leave a file that may still load: `NoChangeLost`, `Recoverable`, `Consistent`, `TuiMatchesFile`, `ReconnectGetsSaved`, and `DaemonCatchesUp` |
| `config_editor` | `PlaceholdersTracked` and `NothingUnkeyedSaved` for every order of the editor's actions and reloads |
| `tui_session` | `Consistent` (types, one overlay, modes with something behind them, visible connections that exist), `DiffIsDraft`, and under fairness `IndicatorFollows`, for every order of keys, clicks, ticks, answers and changes of the daemon |
| `parts` | the views and the parser: `ActsOnHighlighted` (`TuiRows`), `RowsFollow` (`StatusView`), `LogViewSteady` (`LogsTab`), `TabsConsistent` (`LogsTab`, `CompareTab`), `HistoryKept` (`CompareTab`), `ScreenFaithful` (`ConfigDiff`, `ConfigTab`, `Chrome`), `FileFaithful` (`WgQuickReader`), `BarFits` (`ConnectionBar`) |

`manager_teardown` states the conditions under which host state is reverted:
destinations stay with their connection in every config the daemon loads, every
route deletion succeeds, the two configs name the same connections, only one
connection sets DNS, and nothing fails between the DNS step and the end of `up`
(so that connection's port is the kernel's choice and its backend exists). It
does not need the loops to be gone: the other connection has a fixed port and
meets its own old loop. Drop any of these conditions and a property
fails; one such failure is a run of its own.

### Where the code does something else than its documentation says

`dns_stacked`: take two connections with DNS down in the order they came up. The first
`down` skips the revert because of the other and drops the saved settings with its
entry; the last one writes back what it found, the first tunnel's. `dns.rs:3-4` promises a
clean revert on teardown.

Others were seen while modelling and have no run of their own; the models have them as
the code does, and a property that they would break excludes them by name.

The daemon and its tunnels:

* `down` deletes the destinations the config has now. After a reload that moved one to
  another connection, it deletes that connection's route; `tunnel/mod.rs:65-66` says that
  active connections are not affected.
* A failure after `apply_dns` returns from `up` without `remove_dns`, so the tunnel's
  resolver stays.
* After a crash, the next bring-up saves the tunnel's settings as the original
  (`DownRestoresDns` with the fault `crash`; `dns.rs:540-542` says it will be
  restored correctly).
* Where `/etc/resolv.conf` is a symlink it is truncated and written in place
  (`dns.rs:429-430`). A write that fails then leaves it empty: the settings of other
  connections are lost, and so are the user's, which the failing `up` has read and drops
  (`WriteCut`; `ActiveDnsInEffect` is about runs without it).
* `SwitchBackend` binds the fixed listen port while the loop its own `down` has
  signalled may hold it; then the connection stays down (`ipc.rs:139`:
  "disconnects and reconnects").
* The broadcaster empties the buffer every 10 ms, and that is the buffer a new client's
  replay is taken from: there is next to nothing in it, where `daemon.rs:215` says "so the
  client sees context on connect". What is in it is broadcast again afterwards, so a client may
  read an entry twice, and older ones after newer ones.
* A second `ferro-wg daemon` by hand removes the socket file of one that is serving
  (`ByHand = "anytime"` in `DaemonServer`). The TUI's guard against a second daemon asks and
  then acts, and nothing records a start in progress (`Overlap`), where
  `docs/phase-4-implementation.md:221-223` says that it prevents double-spawn races.
* The first `Status` before a loop's first tick has default statistics. The UDP socket is
  an IPv4 one, whatever the endpoint. Decapsulation is not repeated after a result for the
  network, as the test at `backend/boringtun.rs:175-176` does.

The config file:

* Two writers at once lose a change or mix the file ("overlap"), and the messages that tell
  the TUI may come in another order than the writes ("late").
* A `config.toml` that was cut may load, with fewer connections or peers (`Beginnings`):
  nothing in it says where it ends. The next save then copies what is left over the backup
  (`lib.rs:1027-1034`), which `docs/phase-6-implementation.md:567` counts on for a manual
  recovery. `Recoverable` excludes a writer that loads such a file ("cut read").
* A save does not validate its draft (`docs/phase-6-implementation.md:83`, `:365`, `:563`), and
  an import not the name it takes from the file's stem ("refused"); the file may not
  load afterwards. Imports make no backup.
* A save with reconnect goes on to Down and Up when the save has failed; quitting
  between the two leaves the connection down.
* An export has no firewall mark, and peers' names only as comments.

The editor:

* `EditField` has no branch in `handle_key_event` (`lib.rs:325-329`): Esc goes to the
  global keys and quits the TUI, where `docs/phase-6-implementation.md:71` says that it
  cancels the edit and `config_edit.rs:60` that it discards; typed characters never reach the
  buffer. An edit ends by changing tabs. Nothing emits the actions that move the state's focus,
  so no peer is edited and `x` never asks.
* `/` or `i` in the middle of an edit leave the buffer open in Normal mode; then `j` and
  `k` show it as the text of other fields. A reload shows another connection's form with the
  buffer. `e` on another field starts a new session and drops the peers added before; `+`
  opens a buffer that no line shows.
* A confirmed deletion of a peer is dispatched twice, by `ConfirmYes` and by the key
  handler, and takes the next peer too. `ConfigEditor!Delete` has both.
* The diff compares line i with line i; `config_edit.rs:509-513` describes a longest common
  subsequence with context. Scrolling it has no upper bound, and `diff_preview.rs:97` slices
  from the offset: past the last line the TUI panics (`Rendered`).
* `state.rs:258-260` says that `ConfirmNo` after `DeletePeer` clears the edit session;
  the code only closes the dialog.

The views:

* A `ReloadConfig` is handled after a frame and before the wait, so a key may act on a
  connection that the frame did not highlight (`late`). On a terminal too small to draw,
  keys act unseen. Enter and `w` on the history of the Compare tab act on the row of the
  live table behind it.
* The Overview always highlights its first row (`overview.rs:111`), the bar always
  the first entry, and `[` and `]` do nothing.
* In the log view, `j` in a view that follows the log jumps near the oldest entry and `k`
  does nothing, because the offset is that of the last scroll (`docs/phase-3-implementation.md:50`,
  `:655`). Evicted entries move a scrolled view (`:664-674` describes a correction that is not
  there), and so do a search and the connection filter.
* `benchmark_running` is reset only by a completion, so it stays after an error or a start
  without a visible connection (`state.rs:235-243`), and a second task is spawned beside a
  running one. Results are filed under the connection that is first by then; the
  backend of a `StartBenchmarkForBackend` is never sent; two saves of the history at the same time
  may mix.
* The log stream is opened once (`lib.rs:443`): started before the daemon, the TUI never gets
  logs. Rows keep "Connected" when the daemon is gone. Where nothing has been answered yet, the
  Status tab says "down" and the Overview "—".

### Bounds

* Connections, devices, routes: two connections are needed for one to disturb the
  other; three devices for two connections and a loop that is still closing, so that
  running out of devices is the `tun` fault and not the bound. `manager_live` has
  two, where running out happens. The configs of `MCTunnelManager` are chosen, not
  enumerated: one for each way a reload matters.
* `MaxContents` 6 in `packet_loop` is two packets or datagrams in each direction with what the
  library makes of them, so that every buffer is written again while something
  older is on its way. It ends the traffic, not the ticks, and is why deadlock is not checked.
* `BufCap` 2, `ChanCap` 1 and `PipeCap` 1 for five entries: the buffer overflows,
  the receiver lags, and the client's side fills, all within one behaviour.
  `MaxEntries` ends the model, not the code, so deadlock is not checked there.
  Streams share nothing but the buffer and the channel, neither of which a handler
  changes, and the entries their lags add; one stream with free logging
  meets what another could do to it.
* One daemon with two clients for calls: one in front of the other in the queue. Two
  daemons for restarts: the one that is leaving and the one that comes.
  `MaxPolls` 2 stands for 6: a poll that fails and goes on, and the last.
* `Overlap` FALSE keeps a start from beginning while another is in setup, and
  `ByHand` "stopped" keeps the user from starting a daemon next to one that serves.
  Without them `SetupSucceeds` and `TunnelsReachable` fail.
* `config_store` has two tasks, which is what an overlap takes, and four sources: a good one, one
  whose peers' names get too long, one with a name that is refused, and one without a peer.
  Of the two drafts one has two peers, of which a cut may lose the second, and one has none. It
  ends when both tasks are done and the daemon has read the file, so deadlock is not checked.
* `config_editor` has one connection, since a session is about the first visible
  one, with one peer or two in its file and drafts of up to three: a deletion
  before, at and behind the focus and a new peer. Two ranges are enough for an
  overlap; `MaxScroll` 1 scrolls down and up.
* `tui_session` has two connections and two files, one of them without the first
  connection, so that a reload takes away what is being edited or shown. One slot:
  tasks meet only in `inbox`, and the poll is a second sender there. `MaxStatus` 1
  bounds the polls whose answers have not been handled; the loop drains the channel
  on every turn. `MaxPeers` 2 is one new peer in the first connection and none in the second,
  whose file has two; `DiffLines` 1 makes the panic reachable.
  Deadlock is not checked because the user may quit.
* `parts`: every capacity is small enough to be overrun (three log entries of
  four, a history of two of three runs, one sample, two toasts of three). Texts of up to five
  pieces hold two headers of a kind with something between. Three connections let a filter
  or a search leave rows above and below a selected one. The bar's widths and counts are those
  around each digit, arrow and threshold. The diff's texts are all those of up to
  three lines of two kinds. A tunnel has three readings, two messages may wait and two polls
  could run, so that a second poll would overtake the first.

Symmetry is used for the devices in the two safety runs of the manager, and
nowhere where liveness is checked.

### Fairness

* `TunnelManager`: weak fairness of the daemon task's next step and of each signalled
  loop's exit. The runtime polls a ready task; every host call of `up` returns; a
  signalled loop ends, which `PacketLoop` shows. No fairness for commands, crashes or
  starts.
* `PacketLoop`: weak fairness of the sends, and strong fairness of the tick and of the
  shutdown branch: `select!` picks at random among the branches that are ready, so
  traffic cannot keep one out that is ready again and again. A send is assumed to return.
* `LogPipeline`: the broadcaster, whose sleep is 10 ms, and each handler. That a
  client reads is an assumption of `Arrives` alone.
* `DaemonServer`: a daemon's steps; that a client that has connected writes its
  line and notices a closed connection (`send_command_to` does one after the
  other without waiting for anything else); a start task's steps. A
  client that connects and never writes would block the accept loop for as long
  as it likes; `Abandon` is how it goes away, and nothing forces that.
* `ConfigStore`: the TUI's polls only, which every tick starts. Tasks may be slow for ever.
* `TuiSession`: ticks, the poll's end, the handling of a message and each task's end.
  The loop drains the channel before it waits and is woken every 250 ms; the runtime
  polls the tasks, whose calls return (`DaemonServer!CallsReturn`). No fairness for
  keys, and none for what is behind the socket: that it stays as it is from some moment on
  is the premise of `IndicatorFollows`. `ConfigEditor` and the views have no liveness property.

## What is proved

### The manager

`TunnelManager_proofs` proves, for every value of the constants that satisfies
`ConstantsAssumption` (names are ordered without ties, the compiled backends are
among the backends, the three null values are not in the sets they extend, ports
are not 0, configs are maps of the `WgConfig` type, the platform is one of three):

* `TypeCorrect`: `Spec => []TypeOK`;
* `ControlCorrect`: `Spec => []ControlOK`;
* `Ownership`: `Spec => []LoopsOwned`;
* `RepliesTruthful`: `Spec => []ReplyTruthful`;
* `Refinement`: `Spec => KeepsPromise`, the abstract `Tunnels!Spec` under the
  mapping, without its fairness;
* `OthersSpared`: `Spec => UpSparesOthers`;
* `DnsKept`: `Spec => []ActiveDnsInEffect`;
* `RoutesKept`: `RoutesStay => (Spec => []RoutesFollowActive)`;
* `DnsRestored`: `\A a \in Conn : OnlyResolver(a) => (Spec => DownRestoresDns)`.

The last two hold under conditions on the constants, which the configs and faults of
`MCManagerTeardown` satisfy. `RoutesStay`: a destination belongs to the same connection in every
config the daemon may load, and removing a route does not fail. Without it `down` leaves routes to
a dying device, and the next `up` finds "File exists". `OnlyResolver(a)`: only `a` sets DNS, its
port is the kernel's choice, nothing after `apply_dns` fails or crashes, and no write is cut. Each
of these is a case in which the code loses the saved settings (see the stacked DNS run and the
hazards).

The inductive invariant is `IInv == TypeOK /\ ControlOK /\ LoopsOwned`. Ownership
is not inductive alone: that `SpawnLoop` gives a device its first owner and not its
second needs the frame to hold a device at that point and the connection
not to be in the map, after the reloads and loop exits that came between. That is
`ControlOK`, and it needs the types. `ReplyTruthful` is preserved given `IInv`: an
`Ok` is written only in the step that makes it true, and nothing but the
daemon task changes the map while it is idle. For `Refinement`, most steps leave
the view alone; `Remove`, `Close` and `SpawnLoop` each have a lemma that maps
them to `Disconnect`, `Release` and `Connect`, a `Crash` to `Lose`, and the
device that `SpawnLoop` connects is not in use because the frame holds it.

The host's side needs an invariant for each theorem, next to `IInv`. `OthersSpared` rests on
ownership alone: `up` closes only the device of its frame, and no entry has that one.
`DnsInv` adds to `ActiveDnsInEffect` that the state `up` has in its frame is in the file
too, for the time between `apply_dns` and the insertion into the map; a `down` writes its copy
back only when no other entry has a state; like the property, it leaves out the fault "cut".
`RouteInv` says whose the routes are: every route
is that of an entry or of the `up` in progress. So a loop that was told to stop owns none,
and its late exit takes none with it; and `up` finds its destinations free. `RestoreInv(a)`
says that what a DNS state does not give back is as the user has it, and that without a
state the resolver is the user's; the frame is covered for the same reason as in `DnsInv`.

### The config editor

`ConfigEditor_proofs` proves, for every set of connections, ranges and files and for
drafts of any length, from `AppStateAssumption` (names are positive numbers, ranges
numbers) and `EditorAssumption` (files are maps of configs, and every peer in a file has
its key, which the loader demands):

* `TypeCorrect`: `Spec => []TypeOK`;
* `Tracked`: `Spec => []PlaceholdersTracked`;
* `Keys`: `Spec => []NothingUnkeyedSaved`;
* `FocusKept`: `Spec => []FocusValid`.

The invariant is `Good(app)`, a predicate on the state record: the type, `new` equal to
the placeholders of the draft and a valid focus when there is a session, keys in
every connection, known names in what is visible, keys in the preview. `Keys` needs
`Tracked`, because `PreviewConfig` looks at `new` and not at the draft; `Tracked`
needs the connections to have keys, because a session starts with an empty `new`; and
a confirmed key keeps the focus valid only since the key is the first field of two.
There is one lemma per handler, `Good(s)` implies `Good(handler(s))`, and under the
deletion, the hard one, `RemoveAtProperties` (what is where after a removal) and
`ShiftDownTracks` (the shifted indices are the placeholders of the shorter
draft). `LeastNumber`, that `Min` of a set of names is in it, uses that < is
well-founded.

### The views

`Views_proofs` proves, for any constants that satisfy the modules' assumptions (capacities,
heights and names are numbers, the log's entries are typed, `Global` is no connection, there
are finitely many rows):

* `TabsStayConsistent`: `LogsSpec /\ CompareSpec => []TabsConsistent`;
* `HistoryIsKept`: `CompareSpec => []HistoryKept`;
* `LogViewKept`: `LogsSpec => LogViewSteady`;
* `RowsActedOn`: `RowsSpec => []ActsOnHighlighted`;
* `ScreenStaysFaithful`: `DiffSpec /\ FormSpec /\ ChromeSpec => []ScreenFaithful`;
* `StatusTypeCorrect`: `StatusSpec => []StatusTypeOK`;
* `RowsFollowDaemon`: `StatusSpec => []RowsFollow`;
* `BarAlwaysFits`: `BarSpec => []BarFits`.

Each view has an invariant of its own.

* `StatusInv`. That a row shows the newest reading it has ever shown is not inductive: the
  invariant puts everything on its way in order, the messages in the queue among themselves
  (`InOrder`), the poll's own answer behind all of them, and everything behind what is shown. A
  poll's answer can only go to the end of that order because it is alone, which is `OnePoll`:
  the flag is set while a poll runs, and is cleared after its message was sent.
* `CompareInv`. `FlagHonest` and `LiveOfOneRun` need `OneRun`: as long as no second benchmark
  was started beside a running one, everything shown or in the mail is of the one the flag is
  about, with its result as the last message, and while the flag is down nothing is on its
  way. The file needs `OneSave` and `FileFits`: unless something is "apart" (two saves overlapped,
  or one or the load has failed, since the last save that was alone and succeeded), the save that
  is under way holds the history as it is, and the file is empty once it has begun.
* `LogsInv`. `PageStands` says of a view that was scrolled that the lines on the page are, as
  long as nothing has been evicted since, a prefix of what a frame would show now. `FilteredGrows`
  is what it rests on: an entry added at the end of the log adds at most one at the end of
  what passes the filters. `NewestIsShown` is about the frames of a view that follows.
* `RowsInv`. Unless something was reloaded since, the frame highlights what is selected in the
  list that the state has now (`FrameIs`): a key that changes a list is followed by a frame. The
  tables differ in what they do to a row that is out of range, hence `ClampedIs` and `OnScreenIs`.
* `FormInv` says when the focus of the tab is that of the session, `ChromeInv` is about the
  paths and the toasts: a toast expires no later than one pushed after it, and one that is no
  longer in the queue has expired or was pushed out. `DiffInv` says that the window is that
  of two sequences of lines.
* `BarInv` says only that the bar is that of some count, name and width. The rest is about
  operators: after as many rounds as there are entries the window fits (`Fitting`) and no
  neighbour does (`Full`), and the widths are those of what is drawn (`WidthsAre`).

What loops compute is proved too. The library's induction theorems cannot be
instantiated here, but `InductionOnSets`, which follows from the well-foundedness of <, takes
a set where they take an operator. A recursive function is a CHOOSE, so each has the same
lemmas: a function that satisfies the equation exists for every length, such a
function satisfies it at each point, and two of them agree. `Picked` (the filtered log, the
sides of a diff), `ConfigDiffOf`, `DigitCount`, `Columned` and `Grown` are handled this way, and
`ReadLines` and the library's `FlattenSeq` in `ConfigStore_proofs`. That the
diff is faithful, for instance, is an induction over the turns of the loops of `config_diff`:
what is not `Added` is the old text so far, and what is not `Removed` the new one.

### The log pipeline

`LogPipeline_proofs` proves, for any number of clients and entries and any capacities of at
least one (`LogAssumption`):

* `TypeCorrect`: `Spec => []TypeOK`, with every queue within its capacity;
* `NothingLost`: `Spec => []NothingLostSilently`;
* `Ordered`: `Spec => []Consistent`, the type and `HalvesOrdered`.

For `NothingLost` the invariant adds to the property where a handler may be: its place in the
channel is at most one past the end, it holds nothing before it streams, and a client that has not
connected has no handler. The step is one statement, `Carries`: whatever a watched stream was owed
is still in one of the six places after the step, the entry the step logs is in one of them, or
the stream owes nothing because it subscribes in this step. Each action moves entries between two
neighbouring places, and its lemma says which: `AddEntry` from the buffer to the evicted, `Drain`
to the batch, `Broadcast` to the channel ahead of every receiver, `Recv` to the hand or, for those
overrun, to the lagged, `Write` and `Read` to the client. The snapshot may overwrite the hand
because it is empty, which is where the typing is needed.

`Ordered` has an invariant of its own, `OrderInv`. In the daemon, entries get newer from the
channel over the batch to the buffer (`InOrder`); for a stream, what the client has read, what
is in the socket and what the handler holds follow each other in order, and every live item
stands in the channel before the receiver's place (`QueuesInOrder`). The last part is what
makes the next item the channel gives newer than all before it, after lags too. The relations
are sets of pairs, so the lemmas about sequences (`AppendSorted`, `TailSorted`, `MoveSorted`,
`ConcatSorted`) serve entries and items; then there is one lemma for each way a queue changes
(`QueuesWritten`, `QueuesRead`, `QueuesDropped`, `QueuesReplay`, `QueuesReceived`).

### The packet loop

`PacketLoop_proofs` proves, for any traffic, any length of it, and any results of the backend,
from `LoopAssumption`:

* `Separation`: `Spec => []PacketsKeptApart`;
* `LifeRefinement`: `Spec => LivesSafely`, which is `LoopLife` without its fairness.

That what went out is a subsequence of what was sealed is not inductive. Contents are
numbered as they arise, and the invariant says that both lists of a direction rise, that
everything that went out was made for that direction (`Apart`), that what is being sent was
made for it and is newer than all that went out, and that a loop that has ended was told to
stop. The order-preserving map that `IsSubsequence` asks for is then where the list of what
was made has each packet (`ApartIsSubsequence`).

### The daemon's socket

`DaemonServer_proofs` proves, for any number of daemon processes, clients and start tasks,
from `ServerAssumption`:

* `Truthful`: `Spec => []Consistent`, the type and `OutcomeTruthful`;
* `StartsSucceed`: `~Overlap /\ ByHand # "anytime" => (Spec => []SetupSucceeds)`;
* `Reachable`: `~Overlap /\ ByHand # "anytime" => (Spec => []TunnelsReachable)`.

`Truthful` holds for starts of every kind, overlapping ones included. A command runs once
because a connection is in one place, and that rests on three facts which are inductive only
together: who waits in a queue or is served belongs to that daemon and is open or gone, its
command has not run, and a slot is used again only when no queue and no handler has it.

The two others are about starts one after the other; the run `server_restart` checks them
under the same constants. `SetupInv` says what each place of `setup_listener` counts on
(`Path`), that at most one daemon is being set up and none serves meanwhile (`OneSetup`), that
at most one start task is under way (`OneStart`), and what a task that looks for a daemon has
found out (`Looks`): while it asks, a daemon that serves can only be the one it is connected
to, and an answer other than Ok or Error means that there is none. Without the last, a task
could spawn a daemon that takes the path away from one that serves.

### Wg-quick files

`ConfigStore_proofs` proves, for any set of texts made of `TextLine` and any tokens
(`ReaderAssumption`, `WgQuickAssumption`):

* `FileStaysFaithful`: `ReaderSpec => []FileFaithful`.

The first half, `ParsedAsWritten`, needs the invariant `ReaderInv`, whose parts are about the
parser `s` after the lines so far (`Kept`):

* `Says`: unless there was an error, every field has the value that `Means` gives its key, the
  section is that of the last header, and there are as many peers as [Peer] headers. A line
  adds at most one value to what its section gives its key (`GivenNext`), and no header changes
  the section of a line above it (`SectionStays`). The new [Peer] is given nothing yet
  (`BuilderSays`).
* `Shape`: the fields are there, and a file in a [Peer] section has a peer, which is why
  the last one may be assigned to.
* `Admitted`: each value was admitted by its kind or is the builder's default.

`KeptNext` is one turn of the loop, `LoopKept` the induction over the lines of a piece.

The second half, `ExportedIsImported`, is about what was read, so `ReaderInv` is its hypothesis too:
`ParsedWritable` says that the addresses of the DNS line are addresses and its domains are
not (`DnsApart` tells them from each other again), and that a number or a key is admitted once
more. The export is then read part by part: reading goes through one text after another
(`ReadConcat`), and so through the parts of a list (`ReadFlattened`). For each key the
lines that are written put its field into the builder and leave the others alone
(`ReadInterfaceKey`, `ReadPeerKey`); after all keys the builder is the section (`ReadInterface`,
`ReadPeer`), with the default for the firewall mark, which is not written.

### The config file

`ConfigStore_proofs` proves, for any number of tasks, files, drafts and faults:

* `ChangesKept`: `Spec => []NoChangeLost`;
* `SavesRecoverable`: `Spec => []Recoverable`;
* `TuiFollowsFile`: `Spec => []TuiMatchesFile`;
* `StoreConsistent`: `Spec => []Consistent`;
* `ReconnectExact`: `Spec => ReconnectGetsSaved`.

`StoreAssumption` says what files there may be at first (missing, one that is cut and does not
load, or valid), that names have an order, and that what is imported is a text. That the parser
makes of it a sequence of peers with the fields of a builder is a lemma, `LoopKept`, and no
assumption.

None of the properties is about the file alone, since nobody locks it. The invariants are
implications from the flags in `odd`, which are never cleared, but for "cli" when the TUI
starts, and then it loads the file.

* `ShapeInv`: the types, and who is alive; no task of the TUI without the TUI.
* `CutInv`: where there is a file without its end, or a writer has loaded one, a write was cut,
  and `TuiMatchesFile` leaves such writes out.
* `FileInv`: until two writers overlap or one loads a cut file, at most one task is between its
  load and the end of its write, what it has loaded is everything that was written, and the file
  still is that, or is truncated and about to be rewritten. It also gives `ReconnectExact`,
  because the daemon reads the file again for the Up.
* `BackupInv`: a save truncates the file only with a whole backup, and once the file is cut
  whoever gets past the load is flagged.
* `ShownInv`: the last message on its way to the TUI, or what the TUI has when there is none,
  is what the file holds, unless a task has written and not yet sent.
* `ValidInv`: what is in memory on the way to the file has been validated. The parser's results
  have been, and naming the peers touches only what `Refused` looks at.

### The TUI's session

`TuiSession_proofs` proves, for any files, any number of background tasks and drafts of any
length, from `AppStateAssumption` and `SessionAssumption` (every peer in a file has its key,
as in `EditorAssumption`):

* `SessionConsistent`: `Spec => []Consistent`;
* `PreviewFaithful`: `Spec => []DiffIsDraft`.

The handlers check little of what the properties say: they keep them because of the state in
which the routing lets a key reach them. So the lemma about a group of handlers assumes what
`handle_key_event` has asked before: nothing for the overlays, `Clear` for the tabs, an open
preview for the keys of the preview. The parts of the invariant `Good(app)` need each other:

* `Exclusive`, the overlays pair by pair, gives `OneOverlay`.
* `Backed`, that an edit mode has its field, survives `SaveConfig`, which drops the session
  and leaves the mode, only because a preview is never open over a field.
* That is part of `Previewed`, and comes from the Config tab's guard on Normal.
* `Tracked`, that the session knows every peer without a key, is what `PreviewConfig` relies on
  when it looks at `new` alone.
* `NoDeletion`, that no key asks to delete a peer, keeps the dialog's answer off the draft.

A reload replaces the connections and nothing of the session, which is why `Previewed` speaks
of the draft.

### What is only model-checked

* Liveness, everywhere: `CommandsComplete`, the fairness in `KeepsPromiseFairly` and
  `LivesAsAssumed`, `StatsCatchUp`, `Arrives`, `LeftHandlersEnd`, `CallsReturn`, `ShutdownEnds`,
  `DaemonCatchesUp`, `IndicatorFollows`. The prover handles neither ENABLED nor fairness.

Every invariant and every action property that a run checks is stated by a theorem.

## Not modelled

* Presentation: theme, layout, colours, help text, the columns of the Peers tab, the wording of
  messages, time stamps, the highlighting of matches.
* Values without behaviour: keys, error types, the fields of a config that only validators
  look at one by one.
* The exports of the benchmark history (`w` on the Compare tab), pure formatting of a list the
  model has.
* Argument parsing and the commands that only print (`status`, `config`, key generation,
  completions).
* The text of TOML and of tool output (`route`, `resolvectl`, `networksetup`): they are read
  or not, as the fault says.
* The WireGuard libraries: `PacketLoop` takes their results as inputs. `reset`, which
  nobody calls.
* Errors of the terminal, after which the TUI ends.

What would come next: the text of config.toml, which `ConfigStore` takes as written or cut, read
and written as the wg-quick files are.
