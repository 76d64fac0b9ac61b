----------------------------- MODULE CompareTab -----------------------------
(***************************************************************************)
(* The benchmarks of the Compare tab: the keys that start one, the task    *)
(* that relays what the daemon streams (ferro-wg-tui/src/lib.rs), the      *)
(* handlers of AppState (ferro-wg-tui-core/src/state.rs), and the history  *)
(* that is loaded at start and written after each completed run            *)
(* (ferro-wg-tui/src/history.rs).                                          *)
(*                                                                         *)
(* A benchmark is its number.  The daemon is what the protocol allows: any *)
(* number of progress samples, then a result, an error or the end of the   *)
(* stream (today's daemon only answers with the error).  How fast a run    *)
(* was is left out.                                                        *)
(*                                                                         *)
(* Operators whose comment starts with "Variant" are not part of the       *)
(* specification, see TunnelManager.                                       *)
(***************************************************************************)
EXTENDS Integers, Sequences, SequencesExt

CONSTANTS
  CompareConn,  \* connections, by alphabetical order
  Engine,       \* backends that a result may name
  HistoryCap,   \* BENCHMARK_HISTORY_CAP (50)
  ProgressCap,  \* BENCHMARK_PROGRESS_HISTORY_CAP (60)
  MaxRuns       \* bound of the model: benchmarks in a behaviour

ASSUME CompareAssumption ==
  /\ CompareConn \subseteq Nat \ {0} /\ MaxRuns \in Nat
  /\ HistoryCap \in Nat \ {0} /\ ProgressCap \in Nat \ {0}

Run == 1 .. MaxRuns

VARIABLES
  bench,    \* benchmark_running, benchmark_results, benchmark_progress_history
  history,  \* benchmark_history
  named,    \* visible_connections
  task,     \* run -> where its task is
  mail,     \* benchmark messages in daemon_rx
  save,     \* run -> the save its completion has spawned
  file,     \* benchmarks.json
  past,     \* history: what was loaded, and every run completed since
  odd       \* history: what has happened that the flag or the file cannot stand

compareVars == <<bench, history, named, task, mail, save, file, past, odd>>

NoResults == [e \in Engine |-> 0]
Record == [run : Run, conn : CompareConn \cup {0}, results : [Engine -> 0 .. MaxRuns]]
NoSave == [at |-> "none", runs |-> <<>>]
Whole(runs) == [state |-> "whole", runs |-> runs]
Broken(how) == [state |-> how, runs |-> <<>>]

CompareInit ==
  /\ bench = [running |-> FALSE, results |-> NoResults, progress |-> <<>>]
  /\ history = <<>> /\ named = CompareConn
  /\ task = [r \in Run |-> "unborn"] /\ mail = <<>>
  /\ save = [r \in Run |-> NoSave] /\ file = Broken("missing")
  /\ past = <<>> /\ odd = {}

Born == {r \in Run : task[r] # "unborn"}
Running == {r \in Run : task[r] = "running"}
FirstOf(names) == IF names = {} THEN 0 ELSE CHOOSE n \in names : \A m \in names : n <= m

Limit(s, n) == SubSeq(s, Len(s) - n + 1, Len(s))

\* Variant: the oldest runs are kept.
CapHistoryOldest(runs) ==
  IF Len(runs) <= HistoryCap THEN runs ELSE SubSeq(runs, 1, HistoryCap)

CapHistory(runs) == IF Len(runs) <= HistoryCap THEN runs ELSE Limit(runs, HistoryCap)

-----------------------------------------------------------------------------
(* Keys                                                                     *)

\* Dispatch of StartBenchmark and StartBenchmarkForBackend.
AcceptStart(b) ==
  IF b.running THEN b
  ELSE [running |-> TRUE, results |-> NoResults, progress |-> <<>>]

\* maybe_spawn_command spawns the task whether or not a benchmark is running, and
\* tells it of no backend.
StartBenchmark ==
  /\ Born # Run
  /\ bench' = AcceptStart(bench)
  /\ IF named = {} THEN UNCHANGED task
     ELSE task' = [task EXCEPT ![FirstOf(Run \ Born)] = "running"]
  /\ odd' = odd \cup (IF named = {} /\ ~bench.running THEN {"nobody"} ELSE {})
                \cup (IF bench.running THEN {"twice"} ELSE {})
  /\ UNCHANGED <<history, named, mail, save, file, past>>

ToggleNamed(n) ==
  /\ named' = IF n \in named THEN named \ {n} ELSE named \cup {n}
  /\ UNCHANGED <<bench, history, task, mail, save, file, past, odd>>

-----------------------------------------------------------------------------
(* The benchmark task: one response of the daemon's stream                  *)

Post(kind, r, e) == mail' = Append(mail, [kind |-> kind, run |-> r, engine |-> e])

RelayProgress(r) ==
  /\ task[r] = "running" /\ Len(mail) < ProgressCap
  /\ \E e \in Engine : Post("progress", r, e)
  /\ UNCHANGED <<bench, history, named, task, save, file, past, odd>>

RelayResult(r) ==
  /\ task[r] = "running" /\ task' = [task EXCEPT ![r] = "ended"]
  /\ \E e \in Engine : Post("complete", r, e)
  /\ UNCHANGED <<bench, history, named, save, file, past, odd>>

\* An error response, no daemon, or a stream that ends: a toast, which resets nothing.
RelayError(r) ==
  /\ task[r] = "running" /\ task' = [task EXCEPT ![r] = "ended"]
  /\ odd' = odd \cup {"failed"}
  /\ UNCHANGED <<bench, history, named, mail, save, file, past>>

-----------------------------------------------------------------------------
(* The event loop                                                           *)

\* Variant: the flag stays up until the history is on disk.
CompletedStillRunning(b, m) == [b EXCEPT !.results[m.engine] = m.run]

Completed(b, m) == [b EXCEPT !.running = FALSE, !.results[m.engine] = m.run]

\* The run is filed under the connection that is first by now.
Filed(m) == [run |-> m.run, conn |-> FirstOf(named), results |-> Completed(bench, m).results]

Saved == history'

\* Dispatch of BenchmarkComplete, then spawn_save_history_task.
HandleComplete ==
  LET m == Head(mail) IN
  /\ mail # <<>> /\ m.kind = "complete" /\ mail' = Tail(mail)
  /\ bench' = Completed(bench, m)
  /\ history' = CapHistory(Append(history, Filed(m)))
  /\ past' = Append(past, Filed(m))
  /\ save' = [save EXCEPT ![m.run] = [at |-> "queued", runs |-> Saved]]
  /\ odd' = IF \E r \in Run : save[r].at # "none" THEN odd \cup {"apart"} ELSE odd \ {"apart"}
  /\ UNCHANGED <<named, task, file>>

WithSample(progress, r) ==
  Append(IF Len(progress) >= ProgressCap THEN Tail(progress) ELSE progress, r)

HandleProgress ==
  LET m == Head(mail) IN
  /\ mail # <<>> /\ m.kind = "progress" /\ mail' = Tail(mail)
  /\ bench' = [bench EXCEPT !.progress = WithSample(@, m.run)]
  /\ UNCHANGED <<history, named, task, save, file, past, odd>>

-----------------------------------------------------------------------------
(* save_benchmark_history: the file is truncated, then written from its start *)

OpenFile(r) ==
  /\ save[r].at = "queued"
  /\ save' = [save EXCEPT ![r].at = "open"] /\ file' = Broken("empty")
  /\ UNCHANGED <<bench, history, named, task, mail, past, odd>>

\* No directory, no permission: a toast, and the file stays as it was.
OpenFails(r) ==
  /\ save[r].at = "queued" /\ save' = [save EXCEPT ![r] = NoSave]
  /\ odd' = odd \cup {"apart"}
  /\ UNCHANGED <<bench, history, named, task, mail, file, past>>

\* What is in the file once `runs` has been written from its start: the tail of something
\* longer that another save has written since the file was opened stays.
Overwritten(runs) ==
  CASE file.state = "garbage" -> {Whole(runs), Broken("garbage")}
    [] Len(file.runs) > Len(runs) -> {Broken("garbage")}
    [] OTHER -> {Whole(runs)}

WriteFile(r) ==
  /\ save[r].at = "open" /\ save' = [save EXCEPT ![r] = NoSave]
  /\ file' \in Overwritten(save[r].runs)
  /\ UNCHANGED <<bench, history, named, task, mail, past, odd>>

\* A full disk: a toast, and nothing or a part of it is written; the end of the list is
\* missing, so what is there does not load.
WriteFails(r) ==
  /\ save[r].at = "open" /\ save' = [save EXCEPT ![r] = NoSave]
  /\ file' \in {file, Broken("garbage")} /\ odd' = odd \cup {"apart"}
  /\ UNCHANGED <<bench, history, named, task, mail, past>>

\* load_benchmark_history: a file that does not load, or cannot be read, is logged, and
\* overwritten by the next save.
Loaded == IF file.state = "whole" THEN file.runs ELSE <<>>

\* Quit or kill, and the next start.  A save that has not begun is dropped; one
\* that has is ended by a quit and cut short by a kill.
Restart ==
  /\ history' \in {Loaded, <<>>} /\ past' = history'
  /\ bench' = [running |-> FALSE, results |-> NoResults, progress |-> <<>>]
  /\ named' = CompareConn /\ mail' = <<>>
  /\ task' = [r \in Run |-> IF task[r] = "running" THEN "ended" ELSE task[r]]
  /\ save' = [r \in Run |-> NoSave]
  /\ odd' = (IF history' = Loaded THEN {} ELSE {"apart"}) /\ UNCHANGED file

CompareNext ==
  \/ StartBenchmark \/ HandleComplete \/ HandleProgress \/ Restart
  \/ \E n \in CompareConn : ToggleNamed(n)
  \/ \E r \in Run :
       \/ RelayProgress(r) \/ RelayResult(r) \/ RelayError(r)
       \/ OpenFile(r) \/ OpenFails(r) \/ WriteFile(r) \/ WriteFails(r)

CompareSpec == CompareInit /\ [][CompareNext]_compareVars

\* render_live: the table, a bar for every result, and the gauge with the last sample.
Live ==
  [table |-> bench.results, bars |-> {e \in Engine : bench.results[e] # 0},
   gauge |-> IF bench.running /\ bench.progress # <<>> THEN Last(bench.progress) ELSE 0]

-----------------------------------------------------------------------------
(* Properties                                                               *)

CompareTypeOK ==
  /\ bench.running \in BOOLEAN /\ bench.results \in [Engine -> 0 .. MaxRuns]
  /\ Len(bench.progress) <= ProgressCap /\ Len(history) <= HistoryCap
  /\ \A i \in DOMAIN past : past[i] \in Record
  /\ \A r \in Run : save[r].at \in {"none", "queued", "open"}

Due == \E i \in DOMAIN mail : mail[i].kind = "complete"

\* benchmark_running is "true while a benchmark task is running", as long as no
\* benchmark has failed, none was started without a connection and none beside
\* another: after any of these it is not.
FlagHonest ==
  odd \cap {"twice", "failed", "nobody"} = {} => (bench.running <=> Running # {} \/ Due)

\* The live view is about one benchmark: "stale results from a previous run never appear
\* next to results from a new run", nor next to its progress, and the progress is that of
\* the benchmark that runs; unless two ran side by side.
LiveOfOneRun ==
  odd \cap {"twice"} = {} =>
    /\ \A e, f \in Live.bars : Live.table[e] = Live.table[f]
    /\ Live.gauge # 0 => Live.bars = {} /\ Running \subseteq {Live.gauge}

\* The history is the newest runs in the order they completed, also across
\* restarts, and it never repeats one.
HistoryIsNewest ==
  history = (IF Len(past) <= HistoryCap THEN past ELSE Limit(past, HistoryCap))

\* When nothing is being written the file is the history, unless the last save was not
\* alone (then the older may win, or the two are mixed), or it, or the load, has failed.
FileIsHistory ==
  (\A r \in Run : save[r].at = "none") /\ odd \cap {"apart"} = {} =>
    \/ file = Whole(history)
    \/ file.state # "whole" /\ history = <<>>

\* The history is never reordered, repeated or cut but at its old end, in memory and, after
\* a save that was alone and has succeeded, on disk, whatever failed before it
\* (cap_history, save_benchmark_history, load_benchmark_history).
HistoryKept == HistoryIsNewest /\ FileIsHistory
=============================================================================
