---------------------------- MODULE LogPipeline ----------------------------
(***************************************************************************)
(* The way of a log entry from the daemon's tracing layer to a client that *)
(* sent StreamLogs: LogLayer puts it into the LogBuffer, a broadcaster     *)
(* drains the buffer every 10 ms into a broadcast channel, a task per      *)
(* client replays what is in the buffer and then forwards the channel to   *)
(* the socket, and the client reads it (daemon.rs, client.rs and the two   *)
(* places that spawn the broadcaster).                                     *)
(*                                                                         *)
(* An entry is its number: entry i is the i-th that was logged.  The       *)
(* socket's buffer and the client's mpsc channel are one bounded queue.    *)
(* Operators whose comment starts with "Variant" are not part of the       *)
(* specification, see TunnelManager.                                       *)
(***************************************************************************)
EXTENDS Integers, Sequences, Functions

CONSTANTS
  Stream,      \* clients that send StreamLogs
  BufCap,      \* LogBuffer capacity (1000)
  ChanCap,     \* capacity of the broadcast channel (1000)
  PipeCap,     \* entries between the stream task and the client
  LogCommand,  \* does the log filter let "Received command" through
  MaxEntries   \* bound of the model: entries logged in a behaviour

ASSUME LogAssumption ==
  /\ BufCap \in Nat \ {0} /\ ChanCap \in Nat \ {0} /\ PipeCap \in Nat \ {0}
  /\ LogCommand \in BOOLEAN /\ MaxEntries \in Nat

Entry == 1 .. MaxEntries

VARIABLES
  running,   \* the daemon process is alive
  logged,    \* number of entries logged so far
  buffer,    \* LogBuffer::buffer
  draining,  \* taken by drain_logs, not yet sent by the broadcaster's loop
  sent,      \* everything sent to the broadcast channel, which keeps the last ChanCap
  task,      \* stream -> where its handler is
  next,      \* stream -> position in sent of what its receiver gets next
  hand,      \* stream -> entries its handler has to write
  client,    \* stream -> "none", "reading" or "gone"
  pipe,      \* stream -> entries written and not yet read
  got,       \* stream -> what the client has read
  evicted,   \* history: entries the buffer dropped
  lagged,    \* history: stream -> entries its receiver was told it lost
  since      \* history: stream -> entries logged when its command was routed

vars == <<running, logged, buffer, draining, sent, task, next, hand, client,
          pipe, got, evicted, lagged, since>>
streamVars == <<task, next, hand, client, pipe, got, lagged, since>>

\* An entry on its way to a client, from the replay or from the channel.
Item == [id : Entry, live : BOOLEAN]

Init ==
  /\ running = TRUE /\ logged = 0
  /\ buffer = <<>> /\ draining = <<>> /\ sent = <<>>
  /\ task = [s \in Stream |-> "off"]
  /\ next = [s \in Stream |-> 0]
  /\ hand = [s \in Stream |-> <<>>]
  /\ client = [s \in Stream |-> "none"]
  /\ pipe = [s \in Stream |-> <<>>]
  /\ got = [s \in Stream |-> <<>>]
  /\ evicted = {}
  /\ lagged = [s \in Stream |-> {}]
  /\ since = [s \in Stream |-> 0]

\* LogBuffer::add_entry, called by LogLayer::on_event under the mutex.
AddEntry ==
  /\ logged < MaxEntries
  /\ logged' = logged + 1
  /\ IF Len(buffer) = BufCap
       THEN /\ buffer' = Append(Tail(buffer), logged')
            /\ evicted' = evicted \cup {Head(buffer)}
       ELSE buffer' = Append(buffer, logged') /\ UNCHANGED evicted

NoEntry == UNCHANGED <<logged, buffer, evicted>>

\* Any task of the daemon logs something.
Log ==
  /\ running
  /\ AddEntry
  /\ UNCHANGED <<running, draining, sent, streamVars>>

-----------------------------------------------------------------------------
(* The broadcaster.                                                         *)

\* Variant: the entries are copied and stay in the buffer.
DrainCopying ==
  /\ running /\ draining = <<>> /\ buffer # <<>>
  /\ draining' = buffer
  /\ UNCHANGED <<running, logged, buffer, sent, evicted, streamVars>>

\* The broadcaster's drain_logs after each sleep.
Drain ==
  /\ running /\ draining = <<>> /\ buffer # <<>>
  /\ draining' = buffer /\ buffer' = <<>>
  /\ UNCHANGED <<running, logged, sent, evicted, streamVars>>

\* Variant: one entry per wake-up, the rest of the batch is dropped.
BroadcastFirst ==
  /\ running /\ draining # <<>>
  /\ sent' = Append(sent, Head(draining))
  /\ draining' = <<>>
  /\ UNCHANGED <<running, logged, buffer, evicted, streamVars>>

\* One turn of the broadcaster's loop over the batch.
Broadcast ==
  /\ running /\ draining # <<>>
  /\ sent' = Append(sent, Head(draining))
  /\ draining' = Tail(draining)
  /\ UNCHANGED <<running, logged, buffer, evicted, streamVars>>

-----------------------------------------------------------------------------
(* One client's stream in the daemon.                                       *)

\* The daemon's accept loop takes one connection at a time.
Accept(s) ==
  /\ running /\ client[s] = "none"
  /\ \A r \in Stream : task[r] # "accepted"
  /\ client' = [client EXCEPT ![s] = "reading"]
  /\ task' = [task EXCEPT ![s] = "accepted"]
  /\ IF LogCommand /\ logged < MaxEntries THEN AddEntry ELSE NoEntry
  /\ UNCHANGED <<running, draining, sent, next, hand, pipe, got, lagged, since>>

\* handle_connection subscribes and spawns the handler.
Subscribe(s) ==
  /\ running /\ task[s] = "accepted"
  /\ task' = [task EXCEPT ![s] = "spawned"]
  /\ next' = [next EXCEPT ![s] = Len(sent) + 1]
  /\ since' = [since EXCEPT ![s] = logged]
  /\ UNCHANGED <<running, logged, buffer, draining, sent, hand, client, pipe,
                 got, evicted, lagged>>

Items(entries, live) ==
  [i \in DOMAIN entries |-> [id |-> entries[i], live |-> live]]

\* Variant: the handler subscribes itself.
SnapshotThenSubscribe(s) ==
  /\ running /\ task[s] = "spawned"
  /\ task' = [task EXCEPT ![s] = "streaming"]
  /\ hand' = [hand EXCEPT ![s] = Items(buffer, FALSE)]
  /\ next' = [next EXCEPT ![s] = Len(sent) + 1]
  /\ UNCHANGED <<running, logged, buffer, draining, sent, client, pipe,
                 got, evicted, lagged, since>>

\* handle_stream_logs starts with LogBuffer::get_buffer.
Snapshot(s) ==
  /\ running /\ task[s] = "spawned"
  /\ task' = [task EXCEPT ![s] = "streaming"]
  /\ hand' = [hand EXCEPT ![s] = Items(buffer, FALSE)]
  /\ UNCHANGED <<running, logged, buffer, draining, sent, next, client, pipe,
                 got, evicted, lagged, since>>

Oldest == IF Len(sent) > ChanCap THEN Len(sent) - ChanCap + 1 ELSE 1

\* log_rx.recv(): the next entry, or Lagged with the number of entries the
\* channel has dropped since; a lag is itself logged.
Recv(s) ==
  /\ running /\ task[s] = "streaming" /\ hand[s] = <<>>
  /\ \/ /\ next[s] < Oldest
        /\ next' = [next EXCEPT ![s] = Oldest]
        /\ lagged' = [lagged EXCEPT ![s] = @ \cup {sent[i] : i \in next[s] .. Oldest - 1}]
        /\ UNCHANGED hand
        /\ IF logged < MaxEntries THEN AddEntry ELSE NoEntry
     \/ /\ next[s] >= Oldest /\ next[s] <= Len(sent)
        /\ hand' = [hand EXCEPT ![s] = Items(<<sent[next[s]]>>, TRUE)]
        /\ next' = [next EXCEPT ![s] = @ + 1]
        /\ UNCHANGED lagged /\ NoEntry
  /\ UNCHANGED <<running, draining, sent, task, client, pipe, got, since>>

\* Variant: a failed write is ignored.
WriteIgnoringErrors(s) ==
  /\ running /\ hand[s] # <<>>
  /\ hand' = [hand EXCEPT ![s] = Tail(@)]
  /\ \/ client[s] = "gone" /\ UNCHANGED pipe
     \/ /\ client[s] = "reading" /\ Len(pipe[s]) < PipeCap
        /\ pipe' = [pipe EXCEPT ![s] = Append(@, Head(hand[s]))]
  /\ UNCHANGED <<running, logged, buffer, draining, sent, task, next, client, got,
                 evicted, lagged, since>>

\* send_response waits while the socket is full and fails when the client is
\* gone, which ends the handler.
Write(s) ==
  /\ running /\ hand[s] # <<>>
  /\ \/ /\ client[s] = "gone"
        /\ task' = [task EXCEPT ![s] = "done"]
        /\ hand' = [hand EXCEPT ![s] = <<>>]
        /\ UNCHANGED pipe
     \/ /\ client[s] = "reading" /\ Len(pipe[s]) < PipeCap
        /\ pipe' = [pipe EXCEPT ![s] = Append(@, Head(hand[s]))]
        /\ hand' = [hand EXCEPT ![s] = Tail(@)]
        /\ UNCHANGED task
  /\ UNCHANGED <<running, logged, buffer, draining, sent, next, client, got,
                 evicted, lagged, since>>

\* `run` returns after a Shutdown command; the runtime drops every task.
Shutdown ==
  /\ running
  /\ running' = FALSE
  /\ task' = [s \in Stream |-> IF task[s] = "off" THEN "off" ELSE "done"]
  /\ hand' = [s \in Stream |-> <<>>]
  /\ buffer' = <<>> /\ draining' = <<>>
  /\ UNCHANGED <<logged, sent, next, client, pipe, got, evicted, lagged, since>>

-----------------------------------------------------------------------------
(* The client.                                                              *)

Read(s) ==
  /\ client[s] = "reading" /\ pipe[s] # <<>>
  /\ got' = [got EXCEPT ![s] = Append(@, Head(pipe[s]))]
  /\ pipe' = [pipe EXCEPT ![s] = Tail(@)]
  /\ UNCHANGED <<running, logged, buffer, draining, sent, task, next, hand, client,
                 evicted, lagged, since>>

\* The user quits, or the 200 ms of `ferro-wg logs` are over, or the daemon has
\* closed the connection.
Leave(s) ==
  /\ client[s] = "reading"
  /\ client' = [client EXCEPT ![s] = "gone"]
  /\ pipe' = [pipe EXCEPT ![s] = <<>>]
  /\ UNCHANGED <<running, logged, buffer, draining, sent, task, next, hand, got,
                 evicted, lagged, since>>

Broadcaster == Drain \/ Broadcast
Handler(s) == Subscribe(s) \/ Snapshot(s) \/ Recv(s) \/ Write(s)

Next ==
  \/ Log \/ Broadcaster \/ Shutdown
  \/ \E s \in Stream : Accept(s) \/ Handler(s) \/ Read(s) \/ Leave(s)

Spec == Init /\ [][Next]_vars

\* The broadcaster wakes up every 10 ms and the runtime polls every handler.  No
\* client has to read: Arrives assumes it of the client it is about.
FairSpec ==
  /\ Spec
  /\ WF_vars(Broadcaster)
  /\ \A s \in Stream : WF_vars(Handler(s))

-----------------------------------------------------------------------------
(* Correctness.                                                             *)

SeqOver(S, q) == DOMAIN q = 1 .. Len(q) /\ Range(q) \subseteq S

\* Queues stay within their capacities, and everything keeps its type.
TypeOK ==
  /\ running \in BOOLEAN /\ logged \in 0 .. MaxEntries
  /\ SeqOver(Entry, buffer) /\ Len(buffer) <= BufCap
  /\ SeqOver(Entry, draining) /\ Len(draining) <= BufCap
  /\ SeqOver(Entry, sent)
  /\ task \in [Stream -> {"off", "accepted", "spawned", "streaming", "done"}]
  /\ client \in [Stream -> {"none", "reading", "gone"}]
  /\ evicted \subseteq Entry
  /\ \A s \in Stream :
       /\ next[s] \in 0 .. Len(sent) + 1 /\ since[s] \in 0 .. logged
       /\ SeqOver(Item, hand[s]) /\ SeqOver(Item, got[s])
       /\ SeqOver(Item, pipe[s]) /\ Len(pipe[s]) <= PipeCap
       /\ lagged[s] \subseteq Entry

Ids(items) == {items[i].id : i \in DOMAIN items}

\* Entries that may still reach the stream through the channel.
Ahead(s) ==
  Range(buffer) \cup Range(draining) \cup {sent[i] : i \in next[s] .. Len(sent)}

\* Nothing is lost between the replay and the live stream, nor anywhere else
\* without a trace: every entry logged after the command was routed is on its
\* way, with the client, dropped by the full buffer, or among those a lag
\* warning has counted (handle_connection subscribes before it spawns).
NothingLostSilently ==
  \A s \in Stream :
    (running /\ client[s] = "reading" /\ task[s] \in {"spawned", "streaming"}) =>
      \A e \in since[s] + 1 .. logged :
        e \in Ahead(s) \cup Ids(hand[s]) \cup Ids(pipe[s]) \cup Ids(got[s])
              \cup evicted \cup lagged[s]

LiveIds(items) == [i \in DOMAIN items |-> IF items[i].live THEN items[i].id ELSE 0]
Increasing(ids) ==
  \A i, j \in DOMAIN ids : (i < j /\ ids[i] # 0 /\ ids[j] # 0) => ids[i] < ids[j]

\* Each half of a stream is in the order of logging without repetition, and the
\* whole replay comes before the first live entry.
HalvesOrdered ==
  \A s \in Stream :
    LET items == got[s] \o pipe[s] \o hand[s] IN
    /\ Increasing(LiveIds(items))
    /\ \A i, j \in DOMAIN items :
         i < j => /\ items[i].live => items[j].live
                  /\ (~items[i].live /\ ~items[j].live) => items[i].id < items[j].id

\* The state is consistent: typed, every queue within its capacity, and what a
\* client gets in order (add_entry's eviction, drain_logs, handle_stream_logs).
Consistent == TypeOK /\ HalvesOrdered

\* The handler of a client that has left ends as soon as there is something to
\* write ("disconnect is detected via a failed write").
LeftHandlersEnd ==
  \A s \in Stream :
    (client[s] = "gone" /\ task[s] = "streaming" /\ next[s] <= Len(sent))
      ~> task[s] = "done"

\* An entry logged while a client is connected, and goes on reading, arrives, is
\* accounted for as evicted or lagged, or the stream ends first.
Arrives ==
  \A s \in Stream : WF_vars(Read(s)) =>
    \A e \in Entry :
      (task[s] = "streaming" /\ since[s] < e /\ e <= logged) ~>
        \/ e \in Ids(got[s]) \cup evicted \cup lagged[s]
        \/ client[s] = "gone" \/ ~running
=============================================================================
