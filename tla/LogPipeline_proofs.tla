------------------------- MODULE LogPipeline_proofs --------------------------
(***************************************************************************)
(* Proofs that no log entry is lost without a trace on its way to a client *)
(* and that a client gets its entries in order, for any number of clients, *)
(* any capacities and any number of entries.                               *)
(***************************************************************************)
EXTENDS LogPipeline, SequenceTheorems, TLAPS

\* A handler has its place in the channel, and what it holds fits where it is.
Placed(s) ==
  /\ next[s] <= Len(sent) + 1 /\ since[s] <= logged /\ Len(pipe[s]) <= PipeCap
  /\ task[s] \in {"spawned", "streaming"} => next[s] >= 1
  /\ task[s] # "streaming" => hand[s] = <<>>
  /\ client[s] = "none" => task[s] = "off"

\* TypeOK with functions and sequences.
Typing ==
  /\ running \in BOOLEAN /\ logged \in 0 .. MaxEntries
  /\ buffer \in Seq(Entry) /\ Len(buffer) <= BufCap
  /\ draining \in Seq(Entry) /\ Len(draining) <= BufCap
  /\ sent \in Seq(Entry)
  /\ task \in [Stream -> {"off", "accepted", "spawned", "streaming", "done"}]
  /\ client \in [Stream -> {"none", "reading", "gone"}]
  /\ evicted \subseteq Entry
  /\ next \in [Stream -> Nat] /\ since \in [Stream -> Nat]
  /\ hand \in [Stream -> Seq(Item)] /\ got \in [Stream -> Seq(Item)]
  /\ pipe \in [Stream -> Seq(Item)]
  /\ lagged \in [Stream -> SUBSET Entry]
  /\ \A s \in Stream : Placed(s)

IInv == Typing /\ NothingLostSilently

-----------------------------------------------------------------------------
(* Sequences and what is in them                                            *)

LEMMA AppendRange ==
  ASSUME NEW S, NEW q \in Seq(S), NEW x \in S
  PROVE  Range(Append(q, x)) = Range(q) \cup {x}
<1>1. /\ Len(q) \in Nat /\ DOMAIN q = 1 .. Len(q) /\ DOMAIN Append(q, x) = 1 .. Len(q) + 1
      /\ Append(q, x)[Len(q) + 1] = x /\ \A i \in 1 .. Len(q) : Append(q, x)[i] = q[i]
  OBVIOUS
<1>2. \A i \in 1 .. Len(q) + 1 : i = Len(q) + 1 \/ i \in 1 .. Len(q)
  BY <1>1
<1>3. Range(Append(q, x)) \subseteq Range(q) \cup {x}
  BY <1>1, <1>2 DEF Range
<1>4. Len(q) + 1 \in DOMAIN Append(q, x) /\ DOMAIN q \subseteq DOMAIN Append(q, x)
  BY <1>1
<1>5. Range(q) \cup {x} \subseteq Range(Append(q, x))
  BY <1>1, <1>4 DEF Range
<1> QED BY <1>3, <1>5

LEMMA HeadTailRange ==
  ASSUME NEW S, NEW q \in Seq(S), q # <<>>
  PROVE  Head(q) \in S /\ Tail(q) \in Seq(S) /\ Range(q) = {Head(q)} \cup Range(Tail(q))
<1>1. /\ Len(q) \in Nat \ {0} /\ DOMAIN q = 1 .. Len(q) /\ Head(q) = q[1] /\ q[1] \in S
      /\ Tail(q) \in Seq(S) /\ DOMAIN Tail(q) = 1 .. Len(q) - 1
      /\ \A i \in 1 .. Len(q) - 1 : Tail(q)[i] = q[i + 1]
  OBVIOUS
<1>2. \A i \in 1 .. Len(q) : i = 1 \/ (i - 1 \in 1 .. Len(q) - 1 /\ q[i] = Tail(q)[i - 1])
  BY <1>1
<1>3. \A i \in 1 .. Len(q) - 1 : i + 1 \in 1 .. Len(q)
  BY <1>1
<1>4. ASSUME NEW i \in 1 .. Len(q) PROVE q[i] \in {Head(q)} \cup Range(Tail(q))
  BY <1>1, <1>2 DEF Range
<1>5. 1 \in DOMAIN q
  BY <1>1
<1>6. {Head(q)} \cup Range(Tail(q)) \subseteq Range(q)
  BY <1>1, <1>3, <1>5 DEF Range
<1>7. Range(q) = {q[i] : i \in 1 .. Len(q)}
  BY <1>1 DEF Range
<1> QED BY <1>1, <1>4, <1>6, <1>7

LEMMA AppendIds ==
  ASSUME NEW q \in Seq(Item), NEW x \in Item
  PROVE  Ids(Append(q, x)) = Ids(q) \cup {x.id}
BY DEF Ids

LEMMA HeadTailIds ==
  ASSUME NEW q \in Seq(Item), q # <<>>
  PROVE  Head(q) \in Item /\ Tail(q) \in Seq(Item) /\ Ids(q) = {Head(q).id} \cup Ids(Tail(q))
<1>1. /\ Len(q) \in Nat \ {0} /\ DOMAIN q = 1 .. Len(q) /\ Head(q) = q[1] /\ q[1] \in Item
      /\ Tail(q) \in Seq(Item) /\ DOMAIN Tail(q) = 1 .. Len(q) - 1
      /\ \A i \in 1 .. Len(q) - 1 : Tail(q)[i] = q[i + 1]
  OBVIOUS
<1>2. \A i \in 1 .. Len(q) : i = 1 \/ (i - 1 \in 1 .. Len(q) - 1 /\ q[i] = Tail(q)[i - 1])
  BY <1>1
<1>3. \A i \in 1 .. Len(q) - 1 : i + 1 \in 1 .. Len(q)
  BY <1>1
<1>4. ASSUME NEW i \in 1 .. Len(q) PROVE q[i].id \in {Head(q).id} \cup Ids(Tail(q))
  BY <1>1, <1>2 DEF Ids
<1>5. 1 \in DOMAIN q
  BY <1>1
<1>6. {Head(q).id} \cup Ids(Tail(q)) \subseteq Ids(q)
  BY <1>1, <1>3, <1>5 DEF Ids
<1>7. Ids(q) = {q[i].id : i \in 1 .. Len(q)}
  BY <1>1 DEF Ids
<1> QED BY <1>1, <1>4, <1>6, <1>7

\* What is put into a handler's hand is what was read.
LEMMA ItemsIds ==
  ASSUME NEW q \in Seq(Entry), NEW live \in BOOLEAN
  PROVE  Items(q, live) \in Seq(Item) /\ Ids(Items(q, live)) = Range(q)
<1>1. /\ DOMAIN q = 1 .. Len(q) /\ Len(q) \in Nat /\ \A i \in 1 .. Len(q) : q[i] \in Entry
  OBVIOUS
<1>2. Items(q, live) = [i \in 1 .. Len(q) |-> [id |-> q[i], live |-> live]]
  BY <1>1 DEF Items
<1>3. Items(q, live) \in [1 .. Len(q) -> Item]
  BY <1>1, <1>2 DEF Item
<1>4. Items(q, live) \in Seq(Item)
  BY <1>1, <1>3
<1> QED BY <1>1, <1>2, <1>4 DEF Ids, Range

LEMMA EmptyIds == Ids(<<>>) = {} /\ Range(<<>>) = {}
BY DEF Ids, Range

LEMMA EmptyItems == <<>> \in Seq(Item) /\ <<>> \in Seq(Entry)
OBVIOUS

LEMMA Capacities ==
  /\ BufCap \in Nat \ {0} /\ ChanCap \in Nat \ {0} /\ PipeCap \in Nat \ {0}
  /\ MaxEntries \in Nat
BY LogAssumption

-----------------------------------------------------------------------------
(* Types                                                                    *)

LEMMA TypingInit == Init => Typing
<1> SUFFICES ASSUME Init PROVE Typing
  OBVIOUS
<1>1. Len(<<>>) = 0
  OBVIOUS
<1> QED BY <1>1, EmptyItems, Capacities DEF Init, Typing, Placed

LEMMA AddEntryTyping ==
  ASSUME Typing, AddEntry
  PROVE  /\ logged' = logged + 1 /\ logged' \in 1 .. MaxEntries
         /\ buffer' \in Seq(Entry) /\ Len(buffer') <= BufCap /\ evicted' \subseteq Entry
         /\ evicted \subseteq evicted'
         /\ Range(buffer') \cup evicted' = Range(buffer) \cup evicted \cup {logged'}
<1>1. logged' = logged + 1 /\ logged' \in Entry /\ logged \in Nat
  BY Capacities DEF Typing, AddEntry, Entry
<1>2. CASE Len(buffer) = BufCap
  <2>1. buffer # <<>> /\ Len(buffer) \in Nat
    BY <1>2, Capacities DEF Typing
  <2>2. /\ Head(buffer) \in Entry /\ Tail(buffer) \in Seq(Entry)
        /\ Range(buffer) = {Head(buffer)} \cup Range(Tail(buffer))
    BY <2>1, HeadTailRange DEF Typing
  <2>3. Len(Tail(buffer)) = Len(buffer) - 1
    BY <2>1 DEF Typing
  <2>4. buffer' = Append(Tail(buffer), logged') /\ evicted' = evicted \cup {Head(buffer)}
    BY <1>2 DEF AddEntry
  <2> DEFINE rest == Tail(buffer)
  <2>5. Range(buffer') = Range(rest) \cup {logged'}
    <3>1. rest \in Seq(Entry)
      BY <2>2
    <3>2. Range(Append(rest, logged')) = Range(rest) \cup {logged'}
      <4> HIDE DEF rest
      <4> QED BY <1>1, <3>1, AppendRange
    <3> QED BY <2>4, <3>2
  <2>6. buffer' \in Seq(Entry) /\ Len(buffer') = Len(Tail(buffer)) + 1
    BY <1>1, <2>2, <2>4
  <2>7. evicted' \subseteq Entry
    BY <2>2, <2>4 DEF Typing
  <2> QED BY <1>1, <1>2, <2>1, <2>2, <2>3, <2>4, <2>5, <2>6, <2>7 DEF Entry
<1>3. CASE Len(buffer) # BufCap
  <2>1. buffer' = Append(buffer, logged') /\ evicted' = evicted
    BY <1>3 DEF AddEntry
  <2>2. Range(buffer') = Range(buffer) \cup {logged'}
    BY <1>1, <2>1, AppendRange DEF Typing
  <2>3. /\ buffer' \in Seq(Entry) /\ Len(buffer') = Len(buffer) + 1
        /\ Len(buffer) \in Nat /\ Len(buffer) <= BufCap
    BY <1>1, <2>1 DEF Typing
  <2>4. Len(buffer') <= BufCap
    BY <1>3, <2>3, Capacities
  <2> QED BY <1>1, <2>1, <2>2, <2>3, <2>4 DEF Typing, Entry
<1> QED BY <1>2, <1>3

LEMMA LogTyping ==
  ASSUME Typing, Log
  PROVE  Typing'
<1>1. UNCHANGED <<running, draining, sent, task, next, hand, client, pipe, got, lagged, since>>
  BY DEF Log, streamVars
<1>2. AddEntry
  BY DEF Log
<1>3. /\ logged' = logged + 1 /\ logged' \in 1 .. MaxEntries
      /\ buffer' \in Seq(Entry) /\ Len(buffer') <= BufCap /\ evicted' \subseteq Entry
  BY <1>2, AddEntryTyping
<1>4. ASSUME NEW s \in Stream PROVE Placed(s)'
  BY <1>1, <1>3 DEF Typing, Placed
<1> QED BY <1>1, <1>3, <1>4 DEF Typing

LEMMA DrainTyping ==
  ASSUME Typing, Drain
  PROVE  Typing'
<1>1. Len(<<>>) = 0
  OBVIOUS
<1> QED BY <1>1, EmptyItems, Capacities DEF Typing, Placed, Drain, streamVars

LEMMA BroadcastTyping ==
  ASSUME Typing, Broadcast
  PROVE  Typing'
<1>1. /\ Head(draining) \in Entry /\ Tail(draining) \in Seq(Entry)
      /\ Len(Tail(draining)) = Len(draining) - 1 /\ Len(draining) \in Nat
  BY DEF Typing, Broadcast
<1>2. sent' \in Seq(Entry) /\ Len(sent') = Len(sent) + 1 /\ Len(sent) \in Nat
  BY <1>1 DEF Typing, Broadcast
<1>3. draining' \in Seq(Entry) /\ Len(draining') <= BufCap
  BY <1>1, Capacities DEF Typing, Broadcast
<1>4. UNCHANGED <<running, logged, buffer, task, next, hand, client, pipe, got,
                  evicted, lagged, since>>
  BY DEF Broadcast, streamVars
<1>5. ASSUME NEW s \in Stream PROVE Placed(s)'
  BY <1>2, <1>4 DEF Typing, Placed
<1> QED BY <1>2, <1>3, <1>4, <1>5 DEF Typing

LEMMA NoEntryTyping ==
  ASSUME Typing, \/ LogCommand /\ logged < MaxEntries /\ AddEntry
                 \/ logged < MaxEntries /\ AddEntry
                 \/ NoEntry
  PROVE  /\ logged' \in 0 .. MaxEntries /\ logged <= logged' /\ evicted' \subseteq Entry
         /\ logged' \in {logged, logged + 1}
         /\ buffer' \in Seq(Entry) /\ Len(buffer') <= BufCap /\ evicted \subseteq evicted'
         /\ Range(buffer') \cup evicted'
              = Range(buffer) \cup evicted \cup (IF logged' = logged THEN {} ELSE {logged'})
<1>1. logged \in Nat
  BY DEF Typing
<1>2. CASE AddEntry
  BY <1>1, <1>2, AddEntryTyping
<1>3. CASE NoEntry
  BY <1>1, <1>3 DEF NoEntry, Typing
<1> QED BY <1>2, <1>3

LEMMA AcceptTyping ==
  ASSUME Typing, NEW s \in Stream, Accept(s)
  PROVE  Typing'
<1>1. /\ logged' \in 0 .. MaxEntries /\ logged <= logged' /\ evicted' \subseteq Entry
      /\ buffer' \in Seq(Entry) /\ Len(buffer') <= BufCap
  BY NoEntryTyping DEF Accept
<1>2. /\ UNCHANGED <<running, draining, sent, next, hand, pipe, got, lagged, since>>
      /\ client' = [client EXCEPT ![s] = "reading"]
      /\ task' = [task EXCEPT ![s] = "accepted"]
  BY DEF Accept
<1>3. task[s] = "off" /\ logged \in Nat
  BY DEF Typing, Placed, Accept
<1>4. ASSUME NEW r \in Stream PROVE Placed(r)'
  <2>1. Placed(r) /\ since[r] \in Nat /\ since[r] <= logged'
    <3>1. Placed(r) /\ since[r] \in Nat
      BY DEF Typing
    <3>2. since[r] <= logged
      BY <3>1 DEF Placed
    <3> QED BY <1>1, <1>3, <3>1, <3>2
  <2>2. CASE r = s
    <3>1. client'[r] = "reading" /\ task'[r] = "accepted"
      BY <1>2, <2>2 DEF Typing
    <3> QED BY <1>2, <1>3, <2>1, <2>2, <3>1 DEF Placed
  <2>3. CASE r # s
    <3>1. client'[r] = client[r] /\ task'[r] = task[r]
      BY <1>2, <2>3 DEF Typing
    <3> QED BY <1>2, <2>1, <3>1 DEF Placed
  <2> QED BY <2>2, <2>3
<1> QED BY <1>1, <1>2, <1>4 DEF Typing

LEMMA SubscribeTyping ==
  ASSUME Typing, NEW s \in Stream, Subscribe(s)
  PROVE  Typing'
<1>1. Len(sent) \in Nat /\ logged \in Nat
  BY DEF Typing
<1>2. /\ UNCHANGED <<running, logged, buffer, draining, sent, hand, client, pipe,
                     got, evicted, lagged>>
      /\ task' = [task EXCEPT ![s] = "spawned"]
      /\ next' = [next EXCEPT ![s] = Len(sent) + 1]
      /\ since' = [since EXCEPT ![s] = logged]
  BY DEF Subscribe
<1>3. ASSUME NEW r \in Stream PROVE Placed(r)'
  <2>1. CASE r = s
    BY <1>1, <1>2, <2>1 DEF Typing, Placed, Subscribe
  <2>2. CASE r # s
    BY <1>1, <1>2, <2>2 DEF Typing, Placed
  <2> QED BY <2>1, <2>2
<1> QED BY <1>1, <1>2, <1>3 DEF Typing

LEMMA SnapshotTyping ==
  ASSUME Typing, NEW s \in Stream, Snapshot(s)
  PROVE  Typing'
<1>1. Items(buffer, FALSE) \in Seq(Item)
  BY ItemsIds DEF Typing
<1>2. /\ UNCHANGED <<running, logged, buffer, draining, sent, next, client, pipe,
                     got, evicted, lagged, since>>
      /\ task[s] = "spawned" /\ task' = [task EXCEPT ![s] = "streaming"]
      /\ hand' = [hand EXCEPT ![s] = Items(buffer, FALSE)]
  BY DEF Snapshot
<1>3. ASSUME NEW r \in Stream PROVE Placed(r)'
  <2>1. CASE r = s
    BY <1>2, <2>1 DEF Typing, Placed
  <2>2. CASE r # s
    BY <1>2, <2>2 DEF Typing, Placed
  <2> QED BY <2>1, <2>2
<1> QED BY <1>1, <1>2, <1>3 DEF Typing

LEMMA WriteTyping ==
  ASSUME Typing, NEW s \in Stream, Write(s)
  PROVE  Typing'
<1>1. /\ hand[s] \in Seq(Item) /\ hand[s] # <<>> /\ pipe[s] \in Seq(Item)
      /\ Head(hand[s]) \in Item /\ Tail(hand[s]) \in Seq(Item) /\ Len(pipe[s]) \in Nat
  BY HeadTailIds DEF Typing, Write
<1>2. UNCHANGED <<running, logged, buffer, draining, sent, next, client, got,
                  evicted, lagged, since>>
  BY DEF Write
<1>3. CASE client[s] = "gone"
  <2>1. /\ task' = [task EXCEPT ![s] = "done"] /\ hand' = [hand EXCEPT ![s] = <<>>]
        /\ UNCHANGED pipe
    BY <1>3 DEF Write
  <2>2. ASSUME NEW r \in Stream PROVE Placed(r)'
    <3>1. CASE r = s
      BY <1>2, <1>3, <2>1, <3>1 DEF Typing, Placed
    <3>2. CASE r # s
      BY <1>2, <2>1, <3>2 DEF Typing, Placed
    <3> QED BY <3>1, <3>2
  <2> QED BY <1>2, <2>1, <2>2, EmptyItems DEF Typing
<1>4. CASE client[s] # "gone"
  <2>1. /\ Len(pipe[s]) < PipeCap /\ UNCHANGED task
        /\ pipe' = [pipe EXCEPT ![s] = Append(@, Head(hand[s]))]
        /\ hand' = [hand EXCEPT ![s] = Tail(@)]
    BY <1>4 DEF Write
  <2>2. /\ Append(pipe[s], Head(hand[s])) \in Seq(Item)
        /\ Len(Append(pipe[s], Head(hand[s]))) <= PipeCap
    BY <1>1, <2>1, Capacities
  <2>3. task[s] = "streaming"
    BY <1>1 DEF Typing, Placed
  <2>4. ASSUME NEW r \in Stream PROVE Placed(r)'
    <3>1. CASE r = s
      BY <1>1, <1>2, <2>1, <2>2, <2>3, <3>1 DEF Typing, Placed
    <3>2. CASE r # s
      BY <1>2, <2>1, <3>2 DEF Typing, Placed
    <3> QED BY <3>1, <3>2
  <2> QED BY <1>1, <1>2, <2>1, <2>2, <2>4 DEF Typing
<1> QED BY <1>3, <1>4

LEMMA OldestBounds ==
  ASSUME Typing
  PROVE  Oldest \in Nat /\ 1 <= Oldest /\ Oldest <= Len(sent) + 1 /\ Len(sent) \in Nat
BY Capacities DEF Typing, Oldest

LEMMA RecvTyping ==
  ASSUME Typing, NEW s \in Stream, Recv(s)
  PROVE  Typing'
<1>1. /\ UNCHANGED <<running, draining, sent, task, client, pipe, got, since>>
      /\ task[s] = "streaming" /\ hand[s] = <<>> /\ next[s] >= 1 /\ next[s] \in Nat
      /\ next \in [Stream -> Nat] /\ logged \in Nat
  BY DEF Typing, Placed, Recv
<1>2. /\ logged' \in 0 .. MaxEntries /\ logged <= logged' /\ evicted' \subseteq Entry
      /\ buffer' \in Seq(Entry) /\ Len(buffer') <= BufCap
  BY NoEntryTyping DEF Recv
<1>3. CASE next[s] < Oldest
  <2>1. ~(next[s] >= Oldest)
    BY <1>1, <1>3, OldestBounds
  <2>2. /\ next' = [next EXCEPT ![s] = Oldest] /\ UNCHANGED hand
        /\ lagged' = [lagged EXCEPT ![s] = @ \cup {sent[i] : i \in next[s] .. Oldest - 1}]
    BY <2>1 DEF Recv
  <2>3. \A i \in next[s] .. Oldest - 1 : sent[i] \in Entry
    <3>1. \A i \in next[s] .. Oldest - 1 : i \in 1 .. Len(sent)
      BY <1>1, OldestBounds
    <3>2. \A i \in 1 .. Len(sent) : sent[i] \in Entry
      BY DEF Typing
    <3> QED BY <3>1, <3>2
  <2>4. lagged' \in [Stream -> SUBSET Entry]
    BY <2>2, <2>3 DEF Typing
  <2>5. next' \in [Stream -> Nat]
    BY <1>1, <2>2, OldestBounds
  <2>6. ASSUME NEW r \in Stream PROVE Placed(r)'
    <3>1. Placed(r) /\ since[r] \in Nat /\ since[r] <= logged'
      <4>1. Placed(r) /\ since[r] \in Nat
        BY DEF Typing
      <4>2. since[r] <= logged
        BY <4>1 DEF Placed
      <4> QED BY <1>1, <1>2, <4>1, <4>2
    <3>2. CASE r = s
      <4>1. next'[r] = Oldest
        BY <1>1, <2>2, <3>2
      <4> QED BY <1>1, <2>2, <3>1, <3>2, <4>1, OldestBounds DEF Placed
    <3>3. CASE r # s
      <4>1. next'[r] = next[r]
        BY <1>1, <2>2, <3>3
      <4> QED BY <1>1, <2>2, <3>1, <4>1 DEF Placed
    <3> QED BY <3>2, <3>3
  <2> QED BY <1>1, <1>2, <2>2, <2>4, <2>5, <2>6 DEF Typing
<1>4. CASE next[s] >= Oldest
  <2>1. ~(next[s] < Oldest)
    BY <1>1, <1>4, OldestBounds
  <2>2. /\ next[s] <= Len(sent) /\ UNCHANGED lagged
        /\ next' = [next EXCEPT ![s] = @ + 1]
        /\ hand' = [hand EXCEPT ![s] = Items(<<sent[next[s]]>>, TRUE)]
    BY <2>1 DEF Recv
  <2>3. sent[next[s]] \in Entry
    BY <1>1, <2>2, OldestBounds DEF Typing
  <2>4. <<sent[next[s]]>> \in Seq(Entry)
    BY <2>3
  <2> DEFINE items == Items(<<sent[next[s]]>>, TRUE)
  <2>5. items \in Seq(Item)
    BY <2>4, ItemsIds
  <2>6. hand' = [hand EXCEPT ![s] = items]
    BY <2>2
  <2> HIDE DEF items
  <2>7. hand' \in [Stream -> Seq(Item)] /\ \A r \in Stream : r # s => hand'[r] = hand[r]
    BY <2>5, <2>6 DEF Typing
  <2>8. /\ next' \in [Stream -> Nat] /\ next'[s] = next[s] + 1
        /\ \A r \in Stream : r # s => next'[r] = next[r]
    BY <1>1, <2>2
  <2>9. ASSUME NEW r \in Stream PROVE Placed(r)'
    <3>1. CASE r = s
      <4>1. next'[s] <= Len(sent) + 1 /\ next'[s] >= 1
        BY <1>1, <2>2, <2>8, OldestBounds
      <4>2. since[s] <= logged' /\ Len(pipe[s]) <= PipeCap
        BY <1>2, <1>1 DEF Typing, Placed
      <4>3. client[s] = "none" => task[s] = "off"
        BY DEF Typing, Placed
      <4> QED BY <1>1, <3>1, <4>1, <4>2, <4>3 DEF Placed
    <3>2. CASE r # s
      <4>1. next'[r] = next[r] /\ hand'[r] = hand[r]
        BY <2>7, <2>8, <3>2
      <4>2. since[r] <= logged'
        <5>1. Placed(r) /\ since[r] \in Nat
          BY DEF Typing
        <5>2. since[r] <= logged
          BY <5>1 DEF Placed
        <5> QED BY <1>1, <1>2, <5>1, <5>2
      <4> QED BY <1>1, <4>1, <4>2 DEF Typing, Placed
    <3> QED BY <3>1, <3>2
  <2> QED BY <1>1, <1>2, <2>2, <2>7, <2>8, <2>9 DEF Typing
<1> QED BY <1>1, <1>3, <1>4, OldestBounds

LEMMA ShutdownTyping ==
  ASSUME Typing, Shutdown
  PROVE  Typing'
<1>1. Len(<<>>) = 0
  OBVIOUS
<1>2. /\ running' = FALSE /\ buffer' = <<>> /\ draining' = <<>>
      /\ task' = [s \in Stream |-> IF task[s] = "off" THEN "off" ELSE "done"]
      /\ hand' = [s \in Stream |-> <<>>]
      /\ UNCHANGED <<logged, sent, next, client, pipe, got, evicted, lagged, since>>
  BY DEF Shutdown
<1>3. hand' \in [Stream -> Seq(Item)]
  BY <1>2, EmptyItems
<1>4. task' \in [Stream -> {"off", "accepted", "spawned", "streaming", "done"}]
  BY <1>2
<1>5. ASSUME NEW s \in Stream PROVE Placed(s)'
  BY <1>2 DEF Typing, Placed
<1>6. running' \in BOOLEAN
  BY <1>2
<1>7. /\ buffer' \in Seq(Entry) /\ Len(buffer') <= BufCap
      /\ draining' \in Seq(Entry) /\ Len(draining') <= BufCap
  BY <1>1, <1>2, EmptyItems, Capacities
<1>8. /\ logged' \in 0 .. MaxEntries /\ sent' \in Seq(Entry)
      /\ client' \in [Stream -> {"none", "reading", "gone"}] /\ evicted' \subseteq Entry
      /\ next' \in [Stream -> Nat] /\ since' \in [Stream -> Nat]
      /\ got' \in [Stream -> Seq(Item)] /\ pipe' \in [Stream -> Seq(Item)]
      /\ lagged' \in [Stream -> SUBSET Entry]
  BY <1>2 DEF Typing
<1> QED BY <1>3, <1>4, <1>5, <1>6, <1>7, <1>8 DEF Typing

LEMMA ReadTyping ==
  ASSUME Typing, NEW s \in Stream, Read(s)
  PROVE  Typing'
<1>1. /\ pipe[s] \in Seq(Item) /\ pipe[s] # <<>> /\ got[s] \in Seq(Item)
      /\ Head(pipe[s]) \in Item /\ Tail(pipe[s]) \in Seq(Item)
  BY HeadTailIds DEF Typing, Read
<1>2. /\ Len(Tail(pipe[s])) = Len(pipe[s]) - 1 /\ Len(pipe[s]) \in Nat
      /\ Len(pipe[s]) <= PipeCap
  BY <1>1 DEF Typing, Placed
<1>3. Len(Tail(pipe[s])) <= PipeCap
  BY <1>2, Capacities
<1>4. Append(got[s], Head(pipe[s])) \in Seq(Item)
  BY <1>1
<1>5. /\ UNCHANGED <<running, logged, buffer, draining, sent, task, next, hand, client,
                     evicted, lagged, since>>
      /\ got' = [got EXCEPT ![s] = Append(@, Head(pipe[s]))]
      /\ pipe' = [pipe EXCEPT ![s] = Tail(@)]
  BY DEF Read
<1>6. ASSUME NEW r \in Stream PROVE Placed(r)'
  <2>1. CASE r = s
    BY <1>1, <1>3, <1>5, <2>1 DEF Typing, Placed
  <2>2. CASE r # s
    BY <1>5, <2>2 DEF Typing, Placed
  <2> QED BY <2>1, <2>2
<1> QED BY <1>1, <1>4, <1>5, <1>6 DEF Typing

LEMMA LeaveTyping ==
  ASSUME Typing, NEW s \in Stream, Leave(s)
  PROVE  Typing'
<1>1. Len(<<>>) = 0
  OBVIOUS
<1>2. ASSUME NEW r \in Stream PROVE Placed(r)'
  <2>1. CASE r = s
    BY <1>1, <2>1, Capacities DEF Typing, Placed, Leave
  <2>2. CASE r # s
    BY <2>2 DEF Typing, Placed, Leave
  <2> QED BY <2>1, <2>2
<1> QED BY <1>2, EmptyItems DEF Typing, Leave

LEMMA TypingStep == Typing /\ [Next]_vars => Typing'
<1> SUFFICES ASSUME Typing, [Next]_vars PROVE Typing'
  OBVIOUS
<1>1. CASE Log
  BY <1>1, LogTyping
<1>2. CASE Broadcaster
  BY <1>2, DrainTyping, BroadcastTyping DEF Broadcaster
<1>3. CASE Shutdown
  BY <1>3, ShutdownTyping
<1>4. ASSUME NEW s \in Stream, Accept(s) \/ Handler(s) \/ Read(s) \/ Leave(s)
      PROVE  Typing'
  <2>1. CASE Accept(s)
    BY <2>1, AcceptTyping
  <2>2. CASE Handler(s)
    BY <2>2, SubscribeTyping, SnapshotTyping, RecvTyping, WriteTyping DEF Handler
  <2>3. CASE Read(s)
    BY <2>3, ReadTyping
  <2>4. CASE Leave(s)
    BY <2>4, LeaveTyping
  <2> QED BY <1>4, <2>1, <2>2, <2>3, <2>4
<1>5. CASE UNCHANGED vars
  BY <1>5 DEF vars, Typing, Placed
<1> QED BY <1>1, <1>2, <1>3, <1>4, <1>5 DEF Next

LEMMA TypingSequences ==
  ASSUME NEW S, NEW q \in Seq(S)
  PROVE  SeqOver(S, q)
BY DEF SeqOver, Range

LEMMA TypingTypeOK == Typing => TypeOK
<1> SUFFICES ASSUME Typing PROVE TypeOK
  OBVIOUS
<1>1. SeqOver(Entry, buffer) /\ SeqOver(Entry, draining) /\ SeqOver(Entry, sent)
  BY TypingSequences DEF Typing
<1>2. Len(sent) \in Nat /\ logged \in Nat
  BY DEF Typing
<1>3. ASSUME NEW s \in Stream
      PROVE  /\ next[s] \in 0 .. Len(sent) + 1 /\ since[s] \in 0 .. logged
             /\ SeqOver(Item, hand[s]) /\ SeqOver(Item, got[s])
             /\ SeqOver(Item, pipe[s]) /\ Len(pipe[s]) <= PipeCap
             /\ lagged[s] \subseteq Entry
  <2>1. hand[s] \in Seq(Item) /\ got[s] \in Seq(Item) /\ pipe[s] \in Seq(Item)
    BY DEF Typing
  <2>2. SeqOver(Item, hand[s]) /\ SeqOver(Item, got[s]) /\ SeqOver(Item, pipe[s])
    BY <2>1, TypingSequences
  <2> QED BY <1>2, <2>2 DEF Typing, Placed
<1> QED BY <1>1, <1>3 DEF Typing, TypeOK

-----------------------------------------------------------------------------
(* No entry is lost on the way                                              *)

\* The streams NothingLostSilently speaks of, and where an entry of theirs can be.
Watched(s) == running /\ client[s] = "reading" /\ task[s] \in {"spawned", "streaming"}
Kept(s) ==
  Ahead(s) \cup Ids(hand[s]) \cup Ids(pipe[s]) \cup Ids(got[s]) \cup evicted \cup lagged[s]

\* A step keeps what was kept, and also the entry it logs.
Carries(s) ==
  Watched(s)' =>
    \/ since'[s] = logged'
    \/ /\ Watched(s) /\ since'[s] = since[s] /\ Kept(s) \subseteq Kept(s)'
       /\ logged' = logged \/ (logged' = logged + 1 /\ logged' \in Kept(s)')

LEMMA CarriesKeeps ==
  ASSUME Typing, NothingLostSilently, Typing', NEW s \in Stream, Carries(s),
         Watched(s)', NEW e \in since'[s] + 1 .. logged'
  PROVE  e \in Kept(s)'
<1>1. logged \in Nat /\ logged' \in Nat /\ since[s] \in Nat /\ since'[s] \in Nat
  BY DEF Typing
<1>2. CASE since'[s] = logged'
  BY <1>1, <1>2
<1>3. CASE /\ Watched(s) /\ since'[s] = since[s] /\ Kept(s) \subseteq Kept(s)'
           /\ logged' = logged \/ (logged' = logged + 1 /\ logged' \in Kept(s)')
  <2>1. e \in since[s] + 1 .. logged \/ (e = logged' /\ logged' \in Kept(s)')
    BY <1>1, <1>3
  <2>2. ASSUME e \in since[s] + 1 .. logged PROVE e \in Kept(s)
    BY <1>3, <2>2 DEF NothingLostSilently, Watched, Kept
  <2> QED BY <1>3, <2>1, <2>2
<1> QED BY <1>2, <1>3 DEF Carries

\* A step that at most logs carries every stream it does not touch.
LEMMA UntouchedCarries ==
  ASSUME Typing, NEW s \in Stream,
         AddEntry \/ NoEntry,
         UNCHANGED <<running, draining, sent>>,
         task'[s] = task[s], next'[s] = next[s], hand'[s] = hand[s],
         client'[s] = client[s], pipe'[s] = pipe[s], got'[s] = got[s],
         lagged'[s] = lagged[s], since'[s] = since[s]
  PROVE  Carries(s)
<1>1. logged \in Nat /\ Watched(s)' = Watched(s)
  BY DEF Typing, Watched
<1>2. /\ logged' = logged \/ logged' = logged + 1
      /\ Range(buffer') \cup evicted'
           = Range(buffer) \cup evicted \cup (IF logged' = logged THEN {} ELSE {logged'})
  BY NoEntryTyping DEF AddEntry
<1>3. Kept(s)' = Range(buffer') \cup evicted' \cup Range(draining)
                   \cup {sent[i] : i \in next[s] .. Len(sent)}
                   \cup Ids(hand[s]) \cup Ids(pipe[s]) \cup Ids(got[s]) \cup lagged[s]
  BY DEF Kept, Ahead
<1>4. Kept(s) \subseteq Kept(s)' /\ (logged' # logged => logged' \in Kept(s)')
  BY <1>2, <1>3 DEF Kept, Ahead
<1> QED BY <1>1, <1>2, <1>4 DEF Carries

LEMMA LogCarries ==
  ASSUME Typing, Log, NEW s \in Stream
  PROVE  Carries(s)
BY UntouchedCarries DEF Log, streamVars

\* The batch takes the entries over from the buffer.
LEMMA DrainCarries ==
  ASSUME Typing, Drain, NEW s \in Stream
  PROVE  Carries(s)
<1>1. /\ draining = <<>> /\ draining' = buffer /\ buffer' = <<>>
      /\ UNCHANGED <<running, logged, sent, evicted, streamVars>>
  BY DEF Drain
<1>2. Kept(s)' = Kept(s)
  BY <1>1, EmptyIds DEF Kept, Ahead, streamVars
<1> QED BY <1>1, <1>2 DEF Carries, Watched, streamVars

\* An entry the channel gets is ahead of every handler's place in it.
LEMMA BroadcastCarries ==
  ASSUME Typing, Broadcast, NEW s \in Stream
  PROVE  Carries(s)
<1>1. /\ sent' = Append(sent, Head(draining)) /\ draining' = Tail(draining)
      /\ UNCHANGED <<running, logged, buffer, evicted, streamVars>> /\ draining # <<>>
  BY DEF Broadcast
<1>2. /\ Head(draining) \in Entry /\ Range(draining) = {Head(draining)} \cup Range(Tail(draining))
  BY <1>1, HeadTailRange DEF Typing
<1>3. /\ Len(sent) \in Nat /\ Len(sent') = Len(sent) + 1 /\ sent'[Len(sent) + 1] = Head(draining)
      /\ \A i \in 1 .. Len(sent) : sent'[i] = sent[i]
  BY <1>1, <1>2 DEF Typing
<1>4. ASSUME Watched(s) PROVE Kept(s) \subseteq Kept(s)'
  <2>1. next[s] \in Nat /\ next[s] >= 1 /\ next[s] <= Len(sent) + 1 /\ next'[s] = next[s]
    BY <1>1, <1>4 DEF Typing, Placed, Watched, streamVars
  <2>2. \A i \in next[s] .. Len(sent) :
          i \in next[s] .. Len(sent') /\ i \in 1 .. Len(sent) /\ sent'[i] = sent[i]
    BY <1>3, <2>1
  <2>3. Len(sent) + 1 \in next[s] .. Len(sent')
    BY <1>3, <2>1
  <2>4. {sent[i] : i \in next[s] .. Len(sent)} \cup {Head(draining)}
          \subseteq {sent'[i] : i \in next[s] .. Len(sent')}
    BY <1>3, <2>2, <2>3
  <2>5. Ahead(s) \subseteq Ahead(s)'
    BY <1>1, <1>2, <2>1, <2>4 DEF Ahead
  <2> QED BY <1>1, <2>5 DEF Kept, streamVars
<1> QED BY <1>1, <1>4 DEF Carries, Watched, streamVars

\* A stream is not watched before it has subscribed.
LEMMA AcceptCarries ==
  ASSUME Typing, NEW r \in Stream, Accept(r), NEW s \in Stream
  PROVE  Carries(s)
<1>1. /\ UNCHANGED <<running, draining, sent, next, hand, pipe, got, lagged, since>>
      /\ client' = [client EXCEPT ![r] = "reading"]
      /\ task' = [task EXCEPT ![r] = "accepted"]
      /\ AddEntry \/ NoEntry
  BY DEF Accept
<1>2. CASE s = r
  BY <1>1, <1>2 DEF Typing, Carries, Watched
<1>3. CASE s # r
  <2>1. client'[s] = client[s] /\ task'[s] = task[s]
    BY <1>1, <1>3 DEF Typing
  <2> QED BY <1>1, <2>1, UntouchedCarries
<1> QED BY <1>2, <1>3

\* Subscribing before anything more is logged leaves nothing to be owed.
LEMMA SubscribeCarries ==
  ASSUME Typing, NEW r \in Stream, Subscribe(r), NEW s \in Stream
  PROVE  Carries(s)
<1>1. /\ UNCHANGED <<running, logged, buffer, draining, sent, hand, client, pipe,
                     got, evicted, lagged>>
      /\ task' = [task EXCEPT ![r] = "spawned"]
      /\ next' = [next EXCEPT ![r] = Len(sent) + 1]
      /\ since' = [since EXCEPT ![r] = logged]
  BY DEF Subscribe
<1>2. CASE s = r
  BY <1>1, <1>2 DEF Typing, Carries
<1>3. CASE s # r
  <2>1. task'[s] = task[s] /\ next'[s] = next[s] /\ since'[s] = since[s] /\ NoEntry
    BY <1>1, <1>3 DEF Typing, NoEntry
  <2> QED BY <1>1, <2>1, UntouchedCarries
<1> QED BY <1>2, <1>3

LEMMA SnapshotCarries ==
  ASSUME Typing, NEW r \in Stream, Snapshot(r), NEW s \in Stream
  PROVE  Carries(s)
<1>1. /\ UNCHANGED <<running, logged, buffer, draining, sent, next, client, pipe,
                     got, evicted, lagged, since>>
      /\ running /\ task[r] = "spawned" /\ task' = [task EXCEPT ![r] = "streaming"]
      /\ hand' = [hand EXCEPT ![r] = Items(buffer, FALSE)] /\ NoEntry
  BY DEF Snapshot, NoEntry
<1>2. CASE s = r
  <2>1. hand[s] = <<>>
    BY <1>1, <1>2 DEF Typing, Placed
  <2>2. Ahead(s)' = Ahead(s)
    BY <1>1 DEF Ahead
  <2>3. Ids(hand[s]) = {}
    BY <2>1, EmptyIds
  <2>4. Kept(s) \subseteq Kept(s)'
    BY <1>1, <2>2, <2>3 DEF Kept
  <2> QED BY <1>1, <1>2, <2>4 DEF Carries, Watched
<1>3. CASE s # r
  <2>1. task'[s] = task[s] /\ hand'[s] = hand[s]
    BY <1>1, <1>3 DEF Typing
  <2> QED BY <1>1, <2>1, UntouchedCarries
<1> QED BY <1>2, <1>3

\* What the receiver skips is counted, and what it takes is in the handler's hand.
LEMMA RecvCarries ==
  ASSUME Typing, NEW r \in Stream, Recv(r), NEW s \in Stream
  PROVE  Carries(s)
<1>1. /\ UNCHANGED <<running, draining, sent, task, client, pipe, got, since>>
      /\ task[r] = "streaming" /\ hand[r] = <<>> /\ next[r] >= 1 /\ next[r] \in Nat
      /\ next \in [Stream -> Nat] /\ logged \in Nat
  BY DEF Typing, Placed, Recv
<1>2. AddEntry \/ NoEntry
  BY DEF Recv
<1>3. /\ logged' = logged \/ logged' = logged + 1
      /\ Range(buffer') \cup evicted'
           = Range(buffer) \cup evicted \cup (IF logged' = logged THEN {} ELSE {logged'})
  BY <1>2, NoEntryTyping DEF AddEntry
<1>4. CASE s # r
  <2>1. next'[s] = next[s] /\ hand'[s] = hand[s] /\ lagged'[s] = lagged[s]
    BY <1>4 DEF Typing, Recv
  <2> QED BY <1>1, <1>2, <2>1, UntouchedCarries
<1>5. CASE s = r /\ next[r] < Oldest
  <2>1. ~(next[r] >= Oldest)
    BY <1>1, <1>5, OldestBounds
  <2>2. /\ next'[s] = Oldest /\ hand'[s] = hand[s]
        /\ lagged'[s] = lagged[s] \cup {sent[i] : i \in next[s] .. Oldest - 1}
    BY <1>5, <2>1 DEF Typing, Recv
  <2>3. \A i \in next[s] .. Len(sent) : i \in next[s] .. Oldest - 1 \/ i \in Oldest .. Len(sent)
    BY <1>1, <1>5, OldestBounds
  <2>4. {sent[i] : i \in next[s] .. Len(sent)}
          \subseteq {sent[i] : i \in next[s] .. Oldest - 1} \cup {sent[i] : i \in Oldest .. Len(sent)}
    BY <2>3
  <2>5. Kept(s)' = Range(buffer') \cup evicted' \cup Range(draining)
                     \cup {sent[i] : i \in Oldest .. Len(sent)}
                     \cup Ids(hand[s]) \cup Ids(pipe[s]) \cup Ids(got[s]) \cup lagged'[s]
    BY <1>1, <2>2 DEF Kept, Ahead
  <2>6. Kept(s) \subseteq Kept(s)' /\ (logged' # logged => logged' \in Kept(s)')
    BY <1>3, <2>2, <2>4, <2>5 DEF Kept, Ahead
  <2> QED BY <1>1, <1>3, <2>6 DEF Carries, Watched
<1>6. CASE s = r /\ next[r] >= Oldest
  <2>1. ~(next[r] < Oldest)
    BY <1>1, <1>6, OldestBounds
  <2>2. /\ next[r] <= Len(sent) /\ UNCHANGED lagged /\ NoEntry
        /\ next' = [next EXCEPT ![r] = @ + 1]
        /\ hand' = [hand EXCEPT ![r] = Items(<<sent[next[r]]>>, TRUE)]
    BY <2>1 DEF Recv
  <2>3. sent[next[s]] \in Entry
    BY <1>1, <1>6, <2>2, OldestBounds DEF Typing
  <2>4. <<sent[next[s]]>> \in Seq(Entry) /\ Range(<<sent[next[s]]>>) = {sent[next[s]]}
    BY <2>3 DEF Range
  <2> DEFINE items == Items(<<sent[next[s]]>>, TRUE)
  <2>5. Ids(items) = {sent[next[s]]}
    BY <2>4, ItemsIds
  <2>6. hand' = [hand EXCEPT ![s] = items] /\ next' = [next EXCEPT ![s] = next[s] + 1]
    BY <1>6, <2>2
  <2> HIDE DEF items
  <2>7. hand'[s] = items /\ next'[s] = next[s] + 1
    BY <1>1, <2>6 DEF Typing
  <2>8. \A i \in next[s] .. Len(sent) : i = next[s] \/ i \in next[s] + 1 .. Len(sent)
    BY <1>1, <1>6, OldestBounds
  <2>9. {sent[i] : i \in next[s] .. Len(sent)}
          \subseteq {sent[next[s]]} \cup {sent[i] : i \in next[s] + 1 .. Len(sent)}
    BY <2>8
  <2>10. Kept(s)' = Range(buffer) \cup evicted \cup Range(draining)
                      \cup {sent[i] : i \in next[s] + 1 .. Len(sent)}
                      \cup {sent[next[s]]} \cup Ids(pipe[s]) \cup Ids(got[s]) \cup lagged[s]
    <3>1. Ahead(s)' = Range(buffer) \cup Range(draining) \cup {sent[i] : i \in next[s] + 1 .. Len(sent)}
      BY <1>1, <2>2, <2>7 DEF Ahead, NoEntry
    <3>2. Ids(hand[s])' = {sent[next[s]]}
      BY <2>5, <2>7 DEF Ids
    <3>3. (Ids(pipe[s]) \cup Ids(got[s]) \cup evicted \cup lagged[s])'
            = Ids(pipe[s]) \cup Ids(got[s]) \cup evicted \cup lagged[s]
      BY <1>1, <2>2 DEF NoEntry
    <3> QED BY <3>1, <3>2, <3>3 DEF Kept
  <2>11. Kept(s) \subseteq Kept(s)'
    BY <1>1, <1>6, <2>9, <2>10, EmptyIds DEF Kept, Ahead
  <2> QED BY <1>1, <2>2, <2>11 DEF Carries, Watched, NoEntry
<1> QED BY <1>1, <1>4, <1>5, <1>6, OldestBounds

LEMMA WriteCarries ==
  ASSUME Typing, NEW r \in Stream, Write(r), NEW s \in Stream
  PROVE  Carries(s)
<1>1. /\ UNCHANGED <<running, logged, buffer, draining, sent, next, client, got,
                     evicted, lagged, since>>
      /\ NoEntry /\ hand[r] # <<>>
  BY DEF Write, NoEntry
<1>2. CASE s # r
  <2>1. task'[s] = task[s] /\ hand'[s] = hand[s] /\ pipe'[s] = pipe[s]
    BY <1>2 DEF Typing, Write
  <2> QED BY <1>1, <2>1, UntouchedCarries
<1>3. CASE s = r /\ client[r] = "gone"
  BY <1>1, <1>3 DEF Carries, Watched
<1>4. CASE s = r /\ client[r] # "gone"
  <2>1. /\ UNCHANGED task /\ pipe'[s] = Append(pipe[s], Head(hand[s]))
        /\ hand'[s] = Tail(hand[s])
    BY <1>4 DEF Typing, Write
  <2>2. /\ hand[s] \in Seq(Item) /\ hand[s] # <<>> /\ pipe[s] \in Seq(Item)
    BY <1>1, <1>4 DEF Typing
  <2>3. /\ Head(hand[s]) \in Item
        /\ Ids(hand[s]) = {Head(hand[s]).id} \cup Ids(Tail(hand[s]))
    BY <2>2, HeadTailIds
  <2>4. Ids(Append(pipe[s], Head(hand[s]))) = Ids(pipe[s]) \cup {Head(hand[s]).id}
    BY <2>2, <2>3, AppendIds
  <2>5. Ids(hand[s]) \cup Ids(pipe[s]) = Ids(hand'[s]) \cup Ids(pipe'[s])
    BY <2>1, <2>3, <2>4
  <2>6. Kept(s) \subseteq Kept(s)'
    BY <1>1, <2>5 DEF Kept, Ahead
  <2> QED BY <1>1, <2>1, <2>6 DEF Carries, Watched
<1> QED BY <1>2, <1>3, <1>4

LEMMA ReadCarries ==
  ASSUME Typing, NEW r \in Stream, Read(r), NEW s \in Stream
  PROVE  Carries(s)
<1>1. /\ UNCHANGED <<running, logged, buffer, draining, sent, task, next, hand, client,
                     evicted, lagged, since>>
      /\ NoEntry /\ pipe[r] # <<>>
      /\ got' = [got EXCEPT ![r] = Append(@, Head(pipe[r]))]
      /\ pipe' = [pipe EXCEPT ![r] = Tail(@)]
  BY DEF Read, NoEntry
<1>2. CASE s # r
  <2>1. got'[s] = got[s] /\ pipe'[s] = pipe[s]
    BY <1>1, <1>2 DEF Typing
  <2> QED BY <1>1, <2>1, UntouchedCarries
<1>3. CASE s = r
  <2>1. got'[s] = Append(got[s], Head(pipe[s])) /\ pipe'[s] = Tail(pipe[s])
    BY <1>1, <1>3 DEF Typing
  <2>2. pipe[s] \in Seq(Item) /\ pipe[s] # <<>> /\ got[s] \in Seq(Item)
    BY <1>1, <1>3 DEF Typing
  <2>3. /\ Head(pipe[s]) \in Item
        /\ Ids(pipe[s]) = {Head(pipe[s]).id} \cup Ids(Tail(pipe[s]))
    BY <2>2, HeadTailIds
  <2>4. Ids(Append(got[s], Head(pipe[s]))) = Ids(got[s]) \cup {Head(pipe[s]).id}
    BY <2>2, <2>3, AppendIds
  <2>5. Ids(pipe[s]) \cup Ids(got[s]) = Ids(pipe'[s]) \cup Ids(got'[s])
    BY <2>1, <2>3, <2>4
  <2>6. Kept(s) \subseteq Kept(s)'
    BY <1>1, <2>5 DEF Kept, Ahead
  <2> QED BY <1>1, <2>6 DEF Carries, Watched
<1> QED BY <1>2, <1>3

LEMMA LeaveCarries ==
  ASSUME Typing, NEW r \in Stream, Leave(r), NEW s \in Stream
  PROVE  Carries(s)
<1>1. CASE s = r
  BY <1>1 DEF Typing, Carries, Watched, Leave
<1>2. CASE s # r
  <2>1. /\ UNCHANGED <<running, logged, buffer, draining, sent, task, next, hand, got,
                       evicted, lagged, since>>
        /\ client'[s] = client[s] /\ pipe'[s] = pipe[s] /\ NoEntry
    BY <1>2 DEF Typing, Leave, NoEntry
  <2> QED BY <2>1, UntouchedCarries
<1> QED BY <1>1, <1>2

LEMMA StepCarries ==
  ASSUME Typing, [Next]_vars, NEW s \in Stream
  PROVE  Carries(s)
<1>1. CASE Log
  BY <1>1, LogCarries
<1>2. CASE Broadcaster
  BY <1>2, DrainCarries, BroadcastCarries DEF Broadcaster
<1>3. CASE Shutdown
  BY <1>3 DEF Shutdown, Carries, Watched
<1>4. ASSUME NEW r \in Stream, Accept(r) \/ Handler(r) \/ Read(r) \/ Leave(r)
      PROVE  Carries(s)
  <2>1. CASE Accept(r)
    BY <2>1, AcceptCarries
  <2>2. CASE Handler(r)
    BY <2>2, SubscribeCarries, SnapshotCarries, RecvCarries, WriteCarries DEF Handler
  <2>3. CASE Read(r)
    BY <2>3, ReadCarries
  <2>4. CASE Leave(r)
    BY <2>4, LeaveCarries
  <2> QED BY <1>4, <2>1, <2>2, <2>3, <2>4
<1>5. CASE UNCHANGED vars
  BY <1>5, UntouchedCarries DEF vars, NoEntry
<1> QED BY <1>1, <1>2, <1>3, <1>4, <1>5 DEF Next

-----------------------------------------------------------------------------
(* The theorems                                                             *)

LEMMA InvariantInit == Init => IInv
<1>1. Init => NothingLostSilently
  BY DEF Init, NothingLostSilently
<1> QED BY <1>1, TypingInit DEF IInv

LEMMA InvariantStep == IInv /\ [Next]_vars => IInv'
<1> SUFFICES ASSUME IInv, [Next]_vars PROVE IInv'
  OBVIOUS
<1>1. Typing /\ NothingLostSilently /\ Typing'
  BY TypingStep DEF IInv
<1>2. ASSUME NEW s \in Stream, Watched(s)', NEW e \in since'[s] + 1 .. logged'
      PROVE  e \in Kept(s)'
  <2>1. Carries(s)
    BY <1>1, StepCarries
  <2> QED BY <1>1, <1>2, <2>1, CarriesKeeps
<1>3. NothingLostSilently'
  BY <1>2 DEF NothingLostSilently, Watched, Kept
<1> QED BY <1>1, <1>3 DEF IInv

LEMMA Inductive == Spec => []IInv
BY InvariantInit, InvariantStep, PTL DEF Spec

\* Queues stay within their capacities and everything keeps its type, whatever is
\* logged and however slowly it is read (daemon.rs, LogBuffer and handle_stream_logs).
THEOREM TypeCorrect == Spec => []TypeOK
<1>1. IInv => TypeOK
  BY TypingTypeOK DEF IInv
<1> QED BY <1>1, Inductive, PTL

\* No entry that was logged after a client's command was routed disappears between
\* the replay, the batch, the channel and the client without being evicted or counted
\* in a lag warning (handle_connection subscribes before it spawns the handler).
THEOREM NothingLost == Spec => []NothingLostSilently
<1>1. IInv => NothingLostSilently
  BY DEF IInv
<1> QED BY <1>1, Inductive, PTL

-----------------------------------------------------------------------------
(* Order.  The relations below are sets of pairs, so that one lemma about  *)
(* sequences serves both the entries and the items.                        *)

Before(R, p, q) == \A i \in DOMAIN p, j \in DOMAIN q : <<p[i], q[j]>> \in R
Sorted(R, q) == \A i, j \in DOMAIN q : i < j => <<q[i], q[j]>> \in R

\* x was logged before y.
Older == {p \in Entry \X Entry : p[1] < p[2]}

\* x is given to the client before y: the replay first, each half by number.
Earlier ==
  {p \in Item \X Item : /\ p[1].live => p[2].live
                        /\ p[1].live = p[2].live => p[1].id < p[2].id}

\* From the channel back to the buffer entries get newer.
InOrder ==
  /\ Sorted(Older, buffer) /\ Sorted(Older, draining) /\ Sorted(Older, sent)
  /\ Before(Older, sent, draining) /\ Before(Older, sent, buffer)
  /\ Before(Older, draining, buffer)
  /\ \A i \in DOMAIN buffer : buffer[i] <= logged
  /\ \A i \in DOMAIN draining : draining[i] <= logged
  /\ \A i \in DOMAIN sent : sent[i] <= logged

\* What came from a channel was in it before the receiver's place n.
Passed(chan, n, q) ==
  \A i \in DOMAIN q :
    q[i].live => \E k \in DOMAIN chan : k < n /\ chan[k] = q[i].id

\* What a client has read, what is in the socket and what the handler holds.
QueuesInOrder(chan, n, g, p, h) ==
  /\ Sorted(Earlier, g) /\ Sorted(Earlier, p) /\ Sorted(Earlier, h)
  /\ Before(Earlier, g, p) /\ Before(Earlier, g, h) /\ Before(Earlier, p, h)
  /\ Passed(chan, n, g) /\ Passed(chan, n, p) /\ Passed(chan, n, h)

StreamInOrder(s) ==
  /\ QueuesInOrder(sent, next[s], got[s], pipe[s], hand[s])
  /\ task[s] \in {"off", "accepted", "spawned"} =>
       got[s] = <<>> /\ pipe[s] = <<>> /\ hand[s] = <<>>

OrderInv == Typing /\ InOrder /\ \A s \in Stream : StreamInOrder(s)

LEMMA EmptySorted ==
  ASSUME NEW R, NEW q
  PROVE  Sorted(R, <<>>) /\ Before(R, <<>>, q) /\ Before(R, q, <<>>)
<1>1. DOMAIN <<>> = {}
  OBVIOUS
<1> QED BY <1>1 DEF Sorted, Before

LEMMA Positions ==
  ASSUME NEW S, NEW q \in Seq(S)
  PROVE  /\ Len(q) \in Nat /\ DOMAIN q = 1 .. Len(q)
         /\ \A i \in DOMAIN q : i \in Nat /\ q[i] \in S
OBVIOUS

LEMMA AppendPositions ==
  ASSUME NEW S, NEW q \in Seq(S), NEW x \in S
  PROVE  /\ Append(q, x) \in Seq(S) /\ Append(q, x)[Len(q) + 1] = x
         /\ \A i \in DOMAIN q : i \in Nat /\ i < Len(q) + 1 /\ Append(q, x)[i] = q[i]
         /\ \A i \in DOMAIN Append(q, x) : i \in DOMAIN q \/ i = Len(q) + 1
         /\ Len(q) + 1 \in DOMAIN Append(q, x) /\ Len(q) \in Nat
<1>1. /\ Len(q) \in Nat /\ DOMAIN q = 1 .. Len(q) /\ DOMAIN Append(q, x) = 1 .. Len(q) + 1
      /\ Append(q, x)[Len(q) + 1] = x /\ \A i \in 1 .. Len(q) : Append(q, x)[i] = q[i]
      /\ Append(q, x) \in Seq(S)
  OBVIOUS
<1>2. \A i \in 1 .. Len(q) + 1 : i = Len(q) + 1 \/ i \in 1 .. Len(q)
  BY <1>1
<1>3. \A i \in 1 .. Len(q) : i \in Nat /\ i < Len(q) + 1
  BY <1>1
<1>4. Len(q) + 1 \in 1 .. Len(q) + 1
  BY <1>1
<1> QED BY <1>1, <1>2, <1>3, <1>4

LEMMA TailPositions ==
  ASSUME NEW S, NEW q \in Seq(S), q # <<>>
  PROVE  /\ Head(q) \in S /\ Tail(q) \in Seq(S) /\ 1 \in DOMAIN q /\ Head(q) = q[1]
         /\ \A i \in DOMAIN Tail(q) :
              i \in Nat /\ i + 1 \in DOMAIN q /\ 1 < i + 1 /\ Tail(q)[i] = q[i + 1]
<1>1. /\ Len(q) \in Nat \ {0} /\ DOMAIN q = 1 .. Len(q) /\ Head(q) = q[1] /\ q[1] \in S
      /\ Tail(q) \in Seq(S) /\ DOMAIN Tail(q) = 1 .. Len(q) - 1
      /\ \A i \in 1 .. Len(q) - 1 : Tail(q)[i] = q[i + 1]
  OBVIOUS
<1>2. \A i \in 1 .. Len(q) - 1 : i \in Nat /\ i + 1 \in 1 .. Len(q) /\ 1 < i + 1
  BY <1>1
<1>3. 1 \in 1 .. Len(q)
  BY <1>1
<1> QED BY <1>1, <1>2, <1>3

\* An element that comes after all of a sequence goes to its end.
LEMMA AppendSorted ==
  ASSUME NEW S, NEW R, NEW q \in Seq(S), NEW x \in S,
         Sorted(R, q), \A i \in DOMAIN q : <<q[i], x>> \in R
  PROVE  Sorted(R, Append(q, x))
<1> DEFINE a == Append(q, x)
           n == Len(q) + 1
<1>1. /\ a[n] = x /\ n \in Nat /\ \A i \in DOMAIN q : i \in Nat /\ i < n /\ a[i] = q[i]
      /\ \A i \in DOMAIN a : i \in DOMAIN q \/ i = n
  BY AppendPositions
<1> HIDE DEF a, n
<1>2. ASSUME NEW i \in DOMAIN a, NEW j \in DOMAIN a, i < j
      PROVE  <<a[i], a[j]>> \in R
  <2>1. i \in DOMAIN q
    BY <1>1, <1>2
  <2>2. CASE j \in DOMAIN q
    BY <1>1, <1>2, <2>1, <2>2 DEF Sorted
  <2>3. CASE j = n
    BY <1>1, <2>1, <2>3
  <2> QED BY <1>1, <2>2, <2>3
<1>3. Sorted(R, a)
  BY <1>2 DEF Sorted
<1> QED BY <1>3 DEF a

LEMMA AppendBefore ==
  ASSUME NEW S, NEW R, NEW q \in Seq(S), NEW x \in S, NEW p
  PROVE  /\ (Before(R, q, p) /\ \A i \in DOMAIN p : <<x, p[i]>> \in R)
              => Before(R, Append(q, x), p)
         /\ (Before(R, p, q) /\ \A i \in DOMAIN p : <<p[i], x>> \in R)
              => Before(R, p, Append(q, x))
<1> DEFINE a == Append(q, x)
           n == Len(q) + 1
<1>1. /\ a[n] = x /\ \A i \in DOMAIN q : a[i] = q[i]
      /\ \A i \in DOMAIN a : i \in DOMAIN q \/ i = n
  BY AppendPositions
<1> HIDE DEF a, n
<1>2. (Before(R, q, p) /\ \A i \in DOMAIN p : <<x, p[i]>> \in R) => Before(R, a, p)
  BY <1>1 DEF Before
<1>3. (Before(R, p, q) /\ \A i \in DOMAIN p : <<p[i], x>> \in R) => Before(R, p, a)
  BY <1>1 DEF Before
<1> QED BY <1>2, <1>3 DEF a

LEMMA TailSorted ==
  ASSUME NEW S, NEW R, NEW q \in Seq(S), q # <<>>, Sorted(R, q)
  PROVE  Sorted(R, Tail(q)) /\ \A i \in DOMAIN Tail(q) : <<Head(q), Tail(q)[i]>> \in R
<1> DEFINE t == Tail(q)
           h == Head(q)
<1>1. /\ 1 \in DOMAIN q /\ h = q[1]
      /\ \A i \in DOMAIN t : i \in Nat /\ i + 1 \in DOMAIN q /\ 1 < i + 1 /\ t[i] = q[i + 1]
  BY TailPositions
<1> HIDE DEF t, h
<1>2. ASSUME NEW i \in DOMAIN t, NEW j \in DOMAIN t, i < j PROVE <<t[i], t[j]>> \in R
  <2>1. /\ i + 1 < j + 1 /\ i + 1 \in DOMAIN q /\ j + 1 \in DOMAIN q
        /\ t[i] = q[i + 1] /\ t[j] = q[j + 1]
    BY <1>1, <1>2
  <2> QED BY <2>1 DEF Sorted
<1>3. ASSUME NEW i \in DOMAIN t PROVE <<h, t[i]>> \in R
  BY <1>1 DEF Sorted
<1>4. Sorted(R, t) /\ \A i \in DOMAIN t : <<h, t[i]>> \in R
  BY <1>2, <1>3 DEF Sorted
<1> QED BY <1>4 DEF t, h

LEMMA TailBefore ==
  ASSUME NEW S, NEW R, NEW q \in Seq(S), q # <<>>, NEW p
  PROVE  /\ Before(R, p, q) =>
              Before(R, p, Tail(q)) /\ \A i \in DOMAIN p : <<p[i], Head(q)>> \in R
         /\ Before(R, q, p) =>
              Before(R, Tail(q), p) /\ \A i \in DOMAIN p : <<Head(q), p[i]>> \in R
<1> DEFINE t == Tail(q)
           h == Head(q)
<1>1. /\ 1 \in DOMAIN q /\ h = q[1]
      /\ \A i \in DOMAIN t : i + 1 \in DOMAIN q /\ t[i] = q[i + 1]
  BY TailPositions
<1> HIDE DEF t, h
<1>2. Before(R, p, q) => Before(R, p, t) /\ \A i \in DOMAIN p : <<p[i], h>> \in R
  BY <1>1 DEF Before
<1>3. Before(R, q, p) => Before(R, t, p) /\ \A i \in DOMAIN p : <<h, p[i]>> \in R
  BY <1>1 DEF Before
<1> QED BY <1>2, <1>3 DEF t, h

\* Two sequences one after the other.
LEMMA ConcatSorted ==
  ASSUME NEW S, NEW R, NEW p \in Seq(S), NEW q \in Seq(S), NEW r \in Seq(S),
         Sorted(R, p), Sorted(R, q), Before(R, p, q)
  PROVE  /\ p \o q \in Seq(S) /\ Sorted(R, p \o q)
         /\ Before(R, p, r) /\ Before(R, q, r) => Before(R, p \o q, r)
<1> DEFINE c == p \o q
<1>1. /\ c \in Seq(S) /\ Len(p) \in Nat /\ Len(q) \in Nat
      /\ DOMAIN c = 1 .. Len(p) + Len(q) /\ DOMAIN p = 1 .. Len(p) /\ DOMAIN q = 1 .. Len(q)
      /\ \A i \in 1 .. Len(p) + Len(q) : c[i] = IF i <= Len(p) THEN p[i] ELSE q[i - Len(p)]
  OBVIOUS
<1> HIDE DEF c
<1>2. ASSUME NEW i \in DOMAIN c
      PROVE  \/ i \in DOMAIN p /\ c[i] = p[i] /\ i <= Len(p)
             \/ i - Len(p) \in DOMAIN q /\ c[i] = q[i - Len(p)] /\ i > Len(p)
  BY <1>1
<1>3. ASSUME NEW i \in DOMAIN c, NEW j \in DOMAIN c, i < j PROVE <<c[i], c[j]>> \in R
  <2>1. i \in Nat /\ j \in Nat
    BY <1>1
  <2>2. CASE i <= Len(p) /\ j <= Len(p)
    <3>1. i \in DOMAIN p /\ j \in DOMAIN p /\ c[i] = p[i] /\ c[j] = p[j]
      BY <1>1, <1>2, <2>1, <2>2
    <3> QED BY <1>3, <3>1 DEF Sorted
  <2>3. CASE i <= Len(p) /\ j > Len(p)
    <3>1. i \in DOMAIN p /\ j - Len(p) \in DOMAIN q /\ c[i] = p[i] /\ c[j] = q[j - Len(p)]
      BY <1>1, <1>2, <2>1, <2>3
    <3> QED BY <3>1 DEF Before
  <2>4. CASE i > Len(p) /\ j > Len(p)
    <3>1. /\ i - Len(p) \in DOMAIN q /\ j - Len(p) \in DOMAIN q
          /\ c[i] = q[i - Len(p)] /\ c[j] = q[j - Len(p)] /\ i - Len(p) < j - Len(p)
      BY <1>1, <1>2, <1>3, <2>1, <2>4
    <3> QED BY <3>1 DEF Sorted
  <2> QED BY <1>1, <1>3, <2>1, <2>2, <2>3, <2>4
<1>4. Sorted(R, c)
  BY <1>3 DEF Sorted
<1>5. Before(R, p, r) /\ Before(R, q, r) => Before(R, c, r)
  BY <1>2 DEF Before
<1> QED BY <1>1, <1>4, <1>5 DEF c
\* Moving the head of one sequence to the end of the one before it.
LEMMA MoveSorted ==
  ASSUME NEW S, NEW R, NEW p \in Seq(S), NEW q \in Seq(S), q # <<>>,
         Sorted(R, p), Sorted(R, q), Before(R, p, q)
  PROVE  /\ Append(p, Head(q)) \in Seq(S) /\ Tail(q) \in Seq(S)
         /\ Sorted(R, Append(p, Head(q))) /\ Sorted(R, Tail(q))
         /\ Before(R, Append(p, Head(q)), Tail(q))
<1> DEFINE h == Head(q)
           t == Tail(q)
<1>1. h \in S /\ t \in Seq(S)
  BY TailPositions
<1>2. Sorted(R, t) /\ \A i \in DOMAIN t : <<h, t[i]>> \in R
  BY TailSorted
<1>3. Before(R, p, t) /\ \A i \in DOMAIN p : <<p[i], h>> \in R
  BY TailBefore
<1> HIDE DEF h, t
<1>4. Append(p, h) \in Seq(S)
  BY <1>1, AppendPositions
<1>5. Sorted(R, Append(p, h))
  BY <1>1, <1>3, AppendSorted
<1>6. Before(R, Append(p, h), t)
  BY <1>1, <1>2, <1>3, AppendBefore
<1> QED BY <1>1, <1>2, <1>4, <1>5, <1>6 DEF h, t

\* A third sequence that stands before or after both stays so.
LEMMA MoveBefore ==
  ASSUME NEW S, NEW R, NEW p \in Seq(S), NEW q \in Seq(S), q # <<>>, NEW r
  PROVE  /\ (Before(R, p, r) /\ Before(R, q, r))
              => Before(R, Append(p, Head(q)), r) /\ Before(R, Tail(q), r)
         /\ (Before(R, r, p) /\ Before(R, r, q))
              => Before(R, r, Append(p, Head(q))) /\ Before(R, r, Tail(q))
<1> DEFINE h == Head(q)
           t == Tail(q)
<1>1. h \in S
  BY TailPositions
<1>2. Before(R, q, r) => Before(R, t, r) /\ \A i \in DOMAIN r : <<h, r[i]>> \in R
  BY TailBefore
<1>3. Before(R, r, q) => Before(R, r, t) /\ \A i \in DOMAIN r : <<r[i], h>> \in R
  BY TailBefore
<1> HIDE DEF h, t
<1>4. (Before(R, p, r) /\ \A i \in DOMAIN r : <<h, r[i]>> \in R) => Before(R, Append(p, h), r)
  BY <1>1, AppendBefore
<1>5. (Before(R, r, p) /\ \A i \in DOMAIN r : <<r[i], h>> \in R) => Before(R, r, Append(p, h))
  BY <1>1, AppendBefore
<1>6. (Before(R, p, r) /\ Before(R, q, r)) => Before(R, Append(p, h), r) /\ Before(R, t, r)
  BY <1>2, <1>4
<1>7. (Before(R, r, p) /\ Before(R, r, q)) => Before(R, r, Append(p, h)) /\ Before(R, r, t)
  BY <1>3, <1>5
<1> QED BY <1>6, <1>7 DEF h, t

-----------------------------------------------------------------------------
(* The order in the daemon                                                  *)

\* A new entry is newer than everything on its way, and goes to the buffer's end.
LEMMA AddEntryInOrder ==
  ASSUME Typing, InOrder, AddEntry, UNCHANGED <<draining, sent>>
  PROVE  InOrder'
<1>1. logged' = logged + 1 /\ logged' \in Entry /\ logged \in Nat
  BY Capacities DEF Typing, AddEntry, Entry
<1>2. /\ buffer \in Seq(Entry) /\ draining \in Seq(Entry) /\ sent \in Seq(Entry)
  BY DEF Typing
<1>3. /\ \A i \in DOMAIN buffer : buffer[i] \in Entry /\ <<buffer[i], logged'>> \in Older
      /\ \A i \in DOMAIN draining : draining[i] \in Entry /\ <<draining[i], logged'>> \in Older
      /\ \A i \in DOMAIN sent : sent[i] \in Entry /\ <<sent[i], logged'>> \in Older
  <2>1. ASSUME NEW e \in Entry, e <= logged PROVE <<e, logged'>> \in Older
    BY <1>1, <2>1 DEF Older, Entry
  <2> QED BY <1>2, <2>1, Positions DEF InOrder
<1>4. PICK rest : /\ rest \in Seq(Entry) /\ buffer' = Append(rest, logged')
                  /\ Sorted(Older, rest)
                  /\ Before(Older, sent, rest) /\ Before(Older, draining, rest)
                  /\ \A i \in DOMAIN rest : rest[i] <= logged /\ <<rest[i], logged'>> \in Older
  <2>1. CASE Len(buffer) = BufCap
    <3>1. buffer # <<>>
      <4>1. Len(buffer) > 0
        BY <2>1, Capacities DEF Typing
      <4>2. Len(<<>>) = 0
        OBVIOUS
      <4> QED BY <4>1, <4>2
    <3>2. buffer' = Append(Tail(buffer), logged')
      BY <2>1 DEF AddEntry
    <3>3. Tail(buffer) \in Seq(Entry) /\ Sorted(Older, Tail(buffer))
      BY <1>2, <3>1, TailPositions, TailSorted DEF InOrder
    <3>4. Before(Older, sent, Tail(buffer)) /\ Before(Older, draining, Tail(buffer))
      BY <1>2, <3>1, TailBefore DEF InOrder
    <3>5. \A i \in DOMAIN Tail(buffer) : i + 1 \in DOMAIN buffer /\ Tail(buffer)[i] = buffer[i + 1]
      BY <1>2, <3>1, TailPositions
    <3>6. \A i \in DOMAIN Tail(buffer) :
            Tail(buffer)[i] <= logged /\ <<Tail(buffer)[i], logged'>> \in Older
      BY <1>3, <3>5 DEF InOrder
    <3> QED BY <3>2, <3>3, <3>4, <3>6
  <2>2. CASE Len(buffer) # BufCap
    <3>1. buffer' = Append(buffer, logged')
      BY <2>2 DEF AddEntry
    <3> QED BY <1>2, <1>3, <3>1 DEF InOrder
  <2> QED BY <2>1, <2>2
<1>5. Sorted(Older, buffer')
  BY <1>1, <1>4, AppendSorted
<1>6. Before(Older, sent, buffer') /\ Before(Older, draining, buffer')
  BY <1>1, <1>3, <1>4, AppendBefore
<1>7. \A i \in DOMAIN buffer' : buffer'[i] <= logged'
  <2>1. /\ Append(rest, logged')[Len(rest) + 1] = logged'
        /\ \A i \in DOMAIN rest : Append(rest, logged')[i] = rest[i]
        /\ \A i \in DOMAIN Append(rest, logged') : i \in DOMAIN rest \/ i = Len(rest) + 1
    BY <1>1, <1>4, AppendPositions
  <2>2. \A i \in DOMAIN rest : rest[i] \in Nat /\ rest[i] <= logged
    <3>1. \A i \in DOMAIN rest : rest[i] \in Entry
      BY <1>4, Positions
    <3>2. Entry \subseteq Nat
      BY Capacities DEF Entry
    <3> QED BY <1>4, <3>1, <3>2
  <2>3. ASSUME NEW i \in DOMAIN buffer' PROVE buffer'[i] <= logged'
    <3>1. CASE i \in DOMAIN rest
      <4>1. buffer'[i] = rest[i] /\ rest[i] \in Nat /\ rest[i] <= logged
        BY <1>4, <2>1, <2>2, <3>1
      <4> QED BY <1>1, <4>1
    <3>2. CASE i = Len(rest) + 1
      <4>1. buffer'[i] = logged'
        BY <1>4, <2>1, <3>2
      <4> QED BY <1>1, <4>1
    <3> QED BY <1>4, <2>1, <2>3, <3>1, <3>2
  <2> QED BY <2>3
<1>8. /\ \A i \in DOMAIN draining : draining[i] <= logged'
      /\ \A i \in DOMAIN sent : sent[i] <= logged'
  <2>1. ASSUME NEW e \in Entry, e <= logged PROVE e <= logged'
    BY <1>1, <2>1 DEF Entry
  <2> QED BY <1>2, <2>1, Positions DEF InOrder
<1> QED BY <1>5, <1>6, <1>7, <1>8 DEF InOrder

LEMMA LogInOrder ==
  ASSUME Typing, InOrder, AddEntry \/ NoEntry, UNCHANGED <<draining, sent>>
  PROVE  InOrder'
<1>1. CASE AddEntry
  BY <1>1, AddEntryInOrder
<1>2. CASE NoEntry
  BY <1>2 DEF NoEntry, InOrder, Sorted, Before
<1> QED BY <1>1, <1>2

LEMMA DrainInOrder ==
  ASSUME Typing, InOrder, Drain
  PROVE  InOrder'
<1>1. /\ draining' = buffer /\ buffer' = <<>> /\ sent' = sent /\ logged' = logged
  BY DEF Drain
<1>2. DOMAIN <<>> = {}
  OBVIOUS
<1> QED BY <1>1, <1>2, EmptySorted DEF InOrder

LEMMA BroadcastInOrder ==
  ASSUME Typing, InOrder, Broadcast
  PROVE  InOrder'
<1>1. /\ sent' = Append(sent, Head(draining)) /\ draining' = Tail(draining)
      /\ buffer' = buffer /\ logged' = logged /\ draining # <<>>
  BY DEF Broadcast
<1>2. sent \in Seq(Entry) /\ draining \in Seq(Entry)
  BY DEF Typing
<1>3. /\ Sorted(Older, sent') /\ Sorted(Older, draining') /\ Before(Older, sent', draining')
  BY <1>1, <1>2, MoveSorted DEF InOrder
<1>4. Before(Older, sent', buffer') /\ Before(Older, draining', buffer')
  BY <1>1, <1>2, MoveBefore DEF InOrder
<1>5. /\ Head(draining) \in Entry /\ 1 \in DOMAIN draining /\ Head(draining) = draining[1]
      /\ \A i \in DOMAIN Tail(draining) :
           i + 1 \in DOMAIN draining /\ Tail(draining)[i] = draining[i + 1]
  BY <1>1, <1>2, TailPositions
<1>6. \A i \in DOMAIN draining' : draining'[i] <= logged'
  BY <1>1, <1>5 DEF InOrder
<1>7. \A i \in DOMAIN sent' : sent'[i] <= logged'
  <2>1. /\ sent'[Len(sent) + 1] = Head(draining)
        /\ \A i \in DOMAIN sent : sent'[i] = sent[i]
        /\ \A i \in DOMAIN sent' : i \in DOMAIN sent \/ i = Len(sent) + 1
    BY <1>1, <1>2, <1>5, AppendPositions
  <2> QED BY <1>1, <1>5, <2>1 DEF InOrder
<1> QED BY <1>1, <1>3, <1>4, <1>6, <1>7 DEF InOrder

LEMMA ShutdownInOrder ==
  ASSUME InOrder, Shutdown
  PROVE  InOrder'
<1>1. /\ draining' = <<>> /\ buffer' = <<>> /\ sent' = sent /\ logged' = logged
  BY DEF Shutdown
<1>2. DOMAIN <<>> = {}
  OBVIOUS
<1> QED BY <1>1, <1>2, EmptySorted DEF InOrder

LEMMA StepInOrder ==
  ASSUME Typing, InOrder, [Next]_vars
  PROVE  InOrder'
<1>1. CASE Log
  BY <1>1, LogInOrder DEF Log
<1>2. CASE Broadcaster
  BY <1>2, DrainInOrder, BroadcastInOrder DEF Broadcaster
<1>3. CASE Shutdown
  BY <1>3, ShutdownInOrder
<1>4. ASSUME NEW r \in Stream, Accept(r) \/ Handler(r) \/ Read(r) \/ Leave(r)
      PROVE  InOrder'
  <2>1. CASE Accept(r)
    BY <2>1, LogInOrder DEF Accept
  <2>2. CASE Recv(r)
    BY <2>2, LogInOrder DEF Recv
  <2>3. CASE Subscribe(r) \/ Snapshot(r) \/ Write(r) \/ Read(r) \/ Leave(r)
    <3>1. NoEntry /\ UNCHANGED <<draining, sent>>
      BY <2>3 DEF Subscribe, Snapshot, Write, Read, Leave, NoEntry
    <3> QED BY <3>1, LogInOrder
  <2> QED BY <1>4, <2>1, <2>2, <2>3 DEF Handler
<1>5. CASE UNCHANGED vars
  BY <1>5, LogInOrder DEF vars, NoEntry
<1> QED BY <1>1, <1>2, <1>3, <1>4, <1>5 DEF Next
-----------------------------------------------------------------------------
(* The order on the way to a client                                         *)

LEMMA PassedGrows ==
  ASSUME NEW c, NEW d, NEW n \in Nat, NEW m \in Nat, NEW q,
         Passed(c, n, q), DOMAIN c \subseteq Nat, n <= m,
         \A k \in DOMAIN c : k \in DOMAIN d /\ d[k] = c[k]
  PROVE  Passed(d, m, q)
<1>1. \A k \in DOMAIN c : k < n => k < m
  OBVIOUS
<1> QED BY <1>1 DEF Passed

LEMMA EmptyPassed ==
  ASSUME NEW c, NEW n
  PROVE  Passed(c, n, <<>>)
<1>1. DOMAIN <<>> = {}
  OBVIOUS
<1> QED BY <1>1 DEF Passed

LEMMA MovePassed ==
  ASSUME NEW c, NEW n, NEW p \in Seq(Item), NEW q \in Seq(Item), q # <<>>,
         Passed(c, n, p), Passed(c, n, q)
  PROVE  Passed(c, n, Append(p, Head(q))) /\ Passed(c, n, Tail(q))
<1> DEFINE h == Head(q)
           t == Tail(q)
           a == Append(p, h)
           l == Len(p) + 1
<1>1. /\ h \in Item /\ 1 \in DOMAIN q /\ h = q[1]
      /\ \A i \in DOMAIN t : i + 1 \in DOMAIN q /\ t[i] = q[i + 1]
  BY TailPositions
<1> HIDE DEF h, t
<1>2. /\ a[l] = h /\ \A i \in DOMAIN p : a[i] = p[i]
      /\ \A i \in DOMAIN a : i \in DOMAIN p \/ i = l
  BY <1>1, AppendPositions
<1> HIDE DEF a, l
<1>3. Passed(c, n, a) /\ Passed(c, n, t)
  BY <1>1, <1>2 DEF Passed
<1> QED BY <1>3 DEF a, t, h

\* The channel gets longer and the receiver moves on.
LEMMA QueuesKept ==
  ASSUME NEW c, NEW d, NEW n \in Nat, NEW m \in Nat, NEW g, NEW p, NEW h,
         QueuesInOrder(c, n, g, p, h), DOMAIN c \subseteq Nat, n <= m,
         \A k \in DOMAIN c : k \in DOMAIN d /\ d[k] = c[k]
  PROVE  QueuesInOrder(d, m, g, p, h)
BY PassedGrows DEF QueuesInOrder

LEMMA QueuesEmpty ==
  ASSUME NEW c, NEW n
  PROVE  QueuesInOrder(c, n, <<>>, <<>>, <<>>)
BY EmptySorted, EmptyPassed DEF QueuesInOrder

\* What is written goes from the handler's hand to the end of the socket.
LEMMA QueuesWritten ==
  ASSUME NEW c, NEW n, NEW g \in Seq(Item), NEW p \in Seq(Item), NEW h \in Seq(Item),
         h # <<>>, QueuesInOrder(c, n, g, p, h)
  PROVE  QueuesInOrder(c, n, g, Append(p, Head(h)), Tail(h))
<1>1. /\ Sorted(Earlier, Append(p, Head(h))) /\ Sorted(Earlier, Tail(h))
      /\ Before(Earlier, Append(p, Head(h)), Tail(h))
  BY MoveSorted DEF QueuesInOrder
<1>2. Before(Earlier, g, Append(p, Head(h))) /\ Before(Earlier, g, Tail(h))
  BY MoveBefore DEF QueuesInOrder
<1>3. Passed(c, n, Append(p, Head(h))) /\ Passed(c, n, Tail(h))
  BY MovePassed DEF QueuesInOrder
<1> QED BY <1>1, <1>2, <1>3 DEF QueuesInOrder

\* What is read goes from the socket to the end of what the client has.
LEMMA QueuesRead ==
  ASSUME NEW c, NEW n, NEW g \in Seq(Item), NEW p \in Seq(Item), NEW h \in Seq(Item),
         p # <<>>, QueuesInOrder(c, n, g, p, h)
  PROVE  QueuesInOrder(c, n, Append(g, Head(p)), Tail(p), h)
<1>1. /\ Sorted(Earlier, Append(g, Head(p))) /\ Sorted(Earlier, Tail(p))
      /\ Before(Earlier, Append(g, Head(p)), Tail(p))
  BY MoveSorted DEF QueuesInOrder
<1>2. Before(Earlier, Append(g, Head(p)), h) /\ Before(Earlier, Tail(p), h)
  BY MoveBefore DEF QueuesInOrder
<1>3. Passed(c, n, Append(g, Head(p))) /\ Passed(c, n, Tail(p))
  BY MovePassed DEF QueuesInOrder
<1> QED BY <1>1, <1>2, <1>3 DEF QueuesInOrder

\* A connection that ends loses what was on its way.
LEMMA QueuesDropped ==
  ASSUME NEW c, NEW n, NEW g, NEW p, NEW h, QueuesInOrder(c, n, g, p, h)
  PROVE  QueuesInOrder(c, n, g, <<>>, h) /\ QueuesInOrder(c, n, g, p, <<>>)
BY EmptySorted, EmptyPassed DEF QueuesInOrder

LEMMA ItemsPositions ==
  ASSUME NEW q \in Seq(Entry), NEW live \in BOOLEAN
  PROVE  /\ DOMAIN Items(q, live) = DOMAIN q
         /\ \A i \in DOMAIN q : /\ Items(q, live)[i] \in Item
                                /\ Items(q, live)[i].id = q[i]
                                /\ Items(q, live)[i].live = live
BY ItemsIds DEF Items, Item

\* The replay is the buffer as it stands.
LEMMA QueuesReplay ==
  ASSUME NEW c, NEW n, NEW b \in Seq(Entry), Sorted(Older, b)
  PROVE  QueuesInOrder(c, n, <<>>, <<>>, Items(b, FALSE))
<1> DEFINE h == Items(b, FALSE)
<1>1. /\ DOMAIN h = DOMAIN b
      /\ \A i \in DOMAIN b : h[i] \in Item /\ h[i].id = b[i] /\ h[i].live = FALSE
  BY ItemsPositions
<1> HIDE DEF h
<1>2. ASSUME NEW i \in DOMAIN h, NEW j \in DOMAIN h, i < j PROVE <<h[i], h[j]>> \in Earlier
  <2>1. <<b[i], b[j]>> \in Older
    BY <1>1, <1>2 DEF Sorted
  <2>2. b[i] < b[j]
    BY <2>1 DEF Older
  <2> QED BY <1>1, <2>2 DEF Earlier
<1>3. Sorted(Earlier, h)
  BY <1>2 DEF Sorted
<1>4. Passed(c, n, h)
  BY <1>1 DEF Passed
<1>5. QueuesInOrder(c, n, <<>>, <<>>, h)
  BY <1>3, <1>4, EmptySorted, EmptyPassed DEF QueuesInOrder
<1> QED BY <1>5 DEF h

\* What is received is newer than everything that came from the channel before.
LEMMA QueuesReceived ==
  ASSUME NEW c \in Seq(Entry), NEW n \in DOMAIN c, NEW g \in Seq(Item), NEW p \in Seq(Item),
         Sorted(Older, c), QueuesInOrder(c, n, g, p, <<>>)
  PROVE  QueuesInOrder(c, n + 1, g, p, Items(<<c[n]>>, TRUE))
<1> DEFINE h == Items(<<c[n]>>, TRUE)
<1>1. /\ c[n] \in Entry /\ n \in Nat /\ DOMAIN c \subseteq Nat
  BY Positions
<1>2. <<c[n]>> \in Seq(Entry) /\ DOMAIN <<c[n]>> = {1} /\ <<c[n]>>[1] = c[n]
  BY <1>1
<1>3. DOMAIN h = {1} /\ h[1] \in Item /\ h[1].id = c[n] /\ h[1].live = TRUE
  <2> DEFINE b == <<c[n]>>
  <2>1. b \in Seq(Entry) /\ DOMAIN b = {1} /\ b[1] = c[n]
    BY <1>2
  <2> HIDE DEF b
  <2>2. /\ DOMAIN Items(b, TRUE) = {1} /\ Items(b, TRUE)[1] \in Item
        /\ Items(b, TRUE)[1].id = c[n] /\ Items(b, TRUE)[1].live = TRUE
    BY <2>1, ItemsPositions
  <2> QED BY <2>2 DEF b
<1> HIDE DEF h
<1>4. ASSUME NEW q \in Seq(Item), Passed(c, n, q) PROVE Before(Earlier, q, h)
  <2>1. ASSUME NEW i \in DOMAIN q PROVE <<q[i], h[1]>> \in Earlier
    <3>1. q[i] \in Item
      BY Positions
    <3>2. CASE q[i].live
      <4>1. PICK k \in DOMAIN c : k < n /\ c[k] = q[i].id
        BY <1>4, <3>2 DEF Passed
      <4>2. <<c[k], c[n]>> \in Older
        BY <4>1 DEF Sorted
      <4>3. q[i].id < c[n]
        BY <4>1, <4>2 DEF Older
      <4> QED BY <1>3, <3>1, <3>2, <4>3 DEF Earlier
    <3>3. CASE ~q[i].live
      <4>1. q[i].live = FALSE
        BY <3>1, <3>3 DEF Item
      <4> QED BY <1>3, <3>1, <4>1 DEF Earlier
    <3> QED BY <3>2, <3>3
  <2> QED BY <1>3, <2>1 DEF Before
<1>5. Before(Earlier, g, h) /\ Before(Earlier, p, h)
  BY <1>4 DEF QueuesInOrder
<1>6. Sorted(Earlier, h)
  BY <1>3 DEF Sorted
<1>7. Passed(c, n + 1, h)
  <2>1. n < n + 1
    BY <1>1
  <2> QED BY <1>3, <2>1 DEF Passed
<1>8. Passed(c, n + 1, g) /\ Passed(c, n + 1, p)
  <2>1. n + 1 \in Nat /\ n <= n + 1
    BY <1>1
  <2> QED BY <1>1, <2>1, PassedGrows DEF QueuesInOrder
<1>9. QueuesInOrder(c, n + 1, g, p, h)
  BY <1>5, <1>6, <1>7, <1>8 DEF QueuesInOrder
<1> QED BY <1>9 DEF h
LEMMA StreamTyping ==
  ASSUME Typing, NEW s \in Stream
  PROVE  /\ got[s] \in Seq(Item) /\ pipe[s] \in Seq(Item) /\ hand[s] \in Seq(Item)
         /\ next[s] \in Nat /\ sent \in Seq(Entry) /\ buffer \in Seq(Entry)
         /\ DOMAIN sent = 1 .. Len(sent) /\ DOMAIN sent \subseteq Nat /\ Len(sent) \in Nat
<1>1. /\ got[s] \in Seq(Item) /\ pipe[s] \in Seq(Item) /\ hand[s] \in Seq(Item)
      /\ next[s] \in Nat /\ sent \in Seq(Entry) /\ buffer \in Seq(Entry)
  BY DEF Typing
<1>2. DOMAIN sent = 1 .. Len(sent) /\ Len(sent) \in Nat
  BY <1>1
<1> QED BY <1>1, <1>2

LEMMA UntouchedInOrder ==
  ASSUME NEW s \in Stream, StreamInOrder(s), sent' = sent, next'[s] = next[s],
         got'[s] = got[s], pipe'[s] = pipe[s], hand'[s] = hand[s], task'[s] = task[s]
  PROVE  StreamInOrder(s)'
BY DEF StreamInOrder

LEMMA BroadcastStreams ==
  ASSUME Typing, NEW s \in Stream, StreamInOrder(s), Broadcast
  PROVE  StreamInOrder(s)'
<1>1. /\ sent' = Append(sent, Head(draining)) /\ draining # <<>>
      /\ UNCHANGED <<task, next, hand, pipe, got>>
  BY DEF Broadcast, streamVars
<1>2. Head(draining) \in Entry
  BY <1>1, TailPositions DEF Typing
<1>3. \A k \in DOMAIN sent : k \in DOMAIN sent' /\ sent'[k] = sent[k]
  <2> DEFINE h == Head(draining)
  <2>1. sent \in Seq(Entry) /\ h \in Entry /\ sent' = Append(sent, h)
    BY <1>1, <1>2 DEF Typing
  <2> HIDE DEF h
  <2> QED BY <2>1
<1>4. QueuesInOrder(sent', next[s], got[s], pipe[s], hand[s])
  <2>1. next[s] \in Nat /\ next[s] <= next[s] /\ DOMAIN sent \subseteq Nat
    BY StreamTyping
  <2>2. QueuesInOrder(sent, next[s], got[s], pipe[s], hand[s])
    BY DEF StreamInOrder
  <2> QED BY <1>3, <2>1, <2>2, QueuesKept
<1> QED BY <1>1, <1>4 DEF StreamInOrder

LEMMA AcceptStreams ==
  ASSUME Typing, NEW s \in Stream, StreamInOrder(s), NEW r \in Stream, Accept(r)
  PROVE  StreamInOrder(s)'
<1>1. /\ UNCHANGED <<sent, next, hand, pipe, got>> /\ client[r] = "none"
      /\ task' = [task EXCEPT ![r] = "accepted"]
  BY DEF Accept
<1>2. CASE s = r
  <2>1. task[s] = "off"
    BY <1>1, <1>2 DEF Typing, Placed
  <2> QED BY <1>1, <2>1 DEF StreamInOrder
<1>3. CASE s # r
  <2>1. task'[s] = task[s]
    BY <1>1, <1>3 DEF Typing
  <2> QED BY <1>1, <2>1, UntouchedInOrder
<1> QED BY <1>2, <1>3

LEMMA SubscribeStreams ==
  ASSUME Typing, NEW s \in Stream, StreamInOrder(s), NEW r \in Stream, Subscribe(r)
  PROVE  StreamInOrder(s)'
<1>1. /\ UNCHANGED <<sent, hand, pipe, got>> /\ task[r] = "accepted"
      /\ task' = [task EXCEPT ![r] = "spawned"]
      /\ next' = [next EXCEPT ![r] = Len(sent) + 1]
  BY DEF Subscribe
<1>2. CASE s = r
  <2>1. got[s] = <<>> /\ pipe[s] = <<>> /\ hand[s] = <<>>
    BY <1>1, <1>2 DEF StreamInOrder
  <2>2. got'[s] = <<>> /\ pipe'[s] = <<>> /\ hand'[s] = <<>>
    BY <1>1, <2>1
  <2> QED BY <2>2, QueuesEmpty DEF StreamInOrder
<1>3. CASE s # r
  <2>1. task'[s] = task[s] /\ next'[s] = next[s]
    BY <1>1, <1>3 DEF Typing
  <2> QED BY <1>1, <2>1, UntouchedInOrder
<1> QED BY <1>2, <1>3

LEMMA SnapshotStreams ==
  ASSUME Typing, InOrder, NEW s \in Stream, StreamInOrder(s), NEW r \in Stream, Snapshot(r)
  PROVE  StreamInOrder(s)'
<1>1. /\ UNCHANGED <<sent, next, pipe, got>> /\ task[r] = "spawned"
      /\ task' = [task EXCEPT ![r] = "streaming"]
      /\ hand' = [hand EXCEPT ![r] = Items(buffer, FALSE)]
  BY DEF Snapshot
<1>2. CASE s = r
  <2>1. got'[s] = <<>> /\ pipe'[s] = <<>>
    BY <1>1, <1>2 DEF StreamInOrder
  <2>2. hand'[s] = Items(buffer, FALSE) /\ task'[s] = "streaming"
    BY <1>1, <1>2 DEF Typing
  <2>3. buffer \in Seq(Entry) /\ Sorted(Older, buffer)
    BY DEF Typing, InOrder
  <2> QED BY <2>1, <2>2, <2>3, QueuesReplay DEF StreamInOrder
<1>3. CASE s # r
  <2>1. task'[s] = task[s] /\ hand'[s] = hand[s]
    BY <1>1, <1>3 DEF Typing
  <2> QED BY <1>1, <2>1, UntouchedInOrder
<1> QED BY <1>2, <1>3

LEMMA RecvStreams ==
  ASSUME Typing, InOrder, NEW s \in Stream, StreamInOrder(s), NEW r \in Stream, Recv(r)
  PROVE  StreamInOrder(s)'
<1>1. /\ UNCHANGED <<sent, task, pipe, got>> /\ task[r] = "streaming" /\ hand[r] = <<>>
      /\ next[r] >= 1 /\ next[r] \in Nat
  BY DEF Typing, Placed, Recv
<1>2. CASE s # r
  <2>1. next'[s] = next[s] /\ hand'[s] = hand[s]
    BY <1>2 DEF Typing, Recv
  <2> QED BY <1>1, <2>1, UntouchedInOrder
<1>3. CASE s = r /\ next[r] < Oldest
  <2>1. ~(next[r] >= Oldest)
    BY <1>1, <1>3, OldestBounds
  <2>2. next'[s] = Oldest /\ hand'[s] = hand[s]
    BY <1>3, <2>1 DEF Typing, Recv
  <2>3. next[s] \in Nat /\ next'[s] \in Nat /\ next[s] <= next'[s] /\ DOMAIN sent \subseteq Nat
    BY <1>1, <1>3, <2>2, OldestBounds, StreamTyping
  <2>4. QueuesInOrder(sent, next[s], got[s], pipe[s], hand[s])
    BY DEF StreamInOrder
  <2>5. \A k \in DOMAIN sent : k \in DOMAIN sent /\ sent[k] = sent[k]
    OBVIOUS
  <2>6. QueuesInOrder(sent, next'[s], got[s], pipe[s], hand[s])
    BY <2>3, <2>4, <2>5, QueuesKept
  <2> QED BY <1>1, <1>3, <2>2, <2>6 DEF StreamInOrder
<1>4. CASE s = r /\ next[r] >= Oldest
  <2>1. ~(next[r] < Oldest)
    BY <1>1, <1>4, OldestBounds
  <2>2. /\ next[s] <= Len(sent)
        /\ next' = [next EXCEPT ![s] = @ + 1]
        /\ hand' = [hand EXCEPT ![s] = Items(<<sent[next[s]]>>, TRUE)]
    BY <1>4, <2>1 DEF Recv
  <2>3. next'[s] = next[s] + 1
    BY <2>2 DEF Typing
  <2>4. hand'[s] = Items(<<sent[next[s]]>>, TRUE)
    <3> DEFINE items == Items(<<sent[next[s]]>>, TRUE)
    <3>1. hand' = [hand EXCEPT ![s] = items]
      BY <2>2
    <3> HIDE DEF items
    <3>2. hand'[s] = items
      BY <3>1 DEF Typing
    <3> QED BY <3>2 DEF items
  <2>5. next[s] \in DOMAIN sent
    BY <1>1, <1>4, <2>2, StreamTyping
  <2>6. QueuesInOrder(sent, next[s], got[s], pipe[s], <<>>)
    BY <1>1, <1>4 DEF StreamInOrder
  <2>7. QueuesInOrder(sent, next[s] + 1, got[s], pipe[s], Items(<<sent[next[s]]>>, TRUE))
    BY <2>5, <2>6, StreamTyping, QueuesReceived DEF InOrder
  <2> QED BY <1>1, <1>4, <2>3, <2>4, <2>7 DEF StreamInOrder
<1> QED BY <1>1, <1>2, <1>3, <1>4, OldestBounds

LEMMA WriteStreams ==
  ASSUME Typing, NEW s \in Stream, StreamInOrder(s), NEW r \in Stream, Write(r)
  PROVE  StreamInOrder(s)'
<1>1. UNCHANGED <<sent, next, got>> /\ hand[r] # <<>>
  BY DEF Write
<1>2. CASE s # r
  <2>1. task'[s] = task[s] /\ hand'[s] = hand[s] /\ pipe'[s] = pipe[s]
    BY <1>2 DEF Typing, Write
  <2> QED BY <1>1, <2>1, UntouchedInOrder
<1>3. CASE s = r /\ client[r] = "gone"
  <2>1. task'[s] = "done" /\ hand'[s] = <<>> /\ pipe'[s] = pipe[s]
    BY <1>3 DEF Typing, Write
  <2> QED BY <1>1, <2>1, QueuesDropped DEF StreamInOrder
<1>4. CASE s = r /\ client[r] # "gone"
  <2>1. /\ task'[s] = task[s] /\ pipe'[s] = Append(pipe[s], Head(hand[s]))
        /\ hand'[s] = Tail(hand[s])
    BY <1>4 DEF Typing, Write
  <2>2. task[s] = "streaming"
    BY <1>1, <1>4 DEF Typing, Placed
  <2>3. QueuesInOrder(sent, next[s], got[s], pipe[s], hand[s]) /\ hand[s] # <<>>
    BY <1>1, <1>4 DEF StreamInOrder
  <2>4. QueuesInOrder(sent, next[s], got[s], Append(pipe[s], Head(hand[s])), Tail(hand[s]))
    BY <2>3, StreamTyping, QueuesWritten
  <2> QED BY <1>1, <2>1, <2>2, <2>4 DEF StreamInOrder
<1> QED BY <1>2, <1>3, <1>4

LEMMA ReadStreams ==
  ASSUME Typing, NEW s \in Stream, StreamInOrder(s), NEW r \in Stream, Read(r)
  PROVE  StreamInOrder(s)'
<1>1. /\ UNCHANGED <<sent, next, task, hand>> /\ pipe[r] # <<>>
      /\ got' = [got EXCEPT ![r] = Append(@, Head(pipe[r]))]
      /\ pipe' = [pipe EXCEPT ![r] = Tail(@)]
  BY DEF Read
<1>2. CASE s # r
  <2>1. got'[s] = got[s] /\ pipe'[s] = pipe[s]
    BY <1>1, <1>2 DEF Typing
  <2> QED BY <1>1, <2>1, UntouchedInOrder
<1>3. CASE s = r
  <2>1. got'[s] = Append(got[s], Head(pipe[s])) /\ pipe'[s] = Tail(pipe[s])
    BY <1>1, <1>3 DEF Typing
  <2>2. task[s] \notin {"off", "accepted", "spawned"}
    BY <1>1, <1>3 DEF StreamInOrder
  <2>3. QueuesInOrder(sent, next[s], got[s], pipe[s], hand[s]) /\ pipe[s] # <<>>
    BY <1>1, <1>3 DEF StreamInOrder
  <2>4. QueuesInOrder(sent, next[s], Append(got[s], Head(pipe[s])), Tail(pipe[s]), hand[s])
    BY <2>3, StreamTyping, QueuesRead
  <2> QED BY <1>1, <2>1, <2>2, <2>4 DEF StreamInOrder
<1> QED BY <1>2, <1>3

LEMMA LeaveStreams ==
  ASSUME Typing, NEW s \in Stream, StreamInOrder(s), NEW r \in Stream, Leave(r)
  PROVE  StreamInOrder(s)'
<1>1. /\ UNCHANGED <<sent, next, task, hand, got>>
      /\ pipe' = [pipe EXCEPT ![r] = <<>>]
  BY DEF Leave
<1>2. CASE s # r
  <2>1. pipe'[s] = pipe[s]
    BY <1>1, <1>2 DEF Typing
  <2> QED BY <1>1, <2>1, UntouchedInOrder
<1>3. CASE s = r
  <2>1. pipe'[s] = <<>>
    BY <1>1, <1>3 DEF Typing
  <2> QED BY <1>1, <2>1, QueuesDropped DEF StreamInOrder
<1> QED BY <1>2, <1>3

LEMMA ShutdownStreams ==
  ASSUME NEW s \in Stream, StreamInOrder(s), Shutdown
  PROVE  StreamInOrder(s)'
<1>1. UNCHANGED <<sent, next, pipe, got>> /\ hand'[s] = <<>>
  BY DEF Shutdown
<1>2. task'[s] \in {"off", "accepted", "spawned"} => task[s] = "off"
  BY DEF Shutdown
<1>3. got'[s] = got[s] /\ pipe'[s] = pipe[s] /\ next'[s] = next[s]
  BY <1>1
<1> QED BY <1>1, <1>2, <1>3, QueuesDropped DEF StreamInOrder

LEMMA StepStreams ==
  ASSUME Typing, InOrder, NEW s \in Stream, StreamInOrder(s), [Next]_vars
  PROVE  StreamInOrder(s)'
<1>1. CASE Log \/ Drain \/ UNCHANGED vars
  <2>1. UNCHANGED <<sent, next, task, hand, got, pipe>>
    BY <1>1 DEF Log, Drain, streamVars, vars
  <2> QED BY <2>1, UntouchedInOrder
<1>2. CASE Broadcast
  BY <1>2, BroadcastStreams
<1>3. CASE Shutdown
  BY <1>3, ShutdownStreams
<1>4. ASSUME NEW r \in Stream, Accept(r) \/ Handler(r) \/ Read(r) \/ Leave(r)
      PROVE  StreamInOrder(s)'
  <2>1. CASE Accept(r)
    BY <2>1, AcceptStreams
  <2>2. CASE Handler(r)
    BY <2>2, SubscribeStreams, SnapshotStreams, RecvStreams, WriteStreams DEF Handler
  <2>3. CASE Read(r)
    BY <2>3, ReadStreams
  <2>4. CASE Leave(r)
    BY <2>4, LeaveStreams
  <2> QED BY <1>4, <2>1, <2>2, <2>3, <2>4
<1> QED BY <1>1, <1>2, <1>3, <1>4 DEF Next, Broadcaster

LEMMA OrderInit == Init => OrderInv
<1> SUFFICES ASSUME Init PROVE OrderInv
  OBVIOUS
<1>1. DOMAIN <<>> = {}
  OBVIOUS
<1>2. InOrder
  BY <1>1, EmptySorted DEF Init, InOrder
<1>3. ASSUME NEW s \in Stream PROVE StreamInOrder(s)
  <2>1. got[s] = <<>> /\ pipe[s] = <<>> /\ hand[s] = <<>>
    BY DEF Init
  <2> QED BY <2>1, QueuesEmpty DEF StreamInOrder
<1> QED BY <1>2, <1>3, TypingInit DEF OrderInv

LEMMA OrderStep == OrderInv /\ [Next]_vars => OrderInv'
BY TypingStep, StepInOrder, StepStreams DEF OrderInv

\* The queues one after the other are the stream a client sees.
LEMMA QueuesOrdered ==
  ASSUME NEW c, NEW n, NEW g \in Seq(Item), NEW p \in Seq(Item), NEW h \in Seq(Item),
         QueuesInOrder(c, n, g, p, h)
  PROVE  g \o p \o h \in Seq(Item) /\ Sorted(Earlier, g \o p \o h)
<1>1. g \o p \in Seq(Item) /\ Sorted(Earlier, g \o p) /\ Before(Earlier, g \o p, h)
  BY ConcatSorted DEF QueuesInOrder
<1> DEFINE a == g \o p
<1>2. a \in Seq(Item) /\ Sorted(Earlier, a) /\ Before(Earlier, a, h)
  BY <1>1
<1> HIDE DEF a
<1>3. a \o h \in Seq(Item) /\ Sorted(Earlier, a \o h)
  BY <1>2, ConcatSorted DEF QueuesInOrder
<1> QED BY <1>3 DEF a

LEMMA SortedHalves ==
  ASSUME NEW items \in Seq(Item), Sorted(Earlier, items)
  PROVE  /\ Increasing(LiveIds(items))
         /\ \A i, j \in DOMAIN items :
              i < j => /\ items[i].live => items[j].live
                       /\ (~items[i].live /\ ~items[j].live) => items[i].id < items[j].id
<1>1. \A i \in DOMAIN items : items[i].live \in BOOLEAN
  <2>1. \A i \in DOMAIN items : items[i] \in Item
    BY Positions
  <2>2. \A x \in Item : x.live \in BOOLEAN
    BY DEF Item
  <2> QED BY <2>1, <2>2
<1>2. ASSUME NEW i \in DOMAIN items, NEW j \in DOMAIN items, i < j
      PROVE  /\ items[i].live => items[j].live
             /\ items[i].live = items[j].live => items[i].id < items[j].id
  <2>1. <<items[i], items[j]>> \in Earlier
    BY <1>2 DEF Sorted
  <2> QED BY <2>1 DEF Earlier
<1>3. ASSUME NEW i \in DOMAIN items, NEW j \in DOMAIN items, i < j
      PROVE  /\ items[i].live => items[j].live
             /\ (~items[i].live /\ ~items[j].live) => items[i].id < items[j].id
  BY <1>1, <1>2, <1>3
<1>4. ASSUME NEW i \in DOMAIN items, NEW j \in DOMAIN items, i < j,
             LiveIds(items)[i] # 0, LiveIds(items)[j] # 0
      PROVE  LiveIds(items)[i] < LiveIds(items)[j]
  <2>1. items[i].live /\ items[j].live
    BY <1>4 DEF LiveIds
  <2>2. LiveIds(items)[i] = items[i].id /\ LiveIds(items)[j] = items[j].id
    BY <2>1 DEF LiveIds
  <2>3. items[i].live = items[j].live
    BY <1>1, <2>1
  <2> QED BY <1>2, <1>4, <2>2, <2>3
<1>5. DOMAIN LiveIds(items) = DOMAIN items
  BY DEF LiveIds
<1> QED BY <1>3, <1>4, <1>5 DEF Increasing

\* What a client gets is in order whatever is logged, dropped and written in between:
\* the replay comes first, and each half is in the order of logging without repetition
\* (drain_logs empties the buffer, handle_stream_logs replays before it forwards).
THEOREM Ordered == Spec => []Consistent
<1>1. OrderInv => HalvesOrdered
  <2> SUFFICES ASSUME OrderInv, NEW s \in Stream
               PROVE  LET items == got[s] \o pipe[s] \o hand[s] IN
                      /\ Increasing(LiveIds(items))
                      /\ \A i, j \in DOMAIN items :
                           i < j => /\ items[i].live => items[j].live
                                    /\ (~items[i].live /\ ~items[j].live)
                                         => items[i].id < items[j].id
    BY DEF HalvesOrdered
  <2> DEFINE items == got[s] \o pipe[s] \o hand[s]
  <2>1. items \in Seq(Item) /\ Sorted(Earlier, items)
    BY StreamTyping, QueuesOrdered DEF OrderInv, StreamInOrder
  <2> HIDE DEF items
  <2>2. /\ Increasing(LiveIds(items))
        /\ \A i, j \in DOMAIN items :
             i < j => /\ items[i].live => items[j].live
                      /\ (~items[i].live /\ ~items[j].live) => items[i].id < items[j].id
    BY <2>1, SortedHalves
  <2> QED BY <2>2 DEF items
<1>2. OrderInv => Consistent
  BY <1>1, TypingTypeOK DEF Consistent, OrderInv
<1> QED BY <1>2, OrderInit, OrderStep, PTL DEF Spec
=============================================================================
