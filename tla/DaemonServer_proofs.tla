------------------------- MODULE DaemonServer_proofs -------------------------
(***************************************************************************)
(* Clients are told the truth by any number of daemons, whenever they are  *)
(* started, stopped or killed; and while no two starts overlap, a daemon   *)
(* that is started gets its socket and the path leads to the one that has  *)
(* tunnels.                                                                *)
(***************************************************************************)
EXTENDS DaemonServer, SequenceTheorems, TLAPS

\* A task that sleeps has a poll left.
TasksType(s) ==
  /\ s \in [Starter -> [at : Started \cup {"check", "spawn", "sleep", "poll"},
                        left : 0 .. MaxPolls]]
  /\ \A c \in Starter : s[c].at = "sleep" => s[c].left > 0

Typing ==
  /\ file \in [by : Daemon \cup {NoDaemon}, open : BOOLEAN]
  /\ proc \in [Daemon -> Setup \cup Loop \cup {"off", "failed", "exiting"}]
  /\ tunnels \in [Daemon -> BOOLEAN]
  /\ queue \in [Daemon -> Seq(Client)]
  /\ serving \in [Daemon -> Client \cup {NoClient}]
  /\ slot \in [Client -> Slot]
  /\ TasksType(start)

\* A connection that d has not answered is d's, and its client still waits or is gone.
Held(c, d) == slot[c].peer = d /\ slot[c].phase \in {"open", "gone"}

Serves(d) == proc[d] \in {"read", "handle", "reply"}

\* One connection in one place, and no command carried out before its turn.
Orderly(d) ==
  /\ IsInjective(queue[d]) /\ ~Contains(queue[d], serving[d])
  /\ serving[d] # NoClient <=> Serves(d)
  /\ \A c \in Client : Contains(queue[d], c) => Held(c, d) /\ slot[c].ran = 0
  /\ Serves(d) => Held(serving[d], d)
  /\ proc[d] \in {"read", "handle"} => slot[serving[d]].ran = 0
  /\ proc[d] = "reply" => \/ slot[serving[d]].result \in {"ok", "error"}
                          \/ slot[serving[d]].cmd = "StreamLogs"

ToldBy(r) ==
  /\ r.result \in {"ok", "stream"} => r.ran = 1
  /\ r.result = "NotRunning" => r.ran = 0
  /\ r.ran <= 1

IInv == Typing /\ (\A d \in Daemon : Orderly(d)) /\ \A c \in Client : ToldBy(slot[c])

-----------------------------------------------------------------------------
(* Queues                                                                   *)

LEMMA EmptyQueue ==
  ASSUME NEW S
  PROVE  <<>> \in Seq(S) /\ IsInjective(<<>>) /\ \A x : ~Contains(<<>>, x)
BY DEF IsInjective, Contains

LEMMA AppendQueue ==
  ASSUME NEW S, NEW q \in Seq(S), NEW c \in S, IsInjective(q), ~Contains(q, c)
  PROVE  /\ Append(q, c) \in Seq(S) /\ IsInjective(Append(q, c))
         /\ \A x : Contains(Append(q, c), x) => x = c \/ Contains(q, x)
<1> DEFINE p == Append(q, c)
<1>1. /\ Len(q) \in Nat /\ DOMAIN q = 1 .. Len(q) /\ DOMAIN p = 1 .. Len(p)
      /\ Len(p) = Len(q) + 1 /\ p[Len(q) + 1] = c
      /\ \A i \in 1 .. Len(q) : p[i] = q[i]
  OBVIOUS
<1>2. p \in Seq(S)
  OBVIOUS
<1>3. IsInjective(p)
  <2> HIDE DEF p
  <2> SUFFICES ASSUME NEW i \in 1 .. Len(q) + 1, NEW j \in 1 .. Len(q) + 1, p[i] = p[j]
      PROVE i = j
    BY <1>1 DEF IsInjective
  <2>1. CASE i \in 1 .. Len(q) /\ j \in 1 .. Len(q)
    BY <2>1, <1>1 DEF IsInjective
  <2>2. CASE i = Len(q) + 1 /\ j \in 1 .. Len(q)
    BY <2>2, <1>1 DEF Contains
  <2>3. CASE j = Len(q) + 1 /\ i \in 1 .. Len(q)
    BY <2>3, <1>1 DEF Contains
  <2> QED BY <1>1, <2>1, <2>2, <2>3
<1>4. ASSUME NEW x, Contains(p, x) PROVE x = c \/ Contains(q, x)
  <2> HIDE DEF p
  <2>1. PICK i \in 1 .. Len(p) : p[i] = x
    BY <1>4 DEF Contains
  <2>2. CASE i \in 1 .. Len(q)
    BY <2>1, <2>2, <1>1 DEF Contains
  <2>3. CASE i = Len(q) + 1
    BY <2>1, <2>3, <1>1
  <2> QED BY <1>1, <2>1, <2>2, <2>3
<1> QED BY <1>2, <1>3, <1>4

LEMMA TailQueue ==
  ASSUME NEW S, NEW q \in Seq(S), q # <<>>, IsInjective(q)
  PROVE  /\ Tail(q) \in Seq(S) /\ IsInjective(Tail(q))
         /\ Head(q) \in S /\ Contains(q, Head(q)) /\ ~Contains(Tail(q), Head(q))
         /\ \A x : Contains(Tail(q), x) => Contains(q, x)
<1> DEFINE p == Tail(q)
<1>1. /\ Len(q) \in Nat \ {0} /\ DOMAIN q = 1 .. Len(q) /\ DOMAIN p = 1 .. Len(p)
      /\ Len(p) = Len(q) - 1 /\ \A i \in 1 .. Len(p) : p[i] = q[i + 1]
  BY EmptySeq
<1>2. p \in Seq(S) /\ Head(q) \in S
  BY HeadTailProperties
<1>7. Head(q) = q[1]
  OBVIOUS
<1> HIDE DEF p
<1>3. IsInjective(p)
  <2> SUFFICES ASSUME NEW i \in 1 .. Len(p), NEW j \in 1 .. Len(p), p[i] = p[j]
      PROVE i = j
    BY <1>1 DEF IsInjective
  <2>1. i + 1 \in DOMAIN q /\ j + 1 \in DOMAIN q /\ q[i + 1] = q[j + 1]
    BY <1>1
  <2>2. i + 1 = j + 1
    BY <2>1 DEF IsInjective
  <2> QED BY <1>1, <2>2
<1>4. ~Contains(p, q[1])
  BY <1>1 DEF IsInjective, Contains
<1>5. Contains(q, q[1])
  BY <1>1 DEF Contains
<1>6. ASSUME NEW x, Contains(p, x) PROVE Contains(q, x)
  BY <1>1, <1>6 DEF Contains
<1> QED BY <1>2, <1>3, <1>4, <1>5, <1>6, <1>7 DEF p

-----------------------------------------------------------------------------
(* The initial states, and what a step leaves alone                         *)

LEMMA InitKeeps == Init => IInv
<1> SUFFICES ASSUME Init PROVE IInv
  OBVIOUS
<1>1. Unused \in Slot
  BY DEF Unused, Slot
<1>2. 0 \in 0 .. MaxPolls
  BY ServerAssumption
<1>3. \A d \in Daemon : queue[d] \in Seq(Client) /\ queue[d] = <<>>
  BY EmptyQueue DEF Init
<1>4. Typing
  BY <1>1, <1>2, <1>3 DEF Init, Typing, TasksType, Started
<1>5. ASSUME NEW d \in Daemon PROVE Orderly(d)
  BY EmptyQueue DEF Init, Orderly, Serves
<1>6. ASSUME NEW c \in Client PROVE ToldBy(slot[c])
  BY DEF Init, ToldBy, Unused
<1> QED BY <1>4, <1>5, <1>6 DEF IInv

\* A client in line, waiting or being served, that keeps its place.
InLine(d, c) == Contains(queue[d], c) \/ serving[d] = c

LEMMA HeldInLine ==
  ASSUME Typing, NEW d \in Daemon, Orderly(d), NEW c \in Client, InLine(d, c)
  PROVE  Held(c, d)
<1>1. NoClient \notin Client
  BY ServerAssumption
<1> QED BY <1>1 DEF InLine, Orderly

Undisturbed(d) ==
  /\ queue'[d] = queue[d] /\ serving'[d] = serving[d]
  /\ \A c \in Client : InLine(d, c) =>
       /\ Held(c, d)' /\ slot'[c].ran = slot[c].ran
       /\ slot'[c].result = slot[c].result /\ slot'[c].cmd = slot[c].cmd

LEMMA OrderlyStands ==
  ASSUME Typing, NEW d \in Daemon, Orderly(d), Undisturbed(d),
         \/ proc'[d] = proc[d]
         \/ ~Serves(d) /\ ~Serves(d)'
         \/ proc[d] = "read" /\ proc'[d] = "handle"
  PROVE  Orderly(d)'
<1>1. serving[d] \in Client \cup {NoClient}
  BY DEF Typing
<1>2. serving[d] # NoClient => serving[d] \in Client /\ InLine(d, serving[d])
  BY <1>1 DEF InLine
<1>3. Serves(d)' <=> Serves(d)
  BY DEF Serves
<1>4. /\ proc'[d] \in {"read", "handle"} => proc[d] \in {"read", "handle"}
      /\ proc'[d] = "reply" => proc[d] = "reply"
  BY DEF Serves
<1>5. ASSUME NEW c \in Client, Contains(queue'[d], c) PROVE Held(c, d)' /\ slot'[c].ran = 0
  BY <1>5 DEF Undisturbed, InLine, Orderly
<1>6. Serves(d)' => Held(serving[d], d)'
  BY <1>2, <1>3 DEF Undisturbed, Orderly
<1>7. proc'[d] \in {"read", "handle"} => slot'[serving[d]].ran = 0
  BY <1>2, <1>4 DEF Undisturbed, Orderly, Serves
<1>8. proc'[d] = "reply" => \/ slot'[serving[d]].result \in {"ok", "error"}
                            \/ slot'[serving[d]].cmd = "StreamLogs"
  BY <1>2, <1>4 DEF Undisturbed, Orderly, Serves
<1> QED BY <1>3, <1>5, <1>6, <1>7, <1>8 DEF Orderly, Undisturbed

\* Nothing happens to any connection.
LEMMA NoneDisturbed ==
  ASSUME Typing, NEW d \in Daemon, Orderly(d),
         queue'[d] = queue[d], serving'[d] = serving[d], slot' = slot
  PROVE  Undisturbed(d)
BY HeldInLine DEF Undisturbed, Held

LEMMA ProcMoves ==
  ASSUME Typing, NEW d \in Daemon, NEW p, Enter(d, p)
  PROVE  proc'[d] = p /\ \A e \in Daemon : e # d => proc'[e] = proc[e]
BY DEF Typing, Enter

\* The daemon moves between places where it serves nobody.
LEMMA MoveKeeps ==
  ASSUME IInv, NEW d \in Daemon,
         NEW p \in Setup \cup Loop \cup {"off", "failed", "exiting"}, Enter(d, p),
         \/ ~Serves(d) /\ p \notin {"read", "handle", "reply"}
         \/ proc[d] = "read" /\ p = "handle",
         queue' = queue, serving' = serving, slot' = slot, start' = start, tunnels' = tunnels,
         file' \in [by : Daemon \cup {NoDaemon}, open : BOOLEAN]
  PROVE  IInv'
<1>1. Typing /\ \A e \in Daemon : Orderly(e)
  BY DEF IInv
<1>2. proc'[d] = p /\ \A e \in Daemon : e # d => proc'[e] = proc[e]
  BY <1>1, ProcMoves
<1>3. Typing'
  BY <1>1 DEF Typing, Enter
<1>4. ASSUME NEW e \in Daemon PROVE Orderly(e)'
  <2>1. Undisturbed(e)
    BY <1>1, NoneDisturbed
  <2>2. \/ proc'[e] = proc[e]
        \/ ~Serves(e) /\ ~Serves(e)'
        \/ proc[e] = "read" /\ proc'[e] = "handle"
    BY <1>2 DEF Serves
  <2> QED BY <1>1, <2>1, <2>2, OrderlyStands
<1>5. ASSUME NEW c \in Client PROVE ToldBy(slot[c])'
  BY DEF IInv
<1> QED BY <1>3, <1>4, <1>5 DEF IInv

-----------------------------------------------------------------------------
(* What a client does                                                       *)

LEMMA SlotSet ==
  ASSUME Typing, NEW c \in Client, NEW r \in Slot, slot' = [slot EXCEPT ![c] = r]
  PROVE  /\ slot' \in [Client -> Slot] /\ slot'[c] = r
         /\ \A b \in Client : b # c => slot'[b] = slot[b]
BY DEF Typing

\* A step of one client that leaves its place in the line.
LEMMA ClientKeeps ==
  ASSUME IInv, NEW c \in Client, NEW r \in Slot, slot' = [slot EXCEPT ![c] = r], ToldBy(r),
         \A d \in Daemon : InLine(d, c) =>
           /\ r.peer = slot[c].peer /\ r.phase \in {"open", "gone"} /\ r.ran = slot[c].ran
           /\ r.result = slot[c].result /\ r.cmd = slot[c].cmd,
         file' = file, proc' = proc, tunnels' = tunnels, queue' = queue, serving' = serving,
         TasksType(start')
  PROVE  IInv'
<1>1. Typing /\ \A e \in Daemon : Orderly(e)
  BY DEF IInv
<1>2. /\ slot' \in [Client -> Slot] /\ slot'[c] = r
      /\ \A b \in Client : b # c => slot'[b] = slot[b]
  BY <1>1, SlotSet
<1>3. Typing'
  BY <1>1, <1>2 DEF Typing
<1>4. ASSUME NEW d \in Daemon PROVE Orderly(d)'
  <2>1. ASSUME NEW b \in Client, InLine(d, b)
        PROVE  /\ Held(b, d)' /\ slot'[b].ran = slot[b].ran
               /\ slot'[b].result = slot[b].result /\ slot'[b].cmd = slot[b].cmd
    <3>1. Held(b, d)
      BY <1>1, <2>1, HeldInLine
    <3>2. CASE b = c
      BY <1>2, <2>1, <3>1, <3>2 DEF Held
    <3>3. CASE b # c
      BY <1>2, <3>1, <3>3 DEF Held
    <3> QED BY <3>2, <3>3
  <2>2. Undisturbed(d)
    BY <2>1 DEF Undisturbed
  <2> QED BY <1>1, <2>2, OrderlyStands
<1>5. ASSUME NEW b \in Client PROVE ToldBy(slot[b])'
  BY <1>2 DEF IInv
<1> QED BY <1>3, <1>4, <1>5 DEF IInv

LEMMA WriteKeeps ==
  ASSUME IInv, NEW c \in Client, WriteCommand(c)
  PROVE  IInv'
<1> DEFINE r == [slot[c] EXCEPT !.wrote = TRUE]
<1>1. slot[c] \in Slot
  BY DEF IInv, Typing
<1>2. /\ r \in Slot /\ r.peer = slot[c].peer /\ r.phase = slot[c].phase /\ r.ran = slot[c].ran
      /\ r.result = slot[c].result /\ r.cmd = slot[c].cmd
  BY <1>1 DEF Slot
<1>3. slot' = [slot EXCEPT ![c] = r]
  BY DEF WriteCommand
<1>4. ToldBy(r)
  BY <1>2 DEF IInv, ToldBy
<1>5. \A d \in Daemon : InLine(d, c) => slot[c].phase \in {"open", "gone"}
  BY HeldInLine DEF IInv, Held
<1> HIDE DEF r
<1>6. /\ file' = file /\ proc' = proc /\ tunnels' = tunnels /\ queue' = queue
      /\ serving' = serving /\ start' = start
  BY DEF WriteCommand
<1> QED BY <1>2, <1>3, <1>4, <1>5, <1>6, ClientKeeps DEF IInv, Typing

LEMMA AbandonKeeps ==
  ASSUME IInv, NEW c \in Client, Abandon(c)
  PROVE  IInv'
<1> DEFINE r == [slot[c] EXCEPT !.phase = "gone"]
<1>1. slot[c] \in Slot
  BY DEF IInv, Typing
<1>2. /\ r \in Slot /\ r.peer = slot[c].peer /\ r.phase = "gone" /\ r.ran = slot[c].ran
      /\ r.result = slot[c].result /\ r.cmd = slot[c].cmd
  BY <1>1 DEF Slot
<1>3. slot' = [slot EXCEPT ![c] = r]
  BY DEF Abandon
<1>4. ToldBy(r)
  BY <1>2 DEF IInv, ToldBy
<1> HIDE DEF r
<1>6. /\ file' = file /\ proc' = proc /\ tunnels' = tunnels /\ queue' = queue
      /\ serving' = serving /\ start' = start
  BY DEF Abandon
<1> QED BY <1>2, <1>3, <1>4, <1>6, ClientKeeps DEF IInv, Typing

LEMMA ReadEofKeeps ==
  ASSUME IInv, NEW c \in Client, ReadEof(c)
  PROVE  IInv'
<1>1. PICK a \in {"NoResponse", "Io"} :
        slot' = [slot EXCEPT ![c].phase = "done", ![c].result = a]
  BY DEF ReadEof
<1> DEFINE r == [slot[c] EXCEPT !.phase = "done", !.result = a]
<1>2. slot[c] \in Slot
  BY DEF IInv, Typing
<1>3. r \in Slot /\ r.ran = slot[c].ran /\ r.result = a
  BY <1>2 DEF Slot
<1>4. slot' = [slot EXCEPT ![c] = r]
  <2>1. slot \in [Client -> Slot]
    BY DEF IInv, Typing
  <2> QED BY <1>1, <1>2, <2>1
<1>5. ToldBy(r)
  BY <1>3 DEF IInv, ToldBy
<1> HIDE DEF r
<1>6. /\ file' = file /\ proc' = proc /\ tunnels' = tunnels /\ queue' = queue
      /\ serving' = serving /\ start' = start
  BY DEF ReadEof
<1>7. ASSUME NEW d \in Daemon PROVE ~InLine(d, c)
  <2>1. slot[c].phase = "reset"
    BY DEF ReadEof
  <2> QED BY <2>1, HeldInLine DEF IInv, Held
<1> QED BY <1>3, <1>4, <1>5, <1>6, <1>7, ClientKeeps DEF IInv, Typing

\* Both ends of a slot that is used again are closed.
LEMMA ReusableIsFree ==
  ASSUME NEW c \in Client, Reusable(c), NEW d \in Daemon
  PROVE  ~InLine(d, c)
BY DEF Reusable, InLine

LEMMA FreshType ==
  ASSUME NEW m \in Command \cup {"Status"}
  PROVE  Fresh(m) \in Slot
<1>1. Unused \in Slot
  BY DEF Unused, Slot
<1> QED BY <1>1 DEF Fresh, Slot

LEMMA SlotFields ==
  ASSUME NEW s \in Slot
  PROVE  /\ \A d \in Daemon : [s EXCEPT !.phase = "open", !.peer = d] \in Slot
         /\ \A a \in {"NotRunning", "NoResponse", "Io"} :
              [s EXCEPT !.phase = "done", !.result = a] \in Slot
         /\ \A a \in {"ok", "error", "stream"} : [s EXCEPT !.ran = 1, !.result = a] \in Slot
<1>1. \A d \in Daemon : [s EXCEPT !.phase = "open", !.peer = d] \in Slot
  BY DEF Slot
<1>2. ASSUME NEW a \in {"NotRunning", "NoResponse", "Io"}
      PROVE  [s EXCEPT !.phase = "done", !.result = a] \in Slot
  BY DEF Slot
<1>3. ASSUME NEW a \in {"ok", "error", "stream"}
      PROVE  [s EXCEPT !.ran = 1, !.result = a] \in Slot
  <2>1. 1 \in 0 .. 2
    OBVIOUS
  <2> QED BY <2>1 DEF Slot
<1> QED BY <1>1, <1>2, <1>3

LEMMA JoinedSlot ==
  ASSUME NEW m \in Command \cup {"Status"}, NEW d \in Daemon
  PROVE  LET r == [Fresh(m) EXCEPT !.phase = "open", !.peer = d]
         IN  /\ r \in Slot /\ ToldBy(r)
             /\ r.peer = d /\ r.phase = "open" /\ r.cmd = m /\ r.ran = 0
<1> DEFINE r == [Fresh(m) EXCEPT !.phase = "open", !.peer = d]
<1>1. r \in Slot
  BY FreshType, SlotFields
<1>2. /\ r.peer = d /\ r.phase = "open" /\ r.cmd = m
      /\ r.ran = 0 /\ r.result = "none"
  BY DEF Fresh, Unused
<1> QED BY <1>1, <1>2 DEF ToldBy

LEMMA RefusedSlot ==
  ASSUME NEW m \in Command \cup {"Status"}, NEW a \in {"NotRunning", "Io"}
  PROVE  LET r == [Fresh(m) EXCEPT !.phase = "done", !.result = a]
         IN  r \in Slot /\ ToldBy(r) /\ r.phase = "done" /\ r.cmd = m /\ r.result = a
<1> DEFINE r == [Fresh(m) EXCEPT !.phase = "done", !.result = a]
<1>1. r \in Slot
  BY FreshType, SlotFields
<1>2. /\ r.phase = "done" /\ r.cmd = m
      /\ r.ran = 0 /\ r.result = a
  BY DEF Fresh, Unused
<1> QED BY <1>1, <1>2 DEF ToldBy

\* A client that connects goes to the end of the line.
LEMMA JoinKeeps ==
  ASSUME IInv, NEW c \in Client, NEW m \in Command \cup {"Status"}, NEW d \in Daemon,
         Reusable(c),
         slot' = [slot EXCEPT ![c] = [Fresh(m) EXCEPT !.phase = "open", !.peer = d]],
         queue' = [queue EXCEPT ![d] = Append(@, c)],
         file' = file, proc' = proc, tunnels' = tunnels, serving' = serving,
         TasksType(start')
  PROVE  IInv'
<1> DEFINE r == [Fresh(m) EXCEPT !.phase = "open", !.peer = d]
<1>1. Typing /\ \A e \in Daemon : Orderly(e)
  BY DEF IInv
<1>2. slot' = [slot EXCEPT ![c] = r]
  OBVIOUS
<1>3. r \in Slot /\ ToldBy(r) /\ r.peer = d /\ r.phase = "open" /\ r.ran = 0
  BY JoinedSlot
<1> HIDE DEF r
<1>4. /\ slot' \in [Client -> Slot] /\ slot'[c] = r
      /\ \A b \in Client : b # c => slot'[b] = slot[b]
  BY <1>1, <1>2, <1>3, SlotSet
<1>5. \A e \in Daemon : ~InLine(e, c)
  BY ReusableIsFree
<1>6. /\ queue[d] \in Seq(Client) /\ queue'[d] = Append(queue[d], c)
      /\ \A e \in Daemon : e # d => queue'[e] = queue[e]
  BY <1>1 DEF Typing
<1>7. IsInjective(queue[d]) /\ ~Contains(queue[d], c)
  BY <1>1, <1>5 DEF Orderly, InLine
<1>8. /\ Append(queue[d], c) \in Seq(Client) /\ IsInjective(queue'[d])
      /\ \A x : Contains(queue'[d], x) => x = c \/ Contains(queue[d], x)
  BY <1>6, <1>7, AppendQueue
<1>9. Typing'
  <2>1. queue' \in [Daemon -> Seq(Client)]
    BY <1>1, <1>6, <1>8 DEF Typing
  <2> QED BY <1>1, <1>4, <2>1 DEF Typing
<1>10. ASSUME NEW e \in Daemon, NEW b \in Client, InLine(e, b)
       PROVE  b # c /\ slot'[b] = slot[b] /\ Held(b, e) /\ Held(b, e)'
  <2>1. Held(b, e) /\ b # c
    BY <1>1, <1>5, <1>10, HeldInLine
  <2> QED BY <1>4, <2>1 DEF Held
<1>11. ASSUME NEW e \in Daemon, e # d PROVE Orderly(e)'
  <2>1. Undisturbed(e)
    BY <1>6, <1>10, <1>11 DEF Undisturbed
  <2> QED BY <1>1, <2>1, OrderlyStands
<1>12. Orderly(d)'
  <2>1. Orderly(d) /\ serving'[d] = serving[d] /\ proc'[d] = proc[d] /\ (Serves(d)' <=> Serves(d))
    BY <1>1 DEF Serves
  <2>2. ~Contains(queue'[d], serving[d])
    BY <1>5, <1>8, <2>1 DEF Orderly, InLine
  <2>3. ASSUME NEW b \in Client, Contains(queue'[d], b) PROVE Held(b, d)' /\ slot'[b].ran = 0
    <3>1. CASE b = c
      BY <1>3, <1>4, <3>1 DEF Held
    <3>2. CASE Contains(queue[d], b)
      BY <1>10, <2>1, <3>2 DEF InLine, Orderly
    <3> QED BY <1>8, <2>3, <3>1, <3>2
  <2>4. Serves(d) => slot'[serving[d]] = slot[serving[d]] /\ Held(serving[d], d)'
    <3>1. Serves(d) => serving[d] \in Client
      BY <1>1, <2>1 DEF Orderly, Typing
    <3> QED BY <1>10, <3>1 DEF InLine
  <2>5. proc[d] \in {"read", "handle", "reply"} <=> Serves(d)
    BY DEF Serves
  <2> QED BY <1>8, <2>1, <2>2, <2>3, <2>4, <2>5 DEF Orderly
<1>13. ASSUME NEW b \in Client PROVE ToldBy(slot[b])'
  BY <1>3, <1>4 DEF IInv
<1> QED BY <1>9, <1>11, <1>12, <1>13 DEF IInv

LEMMA ConnectKeeps ==
  ASSUME IInv, NEW c \in Client, NEW m \in Command \cup {"Status"}, Connect(c, m),
         file' = file, proc' = proc, tunnels' = tunnels, serving' = serving,
         TasksType(start')
  PROVE  IInv'
<1>1. Reusable(c) /\ \A e \in Daemon : ~InLine(e, c)
  BY ReusableIsFree DEF Connect
<1>2. ASSUME NEW r \in {"NotRunning", "Io"}, queue' = queue,
             slot' = [slot EXCEPT ![c] = [Fresh(m) EXCEPT !.phase = "done", !.result = r]]
      PROVE  IInv'
  <2> DEFINE s == [Fresh(m) EXCEPT !.phase = "done", !.result = r]
  <2>1. s \in Slot /\ ToldBy(s)
    BY RefusedSlot
  <2>2. slot' = [slot EXCEPT ![c] = s]
    BY <1>2
  <2> HIDE DEF s
  <2> QED BY <1>1, <1>2, <2>1, <2>2, ClientKeeps
<1>3. CASE /\ file.by # NoDaemon
           /\ slot' = [slot EXCEPT ![c] = [Fresh(m) EXCEPT !.phase = "open", !.peer = file.by]]
           /\ queue' = [queue EXCEPT ![file.by] = Append(@, c)]
  <2>1. file.by \in Daemon
    BY <1>3 DEF IInv, Typing
  <2> QED BY <1>1, <1>3, <2>1, JoinKeeps
<1> QED BY <1>2, <1>3 DEF Connect

-----------------------------------------------------------------------------
(* What a daemon does                                                       *)

\* The clients of d are cut off, and the daemon serves nobody.
LEMMA HangupKeeps ==
  ASSUME IInv, NEW d \in Daemon, NEW p \in {"off", "failed"}, Enter(d, p), Hangup(d),
         file' = file, start' = start
  PROVE  IInv'
<1>1. Typing /\ \A e \in Daemon : Orderly(e)
  BY DEF IInv
<1>2. proc'[d] = p /\ \A e \in Daemon : e # d => proc'[e] = proc[e]
  BY <1>1, ProcMoves
<1>3. proc' \in [Daemon -> Setup \cup Loop \cup {"off", "failed", "exiting"}]
  BY <1>1 DEF Typing, Enter
<1>4. /\ queue'[d] = <<>> /\ serving'[d] = NoClient
      /\ \A e \in Daemon : e # d => queue'[e] = queue[e] /\ serving'[e] = serving[e]
      /\ serving' \in [Daemon -> Client \cup {NoClient}]
      /\ tunnels' \in [Daemon -> BOOLEAN]
  BY <1>1 DEF Typing, Hangup
<1>5. queue' \in [Daemon -> Seq(Client)]
  BY <1>1, EmptyQueue DEF Typing, Hangup
<1>6. ASSUME NEW c \in Client
      PROVE  /\ slot'[c] \in Slot
             /\ slot'[c].peer = slot[c].peer /\ slot'[c].ran = slot[c].ran
             /\ slot'[c].result = slot[c].result /\ slot'[c].cmd = slot[c].cmd
             /\ (slot[c].peer = d /\ slot[c].phase = "open") \/ slot'[c].phase = slot[c].phase
  <2>1. slot[c] \in Slot
    BY <1>1 DEF Typing
  <2>2. CASE slot[c].peer = d /\ slot[c].phase = "open"
    <3>1. slot'[c] = [slot[c] EXCEPT !.phase = "reset"]
      BY <2>2 DEF Hangup
    <3> QED BY <2>1, <2>2, <3>1 DEF Slot
  <2>3. CASE ~(slot[c].peer = d /\ slot[c].phase = "open")
    <3>1. slot'[c] = slot[c]
      BY <2>3 DEF Hangup
    <3> QED BY <2>1, <3>1
  <2> QED BY <2>2, <2>3
<1>7. slot' \in [Client -> Slot]
  BY <1>6 DEF Hangup
<1>8. Typing'
  BY <1>1, <1>3, <1>4, <1>5, <1>7 DEF Typing
<1>9. ASSUME NEW e \in Daemon, e # d PROVE Orderly(e)'
  <2>1. ASSUME NEW c \in Client, InLine(e, c) PROVE Held(c, e)'
    <3>1. Held(c, e)
      BY <1>1, <2>1, HeldInLine
    <3> QED BY <1>6, <1>9, <3>1 DEF Held
  <2>2. Undisturbed(e)
    BY <1>4, <1>6, <1>9, <2>1 DEF Undisturbed
  <2> QED BY <1>1, <1>2, <1>9, <2>2, OrderlyStands
<1>10. Orderly(d)'
  BY <1>2, <1>4, EmptyQueue DEF Orderly, Serves
<1>11. ASSUME NEW c \in Client PROVE ToldBy(slot[c])'
  BY <1>6 DEF IInv, ToldBy
<1> QED BY <1>8, <1>9, <1>10, <1>11 DEF IInv

LEMMA AcceptKeeps ==
  ASSUME IInv, NEW d \in Daemon, Accept(d)
  PROVE  IInv'
<1>1. Typing /\ \A e \in Daemon : Orderly(e)
  BY DEF IInv
<1>2. CASE Enter(d, "exiting") /\ UNCHANGED <<serving, queue>>
  BY <1>2, MoveKeeps DEF Accept, Serves, Loop, IInv, Typing
<1>3. CASE /\ queue[d] # <<>>
           /\ serving' = [serving EXCEPT ![d] = Head(queue[d])]
           /\ queue' = [queue EXCEPT ![d] = Tail(@)]
           /\ Enter(d, "read")
  <2>1. proc[d] = "accept" /\ file' = file /\ tunnels' = tunnels /\ slot' = slot /\ start' = start
    BY DEF Accept
  <2>2. queue[d] \in Seq(Client) /\ IsInjective(queue[d])
    BY <1>1 DEF Typing, Orderly
  <2>9. PICK c \in Client : c = Head(queue[d])
    BY <1>3, <2>2, TailQueue
  <2>3. /\ Tail(queue[d]) \in Seq(Client) /\ IsInjective(Tail(queue[d]))
        /\ c \in Client /\ Contains(queue[d], c) /\ ~Contains(Tail(queue[d]), c)
        /\ \A x : Contains(Tail(queue[d]), x) => Contains(queue[d], x)
    BY <1>3, <2>2, <2>9, TailQueue
  <2>4. /\ queue'[d] = Tail(queue[d]) /\ serving'[d] = c /\ proc'[d] = "read"
        /\ \A e \in Daemon : e # d => /\ queue'[e] = queue[e] /\ serving'[e] = serving[e]
                                      /\ proc'[e] = proc[e]
    BY <1>1, <1>3, <2>9 DEF Typing, Enter
  <2>5. Typing'
    <3>1. proc' \in [Daemon -> Setup \cup Loop \cup {"off", "failed", "exiting"}]
      BY <1>1, <1>3 DEF Typing, Enter, Loop
    <3>2. queue' \in [Daemon -> Seq(Client)]
      BY <1>1, <1>3, <2>3 DEF Typing
    <3>3. serving' \in [Daemon -> Client \cup {NoClient}]
      BY <1>1, <1>3, <2>9 DEF Typing
    <3> QED BY <1>1, <2>1, <3>1, <3>2, <3>3 DEF Typing
  <2>6. ASSUME NEW e \in Daemon, e # d PROVE Orderly(e)'
    BY <1>1, <2>1, <2>4, <2>6, NoneDisturbed, OrderlyStands
  <2>7. Orderly(d)'
    <3>1. Serves(d)' /\ serving'[d] # NoClient /\ proc'[d] # "reply"
      BY <2>3, <2>4, ServerAssumption DEF Serves
    <3>4. \A b \in Client : Contains(queue[d], b) => Held(b, d) /\ slot[b].ran = 0
      BY <1>1 DEF Orderly
    <3>2. Held(c, d)' /\ slot'[c].ran = 0
      <4>1. Held(c, d) /\ slot[c].ran = 0
        BY <2>3, <3>4
      <4> QED BY <2>1, <4>1 DEF Held
    <3>3. ASSUME NEW b \in Client, Contains(queue'[d], b) PROVE Held(b, d)' /\ slot'[b].ran = 0
      <4>1. Held(b, d) /\ slot[b].ran = 0
        BY <2>3, <2>4, <3>3, <3>4
      <4> QED BY <2>1, <4>1 DEF Held
    <3> QED BY <2>3, <2>4, <3>1, <3>2, <3>3 DEF Orderly
  <2>8. ASSUME NEW b \in Client PROVE ToldBy(slot[b])'
    BY <2>1 DEF IInv
  <2> QED BY <2>5, <2>6, <2>7, <2>8 DEF IInv
<1> QED BY <1>2, <1>3 DEF Accept

\* The daemon is done with the client it serves; its slot is r from now on.
LEMMA LeaveKeeps ==
  ASSUME IInv, NEW d \in Daemon, Serves(d), NEW p \in {"accept", "exiting"}, Enter(d, p),
         NEW r \in Slot, ToldBy(r), slot' = [slot EXCEPT ![serving[d]] = r],
         serving' = [serving EXCEPT ![d] = NoClient],
         queue' = queue, file' = file, tunnels' = tunnels, start' = start
  PROVE  IInv'
<1>1. Typing /\ \A e \in Daemon : Orderly(e)
  BY DEF IInv
<1>2. PICK c \in Client : c = serving[d] /\ Held(c, d) /\ InLine(d, c)
  BY <1>1 DEF Typing, Orderly, InLine
<1>3. /\ slot' \in [Client -> Slot] /\ slot'[c] = r
      /\ \A b \in Client : b # c => slot'[b] = slot[b]
  BY <1>1, <1>2, SlotSet
<1>4. /\ serving'[d] = NoClient /\ proc'[d] = p
      /\ \A e \in Daemon : e # d => serving'[e] = serving[e] /\ proc'[e] = proc[e]
  BY <1>1 DEF Typing, Enter
<1>5. Typing'
  <2>1. proc' \in [Daemon -> Setup \cup Loop \cup {"off", "failed", "exiting"}]
    BY <1>1 DEF Typing, Enter, Loop
  <2> QED BY <1>1, <1>3, <2>1 DEF Typing
<1>6. ASSUME NEW e \in Daemon, e # d PROVE Orderly(e)'
  <2>1. ASSUME NEW b \in Client, InLine(e, b) PROVE b # c /\ Held(b, e)
    BY <1>1, <1>2, <1>6, <2>1, HeldInLine DEF Held
  <2>2. Undisturbed(e)
    BY <1>3, <1>4, <1>6, <2>1 DEF Undisturbed, Held
  <2> QED BY <1>1, <1>4, <1>6, <2>2, OrderlyStands
<1>7. Orderly(d)'
  <2>1. ~Serves(d)' /\ NoClient \notin Client
    BY <1>4, ServerAssumption DEF Serves
  <2>2. Orderly(d) /\ queue[d] \in Seq(Client)
    BY <1>1 DEF Typing
  <2>3. ~Contains(queue[d], NoClient)
    BY <2>1, <2>2 DEF Contains
  <2>4. ASSUME NEW b \in Client, Contains(queue[d], b) PROVE Held(b, d)' /\ slot'[b].ran = 0
    <3>1. b # c
      BY <1>2, <2>2, <2>4 DEF Orderly
    <3> QED BY <1>3, <2>2, <2>4, <3>1 DEF Orderly, Held
  <2> QED BY <1>4, <2>1, <2>2, <2>3, <2>4 DEF Orderly, Serves
<1>8. ASSUME NEW b \in Client PROVE ToldBy(slot[b])'
  BY <1>3 DEF IInv
<1> QED BY <1>5, <1>6, <1>7, <1>8 DEF IInv

\* The command is carried out, or answered with an error.
LEMMA HandleKeeps ==
  ASSUME IInv, NEW d \in Daemon, Handle(d)
  PROVE  IInv'
<1>1. Typing /\ \A e \in Daemon : Orderly(e)
  BY DEF IInv
<1>2. proc[d] = "handle" /\ Enter(d, "reply")
  BY DEF Handle
<1>3. PICK c \in Client : /\ c = serving[d] /\ Held(c, d) /\ InLine(d, c)
                          /\ slot[c].ran = 0 /\ slot[c] \in Slot
  BY <1>1, <1>2 DEF Typing, Orderly, Serves, InLine
<1>4. PICK r \in Slot : /\ slot' = [slot EXCEPT ![c] = r] /\ ToldBy(r)
                        /\ r.peer = slot[c].peer /\ r.phase = slot[c].phase
                        /\ r.result \in {"ok", "error"} \/ r.cmd = "StreamLogs"
  <2>1. ASSUME NEW a \in {"ok", "error", "stream"}, Answer(c, a),
               a = "stream" => slot[c].cmd = "StreamLogs"
        PROVE  \E r \in Slot : /\ slot' = [slot EXCEPT ![c] = r] /\ ToldBy(r)
                               /\ r.peer = slot[c].peer /\ r.phase = slot[c].phase
                               /\ r.result \in {"ok", "error"} \/ r.cmd = "StreamLogs"
    <3> DEFINE r == [slot[c] EXCEPT !.ran = 1, !.result = a]
    <3>4. 0 + 1 = 1
      OBVIOUS
    <3>5. r \in Slot
      BY <1>3, SlotFields
    <3>1. /\ r.peer = slot[c].peer /\ r.phase = slot[c].phase
          /\ r.cmd = slot[c].cmd /\ r.ran = 1 /\ r.result = a
      BY <1>3 DEF Slot
    <3>2. slot' = [slot EXCEPT ![c] = r]
      <4>1. slot \in [Client -> Slot]
        BY <1>1 DEF Typing
      <4>2. slot' = [slot EXCEPT ![c].ran = 0 + 1, ![c].result = a]
        BY <1>3, <2>1, <4>1 DEF Answer
      <4> QED BY <1>3, <3>4, <4>1, <4>2
    <3> HIDE DEF r
    <3>3. ToldBy(r)
      BY <3>1 DEF ToldBy
    <3> QED BY <2>1, <3>1, <3>2, <3>3, <3>5
  <2>2. ASSUME slot' = [slot EXCEPT ![c].result = "error"]
        PROVE  \E r \in Slot : /\ slot' = [slot EXCEPT ![c] = r] /\ ToldBy(r)
                               /\ r.peer = slot[c].peer /\ r.phase = slot[c].phase
                               /\ r.result \in {"ok", "error"} \/ r.cmd = "StreamLogs"
    <3> DEFINE r == [slot[c] EXCEPT !.result = "error"]
    <3>1. /\ r \in Slot /\ r.peer = slot[c].peer /\ r.phase = slot[c].phase
          /\ r.ran = 0 /\ r.result = "error"
      BY <1>3 DEF Slot
    <3>2. slot' = [slot EXCEPT ![c] = r]
      BY <2>2
    <3> HIDE DEF r
    <3>3. ToldBy(r)
      BY <3>1 DEF ToldBy
    <3> QED BY <3>1, <3>2, <3>3
  <2> QED BY <1>3, <2>1, <2>2 DEF Handle
<1>5. /\ slot' \in [Client -> Slot] /\ slot'[c] = r
      /\ \A b \in Client : b # c => slot'[b] = slot[b]
  BY <1>1, <1>4, SlotSet
<1>6. proc'[d] = "reply" /\ \A e \in Daemon : e # d => proc'[e] = proc[e]
  BY <1>1, <1>2, ProcMoves
<1>7. /\ file' = file /\ queue' = queue /\ serving' = serving /\ start' = start
      /\ tunnels' \in [Daemon -> BOOLEAN]
  <2>1. tunnels \in [Daemon -> BOOLEAN]
    BY <1>1 DEF Typing
  <2>2. tunnels' = tunnels \/ \E some \in BOOLEAN : tunnels' = [tunnels EXCEPT ![d] = some]
    <3>1. \A cmd, result : TunnelsAfter(d, cmd, result) \subseteq BOOLEAN
      BY <1>1, <2>1 DEF TunnelsAfter
    <3> QED BY <3>1 DEF Handle
  <2>3. \A some \in BOOLEAN : [tunnels EXCEPT ![d] = some] \in [Daemon -> BOOLEAN]
    BY <2>1
  <2>4. file' = file /\ queue' = queue /\ serving' = serving /\ start' = start
    BY DEF Handle
  <2> QED BY <2>1, <2>2, <2>3, <2>4
<1>8. Typing'
  <2>1. proc' \in [Daemon -> Setup \cup Loop \cup {"off", "failed", "exiting"}]
    BY <1>1, <1>2 DEF Typing, Enter, Loop
  <2> QED BY <1>1, <1>5, <1>7, <2>1 DEF Typing
<1>9. ASSUME NEW e \in Daemon, e # d PROVE Orderly(e)'
  <2>1. ASSUME NEW b \in Client, InLine(e, b) PROVE b # c /\ Held(b, e)
    BY <1>1, <1>3, <1>9, <2>1, HeldInLine DEF Held
  <2>2. Undisturbed(e)
    BY <1>5, <1>7, <2>1 DEF Undisturbed, Held
  <2> QED BY <1>1, <1>6, <1>9, <2>2, OrderlyStands
<1>10. Orderly(d)'
  <2>1. Orderly(d) /\ Serves(d) /\ Serves(d)'
    BY <1>1, <1>2, <1>6 DEF Serves
  <2>2. Held(c, d)'
    BY <1>3, <1>4, <1>5 DEF Held
  <2>3. ASSUME NEW b \in Client, Contains(queue[d], b) PROVE Held(b, d)' /\ slot'[b].ran = 0
    <3>1. b # c
      BY <1>3, <2>1, <2>3 DEF Orderly
    <3> QED BY <1>5, <2>1, <2>3, <3>1 DEF Orderly, Held
  <2> QED BY <1>3, <1>4, <1>5, <1>6, <1>7, <2>1, <2>2, <2>3 DEF Orderly
<1>11. ASSUME NEW b \in Client PROVE ToldBy(slot[b])'
  BY <1>4, <1>5 DEF IInv
<1> QED BY <1>8, <1>9, <1>10, <1>11 DEF IInv

LEMMA ReplyKeeps ==
  ASSUME IInv, NEW d \in Daemon, Reply(d)
  PROVE  IInv'
<1>1. PICK c \in Client : c = serving[d] /\ slot[c] \in Slot
  BY DEF IInv, Typing, Orderly, Serves, Reply
<1> DEFINE r == [slot[c] EXCEPT !.phase = IF @ = "open" THEN "done" ELSE @]
<1>2. r \in Slot /\ r.ran = slot[c].ran /\ r.result = slot[c].result
  BY <1>1 DEF Slot
<1>3. slot' = [slot EXCEPT ![serving[d]] = r]
  BY <1>1 DEF Reply
<1>4. ToldBy(r)
  BY <1>2 DEF IInv, ToldBy
<1> HIDE DEF r
<1>5. PICK p \in {"accept", "exiting"} : Enter(d, p)
  BY DEF Reply
<1>6. /\ serving' = [serving EXCEPT ![d] = NoClient] /\ Serves(d)
      /\ queue' = queue /\ file' = file /\ tunnels' = tunnels /\ start' = start
  BY DEF Reply, Serves
<1> QED BY <1>2, <1>3, <1>4, <1>5, <1>6, LeaveKeeps

LEMMA ReadCommandKeeps ==
  ASSUME IInv, NEW d \in Daemon, ReadCommand(d)
  PROVE  IInv'
<1>1. CASE Enter(d, "handle") /\ UNCHANGED serving
  BY <1>1, MoveKeeps DEF ReadCommand, Loop, IInv, Typing
<1>2. CASE Enter(d, "accept") /\ serving' = [serving EXCEPT ![d] = NoClient]
  <2>1. Serves(d)
    BY DEF ReadCommand, Serves
  <2>2. PICK c \in Client : c = serving[d] /\ slot[c] \in Slot /\ ToldBy(slot[c])
    BY <2>1 DEF IInv, Typing, Orderly
  <2>3. slot' = [slot EXCEPT ![serving[d]] = slot[c]]
    BY <2>2 DEF ReadCommand, IInv, Typing
  <2> QED BY <1>2, <2>1, <2>2, <2>3, LeaveKeeps DEF ReadCommand
<1> QED BY <1>1, <1>2 DEF ReadCommand

\* The moves of a daemon that is being set up.
LEMMA SetupKeeps ==
  ASSUME IInv, NEW d \in Daemon,
         Launch(d) \/ CheckFile(d) \/ RemoveFile(d) \/ Bind(d) \/ SetPermissions(d)
  PROVE  IInv'
<1>1. file \in [by : Daemon \cup {NoDaemon}, open : BOOLEAN]
  BY DEF IInv, Typing
<1>2. CASE Launch(d)
  BY <1>1, <1>2, MoveKeeps DEF Launch, Serves, Setup
<1>3. CASE CheckFile(d)
  BY <1>1, <1>3, MoveKeeps DEF CheckFile, Serves, Setup
<1>4. CASE RemoveFile(d)
  <2>1. ~Serves(d) /\ file' = [by |-> NoDaemon, open |-> FALSE]
    BY <1>4 DEF RemoveFile, Serves
  <2>2. file' \in [by : Daemon \cup {NoDaemon}, open : BOOLEAN]
    BY <2>1
  <2>3. PICK p \in {"failed", "bind"} : Enter(d, p)
    BY <1>4 DEF RemoveFile
  <2> QED BY <1>4, <2>1, <2>2, <2>3, MoveKeeps DEF RemoveFile, Setup
<1>5. CASE Bind(d)
  <2>1. ~Serves(d)
    BY <1>5 DEF Bind, Serves
  <2>2. CASE file.by = NoDaemon
    <3>1. file' = [by |-> d, open |-> FALSE] /\ Enter(d, "chmod")
      BY <1>5, <2>2 DEF Bind
    <3>2. file' \in [by : Daemon \cup {NoDaemon}, open : BOOLEAN]
      BY <3>1
    <3> QED BY <1>5, <2>1, <3>1, <3>2, MoveKeeps DEF Bind, Setup
  <2>3. CASE file.by # NoDaemon
    BY <1>1, <1>5, <2>1, <2>3, MoveKeeps DEF Bind
  <2> QED BY <2>2, <2>3
<1>6. CASE SetPermissions(d)
  <2>1. CASE file.by = NoDaemon
    BY <1>6, <2>1, HangupKeeps DEF SetPermissions
  <2>2. CASE file.by # NoDaemon
    <3>1. file' \in [by : Daemon \cup {NoDaemon}, open : BOOLEAN]
      BY <1>1, <1>6, <2>2 DEF SetPermissions
    <3> QED BY <1>6, <2>2, <3>1, MoveKeeps DEF SetPermissions, Serves, Loop
  <2> QED BY <2>1, <2>2
<1> QED BY <1>2, <1>3, <1>4, <1>5, <1>6

LEMMA TaskGoes ==
  ASSUME TasksType(start), NEW c \in Starter, NEW p \in Started \cup {"spawn", "sleep"},
         StartAt(c, p), p = "sleep" => start[c].left > 0
  PROVE  TasksType(start')
BY DEF TasksType, StartAt

\* The steps of a start task that talk to nobody.
LEMMA StarterKeeps ==
  ASSUME IInv, NEW c \in Starter, StartChecked(c) \/ StartSpawn(c) \/ StartPolled(c)
  PROVE  IInv'
<1>1. Typing
  BY DEF IInv
<1>2. CASE StartChecked(c) \/ StartPolled(c)
  <2>1. /\ file' = file /\ proc' = proc /\ tunnels' = tunnels /\ queue' = queue
        /\ serving' = serving /\ slot' = slot
    BY <1>2 DEF StartChecked, StartPolled
  <2>2. TasksType(start)
    BY <1>1 DEF Typing
  <2>6. ASSUME StartChecked(c) PROVE TasksType(start')
    <3>1. CASE slot[c].result \in {"ok", "error"}
      <4>1. StartAt(c, "already")
        BY <2>6, <3>1 DEF StartChecked
      <4> QED BY <2>2, <3>1, <4>1, TaskGoes DEF Started
    <3>2. CASE slot[c].result \notin {"ok", "error"}
      <4>1. StartAt(c, "spawn")
        BY <2>6, <3>2 DEF StartChecked
      <4> QED BY <2>2, <3>2, <4>1, TaskGoes DEF Started
    <3> QED BY <3>1, <3>2
  <2>7. ASSUME StartPolled(c) PROVE TasksType(start')
    <3>1. CASE slot[c].result \in {"ok", "error"}
      <4>1. StartAt(c, "started")
        BY <2>7, <3>1 DEF StartPolled
      <4> QED BY <2>2, <3>1, <4>1, TaskGoes DEF Started
    <3>2. CASE slot[c].result \notin {"ok", "error"} /\ start[c].left > 0
      <4>1. StartAt(c, "sleep")
        BY <2>7, <3>2 DEF StartPolled
      <4> QED BY <2>2, <3>2, <4>1, TaskGoes DEF Started
    <3>3. CASE slot[c].result \notin {"ok", "error"} /\ ~(start[c].left > 0)
      <4>1. StartAt(c, "timeout")
        BY <2>7, <3>3 DEF StartPolled
      <4> QED BY <2>2, <3>3, <4>1, TaskGoes DEF Started
    <3> QED BY <3>1, <3>2, <3>3
  <2>5. TasksType(start')
    BY <1>2, <2>6, <2>7
  <2>3. Typing'
    BY <1>1, <2>1, <2>5 DEF Typing
  <2>4. ASSUME NEW d \in Daemon PROVE Orderly(d)'
    BY <1>1, <2>1, NoneDisturbed, OrderlyStands DEF IInv
  <2> QED BY <2>1, <2>3, <2>4 DEF IInv
<1>3. CASE StartSpawn(c)
  <2>1. /\ file' = file /\ tunnels' = tunnels /\ queue' = queue
        /\ serving' = serving /\ slot' = slot
    BY <1>3 DEF StartSpawn
  <2>2. TasksType(start')
    <3>1. MaxPolls \in 0 .. MaxPolls /\ MaxPolls > 0
      BY ServerAssumption
    <3>2. start' = [start EXCEPT ![c] = [at |-> "sleep", left |-> MaxPolls]]
      BY <1>3 DEF StartSpawn
    <3> QED BY <1>1, <3>1, <3>2 DEF Typing, TasksType
  <2>3. /\ proc' \in [Daemon -> Setup \cup Loop \cup {"off", "failed", "exiting"}]
        /\ \A d \in Daemon : proc'[d] = proc[d] \/ (~Serves(d) /\ ~Serves(d)')
    BY <1>1, <1>3 DEF StartSpawn, Typing, Enter, Setup, Serves
  <2>4. Typing'
    BY <1>1, <2>1, <2>2, <2>3 DEF Typing
  <2>5. ASSUME NEW d \in Daemon PROVE Orderly(d)'
    <3>1. Undisturbed(d)
      BY <1>1, <2>1, NoneDisturbed DEF IInv
    <3> QED BY <1>1, <2>3, <3>1, OrderlyStands DEF IInv
  <2> QED BY <2>1, <2>4, <2>5 DEF IInv
<1> QED BY <1>2, <1>3

LEMMA CallsKeep ==
  ASSUME IInv, NEW c \in Client,
         \/ \E m \in Command : SendCommand(c, m)
         \/ c \in Starter /\ (StartCheck(c) \/ StartPoll(c))
  PROVE  IInv'
<1>1. Typing
  BY DEF IInv
<1>2. ASSUME NEW m \in Command, SendCommand(c, m) PROVE IInv'
  BY <1>1, <1>2, ConnectKeeps DEF SendCommand, Typing
<1>3. CASE c \in Starter /\ StartCheck(c)
  <2>1. TasksType(start')
    BY <1>1, <1>3 DEF StartCheck, StartAt, Typing, TasksType
  <2> QED BY <1>3, <2>1, ConnectKeeps DEF StartCheck
<1>4. CASE c \in Starter /\ StartPoll(c)
  <2>1. TasksType(start')
    <3>1. start[c].left - 1 \in 0 .. MaxPolls
      BY <1>1, <1>4, ServerAssumption DEF Typing, TasksType, StartPoll
    <3> QED BY <1>1, <1>4, <3>1 DEF StartPoll, Typing, TasksType
  <2> QED BY <1>4, <2>1, ConnectKeeps DEF StartPoll
<1> QED BY <1>2, <1>3, <1>4

LEMMA StepKeeps == IInv /\ [Next]_vars => IInv'
<1> SUFFICES ASSUME IInv, [Next]_vars PROVE IInv'
  OBVIOUS
<1>1. ASSUME NEW d \in Daemon, DaemonStep(d) \/ Launch(d) \/ Crash(d) PROVE IInv'
  <2>1. CASE Launch(d) \/ CheckFile(d) \/ RemoveFile(d) \/ Bind(d) \/ SetPermissions(d)
    BY <2>1, SetupKeeps
  <2>2. CASE Exit(d) \/ Crash(d)
    BY <2>2, HangupKeeps DEF Exit, Crash
  <2>3. CASE Accept(d) \/ ReadCommand(d) \/ Handle(d) \/ Reply(d)
    BY <2>3, AcceptKeeps, ReadCommandKeeps, HandleKeeps, ReplyKeeps
  <2> QED BY <1>1, <2>1, <2>2, <2>3 DEF DaemonStep
<1>2. ASSUME NEW c \in Client,
             WriteCommand(c) \/ ReadEof(c) \/ Abandon(c) \/ \E m \in Command : SendCommand(c, m)
      PROVE  IInv'
  BY <1>2, WriteKeeps, ReadEofKeeps, AbandonKeeps, CallsKeep
<1>3. ASSUME NEW c \in Starter, StarterStep(c) \/ StartCheck(c) PROVE IInv'
  <2>1. c \in Client
    BY ServerAssumption
  <2> QED BY <1>3, <2>1, StarterKeeps, CallsKeep DEF StarterStep
<1>4. CASE UNCHANGED vars
  <2>1. Typing' /\ Typing
    BY <1>4 DEF IInv, Typing, vars
  <2>2. /\ queue' = queue /\ serving' = serving /\ slot' = slot /\ proc' = proc
    BY <1>4 DEF vars
  <2>3. ASSUME NEW d \in Daemon PROVE Orderly(d)'
    BY <2>1, <2>2, NoneDisturbed, OrderlyStands DEF IInv
  <2> QED BY <2>1, <2>2, <2>3 DEF IInv
<1> QED BY <1>1, <1>2, <1>3, <1>4 DEF Next

LEMMA Invariant == Spec => []IInv
BY InitKeeps, StepKeeps, PTL DEF Spec

\* Whoever is started, stopped or killed, and whatever the clients send or leave
\* unsent: every connection is in one place, no command is carried out twice, and what
\* the client is told agrees with what was done (run's accept loop, handle_connection
\* and send_command_to).
THEOREM Truthful == Spec => []Consistent
<1>1. IInv => Consistent
  <2> SUFFICES ASSUME IInv PROVE Consistent
    OBVIOUS
  <2>1. ASSUME NEW d \in Daemon
        PROVE  /\ ToSet(queue[d]) \subseteq Client /\ IsInjective(queue[d])
               /\ ~Contains(queue[d], serving[d])
               /\ serving[d] # NoClient <=> proc[d] \in {"read", "handle", "reply"}
    <3>1. queue[d] \in Seq(Client)
      BY DEF IInv, Typing
    <3>2. ToSet(queue[d]) \subseteq Client
      BY <3>1 DEF ToSet
    <3> QED BY <3>2 DEF IInv, Orderly, Serves
  <2>2. TypeOK
    BY <2>1 DEF IInv, Typing, TasksType, TypeOK
  <2>3. OutcomeTruthful
    BY DEF IInv, ToldBy, OutcomeTruthful
  <2> QED BY <2>2, <2>3 DEF Consistent
<1> QED BY <1>1, Invariant, PTL

-----------------------------------------------------------------------------
(* Starts that do not overlap                                               *)

\* A daemon at each place of setup_listener finds the file that it counts on, and one
\* that serves is the one the path leads to.
Path(d) ==
  /\ proc[d] # "failed"
  /\ proc[d] = "remove" => file.by # NoDaemon
  /\ proc[d] = "bind" => file.by = NoDaemon
  /\ proc[d] = "chmod" => file.by = d
  /\ proc[d] \in Loop => file.by = d /\ file.open

\* The call of a task that looks for a daemon: if one serves it is that one, and the
\* call is not answered yet or has shown it.
Asking(c) ==
  /\ slot[c].cmd = "Status" /\ slot[c].phase \in {"open", "reset", "done"}
  /\ \A d \in Daemon : proc[d] \in Loop =>
       /\ slot[c].peer = d
       /\ \/ slot[c].phase = "open"
          \/ slot[c].phase = "done" /\ slot[c].result \in {"ok", "error"}

OneSetup ==
  \A d, e \in Daemon : proc[d] \in Setup /\ proc[e] \in Setup \cup Loop => d = e

OneStart == \A b, c \in Starter : start[b].at \notin Started /\ start[c].at \notin Started => b = c

\* Before it spawns a daemon a task knows that there is none.
Looks(c) ==
  /\ start[c].at \in {"check", "spawn"} => \A d \in Daemon : proc[d] \notin Setup
  /\ start[c].at = "spawn" => \A d \in Daemon : proc[d] \notin Loop
  /\ start[c].at = "check" => Asking(c)

SetupInv ==
  /\ OneSetup /\ OneStart
  /\ \A d \in Daemon : Path(d)
  /\ \A c \in Starter : Looks(c)

\* No step of a daemon that is set up, and none brings it into the loop.
Settles(d) ==
  \/ proc'[d] = proc[d]
  \/ proc'[d] \notin Setup \cup {"failed"} /\ (proc'[d] \in Loop => proc[d] \in Loop)

LEMMA CalmKeeps ==
  ASSUME SetupInv, file' = file, start' = start, \A d \in Daemon : Settles(d),
         \A c \in Starter : start[c].at = "check" => Asking(c)'
  PROVE  SetupInv'
<1>1. \A d \in Daemon : /\ proc'[d] \in Setup => proc[d] \in Setup /\ proc'[d] = proc[d]
                        /\ proc'[d] \in Loop => proc[d] \in Loop
  BY DEF Settles, Setup, Loop
<1>2. OneSetup'
  BY <1>1 DEF OneSetup, SetupInv
<1>3. OneStart'
  BY DEF OneStart, SetupInv
<1>4. ASSUME NEW d \in Daemon PROVE Path(d)'
  <2>1. Path(d)
    BY DEF SetupInv
  <2>2. CASE proc'[d] = proc[d]
    BY <2>1, <2>2 DEF Path
  <2>3. CASE proc'[d] \notin Setup \cup {"failed"}
    BY <1>1, <2>1, <2>3 DEF Path, Setup
  <2> QED BY <2>2, <2>3 DEF Settles
<1>5. ASSUME NEW c \in Starter PROVE Looks(c)'
  BY <1>1 DEF Looks, SetupInv
<1> QED BY <1>2, <1>3, <1>4, <1>5 DEF SetupInv

\* A task goes on asking when nothing happens to its call.
LEMMA AskingStands ==
  ASSUME NEW c \in Starter, Asking(c),
         slot'[c].cmd = slot[c].cmd, slot'[c].phase = slot[c].phase,
         slot'[c].peer = slot[c].peer, slot[c].phase = "done" => slot'[c].result = slot[c].result,
         \A d \in Daemon : proc'[d] \in Loop => proc[d] \in Loop
  PROVE  Asking(c)'
BY DEF Asking

LEMMA StarterIsClient == Starter \subseteq Client
BY ServerAssumption

\* The accept loop.
LEMMA LoopKeepsSetup ==
  ASSUME IInv, SetupInv, NEW d \in Daemon,
         Accept(d) \/ ReadCommand(d) \/ Handle(d) \/ Reply(d)
  PROVE  SetupInv'
<1>1. Typing /\ Orderly(d)
  BY DEF IInv
<1>2. file' = file /\ start' = start
  BY DEF Accept, ReadCommand, Handle, Reply
<1>3. PICK p \in Loop \cup {"exiting"} : proc[d] \in Loop /\ Enter(d, p)
  BY DEF Accept, ReadCommand, Handle, Reply, Loop
<1>4. proc'[d] = p /\ \A e \in Daemon : e # d => proc'[e] = proc[e]
  BY <1>1, <1>3, ProcMoves
<1>5. \A e \in Daemon : Settles(e) /\ (proc'[e] \in Loop => proc[e] \in Loop)
  BY <1>3, <1>4 DEF Settles, Loop, Setup
<1>6. ASSUME NEW c \in Starter, start[c].at = "check" PROVE Asking(c)'
  <2>1. Asking(c) /\ c \in Client /\ slot[c] \in Slot
    BY <1>1, <1>6, StarterIsClient DEF SetupInv, Looks, Typing
  <2>2. CASE slot' = slot \/ c # serving[d]
    <3>1. slot'[c] = slot[c]
      BY <1>1, <2>1, <2>2 DEF Accept, ReadCommand, Handle, Answer, Reply, Typing
    <3> QED BY <1>5, <2>1, <3>1, AskingStands
  <2>3. CASE Handle(d) /\ c = serving[d]
    <3>1. slot[c].phase \in {"open", "gone"}
      BY <1>1, <2>3 DEF Handle, Orderly, Serves, Held
    <3>2. /\ slot'[c].cmd = slot[c].cmd /\ slot'[c].phase = slot[c].phase
          /\ slot'[c].peer = slot[c].peer
      <4>1. slot \in [Client -> Slot]
        BY <1>1 DEF Typing
      <4>2. CASE \E a \in {"ok", "error", "stream"} : Answer(c, a)
        <5>1. PICK a : slot'[c] = [slot[c] EXCEPT !.ran = @ + 1, !.result = a]
          BY <2>1, <4>1, <4>2 DEF Answer
        <5> QED BY <2>1, <5>1 DEF Slot
      <4>3. CASE slot' = [slot EXCEPT ![c].result = "error"]
        <5>1. slot'[c] = [slot[c] EXCEPT !.result = "error"]
          BY <2>1, <4>1, <4>3
        <5> QED BY <2>1, <5>1 DEF Slot
      <4> QED BY <2>3, <4>2, <4>3 DEF Handle
    <3> QED BY <1>5, <2>1, <3>1, <3>2, AskingStands
  <2>4. CASE Reply(d) /\ c = serving[d]
    <3>1. /\ slot[c].result \in {"ok", "error"} \/ slot[c].cmd = "StreamLogs"
          /\ slot[c].peer = d /\ slot[c].phase \in {"open", "gone"}
      BY <1>1, <2>4 DEF Reply, Orderly, Serves, Held
    <3>2. slot[c].phase = "open" /\ slot[c].result \in {"ok", "error"}
      BY <2>1, <3>1 DEF Asking
    <3>3. /\ slot'[c].cmd = slot[c].cmd /\ slot'[c].phase = "done"
          /\ slot'[c].peer = slot[c].peer /\ slot'[c].result = slot[c].result
      BY <1>1, <2>1, <2>4, <3>2 DEF Reply, Typing
    <3> QED BY <1>5, <2>1, <3>1, <3>2, <3>3 DEF Asking
  <2>5. (slot' = slot) \/ Handle(d) \/ Reply(d)
    BY DEF Accept, ReadCommand
  <2> QED BY <2>2, <2>3, <2>4, <2>5
<1> QED BY <1>2, <1>5, <1>6, CalmKeeps

\* A daemon exits or is killed.
LEMMA EndKeepsSetup ==
  ASSUME IInv, SetupInv, NEW d \in Daemon, Exit(d) \/ Crash(d)
  PROVE  SetupInv'
<1>1. Typing
  BY DEF IInv
<1>2. file' = file /\ start' = start /\ Enter(d, "off") /\ Hangup(d)
  BY DEF Exit, Crash
<1>3. proc'[d] = "off" /\ \A e \in Daemon : e # d => proc'[e] = proc[e]
  BY <1>1, <1>2, ProcMoves
<1>4. \A e \in Daemon : Settles(e) /\ (proc'[e] \in Loop => proc[e] \in Loop /\ e # d)
  BY <1>3 DEF Settles, Setup, Loop
<1>5. ASSUME NEW c \in Starter, start[c].at = "check" PROVE Asking(c)'
  <2>1. Asking(c) /\ c \in Client /\ slot[c] \in Slot
    BY <1>1, <1>5, StarterIsClient DEF SetupInv, Looks, Typing
  <2>2. CASE slot[c].peer = d /\ slot[c].phase = "open"
    <3>1. slot'[c] = [slot[c] EXCEPT !.phase = "reset"]
      BY <1>2, <2>1, <2>2 DEF Hangup
    <3>2. /\ slot'[c].cmd = slot[c].cmd /\ slot'[c].phase = "reset"
          /\ slot'[c].peer = slot[c].peer
      BY <2>1, <3>1 DEF Slot
    <3> QED BY <1>4, <2>1, <2>2, <3>2 DEF Asking
  <2>3. CASE ~(slot[c].peer = d /\ slot[c].phase = "open")
    <3>1. slot'[c] = slot[c]
      BY <1>2, <2>1, <2>3 DEF Hangup
    <3> QED BY <1>4, <2>1, <3>1, AskingStands
  <2> QED BY <2>2, <2>3
<1> QED BY <1>2, <1>4, <1>5, CalmKeeps

\* A client writes, reads the end of the stream, leaves or sends a command.
LEMMA ClientKeepsSetup ==
  ASSUME IInv, SetupInv, NEW b \in Client,
         WriteCommand(b) \/ ReadEof(b) \/ Abandon(b) \/ \E m \in Command : SendCommand(b, m)
  PROVE  SetupInv'
<1>1. Typing
  BY DEF IInv
<1>2. file' = file /\ start' = start /\ proc' = proc
  BY DEF WriteCommand, ReadEof, Abandon, SendCommand
<1>3. ASSUME NEW c \in Starter, start[c].at = "check" PROVE Asking(c)'
  <2>1. Asking(c) /\ c \in Client /\ slot[c] \in Slot
    BY <1>1, <1>3, StarterIsClient DEF SetupInv, Looks, Typing
  <2>2. CASE c # b
    <3>1. slot'[c] = slot[c]
      BY <1>1, <2>1, <2>2 DEF WriteCommand, ReadEof, Abandon, SendCommand, Connect, Typing
    <3> QED BY <1>2, <2>1, <3>1, AskingStands
  <2>3. CASE c = b /\ WriteCommand(b)
    <3>1. /\ slot'[c].cmd = slot[c].cmd /\ slot'[c].phase = slot[c].phase
          /\ slot'[c].peer = slot[c].peer /\ slot'[c].result = slot[c].result
      BY <1>1, <2>1, <2>3 DEF WriteCommand, Typing
    <3> QED BY <1>2, <2>1, <3>1, AskingStands
  <2>4. CASE c = b /\ ReadEof(b)
    <3>1. /\ slot'[c].cmd = slot[c].cmd /\ slot'[c].phase = "done" /\ slot[c].phase = "reset"
      <4>1. slot \in [Client -> Slot]
        BY <1>1 DEF Typing
      <4>2. PICK a : slot' = [slot EXCEPT ![c].phase = "done", ![c].result = a]
        BY <2>4 DEF ReadEof
      <4>3. slot'[c] = [slot[c] EXCEPT !.phase = "done", !.result = a]
        BY <2>1, <4>1, <4>2
      <4>4. slot[c].phase = "reset"
        BY <2>4 DEF ReadEof
      <4> QED BY <2>1, <4>3, <4>4 DEF Slot
    <3> QED BY <1>2, <2>1, <3>1 DEF Asking
  <2> QED BY <2>2, <2>3, <2>4 DEF Abandon, SendCommand
<1>4. \A d \in Daemon : Settles(d)
  BY <1>2 DEF Settles
<1> QED BY <1>2, <1>3, <1>4, CalmKeeps

\* A daemon that is being set up goes a step further, and no other is about.
LEMMA FurtherKeeps ==
  ASSUME Typing, SetupInv, NEW d \in Daemon, NEW p \in Setup \cup {"accept"}, Enter(d, p),
         \A e \in Daemon : e # d => proc[e] \notin Setup \cup Loop,
         \A c \in Starter : start'[c].at \notin {"check", "spawn"},
         OneStart', Path(d)'
  PROVE  SetupInv'
<1>1. proc'[d] = p /\ \A e \in Daemon : e # d => proc'[e] = proc[e]
  BY ProcMoves
<1>2. OneSetup'
  BY <1>1 DEF OneSetup
<1>3. ASSUME NEW e \in Daemon PROVE Path(e)'
  <2>1. CASE e # d
    BY <1>1, <2>1 DEF Path, SetupInv, Setup
  <2> QED BY <2>1
<1>4. ASSUME NEW c \in Starter PROVE Looks(c)'
  BY DEF Looks
<1> QED BY <1>2, <1>3, <1>4 DEF SetupInv

LEMMA SetupKeepsSetup ==
  ASSUME IInv, SetupInv, NEW d \in Daemon,
         CheckFile(d) \/ RemoveFile(d) \/ Bind(d) \/ SetPermissions(d)
  PROVE  SetupInv'
<1>1. Typing /\ OneSetup /\ OneStart /\ Path(d) /\ proc[d] \in Setup /\ start' = start
  BY DEF IInv, SetupInv, CheckFile, RemoveFile, Bind, SetPermissions, Setup
<1>2. \A e \in Daemon : e # d => proc[e] \notin Setup \cup Loop
  BY <1>1 DEF OneSetup
<1>3. ASSUME NEW c \in Starter PROVE start'[c].at \notin {"check", "spawn"}
  BY <1>1 DEF SetupInv, Looks
<1>4. OneStart'
  BY <1>1 DEF OneStart
<1>5. PICK p \in Setup \cup {"accept"} : Enter(d, p) /\ (proc'[d] = p => Path(d)')
  <2>1. CASE CheckFile(d) /\ file.by = NoDaemon
    BY <2>1 DEF CheckFile, Setup, Path, Loop
  <2>2. CASE CheckFile(d) /\ file.by # NoDaemon
    BY <2>2 DEF CheckFile, Setup, Path, Loop
  <2>3. CASE RemoveFile(d)
    BY <1>1, <2>3 DEF RemoveFile, Setup, Path, Loop
  <2>4. CASE Bind(d)
    BY <1>1, <2>4 DEF Bind, Setup, Path, Loop
  <2>5. CASE SetPermissions(d)
    <3>1. file.by = d /\ d # NoDaemon
      BY <1>1, <2>5, ServerAssumption DEF Path, SetPermissions
    <3>2. file' = [file EXCEPT !.open = TRUE] /\ Enter(d, "accept")
      BY <2>5, <3>1 DEF SetPermissions
    <3>3. file'.by = d /\ file'.open
      BY <1>1, <3>1, <3>2 DEF Typing
    <3> QED BY <3>2, <3>3 DEF Path, Setup
  <2> QED BY <2>1, <2>2, <2>3, <2>4, <2>5
<1>6. Path(d)'
  BY <1>1, <1>5, ProcMoves
<1> QED BY <1>1, <1>2, <1>3, <1>4, <1>5, <1>6, FurtherKeeps

\* The task c goes on, to a place p where it has what that place asks for.
LEMMA TaskKeepsSetup ==
  ASSUME Typing, SetupInv, NEW c \in Starter,
         start'[c].at \notin {"check", "spawn"} \/ Looks(c)',
         \A b \in Starter : b # c => start'[b] = start[b] /\ start[b].at \in Started,
         file' = file, proc' = proc
  PROVE  SetupInv'
<1>1. OneSetup'
  BY DEF OneSetup, SetupInv
<1>2. OneStart'
  BY DEF OneStart
<1>3. ASSUME NEW d \in Daemon PROVE Path(d)'
  BY DEF Path, SetupInv
<1>4. ASSUME NEW b \in Starter PROVE Looks(b)'
  <2>1. CASE b # c
    BY <2>1 DEF Looks, Started
  <2>2. CASE b = c
    BY <2>2 DEF Looks
  <2> QED BY <2>1, <2>2
<1> QED BY <1>1, <1>2, <1>3, <1>4 DEF SetupInv

LEMMA StarterKeepsSetup ==
  ASSUME IInv, SetupInv, NEW c \in Starter, StarterStep(c)
  PROVE  SetupInv'
<1>1. Typing /\ TasksType(start) /\ OneStart /\ Looks(c) /\ \A d \in Daemon : Path(d)
  BY DEF IInv, Typing, SetupInv
<1>2. start[c].at \notin Started /\ \A b \in Starter : b # c => start'[b] = start[b]
  BY <1>1 DEF StarterStep, StartChecked, StartSpawn, StartPoll, StartPolled, StartAt,
                   Started, TasksType
<1>3. \A b \in Starter : b # c => start[b].at \in Started
  BY <1>1, <1>2 DEF OneStart
<1>4. CASE StartChecked(c)
  <2>1. file' = file /\ proc' = proc /\ slot' = slot
    BY <1>4 DEF StartChecked
  <2>2. CASE slot[c].result \in {"ok", "error"}
    <3>1. start'[c].at = "already"
      BY <1>1, <1>4, <2>2 DEF StartChecked, StartAt, TasksType
    <3> QED BY <1>1, <1>2, <1>3, <2>1, <3>1, TaskKeepsSetup
  <2>3. CASE slot[c].result \notin {"ok", "error"}
    <3>1. start'[c].at = "spawn"
      BY <1>1, <1>4, <2>3 DEF StartChecked, StartAt, TasksType
    <3>2. \A d \in Daemon : proc[d] \notin Setup \cup Loop
      BY <1>1, <1>4, <2>3 DEF StartChecked, Looks, Asking
    <3>3. Looks(c)'
      BY <2>1, <3>1, <3>2 DEF Looks
    <3> QED BY <1>1, <1>2, <1>3, <2>1, <3>1, <3>3, TaskKeepsSetup
  <2> QED BY <2>2, <2>3
<1>5. CASE StartSpawn(c)
  <2>1. start'[c].at = "sleep" /\ file' = file
    BY <1>1, <1>5 DEF StartSpawn, TasksType
  <2>2. CASE proc' = proc
    BY <1>1, <1>2, <1>3, <2>1, <2>2, TaskKeepsSetup
  <2>3. ASSUME NEW d \in Daemon, Enter(d, "exists") PROVE SetupInv'
    <3>1. \A e \in Daemon : proc[e] \notin Setup \cup Loop
      BY <1>1, <1>5 DEF StartSpawn, Looks
    <3>2. \A b \in Starter : start'[b].at \notin {"check", "spawn"}
      BY <1>2, <1>3, <2>1 DEF Started
    <3>3. OneStart'
      BY <1>2, <1>3 DEF OneStart
    <3>4. proc'[d] = "exists"
      BY <1>1, <2>3, ProcMoves
    <3>5. Path(d)'
      BY <3>4 DEF Path, Loop
    <3>6. "exists" \in Setup \cup {"accept"}
      BY DEF Setup
    <3> QED BY <1>1, <2>3, <3>1, <3>2, <3>3, <3>5, <3>6, FurtherKeeps
  <2> QED BY <1>5, <2>2, <2>3 DEF StartSpawn
<1>6. CASE StartPoll(c) \/ StartPolled(c)
  <2>1. start'[c].at \notin {"check", "spawn"}
    BY <1>1, <1>6 DEF StartPoll, StartPolled, StartAt, TasksType
  <2>2. file' = file /\ proc' = proc
    BY <1>6 DEF StartPoll, StartPolled
  <2> QED BY <1>1, <1>2, <1>3, <2>1, <2>2, TaskKeepsSetup
<1> QED BY <1>4, <1>5, <1>6 DEF StarterStep

\* A start begins when none is in progress.
LEMMA BeginKeepsSetup ==
  ASSUME IInv, SetupInv, ~Overlap, ByHand # "anytime",
         \/ \E d \in Daemon : Launch(d)
         \/ \E c \in Starter : StartCheck(c)
  PROVE  SetupInv'
<1>1. Typing /\ TasksType(start) /\ \A d \in Daemon : Path(d)
  BY DEF IInv, Typing, SetupInv
<1>2. Settled
  BY DEF Launch, StartCheck
<1>3. \A d \in Daemon : proc[d] \notin Setup
  BY <1>2 DEF Settled
<1>4. \A c \in Starter : start[c].at \in Started
  BY <1>2 DEF Settled
<1>5. ASSUME NEW d \in Daemon, Launch(d) PROVE SetupInv'
  <2>1. start' = start /\ file' = file /\ Enter(d, "exists")
    BY <1>5 DEF Launch
  <2>2. \A e \in Daemon : proc[e] \notin Loop
    BY <1>5, ServerAssumption DEF Launch
  <2>3. OneStart'
    BY <1>4, <2>1 DEF OneStart
  <2>4. proc'[d] = "exists"
    BY <1>1, <2>1, ProcMoves
  <2>5. Path(d)'
    BY <2>4 DEF Path, Loop
  <2>6. "exists" \in Setup \cup {"accept"}
    BY DEF Setup
  <2>7. \A b \in Starter : start'[b].at \notin {"check", "spawn"}
    BY <1>4, <2>1 DEF Started
  <2> QED BY <1>1, <1>3, <2>1, <2>2, <2>3, <2>5, <2>6, <2>7, FurtherKeeps
<1>6. ASSUME NEW c \in Starter, StartCheck(c) PROVE SetupInv'
  <2>1. /\ start' = [start EXCEPT ![c].at = "check"] /\ Connect(c, "Status")
        /\ file' = file /\ proc' = proc
    BY <1>6 DEF StartCheck, StartAt
  <2>2. /\ start'[c].at = "check"
        /\ \A b \in Starter : b # c => start'[b] = start[b] /\ start[b].at \in Started
    BY <1>1, <1>4, <2>1 DEF TasksType
  <2>3. c \in Client /\ slot \in [Client -> Slot]
    BY <1>1, StarterIsClient DEF Typing
  <2>4. ASSUME NEW d \in Daemon, proc[d] \in Loop
        PROVE  file.by = d /\ file.open /\ proc[d] \in Alive
    BY <1>1, <2>4 DEF Path, Alive
  <2>5. Asking(c)'
    <3>1. ASSUME NEW r \in {"NotRunning", "Io"},
                 slot' = [slot EXCEPT
                            ![c] = [Fresh("Status") EXCEPT !.phase = "done", !.result = r]]
          PROVE  slot'[c].cmd = "Status" /\ slot'[c].phase = "done"
      <4>1. slot'[c] = [Fresh("Status") EXCEPT !.phase = "done", !.result = r]
        BY <2>3, <3>1
      <4>2. [Fresh("Status") EXCEPT !.phase = "done", !.result = r].cmd = "Status"
        BY RefusedSlot
      <4>3. [Fresh("Status") EXCEPT !.phase = "done", !.result = r].phase = "done"
        BY RefusedSlot
      <4> QED BY <4>1, <4>2, <4>3
    <3>2. CASE file.by = NoDaemon \/ ~file.open \/ proc[file.by] \notin Alive
      <4>1. \A d \in Daemon : proc[d] \notin Loop
        BY <2>4, <3>2, ServerAssumption
      <4>2. slot'[c].cmd = "Status" /\ slot'[c].phase = "done"
        BY <2>1, <3>1, <3>2 DEF Connect
      <4> QED BY <2>1, <4>1, <4>2 DEF Asking
    <3>3. CASE file.by # NoDaemon /\ file.open /\ proc[file.by] \in Alive
      <4>1. file.by \in Daemon
        BY <1>1, <3>3 DEF Typing
      <4>2. slot' = [slot EXCEPT ![c] = [Fresh("Status") EXCEPT !.phase = "open", !.peer = file.by]]
        BY <2>1, <3>3 DEF Connect
      <4>3. slot'[c].cmd = "Status" /\ slot'[c].phase = "open" /\ slot'[c].peer = file.by
        <5> DEFINE r == [Fresh("Status") EXCEPT !.phase = "open", !.peer = file.by]
        <5>1. slot'[c] = r
          BY <2>3, <4>2
        <5>2. r.cmd = "Status" /\ r.phase = "open" /\ r.peer = file.by
          BY DEF Fresh, Unused
        <5> QED BY <5>1, <5>2
      <4> QED BY <2>1, <2>4, <4>3 DEF Asking
    <3> QED BY <3>2, <3>3
  <2>6. Looks(c)'
    BY <1>3, <2>1, <2>2, <2>5 DEF Looks
  <2> QED BY <1>1, <2>1, <2>2, <2>6, TaskKeepsSetup
<1> QED BY <1>5, <1>6

LEMMA SetupInit == Init => SetupInv
<1> SUFFICES ASSUME Init PROVE SetupInv
  OBVIOUS
<1>1. OneSetup /\ OneStart
  BY DEF Init, OneSetup, OneStart, Setup, Started
<1>2. ASSUME NEW d \in Daemon PROVE Path(d)
  BY DEF Init, Path, Loop
<1>3. ASSUME NEW c \in Starter PROVE Looks(c)
  BY DEF Init, Looks
<1> QED BY <1>1, <1>2, <1>3 DEF SetupInv

LEMMA SetupStep ==
  ~Overlap /\ ByHand # "anytime" => (IInv /\ SetupInv /\ [Next]_vars => SetupInv')
<1> SUFFICES ASSUME ~Overlap, ByHand # "anytime", IInv, SetupInv, [Next]_vars PROVE SetupInv'
  OBVIOUS
<1>1. ASSUME NEW d \in Daemon, DaemonStep(d) \/ Launch(d) \/ Crash(d) PROVE SetupInv'
  <2>1. CASE CheckFile(d) \/ RemoveFile(d) \/ Bind(d) \/ SetPermissions(d)
    BY <2>1, SetupKeepsSetup
  <2>2. CASE Accept(d) \/ ReadCommand(d) \/ Handle(d) \/ Reply(d)
    BY <2>2, LoopKeepsSetup
  <2>3. CASE Exit(d) \/ Crash(d)
    BY <2>3, EndKeepsSetup
  <2>4. CASE Launch(d)
    BY <2>4, BeginKeepsSetup
  <2> QED BY <1>1, <2>1, <2>2, <2>3, <2>4 DEF DaemonStep
<1>2. ASSUME NEW c \in Client,
             WriteCommand(c) \/ ReadEof(c) \/ Abandon(c) \/ \E m \in Command : SendCommand(c, m)
      PROVE  SetupInv'
  BY <1>2, ClientKeepsSetup
<1>3. ASSUME NEW c \in Starter, StarterStep(c) \/ StartCheck(c) PROVE SetupInv'
  BY <1>3, StarterKeepsSetup, BeginKeepsSetup
<1>4. CASE UNCHANGED vars
  BY <1>4, CalmKeeps DEF vars, Settles, SetupInv, Looks, Asking
<1> QED BY <1>1, <1>2, <1>3, <1>4 DEF Next

LEMMA SetupInvariant == ~Overlap /\ ByHand # "anytime" => (Spec => []SetupInv)
<1> SUFFICES ASSUME ~Overlap, ByHand # "anytime" PROVE Spec => []SetupInv
  OBVIOUS
<1>1. IInv /\ SetupInv /\ [Next]_vars => SetupInv'
  BY SetupStep
<1> QED BY <1>1, SetupInit, Invariant, PTL DEF Spec

\* Of starts that do not overlap, by hand only when no daemon serves, every one gets
\* its socket, whatever file a daemon that was killed has left (setup_listener).
THEOREM StartsSucceed == ~Overlap /\ ByHand # "anytime" => (Spec => []SetupSucceeds)
<1>1. SetupInv => SetupSucceeds
  BY DEF SetupInv, Path, SetupSucceeds
<1> SUFFICES ASSUME ~Overlap, ByHand # "anytime" PROVE Spec => []SetupSucceeds
  OBVIOUS
<1> QED BY <1>1, SetupInvariant, PTL

\* Under the same starts a daemon that serves is the one the path leads to, so that its
\* tunnels can be taken down by command.
THEOREM Reachable == ~Overlap /\ ByHand # "anytime" => (Spec => []TunnelsReachable)
<1>1. SetupInv => TunnelsReachable
  BY DEF SetupInv, Path, TunnelsReachable
<1> SUFFICES ASSUME ~Overlap, ByHand # "anytime" PROVE Spec => []TunnelsReachable
  OBVIOUS
<1> QED BY <1>1, SetupInvariant, PTL
=============================================================================
