----------------------------- MODULE StatusView ------------------------------
(***************************************************************************)
(* The status of a tunnel, from the daemon to the rows of the TUI: the     *)
(* answer of TunnelManager::status, the poll that asks for it and the      *)
(* messages that bring it (ferro-wg-tui/src/lib.rs), what AppState keeps   *)
(* of it, and the rows of the Overview and the Status tab.  The daemon     *)
(* goes on while an answer is on its way, and other tasks send messages.   *)
(*                                                                         *)
(* What the daemon has of a tunnel is a reading; an answer and a row hold  *)
(* the number of the reading they were made from.  Byte counts, endpoints  *)
(* and names of interfaces are shown as they are and left out.             *)
(*                                                                         *)
(* Operators whose comment starts with "Variant" are not part of the       *)
(* specification, see TunnelManager.                                       *)
(***************************************************************************)
EXTENDS Integers, Sequences, FiniteSets, SequencesExt

CONSTANTS
  Tunnel,      \* connections
  Ages,        \* seconds since the last handshake; -1 is none
  Losses,      \* packet loss in percent
  MaxReadings, \* bound of the model: readings of a tunnel
  MaxArrived,  \* bound of the model: messages that wait for the loop
  PollTasks    \* places for polls that run

ASSUME StatusAssumption ==
  /\ Ages \subseteq Int /\ Losses \subseteq Nat
  /\ MaxReadings \in Nat /\ MaxArrived \in Nat

VARIABLES
  readings, \* tunnel -> what the daemon has had of it, the present last
  inFlight, \* poll_in_flight
  polls,    \* what runs of spawn_status_poll's task
  arrived,  \* daemon_rx
  status,   \* connection of the TUI -> the reading it shows; 0 is no status
  newest    \* history: tunnel -> the latest reading that it has shown

statusVars == <<readings, inFlight, polls, arrived, status, newest>>

Reading == [up : {TRUE}, age : Ages, loss : Losses]
Default == [up |-> FALSE, age |-> -1, loss |-> 0]   \* no tunnel: TunnelStats::default
Message(kind, of) == [kind |-> kind, of |-> of]
NoReadings == [t \in {} |-> 0]
NoPoll == Message("none", NoReadings)
Asked == Message("asked", NoReadings)

-----------------------------------------------------------------------------
(* The daemon                                                               *)

\* A tunnel comes up or goes down, and its packet loop publishes.
Change ==
  /\ \E t \in Tunnel, r \in Reading \cup {Default} :
       /\ Len(readings[t]) < MaxReadings /\ r # Last(readings[t])
       /\ readings' = [readings EXCEPT ![t] = Append(@, r)]
  /\ UNCHANGED <<inFlight, polls, arrived, status, newest>>

\* TunnelManager::status, for the connections of the config it has reloaded.
StatusAnswer(S) == Message("status", [t \in S |-> Len(readings[t])])

-----------------------------------------------------------------------------
(* spawn_status_poll                                                        *)

\* Variant: every tick spawns a poll.
StatusTickAnyway ==
  /\ \E p \in PollTasks : polls[p] = NoPoll /\ polls' = [polls EXCEPT ![p] = Asked]
  /\ inFlight' = TRUE /\ UNCHANGED <<readings, arrived, status, newest>>

StatusTick ==
  /\ ~inFlight /\ inFlight' = TRUE
  /\ \E p \in PollTasks : polls[p] = NoPoll /\ polls' = [polls EXCEPT ![p] = Asked]
  /\ UNCHANGED <<readings, arrived, status, newest>>

\* The daemon has answered, or the call has failed; an answer of another kind ends the
\* poll without a message.
PollAnswered(p) ==
  /\ polls[p] = Asked /\ UNCHANGED <<readings, arrived, status, newest>>
  /\ \/ /\ \/ \E S \in SUBSET Tunnel : polls' = [polls EXCEPT ![p] = StatusAnswer(S)]
           \/ polls' = [polls EXCEPT ![p] = Message("unreachable", NoReadings)]
        /\ UNCHANGED inFlight
     \/ polls' = [polls EXCEPT ![p] = NoPoll] /\ inFlight' = FALSE

\* The message is sent before the flag is cleared.
PollSent(p) ==
  /\ polls[p].kind \in {"status", "unreachable"} /\ Len(arrived) < MaxArrived
  /\ arrived' = Append(arrived, polls[p])
  /\ polls' = [polls EXCEPT ![p] = Message("sent", NoReadings)]
  /\ UNCHANGED <<readings, inFlight, status, newest>>

PollOver(p) ==
  /\ polls[p].kind = "sent"
  /\ polls' = [polls EXCEPT ![p] = NoPoll] /\ inFlight' = FALSE
  /\ UNCHANGED <<readings, arrived, status, newest>>

\* A command that finds no daemon, an import or a save.
TaskSends ==
  /\ Len(arrived) < MaxArrived
  /\ \E m \in {Message("unreachable", NoReadings)}
              \cup {Message("reload", [t \in S |-> 0]) : S \in SUBSET Tunnel} :
       arrived' = Append(arrived, m)
  /\ UNCHANGED <<readings, inFlight, polls, status, newest>>

-----------------------------------------------------------------------------
(* AppState                                                                 *)

\* apply_peer_updates: names that the TUI does not have are skipped.
Updated(of) == [t \in DOMAIN status |-> IF t \in DOMAIN of THEN of[t] ELSE status[t]]

\* handle_daemon_messages, one message; "unreachable" leaves the rows as they are.
HandleArrived ==
  /\ arrived # <<>> /\ arrived' = Tail(arrived) /\ UNCHANGED <<readings, inFlight, polls>>
  /\ LET m == Head(arrived)
     IN  status' = CASE m.kind = "status" -> Updated(m.of)
                     [] m.kind = "reload" -> m.of
                     [] OTHER -> status
  /\ newest' = [t \in Tunnel |->
       IF t \in DOMAIN status' /\ status'[t] > newest[t] THEN status'[t] ELSE newest[t]]

StatusInit ==
  /\ readings = [t \in Tunnel |-> <<Default>>]
  /\ inFlight = FALSE /\ polls = [p \in PollTasks |-> NoPoll] /\ arrived = <<>>
  /\ status = [t \in Tunnel |-> 0] /\ newest = [t \in Tunnel |-> 0]

StatusNext ==
  \/ Change \/ StatusTick \/ TaskSends \/ HandleArrived
  \/ \E p \in PollTasks : PollAnswered(p) \/ PollSent(p) \/ PollOver(p)

StatusSpec == StatusInit /\ [][StatusNext]_statusVars

-----------------------------------------------------------------------------
(* The rows                                                                 *)

\* compute_health_warning; more than 180 s, more than 10 %.
Warning(r) ==
  IF r.age > 180 THEN "stale handshake"
  ELSE IF r.loss > 10 THEN "high packet loss" ELSE "none"

\* ConnectionStatus: the warning is derived when the answer is applied.
Of(t) == LET r == readings[t][status[t]]
         IN  [up |-> r.up, warning |-> IF r.up THEN Warning(r) ELSE "none"]

OverviewCell(t) ==
  IF status[t] = 0 THEN "unknown"
  ELSE IF ~Of(t).up THEN "Disconnected"
  ELSE IF Of(t).warning = "none" THEN "Connected" ELSE "Connected [!]"

\* In the Status tab no status looks like a tunnel that is down.
StatusCells(t) ==
  IF status[t] = 0 THEN [state |-> "down", warning |-> "none"]
  ELSE [state |-> IF Of(t).up THEN "connected" ELSE "down", warning |-> Of(t).warning]

-----------------------------------------------------------------------------
(* Properties                                                               *)

\* The rows follow the daemon: no message brings an older reading over one that has been
\* shown, however late it is handled, also after a reload has emptied the rows; so a poll
\* that is sent after a command has the last word.  The two tabs say the same, and a row
\* that shows a tunnel as up and well is about one that was.
RowsFollow ==
  \A t \in DOMAIN status :
    /\ status[t] # 0 => status[t] = newest[t]
    /\ OverviewCell(t) \in {"unknown", "Disconnected"} <=> StatusCells(t).state = "down"
    /\ OverviewCell(t) = "Connected [!]" <=> StatusCells(t).warning # "none"
    /\ OverviewCell(t) = "Connected" =>
         readings[t][newest[t]].age <= 180 /\ readings[t][newest[t]].loss <= 10
=============================================================================
