------------------------------ MODULE AppState ------------------------------
(***************************************************************************)
(* AppState and its handlers, one operator per Action that `dispatch`      *)
(* (state.rs) takes: each maps the state before to the state after.        *)
(* ConfigEditor drives them as a library, TuiSession through the key       *)
(* routing of the event loop.                                              *)
(*                                                                         *)
(* A config is what the editor tells apart: one interface field, and for   *)
(* each peer whether its key is set and its allowed IPs.  Sections count   *)
(* from 0, the interface; i is the i-th peer.  What is typed into a field  *)
(* is a set of addresses, or Junk, which no validator takes.               *)
(* Search text, paths, table rows, toasts, themes and the benchmark fields *)
(* are left out.                                                           *)
(*                                                                         *)
(* Operators whose comment starts with "Variant" are not part of the       *)
(* specification, see TunnelManager.                                       *)
(***************************************************************************)
EXTENDS Integers, FiniteSets, Sequences, SequencesExt

CONSTANTS
  Names,  \* connections; the numbers are their alphabetical order
  Ips     \* allowed-IP ranges, numbers

ASSUME AppStateAssumption == Names \subseteq Nat \ {0} /\ Ips \subseteq Nat

Tabs == <<"Overview", "Status", "Peers", "Compare", "Config", "Logs">>
Modes == {"Normal", "Search", "Import", "Export", "EditField"}

Junk == {-1}
NoBuffer == {-2}  \* no field is open
Text == (SUBSET Ips) \cup {Junk}
Peer == [key : {"set", "placeholder"}, ips : SUBSET Ips]
Config == [iface : SUBSET Ips, peers : Seq(Peer)]

Edit == [name : Names, draft : Config, section : Nat, field : Nat \ {0},
         buffer : Text \cup {NoBuffer}, error : BOOLEAN, new : SUBSET Nat, warned : BOOLEAN]
NoEdit == [name |-> 0]
Diff == [name : Names, draft : Config, scroll : Nat]
NoDiff == [name |-> 0]
Confirm == [action : {"DisconnectAll", "StopDaemon", "DeletePeer"}, peer : Nat]
NoConfirm == [action |-> "none", peer |-> 0]

\* What a config file loads to: connections by name.
Conns(f) == DOMAIN f \subseteq Names /\ \A n \in DOMAIN f : f[n] \in Config

IsAppState(s) ==
  /\ Conns(s.conns)
  /\ s \in [running : BOOLEAN, tab : Range(Tabs), mode : Modes, help : BOOLEAN,
            filter : BOOLEAN, confirm : Confirm \cup {NoConfirm}, visible : SUBSET Names,
            daemon : BOOLEAN, conns : {s.conns}, edit : Edit \cup {NoEdit},
            diff : Diff \cup {NoDiff}]

New(conns) ==
  [running |-> TRUE, tab |-> "Overview", mode |-> "Normal", help |-> FALSE, filter |-> FALSE,
   confirm |-> NoConfirm, visible |-> DOMAIN conns, daemon |-> FALSE, conns |-> conns,
   edit |-> NoEdit, diff |-> NoDiff]

Editing(s) == s.edit # NoEdit
CloseBuffer(e) == [e EXCEPT !.buffer = NoBuffer, !.error = FALSE]

-----------------------------------------------------------------------------
(* Session                                                                  *)

Quit(s) == [s EXCEPT !.running = FALSE]

SelectTab(s, tab) ==
  IF s.mode = "EditField"
  THEN [s EXCEPT !.tab = tab, !.mode = "Normal",
                 !.edit = IF Editing(s) THEN CloseBuffer(@) ELSE @]
  ELSE [s EXCEPT !.tab = tab]

\* Tab::next and Tab::prev: `by` is 1 or -1.
StepTab(s, by) ==
  LET i == CHOOSE i \in DOMAIN Tabs : Tabs[i] = s.tab
  IN  SelectTab(s, Tabs[((i - 1 + by) % Len(Tabs)) + 1])

EnterMode(s, mode) == [s EXCEPT !.mode = mode]
LeaveMode(s) == [s EXCEPT !.mode = "Normal"]

ShowHelp(s) == [s EXCEPT !.help = TRUE]
HideHelp(s) == [s EXCEPT !.help = FALSE]
ShowConnectionFilter(s) == [s EXCEPT !.filter = TRUE]
HideConnectionFilter(s) == [s EXCEPT !.filter = FALSE]

ToggleConnectionVisibility(s, n) ==
  [s EXCEPT !.visible = IF n \in @ THEN @ \ {n} ELSE @ \cup {n}]

UpdatePeers(s) == [s EXCEPT !.daemon = TRUE]
DaemonConnectivityChanged(s, up) == [s EXCEPT !.daemon = up]

\* The edit session and the diff stay as they are.
ReloadFromConfig(s, conns) == [s EXCEPT !.conns = conns, !.visible = DOMAIN conns]

-----------------------------------------------------------------------------
(* Config editing                                                           *)

Fields(section, isNew) ==
  IF section = 0 THEN <<"ListenPort">>
  ELSE IF isNew THEN <<"PeerPublicKey", "PeerAllowedIps">> ELSE <<"PeerAllowedIps">>

FieldAt(section, isNew, i) ==
  LET fields == Fields(section, isNew)
  IN  IF i \in DOMAIN fields THEN fields[i] ELSE "ListenPort"

CurrentValue(field, section, config) ==
  IF field = "ListenPort" THEN config.iface
  ELSE IF section \in DOMAIN config.peers THEN config.peers[section].ips ELSE {}

\* Every empty text is a value, except for a key.
ValidateField(field, text, draft, section) ==
  /\ text # Junk
  /\ field = "PeerPublicKey" => text # {}
  /\ field = "PeerAllowedIps" =>
       \A i \in DOMAIN draft.peers \ {section} : draft.peers[i].ips \cap text = {}

ApplyField(field, text, draft, section) ==
  IF field = "ListenPort" THEN [draft EXCEPT !.iface = text]
  ELSE IF section \notin DOMAIN draft.peers THEN draft
  ELSE IF field = "PeerPublicKey" THEN [draft EXCEPT !.peers[section].key = "set"]
  ELSE [draft EXCEPT !.peers[section].ips = text]

EnterConfigEdit(s, section, i) ==
  IF s.visible = {} THEN s
  ELSE LET n == Min(s.visible)
           text == CurrentValue(FieldAt(section, FALSE, i), section, s.conns[n])
       IN  [s EXCEPT !.mode = "EditField",
              !.edit = [name |-> n, draft |-> s.conns[n], section |-> section, field |-> i,
                        buffer |-> text, error |-> FALSE, new |-> {}, warned |-> FALSE]]

FocusedField(e) == FieldAt(e.section, e.section \in e.new, e.field)

\* ConfigEditKey with a character or Backspace.
EditText(s, text) ==
  IF Editing(s) /\ s.edit.buffer # NoBuffer THEN [s EXCEPT !.edit.buffer = text] ELSE s

Commit(e) ==
  LET field == FocusedField(e)
      new == IF field = "PeerPublicKey" THEN e.new \ {e.section} ELSE e.new
  IN  CloseBuffer([e EXCEPT
        !.draft = ApplyField(field, e.buffer, @, e.section), !.new = new,
        !.warned = IF field = "PeerPublicKey" /\ new = {} THEN FALSE ELSE @])

EditEnter(s) ==
  IF ~Editing(s) \/ s.edit.buffer = NoBuffer THEN s
  ELSE IF ValidateField(FocusedField(s.edit), s.edit.buffer, s.edit.draft, s.edit.section)
       THEN [s EXCEPT !.mode = "Normal", !.edit = Commit(@)]
       ELSE [s EXCEPT !.edit.error = TRUE]

EditEsc(s) ==
  IF Editing(s) /\ s.edit.buffer # NoBuffer
  THEN [s EXCEPT !.mode = "Normal", !.edit = CloseBuffer(@)]
  ELSE s

ConfigFocusNext(s) ==
  IF ~Editing(s) THEN s
  ELSE LET n == Len(Fields(s.edit.section, s.edit.section \in s.edit.new))
       IN  [s EXCEPT !.edit.field = (@ % n) + 1]

ConfigFocusPrev(s) ==
  IF ~Editing(s) THEN s
  ELSE LET n == Len(Fields(s.edit.section, s.edit.section \in s.edit.new))
       IN  [s EXCEPT !.edit.field = IF @ = 1 THEN n ELSE @ - 1]

\* ConfigFocusInterface is section 0, ConfigFocusPeer another.
ConfigFocus(s, section) ==
  IF Editing(s) THEN [s EXCEPT !.edit.section = section, !.edit.field = 1] ELSE s

AddConfigPeer(s) ==
  IF ~Editing(s) THEN s
  ELSE LET e == s.edit
           peers == Append(e.draft.peers, [key |-> "placeholder", ips |-> {}])
           i == Len(peers)
       IN  [s EXCEPT !.mode = "EditField",
              !.edit = [e EXCEPT !.draft.peers = peers, !.new = @ \cup {i}, !.section = i,
                                 !.field = 1, !.buffer = {}, !.error = FALSE]]

\* Variant: the other indices stay.
ShiftDownNot(new, i) == new \ {i}

\* The indices above a removed one move down.
ShiftDown(new, i) == {IF j > i THEN j - 1 ELSE j : j \in new \ {i}}

\* Focus stays on a peer that exists and on a field that it has.
Refocus(e) ==
  LET n == Len(e.draft.peers)
      section == IF e.section > n THEN n ELSE e.section
      max == Len(Fields(section, section \in e.new))
  IN  IF n = 0 THEN [e EXCEPT !.section = 0, !.field = 1]
      ELSE [e EXCEPT !.section = section, !.field = IF @ > max THEN max ELSE @]

DeleteConfigPeer(s, i) ==
  LET e == s.edit
  IN  IF Editing(s) /\ i \in DOMAIN e.draft.peers
      THEN [s EXCEPT !.edit = Refocus([e EXCEPT !.draft.peers = RemoveAt(@, i),
                                                !.new = ShiftDown(@, i)])]
      ELSE s

\* Variant: new peers need no key.
PreviewConfigUnguarded(s) ==
  IF ~Editing(s) \/ s.edit.error THEN s
  ELSE [s EXCEPT !.diff = [name |-> s.edit.name, draft |-> s.edit.draft, scroll |-> 0]]

PreviewConfig(s) ==
  IF ~Editing(s) THEN s
  ELSE IF s.edit.new # {} THEN [s EXCEPT !.edit.warned = TRUE]
  ELSE IF s.edit.error THEN s
  ELSE [s EXCEPT !.diff = [name |-> s.edit.name, draft |-> s.edit.draft, scroll |-> 0]]

ConfigDiffScrollDown(s) == IF s.diff = NoDiff THEN s ELSE [s EXCEPT !.diff.scroll = @ + 1]

ConfigDiffScrollUp(s) ==
  IF s.diff = NoDiff \/ s.diff.scroll = 0 THEN s ELSE [s EXCEPT !.diff.scroll = @ - 1]

SaveConfig(s) == [s EXCEPT !.edit = NoEdit, !.diff = NoDiff]
DiscardConfigEdits(s) == [s EXCEPT !.edit = NoEdit, !.diff = NoDiff, !.mode = "Normal"]

-----------------------------------------------------------------------------
(* Confirmation                                                             *)

RequestConfirm(s, action, peer) == [s EXCEPT !.confirm = [action |-> action, peer |-> peer]]

ConfirmYes(s) ==
  LET c == s.confirm
      closed == [s EXCEPT !.confirm = NoConfirm]
  IN  IF c.action = "DeletePeer" THEN DeleteConfigPeer(closed, c.peer) ELSE closed

ConfirmNo(s) == [s EXCEPT !.confirm = NoConfirm]
=============================================================================
