------------------------ MODULE TuiSession_proofs -------------------------
(***************************************************************************)
(* The TUI's session stays consistent through every key, click and answer, *)
(* for any files, any number of background tasks and drafts of any length.  *)
(*                                                                         *)
(* The keys do not look at the invariant: a handler keeps it because of the *)
(* state in which the routing lets a key reach it.  So there is one lemma   *)
(* per group of handlers, with what the routing has established.            *)
(***************************************************************************)
EXTENDS TuiSession, FiniteSetTheorems, SequenceTheorems, WellFoundedInduction, TLAPS

-----------------------------------------------------------------------------
(* The invariant.                                                           *)

Unkeyed(draft) == {i \in DOMAIN draft.peers : draft.peers[i].key # "set"}

AllKeyed(conns) == \A n \in DOMAIN conns : Unkeyed(conns[n]) = {}

\* No two overlays.
Exclusive(s) ==
  /\ ~s.help \/ ~s.filter
  /\ s.help \/ s.filter => s.diff = NoDiff /\ s.confirm = NoConfirm
  /\ s.diff = NoDiff \/ s.confirm = NoConfirm

\* An open field is on the Config tab.
Backed(s) == s.mode = "EditField" => Editing(s) /\ s.tab = "Config" /\ s.edit.buffer # NoBuffer

\* A preview is of the draft, all of whose keys are set, and of no open field.
Previewed(s) ==
  s.diff # NoDiff => /\ s.mode = "Normal" /\ Editing(s)
                     /\ s.diff.name = s.edit.name /\ s.diff.draft = s.edit.draft
                     /\ Unkeyed(s.diff.draft) = {}

\* The session knows every peer without a key.
Tracked(s) == Editing(s) => Unkeyed(s.edit.draft) \subseteq s.edit.new

\* No key asks to delete a peer.
NoDeletion(s) == s.confirm.action # "DeletePeer"

Good(s) ==
  /\ IsAppState(s) /\ s.visible \subseteq DOMAIN s.conns /\ AllKeyed(s.conns)
  /\ Exclusive(s) /\ Backed(s) /\ Previewed(s) /\ Tracked(s) /\ NoDeletion(s)

\* What may be on its way to the loop.
Messages ==
  {Message(kind, slot, conns) : kind \in {"status", "unreachable", "toast", "reload"},
                                slot \in Slots \cup {0}, conns \in Files \cup {<<>>}}

IInv ==
  /\ Good(app) /\ tasks \in [Slots -> Task] /\ inbox \in Seq(Messages)
  /\ inFlight \in BOOLEAN /\ polling \in BOOLEAN /\ server \in Server

-----------------------------------------------------------------------------
(* Operators.                                                               *)

LEMMA LeastName ==
  ASSUME NEW S, S \subseteq Names, S # {}
  PROVE  Min(S) \in S
<1>1. S \subseteq Nat
  BY AppStateAssumption
<1>2. PICK n \in S : \A m \in S : <<m, n>> \notin OpToRel(<, Nat)
  BY <1>1, NatLessThanWellFounded, WFMin
<1>3. ASSUME NEW m \in S PROVE ~ (m < n)
  <2>1. m < n => <<m, n>> \in OpToRel(<, Nat)
    BY <1>1, Zenon DEF OpToRel
  <2> QED
    BY <1>2, <2>1
<1>4. \A m \in S : n <= m
  BY <1>1, <1>3
<1> QED
  BY <1>4 DEF Min

LEMMA NoneIsNone ==
  /\ \A e \in Edit : e # NoEdit
  /\ \A d \in Diff : d # NoDiff
  /\ \A c \in Confirm : c # NoConfirm /\ "action" \in DOMAIN c
  /\ NoConfirm.action = "none"
  BY AppStateAssumption DEF Edit, NoEdit, Diff, NoDiff, Confirm, NoConfirm

\* The parts of a typed state.
LEMMA Parts ==
  ASSUME NEW s, IsAppState(s)
  PROVE  /\ DOMAIN s = {"running", "tab", "mode", "help", "filter", "confirm", "visible",
                        "daemon", "conns", "edit", "diff"}
         /\ s.tab \in Range(Tabs) /\ s.mode \in Modes
         /\ s.confirm \in Confirm \cup {NoConfirm} /\ s.visible \subseteq Names
         /\ s.edit \in Edit \cup {NoEdit} /\ s.diff \in Diff \cup {NoDiff}
         /\ Editing(s) => s.edit \in Edit
  BY DEF IsAppState, Editing

-----------------------------------------------------------------------------
(* Handlers.                                                                *)

\* Those of the overlays without a draft.
LEMMA OverlayHandlers ==
  ASSUME NEW s, Good(s)
  PROVE  /\ Good(HideHelp(s)) /\ Good(HideConnectionFilter(s))
         /\ \A n \in DOMAIN s.conns : Good(ToggleConnectionVisibility(s, n))
         /\ Good(ConfirmNo(s))
<1>1. Good(HideHelp(s))
  BY DEF Good, IsAppState, Conns, Exclusive, Backed, Previewed, Tracked, NoDeletion, Editing,
         HideHelp
<1>2. Good(HideConnectionFilter(s))
  BY DEF Good, IsAppState, Conns, Exclusive, Backed, Previewed, Tracked, NoDeletion, Editing,
         HideConnectionFilter
<1>3. ASSUME NEW n \in DOMAIN s.conns PROVE Good(ToggleConnectionVisibility(s, n))
  BY <1>3 DEF Good, IsAppState, Conns, Exclusive, Backed, Previewed, Tracked, NoDeletion, Editing,
         ToggleConnectionVisibility
<1>4. Good(ConfirmNo(s))
  BY NoneIsNone DEF Good, IsAppState, Conns, Exclusive, Backed, Previewed, Tracked, NoDeletion,
         Editing, ConfirmNo
<1> QED
  BY <1>1, <1>2, <1>3, <1>4

\* Those of the preview, which leave Normal as it was.
LEMMA PreviewHandlers ==
  ASSUME NEW s, Good(s), s.diff # NoDiff
  PROVE  /\ Good(SaveConfig(s)) /\ Good(DiscardConfigEdits(s))
         /\ Good(ConfigDiffScrollDown(s)) /\ Good(ConfigDiffScrollUp(s))
<1>1. Good(SaveConfig(s))
  BY NoneIsNone DEF Good, IsAppState, Conns, Exclusive, Backed, Previewed, Tracked, NoDeletion,
     Editing, SaveConfig
<1>2. Good(DiscardConfigEdits(s))
  BY NoneIsNone DEF Good, IsAppState, Conns, Exclusive, Backed, Previewed, Tracked, NoDeletion,
     Editing, DiscardConfigEdits, Modes
<1>3. s.diff \in Diff /\ s.diff.scroll \in Nat
  BY DEF Good, IsAppState, Diff
<1>4. ASSUME NEW k \in Nat, NEW t, t = [s EXCEPT !.diff = [s.diff EXCEPT !.scroll = k]]
      PROVE  Good(t)
  <2>1. PICK d : d = [s.diff EXCEPT !.scroll = k]
    OBVIOUS
  <2>2. d \in Diff /\ d.name = s.diff.name /\ d.draft = s.diff.draft /\ d # NoDiff
    BY <1>3, <1>4, <2>1, NoneIsNone DEF Diff
  <2> QED
    BY <1>4, <2>1, <2>2 DEF Good, IsAppState, Conns, Exclusive, Backed, Previewed, Tracked,
       NoDeletion, Editing
<1>5. Good(ConfigDiffScrollDown(s))
  BY <1>3, <1>4 DEF ConfigDiffScrollDown
<1>6. Good(ConfigDiffScrollUp(s))
  BY <1>3, <1>4 DEF ConfigDiffScrollUp
<1> QED
  BY <1>1, <1>2, <1>5, <1>6

LEMMA QuitHandler ==
  ASSUME NEW s, Good(s)
  PROVE  Good(Quit(s)) /\ Good(Rendered(s))
<1>1. Good(Quit(s))
  BY DEF Good, IsAppState, Conns, Exclusive, Backed, Previewed, Tracked, NoDeletion, Editing, Quit
<1> QED
  BY <1>1 DEF Rendered

\* What the routing has found when a key gets to the status bar or the tabs.
Clear(s) == ~s.help /\ ~s.filter /\ s.diff = NoDiff /\ s.confirm = NoConfirm

LEMMA OpenOverlays ==
  ASSUME NEW s, Good(s), Clear(s)
  PROVE  /\ Good(ShowHelp(s)) /\ Good(ShowConnectionFilter(s))
         /\ \A action \in {"DisconnectAll", "StopDaemon"} : Good(RequestConfirm(s, action, 0))
<1>1. Good(ShowHelp(s))
  BY DEF Clear, Good, IsAppState, Conns, Exclusive, Backed, Previewed, Tracked, NoDeletion,
     Editing, ShowHelp
<1>2. Good(ShowConnectionFilter(s))
  BY DEF Clear, Good, IsAppState, Conns, Exclusive, Backed, Previewed, Tracked, NoDeletion,
     Editing, ShowConnectionFilter
<1>3. ASSUME NEW action \in {"DisconnectAll", "StopDaemon"}
      PROVE  Good(RequestConfirm(s, action, 0))
  <2>1. PICK c : c = [action |-> action, peer |-> 0]
    OBVIOUS
  <2>2. c \in Confirm /\ c.action # "DeletePeer"
    BY <1>3, <2>1 DEF Confirm
  <2>3. RequestConfirm(s, action, 0) = [s EXCEPT !.confirm = c]
    BY <2>1 DEF RequestConfirm
  <2> QED
    BY <2>2, <2>3 DEF Clear, Good, IsAppState, Conns, Exclusive, Backed, Previewed, Tracked,
       NoDeletion, Editing
<1> QED
  BY <1>1, <1>2, <1>3

\* A mode is left and entered with no preview open, so only an open field is left behind.
LEMMA ModeHandlers ==
  ASSUME NEW s, Good(s), s.diff = NoDiff
  PROVE  \A mode \in {"Search", "Import", "Export"} :
           Good(EnterMode(s, mode)) /\ Good(LeaveMode(s))
<1>1. ASSUME NEW mode \in Modes \ {"EditField"} PROVE Good([s EXCEPT !.mode = mode])
  BY <1>1 DEF Good, IsAppState, Conns, Exclusive, Backed, Previewed, Tracked, NoDeletion, Editing
<1> QED
  BY <1>1 DEF EnterMode, LeaveMode, Modes

\* The dialog never deletes a peer, so its answer only closes it.
LEMMA YesHandler ==
  ASSUME NEW s, Good(s)
  PROVE  Good(ConfirmYes(s))
  BY OverlayHandlers DEF Good, NoDeletion, ConfirmYes, ConfirmNo

\* Leaving the tab closes the field.
LEMMA TabHandler ==
  ASSUME NEW s, Good(s), Clear(s), NEW tab \in Range(Tabs)
  PROVE  Good(SelectTab(s, tab))
<1>1. CASE s.mode # "EditField"
  BY <1>1 DEF Clear, Good, IsAppState, Conns, Exclusive, Backed, Previewed, Tracked, NoDeletion,
     Editing, SelectTab
<1>2. CASE s.mode = "EditField"
  <2>1. s.edit \in Edit
    BY <1>2, Parts DEF Good, Backed
  <2>2. PICK e : e = CloseBuffer(s.edit)
    OBVIOUS
  <2>3. e \in Edit /\ e # NoEdit /\ e.draft = s.edit.draft /\ e.new = s.edit.new
    BY <2>1, <2>2, NoneIsNone DEF CloseBuffer, Edit
  <2>4. SelectTab(s, tab) = [s EXCEPT !.tab = tab, !.mode = "Normal", !.edit = e]
    BY <1>2, <2>2 DEF SelectTab, Good, Backed
  <2>5. Unkeyed(e.draft) \subseteq e.new
    BY <1>2, <2>3 DEF Good, Backed, Tracked
  <2>6. PICK t : t = SelectTab(s, tab)
    OBVIOUS
  <2>7. t = [s EXCEPT !.tab = tab, !.mode = "Normal", !.edit = e]
    BY <2>4, <2>6
  <2>8. IsAppState(t)
    BY <2>3, <2>7 DEF Good, IsAppState, Conns, Modes
  <2>9. /\ t.mode = "Normal" /\ t.edit = e /\ t.diff = s.diff /\ t.confirm = s.confirm
        /\ t.visible = s.visible /\ t.conns = s.conns
        /\ t.help = s.help /\ t.filter = s.filter
    BY <2>7 DEF Good, IsAppState
  <2>10. Good(t)
    BY <2>3, <2>5, <2>8, <2>9 DEF Clear, Good, Exclusive, Backed, Previewed, Tracked, NoDeletion
  <2> QED
    BY <2>6, <2>10
<1> QED
  BY <1>1, <1>2

LEMMA StepHandler ==
  ASSUME NEW s, Good(s), Clear(s), NEW by \in {1, -1}
  PROVE  Good(StepTab(s, by))
<1>1. PICK i \in DOMAIN Tabs : i = CHOOSE j \in DOMAIN Tabs : Tabs[j] = s.tab
  BY DEF Good, IsAppState, Range
<1>2. Len(Tabs) = 6 /\ DOMAIN Tabs = 1 .. 6
  BY DEF Tabs
<1>3. ((i - 1 + by) % Len(Tabs)) + 1 \in DOMAIN Tabs
  <2>1. i \in 1 .. 6 /\ by \in Int
    BY <1>1, <1>2
  <2>2. PICK k \in Int : k = i - 1 + by
    BY <2>1
  <2>3. k % 6 \in 0 .. 5
    OBVIOUS
  <2> QED
    BY <1>2, <2>2, <2>3
<1>4. Tabs[((i - 1 + by) % Len(Tabs)) + 1] \in Range(Tabs)
  BY <1>3 DEF Range
<1> QED
  BY <1>1, <1>4, TabHandler DEF StepTab

\* Both handlers that open a field write the session and the mode.
LEMMA FieldOpened ==
  ASSUME NEW s, Good(s), s.diff = NoDiff, s.tab = "Config",
         NEW e \in Edit, e.buffer # NoBuffer, Unkeyed(e.draft) \subseteq e.new,
         NEW t, t = [s EXCEPT !.mode = "EditField", !.edit = e]
  PROVE  Good(t)
<1>1. IsAppState(t)
  BY DEF Good, IsAppState, Conns, Modes
<1>2. /\ t.tab = s.tab /\ t.edit = e /\ t.diff = s.diff /\ t.confirm = s.confirm
      /\ t.visible = s.visible /\ t.conns = s.conns
      /\ t.help = s.help /\ t.filter = s.filter
  BY DEF Good, IsAppState
<1>3. e # NoEdit
  BY NoneIsNone
<1> QED
  BY <1>1, <1>2, <1>3
     DEF Good, Exclusive, Backed, Previewed, Tracked, NoDeletion, Editing

LEMMA EnterHandler ==
  ASSUME NEW s, Good(s), s.diff = NoDiff, s.tab = "Config", s.visible # {}
  PROVE  Good(EnterConfigEdit(s, 0, 1))
<1>1. PICK n : n = Min(s.visible)
  OBVIOUS
<1>2. n \in Names /\ n \in DOMAIN s.conns
  BY <1>1, LeastName, Parts DEF Good
<1>3. s.conns[n] \in Config /\ Unkeyed(s.conns[n]) = {}
  BY <1>2 DEF Good, IsAppState, Conns, AllKeyed
<1>4. CurrentValue(FieldAt(0, FALSE, 1), 0, s.conns[n]) = s.conns[n].iface
  BY DEF FieldAt, Fields, CurrentValue
<1>5. PICK text : text = s.conns[n].iface
  OBVIOUS
<1>6. text \in SUBSET Ips /\ text # NoBuffer
  BY <1>3, <1>5, AppStateAssumption DEF Config, NoBuffer
<1>7. PICK e : e = [name |-> n, draft |-> s.conns[n], section |-> 0, field |-> 1,
                    buffer |-> text, error |-> FALSE, new |-> {}, warned |-> FALSE]
  OBVIOUS
<1>8. e \in Edit /\ e.buffer = text /\ e.draft = s.conns[n]
  BY <1>2, <1>3, <1>6, <1>7 DEF Edit, Text
<1>9. PICK t : t = EnterConfigEdit(s, 0, 1)
  OBVIOUS
<1>10. t = [s EXCEPT !.mode = "EditField", !.edit = e]
  BY <1>1, <1>4, <1>5, <1>7, <1>9 DEF EnterConfigEdit
<1>11. e.buffer # NoBuffer
  BY <1>6, <1>8
<1>12. Unkeyed(e.draft) \subseteq e.new
  BY <1>3, <1>8
<1>13. Good(t)
  BY <1>8, <1>11, <1>12, <1>10, FieldOpened
<1> QED
  BY <1>9, <1>13

\* The new peer has no key, and the session knows its index.
LEMMA AddHandler ==
  ASSUME NEW s, Good(s), s.diff = NoDiff, s.tab = "Config"
  PROVE  Good(AddConfigPeer(s))
<1>1. CASE ~Editing(s)
  BY <1>1 DEF AddConfigPeer
<1>2. CASE Editing(s)
  <2>1. s.edit \in Edit /\ s.edit.draft \in Config /\ s.edit.draft.peers \in Seq(Peer)
    BY <1>2, Parts DEF Good, Edit, Config
  <2>2. PICK peer : peer = [key |-> "placeholder", ips |-> {}]
    OBVIOUS
  <2>3. peer \in Peer
    BY <2>2 DEF Peer
  <2>4. PICK peers : peers = Append(s.edit.draft.peers, peer)
    OBVIOUS
  <2>5. PICK i : i = Len(peers)
    OBVIOUS
  <2>6. /\ peers \in Seq(Peer) /\ i = Len(s.edit.draft.peers) + 1 /\ i \in Nat \ {0}
        /\ DOMAIN peers = 1 .. i /\ DOMAIN s.edit.draft.peers = 1 .. i - 1
        /\ \A j \in 1 .. i - 1 : peers[j] = s.edit.draft.peers[j]
    BY <2>1, <2>3, <2>4, <2>5
  <2>7. PICK draft : draft = [s.edit.draft EXCEPT !.peers = peers]
    OBVIOUS
  <2>8. draft \in Config /\ draft.peers = peers
    BY <2>1, <2>6, <2>7 DEF Config
  <2>9. PICK e : e = [s.edit EXCEPT !.draft = draft, !.new = s.edit.new \cup {i}, !.section = i,
                                    !.field = 1, !.buffer = {}, !.error = FALSE]
    OBVIOUS
  <2>10. e \in Edit /\ e.draft = draft /\ e.new = s.edit.new \cup {i} /\ e.buffer = {}
    <3>1. PICK new : new = s.edit.new \cup {i}
      OBVIOUS
    <3>2. new \in SUBSET Nat
      BY <2>1, <2>6, <3>1 DEF Edit
    <3>3. PICK text : text = {}
      OBVIOUS
    <3>4. text \in Text
      BY <3>3 DEF Text
    <3>5. PICK first : first = 1 /\ first \in Nat \ {0}
      OBVIOUS
    <3>6. e = [s.edit EXCEPT !.draft = draft, !.new = new, !.section = i, !.field = first,
                             !.buffer = text, !.error = FALSE]
      BY <2>9, <3>1, <3>3, <3>5
    <3>7. s.edit \in Edit /\ draft \in Config /\ i \in Nat
      BY <2>1, <2>6, <2>8
    <3>8. e \in Edit /\ e.draft = draft /\ e.new = new /\ e.buffer = text
      BY <3>2, <3>4, <3>6, <3>7, <3>5 DEF Edit
    <3> QED
      BY <3>1, <3>3, <3>8
  <2>11. Unkeyed(e.draft) \subseteq e.new
    <3>1. Unkeyed(s.edit.draft) \subseteq s.edit.new
      BY <1>2 DEF Good, Tracked
    <3>2. ASSUME NEW j \in Unkeyed(e.draft) PROVE j \in s.edit.new \cup {i}
      <4>1. j \in 1 .. i /\ peers[j].key # "set"
        BY <2>6, <2>8, <2>10, <3>2 DEF Unkeyed
      <4>2. j = i \/ j \in 1 .. i - 1
        BY <2>6, <4>1
      <4>3. j \in 1 .. i - 1 => j \in Unkeyed(s.edit.draft)
        BY <2>6, <4>1 DEF Unkeyed
      <4> QED
        BY <3>1, <4>2, <4>3
    <3> QED
      BY <2>10, <3>2
  <2>12. PICK t : t = AddConfigPeer(s)
    OBVIOUS
  <2>13. t = [s EXCEPT !.mode = "EditField", !.edit = e]
    BY <1>2, <2>1, <2>2, <2>4, <2>5, <2>7, <2>9, <2>12 DEF AddConfigPeer, Edit
  <2>14. e.buffer # NoBuffer
    BY <2>10 DEF NoBuffer
  <2>15. Good(t)
    BY <2>10, <2>11, <2>14, <2>13, FieldOpened
  <2> QED
    BY <2>12, <2>15
<1> QED
  BY <1>1, <1>2

\* A preview starts in Normal, and when no peer is without a key.
LEMMA PreviewHandler ==
  ASSUME NEW s, Good(s), Clear(s), s.mode = "Normal"
  PROVE  Good(PreviewConfig(s))
<1>1. CASE ~Editing(s)
  BY <1>1 DEF PreviewConfig
<1>2. CASE Editing(s) /\ s.edit.new # {}
  <2>1. s.edit \in Edit
    BY <1>2, Parts DEF Good
  <2>2. PICK e : e = [s.edit EXCEPT !.warned = TRUE]
    OBVIOUS
  <2>3. e \in Edit /\ e # NoEdit /\ e.draft = s.edit.draft /\ e.new = s.edit.new
    BY <2>1, <2>2, NoneIsNone DEF Edit
  <2>4. PICK t : t = PreviewConfig(s)
    OBVIOUS
  <2>5. t = [s EXCEPT !.edit = e]
    BY <1>2, <2>2, <2>4 DEF PreviewConfig
  <2>6. IsAppState(t)
    BY <2>3, <2>5 DEF Good, IsAppState, Conns
  <2>7. /\ t.mode = "Normal" /\ t.edit = e /\ t.diff = s.diff /\ t.confirm = s.confirm
        /\ t.visible = s.visible /\ t.conns = s.conns
        /\ t.help = s.help /\ t.filter = s.filter
    BY <2>5 DEF Good, IsAppState
  <2>8. Unkeyed(e.draft) \subseteq e.new
    BY <1>2, <2>3 DEF Good, Tracked
  <2>9. Good(t)
    BY <2>6, <2>7, <2>8 DEF Clear, Good, Exclusive, Backed, Previewed, Tracked, NoDeletion
  <2> QED
    BY <2>4, <2>9
<1>3. CASE Editing(s) /\ s.edit.new = {}
  <2>1. s.edit \in Edit
    BY <1>3, Parts DEF Good
  <2>2. PICK d : d = [name |-> s.edit.name, draft |-> s.edit.draft, scroll |-> 0]
    OBVIOUS
  <2>3. d \in Diff /\ d.name = s.edit.name /\ d.draft = s.edit.draft
    BY <2>1, <2>2 DEF Edit, Diff
  <2>4. PICK t : t = PreviewConfig(s)
    OBVIOUS
  <2>5. t = s \/ t = [s EXCEPT !.diff = d]
    BY <1>3, <2>2, <2>4 DEF PreviewConfig
  <2>6. ASSUME t = [s EXCEPT !.diff = d] PROVE Good(t)
    <3>1. IsAppState(t)
      BY <2>3, <2>6 DEF Good, IsAppState, Conns
    <3>2. /\ t.mode = "Normal" /\ t.edit = s.edit /\ t.diff = d /\ t.confirm = s.confirm
          /\ t.visible = s.visible /\ t.conns = s.conns
          /\ t.help = s.help /\ t.filter = s.filter
      BY <2>6 DEF Good, IsAppState
    <3>3. Unkeyed(d.draft) = {}
      BY <1>3, <2>3 DEF Good, Tracked
    <3> QED
      BY <1>3, <2>3, <3>1, <3>2, <3>3
         DEF Clear, Good, Exclusive, Backed, Previewed, Tracked, NoDeletion, Editing
  <2> QED
    BY <2>4, <2>5, <2>6
<1> QED
  BY <1>1, <1>2, <1>3

-----------------------------------------------------------------------------
(* Answers.                                                                 *)

LEMMA FileConns ==
  \A f \in Files \cup {<<>>} : Conns(f) /\ AllKeyed(f)
<1>1. DOMAIN <<>> = {}
  OBVIOUS
<1> QED
  BY <1>1, SessionAssumption DEF Conns, AllKeyed, Unkeyed

\* The session and its preview are of a draft, which a reload does not touch.
LEMMA AnswerHandlers ==
  ASSUME NEW s, Good(s)
  PROVE  /\ \A f \in Files \cup {<<>>} : Good(ReloadFromConfig(s, f))
         /\ Good(UpdatePeers(s)) /\ Good(DaemonConnectivityChanged(s, FALSE))
<1>1. ASSUME NEW f \in Files \cup {<<>>} PROVE Good(ReloadFromConfig(s, f))
  BY <1>1, FileConns DEF Good, IsAppState, Conns, Exclusive, Backed, Previewed, Tracked,
     NoDeletion, Editing, ReloadFromConfig
<1>2. Good(UpdatePeers(s))
  BY DEF Good, IsAppState, Conns, Exclusive, Backed, Previewed, Tracked, NoDeletion, Editing,
         UpdatePeers
<1>3. Good(DaemonConnectivityChanged(s, FALSE))
  BY DEF Good, IsAppState, Conns, Exclusive, Backed, Previewed, Tracked, NoDeletion, Editing,
         DaemonConnectivityChanged
<1> QED
  BY <1>1, <1>2, <1>3

LEMMA MessageParts ==
  ASSUME NEW m \in Messages
  PROVE  /\ m.kind \in {"status", "unreachable", "toast", "reload"}
         /\ m.slot \in Slots \cup {0} /\ m.conns \in Files \cup {<<>>}
  BY DEF Messages, Message

LEMMA HandleGood ==
  ASSUME Good(app), tasks \in [Slots -> Task], inbox \in Seq(Messages), Handle
  PROVE  Good(app') /\ tasks' \in [Slots -> Task] /\ inbox' \in Seq(Messages)
<1>1. PICK m : m = Head(inbox)
  OBVIOUS
<1>2. m \in Messages /\ inbox' \in Seq(Messages)
  BY <1>1 DEF Handle
<1>3. Good(app')
  <2>1. app' = CASE m.kind = "status" -> UpdatePeers(app)
                 [] m.kind = "unreachable" -> DaemonConnectivityChanged(app, FALSE)
                 [] m.kind = "reload" -> ReloadFromConfig(app, m.conns)
                 [] OTHER -> app
    BY <1>1 DEF Handle
  <2> QED
    BY <1>2, <2>1, MessageParts, AnswerHandlers
<1>4. tasks' \in [Slots -> Task]
  BY <1>1, <1>2, MessageParts DEF Handle, Task
<1> QED
  BY <1>2, <1>3, <1>4

LEMMA AnswersTyped ==
  ASSUME NEW t \in Slots, NEW m \in Answers(t)
  PROVE  m \in Messages
  BY DEF Answers, FileAnswers, CommandAnswers, LocalAnswers, CommandMessage, ErrorMessage,
     Messages

-----------------------------------------------------------------------------
(* The step.                                                                *)

Where ==
  /\ tasks \in [Slots -> Task] /\ inbox \in Seq(Messages)
  /\ inFlight \in BOOLEAN /\ polling \in BOOLEAN /\ server \in Server

LEMMA SpawnTyped ==
  ASSUME Where, NEW kind \in Task, Spawn(kind)
  PROVE  Where'
  BY DEF Where, Spawn

LEMMA DispatchTyped ==
  ASSUME Where, NEW s, Good(s), Dispatch(s)
  PROVE  Good(app') /\ Where'
  BY DEF Where, Dispatch

LEMMA RoutedClear == NoOverlay => Clear(app)
  BY DEF NoOverlay, NoPreview, Clear

\* The keys of the overlays, in the order in which they are asked.
LEMMA OverlayKeys ==
  ASSUME Good(app), Where, HelpKey \/ FilterKey \/ DiffKey \/ SaveKey \/ YesKey \/ NoKey
  PROVE  Good(app') /\ Where'
<1>1. CASE HelpKey
  BY <1>1, OverlayHandlers, DispatchTyped DEF HelpKey
<1>2. CASE FilterKey
  BY <1>2, OverlayHandlers, DispatchTyped DEF FilterKey
<1>3. CASE DiffKey
  BY <1>3, PreviewHandlers, QuitHandler, DispatchTyped DEF DiffKey, AtDiff
<1>4. CASE SaveKey
  BY <1>4, PreviewHandlers, SpawnTyped DEF SaveKey, AtDiff, Task
<1>5. CASE YesKey
  BY <1>5, YesHandler, SpawnTyped DEF YesKey, Task
<1>6. CASE NoKey
  BY <1>6, OverlayHandlers, DispatchTyped DEF NoKey
<1> QED
  BY <1>1, <1>2, <1>3, <1>4, <1>5, <1>6

\* The keys of the status bar, and those that work on every tab.
LEMMA GlobalKeys ==
  ASSUME Good(app), Where,
         TextKey \/ SubmitImport \/ SubmitExport \/ QuitKey \/ TabKey \/ GlobalKey \/ Click
  PROVE  Good(app') /\ Where'
<1>1. NoOverlay
  BY DEF TextKey, SubmitImport, SubmitExport, QuitKey, TabKey, GlobalKey, Click, AtStatusBar, AtTabs
<1>2. Clear(app) /\ app.diff = NoDiff
  BY <1>1, RoutedClear DEF Clear
<1>3. CASE TextKey
  BY <1>2, <1>3, ModeHandlers, DispatchTyped DEF TextKey
<1>4. CASE SubmitImport \/ SubmitExport
  BY <1>2, <1>4, ModeHandlers, SpawnTyped DEF SubmitImport, SubmitExport, Task
<1>5. CASE QuitKey
  BY <1>5, QuitHandler, DispatchTyped DEF QuitKey
<1>6. CASE TabKey
  BY <1>2, <1>6, TabHandler, StepHandler, DispatchTyped DEF TabKey
<1>7. CASE GlobalKey
  BY <1>2, <1>7, ModeHandlers, OpenOverlays, DispatchTyped DEF GlobalKey
<1>8. CASE Click
  BY <1>2, <1>8, TabHandler, DispatchTyped DEF Click
<1> QED
  BY <1>3, <1>4, <1>5, <1>6, <1>7, <1>8

LEMMA TabKeys ==
  ASSUME Good(app), Where, OverviewKey \/ StatusKey \/ CompareKey \/ ConfigKey
  PROVE  Good(app') /\ Where'
<1>1. NoOverlay
  BY DEF OverviewKey, StatusKey, CompareKey, ConfigKey, AtTabs
<1>2. Clear(app) /\ app.diff = NoDiff
  BY <1>1, RoutedClear DEF Clear
<1>3. ASSUME NEW kind \in Task, Spawn(kind), UNCHANGED app PROVE Good(app') /\ Where'
  BY <1>3, SpawnTyped
<1>4. CASE OverviewKey
  <2>1. "Status" \in Range(Tabs)
    <3>1. 2 \in DOMAIN Tabs /\ Tabs[2] = "Status"
      BY DEF Tabs
    <3> QED
      BY <3>1 DEF Range
  <2> QED
    BY <1>2, <1>3, <1>4, <2>1, OpenOverlays, TabHandler, DispatchTyped DEF OverviewKey, Task
<1>5. CASE StatusKey
  BY <1>2, <1>3, <1>5, OpenOverlays, DispatchTyped DEF StatusKey, Task
<1>6. CASE CompareKey
  BY <1>2, <1>3, <1>6, ModeHandlers, DispatchTyped DEF CompareKey, SpawnSwitchBackend, Task
<1>7. CASE ConfigKey
  BY <1>2, <1>7, EnterHandler, AddHandler, PreviewHandler, DispatchTyped DEF ConfigKey
<1> QED
  BY <1>4, <1>5, <1>6, <1>7

LEMMA StepGood == IInv /\ [Next]_vars => IInv'
<1> SUFFICES ASSUME Good(app), Where, [Next]_vars
             PROVE  Good(app') /\ Where'
  BY DEF IInv, Where
<1>1. CASE UNCHANGED vars
  BY <1>1 DEF vars, Where
<1>2. CASE Tick
  BY <1>2 DEF Tick, Where
<1>3. CASE PollEnd
  <2>1. PollMessage \in Messages
    <3>1. \E kind \in {"status", "unreachable", "toast"} : PollMessage = Message(kind, 0, <<>>)
      BY DEF PollMessage, ErrorMessage
    <3> QED
      BY <3>1 DEF Messages
  <2>2. /\ UNCHANGED <<app, tasks, server>> /\ polling' = FALSE /\ inFlight' = FALSE
        /\ UNCHANGED inbox \/ inbox' = Append(inbox, PollMessage)
    BY <1>3 DEF PollEnd, Polled
  <2>3. inbox' \in Seq(Messages)
    BY <2>1, <2>2 DEF Where
  <2> QED
    BY <2>2, <2>3 DEF Where
<1>4. CASE Handle
  BY <1>4, HandleGood DEF Where, Handle
<1>5. ASSUME NEW t \in Slots, TaskEnd(t) PROVE Good(app') /\ Where'
  <2>1. UNCHANGED inbox \/ \E m \in Messages : inbox' = Append(inbox, m)
    BY <1>5, AnswersTyped DEF TaskEnd
  <2>2. /\ UNCHANGED <<app, inFlight, polling, server>>
        /\ \E next \in {"sent", "none"} : tasks' = [tasks EXCEPT ![t] = next]
    BY <1>5 DEF TaskEnd
  <2>3. inbox' \in Seq(Messages)
    BY <2>1 DEF Where
  <2> QED
    BY <2>2, <2>3 DEF Where, Task
<1>6. CASE ServerChanges
  BY <1>6 DEF ServerChanges, Where
<1> QED
  BY <1>1, <1>2, <1>3, <1>4, <1>5, <1>6, OverlayKeys, GlobalKeys, TabKeys DEF Next, Key

LEMMA InitGood == Init => IInv
<1> SUFFICES ASSUME NEW f \in Files, app = New(f), tasks = [t \in Slots |-> "none"],
                    inFlight = FALSE, polling = FALSE, inbox = <<>>, server \in Server
             PROVE  IInv
  BY DEF Init
<1>1. "Overview" \in Range(Tabs)
  <2>1. 1 \in DOMAIN Tabs /\ Tabs[1] = "Overview"
    BY DEF Tabs
  <2> QED
    BY <2>1 DEF Range
<1>2. Conns(f) /\ AllKeyed(f)
  BY FileConns
<1>3. IsAppState(app)
  BY <1>1, <1>2 DEF IsAppState, Conns, New, Modes
<1>4. Good(app)
  BY <1>2, <1>3, NoneIsNone
     DEF Good, New, Exclusive, Backed, Previewed, Tracked, NoDeletion, Editing
<1>5. tasks \in [Slots -> Task] /\ inFlight \in BOOLEAN /\ polling \in BOOLEAN
  BY DEF Task
<1>6. inbox \in Seq(Messages)
  OBVIOUS
<1> QED
  BY <1>4, <1>5, <1>6 DEF IInv

LEMMA Invariant == Spec => []IInv
  BY InitGood, StepGood, PTL DEF Spec

\* The state is typed, what is visible is known, at most one overlay is open and an edit mode
\* has its field, through every key, click and reload (handle_key_event, handle_mouse_event,
\* reload_from_config).
THEOREM SessionConsistent == Spec => []Consistent
<1>1. IInv => TypeOK
  <2> SUFFICES ASSUME IInv PROVE TypeOK
    OBVIOUS
  <2>1. \A i \in DOMAIN inbox : inbox[i] \in Messages
    BY DEF IInv
  <2> QED
    BY <2>1, MessageParts, FileConns DEF IInv, Good, TypeOK
<1>2. IInv => VisibleKnown /\ EditFieldBacked
  BY DEF IInv, Good, Backed, VisibleKnown, EditFieldBacked
<1>3. IInv => OneOverlay
  <2> SUFFICES ASSUME Exclusive(app) PROVE OneOverlay
    BY DEF IInv, Good
  <2>1. PICK O : O = {o \in {"help", "filter", "diff", "confirm"} :
                        \/ o = "help" /\ app.help
                        \/ o = "filter" /\ app.filter
                        \/ o = "diff" /\ app.diff # NoDiff
                        \/ o = "confirm" /\ app.confirm # NoConfirm}
    OBVIOUS
  <2>2. \A o, p \in O : o = p
    BY <2>1 DEF Exclusive
  <2>3. O = {} \/ \E o : O = {o}
    BY <2>2
  <2>4. Cardinality(O) \in {0, 1}
    BY <2>3, FS_EmptySet, FS_Singleton
  <2> QED
    BY <2>1, <2>4 DEF OneOverlay
<1> QED
  BY <1>1, <1>2, <1>3, Invariant, PTL DEF Consistent

\* What a save would write is the draft as the session has it, with every key set, whatever
\* was reloaded, added or opened before (PreviewConfig, SaveConfig).
THEOREM PreviewFaithful == Spec => []DiffIsDraft
<1>1. IInv => DiffIsDraft
  BY DEF IInv, Good, Previewed, Unkeyed, DiffIsDraft
<1> QED
  BY <1>1, Invariant, PTL

=============================================================================
