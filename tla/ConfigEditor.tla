---------------------------- MODULE ConfigEditor ----------------------------
(***************************************************************************)
(* The edit session of the Config tab as AppState offers it: every         *)
(* config-editing Action of action.rs in any order, with the diff preview  *)
(* and the confirmation dialog modal, as handle_key_event has them.  Which *)
(* of these actions a key can produce today is TuiSession's subject.       *)
(*                                                                         *)
(* Operators whose comment starts with "Variant" are not part of the       *)
(* specification, see TunnelManager.                                       *)
(***************************************************************************)
EXTENDS AppState

CONSTANTS
  Files,     \* what a reload may bring: functions from connections to configs
  MaxPeers,  \* bound on the peers of a draft
  MaxScroll  \* bound on scrolling

ASSUME EditorAssumption ==
  /\ \A f \in Files : Conns(f)
  /\ MaxPeers \in Nat /\ MaxScroll \in Nat
  /\ \A f \in Files : \A n \in DOMAIN f : \A i \in DOMAIN f[n].peers : f[n].peers[i].key = "set"

VARIABLE app

TypeOK == IsAppState(app)

\* The Config tab is on the screen and no overlay is.
Open == app.tab = "Config" /\ app.diff = NoDiff /\ app.confirm = NoConfirm

Init == \E f \in Files : app = [New(f) EXCEPT !.tab = "Config"]

-----------------------------------------------------------------------------

Enter ==
  /\ Open /\ app.visible # {}
  /\ \E section \in 0 .. Len(app.conns[Min(app.visible)].peers) :
       \E i \in DOMAIN Fields(section, FALSE) : app' = EnterConfigEdit(app, section, i)

Type == Open /\ \E text \in Text : app' = EditText(app, text)
PressEnter == Open /\ app' = EditEnter(app)
PressEsc == Open /\ app' = EditEsc(app)

Focus ==
  /\ Open /\ Editing(app)
  /\ \/ app' = ConfigFocusNext(app)
     \/ app' = ConfigFocusPrev(app)
     \/ \E section \in 0 .. Len(app.edit.draft.peers) : app' = ConfigFocus(app, section)

AddPeer ==
  /\ Open
  /\ Editing(app) => Len(app.edit.draft.peers) < MaxPeers
  /\ app' = AddConfigPeer(app)

\* `x` on a peer row asks first.
AskDelete ==
  /\ Open /\ app.visible # {}
  /\ \E i \in DOMAIN app.conns[Min(app.visible)].peers : app' = RequestConfirm(app, "DeletePeer", i)

\* handle_key_event dispatches ConfirmYes and then confirmed_action.
Delete ==
  /\ app.confirm # NoConfirm
  /\ app' = DeleteConfigPeer(ConfirmYes(app), app.confirm.peer)

KeepPeer == app.confirm # NoConfirm /\ app' = ConfirmNo(app)

Preview == Open /\ app' = PreviewConfig(app)

Scroll ==
  /\ app.diff # NoDiff
  /\ \/ app.diff.scroll < MaxScroll /\ app' = ConfigDiffScrollDown(app)
     \/ app' = ConfigDiffScrollUp(app)

Save == app.diff # NoDiff /\ app' = SaveConfig(app)
Discard == (Open \/ app.diff # NoDiff) /\ app' = DiscardConfigEdits(app)
Leave == Open /\ app' = StepTab(app, 1)
Return == app.tab # "Config" /\ app' = SelectTab(app, "Config")
Reload == \E f \in Files : app' = ReloadFromConfig(app, f)

Next ==
  \/ Enter \/ Type \/ PressEnter \/ PressEsc \/ Focus \/ AddPeer \/ AskDelete \/ Delete
  \/ KeepPeer \/ Preview \/ Scroll \/ Save \/ Discard \/ Leave \/ Return \/ Reload

Spec == Init /\ [][Next]_app

-----------------------------------------------------------------------------
(* Properties                                                               *)

Placeholders(draft) == {i \in DOMAIN draft.peers : draft.peers[i].key = "placeholder"}

\* The indices in new_peer_indices are those of the peers without a key,
\* through additions, deletions in front of them and confirmed keys.
PlaceholdersTracked == Editing(app) => app.edit.new = Placeholders(app.edit.draft)

\* A diff that can be saved holds no peer whose key was never entered.
NothingUnkeyedSaved == app.diff # NoDiff => Placeholders(app.diff.draft) = {}

\* Focus is on a peer of the draft and on a field that section has, so that
\* Enter never falls back to the listen port.
FocusValid ==
  Editing(app) =>
    /\ app.edit.section \in 0 .. Len(app.edit.draft.peers)
    /\ app.edit.field \in DOMAIN Fields(app.edit.section, app.edit.section \in app.edit.new)
=============================================================================
