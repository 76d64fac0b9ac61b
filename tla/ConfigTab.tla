------------------------------ MODULE ConfigTab ------------------------------
(***************************************************************************)
(* The form of the Config tab (ferro-wg-tui-components/src/config.rs): it  *)
(* shows the config of the first visible connection, with a focus of its   *)
(* own, while what is edited, and the buffer, are AppState's.  The form is *)
(* driven by the keys of the event loop; none of them reaches a peer, and  *)
(* none types into a buffer, see TuiSession.                               *)
(*                                                                         *)
(* A config is its name, the values of its interface fields and those of   *)
(* its peers; the draft is ConfigEditor's.                                 *)
(*                                                                         *)
(* Operators whose comment starts with "Variant" are not part of the       *)
(* specification, see TunnelManager.                                       *)
(***************************************************************************)
EXTENDS Integers, Sequences

CONSTANTS
  Configs,     \* [name, iface, peers]: what a load of the file may show first
  InterfaceFields, \* how many there are (10)
  FormPeers    \* bound of the model: peers that are added

ASSUME FormAssumption ==
  /\ InterfaceFields \in Nat \ {0} /\ FormPeers \in Nat
  /\ \A c \in Configs : Len(c.iface) = InterfaceFields /\ Len(c.peers) \in Nat

VARIABLES
  viewed,  \* sequence with the first visible connection, if there is one
  focus,   \* focused_section and focused_field_idx of the component
  mode,    \* input_mode: Normal, EditField, or the text of the status bar
  onTab,   \* is the Config tab active
  session, \* config_edit
  since    \* history: has the config been loaded since the session's buffer was opened

formVars == <<viewed, focus, mode, onTab, session, since>>

\* Section 0 is the interface; fields count from 1.
Place(section, field) == [section |-> section, field |-> field]
NoSession == [name |-> "none", at |-> Place(0, 1), buffer |-> <<>>, peers |-> 0, new |-> 0]
Closed == <<>>            \* edit_buffer: None, or a text
Opened(text) == <<text>>

\* get_field_display: the keepalive, a peer's last field, is not shown when it is 0.
Display(config, at) ==
  IF at.section = 0 THEN config.iface[at.field]
  ELSE LET values == config.peers[at.section]
       IN  IF at.field = Len(values) /\ values[at.field] = "0" THEN "" ELSE values[at.field]

-----------------------------------------------------------------------------
(* Drawing                                                                  *)

\* render_section_fields: the buffer is shown where the component has its focus.
LineOf(config, at) ==
  LET editing == session # NoSession /\ session.at.section = at.section
                   /\ focus = at /\ session.buffer # Closed
  IN  [at |-> at, focused |-> focus = at, editing |-> editing,
       text |-> IF editing THEN session.buffer[1] ELSE Display(config, at)]

Section(config, i) ==
  {LineOf(config, Place(i, f)) :
     f \in 1 .. IF i = 0 THEN InterfaceFields ELSE Len(config.peers[i])}

\* render: the interface, then the peers that the file has, each line in its place.
FormLines ==
  IF viewed = <<>> THEN {}
  ELSE UNION {Section(viewed[1], i) : i \in 0 .. Len(viewed[1].peers)}

-----------------------------------------------------------------------------
(* Keys                                                                     *)

\* Variant: `j` and `k` work in every mode.
FormKeyAnyMode == onTab /\ viewed # <<>>

\* The checks at the head of handle_key.
FormKey == onTab /\ viewed # <<>> /\ mode = "Normal"

\* focus_next and focus_prev, which wrap.
FocusKey ==
  /\ FormKey
  /\ \E by \in {1, -1} : focus' = [focus EXCEPT !.field = ((@ - 1 + by) % InterfaceFields) + 1]
  /\ UNCHANGED <<viewed, mode, onTab, session, since>>

\* can_edit_current_field: all of the interface, a peer's public key not.
CanEdit == focus.section = 0 /\ focus.field <= InterfaceFields

\* EnterConfigEdit starts a new session.
EditKey ==
  /\ FormKey /\ CanEdit /\ mode' = "EditField" /\ since' = FALSE
  /\ session' = [name |-> viewed[1].name, at |-> focus,
                 buffer |-> Opened(Display(viewed[1], focus)),
                 peers |-> Len(viewed[1].peers), new |-> 0]
  /\ UNCHANGED <<viewed, focus, onTab>>

\* AddConfigPeer: the session moves to a peer that the form has no lines for.
AddKey ==
  /\ FormKey
  /\ IF session = NoSession THEN UNCHANGED <<mode, session>>
     ELSE /\ session.new < FormPeers /\ mode' = "EditField"
          /\ session' = [session EXCEPT !.at = Place(session.peers + 1, 1), !.buffer = Opened(""),
                                        !.peers = @ + 1, !.new = @ + 1]
  /\ UNCHANGED <<viewed, focus, onTab, since>>

\* A preview, refused while a new peer has no key, ends in a save or a discard.
PreviewKey ==
  /\ FormKey /\ session # NoSession /\ session.new = 0
  /\ session' = NoSession /\ UNCHANGED <<viewed, focus, mode, onTab, since>>

\* A key or a click on the tabs: handle_tab_actions.
TabAction ==
  /\ mode \in {"Normal", "EditField"} /\ onTab' \in BOOLEAN /\ mode' = "Normal"
  /\ session' = IF mode = "EditField" /\ session # NoSession
                THEN [session EXCEPT !.buffer = Closed] ELSE session
  /\ UNCHANGED <<viewed, focus, since>>

\* `/` and `i` are global keys, and leave the buffer open.
EnterTextMode ==
  /\ mode \in {"Normal", "EditField"} /\ mode' = "Text"
  /\ UNCHANGED <<viewed, focus, onTab, session, since>>

LeaveTextMode ==
  /\ mode = "Text" /\ mode' = "Normal"
  /\ UNCHANGED <<viewed, focus, onTab, session, since>>

\* An import, a save, or the filter on another tab: the form shows another config.
ShowOther ==
  /\ viewed' \in {<<>>} \cup {<<c>> : c \in Configs} /\ since' = TRUE
  /\ UNCHANGED <<focus, mode, onTab, session>>

FormInit ==
  /\ viewed \in {<<>>} \cup {<<c>> : c \in Configs}
  /\ focus = Place(0, 1) /\ mode = "Normal" /\ onTab = FALSE
  /\ session = NoSession /\ since = FALSE

FormNext ==
  \/ FocusKey \/ EditKey \/ AddKey \/ PreviewKey \/ TabAction
  \/ EnterTextMode \/ LeaveTextMode \/ ShowOther

FormSpec == FormInit /\ [][FormNext]_formVars

-----------------------------------------------------------------------------
(* Properties                                                               *)

\* While a field is edited the form marks one line, the one that Enter would write to,
\* with the text of the buffer, although the component and AppState keep a focus each.
\* Two cases are left, and both are real: a new peer has no line, and a config that is
\* loaded meanwhile is shown with the buffer of the other.
EditedShown ==
  mode = "EditField" /\ ~since /\ session.new = 0 =>
    /\ viewed # <<>> /\ session.name = viewed[1].name
    /\ {l \in FormLines : l.editing} =
         {[at |-> session.at, focused |-> TRUE, editing |-> TRUE,
           text |-> Display(viewed[1], session.at)]}
    /\ session.buffer = Opened(Display(viewed[1], session.at))
=============================================================================
