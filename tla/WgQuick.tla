------------------------------ MODULE WgQuick -------------------------------
(***************************************************************************)
(* Reading and writing of wg-quick files (ferro-wg-core/src/config/        *)
(* wg_quick.rs) and the validation of a configuration (config/mod.rs).     *)
(*                                                                         *)
(* A text is a sequence of lines.  A value is the sequence of its trimmed  *)
(* comma-separated tokens, an empty one is "".  Every field of a section   *)
(* holds values in this form: a single one, or those of all its lines.     *)
(* Upper and lower case, blanks and the text of errors are left out.       *)
(*                                                                         *)
(* A name is the file stem it was made from, or the stem and an index, or  *)
(* <<>> when there is none; StemLength and CleanStem say of a stem what    *)
(* validate_name asks.                                                     *)
(*                                                                         *)
(* Operators whose comment starts with "Variant" are not part of the       *)
(* specification, see TunnelManager.                                       *)
(***************************************************************************)
EXTENDS Integers, Sequences, SequencesExt, Selection

CONSTANTS
  Ip, Base64, U16, U32,       \* tokens that parse as an address, a key, a number
  CleanStem, StemLength,      \* the stems of allowed characters; stem -> characters
  MaxNameLen                  \* MAX_NAME_LEN (64)

ASSUME WgQuickAssumption ==
  /\ U16 \subseteq U32 /\ "0" \in U16 /\ CleanStem \subseteq DOMAIN StemLength
  /\ StemLength \in [DOMAIN StemLength -> Nat]

-----------------------------------------------------------------------------
(* Lines and fields                                                         *)

\* Section headers, and blank lines and comments.
InterfaceHeader == [is |-> "interface"]
PeerHeader == [is |-> "peer"]
Comment == [is |-> "comment"]
\* Key = Value; a line without "=" has the key "".
Line(key, value) == [is |-> "line", key |-> key, value |-> value]
TextLine ==
  {InterfaceHeader, PeerHeader, Comment} \cup [is : {"line"}, key : STRING, value : Seq(STRING)]

\* How the values of a key are read: "all" appends the tokens, "line" the value.
InterfaceKeys ==
  [PrivateKey |-> "base64", ListenPort |-> "u16", Address |-> "all", DNS |-> "dns",
   MTU |-> "u16", FwMark |-> "u32",
   PreUp |-> "line", PostUp |-> "line", PreDown |-> "line", PostDown |-> "line"]
PeerKeys ==
  [PublicKey |-> "base64", PresharedKey |-> "base64", Endpoint |-> "text",
   AllowedIPs |-> "all", PersistentKeepalive |-> "u16"]

\* The builders' defaults; a number is 0.
Unset(kind) == IF kind \in {"u16", "u32"} THEN <<"0">> ELSE <<>>
InterfaceBuilder ==
  [k \in DOMAIN InterfaceKeys \cup {"search"} |->
     IF k = "search" THEN <<>> ELSE Unset(InterfaceKeys[k])]
PeerBuilder ==
  [k \in DOMAIN PeerKeys \cup {"name"} |-> IF k = "name" THEN <<>> ELSE Unset(PeerKeys[k])]

\* Does the value parse.
Admits(kind, value) ==
  CASE kind = "base64" -> value \in [{1} -> Base64]
    [] kind = "u16" -> value \in [{1} -> U16]
    [] kind = "u32" -> value \in [{1} -> U32]
    [] OTHER -> TRUE

Ips(tokens) == Picked(tokens, {i \in DOMAIN tokens : tokens[i] \in Ip})
Domains(tokens) == Picked(tokens, {i \in DOMAIN tokens : tokens[i] \notin Ip \cup {""}})

\* One key of parse_interface_kv or parse_peer_kv.
Assign(builder, key, kind, value) ==
  CASE kind = "all" -> [builder EXCEPT ![key] = @ \o value]
    [] kind = "line" -> [builder EXCEPT ![key] = Append(@, value)]
    [] kind = "dns" -> [builder EXCEPT !.DNS = @ \o Ips(value), !.search = @ \o Domains(value)]
    [] OTHER -> [builder EXCEPT ![key] = value]

-----------------------------------------------------------------------------
(* validate                                                                 *)

\* An index is a hyphen and one digit: no file here has ten peers.
ValidName(name) ==
  /\ name[1] \in CleanStem
  /\ StemLength[name[1]] \in 1 .. MaxNameLen - 2 * (Len(name) - 1)

\* WgConfig::validate
ValidConn(conn) ==
  /\ conn.peers # <<>>
  /\ \A i \in DOMAIN conn.peers :
       /\ conn.peers[i].name = <<>> \/ ValidName(conn.peers[i].name)
       /\ conn.peers[i].AllowedIPs # <<>>

NoConnections == <<>>

\* AppConfig::validate
ValidApp(cfg) ==
  /\ cfg # NoConnections
  /\ \A name \in DOMAIN cfg : ValidName(<<name>>) /\ ValidConn(cfg[name])

-----------------------------------------------------------------------------
(* load_from_str                                                            *)

Start == [section |-> "none", iface |-> InterfaceBuilder, peers |-> <<>>, ok |-> TRUE]
Failed(s) == [s EXCEPT !.ok = FALSE]

KeyValue(s, key, value) ==
  LET kinds == IF s.section = "interface" THEN InterfaceKeys ELSE PeerKeys
  IN  IF s.section = "none" \/ key \notin DOMAIN kinds THEN Failed(s)
      ELSE IF ~Admits(kinds[key], value) THEN Failed(s)
      ELSE IF s.section = "interface"
      THEN [s EXCEPT !.iface = Assign(@, key, kinds[key], value)]
      ELSE [s EXCEPT !.peers[Len(s.peers)] = Assign(@, key, kinds[key], value)]

\* Variant: a second [Interface] starts over, as a second [Peer] does.
ReadLineAnew(s, line) ==
  CASE ~s.ok \/ line.is = "comment" -> s
    [] s.ok /\ line.is = "interface" -> [s EXCEPT !.section = "interface", !.iface = InterfaceBuilder]
    [] s.ok /\ line.is = "peer" -> [s EXCEPT !.section = "peer", !.peers = Append(@, PeerBuilder)]
    [] OTHER -> KeyValue(s, line.key, line.value)

\* The first error ends the loop.
ReadLine(s, line) ==
  CASE ~s.ok \/ line.is = "comment" -> s
    [] s.ok /\ line.is = "interface" -> [s EXCEPT !.section = "interface"]
    [] s.ok /\ line.is = "peer" -> [s EXCEPT !.section = "peer", !.peers = Append(@, PeerBuilder)]
    [] OTHER -> KeyValue(s, line.key, line.value)

\* InterfaceBuilder::build and PeerBuilder::build
Built(s) ==
  s.iface.PrivateKey # <<>> /\ \A i \in DOMAIN s.peers : s.peers[i].PublicKey # <<>>

\* Variant: what was read is not validated.
ParsedUnchecked(s) ==
  IF s.ok /\ Built(s) THEN {[iface |-> s.iface, peers |-> s.peers]} ELSE {}

\* The configuration after the last line; no member stands for an error.
Parsed(s) ==
  LET conn == [iface |-> s.iface, peers |-> s.peers]
  IN  IF s.ok /\ Built(s) /\ ValidConn(conn) THEN {conn} ELSE {}

ReadLines(s, lines) ==
  LET after[n \in 0 .. Len(lines)] == IF n = 0 THEN s ELSE ReadLine(after[n - 1], lines[n])
  IN  after[Len(lines)]

LoadFromStr(text) == Parsed(ReadLines(Start, text))

-----------------------------------------------------------------------------
(* export_to_string, in the order of its statements, which has no FwMark    *)

InterfaceOrder ==
  <<"PrivateKey", "ListenPort", "Address", "DNS", "MTU", "PreUp", "PostUp", "PreDown", "PostDown">>
PeerOrder ==
  <<"PublicKey", "PresharedKey", "Endpoint", "AllowedIPs", "PersistentKeepalive">>

\* One line for a value, none for an unset one.
OneLine(key, kind, value) == IF value = Unset(kind) THEN <<>> ELSE <<Line(key, value)>>

ExportDns(iface) == OneLine("DNS", "dns", iface.DNS \o iface.search)

ExportInterfaceKey(iface, key) ==
  CASE key = "DNS" -> ExportDns(iface)
    [] key = "Address" -> [i \in DOMAIN iface.Address |-> Line("Address", <<iface.Address[i]>>)]
    [] InterfaceKeys[key] = "line" -> [i \in DOMAIN iface[key] |-> Line(key, iface[key][i])]
    [] OTHER -> OneLine(key, InterfaceKeys[key], iface[key])

\* The name goes out as a comment.
ExportPeer(peer) ==
  <<PeerHeader>> \o (IF peer.name = <<>> THEN <<>> ELSE <<Comment>>)
    \o FlattenSeq([i \in DOMAIN PeerOrder |->
                     OneLine(PeerOrder[i], PeerKeys[PeerOrder[i]], peer[PeerOrder[i]])])

ExportToString(conn) ==
  <<InterfaceHeader>>
    \o FlattenSeq([i \in DOMAIN InterfaceOrder |->
                     ExportInterfaceKey(conn.iface, InterfaceOrder[i])])
    \o FlattenSeq([i \in DOMAIN conn.peers |-> ExportPeer(conn.peers[i])])
=============================================================================
