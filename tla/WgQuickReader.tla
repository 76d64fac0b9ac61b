--------------------------- MODULE WgQuickReader ----------------------------
(***************************************************************************)
(* The loop of load_from_str over the lines of a wg-quick file, against    *)
(* what the file says.                                                     *)
(***************************************************************************)
EXTENDS WgQuick, FiniteSets

CONSTANTS
  Pieces,    \* the lines, or groups of lines, that texts are made of
  MaxPieces  \* bound of the model: pieces of a text

ASSUME ReaderAssumption == MaxPieces \in Nat /\ Pieces \subseteq Seq(TextLine)

VARIABLES
  text,    \* the pieces that have been read
  parsed   \* section, iface and peers

readerVars == <<text, parsed>>

ReaderInit == text = <<>> /\ parsed = Start

ReadNext(piece) ==
  /\ Len(text) < MaxPieces /\ text' = Append(text, piece)
  /\ parsed' = ReadLines(parsed, piece)

NextFile == text # <<>> /\ text' = <<>> /\ parsed' = Start

ReaderNext == NextFile \/ \E piece \in Pieces : ReadNext(piece)

ReaderSpec == ReaderInit /\ [][ReaderNext]_readerVars

-----------------------------------------------------------------------------
(* Properties                                                               *)

\* The [Peer] that line i belongs to, 0 for [Interface], -1 before any header.
SectionOf(lines, i) ==
  LET headers == {j \in 1 .. i - 1 : lines[j].is \in {"interface", "peer"}}
      last == {j \in headers : \A k \in headers : k <= j}
  IN  IF last = {} THEN -1
      ELSE IF \E j \in last : lines[j].is = "interface" THEN 0
      ELSE Cardinality({j \in headers : lines[j].is = "peer"})

\* The values that a section's lines give a key, from top to bottom.
Given(lines, section, key) ==
  LET of == Picked(lines, {i \in DOMAIN lines :
                             /\ lines[i].is = "line" /\ lines[i].key = key
                             /\ SectionOf(lines, i) = section})
  IN  [n \in DOMAIN of |-> of[n].value]

Means(given, kind) ==
  CASE kind = "all" -> FlattenSeq(given)
    [] kind = "line" -> given
    [] kind = "dns" -> Ips(FlattenSeq(given))
    [] OTHER -> IF given = <<>> THEN Unset(kind) ELSE Last(given)

\* What load_from_str returns is what the file says: a setting has the value of its
\* last line, a list the tokens of all its lines, and a line belongs to the last
\* section header above it, wherever in the file that is.
ParsedAsWritten ==
  \A conn \in Parsed(parsed) :
    LET lines == FlattenSeq(text) IN
    /\ Len(conn.peers) = Cardinality({i \in DOMAIN lines : lines[i].is = "peer"})
    /\ conn.iface.search = Domains(FlattenSeq(Given(lines, 0, "DNS")))
    /\ \A key \in DOMAIN InterfaceKeys :
         conn.iface[key] = Means(Given(lines, 0, key), InterfaceKeys[key])
    /\ \A i \in DOMAIN conn.peers, key \in DOMAIN PeerKeys :
         conn.peers[i][key] = Means(Given(lines, i, key), PeerKeys[key])

\* A configuration that is exported and imported again is the same, but for the
\* firewall mark (and the names of peers, which no file gives).
ExportedIsImported ==
  \A conn \in Parsed(parsed) :
    LoadFromStr(ExportToString(conn)) = {[conn EXCEPT !.iface.FwMark = <<"0">>]}

\* A wg-quick file says the same before and after: to the parser what it says to a
\* reader, and after an export and an import what it said before.
FileFaithful == ParsedAsWritten /\ ExportedIsImported
=============================================================================
