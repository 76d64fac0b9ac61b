------------------------ MODULE ConfigEditor_proofs ------------------------
(***************************************************************************)
(* The edit session never loses track of the peers without a key, never    *)
(* offers one to be saved, and never loses its focus, for every set of     *)
(* files and connections and drafts of any length.                         *)
(*                                                                         *)
(* Each handler of AppState is a function of the state, so there is one    *)
(* lemma per handler: it maps a Good state to a Good state.                *)
(***************************************************************************)
EXTENDS ConfigEditor, SequenceTheorems, WellFoundedInduction, TLAPS

FocusOK(e) ==
  /\ e.section \in 0 .. Len(e.draft.peers)
  /\ e.field \in DOMAIN Fields(e.section, e.section \in e.new)

EditOK(e) == e # NoEdit => e.new = Placeholders(e.draft) /\ FocusOK(e)

\* The strengthening: a draft starts from a connection, all of whose keys are set.
Keyed(conns) == \A n \in DOMAIN conns : Placeholders(conns[n]) = {}

Good(s) ==
  /\ IsAppState(s) /\ EditOK(s.edit) /\ Keyed(s.conns) /\ s.visible \subseteq DOMAIN s.conns
  /\ s.diff # NoDiff => Placeholders(s.diff.draft) = {}

IInv == Good(app)

-----------------------------------------------------------------------------
(* Operators                                                                *)

LEMMA LeastNumber ==
  ASSUME NEW S, S \subseteq Nat, S # {}
  PROVE  \E n \in S : \A m \in S : n <= m
<1>1. PICK n \in S : \A m \in S : <<m, n>> \notin OpToRel(<, Nat)
  BY NatLessThanWellFounded, WFMin
<1>2. ASSUME NEW m \in S  PROVE ~ (m < n)
  <2>1. m < n => <<m, n>> \in OpToRel(<, Nat) BY Zenon DEF OpToRel
  <2> QED BY <2>1, <1>1
<1>3. \A m \in S : n <= m BY <1>2
<1> QED BY <1>3

LEMMA MinIsName ==
  ASSUME NEW S, S \subseteq Names, S # {}
  PROVE  Min(S) \in S
<1>1. \E n \in S : \A m \in S : n <= m BY LeastNumber, AppStateAssumption
<1> QED BY <1>1 DEF Min

LEMMA FieldsDomain ==
  ASSUME NEW section, NEW isNew \in BOOLEAN
  PROVE  /\ DOMAIN Fields(section, isNew) =
              IF section # 0 /\ isNew THEN 1 .. 2 ELSE 1 .. 1
         /\ Len(Fields(section, isNew)) = IF section # 0 /\ isNew THEN 2 ELSE 1
BY DEF Fields

LEMMA RemoveAtProperties ==
  ASSUME NEW S, NEW s \in Seq(S), NEW i \in 1 .. Len(s)
  PROVE  /\ RemoveAt(s, i) \in Seq(S)
         /\ Len(RemoveAt(s, i)) = Len(s) - 1
         /\ \A j \in 1 .. Len(s) - 1 :
              RemoveAt(s, i)[j] = IF j < i THEN s[j] ELSE s[j + 1]
<1> DEFINE a == SubSeq(s, 1, i - 1)
           b == SubSeq(s, i + 1, Len(s))
<1>1. /\ a \in Seq(S) /\ Len(a) = i - 1
      /\ \A j \in 1 .. i - 1 : a[j] = s[j]
  <2>1. \A j \in 1 .. i - 1 : s[j] \in S BY ElementOfSeq
  <2> QED BY <2>1, SubSeqProperties
<1>2. /\ b \in Seq(S) /\ Len(b) = Len(s) - i
      /\ \A j \in 1 .. Len(s) - i : b[j] = s[i + j]
  <2>1. \A j \in i + 1 .. Len(s) : s[j] \in S BY ElementOfSeq
  <2>2. Len(s) \in Nat BY LenProperties
  <2>3. /\ b \in Seq(S) /\ Len(b) = IF i + 1 <= Len(s) THEN Len(s) - (i + 1) + 1 ELSE 0
        /\ \A j \in 1 .. Len(s) - (i + 1) + 1 : b[j] = s[i + 1 + j - 1]
    BY <2>1, <2>2, SubSeqProperties
  <2> QED BY <2>2, <2>3
<1> HIDE DEF a, b
<1>3. /\ a \o b \in Seq(S) /\ Len(a \o b) = Len(s) - 1
      /\ \A j \in 1 .. Len(s) - 1 : (a \o b)[j] = IF j <= i - 1 THEN a[j] ELSE b[j - (i - 1)]
  <2>1. /\ a \o b \in Seq(S) /\ Len(a \o b) = Len(a) + Len(b)
        /\ \A j \in 1 .. Len(a) + Len(b) :
             (a \o b)[j] = IF j <= Len(a) THEN a[j] ELSE b[j - Len(a)]
    BY <1>1, <1>2, ConcatProperties, Zenon
  <2>2. Len(s) \in Nat BY LenProperties
  <2>3. Len(a) = i - 1 /\ Len(a) + Len(b) = Len(s) - 1 BY <2>2, <1>1, <1>2
  <2> QED BY <2>1, <2>3, Zenon
<1>4. RemoveAt(s, i) = a \o b BY DEF RemoveAt, a, b
<1>5. Len(s) \in Nat BY LenProperties
<1>6. ASSUME NEW j \in 1 .. Len(s) - 1
      PROVE  RemoveAt(s, i)[j] = IF j < i THEN s[j] ELSE s[j + 1]
  <2>1. CASE j < i
    BY <2>1, <1>1, <1>3, <1>4, <1>5
  <2>2. CASE j >= i
    <3>1. j - (i - 1) \in 1 .. Len(s) - i BY <2>2, <1>5
    <3>2. b[j - (i - 1)] = s[i + (j - (i - 1))] BY <3>1, <1>2
    <3>3. i + (j - (i - 1)) = j + 1 BY <1>5
    <3> QED BY <3>2, <3>3, <2>2, <1>3, <1>4, <1>5
  <2> QED BY <2>1, <2>2, <1>5
<1> QED BY <1>3, <1>4, <1>6
-----------------------------------------------------------------------------
(* Parts of the state                                                       *)

LEMMA EditNotNone ==
  ASSUME NEW e \in Edit
  PROVE  e # NoEdit
BY AppStateAssumption DEF Edit, NoEdit

LEMMA DraftLen ==
  ASSUME NEW c \in Config
  PROVE  c.peers \in Seq(Peer) /\ Len(c.peers) \in Nat /\ DOMAIN c.peers = 1 .. Len(c.peers)
BY LenProperties DEF Config

\* Handlers that leave drafts, diffs and connections alone.
LEMMA SameParts ==
  ASSUME NEW s, NEW t, Good(s), IsAppState(t),
         t.edit = s.edit, t.diff = s.diff, t.conns = s.conns, t.visible = s.visible
  PROVE  Good(t)
BY DEF Good

\* The three ways in which handlers write the edit session back.
With(s, e) == [s EXCEPT !.edit = e]
Opened(s, e) == [s EXCEPT !.mode = "EditField", !.edit = e]
Closed(s, e) == [s EXCEPT !.mode = "Normal", !.edit = e]

LEMMA NewEdit ==
  ASSUME NEW s, Good(s), NEW e \in Edit, EditOK(e)
  PROVE  Good(With(s, e)) /\ Good(Opened(s, e)) /\ Good(Closed(s, e))
BY DEF Good, IsAppState, Conns, Modes, With, Opened, Closed

LEMMA CloseBufferGood ==
  ASSUME NEW e \in Edit, EditOK(e)
  PROVE  CloseBuffer(e) \in Edit /\ EditOK(CloseBuffer(e))
<1>1. CloseBuffer(e) \in Edit BY DEF CloseBuffer, Edit
<1>2. /\ CloseBuffer(e).new = e.new /\ CloseBuffer(e).draft = e.draft
      /\ CloseBuffer(e).section = e.section /\ CloseBuffer(e).field = e.field
  BY DEF CloseBuffer, Edit
<1> QED BY <1>1, <1>2, EditNotNone DEF EditOK, FocusOK

-----------------------------------------------------------------------------
(* Editing a field                                                          *)

EditableField == {"ListenPort", "PeerPublicKey", "PeerAllowedIps"}

\* The peer that gets its key.
KeyedBy(field, section) == IF field = "PeerPublicKey" THEN {section} ELSE {}

LEMMA ApplyFieldProperties ==
  ASSUME NEW c \in Config, NEW text \in SUBSET Ips, NEW section \in Nat,
         NEW field \in EditableField
  PROVE  /\ ApplyField(field, text, c, section) \in Config
         /\ Len(ApplyField(field, text, c, section).peers) = Len(c.peers)
         /\ Placeholders(ApplyField(field, text, c, section)) =
              Placeholders(c) \ KeyedBy(field, section)
<1> DEFINE d == ApplyField(field, text, c, section)
           key == IF field = "PeerPublicKey" THEN [c.peers[section] EXCEPT !.key = "set"]
                  ELSE [c.peers[section] EXCEPT !.ips = text]
<1>1. CASE field = "ListenPort"
  BY <1>1, DraftLen DEF ApplyField, Config, Placeholders, KeyedBy
<1>2. CASE field # "ListenPort" /\ section \notin DOMAIN c.peers
  BY <1>2, DraftLen DEF ApplyField, Placeholders, KeyedBy
<1>3. CASE field # "ListenPort" /\ section \in DOMAIN c.peers
  <2>1. d = [c EXCEPT !.peers = [c.peers EXCEPT ![section] = key]]
    BY <1>3 DEF ApplyField
  <2>2. c.peers[section] \in Peer BY <1>3, DraftLen, ElementOfSeq
  <2>3. key \in Peer BY <2>2 DEF Peer
  <2>4. /\ [c.peers EXCEPT ![section] = key] \in Seq(Peer)
        /\ Len([c.peers EXCEPT ![section] = key]) = Len(c.peers)
    BY <2>3, <1>3, DraftLen, ExceptSeq
  <2>5. d.peers = [c.peers EXCEPT ![section] = key] /\ d \in Config
    BY <2>1, <2>4 DEF Config
  <2>6. DOMAIN d.peers = DOMAIN c.peers
    BY <2>5, DraftLen
  <2>7. key.key = IF field = "PeerPublicKey" THEN "set" ELSE c.peers[section].key
    BY <2>2 DEF Peer
  <2>8. Placeholders(d) = Placeholders(c) \ KeyedBy(field, section)
    BY <2>5, <2>6, <2>7, <1>3 DEF Placeholders, KeyedBy
  <2> QED BY <2>4, <2>5, <2>8
<1> QED BY <1>1, <1>2, <1>3

LEMMA FocusedFieldProperties ==
  ASSUME NEW e \in Edit, EditOK(e)
  PROVE  /\ FocusedField(e) \in EditableField
         /\ FocusedField(e) = "PeerPublicKey" => e.section # 0 /\ e.section \in e.new /\ e.field = 1
<1>1. e.section \in Nat /\ e.field \in Nat \ {0} BY DEF Edit
<1>2. e.field \in DOMAIN Fields(e.section, e.section \in e.new) BY EditNotNone DEF EditOK, FocusOK
<1> QED BY <1>1, <1>2 DEF FocusedField, FieldAt, Fields, EditableField

LEMMA CommitGood ==
  ASSUME NEW e \in Edit, EditOK(e), e.buffer \in SUBSET Ips
  PROVE  Commit(e) \in Edit /\ EditOK(Commit(e))
<1> DEFINE field == FocusedField(e)
           draft == ApplyField(field, e.buffer, e.draft, e.section)
           new == IF field = "PeerPublicKey" THEN e.new \ {e.section} ELSE e.new
           warned == IF field = "PeerPublicKey" /\ new = {} THEN FALSE ELSE e.warned
           f == [e EXCEPT !.draft = draft, !.new = new, !.warned = warned]
<1>1. field \in EditableField /\ e.draft \in Config
      /\ e.section \in Nat /\ e.new \subseteq Nat /\ e.warned \in BOOLEAN
  BY FocusedFieldProperties DEF Edit
<1>2. e.new = Placeholders(e.draft) /\ FocusOK(e) BY EditNotNone DEF EditOK
<1>3. Commit(e) = CloseBuffer(f) BY DEF Commit
<1>4. field = "PeerPublicKey" => e.field = 1 BY FocusedFieldProperties
<1> HIDE DEF field, new, warned, f, draft
<1>5. /\ draft \in Config /\ Len(draft.peers) = Len(e.draft.peers)
      /\ Placeholders(draft) = Placeholders(e.draft) \ KeyedBy(field, e.section)
  <2>1. draft \in Config BY <1>1, ApplyFieldProperties DEF draft
  <2>2. Len(draft.peers) = Len(e.draft.peers) BY <1>1, ApplyFieldProperties DEF draft
  <2>3. Placeholders(draft) = Placeholders(e.draft) \ KeyedBy(field, e.section)
    BY <1>1, ApplyFieldProperties DEF draft
  <2> QED BY <2>1, <2>2, <2>3
<1>6. warned \in BOOLEAN /\ new \subseteq Nat BY <1>1 DEF warned, new
<1>7. /\ f \in Edit /\ f.draft = draft /\ f.new = new
      /\ f.section = e.section /\ f.field = e.field
  BY <1>5, <1>6 DEF Edit, f
<1>8. f.new = Placeholders(f.draft) BY <1>2, <1>5, <1>7 DEF new, KeyedBy
<1>9. FocusOK(f)
  <2>1. CASE field = "PeerPublicKey"
    <3>1. f.section \in 0 .. Len(f.draft.peers) BY <1>2, <1>5, <1>7 DEF FocusOK
    <3>2. f.field \in DOMAIN Fields(f.section, f.section \in f.new)
      BY <1>4, <1>7, <2>1 DEF Fields
    <3> QED BY <3>1, <3>2 DEF FocusOK
  <2>2. CASE field # "PeerPublicKey"
    BY <2>2, <1>2, <1>5, <1>7 DEF FocusOK, new
  <2> QED BY <2>1, <2>2
<1>10. EditOK(f) BY <1>8, <1>9 DEF EditOK
<1> QED BY <1>3, <1>7, <1>10, CloseBufferGood

-----------------------------------------------------------------------------
(* Adding and deleting peers                                                *)

LEMMA RefocusGood ==
  ASSUME NEW e \in Edit, e.new = Placeholders(e.draft)
  PROVE  Refocus(e) \in Edit /\ EditOK(Refocus(e))
<1> DEFINE n == Len(e.draft.peers)
           section == IF e.section > n THEN n ELSE e.section
           max == Len(Fields(section, section \in e.new))
           field == IF e.field > max THEN max ELSE e.field
<1>1. /\ e.draft \in Config /\ n \in Nat /\ e.section \in Nat /\ e.field \in Nat \ {0}
  BY DraftLen DEF Edit
<1>2. section \in 0 .. n BY <1>1
<1>3. n = 0 => Refocus(e) = [e EXCEPT !.section = 0, !.field = 1] BY DEF Refocus
<1>4. n # 0 => Refocus(e) = [e EXCEPT !.section = section, !.field = field] BY DEF Refocus
<1> HIDE DEF n, section
<1>5. max = (IF section # 0 /\ section \in e.new THEN 2 ELSE 1)
      /\ DOMAIN Fields(section, section \in e.new) = 1 .. max
  <2>1. CASE section = 0 BY <2>1 DEF Fields
  <2>2. CASE section # 0 /\ section \in e.new BY <2>2 DEF Fields
  <2>3. CASE section # 0 /\ section \notin e.new BY <2>3 DEF Fields
  <2> QED BY <2>1, <2>2, <2>3
<1>6. field \in 1 .. max BY <1>1, <1>5
<1> HIDE DEF max, field
<1>7. CASE n = 0
  <2> DEFINE first == 1
  <2>1. first \in Nat \ {0} /\ 0 \in Nat OBVIOUS
  <2> HIDE DEF first
  <2>2. /\ Refocus(e) \in Edit
        /\ Refocus(e).section = 0 /\ Refocus(e).field = first
        /\ Refocus(e).draft = e.draft /\ Refocus(e).new = e.new
    <3>1. Refocus(e) = [e EXCEPT !.section = 0, !.field = first] BY <1>3, <1>7 DEF first
    <3> QED BY <3>1, <2>1 DEF Edit
  <2>3. FocusOK(Refocus(e)) BY <2>2, <1>1 DEF FocusOK, Fields, n, first
  <2> QED BY <2>2, <2>3 DEF EditOK
<1>8. CASE n # 0
  <2>1. section \in Nat /\ field \in Nat \ {0} BY <1>1, <1>2, <1>5, <1>6
  <2>2. /\ Refocus(e) \in Edit
        /\ Refocus(e).section = section /\ Refocus(e).field = field
        /\ Refocus(e).draft = e.draft /\ Refocus(e).new = e.new
    BY <2>1, <1>4, <1>8 DEF Edit
  <2>3. FocusOK(Refocus(e)) BY <1>2, <1>5, <1>6, <2>2 DEF FocusOK, n
  <2> QED BY <2>2, <2>3 DEF EditOK
<1> QED BY <1>7, <1>8

LEMMA ShiftDownTracks ==
  ASSUME NEW c \in Config, NEW i \in DOMAIN c.peers
  PROVE  ShiftDown(Placeholders(c), i) = Placeholders([c EXCEPT !.peers = RemoveAt(c.peers, i)])
<1> DEFINE n == Len(c.peers)
           d == [c EXCEPT !.peers = RemoveAt(c.peers, i)]
<1>1. n \in Nat /\ i \in 1 .. n /\ c.peers \in Seq(Peer) /\ DOMAIN c.peers = 1 .. n BY DraftLen
<1>2. /\ d.peers \in Seq(Peer) /\ Len(d.peers) = n - 1
      /\ \A j \in 1 .. n - 1 : d.peers[j] = IF j < i THEN c.peers[j] ELSE c.peers[j + 1]
  BY <1>1, RemoveAtProperties DEF Config
<1>3. DOMAIN d.peers = 1 .. n - 1 BY <1>2, LenProperties
<1> HIDE DEF n, d
<1>4. ASSUME NEW k \in ShiftDown(Placeholders(c), i)  PROVE k \in Placeholders(d)
  <2>1. PICK j \in Placeholders(c) \ {i} : k = IF j > i THEN j - 1 ELSE j
    BY <1>4 DEF ShiftDown
  <2>2. j \in 1 .. n /\ c.peers[j].key = "placeholder" /\ j # i BY <2>1, <1>1 DEF Placeholders
  <2>3. k \in 1 .. n - 1 /\ (IF k < i THEN k ELSE k + 1) = j BY <2>1, <2>2, <1>1
  <2>4. d.peers[k].key = "placeholder" BY <2>2, <2>3, <1>2
  <2> QED BY <2>3, <2>4, <1>3 DEF Placeholders
<1>5. ASSUME NEW k \in Placeholders(d)  PROVE k \in ShiftDown(Placeholders(c), i)
  <2> DEFINE j == IF k < i THEN k ELSE k + 1
  <2>1. k \in 1 .. n - 1 /\ d.peers[k].key = "placeholder" BY <1>5, <1>3 DEF Placeholders
  <2>2. j \in 1 .. n /\ j # i /\ k = (IF j > i THEN j - 1 ELSE j) BY <2>1, <1>1
  <2>3. c.peers[j].key = "placeholder" BY <2>1, <1>2
  <2> HIDE DEF j
  <2>4. j \in Placeholders(c) \ {i} BY <2>2, <2>3, <1>1 DEF Placeholders
  <2> QED BY <2>2, <2>4 DEF ShiftDown
<1> QED BY <1>4, <1>5 DEF d

LEMMA DeleteGood ==
  ASSUME NEW s, Good(s), NEW i
  PROVE  Good(DeleteConfigPeer(s, i))
<1>1. CASE ~ (Editing(s) /\ i \in DOMAIN s.edit.draft.peers)
  BY <1>1 DEF DeleteConfigPeer
<1>2. CASE Editing(s) /\ i \in DOMAIN s.edit.draft.peers
  <2> DEFINE e == s.edit
             draft == [e.draft EXCEPT !.peers = RemoveAt(e.draft.peers, i)]
             new == ShiftDown(e.new, i)
             f == [e EXCEPT !.draft = draft, !.new = new]
  <2>1. e \in Edit /\ e.new = Placeholders(e.draft) /\ e.draft \in Config
    BY <1>2 DEF Good, IsAppState, Editing, EditOK, Edit
  <2>2. DeleteConfigPeer(s, i) = With(s, Refocus(f))
    BY <1>2 DEF DeleteConfigPeer, With
  <2>3. new = Placeholders(draft) BY <1>2, <2>1, ShiftDownTracks
  <2>4. i \in 1 .. Len(e.draft.peers) /\ e.draft.peers \in Seq(Peer)
    BY <1>2, <2>1, DraftLen
  <2>5. RemoveAt(e.draft.peers, i) \in Seq(Peer) BY <2>4, RemoveAtProperties
  <2>6. draft \in Config BY <2>1, <2>5 DEF Config
  <2> HIDE DEF draft, new
  <2>7. new \subseteq Nat
    <3>1. DOMAIN draft.peers = 1 .. Len(draft.peers) /\ Len(draft.peers) \in Nat BY <2>6, DraftLen
    <3> QED BY <2>3, <3>1 DEF Placeholders
  <2>8. f \in Edit /\ f.new = new /\ f.draft = draft BY <2>1, <2>6, <2>7 DEF Edit
  <2>9. Refocus(f) \in Edit /\ EditOK(Refocus(f)) BY <2>3, <2>8, RefocusGood
  <2> HIDE DEF f, e
  <2> QED BY <2>2, <2>9, NewEdit
<1> QED BY <1>1, <1>2

LEMMA AddGood ==
  ASSUME NEW s, Good(s)
  PROVE  Good(AddConfigPeer(s))
<1>1. CASE ~ Editing(s) BY <1>1 DEF AddConfigPeer
<1>2. CASE Editing(s)
  <2> DEFINE e == s.edit
             peer == [key |-> "placeholder", ips |-> {}]
             peers == Append(e.draft.peers, peer)
             i == Len(peers)
             first == 1
             none == {}
             draft == [e.draft EXCEPT !.peers = peers]
             new == e.new \cup {i}
             f == [e EXCEPT !.draft = draft, !.new = new, !.section = i,
                            !.field = first, !.buffer = none, !.error = FALSE]
  <2>1. e \in Edit /\ e.new = Placeholders(e.draft) /\ e.draft \in Config
    BY <1>2 DEF Good, IsAppState, Editing, EditOK, Edit
  <2>2. AddConfigPeer(s) = Opened(s, f)
    BY <1>2 DEF AddConfigPeer, Opened
  <2>3. /\ peers \in Seq(Peer) /\ i = Len(e.draft.peers) + 1 /\ i \in Nat \ {0}
        /\ DOMAIN e.draft.peers = 1 .. i - 1 /\ DOMAIN peers = 1 .. i
        /\ \A j \in 1 .. i : peers[j] = IF j = i THEN peer ELSE e.draft.peers[j]
    <3>1. peer \in Peer /\ peer.key = "placeholder" BY DEF Peer
    <3>2. e.draft.peers \in Seq(Peer) /\ Len(e.draft.peers) \in Nat
          /\ DOMAIN e.draft.peers = 1 .. Len(e.draft.peers)
      BY <2>1, DraftLen
    <3> HIDE DEF peer
    <3>3. /\ peers \in Seq(Peer) /\ i = Len(e.draft.peers) + 1
          /\ \A j \in 1 .. Len(e.draft.peers) : peers[j] = e.draft.peers[j]
          /\ peers[Len(e.draft.peers) + 1] = peer
      BY <3>1, <3>2, AppendProperties
    <3>4. DOMAIN peers = 1 .. i BY <3>3, LenProperties
    <3> HIDE DEF peers, i
    <3> QED BY <3>2, <3>3, <3>4
  <2>4. draft \in Config /\ draft.peers = peers BY <2>1, <2>3 DEF Config
  <2>5. peer.key = "placeholder" OBVIOUS
  <2> HIDE DEF peers, peer, i, draft
  <2>6. new = Placeholders(draft)
    <3>1. ASSUME NEW k \in 1 .. i
          PROVE  k \in new <=> draft.peers[k].key = "placeholder"
      <4>1. CASE k = i BY <4>1, <2>3, <2>4, <2>5
      <4>2. CASE k # i
        <5>1. k \in 1 .. i - 1 /\ draft.peers[k] = e.draft.peers[k] BY <4>2, <2>3, <2>4
        <5> QED BY <5>1, <4>2, <2>1, <2>3 DEF Placeholders
      <4> QED BY <4>1, <4>2
    <3>2. new \subseteq 1 .. i BY <2>1, <2>3 DEF Placeholders
    <3> HIDE DEF new
    <3> QED BY <3>1, <3>2, <2>3, <2>4 DEF Placeholders
  <2>7. new \subseteq Nat BY <2>1, <2>3 DEF Edit
  <2>8. none \in Text \cup {NoBuffer} /\ first \in Nat \ {0} BY DEF Text
  <2> HIDE DEF new, none, first
  <2>9. /\ f \in Edit /\ f.draft = draft /\ f.new = new
        /\ f.section = i /\ f.field = first
    BY <2>1, <2>3, <2>4, <2>7, <2>8 DEF Edit
  <2> HIDE DEF f
  <2>10. FocusOK(f) BY <2>3, <2>4, <2>9 DEF FocusOK, Fields, i, first
  <2>11. EditOK(f) BY <2>6, <2>9, <2>10 DEF EditOK
  <2> QED BY <2>2, <2>9, <2>11, NewEdit
<1> QED BY <1>1, <1>2

-----------------------------------------------------------------------------
(* The other handlers                                                       *)

LEMMA CurrentValueType ==
  ASSUME NEW c \in Config, NEW section \in Nat, NEW field
  PROVE  CurrentValue(field, section, c) \in SUBSET Ips
<1>1. c.iface \in SUBSET Ips BY DEF Config
<1>2. ASSUME section \in DOMAIN c.peers  PROVE c.peers[section].ips \in SUBSET Ips
  <2>1. c.peers[section] \in Peer BY <1>2, DraftLen, ElementOfSeq
  <2> QED BY <2>1 DEF Peer
<1> QED BY <1>1, <1>2 DEF CurrentValue

LEMMA EnterGood ==
  ASSUME NEW s, Good(s), s.visible # {}, NEW section,
         section \in 0 .. Len(s.conns[Min(s.visible)].peers)
  PROVE  Good(EnterConfigEdit(s, section, 1))
<1> DEFINE n == Min(s.visible)
           first == 1
           text == CurrentValue(FieldAt(section, FALSE, first), section, s.conns[n])
           e == [name |-> n, draft |-> s.conns[n], section |-> section, field |-> first,
                 buffer |-> text, error |-> FALSE, new |-> {}, warned |-> FALSE]
<1>1. n \in DOMAIN s.conns /\ n \in Names
  BY MinIsName DEF Good, IsAppState
<1>2. EnterConfigEdit(s, section, 1) = Opened(s, e)
  BY DEF EnterConfigEdit, Opened
<1>3. s.conns[n] \in Config /\ Placeholders(s.conns[n]) = {}
  BY <1>1 DEF Good, IsAppState, Conns, Keyed
<1>4. /\ Len(s.conns[n].peers) \in Nat /\ section \in Nat
      /\ section \in 0 .. Len(s.conns[n].peers)
  BY <1>3, DraftLen
<1>5. first \in Nat \ {0} /\ first \in DOMAIN Fields(section, section \in {})
  BY DEF Fields
<1> HIDE DEF n, first
<1>6. text \in SUBSET Ips BY <1>3, <1>4, CurrentValueType
<1> HIDE DEF text
<1>7. text \in Text \cup {NoBuffer} BY <1>6 DEF Text
<1>8. /\ e \in Edit /\ e.draft = s.conns[n] /\ e.section = section
      /\ e.field = first /\ e.new = {}
  BY <1>1, <1>3, <1>4, <1>5, <1>7 DEF Edit
<1> HIDE DEF e
<1>9. EditOK(e) BY <1>3, <1>4, <1>5, <1>8 DEF EditOK, FocusOK
<1> QED BY <1>2, <1>8, <1>9, NewEdit

\* The edit session of a Good state.
LEMMA EditOf ==
  ASSUME NEW s, Good(s), Editing(s)
  PROVE  s.edit \in Edit /\ EditOK(s.edit) /\ s.edit.new = Placeholders(s.edit.draft) /\ FocusOK(s.edit)
BY DEF Good, IsAppState, Editing, EditOK

LEMMA TextGood ==
  ASSUME NEW s, Good(s), NEW text \in Text
  PROVE  Good(EditText(s, text))
<1>1. CASE ~ (Editing(s) /\ s.edit.buffer # NoBuffer) BY <1>1 DEF EditText
<1>2. CASE Editing(s) /\ s.edit.buffer # NoBuffer
  <2> DEFINE e == [s.edit EXCEPT !.buffer = text]
  <2>1. EditText(s, text) = With(s, e) BY <1>2 DEF EditText, With
  <2>2. e \in Edit BY <1>2, EditOf DEF Edit
  <2>3. /\ e.new = s.edit.new /\ e.draft = s.edit.draft
        /\ e.section = s.edit.section /\ e.field = s.edit.field
    BY <1>2, EditOf DEF Edit
  <2> HIDE DEF e
  <2>4. EditOK(e) BY <1>2, <2>3, EditOf DEF EditOK, FocusOK
  <2> QED BY <2>1, <2>2, <2>4, NewEdit
<1> QED BY <1>1, <1>2

LEMMA EnterKeyGood ==
  ASSUME NEW s, Good(s)
  PROVE  Good(EditEnter(s))
<1> DEFINE valid == ValidateField(FocusedField(s.edit), s.edit.buffer, s.edit.draft, s.edit.section)
           e == [s.edit EXCEPT !.error = TRUE]
<1>1. CASE ~Editing(s) \/ s.edit.buffer = NoBuffer BY <1>1 DEF EditEnter
<1>2. CASE Editing(s) /\ s.edit.buffer # NoBuffer /\ valid
  <2>1. EditEnter(s) = Closed(s, Commit(s.edit)) BY <1>2 DEF EditEnter, Closed
  <2>2. s.edit.buffer \in SUBSET Ips
    <3>1. s.edit.buffer \in Text \cup {NoBuffer} BY <1>2, EditOf DEF Edit
    <3>2. s.edit.buffer # Junk BY <1>2 DEF ValidateField
    <3> QED BY <3>1, <3>2, <1>2 DEF Text
  <2>3. Commit(s.edit) \in Edit /\ EditOK(Commit(s.edit)) BY <1>2, <2>2, EditOf, CommitGood
  <2> QED BY <2>1, <2>3, NewEdit
<1>3. CASE Editing(s) /\ s.edit.buffer # NoBuffer /\ ~valid
  <2>1. EditEnter(s) = With(s, e) BY <1>3 DEF EditEnter, With
  <2>2. e \in Edit BY <1>3, EditOf DEF Edit
  <2>3. /\ e.new = s.edit.new /\ e.draft = s.edit.draft
        /\ e.section = s.edit.section /\ e.field = s.edit.field
    BY <1>3, EditOf DEF Edit
  <2> HIDE DEF e, valid
  <2>4. EditOK(e) BY <1>3, <2>3, EditOf DEF EditOK, FocusOK
  <2> QED BY <2>1, <2>2, <2>4, NewEdit
<1> QED BY <1>1, <1>2, <1>3

LEMMA EscGood ==
  ASSUME NEW s, Good(s)
  PROVE  Good(EditEsc(s))
<1>1. CASE ~ (Editing(s) /\ s.edit.buffer # NoBuffer) BY <1>1 DEF EditEsc
<1>2. CASE Editing(s) /\ s.edit.buffer # NoBuffer
  <2>1. EditEsc(s) = Closed(s, CloseBuffer(s.edit)) BY <1>2 DEF EditEsc, Closed
  <2> QED BY <2>1, <1>2, EditOf, CloseBufferGood, NewEdit
<1> QED BY <1>1, <1>2

\* Any move of the focus to a section that exists and a field that it has.
LEMMA MoveGood ==
  ASSUME NEW s, Good(s), Editing(s), NEW e,
         NEW section, section \in 0 .. Len(s.edit.draft.peers), NEW field \in Nat \ {0},
         field \in DOMAIN Fields(section, section \in s.edit.new),
         e = [s.edit EXCEPT !.section = section, !.field = field]
  PROVE  Good(With(s, e))
<1>1. s.edit \in Edit /\ s.edit.new = Placeholders(s.edit.draft) BY EditOf
<1>2. Len(s.edit.draft.peers) \in Nat BY <1>1, DraftLen DEF Edit
<1>3. section \in Nat BY <1>2
<1>4. /\ e \in Edit /\ e.new = s.edit.new /\ e.draft = s.edit.draft
      /\ e.section = section /\ e.field = field
  BY <1>1, <1>3 DEF Edit
<1>5. EditOK(e) BY <1>1, <1>4 DEF EditOK, FocusOK
<1> QED BY <1>4, <1>5, NewEdit

LEMMA FocusGood ==
  ASSUME NEW s, Good(s), Editing(s)
  PROVE  /\ Good(ConfigFocusNext(s)) /\ Good(ConfigFocusPrev(s))
         /\ \A section \in 0 .. Len(s.edit.draft.peers) : Good(ConfigFocus(s, section))
<1> DEFINE section == s.edit.section
           n == Len(Fields(section, section \in s.edit.new))
           field == s.edit.field
           next == (field % n) + 1
           prev == IF field = 1 THEN n ELSE field - 1
<1>1. /\ s.edit \in Edit /\ FocusOK(s.edit) BY EditOf
<1>2. /\ section \in 0 .. Len(s.edit.draft.peers) /\ field \in Nat \ {0}
      /\ field \in DOMAIN Fields(section, section \in s.edit.new)
      /\ section \in Nat
  BY <1>1 DEF FocusOK, Edit
<1>3. DOMAIN Fields(section, section \in s.edit.new) = 1 .. n /\ n \in {1, 2}
  <2> HIDE DEF section
  <2>1. CASE section = 0 BY <2>1 DEF Fields
  <2>2. CASE section # 0 /\ section \in s.edit.new BY <2>2 DEF Fields
  <2>3. CASE section # 0 /\ section \notin s.edit.new BY <2>3 DEF Fields
  <2> QED BY <2>1, <2>2, <2>3
<1>4. ConfigFocusNext(s) = With(s, [s.edit EXCEPT !.section = section, !.field = next])
  BY <1>1 DEF ConfigFocusNext, With, Edit
<1>5. ConfigFocusPrev(s) = With(s, [s.edit EXCEPT !.section = section, !.field = prev])
  BY <1>1 DEF ConfigFocusPrev, With, Edit
<1> HIDE DEF section, field, n
<1>6. next \in 1 .. n /\ prev \in 1 .. n BY <1>2, <1>3
<1> HIDE DEF next, prev
<1>7. next \in Nat \ {0} /\ prev \in Nat \ {0} BY <1>3, <1>6
<1>8. Good(ConfigFocusNext(s)) BY <1>2, <1>3, <1>4, <1>6, <1>7, MoveGood
<1>9. Good(ConfigFocusPrev(s)) BY <1>2, <1>3, <1>5, <1>6, <1>7, MoveGood
<1>10. ASSUME NEW to \in 0 .. Len(s.edit.draft.peers)
       PROVE  Good(ConfigFocus(s, to))
  <2> DEFINE first == 1
  <2>1. ConfigFocus(s, to) = With(s, [s.edit EXCEPT !.section = to, !.field = first])
    BY DEF ConfigFocus, With
  <2>2. first \in Nat \ {0} /\ first \in DOMAIN Fields(to, to \in s.edit.new)
    BY DEF Fields
  <2> HIDE DEF first
  <2> QED BY <2>1, <2>2, MoveGood
<1> QED BY <1>8, <1>9, <1>10

Scrolled(s, k) == [s EXCEPT !.diff = [@ EXCEPT !.scroll = k]]

\* Handlers that end the session, or leave it as it is.
LEMMA RestGood ==
  ASSUME NEW s, Good(s)
  PROVE  /\ Good(PreviewConfig(s))
         /\ Good(ConfigDiffScrollDown(s)) /\ Good(ConfigDiffScrollUp(s))
         /\ Good(SaveConfig(s)) /\ Good(DiscardConfigEdits(s))
         /\ \A p \in Nat : Good(RequestConfirm(s, "DeletePeer", p))
         /\ Good(ConfirmNo(s))
<1>1. Good(PreviewConfig(s))
  <2>1. CASE ~Editing(s) BY <2>1 DEF PreviewConfig
  <2>2. CASE Editing(s) /\ s.edit.new # {}
    <3> DEFINE e == [s.edit EXCEPT !.warned = TRUE]
    <3>1. PreviewConfig(s) = With(s, e) BY <2>2 DEF PreviewConfig, With
    <3>2. e \in Edit BY <2>2, EditOf DEF Edit
    <3>3. /\ e.new = s.edit.new /\ e.draft = s.edit.draft
          /\ e.section = s.edit.section /\ e.field = s.edit.field
      BY <2>2, EditOf DEF Edit
    <3> HIDE DEF e
    <3>4. EditOK(e) BY <2>2, <3>3, EditOf DEF EditOK, FocusOK
    <3> QED BY <3>1, <3>2, <3>4, NewEdit
  <2>3. CASE Editing(s) /\ s.edit.new = {}
    <3> DEFINE diff == [name |-> s.edit.name, draft |-> s.edit.draft, scroll |-> 0]
    <3>1. diff \in Diff /\ Placeholders(diff.draft) = {} BY <2>3, EditOf DEF Edit, Diff
    <3>2. PreviewConfig(s) = s \/ PreviewConfig(s) = [s EXCEPT !.diff = diff]
      BY <2>3 DEF PreviewConfig
    <3> HIDE DEF diff
    <3>3. Good([s EXCEPT !.diff = diff]) BY <3>1 DEF Good, IsAppState, Conns
    <3> QED BY <3>2, <3>3
  <2> QED BY <2>1, <2>2, <2>3
<1>2. ASSUME s.diff # NoDiff
      PROVE  Good(ConfigDiffScrollDown(s)) /\ (s.diff.scroll # 0 => Good(ConfigDiffScrollUp(s)))
  <2>1. s.diff \in Diff BY <1>2 DEF Good, IsAppState
  <2>2. \A k \in Nat : /\ [s.diff EXCEPT !.scroll = k] \in Diff
                        /\ [s.diff EXCEPT !.scroll = k].draft = s.diff.draft
    BY <2>1 DEF Diff
  <2>3. \A d \in Diff : d.draft = s.diff.draft => Good([s EXCEPT !.diff = d])
    BY <1>2 DEF Good, IsAppState, Conns
  <2>4. \A k \in Nat : Good(Scrolled(s, k))
    BY <2>2, <2>3, Zenon DEF Scrolled
  <2>5. s.diff.scroll \in Nat BY <2>1 DEF Diff
  <2>6. ConfigDiffScrollDown(s) = Scrolled(s, s.diff.scroll + 1)
    BY <1>2 DEF ConfigDiffScrollDown, Scrolled
  <2>7. s.diff.scroll # 0 => ConfigDiffScrollUp(s) = Scrolled(s, s.diff.scroll - 1)
    BY <1>2 DEF ConfigDiffScrollUp, Scrolled
  <2> QED BY <2>4, <2>5, <2>6, <2>7
<1>3. Good(ConfigDiffScrollDown(s)) /\ Good(ConfigDiffScrollUp(s))
  BY <1>2 DEF ConfigDiffScrollDown, ConfigDiffScrollUp
<1>4. Good(SaveConfig(s)) /\ Good(DiscardConfigEdits(s))
  BY DEF Good, IsAppState, Conns, EditOK, SaveConfig, DiscardConfigEdits, Modes
<1>5. ASSUME NEW p \in Nat  PROVE Good(RequestConfirm(s, "DeletePeer", p))
  <2>1. [action |-> "DeletePeer", peer |-> p] \in Confirm BY DEF Confirm
  <2> QED BY <2>1 DEF Good, IsAppState, Conns, RequestConfirm
<1>6. Good(ConfirmNo(s)) BY DEF Good, IsAppState, Conns, ConfirmNo
<1> QED BY <1>1, <1>3, <1>4, <1>5, <1>6

LEMMA ConfirmedGood ==
  ASSUME NEW s, Good(s)
  PROVE  Good(ConfirmYes(s))
<1> DEFINE closed == [s EXCEPT !.confirm = NoConfirm]
<1>1. Good(closed) BY DEF Good, IsAppState, Conns
<1>2. ConfirmYes(s) = closed \/ ConfirmYes(s) = DeleteConfigPeer(closed, s.confirm.peer)
  BY DEF ConfirmYes
<1> QED BY <1>1, <1>2, DeleteGood

LEMMA TabGood ==
  ASSUME NEW s, Good(s)
  PROVE  /\ \A tab \in Range(Tabs) : Good(SelectTab(s, tab))
         /\ Good(StepTab(s, 1))
<1>1. ASSUME NEW tab \in Range(Tabs)  PROVE Good(SelectTab(s, tab))
  <2> DEFINE there == [s EXCEPT !.tab = tab]
  <2>1. Good(there) /\ there.edit = s.edit BY DEF Good, IsAppState, Conns
  <2>2. Good([s EXCEPT !.tab = tab, !.mode = "Normal"])
    BY DEF Good, IsAppState, Conns, Modes
  <2>3. CASE s.mode # "EditField" BY <2>1, <2>3 DEF SelectTab
  <2>4. CASE s.mode = "EditField" /\ ~Editing(s)
    <3>1. SelectTab(s, tab) = [s EXCEPT !.tab = tab, !.mode = "Normal"]
      BY <2>4 DEF SelectTab, Good, IsAppState
    <3> QED BY <2>2, <3>1
  <2>5. CASE s.mode = "EditField" /\ Editing(s)
    <3>1. SelectTab(s, tab) = Closed(there, CloseBuffer(s.edit))
      BY <2>5 DEF SelectTab, Closed, Good, IsAppState
    <3> HIDE DEF there
    <3> QED BY <3>1, <2>1, <2>5, EditOf, CloseBufferGood, NewEdit
  <2> QED BY <2>3, <2>4, <2>5
<1>2. Good(StepTab(s, 1))
  <2> DEFINE i == CHOOSE i \in DOMAIN Tabs : Tabs[i] = s.tab
  <2>1. s.tab \in Range(Tabs) BY DEF Good, IsAppState
  <2>2. i \in DOMAIN Tabs BY <2>1 DEF Range
  <2>3. DOMAIN Tabs = 1 .. 6 /\ Len(Tabs) = 6 BY DEF Tabs
  <2> HIDE DEF i
  <2>4. ((i - 1 + 1) % Len(Tabs)) + 1 \in DOMAIN Tabs BY <2>2, <2>3
  <2>5. Tabs[((i - 1 + 1) % Len(Tabs)) + 1] \in Range(Tabs) BY <2>4 DEF Range
  <2> QED BY <1>1, <2>5 DEF StepTab, i
<1> QED BY <1>1, <1>2

LEMMA FilesKeyed ==
  ASSUME NEW f \in Files
  PROVE  Conns(f) /\ Keyed(f)
BY EditorAssumption DEF Keyed, Placeholders

LEMMA ReloadGood ==
  ASSUME NEW s, Good(s), NEW f \in Files
  PROVE  Good(ReloadFromConfig(s, f))
BY FilesKeyed DEF Good, IsAppState, Conns, ReloadFromConfig

LEMMA InitGood == Init => IInv
<1> SUFFICES ASSUME NEW f \in Files, app = [New(f) EXCEPT !.tab = "Config"]
             PROVE  Good(app)
  BY DEF Init, IInv
<1>1. "Config" \in Range(Tabs)
  <2>1. 5 \in DOMAIN Tabs /\ Tabs[5] = "Config" BY DEF Tabs
  <2> QED BY <2>1 DEF Range
<1> QED BY <1>1, FilesKeyed DEF Good, IsAppState, Conns, New, EditOK, Modes

-----------------------------------------------------------------------------
(* The theorems                                                             *)

LEMMA NextGood == IInv /\ [Next]_app => IInv'
<1> SUFFICES ASSUME Good(app), [Next]_app  PROVE Good(app') BY DEF IInv
<1> USE DEF Open
<1>1. CASE UNCHANGED app BY <1>1
<1>2. CASE Enter
  <2>1. PICK section \in 0 .. Len(app.conns[Min(app.visible)].peers) :
          \E i \in DOMAIN Fields(section, FALSE) : app' = EnterConfigEdit(app, section, i)
    BY <1>2 DEF Enter
  <2>2. PICK i \in DOMAIN Fields(section, FALSE) : app' = EnterConfigEdit(app, section, i)
    BY <2>1
  <2>3. DOMAIN Fields(section, FALSE) = 1 .. 1 BY FieldsDomain
  <2>4. i \in 1 .. 1 BY <2>2, <2>3
  <2>5. i = 1 BY <2>4
  <2>6. app' = EnterConfigEdit(app, section, 1) BY <2>2, <2>5
  <2>7. app.visible # {} BY <1>2 DEF Enter
  <2> QED BY <2>6, <2>7, EnterGood
<1>3. CASE Type BY <1>3, TextGood DEF Type
<1>4. CASE PressEnter BY <1>4, EnterKeyGood DEF PressEnter
<1>5. CASE PressEsc BY <1>5, EscGood DEF PressEsc
<1>6. CASE Focus BY <1>6, FocusGood DEF Focus
<1>7. CASE AddPeer BY <1>7, AddGood DEF AddPeer
<1>8. CASE AskDelete
  <2> DEFINE c == app.conns[Min(app.visible)]
  <2>1. PICK i \in DOMAIN c.peers : app' = RequestConfirm(app, "DeletePeer", i)
    BY <1>8 DEF AskDelete
  <2>2. app.visible # {} BY <1>8 DEF AskDelete
  <2>3. Min(app.visible) \in DOMAIN app.conns
    BY <2>2, MinIsName DEF Good, IsAppState
  <2>4. c \in Config BY <2>3 DEF Good, IsAppState, Conns
  <2> HIDE DEF c
  <2>5. i \in Nat BY <2>1, <2>4, DraftLen
  <2> QED BY <2>1, <2>5, RestGood
<1>9. CASE Delete BY <1>9, ConfirmedGood, DeleteGood DEF Delete
<1>10. CASE KeepPeer BY <1>10, RestGood DEF KeepPeer
<1>11. CASE Preview BY <1>11, RestGood DEF Preview
<1>12. CASE Scroll BY <1>12, RestGood DEF Scroll
<1>13. CASE Save BY <1>13, RestGood DEF Save
<1>14. CASE Discard BY <1>14, RestGood DEF Discard
<1>15. CASE Leave BY <1>15, TabGood DEF Leave
<1>16. CASE Return
  <2>1. "Config" \in Range(Tabs)
    <3>1. 5 \in DOMAIN Tabs /\ Tabs[5] = "Config" BY DEF Tabs
    <3> QED BY <3>1 DEF Range
  <2> QED BY <2>1, <1>16, TabGood DEF Return
<1>17. CASE Reload BY <1>17, ReloadGood DEF Reload
<1> QED BY <1>1, <1>2, <1>3, <1>4, <1>5, <1>6, <1>7, <1>8, <1>9, <1>10, <1>11, <1>12,
           <1>13, <1>14, <1>15, <1>16, <1>17 DEF Next

LEMMA Invariant == Spec => []IInv
BY InitGood, NextGood, PTL DEF Spec

\* The state keeps its type: in particular the mode, the focus and the buffer
\* of the edit session, whatever the order of its actions.
THEOREM TypeCorrect == Spec => []TypeOK
<1>1. IInv => TypeOK BY DEF IInv, Good, TypeOK
<1> QED BY <1>1, Invariant, PTL

\* new_peer_indices is the set of peers whose key was not entered, after any
\* additions, deletions in front of them and confirmed keys.
THEOREM Tracked == Spec => []PlaceholdersTracked
<1>1. IInv => PlaceholdersTracked BY DEF IInv, Good, EditOK, Editing, PlaceholdersTracked
<1> QED BY <1>1, Invariant, PTL

\* The preview that SaveConfig takes its draft from has no such peer.
THEOREM Keys == Spec => []NothingUnkeyedSaved
<1>1. IInv => NothingUnkeyedSaved BY DEF IInv, Good, NothingUnkeyedSaved
<1> QED BY <1>1, Invariant, PTL

\* The focus is on a peer and a field that exist, after every deletion.
THEOREM FocusKept == Spec => []FocusValid
<1>1. IInv => FocusValid BY DEF IInv, Good, EditOK, FocusOK, Editing, FocusValid
<1> QED BY <1>1, Invariant, PTL
=============================================================================
