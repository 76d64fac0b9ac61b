----------------------------- MODULE ConfigDiff ------------------------------
(***************************************************************************)
(* The diff preview: config_diff (ferro-wg-tui-core/src/config_edit.rs)    *)
(* over the TOML text of a connection and of its draft, the scrolling of   *)
(* AppState, and the overlay that shows a window of the lines              *)
(* (ferro-wg-tui-components/src/diff_preview.rs).  Colours are the kinds   *)
(* of the lines; `s`, `r` and Esc are ConfigEditor's and ConfigStore's.    *)
(***************************************************************************)
EXTENDS Integers, Sequences, Selection

CONSTANTS
  TomlLines,    \* lines of a text
  MaxLines,     \* bound of the model: lines of a text
  DiffHeights   \* rows that the overlay may have

ASSUME DiffAssumption == MaxLines \in Nat /\ DiffHeights \subseteq Nat

VARIABLE preview   \* config_diff_pending, the two texts, and what is on the screen

DiffLine == [kind : {"context", "removed", "added"}, content : TomlLines]
Context(l) == [kind |-> "context", content |-> l]
Removed(l) == [kind |-> "removed", content |-> l]
Added(l) == [kind |-> "added", content |-> l]

Lower(m, n) == IF m < n THEN m ELSE n
Longest(old, new) == IF Len(old) < Len(new) THEN Len(new) ELSE Len(old)

\* Line i against line i: what the loops push for it.
PushLine(diff, old, new, i) ==
  IF i <= Len(old) /\ i <= Len(new) /\ old[i] = new[i] THEN Append(diff, Context(old[i]))
  ELSE LET removed == IF i <= Len(old) THEN Append(diff, Removed(old[i])) ELSE diff
       IN  IF i <= Len(new) THEN Append(removed, Added(new[i])) ELSE removed

\* One loop until a text ends, then one for what is left of the other.
ConfigDiffOf(old, new) ==
  LET diff[i \in 0 .. Longest(old, new)] ==
        IF i = 0 THEN <<>> ELSE PushLine(diff[i - 1], old, new, i)
  IN  diff[Longest(old, new)]

\* render_diff_lines: at most 15 lines; the border and the hint take three rows.
Window(lines, scroll, height) ==
  SubSeq(lines, scroll + 1, Lower(scroll + Lower(15, height - 3), Len(lines)))

DiffTexts == UNION {[1 .. n -> TomlLines] : n \in 0 .. MaxLines}

Shown(old, new, scroll, height) ==
  [old |-> old, new |-> new, scroll |-> scroll, height |-> height,
   window |-> Window(ConfigDiffOf(old, new), scroll, height)]

\* PreviewConfig opens the overlay, and the frame draws it.
DiffInit ==
  \E old \in DiffTexts, new \in DiffTexts, h \in DiffHeights :
    preview = Shown(old, new, 0, h)

Pending == ConfigDiffOf(preview.old, preview.new)

\* Past the last line the slice panics, see TuiSession: nothing follows.
DiffNext ==
  \E by \in {0, 1, -1}, h \in DiffHeights :
    /\ preview.scroll + by \in 0 .. Len(Pending)
    /\ preview' = Shown(preview.old, preview.new, preview.scroll + by, h)

DiffSpec == DiffInit /\ [][DiffNext]_preview

-----------------------------------------------------------------------------
(* Properties                                                               *)

Contents(lines, kinds) ==
  LET kept == Picked(lines, {i \in DOMAIN lines : lines[i].kind \in kinds})
  IN  [i \in DOMAIN kept |-> kept[i].content]

\* The preview tells the truth about what a save would change: without its added lines
\* it is the file's text, without its removed lines the draft's, each line once and in
\* order; and nothing is marked when the two are the same.
DiffFaithful ==
  /\ Contents(Pending, {"context", "removed"}) = preview.old
  /\ Contents(Pending, {"context", "added"}) = preview.new
  /\ preview.old = preview.new => Contents(Pending, {"removed", "added"}) = <<>>
  /\ \A i \in DOMAIN preview.window : preview.window[i] = Pending[preview.scroll + i]
=============================================================================
