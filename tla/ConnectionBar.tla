--------------------------- MODULE ConnectionBar ---------------------------
(***************************************************************************)
(* The bar of ferro-wg-tui-components/src/connection_bar.rs: which of the  *)
(* connections it has room for.  The selected entry shows the name, and is *)
(* always the first; the others are "[N]" and an indicator.  Widths are in *)
(* columns, entries counted from 0 as in the code.                         *)
(*                                                                         *)
(* Operators whose comment starts with "Variant" are not part of the       *)
(* specification, see TunnelManager.                                       *)
(***************************************************************************)
EXTENDS Integers, FiniteSets

CONSTANTS
  Counts,       \* numbers of connections
  NameLengths,  \* characters of the first name
  Columns       \* widths of the terminal

ASSUME BarAssumption == Counts \cup NameLengths \cup Columns \subseteq Nat

VARIABLE bar   \* the last frame: count, name, width, and its first and last entry

NAME_LEN == 20
PREFIX_WIDTH == 14
INDICATOR_WIDTH == 2
MIN_TERMINAL_WIDTH == 80

\* truncate_name adds an ellipsis.
Truncated(len) == IF len > NAME_LEN THEN NAME_LEN + 1 ELSE len

\* A round for each digit.
DigitCount(n) ==
  LET digits[m \in 0 .. n] == IF m < 10 THEN 1 ELSE 1 + digits[m \div 10]
  IN  digits[n]

\* Variant: the label is taken for three columns.
EntryWidthShort(index, len, selected) == 3 + (IF selected THEN 1 + len + 4 ELSE 3)

EntryWidth(index, len, selected) ==
  2 + DigitCount(index + 1) + (IF selected THEN 1 + len + 1 + 1 + 2 ELSE 1 + 2)

Widths(count, len) ==
  [i \in 0..(count - 1) |-> EntryWidth(i, Truncated(len), i = 0)]

\* The columns of the first n entries.
Columned(widths, n) ==
  LET sum[i \in 0 .. n] == IF i = 0 THEN 0 ELSE sum[i - 1] + widths[i - 1] IN sum[n]

\* A neighbour is taken if there is one and it fits.
Takes(widths, budget, used, i) == i \in DOMAIN widths /\ used + widths[i] <= budget

\* A round of the loop tries the left neighbour, then the right one.
Grow(widths, budget, view) ==
  LET left == Takes(widths, budget, view.used, view.start - 1)
      used == IF left THEN view.used + widths[view.start - 1] ELSE view.used
      right == Takes(widths, budget, used, view.end + 1)
  IN  [start |-> IF left THEN view.start - 1 ELSE view.start,
       end |-> IF right THEN view.end + 1 ELSE view.end,
       used |-> IF right THEN used + widths[view.end + 1] ELSE used]

\* The loop ends when a round adds nothing, so after no more rounds than entries; with
\* the budget spent none adds anything.
Grown(widths, budget, selected, rounds) ==
  LET view[n \in 0 .. rounds] ==
        IF n = 0 THEN [start |-> selected, end |-> selected, used |-> widths[selected]]
        ELSE LET before == view[n - 1] IN
             IF before.used = budget THEN before ELSE Grow(widths, budget, before)
  IN  view[rounds]

\* saturating_sub
Budget(width) ==
  IF width > PREFIX_WIDTH + INDICATOR_WIDTH THEN width - (PREFIX_WIDTH + INDICATOR_WIDTH) ELSE 0

Viewport(widths, selected, width) ==
  LET n == Cardinality(DOMAIN widths)
      grown == Grown(widths, Budget(width), selected, n)
  IN  IF Columned(widths, n) + PREFIX_WIDTH <= width THEN <<0, n - 1>>
      ELSE IF widths[selected] > Budget(width) THEN <<selected, selected>>
      ELSE <<grown.start, grown.end>>

\* What a frame has of the bar, if it has one: render_ui draws nothing on a small
\* terminal, and the bar nothing for a single connection.
Drawn(count, len, width) ==
  LET window == IF count <= 1 \/ width < MIN_TERMINAL_WIDTH THEN <<0, 0 - 1>>
                ELSE Viewport(Widths(count, len), 0, width)
  IN  [count |-> count, name |-> len, width |-> width, first |-> window[1], last |-> window[2]]

\* No frame has been drawn.
BarInit == \E w \in Columns : bar = Drawn(0, 0, w)

\* The config is reloaded, the terminal resized, and a frame drawn.
Redraw ==
  \/ \E c \in Counts, n \in NameLengths : bar' = Drawn(c, n, bar.width)
  \/ \E w \in Columns : bar' = Drawn(bar.count, bar.name, w)

BarSpec == BarInit /\ [][Redraw]_bar

-----------------------------------------------------------------------------
(* Properties                                                               *)

\* "[1] name ?  ", then "[2]?  ".
Texts ==
  [i \in 0 .. bar.count - 1 |-> IF i = 0 THEN Truncated(bar.name) + 8 ELSE 5 + DigitCount(i + 1)]

DrawnWidth ==
  PREFIX_WIDTH + Columned(Texts, bar.last + 1)
    + (IF bar.last < bar.count - 1 THEN INDICATOR_WIDTH ELSE 0)

\* The bar's line fits the terminal with the overflow arrow in it, the selected entry
\* is on it, and an entry is left out only if it would not fit, whatever the names'
\* lengths and the number of digits.
BarFits ==
  bar.last >= bar.first =>
    /\ bar.first = 0 /\ DrawnWidth <= bar.width
    /\ bar.last < bar.count - 1 => DrawnWidth + Texts[bar.last + 1] > bar.width
=============================================================================
