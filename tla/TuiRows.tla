------------------------------ MODULE TuiRows ------------------------------
(***************************************************************************)
(* Rows, frames and keys: the event loop of ferro-wg-tui/src/lib.rs as the *)
(* user sees it.  The loop handles the messages that have arrived, reads   *)
(* the terminal's size, waits for a key, a click or a tick, handles it and *)
(* draws a frame.  A key acts on the row a component has selected, and the *)
(* frame is all the user knows of it.                                      *)
(*                                                                         *)
(* A connection is a number, in the order of the names.  Keys act on a row *)
(* in the Status tab, in the Compare tab and, over any tab, in the         *)
(* connection filter; a search query is the set of the names it is in.     *)
(*                                                                         *)
(* Operators whose comment starts with "Variant" are not part of the       *)
(* specification, see TunnelManager.                                       *)
(***************************************************************************)
EXTENDS Integers, Sequences, FiniteSets

CONSTANTS
  RowConn,  \* connections
  MaxPast   \* bound of the model: runs in benchmark_history

ASSUME RowsAssumption == RowConn \subseteq Nat /\ IsFiniteSet(RowConn) /\ MaxPast \in Nat

VARIABLES
  ui,    \* AppState: connections, visible ones, tab, overlay and its query,
         \* the view of the Compare tab and how many runs its history has
  rows,  \* the selected row of each table and list
  loop,  \* "top" of the loop, or "wait" for an event
  term,  \* is the terminal large enough: now, and as the loop has read it
  frame, \* what the last frame highlights
  late,  \* have messages changed the connections since
  acted  \* history: what the last event acted on, the frame before it, late

rowsVars == <<ui, rows, loop, term, frame, late, acted>>

RowTab == {"Overview", "Status", "Compare"}
Cell(kind, which) == [kind |-> kind, which |-> which]
Blank == Cell("blank", 0)   \* no frame, or "Terminal too small"
NoRow == Cell("none", 0)    \* a frame without a row

\* The connections S by name: at i the one with i - 1 before it.
Sorted(S) ==
  [i \in 1 .. Cardinality(S) |-> CHOOSE x \in S : Cardinality({y \in S : y < x}) = i - 1]

Rows(kind, seq) == [i \in DOMAIN seq |-> Cell(kind, seq[i])]

\* visible_connections of the Status tab, filtered_connections of the overlay.
StatusRows(s) == Rows("connection", Sorted(s.conns \cap s.visible))
FilterRows(s) == Rows("connection", Sorted(s.conns \cap s.match))

\* boringtun, neptun and gotatun; the history, newest first.
BackendRows == Rows("backend", <<1, 2, 3>>)
PastRows(s) == Rows("run", [i \in 1 .. s.past |-> s.past - i + 1])

-----------------------------------------------------------------------------
(* Drawing                                                                  *)

\* Table::render selects the last row if there is none where it should be.
Clamped(row, list) == IF list # <<>> /\ row >= Len(list) THEN Len(list) - 1 ELSE row

Highlight(row, list) == IF list = <<>> THEN NoRow ELSE list[Clamped(row, list) + 1]

\* render_ui draws the active tab and what is open over it: which of the lists, if
\* any, is on the screen and has the keys.
Lists == {"status", "live", "list", "filter"}
OnScreen(s) ==
  IF s.filter THEN {"filter"}
  ELSE IF s.tab = "Status" THEN {"status"}
  ELSE IF s.tab = "Compare" THEN {IF s.view = "Live" THEN "live" ELSE "list"}
  ELSE {}

ListOf(s, l) == CASE l = "status" -> StatusRows(s) [] l = "live" -> BackendRows
                  [] l = "list" -> PastRows(s) [] l = "filter" -> FilterRows(s)

\* The tab is drawn under the overlay as well.
Tables(s) == OnScreen(s) \cup OnScreen([s EXCEPT !.filter = FALSE])

Draw(s, r) ==
  IF term.read
  THEN /\ rows' = [l \in Lists |-> IF l \in Tables(s) THEN Clamped(r[l], ListOf(s, l)) ELSE r[l]]
       /\ frame' = IF OnScreen(s) = {} THEN NoRow
                   ELSE LET l == CHOOSE l \in OnScreen(s) : TRUE
                        IN  Highlight(r[l], ListOf(s, l))
  ELSE rows' = r /\ frame' = Blank

\* One event, then the frame: the rest of event_loop's body.
Handled(s, r) ==
  /\ loop = "wait" /\ loop' = "top"
  /\ ui' = s /\ Draw(s, r) /\ late' = FALSE /\ UNCHANGED term

NoAct == [on |-> NoRow, seen |-> NoRow, late |-> FALSE]
NothingActs == acted' = NoAct

-----------------------------------------------------------------------------
(* Keys and the mouse                                                       *)

StepTo(row, by, list) ==
  IF by = 1 THEN IF row + 1 < Len(list) THEN row + 1
                 ELSE IF list = <<>> THEN 0 ELSE Len(list) - 1
  ELSE IF row > 0 THEN row - 1 ELSE 0

\* NextRow and PrevRow reach every component, those of the other tabs too.
\* Keys and the wheel; the wheel does nothing while the overlay is open.
Moves(s, l) ==
  CASE l = "filter" -> s.filter [] l = "live" -> s.view = "Live"
    [] l = "list" -> s.view = "Historical" [] OTHER -> TRUE

StepRow ==
  \E by \in {1, -1} :
    /\ Handled(ui, [l \in Lists |-> IF Moves(ui, l) THEN StepTo(rows[l], by, ListOf(ui, l))
                                   ELSE rows[l]])
    /\ NothingActs

\* A click or a key, or Enter on the Overview tab.
SelectRowTab ==
  /\ ~ui.filter /\ NothingActs
  /\ \E tab \in RowTab :
       Handled([ui EXCEPT !.tab = tab],
               [l \in Lists |-> IF l # "filter" /\ Moves(ui, l) THEN 0 ELSE rows[l]])

ToggleCompareView ==
  /\ ~ui.filter /\ ui.tab = "Compare" /\ NothingActs
  /\ Handled([ui EXCEPT !.view = IF @ = "Live" THEN "Historical" ELSE "Live"], rows)

Acts(row, list) ==
  acted' = [on |-> list[row + 1], seen |-> frame, late |-> late]

\* Variant: the row is looked up among all the connections.
NamedInAll(s) == Rows("connection", Sorted(s.conns))

\* selected_connection_name
Named(s) == StatusRows(s)

\* Up, down and switch backend.
StatusAct ==
  /\ ~ui.filter /\ ui.tab = "Status" /\ rows.status < Len(Named(ui))
  /\ Acts(rows.status, Named(ui)) /\ Handled(ui, rows)

\* selected_backend: Enter and `w`, in both views.
SelectedBackend(r) == BackendRows[r.live + 1]

CompareAct ==
  /\ ~ui.filter /\ ui.tab = "Compare"
  /\ acted' = [on |-> SelectedBackend(rows), seen |-> frame, late |-> late]
  /\ Handled(ui, rows)

ToggleVisibility(s, c) ==
  [s EXCEPT !.visible = IF c \in @ THEN @ \ {c} ELSE @ \cup {c}]

FilterAct ==
  /\ ui.filter /\ rows.filter < Len(FilterRows(ui))
  /\ Acts(rows.filter, FilterRows(ui))
  /\ Handled(ToggleVisibility(ui, FilterRows(ui)[rows.filter + 1].which), rows)

OpenFilter ==
  /\ ~ui.filter /\ ui.tab = "Status" /\ NothingActs
  /\ Handled([ui EXCEPT !.filter = TRUE], [rows EXCEPT !.filter = 0])

\* SetConnectionFilterSearch: typing and deleting.
QueryKey ==
  /\ ui.filter /\ NothingActs
  /\ \E match \in SUBSET RowConn :
       Handled([ui EXCEPT !.match = match], [rows EXCEPT !.filter = 0])

CloseFilter ==
  /\ ui.filter /\ NothingActs
  /\ Handled([ui EXCEPT !.filter = FALSE, !.match = RowConn], rows)

\* A tick, and a key or a click without effect.
OtherEvent == Handled(ui, rows) /\ NothingActs

-----------------------------------------------------------------------------
(* The top of the loop                                                      *)

\* handle_daemon_messages may find a ReloadConfig or a BenchmarkComplete; the overlay
\* stays open.  Then the size is read.
Top ==
  /\ loop = "top" /\ loop' = "wait" /\ UNCHANGED <<rows, frame>> /\ NothingActs
  /\ \/ UNCHANGED <<ui, late>>
     \/ \E S \in SUBSET RowConn : ui' = [ui EXCEPT !.conns = S, !.visible = S] /\ late' = TRUE
     \/ ui.past < MaxPast /\ ui' = [ui EXCEPT !.past = @ + 1] /\ UNCHANGED late
  /\ term' = [term EXCEPT !.read = term.now]

\* The event source drops the terminal's resize events.
Resize ==
  /\ term' = [term EXCEPT !.now = ~@]
  /\ UNCHANGED <<ui, rows, loop, frame, late>> /\ NothingActs

RowsInit ==
  /\ \E S \in SUBSET RowConn :
       ui = [conns |-> S, visible |-> S, tab |-> "Overview", filter |-> FALSE, match |-> RowConn,
             view |-> "Live", past |-> 0]
  /\ rows = [l \in Lists |-> 0] /\ loop = "top" /\ term = [now |-> TRUE, read |-> TRUE]
  /\ frame = Blank /\ late = FALSE /\ acted = NoAct

RowsNext ==
  \/ StepRow \/ SelectRowTab \/ ToggleCompareView \/ CompareAct \/ StatusAct \/ FilterAct \/ OpenFilter \/ QueryKey \/ CloseFilter
  \/ OtherEvent \/ Top \/ Resize

RowsSpec == RowsInit /\ [][RowsNext]_rowsVars

-----------------------------------------------------------------------------
(* Properties                                                               *)

\* A key acts on the row that the last frame highlights: whatever has been filtered,
\* scrolled, searched, switched or resized, the row in the component's state is looked
\* up in the list that has been drawn.  Three cases are left, and all are real: a
\* config that was reloaded after the frame, a terminal too small to draw, and the
\* history of the Compare tab, where the keys mean a backend in the hidden table.
ActsOnHighlighted ==
  acted.on = acted.seen \/ acted.late \/ acted.seen = Blank \/ acted.seen.kind = "run"
    \/ (acted.on.kind = "backend" /\ acted.seen = NoRow)
=============================================================================
