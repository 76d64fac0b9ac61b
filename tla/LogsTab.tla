------------------------------ MODULE LogsTab -------------------------------
(***************************************************************************)
(* The Logs tab (ferro-wg-tui-components/src/logs.rs) over the buffer that *)
(* the log stream task of the TUI fills (ferro-wg-tui/src/lib.rs), and the *)
(* filters of ferro-wg-core/src/logs.rs.  The task appends at any moment;  *)
(* a key works with the height that the last frame has cached, and the     *)
(* frame that follows it takes the buffer as it is by then.                *)
(*                                                                         *)
(* An entry is what the filters tell apart: its level, the connection it   *)
(* is about, and whether the search text of the model occurs in it.        *)
(* Colours, timestamps and the highlighting of matches are left out.       *)
(*                                                                         *)
(* Operators whose comment starts with "Variant" are not part of the       *)
(* specification, see TunnelManager.                                       *)
(***************************************************************************)
EXTENDS Integers, Sequences, SequencesExt, Selection

CONSTANTS
  LogConn,      \* connections
  Global,       \* connection_name: None
  LogCap,       \* capacity of log_entries (1000)
  Kinds,        \* what may be logged
  Heights,      \* rows that a frame may have for entries
  MaxLogged     \* bound of the model: entries that arrive

ASSUME LogsAssumption ==
  /\ Global \notin LogConn /\ LogCap \in Nat \ {0} /\ MaxLogged \in Nat
  /\ Kinds \subseteq [level : 0 .. 4, conn : LogConn \cup {Global}, hit : BOOLEAN]
  /\ Heights \subseteq Nat

\* LogLevel, by severity
Trace == 0
Debug == 1
Error == 4

VARIABLES
  log,      \* AppState::log_entries
  search,   \* is search_query the search text; else it is empty
  shown,    \* visible_connections
  scroll,   \* LogsComponent: ScrollState, min_level, connection_filter
  page,     \* the last frame, and what brings the next one
  logged    \* history: entries that have arrived

logsVars == <<log, search, shown, scroll, page, logged>>

Scroll == [offset : Nat, auto : BOOLEAN, height : Nat, min : Debug .. Error, active : BOOLEAN]

LogsInit ==
  /\ log = <<>> /\ search = FALSE /\ shown = LogConn
  /\ scroll = [offset |-> 0, auto |-> TRUE, height |-> 0, min |-> Debug, active |-> FALSE]
  /\ page = [due |-> "tick", drawn |-> FALSE, evicted |-> 0, lines |-> <<>>]
  /\ logged = 0

Floor(n) == IF n < 0 THEN 0 ELSE n   \* saturating_sub
Least(m, n) == IF m < n THEN m ELSE n

-----------------------------------------------------------------------------
(* Filters                                                                  *)

\* entry_passes_filter: trace entries always pass.
LevelPasses(e, min) == e.level = Trace \/ e.level >= min

MatchesSearch(e, query) == query => e.hit

\* filtered_lines; with no filter on, nothing is looked at.
LinePasses(e, query, min) ==
  (min = Debug /\ ~query) \/ (LevelPasses(e, min) /\ MatchesSearch(e, query))

\* The connection filter is not applied by filtered_lines.
ConnectionPasses(e) == scroll.active => e.conn = Global \/ e.conn \in shown

FilteredEntries(entries) ==
  Picked(entries, {i \in DOMAIN entries :
                     LinePasses(entries[i], search, scroll.min) /\ ConnectionPasses(entries[i])})

FilteredTotal == Len(FilteredEntries(log))

\* Variant: a view that has room below its last line moves down.
DisplayOffsetClamped(height, total) ==
  IF scroll.auto THEN Floor(total - height) ELSE Least(scroll.offset + 1, Floor(total - height))

\* With the height of the frame that is being drawn.
DisplayOffset(height, total) ==
  IF scroll.auto THEN Floor(total - height) ELSE scroll.offset

-----------------------------------------------------------------------------
(* The log stream task                                                      *)

AppendLog(k) ==
  /\ logged < MaxLogged /\ logged' = logged + 1
  /\ log' = Append(IF Len(log) = LogCap THEN Tail(log) ELSE log, k @@ [id |-> logged'])
  /\ UNCHANGED <<search, shown, scroll, page>>

-----------------------------------------------------------------------------
(* Keys, at most one between two frames                                     *)

\* What brings the next frame: "tick", "scroll" or "filter"; "no" between frames.
Event(what) == page.due = "no" /\ page' = [page EXCEPT !.due = what]
Scrolling(s) == Event("scroll") /\ scroll' = s /\ UNCHANGED <<log, search, shown, logged>>
Filtering(s) == Event("filter") /\ scroll' = s /\ UNCHANGED <<log, search, shown, logged>>

ScrollUp ==
  Scrolling(IF scroll.offset > 0
            THEN [scroll EXCEPT !.offset = @ - 1, !.auto = FALSE] ELSE scroll)

ScrollDown ==
  Scrolling(IF scroll.offset < Floor(FilteredTotal - scroll.height)
            THEN [scroll EXCEPT !.offset = @ + 1, !.auto = FALSE] ELSE scroll)

JumpToTop == Scrolling([scroll EXCEPT !.offset = 0, !.auto = FALSE])
JumpToBottom ==
  Scrolling([scroll EXCEPT !.offset = Floor(FilteredTotal - scroll.height), !.auto = TRUE])

Cycle(level) == IF level = Error THEN Debug ELSE level + 1

\* "Clears the stored offset to avoid stale state."
CycleLevel ==
  Filtering([scroll EXCEPT !.min = Cycle(@), !.auto = TRUE, !.offset = 0])
ToggleConnectionFilter ==
  Filtering([scroll EXCEPT !.active = ~@, !.auto = TRUE, !.offset = 0])

\* EnterSearch, ClearSearch and Backspace empty the query, SearchInput fills it;
\* the view stays where it was scrolled to.
SearchKey(query) ==
  Event("search") /\ search' = query /\ UNCHANGED <<log, shown, scroll, logged>>

ToggleVisible(c) ==
  /\ Event("search")
  /\ shown' = IF c \in shown THEN shown \ {c} ELSE shown \cup {c}
  /\ UNCHANGED <<log, search, scroll, logged>>

TickLogs == Event("tick") /\ UNCHANGED <<log, search, shown, scroll, logged>>

-----------------------------------------------------------------------------
(* The frame at the end of the loop's turn                                  *)

Evicted == logged - Len(log)

RenderLogs(h) ==
  LET filtered == FilteredEntries(log)
      first == DisplayOffset(h, Len(filtered))
  IN  /\ page.due # "no"
      /\ scroll' = [scroll EXCEPT !.height = h]
      /\ page' = [due |-> "no", drawn |-> TRUE, evicted |-> Evicted,
                  lines |-> SubSeq(filtered, first + 1, Least(first + h, Len(filtered)))]
      /\ UNCHANGED <<log, search, shown, logged>>

\* The terminal is too small, or another tab is open.
RenderElse ==
  /\ page.due # "no"
  /\ page' = [page EXCEPT !.due = "no", !.drawn = FALSE, !.lines = <<>>]
  /\ UNCHANGED <<log, search, shown, scroll, logged>>

LogsKey ==
  \/ ScrollUp \/ ScrollDown \/ JumpToTop \/ JumpToBottom \/ CycleLevel
  \/ ToggleConnectionFilter \/ \E q \in BOOLEAN : SearchKey(q)
  \/ \E c \in LogConn : ToggleVisible(c)

LogsNext ==
  \/ \E k \in Kinds : AppendLog(k)
  \/ LogsKey \/ TickLogs \/ RenderElse \/ \E h \in Heights : RenderLogs(h)

LogsSpec == LogsInit /\ [][LogsNext]_logsVars

-----------------------------------------------------------------------------
(* Properties                                                               *)

LogsTypeOK ==
  /\ logged \in 0 .. MaxLogged /\ search \in BOOLEAN /\ shown \subseteq LogConn
  /\ scroll \in Scroll /\ page.due \in {"no", "tick", "scroll", "filter", "search"}
  /\ Len(log) <= LogCap /\ Len(page.lines) <= scroll.height

Frame == page.due # "no" /\ page'.due = "no" /\ page'.drawn

\* While the view follows the log, and after a key that changes what passes, the
\* frame is filled with the newest entries that pass, whatever has arrived, been
\* evicted or been resized since the key.
ShowsNewest ==
  [][Frame /\ (scroll.auto \/ page.due = "filter") =>
       LET filtered == FilteredEntries(log)
       IN  /\ Len(page'.lines) = Least(scroll'.height, Len(filtered))
           /\ page'.lines # <<>> => Last(page'.lines) = Last(filtered)]_logsVars

\* A view that was scrolled stays: what arrives between two frames is added below
\* the lines that are shown, as long as the full buffer has dropped nothing.
FrozenView ==
  [][Frame /\ page.due = "tick" /\ page.drawn /\ ~scroll.auto
       /\ page.evicted = Evicted /\ scroll'.height >= scroll.height
     => IsPrefix(page.lines, page'.lines)]_logsVars
=============================================================================
