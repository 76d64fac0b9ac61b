------------------------------- MODULE Chrome -------------------------------
(***************************************************************************)
(* What the TUI draws around its tabs: the line at the bottom, in which a  *)
(* query or a path is typed, and the toasts in the corner                  *)
(* (ferro-wg-tui-components/src/status_bar.rs and toast.rs), over the      *)
(* handlers of AppState (ferro-wg-tui-core/src/state.rs) and the turns of  *)
(* the event loop (ferro-wg-tui/src/lib.rs).                               *)
(*                                                                         *)
(* A text is a sequence of characters; a toast is its number, in the order *)
(* in which the loop has pushed them.  Time passes while the loop waits    *)
(* for an event.  Hints and colours are left out.                          *)
(***************************************************************************)
EXTENDS Integers, Sequences, SequencesExt

CONSTANTS
  Chars,       \* characters that are typed
  MaxText,     \* bound of the model: length of a text
  MaxToasts,   \* MAX_VISIBLE_TOASTS (5)
  ToastTicks,  \* TOAST_DURATION, in steps of the clock
  MaxPushed    \* bound of the model: toasts in a behaviour

ASSUME ChromeAssumption ==
  /\ MaxText \in Nat /\ MaxPushed \in Nat
  /\ MaxToasts \in Nat \ {0} /\ ToastTicks \in Nat \ {0}

VARIABLES
  input,   \* input_mode with its buffer, and search_query
  toasts,  \* AppState::toasts
  left,    \* toast -> time until it expires, for every toast pushed
  turn,    \* where the loop is in its turn
  screen,  \* what the last frame shows of the line and of the toasts
  given    \* history: the path that the last key gave to a task, and the line before it

chromeVars == <<input, toasts, left, turn, screen, given>>

Hints == [mode |-> "Normal", text |-> <<>>]
NothingDrawn == [line |-> [mode |-> "too small", text |-> <<>>], toasts |-> <<>>, pushed |-> 0]
NoPath == [path |-> Hints, seen |-> Hints]
NoPathGiven == given' = NoPath

\* apply_import_key, apply_export_key and SearchInput have no bound.
TextKeys(text) ==
  {Append(text, c) : c \in IF Len(text) < MaxText THEN Chars ELSE {}}
    \cup {IF text = <<>> THEN text ELSE Front(text)}

-----------------------------------------------------------------------------
(* Toasts                                                                   *)

\* push_toast
PushToast(id) ==
  LET pushed == Append(toasts, id)
  IN  IF Len(pushed) > MaxToasts THEN Tail(pushed) ELSE pushed

\* handle_daemon_messages: DaemonOk or DaemonError.
Feedback ==
  /\ turn = "messages" /\ Len(left) < MaxPushed
  /\ left' = Append(left, ToastTicks) /\ toasts' = PushToast(Len(left'))
  /\ UNCHANGED <<input, turn, screen, given>>

IsExpired(id) == left[id] = 0

\* clear_expired_toasts pops from the front, up to one that has not expired.
ClearExpired ==
  LET Lasting == {i \in DOMAIN toasts : ~IsExpired(toasts[i])}
      first == CHOOSE i \in Lasting : \A j \in Lasting : i <= j
  IN  /\ turn = "messages" /\ turn' = "cleared"
      /\ toasts' = IF Lasting = {} THEN <<>> ELSE SubSeq(toasts, first, Len(toasts))
      /\ UNCHANGED <<input, left, screen, given>>

\* events.next(), and time passes.
Wait ==
  /\ turn = "cleared" /\ turn' = "event"
  /\ \E t \in 0 .. ToastTicks :
       left' = [i \in DOMAIN left |-> IF left[i] > t THEN left[i] - t ELSE 0]
  /\ UNCHANGED <<input, toasts, screen, given>>

-----------------------------------------------------------------------------
(* Keys                                                                     *)

\* A key that changes the input, or another event.
Typed(i) == turn = "event" /\ turn' = "draw" /\ input' = i /\ UNCHANGED <<toasts, left, screen>>

Entered(mode) == [input EXCEPT !.mode = mode, !.buffer = <<>>]

\* EnterSearch also empties the query.
EnterText ==
  /\ input.mode = "Normal" /\ NoPathGiven
  /\ \/ Typed([Entered("Search") EXCEPT !.query = <<>>])
     \/ \E mode \in {"Import", "Export"} : Typed(Entered(mode))

SearchText ==
  /\ input.mode = "Search" /\ NoPathGiven
  /\ \E text \in TextKeys(input.query) : Typed([input EXCEPT !.query = text])

\* ImportKey and ExportKey.
PathText ==
  /\ input.mode \in {"Import", "Export"} /\ NoPathGiven
  /\ \E text \in TextKeys(input.buffer) : Typed([input EXCEPT !.buffer = text])

\* Esc, and Enter in a search, which keeps the query.
LeaveText == input.mode # "Normal" /\ Typed(Entered("Normal")) /\ NoPathGiven

\* Enter: handle_key_event captures the path before the dispatch.
SubmitPath ==
  /\ input.mode \in {"Import", "Export"} /\ Typed(Entered("Normal"))
  /\ given' = [path |-> [mode |-> input.mode, text |-> input.buffer], seen |-> screen.line]

OtherInput == Typed(input) /\ NoPathGiven

-----------------------------------------------------------------------------
(* The frame                                                                *)

\* build_status_line
StatusLine ==
  CASE input.mode = "Normal" -> Hints
    [] input.mode = "Search" -> [mode |-> "Search", text |-> input.query]
    [] OTHER -> [mode |-> input.mode, text |-> input.buffer]

\* ToastComponent: the newest at the bottom; a terminal that is large enough has rows
\* for all of them.
DrawChrome ==
  /\ turn = "draw" /\ turn' = "messages"
  /\ \/ screen' = [line |-> StatusLine, toasts |-> Reverse(toasts), pushed |-> Len(left)]
     \/ screen' = NothingDrawn
  /\ UNCHANGED <<input, toasts, left, given>>

ChromeInit ==
  /\ input = [mode |-> "Normal", buffer |-> <<>>, query |-> <<>>]
  /\ toasts = <<>> /\ left = <<>> /\ turn = "messages"
  /\ screen = NothingDrawn /\ given = NoPath

ChromeNext ==
  \/ Feedback \/ ClearExpired \/ Wait \/ EnterText \/ SearchText \/ PathText \/ LeaveText
  \/ SubmitPath \/ OtherInput \/ DrawChrome

ChromeSpec == ChromeInit /\ [][ChromeNext]_chromeVars

-----------------------------------------------------------------------------
(* Properties                                                               *)

\* The path that an import or an export gets is the one that the last frame shows, and
\* for the same purpose, unless the terminal is too small to show any.
PathAsShown == given.path = given.seen \/ given.seen = NothingDrawn.line

Newest == {id \in 1 .. Len(left) : id > Len(left) - MaxToasts}

\* When the loop begins to wait the corner has the newest toasts, and of them all those
\* that have not expired, in order: none is pushed out by one that is older or gone, and none stays
\* beyond its time, although the queue is only looked at from its front.  A frame shows
\* each of them until its time is over.
ToastsNewest ==
  /\ turn = "cleared" => Range(toasts) = {id \in Newest : ~IsExpired(id)}
  /\ \A i, j \in DOMAIN toasts : i < j => toasts[i] < toasts[j]
  /\ \A id \in 1 .. screen.pushed :
       ~IsExpired(id) /\ id > screen.pushed - MaxToasts => id \in Range(screen.toasts)
=============================================================================
