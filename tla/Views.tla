------------------------------- MODULE Views --------------------------------
(***************************************************************************)
(* The parts of the TUI that share no state: each is a specification of    *)
(* its own, and the conjunction of two is their composition.  What they    *)
(* promise together.                                                       *)
(***************************************************************************)
EXTENDS LogsTab, CompareTab, TuiRows, Chrome, ConfigDiff, ConfigTab, ConnectionBar, StatusView

\* The two tabs are consistent: typed, every buffer within its capacity, the flag and
\* the live view of the Compare tab about the benchmark that runs.
TabsConsistent == LogsTypeOK /\ CompareTypeOK /\ FlagHonest /\ LiveOfOneRun

\* What is on the screen beside the tabs' rows is so: the diff, the field that is edited,
\* the path and the toasts.
ScreenFaithful == DiffFaithful /\ EditedShown /\ PathAsShown /\ ToastsNewest

\* The log view shows the newest entries or stands still.
LogViewSteady == ShowsNewest /\ FrozenView
=============================================================================
