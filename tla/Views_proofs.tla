---------------------------- MODULE Views_proofs ----------------------------
(***************************************************************************)
(* Proofs about the views of the TUI, each with an inductive invariant of  *)
(* its own: the Compare tab and the file of its history, the Logs tab, the *)
(* rows that keys act on, the line at the bottom and the toasts, the form  *)
(* of the Config tab, the diff preview, the rows that follow the daemon,   *)
(* and the connection bar.                                                 *)
(*                                                                         *)
(* The library's theorems on induction take an operator as a parameter;    *)
(* InductionOnSets, from the well-foundedness of the numbers, does not.    *)
(***************************************************************************)
EXTENDS Views, FiniteSetTheorems, SequenceTheorems, WellFoundedInduction, TLAPS

-----------------------------------------------------------------------------
(* Numbers and sequences                                                    *)

LEMMA LeastOf ==
  ASSUME NEW S, S \subseteq Nat, S # {}
  PROVE  \E n \in S : \A m \in S : n <= m
<1>1. PICK n \in S : \A m \in S : <<m, n>> \notin OpToRel(<, Nat)
  BY NatLessThanWellFounded, WFMin
<1>2. ASSUME NEW m \in S  PROVE ~ (m < n)
  <2>1. m < n => <<m, n>> \in OpToRel(<, Nat) BY Zenon DEF OpToRel
  <2> QED BY <2>1, <1>1
<1>3. \A m \in S : n <= m BY <1>2
<1> QED BY <1>3

LEMMA InductionOnSets ==
  ASSUME NEW S, 0 \in S, \A n \in Nat : n \in S => n + 1 \in S
  PROVE  Nat \subseteq S
<1> SUFFICES ASSUME Nat \ S # {} PROVE FALSE
  OBVIOUS
<1>1. PICK n \in Nat \ S : \A m \in Nat \ S : n <= m
  BY LeastOf
<1>2. n # 0 /\ n - 1 \in Nat
  BY <1>1
<1>3. n - 1 \in S
  BY <1>1, <1>2
<1> QED BY <1>1, <1>2, <1>3

-----------------------------------------------------------------------------
(* Picked                                                                   *)

\* g is the function by which Picked is defined, for the first k elements.
IsPicking(s, I, g, k) ==
  g = [n \in 0 .. k |-> IF n = 0 THEN <<>>
                        ELSE IF n \in I THEN Append(g[n - 1], s[n]) ELSE g[n - 1]]

PickedAt(s, I, g, n) ==
  IF n = 0 THEN <<>> ELSE IF n \in I THEN Append(g[n - 1], s[n]) ELSE g[n - 1]

LEMMA PickingStep ==
  ASSUME NEW s, NEW I, NEW g, NEW k \in Nat, IsPicking(s, I, g, k), NEW n \in 0 .. k
  PROVE  g[n] = PickedAt(s, I, g, n)
<1>1. g = [m \in 0 .. k |-> PickedAt(s, I, g, m)]
  BY Zenon DEF IsPicking, PickedAt
<1>2. PICK f : f = [m \in 0 .. k |-> PickedAt(s, I, g, m)]
  OBVIOUS
<1>3. f[n] = PickedAt(s, I, g, n)
  BY <1>2
<1> QED BY <1>1, <1>2, <1>3

LEMMA PickingNext ==
  ASSUME NEW s, NEW I, NEW g, NEW k \in Nat, IsPicking(s, I, g, k), NEW n \in Nat, n + 1 <= k
  PROVE  g[n + 1] = IF n + 1 \in I THEN Append(g[n], s[n + 1]) ELSE g[n]
<1>1. n + 1 \in 0 .. k /\ n + 1 # 0 /\ (n + 1) - 1 = n
  OBVIOUS
<1>2. g[n + 1] = PickedAt(s, I, g, n + 1)
  BY <1>1, PickingStep
<1> QED BY <1>1, <1>2 DEF PickedAt

LEMMA PickingStarts ==
  ASSUME NEW s, NEW I, NEW g, NEW k \in Nat, IsPicking(s, I, g, k)
  PROVE  g[0] = <<>>
<1>1. g[0] = PickedAt(s, I, g, 0)
  BY PickingStep
<1> QED BY <1>1 DEF PickedAt

LEMMA PickingExists ==
  ASSUME NEW s, NEW I
  PROVE  \A k \in Nat : \E g : IsPicking(s, I, g, k)
<1> DEFINE K == {k \in Nat : \E g : IsPicking(s, I, g, k)}
<1>1. 0 \in K
  <2>1. IsPicking(s, I, [n \in 0 .. 0 |-> <<>>], 0)
    BY DEF IsPicking
  <2> QED BY <2>1
<1>2. ASSUME NEW k \in Nat, k \in K PROVE k + 1 \in K
  <2>1. PICK g : IsPicking(s, I, g, k)
    BY <1>2
  <2>2. PICK last : last = IF k + 1 \in I THEN Append(g[k], s[k + 1]) ELSE g[k]
    OBVIOUS
  <2>3. PICK h : h = [n \in 0 .. k + 1 |-> IF n = k + 1 THEN last ELSE g[n]]
    OBVIOUS
  <2>4. \A n \in 0 .. k : h[n] = g[n]
    BY <2>3
  <2>5. ASSUME NEW n \in 0 .. k + 1
        PROVE  h[n] = IF n = 0 THEN <<>>
                      ELSE IF n \in I THEN Append(h[n - 1], s[n]) ELSE h[n - 1]
    <3>1. CASE n = k + 1
      <4>1. h[n] = last /\ n # 0 /\ n - 1 = k /\ h[k] = g[k]
        BY <3>1, <2>3, <2>4
      <4> QED BY <4>1, <3>1, <2>2
    <3>2. CASE n \in 0 .. k
      <4>1. g[n] = IF n = 0 THEN <<>>
                   ELSE IF n \in I THEN Append(g[n - 1], s[n]) ELSE g[n - 1]
        BY <2>1, <3>2 DEF IsPicking
      <4>2. h[n] = g[n] /\ (n # 0 => h[n - 1] = g[n - 1])
        BY <2>4, <3>2
      <4> QED BY <4>1, <4>2
    <3> QED BY <3>1, <3>2
  <2>6. IsPicking(s, I, h, k + 1)
    BY <2>3, <2>5, Zenon DEF IsPicking
  <2> QED BY <2>6
<1> HIDE DEF K
<1>3. Nat \subseteq K
  BY <1>1, <1>2, InductionOnSets
<1> QED BY <1>3 DEF K

\* What is picked from the first elements does not depend on the others.
LEMMA PickingsAgree ==
  ASSUME NEW s, NEW t, NEW I, NEW J, NEW g, NEW h, NEW k \in Nat, NEW l \in Nat,
         IsPicking(s, I, g, k), IsPicking(t, J, h, l), k <= l,
         \A i \in 1 .. k : (i \in I <=> i \in J) /\ s[i] = t[i]
  PROVE  g[k] = h[k]
<1> DEFINE N == {n \in Nat : n <= k => g[n] = h[n]}
<1>1. 0 \in N
  BY PickingStarts
<1>2. ASSUME NEW n \in Nat, n \in N PROVE n + 1 \in N
  <2> SUFFICES ASSUME n + 1 <= k PROVE g[n + 1] = h[n + 1]
    OBVIOUS
  <2>1. g[n] = h[n] /\ n + 1 \in 1 .. k /\ n + 1 <= l
    BY <1>2
  <2>2. g[n + 1] = IF n + 1 \in I THEN Append(g[n], s[n + 1]) ELSE g[n]
    BY PickingNext
  <2>3. h[n + 1] = IF n + 1 \in J THEN Append(h[n], t[n + 1]) ELSE h[n]
    BY <2>1, PickingNext
  <2> QED BY <2>1, <2>2, <2>3
<1> HIDE DEF N
<1>3. Nat \subseteq N
  BY <1>1, <1>2, InductionOnSets
<1> QED BY <1>3 DEF N

LEMMA PickedIs ==
  ASSUME NEW E, NEW s \in Seq(E), NEW I
  PROVE  \E g : IsPicking(s, I, g, Len(s)) /\ Picked(s, I) = g[Len(s)]
<1> DEFINE c == CHOOSE g : IsPicking(s, I, g, Len(s))
<1>1. IsPicking(s, I, c, Len(s))
  <2>1. Len(s) \in Nat
    OBVIOUS
  <2>2. \E g : IsPicking(s, I, g, Len(s))
    BY <2>1, PickingExists
  <2> QED BY <2>2
<1>2. Picked(s, I) = c[Len(s)]
  BY DEF Picked, IsPicking
<1> QED BY <1>1, <1>2

LEMMA PickedAppend ==
  ASSUME NEW E, NEW s \in Seq(E), NEW e \in E, NEW I, NEW J,
         \A i \in 1 .. Len(s) : i \in I <=> i \in J
  PROVE  Picked(Append(s, e), J) =
           IF Len(s) + 1 \in J THEN Append(Picked(s, I), e) ELSE Picked(s, I)
<1>1. PICK t : t = Append(s, e)
  OBVIOUS
<1>2. /\ t \in Seq(E) /\ Len(t) = Len(s) + 1 /\ t[Len(s) + 1] = e
      /\ \A i \in 1 .. Len(s) : t[i] = s[i]
  BY <1>1
<1>3. PICK g : IsPicking(s, I, g, Len(s)) /\ Picked(s, I) = g[Len(s)]
  BY PickedIs
<1>4. PICK h : IsPicking(t, J, h, Len(t)) /\ Picked(t, J) = h[Len(t)]
  BY <1>2, PickedIs
<1>5. g[Len(s)] = h[Len(s)]
  <2>1. Len(s) \in Nat /\ Len(t) \in Nat /\ Len(s) <= Len(t) /\ Len(s) \in 0 .. Len(s)
    BY <1>2
  <2>2. \A i \in 1 .. Len(s) : (i \in I <=> i \in J) /\ s[i] = t[i]
    BY <1>2
  <2>3. IsPicking(s, I, g, Len(s)) /\ IsPicking(t, J, h, Len(t))
    BY <1>3, <1>4
  <2>4. g[Len(s)] = h[Len(s)]
    <3>1. PICK k \in Nat, l \in Nat : k = Len(s) /\ l = Len(t)
      BY <2>1
    <3>2. IsPicking(s, I, g, k) /\ IsPicking(t, J, h, l) /\ k <= l
      BY <2>1, <2>3, <3>1
    <3>3. \A i \in 1 .. k : (i \in I <=> i \in J) /\ s[i] = t[i]
      BY <2>2, <3>1
    <3>4. g[k] = h[k]
      BY <3>2, <3>3, PickingsAgree
    <3> QED BY <3>1, <3>4
  <2> QED BY <2>1, <2>4
<1>6. h[Len(s) + 1] = IF Len(s) + 1 \in J THEN Append(h[Len(s)], t[Len(s) + 1]) ELSE h[Len(s)]
  <2>1. Len(s) \in Nat /\ Len(t) \in Nat /\ Len(s) + 1 <= Len(t)
    BY <1>2
  <2> QED BY <1>4, <2>1, PickingNext
<1> QED BY <1>1, <1>2, <1>3, <1>4, <1>5, <1>6

LEMMA PickedType ==
  ASSUME NEW E, NEW s \in Seq(E), NEW I
  PROVE  Picked(s, I) \in Seq(E)
<1>1. PICK g : IsPicking(s, I, g, Len(s)) /\ Picked(s, I) = g[Len(s)]
  BY PickedIs
<1> DEFINE N == {n \in Nat : n <= Len(s) => g[n] \in Seq(E)}
<1>2. 0 \in N
  <2>1. Len(s) \in Nat
    OBVIOUS
  <2>2. g[0] = <<>>
    BY <1>1, <2>1, PickingStarts
  <2>3. <<>> \in Seq(E)
    OBVIOUS
  <2> QED BY <2>2, <2>3
<1>3. ASSUME NEW n \in Nat, n \in N PROVE n + 1 \in N
  <2> SUFFICES ASSUME n + 1 <= Len(s) PROVE g[n + 1] \in Seq(E)
    OBVIOUS
  <2>1. g[n] \in Seq(E) /\ n + 1 \in 1 .. Len(s) /\ Len(s) \in Nat
    BY <1>3
  <2>2. g[n + 1] = IF n + 1 \in I THEN Append(g[n], s[n + 1]) ELSE g[n]
    BY <1>1, <2>1, PickingNext
  <2>3. s[n + 1] \in E
    BY <2>1
  <2> QED BY <2>1, <2>2, <2>3
<1> HIDE DEF N
<1>4. Nat \subseteq N
  BY <1>2, <1>3, InductionOnSets
<1>5. Len(s) \in Nat
  OBVIOUS
<1> QED BY <1>1, <1>4, <1>5 DEF N

-----------------------------------------------------------------------------
(* Sequences                                                                *)

LEMMA ElementIs == ASSUME NEW S, NEW s \in Seq(S), NEW i \in 1 .. Len(s) PROVE s[i] \in S
OBVIOUS

LEMMA FunctionIsSequence ==
  ASSUME NEW S, NEW n \in Nat, NEW f \in [1 .. n -> S] PROVE f \in Seq(S) /\ Len(f) = n
OBVIOUS

-----------------------------------------------------------------------------
(* CompareTab: the flag and the live view                                   *)

\* Benchmark messages, and saves.
BenchMail == [kind : {"progress", "complete"}, run : Run, engine : Engine]
Saves == [at : {"none", "queued", "open"}, runs : Seq(Record)]

CompareTyped ==
  /\ bench \in [running : BOOLEAN, results : [Engine -> 0 .. MaxRuns], progress : Seq(Run)]
  /\ Len(bench.progress) <= ProgressCap
  /\ history \in Seq(Record) /\ past \in Seq(Record) /\ Len(history) <= HistoryCap
  /\ named \subseteq CompareConn
  /\ task \in [Run -> {"unborn", "running", "ended"}] /\ mail \in Seq(BenchMail)
  /\ save \in [Run -> Saves]
  /\ file \in [state : {"missing", "empty", "garbage", "whole"}, runs : Seq(Record)]

\* While the flag is up, everything that is on its way or shown is of one benchmark, and
\* its result is the last message; while it is down nothing is on its way.
OneRunning(c) ==
  /\ Running \subseteq {c} /\ bench.results = NoResults
  /\ \A i \in DOMAIN bench.progress : bench.progress[i] = c
  /\ \A i \in DOMAIN mail :
       mail[i].run = c /\ (mail[i].kind = "complete" => i = Len(mail) /\ Running = {})

NoneRunning ==
  /\ Running = {} /\ mail = <<>>
  /\ \E c \in 0 .. MaxRuns : \A e \in Engine : bench.results[e] \in {0, c}

OneRun ==
  "twice" \notin odd =>
    /\ bench.running => \E c \in 0 .. MaxRuns : OneRunning(c)
    /\ ~bench.running => NoneRunning

\* A save that is alone holds the history, and once it has begun the file is empty.
OneSave ==
  "apart" \notin odd =>
    /\ \A r, q \in Run : save[r].at # "none" /\ save[q].at # "none" => r = q
    /\ \A r \in Run : save[r].at # "none" => save[r].runs = history
    /\ \A r \in Run : save[r].at = "open" => file.state = "empty"

\* What is or will be in the file fits the history; a broken file holds no runs.
FileFits ==
  /\ file.state # "whole" => file.runs = <<>>
  /\ Len(file.runs) <= HistoryCap
  /\ \A r \in Run : Len(save[r].runs) <= HistoryCap

CompareInv ==
  CompareTyped /\ OneRun /\ FlagHonest /\ FileFits /\ OneSave /\ HistoryIsNewest /\ FileIsHistory

-----------------------------------------------------------------------------
(* CompareTab: operators                                                    *)

LEMMA FirstIsIn ==
  ASSUME NEW S, S \subseteq Nat
  PROVE  /\ S # {} => FirstOf(S) \in S
         /\ S = {} => FirstOf(S) = 0
<1>1. S # {} => \E n \in S : \A m \in S : n <= m BY LeastOf
<1> QED BY <1>1 DEF FirstOf

\* cap_history keeps the newest runs, whether it has dropped older ones before or not.
LEMMA CapHistoryProperties ==
  ASSUME NEW S, NEW s \in Seq(S), NEW x \in S
  PROVE  /\ CapHistory(s) \in Seq(S) /\ Len(CapHistory(s)) <= HistoryCap
         /\ CapHistory(Append(CapHistory(s), x)) = CapHistory(Append(s, x))
<1> DEFINE cap == HistoryCap
<1>1. cap \in Nat \ {0} BY CompareAssumption
<1>2. CASE Len(s) <= cap
  BY <1>1, <1>2 DEF CapHistory, Limit
<1>3. CASE Len(s) > cap
  <2> DEFINE kept == SubSeq(s, Len(s) - cap + 1, Len(s))
             more == Append(kept, x)
             all == Append(s, x)
  <2>1. CapHistory(s) = kept
    BY <1>1, <1>3 DEF CapHistory, Limit
  <2>2. /\ kept \in Seq(S) /\ Len(kept) = cap
        /\ \A i \in 1 .. cap : kept[i] = s[Len(s) - cap + i]
    BY <1>1, <1>3
  <2>3. /\ more \in Seq(S) /\ Len(more) = cap + 1 /\ more[cap + 1] = x
        /\ \A i \in 1 .. cap : more[i] = s[Len(s) - cap + i]
    BY <2>2, <1>1
  <2>4. /\ all \in Seq(S) /\ Len(all) = Len(s) + 1 /\ all[Len(s) + 1] = x
        /\ \A i \in 1 .. Len(s) : all[i] = s[i]
    OBVIOUS
  <2>5. CapHistory(more) = SubSeq(more, 2, cap + 1)
    <3>1. Len(more) > cap /\ Len(more) - cap + 1 = 2
      BY <1>1, <2>3
    <3> QED BY <3>1, <2>3, <1>1 DEF CapHistory, Limit
  <2>6. CapHistory(all) = SubSeq(all, Len(s) - cap + 2, Len(s) + 1)
    <3>1. Len(all) > cap /\ Len(all) - cap + 1 = Len(s) - cap + 2
      BY <1>1, <1>3, <2>4
    <3> QED BY <3>1, <2>4, <1>1 DEF CapHistory, Limit
  <2> HIDE DEF kept, more, all
  <2>7. SubSeq(more, 2, cap + 1) \in Seq(S) /\ SubSeq(all, Len(s) - cap + 2, Len(s) + 1) \in Seq(S)
    BY <1>1, <1>3, <2>3, <2>4
  <2>8. Len(SubSeq(more, 2, cap + 1)) = cap /\ Len(SubSeq(all, Len(s) - cap + 2, Len(s) + 1)) = cap
    BY <1>1, <1>3, <2>3, <2>4
  <2>9. ASSUME NEW i \in 1 .. cap
        PROVE  SubSeq(more, 2, cap + 1)[i] = SubSeq(all, Len(s) - cap + 2, Len(s) + 1)[i]
    <3>1. SubSeq(more, 2, cap + 1)[i] = more[i + 1]
      BY <1>1, <2>3
    <3>2. SubSeq(all, Len(s) - cap + 2, Len(s) + 1)[i] = all[Len(s) - cap + 1 + i]
      BY <1>1, <1>3, <2>4
    <3>3. more[i + 1] = all[Len(s) - cap + 1 + i]
      <4>1. CASE i = cap
        <5>1. i + 1 = cap + 1 /\ Len(s) - cap + 1 + i = Len(s) + 1
          BY <4>1, <1>1
        <5> QED BY <5>1, <2>3, <2>4
      <4>2. CASE i < cap
        <5>1. /\ i + 1 \in 1 .. cap /\ Len(s) - cap + 1 + i \in 1 .. Len(s)
              /\ Len(s) - cap + (i + 1) = Len(s) - cap + 1 + i
          BY <4>2, <1>1, <1>3
        <5>2. more[i + 1] = s[Len(s) - cap + (i + 1)]
          BY <5>1, <2>3
        <5>3. all[Len(s) - cap + 1 + i] = s[Len(s) - cap + 1 + i]
          BY <5>1, <2>4
        <5> QED BY <5>1, <5>2, <5>3
      <4> QED BY <4>1, <4>2, <1>1
    <3> QED BY <3>1, <3>2, <3>3
  <2>10. SubSeq(more, 2, cap + 1) = SubSeq(all, Len(s) - cap + 2, Len(s) + 1)
    BY <2>7, <2>8, <2>9, SeqEqual
  <2>11. CapHistory(more) = CapHistory(all)
    BY <2>5, <2>6, <2>10
  <2>12. CapHistory(Append(CapHistory(s), x)) = CapHistory(more)
    BY <2>1 DEF more
  <2>13. CapHistory(Append(s, x)) = CapHistory(all)
    BY DEF all
  <2> QED BY <2>1, <2>2, <2>11, <2>12, <2>13, <1>1
<1> QED BY <1>1, <1>2, <1>3
LEMMA RunsAreNumbers == Run \subseteq Nat \ {0} /\ \A r \in Run : r \in 0 .. MaxRuns
BY CompareAssumption DEF Run

LEMMA NoResultsType == NoResults \in [Engine -> 0 .. MaxRuns]
BY CompareAssumption DEF NoResults

LEMMA CompareInitInvariant == CompareInit => CompareInv
<1> SUFFICES ASSUME CompareInit PROVE CompareInv
  OBVIOUS
<1>1. CompareTyped
  <2>1. bench \in [running : BOOLEAN, results : [Engine -> 0 .. MaxRuns], progress : Seq(Run)]
    BY NoResultsType DEF CompareInit
  <2>2. save \in [Run -> Saves]
    BY DEF CompareInit, NoSave, Saves
  <2>3. file \in [state : {"missing", "empty", "garbage", "whole"}, runs : Seq(Record)]
    BY DEF CompareInit, Broken
  <2> QED BY <2>1, <2>2, <2>3, CompareAssumption DEF CompareInit, CompareTyped
<1>2. OneRun
  <2>1. \A e \in Engine : bench.results[e] \in {0, 0}
    BY DEF CompareInit, NoResults
  <2>2. Running = {} /\ mail = <<>> /\ ~bench.running
    BY DEF CompareInit, Running
  <2>3. 0 \in 0 .. MaxRuns
    BY CompareAssumption
  <2> QED BY <2>1, <2>2, <2>3 DEF OneRun, NoneRunning
<1>3. FlagHonest
  BY DEF CompareInit, FlagHonest, Running, Due
<1>4. FileFits /\ OneSave /\ FileIsHistory
  BY CompareAssumption DEF CompareInit, FileFits, OneSave, FileIsHistory, NoSave, Broken
<1>5. HistoryIsNewest
  BY CompareAssumption DEF CompareInit, HistoryIsNewest
<1> QED BY <1>1, <1>2, <1>3, <1>4, <1>5 DEF CompareInv

-----------------------------------------------------------------------------
(* CompareTab: keys                                                         *)

\* A start while the flag is down finds nothing on its way.
LEMMA StartBenchmarkKeeps == CompareInv /\ StartBenchmark => CompareInv'
<1> SUFFICES ASSUME CompareInv, StartBenchmark PROVE CompareInv'
  OBVIOUS
<1> USE DEF CompareInv
<1>1. PICK first : first = FirstOf(Run \ Born)
  OBVIOUS
<1>2. first \in Run /\ first \notin Born
  BY <1>1, FirstIsIn, RunsAreNumbers DEF StartBenchmark, Born
<1>3. task' = IF named = {} THEN task ELSE [task EXCEPT ![first] = "running"]
  BY <1>1 DEF StartBenchmark
<1>4. CompareTyped'
  <2>1. task' \in [Run -> {"unborn", "running", "ended"}]
    BY <1>3 DEF CompareTyped
  <2>2. CASE bench.running
    BY <2>1, <2>2 DEF StartBenchmark, AcceptStart, CompareTyped
  <2>3. CASE ~bench.running
    <3>1. bench' = [running |-> TRUE, results |-> NoResults, progress |-> <<>>]
      BY <2>3 DEF StartBenchmark, AcceptStart
    <3>2. bench' \in [running : BOOLEAN, results : [Engine -> 0 .. MaxRuns], progress : Seq(Run)]
      BY <3>1, NoResultsType
    <3>3. Len(bench'.progress) <= ProgressCap
      BY <3>1, CompareAssumption
    <3> QED BY <2>1, <3>2, <3>3 DEF StartBenchmark, CompareTyped
  <2> QED BY <2>2, <2>3
<1>5. OneRun' /\ FlagHonest'
  <2>1. CASE bench.running
    <3>1. "twice" \in odd'
      BY <2>1 DEF StartBenchmark
    <3> QED BY <3>1 DEF OneRun, FlagHonest
  <2>2. CASE ~bench.running
    <3>1. /\ bench'.running /\ bench'.results = NoResults /\ bench'.progress = <<>>
          /\ mail' = mail /\ odd \subseteq odd' /\ ("twice" \in odd' <=> "twice" \in odd)
          /\ (named = {} => "nobody" \in odd')
      BY <2>2 DEF StartBenchmark, AcceptStart
    <3>2. Running' = IF named = {} THEN Running ELSE Running \cup {first}
      BY <1>2, <1>3 DEF Running, CompareTyped
    <3>3. "twice" \notin odd => Running = {} /\ mail = <<>>
      BY <2>2 DEF OneRun, NoneRunning
    <3>4. first \in 0 .. MaxRuns
      BY <1>2, RunsAreNumbers
    <3>5. "twice" \notin odd => OneRunning(first)'
      BY <3>1, <3>2, <3>3 DEF OneRunning
    <3>6. OneRun'
      BY <3>1, <3>4, <3>5 DEF OneRun
    <3>7. FlagHonest'
      BY <3>1, <3>2 DEF FlagHonest
    <3> QED BY <3>6, <3>7
  <2> QED BY <2>1, <2>2
<1>6. (FileFits /\ OneSave /\ HistoryIsNewest /\ FileIsHistory)'
  BY DEF StartBenchmark, FileFits, OneSave, HistoryIsNewest, FileIsHistory
<1> QED BY <1>4, <1>5, <1>6

LEMMA ToggleNamedKeeps ==
  ASSUME NEW n \in CompareConn, CompareInv, ToggleNamed(n) PROVE CompareInv'
<1> USE DEF CompareInv
<1>1. named' \subseteq CompareConn
  BY DEF ToggleNamed, CompareTyped
<1>2. CompareTyped'
  BY <1>1 DEF ToggleNamed, CompareTyped
<1>3. OneRun' /\ FlagHonest'
  BY DEF ToggleNamed, OneRun, OneRunning, NoneRunning, Running, FlagHonest, Due
<1>4. (FileFits /\ OneSave /\ HistoryIsNewest /\ FileIsHistory)'
  BY DEF ToggleNamed, FileFits, OneSave, HistoryIsNewest, FileIsHistory
<1> QED BY <1>2, <1>3, <1>4

-----------------------------------------------------------------------------
(* CompareTab: the benchmark task                                           *)

LEMMA RelayProgressKeeps ==
  ASSUME NEW r \in Run, CompareInv, RelayProgress(r) PROVE CompareInv'
<1> USE DEF CompareInv
<1>1. PICK e \in Engine : mail' = Append(mail, [kind |-> "progress", run |-> r, engine |-> e])
  BY DEF RelayProgress, Post
<1>2. PICK m : m = [kind |-> "progress", run |-> r, engine |-> e]
  OBVIOUS
<1>3. m \in BenchMail /\ m.kind = "progress" /\ m.run = r /\ mail' = Append(mail, m)
  BY <1>1, <1>2 DEF BenchMail
<1>4. /\ mail \in Seq(BenchMail) /\ mail' \in Seq(BenchMail) /\ Len(mail') = Len(mail) + 1
      /\ mail'[Len(mail) + 1] = m /\ \A i \in 1 .. Len(mail) : mail'[i] = mail[i]
      /\ DOMAIN mail = 1 .. Len(mail) /\ DOMAIN mail' = 1 .. Len(mail) + 1
  BY <1>3 DEF CompareTyped
<1>5. UNCHANGED <<bench, task, odd>> /\ r \in Running
  BY DEF RelayProgress, Running
<1>6. CompareTyped'
  BY <1>4 DEF RelayProgress, CompareTyped
<1>7. OneRun'
  <2> SUFFICES ASSUME "twice" \notin odd
               PROVE  bench.running /\ \E c \in 0 .. MaxRuns : OneRunning(c)'
    BY <1>5 DEF OneRun
  <2>1. bench.running
    BY <1>5 DEF OneRun, NoneRunning
  <2>2. PICK c \in 0 .. MaxRuns : OneRunning(c)
    BY <2>1 DEF OneRun
  <2>3. c = r /\ \A i \in DOMAIN mail : mail[i].kind # "complete"
    BY <1>5, <2>2 DEF OneRunning
  <2>4. OneRunning(c)'
    BY <1>3, <1>4, <1>5, <2>2, <2>3 DEF OneRunning, Running
  <2> QED BY <2>1, <2>4
<1>8. FlagHonest'
  BY <1>3, <1>4, <1>5 DEF FlagHonest, Due, Running
<1>9. (FileFits /\ OneSave /\ HistoryIsNewest /\ FileIsHistory)'
  BY DEF RelayProgress, FileFits, OneSave, HistoryIsNewest, FileIsHistory
<1> QED BY <1>6, <1>7, <1>8, <1>9

\* The result is the last message of a task that ends with it.
LEMMA RelayResultKeeps ==
  ASSUME NEW r \in Run, CompareInv, RelayResult(r) PROVE CompareInv'
<1> USE DEF CompareInv
<1>1. PICK e \in Engine : mail' = Append(mail, [kind |-> "complete", run |-> r, engine |-> e])
  BY DEF RelayResult, Post
<1>2. PICK m : m = [kind |-> "complete", run |-> r, engine |-> e]
  OBVIOUS
<1>3. m \in BenchMail /\ m.kind = "complete" /\ m.run = r /\ mail' = Append(mail, m)
  BY <1>1, <1>2 DEF BenchMail
<1>4. /\ mail \in Seq(BenchMail) /\ mail' \in Seq(BenchMail) /\ Len(mail') = Len(mail) + 1
      /\ mail'[Len(mail) + 1] = m /\ \A i \in 1 .. Len(mail) : mail'[i] = mail[i]
      /\ DOMAIN mail = 1 .. Len(mail) /\ DOMAIN mail' = 1 .. Len(mail) + 1
  BY <1>3 DEF CompareTyped
<1>5. UNCHANGED <<bench, odd>> /\ r \in Running /\ Running' = Running \ {r}
  BY DEF RelayResult, Running, CompareTyped
<1>6. CompareTyped'
  BY <1>4 DEF RelayResult, CompareTyped
<1>7. OneRun'
  <2> SUFFICES ASSUME "twice" \notin odd
               PROVE  bench.running /\ \E c \in 0 .. MaxRuns : OneRunning(c)'
    BY <1>5 DEF OneRun
  <2>1. bench.running
    BY <1>5 DEF OneRun, NoneRunning
  <2>2. PICK c \in 0 .. MaxRuns : OneRunning(c)
    BY <2>1 DEF OneRun
  <2>3. c = r /\ \A i \in DOMAIN mail : mail[i].kind # "complete"
    BY <1>5, <2>2 DEF OneRunning
  <2>4. Running' = {}
    BY <1>5, <2>2, <2>3 DEF OneRunning
  <2>5. OneRunning(c)'
    BY <1>3, <1>4, <1>5, <2>2, <2>3, <2>4 DEF OneRunning
  <2> QED BY <2>1, <2>5
<1>8. FlagHonest'
  <2>1. Due'
    BY <1>3, <1>4 DEF Due
  <2> QED BY <2>1, <1>5 DEF FlagHonest
<1>9. (FileFits /\ OneSave /\ HistoryIsNewest /\ FileIsHistory)'
  BY DEF RelayResult, FileFits, OneSave, HistoryIsNewest, FileIsHistory
<1> QED BY <1>6, <1>7, <1>8, <1>9

LEMMA RelayErrorKeeps ==
  ASSUME NEW r \in Run, CompareInv, RelayError(r) PROVE CompareInv'
<1> USE DEF CompareInv
<1>1. /\ UNCHANGED <<bench, mail>> /\ r \in Running /\ Running' = Running \ {r}
      /\ odd' = odd \cup {"failed"}
  BY DEF RelayError, Running, CompareTyped
<1>2. CompareTyped'
  BY DEF RelayError, CompareTyped
<1>3. OneRun'
  <2>1. \A c : OneRunning(c) => OneRunning(c)'
    BY <1>1 DEF OneRunning
  <2> QED BY <1>1, <2>1 DEF OneRun, NoneRunning
<1>4. FlagHonest'
  BY <1>1 DEF FlagHonest
<1>5. (FileFits /\ OneSave /\ HistoryIsNewest /\ FileIsHistory)'
  BY DEF RelayError, FileFits, OneSave, HistoryIsNewest, FileIsHistory
<1> QED BY <1>2, <1>3, <1>4, <1>5
-----------------------------------------------------------------------------
(* CompareTab: the event loop                                               *)

LEMMA MailHead ==
  ASSUME CompareTyped, mail # <<>>
  PROVE  /\ Head(mail) = mail[1] /\ Head(mail) \in BenchMail /\ Tail(mail) \in Seq(BenchMail)
         /\ DOMAIN mail = 1 .. Len(mail) /\ Len(mail) \in Nat \ {0} /\ 1 \in DOMAIN mail
         /\ Len(Tail(mail)) = Len(mail) - 1 /\ DOMAIN Tail(mail) = 1 .. Len(mail) - 1
         /\ \A i \in 1 .. Len(mail) - 1 : Tail(mail)[i] = mail[i + 1] /\ i + 1 \in DOMAIN mail
BY DEF CompareTyped

\* The result closes the one benchmark there was; the run is added to what is kept.
LEMMA HandleCompleteKeeps == CompareInv /\ HandleComplete => CompareInv'
<1> SUFFICES ASSUME CompareInv, HandleComplete PROVE CompareInv'
  OBVIOUS
<1> USE DEF CompareInv
<1>1. PICK m : m = Head(mail)
  OBVIOUS
<1>2. PICK run : run = Filed(m)
  OBVIOUS
<1>3. /\ mail # <<>> /\ m.kind = "complete" /\ mail' = Tail(mail) /\ bench' = Completed(bench, m)
      /\ history' = CapHistory(Append(history, run)) /\ past' = Append(past, run)
      /\ save' = [save EXCEPT ![m.run] = [at |-> "queued", runs |-> history']]
      /\ odd' = IF \E r \in Run : save[r].at # "none" THEN odd \cup {"apart"} ELSE odd \ {"apart"}
      /\ UNCHANGED <<named, task, file>>
  BY <1>1, <1>2 DEF HandleComplete, Saved
<1>4. m \in BenchMail /\ m = mail[1] /\ 1 \in DOMAIN mail
  BY <1>1, <1>3, MailHead
<1>5. m.run \in Run /\ m.engine \in Engine /\ m.run \in 0 .. MaxRuns
  BY <1>4, RunsAreNumbers DEF BenchMail
<1>6. /\ bench'.running = FALSE /\ bench'.progress = bench.progress
      /\ bench'.results = [bench.results EXCEPT ![m.engine] = m.run]
      /\ bench' \in [running : BOOLEAN, results : [Engine -> 0 .. MaxRuns], progress : Seq(Run)]
  <2>1. bench' = [bench EXCEPT !.running = FALSE, !.results[m.engine] = m.run]
    BY <1>3 DEF Completed
  <2> QED BY <2>1, <1>5 DEF CompareTyped
<1>7. run \in Record
  <2>1. FirstOf(named) \in CompareConn \cup {0}
    BY FirstIsIn, CompareAssumption DEF CompareTyped
  <2>2. Completed(bench, m).results \in [Engine -> 0 .. MaxRuns]
    BY <1>3, <1>6
  <2> QED BY <1>2, <1>5, <2>1, <2>2 DEF Filed, Record
<1>8. /\ history' \in Seq(Record) /\ Len(history') <= HistoryCap /\ past' \in Seq(Record)
      /\ history' = CapHistory(past')
  <2>1. history = CapHistory(past)
    BY DEF HistoryIsNewest, CapHistory
  <2>2. Append(history, run) \in Seq(Record) /\ Append(past, run) \in Seq(Record)
    BY <1>7 DEF CompareTyped
  <2>3. past \in Seq(Record)
    BY DEF CompareTyped
  <2>4. CapHistory(Append(history, run)) = CapHistory(Append(past, run))
    BY <1>7, <2>1, <2>3, CapHistoryProperties
  <2>5. /\ CapHistory(Append(history, run)) \in Seq(Record)
        /\ Len(CapHistory(Append(history, run))) <= HistoryCap
    BY <1>7, <2>2, CapHistoryProperties
  <2> QED BY <1>3, <2>2, <2>4, <2>5
<1>9. CompareTyped'
  <2>1. save' \in [Run -> Saves]
    BY <1>3, <1>8 DEF CompareTyped, Saves
  <2>2. mail' \in Seq(BenchMail)
    BY <1>3, MailHead
  <2>3. Len(bench'.progress) <= ProgressCap
    BY <1>6 DEF CompareTyped
  <2> QED BY <1>3, <1>6, <1>8, <2>1, <2>2, <2>3 DEF CompareTyped
<1>10. OneRun' /\ FlagHonest'
  <2> SUFFICES ASSUME "twice" \notin odd PROVE NoneRunning' /\ ~Due'
    <3>1. "twice" \in odd' <=> "twice" \in odd
      BY <1>3
    <3> QED BY <3>1, <1>6 DEF OneRun, FlagHonest, NoneRunning
  <2>1. bench.running
    BY <1>3 DEF OneRun, NoneRunning
  <2>2. PICK c \in 0 .. MaxRuns : OneRunning(c)
    BY <2>1 DEF OneRun
  <2>3. m.run = c /\ Len(mail) = 1 /\ Running = {}
    BY <1>3, <1>4, <2>2 DEF OneRunning
  <2>4. mail' = <<>>
    <3>1. mail' \in Seq(BenchMail) /\ Len(mail') = 0
      BY <1>3, <2>3, MailHead
    <3> QED BY <3>1, EmptySeq
  <2>5. Running' = {}
    BY <1>3, <2>3 DEF Running
  <2>6. \A e \in Engine : bench'.results[e] \in {0, c}
    BY <1>6, <2>2, <2>3 DEF OneRunning, NoResults
  <2> QED BY <2>4, <2>5, <2>6 DEF NoneRunning, Due
<1>11. FileFits'
  BY <1>3, <1>5, <1>8 DEF FileFits, CompareTyped
<1>12. OneSave' /\ FileIsHistory'
  <2>1. save'[m.run].at = "queued" /\ save'[m.run].runs = history'
    BY <1>3, <1>5 DEF CompareTyped
  <2>2. ASSUME "apart" \notin odd' PROVE \A r \in Run : r # m.run => save'[r].at = "none"
    BY <2>2, <1>3 DEF CompareTyped
  <2> QED BY <2>1, <2>2, <1>5 DEF OneSave, FileIsHistory
<1>13. HistoryIsNewest'
  BY <1>8 DEF HistoryIsNewest, CapHistory
<1> QED BY <1>9, <1>10, <1>11, <1>12, <1>13

LEMMA HandleProgressKeeps == CompareInv /\ HandleProgress => CompareInv'
<1> SUFFICES ASSUME CompareInv, HandleProgress PROVE CompareInv'
  OBVIOUS
<1> USE DEF CompareInv
<1>1. PICK m : m = Head(mail)
  OBVIOUS
<1>2. /\ mail # <<>> /\ m.kind = "progress" /\ mail' = Tail(mail)
      /\ bench' = [bench EXCEPT !.progress = WithSample(@, m.run)]
      /\ UNCHANGED <<history, named, task, save, file, past, odd>>
  BY <1>1 DEF HandleProgress
<1>3. m \in BenchMail /\ m = mail[1] /\ 1 \in DOMAIN mail /\ m.run \in Run
  BY <1>1, <1>2, MailHead DEF BenchMail
<1>4. PICK samples : samples = WithSample(bench.progress, m.run)
  OBVIOUS
<1>5. /\ samples \in Seq(Run) /\ Len(samples) <= ProgressCap
      /\ \A c : (m.run = c /\ \A i \in DOMAIN bench.progress : bench.progress[i] = c) =>
                  \A i \in DOMAIN samples : samples[i] = c
  <2>1. bench.progress \in Seq(Run) /\ Len(bench.progress) <= ProgressCap /\ ProgressCap \in Nat \ {0}
    BY CompareAssumption DEF CompareTyped
  <2>2. PICK older : older = IF Len(bench.progress) >= ProgressCap THEN Tail(bench.progress)
                             ELSE bench.progress
    OBVIOUS
  <2>3. /\ older \in Seq(Run) /\ Len(older) < ProgressCap
        /\ \A i \in DOMAIN older : \E j \in DOMAIN bench.progress : older[i] = bench.progress[j]
    <3>1. CASE Len(bench.progress) >= ProgressCap
      <4>1. bench.progress # <<>> /\ older = Tail(bench.progress)
        BY <3>1, <2>1, <2>2
      <4>2. \A i \in DOMAIN older : i + 1 \in DOMAIN bench.progress /\ older[i] = bench.progress[i + 1]
        BY <4>1, <2>1
      <4> QED BY <4>1, <4>2, <2>1
    <3>2. CASE Len(bench.progress) < ProgressCap
      BY <3>2, <2>1, <2>2
    <3> QED BY <3>1, <3>2, <2>1
  <2>4. samples = Append(older, m.run)
    BY <1>4, <2>2 DEF WithSample
  <2> QED BY <2>1, <2>3, <2>4, <1>3
<1>6. /\ bench'.running = bench.running /\ bench'.progress = samples
      /\ bench'.results = bench.results
      /\ bench' \in [running : BOOLEAN, results : [Engine -> 0 .. MaxRuns], progress : Seq(Run)]
  BY <1>2, <1>4, <1>5 DEF CompareTyped
<1>7. CompareTyped'
  BY <1>2, <1>5, <1>6, MailHead DEF CompareTyped
<1>8. \A i \in DOMAIN mail' : mail'[i] = mail[i + 1] /\ i + 1 \in DOMAIN mail
  BY <1>2, MailHead
<1>9. OneRun'
  <2> SUFFICES ASSUME "twice" \notin odd
               PROVE  bench.running /\ \E c \in 0 .. MaxRuns : OneRunning(c)'
    BY <1>2, <1>6 DEF OneRun
  <2>1. bench.running
    BY <1>2 DEF OneRun, NoneRunning
  <2>2. PICK c \in 0 .. MaxRuns : OneRunning(c)
    BY <2>1 DEF OneRun
  <2>3. \A i \in DOMAIN samples : samples[i] = c
    BY <1>3, <1>5, <2>2 DEF OneRunning
  <2>4. Running' = Running
    BY <1>2 DEF Running
  <2>5. \A i \in DOMAIN mail' :
          mail'[i].run = c /\ (mail'[i].kind = "complete" => i = Len(mail') /\ Running = {})
    <3> SUFFICES ASSUME NEW i \in DOMAIN mail'
                 PROVE  /\ mail'[i].run = c
                        /\ mail'[i].kind = "complete" => i = Len(mail') /\ Running = {}
      OBVIOUS
    <3>1. i \in Nat /\ Len(mail') = Len(mail) - 1 /\ Len(mail) \in Nat
      BY <1>2, MailHead
    <3>2. /\ mail[i + 1].run = c
          /\ mail[i + 1].kind = "complete" => i + 1 = Len(mail) /\ Running = {}
      BY <1>8, <2>2 DEF OneRunning
    <3> QED BY <3>1, <3>2, <1>8
  <2>6. OneRunning(c)'
    BY <1>6, <2>2, <2>3, <2>4, <2>5 DEF OneRunning
  <2> QED BY <2>1, <2>6
<1>10. FlagHonest'
  <2>1. Due' <=> Due
    <3>1. Due' => Due
      BY <1>8 DEF Due
    <3>2. ASSUME NEW i \in DOMAIN mail, mail[i].kind = "complete"
          PROVE  i - 1 \in DOMAIN mail' /\ mail'[i - 1].kind = "complete"
      <4>1. i # 1 /\ i \in 1 .. Len(mail) /\ DOMAIN mail' = 1 .. Len(mail) - 1 /\ Len(mail) \in Nat
        BY <3>2, <1>2, <1>3, MailHead
      <4>2. i - 1 \in DOMAIN mail' /\ (i - 1) + 1 = i
        BY <4>1
      <4> QED BY <4>2, <1>8, <3>2
    <3> QED BY <3>1, <3>2 DEF Due
  <2> QED BY <2>1, <1>2, <1>6 DEF FlagHonest, Running
<1>11. (FileFits /\ OneSave /\ HistoryIsNewest /\ FileIsHistory)'
  BY <1>2 DEF FileFits, OneSave, HistoryIsNewest, FileIsHistory
<1> QED BY <1>7, <1>9, <1>10, <1>11

-----------------------------------------------------------------------------
(* CompareTab: the file                                                     *)

LEMMA OpenFileKeeps ==
  ASSUME NEW r \in Run, CompareInv, OpenFile(r) PROVE CompareInv'
<1> USE DEF CompareInv
<1>1. /\ save[r].at = "queued" /\ file' = [state |-> "empty", runs |-> <<>>]
      /\ save' = [save EXCEPT ![r].at = "open"]
      /\ UNCHANGED <<bench, history, named, task, mail, past, odd>>
  BY DEF OpenFile, Broken
<1>2. /\ save' \in [Run -> Saves] /\ save'[r].at = "open"
      /\ \A q \in Run : save'[q].runs = save[q].runs /\ (save'[q].at = "none" <=> save[q].at = "none")
      /\ \A q \in Run : q # r => save'[q] = save[q]
  BY <1>1 DEF CompareTyped, Saves
<1>3. CompareTyped'
  BY <1>1, <1>2 DEF CompareTyped
<1>4. OneRun' /\ FlagHonest' /\ HistoryIsNewest'
  BY <1>1 DEF OneRun, OneRunning, NoneRunning, Running, FlagHonest, Due, HistoryIsNewest
<1>5. FileFits'
  BY <1>1, <1>2, CompareAssumption DEF FileFits
<1>6. OneSave' /\ FileIsHistory'
  BY <1>1, <1>2 DEF OneSave, FileIsHistory
<1> QED BY <1>3, <1>4, <1>5, <1>6

\* The only save writes the history over an empty file.
LEMMA WriteFileKeeps ==
  ASSUME NEW r \in Run, CompareInv, WriteFile(r) PROVE CompareInv'
<1> USE DEF CompareInv
<1>1. /\ save[r].at = "open" /\ save' = [save EXCEPT ![r] = NoSave]
      /\ UNCHANGED <<bench, history, named, task, mail, past, odd>>
  BY DEF WriteFile
<1>2. NoSave \in Saves /\ NoSave.at = "none" /\ NoSave.runs = <<>>
  BY DEF NoSave, Saves
<1>3. /\ save' \in [Run -> Saves] /\ save'[r] = NoSave /\ save[r] \in Saves
      /\ \A q \in Run : q # r => save'[q] = save[q]
  BY <1>1, <1>2 DEF CompareTyped
<1>4. \/ file' = Broken("garbage")
      \/ file' = Whole(save[r].runs) /\ save[r].runs \in Seq(Record)
  BY <1>3 DEF WriteFile, Overwritten, Saves
<1>5. /\ file' \in [state : {"missing", "empty", "garbage", "whole"}, runs : Seq(Record)]
      /\ file'.state # "whole" => file'.runs = <<>>
      /\ Len(file'.runs) <= HistoryCap
  <2>1. CASE file' = Broken("garbage")
    BY <2>1, CompareAssumption DEF Broken
  <2>2. CASE file' = Whole(save[r].runs) /\ save[r].runs \in Seq(Record)
    BY <2>2 DEF Whole, FileFits
  <2> QED BY <1>4, <2>1, <2>2
<1>6. CompareTyped'
  BY <1>1, <1>3, <1>5 DEF CompareTyped
<1>7. OneRun' /\ FlagHonest' /\ HistoryIsNewest'
  BY <1>1 DEF OneRun, OneRunning, NoneRunning, Running, FlagHonest, Due, HistoryIsNewest
<1>8. FileFits'
  <2>1. \A q \in Run : Len(save'[q].runs) <= HistoryCap
    BY <1>2, <1>3, CompareAssumption DEF FileFits
  <2> QED BY <2>1, <1>5 DEF FileFits
<1>9. ASSUME "apart" \notin odd
      PROVE  /\ \A q \in Run : save'[q].at = "none"
             /\ file' = Whole(history)
  <2>1. \A q \in Run : save'[q].at = "none"
    BY <1>1, <1>2, <1>3, <1>9 DEF OneSave
  <2>2. file.state = "empty" /\ file.runs = <<>> /\ save[r].runs = history
    BY <1>1, <1>9 DEF OneSave, FileFits
  <2>3. ~ (file.state = "garbage" \/ Len(file.runs) > Len(save[r].runs))
    BY <2>2 DEF CompareTyped
  <2> QED BY <2>1, <2>2, <2>3 DEF WriteFile, Overwritten
<1>10. OneSave' /\ FileIsHistory'
  BY <1>1, <1>9 DEF OneSave, FileIsHistory
<1> QED BY <1>6, <1>7, <1>8, <1>10

\* A save that fails may leave anything but a whole file.
LEMMA SaveFailsKeeps ==
  ASSUME NEW r \in Run, CompareInv, OpenFails(r) \/ WriteFails(r) PROVE CompareInv'
<1> USE DEF CompareInv
<1>1. /\ save' = [save EXCEPT ![r] = NoSave] /\ odd' = odd \cup {"apart"}
      /\ file' \in {file, Broken("garbage")}
      /\ UNCHANGED <<bench, history, named, task, mail, past>>
  BY DEF OpenFails, WriteFails
<1>2. NoSave \in Saves /\ NoSave.runs = <<>>
  BY DEF NoSave, Saves
<1>3. save' \in [Run -> Saves] /\ \A q \in Run : save'[q] \in {NoSave, save[q]}
  BY <1>1, <1>2 DEF CompareTyped
<1>4. /\ file' \in [state : {"missing", "empty", "garbage", "whole"}, runs : Seq(Record)]
      /\ file'.state # "whole" => file'.runs = <<>>
      /\ Len(file'.runs) <= HistoryCap
  <2>1. CASE file' = Broken("garbage")
    BY <2>1, CompareAssumption DEF Broken
  <2>2. CASE file' = file
    BY <2>2 DEF FileFits, CompareTyped
  <2> QED BY <1>1, <2>1, <2>2
<1>5. CompareTyped'
  BY <1>1, <1>3, <1>4 DEF CompareTyped
<1>6. OneRun' /\ FlagHonest' /\ HistoryIsNewest'
  <2>1. \A what \in {"twice", "failed", "nobody"} : what \in odd' <=> what \in odd
    BY <1>1
  <2> QED BY <1>1, <2>1 DEF OneRun, OneRunning, NoneRunning, Running, FlagHonest, Due, HistoryIsNewest
<1>7. FileFits'
  BY <1>2, <1>3, <1>4, CompareAssumption DEF FileFits
<1>8. OneSave' /\ FileIsHistory'
  BY <1>1 DEF OneSave, FileIsHistory
<1> QED BY <1>5, <1>6, <1>7, <1>8

\* What the next start loads is what the file holds, and fits.
LEMMA RestartKeeps == CompareInv /\ Restart => CompareInv'
<1> SUFFICES ASSUME CompareInv, Restart PROVE CompareInv'
  OBVIOUS
<1> USE DEF CompareInv
<1>1. /\ Loaded \in Seq(Record) /\ Len(Loaded) <= HistoryCap
      /\ file.state # "whole" => Loaded = <<>>
      /\ file.state = "whole" => file = Whole(Loaded)
  <2>1. CASE file.state = "whole"
    <3>1. file = [state |-> file.state, runs |-> file.runs]
      BY DEF CompareTyped
    <3> QED BY <2>1, <3>1 DEF Loaded, Whole, CompareTyped, FileFits
  <2>2. CASE file.state # "whole"
    BY <2>2, CompareAssumption DEF Loaded
  <2> QED BY <2>1, <2>2
<1>2. /\ bench' = [running |-> FALSE, results |-> NoResults, progress |-> <<>>]
      /\ save' = [r \in Run |-> NoSave] /\ odd' \subseteq {"apart"} /\ mail' = <<>>
      /\ history' = Loaded \/ (history' = <<>> /\ odd' = {"apart"})
      /\ past' = history' /\ named' = CompareConn /\ file' = file
      /\ task' = [r \in Run |-> IF task[r] = "running" THEN "ended" ELSE task[r]]
  BY DEF Restart
<1>3. history' \in Seq(Record) /\ Len(history') <= HistoryCap
  <2>1. <<>> \in Seq(Record) /\ Len(<<>>) <= HistoryCap
    BY CompareAssumption
  <2> QED BY <1>1, <1>2, <2>1
<1>4. CompareTyped'
  <2>1. bench' \in [running : BOOLEAN, results : [Engine -> 0 .. MaxRuns], progress : Seq(Run)]
    BY <1>2, NoResultsType
  <2>2. NoSave \in Saves
    BY DEF NoSave, Saves
  <2>3. save' \in [Run -> Saves]
    BY <1>2, <2>2
  <2>4. task' \in [Run -> {"unborn", "running", "ended"}]
    BY <1>2 DEF CompareTyped
  <2>5. Len(bench'.progress) <= ProgressCap
    BY <1>2, CompareAssumption
  <2> QED BY <1>2, <1>3, <2>1, <2>3, <2>4, <2>5 DEF CompareTyped
<1>5. OneRun' /\ FlagHonest'
  <2>1. Running' = {} /\ ~Due' /\ ~bench'.running
    BY <1>2 DEF Running, Due, CompareTyped
  <2>2. NoneRunning'
    <3>1. \A e \in Engine : bench'.results[e] \in {0, 0}
      BY <1>2 DEF NoResults
    <3>2. 0 \in 0 .. MaxRuns
      BY CompareAssumption
    <3> QED BY <2>1, <1>2, <3>1, <3>2 DEF NoneRunning
  <2> QED BY <2>1, <2>2 DEF OneRun, FlagHonest
<1>6. FileFits'
  BY <1>2, CompareAssumption DEF FileFits, NoSave
<1>7. OneSave' /\ FileIsHistory'
  BY <1>1, <1>2 DEF OneSave, FileIsHistory, NoSave
<1>8. HistoryIsNewest'
  BY <1>2, <1>3 DEF HistoryIsNewest
<1> QED BY <1>4, <1>5, <1>6, <1>7, <1>8

LEMMA CompareNextKeeps == CompareInv /\ [CompareNext]_compareVars => CompareInv'
<1> SUFFICES ASSUME CompareInv, [CompareNext]_compareVars PROVE CompareInv'
  OBVIOUS
<1>1. CASE StartBenchmark
  BY <1>1, StartBenchmarkKeeps
<1>2. CASE HandleComplete
  BY <1>2, HandleCompleteKeeps
<1>3. CASE HandleProgress
  BY <1>3, HandleProgressKeeps
<1>4. CASE Restart
  BY <1>4, RestartKeeps
<1>5. ASSUME NEW n \in CompareConn, ToggleNamed(n) PROVE CompareInv'
  BY <1>5, ToggleNamedKeeps
<1>6. ASSUME NEW r \in Run, RelayProgress(r) \/ RelayResult(r) \/ RelayError(r) PROVE CompareInv'
  BY <1>6, RelayProgressKeeps, RelayResultKeeps, RelayErrorKeeps
<1>7. ASSUME NEW r \in Run, OpenFile(r) \/ OpenFails(r) \/ WriteFile(r) \/ WriteFails(r)
      PROVE  CompareInv'
  BY <1>7, OpenFileKeeps, WriteFileKeeps, SaveFailsKeeps
<1>8. CASE UNCHANGED compareVars
  <2>1. CompareTyped'
    BY <1>8 DEF compareVars, CompareInv, CompareTyped
  <2>2. OneRun' /\ FlagHonest'
    BY <1>8 DEF compareVars, CompareInv, OneRun, OneRunning, NoneRunning, Running, FlagHonest, Due
  <2>3. (FileFits /\ OneSave /\ HistoryIsNewest /\ FileIsHistory)'
    BY <1>8 DEF compareVars, CompareInv, FileFits, OneSave, HistoryIsNewest, FileIsHistory
  <2> QED BY <2>1, <2>2, <2>3 DEF CompareInv
<1> QED BY <1>1, <1>2, <1>3, <1>4, <1>5, <1>6, <1>7, <1>8 DEF CompareNext

LEMMA CompareInvariance == CompareSpec => []CompareInv
BY CompareInitInvariant, CompareNextKeeps, PTL DEF CompareSpec

\* The benchmark history is never reordered, repeated or cut but at its old end, in memory
\* and, after a save that was alone and has succeeded, on disk, whatever runs end, whatever
\* saves and loads have failed before, whenever the TUI is quit or killed, and however many
\* runs the history may hold (cap_history, save_benchmark_history, load_benchmark_history).
THEOREM HistoryIsKept == CompareSpec => []HistoryKept
<1>1. CompareInv => HistoryKept
  BY DEF CompareInv, HistoryKept
<1> QED BY <1>1, CompareInvariance, PTL

\* The flag and the live view are about the benchmark that runs.
LEMMA CompareTabConsistent == CompareInv => CompareTypeOK /\ FlagHonest /\ LiveOfOneRun
<1> SUFFICES ASSUME CompareInv PROVE CompareTypeOK /\ LiveOfOneRun
  BY DEF CompareInv
<1> USE DEF CompareInv
<1>1. CompareTypeOK
  <2>1. \A i \in DOMAIN past : past[i] \in Record
    BY DEF CompareTyped
  <2>2. \A r \in Run : save[r].at \in {"none", "queued", "open"}
    BY DEF CompareTyped, Saves
  <2> QED BY <2>1, <2>2 DEF CompareTyped, CompareTypeOK
<1>2. LiveOfOneRun
  <2> SUFFICES ASSUME "twice" \notin odd
               PROVE  /\ \A e, f \in Live.bars : Live.table[e] = Live.table[f]
                      /\ Live.gauge # 0 => Live.bars = {} /\ Running \subseteq {Live.gauge}
    BY DEF LiveOfOneRun
  <2>1. CASE bench.running
    <3>1. PICK c \in 0 .. MaxRuns : OneRunning(c)
      BY <2>1 DEF OneRun
    <3>2. Live.bars = {}
      BY <3>1 DEF Live, OneRunning, NoResults
    <3>3. ASSUME Live.gauge # 0 PROVE Live.gauge = c
      <4>1. bench.progress # <<>> /\ Live.gauge = Last(bench.progress)
        BY <3>3, <2>1 DEF Live
      <4>2. bench.progress \in Seq(Run) /\ Len(bench.progress) \in DOMAIN bench.progress
        BY <4>1 DEF CompareTyped
      <4> QED BY <4>1, <4>2, <3>1 DEF Last, OneRunning
    <3> QED BY <3>1, <3>2, <3>3 DEF OneRunning
  <2>2. CASE ~bench.running
    <3>1. PICK c \in 0 .. MaxRuns : \A e \in Engine : bench.results[e] \in {0, c}
      BY <2>2 DEF OneRun, NoneRunning
    <3>2. Live.gauge = 0 /\ Live.table = bench.results
          /\ Live.bars = {e \in Engine : bench.results[e] # 0}
      BY <2>2 DEF Live
    <3> QED BY <3>1, <3>2
  <2> QED BY <2>1, <2>2
<1> QED BY <1>1, <1>2

-----------------------------------------------------------------------------
(* LogsTab                                                                  *)

Entries == {k @@ [id |-> n] : k \in Kinds, n \in Nat}
Dues == {"no", "tick", "scroll", "filter", "search"}

LogsTyped ==
  /\ log \in Seq(Entries) /\ Len(log) <= LogCap /\ Len(log) <= logged
  /\ logged \in 0 .. MaxLogged /\ search \in BOOLEAN /\ shown \subseteq LogConn
  /\ scroll \in Scroll
  /\ page \in [due : Dues, drawn : BOOLEAN, evicted : Nat, lines : Seq(Entries)]

\* What a frame of the present size would show of a view that does not follow the log.
Below == SubSeq(FilteredEntries(log), scroll.offset + 1,
                Least(scroll.offset + scroll.height, Len(FilteredEntries(log))))

\* Between two frames without a key the buffer only grows at its end, or drops entries.
PageStands ==
  /\ Len(page.lines) <= scroll.height /\ page.evicted <= Evicted
  /\ page.due = "filter" => scroll.auto
  /\ page.drawn /\ page.due \in {"no", "tick"} /\ page.evicted = Evicted /\ ~scroll.auto =>
       IsPrefix(page.lines, Below)

LogsInv == LogsTyped /\ PageStands

LEMMA PrefixIs ==
  ASSUME NEW E, NEW p \in Seq(E), NEW w \in Seq(E)
  PROVE  IsPrefix(p, w) <=> Len(p) <= Len(w) /\ \A i \in 1 .. Len(p) : p[i] = w[i]
<1>1. ASSUME Len(p) <= Len(w)
      PROVE  SubSeq(p, 1, Len(p)) = SubSeq(w, 1, Len(p)) <=> \A i \in 1 .. Len(p) : p[i] = w[i]
  <2>1. /\ SubSeq(w, 1, Len(p)) \in Seq(E) /\ Len(SubSeq(w, 1, Len(p))) = Len(p)
        /\ \A i \in 1 .. Len(p) : SubSeq(w, 1, Len(p))[i] = w[i]
    BY <1>1
  <2>2. SubSeq(p, 1, Len(p)) = p
    BY SubSeqFull
  <2> QED BY <2>1, <2>2, SeqEqual
<1> QED BY <1>1 DEF IsPrefix

Slice(s, offset, n) == SubSeq(s, offset + 1, Least(offset + n, Len(s)))

LEMMA SliceIs ==
  ASSUME NEW E, NEW s \in Seq(E), NEW offset \in Nat, NEW n \in Nat
  PROVE  /\ Slice(s, offset, n) \in Seq(E)
         /\ Len(Slice(s, offset, n)) = Floor(Least(offset + n, Len(s)) - offset)
         /\ \A i \in 1 .. Len(Slice(s, offset, n)) :
              Slice(s, offset, n)[i] = s[offset + i] /\ offset + i \in 1 .. Len(s)
<1>1. PICK to : to = Least(offset + n, Len(s))
  OBVIOUS
<1>2. to \in Nat /\ to <= Len(s) /\ Len(s) \in Nat
  BY <1>1 DEF Least
<1>3. CASE offset + 1 <= to
  <2>1. Slice(s, offset, n) = SubSeq(s, offset + 1, to)
    BY <1>1 DEF Slice
  <2>2. /\ SubSeq(s, offset + 1, to) \in Seq(E) /\ Len(SubSeq(s, offset + 1, to)) = to - offset
        /\ \A i \in 1 .. to - offset : SubSeq(s, offset + 1, to)[i] = s[offset + i]
    BY <1>2, <1>3
  <2>3. Floor(to - offset) = to - offset
    BY <1>2, <1>3 DEF Floor
  <2>4. \A i \in 1 .. to - offset : offset + i \in 1 .. Len(s)
    BY <1>2
  <2> QED BY <1>1, <2>1, <2>2, <2>3, <2>4
<1>4. CASE ~ (offset + 1 <= to)
  <2>1. SubSeq(s, offset + 1, to) = <<>>
    BY <1>2, <1>4, SubSeqEmpty
  <2> QED BY <1>1, <1>2, <1>4, <2>1 DEF Slice, Floor
<1> QED BY <1>3, <1>4

\* What starts a view still starts it when there is more below, or more room.
LEMMA SliceGrows ==
  ASSUME NEW E, NEW s \in Seq(E), NEW t \in Seq(E), NEW offset \in Nat, NEW n \in Nat,
         NEW m \in Nat, n <= m, NEW p \in Seq(E), IsPrefix(p, Slice(s, offset, n)),
         Len(s) <= Len(t), \A i \in 1 .. Len(s) : t[i] = s[i]
  PROVE  IsPrefix(p, Slice(t, offset, m))
<1>1. PICK v : v = Slice(s, offset, n)
  OBVIOUS
<1>2. PICK w : w = Slice(t, offset, m)
  OBVIOUS
<1>3. /\ v \in Seq(E) /\ Len(v) = Floor(Least(offset + n, Len(s)) - offset)
      /\ \A i \in 1 .. Len(v) : v[i] = s[offset + i] /\ offset + i \in 1 .. Len(s)
  BY <1>1, SliceIs
<1>4. /\ w \in Seq(E) /\ Len(w) = Floor(Least(offset + m, Len(t)) - offset)
      /\ \A i \in 1 .. Len(w) : w[i] = t[offset + i]
  BY <1>2, SliceIs
<1>5. Len(v) <= Len(w) /\ Len(v) \in Nat /\ Len(w) \in Nat
  <2>1. Len(s) \in Nat /\ Len(t) \in Nat
    OBVIOUS
  <2>2. Least(offset + n, Len(s)) <= Least(offset + m, Len(t))
    BY <2>1 DEF Least
  <2> QED BY <1>3, <1>4, <2>1, <2>2 DEF Floor, Least
<1>6. Len(p) <= Len(v) /\ \A i \in 1 .. Len(p) : p[i] = v[i]
  BY <1>1, <1>3, PrefixIs
<1>7. \A i \in 1 .. Len(p) : p[i] = w[i]
  <2> SUFFICES ASSUME NEW i \in 1 .. Len(p) PROVE p[i] = w[i]
    OBVIOUS
  <2>1. i \in 1 .. Len(v) /\ i \in 1 .. Len(w)
    BY <1>5, <1>6
  <2> QED BY <2>1, <1>3, <1>4, <1>6
<1>8. Len(p) <= Len(w)
  BY <1>5, <1>6
<1> QED BY <1>2, <1>4, <1>7, <1>8, PrefixIs

LEMMA FilteredIsSequence == LogsTyped => FilteredEntries(log) \in Seq(Entries)
BY PickedType DEF LogsTyped, FilteredEntries

LEMMA FilteredIsSequenceNext == LogsTyped' => FilteredEntries(log)' \in Seq(Entries)
BY PickedType DEF LogsTyped, FilteredEntries

LEMMA EntryIs == ASSUME NEW k \in Kinds, NEW n \in Nat PROVE k @@ [id |-> n] \in Entries
BY DEF Entries

LEMMA HeightsAreNumbers == Heights \subseteq Nat
BY LogsAssumption

\* A new entry leaves what has passed, and may be added behind it.
LEMMA FilteredGrows ==
  ASSUME LogsTyped, NEW k \in Kinds, AppendLog(k), Len(log) # LogCap
  PROVE  LET now == FilteredEntries(log)
             then == FilteredEntries(log)'
         IN  Len(now) <= Len(then) /\ \A i \in 1 .. Len(now) : then[i] = now[i]
<1>1. PICK e : e = k @@ [id |-> logged']
  OBVIOUS
<1>2. /\ log' = Append(log, e) /\ e \in Entries /\ log \in Seq(Entries)
      /\ UNCHANGED <<search, shown, scroll>>
  <2>1. logged' \in Nat
    BY LogsAssumption DEF AppendLog, LogsTyped
  <2>2. e \in Entries
    BY <1>1, <2>1, EntryIs
  <2> QED BY <1>1, <2>2 DEF AppendLog, LogsTyped
<1>3. PICK I : I = {i \in DOMAIN log :
                      LinePasses(log[i], search, scroll.min) /\ ConnectionPasses(log[i])}
  OBVIOUS
<1>4. PICK J : J = {i \in DOMAIN log' :
                      LinePasses(log'[i], search, scroll.min) /\ ConnectionPasses(log'[i])}
  OBVIOUS
<1>5. FilteredEntries(log) = Picked(log, I)
  BY <1>3 DEF FilteredEntries
<1>6. FilteredEntries(log)' = Picked(Append(log, e), J)
  BY <1>2, <1>4 DEF FilteredEntries, ConnectionPasses
<1>7. \A i \in 1 .. Len(log) : i \in I <=> i \in J
  BY <1>2, <1>3, <1>4
<1>8. \/ FilteredEntries(log)' = FilteredEntries(log)
      \/ FilteredEntries(log)' = Append(FilteredEntries(log), e)
  BY <1>2, <1>5, <1>6, <1>7, PickedAppend
<1>9. FilteredEntries(log) \in Seq(Entries)
  BY FilteredIsSequence
<1> QED BY <1>2, <1>8, <1>9

LEMMA LogsInitInvariant == LogsInit => LogsInv
<1> SUFFICES ASSUME LogsInit PROVE LogsInv
  OBVIOUS
<1>1. scroll \in Scroll
  BY DEF LogsInit, Scroll, Debug, Error
<1>2. page \in [due : Dues, drawn : BOOLEAN, evicted : Nat, lines : Seq(Entries)]
  BY DEF LogsInit, Dues
<1>3. LogsTyped
  <2>1. log \in Seq(Entries) /\ Len(log) = 0
    BY DEF LogsInit
  <2>2. logged = 0 /\ LogCap \in Nat /\ MaxLogged \in Nat /\ search \in BOOLEAN
        /\ shown \subseteq LogConn
    BY LogsAssumption DEF LogsInit
  <2> QED BY <1>1, <1>2, <2>1, <2>2 DEF LogsTyped
<1> QED BY <1>3 DEF LogsInit, LogsInv, PageStands, Evicted

LEMMA AppendLogKeeps == ASSUME NEW k \in Kinds, LogsInv, AppendLog(k) PROVE LogsInv'
<1> USE DEF LogsInv
<1>1. PICK e : e = k @@ [id |-> logged']
  OBVIOUS
<1>2. /\ log' = Append(IF Len(log) = LogCap THEN Tail(log) ELSE log, e)
      /\ e \in Entries /\ logged' = logged + 1 /\ logged < MaxLogged
      /\ UNCHANGED <<search, shown, scroll, page>>
  <2>1. logged' \in Nat
    BY LogsAssumption DEF AppendLog, LogsTyped
  <2>2. e \in Entries
    BY <1>1, <2>1, EntryIs
  <2> QED BY <1>1, <2>2 DEF AppendLog
<1>3. LogCap \in Nat \ {0} /\ MaxLogged \in Nat
  BY LogsAssumption
<1>4. /\ log' \in Seq(Entries) /\ Len(log) \in Nat
      /\ Len(log') = IF Len(log) = LogCap THEN Len(log) ELSE Len(log) + 1
  <2>1. CASE Len(log) = LogCap
    BY <2>1, <1>2, <1>3 DEF LogsTyped
  <2>2. CASE Len(log) # LogCap
    BY <2>2, <1>2 DEF LogsTyped
  <2> QED BY <2>1, <2>2
<1>5. LogsTyped'
  BY <1>2, <1>3, <1>4 DEF LogsTyped
<1>6. /\ Evicted' = IF Len(log) = LogCap THEN Evicted + 1 ELSE Evicted
      /\ Evicted \in Nat
  <2>1. logged \in Nat /\ Len(log) <= logged
    BY <1>3 DEF LogsTyped
  <2>2. PICK m, n : m = Len(log) /\ n = Len(log')
    OBVIOUS
  <2>3. Evicted = logged - m /\ Evicted' = (logged + 1) - n
    <3>1. Evicted = logged - m
      BY <2>2 DEF Evicted
    <3>2. Evicted' = logged' - n
      BY <2>2 DEF Evicted
    <3> QED BY <3>1, <3>2, <1>2
  <2> QED BY <1>4, <2>1, <2>2, <2>3
<1>7. page.evicted \in Nat
  BY DEF LogsTyped
<1>8. ASSUME page.drawn, page.due \in {"no", "tick"}, page.evicted = Evicted', ~scroll.auto
      PROVE  IsPrefix(page.lines, Below')
  <2>1. Len(log) # LogCap /\ Evicted' = Evicted
    BY <1>6, <1>7, <1>8 DEF PageStands
  <2>2. IsPrefix(page.lines, Below)
    BY <1>8, <2>1 DEF PageStands
  <2>3. PICK now : now = FilteredEntries(log)
    OBVIOUS
  <2>4. PICK then : then = FilteredEntries(log)'
    OBVIOUS
  <2>5. Len(now) <= Len(then) /\ \A i \in 1 .. Len(now) : then[i] = now[i]
    BY <2>1, <2>3, <2>4, FilteredGrows
  <2>6. now \in Seq(Entries) /\ then \in Seq(Entries)
    BY <1>5, <2>3, <2>4, FilteredIsSequence, FilteredIsSequenceNext
  <2>7. scroll.offset \in Nat /\ scroll.height \in Nat /\ page.lines \in Seq(Entries)
    BY DEF LogsTyped, Scroll
  <2>8. Below = Slice(now, scroll.offset, scroll.height)
    BY <2>3 DEF Below, Slice
  <2>9. Below' = Slice(then, scroll.offset, scroll.height)
    BY <1>2, <2>4 DEF Below, Slice
  <2>10. IsPrefix(page.lines, Slice(then, scroll.offset, scroll.height))
    BY <2>2, <2>5, <2>6, <2>7, <2>8, SliceGrows
  <2> QED BY <2>9, <2>10
<1>9. PageStands'
  BY <1>2, <1>6, <1>7, <1>8 DEF PageStands
<1> QED BY <1>5, <1>9

\* A key that moves the view, or changes what passes, waits for its frame.
LEMMA EventKeeps ==
  ASSUME LogsInv, NEW what \in Dues, Event(what), scroll' \in Scroll, log' = log,
         logged' = logged, search' \in BOOLEAN, shown' \subseteq LogConn,
         scroll'.height = scroll.height, what = "filter" => scroll'.auto,
         what = "tick" => UNCHANGED <<scroll, search, shown>>, what # "no"
  PROVE  LogsInv'
<1> USE DEF LogsInv
<1>1. PICK p : p = page'
  OBVIOUS
<1>2. /\ p \in [due : Dues, drawn : BOOLEAN, evicted : Nat, lines : Seq(Entries)]
      /\ p.due = what /\ p.drawn = page.drawn /\ p.evicted = page.evicted
      /\ p.lines = page.lines /\ page.due = "no"
  BY <1>1 DEF Event, LogsTyped
<1>3. LogsTyped'
  BY <1>1, <1>2 DEF LogsTyped
<1>4. Evicted' = Evicted
  BY DEF Evicted
<1>5. ASSUME page.drawn, what = "tick", page.evicted = Evicted, ~scroll'.auto
      PROVE  IsPrefix(page.lines, Below')
  <2>1. IsPrefix(page.lines, Below)
    BY <1>2, <1>5 DEF PageStands
  <2>2. Below' = Below
    BY <1>5 DEF Below, FilteredEntries, ConnectionPasses
  <2> QED BY <2>1, <2>2
<1>6. PageStands'
  BY <1>1, <1>2, <1>4, <1>5 DEF PageStands
<1> QED BY <1>3, <1>6

LEMMA ScrollIs ==
  LogsTyped => /\ scroll = [offset |-> scroll.offset, auto |-> scroll.auto,
                             height |-> scroll.height, min |-> scroll.min,
                             active |-> scroll.active]
               /\ scroll.offset \in Nat /\ scroll.height \in Nat
               /\ scroll.min \in 1 .. 4 /\ scroll.auto \in BOOLEAN
               /\ scroll.active \in BOOLEAN /\ FilteredTotal \in Nat
<1> SUFFICES ASSUME LogsTyped
    PROVE /\ scroll = [offset |-> scroll.offset, auto |-> scroll.auto,
                        height |-> scroll.height, min |-> scroll.min, active |-> scroll.active]
          /\ scroll.offset \in Nat /\ scroll.height \in Nat
          /\ scroll.min \in 1 .. 4 /\ scroll.auto \in BOOLEAN
          /\ scroll.active \in BOOLEAN /\ FilteredTotal \in Nat
  OBVIOUS
<1>1. FilteredTotal \in Nat
  BY FilteredIsSequence DEF FilteredTotal
<1>2. scroll \in [offset : Nat, auto : BOOLEAN, height : Nat, min : 1 .. 4, active : BOOLEAN]
  BY DEF LogsTyped, Scroll, Debug, Error
<1> QED BY <1>1, <1>2

LEMMA ScrollingKeeps ==
  ASSUME LogsInv, NEW s \in Scroll, s.height = scroll.height, Scrolling(s)
  PROVE  LogsInv'
<1>1. "scroll" \in Dues
  BY DEF Dues
<1> QED BY <1>1, EventKeeps DEF Scrolling, LogsInv, LogsTyped

LEMMA FilteringKeeps ==
  ASSUME LogsInv, NEW s \in Scroll, s.height = scroll.height, s.auto, Filtering(s)
  PROVE  LogsInv'
<1>1. "filter" \in Dues
  BY DEF Dues
<1> QED BY <1>1, EventKeeps DEF Filtering, LogsInv, LogsTyped

LEMMA ViewKeyKeeps ==
  ASSUME LogsInv,
         ScrollUp \/ ScrollDown \/ JumpToTop \/ JumpToBottom \/ CycleLevel
           \/ ToggleConnectionFilter
  PROVE  LogsInv'
<1> USE DEF LogsInv, Scroll, Debug, Error
<1>1. /\ scroll \in Scroll /\ scroll.offset \in Nat /\ scroll.height \in Nat
      /\ scroll.min \in 1 .. 4 /\ scroll.active \in BOOLEAN /\ FilteredTotal \in Nat
  BY ScrollIs DEF LogsTyped
<1>2. CASE ScrollUp
  <2>1. CASE scroll.offset > 0
    <3>1. PICK s : s = [scroll EXCEPT !.offset = @ - 1, !.auto = FALSE]
      OBVIOUS
    <3>2. s \in Scroll /\ s.height = scroll.height
      <4>1. PICK o : o = scroll.offset - 1
        OBVIOUS
      <4>2. o \in Nat
        BY <1>1, <2>1, <4>1
      <4> QED BY <1>1, <3>1, <4>1, <4>2
    <3>3. Scrolling(s)
      BY <1>2, <2>1, <3>1 DEF ScrollUp
    <3> QED BY <3>2, <3>3, ScrollingKeeps
  <2>2. CASE ~ (scroll.offset > 0)
    BY <1>1, <1>2, <2>2, ScrollingKeeps DEF ScrollUp
  <2> QED BY <2>1, <2>2
<1>3. CASE ScrollDown
  <2>1. CASE scroll.offset < Floor(FilteredTotal - scroll.height)
    <3>1. PICK s : s = [scroll EXCEPT !.offset = @ + 1, !.auto = FALSE]
      OBVIOUS
    <3>2. s \in Scroll /\ s.height = scroll.height
      <4>1. PICK o : o = scroll.offset + 1
        OBVIOUS
      <4>2. o \in Nat
        BY <1>1, <4>1
      <4> QED BY <1>1, <3>1, <4>1, <4>2
    <3>3. Scrolling(s)
      BY <1>3, <2>1, <3>1 DEF ScrollDown
    <3> QED BY <3>2, <3>3, ScrollingKeeps
  <2>2. CASE ~ (scroll.offset < Floor(FilteredTotal - scroll.height))
    BY <1>1, <1>3, <2>2, ScrollingKeeps DEF ScrollDown
  <2> QED BY <2>1, <2>2
<1>4. CASE JumpToTop
  <2>1. PICK s : s = [scroll EXCEPT !.offset = 0, !.auto = FALSE]
    OBVIOUS
  <2>2. s \in Scroll /\ s.height = scroll.height
    BY <1>1, <2>1
  <2> QED BY <1>4, <2>1, <2>2, ScrollingKeeps DEF JumpToTop
<1>5. CASE JumpToBottom
  <2>1. PICK s : s = [scroll EXCEPT !.offset = Floor(FilteredTotal - scroll.height), !.auto = TRUE]
    OBVIOUS
  <2>2. Floor(FilteredTotal - scroll.height) \in Nat
    BY <1>1 DEF Floor
  <2>3. s \in Scroll /\ s.height = scroll.height
    BY <1>1, <2>1, <2>2
  <2> QED BY <1>5, <2>1, <2>3, ScrollingKeeps DEF JumpToBottom
<1>6. CASE CycleLevel
  <2>1. PICK m : m = Cycle(scroll.min)
    OBVIOUS
  <2>2. m \in 1 .. 4
    BY <1>1, <2>1 DEF Cycle
  <2>3. PICK s : s = [scroll EXCEPT !.min = m, !.auto = TRUE, !.offset = 0]
    OBVIOUS
  <2>4. s \in Scroll /\ s.height = scroll.height /\ s.auto
    BY <1>1, <2>2, <2>3
  <2>5. Filtering(s)
    BY <1>6, <2>1, <2>3 DEF CycleLevel
  <2> QED BY <2>4, <2>5, FilteringKeeps
<1>7. CASE ToggleConnectionFilter
  <2>1. PICK s : s = [scroll EXCEPT !.active = ~@, !.auto = TRUE, !.offset = 0]
    OBVIOUS
  <2>2. s \in Scroll /\ s.height = scroll.height /\ s.auto
    BY <1>1, <2>1
  <2>3. Filtering(s)
    BY <1>7, <2>1 DEF ToggleConnectionFilter
  <2> QED BY <2>2, <2>3, FilteringKeeps
<1> QED BY <1>2, <1>3, <1>4, <1>5, <1>6, <1>7

LEMMA SearchKeyKeeps ==
  ASSUME LogsInv, NEW q \in BOOLEAN, SearchKey(q)
  PROVE  LogsInv'
<1>1. "search" \in Dues
  BY DEF Dues
<1> QED BY <1>1, EventKeeps DEF SearchKey, LogsInv, LogsTyped

LEMMA ToggleVisibleKeeps ==
  ASSUME LogsInv, NEW c \in LogConn, ToggleVisible(c)
  PROVE  LogsInv'
<1>1. "search" \in Dues
  BY DEF Dues
<1>2. shown' \subseteq LogConn
  BY DEF ToggleVisible, LogsInv, LogsTyped
<1> QED BY <1>1, <1>2, EventKeeps DEF ToggleVisible, LogsInv, LogsTyped

LEMMA TickLogsKeeps == ASSUME LogsInv, TickLogs PROVE LogsInv'
<1>1. "tick" \in Dues
  BY DEF Dues
<1> QED BY <1>1, EventKeeps DEF TickLogs, LogsInv, LogsTyped

\* The frame of the Logs tab: as many lines as there are from where the view starts.
LEMMA RenderLogsIs ==
  ASSUME LogsInv, NEW h \in Heights, RenderLogs(h)
  PROVE  LET all == FilteredEntries(log)
         IN  /\ all \in Seq(Entries) /\ all = FilteredEntries(log)'
             /\ page'.lines = Slice(all, DisplayOffset(h, Len(all)), h)
             /\ DisplayOffset(h, Len(all)) \in Nat
             /\ page'.due = "no" /\ page'.drawn /\ page'.evicted = Evicted
             /\ page' \in [due : Dues, drawn : BOOLEAN, evicted : Nat, lines : Seq(Entries)]
             /\ scroll' \in Scroll /\ scroll'.height = h /\ h \in Nat
             /\ scroll'.offset = scroll.offset /\ scroll'.auto = scroll.auto
             /\ scroll.offset \in Nat /\ Len(page'.lines) <= h
<1> USE DEF LogsInv
<1>1. PICK all : all = FilteredEntries(log)
  OBVIOUS
<1>2. all \in Seq(Entries) /\ Len(all) \in Nat
  BY <1>1, FilteredIsSequence
<1>3. h \in Nat
  BY HeightsAreNumbers
<1>4. scroll.offset \in Nat /\ scroll.auto \in BOOLEAN
  BY ScrollIs
<1>5. PICK first : first = DisplayOffset(h, Len(all))
  OBVIOUS
<1>6. first \in Nat
  BY <1>2, <1>3, <1>4, <1>5 DEF DisplayOffset, Floor
<1>7. PICK view : view = Slice(all, first, h)
  OBVIOUS
<1>8. view \in Seq(Entries) /\ Len(view) <= h
  <2>1. view \in Seq(Entries) /\ Len(view) = Floor(Least(first + h, Len(all)) - first)
    BY <1>2, <1>3, <1>6, <1>7, SliceIs
  <2> QED BY <2>1, <1>2, <1>3, <1>6 DEF Floor, Least
<1>9. page' = [due |-> "no", drawn |-> TRUE, evicted |-> Evicted, lines |-> view]
  BY <1>1, <1>5, <1>7 DEF RenderLogs, Slice
<1>10. Evicted \in Nat
  <2>1. Len(log) \in Nat /\ Len(log) <= logged /\ logged \in Nat
    BY LogsAssumption DEF LogsTyped
  <2> QED BY <2>1 DEF Evicted
<1>11. page' \in [due : Dues, drawn : BOOLEAN, evicted : Nat, lines : Seq(Entries)]
  BY <1>8, <1>9, <1>10 DEF Dues
<1>12. /\ scroll' \in Scroll /\ scroll'.height = h
       /\ scroll'.offset = scroll.offset /\ scroll'.auto = scroll.auto
       /\ scroll'.min = scroll.min /\ scroll'.active = scroll.active
  BY <1>3 DEF RenderLogs, LogsTyped, Scroll
<1>13. all = FilteredEntries(log)'
  BY <1>1, <1>12 DEF RenderLogs, FilteredEntries, ConnectionPasses
<1> QED BY <1>1, <1>2, <1>3, <1>4, <1>5, <1>6, <1>7, <1>8, <1>9, <1>11, <1>12, <1>13

LEMMA RenderLogsKeeps == ASSUME NEW h \in Heights, LogsInv, RenderLogs(h) PROVE LogsInv'
<1> USE DEF LogsInv
<1>1. PICK all : all = FilteredEntries(log)
  OBVIOUS
<1>2. /\ all \in Seq(Entries) /\ all = FilteredEntries(log)'
      /\ page'.lines = Slice(all, DisplayOffset(h, Len(all)), h)
      /\ page'.due = "no" /\ page'.drawn /\ page'.evicted = Evicted
      /\ page' \in [due : Dues, drawn : BOOLEAN, evicted : Nat, lines : Seq(Entries)]
      /\ scroll' \in Scroll /\ scroll'.height = h /\ h \in Nat
      /\ scroll'.offset = scroll.offset /\ scroll'.auto = scroll.auto
      /\ scroll.offset \in Nat /\ Len(page'.lines) <= h
  BY <1>1, RenderLogsIs
<1>3. LogsTyped'
  BY <1>2 DEF RenderLogs, LogsTyped
<1>4. Evicted' = Evicted /\ Evicted \in Nat
  <2>1. Len(log) \in Nat /\ Len(log) <= logged /\ logged \in Nat
    BY LogsAssumption DEF LogsTyped
  <2> QED BY <2>1 DEF Evicted, RenderLogs
<1>5. ASSUME ~scroll'.auto PROVE IsPrefix(page'.lines, Below')
  <2>1. DisplayOffset(h, Len(all)) = scroll.offset
    BY <1>2, <1>5 DEF DisplayOffset
  <2>2. Below' = Slice(all, scroll.offset, h)
    BY <1>2 DEF Below, Slice
  <2>3. page'.lines = Below'
    BY <1>2, <2>1, <2>2
  <2>4. page'.lines \in Seq(Entries)
    BY <1>2
  <2> QED BY <2>3, <2>4, PrefixIs
<1>6. PageStands'
  BY <1>2, <1>4, <1>5 DEF PageStands
<1> QED BY <1>3, <1>6

LEMMA RenderElseKeeps == ASSUME LogsInv, RenderElse PROVE LogsInv'
<1> USE DEF LogsInv
<1>1. PICK p : p = page'
  OBVIOUS
<1>2. <<>> \in Seq(Entries)
  OBVIOUS
<1>3. /\ p \in [due : Dues, drawn : BOOLEAN, evicted : Nat, lines : Seq(Entries)]
      /\ p.due = "no" /\ ~p.drawn /\ p.evicted = page.evicted /\ p.lines = <<>>
  BY <1>1, <1>2 DEF RenderElse, LogsTyped, Dues
<1>4. LogsTyped'
  BY <1>1, <1>3 DEF LogsTyped, RenderElse
<1>5. Evicted' = Evicted /\ scroll' = scroll
  BY DEF Evicted, RenderElse
<1>6. Len(p.lines) = 0 /\ scroll.height \in Nat
  BY <1>3, ScrollIs
<1> QED BY <1>1, <1>3, <1>4, <1>5, <1>6 DEF PageStands

LEMMA LogsStepKeeps == ASSUME LogsInv, LogsNext PROVE LogsInv'
BY AppendLogKeeps, ViewKeyKeeps, SearchKeyKeeps, ToggleVisibleKeeps, TickLogsKeeps,
   RenderElseKeeps, RenderLogsKeeps DEF LogsNext, LogsKey

LEMMA LogsNextKeeps == LogsInv /\ [LogsNext]_logsVars => LogsInv'
<1>1. ASSUME LogsInv, UNCHANGED logsVars PROVE LogsInv'
  BY <1>1 DEF logsVars, LogsInv, LogsTyped, PageStands, Below, FilteredEntries,
       ConnectionPasses, Evicted
<1> QED BY <1>1, LogsStepKeeps

LEMMA LogsInvariance == LogsSpec => []LogsInv
BY LogsInitInvariant, LogsNextKeeps, PTL DEF LogsSpec

\* Nothing but the tab itself draws a frame of the log.
LEMMA FrameIsRendered ==
  ASSUME LogsInv, LogsNext, Frame PROVE \E h \in Heights : RenderLogs(h)
<1>1. ASSUME NEW what \in Dues, what # "no", Event(what) PROVE FALSE
  BY <1>1 DEF Event, Frame, LogsInv, LogsTyped
<1>2. ASSUME NEW k \in Kinds, AppendLog(k) PROVE FALSE
  BY <1>2 DEF AppendLog, Frame
<1>3. ~RenderElse
  BY DEF RenderElse, Frame, LogsInv, LogsTyped
<1>4. ~LogsKey /\ ~TickLogs
  BY <1>1 DEF LogsKey, TickLogs, ScrollUp, ScrollDown, JumpToTop, JumpToBottom, CycleLevel,
     ToggleConnectionFilter, SearchKey, ToggleVisible, Scrolling, Filtering, Dues
<1> QED BY <1>2, <1>3, <1>4 DEF LogsNext

LEMMA NewestIsShown ==
  ASSUME LogsInv, LogsNext, Frame, scroll.auto \/ page.due = "filter"
  PROVE  LET filtered == FilteredEntries(log)
         IN  /\ Len(page'.lines) = Least(scroll'.height, Len(filtered))
             /\ page'.lines # <<>> => Last(page'.lines) = Last(filtered)
<1>1. PICK h \in Heights : RenderLogs(h)
  BY FrameIsRendered
<1>2. PICK all : all = FilteredEntries(log)
  OBVIOUS
<1>3. scroll.auto
  BY DEF LogsInv, PageStands
<1>4. /\ all \in Seq(Entries) /\ page'.lines = Slice(all, DisplayOffset(h, Len(all)), h)
      /\ scroll'.height = h /\ h \in Nat
  BY <1>1, <1>2, RenderLogsIs
<1>5. PICK n : n = Len(all)
  OBVIOUS
<1>6. PICK first : first = Floor(n - h)
  OBVIOUS
<1>7. n \in Nat /\ first \in Nat /\ first = DisplayOffset(h, Len(all))
  BY <1>3, <1>4, <1>5, <1>6 DEF Floor, DisplayOffset
<1>8. PICK view : view = page'.lines
  OBVIOUS
<1>9. /\ view \in Seq(Entries) /\ Len(view) = Floor(Least(first + h, n) - first)
      /\ \A i \in 1 .. Len(view) : view[i] = all[first + i]
  BY <1>4, <1>5, <1>7, <1>8, SliceIs
<1>10. Len(view) = Least(h, n) /\ (Len(view) # 0 => first + Len(view) = n)
  <2>1. CASE n < h
    <3>1. first = 0 /\ Least(first + h, n) = n
      BY <1>4, <1>6, <1>7, <2>1 DEF Floor, Least
    <3>2. Len(view) = n /\ Least(h, n) = n
      BY <1>4, <1>7, <1>9, <2>1, <3>1 DEF Floor, Least
    <3> QED BY <1>7, <3>1, <3>2
  <2>2. CASE ~ (n < h)
    <3>1. first = n - h /\ Least(first + h, n) = n
      BY <1>4, <1>6, <1>7, <2>2 DEF Floor, Least
    <3> QED BY <1>4, <1>7, <1>9, <2>2, <3>1 DEF Floor, Least
  <2> QED BY <2>1, <2>2
<1>11. ASSUME view # <<>> PROVE Last(view) = Last(all)
  <2>1. Len(view) \in Nat /\ Len(view) # 0
    BY <1>9, <1>11
  <2>2. view[Len(view)] = all[n]
    BY <1>9, <1>10, <2>1
  <2> QED BY <2>2, <1>5 DEF Last
<1> QED BY <1>2, <1>4, <1>5, <1>8, <1>10, <1>11

LEMMA ScrolledViewStays ==
  ASSUME LogsInv, LogsNext, Frame, page.due = "tick", page.drawn, ~scroll.auto,
         page.evicted = Evicted, scroll'.height >= scroll.height
  PROVE  IsPrefix(page.lines, page'.lines)
<1>1. PICK h \in Heights : RenderLogs(h)
  BY FrameIsRendered
<1>2. PICK all : all = FilteredEntries(log)
  OBVIOUS
<1>3. /\ all \in Seq(Entries) /\ page'.lines = Slice(all, DisplayOffset(h, Len(all)), h)
      /\ scroll'.height = h /\ h \in Nat /\ scroll.offset \in Nat
  BY <1>1, <1>2, RenderLogsIs
<1>4. DisplayOffset(h, Len(all)) = scroll.offset
  BY DEF DisplayOffset
<1>5. IsPrefix(page.lines, Below)
  BY DEF LogsInv, PageStands
<1>6. Below = Slice(all, scroll.offset, scroll.height)
  BY <1>2 DEF Below, Slice
<1>7. page.lines \in Seq(Entries) /\ scroll.height \in Nat
  BY ScrollIs DEF LogsInv, LogsTyped
<1>8. IsPrefix(page.lines, Slice(all, scroll.offset, h))
  <2>1. PICK m \in Nat : m = scroll.offset
    BY <1>3
  <2>2. PICK n \in Nat : n = scroll.height
    BY <1>7
  <2>3. IsPrefix(page.lines, Slice(all, m, n)) /\ n <= h
    BY <1>3, <1>5, <1>6, <2>1, <2>2
  <2>4. Len(all) <= Len(all) /\ \A i \in 1 .. Len(all) : all[i] = all[i]
    BY <1>3
  <2>5. IsPrefix(page.lines, Slice(all, m, h))
    BY <1>3, <1>7, <2>3, <2>4, SliceGrows
  <2> QED BY <2>1, <2>5
<1> QED BY <1>3, <1>4, <1>8

\* The frame of the Logs tab, whatever has arrived, been evicted or been resized
\* since the key: filled with the newest entries that pass while the view follows
\* the log and after a change of filter, and otherwise the lines of the frame
\* before with what has arrived below them.
THEOREM LogViewKept == LogsSpec => LogViewSteady
<1>1. LogsInv /\ [LogsNext]_logsVars =>
        [Frame /\ (scroll.auto \/ page.due = "filter") =>
           LET filtered == FilteredEntries(log)
           IN  /\ Len(page'.lines) = Least(scroll'.height, Len(filtered))
               /\ page'.lines # <<>> => Last(page'.lines) = Last(filtered)]_logsVars
  BY NewestIsShown
<1>2. LogsInv /\ [LogsNext]_logsVars =>
        [Frame /\ page.due = "tick" /\ page.drawn /\ ~scroll.auto
           /\ page.evicted = Evicted /\ scroll'.height >= scroll.height
         => IsPrefix(page.lines, page'.lines)]_logsVars
  BY ScrolledViewStays
<1>3. LogsSpec => ShowsNewest
  BY <1>1, LogsInvariance, PTL DEF LogsSpec, ShowsNewest
<1>4. LogsSpec => FrozenView
  BY <1>2, LogsInvariance, PTL DEF LogsSpec, FrozenView
<1> QED BY <1>3, <1>4 DEF LogViewSteady

-----------------------------------------------------------------------------
(* TuiRows                                                                  *)

IsUi(s) ==
  /\ s = [conns |-> s.conns, visible |-> s.visible, tab |-> s.tab, filter |-> s.filter,
          match |-> s.match, view |-> s.view, past |-> s.past]
  /\ s.conns \subseteq RowConn /\ s.tab \in RowTab /\ s.filter \in BOOLEAN
  /\ s.view \in {"Live", "Historical"} /\ s.past \in Nat

\* The frame highlights the row that is selected in the list on the screen, or some run
\* of the history.
FrameIs(s, r, f) ==
  f # Blank =>
    /\ \A l \in OnScreen(s) \ {"list"} : f = Highlight(r[l], ListOf(s, l))
    /\ OnScreen(s) = {"list"} => f = NoRow \/ f.kind = "run"

\* While nothing has been reloaded since, the state is what the frame was drawn from.
RowsInv ==
  /\ IsUi(ui) /\ rows \in [Lists -> Nat] /\ rows["live"] < 3
  /\ late \/ FrameIs(ui, rows, frame)
  /\ ActsOnHighlighted

LEMMA SortedLength ==
  ASSUME NEW S \in SUBSET RowConn
  PROVE  DOMAIN Sorted(S) = 1 .. Cardinality(S) /\ Cardinality(S) \in Nat
<1>1. IsFiniteSet(S)
  BY RowsAssumption, FS_Subset
<1>2. Cardinality(S) \in Nat
  BY <1>1, FS_CardinalityType
<1> QED BY <1>2 DEF Sorted

\* A row of a list.
IsList(list) == list \in Seq({list[i] : i \in DOMAIN list})

LEMMA RowsAreLists ==
  ASSUME NEW kind, NEW seq, NEW n \in Nat, DOMAIN seq = 1 .. n
  PROVE  /\ IsList(Rows(kind, seq)) /\ Len(Rows(kind, seq)) = n
         /\ \A i \in 1 .. n : Rows(kind, seq)[i] = Cell(kind, seq[i])
<1>1. PICK list : list = [i \in 1 .. n |-> Cell(kind, seq[i])]
  OBVIOUS
<1>2. list = Rows(kind, seq)
  BY <1>1 DEF Rows
<1>3. /\ DOMAIN list = 1 .. n
      /\ list \in [1 .. n -> {list[i] : i \in DOMAIN list}]
      /\ \A i \in 1 .. n : list[i] = Cell(kind, seq[i])
  BY <1>1
<1>4. list \in Seq({list[i] : i \in DOMAIN list}) /\ Len(list) = n
  BY <1>3
<1> QED BY <1>2, <1>3, <1>4 DEF IsList

LEMMA StatusRowsIs ==
  ASSUME NEW s, IsUi(s) PROVE IsList(StatusRows(s)) /\ Len(StatusRows(s)) \in Nat
<1>1. s.conns \cap s.visible \in SUBSET RowConn
  BY DEF IsUi
<1>2. PICK seq : seq = Sorted(s.conns \cap s.visible)
  OBVIOUS
<1>3. PICK n \in Nat : DOMAIN seq = 1 .. n
  BY <1>1, <1>2, SortedLength
<1> QED BY <1>2, <1>3, RowsAreLists DEF StatusRows

LEMMA FilterRowsIs ==
  ASSUME NEW s, IsUi(s) PROVE IsList(FilterRows(s)) /\ Len(FilterRows(s)) \in Nat
<1>1. s.conns \cap s.match \in SUBSET RowConn
  BY DEF IsUi
<1>2. PICK seq : seq = Sorted(s.conns \cap s.match)
  OBVIOUS
<1>3. PICK n \in Nat : DOMAIN seq = 1 .. n
  BY <1>1, <1>2, SortedLength
<1> QED BY <1>2, <1>3, RowsAreLists DEF FilterRows

LEMMA BackendRowsIs ==
  /\ IsList(BackendRows) /\ Len(BackendRows) = 3
  /\ \A i \in 1 .. 3 : BackendRows[i].kind = "backend"
<1>1. DOMAIN <<1, 2, 3>> = 1 .. 3
  OBVIOUS
<1>2. /\ IsList(BackendRows) /\ Len(BackendRows) = 3
      /\ \A i \in 1 .. 3 : BackendRows[i] = Cell("backend", <<1, 2, 3>>[i])
  BY <1>1, RowsAreLists DEF BackendRows
<1> QED BY <1>2 DEF Cell

LEMMA PastRowsIs ==
  ASSUME NEW s, IsUi(s)
  PROVE  /\ IsList(PastRows(s)) /\ Len(PastRows(s)) = s.past
         /\ \A i \in 1 .. s.past : PastRows(s)[i].kind = "run"
<1>1. PICK seq : seq = [i \in 1 .. s.past |-> s.past - i + 1]
  OBVIOUS
<1>2. s.past \in Nat /\ DOMAIN seq = 1 .. s.past
  BY <1>1 DEF IsUi
<1>3. /\ IsList(PastRows(s)) /\ Len(PastRows(s)) = s.past
      /\ \A i \in 1 .. s.past : PastRows(s)[i] = Cell("run", seq[i])
  BY <1>1, <1>2, RowsAreLists DEF PastRows
<1>4. \A x : Cell("run", x).kind = "run"
  BY DEF Cell
<1> QED BY <1>3, <1>4

LEMMA ListsAre ==
  ASSUME NEW s, IsUi(s), NEW l \in Lists
  PROVE  IsList(ListOf(s, l)) /\ Len(ListOf(s, l)) \in Nat
BY StatusRowsIs, FilterRowsIs, BackendRowsIs, PastRowsIs DEF ListOf, Lists, IsUi

LEMMA ListIsEmpty == ASSUME NEW list, IsList(list) PROVE list = <<>> <=> Len(list) = 0
BY DEF IsList

\* Drawing selects a row of the list, and the same row is highlighted when it is drawn again.
LEMMA ClampedIs ==
  ASSUME NEW list, IsList(list), Len(list) \in Nat, NEW row \in Nat
  PROVE  /\ Clamped(row, list) \in Nat /\ Clamped(row, list) <= row
         /\ Highlight(Clamped(row, list), list) = Highlight(row, list)
         /\ row < Len(list) => list # <<>> /\ Highlight(row, list) = list[row + 1]
         /\ list # <<>> => Clamped(row, list) + 1 \in 1 .. Len(list)
<1>1. list = <<>> <=> Len(list) = 0
  BY ListIsEmpty
<1>2. PICK n \in Nat : n = Len(list)
  OBVIOUS
<1>3. Clamped(row, list) = IF n # 0 /\ row >= n THEN n - 1 ELSE row
  BY <1>1, <1>2 DEF Clamped
<1>4. Clamped(row, list) \in Nat /\ Clamped(row, list) <= row
  BY <1>3
<1>5. PICK c \in Nat : c = Clamped(row, list)
  BY <1>4
<1>6. Clamped(c, list) = c
  <2>1. Clamped(c, list) = IF n # 0 /\ c >= n THEN n - 1 ELSE c
    BY <1>1, <1>2 DEF Clamped
  <2> QED BY <2>1, <1>3, <1>5
<1>7. Highlight(c, list) = Highlight(row, list)
  BY <1>5, <1>6 DEF Highlight
<1>8. ASSUME row < n PROVE list # <<>> /\ Highlight(row, list) = list[row + 1]
  <2>1. list # <<>> /\ Clamped(row, list) = row
    BY <1>1, <1>2, <1>3, <1>8
  <2> QED BY <2>1 DEF Highlight
<1>9. list # <<>> => c + 1 \in 1 .. n
  BY <1>1, <1>2, <1>3, <1>5
<1> QED BY <1>2, <1>4, <1>5, <1>7, <1>8, <1>9

LEMMA OnScreenIs ==
  ASSUME NEW s, IsUi(s)
  PROVE  /\ OnScreen(s) \subseteq Tables(s)
         /\ OnScreen(s) = {} \/ \E l \in Lists : OnScreen(s) = {l}
         /\ s.filter => OnScreen(s) = {"filter"}
         /\ ~s.filter /\ s.tab = "Status" => OnScreen(s) = {"status"}
         /\ ~s.filter /\ s.tab = "Compare" =>
              OnScreen(s) = IF s.view = "Live" THEN {"live"} ELSE {"list"}
BY DEF OnScreen, Tables, Lists

LEMMA DrawShows ==
  ASSUME NEW s, IsUi(s), NEW r \in [Lists -> Nat], Draw(s, r)
  PROVE  /\ rows' \in [Lists -> Nat] /\ \A l \in Lists : rows'[l] <= r[l]
         /\ FrameIs(s, rows', frame')
<1>1. CASE term.read
  <2>1. /\ rows' = [l \in Lists |-> IF l \in Tables(s) THEN Clamped(r[l], ListOf(s, l)) ELSE r[l]]
        /\ frame' = IF OnScreen(s) = {} THEN NoRow
                    ELSE LET l == CHOOSE l \in OnScreen(s) : TRUE
                         IN  Highlight(r[l], ListOf(s, l))
    BY <1>1 DEF Draw
  <2>2. PICK q : q = rows'
    OBVIOUS
  <2>3. \A l \in Lists : IsList(ListOf(s, l)) /\ Len(ListOf(s, l)) \in Nat /\ r[l] \in Nat
    BY ListsAre
  <2>4. \A l \in Lists : q[l] = IF l \in Tables(s) THEN Clamped(r[l], ListOf(s, l)) ELSE r[l]
    BY <2>1, <2>2
  <2>5. \A l \in Lists : q[l] \in Nat /\ q[l] <= r[l]
    BY <2>3, <2>4, ClampedIs
  <2>6. q \in [Lists -> Nat]
    BY <2>1, <2>2, <2>5
  <2>7. FrameIs(s, q, frame')
    <3>1. CASE OnScreen(s) = {}
      BY <2>1, <3>1 DEF FrameIs
    <3>2. ASSUME NEW l \in Lists, OnScreen(s) = {l} PROVE FrameIs(s, q, frame')
      <4>1. PICK list : list = ListOf(s, l)
        OBVIOUS
      <4>2. frame' = Highlight(r[l], list)
        BY <2>1, <3>2, <4>1
      <4>3. q[l] = Clamped(r[l], list)
        BY <2>4, <3>2, <4>1, OnScreenIs
      <4>4. IsList(list) /\ Len(list) \in Nat /\ r[l] \in Nat
        BY <2>3, <4>1
      <4>5. frame' = Highlight(q[l], list)
        BY <4>2, <4>3, <4>4, ClampedIs
      <4>6. l = "list" => frame' = NoRow \/ frame'.kind = "run"
        <5> SUFFICES ASSUME l = "list", list # <<>> PROVE frame'.kind = "run"
          BY <4>2 DEF Highlight
        <5>1. list = PastRows(s)
          BY <4>1 DEF ListOf
        <5>2. frame' = list[Clamped(r[l], list) + 1]
          BY <4>2 DEF Highlight
        <5>3. Clamped(r[l], list) + 1 \in 1 .. Len(list)
          BY <4>4, ClampedIs
        <5>4. Len(list) = s.past /\ \A i \in 1 .. s.past : list[i].kind = "run"
          BY <5>1, PastRowsIs
        <5> QED BY <5>2, <5>3, <5>4
      <4> QED BY <3>2, <4>1, <4>5, <4>6 DEF FrameIs
    <3> QED BY <3>1, <3>2, OnScreenIs
  <2> QED BY <2>2, <2>5, <2>6, <2>7
<1>2. CASE ~term.read
  BY <1>2 DEF Draw, FrameIs
<1> QED BY <1>1, <1>2

LEMMA HandledKeeps ==
  ASSUME NEW s, IsUi(s), NEW r \in [Lists -> Nat], r["live"] < 3, Handled(s, r),
         ActsOnHighlighted'
  PROVE  RowsInv'
<1>1. /\ rows' \in [Lists -> Nat] /\ \A l \in Lists : rows'[l] <= r[l]
      /\ FrameIs(s, rows', frame')
  BY DrawShows DEF Handled
<1>2. PICK q \in [Lists -> Nat] : q = rows'
  BY <1>1
<1>3. "live" \in Lists
  BY DEF Lists
<1>4. q["live"] < 3
  BY <1>1, <1>2, <1>3
<1>5. ui' = s
  BY DEF Handled
<1> QED BY <1>1, <1>2, <1>4, <1>5 DEF RowsInv

LEMMA NothingActed == NothingActs => ActsOnHighlighted'
BY DEF NothingActs, NoAct, ActsOnHighlighted

\* The keys that act on a row of a list that is drawn.
LEMMA ActsOnFrame ==
  ASSUME RowsInv, NEW l \in Lists \ {"list"}, OnScreen(ui) = {l}, NEW list,
         list = ListOf(ui, l), rows[l] < Len(list), Acts(rows[l], list)
  PROVE  ActsOnHighlighted'
<1>1. acted' = [on |-> list[rows[l] + 1], seen |-> frame, late |-> late]
  BY DEF Acts
<1>2. CASE late \/ frame = Blank
  BY <1>1, <1>2 DEF ActsOnHighlighted
<1>3. CASE ~late /\ frame # Blank
  <2>1. frame = Highlight(rows[l], list)
    BY <1>3 DEF RowsInv, FrameIs
  <2>2. IsList(list) /\ Len(list) \in Nat /\ rows[l] \in Nat
    BY ListsAre DEF RowsInv
  <2>3. frame = list[rows[l] + 1]
    BY <2>1, <2>2, ClampedIs
  <2> QED BY <1>1, <2>3 DEF ActsOnHighlighted
<1> QED BY <1>2, <1>3

LEMMA StatusActKeeps == ASSUME RowsInv, StatusAct PROVE RowsInv'
<1>1. OnScreen(ui) = {"status"} /\ "status" \in Lists \ {"list"}
  BY OnScreenIs DEF StatusAct, RowsInv, Lists
<1>2. PICK list : list = StatusRows(ui)
  OBVIOUS
<1>3. list = ListOf(ui, "status") /\ rows["status"] < Len(list) /\ Acts(rows["status"], list)
  BY <1>2 DEF StatusAct, Named, ListOf
<1>4. ActsOnHighlighted'
  BY <1>1, <1>3, ActsOnFrame
<1>5. Handled(ui, rows)
  BY DEF StatusAct
<1> QED BY <1>4, <1>5, HandledKeeps DEF RowsInv

LEMMA CompareActKeeps == ASSUME RowsInv, CompareAct PROVE RowsInv'
<1>1. "live" \in Lists /\ rows["live"] \in Nat /\ rows["live"] < 3
  BY DEF RowsInv, Lists
<1>2. PICK row : row = rows["live"]
  OBVIOUS
<1>3. acted' = [on |-> BackendRows[row + 1], seen |-> frame, late |-> late]
  BY <1>2 DEF CompareAct, SelectedBackend
<1>4. BackendRows[row + 1].kind = "backend"
  <2>1. row + 1 \in 1 .. 3
    BY <1>1, <1>2
  <2> QED BY <2>1, BackendRowsIs
<1>5. ActsOnHighlighted'
  <2>1. CASE late \/ frame = Blank
    BY <1>3, <2>1 DEF ActsOnHighlighted
  <2>2. CASE ~late /\ frame # Blank /\ ui.view = "Live"
    <3>1. OnScreen(ui) = {"live"} /\ ListOf(ui, "live") = BackendRows
      BY <2>2, OnScreenIs DEF CompareAct, RowsInv, ListOf
    <3>2. frame = Highlight(row, BackendRows)
      BY <1>2, <2>2, <3>1 DEF RowsInv, FrameIs
    <3>3. frame = BackendRows[row + 1]
      <4>1. row \in Nat /\ row < 3 /\ IsList(BackendRows) /\ Len(BackendRows) = 3
        BY <1>1, <1>2, BackendRowsIs
      <4>2. PICK list : list = BackendRows
        OBVIOUS
      <4>3. IsList(list) /\ Len(list) \in Nat /\ row \in Nat /\ row < Len(list)
        BY <4>1, <4>2
      <4>4. Highlight(row, list) = list[row + 1]
        BY <4>3, ClampedIs
      <4> QED BY <3>2, <4>2, <4>4
    <3> QED BY <1>3, <3>3 DEF ActsOnHighlighted
  <2>3. CASE ~late /\ frame # Blank /\ ui.view # "Live"
    <3>1. OnScreen(ui) = {"list"}
      BY <2>3, OnScreenIs DEF CompareAct, RowsInv
    <3>2. frame = NoRow \/ frame.kind = "run"
      BY <2>3, <3>1 DEF RowsInv, FrameIs
    <3> QED BY <1>3, <1>4, <3>2 DEF ActsOnHighlighted
  <2> QED BY <2>1, <2>2, <2>3
<1>6. Handled(ui, rows)
  BY DEF CompareAct
<1> QED BY <1>5, <1>6, HandledKeeps DEF RowsInv

LEMMA FilterActKeeps == ASSUME RowsInv, FilterAct PROVE RowsInv'
<1>1. OnScreen(ui) = {"filter"} /\ "filter" \in Lists \ {"list"}
  BY OnScreenIs DEF FilterAct, RowsInv, Lists
<1>2. PICK list : list = FilterRows(ui)
  OBVIOUS
<1>3. list = ListOf(ui, "filter") /\ rows["filter"] < Len(list) /\ Acts(rows["filter"], list)
  BY <1>2 DEF FilterAct, ListOf
<1>4. ActsOnHighlighted'
  BY <1>1, <1>3, ActsOnFrame
<1>5. PICK s : s = ToggleVisibility(ui, FilterRows(ui)[rows.filter + 1].which)
  OBVIOUS
<1>6. IsUi(s)
  BY <1>5 DEF ToggleVisibility, RowsInv, IsUi
<1>7. Handled(s, rows)
  BY <1>5 DEF FilterAct
<1> QED BY <1>4, <1>6, <1>7, HandledKeeps DEF RowsInv

LEMMA StepRowKeeps == ASSUME RowsInv, StepRow PROVE RowsInv'
<1>1. PICK by \in {1, -1} :
        Handled(ui, [l \in Lists |-> IF Moves(ui, l) THEN StepTo(rows[l], by, ListOf(ui, l))
                                     ELSE rows[l]])
  BY DEF StepRow
<1>2. PICK r : r = [l \in Lists |-> IF Moves(ui, l) THEN StepTo(rows[l], by, ListOf(ui, l))
                                    ELSE rows[l]]
  OBVIOUS
<1>3. ASSUME NEW list, IsList(list), Len(list) \in Nat, NEW row \in Nat
      PROVE  /\ StepTo(row, by, list) \in Nat
             /\ Len(list) = 3 /\ row < 3 => StepTo(row, by, list) < 3
  <2>1. list = <<>> <=> Len(list) = 0
    BY <1>3, ListIsEmpty
  <2>2. PICK n \in Nat : n = Len(list)
    BY <1>3
  <2>3. StepTo(row, by, list) = IF by = 1 THEN IF row + 1 < n THEN row + 1
                                               ELSE IF n = 0 THEN 0 ELSE n - 1
                                ELSE IF row > 0 THEN row - 1 ELSE 0
    BY <2>1, <2>2 DEF StepTo
  <2>4. StepTo(row, by, list) \in Nat
    BY <2>3, <1>3
  <2>5. Len(list) = 3 /\ row < 3 => StepTo(row, by, list) < 3
    <3> SUFFICES ASSUME n = 3, row < 3 PROVE StepTo(row, by, list) < 3
      BY <2>2
    <3>1. row = 0 \/ row = 1 \/ row = 2
      BY <1>3
    <3> QED BY <2>3, <3>1
  <2> QED BY <2>4, <2>5
<1>4. ASSUME NEW l \in Lists PROVE r[l] \in Nat
  <2>1. rows[l] \in Nat /\ IsList(ListOf(ui, l)) /\ Len(ListOf(ui, l)) \in Nat
    BY ListsAre DEF RowsInv
  <2>2. r[l] = IF Moves(ui, l) THEN StepTo(rows[l], by, ListOf(ui, l)) ELSE rows[l]
    BY <1>2
  <2> QED BY <1>3, <2>1, <2>2
<1>5. r \in [Lists -> Nat]
  BY <1>2, <1>4
<1>6. r["live"] < 3
  <2>1. "live" \in Lists /\ rows["live"] \in Nat /\ rows["live"] < 3
    BY DEF RowsInv, Lists
  <2>2. ListOf(ui, "live") = BackendRows
    BY DEF ListOf
  <2>3. StepTo(rows["live"], by, BackendRows) < 3
    BY <1>3, <2>1, BackendRowsIs
  <2> QED BY <1>2, <2>1, <2>2, <2>3
<1>7. IsUi(ui) /\ Handled(ui, r) /\ NothingActs
  BY <1>1, <1>2 DEF RowsInv, StepRow
<1> QED BY <1>5, <1>6, <1>7, HandledKeeps, NothingActed

LEMMA SelectRowTabKeeps == ASSUME RowsInv, SelectRowTab PROVE RowsInv'
<1>1. PICK tab \in RowTab :
        Handled([ui EXCEPT !.tab = tab],
                [l \in Lists |-> IF l # "filter" /\ Moves(ui, l) THEN 0 ELSE rows[l]])
  BY DEF SelectRowTab
<1>2. PICK r : r = [l \in Lists |-> IF l # "filter" /\ Moves(ui, l) THEN 0 ELSE rows[l]]
  OBVIOUS
<1>3. PICK s : s = [ui EXCEPT !.tab = tab]
  OBVIOUS
<1>4. IsUi(s)
  BY <1>3 DEF RowsInv, IsUi
<1>5. r \in [Lists -> Nat] /\ r["live"] < 3
  BY <1>2 DEF RowsInv, Lists
<1>6. Handled(s, r) /\ NothingActs
  BY <1>1, <1>2, <1>3 DEF SelectRowTab
<1> QED BY <1>4, <1>5, <1>6, HandledKeeps, NothingActed

\* The events that act on no row.
LEMMA OtherKeysKeep ==
  ASSUME RowsInv, ToggleCompareView \/ OpenFilter \/ QueryKey \/ CloseFilter \/ OtherEvent
  PROVE  RowsInv'
<1>1. IsUi(ui) /\ rows \in [Lists -> Nat] /\ rows["live"] < 3
  BY DEF RowsInv
<1>2. CASE ToggleCompareView
  <2>1. PICK s : s = [ui EXCEPT !.view = IF @ = "Live" THEN "Historical" ELSE "Live"]
    OBVIOUS
  <2>2. IsUi(s)
    BY <1>1, <2>1 DEF IsUi
  <2>3. Handled(s, rows) /\ NothingActs
    BY <1>2, <2>1 DEF ToggleCompareView
  <2> QED BY <1>1, <2>2, <2>3, HandledKeeps, NothingActed
<1>3. PICK r : r = [rows EXCEPT !.filter = 0]
  OBVIOUS
<1>4. r \in [Lists -> Nat] /\ r["live"] < 3
  BY <1>1, <1>3 DEF Lists
<1>5. CASE OpenFilter
  <2>1. PICK s : s = [ui EXCEPT !.filter = TRUE]
    OBVIOUS
  <2>2. IsUi(s)
    BY <1>1, <2>1 DEF IsUi
  <2>3. Handled(s, r) /\ NothingActs
    BY <1>3, <1>5, <2>1 DEF OpenFilter
  <2> QED BY <1>4, <2>2, <2>3, HandledKeeps, NothingActed
<1>6. CASE QueryKey
  <2>1. PICK match \in SUBSET RowConn : Handled([ui EXCEPT !.match = match], r) /\ NothingActs
    BY <1>3, <1>6 DEF QueryKey
  <2>2. PICK s : s = [ui EXCEPT !.match = match]
    OBVIOUS
  <2>3. IsUi(s)
    BY <1>1, <2>2 DEF IsUi
  <2> QED BY <1>4, <2>1, <2>2, <2>3, HandledKeeps, NothingActed
<1>7. CASE CloseFilter
  <2>1. PICK s : s = [ui EXCEPT !.filter = FALSE, !.match = RowConn]
    OBVIOUS
  <2>2. IsUi(s)
    BY <1>1, <2>1 DEF IsUi
  <2>3. Handled(s, rows) /\ NothingActs
    BY <1>7, <2>1 DEF CloseFilter
  <2> QED BY <1>1, <2>2, <2>3, HandledKeeps, NothingActed
<1>8. CASE OtherEvent
  <2>1. Handled(ui, rows) /\ NothingActs
    BY <1>8 DEF OtherEvent
  <2> QED BY <1>1, <2>1, HandledKeeps, NothingActed
<1> QED BY <1>2, <1>5, <1>6, <1>7, <1>8

\* Messages: what they change of the state is in no frame that highlights a row, or the
\* user is late.
LEMMA TopKeeps == ASSUME RowsInv, Top PROVE RowsInv'
<1>1. UNCHANGED <<rows, frame>> /\ ActsOnHighlighted'
  BY NothingActed DEF Top
<1>2. CASE UNCHANGED <<ui, late>>
  BY <1>1, <1>2 DEF RowsInv
<1>3. ASSUME NEW S \in SUBSET RowConn, ui' = [ui EXCEPT !.conns = S, !.visible = S], late'
      PROVE  RowsInv'
  <2>1. PICK s : s = [ui EXCEPT !.conns = S, !.visible = S]
    OBVIOUS
  <2>2. IsUi(s)
    BY <2>1 DEF RowsInv, IsUi
  <2>3. ui' = s
    BY <1>3, <2>1
  <2> QED BY <1>1, <1>3, <2>2, <2>3 DEF RowsInv
<1>4. CASE ui' = [ui EXCEPT !.past = @ + 1] /\ UNCHANGED late
  <2>1. PICK s : s = [ui EXCEPT !.past = @ + 1]
    OBVIOUS
  <2>2. IsUi(s)
    BY <2>1 DEF RowsInv, IsUi
  <2>3. /\ s.conns = ui.conns /\ s.visible = ui.visible /\ s.match = ui.match
        /\ s.filter = ui.filter /\ s.tab = ui.tab /\ s.view = ui.view
    BY <2>1 DEF RowsInv, IsUi
  <2>4. OnScreen(s) = OnScreen(ui) /\ OnScreen(s) \subseteq Lists
    BY <2>3 DEF OnScreen, Lists
  <2>5. ASSUME NEW l \in Lists, l # "list" PROVE ListOf(s, l) = ListOf(ui, l)
    BY <2>3, <2>5 DEF ListOf, StatusRows, FilterRows, Lists
  <2>6. FrameIs(ui, rows, frame) => FrameIs(s, rows, frame)
    BY <2>4, <2>5 DEF FrameIs
  <2>7. ui' = s /\ late' = late
    BY <1>4, <2>1
  <2> QED BY <1>1, <2>2, <2>6, <2>7 DEF RowsInv
<1> QED BY <1>2, <1>3, <1>4 DEF Top

LEMMA RowsInitInvariant == RowsInit => RowsInv
<1> SUFFICES ASSUME RowsInit PROVE RowsInv
  OBVIOUS
<1>1. PICK S \in SUBSET RowConn :
        ui = [conns |-> S, visible |-> S, tab |-> "Overview", filter |-> FALSE, match |-> RowConn,
              view |-> "Live", past |-> 0]
  BY DEF RowsInit
<1>2. IsUi(ui)
  BY <1>1 DEF IsUi, RowTab
<1>3. rows \in [Lists -> Nat] /\ rows["live"] < 3
  BY DEF RowsInit, Lists
<1>4. FrameIs(ui, rows, frame)
  BY DEF RowsInit, FrameIs
<1>5. ActsOnHighlighted
  BY DEF RowsInit, NoAct, ActsOnHighlighted
<1> QED BY <1>2, <1>3, <1>4, <1>5 DEF RowsInv

LEMMA RowsNextKeeps == RowsInv /\ [RowsNext]_rowsVars => RowsInv'
<1> SUFFICES ASSUME RowsInv, [RowsNext]_rowsVars PROVE RowsInv'
  OBVIOUS
<1>1. CASE UNCHANGED rowsVars
  BY <1>1 DEF rowsVars, RowsInv, ActsOnHighlighted
<1>2. CASE Resize
  <2>1. UNCHANGED <<ui, rows, frame, late>> /\ ActsOnHighlighted'
    BY <1>2, NothingActed DEF Resize
  <2> QED BY <2>1 DEF RowsInv
<1> QED BY <1>1, <1>2, StepRowKeeps, SelectRowTabKeeps, CompareActKeeps, StatusActKeeps,
  FilterActKeeps, OtherKeysKeep, TopKeeps DEF RowsNext

\* A key that acts on a row acts on the one that the last frame highlights, in every
\* list that is drawn, for any connections: but for a config that was reloaded after
\* the frame, a terminal too small to draw, and the history of the Compare tab.
THEOREM RowsActedOn == RowsSpec => []ActsOnHighlighted
<1>1. RowsInv => ActsOnHighlighted
  BY DEF RowsInv
<1> QED BY <1>1, RowsInitInvariant, RowsNextKeeps, PTL DEF RowsSpec

-----------------------------------------------------------------------------
(* Chrome                                                                   *)

\* The queue holds the last toasts that were pushed, in order.
Consecutive(s, last) ==
  /\ Len(s) <= MaxToasts /\ Len(s) <= last
  /\ \A i \in DOMAIN s : s[i] = last - Len(s) + i

\* A toast expires no later than one that was pushed after it, and what is no longer
\* in the queue has expired or was pushed out by newer ones.
ToastsInv ==
  /\ left \in Seq(0 .. ToastTicks)
  /\ \A i, j \in DOMAIN left : i < j => left[i] <= left[j]
  /\ toasts \in Seq(Nat) /\ Consecutive(toasts, Len(left))
  /\ \A id \in 1 .. Len(left) - Len(toasts) : left[id] = 0 \/ id <= Len(left) - MaxToasts
  /\ turn = "cleared" => \A i \in DOMAIN toasts : left[toasts[i]] # 0

\* The frame is of the toasts and the line that there were.
ScreenInv ==
  /\ screen.pushed \in 0 .. Len(left)
  /\ \A id \in 1 .. screen.pushed :
       left[id] # 0 /\ id > screen.pushed - MaxToasts => id \in Range(screen.toasts)
  /\ turn # "draw" => screen.line \in {StatusLine, NothingDrawn.line}
  /\ PathAsShown

ChromeInv == ToastsInv /\ ScreenInv

LEMMA ChromeInitInvariant == ChromeInit => ChromeInv
<1> SUFFICES ASSUME ChromeInit PROVE ChromeInv
  OBVIOUS
<1>1. /\ left \in Seq(0 .. ToastTicks) /\ Len(left) = 0 /\ DOMAIN left = {}
      /\ toasts \in Seq(Nat) /\ Len(toasts) = 0 /\ DOMAIN toasts = {}
  BY DEF ChromeInit
<1>2. ToastsInv
  BY <1>1, ChromeAssumption DEF ToastsInv, Consecutive, ChromeInit
<1>3. screen.pushed = 0 /\ screen.line = NothingDrawn.line
  BY DEF ChromeInit, NothingDrawn
<1>4. PathAsShown
  BY DEF ChromeInit, NoPath, PathAsShown
<1>5. ScreenInv
  BY <1>1, <1>3, <1>4 DEF ScreenInv
<1> QED BY <1>2, <1>5 DEF ChromeInv

LEMMA QueueIs ==
  ASSUME ToastsInv, NEW n, n = Len(left), NEW k, k = Len(toasts)
  PROVE  /\ k <= MaxToasts /\ k <= n /\ DOMAIN toasts = 1 .. k
         /\ \A i \in 1 .. k : toasts[i] = n - k + i
<1>1. k \in Nat /\ DOMAIN toasts = 1 .. k
  BY DEF ToastsInv
<1> QED BY <1>1 DEF ToastsInv, Consecutive

LEMMA ToastsAre ==
  ASSUME ToastsInv, NEW n, n = Len(left), NEW k, k = Len(toasts)
  PROVE  /\ n \in Nat /\ k \in Nat /\ k <= n /\ k <= MaxToasts
         /\ MaxToasts \in Nat \ {0} /\ ToastTicks \in Nat \ {0}
         /\ DOMAIN left = 1 .. n /\ \A i \in 1 .. n : left[i] \in 0 .. ToastTicks
         /\ \A i, j \in 1 .. n : i < j => left[i] <= left[j]
         /\ DOMAIN toasts = 1 .. k /\ \A i \in 1 .. k : toasts[i] = n - k + i
         /\ \A id \in 1 .. n - k : left[id] = 0 \/ id <= n - MaxToasts
<1>1. n \in Nat /\ DOMAIN left = 1 .. n
  BY DEF ToastsInv
<1>2. k \in Nat
  BY DEF ToastsInv
<1>3. k <= n /\ k <= MaxToasts /\ DOMAIN toasts = 1 .. k /\ \A i \in 1 .. k : toasts[i] = n - k + i
  BY QueueIs
<1>4. \A i \in 1 .. n : left[i] \in 0 .. ToastTicks
  BY ElementIs DEF ToastsInv
<1>5. \A i, j \in 1 .. n : i < j => left[i] <= left[j]
  BY <1>1 DEF ToastsInv
<1>6. \A id \in 1 .. n - k : left[id] = 0 \/ id <= n - MaxToasts
  BY DEF ToastsInv
<1> QED BY <1>1, <1>2, <1>3, <1>4, <1>5, <1>6, ChromeAssumption

\* A new toast is the last to expire; of too many the oldest goes.
LEMMA FeedbackKeeps == ChromeInv /\ Feedback => ChromeInv'
<1> SUFFICES ASSUME ChromeInv, Feedback PROVE ChromeInv'
  OBVIOUS
<1> USE DEF ChromeInv
<1>1. PICK n \in Nat : n = Len(left)
  BY DEF ToastsInv
<1>2. PICK k \in Nat : k = Len(toasts)
  BY DEF ToastsInv
<1>3. MaxToasts \in Nat \ {0} /\ ToastTicks \in Nat \ {0}
  BY ChromeAssumption
<1>4. /\ left' \in Seq(0 .. ToastTicks) /\ Len(left') = n + 1 /\ left'[n + 1] = ToastTicks
      /\ \A i \in 1 .. n : left'[i] = left[i]
  BY <1>1, <1>3 DEF Feedback, ToastsInv
<1>5. \A i, j \in DOMAIN left' : i < j => left'[i] <= left'[j]
  <2> SUFFICES ASSUME NEW i \in 1 .. n + 1, NEW j \in 1 .. n + 1, i < j
               PROVE  left'[i] <= left'[j]
    BY <1>4
  <2>1. i \in 1 .. n
    BY <1>1
  <2>2. left'[i] = left[i] /\ left[i] \in 0 .. ToastTicks
    BY <1>1, <1>2, <1>4, <2>1, ToastsAre
  <2>3. CASE j = n + 1
    BY <1>3, <1>4, <2>2, <2>3
  <2>4. CASE j \in 1 .. n
    <3>1. left[i] <= left[j]
      BY <1>1, <1>2, <2>1, <2>4, ToastsAre
    <3> QED BY <1>4, <2>2, <2>4, <3>1
  <2> QED BY <1>1, <2>3, <2>4
<1>6. k <= MaxToasts /\ k <= n /\ \A i \in 1 .. k : toasts[i] = n - k + i
  BY <1>1, <1>2, QueueIs
<1>7. PICK pushed : pushed = Append(toasts, n + 1)
  OBVIOUS
<1>8. /\ pushed \in Seq(Nat) /\ Len(pushed) = k + 1 /\ pushed[k + 1] = n + 1
      /\ \A i \in 1 .. k : pushed[i] = toasts[i]
  BY <1>2, <1>7 DEF ToastsInv
<1>9. toasts' = IF k + 1 > MaxToasts THEN Tail(pushed) ELSE pushed
  <2>1. toasts' = PushToast(n + 1)
    BY <1>4 DEF Feedback
  <2> QED BY <1>7, <1>8, <2>1 DEF PushToast
<1>10. \A i \in 1 .. k + 1 : pushed[i] = (n + 1) - (k + 1) + i
  BY <1>6, <1>8
<1>11. PICK m \in Nat : m = Len(toasts')
  <2>1. pushed # <<>>
    BY <1>8
  <2> QED BY <1>8, <1>9, <2>1
<1>12. /\ toasts' \in Seq(Nat) /\ m <= MaxToasts /\ m <= n + 1
       /\ \A i \in 1 .. m : toasts'[i] = (n + 1) - m + i
       /\ m = k + 1 \/ (m = k /\ m = MaxToasts)
  <2>1. CASE k + 1 > MaxToasts
    <3>1. toasts' = Tail(pushed) /\ k = MaxToasts
      BY <1>3, <1>6, <1>9, <2>1
    <3>2. pushed # <<>>
      BY <1>8
    <3>3. /\ Tail(pushed) \in Seq(Nat) /\ Len(Tail(pushed)) = k
          /\ \A i \in 1 .. k : Tail(pushed)[i] = pushed[i + 1]
      BY <1>8, <3>2
    <3>4. m = k
      BY <1>11, <3>1, <3>3
    <3>5. \A i \in 1 .. k : Tail(pushed)[i] = (n + 1) - k + i
      BY <1>10, <3>3
    <3> QED BY <1>6, <3>1, <3>3, <3>4, <3>5
  <2>2. CASE ~ (k + 1 > MaxToasts)
    BY <1>3, <1>6, <1>8, <1>9, <1>10, <1>11, <2>2
  <2> QED BY <2>1, <2>2
<1>13. \A id \in 1 .. (n + 1) - m : left'[id] = 0 \/ id <= (n + 1) - MaxToasts
  <2> SUFFICES ASSUME NEW id \in 1 .. (n + 1) - m, ~ (id <= (n + 1) - MaxToasts)
               PROVE  left'[id] = 0
    OBVIOUS
  <2>1. id \in 1 .. n - k /\ id \in 1 .. n /\ ~ (id <= n - MaxToasts)
    BY <1>3, <1>6, <1>12
  <2>2. left[id] = 0
    BY <1>1, <1>2, <2>1 DEF ToastsInv
  <2> QED BY <1>4, <2>1, <2>2
<1>14. turn' = "messages"
  BY DEF Feedback
<1>15. ToastsInv'
  BY <1>4, <1>5, <1>11, <1>12, <1>13, <1>14 DEF ToastsInv, Consecutive
<1>16. screen.pushed \in 0 .. n
  BY <1>1 DEF ScreenInv
<1>17. \A id \in 1 .. screen.pushed : left'[id] = left[id]
  BY <1>4, <1>16
<1>18. StatusLine' = StatusLine /\ PathAsShown'
  BY DEF Feedback, StatusLine, PathAsShown, ScreenInv
<1>19. ScreenInv'
  BY <1>4, <1>16, <1>17, <1>18 DEF ScreenInv, Feedback
<1> QED BY <1>15, <1>19

\* Behind the first that lasts all last.
LEMMA ClearExpiredKeeps == ChromeInv /\ ClearExpired => ChromeInv'
<1> SUFFICES ASSUME ChromeInv, ClearExpired PROVE ChromeInv'
  OBVIOUS
<1> USE DEF ChromeInv
<1>1. PICK n \in Nat : n = Len(left)
  BY DEF ToastsInv
<1>2. PICK k \in Nat : k = Len(toasts)
  BY DEF ToastsInv
<1>3. MaxToasts \in Nat \ {0}
  BY ChromeAssumption
<1>4. k <= MaxToasts /\ k <= n /\ \A i \in 1 .. k : toasts[i] = n - k + i
  BY <1>1, <1>2, QueueIs
<1>5. PICK Lasting : Lasting = {i \in DOMAIN toasts : ~IsExpired(toasts[i])}
  OBVIOUS
<1>6. \A i \in 1 .. k : i \in Lasting <=> left[n - k + i] # 0
  BY <1>2, <1>4, <1>5 DEF IsExpired, ToastsInv
<1>7. Lasting \subseteq 1 .. k
  BY <1>2, <1>5 DEF ToastsInv
<1>8. UNCHANGED <<input, left, screen, given>> /\ turn' = "cleared"
  BY DEF ClearExpired
<1>9. \E f \in 1 .. k + 1 :
        /\ toasts' \in Seq(Nat) /\ Len(toasts') = k + 1 - f
        /\ \A i \in 1 .. k + 1 - f : toasts'[i] = n - (k + 1 - f) + i
        /\ \A i \in 1 .. f - 1 : i \notin Lasting
        /\ \A i \in f .. k : i \in Lasting
  <2>1. CASE Lasting = {}
    <3>1. toasts' = <<>>
      BY <1>5, <2>1 DEF ClearExpired
    <3>2. k + 1 \in 1 .. k + 1 /\ toasts' \in Seq(Nat) /\ Len(toasts') = 0
      BY <3>1
    <3> QED BY <2>1, <3>2
  <2>2. CASE Lasting # {}
    <3>1. PICK first : first = CHOOSE i \in Lasting : \A j \in Lasting : i <= j
      OBVIOUS
    <3>2. first \in Lasting /\ \A j \in Lasting : first <= j
      <4>1. \E i \in Lasting : \A j \in Lasting : i <= j
        <5>1. Lasting \subseteq Nat
          BY <1>7
        <5> QED BY <2>2, <5>1, LeastOf
      <4> QED BY <3>1, <4>1
    <3>3. first \in 1 .. k
      BY <1>7, <3>2
    <3>4. toasts' = SubSeq(toasts, first, k)
      BY <1>2, <1>5, <2>2, <3>1 DEF ClearExpired
    <3>5. /\ SubSeq(toasts, first, k) \in Seq(Nat)
          /\ Len(SubSeq(toasts, first, k)) = k + 1 - first
          /\ \A i \in 1 .. k + 1 - first : SubSeq(toasts, first, k)[i] = toasts[first + i - 1]
      BY <1>2, <3>3 DEF ToastsInv
    <3>6. \A i \in 1 .. k + 1 - first : toasts[first + i - 1] = n - (k + 1 - first) + i
      <4> SUFFICES ASSUME NEW i \in 1 .. k + 1 - first
                   PROVE  toasts[first + i - 1] = n - (k + 1 - first) + i
        OBVIOUS
      <4>1. PICK j \in 1 .. k : j = first + i - 1
        BY <3>3
      <4>2. toasts[j] = n - k + j
        BY <1>4
      <4> QED BY <3>3, <4>1, <4>2
    <3>7. \A i \in 1 .. first - 1 : i \notin Lasting
      BY <3>2, <3>3
    <3>8. ASSUME NEW i \in first .. k PROVE i \in Lasting
      <4>1. left[n - k + first] # 0
        BY <1>6, <3>2, <3>3
      <4>2. n - k + first \in 1 .. n /\ n - k + i \in 1 .. n
        BY <1>4, <3>3
      <4>3. left[n - k + first] <= left[n - k + i]
        <5>1. PICK a \in 1 .. n, b \in 1 .. n : a = n - k + first /\ b = n - k + i
          BY <4>2
        <5>2. a < b \/ a = b
          <6>1. first \in Int /\ i \in Int /\ first <= i
            BY <3>3
          <6> QED BY <5>1, <6>1
        <5>3. left[a] \in 0 .. ToastTicks /\ (a < b => left[a] <= left[b])
          BY <1>1, <1>2, ToastsAre
        <5>4. a = b => left[a] = left[b]
          OBVIOUS
        <5> QED BY <5>1, <5>2, <5>3, <5>4
      <4>4. left[n - k + first] \in 0 .. ToastTicks /\ left[n - k + i] \in 0 .. ToastTicks
        BY <1>1, <1>2, <4>2, ToastsAre
      <4>5. left[n - k + i] # 0
        BY <4>1, <4>3, <4>4, ChromeAssumption
      <4>6. i \in 1 .. k
        BY <3>3
      <4> QED BY <1>6, <4>5, <4>6
    <3>9. first \in 1 .. k + 1
      BY <3>3
    <3> QED BY <3>4, <3>5, <3>6, <3>7, <3>8, <3>9
  <2> QED BY <2>1, <2>2
<1>10. PICK f \in 1 .. k + 1 :
         /\ toasts' \in Seq(Nat) /\ Len(toasts') = k + 1 - f
         /\ \A i \in 1 .. k + 1 - f : toasts'[i] = n - (k + 1 - f) + i
         /\ \A i \in 1 .. f - 1 : i \notin Lasting
         /\ \A i \in f .. k : i \in Lasting
  BY <1>9
<1>11. PICK m \in Nat : m = k + 1 - f /\ m <= k
  OBVIOUS
<1>12. \A id \in 1 .. n - m : left[id] = 0 \/ id <= n - MaxToasts
  <2> SUFFICES ASSUME NEW id \in 1 .. n - m, ~ (id <= n - MaxToasts) PROVE left[id] = 0
    OBVIOUS
  <2>1. CASE id <= n - k
    BY <1>1, <1>2, <2>1 DEF ToastsInv
  <2>2. CASE ~ (id <= n - k)
    <3>1. PICK i \in 1 .. f - 1 : id = n - k + i
      <4>1. id - (n - k) \in 1 .. f - 1 /\ id = n - k + (id - (n - k))
        BY <1>4, <1>11, <2>2
      <4> QED BY <4>1
    <3>2. i \notin Lasting /\ i \in 1 .. k
      BY <1>10
    <3> QED BY <1>6, <3>1, <3>2
  <2> QED BY <2>1, <2>2
<1>13. \A i \in 1 .. m : left[toasts'[i]] # 0
  <2> SUFFICES ASSUME NEW i \in 1 .. m PROVE left[toasts'[i]] # 0
    OBVIOUS
  <2>1. PICK j \in f .. k : j = f - 1 + i
    BY <1>11
  <2>2. j \in 1 .. k /\ j \in Lasting
    BY <1>10
  <2>3. toasts'[i] = n - k + j
    BY <1>10, <1>11, <2>1
  <2> QED BY <1>6, <2>2, <2>3
<1>14. /\ toasts' \in Seq(Nat) /\ Len(toasts') = m /\ DOMAIN toasts' = 1 .. m
       /\ m <= MaxToasts /\ m <= n /\ \A i \in 1 .. m : toasts'[i] = n - m + i
  BY <1>3, <1>4, <1>10, <1>11
<1>15. ToastsInv'
  BY <1>1, <1>8, <1>12, <1>13, <1>14 DEF ToastsInv, Consecutive
<1>16. turn = "messages" /\ StatusLine' = StatusLine /\ PathAsShown'
  BY <1>8 DEF ClearExpired, StatusLine, PathAsShown, ScreenInv
<1>17. ScreenInv'
  BY <1>8, <1>16 DEF ScreenInv
<1> QED BY <1>15, <1>17

\* Time only shortens.
LEMMA WaitKeeps == ChromeInv /\ Wait => ChromeInv'
<1> SUFFICES ASSUME ChromeInv, Wait PROVE ChromeInv'
  OBVIOUS
<1> USE DEF ChromeInv
<1>1. PICK t \in 0 .. ToastTicks :
        left' = [i \in DOMAIN left |-> IF left[i] > t THEN left[i] - t ELSE 0]
  BY DEF Wait
<1>2. ToastTicks \in Nat /\ t \in Nat
  BY ChromeAssumption
<1>3. PICK n \in Nat : n = Len(left)
  BY DEF ToastsInv
<1>4. PICK k \in Nat : k = Len(toasts)
  BY DEF ToastsInv
<1>5. \A i \in 1 .. n : left[i] \in 0 .. ToastTicks
  BY <1>3, <1>4, ToastsAre
<1>6. DOMAIN left = 1 .. n
  BY <1>3 DEF ToastsInv
<1>7. \A i \in 1 .. n : left'[i] = IF left[i] > t THEN left[i] - t ELSE 0
  BY <1>1, <1>6
<1>8. \A i \in 1 .. n : left'[i] \in 0 .. ToastTicks /\ (left[i] = 0 => left'[i] = 0)
  BY <1>2, <1>5, <1>7
<1>9. left' \in Seq(0 .. ToastTicks) /\ Len(left') = n /\ DOMAIN left' = 1 .. n
  <2>1. PICK l : l = [i \in DOMAIN left |-> IF left[i] > t THEN left[i] - t ELSE 0]
    OBVIOUS
  <2>2. l = left' /\ DOMAIN l = 1 .. n
    BY <1>1, <1>6, <2>1
  <2>3. l \in [1 .. n -> 0 .. ToastTicks]
    <3>1. \A i \in 1 .. n : l[i] \in 0 .. ToastTicks
      BY <1>8, <2>2
    <3> QED BY <1>6, <2>1, <3>1
  <2>4. l \in Seq(0 .. ToastTicks) /\ Len(l) = n
    BY <2>3, FunctionIsSequence
  <2> QED BY <2>2, <2>4
<1>10. \A i, j \in 1 .. n : i < j => left'[i] <= left'[j]
  <2> SUFFICES ASSUME NEW i \in 1 .. n, NEW j \in 1 .. n, i < j PROVE left'[i] <= left'[j]
    OBVIOUS
  <2>1. left[i] <= left[j]
    BY <1>6 DEF ToastsInv
  <2> QED BY <1>2, <1>5, <1>7, <2>1
<1>11. /\ UNCHANGED <<input, toasts, screen, given>> /\ turn' = "event" /\ turn = "cleared"
  BY DEF Wait
<1>12. k <= n
  BY <1>3, <1>4 DEF ToastsInv, Consecutive
<1>13. \A id \in 1 .. n - k : left'[id] = 0 \/ id <= n - MaxToasts
  BY <1>3, <1>4, <1>8, <1>12 DEF ToastsInv
<1>14. ToastsInv'
  BY <1>3, <1>4, <1>9, <1>10, <1>11, <1>13 DEF ToastsInv, Consecutive
<1>15. screen.pushed \in 0 .. n
  BY <1>3 DEF ScreenInv
<1>16. \A id \in 1 .. screen.pushed : left'[id] # 0 => left[id] # 0
  BY <1>8, <1>15
<1>17. StatusLine' = StatusLine /\ PathAsShown'
  BY <1>11 DEF StatusLine, PathAsShown, ScreenInv
<1>18. ScreenInv'
  BY <1>9, <1>11, <1>15, <1>16, <1>17 DEF ScreenInv
<1> QED BY <1>14, <1>18

\* A key changes the input; the frame is next.
LEMMA TypedKeeps == ASSUME ChromeInv, NEW i, Typed(i), PathAsShown' PROVE ChromeInv'
<1>1. UNCHANGED <<toasts, left, screen>> /\ turn' = "draw"
  BY DEF Typed
<1>2. ToastsInv'
  BY <1>1 DEF ChromeInv, ToastsInv, Consecutive
<1>3. ScreenInv'
  BY <1>1 DEF ChromeInv, ScreenInv
<1> QED BY <1>2, <1>3 DEF ChromeInv

LEMMA NoPathIsShown == NoPathGiven => PathAsShown'
BY DEF NoPathGiven, NoPath, PathAsShown

LEMMA KeysKeep ==
  ASSUME ChromeInv, EnterText \/ SearchText \/ PathText \/ LeaveText \/ OtherInput
  PROVE  ChromeInv'
<1>1. NoPathGiven /\ \E i : Typed(i)
  BY DEF EnterText, SearchText, PathText, LeaveText, OtherInput
<1> QED BY <1>1, TypedKeeps, NoPathIsShown

\* The line has shown the path while it was typed, or nothing.
LEMMA SubmitPathKeeps == ASSUME ChromeInv, SubmitPath PROVE ChromeInv'
<1>1. Typed(Entered("Normal")) /\ turn = "event"
  BY DEF SubmitPath, Typed
<1>2. screen.line \in {StatusLine, NothingDrawn.line}
  BY <1>1 DEF ChromeInv, ScreenInv
<1>3. StatusLine = [mode |-> input.mode, text |-> input.buffer]
  BY DEF SubmitPath, StatusLine
<1>4. given' = [path |-> StatusLine, seen |-> screen.line]
  BY <1>3 DEF SubmitPath
<1>5. PathAsShown'
  BY <1>2, <1>4 DEF PathAsShown
<1> QED BY <1>1, <1>5, TypedKeeps

LEMMA ReverseRange == ASSUME NEW S, NEW s \in Seq(S) PROVE Range(Reverse(s)) = Range(s)
<1>1. PICK n \in Nat : n = Len(s)
  OBVIOUS
<1>2. PICK r : r = [i \in 1 .. n |-> s[n - i + 1]]
  OBVIOUS
<1>3. Reverse(s) = r
  BY <1>1, <1>2 DEF Reverse
<1>4. DOMAIN r = 1 .. n /\ DOMAIN s = 1 .. n
  BY <1>1, <1>2
<1>5. \A i \in 1 .. n : r[i] = s[n - i + 1] /\ n - i + 1 \in 1 .. n
  BY <1>2
<1>6. \A i \in 1 .. n : r[n - i + 1] = s[i] /\ n - i + 1 \in 1 .. n
  <2> SUFFICES ASSUME NEW i \in 1 .. n PROVE r[n - i + 1] = s[i] /\ n - i + 1 \in 1 .. n
    OBVIOUS
  <2>1. PICK j \in 1 .. n : j = n - i + 1
    OBVIOUS
  <2>2. n - j + 1 = i
    BY <2>1
  <2> QED BY <1>5, <2>1, <2>2
<1>7. {r[i] : i \in 1 .. n} = {s[i] : i \in 1 .. n}
  BY <1>5, <1>6
<1> QED BY <1>3, <1>4, <1>7 DEF Range

LEMMA DrawChromeKeeps == ChromeInv /\ DrawChrome => ChromeInv'
<1> SUFFICES ASSUME ChromeInv, DrawChrome PROVE ChromeInv'
  OBVIOUS
<1> USE DEF ChromeInv
<1>1. UNCHANGED <<input, toasts, left, given>> /\ turn' = "messages"
  BY DEF DrawChrome
<1>2. ToastsInv'
  BY <1>1 DEF ToastsInv, Consecutive
<1>3. StatusLine' = StatusLine /\ PathAsShown'
  BY <1>1 DEF StatusLine, PathAsShown, ScreenInv
<1>4. Len(left) \in Nat
  BY DEF ToastsInv
<1>5. CASE screen' = NothingDrawn
  <2>1. screen'.pushed = 0 /\ screen'.line = NothingDrawn.line
    BY <1>5 DEF NothingDrawn
  <2> QED BY <1>1, <1>2, <1>3, <1>4, <2>1 DEF ScreenInv
<1>6. CASE screen' = [line |-> StatusLine, toasts |-> Reverse(toasts), pushed |-> Len(left)]
  <2>1. screen'.pushed = Len(left) /\ screen'.line = StatusLine /\ screen'.toasts = Reverse(toasts)
    BY <1>6
  <2>2. Range(screen'.toasts) = Range(toasts)
    BY <2>1, ReverseRange DEF ToastsInv
  <2>3. ASSUME NEW id \in 1 .. Len(left), left[id] # 0, id > Len(left) - MaxToasts
        PROVE  id \in Range(toasts)
    <3>1. PICK n \in Nat : n = Len(left)
      BY <1>4
    <3>2. PICK k \in Nat : k = Len(toasts)
      BY DEF ToastsInv
    <3>3. k <= n /\ \A i \in 1 .. k : toasts[i] = n - k + i
      BY <3>1, <3>2, QueueIs
    <3>4. MaxToasts \in Nat
      BY ChromeAssumption
    <3>5. id \notin 1 .. n - k
      BY <2>3, <3>1, <3>2, <3>4 DEF ToastsInv
    <3>6. PICK i \in 1 .. k : i = id - (n - k)
      <4>1. id \in 1 .. n /\ id > n - k
        BY <2>3, <3>1, <3>3, <3>5
      <4> QED BY <3>3, <4>1
    <3>7. toasts[i] = id /\ i \in DOMAIN toasts
      <4>1. DOMAIN toasts = 1 .. k
        BY <3>1, <3>2, ToastsAre
      <4> QED BY <3>1, <3>3, <3>6, <4>1
    <3> QED BY <3>7 DEF Range
  <2> QED BY <1>1, <1>2, <1>3, <1>4, <2>1, <2>2, <2>3 DEF ScreenInv
<1> QED BY <1>5, <1>6 DEF DrawChrome

LEMMA ChromeNextKeeps == ChromeInv /\ [ChromeNext]_chromeVars => ChromeInv'
<1> SUFFICES ASSUME ChromeInv, [ChromeNext]_chromeVars PROVE ChromeInv'
  OBVIOUS
<1>1. CASE UNCHANGED chromeVars
  BY <1>1 DEF chromeVars, ChromeInv, ToastsInv, ScreenInv, Consecutive, StatusLine, PathAsShown
<1> QED BY <1>1, FeedbackKeeps, ClearExpiredKeeps, WaitKeeps, KeysKeep, SubmitPathKeeps,
  DrawChromeKeeps DEF ChromeNext

LEMMA ChromeFaithful == ChromeInv => PathAsShown /\ ToastsNewest
<1> SUFFICES ASSUME ChromeInv PROVE PathAsShown /\ ToastsNewest
  OBVIOUS
<1> USE DEF ChromeInv
<1>1. PathAsShown
  BY DEF ScreenInv
<1>2. PICK n \in Nat : n = Len(left)
  BY DEF ToastsInv
<1>3. PICK k \in Nat : k = Len(toasts)
  BY DEF ToastsInv
<1>4. MaxToasts \in Nat
  BY ChromeAssumption
<1>5. /\ k <= MaxToasts /\ k <= n /\ DOMAIN toasts = 1 .. k
      /\ \A i \in 1 .. k : toasts[i] = n - k + i
  BY <1>2, <1>3, QueueIs
<1>6. ASSUME turn = "cleared" PROVE Range(toasts) = {id \in Newest : ~IsExpired(id)}
  <2>1. ASSUME NEW i \in 1 .. k PROVE toasts[i] \in {id \in Newest : ~IsExpired(id)}
    <3>1. left[toasts[i]] # 0
      BY <1>5, <1>6 DEF ToastsInv
    <3>2. toasts[i] \in 1 .. n /\ toasts[i] > n - MaxToasts
      BY <1>4, <1>5
    <3> QED BY <1>2, <3>1, <3>2 DEF Newest, IsExpired
  <2>2. ASSUME NEW id \in Newest, ~IsExpired(id) PROVE \E i \in 1 .. k : id = toasts[i]
    <3>1. id \in 1 .. n /\ id > n - MaxToasts /\ left[id] # 0
      BY <1>2, <2>2 DEF Newest, IsExpired
    <3>2. id \notin 1 .. n - k
      BY <1>2, <1>3, <1>4, <3>1 DEF ToastsInv
    <3>3. PICK i \in 1 .. k : i = id - (n - k)
      BY <1>5, <3>1, <3>2
    <3>4. toasts[i] = id
      BY <1>5, <3>1, <3>3
    <3> QED BY <3>4
  <2>3. Range(toasts) = {toasts[i] : i \in 1 .. k}
    BY <1>5 DEF Range
  <2> QED BY <2>1, <2>2, <2>3
<1>7. \A i, j \in DOMAIN toasts : i < j => toasts[i] < toasts[j]
  BY <1>5
<1>8. \A id \in 1 .. screen.pushed :
        ~IsExpired(id) /\ id > screen.pushed - MaxToasts => id \in Range(screen.toasts)
  BY DEF ScreenInv, IsExpired
<1> QED BY <1>1, <1>6, <1>7, <1>8 DEF ToastsNewest

LEMMA ChromeInvariance == ChromeSpec => []ChromeInv
BY ChromeInitInvariant, ChromeNextKeeps, PTL DEF ChromeSpec

-----------------------------------------------------------------------------
(* ConfigTab                                                                *)

\* The session is of the config and of the field that the form has its focus on, as
\* long as nothing else has been loaded and no peer added.
FormInv ==
  /\ viewed \in {<<>>} \cup {<<c>> : c \in Configs}
  /\ focus.section \in Nat /\ focus.field \in 1 .. InterfaceFields
  /\ focus = Place(focus.section, focus.field)
  /\ session = [name |-> session.name, at |-> session.at, buffer |-> session.buffer,
                peers |-> session.peers, new |-> session.new]
  /\ session.new \in Nat
  /\ mode = "EditField" /\ ~since /\ session.new = 0 =>
       /\ viewed # <<>> /\ CanEdit /\ session.at = focus /\ session.name = viewed[1].name
       /\ session.buffer = Opened(Display(viewed[1], focus))

LEMMA FormInitInvariant == FormInit => FormInv
BY FormAssumption DEF FormInit, FormInv, Place, NoSession

LEMMA FocusKeyKeeps == FormInv /\ FocusKey => FormInv'
<1> SUFFICES ASSUME FormInv, FocusKey PROVE FormInv'
  OBVIOUS
<1>1. PICK by \in {1, -1} :
        focus' = [focus EXCEPT !.field = ((@ - 1 + by) % InterfaceFields) + 1]
  BY DEF FocusKey
<1>2. PICK m : m = (focus.field - 1 + by) % InterfaceFields
  OBVIOUS
<1>3. m \in 0 .. InterfaceFields - 1
  <2>1. InterfaceFields \in Nat \ {0} /\ focus.field \in Int
    BY FormAssumption DEF FormInv
  <2> QED BY <1>2, <2>1
<1>4. focus'.section = focus.section /\ focus'.field = m + 1
      /\ focus' = Place(focus'.section, focus'.field)
  BY <1>1, <1>2 DEF FormInv, Place
<1>5. focus'.section \in Nat /\ focus'.field \in 1 .. InterfaceFields
  BY <1>3, <1>4, FormAssumption DEF FormInv
<1>6. mode' = "Normal" /\ UNCHANGED <<viewed, mode, onTab, session, since>>
  BY DEF FocusKey, FormKey
<1> QED BY <1>4, <1>5, <1>6 DEF FormInv

LEMMA EditKeyKeeps == FormInv /\ EditKey => FormInv'
<1> SUFFICES ASSUME FormInv, EditKey PROVE FormInv'
  OBVIOUS
<1>1. PICK s : s = session'
  OBVIOUS
<1>2. s = [name |-> viewed[1].name, at |-> focus, buffer |-> Opened(Display(viewed[1], focus)),
           peers |-> Len(viewed[1].peers), new |-> 0]
  BY <1>1 DEF EditKey
<1>3. /\ s.name = viewed[1].name /\ s.at = focus
      /\ s.buffer = Opened(Display(viewed[1], focus)) /\ s.new = 0
      /\ s = [name |-> s.name, at |-> s.at, buffer |-> s.buffer, peers |-> s.peers,
              new |-> s.new]
  BY <1>2
<1>4. viewed # <<>> /\ CanEdit /\ UNCHANGED <<viewed, focus>> /\ CanEdit'
  BY DEF EditKey, FormKey, CanEdit
<1>5. UNCHANGED Display(viewed[1], focus)
  BY <1>4 DEF Display
<1> QED BY <1>1, <1>3, <1>4, <1>5 DEF FormInv

LEMMA AddKeyKeeps == FormInv /\ AddKey => FormInv'
<1> SUFFICES ASSUME FormInv, AddKey PROVE FormInv'
  OBVIOUS
<1>1. UNCHANGED <<viewed, focus, onTab, since>> /\ mode = "Normal"
  BY DEF AddKey, FormKey
<1>2. CASE UNCHANGED <<mode, session>>
  BY <1>1, <1>2 DEF FormInv
<1>3. CASE session' = [session EXCEPT !.at = Place(session.peers + 1, 1), !.buffer = Opened(""),
                                      !.peers = @ + 1, !.new = @ + 1]
  <2>1. PICK s : s = session'
    OBVIOUS
  <2>2. /\ s.new = session.new + 1
        /\ s = [name |-> s.name, at |-> s.at, buffer |-> s.buffer, peers |-> s.peers,
                new |-> s.new]
    BY <1>3, <2>1 DEF FormInv
  <2>3. s.new \in Nat /\ s.new # 0
    BY <2>2 DEF FormInv
  <2> QED BY <1>1, <2>1, <2>2, <2>3 DEF FormInv
<1> QED BY <1>2, <1>3 DEF AddKey

LEMMA PreviewKeyKeeps == FormInv /\ PreviewKey => FormInv'
<1> SUFFICES ASSUME FormInv, PreviewKey PROVE FormInv'
  OBVIOUS
<1>1. UNCHANGED <<viewed, focus, mode>> /\ mode = "Normal" /\ session' = NoSession
  BY DEF PreviewKey, FormKey
<1> QED BY <1>1 DEF FormInv, NoSession

LEMMA TabActionKeeps == FormInv /\ TabAction => FormInv'
<1> SUFFICES ASSUME FormInv, TabAction PROVE FormInv'
  OBVIOUS
<1>1. UNCHANGED <<viewed, focus>> /\ mode' = "Normal"
  BY DEF TabAction
<1>2. CASE UNCHANGED session
  BY <1>1, <1>2 DEF FormInv
<1>3. CASE session' = [session EXCEPT !.buffer = Closed]
  <2>1. PICK s : s = session'
    OBVIOUS
  <2>2. /\ s.new = session.new
        /\ s = [name |-> s.name, at |-> s.at, buffer |-> s.buffer, peers |-> s.peers,
                new |-> s.new]
    BY <1>3, <2>1 DEF FormInv
  <2> QED BY <1>1, <2>1, <2>2 DEF FormInv
<1> QED BY <1>2, <1>3 DEF TabAction

LEMMA FormNextKeeps == FormInv /\ [FormNext]_formVars => FormInv'
<1> SUFFICES ASSUME FormInv, [FormNext]_formVars PROVE FormInv'
  OBVIOUS
<1>1. CASE UNCHANGED formVars
  BY <1>1 DEF formVars, FormInv, CanEdit, Display
<1>2. CASE EnterTextMode \/ LeaveTextMode
  BY <1>2 DEF EnterTextMode, LeaveTextMode, FormInv
<1>3. CASE ShowOther
  BY <1>3 DEF ShowOther, FormInv
<1> QED BY <1>1, <1>2, <1>3, FocusKeyKeeps, EditKeyKeeps, AddKeyKeeps, PreviewKeyKeeps,
  TabActionKeeps DEF FormNext

LEMMA FormInvariance == FormSpec => []FormInv
BY FormInitInvariant, FormNextKeeps, PTL DEF FormSpec

\* The line that has the focus is marked, and it is one of the form's.
LEMMA EditedIsShown == FormInv => EditedShown
<1> SUFFICES ASSUME FormInv, mode = "EditField", ~since, session.new = 0
             PROVE  /\ viewed # <<>> /\ session.name = viewed[1].name
                    /\ {l \in FormLines : l.editing} =
                         {[at |-> session.at, focused |-> TRUE, editing |-> TRUE,
                           text |-> Display(viewed[1], session.at)]}
                    /\ session.buffer = Opened(Display(viewed[1], session.at))
  BY DEF EditedShown
<1>1. /\ viewed # <<>> /\ CanEdit /\ session.at = focus /\ session.name = viewed[1].name
      /\ session.buffer = Opened(Display(viewed[1], focus))
  BY DEF FormInv
<1>2. PICK config : config = viewed[1]
  OBVIOUS
<1>3. PICK text : text = Display(config, focus)
  OBVIOUS
<1>4. session.buffer # Closed /\ session.buffer[1] = text /\ session # NoSession
  <2>1. session.buffer = <<text>>
    BY <1>1, <1>2, <1>3 DEF Opened
  <2>2. <<text>> # <<>> /\ <<text>>[1] = text
    OBVIOUS
  <2>3. NoSession.buffer = <<>>
    BY DEF NoSession
  <2> QED BY <2>1, <2>2, <2>3 DEF Closed
<1>5. PICK marked : marked = [at |-> focus, focused |-> TRUE, editing |-> TRUE, text |-> text]
  OBVIOUS
<1>6. LineOf(config, focus) = marked
  BY <1>1, <1>4, <1>5 DEF LineOf
<1>7. ASSUME NEW i, NEW f, LineOf(config, Place(i, f)).editing
      PROVE  LineOf(config, Place(i, f)) = marked
  <2>1. PICK at : at = Place(i, f)
    OBVIOUS
  <2>2. LineOf(config, at).editing => focus = at
    BY Zenon DEF LineOf
  <2> QED BY <1>6, <1>7, <2>1, <2>2
<1>8. LineOf(config, focus) \in FormLines
  <2>1. focus = Place(0, focus.field) /\ focus.field \in 1 .. InterfaceFields
    BY <1>1 DEF FormInv, CanEdit
  <2>2. LineOf(config, focus) \in Section(config, 0)
    BY <2>1 DEF Section
  <2>3. 0 \in 0 .. Len(config.peers)
    <3>1. Len(config.peers) \in Nat
      BY <1>1, <1>2, FormAssumption DEF FormInv
    <3> QED BY <3>1
  <2> QED BY <1>1, <1>2, <2>2, <2>3 DEF FormLines
<1>9. ASSUME NEW l \in FormLines PROVE \E i, f : l = LineOf(config, Place(i, f))
  BY <1>1, <1>2, <1>9 DEF FormLines, Section
<1>10. marked.editing
  BY <1>5
<1>11. {l \in FormLines : l.editing} = {marked}
  BY <1>6, <1>7, <1>8, <1>9, <1>10
<1> QED BY <1>1, <1>2, <1>3, <1>5, <1>11

-----------------------------------------------------------------------------
(* ConfigDiff                                                               *)

\* The texts are sequences of lines, and the overlay shows a window of their diff.
DiffInv ==
  /\ preview.old \in Seq(TomlLines) /\ preview.new \in Seq(TomlLines)
  /\ preview.scroll \in Nat /\ preview.height \in Nat
  /\ preview.window = Window(Pending, preview.scroll, preview.height)

\* d is the function by which ConfigDiffOf is defined, for the first k lines.
IsDiff(old, new, d, k) ==
  d = [i \in 0 .. k |-> IF i = 0 THEN <<>> ELSE PushLine(d[i - 1], old, new, i)]

DiffAt(old, new, d, i) == IF i = 0 THEN <<>> ELSE PushLine(d[i - 1], old, new, i)

LEMMA DiffStep ==
  ASSUME NEW old, NEW new, NEW d, NEW k \in Nat, IsDiff(old, new, d, k), NEW n \in 0 .. k
  PROVE  d[n] = DiffAt(old, new, d, n)
<1>1. d = [m \in 0 .. k |-> DiffAt(old, new, d, m)]
  BY Zenon DEF IsDiff, DiffAt
<1>2. PICK f : f = [m \in 0 .. k |-> DiffAt(old, new, d, m)]
  OBVIOUS
<1>3. f[n] = DiffAt(old, new, d, n)
  BY <1>2
<1> QED BY <1>1, <1>2, <1>3

LEMMA DiffExists ==
  ASSUME NEW old, NEW new
  PROVE  \A k \in Nat : \E d : IsDiff(old, new, d, k)
<1> DEFINE K == {k \in Nat : \E d : IsDiff(old, new, d, k)}
<1>1. 0 \in K
  <2>1. IsDiff(old, new, [i \in 0 .. 0 |-> <<>>], 0)
    BY DEF IsDiff
  <2> QED BY <2>1
<1>2. ASSUME NEW k \in Nat, k \in K PROVE k + 1 \in K
  <2>1. PICK d : IsDiff(old, new, d, k)
    BY <1>2
  <2>2. PICK last : last = PushLine(d[k], old, new, k + 1)
    OBVIOUS
  <2>3. PICK e : e = [i \in 0 .. k + 1 |-> IF i = k + 1 THEN last ELSE d[i]]
    OBVIOUS
  <2>4. \A i \in 0 .. k : e[i] = d[i]
    BY <2>3
  <2>5. ASSUME NEW i \in 0 .. k + 1 PROVE e[i] = DiffAt(old, new, e, i)
    <3>1. CASE i = k + 1
      <4>1. e[i] = last /\ i # 0 /\ i - 1 = k /\ e[k] = d[k]
        BY <3>1, <2>3, <2>4
      <4> QED BY <4>1, <3>1, <2>2 DEF DiffAt
    <3>2. CASE i \in 0 .. k
      <4>1. d[i] = DiffAt(old, new, d, i)
        BY <2>1, <3>2, DiffStep
      <4>2. e[i] = d[i] /\ (i # 0 => e[i - 1] = d[i - 1])
        BY <2>4, <3>2
      <4> QED BY <4>1, <4>2 DEF DiffAt
    <3> QED BY <3>1, <3>2
  <2>6. IsDiff(old, new, e, k + 1)
    BY <2>3, <2>5, Zenon DEF IsDiff, DiffAt
  <2> QED BY <2>6
<1> HIDE DEF K
<1>3. Nat \subseteq K
  BY <1>1, <1>2, InductionOnSets
<1> QED BY <1>3 DEF K

LEMMA DiffIs ==
  ASSUME NEW old \in Seq(TomlLines), NEW new \in Seq(TomlLines)
  PROVE  \E d : IsDiff(old, new, d, Longest(old, new))
                /\ ConfigDiffOf(old, new) = d[Longest(old, new)]
<1> DEFINE c == CHOOSE d : IsDiff(old, new, d, Longest(old, new))
<1>1. IsDiff(old, new, c, Longest(old, new))
  <2>1. Longest(old, new) \in Nat
    BY DEF Longest
  <2>2. \E d : IsDiff(old, new, d, Longest(old, new))
    BY <2>1, DiffExists
  <2> QED BY <2>2
<1>2. ConfigDiffOf(old, new) = c[Longest(old, new)]
  BY DEF ConfigDiffOf, IsDiff
<1> QED BY <1>1, <1>2

-----------------------------------------------------------------------------

LEMMA ContentsType ==
  ASSUME NEW lines \in Seq(DiffLine), NEW kinds
  PROVE  Contents(lines, kinds) \in Seq(TomlLines)
<1>1. PICK kept : kept = Picked(lines, {i \in DOMAIN lines : lines[i].kind \in kinds})
  OBVIOUS
<1>2. kept \in Seq(DiffLine)
  BY <1>1, PickedType
<1>3. Contents(lines, kinds) = [i \in DOMAIN kept |-> kept[i].content]
  BY <1>1 DEF Contents
<1>4. \A i \in 1 .. Len(kept) : kept[i].content \in TomlLines
  <2>1. ASSUME NEW i \in 1 .. Len(kept) PROVE kept[i].content \in TomlLines
    <3>1. kept[i] \in DiffLine
      BY <1>2, ElementIs
    <3> QED BY <3>1 DEF DiffLine
  <2> QED BY <2>1
<1> QED BY <1>2, <1>3, <1>4

LEMMA ContentsEmpty == ASSUME NEW kinds PROVE Contents(<<>>, kinds) = <<>>
<1>8. <<>> \in Seq(DiffLine) /\ Len(<<>>) = 0
  OBVIOUS
<1>1. PICK s \in Seq(DiffLine) : s = <<>> /\ Len(s) = 0
  BY <1>8
<1>2. PICK I : I = {i \in DOMAIN s : s[i].kind \in kinds}
  OBVIOUS
<1>3. PICK g : IsPicking(s, I, g, Len(s)) /\ Picked(s, I) = g[Len(s)]
  BY PickedIs
<1>4. g[0] = <<>>
  <2>1. IsPicking(s, I, g, 0)
    BY <1>1, <1>3
  <2> QED BY <2>1, PickingStarts
<1>5. Picked(s, I) = <<>>
  BY <1>1, <1>3, <1>4
<1>6. Contents(s, kinds) = [i \in DOMAIN <<>> |-> <<>>[i].content]
  BY <1>2, <1>5 DEF Contents
<1>7. DOMAIN <<>> = {}
  OBVIOUS
<1> QED BY <1>1, <1>6, <1>7

LEMMA ContentsAppend ==
  ASSUME NEW lines \in Seq(DiffLine), NEW e \in DiffLine, NEW kinds
  PROVE  Contents(Append(lines, e), kinds) =
           IF e.kind \in kinds THEN Append(Contents(lines, kinds), e.content)
           ELSE Contents(lines, kinds)
<1>1. PICK more : more = Append(lines, e)
  OBVIOUS
<1>2. /\ more \in Seq(DiffLine) /\ Len(more) = Len(lines) + 1 /\ more[Len(lines) + 1] = e
      /\ \A i \in 1 .. Len(lines) : more[i] = lines[i]
  BY <1>1
<1>3. PICK I : I = {i \in DOMAIN lines : lines[i].kind \in kinds}
  OBVIOUS
<1>4. PICK J : J = {i \in DOMAIN more : more[i].kind \in kinds}
  OBVIOUS
<1>5. /\ \A i \in 1 .. Len(lines) : i \in I <=> i \in J
      /\ Len(lines) + 1 \in J <=> e.kind \in kinds
  BY <1>2, <1>3, <1>4
<1>6. Picked(more, J) = IF Len(lines) + 1 \in J THEN Append(Picked(lines, I), e)
                        ELSE Picked(lines, I)
  BY <1>1, <1>5, PickedAppend
<1>7. PICK kept : kept = Picked(lines, I)
  OBVIOUS
<1>8. kept \in Seq(DiffLine)
  BY <1>7, PickedType
<1>9. Contents(lines, kinds) = [i \in DOMAIN kept |-> kept[i].content]
  BY <1>3, <1>7 DEF Contents
<1>10. CASE e.kind \notin kinds
  <2>1. Picked(more, J) = kept
    BY <1>5, <1>6, <1>7, <1>10
  <2>2. Contents(more, kinds) = [i \in DOMAIN kept |-> kept[i].content]
    BY <1>4, <2>1 DEF Contents
  <2> QED BY <1>1, <1>9, <1>10, <2>2
<1>11. CASE e.kind \in kinds
  <2>1. PICK longer : longer = Append(kept, e)
    OBVIOUS
  <2>2. Picked(more, J) = longer
    BY <1>5, <1>6, <1>7, <1>11, <2>1
  <2>3. Contents(more, kinds) = [i \in DOMAIN longer |-> longer[i].content]
    BY <1>4, <2>2 DEF Contents
  <2>4. PICK n \in Nat : n = Len(kept)
    BY <1>8
  <2>5. /\ DOMAIN longer = 1 .. n + 1 /\ longer[n + 1] = e
        /\ \A i \in 1 .. n : longer[i] = kept[i]
    BY <1>8, <2>1, <2>4
  <2>6. PICK left0 : left0 = [i \in 1 .. n |-> kept[i].content]
    OBVIOUS
  <2>7. left0 = Contents(lines, kinds)
    BY <1>8, <1>9, <2>4, <2>6
  <2>8. left0 \in Seq(TomlLines) /\ Len(left0) = n /\ e.content \in TomlLines
    <3>1. Contents(lines, kinds) \in Seq(TomlLines)
      BY ContentsType
    <3>2. e.content \in TomlLines
      BY DEF DiffLine
    <3> QED BY <2>6, <2>7, <3>1, <3>2
  <2>9. PICK right : right = Append(left0, e.content)
    OBVIOUS
  <2>10. /\ right \in Seq(TomlLines) /\ Len(right) = n + 1 /\ right[n + 1] = e.content
         /\ \A i \in 1 .. n : right[i] = kept[i].content
    BY <2>6, <2>8, <2>9
  <2>11. PICK left1 : left1 = [i \in 1 .. n + 1 |-> longer[i].content]
    OBVIOUS
  <2>12. left1 = Contents(more, kinds)
    BY <2>3, <2>5, <2>11
  <2>13. left1 \in Seq(TomlLines) /\ Len(left1) = n + 1
    <3>1. Contents(more, kinds) \in Seq(TomlLines)
      BY <1>2, ContentsType
    <3> QED BY <2>11, <2>12, <3>1
  <2>14. ASSUME NEW i \in 1 .. n + 1 PROVE left1[i] = right[i]
    <3>1. left1[i] = longer[i].content
      BY <2>11
    <3>2. CASE i = n + 1
      BY <2>5, <2>10, <3>1, <3>2
    <3>3. CASE i \in 1 .. n
      BY <2>5, <2>10, <3>1, <3>3
    <3> QED BY <3>2, <3>3
  <2>15. left1 = right
    BY <2>10, <2>13, <2>14, SeqEqual
  <2> QED BY <1>1, <1>11, <2>7, <2>9, <2>12, <2>15
<1> QED BY <1>10, <1>11

-----------------------------------------------------------------------------

OfOld == {"context", "removed"}
OfNew == {"context", "added"}
Marked == {"removed", "added"}

\* What line i adds to each of the three: m is l with what is pushed for it.
Pushes(l, m, old, new, i) ==
  /\ m \in Seq(DiffLine)
  /\ Contents(m, OfOld) = IF i <= Len(old) THEN Append(Contents(l, OfOld), old[i])
                          ELSE Contents(l, OfOld)
  /\ Contents(m, OfNew) = IF i <= Len(new) THEN Append(Contents(l, OfNew), new[i])
                          ELSE Contents(l, OfNew)
  /\ old = new => Contents(m, Marked) = Contents(l, Marked)

LEMMA PushLineIs ==
  ASSUME NEW old \in Seq(TomlLines), NEW new \in Seq(TomlLines), NEW l \in Seq(DiffLine),
         NEW i \in Nat \ {0}
  PROVE  Pushes(l, PushLine(l, old, new, i), old, new, i)
<1>1. PICK m : m = PushLine(l, old, new, i)
  OBVIOUS
<1>2. ASSUME NEW t \in TomlLines
      PROVE  /\ Context(t) \in DiffLine /\ Removed(t) \in DiffLine /\ Added(t) \in DiffLine
             /\ Context(t).kind = "context" /\ Context(t).content = t
             /\ Removed(t).kind = "removed" /\ Removed(t).content = t
             /\ Added(t).kind = "added" /\ Added(t).content = t
  BY DEF Context, Removed, Added, DiffLine
<1>3. /\ "context" \in OfOld /\ "removed" \in OfOld /\ "added" \notin OfOld
      /\ "context" \in OfNew /\ "removed" \notin OfNew /\ "added" \in OfNew
      /\ "context" \notin Marked
  BY DEF OfOld, OfNew, Marked
<1>4. ASSUME NEW s \in Seq(DiffLine), NEW t \in TomlLines
      PROVE  /\ Contents(Append(s, Removed(t)), OfOld) = Append(Contents(s, OfOld), t)
             /\ Contents(Append(s, Removed(t)), OfNew) = Contents(s, OfNew)
             /\ Append(s, Removed(t)) \in Seq(DiffLine)
  <2>1. Removed(t) \in DiffLine /\ Removed(t).kind = "removed" /\ Removed(t).content = t
    BY <1>2
  <2> QED BY <1>3, <2>1, ContentsAppend
<1>5. ASSUME NEW s \in Seq(DiffLine), NEW t \in TomlLines
      PROVE  /\ Contents(Append(s, Added(t)), OfNew) = Append(Contents(s, OfNew), t)
             /\ Contents(Append(s, Added(t)), OfOld) = Contents(s, OfOld)
             /\ Append(s, Added(t)) \in Seq(DiffLine)
  <2>1. Added(t) \in DiffLine /\ Added(t).kind = "added" /\ Added(t).content = t
    BY <1>2
  <2> QED BY <1>3, <2>1, ContentsAppend
<1>6. CASE i <= Len(old) /\ i <= Len(new) /\ old[i] = new[i]
  <2>1. m = Append(l, Context(old[i])) /\ old[i] \in TomlLines
    BY <1>1, <1>6 DEF PushLine
  <2>2. /\ Context(old[i]) \in DiffLine /\ Context(old[i]).kind = "context"
        /\ Context(old[i]).content = old[i]
    BY <1>2, <2>1
  <2>3. m \in Seq(DiffLine)
    BY <2>1, <2>2
  <2>4. Contents(m, OfOld) = Append(Contents(l, OfOld), old[i])
    BY <1>3, <2>1, <2>2, ContentsAppend
  <2>5. Contents(m, OfNew) = Append(Contents(l, OfNew), new[i])
    BY <1>3, <1>6, <2>1, <2>2, ContentsAppend
  <2>6. Contents(m, Marked) = Contents(l, Marked)
    BY <1>3, <2>1, <2>2, ContentsAppend
  <2> QED BY <1>1, <1>6, <2>3, <2>4, <2>5, <2>6 DEF Pushes
<1>7. CASE ~ (i <= Len(old) /\ i <= Len(new) /\ old[i] = new[i])
  <2>1. PICK removed : removed = IF i <= Len(old) THEN Append(l, Removed(old[i])) ELSE l
    OBVIOUS
  <2>2. m = IF i <= Len(new) THEN Append(removed, Added(new[i])) ELSE removed
    BY <1>1, <1>7, <2>1 DEF PushLine
  <2>3. /\ removed \in Seq(DiffLine) /\ Contents(removed, OfNew) = Contents(l, OfNew)
        /\ Contents(removed, OfOld) = IF i <= Len(old) THEN Append(Contents(l, OfOld), old[i])
                                      ELSE Contents(l, OfOld)
    <3>1. CASE i <= Len(old)
      <4>1. old[i] \in TomlLines
        BY <3>1
      <4> QED BY <1>4, <2>1, <3>1, <4>1
    <3>2. CASE ~ (i <= Len(old))
      BY <2>1, <3>2
    <3> QED BY <3>1, <3>2
  <2>4. /\ m \in Seq(DiffLine) /\ Contents(m, OfOld) = Contents(removed, OfOld)
        /\ Contents(m, OfNew) = IF i <= Len(new) THEN Append(Contents(removed, OfNew), new[i])
                                ELSE Contents(removed, OfNew)
    <3>1. CASE i <= Len(new)
      <4>1. new[i] \in TomlLines
        BY <3>1
      <4> QED BY <1>5, <2>2, <2>3, <3>1, <4>1
    <3>2. CASE ~ (i <= Len(new))
      BY <2>2, <2>3, <3>2
    <3> QED BY <3>1, <3>2
  <2>5. old = new => m = l
    BY <1>7, <2>1, <2>2
  <2> QED BY <1>1, <2>3, <2>4, <2>5 DEF Pushes
<1> QED BY <1>6, <1>7

\* The first n lines of a text.
FirstLines(s, n) == SubSeq(s, 1, Lower(n, Len(s)))

LEMMA FirstLinesIs ==
  ASSUME NEW s \in Seq(TomlLines), NEW n \in Nat
  PROVE  /\ FirstLines(s, 0) = <<>> /\ (Len(s) <= n => FirstLines(s, n) = s)
         /\ FirstLines(s, n + 1) = IF n + 1 <= Len(s) THEN Append(FirstLines(s, n), s[n + 1])
                                   ELSE FirstLines(s, n)
<1>1. FirstLines(s, 0) = <<>>
  <2>1. Lower(0, Len(s)) = 0
    BY DEF Lower
  <2> QED BY <2>1, SubSeqEmpty DEF FirstLines
<1>2. ASSUME Len(s) <= n PROVE FirstLines(s, n) = s
  <2>1. Lower(n, Len(s)) = Len(s)
    BY <1>2 DEF Lower
  <2> QED BY <2>1, SubSeqFull DEF FirstLines
<1>3. CASE n + 1 <= Len(s)
  <2>1. FirstLines(s, n) = SubSeq(s, 1, n) /\ FirstLines(s, n + 1) = SubSeq(s, 1, n + 1)
    <3>1. Lower(n, Len(s)) = n /\ Lower(n + 1, Len(s)) = n + 1
      BY <1>3 DEF Lower
    <3> QED BY <3>1 DEF FirstLines
  <2>2. /\ SubSeq(s, 1, n) \in Seq(TomlLines) /\ Len(SubSeq(s, 1, n)) = n
        /\ \A i \in 1 .. n : SubSeq(s, 1, n)[i] = s[i]
    BY <1>3
  <2>3. /\ SubSeq(s, 1, n + 1) \in Seq(TomlLines) /\ Len(SubSeq(s, 1, n + 1)) = n + 1
        /\ \A i \in 1 .. n + 1 : SubSeq(s, 1, n + 1)[i] = s[i]
    BY <1>3
  <2>4. PICK t : t = Append(SubSeq(s, 1, n), s[n + 1])
    OBVIOUS
  <2>5. /\ t \in Seq(TomlLines) /\ Len(t) = n + 1 /\ t[n + 1] = s[n + 1]
        /\ \A i \in 1 .. n : t[i] = s[i]
    <3>1. s[n + 1] \in TomlLines
      BY <1>3
    <3> QED BY <2>2, <2>4, <3>1
  <2>6. \A i \in 1 .. n + 1 : SubSeq(s, 1, n + 1)[i] = t[i]
    BY <2>3, <2>5
  <2>7. SubSeq(s, 1, n + 1) = t
    BY <2>3, <2>5, <2>6, SeqEqual
  <2> QED BY <1>1, <1>2, <1>3, <2>1, <2>4, <2>7
<1>4. CASE ~ (n + 1 <= Len(s))
  <2>1. Lower(n, Len(s)) = Len(s) /\ Lower(n + 1, Len(s)) = Len(s)
    BY <1>4 DEF Lower
  <2> QED BY <1>1, <1>2, <1>4, <2>1 DEF FirstLines
<1> QED BY <1>3, <1>4

\* Without its added lines the diff is the one text, without its removed lines the other;
\* of equal texts nothing is marked.
LEMMA DiffTellsTruth ==
  ASSUME NEW old \in Seq(TomlLines), NEW new \in Seq(TomlLines)
  PROVE  /\ ConfigDiffOf(old, new) \in Seq(DiffLine)
         /\ Contents(ConfigDiffOf(old, new), OfOld) = old
         /\ Contents(ConfigDiffOf(old, new), OfNew) = new
         /\ old = new => Contents(ConfigDiffOf(old, new), Marked) = <<>>
<1>1. PICK k \in Nat : k = Longest(old, new) /\ Len(old) <= k /\ Len(new) <= k
  BY DEF Longest
<1>2. PICK d : IsDiff(old, new, d, k) /\ ConfigDiffOf(old, new) = d[k]
  BY <1>1, DiffIs
<1> DEFINE N == {n \in Nat : n <= k => /\ d[n] \in Seq(DiffLine)
                                       /\ Contents(d[n], OfOld) = FirstLines(old, n)
                                       /\ Contents(d[n], OfNew) = FirstLines(new, n)
                                       /\ old = new => Contents(d[n], Marked) = <<>>}
<1>3. 0 \in N
  <2>1. d[0] = <<>>
    <3>1. d[0] = DiffAt(old, new, d, 0)
      BY <1>2, DiffStep
    <3> QED BY <3>1 DEF DiffAt
  <2>2. <<>> \in Seq(DiffLine)
    OBVIOUS
  <2> QED BY <2>1, <2>2, ContentsEmpty, FirstLinesIs
<1>4. ASSUME NEW n \in Nat, n \in N PROVE n + 1 \in N
  <2> SUFFICES ASSUME n + 1 <= k
               PROVE  /\ d[n + 1] \in Seq(DiffLine)
                      /\ Contents(d[n + 1], OfOld) = FirstLines(old, n + 1)
                      /\ Contents(d[n + 1], OfNew) = FirstLines(new, n + 1)
                      /\ old = new => Contents(d[n + 1], Marked) = <<>>
    OBVIOUS
  <2>1. PICK l : l = d[n]
    OBVIOUS
  <2>2. /\ l \in Seq(DiffLine) /\ Contents(l, OfOld) = FirstLines(old, n)
        /\ Contents(l, OfNew) = FirstLines(new, n) /\ (old = new => Contents(l, Marked) = <<>>)
    BY <1>4, <2>1
  <2>3. d[n + 1] = PushLine(l, old, new, n + 1)
    <3>1. n + 1 \in 0 .. k /\ n + 1 # 0 /\ (n + 1) - 1 = n
      OBVIOUS
    <3>2. d[n + 1] = DiffAt(old, new, d, n + 1)
      BY <1>2, <3>1, DiffStep
    <3> QED BY <2>1, <3>1, <3>2 DEF DiffAt
  <2>4. PICK i \in Nat \ {0} : i = n + 1
    OBVIOUS
  <2>5. PICK m : m = PushLine(l, old, new, i)
    OBVIOUS
  <2>6. /\ m \in Seq(DiffLine)
        /\ Contents(m, OfOld) = IF i <= Len(old) THEN Append(Contents(l, OfOld), old[i])
                                ELSE Contents(l, OfOld)
        /\ Contents(m, OfNew) = IF i <= Len(new) THEN Append(Contents(l, OfNew), new[i])
                                ELSE Contents(l, OfNew)
        /\ old = new => Contents(m, Marked) = Contents(l, Marked)
    <3>1. l \in Seq(DiffLine)
      BY <2>2
    <3>2. Pushes(l, m, old, new, i)
      BY <2>5, <3>1, PushLineIs
    <3> QED BY <3>2 DEF Pushes
  <2>7. FirstLines(old, i) = IF i <= Len(old) THEN Append(FirstLines(old, n), old[i])
                             ELSE FirstLines(old, n)
    BY <2>4, FirstLinesIs
  <2>8. FirstLines(new, i) = IF i <= Len(new) THEN Append(FirstLines(new, n), new[i])
                             ELSE FirstLines(new, n)
    BY <2>4, FirstLinesIs
  <2>9. d[n + 1] = m /\ n + 1 = i
    BY <2>3, <2>4, <2>5
  <2> QED BY <2>2, <2>6, <2>7, <2>8, <2>9
<1> HIDE DEF N
<1>5. k \in N
  <2>1. Nat \subseteq N
    BY <1>3, <1>4, InductionOnSets
  <2> QED BY <2>1
<1>6. FirstLines(old, k) = old /\ FirstLines(new, k) = new
  BY <1>1, FirstLinesIs
<1> QED BY <1>2, <1>5, <1>6 DEF N

LEMMA WindowIs ==
  ASSUME NEW lines \in Seq(DiffLine), NEW scroll0 \in Nat, NEW height \in Nat
  PROVE  \A i \in DOMAIN Window(lines, scroll0, height) :
           Window(lines, scroll0, height)[i] = lines[scroll0 + i]
<1>1. PICK to : to = Lower(scroll0 + Lower(15, height - 3), Len(lines))
  OBVIOUS
<1>2. to \in Int /\ to <= Len(lines)
  BY <1>1 DEF Lower
<1>3. PICK w : w = SubSeq(lines, scroll0 + 1, to)
  OBVIOUS
<1>4. Window(lines, scroll0, height) = w
  BY <1>1, <1>3 DEF Window
<1>5. CASE scroll0 + 1 <= to
  <2>1. /\ DOMAIN w = 1 .. to - scroll0
        /\ \A i \in 1 .. to - scroll0 : w[i] = lines[scroll0 + i]
    BY <1>2, <1>3, <1>5
  <2> QED BY <1>4, <2>1
<1>6. CASE ~ (scroll0 + 1 <= to)
  <2>1. w = <<>>
    BY <1>2, <1>3, <1>6, SubSeqEmpty
  <2>2. DOMAIN w = {}
    BY <2>1
  <2> QED BY <1>4, <2>2
<1> QED BY <1>5, <1>6

LEMMA DiffTextsAreSequences == DiffTexts \subseteq Seq(TomlLines)
<1>1. ASSUME NEW n \in 0 .. MaxLines, NEW s \in [1 .. n -> TomlLines] PROVE s \in Seq(TomlLines)
  <2>1. n \in Nat
    BY DiffAssumption
  <2> QED BY <2>1, FunctionIsSequence
<1> QED BY <1>1 DEF DiffTexts

LEMMA ShownIs ==
  ASSUME NEW old \in Seq(TomlLines), NEW new \in Seq(TomlLines), NEW scroll0 \in Nat,
         NEW height \in DiffHeights, preview' = Shown(old, new, scroll0, height)
  PROVE  DiffInv'
<1>1. PICK p : p = preview'
  OBVIOUS
<1>2. /\ p.old = old /\ p.new = new /\ p.scroll = scroll0 /\ p.height = height
      /\ p.window = Window(ConfigDiffOf(old, new), scroll0, height)
  BY <1>1 DEF Shown
<1>3. height \in Nat
  BY DiffAssumption
<1> QED BY <1>1, <1>2, <1>3 DEF DiffInv, Pending

LEMMA DiffInitInvariant == DiffInit => DiffInv
<1> SUFFICES ASSUME DiffInit PROVE DiffInv
  OBVIOUS
<1>1. PICK old \in DiffTexts, new \in DiffTexts, h \in DiffHeights :
        preview = Shown(old, new, 0, h)
  BY DEF DiffInit
<1>2. /\ preview.old = old /\ preview.new = new /\ preview.scroll = 0 /\ preview.height = h
      /\ preview.window = Window(ConfigDiffOf(old, new), 0, h)
  BY <1>1 DEF Shown
<1>3. old \in Seq(TomlLines) /\ new \in Seq(TomlLines) /\ h \in Nat
  BY DiffTextsAreSequences, DiffAssumption
<1> QED BY <1>2, <1>3 DEF DiffInv, Pending

LEMMA DiffNextKeeps == DiffInv /\ [DiffNext]_preview => DiffInv'
<1> SUFFICES ASSUME DiffInv, [DiffNext]_preview PROVE DiffInv'
  OBVIOUS
<1>1. CASE UNCHANGED preview
  BY <1>1 DEF DiffInv, Pending
<1>2. CASE DiffNext
  <2>1. PICK by \in {0, 1, -1}, h \in DiffHeights :
          /\ preview.scroll + by \in 0 .. Len(Pending)
          /\ preview' = Shown(preview.old, preview.new, preview.scroll + by, h)
    BY <1>2 DEF DiffNext
  <2>2. Pending \in Seq(DiffLine)
    BY DiffTellsTruth DEF DiffInv, Pending
  <2>3. PICK n \in Nat : n = preview.scroll + by
    BY <2>1, <2>2
  <2> QED BY <2>1, <2>3, ShownIs DEF DiffInv
<1> QED BY <1>1, <1>2

LEMMA DiffInvariance == DiffSpec => []DiffInv
BY DiffInitInvariant, DiffNextKeeps, PTL DEF DiffSpec

LEMMA DiffIsFaithful == DiffInv => DiffFaithful
<1> SUFFICES ASSUME DiffInv PROVE DiffFaithful
  OBVIOUS
<1>1. /\ Pending \in Seq(DiffLine)
      /\ Contents(Pending, OfOld) = preview.old /\ Contents(Pending, OfNew) = preview.new
      /\ preview.old = preview.new => Contents(Pending, Marked) = <<>>
  BY DiffTellsTruth DEF DiffInv, Pending
<1>2. \A i \in DOMAIN preview.window : preview.window[i] = Pending[preview.scroll + i]
  BY <1>1, WindowIs DEF DiffInv
<1> QED BY <1>1, <1>2 DEF DiffFaithful, OfOld, OfNew, Marked

-----------------------------------------------------------------------------
(* StatusView                                                               *)

Reports == UNION {[S -> Nat] : S \in SUBSET Tunnel}

Messages == [kind : {"none", "asked", "status", "unreachable", "reload", "sent"}, of : Reports]

StatusTypeOK ==
  /\ readings \in [Tunnel -> Seq(Reading \cup {Default})]
  /\ inFlight \in BOOLEAN
  /\ polls \in [PollTasks -> Messages]
  /\ arrived \in Seq(Messages)
  /\ status \in Reports
  /\ newest \in [Tunnel -> Nat]

\* swap on poll_in_flight: a poll runs only while the flag is set, and alone.
OnePoll ==
  \A p, q \in PollTasks :
    polls[p] # NoPoll => inFlight /\ (polls[q] # NoPoll => p = q)

\* A message with a status that comes from nothing older than reading n of t has.
Since(m, t, n) == t \in DOMAIN m.of => n <= m.of[t] /\ m.of[t] \in 1 .. Len(readings[t])

\* What is on its way is in the order it was read, and not older than what is shown.
InOrder ==
  \A t \in Tunnel :
    /\ newest[t] <= Len(readings[t]) /\ readings[t] # <<>>
    /\ \A i \in DOMAIN arrived :
         /\ arrived[i].kind = "status" => Since(arrived[i], t, newest[t])
         /\ (arrived[i].kind = "reload" /\ t \in DOMAIN arrived[i].of) => arrived[i].of[t] = 0
         /\ \A j \in 1 .. i - 1 :
              /\ arrived[i].kind = "status" /\ arrived[j].kind = "status"
              /\ t \in DOMAIN arrived[i].of /\ t \in DOMAIN arrived[j].of
              => arrived[j].of[t] <= arrived[i].of[t]
    /\ \A p \in PollTasks : polls[p].kind = "status" =>
         /\ Since(polls[p], t, newest[t])
         /\ \A i \in DOMAIN arrived :
              /\ arrived[i].kind = "status"
              /\ t \in DOMAIN polls[p].of /\ t \in DOMAIN arrived[i].of
              => arrived[i].of[t] <= polls[p].of[t]

\* A row is empty, or shows the latest reading that any row of its has shown.
RowsNewest == \A t \in DOMAIN status : status[t] # 0 => status[t] = newest[t]

StatusInv == StatusTypeOK /\ OnePoll /\ InOrder /\ RowsNewest

-----------------------------------------------------------------------------
LEMMA ReportsAreFunctions ==
  /\ NoReadings \in Reports
  /\ \A f \in Reports : DOMAIN f \subseteq Tunnel /\ \A t \in DOMAIN f : f[t] \in Nat
  /\ \A S \in SUBSET Tunnel : [S -> Nat] \subseteq Reports
BY DEF Reports, NoReadings

\* Init establishes the invariant: no poll, nothing on its way, no row has a status.
LEMMA StatusInitInvariant == StatusInit => StatusInv
<1> SUFFICES ASSUME StatusInit PROVE StatusInv
  OBVIOUS
<1>1. StatusTypeOK
  <2> DEFINE R == Reading \cup {Default}
  <2>1. Default \in R
    OBVIOUS
  <2> HIDE DEF R
  <2>2. readings \in [Tunnel -> Seq(R)]
    BY <2>1 DEF StatusInit
  <2>3. NoPoll \in Messages
    BY ReportsAreFunctions DEF NoPoll, Message, Messages
  <2>4. status \in [Tunnel -> Nat] /\ [Tunnel -> Nat] \subseteq Reports
    BY ReportsAreFunctions DEF StatusInit
  <2>5. polls \in [PollTasks -> Messages] /\ arrived \in Seq(Messages)
    BY <2>3 DEF StatusInit
  <2>6. inFlight \in BOOLEAN /\ newest \in [Tunnel -> Nat]
    BY DEF StatusInit
  <2> QED BY <2>2, <2>4, <2>5, <2>6 DEF StatusTypeOK, R
<1>2. OnePoll
  BY DEF StatusInit, OnePoll
<1>3. InOrder /\ RowsNewest
  BY DEF StatusInit, InOrder, RowsNewest, NoPoll, Message
<1> QED BY <1>1, <1>2, <1>3 DEF StatusInv

-----------------------------------------------------------------------------
(* The daemon and the poll                                                  *)

\* A new reading leaves those that are on their way as old as they were.
LEMMA ChangeKeeps == StatusInv /\ Change => StatusInv'
<1> SUFFICES ASSUME StatusInv, Change PROVE StatusInv'
  OBVIOUS
<1> USE DEF StatusInv
<1>1. PICK u \in Tunnel, r \in Reading \cup {Default} :
        readings' = [readings EXCEPT ![u] = Append(@, r)]
  BY DEF Change
<1>2. StatusTypeOK'
  BY <1>1 DEF Change, StatusTypeOK
<1>3. ASSUME NEW t \in Tunnel
      PROVE  /\ Len(readings[t]) \in Nat /\ Len(readings'[t]) \in Nat
             /\ Len(readings[t]) <= Len(readings'[t]) /\ readings'[t] # <<>>
  <2> DEFINE R == Reading \cup {Default}
  <2>1. readings[t] \in Seq(R) /\ r \in R
    BY DEF StatusTypeOK
  <2>2. readings'[t] = (IF t = u THEN Append(readings[t], r) ELSE readings[t])
    BY <1>1 DEF StatusTypeOK
  <2>3. readings[t] # <<>>
    BY DEF InOrder
  <2> HIDE DEF R
  <2> QED BY <2>1, <2>2, <2>3
<1>4. InOrder'
  <2>1. \A m, t, n : t \in Tunnel /\ Since(m, t, n) => Since(m, t, n)'
    BY <1>3 DEF Since
  <2>2. \A t \in Tunnel : newest[t] \in Nat
    BY DEF StatusTypeOK
  <2> QED BY <1>3, <2>1, <2>2 DEF Change, InOrder
<1> QED BY <1>2, <1>4 DEF Change, OnePoll, RowsNewest

\* A tick starts a poll only if the flag was clear, so none was running.
LEMMA StatusTickKeeps == StatusInv /\ StatusTick => StatusInv'
<1> SUFFICES ASSUME StatusInv, StatusTick PROVE StatusInv'
  OBVIOUS
<1> USE DEF StatusInv
<1>1. PICK p \in PollTasks : polls[p] = NoPoll /\ polls' = [polls EXCEPT ![p] = Asked]
  BY DEF StatusTick
<1>2. Asked \in Messages /\ Asked.kind = "asked"
  BY ReportsAreFunctions DEF Asked, Message, Messages
<1>3. StatusTypeOK'
  BY <1>1, <1>2 DEF StatusTick, StatusTypeOK
<1>4. OnePoll'
  BY <1>1 DEF StatusTick, OnePoll, StatusTypeOK
<1>5. InOrder'
  BY <1>1, <1>2 DEF StatusTick, InOrder, StatusTypeOK, Since
<1> QED BY <1>3, <1>4, <1>5 DEF StatusTick, RowsNewest

\* The answer holds the present readings: nothing that is on its way is newer.
LEMMA PollAnsweredKeeps ==
  ASSUME NEW p \in PollTasks, StatusInv, PollAnswered(p) PROVE StatusInv'
<1> USE DEF StatusInv
<1>a. NoPoll \in Messages /\ NoPoll.kind = "none"
  BY ReportsAreFunctions DEF NoPoll, Message, Messages
<1>b. Asked # NoPoll
  BY DEF Asked, NoPoll, Message
<1>1. CASE \E S \in SUBSET Tunnel : polls' = [polls EXCEPT ![p] = StatusAnswer(S)] /\ UNCHANGED inFlight
  <2>1. PICK S \in SUBSET Tunnel : polls' = [polls EXCEPT ![p] = StatusAnswer(S)]
    BY <1>1
  <2> DEFINE m == StatusAnswer(S)
  <2>2. m \in Messages /\ m.kind = "status" /\ DOMAIN m.of = S
          /\ \A t \in S : m.of[t] = Len(readings[t])
    <3>1. \A t \in S : Len(readings[t]) \in Nat
      BY LenProperties DEF StatusTypeOK
    <3> DEFINE f == [t \in S |-> Len(readings[t])]
    <3>2. f \in [S -> Nat] /\ [S -> Nat] \subseteq Reports /\ m = [kind |-> "status", of |-> f]
      BY <3>1, ReportsAreFunctions DEF StatusAnswer, Message
    <3> QED BY <3>2 DEF Messages
  <2> HIDE DEF m
  <2>3. polls' = [polls EXCEPT ![p] = m]
    BY <2>1 DEF m
  <2>4. StatusTypeOK'
    BY <1>1, <2>2, <2>3 DEF PollAnswered, StatusTypeOK
  <2>5. OnePoll'
    BY <1>1, <1>b, <2>3 DEF PollAnswered, OnePoll, StatusTypeOK
  <2>6. InOrder'
    BY <2>2, <2>3 DEF PollAnswered, InOrder, StatusTypeOK, Since
  <2> QED BY <2>4, <2>5, <2>6 DEF PollAnswered, RowsNewest
<1>2. CASE polls' = [polls EXCEPT ![p] = Message("unreachable", NoReadings)] /\ UNCHANGED inFlight
  <2>1. Message("unreachable", NoReadings) \in Messages
          /\ Message("unreachable", NoReadings).kind = "unreachable"
    BY ReportsAreFunctions DEF Message, Messages
  <2>2. StatusTypeOK'
    BY <1>2, <2>1 DEF PollAnswered, StatusTypeOK
  <2>3. OnePoll'
    BY <1>2, <1>b DEF PollAnswered, OnePoll, StatusTypeOK
  <2>4. InOrder'
    BY <1>2, <2>1 DEF PollAnswered, InOrder, StatusTypeOK, Since
  <2> QED BY <2>2, <2>3, <2>4 DEF PollAnswered, RowsNewest
<1>3. CASE polls' = [polls EXCEPT ![p] = NoPoll] /\ inFlight' = FALSE
  <2>1. StatusTypeOK'
    BY <1>3, <1>a DEF PollAnswered, StatusTypeOK
  <2>2. OnePoll'
    BY <1>3, <1>b DEF PollAnswered, OnePoll, StatusTypeOK
  <2>3. InOrder'
    BY <1>3, <1>a DEF PollAnswered, InOrder, StatusTypeOK, Since
  <2> QED BY <2>1, <2>2, <2>3 DEF PollAnswered, RowsNewest
<1> QED BY <1>1, <1>2, <1>3 DEF PollAnswered

\* The poll's message goes behind those that are older.
LEMMA PollSentKeeps ==
  ASSUME NEW p \in PollTasks, StatusInv, PollSent(p) PROVE StatusInv'
<1> USE DEF StatusInv
<1> DEFINE m == Message("sent", NoReadings)
<1>1. m \in Messages /\ m.kind = "sent"
  BY ReportsAreFunctions DEF Message, Messages
<1> HIDE DEF m
<1>2. /\ arrived' = Append(arrived, polls[p]) /\ polls' = [polls EXCEPT ![p] = m]
      /\ polls[p] # NoPoll /\ polls[p] \in Messages
  BY DEF PollSent, m, NoPoll, Message, StatusTypeOK
<1>3. StatusTypeOK'
  BY <1>1, <1>2 DEF PollSent, StatusTypeOK
<1>4. OnePoll'
  BY <1>2 DEF PollSent, OnePoll, StatusTypeOK
<1>5. \A q \in PollTasks : polls'[q].kind # "status"
  BY <1>1, <1>2 DEF OnePoll, StatusTypeOK, NoPoll, Message
<1>6. /\ Len(arrived') = Len(arrived) + 1 /\ arrived'[Len(arrived')] = polls[p]
      /\ \A i \in 1 .. Len(arrived) : arrived'[i] = arrived[i]
      /\ DOMAIN arrived' = 1 .. Len(arrived) + 1 /\ DOMAIN arrived = 1 .. Len(arrived)
  BY <1>2 DEF StatusTypeOK
<1>7. InOrder'
  <2> SUFFICES ASSUME NEW t \in Tunnel, NEW i \in DOMAIN arrived'
               PROVE  /\ arrived'[i].kind = "status" => Since(arrived'[i], t, newest[t])
                      /\ (arrived'[i].kind = "reload" /\ t \in DOMAIN arrived'[i].of) =>
                           arrived'[i].of[t] = 0
                      /\ \A j \in 1 .. i - 1 :
                           /\ arrived'[i].kind = "status" /\ arrived'[j].kind = "status"
                           /\ t \in DOMAIN arrived'[i].of /\ t \in DOMAIN arrived'[j].of
                           => arrived'[j].of[t] <= arrived'[i].of[t]
    BY <1>5 DEF PollSent, InOrder, Since
  <2>1. CASE i \in 1 .. Len(arrived)
    <3>1. PICK n \in Nat : n = Len(arrived)
      BY DEF StatusTypeOK
    <3>2. \A j \in 1 .. i - 1 : j \in 1 .. n
      BY <2>1, <3>1
    <3>3. arrived'[i] = arrived[i] /\ \A j \in 1 .. i - 1 : arrived'[j] = arrived[j]
      BY <1>6, <2>1, <3>1, <3>2
    <3> QED BY <3>3, <2>1, <1>6 DEF InOrder
  <2>2. CASE i = Len(arrived) + 1
    <3>1. arrived'[i] = polls[p] /\ \A j \in 1 .. i - 1 : arrived'[j] = arrived[j] /\ j \in DOMAIN arrived
      BY <1>6, <2>2 DEF StatusTypeOK
    <3> QED BY <3>1, <1>2 DEF InOrder, PollSent
  <2> QED BY <2>1, <2>2, <1>6 DEF StatusTypeOK
<1> QED BY <1>3, <1>4, <1>7 DEF PollSent, RowsNewest

\* The flag is cleared after the message was sent.
LEMMA PollOverKeeps ==
  ASSUME NEW p \in PollTasks, StatusInv, PollOver(p) PROVE StatusInv'
<1> USE DEF StatusInv
<1>1. NoPoll \in Messages /\ NoPoll.kind = "none" /\ polls[p] # NoPoll
  BY ReportsAreFunctions DEF NoPoll, Message, Messages, PollOver
<1>2. StatusTypeOK'
  BY <1>1 DEF PollOver, StatusTypeOK
<1>3. OnePoll'
  BY <1>1 DEF PollOver, OnePoll, StatusTypeOK
<1>4. InOrder'
  BY <1>1 DEF PollOver, InOrder, StatusTypeOK, Since
<1> QED BY <1>2, <1>3, <1>4 DEF PollOver, RowsNewest

-----------------------------------------------------------------------------
(* Messages                                                                 *)

\* What other tasks send holds no reading.
LEMMA TaskSendsKeeps == StatusInv /\ TaskSends => StatusInv'
<1> SUFFICES ASSUME StatusInv, TaskSends PROVE StatusInv'
  OBVIOUS
<1> USE DEF StatusInv
<1>1. PICK m : /\ arrived' = Append(arrived, m)
               /\ \/ m = Message("unreachable", NoReadings)
                  \/ \E S \in SUBSET Tunnel : m = Message("reload", [t \in S |-> 0])
  BY DEF TaskSends
<1>2. m \in Messages /\ m.kind # "status"
      /\ (m.kind = "reload" => \A t \in DOMAIN m.of : m.of[t] = 0)
  <2>1. CASE m = Message("unreachable", NoReadings)
    BY <2>1, ReportsAreFunctions DEF Message, Messages
  <2>2. ASSUME NEW S \in SUBSET Tunnel, m = Message("reload", [t \in S |-> 0])
        PROVE  m \in Messages /\ m.kind = "reload" /\ \A t \in DOMAIN m.of : m.of[t] = 0
    <3> DEFINE f == [t \in S |-> 0]
    <3>1. f \in [S -> Nat] /\ [S -> Nat] \subseteq Reports /\ m = [kind |-> "reload", of |-> f]
      BY <2>2, ReportsAreFunctions DEF Message
    <3> QED BY <3>1 DEF Messages
  <2> QED BY <1>1, <2>1, <2>2
<1>3. StatusTypeOK'
  BY <1>1, <1>2 DEF TaskSends, StatusTypeOK
<1>4. /\ DOMAIN arrived' = 1 .. Len(arrived) + 1 /\ DOMAIN arrived = 1 .. Len(arrived)
      /\ arrived'[Len(arrived) + 1] = m /\ \A i \in 1 .. Len(arrived) : arrived'[i] = arrived[i]
  BY <1>1, <1>2 DEF StatusTypeOK
<1>5. InOrder'
  <2> SUFFICES ASSUME NEW t \in Tunnel, NEW i \in DOMAIN arrived'
               PROVE  /\ arrived'[i].kind = "status" => Since(arrived'[i], t, newest[t])
                      /\ (arrived'[i].kind = "reload" /\ t \in DOMAIN arrived'[i].of) =>
                           arrived'[i].of[t] = 0
                      /\ \A j \in 1 .. i - 1 :
                           /\ arrived'[i].kind = "status" /\ arrived'[j].kind = "status"
                           /\ t \in DOMAIN arrived'[i].of /\ t \in DOMAIN arrived'[j].of
                           => arrived'[j].of[t] <= arrived'[i].of[t]
                      /\ \A p \in PollTasks :
                           /\ polls[p].kind = "status" /\ arrived'[i].kind = "status"
                           /\ t \in DOMAIN polls[p].of /\ t \in DOMAIN arrived'[i].of
                           => arrived'[i].of[t] <= polls[p].of[t]
    BY DEF TaskSends, InOrder, Since
  <2>1. CASE i \in 1 .. Len(arrived)
    <3>1. arrived'[i] = arrived[i] /\ \A j \in 1 .. i - 1 : arrived'[j] = arrived[j]
      BY <1>4, <2>1 DEF StatusTypeOK
    <3> QED BY <3>1, <2>1, <1>4 DEF InOrder
  <2>2. CASE i = Len(arrived) + 1
    BY <2>2, <1>4, <1>2
  <2> QED BY <2>1, <2>2, <1>4 DEF StatusTypeOK
<1> QED BY <1>3, <1>5 DEF TaskSends, OnePoll, RowsNewest

\* Handling the first message: what is behind it is not older than what it shows.
LEMMA HandleArrivedKeeps == StatusInv /\ HandleArrived => StatusInv'
<1> SUFFICES ASSUME StatusInv, HandleArrived PROVE StatusInv'
  OBVIOUS
<1> USE DEF StatusInv
<1> DEFINE m == Head(arrived)
<1>1. /\ arrived # <<>> /\ arrived' = Tail(arrived) /\ m = arrived[1] /\ m \in Messages
      /\ UNCHANGED <<readings, inFlight, polls>>
  BY DEF HandleArrived, StatusTypeOK
<1>2. /\ status' = CASE m.kind = "status" -> Updated(m.of) [] m.kind = "reload" -> m.of
                     [] OTHER -> status
      /\ newest' = [t \in Tunnel |->
           IF t \in DOMAIN status' /\ status'[t] > newest[t] THEN status'[t] ELSE newest[t]]
  BY DEF HandleArrived
<1>3. /\ DOMAIN arrived = 1 .. Len(arrived) /\ Len(arrived) \in Nat \ {0}
      /\ DOMAIN arrived' = 1 .. Len(arrived) - 1
      /\ \A i \in 1 .. Len(arrived) - 1 : arrived'[i] = arrived[i + 1]
  BY <1>1 DEF StatusTypeOK
<1> HIDE DEF m
<1>4. \A t \in Tunnel :
        /\ m.kind = "status" => Since(m, t, newest[t])
        /\ (m.kind = "reload" /\ t \in DOMAIN m.of) => m.of[t] = 0
  BY <1>1, <1>3 DEF InOrder
<1>5. m.of \in Reports
  BY <1>1 DEF Messages
<1>6. /\ status' \in Reports
      /\ \A t \in DOMAIN status' :
           /\ t \in Tunnel
           /\ \/ status'[t] = 0
              \/ t \in DOMAIN status /\ status'[t] = status[t]
              \/ m.kind = "status" /\ t \in DOMAIN m.of /\ status'[t] = m.of[t]
  <2>1. CASE m.kind = "status"
    <3>1. status' = Updated(m.of)
      BY <2>1, <1>2
    <3>2. DOMAIN status \in SUBSET Tunnel /\ Updated(m.of) \in [DOMAIN status -> Nat]
      BY <1>5, ReportsAreFunctions DEF Updated, StatusTypeOK
    <3> QED BY <3>1, <3>2, <2>1, ReportsAreFunctions DEF Updated
  <2>2. CASE m.kind = "reload"
    BY <2>2, <1>2, <1>4, <1>5, ReportsAreFunctions
  <2>3. CASE m.kind \notin {"status", "reload"}
    BY <2>3, <1>2, ReportsAreFunctions DEF StatusTypeOK
  <2> QED BY <2>1, <2>2, <2>3
<1>7. newest' \in [Tunnel -> Nat] /\ \A t \in DOMAIN status' : status'[t] \in Nat
  BY <1>2, <1>6, ReportsAreFunctions DEF StatusTypeOK
<1>8. StatusTypeOK'
  BY <1>1, <1>6, <1>7 DEF StatusTypeOK
<1>9. \A t \in Tunnel :
        \/ newest'[t] = newest[t]
        \/ m.kind = "status" /\ t \in DOMAIN m.of /\ newest'[t] = m.of[t]
  BY <1>2, <1>6 DEF StatusTypeOK, RowsNewest
<1>10. RowsNewest'
  <2> SUFFICES ASSUME NEW t \in DOMAIN status', status'[t] # 0 PROVE status'[t] = newest'[t]
    BY DEF RowsNewest
  <2>1. t \in Tunnel /\ newest[t] \in Nat
    BY <1>6 DEF StatusTypeOK
  <2>2. status'[t] >= newest[t]
    BY <1>4, <1>6, <2>1 DEF Since, RowsNewest
  <2> QED BY <2>1, <2>2, <1>2, <1>7
<1>11. /\ \A i \in DOMAIN arrived' : arrived'[i] = arrived[i + 1] /\ i + 1 \in DOMAIN arrived
       /\ \A i \in DOMAIN arrived' : 1 \in 1 .. (i + 1) - 1
       /\ \A i \in DOMAIN arrived' : \A j \in 1 .. i - 1 :
            j \in DOMAIN arrived' /\ j + 1 \in 1 .. (i + 1) - 1
  BY <1>3
<1>12. ASSUME NEW t \in Tunnel, NEW x, m.kind = "status" /\ t \in DOMAIN m.of => m.of[t] <= x.of[t],
              t \in DOMAIN x.of, Since(x, t, newest[t])
       PROVE  newest'[t] <= x.of[t]
  BY <1>9, <1>12 DEF Since
<1>13. ASSUME NEW t \in Tunnel
       PROVE  newest'[t] <= Len(readings'[t]) /\ readings'[t] # <<>>
  <2>1. newest[t] <= Len(readings[t]) /\ readings[t] # <<>>
    BY DEF InOrder
  <2>2. m.kind = "status" /\ t \in DOMAIN m.of => m.of[t] <= Len(readings[t])
    <3>1. Len(readings[t]) \in Nat
      BY DEF StatusTypeOK
    <3> QED BY <1>4, <3>1 DEF Since
  <2> QED BY <1>1, <1>9, <2>1, <2>2
<1>14. ASSUME NEW t \in Tunnel, NEW i \in DOMAIN arrived'
       PROVE  /\ arrived'[i].kind = "status" => (Since(arrived[i], t, newest[t]))'
              /\ (arrived'[i].kind = "reload" /\ t \in DOMAIN arrived'[i].of) => arrived'[i].of[t] = 0
  <2>1. /\ arrived[i + 1].kind = "status" => Since(arrived[i + 1], t, newest[t])
        /\ (arrived[i + 1].kind = "reload" /\ t \in DOMAIN arrived[i + 1].of) =>
             arrived[i + 1].of[t] = 0
    BY <1>11 DEF InOrder
  <2>2. (arrived[i + 1].kind = "status" /\ t \in DOMAIN arrived[i + 1].of) =>
          (m.kind = "status" /\ t \in DOMAIN m.of => m.of[t] <= arrived[i + 1].of[t])
    BY <1>1, <1>11 DEF InOrder
  <2>3. (arrived[i + 1].kind = "status" /\ t \in DOMAIN arrived[i + 1].of) =>
          newest'[t] <= arrived[i + 1].of[t]
    BY <1>12, <2>1, <2>2
  <2> QED BY <1>1, <1>11, <2>1, <2>3 DEF Since
<1>15. ASSUME NEW t \in Tunnel, NEW i \in DOMAIN arrived', NEW j \in 1 .. i - 1,
              arrived'[i].kind = "status", arrived'[j].kind = "status",
              t \in DOMAIN arrived'[i].of, t \in DOMAIN arrived'[j].of
       PROVE  arrived'[j].of[t] <= arrived'[i].of[t]
  BY <1>11, <1>15 DEF InOrder
<1>16. ASSUME NEW t \in Tunnel, NEW p \in PollTasks, polls'[p].kind = "status"
       PROVE  (Since(polls[p], t, newest[t]))'
  <2>1. Since(polls[p], t, newest[t])
    BY <1>1, <1>16 DEF InOrder
  <2>2. t \in DOMAIN polls[p].of =>
          (m.kind = "status" /\ t \in DOMAIN m.of => m.of[t] <= polls[p].of[t])
    BY <1>16, <1>1, <1>3 DEF InOrder
  <2>3. t \in DOMAIN polls[p].of => newest'[t] <= polls[p].of[t]
    BY <1>12, <2>1, <2>2
  <2> QED BY <1>1, <2>1, <2>3 DEF Since
<1>17. ASSUME NEW t \in Tunnel, NEW p \in PollTasks, polls'[p].kind = "status",
              NEW i \in DOMAIN arrived', arrived'[i].kind = "status",
              t \in DOMAIN polls'[p].of, t \in DOMAIN arrived'[i].of
       PROVE  arrived'[i].of[t] <= polls'[p].of[t]
  BY <1>1, <1>11, <1>17 DEF InOrder
<1>18. InOrder'
  BY <1>13, <1>14, <1>15, <1>16, <1>17 DEF InOrder
<1> QED BY <1>1, <1>8, <1>10, <1>18 DEF OnePoll

-----------------------------------------------------------------------------
(* Theorems                                                                 *)

LEMMA StatusNextKeeps == StatusInv /\ [StatusNext]_statusVars => StatusInv'
<1> SUFFICES ASSUME StatusInv, [StatusNext]_statusVars PROVE StatusInv'
  OBVIOUS
<1>1. CASE Change
  BY <1>1, ChangeKeeps
<1>2. CASE StatusTick
  BY <1>2, StatusTickKeeps
<1>3. CASE TaskSends
  BY <1>3, TaskSendsKeeps
<1>4. CASE HandleArrived
  BY <1>4, HandleArrivedKeeps
<1>5. ASSUME NEW p \in PollTasks, PollAnswered(p) \/ PollSent(p) \/ PollOver(p) PROVE StatusInv'
  BY <1>5, PollAnsweredKeeps, PollSentKeeps, PollOverKeeps
<1>6. CASE UNCHANGED statusVars
  BY <1>6 DEF statusVars, StatusInv, StatusTypeOK, OnePoll, InOrder, Since, RowsNewest
<1> QED BY <1>1, <1>2, <1>3, <1>4, <1>5, <1>6 DEF StatusNext

LEMMA StatusInvariance == StatusSpec => []StatusInv
BY StatusInitInvariant, StatusNextKeeps, PTL DEF StatusSpec

\* The state keeps its type: the flag, the poll, the queue of messages and the rows.
THEOREM StatusTypeCorrect == StatusSpec => []StatusTypeOK
<1>1. StatusInv => StatusTypeOK
  BY DEF StatusInv
<1> QED BY <1>1, StatusInvariance, PTL

LEMMA ConstantsAreNumbers == (\A x \in Ages : x \in Int) /\ (\A x \in Losses : x \in Int)
BY StatusAssumption

LEMMA ReadingsAreNumbers ==
  ASSUME NEW r \in Reading \cup {Default} PROVE r.age \in Int /\ r.loss \in Int
<1>1. CASE r \in Reading
  <2>1. r.age \in Ages /\ r.loss \in Losses
    BY <1>1 DEF Reading
  <2> QED BY <2>1, ConstantsAreNumbers
<1>2. CASE r = Default
  BY <1>2 DEF Default
<1> QED BY <1>1, <1>2

\* The thresholds of compute_health_warning are behind the word "Connected".
LEMMA WarningSound ==
  ASSUME NEW r, r.age \in Int, r.loss \in Int, Warning(r) = "none"
  PROVE  r.age <= 180 /\ r.loss <= 10
BY DEF Warning

\* No answer of the poll, however late it is handled, puts an older reading in a row, and
\* the two tabs agree about each (spawn_status_poll, apply_peer_updates).
THEOREM RowsFollowDaemon == StatusSpec => []RowsFollow
<1>1. StatusInv => RowsFollow
  <2> SUFFICES ASSUME StatusInv, NEW t \in DOMAIN status
               PROVE /\ status[t] # 0 => status[t] = newest[t]
                     /\ OverviewCell(t) \in {"unknown", "Disconnected"} <=> StatusCells(t).state = "down"
                     /\ OverviewCell(t) = "Connected [!]" <=> StatusCells(t).warning # "none"
                     /\ OverviewCell(t) = "Connected" =>
                          readings[t][newest[t]].age <= 180 /\ readings[t][newest[t]].loss <= 10
    BY DEF RowsFollow
  <2>1. status[t] # 0 => status[t] = newest[t]
    BY DEF StatusInv, RowsNewest
  <2>2. OverviewCell(t) \in {"unknown", "Disconnected"} <=> StatusCells(t).state = "down"
    BY DEF OverviewCell, StatusCells
  <2>3. OverviewCell(t) = "Connected [!]" <=> StatusCells(t).warning # "none"
    BY DEF OverviewCell, StatusCells, Of
  <2>4. ASSUME OverviewCell(t) = "Connected"
        PROVE  readings[t][newest[t]].age <= 180 /\ readings[t][newest[t]].loss <= 10
    <3> DEFINE r == readings[t][newest[t]]
    <3>1. status[t] # 0 /\ Of(t).up /\ Of(t).warning = "none"
      BY <2>4 DEF OverviewCell
    <3>2. r.up /\ Warning(r) = "none"
      BY <2>1, <3>1 DEF Of
    <3>3. t \in Tunnel /\ newest[t] \in 1 .. Len(readings[t])
      BY <2>1, <3>1, ReportsAreFunctions DEF StatusInv, StatusTypeOK, InOrder
    <3>4. r \in Reading \cup {Default}
      BY <3>3 DEF StatusInv, StatusTypeOK
    <3>5. r.age \in Int /\ r.loss \in Int
      BY <3>4, ReadingsAreNumbers
    <3> QED BY <3>2, <3>5, WarningSound
  <2> QED BY <2>1, <2>2, <2>3, <2>4
<1> QED BY <1>1, StatusInvariance, PTL

-----------------------------------------------------------------------------
(* The connection bar: the widths                                           *)

\* d counts the digits of the numbers up to n.
IsCounting(d, n) == d = [m \in 0 .. n |-> IF m < 10 THEN 1 ELSE 1 + d[m \div 10]]

DigitsAt(d, m) == IF m < 10 THEN 1 ELSE 1 + d[m \div 10]

LEMMA CountingStep ==
  ASSUME NEW n \in Nat, NEW d, IsCounting(d, n), NEW m \in 0 .. n
  PROVE  d[m] = DigitsAt(d, m)
<1>1. d = [i \in 0 .. n |-> DigitsAt(d, i)]
  BY Zenon DEF IsCounting, DigitsAt
<1>2. PICK f : f = [i \in 0 .. n |-> DigitsAt(d, i)]
  OBVIOUS
<1>3. f[m] = DigitsAt(d, m)
  BY <1>2
<1> QED BY <1>1, <1>2, <1>3

LEMMA TenthIsLess == ASSUME NEW m \in Nat, m >= 10 PROVE m \div 10 \in Nat /\ m \div 10 < m
OBVIOUS

LEMMA CountingExists == \A n \in Nat : \E d : IsCounting(d, n)
<1> DEFINE K == {n \in Nat : \E d : IsCounting(d, n)}
<1>1. 0 \in K
  <2>1. IsCounting([m \in 0 .. 0 |-> 1], 0)
    BY DEF IsCounting
  <2> QED BY <2>1
<1>2. ASSUME NEW n \in Nat, n \in K PROVE n + 1 \in K
  <2>1. PICK d : IsCounting(d, n)
    BY <1>2
  <2>2. PICK last : last = DigitsAt(d, n + 1)
    OBVIOUS
  <2>3. PICK h : h = [m \in 0 .. n + 1 |-> IF m = n + 1 THEN last ELSE d[m]]
    OBVIOUS
  <2>4. \A m \in 0 .. n : h[m] = d[m]
    BY <2>3
  <2>5. ASSUME NEW m \in 0 .. n + 1 PROVE h[m] = DigitsAt(h, m)
    <3>1. ASSUME m >= 10 PROVE h[m \div 10] = d[m \div 10]
      <4>1. m \div 10 \in 0 .. n
        BY <3>1, TenthIsLess
      <4> QED BY <4>1, <2>4
    <3>2. DigitsAt(h, m) = DigitsAt(d, m)
      BY <3>1 DEF DigitsAt
    <3>3. CASE m = n + 1
      BY <3>2, <3>3, <2>2, <2>3
    <3>4. CASE m \in 0 .. n
      BY <3>2, <3>4, <2>1, <2>4, CountingStep
    <3> QED BY <3>3, <3>4
  <2>6. h = [m \in 0 .. n + 1 |-> h[m]]
    BY <2>3
  <2>7. IsCounting(h, n + 1)
    BY <2>5, <2>6, Zenon DEF IsCounting, DigitsAt
  <2> QED BY <2>7
<1> HIDE DEF K
<1>3. Nat \subseteq K
  BY <1>1, <1>2, InductionOnSets
<1> QED BY <1>3 DEF K

\* Every number has a digit.
LEMMA DigitsAreSome == ASSUME NEW n \in Nat PROVE DigitCount(n) \in Nat
<1> DEFINE c == CHOOSE d : IsCounting(d, n)
<1>1. IsCounting(c, n)
  BY CountingExists
<1> HIDE DEF c
<1>2. DigitCount(n) = c[n]
  BY DEF DigitCount, IsCounting, c
<1> DEFINE Bad == {m \in 0 .. n : c[m] \notin Nat}
<1>3. ASSUME Bad # {} PROVE FALSE
  <2>1. Bad \subseteq Nat
    OBVIOUS
  <2> HIDE DEF Bad
  <2>2. PICK m \in Bad : \A i \in Bad : m <= i
    BY <2>1, <1>3, LeastOf
  <2>3. m \in 0 .. n /\ c[m] \notin Nat
    BY <2>2 DEF Bad
  <2>4. c[m] = DigitsAt(c, m)
    BY <2>3, <1>1, CountingStep
  <2>5. m >= 10
    BY <2>3, <2>4 DEF DigitsAt
  <2>6. m \div 10 \in 0 .. n /\ m \div 10 < m
    BY <2>3, <2>5, TenthIsLess
  <2>7. c[m \div 10] \in Nat
    BY <2>2, <2>3, <2>6 DEF Bad
  <2> QED BY <2>3, <2>4, <2>5, <2>7 DEF DigitsAt
<1> QED BY <1>2, <1>3

LEMMA OneDigit == DigitCount(1) = 1
<1> DEFINE c == CHOOSE d : IsCounting(d, 1)
<1>1. IsCounting(c, 1)
  BY CountingExists
<1> HIDE DEF c
<1>2. DigitCount(1) = c[1]
  BY DEF DigitCount, IsCounting, c
<1>3. c[1] = DigitsAt(c, 1)
  BY <1>1, CountingStep
<1> QED BY <1>2, <1>3 DEF DigitsAt

\* g holds the columns of the first entries.
IsSumming(w, g, n) == g = [i \in 0 .. n |-> IF i = 0 THEN 0 ELSE g[i - 1] + w[i - 1]]

SumAt(w, g, i) == IF i = 0 THEN 0 ELSE g[i - 1] + w[i - 1]

LEMMA SummingStep ==
  ASSUME NEW w, NEW g, NEW n \in Nat, IsSumming(w, g, n), NEW i \in 0 .. n
  PROVE  g[i] = SumAt(w, g, i)
<1>1. g = [m \in 0 .. n |-> SumAt(w, g, m)]
  BY Zenon DEF IsSumming, SumAt
<1>2. PICK f : f = [m \in 0 .. n |-> SumAt(w, g, m)]
  OBVIOUS
<1>3. f[i] = SumAt(w, g, i)
  BY <1>2
<1> QED BY <1>1, <1>2, <1>3

LEMMA SummingExists ==
  ASSUME NEW w PROVE \A n \in Nat : \E g : IsSumming(w, g, n)
<1> DEFINE K == {n \in Nat : \E g : IsSumming(w, g, n)}
<1>1. 0 \in K
  <2>1. IsSumming(w, [i \in 0 .. 0 |-> 0], 0)
    BY DEF IsSumming
  <2> QED BY <2>1
<1>2. ASSUME NEW n \in Nat, n \in K PROVE n + 1 \in K
  <2>1. PICK g : IsSumming(w, g, n)
    BY <1>2
  <2>2. PICK last : last = g[n] + w[n]
    OBVIOUS
  <2>3. PICK h : h = [i \in 0 .. n + 1 |-> IF i = n + 1 THEN last ELSE g[i]]
    OBVIOUS
  <2>4. \A i \in 0 .. n : h[i] = g[i]
    BY <2>3
  <2>5. ASSUME NEW i \in 0 .. n + 1 PROVE h[i] = SumAt(w, h, i)
    <3>1. CASE i = n + 1
      <4>1. i # 0 /\ i - 1 = n /\ h[i] = last /\ h[n] = g[n]
        BY <3>1, <2>3, <2>4
      <4> QED BY <4>1, <2>2 DEF SumAt
    <3>2. CASE i \in 0 .. n
      <4>1. g[i] = SumAt(w, g, i)
        BY <2>1, <3>2, SummingStep
      <4>2. h[i] = g[i] /\ (i # 0 => h[i - 1] = g[i - 1])
        BY <2>4, <3>2
      <4> QED BY <4>1, <4>2 DEF SumAt
    <3> QED BY <3>1, <3>2
  <2>6. h = [i \in 0 .. n + 1 |-> h[i]]
    BY <2>3
  <2>7. IsSumming(w, h, n + 1)
    BY <2>5, <2>6, Zenon DEF IsSumming, SumAt
  <2> QED BY <2>7
<1> HIDE DEF K
<1>3. Nat \subseteq K
  BY <1>1, <1>2, InductionOnSets
<1> QED BY <1>3 DEF K

LEMMA SummingsAgree ==
  ASSUME NEW w, NEW g, NEW h, NEW k \in Nat, NEW l \in Nat,
         IsSumming(w, g, k), IsSumming(w, h, l), k <= l
  PROVE  g[k] = h[k]
<1> DEFINE N == {n \in Nat : n <= k => g[n] = h[n]}
<1>1. 0 \in N
  <2>1. g[0] = SumAt(w, g, 0) /\ h[0] = SumAt(w, h, 0)
    BY SummingStep
  <2> QED BY <2>1 DEF SumAt
<1>2. ASSUME NEW n \in Nat, n \in N PROVE n + 1 \in N
  <2> SUFFICES ASSUME n + 1 <= k PROVE g[n + 1] = h[n + 1]
    OBVIOUS
  <2>1. g[n] = h[n] /\ n + 1 \in 0 .. k /\ n + 1 \in 0 .. l
    BY <1>2
  <2>2. g[n + 1] = SumAt(w, g, n + 1)
    BY <2>1, SummingStep
  <2>3. h[n + 1] = SumAt(w, h, n + 1)
    BY <2>1, SummingStep
  <2>4. n + 1 # 0 /\ (n + 1) - 1 = n
    OBVIOUS
  <2> QED BY <2>1, <2>2, <2>3, <2>4 DEF SumAt
<1> HIDE DEF N
<1>3. Nat \subseteq N
  BY <1>1, <1>2, InductionOnSets
<1>4. k \in N
  BY <1>3
<1> QED BY <1>4 DEF N

LEMMA ColumnedIs ==
  ASSUME NEW w, NEW n \in Nat
  PROVE  \E g : IsSumming(w, g, n) /\ Columned(w, n) = g[n]
<1> DEFINE c == CHOOSE g : IsSumming(w, g, n)
<1>1. IsSumming(w, c, n)
  <2>1. \E g : IsSumming(w, g, n)
    BY SummingExists
  <2> QED BY <2>1
<1>2. Columned(w, n) = c[n]
  BY DEF Columned, IsSumming
<1> QED BY <1>1, <1>2

LEMMA ColumnedNone == ASSUME NEW w PROVE Columned(w, 0) = 0
<1>1. PICK g : IsSumming(w, g, 0) /\ Columned(w, 0) = g[0]
  BY ColumnedIs
<1>2. g[0] = SumAt(w, g, 0)
  BY <1>1, SummingStep
<1> QED BY <1>1, <1>2 DEF SumAt

LEMMA ColumnedNext ==
  ASSUME NEW w, NEW n \in Nat PROVE Columned(w, n + 1) = Columned(w, n) + w[n]
<1>1. n + 1 \in Nat /\ n + 1 \in 0 .. n + 1 /\ n + 1 # 0 /\ (n + 1) - 1 = n /\ n <= n + 1
  OBVIOUS
<1>2. PICK g : IsSumming(w, g, n) /\ Columned(w, n) = g[n]
  BY ColumnedIs
<1>3. PICK h : IsSumming(w, h, n + 1) /\ Columned(w, n + 1) = h[n + 1]
  BY <1>1, ColumnedIs
<1>4. g[n] = h[n]
  <2>1. PICK l \in Nat : l = n + 1
    OBVIOUS
  <2>2. IsSumming(w, h, l) /\ n <= l
    BY <1>3, <2>1
  <2> QED BY <1>2, <2>2, SummingsAgree
<1>5. h[n + 1] = SumAt(w, h, n + 1)
  BY <1>1, <1>3, SummingStep
<1>6. h[n + 1] = h[n] + w[n]
  BY <1>1, <1>5 DEF SumAt
<1> QED BY <1>2, <1>3, <1>4, <1>6

LEMMA ColumnedType ==
  ASSUME NEW N \in Nat, NEW w \in [0 .. N - 1 -> Nat]
  PROVE  \A n \in 0 .. N : Columned(w, n) \in Nat
<1> DEFINE K == {n \in Nat : n <= N => Columned(w, n) \in Nat}
<1>1. 0 \in K
  BY ColumnedNone
<1>2. ASSUME NEW n \in Nat, n \in K PROVE n + 1 \in K
  <2> SUFFICES ASSUME n + 1 <= N PROVE Columned(w, n + 1) \in Nat
    OBVIOUS
  <2>1. Columned(w, n + 1) = Columned(w, n) + w[n]
    BY ColumnedNext
  <2>2. Columned(w, n) \in Nat /\ w[n] \in Nat
    BY <1>2
  <2> QED BY <2>1, <2>2
<1> HIDE DEF K
<1>3. Nat \subseteq K
  BY <1>1, <1>2, InductionOnSets
<1> QED BY <1>3 DEF K

-----------------------------------------------------------------------------
(* The loop of viewport, from the first entry                               *)

\* The window r, which begins with the first entry, fits.
Fitting(w, N, b, r) ==
  /\ r.start = 0 /\ r.end \in 0 .. N - 1
  /\ r.used = Columned(w, r.end + 1) /\ r.used <= b

\* Nothing fits beside it.
Full(w, N, b, r) == r.end + 1 < N => r.used + w[r.end + 1] > b

\* A round lets the window grow by an entry unless it is full.
LEMMA GrowKeeps ==
  ASSUME NEW N \in Nat, NEW w \in [0 .. N - 1 -> Nat], NEW b \in Nat, NEW r,
         Fitting(w, N, b, r)
  PROVE  /\ Fitting(w, N, b, Grow(w, b, r))
         /\ Full(w, N, b, r) => Full(w, N, b, Grow(w, b, r))
         /\ ~ Full(w, N, b, r) => Grow(w, b, r).end = r.end + 1
<1>1. PICK e \in 0 .. N - 1 : e = r.end
  BY DEF Fitting
<1>2. PICK u : u = r.used
  OBVIOUS
<1>3. PICK g : g = Grow(w, b, r)
  OBVIOUS
<1>4. r.start = 0 /\ r.end = e /\ r.used = u /\ u = Columned(w, e + 1) /\ u <= b
  BY <1>1, <1>2 DEF Fitting
<1>5. u \in Nat
  <2>1. e + 1 \in 0 .. N
    OBVIOUS
  <2> QED BY <2>1, <1>4, ColumnedType
<1>6. r.start - 1 \notin DOMAIN w
  BY <1>4
<1>7. ~ Takes(w, b, r.used, r.start - 1)
  BY <1>6 DEF Takes
<1>8. Takes(w, b, u, e + 1) <=> ~ Full(w, N, b, r)
  <2>1. e + 1 \in DOMAIN w <=> e + 1 < N
    OBVIOUS
  <2>2. e + 1 < N => w[e + 1] \in Nat
    OBVIOUS
  <2> QED BY <2>1, <2>2, <1>4, <1>5 DEF Takes, Full
<1>9. CASE Full(w, N, b, r)
  <2>1. g.start = 0 /\ g.end = e /\ g.used = u
    BY <1>3, <1>4, <1>7, <1>8, <1>9 DEF Grow
  <2>2. Fitting(w, N, b, g)
    BY <2>1, <1>4 DEF Fitting
  <2>3. Full(w, N, b, g)
    BY <2>1, <1>4, <1>9 DEF Full
  <2> QED BY <2>2, <2>3, <1>3, <1>9
<1>10. CASE ~ Full(w, N, b, r)
  <2>1. g.start = 0 /\ g.end = e + 1 /\ g.used = u + w[e + 1]
    BY <1>3, <1>4, <1>7, <1>8, <1>10 DEF Grow
  <2>2. e + 1 < N /\ u + w[e + 1] <= b
    <3>1. e + 1 < N => w[e + 1] \in Nat
      OBVIOUS
    <3> QED BY <3>1, <1>4, <1>5, <1>10 DEF Full
  <2>3. Columned(w, (e + 1) + 1) = Columned(w, e + 1) + w[e + 1]
    <3>1. e + 1 \in Nat
      OBVIOUS
    <3> QED BY <3>1, ColumnedNext
  <2>4. Fitting(w, N, b, g)
    BY <2>1, <2>2, <2>3, <1>4 DEF Fitting
  <2> QED BY <2>1, <2>4, <1>3, <1>4, <1>10
<1> QED BY <1>9, <1>10

\* f holds the windows after the rounds of the loop.
IsGrowing(w, b, s, f, k) ==
  f = [n \in 0 .. k |->
        IF n = 0 THEN [start |-> s, end |-> s, used |-> w[s]]
        ELSE LET before == f[n - 1] IN
             IF before.used = b THEN before ELSE Grow(w, b, before)]

GrowingAt(w, b, s, f, n) ==
  IF n = 0 THEN [start |-> s, end |-> s, used |-> w[s]]
  ELSE IF f[n - 1].used = b THEN f[n - 1] ELSE Grow(w, b, f[n - 1])

LEMMA GrowingStep ==
  ASSUME NEW w, NEW b, NEW s, NEW f, NEW k \in Nat, IsGrowing(w, b, s, f, k), NEW n \in 0 .. k
  PROVE  f[n] = GrowingAt(w, b, s, f, n)
<1>1. f = [m \in 0 .. k |-> GrowingAt(w, b, s, f, m)]
  BY Zenon DEF IsGrowing, GrowingAt
<1>2. PICK h : h = [m \in 0 .. k |-> GrowingAt(w, b, s, f, m)]
  OBVIOUS
<1>3. h[n] = GrowingAt(w, b, s, f, n)
  BY <1>2
<1> QED BY <1>1, <1>2, <1>3

LEMMA GrowingExists ==
  ASSUME NEW w, NEW b, NEW s
  PROVE  \A k \in Nat : \E f : IsGrowing(w, b, s, f, k)
<1> DEFINE K == {k \in Nat : \E f : IsGrowing(w, b, s, f, k)}
<1>1. 0 \in K
  <2>1. IsGrowing(w, b, s, [n \in 0 .. 0 |-> [start |-> s, end |-> s, used |-> w[s]]], 0)
    BY DEF IsGrowing
  <2> QED BY <2>1
<1>2. ASSUME NEW k \in Nat, k \in K PROVE k + 1 \in K
  <2>1. PICK f : IsGrowing(w, b, s, f, k)
    BY <1>2
  <2>2. PICK last : last = IF f[k].used = b THEN f[k] ELSE Grow(w, b, f[k])
    OBVIOUS
  <2>3. PICK h : h = [n \in 0 .. k + 1 |-> IF n = k + 1 THEN last ELSE f[n]]
    OBVIOUS
  <2>4. \A n \in 0 .. k : h[n] = f[n]
    BY <2>3
  <2>5. ASSUME NEW n \in 0 .. k + 1 PROVE h[n] = GrowingAt(w, b, s, h, n)
    <3>1. CASE n = k + 1
      <4>1. n # 0 /\ n - 1 = k /\ h[n] = last /\ h[k] = f[k]
        BY <3>1, <2>3, <2>4
      <4>2. h[n - 1] = f[k]
        BY <4>1
      <4> QED BY <4>1, <4>2, <2>2, Zenon DEF GrowingAt
    <3>2. CASE n \in 0 .. k
      <4>1. f[n] = GrowingAt(w, b, s, f, n)
        BY <2>1, <3>2, GrowingStep
      <4>2. h[n] = f[n] /\ (n # 0 => h[n - 1] = f[n - 1])
        BY <2>4, <3>2
      <4> QED BY <4>1, <4>2, Zenon DEF GrowingAt
    <3> QED BY <3>1, <3>2
  <2>6. h = [n \in 0 .. k + 1 |-> h[n]]
    BY <2>3
  <2>7. IsGrowing(w, b, s, h, k + 1)
    BY <2>5, <2>6, Zenon DEF IsGrowing, GrowingAt
  <2> QED BY <2>7
<1> HIDE DEF K
<1>3. Nat \subseteq K
  BY <1>1, <1>2, InductionOnSets
<1> QED BY <1>3 DEF K

\* As many rounds as there are entries leave a window that fits and is full.
LEMMA GrownFits ==
  ASSUME NEW N \in Nat \ {0}, NEW w \in [0 .. N - 1 -> Nat \ {0}], NEW b \in Nat, w[0] <= b
  PROVE  Fitting(w, N, b, Grown(w, b, 0, N)) /\ Full(w, N, b, Grown(w, b, 0, N))
<1> DEFINE c == CHOOSE g : IsGrowing(w, b, 0, g, N)
<1>1. PICK f : IsGrowing(w, b, 0, f, N) /\ Grown(w, b, 0, N) = f[N]
  <2>1. IsGrowing(w, b, 0, c, N)
    <3>1. \E g : IsGrowing(w, b, 0, g, N)
      BY GrowingExists
    <3> QED BY <3>1
  <2>2. Grown(w, b, 0, N) = c[N]
    BY DEF Grown, IsGrowing
  <2> QED BY <2>1, <2>2
<1> HIDE DEF c
<1> DEFINE Good(r, n) == Fitting(w, N, b, r) /\ (Full(w, N, b, r) \/ r.end >= n)
           K == {n \in Nat : n <= N => Good(f[n], n)}
<1>2. w \in [0 .. N - 1 -> Nat] /\ 0 \in 0 .. N - 1
  OBVIOUS
<1>3. 0 \in K
  <2>1. f[0] = GrowingAt(w, b, 0, f, 0)
    BY <1>1, GrowingStep
  <2>2. f[0].start = 0 /\ f[0].end = 0 /\ f[0].used = w[0]
    BY <2>1 DEF GrowingAt
  <2>3. Columned(w, 0 + 1) = Columned(w, 0) + w[0] /\ Columned(w, 0) = 0
    BY ColumnedNext, ColumnedNone
  <2>4. Fitting(w, N, b, f[0])
    BY <2>2, <2>3, <1>2 DEF Fitting
  <2> QED BY <2>2, <2>4
<1>4. ASSUME NEW n \in Nat, n \in K PROVE n + 1 \in K
  <2> SUFFICES ASSUME n + 1 <= N PROVE Good(f[n + 1], n + 1)
    OBVIOUS
  <2>1. PICK r : r = f[n]
    OBVIOUS
  <2>2. Fitting(w, N, b, r) /\ (Full(w, N, b, r) \/ r.end >= n)
    BY <1>4, <2>1
  <2>3. n + 1 \in 0 .. N /\ n + 1 # 0 /\ (n + 1) - 1 = n
    OBVIOUS
  <2>4. f[n + 1] = GrowingAt(w, b, 0, f, n + 1)
    BY <1>1, <2>3, GrowingStep
  <2>5. f[n + 1] = IF r.used = b THEN r ELSE Grow(w, b, r)
    BY <2>1, <2>3, <2>4 DEF GrowingAt
  <2>6. CASE r.used = b
    <3>1. Full(w, N, b, r)
      <4>1. r.end \in 0 .. N - 1
        BY <2>2 DEF Fitting
      <4>2. r.end + 1 < N => w[r.end + 1] \in Nat \ {0}
        BY <4>1
      <4> QED BY <2>6, <4>2 DEF Full
    <3> QED BY <3>1, <2>2, <2>5, <2>6
  <2>7. CASE r.used # b
    <3>1. /\ Fitting(w, N, b, Grow(w, b, r))
          /\ Full(w, N, b, r) => Full(w, N, b, Grow(w, b, r))
          /\ ~ Full(w, N, b, r) => Grow(w, b, r).end = r.end + 1
      BY <2>2, <1>2, GrowKeeps
    <3>2. f[n + 1] = Grow(w, b, r)
      BY <2>5, <2>7
    <3>3. r.end \in Nat
      BY <2>2 DEF Fitting
    <3> QED BY <3>1, <3>2, <3>3, <2>2
  <2> QED BY <2>6, <2>7
<1>5. Nat \subseteq K
  <2> HIDE DEF K
  <2> QED BY <1>3, <1>4, InductionOnSets
<1>6. Good(f[N], N)
  BY <1>5
<1>7. ~ (f[N].end >= N)
  BY <1>6 DEF Fitting
<1> QED BY <1>1, <1>6, <1>7

-----------------------------------------------------------------------------
(* The frame                                                                *)

\* What is drawn is drawn of a number of connections, a name and a terminal.
BarInv == \E c \in Nat, n \in Nat, w \in Nat : bar = Drawn(c, n, w)

LEMMA BarInitInvariant == BarInit => BarInv
BY BarAssumption DEF BarInit, BarInv

LEMMA RedrawKeeps == BarInv /\ [Redraw]_bar => BarInv'
<1> SUFFICES ASSUME BarInv, [Redraw]_bar PROVE BarInv'
  OBVIOUS
<1>1. PICK c \in Nat, n \in Nat, w \in Nat : bar = Drawn(c, n, w)
  BY DEF BarInv
<1>2. bar.count = c /\ bar.name = n /\ bar.width = w
  BY <1>1 DEF Drawn
<1>3. CASE \E d \in Counts, m \in NameLengths : bar' = Drawn(d, m, bar.width)
  BY <1>2, <1>3, BarAssumption DEF BarInv
<1>4. CASE \E v \in Columns : bar' = Drawn(bar.count, bar.name, v)
  BY <1>2, <1>4, BarAssumption DEF BarInv
<1>5. CASE UNCHANGED bar
  BY <1>1, <1>5 DEF BarInv
<1> QED BY <1>3, <1>4, <1>5 DEF Redraw

LEMMA TruncatedIs == ASSUME NEW n \in Nat PROVE Truncated(n) \in 0 .. 21
BY DEF Truncated, NAME_LEN

LEMMA WidthsAre ==
  ASSUME NEW c \in Nat, NEW n \in Nat
  PROVE  /\ Widths(c, n) \in [0 .. c - 1 -> Nat \ {0}]
         /\ Widths(c, n) = [i \in 0 .. c - 1 |-> IF i = 0 THEN Truncated(n) + 8
                                                 ELSE 5 + DigitCount(i + 1)]
         /\ c > 0 => Widths(c, n)[0] <= 29
<1>1. Truncated(n) \in 0 .. 21
  BY TruncatedIs
<1>2. ASSUME NEW i \in 0 .. c - 1
      PROVE  /\ EntryWidth(i, Truncated(n), i = 0) \in Nat \ {0}
             /\ EntryWidth(i, Truncated(n), i = 0)
                  = IF i = 0 THEN Truncated(n) + 8 ELSE 5 + DigitCount(i + 1)
  <2>1. DigitCount(i + 1) \in Nat
    <3>1. i + 1 \in Nat
      OBVIOUS
    <3> QED BY <3>1, DigitsAreSome
  <2>2. CASE i = 0
    <3>1. DigitCount(i + 1) = 1
      BY <2>2, OneDigit
    <3> QED BY <2>2, <3>1, <1>1 DEF EntryWidth
  <2>3. CASE i # 0
    BY <2>1, <2>3, <1>1 DEF EntryWidth
  <2> QED BY <2>2, <2>3
<1>3. Widths(c, n) = [i \in 0 .. c - 1 |-> EntryWidth(i, Truncated(n), i = 0)]
  BY DEF Widths
<1>4. PICK w : w = [i \in 0 .. c - 1 |-> EntryWidth(i, Truncated(n), i = 0)]
  OBVIOUS
<1>5. w \in [0 .. c - 1 -> Nat \ {0}]
  BY <1>2, <1>4
<1>6. w = [i \in 0 .. c - 1 |-> IF i = 0 THEN Truncated(n) + 8 ELSE 5 + DigitCount(i + 1)]
  BY <1>2, <1>4
<1>7. ASSUME c > 0 PROVE w[0] <= 29
  <2>1. 0 \in 0 .. c - 1
    BY <1>7
  <2>2. w[0] = Truncated(n) + 8
    BY <1>6, <2>1
  <2> QED BY <1>1, <2>2
<1> QED BY <1>3, <1>4, <1>5, <1>6, <1>7

\* The entries first to last of the widths w are what the line of the given width has room
\* for, of N entries.
LineFits(w, N, width, last) ==
  LET drawn == PREFIX_WIDTH + Columned(w, last + 1)
                 + (IF last < N - 1 THEN INDICATOR_WIDTH ELSE 0)
  IN  drawn <= width /\ (last < N - 1 => drawn + w[last + 1] > width)

LEMMA EntriesCount == ASSUME NEW N \in Nat PROVE Cardinality(0 .. N - 1) = N
<1>1. Cardinality(0 .. N - 1) = IF 0 > N - 1 THEN 0 ELSE (N - 1) - 0 + 1
  BY FS_Interval
<1> QED BY <1>1

LEMMA ViewportFits ==
  ASSUME NEW N \in Nat \ {0}, NEW w \in [0 .. N - 1 -> Nat \ {0}], w[0] <= 29,
         NEW width \in Nat, width >= MIN_TERMINAL_WIDTH
  PROVE  Viewport(w, 0, width)[1] = 0 /\ LineFits(w, N, width, Viewport(w, 0, width)[2])
<1>1. DOMAIN w = 0 .. N - 1 /\ Cardinality(DOMAIN w) = N
  BY EntriesCount
<1>2. Columned(w, N) \in Nat
  <2>1. w \in [0 .. N - 1 -> Nat] /\ N \in 0 .. N /\ N \in Nat
    OBVIOUS
  <2> QED BY <2>1, ColumnedType
<1>3. Budget(width) = width - 16 /\ width - 16 \in Nat /\ 64 <= width - 16
  BY DEF Budget, PREFIX_WIDTH, INDICATOR_WIDTH, MIN_TERMINAL_WIDTH
<1>4. PICK b \in Nat : b = width - 16
  BY <1>3
<1>5. w[0] \in Nat /\ w[0] <= b
  BY <1>3, <1>4
<1>6. PICK r : r = Grown(w, b, 0, N)
  OBVIOUS
<1>7. Fitting(w, N, b, r) /\ Full(w, N, b, r)
  BY <1>5, <1>6, GrownFits
<1>8. CASE Columned(w, N) + PREFIX_WIDTH <= width
  <2>1. Viewport(w, 0, width) = <<0, N - 1>>
    BY <1>1, <1>8 DEF Viewport
  <2>2. (N - 1) + 1 = N
    OBVIOUS
  <2>3. LineFits(w, N, width, N - 1)
    BY <1>2, <1>8, <2>2 DEF LineFits, PREFIX_WIDTH
  <2> QED BY <2>1, <2>3
<1>9. CASE ~ (Columned(w, N) + PREFIX_WIDTH <= width)
  <2>1. Viewport(w, 0, width) = <<r.start, r.end>>
    <3>1. ~ (w[0] > Budget(width))
      BY <1>3, <1>4, <1>5
    <3>2. Grown(w, Budget(width), 0, N) = r
      BY <1>3, <1>4, <1>6
    <3> QED BY <1>1, <1>9, <3>1, <3>2 DEF Viewport
  <2>2. PICK e \in 0 .. N - 1 : e = r.end
    BY <1>7 DEF Fitting
  <2>3. r.start = 0 /\ Columned(w, e + 1) <= b
    BY <1>7, <2>2 DEF Fitting
  <2>4. Columned(w, e + 1) \in Nat
    <3>1. w \in [0 .. N - 1 -> Nat] /\ e + 1 \in 0 .. N /\ N \in Nat
      OBVIOUS
    <3> QED BY <3>1, ColumnedType
  <2>5. e < N - 1
    <3>1. CASE e = N - 1
      <4>1. e + 1 = N
        BY <3>1
      <4> QED BY <4>1, <1>4, <1>9, <2>3, <1>2 DEF PREFIX_WIDTH
    <3> QED BY <3>1
  <2>6. Columned(w, e + 1) + w[e + 1] > b
    BY <1>7, <2>2, <2>5 DEF Full, Fitting
  <2>7. w[e + 1] \in Nat
    BY <2>5
  <2>8. LineFits(w, N, width, e)
    BY <2>3, <2>4, <2>5, <2>6, <2>7, <1>4 DEF LineFits, PREFIX_WIDTH, INDICATOR_WIDTH
  <2> QED BY <2>1, <2>2, <2>3, <2>8
<1> QED BY <1>8, <1>9

\* The bar has room for what is drawn of it.
LEMMA BarInvFits == BarInv => BarFits
<1> SUFFICES ASSUME BarInv, bar.last >= bar.first
             PROVE  /\ bar.first = 0 /\ DrawnWidth <= bar.width
                    /\ bar.last < bar.count - 1 => DrawnWidth + Texts[bar.last + 1] > bar.width
  BY DEF BarFits
<1>1. PICK c \in Nat, n \in Nat, width \in Nat : bar = Drawn(c, n, width)
  BY DEF BarInv
<1>2. bar.count = c /\ bar.name = n /\ bar.width = width
  BY <1>1 DEF Drawn
<1>3. ~ (c <= 1 \/ width < MIN_TERMINAL_WIDTH)
  <2>1. ASSUME c <= 1 \/ width < MIN_TERMINAL_WIDTH PROVE FALSE
    <3>1. bar.first = 0 /\ bar.last = 0 - 1
      BY <1>1, <2>1 DEF Drawn
    <3> QED BY <3>1
  <2> QED BY <2>1
<1>4. PICK w : w = Widths(c, n)
  OBVIOUS
<1>5. bar.first = Viewport(w, 0, width)[1] /\ bar.last = Viewport(w, 0, width)[2]
  BY <1>1, <1>3, <1>4 DEF Drawn
<1>6. w \in [0 .. c - 1 -> Nat \ {0}] /\ w[0] <= 29
  <2>1. c > 0
    BY <1>3
  <2>2. w \in [0 .. c - 1 -> Nat \ {0}] /\ (c > 0 => w[0] <= 29)
    BY <1>4, WidthsAre, Zenon
  <2> QED BY <2>1, <2>2
<1>7. Texts = w
  BY <1>2, <1>4, WidthsAre DEF Texts
<1>8. bar.first = 0 /\ LineFits(w, c, width, bar.last)
  <2>1. c \in Nat \ {0} /\ width >= MIN_TERMINAL_WIDTH
    BY <1>3 DEF MIN_TERMINAL_WIDTH
  <2> QED BY <2>1, <1>5, <1>6, ViewportFits
<1> QED BY <1>2, <1>7, <1>8 DEF LineFits, DrawnWidth

\* The bar's line fits the terminal with the overflow arrow in it, the selected entry is on
\* it, and an entry is left out only if it would not fit, whatever the number of connections,
\* the lengths of the names and the width of the terminal.
THEOREM BarAlwaysFits == BarSpec => []BarFits
<1>1. BarSpec => []BarInv
  BY BarInitInvariant, RedrawKeeps, PTL DEF BarSpec
<1> QED BY <1>1, BarInvFits, PTL

-----------------------------------------------------------------------------
(* Together                                                                 *)

\* The Logs and the Compare tab are consistent, for any connections, engines and
\* capacities: every buffer within its capacity, and the flag and the live view about
\* the benchmark that runs, whatever is on its way when another is started.
THEOREM TabsStayConsistent == LogsSpec /\ CompareSpec => []TabsConsistent
<1>1. LogsInv => LogsTypeOK
  BY DEF LogsInv, LogsTyped, PageStands, LogsTypeOK, Dues
<1>2. LogsInv /\ CompareInv => TabsConsistent
  BY <1>1, CompareTabConsistent DEF TabsConsistent
<1> QED BY <1>2, LogsInvariance, CompareInvariance, PTL

\* What is on the screen beside the tabs' rows is so, for any texts, forms, heights and
\* toasts: the diff is that of the two texts, the form marks the field that Enter writes
\* to, a task gets the path that was shown, and the corner has the newest toasts.
THEOREM ScreenStaysFaithful == DiffSpec /\ FormSpec /\ ChromeSpec => []ScreenFaithful
<1>1. DiffInv /\ FormInv /\ ChromeInv => ScreenFaithful
  BY DiffIsFaithful, EditedIsShown, ChromeFaithful DEF ScreenFaithful
<1> QED BY <1>1, DiffInvariance, FormInvariance, ChromeInvariance, PTL
=============================================================================
