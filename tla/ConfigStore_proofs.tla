------------------------ MODULE ConfigStore_proofs ------------------------
(***************************************************************************)
(* Proofs about wg-quick files and config.toml.                            *)
(*                                                                         *)
(* WgQuickReader, for texts of any lines: what the parser holds after each *)
(* line is what the lines so far say, and a file that export_to_string     *)
(* writes is read part by part.                                            *)
(*                                                                         *)
(* ConfigStore, for every number of tasks and every set of files, drafts   *)
(* and faults: nobody locks the file, so every invariant about its         *)
(* contents is one about the tasks that are between their load and the end *)
(* of their write: what each of them has loaded is what the file held last.*)
(***************************************************************************)
EXTENDS ConfigStore, WgQuickReader, FiniteSetTheorems, SequenceTheorems, WellFoundedInduction,
        TLAPS

-----------------------------------------------------------------------------
(* Numbers                                                                  *)

LEMMA LeastOf ==
  ASSUME NEW S, S \subseteq Nat, S # {}
  PROVE  \E n \in S : \A m \in S : n <= m
<1>1. PICK n \in S : \A m \in S : <<m, n>> \notin OpToRel(<, Nat)
  BY NatLessThanWellFounded, WFMin
<1>2. ASSUME NEW m \in S  PROVE ~ (m < n)
  <2>1. m < n => <<m, n>> \in OpToRel(<, Nat) BY Zenon DEF OpToRel
  <2> QED BY <2>1, <1>1
<1>3. \A m \in S : n <= m BY <1>2
<1> QED BY <1>3

LEMMA InductionOnSets ==
  ASSUME NEW S, 0 \in S, \A n \in Nat : n \in S => n + 1 \in S
  PROVE  Nat \subseteq S
<1> SUFFICES ASSUME Nat \ S # {} PROVE FALSE
  OBVIOUS
<1>1. PICK n \in Nat \ S : \A m \in Nat \ S : n <= m
  BY LeastOf
<1>2. n # 0 /\ n - 1 \in Nat
  BY <1>1
<1>3. n - 1 \in S
  BY <1>1, <1>2
<1> QED BY <1>1, <1>2, <1>3

-----------------------------------------------------------------------------
(* The lines of a text                                                      *)

\* f is the function by which ReadLines is defined, for the first k lines.
IsReading(s, lines, f, k) ==
  f = [n \in 0 .. k |-> IF n = 0 THEN s ELSE ReadLine(f[n - 1], lines[n])]

ReadingAt(s, lines, f, n) == IF n = 0 THEN s ELSE ReadLine(f[n - 1], lines[n])

LEMMA ReadingStep ==
  ASSUME NEW s, NEW lines, NEW f, NEW k \in Nat, IsReading(s, lines, f, k), NEW n \in 0 .. k
  PROVE  f[n] = ReadingAt(s, lines, f, n)
<1>1. f = [m \in 0 .. k |-> ReadingAt(s, lines, f, m)]
  BY Zenon DEF IsReading, ReadingAt
<1>2. PICK h : h = [m \in 0 .. k |-> ReadingAt(s, lines, f, m)]
  OBVIOUS
<1>3. h[n] = ReadingAt(s, lines, f, n)
  BY <1>2
<1> QED BY <1>1, <1>2, <1>3

LEMMA ReadingExists ==
  ASSUME NEW s, NEW lines
  PROVE  \A k \in Nat : \E f : IsReading(s, lines, f, k)
<1> DEFINE K == {k \in Nat : \E f : IsReading(s, lines, f, k)}
<1>1. 0 \in K
  <2>1. IsReading(s, lines, [n \in 0 .. 0 |-> s], 0)
    BY DEF IsReading
  <2> QED BY <2>1
<1>2. ASSUME NEW k \in Nat, k \in K PROVE k + 1 \in K
  <2>1. PICK f : IsReading(s, lines, f, k)
    BY <1>2
  <2>2. PICK last : last = ReadLine(f[k], lines[k + 1])
    OBVIOUS
  <2>3. PICK h : h = [n \in 0 .. k + 1 |-> IF n = k + 1 THEN last ELSE f[n]]
    OBVIOUS
  <2>4. \A n \in 0 .. k : h[n] = f[n]
    BY <2>3
  <2>5. ASSUME NEW n \in 0 .. k + 1 PROVE h[n] = ReadingAt(s, lines, h, n)
    <3>1. CASE n = k + 1
      <4>1. n # 0 /\ n - 1 = k /\ h[n] = last /\ h[k] = f[k]
        BY <3>1, <2>3, <2>4
      <4> QED BY <4>1, <3>1, <2>2 DEF ReadingAt
    <3>2. CASE n \in 0 .. k
      <4>1. f[n] = ReadingAt(s, lines, f, n)
        BY <2>1, <3>2, ReadingStep
      <4>2. h[n] = f[n] /\ (n # 0 => h[n - 1] = f[n - 1])
        BY <2>4, <3>2
      <4> QED BY <4>1, <4>2, Zenon DEF ReadingAt
    <3> QED BY <3>1, <3>2
  <2>6. h = [n \in 0 .. k + 1 |-> h[n]]
    BY <2>3
  <2>7. IsReading(s, lines, h, k + 1)
    BY <2>5, <2>6, Zenon DEF IsReading, ReadingAt
  <2> QED BY <2>7
<1> HIDE DEF K
<1>3. Nat \subseteq K
  BY <1>1, <1>2, InductionOnSets
<1> QED BY <1>3 DEF K

LEMMA ReadLinesIs ==
  ASSUME NEW s, NEW lines, NEW k \in Nat, k = Len(lines)
  PROVE  \E f : IsReading(s, lines, f, k) /\ ReadLines(s, lines) = f[k]
<1> DEFINE c == CHOOSE f : IsReading(s, lines, f, k)
<1>1. IsReading(s, lines, c, k)
  <2>1. \E f : IsReading(s, lines, f, k)
    BY ReadingExists
  <2> QED BY <2>1
<1>2. ReadLines(s, lines) = c[k]
  BY DEF ReadLines, IsReading
<1> QED BY <1>1, <1>2

-----------------------------------------------------------------------------
(* Picked                                                                   *)

\* g is the function by which Picked is defined, for the first k elements.
IsPicking(s, I, g, k) ==
  g = [n \in 0 .. k |-> IF n = 0 THEN <<>>
                        ELSE IF n \in I THEN Append(g[n - 1], s[n]) ELSE g[n - 1]]

PickedAt(s, I, g, n) ==
  IF n = 0 THEN <<>> ELSE IF n \in I THEN Append(g[n - 1], s[n]) ELSE g[n - 1]

LEMMA PickingStep ==
  ASSUME NEW s, NEW I, NEW g, NEW k \in Nat, IsPicking(s, I, g, k), NEW n \in 0 .. k
  PROVE  g[n] = PickedAt(s, I, g, n)
<1>1. g = [m \in 0 .. k |-> PickedAt(s, I, g, m)]
  BY Zenon DEF IsPicking, PickedAt
<1>2. PICK f : f = [m \in 0 .. k |-> PickedAt(s, I, g, m)]
  OBVIOUS
<1>3. f[n] = PickedAt(s, I, g, n)
  BY <1>2
<1> QED BY <1>1, <1>2, <1>3

LEMMA PickingNext ==
  ASSUME NEW s, NEW I, NEW g, NEW k \in Nat, IsPicking(s, I, g, k), NEW n \in Nat, n + 1 <= k
  PROVE  g[n + 1] = IF n + 1 \in I THEN Append(g[n], s[n + 1]) ELSE g[n]
<1>1. n + 1 \in 0 .. k /\ n + 1 # 0 /\ (n + 1) - 1 = n
  OBVIOUS
<1>2. g[n + 1] = PickedAt(s, I, g, n + 1)
  BY <1>1, PickingStep
<1> QED BY <1>1, <1>2 DEF PickedAt

LEMMA PickingStarts ==
  ASSUME NEW s, NEW I, NEW g, NEW k \in Nat, IsPicking(s, I, g, k)
  PROVE  g[0] = <<>>
<1>1. g[0] = PickedAt(s, I, g, 0)
  BY PickingStep
<1> QED BY <1>1 DEF PickedAt

LEMMA PickingExists ==
  ASSUME NEW s, NEW I
  PROVE  \A k \in Nat : \E g : IsPicking(s, I, g, k)
<1> DEFINE K == {k \in Nat : \E g : IsPicking(s, I, g, k)}
<1>1. 0 \in K
  <2>1. IsPicking(s, I, [n \in 0 .. 0 |-> <<>>], 0)
    BY DEF IsPicking
  <2> QED BY <2>1
<1>2. ASSUME NEW k \in Nat, k \in K PROVE k + 1 \in K
  <2>1. PICK g : IsPicking(s, I, g, k)
    BY <1>2
  <2>2. PICK last : last = IF k + 1 \in I THEN Append(g[k], s[k + 1]) ELSE g[k]
    OBVIOUS
  <2>3. PICK h : h = [n \in 0 .. k + 1 |-> IF n = k + 1 THEN last ELSE g[n]]
    OBVIOUS
  <2>4. \A n \in 0 .. k : h[n] = g[n]
    BY <2>3
  <2>5. ASSUME NEW n \in 0 .. k + 1
        PROVE  h[n] = IF n = 0 THEN <<>>
                      ELSE IF n \in I THEN Append(h[n - 1], s[n]) ELSE h[n - 1]
    <3>1. CASE n = k + 1
      <4>1. h[n] = last /\ n # 0 /\ n - 1 = k /\ h[k] = g[k]
        BY <3>1, <2>3, <2>4
      <4> QED BY <4>1, <3>1, <2>2
    <3>2. CASE n \in 0 .. k
      <4>1. g[n] = IF n = 0 THEN <<>>
                   ELSE IF n \in I THEN Append(g[n - 1], s[n]) ELSE g[n - 1]
        BY <2>1, <3>2 DEF IsPicking
      <4>2. h[n] = g[n] /\ (n # 0 => h[n - 1] = g[n - 1])
        BY <2>4, <3>2
      <4> QED BY <4>1, <4>2
    <3> QED BY <3>1, <3>2
  <2>6. IsPicking(s, I, h, k + 1)
    BY <2>3, <2>5, Zenon DEF IsPicking
  <2> QED BY <2>6
<1> HIDE DEF K
<1>3. Nat \subseteq K
  BY <1>1, <1>2, InductionOnSets
<1> QED BY <1>3 DEF K

\* What is picked from the first elements does not depend on the others.
LEMMA PickingsAgree ==
  ASSUME NEW s, NEW t, NEW I, NEW J, NEW g, NEW h, NEW k \in Nat, NEW l \in Nat,
         IsPicking(s, I, g, k), IsPicking(t, J, h, l), k <= l,
         \A i \in 1 .. k : (i \in I <=> i \in J) /\ s[i] = t[i]
  PROVE  g[k] = h[k]
<1> DEFINE N == {n \in Nat : n <= k => g[n] = h[n]}
<1>1. 0 \in N
  BY PickingStarts
<1>2. ASSUME NEW n \in Nat, n \in N PROVE n + 1 \in N
  <2> SUFFICES ASSUME n + 1 <= k PROVE g[n + 1] = h[n + 1]
    OBVIOUS
  <2>1. g[n] = h[n] /\ n + 1 \in 1 .. k /\ n + 1 <= l
    BY <1>2
  <2>2. g[n + 1] = IF n + 1 \in I THEN Append(g[n], s[n + 1]) ELSE g[n]
    BY PickingNext
  <2>3. h[n + 1] = IF n + 1 \in J THEN Append(h[n], t[n + 1]) ELSE h[n]
    BY <2>1, PickingNext
  <2> QED BY <2>1, <2>2, <2>3
<1> HIDE DEF N
<1>3. Nat \subseteq N
  BY <1>1, <1>2, InductionOnSets
<1> QED BY <1>3 DEF N

LEMMA PickedIs ==
  ASSUME NEW E, NEW s \in Seq(E), NEW I
  PROVE  \E g : IsPicking(s, I, g, Len(s)) /\ Picked(s, I) = g[Len(s)]
<1> DEFINE c == CHOOSE g : IsPicking(s, I, g, Len(s))
<1>1. IsPicking(s, I, c, Len(s))
  <2>1. Len(s) \in Nat
    OBVIOUS
  <2>2. \E g : IsPicking(s, I, g, Len(s))
    BY <2>1, PickingExists
  <2> QED BY <2>2
<1>2. Picked(s, I) = c[Len(s)]
  BY DEF Picked, IsPicking
<1> QED BY <1>1, <1>2

LEMMA PickedAppend ==
  ASSUME NEW E, NEW s \in Seq(E), NEW e \in E, NEW I, NEW J,
         \A i \in 1 .. Len(s) : i \in I <=> i \in J
  PROVE  Picked(Append(s, e), J) =
           IF Len(s) + 1 \in J THEN Append(Picked(s, I), e) ELSE Picked(s, I)
<1>1. PICK t : t = Append(s, e)
  OBVIOUS
<1>2. /\ t \in Seq(E) /\ Len(t) = Len(s) + 1 /\ t[Len(s) + 1] = e
      /\ \A i \in 1 .. Len(s) : t[i] = s[i]
  BY <1>1
<1>3. PICK g : IsPicking(s, I, g, Len(s)) /\ Picked(s, I) = g[Len(s)]
  BY PickedIs
<1>4. PICK h : IsPicking(t, J, h, Len(t)) /\ Picked(t, J) = h[Len(t)]
  BY <1>2, PickedIs
<1>5. g[Len(s)] = h[Len(s)]
  <2>1. Len(s) \in Nat /\ Len(t) \in Nat /\ Len(s) <= Len(t) /\ Len(s) \in 0 .. Len(s)
    BY <1>2
  <2>2. \A i \in 1 .. Len(s) : (i \in I <=> i \in J) /\ s[i] = t[i]
    BY <1>2
  <2>3. IsPicking(s, I, g, Len(s)) /\ IsPicking(t, J, h, Len(t))
    BY <1>3, <1>4
  <2>4. g[Len(s)] = h[Len(s)]
    <3>1. PICK k \in Nat, l \in Nat : k = Len(s) /\ l = Len(t)
      BY <2>1
    <3>2. IsPicking(s, I, g, k) /\ IsPicking(t, J, h, l) /\ k <= l
      BY <2>1, <2>3, <3>1
    <3>3. \A i \in 1 .. k : (i \in I <=> i \in J) /\ s[i] = t[i]
      BY <2>2, <3>1
    <3>4. g[k] = h[k]
      BY <3>2, <3>3, PickingsAgree
    <3> QED BY <3>1, <3>4
  <2> QED BY <2>1, <2>4
<1>6. h[Len(s) + 1] = IF Len(s) + 1 \in J THEN Append(h[Len(s)], t[Len(s) + 1]) ELSE h[Len(s)]
  <2>1. Len(s) \in Nat /\ Len(t) \in Nat /\ Len(s) + 1 <= Len(t)
    BY <1>2
  <2> QED BY <1>4, <2>1, PickingNext
<1> QED BY <1>1, <1>2, <1>3, <1>4, <1>5, <1>6

LEMMA PickedType ==
  ASSUME NEW E, NEW s \in Seq(E), NEW I
  PROVE  Picked(s, I) \in Seq(E)
<1>1. PICK g : IsPicking(s, I, g, Len(s)) /\ Picked(s, I) = g[Len(s)]
  BY PickedIs
<1> DEFINE N == {n \in Nat : n <= Len(s) => g[n] \in Seq(E)}
<1>2. 0 \in N
  <2>1. Len(s) \in Nat
    OBVIOUS
  <2>2. g[0] = <<>>
    BY <1>1, <2>1, PickingStarts
  <2>3. <<>> \in Seq(E)
    OBVIOUS
  <2> QED BY <2>2, <2>3
<1>3. ASSUME NEW n \in Nat, n \in N PROVE n + 1 \in N
  <2> SUFFICES ASSUME n + 1 <= Len(s) PROVE g[n + 1] \in Seq(E)
    OBVIOUS
  <2>1. g[n] \in Seq(E) /\ n + 1 \in 1 .. Len(s) /\ Len(s) \in Nat
    BY <1>3
  <2>2. g[n + 1] = IF n + 1 \in I THEN Append(g[n], s[n + 1]) ELSE g[n]
    BY <1>1, <2>1, PickingNext
  <2>3. s[n + 1] \in E
    BY <2>1
  <2> QED BY <2>1, <2>2, <2>3
<1> HIDE DEF N
<1>4. Nat \subseteq N
  BY <1>2, <1>3, InductionOnSets
<1>5. Len(s) \in Nat
  OBVIOUS
<1> QED BY <1>1, <1>4, <1>5 DEF N

-----------------------------------------------------------------------------
(* Sequences                                                                *)

LEMMA ElementIs == ASSUME NEW S, NEW s \in Seq(S), NEW i \in 1 .. Len(s) PROVE s[i] \in S
OBVIOUS

LEMMA FunctionIsSequence ==
  ASSUME NEW S, NEW n \in Nat, NEW f \in [1 .. n -> S] PROVE f \in Seq(S) /\ Len(f) = n
OBVIOUS

\* What is picked is among what may be picked.
LEMMA PickedWithin ==
  ASSUME NEW E, NEW s \in Seq(E), NEW I, NEW F, \A i \in 1 .. Len(s) : i \in I => s[i] \in F
  PROVE  Picked(s, I) \in Seq(F)
<1>1. PICK g : IsPicking(s, I, g, Len(s)) /\ Picked(s, I) = g[Len(s)]
  BY PickedIs
<1> DEFINE N == {n \in Nat : n <= Len(s) => g[n] \in Seq(F)}
<1>2. 0 \in N
  <2>1. Len(s) \in Nat
    OBVIOUS
  <2>2. g[0] = <<>>
    BY <1>1, <2>1, PickingStarts
  <2>3. <<>> \in Seq(F)
    OBVIOUS
  <2> QED BY <2>2, <2>3
<1>3. ASSUME NEW n \in Nat, n \in N PROVE n + 1 \in N
  <2> SUFFICES ASSUME n + 1 <= Len(s) PROVE g[n + 1] \in Seq(F)
    OBVIOUS
  <2>1. g[n] \in Seq(F) /\ n + 1 \in 1 .. Len(s) /\ Len(s) \in Nat
    BY <1>3
  <2>2. g[n + 1] = IF n + 1 \in I THEN Append(g[n], s[n + 1]) ELSE g[n]
    BY <1>1, <2>1, PickingNext
  <2>3. n + 1 \in I => s[n + 1] \in F
    BY <2>1
  <2> QED BY <2>1, <2>2, <2>3
<1> HIDE DEF N
<1>4. Nat \subseteq N
  BY <1>2, <1>3, InductionOnSets
<1>5. Len(s) \in Nat
  OBVIOUS
<1> QED BY <1>1, <1>4, <1>5 DEF N

LEMMA ConcatNone ==
  ASSUME NEW E, NEW s \in Seq(E) PROVE s \o <<>> = s /\ <<>> \o s = s
OBVIOUS

LEMMA ConcatAppend ==
  ASSUME NEW E, NEW a \in Seq(E), NEW b \in Seq(E), NEW e \in E
  PROVE  a \o Append(b, e) = Append(a \o b, e)
OBVIOUS

LEMMA EmptyIs == ASSUME NEW S, NEW s \in Seq(S), Len(s) = 0 PROVE s = <<>>
OBVIOUS

\* Picking goes through two sequences one after the other.
LEMMA PickedConcat ==
  ASSUME NEW E, NEW s \in Seq(E), NEW t \in Seq(E), NEW I, NEW J, NEW K,
         \A i \in 1 .. Len(s) : i \in I <=> i \in K,
         \A i \in 1 .. Len(t) : i \in J <=> Len(s) + i \in K
  PROVE  Picked(s \o t, K) = Picked(s, I) \o Picked(t, J)
<1>1. PICK m \in Nat, l \in Nat : m = Len(s) /\ l = Len(t)
  OBVIOUS
<1>2. PICK u : u = s \o t /\ u \in Seq(E)
  <2>1. s \o t \in Seq(E)
    OBVIOUS
  <2> QED BY <2>1
<1>3. /\ Len(u) = m + l /\ \A i \in 1 .. m : u[i] = s[i]
      /\ \A i \in 1 .. l : u[m + i] = t[i]
  BY <1>1, <1>2
<1>4. PICK g : IsPicking(u, K, g, m + l) /\ Picked(u, K) = g[m + l]
  <2>1. PICK g : IsPicking(u, K, g, Len(u)) /\ Picked(u, K) = g[Len(u)]
    BY <1>2, PickedIs
  <2> QED BY <2>1, <1>3
<1>5. PICK a : IsPicking(s, I, a, m) /\ Picked(s, I) = a[m]
  BY <1>1, PickedIs
<1>6. PICK h : IsPicking(t, J, h, l) /\ Picked(t, J) = h[l]
  BY <1>1, PickedIs
<1>7. Picked(s, I) \in Seq(E)
  BY PickedType
<1>8. PICK w \in Nat : w = m + l
  OBVIOUS
<1>9. g[m] = a[m]
  <2>1. IsPicking(u, K, g, w) /\ m <= w
    BY <1>4, <1>8
  <2>2. \A i \in 1 .. m : (i \in I <=> i \in K) /\ s[i] = u[i]
    BY <1>1, <1>3
  <2>3. a[m] = g[m]
    BY <1>5, <2>1, <2>2, PickingsAgree
  <2> QED BY <2>3
<1>10. PICK p, c : p = Picked(s, I) /\ c = [n \in 0 .. l |-> g[m + n]]
  OBVIOUS
<1>11. p \in Seq(E) /\ p = a[m] /\ p = g[m]
  BY <1>5, <1>7, <1>9, <1>10
<1> DEFINE N == {n \in Nat : n <= l => c[n] = p \o h[n] /\ h[n] \in Seq(E)}
<1>12. 0 \in N
  <2>1. h[0] = <<>>
    BY <1>6, PickingStarts
  <2>2. p \o <<>> = p
    BY <1>11, ConcatNone
  <2>3. c[0] = p
    BY <1>10, <1>11
  <2>4. <<>> \in Seq(E)
    OBVIOUS
  <2> QED BY <2>1, <2>2, <2>3, <2>4
<1>13. ASSUME NEW n \in Nat, n \in N PROVE n + 1 \in N
  <2> SUFFICES ASSUME n + 1 <= l
               PROVE  c[n + 1] = p \o h[n + 1] /\ h[n + 1] \in Seq(E)
    OBVIOUS
  <2>1. c[n] = p \o h[n] /\ h[n] \in Seq(E)
    BY <1>13
  <2>2. PICK q \in Nat : q = m + n
    OBVIOUS
  <2>3. q + 1 <= w /\ q + 1 = m + (n + 1) /\ n + 1 \in 1 .. l
    BY <2>2, <1>8
  <2>4. IsPicking(u, K, g, w)
    BY <1>4, <1>8
  <2>5. g[q + 1] = IF q + 1 \in K THEN Append(g[q], u[q + 1]) ELSE g[q]
    BY <2>3, <2>4, PickingNext
  <2>6. h[n + 1] = IF n + 1 \in J THEN Append(h[n], t[n + 1]) ELSE h[n]
    BY <1>6, PickingNext
  <2>7. u[q + 1] = t[n + 1] /\ t[n + 1] \in E /\ (n + 1 \in J <=> q + 1 \in K)
    BY <2>2, <2>3, <1>1, <1>3
  <2>8. c[n] = g[q] /\ c[n + 1] = g[q + 1]
    BY <2>2, <2>3, <1>10
  <2>9. CASE n + 1 \in J
    <3>1. PICK b, e : b = h[n] /\ e = t[n + 1]
      OBVIOUS
    <3>2. p \in Seq(E) /\ b \in Seq(E) /\ e \in E
      BY <3>1, <2>1, <2>7, <1>11
    <3>3. p \o Append(b, e) = Append(p \o b, e)
      BY <3>2
    <3>4. Append(b, e) \in Seq(E)
      BY <3>2
    <3>5. h[n + 1] = Append(b, e)
      BY <3>1, <2>6, <2>9
    <3>6. c[n + 1] = Append(p \o b, e)
      BY <3>1, <2>1, <2>5, <2>7, <2>8, <2>9
    <3> QED BY <3>3, <3>4, <3>5, <3>6
  <2>10. CASE n + 1 \notin J
    <3>1. h[n + 1] = h[n] /\ c[n + 1] = c[n]
      BY <2>10, <2>5, <2>6, <2>7, <2>8
    <3> QED BY <3>1, <2>1
  <2> QED BY <2>9, <2>10
<1> HIDE DEF N
<1>14. l \in N
  BY <1>12, <1>13, InductionOnSets
<1>15. c[l] = p \o h[l]
  BY <1>14 DEF N
<1>16. c[l] = g[m + l]
  BY <1>10
<1> QED BY <1>2, <1>4, <1>6, <1>10, <1>15, <1>16

-----------------------------------------------------------------------------
(* FlattenSeq                                                               *)

\* f is the function by which FlattenSeq is defined, for the first k sequences.
IsFlattening(s, f, k) == f = [i \in 1 .. k |-> IF i = 1 THEN s[i] ELSE f[i - 1] \o s[i]]

FlatteningAt(s, f, i) == IF i = 1 THEN s[i] ELSE f[i - 1] \o s[i]

LEMMA FlatteningStep ==
  ASSUME NEW s, NEW f, NEW k \in Nat, IsFlattening(s, f, k), NEW i \in 1 .. k
  PROVE  f[i] = FlatteningAt(s, f, i)
<1>1. f = [n \in 1 .. k |-> FlatteningAt(s, f, n)]
  BY Zenon DEF IsFlattening, FlatteningAt
<1>2. PICK h : h = [n \in 1 .. k |-> FlatteningAt(s, f, n)]
  OBVIOUS
<1>3. h[i] = FlatteningAt(s, f, i)
  BY <1>2
<1> QED BY <1>1, <1>2, <1>3

LEMMA FlatteningExists ==
  ASSUME NEW s
  PROVE  \A k \in Nat : \E f : IsFlattening(s, f, k)
<1> DEFINE K == {k \in Nat : \E f : IsFlattening(s, f, k)}
<1>1. 0 \in K
  <2>1. IsFlattening(s, [i \in 1 .. 0 |-> <<>>], 0)
    <3>1. 1 .. 0 = {}
      OBVIOUS
    <3> QED BY <3>1 DEF IsFlattening
  <2> QED BY <2>1
<1>2. ASSUME NEW k \in Nat, k \in K PROVE k + 1 \in K
  <2>1. PICK f : IsFlattening(s, f, k)
    BY <1>2
  <2>2. PICK last : last = FlatteningAt(s, f, k + 1)
    OBVIOUS
  <2>3. PICK h : h = [i \in 1 .. k + 1 |-> IF i = k + 1 THEN last ELSE f[i]]
    OBVIOUS
  <2>4. \A i \in 1 .. k : h[i] = f[i]
    BY <2>3
  <2>5. ASSUME NEW i \in 1 .. k + 1 PROVE h[i] = FlatteningAt(s, h, i)
    <3>1. i # 1 => i - 1 \in 1 .. k
      OBVIOUS
    <3>2. i # 1 => h[i - 1] = f[i - 1]
      BY <3>1, <2>4
    <3>3. FlatteningAt(s, h, i) = FlatteningAt(s, f, i)
      BY <3>2 DEF FlatteningAt
    <3>4. CASE i = k + 1
      BY <3>3, <3>4, <2>2, <2>3
    <3>5. CASE i \in 1 .. k
      BY <3>3, <3>5, <2>1, <2>4, FlatteningStep
    <3> QED BY <3>4, <3>5
  <2>6. h = [i \in 1 .. k + 1 |-> h[i]]
    BY <2>3
  <2>7. IsFlattening(s, h, k + 1)
    BY <2>5, <2>6, Zenon DEF IsFlattening, FlatteningAt
  <2> QED BY <2>7
<1> HIDE DEF K
<1>3. Nat \subseteq K
  BY <1>1, <1>2, InductionOnSets
<1> QED BY <1>3 DEF K

LEMMA FlattenedIs ==
  ASSUME NEW s, NEW k \in Nat, k = Len(s), k # 0
  PROVE  \E f : IsFlattening(s, f, k) /\ FlattenSeq(s) = f[k]
<1> DEFINE c == CHOOSE f : IsFlattening(s, f, k)
<1>1. IsFlattening(s, c, k)
  <2>1. \E f : IsFlattening(s, f, k)
    BY FlatteningExists
  <2> QED BY <2>1
<1>2. FlattenSeq(s) = c[k]
  BY DEF FlattenSeq, IsFlattening
<1> QED BY <1>1, <1>2

LEMMA FlattenNone == FlattenSeq(<<>>) = <<>>
<1>1. Len(<<>>) = 0
  OBVIOUS
<1> QED BY <1>1 DEF FlattenSeq

LEMMA FlatteningsAgree ==
  ASSUME NEW s, NEW t, NEW f, NEW h, NEW k \in Nat, NEW l \in Nat, k <= l,
         IsFlattening(s, f, k), IsFlattening(t, h, l), \A i \in 1 .. k : s[i] = t[i]
  PROVE  \A i \in 1 .. k : f[i] = h[i]
<1> DEFINE N == {n \in Nat : n + 1 <= k => f[n + 1] = h[n + 1]}
<1>1. 0 \in N
  <2> SUFFICES ASSUME 1 <= k PROVE f[1] = h[1]
    OBVIOUS
  <2>1. f[1] = FlatteningAt(s, f, 1) /\ h[1] = FlatteningAt(t, h, 1) /\ s[1] = t[1]
    BY FlatteningStep
  <2> QED BY <2>1 DEF FlatteningAt
<1>2. ASSUME NEW n \in Nat, n \in N PROVE n + 1 \in N
  <2> SUFFICES ASSUME (n + 1) + 1 <= k PROVE f[(n + 1) + 1] = h[(n + 1) + 1]
    OBVIOUS
  <2>1. PICK m \in Nat : m = (n + 1) + 1
    OBVIOUS
  <2>2. m \in 1 .. k /\ m \in 1 .. l /\ m # 1 /\ m - 1 = n + 1
    BY <2>1
  <2>3. f[m] = FlatteningAt(s, f, m) /\ s[m] = t[m]
    BY <2>2, FlatteningStep
  <2>4. h[m] = FlatteningAt(t, h, m)
    BY <2>2, FlatteningStep
  <2>5. f[m - 1] = h[m - 1]
    BY <1>2, <2>2
  <2> QED BY <2>1, <2>2, <2>3, <2>4, <2>5 DEF FlatteningAt
<1> HIDE DEF N
<1>3. Nat \subseteq N
  BY <1>1, <1>2, InductionOnSets
<1>4. ASSUME NEW i \in 1 .. k PROVE f[i] = h[i]
  <2>1. i - 1 \in N /\ (i - 1) + 1 = i
    BY <1>3
  <2> QED BY <2>1 DEF N
<1> QED BY <1>4

LEMMA FlattenAppend ==
  ASSUME NEW E, NEW s \in Seq(Seq(E)), NEW v \in Seq(E)
  PROVE  FlattenSeq(Append(s, v)) = FlattenSeq(s) \o v
<1>1. PICK k \in Nat : k = Len(s)
  OBVIOUS
<1>2. PICK t : t = Append(s, v)
  OBVIOUS
<1>3. Len(t) = k + 1 /\ t[k + 1] = v /\ \A i \in 1 .. k : t[i] = s[i]
  BY <1>1, <1>2
<1>4. PICK l \in Nat : l = k + 1
  OBVIOUS
<1>5. PICK h : IsFlattening(t, h, l) /\ FlattenSeq(t) = h[l]
  BY <1>3, <1>4, FlattenedIs
<1>6. h[l] = FlatteningAt(t, h, l)
  <2>1. l \in 1 .. l
    BY <1>4
  <2> QED BY <1>5, <2>1, FlatteningStep
<1>7. CASE k = 0
  <2>1. s = <<>>
    BY <1>1, <1>7, EmptyIs
  <2>2. h[l] = v
    BY <1>3, <1>4, <1>6, <1>7 DEF FlatteningAt
  <2>3. <<>> \o v = v
    BY ConcatNone
  <2> QED BY <2>1, <2>2, <2>3, <1>2, <1>5, FlattenNone
<1>8. CASE k # 0
  <2>1. PICK f : IsFlattening(s, f, k) /\ FlattenSeq(s) = f[k]
    BY <1>1, <1>8, FlattenedIs
  <2>2. \A i \in 1 .. k : f[i] = h[i]
    <3>1. \A i \in 1 .. k : s[i] = t[i]
      BY <1>3
    <3> QED BY <2>1, <3>1, <1>4, <1>5, FlatteningsAgree
  <2>3. l # 1 /\ l - 1 = k /\ f[k] = h[k]
    BY <2>2, <1>4, <1>8
  <2>4. h[l] = h[k] \o v
    BY <2>3, <1>3, <1>4, <1>6 DEF FlatteningAt
  <2> QED BY <2>1, <2>3, <2>4, <1>2, <1>5
<1> QED BY <1>7, <1>8

LEMMA FlattenType ==
  ASSUME NEW E, NEW s \in Seq(Seq(E))
  PROVE  FlattenSeq(s) \in Seq(E)
<1>1. PICK k \in Nat : k = Len(s)
  OBVIOUS
<1>2. CASE k = 0
  <2>1. s = <<>>
    BY <1>1, <1>2, EmptyIs
  <2>2. <<>> \in Seq(E)
    OBVIOUS
  <2> QED BY <2>1, <2>2, FlattenNone
<1>3. CASE k # 0
  <2>1. PICK f : IsFlattening(s, f, k) /\ FlattenSeq(s) = f[k]
    BY <1>1, <1>3, FlattenedIs
  <2> DEFINE N == {n \in Nat : n + 1 <= k => f[n + 1] \in Seq(E)}
  <2>2. 0 \in N
    <3>1. 1 \in 1 .. k /\ s[1] \in Seq(E)
      BY <1>1, <1>3
    <3>2. f[1] = FlatteningAt(s, f, 1)
      BY <2>1, <3>1, FlatteningStep
    <3> QED BY <3>1, <3>2 DEF FlatteningAt
  <2>3. ASSUME NEW n \in Nat, n \in N PROVE n + 1 \in N
    <3> SUFFICES ASSUME (n + 1) + 1 <= k PROVE f[(n + 1) + 1] \in Seq(E)
      OBVIOUS
    <3>1. PICK m \in Nat : m = (n + 1) + 1
      OBVIOUS
    <3>2. m \in 1 .. k /\ m # 1 /\ m - 1 = n + 1 /\ s[m] \in Seq(E)
      BY <3>1, <1>1
    <3>3. f[m] = FlatteningAt(s, f, m)
      BY <2>1, <3>2, FlatteningStep
    <3>4. f[m - 1] \in Seq(E)
      BY <2>3, <3>2
    <3>5. f[m] = f[m - 1] \o s[m]
      BY <3>2, <3>3 DEF FlatteningAt
    <3>6. f[m] \in Seq(E)
      BY <3>2, <3>4, <3>5
    <3> QED BY <3>1, <3>6
  <2> HIDE DEF N
  <2>4. Nat \subseteq N
    BY <2>2, <2>3, InductionOnSets
  <2>5. k - 1 \in N /\ (k - 1) + 1 = k
    BY <2>4, <1>3
  <2> QED BY <2>1, <2>5 DEF N
<1> QED BY <1>2, <1>3

-----------------------------------------------------------------------------
(* Sections                                                                 *)

Heads(lines, i) == {j \in 1 .. i - 1 : lines[j].is \in {"interface", "peer"}}
PeerLines(lines) == {i \in DOMAIN lines : lines[i].is = "peer"}

LEMMA SectionSame ==
  ASSUME NEW lines, NEW t, NEW i, NEW k, Heads(lines, i) = Heads(t, k),
         \A j \in Heads(lines, i) : lines[j] = t[j]
  PROVE  SectionOf(lines, i) = SectionOf(t, k)
<1>1. PICK H : H = Heads(lines, i) /\ H = Heads(t, k)
  OBVIOUS
<1>2. PICK last : last = {j \in H : \A m \in H : m <= j}
  OBVIOUS
<1>3. (\E j \in last : lines[j].is = "interface") <=> (\E j \in last : t[j].is = "interface")
  BY <1>1, <1>2
<1>4. {j \in H : lines[j].is = "peer"} = {j \in H : t[j].is = "peer"}
  BY <1>1
<1>5. SectionOf(lines, i) =
        IF last = {} THEN -1
        ELSE IF \E j \in last : lines[j].is = "interface" THEN 0
        ELSE Cardinality({j \in H : lines[j].is = "peer"})
  BY <1>1, <1>2 DEF SectionOf, Heads
<1>6. SectionOf(t, k) =
        IF last = {} THEN -1
        ELSE IF \E j \in last : t[j].is = "interface" THEN 0
        ELSE Cardinality({j \in H : t[j].is = "peer"})
  BY <1>1, <1>2 DEF SectionOf, Heads
<1>7. PICK A : A = Cardinality({j \in H : lines[j].is = "peer"})
  OBVIOUS
<1>8. A = Cardinality({j \in H : t[j].is = "peer"})
  BY <1>4, <1>7, Zenon
<1> QED BY <1>3, <1>5, <1>6, <1>7, <1>8

LEMMA PeerLinesFinite ==
  ASSUME NEW lines \in Seq(TextLine)
  PROVE  IsFiniteSet(PeerLines(lines)) /\ Cardinality(PeerLines(lines)) \in Nat
<1>1. IsFiniteSet(1 .. Len(lines))
  <2>1. 1 \in Int /\ Len(lines) \in Int
    OBVIOUS
  <2> QED BY <2>1, FS_Interval
<1>2. PeerLines(lines) \subseteq 1 .. Len(lines)
  BY DEF PeerLines
<1>3. IsFiniteSet(PeerLines(lines))
  BY <1>1, <1>2, FS_Subset
<1> QED BY <1>3, FS_CardinalityType

\* A section has the number of a [Peer] that there is.
LEMMA SectionBound ==
  ASSUME NEW lines \in Seq(TextLine), NEW i \in 1 .. Len(lines) + 1
  PROVE  SectionOf(lines, i) \in Int /\ SectionOf(lines, i) <= Cardinality(PeerLines(lines))
<1>1. PICK H : H = Heads(lines, i)
  OBVIOUS
<1>2. PICK last : last = {j \in H : \A m \in H : m <= j}
  OBVIOUS
<1>3. PICK P : P = {j \in H : lines[j].is = "peer"}
  OBVIOUS
<1>4. SectionOf(lines, i) =
        IF last = {} THEN -1
        ELSE IF \E j \in last : lines[j].is = "interface" THEN 0
        ELSE Cardinality(P)
  BY <1>1, <1>2, <1>3 DEF SectionOf, Heads
<1>5. P \subseteq PeerLines(lines)
  <2>1. \A j \in 1 .. i - 1 : j \in DOMAIN lines
    OBVIOUS
  <2> QED BY <2>1, <1>1, <1>3 DEF Heads, PeerLines
<1>6. Cardinality(P) \in Nat /\ Cardinality(P) <= Cardinality(PeerLines(lines))
  BY <1>5, PeerLinesFinite, FS_Subset, FS_CardinalityType
<1> QED BY <1>4, <1>6, PeerLinesFinite

LEMMA SectionStays ==
  ASSUME NEW lines \in Seq(TextLine), NEW l \in TextLine, NEW i \in 1 .. Len(lines) + 1
  PROVE  SectionOf(Append(lines, l), i) = SectionOf(lines, i)
<1>1. PICK t : t = Append(lines, l)
  OBVIOUS
<1>2. \A j \in 1 .. i - 1 : lines[j] = t[j]
  BY <1>1
<1>3. PICK k, H : k = i /\ H = Heads(t, k)
  OBVIOUS
<1>4. H = Heads(lines, i) /\ \A j \in H : lines[j] = t[j]
  BY <1>2, <1>3 DEF Heads
<1>5. SectionOf(lines, i) = SectionOf(t, k)
  <2>1. Heads(lines, i) = Heads(t, k)
    BY <1>3, <1>4
  <2>2. \A j \in Heads(lines, i) : lines[j] = t[j]
    BY <1>4
  <2> QED BY <2>1, <2>2, SectionSame
<1> QED BY <1>1, <1>3, <1>5

LEMMA SectionNext ==
  ASSUME NEW lines \in Seq(TextLine), NEW l \in TextLine
  PROVE  SectionOf(Append(lines, l), Len(lines) + 2) =
           IF l.is = "interface" THEN 0
           ELSE IF l.is = "peer" THEN Cardinality(PeerLines(Append(lines, l)))
           ELSE SectionOf(lines, Len(lines) + 1)
<1>1. PICK t : t = Append(lines, l)
  OBVIOUS
<1>2. PICK n \in Nat : n = Len(lines)
  OBVIOUS
<1>3. /\ \A j \in 1 .. n : lines[j] = t[j]
      /\ t[n + 1] = l /\ DOMAIN t = 1 .. n + 1 /\ (n + 2) - 1 = n + 1 /\ (n + 1) - 1 = n
  BY <1>1, <1>2
<1>4. PICK H : H = Heads(t, n + 2)
  OBVIOUS
<1>5. H = {j \in 1 .. n + 1 : t[j].is \in {"interface", "peer"}}
  BY <1>3, <1>4 DEF Heads
<1>6. CASE l.is \notin {"interface", "peer"}
  <2>1. \A j \in H : j \in 1 .. n
    BY <1>3, <1>5, <1>6
  <2>2. \A j \in 1 .. n : j \in 1 .. n + 1
    OBVIOUS
  <2>3. H = {j \in 1 .. n : lines[j].is \in {"interface", "peer"}}
    BY <2>1, <2>2, <1>3, <1>5
  <2>4. H = Heads(lines, n + 1)
    BY <2>3, <1>3 DEF Heads
  <2>5. \A j \in H : lines[j] = t[j]
    BY <2>1, <1>3
  <2>6. SectionOf(lines, n + 1) = SectionOf(t, n + 2)
    BY <2>4, <2>5, <1>4, SectionSame
  <2> QED BY <2>6, <1>1, <1>2, <1>6
<1>7. CASE l.is \in {"interface", "peer"}
  <2>1. PICK last : last = {j \in H : \A m \in H : m <= j}
    OBVIOUS
  <2>2. n + 1 \in H /\ \A m \in H : m <= n + 1 /\ m \in Int
    BY <1>3, <1>5, <1>7
  <2>3. last = {n + 1}
    BY <2>1, <2>2
  <2>4. SectionOf(t, n + 2) =
          IF last = {} THEN -1
          ELSE IF \E j \in last : t[j].is = "interface" THEN 0
          ELSE Cardinality({j \in H : t[j].is = "peer"})
    BY <2>1, <1>4 DEF SectionOf, Heads
  <2>5. (\E j \in last : t[j].is = "interface") <=> l.is = "interface"
    BY <2>3, <1>3
  <2>6. {j \in H : t[j].is = "peer"} = PeerLines(t)
    BY <1>3, <1>5 DEF PeerLines
  <2>7. "interface" # "peer"
    OBVIOUS
  <2> QED BY <2>3, <2>4, <2>5, <2>6, <2>7, <1>1, <1>2, <1>7
<1> QED BY <1>6, <1>7

LEMMA PeerLinesNext ==
  ASSUME NEW lines \in Seq(TextLine), NEW l \in TextLine
  PROVE  Cardinality(PeerLines(Append(lines, l))) =
           IF l.is = "peer" THEN Cardinality(PeerLines(lines)) + 1 ELSE Cardinality(PeerLines(lines))
<1>1. PICK t : t = Append(lines, l)
  OBVIOUS
<1>2. PICK n \in Nat : n = Len(lines)
  OBVIOUS
<1>3. /\ \A j \in 1 .. n : lines[j] = t[j]
      /\ t[n + 1] = l /\ DOMAIN t = 1 .. n + 1 /\ DOMAIN lines = 1 .. n
  BY <1>1, <1>2
<1>4. n + 1 \notin PeerLines(lines)
  BY <1>3 DEF PeerLines
<1>5. CASE l.is = "peer"
  <2>1. PeerLines(t) = PeerLines(lines) \cup {n + 1}
    BY <1>3, <1>5 DEF PeerLines
  <2> QED BY <2>1, <1>1, <1>4, <1>5, PeerLinesFinite, FS_AddElement
<1>6. CASE l.is # "peer"
  <2>1. PeerLines(t) = PeerLines(lines)
    BY <1>3, <1>6 DEF PeerLines
  <2> QED BY <2>1, <1>1, <1>6
<1> QED BY <1>5, <1>6

-----------------------------------------------------------------------------
(* What the lines give a key                                                *)

KeyLine == [is : {"line"}, key : STRING, value : Seq(STRING)]

\* The positions that Given picks.
KeyPlaces(lines, section, key) ==
  {i \in DOMAIN lines :
     lines[i].is = "line" /\ lines[i].key = key /\ SectionOf(lines, i) = section}

LEMMA HeadersAre ==
  /\ InterfaceHeader.is = "interface" /\ PeerHeader.is = "peer" /\ Comment.is = "comment"
BY DEF InterfaceHeader, PeerHeader, Comment

LEMMA KeyLineIs == ASSUME NEW l \in TextLine, l.is = "line" PROVE l \in KeyLine
BY HeadersAre DEF TextLine, KeyLine

LEMMA KeyLinesPicked ==
  ASSUME NEW lines \in Seq(TextLine), NEW section, NEW key
  PROVE  Picked(lines, KeyPlaces(lines, section, key)) \in Seq(KeyLine)
<1>1. \A i \in 1 .. Len(lines) : i \in KeyPlaces(lines, section, key) => lines[i] \in KeyLine
  BY KeyLineIs DEF KeyPlaces
<1> QED BY <1>1, PickedWithin

LEMMA ValuesOf ==
  ASSUME NEW of \in Seq(KeyLine)
  PROVE  /\ [n \in DOMAIN of |-> of[n].value] \in Seq(Seq(STRING))
         /\ Len([n \in DOMAIN of |-> of[n].value]) = Len(of)
<1>1. \A n \in DOMAIN of : of[n].value \in Seq(STRING)
  <2> SUFFICES ASSUME NEW n \in DOMAIN of PROVE of[n].value \in Seq(STRING)
    OBVIOUS
  <2>1. of[n] \in KeyLine
    OBVIOUS
  <2> QED BY <2>1 DEF KeyLine
<1>2. PICK V : V = Seq(STRING)
  OBVIOUS
<1>3. PICK k \in Nat : k = Len(of) /\ DOMAIN of = 1 .. k
  OBVIOUS
<1>4. [n \in DOMAIN of |-> of[n].value] \in [1 .. k -> V]
  BY <1>1, <1>2, <1>3
<1> QED BY <1>2, <1>3, <1>4, FunctionIsSequence

LEMMA GivenType ==
  ASSUME NEW lines \in Seq(TextLine), NEW section, NEW key
  PROVE  Given(lines, section, key) \in Seq(Seq(STRING))
<1>1. PICK of : of = Picked(lines, KeyPlaces(lines, section, key))
  OBVIOUS
<1>2. of \in Seq(KeyLine)
  BY <1>1, KeyLinesPicked
<1>3. Given(lines, section, key) = [n \in DOMAIN of |-> of[n].value]
  BY <1>1, Zenon DEF Given, KeyPlaces
<1> QED BY <1>2, <1>3, ValuesOf

LEMMA GivenNext ==
  ASSUME NEW lines \in Seq(TextLine), NEW l \in TextLine, NEW section, NEW key
  PROVE  Given(Append(lines, l), section, key) =
           IF l.is = "line" /\ l.key = key /\ SectionOf(lines, Len(lines) + 1) = section
           THEN Append(Given(lines, section, key), l.value)
           ELSE Given(lines, section, key)
<1>1. PICK t : t = Append(lines, l)
  OBVIOUS
<1>2. PICK n \in Nat : n = Len(lines)
  OBVIOUS
<1>3. /\ \A j \in 1 .. n : lines[j] = t[j]
      /\ t[n + 1] = l /\ DOMAIN t = 1 .. n + 1 /\ DOMAIN lines = 1 .. n
  BY <1>1, <1>2
<1>4. PICK I, J : I = KeyPlaces(lines, section, key) /\ J = KeyPlaces(t, section, key)
  OBVIOUS
<1>5. PICK of, og : of = Picked(lines, I) /\ og = Picked(t, J)
  OBVIOUS
<1>6. of \in Seq(KeyLine)
  BY <1>4, <1>5, KeyLinesPicked
<1>7. Given(lines, section, key) = [m \in DOMAIN of |-> of[m].value]
  BY <1>4, <1>5, Zenon DEF Given, KeyPlaces
<1>8. Given(t, section, key) = [m \in DOMAIN og |-> og[m].value]
  BY <1>4, <1>5, Zenon DEF Given, KeyPlaces
<1>9. \A j \in 1 .. n + 1 : SectionOf(t, j) = SectionOf(lines, j)
  BY <1>1, <1>2, SectionStays
<1>10. \A j \in 1 .. n : j \in I <=> j \in J
  <2>1. \A j \in 1 .. n : j \in 1 .. n + 1
    OBVIOUS
  <2> QED BY <2>1, <1>3, <1>4, <1>9 DEF KeyPlaces
<1>11. n + 1 \in J <=>
         l.is = "line" /\ l.key = key /\ SectionOf(lines, n + 1) = section
  <2>1. n + 1 \in 1 .. n + 1
    OBVIOUS
  <2> QED BY <2>1, <1>3, <1>4, <1>9 DEF KeyPlaces
<1>12. og = IF n + 1 \in J THEN Append(of, l) ELSE of
  BY <1>1, <1>2, <1>5, <1>10, PickedAppend
<1>13. CASE n + 1 \in J
  <2>1. l \in KeyLine
    BY <1>11, <1>13, KeyLineIs
  <2>2. og = Append(of, l) /\ og \in Seq(KeyLine)
    BY <2>1, <1>6, <1>12, <1>13
  <2>3. PICK k \in Nat : k = Len(of) /\ DOMAIN of = 1 .. k
    BY <1>6
  <2>4. /\ Len(og) = k + 1 /\ og[k + 1] = l /\ \A m \in 1 .. k : og[m] = of[m]
        /\ DOMAIN og = 1 .. k + 1
    BY <2>2, <2>3, <1>6
  <2>5. PICK F, V : F = [m \in DOMAIN of |-> of[m].value] /\ V = Seq(STRING)
    OBVIOUS
  <2>6. F \in Seq(V) /\ Len(F) = k
    BY <2>3, <2>5, <1>6, ValuesOf
  <2>7. l.value \in V
    BY <2>1, <2>5 DEF KeyLine
  <2>8. PICK G : G = [m \in DOMAIN og |-> og[m].value]
    OBVIOUS
  <2>9. G \in Seq(V) /\ Len(G) = k + 1
    BY <2>2, <2>4, <2>5, <2>8, ValuesOf
  <2>10. \A m \in 1 .. k + 1 : G[m] = IF m = k + 1 THEN l.value ELSE F[m]
    BY <2>3, <2>4, <2>5, <2>8
  <2>11. G = Append(F, l.value)
    BY <2>6, <2>7, <2>9, <2>10
  <2> QED BY <2>5, <2>8, <2>11, <1>1, <1>2, <1>7, <1>8, <1>11, <1>13
<1>14. CASE n + 1 \notin J
  BY <1>1, <1>2, <1>7, <1>8, <1>11, <1>12, <1>14
<1> QED BY <1>13, <1>14

-----------------------------------------------------------------------------
(* What a value means, one line at a time                                   *)

ValueAfter(kind, old, v) ==
  CASE kind = "all" -> old \o v
    [] kind = "line" -> Append(old, v)
    [] kind = "dns" -> old \o Ips(v)
    [] OTHER -> v

LEMMA IpsConcat ==
  ASSUME NEW s \in Seq(STRING), NEW t \in Seq(STRING)
  PROVE  Ips(s \o t) = Ips(s) \o Ips(t) /\ Domains(s \o t) = Domains(s) \o Domains(t)
<1>1. PICK u : u = s \o t
  OBVIOUS
<1>2. PICK m \in Nat, l \in Nat : m = Len(s) /\ l = Len(t)
  OBVIOUS
<1>3. /\ DOMAIN s = 1 .. m /\ DOMAIN t = 1 .. l /\ DOMAIN u = 1 .. m + l
      /\ \A i \in 1 .. m : u[i] = s[i]
      /\ \A i \in 1 .. l : u[m + i] = t[i]
  BY <1>1, <1>2
<1>4. /\ \A i \in 1 .. m : i \in DOMAIN u
      /\ \A i \in 1 .. l : m + i \in DOMAIN u
  BY <1>3
<1>5. Ips(u) = Ips(s) \o Ips(t)
  <2>1. PICK I, J, K : /\ I = {i \in DOMAIN s : s[i] \in Ip}
                       /\ J = {i \in DOMAIN t : t[i] \in Ip}
                       /\ K = {i \in DOMAIN u : u[i] \in Ip}
    OBVIOUS
  <2>2. \A i \in 1 .. Len(s) : i \in I <=> i \in K
    BY <2>1, <1>2, <1>3, <1>4
  <2>3. \A i \in 1 .. Len(t) : i \in J <=> Len(s) + i \in K
    BY <2>1, <1>2, <1>3, <1>4
  <2>4. PICK E : E = STRING /\ s \in Seq(E) /\ t \in Seq(E)
    OBVIOUS
  <2>5. Picked(s \o t, K) = Picked(s, I) \o Picked(t, J)
    BY <2>2, <2>3, <2>4, PickedConcat
  <2> QED BY <2>1, <2>5, <1>1 DEF Ips
<1>6. Domains(u) = Domains(s) \o Domains(t)
  <2>1. PICK I, J, K : /\ I = {i \in DOMAIN s : s[i] \notin Ip \cup {""}}
                       /\ J = {i \in DOMAIN t : t[i] \notin Ip \cup {""}}
                       /\ K = {i \in DOMAIN u : u[i] \notin Ip \cup {""}}
    OBVIOUS
  <2>2. \A i \in 1 .. Len(s) : i \in I <=> i \in K
    BY <2>1, <1>2, <1>3, <1>4
  <2>3. \A i \in 1 .. Len(t) : i \in J <=> Len(s) + i \in K
    BY <2>1, <1>2, <1>3, <1>4
  <2>4. PICK E : E = STRING /\ s \in Seq(E) /\ t \in Seq(E)
    OBVIOUS
  <2>5. Picked(s \o t, K) = Picked(s, I) \o Picked(t, J)
    BY <2>2, <2>3, <2>4, PickedConcat
  <2> QED BY <2>1, <2>5, <1>1 DEF Domains
<1> QED BY <1>1, <1>5, <1>6

LEMMA MeansNext ==
  ASSUME NEW given \in Seq(Seq(STRING)), NEW v \in Seq(STRING), NEW kind
  PROVE  Means(Append(given, v), kind) = ValueAfter(kind, Means(given, kind), v)
<1>1. PICK h : h = Append(given, v)
  OBVIOUS
<1>2. FlattenSeq(h) = FlattenSeq(given) \o v
  BY <1>1, FlattenAppend
<1>3. CASE kind = "all"
  BY <1>1, <1>2, <1>3 DEF Means, ValueAfter
<1>4. CASE kind = "line"
  BY <1>1, <1>4 DEF Means, ValueAfter
<1>5. CASE kind = "dns"
  <2>1. FlattenSeq(given) \in Seq(STRING)
    BY FlattenType
  <2>2. Ips(FlattenSeq(given) \o v) = Ips(FlattenSeq(given)) \o Ips(v)
    BY <2>1, IpsConcat
  <2> QED BY <2>2, <1>1, <1>2, <1>5 DEF Means, ValueAfter
<1>6. CASE kind \notin {"all", "line", "dns"}
  <2>1. PICK V : V = Seq(STRING)
    OBVIOUS
  <2>2. given \in Seq(V) /\ v \in V
    BY <2>1
  <2>3. h # <<>> /\ h[Len(h)] = v
    BY <2>2, <1>1
  <2> QED BY <2>3, <1>1, <1>6 DEF Means, ValueAfter, Last
<1> QED BY <1>3, <1>4, <1>5, <1>6

LEMMA DomainsNext ==
  ASSUME NEW given \in Seq(Seq(STRING)), NEW v \in Seq(STRING)
  PROVE  Domains(FlattenSeq(Append(given, v))) = Domains(FlattenSeq(given)) \o Domains(v)
<1>1. FlattenSeq(Append(given, v)) = FlattenSeq(given) \o v
  BY FlattenAppend
<1>2. FlattenSeq(given) \in Seq(STRING)
  BY FlattenType
<1> QED BY <1>1, <1>2, IpsConcat

LEMMA AssignIs ==
  ASSUME NEW builder, NEW key \in DOMAIN builder, NEW kind, NEW v, kind # "dns"
  PROVE  /\ DOMAIN Assign(builder, key, kind, v) = DOMAIN builder
         /\ Assign(builder, key, kind, v)[key] = ValueAfter(kind, builder[key], v)
         /\ \A k \in DOMAIN builder \ {key} : Assign(builder, key, kind, v)[k] = builder[k]
<1>1. PICK value : value = ValueAfter(kind, builder[key], v)
  OBVIOUS
<1>2. Assign(builder, key, kind, v) = [builder EXCEPT ![key] = value]
  <2>1. CASE kind = "all" BY <2>1, <1>1 DEF Assign, ValueAfter
  <2>2. CASE kind = "line" BY <2>2, <1>1 DEF Assign, ValueAfter
  <2>3. CASE kind \notin {"all", "line", "dns"} BY <2>3, <1>1 DEF Assign, ValueAfter
  <2> QED BY <2>1, <2>2, <2>3
<1> QED BY <1>1, <1>2

LEMMA AssignDns ==
  ASSUME NEW builder, {"DNS", "search"} \subseteq DOMAIN builder, NEW v
  PROVE  /\ DOMAIN Assign(builder, "DNS", "dns", v) = DOMAIN builder
         /\ Assign(builder, "DNS", "dns", v)["DNS"] = ValueAfter("dns", builder["DNS"], v)
         /\ Assign(builder, "DNS", "dns", v)["search"] = builder["search"] \o Domains(v)
         /\ \A k \in DOMAIN builder \ {"DNS", "search"} :
              Assign(builder, "DNS", "dns", v)[k] = builder[k]
<1>1. PICK a, b : a = ValueAfter("dns", builder["DNS"], v) /\ b = builder["search"] \o Domains(v)
  OBVIOUS
<1>2. Assign(builder, "DNS", "dns", v) = [builder EXCEPT !["DNS"] = a, !["search"] = b]
  BY <1>1 DEF Assign, ValueAfter
<1> QED BY <1>1, <1>2

-----------------------------------------------------------------------------
(* What is read is what the lines say                                       *)

\* STRING holds "0", which the provers do not know.
Tokens == STRING \cup {"0"}
PeerFields == DOMAIN PeerKeys \cup {"name"}
PeerRecord == [PeerFields -> Seq(Tokens)]

Shape(s) ==
  /\ DOMAIN s = {"section", "iface", "peers", "ok"}
  /\ s.section \in {"none", "interface", "peer"} /\ s.ok \in BOOLEAN
  /\ DOMAIN s.iface = DOMAIN InterfaceKeys \cup {"search"}
  /\ s.peers \in Seq(PeerRecord)
  /\ s.section = "peer" => s.peers # <<>>

SectionNumber(s) ==
  IF s.section = "none" THEN -1 ELSE IF s.section = "interface" THEN 0 ELSE Len(s.peers)

InterfaceSays(lines, iface) ==
  /\ iface.search = Domains(FlattenSeq(Given(lines, 0, "DNS")))
  /\ \A key \in DOMAIN InterfaceKeys :
       iface[key] = Means(Given(lines, 0, key), InterfaceKeys[key])

PeerSays(lines, i, peer) ==
  \A key \in DOMAIN PeerKeys : peer[key] = Means(Given(lines, i, key), PeerKeys[key])

Says(lines, s) ==
  /\ Len(s.peers) = Cardinality(PeerLines(lines))
  /\ SectionOf(lines, Len(lines) + 1) = SectionNumber(s)
  /\ InterfaceSays(lines, s.iface)
  /\ \A i \in DOMAIN s.peers : PeerSays(lines, i, s.peers[i])

LEMMA KindsAre ==
  /\ DOMAIN InterfaceKeys = {"PrivateKey", "ListenPort", "Address", "DNS", "MTU", "FwMark",
                             "PreUp", "PostUp", "PreDown", "PostDown"}
  /\ \A key \in DOMAIN InterfaceKeys : InterfaceKeys[key] = "dns" <=> key = "DNS"
  /\ DOMAIN PeerKeys =
       {"PublicKey", "PresharedKey", "Endpoint", "AllowedIPs", "PersistentKeepalive"}
  /\ \A key \in DOMAIN PeerKeys : PeerKeys[key] \in {"base64", "text", "all", "u16"}
<1>1. DOMAIN InterfaceKeys = {"PrivateKey", "ListenPort", "Address", "DNS", "MTU", "FwMark",
                              "PreUp", "PostUp", "PreDown", "PostDown"}
  BY DEF InterfaceKeys
<1>2. \A key \in DOMAIN InterfaceKeys : InterfaceKeys[key] = "dns" <=> key = "DNS"
  BY DEF InterfaceKeys
<1>3. DOMAIN PeerKeys =
        {"PublicKey", "PresharedKey", "Endpoint", "AllowedIPs", "PersistentKeepalive"}
  BY DEF PeerKeys
<1>4. \A key \in DOMAIN PeerKeys : PeerKeys[key] \in {"base64", "text", "all", "u16"}
  BY DEF PeerKeys
<1> QED BY <1>1, <1>2, <1>3, <1>4

LEMMA AssignOther ==
  ASSUME NEW builder, NEW key, key \in DOMAIN builder, NEW kind, NEW v, kind # "dns",
         NEW k, k \in DOMAIN builder, k # key
  PROVE  Assign(builder, key, kind, v)[k] = builder[k]
BY AssignIs

LEMMA SingleIs == ASSUME NEW S, NEW e \in S PROVE <<e>> \in Seq(S)
OBVIOUS

\* A builder's key after a line of its section.
LEMMA PeerAssigned ==
  ASSUME NEW peer \in PeerRecord, NEW key \in DOMAIN PeerKeys, NEW v \in Seq(STRING)
  PROVE  Assign(peer, key, PeerKeys[key], v) \in PeerRecord
<1>1. PICK kind : kind = PeerKeys[key] /\ kind \in {"base64", "text", "all", "u16"}
  BY KindsAre
<1>2. key \in DOMAIN peer /\ DOMAIN peer = PeerFields /\ peer[key] \in Seq(Tokens)
  BY DEF PeerRecord, PeerFields
<1>3. PICK value : value = ValueAfter(kind, peer[key], v)
  OBVIOUS
<1>4. Assign(peer, key, kind, v) = [peer EXCEPT ![key] = value]
  <2>1. CASE kind = "all" BY <2>1, <1>3 DEF Assign, ValueAfter
  <2>2. CASE kind \in {"base64", "text", "u16"} BY <2>2, <1>3 DEF Assign, ValueAfter
  <2> QED BY <2>1, <2>2, <1>1
<1>5. value \in Seq(Tokens)
  <2>1. v \in Seq(Tokens)
    BY DEF Tokens
  <2>2. CASE kind = "all" BY <2>1, <2>2, <1>2, <1>3 DEF ValueAfter
  <2>3. CASE kind \in {"base64", "text", "u16"} BY <2>1, <2>3, <1>3 DEF ValueAfter
  <2> QED BY <2>2, <2>3, <1>1
<1> QED BY <1>1, <1>4, <1>5 DEF PeerRecord

LEMMA UnsetType == ASSUME NEW kind PROVE Unset(kind) \in Seq(Tokens)
<1>1. <<"0">> \in Seq(Tokens)
  <2>1. PICK e \in Tokens : e = "0"
    BY DEF Tokens
  <2>2. <<e>> \in Seq(Tokens)
    BY <2>1, SingleIs
  <2> QED BY <2>1, <2>2
<1>2. <<>> \in Seq(Tokens)
  OBVIOUS
<1> QED BY <1>1, <1>2, Zenon DEF Unset

LEMMA NothingGiven ==
  ASSUME NEW lines \in Seq(TextLine), NEW section, NEW key, KeyPlaces(lines, section, key) = {}
  PROVE  Given(lines, section, key) = <<>>
<1>1. PICK of : of = Picked(lines, KeyPlaces(lines, section, key))
  OBVIOUS
<1>2. of \in Seq({})
  <2>1. \A j \in 1 .. Len(lines) : j \in KeyPlaces(lines, section, key) => lines[j] \in {}
    OBVIOUS
  <2> QED BY <2>1, <1>1, PickedWithin
<1>3. of = <<>> /\ of \in Seq(KeyLine)
  BY <1>2
<1>4. Given(lines, section, key) = [n \in DOMAIN of |-> of[n].value]
  BY <1>1, Zenon DEF Given, KeyPlaces
<1>5. Given(lines, section, key) \in Seq(Seq(STRING)) /\ Len(Given(lines, section, key)) = 0
  BY <1>3, <1>4, ValuesOf
<1> QED BY <1>5, EmptyIs

LEMMA BuilderSays ==
  ASSUME NEW lines \in Seq(TextLine), NEW i, \A j \in 1 .. Len(lines) : SectionOf(lines, j) # i
  PROVE  PeerSays(lines, i, PeerBuilder) /\ PeerBuilder \in PeerRecord
<1>1. ASSUME NEW key PROVE Given(lines, i, key) = <<>>
  <2>1. KeyPlaces(lines, i, key) = {}
    BY DEF KeyPlaces
  <2> QED BY <2>1, NothingGiven
<1>2. ASSUME NEW key \in DOMAIN PeerKeys
      PROVE  PeerBuilder[key] = Means(<<>>, PeerKeys[key])
  <2>1. key # "name" /\ PeerKeys[key] \in {"base64", "text", "all", "u16"}
    BY KindsAre
  <2>2. PeerBuilder[key] = Unset(PeerKeys[key])
    BY <2>1 DEF PeerBuilder
  <2>3. CASE PeerKeys[key] = "all"
    BY <2>2, <2>3, FlattenNone DEF Means, Unset
  <2>4. CASE PeerKeys[key] \in {"base64", "text", "u16"}
    BY <2>2, <2>4 DEF Means
  <2> QED BY <2>1, <2>3, <2>4
<1>3. PeerBuilder \in PeerRecord
  <2>1. \A kind : Unset(kind) \in Seq(Tokens)
    BY UnsetType
  <2>2. <<>> \in Seq(Tokens)
    OBVIOUS
  <2> QED BY <2>1, <2>2 DEF PeerBuilder, PeerRecord, PeerFields
<1> QED BY <1>1, <1>2, <1>3 DEF PeerSays

\* What a line says to the other sections, and to its own.
LEMMA PeerSaysNext ==
  ASSUME NEW lines \in Seq(TextLine), NEW l \in TextLine, NEW i, NEW peer,
         PeerSays(lines, i, peer), l.is # "line" \/ SectionOf(lines, Len(lines) + 1) # i
  PROVE  PeerSays(Append(lines, l), i, peer)
<1>1. \A key : Given(Append(lines, l), i, key) = Given(lines, i, key)
  BY GivenNext
<1> QED BY <1>1 DEF PeerSays

LEMMA PeerSaysLine ==
  ASSUME NEW lines \in Seq(TextLine), NEW l \in KeyLine, l \in TextLine, NEW i,
         NEW peer \in PeerRecord, PeerSays(lines, i, peer),
         SectionOf(lines, Len(lines) + 1) = i, l.key \in DOMAIN PeerKeys
  PROVE  PeerSays(Append(lines, l), i, Assign(peer, l.key, PeerKeys[l.key], l.value))
<1>1. l.is = "line" /\ l.value \in Seq(STRING)
  BY DEF KeyLine
<1>2. PICK kind, k, v : kind = PeerKeys[k] /\ k = l.key /\ v = l.value
  OBVIOUS
<1>3. kind # "dns" /\ k \in DOMAIN peer /\ v \in Seq(STRING)
  BY <1>1, <1>2, KindsAre DEF PeerRecord, PeerFields
<1>4. PICK new : new = Assign(peer, k, kind, v)
  OBVIOUS
<1>5. new[k] = ValueAfter(kind, peer[k], v) /\ \A q \in DOMAIN peer \ {k} : new[q] = peer[q]
  BY <1>3, <1>4, AssignIs
<1>6. ASSUME NEW key \in DOMAIN PeerKeys
      PROVE  new[key] = Means(Given(Append(lines, l), i, key), PeerKeys[key])
  <2>1. peer[key] = Means(Given(lines, i, key), PeerKeys[key]) /\ key \in DOMAIN peer
    BY DEF PeerSays, PeerRecord, PeerFields
  <2>2. PICK given : given = Given(lines, i, key) /\ given \in Seq(Seq(STRING))
    BY GivenType
  <2>3. CASE key = k
    <3>1. Given(Append(lines, l), i, key) = Append(given, v)
      BY <2>2, <2>3, <1>1, <1>2, GivenNext
    <3>2. Means(Append(given, v), kind) = ValueAfter(kind, Means(given, kind), v)
      BY <2>2, <1>3, MeansNext
    <3> QED BY <3>1, <3>2, <2>1, <2>2, <2>3, <1>2, <1>5
  <2>4. CASE key # k
    <3>1. Given(Append(lines, l), i, key) = given
      BY <2>2, <2>4, <1>2, GivenNext
    <3> QED BY <3>1, <2>1, <2>2, <2>4, <1>5
  <2> QED BY <2>3, <2>4
<1> QED BY <1>2, <1>4, <1>6 DEF PeerSays

LEMMA InterfaceSaysNext ==
  ASSUME NEW lines \in Seq(TextLine), NEW l \in TextLine, NEW iface, InterfaceSays(lines, iface),
         l.is # "line" \/ SectionOf(lines, Len(lines) + 1) # 0
  PROVE  InterfaceSays(Append(lines, l), iface)
<1>1. \A key : Given(Append(lines, l), 0, key) = Given(lines, 0, key)
  BY GivenNext
<1> QED BY <1>1 DEF InterfaceSays

LEMMA InterfaceSaysLine ==
  ASSUME NEW lines \in Seq(TextLine), NEW l \in KeyLine, l \in TextLine, NEW iface,
         DOMAIN iface = DOMAIN InterfaceKeys \cup {"search"}, InterfaceSays(lines, iface),
         SectionOf(lines, Len(lines) + 1) = 0, l.key \in DOMAIN InterfaceKeys
  PROVE  InterfaceSays(Append(lines, l), Assign(iface, l.key, InterfaceKeys[l.key], l.value))
<1>1. l.is = "line" /\ l.value \in Seq(STRING)
  BY DEF KeyLine
<1>2. PICK kind, k, v : kind = InterfaceKeys[k] /\ k = l.key /\ v = l.value
  OBVIOUS
<1>3. k \in DOMAIN iface /\ v \in Seq(STRING) /\ (kind = "dns" <=> k = "DNS")
  BY <1>1, <1>2, KindsAre
<1>4. PICK new : new = Assign(iface, k, kind, v)
  OBVIOUS
<1>5. {"DNS", "search"} \subseteq DOMAIN iface /\ "search" \notin DOMAIN InterfaceKeys
  BY KindsAre
<1>6. /\ new[k] = ValueAfter(kind, iface[k], v)
      /\ \A q \in DOMAIN InterfaceKeys \ {k} : new[q] = iface[q]
  <2>1. CASE kind = "dns"
    BY <2>1, <1>3, <1>4, <1>5, AssignDns
  <2>2. CASE kind # "dns"
    BY <2>2, <1>3, <1>4, <1>5, AssignIs
  <2> QED BY <2>1, <2>2
<1>7. ASSUME NEW key \in DOMAIN InterfaceKeys
      PROVE  new[key] = Means(Given(Append(lines, l), 0, key), InterfaceKeys[key])
  <2>1. iface[key] = Means(Given(lines, 0, key), InterfaceKeys[key])
    BY DEF InterfaceSays
  <2>2. PICK given : given = Given(lines, 0, key) /\ given \in Seq(Seq(STRING))
    BY GivenType
  <2>3. CASE key = k
    <3>1. Given(Append(lines, l), 0, key) = Append(given, v)
      BY <2>2, <2>3, <1>1, <1>2, GivenNext
    <3>2. Means(Append(given, v), kind) = ValueAfter(kind, Means(given, kind), v)
      BY <2>2, <1>3, MeansNext
    <3> QED BY <3>1, <3>2, <2>1, <2>2, <2>3, <1>2, <1>6
  <2>4. CASE key # k
    <3>1. Given(Append(lines, l), 0, key) = given
      BY <2>2, <2>4, <1>2, GivenNext
    <3> QED BY <3>1, <2>1, <2>2, <2>4, <1>6
  <2> QED BY <2>3, <2>4
<1>8. ASSUME kind # "dns" PROVE new["search"] = iface["search"]
  <2>1. PICK q, b : q = "search" /\ b = iface
    OBVIOUS
  <2>2. k \in DOMAIN b /\ q \in DOMAIN b /\ q # k
    BY <2>1, <1>2, <1>3, <1>5
  <2>3. Assign(b, k, kind, v)[q] = b[q]
    BY <2>2, <1>8, AssignOther
  <2> QED BY <2>1, <2>3, <1>4
<1>9. new["search"] = Domains(FlattenSeq(Given(Append(lines, l), 0, "DNS")))
  <2>1. PICK given : given = Given(lines, 0, "DNS") /\ given \in Seq(Seq(STRING))
    BY GivenType
  <2>2. iface["search"] = Domains(FlattenSeq(given))
    BY <2>1 DEF InterfaceSays
  <2>3. CASE k = "DNS"
    <3>1. Given(Append(lines, l), 0, "DNS") = Append(given, v)
      BY <2>1, <2>3, <1>1, <1>2, GivenNext
    <3>2. new["search"] = iface["search"] \o Domains(v)
      BY <2>3, <1>3, <1>4, <1>5, AssignDns
    <3>3. Domains(FlattenSeq(Append(given, v))) = Domains(FlattenSeq(given)) \o Domains(v)
      BY <2>1, <1>3, DomainsNext
    <3> QED BY <3>1, <3>2, <3>3, <2>2
  <2>4. CASE k # "DNS"
    <3>1. Given(Append(lines, l), 0, "DNS") = given
      BY <2>1, <2>4, <1>2, GivenNext
    <3>2. "search" \in DOMAIN iface \ {k} /\ kind # "dns"
      BY <2>4, <1>2, <1>3, <1>5
    <3>3. new["search"] = iface["search"]
      BY <3>2, <1>8
    <3> QED BY <3>1, <3>3, <2>2
  <2> QED BY <2>3, <2>4
<1> QED BY <1>2, <1>4, <1>7, <1>9 DEF InterfaceSays

LEMMA AssignDomain ==
  ASSUME NEW iface, DOMAIN iface = DOMAIN InterfaceKeys \cup {"search"},
         NEW key \in DOMAIN InterfaceKeys, NEW v
  PROVE  DOMAIN Assign(iface, key, InterfaceKeys[key], v) = DOMAIN iface
<1>1. PICK kind : kind = InterfaceKeys[key] /\ (kind = "dns" <=> key = "DNS")
  BY KindsAre
<1>2. {"DNS", "search"} \subseteq DOMAIN iface /\ key \in DOMAIN iface
  BY KindsAre
<1>3. CASE kind = "dns"
  BY <1>1, <1>2, <1>3, AssignDns
<1>4. CASE kind # "dns"
  BY <1>1, <1>2, <1>4, AssignIs
<1> QED BY <1>3, <1>4

LEMMA LineIs ==
  ASSUME NEW l \in TextLine
  PROVE  \/ l.is = "line" /\ l \in KeyLine
         \/ l.is \in {"interface", "peer", "comment"}
<1>1. CASE l \in KeyLine BY <1>1 DEF KeyLine
<1>2. CASE l \in {InterfaceHeader, PeerHeader, Comment} BY <1>2, HeadersAre
<1> QED BY <1>1, <1>2 DEF TextLine, KeyLine

\* What a builder holds can be written and read again.
Fits(kind, value) == value = Unset(kind) \/ Admits(kind, value)

PeerFits(peer) ==
  peer.name = <<>> /\ \A key \in DOMAIN PeerKeys : Fits(PeerKeys[key], peer[key])

Admitted(s) ==
  /\ \A key \in DOMAIN InterfaceKeys : Fits(InterfaceKeys[key], s.iface[key])
  /\ \A i \in DOMAIN s.peers : PeerFits(s.peers[i])

LEMMA FitsAfter ==
  ASSUME NEW kind, NEW old, NEW v, Admits(kind, v)
  PROVE  Fits(kind, ValueAfter(kind, old, v))
<1>1. CASE kind \in {"base64", "u16", "u32"}
  <2>1. ValueAfter(kind, old, v) = v
    BY <1>1 DEF ValueAfter
  <2> QED BY <2>1 DEF Fits
<1>2. CASE kind \notin {"base64", "u16", "u32"}
  BY <1>2 DEF Fits, Admits
<1> QED BY <1>1, <1>2

LEMMA PeerFieldsAre ==
  ASSUME NEW peer \in PeerRecord
  PROVE  DOMAIN peer = DOMAIN PeerKeys \cup {"name"} /\ "name" \notin DOMAIN PeerKeys
BY KindsAre DEF PeerRecord, PeerFields

LEMMA PeerFitsAfter ==
  ASSUME NEW peer \in PeerRecord, PeerFits(peer), NEW key \in DOMAIN PeerKeys, NEW v,
         Admits(PeerKeys[key], v)
  PROVE  PeerFits(Assign(peer, key, PeerKeys[key], v))
<1>1. PICK kind : kind = PeerKeys[key]
  OBVIOUS
<1>2. kind # "dns" /\ key \in DOMAIN peer /\ "name" \in DOMAIN peer \ {key}
  BY <1>1, KindsAre, PeerFieldsAre
<1>3. PICK new : new = Assign(peer, key, kind, v)
  OBVIOUS
<1>4. new[key] = ValueAfter(kind, peer[key], v) /\ \A q \in DOMAIN peer \ {key} : new[q] = peer[q]
  BY <1>2, <1>3, AssignIs
<1>5. new["name"] = <<>>
  BY <1>2, <1>4 DEF PeerFits
<1>6. ASSUME NEW q \in DOMAIN PeerKeys PROVE Fits(PeerKeys[q], new[q])
  <2>1. CASE q = key
    BY <2>1, <1>1, <1>4, FitsAfter
  <2>2. CASE q # key
    <3>1. q \in DOMAIN peer \ {key}
      BY <2>2, PeerFieldsAre
    <3> QED BY <3>1, <1>4 DEF PeerFits
  <2> QED BY <2>1, <2>2
<1> QED BY <1>1, <1>3, <1>5, <1>6 DEF PeerFits

LEMMA InterfaceFitsAfter ==
  ASSUME NEW iface, DOMAIN iface = DOMAIN InterfaceKeys \cup {"search"},
         \A q \in DOMAIN InterfaceKeys : Fits(InterfaceKeys[q], iface[q]),
         NEW key \in DOMAIN InterfaceKeys, NEW v, Admits(InterfaceKeys[key], v)
  PROVE  \A q \in DOMAIN InterfaceKeys :
           Fits(InterfaceKeys[q], Assign(iface, key, InterfaceKeys[key], v)[q])
<1>1. PICK kind : kind = InterfaceKeys[key]
  OBVIOUS
<1>2. PICK new : new = Assign(iface, key, kind, v)
  OBVIOUS
<1>3. /\ {"DNS", "search"} \subseteq DOMAIN iface /\ "search" \notin DOMAIN InterfaceKeys
      /\ key \in DOMAIN iface /\ (kind = "dns" <=> key = "DNS")
  BY <1>1, KindsAre
<1>4. /\ new[key] = ValueAfter(kind, iface[key], v)
      /\ \A q \in DOMAIN InterfaceKeys \ {key} : new[q] = iface[q]
  <2>1. CASE kind = "dns"
    BY <2>1, <1>2, <1>3, AssignDns
  <2>2. CASE kind # "dns"
    BY <2>2, <1>2, <1>3, AssignIs
  <2> QED BY <2>1, <2>2
<1>5. ASSUME NEW q \in DOMAIN InterfaceKeys PROVE Fits(InterfaceKeys[q], new[q])
  <2>1. CASE q = key
    BY <2>1, <1>1, <1>4, FitsAfter
  <2>2. CASE q # key
    BY <2>2, <1>4
  <2> QED BY <2>1, <2>2
<1> QED BY <1>1, <1>2, <1>5

LEMMA AdmittedNext ==
  ASSUME NEW s, Shape(s), Admitted(s), NEW l \in TextLine
  PROVE  Admitted(ReadLine(s, l))
<1>1. PICK p \in Seq(PeerRecord) : p = s.peers
  BY DEF Shape
<1>2. PICK n \in Nat : n = Len(p) /\ DOMAIN p = 1 .. n
  OBVIOUS
<1>3. CASE ~s.ok \/ l.is = "comment"
  <2>1. ReadLine(s, l) = s
    BY <1>3 DEF ReadLine
  <2> QED BY <2>1
<1>4. CASE s.ok /\ l.is = "interface"
  <2>1. ReadLine(s, l) = [s EXCEPT !.section = "interface"]
    BY <1>4 DEF ReadLine
  <2>2. ReadLine(s, l).iface = s.iface /\ ReadLine(s, l).peers = s.peers
    BY <2>1 DEF Shape
  <2> QED BY <2>2 DEF Admitted
<1>5. CASE s.ok /\ l.is = "peer"
  <2>1. ReadLine(s, l) = [s EXCEPT !.section = "peer", !.peers = Append(@, PeerBuilder)]
    BY <1>5 DEF ReadLine
  <2>2. PICK q : q = Append(p, PeerBuilder)
    OBVIOUS
  <2>3. ReadLine(s, l).iface = s.iface /\ ReadLine(s, l).peers = q
    BY <2>1, <2>2, <1>1 DEF Shape
  <2>4. DOMAIN q = 1 .. n + 1 /\ q[n + 1] = PeerBuilder /\ \A i \in 1 .. n : q[i] = p[i]
    BY <2>2, <1>2
  <2>5. PeerFits(PeerBuilder)
    <3>1. PeerBuilder.name = <<>>
      BY DEF PeerBuilder
    <3>2. \A key \in DOMAIN PeerKeys : key # "name"
      BY KindsAre
    <3>3. \A key \in DOMAIN PeerKeys : PeerBuilder[key] = Unset(PeerKeys[key])
      BY <3>2 DEF PeerBuilder
    <3> QED BY <3>1, <3>3 DEF PeerFits, Fits
  <2>6. \A i \in 1 .. n : PeerFits(p[i])
    BY <1>1, <1>2 DEF Admitted
  <2>7. \A i \in DOMAIN q : PeerFits(q[i])
    BY <2>4, <2>5, <2>6
  <2> QED BY <2>3, <2>7 DEF Admitted
<1>6. CASE s.ok /\ l.is = "line"
  <2>1. ReadLine(s, l) = KeyValue(s, l.key, l.value)
    BY <1>6 DEF ReadLine
  <2>2. CASE ReadLine(s, l) = Failed(s)
    <3>1. Failed(s).iface = s.iface /\ Failed(s).peers = s.peers
      BY DEF Failed, Shape
    <3> QED BY <3>1, <2>2 DEF Admitted
  <2>3. CASE l.key \in DOMAIN InterfaceKeys /\ Admits(InterfaceKeys[l.key], l.value)
             /\ ReadLine(s, l) = [s EXCEPT !.iface = Assign(@, l.key, InterfaceKeys[l.key], l.value)]
    <3>1. PICK new : new = Assign(s.iface, l.key, InterfaceKeys[l.key], l.value)
      OBVIOUS
    <3>2. ReadLine(s, l).iface = new /\ ReadLine(s, l).peers = s.peers
      BY <2>3, <3>1 DEF Shape
    <3>3. DOMAIN s.iface = DOMAIN InterfaceKeys \cup {"search"}
      BY DEF Shape
    <3>4. \A q \in DOMAIN InterfaceKeys : Fits(InterfaceKeys[q], s.iface[q])
      BY DEF Admitted
    <3>5. \A q \in DOMAIN InterfaceKeys : Fits(InterfaceKeys[q], new[q])
      BY <3>1, <3>3, <3>4, <2>3, InterfaceFitsAfter
    <3> QED BY <3>2, <3>5 DEF Admitted
  <2>4. CASE s.section = "peer" /\ l.key \in DOMAIN PeerKeys /\ Admits(PeerKeys[l.key], l.value)
             /\ ReadLine(s, l) =
                  [s EXCEPT !.peers[Len(s.peers)] = Assign(@, l.key, PeerKeys[l.key], l.value)]
    <3>1. n \in 1 .. n
      <4>1. p # <<>>
        BY <2>4, <1>1 DEF Shape
      <4> QED BY <4>1, <1>2
    <3>2. PICK new : new = Assign(p[n], l.key, PeerKeys[l.key], l.value)
      OBVIOUS
    <3>3. PICK q : q = [p EXCEPT ![n] = new]
      OBVIOUS
    <3>4. ReadLine(s, l).iface = s.iface /\ ReadLine(s, l).peers = q
      BY <2>4, <3>2, <3>3, <1>1, <1>2 DEF Shape
    <3>5. DOMAIN q = 1 .. n /\ q[n] = new /\ \A i \in 1 .. n : i # n => q[i] = p[i]
      BY <3>1, <3>3, <1>2
    <3>6. \A i \in 1 .. n : PeerFits(p[i])
      BY <1>1, <1>2 DEF Admitted
    <3>7. p[n] \in PeerRecord
      BY <3>1, <1>2
    <3>8. PeerFits(new)
      BY <3>1, <3>2, <3>6, <3>7, <2>4, PeerFitsAfter
    <3>9. \A i \in DOMAIN q : PeerFits(q[i])
      BY <3>5, <3>6, <3>8
    <3> QED BY <3>4, <3>9 DEF Admitted
  <2>5. s.section \in {"none", "interface", "peer"}
    BY DEF Shape
  <2> QED BY <2>1, <2>2, <2>3, <2>4, <2>5 DEF KeyValue
<1>7. l.is \in {"line", "interface", "peer", "comment"}
  BY LineIs
<1> QED BY <1>3, <1>4, <1>5, <1>6, <1>7

LEMMA StartAdmitted == Admitted(Start)
<1>1. ASSUME NEW key \in DOMAIN InterfaceKeys
      PROVE  InterfaceBuilder[key] = Unset(InterfaceKeys[key])
  <2>1. key # "search"
    BY KindsAre
  <2> QED BY <2>1 DEF InterfaceBuilder
<1>2. DOMAIN <<>> = {}
  OBVIOUS
<1> QED BY <1>1, <1>2 DEF Admitted, Start, Fits

\* The cases of a line, when there has been no error.
LEMMA CommentKept ==
  ASSUME NEW lines \in Seq(TextLine), NEW l \in TextLine, NEW s, Shape(s), Says(lines, s),
         l.is = "comment"
  PROVE  Says(Append(lines, l), s)
<1>1. l.is \notin {"line", "interface", "peer"}
  OBVIOUS
<1>2. Cardinality(PeerLines(Append(lines, l))) = Cardinality(PeerLines(lines))
  BY <1>1, PeerLinesNext
<1>3. SectionOf(Append(lines, l), Len(lines) + 2) = SectionOf(lines, Len(lines) + 1)
  BY <1>1, SectionNext
<1>4. Len(Append(lines, l)) + 1 = Len(lines) + 2
  OBVIOUS
<1>5. InterfaceSays(Append(lines, l), s.iface)
  BY <1>1, InterfaceSaysNext DEF Says
<1>6. ASSUME NEW i \in DOMAIN s.peers PROVE PeerSays(Append(lines, l), i, s.peers[i])
  <2>1. PeerSays(lines, i, s.peers[i])
    BY DEF Says
  <2> QED BY <2>1, <1>1, PeerSaysNext
<1> QED BY <1>2, <1>3, <1>4, <1>5, <1>6 DEF Says

LEMMA InterfaceKept ==
  ASSUME NEW lines \in Seq(TextLine), NEW l \in TextLine, NEW s, Shape(s), Says(lines, s),
         l.is = "interface", NEW r, r = [s EXCEPT !.section = "interface"]
  PROVE  Shape(r) /\ Says(Append(lines, l), r)
<1>1. l.is \notin {"line", "peer"}
  OBVIOUS
<1>2. /\ DOMAIN r = DOMAIN s /\ r.section = "interface" /\ r.iface = s.iface
      /\ r.peers = s.peers /\ r.ok = s.ok
  BY DEF Shape
<1>3. Shape(r)
  <2>1. "interface" # "peer"
    OBVIOUS
  <2> QED BY <1>2, <2>1 DEF Shape
<1>4. Cardinality(PeerLines(Append(lines, l))) = Cardinality(PeerLines(lines))
  BY <1>1, PeerLinesNext
<1>5. SectionOf(Append(lines, l), Len(lines) + 2) = 0 /\ SectionNumber(r) = 0
  BY <1>2, SectionNext DEF SectionNumber
<1>6. Len(Append(lines, l)) + 1 = Len(lines) + 2
  OBVIOUS
<1>7. InterfaceSays(Append(lines, l), s.iface)
  BY <1>1, InterfaceSaysNext DEF Says
<1>8. ASSUME NEW i \in DOMAIN s.peers PROVE PeerSays(Append(lines, l), i, s.peers[i])
  <2>1. PeerSays(lines, i, s.peers[i])
    BY DEF Says
  <2> QED BY <2>1, <1>1, PeerSaysNext
<1> QED BY <1>2, <1>3, <1>4, <1>5, <1>6, <1>7, <1>8 DEF Says

LEMMA PeerKept ==
  ASSUME NEW lines \in Seq(TextLine), NEW l \in TextLine, NEW s, Shape(s), Says(lines, s),
         l.is = "peer",
         NEW r, r = [s EXCEPT !.section = "peer", !.peers = Append(@, PeerBuilder)]
  PROVE  Shape(r) /\ Says(Append(lines, l), r)
<1>1. l.is \notin {"line", "interface"}
  OBVIOUS
<1>2. PICK p \in Seq(PeerRecord) : p = s.peers
  BY DEF Shape
<1>3. PICK n \in Nat : n = Len(p)
  OBVIOUS
<1>4. PICK t : t = Append(lines, l)
  OBVIOUS
<1>5. n = Cardinality(PeerLines(lines))
  BY <1>2, <1>3 DEF Says
<1>6. Cardinality(PeerLines(t)) = n + 1
  BY <1>4, <1>5, PeerLinesNext
<1>7. SectionOf(t, Len(lines) + 2) = n + 1
  BY <1>1, <1>4, <1>6, SectionNext
<1>8. t \in Seq(TextLine) /\ Len(t) + 1 = Len(lines) + 2
  BY <1>4
<1>9. PeerSays(t, n + 1, PeerBuilder) /\ PeerBuilder \in PeerRecord
  <2>1. ASSUME NEW j \in 1 .. Len(t) PROVE SectionOf(t, j) # n + 1
    <3>1. j \in 1 .. Len(lines) + 1
      BY <1>8
    <3>2. SectionOf(t, j) = SectionOf(lines, j)
      BY <3>1, <1>4, SectionStays
    <3>3. SectionOf(lines, j) \in Int /\ SectionOf(lines, j) <= n
      BY <3>1, <1>5, SectionBound
    <3> QED BY <3>2, <3>3
  <2> QED BY <2>1, <1>8, BuilderSays
<1>10. PICK q : q = Append(p, PeerBuilder)
  OBVIOUS
<1>11. /\ q \in Seq(PeerRecord) /\ Len(q) = n + 1 /\ q[n + 1] = PeerBuilder
       /\ \A i \in 1 .. n : q[i] = p[i]
       /\ DOMAIN q = 1 .. n + 1 /\ DOMAIN p = 1 .. n /\ q # <<>>
  BY <1>3, <1>9, <1>10
<1>12. /\ DOMAIN r = DOMAIN s /\ r.section = "peer" /\ r.iface = s.iface
       /\ r.peers = q /\ r.ok = s.ok
  BY <1>2, <1>10 DEF Shape
<1>13. Shape(r)
  BY <1>11, <1>12 DEF Shape
<1>14. SectionNumber(r) = n + 1
  BY <1>11, <1>12 DEF SectionNumber
<1>15. InterfaceSays(t, s.iface)
  BY <1>1, <1>4, InterfaceSaysNext DEF Says
<1>16. ASSUME NEW i \in DOMAIN q PROVE PeerSays(t, i, q[i])
  <2>1. CASE i = n + 1
    BY <2>1, <1>9, <1>11
  <2>2. CASE i \in 1 .. n
    <3>1. PeerSays(lines, i, p[i]) /\ q[i] = p[i]
      BY <2>2, <1>2, <1>11 DEF Says
    <3>2. PeerSays(t, i, p[i])
      BY <3>1, <1>1, <1>4, PeerSaysNext
    <3> QED BY <3>1, <3>2
  <2> QED BY <2>1, <2>2, <1>11
<1> QED BY <1>4, <1>6, <1>7, <1>8, <1>11, <1>12, <1>13, <1>14, <1>15, <1>16 DEF Says

LEMMA KeyOfInterfaceKept ==
  ASSUME NEW lines \in Seq(TextLine), NEW l \in KeyLine, l \in TextLine,
         NEW s, Shape(s), Says(lines, s),
         s.section = "interface", l.key \in DOMAIN InterfaceKeys,
         NEW r, r = [s EXCEPT !.iface = Assign(@, l.key, InterfaceKeys[l.key], l.value)]
  PROVE  Shape(r) /\ Says(Append(lines, l), r)
<1>1. l.is = "line" /\ l.is \notin {"peer", "interface"}
  BY DEF KeyLine
<1>2. PICK t, n : t = Append(lines, l) /\ n = Len(lines) + 1
  OBVIOUS
<1>3. PICK new : new = Assign(s.iface, l.key, InterfaceKeys[l.key], l.value)
  OBVIOUS
<1>4. /\ DOMAIN r = DOMAIN s /\ r.section = s.section /\ r.iface = new
      /\ r.peers = s.peers /\ r.ok = s.ok
  BY <1>3 DEF Shape
<1>5. DOMAIN s.iface = DOMAIN InterfaceKeys \cup {"search"}
  BY DEF Shape
<1>6. DOMAIN new = DOMAIN s.iface
  BY <1>3, <1>5, AssignDomain
<1>7. Shape(r)
  BY <1>4, <1>6 DEF Shape
<1>8. SectionOf(lines, n) = 0 /\ SectionNumber(r) = 0
  <2>1. "none" # "interface"
    OBVIOUS
  <2> QED BY <2>1, <1>2, <1>4 DEF Says, SectionNumber
<1>9. Cardinality(PeerLines(t)) = Cardinality(PeerLines(lines))
  BY <1>1, <1>2, PeerLinesNext
<1>10. SectionOf(t, Len(t) + 1) = 0
  <2>1. Len(t) + 1 = Len(lines) + 2
    BY <1>2
  <2> QED BY <2>1, <1>1, <1>2, <1>8, SectionNext
<1>11. InterfaceSays(t, new)
  <2>1. InterfaceSays(lines, s.iface) /\ SectionOf(lines, Len(lines) + 1) = 0
    BY <1>2, <1>8 DEF Says
  <2> QED BY <2>1, <1>2, <1>3, <1>5, InterfaceSaysLine
<1>12. ASSUME NEW i \in DOMAIN s.peers PROVE PeerSays(t, i, s.peers[i])
  <2>1. i # 0
    BY DEF Shape
  <2>2. PeerSays(lines, i, s.peers[i]) /\ SectionOf(lines, Len(lines) + 1) # i
    BY <2>1, <1>2, <1>8 DEF Says
  <2> QED BY <2>2, <1>2, PeerSaysNext
<1> QED BY <1>2, <1>4, <1>7, <1>8, <1>9, <1>10, <1>11, <1>12 DEF Says

LEMMA KeyOfPeerKept ==
  ASSUME NEW lines \in Seq(TextLine), NEW l \in KeyLine, l \in TextLine,
         NEW s, Shape(s), Says(lines, s),
         s.section = "peer", l.key \in DOMAIN PeerKeys,
         NEW r, r = [s EXCEPT !.peers[Len(s.peers)] = Assign(@, l.key, PeerKeys[l.key], l.value)]
  PROVE  Shape(r) /\ Says(Append(lines, l), r)
<1>1. l.is = "line" /\ l.is \notin {"peer", "interface"} /\ l.value \in Seq(STRING)
  BY DEF KeyLine
<1>2. PICK t : t = Append(lines, l)
  OBVIOUS
<1>3. PICK p \in Seq(PeerRecord) : p = s.peers
  BY DEF Shape
<1>4. PICK n \in Nat : n = Len(p)
  OBVIOUS
<1>5. n \in 1 .. n /\ DOMAIN p = 1 .. n
  <2>1. p # <<>>
    BY <1>3 DEF Shape
  <2> QED BY <2>1, <1>4
<1>6. PICK new : new = Assign(p[n], l.key, PeerKeys[l.key], l.value)
  OBVIOUS
<1>7. p[n] \in PeerRecord /\ new \in PeerRecord
  <2>1. p[n] \in PeerRecord
    BY <1>4, <1>5
  <2> QED BY <2>1, <1>1, <1>6, PeerAssigned
<1>8. PICK q : q = [p EXCEPT ![n] = new]
  OBVIOUS
<1>9. /\ q \in Seq(PeerRecord) /\ Len(q) = n /\ DOMAIN q = 1 .. n /\ q # <<>>
      /\ q[n] = new /\ \A i \in 1 .. n - 1 : q[i] = p[i]
  BY <1>4, <1>5, <1>7, <1>8
<1>10. /\ DOMAIN r = DOMAIN s /\ r.section = "peer" /\ r.iface = s.iface
       /\ r.peers = q /\ r.ok = s.ok
  BY <1>3, <1>4, <1>6, <1>8 DEF Shape
<1>11. Shape(r)
  BY <1>9, <1>10 DEF Shape
<1>12. SectionOf(lines, Len(lines) + 1) = n /\ SectionNumber(r) = n
  BY <1>3, <1>4, <1>9, <1>10 DEF Says, SectionNumber
<1>13. Cardinality(PeerLines(t)) = n
  BY <1>1, <1>2, <1>3, <1>4, PeerLinesNext DEF Says
<1>14. SectionOf(t, Len(t) + 1) = n
  <2>1. Len(t) + 1 = Len(lines) + 2
    BY <1>2
  <2> QED BY <2>1, <1>1, <1>2, <1>12, SectionNext
<1>15. InterfaceSays(t, s.iface)
  <2>1. SectionOf(lines, Len(lines) + 1) # 0 /\ InterfaceSays(lines, s.iface)
    BY <1>5, <1>12 DEF Says
  <2> QED BY <2>1, <1>2, InterfaceSaysNext
<1>16. ASSUME NEW i \in DOMAIN q PROVE PeerSays(t, i, q[i])
  <2>1. PeerSays(lines, i, p[i])
    BY <1>3, <1>5, <1>9 DEF Says
  <2>2. CASE i = n
    BY <2>1, <2>2, <1>2, <1>6, <1>7, <1>9, <1>12, PeerSaysLine
  <2>3. CASE i # n
    <3>1. q[i] = p[i]
      BY <2>3, <1>9
    <3>2. PeerSays(t, i, p[i])
      BY <2>1, <2>3, <1>2, <1>12, PeerSaysNext
    <3> QED BY <3>1, <3>2
  <2> QED BY <2>2, <2>3
<1> QED BY <1>2, <1>9, <1>10, <1>11, <1>12, <1>13, <1>14, <1>15, <1>16 DEF Says

-----------------------------------------------------------------------------
(* The loop of load_from_str                                                *)

\* What holds of the parser after these lines.
Kept(lines, s) ==
  /\ lines \in Seq(TextLine)
  /\ Shape(s) /\ Admitted(s)
  /\ s.ok => Says(lines, s)

\* One turn of the loop.
LEMMA KeptNext ==
  ASSUME NEW lines, NEW l \in TextLine, NEW s, Kept(lines, s)
  PROVE  Kept(Append(lines, l), ReadLine(s, l))
<1>1. lines \in Seq(TextLine) /\ Shape(s) /\ (s.ok => Says(lines, s))
  BY DEF Kept
<1>2. Append(lines, l) \in Seq(TextLine) /\ Admitted(ReadLine(s, l))
  <2>1. Append(lines, l) \in Seq(TextLine)
    BY <1>1
  <2>2. Admitted(s)
    BY DEF Kept
  <2> QED BY <2>1, <2>2, <1>1, AdmittedNext
<1>3. CASE ~s.ok
  <2>1. ReadLine(s, l) = s
    BY <1>3, Zenon DEF ReadLine
  <2> QED BY <2>1, <1>1, <1>2, <1>3 DEF Kept
<1>4. CASE s.ok /\ l.is = "comment"
  BY <1>1, <1>2, <1>4, CommentKept DEF Kept, ReadLine
<1>5. CASE s.ok /\ l.is = "interface"
  <2>1. ReadLine(s, l) = [s EXCEPT !.section = "interface"]
    BY <1>5 DEF ReadLine
  <2> QED BY <2>1, <1>1, <1>2, <1>5, InterfaceKept DEF Kept
<1>6. CASE s.ok /\ l.is = "peer"
  <2>1. ReadLine(s, l) = [s EXCEPT !.section = "peer", !.peers = Append(@, PeerBuilder)]
    BY <1>6 DEF ReadLine
  <2> QED BY <2>1, <1>1, <1>2, <1>6, PeerKept DEF Kept
<1>7. CASE s.ok /\ l.is = "line" /\ l \in KeyLine
  <2>1. ReadLine(s, l) = KeyValue(s, l.key, l.value)
    BY <1>7 DEF ReadLine
  <2>2. PICK kinds : kinds = IF s.section = "interface" THEN InterfaceKeys ELSE PeerKeys
    OBVIOUS
  <2>3. CASE ReadLine(s, l) = Failed(s)
    <3>1. Shape(Failed(s)) /\ ~Failed(s).ok
      BY <1>1 DEF Shape, Failed
    <3> QED BY <3>1, <2>3, <1>2 DEF Kept
  <2>4. CASE s.section = "interface" /\ l.key \in DOMAIN InterfaceKeys
             /\ ReadLine(s, l) = [s EXCEPT !.iface = Assign(@, l.key, InterfaceKeys[l.key], l.value)]
    BY <2>4, <1>1, <1>2, <1>7, KeyOfInterfaceKept DEF Kept
  <2>5. CASE s.section = "peer" /\ l.key \in DOMAIN PeerKeys
             /\ ReadLine(s, l) =
                  [s EXCEPT !.peers[Len(s.peers)] = Assign(@, l.key, PeerKeys[l.key], l.value)]
    BY <2>5, <1>1, <1>2, <1>7, KeyOfPeerKept DEF Kept
  <2>6. s.section \in {"none", "interface", "peer"}
    BY <1>1 DEF Shape
  <2> QED BY <2>1, <2>3, <2>4, <2>5, <2>6 DEF KeyValue
<1> QED BY <1>3, <1>4, <1>5, <1>6, <1>7, LineIs

LEMMA ConcatNext ==
  ASSUME NEW E, NEW a \in Seq(E), NEW b \in Seq(E), NEW n \in Nat, n + 1 <= Len(b)
  PROVE  a \o SubSeq(b, 1, n + 1) = Append(a \o SubSeq(b, 1, n), b[n + 1])
<1>1. SubSeq(b, 1, n + 1) = Append(SubSeq(b, 1, n), b[n + 1])
  OBVIOUS
<1>2. SubSeq(b, 1, n) \in Seq(E) /\ b[n + 1] \in E
  OBVIOUS
<1>3. PICK c, e : c = SubSeq(b, 1, n) /\ e = b[n + 1]
  OBVIOUS
<1>4. a \o Append(c, e) = Append(a \o c, e)
  BY <1>2, <1>3
<1> QED BY <1>1, <1>3, <1>4

LEMMA ConcatEnds ==
  ASSUME NEW E, NEW a \in Seq(E), NEW b \in Seq(E)
  PROVE  a \o SubSeq(b, 1, 0) = a /\ a \o SubSeq(b, 1, Len(b)) = a \o b
<1>1. SubSeq(b, 1, 0) = <<>> /\ SubSeq(b, 1, Len(b)) = b
  OBVIOUS
<1> QED BY <1>1

\* The loop over a piece of the text.
LEMMA LoopKept ==
  ASSUME NEW lines, NEW s, Kept(lines, s), NEW piece \in Seq(TextLine)
  PROVE  Kept(lines \o piece, ReadLines(s, piece))
<1>1. lines \in Seq(TextLine)
  BY DEF Kept
<1>2. PICK k \in Nat : k = Len(piece)
  OBVIOUS
<1>3. PICK f : IsReading(s, piece, f, k) /\ ReadLines(s, piece) = f[k]
  BY <1>2, ReadLinesIs
<1> DEFINE Upper(n) == lines \o SubSeq(piece, 1, n)
<1> HIDE DEF Upper
<1> DEFINE N == {n \in Nat : n <= k => Kept(Upper(n), f[n])}
<1>4. 0 \in N
  <2>1. f[0] = ReadingAt(s, piece, f, 0)
    BY <1>3, ReadingStep
  <2>2. f[0] = s
    BY <2>1 DEF ReadingAt
  <2>3. lines \o SubSeq(piece, 1, 0) = lines
    BY <1>1, ConcatEnds
  <2> QED BY <2>2, <2>3 DEF Upper
<1>5. ASSUME NEW n \in Nat, n \in N PROVE n + 1 \in N
  <2> SUFFICES ASSUME n + 1 <= k PROVE Kept(Upper(n + 1), f[n + 1])
    OBVIOUS
  <2>1. PICK before : before = Upper(n) /\ Kept(before, f[n])
    BY <1>5
  <2>2. n + 1 \in 0 .. k /\ n + 1 # 0 /\ (n + 1) - 1 = n
    OBVIOUS
  <2>3. f[n + 1] = ReadingAt(s, piece, f, n + 1)
    BY <2>2, <1>3, ReadingStep
  <2>4. f[n + 1] = ReadLine(f[n], piece[n + 1])
    BY <2>2, <2>3, Zenon DEF ReadingAt
  <2>5. piece[n + 1] \in TextLine /\ n + 1 <= Len(piece)
    BY <1>2
  <2>6. Upper(n + 1) = Append(before, piece[n + 1])
    BY <2>1, <2>5, <1>1, ConcatNext DEF Upper
  <2>7. Kept(Append(before, piece[n + 1]), ReadLine(f[n], piece[n + 1]))
    BY <2>1, <2>5, KeptNext
  <2> QED BY <2>4, <2>6, <2>7
<1> HIDE DEF N
<1>6. k \in N
  BY <1>4, <1>5, InductionOnSets
<1>7. Kept(Upper(k), f[k])
  BY <1>6 DEF N
<1>8. Upper(k) = lines \o piece
  BY <1>1, <1>2, ConcatEnds DEF Upper
<1> QED BY <1>3, <1>7, <1>8

\* Before the first line.
LEMMA StartKept == Kept(<<>>, Start)
<1>1. PICK L : L = TextLine
  OBVIOUS
<1>2. PICK e : e = <<>> /\ e \in Seq(L)
  <2>1. <<>> \in Seq(L)
    OBVIOUS
  <2> QED BY <2>1
<1>3. Len(e) = 0 /\ DOMAIN e = {} /\ e \in Seq(TextLine)
  BY <1>1, <1>2
<1>4. Cardinality(PeerLines(e)) = 0
  <2>1. PeerLines(e) = {}
    BY <1>3 DEF PeerLines
  <2> QED BY <2>1, FS_EmptySet
<1>5. SectionOf(e, Len(e) + 1) = -1
  <2>1. Heads(e, 1) = {}
    BY DEF Heads
  <2>2. PICK H : H = Heads(e, 1)
    OBVIOUS
  <2>3. {j \in H : \A k \in H : k <= j} = {}
    BY <2>1, <2>2
  <2>4. SectionOf(e, 1) = -1
    BY <2>2, <2>3, Zenon DEF SectionOf, Heads
  <2> QED BY <2>4, <1>3
<1>6. ASSUME NEW key PROVE Given(e, 0, key) = <<>>
  <2>1. KeyPlaces(e, 0, key) = {}
    BY <1>3 DEF KeyPlaces
  <2> QED BY <2>1, <1>3, NothingGiven
<1>7. InterfaceSays(e, InterfaceBuilder)
  <2>1. Ips(<<>>) = <<>> /\ Domains(<<>>) = <<>>
    <3>1. \A I : Picked(<<>>, I) = <<>>
      <4> SUFFICES ASSUME NEW I PROVE Picked(<<>>, I) = <<>>
        OBVIOUS
      <4>1. Picked(e, I) \in Seq({})
        <5>1. \A i \in 1 .. Len(e) : i \in I => e[i] \in {}
          BY <1>3
        <5> QED BY <5>1, <1>3, PickedWithin
      <4>2. Picked(e, I) = <<>>
        BY <4>1
      <4> QED BY <4>2, <1>2
    <3> QED BY <3>1, Zenon DEF Ips, Domains
  <2>2. InterfaceBuilder["search"] = <<>>
    BY DEF InterfaceBuilder
  <2>3. ASSUME NEW key \in DOMAIN InterfaceKeys
        PROVE  InterfaceBuilder[key] = Means(<<>>, InterfaceKeys[key])
    <3>1. PICK kind : kind = InterfaceKeys[key]
      OBVIOUS
    <3>2. key # "search"
      BY KindsAre
    <3>3. InterfaceBuilder[key] = Unset(kind)
      BY <3>1, <3>2 DEF InterfaceBuilder
    <3>4. CASE kind \in {"all", "line", "dns"}
      <4>1. Unset(kind) = <<>>
        BY <3>4 DEF Unset
      <4>2. Means(<<>>, kind) = <<>>
        BY <3>4, <2>1, FlattenNone DEF Means
      <4> QED BY <4>1, <4>2, <3>1, <3>3
    <3>5. CASE kind \notin {"all", "line", "dns"}
      BY <3>1, <3>3, <3>5 DEF Means
    <3> QED BY <3>4, <3>5
  <2> QED BY <2>1, <2>2, <2>3, <1>6, FlattenNone DEF InterfaceSays
<1>8. Shape(Start)
  <2>1. DOMAIN InterfaceBuilder = DOMAIN InterfaceKeys \cup {"search"}
    BY DEF InterfaceBuilder
  <2>2. <<>> \in Seq(PeerRecord)
    OBVIOUS
  <2> QED BY <2>1, <2>2 DEF Shape, Start
<1>9. Says(e, Start)
  BY <1>3, <1>4, <1>5, <1>7 DEF Says, Start, SectionNumber
<1> QED BY <1>2, <1>3, <1>8, <1>9, StartAdmitted DEF Kept

-----------------------------------------------------------------------------
(* The inductive invariant of the reader                                    *)

ReaderInv == text \in Seq(Seq(TextLine)) /\ Kept(FlattenSeq(text), parsed)

LEMMA ReaderInitInv == ReaderInit => ReaderInv
<1> SUFFICES ASSUME ReaderInit PROVE ReaderInv
  OBVIOUS
<1>1. text = <<>> /\ parsed = Start
  BY DEF ReaderInit
<1>2. PICK T : T = Seq(TextLine)
  OBVIOUS
<1>3. <<>> \in Seq(T)
  OBVIOUS
<1>4. Kept(FlattenSeq(<<>>), Start)
  BY StartKept, FlattenNone, Zenon
<1> QED BY <1>1, <1>2, <1>3, <1>4 DEF ReaderInv

LEMMA ReaderStepInv == ReaderInv /\ [ReaderNext]_readerVars => ReaderInv'
<1> SUFFICES ASSUME ReaderInv, [ReaderNext]_readerVars PROVE ReaderInv'
  OBVIOUS
<1>1. CASE NextFile
  <2>1. ReaderInit'
    BY <1>1 DEF NextFile, ReaderInit
  <2>2. text' = <<>> /\ parsed' = Start
    BY <1>1 DEF NextFile
  <2>3. PICK T : T = Seq(TextLine)
    OBVIOUS
  <2>4. <<>> \in Seq(T)
    OBVIOUS
  <2>5. Kept(FlattenSeq(<<>>), Start)
    BY StartKept, FlattenNone, Zenon
  <2> QED BY <2>2, <2>3, <2>4, <2>5 DEF ReaderInv
<1>2. ASSUME NEW piece \in Pieces, ReadNext(piece) PROVE ReaderInv'
  <2>1. piece \in Seq(TextLine)
    BY ReaderAssumption
  <2>2. text' = Append(text, piece) /\ parsed' = ReadLines(parsed, piece)
    BY <1>2 DEF ReadNext
  <2>3. text \in Seq(Seq(TextLine)) /\ Kept(FlattenSeq(text), parsed)
    BY DEF ReaderInv
  <2>4. PICK T : T = Seq(TextLine)
    OBVIOUS
  <2>5. text' \in Seq(T)
    BY <2>1, <2>2, <2>3, <2>4
  <2>6. FlattenSeq(Append(text, piece)) = FlattenSeq(text) \o piece
    BY <2>1, <2>3, FlattenAppend
  <2>7. Kept(FlattenSeq(text) \o piece, ReadLines(parsed, piece))
    BY <2>1, <2>3, LoopKept
  <2> QED BY <2>2, <2>4, <2>5, <2>6, <2>7 DEF ReaderInv
<1>3. CASE UNCHANGED readerVars
  BY <1>3 DEF ReaderInv, readerVars
<1> QED BY <1>1, <1>2, <1>3 DEF ReaderNext

LEMMA ReaderInvSays == ReaderInv => ParsedAsWritten
<1> SUFFICES ASSUME ReaderInv, NEW conn \in Parsed(parsed)
             PROVE  /\ Len(conn.peers) = Cardinality(PeerLines(FlattenSeq(text)))
                    /\ InterfaceSays(FlattenSeq(text), conn.iface)
                    /\ \A i \in DOMAIN conn.peers :
                         PeerSays(FlattenSeq(text), i, conn.peers[i])
  BY DEF ParsedAsWritten, PeerLines, InterfaceSays, PeerSays
<1>1. parsed.ok /\ conn.iface = parsed.iface /\ conn.peers = parsed.peers
  BY DEF Parsed
<1>2. Says(FlattenSeq(text), parsed)
  BY <1>1 DEF ReaderInv, Kept
<1> QED BY <1>1, <1>2 DEF Says

-----------------------------------------------------------------------------
(* Reading one text after another                                           *)

LEMMA ReadingsAgree ==
  ASSUME NEW s, NEW a, NEW b, NEW f, NEW g, NEW k \in Nat, NEW l \in Nat, k <= l,
         IsReading(s, a, f, k), IsReading(s, b, g, l), \A i \in 1 .. k : a[i] = b[i]
  PROVE  f[k] = g[k]
<1> DEFINE N == {n \in Nat : n <= k => f[n] = g[n]}
<1>1. 0 \in N
  <2>1. f[0] = ReadingAt(s, a, f, 0) /\ g[0] = ReadingAt(s, b, g, 0)
    BY ReadingStep
  <2> QED BY <2>1 DEF ReadingAt
<1>2. ASSUME NEW n \in Nat, n \in N PROVE n + 1 \in N
  <2> SUFFICES ASSUME n + 1 <= k PROVE f[n + 1] = g[n + 1]
    OBVIOUS
  <2>1. PICK m \in Nat : m = n + 1
    OBVIOUS
  <2>2. m \in 0 .. k /\ m \in 0 .. l /\ m # 0 /\ m - 1 = n
    BY <2>1
  <2>3. f[m] = ReadingAt(s, a, f, m) /\ a[m] = b[m]
    BY <2>2, ReadingStep
  <2>4. g[m] = ReadingAt(s, b, g, m)
    BY <2>2, ReadingStep
  <2>5. f[m - 1] = g[m - 1]
    BY <1>2, <2>2
  <2>6. ReadingAt(s, a, f, m) = ReadingAt(s, b, g, m)
    BY <2>2, <2>3, <2>5, Zenon DEF ReadingAt
  <2> QED BY <2>1, <2>3, <2>4, <2>6
<1> HIDE DEF N
<1>3. k \in N
  BY <1>1, <1>2, InductionOnSets
<1> QED BY <1>3 DEF N

LEMMA ReadNone == ASSUME NEW s, NEW a, Len(a) = 0 PROVE ReadLines(s, a) = s
<1>1. PICK k \in Nat : k = 0
  OBVIOUS
<1>2. PICK f : IsReading(s, a, f, k) /\ ReadLines(s, a) = f[k]
  BY <1>1, ReadLinesIs
<1>3. f[0] = ReadingAt(s, a, f, 0)
  BY <1>1, <1>2, ReadingStep
<1> QED BY <1>1, <1>2, <1>3 DEF ReadingAt

LEMMA ReadAppend ==
  ASSUME NEW s, NEW E, NEW a \in Seq(E), NEW l \in E
  PROVE  ReadLines(s, Append(a, l)) = ReadLine(ReadLines(s, a), l)
<1>1. PICK k \in Nat : k = Len(a)
  OBVIOUS
<1>2. PICK b : b = Append(a, l)
  OBVIOUS
<1>3. Len(b) = k + 1 /\ b[k + 1] = l /\ \A i \in 1 .. k : a[i] = b[i]
  BY <1>1, <1>2
<1>4. PICK m \in Nat : m = k + 1
  OBVIOUS
<1>5. PICK f : IsReading(s, a, f, k) /\ ReadLines(s, a) = f[k]
  BY <1>1, ReadLinesIs
<1>6. PICK g : IsReading(s, b, g, m) /\ ReadLines(s, b) = g[m]
  BY <1>3, <1>4, ReadLinesIs
<1>7. f[k] = g[k]
  <2>1. k <= m
    BY <1>4
  <2>2. \A i \in 1 .. k : a[i] = b[i]
    BY <1>3
  <2>3. IsReading(s, a, f, k) /\ IsReading(s, b, g, m)
    BY <1>5, <1>6
  <2> QED BY <2>1, <2>2, <2>3, ReadingsAgree
<1>8. m \in 0 .. m /\ m # 0 /\ m - 1 = k
  BY <1>4
<1>9. g[m] = ReadingAt(s, b, g, m)
  BY <1>6, <1>8, ReadingStep
<1>10. g[m] = ReadLine(g[k], l)
  BY <1>3, <1>4, <1>8, <1>9, Zenon DEF ReadingAt
<1> QED BY <1>2, <1>5, <1>6, <1>7, <1>10

LEMMA ReadConcat ==
  ASSUME NEW s, NEW E, NEW a \in Seq(E), NEW b \in Seq(E)
  PROVE  ReadLines(s, a \o b) = ReadLines(ReadLines(s, a), b)
<1> DEFINE Upto(n) == SubSeq(b, 1, n)
<1> HIDE DEF Upto
<1>1. PICK k \in Nat : k = Len(b)
  OBVIOUS
<1> DEFINE N == {n \in Nat : n <= k => ReadLines(s, a \o Upto(n)) = ReadLines(ReadLines(s, a), Upto(n))}
<1>2. 0 \in N
  <2>1. a \o Upto(0) = a /\ Len(Upto(0)) = 0
    BY ConcatEnds DEF Upto
  <2>2. ReadLines(ReadLines(s, a), Upto(0)) = ReadLines(s, a)
    BY <2>1, ReadNone
  <2> QED BY <2>1, <2>2
<1>3. ASSUME NEW n \in Nat, n \in N PROVE n + 1 \in N
  <2> SUFFICES ASSUME n + 1 <= k
               PROVE  ReadLines(s, a \o Upto(n + 1)) = ReadLines(ReadLines(s, a), Upto(n + 1))
    OBVIOUS
  <2>1. PICK before, l : before = Upto(n) /\ l = b[n + 1]
    OBVIOUS
  <2>2. before \in Seq(E) /\ l \in E /\ a \o before \in Seq(E)
    <3>1. before \in Seq(E)
      BY <2>1, <1>1 DEF Upto
    <3>2. l \in E
      BY <2>1, <1>1
    <3> QED BY <3>1, <3>2
  <2>3. Upto(n + 1) = Append(before, l)
    BY <2>1, <1>1 DEF Upto
  <2>4. a \o Upto(n + 1) = Append(a \o before, l)
    <3>1. a \o Append(before, l) = Append(a \o before, l)
      BY <2>2, ConcatAppend
    <3> QED BY <3>1, <2>3
  <2>5. ReadLines(s, a \o before) = ReadLines(ReadLines(s, a), before)
    BY <1>3, <2>1
  <2>6. ReadLines(s, Append(a \o before, l)) = ReadLine(ReadLines(s, a \o before), l)
    BY <2>2, ReadAppend
  <2>7. ReadLines(ReadLines(s, a), Append(before, l)) = ReadLine(ReadLines(ReadLines(s, a), before), l)
    BY <2>2, ReadAppend
  <2> QED BY <2>3, <2>4, <2>5, <2>6, <2>7
<1> HIDE DEF N
<1>4. k \in N
  BY <1>2, <1>3, InductionOnSets
<1>5. ReadLines(s, a \o Upto(k)) = ReadLines(ReadLines(s, a), Upto(k))
  BY <1>4 DEF N
<1>6. Upto(k) = b
  BY <1>1 DEF Upto
<1> QED BY <1>5, <1>6

\* Reading what is written part by part.
LEMMA ReadFlattened ==
  ASSUME NEW E, NEW parts \in Seq(Seq(E)), NEW k \in Nat, k = Len(parts), NEW st,
         \A i \in 1 .. k : ReadLines(st[i - 1], parts[i]) = st[i]
  PROVE  ReadLines(st[0], FlattenSeq(parts)) = st[k]
<1>1. CASE k = 0
  <2>1. parts = <<>>
    BY <1>1, EmptyIs
  <2>2. Len(FlattenSeq(parts)) = 0
    BY <2>1, FlattenNone
  <2> QED BY <2>2, <1>1, ReadNone
<1>2. CASE k # 0
  <2>1. PICK f : IsFlattening(parts, f, k) /\ FlattenSeq(parts) = f[k]
    BY <1>2, FlattenedIs
  <2> DEFINE N == {n \in Nat : n + 1 <= k =>
                     f[n + 1] \in Seq(E) /\ ReadLines(st[0], f[n + 1]) = st[n + 1]}
  <2>2. 0 \in N
    <3>1. 1 \in 1 .. k /\ 1 - 1 = 0
      BY <1>2
    <3>2. f[1] = FlatteningAt(parts, f, 1)
      BY <2>1, <3>1, FlatteningStep
    <3>3. f[1] = parts[1]
      BY <3>2 DEF FlatteningAt
    <3>4. parts[1] \in Seq(E)
      BY <3>1, ElementIs
    <3>5. ReadLines(st[1 - 1], parts[1]) = st[1]
      BY <3>1
    <3> QED BY <3>1, <3>3, <3>4, <3>5
  <2>3. ASSUME NEW n \in Nat, n \in N PROVE n + 1 \in N
    <3> SUFFICES ASSUME (n + 1) + 1 <= k
                 PROVE  /\ f[(n + 1) + 1] \in Seq(E)
                        /\ ReadLines(st[0], f[(n + 1) + 1]) = st[(n + 1) + 1]
      OBVIOUS
    <3>1. PICK m \in Nat : m = (n + 1) + 1
      OBVIOUS
    <3>2. m \in 1 .. k /\ m # 1 /\ m - 1 = n + 1
      BY <3>1
    <3>3. f[m] = FlatteningAt(parts, f, m)
      BY <2>1, <3>2, FlatteningStep
    <3>4. PICK before, part : before = f[m - 1] /\ part = parts[m]
      OBVIOUS
    <3>5. before \in Seq(E) /\ ReadLines(st[0], before) = st[m - 1]
      BY <2>3, <3>2, <3>4
    <3>6. part \in Seq(E)
      BY <3>2, <3>4, ElementIs
    <3>7. f[m] = before \o part
      BY <3>2, <3>3, <3>4, Zenon DEF FlatteningAt
    <3>8. ReadLines(st[0], before \o part) = ReadLines(ReadLines(st[0], before), part)
      BY <3>5, <3>6, ReadConcat
    <3>9. ReadLines(st[m - 1], part) = st[m]
      BY <3>2, <3>4
    <3>10. before \o part \in Seq(E)
      BY <3>5, <3>6
    <3> QED BY <3>1, <3>5, <3>7, <3>8, <3>9, <3>10
  <2> HIDE DEF N
  <2>4. Nat \subseteq N
    BY <2>2, <2>3, InductionOnSets
  <2>5. k - 1 \in N /\ (k - 1) + 1 = k
    BY <1>2, <2>4
  <2> QED BY <2>1, <2>5 DEF N
<1> QED BY <1>1, <1>2

-----------------------------------------------------------------------------
(* What is read can be written                                              *)

LEMMA SeqWider == ASSUME NEW S, NEW T, S \subseteq T, NEW s \in Seq(S) PROVE s \in Seq(T)
OBVIOUS

LEMMA PickedAll ==
  ASSUME NEW E, NEW s \in Seq(E), NEW I, \A i \in 1 .. Len(s) : i \in I
  PROVE  Picked(s, I) = s
<1>1. PICK k \in Nat : k = Len(s)
  OBVIOUS
<1>2. PICK g : IsPicking(s, I, g, k) /\ Picked(s, I) = g[k]
  BY <1>1, PickedIs
<1> DEFINE Upto(n) == SubSeq(s, 1, n)
<1> HIDE DEF Upto
<1> DEFINE N == {n \in Nat : n <= k => g[n] = Upto(n)}
<1>3. 0 \in N
  <2>1. g[0] = <<>>
    BY <1>2, PickingStarts
  <2>2. Upto(0) = <<>>
    BY DEF Upto
  <2> QED BY <2>1, <2>2
<1>4. ASSUME NEW n \in Nat, n \in N PROVE n + 1 \in N
  <2> SUFFICES ASSUME n + 1 <= k PROVE g[n + 1] = Upto(n + 1)
    OBVIOUS
  <2>1. g[n + 1] = IF n + 1 \in I THEN Append(g[n], s[n + 1]) ELSE g[n]
    BY <1>2, PickingNext
  <2>2. n + 1 \in I
    BY <1>1
  <2>3. Upto(n + 1) = Append(Upto(n), s[n + 1])
    BY <1>1 DEF Upto
  <2>4. g[n] = Upto(n)
    BY <1>4
  <2> QED BY <2>1, <2>2, <2>3, <2>4
<1> HIDE DEF N
<1>5. k \in N
  BY <1>3, <1>4, InductionOnSets
<1>6. g[k] = Upto(k)
  BY <1>5 DEF N
<1>7. Upto(k) = s
  BY <1>1 DEF Upto
<1> QED BY <1>2, <1>6, <1>7

LEMMA PickedNothing ==
  ASSUME NEW E, NEW s \in Seq(E), NEW I, \A i \in 1 .. Len(s) : i \notin I
  PROVE  Picked(s, I) = <<>>
<1>1. Picked(s, I) \in Seq({})
  <2>1. \A i \in 1 .. Len(s) : i \in I => s[i] \in {}
    OBVIOUS
  <2> QED BY <2>1, PickedWithin
<1> QED BY <1>1

IpTokens == STRING \cap Ip
DomainTokens == {t \in STRING : t \notin Ip \cup {""}}

LEMMA DnsPicked ==
  ASSUME NEW s \in Seq(STRING)
  PROVE  Ips(s) \in Seq(IpTokens) /\ Domains(s) \in Seq(DomainTokens)
<1>1. PICK E : E = STRING /\ s \in Seq(E)
  OBVIOUS
<1>2. Ips(s) \in Seq(IpTokens)
  <2>1. PICK I : I = {i \in DOMAIN s : s[i] \in Ip}
    OBVIOUS
  <2>2. \A i \in 1 .. Len(s) : i \in I => s[i] \in IpTokens
    BY <2>1 DEF IpTokens
  <2>3. Picked(s, I) \in Seq(IpTokens)
    BY <2>2, <1>1, PickedWithin
  <2> QED BY <2>1, <2>3 DEF Ips
<1>3. Domains(s) \in Seq(DomainTokens)
  <2>1. PICK I : I = {i \in DOMAIN s : s[i] \notin Ip \cup {""}}
    OBVIOUS
  <2>2. ASSUME NEW i \in 1 .. Len(s), i \in I PROVE s[i] \in DomainTokens
    <3>1. s[i] \in E
      BY <1>1, ElementIs
    <3>2. s[i] \notin Ip \cup {""}
      BY <2>1, <2>2
    <3> QED BY <3>1, <3>2, <1>1 DEF DomainTokens
  <2>3. Picked(s, I) \in Seq(DomainTokens)
    BY <2>2, <1>1, PickedWithin
  <2> QED BY <2>1, <2>3 DEF Domains
<1> QED BY <1>2, <1>3

\* The addresses and the domains, written one after the other, come apart again.
LEMMA DnsApart ==
  ASSUME NEW a \in Seq(IpTokens), NEW d \in Seq(DomainTokens)
  PROVE  Ips(a \o d) = a /\ Domains(a \o d) = d
<1>1. a \in Seq(STRING) /\ d \in Seq(STRING)
  <2>1. IpTokens \subseteq STRING /\ DomainTokens \subseteq STRING
    BY DEF IpTokens, DomainTokens
  <2> QED BY <2>1, SeqWider
<1>2. Ips(a \o d) = Ips(a) \o Ips(d) /\ Domains(a \o d) = Domains(a) \o Domains(d)
  BY <1>1, IpsConcat
<1>3. \A i \in 1 .. Len(a) : a[i] \in Ip /\ i \in DOMAIN a
  BY DEF IpTokens
<1>4. \A i \in 1 .. Len(d) : d[i] \notin Ip \cup {""} /\ i \in DOMAIN d
  <2> SUFFICES ASSUME NEW i \in 1 .. Len(d) PROVE d[i] \notin Ip \cup {""} /\ i \in DOMAIN d
    OBVIOUS
  <2>1. d[i] \in DomainTokens /\ i \in DOMAIN d
    OBVIOUS
  <2> QED BY <2>1 DEF DomainTokens
<1>5. Ips(a) = a
  <2>1. PICK I : I = {i \in DOMAIN a : a[i] \in Ip}
    OBVIOUS
  <2>2. \A i \in 1 .. Len(a) : i \in I
    BY <2>1, <1>3
  <2> QED BY <2>1, <2>2, PickedAll DEF Ips
<1>6. Ips(d) = <<>>
  <2>1. PICK I : I = {i \in DOMAIN d : d[i] \in Ip}
    OBVIOUS
  <2>2. \A i \in 1 .. Len(d) : i \notin I
    BY <2>1, <1>4
  <2> QED BY <2>1, <2>2, PickedNothing DEF Ips
<1>7. Domains(a) = <<>>
  <2>1. PICK I : I = {i \in DOMAIN a : a[i] \notin Ip \cup {""}}
    OBVIOUS
  <2>2. \A i \in 1 .. Len(a) : i \notin I
    BY <2>1, <1>3
  <2> QED BY <2>1, <2>2, PickedNothing DEF Domains
<1>8. Domains(d) = d
  <2>1. PICK I : I = {i \in DOMAIN d : d[i] \notin Ip \cup {""}}
    OBVIOUS
  <2>2. \A i \in 1 .. Len(d) : i \in I
    BY <2>1, <1>4
  <2> QED BY <2>1, <2>2, PickedAll DEF Domains
<1> QED BY <1>2, <1>5, <1>6, <1>7, <1>8, ConcatNone

InterfaceWritable(iface) ==
  /\ DOMAIN iface = DOMAIN InterfaceKeys \cup {"search"}
  /\ iface.DNS \in Seq(IpTokens) /\ iface.search \in Seq(DomainTokens)
  /\ \A key \in DOMAIN InterfaceKeys :
       /\ Fits(InterfaceKeys[key], iface[key])
       /\ InterfaceKeys[key] = "line" => iface[key] \in Seq(Seq(Tokens))
       /\ InterfaceKeys[key] \notin {"line", "dns"} => iface[key] \in Seq(Tokens)

LEMMA MeansType ==
  ASSUME NEW given \in Seq(Seq(STRING)), NEW kind
  PROVE  /\ kind = "line" => Means(given, kind) \in Seq(Seq(Tokens))
         /\ kind = "dns" => Means(given, kind) \in Seq(IpTokens)
         /\ kind \notin {"line", "dns"} => Means(given, kind) \in Seq(Tokens)
<1>1. STRING \subseteq Tokens
  BY DEF Tokens
<1>2. Seq(STRING) \subseteq Seq(Tokens)
  BY <1>1, SeqWider
<1>3. FlattenSeq(given) \in Seq(STRING)
  BY FlattenType
<1>4. CASE kind = "line"
  <2>1. PICK V, W : V = Seq(STRING) /\ W = Seq(Tokens)
    OBVIOUS
  <2>2. given \in Seq(V) /\ V \subseteq W
    BY <2>1, <1>2
  <2>3. given \in Seq(W)
    BY <2>2
  <2> QED BY <2>1, <2>3, <1>4 DEF Means
<1>5. CASE kind = "dns"
  BY <1>3, <1>5, DnsPicked DEF Means
<1>6. CASE kind = "all"
  BY <1>2, <1>3, <1>6 DEF Means
<1>7. CASE kind \notin {"line", "dns", "all"}
  <2>1. CASE given = <<>>
    <3>1. Unset(kind) \in Seq(Tokens)
      BY UnsetType
    <3> QED BY <3>1, <2>1, <1>7 DEF Means
  <2>2. CASE given # <<>>
    <3>1. PICK V : V = Seq(STRING)
      OBVIOUS
    <3>2. given[Len(given)] \in V
      <4>1. given \in Seq(V)
        BY <3>1
      <4> QED BY <4>1, <2>2
    <3> QED BY <3>1, <3>2, <1>2, <1>7, <2>2 DEF Means, Last
  <2> QED BY <2>1, <2>2
<1> QED BY <1>4, <1>5, <1>6, <1>7

LEMMA ParsedWritable ==
  ASSUME NEW lines, NEW s, Kept(lines, s), s.ok
  PROVE  /\ InterfaceWritable(s.iface) /\ s.peers \in Seq(PeerRecord)
         /\ \A i \in DOMAIN s.peers : PeerFits(s.peers[i])
<1>1. lines \in Seq(TextLine) /\ Shape(s) /\ Admitted(s) /\ Says(lines, s)
  BY DEF Kept
<1>2. PICK iface : iface = s.iface /\ InterfaceSays(lines, iface)
  BY <1>1 DEF Says
<1>3. ASSUME NEW key \in DOMAIN InterfaceKeys
      PROVE  /\ InterfaceKeys[key] = "line" => iface[key] \in Seq(Seq(Tokens))
             /\ InterfaceKeys[key] = "dns" => iface[key] \in Seq(IpTokens)
             /\ InterfaceKeys[key] \notin {"line", "dns"} => iface[key] \in Seq(Tokens)
  <2>1. iface[key] = Means(Given(lines, 0, key), InterfaceKeys[key])
    BY <1>2 DEF InterfaceSays
  <2>2. PICK given, kind : /\ given = Given(lines, 0, key) /\ given \in Seq(Seq(STRING))
                           /\ kind = InterfaceKeys[key]
    BY <1>1, GivenType
  <2>3. /\ kind = "line" => Means(given, kind) \in Seq(Seq(Tokens))
        /\ kind = "dns" => Means(given, kind) \in Seq(IpTokens)
        /\ kind \notin {"line", "dns"} => Means(given, kind) \in Seq(Tokens)
    BY <2>2, MeansType
  <2> QED BY <2>1, <2>2, <2>3
<1>4. iface["DNS"] \in Seq(IpTokens)
  <2>1. "DNS" \in DOMAIN InterfaceKeys /\ InterfaceKeys["DNS"] = "dns"
    BY KindsAre
  <2> QED BY <2>1, <1>3
<1>5. iface["search"] \in Seq(DomainTokens)
  <2>1. PICK given : given = FlattenSeq(Given(lines, 0, "DNS")) /\ given \in Seq(STRING)
    <3>1. Given(lines, 0, "DNS") \in Seq(Seq(STRING))
      BY <1>1, GivenType
    <3> QED BY <3>1, FlattenType
  <2> QED BY <2>1, <1>2, DnsPicked DEF InterfaceSays
<1>6. \A key \in DOMAIN InterfaceKeys : Fits(InterfaceKeys[key], iface[key])
  BY <1>1, <1>2 DEF Admitted
<1>7. InterfaceWritable(iface)
  BY <1>1, <1>2, <1>3, <1>4, <1>5, <1>6 DEF InterfaceWritable, Shape
<1> QED BY <1>1, <1>2, <1>7 DEF Shape, Admitted

-----------------------------------------------------------------------------
(* What is written is read again                                            *)

\* The lines that export_to_string writes.
Written ==
  {InterfaceHeader, PeerHeader, Comment}
    \cup {Line(key, value) : key \in DOMAIN InterfaceKeys \cup DOMAIN PeerKeys, value \in Seq(Tokens)}

\* The parser without an error.
Reader(section, iface, peers) ==
  [section |-> section, iface |-> iface, peers |-> peers, ok |-> TRUE]

LEMMA InterfaceSet ==
  ASSUME NEW section, NEW iface, NEW peers, NEW new
  PROVE  [Reader(section, iface, peers) EXCEPT !.iface = new] = Reader(section, new, peers)
<1>1. PICK r : r = [Reader(section, iface, peers) EXCEPT !.iface = new]
  OBVIOUS
<1>2. /\ DOMAIN r = {"section", "iface", "peers", "ok"}
      /\ r.section = section /\ r.iface = new /\ r.peers = peers /\ r.ok = TRUE
  BY <1>1 DEF Reader
<1>3. r = [x \in {"section", "iface", "peers", "ok"} |-> r[x]]
  BY <1>1, <1>2 DEF Reader
<1> QED BY <1>1, <1>2, <1>3 DEF Reader

LEMMA ReadOne == ASSUME NEW s, NEW l PROVE ReadLines(s, <<l>>) = ReadLine(s, l)
<1>1. PICK E : E = {l}
  OBVIOUS
<1>2. l \in E
  BY <1>1
<1>3. <<>> \in Seq(E)
  OBVIOUS
<1>4. PICK e : e = <<>> /\ e \in Seq(E)
  BY <1>3
<1>5. ReadLines(s, Append(e, l)) = ReadLine(ReadLines(s, e), l)
  BY <1>2, <1>4, ReadAppend
<1>6. Append(e, l) = <<l>> /\ Len(e) = 0
  BY <1>4
<1> QED BY <1>5, <1>6, ReadNone

LEMMA ReadSteps ==
  ASSUME NEW lines, NEW k \in Nat, k = Len(lines), NEW st,
         \A n \in 1 .. k : ReadLine(st[n - 1], lines[n]) = st[n]
  PROVE  ReadLines(st[0], lines) = st[k]
<1>1. PICK s : s = st[0]
  OBVIOUS
<1>2. PICK f : IsReading(s, lines, f, k) /\ ReadLines(s, lines) = f[k]
  BY ReadLinesIs
<1> DEFINE N == {n \in Nat : n <= k => f[n] = st[n]}
<1>3. 0 \in N
  <2>1. f[0] = ReadingAt(s, lines, f, 0)
    BY <1>2, ReadingStep
  <2> QED BY <2>1, <1>1 DEF ReadingAt
<1>4. ASSUME NEW n \in Nat, n \in N PROVE n + 1 \in N
  <2> SUFFICES ASSUME n + 1 <= k PROVE f[n + 1] = st[n + 1]
    OBVIOUS
  <2>1. PICK m \in Nat : m = n + 1
    OBVIOUS
  <2>2. m \in 0 .. k /\ m # 0 /\ m - 1 = n /\ m \in 1 .. k
    BY <2>1
  <2>3. f[m] = ReadingAt(s, lines, f, m)
    BY <2>2, <1>2, ReadingStep
  <2>4. f[m] = ReadLine(f[m - 1], lines[m])
    BY <2>2, <2>3, Zenon DEF ReadingAt
  <2>5. f[m - 1] = st[m - 1]
    BY <2>2, <1>4
  <2>6. ReadLine(st[m - 1], lines[m]) = st[m]
    BY <2>2
  <2> QED BY <2>1, <2>4, <2>5, <2>6
<1> HIDE DEF N
<1>5. k \in N
  BY <1>3, <1>4, InductionOnSets
<1> QED BY <1>1, <1>2, <1>5 DEF N

LEMMA LineWritten ==
  ASSUME NEW key, key \in DOMAIN InterfaceKeys \cup DOMAIN PeerKeys, NEW v \in Seq(Tokens)
  PROVE  Line(key, v) \in Written
BY DEF Written

LEMMA LineFields ==
  ASSUME NEW key, NEW v
  PROVE  Line(key, v).is = "line" /\ Line(key, v).key = key /\ Line(key, v).value = v
BY DEF Line

LEMMA ReadInterfaceLine ==
  ASSUME NEW b, NEW peers, NEW key \in DOMAIN InterfaceKeys, NEW v, Admits(InterfaceKeys[key], v)
  PROVE  ReadLine(Reader("interface", b, peers), Line(key, v)) =
           Reader("interface", Assign(b, key, InterfaceKeys[key], v), peers)
<1>1. PICK s, l : s = Reader("interface", b, peers) /\ l = Line(key, v)
  OBVIOUS
<1>2. s.ok = TRUE /\ s.section = "interface" /\ s.iface = b /\ s.peers = peers
  BY <1>1 DEF Reader
<1>3. l.is = "line" /\ l.key = key /\ l.value = v
  BY <1>1, LineFields
<1>4. ReadLine(s, l) = KeyValue(s, key, v)
  BY <1>2, <1>3 DEF ReadLine
<1>5. KeyValue(s, key, v) = [s EXCEPT !.iface = Assign(@, key, InterfaceKeys[key], v)]
  BY <1>2 DEF KeyValue
<1>6. PICK new : new = Assign(b, key, InterfaceKeys[key], v)
  OBVIOUS
<1>7. KeyValue(s, key, v) = [s EXCEPT !.iface = new]
  BY <1>2, <1>5, <1>6
<1>8. [s EXCEPT !.iface = new] = Reader("interface", new, peers)
  BY <1>1, InterfaceSet
<1> QED BY <1>1, <1>4, <1>6, <1>7, <1>8

\* The fields of the interface that the lines of a key set.
Covers(key, field) == field = key \/ (key = "DNS" /\ field = "search")
InterfaceFields == DOMAIN InterfaceKeys \cup {"search"}
Put(b, iface, key) ==
  [field \in InterfaceFields |-> IF Covers(key, field) THEN iface[field] ELSE b[field]]

IsBuilder(b) ==
  DOMAIN b = InterfaceFields /\ b = [field \in InterfaceFields |-> b[field]]

LEMMA InterfaceFieldsAre ==
  InterfaceFields = {"PrivateKey", "ListenPort", "Address", "DNS", "MTU", "FwMark",
                     "PreUp", "PostUp", "PreDown", "PostDown", "search"}
BY KindsAre DEF InterfaceFields

LEMMA InterfaceKinds ==
  /\ InterfaceKeys["Address"] = "all" /\ InterfaceKeys["DNS"] = "dns"
  /\ \A key \in {"PreUp", "PostUp", "PreDown", "PostDown"} : InterfaceKeys[key] = "line"
  /\ \A key \in {"PrivateKey", "ListenPort", "MTU", "FwMark"} :
       InterfaceKeys[key] \in {"base64", "u16", "u32"}
BY DEF InterfaceKeys

\* A setting has one line.
LEMMA ReadSetting ==
  ASSUME NEW iface, InterfaceWritable(iface), NEW peers,
         NEW b, IsBuilder(b),
         NEW key \in DOMAIN InterfaceKeys, InterfaceKeys[key] \in {"base64", "u16", "u32"},
         b[key] = Unset(InterfaceKeys[key])
  PROVE  /\ ReadLines(Reader("interface", b, peers), ExportInterfaceKey(iface, key)) =
              Reader("interface", Put(b, iface, key), peers)
         /\ ExportInterfaceKey(iface, key) \in Seq(Written)
<1>1. PICK kind, v : kind = InterfaceKeys[key] /\ v = iface[key]
  OBVIOUS
<1>2. key \notin {"DNS", "Address"} /\ kind \notin {"line", "dns", "all"}
  BY <1>1, InterfaceKinds
<1>3. ExportInterfaceKey(iface, key) = OneLine(key, kind, v)
  BY <1>1, <1>2 DEF ExportInterfaceKey
<1>4. Fits(kind, v) /\ v \in Seq(Tokens)
  BY <1>1, <1>2 DEF InterfaceWritable
<1>5. \A field \in InterfaceFields : Covers(key, field) <=> field = key
  BY <1>2 DEF Covers
<1>6. CASE v = Unset(kind)
  <2>1. OneLine(key, kind, v) = <<>>
    BY <1>6 DEF OneLine
  <2>2. Put(b, iface, key) = [field \in InterfaceFields |-> b[field]]
    BY <1>1, <1>5, <1>6 DEF Put
  <2>3. Len(<<>>) = 0 /\ <<>> \in Seq(Written)
    OBVIOUS
  <2>4. Put(b, iface, key) = b
    BY <2>2 DEF IsBuilder
  <2> QED BY <2>1, <2>3, <2>4, <1>3, ReadNone
<1>7. CASE v # Unset(kind)
  <2>1. PICK l : l = Line(key, v)
    OBVIOUS
  <2>2. OneLine(key, kind, v) = <<l>>
    BY <2>1, <1>7 DEF OneLine
  <2>3. Admits(kind, v)
    BY <1>4, <1>7 DEF Fits
  <2>4. ReadLine(Reader("interface", b, peers), l) = Reader("interface", Assign(b, key, kind, v), peers)
    BY <2>1, <2>3, <1>1, ReadInterfaceLine
  <2>5. Assign(b, key, kind, v) = [b EXCEPT ![key] = v]
    BY <1>2 DEF Assign
  <2>6. [b EXCEPT ![key] = v] = Put(b, iface, key)
    BY <1>1, <1>5 DEF Put, IsBuilder
  <2>7. l \in Written
    BY <2>1, <1>4 DEF Written
  <2>8. <<l>> \in Seq(Written)
    BY <2>7, SingleIs
  <2> QED BY <2>2, <2>4, <2>5, <2>6, <2>8, <1>3, ReadOne
<1> QED BY <1>6, <1>7

\* A list has a line for each of its values; this one is the n-th.
ValueRead(b, peers, key, values, lines, n) ==
  ReadLine(Reader("interface", [b EXCEPT ![key] = SubSeq(values, 1, n - 1)], peers), lines[n]) =
    Reader("interface", [b EXCEPT ![key] = Append(SubSeq(values, 1, n - 1), values[n])], peers)

LEMMA ReadList ==
  ASSUME NEW b, IsBuilder(b),
         NEW peers, NEW key \in DOMAIN InterfaceKeys, b[key] = <<>>,
         NEW V, NEW values \in Seq(V), NEW lines, NEW k \in Nat, k = Len(values), Len(lines) = k,
         \A n \in 1 .. k : ValueRead(b, peers, key, values, lines, n)
  PROVE  ReadLines(Reader("interface", b, peers), lines) =
           Reader("interface", [b EXCEPT ![key] = values], peers)
<1>1. k = Len(values) /\ k = Len(lines)
  OBVIOUS
<1>2. PICK st : st = [n \in 0 .. k |-> Reader("interface", [b EXCEPT ![key] = SubSeq(values, 1, n)], peers)]
  OBVIOUS
<1>3. ASSUME NEW n \in 1 .. k PROVE ReadLine(st[n - 1], lines[n]) = st[n]
  <2>1. n - 1 \in 0 .. k /\ n \in 0 .. k
    OBVIOUS
  <2>2. st[n - 1] = Reader("interface", [b EXCEPT ![key] = SubSeq(values, 1, n - 1)], peers)
    BY <2>1, <1>2
  <2>3. st[n] = Reader("interface", [b EXCEPT ![key] = SubSeq(values, 1, n)], peers)
    BY <2>1, <1>2
  <2>4. SubSeq(values, 1, n) = Append(SubSeq(values, 1, n - 1), values[n])
    BY <1>1
  <2>5. ValueRead(b, peers, key, values, lines, n)
    OBVIOUS
  <2> QED BY <2>2, <2>3, <2>4, <2>5 DEF ValueRead
<1>4. ReadLines(st[0], lines) = st[k]
  BY <1>1, <1>3, ReadSteps
<1>5. SubSeq(values, 1, 0) = <<>> /\ SubSeq(values, 1, k) = values
  BY <1>1
<1>6. st[0] = Reader("interface", [b EXCEPT ![key] = SubSeq(values, 1, 0)], peers)
  BY <1>2
<1>7. st[k] = Reader("interface", [b EXCEPT ![key] = SubSeq(values, 1, k)], peers)
  BY <1>2
<1>8. [b EXCEPT ![key] = <<>>] = b
  BY DEF IsBuilder
<1> QED BY <1>4, <1>5, <1>6, <1>7, <1>8

LEMMA PutIs ==
  ASSUME NEW b, IsBuilder(b), NEW iface, NEW key \in InterfaceFields, key # "DNS"
  PROVE  [b EXCEPT ![key] = iface[key]] = Put(b, iface, key)
<1>1. \A field \in InterfaceFields : Covers(key, field) <=> field = key
  BY DEF Covers
<1> QED BY <1>1 DEF Put, IsBuilder

LEMMA ReadAddresses ==
  ASSUME NEW iface, InterfaceWritable(iface), NEW peers, NEW b, IsBuilder(b),
         NEW key \in DOMAIN InterfaceKeys, InterfaceKeys[key] = "all", b[key] = <<>>
  PROVE  /\ ReadLines(Reader("interface", b, peers), ExportInterfaceKey(iface, key)) =
              Reader("interface", Put(b, iface, key), peers)
         /\ ExportInterfaceKey(iface, key) \in Seq(Written)
<1>1. key = "Address"
  BY KindsAre, InterfaceKinds
<1>2. PICK A : A = iface[key]
  OBVIOUS
<1>3. A \in Seq(Tokens)
  BY <1>2 DEF InterfaceWritable
<1>4. PICK k \in Nat : k = Len(A) /\ DOMAIN A = 1 .. k
  BY <1>3
<1>5. PICK lines : lines = [i \in 1 .. k |-> Line(key, <<A[i]>>)]
  OBVIOUS
<1>6. ExportInterfaceKey(iface, key) = lines
  <2>1. key # "DNS" /\ InterfaceKeys[key] # "line"
    BY <1>1
  <2> QED BY <2>1, <1>1, <1>2, <1>4, <1>5 DEF ExportInterfaceKey
<1>7. lines \in Seq(Written) /\ Len(lines) = k
  <2>1. ASSUME NEW i \in 1 .. k PROVE Line(key, <<A[i]>>) \in Written
    <3>1. A[i] \in Tokens
      BY <1>3, <1>4
    <3>2. PICK v : v = <<A[i]>> /\ v \in Seq(Tokens)
      <4>1. PICK e \in Tokens : e = A[i]
        BY <3>1
      <4>2. <<e>> \in Seq(Tokens)
        BY SingleIs
      <4> QED BY <4>1, <4>2
    <3>3. Line(key, v) \in Written
      BY <3>2, LineWritten
    <3> QED BY <3>2, <3>3
  <2>2. lines \in [1 .. k -> Written]
    BY <2>1, <1>5
  <2> QED BY <2>2, FunctionIsSequence
<1>8. ASSUME NEW n \in 1 .. k
      PROVE  ValueRead(b, peers, key, A, lines, n)
  <2>1. PICK c, v : c = [b EXCEPT ![key] = SubSeq(A, 1, n - 1)] /\ v = <<A[n]>>
    OBVIOUS
  <2>2. lines[n] = Line(key, v)
    BY <2>1, <1>5
  <2>3. Admits(InterfaceKeys[key], v)
    BY <1>2 DEF Admits
  <2>4. ReadLine(Reader("interface", c, peers), Line(key, v)) =
          Reader("interface", Assign(c, key, InterfaceKeys[key], v), peers)
    BY <2>3, ReadInterfaceLine
  <2>5. Assign(c, key, InterfaceKeys[key], v) = [c EXCEPT ![key] = c[key] \o v]
    BY <1>2 DEF Assign
  <2>6. c[key] = SubSeq(A, 1, n - 1) /\ DOMAIN c = DOMAIN b
    BY <2>1, <1>2 DEF InterfaceFields, IsBuilder
  <2>7. SubSeq(A, 1, n - 1) \o v = Append(SubSeq(A, 1, n - 1), A[n])
    <3>1. PICK u, e : u = SubSeq(A, 1, n - 1) /\ e = A[n]
      OBVIOUS
    <3>2. u \in Seq(Tokens) /\ e \in Tokens
      BY <3>1, <1>3, <1>4
    <3>3. u \o <<e>> = Append(u, e)
      BY <3>2
    <3> QED BY <3>1, <3>3, <2>1
  <2>8. PICK w : w = Append(SubSeq(A, 1, n - 1), A[n])
    OBVIOUS
  <2>9. [c EXCEPT ![key] = w] = [b EXCEPT ![key] = w]
    BY <2>1
  <2> QED BY <2>1, <2>2, <2>4, <2>5, <2>6, <2>7, <2>8, <2>9 DEF ValueRead
<1>9. ReadLines(Reader("interface", b, peers), lines) = Reader("interface", [b EXCEPT ![key] = A], peers)
  <2>1. Len(lines) = k /\ k = Len(A)
    BY <1>4, <1>7
  <2>2. \A n \in 1 .. k : ValueRead(b, peers, key, A, lines, n)
    BY <1>8
  <2> QED BY <2>1, <2>2, <1>3, ReadList
<1>10. [b EXCEPT ![key] = A] = Put(b, iface, key)
  <2>1. key \in InterfaceFields /\ key # "DNS"
    BY <1>1 DEF InterfaceFields
  <2>2. [b EXCEPT ![key] = iface[key]] = Put(b, iface, key)
    BY <2>1, PutIs
  <2> QED BY <2>2, <1>2
<1> QED BY <1>6, <1>7, <1>9, <1>10

LEMMA ReadCommands ==
  ASSUME NEW iface, InterfaceWritable(iface), NEW peers,
         NEW b, IsBuilder(b),
         NEW key \in DOMAIN InterfaceKeys, InterfaceKeys[key] = "line", b[key] = <<>>
  PROVE  /\ ReadLines(Reader("interface", b, peers), ExportInterfaceKey(iface, key)) =
              Reader("interface", Put(b, iface, key), peers)
         /\ ExportInterfaceKey(iface, key) \in Seq(Written)
<1>1. key \notin {"DNS", "Address"}
  BY InterfaceKinds
<1>2. PICK V, A : V = Seq(Tokens) /\ A = iface[key]
  OBVIOUS
<1>3. A \in Seq(V)
  BY <1>2 DEF InterfaceWritable
<1>4. PICK k \in Nat : k = Len(A) /\ DOMAIN A = 1 .. k
  BY <1>3
<1>5. PICK lines : lines = [i \in 1 .. k |-> Line(key, A[i])]
  OBVIOUS
<1>6. ExportInterfaceKey(iface, key) = lines
  BY <1>1, <1>2, <1>4, <1>5 DEF ExportInterfaceKey
<1>7. lines \in Seq(Written) /\ Len(lines) = k
  <2>1. ASSUME NEW i \in 1 .. k PROVE Line(key, A[i]) \in Written
    <3>1. A[i] \in Seq(Tokens)
      BY <1>2, <1>3, <1>4
    <3> QED BY <3>1 DEF Written
  <2>2. lines \in [1 .. k -> Written]
    BY <2>1, <1>5
  <2> QED BY <2>2, FunctionIsSequence
<1>8. ASSUME NEW n \in 1 .. k
      PROVE  ValueRead(b, peers, key, A, lines, n)
  <2>1. PICK c, v : c = [b EXCEPT ![key] = SubSeq(A, 1, n - 1)] /\ v = A[n]
    OBVIOUS
  <2>2. lines[n] = Line(key, v)
    BY <2>1, <1>5
  <2>3. Admits(InterfaceKeys[key], v)
    BY DEF Admits
  <2>4. ReadLine(Reader("interface", c, peers), Line(key, v)) =
          Reader("interface", Assign(c, key, InterfaceKeys[key], v), peers)
    BY <2>3, ReadInterfaceLine
  <2>5. Assign(c, key, InterfaceKeys[key], v) = [c EXCEPT ![key] = Append(c[key], v)]
    BY DEF Assign
  <2>6. c[key] = SubSeq(A, 1, n - 1) /\ DOMAIN c = DOMAIN b
    BY <2>1 DEF InterfaceFields, IsBuilder
  <2>7. PICK w : w = Append(SubSeq(A, 1, n - 1), A[n])
    OBVIOUS
  <2>8. [c EXCEPT ![key] = w] = [b EXCEPT ![key] = w]
    BY <2>1
  <2> QED BY <2>1, <2>2, <2>4, <2>5, <2>6, <2>7, <2>8 DEF ValueRead
<1>9. ReadLines(Reader("interface", b, peers), lines) = Reader("interface", [b EXCEPT ![key] = A], peers)
  <2>1. Len(lines) = k /\ k = Len(A)
    BY <1>4, <1>7
  <2>2. \A n \in 1 .. k : ValueRead(b, peers, key, A, lines, n)
    BY <1>8
  <2> QED BY <2>1, <2>2, <1>3, ReadList
<1>10. [b EXCEPT ![key] = A] = Put(b, iface, key)
  <2>1. key \in InterfaceFields
    BY DEF InterfaceFields
  <2>2. [b EXCEPT ![key] = iface[key]] = Put(b, iface, key)
    BY <2>1, <1>1, PutIs
  <2> QED BY <2>2, <1>2
<1> QED BY <1>6, <1>7, <1>9, <1>10

LEMMA ReadDns ==
  ASSUME NEW iface, InterfaceWritable(iface), NEW peers,
         NEW b, IsBuilder(b),
         b["DNS"] = <<>>, b["search"] = <<>>
  PROVE  /\ ReadLines(Reader("interface", b, peers), ExportInterfaceKey(iface, "DNS")) =
              Reader("interface", Put(b, iface, "DNS"), peers)
         /\ ExportInterfaceKey(iface, "DNS") \in Seq(Written)
<1>1. "DNS" \in DOMAIN InterfaceKeys /\ InterfaceKeys["DNS"] = "dns"
  BY KindsAre, InterfaceKinds
<1>2. PICK a, d : a = iface["DNS"] /\ d = iface["search"]
  OBVIOUS
<1>3. a \in Seq(IpTokens) /\ d \in Seq(DomainTokens)
  BY <1>2 DEF InterfaceWritable
<1>4. a \in Seq(Tokens) /\ d \in Seq(Tokens)
  <2>1. IpTokens \subseteq Tokens /\ DomainTokens \subseteq Tokens
    BY DEF IpTokens, DomainTokens, Tokens
  <2> QED BY <2>1, <1>3, SeqWider
<1>5. PICK v : v = a \o d
  OBVIOUS
<1>6. v \in Seq(Tokens) /\ (v = <<>> => a = <<>> /\ d = <<>>)
  BY <1>4, <1>5
<1>7. ExportInterfaceKey(iface, "DNS") = OneLine("DNS", "dns", v)
  BY <1>1, <1>2, <1>5 DEF ExportInterfaceKey, ExportDns
<1>8. \A field \in InterfaceFields : Covers("DNS", field) <=> field \in {"DNS", "search"}
  BY DEF Covers
<1>9. Unset("dns") = <<>>
  BY DEF Unset
<1>10. CASE v = <<>>
  <2>1. OneLine("DNS", "dns", v) = <<>>
    BY <1>9, <1>10 DEF OneLine
  <2>2. Put(b, iface, "DNS") = [field \in InterfaceFields |-> b[field]]
    BY <1>2, <1>6, <1>8, <1>10 DEF Put
  <2>3. Put(b, iface, "DNS") = b
    BY <2>2 DEF IsBuilder
  <2>4. Len(<<>>) = 0 /\ <<>> \in Seq(Written)
    OBVIOUS
  <2> QED BY <2>1, <2>3, <2>4, <1>7, ReadNone
<1>11. CASE v # <<>>
  <2>1. PICK l : l = Line("DNS", v)
    OBVIOUS
  <2>2. OneLine("DNS", "dns", v) = <<l>>
    BY <2>1, <1>9, <1>11 DEF OneLine
  <2>3. Admits("dns", v)
    BY DEF Admits
  <2>4. ReadLine(Reader("interface", b, peers), l) =
          Reader("interface", Assign(b, "DNS", "dns", v), peers)
    BY <2>1, <2>3, <1>1, ReadInterfaceLine
  <2>5. Ips(v) = a /\ Domains(v) = d
    BY <1>3, <1>5, DnsApart
  <2>6. <<>> \o a = a /\ <<>> \o d = d
    BY <1>4, ConcatNone
  <2>7. Assign(b, "DNS", "dns", v) = [b EXCEPT !["DNS"] = a, !["search"] = d]
    BY <2>5, <2>6 DEF Assign
  <2>8. [b EXCEPT !["DNS"] = a, !["search"] = d] = Put(b, iface, "DNS")
    BY <1>2, <1>8 DEF Put, IsBuilder
  <2>9. l \in Written
    BY <2>1, <1>1, <1>6 DEF Written
  <2>10. <<l>> \in Seq(Written)
    BY <2>9, SingleIs
  <2> QED BY <2>2, <2>4, <2>7, <2>8, <2>10, <1>7, ReadOne
<1> QED BY <1>10, <1>11

LEMMA ReadInterfaceKey ==
  ASSUME NEW iface, InterfaceWritable(iface), NEW peers,
         NEW b, IsBuilder(b),
         NEW key \in DOMAIN InterfaceKeys, b[key] = Unset(InterfaceKeys[key]),
         key = "DNS" => b["search"] = <<>>
  PROVE  /\ ReadLines(Reader("interface", b, peers), ExportInterfaceKey(iface, key)) =
              Reader("interface", Put(b, iface, key), peers)
         /\ ExportInterfaceKey(iface, key) \in Seq(Written)
<1>1. PICK kind : kind = InterfaceKeys[key]
  OBVIOUS
<1>2. CASE key = "Address"
  <2>1. InterfaceKeys[key] = "all" /\ b[key] = <<>>
    BY <1>2, InterfaceKinds DEF Unset
  <2> QED BY <2>1, ReadAddresses
<1>3. CASE key = "DNS"
  <2>1. b["DNS"] = <<>>
    BY <1>3, InterfaceKinds DEF Unset
  <2> QED BY <2>1, <1>3, ReadDns
<1>4. CASE key \in {"PreUp", "PostUp", "PreDown", "PostDown"}
  <2>1. InterfaceKeys[key] = "line" /\ b[key] = <<>>
    BY <1>4, InterfaceKinds DEF Unset
  <2> QED BY <2>1, ReadCommands
<1>5. CASE key \in {"PrivateKey", "ListenPort", "MTU", "FwMark"}
  <2>1. InterfaceKeys[key] \in {"base64", "u16", "u32"}
    BY <1>5, InterfaceKinds
  <2> QED BY <2>1, ReadSetting
<1> QED BY <1>2, <1>3, <1>4, <1>5, KindsAre

-----------------------------------------------------------------------------
(* The interface                                                            *)

LEMMA OrderIs ==
  /\ DOMAIN InterfaceOrder = 1 .. 9
  /\ InterfaceOrder[1] = "PrivateKey" /\ InterfaceOrder[2] = "ListenPort"
  /\ InterfaceOrder[3] = "Address" /\ InterfaceOrder[4] = "DNS" /\ InterfaceOrder[5] = "MTU"
  /\ InterfaceOrder[6] = "PreUp" /\ InterfaceOrder[7] = "PostUp"
  /\ InterfaceOrder[8] = "PreDown" /\ InterfaceOrder[9] = "PostDown"
BY DEF InterfaceOrder

LEMMA OrderedKeys ==
  /\ \A i \in 1 .. 9 : InterfaceOrder[i] \in DOMAIN InterfaceKeys \ {"FwMark"}
  /\ \A i, j \in 1 .. 9 : InterfaceOrder[i] = InterfaceOrder[j] => i = j
  /\ \A field \in InterfaceFields \ {"FwMark"} : \E i \in 1 .. 9 : Covers(InterfaceOrder[i], field)
<1>1. \A i \in 1 .. 9 : i \in {1, 2, 3, 4, 5, 6, 7, 8, 9}
  OBVIOUS
<1>2. \A i \in 1 .. 9 : InterfaceOrder[i] \in DOMAIN InterfaceKeys \ {"FwMark"}
  BY <1>1, OrderIs, KindsAre
<1>3. \A i, j \in 1 .. 9 : InterfaceOrder[i] = InterfaceOrder[j] => i = j
  BY <1>1, OrderIs
<1>4. ASSUME NEW field \in InterfaceFields \ {"FwMark"}
      PROVE  \E i \in 1 .. 9 : Covers(InterfaceOrder[i], field)
  <2>1. CASE field = "search"
    <3>1. 4 \in 1 .. 9 /\ Covers(InterfaceOrder[4], field)
      BY <2>1, OrderIs DEF Covers
    <3> QED BY <3>1
  <2>2. CASE field # "search"
    <3>1. \E i \in 1 .. 9 : InterfaceOrder[i] = field
      BY <2>2, OrderIs, InterfaceFieldsAre
    <3> QED BY <3>1 DEF Covers
  <2> QED BY <2>1, <2>2
<1> QED BY <1>2, <1>3, <1>4

\* The builder after the lines of the first n keys.
Filled(iface, n) ==
  [field \in InterfaceFields |->
     IF \E i \in 1 .. n : Covers(InterfaceOrder[i], field) THEN iface[field]
     ELSE InterfaceBuilder[field]]

LEMMA FilledNext ==
  ASSUME NEW iface, InterfaceWritable(iface), NEW n \in 1 .. 9
  PROVE  /\ IsBuilder(Filled(iface, n - 1))
         /\ Filled(iface, n - 1)[InterfaceOrder[n]] = Unset(InterfaceKeys[InterfaceOrder[n]])
         /\ InterfaceOrder[n] = "DNS" => Filled(iface, n - 1)["search"] = <<>>
         /\ Put(Filled(iface, n - 1), iface, InterfaceOrder[n]) = Filled(iface, n)
<1>1. PICK key : key = InterfaceOrder[n] /\ key \in DOMAIN InterfaceKeys \ {"FwMark"}
  BY OrderedKeys
<1>2. key \in InterfaceFields /\ "search" \in InterfaceFields /\ key # "search"
  BY <1>1, KindsAre DEF InterfaceFields
<1>3. PICK b : b = Filled(iface, n - 1)
  OBVIOUS
<1>4. IsBuilder(b)
  BY <1>3 DEF Filled, IsBuilder
<1>5. \A i \in 1 .. n - 1 : i \in 1 .. 9 /\ i # n
  OBVIOUS
<1>6. ASSUME NEW i \in 1 .. n - 1 PROVE ~Covers(InterfaceOrder[i], key)
  <2>1. InterfaceOrder[i] # key
    BY <1>1, <1>5, OrderedKeys
  <2> QED BY <2>1, <1>2 DEF Covers
<1>7. b[key] = Unset(InterfaceKeys[key])
  <2>1. b[key] = InterfaceBuilder[key]
    BY <1>2, <1>3, <1>6 DEF Filled
  <2>2. InterfaceBuilder[key] = Unset(InterfaceKeys[key])
    BY <1>1, <1>2 DEF InterfaceBuilder
  <2> QED BY <2>1, <2>2
<1>8. ASSUME key = "DNS" PROVE b["search"] = <<>>
  <2>1. \A i \in 1 .. n - 1 : ~Covers(InterfaceOrder[i], "search")
    <3>1. ASSUME NEW i \in 1 .. n - 1 PROVE InterfaceOrder[i] # "DNS"
      BY <1>1, <1>5, <1>8, OrderedKeys
    <3>2. ASSUME NEW i \in 1 .. n - 1 PROVE InterfaceOrder[i] # "search"
      <4>1. InterfaceOrder[i] \in DOMAIN InterfaceKeys
        BY <1>5, OrderedKeys
      <4> QED BY <4>1, KindsAre
    <3> QED BY <3>1, <3>2 DEF Covers
  <2>2. b["search"] = InterfaceBuilder["search"]
    BY <2>1, <1>2, <1>3 DEF Filled
  <2> QED BY <2>2 DEF InterfaceBuilder
<1>9. Put(b, iface, key) = Filled(iface, n)
  <2>1. ASSUME NEW field \in InterfaceFields
        PROVE  (\E i \in 1 .. n : Covers(InterfaceOrder[i], field)) <=>
                 Covers(key, field) \/ \E i \in 1 .. n - 1 : Covers(InterfaceOrder[i], field)
    <3>1. \A i \in 1 .. n : i = n \/ i \in 1 .. n - 1
      OBVIOUS
    <3>2. n \in 1 .. n /\ \A i \in 1 .. n - 1 : i \in 1 .. n
      OBVIOUS
    <3> QED BY <3>1, <3>2, <1>1
  <2>2. \A field \in InterfaceFields :
          b[field] = IF \E i \in 1 .. n - 1 : Covers(InterfaceOrder[i], field) THEN iface[field]
                     ELSE InterfaceBuilder[field]
    BY <1>3 DEF Filled
  <2>3. PICK done, before : /\ done = [field \in InterfaceFields |->
                                         \E i \in 1 .. n : Covers(InterfaceOrder[i], field)]
                            /\ before = [field \in InterfaceFields |->
                                           \E i \in 1 .. n - 1 : Covers(InterfaceOrder[i], field)]
    OBVIOUS
  <2>4. \A field \in InterfaceFields : done[field] <=> Covers(key, field) \/ before[field]
    BY <2>1, <2>3
  <2>5. Filled(iface, n) = [field \in InterfaceFields |->
                             IF done[field] THEN iface[field] ELSE InterfaceBuilder[field]]
    BY <2>3 DEF Filled
  <2>6. \A field \in InterfaceFields :
          b[field] = IF before[field] THEN iface[field] ELSE InterfaceBuilder[field]
    BY <2>2, <2>3
  <2>7. ASSUME NEW field \in InterfaceFields
        PROVE  (IF Covers(key, field) THEN iface[field] ELSE b[field]) =
                 IF done[field] THEN iface[field] ELSE InterfaceBuilder[field]
    BY <2>4, <2>6
  <2> QED BY <2>5, <2>7, Zenon DEF Put
<1> QED BY <1>1, <1>3, <1>4, <1>7, <1>8, <1>9

LEMMA FilledEnds ==
  ASSUME NEW iface, InterfaceWritable(iface)
  PROVE  Filled(iface, 0) = InterfaceBuilder /\ Filled(iface, 9) = [iface EXCEPT !.FwMark = <<"0">>]
<1>1. Filled(iface, 0) = InterfaceBuilder
  <2>1. \A field : ~\E i \in 1 .. 0 : Covers(InterfaceOrder[i], field)
    OBVIOUS
  <2>2. Filled(iface, 0) = [field \in InterfaceFields |-> InterfaceBuilder[field]]
    BY <2>1 DEF Filled
  <2>3. InterfaceBuilder = [field \in InterfaceFields |-> InterfaceBuilder[field]]
    BY DEF InterfaceBuilder, InterfaceFields
  <2> QED BY <2>2, <2>3
<1>2. Filled(iface, 9) = [iface EXCEPT !.FwMark = <<"0">>]
  <2>1. \A field \in InterfaceFields \ {"FwMark"} : Filled(iface, 9)[field] = iface[field]
    BY OrderedKeys DEF Filled
  <2>2. Filled(iface, 9)["FwMark"] = <<"0">>
    <3>1. "FwMark" \in InterfaceFields /\ "FwMark" \in DOMAIN InterfaceKeys
      BY InterfaceFieldsAre, KindsAre
    <3>2. \A i \in 1 .. 9 : ~Covers(InterfaceOrder[i], "FwMark")
      BY OrderedKeys DEF Covers
    <3>3. Filled(iface, 9)["FwMark"] = InterfaceBuilder["FwMark"]
      BY <3>1, <3>2 DEF Filled
    <3>4. InterfaceBuilder["FwMark"] = Unset("u32")
      BY <3>1 DEF InterfaceBuilder, InterfaceKeys
    <3> QED BY <3>3, <3>4 DEF Unset
  <2>3. PICK m : m = Filled(iface, 9) /\ m = [field \in InterfaceFields |-> m[field]]
    BY DEF Filled
  <2>4. DOMAIN iface = InterfaceFields
    BY DEF InterfaceWritable, InterfaceFields
  <2>5. PICK w : w = [iface EXCEPT !.FwMark = <<"0">>]
    OBVIOUS
  <2>6. /\ w = [field \in InterfaceFields |-> w[field]]
        /\ \A field \in InterfaceFields :
             w[field] = IF field = "FwMark" THEN <<"0">> ELSE iface[field]
    BY <2>4, <2>5
  <2>7. \A field \in InterfaceFields : m[field] = w[field]
    BY <2>1, <2>2, <2>3, <2>6
  <2> QED BY <2>3, <2>5, <2>6, <2>7
<1> QED BY <1>1, <1>2

InterfaceParts(iface) ==
  [i \in DOMAIN InterfaceOrder |-> ExportInterfaceKey(iface, InterfaceOrder[i])]

LEMMA ReadInterface ==
  ASSUME NEW iface, InterfaceWritable(iface)
  PROVE  /\ ReadLines(Reader("interface", InterfaceBuilder, <<>>), FlattenSeq(InterfaceParts(iface))) =
              Reader("interface", [iface EXCEPT !.FwMark = <<"0">>], <<>>)
         /\ FlattenSeq(InterfaceParts(iface)) \in Seq(Written)
<1>1. PICK parts : parts = InterfaceParts(iface)
  OBVIOUS
<1>2. \A i \in 1 .. 9 : parts[i] = ExportInterfaceKey(iface, InterfaceOrder[i])
  BY <1>1, OrderIs DEF InterfaceParts
<1>3. PICK st : st = [n \in 0 .. 9 |-> Reader("interface", Filled(iface, n), <<>>)]
  OBVIOUS
<1>4. ASSUME NEW n \in 1 .. 9
      PROVE  ReadLines(st[n - 1], parts[n]) = st[n] /\ parts[n] \in Seq(Written)
  <2>1. PICK b, key : b = Filled(iface, n - 1) /\ key = InterfaceOrder[n]
    OBVIOUS
  <2>2. IsBuilder(b) /\ key \in DOMAIN InterfaceKeys
    BY <2>1, FilledNext, OrderedKeys
  <2>3. b[key] = Unset(InterfaceKeys[key]) /\ (key = "DNS" => b["search"] = <<>>)
    BY <2>1, FilledNext
  <2>4. Put(b, iface, key) = Filled(iface, n)
    BY <2>1, FilledNext
  <2>5. PICK peers : peers = <<>>
    OBVIOUS
  <2>6. /\ ReadLines(Reader("interface", b, peers), ExportInterfaceKey(iface, key)) =
             Reader("interface", Put(b, iface, key), peers)
        /\ ExportInterfaceKey(iface, key) \in Seq(Written)
    BY <2>2, <2>3, ReadInterfaceKey
  <2>7. st[n - 1] = Reader("interface", b, peers)
    BY <2>1, <2>5, <1>3
  <2>8. st[n] = Reader("interface", Filled(iface, n), peers)
    BY <2>5, <1>3
  <2> QED BY <2>1, <2>4, <2>6, <2>7, <2>8, <1>2
<1>5. parts \in Seq(Seq(Written)) /\ Len(parts) = 9
  <2>1. PICK W : W = Seq(Written)
    OBVIOUS
  <2>2. PICK k \in Nat : k = 9
    OBVIOUS
  <2>3. parts \in [1 .. k -> W]
    BY <2>1, <2>2, <1>1, <1>4, OrderIs DEF InterfaceParts
  <2>4. parts \in Seq(W) /\ Len(parts) = k
    BY <2>3, FunctionIsSequence
  <2> QED BY <2>1, <2>2, <2>4
<1>6. ReadLines(st[0], FlattenSeq(parts)) = st[9]
  <2>1. PICK k \in Nat : k = 9
    OBVIOUS
  <2>2. \A i \in 1 .. k : ReadLines(st[i - 1], parts[i]) = st[i]
    BY <2>1, <1>4
  <2>3. k = Len(parts)
    BY <2>1, <1>5
  <2>4. ReadLines(st[0], FlattenSeq(parts)) = st[k]
    BY <2>2, <2>3, <1>5, ReadFlattened
  <2> QED BY <2>1, <2>4
<1>7. FlattenSeq(parts) \in Seq(Written)
  BY <1>5, FlattenType
<1>8. st[0] = Reader("interface", InterfaceBuilder, <<>>)
  BY <1>3, FilledEnds
<1>9. st[9] = Reader("interface", [iface EXCEPT !.FwMark = <<"0">>], <<>>)
  BY <1>3, FilledEnds
<1> QED BY <1>1, <1>6, <1>7, <1>8, <1>9

-----------------------------------------------------------------------------
(* The peers                                                                *)

LEMMA IsFunction ==
  ASSUME NEW E, NEW s \in Seq(E) PROVE s = [i \in 1 .. Len(s) |-> s[i]]
OBVIOUS

LEMMA LastOfAppended ==
  ASSUME NEW E, NEW s \in Seq(E), NEW e \in E, NEW x
  PROVE  /\ Append(s, e)[Len(Append(s, e))] = e
         /\ [Append(s, e) EXCEPT ![Len(Append(s, e))] = x] = Append(s, x)
<1>1. PICK k \in Nat : k = Len(s)
  OBVIOUS
<1>2. PICK F : F = E \cup {x} /\ s \in Seq(F) /\ e \in F /\ x \in F
  <2>1. s \in Seq(E \cup {x})
    BY SeqWider
  <2> QED BY <2>1
<1>3. PICK t, u : t = Append(s, e) /\ u = Append(s, x)
  OBVIOUS
<1>4. t \in Seq(F) /\ Len(t) = k + 1 /\ t[k + 1] = e /\ \A i \in 1 .. k : t[i] = s[i]
  BY <1>1, <1>2, <1>3
<1>5. u \in Seq(F) /\ Len(u) = k + 1 /\ u[k + 1] = x /\ \A i \in 1 .. k : u[i] = s[i]
  BY <1>1, <1>2, <1>3
<1>6. PICK n \in Nat : n = k + 1
  OBVIOUS
<1>7. PICK v : v = [t EXCEPT ![n] = x]
  OBVIOUS
<1>8. v = [i \in 1 .. n |-> v[i]]
  <2>1. DOMAIN t = 1 .. n
    BY <1>4, <1>6
  <2> QED BY <2>1, <1>7
<1>9. u = [i \in 1 .. n |-> u[i]]
  BY <1>5, <1>6, IsFunction
<1>10. ASSUME NEW i \in 1 .. n PROVE v[i] = u[i]
  <2>1. i = n \/ (i \in 1 .. k /\ i # n)
    BY <1>6
  <2> QED BY <2>1, <1>4, <1>5, <1>6, <1>7
<1>11. u = v
  BY <1>8, <1>9, <1>10
<1> QED BY <1>3, <1>4, <1>6, <1>7, <1>11

LEMMA ReadPeerLine ==
  ASSUME NEW iface, NEW peers \in Seq(PeerRecord), NEW p \in PeerRecord,
         NEW key \in DOMAIN PeerKeys, NEW v, Admits(PeerKeys[key], v)
  PROVE  ReadLine(Reader("peer", iface, Append(peers, p)), Line(key, v)) =
           Reader("peer", iface, Append(peers, Assign(p, key, PeerKeys[key], v)))
<1>1. PICK q, n : q = Append(peers, p) /\ n = Len(q)
  OBVIOUS
<1>2. PICK s, l : s = Reader("peer", iface, q) /\ l = Line(key, v)
  OBVIOUS
<1>3. s.ok = TRUE /\ s.section = "peer" /\ s.peers = q
  BY <1>2 DEF Reader
<1>4. l.is = "line" /\ l.key = key /\ l.value = v
  BY <1>2, LineFields
<1>5. ReadLine(s, l) = KeyValue(s, key, v)
  BY <1>3, <1>4 DEF ReadLine
<1>6. PICK new : new = Assign(q[n], key, PeerKeys[key], v)
  OBVIOUS
<1>7. q[n] = p
  BY <1>1, LastOfAppended
<1>8. new = Assign(p, key, PeerKeys[key], v)
  BY <1>6, <1>7
<1>9. KeyValue(s, key, v) = [s EXCEPT !.peers[n] = new]
  <2>1. KeyValue(s, key, v) = [s EXCEPT !.peers[n] = Assign(q[n], key, PeerKeys[key], v)]
    BY <1>1, <1>3 DEF KeyValue
  <2> QED BY <2>1, <1>6
<1>10. [s EXCEPT !.peers[n] = new] = Reader("peer", iface, [q EXCEPT ![n] = new])
  <2>1. PICK r, w : r = [s EXCEPT !.peers[n] = new] /\ w = [q EXCEPT ![n] = new]
    OBVIOUS
  <2>2. /\ DOMAIN r = {"section", "iface", "peers", "ok"}
        /\ r.section = "peer" /\ r.iface = iface /\ r.peers = w /\ r.ok = TRUE
    BY <2>1, <1>2 DEF Reader
  <2>3. r = [x \in {"section", "iface", "peers", "ok"} |-> r[x]]
    BY <2>1, <2>2, <1>2 DEF Reader
  <2>4. r = Reader("peer", iface, w)
    BY <2>2, <2>3 DEF Reader
  <2> QED BY <2>1, <2>4
<1>11. [q EXCEPT ![n] = new] = Append(peers, new)
  BY <1>1, LastOfAppended
<1> QED BY <1>1, <1>2, <1>5, <1>8, <1>9, <1>10, <1>11

\* A peer's key.
LEMMA ReadPeerKey ==
  ASSUME NEW iface, NEW peers \in Seq(PeerRecord), NEW p \in PeerRecord,
         NEW peer \in PeerRecord, PeerFits(peer),
         NEW key \in DOMAIN PeerKeys, p[key] = Unset(PeerKeys[key])
  PROVE  /\ ReadLines(Reader("peer", iface, Append(peers, p)),
                      OneLine(key, PeerKeys[key], peer[key])) =
              Reader("peer", iface, Append(peers, [p EXCEPT ![key] = peer[key]]))
         /\ OneLine(key, PeerKeys[key], peer[key]) \in Seq(Written)
<1>1. PICK kind, v : kind = PeerKeys[key] /\ v = peer[key]
  OBVIOUS
<1>2. kind \in {"base64", "text", "all", "u16"}
  BY <1>1, KindsAre
<1>3. Fits(kind, v) /\ v \in Seq(Tokens)
  BY <1>1 DEF PeerFits, PeerRecord, PeerFields
<1>4. DOMAIN p = PeerFields /\ key \in PeerFields /\ p = [field \in PeerFields |-> p[field]]
  BY DEF PeerRecord, PeerFields
<1>5. CASE v = Unset(kind)
  <2>1. OneLine(key, kind, v) = <<>>
    BY <1>5 DEF OneLine
  <2>2. [p EXCEPT ![key] = v] = p
    BY <1>1, <1>4, <1>5
  <2>3. Len(<<>>) = 0 /\ <<>> \in Seq(Written)
    OBVIOUS
  <2> QED BY <2>1, <2>2, <2>3, <1>1, ReadNone
<1>6. CASE v # Unset(kind)
  <2>1. PICK l : l = Line(key, v)
    OBVIOUS
  <2>2. OneLine(key, kind, v) = <<l>>
    BY <2>1, <1>6 DEF OneLine
  <2>3. Admits(kind, v)
    BY <1>3, <1>6 DEF Fits
  <2>4. ReadLine(Reader("peer", iface, Append(peers, p)), l) =
          Reader("peer", iface, Append(peers, Assign(p, key, kind, v)))
    BY <2>1, <2>3, <1>1, ReadPeerLine
  <2>5. Assign(p, key, kind, v) = [p EXCEPT ![key] = v]
    <3>1. CASE kind = "all"
      <4>1. p[key] = <<>>
        BY <3>1, <1>1 DEF Unset
      <4>2. <<>> \o v = v
        BY <1>3, ConcatNone
      <4>3. Assign(p, key, kind, v) = [p EXCEPT ![key] = p[key] \o v]
        BY <3>1 DEF Assign
      <4> QED BY <4>1, <4>2, <4>3
    <3>2. CASE kind # "all"
      BY <3>2, <1>2 DEF Assign
    <3> QED BY <3>1, <3>2
  <2>6. l \in Written
    BY <2>1, <1>3 DEF Written
  <2>7. <<l>> \in Seq(Written)
    BY <2>6, SingleIs
  <2> QED BY <2>2, <2>4, <2>5, <2>7, <1>1, ReadOne
<1> QED BY <1>5, <1>6

LEMMA PeerOrderIs ==
  /\ DOMAIN PeerOrder = 1 .. 5
  /\ PeerOrder[1] = "PublicKey" /\ PeerOrder[2] = "PresharedKey" /\ PeerOrder[3] = "Endpoint"
  /\ PeerOrder[4] = "AllowedIPs" /\ PeerOrder[5] = "PersistentKeepalive"
BY DEF PeerOrder

LEMMA PeerKeysOrdered ==
  /\ \A i \in 1 .. 5 : PeerOrder[i] \in DOMAIN PeerKeys
  /\ \A i, j \in 1 .. 5 : PeerOrder[i] = PeerOrder[j] => i = j
  /\ \A key \in DOMAIN PeerKeys : \E i \in 1 .. 5 : PeerOrder[i] = key
<1>1. \A i \in 1 .. 5 : i \in {1, 2, 3, 4, 5}
  OBVIOUS
<1>2. \A i \in 1 .. 5 : PeerOrder[i] \in DOMAIN PeerKeys
  BY <1>1, PeerOrderIs, KindsAre
<1>3. \A i, j \in 1 .. 5 : PeerOrder[i] = PeerOrder[j] => i = j
  BY <1>1, PeerOrderIs
<1>4. \A key \in DOMAIN PeerKeys : \E i \in 1 .. 5 : PeerOrder[i] = key
  BY PeerOrderIs, KindsAre
<1> QED BY <1>2, <1>3, <1>4

\* The peer after the lines of the first n keys.
PeerFilled(peer, n) ==
  [field \in PeerFields |->
     IF \E i \in 1 .. n : PeerOrder[i] = field THEN peer[field] ELSE PeerBuilder[field]]

LEMMA BuilderIs ==
  /\ PeerBuilder \in PeerRecord /\ PeerBuilder["name"] = <<>>
  /\ \A key \in DOMAIN PeerKeys : PeerBuilder[key] = Unset(PeerKeys[key])
<1>1. \A key \in DOMAIN PeerKeys : key # "name" /\ key \in PeerFields
  BY KindsAre DEF PeerFields
<1>2. "name" \in PeerFields
  BY DEF PeerFields
<1>3. PeerBuilder = [k \in PeerFields |-> IF k = "name" THEN <<>> ELSE Unset(PeerKeys[k])]
  BY DEF PeerBuilder, PeerFields
<1>4. PeerBuilder["name"] = <<>>
  BY <1>2, <1>3
<1>5. \A key \in DOMAIN PeerKeys : PeerBuilder[key] = Unset(PeerKeys[key])
  BY <1>1, <1>3
<1>6. ASSUME NEW k \in PeerFields
      PROVE  (IF k = "name" THEN <<>> ELSE Unset(PeerKeys[k])) \in Seq(Tokens)
  <2>1. <<>> \in Seq(Tokens)
    OBVIOUS
  <2> QED BY <2>1, UnsetType
<1>7. PeerBuilder \in PeerRecord
  BY <1>3, <1>6 DEF PeerRecord
<1> QED BY <1>4, <1>5, <1>7

LEMMA PeerFilledNext ==
  ASSUME NEW peer \in PeerRecord, NEW n \in 1 .. 5
  PROVE  /\ PeerFilled(peer, n - 1) \in PeerRecord
         /\ PeerFilled(peer, n - 1)[PeerOrder[n]] = Unset(PeerKeys[PeerOrder[n]])
         /\ [PeerFilled(peer, n - 1) EXCEPT ![PeerOrder[n]] = peer[PeerOrder[n]]] = PeerFilled(peer, n)
<1>1. PICK key : key = PeerOrder[n] /\ key \in DOMAIN PeerKeys /\ key \in PeerFields
  BY PeerKeysOrdered DEF PeerFields
<1>2. PICK p : p = PeerFilled(peer, n - 1)
  OBVIOUS
<1>3. p \in PeerRecord
  BY <1>2, BuilderIs DEF PeerFilled, PeerRecord
<1>4. p[key] = Unset(PeerKeys[key])
  <2>1. \A i \in 1 .. n - 1 : i \in 1 .. 5 /\ i # n
    OBVIOUS
  <2>2. \A i \in 1 .. n - 1 : PeerOrder[i] # key
    BY <2>1, <1>1, PeerKeysOrdered
  <2>3. p[key] = PeerBuilder[key]
    BY <2>2, <1>1, <1>2 DEF PeerFilled
  <2> QED BY <2>3, <1>1, BuilderIs
<1>5. [p EXCEPT ![key] = peer[key]] = PeerFilled(peer, n)
  <2>1. ASSUME NEW field
        PROVE  (\E i \in 1 .. n : PeerOrder[i] = field) <=>
                 key = field \/ \E i \in 1 .. n - 1 : PeerOrder[i] = field
    <3>1. \A i \in 1 .. n : i = n \/ i \in 1 .. n - 1
      OBVIOUS
    <3>2. n \in 1 .. n /\ \A i \in 1 .. n - 1 : i \in 1 .. n
      OBVIOUS
    <3> QED BY <3>1, <3>2, <1>1
  <2>2. PICK w, m : w = [p EXCEPT ![key] = peer[key]] /\ m = PeerFilled(peer, n)
    OBVIOUS
  <2>3. /\ w = [field \in PeerFields |-> w[field]]
        /\ \A field \in PeerFields : w[field] = IF field = key THEN peer[key] ELSE p[field]
    BY <1>3, <2>2 DEF PeerRecord
  <2>4. m = [field \in PeerFields |-> m[field]]
    BY <2>2 DEF PeerFilled
  <2>5. ASSUME NEW field \in PeerFields PROVE w[field] = m[field]
    <3>1. m[field] = IF \E i \in 1 .. n : PeerOrder[i] = field THEN peer[field] ELSE PeerBuilder[field]
      BY <2>2 DEF PeerFilled
    <3>2. p[field] = IF \E i \in 1 .. n - 1 : PeerOrder[i] = field THEN peer[field]
                     ELSE PeerBuilder[field]
      BY <1>2 DEF PeerFilled
    <3>3. w[field] = IF field = key THEN peer[field] ELSE p[field]
      BY <2>3
    <3> QED BY <3>1, <3>2, <3>3, <2>1
  <2> QED BY <2>2, <2>3, <2>4, <2>5
<1> QED BY <1>1, <1>2, <1>3, <1>4, <1>5

LEMMA PeerFilledEnds ==
  ASSUME NEW peer \in PeerRecord, PeerFits(peer)
  PROVE  PeerFilled(peer, 0) = PeerBuilder /\ PeerFilled(peer, 5) = peer
<1>1. PeerFilled(peer, 0) = PeerBuilder
  <2>1. \A field : ~\E i \in 1 .. 0 : PeerOrder[i] = field
    OBVIOUS
  <2>2. PeerFilled(peer, 0) = [field \in PeerFields |-> PeerBuilder[field]]
    BY <2>1 DEF PeerFilled
  <2> QED BY <2>2, BuilderIs DEF PeerRecord
<1>2. PeerFilled(peer, 5) = peer
  <2>1. peer["name"] = PeerBuilder["name"]
    BY BuilderIs DEF PeerFits
  <2>2. PICK m : m = PeerFilled(peer, 5) /\ m = [field \in PeerFields |-> m[field]]
    BY DEF PeerFilled
  <2>3. ASSUME NEW field \in PeerFields PROVE m[field] = peer[field]
    <3>1. m[field] = IF \E i \in 1 .. 5 : PeerOrder[i] = field THEN peer[field] ELSE PeerBuilder[field]
      BY <2>2 DEF PeerFilled
    <3>2. CASE field = "name" BY <3>1, <3>2, <2>1
    <3>3. CASE field \in DOMAIN PeerKeys BY <3>1, <3>3, PeerKeysOrdered
    <3> QED BY <3>2, <3>3 DEF PeerFields
  <2>4. peer = [field \in PeerFields |-> peer[field]]
    BY DEF PeerRecord
  <2> QED BY <2>2, <2>3, <2>4
<1> QED BY <1>1, <1>2

PeerParts(peer) ==
  [i \in DOMAIN PeerOrder |-> OneLine(PeerOrder[i], PeerKeys[PeerOrder[i]], peer[PeerOrder[i]])]

LEMMA ReadPeerKeys ==
  ASSUME NEW iface, NEW peers \in Seq(PeerRecord), NEW peer \in PeerRecord, PeerFits(peer)
  PROVE  /\ ReadLines(Reader("peer", iface, Append(peers, PeerBuilder)), FlattenSeq(PeerParts(peer))) =
              Reader("peer", iface, Append(peers, peer))
         /\ FlattenSeq(PeerParts(peer)) \in Seq(Written)
<1>1. PICK parts : parts = PeerParts(peer)
  OBVIOUS
<1>2. \A i \in 1 .. 5 : parts[i] = OneLine(PeerOrder[i], PeerKeys[PeerOrder[i]], peer[PeerOrder[i]])
  BY <1>1, PeerOrderIs DEF PeerParts
<1>3. PICK st : st = [n \in 0 .. 5 |-> Reader("peer", iface, Append(peers, PeerFilled(peer, n)))]
  OBVIOUS
<1>4. ASSUME NEW n \in 1 .. 5
      PROVE  ReadLines(st[n - 1], parts[n]) = st[n] /\ parts[n] \in Seq(Written)
  <2>1. PICK p, key : p = PeerFilled(peer, n - 1) /\ key = PeerOrder[n]
    OBVIOUS
  <2>2. p \in PeerRecord /\ key \in DOMAIN PeerKeys
    BY <2>1, PeerFilledNext, PeerKeysOrdered
  <2>3. p[key] = Unset(PeerKeys[key])
    BY <2>1, PeerFilledNext
  <2>4. PICK q : q = PeerFilled(peer, n) /\ [p EXCEPT ![key] = peer[key]] = q
    BY <2>1, PeerFilledNext
  <2>5. /\ ReadLines(Reader("peer", iface, Append(peers, p)),
                     OneLine(key, PeerKeys[key], peer[key])) =
             Reader("peer", iface, Append(peers, [p EXCEPT ![key] = peer[key]]))
        /\ OneLine(key, PeerKeys[key], peer[key]) \in Seq(Written)
    BY <2>2, <2>3, ReadPeerKey
  <2>6. st[n - 1] = Reader("peer", iface, Append(peers, p))
    BY <2>1, <1>3
  <2>7. st[n] = Reader("peer", iface, Append(peers, q))
    BY <2>4, <1>3
  <2> QED BY <2>1, <2>4, <2>5, <2>6, <2>7, <1>2
<1>5. parts \in Seq(Seq(Written)) /\ Len(parts) = 5
  <2>1. PICK W : W = Seq(Written)
    OBVIOUS
  <2>2. PICK k \in Nat : k = 5
    OBVIOUS
  <2>3. parts \in [1 .. k -> W]
    BY <2>1, <2>2, <1>1, <1>4, PeerOrderIs DEF PeerParts
  <2>4. parts \in Seq(W) /\ Len(parts) = k
    BY <2>3, FunctionIsSequence
  <2> QED BY <2>1, <2>2, <2>4
<1>6. ReadLines(st[0], FlattenSeq(parts)) = st[5]
  <2>1. PICK k \in Nat : k = 5
    OBVIOUS
  <2>2. \A i \in 1 .. k : ReadLines(st[i - 1], parts[i]) = st[i]
    BY <2>1, <1>4
  <2>3. k = Len(parts)
    BY <2>1, <1>5
  <2>4. ReadLines(st[0], FlattenSeq(parts)) = st[k]
    BY <2>2, <2>3, <1>5, ReadFlattened
  <2> QED BY <2>1, <2>4
<1>7. FlattenSeq(parts) \in Seq(Written)
  BY <1>5, FlattenType
<1>8. st[0] = Reader("peer", iface, Append(peers, PeerBuilder))
  BY <1>3, PeerFilledEnds
<1>9. st[5] = Reader("peer", iface, Append(peers, peer))
  BY <1>3, PeerFilledEnds
<1> QED BY <1>1, <1>6, <1>7, <1>8, <1>9

LEMMA ReadPeer ==
  ASSUME NEW section, NEW iface, NEW peers \in Seq(PeerRecord),
         NEW peer \in PeerRecord, PeerFits(peer)
  PROVE  /\ ReadLines(Reader(section, iface, peers), ExportPeer(peer)) =
              Reader("peer", iface, Append(peers, peer))
         /\ ExportPeer(peer) \in Seq(Written)
<1>1. PICK h, W : h = PeerHeader /\ W = Written
  OBVIOUS
<1>2. h \in W /\ <<h>> \in Seq(W)
  <2>1. h \in W
    BY <1>1 DEF Written
  <2> QED BY <2>1, SingleIs
<1>3. PICK keys : keys = FlattenSeq(PeerParts(peer)) /\ keys \in Seq(W)
  BY <1>1, ReadPeerKeys
<1>4. ExportPeer(peer) = <<h>> \o keys
  <2>1. peer.name = <<>>
    BY DEF PeerFits
  <2>2. ExportPeer(peer) = (<<h>> \o <<>>) \o keys
    BY <2>1, <1>1, <1>3 DEF ExportPeer, PeerParts
  <2>3. <<h>> \o <<>> = <<h>>
    BY <1>2, ConcatNone
  <2> QED BY <2>2, <2>3
<1>5. ReadLine(Reader(section, iface, peers), h) = Reader("peer", iface, Append(peers, PeerBuilder))
  <2>1. PICK s : s = Reader(section, iface, peers)
    OBVIOUS
  <2>2. s.ok = TRUE /\ s.peers = peers
    BY <2>1 DEF Reader
  <2>3. h.is = "peer"
    BY <1>1 DEF PeerHeader
  <2>4. PICK p : p = Append(peers, PeerBuilder)
    OBVIOUS
  <2>5. ReadLine(s, h) = [s EXCEPT !.section = "peer", !.peers = p]
    BY <2>2, <2>3, <2>4 DEF ReadLine
  <2>6. [s EXCEPT !.section = "peer", !.peers = p] = Reader("peer", iface, p)
    <3>1. PICK r : r = [s EXCEPT !.section = "peer", !.peers = p]
      OBVIOUS
    <3>2. /\ DOMAIN r = {"section", "iface", "peers", "ok"}
          /\ r.section = "peer" /\ r.iface = iface /\ r.peers = p /\ r.ok = TRUE
      BY <3>1, <2>1 DEF Reader
    <3>3. r = [x \in {"section", "iface", "peers", "ok"} |-> r[x]]
      BY <3>1, <3>2, <2>1 DEF Reader
    <3>4. r = Reader("peer", iface, p)
      BY <3>2, <3>3 DEF Reader
    <3> QED BY <3>1, <3>4
  <2> QED BY <2>1, <2>4, <2>5, <2>6
<1>6. ReadLines(Reader(section, iface, peers), <<h>>) = Reader("peer", iface, Append(peers, PeerBuilder))
  BY <1>5, ReadOne
<1>7. ReadLines(Reader(section, iface, peers), <<h>> \o keys) =
        ReadLines(ReadLines(Reader(section, iface, peers), <<h>>), keys)
  <2>1. PICK s, header : s = Reader(section, iface, peers) /\ header = <<h>>
    OBVIOUS
  <2>2. header \in Seq(W)
    BY <2>1, <1>2
  <2>3. ReadLines(s, header \o keys) = ReadLines(ReadLines(s, header), keys)
    BY <2>2, <1>3, ReadConcat
  <2> QED BY <2>1, <2>3
<1>8. ReadLines(Reader("peer", iface, Append(peers, PeerBuilder)), keys) =
        Reader("peer", iface, Append(peers, peer))
  BY <1>3, ReadPeerKeys
<1>9. <<h>> \o keys \in Seq(W)
  BY <1>2, <1>3
<1> QED BY <1>1, <1>4, <1>6, <1>7, <1>8, <1>9

PeersParts(peers) == [i \in DOMAIN peers |-> ExportPeer(peers[i])]

LEMMA ReadPeers ==
  ASSUME NEW iface, NEW peers \in Seq(PeerRecord), \A i \in DOMAIN peers : PeerFits(peers[i])
  PROVE  /\ \E section : ReadLines(Reader("interface", iface, <<>>), FlattenSeq(PeersParts(peers))) =
                           Reader(section, iface, peers)
         /\ FlattenSeq(PeersParts(peers)) \in Seq(Written)
<1>1. PICK k \in Nat : k = Len(peers)
  OBVIOUS
<1>2. PICK parts : parts = PeersParts(peers)
  OBVIOUS
<1>3. \A i \in 1 .. k : parts[i] = ExportPeer(peers[i])
  BY <1>1, <1>2 DEF PeersParts
<1>4. PICK section : section = [n \in 0 .. k |-> IF n = 0 THEN "interface" ELSE "peer"]
  OBVIOUS
<1>5. PICK st : st = [n \in 0 .. k |-> Reader(section[n], iface, SubSeq(peers, 1, n))]
  OBVIOUS
<1>6. ASSUME NEW n \in 1 .. k
      PROVE  ReadLines(st[n - 1], parts[n]) = st[n] /\ parts[n] \in Seq(Written)
  <2>1. PICK before, peer, s : before = SubSeq(peers, 1, n - 1) /\ peer = peers[n] /\ s = section[n - 1]
    OBVIOUS
  <2>2. before \in Seq(PeerRecord) /\ peer \in PeerRecord /\ PeerFits(peer)
    <3>1. before \in Seq(PeerRecord)
      BY <2>1, <1>1
    <3>2. peer \in PeerRecord
      BY <2>1, <1>1, ElementIs
    <3>3. PeerFits(peer)
      BY <2>1, <1>1
    <3> QED BY <3>1, <3>2, <3>3
  <2>3. /\ ReadLines(Reader(s, iface, before), ExportPeer(peer)) =
             Reader("peer", iface, Append(before, peer))
        /\ ExportPeer(peer) \in Seq(Written)
    BY <2>2, ReadPeer
  <2>4. SubSeq(peers, 1, n) = Append(before, peer)
    BY <2>1, <1>1
  <2>5. n - 1 \in 0 .. k /\ n \in 0 .. k /\ section[n] = "peer"
    BY <1>4
  <2>6. st[n - 1] = Reader(s, iface, before)
    BY <2>1, <2>5, <1>5
  <2>7. st[n] = Reader("peer", iface, SubSeq(peers, 1, n))
    BY <2>5, <1>5
  <2> QED BY <2>1, <2>3, <2>4, <2>6, <2>7, <1>3
<1>7. parts \in Seq(Seq(Written)) /\ Len(parts) = k
  <2>1. PICK W : W = Seq(Written)
    OBVIOUS
  <2>2. parts \in [1 .. k -> W]
    <3>1. DOMAIN peers = 1 .. k
      BY <1>1
    <3> QED BY <3>1, <2>1, <1>2, <1>6 DEF PeersParts
  <2>3. parts \in Seq(W) /\ Len(parts) = k
    BY <2>2, FunctionIsSequence
  <2> QED BY <2>1, <2>3
<1>8. ReadLines(st[0], FlattenSeq(parts)) = st[k]
  <2>1. \A i \in 1 .. k : ReadLines(st[i - 1], parts[i]) = st[i]
    BY <1>6
  <2> QED BY <2>1, <1>7, ReadFlattened
<1>9. FlattenSeq(parts) \in Seq(Written)
  BY <1>7, FlattenType
<1>10. SubSeq(peers, 1, 0) = <<>> /\ SubSeq(peers, 1, k) = peers /\ section[0] = "interface"
  BY <1>1, <1>4
<1>11. st[0] = Reader("interface", iface, <<>>)
  <2>1. 0 \in 0 .. k
    OBVIOUS
  <2>2. st[0] = Reader(section[0], iface, SubSeq(peers, 1, 0))
    BY <2>1, <1>5
  <2> QED BY <2>2, <1>10
<1>12. st[k] = Reader(section[k], iface, peers)
  <2>1. k \in 0 .. k
    OBVIOUS
  <2>2. st[k] = Reader(section[k], iface, SubSeq(peers, 1, k))
    BY <2>1, <1>5
  <2> QED BY <2>2, <1>10
<1> QED BY <1>2, <1>8, <1>9, <1>11, <1>12

-----------------------------------------------------------------------------
(* The file                                                                 *)

LEMMA ReadHeader ==
  ReadLine(Start, InterfaceHeader) = Reader("interface", InterfaceBuilder, <<>>)
<1>1. PICK s, h, b : s = Start /\ h = InterfaceHeader /\ b = InterfaceBuilder
  OBVIOUS
<1>2. /\ DOMAIN s = {"section", "iface", "peers", "ok"}
      /\ s.iface = b /\ s.peers = <<>> /\ s.ok = TRUE
      /\ s = [x \in {"section", "iface", "peers", "ok"} |-> s[x]]
  BY <1>1 DEF Start
<1>3. h.is = "interface"
  BY <1>1 DEF InterfaceHeader
<1>4. ReadLine(s, h) = [s EXCEPT !.section = "interface"]
  BY <1>2, <1>3 DEF ReadLine
<1>5. PICK r : r = [s EXCEPT !.section = "interface"]
  OBVIOUS
<1>6. /\ DOMAIN r = {"section", "iface", "peers", "ok"}
      /\ r.section = "interface" /\ r.iface = b /\ r.peers = <<>> /\ r.ok = TRUE
      /\ r = [x \in {"section", "iface", "peers", "ok"} |-> r[x]]
  BY <1>2, <1>5
<1>7. r = Reader("interface", b, <<>>)
  BY <1>6 DEF Reader
<1> QED BY <1>1, <1>4, <1>5, <1>7

\* A file that was written is read to the end.
LEMMA ReadWritten ==
  ASSUME NEW iface, InterfaceWritable(iface),
         NEW peers \in Seq(PeerRecord), \A i \in DOMAIN peers : PeerFits(peers[i]),
         NEW conn, conn.iface = iface, conn.peers = peers
  PROVE  \E section : ReadLines(Start, ExportToString(conn)) =
                        Reader(section, [iface EXCEPT !.FwMark = <<"0">>], peers)
<1>1. PICK W, header : W = Written /\ header = <<InterfaceHeader>>
  OBVIOUS
<1>2. header \in Seq(W) /\ ReadLines(Start, header) = Reader("interface", InterfaceBuilder, <<>>)
  <2>1. PICK h : h = InterfaceHeader
    OBVIOUS
  <2>2. h \in W
    BY <2>1, <1>1 DEF Written
  <2>3. <<h>> \in Seq(W)
    BY <2>2, SingleIs
  <2>4. ReadLines(Start, <<h>>) = ReadLine(Start, h)
    BY ReadOne
  <2> QED BY <2>1, <2>3, <2>4, <1>1, ReadHeader
<1>3. PICK a, b : a = FlattenSeq(InterfaceParts(iface)) /\ b = FlattenSeq(PeersParts(peers))
  OBVIOUS
<1>4. PICK new : new = [iface EXCEPT !.FwMark = <<"0">>]
  OBVIOUS
<1>5. /\ a \in Seq(W)
      /\ ReadLines(Reader("interface", InterfaceBuilder, <<>>), a) = Reader("interface", new, <<>>)
  BY <1>1, <1>3, <1>4, ReadInterface
<1>6. /\ b \in Seq(W)
      /\ \E section : ReadLines(Reader("interface", new, <<>>), b) = Reader(section, new, peers)
  BY <1>1, <1>3, ReadPeers
<1>7. ExportToString(conn) = (header \o a) \o b
  BY <1>1, <1>3 DEF ExportToString, InterfaceParts, PeersParts
<1>8. PICK upper : upper = header \o a /\ upper \in Seq(W)
  <2>1. header \o a \in Seq(W)
    BY <1>2, <1>5
  <2> QED BY <2>1
<1>9. ReadLines(Start, upper \o b) = ReadLines(ReadLines(Start, upper), b)
  <2>1. b \in Seq(W) /\ upper \in Seq(W)
    BY <1>6, <1>8
  <2>2. PICK s : s = Start
    OBVIOUS
  <2>3. ReadLines(s, upper \o b) = ReadLines(ReadLines(s, upper), b)
    BY <2>1, ReadConcat
  <2> QED BY <2>2, <2>3
<1>10. ReadLines(Start, header \o a) = ReadLines(ReadLines(Start, header), a)
  BY <1>2, <1>5, ReadConcat
<1> QED BY <1>2, <1>4, <1>5, <1>6, <1>7, <1>8, <1>9, <1>10

LEMMA ReaderInvImports == ReaderInv => ExportedIsImported
<1> SUFFICES ASSUME ReaderInv, NEW conn \in Parsed(parsed)
             PROVE  LoadFromStr(ExportToString(conn)) = {[conn EXCEPT !.iface.FwMark = <<"0">>]}
  BY DEF ExportedIsImported
<1>1. PICK iface, peers : iface = parsed.iface /\ peers = parsed.peers
  OBVIOUS
<1>2. /\ parsed.ok /\ Built(parsed) /\ ValidConn(conn)
      /\ conn = [x \in {"iface", "peers"} |-> IF x = "iface" THEN iface ELSE peers]
  BY <1>1 DEF Parsed
<1>3. DOMAIN conn = {"iface", "peers"} /\ conn.iface = iface /\ conn.peers = peers
  BY <1>2
<1>4. /\ InterfaceWritable(iface) /\ peers \in Seq(PeerRecord)
      /\ \A i \in DOMAIN peers : PeerFits(peers[i])
  BY <1>1, <1>2, ParsedWritable DEF ReaderInv
<1>5. PICK new : new = [iface EXCEPT !.FwMark = <<"0">>]
  OBVIOUS
<1>6. PICK s, section : s = ReadLines(Start, ExportToString(conn)) /\ s = Reader(section, new, peers)
  <2>1. \E section : ReadLines(Start, ExportToString(conn)) =
                       Reader(section, [iface EXCEPT !.FwMark = <<"0">>], peers)
    BY <1>3, <1>4, ReadWritten
  <2> QED BY <2>1, <1>5
<1>7. s.ok = TRUE /\ s.iface = new /\ s.peers = peers
  BY <1>6 DEF Reader
<1>8. Built(s)
  <2>1. new["PrivateKey"] = iface["PrivateKey"]
    <3>1. "PrivateKey" \in DOMAIN iface
      BY <1>4, KindsAre DEF InterfaceWritable
    <3> QED BY <3>1, <1>5
  <2>2. iface.PrivateKey # <<>> /\ \A i \in DOMAIN peers : peers[i].PublicKey # <<>>
    BY <1>1, <1>2 DEF Built
  <2> QED BY <2>1, <2>2, <1>7 DEF Built
<1>9. PICK c : c = [conn EXCEPT !.iface.FwMark = <<"0">>]
  OBVIOUS
<1>10. /\ DOMAIN c = {"iface", "peers"} /\ c.iface = new /\ c.peers = peers
       /\ c = [x \in {"iface", "peers"} |-> c[x]]
  BY <1>3, <1>5, <1>9
<1>11. [iface |-> s.iface, peers |-> s.peers] = c
  BY <1>7, <1>10
<1>12. ValidConn(c)
  BY <1>2, <1>3, <1>10 DEF ValidConn
<1>13. Parsed(s) = {c}
  BY <1>7, <1>8, <1>11, <1>12 DEF Parsed
<1> QED BY <1>6, <1>9, <1>13 DEF LoadFromStr

\* A wg-quick file stays faithful, whatever its lines are: the parser's result is what they say
\* (load_from_str), and what is exported reads as it was (export_to_string).
THEOREM FileStaysFaithful == ReaderSpec => []FileFaithful
<1>1. ReaderInv => FileFaithful
  BY ReaderInvSays, ReaderInvImports DEF FileFaithful
<1> QED BY <1>1, ReaderInitInv, ReaderStepInv, PTL DEF ReaderSpec

-----------------------------------------------------------------------------
(* The invariants.                                                          *)

Places == Busy \cup {"unspawned", "send", "down", "up", "done"}
Fields == {"at", "kind", "name", "conn", "cfg", "reconnect"}

IsBackup(f) == f \in {Missing, Emptied, Mixed} \/ f = Whole(f.cfg)
IsFile(f) == IsBackup(f) \/ f = Beginning(f.cfg)

\* The record of a task, and the places only a save or only the TUI's tasks come to.
TaskShape(r) ==
  /\ "at" \in DOMAIN r /\ r.at \in Places
  /\ r.at # "unspawned" => Fields \subseteq DOMAIN r /\ r.kind \in {"save", "import", "cli"}
  /\ r.at \in {"backup", "backing"} => r.kind = "save"
  /\ r.at = "send" => r.kind # "cli"

\* Who is alive: no task of the TUI without the TUI.
ShapeInv ==
  /\ IsFile(file) /\ IsBackup(backup)
  /\ DOMAIN task = Task /\ \A t \in Task : TaskShape(task[t])
  /\ {"on", "cfg", "inbox"} \subseteq DOMAIN tui /\ {"on", "cfg", "up"} \subseteq DOMAIN daemon
  /\ tui.inbox \in Seq(ToSet(tui.inbox))
  /\ tui.on \/ tui = NotRunning
  /\ tui.on \/ \A t \in Task : ~OfTui(t)
  /\ odd \subseteq {"overlap", "late", "cli", "refused", "save cut", "import cut", "cut read"}

\* One writer at a time has in memory what the file held last.
FileHeld ==
  /\ \A s, t \in Task : At(s, Writing) /\ At(t, Writing) => s = t
  /\ \A t \in Task : At(t, Writing) => task[t].cfg = wanted
  /\ \A t \in Task : At(t, {"backup", "backing", "open"}) => file \in {Missing, Whole(wanted)}
  /\ \A t \in Task : At(t, {"write"}) => file = Emptied
  /\ file.is = "whole" => file = Whole(wanted)
  /\ file = Missing => wanted = NoConnections

FileInv == odd \cap {"overlap", "cut read"} = {} => FileHeld

\* A file without its end comes from a write that was cut.
CutInv ==
  file.is = "beginning" \/ "cut read" \in odd => odd \cap {"save cut", "import cut"} # {}

\* A save does not truncate the file before its backup is whole.
BackupHeld ==
  /\ \A t \in Task : At(t, {"backing"}) => backup = Emptied
  /\ \A t \in Task : At(t, {"open", "write"}) /\ task[t].kind = "save" => backup = Whole(wanted)
  /\ /\ file.is \in {"empty", "mixed", "beginning"}
     /\ \A t \in Task : At(t, {"write"}) => task[t].kind = "save"
     => backup = Whole(wanted) \/ wanted = NoConnections

BackupInv == odd \cap {"overlap", "import cut", "cut read"} = {} => BackupHeld

\* What the TUI will show when it has handled its messages.
Shown(ui) == IF ui.inbox = <<>> THEN ui.cfg ELSE ui.inbox[Len(ui.inbox)]

\* One task at a time has something to tell the TUI.
ShownHeld ==
  /\ \A s, t \in Task : At(t, {"send"}) /\ At(s, Writing \cup {"send"}) => s = t
  /\ \A t \in Task : At(t, {"send"}) => file = Whole(Updated(t))
  /\ (\A t \in Task : ~At(t, {"write", "send"})) => file = Whole(Shown(tui))

ShownInv ==
  tui.on /\ odd \cap {"overlap", "late", "cli", "save cut", "import cut"} = {} => ShownHeld

\* What is in memory on the way to the file is valid.
ValidHeld ==
  /\ file.is = "whole" => ValidApp(file.cfg)
  /\ \A t \in Task : ~At(t, {"unspawned"}) =>
       /\ ValidName(<<task[t].name>>) /\ ValidConn(task[t].conn)
       /\ At(t, Writing) => task[t].cfg = NoConnections \/ ValidApp(task[t].cfg)

ValidInv == "refused" \notin odd => ValidHeld

-----------------------------------------------------------------------------
(* Messages.                                                                *)

LEMMA Ranged ==
  ASSUME NEW S, NEW s \in Seq(S)
  PROVE  s \in Seq(ToSet(s))
<1>1. DOMAIN s = 1 .. Len(s) /\ Len(s) \in Nat /\ s = [i \in 1 .. Len(s) |-> s[i]]
  OBVIOUS
<1>2. s \in [1 .. Len(s) -> ToSet(s)]
  BY <1>1 DEF ToSet
<1> QED
  BY <1>1, <1>2, SeqDef

LEMMA AppendShown ==
  ASSUME NEW s, s \in Seq(ToSet(s)), NEW e
  PROVE  LET r == Append(s, e) IN
         r \in Seq(ToSet(r)) /\ r # <<>> /\ r[Len(r)] = e
<1> DEFINE S == ToSet(s) \cup {e}
           r == Append(s, e)
<1>1. s \in Seq(S)
  OBVIOUS
<1>2. r \in Seq(S) /\ Len(r) = Len(s) + 1 /\ r[Len(s) + 1] = e
  BY <1>1
<1>3. r \in Seq(ToSet(r))
  BY <1>2, Ranged
<1>4. r # <<>>
  BY <1>1, <1>2
<1> QED
  BY <1>1, <1>2, <1>3, <1>4

LEMMA TailShown ==
  ASSUME NEW s, s \in Seq(ToSet(s)), s # <<>>
  PROVE  LET r == Tail(s) IN
         /\ r \in Seq(ToSet(r))
         /\ r = <<>> => Head(s) = s[Len(s)]
         /\ r # <<>> => r[Len(r)] = s[Len(s)]
<1>1. PICK r : r = Tail(s)
  OBVIOUS
<1>2. r \in Seq(ToSet(s)) /\ Len(r) = Len(s) - 1 /\ \A i \in 1 .. Len(r) : r[i] = s[i + 1]
  BY <1>1
<1>3. Len(s) \in Nat /\ Len(s) # 0
  OBVIOUS
<1>4. r = <<>> => Len(r) = 0
  OBVIOUS
<1>5. r # <<>> => Len(r) # 0
  BY <1>2
<1>6. r = <<>> => Head(s) = s[Len(s)]
  BY <1>2, <1>3, <1>4
<1>7. r # <<>> => r[Len(r)] = s[Len(s)]
  BY <1>2, <1>3, <1>5
<1> QED
  BY <1>1, <1>2, <1>6, <1>7, Ranged

-----------------------------------------------------------------------------
(* Tasks.                                                                   *)

\* The record s of a task is r at another place.
Moved(r, s, p) ==
  /\ Fields \subseteq DOMAIN s /\ s.at = p
  /\ s.kind = r.kind /\ s.name = r.name /\ s.conn = r.conn /\ s.cfg = r.cfg

Others(t) == DOMAIN task' = Task /\ \A u \in Task \ {t} : task'[u] = task[u]

\* A task that goes on stays what it is.
LEMMA GoMoves ==
  ASSUME ShapeInv, NEW t \in Task, ~At(t, {"unspawned"}), NEW p, Go(t, p)
  PROVE  Others(t) /\ Moved(task[t], task'[t], p)
<1>1. Fields \subseteq DOMAIN task[t] /\ DOMAIN task = Task
  BY DEF ShapeInv, TaskShape, At
<1>2. task' = [task EXCEPT ![t] = [task[t] EXCEPT !.at = p]]
  BY DEF Go
<1>3. task'[t] = [task[t] EXCEPT !.at = p] /\ Others(t)
  BY <1>1, <1>2 DEF Others
<1> QED
  BY <1>1, <1>3 DEF Moved, Fields

\* The record of a task that is spawned.
LEMMA NewTask ==
  ASSUME ShapeInv, NEW t \in Task, NEW r, task' = [task EXCEPT ![t] = r]
  PROVE  Others(t) /\ task'[t] = r
  BY DEF ShapeInv, Others

\* A task that has loaded.
LEMMA LoadMoves ==
  ASSUME ShapeInv, NEW t \in Task, LoadFile(t), ~Go(t, After(t))
  PROVE  /\ Others(t) /\ Fields \subseteq DOMAIN task'[t]
         /\ task'[t].at = IF task[t].kind = "save" THEN "backup" ELSE "open"
         /\ task'[t].kind = task[t].kind /\ task'[t].name = task[t].name
         /\ task'[t].conn = task[t].conn /\ task'[t].cfg \in LoadFor(t)
<1>1. Fields \subseteq DOMAIN task[t] /\ DOMAIN task = Task
  BY DEF ShapeInv, TaskShape, At, LoadFile
<1>2. PICK cfg \in LoadFor(t) :
        task' = [task EXCEPT ![t].at = IF task[t].kind = "save" THEN "backup" ELSE "open",
                             ![t].cfg = cfg]
  BY DEF LoadFile
<1>3. PICK p : p = IF task[t].kind = "save" THEN "backup" ELSE "open"
  OBVIOUS
<1>4. Others(t) /\ task'[t] = [[task[t] EXCEPT !.at = p] EXCEPT !.cfg = cfg]
  BY <1>1, <1>2, <1>3 DEF Others
<1> QED
  BY <1>1, <1>3, <1>4 DEF Fields

\* Where the tasks of a TUI that is gone are.
LEMMA EndMoves ==
  ASSUME ShapeInv,
         task' = [t \in Task |-> IF OfTui(t) THEN [task[t] EXCEPT !.at = "done"] ELSE task[t]]
  PROVE  /\ DOMAIN task' = Task
         /\ \A t \in Task : IF OfTui(t) THEN Moved(task[t], task'[t], "done")
                            ELSE task'[t] = task[t]
<1>1. ASSUME NEW t \in Task, OfTui(t) PROVE Moved(task[t], task'[t], "done")
  <2>1. Fields \subseteq DOMAIN task[t]
    BY <1>1 DEF ShapeInv, TaskShape, OfTui, At
  <2>2. task'[t] = [task[t] EXCEPT !.at = "done"]
    BY <1>1
  <2> QED
    BY <2>1, <2>2 DEF Moved, Fields
<1> QED
  BY <1>1

-----------------------------------------------------------------------------
(* Files.                                                                   *)

LEMMA FileFacts ==
  /\ IsFile(Missing) /\ IsFile(Emptied) /\ IsFile(Mixed)
  /\ Missing.is = "missing" /\ Emptied.is = "empty" /\ Mixed.is = "mixed"
  /\ Missing.cfg = NoConnections
  /\ \A c : IsFile(Whole(c)) /\ Whole(c).is = "whole" /\ Whole(c).cfg = c
  /\ Emptied # Missing
  /\ \A c : Whole(c) \notin {Missing, Emptied, Mixed}
  BY DEF IsFile, IsBackup, Missing, Emptied, Mixed, Whole, File

LEMMA BeginningFacts ==
  \A c : /\ IsFile(Beginning(c)) /\ Beginning(c).is = "beginning" /\ Beginning(c).cfg = c
         /\ Beginning(c) \notin {Missing, Emptied, Mixed}
  BY DEF IsFile, IsBackup, Missing, Emptied, Mixed, Beginning, File

LEMMA BackupFacts ==
  /\ IsBackup(Missing) /\ IsBackup(Emptied) /\ IsBackup(Mixed) /\ \A c : IsBackup(Whole(c))
  /\ \A f : IsBackup(f) => f.is \in {"missing", "empty", "mixed", "whole"}
  BY DEF IsBackup, Missing, Emptied, Mixed, Whole, File

LEMMA FileKinds ==
  ASSUME NEW f, IsFile(f)
  PROVE  /\ f.is \in {"missing", "empty", "mixed", "beginning", "whole"}
         /\ f.is = "whole" => f = Whole(f.cfg)
         /\ f.is = "beginning" => f = Beginning(f.cfg)
         /\ f.is = "missing" => f = Missing
         /\ f.is = "empty" => f = Emptied
  BY FileFacts, BeginningFacts DEF IsFile, IsBackup

LEMMA WrittenFiles ==
  ASSUME NEW f, NEW c, NEW g \in WrittenOver(f, c)
  PROVE  /\ IsFile(g) /\ IsBackup(g) /\ g # Missing /\ g \in {Whole(c), Mixed}
         /\ f = Emptied => g = Whole(c)
  BY FileFacts, BackupFacts DEF WrittenOver

\* What loads is valid, whole or without its end: an empty file has no connection.
LEMMA Loads ==
  ASSUME NEW f, IsFile(f), NEW cfg \in LoadAppConfig(f)
  PROVE  f \in {Whole(cfg), Beginning(cfg)} /\ ValidApp(cfg) /\ LoadAppConfig(f) = {cfg}
<1>1. CASE f.is \in {"whole", "beginning"}
  BY <1>1, FileKinds, FileFacts, BeginningFacts DEF LoadAppConfig
<1>2. CASE f.is = "empty"
  <2>1. cfg = NoConnections /\ ValidApp(cfg)
    BY <1>2 DEF LoadAppConfig
  <2> QED
    BY <2>1 DEF ValidApp
<1>3. CASE f.is \notin {"whole", "beginning", "empty"}
  BY <1>3 DEF LoadAppConfig
<1> QED
  BY <1>1, <1>2, <1>3

\* Only the command line starts with nothing.
LEMMA LoadsFor ==
  ASSUME ShapeInv, NEW t \in Task, NEW cfg \in LoadFor(t)
  PROVE  \/ file \in {Whole(cfg), Beginning(cfg)} /\ ValidApp(cfg)
         \/ file = Missing /\ cfg = NoConnections
<1>1. IsFile(file)
  BY DEF ShapeInv
<1> QED
  BY <1>1, Loads DEF LoadFor

-----------------------------------------------------------------------------
(* Shapes.                                                                  *)

LEMMA NoTui == ~NotRunning.on /\ NotRunning.inbox = <<>>
  BY DEF NotRunning

LEMMA InitShape == StoreInit => ShapeInv
<1> SUFFICES ASSUME StoreInit PROVE ShapeInv
  OBVIOUS
<1>1. IsFile(file) /\ IsBackup(backup)
  BY StoreAssumption, FileFacts DEF StoreInit, IsFile, IsBackup
<1>2. DOMAIN task = Task /\ \A t \in Task : TaskShape(task[t]) /\ ~OfTui(t)
  BY DEF StoreInit, Unspawned, TaskShape, Places, Busy, Writing, OfTui, At
<1>3. /\ tui = NotRunning /\ {"on", "cfg", "inbox"} \subseteq DOMAIN tui
      /\ {"on", "cfg", "up"} \subseteq DOMAIN daemon /\ odd = {}
  BY DEF StoreInit, NotRunning, NoDaemon
<1>4. tui.inbox = <<>>
  BY <1>3 DEF NotRunning
<1>5. <<>> \in Seq(ToSet(<<>>))
  BY Ranged
<1> QED
  BY <1>1, <1>2, <1>3, <1>4, <1>5 DEF ShapeInv

\* The part about the tasks.
TasksShape == DOMAIN task = Task /\ \A t \in Task : TaskShape(task[t])

LEMMA MoveShape ==
  ASSUME ShapeInv, NEW t \in Task, ~At(t, {"unspawned", "done"}),
         NEW p \in Places \ {"unspawned"}, Others(t), Moved(task[t], task'[t], p),
         p \in {"backup", "backing"} => task[t].kind = "save",
         p = "send" => task[t].kind # "cli"
  PROVE  TasksShape' /\ ((\A u \in Task : ~OfTui(u)) => \A u \in Task : ~OfTui(u)')
<1>1. task[t].kind \in {"save", "import", "cli"} /\ \A u \in Task : TaskShape(task[u])
  BY DEF ShapeInv, TaskShape, At
<1>2. TaskShape(task'[t])
  BY <1>1 DEF Moved, TaskShape, Fields
<1>3. TasksShape'
  BY <1>1, <1>2 DEF TasksShape, Others
<1>4. ~OfTui(t) => ~OfTui(t)'
  BY DEF OfTui, At, Moved
<1> QED
  BY <1>3, <1>4 DEF Others, OfTui, At

\* A task goes on, and neither the TUI nor the daemon changes.
LEMMA TaskMoveShape ==
  ASSUME ShapeInv, TasksShape', (\A u \in Task : ~OfTui(u)) => \A u \in Task : ~OfTui(u)',
         IsFile(file)', IsBackup(backup)', UNCHANGED tui, {"on", "cfg", "up"} \subseteq DOMAIN daemon',
         odd' \subseteq {"overlap", "late", "cli", "refused", "save cut", "import cut", "cut read"}
  PROVE  ShapeInv'
  BY DEF ShapeInv, TasksShape

LEMMA SpawnShape ==
  ASSUME ShapeInv, NEW t \in Task, NEW r, task' = [task EXCEPT ![t] = r],
         Fields \subseteq DOMAIN r, r.at = "queued", r.kind \in {"save", "import", "cli"},
         tui.on \/ r.kind = "cli",
         odd' = odd \cup Refused(task'[t]), UNCHANGED <<file, backup, tui, daemon>>
  PROVE  ShapeInv'
<1>1. Others(t) /\ task'[t] = r
  BY NewTask
<1>2. TaskShape(r)
  BY DEF TaskShape, Fields, Places, Busy
<1>3. TasksShape'
  BY <1>1, <1>2 DEF TasksShape, ShapeInv, Others
<1>4. tui.on \/ \A u \in Task : ~OfTui(u)'
  BY <1>1 DEF Others, OfTui, At, ShapeInv
<1>5. odd' \subseteq odd \cup {"refused"}
  BY DEF Refused
<1> QED
  BY <1>3, <1>4, <1>5 DEF ShapeInv, TasksShape

LEMMA DaemonShape ==
  ASSUME {"on", "cfg", "up"} \subseteq DOMAIN daemon
  PROVE  /\ \A name : DaemonUp(name) \/ DaemonDown(name)
              => {"on", "cfg", "up"} \subseteq DOMAIN daemon'
         /\ StatusPoll \/ StartDaemon \/ StopDaemon => {"on", "cfg", "up"} \subseteq DOMAIN daemon'
  BY DEF DaemonUp, DaemonDown, StatusPoll, StartDaemon, StopDaemon, NoDaemon

\* The steps of one task up to the end of its write, and what follows.
LEMMA WriterShape ==
  ASSUME ShapeInv, NEW t \in Task,
         \/ LoadFile(t) \/ OpenBackup(t) \/ WriteBackup(t) \/ BackupFails(t)
         \/ OpenFails(t) \/ OpenFile(t) \/ WriteFile(t) \/ WriteFails(t)
  PROVE  ShapeInv'
<1>1. /\ IsFile(file) /\ IsBackup(backup) /\ {"on", "cfg", "up"} \subseteq DOMAIN daemon
      /\ odd \subseteq {"overlap", "late", "cli", "refused", "save cut", "import cut", "cut read"}
      /\ TaskShape(task[t])
  BY DEF ShapeInv
<1>2. /\ ~At(t, {"unspawned", "done"}) /\ task[t].kind \in {"save", "import", "cli"}
      /\ UNCHANGED <<tui, daemon>>
  BY <1>1 DEF LoadFile, OpenBackup, WriteBackup, BackupFails, OpenFails, OpenFile, WriteFile,
              WriteFails, At, TaskShape
<1>3. After(t) \in {"down", "done"}
  BY DEF After
<1>4. CASE LoadFile(t)
  <2>1. /\ UNCHANGED <<file, backup>>
        /\ odd' \subseteq odd \cup {"overlap", "late", "cut read"}
    BY <1>4 DEF LoadFile
  <2>2. CASE Go(t, After(t))
    <3>1. Others(t) /\ Moved(task[t], task'[t], After(t))
      BY <1>2, <2>2, GoMoves DEF At
    <3>2. TasksShape' /\ ((\A u \in Task : ~OfTui(u)) => \A u \in Task : ~OfTui(u)')
      BY <1>2, <1>3, <3>1, MoveShape DEF Places
    <3> QED
      BY <1>1, <1>2, <2>1, <3>2, TaskMoveShape
  <2>3. CASE ~Go(t, After(t))
    <3>1. /\ Others(t) /\ Fields \subseteq DOMAIN task'[t]
          /\ task'[t].at = (IF task[t].kind = "save" THEN "backup" ELSE "open")
          /\ task'[t].kind = task[t].kind
      BY <1>4, <2>3, LoadMoves
    <3>2. TaskShape(task'[t])
      BY <1>2, <3>1 DEF TaskShape, Places, Busy, Writing, Fields
    <3>3. TasksShape'
      BY <3>1, <3>2 DEF TasksShape, Others, ShapeInv
    <3>4. (\A u \in Task : ~OfTui(u)) => \A u \in Task : ~OfTui(u)'
      BY <1>2, <3>1 DEF Others, OfTui, At
    <3> QED
      BY <1>1, <1>2, <2>1, <3>3, <3>4, TaskMoveShape
  <2> QED
    BY <2>2, <2>3
<1>5. CASE ~LoadFile(t)
  <2>1. PICK p \in {"backing", "open", "write", "done", "send", "down"} :
          /\ Go(t, p)
          /\ p = "backing" => task[t].at = "backup"
          /\ p = "send" => task[t].kind # "cli"
    BY <1>3, <1>5 DEF OpenBackup, WriteBackup, BackupFails, OpenFails, OpenFile, WriteFile,
                      WriteFails, At
  <2>2. Others(t) /\ Moved(task[t], task'[t], p)
    BY <1>2, <2>1, GoMoves DEF At
  <2>3. p = "backing" => task[t].kind = "save"
    BY <1>1, <2>1 DEF TaskShape
  <2>4. TasksShape' /\ ((\A u \in Task : ~OfTui(u)) => \A u \in Task : ~OfTui(u)')
    BY <1>2, <2>1, <2>2, <2>3, MoveShape DEF Places, Busy, Writing
  <2>5. /\ \/ file' = file \/ file' \in {Emptied, Mixed} \/ \E cfg : file' = Beginning(cfg)
           \/ file' \in WrittenOver(file, Updated(t))
        /\ \/ backup' = backup \/ backup' \in {Emptied, Mixed}
           \/ backup' \in WrittenOver(backup, BackedUp(t))
    BY <1>5 DEF OpenBackup, WriteBackup, BackupFails, OpenFails, OpenFile, WriteFile, WriteFails
  <2>6. IsFile(file)'
    BY <1>1, <2>5, WrittenFiles, FileFacts, BeginningFacts
  <2>8. IsBackup(backup)'
    BY <1>1, <2>5, WrittenFiles, BackupFacts
  <2>7. odd' \subseteq odd \cup {"cli", "save cut", "import cut"}
    BY <1>5 DEF OpenBackup, WriteBackup, BackupFails, OpenFails, OpenFile, WriteFile, WriteFails
  <2> QED
    BY <1>1, <1>2, <2>4, <2>6, <2>7, <2>8, TaskMoveShape
<1> QED
  BY <1>4, <1>5

LEMMA StepShape == ShapeInv /\ [StoreNext]_storeVars => ShapeInv'
<1> SUFFICES ASSUME ShapeInv, [StoreNext]_storeVars PROVE ShapeInv'
  OBVIOUS
<1>1. /\ IsFile(file) /\ IsBackup(backup) /\ {"on", "cfg", "up"} \subseteq DOMAIN daemon
      /\ odd \subseteq {"overlap", "late", "cli", "refused", "save cut", "import cut", "cut read"}
      /\ \A t \in Task : TaskShape(task[t])
      /\ {"on", "cfg", "inbox"} \subseteq DOMAIN tui /\ tui.inbox \in Seq(ToSet(tui.inbox))
      /\ tui.on \/ tui = NotRunning
      /\ tui.on \/ \A t \in Task : ~OfTui(t)
      /\ DOMAIN task = Task
  BY DEF ShapeInv
<1>2. ASSUME UNCHANGED <<file, backup, task, tui, odd>>,
             {"on", "cfg", "up"} \subseteq DOMAIN daemon'
      PROVE  ShapeInv'
  BY <1>2 DEF ShapeInv, OfTui, At
<1>3. CASE StartDaemon \/ StopDaemon \/ StatusPoll
  BY <1>1, <1>2, <1>3, DaemonShape DEF StartDaemon, StopDaemon, StatusPoll
<1>4. ASSUME NEW name, UserUp(name) \/ UserDown(name) PROVE ShapeInv'
  BY <1>1, <1>2, <1>4, DaemonShape DEF UserUp, UserDown
<1>5. CASE StartTui
  <2>1. /\ UNCHANGED <<file, backup, task, daemon>> /\ odd' \subseteq odd
        /\ \E cfg : tui' = [NotRunning EXCEPT !.on = TRUE, !.cfg = cfg]
    BY <1>5 DEF StartTui
  <2>2. {"on", "cfg", "inbox"} \subseteq DOMAIN tui' /\ tui'.inbox = <<>> /\ tui'.on
    BY <2>1 DEF NotRunning
  <2>3. tui'.inbox \in Seq(ToSet(tui'.inbox))
    BY <2>2, Ranged
  <2> QED
    BY <1>1, <2>1, <2>2, <2>3 DEF ShapeInv, OfTui, At
<1>6. CASE HandleReload
  <2>1. UNCHANGED <<file, backup, task, daemon, odd>> /\ tui.inbox # <<>>
    BY <1>6 DEF HandleReload
  <2>2. tui.on
    BY <1>1, <2>1, NoTui
  <2>3. {"on", "cfg", "inbox"} \subseteq DOMAIN tui' /\ tui'.inbox = Tail(tui.inbox) /\ tui'.on
    BY <1>1, <1>6, <2>2 DEF HandleReload
  <2>4. tui'.inbox \in Seq(ToSet(tui'.inbox))
    BY <1>1, <2>1, <2>3, TailShown
  <2> QED
    BY <1>1, <2>1, <2>3, <2>4 DEF ShapeInv, OfTui, At
<1>7. CASE Quit \/ KillTui
  <2>1. /\ task' = [t \in Task |-> IF OfTui(t) THEN [task[t] EXCEPT !.at = "done"] ELSE task[t]]
        /\ UNCHANGED <<file, backup, daemon>> /\ tui' = NotRunning
        /\ odd' \subseteq odd \cup {"save cut", "import cut"}
    BY <1>7 DEF Quit, KillTui, CutBy
  <2>2. /\ DOMAIN task' = Task
        /\ \A t \in Task : IF OfTui(t) THEN Moved(task[t], task'[t], "done")
                           ELSE task'[t] = task[t]
    BY <2>1, EndMoves
  <2>3. \A t \in Task : TaskShape(task'[t]) /\ ~OfTui(t)'
    <3>1. ASSUME NEW t \in Task, OfTui(t) PROVE TaskShape(task'[t]) /\ ~OfTui(t)'
      <4>1. Moved(task[t], task'[t], "done") /\ task[t].kind \in {"save", "import", "cli"}
        BY <1>1, <2>2, <3>1 DEF OfTui, At, TaskShape
      <4> QED
        BY <4>1 DEF Moved, TaskShape, OfTui, At, Places, Fields
    <3>2. ASSUME NEW t \in Task, ~OfTui(t) PROVE TaskShape(task'[t]) /\ ~OfTui(t)'
      BY <1>1, <2>2, <3>2 DEF OfTui, At
    <3> QED
      BY <3>1, <3>2
  <2>4. /\ {"on", "cfg", "inbox"} \subseteq DOMAIN NotRunning
        /\ NotRunning.inbox \in Seq(ToSet(NotRunning.inbox))
    BY Ranged DEF NotRunning
  <2> QED
    BY <1>1, <2>1, <2>2, <2>3, <2>4 DEF ShapeInv
<1>8. ASSUME NEW t \in Task, SpawnSave(t) PROVE ShapeInv'
  BY <1>8, SpawnShape DEF SpawnSave, Fields
<1>9. ASSUME NEW t \in Task, SpawnImport(t) \/ CliImport(t) PROVE ShapeInv'
  BY <1>9, SpawnShape DEF SpawnImport, CliImport, Import, Fields
<1>10. ASSUME NEW t \in Task, Send(t) PROVE ShapeInv'
  <2>1. /\ ~At(t, {"unspawned", "done"}) /\ Go(t, After(t)) /\ After(t) \in {"down", "done"}
        /\ OfTui(t) /\ UNCHANGED <<file, backup, daemon, odd>>
    BY <1>1, <1>10 DEF Send, At, After, OfTui, TaskShape
  <2>2. TasksShape'
    BY <2>1, GoMoves, MoveShape DEF At, Places
  <2>3. tui.on /\ tui' = [tui EXCEPT !.inbox = Append(tui.inbox, Told(t))]
    BY <1>1, <1>10, <2>1 DEF Send
  <2>4. /\ {"on", "cfg", "inbox"} \subseteq DOMAIN tui' /\ tui'.on
        /\ tui'.inbox = Append(tui.inbox, Told(t))
    BY <1>1, <2>3
  <2>5. tui'.inbox \in Seq(ToSet(tui'.inbox))
    BY <1>1, <2>4, AppendShown
  <2> QED
    BY <1>1, <2>1, <2>2, <2>4, <2>5 DEF ShapeInv, TasksShape
<1>11. ASSUME NEW t \in Task, ReconnectDown(t) \/ ReconnectUp(t) \/ KillImport(t) PROVE ShapeInv'
  <2>1. PICK p \in {"up", "done"} : Go(t, p)
    BY <1>11 DEF ReconnectDown, ReconnectUp, KillImport
  <2>2. ~At(t, {"unspawned", "done"})
    BY <1>11 DEF ReconnectDown, ReconnectUp, KillImport, At, Busy, Writing
  <2>3. TasksShape' /\ ((\A u \in Task : ~OfTui(u)) => \A u \in Task : ~OfTui(u)')
    BY <2>1, <2>2, GoMoves, MoveShape DEF At, Places
  <2>4. {"on", "cfg", "up"} \subseteq DOMAIN daemon'
    BY <1>1, <1>11, DaemonShape DEF ReconnectDown, ReconnectUp, KillImport
  <2>5. UNCHANGED <<file, backup, tui>> /\ odd' \subseteq odd \cup {"save cut", "import cut"}
    BY <1>11 DEF ReconnectDown, ReconnectUp, KillImport, CutBy
  <2> QED
    BY <1>1, <2>3, <2>4, <2>5, TaskMoveShape
<1>12. CASE UNCHANGED storeVars
  BY <1>1, <1>2, <1>12 DEF storeVars
<1> QED
  BY <1>3, <1>4, <1>5, <1>6, <1>7, <1>8, <1>9, <1>10, <1>11, <1>12, WriterShape
     DEF StoreNext, TaskStep

-----------------------------------------------------------------------------
(* The steps that do not write.                                             *)

\* A task that leaves the file alone may go on, but not to a place of a writer; and
\* one that is killed in the middle of the write is remembered.
Quiet ==
  /\ UNCHANGED <<file, backup, wanted>>
  /\ odd \subseteq odd' \cup {"cli"}
  /\ \A u \in Task :
       \/ task'[u] = task[u]
       \/ /\ task'[u].at \notin Writing \cup {"send"}
          /\ At(u, {"write"}) =>
               IF task[u].kind = "save" THEN "save cut" \in odd' ELSE "import cut" \in odd'

Loaded(t) == LoadFile(t) /\ ~Go(t, After(t))

Writer(t) ==
  \/ Loaded(t) \/ OpenBackup(t) \/ WriteBackup(t) \/ BackupFails(t)
  \/ OpenFile(t) \/ WriteFile(t) \/ WriteFails(t)

LEMMA QuietMove ==
  ASSUME ShapeInv, NEW t \in Task, Others(t), task'[t].at \notin Writing \cup {"send"},
         At(t, {"write"}) =>
           IF task[t].kind = "save" THEN "save cut" \in odd' ELSE "import cut" \in odd',
         UNCHANGED <<file, backup, wanted>>, odd \subseteq odd'
  PROVE  Quiet
  BY DEF Quiet, Others

LEMMA Steps ==
  ASSUME ShapeInv, [StoreNext]_storeVars
  PROVE  Quiet \/ \E t \in Task : Writer(t)
<1>1. ASSUME UNCHANGED <<file, backup, wanted, task>>, odd \subseteq odd' \cup {"cli"} PROVE Quiet
  BY <1>1 DEF Quiet
<1>2. CASE StartDaemon \/ StopDaemon \/ StatusPoll \/ StartTui \/ HandleReload \/ UNCHANGED storeVars
  BY <1>1, <1>2 DEF StartDaemon, StopDaemon, StatusPoll, StartTui, HandleReload, storeVars
<1>3. ASSUME NEW name, UserUp(name) \/ UserDown(name) PROVE Quiet
  BY <1>1, <1>3 DEF UserUp, UserDown
<1>4. CASE Quit \/ KillTui
  <2>1. /\ task' = [t \in Task |-> IF OfTui(t) THEN [task[t] EXCEPT !.at = "done"] ELSE task[t]]
        /\ UNCHANGED <<file, backup, wanted>> /\ odd \subseteq odd'
    BY <1>4 DEF Quit, KillTui
  <2>2. \A t \in Task : IF OfTui(t) THEN Moved(task[t], task'[t], "done") ELSE task'[t] = task[t]
    BY <2>1, EndMoves
  <2>3. ASSUME NEW t \in Task, OfTui(t), At(t, {"write"})
        PROVE  IF task[t].kind = "save" THEN "save cut" \in odd' ELSE "import cut" \in odd'
    BY <1>4, <2>3 DEF Quit, KillTui, CutBy, Cut, At, Begun, Writing
  <2> QED
    BY <2>1, <2>2, <2>3 DEF Quiet, Moved, Writing
<1>5. ASSUME NEW t \in Task, SpawnSave(t) \/ SpawnImport(t) \/ CliImport(t) PROVE Quiet
  <2>1. \E r : r.at = "queued" /\ task' = [task EXCEPT ![t] = r]
    BY <1>5 DEF SpawnSave, SpawnImport, CliImport, Import
  <2>2. Others(t) /\ task'[t].at = "queued"
    BY <2>1, NewTask
  <2>3. ~At(t, {"write"}) /\ UNCHANGED <<file, backup, wanted>> /\ odd \subseteq odd'
    BY <1>5 DEF SpawnSave, SpawnImport, CliImport, MayBeSpawned, At
  <2> QED
    BY <2>2, <2>3, QuietMove DEF Writing
<1>6. ASSUME NEW t \in Task, NEW p \in {"up", "down", "done"}, ~At(t, {"unspawned"}), Go(t, p),
             UNCHANGED <<file, backup, wanted>>, odd \subseteq odd',
             At(t, {"write"}) =>
               IF task[t].kind = "save" THEN "save cut" \in odd' ELSE "import cut" \in odd'
      PROVE  Quiet
  <2>1. Others(t) /\ task'[t].at = p
    BY <1>6, GoMoves DEF Moved
  <2> QED
    BY <1>6, <2>1, QuietMove DEF Writing
<1>7. ASSUME NEW t \in Task, LoadFile(t), Go(t, After(t)) PROVE Quiet
  <2>1. After(t) \in {"down", "done"} /\ ~At(t, {"unspawned", "write"})
    BY <1>7 DEF LoadFile, After, At
  <2>2. UNCHANGED <<file, backup, wanted>> /\ odd \subseteq odd'
    BY <1>7 DEF LoadFile
  <2> QED
    BY <1>6, <1>7, <2>1, <2>2 DEF At
<1>8. ASSUME NEW t \in Task, Send(t) \/ ReconnectDown(t) \/ ReconnectUp(t) \/ OpenFails(t)
      PROVE  Quiet
  <2>1. After(t) \in {"down", "done"} /\ ~At(t, {"unspawned", "write"})
    BY <1>8 DEF Send, ReconnectDown, ReconnectUp, OpenFails, After, At
  <2>2. UNCHANGED <<file, backup, wanted, odd>>
    BY <1>8 DEF Send, ReconnectDown, ReconnectUp, OpenFails
  <2>3. \E p \in {"up", "down", "done"} : Go(t, p)
    BY <1>8, <2>1 DEF Send, ReconnectDown, ReconnectUp, OpenFails
  <2> QED
    BY <1>6, <2>1, <2>2, <2>3 DEF At
<1>9. ASSUME NEW t \in Task, KillImport(t) PROVE Quiet
  <2>1. ~At(t, {"unspawned"}) /\ Go(t, "done") /\ UNCHANGED <<file, backup, wanted>>
    BY <1>9 DEF KillImport, At, Busy, Writing
  <2>2. odd' = odd \cup CutBy({t}) /\ task[t].kind = "cli"
    BY <1>9 DEF KillImport
  <2>3. At(t, {"write"}) => "import cut" \in odd'
    BY <2>2 DEF CutBy, Cut
  <2> QED
    BY <1>6, <2>1, <2>2, <2>3
<1> QED
  BY <1>2, <1>3, <1>4, <1>5, <1>7, <1>8, <1>9 DEF StoreNext, TaskStep, Writer, Loaded

\* A step of a writer leaves the other tasks where they are.
LEMMA WriterMoves ==
  ASSUME ShapeInv, NEW t \in Task
  PROVE  /\ OpenBackup(t) => Others(t) /\ Moved(task[t], task'[t], "backing")
         /\ WriteBackup(t) => Others(t) /\ Moved(task[t], task'[t], "open")
         /\ OpenFile(t) => Others(t) /\ Moved(task[t], task'[t], "write")
         /\ WriteFile(t) =>
              Others(t) /\ Moved(task[t], task'[t], IF task[t].kind = "cli" THEN "done" ELSE "send")
         /\ BackupFails(t) \/ WriteFails(t) =>
              Others(t) /\ Moved(task[t], task'[t], After(t)) /\ After(t) \in {"down", "done"}
<1>1. OpenBackup(t) => Others(t) /\ Moved(task[t], task'[t], "backing")
  BY GoMoves DEF OpenBackup, At
<1>2. WriteBackup(t) => Others(t) /\ Moved(task[t], task'[t], "open")
  BY GoMoves DEF WriteBackup, At
<1>3. OpenFile(t) => Others(t) /\ Moved(task[t], task'[t], "write")
  BY GoMoves DEF OpenFile, At
<1>4. WriteFile(t) =>
        Others(t) /\ Moved(task[t], task'[t], IF task[t].kind = "cli" THEN "done" ELSE "send")
  BY GoMoves DEF WriteFile, At
<1>5. BackupFails(t) \/ WriteFails(t) =>
        Others(t) /\ Moved(task[t], task'[t], After(t)) /\ After(t) \in {"down", "done"}
  BY GoMoves DEF BackupFails, WriteFails, At, After
<1> QED
  BY <1>1, <1>2, <1>3, <1>4, <1>5

-----------------------------------------------------------------------------
(* No change is lost.                                                       *)

\* Flags stay, but "cli".
LEMMA FlagsStay ==
  ASSUME ShapeInv, [StoreNext]_storeVars
  PROVE  odd \subseteq odd' \cup {"cli"}
<1>1. ASSUME NEW t \in Task, Writer(t) PROVE odd \subseteq odd'
  BY <1>1 DEF Writer, Loaded, LoadFile, OpenBackup, WriteBackup, BackupFails, OpenFile,
              WriteFile, WriteFails
<1> QED
  BY <1>1, Steps DEF Quiet

\* A writer that loads what a cut write left is remembered, as the cut was.
LEMMA StepCut == ShapeInv /\ CutInv /\ [StoreNext]_storeVars => CutInv'
<1> SUFFICES ASSUME ShapeInv, CutInv, [StoreNext]_storeVars PROVE CutInv'
  OBVIOUS
<1>1. ASSUME NEW t \in Task, LoadFile(t) PROVE CutInv'
  BY <1>1 DEF LoadFile, CutInv
<1>2. CASE ~\E t \in Task : LoadFile(t)
  <2>1. "cut read" \in odd' => "cut read" \in odd
    <3>1. CASE StartDaemon \/ StopDaemon \/ StatusPoll \/ StartTui \/ HandleReload
               \/ Quit \/ KillTui \/ UNCHANGED storeVars
      <4>1. odd' \subseteq odd \cup {"save cut", "import cut"}
        BY <3>1 DEF StartDaemon, StopDaemon, StatusPoll, StartTui, HandleReload, Quit, KillTui, CutBy,
                    storeVars
      <4> QED
        BY <4>1
    <3>2. ASSUME NEW name, UserUp(name) \/ UserDown(name) PROVE UNCHANGED odd
      BY <3>2 DEF UserUp, UserDown
    <3>3. ASSUME NEW t \in Task, SpawnSave(t) \/ SpawnImport(t) \/ CliImport(t) \/ KillImport(t)
          PROVE  "cut read" \in odd' => "cut read" \in odd
      <4>1. odd' \subseteq odd \cup {"refused", "save cut", "import cut"}
        BY <3>3 DEF SpawnSave, SpawnImport, CliImport, KillImport, CutBy, Refused
      <4> QED
        BY <4>1
    <3>4. ASSUME NEW t \in Task, ~LoadFile(t),
                 TaskStep(t) \/ OpenFails(t) \/ BackupFails(t) \/ WriteFails(t)
          PROVE  "cut read" \in odd' => "cut read" \in odd
      <4>1. odd' \subseteq odd \cup {"cli", "save cut", "import cut"}
        BY <3>4 DEF TaskStep, OpenBackup, WriteBackup, BackupFails, OpenFails, OpenFile, WriteFile,
                    WriteFails, Send, ReconnectDown, ReconnectUp
      <4> QED
        BY <4>1
    <3> QED
      BY <1>2, <3>1, <3>2, <3>3, <3>4 DEF StoreNext
  <2>2. file'.is = "beginning" => file.is = "beginning" \/ odd' \cap {"save cut", "import cut"} # {}
    <3>1. ASSUME NEW t \in Task, Writer(t), ~WriteFails(t)
          PROVE  file' = file \/ file' = Emptied \/ \E c : file' \in {Whole(c), Mixed}
      BY <3>1, WrittenFiles DEF Writer, Loaded, LoadFile, OpenBackup, WriteBackup, BackupFails,
                                OpenFile, WriteFile
    <3>2. ASSUME NEW t \in Task, WriteFails(t) PROVE odd' \cap {"save cut", "import cut"} # {}
      BY <3>2 DEF WriteFails
    <3> QED
      BY <3>1, <3>2, Steps, FileFacts DEF Quiet
  <2> QED
    BY <2>1, <2>2, FlagsStay DEF CutInv
<1> QED
  BY <1>1, <1>2

LEMMA InitCut == StoreInit => CutInv
  BY StoreAssumption, FileFacts DEF StoreInit, CutInv

\* Insert on what was loaded is Insert on what was wanted.
LEMMA WriteWanted ==
  ASSUME ShapeInv, FileHeld, NEW t \in Task, WriteFile(t)
  PROVE  /\ file' = Whole(wanted') /\ Updated(t) = wanted' /\ Updated(t)' = wanted'
         /\ \A s \in Task \ {t} : ~At(s, Writing)
<1>1. At(t, {"write"}) /\ At(t, Writing)
  BY DEF WriteFile, At, Writing
<1>2. task[t].cfg = wanted /\ file = Emptied /\ \A s \in Task \ {t} : ~At(s, Writing)
  BY <1>1 DEF FileHeld
<1>3. Updated(t) = wanted' /\ file' \in WrittenOver(file, Updated(t))
  BY <1>2 DEF WriteFile, Updated
<1>4. Updated(t)' = Updated(t)
  BY WriterMoves DEF Moved, Updated
<1> QED
  BY <1>2, <1>3, <1>4, WrittenFiles

LEMMA QuietFile == FileHeld /\ Quiet => FileHeld'
<1> SUFFICES ASSUME FileHeld, Quiet PROVE FileHeld'
  OBVIOUS
<1>1. \A u \in Task : At(u, Writing)' => At(u, Writing) /\ task'[u] = task[u]
  BY DEF Quiet, At
<1> QED
  BY <1>1 DEF FileHeld, Quiet, At, Writing

\* What was loaded from a file that is not cut is what the file holds.
LEMMA SameFile ==
  ASSUME NEW f, NEW cfg, NEW held, f.is # "beginning",
         f \in {Whole(cfg), Beginning(cfg)} \/ (f = Missing /\ cfg = NoConnections),
         f.is = "whole" => f = Whole(held), f = Missing => held = NoConnections
  PROVE  f \in {Missing, Whole(held)} /\ cfg = held
<1>1. CASE f = Whole(cfg)
  <2>1. Whole(cfg) = Whole(held)
    BY <1>1, FileFacts
  <2>2. Whole(cfg).cfg = cfg /\ Whole(held).cfg = held
    BY FileFacts
  <2> QED
    BY <1>1, <2>1, <2>2
<1>2. CASE f = Missing /\ cfg = NoConnections
  BY <1>2
<1> QED
  BY <1>1, <1>2, BeginningFacts

LEMMA LoadedFile ==
  ASSUME ShapeInv, FileHeld, NEW t \in Task, Loaded(t),
         "overlap" \notin odd', "cut read" \notin odd'
  PROVE  /\ FileHeld' /\ file \in {Missing, Whole(wanted)}
         /\ \A s \in Task : ~At(s, Writing)
<1>1. /\ Others(t) /\ task'[t].at \in {"backup", "open"} /\ task'[t].cfg \in LoadFor(t)
      /\ UNCHANGED <<file, wanted>>
  BY LoadMoves DEF Loaded, LoadFile
<1>2. (\A s \in Task : ~At(s, Writing)) /\ file.is # "beginning"
  BY DEF Loaded, LoadFile
<1>3. /\ \/ file \in {Whole(task'[t].cfg), Beginning(task'[t].cfg)}
         \/ file = Missing /\ task'[t].cfg = NoConnections
      /\ file.is = "whole" => file = Whole(wanted)
      /\ file = Missing => wanted = NoConnections
  BY <1>1, LoadsFor DEF FileHeld
<1>4. file \in {Missing, Whole(wanted)} /\ task'[t].cfg = wanted
  BY <1>2, <1>3, SameFile
<1>5. \A s \in Task : At(s, Writing)' => s = t
  BY <1>1, <1>2 DEF Others, At
<1>6. \A s \in Task : ~At(s, {"write"})'
  BY <1>1, <1>5 DEF At, Writing
<1>7. FileHeld'
  BY <1>1, <1>3, <1>4, <1>5, <1>6 DEF FileHeld, At, Writing
<1> QED
  BY <1>2, <1>4, <1>7

LEMMA StepFile == ShapeInv /\ FileInv /\ [StoreNext]_storeVars => FileInv'
<1> SUFFICES ASSUME ShapeInv, FileInv, [StoreNext]_storeVars,
                    odd' \cap {"overlap", "cut read"} = {}
             PROVE  FileHeld'
  BY DEF FileInv
<1>1. FileHeld
  BY FlagsStay DEF FileInv
<1>2. ASSUME NEW t \in Task, OpenBackup(t) \/ WriteBackup(t) PROVE FileHeld'
  <2>1. /\ Others(t) /\ task'[t].cfg = task[t].cfg /\ task'[t].at \in {"backing", "open"}
        /\ At(t, {"backup", "backing"}) /\ UNCHANGED <<file, wanted>>
    BY <1>2, WriterMoves DEF Moved, OpenBackup, WriteBackup, At
  <2>2. \A s \in Task : At(s, Writing)' => At(s, Writing)
    BY <2>1 DEF Others, At, Writing
  <2> QED
    BY <1>1, <2>1, <2>2 DEF FileHeld, Others, At, Writing
<1>3. ASSUME NEW t \in Task, OpenFile(t) PROVE FileHeld'
  <2>1. /\ Others(t) /\ task'[t].cfg = task[t].cfg /\ task'[t].at = "write"
        /\ At(t, {"open"}) /\ file' = Emptied /\ UNCHANGED wanted
    BY <1>3, WriterMoves DEF Moved, OpenFile
  <2>2. \A s \in Task : At(s, Writing)' => s = t
    BY <1>1, <2>1 DEF FileHeld, Others, At, Writing
  <2>3. task[t].cfg = wanted
    BY <1>1, <2>1 DEF FileHeld, At, Writing
  <2> QED
    BY <2>1, <2>2, <2>3, FileFacts DEF FileHeld, At, Writing
<1>4. ASSUME NEW t \in Task, WriteFile(t) PROVE FileHeld'
  <2>1. Others(t) /\ task'[t].at \notin Writing
    BY <1>4, WriterMoves DEF Moved, Writing
  <2>2. \A s \in Task : ~At(s, Writing)'
    BY <1>1, <1>4, <2>1, WriteWanted DEF Others, At
  <2>3. file' = Whole(wanted')
    BY <1>1, <1>4, WriteWanted
  <2> QED
    BY <2>2, <2>3, FileFacts DEF FileHeld, At, Writing
<1>5. ASSUME NEW t \in Task, BackupFails(t) \/ WriteFails(t) PROVE FileHeld'
  <2>1. Others(t) /\ task'[t].at \notin Writing /\ UNCHANGED wanted
    BY <1>5, WriterMoves DEF Moved, Writing, BackupFails, WriteFails
  <2>2. \A s \in Task : At(s, Writing)' => At(s, Writing) /\ task'[s] = task[s] /\ s # t
    BY <2>1 DEF Others, At
  <2>3. CASE BackupFails(t)
    BY <1>1, <2>1, <2>2, <2>3 DEF FileHeld, BackupFails, At, Writing
  <2>4. CASE WriteFails(t)
    <3>1. /\ At(t, Writing) /\ At(t, {"write"})
          /\ file' \in {file, Mixed} \/ \E cfg : file' = Beginning(cfg)
      BY <2>4 DEF WriteFails, At, Writing
    <3>2. (\A s \in Task : ~At(s, Writing)') /\ file = Emptied
      BY <1>1, <2>2, <3>1 DEF FileHeld
    <3> QED
      BY <3>1, <3>2, FileFacts, BeginningFacts DEF FileHeld, At, Writing
  <2> QED
    BY <1>5, <2>3, <2>4
<1> QED
  BY <1>1, <1>2, <1>3, <1>4, <1>5, Steps, QuietFile, LoadedFile DEF Writer

LEMMA InitFile == StoreInit => FileInv
<1> SUFFICES ASSUME StoreInit PROVE FileHeld
  BY DEF FileInv
<1>1. \A t \in Task : ~At(t, Writing)
  BY DEF StoreInit, Unspawned, At, Writing
<1>2. file.is = "whole" => file = Whole(wanted)
  BY StoreAssumption, FileFacts DEF StoreInit
<1>3. file = Missing => wanted = NoConnections
  BY FileFacts DEF StoreInit
<1> QED
  BY <1>1, <1>2, <1>3 DEF FileHeld, At, Writing

LEMMA StoreInductive == Spec => [](ShapeInv /\ FileInv)
  BY InitShape, InitFile, StepShape, StepFile, PTL DEF Spec

\* Without overlapping writers the file holds every change that was written, of the
\* TUI and of the command line, whoever fails or is killed (save_app_config).
THEOREM ChangesKept == Spec => []NoChangeLost
<1>1. FileInv => NoChangeLost
  BY FileFacts DEF FileInv, FileHeld, NoChangeLost
<1> QED
  BY <1>1, StoreInductive, PTL

-----------------------------------------------------------------------------
(* A save can be recovered from.                                            *)

LEMMA StepBackup == ShapeInv /\ FileInv /\ BackupInv /\ [StoreNext]_storeVars => BackupInv'
<1> SUFFICES ASSUME ShapeInv, FileInv, BackupInv, [StoreNext]_storeVars,
                    odd' \cap {"overlap", "import cut", "cut read"} = {}
             PROVE  BackupHeld'
  BY DEF BackupInv
<1>1. FileHeld /\ BackupHeld
  BY FlagsStay DEF FileInv, BackupInv
<1>2. \A t \in Task : TaskShape(task[t])
  BY DEF ShapeInv
<1>3. CASE Quiet
  <2>1. \A u \in Task : At(u, Writing)' => task'[u] = task[u]
    BY <1>3 DEF Quiet, At
  <2>2. UNCHANGED <<file, backup, wanted>>
    BY <1>3 DEF Quiet
  <2>3. \A u \in Task : At(u, {"write"}) => task[u].kind = "save" \/ task'[u] = task[u]
    BY <1>3 DEF Quiet
  <2>4. (\A u \in Task : At(u, {"write"})' => task'[u].kind = "save")
          => \A u \in Task : At(u, {"write"}) => task[u].kind = "save"
    BY <2>3 DEF At
  <2> QED
    BY <1>1, <2>1, <2>2, <2>4 DEF BackupHeld, At, Writing
<1>4. ASSUME NEW t \in Task, Loaded(t) PROVE BackupHeld'
  <2>1. /\ file \in {Missing, Whole(wanted)} /\ \A s \in Task : ~At(s, Writing)
        /\ UNCHANGED <<file, backup, wanted>>
    BY <1>1, <1>4, LoadedFile DEF Loaded, LoadFile
  <2>2. /\ Others(t) /\ task'[t].kind = task[t].kind
        /\ task'[t].at = IF task[t].kind = "save" THEN "backup" ELSE "open"
    BY <1>4, LoadMoves DEF Loaded
  <2>3. \A s \in Task :
          At(s, {"backing", "open", "write"})' => task'[s].at = "open" /\ task'[s].kind # "save"
    BY <2>1, <2>2 DEF Others, At, Writing
  <2>4. file'.is \notin {"empty", "mixed", "beginning"}
    BY <2>1, FileFacts
  <2> QED
    BY <2>3, <2>4 DEF BackupHeld, At
<1>5. ASSUME NEW t \in Task, OpenBackup(t) \/ WriteBackup(t) PROVE BackupHeld'
  <2>1. /\ Others(t) /\ At(t, {"backup", "backing"}) /\ UNCHANGED <<file, wanted>>
        /\ task'[t].at = IF OpenBackup(t) THEN "backing" ELSE "open"
        /\ OpenBackup(t) => backup' = Emptied
    BY <1>5, WriterMoves DEF Moved, OpenBackup, WriteBackup, At
  <2>2. /\ At(t, Writing) /\ file \in {Missing, Whole(wanted)} /\ task[t].cfg = wanted
        /\ \A s \in Task \ {t} : ~At(s, Writing)
    BY <1>1, <2>1 DEF FileHeld, At, Writing
  <2>3. \A s \in Task : At(s, Writing)' => s = t
    BY <2>1, <2>2 DEF Others, At
  <2>4. file'.is \notin {"empty", "mixed", "beginning"}
    BY <2>1, <2>2, FileFacts
  <2>5. CASE OpenBackup(t)
    BY <2>1, <2>3, <2>4, <2>5 DEF BackupHeld, At, Writing
  <2>6. CASE ~OpenBackup(t)
    <3>1. At(t, {"backing"}) /\ backup' \in WrittenOver(backup, wanted)
      BY <1>5, <2>2, <2>6 DEF WriteBackup, BackedUp
    <3>2. backup' = Whole(wanted')
      BY <1>1, <2>1, <3>1, WrittenFiles DEF BackupHeld
    <3> QED
      BY <2>1, <2>3, <2>4, <2>6, <3>2 DEF BackupHeld, At, Writing
  <2> QED
    BY <2>5, <2>6
<1>6. ASSUME NEW t \in Task, OpenFile(t) PROVE BackupHeld'
  <2>1. /\ Others(t) /\ At(t, {"open"}) /\ At(t, Writing) /\ UNCHANGED <<backup, wanted>>
        /\ task'[t].at = "write" /\ task'[t].kind = task[t].kind
    BY <1>6, WriterMoves DEF Moved, OpenFile, At, Writing
  <2>2. \A s \in Task : At(s, Writing)' => s = t
    BY <1>1, <2>1 DEF FileHeld, Others, At
  <2>3. task[t].kind = "save" => backup = Whole(wanted)
    BY <1>1, <2>1 DEF BackupHeld, At
  <2> QED
    BY <2>1, <2>2, <2>3 DEF BackupHeld, At, Writing
<1>7. ASSUME NEW t \in Task, WriteFile(t) PROVE BackupHeld'
  <2>1. Others(t) /\ task'[t].at \notin Writing
    BY <1>7, WriterMoves DEF Moved, Writing
  <2>2. (\A s \in Task : ~At(s, Writing)') /\ file' = Whole(wanted')
    BY <1>1, <1>7, <2>1, WriteWanted DEF Others, At
  <2> QED
    BY <2>2, FileFacts DEF BackupHeld, At, Writing
<1>8. ASSUME NEW t \in Task, BackupFails(t) PROVE BackupHeld'
  <2>1. /\ Others(t) /\ task'[t].at \notin Writing /\ At(t, {"backing"}) /\ UNCHANGED <<file, wanted>>
    BY <1>8, WriterMoves DEF Moved, Writing, BackupFails
  <2>2. file \in {Missing, Whole(wanted)} /\ \A s \in Task \ {t} : ~At(s, Writing)
    BY <1>1, <2>1 DEF FileHeld, At, Writing
  <2>3. \A s \in Task : ~At(s, Writing)'
    BY <2>1, <2>2 DEF Others, At
  <2> QED
    BY <2>1, <2>2, <2>3, FileFacts DEF BackupHeld, At, Writing
<1>9. ASSUME NEW t \in Task, WriteFails(t) PROVE BackupHeld'
  <2>1. /\ Others(t) /\ task'[t].at \notin Writing /\ At(t, {"write"}) /\ At(t, Writing)
        /\ UNCHANGED <<backup, wanted>> /\ task[t].kind = "save"
    BY <1>9, WriterMoves DEF Moved, Writing, WriteFails, At
  <2>2. \A s \in Task : ~At(s, Writing)'
    BY <1>1, <2>1 DEF FileHeld, Others, At
  <2>3. backup = Whole(wanted)
    BY <1>1, <2>1 DEF BackupHeld, At
  <2> QED
    BY <2>1, <2>2, <2>3 DEF BackupHeld, At, Writing
<1> QED
  BY <1>3, <1>4, <1>5, <1>6, <1>7, <1>8, <1>9, Steps DEF Writer

LEMMA InitBackup == StoreInit => BackupInv
<1> SUFFICES ASSUME StoreInit PROVE BackupHeld
  BY DEF BackupInv
<1>1. \A t \in Task : ~At(t, Writing)
  BY DEF StoreInit, Unspawned, At, Writing
<1>2. file.is \in {"empty", "mixed", "beginning"} => wanted = NoConnections
  BY StoreAssumption, FileFacts DEF StoreInit, Emptied, Mixed, File
<1> QED
  BY <1>1, <1>2 DEF BackupHeld, At, Writing

\* A save that is killed or fails anywhere leaves the file or its backup whole, and nothing
\* that follows undoes it but a writer that loads what a failed write has left of the file
\* ("Backup exists; manual recovery possible").
THEOREM SavesRecoverable == Spec => []Recoverable
<1>1. BackupInv => Recoverable
  BY DEF BackupInv, BackupHeld, Recoverable
<1> QED
  BY <1>1, InitBackup, StepBackup, StoreInductive, PTL DEF Spec

-----------------------------------------------------------------------------
(* The TUI shows what the file has.                                         *)

LEMMA LoadedShown ==
  ASSUME ShapeInv, FileHeld, ShownHeld, NEW t \in Task, Loaded(t),
         odd' \cap {"overlap", "late"} = {}
  PROVE  ShownHeld'
<1>1. \A s \in Task : ~At(s, Writing \cup {"send"})
  BY DEF Loaded, LoadFile, At
<1>2. Others(t) /\ task'[t].at \in {"backup", "open"} /\ UNCHANGED <<file, tui>>
  BY LoadMoves DEF Loaded, LoadFile
<1>3. \A s \in Task : ~At(s, {"send", "write"})'
  BY <1>1, <1>2 DEF Others, At, Writing
<1>4. file = Whole(Shown(tui))
  BY <1>1 DEF ShownHeld, At, Writing
<1> QED
  BY <1>2, <1>3, <1>4 DEF ShownHeld, At, Shown

LEMMA WriterShown ==
  ASSUME ShapeInv, FileHeld, ShownHeld, NEW t \in Task, Writer(t), ~Loaded(t),
         odd' \cap {"cli", "save cut", "import cut"} = {}
  PROVE  ShownHeld'
<1>1. At(t, Writing) /\ UNCHANGED tui
  BY DEF Writer, Loaded, OpenBackup, WriteBackup, BackupFails, OpenFile, WriteFile, WriteFails, At,
         Writing
<1>2. /\ \A s \in Task \ {t} : ~At(s, Writing \cup {"send"})
      /\ \A s \in Task : ~At(s, {"send"})
  BY <1>1 DEF FileHeld, ShownHeld, At, Writing
<1>3. CASE OpenBackup(t) \/ WriteBackup(t) \/ BackupFails(t)
  <2>1. /\ Others(t) /\ task'[t].at \notin {"write", "send"} /\ UNCHANGED file
        /\ ~At(t, {"write", "send"})
    BY <1>3, WriterMoves DEF Moved, OpenBackup, WriteBackup, BackupFails, At
  <2>2. \A s \in Task : ~At(s, {"write", "send"}) /\ ~At(s, {"write", "send"})'
    BY <1>2, <2>1 DEF Others, At, Writing
  <2>3. file = Whole(Shown(tui))
    BY <2>2 DEF ShownHeld
  <2> QED
    BY <1>1, <2>1, <2>2, <2>3 DEF ShownHeld, At, Shown
<1>4. CASE OpenFile(t)
  <2>1. Others(t) /\ task'[t].at = "write"
    BY <1>4, WriterMoves DEF Moved
  <2>2. (\A s \in Task : ~At(s, {"send"})') /\ At(t, {"write"})'
    BY <1>2, <2>1 DEF Others, At
  <2> QED
    BY <2>2 DEF ShownHeld, At
<1>5. CASE WriteFile(t)
  <2>1. task[t].kind # "cli"
    BY <1>5 DEF WriteFile
  <2>2. Others(t) /\ task'[t].at = "send"
    BY <1>5, <2>1, WriterMoves DEF Moved
  <2>3. \A s \in Task : At(s, Writing \cup {"send"})' => s = t
    BY <1>2, <2>2 DEF Others, At
  <2>4. file' = Whole(Updated(t)')
    BY <1>5, WriteWanted
  <2> QED
    BY <2>2, <2>3, <2>4 DEF ShownHeld, At, Writing
<1>6. ~WriteFails(t)
  BY DEF WriteFails
<1> QED
  BY <1>3, <1>4, <1>5, <1>6 DEF Writer

LEMMA TuiSteps ==
  ASSUME ShapeInv, [StoreNext]_storeVars, tui'.on
  PROVE  /\ UNCHANGED tui \/ HandleReload \/ StartTui \/ \E t \in Task : Send(t)
         /\ ~StartTui => odd \subseteq odd'
<1>1. CASE StartDaemon \/ StopDaemon \/ StatusPoll \/ StartTui \/ HandleReload \/ UNCHANGED storeVars
  BY <1>1 DEF StartDaemon, StopDaemon, StatusPoll, HandleReload, storeVars
<1>2. ~Quit /\ ~KillTui
  BY NoTui DEF Quit, KillTui
<1>3. ASSUME NEW name, UserUp(name) \/ UserDown(name) PROVE UNCHANGED <<tui, odd>>
  BY <1>3 DEF UserUp, UserDown
<1>4. ASSUME NEW t \in Task, SpawnSave(t) \/ SpawnImport(t) \/ CliImport(t) \/ KillImport(t)
      PROVE  UNCHANGED tui /\ odd \subseteq odd'
  BY <1>4 DEF SpawnSave, SpawnImport, CliImport, KillImport
<1>5. ASSUME NEW t \in Task, ~Send(t),
             TaskStep(t) \/ OpenFails(t) \/ BackupFails(t) \/ WriteFails(t)
      PROVE  UNCHANGED tui /\ odd \subseteq odd'
  BY <1>5 DEF TaskStep, LoadFile, OpenBackup, WriteBackup, BackupFails, OpenFails, OpenFile,
              WriteFile, WriteFails, ReconnectDown, ReconnectUp
<1>6. ASSUME NEW t \in Task, Send(t) PROVE odd \subseteq odd'
  BY <1>6 DEF Send
<1> QED
  BY <1>1, <1>2, <1>3, <1>4, <1>5, <1>6 DEF StoreNext

\* A message that is not sent yet waits.
LEMMA SendStays ==
  ASSUME ShapeInv, [StoreNext]_storeVars, tui'.on, \A t \in Task : ~Send(t),
         NEW u \in Task, At(u, {"send"})
  PROVE  task'[u] = task[u]
<1>1. ASSUME NEW t \in Task, ~At(t, {"send"}), Others(t) PROVE task'[u] = task[u]
  BY <1>1 DEF Others, At
<1>2. CASE UNCHANGED task
  BY <1>2
<1>3. CASE StartDaemon \/ StopDaemon \/ StatusPoll \/ StartTui \/ HandleReload \/ UNCHANGED storeVars
  BY <1>2, <1>3 DEF StartDaemon, StopDaemon, StatusPoll, StartTui, HandleReload, storeVars
<1>4. ~Quit /\ ~KillTui
  BY NoTui DEF Quit, KillTui
<1>5. ASSUME NEW name, UserUp(name) \/ UserDown(name) PROVE UNCHANGED task
  BY <1>5 DEF UserUp, UserDown
<1>6. ASSUME NEW t \in Task, SpawnSave(t) \/ SpawnImport(t) \/ CliImport(t)
      PROVE  task'[u] = task[u]
  <2>1. (\E r : task' = [task EXCEPT ![t] = r]) /\ ~At(t, {"send"})
    BY <1>6 DEF SpawnSave, SpawnImport, CliImport, MayBeSpawned, At
  <2> QED
    BY <1>1, <2>1, NewTask
<1>7. ASSUME NEW t \in Task, Loaded(t) PROVE task'[u] = task[u]
  BY <1>1, <1>7, LoadMoves DEF Loaded, LoadFile, At
<1>8. ASSUME NEW t \in Task, ~Loaded(t),
             TaskStep(t) \/ OpenFails(t) \/ BackupFails(t) \/ WriteFails(t) \/ KillImport(t)
      PROVE  task'[u] = task[u]
  <2>1. (\E p : Go(t, p)) /\ ~At(t, {"unspawned", "send"})
    BY <1>8 DEF TaskStep, LoadFile, Loaded, OpenBackup, WriteBackup, BackupFails, OpenFails,
                OpenFile, WriteFile, WriteFails, ReconnectDown, ReconnectUp, KillImport, At, Busy, Writing
  <2>2. Others(t)
    BY <2>1, GoMoves DEF At
  <2> QED
    BY <1>1, <2>1, <2>2 DEF At
<1> QED
  BY <1>2, <1>3, <1>4, <1>5, <1>6, <1>7, <1>8 DEF StoreNext

\* What does not write tells the TUI, or nothing.
LEMMA QuietShown ==
  ASSUME ShapeInv, ShownHeld, Quiet, tui.on, tui'.on, [StoreNext]_storeVars,
         odd' \cap {"save cut", "import cut"} = {}
  PROVE  ShownHeld'
<1>1. UNCHANGED file /\ \A u \in Task :
        \/ task'[u] = task[u]
        \/ task'[u].at \notin Writing \cup {"send"} /\ ~At(u, {"write"})
  BY DEF Quiet
<1>2. \A u \in Task : At(u, Writing \cup {"send"})' => task'[u] = task[u]
  BY <1>1 DEF At
<1>3. \A s, t \in Task : At(t, {"send"})' /\ At(s, Writing \cup {"send"})' => s = t
  BY <1>2 DEF ShownHeld, At
<1>4. \A t \in Task : At(t, {"send"})' => file' = Whole(Updated(t)')
  BY <1>1, <1>2 DEF ShownHeld, At, Updated
<1>5. CASE \E t \in Task : Send(t)
  <2>1. PICK t \in Task : Send(t)
    BY <1>5
  <2>2. /\ At(t, {"send"}) /\ file = Whole(Updated(t))
        /\ tui' = [tui EXCEPT !.inbox = Append(tui.inbox, Updated(t))]
    BY <2>1 DEF Send, ShownHeld, Told
  <2>3. tui'.inbox = Append(tui.inbox, Updated(t))
    BY <2>2 DEF ShapeInv
  <2>4. Shown(tui') = Updated(t)
    <3>1. PICK s : s = tui.inbox /\ s \in Seq(ToSet(s))
      BY DEF ShapeInv
    <3>2. PICK r : r = Append(s, Updated(t))
      OBVIOUS
    <3>3. r # <<>> /\ r[Len(r)] = Updated(t)
      BY <3>1, <3>2, AppendShown
    <3> QED
      BY <2>3, <3>1, <3>2, <3>3 DEF Shown
  <2> QED
    BY <1>1, <1>3, <1>4, <2>2, <2>4 DEF ShownHeld
<1>6. CASE ~\E t \in Task : Send(t)
  <2>1. CASE HandleReload
    <3>1. /\ tui.inbox # <<>> /\ UNCHANGED task
          /\ tui'.cfg = Head(tui.inbox) /\ tui'.inbox = Tail(tui.inbox)
      BY <2>1 DEF HandleReload, ShapeInv
    <3>2. Shown(tui') = Shown(tui)
      BY <3>1, TailShown DEF ShapeInv, Shown
    <3> QED
      BY <1>1, <1>3, <1>4, <3>1, <3>2 DEF ShownHeld, At
  <2>2. CASE UNCHANGED tui
    <3>1. \A u \in Task : At(u, {"send"}) => task'[u] = task[u]
      BY <1>6, <2>2, SendStays
    <3>2. (\A u \in Task : ~At(u, {"write", "send"})')
            => \A u \in Task : ~At(u, {"write", "send"})
      BY <1>1, <3>1 DEF At
    <3> QED
      BY <1>1, <1>3, <1>4, <2>2, <3>2 DEF ShownHeld, Shown
  <2> QED
    BY <1>6, <2>1, <2>2, TuiSteps DEF StartTui
<1> QED
  BY <1>5, <1>6

LEMMA StartShown ==
  ASSUME ShapeInv, ~tui.on, StartTui, file.is # "beginning"
  PROVE  ShownHeld'
<1>1. \A t \in Task : ~At(t, {"send"}) /\ task'[t] = task[t]
  BY DEF ShapeInv, TaskShape, OfTui, At, StartTui
<1>2. PICK cfg \in LoadAppConfig(file) : tui' = [NotRunning EXCEPT !.on = TRUE, !.cfg = cfg]
  BY DEF StartTui
<1>3. tui'.cfg = cfg /\ tui'.inbox = <<>>
  BY <1>2 DEF NotRunning
<1>5. file # Beginning(cfg) /\ UNCHANGED file
  BY BeginningFacts DEF StartTui
<1>4. file = Whole(cfg) /\ UNCHANGED file
  BY <1>2, <1>5, Loads DEF ShapeInv
<1> QED
  BY <1>1, <1>3, <1>4 DEF ShownHeld, At, Shown

LEMMA StepShown == ShapeInv /\ FileInv /\ CutInv /\ ShownInv /\ [StoreNext]_storeVars => ShownInv'
<1> SUFFICES ASSUME ShapeInv, FileInv, CutInv, ShownInv, [StoreNext]_storeVars, tui'.on,
                    odd' \cap {"overlap", "late", "cli", "save cut", "import cut"} = {}
             PROVE  ShownHeld'
  BY DEF ShownInv
<1>0. file.is # "beginning" /\ "cut read" \notin odd
  BY FlagsStay DEF CutInv
<1>1. CASE StartTui
  BY <1>0, <1>1, StartShown DEF StartTui
<1>2. CASE ~StartTui
  <2>1. odd \subseteq odd' /\ (UNCHANGED tui \/ HandleReload \/ \E t \in Task : Send(t))
    BY <1>2, TuiSteps
  <2>2. tui.on
    <3>1. HandleReload => tui.on
      BY NoTui DEF HandleReload, ShapeInv
    <3>2. (\E t \in Task : Send(t)) => tui.on
      BY DEF Send, ShapeInv
    <3> QED
      BY <2>1, <3>1, <3>2
  <2>3. FileHeld /\ ShownHeld
    BY <1>0, <2>1, <2>2 DEF FileInv, ShownInv
  <2> QED
    BY <2>2, <2>3, Steps, QuietShown, LoadedShown, WriterShown
<1> QED
  BY <1>1, <1>2

LEMMA InitShown == StoreInit => ShownInv
  BY NoTui DEF StoreInit, ShownInv

\* When all that was written has been handled, the TUI shows what is in the file, under the
\* conditions that the property names (try_save_config, reload_from_config).
THEOREM TuiFollowsFile == Spec => []TuiMatchesFile
<1>1. ShapeInv /\ ShownInv => TuiMatchesFile
  <2> SUFFICES ASSUME ShownHeld, tui.inbox = <<>>, \A t \in Task : ~At(t, Busy \cup {"send"})
               PROVE  file = Whole(tui.cfg)
    BY DEF ShownInv, TuiMatchesFile
  <2>1. \A t \in Task : ~At(t, {"write", "send"})
    BY DEF At, Busy, Writing
  <2> QED
    BY <2>1 DEF ShownHeld, Shown
<1> QED
  BY <1>1, InitShown, InitCut, StepShown, StepCut, StoreInductive, PTL DEF Spec

-----------------------------------------------------------------------------
(* What is written can be loaded, and the daemon has nothing else.          *)

LEMMA Inserted ==
  \A cfg, name, conn :
    /\ DOMAIN Insert(cfg, name, conn) = DOMAIN cfg \cup {name}
    /\ Insert(cfg, name, conn)[name] = conn
    /\ \A n \in DOMAIN cfg \ {name} : Insert(cfg, name, conn)[n] = cfg[n]
    /\ Insert(cfg, name, conn) # NoConnections
<1> SUFFICES ASSUME NEW cfg, NEW name, NEW conn
             PROVE  /\ DOMAIN Insert(cfg, name, conn) = DOMAIN cfg \cup {name}
                    /\ Insert(cfg, name, conn)[name] = conn
                    /\ \A n \in DOMAIN cfg \ {name} : Insert(cfg, name, conn)[n] = cfg[n]
                    /\ Insert(cfg, name, conn) # NoConnections
  OBVIOUS
<1>1. DOMAIN Insert(cfg, name, conn) # {} /\ DOMAIN NoConnections = {}
  BY DEF Insert, NoConnections
<1> QED
  BY <1>1 DEF Insert

LEMMA InsertValid ==
  ASSUME NEW cfg, NEW name, NEW conn,
         cfg = NoConnections \/ ValidApp(cfg), ValidName(<<name>>), ValidConn(conn)
  PROVE  ValidApp(Insert(cfg, name, conn))
<1>0. /\ DOMAIN Insert(cfg, name, conn) = DOMAIN cfg \cup {name}
      /\ Insert(cfg, name, conn)[name] = conn
      /\ \A n \in DOMAIN cfg \ {name} : Insert(cfg, name, conn)[n] = cfg[n]
      /\ Insert(cfg, name, conn) # NoConnections
  <2>1. DOMAIN Insert(cfg, name, conn) = DOMAIN cfg \cup {name}
    BY Inserted
  <2>2. Insert(cfg, name, conn)[name] = conn
    BY Inserted
  <2>3. \A n \in DOMAIN cfg \ {name} : Insert(cfg, name, conn)[n] = cfg[n]
    BY Inserted
  <2>4. Insert(cfg, name, conn) # NoConnections
    BY Inserted
  <2> QED
    BY <2>1, <2>2, <2>3, <2>4
<1>1. DOMAIN NoConnections = {}
  BY DEF NoConnections
<1>2. \A n \in DOMAIN cfg : ValidName(<<n>>) /\ ValidConn(cfg[n])
  BY <1>1 DEF ValidApp
<1>3. \A n \in DOMAIN Insert(cfg, name, conn) :
        ValidName(<<n>>) /\ ValidConn(Insert(cfg, name, conn)[n])
  BY <1>0, <1>2
<1> QED
  BY <1>0, <1>3 DEF ValidApp

\* What the parser returns has been validated, and its peers are such a sequence.
LEMMA ParsedValid ==
  ASSUME NEW s \in Source, NEW conn \in LoadFromStr(s.text)
  PROVE  /\ ValidConn(conn) /\ "peers" \in DOMAIN conn
         /\ conn.peers \in Seq(ToSet(conn.peers))
         /\ \A i \in DOMAIN conn.peers : {"name", "AllowedIPs"} \subseteq DOMAIN conn.peers[i]
<1>1. PICK r : r = ReadLines(Start, s.text)
  OBVIOUS
<1>2. Kept(<<>> \o s.text, r)
  <2>1. s.text \in Seq(TextLine)
    BY StoreAssumption
  <2> QED BY <2>1, <1>1, StartKept, LoopKept
<1>3. r.peers \in Seq(PeerRecord)
  BY <1>2 DEF Kept, Shape
<1>4. conn \in Parsed(r)
  BY <1>1 DEF LoadFromStr
<1>5. ValidConn(conn) /\ conn = [iface |-> r.iface, peers |-> r.peers]
  BY <1>4 DEF Parsed
<1>6. conn.peers \in Seq(PeerRecord)
  BY <1>3, <1>5
<1>7. conn.peers \in Seq(ToSet(conn.peers))
  <2>1. PICK p : p = conn.peers /\ p \in Seq(PeerRecord)
    BY <1>6
  <2>2. \A i \in 1 .. Len(p) : p[i] \in ToSet(p)
    BY <2>1 DEF ToSet
  <2>3. p \in Seq(ToSet(p))
    BY <2>1, <2>2
  <2> QED BY <2>1, <2>3
<1>8. \A i \in DOMAIN conn.peers : {"name", "AllowedIPs"} \subseteq DOMAIN conn.peers[i]
  <2>1. {"name", "AllowedIPs"} \subseteq PeerFields
    BY KindsAre DEF PeerFields
  <2>2. PICK p : p = conn.peers /\ p \in Seq(PeerRecord)
    BY <1>6
  <2>3. ASSUME NEW i \in DOMAIN p PROVE DOMAIN p[i] = PeerFields
    <3>1. p[i] \in PeerRecord
      BY <2>2
    <3> QED BY <3>1 DEF PeerRecord
  <2> QED BY <2>1, <2>2, <2>3
<1> QED BY <1>5, <1>7, <1>8

\* The names of an import may be refused, and nothing else of it is.
LEMMA NamedValid ==
  ASSUME NEW s \in Source, NEW conn \in LoadFromStr(s.text),
         NEW peers, peers \in {conn.peers, NamedPeers(conn.peers, s.stem)},
         \A p \in ToSet(peers) : p.name = <<>> \/ ValidName(p.name)
  PROVE  ValidConn([conn EXCEPT !.peers = peers])
<1>1. /\ "peers" \in DOMAIN conn /\ conn.peers \in Seq(ToSet(conn.peers)) /\ conn.peers # <<>>
      /\ \A i \in DOMAIN conn.peers : /\ {"name", "AllowedIPs"} \subseteq DOMAIN conn.peers[i]
                                      /\ conn.peers[i].AllowedIPs # <<>>
  BY ParsedValid DEF ValidConn
<1>2. DOMAIN conn.peers # {}
  BY <1>1
<1>3. /\ DOMAIN peers = DOMAIN conn.peers
      /\ \A i \in DOMAIN peers : peers[i].AllowedIPs = conn.peers[i].AllowedIPs
  BY <1>1 DEF NamedPeers
<1>4. peers # <<>>
  BY <1>2, <1>3
<1>5. \A i \in DOMAIN peers : peers[i].name = <<>> \/ ValidName(peers[i].name)
  BY DEF ToSet
<1>6. [conn EXCEPT !.peers = peers].peers = peers
  BY <1>1
<1> QED
  BY <1>1, <1>3, <1>4, <1>5, <1>6 DEF ValidConn

LEMMA Accepted ==
  ASSUME NEW r, Refused(r) = {}
  PROVE  /\ ValidName(<<r.name>>) /\ (r.kind = "save" => ValidConn(r.conn))
         /\ \A p \in ToSet(r.conn.peers) : p.name = <<>> \/ ValidName(p.name)
<1>1. <<r.name>> # <<>>
  OBVIOUS
<1> QED
  BY <1>1 DEF Refused

\* A task that is spawned, if nothing was refused.
LEMMA SpawnValid ==
  ASSUME ShapeInv, NEW t \in Task, SpawnSave(t) \/ SpawnImport(t) \/ CliImport(t),
         "refused" \notin odd'
  PROVE  /\ Others(t) /\ At(t, {"unspawned"}) /\ task'[t].at = "queued" /\ UNCHANGED file
         /\ ValidName(<<task'[t].name>>) /\ ValidConn(task'[t].conn)
<1>1. /\ At(t, {"unspawned"}) /\ UNCHANGED file /\ Refused(task'[t]) = {}
      /\ \E r : r.at = "queued" /\ task' = [task EXCEPT ![t] = r]
  BY DEF SpawnSave, SpawnImport, CliImport, MayBeSpawned, Import, Refused
<1>2. Others(t) /\ task'[t].at = "queued"
  BY <1>1, NewTask
<1>3. CASE SpawnSave(t)
  <2>0. \E r : r.kind = "save" /\ task' = [task EXCEPT ![t] = r]
    BY <1>3 DEF SpawnSave
  <2>1. task'[t].kind = "save"
    BY <2>0, NewTask
  <2> QED
    BY <1>1, <1>2, <2>1, Accepted
<1>4. CASE SpawnImport(t) \/ CliImport(t)
  <2>1. PICK s \in Source : \E conn \in LoadFromStr(s.text), kind \in {"import", "cli"} :
          \E peers \in {conn.peers, NamedPeers(conn.peers, s.stem)} :
            task' = [task EXCEPT ![t] = Import(kind, s, peers, conn)]
    BY <1>4 DEF SpawnImport, CliImport
  <2>2. PICK conn \in LoadFromStr(s.text), kind \in {"import", "cli"} :
          \E peers \in {conn.peers, NamedPeers(conn.peers, s.stem)} :
            task' = [task EXCEPT ![t] = Import(kind, s, peers, conn)]
    BY <2>1
  <2>3. PICK peers \in {conn.peers, NamedPeers(conn.peers, s.stem)} :
          task' = [task EXCEPT ![t] = Import(kind, s, peers, conn)]
    BY <2>2
  <2>0. task'[t] = Import(kind, s, peers, conn)
    BY <2>3, NewTask
  <2>4. task'[t].conn = [conn EXCEPT !.peers = peers]
    BY <2>0 DEF Import
  <2>5. [conn EXCEPT !.peers = peers].peers = peers
    BY ParsedValid
  <2>6. ValidConn([conn EXCEPT !.peers = peers])
    <3>1. \A p \in ToSet(peers) : p.name = <<>> \/ ValidName(p.name)
      BY <1>1, <2>4, <2>5, Accepted
    <3> QED
      BY <3>1, NamedValid
  <2> QED
    BY <1>1, <1>2, <2>4, <2>6, Accepted
<1> QED
  BY <1>3, <1>4

\* A task that has been spawned keeps its name and its change, and comes to its
\* configuration by a load.
Continues(u) ==
  /\ task'[u].name = task[u].name /\ task'[u].conn = task[u].conn
  /\ At(u, Writing)' => \/ At(u, Writing) /\ task'[u].cfg = task[u].cfg
                        \/ task'[u].cfg \in LoadFor(u)

LEMMA StepContinues ==
  ASSUME ShapeInv, [StoreNext]_storeVars
  PROVE  \/ \E t \in Task : SpawnSave(t) \/ SpawnImport(t) \/ CliImport(t)
         \/ /\ \A u \in Task : IF At(u, {"unspawned"}) THEN task'[u] = task[u] ELSE Continues(u)
            /\ \/ file' \in {file, Emptied, Mixed} \/ \E cfg : file' = Beginning(cfg)
               \/ \E t \in Task : WriteFile(t)
<1> DEFINE Goes == \A u \in Task : IF At(u, {"unspawned"}) THEN task'[u] = task[u] ELSE Continues(u)
<1>1. ASSUME UNCHANGED task PROVE Goes
  BY <1>1 DEF Continues, At
<1>2. ASSUME NEW t \in Task, ~At(t, {"unspawned"}), Others(t), Continues(t) PROVE Goes
  BY <1>2 DEF Others, Continues, At
<1>3. CASE StartDaemon \/ StopDaemon \/ StatusPoll \/ StartTui \/ HandleReload \/ UNCHANGED storeVars
  BY <1>1, <1>3 DEF StartDaemon, StopDaemon, StatusPoll, StartTui, HandleReload, storeVars
<1>4. ASSUME NEW name, UserUp(name) \/ UserDown(name) PROVE UNCHANGED <<task, file>>
  BY <1>4 DEF UserUp, UserDown
<1>5. CASE Quit \/ KillTui
  <2>1. UNCHANGED file /\ \A t \in Task : IF OfTui(t) THEN Moved(task[t], task'[t], "done")
                                                   ELSE task'[t] = task[t]
    BY <1>5, EndMoves DEF Quit, KillTui
  <2> QED
    BY <2>1 DEF Moved, Continues, OfTui, At, Writing
<1>6. ASSUME NEW t \in Task, Loaded(t) PROVE Goes /\ UNCHANGED file
  <2>1. ~At(t, {"unspawned"}) /\ UNCHANGED file
    BY <1>6 DEF Loaded, LoadFile, At
  <2>2. Others(t) /\ Continues(t)
    BY <1>6, LoadMoves DEF Loaded, Continues
  <2> QED
    BY <1>2, <2>1, <2>2
<1>7. ASSUME NEW t \in Task, ~Loaded(t),
             TaskStep(t) \/ OpenFails(t) \/ BackupFails(t) \/ WriteFails(t) \/ KillImport(t)
      PROVE  /\ Goes
             /\ \/ file' \in {file, Emptied, Mixed} \/ \E cfg : file' = Beginning(cfg)
                \/ WriteFile(t)
  <2>0. After(t) \notin Writing /\ (IF task[t].kind = "cli" THEN "done" ELSE "send") \notin Writing
    BY DEF After, Writing
  <2>4. ASSUME OpenBackup(t) \/ WriteBackup(t) \/ OpenFile(t)
        PROVE  ~At(t, {"unspawned"}) /\ \E p : Go(t, p) /\ (p \in Writing => At(t, Writing))
    <3>1. ~At(t, {"unspawned"}) /\ At(t, Writing) /\ \E p : Go(t, p)
      BY <2>4 DEF OpenBackup, WriteBackup, OpenFile, At, Writing
    <3> QED
      BY <3>1
  <2>5. ASSUME ~(OpenBackup(t) \/ WriteBackup(t) \/ OpenFile(t))
        PROVE  ~At(t, {"unspawned"}) /\ \E p : Go(t, p) /\ (p \in Writing => At(t, Writing))
    <3>1. /\ ~At(t, {"unspawned"})
          /\ \/ Go(t, After(t)) \/ Go(t, IF task[t].kind = "cli" THEN "done" ELSE "send")
             \/ Go(t, "up") \/ Go(t, "done")
      BY <1>7, <2>5 DEF TaskStep, LoadFile, Loaded, BackupFails, OpenFails, WriteFile, WriteFails, Send,
                        ReconnectDown, ReconnectUp, KillImport, At, Busy, Writing
    <3> QED
      BY <2>0, <3>1 DEF Writing
  <2>1. /\ ~At(t, {"unspawned"})
        /\ \E p : Go(t, p) /\ (p \in Writing => At(t, Writing))
    BY <2>4, <2>5
  <2>2. Others(t) /\ Continues(t)
    BY <2>1, GoMoves DEF Moved, Continues, At
  <2>3. \/ file' \in {file, Emptied, Mixed} \/ \E cfg : file' = Beginning(cfg)
        \/ WriteFile(t)
    BY <1>7 DEF TaskStep, LoadFile, Loaded, OpenBackup, WriteBackup, BackupFails, OpenFails, OpenFile,
                WriteFails, Send, ReconnectDown, ReconnectUp, KillImport
  <2> QED
    BY <1>2, <2>1, <2>2, <2>3
<1> QED
  BY <1>1, <1>3, <1>4, <1>5, <1>6, <1>7
     DEF StoreNext, StartDaemon, StopDaemon, StatusPoll, StartTui, HandleReload, storeVars

LEMMA StepValid == ShapeInv /\ ValidInv /\ [StoreNext]_storeVars => ValidInv'
<1> SUFFICES ASSUME ShapeInv, ValidInv, [StoreNext]_storeVars, "refused" \notin odd'
             PROVE  ValidHeld'
  BY DEF ValidInv
<1>1. ValidHeld
  BY FlagsStay DEF ValidInv
<1>2. ASSUME NEW t \in Task, SpawnSave(t) \/ SpawnImport(t) \/ CliImport(t) PROVE ValidHeld'
  <2>1. /\ Others(t) /\ task'[t].at = "queued" /\ UNCHANGED file
        /\ ValidName(<<task'[t].name>>) /\ ValidConn(task'[t].conn)
    BY <1>2, SpawnValid
  <2> QED
    BY <1>1, <2>1 DEF ValidHeld, Others, At, Writing
<1>3. ASSUME \A u \in Task : IF At(u, {"unspawned"}) THEN task'[u] = task[u] ELSE Continues(u),
             \/ file' \in {file, Emptied, Mixed} \/ \E cfg : file' = Beginning(cfg)
             \/ \E t \in Task : WriteFile(t)
      PROVE  ValidHeld'
  <2>1. \A t \in Task : ~At(t, {"unspawned"})' =>
          /\ ValidName(<<task'[t].name>>) /\ ValidConn(task'[t].conn)
          /\ At(t, Writing)' => task'[t].cfg = NoConnections \/ ValidApp(task'[t].cfg)
    <3> SUFFICES ASSUME NEW t \in Task, ~At(t, {"unspawned"})'
                 PROVE  /\ ValidName(<<task'[t].name>>) /\ ValidConn(task'[t].conn)
                        /\ At(t, Writing)' =>
                             task'[t].cfg = NoConnections \/ ValidApp(task'[t].cfg)
      OBVIOUS
    <3>1. ~At(t, {"unspawned"}) /\ Continues(t)
      BY <1>3 DEF At
    <3> QED
      BY <1>1, <3>1, LoadsFor DEF ValidHeld, Continues
  <2>2. file'.is = "whole" => ValidApp(file'.cfg)
    <3>1. CASE file' \in {file, Emptied, Mixed} \/ \E cfg : file' = Beginning(cfg)
      BY <1>1, <3>1, FileFacts, BeginningFacts DEF ValidHeld
    <3>2. ASSUME NEW t \in Task, WriteFile(t) PROVE file'.is = "whole" => ValidApp(file'.cfg)
      <4>1. ~At(t, {"unspawned"}) /\ At(t, Writing) /\ file' \in WrittenOver(file, Updated(t))
        BY <3>2 DEF WriteFile, At, Writing
      <4>2. ValidApp(Updated(t))
        BY <1>1, <4>1, InsertValid DEF ValidHeld, Updated
      <4> QED
        BY <4>1, <4>2, WrittenFiles, FileFacts
    <3> QED
      BY <1>3, <3>1, <3>2
  <2> QED
    BY <2>1, <2>2 DEF ValidHeld
<1> QED
  BY <1>2, <1>3, StepContinues

LEMMA InitValid == StoreInit => ValidInv
<1> SUFFICES ASSUME StoreInit PROVE ValidHeld
  BY DEF ValidInv
<1>1. \A t \in Task : At(t, {"unspawned"})
  BY DEF StoreInit, Unspawned, At
<1>2. file.is = "whole" => ValidApp(file.cfg)
  BY StoreAssumption, FileFacts DEF StoreInit
<1> QED
  BY <1>1, <1>2 DEF ValidHeld

\* What the daemon works with after a command: what the file holds, or what it had.
LEMMA Reloaded ==
  ASSUME ShapeInv, NEW command
  PROVE  \/ ConfigFor(command) = daemon.cfg
         \/ /\ file \in {Whole(ConfigFor(command)), Beginning(ConfigFor(command))}
            /\ ValidApp(ConfigFor(command))
            /\ LoadAppConfig(file) # {}
<1>1. IsFile(file)
  BY DEF ShapeInv
<1>2. CASE NeedsConfigReload(command) /\ LoadAppConfig(file) # {}
  <2>1. ConfigFor(command) = CHOOSE cfg \in LoadAppConfig(file) : TRUE
    BY <1>2 DEF ConfigFor
  <2>2. ConfigFor(command) \in LoadAppConfig(file)
    BY <1>2, <2>1
  <2> QED
    BY <1>1, <1>2, <2>2, Loads
<1>3. CASE ~(NeedsConfigReload(command) /\ LoadAppConfig(file) # {})
  BY <1>3 DEF ConfigFor
<1> QED
  BY <1>2, <1>3

LEMMA DaemonKept ==
  ASSUME ShapeInv, DaemonValid, daemon.on, NEW command, NEW up,
         \A n \in DOMAIN up : ValidConn(up[n]),
         daemon' = [daemon EXCEPT !.cfg = ConfigFor(command), !.up = up]
  PROVE  DaemonValid'
<1>1. daemon'.cfg = ConfigFor(command) /\ daemon'.up = up
  BY DEF ShapeInv
<1>2. ValidApp(ConfigFor(command))
  BY Reloaded DEF DaemonValid
<1> QED
  BY <1>1, <1>2 DEF DaemonValid

LEMMA UpKept ==
  ASSUME ShapeInv, DaemonValid, NEW name, DaemonUp(name)
  PROVE  DaemonValid'
<1>1. PICK up \in Raised(name) : daemon' = [daemon EXCEPT !.cfg = ConfigFor("Up"), !.up = up]
  BY DEF DaemonUp
<1>2. daemon.on /\ \A n \in DOMAIN daemon.up : ValidConn(daemon.up[n])
  BY DEF DaemonUp, DaemonValid
<1>3. ValidApp(ConfigFor("Up"))
  BY <1>2, Reloaded DEF DaemonValid
<1>4. \A n \in DOMAIN up : ValidConn(up[n])
  <2>1. PICK conn : conn = ConfigFor("Up")[name]
    OBVIOUS
  <2>2. \/ up = daemon.up
        \/ name \in DOMAIN ConfigFor("Up") /\ up = Insert(daemon.up, name, conn)
    BY <2>1 DEF Raised
  <2>3. name \in DOMAIN ConfigFor("Up") => ValidConn(conn)
    BY <1>3, <2>1 DEF ValidApp
  <2>4. DOMAIN Insert(daemon.up, name, conn) = DOMAIN daemon.up \cup {name}
    BY Inserted
  <2>5. Insert(daemon.up, name, conn)[name] = conn
    BY Inserted
  <2>6. \A n \in DOMAIN daemon.up \ {name} : Insert(daemon.up, name, conn)[n] = daemon.up[n]
    BY Inserted
  <2> QED
    BY <1>2, <2>2, <2>3, <2>4, <2>5, <2>6
<1> QED
  BY <1>1, <1>2, <1>4, DaemonKept

LEMMA DownKept ==
  ASSUME ShapeInv, DaemonValid, NEW name, DaemonDown(name)
  PROVE  DaemonValid'
<1>1. daemon.on /\ daemon' = [daemon EXCEPT !.cfg = ConfigFor("Down"), !.up = Lowered(name)]
  BY DEF DaemonDown
<1>2. \A n \in DOMAIN Lowered(name) : ValidConn(Lowered(name)[n])
  BY <1>1 DEF DaemonValid, Lowered
<1> QED
  BY <1>1, <1>2, DaemonKept

LEMMA NoDaemonOff == ~NoDaemon.on /\ DOMAIN NoDaemon.up = {}
                     /\ {"on", "cfg", "up"} \subseteq DOMAIN NoDaemon
  BY DEF NoDaemon, NoConnections

LEMMA StepDaemon == ShapeInv /\ DaemonValid /\ [StoreNext]_storeVars => DaemonValid'
<1> SUFFICES ASSUME ShapeInv, DaemonValid, [StoreNext]_storeVars PROVE DaemonValid'
  OBVIOUS
<1>1. CASE StartDaemon
  <2>1. PICK cfg \in LoadAppConfig(file) : daemon' = [NoDaemon EXCEPT !.on = TRUE, !.cfg = cfg]
    BY <1>1 DEF StartDaemon
  <2>2. daemon'.cfg = cfg /\ DOMAIN daemon'.up = {}
    BY <2>1, NoDaemonOff
  <2>3. ValidApp(cfg)
    BY <2>1, Loads DEF ShapeInv
  <2> QED
    BY <2>2, <2>3 DEF DaemonValid
<1>2. CASE StopDaemon
  BY <1>2, NoDaemonOff DEF StopDaemon, DaemonValid
<1>3. CASE StatusPoll
  <2>1. daemon.on /\ daemon' = [daemon EXCEPT !.cfg = ConfigFor("Status")]
    BY <1>3 DEF StatusPoll
  <2>2. daemon'.cfg = ConfigFor("Status") /\ daemon'.up = daemon.up
    BY <2>1 DEF ShapeInv
  <2>3. ValidApp(ConfigFor("Status"))
    BY <2>1, Reloaded DEF DaemonValid
  <2> QED
    BY <2>1, <2>2, <2>3 DEF DaemonValid
<1>4. ASSUME NEW name, UserUp(name) \/ UserDown(name) PROVE DaemonValid'
  BY <1>4, UpKept, DownKept DEF UserUp, UserDown
<1>5. ASSUME NEW t \in Task, ReconnectDown(t) \/ ReconnectUp(t) PROVE DaemonValid'
  BY <1>5, UpKept, DownKept DEF ReconnectDown, ReconnectUp, DaemonValid
<1>6. CASE UNCHANGED daemon
  BY <1>6 DEF DaemonValid
<1>7. ASSUME NEW t \in Task, ~ReconnectDown(t), ~ReconnectUp(t),
             \/ SpawnSave(t) \/ SpawnImport(t) \/ CliImport(t) \/ TaskStep(t)
             \/ OpenFails(t) \/ BackupFails(t) \/ WriteFails(t) \/ KillImport(t)
      PROVE  UNCHANGED daemon
  BY <1>7 DEF SpawnSave, SpawnImport, CliImport, TaskStep, LoadFile, OpenBackup, WriteBackup,
              BackupFails, OpenFails, OpenFile, WriteFile, WriteFails, Send, KillImport
<1> QED
  BY <1>1, <1>2, <1>3, <1>4, <1>5, <1>6, <1>7
     DEF StoreNext, StartTui, HandleReload, Quit, KillTui, storeVars

\* The state is typed, what is written can be loaded, and the daemon works with nothing else,
\* whenever it looks at the file (save_app_config, reload_config).
THEOREM StoreConsistent == Spec => []Consistent
<1>1. ShapeInv => StoreTypeOK
  BY FileKinds, BackupFacts DEF ShapeInv, TaskShape, Places, StoreTypeOK
<1>2. ValidInv => WrittenLoads
  BY DEF ValidInv, ValidHeld, WrittenLoads
<1>3. StoreInit => DaemonValid
  BY NoDaemonOff DEF StoreInit, DaemonValid
<1> QED
  BY <1>1, <1>2, <1>3, InitValid, StepValid, StepDaemon, StoreInductive, PTL DEF Spec, Consistent

-----------------------------------------------------------------------------
(* The reconnect.                                                           *)

LEMMA OnlyReconnectRaises ==
  ASSUME ShapeInv, [StoreNext]_storeVars, NEW t \in Task,
         At(t, {"up"}), task'[t].at = "done", daemon'.up # daemon.up
  PROVE  ReconnectUp(t)
<1>1. ~UNCHANGED task /\ ~UNCHANGED daemon
  BY DEF At
<1>2. \E s \in Task : ReconnectDown(s) \/ ReconnectUp(s)
  BY <1>1 DEF StoreNext, StartDaemon, StopDaemon, StatusPoll, StartTui, HandleReload, Quit,
     KillTui, UserUp, UserDown, SpawnSave, SpawnImport, CliImport, TaskStep, LoadFile, OpenBackup,
     WriteBackup, BackupFails, OpenFails, OpenFile, WriteFile, WriteFails, Send, KillImport, storeVars
<1>3. PICK s \in Task : ReconnectDown(s) \/ ReconnectUp(s)
  BY <1>2
<1>4. ~At(s, {"unspawned"}) /\ \E p : Go(s, p)
  BY <1>3 DEF ReconnectDown, ReconnectUp, At
<1>5. s = t
  BY <1>4, GoMoves DEF Others, At
<1>6. ~ReconnectDown(t)
  BY DEF ReconnectDown, At
<1> QED
  BY <1>3, <1>5, <1>6

\* What a save with reconnect brings up is what was saved: the daemon reads the file again for
\* the Up, and the file holds what was written last (run_reconnect, reload_config).
THEOREM ReconnectExact == Spec => ReconnectGetsSaved
<1> DEFINE Exact(t) ==
             /\ At(t, {"up"}) /\ task'[t].at = "done" /\ daemon'.up # daemon.up /\ daemon'.on
             /\ odd \cap {"overlap", "cut read"} = {} /\ file.is = "whole" /\ LoadAppConfig(file) # {}
             => daemon'.up[task[t].name] = wanted[task[t].name]
<1>1. ShapeInv /\ FileInv /\ [StoreNext]_storeVars => \A t \in Task : Exact(t)
  <2> SUFFICES ASSUME ShapeInv, FileHeld, [StoreNext]_storeVars, NEW t \in Task,
                      At(t, {"up"}), task'[t].at = "done", daemon'.up # daemon.up,
                      file.is = "whole", LoadAppConfig(file) # {}
               PROVE  daemon'.up[task[t].name] = wanted[task[t].name]
    BY DEF FileInv
  <2>1. ReconnectUp(t)
    BY OnlyReconnectRaises
  <2>2. daemon.on /\ DaemonUp(task[t].name)
    BY <2>1 DEF ReconnectUp
  <2>3. PICK name : name = task[t].name
    OBVIOUS
  <2>4. ConfigFor("Up") = wanted
    <3>1. PICK cfg \in LoadAppConfig(file) : ConfigFor("Up") = cfg
      BY DEF ConfigFor, NeedsConfigReload
    <3>3. file # Beginning(cfg)
      BY BeginningFacts
    <3>2. file = Whole(cfg)
      BY <3>1, <3>3, Loads DEF ShapeInv
    <3> QED
      BY <3>1, <3>2, FileFacts DEF FileHeld
  <2>5. PICK conn : conn = wanted[name]
    OBVIOUS
  <2>6. PICK up \in Raised(name) : daemon' = [daemon EXCEPT !.cfg = ConfigFor("Up"), !.up = up]
    BY <2>2, <2>3 DEF DaemonUp
  <2>7. daemon'.up = up
    BY <2>6 DEF ShapeInv
  <2>8. up = daemon.up \/ up = Insert(daemon.up, name, conn)
    BY <2>4, <2>5, <2>6 DEF Raised
  <2>9. daemon'.up = Insert(daemon.up, name, conn)
    BY <2>7, <2>8
  <2>10. Insert(daemon.up, name, conn)[name] = conn
    BY Inserted
  <2> QED
    BY <2>3, <2>5, <2>9, <2>10
<1> QED
  BY <1>1, StoreInductive, PTL DEF Spec, ReconnectGetsSaved

=============================================================================
