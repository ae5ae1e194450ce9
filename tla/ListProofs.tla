---------------------------- MODULE ListProofs ------------------------------
(***************************************************************************)
(* Proofs about Verification, for any flows, faults and commands: what the *)
(* client is told of a flow, and which flow a command acts on. They rest   *)
(* on the order of the list, which is the order of registration, and on    *)
(* how the driver's snapshot lags behind it.                               *)
(*                                                                         *)
(* Proofs about History, for any timeline, pages and arrivals: what an     *)
(* answer leaves out, and in which order it is. They rest on what has been *)
(* collected between the token and where the request began.                *)
(*                                                                         *)
(* Proofs about Rendering, for any message and any WIDTH: what a client    *)
(* reads on the lines, and that all the letters are there. They rest on    *)
(* what a reader of the text has seen when the walk is at a place, and on  *)
(* the lines having the letters and codes of the text, in its order.       *)
(*                                                                         *)
(* All three are here because their components take lists apart and put    *)
(* them together (`retain`, the filters of the pages, `split`, the loops   *)
(* of wrap_body), and what a fold makes of a list is proved once.          *)
(***************************************************************************)
EXTENDS Verification, History, Rendering, SequenceTheorems, WellFoundedInduction, TLAPS

\* What is left of a list.

\* A set of numbers that is not empty has a smallest one, and one that has a
\* bound has a largest.
Below == {ss \in Nat \X Nat : ss[1] < ss[2]}

LEMMA BelowWellFounded == IsWellFoundedOn(Below, Nat)
BY NatLessThanWellFounded DEF OpToRel, Below

LEMMA Smallest == ASSUME NEW T, T \subseteq Nat, T # {} PROVE \E x \in T : \A y \in T : x <= y
<1>1. PICK x \in T : \A y \in T : <<y, x>> \notin Below
  BY BelowWellFounded, WFMin
<1>2. \A y \in T : ~(y < x)
  BY <1>1 DEF Below
<1>3. QED
  BY <1>2

LEMMA Largest ==
    ASSUME NEW n \in Nat, NEW s \in SUBSET (1 .. n), s # {}
    PROVE  Max(s) \in s /\ \A y \in s : y <= Max(s)
<1> DEFINE T == {n - y : y \in s}
<1>1. T \subseteq Nat /\ T # {}
  <2>1. \A y \in 1 .. n : n - y \in Nat
    OBVIOUS
  <2>2. \A y \in s : y \in 1 .. n
    OBVIOUS
  <2>3. QED
    BY <2>1, <2>2
<1>2. PICK x \in T : \A y \in T : x <= y
  BY <1>1, Smallest
<1>3. PICK m \in s : x = n - m
  OBVIOUS
<1>4. \A y \in s : m >= y
  <2>1. SUFFICES ASSUME NEW y \in s PROVE m >= y
    OBVIOUS
  <2>2. n - m <= n - y
    BY <1>2, <1>3
  <2>3. QED
    BY <2>2
<1>5. Max(s) \in s /\ \A y \in s : Max(s) >= y
  BY <1>3, <1>4 DEF Max
<1>6. QED
  BY <1>5

\* The prefixes of a fold: a function of the sets of indices as the library's
\* fold takes them, the largest index last.
Folds(g, n, e, step) ==
    \A s \in SUBSET (1 .. n) :
        g[s] = IF s = {} THEN e ELSE step[<<g[s \ {Max(s)}], Max(s)>>]

Foldable(n, S, e, step) == \E g \in [SUBSET (1 .. n) -> S] : Folds(g, n, e, step)

LEMMA FoldExists ==
    ASSUME NEW n \in Nat, NEW S, NEW e \in S, NEW step \in [S \X (1 .. n) -> S]
    PROVE  Foldable(n, S, e, step)
<1> DEFINE Bad == {m \in 0 .. n : ~Foldable(m, S, e, step)}
<1>1. SUFFICES ASSUME n \in Bad PROVE FALSE
  OBVIOUS
<1>2. PICK m \in Bad : m \in Nat /\ \A k \in Bad : m <= k
  <2>1. Bad \subseteq Nat /\ Bad # {}
    BY <1>1
  <2> HIDE DEF Bad
  <2>2. QED
    BY <2>1, Smallest
<1>3. CASE m = 0
  <2> DEFINE g == [s \in SUBSET (1 .. m) |-> e]
  <2>1. g \in [SUBSET (1 .. m) -> S] /\ \A s \in SUBSET (1 .. m) : s = {}
    BY <1>3
  <2>2. QED
    BY <2>1 DEF Folds, Foldable
<1>4. CASE m # 0
  <2>1. m \in 1 .. n /\ m - 1 \in 0 .. n /\ m - 1 \notin Bad
    <3>1. m \in 0 .. n
      OBVIOUS
    <3>2. m \in 1 .. n /\ m - 1 \in 0 .. n /\ ~(m <= m - 1)
      BY <1>4, <3>1
    <3> HIDE DEF Bad
    <3>3. QED
      BY <1>2, <3>2
  <2>2. PICK g \in [SUBSET (1 .. (m - 1)) -> S] : Folds(g, m - 1, e, step)
    BY <2>1 DEF Foldable
  <2> DEFINE h == [s \in SUBSET (1 .. m) |-> IF m \in s THEN step[<<g[s \ {m}], m>>] ELSE g[s]]
  <2>3. \A s \in SUBSET (1 .. m) : s \ {m} \in SUBSET (1 .. (m - 1)) /\ (m \notin s => s \in SUBSET (1 .. (m - 1)))
    BY <2>1
  <2>4. h \in [SUBSET (1 .. m) -> S]
    <3>1. \A s \in SUBSET (1 .. (m - 1)) : g[s] \in S /\ step[<<g[s], m>>] \in S
      BY <2>1
    <3>2. \A s \in SUBSET (1 .. m) : (IF m \in s THEN step[<<g[s \ {m}], m>>] ELSE g[s]) \in S
      BY <2>3, <3>1
    <3>3. QED
      BY <3>2
  <2>5. ASSUME NEW s \in SUBSET (1 .. m), s # {} PROVE h[s] = step[<<h[s \ {Max(s)}], Max(s)>>]
    <3>1. Max(s) \in s /\ \A y \in s : y <= Max(s)
      BY <1>2, <2>5, Largest
    <3>2. CASE m \in s
      <4>1. Max(s) = m
        <5>1. Max(s) \in 1 .. m /\ m <= Max(s)
          BY <3>1, <3>2
        <5>2. QED
          BY <2>1, <5>1
      <4>2. h[s \ {m}] = g[s \ {m}]
        BY <2>3
      <4>3. QED
        BY <3>2, <4>1, <4>2
    <3>3. CASE m \notin s
      <4>1. s \ {Max(s)} \in SUBSET (1 .. m) /\ m \notin s \ {Max(s)}
        BY <3>3
      <4>2. h[s \ {Max(s)}] = g[s \ {Max(s)}] /\ h[s] = g[s]
        BY <3>3, <4>1
      <4>3. QED
        BY <2>2, <2>3, <2>5, <3>3, <4>2 DEF Folds
    <3>4. QED
      BY <3>2, <3>3
  <2>6. h[{}] = e
    BY <2>1, <2>2 DEF Folds
  <2>7. Folds(h, m, e, step)
    BY <2>5, <2>6 DEF Folds
  <2>8. QED
    BY <2>4, <2>7 DEF Foldable
<1>5. QED
  BY <1>3, <1>4

Step(kept, x, set) == IF x \in set THEN Append(kept, x) ELSE kept

\* What the library's fold of a list is.
Folded(xs, set) == CHOOSE iter : iter = [s \in SUBSET DOMAIN xs |->
    IF s = {} THEN <<>> ELSE Step(iter[s \ {Max(s)}], xs[Max(s)], set)]

LEMMA AmongFolds ==
    ASSUME NEW xs, NEW set
    PROVE  Among(xs, set) = Folded(xs, set)[DOMAIN xs]
BY DEF Among, FoldLeft, MapThenFoldSet, Folded, Step

LEMMA PrefixLargest ==
    ASSUME NEW m \in Nat, m # 0
    PROVE  1 .. m # {} /\ Max(1 .. m) = m /\ (1 .. m) \ {m} = 1 .. (m - 1)
<1>1. 1 .. m # {} /\ m \in 1 .. m /\ (1 .. m) \ {m} = 1 .. (m - 1)
  OBVIOUS
<1>2. Max(1 .. m) \in 1 .. m /\ m <= Max(1 .. m)
  BY <1>1, Largest
<1>3. QED
  BY <1>1, <1>2

\* It takes the elements one by one, from the left.
LEMMA FoldedIs ==
    ASSUME NEW U, NEW xs \in Seq(U), NEW set
    PROVE  /\ Folded(xs, set)[1 .. 0] = <<>>
           /\ \A m \in 1 .. Len(xs) :
                Folded(xs, set)[1 .. m] = Step(Folded(xs, set)[1 .. (m - 1)], xs[m], set)
<1> DEFINE n    == Len(xs)
           S    == Seq(U)
           step == [x \in S \X (1 .. n) |-> Step(x[1], xs[x[2]], set)]
           F(iter) == [s \in SUBSET DOMAIN xs |->
                         IF s = {} THEN <<>> ELSE Step(iter[s \ {Max(s)}], xs[Max(s)], set)]
<1>1. n \in Nat /\ DOMAIN xs = 1 .. n /\ \A i \in 1 .. n : xs[i] \in U
  OBVIOUS
<1>2. \A x \in S, e \in U : Step(x, e, set) \in S
  BY AppendProperties DEF Step
<1>3. <<>> \in S
  OBVIOUS
<1> HIDE DEF S
<1>4. step \in [S \X (1 .. n) -> S]
  BY <1>1, <1>2
<1>5. \A x \in S, i \in 1 .. n : step[<<x, i>>] = Step(x, xs[i], set)
  OBVIOUS
<1> HIDE DEF step, n
<1>6. PICK g \in [SUBSET (1 .. n) -> S] : Folds(g, n, <<>>, step)
  BY <1>1, <1>3, <1>4, FoldExists DEF Foldable
<1>7. ASSUME NEW s \in SUBSET (1 .. n), s # {} PROVE g[s] = Step(g[s \ {Max(s)}], xs[Max(s)], set)
  <2>1. Max(s) \in 1 .. n /\ s \ {Max(s)} \in SUBSET (1 .. n)
    BY <1>1, <1>7, Largest
  <2>2. g[s \ {Max(s)}] \in S
    BY <2>1
  <2>3. QED
    BY <1>5, <1>6, <1>7, <2>1, <2>2 DEF Folds
<1>8. g[{}] = <<>>
  BY <1>6 DEF Folds
<1>9. g = F(g)
  BY <1>1, <1>7, <1>8
<1>10. Folded(xs, set) = F(Folded(xs, set))
  BY <1>9 DEF Folded
<1>11. \A s \in SUBSET (1 .. n) : Folded(xs, set)[s] =
          IF s = {} THEN <<>> ELSE Step(Folded(xs, set)[s \ {Max(s)}], xs[Max(s)], set)
  BY <1>1, <1>10
<1>12. ASSUME NEW m \in 1 .. n
       PROVE  Folded(xs, set)[1 .. m] = Step(Folded(xs, set)[1 .. (m - 1)], xs[m], set)
  <2>1. m \in Nat /\ m # 0 /\ 1 .. m \in SUBSET (1 .. n)
    BY <1>1
  <2>2. QED
    BY <1>11, <2>1, PrefixLargest
<1>13. 1 .. 0 = {} /\ 1 .. 0 \in SUBSET (1 .. n)
  OBVIOUS
<1>14. Folded(xs, set)[1 .. 0] = <<>>
  BY <1>11, <1>13
<1>15. QED
  BY <1>12, <1>14 DEF n

\* w is the subsequence of the first m elements that are in the set; h
\* tells where each stood.  One that moved has a skipped one before it.
Picks(w, xs, m, U, set, h) ==
    /\ w \in Seq(U) /\ Len(w) <= m
    /\ h \in [1 .. Len(w) -> 1 .. m]
    /\ \A i, j \in 1 .. Len(w) : i < j => h[i] < h[j]
    /\ \A k \in 1 .. Len(w) : k <= h[k] /\ w[k] = xs[h[k]] /\ w[k] \in set
    /\ \A i \in 1 .. m : xs[i] \in set => \E k \in 1 .. Len(w) : h[k] = i
    /\ \A k \in 1 .. m : (k <= Len(w) /\ h[k] = k) \/ \E i \in 1 .. k : xs[i] \notin set

LEMMA PicksSkips ==
    ASSUME NEW U, NEW xs \in Seq(U), NEW set, NEW m \in 1 .. Len(xs), NEW w, NEW h,
           Picks(w, xs, m - 1, U, set, h), xs[m] \notin set
    PROVE  Picks(w, xs, m, U, set, h)
<1>1. Len(w) \in Nat /\ m \in Nat /\ 1 .. (m - 1) \subseteq 1 .. m /\ \A i \in 1 .. m : i \in 1 .. (m - 1) \/ i = m
  BY LenProperties DEF Picks
<1>2. h \in [1 .. Len(w) -> 1 .. m] /\ Len(w) <= m
  BY <1>1 DEF Picks
<1>3. QED
  BY <1>1, <1>2 DEF Picks

LEMMA PicksTakes ==
    ASSUME NEW U, NEW xs \in Seq(U), NEW set, NEW m \in 1 .. Len(xs), NEW w, NEW h,
           Picks(w, xs, m - 1, U, set, h), xs[m] \in set
    PROVE  \E g : Picks(Append(w, xs[m]), xs, m, U, set, g)
<1> DEFINE n == Len(w)
           v == Append(w, xs[m])
           g == [k \in 1 .. (n + 1) |-> IF k = n + 1 THEN m ELSE h[k]]
<1>1. n \in Nat /\ m \in Nat /\ n <= m - 1 /\ xs[m] \in U /\ w \in Seq(U)
  BY LenProperties DEF Picks
<1>2. v \in Seq(U) /\ Len(v) = n + 1 /\ v[n + 1] = xs[m] /\ \A k \in 1 .. n : v[k] = w[k]
  BY <1>1, AppendProperties
<1>3. g[n + 1] = m /\ \A k \in 1 .. n : g[k] = h[k] /\ h[k] \in 1 .. (m - 1)
  BY <1>1 DEF Picks
<1>4. \A k \in 1 .. (n + 1) : k \in 1 .. n \/ k = n + 1
  BY <1>1
<1>5. g \in [1 .. (n + 1) -> 1 .. m]
  <2>1. \A k \in 1 .. n : h[k] \in 1 .. m
    <3>1. \A x \in 1 .. (m - 1) : x \in 1 .. m
      BY <1>1
    <3> HIDE DEF n, v, g
    <3>2. QED
      BY <1>3, <3>1
  <2>2. \A k \in 1 .. (n + 1) : (IF k = n + 1 THEN m ELSE h[k]) \in 1 .. m
    BY <1>4, <2>1
  <2>3. QED
    BY <2>2
<1> HIDE DEF n, v, g
<1>6. \A i, j \in 1 .. (n + 1) : i < j => g[i] < g[j]
  <2>1. \A i, j \in 1 .. n : i < j => g[i] < g[j]
    BY <1>3 DEF Picks, n
  <2>2. \A i \in 1 .. n : g[i] < g[n + 1] /\ i < n + 1
    BY <1>1, <1>3
  <2>3. QED
    BY <1>1, <1>4, <2>1, <2>2
<1>7. \A k \in 1 .. (n + 1) : k <= g[k] /\ v[k] = xs[g[k]] /\ v[k] \in set
  <2>1. \A k \in 1 .. n : k <= g[k] /\ v[k] = xs[g[k]] /\ v[k] \in set
    BY <1>2, <1>3 DEF Picks, n
  <2>2. n + 1 <= g[n + 1] /\ v[n + 1] = xs[g[n + 1]] /\ v[n + 1] \in set
    BY <1>1, <1>2, <1>3
  <2>3. QED
    BY <1>4, <2>1, <2>2
<1>8. \A i \in 1 .. m : xs[i] \in set => \E k \in 1 .. (n + 1) : g[k] = i
  <2>1. ASSUME NEW i \in 1 .. (m - 1), xs[i] \in set PROVE \E k \in 1 .. (n + 1) : g[k] = i
    <3>1. PICK k \in 1 .. n : h[k] = i
      BY <2>1 DEF Picks, n
    <3>2. k \in 1 .. (n + 1)
      BY <1>1
    <3>3. QED
      BY <1>3, <3>1, <3>2
  <2>2. n + 1 \in 1 .. (n + 1) /\ \A i \in 1 .. m : i \in 1 .. (m - 1) \/ i = m
    BY <1>1
  <2>3. QED
    BY <1>3, <2>1, <2>2
<1>9. ASSUME NEW k \in 1 .. m
      PROVE  (k <= n + 1 /\ g[k] = k) \/ \E i \in 1 .. k : xs[i] \notin set
  <2>1. CASE k # m
    <3>1. k \in 1 .. (m - 1)
      BY <1>1, <2>1
    <3>2. (k <= n /\ h[k] = k) \/ \E i \in 1 .. k : xs[i] \notin set
      BY <3>1 DEF Picks, n
    <3>3. k <= n => k \in 1 .. n /\ k <= n + 1
      BY <1>1
    <3>4. QED
      BY <1>3, <3>2, <3>3
  <2>2. CASE k = m /\ n = m - 1
    <3>1. k <= n + 1 /\ k = n + 1
      BY <1>1, <2>2
    <3>2. QED
      BY <1>3, <2>2, <3>1
  <2>3. CASE k = m /\ n # m - 1
    <3>1. n + 1 \in 1 .. (m - 1) /\ ~(n + 1 <= n) /\ 1 .. (n + 1) \subseteq 1 .. m
      BY <1>1, <2>3
    <3>2. \E i \in 1 .. (n + 1) : xs[i] \notin set
      BY <3>1 DEF Picks, n
    <3>3. QED
      BY <2>3, <3>1, <3>2
  <2>4. QED
    BY <2>1, <2>2, <2>3
<1>10. n + 1 <= m
  BY <1>1
<1>11. Picks(v, xs, m, U, set, g)
  BY <1>2, <1>5, <1>6, <1>7, <1>8, <1>9, <1>10 DEF Picks
<1>12. QED
  BY <1>11 DEF v

LEMMA AmongIs ==
    ASSUME NEW U, NEW xs \in Seq(U), NEW set
    PROVE  \E h : Picks(Among(xs, set), xs, Len(xs), U, set, h)
<1> DEFINE n == Len(xs)
           w(m) == Folded(xs, set)[1 .. m]
           Good(m) == \E h : Picks(w(m), xs, m, U, set, h)
           Bad == {m \in 0 .. n : ~Good(m)}
<1>1. n \in Nat /\ DOMAIN xs = 1 .. n
  OBVIOUS
<1>2. Among(xs, set) = w(n)
  BY <1>1, AmongFolds
<1>3. w(0) = <<>> /\ \A m \in 1 .. n : w(m) = Step(w(m - 1), xs[m], set)
  BY FoldedIs
<1> HIDE DEF w
<1>4. Good(0)
  <2> DEFINE h == [k \in 1 .. 0 |-> 0]
  <2>1. <<>> \in Seq(U) /\ Len(<<>>) = 0 /\ 1 .. 0 = {}
    OBVIOUS
  <2>2. h \in [1 .. 0 -> 1 .. 0]
    BY <2>1
  <2> HIDE DEF h
  <2>3. Picks(<<>>, xs, 0, U, set, h)
    BY <2>1, <2>2 DEF Picks
  <2>4. QED
    BY <1>3, <2>3
<1>5. ASSUME NEW m \in 1 .. n, Good(m - 1) PROVE Good(m)
  <2>1. PICK h : Picks(w(m - 1), xs, m - 1, U, set, h)
    BY <1>5
  <2>2. CASE xs[m] \in set
    <3>1. w(m) = Append(w(m - 1), xs[m])
      BY <1>3, <2>2 DEF Step
    <3>2. \E g : Picks(Append(w(m - 1), xs[m]), xs, m, U, set, g)
      BY <2>1, <2>2, PicksTakes
    <3>3. QED
      BY <3>1, <3>2
  <2>3. CASE xs[m] \notin set
    BY <1>3, <2>1, <2>3, PicksSkips DEF Step
  <2>4. QED
    BY <2>2, <2>3
<1> HIDE DEF Good, n
<1>6. SUFFICES ASSUME n \in Bad PROVE FALSE
  <2>1. n \in 0 .. n
    BY <1>1
  <2>2. Good(n) => \E h : Picks(Among(xs, set), xs, Len(xs), U, set, h)
    BY <1>2 DEF Good, n
  <2>3. QED
    BY <2>1, <2>2
<1>7. PICK m \in Bad : \A i \in Bad : m <= i
  <2>1. Bad \subseteq Nat /\ Bad # {}
    BY <1>6
  <2> HIDE DEF Bad
  <2>2. QED
    BY <2>1, Smallest
<1>8. m \in 1 .. n
  BY <1>4
<1>9. m - 1 \in 0 .. n /\ ~(m <= m - 1)
  BY <1>1, <1>8
<1>10. Good(m - 1)
  BY <1>7, <1>9
<1>11. QED
  BY <1>5, <1>8, <1>10

\* Induction, as a fact about a set of numbers.
LEMMA Inductive ==
    ASSUME NEW T, 0 \in T, \A n \in Nat : n \in T => n + 1 \in T
    PROVE  \A n \in Nat : n \in T
<1> DEFINE B == Nat \ T
<1>1. SUFFICES ASSUME B # {} PROVE FALSE
  OBVIOUS
<1>2. B \subseteq Nat
  OBVIOUS
<1> HIDE DEF B
<1>3. PICK x \in B : \A y \in B : x <= y
  BY <1>1, <1>2, Smallest
<1>4. x \in Nat /\ x \notin T /\ x # 0
  BY <1>3 DEF B
<1>5. x - 1 \in Nat /\ ~(x <= x - 1) /\ (x - 1) + 1 = x
  BY <1>4
<1>6. x - 1 \in T
  BY <1>3, <1>5 DEF B
<1>7. QED
  BY <1>4, <1>5, <1>6

\* What is left of the beginning of a list rests on nothing behind it.
Alike(xs, ys, set, other, n) ==
    \A i \in 1 .. n : xs[i] = ys[i] /\ (xs[i] \in set <=> ys[i] \in other)

LEMMA FoldedSame ==
    ASSUME NEW U, NEW xs \in Seq(U), NEW ys \in Seq(U), NEW set, NEW other, NEW n \in Nat,
           n <= Len(xs), n <= Len(ys), Alike(xs, ys, set, other, n)
    PROVE  Folded(xs, set)[1 .. n] = Folded(ys, other)[1 .. n]
<1> DEFINE v(m) == Folded(xs, set)[1 .. m]
           w(m) == Folded(ys, other)[1 .. m]
           T == {m \in Nat : m <= n => v(m) = w(m)}
<1>1. /\ v(0) = <<>> /\ w(0) = <<>>
      /\ \A m \in 1 .. n : /\ v(m) = Step(v(m - 1), xs[m], set)
                           /\ w(m) = Step(w(m - 1), ys[m], other)
  <2>1. Len(xs) \in Nat /\ Len(ys) \in Nat
    OBVIOUS
  <2>2. \A m \in 1 .. n : m \in 1 .. Len(xs) /\ m \in 1 .. Len(ys)
    BY <2>1
  <2>3. QED
    BY <2>2, FoldedIs
<1> HIDE DEF v, w
<1>2. 0 \in T
  BY <1>1
<1>3. ASSUME NEW m \in Nat, m \in T PROVE m + 1 \in T
  <2>1. SUFFICES ASSUME m + 1 <= n PROVE v(m + 1) = w(m + 1)
    OBVIOUS
  <2>2. m + 1 \in 1 .. n /\ (m + 1) - 1 = m /\ m <= n
    BY <2>1
  <2>3. v(m) = w(m)
    BY <1>3, <2>2
  <2>4. QED
    BY <1>1, <2>2, <2>3 DEF Step, Alike
<1>4. n \in T
  <2> HIDE DEF T
  <2>1. QED
    BY <1>2, <1>3, Inductive
<1>5. QED
  BY <1>4 DEF v, w

LEMMA AmongNone == ASSUME NEW set PROVE Among(<<>>, set) = <<>>
<1>1. <<>> \in Seq(Nat) /\ DOMAIN <<>> = 1 .. 0
  OBVIOUS
<1>2. Folded(<<>>, set)[1 .. 0] = <<>>
  BY <1>1, FoldedIs
<1>3. QED
  BY <1>1, <1>2, AmongFolds

LEMMA AmongSame ==
    ASSUME NEW U, NEW xs \in Seq(U), NEW set, NEW other, \A x \in U : x \in set <=> x \in other
    PROVE  Among(xs, set) = Among(xs, other)
<1>1. /\ Len(xs) \in Nat /\ DOMAIN xs = 1 .. Len(xs) /\ Len(xs) <= Len(xs)
      /\ \A i \in 1 .. Len(xs) : xs[i] \in U
  OBVIOUS
<1> DEFINE n == Len(xs)
<1>2. Alike(xs, xs, set, other, n)
  BY <1>1 DEF Alike
<1>3. n \in Nat /\ n <= Len(xs) /\ DOMAIN xs = 1 .. n
  BY <1>1
<1> HIDE DEF n
<1>4. Folded(xs, set)[1 .. n] = Folded(xs, other)[1 .. n]
  BY <1>2, <1>3, FoldedSame
<1>5. Among(xs, set) = Folded(xs, set)[1 .. n] /\ Among(xs, other) = Folded(xs, other)[1 .. n]
  BY <1>3, AmongFolds
<1>6. QED
  BY <1>4, <1>5

LEMMA AmongAppend ==
    ASSUME NEW U, NEW xs \in Seq(U), NEW x \in U, NEW set
    PROVE  Among(Append(xs, x), set) = Step(Among(xs, set), x, set)
<1> DEFINE n  == Len(xs)
           ys == Append(xs, x)
<1>1. n \in Nat /\ DOMAIN xs = 1 .. n /\ n <= Len(xs)
  OBVIOUS
<1>2. /\ ys \in Seq(U) /\ Len(ys) = n + 1 /\ DOMAIN ys = 1 .. (n + 1) /\ ys[n + 1] = x
      /\ \A i \in 1 .. n : xs[i] = ys[i]
  BY AppendProperties
<1> HIDE DEF n, ys
<1>3. Folded(xs, set)[1 .. n] = Folded(ys, set)[1 .. n]
  <2>1. n <= Len(ys) /\ Alike(xs, ys, set, set, n)
    BY <1>1, <1>2 DEF Alike
  <2>2. QED
    BY <1>1, <1>2, <2>1, FoldedSame
<1>4. Folded(ys, set)[1 .. (n + 1)] = Step(Folded(ys, set)[1 .. n], x, set)
  <2>1. n + 1 \in 1 .. Len(ys) /\ (n + 1) - 1 = n
    BY <1>1, <1>2
  <2>2. QED
    BY <1>2, <2>1, FoldedIs
<1>5. Among(xs, set) = Folded(xs, set)[1 .. n] /\ Among(ys, set) = Folded(ys, set)[1 .. (n + 1)]
  BY <1>1, <1>2, AmongFolds
<1>6. QED
  BY <1>3, <1>4, <1>5 DEF ys

LEMMA AmongSeq == ASSUME NEW U, NEW xs \in Seq(U), NEW set PROVE Among(xs, set) \in Seq(U)
BY AmongIs DEF Picks

-----------------------------------------------------------------------------
\* What a fold makes of a list.

\* The values of a fold over the beginnings of a list.
Runs(f, xs, S, e, step) ==
    /\ f \in [0 .. Len(xs) -> S] /\ f[0] = e
    /\ \A m \in 1 .. Len(xs) : f[m] = step[<<f[m - 1], xs[m]>>]

RunsTo(v, xs, S, e, step) == \E f : Runs(f, xs, S, e, step) /\ v = f[Len(xs)]

Value(xs, S, e, step) == CHOOSE v : RunsTo(v, xs, S, e, step)

\* g is what the library's fold builds: its values on the sets of indices.
Sound(g, xs, S, e, step) ==
    /\ g[{}] = e
    /\ \A s \in SUBSET DOMAIN xs : s # {} /\ g[s \ {Max(s)}] \in S =>
          g[s] = step[<<g[s \ {Max(s)}], xs[Max(s)]>>]

Builds(g, xs, S, U) ==
    /\ g \in [SUBSET DOMAIN xs -> S]
    /\ \A s \in SUBSET DOMAIN xs : s # {} => g[s \ {Max(s)}] \in S /\ xs[Max(s)] \in U

\* What the fold builds exists.
LEMMA SoundExists ==
    ASSUME NEW U, NEW S, NEW e \in S, NEW step \in [S \X U -> S], NEW xs \in Seq(U)
    PROVE  \E g : Sound(g, xs, S, e, step) /\ Builds(g, xs, S, U)
<1> DEFINE n == Len(xs)
           by == [p \in S \X (1 .. n) |-> step[<<p[1], xs[p[2]]>>]]
<1>1. n \in Nat /\ DOMAIN xs = 1 .. n /\ \A i \in 1 .. n : xs[i] \in U
  OBVIOUS
<1>2. by \in [S \X (1 .. n) -> S] /\ \A a \in S, i \in 1 .. n : by[<<a, i>>] = step[<<a, xs[i]>>]
  BY <1>1
<1> HIDE DEF by, n
<1>3. PICK g \in [SUBSET (1 .. n) -> S] : Folds(g, n, e, by)
  BY <1>1, <1>2, FoldExists DEF Foldable
<1>4. ASSUME NEW s \in SUBSET (1 .. n), s # {}
      PROVE  /\ g[s \ {Max(s)}] \in S /\ xs[Max(s)] \in U
             /\ g[s] = step[<<g[s \ {Max(s)}], xs[Max(s)]>>]
  <2>1. Max(s) \in 1 .. n /\ s \ {Max(s)} \in SUBSET (1 .. n)
    BY <1>1, <1>4, Largest
  <2>2. g[s \ {Max(s)}] \in S
    BY <2>1
  <2>3. QED
    BY <1>1, <1>2, <1>3, <1>4, <2>1, <2>2 DEF Folds
<1>5. g[{}] = e
  BY <1>3 DEF Folds
<1>6. QED
  BY <1>1, <1>4, <1>5 DEF Sound, Builds

\* On the sets 1 .. m it has the values of a run.
LEMMA SoundRuns ==
    ASSUME NEW U, NEW S, NEW e \in S, NEW step \in [S \X U -> S], NEW xs \in Seq(U),
           NEW g, Sound(g, xs, S, e, step)
    PROVE  RunsTo(g[DOMAIN xs], xs, S, e, step)
<1> DEFINE n == Len(xs)
           T == {m \in Nat : m <= n => g[1 .. m] \in S}
           f == [m \in 0 .. n |-> g[1 .. m]]
<1>1. n \in Nat /\ DOMAIN xs = 1 .. n /\ \A i \in 1 .. n : xs[i] \in U
  OBVIOUS
<1>2. ASSUME NEW m \in 1 .. n, g[1 .. (m - 1)] \in S
      PROVE  g[1 .. m] = step[<<g[1 .. (m - 1)], xs[m]>>]
  <2>1. m \in Nat /\ m # 0 /\ 1 .. m \in SUBSET DOMAIN xs
    BY <1>1
  <2>2. QED
    BY <1>2, <2>1, PrefixLargest DEF Sound
<1>3. g[1 .. 0] = e
  <2>1. 1 .. 0 = {}
    OBVIOUS
  <2>2. QED
    BY <2>1 DEF Sound
<1>4. \A m \in 0 .. n : g[1 .. m] \in S
  <2>1. 0 \in T
    BY <1>3
  <2>2. ASSUME NEW m \in Nat, m \in T PROVE m + 1 \in T
    <3>1. SUFFICES ASSUME m + 1 <= n PROVE g[1 .. (m + 1)] \in S
      OBVIOUS
    <3>2. m + 1 \in 1 .. n /\ (m + 1) - 1 = m /\ m <= n
      BY <1>1, <3>1
    <3>3. g[1 .. m] \in S /\ xs[m + 1] \in U
      BY <1>1, <2>2, <3>2
    <3>4. g[1 .. (m + 1)] = step[<<g[1 .. m], xs[m + 1]>>]
      BY <1>2, <3>2, <3>3
    <3>5. QED
      BY <3>3, <3>4
  <2> HIDE DEF T
  <2>3. \A m \in Nat : m \in T
    BY <2>1, <2>2, Inductive
  <2>4. QED
    BY <2>3 DEF T
<1>5. f \in [0 .. n -> S] /\ \A m \in 0 .. n : f[m] = g[1 .. m]
  BY <1>4
<1> HIDE DEF f, n
<1>6. ASSUME NEW m \in 1 .. n PROVE f[m] = step[<<f[m - 1], xs[m]>>]
  <2>1. m \in 0 .. n /\ m - 1 \in 0 .. n
    BY <1>1
  <2>2. g[1 .. (m - 1)] \in S
    BY <1>4, <2>1
  <2>3. QED
    BY <1>2, <1>5, <2>1, <2>2
<1>7. 0 \in 0 .. n /\ n \in 0 .. n
  BY <1>1
<1>8. Runs(f, xs, S, e, step)
  BY <1>3, <1>5, <1>6, <1>7 DEF Runs, n
<1>9. g[DOMAIN xs] = f[n]
  BY <1>1, <1>5, <1>7
<1>10. QED
  BY <1>8, <1>9 DEF n, RunsTo

\* Two runs agree as far as their lists do.
Agree(xs, ys, n) == n <= Len(xs) /\ n <= Len(ys) /\ \A i \in 1 .. n : xs[i] = ys[i]

\* Runs over lists that begin alike begin alike.
LEMMA RunsAgree ==
    ASSUME NEW U, NEW S, NEW e, NEW step, NEW xs \in Seq(U), NEW ys \in Seq(U), NEW f, NEW h,
           Runs(f, xs, S, e, step), Runs(h, ys, S, e, step), NEW n \in Nat, Agree(xs, ys, n)
    PROVE  f[n] = h[n]
<1> DEFINE T == {m \in Nat : m <= n => f[m] = h[m]}
<1>1. Len(xs) \in Nat /\ Len(ys) \in Nat
  OBVIOUS
<1>2. 0 \in T
  BY DEF Runs
<1>3. ASSUME NEW m \in Nat, m \in T PROVE m + 1 \in T
  <2>1. SUFFICES ASSUME m + 1 <= n PROVE f[m + 1] = h[m + 1]
    OBVIOUS
  <2>2. m + 1 \in 1 .. n /\ m + 1 \in 1 .. Len(xs) /\ m + 1 \in 1 .. Len(ys) /\ (m + 1) - 1 = m /\ m <= n
    BY <1>1, <2>1 DEF Agree
  <2>3. f[m] = h[m] /\ xs[m + 1] = ys[m + 1]
    BY <1>3, <2>2 DEF Agree
  <2>4. f[m + 1] = step[<<f[m], xs[m + 1]>>] /\ h[m + 1] = step[<<h[m], ys[m + 1]>>]
    BY <2>2 DEF Runs
  <2>5. QED
    BY <2>3, <2>4
<1> HIDE DEF T
<1>4. n \in T
  BY <1>2, <1>3, Inductive
<1>5. QED
  BY <1>4 DEF T

\* The value is that of any run.
LEMMA ValueOf ==
    ASSUME NEW U, NEW S, NEW e, NEW step, NEW xs \in Seq(U), NEW f, Runs(f, xs, S, e, step)
    PROVE  Value(xs, S, e, step) = f[Len(xs)]
<1>1. Len(xs) \in Nat /\ Agree(xs, xs, Len(xs))
  <2>1. Len(xs) \in Nat
    OBVIOUS
  <2>2. QED
    BY <2>1 DEF Agree
<1>2. PICK h : Runs(h, xs, S, e, step) /\ Value(xs, S, e, step) = h[Len(xs)]
  BY DEF Value, RunsTo
<1>3. QED
  BY <1>1, <1>2, RunsAgree

Meets(g, xs, S, e, step) == g[DOMAIN xs] = Value(xs, S, e, step)

\* What the fold builds gives the value, whichever of them the library chooses.
LEMMA SoundValue ==
    ASSUME NEW U, NEW S, NEW e \in S, NEW step \in [S \X U -> S], NEW xs \in Seq(U),
           NEW g, Sound(g, xs, S, e, step)
    PROVE  Meets(g, xs, S, e, step)
<1>1. RunsTo(g[DOMAIN xs], xs, S, e, step)
  BY SoundRuns
<1>2. PICK f : Runs(f, xs, S, e, step) /\ g[DOMAIN xs] = f[Len(xs)]
  BY <1>1 DEF RunsTo
<1>3. QED
  BY <1>2, ValueOf DEF Meets

\* The first value, the next one, and where they are.
Steps(xs, U, S, e, step) ==
    /\ Value(xs, S, e, step) \in S
    /\ Value(<<>>, S, e, step) = e
    /\ \A x \in U : Value(Append(xs, x), S, e, step) = step[<<Value(xs, S, e, step), x>>]

\* The value of a fold, an element at a time.
LEMMA ValueIs ==
    ASSUME NEW U, NEW S, NEW e \in S, NEW step \in [S \X U -> S], NEW xs \in Seq(U)
    PROVE  Steps(xs, U, S, e, step)
<1>1. ASSUME NEW ys \in Seq(U) PROVE \E f : Runs(f, ys, S, e, step)
  BY SoundExists, SoundRuns DEF RunsTo
<1>2. PICK f : Runs(f, xs, S, e, step)
  BY <1>1
<1>3. Value(xs, S, e, step) = f[Len(xs)] /\ Len(xs) \in Nat
  BY <1>2, ValueOf
<1>4. f[Len(xs)] \in S
  BY <1>2, <1>3 DEF Runs
<1>5. Value(<<>>, S, e, step) = e
  <2>1. <<>> \in Seq(U) /\ Len(<<>>) = 0
    OBVIOUS
  <2>2. PICK h : Runs(h, <<>>, S, e, step)
    BY <1>1, <2>1
  <2>3. \A ys \in Seq(U) : Runs(h, ys, S, e, step) => Value(ys, S, e, step) = h[Len(ys)]
    BY ValueOf
  <2>4. QED
    BY <2>1, <2>2, <2>3 DEF Runs
<1>6. ASSUME NEW x \in U
      PROVE  Value(Append(xs, x), S, e, step) = step[<<Value(xs, S, e, step), x>>]
  <2> DEFINE ys == Append(xs, x)
             n  == Len(xs)
  <2>1. /\ ys \in Seq(U) /\ Len(ys) = n + 1 /\ ys[n + 1] = x
        /\ \A i \in 1 .. n : ys[i] = xs[i]
    BY AppendProperties
  <2> HIDE DEF ys
  <2>2. PICK h : Runs(h, ys, S, e, step)
    BY <1>1, <2>1
  <2>3. Value(ys, S, e, step) = h[n + 1]
    BY <2>1, <2>2, ValueOf
  <2>4. f[n] = h[n]
    <3>1. Agree(xs, ys, n)
      BY <1>3, <2>1 DEF Agree
    <3>2. QED
      BY <1>2, <1>3, <2>1, <2>2, <3>1, RunsAgree
  <2>5. h[n + 1] = step[<<h[n], x>>]
    <3>1. n + 1 \in 1 .. Len(ys) /\ (n + 1) - 1 = n
      BY <1>3, <2>1
    <3>2. QED
      BY <2>1, <2>2, <3>1 DEF Runs
  <2>6. QED
    BY <1>3, <2>3, <2>4, <2>5 DEF ys
<1>7. QED
  BY <1>3, <1>4, <1>5, <1>6 DEF Steps

\* Induction over lists, as a fact about a set of them.
LEMMA ListInductive ==
    ASSUME NEW U, NEW T, <<>> \in T, \A s \in Seq(U), x \in U : s \in T => Append(s, x) \in T
    PROVE  \A s \in Seq(U) : s \in T
<1> DEFINE N == {n \in Nat : \A s \in Seq(U) : Len(s) = n => s \in T}
<1>1. 0 \in N
  <2>1. \A s \in Seq(U) : Len(s) = 0 => s = <<>>
    OBVIOUS
  <2>2. QED
    BY <2>1
<1>2. ASSUME NEW n \in Nat, n \in N PROVE n + 1 \in N
  <2>1. SUFFICES ASSUME NEW s \in Seq(U), Len(s) = n + 1 PROVE s \in T
    OBVIOUS
  <2>2. s # <<>>
    BY <2>1
  <2>3. PICK t \in Seq(U), x \in U : s = Append(t, x)
    BY <2>2, SequenceEmptyOrAppend
  <2>4. Len(t) = n
    BY <2>1, <2>3
  <2>5. QED
    BY <1>2, <2>3, <2>4
<1> HIDE DEF N
<1>3. \A n \in Nat : n \in N
  BY <1>1, <1>2, Inductive
<1>4. ASSUME NEW s \in Seq(U) PROVE s \in T
  <2>1. Len(s) \in N
    BY <1>3
  <2>2. QED
    BY <2>1 DEF N
<1>5. QED
  BY <1>4

\* Lists one after another.
Join(a, l) == a \o l
Joining(S) == [p \in S \X S |-> Join(p[1], p[2])]

JoinsOf(S) ==
    <<>> \in S /\ Joining(S) \in [S \X S -> S] /\ \A a, l \in S : Joining(S)[<<a, l>>] = Join(a, l)

\* Joining is a step of a fold.
LEMMA JoinsIs == ASSUME NEW U PROVE JoinsOf(Seq(U))
<1> DEFINE S == Seq(U)
<1>1. <<>> \in S /\ \A a, l \in S : Join(a, l) \in S
  BY ConcatProperties DEF Join
<1> HIDE DEF S
<1>2. JoinsOf(S)
  BY <1>1 DEF Joining, JoinsOf
<1>3. QED
  BY <1>2 DEF S

\* `Flatten` is a fold over lists.
LEMMA FlattenFolds ==
    ASSUME NEW S, JoinsOf(S), NEW ls \in Seq(S)
    PROVE  Flatten(ls) = Value(ls, S, <<>>, Joining(S))
<1> DEFINE F(iter) == [s \in SUBSET DOMAIN ls |->
                          IF s = {} THEN <<>> ELSE Join(iter[s \ {Max(s)}], ls[Max(s)])]
           it == CHOOSE iter : iter = F(iter)
<1>1. <<>> \in S /\ Joining(S) \in [S \X S -> S] /\ \A a, l \in S : Joining(S)[<<a, l>>] = Join(a, l)
  BY DEF JoinsOf
<1>2. PICK g : Sound(g, ls, S, <<>>, Joining(S)) /\ Builds(g, ls, S, S)
  BY <1>1, SoundExists
<1>3. g = F(g)
  BY <1>1, <1>2 DEF Sound, Builds
<1>4. it = F(it)
  BY <1>3
<1>5. Flatten(ls) = it[DOMAIN ls]
  BY DEF Flatten, FoldLeft, MapThenFoldSet, Join
<1>6. Sound(it, ls, S, <<>>, Joining(S))
  <2> HIDE DEF it
  <2>1. \A s \in SUBSET DOMAIN ls : s # {} => ls[Max(s)] \in S
    BY <1>2 DEF Builds
  <2>2. \A s \in SUBSET DOMAIN ls :
           it[s] = IF s = {} THEN <<>> ELSE Join(it[s \ {Max(s)}], ls[Max(s)])
    BY <1>4
  <2>3. QED
    BY <1>1, <2>1, <2>2 DEF Sound
<1> HIDE DEF it
<1>7. Meets(it, ls, S, <<>>, Joining(S))
  BY <1>1, <1>6, SoundValue
<1>8. QED
  BY <1>5, <1>7 DEF Meets

\* One list more goes at the end.
LEMMA FlattenIs ==
    ASSUME NEW U, NEW ls \in Seq(Seq(U))
    PROVE  /\ Flatten(<<>>) = <<>> /\ Flatten(ls) \in Seq(U)
           /\ \A l \in Seq(U) : Flatten(Append(ls, l)) = Flatten(ls) \o l
<1> DEFINE S == Seq(U)
<1>1. JoinsOf(S)
  BY JoinsIs
<1>2. \A ms \in Seq(S) : Flatten(ms) = Value(ms, S, <<>>, Joining(S))
  BY <1>1, FlattenFolds
<1>3. ls \in Seq(S) /\ <<>> \in Seq(S) /\ \A l \in S : Append(ls, l) \in Seq(S)
  BY AppendProperties
<1> HIDE DEF S
<1>4. Steps(ls, S, S, <<>>, Joining(S))
  BY <1>1, <1>3, ValueIs DEF JoinsOf
<1>5. /\ Flatten(<<>>) = <<>> /\ Flatten(ls) \in S
      /\ \A l \in S : Flatten(Append(ls, l)) = Join(Flatten(ls), l)
  BY <1>1, <1>2, <1>3, <1>4 DEF Steps, JoinsOf
<1>6. QED
  BY <1>5 DEF S, Join

-----------------------------------------------------------------------------
\* The hub.

Kinds == {"emojis", "end"}

Shape ==
    /\ DOMAIN proto = Flows
    /\ inbox \subseteq Flows \ Mine
    /\ entries \in Seq(Entry) /\ driver.todo \in Seq(Entry)
    /\ DOMAIN driver = {"pc", "todo"} /\ DOMAIN reader = {"pc", "flow", "idx", "sub"}
    /\ registered \in Seq(Flows)
    /\ told \in [Flows -> Seq(Kinds)]
    /\ reader.pc \in {"idle", "register", "picked"}
    /\ driver.pc \in {"tick", "flow", "set", "shown", "end", "forget"}
    /\ driver.pc = "tick" => driver.todo = <<>>
    /\ driver.pc \in {"set", "shown", "end", "forget"} => driver.todo # <<>>

IsRegistered(f) == \E i \in DOMAIN registered : registered[i] = f

\* A flow is registered once, and the list is in the order of registration.
Order ==
    /\ \A i, j \in DOMAIN registered : i # j => registered[i] # registered[j]
    /\ \A k \in DOMAIN entries : IsRegistered(entries[k].flow)
    /\ \A j, k \in DOMAIN entries : j < k => Rank(entries[j].flow) < Rank(entries[k].flow)

\* Nothing is told of a flow that is not registered, and a flow that is about
\* to be registered was not.
Once ==
    /\ \A f \in Flows : ~IsRegistered(f) => told[f] = <<>>
    /\ \A f \in Flows : proto[f] = "none" => ~IsRegistered(f) /\ f \notin inbox
    /\ \A f \in inbox : ~IsRegistered(f)
    /\ reader.pc = "register" =>
         reader.flow \in Mine /\ proto[reader.flow] # "none" /\ ~IsRegistered(reader.flow)

\* A listed flow was not told the end of, and not shown the emojis of before
\* it is marked, but for the flow the driver is at.
Notices ==
    /\ \A f \in Flows : Told(f, "end") => proto[f] \in Ended
    /\ \A k \in DOMAIN entries :
        /\ Told(entries[k].flow, "end") => driver.pc = "forget" /\ entries[k].flow = Flow
        /\ Told(entries[k].flow, "emojis") /\ ~entries[k].shown =>
             driver.pc = "shown" /\ entries[k].flow = Flow

\* What is left of the driver's snapshot, or of the flows that ended, is
\* listed, each flow once, and its marks are not older than its notices.
Pass ==
    /\ \A i \in DOMAIN driver.todo : Listed(driver.todo[i].flow)
    /\ \A i, j \in DOMAIN driver.todo : i # j => driver.todo[i].flow # driver.todo[j].flow
    /\ driver.pc \in {"flow", "set", "shown"} => \A i \in DOMAIN driver.todo :
         ~driver.todo[i].shown /\ Told(driver.todo[i].flow, "emojis") => driver.pc = "shown" /\ i = 1
    /\ driver.pc \in {"end", "forget"} => \A i \in DOMAIN driver.todo :
         /\ proto[driver.todo[i].flow] \in Ended
         /\ Told(driver.todo[i].flow, "end") => driver.pc = "forget" /\ i = 1

\* The index of a picked flow finds it, or a later one, when one up to it has
\* been forgotten.
Picked ==
    reader.pc = "picked" =>
      /\ reader.idx \in Nat \ {0} /\ IsRegistered(reader.flow)
      /\ reader.sub \in {"accept", "match", "mismatch", "cancel"}
      /\ \/ reader.idx \in DOMAIN entries /\ entries[reader.idx].flow = reader.flow
         \/ /\ reader.idx \in DOMAIN entries => Rank(entries[reader.idx].flow) > Rank(reader.flow)
            /\ \E i \in 1 .. Rank(reader.flow) : ~Listed(registered[i])

VInv == Shape /\ ToldOnce /\ Order /\ Once /\ Notices /\ Pass /\ Picked

-----------------------------------------------------------------------------
\* The entries of some flows, notices, ranks and the rest of a pass.

LEMMA WhereIs ==
    ASSUME NEW es \in Seq(Entry), NEW flows
    PROVE  \E set, h : /\ Picks(Where(es, flows), es, Len(es), Entry, set, h)
                      /\ \A e \in Entry : e \in set <=> e.flow \in flows
<1> DEFINE set == [flow : flows, sas : BOOLEAN, shown : BOOLEAN]
<1>1. \A e \in Entry : e \in set <=> e.flow \in flows
  BY DEF Entry
<1> HIDE DEF set
<1>2. \E h : Picks(Among(es, set), es, Len(es), Entry, set, h)
  BY AmongIs
<1>3. Where(es, flows) = Among(es, set)
  BY DEF Where, set
<1>4. QED
  BY <1>1, <1>2, <1>3

\* A notice goes behind those before it.
LEMMA TellKeeps ==
    ASSUME Shape, ToldOnce, NEW f \in Flows, NEW kind \in Kinds, Tell(f, kind),
           ~Told(f, "end"), kind = "emojis" => ~Told(f, "emojis")
    PROVE  /\ told' \in [Flows -> Seq(Kinds)]
           /\ ToldOnce'
           /\ \A g \in Flows, k \in Kinds : Told(g, k)' <=> Told(g, k) \/ (g = f /\ k = kind)
<1> DEFINE q == told[f]
<1>1. q \in Seq(Kinds) /\ told' = [told EXCEPT ![f] = Append(q, kind)]
  BY DEF Shape, Tell
<1>2. /\ Append(q, kind) \in Seq(Kinds) /\ Len(q) \in Nat /\ DOMAIN q = 1 .. Len(q)
      /\ Len(Append(q, kind)) = Len(q) + 1 /\ Append(q, kind)[Len(q) + 1] = kind
      /\ \A i \in 1 .. Len(q) : Append(q, kind)[i] = q[i]
  BY <1>1, AppendProperties, LenProperties
<1> HIDE DEF q
<1>3. /\ told'[f] = Append(q, kind) /\ \A g \in Flows : g # f => told'[g] = told[g]
      /\ told' \in [Flows -> Seq(Kinds)]
  BY <1>1, <1>2 DEF Shape
<1>4. DOMAIN told'[f] = DOMAIN q \cup {Len(q) + 1} /\ Len(q) + 1 \notin DOMAIN q
  BY <1>2, <1>3, LenProperties
<1>5. \A i \in DOMAIN q : q[i] # "end" /\ (kind = "emojis" => q[i] # "emojis") /\ q[i] \in Kinds
  BY <1>1, <1>2 DEF Told, q
<1>6. \A i, j \in DOMAIN q : i < j => q[j] = "end"
  BY DEF ToldOnce, q
<1>7. \A i, j \in DOMAIN told'[f] : i < j => told'[f][i] = "emojis" /\ told'[f][j] = "end"
  <2>1. SUFFICES ASSUME NEW i \in DOMAIN told'[f], NEW j \in DOMAIN told'[f], i < j
                 PROVE  told'[f][i] = "emojis" /\ told'[f][j] = "end"
    OBVIOUS
  <2>2. CASE j \in DOMAIN q
    <3>1. i \in DOMAIN q
      BY <1>2, <1>4, <2>1, <2>2
    <3>2. QED
      BY <1>5, <1>6, <2>1, <2>2, <3>1
  <2>3. CASE j = Len(q) + 1
    <3>1. i \in DOMAIN q
      BY <1>2, <1>4, <2>1, <2>3
    <3>2. q[i] = "emojis" /\ kind = "end"
      BY <1>5, <3>1 DEF Kinds
    <3>3. QED
      BY <1>2, <1>3, <2>3, <3>1, <3>2
  <2>4. QED
    BY <1>4, <2>2, <2>3
<1>8. ToldOnce'
  BY <1>3, <1>7 DEF ToldOnce
<1>9. \A k \in Kinds : Told(f, k)' <=> Told(f, k) \/ k = kind
  BY <1>2, <1>3, <1>4 DEF Told, q
<1>10. \A g \in Flows, k \in Kinds : g # f => (Told(g, k)' <=> Told(g, k))
  BY <1>3 DEF Told
<1>11. QED
  BY <1>3, <1>8, <1>9, <1>10

\* The rank of a flow is its place in the order of registration.
LEMMA RankIs ==
    ASSUME Order, NEW f, IsRegistered(f)
    PROVE  /\ Rank(f) \in DOMAIN registered /\ registered[Rank(f)] = f
           /\ \A i \in DOMAIN registered : registered[i] = f => i = Rank(f)
<1>1. \E i \in DOMAIN registered : registered[i] = f
  BY DEF IsRegistered
<1>2. Rank(f) \in DOMAIN registered /\ registered[Rank(f)] = f
  BY <1>1 DEF Rank
<1>3. QED
  BY <1>2 DEF Order

LEMMA HubLists ==
    ASSUME Shape
    PROVE  /\ Len(entries) \in Nat /\ DOMAIN entries = 1 .. Len(entries)
           /\ \A i \in DOMAIN entries : entries[i] \in Entry /\ entries[i].flow \in Flows
           /\ Len(registered) \in Nat /\ DOMAIN registered = 1 .. Len(registered)
           /\ \A i \in DOMAIN registered : registered[i] \in Flows
<1>1. entries \in Seq(Entry) /\ registered \in Seq(Flows)
  BY DEF Shape
<1>2. \A e \in Entry : e.flow \in Flows
  BY DEF Entry
<1>3. QED
  BY <1>1, <1>2

LEMMA TodoFlows ==
    ASSUME Shape
    PROVE  \A i \in DOMAIN driver.todo : driver.todo[i] \in Entry /\ driver.todo[i].flow \in Flows
<1> DEFINE q == driver.todo
<1>1. q \in Seq(Entry)
  BY DEF Shape
<1> HIDE DEF q
<1>2. \A i \in DOMAIN q : q[i] \in Entry
  BY <1>1
<1>3. QED
  BY <1>2 DEF Entry, q

LEMMA TodoIs ==
    ASSUME Shape, driver.todo # <<>>
    PROVE  /\ 1 \in DOMAIN driver.todo /\ Cur = driver.todo[1] /\ Flow = driver.todo[1].flow
           /\ Cur \in Entry /\ Flow \in Flows
           /\ Tail(driver.todo) \in Seq(Entry)
           /\ \A i \in DOMAIN Tail(driver.todo) :
                /\ i \in Nat /\ i + 1 \in DOMAIN driver.todo /\ i + 1 # 1
                /\ Tail(driver.todo)[i] = driver.todo[i + 1]
<1> DEFINE q == driver.todo
<1>1. q \in Seq(Entry) /\ q # <<>>
  BY DEF Shape
<1> HIDE DEF q
<1>2. Len(q) \in Nat /\ DOMAIN q = 1 .. Len(q) /\ Len(q) # 0
  BY <1>1, LenProperties, EmptySeq
<1>3. /\ Tail(q) \in Seq(Entry) /\ Len(Tail(q)) = Len(q) - 1 /\ Head(q) = q[1] /\ Head(q) \in Entry
      /\ \A i \in 1 .. Len(Tail(q)) : Tail(q)[i] = q[i + 1]
  BY <1>1, HeadTailProperties
<1>4. DOMAIN Tail(q) = 1 .. (Len(q) - 1)
  BY <1>2, <1>3, LenProperties
<1>5. 1 \in DOMAIN q
  BY <1>2
<1>6. \A i \in DOMAIN Tail(q) : i \in Nat /\ i + 1 \in DOMAIN q /\ i + 1 # 1 /\ Tail(q)[i] = q[i + 1]
  BY <1>2, <1>3, <1>4
<1>7. Cur = q[1] /\ Flow = q[1].flow /\ Flow \in Flows
  BY <1>3 DEF Cur, Flow, Entry, q
<1>8. QED
  BY <1>3, <1>5, <1>6, <1>7 DEF q

\* A flow in the list is known by its rank.
LEMMA ListedRanks ==
    ASSUME Shape, Order, NEW j \in DOMAIN entries, NEW k \in DOMAIN entries
    PROVE  /\ Rank(entries[j].flow) \in Nat /\ Rank(entries[j].flow) >= 1
           /\ registered[Rank(entries[j].flow)] = entries[j].flow
           /\ entries[j].flow = entries[k].flow => j = k
           /\ j <= k => Rank(entries[j].flow) <= Rank(entries[k].flow)
<1>1. j \in Nat /\ k \in Nat
  BY HubLists
<1>2. /\ Rank(entries[j].flow) \in Nat /\ Rank(entries[k].flow) \in Nat /\ Rank(entries[j].flow) >= 1
      /\ registered[Rank(entries[j].flow)] = entries[j].flow
  <2>1. IsRegistered(entries[j].flow) /\ IsRegistered(entries[k].flow)
    BY DEF Order
  <2>2. Rank(entries[j].flow) \in DOMAIN registered /\ Rank(entries[k].flow) \in DOMAIN registered
    BY <2>1, RankIs
  <2>3. QED
    BY <2>1, <2>2, RankIs, HubLists
<1>3. (j < k => Rank(entries[j].flow) < Rank(entries[k].flow))
      /\ (k < j => Rank(entries[k].flow) < Rank(entries[j].flow))
  BY DEF Order
<1>4. QED
  BY <1>1, <1>2, <1>3

-----------------------------------------------------------------------------
\* Flows go on: none is unmade, and one that has ended stays so.

Onward ==
    /\ DOMAIN proto' = Flows
    /\ \A f \in Flows : /\ proto[f] \in Ended => proto'[f] \in Ended
                        /\ proto'[f] = "none" => proto[f] = "none"

LEMMA BecomesOnward ==
    ASSUME Shape, NEW f \in Flows, proto[f] \notin Ended, NEW state, state # "none", Becomes(f, state)
    PROVE  Onward /\ proto'[f] = state /\ \A g \in Flows : g # f => proto'[g] = proto[g]
BY DEF Shape, Becomes, Onward

LEMMA SameOnward == ASSUME Shape, UNCHANGED proto PROVE Onward
BY DEF Shape, Onward

\* What a step keeps that leaves the hub's lists alone.
LEMMA HubKept ==
    ASSUME VInv, Onward, UNCHANGED <<entries, driver, told, registered>>
    PROVE  Order' /\ Notices' /\ Pass' /\ (UNCHANGED reader => Picked')
<1>1. Order'
  BY DEF VInv, Order, IsRegistered, Rank
<1>2. Notices'
  BY DEF VInv, Notices, Told, Flow, Cur, Onward
<1>3. Pass'
  <2>1. \A i \in DOMAIN driver.todo : driver.todo[i].flow \in Flows
    BY TodoFlows DEF VInv
  <2>2. entries' = entries /\ told' = told /\ driver' = driver /\ Pass
    BY DEF VInv
  <2>3. \A i \in DOMAIN driver.todo :
          proto[driver.todo[i].flow] \in Ended => proto'[driver.todo[i].flow] \in Ended
    BY <2>1 DEF Onward
  <2>4. /\ \A i \in DOMAIN driver.todo : Listed(driver.todo[i].flow)'
        /\ \A i, j \in DOMAIN driver.todo : i # j => driver.todo[i].flow # driver.todo[j].flow
    BY <2>2 DEF Pass, Listed
  <2>5. /\ driver.pc \in {"flow", "set", "shown"} => \A i \in DOMAIN driver.todo :
              ~driver.todo[i].shown /\ Told(driver.todo[i].flow, "emojis")' =>
                driver.pc = "shown" /\ i = 1
        /\ driver.pc \in {"end", "forget"} => \A i \in DOMAIN driver.todo :
              /\ proto'[driver.todo[i].flow] \in Ended
              /\ Told(driver.todo[i].flow, "end")' => driver.pc = "forget" /\ i = 1
    BY <2>2, <2>3 DEF Pass, Told
  <2>6. QED
    BY <2>2, <2>4, <2>5 DEF Pass
<1>4. UNCHANGED reader => Picked'
  BY DEF VInv, Picked, IsRegistered, Rank, Listed
<1>5. QED
  BY <1>1, <1>2, <1>3, <1>4

LEMMA InitVInv == Init => VInv
<1> SUFFICES ASSUME Init PROVE VInv
  OBVIOUS
<1>1. /\ entries = <<>> /\ registered = <<>> /\ inbox = {} /\ driver = [pc |-> "tick", todo |-> <<>>]
      /\ reader = ReaderIdle /\ \A f \in Flows : told[f] = <<>> /\ proto[f] = "none"
      /\ told = [f \in Flows |-> <<>>] /\ DOMAIN proto = Flows
  BY DEF Init
<1>2. driver.pc = "tick" /\ driver.todo = <<>> /\ reader.pc = "idle" /\ DOMAIN <<>> = {}
  BY <1>1 DEF ReaderIdle
<1>3. \A f \in Flows, kind \in {"end", "emojis"} : ~Told(f, kind)
  BY <1>1, <1>2 DEF Told
<1>4. Shape
  <2>1. <<>> \in Seq(Entry) /\ <<>> \in Seq(Flows) /\ <<>> \in Seq(Kinds)
    OBVIOUS
  <2>2. DOMAIN driver = {"pc", "todo"} /\ DOMAIN reader = {"pc", "flow", "idx", "sub"}
    BY <1>1 DEF ReaderIdle
  <2>3. QED
    BY <1>1, <1>2, <2>1, <2>2 DEF Shape
<1>5. ToldOnce /\ Order /\ Once /\ Notices /\ Pass /\ Picked
  BY <1>1, <1>2, <1>3 DEF ToldOnce, Order, Once, Notices, Pass, Picked, IsRegistered
<1>6. QED
  BY <1>4, <1>5 DEF VInv

\* The other party, the client library and the requests to them.
LEMMA PeerKeeps ==
    ASSUME VInv, Peer \/ Keys
    PROVE  VInv'
<1>1. PICK f \in Flows :
        \/ PeerRequests(f) \/ PeerReadies(f) \/ PeerStarts(f) \/ PeerKeys(f)
        \/ PeerDone(f) \/ Cancels(f) \/ TakenOver(f)
  BY DEF Peer, Keys
<1>2. /\ UNCHANGED <<reader, driver, entries, told, registered>>
      /\ inbox' = inbox \/ (inbox' = inbox \cup {f} /\ f \notin Mine /\ proto[f] = "none")
      /\ proto[f] \notin Ended
      /\ \E state : state # "none" /\ Becomes(f, state)
  BY <1>1 DEF PeerRequests, PeerReadies, PeerStarts, PeerKeys, PeerDone, Cancels, TakenOver, Moves,
              tasks, Ended, Active, WithSas
<1>3. Onward /\ proto'[f] # "none"
  BY <1>2, BecomesOnward DEF VInv
<1>4. Shape'
  BY <1>2, <1>3 DEF VInv, Shape, Onward
<1>5. Once'
  <2>1. inbox \subseteq Flows /\ Mine \subseteq Flows
    BY VerificationAssumption DEF VInv, Shape
  <2>2. QED
    BY <1>2, <1>3, <2>1 DEF VInv, Once, IsRegistered, Onward
<1>6. QED
  BY <1>2, <1>3, <1>4, <1>5, HubKept DEF VInv, ToldOnce

-----------------------------------------------------------------------------
\* The list grows.

LEMMA RegisterKeeps ==
    ASSUME VInv, NEW f \in Flows, ~IsRegistered(f), Register(f), UNCHANGED <<proto, driver, told>>
    PROVE  /\ entries' \in Seq(Entry) /\ registered' \in Seq(Flows)
           /\ \A g : IsRegistered(g)' <=> IsRegistered(g) \/ g = f
           /\ Order' /\ Notices' /\ Pass' /\ (UNCHANGED reader => Picked')
<1> DEFINE new == [flow |-> f, sas |-> FALSE, shown |-> FALSE]
           n == Len(entries)
           r == Len(registered)
<1>1. Shape /\ Order
  BY DEF VInv
<1>2. ~Listed(f)
  BY <1>1 DEF Listed, Order
<1>3. entries' = Append(entries, new) /\ registered' = Append(registered, f) /\ new \in Entry
  BY <1>2 DEF Register, Entry
<1>4. /\ n \in Nat /\ DOMAIN entries = 1 .. n /\ entries \in Seq(Entry)
      /\ r \in Nat /\ DOMAIN registered = 1 .. r /\ registered \in Seq(Flows)
  BY <1>1, HubLists DEF Shape
<1>5. /\ entries' \in Seq(Entry) /\ Len(entries') = n + 1 /\ entries'[n + 1] = new
      /\ \A i \in 1 .. n : entries'[i] = entries[i]
  BY <1>3, <1>4, AppendProperties
<1>6. /\ registered' \in Seq(Flows) /\ Len(registered') = r + 1 /\ registered'[r + 1] = f
      /\ \A i \in 1 .. r : registered'[i] = registered[i]
  BY <1>3, <1>4, AppendProperties
<1>7. new.flow = f
  OBVIOUS
<1> HIDE DEF new, n, r
<1> DEFINE G(g) == \E i \in DOMAIN registered' : registered'[i] = g
           R(g) == CHOOSE i \in DOMAIN registered' : registered'[i] = g
           L(g) == \E i \in DOMAIN entries' : entries'[i].flow = g
<1> HIDE DEF G, R, L
<1>8. /\ DOMAIN entries' = DOMAIN entries \cup {n + 1} /\ n + 1 \notin DOMAIN entries
      /\ DOMAIN registered' = DOMAIN registered \cup {r + 1} /\ r + 1 \notin DOMAIN registered
  BY <1>4, <1>5, <1>6, LenProperties
<1>9. /\ \A k \in DOMAIN entries : entries'[k] = entries[k]
      /\ \A k \in DOMAIN registered : registered'[k] = registered[k] /\ registered[k] # f
  BY <1>4, <1>5, <1>6 DEF IsRegistered
<1>10. \A i, j \in DOMAIN registered' : i # j => registered'[i] # registered'[j]
  BY <1>1, <1>6, <1>8, <1>9 DEF Order
<1>11. \A g : G(g) <=> IsRegistered(g) \/ g = f
  BY <1>6, <1>8, <1>9 DEF IsRegistered, G
<1>12. ASSUME NEW g, NEW i \in DOMAIN registered', registered'[i] = g PROVE R(g) = i
  <2>1. /\ R(g) \in DOMAIN registered' /\ registered'[R(g)] = g
    BY <1>12 DEF R
  <2>2. QED
    BY <1>10, <1>12, <2>1
<1>13. /\ \A g : IsRegistered(g) => R(g) = Rank(g)
       /\ R(f) = r + 1
  <2>1. \A g : IsRegistered(g) => Rank(g) \in DOMAIN registered /\ registered[Rank(g)] = g
    BY <1>1, RankIs
  <2>2. \A g : IsRegistered(g) => Rank(g) \in DOMAIN registered' /\ registered'[Rank(g)] = g
    BY <1>8, <1>9, <2>1
  <2>3. r + 1 \in DOMAIN registered'
    BY <1>8
  <2>4. QED
    BY <1>6, <1>12, <2>2, <2>3
<1>14. \A g : IsRegistered(g) => Rank(g) \in Nat /\ Rank(g) < r + 1 /\ R(g) = Rank(g)
  <2>1. \A g : IsRegistered(g) => Rank(g) \in 1 .. r
    BY <1>1, <1>4, RankIs
  <2>2. QED
    BY <1>4, <1>13, <2>1
<1>15. \A g : L(g) <=> Listed(g) \/ g = f
  BY <1>5, <1>7, <1>8, <1>9 DEF Listed, L
<1>16. Order'
  <2>1. \A k \in DOMAIN entries : IsRegistered(entries[k].flow)
    BY <1>1 DEF Order
  <2>2. \A k \in DOMAIN entries' : G(entries'[k].flow)
    BY <1>5, <1>7, <1>8, <1>9, <1>11, <2>1
  <2>3. \A j, k \in DOMAIN entries' : j < k => R(entries'[j].flow) < R(entries'[k].flow)
    <3>1. SUFFICES ASSUME NEW j \in DOMAIN entries', NEW k \in DOMAIN entries', j < k
                   PROVE  R(entries'[j].flow) < R(entries'[k].flow)
      OBVIOUS
    <3>2. j \in DOMAIN entries
      BY <1>4, <1>8, <3>1
    <3>3. IsRegistered(entries[j].flow) /\ entries'[j] = entries[j]
      BY <1>9, <2>1, <3>2
    <3>4. CASE k \in DOMAIN entries
      <4>1. IsRegistered(entries[k].flow) /\ entries'[k] = entries[k]
        BY <1>9, <2>1, <3>4
      <4>2. Rank(entries[j].flow) < Rank(entries[k].flow)
        BY <1>1, <3>1, <3>2, <3>4 DEF Order
      <4>3. QED
        BY <1>13, <3>3, <4>1, <4>2
    <3>5. CASE k = n + 1
      BY <1>5, <1>7, <1>13, <1>14, <3>3, <3>5
    <3>6. QED
      BY <1>8, <3>4, <3>5
  <2>4. QED
    BY <1>10, <2>2, <2>3 DEF Order, IsRegistered, Rank, G, R
<1>17. driver' = driver /\ told' = told /\ proto' = proto
  OBVIOUS
<1>18. Notices'
  <2>1. ~Told(f, "end") /\ ~Told(f, "emojis")
    BY DEF VInv, Once, Told
  <2>2. \A k \in DOMAIN entries' :
          (k \in DOMAIN entries /\ entries'[k] = entries[k]) \/ entries'[k].flow = f
    BY <1>5, <1>7, <1>8, <1>9
  <2>3. Notices
    BY DEF VInv
  <2>4. ASSUME NEW k \in DOMAIN entries'
        PROVE  /\ Told(entries'[k].flow, "end") => driver.pc = "forget" /\ entries'[k].flow = Flow
               /\ Told(entries'[k].flow, "emojis") /\ ~entries'[k].shown =>
                    driver.pc = "shown" /\ entries'[k].flow = Flow
    BY <2>1, <2>2, <2>3 DEF Notices
  <2>5. QED
    BY <1>17, <2>3, <2>4 DEF Notices, Told, Flow, Cur
<1>19. Pass'
  BY <1>15, <1>17 DEF VInv, Pass, Told, Listed, L
<1>20. UNCHANGED reader => Picked'
  <2>1. SUFFICES ASSUME UNCHANGED reader, reader.pc = "picked" PROVE Picked'
    BY DEF Picked
  <2>2. /\ IsRegistered(reader.flow) /\ reader.idx \in Nat \ {0}
        /\ reader.sub \in {"accept", "match", "mismatch", "cancel"}
    BY <2>1 DEF VInv, Picked
  <2>3. CASE reader.idx \in DOMAIN entries /\ entries[reader.idx].flow = reader.flow
    BY <1>8, <1>9, <1>11, <2>1, <2>2, <2>3 DEF Picked, IsRegistered, G
  <2>4. CASE /\ reader.idx \in DOMAIN entries => Rank(entries[reader.idx].flow) > Rank(reader.flow)
             /\ \E i \in 1 .. Rank(reader.flow) : ~Listed(registered[i])
    <3>1. reader.idx \in DOMAIN entries' => R(entries'[reader.idx].flow) > R(reader.flow)
      <4>1. CASE reader.idx \in DOMAIN entries
        <5>1. IsRegistered(entries[reader.idx].flow) /\ entries'[reader.idx] = entries[reader.idx]
          BY <1>1, <1>9, <4>1 DEF Order
        <5>2. QED
          BY <1>13, <2>2, <2>4, <4>1, <5>1
      <4>2. CASE reader.idx = n + 1
        BY <1>5, <1>7, <1>13, <1>14, <2>2, <4>2
      <4>3. QED
        BY <1>8, <4>1, <4>2
    <3>2. PICK i \in 1 .. Rank(reader.flow) : ~Listed(registered[i])
      BY <2>4
    <3>3. i \in DOMAIN registered
      BY <1>4, <1>14, <2>2
    <3>4. ~L(registered'[i])
      BY <1>9, <1>15, <3>2, <3>3
    <3>5. R(reader.flow) = Rank(reader.flow)
      BY <1>13, <2>2
    <3>6. G(reader.flow)
      BY <1>11, <2>2
    <3>7. QED
      BY <2>1, <2>2, <3>1, <3>2, <3>4, <3>5, <3>6 DEF Picked, IsRegistered, Rank, Listed, G, R, L
  <2>5. QED
    BY <2>1, <2>3, <2>4 DEF VInv, Picked
<1>21. \A g : IsRegistered(g)' <=> IsRegistered(g) \/ g = f
  BY <1>11 DEF IsRegistered, G
<1>22. QED
  BY <1>5, <1>6, <1>11, <1>21, <1>16, <1>18, <1>19, <1>20

LEMMA HandlerKeeps ==
    ASSUME VInv, Handler
    PROVE  VInv'
<1>1. PICK f \in inbox : /\ inbox' = inbox \ {f}
                         /\ Register(f)
                         /\ UNCHANGED <<proto, tasks, told, commands>>
  BY DEF Handler
<1>2. f \in Flows /\ f \notin Mine /\ ~IsRegistered(f) /\ UNCHANGED <<proto, driver, reader, told>>
  BY <1>1 DEF VInv, Shape, Once, tasks
<1>3. /\ entries' \in Seq(Entry) /\ registered' \in Seq(Flows)
      /\ \A g : IsRegistered(g)' <=> IsRegistered(g) \/ g = f
      /\ Order' /\ Notices' /\ Pass' /\ Picked'
  BY <1>1, <1>2, RegisterKeeps
<1>4. Shape' /\ ToldOnce'
  BY <1>1, <1>2, <1>3 DEF VInv, Shape, ToldOnce
<1>5. Once'
  BY <1>1, <1>2, <1>3 DEF VInv, Once
<1>6. QED
  BY <1>3, <1>4, <1>5 DEF VInv

LEMMA ReaderRegistersKeeps ==
    ASSUME VInv, ReaderRegisters
    PROVE  VInv'
<1> DEFINE f == reader.flow
<1>1. Register(f) /\ reader' = ReaderIdle /\ UNCHANGED <<proto, inbox, driver, told>>
  BY DEF ReaderRegisters
<1>2. f \in Flows /\ f \in Mine /\ ~IsRegistered(f) /\ proto[f] # "none"
  BY VerificationAssumption DEF ReaderRegisters, VInv, Once
<1> HIDE DEF f
<1>3. /\ entries' \in Seq(Entry) /\ registered' \in Seq(Flows)
      /\ \A g : IsRegistered(g)' <=> IsRegistered(g) \/ g = f
      /\ Order' /\ Notices' /\ Pass'
  BY <1>1, <1>2, RegisterKeeps
<1>4. reader'.pc = "idle" /\ DOMAIN reader' = {"pc", "flow", "idx", "sub"}
  BY <1>1 DEF ReaderIdle
<1>5. Shape' /\ ToldOnce' /\ Picked'
  BY <1>1, <1>3, <1>4 DEF VInv, Shape, ToldOnce, Picked
<1>6. Once'
  <2>1. f \notin inbox
    BY <1>2 DEF VInv, Shape
  <2>2. QED
    BY <1>1, <1>2, <1>3, <1>4, <2>1 DEF VInv, Once
<1>7. QED
  BY <1>3, <1>5, <1>6 DEF VInv

-----------------------------------------------------------------------------
\* The driver's pass.

\* Before the driver comes to the end of a pass no listed flow was told its
\* end, and only the one it has just shown is not marked.
LEMMA PassNotices ==
    ASSUME VInv, driver.pc # "forget"
    PROVE  /\ \A g : Listed(g) => ~Told(g, "end")
           /\ driver.pc # "shown" => \A k \in DOMAIN entries :
                Told(entries[k].flow, "emojis") => entries[k].shown
BY DEF VInv, Notices, Listed

\* A step that only registered flows were told of.
LEMMA OnceKept ==
    ASSUME VInv, Onward, UNCHANGED <<registered, inbox, reader>>,
           \A f \in Flows : told'[f] = told[f] \/ IsRegistered(f)
    PROVE  Once'
<1>1. reader' = reader /\ inbox' = inbox /\ registered' = registered
  OBVIOUS
<1>2. inbox \subseteq Flows /\ Mine \subseteq Flows
  BY VerificationAssumption DEF VInv, Shape
<1>3. QED
  BY <1>1, <1>2 DEF VInv, Once, IsRegistered, Onward

\* A step that marks entries, or none.
LEMMA MarksKept ==
    ASSUME VInv, UNCHANGED registered, DOMAIN entries' = DOMAIN entries,
           \A k \in DOMAIN entries : entries'[k].flow = entries[k].flow
    PROVE  /\ Order' /\ (UNCHANGED reader => Picked')
           /\ \A g : Listed(g)' <=> Listed(g)
<1>1. \A g : Listed(g)' <=> Listed(g)
  BY DEF Listed
<1>2. Order'
  BY DEF VInv, Order, IsRegistered, Rank
<1>3. UNCHANGED reader => Picked'
  <2>1. SUFFICES ASSUME UNCHANGED reader, reader.pc = "picked" PROVE Picked'
    BY DEF Picked
  <2>2. reader' = reader /\ registered' = registered /\ Picked
    BY <2>1 DEF VInv
  <2>3. (\E i \in 1 .. Rank(reader.flow) : ~Listed(registered[i])) =>
          (\E i \in 1 .. Rank(reader.flow) : ~Listed(registered[i]))'
    BY ZenonT(30), <2>2 DEF Listed, Rank
  <2>4. reader.idx \in DOMAIN entries =>
          entries'[reader.idx].flow = entries[reader.idx].flow
    OBVIOUS
  <2>5. QED
    BY <2>1, <2>2, <2>3, <2>4 DEF Picked, IsRegistered, Rank
<1>4. QED
  BY <1>1, <1>2, <1>3

\* The next flow of the pass.
LEMMA NextFlowPass ==
    ASSUME VInv, driver.pc \in {"flow", "set", "shown"}, driver.todo # <<>>, NextFlow, UNCHANGED told,
           \A g : Listed(g) => Listed(g)'
    PROVE  /\ Pass' /\ driver'.pc = "flow"
           /\ driver'.todo \in Seq(Entry) /\ DOMAIN driver' = {"pc", "todo"}
<1> DEFINE q == Tail(driver.todo)
<1>1. driver' = [pc |-> "flow", todo |-> q] /\ told' = told
  BY DEF NextFlow
<1>2. /\ q \in Seq(Entry)
      /\ \A i \in DOMAIN q : i \in Nat /\ i + 1 \in DOMAIN driver.todo /\ i + 1 # 1 /\ q[i] = driver.todo[i + 1]
  BY TodoIs DEF VInv
<1> HIDE DEF q
<1>3. driver'.pc = "flow" /\ driver'.todo = q /\ DOMAIN driver' = {"pc", "todo"}
  BY <1>1
<1>4. \A i, j \in DOMAIN q : i # j => q[i].flow # q[j].flow
  <2>1. \A i, j \in DOMAIN q : i # j => i + 1 # j + 1
    BY <1>2
  <2>2. QED
    BY <1>2, <2>1 DEF VInv, Pass
<1>5. \A i \in DOMAIN q : Listed(q[i].flow)
  BY <1>2 DEF VInv, Pass
<1>6. \A i \in DOMAIN q : ~q[i].shown => ~Told(q[i].flow, "emojis")
  BY <1>2 DEF VInv, Pass
<1>7. \A g : (\E i \in DOMAIN entries : entries[i].flow = g) => \E i \in DOMAIN entries' : entries'[i].flow = g
  BY DEF Listed
<1>8. \A i \in DOMAIN q : \E k \in DOMAIN entries' : entries'[k].flow = q[i].flow
  BY <1>5, <1>7 DEF Listed
<1>9. \A i \in DOMAIN q : ~q[i].shown => ~(\E k \in DOMAIN told'[q[i].flow] : told'[q[i].flow][k] = "emojis")
  BY <1>1, <1>6 DEF Told
<1>10. Pass'
  BY <1>3, <1>4, <1>8, <1>9 DEF Pass, Told, Listed
<1>11. QED
  BY <1>2, <1>3, <1>10

\* A step that is on a flow, and neither marks nor tells.
LEMMA FlowStepKeeps ==
    ASSUME VInv, Onward, At("flow"), UNCHANGED <<inbox, entries, told, registered, reader>>,
           NextFlow \/ driver' = [driver EXCEPT !.pc = "set"]
    PROVE  VInv'
<1>1. driver.pc = "flow" /\ driver.todo # <<>>
  BY DEF At
<1>2. Order' /\ Picked' /\ \A g : Listed(g)' <=> Listed(g)
  BY MarksKept
<1>3. Once'
  BY OnceKept
<1>4. /\ driver'.pc \in {"flow", "set"} /\ driver'.todo \in Seq(Entry) /\ DOMAIN driver' = {"pc", "todo"}
      /\ driver'.pc = "set" => driver'.todo # <<>>
      /\ Pass'
  <2>1. CASE NextFlow
    BY <1>1, <1>2, <2>1, NextFlowPass
  <2>2. CASE driver' = [driver EXCEPT !.pc = "set"]
    <3>1. driver'.pc = "set" /\ driver'.todo = driver.todo /\ DOMAIN driver' = {"pc", "todo"}
      BY <2>2 DEF VInv, Shape
    <3>2. entries' = entries /\ told' = told
      OBVIOUS
    <3>3. Pass'
      BY <1>1, <3>1, <3>2 DEF VInv, Pass, Told, Listed
    <3>4. QED
      BY <1>1, <3>1, <3>3 DEF VInv, Shape
  <2>3. QED
    BY <2>1, <2>2
<1>5. Notices'
  <2>1. entries' = entries /\ told' = told
    OBVIOUS
  <2>2. \A f \in Flows : Told(f, "end") => proto'[f] \in Ended
    BY DEF VInv, Notices, Onward
  <2>3. \A k \in DOMAIN entries : /\ ~Told(entries[k].flow, "end")
                                  /\ Told(entries[k].flow, "emojis") => entries[k].shown
    BY <1>1, PassNotices DEF Listed
  <2>4. QED
    BY <2>1, <2>2, <2>3 DEF Notices, Told
<1>6. Shape' /\ ToldOnce'
  <2>1. inbox' = inbox /\ entries' = entries /\ told' = told /\ registered' = registered /\ reader' = reader
    OBVIOUS
  <2>2. QED
    BY <1>4, <2>1 DEF VInv, Shape, ToldOnce, Onward
<1>7. QED
  BY <1>2, <1>3, <1>4, <1>5, <1>6 DEF VInv

LEMMA SasKeeps ==
    ASSUME VInv, StartSas \/ FindSas \/ Skip
    PROVE  VInv'
<1>1. At("flow") /\ UNCHANGED <<inbox, reader, entries, told, registered>>
  BY DEF StartSas, FindSas, Skip
<1>2. Flow \in Flows /\ Shape
  BY <1>1, TodoIs DEF At, VInv
<1>3. CASE StartSas
  <2>1. proto[Flow] = "ready" /\ proto[Flow] \notin Ended
    BY <1>3 DEF StartSas, Ended
  <2>2. PICK state \in Answer("started_us") :
          /\ Becomes(Flow, state)
          /\ IF state = "unsent" THEN NextFlow ELSE driver' = [driver EXCEPT !.pc = "set"]
    BY <1>3 DEF StartSas
  <2>3. state # "none"
    BY DEF Answer
  <2>4. Onward
    BY <1>2, <2>1, <2>2, <2>3, BecomesOnward
  <2>5. QED
    BY <1>1, <2>2, <2>4, FlowStepKeeps
<1>4. CASE FindSas
  <2>1. Onward
    <3>1. CASE UNCHANGED proto
      BY <1>2, <3>1, SameOnward
    <3>2. CASE proto[Flow] = "started_them" /\ \E state \in Answer("accepted") : Becomes(Flow, state)
      <4>1. proto[Flow] \notin Ended
        BY <3>2 DEF Ended
      <4>2. PICK state : state # "none" /\ Becomes(Flow, state)
        BY <3>2 DEF Answer
      <4>3. QED
        BY <1>2, <4>1, <4>2, BecomesOnward
    <3>3. QED
      BY <1>4, <3>1, <3>2 DEF FindSas
  <2>2. driver' = [driver EXCEPT !.pc = "set"]
    BY <1>4 DEF FindSas
  <2>3. QED
    BY <1>1, <2>1, <2>2, FlowStepKeeps
<1>5. CASE Skip
  <2>1. Onward /\ NextFlow
    BY <1>2, <1>5, SameOnward DEF Skip
  <2>2. QED
    BY <1>1, <2>1, FlowStepKeeps
<1>6. QED
  BY <1>3, <1>4, <1>5

LEMMA SnapshotKeeps ==
    ASSUME VInv, Snapshot
    PROVE  VInv'
<1>1. /\ driver.pc = "tick" /\ UNCHANGED <<proto, inbox, reader, entries, told, registered>>
      /\ driver'.pc = "flow" /\ driver'.todo = entries /\ DOMAIN driver' = {"pc", "todo"}
  BY DEF Snapshot
<1>2. Onward /\ Shape /\ Order
  BY <1>1, SameOnward DEF VInv
<1>3. Order' /\ Picked' /\ \A g : Listed(g)' <=> Listed(g)
  BY <1>1, MarksKept
<1>4. Once'
  BY <1>1, <1>2, OnceKept
<1>5. \A k \in DOMAIN entries : /\ ~Told(entries[k].flow, "end")
                                /\ Told(entries[k].flow, "emojis") => entries[k].shown
  BY <1>1, PassNotices DEF Listed
<1>6. \A f \in Flows : Told(f, "end") => proto[f] \in Ended
  BY DEF VInv, Notices
<1>7. Notices'
  BY <1>1, <1>5, <1>6 DEF Notices, Told
<1>8. \A j, k \in DOMAIN entries : j # k => entries[j].flow # entries[k].flow
  BY <1>2, ListedRanks
<1>9. Pass'
  BY <1>1, <1>5, <1>8 DEF Pass, Told, Listed
<1>10. Shape' /\ ToldOnce'
  BY <1>1 DEF VInv, Shape, ToldOnce
<1>11. QED
  BY <1>3, <1>4, <1>7, <1>9, <1>10 DEF VInv

LEMMA MarkIs ==
    ASSUME Shape, NEW field \in {"sas", "shown"}, entries' = Mark(field)
    PROVE  /\ entries' \in Seq(Entry) /\ DOMAIN entries' = DOMAIN entries
           /\ \A k \in DOMAIN entries :
                /\ entries'[k].flow = entries[k].flow
                /\ entries[k].shown => entries'[k].shown
                /\ field = "shown" /\ entries[k].flow = Flow => entries'[k].shown
<1> DEFINE mark(k) == IF entries[k].flow # Flow THEN entries[k]
                      ELSE IF field = "sas" THEN [entries[k] EXCEPT !.sas = TRUE]
                      ELSE [entries[k] EXCEPT !.shown = TRUE]
<1>1. entries' = [k \in DOMAIN entries |-> mark(k)]
  BY DEF Mark
<1>2. \A k \in DOMAIN entries : entries[k] \in Entry
  BY HubLists
<1>3. \A e \in Entry : /\ [e EXCEPT !.sas = TRUE] \in Entry /\ [e EXCEPT !.sas = TRUE].flow = e.flow
                       /\ [e EXCEPT !.sas = TRUE].shown = e.shown
                       /\ [e EXCEPT !.shown = TRUE] \in Entry /\ [e EXCEPT !.shown = TRUE].flow = e.flow
                       /\ [e EXCEPT !.shown = TRUE].shown = TRUE
  BY DEF Entry
<1>4. \A k \in DOMAIN entries :
        /\ mark(k) \in Entry /\ mark(k).flow = entries[k].flow
        /\ entries[k].shown => mark(k).shown
        /\ field = "shown" /\ entries[k].flow = Flow => mark(k).shown
  BY <1>2, <1>3
<1> HIDE DEF mark
<1>5. entries' \in [1 .. Len(entries) -> Entry]
  BY <1>1, <1>4, HubLists
<1>6. entries' \in Seq(Entry)
  BY <1>5, HubLists, SeqDef
<1>7. QED
  BY <1>1, <1>4, <1>6

LEMMA MarkKeeps ==
    ASSUME VInv, SetSas \/ SetEmojisShown
    PROVE  VInv'
<1>1. /\ driver.todo # <<>> /\ NextFlow /\ UNCHANGED <<proto, inbox, reader, told, registered>>
      /\ \/ driver.pc = "set" /\ entries' = Mark("sas")
         \/ driver.pc = "shown" /\ entries' = Mark("shown")
  BY DEF SetSas, SetEmojisShown, At
<1>2. Onward /\ Shape
  BY <1>1, SameOnward DEF VInv
<1>3. /\ entries' \in Seq(Entry) /\ DOMAIN entries' = DOMAIN entries
      /\ \A k \in DOMAIN entries :
           /\ entries'[k].flow = entries[k].flow
           /\ entries[k].shown => entries'[k].shown
           /\ driver.pc = "shown" /\ entries[k].flow = Flow => entries'[k].shown
  BY <1>1, <1>2, MarkIs
<1>4. Order' /\ Picked' /\ \A g : Listed(g)' <=> Listed(g)
  BY <1>1, <1>3, MarksKept
<1>5. Once'
  BY <1>1, <1>2, OnceKept
<1>6. Pass' /\ driver'.pc = "flow" /\ driver'.todo \in Seq(Entry) /\ DOMAIN driver' = {"pc", "todo"}
  BY <1>1, <1>4, NextFlowPass
<1>7. Notices'
  <2>1. \A k \in DOMAIN entries : ~Told(entries[k].flow, "end")
    BY <1>1, PassNotices DEF Listed
  <2>2. \A k \in DOMAIN entries : Told(entries[k].flow, "emojis") => entries'[k].shown
    BY <1>1, <1>3 DEF VInv, Notices
  <2>3. \A f \in Flows : Told(f, "end") => proto[f] \in Ended
    BY DEF VInv, Notices
  <2>4. QED
    BY <1>1, <1>3, <2>1, <2>2, <2>3 DEF Notices, Told
<1>8. Shape' /\ ToldOnce'
  BY <1>1, <1>3, <1>6 DEF VInv, Shape, ToldOnce
<1>9. QED
  BY <1>4, <1>5, <1>6, <1>7, <1>8 DEF VInv

\* The flow the driver is at is told of.
LEMMA ToldKeeps ==
    ASSUME VInv, ShowEmojis \/ EndNotice
    PROVE  VInv'
<1> DEFINE q == driver.todo
           f == Flow
<1>1. /\ q # <<>> /\ UNCHANGED <<proto, inbox, reader, entries, registered>>
      /\ \/ driver.pc = "flow" /\ ~Cur.shown /\ Tell(f, "emojis") /\ driver' = [driver EXCEPT !.pc = "shown"]
         \/ driver.pc = "end" /\ Tell(f, "end") /\ driver' = [driver EXCEPT !.pc = "forget"]
  BY DEF ShowEmojis, EndNotice, At
<1>2. Onward /\ Shape /\ ToldOnce /\ Order /\ Notices /\ Pass
  BY <1>1, SameOnward DEF VInv
<1>3. /\ 1 \in DOMAIN q /\ Cur = q[1] /\ f = q[1].flow /\ f \in Flows /\ q \in Seq(Entry)
      /\ \A i \in DOMAIN q : q[i].flow \in Flows
  BY <1>1, <1>2, TodoIs, TodoFlows DEF Shape
<1>4. /\ driver'.todo = q /\ DOMAIN driver' = {"pc", "todo"} /\ entries' = entries
      /\ driver'.pc = IF driver.pc = "flow" THEN "shown" ELSE "forget"
  BY <1>1, <1>2 DEF Shape
<1>5. Flow' = f
  <2>1. Head(driver'.todo).flow = f
    BY <1>4 DEF Flow, Cur
  <2>2. QED
    BY <2>1 DEF Flow, Cur
<1>6. Listed(f) /\ IsRegistered(f)
  BY <1>2, <1>3 DEF Pass, Order, Listed
<1>7. ~Told(f, "end") /\ (driver.pc = "flow" => ~Told(f, "emojis"))
  <2>1. driver.pc = "flow" \/ driver.pc = "end"
    BY <1>1
  <2>2. ~Told(f, "end")
    BY <1>6, <2>1, PassNotices
  <2>3. driver.pc = "flow" => ~Told(f, "emojis")
    BY <1>1, <1>2, <1>3 DEF Pass
  <2>4. QED
    BY <2>2, <2>3
<1> DEFINE kind == IF driver.pc = "flow" THEN "emojis" ELSE "end"
<1>8. kind \in Kinds /\ Tell(f, kind)
  BY <1>1 DEF Kinds
<1>9. /\ told' \in [Flows -> Seq(Kinds)] /\ ToldOnce'
      /\ \A g \in Flows, k \in Kinds : Told(g, k)' <=> Told(g, k) \/ (g = f /\ k = kind)
  <2> HIDE DEF f
  <2>1. kind = "emojis" => ~Told(f, "emojis")
    BY <1>7
  <2> HIDE DEF kind
  <2>2. QED
    BY <1>2, <1>3, <1>7, <1>8, <2>1, TellKeeps
<1>10. \A g \in Flows : told'[g] = told[g] \/ IsRegistered(g)
  BY <1>2, <1>6, <1>8 DEF Tell, Shape
<1>11. Once'
  BY <1>1, <1>2, <1>10, OnceKept
<1>12. Order' /\ Picked'
  BY <1>1, MarksKept
<1>13. Shape'
  <2>1. driver'.pc \in {"shown", "forget"} /\ driver'.todo # <<>>
    BY <1>1, <1>4
  <2>2. UNCHANGED <<proto, inbox, reader, registered>>
    BY <1>1
  <2>3. QED
    BY <1>2, <1>3, <1>4, <1>9, <2>1, <2>2 DEF Shape
<1> DEFINE T(g, k) == \E i \in DOMAIN told'[g] : told'[g][i] = k
<1>14. \A g \in Flows : /\ T(g, "emojis") <=> Told(g, "emojis") \/ (g = f /\ driver.pc = "flow")
                        /\ T(g, "end") <=> Told(g, "end") \/ (g = f /\ driver.pc # "flow")
  BY <1>9 DEF Told, Kinds
<1> HIDE DEF T, kind, q, f
<1>15. \A k \in DOMAIN entries : entries[k].flow \in Flows
  BY <1>2, HubLists
<1>16. Notices'
  <2>1. ASSUME NEW g \in Flows, T(g, "end") PROVE proto[g] \in Ended
    <3>1. driver.pc # "flow" => proto[f] \in Ended
      BY <1>1, <1>2, <1>3 DEF Pass, q
    <3>2. QED
      BY <1>2, <1>14, <2>1, <3>1 DEF Notices
  <2>2. ASSUME NEW k \in DOMAIN entries
        PROVE  /\ T(entries[k].flow, "end") => driver'.pc = "forget" /\ entries[k].flow = f
               /\ T(entries[k].flow, "emojis") /\ ~entries[k].shown =>
                    driver'.pc = "shown" /\ entries[k].flow = f
    <3>1. driver.pc # "forget" /\ driver.pc # "shown"
      BY <1>1
    <3>2. ~Told(entries[k].flow, "end") /\ (Told(entries[k].flow, "emojis") => entries[k].shown)
      BY <3>1, PassNotices DEF Listed
    <3>3. QED
      BY <1>4, <1>14, <1>15, <3>2
  <2>3. proto' = proto
    BY <1>1
  <2>4. QED
    BY <1>4, <1>5, <2>1, <2>2, <2>3 DEF Notices, Told, T
<1>17. Pass'
  <2>1. \A i \in DOMAIN q : \E k \in DOMAIN entries : entries[k].flow = q[i].flow
    BY <1>2 DEF Pass, Listed, q
  <2>2. \A i, j \in DOMAIN q : i # j => q[i].flow # q[j].flow
    BY <1>2 DEF Pass, q
  <2>3. ASSUME driver.pc = "flow", NEW i \in DOMAIN q, ~q[i].shown, T(q[i].flow, "emojis") PROVE i = 1
    <3>1. ~Told(q[i].flow, "emojis")
      BY <1>2, <2>3 DEF Pass, q
    <3>2. q[i].flow = q[1].flow
      BY <1>3, <1>14, <2>3, <3>1
    <3>3. QED
      BY <1>3, <2>2, <3>2
  <2>4. ASSUME driver.pc = "end", NEW i \in DOMAIN q
        PROVE  proto[q[i].flow] \in Ended /\ (T(q[i].flow, "end") => i = 1)
    <3>1. proto[q[i].flow] \in Ended /\ ~Told(q[i].flow, "end")
      BY <1>2, <2>4 DEF Pass, q
    <3>2. T(q[i].flow, "end") => q[i].flow = q[1].flow
      BY <1>3, <1>14, <3>1
    <3>3. QED
      BY <1>3, <2>2, <3>1, <3>2
  <2>5. driver.pc = "flow" \/ driver.pc = "end"
    BY <1>1
  <2>6. proto' = proto
    BY <1>1
  <2>7. /\ driver'.pc \in {"flow", "set", "shown"} => driver.pc = "flow" /\ driver'.pc = "shown"
        /\ driver'.pc \in {"end", "forget"} => driver.pc = "end" /\ driver'.pc = "forget"
    BY <1>4, <2>5
  <2>8. QED
    BY <1>4, <2>1, <2>2, <2>3, <2>4, <2>6, <2>7 DEF Pass, Listed, Told, T
<1>18. QED
  BY <1>9, <1>11, <1>12, <1>13, <1>16, <1>17 DEF VInv

LEMMA FinishedKeeps ==
    ASSUME VInv, Finished
    PROVE  VInv'
<1> DEFINE w == Where(entries, EndedNow)
<1>1. /\ driver.pc = "flow" /\ driver.todo = <<>>
      /\ UNCHANGED <<proto, inbox, reader, entries, told, registered>>
      /\ driver'.pc = (IF w = <<>> THEN "tick" ELSE "end") /\ driver'.todo = w
      /\ DOMAIN driver' = {"pc", "todo"}
  BY DEF Finished, Passing
<1>2. Onward /\ Shape /\ Order /\ entries \in Seq(Entry)
  BY <1>1, SameOnward DEF VInv, Shape
<1>3. PICK set, h : /\ Picks(w, entries, Len(entries), Entry, set, h)
                    /\ \A e \in Entry : e \in set <=> e.flow \in EndedNow
  BY <1>2, WhereIs
<1> HIDE DEF w
<1>4. /\ w \in Seq(Entry) /\ Len(w) \in Nat /\ DOMAIN w = 1 .. Len(w)
      /\ \A i \in DOMAIN w : h[i] \in DOMAIN entries /\ w[i] = entries[h[i]] /\ w[i].flow \in EndedNow
      /\ \A i, j \in DOMAIN w : i < j => h[i] < h[j]
  BY <1>2, <1>3, HubLists, LenProperties DEF Picks
<1>5. Order' /\ Picked'
  BY <1>1, MarksKept
<1>6. Once'
  BY <1>1, <1>2, OnceKept
<1>7. \A k \in DOMAIN entries : /\ ~Told(entries[k].flow, "end")
                                /\ Told(entries[k].flow, "emojis") => entries[k].shown
  BY <1>1, PassNotices DEF Listed
<1>8. Notices'
  <2>1. \A g \in Flows : Told(g, "end") => proto[g] \in Ended
    BY DEF VInv, Notices
  <2>2. QED
    BY <1>1, <1>7, <2>1 DEF Notices, Told
<1>9. \A i, j \in DOMAIN w : i # j => w[i].flow # w[j].flow
  <2>1. SUFFICES ASSUME NEW i \in DOMAIN w, NEW j \in DOMAIN w, i # j PROVE w[i].flow # w[j].flow
    OBVIOUS
  <2>2. i < j \/ j < i
    BY <1>4, <2>1
  <2>3. h[i] \in Nat /\ h[j] \in Nat /\ h[i] # h[j]
    <3>1. h[i] < h[j] \/ h[j] < h[i]
      BY <1>4, <2>2
    <3>2. h[i] \in Nat /\ h[j] \in Nat
      BY <1>2, <1>4, HubLists
    <3>3. QED
      BY <3>1, <3>2
  <2>4. QED
    BY <1>2, <1>4, <2>3, ListedRanks
<1>10. Pass'
  <2>1. \A i \in DOMAIN w : \E k \in DOMAIN entries : entries[k].flow = w[i].flow
    BY <1>4
  <2>2. \A i \in DOMAIN w : proto[w[i].flow] \in Ended /\ ~Told(w[i].flow, "end")
    BY <1>4, <1>7 DEF EndedNow
  <2>3. QED
    BY <1>1, <1>9, <2>1, <2>2 DEF Pass, Listed, Told
<1>11. Shape' /\ ToldOnce'
  BY <1>1, <1>4 DEF VInv, Shape, ToldOnce
<1>12. QED
  BY <1>5, <1>6, <1>8, <1>10, <1>11 DEF VInv

\* The list without one flow: the others keep their order and, from that flow
\* on, get a smaller index.
LEMMA ForgetKeeps ==
    ASSUME VInv, Forget
    PROVE  VInv'
<1> DEFINE f == Flow
           n == Len(entries)
           q == Tail(driver.todo)
           keep == Flows \ ({f} \cap EndedNow)
<1>1. /\ driver.pc = "forget" /\ driver.todo # <<>>
      /\ UNCHANGED <<proto, inbox, reader, told, registered>>
      /\ entries' = Where(entries, keep)
      /\ driver'.pc = (IF q = <<>> THEN "tick" ELSE "end") /\ driver'.todo = q
      /\ DOMAIN driver' = {"pc", "todo"}
  BY DEF Forget, Passing, At
<1>2. Onward /\ Shape /\ Order /\ entries \in Seq(Entry)
  BY <1>1, SameOnward DEF VInv, Shape
<1>3. /\ f \in Flows /\ f = driver.todo[1].flow /\ 1 \in DOMAIN driver.todo /\ q \in Seq(Entry)
      /\ \A i \in DOMAIN q : /\ i \in Nat /\ i + 1 \in DOMAIN driver.todo /\ i + 1 # 1
                             /\ q[i] = driver.todo[i + 1]
  BY <1>1, <1>2, TodoIs
<1>4. f \in EndedNow /\ Listed(f)
  BY <1>1, <1>3 DEF VInv, Pass, EndedNow
<1>5. PICK set, h : /\ Picks(entries', entries, n, Entry, set, h)
                    /\ \A e \in Entry : e \in set <=> e.flow \in keep
  BY <1>1, <1>2, WhereIs
<1>6. /\ n \in Nat /\ DOMAIN entries = 1 .. n
      /\ \A i \in DOMAIN entries : entries[i] \in Entry /\ entries[i].flow \in Flows
  BY <1>2, HubLists
<1>7. \A g \in Flows : g \in keep <=> g # f
  BY <1>4
<1>8. \A i \in DOMAIN entries : entries[i] \in set <=> entries[i].flow # f
  BY <1>5, <1>6, <1>7
<1> HIDE DEF f, n, q, keep
<1>9. /\ entries' \in Seq(Entry) /\ Len(entries') \in Nat /\ DOMAIN entries' = 1 .. Len(entries')
      /\ Len(entries') <= n
  BY <1>5, LenProperties DEF Picks
<1>10. /\ \A k \in DOMAIN entries' : /\ k <= h[k] /\ h[k] \in DOMAIN entries
                                     /\ entries'[k] = entries[h[k]] /\ entries'[k].flow # f
       /\ \A j, k \in DOMAIN entries' : j < k => h[j] < h[k]
       /\ \A i \in DOMAIN entries : entries[i].flow # f => \E k \in DOMAIN entries' : h[k] = i
       /\ \A k \in DOMAIN entries : \/ k \in DOMAIN entries' /\ h[k] = k
                                    \/ \E i \in 1 .. k : i \in DOMAIN entries /\ entries[i].flow = f
  <2>1. \A k \in DOMAIN entries' : k <= h[k] /\ h[k] \in DOMAIN entries /\ entries'[k] = entries[h[k]]
                                   /\ entries'[k].flow \in keep
    BY <1>5, <1>6, <1>9 DEF Picks
  <2>2. \A k \in DOMAIN entries' : entries'[k].flow # f
    BY <1>6, <1>7, <2>1
  <2>3. \A j, k \in DOMAIN entries' : j < k => h[j] < h[k]
    BY <1>5, <1>9 DEF Picks
  <2>4. \A i \in DOMAIN entries : entries[i].flow # f => \E k \in DOMAIN entries' : h[k] = i
    BY <1>5, <1>6, <1>8, <1>9 DEF Picks
  <2>5. ASSUME NEW k \in DOMAIN entries
        PROVE  \/ k \in DOMAIN entries' /\ h[k] = k
               \/ \E i \in 1 .. k : i \in DOMAIN entries /\ entries[i].flow = f
    <3>1. (k <= Len(entries') /\ h[k] = k) \/ \E i \in 1 .. k : entries[i] \notin set
      BY <1>5, <1>6 DEF Picks
    <3>2. \A i \in 1 .. k : i \in DOMAIN entries
      BY <1>6
    <3>3. k <= Len(entries') => k \in DOMAIN entries'
      BY <1>6, <1>9
    <3>4. QED
      BY <1>6, <1>8, <3>1, <3>2, <3>3
  <2>6. QED
    BY <2>1, <2>2, <2>3, <2>4, <2>5
<1> DEFINE L(g) == \E i \in DOMAIN entries' : entries'[i].flow = g
<1>11. \A g : L(g) <=> Listed(g) /\ g # f
  BY <1>10 DEF Listed
<1> HIDE DEF L
<1>12. Order'
  <2>1. \A k \in DOMAIN entries' : IsRegistered(entries'[k].flow)
    BY <1>2, <1>10 DEF Order
  <2>2. \A j, k \in DOMAIN entries' : j < k => Rank(entries'[j].flow) < Rank(entries'[k].flow)
    BY <1>2, <1>10 DEF Order
  <2>3. registered' = registered
    BY <1>1
  <2>4. QED
    BY <1>2, <2>1, <2>2, <2>3 DEF Order, IsRegistered, Rank
<1>13. Once'
  BY <1>1, <1>2, OnceKept
<1>14. Notices'
  <2>1. \A k \in DOMAIN entries' : /\ ~Told(entries'[k].flow, "end")
                                   /\ Told(entries'[k].flow, "emojis") => entries'[k].shown
    BY <1>1, <1>10 DEF VInv, Notices, f
  <2>2. \A g \in Flows : Told(g, "end") => proto[g] \in Ended
    BY DEF VInv, Notices
  <2>3. QED
    BY <1>1, <2>1, <2>2 DEF Notices, Told
<1>15. Pass'
  <2>1. \A i \in DOMAIN q : Listed(q[i].flow) /\ q[i].flow # f
    BY <1>3 DEF VInv, Pass
  <2>2. \A i \in DOMAIN q : L(q[i].flow)
    BY <1>11, <2>1
  <2>3. \A i, j \in DOMAIN q : i # j => q[i].flow # q[j].flow
    <3>1. \A i, j \in DOMAIN q : i # j => i + 1 # j + 1
      BY <1>3
    <3>2. QED
      BY <1>3, <3>1 DEF VInv, Pass
  <2>4. \A i \in DOMAIN q : proto[q[i].flow] \in Ended /\ ~Told(q[i].flow, "end")
    BY <1>1, <1>3 DEF VInv, Pass
  <2>5. QED
    BY <1>1, <2>2, <2>3, <2>4 DEF Pass, Listed, Told, L
<1>16. Picked'
  <2>1. SUFFICES ASSUME reader.pc = "picked" PROVE Picked'
    BY <1>1 DEF Picked
  <2> DEFINE x == reader.idx
             r == reader.flow
  <2>2. /\ x \in Nat \ {0} /\ IsRegistered(r) /\ r \in Flows
        /\ reader.sub \in {"accept", "match", "mismatch", "cancel"}
        /\ Rank(r) \in Nat
    <3>1. IsRegistered(r) /\ Picked
      BY <2>1 DEF VInv, Picked
    <3>2. Rank(r) \in DOMAIN registered /\ registered[Rank(r)] = r
      BY <1>2, <3>1, RankIs
    <3>3. QED
      BY <1>2, <2>1, <3>1, <3>2, HubLists DEF Picked
  <2> HIDE DEF x, r
  <2>3. SUFFICES \/ x \in DOMAIN entries' /\ entries'[x].flow = r
                 \/ /\ x \in DOMAIN entries' => Rank(entries'[x].flow) > Rank(r)
                    /\ \E i \in 1 .. Rank(r) : ~L(registered[i])
    <3>1. reader' = reader /\ registered' = registered
      BY <1>1
    <3>2. QED
      BY <2>2, <2>3, <3>1 DEF Picked, IsRegistered, Rank, Listed, L, x, r
  <2>4. CASE x \in DOMAIN entries /\ entries[x].flow = r
    <3>1. CASE x \in DOMAIN entries' /\ h[x] = x
      BY <1>10, <2>4, <3>1
    <3>2. CASE ~(x \in DOMAIN entries' /\ h[x] = x)
      <4>1. PICK i \in 1 .. x : i \in DOMAIN entries /\ entries[i].flow = f
        BY <1>10, <2>4, <3>2
      <4>2. i <= x
        BY <2>2, <4>1
      <4>3. Rank(f) \in Nat /\ 1 <= Rank(f) /\ Rank(f) <= Rank(r) /\ registered[Rank(f)] = f
        BY <1>2, <2>4, <4>1, <4>2, ListedRanks
      <4>4. ~L(registered[Rank(f)]) /\ Rank(f) \in 1 .. Rank(r)
        BY <1>11, <2>2, <4>3
      <4>5. x \in DOMAIN entries' => Rank(entries'[x].flow) > Rank(r)
        <5>1. SUFFICES ASSUME x \in DOMAIN entries' PROVE Rank(entries'[x].flow) > Rank(r)
          OBVIOUS
        <5>2. x <= h[x] /\ h[x] # x /\ h[x] \in DOMAIN entries /\ entries'[x] = entries[h[x]]
          BY <1>10, <3>2, <5>1
        <5>3. x < h[x]
          BY <1>6, <2>2, <5>2
        <5>4. Rank(entries[x].flow) < Rank(entries[h[x]].flow)
          BY <1>2, <2>4, <5>2, <5>3 DEF Order
        <5>5. Rank(entries[h[x]].flow) \in Nat
          BY <1>2, <5>2, ListedRanks
        <5>6. QED
          BY <2>2, <2>4, <5>2, <5>4, <5>5
      <4>6. QED
        BY <4>4, <4>5
    <3>3. QED
      BY <3>1, <3>2
  <2>5. CASE /\ x \in DOMAIN entries => Rank(entries[x].flow) > Rank(r)
             /\ \E i \in 1 .. Rank(r) : ~Listed(registered[i])
    <3>1. \E i \in 1 .. Rank(r) : ~L(registered[i])
      BY <1>11, <2>5
    <3>2. ASSUME x \in DOMAIN entries' PROVE Rank(entries'[x].flow) > Rank(r)
      <4>1. x \in DOMAIN entries /\ x <= h[x] /\ h[x] \in DOMAIN entries /\ entries'[x] = entries[h[x]]
        BY <1>6, <1>9, <1>10, <2>2, <3>2
      <4>2. /\ Rank(entries[x].flow) <= Rank(entries[h[x]].flow)
            /\ Rank(entries[x].flow) \in Nat /\ Rank(entries[h[x]].flow) \in Nat
        BY <1>2, <4>1, ListedRanks
      <4>3. QED
        BY <2>2, <2>5, <4>1, <4>2
    <3>3. QED
      BY <3>1, <3>2
  <2>6. QED
    BY <2>1, <2>4, <2>5 DEF VInv, Picked, x, r
<1>17. Shape' /\ ToldOnce'
  BY <1>1, <1>3, <1>9 DEF VInv, Shape, ToldOnce
<1>18. QED
  BY <1>12, <1>13, <1>14, <1>15, <1>16, <1>17 DEF VInv

-----------------------------------------------------------------------------
\* The read loop.

LEMMA StartFlowKeeps ==
    ASSUME VInv, NEW f \in Flows, StartFlow(f)
    PROVE  VInv'
<1>1. /\ f \in Mine /\ proto[f] = "none" /\ Becomes(f, "requested")
      /\ reader'.pc = "register" /\ reader'.flow = f /\ DOMAIN reader' = {"pc", "flow", "idx", "sub"}
      /\ UNCHANGED <<inbox, driver, entries, told, registered>>
  BY DEF StartFlow, VInv, Shape
<1>2. Onward /\ proto'[f] # "none"
  <2>1. proto[f] \notin Ended
    BY <1>1 DEF Ended
  <2>2. QED
    BY <1>1, <2>1, BecomesOnward DEF VInv
<1>3. Order' /\ Notices' /\ Pass'
  BY <1>1, <1>2, HubKept
<1>4. Shape' /\ ToldOnce' /\ Picked'
  BY <1>1, <1>2 DEF VInv, Shape, ToldOnce, Picked, Onward
<1>5. Once'
  <2>1. inbox \subseteq Flows
    BY DEF VInv, Shape
  <2>2. QED
    BY <1>1, <1>2, <2>1 DEF VInv, Once, IsRegistered, Onward
<1>6. QED
  BY <1>3, <1>4, <1>5 DEF VInv

LEMMA PickKeeps ==
    ASSUME VInv, NEW sub \in {"accept", "match", "mismatch", "cancel"}, Pick(sub)
    PROVE  VInv'
<1>1. PICK i \in DOMAIN entries :
        reader' = [pc |-> "picked", flow |-> entries[i].flow, idx |-> i, sub |-> sub]
  BY DEF Pick
<1>2. UNCHANGED <<proto, inbox, driver, entries, told, registered>>
  BY DEF Pick
<1>3. Onward /\ Shape /\ Order
  BY <1>2, SameOnward DEF VInv
<1>4. Order' /\ Notices' /\ Pass'
  BY <1>2, <1>3, HubKept
<1>5. /\ reader'.pc = "picked" /\ reader'.flow = entries[i].flow /\ reader'.idx = i /\ reader'.sub = sub
      /\ DOMAIN reader' = {"pc", "flow", "idx", "sub"}
  BY <1>1
<1>6. Shape' /\ ToldOnce' /\ Once'
  BY <1>2, <1>5 DEF VInv, Shape, ToldOnce, Once, IsRegistered
<1>7. Picked'
  <2>1. i \in Nat \ {0} /\ IsRegistered(entries[i].flow)
    BY <1>3, HubLists DEF Order
  <2>2. QED
    BY <1>2, <1>5, <2>1 DEF Picked, IsRegistered
<1>8. QED
  BY <1>4, <1>6, <1>7 DEF VInv

\* A command changes the state of its target only: the picked flow, or the one
\* that has its index by now.
LEMMA ActOn ==
    ASSUME VInv, Act
    PROVE  \/ UNCHANGED proto
           \/ /\ Target \in Flows /\ proto[Target] \notin Ended
              /\ \E state : state # "none" /\ Becomes(Target, state)
              /\ \/ Target = reader.flow
                 \/ reader.idx \in DOMAIN entries /\ entries[reader.idx].flow = Target
<1>1. SUFFICES ASSUME ~UNCHANGED proto
               PROVE  /\ Target \in Flows /\ proto[Target] \notin Ended
                      /\ \E state : state # "none" /\ Becomes(Target, state)
                      /\ \/ Target = reader.flow
                         \/ reader.idx \in DOMAIN entries /\ entries[reader.idx].flow = Target
  OBVIOUS
<1>2. /\ reader.pc = "picked" /\ Target # NoFlow /\ proto[Target] \in Result(reader.sub).from
      /\ Becomes(Target, Result(reader.sub).to)
  BY <1>1 DEF Act
<1>3. Shape /\ IsRegistered(reader.flow) /\ reader.sub \in {"accept", "match", "mismatch", "cancel"}
  BY <1>2 DEF VInv, Picked
<1>4. \A s \in Result(reader.sub).from : s \notin Ended
  BY <1>3 DEF Result, Ended, Active, WithSas
<1>5. Result(reader.sub).to # "none"
  BY <1>3 DEF Result
<1>6. \/ Target = reader.flow
      \/ reader.idx \in DOMAIN entries /\ entries[reader.idx].flow = Target
  BY <1>2 DEF Target, SasAt
<1>7. Target \in Flows
  BY <1>3, <1>6, HubLists DEF IsRegistered
<1>8. QED
  BY <1>2, <1>4, <1>5, <1>6, <1>7

LEMMA ActKeeps ==
    ASSUME VInv, Act
    PROVE  VInv'
<1>1. reader' = ReaderIdle /\ UNCHANGED <<inbox, driver, entries, told, registered>> /\ Shape
  BY DEF Act, VInv
<1>2. Onward
  <2>1. CASE UNCHANGED proto
    BY <1>1, <2>1, SameOnward
  <2>2. CASE /\ Target \in Flows /\ proto[Target] \notin Ended
             /\ \E state : state # "none" /\ Becomes(Target, state)
    BY <1>1, <2>2, BecomesOnward
  <2>3. QED
    BY <2>1, <2>2, ActOn
<1>3. Order' /\ Notices' /\ Pass'
  BY <1>1, <1>2, HubKept
<1>4. reader'.pc = "idle" /\ DOMAIN reader' = {"pc", "flow", "idx", "sub"}
  BY <1>1 DEF ReaderIdle
<1>5. Shape' /\ ToldOnce' /\ Picked'
  BY <1>1, <1>2, <1>4 DEF VInv, Shape, ToldOnce, Picked, Onward
<1>6. Once'
  <2>1. inbox \subseteq Flows
    BY DEF VInv, Shape
  <2>2. QED
    BY <1>1, <1>2, <1>4, <2>1 DEF VInv, Once, IsRegistered, Onward
<1>7. QED
  BY <1>3, <1>5, <1>6 DEF VInv

-----------------------------------------------------------------------------
LEMMA StutterKeeps ==
    ASSUME VInv, UNCHANGED vars
    PROVE  VInv'
<1>1. UNCHANGED <<proto, inbox, reader, driver, entries, told, registered>>
  BY DEF vars, tasks
<1>2. Onward
  BY <1>1, SameOnward DEF VInv
<1>3. Order' /\ Notices' /\ Pass' /\ Picked'
  BY <1>1, <1>2, HubKept
<1>4. Once'
  BY <1>1, <1>2, OnceKept
<1>5. Shape' /\ ToldOnce'
  BY <1>1 DEF VInv, Shape, ToldOnce
<1>6. QED
  BY <1>3, <1>4, <1>5 DEF VInv

LEMMA StepKeeps == VInv /\ [Next]_vars => VInv'
<1> SUFFICES ASSUME VInv, [Next]_vars PROVE VInv'
  OBVIOUS
<1>1. CASE Peer \/ Keys
  BY <1>1, PeerKeeps
<1>2. CASE Handler
  BY <1>2, HandlerKeeps
<1>3. CASE Driver
  BY <1>3, SnapshotKeeps, SasKeeps, MarkKeeps, ToldKeeps, FinishedKeeps, ForgetKeeps DEF Driver
<1>4. CASE Reader
  <2>1. CASE Pending
    BY <2>1, ReaderRegistersKeeps, ActKeeps DEF Pending
  <2>2. CASE \E f \in Flows : StartFlow(f)
    BY <2>2, StartFlowKeeps
  <2>3. CASE \E sub \in {"accept", "match", "mismatch", "cancel"} : Pick(sub)
    BY <2>3, PickKeeps
  <2>4. QED
    BY <1>4, <2>1, <2>2, <2>3 DEF Reader
<1>5. CASE UNCHANGED vars
  BY <1>5, StutterKeeps
<1>6. QED
  BY <1>1, <1>2, <1>3, <1>4, <1>5 DEF Next

\* The list is in the order of registration, a snapshot of it lags by marks
\* and by flows that came later, never by one that is gone, and an index that
\* was picked finds the same flow or a later one (verification.rs 72-118,
\* 162-271, 287-296).
THEOREM HubInvariance == Spec => []VInv
<1>1. QED
  BY InitVInv, StepKeeps, PTL DEF Spec

\* Whatever the driver's snapshot says, the emojis of a flow are offered once,
\* its end once, and nothing after its end (verification.rs 162-271).
THEOREM EachToldOnce == Spec => []ToldOnce
<1>1. VInv => ToldOnce
  BY DEF VInv
<1>2. QED
  BY <1>1, HubInvariance, PTL

\* A command that looks its index up a second time never acts on a flow
\* registered before the one it picked, and on a later one only when that flow
\* or one before it has left the list (verification.rs 287-296, 367-405).
THEOREM ActsOnFlowOrLater == Spec => ActsOnPickedOrLater
<1> DEFINE OrLater ==
      reader.pc = "picked" /\ reader'.pc = "idle" =>
        \A g \in Flows : proto'[g] # proto[g] /\ g # reader.flow =>
            /\ Rank(g) > Rank(reader.flow)
            /\ \E i \in 1 .. Rank(reader.flow) : ~Listed(registered[i])
<1>1. ASSUME VInv, [Next]_vars PROVE [OrLater]_vars
  <2>1. SUFFICES ASSUME Next, reader.pc = "picked", reader'.pc = "idle" PROVE OrLater
    BY <1>1
  <2>2. Act
    <3>1. reader' # reader
      BY <2>1
    <3>2. ~(Peer \/ Keys \/ Handler \/ Driver)
      BY <3>1 DEF Peer, Keys, PeerRequests, PeerReadies, PeerStarts, PeerKeys, PeerDone, Cancels,
                  TakenOver, Moves, Handler, Driver, Snapshot, StartSas, FindSas, SetSas, ShowEmojis,
                  SetEmojisShown, Skip, Finished, EndNotice, Forget, tasks
    <3>3. QED
      BY <2>1, <3>2 DEF Next, Reader, Pending, ReaderRegisters, StartFlow, Pick
  <2>3. SUFFICES ASSUME NEW g \in Flows, proto'[g] # proto[g], g # reader.flow
                 PROVE  /\ Rank(g) > Rank(reader.flow)
                        /\ \E i \in 1 .. Rank(reader.flow) : ~Listed(registered[i])
    OBVIOUS
  <2>4. PICK state : Becomes(Target, state)
    BY <1>1, <2>2, <2>3, ActOn
  <2>5. g = Target
    BY <1>1, <2>3, <2>4 DEF Becomes, VInv, Shape
  <2>6. reader.idx \in DOMAIN entries /\ entries[reader.idx].flow = g
    BY <1>1, <2>2, <2>3, <2>5, ActOn
  <2>7. QED
    BY <1>1, <2>1, <2>3, <2>6 DEF VInv, Picked
<1>2. QED
  BY <1>1, HubInvariance, PTL DEF Spec, ActsOnPickedOrLater

-----------------------------------------------------------------------------
\* Positions, upwards and downwards.

LEMMA UpIs ==
    ASSUME NEW a \in Nat \ {0}, NEW b \in Nat, a <= b + 1
    PROVE  /\ Up(a, b) \in Seq(a .. b) /\ Up(a, b) \in Seq(Nat)
           /\ a = b + 1 => Up(a, b) = <<>>
           /\ Up(a, b + 1) = Append(Up(a, b), b + 1)
<1>1. b + 1 - a \in Nat
  OBVIOUS
<1>2. \A i \in 1 .. b + 1 - a : a + i - 1 \in a .. b /\ a + i - 1 \in Nat
  OBVIOUS
<1>3. Up(a, b) \in Seq(a .. b) /\ Up(a, b) \in Seq(Nat)
  BY <1>1, <1>2, SeqDef DEF Up
<1>4. a = b + 1 => Up(a, b) = <<>>
  BY DEF Up
<1>5. Up(a, b + 1) = Append(Up(a, b), b + 1)
  <2>1. /\ Len(Up(a, b)) = b + 1 - a /\ Up(a, b) \in Seq(Nat)
        /\ \A i \in 1 .. b + 1 - a : Up(a, b)[i] = a + i - 1
    BY <1>1, <1>3 DEF Up
  <2>2. /\ Append(Up(a, b), b + 1) \in Seq(Nat) /\ Len(Append(Up(a, b), b + 1)) = b + 2 - a
        /\ Append(Up(a, b), b + 1)[b + 2 - a] = b + 1
        /\ \A i \in 1 .. b + 1 - a : Append(Up(a, b), b + 1)[i] = a + i - 1
    BY <1>1, <2>1, AppendProperties
  <2>3. /\ Len(Up(a, b + 1)) = b + 2 - a /\ Up(a, b + 1) \in Seq(Nat)
        /\ \A i \in 1 .. b + 2 - a : Up(a, b + 1)[i] = a + i - 1
    <3>1. (b + 1) + 1 - a = b + 2 - a /\ b + 2 - a \in Nat /\ \A i \in 1 .. b + 2 - a : a + i - 1 \in Nat
      BY <1>1
    <3>2. QED
      BY <3>1, SeqDef DEF Up
  <2>4. \A i \in 1 .. b + 2 - a : i \in 1 .. b + 1 - a \/ (i = b + 2 - a /\ a + i - 1 = b + 1)
    BY <1>1
  <2>5. \A i \in 1 .. b + 2 - a : Up(a, b + 1)[i] = Append(Up(a, b), b + 1)[i]
    BY <2>2, <2>3, <2>4
  <2>6. QED
    BY <2>2, <2>3, <2>5, SeqEqual
<1>6. QED
  BY <1>3, <1>4, <1>5

LEMMA DownIs ==
    ASSUME NEW a \in Nat \ {0}, NEW b \in Nat, a <= b + 1
    PROVE  /\ Down(b, a) \in Seq(a .. b) /\ Down(b, a) \in Seq(Nat)
           /\ a = b + 1 => Down(b, a) = <<>>
           /\ a # 1 => Down(b, a - 1) = Append(Down(b, a), a - 1)
<1>1. b + 1 - a \in Nat
  OBVIOUS
<1>2. \A i \in 1 .. b + 1 - a : b + 1 - i \in a .. b /\ b + 1 - i \in Nat
  OBVIOUS
<1>3. Down(b, a) \in Seq(a .. b) /\ Down(b, a) \in Seq(Nat)
  BY <1>1, <1>2, SeqDef DEF Down
<1>4. a = b + 1 => Down(b, a) = <<>>
  BY DEF Down
<1>5. ASSUME a # 1 PROVE Down(b, a - 1) = Append(Down(b, a), a - 1)
  <2>1. /\ Len(Down(b, a)) = b + 1 - a /\ Down(b, a) \in Seq(Nat)
        /\ \A i \in 1 .. b + 1 - a : Down(b, a)[i] = b + 1 - i
    BY <1>1, <1>3 DEF Down
  <2>2. a - 1 \in Nat
    OBVIOUS
  <2>3. /\ Append(Down(b, a), a - 1) \in Seq(Nat) /\ Len(Append(Down(b, a), a - 1)) = b + 2 - a
        /\ Append(Down(b, a), a - 1)[b + 2 - a] = a - 1
        /\ \A i \in 1 .. b + 1 - a : Append(Down(b, a), a - 1)[i] = b + 1 - i
    <3> DEFINE d == Down(b, a)
               n == b + 1 - a
               x == a - 1
    <3>1. d \in Seq(Nat) /\ Len(d) = n /\ n \in Nat /\ x \in Nat /\ b + 2 - a = n + 1
      BY <1>1, <2>1, <2>2
    <3>2. \A i \in 1 .. n : d[i] = b + 1 - i
      BY <2>1
    <3> HIDE DEF d, n, x
    <3>3. /\ Append(d, x) \in Seq(Nat) /\ Len(Append(d, x)) = n + 1
          /\ Append(d, x)[n + 1] = x /\ \A i \in 1 .. n : Append(d, x)[i] = d[i]
      BY <3>1, AppendProperties
    <3>4. QED
      BY <3>1, <3>2, <3>3 DEF d, n, x
  <2>4. /\ Len(Down(b, a - 1)) = b + 2 - a /\ Down(b, a - 1) \in Seq(Nat)
        /\ \A i \in 1 .. b + 2 - a : Down(b, a - 1)[i] = b + 1 - i
    <3>1. b + 1 - (a - 1) = b + 2 - a /\ b + 2 - a \in Nat /\ \A i \in 1 .. b + 2 - a : b + 1 - i \in Nat
      BY <1>1, <1>5
    <3>2. QED
      BY <3>1, SeqDef DEF Down
  <2>5. \A i \in 1 .. b + 2 - a : i \in 1 .. b + 1 - a \/ (i = b + 2 - a /\ b + 1 - i = a - 1)
    BY <1>1
  <2>6. \A i \in 1 .. b + 2 - a : Down(b, a - 1)[i] = Append(Down(b, a), a - 1)[i]
    BY <2>3, <2>4, <2>5
  <2>7. QED
    BY <2>3, <2>4, <2>6, SeqEqual
<1>6. QED
  BY <1>3, <1>4, <1>5

LEMMA StepBehind ==
    ASSUME NEW s \in Seq(Nat), NEW t \in Seq(Nat), NEW x \in Nat, NEW set
    PROVE  s \o Step(t, x, set) = Step(s \o t, x, set)
<1>1. s \o t \in Seq(Nat) /\ <<x>> \in Seq(Nat)
  BY ConcatProperties
<1>2. Append(t, x) = t \o <<x>> /\ Append(s \o t, x) = (s \o t) \o <<x>>
  BY <1>1, AppendIsConcat
<1>3. (s \o t) \o <<x>> = s \o (t \o <<x>>)
  BY <1>1, ConcatAssociative
<1>4. QED
  BY <1>2, <1>3 DEF Step

\* What is left of two pages, one behind the other, is left of both as one.
JoinUp(a, b, c, set) ==
    Among(Up(a, b), set) \o Among(Up(b + 1, c), set) = Among(Up(a, c), set)

JoinDown(a, b, c, set) ==
    Among(Down(c, b + 1), set) \o Among(Down(b, a), set) = Among(Down(c, a), set)

LEMMA UpJoins ==
    ASSUME NEW a \in Nat \ {0}, NEW b \in Nat, NEW c \in Nat, a <= b + 1, b <= c, NEW set
    PROVE  JoinUp(a, b, c, set)
<1> DEFINE A(i, j) == Among(Up(i, j), set)
           T == {n \in Nat : A(a, b) \o A(b + 1, b + n) = A(a, b + n)}
<1>1. \A i \in Nat \ {0}, j \in Nat : i <= j + 1 =>
         A(i, j) \in Seq(Nat) /\ A(i, j + 1) = Step(A(i, j), j + 1, set)
  <2>1. SUFFICES ASSUME NEW i \in Nat \ {0}, NEW j \in Nat, i <= j + 1
                 PROVE  A(i, j) \in Seq(Nat) /\ A(i, j + 1) = Step(A(i, j), j + 1, set)
    OBVIOUS
  <2>2. Up(i, j) \in Seq(Nat) /\ Up(i, j + 1) = Append(Up(i, j), j + 1)
    BY <2>1, UpIs
  <2>3. A(i, j) \in Seq(Nat)
    BY <2>2, AmongSeq
  <2>4. A(i, j + 1) = Step(A(i, j), j + 1, set)
    <3>1. j + 1 \in Nat
      OBVIOUS
    <3>2. QED
      BY <2>2, <3>1, AmongAppend
  <2>5. QED
    BY <2>3, <2>4
<1>2. b + 1 \in Nat \ {0} /\ A(b + 1, b) = <<>>
  <2>1. b + 1 \in Nat \ {0} /\ b + 1 <= b + 1
    OBVIOUS
  <2>2. Up(b + 1, b) = <<>>
    BY <2>1, UpIs
  <2>3. QED
    BY <2>1, <2>2, AmongNone
<1> HIDE DEF A
<1>3. 0 \in T
  <2>1. A(a, b) \o <<>> = A(a, b)
    BY <1>1, ConcatEmptySeq
  <2>2. b + 0 = b
    OBVIOUS
  <2>3. QED
    BY <1>2, <2>1, <2>2
<1>4. ASSUME NEW n \in Nat, n \in T PROVE n + 1 \in T
  <2> DEFINE m == b + n
  <2>1. SUFFICES A(a, b) \o A(b + 1, b + (n + 1)) = A(a, b + (n + 1))
    OBVIOUS
  <2>2. m \in Nat /\ m + 1 \in Nat /\ a <= m + 1 /\ b + 1 <= m + 1 /\ b + (n + 1) = m + 1
    OBVIOUS
  <2>3. A(a, b) \o A(b + 1, m) = A(a, m)
    BY <1>4
  <2> HIDE DEF m, T
  <2>4. /\ A(a, b) \in Seq(Nat) /\ A(b + 1, m) \in Seq(Nat)
        /\ A(b + 1, m + 1) = Step(A(b + 1, m), m + 1, set)
        /\ A(a, m + 1) = Step(A(a, m), m + 1, set)
    BY <1>1, <1>2, <2>2
  <2>5. A(a, b) \o Step(A(b + 1, m), m + 1, set) = Step(A(a, b) \o A(b + 1, m), m + 1, set)
    <3> DEFINE s == A(a, b)
               t == A(b + 1, m)
               x == m + 1
    <3>1. s \in Seq(Nat) /\ t \in Seq(Nat) /\ x \in Nat
      BY <2>2, <2>4
    <3> HIDE DEF s, t, x
    <3>2. s \o Step(t, x, set) = Step(s \o t, x, set)
      BY <3>1, StepBehind
    <3>3. QED
      BY <3>2 DEF s, t, x
  <2>6. A(a, b) \o A(b + 1, m + 1) = A(a, m + 1)
    BY <2>3, <2>4, <2>5
  <2>7. QED
    BY <2>2, <2>6
<1>5. c - b \in Nat /\ b + (c - b) = c
  OBVIOUS
<1>6. c - b \in T
  <2> HIDE DEF T
  <2>1. QED
    BY <1>3, <1>4, <1>5, Inductive
<1>7. A(a, b) \o A(b + 1, c) = A(a, c)
  BY <1>5, <1>6
<1>8. QED
  BY <1>7 DEF A, JoinUp

LEMMA DownJoins ==
    ASSUME NEW a \in Nat \ {0}, NEW b \in Nat, NEW c \in Nat, a <= b + 1, b <= c, NEW set
    PROVE  JoinDown(a, b, c, set)
<1> DEFINE A(i, j) == Among(Down(i, j), set)
           T == {n \in Nat : n <= b => A(c, b + 1) \o A(b, b + 1 - n) = A(c, b + 1 - n)}
<1>1. \A i \in Nat \ {0}, j \in Nat : i <= j + 1 =>
         A(j, i) \in Seq(Nat) /\ (i # 1 => A(j, i - 1) = Step(A(j, i), i - 1, set))
  <2>1. SUFFICES ASSUME NEW i \in Nat \ {0}, NEW j \in Nat, i <= j + 1
                 PROVE  A(j, i) \in Seq(Nat) /\ (i # 1 => A(j, i - 1) = Step(A(j, i), i - 1, set))
    OBVIOUS
  <2>2. i - 1 \in Nat /\ Down(j, i) \in Seq(Nat) /\ (i # 1 => Down(j, i - 1) = Append(Down(j, i), i - 1))
    <3>1. Down(j, i) \in Seq(Nat) /\ (i # 1 => Down(j, i - 1) = Append(Down(j, i), i - 1))
      BY <2>1, DownIs
    <3>2. i - 1 \in Nat
      OBVIOUS
    <3>3. QED
      BY <3>1, <3>2
  <2>3. A(j, i) \in Seq(Nat)
    BY <2>2, AmongSeq
  <2>4. i # 1 => A(j, i - 1) = Step(A(j, i), i - 1, set)
    BY <2>2, AmongAppend
  <2>5. QED
    BY <2>3, <2>4
<1>2. b + 1 \in Nat \ {0} /\ A(b, b + 1) = <<>>
  <2>1. b + 1 \in Nat \ {0} /\ b + 1 <= b + 1
    OBVIOUS
  <2>2. Down(b, b + 1) = <<>>
    BY <2>1, DownIs
  <2>3. QED
    BY <2>1, <2>2, AmongNone
<1> HIDE DEF A
<1>3. 0 \in T
  <2>1. A(c, b + 1) \o <<>> = A(c, b + 1)
    BY <1>1, <1>2, ConcatEmptySeq
  <2>2. b + 1 - 0 = b + 1
    OBVIOUS
  <2>3. QED
    BY <1>2, <2>1, <2>2
<1>4. ASSUME NEW n \in Nat, n \in T PROVE n + 1 \in T
  <2> DEFINE m == b + 1 - n
  <2>1. SUFFICES ASSUME n + 1 <= b PROVE A(c, b + 1) \o A(b, b + 1 - (n + 1)) = A(c, b + 1 - (n + 1))
    OBVIOUS
  <2>2. m \in Nat \ {0} /\ m # 1 /\ m - 1 \in Nat /\ m <= b + 1 /\ m <= c + 1 /\ b + 1 - (n + 1) = m - 1
    BY <2>1
  <2>3. A(c, b + 1) \o A(b, m) = A(c, m)
    BY <1>4, <2>1
  <2> HIDE DEF m, T
  <2>4. /\ A(c, b + 1) \in Seq(Nat) /\ A(b, m) \in Seq(Nat)
        /\ A(b, m - 1) = Step(A(b, m), m - 1, set)
        /\ A(c, m - 1) = Step(A(c, m), m - 1, set)
    <3>1. b + 1 <= c + 1
      OBVIOUS
    <3>2. QED
      BY <1>1, <1>2, <2>2, <3>1
  <2>5. A(c, b + 1) \o Step(A(b, m), m - 1, set) = Step(A(c, b + 1) \o A(b, m), m - 1, set)
    <3> DEFINE s == A(c, b + 1)
               t == A(b, m)
               x == m - 1
    <3>1. s \in Seq(Nat) /\ t \in Seq(Nat) /\ x \in Nat
      BY <2>2, <2>4
    <3> HIDE DEF s, t, x
    <3>2. s \o Step(t, x, set) = Step(s \o t, x, set)
      BY <3>1, StepBehind
    <3>3. QED
      BY <3>2 DEF s, t, x
  <2>6. A(c, b + 1) \o A(b, m - 1) = A(c, m - 1)
    BY <2>3, <2>4, <2>5
  <2>7. QED
    BY <2>2, <2>6
<1>5. b + 1 - a \in Nat /\ b + 1 - a <= b /\ b + 1 - (b + 1 - a) = a
  OBVIOUS
<1>6. b + 1 - a \in T
  <2> HIDE DEF T
  <2>1. QED
    BY <1>3, <1>4, <1>5, Inductive
<1>7. A(c, b + 1) \o A(b, a) = A(c, a)
  BY <1>5, <1>6
<1>8. QED
  BY <1>7 DEF A, JoinDown

LEMMA ReverseIs ==
    ASSUME NEW U, NEW s \in Seq(U)
    PROVE  /\ Reverse(s) \in Seq(U) /\ Len(Reverse(s)) = Len(s)
           /\ \A i \in 1 .. Len(s) : Reverse(s)[i] = s[Len(s) - i + 1]
<1>1. Len(s) \in Nat /\ \A i \in 1 .. Len(s) : s[i] \in U /\ Len(s) - i + 1 \in 1 .. Len(s)
  OBVIOUS
<1>2. QED
  BY <1>1, SeqDef DEF Reverse

\* What is left from the newest on, turned round, is left from the oldest on.
LEMMA ReverseAppend ==
    ASSUME NEW s \in Seq(Nat), NEW x \in Nat
    PROVE  Reverse(Append(s, x)) = <<x>> \o Reverse(s)
<1> DEFINE n == Len(s)
<1>1. n \in Nat /\ Len(Append(s, x)) = n + 1 /\ Append(s, x)[n + 1] = x
      /\ \A i \in 1 .. n : Append(s, x)[i] = s[i] /\ s[i] \in Nat
  BY AppendProperties
<1> DEFINE t == Append(s, x)
<1>2. /\ Reverse(s) \in Seq(Nat) /\ Len(Reverse(s)) = n
      /\ \A i \in 1 .. n : Reverse(s)[i] = s[n - i + 1]
  BY ReverseIs
<1>3. t \in Seq(Nat) /\ Len(t) = n + 1
  BY AppendProperties
<1> HIDE DEF n
<1>4. /\ Reverse(t) \in Seq(Nat) /\ Len(Reverse(t)) = n + 1
      /\ \A i \in 1 .. n + 1 : Reverse(t)[i] = t[(n + 1) - i + 1]
  <2> HIDE DEF t
  <2>1. /\ Reverse(t) \in Seq(Nat) /\ Len(Reverse(t)) = Len(t)
        /\ \A i \in 1 .. Len(t) : Reverse(t)[i] = t[Len(t) - i + 1]
    BY <1>3, ReverseIs
  <2>2. n + 1 \in Nat /\ Len(t) = n + 1
    BY <1>1, <1>3
  <2>3. \A i \in 1 .. n + 1 : Reverse(t)[i] = t[(n + 1) - i + 1]
    BY <2>1, <2>2
  <2>4. QED
    BY <2>1, <2>2, <2>3
<1>5. /\ <<x>> \o Reverse(s) \in Seq(Nat) /\ Len(<<x>> \o Reverse(s)) = n + 1
      /\ (<<x>> \o Reverse(s))[1] = x
      /\ \A i \in 2 .. n + 1 : (<<x>> \o Reverse(s))[i] = Reverse(s)[i - 1]
  <2>1. <<x>> \in Seq(Nat) /\ Len(<<x>>) = 1 /\ <<x>>[1] = x
    OBVIOUS
  <2> DEFINE u == <<x>>
  <2> HIDE DEF u
  <2>2. u \in Seq(Nat) /\ Len(u) = 1 /\ u[1] = x
    BY <2>1 DEF u
  <2> DEFINE r == Reverse(s)
  <2>3. r \in Seq(Nat) /\ Len(r) = n
    BY <1>2
  <2> HIDE DEF r
  <2>4. /\ u \o r \in Seq(Nat) /\ Len(u \o r) = Len(u) + Len(r)
        /\ \A i \in 1 .. Len(u) + Len(r) : (u \o r)[i] = IF i <= Len(u) THEN u[i] ELSE r[i - Len(u)]
    BY <2>2, <2>3, ConcatProperties
  <2>5. /\ u \o Reverse(s) \in Seq(Nat) /\ Len(u \o Reverse(s)) = 1 + n
        /\ \A i \in 1 .. 1 + n : (u \o Reverse(s))[i] = IF i <= 1 THEN u[i] ELSE Reverse(s)[i - 1]
    BY <2>2, <2>3, <2>4 DEF r
  <2>6. 1 \in 1 .. 1 + n /\ 1 + n = n + 1 /\ \A i \in 2 .. n + 1 : i \in 1 .. 1 + n /\ ~(i <= 1)
    BY <1>1
  <2>7. QED
    BY <2>2, <2>5, <2>6 DEF u
<1>6. \A i \in 1 .. n + 1 : Reverse(t)[i] = (<<x>> \o Reverse(s))[i]
  <2>1. t[(n + 1) - 1 + 1] = x
    BY <1>1
  <2>2. ASSUME NEW i \in 2 .. n + 1 PROVE t[(n + 1) - i + 1] = Reverse(s)[i - 1]
    <3>1. (n + 1) - i + 1 \in 1 .. n /\ i - 1 \in 1 .. n /\ n - (i - 1) + 1 = (n + 1) - i + 1
      BY <1>1
    <3>2. QED
      BY <1>1, <1>2, <3>1
  <2>3. \A i \in 1 .. n + 1 : i = 1 \/ i \in 2 .. n + 1
    BY <1>1
  <2>4. 1 \in 1 .. n + 1 /\ 2 .. n + 1 \subseteq 1 .. n + 1
    BY <1>1
  <2> HIDE DEF t
  <2>5. QED
    BY <1>4, <1>5, <2>1, <2>2, <2>3, <2>4
<1>7. QED
  BY <1>4, <1>5, <1>6, SeqEqual

LEMMA UpFirst ==
    ASSUME NEW m \in Nat, m # 0, NEW b \in Nat, m <= b, NEW set
    PROVE  Step(<<>>, m, set) \o Among(Up(m + 1, b), set) = Among(Up(m, b), set)
<1>1. m \in Nat \ {0} /\ m <= m + 1 /\ m - 1 \in Nat /\ m = (m - 1) + 1 /\ m <= (m - 1) + 1
  OBVIOUS
<1>2. JoinUp(m, m, b, set)
  BY <1>1, UpJoins
<1>3. Up(m, m - 1) = <<>>
  BY <1>1, UpIs
<1>4. Up(m, (m - 1) + 1) = Append(Up(m, m - 1), (m - 1) + 1)
  BY <1>1, UpIs
<1>5. Up(m, m) = Append(<<>>, m)
  BY <1>1, <1>3, <1>4
<1> DEFINE none == <<>>
<1>6. none \in Seq(Nat) /\ Among(none, set) = none
  BY AmongNone
<1> HIDE DEF none
<1>7. Among(Append(none, m), set) = Step(Among(none, set), m, set)
  BY <1>6, AmongAppend
<1>8. Among(Up(m, m), set) = Step(<<>>, m, set)
  BY <1>5, <1>6, <1>7 DEF none
<1>9. QED
  BY <1>2, <1>8 DEF JoinUp

LEMMA Mirror ==
    ASSUME NEW a \in Nat \ {0}, NEW b \in Nat, a <= b + 1, NEW set
    PROVE  Reverse(Among(Down(b, a), set)) = Among(Up(a, b), set)
<1> DEFINE A(i) == Among(Up(i, b), set)
           B(i) == Among(Down(b, i), set)
           T == {n \in Nat : n <= b => Reverse(B(b + 1 - n)) = A(b + 1 - n)}
<1>1. 0 \in T
  <2>1. b + 1 - 0 = b + 1 /\ b + 1 \in Nat \ {0} /\ b + 1 <= b + 1
    OBVIOUS
  <2>2. Up(b + 1, b) = <<>> /\ Down(b, b + 1) = <<>>
    BY <2>1, UpIs, DownIs
  <2>3. A(b + 1) = <<>> /\ B(b + 1) = <<>>
    BY <2>2, AmongNone
  <2>4. Reverse(<<>>) = <<>>
    BY DEF Reverse
  <2> HIDE DEF A, B
  <2>5. QED
    BY <2>1, <2>3, <2>4
<1>2. ASSUME NEW n \in Nat, n \in T PROVE n + 1 \in T
  <2> DEFINE m == b - n
  <2>1. SUFFICES ASSUME n + 1 <= b PROVE Reverse(B(b + 1 - (n + 1))) = A(b + 1 - (n + 1))
    OBVIOUS
  <2>2. /\ m \in Nat /\ m # 0 /\ m + 1 \in Nat \ {0} /\ m <= m + 1 /\ m <= b /\ m + 1 <= b + 1
        /\ b + 1 - (n + 1) = m /\ b + 1 - n = m + 1 /\ (m + 1) - 1 = m /\ m + 1 # 1
    BY <2>1
  <2> HIDE DEF A, B
  <2>3. Reverse(B(m + 1)) = A(m + 1)
    BY <1>2, <2>1, <2>2
  <2> HIDE DEF m, T
  <2>4. Down(b, m + 1) \in Seq(Nat) /\ Down(b, m) = Append(Down(b, m + 1), m)
    BY <2>2, DownIs
  <2>5. B(m) = Step(B(m + 1), m, set) /\ B(m + 1) \in Seq(Nat)
    BY <2>2, <2>4, AmongAppend, AmongSeq DEF B
  <2>6. Reverse(Step(B(m + 1), m, set)) = Step(<<>>, m, set) \o Reverse(B(m + 1))
    <3> DEFINE s == B(m + 1)
    <3>1. s \in Seq(Nat) /\ Reverse(s) \in Seq(Nat)
      BY <2>5, ReverseIs
    <3> HIDE DEF s
    <3>2. Reverse(Append(s, m)) = <<m>> \o Reverse(s) /\ <<>> \o Reverse(s) = Reverse(s)
      BY <2>2, <3>1, ReverseAppend, ConcatEmptySeq
    <3>3. Append(<<>>, m) = <<m>>
      OBVIOUS
    <3>4. Reverse(Step(s, m, set)) = Step(<<>>, m, set) \o Reverse(s)
      BY <3>2, <3>3 DEF Step
    <3>5. QED
      BY <3>4 DEF s
  <2>7. Step(<<>>, m, set) \o A(m + 1) = A(m)
    BY SMTT(30), <2>2, UpFirst DEF A
  <2>8. Reverse(B(m)) = A(m)
    BY <2>3, <2>5, <2>6, <2>7
  <2>9. QED
    BY <2>2, <2>8
<1>3. b + 1 - a \in Nat /\ b + 1 - a <= b /\ b + 1 - (b + 1 - a) = a
  OBVIOUS
<1>4. b + 1 - a \in T
  <2> HIDE DEF T
  <2>1. QED
    BY <1>1, <1>2, <1>3, Inductive
<1>5. QED
  BY <1>3, <1>4

\* The first of a list.
LEMMA TruncateIs ==
    ASSUME NEW s \in Seq(Nat), NEW n \in Nat
    PROVE  /\ Truncate(s, n) \in Seq(Nat) /\ Len(Truncate(s, n)) = Least(Len(s), n)
           /\ \A i \in 1 .. Least(Len(s), n) : Truncate(s, n)[i] = s[i]
           /\ Len(s) <= n => Truncate(s, n) = s
<1> DEFINE m == Least(Len(s), n)
           t == Truncate(s, n)
<1>1. m \in Nat /\ Len(s) \in Nat /\ m <= Len(s) /\ (Len(s) <= n => m = Len(s)) /\ t = SubSeq(s, 1, m)
  BY DEF Least, Truncate
<1>2. \A i \in 1 .. m : s[i] \in Nat
  BY <1>1
<1> HIDE DEF m, t
<1>3. /\ t \in Seq(Nat) /\ Len(t) = (IF 1 <= m THEN m - 1 + 1 ELSE 0)
      /\ \A i \in 1 .. m - 1 + 1 : t[i] = s[1 + i - 1]
  BY <1>1, <1>2, SubSeqProperties
<1>4. Len(t) = m /\ \A i \in 1 .. m : t[i] = s[i]
  <2>1. m - 1 + 1 = m /\ \A i \in 1 .. m : 1 + i - 1 = i
    BY <1>1
  <2>2. QED
    BY <1>1, <1>3, <2>1
<1>5. Len(s) <= n => t = s
  BY <1>1, <1>3, <1>4, SeqEqual
<1>6. QED
  BY <1>3, <1>4, <1>5 DEF m, t

\* What is put behind a list that is long enough does not show.
LEMMA TruncateConcat ==
    ASSUME NEW s \in Seq(Nat), NEW t \in Seq(Nat), NEW n \in Nat, n <= Len(s)
    PROVE  Truncate(s \o t, n) = Truncate(s, n)
<1> DEFINE u == s \o t
<1>1. /\ u \in Seq(Nat) /\ Len(s) \in Nat /\ Len(t) \in Nat /\ Len(u) = Len(s) + Len(t)
      /\ \A i \in 1 .. Len(s) + Len(t) : u[i] = IF i <= Len(s) THEN s[i] ELSE t[i - Len(s)]
  BY ConcatProperties
<1> HIDE DEF u
<1>2. Least(Len(u), n) = n /\ Least(Len(s), n) = n
  BY <1>1 DEF Least
<1>3. \A i \in 1 .. n : u[i] = s[i]
  <2>1. ASSUME NEW i \in 1 .. n PROVE u[i] = s[i]
    <3>1. i \in 1 .. Len(s) + Len(t) /\ i <= Len(s)
      BY <1>1
    <3>2. QED
      BY <1>1, <3>1
  <2>2. QED
    BY <2>1
<1>4. /\ Truncate(u, n) \in Seq(Nat) /\ Len(Truncate(u, n)) = n
      /\ \A i \in 1 .. n : Truncate(u, n)[i] = u[i]
  <2>1. u \in Seq(Nat)
    BY <1>1
  <2>2. /\ Truncate(u, n) \in Seq(Nat) /\ Len(Truncate(u, n)) = Least(Len(u), n)
        /\ \A i \in 1 .. Least(Len(u), n) : Truncate(u, n)[i] = u[i]
    BY ONLY <2>1, n \in Nat, TruncateIs
  <2>3. QED
    BY ONLY <1>2, <2>2
<1>5. /\ Truncate(s, n) \in Seq(Nat) /\ Len(Truncate(s, n)) = n
      /\ \A i \in 1 .. n : Truncate(s, n)[i] = s[i]
  BY <1>2, TruncateIs
<1>6. \A i \in 1 .. n : Truncate(u, n)[i] = Truncate(s, n)[i]
  BY <1>3, <1>4, <1>5
<1>7. QED
  BY <1>4, <1>5, <1>6, SeqEqual DEF u

\* The first, turned round, are the last of the list turned round.
LEMMA LastReversed ==
    ASSUME NEW s \in Seq(Nat), NEW n \in Nat
    PROVE  /\ Reverse(Truncate(s, n)) = LastOf(Reverse(s), n)
           /\ Len(Reverse(Truncate(s, n))) = Least(Len(s), n)
<1> DEFINE l == Len(s)
           m == Least(l, n)
           r == Reverse(s)
           t == Truncate(s, n)
<1>1. m \in Nat /\ l \in Nat /\ m <= l /\ Least(n, l) = m
  BY DEF Least
<1>2. t \in Seq(Nat) /\ Len(t) = m /\ \A i \in 1 .. m : t[i] = s[i]
  BY TruncateIs
<1>3. r \in Seq(Nat) /\ Len(r) = l /\ \A i \in 1 .. l : r[i] = s[l - i + 1]
  BY ReverseIs
<1>4. LastOf(r, n) = SubSeq(r, l + 1 - m, l)
  BY <1>1, <1>3 DEF LastOf
<1> HIDE DEF l, m, r, t
<1>5. /\ Reverse(t) \in Seq(Nat) /\ Len(Reverse(t)) = m
      /\ \A i \in 1 .. m : Reverse(t)[i] = t[m - i + 1]
  <2>1. /\ Reverse(t) \in Seq(Nat) /\ Len(Reverse(t)) = Len(t)
        /\ \A i \in 1 .. Len(t) : Reverse(t)[i] = t[Len(t) - i + 1]
    BY <1>2, ReverseIs
  <2>2. QED
    BY <1>1, <1>2, <2>1
<1> DEFINE a == l + 1 - m
<1>6. a \in Int /\ l \in Int /\ l - a + 1 = m /\ \A i \in a .. l : r[i] \in Nat
  <2>1. a \in Nat /\ a >= 1 /\ l - a + 1 = m
    BY <1>1
  <2>2. \A i \in a .. l : i \in 1 .. l
    BY <1>1, <2>1
  <2>3. QED
    BY <1>1, <1>3, <2>1, <2>2
<1> DEFINE q == SubSeq(r, a, l)
<1>7. /\ q \in Seq(Nat) /\ Len(q) = (IF a <= l THEN l - a + 1 ELSE 0)
      /\ \A i \in 1 .. l - a + 1 : q[i] = r[a + i - 1]
  <2> HIDE DEF a
  <2>1. QED
    BY <1>6, SubSeqProperties
<1> HIDE DEF q
<1>8. q \in Seq(Nat) /\ Len(q) = m /\ \A i \in 1 .. m : q[i] = r[a + i - 1]
  BY <1>1, <1>6, <1>7
<1>9. \A i \in 1 .. m : Reverse(t)[i] = q[i]
  <2>1. ASSUME NEW i \in 1 .. m PROVE Reverse(t)[i] = q[i]
    <3>1. /\ m - i + 1 \in 1 .. m /\ a + i - 1 \in 1 .. l /\ l - (a + i - 1) + 1 = m - i + 1
      BY <1>1
    <3>2. Reverse(t)[i] = s[m - i + 1]
      BY <1>2, <1>5, <3>1
    <3>3. q[i] = s[l - (a + i - 1) + 1]
      BY <1>3, <1>8, <3>1
    <3>4. QED
      BY <3>1, <3>2, <3>3
  <2>2. QED
    BY <2>1
<1>10. Reverse(t) = q
  BY <1>5, <1>8, <1>9, SeqEqual
<1>11. LastOf(r, n) = q
  BY <1>4 DEF q
<1>12. QED
  BY <1>5, <1>10, <1>11 DEF l, m, r, t

-----------------------------------------------------------------------------
\* A request for history.

\* The messages a walk keeps.
Passes == {i \in Messages : Keep(i)}

\* The room and the request are as they should be.
Shaped == timeline \in Seq(Event) /\ request \in Query /\ Asked(request)

\* The token, the pages and the length that was seen.
Tokens ==
    /\ from \in Nat /\ pages \in Nat /\ edge \in Nat /\ edge <= Len(timeline)
    /\ pages <= MaxPages
    /\ pc = "walk" => pages < MaxPages /\ (pages = 0 => out = <<>>)

\* Which request is at which stage.
Stages ==
    /\ pc = "ask" => pages = 0 /\ out = <<>>
    /\ pc \in {"context", "back", "forward"} => request.by = "msgid" /\ pages = 0
    /\ pc = "back" => ~Forward
    /\ pc = "walk" => request.by # "msgid"

\* What follows the event was collected as far as the token ...
Following ==
    pc = "forward" =>
        /\ request.at < from /\ from <= edge + 1
        /\ out = Items(Up(request.at + 1, from - 1))

\* ... and the answer is the first of it; what is not there yet would not fit.
Answers(k) ==
    /\ k \in request.at .. edge
    /\ out = Truncate(Items(Up(request.at + 1, k)), request.limit)
    /\ k = edge \/ request.limit <= Len(Items(Up(request.at + 1, k)))

Followed ==
    Done({"after", "between"}, {"msgid"}) /\ ~failed /\ out # <<>> => \E k \in Nat : Answers(k)

\* A walk has kept what passes the filter, from the live edge to the token ...
Walking ==
    pc = "walk" /\ pages > 0 => from <= edge /\ out = Kept(Down(edge, from + 1))

\* ... and the answer is the first of it, turned round.
Walked ==
    pc = "done" /\ pages > 0 /\ ~failed =>
        /\ from <= edge
        /\ out = Reverse(Truncate(Kept(Down(edge, from + 1)), request.limit))
        /\ \/ request.limit <= Len(Kept(Down(edge, from + 1)))
           \/ from = 0 \/ pages = MaxPages

HistoryInv == Shaped /\ Tokens /\ Stages /\ Following /\ Followed /\ Walking /\ Walked

LEMMA RequestIs ==
    ASSUME Shaped
    PROVE  /\ request.at \in Nat /\ request.limit \in Nat /\ Wanted \in Nat
           /\ request.limit <= Wanted /\ 0 < request.limit /\ Len(timeline) \in Nat
<1>1. request.limit \in Limits /\ Limits \subseteq Nat \ {0}
  BY HistoryAssumption DEF Shaped, Query
<1>2. request.at \in 0 .. Length \cup Stamps /\ Stamps \subseteq Nat /\ Length \in Nat
  BY HistoryAssumption DEF Shaped, Query
<1> DEFINE l == request.limit
           t == request.at
<1> HIDE DEF l, t
<1>3. l \in Nat \ {0}
  BY <1>1 DEF l
<1>4. l \in Nat /\ 0 < l
  BY <1>3
<1>5. \A i \in 0 .. Length : i \in Nat
  BY <1>2
<1>6. t \in Nat
  BY <1>2, <1>5 DEF t
<1>7. request.limit \in Nat /\ 0 < request.limit
  BY <1>4 DEF l
<1>8. request.at \in Nat
  BY <1>6 DEF t
<1>9. Wanted \in Nat /\ request.limit <= Wanted
  BY <1>7 DEF Wanted
<1>10. Len(timeline) \in Nat
  BY DEF Shaped
<1>11. QED
  BY <1>7, <1>8, <1>9, <1>10

LEMMA FilterSame ==
    ASSUME UNCHANGED <<timeline, request>>
    PROVE  Messages' = Messages /\ Passes' = Passes
<1>1. Messages' = Messages
  BY DEF Messages
<1>2. \A i : Keep(i)' <=> Keep(i)
  BY DEF Keep
<1>3. QED
  BY <1>1, <1>2 DEF Passes

LEMMA HistoryBegins == HistoryInit => HistoryInv
<1>1. SUFFICES ASSUME HistoryInit PROVE HistoryInv
  OBVIOUS
<1>2. Shaped
  <2>1. Length \in Nat
    BY HistoryAssumption
  <2>2. timeline \in Seq(Event)
    BY <1>1, <2>1, SeqDef DEF HistoryInit
  <2>3. QED
    BY <1>1, <2>2 DEF HistoryInit, Shaped
<1>3. Tokens
  <2>1. Len(timeline) \in Nat /\ MaxPages \in Nat
    BY <1>2, RequestIs, HistoryAssumption
  <2>2. QED
    BY <1>1, <2>1 DEF HistoryInit, Tokens
<1>4. Stages /\ Following /\ Followed /\ Walking /\ Walked
  BY <1>1 DEF HistoryInit, Stages, Following, Followed, Walking, Walked, Done
<1>5. QED
  BY <1>2, <1>3, <1>4 DEF HistoryInv

LEMMA DispatchKeeps == ASSUME HistoryInv, Dispatch PROVE HistoryInv'
<1>1. /\ Shaped /\ Tokens /\ Stages /\ pc = "ask" /\ pages = 0 /\ out = <<>>
      /\ UNCHANGED <<timeline, request, from, out, pages, edge, failed>>
      /\ pc' \in {"done", "context", "walk"}
      /\ pc' = "context" => request.by = "msgid"
      /\ pc' = "walk" => request.by # "msgid"
      /\ pc' = "done" => request.by # "msgid"
  BY DEF Dispatch, HistoryInv, Stages
<1>2. Shaped' /\ Tokens'
  <2>1. MaxPages \in Nat /\ 0 < MaxPages
    BY HistoryAssumption
  <2>2. Asked(request)'
    BY <1>1 DEF Shaped, Asked
  <2>3. QED
    BY <1>1, <2>1, <2>2 DEF Shaped, Tokens
<1>3. Stages' /\ Following' /\ Followed' /\ Walking' /\ Walked'
  BY <1>1 DEF Stages, Following, Followed, Walking, Walked, Done
<1>4. QED
  BY <1>2, <1>3 DEF HistoryInv

LEMMA ContextKeeps == ASSUME HistoryInv, Context PROVE HistoryInv'
<1>1. /\ Shaped /\ Tokens /\ Stages /\ pc = "context"
      /\ UNCHANGED <<timeline, request, pages, failed>>
      /\ request.by = "msgid" /\ pages = 0 /\ edge' = Len(timeline)
      /\ pc' = IF Forward THEN "forward" ELSE "back"
  BY DEF Context, HistoryInv, Stages
<1>2. PICK b, a \in 0 .. Wanted :
        /\ b < request.at /\ request.at + a <= Len(timeline)
        /\ out' = IF Forward THEN Items(Up(request.at + 1, request.at + a))
                             ELSE Items(Down(request.at - 1, request.at - b))
        /\ from' = IF Forward THEN request.at + a + 1 ELSE request.at - b - 1
  BY DEF Context
<1>3. request.at \in Nat /\ Len(timeline) \in Nat /\ Wanted \in Nat
  BY <1>1, RequestIs
<1>4. Messages' = Messages /\ (Forward' <=> Forward)
  BY <1>1, FilterSame DEF Forward
<1>5. Shaped'
  BY <1>1 DEF Shaped, Asked
<1>6. Tokens'
  <2>1. from' \in Nat
    BY <1>2, <1>3
  <2>2. QED
    BY <1>1, <1>3, <2>1 DEF Tokens
<1>7. Stages'
  BY <1>1, <1>4 DEF Stages
<1>8. Following'
  <2>1. SUFFICES ASSUME Forward
                 PROVE  /\ request.at < from' /\ from' <= edge' + 1
                        /\ out' = Among(Up(request.at + 1, from' - 1), Messages)
    BY <1>1, <1>4 DEF Following, Items
  <2>2. from' = request.at + a + 1 /\ out' = Among(Up(request.at + 1, request.at + a), Messages)
    BY <1>2, <2>1 DEF Items
  <2>3. from' - 1 = request.at + a /\ request.at < from' /\ from' <= edge' + 1
    BY <1>1, <1>2, <1>3, <2>2
  <2>4. QED
    BY <2>2, <2>3
<1>9. Followed' /\ Walking' /\ Walked'
  BY <1>1 DEF Followed, Walking, Walked, Done
<1>10. QED
  BY <1>5, <1>6, <1>7, <1>8, <1>9 DEF HistoryInv

\* A reply before the end of a walk: what is left to show is about the answer.
LEMMA RepliesKeep ==
    ASSUME HistoryInv, UNCHANGED <<timeline, request, pages>>, pc' = "done",
           from' \in Nat, edge' \in Nat, edge' <= Len(timeline), Followed', Walked'
    PROVE  HistoryInv'
<1>1. Shaped'
  BY DEF HistoryInv, Shaped, Asked
<1>2. Tokens'
  BY DEF HistoryInv, Tokens
<1>3. Stages' /\ Following' /\ Walking'
  BY DEF Stages, Following, Walking
<1>4. QED
  BY <1>1, <1>2, <1>3 DEF HistoryInv

LEMMA EnoughKeeps == ASSUME HistoryInv, Enough PROVE HistoryInv'
<1>1. /\ Shaped /\ Tokens /\ Stages /\ Following /\ pc \in {"back", "forward"}
      /\ pc' = "done" /\ out' = Truncate(out, request.limit) /\ Len(out) >= Wanted
      /\ UNCHANGED <<timeline, request, from, pages, edge, failed>>
      /\ request.by = "msgid" /\ pages = 0
  BY DEF Enough, Replies, HistoryInv, Stages
<1>2. Messages' = Messages
  BY <1>1, FilterSame
<1>3. Walked'
  BY <1>1 DEF Walked
<1>4. Followed'
  <2>1. SUFFICES ASSUME Done({"after", "between"}, {"msgid"})' PROVE (\E k \in Nat : Answers(k))'
    BY DEF Followed
  <2>2. Forward
    BY <1>1, <2>1 DEF Done, Forward
  <2>3. /\ request.at < from /\ from <= edge + 1
        /\ out = Among(Up(request.at + 1, from - 1), Messages)
    BY <1>1, <2>2 DEF Stages, Following, Items
  <2>4. /\ request.at \in Nat /\ request.limit \in Nat /\ Wanted \in Nat
        /\ request.limit <= Wanted /\ from \in Nat /\ edge \in Nat
    BY <1>1, RequestIs DEF Tokens
  <2>5. from - 1 \in Nat /\ from - 1 \in request.at .. edge
    BY <2>3, <2>4
  <2>6. request.limit <= Len(out)
    <3>1. Up(request.at + 1, from - 1) \in Seq(Nat)
      <4>1. request.at + 1 \in Nat \ {0} /\ request.at + 1 <= (from - 1) + 1
        BY <2>3, <2>4
      <4>2. QED
        BY <2>5, <4>1, UpIs
    <3>2. out \in Seq(Nat)
      BY <2>3, <3>1, AmongSeq
    <3>3. Len(out) \in Nat
      BY <3>2
    <3>4. QED
      BY <1>1, <2>4, <3>3
  <2>7. Answers(from - 1)'
    BY <1>1, <1>2, <2>3, <2>5, <2>6 DEF Answers, Items
  <2>8. QED
    BY <1>1, <2>5, <2>7
<1>5. QED
  BY <1>1, <1>3, <1>4, RepliesKeep DEF Tokens

LEMMA BackPageKeeps == ASSUME HistoryInv, BackPage PROVE HistoryInv'
<1>1. /\ Shaped /\ Tokens /\ Stages /\ pc = "back"
      /\ UNCHANGED <<timeline, request, pages, edge, failed>>
      /\ request.by = "msgid" /\ pages = 0 /\ ~Forward
      /\ pc' \in {"back", "done"}
  BY DEF BackPage, Replies, HistoryInv, Stages
<1>2. PICK n \in Page : from' = from - Least(n, from)
  BY DEF BackPage
<1>3. /\ from \in Nat /\ edge \in Nat /\ edge <= Len(timeline) /\ Len(timeline) \in Nat
      /\ n \in Nat
  <2>1. PageSize \in Nat
    BY HistoryAssumption
  <2>2. QED
    BY <1>1, <2>1, RequestIs DEF Tokens, Page
<1>4. from' \in Nat
  BY <1>2, <1>3 DEF Least
<1>5. Forward' <=> Forward
  BY <1>1 DEF Forward
<1>6. Followed' /\ Walked' /\ Walking' /\ Following'
  <2>1. Followed'
    BY <1>1 DEF Followed, Done, Forward
  <2>2. QED
    BY <1>1, <2>1 DEF Walked, Walking, Following
<1>7. CASE pc' = "done"
  BY <1>1, <1>3, <1>4, <1>6, <1>7, RepliesKeep
<1>8. CASE pc' = "back"
  <2>1. Shaped'
    BY <1>1 DEF Shaped, Asked
  <2>2. Tokens' /\ Stages'
    BY <1>1, <1>4, <1>5, <1>8 DEF Tokens, Stages
  <2>3. QED
    BY <1>6, <2>1, <2>2 DEF HistoryInv
<1>9. QED
  BY <1>1, <1>7, <1>8

LEMMA ForwardPageKeeps == ASSUME HistoryInv, ForwardPage PROVE HistoryInv'
<1> DEFINE last == Len(timeline)
           shown(i) == Among(Up(request.at + 1, i), Messages)
<1>1. /\ Shaped /\ Tokens /\ Stages /\ Following /\ pc = "forward"
      /\ UNCHANGED <<timeline, request, pages, failed>>
      /\ request.by = "msgid" /\ pages = 0 /\ edge' = last
  BY DEF ForwardPage, HistoryInv, Stages
<1>2. PICK n \in Page :
        LET next == Least(from + n, Len(timeline) + 1)
            list == out \o Items(Up(from, next - 1))
        IN  /\ from' = next
            /\ IF next <= Len(timeline) /\ list # <<>>
               THEN out' = list /\ pc' = pc
               ELSE Replies(list)
  BY DEF ForwardPage
<1> DEFINE next == Least(from + n, Len(timeline) + 1)
           list == out \o Items(Up(from, next - 1))
<1>3. /\ from' = next
      /\ \/ next <= last /\ out' = list /\ pc' = "forward"
         \/ /\ ~(next <= last) \/ list = <<>>
            /\ pc' = "done" /\ out' = Truncate(list, request.limit)
  BY <1>1, <1>2 DEF Replies
<1>4. /\ request.at \in Nat /\ request.limit \in Nat /\ last \in Nat
      /\ from \in Nat /\ edge \in Nat /\ edge <= last
  BY <1>1, RequestIs DEF Tokens
<1>5. request.at < from /\ from <= edge + 1 /\ out = shown(from - 1)
  BY <1>1 DEF Following, Items
<1>6. next \in Nat /\ from <= next /\ next <= last + 1
  <2>1. n \in Nat
    BY HistoryAssumption DEF Page
  <2>2. QED
    BY <1>4, <1>5, <2>1 DEF Least
<1>7. list = shown(next - 1)
  <2> HIDE DEF next
  <2> DEFINE a == request.at + 1
             b == from - 1
             c == next - 1
  <2>1. a \in Nat \ {0} /\ b \in Nat /\ c \in Nat /\ a <= b + 1 /\ b <= c /\ b + 1 = from
    BY <1>4, <1>5, <1>6
  <2>2. list = Among(Up(a, b), Messages) \o Among(Up(b + 1, c), Messages)
    BY <1>5, <2>1 DEF Items
  <2> HIDE DEF a, b, c, list
  <2>3. JoinUp(a, b, c, Messages)
    BY <2>1, UpJoins
  <2>4. list = Among(Up(a, c), Messages)
    BY <2>2, <2>3 DEF JoinUp
  <2>5. QED
    BY <2>4 DEF a, c
<1>8. Messages' = Messages
  BY <1>1, FilterSame
<1> HIDE DEF last, shown, next, list
<1>9. edge' \in Nat /\ edge' <= Len(timeline) /\ from' \in Nat
  BY <1>1, <1>3, <1>4, <1>6 DEF last
<1>10. Walked' /\ Walking'
  BY <1>1, <1>3 DEF Walked, Walking
<1>11. CASE next <= last /\ out' = list /\ pc' = "forward"
  <2>1. Shaped'
    BY <1>1 DEF Shaped, Asked
  <2>2. Tokens' /\ Stages'
    BY <1>1, <1>9, <1>11 DEF Tokens, Stages
  <2>3. Following'
    <3>1. request.at < next /\ next <= edge' + 1
      BY <1>1, <1>4, <1>5, <1>6
    <3>2. out' = Among(Up(request.at + 1, next - 1), Messages)
      BY <1>7, <1>11 DEF shown
    <3>3. QED
      BY <1>1, <1>3, <1>8, <3>1, <3>2 DEF Following, Items
  <2>4. Followed'
    BY <1>11 DEF Followed, Done
  <2>5. QED
    BY <1>10, <2>1, <2>2, <2>3, <2>4 DEF HistoryInv
<1>12. CASE list = <<>> /\ pc' = "done" /\ out' = Truncate(list, request.limit)
  <2>1. <<>> \in Seq(Nat) /\ Len(<<>>) = 0 /\ 0 <= request.limit
    BY <1>4
  <2>2. out' = <<>>
    BY <1>4, <1>12, <2>1, TruncateIs
  <2>3. Followed'
    BY <2>2 DEF Followed
  <2>4. QED
    BY <1>1, <1>9, <1>10, <1>12, <2>3, RepliesKeep
<1>13. CASE ~(next <= last) /\ pc' = "done" /\ out' = Truncate(list, request.limit)
  <2>1. last \in request.at .. edge' /\ last \in Nat /\ next - 1 = last
    BY <1>1, <1>4, <1>5, <1>6, <1>13
  <2>2. out' = Truncate(Among(Up(request.at + 1, last), Messages), request.limit)
    BY <1>7, <1>13, <2>1 DEF shown
  <2>3. Answers(last)'
    BY <1>1, <1>8, <2>1, <2>2 DEF Answers, Items, last
  <2>4. Followed'
    BY <2>1, <2>3 DEF Followed, last
  <2>5. QED
    BY <1>1, <1>9, <1>10, <1>13, <2>4, RepliesKeep
<1>14. QED
  BY <1>3, <1>11, <1>12, <1>13

LEMMA WalkKeeps == ASSUME HistoryInv, Walk PROVE HistoryInv'
<1> DEFINE kept(a, b) == Among(Down(a, b), Passes)
<1>1. /\ Shaped /\ Tokens /\ Stages /\ Walking /\ pc = "walk"
      /\ UNCHANGED <<timeline, request, failed>>
      /\ request.by # "msgid" /\ pages' = pages + 1
      /\ edge' = IF pages = 0 THEN Len(timeline) ELSE edge
  BY DEF Walk, HistoryInv, Stages
<1>2. PICK n \in Page :
        LET first == IF pages = 0 THEN Len(timeline) ELSE from
            last  == first - Least(n, first)
            list  == out \o Kept(Down(first, last + 1))
        IN  /\ from' = last
            /\ IF last > 0 /\ Len(list) < request.limit /\ pages' < MaxPages
               THEN out' = list /\ pc' = pc
               ELSE pc' = "done" /\ out' = Reverse(Truncate(list, request.limit))
  BY DEF Walk
<1> DEFINE first == IF pages = 0 THEN Len(timeline) ELSE from
           last  == first - Least(n, first)
           list  == out \o Kept(Down(first, last + 1))
<1>3. /\ from' = last
      /\ \/ pages' < MaxPages /\ out' = list /\ pc' = "walk"
         \/ /\ pc' = "done" /\ out' = Reverse(Truncate(list, request.limit))
            /\ ~(last > 0 /\ Len(list) < request.limit /\ pages' < MaxPages)
  BY <1>1, <1>2
<1>4. /\ request.limit \in Nat /\ Len(timeline) \in Nat /\ MaxPages \in Nat
      /\ from \in Nat /\ pages \in Nat /\ edge \in Nat /\ edge <= Len(timeline)
      /\ pages < MaxPages /\ (pages = 0 => out = <<>>)
      /\ pages # 0 => from <= edge /\ out = kept(edge, from + 1)
  <2>1. pages \in Nat /\ (pages # 0 => pages > 0)
    BY <1>1 DEF Tokens
  <2>2. pages # 0 => from <= edge /\ out = kept(edge, from + 1)
    BY <1>1, <2>1 DEF Walking, Kept, Passes
  <2>3. QED
    BY <1>1, <2>2, RequestIs, HistoryAssumption DEF Tokens
<1>5. n \in Nat
  BY HistoryAssumption DEF Page
<1>6. /\ first \in Nat /\ last \in Nat /\ last <= first /\ first <= edge'
      /\ edge' \in Nat /\ edge' <= Len(timeline)
      /\ pages' \in Nat /\ pages' <= MaxPages /\ pages' > 0
  <2>1. first \in Nat /\ first <= edge' /\ edge' \in Nat /\ edge' <= Len(timeline)
    BY <1>1, <1>4
  <2> HIDE DEF first
  <2>2. last \in Nat /\ last <= first
    BY <1>5, <2>1 DEF Least
  <2>3. pages' \in Nat /\ pages' <= MaxPages /\ pages' > 0
    BY <1>1, <1>4
  <2>4. QED
    BY <2>1, <2>2, <2>3
<1>7. list = kept(edge', last + 1) /\ list \in Seq(Nat) /\ Len(list) \in Nat
  <2> DEFINE a == last + 1
             e == edge'
  <2>1. a \in Nat \ {0} /\ a <= first + 1 /\ e \in Nat /\ first <= e /\ first \in Nat /\ a <= e + 1
    BY <1>6
  <2>2. list = out \o Among(Down(first, a), Passes)
    BY DEF Kept, Passes
  <2>3. /\ Down(first, a) \in Seq(Nat) /\ Among(Down(first, a), Passes) \in Seq(Nat)
        /\ Down(e, a) \in Seq(Nat) /\ Among(Down(e, a), Passes) \in Seq(Nat)
    <3> HIDE DEF a, e, first
    <3>1. Down(first, a) \in Seq(Nat) /\ Down(e, a) \in Seq(Nat)
      BY <2>1, DownIs
    <3>2. QED
      BY <3>1, AmongSeq
  <2>4. list = Among(Down(e, a), Passes)
    <3>1. CASE pages = 0
      <4>1. first = e /\ out = <<>>
        BY <1>1, <1>4, <3>1
      <4> HIDE DEF a, e, first, list
      <4>2. <<>> \o Among(Down(first, a), Passes) = Among(Down(first, a), Passes)
        BY <2>3, ConcatEmptySeq
      <4>3. QED
        BY <2>2, <4>1, <4>2
    <3>2. CASE pages # 0
      <4>1. first = from /\ e = edge /\ out = Among(Down(e, first + 1), Passes)
        BY <1>1, <1>4, <3>2
      <4> HIDE DEF a, e, first, list
      <4>2. JoinDown(a, first, e, Passes)
        BY <2>1, DownJoins
      <4>3. QED
        BY <2>2, <4>1, <4>2 DEF JoinDown
    <3>3. QED
      BY <3>1, <3>2
  <2> HIDE DEF list, a, e
  <2>5. list \in Seq(Nat) /\ Len(list) \in Nat
    BY <2>3, <2>4
  <2>6. QED
    BY <2>4, <2>5 DEF a, e
<1>8. Passes' = Passes
  BY <1>1, FilterSame
<1> HIDE DEF first, last, list
<1>9. Shaped'
  BY <1>1 DEF Shaped, Asked
<1>10. Tokens'
  BY <1>1, <1>3, <1>6 DEF Tokens
<1>11. Stages' /\ Following' /\ Followed'
  BY <1>1, <1>3 DEF Stages, Following, Followed, Done
<1>12. Walking'
  <2>1. SUFFICES ASSUME pc' = "walk" PROVE from' <= edge' /\ out' = Among(Down(edge', from' + 1), Passes')
    BY DEF Walking, Kept, Passes
  <2>2. out' = list
    BY <1>3, <2>1
  <2>3. QED
    BY <1>3, <1>6, <1>7, <1>8, <2>2
<1>13. Walked'
  <2>1. SUFFICES ASSUME pc' = "done"
                 PROVE  /\ from' <= edge'
                        /\ out' = Reverse(Truncate(Among(Down(edge', from' + 1), Passes'), request'.limit))
                        /\ \/ request'.limit <= Len(Among(Down(edge', from' + 1), Passes'))
                           \/ from' = 0 \/ pages' = MaxPages
    BY DEF Walked, Kept, Passes
  <2>2. Among(Down(edge', from' + 1), Passes') = list /\ request'.limit = request.limit
    BY <1>1, <1>3, <1>7, <1>8
  <2>3. /\ out' = Reverse(Truncate(list, request.limit))
        /\ ~(last > 0 /\ Len(list) < request.limit /\ pages' < MaxPages)
    BY <1>3, <2>1
  <2>4. request.limit <= Len(list) \/ last = 0 \/ pages' = MaxPages
    BY <1>4, <1>6, <1>7, <2>3
  <2>5. QED
    BY <1>3, <1>6, <2>2, <2>3, <2>4
<1>14. QED
  BY <1>9, <1>10, <1>11, <1>12, <1>13 DEF HistoryInv

LEMMA FailKeeps == ASSUME HistoryInv, Fail PROVE HistoryInv'
<1>1. /\ Tokens /\ UNCHANGED <<timeline, request, from, pages, edge>>
      /\ failed' = TRUE /\ pc' = "done"
  BY DEF Fail, Replies, HistoryInv
<1>2. Followed' /\ Walked'
  BY <1>1 DEF Followed, Walked
<1>3. QED
  BY <1>1, <1>2, RepliesKeep DEF Tokens

\* What arrives is behind everything a request has seen.
LEMMA ArriveKeeps == ASSUME HistoryInv, Arrive PROVE HistoryInv'
<1>1. /\ Shaped /\ Tokens /\ Stages /\ Following /\ Followed /\ Walking /\ Walked
      /\ UNCHANGED <<request, pc, from, out, pages, edge, failed>>
  BY DEF Arrive, HistoryInv
<1>2. PICK x \in Event : timeline' = Append(timeline, x)
  BY DEF Arrive
<1>3. /\ Len(timeline) \in Nat /\ timeline' \in Seq(Event) /\ Len(timeline') = Len(timeline) + 1
      /\ \A i \in 1 .. Len(timeline) : timeline'[i] = timeline[i]
      /\ DOMAIN timeline = 1 .. Len(timeline) /\ DOMAIN timeline' = 1 .. Len(timeline')
  BY <1>1, <1>2, AppendProperties DEF Shaped
<1>4. \A i \in 1 .. Len(timeline) : i \in DOMAIN timeline'
  BY <1>3
<1>5. \A i \in 1 .. Len(timeline) : i \in Messages <=> i \in Messages'
  BY <1>3, <1>4 DEF Messages
<1>6. \A i \in 1 .. Len(timeline) : i \in Passes <=> i \in Passes'
  BY <1>1, <1>3, <1>5 DEF Passes, Keep
<1>7. \A a, b \in Nat : 0 < a /\ a <= b + 1 /\ b <= Len(timeline) =>
         /\ Among(Up(a, b), Messages') = Among(Up(a, b), Messages)
         /\ Among(Down(b, a), Passes') = Among(Down(b, a), Passes)
  <2>1. SUFFICES ASSUME NEW a \in Nat, NEW b \in Nat, 0 < a, a <= b + 1, b <= Len(timeline)
                 PROVE  /\ Among(Up(a, b), Messages') = Among(Up(a, b), Messages)
                        /\ Among(Down(b, a), Passes') = Among(Down(b, a), Passes)
    OBVIOUS
  <2>2. a \in Nat \ {0} /\ a .. b \subseteq 1 .. Len(timeline)
    BY <1>3, <2>1
  <2>3. Up(a, b) \in Seq(a .. b) /\ Down(b, a) \in Seq(a .. b)
    BY <2>1, <2>2, UpIs, DownIs
  <2> DEFINE U == a .. b
             m == Messages'
             p == Passes'
  <2>4. \A i \in U : (i \in m <=> i \in Messages) /\ (i \in p <=> i \in Passes)
    BY <1>5, <1>6, <2>2
  <2> HIDE DEF m, p
  <2>5. Among(Up(a, b), m) = Among(Up(a, b), Messages)
    BY <2>3, <2>4, AmongSame
  <2>6. Among(Down(b, a), p) = Among(Down(b, a), Passes)
    BY <2>3, <2>4, AmongSame
  <2>7. QED
    BY <2>5, <2>6 DEF m, p
<1>8. Shaped'
  BY <1>1, <1>3 DEF Shaped, Asked
<1>9. Tokens' /\ Stages'
  <2>1. edge <= Len(timeline')
    BY <1>1, <1>3 DEF Tokens
  <2>2. QED
    BY <1>1, <2>1 DEF Tokens, Stages, Forward
<1>10. /\ request.at \in Nat /\ from \in Nat /\ edge \in Nat /\ edge <= Len(timeline)
  BY <1>1, RequestIs DEF Tokens
<1>11. Following'
  <2>1. SUFFICES ASSUME pc = "forward"
                 PROVE  /\ request.at < from /\ from <= edge + 1
                        /\ out = Among(Up(request.at + 1, from - 1), Messages')
    BY <1>1 DEF Following, Items
  <2>2. /\ request.at < from /\ from <= edge + 1
        /\ out = Among(Up(request.at + 1, from - 1), Messages)
    BY <1>1, <2>1 DEF Following, Items
  <2>3. /\ request.at + 1 \in Nat /\ from - 1 \in Nat /\ 0 < request.at + 1
        /\ request.at + 1 <= (from - 1) + 1 /\ from - 1 <= Len(timeline)
    BY <1>3, <1>10, <2>2
  <2>4. QED
    BY <1>7, <2>2, <2>3
<1>12. Followed'
  <2>1. SUFFICES ASSUME Done({"after", "between"}, {"msgid"}), ~failed, out # <<>>
                 PROVE  (\E k \in Nat : Answers(k))'
    BY <1>1 DEF Followed, Done
  <2>2. PICK k \in Nat : Answers(k)
    BY <1>1, <2>1 DEF Followed
  <2>3. /\ request.at + 1 \in Nat /\ 0 < request.at + 1
        /\ request.at + 1 <= k + 1 /\ k <= Len(timeline)
    BY <1>3, <1>10, <2>2 DEF Answers
  <2>4. Among(Up(request.at + 1, k), Messages') = Among(Up(request.at + 1, k), Messages)
    BY <1>7, <2>3
  <2>5. Answers(k)'
    BY <1>1, <2>2, <2>4 DEF Answers, Items
  <2>6. QED
    BY <2>5
<1>13. from <= edge => Among(Down(edge, from + 1), Passes') = Among(Down(edge, from + 1), Passes)
  <2>1. from <= edge => from + 1 \in Nat /\ 0 < from + 1 /\ from + 1 <= edge + 1
    BY <1>10
  <2>2. QED
    BY <1>7, <1>10, <2>1
<1>14. Walking'
  BY <1>1, <1>13 DEF Walking, Kept, Passes
<1>15. Walked'
  BY <1>1, <1>13 DEF Walked, Kept, Passes
<1>16. QED
  BY <1>8, <1>9, <1>11, <1>12, <1>14, <1>15 DEF HistoryInv

LEMMA NothingKeeps == ASSUME HistoryInv, UNCHANGED historyVars PROVE HistoryInv'
<1>1. UNCHANGED <<timeline, request, pc, from, out, pages, edge, failed>>
  BY DEF historyVars
<1>2. Messages' = Messages /\ Passes' = Passes
  BY <1>1, FilterSame
<1>3. Shaped' /\ Tokens' /\ Stages'
  BY <1>1 DEF HistoryInv, Shaped, Asked, Tokens, Stages, Forward
<1>4. Following' /\ Followed'
  BY <1>1, <1>2 DEF HistoryInv, Following, Followed, Answers, Items, Done
<1>5. Walking' /\ Walked'
  BY <1>1, <1>2 DEF HistoryInv, Walking, Walked, Kept, Passes
<1>6. QED
  BY <1>3, <1>4, <1>5 DEF HistoryInv

LEMMA HistoryKeeps == HistoryInv /\ [HistoryNext]_historyVars => HistoryInv'
<1>1. SUFFICES ASSUME HistoryInv, [HistoryNext]_historyVars PROVE HistoryInv'
  OBVIOUS
<1>2. CASE Dispatch
  BY <1>1, <1>2, DispatchKeeps
<1>3. CASE Context
  BY <1>1, <1>3, ContextKeeps
<1>4. CASE Enough
  BY <1>1, <1>4, EnoughKeeps
<1>5. CASE BackPage
  BY <1>1, <1>5, BackPageKeeps
<1>6. CASE ForwardPage
  BY <1>1, <1>6, ForwardPageKeeps
<1>7. CASE Walk
  BY <1>1, <1>7, WalkKeeps
<1>8. CASE Fail
  BY <1>1, <1>8, FailKeeps
<1>9. CASE Arrive
  BY <1>1, <1>9, ArriveKeeps
<1>10. CASE UNCHANGED historyVars
  BY <1>1, <1>10, NothingKeeps
<1>11. QED
  BY <1>1, <1>2, <1>3, <1>4, <1>5, <1>6, <1>7, <1>8, <1>9, <1>10 DEF HistoryNext, HistoryStep

\* The invariant of a request: what has been collected is what lies between the
\* event, or the live edge, and the token.
THEOREM HistoryInvariance == HistorySpec => []HistoryInv
BY HistoryBegins, HistoryKeeps, PTL DEF HistorySpec

\* Whatever the pages are and whatever arrives, what follows an event is
\* answered without a gap and in order: as many messages as asked for, or all
\* up to the live edge (around_msgid, history.rs 177-196).
THEOREM AfterIsExact == HistorySpec => []AfterExact
<1>1. HistoryInv => AfterExact
  <2>1. SUFFICES ASSUME HistoryInv, Done({"after", "between"}, {"msgid"}), ~failed, out # <<>>
                 PROVE  out = Truncate(Items(Up(request.at + 1, edge)), request.limit)
    BY DEF AfterExact
  <2>2. PICK k \in Nat : Answers(k)
    BY <2>1 DEF HistoryInv, Followed
  <2>3. request.at \in Nat /\ request.limit \in Nat /\ edge \in Nat
    BY <2>1, RequestIs DEF HistoryInv, Tokens
  <2>4. CASE k = edge
    BY <2>2, <2>4 DEF Answers
  <2>5. CASE k # edge
    <3> DEFINE a == request.at + 1
               n == request.limit
               s == Among(Up(a, k), Messages)
               t == Among(Up(k + 1, edge), Messages)
    <3>1. a \in Nat \ {0} /\ a <= k + 1 /\ k <= edge /\ k + 1 \in Nat \ {0} /\ k + 1 <= edge + 1
      BY <2>2, <2>3 DEF Answers
    <3>2. out = Truncate(s, n) /\ n <= Len(s)
      BY <2>2, <2>5 DEF Answers, Items
    <3> HIDE DEF a, n
    <3>3. Up(a, k) \in Seq(Nat) /\ Up(k + 1, edge) \in Seq(Nat)
      BY <2>3, <3>1, UpIs
    <3>4. s \in Seq(Nat) /\ t \in Seq(Nat)
      BY <3>3, AmongSeq
    <3>5. JoinUp(a, k, edge, Messages)
      BY <2>3, <3>1, UpJoins
    <3>6. n \in Nat
      BY <2>3 DEF n
    <3> HIDE DEF s, t
    <3>7. Truncate(s \o t, n) = Truncate(s, n)
      BY <3>2, <3>4, <3>6, TruncateConcat
    <3>8. QED
      BY <3>2, <3>5, <3>7 DEF JoinUp, a, n, s, t, Items
  <2>6. QED
    BY <2>4, <2>5
<1>2. QED
  BY <1>1, HistoryInvariance, PTL

\* An answer from the live edge is the newest of what was walked and passes the
\* filter, in order, and as many as asked for unless the room or the pages end
\* first (walk_backward, history.rs 201-255).
THEOREM LatestIsExact == HistorySpec => []LatestExact
<1>1. HistoryInv => LatestExact
  <2> DEFINE list == Among(Down(edge, from + 1), Passes)
             n == request.limit
  <2>1. SUFFICES ASSUME HistoryInv, pc = "done", ~failed, pages > 0
                 PROVE  /\ out = LastOf(Among(Up(from + 1, edge), Passes), n)
                        /\ Len(out) = n \/ from = 0 \/ pages = MaxPages
    BY DEF LatestExact, Done, Kept, Passes
  <2>2. /\ from <= edge /\ out = Reverse(Truncate(list, n))
        /\ n <= Len(list) \/ from = 0 \/ pages = MaxPages
    BY <2>1 DEF HistoryInv, Walked, Kept, Passes
  <2>3. n \in Nat /\ edge \in Nat /\ from \in Nat
    BY <2>1, RequestIs DEF HistoryInv, Tokens
  <2>4. from + 1 \in Nat \ {0} /\ from + 1 <= edge + 1
    BY <2>2, <2>3
  <2>5. Reverse(list) = Among(Up(from + 1, edge), Passes)
    BY <2>3, <2>4, Mirror
  <2>6. list \in Seq(Nat)
    <3>1. Down(edge, from + 1) \in Seq(Nat)
      BY <2>3, <2>4, DownIs
    <3>2. QED
      BY <3>1, AmongSeq
  <2> HIDE DEF list, n
  <2>7. out = LastOf(Reverse(list), n) /\ Len(out) = Least(Len(list), n) /\ Len(list) \in Nat
    BY <2>2, <2>3, <2>6, LastReversed
  <2>8. n <= Len(list) => Len(out) = n
    BY <2>3, <2>7 DEF Least
  <2>9. QED
    BY <2>2, <2>5, <2>7, <2>8
<1>2. QED
  BY <1>1, HistoryInvariance, PTL

-----------------------------------------------------------------------------
\* The lines of a message: parts of a text.

\* The front and the last of what was appended to.
LEMMA FrontLast ==
    ASSUME NEW S, NEW p \in Seq(S), NEW l \in S
    PROVE  Front(Append(p, l)) = p /\ Last(Append(p, l)) = l
<1> DEFINE q == Append(p, l)
           n == Len(p)
<1>1. n \in Nat /\ q \in Seq(S) /\ Len(q) = n + 1 /\ q[n + 1] = l /\ \A i \in 1 .. n : q[i] = p[i]
  BY AppendProperties
<1> HIDE DEF q
<1>2. Last(q) = l
  BY <1>1 DEF Last
<1>3. Front(q) = SubSeq(q, 1, n)
  BY <1>1 DEF Front
<1>4. /\ SubSeq(q, 1, n) \in Seq(S) /\ Len(SubSeq(q, 1, n)) = n
      /\ \A i \in 1 .. n : SubSeq(q, 1, n)[i] = q[i]
  <2>1. 1 \in Int /\ n \in Int /\ \A i \in 1 .. n : q[i] \in S
    BY <1>1
  <2>2. /\ SubSeq(q, 1, n) \in Seq(S) /\ Len(SubSeq(q, 1, n)) = IF 1 <= n THEN n - 1 + 1 ELSE 0
        /\ \A i \in 1 .. n - 1 + 1 : SubSeq(q, 1, n)[i] = q[1 + i - 1]
    BY <2>1, SubSeqProperties
  <2>3. n - 1 + 1 = n /\ (IF 1 <= n THEN n - 1 + 1 ELSE 0) = n /\ \A i \in 1 .. n : 1 + i - 1 = i
    BY <1>1
  <2>4. QED
    BY <2>2, <2>3
<1>5. SubSeq(q, 1, n) = p
  BY <1>1, <1>4, SeqEqual
<1>6. QED
  BY <1>2, <1>3, <1>5 DEF q

\* An element at the end of the second list is at the end of both.
LEMMA ConcatAppend ==
    ASSUME NEW S, NEW s \in Seq(S), NEW t \in Seq(S), NEW x \in S
    PROVE  s \o Append(t, x) = Append(s \o t, x)
<1>1. <<x>> \in Seq(S) /\ s \o t \in Seq(S)
  BY ConcatProperties
<1>2. Append(t, x) = t \o <<x>> /\ Append(s \o t, x) = (s \o t) \o <<x>>
  BY <1>1, AppendIsConcat
<1>3. QED
  BY <1>1, <1>2, ConcatAssociative

\* Parts that a text is cut into: there is always one under way.
Parts(V) == Seq(Seq(V)) \ {<<>>}

\* Growing the last part appends to the whole.
LEMMA GrowIs ==
    ASSUME NEW V, NEW ps \in Parts(V), NEW c \in V
    PROVE  Grow(ps, c) \in Parts(V) /\ Flatten(Grow(ps, c)) = Append(Flatten(ps), c)
<1>1. ps \in Seq(Seq(V)) /\ ps # <<>>
  BY DEF Parts
<1>2. PICK p \in Seq(Seq(V)), l \in Seq(V) : ps = Append(p, l)
  BY <1>1, SequenceEmptyOrAppend
<1>3. Grow(ps, c) = Append(p, Append(l, c))
  BY <1>2, FrontLast DEF Grow
<1>4. Append(l, c) \in Seq(V)
  BY AppendProperties
<1>5. Append(p, Append(l, c)) \in Seq(Seq(V)) /\ Append(p, Append(l, c)) # <<>>
  BY <1>4, AppendProperties
<1>6. /\ Flatten(p) \in Seq(V) /\ Flatten(ps) = Flatten(p) \o l
      /\ Flatten(Append(p, Append(l, c))) = Flatten(p) \o Append(l, c)
  BY <1>2, <1>4, FlattenIs
<1>7. Flatten(p) \o Append(l, c) = Append(Flatten(p) \o l, c)
  BY <1>6, ConcatAppend
<1>8. QED
  BY <1>3, <1>5, <1>6, <1>7 DEF Parts

Cut(ps, c, sep) == IF c.char = sep THEN Append(ps, <<>>) ELSE Grow(ps, c)

\* The part of an alphabet that is no separator.
Within(U, sep) == {c \in U : c.char # sep}

SplitStep(U, sep) == [p \in Parts(Within(U, sep)) \X U |-> Cut(p[1], p[2], sep)]

SplitStepOf(U, S, sep) ==
    /\ <<<<>>>> \in S /\ SplitStep(U, sep) \in [S \X U -> S]
    /\ \A ps \in S, c \in U : SplitStep(U, sep)[<<ps, c>>] = Cut(ps, c, sep)

\* A cut is a step of a fold, on parts without the separator.
LEMMA SplitStepIs == ASSUME NEW U, NEW sep PROVE SplitStepOf(U, Parts(Within(U, sep)), sep)
<1> DEFINE V == Within(U, sep)
           S == Parts(V)
<1>1. <<<<>>>> \in S
  BY DEF Parts
<1>2. ASSUME NEW ps \in S, NEW c \in U PROVE Cut(ps, c, sep) \in S
  <2>1. CASE c.char = sep
    <3>1. ps \in Seq(Seq(V)) /\ <<>> \in Seq(V)
      BY DEF Parts
    <3>2. Append(ps, <<>>) \in Seq(Seq(V)) /\ Append(ps, <<>>) # <<>>
      BY <3>1, AppendProperties
    <3>3. QED
      BY <2>1, <3>2 DEF Cut, Parts
  <2>2. CASE c.char # sep
    <3>1. c \in V
      BY <2>2 DEF Within
    <3> HIDE DEF V
    <3>2. QED
      BY <2>2, <3>1, GrowIs DEF Cut
  <2>3. QED
    BY <2>1, <2>2
<1>3. SplitStep(U, sep) = [p \in S \X U |-> Cut(p[1], p[2], sep)]
  BY DEF SplitStep
<1> HIDE DEF S
<1>4. SplitStepOf(U, S, sep)
  BY <1>1, <1>2, <1>3 DEF SplitStepOf
<1>5. QED
  BY <1>4 DEF S

\* `split` is a fold of cuts.
LEMMA SplitFolds ==
    ASSUME NEW U, NEW S, NEW sep, SplitStepOf(U, S, sep), NEW s \in Seq(U)
    PROVE  Split(s, sep) = Value(s, S, <<<<>>>>, SplitStep(U, sep))
<1> DEFINE step == SplitStep(U, sep)
           e == <<<<>>>>
           F(iter) == [t \in SUBSET DOMAIN s |->
                          IF t = {} THEN e ELSE Cut(iter[t \ {Max(t)}], s[Max(t)], sep)]
           it == CHOOSE iter : iter = F(iter)
<1>1. e \in S /\ step \in [S \X U -> S] /\ \A ps \in S, c \in U : step[<<ps, c>>] = Cut(ps, c, sep)
  BY DEF SplitStepOf
<1>2. Split(s, sep) = it[DOMAIN s]
  BY DEF Split, FoldLeft, MapThenFoldSet, Cut
<1> HIDE DEF step, e
<1>3. PICK g : Sound(g, s, S, e, step) /\ Builds(g, s, S, U)
  BY <1>1, SoundExists
<1>4. g = F(g)
  BY <1>1, <1>3 DEF Sound, Builds
<1>5. it = F(it)
  BY <1>4
<1> HIDE DEF it
<1>6. Sound(it, s, S, e, step)
  <2>1. \A t \in SUBSET DOMAIN s : t # {} => s[Max(t)] \in U
    BY <1>3 DEF Builds
  <2>2. \A t \in SUBSET DOMAIN s :
           it[t] = IF t = {} THEN e ELSE Cut(it[t \ {Max(t)}], s[Max(t)], sep)
    BY <1>5
  <2>3. QED
    BY <1>1, <2>1, <2>2 DEF Sound
<1>7. Meets(it, s, S, e, step)
  BY <1>1, <1>6, SoundValue
<1>8. QED
  BY <1>2, <1>7 DEF Meets, e, step

\* The parts, a character at a time; none has the separator.
LEMMA SplitIs ==
    ASSUME NEW U, NEW sep, NEW s \in Seq(U)
    PROVE  /\ Split(<<>>, sep) = <<<<>>>> /\ Split(s, sep) \in Parts(Within(U, sep))
           /\ \A c \in U : Split(Append(s, c), sep) = Cut(Split(s, sep), c, sep)
<1> DEFINE S == Parts(Within(U, sep))
<1>1. SplitStepOf(U, S, sep)
  BY SplitStepIs
<1> HIDE DEF S
<1>2. \A t \in Seq(U) : Split(t, sep) = Value(t, S, <<<<>>>>, SplitStep(U, sep))
  BY <1>1, SplitFolds
<1>3. <<>> \in Seq(U) /\ \A c \in U : Append(s, c) \in Seq(U)
  BY AppendProperties
<1>4. Steps(s, U, S, <<<<>>>>, SplitStep(U, sep))
  BY <1>1, ValueIs DEF SplitStepOf
<1>5. /\ Split(<<>>, sep) = <<<<>>>> /\ Split(s, sep) \in S
      /\ \A c \in U : Split(Append(s, c), sep) = Cut(Split(s, sep), c, sep)
  BY <1>1, <1>2, <1>3, <1>4 DEF Steps, SplitStepOf
<1>6. QED
  BY <1>5 DEF S

\* A filter takes lists one after another.
LEMMA AmongConcat ==
    ASSUME NEW U, NEW s \in Seq(U), NEW t \in Seq(U), NEW set
    PROVE  Among(s \o t, set) = Among(s, set) \o Among(t, set)
<1> DEFINE T == {u \in Seq(U) : Among(s \o u, set) = Among(s, set) \o Among(u, set)}
<1>1. \A u \in Seq(U) : Among(u, set) \in Seq(U) /\ s \o u \in Seq(U)
  BY AmongSeq, ConcatProperties
<1>2. <<>> \in T
  <2>1. s \o <<>> = s /\ Among(s, set) \o <<>> = Among(s, set) /\ <<>> \in Seq(U)
    BY <1>1, ConcatEmptySeq
  <2>2. QED
    BY <2>1, AmongNone
<1>3. ASSUME NEW u \in Seq(U), NEW x \in U, u \in T PROVE Append(u, x) \in T
  <2>1. Append(u, x) \in Seq(U) /\ s \o Append(u, x) = Append(s \o u, x)
    BY SMTT(30), ConcatAppend, AppendProperties
  <2>2. /\ Among(Append(s \o u, x), set) = Step(Among(s \o u, set), x, set)
        /\ Among(Append(u, x), set) = Step(Among(u, set), x, set)
    BY <1>1, AmongAppend
  <2>3. Among(s, set) \o Append(Among(u, set), x) = Append(Among(s, set) \o Among(u, set), x)
    BY <1>1, ConcatAppend
  <2>4. QED
    BY <1>3, <2>1, <2>2, <2>3 DEF Step
<1>4. t \in T
  <2> HIDE DEF T
  <2>1. QED
    BY <1>2, <1>3, ListInductive
<1>5. QED
  BY <1>4

\* Lists of lists one after another.
LEMMA FlattenConcat ==
    ASSUME NEW U, NEW s \in Seq(Seq(U)), NEW t \in Seq(Seq(U))
    PROVE  Flatten(s \o t) = Flatten(s) \o Flatten(t)
<1> DEFINE S == Seq(U)
           T == {u \in Seq(S) : Flatten(s \o u) = Flatten(s) \o Flatten(u)}
<1>1. \A u \in Seq(S) : Flatten(u) \in S /\ s \o u \in Seq(S)
  BY FlattenIs, ConcatProperties
<1>2. <<>> \in T
  <2>1. s \o <<>> = s /\ Flatten(s) \o <<>> = Flatten(s) /\ <<>> \in Seq(S)
    BY <1>1, ConcatEmptySeq
  <2>2. QED
    BY <2>1, FlattenIs
<1>3. ASSUME NEW u \in Seq(S), NEW x \in S, u \in T PROVE Append(u, x) \in T
  <2>1. Append(u, x) \in Seq(S) /\ s \o Append(u, x) = Append(s \o u, x)
    BY SMTT(30), ConcatAppend, AppendProperties
  <2>2. /\ Flatten(Append(s \o u, x)) = Flatten(s \o u) \o x
        /\ Flatten(Append(u, x)) = Flatten(u) \o x
    BY <1>1, FlattenIs
  <2>3. (Flatten(s) \o Flatten(u)) \o x = Flatten(s) \o (Flatten(u) \o x)
    <3> DEFINE fs == Flatten(s)
               fu == Flatten(u)
    <3>1. fs \in Seq(U) /\ fu \in Seq(U) /\ x \in Seq(U)
      BY <1>1
    <3> HIDE DEF fs, fu, S, T
    <3>2. (fs \o fu) \o x = fs \o (fu \o x)
      BY ONLY SMTT(30), <3>1, ConcatAssociative
    <3>3. QED
      BY <3>2 DEF fs, fu
  <2>4. QED
    BY <1>3, <2>1, <2>2, <2>3
<1>4. t \in T
  <2> HIDE DEF T
  <2>1. t \in Seq(S) /\ \A u \in Seq(S) : u \in T
    BY <1>2, <1>3, ListInductive
  <2>2. QED
    BY <2>1
<1>5. QED
  BY <1>4

\* One list is itself.
LEMMA FlattenOne == ASSUME NEW U, NEW l \in Seq(U) PROVE Flatten(<<l>>) = l
<1>1. <<>> \in Seq(Seq(U)) /\ Append(<<>>, l) = <<l>>
  OBVIOUS
<1>2. Flatten(Append(<<>>, l)) = Flatten(<<>>) \o l /\ Flatten(<<>>) = <<>>
  BY <1>1, FlattenIs
<1>3. QED
  BY <1>1, <1>2, ConcatEmptySeq

Chop(ps, c) == IF Bytes(Last(ps)) >= Width THEN Append(ps, <<c>>) ELSE Grow(ps, c)

ChopStep(V) == [p \in Parts(V) \X V |-> Chop(p[1], p[2])]

ChopStepOf(V, S) ==
    /\ <<<<>>>> \in S /\ ChopStep(V) \in [S \X V -> S]
    /\ \A ps \in S, c \in V : ChopStep(V)[<<ps, c>>] = Chop(ps, c)

\* Chopping appends to the whole.
LEMMA ChopIs ==
    ASSUME NEW V, NEW ps \in Parts(V), NEW c \in V
    PROVE  Chop(ps, c) \in Parts(V) /\ Flatten(Chop(ps, c)) = Append(Flatten(ps), c)
<1>1. ps \in Seq(Seq(V)) /\ <<c>> \in Seq(V)
  BY DEF Parts
<1>2. Append(ps, <<c>>) \in Seq(Seq(V)) /\ Append(ps, <<c>>) # <<>>
  <2> DEFINE w == <<c>>
             S == Seq(V)
  <2>1. ps \in Seq(S) /\ w \in S
    BY <1>1
  <2> HIDE DEF w, S
  <2>2. Append(ps, w) \in Seq(S) /\ Append(ps, w) # <<>>
    BY ONLY <2>1, AppendProperties
  <2>3. QED
    BY <2>2 DEF w, S
<1>3. Flatten(ps) \in Seq(V) /\ Flatten(Append(ps, <<c>>)) = Flatten(ps) \o <<c>>
  BY <1>1, FlattenIs
<1>4. Flatten(ps) \o <<c>> = Append(Flatten(ps), c)
  BY <1>3, AppendIsConcat
<1>5. Append(ps, <<c>>) \in Parts(V)
  BY <1>2 DEF Parts
<1>6. QED
  BY <1>3, <1>4, <1>5, GrowIs DEF Chop

\* A chop is a step of a fold, on parts.
LEMMA ChopStepIs == ASSUME NEW V PROVE ChopStepOf(V, Parts(V))
<1> DEFINE S == Parts(V)
<1>1. <<<<>>>> \in S
  BY DEF Parts
<1>2. \A ps \in S, c \in V : Chop(ps, c) \in S
  BY ChopIs
<1>3. ChopStep(V) = [p \in S \X V |-> Chop(p[1], p[2])]
  BY DEF ChopStep
<1> HIDE DEF S
<1>4. ChopStepOf(V, S)
  BY <1>1, <1>2, <1>3 DEF ChopStepOf
<1>5. QED
  BY <1>4 DEF S

\* `chunks` is a fold of chops.
LEMMA ChunksFolds ==
    ASSUME NEW V, NEW S, ChopStepOf(V, S), NEW s \in Seq(V)
    PROVE  Chunks(s) = Value(s, S, <<<<>>>>, ChopStep(V))
<1> DEFINE step == ChopStep(V)
           e == <<<<>>>>
           F(iter) == [t \in SUBSET DOMAIN s |->
                          IF t = {} THEN e ELSE Chop(iter[t \ {Max(t)}], s[Max(t)])]
           it == CHOOSE iter : iter = F(iter)
<1>1. e \in S /\ step \in [S \X V -> S] /\ \A ps \in S, c \in V : step[<<ps, c>>] = Chop(ps, c)
  BY DEF ChopStepOf
<1>2. Chunks(s) = it[DOMAIN s]
  BY DEF Chunks, FoldLeft, MapThenFoldSet, Chop
<1> HIDE DEF step, e
<1>3. PICK g : Sound(g, s, S, e, step) /\ Builds(g, s, S, V)
  BY <1>1, SoundExists
<1>4. g = F(g)
  BY <1>1, <1>3 DEF Sound, Builds
<1>5. it = F(it)
  BY <1>4
<1> HIDE DEF it
<1>6. Sound(it, s, S, e, step)
  <2>1. \A t \in SUBSET DOMAIN s : t # {} => s[Max(t)] \in V
    BY <1>3 DEF Builds
  <2>2. \A t \in SUBSET DOMAIN s :
           it[t] = IF t = {} THEN e ELSE Chop(it[t \ {Max(t)}], s[Max(t)])
    BY <1>5
  <2>3. QED
    BY <1>1, <2>1, <2>2 DEF Sound
<1>7. Meets(it, s, S, e, step)
  BY <1>1, <1>6, SoundValue
<1>8. QED
  BY <1>2, <1>7 DEF Meets, e, step

\* The pieces, a character at a time.
LEMMA ChunksIs ==
    ASSUME NEW V, NEW s \in Seq(V)
    PROVE  /\ Chunks(<<>>) = <<<<>>>> /\ Chunks(s) \in Parts(V)
           /\ \A c \in V : Chunks(Append(s, c)) = Chop(Chunks(s), c)
<1> DEFINE S == Parts(V)
<1>1. ChopStepOf(V, S)
  BY ChopStepIs
<1> HIDE DEF S
<1>2. \A t \in Seq(V) : Chunks(t) = Value(t, S, <<<<>>>>, ChopStep(V))
  BY <1>1, ChunksFolds
<1>3. <<>> \in Seq(V) /\ \A c \in V : Append(s, c) \in Seq(V)
  BY AppendProperties
<1>4. Steps(s, V, S, <<<<>>>>, ChopStep(V))
  BY <1>1, ValueIs DEF ChopStepOf
<1>5. /\ Chunks(<<>>) = <<<<>>>> /\ Chunks(s) \in S
      /\ \A c \in V : Chunks(Append(s, c)) = Chop(Chunks(s), c)
  BY <1>1, <1>2, <1>3, <1>4 DEF Steps, ChopStepOf
<1>6. QED
  BY <1>5 DEF S

\* Chunks of a word are the word.
LEMMA ChunksWhole ==
    ASSUME NEW V, NEW s \in Seq(V)
    PROVE  Chunks(s) \in Seq(Seq(V)) /\ Flatten(Chunks(s)) = s
<1> DEFINE T == {t \in Seq(V) : Flatten(Chunks(t)) = t}
<1>1. <<>> \in T
  <2>1. <<>> \in Seq(V) /\ Chunks(<<>>) = <<<<>>>>
    BY ChunksIs
  <2>2. Flatten(<<<<>>>>) = <<>>
    BY <2>1, FlattenOne
  <2>3. QED
    BY <2>1, <2>2
<1>2. ASSUME NEW t \in Seq(V), NEW c \in V, t \in T PROVE Append(t, c) \in T
  <2>1. Append(t, c) \in Seq(V)
    BY AppendProperties
  <2>2. Chunks(t) \in Parts(V) /\ Chunks(Append(t, c)) = Chop(Chunks(t), c)
    BY ChunksIs
  <2>3. Flatten(Chop(Chunks(t), c)) = Append(Flatten(Chunks(t)), c)
    BY <2>2, ChopIs
  <2>4. QED
    BY <1>2, <2>1, <2>2, <2>3
<1>3. s \in T
  <2> HIDE DEF T
  <2>1. QED
    BY <1>1, <1>2, ListInductive
<1>4. QED
  BY <1>3, ChunksIs DEF Parts

-----------------------------------------------------------------------------
\* Characters, words and lines.

\* A letter, a space or a newline; or a code.
Style == [on : SUBSET Toggles, fg : Colour, bg : Colour, code : Nat]
Character ==
    [char : Letters \cup Blank, style : Style] \cup [char : {"toggle"}, toggle : Toggles]
        \cup [char : {"hex", "decimal"}, fg : Colour, bg : Colour, at : Nat, size : Nat]

\* A word has no place to break; a line that fits, or is a word.
Word == Seq(Within(Character, " "))
Fit == {l \in Seq(Character) : Len(l) <= Width \/ l \in Word}

\* The kinds of lines and what they are made of.
LEMMA CharacterTypes ==
    /\ Space \in Character /\ Newline \in Character /\ Default \in Style
    /\ Word \subseteq Fit /\ <<>> \in Word
<1>1. Default \in Style
  BY DEF Default, Style, Colour
<1>2. Space \in Character /\ Newline \in Character
  BY <1>1 DEF Space, Newline, Char, Character, Blank
<1>3. \A w \in Word : w \in Seq(Character)
  <2>1. Within(Character, " ") \subseteq Character
    BY DEF Within
  <2>2. QED
    BY <2>1, SeqMonotonic DEF Word
<1>4. <<>> \in Word
  BY DEF Word
<1> HIDE DEF Word
<1>5. QED
  BY <1>1, <1>2, <1>3, <1>4 DEF Fit

\* Lines so far and the line under way.
Placed == [lines : Seq(Fit), line : Fit]
Bare == [lines |-> <<>>, line |-> <<>>]
Written(acc) == Flatten(acc.lines) \o acc.line

\* A word goes after what is written, maybe with a space between, and every line fits.
LEMMA PlaceIs ==
    ASSUME NEW acc \in Placed, NEW word \in Word
    PROVE  /\ Place(acc, word) \in Placed
           /\ \/ Written(Place(acc, word)) = Written(acc) \o word
              \/ Written(Place(acc, word)) = Written(acc) \o (<<Space>> \o word)
<1> DEFINE ls == acc.lines
           l  == acc.line
           C  == Seq(Character)
<1>1. ls \in Seq(Fit) /\ l \in Fit /\ Written(acc) = Flatten(ls) \o l
  BY DEF Placed, Written
<1>2. /\ l \in C /\ word \in C /\ word \in Fit /\ Len(l) \in Nat /\ Len(word) \in Nat
      /\ <<>> \in Fit /\ <<>> \in C /\ <<Space>> \in C /\ Fit \subseteq C
  BY <1>1, CharacterTypes, LenProperties DEF Fit
<1>3. ls \in Seq(C) /\ Flatten(ls) \in C
  <2>1. ls \in Seq(C)
    BY <1>1, <1>2, SeqMonotonic
  <2>2. QED
    BY <2>1, FlattenIs
<1> HIDE DEF ls, l
<1>4. CASE l = <<>> /\ Len(word) > Width
  <2> DEFINE cs == Chunks(word)
  <2>1. Place(acc, word) = [lines |-> ls \o cs, line |-> <<>>]
    <3>1. ~(Len(word) <= Width)
      BY <1>2, <1>4, RenderingAssumption
    <3>2. QED
      BY <1>4, <3>1 DEF Place, ls, l
  <2>2. cs \in Seq(Word) /\ Flatten(cs) = word
    BY ChunksWhole DEF Word
  <2> HIDE DEF cs
  <2>3. cs \in Seq(Fit) /\ cs \in Seq(C)
    BY <1>2, <2>2, CharacterTypes, SeqMonotonic
  <2>4. ls \o cs \in Seq(Fit)
    BY <1>1, <2>3, ConcatProperties
  <2>5. Flatten(ls \o cs) = Flatten(ls) \o word
    BY <1>3, <2>2, <2>3, FlattenConcat
  <2>6. Flatten(ls) \o word \in C /\ (Flatten(ls) \o word) \o <<>> = Flatten(ls) \o word
        /\ Flatten(ls) \o <<>> = Flatten(ls)
    BY <1>2, <1>3, ConcatProperties, ConcatEmptySeq
  <2>7. QED
    BY SMTT(30), <1>1, <1>2, <1>4, <2>1, <2>4, <2>5, <2>6 DEF Placed, Written
<1>5. CASE l = <<>> /\ ~(Len(word) > Width)
  <2>1. Place(acc, word) = [lines |-> ls, line |-> word]
    <3>1. Len(word) <= Width
      BY <1>2, <1>5, RenderingAssumption
    <3>2. QED
      BY <1>5, <3>1 DEF Place, ls, l
  <2>2. Flatten(ls) \o <<>> = Flatten(ls)
    BY <1>3, ConcatEmptySeq
  <2>3. QED
    BY <1>1, <1>2, <1>5, <2>1, <2>2 DEF Placed, Written
<1>6. CASE l # <<>> /\ Len(l) + 1 + Len(word) <= Width
  <2> DEFINE more == <<Space>> \o word
             m == l \o more
  <2>1. Place(acc, word) = [lines |-> ls, line |-> m]
    BY <1>6 DEF Place, ls, l
  <2>2. more \in C /\ Len(more) = 1 + Len(word)
    BY <1>2, ConcatProperties
  <2> HIDE DEF more
  <2>3. m \in C /\ Len(m) = Len(l) + 1 + Len(word) /\ Flatten(ls) \o m = (Flatten(ls) \o l) \o more
    <3>1. m \in C /\ Len(m) = Len(l) + Len(more)
      BY <1>2, <2>2, ConcatProperties
    <3>2. Flatten(ls) \o m = (Flatten(ls) \o l) \o more
      <4>1. \A a, b, c \in C : (a \o b) \o c = a \o (b \o c)
        BY ConcatAssociative
      <4>2. Flatten(ls) \in C /\ l \in C /\ more \in C
        BY <1>2, <1>3, <2>2
      <4> HIDE DEF C
      <4>3. QED
        BY <4>1, <4>2
    <3> HIDE DEF m
    <3>3. QED
      BY <1>2, <2>2, <3>1, <3>2
  <2> HIDE DEF m
  <2>4. m \in Fit
    BY <1>6, <2>3 DEF Fit
  <2>5. Place(acc, word) \in Placed
    BY <1>1, <2>1, <2>4 DEF Placed
  <2>6. Written(Place(acc, word)) = Written(acc) \o more
    BY SMTT(30), <1>1, <2>1, <2>3 DEF Written
  <2>7. QED
    BY <2>5, <2>6 DEF more
<1>7. CASE l # <<>> /\ ~(Len(l) + 1 + Len(word) <= Width)
  <2>1. Place(acc, word) = [lines |-> Append(ls, l), line |-> word]
    BY <1>7 DEF Place, ls, l
  <2>2. Append(ls, l) \in Seq(Fit)
    BY <1>1, AppendProperties
  <2>3. Flatten(Append(ls, l)) = Flatten(ls) \o l
    BY <1>2, <1>3, FlattenIs
  <2>4. Place(acc, word) \in Placed
    BY <1>2, <2>1, <2>2 DEF Placed
  <2> DEFINE kept == Append(ls, l)
  <2> HIDE DEF kept
  <2>5. Written(Place(acc, word)) = Flatten(kept) \o word
    <3>1. Place(acc, word) = [lines |-> kept, line |-> word]
      BY <2>1 DEF kept
    <3>2. QED
      BY <3>1 DEF Written
  <2>6. QED
    BY <1>1, <2>3, <2>4, <2>5 DEF kept
<1>8. QED
  BY <1>4, <1>5, <1>6, <1>7

PlaceStep == [p \in Placed \X Word |-> Place(p[1], p[2])]

\* Placing is a step of a fold.
LEMMA PlaceStepIs ==
    /\ Bare \in Placed /\ PlaceStep \in [Placed \X Word -> Placed]
    /\ \A acc \in Placed, w \in Word : PlaceStep[<<acc, w>>] = Place(acc, w)
<1>1. \A acc \in Placed, w \in Word : Place(acc, w) \in Placed
  BY PlaceIs
<1>2. Bare \in Placed
  <2>1. <<>> \in Seq(Fit) /\ <<>> \in Fit
    BY CharacterTypes
  <2>2. QED
    BY <2>1 DEF Bare, Placed
<1>3. QED
  BY <1>1, <1>2 DEF PlaceStep

\* The words of a line are placed by a fold.
LEMMA PlaceAllFolds ==
    ASSUME NEW ws \in Seq(Word)
    PROVE  PlaceAll(ws) = Value(ws, Placed, Bare, PlaceStep)
<1> DEFINE F(iter) == [t \in SUBSET DOMAIN ws |->
                          IF t = {} THEN Bare ELSE Place(iter[t \ {Max(t)}], ws[Max(t)])]
           it == CHOOSE iter : iter = F(iter)
<1>1. PlaceAll(ws) = it[DOMAIN ws]
  BY DEF PlaceAll, FoldLeft, MapThenFoldSet, Bare
<1>2. PICK g : Sound(g, ws, Placed, Bare, PlaceStep) /\ Builds(g, ws, Placed, Word)
  BY PlaceStepIs, SoundExists
<1>3. g = F(g)
  BY <1>2, PlaceStepIs DEF Sound, Builds
<1>4. it = F(it)
  BY <1>3
<1> HIDE DEF it
<1>5. Sound(it, ws, Placed, Bare, PlaceStep)
  <2>1. \A t \in SUBSET DOMAIN ws : t # {} => ws[Max(t)] \in Word
    BY <1>2 DEF Builds
  <2>2. \A t \in SUBSET DOMAIN ws :
           it[t] = IF t = {} THEN Bare ELSE Place(it[t \ {Max(t)}], ws[Max(t)])
    BY <1>4
  <2>3. QED
    BY <2>1, <2>2, PlaceStepIs DEF Sound
<1>6. Meets(it, ws, Placed, Bare, PlaceStep)
  BY <1>5, PlaceStepIs, SoundValue
<1>7. QED
  BY <1>1, <1>6 DEF Meets

\* The words placed, one at a time.
LEMMA PlaceAllIs ==
    ASSUME NEW ws \in Seq(Word)
    PROVE  /\ PlaceAll(<<>>) = Bare /\ PlaceAll(ws) \in Placed
           /\ \A w \in Word : PlaceAll(Append(ws, w)) = Place(PlaceAll(ws), w)
<1>1. <<>> \in Seq(Word) /\ \A w \in Word : Append(ws, w) \in Seq(Word)
  BY AppendProperties
<1>2. Steps(ws, Word, Placed, Bare, PlaceStep)
  BY PlaceStepIs, ValueIs
<1>3. \A vs \in Seq(Word) : PlaceAll(vs) = Value(vs, Placed, Bare, PlaceStep)
  BY PlaceAllFolds
<1>4. QED
  BY <1>1, <1>2, <1>3, PlaceStepIs DEF Steps

\* What is no space and no line break: letters and codes.
Marks == {c \in Character : ~IsBlank(c)}
Marked(s) == Among(s, Marks)

\* The marks of a text, a character or a text at a time.
LEMMA MarkedIs ==
    /\ Marked(<<>>) = <<>>
    /\ \A s \in Seq(Character) : Marked(s) \in Seq(Character)
    /\ \A s, t \in Seq(Character) : Marked(s \o t) = Marked(s) \o Marked(t)
    /\ \A s \in Seq(Character), c \in Character :
          Marked(Append(s, c)) = IF IsBlank(c) THEN Marked(s) ELSE Append(Marked(s), c)
<1>1. \A s \in Seq(Character), c \in Character : Among(Append(s, c), Marks) = Step(Among(s, Marks), c, Marks)
  BY AmongAppend
<1>2. \A c \in Character : c \in Marks <=> ~IsBlank(c)
  BY DEF Marks
<1>3. \A s, t \in Seq(Character) : Among(s \o t, Marks) = Among(s, Marks) \o Among(t, Marks)
  BY AmongConcat
<1>4. \A s \in Seq(Character) : Among(s, Marks) \in Seq(Character)
  BY AmongSeq
<1>5. QED
  BY <1>1, <1>2, <1>3, <1>4, AmongNone DEF Marked, Step

\* A space before a text adds no mark.
LEMMA SpaceUnmarked ==
    ASSUME NEW s \in Seq(Character)
    PROVE  Marked(<<Space>> \o s) = Marked(s) /\ <<Space>> \o s \in Seq(Character)
<1>1. <<>> \in Seq(Character) /\ <<Space>> = Append(<<>>, Space) /\ IsBlank(Space)
  BY DEF IsBlank, Blank, Space, Char
<1>2. Marked(<<Space>>) = <<>> /\ <<Space>> \in Seq(Character)
  <2>1. Append(<<>>, Space) \in Seq(Character) /\ Marked(Append(<<>>, Space)) = Marked(<<>>)
    BY <1>1, MarkedIs, CharacterTypes, AppendProperties
  <2>2. QED
    BY <1>1, <2>1, MarkedIs
<1>3. Marked(<<Space>> \o s) = Marked(<<Space>>) \o Marked(s) /\ Marked(s) \in Seq(Character)
  BY <1>2, MarkedIs
<1>4. QED
  BY <1>2, <1>3, ConcatEmptySeq, ConcatProperties

\* The words of a line, one after another.
LEMMA WordsFlat ==
    ASSUME NEW ws \in Seq(Word)
    PROVE  /\ ws \in Seq(Seq(Character)) /\ Flatten(ws) \in Seq(Character)
           /\ \A w \in Word : w \in Seq(Character) /\ Flatten(Append(ws, w)) = Flatten(ws) \o w
<1>1. \A w \in Word : w \in Seq(Character)
  BY CharacterTypes DEF Fit
<1>2. ws \in Seq(Seq(Character))
  BY <1>1, SeqMonotonic
<1>3. QED
  BY <1>1, <1>2, FlattenIs

\* What is written is a text.
LEMMA WrittenIs ==
    ASSUME NEW acc \in Placed
    PROVE  Written(acc) \in Seq(Character)
<1>1. acc.lines \in Seq(Fit) /\ acc.line \in Seq(Character)
  BY DEF Placed, Fit
<1>2. \A l \in Fit : l \in Seq(Character)
  BY DEF Fit
<1>3. acc.lines \in Seq(Seq(Character))
  BY <1>1, <1>2, SeqMonotonic
<1>4. Flatten(acc.lines) \in Seq(Character)
  BY <1>3, FlattenIs
<1>5. QED
  BY <1>1, <1>4, ConcatProperties DEF Written

\* Placing the words writes their marks.
LEMMA PlaceAllMarks ==
    ASSUME NEW ws \in Seq(Word)
    PROVE  Marked(Written(PlaceAll(ws))) = Marked(Flatten(ws))
<1> DEFINE T == {vs \in Seq(Word) : Marked(Written(PlaceAll(vs))) = Marked(Flatten(vs))}
<1>1. <<>> \in T
  <2>1. <<>> \in Seq(Word) /\ <<>> \in Seq(Seq(Character)) /\ <<>> \in Seq(Character)
    OBVIOUS
  <2>2. PlaceAll(<<>>) = Bare /\ Flatten(<<>>) = <<>>
    BY <2>1, PlaceAllIs, FlattenIs
  <2>3. Written(Bare) = <<>>
    BY <2>1, <2>2, ConcatEmptySeq DEF Written, Bare
  <2>4. QED
    BY <2>1, <2>2, <2>3
<1>2. ASSUME NEW vs \in Seq(Word), NEW w \in Word, vs \in T PROVE Append(vs, w) \in T
  <2> DEFINE acc == PlaceAll(vs)
  <2>1. acc \in Placed /\ PlaceAll(Append(vs, w)) = Place(acc, w) /\ Append(vs, w) \in Seq(Word)
    BY PlaceAllIs, AppendProperties
  <2>2. Marked(Written(acc)) = Marked(Flatten(vs))
    BY <1>2
  <2> HIDE DEF acc
  <2>3. Written(acc) \in Seq(Character) /\ w \in Seq(Character) /\ Flatten(vs) \in Seq(Character)
        /\ Flatten(Append(vs, w)) = Flatten(vs) \o w
    BY <2>1, WrittenIs, WordsFlat
  <2>4. Marked(Written(Place(acc, w))) = Marked(Written(acc)) \o Marked(w)
    <3>1. Marked(<<Space>> \o w) = Marked(w) /\ <<Space>> \o w \in Seq(Character)
      BY <2>3, SpaceUnmarked
    <3>2. /\ Marked(Written(acc) \o w) = Marked(Written(acc)) \o Marked(w)
          /\ Marked(Written(acc) \o (<<Space>> \o w)) = Marked(Written(acc)) \o Marked(<<Space>> \o w)
      BY <2>3, <3>1, MarkedIs
    <3>3. QED
      BY <2>1, <3>1, <3>2, PlaceIs
  <2>5. Marked(Flatten(vs) \o w) = Marked(Flatten(vs)) \o Marked(w)
    BY <2>3, MarkedIs
  <2>6. QED
    BY <2>1, <2>2, <2>3, <2>4, <2>5
<1>3. ws \in T
  <2> HIDE DEF T
  <2>1. QED
    BY <1>1, <1>2, ListInductive
<1>4. QED
  BY <1>3

\* Cutting at a space or a line break loses nothing else.
LEMMA SplitMarks ==
    ASSUME NEW sep \in Blank, NEW s \in Seq(Character)
    PROVE  /\ Split(s, sep) \in Seq(Seq(Within(Character, sep)))
           /\ Split(s, sep) \in Seq(Seq(Character))
           /\ Marked(Flatten(Split(s, sep))) = Marked(s)
<1> DEFINE V == Within(Character, sep)
           T == {t \in Seq(Character) : Marked(Flatten(Split(t, sep))) = Marked(t)}
<1>1. V \subseteq Character /\ \A c \in V : c \in Character /\ c.char # sep
  BY DEF Within
<1>2. \A ps \in Seq(Seq(V)) : ps \in Seq(Seq(Character))
  <2>1. \A w \in Seq(V) : w \in Seq(Character)
    BY <1>1, SeqMonotonic
  <2>2. QED
    BY <2>1, SeqMonotonic
<1>3. \A t \in Seq(Character) : Split(t, sep) \in Parts(V) /\ Split(t, sep) \in Seq(Seq(V))
  BY SplitIs DEF Parts
<1>4. <<>> \in T
  <2>1. <<>> \in Seq(Character) /\ Split(<<>>, sep) = <<<<>>>>
    <3>1. \A t \in Seq(Character) : Split(<<>>, sep) = <<<<>>>>
      BY SplitIs
    <3>2. <<>> \in Seq(Character)
      OBVIOUS
    <3>3. QED
      BY <3>1, <3>2
  <2>2. Flatten(<<<<>>>>) = <<>>
    BY <2>1, FlattenOne
  <2>3. QED
    BY <2>1, <2>2
<1>5. ASSUME NEW t \in Seq(Character), NEW c \in Character, t \in T PROVE Append(t, c) \in T
  <2> DEFINE ps == Split(t, sep)
  <2>1. /\ ps \in Parts(V) /\ ps \in Seq(Seq(V)) /\ Split(Append(t, c), sep) = Cut(ps, c, sep)
        /\ Append(t, c) \in Seq(Character)
    BY <1>3, SplitIs, AppendProperties
  <2>2. Marked(Flatten(ps)) = Marked(t)
    BY <1>5
  <2> HIDE DEF ps, V
  <2>3. Flatten(ps) \in Seq(V) /\ Flatten(ps) \in Seq(Character)
    BY <1>1, <2>1, FlattenIs, SeqMonotonic
  <2>4. CASE c.char = sep
    <3>1. Flatten(Append(ps, <<>>)) = Flatten(ps) \o <<>>
      <4>1. \A l \in Seq(V) : Flatten(Append(ps, l)) = Flatten(ps) \o l
        BY <2>1, FlattenIs
      <4>2. <<>> \in Seq(V)
        OBVIOUS
      <4>3. QED
        BY <4>1, <4>2
    <3>2. Flatten(Append(ps, <<>>)) = Flatten(ps)
      BY <2>3, <3>1, ConcatEmptySeq
    <3>3. Marked(Append(t, c)) = Marked(t)
      BY <2>4, MarkedIs DEF IsBlank
    <3>4. QED
      BY <2>1, <2>2, <2>4, <3>2, <3>3 DEF Cut
  <2>5. CASE c.char # sep
    <3>1. c \in V
      BY <2>5 DEF V, Within
    <3>2. Flatten(Grow(ps, c)) = Append(Flatten(ps), c)
      BY <2>1, <3>1, GrowIs
    <3>3. /\ Marked(Append(t, c)) = IF IsBlank(c) THEN Marked(t) ELSE Append(Marked(t), c)
          /\ Marked(Append(Flatten(ps), c))
                = IF IsBlank(c) THEN Marked(Flatten(ps)) ELSE Append(Marked(Flatten(ps)), c)
      BY <2>3, MarkedIs
    <3>4. QED
      BY <2>1, <2>2, <2>5, <3>2, <3>3 DEF Cut
  <2>6. QED
    BY <2>4, <2>5
<1>6. s \in T
  <2> HIDE DEF T
  <2>1. QED
    BY <1>4, <1>5, ListInductive
<1>7. QED
  BY <1>2, <1>3, <1>6

\* A line is wrapped into lines that fit, with its marks.
LEMMA WrapLineIs ==
    ASSUME NEW l \in Seq(Character)
    PROVE  WrapLine(l) \in Seq(Fit) /\ Marked(Flatten(WrapLine(l))) = Marked(l)
<1>1. CASE Len(l) <= Width
  <2>1. l \in Fit /\ WrapLine(l) = <<l>>
    BY <1>1 DEF Fit, WrapLine
  <2>2. Flatten(<<l>>) = l
    BY FlattenOne
  <2>3. QED
    BY <2>1, <2>2
<1>2. CASE ~(Len(l) <= Width)
  <2> DEFINE ws  == Split(l, " ")
             acc == PlaceAll(ws)
             ls  == acc.lines
  <2>1. WrapLine(l) = IF acc.line = <<>> THEN ls ELSE Append(ls, acc.line)
    BY <1>2 DEF WrapLine
  <2>2. ws \in Seq(Word) /\ Marked(Flatten(ws)) = Marked(l)
    BY SplitMarks DEF Blank, Word
  <2>3. acc \in Placed /\ Marked(Written(acc)) = Marked(l)
    BY <2>2, PlaceAllIs, PlaceAllMarks
  <2> HIDE DEF acc
  <2>4. ls \in Seq(Fit) /\ acc.line \in Fit /\ Written(acc) = Flatten(ls) \o acc.line
    BY <2>3 DEF Placed, Written
  <2>5. ls \in Seq(Seq(Character)) /\ acc.line \in Seq(Character)
    <3>1. \A x \in Fit : x \in Seq(Character)
      BY DEF Fit
    <3>2. QED
      BY <2>4, <3>1, SeqMonotonic
  <2> HIDE DEF ls
  <2>6. /\ Flatten(ls) \in Seq(Character) /\ Flatten(ls) \o <<>> = Flatten(ls)
        /\ Flatten(Append(ls, acc.line)) = Flatten(ls) \o acc.line
    <3>1. Flatten(ls) \in Seq(Character) /\ \A x \in Seq(Character) : Flatten(Append(ls, x)) = Flatten(ls) \o x
      BY <2>5, FlattenIs
    <3>2. QED
      BY <2>5, <3>1, ConcatEmptySeq
  <2>7. Append(ls, acc.line) \in Seq(Fit)
    BY <2>4, AppendProperties
  <2>8. QED
    BY <2>1, <2>3, <2>4, <2>6, <2>7
<1>3. QED
  BY <1>1, <1>2

\* The lines of a body, each wrapped.
WrapsTo(a, l) == a \o WrapLine(l)
WrapStep == [p \in Seq(Fit) \X Seq(Character) |-> WrapsTo(p[1], p[2])]

WrapStepOf(S, U) ==
    /\ <<>> \in S /\ WrapStep \in [S \X U -> S]
    /\ \A a \in S, l \in U : WrapStep[<<a, l>>] = WrapsTo(a, l)

\* Wrapping a line is a step of a fold.
LEMMA WrapStepIs == WrapStepOf(Seq(Fit), Seq(Character))
<1> DEFINE S == Seq(Fit)
           U == Seq(Character)
<1>1. <<>> \in S
  OBVIOUS
<1>2. \A a \in S, l \in U : WrapsTo(a, l) \in S
  BY WrapLineIs, ConcatProperties DEF WrapsTo
<1>3. WrapStep = [p \in S \X U |-> WrapsTo(p[1], p[2])]
  BY DEF WrapStep
<1> HIDE DEF S, U
<1>4. WrapStepOf(S, U)
  BY <1>1, <1>2, <1>3 DEF WrapStepOf
<1>5. QED
  BY <1>4 DEF S, U

\* The lines are wrapped by a fold.
LEMMA WrapAllFolds ==
    ASSUME NEW S, NEW U, WrapStepOf(S, U), NEW ls \in Seq(U)
    PROVE  WrapAll(ls) = Value(ls, S, <<>>, WrapStep)
<1> DEFINE F(iter) == [t \in SUBSET DOMAIN ls |->
                          IF t = {} THEN <<>> ELSE WrapsTo(iter[t \ {Max(t)}], ls[Max(t)])]
           it == CHOOSE iter : iter = F(iter)
<1>1. <<>> \in S /\ WrapStep \in [S \X U -> S] /\ \A a \in S, l \in U : WrapStep[<<a, l>>] = WrapsTo(a, l)
  BY DEF WrapStepOf
<1>2. WrapAll(ls) = it[DOMAIN ls]
  BY DEF WrapAll, FoldLeft, MapThenFoldSet, WrapsTo
<1>3. PICK g : Sound(g, ls, S, <<>>, WrapStep) /\ Builds(g, ls, S, U)
  BY <1>1, SoundExists
<1>4. g = F(g)
  BY <1>1, <1>3 DEF Sound, Builds
<1>5. it = F(it)
  BY <1>4
<1> HIDE DEF it
<1>6. Sound(it, ls, S, <<>>, WrapStep)
  <2>1. \A t \in SUBSET DOMAIN ls : t # {} => ls[Max(t)] \in U
    BY <1>3 DEF Builds
  <2>2. \A t \in SUBSET DOMAIN ls :
           it[t] = IF t = {} THEN <<>> ELSE WrapsTo(it[t \ {Max(t)}], ls[Max(t)])
    BY <1>5
  <2>3. QED
    BY <1>1, <2>1, <2>2 DEF Sound
<1>7. Meets(it, ls, S, <<>>, WrapStep)
  BY <1>1, <1>6, SoundValue
<1>8. QED
  BY <1>2, <1>7 DEF Meets

\* The lines wrapped, one at a time.
LEMMA WrapAllIs ==
    ASSUME NEW ls \in Seq(Seq(Character))
    PROVE  /\ WrapAll(<<>>) = <<>> /\ WrapAll(ls) \in Seq(Fit)
           /\ \A l \in Seq(Character) : WrapAll(Append(ls, l)) = WrapAll(ls) \o WrapLine(l)
<1> DEFINE S == Seq(Fit)
           U == Seq(Character)
<1>1. WrapStepOf(S, U)
  BY WrapStepIs
<1>2. ls \in Seq(U)
  OBVIOUS
<1> HIDE DEF S, U
<1>3. \A ms \in Seq(U) : WrapAll(ms) = Value(ms, S, <<>>, WrapStep)
  BY <1>1, WrapAllFolds
<1>4. <<>> \in Seq(U) /\ \A l \in U : Append(ls, l) \in Seq(U)
  BY <1>2, AppendProperties
<1>5. Steps(ls, U, S, <<>>, WrapStep)
  BY <1>1, <1>2, ValueIs DEF WrapStepOf
<1>6. /\ WrapAll(<<>>) = <<>> /\ WrapAll(ls) \in S
      /\ \A l \in U : WrapAll(Append(ls, l)) = WrapsTo(WrapAll(ls), l)
  BY <1>1, <1>2, <1>3, <1>4, <1>5 DEF Steps, WrapStepOf
<1>7. QED
  BY <1>6 DEF S, U, WrapsTo

\* Lines that fit are texts.
LEMMA FitFlat ==
    ASSUME NEW ls \in Seq(Fit)
    PROVE  /\ ls \in Seq(Seq(Character)) /\ Flatten(ls) \in Seq(Character)
           /\ \A l \in Seq(Character) : Flatten(Append(ls, l)) = Flatten(ls) \o l
<1>1. \A l \in Fit : l \in Seq(Character)
  BY DEF Fit
<1>2. ls \in Seq(Seq(Character))
  BY <1>1, SeqMonotonic
<1>3. QED
  BY <1>2, FlattenIs

\* Wrapping the lines keeps their marks.
LEMMA WrapAllMarks ==
    ASSUME NEW ls \in Seq(Seq(Character))
    PROVE  Marked(Flatten(WrapAll(ls))) = Marked(Flatten(ls))
<1> DEFINE U == Seq(Character)
           T == {ms \in Seq(U) : Marked(Flatten(WrapAll(ms))) = Marked(Flatten(ms))}
<1>1. <<>> \in T
  <2>1. <<>> \in Seq(U)
    OBVIOUS
  <2>2. WrapAll(<<>>) = <<>>
    <3>1. \A ms \in Seq(U) : WrapAll(<<>>) = <<>>
      BY WrapAllIs
    <3>2. QED
      BY <2>1, <3>1
  <2>3. QED
    BY <2>1, <2>2
<1>2. ASSUME NEW ms \in Seq(U), NEW l \in U, ms \in T PROVE Append(ms, l) \in T
  <2> DEFINE ws == WrapAll(ms)
             new == WrapLine(l)
  <2>1. /\ Append(ms, l) \in Seq(U) /\ WrapAll(Append(ms, l)) = ws \o new /\ ws \in Seq(Fit)
        /\ new \in Seq(Fit) /\ Marked(Flatten(new)) = Marked(l)
    BY WrapAllIs, WrapLineIs, AppendProperties
  <2>2. Marked(Flatten(ws)) = Marked(Flatten(ms))
    BY <1>2
  <2> HIDE DEF ws, new
  <2>3. Flatten(ms) \in U /\ Flatten(Append(ms, l)) = Flatten(ms) \o l
    BY FlattenIs
  <2>4. /\ ws \in Seq(U) /\ new \in Seq(U) /\ Flatten(ws) \in U /\ Flatten(new) \in U
    BY <2>1, FitFlat
  <2>5. Flatten(ws \o new) = Flatten(ws) \o Flatten(new)
    BY <2>4, FlattenConcat
  <2>6. /\ Marked(Flatten(ws) \o Flatten(new)) = Marked(Flatten(ws)) \o Marked(Flatten(new))
        /\ Marked(Flatten(ms) \o l) = Marked(Flatten(ms)) \o Marked(l)
    BY <2>3, <2>4, MarkedIs
  <2>7. QED
    BY <2>1, <2>2, <2>3, <2>5, <2>6
<1>3. ls \in T
  <2> HIDE DEF T
  <2>1. ls \in Seq(U) /\ \A ms \in Seq(U) : ms \in T
    BY <1>1, <1>2, ListInductive
  <2>2. QED
    BY <2>1
<1>4. QED
  BY <1>3

\* `wrap_body` makes lines that fit, with the marks of the body.
LEMMA WrapBodyIs ==
    ASSUME NEW s \in Seq(Character)
    PROVE  WrapBody(s) \in Seq(Fit) /\ Marked(Flatten(WrapBody(s))) = Marked(s)
<1>1. Split(s, "\n") \in Seq(Seq(Character)) /\ Marked(Flatten(Split(s, "\n"))) = Marked(s)
  BY SplitMarks DEF Blank
<1>2. QED
  BY <1>1, WrapAllIs, WrapAllMarks DEF WrapBody

\* Blank text has no marks.
LEMMA BlankUnmarked ==
    ASSUME NEW s \in Seq(Character), \A i \in DOMAIN s : IsBlank(s[i])
    PROVE  Marked(s) = <<>>
<1> DEFINE T == {t \in Seq(Character) : (\A i \in DOMAIN t : IsBlank(t[i])) => Marked(t) = <<>>}
<1>1. <<>> \in T
  <2>1. <<>> \in Seq(Character)
    OBVIOUS
  <2>2. QED
    BY <2>1, MarkedIs
<1>2. ASSUME NEW t \in Seq(Character), NEW c \in Character, t \in T PROVE Append(t, c) \in T
  <2> DEFINE u == Append(t, c)
             n == Len(t)
  <2>1. /\ u \in Seq(Character) /\ Len(u) = n + 1 /\ u[n + 1] = c /\ n \in Nat
        /\ DOMAIN u = 1 .. (n + 1) /\ DOMAIN t = 1 .. n /\ \A i \in 1 .. n : u[i] = t[i]
    BY AppendProperties, LenProperties
  <2>2. Marked(u) = IF IsBlank(c) THEN Marked(t) ELSE Append(Marked(t), c)
    BY MarkedIs
  <2> HIDE DEF u
  <2>3. ASSUME \A i \in DOMAIN u : IsBlank(u[i]) PROVE Marked(u) = <<>>
    <3>1. n + 1 \in DOMAIN u /\ \A i \in 1 .. n : i \in DOMAIN u
      BY <2>1
    <3>2. IsBlank(c) /\ \A i \in DOMAIN t : IsBlank(t[i])
      BY <2>1, <2>3, <3>1
    <3>3. QED
      BY <1>2, <2>2, <3>2
  <2>4. QED
    BY <2>1, <2>3 DEF u
<1>3. s \in T
  <2> HIDE DEF T
  <2>1. QED
    BY <1>1, <1>2, ListInductive
<1>4. QED
  BY <1>3

\* `trim` drops no mark.
LEMMA TrimIs ==
    ASSUME NEW s \in Seq(Character)
    PROVE  Trim(s) \in Seq(Character) /\ Marked(Trim(s)) = Marked(s)
<1> DEFINE kept == {i \in DOMAIN s : ~IsBlank(s[i])}
           n == Len(s)
<1>1. n \in Nat /\ DOMAIN s = 1 .. n /\ kept \subseteq 1 .. n /\ \A i \in 1 .. n : s[i] \in Character
  OBVIOUS
<1>2. CASE kept = {}
  <2>1. Trim(s) = <<>> /\ \A i \in DOMAIN s : IsBlank(s[i])
    BY <1>2 DEF Trim
  <2>2. <<>> \in Seq(Character)
    OBVIOUS
  <2>3. QED
    BY <2>1, <2>2, BlankUnmarked, MarkedIs
<1>3. CASE kept # {}
  <2> DEFINE a == Min(kept)
             b == Max(kept)
             head == SubSeq(s, 1, a - 1)
             mid  == SubSeq(s, a, b)
             tail == SubSeq(s, b + 1, n)
  <2>1. Trim(s) = mid
    BY <1>3 DEF Trim
  <2>2. a \in kept /\ \A i \in kept : a <= i
    <3>1. kept \subseteq Nat
      BY <1>1
    <3> HIDE DEF kept
    <3>2. PICK m \in kept : \A i \in kept : m <= i
      BY <1>3, <3>1, Smallest
    <3>3. QED
      BY <3>2 DEF Min
  <2>3. b \in kept /\ \A i \in kept : i <= b
    <3>1. kept \in SUBSET (1 .. n)
      BY <1>1
    <3> HIDE DEF kept, n
    <3>2. QED
      BY <1>1, <1>3, <3>1, Largest
  <2>4. a \in 1 .. n /\ b \in 1 .. n /\ a <= b
    BY <1>1, <2>2, <2>3
  <2>5. \A i \in 1 .. n : (i < a \/ i > b) => IsBlank(s[i])
    <3>1. \A i \in 1 .. n : i \in kept \/ IsBlank(s[i])
      BY <1>1
    <3>2. \A i \in kept : ~(i < a) /\ ~(i > b)
      <4>1. \A i \in kept : i \in 1 .. n /\ a <= i /\ i <= b
        BY <1>1, <2>2, <2>3
      <4>2. \A i \in 1 .. n : a <= i /\ i <= b => ~(i < a) /\ ~(i > b)
        BY <1>1, <2>4
      <4> HIDE DEF kept, a, b
      <4>3. QED
        BY <4>1, <4>2
    <3> HIDE DEF kept, a, b
    <3>3. QED
      BY <3>1, <3>2
  <2> HIDE DEF a, b, n, kept
  <2>6. /\ head \in Seq(Character) /\ Len(head) = a - 1 /\ \A i \in 1 .. (a - 1) : head[i] = s[i]
    <3>1. a - 1 \in Nat /\ \A i \in 1 .. (a - 1) : i \in 1 .. n
      BY <1>1, <2>4
    <3>2. \A i \in 1 .. (a - 1) : s[i] \in Character
      BY <1>1, <3>1
    <3>3. /\ head \in Seq(Character) /\ Len(head) = IF 1 <= a - 1 THEN (a - 1) - 1 + 1 ELSE 0
          /\ \A i \in 1 .. (a - 1) - 1 + 1 : head[i] = s[1 + i - 1]
      BY <3>1, <3>2, SubSeqProperties
    <3>4. (a - 1) - 1 + 1 = a - 1 /\ (IF 1 <= a - 1 THEN (a - 1) - 1 + 1 ELSE 0) = a - 1
          /\ \A i \in 1 .. (a - 1) : 1 + i - 1 = i
      BY <3>1
    <3>5. QED
      BY <3>3, <3>4
  <2>7. /\ tail \in Seq(Character) /\ Len(tail) = n - b /\ \A i \in 1 .. (n - b) : tail[i] = s[b + i]
    <3>1. b + 1 \in Int /\ n - b \in Nat /\ \A i \in (b + 1) .. n : i \in 1 .. n
      BY <1>1, <2>4
    <3>2. \A i \in (b + 1) .. n : s[i] \in Character
      BY <1>1, <3>1
    <3>3. /\ tail \in Seq(Character) /\ Len(tail) = IF b + 1 <= n THEN n - (b + 1) + 1 ELSE 0
          /\ \A i \in 1 .. n - (b + 1) + 1 : tail[i] = s[(b + 1) + i - 1]
      BY <1>1, <3>1, <3>2, SubSeqProperties
    <3>4. n - (b + 1) + 1 = n - b /\ (IF b + 1 <= n THEN n - (b + 1) + 1 ELSE 0) = n - b
          /\ \A i \in 1 .. (n - b) : (b + 1) + i - 1 = b + i
      BY <1>1, <2>4
    <3>5. QED
      BY <3>3, <3>4
  <2>8. mid \in Seq(Character)
    <3>1. \A i \in a .. b : i \in 1 .. n
      BY <1>1, <2>4
    <3>2. \A i \in a .. b : s[i] \in Character
      BY <1>1, <3>1
    <3>3. a \in Int /\ b \in Int
      BY <2>4
    <3>4. QED
      BY <3>2, <3>3, SubSeqProperties
  <2>9. Marked(head) = <<>> /\ Marked(tail) = <<>>
    <3>1. \A i \in DOMAIN head : IsBlank(head[i])
      <4>1. DOMAIN head = 1 .. (a - 1) /\ \A i \in 1 .. (a - 1) : i \in 1 .. n /\ i < a
        BY <1>1, <2>4, <2>6
      <4>2. QED
        BY <2>5, <2>6, <4>1
    <3>2. \A i \in DOMAIN tail : IsBlank(tail[i])
      <4>1. DOMAIN tail = 1 .. (n - b) /\ \A i \in 1 .. (n - b) : b + i \in 1 .. n /\ b + i > b
        BY <1>1, <2>4, <2>7
      <4>2. QED
        BY <2>5, <2>7, <4>1
    <3> HIDE DEF head, tail
    <3>3. QED
      BY <2>6, <2>7, <3>1, <3>2, BlankUnmarked
  <2>10. s = (head \o mid) \o tail
    <3>1. head \o mid = SubSeq(s, 1, b)
      <4>1. 1 \in 1 .. Len(s) + 1 /\ a - 1 \in 1 - 1 .. Len(s) /\ b \in a - 1 .. Len(s) /\ (a - 1) + 1 = a
        BY <1>1, <2>4 DEF n
      <4>2. SubSeq(s, 1, a - 1) \o SubSeq(s, (a - 1) + 1, b) = SubSeq(s, 1, b)
        BY <4>1, ConcatAdjacentSubSeq
      <4>3. QED
        BY <4>1, <4>2
    <3>2. SubSeq(s, 1, b) \o tail = SubSeq(s, 1, n)
      <4>1. 1 \in 1 .. Len(s) + 1 /\ b \in 1 - 1 .. Len(s) /\ n \in b .. Len(s)
        BY <1>1, <2>4 DEF n
      <4>2. QED
        BY <4>1, ConcatAdjacentSubSeq
    <3>3. SubSeq(s, 1, n) = s
      BY SubSeqFull DEF n
    <3>4. QED
      BY <3>1, <3>2, <3>3
  <2> HIDE DEF head, mid, tail
  <2>11. /\ head \o mid \in Seq(Character) /\ Marked(mid) \in Seq(Character)
    BY <2>6, <2>8, ConcatProperties, MarkedIs
  <2>12. Marked(s) = (Marked(head) \o Marked(mid)) \o Marked(tail)
    <3>1. Marked((head \o mid) \o tail) = Marked(head \o mid) \o Marked(tail)
      BY <2>7, <2>11, MarkedIs
    <3>2. Marked(head \o mid) = Marked(head) \o Marked(mid)
      BY <2>6, <2>8, MarkedIs
    <3>3. QED
      BY <2>10, <3>1, <3>2
  <2>13. QED
    BY <2>1, <2>8, <2>9, <2>11, <2>12, ConcatEmptySeq
<1>4. QED
  BY <1>2, <1>3

\* The filter of blank lines drops no mark.
LEMMA ShownMarks ==
    ASSUME NEW ls \in Seq(Fit), NEW set, \A l \in Fit : l \in set <=> NotBlank(l)
    PROVE  Marked(Flatten(Among(ls, set))) = Marked(Flatten(ls))
<1> DEFINE T == {ms \in Seq(Fit) : Marked(Flatten(Among(ms, set))) = Marked(Flatten(ms))}
<1>1. <<>> \in T
  <2>1. <<>> \in Seq(Fit)
    OBVIOUS
  <2>2. QED
    BY <2>1, AmongNone
<1>2. ASSUME NEW ms \in Seq(Fit), NEW l \in Fit, ms \in T PROVE Append(ms, l) \in T
  <2> DEFINE ks == Among(ms, set)
  <2>1. /\ Append(ms, l) \in Seq(Fit) /\ Among(Append(ms, l), set) = Step(ks, l, set)
        /\ ks \in Seq(Fit) /\ l \in Seq(Character)
    BY AmongAppend, AmongSeq, AppendProperties DEF Fit
  <2>2. Marked(Flatten(ks)) = Marked(Flatten(ms))
    BY <1>2
  <2> HIDE DEF ks
  <2>3. /\ Flatten(ms) \in Seq(Character) /\ Flatten(Append(ms, l)) = Flatten(ms) \o l
        /\ Flatten(ks) \in Seq(Character) /\ Flatten(Append(ks, l)) = Flatten(ks) \o l
    BY <2>1, FitFlat
  <2>4. /\ Marked(Flatten(ms) \o l) = Marked(Flatten(ms)) \o Marked(l)
        /\ Marked(Flatten(ks) \o l) = Marked(Flatten(ks)) \o Marked(l)
        /\ Marked(Flatten(ms)) \in Seq(Character)
    BY <2>1, <2>3, MarkedIs
  <2>5. CASE l \in set
    BY <2>1, <2>2, <2>3, <2>4, <2>5 DEF Step
  <2>6. CASE l \notin set
    <3>1. Marked(l) = <<>>
      BY <2>1, <2>6, BlankUnmarked DEF NotBlank
    <3>2. Marked(Flatten(Append(ms, l))) = Marked(Flatten(ms))
      BY <2>3, <2>4, <3>1, ConcatEmptySeq
    <3>3. QED
      BY <2>1, <2>2, <2>6, <3>2 DEF Step
  <2>7. QED
    BY <2>5, <2>6
<1>3. ls \in T
  <2> HIDE DEF T
  <2>1. QED
    BY <1>1, <1>2, ListInductive
<1>4. QED
  BY <1>3

\* The lines have the marks of the body, and fit or are words.
LEMMA LinesIs ==
    ASSUME body \in Seq(Character)
    PROVE  /\ Lines \in Seq(Fit) /\ Flatten(Lines) \in Seq(Character)
           /\ Marked(Flatten(Lines)) = Marked(body)
<1> DEFINE ls == WrapBody(Trim(body))
           set == {l \in Range(ls) : NotBlank(l)}
           all == {l \in Fit : NotBlank(l)}
<1>1. ls \in Seq(Fit) /\ Marked(Flatten(ls)) = Marked(body)
  BY TrimIs, WrapBodyIs
<1> HIDE DEF ls
<1>2. ls \in Seq(Range(ls)) /\ \A l \in Range(ls) : l \in Fit
  <2>1. /\ DOMAIN ls = 1 .. Len(ls) /\ Len(ls) \in Nat
        /\ \A i \in 1 .. Len(ls) : ls[i] \in Range(ls) /\ ls[i] \in Fit
    BY <1>1 DEF Range
  <2>2. ls = [i \in 1 .. Len(ls) |-> ls[i]]
    BY <1>1
  <2>3. \A l \in Range(ls) : \E i \in 1 .. Len(ls) : l = ls[i]
    BY <2>1 DEF Range
  <2>4. \A l \in Range(ls) : l \in Fit
    BY <2>1, <2>3
  <2>5. ls \in Seq(Range(ls))
    <3> DEFINE R == Range(ls)
    <3> HIDE DEF R
    <3>1. \A i \in 1 .. Len(ls) : ls[i] \in R
      BY <2>1 DEF R
    <3>2. ls \in Seq(R)
      BY <2>1, <2>2, <3>1
    <3>3. QED
      BY <3>2 DEF R
  <2>6. QED
    BY <2>4, <2>5
<1>3. Among(ls, set) = Among(ls, all)
  <2>1. \A l \in Range(ls) : l \in set <=> l \in all
    BY <1>2
  <2> HIDE DEF set, all
  <2>2. QED
    BY <1>2, <2>1, AmongSame
<1>4. Lines = Among(ls, all)
  BY <1>3 DEF Lines, ls
<1>5. \A l \in Fit : l \in all <=> NotBlank(l)
  OBVIOUS
<1> HIDE DEF all
<1>6. Among(ls, all) \in Seq(Fit) /\ Marked(Flatten(Among(ls, all))) = Marked(Flatten(ls))
  BY <1>1, <1>5, AmongSeq, ShownMarks
<1>7. QED
  BY <1>1, <1>4, <1>6, FitFlat

\* The letters are the same if the marks are.
Lettered == {c \in Character : IsLetter(c)}

\* The letters are among the marks.
LEMMA LettersMarked ==
    ASSUME NEW s \in Seq(Character)
    PROVE  Among(Marked(s), Lettered) = Among(s, Lettered)
<1> DEFINE T == {t \in Seq(Character) : Among(Marked(t), Lettered) = Among(t, Lettered)}
<1>1. <<>> \in T
  <2>1. <<>> \in Seq(Character)
    OBVIOUS
  <2>2. QED
    BY <2>1, MarkedIs
<1>2. ASSUME NEW t \in Seq(Character), NEW c \in Character, t \in T PROVE Append(t, c) \in T
  <2> DEFINE m == Marked(t)
  <2>1. /\ Append(t, c) \in Seq(Character) /\ m \in Seq(Character)
        /\ Marked(Append(t, c)) = IF IsBlank(c) THEN m ELSE Append(m, c)
    BY MarkedIs, AppendProperties
  <2>2. Among(m, Lettered) = Among(t, Lettered)
    BY <1>2
  <2> HIDE DEF m
  <2>3. /\ Among(Append(t, c), Lettered) = Step(Among(t, Lettered), c, Lettered)
        /\ Among(Append(m, c), Lettered) = Step(Among(m, Lettered), c, Lettered)
    BY <2>1, AmongAppend
  <2>4. IsBlank(c) => c \notin Lettered
    BY DEF IsBlank, Blank, Lettered, IsLetter, Letters
  <2>5. QED
    BY <2>1, <2>2, <2>3, <2>4 DEF Step
<1>3. s \in T
  <2> HIDE DEF T
  <2>1. QED
    BY <1>1, <1>2, ListInductive
<1>4. QED
  BY <1>3

\* The letters of a text, by a set that does not depend on it.
LEMMA LettersAre ==
    ASSUME NEW s \in Seq(Character)
    PROVE  LettersOf(s) = Among(s, Lettered)
<1> DEFINE set == {c \in Range(s) : IsLetter(c)}
<1>1. s \in Seq(Range(s)) /\ \A c \in Range(s) : c \in Character
  <2>1. DOMAIN s = 1 .. Len(s) /\ Len(s) \in Nat /\ \A i \in 1 .. Len(s) : s[i] \in Range(s) /\ s[i] \in Character
    BY DEF Range
  <2>2. s = [i \in 1 .. Len(s) |-> s[i]]
    OBVIOUS
  <2>3. \A l \in Range(s) : \E i \in 1 .. Len(s) : l = s[i]
    BY <2>1 DEF Range
  <2>4. \A l \in Range(s) : l \in Character
    BY <2>1, <2>3
  <2>5. s \in Seq(Range(s))
    <3> DEFINE R == Range(s)
    <3> HIDE DEF R
    <3>1. \A i \in 1 .. Len(s) : s[i] \in R
      BY <2>1 DEF R
    <3>2. s \in Seq(R)
      BY <2>1, <2>2, <3>1
    <3>3. QED
      BY <3>2 DEF R
  <2>6. QED
    BY <2>4, <2>5
<1>2. \A c \in Range(s) : c \in set <=> c \in Lettered
  BY <1>1 DEF Lettered
<1> HIDE DEF set
<1>3. Among(s, set) = Among(s, Lettered)
  BY <1>1, <1>2, AmongSame
<1>4. QED
  BY <1>3 DEF LettersOf, set

\* The letters of the lines are those of the body.
LEMMA LettersAreKept == ASSUME body \in Seq(Character) PROVE LettersKept
<1>1. Flatten(Lines) \in Seq(Character) /\ Marked(Flatten(Lines)) = Marked(body)
  BY LinesIs
<1>2. Among(Flatten(Lines), Lettered) = Among(body, Lettered)
  BY <1>1, LettersMarked
<1>3. QED
  BY <1>1, <1>2, LettersAre DEF LettersKept

\* A line that does not fit is a word.
LEMMA LongAreWords == ASSUME body \in Seq(Character) PROVE LongLinesAreWords
<1>1. ASSUME NEW line \in Range(Lines), Len(line) > Width, NEW i \in DOMAIN line
      PROVE  line[i].char # " "
  <2>1. line \in Fit
    BY LinesIs DEF Range
  <2>2. Len(line) \in Nat /\ ~(Len(line) <= Width)
    BY <1>1, <2>1, RenderingAssumption DEF Fit
  <2>3. line \in Seq(Within(Character, " "))
    BY <2>1, <2>2 DEF Fit, Word
  <2>4. line[i] \in Within(Character, " ")
    BY <1>1, <2>3, LenProperties
  <2>5. QED
    BY <2>4 DEF Within
<1>2. QED
  BY <1>1 DEF LongLinesAreWords

-----------------------------------------------------------------------------
\* What a reader of a text sees.

\* What reading a character does, case by case.
LEMMA ApplyIs ==
    ASSUME NEW y, NEW c
    PROVE  /\ c.char = "toggle" => Apply(y, c) =
                [y EXCEPT !.on = IF c.toggle \in @ THEN @ \ {c.toggle} ELSE @ \cup {c.toggle}]
           /\ c.char \notin {"toggle", "hex", "decimal"} => Apply(y, c) = y
           /\ c.char # "toggle" => \/ Apply(y, c) = [y EXCEPT !.code = c.at]
                                   \/ Apply(y, c) = [y EXCEPT !.fg = c.fg, !.bg = c.bg, !.code = 0]
                                   \/ Apply(y, c) = y
<1> DEFINE more == c.at < c.size
           done == c.at = c.size
<1>1. c.char \notin {"hex", "decimal"} => ~Joins(y, c)
  BY DEF Joins
<1>2. Apply(y, c) =
        CASE c.char = "toggle" ->
               [y EXCEPT !.on = IF c.toggle \in @ THEN @ \ {c.toggle} ELSE @ \cup {c.toggle}]
          [] Joins(y, c) /\ more -> [y EXCEPT !.code = c.at]
          [] Joins(y, c) /\ done -> [y EXCEPT !.fg = c.fg, !.bg = c.bg, !.code = 0]
          [] OTHER -> y
  BY DEF Apply
<1> HIDE DEF more, done
<1>3. c.char = "toggle" => ~Joins(y, c)
  BY <1>1
<1>4. CASE c.char = "toggle"
  BY <1>2, <1>3, <1>4
<1>5. CASE c.char # "toggle" /\ ~Joins(y, c)
  BY <1>2, <1>5
<1>6. CASE c.char # "toggle" /\ Joins(y, c)
  BY <1>1, <1>2, <1>6
<1>7. QED
  BY <1>4, <1>5, <1>6

\* The reader goes on in a colour code, and at its end sets both colours.
ReadOn(y, c) ==
    /\ c.at < c.size => Apply(y, c) = [y EXCEPT !.code = c.at]
    /\ c.at = c.size => Apply(y, c) = [y EXCEPT !.fg = c.fg, !.bg = c.bg, !.code = 0]

\* A character of a colour code that comes in its turn.
LEMMA CodeApplied ==
    ASSUME NEW y \in Style, NEW c, c.char \in {"hex", "decimal"}, c.at = y.code + 1, c.size \in Nat
    PROVE  ReadOn(y, c)
<1>1. Joins(y, c) /\ c.char # "toggle"
  BY DEF Joins
<1>2. y.code + 1 \in Nat /\ (c.at = c.size => ~(c.at < c.size))
  BY DEF Style
<1>3. QED
  BY <1>1, <1>2 DEF Apply, ReadOn

\* Reading a character makes a style.
LEMMA ApplyTypes == ASSUME NEW y \in Style, NEW c \in Character PROVE Apply(y, c) \in Style
<1>1. CASE c \in [char : Letters \cup Blank, style : Style]
  <2>1. c.char \notin {"toggle", "hex", "decimal"}
    BY <1>1 DEF Letters, Blank
  <2>2. QED
    BY <2>1, ApplyIs
<1>2. CASE c \in [char : {"toggle"}, toggle : Toggles]
  <2>1. c.char = "toggle" /\ c.toggle \in Toggles
    BY <1>2
  <2>2. Apply(y, c) = [y EXCEPT !.on = IF c.toggle \in @ THEN @ \ {c.toggle} ELSE @ \cup {c.toggle}]
    BY <2>1, ApplyIs
  <2>3. QED
    BY <2>1, <2>2 DEF Style
<1>3. CASE c \in [char : {"hex", "decimal"}, fg : Colour, bg : Colour, at : Nat, size : Nat]
  <2>1. c.char # "toggle" /\ c.fg \in Colour /\ c.bg \in Colour /\ c.at \in Nat
    BY <1>3
  <2>2. \/ Apply(y, c) = [y EXCEPT !.code = c.at]
        \/ Apply(y, c) = [y EXCEPT !.fg = c.fg, !.bg = c.bg, !.code = 0]
        \/ Apply(y, c) = y
    BY <2>1, ApplyIs
  <2>3. CASE Apply(y, c) = [y EXCEPT !.code = c.at]
    BY <2>1, <2>3 DEF Style
  <2>4. CASE Apply(y, c) = [y EXCEPT !.fg = c.fg, !.bg = c.bg, !.code = 0]
    <3>1. Apply(y, c) = [on |-> y.on, fg |-> c.fg, bg |-> c.bg, code |-> 0]
      BY <2>4 DEF Style
    <3>2. y.on \in SUBSET Toggles /\ 0 \in Nat
      BY DEF Style
    <3> HIDE DEF Style
    <3>3. QED
      BY <2>1, <3>1, <3>2 DEF Style
  <2>5. QED
    BY <2>2, <2>3, <2>4
<1>4. QED
  BY <1>1, <1>2, <1>3 DEF Character

ApplyStep == [p \in Style \X Character |-> Apply(p[1], p[2])]

\* It is a step of a fold.
LEMMA ApplyStepIs ==
    /\ ApplyStep \in [Style \X Character -> Style]
    /\ \A y \in Style, c \in Character : ApplyStep[<<y, c>>] = Apply(y, c)
BY ApplyTypes DEF ApplyStep

\* Reading a text is a fold.
LEMMA ReadFolds ==
    ASSUME NEW y \in Style, NEW s \in Seq(Character)
    PROVE  ReadFrom(y, s) = Value(s, Style, y, ApplyStep)
<1> DEFINE F(iter) == [t \in SUBSET DOMAIN s |->
                          IF t = {} THEN y ELSE Apply(iter[t \ {Max(t)}], s[Max(t)])]
           it == CHOOSE iter : iter = F(iter)
<1>1. ReadFrom(y, s) = it[DOMAIN s]
  BY DEF ReadFrom, FoldLeft, MapThenFoldSet
<1>2. PICK g : Sound(g, s, Style, y, ApplyStep) /\ Builds(g, s, Style, Character)
  BY ApplyStepIs, SoundExists
<1>3. g = F(g)
  BY <1>2, ApplyStepIs DEF Sound, Builds
<1>4. it = F(it)
  BY <1>3
<1> HIDE DEF it
<1>5. Sound(it, s, Style, y, ApplyStep)
  <2>1. \A t \in SUBSET DOMAIN s : t # {} => s[Max(t)] \in Character
    BY <1>2 DEF Builds
  <2>2. \A t \in SUBSET DOMAIN s :
           it[t] = IF t = {} THEN y ELSE Apply(it[t \ {Max(t)}], s[Max(t)])
    BY <1>4
  <2>3. QED
    BY <2>1, <2>2, ApplyStepIs DEF Sound
<1>6. Meets(it, s, Style, y, ApplyStep)
  BY <1>5, ApplyStepIs, SoundValue
<1>7. QED
  BY <1>1, <1>6 DEF Meets

\* The style read, a character at a time.
LEMMA ReadIs ==
    ASSUME NEW y \in Style, NEW s \in Seq(Character)
    PROVE  /\ ReadFrom(y, <<>>) = y /\ ReadFrom(y, s) \in Style
           /\ \A c \in Character : ReadFrom(y, Append(s, c)) = Apply(ReadFrom(y, s), c)
<1>1. <<>> \in Seq(Character) /\ \A c \in Character : Append(s, c) \in Seq(Character)
  BY AppendProperties
<1>2. Steps(s, Character, Style, y, ApplyStep)
  BY ApplyStepIs, ValueIs
<1>3. \A t \in Seq(Character) : ReadFrom(y, t) = Value(t, Style, y, ApplyStep)
  BY ReadFolds
<1>4. QED
  BY <1>1, <1>2, <1>3, ApplyStepIs DEF Steps

\* Reading goes on where it was.
LEMMA ReadConcat ==
    ASSUME NEW y \in Style, NEW s \in Seq(Character), NEW t \in Seq(Character)
    PROVE  ReadFrom(y, s \o t) = ReadFrom(ReadFrom(y, s), t)
<1> DEFINE z == ReadFrom(y, s)
           T == {u \in Seq(Character) : ReadFrom(y, s \o u) = ReadFrom(z, u)}
<1>1. z \in Style
  BY ReadIs
<1> HIDE DEF z
<1>2. <<>> \in T
  <2>1. <<>> \in Seq(Character) /\ s \o <<>> = s
    BY ConcatEmptySeq
  <2>2. ReadFrom(z, <<>>) = z
    BY <1>1, ReadIs
  <2>3. QED
    BY <2>1, <2>2 DEF z
<1>3. ASSUME NEW u \in Seq(Character), NEW c \in Character, u \in T PROVE Append(u, c) \in T
  <2>1. /\ Append(u, c) \in Seq(Character) /\ s \o u \in Seq(Character)
        /\ s \o Append(u, c) = Append(s \o u, c)
    BY ConcatAppend, AppendProperties, ConcatProperties
  <2>2. ReadFrom(z, Append(u, c)) = Apply(ReadFrom(z, u), c)
    BY <1>1, ReadIs
  <2>3. ReadFrom(y, Append(s \o u, c)) = Apply(ReadFrom(y, s \o u), c)
    BY <2>1, ReadIs
  <2>4. QED
    BY <1>3, <2>1, <2>2, <2>3
<1>4. t \in T
  <2> HIDE DEF T
  <2>1. QED
    BY <1>2, <1>3, ListInductive
<1>5. QED
  BY <1>4 DEF z

\* One more character is read right if it is no letter, or has the style that is on.
LEMMA RightAppend ==
    ASSUME NEW s \in Seq(Character), NEW c \in Character
    PROVE  ReadsRight(Append(s, c)) <=>
               ReadsRight(s) /\ (IsLetter(c) => ReadFrom(Default, s) = c.style)
<1> DEFINE u == Append(s, c)
           n == Len(s)
<1>1. /\ u \in Seq(Character) /\ Len(u) = n + 1 /\ u[n + 1] = c /\ n \in Nat
      /\ DOMAIN u = 1 .. (n + 1) /\ DOMAIN s = 1 .. n /\ \A i \in 1 .. n : u[i] = s[i]
  BY AppendProperties, LenProperties
<1>2. \A i \in 1 .. n : SubSeq(u, 1, i) = SubSeq(s, 1, i)
  <2>1. u = s \o <<c>> /\ <<c>> \in Seq(Character)
    BY AppendIsConcat
  <2>2. \A i \in 1 .. n : 1 \in 1 .. n
    BY <1>1
  <2>3. ASSUME NEW i \in 1 .. n PROVE SubSeq(s \o <<c>>, 1, i) = SubSeq(s, 1, i)
    BY <2>1, <2>2, SubSeqOfConcat1
  <2>4. QED
    BY <2>1, <2>3
<1>3. SubSeq(u, 1, n + 1) = u
  BY <1>1, SubSeqFull
<1>4. ReadFrom(Default, u) = Apply(ReadFrom(Default, s), c)
  BY ReadIs, CharacterTypes
<1>5. IsLetter(c) => Apply(ReadFrom(Default, s), c) = ReadFrom(Default, s)
  BY ApplyIs DEF IsLetter, Letters
<1> HIDE DEF u, n
<1>6. ReadsRight(u) <=>
          /\ \A i \in 1 .. n : IsLetter(u[i]) => ReadFrom(Default, SubSeq(u, 1, i)) = u[i].style
          /\ IsLetter(u[n + 1]) => ReadFrom(Default, SubSeq(u, 1, n + 1)) = u[n + 1].style
  <2>1. \A i \in 1 .. (n + 1) : i \in 1 .. n \/ i = n + 1
    BY <1>1
  <2>2. n + 1 \in 1 .. (n + 1) /\ \A i \in 1 .. n : i \in 1 .. (n + 1)
    BY <1>1
  <2>3. QED
    BY <1>1, <2>1, <2>2 DEF ReadsRight
<1>7. ReadsRight(s) <=>
          \A i \in 1 .. n : IsLetter(u[i]) => ReadFrom(Default, SubSeq(u, 1, i)) = u[i].style
  BY <1>1, <1>2 DEF ReadsRight
<1>8. QED
  BY <1>1, <1>3, <1>4, <1>5, <1>6, <1>7 DEF u

\* Nothing is read right.
LEMMA RightNone == ReadsRight(<<>>)
BY DEF ReadsRight

\* Blanks do not matter to a reader.
LEMMA BlankIs ==
    ASSUME NEW y, NEW c, IsBlank(c)
    PROVE  Apply(y, c) = y /\ ~IsLetter(c)
BY ApplyIs DEF IsBlank, Blank, IsLetter, Letters

\* A reader of the marks reads what a reader of the text does.
LEMMA MarksRead ==
    ASSUME NEW s \in Seq(Character)
    PROVE  /\ ReadFrom(Default, Marked(s)) = ReadFrom(Default, s)
           /\ ReadsRight(Marked(s)) <=> ReadsRight(s)
<1> DEFINE T == {t \in Seq(Character) :
                    /\ ReadFrom(Default, Marked(t)) = ReadFrom(Default, t)
                    /\ ReadsRight(Marked(t)) <=> ReadsRight(t)}
<1>1. <<>> \in T
  <2>1. <<>> \in Seq(Character)
    OBVIOUS
  <2>2. QED
    BY <2>1, MarkedIs
<1>2. ASSUME NEW t \in Seq(Character), NEW c \in Character, t \in T PROVE Append(t, c) \in T
  <2> DEFINE m == Marked(t)
             u == Append(t, c)
             v == Append(m, c)
  <2>1. u \in Seq(Character) /\ m \in Seq(Character) /\ Marked(u) = IF IsBlank(c) THEN m ELSE v
    BY MarkedIs, AppendProperties
  <2>2. ReadFrom(Default, m) = ReadFrom(Default, t) /\ (ReadsRight(m) <=> ReadsRight(t))
    BY <1>2
  <2> HIDE DEF m
  <2>3. /\ ReadFrom(Default, u) = Apply(ReadFrom(Default, t), c)
        /\ ReadFrom(Default, v) = Apply(ReadFrom(Default, m), c)
    BY <2>1, ReadIs, CharacterTypes
  <2>4. /\ ReadsRight(u) <=> ReadsRight(t) /\ (IsLetter(c) => ReadFrom(Default, t) = c.style)
        /\ ReadsRight(v) <=> ReadsRight(m) /\ (IsLetter(c) => ReadFrom(Default, m) = c.style)
    BY <2>1, RightAppend
  <2> HIDE DEF u, v
  <2>5. CASE IsBlank(c)
    BY <2>1, <2>2, <2>3, <2>4, <2>5, BlankIs DEF u
  <2>6. CASE ~IsBlank(c)
    BY <2>1, <2>2, <2>3, <2>4, <2>6 DEF u
  <2>7. QED
    BY <2>5, <2>6
<1>3. s \in T
  <2> HIDE DEF T
  <2>1. QED
    BY <1>1, <1>2, ListInductive
<1>4. QED
  BY <1>3

\* What is read right as a whole is read right from any place where no style is on.
LEMMA RightConcat ==
    ASSUME NEW s \in Seq(Character), NEW t \in Seq(Character), ReadsRight(s \o t)
    PROVE  ReadsRight(s) /\ (ReadFrom(Default, s) = Default => ReadsRight(t))
<1> DEFINE T == {u \in Seq(Character) :
                    ReadsRight(s \o u) =>
                        ReadsRight(s) /\ (ReadFrom(Default, s) = Default => ReadsRight(u))}
<1>1. <<>> \in T
  <2>1. <<>> \in Seq(Character) /\ s \o <<>> = s
    BY ConcatEmptySeq
  <2>2. QED
    BY <2>1, RightNone
<1>2. ASSUME NEW u \in Seq(Character), NEW c \in Character, u \in T PROVE Append(u, c) \in T
  <2> DEFINE w == s \o u
             v == Append(u, c)
  <2>1. w \in Seq(Character) /\ v \in Seq(Character) /\ s \o v = Append(w, c)
    BY ConcatAppend, AppendProperties, ConcatProperties
  <2>2. ReadsRight(w) => ReadsRight(s) /\ (ReadFrom(Default, s) = Default => ReadsRight(u))
    BY <1>2
  <2>3. ReadFrom(Default, w) = ReadFrom(ReadFrom(Default, s), u)
    BY ReadConcat, CharacterTypes
  <2> HIDE DEF w
  <2>4. /\ ReadsRight(Append(w, c)) <=> ReadsRight(w) /\ (IsLetter(c) => ReadFrom(Default, w) = c.style)
        /\ ReadsRight(v) <=> ReadsRight(u) /\ (IsLetter(c) => ReadFrom(Default, u) = c.style)
    BY <2>1, RightAppend
  <2> HIDE DEF v
  <2>5. QED
    BY <2>1, <2>2, <2>3, <2>4 DEF v
<1>3. t \in T
  <2> HIDE DEF T
  <2>1. QED
    BY <1>1, <1>2, ListInductive
<1>4. QED
  BY <1>3

\* Each line is read right by itself where no style is on.
LinesRight(ls) ==
    \A k \in DOMAIN ls :
        ReadFrom(Default, Flatten(SubSeq(ls, 1, k - 1))) = Default => ReadsRight(ls[k])

\* What is read right as a whole is read right line by line.
LEMMA LinesAreRight ==
    ASSUME NEW ls \in Seq(Seq(Character)), ReadsRight(Flatten(ls))
    PROVE  LinesRight(ls)
<1> DEFINE C == Seq(Character)
           T == {ms \in Seq(C) : ReadsRight(Flatten(ms)) => LinesRight(ms)}
<1>1. <<>> \in T
  <2>1. <<>> \in Seq(C)
    OBVIOUS
  <2>2. LinesRight(<<>>)
    BY DEF LinesRight
  <2>3. QED
    BY <2>1, <2>2
<1>2. ASSUME NEW ms \in Seq(C), NEW l \in C, ms \in T PROVE Append(ms, l) \in T
  <2> DEFINE n == Len(ms)
             u == Append(ms, l)
  <2>1. /\ u \in Seq(C) /\ n \in Nat /\ DOMAIN u = 1 .. (n + 1) /\ DOMAIN ms = 1 .. n
        /\ Len(u) = n + 1 /\ u[n + 1] = l /\ \A i \in 1 .. n : u[i] = ms[i]
    BY AppendProperties, LenProperties
  <2>2. Flatten(u) = Flatten(ms) \o l /\ Flatten(ms) \in C
    BY FlattenIs
  <2>3. SUFFICES ASSUME ReadsRight(Flatten(u)) PROVE LinesRight(u)
    BY <2>1
  <2>4. ReadsRight(Flatten(ms)) /\ (ReadFrom(Default, Flatten(ms)) = Default => ReadsRight(l))
    BY <2>2, <2>3, RightConcat
  <2>5. LinesRight(ms)
    BY <1>2, <2>4
  <2>6. SubSeq(u, 1, n) = ms /\ \A k \in 1 .. n : SubSeq(u, 1, k - 1) = SubSeq(ms, 1, k - 1)
    <3>1. u = ms \o <<l>> /\ <<l>> \in Seq(C)
      BY AppendIsConcat
    <3>2. \A k \in 1 .. n : SubSeq(ms \o <<l>>, 1, k) = SubSeq(ms, 1, k)
      <4>1. \A k \in 1 .. n : 1 \in 1 .. Len(ms) /\ k \in 1 .. Len(ms)
        BY <2>1
      <4>2. QED
        BY <3>1, <4>1, SubSeqOfConcat1
    <3> HIDE DEF u
    <3>3. SubSeq(u, 1, n) = ms
      <4>1. CASE n = 0
        <5>1. ms = <<>> /\ SubSeq(u, 1, 0) = <<>>
          BY <4>1, SubSeqEmpty
        <5>2. QED
          BY <4>1, <5>1
      <4>2. CASE n # 0
        <5>1. n \in 1 .. n
          BY <2>1, <4>2
        <5>2. QED
          BY <3>1, <3>2, <5>1, SubSeqFull
      <4>3. QED
        BY <4>1, <4>2
    <3>4. ASSUME NEW k \in 1 .. n PROVE SubSeq(u, 1, k - 1) = SubSeq(ms, 1, k - 1)
      <4>1. CASE k = 1
        <5>1. SubSeq(u, 1, 0) = <<>> /\ SubSeq(ms, 1, 0) = <<>>
          BY SubSeqEmpty
        <5>2. k - 1 = 0
          BY <4>1
        <5>3. QED
          BY <5>1, <5>2
      <4>2. CASE k # 1
        <5>1. k - 1 \in 1 .. n
          BY <2>1, <4>2
        <5>2. QED
          BY <3>1, <3>2, <5>1
      <4>3. QED
        BY <4>1, <4>2
    <3>5. QED
      BY <3>3, <3>4
  <2> HIDE DEF u, n
  <2>7. ASSUME NEW k \in DOMAIN u, ReadFrom(Default, Flatten(SubSeq(u, 1, k - 1))) = Default
        PROVE  ReadsRight(u[k])
    <3>1. CASE k \in 1 .. n
      BY <2>1, <2>5, <2>6, <2>7, <3>1 DEF LinesRight
    <3>2. CASE k = n + 1
      <4>1. k - 1 = n
        BY <2>1, <3>2
      <4>2. QED
        BY <2>1, <2>4, <2>6, <2>7, <3>2, <4>1
    <3>3. k \in 1 .. n \/ k = n + 1
      BY <2>1, <2>7
    <3>4. QED
      BY <3>1, <3>2, <3>3
  <2>8. QED
    BY <2>7 DEF LinesRight
<1>3. ls \in T
  <2> HIDE DEF T
  <2>1. ls \in Seq(C) /\ \A ms \in Seq(C) : ms \in T
    BY <1>1, <1>2, ListInductive
  <2>2. QED
    BY <2>1
<1>4. QED
  BY <1>3

\* The lines are read right if the body is.
LEMMA LinesAreRead ==
    ASSUME body \in Seq(Character), tame => ReadsRight(body)
    PROVE  LinesRead
<1>1. /\ Lines \in Seq(Fit) /\ Flatten(Lines) \in Seq(Character)
      /\ Marked(Flatten(Lines)) = Marked(body)
  BY LinesIs
<1>2. tame => ReadsRight(Flatten(Lines))
  BY <1>1, MarksRead
<1>3. tame => LinesRight(Lines)
  BY <1>1, <1>2, FitFlat, LinesAreRight
<1>4. QED
  BY <1>3 DEF LinesRead, LinesRight

-----------------------------------------------------------------------------
\* The walk over the tree.

RenderingTypeOK ==
    /\ open \in Seq(Elements) /\ body \in Seq(Character)
    /\ tame \in BOOLEAN /\ nodes \in Nat

\* What a reader has seen when the walk is at a place: the letters right, and
\* the style of the place.
RenderingInv ==
    RenderingTypeOK /\
        (tame => Tame(open) /\ ReadsRight(body) /\ ReadFrom(Default, body) = StyleIn(open))

\* The elements are codes to switch, items of a list, or fonts.
LEMMA ElementTypes ==
    ASSUME NEW e \in Elements
    PROVE  /\ e.fg \in Colour /\ e.bg \in Colour
           /\ \/ e.tag \in Toggles \cup {"li"} /\ ~Coloured(e)
              \/ e.tag = "font" /\ e.tag \notin Toggles
           /\ "li" \notin Toggles
<1>1. NoColour \in Colour
  BY DEF Colour
<1>2. "li" \notin Toggles /\ "font" \notin Toggles
  BY RenderingAssumption
<1>3. CASE \E t \in Toggles \cup {"li"} : e = Plain(t)
  BY <1>1, <1>2, <1>3 DEF Plain, Coloured
<1>4. CASE \E fg, bg \in Colour : e = Font(fg, bg)
  BY <1>2, <1>4 DEF Font
<1>5. QED
  BY <1>3, <1>4 DEF Elements

\* One element more around.
Inner(es, e) ==
    [on |-> StyleIn(es).on \cup (Toggles \cap {e.tag}),
     fg |-> IF Coloured(e) THEN e.fg ELSE StyleIn(es).fg,
     bg |-> IF Coloured(e) THEN e.bg ELSE StyleIn(es).bg,
     code |-> 0]

\* The colours in force are an element's, the last one's that has any.
LEMMA ColoursAre ==
    ASSUME NEW es \in Seq(Elements)
    PROVE  /\ ColoursIn(es) = Default \/ \E i \in DOMAIN es : ColoursIn(es) = es[i]
           /\ \A e \in Elements : ColoursIn(Append(es, e)) = IF Coloured(e) THEN e ELSE ColoursIn(es)
<1> DEFINE n == Len(es)
           cs == {i \in DOMAIN es : Coloured(es[i])}
<1>1. n \in Nat /\ DOMAIN es = 1 .. n /\ cs \in SUBSET (1 .. n)
  BY LenProperties
<1>2. ColoursIn(es) = IF cs = {} THEN Default ELSE es[Max(cs)]
  BY DEF ColoursIn
<1>3. cs # {} => Max(cs) \in DOMAIN es
  BY <1>1, Largest
<1>4. ASSUME NEW e \in Elements
      PROVE  ColoursIn(Append(es, e)) = IF Coloured(e) THEN e ELSE ColoursIn(es)
  <2> DEFINE us == Append(es, e)
             ds == {i \in DOMAIN us : Coloured(us[i])}
  <2>1. /\ DOMAIN us = 1 .. (n + 1) /\ us[n + 1] = e /\ \A i \in 1 .. n : us[i] = es[i]
    BY AppendProperties, LenProperties
  <2>2. ColoursIn(us) = IF ds = {} THEN Default ELSE us[Max(ds)]
    BY DEF ColoursIn
  <2>3. \A i \in 1 .. (n + 1) : i \in 1 .. n \/ i = n + 1
    BY <1>1
  <2>4. n + 1 \in 1 .. (n + 1) /\ \A i \in 1 .. n : i \in 1 .. (n + 1) /\ ~(n + 1 <= i)
    BY <1>1
  <2> HIDE DEF us
  <2>5. CASE Coloured(e)
    <3>1. ds \in SUBSET (1 .. (n + 1)) /\ n + 1 \in ds
      BY <2>1, <2>4, <2>5
    <3>2. Max(ds) = n + 1
      <4>1. Max(ds) \in ds /\ n + 1 <= Max(ds)
        <5>1. n + 1 \in Nat /\ ds # {}
          BY <1>1, <3>1
        <5> HIDE DEF ds, n
        <5>2. QED
          BY <3>1, <5>1, Largest
      <4>2. QED
        BY <2>3, <2>4, <3>1, <4>1
    <3>3. QED
      BY <2>1, <2>2, <2>5, <3>1, <3>2 DEF us
  <2>6. CASE ~Coloured(e)
    <3>1. ds = cs
      <4>1. \A i \in ds : i \in 1 .. n
        BY <2>1, <2>3, <2>6
      <4>2. \A i \in 1 .. n : i \in ds <=> i \in cs
        BY <1>1, <2>1, <2>4
      <4>3. QED
        BY <1>1, <4>1, <4>2
    <3>2. cs # {} => us[Max(cs)] = es[Max(cs)]
      BY <1>1, <1>3, <2>1
    <3>3. QED
      BY <1>2, <2>2, <2>6, <3>1, <3>2 DEF us
  <2>7. QED
    BY <2>5, <2>6
<1>5. QED
  BY <1>2, <1>3, <1>4

\* The style of a place is a style.
LEMMA StyleTypes == ASSUME NEW es \in Seq(Elements) PROVE StyleIn(es) \in Style
<1>1. ColoursIn(es).fg \in Colour /\ ColoursIn(es).bg \in Colour
  <2>1. CASE ColoursIn(es) = Default
    BY <2>1 DEF Default, Colour
  <2>2. CASE \E i \in DOMAIN es : ColoursIn(es) = es[i]
    <3>1. \A i \in DOMAIN es : es[i] \in Elements
      OBVIOUS
    <3>2. QED
      BY <2>2, <3>1, ElementTypes
  <2>3. QED
    BY <2>1, <2>2, ColoursAre
<1>2. QED
  BY <1>1 DEF StyleIn, Style

\* The style of a place, an element more around it.
LEMMA StyleInner ==
    ASSUME NEW es \in Seq(Elements), NEW e \in Elements
    PROVE  StyleIn(Append(es, e)) = Inner(es, e)
<1> DEFINE us == Append(es, e)
           n == Len(es)
<1>1. /\ n \in Nat /\ DOMAIN es = 1 .. n /\ DOMAIN us = 1 .. (n + 1)
      /\ us[n + 1] = e /\ \A i \in 1 .. n : us[i] = es[i]
  BY AppendProperties, LenProperties
<1>2. {us[i].tag : i \in DOMAIN us} = {es[i].tag : i \in DOMAIN es} \cup {e.tag}
  <2>1. \A i \in 1 .. (n + 1) : i \in 1 .. n \/ i = n + 1
    BY <1>1
  <2>2. n + 1 \in 1 .. (n + 1) /\ \A i \in 1 .. n : i \in 1 .. (n + 1)
    BY <1>1
  <2> HIDE DEF us, n
  <2>3. QED
    BY <1>1, <2>1, <2>2
<1>3. ColoursIn(us) = IF Coloured(e) THEN e ELSE ColoursIn(es)
  BY ColoursAre
<1> HIDE DEF us
<1>4. QED
  BY <1>2, <1>3 DEF StyleIn, Inner, us

\* A colour code is a text of characters.
LEMMA CodeTypes ==
    ASSUME NEW kind \in {"hex", "decimal"}, NEW fg \in Colour, NEW bg \in Colour, NEW n \in Nat
    PROVE  /\ Code(kind, fg, bg, n) \in Seq(Character) /\ Len(Code(kind, fg, bg, n)) = n
           /\ \A i \in 1 .. n : Code(kind, fg, bg, n)[i] =
                 [char |-> kind, fg |-> fg, bg |-> bg, at |-> i, size |-> n]
<1>1. \A i \in 1 .. n : [char |-> kind, fg |-> fg, bg |-> bg, at |-> i, size |-> n] \in Character
  BY DEF Character
<1>2. QED
  BY <1>1 DEF Code

\* The sizes of the codes are positive.
LEMMA SizesAre ==
    /\ HexSize \in Nat \ {0} /\ 2 * HexSize \in Nat \ {0}
    /\ DecimalSize \in Nat \ {0} /\ 2 * DecimalSize \in Nat \ {0}
<1>1. HexSize \in Nat \ {0} /\ DecimalSize \in Nat \ {0}
  BY RenderingAssumption
<1>2. QED
  BY <1>1

\* So is what sets a pair of colours.
LEMMA ColourTypes ==
    ASSUME NEW fg \in Colour, NEW bg \in Colour
    PROVE  ColourCode(fg, bg) \in Seq(Character)
<1>1. \A f, b \in Colour : Hex(f, b) \in Seq(Character)
  BY SizesAre, CodeTypes DEF Hex
<1>2. \A n \in Nat : DecimalDefault(n) \in Seq(Character)
  <2>1. NoColour \in Colour
    BY DEF Colour
  <2>2. QED
    BY <2>1, CodeTypes DEF DecimalDefault
<1>3. CASE fg = NoColour /\ bg = NoColour
  BY <1>2, <1>3, SizesAre DEF ColourCode
<1>4. CASE fg = NoColour /\ bg # NoColour
  <2>1. Black \in Colour
    BY <1>4 DEF Black, Colour
  <2>2. ColourCode(fg, bg) = Hex(Black, bg) \o DecimalDefault(DecimalSize)
    BY <1>4 DEF ColourCode
  <2>3. Hex(Black, bg) \in Seq(Character) /\ DecimalDefault(DecimalSize) \in Seq(Character)
    BY <1>1, <1>2, <2>1, SizesAre
  <2>4. QED
    BY <2>2, <2>3, ConcatProperties
<1>5. CASE fg # NoColour
  BY <1>1, <1>5 DEF ColourCode
<1>6. QED
  BY <1>3, <1>4, <1>5

\* A letter or a blank is a character.
LEMMA CharTypes ==
    ASSUME NEW c \in Letters \cup Blank, NEW y \in Style
    PROVE  Char(c, y) \in Character
BY DEF Char, Character

\* What is around an element, by its kind.
LEMMA AroundIs ==
    ASSUME NEW e \in Elements, NEW es
    PROVE  /\ e.tag \in Toggles => ~Coloured(e) /\ Before(e, es) = <<Toggle(e.tag)>> /\ After(e, es) = <<Toggle(e.tag)>>
           /\ e.tag = "li" => /\ ~Coloured(e) /\ e.tag \notin Toggles
                              /\ Before(e, es) = <<Char("a", StyleIn(es)), Space>> /\ After(e, es) = <<Newline>>
           /\ Coloured(e) => /\ e.tag \notin Toggles /\ Before(e, es) = ColourCode(e.fg, e.bg)
                             /\ After(e, es) = ColourCode(ColoursIn(es).fg, ColoursIn(es).bg)
           /\ e.tag \notin Toggles \cup {"li"} /\ ~Coloured(e) => Before(e, es) = <<>> /\ After(e, es) = <<>>
<1>1. /\ e.tag \in Toggles => e.tag # "li" /\ ~Coloured(e)
      /\ e.tag = "li" => e.tag \notin Toggles /\ ~Coloured(e)
      /\ Coloured(e) => e.tag \notin Toggles /\ e.tag # "li"
  BY ElementTypes
<1>2. QED
  BY <1>1 DEF Before, After

\* What is around an element is a text.
LEMMA AroundTypes ==
    ASSUME NEW e \in Elements, NEW es \in Seq(Elements)
    PROVE  Before(e, es) \in Seq(Character) /\ After(e, es) \in Seq(Character)
<1>1. CASE e.tag \in Toggles
  <2>1. Toggle(e.tag) \in Character
    BY <1>1 DEF Toggle, Character
  <2>2. Before(e, es) = <<Toggle(e.tag)>> /\ After(e, es) = <<Toggle(e.tag)>>
    BY <1>1, AroundIs
  <2>3. QED
    BY <2>1, <2>2
<1>2. CASE e.tag = "li"
  <2>1. Char("a", StyleIn(es)) \in Character
    BY StyleTypes, CharTypes DEF Letters
  <2>2. Before(e, es) = <<Char("a", StyleIn(es)), Space>> /\ After(e, es) = <<Newline>>
    BY <1>2, AroundIs
  <2>3. QED
    BY <2>1, <2>2, CharacterTypes
<1>3. CASE Coloured(e)
  <2>1. ColoursIn(es).fg \in Colour /\ ColoursIn(es).bg \in Colour
    BY StyleTypes DEF StyleIn, Style
  <2>2. /\ Before(e, es) = ColourCode(e.fg, e.bg)
        /\ After(e, es) = ColourCode(ColoursIn(es).fg, ColoursIn(es).bg)
    BY <1>3, AroundIs
  <2>3. QED
    BY <2>1, <2>2, ColourTypes, ElementTypes
<1>4. CASE e.tag \notin Toggles \cup {"li"} /\ ~Coloured(e)
  <2>1. Before(e, es) = <<>> /\ After(e, es) = <<>>
    BY <1>4, AroundIs
  <2>2. QED
    BY <2>1
<1>5. QED
  BY <1>1, <1>2, <1>3, <1>4

\* Elements that are tame are so without the innermost, whose code is not on.
LEMMA TameInner ==
    ASSUME NEW es \in Seq(Elements), NEW e \in Elements, Tame(Append(es, e))
    PROVE  /\ Tame(es) /\ (e.fg = NoColour => e.bg = NoColour)
           /\ e.tag \in Toggles => e.tag \notin StyleIn(es).on
<1> DEFINE us == Append(es, e)
           n == Len(es)
<1>1. /\ n \in Nat /\ DOMAIN es = 1 .. n /\ DOMAIN us = 1 .. (n + 1)
      /\ us[n + 1] = e /\ \A i \in 1 .. n : us[i] = es[i]
  BY AppendProperties, LenProperties
<1>2. n + 1 \in 1 .. (n + 1) /\ \A i \in 1 .. n : i \in 1 .. (n + 1) /\ i # n + 1
  BY <1>1
<1> HIDE DEF us, n
<1>3. Tame(us)
  BY DEF us
<1>4. \A i \in 1 .. n : e.tag # es[i].tag \/ e.tag \notin Toggles
  BY <1>1, <1>2, <1>3 DEF Tame
<1>5. e.tag \in Toggles => e.tag \notin StyleIn(es).on
  BY <1>1, <1>4 DEF StyleIn
<1>6. QED
  BY <1>1, <1>2, <1>3, <1>5 DEF Tame

\* One more character for a reader who has read everything right.
Follows(s, y) == s \in Seq(Character) /\ ReadsRight(s) /\ ReadFrom(Default, s) = y

\* A letter in the style that is on, or a code, is read right.
LEMMA ReaderNext ==
    ASSUME NEW s, NEW y, Follows(s, y), NEW c \in Character, IsLetter(c) => c.style = y
    PROVE  Follows(s \o <<c>>, Apply(y, c))
<1>1. s \o <<c>> = Append(s, c) /\ Append(s, c) \in Seq(Character)
  BY AppendIsConcat, AppendProperties DEF Follows
<1>2. ReadFrom(Default, Append(s, c)) = Apply(y, c)
  BY ReadIs, CharacterTypes DEF Follows
<1>3. ReadsRight(Append(s, c))
  BY RightAppend DEF Follows
<1>4. QED
  BY <1>1, <1>2, <1>3 DEF Follows

\* What has been read of a code after m of its n characters.
Beginning(kind, fg, bg, n, m) ==
    [i \in 1 .. m |-> [char |-> kind, fg |-> fg, bg |-> bg, at |-> i, size |-> n]]

\* One character more of it.
GoesOn(kind, fg, bg, n, m) ==
    LET b == Beginning(kind, fg, bg, n, m)
        c == [char |-> kind, fg |-> fg, bg |-> bg, at |-> m + 1, size |-> n]
    IN  /\ c \in Character /\ ~IsLetter(c) /\ b \in Seq(Character)
        /\ Beginning(kind, fg, bg, n, m + 1) = b \o <<c>>

\* The beginning of a code, a character at a time.
LEMMA BeginningIs ==
    ASSUME NEW kind \in {"hex", "decimal"}, NEW fg \in Colour, NEW bg \in Colour,
           NEW n \in Nat, NEW m \in Nat
    PROVE  GoesOn(kind, fg, bg, n, m)
<1> DEFINE b == Beginning(kind, fg, bg, n, m)
           c == [char |-> kind, fg |-> fg, bg |-> bg, at |-> m + 1, size |-> n]
           d == Beginning(kind, fg, bg, n, m + 1)
           part(i) == [char |-> kind, fg |-> fg, bg |-> bg, at |-> i, size |-> n]
<1>1. \A i \in Nat : part(i) \in Character
  BY DEF Character
<1>2. c = part(m + 1) /\ c \in Character
  BY <1>1
<1>3. ~IsLetter(c)
  BY DEF IsLetter, Letters
<1>4. /\ b \in Seq(Character) /\ Len(b) = m /\ \A i \in 1 .. m : b[i] = part(i)
  BY <1>1 DEF Beginning
<1>5. /\ d \in Seq(Character) /\ Len(d) = m + 1 /\ \A i \in 1 .. (m + 1) : d[i] = part(i)
  <2>1. m + 1 \in Nat
    OBVIOUS
  <2>2. QED
    BY <1>1, <2>1 DEF Beginning
<1> HIDE DEF b, c, d, part
<1>6. d = b \o <<c>>
  BY <1>2, <1>4, <1>5
<1>7. QED
  BY <1>2, <1>3, <1>4, <1>6 DEF GoesOn, b, c, d

\* A code read to its end sets its colours.
LEMMA ReaderCode ==
    ASSUME NEW s, NEW y \in Style, Follows(s, y), y.code = 0,
           NEW kind \in {"hex", "decimal"}, NEW fg \in Colour, NEW bg \in Colour,
           NEW n \in Nat \ {0}
    PROVE  Follows(s \o Code(kind, fg, bg, n), [y EXCEPT !.fg = fg, !.bg = bg])
<1> DEFINE B(m) == Beginning(kind, fg, bg, n, m)
           P(m) == [char |-> kind, fg |-> fg, bg |-> bg, at |-> m + 1, size |-> n]
           M == {m \in Nat : m < n => Follows(s \o B(m), [y EXCEPT !.code = m])}
<1>1. \A m \in Nat : /\ P(m) \in Character /\ ~IsLetter(P(m)) /\ B(m) \in Seq(Character)
                      /\ B(m + 1) = B(m) \o <<P(m)>>
  <2>1. ASSUME NEW m \in Nat
        PROVE  /\ P(m) \in Character /\ ~IsLetter(P(m)) /\ B(m) \in Seq(Character)
               /\ B(m + 1) = B(m) \o <<P(m)>>
    <3>1. GoesOn(kind, fg, bg, n, m)
      BY n \in Nat, BeginningIs
    <3>2. QED
      BY <3>1 DEF GoesOn
  <2>2. QED
    BY <2>1
<1>2. s \in Seq(Character)
  BY DEF Follows
<1>3. \A m \in Nat : s \o B(m + 1) = (s \o B(m)) \o <<P(m)>>
  <2>1. \A u, v, w \in Seq(Character) : (u \o v) \o w = u \o (v \o w)
    BY ConcatAssociative
  <2>2. \A m \in Nat : <<P(m)>> \in Seq(Character)
    <3>1. \A c \in Character : <<c>> \in Seq(Character)
      OBVIOUS
    <3>2. \A m \in Nat : P(m) \in Character
      BY <1>1
    <3> HIDE DEF P
    <3>3. QED
      BY <3>1, <3>2
  <2>3. \A m \in Nat : B(m) \in Seq(Character) /\ B(m + 1) = B(m) \o <<P(m)>>
    BY <1>1
  <2> HIDE DEF B, P
  <2>4. ASSUME NEW m \in Nat PROVE s \o B(m + 1) = (s \o B(m)) \o <<P(m)>>
    <3>1. B(m) \in Seq(Character) /\ <<P(m)>> \in Seq(Character)
      BY <2>2, <2>3
    <3>2. (s \o B(m)) \o <<P(m)>> = s \o (B(m) \o <<P(m)>>)
      BY <1>2, <2>1, <3>1
    <3>3. QED
      BY <2>3, <3>2
  <2>5. QED
    BY <2>4
<1>4. 0 \in M
  <2>1. B(0) = <<>> /\ s \o <<>> = s
    BY <1>2, ConcatEmptySeq DEF Beginning
  <2>2. [y EXCEPT !.code = 0] = y
    BY DEF Style
  <2>3. QED
    BY <2>1, <2>2
<1>5. ASSUME NEW m \in Nat, m < n, Follows(s \o B(m), [y EXCEPT !.code = m])
      PROVE  Follows(s \o B(m + 1), Apply([y EXCEPT !.code = m], P(m)))
  <2> DEFINE z == [y EXCEPT !.code = m]
  <2> HIDE DEF B, P
  <2>1. Follows(s \o B(m), z) /\ P(m) \in Character /\ ~IsLetter(P(m))
    BY <1>1, <1>5
  <2> HIDE DEF z
  <2>2. Follows((s \o B(m)) \o <<P(m)>>, Apply(z, P(m)))
    BY <2>1, ReaderNext
  <2>3. QED
    BY <1>3, <2>2 DEF z
<1>6. ASSUME NEW m \in Nat
      PROVE  /\ m + 1 < n => Apply([y EXCEPT !.code = m], P(m)) = [y EXCEPT !.code = m + 1]
             /\ m + 1 = n => Apply([y EXCEPT !.code = m], P(m)) = [y EXCEPT !.fg = fg, !.bg = bg]
  <2> DEFINE z == [y EXCEPT !.code = m]
             p == [char |-> kind, fg |-> fg, bg |-> bg, at |-> m + 1, size |-> n]
  <2>1. z.code = m /\ z \in Style
    BY DEF Style
  <2>2. p.char \in {"hex", "decimal"} /\ p.at = m + 1 /\ p.size = n /\ p.fg = fg /\ p.bg = bg
    OBVIOUS
  <2>3. /\ [z EXCEPT !.code = m + 1] = [y EXCEPT !.code = m + 1]
        /\ [z EXCEPT !.fg = fg, !.bg = bg, !.code = 0] = [y EXCEPT !.fg = fg, !.bg = bg]
    BY DEF Style
  <2> HIDE DEF p, z
  <2>4. /\ m + 1 < n => Apply(z, p) = [z EXCEPT !.code = m + 1]
        /\ m + 1 = n => Apply(z, p) = [z EXCEPT !.fg = fg, !.bg = bg, !.code = 0]
    <3>1. n \in Nat
      OBVIOUS
    <3>2. p.at = z.code + 1
      BY <2>1, <2>2
    <3>3. p.size \in Nat
      BY <2>2, <3>1
    <3>4. /\ p.at < p.size => Apply(z, p) = [z EXCEPT !.code = p.at]
          /\ p.at = p.size => Apply(z, p) = [z EXCEPT !.fg = p.fg, !.bg = p.bg, !.code = 0]
      <4>1. ReadOn(z, p)
        BY <2>1, <2>2, <3>2, <3>3, CodeApplied
      <4>2. QED
        BY <4>1 DEF ReadOn
    <3>5. QED
      BY <2>2, <3>4
  <2>5. QED
    BY <2>3, <2>4 DEF p, z
<1> HIDE DEF B, P
<1>7. ASSUME NEW m \in Nat, m \in M PROVE m + 1 \in M
  BY <1>5, <1>6, <1>7
<1>8. PICK k \in Nat : n = k + 1
  <2>1. n - 1 \in Nat /\ n = (n - 1) + 1
    OBVIOUS
  <2>2. QED
    BY <2>1
<1>9. k < n
  BY <1>8
<1>10. Follows(s \o B(k), [y EXCEPT !.code = k])
  <2>1. k \in M
    <3> HIDE DEF M
    <3>1. QED
      BY <1>4, <1>7, Inductive
  <2>2. QED
    BY <1>9, <2>1
<1>11. B(n) = Code(kind, fg, bg, n)
  BY DEF B, Beginning, Code
<1>12. QED
  BY <1>5, <1>6, <1>8, <1>9, <1>10, <1>11

\* A colour code sets the colours, when there is no background alone.
LEMMA ReaderColour ==
    ASSUME NEW s, NEW y \in Style, Follows(s, y), y.code = 0, NEW fg \in Colour, NEW bg \in Colour,
           fg = NoColour => bg = NoColour
    PROVE  Follows(s \o ColourCode(fg, bg), [y EXCEPT !.fg = fg, !.bg = bg])
<1>1. CASE fg = NoColour
  BY <1>1, SizesAre, ReaderCode DEF ColourCode, DecimalDefault
<1>2. CASE fg # NoColour
  BY <1>2, SizesAre, ReaderCode DEF ColourCode, Hex
<1>3. QED
  BY <1>1, <1>2

\* A blank changes nothing.
LEMMA ReaderBlank ==
    ASSUME NEW s, NEW y, Follows(s, y), NEW c \in Character, IsBlank(c)
    PROVE  Follows(s \o <<c>>, y)
BY ReaderNext, BlankIs

\* The kinds of elements.
LEMMA KindOf ==
    ASSUME NEW e \in Elements
    PROVE  \/ e.tag \in Toggles
           \/ e.tag = "li"
           \/ Coloured(e) /\ e.tag \notin Toggles
           \/ e.tag \notin Toggles \cup {"li"} /\ ~Coloured(e)
BY ElementTypes

\* The two sides of a step into an element or out of it are records of a style.
LEMMA InnerIs ==
    ASSUME NEW es \in Seq(Elements), NEW e \in Elements
    PROVE  /\ Inner(es, e) \in Style
           /\ Inner(es, e).code = 0 /\ StyleIn(es).code = 0
           /\ e.tag \notin Toggles => Inner(es, e).on = StyleIn(es).on
           /\ e.tag \in Toggles => Inner(es, e).on = StyleIn(es).on \cup {e.tag}
           /\ Coloured(e) => Inner(es, e).fg = e.fg /\ Inner(es, e).bg = e.bg
           /\ ~Coloured(e) => Inner(es, e).fg = StyleIn(es).fg /\ Inner(es, e).bg = StyleIn(es).bg
<1>1. StyleIn(es) \in Style /\ e.fg \in Colour /\ e.bg \in Colour
  BY StyleTypes, ElementTypes
<1>2. Inner(es, e) \in Style
  BY <1>1 DEF Inner, Style
<1>3. QED
  BY <1>1, <1>2 DEF Inner, Style, StyleIn

\* The reader follows the walk into an element.
LEMMA EnterReads ==
    ASSUME NEW es \in Seq(Elements), NEW e \in Elements, Tame(Append(es, e)),
           NEW s, Follows(s, StyleIn(es))
    PROVE  Follows(s \o Before(e, es), StyleIn(Append(es, e)))
<1> DEFINE y == StyleIn(es)
           z == Inner(es, e)
<1>1. /\ StyleIn(Append(es, e)) = z /\ y \in Style /\ z \in Style /\ s \in Seq(Character)
      /\ y.code = 0 /\ z.code = 0
  BY StyleInner, StyleTypes, InnerIs DEF Follows
<1>2. CASE e.tag \in Toggles
  <2>1. Before(e, es) = <<Toggle(e.tag)>> /\ ~Coloured(e)
    BY <1>2, AroundIs
  <2>2. e.tag \notin y.on
    BY <1>2, TameInner
  <2>3. z.on = y.on \cup {e.tag} /\ z.fg = y.fg /\ z.bg = y.bg
    BY <1>2, <2>1, InnerIs
  <2> HIDE DEF y, z
  <2>4. Apply(y, Toggle(e.tag)) = [y EXCEPT !.on = y.on \cup {e.tag}]
    <3>1. Toggle(e.tag).char = "toggle" /\ Toggle(e.tag).toggle = e.tag
      BY DEF Toggle
    <3>2. QED
      BY <2>2, <3>1, ApplyIs
  <2>5. [y EXCEPT !.on = y.on \cup {e.tag}] = z
    BY <1>1, <2>3 DEF Style
  <2>6. Toggle(e.tag) \in Character /\ ~IsLetter(Toggle(e.tag))
    BY <1>2 DEF Toggle, Character, IsLetter, Letters
  <2>7. Follows(s \o <<Toggle(e.tag)>>, Apply(y, Toggle(e.tag)))
    BY <2>6, ReaderNext DEF y
  <2>8. QED
    BY <1>1, <2>1, <2>4, <2>5, <2>7
<1>3. CASE e.tag = "li"
  <2> DEFINE m == Char("a", y)
  <2>1. Before(e, es) = <<m, Space>> /\ ~Coloured(e) /\ e.tag \notin Toggles
    BY <1>3, AroundIs
  <2>2. z.on = y.on /\ z.fg = y.fg /\ z.bg = y.bg
    BY <2>1, InnerIs
  <2>3. m \in Character
    BY <1>1, CharTypes DEF Letters
  <2>4. m.style = y /\ Apply(y, m) = y
    <3>1. m.char = "a" /\ m.style = y
      BY DEF Char
    <3>2. QED
      BY <3>1, ApplyIs
  <2> HIDE DEF y, z, m
  <2>5. z = y
    BY <1>1, <2>2 DEF Style
  <2>6. Follows(s, y)
    BY DEF y
  <2>7. Follows(s \o <<m>>, y)
    <3>1. Follows(s \o <<m>>, Apply(y, m))
      BY <2>3, <2>4, <2>6, ReaderNext
    <3>2. QED
      BY <2>4, <3>1
  <2>8. Space \in Character /\ IsBlank(Space)
    BY CharacterTypes DEF IsBlank, Blank, Space, Char
  <2>9. Follows((s \o <<m>>) \o <<Space>>, y)
    BY <2>7, <2>8, ReaderBlank
  <2>10. s \o <<m, Space>> = (s \o <<m>>) \o <<Space>>
    BY <1>1, <2>3, <2>8
  <2>11. QED
    BY <1>1, <2>1, <2>5, <2>9, <2>10
<1>4. CASE Coloured(e) /\ e.tag \notin Toggles
  <2>1. Before(e, es) = ColourCode(e.fg, e.bg)
    BY <1>4, AroundIs
  <2>2. z.on = y.on /\ z.fg = e.fg /\ z.bg = e.bg
    BY <1>4, InnerIs
  <2>3. e.fg \in Colour /\ e.bg \in Colour /\ (e.fg = NoColour => e.bg = NoColour)
    BY ElementTypes, TameInner
  <2>4. Follows(s \o ColourCode(e.fg, e.bg), [y EXCEPT !.fg = e.fg, !.bg = e.bg])
    BY <1>1, <2>3, ReaderColour
  <2> HIDE DEF y, z
  <2>5. [y EXCEPT !.fg = e.fg, !.bg = e.bg] = z
    BY <1>1, <2>2 DEF Style
  <2>6. QED
    BY <1>1, <2>1, <2>4, <2>5
<1>5. CASE e.tag \notin Toggles \cup {"li"} /\ ~Coloured(e)
  <2>1. Before(e, es) = <<>>
    BY <1>5, AroundIs
  <2>2. z.on = y.on /\ z.fg = y.fg /\ z.bg = y.bg
    BY <1>5, InnerIs
  <2> HIDE DEF y, z
  <2>3. z = y
    BY <1>1, <2>2 DEF Style
  <2>4. s \o <<>> = s
    BY <1>1, ConcatEmptySeq
  <2>5. QED
    BY <1>1, <2>1, <2>3, <2>4 DEF y
<1>6. QED
  BY <1>2, <1>3, <1>4, <1>5, KindOf

\* And out of it.
LEMMA LeaveReads ==
    ASSUME NEW es \in Seq(Elements), NEW e \in Elements, Tame(Append(es, e)),
           NEW s, Follows(s, StyleIn(Append(es, e)))
    PROVE  Follows(s \o After(e, es), StyleIn(es))
<1> DEFINE y == StyleIn(es)
           z == Inner(es, e)
<1>1. /\ StyleIn(Append(es, e)) = z /\ y \in Style /\ z \in Style
      /\ s \in Seq(Character) /\ Follows(s, z)
      /\ y.code = 0 /\ z.code = 0
  BY StyleInner, StyleTypes, InnerIs DEF Follows
<1>2. CASE e.tag \in Toggles
  <2>1. After(e, es) = <<Toggle(e.tag)>> /\ ~Coloured(e)
    BY <1>2, AroundIs
  <2>2. e.tag \notin y.on
    BY <1>2, TameInner
  <2>3. z.on = y.on \cup {e.tag} /\ z.fg = y.fg /\ z.bg = y.bg
    BY <1>2, <2>1, InnerIs
  <2> HIDE DEF y, z
  <2>4. Apply(z, Toggle(e.tag)) = [z EXCEPT !.on = z.on \ {e.tag}]
    <3>1. Toggle(e.tag).char = "toggle" /\ Toggle(e.tag).toggle = e.tag
      BY DEF Toggle
    <3>2. QED
      BY ZenonT(30), <2>3, <3>1, ApplyIs
  <2>5. [z EXCEPT !.on = z.on \ {e.tag}] = y
    <3>1. z.on \ {e.tag} = y.on
      BY <2>2, <2>3
    <3>2. QED
      BY <1>1, <2>3, <3>1 DEF Style
  <2>6. Toggle(e.tag) \in Character /\ ~IsLetter(Toggle(e.tag))
    BY <1>2 DEF Toggle, Character, IsLetter, Letters
  <2>7. Follows(s \o <<Toggle(e.tag)>>, Apply(z, Toggle(e.tag)))
    BY <1>1, <2>6, ReaderNext
  <2>8. QED
    BY <1>1, <2>1, <2>4, <2>5, <2>7 DEF y
<1>3. CASE e.tag = "li"
  <2>1. After(e, es) = <<Newline>> /\ ~Coloured(e) /\ e.tag \notin Toggles
    BY <1>3, AroundIs
  <2>2. z.on = y.on /\ z.fg = y.fg /\ z.bg = y.bg
    BY <2>1, InnerIs
  <2>3. Newline \in Character /\ IsBlank(Newline)
    BY CharacterTypes DEF IsBlank, Blank, Newline, Char
  <2> HIDE DEF y, z
  <2>4. z = y
    BY <1>1, <2>2 DEF Style
  <2>5. Follows(s \o <<Newline>>, z)
    BY <1>1, <2>3, ReaderBlank
  <2>6. QED
    BY <2>1, <2>4, <2>5 DEF y
<1>4. CASE Coloured(e) /\ e.tag \notin Toggles
  <2> DEFINE fg == ColoursIn(es).fg
             bg == ColoursIn(es).bg
  <2>1. After(e, es) = ColourCode(fg, bg)
    BY <1>4, AroundIs
  <2>2. z.on = y.on
    BY <1>4, InnerIs
  <2>3. y.fg = fg /\ y.bg = bg
    BY DEF StyleIn
  <2>4. fg \in Colour /\ bg \in Colour
    BY <1>1, <2>3 DEF Style
  <2>5. fg = NoColour => bg = NoColour
    <3>1. \A i \in DOMAIN es : es[i].fg = NoColour => es[i].bg = NoColour
      BY TameInner DEF Tame
    <3>2. ColoursIn(es) = Default \/ \E i \in DOMAIN es : ColoursIn(es) = es[i]
      BY ColoursAre
    <3>3. QED
      BY <3>1, <3>2 DEF Default
  <2> HIDE DEF y, z, fg, bg
  <2>6. Follows(s \o ColourCode(fg, bg), [z EXCEPT !.fg = fg, !.bg = bg])
    BY <1>1, <2>4, <2>5, ReaderColour
  <2>7. [z EXCEPT !.fg = fg, !.bg = bg] = y
    BY <1>1, <2>2, <2>3 DEF Style
  <2>8. QED
    BY <2>1, <2>6, <2>7 DEF y
<1>5. CASE e.tag \notin Toggles \cup {"li"} /\ ~Coloured(e)
  <2>1. After(e, es) = <<>>
    BY <1>5, AroundIs
  <2>2. z.on = y.on /\ z.fg = y.fg /\ z.bg = y.bg
    BY <1>5, InnerIs
  <2> HIDE DEF y, z
  <2>3. z = y
    BY <1>1, <2>2 DEF Style
  <2>4. s \o <<>> = s
    BY <1>1, ConcatEmptySeq
  <2>5. QED
    BY <1>1, <2>1, <2>3, <2>4 DEF y
<1>6. QED
  BY <1>2, <1>3, <1>4, <1>5, KindOf

\* The invariant, a reader in the place of the walk.
LEMMA InvIs ==
    RenderingInv <=> RenderingTypeOK /\ (tame => Tame(open) /\ Follows(body, StyleIn(open)))
BY DEF RenderingInv, RenderingTypeOK, Follows

\* The text before anything is read.
LEMMA RenderingBegins == ASSUME RenderingInit PROVE RenderingInv
<1>1. open = <<>> /\ body = <<>> /\ nodes = 0 /\ tame = TRUE
  BY DEF RenderingInit
<1>2. ColoursIn(open) = Default
  <2>1. {i \in DOMAIN open : Coloured(open[i])} = {}
    BY <1>1
  <2>2. QED
    BY <2>1 DEF ColoursIn
<1>3. Tame(open) /\ StyleIn(open) = Default
  <2>1. {open[i].tag : i \in DOMAIN open} = {}
    BY <1>1
  <2>2. StyleIn(open) = Default
    <3>1. ColoursIn(open).fg = NoColour /\ ColoursIn(open).bg = NoColour
      BY <1>2 DEF Default
    <3>2. StyleIn(open).on = {}
      BY <2>1 DEF StyleIn
    <3>3. QED
      BY <3>1, <3>2 DEF StyleIn, Default
  <2>3. QED
    BY <1>1, <2>2 DEF Tame
<1>4. body \in Seq(Character) /\ open \in Seq(Elements)
  BY <1>1
<1>5. ReadFrom(Default, body) = Default /\ ReadsRight(body)
  BY <1>1, <1>4, ReadIs, RightNone, CharacterTypes
<1>6. QED
  BY <1>1, <1>3, <1>4, <1>5 DEF RenderingInv, RenderingTypeOK

\* Going into an element, out of it, writing a character, a line break.
LEMMA EnterKeeps == ASSUME RenderingInv, NEW e \in Elements, Enter(e) PROVE RenderingInv'
<1> DEFINE us == Append(open, e)
<1>1. open \in Seq(Elements) /\ body \in Seq(Character) /\ tame \in BOOLEAN /\ nodes \in Nat
  BY DEF RenderingInv, RenderingTypeOK
<1>2. /\ open' = us /\ tame' = (tame /\ Tame(us)) /\ body' = body \o Before(e, open)
      /\ nodes' = nodes + 1 /\ us \in Seq(Elements)
  BY <1>1, AppendProperties DEF Enter, Puts
<1>3. Before(e, open) \in Seq(Character)
  BY <1>1, AroundTypes
<1>4. body' \in Seq(Character) /\ nodes' \in Nat /\ tame' \in BOOLEAN
  BY <1>1, <1>2, <1>3, ConcatProperties
<1>5. tame' => Tame(us) /\ Follows(body', StyleIn(us))
  <2>1. SUFFICES ASSUME tame' PROVE Tame(us) /\ Follows(body', StyleIn(us))
    OBVIOUS
  <2>2. Tame(us) /\ Follows(body, StyleIn(open))
    BY <1>2, <2>1, InvIs
  <2>3. Follows(body \o Before(e, open), StyleIn(us))
    BY <1>1, <2>2, EnterReads
  <2>4. QED
    BY <1>2, <2>2, <2>3
<1> HIDE DEF us
<1>6. QED
  BY <1>2, <1>4, <1>5, InvIs DEF RenderingInv, RenderingTypeOK, Follows

LEMMA LeaveKeeps == ASSUME RenderingInv, Leave PROVE RenderingInv'
<1>1. open \in Seq(Elements) /\ body \in Seq(Character) /\ tame \in BOOLEAN /\ nodes \in Nat
  BY DEF RenderingInv, RenderingTypeOK
<1>2. PICK es \in Seq(Elements), e \in Elements : open = Append(es, e)
  BY <1>1, SequenceEmptyOrAppend DEF Leave
<1>3. Front(open) = es /\ Last(open) = e
  BY <1>2, FrontLast
<1>4. open' = es /\ body' = body \o After(e, es) /\ tame' = tame /\ nodes' = nodes
  BY <1>3 DEF Leave, Puts
<1>5. After(e, es) \in Seq(Character)
  BY AroundTypes
<1>6. body' \in Seq(Character)
  BY <1>1, <1>4, <1>5, ConcatProperties
<1>7. tame' => Tame(es) /\ Follows(body', StyleIn(es))
  <2>1. SUFFICES ASSUME tame' PROVE Tame(es) /\ Follows(body', StyleIn(es))
    OBVIOUS
  <2>2. Tame(Append(es, e)) /\ Follows(body, StyleIn(Append(es, e)))
    BY <1>2, <1>4, <2>1, InvIs
  <2>3. Follows(body \o After(e, es), StyleIn(es)) /\ Tame(es)
    BY <2>2, LeaveReads, TameInner
  <2>4. QED
    BY <1>4, <2>3
<1>8. QED
  BY <1>1, <1>4, <1>6, <1>7 DEF RenderingInv, RenderingTypeOK, Follows

\* A character that is blank, or a letter in the style of its place.
LEMMA WritesKeeps ==
    ASSUME RenderingInv, NEW c \in Character, IsBlank(c) \/ (c.style = StyleIn(open) /\ IsLetter(c)),
           body' = body \o <<c>>, nodes' = nodes + 1, UNCHANGED <<open, tame>>
    PROVE  RenderingInv'
<1>1. open \in Seq(Elements) /\ body \in Seq(Character) /\ tame \in BOOLEAN /\ nodes \in Nat
  BY DEF RenderingInv, RenderingTypeOK
<1>2. <<c>> \in Seq(Character)
  OBVIOUS
<1>3. body' \in Seq(Character)
  BY <1>1, <1>2, ConcatProperties
<1>4. tame => Tame(open) /\ Follows(body', StyleIn(open))
  <2>1. SUFFICES ASSUME tame PROVE Tame(open) /\ Follows(body', StyleIn(open))
    OBVIOUS
  <2>2. Tame(open) /\ Follows(body, StyleIn(open))
    BY <2>1, InvIs
  <2>3. Apply(StyleIn(open), c) = StyleIn(open)
    BY BlankIs, ApplyIs DEF IsLetter, Letters
  <2>4. IsLetter(c) => c.style = StyleIn(open)
    BY BlankIs
  <2>5. Follows(body \o <<c>>, Apply(StyleIn(open), c))
    BY <2>2, <2>4, ReaderNext
  <2>6. QED
    BY <2>2, <2>3, <2>5
<1>5. QED
  BY <1>1, <1>3, <1>4 DEF RenderingInv, RenderingTypeOK, Follows

LEMMA TextKeeps ==
    ASSUME RenderingInv, NEW c \in Letters \cup {" "}, Text(c)
    PROVE  RenderingInv'
<1> DEFINE d == Char(c, StyleIn(open))
<1>1. d \in Character
  BY StyleTypes, CharTypes DEF Blank, RenderingInv, RenderingTypeOK
<1>2. IsBlank(d) \/ (d.style = StyleIn(open) /\ IsLetter(d))
  <2>1. d.char = c /\ d.style = StyleIn(open)
    BY DEF Char
  <2> HIDE DEF d
  <2>2. QED
    BY <2>1 DEF IsBlank, IsLetter, Blank
<1>3. body' = body \o <<d>> /\ nodes' = nodes + 1 /\ UNCHANGED <<open, tame>>
  BY DEF Text, Puts
<1> HIDE DEF d
<1>4. QED
  BY <1>1, <1>2, <1>3, WritesKeeps

LEMMA BreakKeeps == ASSUME RenderingInv, Break PROVE RenderingInv'
<1>1. Newline \in Character /\ IsBlank(Newline)
  BY CharacterTypes DEF IsBlank, Blank, Newline, Char
<1>2. body' = body \o <<Newline>> /\ nodes' = nodes + 1 /\ UNCHANGED <<open, tame>>
  BY DEF Break, Puts
<1>3. IsBlank(Newline) \/ (Newline.style = StyleIn(open) /\ IsLetter(Newline))
  BY <1>1
<1>4. QED
  BY <1>1, <1>2, <1>3, WritesKeeps

\* The walk keeps the invariant, for every message, any number of styles, colours and
\* characters of a line (transform_m2i).
THEOREM RenderingInvariance == RenderingSpec => []RenderingInv
<1>1. RenderingInit => RenderingInv
  BY RenderingBegins
<1>2. RenderingInv /\ [RenderingNext]_renderingVars => RenderingInv'
  <2>1. SUFFICES ASSUME RenderingInv, [RenderingNext]_renderingVars PROVE RenderingInv'
    OBVIOUS
  <2>2. CASE \E e \in Elements : Enter(e)
    BY <2>1, <2>2, EnterKeeps
  <2>3. CASE Leave
    BY <2>1, <2>3, LeaveKeeps
  <2>4. CASE \E c \in Letters \cup {" "} : Text(c)
    BY <2>1, <2>4, TextKeeps
  <2>5. CASE Break
    BY <2>1, <2>5, BreakKeeps
  <2>6. CASE UNCHANGED renderingVars
    BY <2>1, <2>6 DEF renderingVars, RenderingInv, RenderingTypeOK
  <2>7. QED
    BY <2>1, <2>2, <2>3, <2>4, <2>5, <2>6 DEF RenderingNext
<1>3. QED
  BY <1>1, <1>2, PTL DEF RenderingSpec

\* A client that reads a line alone shows its letters in their styles, for any
\* WIDTH and colour codes of any length, unless the line begins where a style is
\* on or inside a code that was cut (transform_m2i, wrap_body, chunks).
THEOREM LinesAlwaysRead == RenderingSpec => []LinesRead
<1>1. RenderingInv => LinesRead
  BY LinesAreRead DEF RenderingInv, RenderingTypeOK
<1>2. QED
  BY <1>1, RenderingInvariance, PTL

\* No letter is lost, doubled or moved between the body and the lines.
THEOREM LettersAlwaysKept == RenderingSpec => []LettersKept
<1>1. RenderingInv => LettersKept
  BY LettersAreKept DEF RenderingInv, RenderingTypeOK
<1>2. QED
  BY <1>1, RenderingInvariance, PTL

\* A line that is too long is one word.
THEOREM LongLinesAlwaysWords == RenderingSpec => []LongLinesAreWords
<1>1. RenderingInv => LongLinesAreWords
  BY LongAreWords DEF RenderingInv, RenderingTypeOK
<1>2. QED
  BY <1>1, RenderingInvariance, PTL
=============================================================================
