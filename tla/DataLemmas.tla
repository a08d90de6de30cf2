----------------------------- MODULE DataLemmas -----------------------------
(***************************************************************************)
(* Induction and recursion over bounded data, and what the models compute  *)
(* with them: sums over finite sets (SumFunctionOnSet of the module        *)
(* Functions) and the functions that fold or filter a sequence.  Every     *)
(* lemma is first-order: a predicate is the set of its instances, a step   *)
(* of a recursion a function.  All of them go back to a counterexample     *)
(* that is minimal under inclusion.                                        *)
(***************************************************************************)
EXTENDS Integers, Sequences, FiniteSets, Functions, FiniteSetTheorems, SequenceTheorems,
        WellFoundedInduction, TLAPS

\* Among subsets of a finite set one is minimal under inclusion: what every
\* induction over executions, positions or symbols below starts from.
LEMMA MinimalSubset ==
  ASSUME NEW U, IsFiniteSet(U), NEW B \in SUBSET (SUBSET U), B # {}
  PROVE  \E T \in B : \A R \in B : R \subseteq T => R = T
  <1>1. FiniteSubsetsOf(U) = SUBSET U
    BY FS_FiniteSubsetsOfFinite
  <1>2. IsWellFoundedOn(StrictSubsetOrdering(U), SUBSET U)
    BY <1>1, FS_StrictSubsetOrderingWellFounded
  <1>3. PICK T \in B : \A R \in B : ~(<<R, T>> \in StrictSubsetOrdering(U))
    BY <1>2, WFMin
  <1>4. ASSUME NEW R \in B, R \subseteq T, R # T PROVE FALSE
    BY <1>3, <1>4 DEF StrictSubsetOrdering
  <1> QED
    BY <1>4

\* What holds at the start of a range and is passed on by every step holds in
\* all of it: how a replay of bars or a queue of orders is followed.
LEMMA Induction ==
  ASSUME NEW a \in Int, NEW b \in Int, NEW P,
         a <= b => a \in P,
         \A k \in a..(b - 1) : k \in P => k + 1 \in P
  PROVE  \A k \in a..b : k \in P
  <1> DEFINE B == {T \in SUBSET (a..b) : \E k \in a..b : k \notin P /\ T = a..k}
  <1> SUFFICES ASSUME NEW n \in a..b, n \notin P PROVE FALSE
    OBVIOUS
  <1>1. (a..n) \in B
    OBVIOUS
  <1>2. PICK T \in B : \A R \in B : R \subseteq T => R = T
    <2>1. B # {}
      BY <1>1
    <2>2. PICK U : U = a..b
      OBVIOUS
    <2>3. IsFiniteSet(U)
      BY <2>2, FS_Interval
    <2>4. B \in SUBSET (SUBSET U)
      BY <2>2
    <2> HIDE DEF B
    <2> QED
      BY <2>1, <2>3, <2>4, MinimalSubset
  <1>3. PICK k \in a..b : k \notin P /\ T = a..k
    BY <1>2
  <1>4. k - 1 \in a..b /\ k - 1 \in a..(b - 1)
    BY <1>3
  <1>5. k - 1 \notin P
    BY <1>3, <1>4
  <1>6. (a..(k - 1)) \in B /\ (a..(k - 1)) \subseteq T /\ (a..(k - 1)) # T
    BY <1>3, <1>4, <1>5
  <1> QED
    BY <1>2, <1>6

\* The same from nothing up to a length, a width or a number of steps.
LEMMA InductionTo ==
  ASSUME NEW n \in Nat, NEW P, 0 \in P, \A k \in 0..(n - 1) : k \in P => k + 1 \in P
  PROVE  n \in P
  <1>1. \A k \in 0..n : k \in P
    BY Induction
  <1> QED
    BY <1>1

\* f follows step from base at the start of the range.
Follows(f, a, b, base, step) ==
  \A k \in a..b : f[k] = IF k = a THEN base ELSE step[<<k, f[k - 1]>>]

\* f takes its value where it stops, and that of the next argument elsewhere.
PassesOn(f, D, stop, val, next) ==
  \A d \in D : f[d] = IF d \in stop THEN val[d] ELSE f[next[d]]

\* A function may be defined along a range: each value from the one before it,
\* as the day of a strategy from bar to bar.
LEMMA RecursionAlong ==
  ASSUME NEW a \in Int, NEW b \in Int, NEW S, NEW base \in S,
         NEW step \in [(a..b) \X S -> S]
  PROVE  \E f \in [a..b -> S] : Follows(f, a, b, base, step)
  <1> DEFINE Solves(f, k) == \A j \in a..k : f[j] = IF j = a THEN base ELSE step[<<j, f[j - 1]>>]
             P == {k \in a..b : \E f \in [a..b -> S] : Solves(f, k)}
  <1>1. ASSUME a <= b PROVE a \in P
    <2> DEFINE f == [k \in a..b |-> base]
    <2>1. f \in [a..b -> S] /\ f[a] = base /\ a \in a..b
      BY <1>1
    <2>2. Solves(f, a)
      BY <2>1
    <2> HIDE DEF f
    <2> QED
      BY <2>1, <2>2
  <1>2. ASSUME NEW k \in a..(b - 1), k \in P PROVE k + 1 \in P
    <2>1. PICK f \in [a..b -> S] : Solves(f, k)
      BY <1>2
    <2> DEFINE g == [f EXCEPT ![k + 1] = step[<<k + 1, f[k]>>]]
    <2>2. k \in a..b /\ k + 1 \in a..b /\ f[k] \in S
      OBVIOUS
    <2>3. g \in [a..b -> S]
      BY <2>2
    <2>4. ASSUME NEW j \in a..(k + 1)
          PROVE  g[j] = IF j = a THEN base ELSE step[<<j, g[j - 1]>>]
      <3>1. CASE j = k + 1
        <4>1. g[j] = step[<<j, f[k]>>] /\ g[j - 1] = f[k] /\ j # a
          BY <2>2, <3>1
        <4> QED
          BY <3>1, <4>1
      <3>2. CASE j # k + 1
        <4>1. j \in a..k /\ j \in a..b /\ g[j] = f[j]
          BY <3>2
        <4>2. j # a => j - 1 \in a..b /\ j - 1 # k + 1 /\ g[j - 1] = f[j - 1]
          BY <4>1
        <4> QED
          BY <2>1, <4>1, <4>2
      <3> QED
        BY <3>1, <3>2
    <2> QED
      BY <2>2, <2>3, <2>4
  <1>3. CASE a <= b
    <2>1. b \in P
      <3> HIDE DEF P
      <3>1. \A k \in a..b : k \in P
        BY <1>1, <1>2, Induction
      <3> QED
        BY <1>3, <3>1
    <2> QED
      BY <2>1 DEF Follows
  <1>4. CASE ~(a <= b)
    <2> DEFINE f == [k \in a..b |-> base]
    <2>1. f \in [a..b -> S] /\ a..b = {}
      BY <1>4
    <2> QED
      BY <2>1 DEF Follows
  <1> QED
    BY <1>3, <1>4

\* So may one that passes on to a nearer argument until it stops: a bisection
\* to a smaller interval, a resizing to fewer shares.
LEMMA RecursionDown ==
  ASSUME NEW D, NEW V, NEW n \in Nat, NEW m \in [D -> 0..n], NEW stop,
         NEW val \in [D -> V], NEW next \in [D -> D],
         \A d \in D : d \notin stop => m[next[d]] < m[d]
  PROVE  \E f \in [D -> V] : PassesOn(f, D, stop, val, next)
  <1> DEFINE Solves(f, k) == \A d \in D : m[d] <= k =>
                                 f[d] = IF d \in stop THEN val[d] ELSE f[next[d]]
             P == {k \in 0..n : \E f \in [D -> V] : Solves(f, k)}
  <1>1. 0 \in P
    <2>1. val \in [D -> V] /\ Solves(val, 0)
      OBVIOUS
    <2> QED
      BY <2>1
  <1>2. ASSUME NEW k \in 0..(n - 1), k \in P PROVE k + 1 \in P
    <2>1. PICK f \in [D -> V] : Solves(f, k)
      BY <1>2
    <2> DEFINE g == [d \in D |-> IF m[d] <= k THEN f[d]
                                 ELSE IF d \in stop THEN val[d] ELSE f[next[d]]]
    <2>2. g \in [D -> V]
      OBVIOUS
    <2>3. ASSUME NEW d \in D, m[d] <= k + 1
          PROVE  g[d] = IF d \in stop THEN val[d] ELSE g[next[d]]
      <3>1. CASE d \in stop
        BY <2>1, <3>1
      <3>2. CASE d \notin stop
        <4>1. next[d] \in D /\ m[next[d]] < m[d] /\ m[next[d]] \in Int /\ m[d] \in Int
          BY <3>2
        <4>2. m[next[d]] <= k
          BY <2>3, <4>1
        <4>3. g[next[d]] = f[next[d]]
          BY <4>1, <4>2
        <4>4. g[d] = f[next[d]]
          BY <2>1, <3>2
        <4> QED
          BY <3>2, <4>3, <4>4
      <3> QED
        BY <3>1, <3>2
    <2>4. Solves(g, k + 1)
      BY <2>3
    <2> HIDE DEF g
    <2> QED
      BY <2>2, <2>4
  <1>3. n \in P
    <2> HIDE DEF P
    <2>1. \A k \in 0..n : k \in P
      BY <1>1, <1>2, Induction
    <2> QED
      BY <2>1
  <1>4. PICK f \in [D -> V] : Solves(f, n)
    BY <1>3
  <1>5. \A d \in D : m[d] <= n
    OBVIOUS
  <1> QED
    BY <1>4, <1>5 DEF PassesOn

\* The positions before a given one, however they are told, are a prefix:
\* where a bisection or a sorted insertion ends up.
LEMMA InitialSegment ==
  ASSUME NEW n \in Nat, NEW D, \A i \in D : i \in 1..n,
         \A i \in D : \A j \in 1..(i - 1) : j \in D
  PROVE  \E k \in 0..n : Cardinality(D) = k /\ \A i \in 1..n : i \in D <=> i <= k
  <1> DEFINE Good(m) == \E k \in 0..m : \A i \in 1..m : i \in D <=> i <= k
             P == {m \in 0..n : Good(m)}
  <1>1. 0 \in P
    OBVIOUS
  <1>2. ASSUME NEW m \in 0..(n - 1), m \in P PROVE m + 1 \in P
    <2>1. PICK k \in 0..m : \A i \in 1..m : i \in D <=> i <= k
      BY <1>2
    <2>2. CASE m + 1 \in D
      <3>1. \A i \in 1..(m + 1) : i \in D <=> i <= m + 1
        BY <2>2
      <3>2. m + 1 \in 0..(m + 1) /\ m + 1 \in 0..n
        OBVIOUS
      <3> QED
        BY <3>1, <3>2
    <2>3. CASE m + 1 \notin D
      <3>1. \A i \in 1..(m + 1) : i \in D <=> i <= k
        BY <2>1, <2>3
      <3>2. k \in 0..(m + 1) /\ m + 1 \in 0..n
        OBVIOUS
      <3> QED
        BY <3>1, <3>2
    <2> QED
      BY <2>2, <2>3
  <1>3. n \in P
    <2> HIDE DEF P
    <2>1. \A m \in 0..n : m \in P
      BY <1>1, <1>2, Induction
    <2> QED
      BY <2>1
  <1>4. PICK k \in 0..n : \A i \in 1..n : i \in D <=> i <= k
    BY <1>3
  <1>5. PICK U : U = 1..k
    OBVIOUS
  <1>6. D = U
    <2>1. \A i : i \in D <=> i \in U
      BY <1>4, <1>5
    <2> QED
      BY <2>1
  <1>7. Cardinality(U) = k
    BY <1>5, FS_Interval
  <1> QED
    BY <1>4, <1>6, <1>7

----------------------------------------------------------------------------
(* Filters of a sequence. *)

\* The table of a filter: its value at n is what is kept of the first n.
Filters(f, s, keep) ==
  f = [n \in 0..Len(s) |-> IF n = 0 THEN << >>
                           ELSE IF s[n] \in keep THEN Append(f[n - 1], s[n])
                           ELSE f[n - 1]]

\* r is what is kept of the first n elements of s, h where it comes from.
SelectedBy(h, r, s, n, keep) ==
  /\ h \in [1..Len(r) -> 1..n]
  /\ \A i, j \in 1..Len(r) : i < j => h[i] < h[j]
  /\ \A i \in 1..Len(r) : r[i] = s[h[i]] /\ r[i] \in keep
  /\ \A i \in 1..n : s[i] \in keep => \E j \in 1..Len(r) : h[j] = i

\* Every filter has its table: pruning a calendar, picking the sells of a plan.
LEMMA FilterExists ==
  ASSUME NEW S, NEW s \in Seq(S), NEW keep
  PROVE  \E f : Filters(f, s, keep)
  <1> DEFINE step == [p \in (0..Len(s)) \X Seq(S) |->
                        IF p[1] > 0 /\ s[p[1]] \in keep THEN Append(p[2], s[p[1]]) ELSE p[2]]
  <1>1. Len(s) \in Nat /\ \A n \in 1..Len(s) : s[n] \in S
    BY LenProperties
  <1>2. step \in [(0..Len(s)) \X Seq(S) -> Seq(S)]
    <2>1. ASSUME NEW p \in (0..Len(s)) \X Seq(S)
          PROVE  (IF p[1] > 0 /\ s[p[1]] \in keep THEN Append(p[2], s[p[1]]) ELSE p[2]) \in Seq(S)
      BY <1>1, AppendProperties
    <2> QED
      BY <2>1
  <1>3. << >> \in Seq(S)
    OBVIOUS
  <1>4. PICK f \in [0..Len(s) -> Seq(S)] :
           \A k \in 0..Len(s) : f[k] = IF k = 0 THEN << >> ELSE step[<<k, f[k - 1]>>]
    <2>1. PICK N, T, g, z, e : N = Len(s) /\ T = Seq(S) /\ g = step /\ z = 0 /\ e = << >>
      OBVIOUS
    <2>2. z \in Int /\ N \in Int /\ g \in [(z..N) \X T -> T] /\ e \in T
      BY <1>1, <1>2, <1>3, <2>1
    <2>3. \E f \in [z..N -> T] : Follows(f, z, N, e, g)
      BY <2>2, RecursionAlong
    <2> HIDE DEF step
    <2> QED
      BY <2>1, <2>3 DEF Follows
  <1>5. ASSUME NEW n \in 0..Len(s)
        PROVE  f[n] = IF n = 0 THEN << >>
                      ELSE IF s[n] \in keep THEN Append(f[n - 1], s[n]) ELSE f[n - 1]
    <2>1. CASE n = 0
      BY <1>4, <2>1
    <2>2. CASE n # 0
      <3>1. f[n] = step[<<n, f[n - 1]>>]
        BY <1>4, <2>2
      <3>2. <<n, f[n - 1]>> \in (0..Len(s)) \X Seq(S) /\ n > 0
        BY <1>1, <2>2
      <3> QED
        BY <2>2, <3>1, <3>2
    <2> QED
      BY <2>1, <2>2
  <1>6. f = [n \in 0..Len(s) |-> f[n]]
    OBVIOUS
  <1> QED
    BY <1>5, <1>6 DEF Filters

\* What a filter keeps stands in the order it had, and nothing is left out.
LEMMA FilterSelects ==
  ASSUME NEW S, NEW s \in Seq(S), NEW keep, NEW f, Filters(f, s, keep)
  PROVE  \A n \in 0..Len(s) : f[n] \in Seq(S) /\ \E h : SelectedBy(h, f[n], s, n, keep)
  <1>1. PICK N \in Nat : N = Len(s)
    BY LenProperties
  <1>2. \A n \in 1..N : s[n] \in S
    BY <1>1, LenProperties
  <1>3. f[0] = << >>
    BY <1>1 DEF Filters
  <1>4. \A n \in 1..N : f[n] = IF s[n] \in keep THEN Append(f[n - 1], s[n]) ELSE f[n - 1]
    <2> SUFFICES ASSUME NEW n \in 1..N
                 PROVE  f[n] = IF s[n] \in keep THEN Append(f[n - 1], s[n]) ELSE f[n - 1]
      OBVIOUS
    <2>1. n \in 0..Len(s) /\ n # 0
      BY <1>1
    <2> QED
      BY <2>1 DEF Filters
  <1> DEFINE Good(n) == f[n] \in Seq(S) /\ \E h : SelectedBy(h, f[n], s, n, keep)
             P == {n \in 0..N : Good(n)}
  <1>5. Good(0)
    <2>1. f[0] \in Seq(S) /\ Len(f[0]) = 0
      BY <1>3
    <2>2. << >> \in [1..Len(f[0]) -> 1..0] /\ 1..Len(f[0]) = {} /\ 1..0 = {}
      BY <2>1
    <2>3. SelectedBy(<< >>, f[0], s, 0, keep)
      BY <2>2 DEF SelectedBy
    <2> QED
      BY <2>1, <2>3
  <1>6. ASSUME NEW k \in 0..(N - 1), Good(k) PROVE Good(k + 1)
    <2>1. PICK h : f[k] \in Seq(S) /\ SelectedBy(h, f[k], s, k, keep)
      BY <1>6
    <2>2. PICK n \in 1..N : n = k + 1
      BY <1>1
    <2>3. PICK r : r = f[k]
      OBVIOUS
    <2>4. PICK l \in Nat : l = Len(r)
      BY <2>1, <2>3, LenProperties
    <2>5. r \in Seq(S) /\ s[n] \in S /\ f[n] = IF s[n] \in keep THEN Append(r, s[n]) ELSE r
      <3>1. n - 1 = k
        BY <2>2
      <3> QED
        BY <1>2, <1>4, <2>1, <2>2, <2>3, <3>1
    <2>6. /\ h \in [1..l -> 1..k]
          /\ \A i, j \in 1..l : i < j => h[i] < h[j]
          /\ \A i \in 1..l : r[i] = s[h[i]] /\ r[i] \in keep
          /\ \A i \in 1..k : s[i] \in keep => \E j \in 1..l : h[j] = i
      BY <2>1, <2>3, <2>4 DEF SelectedBy
    <2>7. \A i \in 1..n : i = n \/ i \in 1..k
      BY <2>2
    <2>8. CASE s[n] \notin keep
      <3>1. f[n] = r
        BY <2>5, <2>8
      <3>2. h \in [1..l -> 1..n]
        BY <2>2, <2>6
      <3>3. SelectedBy(h, r, s, n, keep)
        BY <2>4, <2>6, <2>7, <2>8, <3>2 DEF SelectedBy
      <3> QED
        BY <2>2, <2>5, <3>1, <3>3
    <2>9. CASE s[n] \in keep
      <3>1. PICK q : q = Append(r, s[n])
        OBVIOUS
      <3>2. /\ f[n] = q /\ q \in Seq(S) /\ Len(q) = l + 1
            /\ \A i \in 1..l : q[i] = r[i]
            /\ q[l + 1] = s[n]
        BY <2>4, <2>5, <2>9, <3>1, AppendProperties
      <3>3. \A i \in 1..(l + 1) : i \in 1..l \/ i = l + 1
        BY <2>4
      <3>4. PICK g : g = [i \in 1..(l + 1) |-> IF i = l + 1 THEN n ELSE h[i]]
        OBVIOUS
      <3>5. \A i \in 1..l : h[i] \in 1..k /\ h[i] \in 1..n /\ h[i] < n
        <4> SUFFICES ASSUME NEW i \in 1..l PROVE h[i] \in 1..k /\ h[i] \in 1..n /\ h[i] < n
          OBVIOUS
        <4>1. h[i] \in 1..k
          BY <2>6
        <4> QED
          BY <2>2, <4>1
      <3>6. g \in [1..(l + 1) -> 1..n] /\ g[l + 1] = n
        BY <2>2, <3>3, <3>4, <3>5
      <3>7. \A i \in 1..l : i \in 1..(l + 1) /\ g[i] = h[i]
        BY <3>4
      <3>8. ASSUME NEW i \in 1..(l + 1), NEW j \in 1..(l + 1), i < j PROVE g[i] < g[j]
        <4>1. i \in 1..l
          BY <3>8
        <4>2. CASE j = l + 1
          BY <3>5, <3>6, <3>7, <4>1, <4>2
        <4>3. CASE j \in 1..l
          BY <2>6, <3>7, <3>8, <4>1, <4>3
        <4> QED
          BY <3>3, <4>2, <4>3
      <3>9. \A i \in 1..(l + 1) : q[i] = s[g[i]] /\ q[i] \in keep
        BY <2>6, <2>9, <3>2, <3>3, <3>6, <3>7
      <3>10. ASSUME NEW i \in 1..n, s[i] \in keep PROVE \E j \in 1..(l + 1) : g[j] = i
        <4>1. CASE i = n
          <5>1. l + 1 \in 1..(l + 1)
            OBVIOUS
          <5> QED
            BY <3>6, <4>1, <5>1
        <4>2. CASE i # n
          <5>1. PICK j \in 1..l : h[j] = i
            BY <2>6, <2>7, <3>10, <4>2
          <5> QED
            BY <3>7, <5>1
        <4> QED
          BY <4>1, <4>2
      <3>11. SelectedBy(g, q, s, n, keep)
        BY <3>2, <3>6, <3>8, <3>9, <3>10 DEF SelectedBy
      <3> QED
        BY <2>2, <3>2, <3>11
    <2> QED
      BY <2>8, <2>9
  <1>7. 0 \in P /\ \A k \in 0..(N - 1) : k \in P => k + 1 \in P
    <2> HIDE DEF Good
    <2> QED
      BY <1>5, <1>6
  <1>8. \A n \in 0..N : n \in P
    <2> HIDE DEF P
    <2> QED
      BY <1>7, Induction
  <1> QED
    BY <1>1, <1>8

----------------------------------------------------------------------------
(* Sums. *)

Pick(s) == CHOOSE x \in s : TRUE

\* The recursion that defines the sum of f.
Recursion(f, g, S) ==
  g = [s \in SUBSET S |-> IF s = {} THEN 0 ELSE f[Pick(s)] + g[s \ {Pick(s)}]]

\* The element a sum of positions or executions takes out first is one of them.
LEMMA PickIn == \A s : s # {} => Pick(s) \in s
  BY DEF Pick

\* The sum is what a solution of its recursion gives.
LEMMA SumIsRecursion ==
  ASSUME NEW f, NEW S
  PROVE  SumFunctionOnSet(f, S) = (CHOOSE g : Recursion(f, g, S))[S]
  BY DEF SumFunctionOnSet, FoldFunctionOnSet, MapThenFoldSet, Recursion, Pick

\* Solutions of the recursion agree where both are defined.
LEMMA RecursionUnique ==
  ASSUME NEW f, NEW S, NEW T, IsFiniteSet(S), NEW g, NEW h,
         Recursion(f, g, S), Recursion(f, h, T)
  PROVE  \A s \in SUBSET S : s \in SUBSET T => g[s] = h[s]
  <1> DEFINE B == {s \in SUBSET S : s \in SUBSET T /\ g[s] # h[s]}
  <1> SUFFICES ASSUME B # {} PROVE FALSE
    OBVIOUS
  <1>1. PICK s \in B : \A r \in B : r \subseteq s => r = s
    <2>1. B \in SUBSET (SUBSET S)
      OBVIOUS
    <2> HIDE DEF B
    <2> QED
      BY <2>1, MinimalSubset
  <1>2. CASE s = {}
    BY <1>1, <1>2 DEF Recursion
  <1>3. CASE s # {}
    <2> DEFINE r == s \ {Pick(s)}
    <2>1. Pick(s) \in s
      BY <1>3, PickIn
    <2>2. r \in SUBSET S /\ r \in SUBSET T /\ r \subseteq s /\ r # s
      BY <1>1, <2>1
    <2>3. g[r] = h[r]
      BY <1>1, <2>2
    <2>4. g[s] = f[Pick(s)] + g[r] /\ h[s] = f[Pick(s)] + h[r]
      BY <1>1, <1>3 DEF Recursion
    <2> QED
      BY <1>1, <2>3, <2>4
  <1> QED
    BY <1>2, <1>3

\* The recursion has a solution for every finite set.
LEMMA RecursionExists ==
  ASSUME NEW f, NEW U, IsFiniteSet(U)
  PROVE  \A S \in SUBSET U : \E g : Recursion(f, g, S)
  <1> DEFINE B == {S \in SUBSET U : ~ \E g : Recursion(f, g, S)}
             V(s) == (CHOOSE g : Recursion(f, g, s))[s]
  <1> SUFFICES ASSUME B # {} PROVE FALSE
    OBVIOUS
  <1>1. PICK S \in B : \A R \in B : R \subseteq S => R = S
    <2>1. B \in SUBSET (SUBSET U)
      OBVIOUS
    <2> HIDE DEF B
    <2> QED
      BY <2>1, MinimalSubset
  <1> DEFINE G == [s \in SUBSET S |-> IF s = {} THEN 0 ELSE f[Pick(s)] + V(s \ {Pick(s)})]
  <1>2. ASSUME NEW r \in SUBSET S, r # S
        PROVE  G[r] = V(r)
    <2> DEFINE g == CHOOSE h : Recursion(f, h, r)
    <2>1. r \notin B /\ r \in SUBSET U
      BY <1>1, <1>2
    <2>2. Recursion(f, g, r)
      BY <2>1
    <2>3. CASE r = {}
      BY <2>2, <2>3 DEF Recursion
    <2>4. CASE r # {}
      <3> DEFINE q == r \ {Pick(r)}
                 h == CHOOSE k : Recursion(f, k, q)
      <3>1. Pick(r) \in r
        BY <2>4, PickIn
      <3>2. q \in SUBSET S /\ q # S /\ q \in SUBSET r /\ q \in SUBSET U
        BY <2>1, <3>1
      <3>3. q \notin B
        BY <1>1, <3>2
      <3>4. Recursion(f, h, q)
        BY <3>2, <3>3
      <3>5. IsFiniteSet(r)
        BY <2>1, FS_Subset
      <3>6. g[q] = h[q]
        BY <2>2, <3>2, <3>4, <3>5, RecursionUnique
      <3>7. g[r] = f[Pick(r)] + g[q]
        BY <2>2, <2>4 DEF Recursion
      <3>8. G[r] = f[Pick(r)] + V(q)
        BY <2>4
      <3> HIDE DEF G
      <3> QED
        BY <3>6, <3>7, <3>8
    <2> QED
      BY <2>3, <2>4
  <1>3. Recursion(f, G, S)
    <2>1. ASSUME NEW s \in SUBSET S, s # {}
          PROVE  V(s \ {Pick(s)}) = G[s \ {Pick(s)}]
      <3>1. s \ {Pick(s)} \in SUBSET S /\ s \ {Pick(s)} # S
        BY <2>1, PickIn
      <3> HIDE DEF G, V
      <3> QED
        BY <3>1, <1>2
    <2>2. G = [s \in SUBSET S |-> IF s = {} THEN 0 ELSE f[Pick(s)] + G[s \ {Pick(s)}]]
      <3> DEFINE H == [s \in SUBSET S |->
                        IF s = {} THEN 0 ELSE f[Pick(s)] + G[s \ {Pick(s)}]]
      <3>1. \A s \in SUBSET S : G[s] = H[s]
        <4> SUFFICES ASSUME NEW s \in SUBSET S PROVE G[s] = H[s]
          OBVIOUS
        <4>1. CASE s = {}
          BY <4>1
        <4>2. CASE s # {}
          <5>1. V(s \ {Pick(s)}) = G[s \ {Pick(s)}]
            BY <2>1, <4>2
          <5>2. G[s] = f[Pick(s)] + V(s \ {Pick(s)})
            BY <4>2
          <5>3. H[s] = f[Pick(s)] + G[s \ {Pick(s)}]
            BY <4>2
          <5> HIDE DEF G, H, V
          <5> QED
            BY <5>1, <5>2, <5>3
        <4> QED
          BY <4>1, <4>2
      <3>2. DOMAIN G = SUBSET S /\ DOMAIN H = SUBSET S
        OBVIOUS
      <3>3. G = [s \in SUBSET S |-> G[s]] /\ H = [s \in SUBSET S |-> H[s]]
        OBVIOUS
      <3> QED
        <4> HIDE DEF G, H
        <4>1. G = H
          BY <3>1, <3>3
        <4> QED
          BY <4>1 DEF H
    <2> HIDE DEF G
    <2> QED
      BY <2>2 DEF Recursion
  <1> QED
    BY <1>1, <1>3

\* A sum and what is left of it when one element is taken out, the empty sum.
LEMMA SumOfPick ==
  ASSUME NEW f, NEW S, IsFiniteSet(S)
  PROVE  /\ S = {} => SumFunctionOnSet(f, S) = 0
         /\ S # {} => SumFunctionOnSet(f, S)
                        = f[Pick(S)] + SumFunctionOnSet(f, S \ {Pick(S)})
  <1> DEFINE g == CHOOSE h : Recursion(f, h, S)
  <1>1. Recursion(f, g, S)
    BY RecursionExists
  <1>2. SumFunctionOnSet(f, S) = g[S]
    BY SumIsRecursion
  <1>3. CASE S = {}
    BY <1>1, <1>2, <1>3 DEF Recursion
  <1>4. CASE S # {}
    <2> DEFINE r == S \ {Pick(S)}
               h == CHOOSE k : Recursion(f, k, r)
    <2>1. r \in SUBSET S /\ IsFiniteSet(r)
      BY FS_Subset
    <2>2. Recursion(f, h, r)
      BY <2>1, RecursionExists
    <2>3. g[r] = h[r]
      <3> HIDE DEF g, h
      <3> QED
        BY <1>1, <2>1, <2>2, RecursionUnique
    <2>4. SumFunctionOnSet(f, r) = h[r]
      BY SumIsRecursion
    <2>5. g[S] = f[Pick(S)] + g[r]
      BY <1>1, <1>4 DEF Recursion
    <2> QED
      BY <1>2, <1>4, <2>3, <2>4, <2>5
  <1> QED
    BY <1>3, <1>4

\* A sum of integers is an integer, of naturals a natural.
LEMMA SumType ==
  ASSUME NEW U, IsFiniteSet(U), NEW f, \A x \in U : f[x] \in Int
  PROVE  \A S \in SUBSET U :
            /\ SumFunctionOnSet(f, S) \in Int
            /\ (\A x \in S : f[x] >= 0) => SumFunctionOnSet(f, S) >= 0
  <1> DEFINE Good(S) == /\ SumFunctionOnSet(f, S) \in Int
                        /\ (\A x \in S : f[x] >= 0) => SumFunctionOnSet(f, S) >= 0
             B == {S \in SUBSET U : ~Good(S)}
  <1> SUFFICES ASSUME B # {} PROVE FALSE
    OBVIOUS
  <1>1. PICK S \in B : \A R \in B : R \subseteq S => R = S
    <2>1. B \in SUBSET (SUBSET U)
      OBVIOUS
    <2> HIDE DEF B
    <2> QED
      BY <2>1, MinimalSubset
  <1>2. IsFiniteSet(S)
    BY <1>1, FS_Subset
  <1>3. CASE S = {}
    <2>1. SumFunctionOnSet(f, S) = 0
      BY <1>2, <1>3, SumOfPick
    <2>2. Good(S)
      BY <2>1
    <2> QED
      BY <1>1, <2>2
  <1>4. CASE S # {}
    <2>1. Pick(S) \in S
      BY <1>4, PickIn
    <2>2. S \ {Pick(S)} \notin B /\ S \ {Pick(S)} \in SUBSET U
      BY <1>1, <2>1
    <2>3. Good(S \ {Pick(S)})
      BY <2>2
    <2>4. SumFunctionOnSet(f, S) = f[Pick(S)] + SumFunctionOnSet(f, S \ {Pick(S)})
      BY <1>2, <1>4, SumOfPick
    <2>5. f[Pick(S)] \in Int
      BY <1>1, <2>1
    <2>6. Good(S)
      <3> HIDE DEF B
      <3> QED
        BY <2>1, <2>3, <2>4, <2>5
    <2> QED
      BY <1>1, <2>6
  <1> QED
    BY <1>3, <1>4

\* Any element can be taken out of a sum.
LEMMA SumRemove ==
  ASSUME NEW U, IsFiniteSet(U), NEW f, \A x \in U : f[x] \in Int, NEW x \in U
  PROVE  SumFunctionOnSet(f, U) = f[x] + SumFunctionOnSet(f, U \ {x})
  <1> DEFINE Splits(S, y) == SumFunctionOnSet(f, S) = f[y] + SumFunctionOnSet(f, S \ {y})
             B == {S \in SUBSET U : \E y \in S : ~Splits(S, y)}
  <1> SUFFICES ASSUME B # {} PROVE FALSE
    OBVIOUS
  <1>1. PICK S \in B : \A R \in B : R \subseteq S => R = S
    <2>1. B \in SUBSET (SUBSET U)
      OBVIOUS
    <2> HIDE DEF B
    <2> QED
      BY <2>1, MinimalSubset
  <1>2. PICK y \in S : ~Splits(S, y)
    BY <1>1
  <1> DEFINE c == Pick(S)
  <1>3. IsFiniteSet(S) /\ c \in S
    BY <1>1, <1>2, FS_Subset, PickIn
  <1>4. Splits(S, c)
    BY <1>3, SumOfPick
  <1>5. c # y
    BY <1>2, <1>4
  <1>6. ASSUME NEW R \in SUBSET S, R # S, NEW z \in R PROVE Splits(R, z)
    BY <1>1, <1>6
  <1>7. Splits(S \ {c}, y) /\ Splits(S \ {y}, c)
    BY <1>3, <1>5, <1>6
  <1>8. (S \ {c}) \ {y} = (S \ {y}) \ {c}
    OBVIOUS
  <1>9. /\ f[c] \in Int /\ f[y] \in Int
        /\ SumFunctionOnSet(f, (S \ {y}) \ {c}) \in Int
    BY <1>1, <1>3, SumType
  <1>10. /\ SumFunctionOnSet(f, S) = f[c] + SumFunctionOnSet(f, S \ {c})
         /\ SumFunctionOnSet(f, S \ {c}) = f[y] + SumFunctionOnSet(f, (S \ {y}) \ {c})
         /\ SumFunctionOnSet(f, S \ {y}) = f[c] + SumFunctionOnSet(f, (S \ {y}) \ {c})
    <2> HIDE DEF c
    <2> QED
      BY <1>4, <1>7, <1>8
  <1>11. SumFunctionOnSet(f, S) = f[y] + SumFunctionOnSet(f, S \ {y})
    BY <1>9, <1>10, SMT
  <1> QED
    BY <1>2, <1>11

\* An element that was not in the set adds its value.
LEMMA SumInsert ==
  ASSUME NEW S, IsFiniteSet(S), NEW x, x \notin S, NEW f, \A y \in S \cup {x} : f[y] \in Int
  PROVE  SumFunctionOnSet(f, S \cup {x}) = f[x] + SumFunctionOnSet(f, S)
  <1>1. IsFiniteSet(S \cup {x}) /\ (S \cup {x}) \ {x} = S
    BY FS_AddElement
  <1> QED
    BY <1>1, SumRemove

\* A sum depends only on the values it adds up.
LEMMA SumSame ==
  ASSUME NEW U, IsFiniteSet(U), NEW f, NEW g, \A x \in U : f[x] = g[x]
  PROVE  SumFunctionOnSet(f, U) = SumFunctionOnSet(g, U)
  <1> DEFINE B == {S \in SUBSET U : SumFunctionOnSet(f, S) # SumFunctionOnSet(g, S)}
  <1> SUFFICES ASSUME B # {} PROVE FALSE
    OBVIOUS
  <1>1. PICK S \in B : \A R \in B : R \subseteq S => R = S
    <2>1. B \in SUBSET (SUBSET U)
      OBVIOUS
    <2> HIDE DEF B
    <2> QED
      BY <2>1, MinimalSubset
  <1>2. IsFiniteSet(S)
    BY <1>1, FS_Subset
  <1>3. CASE S = {}
    BY <1>1, <1>2, <1>3, SumOfPick
  <1>4. CASE S # {}
    <2>1. Pick(S) \in S /\ f[Pick(S)] = g[Pick(S)]
      BY <1>1, <1>4, PickIn
    <2>2. SumFunctionOnSet(f, S \ {Pick(S)}) = SumFunctionOnSet(g, S \ {Pick(S)})
      BY <1>1, <2>1
    <2>3. SumFunctionOnSet(f, S) = f[Pick(S)] + SumFunctionOnSet(f, S \ {Pick(S)})
      BY <1>2, <1>4, SumOfPick
    <2>4. SumFunctionOnSet(g, S) = g[Pick(S)] + SumFunctionOnSet(g, S \ {Pick(S)})
      BY <1>2, <1>4, SumOfPick
    <2>5. SumFunctionOnSet(f, S) = SumFunctionOnSet(g, S)
      BY <2>1, <2>2, <2>3, <2>4
    <2> QED
      BY <1>1, <2>5
  <1> QED
    BY <1>3, <1>4

\* Sums are added term by term.
LEMMA SumPlus ==
  ASSUME NEW U, IsFiniteSet(U), NEW f, NEW g, NEW h,
         \A x \in U : f[x] \in Int /\ g[x] \in Int /\ h[x] = f[x] + g[x]
  PROVE  SumFunctionOnSet(h, U) = SumFunctionOnSet(f, U) + SumFunctionOnSet(g, U)
  <1> DEFINE B == {S \in SUBSET U : SumFunctionOnSet(h, S)
                                      # SumFunctionOnSet(f, S) + SumFunctionOnSet(g, S)}
  <1> SUFFICES ASSUME B # {} PROVE FALSE
    OBVIOUS
  <1>1. PICK S \in B : \A R \in B : R \subseteq S => R = S
    <2>1. B \in SUBSET (SUBSET U)
      OBVIOUS
    <2> HIDE DEF B
    <2> QED
      BY <2>1, MinimalSubset
  <1>2. IsFiniteSet(S)
    BY <1>1, FS_Subset
  <1>3. CASE S = {}
    <2>1. /\ SumFunctionOnSet(f, S) = 0 /\ SumFunctionOnSet(g, S) = 0
          /\ SumFunctionOnSet(h, S) = 0
      BY <1>2, <1>3, SumOfPick
    <2> QED
      BY <1>1, <2>1
  <1>4. CASE S # {}
    <2> DEFINE c == Pick(S)
    <2>1. c \in S /\ f[c] \in Int /\ g[c] \in Int /\ h[c] = f[c] + g[c]
      BY <1>1, <1>4, PickIn
    <2>2. S \ {c} \in SUBSET U /\ S \ {c} \notin B
      BY <1>1, <2>1
    <2>3. /\ SumFunctionOnSet(h, S \ {c})
               = SumFunctionOnSet(f, S \ {c}) + SumFunctionOnSet(g, S \ {c})
          /\ SumFunctionOnSet(f, S \ {c}) \in Int /\ SumFunctionOnSet(g, S \ {c}) \in Int
      BY <2>2, SumType
    <2>4. /\ SumFunctionOnSet(f, S) = f[c] + SumFunctionOnSet(f, S \ {c})
          /\ SumFunctionOnSet(g, S) = g[c] + SumFunctionOnSet(g, S \ {c})
          /\ SumFunctionOnSet(h, S) = h[c] + SumFunctionOnSet(h, S \ {c})
      BY <1>2, <1>4, SumOfPick
    <2> HIDE DEF B, c
    <2>5. SumFunctionOnSet(h, S) = SumFunctionOnSet(f, S) + SumFunctionOnSet(g, S)
      BY <2>1, <2>3, <2>4, SMT
    <2> QED
      BY <1>1, <2>5 DEF B
  <1> QED
    BY <1>3, <1>4

----------------------------------------------------------------------------
(* The same for the sum of a whole function. *)

\* The sum of an integer function is an integer, of a natural one a natural;
\* without arguments it is 0.
LEMMA SumFunctionType ==
  ASSUME NEW A, IsFiniteSet(A), NEW f \in [A -> Int]
  PROVE  /\ SumFunction(f) \in Int
         /\ (\A x \in A : f[x] >= 0) => SumFunction(f) >= 0
         /\ A = {} => SumFunction(f) = 0
  <1>1. SumFunction(f) = SumFunctionOnSet(f, A)
    BY DEF SumFunction
  <1>2. \A x \in A : f[x] \in Int
    OBVIOUS
  <1> QED
    BY <1>1, <1>2, SumType, SumOfPick

\* Two functions that agree but at one argument, which either may lack: a
\* position that opens, closes or moves leaves the others' sum alone.
LEMMA SumChangesAt ==
  ASSUME NEW A, NEW B, IsFiniteSet(A), IsFiniteSet(B),
         NEW f \in [A -> Int], NEW g \in [B -> Int],
         NEW x, A \ {x} = B \ {x}, \A y \in A \ {x} : f[y] = g[y]
  PROVE  SumFunction(g) = SumFunction(f) - (IF x \in A THEN f[x] ELSE 0)
                                         + (IF x \in B THEN g[x] ELSE 0)
  <1> DEFINE rest == SumFunctionOnSet(f, A \ {x})
  <1>1. IsFiniteSet(A \ {x})
    BY FS_Subset
  <1>2. rest \in Int
    BY <1>1, SumType
  <1>3. SumFunctionOnSet(f, A \ {x}) = SumFunctionOnSet(g, A \ {x})
    BY <1>1, SumSame
  <1>4. rest = SumFunctionOnSet(g, B \ {x})
    BY <1>3
  <1>5. SumFunction(f) = (IF x \in A THEN f[x] ELSE 0) + rest
    <2>1. CASE x \in A
      BY <2>1, SumRemove DEF SumFunction
    <2>2. CASE x \notin A
      <3>1. A \ {x} = A
        BY <2>2
      <3>2. SumFunction(f) = rest
        BY <3>1 DEF SumFunction
      <3> QED
        BY <1>2, <2>2, <3>2
    <2> QED
      BY <2>1, <2>2
  <1>6. SumFunction(g) = (IF x \in B THEN g[x] ELSE 0) + rest
    <2>1. CASE x \in B
      BY <1>4, <2>1, SumRemove DEF SumFunction
    <2>2. CASE x \notin B
      <3>1. B \ {x} = B
        BY <2>2
      <3>2. SumFunction(g) = rest
        BY <1>4, <3>1 DEF SumFunction
      <3> QED
        BY <1>2, <2>2, <3>2
    <2> QED
      BY <2>1, <2>2
  <1>7. (IF x \in A THEN f[x] ELSE 0) \in Int /\ (IF x \in B THEN g[x] ELSE 0) \in Int
    OBVIOUS
  <1> HIDE DEF rest
  <1> QED
    BY <1>2, <1>5, <1>6, <1>7

\* The sum of a whole function is added term by term: an equity is worst-case
\* cash and what the stops still risk.
LEMMA SumFunctionPlus ==
  ASSUME NEW A, IsFiniteSet(A), NEW f \in [A -> Int], NEW g \in [A -> Int],
         NEW h \in [A -> Int], \A x \in A : h[x] = f[x] + g[x]
  PROVE  SumFunction(h) = SumFunction(f) + SumFunction(g)
  BY SumPlus DEF SumFunction

\* What is drawn from distinct places of a sum, and no more than is there,
\* leaves the rest: a queue of orders within the plan it was picked from.
LEMMA SumDrawn ==
  ASSUME NEW A, IsFiniteSet(A), NEW B, IsFiniteSet(B), NEW g, NEW f, NEW h \in [A -> B],
         \A y \in B : f[y] \in Nat,
         \A x \in A : g[x] \in Nat /\ g[x] <= f[h[x]],
         \A x, y \in A : h[x] = h[y] => x = y
  PROVE  \A S \in SUBSET A, T \in SUBSET B :
            (\A x \in S : h[x] \in T) => SumFunctionOnSet(g, S) <= SumFunctionOnSet(f, T)
  <1> DEFINE Good(S) == \A T \in SUBSET B :
                           (\A x \in S : h[x] \in T) =>
                               SumFunctionOnSet(g, S) <= SumFunctionOnSet(f, T)
             C == {S \in SUBSET A : ~Good(S)}
  <1> SUFFICES ASSUME C # {} PROVE FALSE
    OBVIOUS
  <1>1. PICK S \in C : \A R \in C : R \subseteq S => R = S
    <2>1. C \in SUBSET (SUBSET A)
      OBVIOUS
    <2> HIDE DEF C
    <2> QED
      BY <2>1, MinimalSubset
  <1>2. PICK T \in SUBSET B : /\ \A x \in S : h[x] \in T
                              /\ ~(SumFunctionOnSet(g, S) <= SumFunctionOnSet(f, T))
    BY <1>1
  <1>3. /\ IsFiniteSet(S) /\ IsFiniteSet(T) /\ S \in SUBSET A
        /\ \A x \in S : g[x] \in Int
        /\ \A y \in T : f[y] \in Int /\ f[y] >= 0
    BY <1>1, FS_Subset
  <1>4. SumFunctionOnSet(f, T) \in Int /\ SumFunctionOnSet(f, T) >= 0
    BY <1>3, SumType
  <1>5. CASE S = {}
    BY <1>2, <1>3, <1>4, <1>5, SumOfPick
  <1>6. CASE S # {}
    <2>1. PICK x : x \in S
      BY <1>6
    <2>2. PICK R, Q : R = S \ {x} /\ Q = T \ {h[x]}
      OBVIOUS
    <2>3. /\ R \in SUBSET A /\ R \subseteq S /\ R # S /\ Q \in SUBSET B
          /\ \A y \in R : h[y] \in Q
      BY <1>2, <1>3, <2>1, <2>2
    <2>4. SumFunctionOnSet(g, R) <= SumFunctionOnSet(f, Q)
      BY <1>1, <2>3
    <2>5. SumFunctionOnSet(g, S) = g[x] + SumFunctionOnSet(g, R)
      BY <1>3, <2>1, <2>2, SumRemove
    <2>6. SumFunctionOnSet(f, T) = f[h[x]] + SumFunctionOnSet(f, Q)
      BY <1>2, <1>3, <2>1, <2>2, SumRemove
    <2>7. /\ IsFiniteSet(R) /\ IsFiniteSet(Q)
          /\ \A y \in R : g[y] \in Int
          /\ \A z \in Q : f[z] \in Int
      BY <1>3, <2>2, FS_Subset
    <2>8. SumFunctionOnSet(g, R) \in Int /\ SumFunctionOnSet(f, Q) \in Int
      <3>1. R \in SUBSET R /\ Q \in SUBSET Q
        OBVIOUS
      <3>2. SumFunctionOnSet(g, R) \in Int
        <4>1. IsFiniteSet(R) /\ \A y \in R : g[y] \in Int
          BY <2>7
        <4> QED
          BY <3>1, <4>1, SumType
      <3>3. SumFunctionOnSet(f, Q) \in Int
        <4>1. IsFiniteSet(Q) /\ \A z \in Q : f[z] \in Int
          BY <2>7
        <4> QED
          BY <3>1, <4>1, SumType
      <3> QED
        BY <3>2, <3>3
    <2>9. g[x] \in Int /\ f[h[x]] \in Int /\ g[x] <= f[h[x]]
      BY <1>3, <2>1
    <2> QED
      BY <1>2, <2>4, <2>5, <2>6, <2>8, <2>9
  <1> QED
    BY <1>5, <1>6

\* What g takes at each place of A lies at the place of B that h tells, and no
\* place is told twice.
Draws(h, A, B, g, f) ==
  /\ h \in [A -> B] /\ g \in [A -> Nat] /\ f \in [B -> Nat]
  /\ \A x \in A : g[x] <= f[h[x]]
  /\ \A x, y \in A : h[x] = h[y] => x = y

\* The sum of what is drawn is at most the sum it is drawn from, and less by
\* what lies at a place that nothing is drawn from.
LEMMA SumWithin ==
  ASSUME NEW A, IsFiniteSet(A), NEW B, IsFiniteSet(B), NEW g, NEW f, NEW h,
         Draws(h, A, B, g, f)
  PROVE  /\ SumFunction(g) \in Nat /\ SumFunction(f) \in Nat
         /\ SumFunction(g) <= SumFunction(f)
         /\ \A z \in B : (\A x \in A : h[x] # z) => SumFunction(g) + f[z] <= SumFunction(f)
  <1>1. /\ \A x \in A : g[x] \in Int /\ g[x] >= 0
        /\ \A y \in B : f[y] \in Int /\ f[y] >= 0
    BY DEF Draws
  <1>2. g \in [A -> Int] /\ f \in [B -> Int]
    BY <1>1 DEF Draws
  <1>3. /\ SumFunction(g) \in Int /\ SumFunction(g) >= 0
        /\ SumFunction(f) \in Int /\ SumFunction(f) >= 0
    BY <1>1, <1>2, SumFunctionType
  <1>4. SumFunction(g) = SumFunctionOnSet(g, A) /\ SumFunction(f) = SumFunctionOnSet(f, B)
    BY DEF SumFunction, Draws
  <1>5. \A T \in SUBSET B : (\A x \in A : h[x] \in T) =>
                             SumFunctionOnSet(g, A) <= SumFunctionOnSet(f, T)
    BY SumDrawn DEF Draws
  <1>6. \A x \in A : h[x] \in B
    BY DEF Draws
  <1>7. SumFunctionOnSet(g, A) <= SumFunctionOnSet(f, B)
    BY <1>5, <1>6
  <1>8. ASSUME NEW z \in B, \A x \in A : h[x] # z
        PROVE  SumFunctionOnSet(g, A) + f[z] <= SumFunctionOnSet(f, B)
    <2>1. PICK T : T = B \ {z}
      OBVIOUS
    <2>2. SumFunctionOnSet(g, A) <= SumFunctionOnSet(f, T)
      BY <1>5, <1>8, <1>6, <2>1
    <2>3. SumFunctionOnSet(f, B) = f[z] + SumFunctionOnSet(f, T)
      BY <1>1, <2>1, SumRemove
    <2>4. SumFunctionOnSet(f, T) \in Int /\ f[z] \in Int
      BY <1>1, <2>1, SumType
    <2> QED
      BY <1>3, <1>4, <2>2, <2>3, <2>4
  <1> QED
    BY <1>3, <1>4, <1>7, <1>8
=============================================================================
