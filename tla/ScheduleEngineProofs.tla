------------------------ MODULE ScheduleEngineProofs ------------------------
(***************************************************************************)
(* TLAPS proofs about ScheduleEngine, for any week, documents, programmes, *)
(* editors, catch-up window and lag: WeekRing's folds and clock first,     *)
(* then the engine, then what the resolver computes for every week, and    *)
(* what ScheduleDocument stores, for any sequence of edits.                *)
(***************************************************************************)
EXTENDS ScheduleEngine, ScheduleDocument, SequenceTheorems, FiniteSetTheorems, WellFoundedInduction, TLAPS

----------------------------------------------------------------------------
(* Folds: what they return, by induction over the positions.  The library's *)
(* induction theorems take an operator; SetInduction takes a set.            *)

\* A non-empty set of naturals has a least member, and Min is it.
LEMMA LeastNat ==
    ASSUME NEW T \in SUBSET Nat, T # {}
    PROVE  Min(T) \in T /\ \A y \in T : Min(T) <= y
  <1>1. PICK x \in T : \A y \in T : <<y, x>> \notin OpToRel(<, Nat)
    BY WFMin, NatLessThanWellFounded, Zenon
  <1>2. \A y \in T : ~(y < x)
    <2> SUFFICES ASSUME NEW y \in T, y < x
                 PROVE  FALSE
      OBVIOUS
    <2>1. <<y, x>> \in Nat \X Nat /\ <<y, x>>[1] < <<y, x>>[2]
      OBVIOUS
    <2>2. <<y, x>> \in OpToRel(<, Nat)
      BY <2>1, Zenon DEF OpToRel
    <2> QED
      BY <1>1, <2>2
  <1>3. \A y \in T : x <= y
    BY <1>2
  <1> QED
    BY <1>3 DEF Min

\* A non-empty set of positions has a greatest member, and Max is it.
LEMMA GreatestBelow ==
    ASSUME NEW n \in Nat, NEW S \in SUBSET (1..n), S # {}
    PROVE  Max(S) \in S /\ \A y \in S : y <= Max(S)
  <1> DEFINE T == {n - x : x \in S}
  <1>1. T \in SUBSET Nat /\ T # {}
    <2>1. PICK x \in S : TRUE
      OBVIOUS
    <2>2. n - x \in T
      BY <2>1
    <2>3. T \in SUBSET Nat
      OBVIOUS
    <2> QED
      BY <2>2, <2>3
  <1> HIDE DEF T
  <1>2. Min(T) \in T /\ \A y \in T : Min(T) <= y
    BY <1>1, LeastNat
  <1>3. PICK x \in S : Min(T) = n - x
    BY <1>2 DEF T
  <1>4. \A y \in S : y <= x
    <2> SUFFICES ASSUME NEW y \in S PROVE y <= x
      OBVIOUS
    <2>1. n - y \in T
      BY DEF T
    <2>2. n - x <= n - y
      BY <2>1, <1>2, <1>3
    <2> QED
      BY <2>2
  <1>5. \A y \in S : x >= y
    BY <1>4
  <1> QED
    BY <1>5 DEF Max

\* Induction over the naturals, about a set: < is well-founded on them.
LEMMA SetInduction ==
    ASSUME NEW P, 0 \in P, \A k \in Nat : k \in P => k + 1 \in P
    PROVE  \A k \in Nat : k \in P
  <1> DEFINE T == Nat \ P
  <1> SUFFICES ASSUME T # {}
               PROVE  FALSE
    OBVIOUS
  <1>1. T \in SUBSET Nat
    OBVIOUS
  <1> HIDE DEF T
  <1>2. Min(T) \in T /\ \A y \in T : Min(T) <= y
    BY <1>1, LeastNat
  <1>3. PICK m \in T : \A y \in T : m <= y
    BY <1>2
  <1>4. m \in Nat /\ m \notin P /\ m # 0
    BY <1>3 DEF T
  <1>5. m - 1 \in Nat /\ m - 1 \notin T
    BY <1>3, <1>4
  <1>6. m - 1 \in P
    BY <1>5 DEF T
  <1> QED
    BY <1>4, <1>5, <1>6

\* F is the function a fold of h over the positions 1..n defines, set by set.
Folds(F, n, base, h) ==
    \A S \in SUBSET (1..n) : F[S] = IF S = {} THEN base ELSE h[Max(S)][F[S \ {Max(S)}]]

\* There is such a function, so that the CHOOSE in MapThenFoldSet finds it.
LEMMA FoldExists ==
    ASSUME NEW n \in Nat, NEW V, NEW base \in V, NEW h \in [1..n -> [V -> V]]
    PROVE  \E F \in [SUBSET (1..n) -> V] : Folds(F, n, base, h)
  <1> DEFINE Solves(F, k) ==
               \A S \in SUBSET (1..k) :
                 F[S] = IF S = {} THEN base ELSE h[Max(S)][F[S \ {Max(S)}]]
             Solvable(k) == \E F \in [SUBSET (1..k) -> V] : Solves(F, k)
             P == {k \in Nat : k <= n => Solvable(k)}
  <1>1. Solvable(0)
    <2>1. SUBSET (1..0) = {{}}
      OBVIOUS
    <2>2. [S \in SUBSET (1..0) |-> base] \in [SUBSET (1..0) -> V]
      OBVIOUS
    <2>3. Solves([S \in SUBSET (1..0) |-> base], 0)
      BY <2>1
    <2> QED
      BY <2>2, <2>3
  <1>2. ASSUME NEW k \in Nat, k + 1 <= n, Solvable(k)
        PROVE  Solvable(k + 1)
    <2>1. PICK F \in [SUBSET (1..k) -> V] : Solves(F, k)
      BY <1>2
    <2> DEFINE G == [S \in SUBSET (1..(k + 1)) |->
                       IF k + 1 \in S THEN h[k + 1][F[S \ {k + 1}]] ELSE F[S]]
    <2>2. \A S \in SUBSET (1..(k + 1)) : /\ k + 1 \in S => S \ {k + 1} \in SUBSET (1..k)
                                        /\ k + 1 \notin S => S \in SUBSET (1..k)
      OBVIOUS
    <2>3. G \in [SUBSET (1..(k + 1)) -> V]
      <3>1. ASSUME NEW S \in SUBSET (1..(k + 1))
            PROVE  (IF k + 1 \in S THEN h[k + 1][F[S \ {k + 1}]] ELSE F[S]) \in V
        <4>1. CASE k + 1 \in S
          <5>1. F[S \ {k + 1}] \in V
            BY <2>2, <4>1
          <5>2. h[k + 1] \in [V -> V]
            BY <1>2
          <5> QED
            BY <4>1, <5>1, <5>2
        <4>2. CASE k + 1 \notin S
          BY <2>2, <4>2
        <4> QED
          BY <4>1, <4>2
      <3> QED
        BY <3>1
    <2>4. ASSUME NEW S \in SUBSET (1..(k + 1))
          PROVE  G[S] = IF S = {} THEN base ELSE h[Max(S)][G[S \ {Max(S)}]]
      <3>1. CASE k + 1 \in S
        <4>1. Max(S) = k + 1
          <5>1. PICK m : m = Max(S) /\ m \in S /\ \A y \in S : y <= m
            BY <3>1, GreatestBelow, k + 1 \in Nat
          <5>2. m \in 1..(k + 1) /\ k + 1 <= m
            BY <5>1, <3>1
          <5> QED
            BY <5>1, <5>2
        <4>2. G[S \ {k + 1}] = F[S \ {k + 1}]
          BY <2>2, <3>1
        <4> QED
          BY <3>1, <4>1, <4>2
      <3>2. CASE k + 1 \notin S
        <4>1. S \in SUBSET (1..k)
          BY <2>2, <3>2
        <4>2. CASE S = {}
          BY <2>1, <4>1, <4>2
        <4>3. CASE S # {}
          <5>1. Max(S) \in S
            BY <4>1, <4>3, GreatestBelow
          <5>2. S \ {Max(S)} \in SUBSET (1..k) /\ k + 1 \notin S \ {Max(S)}
            BY <4>1, <3>2
          <5>3. G[S \ {Max(S)}] = F[S \ {Max(S)}]
            BY <5>2
          <5> QED
            BY <2>1, <3>2, <4>1, <4>3, <5>3
        <4> QED
          BY <4>2, <4>3
      <3> QED
        BY <3>1, <3>2
    <2> HIDE DEF G
    <2> QED
      BY <2>3, <2>4
  <1> HIDE DEF Solvable
  <1>3. 0 \in P /\ \A k \in Nat : k \in P => k + 1 \in P
    BY <1>1, <1>2
  <1> HIDE DEF P
  <1>4. n \in P
    BY <1>3, SetInduction
  <1>5. Solvable(n)
    BY <1>4 DEF P
  <1> QED
    BY <1>5 DEF Solvable, Folds

\* A fold over the positions of a sequence takes them in their order.
LEMMA InOrder ==
    ASSUME NEW k \in Nat, k # 0
    PROVE  Max(1..k) = k /\ (1..k) \ {k} = 1..(k - 1) /\ 1..k # {}
  <1>1. k \in 1..k /\ 1..k \in SUBSET (1..k)
    OBVIOUS
  <1>2. PICK m : m = Max(1..k) /\ m \in 1..k /\ \A y \in 1..k : y <= m
    BY <1>1, GreatestBelow
  <1>3. m = k
    BY <1>1, <1>2
  <1>4. (1..k) \ {k} = 1..(k - 1)
    OBVIOUS
  <1> QED
    BY <1>1, <1>2, <1>3, <1>4

\* What a sequence is indexed by.
IsSequence(s) == DOMAIN s = 1..Len(s) /\ Len(s) \in Nat

\* The claims a passes through, one block after the other.
Stakes(a, schedule, target, slot, cur) ==
    /\ a[0] = cur
    /\ \A j \in 1..Len(schedule.blocks) :
          a[j] = StakeBlock(schedule, slot, a[j - 1], schedule.blocks[j])
    /\ a[Len(schedule.blocks)] = StakeSchedule(target, slot, cur, schedule)

\* What one block after the other makes of the claim so far.
LEMMA StakeScheduleSteps ==
    ASSUME NEW schedule, NEW target, NEW slot, NEW cur,
           IsSequence(schedule.blocks), InForce(schedule, target)
    PROVE  \E a : Stakes(a, schedule, target, slot, cur)
  <1> DEFINE blocks == schedule.blocks
             n == Len(blocks)
             V == {cur} \cup {ClaimOn(schedule, blocks[j], slot) : j \in DOMAIN blocks}
             Step(v, j) == StakeBlock(schedule, slot, v, blocks[j])
             Body(F, S) == IF S = {} THEN cur ELSE Step(F[S \ {Max(S)}], Max(S))
             It == CHOOSE F : F = [S \in SUBSET (DOMAIN blocks) |-> Body(F, S)]
             h == [j \in 1..n |-> [v \in V |-> Step(v, j)]]
             a == [j \in 0..n |-> It[1..j]]
  <1>1. StakeSchedule(target, slot, cur, schedule) = It[DOMAIN blocks]
    BY DEF StakeSchedule, FoldLeft, MapThenFoldSet
  <1>2. DOMAIN blocks = 1..n /\ n \in Nat
    BY DEF IsSequence
  <1>3. \A j \in 1..n, v \in V : Step(v, j) \in V
    BY <1>2 DEF StakeBlock
  <1>V. cur \in V
    OBVIOUS
  <1> HIDE DEF Step, V
  <1>4. h \in [1..n -> [V -> V]]
    BY <1>3
  <1>5. \A j \in 1..n, v \in V : h[j][v] = Step(v, j)
    OBVIOUS
  <1> HIDE DEF h, n, It, blocks
  <1>6. PICK F \in [SUBSET (1..n) -> V] : Folds(F, n, cur, h)
    BY <1>2, <1>4, <1>V, FoldExists
  <1>7. \A S \in SUBSET (1..n) : F[S] = Body(F, S)
    <2> SUFFICES ASSUME NEW S \in SUBSET (1..n), S # {}
                 PROVE  F[S] = Body(F, S)
      BY <1>6 DEF Folds
    <2>1. Max(S) \in S
      BY <1>2, GreatestBelow
    <2>2. Max(S) \in 1..n /\ S \ {Max(S)} \in SUBSET (1..n)
      BY <2>1
    <2>3. h[Max(S)][F[S \ {Max(S)}]] = Step(F[S \ {Max(S)}], Max(S))
      BY <1>5, <1>6, <2>2
    <2> QED
      BY <1>6, <2>3 DEF Folds
  <1>8. F = [S \in SUBSET (DOMAIN blocks) |-> Body(F, S)]
    BY <1>2, <1>6, <1>7
  <1>9. It = [S \in SUBSET (DOMAIN blocks) |-> Body(It, S)]
    BY <1>8 DEF It
  <1>10. a[0] = cur
    <2>1. 1..0 = {} /\ 0 \in 0..n
      BY <1>2
    <2> QED
      BY <1>9, <2>1
  <1>11. ASSUME NEW j \in 1..n
         PROVE  a[j] = Step(a[j - 1], j)
    <2>1. j \in Nat /\ j # 0 /\ j \in 0..n /\ j - 1 \in 0..n /\ 1..j \in SUBSET (1..n)
      BY <1>2
    <2>2. It[1..j] = Body(It, 1..j)
      BY <1>2, <1>9, <2>1
    <2>3. It[1..j] = Step(It[1..(j - 1)], j)
      BY <2>1, <2>2, InOrder
    <2> QED
      BY <2>1, <2>3
  <1>12. a[n] = It[DOMAIN blocks]
    BY <1>2
  <1> HIDE DEF a
  <1> QED
    BY <1>1, <1>10, <1>11, <1>12 DEF Step, n, blocks, Stakes

\* Whatever set the claim so far and every claim of the schedule are in, the claim the
\* schedule leaves is in.
LEMMA StakeScheduleReturns ==
    ASSUME NEW schedule, NEW target, NEW slot, NEW V, NEW cur \in V,
           IsSequence(schedule.blocks),
           \A j \in DOMAIN schedule.blocks : ClaimOn(schedule, schedule.blocks[j], slot) \in V
    PROVE  StakeSchedule(target, slot, cur, schedule) \in V
  <1> SUFFICES ASSUME InForce(schedule, target)
               PROVE  StakeSchedule(target, slot, cur, schedule) \in V
    BY DEF StakeSchedule
  <1>1. PICK a : Stakes(a, schedule, target, slot, cur)
    BY StakeScheduleSteps, Zenon
  <1> DEFINE n == Len(schedule.blocks)
  <1> DEFINE P == {k \in Nat : k <= n => a[k] \in V}
  <1>2. n \in Nat /\ DOMAIN schedule.blocks = 1..n
    BY DEF IsSequence
  <1>3. ASSUME NEW k \in Nat, k \in P PROVE k + 1 \in P
    <2> SUFFICES ASSUME k + 1 <= n PROVE a[k + 1] \in V
      OBVIOUS
    <2>1. k + 1 \in 1..n /\ (k + 1) - 1 = k /\ a[k] \in V
      BY <1>2, <1>3
    <2>2. a[k + 1] = StakeBlock(schedule, slot, a[k], schedule.blocks[k + 1])
      BY <1>1, <2>1 DEF Stakes
    <2> QED
      BY <1>2, <2>1, <2>2 DEF StakeBlock
  <1>4. 0 \in P
    BY <1>1 DEF Stakes
  <1> HIDE DEF P
  <1>5. n \in P
    BY <1>2, <1>3, <1>4, SetInduction
  <1> QED
    BY <1>1, <1>2, <1>5 DEF P, Stakes

----------------------------------------------------------------------------
(* The ring and the clock: how the distance to the next switch point moves.  *)

\* What \div returns.
LEMMA Division ==
    ASSUME NEW k \in Nat \ {0}, NEW t \in Nat
    PROVE  t \div k \in Nat /\ k * (t \div k) <= t /\ t < k * (t \div k) + k
  OBVIOUS

\* A product grows with its factor.
LEMMA ProductGrows ==
    ASSUME NEW k \in Nat, NEW a \in Nat, NEW b \in Nat, a <= b
    PROVE  k * a \in Nat /\ k * a <= k * b
  OBVIOUS

\* The quotient is the only number with the bounds of Division.
LEMMA DivisionIs ==
    ASSUME NEW k \in Nat \ {0}, NEW t \in Nat, NEW q \in Nat, k * q <= t, t < k * q + k
    PROVE  t \div k = q
  <1> DEFINE p == t \div k
  <1>1. p \in Nat /\ k * p <= t /\ t < k * p + k
    BY Division
  <1> HIDE DEF p
  <1>2. ~(p + 1 <= q)
    <2> SUFFICES ASSUME p + 1 <= q PROVE FALSE
      OBVIOUS
    <2>1. k * (p + 1) <= k * q
      BY <1>1, ProductGrows, p + 1 \in Nat
    <2>2. k * (p + 1) = k * p + k
      BY <1>1
    <2> QED
      BY <1>1, <2>1, <2>2
  <1>3. ~(q + 1 <= p)
    <2> SUFFICES ASSUME q + 1 <= p PROVE FALSE
      OBVIOUS
    <2>1. k * (q + 1) <= k * p
      BY <1>1, ProductGrows, q + 1 \in Nat
    <2>2. k * (q + 1) = k * q + k
      BY <1>1
    <2> QED
      BY <1>1, <2>1, <2>2
  <1>4. p = q
    BY <1>1, <1>2, <1>3
  <1> QED
    BY <1>4 DEF p

\* Below twice the modulus, % subtracts it at most once.
LEMMA ModOnce ==
    ASSUME NEW k \in Nat \ {0}, NEW x \in 0..(2 * k - 1)
    PROVE  x % k = IF x < k THEN x ELSE x - k
  <1>1. CASE x < k
    BY <1>1
  <1>2. CASE ~(x < k)
    BY <1>2
  <1> QED
    BY <1>1, <1>2

\* The ring has a slot, and one ahead of another is one of its slots.
LEMMA Ring ==
    /\ SlotsPerWeek \in Nat \ {0}
    /\ \A s \in Slots, n \in 0..SlotsPerWeek :
         Ahead(s, n) = (IF s + n < SlotsPerWeek THEN s + n ELSE s + n - SlotsPerWeek) /\ Ahead(s, n) \in Slots
  <1>1. SlotsPerWeek \in Nat \ {0}
    <2>1. WeekDays \in Nat /\ SlotsPerDay \in Nat /\ 1 <= WeekDays /\ 1 <= SlotsPerDay
      BY RingSize
    <2>2. SlotsPerDay * 1 <= SlotsPerDay * WeekDays
      BY <2>1, ProductGrows, 1 \in Nat
    <2>3. SlotsPerDay * WeekDays \in Nat
      BY <2>1
    <2>4. SlotsPerWeek = SlotsPerDay * WeekDays
      BY <2>1 DEF SlotsPerWeek
    <2> QED
      BY <2>1, <2>2, <2>3, <2>4
  <1>2. ASSUME NEW s \in Slots, NEW n \in 0..SlotsPerWeek
        PROVE  /\ Ahead(s, n) = IF s + n < SlotsPerWeek THEN s + n ELSE s + n - SlotsPerWeek
               /\ Ahead(s, n) \in Slots
    <2>1. PICK N \in Nat \ {0}, x \in Nat : N = SlotsPerWeek /\ x = s + n /\ x <= 2 * N - 1
      BY <1>1 DEF Slots
    <2>2. x % N = IF x < N THEN x ELSE x - N
      BY <2>1, ModOnce, x \in 0..(2 * N - 1)
    <2>a. Ahead(s, n) = x % N
      BY <2>1 DEF Ahead
    <2>4. s \in 0..(N - 1) /\ n \in 0..N
      BY <2>1 DEF Slots
    <2>3. Ahead(s, n) = IF s + n < N THEN s + n ELSE s + n - N
      BY <2>1, <2>2, <2>a, <2>4
    <2>5. Ahead(s, n) \in 0..(N - 1)
      BY <2>3, <2>4
    <2> QED
      BY <2>1, <2>3, <2>5 DEF Slots
  <1> QED
    BY <1>1, <1>2

\* What NextChange returns: 0 if the block never changes, else the least offset at
\* which it is another one.
LEMMA NextChangeIs ==
    ASSUME NEW week, NEW s \in Slots
    PROVE  LET nc == NextChange(week, s)
               same(n) == Key(week[Ahead(s, n)]) = Key(week[s]) IN
           \/ nc = 0 /\ \A n \in 1..SlotsPerWeek : same(n)
           \/ nc \in 1..SlotsPerWeek /\ ~same(nc) /\ \A n \in 1..(nc - 1) : same(n)
  <1> DEFINE offsets == SwitchOffsets(week, s)
  <1>1. CASE offsets = {}
    BY <1>1 DEF NextChange, SwitchOffsets
  <1>2. CASE offsets # {}
    <2>1. offsets \in SUBSET Nat
      BY DEF SwitchOffsets
    <2> HIDE DEF offsets
    <2>2. PICK m : m = Min(offsets) /\ m \in offsets /\ \A n \in offsets : m <= n
      BY <1>2, <2>1, LeastNat
    <2>3. m \in 1..SlotsPerWeek /\ Key(week[Ahead(s, m)]) # Key(week[s])
      BY <2>2 DEF offsets, SwitchOffsets
    <2>4. ASSUME NEW n \in 1..(m - 1)
          PROVE  Key(week[Ahead(s, n)]) = Key(week[s])
      <3>1. n \notin offsets
        BY <2>2, <2>3
      <3>2. n \in 1..SlotsPerWeek
        BY <2>3, Ring
      <3> QED
        BY <3>1, <3>2 DEF offsets, SwitchOffsets
    <2>5. NextChange(week, s) = m
      BY <1>2, <2>2 DEF NextChange, offsets
    <2> QED
      BY <2>3, <2>4, <2>5
  <1> QED
    BY <1>1, <1>2

\* One slot on, the next switch point is one slot nearer, or was passed.
LEMMA NextChangeNears ==
    ASSUME NEW week, NEW s \in Slots, NEW later, later = Ahead(s, 1)
    PROVE  LET nc == NextChange(week, s) IN
           /\ nc = 0 => NextChange(week, later) = 0
           /\ nc >= 2 => NextChange(week, later) = nc - 1
           /\ nc # 1 => Key(week[later]) = Key(week[s])
  <1> DEFINE N == SlotsPerWeek
             K(x) == Key(week[x])
  <1>N. N \in Nat \ {0} /\ later \in Slots /\ 1 \in 1..N /\ s \in 0..(N - 1) /\ later \in 0..(N - 1)
    BY Ring DEF Slots
  <1>a. ASSUME NEW n \in 0..(N - 1)
        PROVE  Ahead(later, n) = Ahead(s, n + 1)
    <2>1. Ahead(later, n) = IF later + n < N THEN later + n ELSE later + n - N
      BY Ring, <1>N
    <2>2. Ahead(s, n + 1) = IF s + n + 1 < N THEN s + n + 1 ELSE s + n + 1 - N
      BY Ring, <1>N
    <2>3. later = IF s + 1 < N THEN s + 1 ELSE s + 1 - N
      BY Ring, <1>N
    <2> QED
      BY <2>1, <2>2, <2>3, <1>N
  <1>b. Ahead(later, N) = later
    BY Ring, <1>N
  <1> DEFINE nc == NextChange(week, s)
             nl == NextChange(week, later)
  <1>c. \/ nc = 0 /\ \A n \in 1..N : K(Ahead(s, n)) = K(s)
        \/ nc \in 1..N /\ K(Ahead(s, nc)) # K(s) /\ \A n \in 1..(nc - 1) : K(Ahead(s, n)) = K(s)
    BY NextChangeIs
  <1>d. \/ nl = 0 /\ \A n \in 1..N : K(Ahead(later, n)) = K(later)
        \/ nl \in 1..N /\ K(Ahead(later, nl)) # K(later) /\ \A n \in 1..(nl - 1) : K(Ahead(later, n)) = K(later)
    BY NextChangeIs, <1>N
  <1> HIDE DEF nc, nl, N, K
  <1>1. ASSUME nc # 1
        PROVE  K(later) = K(s)
    BY <1>1, <1>c, <1>N
  <1>2. ASSUME nc = 0
        PROVE  nl = 0
    <2> SUFFICES ASSUME NEW n \in 1..N
                 PROVE  K(Ahead(later, n)) = K(later)
      BY <1>d
    <2>1. CASE n = N
      BY <2>1, <1>b
    <2>2. CASE n # N
      <3>1. Ahead(later, n) = Ahead(s, n + 1) /\ n + 1 \in 1..N
        BY <1>a, <1>N, <2>2
      <3> QED
        BY <3>1, <1>1, <1>2, <1>c
    <2> QED
      BY <2>1, <2>2
  <1>3. ASSUME nc >= 2
        PROVE  nl = nc - 1
    <2>1. nc \in 2..N /\ K(Ahead(s, nc)) # K(s) /\ \A n \in 1..(nc - 1) : K(Ahead(s, n)) = K(s)
      BY <1>3, <1>c
    <2>2. K(later) = K(s)
      BY <1>1, <2>1
    <2>3. Ahead(later, nc - 1) = Ahead(s, nc)
      <3>1. nc - 1 \in 0..(N - 1) /\ (nc - 1) + 1 = nc
        BY <2>1, <1>N
      <3> QED
        BY <3>1, <1>a
    <2>4. ASSUME NEW n \in 1..(nc - 2)
          PROVE  K(Ahead(later, n)) = K(later)
      <3>1. n + 1 \in 1..(nc - 1) /\ n \in 0..(N - 1)
        BY <2>1, <1>N
      <3> QED
        BY <3>1, <1>a, <2>1, <2>2
    <2>5. nc - 1 \in 1..N /\ K(Ahead(later, nc - 1)) # K(later)
      BY <2>1, <2>2, <2>3, <1>N
    <2>6. nl \in 1..N
      BY <2>5, <1>d
    <2>7. ~(nl <= nc - 2)
      BY <2>4, <2>6, <1>d
    <2>8. ~(nc - 1 <= nl - 1)
      BY <2>5, <2>6, <1>d
    <2> QED
      BY <2>1, <2>6, <2>7, <2>8
  <1> QED
    BY <1>1, <1>2, <1>3 DEF nc, nl, K

\* From one tick to the next the clock stays in its slot or enters the next one.
LEMMA SlotSteps ==
    ASSUME NEW now \in 0..(WeekTicks - 1), NEW next, next = (now + 1) % WeekTicks
    PROVE  /\ SlotOf(now) \in Slots /\ SlotTicks * SlotOf(now) <= now
           /\ now < SlotTicks * SlotOf(now) + SlotTicks
           /\ next \in 0..(WeekTicks - 1)
           /\ \/ /\ SlotOf(next) = SlotOf(now)
                 /\ next = now + 1
              \/ /\ SlotOf(next) = Ahead(SlotOf(now), 1)
                 /\ now + 1 = SlotTicks * SlotOf(now) + SlotTicks
                 /\ next = SlotTicks * SlotOf(next)
  <1> DEFINE k == SlotTicks
             N == SlotsPerWeek
             s == SlotOf(now)
  <1>1. k \in Nat \ {0} /\ N \in Nat \ {0}
    BY EngineConstants, Ring
  <1>2. WeekTicks = k * N /\ WeekTicks \in Nat
    BY <1>1 DEF WeekTicks
  <1>3. s \in Nat /\ k * s <= now /\ now < k * s + k
    BY <1>1, <1>2, Division DEF SlotOf
  <1> HIDE DEF k, N, s
  <1>4. s < N
    <2> SUFFICES ASSUME N <= s PROVE FALSE
      BY <1>1, <1>3
    <2>1. k * N <= k * s
      BY <1>1, <1>3, ProductGrows
    <2> QED
      BY <1>1, <1>2, <1>3, <2>1
  <1>7. ASSUME now + 1 < WeekTicks
        PROVE  next = now + 1
    <2>1. PICK w \in Nat \ {0} : w = WeekTicks
      BY <1>2, <1>7
    <2>2. next = (now + 1) % w /\ now + 1 \in Nat /\ now + 1 < w
      BY <1>7, <2>1
    <2> QED
      BY <2>2
  <1>8. s \in Slots
    BY <1>1, <1>3, <1>4 DEF Slots, N
  <1>5. CASE now + 1 < k * s + k
    <2>1. k * (s + 1) <= k * N
      BY <1>1, <1>3, <1>4, ProductGrows, s + 1 \in Nat
    <2>2. k * (s + 1) = k * s + k
      BY <1>1, <1>3
    <2>3. now + 1 < WeekTicks /\ now + 1 \in Nat /\ k * s \in Nat
      BY <1>1, <1>2, <1>3, <1>5, <2>1, <2>2
    <2>4. next = now + 1
      BY <1>7, <2>3
    <2>5. (now + 1) \div k = s
      BY <1>1, <1>3, <1>5, <2>3, DivisionIs
    <2>6. SlotOf(next) = s /\ next \in 0..(WeekTicks - 1)
      BY <1>2, <2>3, <2>4, <2>5 DEF SlotOf, k
    <2> QED
      BY <1>3, <1>8, <2>4, <2>6 DEF s, k
  <1>6. CASE now + 1 = k * s + k
    <2>1. k * (s + 1) = k * s + k /\ k * s \in Nat
      BY <1>1, <1>3
    <2>2. CASE s + 1 < N
      <3>1. k * (s + 2) <= k * N
        BY <1>1, <1>3, <2>2, ProductGrows, s + 2 \in Nat
      <3>2. k * (s + 2) = k * s + k + k
        BY <1>1, <1>3
      <3>3. now + 1 < WeekTicks /\ now + 1 \in Nat
        BY <1>1, <1>2, <1>3, <1>6, <3>1, <3>2
      <3>4. next = now + 1
        BY <1>7, <3>3
      <3>5. (now + 1) \div k = s + 1
        BY <1>1, <1>3, <1>6, <2>1, <3>3, DivisionIs, s + 1 \in Nat
      <3>6. Ahead(s, 1) = s + 1
        BY <1>1, <1>3, <1>4, <2>2, Ring DEF N, Slots
      <3>7. SlotOf(next) = s + 1 /\ next \in 0..(WeekTicks - 1)
        BY <1>2, <3>3, <3>4, <3>5 DEF SlotOf, k
      <3> QED
        BY <1>1, <1>3, <1>6, <1>8, <2>1, <3>4, <3>6, <3>7 DEF s, k
    <2>3. CASE s + 1 = N
      <3>1. now + 1 = WeekTicks
        BY <1>2, <1>6, <2>1, <2>3
      <3>2. next = 0
        BY <3>1, <1>2
      <3>3. 0 \div k = 0
        BY <1>1, DivisionIs, k * 0 = 0
      <3>4. Ahead(s, 1) = 0
        BY <1>1, <1>3, <1>4, <2>3, Ring DEF N, Slots
      <3>5. SlotOf(next) = 0 /\ next \in 0..(WeekTicks - 1) /\ k * 0 = 0
        BY <1>1, <1>2, <3>1, <3>2, <3>3 DEF SlotOf, k
      <3> QED
        BY <1>3, <1>6, <1>8, <3>2, <3>4, <3>5 DEF s, k
    <2> QED
      BY <1>3, <1>4, <1>1, <2>2, <2>3
  <1>9. now + 1 < k * s + k \/ now + 1 = k * s + k
    BY <1>1, <1>3
  <1> QED
    BY <1>3, <1>5, <1>6, <1>8, <1>9 DEF s, k

SwitchesAhead(schedules, slot) ==
    {NextChange(Resolve(schedules, t), slot) : t \in TargetKeys(schedules)} \ {0}

\* The switch points ahead, and what TicksToSwitch makes of the nearest.
LEMMA TicksToSwitchIs ==
    ASSUME NEW schedules, NEW now \in 0..(WeekTicks - 1)
    PROVE  LET slot == SlotOf(now)
               ahead == SwitchesAhead(schedules, slot) IN
           \/ ahead = {} /\ TicksToSwitch(schedules, now) = Heartbeat
           \/ \E m \in ahead : /\ m \in 1..SlotsPerWeek
                               /\ \A n \in ahead : m <= n
                               /\ TicksToSwitch(schedules, now) = (slot + m) * SlotTicks - now
  <1> DEFINE ahead == SwitchesAhead(schedules, SlotOf(now))
  <1>1. SlotOf(now) \in Slots
    BY SlotSteps
  <1>2. ahead \in SUBSET (1..SlotsPerWeek)
    <2> SUFFICES ASSUME NEW t \in TargetKeys(schedules)
                 PROVE  NextChange(Resolve(schedules, t), SlotOf(now)) \in {0} \cup 1..SlotsPerWeek
      BY DEF SwitchesAhead
    <2> QED
      BY <1>1, NextChangeIs
  <1>3. CASE ahead = {}
    BY <1>3 DEF TicksToSwitch, SwitchesAhead
  <1>4. CASE ahead # {}
    <2>1. ahead \in SUBSET Nat
      BY <1>2, Ring
    <2>2. TicksToSwitch(schedules, now) = (SlotOf(now) + Min(ahead)) * SlotTicks - now
      BY <1>4 DEF TicksToSwitch, SwitchesAhead
    <2> HIDE DEF ahead
    <2>3. Min(ahead) \in ahead /\ \A n \in ahead : Min(ahead) <= n
      BY <1>4, <2>1, LeastNat
    <2> QED
      BY <1>2, <2>2, <2>3 DEF ahead
  <1> QED
    BY <1>3, <1>4

\* The way to the next switch point is at least a tick and at most a week.
LEMMA TicksToSwitchBounds ==
    ASSUME NEW schedules, NEW now \in 0..(WeekTicks - 1)
    PROVE  TicksToSwitch(schedules, now) \in 1..WeekTicks
  <1> DEFINE k == SlotTicks
             N == SlotsPerWeek
             s == SlotOf(now)
  <1>1. k \in Nat \ {0} /\ N \in Nat \ {0} /\ WeekTicks = k * N /\ WeekTicks \in Nat
    BY EngineConstants, Ring DEF WeekTicks
  <1>2. s \in Nat /\ k * s <= now /\ now < k * s + k
    BY SlotSteps, Ring DEF Slots
  <1>3. CASE TicksToSwitch(schedules, now) = Heartbeat
    BY <1>1, <1>3, EngineConstants
  <1>4. ASSUME NEW m \in 1..N, TicksToSwitch(schedules, now) = (s + m) * k - now
        PROVE  TicksToSwitch(schedules, now) \in 1..WeekTicks
    <2>1. m \in Nat /\ 1 <= m /\ m <= N
      BY <1>1, <1>4
    <2> HIDE DEF k, N, s
    <2>2. k * 1 <= k * m /\ k * m <= k * N
      BY <1>1, <2>1, ProductGrows, 1 \in Nat
    <2>3. (s + m) * k = k * s + k * m /\ k * s \in Nat /\ k * m \in Nat
      BY <1>1, <1>2, <2>1
    <2> QED
      BY <1>1, <1>2, <1>4, <2>2, <2>3
  <1> QED
    BY <1>3, <1>4, TicksToSwitchIs

\* A tick brings the next switch point a tick nearer, never more; and as long as it
\* is not the very next tick, no target comes under another block.
LEMMA TickNearsSwitch ==
    ASSUME NEW schedules, NEW now \in 0..(WeekTicks - 1), NEW next, next = (now + 1) % WeekTicks
    PROVE  /\ TicksToSwitch(schedules, now) - 1 <= TicksToSwitch(schedules, next)
           /\ TicksToSwitch(schedules, now) >= 2 =>
                \A t \in TargetKeys(schedules) :
                   Key(Winner(schedules, t, SlotOf(next))) = Key(Winner(schedules, t, SlotOf(now)))
  <1> DEFINE k == SlotTicks
             s == SlotOf(now)
             s2 == SlotOf(next)
             T == TicksToSwitch(schedules, now)
             T2 == TicksToSwitch(schedules, next)
             nc(t) == NextChange(Resolve(schedules, t), s)
             nc2(t) == NextChange(Resolve(schedules, t), s2)
             targets == TargetKeys(schedules)
             A == SwitchesAhead(schedules, s)
             A2 == SwitchesAhead(schedules, s2)
  <1>1. k \in Nat \ {0} /\ WeekTicks \in Nat /\ s \in Slots /\ s \in Nat
    BY EngineConstants, Ring, SlotSteps DEF WeekTicks, Slots
  <1>2. next \in 0..(WeekTicks - 1) /\ s2 \in Slots /\ s2 \in Nat
    <2>1. next \in 0..(WeekTicks - 1)
      BY SlotSteps
    <2> QED
      BY <2>1, Ring, SlotSteps DEF Slots
  <1>3. T \in 1..WeekTicks /\ T2 \in 1..WeekTicks
    BY <1>2, TicksToSwitchBounds
  <1>A. A = {nc(t) : t \in targets} \ {0} /\ A2 = {nc2(t) : t \in targets} \ {0}
    BY DEF SwitchesAhead
  <1>K. \A t \in targets : /\ Resolve(schedules, t)[s] = Winner(schedules, t, s)
                          /\ Resolve(schedules, t)[s2] = Winner(schedules, t, s2)
    BY <1>1, <1>2 DEF Resolve
  <1>4. \/ A = {} /\ T = Heartbeat
        \/ \E m \in A : m \in 1..SlotsPerWeek /\ (\A n \in A : m <= n) /\ T = (s + m) * k - now
    BY TicksToSwitchIs
  <1>5. \/ A2 = {} /\ T2 = Heartbeat
        \/ \E m \in A2 : m \in 1..SlotsPerWeek /\ (\A n \in A2 : m <= n) /\ T2 = (s2 + m) * k - next
    BY <1>2, TicksToSwitchIs
  <1>6. CASE s2 = s /\ next = now + 1
    <2>1. A2 = A
      BY <1>6
    <2> HIDE DEF A, A2, T, T2, k, s, s2
    <2>2. T - 1 <= T2
      BY <1>1, <1>3, <1>4, <1>5, <1>6, <2>1
    <2> QED
      BY <1>6, <2>2 DEF T, T2, s, s2
  <1>7. CASE s2 = Ahead(s, 1) /\ now + 1 = k * s + k /\ next = k * s2
    <2>1. \A t \in targets :
             /\ nc(t) = 0 => nc2(t) = 0
             /\ nc(t) >= 2 => nc2(t) = nc(t) - 1
             /\ nc(t) # 1 => Key(Winner(schedules, t, s2)) = Key(Winner(schedules, t, s))
      BY <1>1, <1>7, <1>K, NextChangeNears
    <2>2. \A t \in targets : nc(t) = 0 \/ nc(t) \in 1..SlotsPerWeek
      BY <1>1, NextChangeIs
    <2> HIDE DEF A, A2, T, T2, k, s, s2, nc, nc2, targets
    <2>3. CASE A = {}
      <3>1. \A t \in targets : nc(t) = 0
        BY <1>A, <2>3
      <3>2. A2 = {}
        BY <1>A, <2>1, <3>1
      <3>3. T = Heartbeat /\ T2 = Heartbeat
        BY <1>4, <1>5, <2>3, <3>2
      <3>4. T - 1 <= T2
        BY <1>1, <1>3, <3>3
      <3> QED
        BY <2>1, <3>1, <3>4 DEF T, T2, s, s2, targets
    <2>4. CASE A # {}
      <3>1. PICK m \in A : m \in 1..SlotsPerWeek /\ (\A n \in A : m <= n) /\ T = (s + m) * k - now
        BY <1>4, <2>4
      <3>2. T = (m - 1) * k + 1
        <4>1. (s + m) * k = k * s + k + (m - 1) * k
          BY <1>1, <3>1, Ring
        <4>2. k * s \in Nat /\ (m - 1) * k \in Nat
          BY <1>1, <3>1, Ring
        <4> QED
          BY <1>1, <1>7, <3>1, <4>1, <4>2
      <3>3. CASE m = 1
        <4>1. T = 1
          BY <1>1, <3>2, <3>3
        <4>2. T - 1 <= T2 /\ ~(T >= 2)
          BY <1>1, <1>3, <4>1
        <4> QED
          BY <4>2 DEF T, T2
      <3>4. CASE m # 1
        <4>1. \A t \in targets : nc(t) = 0 \/ nc(t) >= m
          BY <1>A, <3>1
        <4>2. m >= 2 /\ m \in Nat
          BY <3>1, <3>4, Ring
        <4>3. \A t \in targets : nc(t) = 0 \/ (nc(t) >= 2 /\ nc(t) \in Nat)
          BY <2>2, <4>1, <4>2, Ring
        <4>4. \A n \in A2 : m - 1 <= n
          BY <1>A, <2>1, <4>1, <4>2, <4>3
        <4>5. PICK t \in targets : nc(t) = m
          BY <1>A, <3>1
        <4>6. nc2(t) = m - 1
          BY <2>1, <4>2, <4>5
        <4>7. A2 # {}
          BY <1>A, <4>2, <4>5, <4>6
        <4>8. PICK p \in A2 : p \in 1..SlotsPerWeek /\ T2 = (s2 + p) * k - next
          BY <1>5, <4>7
        <4>9. T2 = p * k
          <5>1. (s2 + p) * k = k * s2 + p * k
            BY <1>1, <1>2, <4>8, Ring
          <5> QED
            BY <1>1, <1>2, <1>7, <4>8, <5>1, Ring
        <4>10. k * (m - 1) <= k * p
          BY <1>1, <4>2, <4>4, <4>8, Ring, ProductGrows, m - 1 \in Nat
        <4>11. T - 1 <= T2
          <5>1. (m - 1) * k = k * (m - 1) /\ p * k = k * p /\ k * (m - 1) \in Nat /\ k * p \in Nat
            BY <1>1, <4>2, <4>8, Ring
          <5> QED
            BY <3>2, <4>9, <4>10, <5>1
        <4> QED
          BY <2>1, <4>3, <4>11 DEF T, T2, s, s2, targets
      <3> QED
        BY <3>3, <3>4
    <2> QED
      BY <2>3, <2>4
  <1> QED
    BY <1>6, <1>7, SlotSteps

----------------------------------------------------------------------------
(* Documents, and what the winner of a slot is.                              *)

\* The documents the store takes.
Documents == {s \in Seq(Schedules) : DistinctIds(s)}

\* Every schedule of a document is well-formed, posted or on disk, enabled or not.
LEMMA ScheduleIsWellFormed ==
    ASSUME NEW p \in Schedules
    PROVE  WellFormed(p)
  <1>1. PICK q \in Programmes \cup ToSet(FirstSchedules), on \in BOOLEAN : p = [q EXCEPT !.enabled = on]
    BY DEF Schedules
  <1>2. WellFormed(q)
    BY DocumentConstants
  <1>3. /\ q = [id |-> q.id, enabled |-> q.enabled, priority |-> q.priority,
               targets |-> q.targets, blocks |-> q.blocks]
        /\ q.targets \subseteq Targets /\ q.blocks \in Seq(ToSet(q.blocks)) /\ DistinctIds(q.blocks)
    BY <1>2 DEF WellFormed
  <1>4. p = [id |-> q.id, enabled |-> on, priority |-> q.priority, targets |-> q.targets, blocks |-> q.blocks]
    BY <1>1, <1>3
  <1>5. /\ p.id = q.id /\ p.enabled = on /\ p.priority = q.priority
        /\ p.targets = q.targets /\ p.blocks = q.blocks
    BY <1>4
  <1> QED
    BY <1>3, <1>4, <1>5 DEF WellFormed

\* What the store guarantees of a document, of its schedules and of their blocks.
LEMMA DocumentIsSequence ==
    ASSUME NEW s \in Documents
    PROVE  /\ s \in Seq(Schedules) /\ IsSequence(s) /\ DistinctIds(s)
           /\ \A i \in DOMAIN s : s[i] \in Schedules /\ WellFormed(s[i]) /\ IsSequence(s[i].blocks)
  <1>1. s \in Seq(Schedules) /\ IsSequence(s) /\ DistinctIds(s)
    BY DEF Documents, IsSequence
  <1>2. ASSUME NEW i \in DOMAIN s
        PROVE  s[i] \in Schedules /\ WellFormed(s[i]) /\ IsSequence(s[i].blocks)
    <2>1. s[i] \in Schedules
      BY <1>1
    <2>2. WellFormed(s[i])
      BY <2>1, ScheduleIsWellFormed
    <2> QED
      BY <2>1, <2>2 DEF WellFormed, IsSequence
  <1> QED
    BY <1>1, <1>2

\* The claims a passes through, one schedule after the other.
Contest(a, s, target, slot) ==
    /\ a[0] = NoClaim
    /\ \A i \in 1..Len(s) : a[i] = StakeSchedule(target, slot, a[i - 1], s[i])
    /\ a[Len(s)] = Winner(s, target, slot)

\* What one schedule after the other makes of a gap.
LEMMA WinnerSteps ==
    ASSUME NEW s, NEW target, NEW slot,
           IsSequence(s), \A i \in DOMAIN s : IsSequence(s[i].blocks)
    PROVE  \E a : Contest(a, s, target, slot)
  <1> DEFINE V == {NoClaim} \cup UNION {{ClaimOn(s[i], s[i].blocks[j], slot) : j \in DOMAIN s[i].blocks}
                                         : i \in DOMAIN s}
             n == Len(s)
             Step(v, i) == StakeSchedule(target, slot, v, s[i])
             Body(F, S) == IF S = {} THEN NoClaim ELSE Step(F[S \ {Max(S)}], Max(S))
             It == CHOOSE F : F = [S \in SUBSET (DOMAIN s) |-> Body(F, S)]
             h == [i \in 1..n |-> [v \in V |-> Step(v, i)]]
             a == [i \in 0..n |-> It[1..i]]
  <1>1. Winner(s, target, slot) = It[DOMAIN s]
    BY DEF Winner, FoldLeft, MapThenFoldSet
  <1>2. DOMAIN s = 1..n /\ n \in Nat
    BY DEF IsSequence
  <1>3. \A i \in 1..n, v \in V : Step(v, i) \in V
    <2> SUFFICES ASSUME NEW i \in 1..n, NEW v \in V
                 PROVE  Step(v, i) \in V
      OBVIOUS
    <2>1. IsSequence(s[i].blocks)
      BY <1>2
    <2>2. \A j \in DOMAIN s[i].blocks : ClaimOn(s[i], s[i].blocks[j], slot) \in V
      BY <1>2
    <2> HIDE DEF V
    <2> QED
      BY <2>1, <2>2, StakeScheduleReturns
  <1>V. NoClaim \in V
    OBVIOUS
  <1> HIDE DEF Step, V
  <1>4. h \in [1..n -> [V -> V]]
    BY <1>3
  <1>5. \A i \in 1..n, v \in V : h[i][v] = Step(v, i)
    OBVIOUS
  <1> HIDE DEF h, n, It
  <1>6. PICK F \in [SUBSET (1..n) -> V] : Folds(F, n, NoClaim, h)
    BY <1>2, <1>4, <1>V, FoldExists
  <1>7. \A S \in SUBSET (1..n) : F[S] = Body(F, S)
    <2> SUFFICES ASSUME NEW S \in SUBSET (1..n), S # {}
                 PROVE  F[S] = Body(F, S)
      BY <1>6 DEF Folds
    <2>1. Max(S) \in S
      BY <1>2, GreatestBelow
    <2>2. Max(S) \in 1..n /\ S \ {Max(S)} \in SUBSET (1..n)
      BY <2>1
    <2>3. h[Max(S)][F[S \ {Max(S)}]] = Step(F[S \ {Max(S)}], Max(S))
      BY <1>5, <1>6, <2>2
    <2> QED
      BY <1>6, <2>3 DEF Folds
  <1>8. F = [S \in SUBSET (DOMAIN s) |-> Body(F, S)]
    BY <1>2, <1>6, <1>7
  <1>9. It = [S \in SUBSET (DOMAIN s) |-> Body(It, S)]
    BY <1>8 DEF It
  <1>10. a[0] = NoClaim
    <2>1. 1..0 = {} /\ 0 \in 0..n
      BY <1>2
    <2> QED
      BY <1>9, <2>1
  <1>11. ASSUME NEW i \in 1..n
         PROVE  a[i] = Step(a[i - 1], i)
    <2>1. i \in Nat /\ i # 0 /\ i \in 0..n /\ i - 1 \in 0..n /\ 1..i \in SUBSET (1..n)
      BY <1>2
    <2>2. It[1..i] = Body(It, 1..i)
      BY <1>2, <1>9, <2>1
    <2>3. It[1..i] = Step(It[1..(i - 1)], i)
      BY <2>1, <2>2, InOrder
    <2> QED
      BY <2>1, <2>3
  <1>12. a[n] = It[DOMAIN s]
    BY <1>2
  <1> HIDE DEF a
  <1> QED
    BY <1>1, <1>10, <1>11, <1>12 DEF Step, n, Contest

\* The winner of a slot is the claim of one of the document's blocks.
LEMMA WinnerIsClaim ==
    ASSUME NEW s \in Documents, NEW target, NEW slot
    PROVE  \/ Winner(s, target, slot) = NoClaim
           \/ \E i \in DOMAIN s : \E j \in DOMAIN s[i].blocks :
                  Winner(s, target, slot) = ClaimOn(s[i], s[i].blocks[j], slot)
  <1> DEFINE V == {NoClaim} \cup UNION {{ClaimOn(s[i], s[i].blocks[j], slot) : j \in DOMAIN s[i].blocks}
                                         : i \in DOMAIN s}
             n == Len(s)
  <1>1. DOMAIN s = 1..n /\ n \in Nat /\ IsSequence(s) /\ \A i \in DOMAIN s : IsSequence(s[i].blocks)
    BY DocumentIsSequence DEF IsSequence
  <1>2. PICK a : Contest(a, s, target, slot)
    BY <1>1, WinnerSteps, Zenon
  <1>3. ASSUME NEW i \in 1..n, NEW v \in V
        PROVE  StakeSchedule(target, slot, v, s[i]) \in V
    <2>1. \A j \in DOMAIN s[i].blocks : ClaimOn(s[i], s[i].blocks[j], slot) \in V
      BY <1>1
    <2> HIDE DEF V
    <2> QED
      BY <1>1, <2>1, StakeScheduleReturns
  <1> DEFINE P == {k \in Nat : k <= n => a[k] \in V}
  <1>4. NoClaim \in V
    OBVIOUS
  <1> HIDE DEF V, n
  <1>5. ASSUME NEW k \in Nat, k \in P PROVE k + 1 \in P
    <2> SUFFICES ASSUME k + 1 <= n PROVE a[k + 1] \in V
      OBVIOUS
    <2>1. k + 1 \in 1..n /\ (k + 1) - 1 = k /\ a[k] \in V
      BY <1>1, <1>5
    <2> QED
      BY <1>2, <1>3, <2>1 DEF Contest, n
  <1>6. 0 \in P
    BY <1>2, <1>4 DEF Contest
  <1> HIDE DEF P
  <1>7. n \in P
    BY <1>1, <1>5, <1>6, SetInduction
  <1>8. Winner(s, target, slot) \in V
    BY <1>1, <1>2, <1>7 DEF P, Contest, n
  <1> QED
    BY <1>8 DEF V

\* A claim carries its block's action and names schedule and block.
LEMMA ClaimSays ==
    ASSUME NEW p, NEW block, NEW slot, NEW claim, claim = ClaimOn(p, block, slot), claim # NoClaim
    PROVE  claim.action = block.action /\ Key(claim) = <<p.id, block.id>>
  <1>1. claim.action = block.action /\ claim.schedule = p.id /\ claim.block = block.id
    BY DEF ClaimOn
  <1> QED
    BY <1>1 DEF Key

\* The key of a claim names what the block does: slots won under one key are under
\* one action, and its signature is one of the document's.
LEMMA KeyNamesAction ==
    ASSUME NEW s \in Documents, NEW target, NEW x, NEW y, Winner(s, target, x) # NoClaim
    PROVE  /\ Signature(Winner(s, target, x).action) \in Signatures
           /\ Key(Winner(s, target, y)) = Key(Winner(s, target, x)) =>
                 /\ Winner(s, target, y) # NoClaim
                 /\ Winner(s, target, y).action = Winner(s, target, x).action
  <1>0. PICK i \in DOMAIN s : \E j \in DOMAIN s[i].blocks :
          Winner(s, target, x) = ClaimOn(s[i], s[i].blocks[j], x)
    BY WinnerIsClaim
  <1>1. PICK j \in DOMAIN s[i].blocks : Winner(s, target, x) = ClaimOn(s[i], s[i].blocks[j], x)
    BY <1>0
  <1>2. /\ Winner(s, target, x).action = s[i].blocks[j].action
        /\ Key(Winner(s, target, x)) = <<s[i].id, s[i].blocks[j].id>>
    BY <1>1, ClaimSays
  <1>3. Signature(s[i].blocks[j].action) \in Signatures
    <2>1. s[i] \in Schedules /\ s[i].blocks[j] \in ToSet(s[i].blocks)
      BY DocumentIsSequence DEF ToSet
    <2>2. s[i].blocks[j] \in UNION {ToSet(p.blocks) : p \in Schedules}
      BY <2>1
    <2> QED
      BY <2>2 DEF Signatures
  <1>4. ASSUME Key(Winner(s, target, y)) = Key(Winner(s, target, x))
        PROVE  /\ Winner(s, target, y) # NoClaim
               /\ Winner(s, target, y).action = Winner(s, target, x).action
    <2>1. Winner(s, target, y) # NoClaim
      BY <1>2, <1>4 DEF Key
    <2>a. PICK k \in DOMAIN s : \E l \in DOMAIN s[k].blocks :
            Winner(s, target, y) = ClaimOn(s[k], s[k].blocks[l], y)
      BY <2>1, WinnerIsClaim
    <2>2. PICK l \in DOMAIN s[k].blocks : Winner(s, target, y) = ClaimOn(s[k], s[k].blocks[l], y)
      BY <2>a
    <2>3. /\ Winner(s, target, y).action = s[k].blocks[l].action
          /\ Key(Winner(s, target, y)) = <<s[k].id, s[k].blocks[l].id>>
      BY <2>1, <2>2, ClaimSays
    <2>4. s[k].id = s[i].id /\ s[k].blocks[l].id = s[i].blocks[j].id
      BY <1>2, <1>4, <2>3
    <2>5. k = i
      BY <2>4, DocumentIsSequence DEF DistinctIds
    <2>6. DistinctIds(s[i].blocks)
      BY DocumentIsSequence DEF WellFormed
    <2>7. l = j
      BY <2>4, <2>5, <2>6 DEF DistinctIds
    <2> QED
      BY <1>2, <2>1, <2>3, <2>5, <2>7
  <1> QED
    BY <1>2, <1>3, <1>4

\* A document schedules known targets only.
LEMMA TargetKeysAreTargets ==
    ASSUME NEW s \in Documents
    PROVE  TargetKeys(s) \subseteq Targets
  BY DocumentIsSequence DEF TargetKeys, WellFormed

\* A document may be empty.
LEMMA EmptyDocument == <<>> \in Documents
  BY DEF Documents, DistinctIds

\* What an editor may post, and what was on disk first, is a schedule.
LEMMA ProgrammeIsSchedule ==
    ASSUME NEW p \in Programmes \cup ToSet(FirstSchedules)
    PROVE  p \in Schedules
  <1>1. p.enabled \in BOOLEAN /\ p = [p EXCEPT !.enabled = p.enabled]
    BY DocumentConstants DEF WellFormed
  <1> QED
    BY <1>1 DEF Schedules

\* The document found at the first start is one.
LEMMA FirstIsDocument == FirstSchedules \in Documents
  <1>1. FirstSchedules \in Seq(ToSet(FirstSchedules)) /\ DistinctIds(FirstSchedules)
    BY DocumentConstants
  <1>2. \A i \in 1..Len(FirstSchedules) : FirstSchedules[i] \in Schedules
    BY <1>1, ProgrammeIsSchedule DEF ToSet
  <1>3. FirstSchedules \in Seq(Schedules)
    BY <1>1, <1>2, IsASeq
  <1> QED
    BY <1>1, <1>3 DEF Documents

\* An enabled schedule disabled is a schedule, and the other way round.
LEMMA Toggled ==
    ASSUME NEW p \in Schedules
    PROVE  [p EXCEPT !.enabled = ~@] \in Schedules /\ [p EXCEPT !.enabled = ~@].id = p.id
  <1>1. PICK q \in Programmes \cup ToSet(FirstSchedules), on \in BOOLEAN : p = [q EXCEPT !.enabled = on]
    BY DEF Schedules
  <1>2. q = [id |-> q.id, enabled |-> q.enabled, priority |-> q.priority,
             targets |-> q.targets, blocks |-> q.blocks]
    BY DocumentConstants DEF WellFormed
  <1>3. p.enabled = on /\ [p EXCEPT !.enabled = ~@] = [q EXCEPT !.enabled = ~on]
    BY <1>1, <1>2
  <1>4. [q EXCEPT !.enabled = ~on] \in Schedules
    <2>1. PICK off \in BOOLEAN : off = ~on
      BY Zenon
    <2>2. [q EXCEPT !.enabled = off] \in Schedules
      BY <1>1 DEF Schedules
    <2> QED
      BY <2>1, <2>2
  <1>5. [p EXCEPT !.enabled = ~@].id = p.id
    BY <1>1, <1>2
  <1> QED
    BY <1>3, <1>4, <1>5

\* Switching a schedule on or off leaves a document.
LEMMA SetEnabledKeepsDocument ==
    ASSUME NEW s \in Documents, NEW i \in DOMAIN s
    PROVE  [s EXCEPT ![i].enabled = ~@] \in Documents
  <1> DEFINE r == [s EXCEPT ![i] = [s[i] EXCEPT !.enabled = ~@]]
  <1>1. s \in Seq(Schedules) /\ DistinctIds(s) /\ s[i] \in Schedules
    BY DocumentIsSequence
  <1> DEFINE q == [s[i] EXCEPT !.enabled = ~@]
  <1>2. q \in Schedules /\ q.id = s[i].id
    BY <1>1, Toggled
  <1> HIDE DEF q
  <1>3. [s EXCEPT ![i] = q] \in Seq(Schedules)
    BY <1>1, <1>2
  <1>4. DistinctIds([s EXCEPT ![i] = q])
    BY <1>1, <1>2 DEF DistinctIds
  <1>5. [s EXCEPT ![i].enabled = ~@] = [s EXCEPT ![i] = q]
    BY DEF q
  <1> QED
    BY <1>3, <1>4, <1>5 DEF Documents

\* A posted schedule takes the place of the one with its id, or the end.
LEMMA PutKeepsDocument ==
    ASSUME NEW s \in Documents, NEW p \in Programmes
    PROVE  Put(s, p) \in Documents
  <1>1. s \in Seq(Schedules) /\ DistinctIds(s) /\ p \in Schedules
    BY DocumentIsSequence, ProgrammeIsSchedule
  <1>2. CASE \E i \in DOMAIN s : s[i].id = p.id
    <2>1. Put(s, p) = [i \in DOMAIN s |-> IF s[i].id = p.id THEN p ELSE s[i]]
      BY <1>2 DEF Put
    <2>2. [i \in DOMAIN s |-> IF s[i].id = p.id THEN p ELSE s[i]] \in Seq(Schedules)
      BY <1>1
    <2>3. DistinctIds(Put(s, p))
      BY <1>1, <2>1 DEF DistinctIds
    <2> QED
      BY <2>1, <2>2, <2>3 DEF Documents
  <1>3. CASE ~ \E i \in DOMAIN s : s[i].id = p.id
    <2>1. Put(s, p) = Append(s, p)
      BY <1>3 DEF Put
    <2>2. Append(s, p) \in Seq(Schedules)
      BY <1>1
    <2>3. /\ DOMAIN Append(s, p) = 1..(Len(s) + 1) /\ DOMAIN s = 1..Len(s) /\ Len(s) \in Nat
          /\ Append(s, p)[Len(s) + 1] = p
          /\ \A i \in 1..Len(s) : Append(s, p)[i] = s[i]
      BY <1>1
    <2>4. DistinctIds(Append(s, p))
      BY <1>1, <1>3, <2>3 DEF DistinctIds
    <2> QED
      BY <2>1, <2>2, <2>4 DEF Documents
  <1> QED
    BY <1>2, <1>3

\* A removal moves the later schedules up.
LEMMA DeleteKeepsDocument ==
    ASSUME NEW s \in Documents, NEW i \in DOMAIN s
    PROVE  RemoveAt(s, i) \in Documents
  <1>1. s \in Seq(Schedules) /\ DistinctIds(s) /\ Len(s) \in Nat /\ i \in 1..Len(s) /\ DOMAIN s = 1..Len(s)
    BY DocumentIsSequence
  <1> DEFINE before == SubSeq(s, 1, i - 1)
             after == SubSeq(s, i + 1, Len(s))
             r == before \o after
  <1>2. before \in Seq(Schedules) /\ Len(before) = i - 1 /\ \A k \in 1..(i - 1) : before[k] = s[k]
    BY <1>1
  <1>3. after \in Seq(Schedules) /\ Len(after) = Len(s) - i /\ \A k \in 1..(Len(s) - i) : after[k] = s[i + k]
    BY <1>1
  <1> HIDE DEF before, after
  <1>4. r \in Seq(Schedules) /\ DOMAIN r = 1..(Len(s) - 1)
    <2>1. /\ before \o after \in Seq(Schedules)
          /\ Len(before \o after) = Len(before) + Len(after)
      BY <1>2, <1>3, ConcatProperties
    <2>2. Len(before) + Len(after) = Len(s) - 1
      BY <1>1, <1>2, <1>3
    <2>3. DOMAIN (before \o after) = 1..Len(before \o after)
      BY <2>1
    <2> QED
      BY <2>1, <2>2, <2>3
  <1>5. \A k \in 1..(Len(s) - 1) : r[k] = IF k < i THEN s[k] ELSE s[k + 1]
    <2> SUFFICES ASSUME NEW k \in 1..(Len(s) - 1)
                 PROVE  r[k] = IF k < i THEN s[k] ELSE s[k + 1]
      OBVIOUS
    <2>1. r[k] = IF k <= Len(before) THEN before[k] ELSE after[k - Len(before)]
      BY <1>1, <1>2, <1>3, ConcatProperties
    <2>2. CASE k < i
      BY <1>1, <1>2, <2>1, <2>2
    <2>3. CASE ~(k < i)
      <3>1. PICK l \in 1..(Len(s) - i) : l = k - (i - 1)
        BY <1>1, <2>3
      <3>2. r[k] = after[l] /\ after[l] = s[i + l] /\ i + l = k + 1
        BY <1>1, <1>2, <1>3, <2>1, <2>3, <3>1
      <3> QED
        BY <2>3, <3>2
    <2> QED
      BY <2>2, <2>3
  <1> HIDE DEF r
  <1>7. DistinctIds(r)
    <2> SUFFICES ASSUME NEW k \in DOMAIN r, NEW l \in DOMAIN r, r[k].id = r[l].id
                 PROVE  k = l
      BY DEF DistinctIds
    <2>1. PICK x \in DOMAIN s : r[k] = s[x] /\ x = IF k < i THEN k ELSE k + 1
      BY <1>1, <1>4, <1>5
    <2>2. PICK y \in DOMAIN s : r[l] = s[y] /\ y = IF l < i THEN l ELSE l + 1
      BY <1>1, <1>4, <1>5
    <2>3. x = y
      BY <1>1, <2>1, <2>2 DEF DistinctIds
    <2> QED
      BY <1>1, <1>4, <2>1, <2>2, <2>3
  <1>6. RemoveAt(s, i) = r
    BY DEF RemoveAt, r, before, after
  <1> QED
    BY <1>4, <1>6, <1>7 DEF Documents

----------------------------------------------------------------------------
(* The inductive invariant.                                                  *)

\* What the type invariant leaves open: all documents held anywhere are documents
\* the store would take.
ShapeInv ==
    /\ doc \in [rev : 0..MaxRev, schedules : Documents]
    /\ snap \in [rev : 0..MaxRev, schedules : Documents, now : 0..(WeekTicks - 1)]
    /\ editor \in [Editors -> [at : {"idle", "loaded", "handling"}, rev : 0..MaxRev, base : Documents]]

\* An editor's revision was the document's; as long as it still is, so is the copy
\* its handler took.
EditInv ==
    \A e \in Careful :
        /\ editor[e].rev <= doc.rev
        /\ editor[e].at = "handling" /\ editor[e].rev = doc.rev => editor[e].base = doc.schedules

\* An evaluation that nobody has woken since works on the document in force.
SnapInv ==
    pc = "evaluating" =>
        /\ todo \subseteq TargetKeys(snap.schedules)
        /\ ~wake => snap.schedules = doc.schedules

\* What a target of a document is to have on record.
OnRecord(schedules, t, time) ==
    LET claim == Winner(schedules, t, SlotOf(time))
    IN IF claim = NoClaim THEN NoSignature ELSE Signature(claim.action)

\* The targets an evaluation is done with are on record as its snapshot says.
DoneInv ==
    pc = "evaluating" =>
        \A t \in (TargetKeys(snap.schedules) \ todo) \ failed : last[t] = OnRecord(snap.schedules, t, snap.now)

\* A target changed by hand is under a block, which an engine that has it on record
\* leaves alone, and one that has not is past its catch-up window; an evaluation under
\* way, of this document or an older one, finds the same asked of it.
ClaimNow(t) == Winner(doc.schedules, t, SlotOf(clock))

ManualInv ==
    \A t \in manual :
        /\ ClaimNow(t) # NoClaim
        /\ last[t] \in {NoSignature, Signature(ClaimNow(t).action)}
        /\ last[t] = NoSignature => WindowPassed(doc.schedules, t, clock)
        /\ pc = "evaluating" =>
              /\ Due(t) # NoClaim /\ Signature(Due(t).action) = Signature(ClaimNow(t).action)
              /\ last[t] = NoSignature => TooOld(Due(t))

IInv ==
    /\ TypeOK /\ ShapeInv /\ EditInv /\ SnapInv /\ DoneInv
    /\ TimerCoversNextSwitch /\ SettledMatchesDocument /\ ManualInv

\* The initial states satisfy the invariant.
LEMMA InitIInv == Init => IInv
  <1> SUFFICES ASSUME Init
               PROVE  IInv
    OBVIOUS
  <1>1. /\ 0 \in 0..MaxRev /\ 0 \in 0..MaxLag /\ WeekTicks \in Nat \ {0}
        /\ 0 \in 0..(WeekTicks - 1) /\ 0 \in 0..WeekTicks
    <2>1. WeekTicks \in Nat /\ Heartbeat \in 1..WeekTicks
      BY EngineConstants, Ring DEF WeekTicks
    <2> QED
      BY <2>1, EngineConstants
  <1>2. FirstSchedules \in Documents /\ <<>> \in Documents /\ FirstSchedules \in Seq(Schedules)
    BY FirstIsDocument, EmptyDocument DEF Documents
  <1>3. TypeOK
    BY <1>1, <1>2 DEF Init, TypeOK, NoEdit, Signatures
  <1>4. ShapeInv
    BY <1>1, <1>2 DEF Init, ShapeInv, NoEdit
  <1>5. EditInv
    BY <1>1, EngineConstants DEF Init, EditInv, NoEdit
  <1>6. SnapInv /\ DoneInv /\ TimerCoversNextSwitch /\ SettledMatchesDocument /\ ManualInv
    BY DEF ManualInv, Init, SnapInv, DoneInv, TimerCoversNextSwitch, SettledMatchesDocument, AtRest
  <1> QED
    BY <1>3, <1>4, <1>5, <1>6 DEF IInv

----------------------------------------------------------------------------
(* Every step keeps it.                                                      *)

\* What an edit installs is a document.
LEMMA EditInstalls ==
    ASSUME ShapeInv
    PROVE  /\ \A e \in Editors : Replace(e) => \E s \in Documents : Install(s)
           /\ \A i \in DOMAIN doc.schedules : SetEnabled(i) \/ Delete(i) => \E s \in Documents : Install(s)
  <1>1. ASSUME NEW e \in Editors, Replace(e)
        PROVE  \E s \in Documents : Install(s)
    <2>1. PICK p \in Programmes : Install(Put(editor[e].base, p))
      BY <1>1 DEF Replace
    <2>2. editor[e].base \in Documents
      BY DEF ShapeInv
    <2> QED
      BY <2>1, <2>2, PutKeepsDocument
  <1>2. doc.schedules \in Documents
    BY DEF ShapeInv
  <1>3. ASSUME NEW i \in DOMAIN doc.schedules, SetEnabled(i)
        PROVE  \E s \in Documents : Install(s)
    BY <1>2, <1>3, SetEnabledKeepsDocument DEF SetEnabled
  <1>4. ASSUME NEW i \in DOMAIN doc.schedules, Delete(i)
        PROVE  \E s \in Documents : Install(s)
    BY <1>2, <1>4, DeleteKeepsDocument DEF Delete
  <1> QED
    BY <1>1, <1>3, <1>4

\* What an installation does, whoever asked for it.
LEMMA Installed ==
    ASSUME ShapeInv, NEW s \in Documents, Install(s)
    PROVE  /\ doc' \in [rev : 0..MaxRev, schedules : Documents]
           /\ doc'.rev = doc.rev + 1 /\ doc'.schedules = s
           /\ s \in Seq(Schedules)
           /\ wake' = TRUE /\ manual' \subseteq manual /\ ticked' = FALSE
           /\ UNCHANGED <<clock, pc, snap, todo, last, timer, lag, crossed, failed>>
  BY EngineConstants DEF ShapeInv, Install, WakeUp, Documents

\* The clock, the timer and the bounds stay in their ranges.
LEMMA TimeTypes ==
    ASSUME TypeOK
    PROVE  /\ WeekTicks \in Nat \ {0} /\ (clock + 1) % WeekTicks \in 0..(WeekTicks - 1)
           /\ TicksToSwitch(doc.schedules, clock) \in 0..WeekTicks
           /\ 0 \in 0..MaxLag /\ 0 \in 0..WeekTicks /\ 0 \in 0..(WeekTicks - 1)
  <1>1. clock \in 0..(WeekTicks - 1)
    BY DEF TypeOK
  <1>2. WeekTicks \in Nat \ {0}
    BY <1>1, EngineConstants, Ring DEF WeekTicks
  <1>3. TicksToSwitch(doc.schedules, clock) \in 1..WeekTicks
    BY <1>1, TicksToSwitchBounds
  <1>4. (clock + 1) % WeekTicks \in 0..(WeekTicks - 1)
    BY <1>1, SlotSteps
  <1> QED
    BY <1>2, <1>3, <1>4, EngineConstants

\* The signature an evaluation puts on record is one of the document's.
LEMMA DueIsSigned ==
    ASSUME ShapeInv, NEW t, Due(t) # NoClaim
    PROVE  Signature(Due(t).action) \in Signatures
  BY KeyNamesAction DEF ShapeInv, Due

\* Every step keeps the types.
LEMMA TypeStep == IInv /\ [Next]_vars => TypeOK' /\ ShapeInv'
  <1> SUFFICES ASSUME IInv, [Next]_vars
               PROVE  TypeOK' /\ ShapeInv'
    OBVIOUS
  <1>a. /\ TypeOK /\ ShapeInv /\ EditInv /\ SnapInv /\ DoneInv
        /\ TimerCoversNextSwitch /\ SettledMatchesDocument /\ ManualInv
    BY DEF IInv
  <1>1. CASE BeginEvaluate
    <2>1. /\ doc.schedules \in Documents /\ doc.rev \in 0..MaxRev /\ clock \in 0..(WeekTicks - 1)
          /\ TargetKeys(doc.schedules) \subseteq Targets
      BY <1>a, TargetKeysAreTargets DEF ShapeInv, TypeOK
    <2> QED
      BY <1>a, <1>1, <2>1 DEF BeginEvaluate, Current, TypeOK, ShapeInv
  <1>2. CASE Sleep
    <2>1. UntilNext \in 0..WeekTicks /\ 0 \in 0..MaxLag /\ 0 \in 0..(WeekTicks - 1)
      BY <1>a, TimeTypes DEF UntilNext
    <2>2. crossed' \in BOOLEAN
      BY <1>2 DEF Sleep
    <2> QED
      BY <1>a, <1>2, <2>1, <2>2, EmptyDocument DEF Sleep, AllEvaluated, TypeOK, ShapeInv
  <1>3. CASE TimerFires
    <2>1. ticked' \in BOOLEAN
      BY <1>3 DEF TimerFires
    <2> QED
      BY <1>a, <1>3, <2>1 DEF TimerFires, TypeOK, ShapeInv
  <1>4. CASE TakeWake
    BY <1>a, <1>4, TimeTypes DEF TakeWake, TypeOK, ShapeInv
  <1>5. ASSUME NEW t \in Targets, Gap(t)
        PROVE  TypeOK' /\ ShapeInv'
    <2>1. last' \in [Targets -> Signatures]
      BY <1>a, <1>5, DueIsSigned DEF TypeOK, Gap, AtTarget, Signatures
    <2> QED
      BY <1>a, <1>5, <2>1 DEF TypeOK, ShapeInv, Gap, AtTarget
  <1>6. ASSUME NEW t \in Targets, Idempotent(t)
        PROVE  TypeOK' /\ ShapeInv'
    BY <1>a, <1>6 DEF Idempotent, AtTarget, TypeOK, ShapeInv
  <1>7. ASSUME NEW t \in Targets, Seed(t)
        PROVE  TypeOK' /\ ShapeInv'
    <2>1. last' \in [Targets -> Signatures]
      BY <1>a, <1>7, DueIsSigned DEF TypeOK, Seed, Pending, AtTarget, Remember, Signatures
    <2> QED
      BY <1>a, <1>7, <2>1 DEF TypeOK, ShapeInv, Seed, Pending, AtTarget, Remember
  <1>8. ASSUME NEW t \in Targets, Apply(t)
        PROVE  TypeOK' /\ ShapeInv'
    <2>1. last' \in [Targets -> Signatures]
      BY <1>a, <1>8, DueIsSigned DEF TypeOK, Apply, Pending, AtTarget, Remember, Signatures
    <2> QED
      BY <1>a, <1>8, <2>1 DEF TypeOK, ShapeInv, Apply, Pending, AtTarget, Remember
  <1>9. ASSUME NEW t \in Targets, ApplyFails(t)
        PROVE  TypeOK' /\ ShapeInv'
    BY <1>a, <1>9 DEF ApplyFails, Pending, AtTarget, TypeOK, ShapeInv
  <1>10. ASSUME NEW e \in Editors, Load(e)
        PROVE  TypeOK' /\ ShapeInv'
    <2>1. editor' \in [Editors -> [at : {"idle", "loaded", "handling"}, rev : 0..MaxRev, base : Documents]]
      BY <1>a, <1>10, EmptyDocument, EngineConstants DEF Load, ShapeInv, NoEdit
    <2> QED
      BY <1>a, <1>10, <2>1 DEF Load, engineVars, TypeOK, ShapeInv
  <1>11. ASSUME NEW e \in Editors, Handle(e)
        PROVE  TypeOK' /\ ShapeInv'
    <2>1. editor' \in [Editors -> [at : {"idle", "loaded", "handling"}, rev : 0..MaxRev, base : Documents]]
      BY <1>a, <1>11, EmptyDocument, EngineConstants DEF Handle, ShapeInv, NoEdit
    <2> QED
      BY <1>a, <1>11, <2>1 DEF Handle, engineVars, TypeOK, ShapeInv
  <1>12. ASSUME NEW e \in Editors, Replace(e)
        PROVE  TypeOK' /\ ShapeInv'
    <2>1. PICK s \in Documents : Install(s)
      BY <1>a, <1>12, EditInstalls
    <2>2. editor' \in [Editors -> [at : {"idle", "loaded", "handling"}, rev : 0..MaxRev, base : Documents]]
      BY <1>a, <1>12, EmptyDocument, EngineConstants
         DEF Replace, SetEnabled, Delete, ShapeInv, NoEdit
    <2>3. /\ doc' \in [rev : 0..MaxRev, schedules : Documents] /\ s \in Seq(Schedules)
          /\ doc'.schedules = s /\ wake' = TRUE /\ manual' \subseteq manual /\ ticked' = FALSE
          /\ UNCHANGED <<clock, pc, snap, todo, last, timer, lag, crossed, failed>>
      BY <1>a, <2>1, Installed
    <2> QED
      BY <1>a, <2>2, <2>3 DEF TypeOK, ShapeInv
  <1>13. ASSUME NEW e \in Editors, Reject(e)
        PROVE  TypeOK' /\ ShapeInv'
    <2>1. editor' \in [Editors -> [at : {"idle", "loaded", "handling"}, rev : 0..MaxRev, base : Documents]]
      BY <1>a, <1>13, EmptyDocument, EngineConstants DEF Reject, ShapeInv, NoEdit
    <2> QED
      BY <1>a, <1>13, <2>1 DEF Reject, engineVars, TypeOK, ShapeInv
  <1>14. ASSUME NEW i \in DOMAIN doc.schedules, SetEnabled(i)
        PROVE  TypeOK' /\ ShapeInv'
    <2>1. PICK s \in Documents : Install(s)
      BY <1>a, <1>14, EditInstalls
    <2>2. editor' \in [Editors -> [at : {"idle", "loaded", "handling"}, rev : 0..MaxRev, base : Documents]]
      BY <1>a, <1>14, EmptyDocument, EngineConstants
         DEF Replace, SetEnabled, Delete, ShapeInv, NoEdit
    <2>3. /\ doc' \in [rev : 0..MaxRev, schedules : Documents] /\ s \in Seq(Schedules)
          /\ doc'.schedules = s /\ wake' = TRUE /\ manual' \subseteq manual /\ ticked' = FALSE
          /\ UNCHANGED <<clock, pc, snap, todo, last, timer, lag, crossed, failed>>
      BY <1>a, <2>1, Installed
    <2> QED
      BY <1>a, <2>2, <2>3 DEF TypeOK, ShapeInv
  <1>15. ASSUME NEW i \in DOMAIN doc.schedules, Delete(i)
        PROVE  TypeOK' /\ ShapeInv'
    <2>1. PICK s \in Documents : Install(s)
      BY <1>a, <1>15, EditInstalls
    <2>2. editor' \in [Editors -> [at : {"idle", "loaded", "handling"}, rev : 0..MaxRev, base : Documents]]
      BY <1>a, <1>15, EmptyDocument, EngineConstants
         DEF Replace, SetEnabled, Delete, ShapeInv, NoEdit
    <2>3. /\ doc' \in [rev : 0..MaxRev, schedules : Documents] /\ s \in Seq(Schedules)
          /\ doc'.schedules = s /\ wake' = TRUE /\ manual' \subseteq manual /\ ticked' = FALSE
          /\ UNCHANGED <<clock, pc, snap, todo, last, timer, lag, crossed, failed>>
      BY <1>a, <2>1, Installed
    <2> QED
      BY <1>a, <2>2, <2>3 DEF TypeOK, ShapeInv
  <1>16. CASE Poll
    BY <1>a, <1>16 DEF Poll, WakeUp, TypeOK, ShapeInv
  <1>17. CASE Tick
    <2>1. clock' \in 0..(WeekTicks - 1) /\ timer' \in 0..WeekTicks
      BY <1>a, <1>17, TimeTypes DEF Tick, TypeOK
    <2>2. lag' \in 0..MaxLag /\ manual' \subseteq Targets
      BY <1>a, <1>17, EngineConstants DEF Tick, TypeOK
    <2>3. ticked' \in BOOLEAN
      BY <1>17 DEF Tick
    <2> QED
      BY <1>a, <1>17, <2>1, <2>2, <2>3 DEF Tick, TypeOK, ShapeInv
  <1>18. CASE Crash
    <2>1. /\ last' \in [Targets -> Signatures]
          /\ 0 \in 0..MaxLag /\ 0 \in 0..(WeekTicks - 1) /\ 0 \in 0..WeekTicks
      BY <1>a, <1>18, TimeTypes DEF Crash, Fresh, Signatures
    <2>2. editor' \in [Editors -> [at : {"idle", "loaded", "handling"}, rev : 0..MaxRev, base : Documents]]
      BY <1>a, <1>18, EmptyDocument, EngineConstants DEF Crash, ShapeInv, NoEdit
    <2>3. manual' \subseteq Targets
      BY <1>a, <1>18 DEF Crash, TypeOK
    <2> QED
      BY <1>a, <1>18, <2>1, <2>2, <2>3, EmptyDocument DEF Crash, Fresh, TypeOK, ShapeInv
  <1>19. ASSUME NEW t \in Targets, ManualChange(t)
        PROVE  TypeOK' /\ ShapeInv'
    BY <1>a, <1>19 DEF ManualChange, engineVars, TypeOK, ShapeInv
  <1>20. CASE UNCHANGED vars
    BY <1>a, <1>20 DEF vars, engineVars, TypeOK, ShapeInv
  <1> QED
    BY <1>1, <1>2, <1>3, <1>4, <1>5, <1>6, <1>7, <1>8, <1>9, <1>10, <1>11, <1>12, <1>13, <1>14,
       <1>15, <1>16, <1>17, <1>18, <1>19, <1>20
       DEF Next, EngineStep, EvaluateTarget, Edit

\* Every step keeps the editors' copies as old as their revisions.
LEMMA EditStep == IInv /\ [Next]_vars => EditInv'
  <1> SUFFICES ASSUME IInv, [Next]_vars
               PROVE  EditInv'
    OBVIOUS
  <1>a. /\ TypeOK /\ ShapeInv /\ EditInv /\ SnapInv /\ DoneInv
        /\ TimerCoversNextSwitch /\ SettledMatchesDocument /\ ManualInv
    BY DEF IInv
  <1>1. CASE BeginEvaluate
    BY <1>a, <1>1 DEF BeginEvaluate, Current, EditInv
  <1>2. CASE Sleep
    BY <1>a, <1>2 DEF Sleep, AllEvaluated, EditInv
  <1>3. CASE TimerFires
    BY <1>a, <1>3 DEF TimerFires, EditInv
  <1>4. CASE TakeWake
    BY <1>a, <1>4 DEF TakeWake, EditInv
  <1>5. ASSUME NEW t \in Targets, Gap(t)
        PROVE  EditInv'
    BY <1>a, <1>5 DEF Gap, AtTarget, EditInv
  <1>6. ASSUME NEW t \in Targets, Idempotent(t)
        PROVE  EditInv'
    BY <1>a, <1>6 DEF Idempotent, AtTarget, EditInv
  <1>7. ASSUME NEW t \in Targets, Seed(t)
        PROVE  EditInv'
    BY <1>a, <1>7 DEF Seed, Pending, AtTarget, Remember, EditInv
  <1>8. ASSUME NEW t \in Targets, Apply(t)
        PROVE  EditInv'
    BY <1>a, <1>8 DEF Apply, Pending, AtTarget, Remember, EditInv
  <1>9. ASSUME NEW t \in Targets, ApplyFails(t)
        PROVE  EditInv'
    BY <1>a, <1>9 DEF ApplyFails, Pending, AtTarget, EditInv
  <1>10. ASSUME NEW e \in Editors, Load(e)
        PROVE  EditInv'
    BY <1>a, <1>10, EngineConstants DEF Load, engineVars, EditInv, ShapeInv, NoEdit
  <1>11. ASSUME NEW e \in Editors, Handle(e)
        PROVE  EditInv'
    BY <1>a, <1>11, EngineConstants DEF Handle, engineVars, EditInv, ShapeInv, NoEdit
  <1>12. ASSUME NEW e \in Editors, Replace(e)
        PROVE  EditInv'
    <2>1. PICK s \in Documents : Install(s)
      BY <1>a, <1>12, EditInstalls
    <2>2. doc'.rev = doc.rev + 1
      BY <1>a, <2>1, Installed
    <2>3. doc.rev \in Nat /\ \A x \in Editors : editor[x].rev \in Nat
      BY <1>a, EngineConstants DEF ShapeInv
    <2> QED
      BY <1>a, <1>12, <2>2, <2>3, EngineConstants DEF Replace, EditInv, ShapeInv, NoEdit
  <1>13. ASSUME NEW e \in Editors, Reject(e)
        PROVE  EditInv'
    BY <1>a, <1>13, EngineConstants DEF Reject, engineVars, EditInv, ShapeInv, NoEdit
  <1>14. ASSUME NEW i \in DOMAIN doc.schedules, SetEnabled(i)
        PROVE  EditInv'
    <2>1. PICK s \in Documents : Install(s)
      BY <1>a, <1>14, EditInstalls
    <2>2. doc'.rev = doc.rev + 1
      BY <1>a, <2>1, Installed
    <2>3. doc.rev \in Nat /\ \A e \in Editors : editor[e].rev \in Nat
      BY <1>a, EngineConstants DEF ShapeInv
    <2> QED
      BY <1>a, <1>14, <2>2, <2>3, EngineConstants DEF SetEnabled, EditInv, ShapeInv, NoEdit
  <1>15. ASSUME NEW i \in DOMAIN doc.schedules, Delete(i)
        PROVE  EditInv'
    <2>1. PICK s \in Documents : Install(s)
      BY <1>a, <1>15, EditInstalls
    <2>2. doc'.rev = doc.rev + 1
      BY <1>a, <2>1, Installed
    <2>3. doc.rev \in Nat /\ \A e \in Editors : editor[e].rev \in Nat
      BY <1>a, EngineConstants DEF ShapeInv
    <2> QED
      BY <1>a, <1>15, <2>2, <2>3, EngineConstants DEF Delete, EditInv, ShapeInv, NoEdit
  <1>16. CASE Poll
    BY <1>a, <1>16 DEF Poll, WakeUp, EditInv
  <1>17. CASE Tick
    BY <1>a, <1>17 DEF Tick, EditInv
  <1>18. CASE Crash
    BY <1>a, <1>18, EngineConstants DEF Crash, Fresh, EditInv, ShapeInv, NoEdit
  <1>19. ASSUME NEW t \in Targets, ManualChange(t)
        PROVE  EditInv'
    BY <1>a, <1>19 DEF ManualChange, engineVars, EditInv
  <1>20. CASE UNCHANGED vars
    BY <1>a, <1>20 DEF vars, engineVars, EditInv
  <1> QED
    BY <1>1, <1>2, <1>3, <1>4, <1>5, <1>6, <1>7, <1>8, <1>9, <1>10, <1>11, <1>12, <1>13, <1>14,
       <1>15, <1>16, <1>17, <1>18, <1>19, <1>20
       DEF Next, EngineStep, EvaluateTarget, Edit

\* Every step keeps an evaluation on the document in force, or wakes the engine.
LEMMA SnapStep == IInv /\ [Next]_vars => SnapInv'
  <1> SUFFICES ASSUME IInv, [Next]_vars
               PROVE  SnapInv'
    OBVIOUS
  <1>a. /\ TypeOK /\ ShapeInv /\ EditInv /\ SnapInv /\ DoneInv
        /\ TimerCoversNextSwitch /\ SettledMatchesDocument /\ ManualInv
    BY DEF IInv
  <1>1. CASE BeginEvaluate
    BY <1>a, <1>1 DEF BeginEvaluate, Current, SnapInv
  <1>2. CASE Sleep
    BY <1>a, <1>2 DEF Sleep, AllEvaluated, SnapInv
  <1>3. CASE TimerFires
    BY <1>a, <1>3 DEF TimerFires, SnapInv
  <1>4. CASE TakeWake
    BY <1>a, <1>4 DEF TakeWake, SnapInv
  <1>5. ASSUME NEW t \in Targets, Gap(t)
        PROVE  SnapInv'
    BY <1>a, <1>5 DEF Gap, AtTarget, SnapInv
  <1>6. ASSUME NEW t \in Targets, Idempotent(t)
        PROVE  SnapInv'
    BY <1>a, <1>6 DEF Idempotent, AtTarget, SnapInv
  <1>7. ASSUME NEW t \in Targets, Seed(t)
        PROVE  SnapInv'
    BY <1>a, <1>7 DEF Seed, Pending, AtTarget, Remember, SnapInv
  <1>8. ASSUME NEW t \in Targets, Apply(t)
        PROVE  SnapInv'
    BY <1>a, <1>8 DEF Apply, Pending, AtTarget, Remember, SnapInv
  <1>9. ASSUME NEW t \in Targets, ApplyFails(t)
        PROVE  SnapInv'
    BY <1>a, <1>9 DEF ApplyFails, Pending, AtTarget, SnapInv
  <1>10. ASSUME NEW e \in Editors, Load(e)
        PROVE  SnapInv'
    BY <1>a, <1>10 DEF Load, engineVars, SnapInv
  <1>11. ASSUME NEW e \in Editors, Handle(e)
        PROVE  SnapInv'
    BY <1>a, <1>11 DEF Handle, engineVars, SnapInv
  <1>12. ASSUME NEW e \in Editors, Replace(e)
        PROVE  SnapInv'
    <2>1. PICK s \in Documents : Install(s)
      BY <1>a, <1>12, EditInstalls
    <2> QED
      BY <1>a, <2>1, Installed DEF SnapInv
  <1>13. ASSUME NEW e \in Editors, Reject(e)
        PROVE  SnapInv'
    BY <1>a, <1>13 DEF Reject, engineVars, SnapInv
  <1>14. ASSUME NEW i \in DOMAIN doc.schedules, SetEnabled(i)
        PROVE  SnapInv'
    <2>1. PICK s \in Documents : Install(s)
      BY <1>a, <1>14, EditInstalls
    <2> QED
      BY <1>a, <2>1, Installed DEF SnapInv
  <1>15. ASSUME NEW i \in DOMAIN doc.schedules, Delete(i)
        PROVE  SnapInv'
    <2>1. PICK s \in Documents : Install(s)
      BY <1>a, <1>15, EditInstalls
    <2> QED
      BY <1>a, <2>1, Installed DEF SnapInv
  <1>16. CASE Poll
    BY <1>a, <1>16 DEF Poll, WakeUp, SnapInv
  <1>17. CASE Tick
    BY <1>a, <1>17 DEF Tick, SnapInv
  <1>18. CASE Crash
    BY <1>a, <1>18 DEF Crash, Fresh, SnapInv
  <1>19. ASSUME NEW t \in Targets, ManualChange(t)
        PROVE  SnapInv'
    BY <1>a, <1>19 DEF ManualChange, engineVars, SnapInv
  <1>20. CASE UNCHANGED vars
    BY <1>a, <1>20 DEF vars, engineVars, SnapInv
  <1> QED
    BY <1>1, <1>2, <1>3, <1>4, <1>5, <1>6, <1>7, <1>8, <1>9, <1>10, <1>11, <1>12, <1>13, <1>14,
       <1>15, <1>16, <1>17, <1>18, <1>19, <1>20
       DEF Next, EngineStep, EvaluateTarget, Edit

\* Every step keeps the record of the targets an evaluation is done with.
LEMMA DoneStep == IInv /\ [Next]_vars => DoneInv'
  <1> SUFFICES ASSUME IInv, [Next]_vars
               PROVE  DoneInv'
    OBVIOUS
  <1>a. /\ TypeOK /\ ShapeInv /\ EditInv /\ SnapInv /\ DoneInv
        /\ TimerCoversNextSwitch /\ SettledMatchesDocument /\ ManualInv
    BY DEF IInv
  <1>1. CASE BeginEvaluate
    BY <1>1 DEF BeginEvaluate, Current, DoneInv
  <1>2. CASE Sleep
    BY <1>2 DEF Sleep, AllEvaluated, DoneInv
  <1>3. CASE TimerFires
    BY <1>3 DEF TimerFires, DoneInv
  <1>4. CASE TakeWake
    BY <1>4 DEF TakeWake, DoneInv
  <1>5. ASSUME NEW t \in Targets, Gap(t)
        PROVE  DoneInv'
    <2>1. /\ pc = "evaluating" /\ UNCHANGED <<pc, snap>> /\ todo' = todo \ {t}
          /\ failed' = failed \ {t} /\ last \in [Targets -> Signatures]
      BY <1>a, <1>5 DEF Gap, AtTarget, TypeOK
    <2>2. last'[t] = OnRecord(snap.schedules, t, snap.now)
      BY <1>5, <2>1 DEF Gap, AtTarget, OnRecord, Due, InEffect
    <2>3. \A x \in Targets \ {t} : last'[x] = last[x]
      BY <1>5, <2>1 DEF Gap, AtTarget
    <2>4. TargetKeys(snap.schedules) \subseteq Targets
      BY <1>a, TargetKeysAreTargets DEF ShapeInv
    <2> QED
      BY <1>a, <2>1, <2>2, <2>3, <2>4 DEF DoneInv, OnRecord
  <1>6. ASSUME NEW t \in Targets, Idempotent(t)
        PROVE  DoneInv'
    <2>1. /\ pc = "evaluating" /\ UNCHANGED <<pc, snap>> /\ todo' = todo \ {t}
          /\ failed' = failed \ {t} /\ last \in [Targets -> Signatures]
      BY <1>a, <1>6 DEF Idempotent, AtTarget, TypeOK
    <2>2. last'[t] = OnRecord(snap.schedules, t, snap.now)
      BY <1>6, <2>1 DEF Idempotent, AtTarget, OnRecord, Due, InEffect
    <2>3. \A x \in Targets \ {t} : last'[x] = last[x]
      BY <1>6, <2>1 DEF Idempotent, AtTarget
    <2>4. TargetKeys(snap.schedules) \subseteq Targets
      BY <1>a, TargetKeysAreTargets DEF ShapeInv
    <2> QED
      BY <1>a, <2>1, <2>2, <2>3, <2>4 DEF DoneInv, OnRecord
  <1>7. ASSUME NEW t \in Targets, Seed(t)
        PROVE  DoneInv'
    <2>1. /\ pc = "evaluating" /\ UNCHANGED <<pc, snap>> /\ todo' = todo \ {t}
          /\ failed' = failed \ {t} /\ last \in [Targets -> Signatures]
      BY <1>a, <1>7 DEF Seed, Pending, AtTarget, Remember, TypeOK
    <2>2. last'[t] = OnRecord(snap.schedules, t, snap.now)
      BY <1>7, <2>1 DEF Seed, Pending, AtTarget, Remember, OnRecord, Due, InEffect
    <2>3. \A x \in Targets \ {t} : last'[x] = last[x]
      BY <1>7, <2>1 DEF Seed, Pending, AtTarget, Remember
    <2>4. TargetKeys(snap.schedules) \subseteq Targets
      BY <1>a, TargetKeysAreTargets DEF ShapeInv
    <2> QED
      BY <1>a, <2>1, <2>2, <2>3, <2>4 DEF DoneInv, OnRecord
  <1>8. ASSUME NEW t \in Targets, Apply(t)
        PROVE  DoneInv'
    <2>1. /\ pc = "evaluating" /\ UNCHANGED <<pc, snap>> /\ todo' = todo \ {t}
          /\ failed' = failed \ {t} /\ last \in [Targets -> Signatures]
      BY <1>a, <1>8 DEF Apply, Pending, AtTarget, Remember, TypeOK
    <2>2. last'[t] = OnRecord(snap.schedules, t, snap.now)
      BY <1>8, <2>1 DEF Apply, Pending, AtTarget, Remember, OnRecord, Due, InEffect
    <2>3. \A x \in Targets \ {t} : last'[x] = last[x]
      BY <1>8, <2>1 DEF Apply, Pending, AtTarget, Remember
    <2>4. TargetKeys(snap.schedules) \subseteq Targets
      BY <1>a, TargetKeysAreTargets DEF ShapeInv
    <2> QED
      BY <1>a, <2>1, <2>2, <2>3, <2>4 DEF DoneInv, OnRecord
  <1>9. ASSUME NEW t \in Targets, ApplyFails(t)
        PROVE  DoneInv'
    <2>1. /\ pc = "evaluating" /\ UNCHANGED <<pc, snap>> /\ todo' = todo \ {t}
          /\ failed' = failed \cup {t} /\ last \in [Targets -> Signatures]
      BY <1>a, <1>9 DEF ApplyFails, Pending, AtTarget, TypeOK
    <2>2. t \in failed' \/ last'[t] = OnRecord(snap.schedules, t, snap.now)
      BY <1>9, <2>1 DEF ApplyFails, Pending, AtTarget, OnRecord, Due, InEffect
    <2>3. \A x \in Targets \ {t} : last'[x] = last[x]
      BY <1>9, <2>1 DEF ApplyFails, Pending, AtTarget
    <2>4. TargetKeys(snap.schedules) \subseteq Targets
      BY <1>a, TargetKeysAreTargets DEF ShapeInv
    <2> QED
      BY <1>a, <2>1, <2>2, <2>3, <2>4 DEF DoneInv, OnRecord
  <1>10. ASSUME NEW e \in Editors, Load(e)
        PROVE  DoneInv'
    <2>1. UNCHANGED <<pc, snap, todo, last, failed>>
      BY <1>10 DEF Load, engineVars
    <2> QED
      BY <1>a, <2>1 DEF DoneInv, OnRecord
  <1>11. ASSUME NEW e \in Editors, Handle(e)
        PROVE  DoneInv'
    <2>1. UNCHANGED <<pc, snap, todo, last, failed>>
      BY <1>11 DEF Handle, engineVars
    <2> QED
      BY <1>a, <2>1 DEF DoneInv, OnRecord
  <1>12. ASSUME NEW e \in Editors, Replace(e)
        PROVE  DoneInv'
    <2>1. PICK s \in Documents : Install(s)
      BY <1>a, <1>12, EditInstalls
    <2>2. UNCHANGED <<pc, snap, todo, last, failed>>
      BY <1>a, <2>1, Installed
    <2> QED
      BY <1>a, <2>2 DEF DoneInv, OnRecord
  <1>13. ASSUME NEW e \in Editors, Reject(e)
        PROVE  DoneInv'
    <2>1. UNCHANGED <<pc, snap, todo, last, failed>>
      BY <1>13 DEF Reject, engineVars
    <2> QED
      BY <1>a, <2>1 DEF DoneInv, OnRecord
  <1>14. ASSUME NEW i \in DOMAIN doc.schedules, SetEnabled(i)
        PROVE  DoneInv'
    <2>1. PICK s \in Documents : Install(s)
      BY <1>a, <1>14, EditInstalls
    <2>2. UNCHANGED <<pc, snap, todo, last, failed>>
      BY <1>a, <2>1, Installed
    <2> QED
      BY <1>a, <2>2 DEF DoneInv, OnRecord
  <1>15. ASSUME NEW i \in DOMAIN doc.schedules, Delete(i)
        PROVE  DoneInv'
    <2>1. PICK s \in Documents : Install(s)
      BY <1>a, <1>15, EditInstalls
    <2>2. UNCHANGED <<pc, snap, todo, last, failed>>
      BY <1>a, <2>1, Installed
    <2> QED
      BY <1>a, <2>2 DEF DoneInv, OnRecord
  <1>16. CASE Poll
    <2>1. UNCHANGED <<pc, snap, todo, last, failed>>
      BY <1>16 DEF Poll, WakeUp
    <2> QED
      BY <1>a, <2>1 DEF DoneInv, OnRecord
  <1>17. CASE Tick
    <2>1. UNCHANGED <<pc, snap, todo, last, failed>>
      BY <1>17 DEF Tick
    <2> QED
      BY <1>a, <2>1 DEF DoneInv, OnRecord
  <1>18. CASE Crash
    BY <1>18 DEF Crash, Fresh, DoneInv
  <1>19. ASSUME NEW t \in Targets, ManualChange(t)
        PROVE  DoneInv'
    <2>1. UNCHANGED <<pc, snap, todo, last, failed>>
      BY <1>19 DEF ManualChange, engineVars
    <2> QED
      BY <1>a, <2>1 DEF DoneInv, OnRecord
  <1>20. CASE UNCHANGED vars
    BY <1>a, <1>20 DEF vars, engineVars, DoneInv
  <1> QED
    BY <1>1, <1>2, <1>3, <1>4, <1>5, <1>6, <1>7, <1>8, <1>9, <1>10, <1>11, <1>12, <1>13, <1>14,
       <1>15, <1>16, <1>17, <1>18, <1>19, <1>20
       DEF Next, EngineStep, EvaluateTarget, Edit

\* Every step keeps the timer short of the next switch point.
LEMMA TimerStep == IInv /\ [Next]_vars => TimerCoversNextSwitch'
  <1> SUFFICES ASSUME IInv, [Next]_vars
               PROVE  TimerCoversNextSwitch'
    OBVIOUS
  <1>a. /\ TypeOK /\ ShapeInv /\ EditInv /\ SnapInv /\ DoneInv
        /\ TimerCoversNextSwitch /\ SettledMatchesDocument /\ ManualInv
    BY DEF IInv
  <1>1. CASE BeginEvaluate
    BY <1>a, <1>1 DEF BeginEvaluate, Current, TimerCoversNextSwitch
  <1>2. CASE Sleep
    <2>1. timer' = TicksToSwitch(doc.schedules, clock) /\ UNCHANGED <<doc, clock>>
      BY <1>2 DEF Sleep, UntilNext
    <2>2. TicksToSwitch(doc.schedules, clock) \in 0..WeekTicks
      BY <1>a, TimeTypes
    <2> QED
      BY <2>1, <2>2 DEF TimerCoversNextSwitch
  <1>3. CASE TimerFires
    BY <1>a, <1>3 DEF TimerFires, TimerCoversNextSwitch
  <1>4. CASE TakeWake
    BY <1>a, <1>4 DEF TakeWake, TimerCoversNextSwitch
  <1>5. ASSUME NEW t \in Targets, Gap(t)
        PROVE  TimerCoversNextSwitch'
    BY <1>a, <1>5 DEF Gap, AtTarget, TimerCoversNextSwitch
  <1>6. ASSUME NEW t \in Targets, Idempotent(t)
        PROVE  TimerCoversNextSwitch'
    BY <1>a, <1>6 DEF Idempotent, AtTarget, TimerCoversNextSwitch
  <1>7. ASSUME NEW t \in Targets, Seed(t)
        PROVE  TimerCoversNextSwitch'
    BY <1>a, <1>7 DEF Seed, Pending, AtTarget, Remember, TimerCoversNextSwitch
  <1>8. ASSUME NEW t \in Targets, Apply(t)
        PROVE  TimerCoversNextSwitch'
    BY <1>a, <1>8 DEF Apply, Pending, AtTarget, Remember, TimerCoversNextSwitch
  <1>9. ASSUME NEW t \in Targets, ApplyFails(t)
        PROVE  TimerCoversNextSwitch'
    BY <1>a, <1>9 DEF ApplyFails, Pending, AtTarget, TimerCoversNextSwitch
  <1>10. ASSUME NEW e \in Editors, Load(e)
        PROVE  TimerCoversNextSwitch'
    BY <1>a, <1>10 DEF Load, engineVars, TimerCoversNextSwitch
  <1>11. ASSUME NEW e \in Editors, Handle(e)
        PROVE  TimerCoversNextSwitch'
    BY <1>a, <1>11 DEF Handle, engineVars, TimerCoversNextSwitch
  <1>12. ASSUME NEW e \in Editors, Replace(e)
        PROVE  TimerCoversNextSwitch'
    <2>1. PICK s \in Documents : Install(s)
      BY <1>a, <1>12, EditInstalls
    <2> QED
      BY <2>1, Installed, <1>a DEF TimerCoversNextSwitch
  <1>13. ASSUME NEW e \in Editors, Reject(e)
        PROVE  TimerCoversNextSwitch'
    BY <1>a, <1>13 DEF Reject, engineVars, TimerCoversNextSwitch
  <1>14. ASSUME NEW i \in DOMAIN doc.schedules, SetEnabled(i)
        PROVE  TimerCoversNextSwitch'
    <2>1. PICK s \in Documents : Install(s)
      BY <1>a, <1>14, EditInstalls
    <2> QED
      BY <2>1, Installed, <1>a DEF TimerCoversNextSwitch
  <1>15. ASSUME NEW i \in DOMAIN doc.schedules, Delete(i)
        PROVE  TimerCoversNextSwitch'
    <2>1. PICK s \in Documents : Install(s)
      BY <1>a, <1>15, EditInstalls
    <2> QED
      BY <2>1, Installed, <1>a DEF TimerCoversNextSwitch
  <1>16. CASE Poll
    BY <1>a, <1>16 DEF Poll, WakeUp, TimerCoversNextSwitch
  <1>17. CASE Tick
    <2>1. PICK next : next = (clock + 1) % WeekTicks
      OBVIOUS
    <2>2. /\ clock' = next /\ timer' = (IF timer > 0 THEN timer - 1 ELSE 0) /\ UNCHANGED <<doc, pc, wake>>
          /\ timer \in Nat /\ clock \in 0..(WeekTicks - 1) /\ WeekTicks \in Nat
      BY <1>a, <1>17, <2>1, TimeTypes DEF Tick, TypeOK
    <2>3. /\ TicksToSwitch(doc.schedules, clock) - 1 <= TicksToSwitch(doc.schedules, next)
          /\ next \in 0..(WeekTicks - 1)
      BY <2>1, <2>2, TickNearsSwitch, SlotSteps
    <2>4. /\ TicksToSwitch(doc.schedules, clock) \in 1..WeekTicks
          /\ TicksToSwitch(doc.schedules, next) \in 1..WeekTicks
      BY <2>2, <2>3, TicksToSwitchBounds
    <2>5. ASSUME pc = "asleep", ~wake
          PROVE  timer' <= TicksToSwitch(doc.schedules, next)
      <3>1. timer <= TicksToSwitch(doc.schedules, clock)
        BY <1>a, <2>5 DEF TimerCoversNextSwitch
      <3> QED
        BY <2>2, <2>3, <2>4, <3>1
    <2> QED
      BY <2>2, <2>5 DEF TimerCoversNextSwitch
  <1>18. CASE Crash
    BY <1>a, <1>18 DEF Crash, Fresh, TimerCoversNextSwitch
  <1>19. ASSUME NEW t \in Targets, ManualChange(t)
        PROVE  TimerCoversNextSwitch'
    BY <1>a, <1>19 DEF ManualChange, engineVars, TimerCoversNextSwitch
  <1>20. CASE UNCHANGED vars
    BY <1>a, <1>20 DEF vars, engineVars, TimerCoversNextSwitch
  <1> QED
    BY <1>1, <1>2, <1>3, <1>4, <1>5, <1>6, <1>7, <1>8, <1>9, <1>10, <1>11, <1>12, <1>13, <1>14,
       <1>15, <1>16, <1>17, <1>18, <1>19, <1>20
       DEF Next, EngineStep, EvaluateTarget, Edit

\* Every step keeps the record true while the engine rests.
LEMMA SettledStep == IInv /\ [Next]_vars => SettledMatchesDocument'
  <1> SUFFICES ASSUME IInv, [Next]_vars
               PROVE  SettledMatchesDocument'
    OBVIOUS
  <1>a. /\ TypeOK /\ ShapeInv /\ EditInv /\ SnapInv /\ DoneInv
        /\ TimerCoversNextSwitch /\ SettledMatchesDocument /\ ManualInv
    BY DEF IInv
  <1>1. CASE BeginEvaluate
    BY <1>1 DEF BeginEvaluate, Current, SettledMatchesDocument, AtRest
  <1>2. CASE Sleep
    <2> SUFFICES ASSUME ~wake, SlotOf(clock) = SlotOf(snap.now), NEW t \in TargetKeys(doc.schedules) \ failed
                 PROVE  last[t] = OnRecord(doc.schedules, t, clock)
      BY <1>2 DEF Sleep, SettledMatchesDocument, AtRest, OnRecord
    <2>1. pc = "evaluating" /\ todo = {}
      BY <1>2 DEF Sleep, AllEvaluated
    <2>2. snap.schedules = doc.schedules
      BY <1>a, <2>1 DEF SnapInv
    <2>3. last[t] = OnRecord(snap.schedules, t, snap.now)
      BY <1>a, <2>1, <2>2 DEF DoneInv
    <2> QED
      BY <2>2, <2>3 DEF OnRecord
  <1>3. CASE TimerFires
    BY <1>3 DEF TimerFires, SettledMatchesDocument, AtRest
  <1>4. CASE TakeWake
    BY <1>4 DEF TakeWake, SettledMatchesDocument, AtRest
  <1>5. ASSUME NEW t \in Targets, Gap(t)
        PROVE  SettledMatchesDocument'
    BY <1>5 DEF Gap, AtTarget, SettledMatchesDocument, AtRest
  <1>6. ASSUME NEW t \in Targets, Idempotent(t)
        PROVE  SettledMatchesDocument'
    BY <1>6 DEF Idempotent, AtTarget, SettledMatchesDocument, AtRest
  <1>7. ASSUME NEW t \in Targets, Seed(t)
        PROVE  SettledMatchesDocument'
    BY <1>7 DEF Seed, Pending, AtTarget, Remember, SettledMatchesDocument, AtRest
  <1>8. ASSUME NEW t \in Targets, Apply(t)
        PROVE  SettledMatchesDocument'
    BY <1>8 DEF Apply, Pending, AtTarget, Remember, SettledMatchesDocument, AtRest
  <1>9. ASSUME NEW t \in Targets, ApplyFails(t)
        PROVE  SettledMatchesDocument'
    BY <1>9 DEF ApplyFails, Pending, AtTarget, SettledMatchesDocument, AtRest
  <1>10. ASSUME NEW e \in Editors, Load(e)
        PROVE  SettledMatchesDocument'
    <2>1. UNCHANGED <<doc, clock, pc, wake, timer, crossed, last, failed>>
      BY <1>10 DEF Load, engineVars
    <2> QED
      BY <1>a, <2>1 DEF SettledMatchesDocument, AtRest
  <1>11. ASSUME NEW e \in Editors, Handle(e)
        PROVE  SettledMatchesDocument'
    <2>1. UNCHANGED <<doc, clock, pc, wake, timer, crossed, last, failed>>
      BY <1>11 DEF Handle, engineVars
    <2> QED
      BY <1>a, <2>1 DEF SettledMatchesDocument, AtRest
  <1>12. ASSUME NEW e \in Editors, Replace(e)
        PROVE  SettledMatchesDocument'
    <2>1. PICK s \in Documents : Install(s)
      BY <1>a, <1>12, EditInstalls
    <2> QED
      BY <2>1, Installed, <1>a DEF SettledMatchesDocument, AtRest
  <1>13. ASSUME NEW e \in Editors, Reject(e)
        PROVE  SettledMatchesDocument'
    <2>1. UNCHANGED <<doc, clock, pc, wake, timer, crossed, last, failed>>
      BY <1>13 DEF Reject, engineVars
    <2> QED
      BY <1>a, <2>1 DEF SettledMatchesDocument, AtRest
  <1>14. ASSUME NEW i \in DOMAIN doc.schedules, SetEnabled(i)
        PROVE  SettledMatchesDocument'
    <2>1. PICK s \in Documents : Install(s)
      BY <1>a, <1>14, EditInstalls
    <2> QED
      BY <2>1, Installed, <1>a DEF SettledMatchesDocument, AtRest
  <1>15. ASSUME NEW i \in DOMAIN doc.schedules, Delete(i)
        PROVE  SettledMatchesDocument'
    <2>1. PICK s \in Documents : Install(s)
      BY <1>a, <1>15, EditInstalls
    <2> QED
      BY <2>1, Installed, <1>a DEF SettledMatchesDocument, AtRest
  <1>16. CASE Poll
    BY <1>16 DEF Poll, WakeUp, SettledMatchesDocument, AtRest
  <1>17. CASE Tick
    <2>1. PICK next : next = (clock + 1) % WeekTicks
      OBVIOUS
    <2>2. /\ clock' = next /\ timer' = (IF timer > 0 THEN timer - 1 ELSE 0)
          /\ UNCHANGED <<doc, pc, wake, last, failed, crossed>>
          /\ timer \in Nat /\ clock \in 0..(WeekTicks - 1)
      BY <1>a, <1>17, <2>1, TimeTypes DEF Tick, TypeOK
    <2> SUFFICES ASSUME AtRest, timer >= 2, NEW t \in TargetKeys(doc.schedules) \ failed
                 PROVE  last[t] = OnRecord(doc.schedules, t, next)
      BY <2>2 DEF SettledMatchesDocument, AtRest, OnRecord
    <2>3. last[t] = OnRecord(doc.schedules, t, clock)
      BY <1>a DEF SettledMatchesDocument, OnRecord
    <2>4. TicksToSwitch(doc.schedules, clock) >= 2
      <3>1. timer <= TicksToSwitch(doc.schedules, clock)
        BY <1>a DEF TimerCoversNextSwitch, AtRest
      <3>2. TicksToSwitch(doc.schedules, clock) \in 1..WeekTicks
        BY <2>2, TicksToSwitchBounds
      <3> QED
        BY <2>2, <3>1, <3>2, TimeTypes, <1>a
    <2>5. Key(Winner(doc.schedules, t, SlotOf(next))) = Key(Winner(doc.schedules, t, SlotOf(clock)))
      BY <2>1, <2>2, <2>4, TickNearsSwitch
    <2>6. doc.schedules \in Documents
      BY <1>a DEF ShapeInv
    <2>7. CASE Winner(doc.schedules, t, SlotOf(clock)) = NoClaim
      <3>1. Winner(doc.schedules, t, SlotOf(next)) = NoClaim
        BY <2>5, <2>6, <2>7, KeyNamesAction
      <3> QED
        BY <2>3, <2>7, <3>1 DEF OnRecord
    <2>8. CASE Winner(doc.schedules, t, SlotOf(clock)) # NoClaim
      BY <2>3, <2>5, <2>6, <2>8, KeyNamesAction DEF OnRecord
    <2> QED
      BY <2>7, <2>8
  <1>18. CASE Crash
    BY <1>18 DEF Crash, Fresh, SettledMatchesDocument, AtRest
  <1>19. ASSUME NEW t \in Targets, ManualChange(t)
        PROVE  SettledMatchesDocument'
    <2>1. UNCHANGED <<doc, clock, pc, wake, timer, crossed, last, failed>>
      BY <1>19 DEF ManualChange, engineVars
    <2> QED
      BY <1>a, <2>1 DEF SettledMatchesDocument, AtRest
  <1>20. CASE UNCHANGED vars
    BY <1>a, <1>20 DEF vars, engineVars, SettledMatchesDocument, AtRest
  <1> QED
    BY <1>1, <1>2, <1>3, <1>4, <1>5, <1>6, <1>7, <1>8, <1>9, <1>10, <1>11, <1>12, <1>13, <1>14,
       <1>15, <1>16, <1>17, <1>18, <1>19, <1>20
       DEF Next, EngineStep, EvaluateTarget, Edit

\* An action's signature is not the one of an empty record.
LEMMA SignatureIsSome ==
    ASSUME NEW action
    PROVE  Signature(action) # NoSignature
  BY DEF Signature, NoSignature

\* An edit keeps of the manual changes those it does not alter what is asked of, whatever
\* the evaluation under way has read.
LEMMA EditLeavesManual ==
    ASSUME ManualInv, NEW s \in Documents, Install(s)
    PROVE  ManualInv'
  <1>1. /\ UNCHANGED <<clock, pc, snap, last>> /\ doc'.schedules = s
        /\ manual' = {x \in manual : Unaltered(s, x, clock)}
    BY DEF Install
  <1>2. \A x \in manual' : /\ x \in manual /\ ClaimNow(x)' # NoClaim
                           /\ Signature(ClaimNow(x)'.action) = Signature(ClaimNow(x).action)
                           /\ last[x] = NoSignature => WindowPassed(doc.schedules, x, clock)'
    BY <1>1 DEF Unaltered, ClaimNow, WindowPassed
  <1>3. \A x : Due(x)' = Due(x) /\ TooOld(Due(x))' = TooOld(Due(x))
    BY <1>1 DEF Due, TooOld, Age
  <1>4. ASSUME NEW x \in manual'
        PROVE  /\ ClaimNow(x)' # NoClaim
               /\ last'[x] \in {NoSignature, Signature(ClaimNow(x)'.action)}
               /\ last'[x] = NoSignature => WindowPassed(doc.schedules, x, clock)'
    BY <1>1, <1>2, <1>4 DEF ManualInv
  <1>5. ASSUME NEW x \in manual', pc' = "evaluating"
        PROVE  /\ Due(x)' # NoClaim /\ Signature(Due(x)'.action) = Signature(ClaimNow(x)'.action)
               /\ last'[x] = NoSignature => TooOld(Due(x))'
    BY <1>1, <1>2, <1>3, <1>5 DEF ManualInv
  <1> QED
    BY <1>4, <1>5 DEF ManualInv

\* Every step keeps the engine from writing to a target changed by hand.
LEMMA ManualStep == IInv /\ [Next]_vars => ManualInv'
  <1> SUFFICES ASSUME IInv, [Next]_vars
               PROVE  ManualInv'
    OBVIOUS
  <1>a. /\ TypeOK /\ ShapeInv /\ EditInv /\ SnapInv /\ DoneInv
        /\ TimerCoversNextSwitch /\ SettledMatchesDocument /\ ManualInv
    BY DEF IInv
  <1>1. CASE BeginEvaluate
    <2>1. UNCHANGED <<doc, clock, last, manual>> /\ snap'.schedules = doc.schedules /\ snap'.now = clock
      BY <1>1 DEF BeginEvaluate, Current
    <2> QED
      BY <1>a, <2>1 DEF ManualInv, ClaimNow, WindowPassed, Due, TooOld, Age
  <1>2. CASE Sleep
    <2>1. UNCHANGED <<doc, clock, last, manual>> /\ pc' # "evaluating"
      BY <1>2 DEF Sleep, AllEvaluated
    <2> QED
      BY <1>a, <2>1 DEF ManualInv, ClaimNow, WindowPassed
  <1>3. CASE TimerFires
    <2>1. UNCHANGED <<doc, clock, last, manual>> /\ pc' # "evaluating"
      BY <1>3 DEF TimerFires
    <2> QED
      BY <1>a, <2>1 DEF ManualInv, ClaimNow, WindowPassed
  <1>4. CASE TakeWake
    <2>1. UNCHANGED <<doc, clock, last, manual>> /\ pc' # "evaluating"
      BY <1>4 DEF TakeWake
    <2> QED
      BY <1>a, <2>1 DEF ManualInv, ClaimNow, WindowPassed
  <1>5. ASSUME NEW t \in Targets, Gap(t)
        PROVE  ManualInv'
    <2>1. /\ UNCHANGED <<doc, clock, pc, snap, manual>> /\ pc = "evaluating" /\ Due(t) = NoClaim
          /\ \A x \in Targets \ {t} : last'[x] = last[x]
      BY <1>a, <1>5 DEF Gap, AtTarget, TypeOK
    <2>2. t \notin manual
      BY <1>a, <2>1 DEF ManualInv
    <2>3. \A x \in manual : last'[x] = last[x]
      BY <1>a, <2>1, <2>2 DEF TypeOK
    <2> QED
      BY <1>a, <2>1, <2>3 DEF ManualInv, ClaimNow, WindowPassed, Due, TooOld, Age
  <1>6. ASSUME NEW t \in Targets, Idempotent(t)
        PROVE  ManualInv'
    <2>1. UNCHANGED <<doc, clock, pc, snap, last, manual>>
      BY <1>6 DEF Idempotent, AtTarget
    <2> QED
      BY <1>a, <2>1 DEF ManualInv, ClaimNow, WindowPassed, Due, TooOld, Age
  <1>7. ASSUME NEW t \in Targets, Seed(t)
        PROVE  ManualInv'
    <2>1. /\ UNCHANGED <<doc, clock, pc, snap, manual>> /\ pc = "evaluating" /\ Due(t) # NoClaim
          /\ \A x \in Targets \ {t} : last'[x] = last[x]
          /\ last'[t] = Signature(Due(t).action)
      BY <1>a, <1>7 DEF Seed, Pending, AtTarget, Remember, TypeOK
    <2>2. t \in manual => Signature(Due(t).action) = Signature(ClaimNow(t).action)
      BY <1>a, <2>1 DEF ManualInv
    <2>3. manual \subseteq Targets
      BY <1>a DEF TypeOK
    <2>4. \A x : Due(x)' = Due(x) /\ ClaimNow(x)' = ClaimNow(x)
      BY <2>1 DEF Due, ClaimNow
    <2>5. \A x : /\ WindowPassed(doc.schedules, x, clock)' = WindowPassed(doc.schedules, x, clock)
                 /\ TooOld(Due(x))' = TooOld(Due(x))
      BY <2>1, <2>4 DEF WindowPassed, TooOld, Age
    <2>6. ASSUME NEW x \in manual
          PROVE  last'[x] \in {NoSignature, Signature(ClaimNow(x).action)} /\ (last'[x] = NoSignature => last[x] = NoSignature)
      BY <1>a, <2>1, <2>2, <2>3, <2>6, SignatureIsSome DEF ManualInv
    <2> QED
      BY <1>a, <2>1, <2>4, <2>5, <2>6 DEF ManualInv
  <1>8. ASSUME NEW t \in Targets, Apply(t)
        PROVE  ManualInv'
    <2>1. /\ UNCHANGED <<doc, clock, pc, snap, manual>> /\ pc = "evaluating" /\ Due(t) # NoClaim
          /\ \A x \in Targets \ {t} : last'[x] = last[x]
          /\ last'[t] = Signature(Due(t).action)
      BY <1>a, <1>8 DEF Apply, Pending, AtTarget, Remember, TypeOK
    <2>2. t \in manual => Signature(Due(t).action) = Signature(ClaimNow(t).action)
      BY <1>a, <2>1 DEF ManualInv
    <2>3. manual \subseteq Targets
      BY <1>a DEF TypeOK
    <2>4. \A x : Due(x)' = Due(x) /\ ClaimNow(x)' = ClaimNow(x)
      BY <2>1 DEF Due, ClaimNow
    <2>5. \A x : /\ WindowPassed(doc.schedules, x, clock)' = WindowPassed(doc.schedules, x, clock)
                 /\ TooOld(Due(x))' = TooOld(Due(x))
      BY <2>1, <2>4 DEF WindowPassed, TooOld, Age
    <2>6. ASSUME NEW x \in manual
          PROVE  last'[x] \in {NoSignature, Signature(ClaimNow(x).action)} /\ (last'[x] = NoSignature => last[x] = NoSignature)
      BY <1>a, <2>1, <2>2, <2>3, <2>6, SignatureIsSome DEF ManualInv
    <2> QED
      BY <1>a, <2>1, <2>4, <2>5, <2>6 DEF ManualInv
  <1>9. ASSUME NEW t \in Targets, ApplyFails(t)
        PROVE  ManualInv'
    <2>1. UNCHANGED <<doc, clock, pc, snap, last, manual>>
      BY <1>9 DEF ApplyFails, Pending, AtTarget
    <2> QED
      BY <1>a, <2>1 DEF ManualInv, ClaimNow, WindowPassed, Due, TooOld, Age
  <1>10. ASSUME NEW e \in Editors, Load(e)
        PROVE  ManualInv'
    <2>1. UNCHANGED <<doc, clock, pc, snap, last, manual>>
      BY <1>10 DEF Load, engineVars
    <2> QED
      BY <1>a, <2>1 DEF ManualInv, ClaimNow, WindowPassed, Due, TooOld, Age
  <1>11. ASSUME NEW e \in Editors, Handle(e)
        PROVE  ManualInv'
    <2>1. UNCHANGED <<doc, clock, pc, snap, last, manual>>
      BY <1>11 DEF Handle, engineVars
    <2> QED
      BY <1>a, <2>1 DEF ManualInv, ClaimNow, WindowPassed, Due, TooOld, Age
  <1>12. ASSUME NEW e \in Editors, Replace(e)
        PROVE  ManualInv'
    <2>1. PICK s \in Documents : Install(s)
      BY <1>a, <1>12, EditInstalls
    <2> QED
      BY <1>a, <2>1, EditLeavesManual
  <1>13. ASSUME NEW e \in Editors, Reject(e)
        PROVE  ManualInv'
    <2>1. UNCHANGED <<doc, clock, pc, snap, last, manual>>
      BY <1>13 DEF Reject, engineVars
    <2> QED
      BY <1>a, <2>1 DEF ManualInv, ClaimNow, WindowPassed, Due, TooOld, Age
  <1>14. ASSUME NEW i \in DOMAIN doc.schedules, SetEnabled(i)
        PROVE  ManualInv'
    <2>1. PICK s \in Documents : Install(s)
      BY <1>a, <1>14, EditInstalls
    <2> QED
      BY <1>a, <2>1, EditLeavesManual
  <1>15. ASSUME NEW i \in DOMAIN doc.schedules, Delete(i)
        PROVE  ManualInv'
    <2>1. PICK s \in Documents : Install(s)
      BY <1>a, <1>15, EditInstalls
    <2> QED
      BY <1>a, <2>1, EditLeavesManual
  <1>16. CASE Poll
    <2>1. UNCHANGED <<doc, clock, pc, snap, last, manual>>
      BY <1>16 DEF Poll, WakeUp
    <2> QED
      BY <1>a, <2>1 DEF ManualInv, ClaimNow, WindowPassed, Due, TooOld, Age
  <1>17. CASE Tick
    <2>1. PICK next : next = (clock + 1) % WeekTicks
      OBVIOUS
    <2>2. /\ clock' = next /\ UNCHANGED <<doc, pc, snap, last>>
          /\ manual' = {x \in manual : Unaltered(doc.schedules, x, next)}
      BY <1>17, <2>1 DEF Tick
    <2>3. \A x \in manual' : /\ x \in manual /\ ClaimNow(x)' # NoClaim
                             /\ Signature(ClaimNow(x)'.action) = Signature(ClaimNow(x).action)
                             /\ last[x] = NoSignature => WindowPassed(doc.schedules, x, next)
      BY <2>2 DEF Unaltered, ClaimNow
    <2>4. \A x : Due(x)' = Due(x) /\ TooOld(Due(x))' = TooOld(Due(x))
      BY <2>2 DEF Due, TooOld, Age
    <2>5. \A x : WindowPassed(doc.schedules, x, clock)' = WindowPassed(doc.schedules, x, next)
      BY <2>2 DEF WindowPassed
    <2>6. ASSUME NEW x \in manual'
          PROVE  /\ ClaimNow(x)' # NoClaim
                 /\ last'[x] \in {NoSignature, Signature(ClaimNow(x)'.action)}
                 /\ last'[x] = NoSignature => WindowPassed(doc.schedules, x, clock)'
      BY <1>a, <2>2, <2>3, <2>5, <2>6 DEF ManualInv
    <2>7. ASSUME NEW x \in manual', pc' = "evaluating"
          PROVE  /\ Due(x)' # NoClaim /\ Signature(Due(x)'.action) = Signature(ClaimNow(x)'.action)
                 /\ last'[x] = NoSignature => TooOld(Due(x))'
      BY <1>a, <2>2, <2>3, <2>4, <2>7 DEF ManualInv
    <2> QED
      BY <2>6, <2>7 DEF ManualInv
  <1>18. CASE Crash
    <2>1. /\ UNCHANGED <<doc, clock>> /\ pc' = "awake" /\ \A x \in Targets : last'[x] = NoSignature
          /\ manual' = {x \in manual : WindowPassed(doc.schedules, x, clock)}
      BY <1>18 DEF Crash, Fresh
    <2> QED
      BY <1>a, <2>1 DEF ManualInv, ClaimNow, WindowPassed, TypeOK
  <1>19. ASSUME NEW t \in Targets, ManualChange(t)
        PROVE  ManualInv'
    <2>1. /\ UNCHANGED <<doc, clock, pc, snap, last>> /\ AtRest /\ manual' = manual \cup {t}
          /\ t \in TargetKeys(doc.schedules) \ failed /\ ClaimNow(t) # NoClaim
      BY <1>19 DEF ManualChange, engineVars, ClaimNow
    <2>2. last[t] = Signature(ClaimNow(t).action) /\ last[t] # NoSignature
      BY <1>a, <2>1, SignatureIsSome DEF SettledMatchesDocument, ClaimNow
    <2>3. pc = "asleep"
      BY <2>1 DEF AtRest
    <2> QED
      BY <1>a, <2>1, <2>2, <2>3 DEF ManualInv, ClaimNow, WindowPassed
  <1>20. CASE UNCHANGED vars
    BY <1>a, <1>20 DEF vars, engineVars, ManualInv, ClaimNow, WindowPassed, Due, TooOld, Age
  <1> QED
    BY <1>1, <1>2, <1>3, <1>4, <1>5, <1>6, <1>7, <1>8, <1>9, <1>10, <1>11, <1>12, <1>13, <1>14,
       <1>15, <1>16, <1>17, <1>18, <1>19, <1>20
       DEF Next, EngineStep, EvaluateTarget, Edit

----------------------------------------------------------------------------
(* The theorems.                                                             *)

\* The inductive invariant of the engine and its editors.
THEOREM EngineInvariant == Spec => []IInv
  <1>1. Init => IInv
    BY InitIInv
  <1>2. IInv /\ [Next]_vars => IInv'
    <2> SUFFICES ASSUME IInv, [Next]_vars
                 PROVE  IInv'
      OBVIOUS
    <2>1. TypeOK' /\ ShapeInv'
      BY TypeStep
    <2>2. EditInv'
      BY EditStep
    <2>3. SnapInv'
      BY SnapStep
    <2>4. DoneInv'
      BY DoneStep
    <2>5. TimerCoversNextSwitch'
      BY TimerStep
    <2>6. SettledMatchesDocument'
      BY SettledStep
    <2>7. ManualInv'
      BY ManualStep
    <2> QED
      BY <2>1, <2>2, <2>3, <2>4, <2>5, <2>6, <2>7 DEF IInv
  <1> QED
    BY <1>1, <1>2, PTL DEF Spec

\* engine.go: revisions, clock, timer and signatures keep their types.
THEOREM EngineTypeCorrect == Spec => []TypeOK
  <1>1. IInv => TypeOK
    BY DEF IInv
  <1> QED
    BY <1>1, EngineInvariant, PTL

\* engine.go untilNext: a sleeping engine nobody has woken never sleeps past the next
\* switch point of the document in force, whatever was edited while it evaluated.
THEOREM EngineNeverOversleeps == Spec => []TimerCoversNextSwitch
  <1>1. IInv => TimerCoversNextSwitch
    BY DEF IInv
  <1> QED
    BY <1>1, EngineInvariant, PTL

\* engine.go Evaluate: at rest the engine has on record, for every target whose last
\* application did not fail, what the document in force says now.
THEOREM RestsOnTheDocument == Spec => []SettledMatchesDocument
  <1>1. IInv => SettledMatchesDocument
    BY DEF IInv
  <1> QED
    BY <1>1, EngineInvariant, PTL

\* What an editor puts into a document leaves the other schedules as they were.
LEMMA PutSparesOthers ==
    ASSUME NEW s \in Documents, NEW p
    PROVE  {x \in ToSet(Put(s, p)) : x.id # p.id} = {x \in ToSet(s) : x.id # p.id}
  <1>1. s \in Seq(Schedules)
    BY DocumentIsSequence
  <1>2. CASE \E i \in DOMAIN s : s[i].id = p.id
    BY <1>2 DEF Put, ToSet
  <1>3. CASE ~ \E i \in DOMAIN s : s[i].id = p.id
    <2>1. Put(s, p) = Append(s, p)
      BY <1>3 DEF Put
    <2>2. /\ DOMAIN Append(s, p) = 1..(Len(s) + 1) /\ DOMAIN s = 1..Len(s) /\ Len(s) \in Nat
          /\ Append(s, p)[Len(s) + 1] = p
          /\ \A i \in 1..Len(s) : Append(s, p)[i] = s[i]
      BY <1>1
    <2> QED
      BY <2>1, <2>2 DEF ToSet
  <1> QED
    BY <1>2, <1>3

\* Only a replacement changes the document and ends the handling of an edit.
LEMMA OnlyReplaceEndsAnEdit ==
    ASSUME IInv, [Next]_vars, NEW e \in Editors, editor[e].at = "handling", editor'[e] = NoEdit, doc' # doc
    PROVE  Replace(e)
  <1>1. editor \in [Editors -> [at : {"idle", "loaded", "handling"}, rev : 0..MaxRev, base : Documents]]
    BY DEF IInv, ShapeInv
  <1>2. editor' # editor
    BY DEF NoEdit
  <1>3. ~Crash /\ ~EngineStep /\ ~Poll /\ ~Tick /\ ~(\E t \in Targets : ManualChange(t)) /\ ~(UNCHANGED vars)
    BY <1>2 DEF Crash, EngineStep, BeginEvaluate, Sleep, TimerFires, TakeWake, EvaluateTarget, Gap, Idempotent,
       Seed, Apply, ApplyFails, Pending, AtTarget, Poll, Tick, ManualChange, vars
  <1>4. \A i \in DOMAIN doc.schedules : ~(SetEnabled(i) \/ Delete(i))
    BY <1>2 DEF SetEnabled, Delete
  <1>5. PICK d \in Editors : Load(d) \/ Handle(d) \/ Replace(d) \/ Reject(d)
    BY <1>3, <1>4 DEF Next, Edit
  <1>6. Replace(d)
    BY <1>5 DEF Load, Handle, Reject
  <1>7. d = e
    BY <1>1, <1>6 DEF Replace, NoEdit
  <1> QED
    BY <1>6, <1>7

\* schedules.go, Store.Replace: an editor that sends the revision it loaded changes one
\* schedule and keeps every other, whoever saves while its request is handled.
THEOREM CarefulEditsKeepOthers == Spec => CarefulEditKeepsOthers
  <1>1. IInv /\ [Next]_vars =>
          [\A e \in Careful :
             editor[e].at = "handling" /\ editor'[e] = NoEdit /\ doc' # doc =>
               \E p \in Programmes :
                 LET others(schedules) == {s \in ToSet(schedules) : s.id # p.id}
                 IN others(doc.schedules) = others(doc'.schedules)]_vars
    <2> SUFFICES ASSUME IInv, [Next]_vars, NEW e \in Careful,
                        editor[e].at = "handling", editor'[e] = NoEdit, doc' # doc
                 PROVE  \E p \in Programmes :
                          {s \in ToSet(doc.schedules) : s.id # p.id} = {s \in ToSet(doc'.schedules) : s.id # p.id}
      OBVIOUS
    <2>1. Replace(e) /\ e \in Editors
      BY OnlyReplaceEndsAnEdit, EngineConstants
    <2>2. PICK p \in Programmes : Install(Put(editor[e].base, p))
      BY <2>1 DEF Replace
    <2>3. doc'.schedules = Put(editor[e].base, p)
      BY <2>2 DEF Install
    <2>4. editor[e].base = doc.schedules
      BY <2>1 DEF Replace, RevisionOk, IInv, EditInv
    <2>5. doc.schedules \in Documents
      BY DEF IInv, ShapeInv
    <2> QED
      BY <2>3, <2>4, <2>5, PutSparesOthers
  <1> QED
    BY <1>1, EngineInvariant, PTL DEF Spec, CarefulEditKeepsOthers

\* engine.go evaluateTarget: a target changed by hand is not written to for as long as the
\* schedules ask the same of it, whatever else is edited and whenever the edit lands; a
\* restart counts only outside the catch-up window.
THEOREM ManualChangesSurvive == Spec => ManualChangeSurvives
  <1>1. IInv /\ [Next]_vars => [\A t \in manual : ~Apply(t)]_vars
    <2> SUFFICES ASSUME IInv, NEW t \in manual, Apply(t)
                 PROVE  FALSE
      OBVIOUS
    <2>1. ShapeInv /\ ManualInv
      BY DEF IInv
    <2>2. pc = "evaluating" /\ last[t] # Signature(Due(t).action) /\ ~TooOld(Due(t))
      BY DEF Apply, Pending, AtTarget, InEffect
    <2>3. last[t] = NoSignature
      BY <2>1, <2>2 DEF ManualInv
    <2> QED
      BY <2>1, <2>2, <2>3 DEF ManualInv
  <1> QED
    BY <1>1, EngineInvariant, PTL DEF Spec, ManualChangeSurvives

----------------------------------------------------------------------------
(* The resolver and its switch points, for every week: documents of any     *)
(* length, over a week of any number of slots.                              *)

\* A document as ring.go reads it: priorities and starts are numbers, and the
\* nil claim is none of its claims.
Readable(s, slot) ==
    /\ IsSequence(s)
    /\ \A i \in DOMAIN s :
          /\ s[i].priority \in Int /\ IsSequence(s[i].blocks)
          /\ \A j \in DOMAIN s[i].blocks :
                /\ s[i].blocks[j].start \in Int /\ s[i].blocks[j].days \subseteq Int
                /\ ClaimOn(s[i], s[i].blocks[j], slot) # NoClaim

\* Block j of schedule i claims the slot for the target, with what it claims.
Claims(s, target, slot, i, j) == InForce(s[i], target) /\ Reaches(s[i].blocks[j], slot) # {}
Claim(s, slot, i, j) == ClaimOn(s[i], s[i].blocks[j], slot)

\* Priority, then recency, then the order of the document.
Outranks(s, slot, i, j, k, l) ==
    LET mine == Claim(s, slot, i, j)
        other == Claim(s, slot, k, l)
    IN \/ mine.priority > other.priority
       \/ mine.priority = other.priority /\ mine.age < other.age
       \/ /\ mine.priority = other.priority /\ mine.age = other.age
          /\ i < k \/ (i = k /\ j < l)

\* The first m schedules, and the first n blocks of the next one, come before.
Before(k, l, m, n) == k <= m \/ (k = m + 1 /\ l <= n)

\* The claim so far is the best of the claims before.
BestSoFar(s, target, slot, m, n, claim) ==
    \/ /\ claim = NoClaim
       /\ \A k \in DOMAIN s : \A l \in DOMAIN s[k].blocks :
             Before(k, l, m, n) => ~Claims(s, target, slot, k, l)
    \/ \E i \in DOMAIN s : \E j \in DOMAIN s[i].blocks :
          /\ Claims(s, target, slot, i, j) /\ Before(i, j, m, n) /\ claim = Claim(s, slot, i, j)
          /\ \A k \in DOMAIN s : \A l \in DOMAIN s[k].blocks :
                Before(k, l, m, n) /\ Claims(s, target, slot, k, l) /\ (k # i \/ l # j)
                    => Outranks(s, slot, i, j, k, l)

\* What ranks a claim are integers.
LEMMA RankIsNumber ==
    ASSUME NEW slot \in Slots, NEW s, Readable(s, slot), NEW target,
           NEW i \in DOMAIN s, NEW j \in DOMAIN s[i].blocks, Claims(s, target, slot, i, j)
    PROVE  Claim(s, slot, i, j).priority \in Int /\ Claim(s, slot, i, j).age \in Int
  <1> DEFINE block == s[i].blocks[j]
             day == CHOOSE d \in Reaches(block, slot) : TRUE
             first == FirstSlot(block, day)
  <1>1. day \in block.days
    <2>1. Reaches(block, slot) # {}
      BY DEF Claims
    <2>2. day \in Reaches(block, slot)
      BY <2>1
    <2> QED
      BY <2>2 DEF Reaches
  <1>2. day \in Int /\ block.start \in Int
    BY <1>1 DEF Readable
  <1>3. SlotsPerDay \in Int
    BY RingSize
  <1> HIDE DEF day, block
  <1>4. first \in Int
    BY <1>2, <1>3 DEF FirstSlot
  <1> HIDE DEF first
  <1>5. Distance(first, slot) \in Int
    BY <1>4, Ring DEF Distance, Slots
  <1>6. /\ Claim(s, slot, i, j).priority = s[i].priority
        /\ Claim(s, slot, i, j).age = Distance(first, slot)
    BY DEF Claim, ClaimOn, first, day, block
  <1> QED
    BY <1>5, <1>6 DEF Readable

\* The next block leaves the best claim so far, or becomes it.
LEMMA StakeBlockKeepsBest ==
    ASSUME NEW slot \in Slots, NEW s, Readable(s, slot), NEW target, NEW claim,
           NEW m \in Nat, NEW n \in Nat, m + 1 \in DOMAIN s, n + 1 \in DOMAIN s[m + 1].blocks,
           InForce(s[m + 1], target), BestSoFar(s, target, slot, m, n, claim)
    PROVE  BestSoFar(s, target, slot, m, n + 1,
                     StakeBlock(s[m + 1], slot, claim, s[m + 1].blocks[n + 1]))
  <1> DEFINE i == m + 1
             j == n + 1
             cand == Claim(s, slot, i, j)
             next == StakeBlock(s[i], slot, claim, s[i].blocks[j])
             C(k, l) == Claims(s, target, slot, k, l)
  <1>1. \A k \in DOMAIN s : \A l \in DOMAIN s[k].blocks :
          k \in Int /\ l \in Int
    BY DEF Readable, IsSequence
  <1>2. \A k \in DOMAIN s : \A l \in DOMAIN s[k].blocks :
          Before(k, l, m, j) <=> Before(k, l, m, n) \/ (k = i /\ l = j)
    BY <1>1 DEF Before
  <1>3. CASE ~C(i, j)
    <2>1. next = claim
      BY <1>3 DEF Claims, StakeBlock
    <2> HIDE DEF next, C, i, j
    <2> QED
      BY <1>2, <1>3, <2>1 DEF BestSoFar, C, next, i, j
  <1>4. CASE C(i, j)
    <2>1. next = IF Beats(cand, claim) THEN cand ELSE claim
      BY <1>4 DEF Claims, StakeBlock, Claim
    <2>2. \A k \in DOMAIN s : \A l \in DOMAIN s[k].blocks :
             C(k, l) => Claim(s, slot, k, l).priority \in Int /\ Claim(s, slot, k, l).age \in Int
      BY RankIsNumber
    <2>3. \A k \in DOMAIN s : \A l \in DOMAIN s[k].blocks :
             Before(k, l, m, n) => (k < i \/ (k = i /\ l < j)) /\ (k # i \/ l # j)
      BY <1>1 DEF Before
    <2>4. \A k \in DOMAIN s : \A l \in DOMAIN s[k].blocks : Claim(s, slot, k, l) # NoClaim
      BY DEF Readable, Claim
    <2>a. i \in DOMAIN s /\ j \in DOMAIN s[i].blocks
      OBVIOUS
    <2> DEFINE R(k, l, p, q) == Outranks(s, slot, k, l, p, q)
    <2>5. CASE claim = NoClaim
      <3>1. \A k \in DOMAIN s : \A l \in DOMAIN s[k].blocks : Before(k, l, m, n) => ~C(k, l)
        BY <2>4, <2>5 DEF BestSoFar
      <3>2. next = cand
        BY <2>1, <2>5 DEF Beats
      <3> HIDE DEF next, C, i, j, cand
      <3>3. Before(i, j, m, j)
        BY <1>2, <2>a
      <3> QED
        BY <1>2, <1>4, <2>a, <3>1, <3>2, <3>3 DEF BestSoFar, C, next, cand, i, j
    <2>6. CASE claim # NoClaim
      <3>0. PICK k \in DOMAIN s : \E l \in DOMAIN s[k].blocks :
              /\ C(k, l) /\ Before(k, l, m, n) /\ claim = Claim(s, slot, k, l)
              /\ \A p \in DOMAIN s : \A q \in DOMAIN s[p].blocks :
                    Before(p, q, m, n) /\ C(p, q) /\ (p # k \/ q # l) => R(k, l, p, q)
        BY <2>6 DEF BestSoFar
      <3>1. PICK l \in DOMAIN s[k].blocks :
              /\ C(k, l) /\ Before(k, l, m, n) /\ claim = Claim(s, slot, k, l)
              /\ \A p \in DOMAIN s : \A q \in DOMAIN s[p].blocks :
                    Before(p, q, m, n) /\ C(p, q) /\ (p # k \/ q # l) => R(k, l, p, q)
        BY <3>0
      <3>2. /\ cand.priority \in Int /\ cand.age \in Int
            /\ claim.priority \in Int /\ claim.age \in Int
        BY <1>4, <2>2, <2>a, <3>1
      <3>3. CASE Beats(cand, claim)
        <4>1. \/ cand.priority > claim.priority
              \/ cand.priority = claim.priority /\ cand.age < claim.age
          BY <2>6, <3>3 DEF Beats
        <4>2. ASSUME NEW p \in DOMAIN s, NEW q \in DOMAIN s[p].blocks, Before(p, q, m, n), C(p, q)
              PROVE  R(i, j, p, q)
          <5> DEFINE other == Claim(s, slot, p, q)
          <5>1. other = claim \/ \/ claim.priority > other.priority
                                 \/ claim.priority = other.priority /\ claim.age <= other.age
            <6>1. CASE p = k /\ q = l
              BY <3>1, <6>1
            <6>2. CASE p # k \/ q # l
              <7>1. R(k, l, p, q)
                BY <3>1, <4>2, <6>2
              <7>2. claim.age \in Int /\ other.age \in Int
                BY <2>2, <3>2, <4>2
              <7> QED
                BY <3>1, <7>1, <7>2 DEF Outranks
            <6> QED
              BY <6>1, <6>2
          <5>2. other.priority \in Int /\ other.age \in Int
            BY <2>2, <4>2
          <5> HIDE DEF other, cand
          <5>3. \/ cand.priority > other.priority
                \/ cand.priority = other.priority /\ cand.age < other.age
            BY <3>2, <4>1, <5>1, <5>2
          <5> QED
            BY <5>3 DEF Outranks, other, cand
        <4>3. next = cand
          BY <2>1, <3>3
        <4> HIDE DEF next, C, i, j, cand, R
        <4>4. Before(i, j, m, j)
          BY <1>2, <2>a
        <4>5. \A p \in DOMAIN s : \A q \in DOMAIN s[p].blocks :
                 Before(p, q, m, j) /\ C(p, q) /\ (p # i \/ q # j) => R(i, j, p, q)
          BY <1>2, <4>2
        <4>6. BestSoFar(s, target, slot, m, j, cand)
          BY <1>4, <2>a, <4>4, <4>5 DEF BestSoFar, C, cand, R
        <4> QED
          BY <4>3, <4>6 DEF next, i, j
      <3>4. CASE ~Beats(cand, claim)
        <4>1. R(k, l, i, j)
          <5>1. \/ claim.priority > cand.priority
                \/ claim.priority = cand.priority /\ claim.age <= cand.age
            BY <3>2, <3>4 DEF Beats
          <5>2. k < i \/ (k = i /\ l < j)
            BY <2>3, <3>1
          <5> HIDE DEF cand, i, j
          <5> QED
            BY <3>1, <3>2, <5>1, <5>2 DEF Outranks, cand
        <4>2. next = claim
          BY <2>1, <3>4
        <4> HIDE DEF next, C, i, j, cand, R
        <4>3. Before(k, l, m, j)
          BY <1>2, <3>1
        <4>4. \A p \in DOMAIN s : \A q \in DOMAIN s[p].blocks :
                 Before(p, q, m, j) /\ C(p, q) /\ (p # k \/ q # l) => R(k, l, p, q)
          BY <1>2, <3>1, <4>1
        <4>5. BestSoFar(s, target, slot, m, j, claim)
          BY <3>1, <4>3, <4>4 DEF BestSoFar, C, R
        <4> QED
          BY <4>2, <4>5 DEF next, i, j
      <3> QED
        BY <3>3, <3>4
    <2> QED
      BY <2>5, <2>6
  <1> QED
    BY <1>3, <1>4

\* The next schedule leaves the best claim of all so far.
LEMMA StakeScheduleKeepsBest ==
    ASSUME NEW slot \in Slots, NEW s, Readable(s, slot), NEW target, NEW claim,
           NEW m \in Nat, m + 1 \in DOMAIN s, BestSoFar(s, target, slot, m, 0, claim)
    PROVE  BestSoFar(s, target, slot, m + 1, 0, StakeSchedule(target, slot, claim, s[m + 1]))
  <1> DEFINE i == m + 1
             n == Len(s[i].blocks)
             Best(j, v) == BestSoFar(s, target, slot, m, j, v)
  <1>1. i \in DOMAIN s /\ IsSequence(s[i].blocks) /\ n \in Nat /\ DOMAIN s[i].blocks = 1..n
    BY DEF Readable, IsSequence
  <1>2. \A k \in DOMAIN s : \A l \in DOMAIN s[k].blocks : k \in Nat /\ l \in Nat /\ l # 0 /\ (k = i => l <= n)
    BY <1>1 DEF Readable, IsSequence
  <1>3. \A k \in DOMAIN s : \A l \in DOMAIN s[k].blocks :
          /\ Before(k, l, i, 0) <=> Before(k, l, m, n)
          /\ Before(k, l, i, 0) <=> Before(k, l, m, 0) \/ k = i
    BY <1>1, <1>2 DEF Before
  <1>4. CASE ~InForce(s[i], target)
    <2>1. StakeSchedule(target, slot, claim, s[i]) = claim
      BY <1>4 DEF StakeSchedule
    <2>2. \A l : ~Claims(s, target, slot, i, l)
      BY <1>4 DEF Claims
    <2> HIDE DEF i
    <2>3. BestSoFar(s, target, slot, i, 0, claim)
      BY <1>3, <2>2 DEF BestSoFar
    <2> QED
      BY <2>1, <2>3 DEF i
  <1>5. CASE InForce(s[i], target)
    <2>1. PICK a : Stakes(a, s[i], target, slot, claim)
      BY <1>1, <1>5, StakeScheduleSteps, Zenon
    <2> DEFINE P == {j \in Nat : j <= n => Best(j, a[j])}
    <2>2. 0 \in P
      BY <2>1 DEF Stakes
    <2>3. ASSUME NEW j \in Nat, j \in P PROVE j + 1 \in P
      <3> SUFFICES ASSUME j + 1 <= n PROVE Best(j + 1, a[j + 1])
        OBVIOUS
      <3>1. j + 1 \in 1..n /\ (j + 1) - 1 = j /\ Best(j, a[j])
        BY <1>1, <2>3
      <3>2. a[j + 1] = StakeBlock(s[i], slot, a[j], s[i].blocks[j + 1])
        BY <2>1, <3>1 DEF Stakes
      <3> QED
        BY <1>1, <1>5, <3>1, <3>2, StakeBlockKeepsBest
    <2> HIDE DEF P
    <2>4. n \in P
      BY <1>1, <2>2, <2>3, SetInduction
    <2>5. Best(n, StakeSchedule(target, slot, claim, s[i]))
      BY <1>1, <2>1, <2>4 DEF P, Stakes
    <2> HIDE DEF i, n
    <2>6. BestSoFar(s, target, slot, i, 0, StakeSchedule(target, slot, claim, s[i]))
      BY <1>3, <2>5 DEF BestSoFar
    <2> QED
      BY <2>6 DEF i
  <1> QED
    BY <1>4, <1>5

\* Every slot is won by the claim that outranks all others on it, and only a slot
\* nobody claims is a gap: the order in which the blocks stake their claims leaves no
\* trace but in a full tie, and where a block wraps midnight or the week's end makes
\* no difference.  (ring.go Resolve, claimBlock, beats)
THEOREM WinnerIsBest ==
    ASSUME NEW slot \in Slots, NEW s, Readable(s, slot), NEW target
    PROVE  LET won == Winner(s, target, slot) IN
           \/ /\ won = NoClaim
              /\ \A k \in DOMAIN s : \A l \in DOMAIN s[k].blocks : ~Claims(s, target, slot, k, l)
           \/ \E i \in DOMAIN s : \E j \in DOMAIN s[i].blocks :
                 /\ Claims(s, target, slot, i, j) /\ won = Claim(s, slot, i, j)
                 /\ \A k \in DOMAIN s : \A l \in DOMAIN s[k].blocks :
                       Claims(s, target, slot, k, l) /\ (k # i \/ l # j)
                           => Outranks(s, slot, i, j, k, l)
  <1> DEFINE n == Len(s)
             Best(i, v) == BestSoFar(s, target, slot, i, 0, v)
  <1>1. IsSequence(s) /\ DOMAIN s = 1..n /\ n \in Nat /\ \A i \in DOMAIN s : IsSequence(s[i].blocks)
    BY DEF Readable, IsSequence
  <1>2. PICK a : Contest(a, s, target, slot)
    BY <1>1, WinnerSteps, Zenon
  <1> DEFINE P == {i \in Nat : i <= n => Best(i, a[i])}
  <1>3. 0 \in P
    <2>1. \A k \in DOMAIN s : \A l \in DOMAIN s[k].blocks : ~Before(k, l, 0, 0)
      BY <1>1 DEF Before, Readable, IsSequence
    <2> QED
      BY <1>2, <2>1 DEF Contest, BestSoFar
  <1>4. ASSUME NEW i \in Nat, i \in P PROVE i + 1 \in P
    <2> SUFFICES ASSUME i + 1 <= n PROVE Best(i + 1, a[i + 1])
      OBVIOUS
    <2>1. i + 1 \in 1..n /\ (i + 1) - 1 = i /\ Best(i, a[i])
      BY <1>1, <1>4
    <2>2. a[i + 1] = StakeSchedule(target, slot, a[i], s[i + 1])
      BY <1>2, <2>1 DEF Contest
    <2> QED
      BY <1>1, <2>1, <2>2, StakeScheduleKeepsBest
  <1> HIDE DEF P
  <1>5. n \in P
    BY <1>1, <1>3, <1>4, SetInduction
  <1>6. Best(n, Winner(s, target, slot))
    BY <1>1, <1>2, <1>5 DEF P, Contest
  <1>7. \A k \in DOMAIN s : \A l : Before(k, l, n, 0)
    BY <1>1 DEF Before
  <1> QED
    BY <1>6, <1>7 DEF BestSoFar

\* Sleeping from one NextChange to the next visits every slot at which the winner
\* differs from the one before it, around the end of the week too, and stops nowhere
\* else.  (ring.go NextChange)
THEOREM SwitchPointsAreVisited ==
    ASSUME NEW week
    PROVE  {Ahead(s, NextChange(week, s)) : s \in {f \in Slots : NextChange(week, f) # 0}}
             = {s \in Slots : Key(week[s]) # Key(week[(s - 1) % SlotsPerWeek])}
  <1> DEFINE N == SlotsPerWeek
             wakes == {Ahead(s, NextChange(week, s)) : s \in {f \in Slots : NextChange(week, f) # 0}}
             switches == {s \in Slots : Key(week[s]) # Key(week[(s - 1) % N])}
             nc(s) == NextChange(week, s)
  <1>1. N \in Nat \ {0} /\ Slots = 0..(N - 1)
    BY Ring DEF Slots
  <1>2. \A s \in Slots, n \in 0..N :
          Ahead(s, n) = (IF s + n < N THEN s + n ELSE s + n - N) /\ Ahead(s, n) \in Slots
    BY Ring
  <1>3. \A s \in Slots : (s - 1) % N = (IF s = 0 THEN N - 1 ELSE s - 1) /\ (s - 1) % N \in Slots
    BY <1>1
  <1>4. ASSUME NEW f \in Slots, nc(f) # 0
        PROVE  Ahead(f, nc(f)) \in switches
    <2>1. /\ nc(f) \in 1..N /\ Key(week[Ahead(f, nc(f))]) # Key(week[f])
          /\ \A n \in 1..(nc(f) - 1) : Key(week[Ahead(f, n)]) = Key(week[f])
      BY <1>4, NextChangeIs
    <2> HIDE DEF nc
    <2>2. Ahead(f, 0) = f
      BY <1>1, <1>2
    <2>3. nc(f) - 1 \in 0..N /\ (nc(f) = 1 \/ nc(f) - 1 \in 1..(nc(f) - 1))
      BY <1>1, <2>1
    <2>4. Key(week[Ahead(f, nc(f) - 1)]) = Key(week[f])
      BY <2>1, <2>2, <2>3
    <2>5. (Ahead(f, nc(f)) - 1) % N = Ahead(f, nc(f) - 1)
      <3>1. PICK n \in 1..N : n = nc(f)
        BY <2>1
      <3>2. /\ Ahead(f, n) = (IF f + n < N THEN f + n ELSE f + n - N) /\ Ahead(f, n) \in Slots
            /\ Ahead(f, n - 1) = (IF f + n - 1 < N THEN f + n - 1 ELSE f + n - 1 - N)
        <4>1. n \in 0..N /\ n - 1 \in 0..N
          BY <1>1
        <4> HIDE DEF N
        <4>2. f + (n - 1) = f + n - 1
          BY <1>1, <4>1
        <4> QED
          BY <1>2, <4>1, <4>2
      <3>3. f \in 0..(N - 1)
        BY <1>1
      <3>4. (Ahead(f, n) - 1) % N = IF Ahead(f, n) = 0 THEN N - 1 ELSE Ahead(f, n) - 1
        BY <1>3, <3>2
      <3> HIDE DEF N
      <3>5. (Ahead(f, n) - 1) % N = Ahead(f, n - 1)
        BY <1>1, <3>2, <3>3, <3>4
      <3> QED
        BY <3>1, <3>5
    <2> QED
      BY <1>2, <2>1, <2>4, <2>5
  <1>5. ASSUME NEW s \in switches
        PROVE  s \in wakes
    <2> DEFINE f == (s - 1) % N
    <2>1. f \in Slots /\ Ahead(f, 1) = s
      <3>1. s \in 0..(N - 1) /\ f = (IF s = 0 THEN N - 1 ELSE s - 1) /\ f \in Slots
        BY <1>1, <1>3
      <3>2. 1 \in 0..N
        BY <1>1
      <3> HIDE DEF f, N
      <3>3. Ahead(f, 1) = (IF f + 1 < N THEN f + 1 ELSE f + 1 - N)
        BY <1>2, <3>1, <3>2
      <3> QED
        BY <1>1, <3>1, <3>3
    <2>2. Key(week[Ahead(f, 1)]) # Key(week[f])
      BY <2>1
    <2> HIDE DEF f
    <2>3. nc(f) = 1
      <3>1. 1 \in 1..N
        BY <1>1
      <3>2. ~(nc(f) \in 1..N /\ 1 \in 1..(nc(f) - 1)) => nc(f) = 1 \/ nc(f) = 0 \/ nc(f) \notin 1..N
        BY <1>1
      <3> QED
        BY <2>1, <2>2, <3>1, <3>2, NextChangeIs
    <2> QED
      BY <2>1, <2>3
  <1> QED
    BY <1>4, <1>5

----------------------------------------------------------------------------
(* The stored document.                                                    *)

\* Optional fields are pointers, and decoding yields a value of the field's type.
Optional(values) == {<<>>} \cup {<<v>> : v \in values}

Actions ==
    [ power : STRING, mode : STRING, setpoint : Optional(Int),
      silent : Optional(BOOLEAN), econo : Optional(BOOLEAN), demand : Optional(Int) ]

\* What json.Unmarshal makes of a request or of the file: before it is validated
\* nothing is known of it but its fields and their types.
DecodedBlock(block) ==
    /\ DOMAIN block = {"id", "days", "start", "end", "action"}
    /\ block.days \in Seq(Int) /\ block.action \in Actions
    /\ block.start \in Int \cup {Malformed} /\ block.end \in Int \cup {Malformed}

DecodedSchedule(schedule) ==
    /\ DOMAIN schedule = {"id", "name", "type", "enabled", "priority", "targets", "blocks"}
    /\ schedule.enabled \in BOOLEAN /\ schedule.priority \in Int
    /\ schedule.blocks \in Seq(ToSet(schedule.blocks))
    /\ \A block \in ToSet(schedule.blocks) : DecodedBlock(block)

Decoded(schedules) ==
    /\ schedules \in Seq(ToSet(schedules))
    /\ \A schedule \in ToSet(schedules) : DecodedSchedule(schedule)

\* Among the requests is one that writes v to the item.
Asks(requests, item, v) == \E n \in DOMAIN requests : requests[n] = <<item, v>>

\* A write request is there exactly if the field is, and carries its value.
LEMMA SetsOne ==
    ASSUME NEW item, NEW values, NEW optional \in Optional(values)
    PROVE  \/ optional = <<>> /\ Sets(item, optional) = <<>>
           \/ \E w \in values : optional = <<w>> /\ Sets(item, optional) = << <<item, w>> >>
  BY DEF Optional, Sets

\* The requests are a sequence.
LEMMA SetsSequence ==
    ASSUME NEW item, NEW values, NEW optional \in Optional(values)
    PROVE  Sets(item, optional) \in Seq({item} \X values)
  <1>1. CASE Sets(item, optional) = <<>>
    BY <1>1
  <1>2. ASSUME NEW w \in values, Sets(item, optional) = << <<item, w>> >>
        PROVE  Sets(item, optional) \in Seq({item} \X values)
    BY <1>2
  <1> QED
    BY <1>1, <1>2, SetsOne

\* They ask for the value of the field, for this item.
LEMMA SetsAsks ==
    ASSUME NEW item, NEW values, NEW optional \in Optional(values), NEW other, NEW v
    PROVE  Asks(Sets(item, optional), other, v) <=> other = item /\ optional = <<v>>
  <1>1. CASE optional = <<>> /\ Sets(item, optional) = <<>>
    <2>1. optional # <<v>>
      BY <1>1
    <2>2. ~Asks(<<>>, other, v)
      BY DEF Asks
    <2> QED
      BY <1>1, <2>1, <2>2
  <1>2. ASSUME NEW w \in values, optional = <<w>>, Sets(item, optional) = << <<item, w>> >>
        PROVE  Asks(Sets(item, optional), other, v) <=> other = item /\ optional = <<v>>
    <2>1. Asks(<< <<item, w>> >>, other, v) <=> other = item /\ w = v
      BY DEF Asks
    <2>2. optional = <<v>> <=> w = v
      BY <1>2
    <2> QED
      BY <1>2, <2>1, <2>2
  <1> QED
    BY <1>1, <1>2, SetsOne

\* Requests that follow others leave them what they are.
LEMMA ConcatAsks ==
    ASSUME NEW S, NEW s \in Seq(S), NEW t \in Seq(S), NEW item, NEW v
    PROVE  Asks(s \o t, item, v) <=> Asks(s, item, v) \/ Asks(t, item, v)
  <1>1. /\ Len(s) \in Nat /\ DOMAIN s = 1..Len(s) /\ Len(t) \in Nat /\ DOMAIN t = 1..Len(t)
        /\ DOMAIN (s \o t) = 1..(Len(s) + Len(t))
        /\ \A n \in 1..(Len(s) + Len(t)) : (s \o t)[n] = IF n <= Len(s) THEN s[n] ELSE t[n - Len(s)]
    BY ConcatProperties, LenProperties
  <1>2. ASSUME NEW n \in DOMAIN (s \o t), (s \o t)[n] = <<item, v>>
        PROVE  Asks(s, item, v) \/ Asks(t, item, v)
    <2>1. CASE n <= Len(s)
      BY <1>1, <1>2, <2>1 DEF Asks
    <2>2. CASE ~(n <= Len(s))
      <3>1. n - Len(s) \in DOMAIN t /\ t[n - Len(s)] = <<item, v>>
        BY <1>1, <1>2, <2>2
      <3> QED
        BY <3>1 DEF Asks
    <2> QED
      BY <2>1, <2>2
  <1>3. ASSUME NEW n \in DOMAIN s, s[n] = <<item, v>>
        PROVE  Asks(s \o t, item, v)
    <2>1. n \in DOMAIN (s \o t) /\ (s \o t)[n] = s[n]
      BY <1>1
    <2> QED
      BY <1>3, <2>1 DEF Asks
  <1>4. ASSUME NEW n \in DOMAIN t, t[n] = <<item, v>>
        PROVE  Asks(s \o t, item, v)
    <2>1. Len(s) + n \in DOMAIN (s \o t) /\ (s \o t)[Len(s) + n] = t[n]
      BY <1>1
    <2> QED
      BY <1>4, <2>1 DEF Asks
  <1> QED
    BY <1>2, <1>3, <1>4 DEF Asks

\* What an action that is no indoor action asks for.
LEMMA OutdoorAsks ==
    ASSUME NEW a \in Actions, NEW v
    PROVE  LET requests == Writes("outdoor", a) IN
           /\ Asks(requests, "outdoor_silent", v) <=> a.silent = <<v>>
           /\ Asks(requests, "econo_mode", v) <=> a.econo = <<v>>
           /\ Asks(requests, "demand_control", v) <=> a.demand = <<v>>
  <1> DEFINE V == {"outdoor_silent", "econo_mode", "demand_control"} \X (BOOLEAN \cup Int)
             silent == Sets("outdoor_silent", a.silent)
             econo == Sets("econo_mode", a.econo)
             demand == Sets("demand_control", a.demand)
  <1>1. a.silent \in Optional(BOOLEAN) /\ a.econo \in Optional(BOOLEAN) /\ a.demand \in Optional(Int)
    BY DEF Actions
  <1>2. \A item : /\ Asks(silent, item, v) <=> item = "outdoor_silent" /\ a.silent = <<v>>
                  /\ Asks(econo, item, v) <=> item = "econo_mode" /\ a.econo = <<v>>
                  /\ Asks(demand, item, v) <=> item = "demand_control" /\ a.demand = <<v>>
    <2>1. \A item : Asks(silent, item, v) <=> item = "outdoor_silent" /\ a.silent = <<v>>
      BY <1>1, SetsAsks
    <2>2. \A item : Asks(econo, item, v) <=> item = "econo_mode" /\ a.econo = <<v>>
      BY <1>1, SetsAsks
    <2>3. \A item : Asks(demand, item, v) <=> item = "demand_control" /\ a.demand = <<v>>
      BY <1>1, SetsAsks
    <2> QED
      BY <2>1, <2>2, <2>3
  <1>3. silent \in Seq({"outdoor_silent"} \X BOOLEAN) /\ econo \in Seq({"econo_mode"} \X BOOLEAN)
        /\ demand \in Seq({"demand_control"} \X Int)
    BY <1>1, SetsSequence
  <1>4. silent \in Seq(V) /\ econo \in Seq(V) /\ demand \in Seq(V)
    <2>1. /\ {"outdoor_silent"} \X BOOLEAN \subseteq V /\ {"econo_mode"} \X BOOLEAN \subseteq V
          /\ {"demand_control"} \X Int \subseteq V
      OBVIOUS
    <2> HIDE DEF V, silent, econo, demand
    <2> QED
      BY <1>3, <2>1, SeqMonotonic
  <1> HIDE DEF V, silent, econo, demand
  <1>5. silent \o econo \in Seq(V)
    BY <1>4, ConcatProperties
  <1>6. \A item : Asks(silent \o econo \o demand, item, v)
                    <=> Asks(silent, item, v) \/ Asks(econo, item, v) \/ Asks(demand, item, v)
    BY <1>4, <1>5, ConcatAsks
  <1>7. Writes("outdoor", a) = silent \o econo \o demand
    BY DEF Writes, silent, econo, demand
  <1>8. \A item : Asks(Writes("outdoor", a), item, v)
                    <=> \/ item = "outdoor_silent" /\ a.silent = <<v>>
                        \/ item = "econo_mode" /\ a.econo = <<v>>
                        \/ item = "demand_control" /\ a.demand = <<v>>
    BY <1>2, <1>6, <1>7
  <1> QED
    BY <1>8

\* What an indoor action asks for.
LEMMA IndoorAsks ==
    ASSUME NEW a \in Actions, NEW v
    PROVE  LET requests == Writes("indoor", a) IN
           /\ Asks(requests, "hvac_mode", v) <=> HVACPayload(a) = v
           /\ Asks(requests, "temperature_setpoint", v) <=> a.power = "on" /\ a.setpoint = <<v>>
  <1> DEFINE V == {"hvac_mode", "temperature_setpoint"} \X (STRING \cup Int)
             mode == << <<"hvac_mode", HVACPayload(a)>> >>
             setpoint == IF a.power = "on" THEN Sets("temperature_setpoint", a.setpoint) ELSE <<>>
  <1>1. a.setpoint \in Optional(Int) /\ HVACPayload(a) \in STRING
    BY DEF Actions, HVACPayload
  <1>2. \A item : Asks(setpoint, item, v) <=> item = "temperature_setpoint" /\ a.power = "on" /\ a.setpoint = <<v>>
    <2>1. CASE a.power = "on"
      BY <1>1, <2>1, SetsAsks
    <2>2. CASE a.power # "on"
      BY <2>2 DEF Asks
    <2> QED
      BY <2>1, <2>2
  <1>3. \A item : Asks(mode, item, v) <=> item = "hvac_mode" /\ HVACPayload(a) = v
    BY DEF Asks
  <1>4. mode \in Seq(V) /\ setpoint \in Seq(V)
    <2>1. {"temperature_setpoint"} \X Int \subseteq V /\ <<"hvac_mode", HVACPayload(a)>> \in V
      BY <1>1
    <2>2. Sets("temperature_setpoint", a.setpoint) \in Seq({"temperature_setpoint"} \X Int)
      BY <1>1, SetsSequence
    <2> HIDE DEF V
    <2>3. Sets("temperature_setpoint", a.setpoint) \in Seq(V)
      BY <2>1, <2>2, SeqMonotonic
    <2> QED
      BY <2>1, <2>3
  <1> HIDE DEF V, mode, setpoint
  <1>5. \A item : Asks(mode \o setpoint, item, v) <=> Asks(mode, item, v) \/ Asks(setpoint, item, v)
    BY <1>4, ConcatAsks
  <1>6. Writes("indoor", a) = mode \o setpoint
    BY DEF Writes, mode, setpoint
  <1>7. \A item : Asks(Writes("indoor", a), item, v)
                    <=> \/ item = "hvac_mode" /\ HVACPayload(a) = v
                        \/ item = "temperature_setpoint" /\ a.power = "on" /\ a.setpoint = <<v>>
    BY <1>2, <1>3, <1>5, <1>6
  <1> QED
    BY <1>7

\* Optional fields that have the same values are the same.
LEMMA SameOptional ==
    ASSUME NEW values, NEW a \in Optional(values), NEW b \in Optional(values),
           \A v : a = <<v>> <=> b = <<v>>
    PROVE  a = b
  <1>1. CASE a = <<>>
    <2>1. \A v : <<v>> # <<>>
      OBVIOUS
    <2>2. \A v \in values : b # <<v>>
      BY <1>1, <2>1
    <2> QED
      BY <1>1, <2>2 DEF Optional
  <1>2. ASSUME NEW v \in values, a = <<v>>
        PROVE  a = b
    BY <1>2
  <1> QED
    BY <1>1, <1>2 DEF Optional

\* Of an indoor action that passed the validation only power, mode and setpoint are set.
LEMMA IndoorAction ==
    ASSUME NEW a \in Actions, ActionOk("indoor", a)
    PROVE  /\ a.silent = <<>> /\ a.econo = <<>> /\ a.demand = <<>>
           /\ \/ a.power = "off" /\ HVACPayload(a) = "off" /\ Running(a) = <<"off">>
              \/ /\ a.power = "on" /\ a.mode \in Modes /\ HVACPayload(a) = a.mode
                 /\ Running(a) = <<"on", a.mode, a.setpoint>>
  <1> DEFINE V == BOOLEAN \cup Int
  <1>1. \A optional \in Optional(BOOLEAN) \cup Optional(Int) : optional \in Seq(V)
    <2>1. <<>> \in Seq(V) /\ \A v \in V : <<v>> \in Seq(V)
      OBVIOUS
    <2> QED
      BY <2>1 DEF Optional
  <1>2. a.silent \in Seq(V) /\ a.econo \in Seq(V) /\ a.demand \in Seq(V)
    BY <1>1 DEF Actions
  <1>3. a.silent \o a.econo \o a.demand = <<>>
    BY DEF ActionOk
  <1> HIDE DEF V
  <1>4. a.silent \o a.econo \in Seq(V) /\ Len(a.silent \o a.econo) = Len(a.silent) + Len(a.econo)
    BY <1>2, ConcatProperties
  <1>5. Len(a.silent \o a.econo) + Len(a.demand) = 0
    <2>1. Len(a.silent \o a.econo \o a.demand) = Len(a.silent \o a.econo) + Len(a.demand)
      BY <1>2, <1>4, ConcatProperties
    <2> QED
      BY <1>3, <2>1
  <1>6. Len(a.silent) \in Nat /\ Len(a.econo) \in Nat /\ Len(a.demand) \in Nat
    BY <1>2, LenProperties
  <1>7. Len(a.silent) = 0 /\ Len(a.econo) = 0 /\ Len(a.demand) = 0
    <2>1. (Len(a.silent) + Len(a.econo)) + Len(a.demand) = 0
      BY <1>4, <1>5
    <2>2. \A k, m, n \in Nat : (k + m) + n = 0 => k = 0 /\ m = 0 /\ n = 0
      OBVIOUS
    <2> QED
      BY <1>6, <2>1, <2>2
  <1>8. a.silent = <<>> /\ a.econo = <<>> /\ a.demand = <<>>
    BY <1>2, <1>7, EmptySeq
  <1>9. a.power \in {"on", "off"} /\ (a.power = "on" => a.mode \in Modes)
    BY DEF ActionOk
  <1>10. CASE a.power = "on"
    BY <1>8, <1>9, <1>10 DEF HVACPayload, Running
  <1>11. CASE a.power = "off"
    BY <1>8, <1>11 DEF HVACPayload, Running
  <1> QED
    BY <1>9, <1>10, <1>11

\* Of an outdoor action that passed the validation only the others are.
LEMMA OutdoorAction ==
    ASSUME NEW a \in Actions, ActionOk("outdoor", a)
    PROVE  Running(a) = <<>>
  BY DEF ActionOk, Running

\* Two actions that passed the validation for one kind of target have one signature
\* exactly when they make the same writes.
LEMMA SignatureIsWrites ==
    ASSUME NEW kind \in {"indoor", "outdoor"}, NEW x \in Actions, NEW y \in Actions,
           ActionOk(kind, x), ActionOk(kind, y)
    PROVE  Signature(x) = Signature(y) <=> Writes(kind, x) = Writes(kind, y)
  <1>1. CASE kind = "indoor"
    <2>1. Signature(x) = Signature(y) <=> Running(x) = Running(y)
      BY <1>1, IndoorAction DEF Signature
    <2>2. ASSUME Running(x) = Running(y)
          PROVE  Writes(kind, x) = Writes(kind, y)
      <3>1. x.power = y.power /\ HVACPayload(x) = HVACPayload(y) /\ (x.power = "on" => x.setpoint = y.setpoint)
        BY <1>1, <2>2, IndoorAction
      <3> QED
        BY <1>1, <3>1 DEF Writes
    <2>3. ASSUME Writes(kind, x) = Writes(kind, y)
          PROVE  Running(x) = Running(y)
      <3>1. HVACPayload(x) = HVACPayload(y)
        BY <1>1, <2>3, IndoorAsks
      <3>2. "off" \notin Modes
        BY DEF Modes
      <3>3. x.power = y.power /\ (x.power = "on" => x.mode = y.mode)
        BY <1>1, <3>1, <3>2, IndoorAction
      <3>4. \A v : x.power = "on" => (x.setpoint = <<v>> <=> y.setpoint = <<v>>)
        BY <1>1, <2>3, <3>3, IndoorAsks
      <3>5. x.power = "on" => x.setpoint = y.setpoint
        BY <3>4, SameOptional DEF Actions
      <3> QED
        BY <1>1, <3>3, <3>5, IndoorAction
    <2> QED
      BY <2>1, <2>2, <2>3
  <1>2. CASE kind = "outdoor"
    <2>1. Signature(x) = Signature(y) <=> x.silent = y.silent /\ x.econo = y.econo /\ x.demand = y.demand
      BY <1>2, OutdoorAction DEF Signature
    <2>2. ASSUME x.silent = y.silent /\ x.econo = y.econo /\ x.demand = y.demand
          PROVE  Writes(kind, x) = Writes(kind, y)
      BY <1>2, <2>2 DEF Writes
    <2>3. ASSUME Writes(kind, x) = Writes(kind, y)
          PROVE  x.silent = y.silent /\ x.econo = y.econo /\ x.demand = y.demand
      <3>1. \A v : /\ x.silent = <<v>> <=> y.silent = <<v>>
                   /\ x.econo = <<v>> <=> y.econo = <<v>>
                   /\ x.demand = <<v>> <=> y.demand = <<v>>
        BY <1>2, <2>3, OutdoorAsks
      <3>2. /\ x.silent \in Optional(BOOLEAN) /\ y.silent \in Optional(BOOLEAN)
            /\ x.econo \in Optional(BOOLEAN) /\ y.econo \in Optional(BOOLEAN)
            /\ x.demand \in Optional(Int) /\ y.demand \in Optional(Int)
        BY DEF Actions
      <3>3. x.silent = y.silent
        BY <3>1, <3>2, SameOptional
      <3>4. x.econo = y.econo
        BY <3>1, <3>2, SameOptional
      <3>5. x.demand = y.demand
        BY <3>1, <3>2, SameOptional
      <3> QED
        BY <3>3, <3>4, <3>5
    <2> QED
      BY <2>1, <2>2, <2>3
  <1> QED
    BY <1>1, <1>2

\* A list of elements of a set is indexed from 1, and is one of its own elements.
LEMMA OwnElements ==
    ASSUME NEW S, NEW list \in Seq(S)
    PROVE  IsSequence(list) /\ list \in Seq(ToSet(list)) /\ ToSet(list) \subseteq S
  <1>1. Len(list) \in Nat /\ DOMAIN list = 1..Len(list) /\ list \in [1..Len(list) -> S]
    BY LenProperties
  <1>2. list \in [1..Len(list) -> ToSet(list)]
    BY <1>1 DEF ToSet
  <1>3. list \in Seq(ToSet(list))
    BY <1>1, <1>2
  <1> QED
    BY <1>1, <1>3 DEF IsSequence, ToSet

\* More numbers than ids are taken: one of them is free.
LEMMA AnIdIsFree ==
    ASSUME NEW taken, IsFiniteSet(taken)
    PROVE  \E n \in 1..(Cardinality(taken) + 1) : <<"b", n>> \notin taken
  <1> DEFINE m == Cardinality(taken) + 1
             f == [n \in 1..m |-> <<"b", n>>]
  <1> SUFFICES ASSUME \A n \in 1..m : <<"b", n>> \in taken
               PROVE  FALSE
    OBVIOUS
  <1>1. Cardinality(taken) \in Nat
    BY FS_CardinalityType
  <1>2. IsFiniteSet(1..m) /\ Cardinality(1..m) = m
    BY <1>1, FS_Interval
  <1>3. f \in [1..m -> taken]
    OBVIOUS
  <1>4. Cardinality(taken) < Cardinality(1..m)
    BY <1>1, <1>2
  <1>5. \A x, y \in 1..m : f[x] = f[y] => x = y
    OBVIOUS
  <1> HIDE DEF f, m
  <1>6. \E x, y \in 1..m : x # y /\ f[x] = f[y]
    BY <1>2, <1>3, <1>4, FS_PigeonHole
  <1> QED
    BY <1>5, <1>6

\* Giving the blocks ids leaves them what else they are.
LEMMA BlocksKeepTypes ==
    ASSUME NEW blocks, blocks \in Seq(ToSet(blocks)),
           \A block \in ToSet(blocks) : DecodedBlock(block)
    PROVE  LET normalized == NormalizeBlockIDs(blocks) IN
           /\ normalized \in Seq(ToSet(normalized))
           /\ \A block \in ToSet(normalized) : DecodedBlock(block)
  <1> DEFINE n == Len(blocks)
             X == {blocks[j].id : j \in DOMAIN blocks} \cup {<<"b", k>> : k \in Nat}
             Y == UNION {{[blocks[j] EXCEPT !.id = x] : x \in X} : j \in DOMAIN blocks}
             V == [taken : {T \in SUBSET X : IsFiniteSet(T)}, out : Seq(Y)]
             first == [taken |-> {}, out |-> <<>>]
             Free(T) == {k \in 1..(Cardinality(T) + 1) : <<"b", k>> \notin T}
             Id(T, block) == IF block.id # <<>> /\ block.id \notin T THEN block.id ELSE <<"b", Min(Free(T))>>
             Step(v, j) == [ taken |-> v.taken \cup {Id(v.taken, blocks[j])},
                             out |-> Append(v.out, [blocks[j] EXCEPT !.id = Id(v.taken, blocks[j])]) ]
             Body(F, S) == IF S = {} THEN first ELSE Step(F[S \ {Max(S)}], Max(S))
             It == CHOOSE F : F = [S \in SUBSET (DOMAIN blocks) |-> Body(F, S)]
             h == [j \in 1..n |-> [v \in V |-> Step(v, j)]]
             a == [j \in 0..n |-> It[1..j]]
  <1>1. NormalizeBlockIDs(blocks) = It[DOMAIN blocks].out
    BY DEF NormalizeBlockIDs, FoldLeft, MapThenFoldSet
  <1>2. DOMAIN blocks = 1..n /\ n \in Nat
    BY OwnElements DEF IsSequence
  <1>3. ASSUME NEW j \in 1..n, NEW v \in V
        PROVE  Step(v, j) \in V
    <2> DEFINE T == v.taken
               id == Id(T, blocks[j])
    <2>1. T \in SUBSET X /\ IsFiniteSet(T) /\ v.out \in Seq(Y)
      OBVIOUS
    <2>2. id \in X
      <3>1. Free(T) \in SUBSET Nat /\ Free(T) # {}
        <4>1. Free(T) # {}
          BY <2>1, AnIdIsFree
        <4>2. Free(T) \in SUBSET Nat
          BY <2>1, FS_CardinalityType
        <4> QED
          BY <4>1, <4>2
      <3> HIDE DEF Free
      <3>2. Min(Free(T)) \in Nat
        BY <3>1, LeastNat
      <3> QED
        BY <1>2, <3>2
    <2> HIDE DEF Id, X
    <2>3. [blocks[j] EXCEPT !.id = id] \in Y
      BY <1>2, <2>2
    <2> HIDE DEF Y, id
    <2>4. Append(v.out, [blocks[j] EXCEPT !.id = id]) \in Seq(Y)
      BY <2>1, <2>3, AppendProperties
    <2>5. T \cup {id} \in SUBSET X /\ IsFiniteSet(T \cup {id})
      BY <2>1, <2>2, FS_AddElement
    <2> QED
      BY <2>4, <2>5 DEF id
  <1>4. first \in V
    <2>1. <<>> \in Seq(Y)
      OBVIOUS
    <2> HIDE DEF Y, X
    <2> QED
      BY <2>1, FS_EmptySet
  <1> HIDE DEF Step, V
  <1>5. h \in [1..n -> [V -> V]]
    BY <1>3
  <1>6. \A j \in 1..n, v \in V : h[j][v] = Step(v, j)
    OBVIOUS
  <1> HIDE DEF h, n, It, first
  <1>7. PICK F \in [SUBSET (1..n) -> V] : Folds(F, n, first, h)
    BY <1>2, <1>4, <1>5, FoldExists
  <1>8. \A S \in SUBSET (1..n) : F[S] = Body(F, S)
    <2> SUFFICES ASSUME NEW S \in SUBSET (1..n), S # {}
                 PROVE  F[S] = Body(F, S)
      BY <1>7 DEF Folds
    <2>1. Max(S) \in S
      BY <1>2, GreatestBelow
    <2>2. Max(S) \in 1..n /\ S \ {Max(S)} \in SUBSET (1..n)
      BY <2>1
    <2>3. h[Max(S)][F[S \ {Max(S)}]] = Step(F[S \ {Max(S)}], Max(S))
      BY <1>6, <1>7, <2>2
    <2> QED
      BY <1>7, <2>3 DEF Folds
  <1>9. F = [S \in SUBSET (DOMAIN blocks) |-> Body(F, S)]
    BY <1>2, <1>7, <1>8
  <1>10. It = [S \in SUBSET (DOMAIN blocks) |-> Body(It, S)]
    BY <1>9 DEF It
  <1> DEFINE P == {k \in Nat : k <= n => a[k] \in V}
  <1>11. 0 \in P
    <2>1. 1..0 = {} /\ 0 \in 0..n
      BY <1>2
    <2> QED
      BY <1>4, <1>10, <2>1
  <1>12. ASSUME NEW k \in Nat, k \in P PROVE k + 1 \in P
    <2> SUFFICES ASSUME k + 1 <= n PROVE a[k + 1] \in V
      OBVIOUS
    <2> DEFINE j == k + 1
    <2>1. j \in 1..n /\ j # 0 /\ j \in 0..n /\ j - 1 = k /\ k \in 0..n /\ 1..j \in SUBSET (1..n) /\ j \in Nat
      BY <1>2
    <2>2. It[1..j] = Body(It, 1..j)
      BY <1>2, <1>10, <2>1
    <2> HIDE DEF j
    <2>3. It[1..j] = Step(It[1..k], j)
      BY <2>1, <2>2, InOrder
    <2>4. It[1..k] \in V
      BY <1>2, <1>12, <2>1
    <2>5. It[1..j] \in V
      BY <1>3, <2>1, <2>3, <2>4
    <2> QED
      BY <2>1, <2>5 DEF j
  <1> HIDE DEF P
  <1>13. n \in P
    BY <1>2, <1>11, <1>12, SetInduction
  <1>14. It[DOMAIN blocks] \in V
    BY <1>2, <1>13 DEF P
  <1>15. NormalizeBlockIDs(blocks) \in Seq(Y)
    BY <1>1, <1>14 DEF V
  <1>16. \A y \in Y : DecodedBlock(y)
    <2>1. ASSUME NEW j \in DOMAIN blocks, NEW x
          PROVE  DecodedBlock([blocks[j] EXCEPT !.id = x])
      <3>1. DecodedBlock(blocks[j])
        BY DEF ToSet
      <3> QED
        BY <3>1 DEF DecodedBlock
    <2>2. \A y \in Y : \E j \in DOMAIN blocks : \E x \in X : y = [blocks[j] EXCEPT !.id = x]
      OBVIOUS
    <2> HIDE DEF Y
    <2> SUFFICES ASSUME NEW y \in Y
                 PROVE  DecodedBlock(y)
      OBVIOUS
    <2>3. PICK j \in DOMAIN blocks : \E x \in X : y = [blocks[j] EXCEPT !.id = x]
      BY <2>2
    <2>4. PICK x \in X : y = [blocks[j] EXCEPT !.id = x]
      BY <2>3
    <2> QED
      BY <2>1, <2>4
  <1> HIDE DEF Y
  <1> QED
    BY <1>15, <1>16, OwnElements

\* Every edit is of one of the four kinds, with a schedule decoded from a request.
Edited ==
    \/ \E posted :
          /\ DecodedSchedule(posted)
          /\ Create(posted) \/ \E i \in DOMAIN document : Update(i, posted)
    \/ \E i \in DOMAIN document : DeleteSchedule(i) \/ \E on \in BOOLEAN : Enable(i, on)

\* A document whose schedules are decoded is.
LEMMA DecodedList ==
    ASSUME NEW S, \A schedule \in S : DecodedSchedule(schedule), NEW list \in Seq(S)
    PROVE  Decoded(list)
  BY OwnElements DEF Decoded

\* What an edit of a decoded document stores is decoded, and has been validated.
LEMMA EditedIsSound ==
    ASSUME Decoded(document), Edited
    PROVE  Decoded(document') /\ Valid(document')
  <1> DEFINE S == ToSet(document)
             Saved(list) == Save(list) /\ Decoded(list)
  <1>1. document \in Seq(S) /\ IsSequence(document) /\ \A schedule \in S : DecodedSchedule(schedule)
    BY OwnElements DEF Decoded
  <1>2. ASSUME NEW list, Saved(list)
        PROVE  Decoded(document') /\ Valid(document')
    BY <1>2 DEF Save
  <1>3. ASSUME NEW posted, DecodedSchedule(posted), NEW id
        PROVE  DecodedSchedule([posted EXCEPT !.id = id, !.blocks = NormalizeBlockIDs(@)])
    <2>1. /\ NormalizeBlockIDs(posted.blocks) \in Seq(ToSet(NormalizeBlockIDs(posted.blocks)))
          /\ \A block \in ToSet(NormalizeBlockIDs(posted.blocks)) : DecodedBlock(block)
      BY <1>3, BlocksKeepTypes DEF DecodedSchedule
    <2> QED
      BY <1>3, <2>1 DEF DecodedSchedule
  <1>4. ASSUME NEW new, DecodedSchedule(new)
        PROVE  Decoded(Append(document, new)) /\ \A i \in DOMAIN document : Decoded([document EXCEPT ![i] = new])
    <2> DEFINE T == S \cup {new}
    <2>1. document \in Seq(T) /\ new \in T /\ \A schedule \in T : DecodedSchedule(schedule)
      BY <1>1, <1>4, SeqMonotonic, S \subseteq T
    <2> HIDE DEF T
    <2>2. Append(document, new) \in Seq(T)
      BY <2>1, AppendProperties
    <2>3. \A i \in DOMAIN document : [document EXCEPT ![i] = new] \in Seq(T)
      BY <1>1, <2>1, ExceptSeq DEF IsSequence
    <2> QED
      BY <2>1, <2>2, <2>3, DecodedList
  <1>5. ASSUME NEW posted, DecodedSchedule(posted), Create(posted)
        PROVE  \E list : Saved(list)
    BY <1>3, <1>4, <1>5 DEF Create
  <1>6. ASSUME NEW posted, DecodedSchedule(posted), NEW i \in DOMAIN document, Update(i, posted)
        PROVE  \E list : Saved(list)
    BY <1>3, <1>4, <1>6 DEF Update
  <1>7. ASSUME NEW i \in DOMAIN document, DeleteSchedule(i)
        PROVE  \E list : Saved(list)
    <2>1. i \in 1..Len(document) /\ Len(document) \in Nat /\ \A k \in 1..Len(document) : document[k] \in S
      BY <1>1 DEF IsSequence, ToSet
    <2>2. SubSeq(document, 1, i - 1) \in Seq(S) /\ SubSeq(document, i + 1, Len(document)) \in Seq(S)
      <3>1. (\A k \in 1..(i - 1) : document[k] \in S) /\ (\A k \in (i + 1)..Len(document) : document[k] \in S)
        BY <2>1
      <3> HIDE DEF S
      <3> QED
        BY <2>1, <3>1, SubSeqProperties
    <2> HIDE DEF S
    <2>3. RemoveAt(document, i) \in Seq(S)
      BY <2>2, ConcatProperties DEF RemoveAt
    <2> QED
      BY <1>1, <1>7, <2>3, DecodedList DEF DeleteSchedule
  <1>8. ASSUME NEW i \in DOMAIN document, NEW on \in BOOLEAN, Enable(i, on)
        PROVE  \E list : Saved(list)
    <2>1. DecodedSchedule([document[i] EXCEPT !.enabled = on])
      <3>1. DecodedSchedule(document[i])
        BY <1>1 DEF ToSet
      <3> QED
        BY <3>1 DEF DecodedSchedule
    <2>2. Save([document EXCEPT ![i] = [document[i] EXCEPT !.enabled = on]])
      BY <1>8 DEF Enable
    <2> QED
      BY <1>4, <2>1, <2>2
  <1> QED
    BY <1>2, <1>5, <1>6, <1>7, <1>8 DEF Edited

\* The document that comes to be stored, edit by edit.
Stored == document = <<>> /\ [][Edited]_document
Sound == Decoded(document) /\ Valid(document)

\* What is stored has been validated.
LEMMA StoredIsSound == Stored => []Sound
  <1>1. document = <<>> => Sound
    BY DEF Sound, Decoded, IsSequence, Valid, IsInjective, ToSet
  <1>2. Sound /\ [Edited]_document => Sound'
    <2> SUFFICES ASSUME Sound, [Edited]_document
                 PROVE  Sound'
      OBVIOUS
    <2>1. CASE Edited
      BY <2>1, EditedIsSound DEF Sound
    <2>2. CASE document' = document
      BY <2>2 DEF Sound
    <2> QED
      BY <2>1, <2>2
  <1> QED
    BY <1>1, <1>2, PTL DEF Stored

\* Of every document that can come to be stored, of any length: two blocks that drive
\* the same kind of target have one signature exactly when they make the same writes,
\* so that an engine that skips what has the signature applied last leaves no write
\* out and repeats none.  (model.go Signature, schedule.go ApplySchedule)
THEOREM SignaturesDecideWrites == Stored => []SignatureDecidesWrites
  <1>1. Sound => SignatureDecidesWrites
    <2> SUFFICES ASSUME Sound, NEW i \in DOMAIN document, NEW k \in DOMAIN document,
                        Kind(document[i]) = Kind(document[k]),
                        NEW x \in ToSet(document[i].blocks), NEW y \in ToSet(document[k].blocks)
                 PROVE  Signature(x.action) = Signature(y.action)
                          <=> Writes(Kind(document[i]), x.action) = Writes(Kind(document[k]), y.action)
      BY DEF SignatureDecidesWrites
    <2>1. x.action \in Actions /\ y.action \in Actions
      <3>1. DecodedSchedule(document[i]) /\ DecodedSchedule(document[k])
        BY DEF Sound, Decoded, ToSet
      <3>2. DecodedBlock(x) /\ DecodedBlock(y)
        BY <3>1 DEF DecodedSchedule
      <3> QED
        BY <3>2 DEF DecodedBlock
    <2>2. ScheduleOk(document[i]) /\ ScheduleOk(document[k])
      BY DEF Sound, Valid, ToSet
    <2>3. ActionOk(Kind(document[i]), x.action) /\ ActionOk(Kind(document[k]), y.action)
      BY <2>2 DEF ScheduleOk, BlockOk
    <2>4. Kind(document[i]) \in {"indoor", "outdoor"}
      BY DEF Kind
    <2> QED
      BY <2>1, <2>3, <2>4, SignatureIsWrites
  <1> QED
    BY <1>1, StoredIsSound, PTL

\* Sleeping from one NextChange to the next visits every switch point of every target
\* of any document whatever.  (ring.go NextChange)
THEOREM TimerVisitsThemAll == TimerVisitsEverySwitchPoint
  BY SwitchPointsAreVisited DEF TimerVisitsEverySwitchPoint, Ahead

\* The weekdays and clocks of a block as the ring sees it.
Fits(block) ==
    /\ block.days \subseteq 0..(WeekDays - 1)
    /\ block.start \in 0..(SlotsPerDay - 1) /\ block.length \in 1..SlotsPerDay

\* Claims are records, and the nil claim is none.
NilIsNoClaim ==
    \A schedule, block, priority, action, start, age :
        NoClaim # [ schedule |-> schedule, block |-> block, priority |-> priority,
                    action |-> action, start |-> start, age |-> age ]

\* A multiple of the slot is the slot times its quotient.
LEMMA WholeSlots ==
    ASSUME NEW k \in Nat \ {0}, NEW t \in Nat, t % k = 0
    PROVE  t \div k \in Nat /\ t = k * (t \div k)
  OBVIOUS

\* A block that passed the validation begins in a slot of its day, and lasts at least
\* one slot and at most a day, exactly as its clocks say.
LEMMA BlockFits ==
    ASSUME NEW kind, NEW block, BlockOk(kind, block), block.days \in Seq(Int),
           block.start \in Int \cup {Malformed}, block.end \in Int \cup {Malformed}
    PROVE  /\ Fits(ExpandBlock(block))
           /\ block.start = SlotMinutes * ExpandBlock(block).start
           /\ Duration(block) = SlotMinutes * ExpandBlock(block).length
           /\ block.end \in Int
  <1> DEFINE m == SlotMinutes
             d == SlotsPerDay
  <1>1. m \in Nat \ {0} /\ d \in Nat \ {0} /\ d * m \in Nat /\ m * d = d * m
    BY GridIsPositive, RingSize
  <1>2. /\ block.start \in 0..(d * m - 1) /\ block.start % m = 0
        /\ \/ block.end = d * m
           \/ block.end \in 0..(d * m - 1) /\ block.end % m = 0
        /\ block.start # block.end
    BY DEF BlockOk, IsClock, MinutesPerDay
  <1> HIDE DEF m, d
  <1>3. PICK s \in Nat : s = block.start \div m /\ block.start = m * s
    <2>1. block.start \in Nat /\ block.start % m = 0
      BY <1>1, <1>2
    <2>2. block.start \div m \in Nat /\ block.start = m * (block.start \div m)
      BY <1>1, <2>1, WholeSlots
    <2> QED
      BY <2>2
  <1>4. s \in 0..(d - 1)
    <2> SUFFICES ASSUME d <= s PROVE FALSE
      BY <1>1, <1>3
    <2>1. m * d <= m * s
      BY <1>1, <1>3, ProductGrows
    <2> QED
      BY <1>1, <1>2, <1>3, <2>1
  <1>5. PICK e \in Nat : block.end = m * e /\ e <= d
    <2>1. CASE block.end = d * m
      BY <1>1, <2>1
    <2>2. CASE block.end \in 0..(d * m - 1) /\ block.end % m = 0
      <3>1. PICK e \in Nat : block.end = m * e
        <4>1. block.end \in Nat /\ block.end % m = 0
          BY <1>1, <2>2
        <4>2. block.end \div m \in Nat /\ block.end = m * (block.end \div m)
          BY <1>1, <4>1, WholeSlots
        <4> QED
          BY <4>2
      <3>2. ~(d <= e)
        <4> SUFFICES ASSUME d <= e PROVE FALSE
          OBVIOUS
        <4>1. m * d <= m * e
          BY <1>1, <3>1, ProductGrows
        <4> QED
          BY <1>1, <2>2, <3>1, <4>1
      <3> QED
        BY <1>1, <3>1, <3>2
    <2> QED
      BY <1>2, <2>1, <2>2
  <1> DEFINE length == IF s < e THEN e - s ELSE e - s + d
  <1>6. length \in 1..d
    <2>1. s # e
      BY <1>2, <1>3, <1>5
    <2> QED
      BY <1>1, <1>4, <1>5, <2>1
  <1>7. Duration(block) = m * length
    <2>1. MinutesPerDay = m * d
      BY <1>1 DEF MinutesPerDay, m, d
    <2>2. CASE s < e
      <3>1. m * (e - s) = m * e - m * s
        BY <1>1, <1>3, <1>5
      <3>2. m * s + m <= m * e
        <4>1. m * (s + 1) <= m * e
          BY <1>1, <1>3, <1>5, <2>2, ProductGrows, s + 1 \in Nat
        <4> QED
          BY <1>1, <1>3, <4>1
      <3>3. block.end - block.start = m * e - m * s /\ block.end - block.start > 0
        <4>1. PICK a \in Nat, b \in Nat : a = m * s /\ b = m * e
          BY <1>1, <1>3, <1>5
        <4>2. a + m <= b /\ m >= 1
          BY <1>1, <3>2, <4>1
        <4>3. b - a > 0
          BY <1>1, <4>1, <4>2
        <4> QED
          BY <1>3, <1>5, <4>1, <4>3
      <3> QED
        BY <2>2, <3>1, <3>3 DEF Duration
    <2>3. CASE ~(s < e)
      <3>1. m * (e - s + d) = m * e - m * s + m * d
        BY <1>1, <1>3, <1>5
      <3>2. m * e <= m * s
        BY <1>1, <1>3, <1>5, <2>3, ProductGrows
      <3>3. block.end - block.start = m * e - m * s /\ ~(block.end - block.start > 0)
        BY <1>1, <1>3, <1>5, <3>2
      <3> QED
        BY <2>1, <2>3, <3>1, <3>3 DEF Duration
    <2> QED
      BY <2>2, <2>3
  <1> HIDE DEF length
  <1>8. Duration(block) \div m = length
    <2>1. length \in Nat /\ m * length \in Nat
      BY <1>1, <1>6
    <2> QED
      BY <1>1, <1>7, <2>1, DivisionIs
  <1>9. ToSet(block.days) \subseteq 0..(WeekDays - 1)
    BY DEF BlockOk
  <1>10. block.end \in Int
    BY <1>1, <1>5
  <1> QED
    BY <1>3, <1>4, <1>6, <1>7, <1>8, <1>9, <1>10 DEF Fits, ExpandBlock, m, d

\* A function over the positions 1 to n is a sequence.
LEMMA PositionsSequence ==
    ASSUME NEW n \in Nat, NEW S, NEW f \in [1..n -> S]
    PROVE  IsSequence(f)
  <1>1. f \in Seq(S) /\ DOMAIN f = 1..n
    OBVIOUS
  <1> QED
    BY <1>1, LenProperties DEF IsSequence

\* The week of a sound document is as the resolver reads it, and its blocks fit the ring.
LEMMA WeekIsReadable ==
    ASSUME NilIsNoClaim, Sound
    PROVE  /\ \A slot : Readable(Week, slot)
           /\ \A i \in DOMAIN Week : \A j \in DOMAIN Week[i].blocks : Fits(Week[i].blocks[j])
  <1>1. /\ IsSequence(document) /\ DOMAIN Week = DOMAIN document
        /\ \A i \in DOMAIN document : DecodedSchedule(document[i])
    BY OwnElements DEF Sound, Decoded, Week, ToSet
  <1>2. IsSequence(Week)
    <2>1. Len(document) \in Nat /\ Week \in [1..Len(document) -> {Week[i] : i \in DOMAIN document}]
      BY <1>1 DEF IsSequence, Week
    <2> QED
      BY <2>1, PositionsSequence
  <1>3. ASSUME NEW i \in DOMAIN document
        PROVE  /\ Week[i].priority \in Int /\ IsSequence(Week[i].blocks)
               /\ \A j \in DOMAIN Week[i].blocks : Fits(Week[i].blocks[j])
    <2> DEFINE blocks == document[i].blocks
    <2>1. Week[i].priority = document[i].priority
          /\ Week[i].blocks = [j \in DOMAIN blocks |-> ExpandBlock(blocks[j])]
      BY DEF Week
    <2>2. document[i].priority \in Int /\ IsSequence(blocks)
      BY <1>1, OwnElements DEF DecodedSchedule
    <2>3. ASSUME NEW j \in DOMAIN blocks
          PROVE  Fits(ExpandBlock(blocks[j]))
      <3>1. BlockOk(Kind(document[i]), blocks[j])
        <4>1. ScheduleOk(document[i])
          BY DEF Sound, Valid, ToSet
        <4> QED
          BY <4>1 DEF ScheduleOk, ToSet
      <3>2. /\ blocks[j].days \in Seq(Int) /\ blocks[j].start \in Int \cup {Malformed}
            /\ blocks[j].end \in Int \cup {Malformed}
        BY <1>1 DEF DecodedSchedule, DecodedBlock, ToSet
      <3> QED
        BY <3>1, <3>2, BlockFits
    <2>4. IsSequence(Week[i].blocks)
      <3>1. Len(blocks) \in Nat
            /\ Week[i].blocks \in [1..Len(blocks) -> {ExpandBlock(blocks[j]) : j \in DOMAIN blocks}]
        BY <2>1, <2>2 DEF IsSequence
      <3> QED
        BY <3>1, PositionsSequence
    <2> QED
      BY <2>1, <2>2, <2>3, <2>4
  <1>4. ASSUME NEW slot, NEW i \in DOMAIN Week, NEW j \in DOMAIN Week[i].blocks
        PROVE  /\ Week[i].blocks[j].start \in Int /\ Week[i].blocks[j].days \subseteq Int
               /\ ClaimOn(Week[i], Week[i].blocks[j], slot) # NoClaim
    <2>1. Fits(Week[i].blocks[j])
      BY <1>1, <1>3
    <2>2. ClaimOn(Week[i], Week[i].blocks[j], slot) # NoClaim
      BY DEF ClaimOn, NilIsNoClaim
    <2> QED
      BY <2>1, <2>2, RingSize DEF Fits
  <1> QED
    BY <1>1, <1>2, <1>3, <1>4 DEF Readable

\* Between two numbers below the modulus, % adds it at most once.
LEMMA ModBack ==
    ASSUME NEW k \in Nat \ {0}, NEW x \in Int, -k < x, x < k
    PROVE  x % k = IF x < 0 THEN x + k ELSE x
  <1>1. CASE x < 0
    BY <1>1
  <1>2. CASE ~(x < 0)
    BY <1>2
  <1> QED
    BY <1>1, <1>2

\* On the ring, n slots after the first is the slot whose distance from it is n.
LEMMA DistanceIs ==
    ASSUME NEW first \in Slots, NEW slot \in Slots
    PROVE  /\ Distance(first, slot) \in Slots
           /\ \A n \in Slots : slot = Ahead(first, n) <=> n = Distance(first, slot)
           /\ (slot - Distance(first, slot)) % SlotsPerWeek = first
  <1>1. PICK N \in Nat \ {0} : N = SlotsPerWeek /\ Slots = 0..(N - 1)
    BY Ring DEF Slots
  <1> DEFINE d == Distance(first, slot)
  <1>2. d = IF slot < first THEN slot - first + N ELSE slot - first
    <2>1. slot - first \in Int /\ -N < slot - first /\ slot - first < N
      BY <1>1
    <2>2. (slot - first) % N = IF slot - first < 0 THEN slot - first + N ELSE slot - first
      BY <2>1, ModBack
    <2> QED
      BY <1>1, <2>2 DEF Distance
  <1> HIDE DEF d
  <1>3. d \in Slots
    BY <1>1, <1>2
  <1>4. ASSUME NEW n \in Slots
        PROVE  slot = Ahead(first, n) <=> n = d
    <2>1. n \in 0..SlotsPerWeek
      BY <1>1
    <2>2. Ahead(first, n) = IF first + n < N THEN first + n ELSE first + n - N
      BY <1>1, <2>1, Ring
    <2> QED
      BY <1>1, <1>2, <2>2
  <1>5. (slot - d) % N = first
    <2>1. slot - d \in Int /\ -N < slot - d /\ slot - d < N
      BY <1>1, <1>3
    <2>2. (slot - d) % N = IF slot - d < 0 THEN slot - d + N ELSE slot - d
      BY <2>1, ModBack
    <2> QED
      BY <1>1, <1>2, <2>2
  <1> QED
    BY <1>1, <1>3, <1>4, <1>5 DEF d

\* The first slot of a block that fits is one of the ring, on different days a day or
\* more apart in either direction.
LEMMA FirstSlots ==
    ASSUME NEW block, Fits(block), NEW day \in block.days, NEW other \in block.days, day < other
    PROVE  /\ FirstSlot(block, day) \in Slots /\ FirstSlot(block, other) \in Slots
           /\ FirstSlot(block, other) - FirstSlot(block, day) \in SlotsPerDay..(SlotsPerWeek - SlotsPerDay)
  <1> DEFINE D == SlotsPerDay
             W == WeekDays
  <1>1. D \in Nat \ {0} /\ W \in Nat \ {0} /\ SlotsPerWeek = D * W
    BY RingSize DEF SlotsPerWeek
  <1>2. day \in 0..(W - 1) /\ other \in 0..(W - 1) /\ block.start \in 0..(D - 1)
    BY DEF Fits
  <1> HIDE DEF D, W
  <1>3. D * (day + 1) <= D * other /\ D * (other + 1) <= D * W
    <2>1. D * (day + 1) <= D * other
      BY <1>1, <1>2, ProductGrows, day + 1 \in Nat, other \in Nat, day + 1 <= other
    <2>2. D * (other + 1) <= D * W
      BY <1>1, <1>2, ProductGrows, other + 1 \in Nat, other + 1 <= W
    <2> QED
      BY <2>1, <2>2
  <1>4. PICK a \in Nat, b \in Nat, N \in Nat :
            a = D * day /\ b = D * other /\ N = D * W /\ a + D <= b /\ b + D <= N
    <2>1. D * (day + 1) = D * day + D /\ D * (other + 1) = D * other + D
      BY <1>1, <1>2
    <2>2. D * day \in Nat /\ D * other \in Nat /\ D * W \in Nat
      BY <1>1, <1>2
    <2> QED
      BY <1>3, <2>1, <2>2
  <1>5. FirstSlot(block, day) = a + block.start /\ FirstSlot(block, other) = b + block.start
    <2>1. day * D = D * day /\ other * D = D * other
      BY <1>1, <1>2
    <2> QED
      BY <1>4, <2>1 DEF FirstSlot, D
  <1>6. SlotsPerWeek = N
    BY <1>1, <1>4
  <1>7. Slots = 0..(N - 1) /\ SlotsPerDay = D
    BY <1>6 DEF Slots, D
  <1>8. PICK s \in 0..(D - 1) : s = block.start
    BY <1>2
  <1>9. /\ a + s \in 0..(N - 1) /\ b + s \in 0..(N - 1)
        /\ (b + s) - (a + s) \in D..(N - D)
    BY <1>1, <1>4, <1>8
  <1> QED
    BY <1>5, <1>6, <1>7, <1>8, <1>9

\* A block that fits begins in a slot of the ring.
LEMMA FirstIsSlot ==
    ASSUME NEW block, Fits(block), NEW day \in block.days
    PROVE  FirstSlot(block, day) \in Slots
  <1> DEFINE D == SlotsPerDay
             W == WeekDays
  <1>1. D \in Nat \ {0} /\ W \in Nat \ {0} /\ SlotsPerWeek = D * W
    BY RingSize DEF SlotsPerWeek
  <1>2. day \in 0..(W - 1) /\ block.start \in 0..(D - 1)
    BY DEF Fits
  <1> HIDE DEF D, W
  <1>3. D * (day + 1) <= D * W
    BY <1>1, <1>2, ProductGrows, day + 1 \in Nat, day + 1 <= W
  <1>4. D * (day + 1) = D * day + D /\ D * day \in Nat /\ D * W \in Nat /\ day * D = D * day
    BY <1>1, <1>2
  <1>5. FirstSlot(block, day) = D * day + block.start
    BY <1>4 DEF FirstSlot, D
  <1>6. PICK a \in Nat, N \in Nat : a = D * day /\ N = D * W /\ a + D <= N
    BY <1>3, <1>4
  <1> QED
    BY <1>1, <1>2, <1>5, <1>6 DEF Slots

\* The slots of a block's length, counted from its start, are fewer than a day's.
LEMMA ReachesFromOneDay ==
    ASSUME NEW block, Fits(block), NEW slot \in Slots,
           NEW day \in Reaches(block, slot), NEW other \in Reaches(block, slot)
    PROVE  day = other
  <1>1. ASSUME NEW x \in Reaches(block, slot), NEW y \in Reaches(block, slot), x < y
        PROVE  FALSE
    <2>1. x \in block.days /\ y \in block.days
      BY DEF Reaches
    <2>2. PICK f \in Slots, g \in Slots :
              /\ f = FirstSlot(block, x) /\ g = FirstSlot(block, y)
              /\ g - f \in SlotsPerDay..(SlotsPerWeek - SlotsPerDay)
      BY <1>1, <2>1, FirstSlots
    <2>3. PICK N \in Nat \ {0} : N = SlotsPerWeek /\ Slots = 0..(N - 1)
      BY Ring DEF Slots
    <2>4. PICK D \in Nat \ {0} : D = SlotsPerDay
      BY RingSize
    <2>5. PICK m \in Slots, n \in Slots : m = Distance(f, slot) /\ n = Distance(g, slot)
      BY DistanceIs
    <2>6. m < D /\ n < D
      <3>1. m < block.length /\ n < block.length
        BY <2>2, <2>5 DEF Reaches
      <3>2. block.length \in 1..D
        BY <2>4 DEF Fits
      <3>3. m \in Nat /\ n \in Nat
        BY <2>3
      <3> QED
        BY <2>4, <3>1, <3>2, <3>3
    <2>7. slot = Ahead(f, m) /\ slot = Ahead(g, n)
      BY <2>5, DistanceIs
    <2>8. /\ slot = IF f + m < N THEN f + m ELSE f + m - N
          /\ slot = IF g + n < N THEN g + n ELSE g + n - N
      <3>1. m \in 0..SlotsPerWeek /\ n \in 0..SlotsPerWeek
        BY <2>3
      <3>2. /\ Ahead(f, m) = IF f + m < N THEN f + m ELSE f + m - N
            /\ Ahead(g, n) = IF g + n < N THEN g + n ELSE g + n - N
        BY <2>3, <3>1, Ring
      <3> QED
        BY <2>7, <3>2
    <2>9. /\ f \in Nat /\ g \in Nat /\ m \in Nat /\ n \in Nat
          /\ f + D <= g /\ g + D <= f + N
      BY <2>2, <2>3, <2>4
    <2>10. f + m = g + n \/ f + m - N = g + n \/ f + m = g + n - N
      BY <2>3, <2>8, <2>9
    <2> QED
      BY <2>3, <2>4, <2>6, <2>9, <2>10
  <1>2. day \in Int /\ other \in Int
    BY RingSize DEF Reaches, Fits
  <1> QED
    BY <1>1, <1>2

\* Who claims a slot, as the document says it, is who stakes a claim on it.
LEMMA ClaimantsStake ==
    ASSUME NEW block, Fits(block), NEW slot \in Slots, NEW n
    PROVE  /\ n \in 0..SlotsPerDay /\ n < block.length
           /\ \E day \in block.days : slot = (day * SlotsPerDay + block.start + n) % SlotsPerWeek
           <=>
           /\ Reaches(block, slot) # {}
           /\ n = Distance(FirstSlot(block, CHOOSE day \in Reaches(block, slot) : TRUE), slot)
  <1>1. \A day \in block.days : day \in Int /\ FirstSlot(block, day) \in Slots
    BY FirstIsSlot, RingSize DEF Fits
  <1>2. PICK N \in Nat \ {0} : N = SlotsPerWeek /\ Slots = 0..(N - 1)
    BY Ring DEF Slots
  <1>3. PICK D \in Nat \ {0} : D = SlotsPerDay /\ D <= N
    <2>1. SlotsPerDay \in Nat \ {0} /\ WeekDays \in Nat \ {0} /\ SlotsPerWeek = SlotsPerDay * WeekDays
      BY RingSize DEF SlotsPerWeek
    <2>2. SlotsPerDay * 1 <= SlotsPerDay * WeekDays /\ SlotsPerDay * 1 = SlotsPerDay
      BY <2>1, ProductGrows, 1 \in Nat, 1 <= WeekDays
    <2> QED
      BY <1>2, <2>1, <2>2
  <1>4. block.length \in 1..D /\ block.start \in Int
    BY <1>3, RingSize DEF Fits
  <1>5. ASSUME NEW day \in block.days, NEW k \in Int
        PROVE  (day * SlotsPerDay + block.start + k) % SlotsPerWeek = Ahead(FirstSlot(block, day), k)
    BY DEF Ahead, FirstSlot
  <1>6. ASSUME n \in 0..SlotsPerDay, n < block.length, NEW day \in block.days,
               slot = (day * SlotsPerDay + block.start + n) % SlotsPerWeek
        PROVE  /\ Reaches(block, slot) # {}
               /\ n = Distance(FirstSlot(block, CHOOSE d \in Reaches(block, slot) : TRUE), slot)
    <2>1. n \in Slots /\ n \in Int
      BY <1>2, <1>3, <1>4, <1>6
    <2>2. slot = Ahead(FirstSlot(block, day), n)
      BY <1>5, <1>6, <2>1
    <2>3. n = Distance(FirstSlot(block, day), slot)
      BY <1>1, <2>1, <2>2, DistanceIs
    <2>4. day \in Reaches(block, slot)
      BY <1>6, <2>3 DEF Reaches
    <2>5. (CHOOSE d \in Reaches(block, slot) : TRUE) = day
      BY <2>4, ReachesFromOneDay
    <2> QED
      BY <2>3, <2>4, <2>5
  <1>7. ASSUME NEW day \in Reaches(block, slot), n = Distance(FirstSlot(block, day), slot)
        PROVE  /\ n \in 0..SlotsPerDay /\ n < block.length
               /\ \E d \in block.days : slot = (d * SlotsPerDay + block.start + n) % SlotsPerWeek
    <2>1. day \in block.days /\ n < block.length
      BY <1>7 DEF Reaches
    <2>2. n \in Slots /\ slot = Ahead(FirstSlot(block, day), n)
      BY <1>1, <1>7, <2>1, DistanceIs
    <2>3. n \in Int /\ n \in 0..SlotsPerDay
      BY <1>2, <1>3, <1>4, <2>1, <2>2
    <2>4. slot = (day * SlotsPerDay + block.start + n) % SlotsPerWeek
      BY <1>5, <2>1, <2>2, <2>3
    <2> QED
      BY <2>1, <2>3, <2>4
  <1>8. Reaches(block, slot) # {} => (CHOOSE d \in Reaches(block, slot) : TRUE) \in Reaches(block, slot)
    OBVIOUS
  <1> QED
    BY <1>6, <1>7, <1>8

\* A claimant of a slot is the position of a block that stakes a claim on it, with the
\* age of that claim.
LEMMA ClaimantsAreClaims ==
    ASSUME NilIsNoClaim, Sound, NEW target, NEW slot \in Slots
    PROVE  /\ \A p \in Claimants(target, slot) :
                \E i \in DOMAIN Week : \E j \in DOMAIN Week[i].blocks :
                   p = <<<<i, j>>, Claim(Week, slot, i, j).age>> /\ Claims(Week, target, slot, i, j)
           /\ \A i \in DOMAIN Week : \A j \in DOMAIN Week[i].blocks :
                Claims(Week, target, slot, i, j)
                    => <<<<i, j>>, Claim(Week, slot, i, j).age>> \in Claimants(target, slot)
  <1>1. \A p : p \in Positions <=> \E i \in DOMAIN Week : \E j \in DOMAIN Week[i].blocks : p = <<i, j>>
    BY DEF Positions
  <1>2. ASSUME NEW i \in DOMAIN Week, NEW j \in DOMAIN Week[i].blocks, NEW n
        PROVE  <<<<i, j>>, n>> \in Claimants(target, slot)
                 <=> Claims(Week, target, slot, i, j) /\ n = Claim(Week, slot, i, j).age
    <2> DEFINE block == Week[i].blocks[j]
    <2>1. Fits(block)
      BY WeekIsReadable
    <2>2. <<i, j>> \in Positions
      BY <1>1
    <2>3. <<<<i, j>>, n>> \in Claimants(target, slot)
            <=> /\ Week[i].enabled /\ target \in Week[i].targets
                /\ n \in 0..SlotsPerDay /\ n < block.length
                /\ \E day \in block.days : slot = (day * SlotsPerDay + block.start + n) % SlotsPerWeek
      BY <2>2 DEF Claimants
    <2>4. Claim(Week, slot, i, j).age
            = Distance(FirstSlot(block, CHOOSE day \in Reaches(block, slot) : TRUE), slot)
      BY DEF Claim, ClaimOn
    <2> HIDE DEF block
    <2>5. <<<<i, j>>, n>> \in Claimants(target, slot)
            <=> /\ Week[i].enabled /\ target \in Week[i].targets
                /\ Reaches(block, slot) # {} /\ n = Claim(Week, slot, i, j).age
      BY <2>1, <2>3, <2>4, ClaimantsStake
    <2> QED
      BY <2>5 DEF Claims, InForce, block
  <1>3. ASSUME NEW p \in Claimants(target, slot)
        PROVE  \E i \in DOMAIN Week : \E j \in DOMAIN Week[i].blocks :
                   p = <<<<i, j>>, Claim(Week, slot, i, j).age>> /\ Claims(Week, target, slot, i, j)
    <2>1. PICK position \in Positions, n \in 0..SlotsPerDay : p = <<position, n>>
      <3>1. p \in Positions \X (0..SlotsPerDay)
        BY Zenon DEF Claimants
      <3> QED
        BY <3>1
    <2>2. PICK i \in DOMAIN Week : \E j \in DOMAIN Week[i].blocks : position = <<i, j>>
      BY <1>1
    <2>3. PICK j \in DOMAIN Week[i].blocks : position = <<i, j>>
      BY <2>2
    <2> QED
      BY <1>2, <1>3, <2>1, <2>3
  <1> QED
    BY <1>2, <1>3

\* Of every document that can come to be stored: each slot of the week goes to the
\* claimant that precedes all others, as the document says it, and a slot nobody claims
\* is a gap.  (ring.go Resolve, claimBlock, beats)
THEOREM ResolverPicksTheBest ==
    ASSUME NilIsNoClaim
    PROVE  Stored => []ResolvePicksBest
  <1>1. Sound => ResolvePicksBest
    <2> SUFFICES ASSUME Sound, NEW target \in Scheduled, NEW slot \in Slots
                 PROVE  LET all == Claimants(target, slot)
                            won == Resolve(Week, target)[slot]
                        IN IF all = {} THEN won = NoClaim
                           ELSE \E p \in all :
                                  /\ \A q \in all \ {p} : Precedes(p, q)
                                  /\ Key(won) = <<Week[p[1][1]].id, Week[p[1][1]].blocks[p[1][2]].id>>
                                  /\ won.age = p[2] /\ won.start = (slot - p[2]) % SlotsPerWeek
      BY DEF ResolvePicksBest
    <2> DEFINE all == Claimants(target, slot)
               won == Winner(Week, target, slot)
    <2>1. Resolve(Week, target)[slot] = won
      BY DEF Resolve
    <2>2. Readable(Week, slot)
      BY WeekIsReadable
    <2> HIDE DEF all, won
    <2>3. CASE /\ won = NoClaim
               /\ \A k \in DOMAIN Week : \A l \in DOMAIN Week[k].blocks : ~Claims(Week, target, slot, k, l)
      <3>1. all = {}
        BY <2>3, ClaimantsAreClaims DEF all
      <3> QED
        BY <2>1, <2>3, <3>1 DEF all
    <2>4. ASSUME NEW i \in DOMAIN Week, NEW j \in DOMAIN Week[i].blocks,
                 Claims(Week, target, slot, i, j), won = Claim(Week, slot, i, j),
                 \A k \in DOMAIN Week : \A l \in DOMAIN Week[k].blocks :
                     Claims(Week, target, slot, k, l) /\ (k # i \/ l # j)
                         => Outranks(Week, slot, i, j, k, l)
          PROVE  \E p \in all :
                    /\ \A q \in all \ {p} : Precedes(p, q)
                    /\ Key(won) = <<Week[p[1][1]].id, Week[p[1][1]].blocks[p[1][2]].id>>
                    /\ won.age = p[2] /\ won.start = (slot - p[2]) % SlotsPerWeek
      <3> DEFINE p == <<<<i, j>>, won.age>>
                 block == Week[i].blocks[j]
                 first == FirstSlot(block, CHOOSE day \in Reaches(block, slot) : TRUE)
      <3>1. p \in all
        BY <2>4, ClaimantsAreClaims DEF all
      <3>2. ASSUME NEW q \in all \ {p}
            PROVE  Precedes(p, q)
        <4>1. PICK k \in DOMAIN Week : \E l \in DOMAIN Week[k].blocks :
                  q = <<<<k, l>>, Claim(Week, slot, k, l).age>> /\ Claims(Week, target, slot, k, l)
          BY <3>2, ClaimantsAreClaims DEF all
        <4>2. PICK l \in DOMAIN Week[k].blocks :
                  q = <<<<k, l>>, Claim(Week, slot, k, l).age>> /\ Claims(Week, target, slot, k, l)
          BY <4>1
        <4>3. k # i \/ l # j
          BY <2>4, <3>2, <4>2
        <4>4. Outranks(Week, slot, i, j, k, l)
          BY <2>4, <4>2, <4>3
        <4>5. Claim(Week, slot, i, j).priority = Week[i].priority
              /\ Claim(Week, slot, k, l).priority = Week[k].priority
          BY DEF Claim, ClaimOn
        <4> QED
          BY <2>4, <4>2, <4>4, <4>5 DEF Outranks, Precedes, EarlierPosition
      <3>3. /\ won.schedule = Week[i].id /\ won.block = block.id
            /\ won.start = first /\ won.age = Distance(first, slot)
        BY <2>4 DEF Claim, ClaimOn
      <3>4. won # NoClaim
        BY <2>2, <2>4 DEF Readable, Claim
      <3>5. Key(won) = <<Week[i].id, block.id>>
        BY <3>3, <3>4 DEF Key
      <3>6. first \in Slots
        <4>1. Reaches(block, slot) # {}
          BY <2>4 DEF Claims
        <4>2. (CHOOSE day \in Reaches(block, slot) : TRUE) \in block.days
          BY <4>1 DEF Reaches
        <4>3. Fits(block)
          BY WeekIsReadable
        <4> QED
          BY <4>2, <4>3, FirstIsSlot
      <3>7. won.start = (slot - won.age) % SlotsPerWeek
        BY <3>3, <3>6, DistanceIs
      <3>8. p[1][1] = i /\ p[1][2] = j /\ p[2] = won.age
        OBVIOUS
      <3> HIDE DEF p
      <3> QED
        BY <3>1, <3>2, <3>5, <3>7, <3>8 DEF block
    <2>5. all # {} \/ won = NoClaim
      BY <2>2, <2>4, WinnerIsBest DEF won
    <2> QED
      BY <2>1, <2>2, <2>3, <2>4, <2>5, WinnerIsBest DEF all, won
  <1> QED
    BY <1>1, StoredIsSound, PTL

\* So many minutes after the start of a block, counted around the week, is so many
\* slots after its first slot and so far into the slot.
LEMMA MinutesFollowSlots ==
    ASSUME NEW k \in Nat \ {0}, NEW N \in Nat \ {0}, NEW f \in 0..(N - 1), NEW t \in 0..(k * N - 1),
           NEW L \in Nat
    PROVE  /\ t \div k \in 0..(N - 1)
           /\ (t - k * f) % (k * N) < k * L <=> (t \div k - f) % N < L
  <1> DEFINE S == t \div k
  <1>1. S \in Nat /\ k * S <= t /\ t < k * S + k
    BY Division
  <1> HIDE DEF S
  <1>2. S < N
    <2> SUFFICES ASSUME N <= S PROVE FALSE
      BY <1>1
    <2>1. k * N <= k * S
      BY <1>1, ProductGrows
    <2> QED
      BY <1>1, <2>1
  <1>3. PICK dist \in 0..(N - 1) : dist = (S - f) % N /\ dist = IF S < f THEN S - f + N ELSE S - f
    <2>1. S - f \in Int /\ -N < S - f /\ S - f < N
      BY <1>1, <1>2
    <2>2. (S - f) % N = IF S - f < 0 THEN S - f + N ELSE S - f
      BY <2>1, ModBack
    <2> QED
      BY <1>1, <1>2, <2>2
  <1>4. PICK r \in 0..(k - 1) : t = k * S + r
    <2>1. t - k * S \in 0..(k - 1) /\ t = k * S + (t - k * S)
      BY <1>1
    <2> QED
      BY <2>1
  <1>5. /\ k * S \in Nat /\ k * f \in Nat /\ k * N \in Nat \ {0} /\ k * dist \in Nat /\ k * L \in Nat
        /\ k * dist = IF S < f THEN k * S - k * f + k * N ELSE k * S - k * f
    <2>1. k * dist = IF S < f THEN k * S - k * f + k * N ELSE k * S - k * f
      <3>1. CASE S < f
        <4>1. k * (S - f + N) = k * S - k * f + k * N
          BY <1>1
        <4> QED
          BY <1>3, <3>1, <4>1
      <3>2. CASE ~(S < f)
        <4>1. k * (S - f) = k * S - k * f
          BY <1>1
        <4> QED
          BY <1>3, <3>2, <4>1
      <3> QED
        BY <3>1, <3>2
    <2>2. k * N \in Nat /\ k * 1 <= k * N
      BY ProductGrows, 1 \in Nat, 1 <= N
    <2> QED
      BY <1>1, <2>1, <2>2
  <1>6. k * dist + k <= k * N
    <2>1. k * (dist + 1) <= k * N
      BY <1>3, ProductGrows, dist + 1 \in Nat, dist + 1 <= N
    <2> QED
      BY <2>1
  <1>7. PICK a \in Nat, b \in Nat, M \in Nat \ {0}, x \in Nat :
            /\ a = k * S /\ b = k * f /\ M = k * N /\ x = k * dist
            /\ x = IF S < f THEN a - b + M ELSE a - b
            /\ x + k <= M
    BY <1>5, <1>6
  <1>8. (t - b) % M = x + r
    <2>1. b + k <= M
      <3>1. k * (f + 1) <= k * N
        BY ProductGrows, f + 1 \in Nat, f + 1 <= N
      <3>2. k * (f + 1) = k * f + k
        OBVIOUS
      <3> QED
        BY <1>7, <3>1, <3>2
    <2>2. t - b = (IF S < f THEN x - M ELSE x) + r
      BY <1>4, <1>7
    <2>3. t - b \in Int /\ -M < t - b /\ t - b < M
      BY <1>4, <1>7, <2>1
    <2>4. (t - b) % M = IF t - b < 0 THEN t - b + M ELSE t - b
      BY <2>3, ModBack
    <2> QED
      BY <1>4, <1>7, <2>2, <2>4
  <1>9. x + r < k * L <=> dist < L
    <2>1. CASE dist < L
      <3>1. k * (dist + 1) <= k * L
        BY <2>1, ProductGrows, dist + 1 \in Nat, dist + 1 <= L
      <3>2. k * (dist + 1) = x + k
        BY <1>7
      <3> QED
        BY <1>4, <1>5, <2>1, <3>1, <3>2
    <2>2. CASE ~(dist < L)
      <3>1. k * L <= k * dist
        BY <2>2, ProductGrows, dist \in Nat, L <= dist
      <3> QED
        BY <1>4, <1>5, <1>7, <2>2, <3>1
    <2> QED
      BY <2>1, <2>2
  <1> QED
    BY <1>1, <1>2, <1>3, <1>7, <1>8, <1>9 DEF S

\* Of every document that can come to be stored: a block claims exactly the minutes of
\* the week its clocks name, each slot from one of its days, under an id of its own.
\* (model.go Validate, parseClock and Duration, ring.go claimBlock)
THEOREM AcceptedBlocksMeanTheirClocks == Stored => []BlocksMeanTheirClocks
  <1>1. Sound => BlocksMeanTheirClocks
    <2> SUFFICES ASSUME Sound, NEW i \in DOMAIN document, NEW j \in DOMAIN document[i].blocks
                 PROVE  LET block == document[i].blocks[j]
                            reach(slot) == Reaches(ExpandBlock(block), slot)
                        IN /\ {m \in Minutes : reach(m \div SlotMinutes) # {}} = MinutesNamed(block)
                           /\ \A slot \in Slots : Cardinality(reach(slot)) <= 1
                           /\ \A k \in DOMAIN document[i].blocks \ {j} : document[i].blocks[k].id # block.id
      BY DEF BlocksMeanTheirClocks
    <2> DEFINE block == document[i].blocks[j]
               shape == ExpandBlock(block)
               k == SlotMinutes
               N == SlotsPerWeek
    <2>1. ScheduleOk(document[i]) /\ DecodedSchedule(document[i])
      BY DEF Sound, Valid, Decoded, ToSet
    <2>2. BlockOk(Kind(document[i]), block) /\ DecodedBlock(block)
      BY <2>1 DEF ScheduleOk, DecodedSchedule, ToSet
    <2>3. /\ Fits(shape) /\ block.start = k * shape.start /\ Duration(block) = k * shape.length
          /\ block.end \in Int /\ shape.days = ToSet(block.days)
      <3>1. /\ Fits(shape) /\ block.start = k * shape.start /\ Duration(block) = k * shape.length
            /\ block.end \in Int
        BY <2>2, BlockFits DEF DecodedBlock
      <3> QED
        BY <3>1 DEF ExpandBlock
    <2> HIDE DEF block, shape
    <2>4. ASSUME NEW slot \in Slots
          PROVE  Cardinality(Reaches(shape, slot)) <= 1
      <3>1. CASE Reaches(shape, slot) = {}
        BY <3>1, FS_EmptySet
      <3>2. ASSUME NEW day \in Reaches(shape, slot)
            PROVE  Cardinality(Reaches(shape, slot)) <= 1
        <4>1. Reaches(shape, slot) = {day}
          BY <2>3, ReachesFromOneDay
        <4>2. Cardinality({day}) = 1
          BY FS_Singleton
        <4> QED
          BY <4>1, <4>2
      <3> QED
        BY <3>1, <3>2
    <2>5. ASSUME NEW other \in DOMAIN document[i].blocks \ {j}
          PROVE  document[i].blocks[other].id # block.id
      <3>1. IsInjective([l \in DOMAIN document[i].blocks |-> document[i].blocks[l].id])
        BY <2>1 DEF ScheduleOk
      <3> QED
        BY <3>1 DEF IsInjective, block
    <2>6. k \in Nat \ {0} /\ N \in Nat \ {0} /\ WeekDays * MinutesPerDay = k * N /\ Slots = 0..(N - 1)
          /\ Minutes = 0..(k * N - 1)
      <3>1. k \in Nat \ {0} /\ N \in Nat \ {0} /\ Slots = 0..(N - 1)
        BY GridIsPositive, Ring DEF Slots
      <3>2. WeekDays * (SlotsPerDay * k) = k * (WeekDays * SlotsPerDay)
        BY GridIsPositive, RingSize
      <3> QED
        BY <3>1, <3>2 DEF MinutesPerDay, SlotsPerWeek, Minutes
    <2>7. ASSUME NEW m \in Minutes
          PROVE  (Reaches(shape, m \div k) # {}) <=> m \in MinutesNamed(block)
      <3>1. ASSUME NEW day \in shape.days
            PROVE  /\ m \div k \in Slots
                   /\ Distance(FirstSlot(shape, day), m \div k) < shape.length
                        <=> (m - (day * MinutesPerDay + block.start)) % (WeekDays * MinutesPerDay)
                                < Duration(block)
        <4> DEFINE f == FirstSlot(shape, day)
        <4>1. f \in 0..(N - 1) /\ shape.length \in Nat
          BY <2>3, <2>6, FirstIsSlot, RingSize DEF Fits
        <4>2. day * MinutesPerDay + block.start = k * f
          <5>1. day \in Int /\ shape.start \in Int /\ SlotsPerDay \in Int /\ k \in Int
            BY <2>3, RingSize, GridIsPositive DEF Fits
          <5>2. k * (day * SlotsPerDay + shape.start) = day * (SlotsPerDay * k) + k * shape.start
            BY <5>1
          <5> QED
            BY <2>3, <5>2 DEF MinutesPerDay, FirstSlot
        <4> HIDE DEF f, k, N
        <4>3. /\ m \div k \in 0..(N - 1)
              /\ (m - k * f) % (k * N) < k * shape.length <=> (m \div k - f) % N < shape.length
          BY <2>6, <4>1, MinutesFollowSlots
        <4> QED
          BY <2>3, <2>6, <4>2, <4>3 DEF Distance, f, N
      <3>2. Duration(block) = IF block.end > block.start THEN block.end - block.start
                              ELSE MinutesPerDay - block.start + block.end
        <4>1. block.start \in Int /\ MinutesPerDay \in Int
          BY <2>3, RingSize, GridIsPositive DEF Fits, MinutesPerDay
        <4> QED
          BY <2>3, <4>1 DEF Duration
      <3>3. shape.days # {}
        <4>1. block.days # <<>> /\ block.days \in Seq(Int)
          BY <2>2 DEF BlockOk, DecodedBlock
        <4>2. Len(block.days) \in Nat \ {0} /\ DOMAIN block.days = 1..Len(block.days)
          BY <4>1, EmptySeq, LenProperties
        <4>3. block.days[1] \in ToSet(block.days)
          BY <4>2 DEF ToSet
        <4> QED
          BY <2>3, <4>3
      <3> HIDE DEF k
      <3>4. m \in MinutesNamed(block)
              <=> \E day \in shape.days :
                    (m - (day * MinutesPerDay + block.start)) % (WeekDays * MinutesPerDay) < Duration(block)
        BY <2>3, <3>2 DEF MinutesNamed
      <3>5. (Reaches(shape, m \div k) # {})
              <=> \E day \in shape.days : Distance(FirstSlot(shape, day), m \div k) < shape.length
        BY DEF Reaches
      <3> QED
        BY <3>1, <3>3, <3>4, <3>5
    <2>8. {m \in Minutes : Reaches(shape, m \div k) # {}} = MinutesNamed(block)
      <3>1. MinutesNamed(block) \subseteq Minutes
        BY DEF MinutesNamed
      <3> HIDE DEF k
      <3>2. \A m \in Minutes : (Reaches(shape, m \div k) # {}) <=> m \in MinutesNamed(block)
        BY <2>7
      <3> QED
        BY <3>1, <3>2, Zenon
    <2> QED
      BY <2>4, <2>5, <2>8 DEF block, shape
  <1> QED
    BY <1>1, StoredIsSound, PTL

----------------------------------------------------------------------------
(* The calendar of the editor: what the folds of Segments and Conflicts    *)
(* build, slot by slot, for a week of any number of slots.                 *)

\* The runs of winners a day can be cut into.
Runs(week, day) ==
    [ key : {Key(week[day * SlotsPerDay + i]) : i \in 0..(SlotsPerDay - 1)},
      from : 0..SlotsPerDay, to : 0..SlotsPerDay ]

\* What the slot i of the day makes of the runs so far.
ExtendRuns(week, day, out, i) ==
    LET claim == week[day * SlotsPerDay + i]
    IN IF claim = NoClaim THEN out
       ELSE IF out # <<>> /\ Continues(Last(out), i, Key(claim))
            THEN [out EXCEPT ![Len(out)].to = i + 1]
            ELSE Append(out, [key |-> Key(claim), from |-> i, to |-> i + 1])

\* The runs draw the first k slots of the day as the week has them.
Draws(week, day, out, k) ==
    /\ \A m \in 1..Len(out) : out[m].from < out[m].to /\ out[m].to <= k
    /\ \A m \in 1..Len(out) : \A i \in out[m].from..(out[m].to - 1) :
          week[day * SlotsPerDay + i] # NoClaim /\ Key(week[day * SlotsPerDay + i]) = out[m].key
    /\ \A i \in 0..(k - 1) : week[day * SlotsPerDay + i] # NoClaim =>
          \E m \in 1..Len(out) : i \in out[m].from..(out[m].to - 1)
    /\ \A m \in 1..(Len(out) - 1) :
          /\ out[m].to <= out[m + 1].from
          /\ out[m].to = out[m + 1].from => out[m].key # out[m + 1].key

\* Changing or adding the last element of a list leaves the others alone.
LEMMA LastOf ==
    ASSUME NEW S, NEW out \in Seq(S), NEW e \in S
    PROVE  /\ Len(out) \in Nat /\ \A m \in 1..Len(out) : out[m] \in S
           /\ LET longer == Append(out, e) IN
              /\ longer \in Seq(S) /\ Len(longer) = Len(out) + 1 /\ longer[Len(out) + 1] = e
              /\ \A m \in 1..Len(out) : longer[m] = out[m]
           /\ out # <<>> =>
                LET changed == [out EXCEPT ![Len(out)] = e] IN
                /\ Len(out) \in 1..Len(out) /\ Last(out) = out[Len(out)]
                /\ changed \in Seq(S) /\ Len(changed) = Len(out) /\ changed[Len(out)] = e
                /\ \A m \in 1..(Len(out) - 1) : changed[m] = out[m]
  <1>1. /\ Len(out) \in Nat /\ DOMAIN out = 1..Len(out) /\ out \in [1..Len(out) -> S]
    BY LenProperties
  <1>2. /\ Append(out, e) \in Seq(S) /\ Len(Append(out, e)) = Len(out) + 1
        /\ Append(out, e)[Len(out) + 1] = e
        /\ \A m \in 1..Len(out) : Append(out, e)[m] = out[m]
    BY AppendProperties
  <1>3. ASSUME out # <<>>
        PROVE  LET changed == [out EXCEPT ![Len(out)] = e] IN
               /\ Len(out) \in 1..Len(out) /\ Last(out) = out[Len(out)]
               /\ changed \in Seq(S) /\ Len(changed) = Len(out) /\ changed[Len(out)] = e
               /\ \A m \in 1..(Len(out) - 1) : changed[m] = out[m]
    <2>1. Len(out) # 0
      BY <1>3, EmptySeq
    <2>2. Len(out) \in 1..Len(out)
      BY <1>1, <2>1
    <2>3. [out EXCEPT ![Len(out)] = e] \in Seq(S) /\ Len([out EXCEPT ![Len(out)] = e]) = Len(out)
      BY <2>2, ExceptSeq
    <2>4. [out EXCEPT ![Len(out)] = e][Len(out)] = e
      BY <2>2, ExceptSeq
    <2>5. \A m \in 1..(Len(out) - 1) : [out EXCEPT ![Len(out)] = e][m] = out[m]
      <3>1. \A m \in 1..(Len(out) - 1) : m \in 1..Len(out) /\ m # Len(out)
        <4>1. \A l \in Nat : \A m \in 1..(l - 1) : m \in 1..l /\ m # l
          OBVIOUS
        <4> QED
          BY <1>1, <4>1
      <3> QED
        BY <2>2, <3>1, ExceptSeq
    <2> QED
      BY <2>2, <2>3, <2>4, <2>5 DEF Last
  <1> QED
    BY <1>1, <1>2, <1>3

\* One slot later they draw one slot more.
LEMMA OneSlotMore ==
    ASSUME NEW week, NEW day, NEW k \in 0..(SlotsPerDay - 1),
           NEW out \in Seq(Runs(week, day)), Draws(week, day, out, k)
    PROVE  Draws(week, day, ExtendRuns(week, day, out, k), k + 1)
  <1> DEFINE claim(i) == week[day * SlotsPerDay + i]
             n == Len(out)
             final == out[n]
             next == ExtendRuns(week, day, out, k)
             run == [key |-> Key(claim(k)), from |-> k, to |-> k + 1]
  <1> USE RingSize
  <1>1. /\ n \in Nat /\ k \in Nat
        /\ \A m \in 1..n : /\ out[m] \in Runs(week, day)
                           /\ out[m].from \in Nat /\ out[m].to \in Nat
    <2>1. n \in Nat /\ \A m \in 1..n : out[m] \in Runs(week, day)
      BY LenProperties
    <2>2. \A r \in Runs(week, day) : r.from \in Nat /\ r.to \in Nat
      BY DEF Runs
    <2> QED
      BY <2>1, <2>2
  <1>2. CASE claim(k) = NoClaim
    <2>1. next = out
      BY <1>2 DEF ExtendRuns
    <2> HIDE DEF next
    <2> QED
      <3>1. \A i \in 0..((k + 1) - 1) : claim(i) # NoClaim => i \in 0..(k - 1)
        BY <1>1, <1>2
      <3>2. \A m \in 1..n : out[m].to <= k + 1
        BY <1>1 DEF Draws
      <3> QED
        BY <2>1, <3>1, <3>2 DEF Draws, next
  <1>3. CASE claim(k) # NoClaim /\ out # <<>> /\ Continues(Last(out), k, Key(claim(k)))
    <2> DEFINE longer == [final EXCEPT !.to = k + 1]
    <2>1. n \in 1..n /\ Last(out) = final
      <3>1. \E e : e \in Runs(week, day)
        BY <1>1, <1>3, EmptySeq
      <3> QED
        BY <1>3, <3>1, LastOf
    <2>2. final.to = k /\ final.key = Key(claim(k)) /\ final.from < k /\ final \in Runs(week, day)
      BY <1>1, <1>3, <2>1 DEF Continues, Draws
    <2>3. longer \in Runs(week, day) /\ longer.from = final.from /\ longer.to = k + 1 /\ longer.key = final.key
      <3>1. final = [key |-> final.key, from |-> final.from, to |-> final.to]
        BY <2>2 DEF Runs
      <3>2. longer = [key |-> final.key, from |-> final.from, to |-> k + 1]
        BY <3>1
      <3>3. k + 1 \in 0..SlotsPerDay
        BY <1>1
      <3> QED
        BY <2>2, <3>2, <3>3 DEF Runs
    <2>4. next = [out EXCEPT ![n] = longer]
      BY <1>3 DEF ExtendRuns
    <2> HIDE DEF longer, next
    <2>5. Len(next) = n /\ next[n] = longer /\ \A m \in 1..(n - 1) : next[m] = out[m]
      BY <1>3, <2>3, <2>4, LastOf
    <2>6. \A m \in 1..n : /\ next[m].from = out[m].from /\ next[m].key = out[m].key
                          /\ next[m].to = IF m = n THEN k + 1 ELSE out[m].to
      <3>1. \A m \in 1..n : m = n \/ m \in 1..(n - 1)
        BY <1>1
      <3>2. \A m \in 1..(n - 1) : m # n
        BY <1>1
      <3>3. out[n].to = k /\ next[n].from = out[n].from /\ next[n].key = out[n].key /\ next[n].to = k + 1
        BY <2>2, <2>3, <2>5
      <3> QED
        BY <2>5, <3>1, <3>2, <3>3
    <2> HIDE DEF n, claim
    <2>7. \A m \in 1..n : next[m].from < next[m].to /\ next[m].to <= k + 1
      <3>1. \A m \in 1..n : out[m].from < out[m].to /\ out[m].to <= k
        BY DEF Draws, n
      <3>2. final.from < k + 1 /\ k <= k + 1
        BY <1>1, <2>1, <2>2
      <3> QED
        BY <1>1, <2>6, <3>1, <3>2
    <2>8. \A m \in 1..n : \A i \in next[m].from..(next[m].to - 1) :
             claim(i) # NoClaim /\ Key(claim(i)) = next[m].key
      <3> SUFFICES ASSUME NEW m \in 1..n, NEW i \in next[m].from..(next[m].to - 1)
                   PROVE  claim(i) # NoClaim /\ Key(claim(i)) = next[m].key
        OBVIOUS
      <3>1. CASE i = k /\ m = n
        BY <1>3, <2>2, <2>6, <3>1
      <3>2. CASE ~(i = k /\ m = n)
        <4>1. i \in out[m].from..(out[m].to - 1)
          <5>1. CASE m = n
            BY <1>1, <2>1, <2>2, <2>6, <3>2, <5>1
          <5>2. CASE m # n
            BY <2>6, <5>2
          <5> QED
            BY <5>1, <5>2
        <4> QED
          BY <2>6, <4>1 DEF Draws, n, claim
      <3> QED
        BY <3>1, <3>2
    <2>9. \A i \in 0..k : claim(i) # NoClaim => \E m \in 1..n : i \in next[m].from..(next[m].to - 1)
      <3> SUFFICES ASSUME NEW i \in 0..k, claim(i) # NoClaim
                   PROVE  \E m \in 1..n : i \in next[m].from..(next[m].to - 1)
        OBVIOUS
      <3>1. CASE i = k
        <4>1. i \in next[n].from..(next[n].to - 1)
          BY <1>1, <2>1, <2>2, <2>6, <3>1
        <4> QED
          BY <2>1, <4>1
      <3>2. CASE i # k
        <4>1. i \in 0..(k - 1)
          BY <1>1, <3>2
        <4>2. PICK m \in 1..n : i \in out[m].from..(out[m].to - 1)
          BY <4>1 DEF Draws, n, claim
        <4>3. i \in next[m].from..(next[m].to - 1)
          BY <1>1, <2>2, <2>6, <4>1, <4>2
        <4> QED
          BY <4>3
      <3> QED
        BY <3>1, <3>2
    <2>10. \A m \in 1..(n - 1) : /\ next[m].to <= next[m + 1].from
                                 /\ next[m].to = next[m + 1].from => next[m].key # next[m + 1].key
      <3> SUFFICES ASSUME NEW m \in 1..(n - 1)
                   PROVE  /\ next[m].to <= next[m + 1].from
                          /\ next[m].to = next[m + 1].from => next[m].key # next[m + 1].key
        OBVIOUS
      <3>1. m \in 1..n /\ m + 1 \in 1..n /\ m # n
        BY <1>1
      <3>2. /\ out[m].to <= out[m + 1].from
            /\ out[m].to = out[m + 1].from => out[m].key # out[m + 1].key
        BY DEF Draws, n
      <3> QED
        BY <2>6, <3>1, <3>2
    <2> QED
      <3>1. (k + 1) - 1 = k
        BY <1>1
      <3> QED
        BY <2>5, <2>7, <2>8, <2>9, <2>10, <3>1, Zenon DEF Draws, claim, next
  <1>4. CASE claim(k) # NoClaim /\ ~(out # <<>> /\ Continues(Last(out), k, Key(claim(k))))
    <2>1. next = Append(out, run)
      BY <1>4 DEF ExtendRuns
    <2>2. run \in Runs(week, day) /\ run.key = Key(claim(k)) /\ run.from = k /\ run.to = k + 1
      BY <1>1 DEF Runs
    <2>3. n # 0 => out # <<>> /\ Last(out) = final
      BY EmptySeq DEF Last
    <2>4. n # 0 /\ final.to = k => final.key # Key(claim(k))
      BY <1>4, <2>3 DEF Continues
    <2> HIDE DEF run, next
    <2>5. Len(next) = n + 1 /\ next[n + 1] = run /\ \A m \in 1..n : next[m] = out[m]
      BY <2>1, <2>2, LastOf
    <2> HIDE DEF n, claim
    <2>6. \A m \in 1..(n + 1) : m \in 1..n \/ m = n + 1
      BY <1>1
    <2>7. \A m \in 1..(n + 1) : next[m].from < next[m].to /\ next[m].to <= k + 1
      BY <1>1, <2>2, <2>5, <2>6 DEF Draws, n
    <2>8. \A m \in 1..(n + 1) : \A i \in next[m].from..(next[m].to - 1) :
             claim(i) # NoClaim /\ Key(claim(i)) = next[m].key
      <3>1. ASSUME NEW i \in k..((k + 1) - 1)
            PROVE  claim(i) # NoClaim /\ Key(claim(i)) = Key(claim(k))
        <4>1. i = k
          BY <1>1
        <4> QED
          BY <1>4, <4>1
      <3>2. \A m \in 1..n : \A i \in out[m].from..(out[m].to - 1) :
              claim(i) # NoClaim /\ Key(claim(i)) = out[m].key
        BY DEF Draws, n, claim
      <3> QED
        BY <2>2, <2>5, <2>6, <3>1, <3>2
    <2>9. \A i \in 0..k : claim(i) # NoClaim => \E m \in 1..(n + 1) : i \in next[m].from..(next[m].to - 1)
      <3> SUFFICES ASSUME NEW i \in 0..k, claim(i) # NoClaim
                   PROVE  \E m \in 1..(n + 1) : i \in next[m].from..(next[m].to - 1)
        OBVIOUS
      <3>1. CASE i = k
        <4>1. i \in next[n + 1].from..(next[n + 1].to - 1) /\ n + 1 \in 1..(n + 1)
          BY <1>1, <2>2, <2>5, <3>1
        <4> QED
          BY <4>1
      <3>2. CASE i # k
        <4>1. i \in 0..(k - 1)
          BY <1>1, <3>2
        <4>2. PICK m \in 1..n : i \in out[m].from..(out[m].to - 1)
          BY <4>1 DEF Draws, n, claim
        <4> QED
          BY <1>1, <2>5, <4>2
      <3> QED
        BY <3>1, <3>2
    <2>10. \A m \in 1..n : /\ next[m].to <= next[m + 1].from
                           /\ next[m].to = next[m + 1].from => next[m].key # next[m + 1].key
      <3> SUFFICES ASSUME NEW m \in 1..n
                   PROVE  /\ next[m].to <= next[m + 1].from
                          /\ next[m].to = next[m + 1].from => next[m].key # next[m + 1].key
        OBVIOUS
      <3>1. CASE m = n
        <4>1. out[m].to <= k
          BY DEF Draws, n
        <4> QED
          BY <1>1, <2>2, <2>4, <2>5, <3>1, <4>1
      <3>2. CASE m # n
        <4>1. m \in 1..(n - 1) /\ m + 1 \in 1..n
          BY <1>1, <3>2
        <4>2. /\ out[m].to <= out[m + 1].from
              /\ out[m].to = out[m + 1].from => out[m].key # out[m + 1].key
          BY <4>1 DEF Draws, n
        <4> QED
          BY <2>5, <4>1, <4>2
      <3> QED
        BY <3>1, <3>2
    <2>11. (n + 1) - 1 = n /\ (k + 1) - 1 = k
      BY <1>1
    <2> QED
      BY <2>5, <2>7, <2>8, <2>9, <2>10, <2>11, Zenon DEF Draws, claim, next
  <1> QED
    BY <1>2, <1>3, <1>4

\* The runs after each slot of the day.
LEMMA SegmentsDraw ==
    ASSUME NEW week, NEW day
    PROVE  /\ Segments(week, day) \in Seq(Runs(week, day))
           /\ Draws(week, day, Segments(week, day), SlotsPerDay)
  <1> DEFINE n == SlotsPerDay
             slots == [i \in 1..n |-> i - 1]
             V == Seq(Runs(week, day))
             Step(v, j) == ExtendRuns(week, day, v, slots[j])
             Body(F, S) == IF S = {} THEN <<>> ELSE Step(F[S \ {Max(S)}], Max(S))
             It == CHOOSE F : F = [S \in SUBSET (DOMAIN slots) |-> Body(F, S)]
             h == [j \in 1..n |-> [v \in V |-> Step(v, j)]]
             a == [j \in 0..n |-> It[1..j]]
  <1>1. Segments(week, day) = It[DOMAIN slots]
    BY DEF Segments, ExtendRuns, FoldLeft, MapThenFoldSet
  <1>2. DOMAIN slots = 1..n /\ n \in Nat
    BY RingSize
  <1>3. ASSUME NEW j \in 1..n, NEW v \in V
        PROVE  Step(v, j) \in V
    <2> DEFINE i == slots[j]
               claim == week[day * SlotsPerDay + i]
    <2>1. i \in 0..(SlotsPerDay - 1) /\ i + 1 \in 0..SlotsPerDay /\ i \in 0..SlotsPerDay
      BY <1>2
    <2> HIDE DEF i
    <2>2. [key |-> Key(claim), from |-> i, to |-> i + 1] \in Runs(week, day)
      BY <2>1 DEF Runs
    <2>3. ASSUME v # <<>>
          PROVE  [v EXCEPT ![Len(v)].to = i + 1] \in V
      <3>1. Len(v) \in 1..Len(v) /\ v[Len(v)] \in Runs(week, day)
        BY <2>2, <2>3, LastOf
      <3>2. [v[Len(v)] EXCEPT !.to = i + 1] \in Runs(week, day)
        BY <2>1, <3>1 DEF Runs
      <3>3. [v EXCEPT ![Len(v)].to = i + 1] = [v EXCEPT ![Len(v)] = [v[Len(v)] EXCEPT !.to = i + 1]]
        OBVIOUS
      <3> QED
        BY <3>1, <3>2, <3>3, ExceptSeq
    <2>4. Append(v, [key |-> Key(claim), from |-> i, to |-> i + 1]) \in V
      BY <2>2, AppendProperties
    <2> HIDE DEF V
    <2> QED
      BY <2>3, <2>4 DEF ExtendRuns, i
  <1>V. <<>> \in V
    OBVIOUS
  <1>S. \A j \in 1..n : slots[j] = j - 1
    OBVIOUS
  <1> HIDE DEF Step, V
  <1>4. h \in [1..n -> [V -> V]]
    BY <1>3
  <1>5. \A j \in 1..n, v \in V : h[j][v] = Step(v, j)
    OBVIOUS
  <1> HIDE DEF h, n, It, slots
  <1>6. PICK F \in [SUBSET (1..n) -> V] : Folds(F, n, <<>>, h)
    BY <1>2, <1>4, <1>V, FoldExists
  <1>7. \A S \in SUBSET (1..n) : F[S] = Body(F, S)
    <2> SUFFICES ASSUME NEW S \in SUBSET (1..n), S # {}
                 PROVE  F[S] = Body(F, S)
      BY <1>6 DEF Folds
    <2>1. Max(S) \in S
      BY <1>2, GreatestBelow
    <2>2. Max(S) \in 1..n /\ S \ {Max(S)} \in SUBSET (1..n)
      BY <2>1
    <2>3. h[Max(S)][F[S \ {Max(S)}]] = Step(F[S \ {Max(S)}], Max(S))
      BY <1>5, <1>6, <2>2
    <2> QED
      BY <1>6, <2>3 DEF Folds
  <1>8. F = [S \in SUBSET (DOMAIN slots) |-> Body(F, S)]
    BY <1>2, <1>6, <1>7
  <1>9. It = [S \in SUBSET (DOMAIN slots) |-> Body(It, S)]
    BY <1>8 DEF It
  <1> DEFINE P == {k \in Nat : k <= n => a[k] \in V /\ Draws(week, day, a[k], k)}
  <1>10. 0 \in P
    <2>1. 1..0 = {} /\ 0 \in 0..n
      BY <1>2
    <2>2. a[0] = <<>>
      BY <1>9, <2>1
    <2>3. Draws(week, day, <<>>, 0)
      <3>1. Len(<<>>) = 0
        OBVIOUS
      <3> QED
        BY <3>1 DEF Draws
    <2> QED
      BY <1>V, <2>2, <2>3
  <1>11. ASSUME NEW k \in Nat, k \in P PROVE k + 1 \in P
    <2> SUFFICES ASSUME k + 1 <= n PROVE a[k + 1] \in V /\ Draws(week, day, a[k + 1], k + 1)
      OBVIOUS
    <2> DEFINE j == k + 1
    <2>1. /\ j \in 1..n /\ j # 0 /\ j \in 0..n /\ j - 1 = k /\ k \in 0..n /\ 1..j \in SUBSET (1..n) /\ j \in Nat
          /\ k \in 0..(n - 1)
      BY <1>2
    <2>2. It[1..j] = Body(It, 1..j)
      BY <1>2, <1>9, <2>1
    <2>3. a[k] \in V /\ Draws(week, day, a[k], k) /\ a[k] = It[1..k]
      BY <1>2, <1>11, <2>1
    <2> HIDE DEF j
    <2>4. It[1..j] = Step(It[1..k], j)
      BY <2>1, <2>2, InOrder
    <2>5. It[1..j] \in V
      BY <1>3, <2>1, <2>3, <2>4
    <2>6. It[1..j] = ExtendRuns(week, day, It[1..k], k)
      BY <1>S, <2>1, <2>4 DEF Step
    <2>7. Draws(week, day, It[1..j], k + 1)
      BY <2>1, <2>3, <2>6, OneSlotMore DEF V, n
    <2>8. a[j] = It[1..j]
      BY <2>1
    <2> QED
      BY <2>5, <2>7, <2>8 DEF j
  <1> HIDE DEF P
  <1>12. n \in P
    BY <1>2, <1>10, <1>11, SetInduction
  <1>13. It[1..n] \in V /\ Draws(week, day, It[1..n], n)
    BY <1>2, <1>12 DEF P
  <1> QED
    BY <1>1, <1>2, <1>13 DEF V, n

\* The segments of a day draw it as the week has it.
LEMMA SegmentsTile ==
    ASSUME NEW week, NEW day \in 0..(WeekDays - 1)
    PROVE  LET segs == Segments(week, day)
               key(i) == Key(week[day * SlotsPerDay + i])
           IN /\ \A i \in 0..(SlotsPerDay - 1) :
                    {segs[k].key : k \in {k \in DOMAIN segs : i \in segs[k].from..(segs[k].to - 1)}}
                       = (IF key(i) = <<>> THEN {} ELSE {key(i)})
              /\ \A k \in DOMAIN segs : segs[k].from < segs[k].to
              /\ \A k \in 1..(Len(segs) - 1) :
                    /\ segs[k].to <= segs[k + 1].from
                    /\ segs[k].to = segs[k + 1].from => segs[k].key # segs[k + 1].key
  <1> DEFINE segs == Segments(week, day)
             claim(i) == week[day * SlotsPerDay + i]
             drawn(i) == {k \in DOMAIN segs : i \in segs[k].from..(segs[k].to - 1)}
  <1>1. segs \in Seq(Runs(week, day)) /\ Draws(week, day, segs, SlotsPerDay)
    BY SegmentsDraw
  <1> HIDE DEF segs
  <1>2. DOMAIN segs = 1..Len(segs)
    BY <1>1, LenProperties
  <1>3. ASSUME NEW i \in 0..(SlotsPerDay - 1)
        PROVE  {segs[k].key : k \in drawn(i)} = (IF Key(claim(i)) = <<>> THEN {} ELSE {Key(claim(i))})
    <2>1. \A k \in drawn(i) : claim(i) # NoClaim /\ segs[k].key = Key(claim(i))
      BY <1>1, <1>2 DEF Draws
    <2>2. claim(i) # NoClaim => drawn(i) # {}
      BY <1>1, <1>2 DEF Draws
    <2>3. Key(claim(i)) = <<>> <=> claim(i) = NoClaim
      <3>1. \A x, y : <<x, y>> # <<>>
        OBVIOUS
      <3> QED
        BY <3>1, Zenon DEF Key
    <2> HIDE DEF drawn, claim
    <2> QED
      BY <2>1, <2>2, <2>3
  <1> QED
    BY <1>1, <1>2, <1>3 DEF Draws, segs

\* The windows conflicts can be in.
Windows(devices) ==
    [from : 0..SlotsPerWeek, to : 0..SlotsPerWeek, heating : SUBSET devices, cooling : SUBSET devices]

\* Devices of one outdoor unit want opposite things in the slot.
Clash(schedules, devices, slot) ==
    /\ InCamp(schedules, devices, "heating", slot) # {}
    /\ InCamp(schedules, devices, "cooling", slot) # {}

\* What the slot makes of the windows so far.
ExtendWindows(schedules, devices, out, slot) ==
    LET heat == InCamp(schedules, devices, "heating", slot)
        cool == InCamp(schedules, devices, "cooling", slot)
    IN IF heat = {} \/ cool = {} THEN out
       ELSE IF out # <<>> /\ Last(out).to = slot
            THEN [out EXCEPT ![Len(out)].to = slot + 1,
                             ![Len(out)].heating = @ \cup heat,
                             ![Len(out)].cooling = @ \cup cool]
            ELSE Append(out, [from |-> slot, to |-> slot + 1, heating |-> heat, cooling |-> cool])

\* The window lies in slots that clash, and names who is in them.
Names(schedules, devices, w) ==
    \A slot \in w.from..(w.to - 1) :
        /\ Clash(schedules, devices, slot)
        /\ InCamp(schedules, devices, "heating", slot) \subseteq w.heating
        /\ InCamp(schedules, devices, "cooling", slot) \subseteq w.cooling

\* The windows warn of the first k slots of the week as the document has them.
Warns(schedules, devices, out, k) ==
    /\ \A m \in 1..Len(out) : out[m].from < out[m].to /\ out[m].to <= k
    /\ \A m \in 1..Len(out) : Names(schedules, devices, out[m])
    /\ \A slot \in 0..(k - 1) : Clash(schedules, devices, slot) =>
          \E m \in 1..Len(out) : slot \in out[m].from..(out[m].to - 1)
    /\ \A m, p \in 1..Len(out) : m < p => out[m].to <= out[p].from

\* A window prolonged by one slot, or a new one, names who is in it.
LEMMA WindowGrows ==
    ASSUME NEW schedules, NEW devices, NEW k \in Slots, Clash(schedules, devices, k),
           NEW heat, heat = InCamp(schedules, devices, "heating", k),
           NEW cool, cool = InCamp(schedules, devices, "cooling", k)
    PROVE  /\ LET new == [from |-> k, to |-> k + 1, heating |-> heat, cooling |-> cool]
              IN new \in Windows(devices) /\ Names(schedules, devices, new)
           /\ \A w \in Windows(devices) :
                LET longer == [w EXCEPT !.to = k + 1, !.heating = @ \cup heat, !.cooling = @ \cup cool]
                IN /\ longer \in Windows(devices) /\ longer.from = w.from /\ longer.to = k + 1
                   /\ w.to = k /\ Names(schedules, devices, w) => Names(schedules, devices, longer)
  <1>1. k \in Nat /\ k + 1 \in 0..SlotsPerWeek /\ k \in 0..SlotsPerWeek
    BY Ring DEF Slots
  <1>2. heat \in SUBSET devices /\ cool \in SUBSET devices
    BY DEF InCamp
  <1>3. LET new == [from |-> k, to |-> k + 1, heating |-> heat, cooling |-> cool]
        IN new \in Windows(devices) /\ Names(schedules, devices, new)
    <2> DEFINE new == [from |-> k, to |-> k + 1, heating |-> heat, cooling |-> cool]
    <2>1. new \in Windows(devices) /\ new.from = k /\ new.to = k + 1 /\ new.heating = heat /\ new.cooling = cool
      BY <1>1, <1>2 DEF Windows
    <2>2. \A slot \in k..((k + 1) - 1) : slot = k
      BY <1>1
    <2> HIDE DEF new
    <2>3. Names(schedules, devices, new)
      BY <2>1, <2>2 DEF Names
    <2> QED
      BY <2>1, <2>3 DEF new
  <1>4. ASSUME NEW w \in Windows(devices)
        PROVE  LET longer == [w EXCEPT !.to = k + 1, !.heating = @ \cup heat, !.cooling = @ \cup cool]
               IN /\ longer \in Windows(devices) /\ longer.from = w.from /\ longer.to = k + 1
                  /\ w.to = k /\ Names(schedules, devices, w) => Names(schedules, devices, longer)
    <2> DEFINE longer == [w EXCEPT !.to = k + 1, !.heating = @ \cup heat, !.cooling = @ \cup cool]
    <2>1. /\ w = [from |-> w.from, to |-> w.to, heating |-> w.heating, cooling |-> w.cooling]
          /\ w.from \in 0..SlotsPerWeek /\ w.heating \in SUBSET devices /\ w.cooling \in SUBSET devices
      BY DEF Windows
    <2>2. longer = [ from |-> w.from, to |-> k + 1,
                     heating |-> w.heating \cup heat, cooling |-> w.cooling \cup cool ]
      <3>1. DOMAIN w = {"from", "to", "heating", "cooling"}
        BY DEF Windows
      <3>2. /\ DOMAIN longer = DOMAIN w /\ longer.from = w.from /\ longer.to = k + 1
            /\ longer.heating = w.heating \cup heat /\ longer.cooling = w.cooling \cup cool
        BY <3>1
      <3>3. longer = [x \in DOMAIN longer |-> longer[x]]
        OBVIOUS
      <3> HIDE DEF longer
      <3> QED
        BY <3>1, <3>2, <3>3
    <2> HIDE DEF longer
    <2>3. /\ longer.from = w.from /\ longer.to = k + 1
          /\ longer.heating = w.heating \cup heat /\ longer.cooling = w.cooling \cup cool
      BY <2>2
    <2>4. longer \in Windows(devices)
      <3>1. w.heating \cup heat \in SUBSET devices /\ w.cooling \cup cool \in SUBSET devices
        BY <1>2, <2>1
      <3> QED
        BY <1>1, <2>1, <2>2, <3>1 DEF Windows
    <2>5. ASSUME w.to = k, Names(schedules, devices, w)
          PROVE  Names(schedules, devices, longer)
      <3>1. \A slot \in w.from..((k + 1) - 1) : slot = k \/ slot \in w.from..(k - 1)
        BY <1>1, <2>1
      <3> QED
        BY <2>3, <2>5, <3>1 DEF Names
    <2> QED
      BY <2>3, <2>4, <2>5 DEF longer
  <1> QED
    BY <1>3, <1>4

\* One slot later the windows are windows.
LEMMA WindowsKeepShape ==
    ASSUME NEW schedules, NEW devices, NEW k \in Slots, NEW out \in Seq(Windows(devices))
    PROVE  ExtendWindows(schedules, devices, out, k) \in Seq(Windows(devices))
  <1> DEFINE heat == InCamp(schedules, devices, "heating", k)
             cool == InCamp(schedules, devices, "cooling", k)
             grown(w) == [w EXCEPT !.to = k + 1, !.heating = @ \cup heat, !.cooling = @ \cup cool]
             run == [from |-> k, to |-> k + 1, heating |-> heat, cooling |-> cool]
  <1> SUFFICES ASSUME Clash(schedules, devices, k)
               PROVE  ExtendWindows(schedules, devices, out, k) \in Seq(Windows(devices))
    BY DEF ExtendWindows, Clash
  <1>1. run \in Windows(devices) /\ \A w \in Windows(devices) : grown(w) \in Windows(devices)
    BY WindowGrows
  <1> HIDE DEF run
  <1>2. ASSUME out # <<>>
        PROVE  [out EXCEPT ![Len(out)] = grown(out[Len(out)])] \in Seq(Windows(devices))
    <2> HIDE DEF grown
    <2>1. Len(out) \in 1..Len(out) /\ out[Len(out)] \in Windows(devices)
      BY <1>1, <1>2, LastOf
    <2> QED
      BY <1>1, <2>1, ExceptSeq
  <1>3. Append(out, run) \in Seq(Windows(devices))
    BY <1>1, AppendProperties
  <1> QED
    BY <1>2, <1>3 DEF ExtendWindows, run

\* A position is the last one or comes before it.
LEMMA LastOrBefore ==
    ASSUME NEW l \in Nat, NEW m \in 1..l
    PROVE  m = l \/ (m \in 1..(l - 1) /\ m # l)
  OBVIOUS

\* One slot later they warn of one slot more.
LEMMA OneWarningMore ==
    ASSUME NEW schedules, NEW devices, NEW k \in Slots,
           NEW out \in Seq(Windows(devices)), Warns(schedules, devices, out, k)
    PROVE  Warns(schedules, devices, ExtendWindows(schedules, devices, out, k), k + 1)
  <1> DEFINE n == Len(out)
             final == out[n]
             next == ExtendWindows(schedules, devices, out, k)
             heat == InCamp(schedules, devices, "heating", k)
             cool == InCamp(schedules, devices, "cooling", k)
             run == [from |-> k, to |-> k + 1, heating |-> heat, cooling |-> cool]
             longer == [final EXCEPT !.to = k + 1, !.heating = @ \cup heat, !.cooling = @ \cup cool]
  <1>1. /\ n \in Nat /\ k \in Nat
        /\ \A m \in 1..n : /\ out[m] \in Windows(devices)
                           /\ out[m].from \in Nat /\ out[m].to \in Nat
    <2>1. n \in Nat /\ \A m \in 1..n : out[m] \in Windows(devices)
      BY LenProperties
    <2>2. \A w \in Windows(devices) : w.from \in Nat /\ w.to \in Nat
      BY Ring DEF Windows
    <2>3. k \in Nat
      BY Ring DEF Slots
    <2> QED
      BY <2>1, <2>2, <2>3
  <1>2. /\ \A m \in 1..n : out[m].from < out[m].to /\ out[m].to <= k
        /\ \A m \in 1..n : Names(schedules, devices, out[m])
        /\ \A slot \in 0..(k - 1) : Clash(schedules, devices, slot) =>
              \E m \in 1..n : slot \in out[m].from..(out[m].to - 1)
        /\ \A m, p \in 1..n : m < p => out[m].to <= out[p].from
    BY DEF Warns
  <1>3. CASE ~Clash(schedules, devices, k)
    <2>1. next = out
      BY <1>3 DEF ExtendWindows, Clash
    <2>2. \A slot \in 0..((k + 1) - 1) : Clash(schedules, devices, slot) => slot \in 0..(k - 1)
      BY <1>1, <1>3
    <2>3. \A m \in 1..n : out[m].to <= k + 1
      BY <1>1, <1>2
    <2> HIDE DEF next
    <2> QED
      BY <1>2, <2>1, <2>2, <2>3 DEF Warns, next
  <1>4. ASSUME Clash(schedules, devices, k)
        PROVE  /\ heat # {} /\ cool # {}
               /\ run \in Windows(devices) /\ Names(schedules, devices, run) /\ run.from = k /\ run.to = k + 1
               /\ n # 0 => /\ longer \in Windows(devices) /\ longer.from = final.from /\ longer.to = k + 1
                           /\ final.to = k => Names(schedules, devices, longer)
    <2>1. n # 0 => final \in Windows(devices) /\ Names(schedules, devices, final)
      BY <1>1, <1>2
    <2>2. heat # {} /\ cool # {}
      BY <1>4 DEF Clash
    <2>3. run \in Windows(devices) /\ Names(schedules, devices, run) /\ run.from = k /\ run.to = k + 1
      BY <1>4, WindowGrows
    <2>4. ASSUME n # 0
          PROVE  /\ longer \in Windows(devices) /\ longer.from = final.from /\ longer.to = k + 1
                 /\ final.to = k => Names(schedules, devices, longer)
      <3>1. \A w \in Windows(devices) :
               LET grown == [w EXCEPT !.to = k + 1, !.heating = @ \cup heat, !.cooling = @ \cup cool]
               IN /\ grown \in Windows(devices) /\ grown.from = w.from /\ grown.to = k + 1
                  /\ w.to = k /\ Names(schedules, devices, w) => Names(schedules, devices, grown)
        BY <1>4, WindowGrows
      <3> HIDE DEF heat, cool, final
      <3> QED
        BY <2>1, <2>4, <3>1
    <2> HIDE DEF heat, cool, run, longer
    <2> QED
      BY <2>2, <2>3, <2>4
  <1>5. CASE Clash(schedules, devices, k) /\ out # <<>> /\ Last(out).to = k
    <2>1. n \in 1..n /\ Last(out) = final
      BY <1>4, <1>5, LastOf
    <2>2. final.to = k /\ final.from < k
      BY <1>2, <1>5, <2>1
    <2>3. next = [out EXCEPT ![n] = longer]
      BY <1>4, <1>5 DEF ExtendWindows
    <2>4. /\ longer \in Windows(devices) /\ Names(schedules, devices, longer)
          /\ longer.from = final.from /\ longer.to = k + 1
      BY <1>1, <1>4, <1>5, <2>1, <2>2
    <2> HIDE DEF longer, next
    <2>5. /\ Len(next) = n /\ next[n] = longer
          /\ \A m \in 1..(n - 1) : next[m] = out[m]
      BY <1>5, <2>3, <2>4, LastOf
    <2> HIDE DEF n
    <2>6. \A m \in 1..n : m = n \/ (m \in 1..(n - 1) /\ m # n)
      BY <1>1, LastOrBefore
    <2>7. \A m \in 1..n : /\ next[m].from = out[m].from
                          /\ next[m].to = IF m = n THEN k + 1 ELSE out[m].to
      BY <2>4, <2>5, <2>6
    <2>8. \A m \in 1..n : next[m].from < next[m].to /\ next[m].to <= k + 1
      <3> SUFFICES ASSUME NEW m \in 1..n
                   PROVE  next[m].from < next[m].to /\ next[m].to <= k + 1
        OBVIOUS
      <3>1. out[m].from < out[m].to /\ out[m].to <= k /\ out[m].from \in Nat /\ out[m].to \in Nat
        BY <1>1, <1>2
      <3>2. out[m].from < k + 1 /\ out[m].to <= k + 1
        BY <1>1, <3>1
      <3> QED
        BY <1>1, <2>7, <3>1, <3>2
    <2>9. \A m \in 1..n : Names(schedules, devices, next[m])
      BY <1>2, <2>4, <2>5, <2>6
    <2>10. \A slot \in 0..k : Clash(schedules, devices, slot) =>
              \E m \in 1..n : slot \in next[m].from..(next[m].to - 1)
      <3> SUFFICES ASSUME NEW slot \in 0..k, Clash(schedules, devices, slot)
                   PROVE  \E m \in 1..n : slot \in next[m].from..(next[m].to - 1)
        OBVIOUS
      <3>1. CASE slot = k
        <4>1. slot \in next[n].from..(next[n].to - 1)
          BY <1>1, <2>1, <2>2, <2>7, <3>1
        <4> QED
          BY <2>1, <4>1
      <3>2. CASE slot # k
        <4>1. slot \in 0..(k - 1)
          BY <1>1, <3>2
        <4>2. PICK m \in 1..n : slot \in out[m].from..(out[m].to - 1)
          BY <1>2, <4>1
        <4>3. slot \in next[m].from..(next[m].to - 1)
          BY <1>1, <2>2, <2>7, <4>1, <4>2
        <4> QED
          BY <4>3
      <3> QED
        BY <3>1, <3>2
    <2>11. \A m, p \in 1..n : m < p => next[m].to <= next[p].from
      <3> SUFFICES ASSUME NEW m \in 1..n, NEW p \in 1..n, m < p
                   PROVE  next[m].to <= next[p].from
        OBVIOUS
      <3>1. m # n
        BY <1>1
      <3> QED
        BY <1>2, <2>7, <3>1
    <2>12. (k + 1) - 1 = k
      BY <1>1
    <2> QED
      BY <2>5, <2>8, <2>9, <2>10, <2>11, <2>12, Zenon DEF Warns, next
  <1>6. CASE Clash(schedules, devices, k) /\ ~(out # <<>> /\ Last(out).to = k)
    <2>1. next = Append(out, run)
      BY <1>4, <1>6 DEF ExtendWindows
    <2>2. run \in Windows(devices) /\ Names(schedules, devices, run) /\ run.from = k /\ run.to = k + 1
      BY <1>4, <1>6
    <2> HIDE DEF run, next
    <2>3. /\ Len(next) = n + 1 /\ next[n + 1] = run
          /\ \A m \in 1..n : next[m] = out[m]
      BY <2>1, <2>2, LastOf
    <2> HIDE DEF n
    <2>4. \A m \in 1..(n + 1) : m \in 1..n \/ m = n + 1
      BY <1>1
    <2>5. \A m \in 1..(n + 1) : next[m].from < next[m].to /\ next[m].to <= k + 1
      BY <1>1, <1>2, <2>2, <2>3, <2>4
    <2>6. \A m \in 1..(n + 1) : Names(schedules, devices, next[m])
      BY <1>2, <2>2, <2>3, <2>4
    <2>7. \A slot \in 0..k : Clash(schedules, devices, slot) =>
              \E m \in 1..(n + 1) : slot \in next[m].from..(next[m].to - 1)
      <3> SUFFICES ASSUME NEW slot \in 0..k, Clash(schedules, devices, slot)
                   PROVE  \E m \in 1..(n + 1) : slot \in next[m].from..(next[m].to - 1)
        OBVIOUS
      <3>1. CASE slot = k
        <4>1. slot \in next[n + 1].from..(next[n + 1].to - 1) /\ n + 1 \in 1..(n + 1)
          BY <1>1, <2>2, <2>3, <3>1
        <4> QED
          BY <4>1
      <3>2. CASE slot # k
        <4>1. slot \in 0..(k - 1)
          BY <1>1, <3>2
        <4>2. PICK m \in 1..n : slot \in out[m].from..(out[m].to - 1)
          BY <1>2, <4>1
        <4>3. m \in 1..(n + 1)
          BY <1>1
        <4> QED
          BY <2>3, <4>2, <4>3
      <3> QED
        BY <3>1, <3>2
    <2>8. \A m, p \in 1..(n + 1) : m < p => next[m].to <= next[p].from
      <3> SUFFICES ASSUME NEW m \in 1..(n + 1), NEW p \in 1..(n + 1), m < p
                   PROVE  next[m].to <= next[p].from
        OBVIOUS
      <3>1. m \in 1..n
        BY <1>1
      <3>2. CASE p = n + 1
        BY <1>2, <2>2, <2>3, <3>1, <3>2
      <3>3. CASE p \in 1..n
        BY <1>2, <2>3, <3>1, <3>3
      <3> QED
        BY <2>4, <3>2, <3>3
    <2>9. (k + 1) - 1 = k
      BY <1>1
    <2> QED
      BY <2>3, <2>5, <2>6, <2>7, <2>8, <2>9, Zenon DEF Warns, next
  <1> QED
    BY <1>3, <1>5, <1>6

\* The windows after each slot of the week.
LEMMA ConflictsWarn ==
    ASSUME NEW schedules, NEW devices
    PROVE  /\ Conflicts(schedules, devices) \in Seq(Windows(devices))
           /\ Warns(schedules, devices, Conflicts(schedules, devices), SlotsPerWeek)
  <1> DEFINE n == SlotsPerWeek
             slots == [i \in 1..n |-> i - 1]
             V == Seq(Windows(devices))
             Step(v, j) == ExtendWindows(schedules, devices, v, slots[j])
             Body(F, S) == IF S = {} THEN <<>> ELSE Step(F[S \ {Max(S)}], Max(S))
             It == CHOOSE F : F = [S \in SUBSET (DOMAIN slots) |-> Body(F, S)]
             h == [j \in 1..n |-> [v \in V |-> Step(v, j)]]
             a == [j \in 0..n |-> It[1..j]]
  <1>1. Conflicts(schedules, devices) = It[DOMAIN slots]
    BY DEF Conflicts, ExtendWindows, FoldLeft, MapThenFoldSet
  <1>2. DOMAIN slots = 1..n /\ n \in Nat
    BY Ring
  <1>3. ASSUME NEW j \in 1..n, NEW v \in V
        PROVE  Step(v, j) \in V
    <2>1. slots[j] \in Slots
      BY <1>2 DEF Slots
    <2> HIDE DEF slots
    <2> QED
      BY <2>1, WindowsKeepShape
  <1>V. <<>> \in V
    OBVIOUS
  <1>S. \A j \in 1..n : slots[j] = j - 1
    OBVIOUS
  <1> HIDE DEF Step, V
  <1>4. h \in [1..n -> [V -> V]]
    BY <1>3
  <1>5. \A j \in 1..n, v \in V : h[j][v] = Step(v, j)
    OBVIOUS
  <1> HIDE DEF h, n, It, slots
  <1>6. PICK F \in [SUBSET (1..n) -> V] : Folds(F, n, <<>>, h)
    BY <1>2, <1>4, <1>V, FoldExists
  <1>7. \A S \in SUBSET (1..n) : F[S] = Body(F, S)
    <2> SUFFICES ASSUME NEW S \in SUBSET (1..n), S # {}
                 PROVE  F[S] = Body(F, S)
      BY <1>6 DEF Folds
    <2>1. Max(S) \in S
      BY <1>2, GreatestBelow
    <2>2. Max(S) \in 1..n /\ S \ {Max(S)} \in SUBSET (1..n)
      BY <2>1
    <2>3. h[Max(S)][F[S \ {Max(S)}]] = Step(F[S \ {Max(S)}], Max(S))
      BY <1>5, <1>6, <2>2
    <2> QED
      BY <1>6, <2>3 DEF Folds
  <1>8. F = [S \in SUBSET (DOMAIN slots) |-> Body(F, S)]
    BY <1>2, <1>6, <1>7
  <1>9. It = [S \in SUBSET (DOMAIN slots) |-> Body(It, S)]
    BY <1>8 DEF It
  <1> DEFINE P == {k \in Nat : k <= n => a[k] \in V /\ Warns(schedules, devices, a[k], k)}
  <1>10. 0 \in P
    <2>1. 1..0 = {} /\ 0 \in 0..n
      BY <1>2
    <2>2. a[0] = <<>>
      BY <1>9, <2>1
    <2>3. Warns(schedules, devices, <<>>, 0)
      <3>1. Len(<<>>) = 0
        OBVIOUS
      <3> QED
        BY <3>1 DEF Warns
    <2> QED
      BY <1>V, <2>2, <2>3
  <1>11. ASSUME NEW k \in Nat, k \in P PROVE k + 1 \in P
    <2> SUFFICES ASSUME k + 1 <= n PROVE a[k + 1] \in V /\ Warns(schedules, devices, a[k + 1], k + 1)
      OBVIOUS
    <2> DEFINE j == k + 1
    <2>1. /\ j \in 1..n /\ j # 0 /\ j \in 0..n /\ j - 1 = k /\ k \in 0..n /\ 1..j \in SUBSET (1..n) /\ j \in Nat
          /\ k \in 0..(n - 1)
      BY <1>2
    <2>2. It[1..j] = Body(It, 1..j)
      BY <1>2, <1>9, <2>1
    <2>3. a[k] \in V /\ Warns(schedules, devices, a[k], k) /\ a[k] = It[1..k]
      BY <1>2, <1>11, <2>1
    <2> HIDE DEF j
    <2>4. It[1..j] = Step(It[1..k], j)
      BY <2>1, <2>2, InOrder
    <2>5. It[1..j] \in V
      BY <1>3, <2>1, <2>3, <2>4
    <2>6. It[1..j] = ExtendWindows(schedules, devices, It[1..k], k)
      BY <1>S, <2>1, <2>4 DEF Step
    <2>7. Warns(schedules, devices, It[1..j], k + 1)
      BY <2>1, <2>3, <2>6, OneWarningMore DEF V, n, Slots
    <2>8. a[j] = It[1..j]
      BY <2>1
    <2> QED
      BY <2>5, <2>7, <2>8 DEF j
  <1> HIDE DEF P
  <1>12. n \in P
    BY <1>2, <1>10, <1>11, SetInduction
  <1>13. It[1..n] \in V /\ Warns(schedules, devices, It[1..n], n)
    BY <1>2, <1>12 DEF P
  <1> QED
    BY <1>1, <1>2, <1>13 DEF V, n

\* The windows of the whole week: each slot that clashes is in one, which names who is
\* in it, and no other slot is in any.
LEMMA WindowsExact ==
    ASSUME NEW schedules, NEW devices, NEW slot \in Slots
    PROVE  LET covering == {w \in ToSet(Conflicts(schedules, devices)) : slot \in w.from..(w.to - 1)}
           IN IF ~Clash(schedules, devices, slot) THEN covering = {}
              ELSE \E w \in covering :
                      /\ covering = {w}
                      /\ InCamp(schedules, devices, "heating", slot) \subseteq w.heating
                      /\ InCamp(schedules, devices, "cooling", slot) \subseteq w.cooling
  <1> DEFINE out == Conflicts(schedules, devices)
             n == Len(out)
             covering == {w \in ToSet(out) : slot \in w.from..(w.to - 1)}
  <1>1. out \in Seq(Windows(devices)) /\ Warns(schedules, devices, out, SlotsPerWeek)
    BY ConflictsWarn
  <1> HIDE DEF out
  <1>2. /\ DOMAIN out = 1..n /\ n \in Nat
        /\ \A m \in 1..n : out[m].from \in Nat /\ out[m].to \in Nat
    <2>1. DOMAIN out = 1..n /\ n \in Nat /\ \A m \in 1..n : out[m] \in Windows(devices)
      BY <1>1, LenProperties
    <2>2. \A w \in Windows(devices) : w.from \in Nat /\ w.to \in Nat
      BY Ring DEF Windows
    <2> QED
      BY <2>1, <2>2
  <1>3. /\ \A m \in 1..n : Names(schedules, devices, out[m])
        /\ \A m, p \in 1..n : m < p => out[m].to <= out[p].from
        /\ Clash(schedules, devices, slot) => \E m \in 1..n : slot \in out[m].from..(out[m].to - 1)
    BY <1>1 DEF Warns, Slots
  <1>4. \A w \in covering : \E m \in 1..n : w = out[m] /\ slot \in out[m].from..(out[m].to - 1)
    BY <1>2 DEF ToSet
  <1>5. \A m \in 1..n : slot \in out[m].from..(out[m].to - 1) => out[m] \in covering
    BY <1>2 DEF ToSet
  <1> HIDE DEF covering, n
  <1>6. CASE ~Clash(schedules, devices, slot)
    <2>1. covering = {}
      BY <1>3, <1>4, <1>6 DEF Names
    <2> QED
      BY <1>6, <2>1 DEF covering, out
  <1>7. CASE Clash(schedules, devices, slot)
    <2>1. PICK m \in 1..n : slot \in out[m].from..(out[m].to - 1)
      BY <1>3, <1>7
    <2>2. ASSUME NEW p \in 1..n, slot \in out[p].from..(out[p].to - 1)
          PROVE  p = m
      <3>1. ~(p < m) /\ ~(m < p)
        BY <1>2, <1>3, <2>1, <2>2
      <3> QED
        BY <1>2, <3>1
    <2>3. covering = {out[m]}
      BY <1>4, <1>5, <2>1, <2>2
    <2>4. /\ InCamp(schedules, devices, "heating", slot) \subseteq out[m].heating
          /\ InCamp(schedules, devices, "cooling", slot) \subseteq out[m].cooling
      BY <1>3, <2>1 DEF Names
    <2>5. \E w \in covering : /\ covering = {w}
                              /\ InCamp(schedules, devices, "heating", slot) \subseteq w.heating
                              /\ InCamp(schedules, devices, "cooling", slot) \subseteq w.cooling
      BY <2>3, <2>4
    <2> QED
      BY <1>7, <2>5 DEF covering, out
  <1> QED
    BY <1>6, <1>7

\* Who wins a slot of a document that was stored takes the side its mode says, and
\* only if it runs: an outdoor block has no mode to take a side by.
LEMMA WinnerTakesSide ==
    ASSUME NilIsNoClaim, Sound, NEW target, NEW slot \in Slots
    PROVE  LET won == Winner(Week, target, slot)
               running(modes) == won # NoClaim /\ won.action.power = "on" /\ won.action.mode \in modes
           IN /\ Camp(won) = "heating" <=> running({"heat"})
              /\ Camp(won) = "cooling" <=> running({"cool", "dry"})
  <1> DEFINE won == Winner(Week, target, slot)
  <1>1. Readable(Week, slot)
    BY WeekIsReadable
  <1>2. CASE won = NoClaim
    BY <1>2 DEF Camp
  <1>3. ASSUME NEW i \in DOMAIN Week, NEW j \in DOMAIN Week[i].blocks, won = Claim(Week, slot, i, j), won # NoClaim
        PROVE  /\ Camp(won) = "heating" <=> won.action.power = "on" /\ won.action.mode = "heat"
               /\ Camp(won) = "cooling" <=> won.action.power = "on" /\ won.action.mode \in {"cool", "dry"}
    <2> DEFINE action == document[i].blocks[j].action
    <2>1. i \in DOMAIN document /\ j \in DOMAIN document[i].blocks /\ won.action = action
      <3>1. won.action = Week[i].blocks[j].action
        BY <1>3 DEF Claim, ClaimOn
      <3>2. i \in DOMAIN document /\ Week[i].blocks = [l \in DOMAIN document[i].blocks |-> ExpandBlock(document[i].blocks[l])]
        BY DEF Week
      <3>3. j \in DOMAIN document[i].blocks /\ Week[i].blocks[j] = ExpandBlock(document[i].blocks[j])
        BY <3>2
      <3>4. ExpandBlock(document[i].blocks[j]).action = action
        BY DEF ExpandBlock
      <3> HIDE DEF won, action
      <3> QED
        BY <3>1, <3>2, <3>3, <3>4
    <2>2. \/ action.power \in {"on", "off"}
          \/ action.power = "" /\ action.mode = ""
      <3>1. ScheduleOk(document[i])
        BY <2>1 DEF Sound, Valid, ToSet
      <3>2. BlockOk(Kind(document[i]), document[i].blocks[j])
        BY <2>1, <3>1 DEF ScheduleOk, ToSet
      <3>3. ActionOk(Kind(document[i]), action)
        BY <3>2 DEF BlockOk
      <3> QED
        BY <3>3 DEF ActionOk
    <2> HIDE DEF action, won
    <2> QED
      BY <1>3, <2>1, <2>2 DEF Camp
  <1>4. won = NoClaim \/ \E i \in DOMAIN Week : \E j \in DOMAIN Week[i].blocks : won = Claim(Week, slot, i, j)
    BY <1>1, WinnerIsBest
  <1> HIDE DEF won
  <1>5. CASE won # NoClaim
    <2>1. /\ Camp(won) = "heating" <=> won.action.power = "on" /\ won.action.mode = "heat"
          /\ Camp(won) = "cooling" <=> won.action.power = "on" /\ won.action.mode \in {"cool", "dry"}
      BY <1>3, <1>4, <1>5
    <2> QED
      BY <1>5, <2>1 DEF won
  <1> QED
    BY <1>2, <1>5 DEF won

\* Of every document that can come to be stored: the calendar draws each slot of each
\* day once, as the week has it, and warns of exactly the slots in which one target is
\* to heat while another is to cool or dry, all of them named.  (ring.go Segments,
\* Conflicts and sides)
THEOREM CalendarAlwaysAgrees ==
    ASSUME NilIsNoClaim
    PROVE  Stored => []CalendarAgrees
  <1>1. SegmentsTileTheWeek
    BY SegmentsTile, Zenon DEF SegmentsTileTheWeek
  <1>2. Sound => ConflictWindowsExact
    <2> SUFFICES ASSUME Sound
                 PROVE  ConflictWindowsExact
      OBVIOUS
    <2> DEFINE weeks == [d \in Scheduled |-> Resolve(Week, d)]
               running(d, slot, modes) ==
                   LET won == weeks[d][slot]
                   IN won # NoClaim /\ won.action.power = "on" /\ won.action.mode \in modes
               heating(slot) == {d \in Scheduled : running(d, slot, {"heat"})}
               cooling(slot) == {d \in Scheduled : running(d, slot, {"cool", "dry"})}
               covering(slot) == {w \in ToSet(Conflicts(Week, Scheduled)) : slot \in w.from..(w.to - 1)}
    <2>1. ASSUME NEW slot \in Slots
          PROVE  /\ heating(slot) = InCamp(Week, Scheduled, "heating", slot)
                 /\ cooling(slot) = InCamp(Week, Scheduled, "cooling", slot)
      <3>1. \A d \in Scheduled : weeks[d][slot] = Winner(Week, d, slot)
        BY DEF Resolve
      <3>2. \A d \in Scheduled : /\ Camp(Winner(Week, d, slot)) = "heating" <=> running(d, slot, {"heat"})
                                 /\ Camp(Winner(Week, d, slot)) = "cooling" <=> running(d, slot, {"cool", "dry"})
        BY <3>1, WinnerTakesSide
      <3> HIDE DEF running
      <3> QED
        BY <3>2 DEF InCamp
    <2> HIDE DEF heating, cooling
    <2>2. ASSUME NEW slot \in Slots
          PROVE  IF heating(slot) = {} \/ cooling(slot) = {} THEN covering(slot) = {}
                 ELSE \E w \in covering(slot) : /\ covering(slot) = {w}
                                                /\ heating(slot) \subseteq w.heating
                                                /\ cooling(slot) \subseteq w.cooling
      BY <2>1, WindowsExact DEF Clash
    <2> QED
      BY <2>2 DEF ConflictWindowsExact, heating, cooling
  <1>3. Sound => CalendarAgrees
    BY <1>1, <1>2 DEF CalendarAgrees
  <1> QED
    BY <1>3, StoredIsSound, PTL
=============================================================================
