--------------------------- MODULE VelocityProofs ---------------------------
(***************************************************************************)
(* Proofs about Velocity for every set of accounts, every set of windows   *)
(* and all durations that satisfy the assumptions of that module.          *)
(***************************************************************************)
EXTENDS Velocity, SumTheorems

-----------------------------------------------------------------------------
(* Division into minutes. *)

\* What // computes: a quotient and a remainder below the divisor.
LEMMA DivFacts ==
  ASSUME NEW x \in Int, NEW m \in Nat \ {0}
  PROVE  /\ x \div m \in Int
         /\ x % m \in 0 .. (m - 1)
         /\ x = m * (x \div m) + (x % m)
OBVIOUS

\* A later time is not in an earlier bucket.
LEMMA DivMonotone ==
  ASSUME NEW x \in Int, NEW y \in Int, NEW m \in Nat \ {0}, x <= y
  PROVE  x \div m <= y \div m
<1> DEFINE p == x \div m
           q == y \div m
<1>1. p \in Int /\ q \in Int
  BY DivFacts
<1>2. m * p <= x /\ x < m * p + m /\ m * q <= y /\ y < m * q + m
  BY DivFacts
<1>3. SUFFICES ASSUME q < p PROVE FALSE
  BY <1>1
<1>4. m * (q + 1) <= m * p
  <2>1. q + 1 <= p
    BY <1>1, <1>3
  <2> HIDE DEF p, q
  <2> QED
    BY <1>1, <2>1
<1>5. m * (q + 1) = m * q + m
  <2> HIDE DEF p, q
  <2> QED
    BY <1>1
<1> HIDE DEF p, q
<1> QED
  BY <1>1, <1>2, <1>4, <1>5

\* Going back whole minutes goes back as many buckets.
LEMMA DivShift ==
  ASSUME NEW x \in Int, NEW w \in Int, NEW m \in Nat \ {0}
  PROVE  (x - w * m) \div m = (x \div m) - w
OBVIOUS

\* A minute later is one bucket later.
LEMMA DivNext ==
  ASSUME NEW x \in Int, NEW m \in Nat \ {0}
  PROVE  (x + m) \div m = (x \div m) + 1
OBVIOUS

-----------------------------------------------------------------------------
(* The inductive invariant. *)

\* The number and the sum of those transactions, one by one.
Tally(bag, bucket) ==
  [count  |-> SumFunction([x \in Since(bag, bucket) |-> bag[x]]),
   amount |-> SumFunction([x \in Since(bag, bucket) |-> bag[x] * x[2]])]

\* From the watermark's own cutoff on, nothing was ever evicted: the buckets that an
\* admissible event may still read add up to the transactions that fell into them.
Tallied ==
  \A a \in Account : \A k \in Int :
    k >= EvictionCutoff(watermark) =>
      Total(Restrict(buckets[a], {j \in Bucket : j >= k})) = Tally(admitted[a], k)

\* Finitely many transactions were admitted.
FinitelyMany == \A a \in Account : IsFiniteSet(Since(admitted[a], 0))

\* A stored bucket has the idle timer of one of its own events pending.
IdleTimerPending ==
  \A a \in Account : \A k \in Live(a) :
    \E x \in Since(admitted[a], 0) : BucketOf(x[1]) = k /\ x[1] + IdleTTL \in timers[a]

\* The velocity yielded for an event, an in-order one or one late within the allowed
\* lateness, is the number and the sum of the transactions ever admitted for its
\* account in the window: neither the buckets nor the eviction of buckets between
\* the events can be seen in it (velocity.py 118-148, 181-194).
VelocityExact ==
  \A e \in emitted :
    e.velocity = [w \in Windows |-> Tally(admitted[e.account], BucketOf(e.time) - w)]

IInv ==
  /\ TypeOK
  /\ Tallied
  /\ FinitelyMany
  /\ IdleTimerPending
  /\ VelocityExact

\* Every event time falls into a bucket.
LEMMA BucketOfTime ==
  ASSUME NEW t \in Time
  PROVE  BucketOf(t) \in Bucket
<1>1. t \in Nat /\ t <= MaxTime /\ MaxTime \in Nat /\ Minute \in Nat \ {0}
  BY ConstantsAssumption DEF Time
<1>2. 0 \div Minute <= t \div Minute /\ t \div Minute <= MaxTime \div Minute
  BY <1>1, DivMonotone
<1>3. 0 \div Minute = 0
  BY <1>1
<1>4. t \div Minute \in Int /\ MaxTime \div Minute \in Int
  BY <1>1, DivFacts
<1> QED
  BY <1>2, <1>3, <1>4 DEF BucketOf, Bucket

-----------------------------------------------------------------------------
(* One more transaction. *)

\* Sums of cells.
LEMMA TotalTypes ==
  ASSUME NEW cells \in [Bucket -> Cell], NEW k \in Int
  PROVE  LET inside == {j \in Bucket : j >= k}
         IN  /\ IsFiniteSet(inside)
             /\ [j \in inside |-> cells[j].count] \in [inside -> Int]
             /\ [j \in inside |-> cells[j].amount] \in [inside -> Int]
             /\ Total(Restrict(cells, inside))
                  = [count  |-> SumFunction([j \in inside |-> cells[j].count]),
                     amount |-> SumFunction([j \in inside |-> cells[j].amount])]
             /\ SumFunction([j \in inside |-> cells[j].count]) \in Int
             /\ SumFunction([j \in inside |-> cells[j].amount]) \in Int
<1> DEFINE inside == {j \in Bucket : j >= k}
<1>1. IsFiniteSet(inside)
  <2>1. BucketOf(MaxTime) \in Int
    BY ConstantsAssumption, DivFacts DEF BucketOf
  <2>2. IsFiniteSet(Bucket)
    BY <2>1, FS_Interval DEF Bucket
  <2> QED
    BY <2>2, FS_Subset
<1>2. /\ [j \in inside |-> cells[j].count] \in [inside -> Int]
      /\ [j \in inside |-> cells[j].amount] \in [inside -> Int]
  BY DEF Cell
<1>3. /\ [j \in DOMAIN Restrict(cells, inside) |-> Restrict(cells, inside)[j].count]
           = [j \in inside |-> cells[j].count]
      /\ [j \in DOMAIN Restrict(cells, inside) |-> Restrict(cells, inside)[j].amount]
           = [j \in inside |-> cells[j].amount]
  BY DEF Restrict
<1> HIDE DEF inside
<1>4. /\ SumFunction([j \in inside |-> cells[j].count]) \in Int
      /\ SumFunction([j \in inside |-> cells[j].amount]) \in Int
  BY <1>1, <1>2, SumType
<1> QED
  BY <1>1, <1>2, <1>3, <1>4 DEF Total, inside

\* Buckets that nothing was stored in, and a tally of nothing.
LEMMA TotalOfNothing ==
  ASSUME NEW k \in Int
  PROVE  Total(Restrict([j \in Bucket |-> EmptyCell], {j \in Bucket : j >= k})) = EmptyCell
<1> DEFINE inside == {j \in Bucket : j >= k}
           cells == [j \in Bucket |-> EmptyCell]
<1>1. cells \in [Bucket -> Cell]
  BY DEF EmptyCell, Cell
<1>2. /\ IsFiniteSet(inside)
      /\ Total(Restrict(cells, inside))
           = [count  |-> SumFunction([j \in inside |-> cells[j].count]),
              amount |-> SumFunction([j \in inside |-> cells[j].amount])]
  BY <1>1, TotalTypes
<1>3. /\ [j \in inside |-> cells[j].count] = [j \in inside |-> 0]
      /\ [j \in inside |-> cells[j].amount] = [j \in inside |-> 0]
  BY DEF EmptyCell
<1>4. SumFunction([j \in inside |-> 0]) = 0
  <2> HIDE DEF inside
  <2> QED
    BY <1>2, SumOfZeros
<1> QED
  BY <1>2, <1>3, <1>4 DEF EmptyCell

LEMMA TallyOfNothing ==
  ASSUME NEW bag, NEW k, Since(bag, k) = {}
  PROVE  Tally(bag, k) = EmptyCell
<1>1. \A f : DOMAIN f = {} => SumFunction(f) = 0
  BY SumEmpty
<1> QED
  BY <1>1 DEF Tally, EmptyCell

\* What a transaction adds to the totals from a bucket on.
LEMMA TotalOfAdd ==
  ASSUME NEW cells \in [Bucket -> Cell], NEW more \in [Bucket -> Cell],
         NEW b \in Bucket, NEW amount \in Nat, NEW k \in Int,
         \A j \in Bucket : more[j] = IF j = b THEN AddTo(cells[j], amount) ELSE cells[j]
  PROVE  IF b >= k
           THEN Total(Restrict(more, {j \in Bucket : j >= k}))
                  = AddTo(Total(Restrict(cells, {j \in Bucket : j >= k})), amount)
           ELSE Total(Restrict(more, {j \in Bucket : j >= k}))
                  = Total(Restrict(cells, {j \in Bucket : j >= k}))
<1> DEFINE inside == {j \in Bucket : j >= k}
           counts(c) == [j \in inside |-> c[j].count]
           amounts(c) == [j \in inside |-> c[j].amount]
<1>1. /\ IsFiniteSet(inside)
      /\ counts(cells) \in [inside -> Int] /\ amounts(cells) \in [inside -> Int]
      /\ Total(Restrict(cells, inside))
           = [count |-> SumFunction(counts(cells)), amount |-> SumFunction(amounts(cells))]
      /\ SumFunction(counts(cells)) \in Int /\ SumFunction(amounts(cells)) \in Int
  BY TotalTypes
<1>2. /\ counts(more) \in [inside -> Int] /\ amounts(more) \in [inside -> Int]
      /\ Total(Restrict(more, inside))
           = [count |-> SumFunction(counts(more)), amount |-> SumFunction(amounts(more))]
      /\ SumFunction(counts(more)) \in Int /\ SumFunction(amounts(more)) \in Int
  BY TotalTypes
<1>3. /\ \A j \in inside \ {b} : /\ counts(more)[j] = counts(cells)[j]
                               /\ amounts(more)[j] = amounts(cells)[j]
      /\ b \in inside => /\ counts(more)[b] = counts(cells)[b] + 1
                         /\ amounts(more)[b] = amounts(cells)[b] + amount
  BY DEF AddTo
<1>4. b \in inside <=> b >= k
  OBVIOUS
<1>5. CASE b \in inside
  <2> DEFINE c1 == counts(cells)
             c2 == counts(more)
             a1 == amounts(cells)
             a2 == amounts(more)
  <2>1. /\ c1[b] \in Int /\ a1[b] \in Int
        /\ c2[b] = c1[b] + 1 /\ a2[b] = a1[b] + amount
        /\ \A j \in inside \ {b} : c2[j] = c1[j] /\ a2[j] = a1[j]
    BY <1>1, <1>3, <1>5
  <2>2. /\ c1 \in [inside -> Int] /\ c2 \in [inside -> Int]
        /\ a1 \in [inside -> Int] /\ a2 \in [inside -> Int]
    BY <1>1, <1>2
  <2> HIDE DEF c1, c2, a1, a2, inside
  <2>3. /\ SumFunction(c2) = SumFunction(c1) + (c2[b] - c1[b])
        /\ SumFunction(a2) = SumFunction(a1) + (a2[b] - a1[b])
    BY <1>1, <1>5, <2>1, <2>2, SumChange
  <2>4. SumFunction(c2) = SumFunction(c1) + 1 /\ SumFunction(a2) = SumFunction(a1) + amount
    BY <2>1, <2>3
  <2>5. Total(Restrict(more, inside)) = AddTo(Total(Restrict(cells, inside)), amount)
    BY <1>1, <1>2, <2>4 DEF AddTo, c1, c2, a1, a2
  <2> QED
    BY <1>4, <1>5, <2>5 DEF inside
<1>6. CASE b \notin inside
  <2>1. counts(more) = counts(cells) /\ amounts(more) = amounts(cells)
    BY <1>3, <1>6
  <2>2. Total(Restrict(more, inside)) = Total(Restrict(cells, inside))
    BY <1>1, <1>2, <2>1
  <2> QED
    BY <1>4, <1>6, <2>2
<1> QED
  BY <1>5, <1>6

\* A transaction is a time and an amount.
LEMMA TransactionFacts ==
  ASSUME NEW x \in Transaction
  PROVE  /\ x[1] \in Time /\ x[2] \in Nat /\ BucketOf(x[1]) \in Bucket
         /\ BucketOf(x[1]) \in Nat
<1>1. x[1] \in Time /\ x[2] \in Nat
  BY ConstantsAssumption DEF Transaction
<1>2. BucketOf(x[1]) \in Bucket
  BY <1>1, BucketOfTime
<1> QED
  BY <1>1, <1>2 DEF Bucket

\* A bag with finitely many transactions has finitely many from a bucket on.
LEMMA SinceFinite ==
  ASSUME NEW bag, NEW k \in Int, IsFiniteSet(Since(bag, 0))
  PROVE  IsFiniteSet(Since(bag, k))
<1>1. Since(bag, k) \subseteq Since(bag, 0)
  BY TransactionFacts DEF Since
<1> QED
  BY <1>1, FS_Subset

LEMMA TallyTypes ==
  ASSUME NEW bag \in [Transaction -> Nat], NEW k \in Int, IsFiniteSet(Since(bag, 0))
  PROVE  /\ IsFiniteSet(Since(bag, k))
         /\ [x \in Since(bag, k) |-> bag[x]] \in [Since(bag, k) -> Int]
         /\ [x \in Since(bag, k) |-> bag[x] * x[2]] \in [Since(bag, k) -> Int]
         /\ SumFunction([x \in Since(bag, k) |-> bag[x]]) \in Int
         /\ SumFunction([x \in Since(bag, k) |-> bag[x] * x[2]]) \in Int
<1>1. IsFiniteSet(Since(bag, k))
  BY SinceFinite
<1>2. \A x \in Since(bag, k) : bag[x] \in Int /\ bag[x] * x[2] \in Int
  <2> SUFFICES ASSUME NEW x \in Since(bag, k) PROVE bag[x] \in Int /\ bag[x] * x[2] \in Int
    OBVIOUS
  <2>1. bag[x] \in Nat /\ x[2] \in Nat
    BY TransactionFacts DEF Since
  <2> QED
    BY <2>1
<1> DEFINE inside == Since(bag, k)
<1> HIDE DEF inside
<1>3. /\ [x \in inside |-> bag[x]] \in [inside -> Int]
      /\ [x \in inside |-> bag[x] * x[2]] \in [inside -> Int]
  BY <1>2 DEF inside
<1>4. /\ SumFunction([x \in inside |-> bag[x]]) \in Int
      /\ SumFunction([x \in inside |-> bag[x] * x[2]]) \in Int
  BY <1>1, <1>3, SumType DEF inside
<1> QED
  BY <1>1, <1>3, <1>4 DEF inside

\* The transactions from a bucket on when there is one more.
LEMMA SinceOfAdd ==
  ASSUME NEW bag \in [Transaction -> Nat], NEW more \in [Transaction -> Nat],
         NEW y \in Transaction, NEW k \in Int,
         \A x \in Transaction : more[x] = IF x = y THEN bag[x] + 1 ELSE bag[x]
  PROVE  Since(more, k) = IF BucketOf(y[1]) >= k THEN Since(bag, k) \cup {y} ELSE Since(bag, k)
<1>1. more[y] > 0 /\ \A x \in Transaction : x # y => more[x] = bag[x]
  OBVIOUS
<1> QED
  BY <1>1 DEF Since

\* What a transaction adds to the tally from a bucket on.
LEMMA TallyOfAdd ==
  ASSUME NEW bag \in [Transaction -> Nat], NEW more \in [Transaction -> Nat],
         NEW y \in Transaction, NEW k \in Int, IsFiniteSet(Since(bag, 0)),
         \A x \in Transaction : more[x] = IF x = y THEN bag[x] + 1 ELSE bag[x]
  PROVE  /\ IsFiniteSet(Since(more, 0))
         /\ IF BucketOf(y[1]) >= k
              THEN Tally(more, k) = AddTo(Tally(bag, k), y[2])
              ELSE Tally(more, k) = Tally(bag, k)
<1>1. IsFiniteSet(Since(more, 0))
  <2>1. Since(more, 0) = Since(bag, 0) \cup {y} \/ Since(more, 0) = Since(bag, 0)
    BY SinceOfAdd
  <2> QED
    BY <2>1, FS_AddElement
<1> DEFINE inside == Since(bag, k)
           after == Since(more, k)
           counts == [x \in inside |-> bag[x]]
           amounts == [x \in inside |-> bag[x] * x[2]]
           counts2 == [x \in after |-> more[x]]
           amounts2 == [x \in after |-> more[x] * x[2]]
<1>2. /\ IsFiniteSet(inside)
      /\ counts \in [inside -> Int] /\ amounts \in [inside -> Int]
      /\ SumFunction(counts) \in Int /\ SumFunction(amounts) \in Int
  BY TallyTypes
<1>3. /\ counts2 \in [after -> Int] /\ amounts2 \in [after -> Int]
  BY <1>1, TallyTypes
<1>4. /\ Tally(bag, k) = [count |-> SumFunction(counts), amount |-> SumFunction(amounts)]
      /\ Tally(more, k) = [count |-> SumFunction(counts2), amount |-> SumFunction(amounts2)]
  BY DEF Tally
<1>5. /\ bag[y] \in Nat /\ y[2] \in Nat /\ more[y] = bag[y] + 1
      /\ more[y] * y[2] = bag[y] * y[2] + y[2]
      /\ bag[y] * y[2] \in Int
  <2>1. bag[y] \in Nat /\ y[2] \in Nat /\ more[y] = bag[y] + 1
    BY TransactionFacts
  <2>2. \A n, v \in Nat : (n + 1) * v = n * v + v /\ n * v \in Int
    OBVIOUS
  <2> QED
    BY <2>1, <2>2
<1>6. /\ \A x \in inside \ {y} : x \in after => counts2[x] = counts[x] /\ amounts2[x] = amounts[x]
      /\ y \in after => counts2[y] = bag[y] + 1 /\ amounts2[y] = bag[y] * y[2] + y[2]
      /\ y \in inside => counts[y] = bag[y] /\ amounts[y] = bag[y] * y[2]
  <2>1. inside \subseteq Transaction
    BY DEF Since
  <2>2. \A x \in inside \ {y} : more[x] = bag[x]
    BY <2>1
  <2> HIDE DEF inside, after
  <2> QED
    BY <1>5, <2>2
<1>7. /\ BucketOf(y[1]) >= k => after = inside \cup {y}
      /\ ~(BucketOf(y[1]) >= k) => after = inside
  BY SinceOfAdd
<1>8. y \in inside => BucketOf(y[1]) >= k
  BY DEF Since
<1>9. y \notin inside /\ BucketOf(y[1]) >= k => bag[y] = 0
  BY <1>5 DEF Since
<1>10. ~(BucketOf(y[1]) >= k) => counts2 = counts /\ amounts2 = amounts
  <2> SUFFICES ASSUME ~(BucketOf(y[1]) >= k) PROVE counts2 = counts /\ amounts2 = amounts
    OBVIOUS
  <2>1. after = inside /\ y \notin inside
    BY <1>7, <1>8
  <2>2. \A x \in inside : more[x] = bag[x]
    BY <2>1 DEF Since
  <2> HIDE DEF inside, after
  <2> QED
    BY <2>1, <2>2
<1> HIDE DEF counts, counts2, amounts, amounts2, inside, after
<1>11. CASE y \in inside
  <2>1. after = inside
    BY <1>7, <1>8, <1>11
  <2>2. /\ SumFunction(counts2) = SumFunction(counts) + (counts2[y] - counts[y])
        /\ SumFunction(amounts2) = SumFunction(amounts) + (amounts2[y] - amounts[y])
    <3>1. /\ counts2 \in [inside -> Int] /\ amounts2 \in [inside -> Int]
          /\ \A x \in inside \ {y} : counts2[x] = counts[x]
          /\ \A x \in inside \ {y} : amounts2[x] = amounts[x]
      BY <1>3, <1>6, <2>1
    <3>2. SumFunction(counts2) = SumFunction(counts) + (counts2[y] - counts[y])
      BY <1>2, <1>11, <3>1, SumChange
    <3>3. SumFunction(amounts2) = SumFunction(amounts) + (amounts2[y] - amounts[y])
      BY <1>2, <1>11, <3>1, SumChange
    <3> QED
      BY <3>2, <3>3
  <2>3. /\ SumFunction(counts2) = SumFunction(counts) + 1
        /\ SumFunction(amounts2) = SumFunction(amounts) + y[2]
    <3>1. /\ counts2[y] = bag[y] + 1 /\ counts[y] = bag[y]
          /\ amounts2[y] = bag[y] * y[2] + y[2] /\ amounts[y] = bag[y] * y[2]
      BY <1>6, <1>11, <2>1
    <3>2. \A n, p, c, v \in Int : c + ((n + 1) - n) = c + 1 /\ c + ((p + v) - p) = c + v
      OBVIOUS
    <3>3. y[2] \in Int /\ bag[y] \in Int
      BY <1>5
    <3>4. SumFunction(counts) + ((bag[y] + 1) - bag[y]) = SumFunction(counts) + 1
      BY <1>2, <3>2, <3>3
    <3>5. SumFunction(amounts) + ((bag[y] * y[2] + y[2]) - bag[y] * y[2]) = SumFunction(amounts) + y[2]
      BY <1>2, <1>5, <3>2, <3>3
    <3> QED
      BY <2>2, <3>1, <3>4, <3>5
  <2> QED
    BY <1>1, <1>4, <1>8, <1>11, <2>3 DEF AddTo
<1>12. CASE y \notin inside /\ BucketOf(y[1]) >= k
  <2>1. after = inside \cup {y}
    BY <1>7, <1>12
  <2>2. /\ SumFunction(counts2) = SumFunction(counts) + counts2[y]
        /\ SumFunction(amounts2) = SumFunction(amounts) + amounts2[y]
    <3>1. counts2 \in [inside \cup {y} -> Int] /\ \A x \in inside : counts2[x] = counts[x]
      BY <1>3, <1>6, <1>12, <2>1
    <3>2. SumFunction(counts2) = SumFunction(counts) + counts2[y]
      BY <1>2, <1>12, <3>1, SumAdd
    <3>3. amounts2 \in [inside \cup {y} -> Int] /\ \A x \in inside : amounts2[x] = amounts[x]
      BY <1>3, <1>6, <1>12, <2>1
    <3>4. SumFunction(amounts2) = SumFunction(amounts) + amounts2[y]
      BY <1>2, <1>12, <3>3, SumAdd
    <3> QED
      BY <3>2, <3>4
  <2>3. counts2[y] = 1 /\ amounts2[y] = y[2]
    BY <1>5, <1>6, <1>9, <1>12, <2>1
  <2> QED
    BY <1>1, <1>4, <1>12, <2>2, <2>3 DEF AddTo
<1>13. CASE ~(BucketOf(y[1]) >= k)
  BY <1>1, <1>4, <1>10, <1>13
<1> QED
  BY <1>11, <1>12, <1>13

-----------------------------------------------------------------------------
(* Retention. *)

\* A window of an admissible event starts at or after the watermark's cutoff:
\* the retention's slack absorbs the allowed lateness.
LEMMA WindowRetained ==
  ASSUME TypeOK, NEW t \in Time, NEW w \in Windows, ~TooLate(t)
  PROVE  EvictionCutoff(watermark) <= BucketOf(t) - w
<1>1. /\ t \in Int /\ w \in Int /\ watermark \in Int
      /\ Minute \in Nat \ {0} /\ Retention \in Nat /\ AllowedLateness \in Nat
      /\ t >= 0
  BY ConstantsAssumption DEF Time, TypeOK, NoWatermark
<1>2. watermark - AllowedLateness <= t
  BY <1>1 DEF TooLate, NoWatermark
<1>3. w * Minute + AllowedLateness <= Retention
  BY RetentionAssumption
<1>4. w * Minute \in Int
  BY <1>1
<1>5. watermark - Retention <= t - w * Minute
  BY <1>1, <1>2, <1>3, <1>4
<1>6. (watermark - Retention) \div Minute <= (t - w * Minute) \div Minute
  BY <1>1, <1>4, <1>5, DivMonotone
<1>7. (t - w * Minute) \div Minute = (t \div Minute) - w
  BY <1>1, DivShift
<1> QED
  BY <1>6, <1>7 DEF EvictionCutoff, BucketOf

\* The timers that are due never evict beyond the watermark's cutoff.
LEMMA CutoffMonotone ==
  ASSUME NEW x \in Int, NEW y \in Int, x <= y
  PROVE  /\ EvictionCutoff(x) \in Int
         /\ EvictionCutoff(y) \in Int
         /\ EvictionCutoff(x) <= EvictionCutoff(y)
<1>1. /\ x - Retention \in Int /\ y - Retention \in Int
      /\ x - Retention <= y - Retention /\ Minute \in Nat \ {0}
  BY ConstantsAssumption
<1> QED
  BY <1>1, DivMonotone, DivFacts DEF EvictionCutoff

\* The idle timer of an event evicts the event's own bucket.
LEMMA IdleTimerEvicts ==
  ASSUME NEW t \in Time
  PROVE  EvictionCutoff(t + IdleTTL) > BucketOf(t)
<1>1. /\ t \in Int /\ Minute \in Nat \ {0} /\ Retention \in Nat /\ IdleTTL \in Nat
      /\ Retention + Minute <= IdleTTL
  BY ConstantsAssumption, IdleAssumption DEF Time
<1>2. t + Minute <= t + IdleTTL - Retention
  BY <1>1
<1>3. (t + Minute) \div Minute <= (t + IdleTTL - Retention) \div Minute
  BY <1>1, <1>2, DivMonotone
<1>4. (t + Minute) \div Minute = (t \div Minute) + 1
  BY <1>1, DivNext
<1>5. t \div Minute \in Int /\ (t + IdleTTL - Retention) \div Minute \in Int
  BY <1>1, DivFacts
<1>6. t \div Minute < (t + IdleTTL - Retention) \div Minute
  BY <1>3, <1>4, <1>5
<1> QED
  BY <1>1, <1>5, <1>6 DEF EvictionCutoff, BucketOf

-----------------------------------------------------------------------------
(* The invariant holds initially and every step preserves it. *)

LEMMA InitIInv == Init => IInv
<1> SUFFICES ASSUME Init PROVE IInv
  OBVIOUS
<1>1. EmptyCell \in Cell
  BY DEF EmptyCell, Cell
<1>2. TypeOK
  BY <1>1, ConstantsAssumption DEF Init, TypeOK
<1>3. \A a \in Account : Live(a) = {}
  BY DEF Init, Live, EmptyCell
<1>4. \A a \in Account : \A k \in Int : Since(admitted[a], k) = {}
  BY DEF Init, Since
<1>7. FinitelyMany
  BY <1>4, FS_EmptySet DEF FinitelyMany
<1>8. Tallied
  <2> SUFFICES ASSUME NEW a \in Account, NEW k \in Int
               PROVE  Total(Restrict(buckets[a], {j \in Bucket : j >= k})) = Tally(admitted[a], k)
    BY DEF Tallied
  <2>1. buckets[a] = [j \in Bucket |-> EmptyCell]
    BY DEF Init
  <2> QED
    BY <1>4, <2>1, TotalOfNothing, TallyOfNothing
<1>5. IdleTimerPending
  BY <1>3 DEF IdleTimerPending
<1>6. VelocityExact
  BY DEF Init, VelocityExact
<1> QED
  BY <1>2, <1>5, <1>6, <1>7, <1>8 DEF IInv

LEMMA RejectLateIInv ==
  ASSUME IInv, NEW a \in Account, NEW t \in Time, RejectLate(a, t)
  PROVE  IInv'
<1> USE DEF IInv, RejectLate, Deliver
<1>1. TypeOK'
  BY ConstantsAssumption DEF TypeOK
<1>2. (Tallied /\ FinitelyMany)'
  BY DEF Tallied, FinitelyMany
<1>3. IdleTimerPending'
  BY DEF IdleTimerPending, Live
<1>4. VelocityExact'
  BY DEF VelocityExact
<1> QED
  BY <1>1, <1>2, <1>3, <1>4

LEMMA AdmitIInv ==
  ASSUME IInv, NEW a \in Account, NEW t \in Time, NEW amount \in Amount,
         Admit(a, t, amount)
  PROVE  IInv'
<1> DEFINE b == BucketOf(t)
<1>1. b \in Bucket
  BY BucketOfTime
<1>2. \A c \in Cell : AddTo(c, amount) \in Cell /\ AddTo(c, amount).count > 0
  BY ConstantsAssumption DEF AddTo, Cell
<1>3. \A x \in Account : \A k \in Bucket :
        /\ buckets'[x][k] = IF x = a /\ k = b THEN AddTo(buckets[x][k], amount)
                                            ELSE buckets[x][k]
  BY <1>1 DEF IInv, TypeOK, Admit
<1>4. TypeOK'
  <2>1. (buckets \in [Account -> [Bucket -> Cell]])'
    BY <1>1, <1>2 DEF IInv, TypeOK, Admit
  <2>2. (admitted \in [Account -> [Transaction -> Nat]])'
    <3> DEFINE bag == [admitted[a] EXCEPT ![<<t, amount>>] = @ + 1]
    <3>1. admitted' = [admitted EXCEPT ![a] = bag]
      BY DEF Admit
    <3>2. <<t, amount>> \in Transaction /\ admitted[a] \in [Transaction -> Nat]
      BY DEF IInv, TypeOK, Transaction
    <3>3. bag \in [Transaction -> Nat]
      BY <3>2
    <3> HIDE DEF bag
    <3> QED
      BY <3>1, <3>3 DEF IInv, TypeOK
  <2>3. (timers \in [Account -> SUBSET Nat])'
    BY ConstantsAssumption DEF IInv, TypeOK, Admit, NewTimers, Time
  <2>4. (arrivals \in 0 .. MaxEvents)'
    BY ConstantsAssumption DEF IInv, TypeOK, Admit, Deliver
  <2>5. (\A e \in emitted : e.account \in Account /\ e.time \in Time)'
    BY DEF Admit
  <2> QED
    BY <2>1, <2>2, <2>3, <2>4, <2>5 DEF IInv, TypeOK, Admit
<1> DEFINE y == <<t, amount>>
<1>5. /\ y \in Transaction /\ y[1] = t /\ y[2] = amount /\ amount \in Nat
      /\ \A z \in Account : \A x \in Transaction :
           admitted'[z][x] = IF z = a /\ x = y THEN admitted[z][x] + 1 ELSE admitted[z][x]
  BY ConstantsAssumption DEF IInv, TypeOK, Admit, Transaction
<1> HIDE DEF y
<1>6. Tallied' /\ FinitelyMany'
  <2> SUFFICES ASSUME NEW z \in Account
               PROVE  /\ IsFiniteSet(Since(admitted'[z], 0))
                      /\ \A k \in Int : k >= EvictionCutoff(watermark) =>
                           Total(Restrict(buckets'[z], {j \in Bucket : j >= k}))
                             = Tally(admitted'[z], k)
    BY DEF Tallied, FinitelyMany, Admit
  <2>1. /\ IsFiniteSet(Since(admitted[z], 0))
        /\ \A k \in Int : k >= EvictionCutoff(watermark) =>
             Total(Restrict(buckets[z], {j \in Bucket : j >= k})) = Tally(admitted[z], k)
    BY DEF IInv, Tallied, FinitelyMany
  <2>2. /\ buckets[z] \in [Bucket -> Cell] /\ buckets'[z] \in [Bucket -> Cell]
        /\ admitted[z] \in [Transaction -> Nat] /\ admitted'[z] \in [Transaction -> Nat]
    BY <1>4 DEF IInv, TypeOK
  <2>3. CASE z = a
    <3>1. \A x \in Transaction :
            admitted'[z][x] = IF x = y THEN admitted[z][x] + 1 ELSE admitted[z][x]
      BY <1>5, <2>3
    <3>2. \A j \in Bucket :
            buckets'[z][j] = IF j = b THEN AddTo(buckets[z][j], amount) ELSE buckets[z][j]
      BY <1>3, <2>3
    <3> HIDE DEF b
    <3>3. IsFiniteSet(Since(admitted'[z], 0))
      BY <1>5, <2>1, <2>2, <3>1, TallyOfAdd
    <3>4. ASSUME NEW k \in Int, k >= EvictionCutoff(watermark)
          PROVE  Total(Restrict(buckets'[z], {j \in Bucket : j >= k})) = Tally(admitted'[z], k)
      <4>1. IF b >= k THEN Tally(admitted'[z], k) = AddTo(Tally(admitted[z], k), amount)
                      ELSE Tally(admitted'[z], k) = Tally(admitted[z], k)
        <5>1. IF BucketOf(y[1]) >= k
                THEN Tally(admitted'[z], k) = AddTo(Tally(admitted[z], k), y[2])
                ELSE Tally(admitted'[z], k) = Tally(admitted[z], k)
          BY <1>5, <2>1, <2>2, <3>1, TallyOfAdd
        <5> QED
          BY <1>5, <5>1 DEF b
      <4>2. IF b >= k
              THEN Total(Restrict(buckets'[z], {j \in Bucket : j >= k}))
                     = AddTo(Total(Restrict(buckets[z], {j \in Bucket : j >= k})), amount)
              ELSE Total(Restrict(buckets'[z], {j \in Bucket : j >= k}))
                     = Total(Restrict(buckets[z], {j \in Bucket : j >= k}))
        <5> DEFINE cells == buckets[z]
                   more == buckets'[z]
        <5>1. /\ cells \in [Bucket -> Cell] /\ more \in [Bucket -> Cell]
              /\ \A j \in Bucket : more[j] = IF j = b THEN AddTo(cells[j], amount) ELSE cells[j]
              /\ b \in Bucket /\ amount \in Nat
          BY <1>1, <1>5, <2>2, <3>2
        <5> HIDE DEF cells, more
        <5>2. IF b >= k
                THEN Total(Restrict(more, {j \in Bucket : j >= k}))
                       = AddTo(Total(Restrict(cells, {j \in Bucket : j >= k})), amount)
                ELSE Total(Restrict(more, {j \in Bucket : j >= k}))
                       = Total(Restrict(cells, {j \in Bucket : j >= k}))
          BY <5>1, TotalOfAdd
        <5> QED
          BY <5>2 DEF cells, more
      <4>3. Total(Restrict(buckets[z], {j \in Bucket : j >= k})) = Tally(admitted[z], k)
        BY <2>1, <3>4
      <4> QED
        BY <4>1, <4>2, <4>3
    <3> QED
      BY <3>3, <3>4
  <2>4. CASE z # a
    <3>1. buckets'[z] = buckets[z] /\ admitted'[z] = admitted[z]
      BY <2>4 DEF IInv, TypeOK, Admit
    <3> QED
      BY <2>1, <3>1
  <2> QED
    BY <2>3, <2>4
<1>7. IdleTimerPending'
  <2> SUFFICES ASSUME NEW x \in Account, NEW k \in Live(x)'
               PROVE  (\E s \in Since(admitted[x], 0) :
                         BucketOf(s[1]) = k /\ s[1] + IdleTTL \in timers[x])'
    BY DEF IdleTimerPending
  <2>1. k \in Bucket /\ buckets'[x][k].count > 0
    BY DEF Live
  <2>2. timers[x] \subseteq timers'[x]
    BY DEF IInv, TypeOK, Admit
  <2>5. /\ Since(admitted[x], 0) \subseteq Since(admitted'[x], 0)
        /\ x = a => y \in Since(admitted'[x], 0)
    <3>1. \A z \in Transaction : admitted[x][z] \in Nat
      BY DEF IInv, TypeOK
    <3>2. \A z \in Transaction : /\ admitted[x][z] > 0 => admitted'[x][z] > 0
                                 /\ x = a /\ z = y => admitted'[x][z] > 0
      BY <1>5, <3>1
    <3>3. \A z \in Transaction : BucketOf(z[1]) >= 0
      BY TransactionFacts
    <3> QED
      BY <1>5, <3>2, <3>3 DEF Since
  <2>3. CASE x = a /\ k = b
    <3>1. t + IdleTTL \in timers'[a]
      BY DEF IInv, TypeOK, Admit, NewTimers
    <3> QED
      BY <1>5, <2>3, <2>5, <3>1
  <2>4. CASE ~(x = a /\ k = b)
    <3>1. k \in Live(x)
      BY <1>3, <2>1, <2>4 DEF Live
    <3> QED
      BY <2>2, <2>5, <3>1 DEF IInv, IdleTimerPending
  <2> QED
    BY <2>3, <2>4
<1>8. VelocityExact'
  <2>1. ASSUME NEW w \in Windows
        PROVE  Total(Restrict(buckets'[a], {k \in Bucket : k >= b - w})) = Tally(admitted'[a], b - w)
    <3>1. EvictionCutoff(watermark) <= b - w
      BY WindowRetained DEF IInv, Admit
    <3>2. EvictionCutoff(watermark) \in Int /\ b - w \in Int
      BY <1>1, ConstantsAssumption, DivFacts
         DEF EvictionCutoff, Bucket, IInv, TypeOK, NoWatermark
    <3>3. b - w >= EvictionCutoff(watermark)
      BY <3>1, <3>2
    <3> HIDE DEF b
    <3> QED
      BY <1>6, <3>2, <3>3 DEF Tallied, Admit
  <2>2. ComputeVelocity(buckets'[a], b) = [w \in Windows |-> Tally(admitted'[a], b - w)]
    BY <2>1 DEF ComputeVelocity
  <2>3. emitted' = {[account |-> a, time |-> t,
                     velocity |-> ComputeVelocity(buckets'[a], b)]}
    BY DEF Admit
  <2> QED
    BY <2>2, <2>3 DEF VelocityExact
<1> QED
  BY <1>4, <1>6, <1>7, <1>8 DEF IInv

LEMMA OnTimerIInv ==
  ASSUME IInv, NEW a \in Account, NEW ts \in timers[a], OnTimer(a, ts)
  PROVE  IInv'
<1>1. ts \in Nat /\ ts <= watermark /\ watermark \in Int
  BY DEF IInv, TypeOK, OnTimer, Due, NoWatermark
<1>2. /\ EvictionCutoff(ts) \in Int /\ EvictionCutoff(watermark) \in Int
      /\ EvictionCutoff(ts) <= EvictionCutoff(watermark)
  BY <1>1, CutoffMonotone
<1>3. \A x \in Account : \A k \in Bucket :
        buckets'[x][k] = IF x = a /\ k < EvictionCutoff(ts) THEN EmptyCell
                                                            ELSE buckets[x][k]
  BY DEF IInv, TypeOK, OnTimer
<1>4. EmptyCell \in Cell /\ ~(EmptyCell.count > 0)
  BY DEF EmptyCell, Cell
<1>5. TypeOK'
  <2>1. (buckets \in [Account -> [Bucket -> Cell]])'
    BY <1>4 DEF IInv, TypeOK, OnTimer
  <2>2. (timers \in [Account -> SUBSET Nat])'
    BY DEF IInv, TypeOK, OnTimer
  <2> QED
    BY <2>1, <2>2 DEF IInv, TypeOK, OnTimer
<1>6. Tallied'
  <2> SUFFICES ASSUME NEW x \in Account, NEW k \in Int, k >= EvictionCutoff(watermark)
               PROVE  Total(Restrict(buckets'[x], {j \in Bucket : j >= k})) = Tally(admitted[x], k)
    BY DEF Tallied, OnTimer, EvictionCutoff
  <2>1. \A j \in Bucket : j >= k => ~(j < EvictionCutoff(ts))
    BY <1>2 DEF Bucket
  <2>2. Restrict(buckets'[x], {j \in Bucket : j >= k}) = Restrict(buckets[x], {j \in Bucket : j >= k})
    BY <1>3, <2>1 DEF Restrict
  <2> QED
    BY <2>2 DEF IInv, Tallied
<1>7. FinitelyMany'
  BY DEF IInv, FinitelyMany, OnTimer
<1>8. IdleTimerPending'
  <2> SUFFICES ASSUME NEW x \in Account, NEW k \in Live(x)'
               PROVE  (\E s \in Since(admitted[x], 0) :
                         BucketOf(s[1]) = k /\ s[1] + IdleTTL \in timers[x])'
    BY DEF IdleTimerPending
  <2>1. k \in Bucket /\ buckets'[x][k].count > 0
    BY DEF Live
  <2>2. ~(x = a /\ k < EvictionCutoff(ts)) /\ k \in Live(x)
    BY <1>3, <1>4, <2>1 DEF Live
  <2>3. PICK s \in Since(admitted[x], 0) : BucketOf(s[1]) = k /\ s[1] + IdleTTL \in timers[x]
    BY <2>2 DEF IInv, IdleTimerPending
  <2>4. EvictionCutoff(s[1] + IdleTTL) > k
    BY <2>3, TransactionFacts, IdleTimerEvicts DEF Since
  <2>5. ~(x = a /\ s[1] + IdleTTL = ts)
    BY <1>2, <2>1, <2>2, <2>4 DEF Bucket
  <2>6. s[1] + IdleTTL \in timers'[x]
    BY <2>3, <2>5 DEF IInv, TypeOK, OnTimer
  <2> QED
    BY <2>3, <2>6 DEF OnTimer
<1>9. VelocityExact'
  BY DEF IInv, VelocityExact, OnTimer
<1> QED
  BY <1>5, <1>6, <1>7, <1>8, <1>9 DEF IInv

LEMMA AdvanceWatermarkIInv ==
  ASSUME IInv, NEW w \in 0 .. MaxWatermark, AdvanceWatermark(w)
  PROVE  IInv'
<1>1. w \in Int /\ watermark \in Int /\ watermark <= w /\ watermark' = w
  BY ConstantsAssumption DEF IInv, TypeOK, AdvanceWatermark, NoWatermark
<1>2. /\ EvictionCutoff(watermark) \in Int /\ EvictionCutoff(w) \in Int
      /\ EvictionCutoff(watermark) <= EvictionCutoff(w)
  BY <1>1, CutoffMonotone
<1>3. TypeOK'
  BY ConstantsAssumption DEF IInv, TypeOK, AdvanceWatermark
<1>4. Tallied'
  <2> SUFFICES ASSUME NEW a \in Account, NEW k \in Int, k >= EvictionCutoff(w)
               PROVE  Total(Restrict(buckets[a], {j \in Bucket : j >= k})) = Tally(admitted[a], k)
    BY <1>1 DEF Tallied, AdvanceWatermark, EvictionCutoff
  <2>1. k >= EvictionCutoff(watermark)
    BY <1>2
  <2> QED
    BY <2>1 DEF IInv, Tallied
<1>5. (FinitelyMany /\ IdleTimerPending /\ VelocityExact)'
  BY DEF IInv, FinitelyMany, IdleTimerPending, Live, VelocityExact, AdvanceWatermark
<1> QED
  BY <1>3, <1>4, <1>5 DEF IInv

\* The operator keeps the invariant in every reachable state.
THEOREM Invariance == Spec => []IInv
<1>1. IInv /\ [Next]_vars => IInv'
  <2> SUFFICES ASSUME IInv, [Next]_vars PROVE IInv'
    OBVIOUS
  <2>1. CASE UNCHANGED vars
    BY <2>1 DEF vars, IInv, TypeOK, Tallied, FinitelyMany, IdleTimerPending, Live,
                VelocityExact
  <2>2. CASE Next
    BY <2>2, RejectLateIInv, AdmitIInv, OnTimerIInv, AdvanceWatermarkIInv DEF Next
  <2> QED
    BY <2>1, <2>2
<1> QED
  BY InitIInv, <1>1, PTL DEF Spec

-----------------------------------------------------------------------------
(* What the invariant gives. *)

\* The state has its type in every reachable state.
THEOREM TypeCorrect == Spec => []TypeOK
<1>1. IInv => TypeOK
  BY DEF IInv
<1> QED
  BY <1>1, Invariance, PTL

\* Each stored bucket has a pending timer that will delete it.
THEOREM NoBucketLeaks == Spec => []NoOrphanBucket
<1>1. IInv => NoOrphanBucket
  <2> SUFFICES ASSUME IInv, NEW a \in Account, NEW k \in Live(a)
               PROVE  \E ts \in timers[a] : EvictionCutoff(ts) > k
    BY DEF NoOrphanBucket
  <2>1. PICK x \in Since(admitted[a], 0) : BucketOf(x[1]) = k /\ x[1] + IdleTTL \in timers[a]
    BY DEF IInv, IdleTimerPending
  <2>2. EvictionCutoff(x[1] + IdleTTL) > k
    BY <2>1, TransactionFacts, IdleTimerEvicts DEF Since
  <2> QED
    BY <2>1, <2>2
<1> QED
  BY <1>1, Invariance, PTL

\* An account idle for longer than the TTL has no state once its timers fired.
THEOREM IdleEviction == Spec => []IdleAccountEvicted
<1>1. IInv => IdleAccountEvicted
  <2> SUFFICES ASSUME IInv, NEW a \in Account, Due = {},
                      \A x \in Since(admitted[a], 0) : x[1] + IdleTTL <= watermark,
                      NEW k \in Live(a)
               PROVE  FALSE
    BY DEF IdleAccountEvicted
  <2>1. PICK x \in Since(admitted[a], 0) : BucketOf(x[1]) = k /\ x[1] + IdleTTL \in timers[a]
    BY DEF IInv, IdleTimerPending
  <2>2. <<a, x[1] + IdleTTL>> \in Due
    BY <2>1 DEF Due
  <2> QED
    BY <2>2
<1> QED
  BY <1>1, Invariance, PTL

-----------------------------------------------------------------------------
(* The operator implements the counter that never forgets. *)

\* The counter's windows and the tallies of the operator are the same.
LEMMA SameWindows ==
  ASSUME NEW bag, NEW t, NEW w
  PROVE  Counter!Trailing(bag, t, w) = Since(bag, BucketOf(t) - w)
BY DEF Counter!Trailing, Counter!Time, Since, Transaction, Time, BucketOf

\* The library's sum, whichever module reaches for it.
LEMMA SameSum == ASSUME NEW f PROVE Counter!SumFunction(f) = SumFunction(f)
BY DEF Counter!SumFunction, Counter!SumFunctionOnSet, Counter!FoldFunctionOnSet,
       Counter!MapThenFoldSet, SumFunction, SumFunctionOnSet, FoldFunctionOnSet, MapThenFoldSet

LEMMA SameVelocity ==
  ASSUME NEW bag, NEW t
  PROVE  Counter!Velocity(bag, t) = [w \in Windows |-> Tally(bag, BucketOf(t) - w)]
<1>1. \A w \in Windows : Counter!Trailing(bag, t, w) = Since(bag, BucketOf(t) - w)
  BY SameWindows
<1>2. \A w \in Windows :
        [count  |-> Counter!SumFunction([x \in Counter!Trailing(bag, t, w) |-> bag[x]]),
         amount |-> Counter!SumFunction([x \in Counter!Trailing(bag, t, w) |-> bag[x] * x[2]])]
        = Tally(bag, BucketOf(t) - w)
  BY <1>1, SameSum DEF Tally
<1> QED
  BY <1>2 DEF Counter!Velocity

LEMMA SameInTime ==
  ASSUME TypeOK, NEW t \in Time
  PROVE  Counter!InTime(t) <=> ~TooLate(t)
BY ConstantsAssumption DEF Counter!InTime, TooLate, NoWatermark, TypeOK, Time

\* A step of the operator is a step of the counter, or nothing the counter sees.
LEMMA CounterStep ==
  ASSUME IInv, IInv', [Next]_vars
  PROVE  [Counter!Next]_<<admitted, watermark, emitted, rejected>>
<1>1. CASE UNCHANGED vars
  BY <1>1 DEF vars
<1>2. ASSUME NEW a \in Account, NEW t \in Time, RejectLate(a, t)
      PROVE  Counter!Reject(t)
  BY <1>2, SameInTime DEF RejectLate, Counter!Reject, IInv
<1>3. ASSUME NEW a \in Account, NEW t \in Time, NEW amount \in Amount, Admit(a, t, amount)
      PROVE  Counter!Count(a, t, amount)
  <2> DEFINE v == ComputeVelocity(buckets'[a], BucketOf(t))
             e == [account |-> a, time |-> t, velocity |-> v]
  <2>1. emitted' = {e}
    BY <1>3 DEF Admit
  <2>2. e.velocity = [w \in Windows |-> Tally(admitted'[e.account], BucketOf(e.time) - w)]
    BY <2>1 DEF IInv, VelocityExact
  <2>3. v = Counter!Velocity(admitted'[a], t)
    <3>1. e.velocity = v /\ e.account = a /\ e.time = t
      OBVIOUS
    <3> HIDE DEF e, v
    <3> QED
      BY <2>2, <3>1, SameVelocity
  <2>4. Counter!InTime(t) /\ UNCHANGED <<watermark, rejected>>
    BY <1>3, SameInTime DEF Admit, IInv
  <2>5. admitted' = [admitted EXCEPT ![a][<<t, amount>>] = @ + 1]
    BY <1>3 DEF Admit
  <2> HIDE DEF v
  <2> QED
    BY <2>1, <2>3, <2>4, <2>5 DEF Counter!Count
<1>4. ASSUME NEW a \in Account, NEW ts \in timers[a], OnTimer(a, ts)
      PROVE  UNCHANGED <<admitted, watermark, emitted, rejected>>
  BY <1>4 DEF OnTimer
<1>5. ASSUME NEW w \in 0 .. MaxWatermark, AdvanceWatermark(w)
      PROVE  Counter!Advance
  BY <1>5 DEF AdvanceWatermark, Counter!Advance
<1> QED
  BY <1>1, <1>2, <1>3, <1>4, <1>5 DEF Next, Counter!Next, Counter!Time, Time

\* For every retention, lateness and idle timeout that satisfy the assumptions, the
\* operator is the counter that keeps every transaction: each step counts, turns away
\* or reports what the counter does, and a timer that evicts buckets is no step at all
\* (velocity.py 78-148).
THEOREM Implementation == Spec => CountsLikeSlidingWindow
<1>1. Init => Counter!Init
  BY DEF Init, Counter!Init, Counter!Time, Transaction, Time, NoWatermark
<1>2. IInv /\ IInv' /\ [Next]_vars
        => [Counter!Next]_<<admitted, watermark, emitted, rejected>>
  BY CounterStep
<1> QED
  BY <1>1, <1>2, Invariance, PTL DEF Spec, CountsLikeSlidingWindow, Counter!Spec

-----------------------------------------------------------------------------
\* The minute of an instant.
LEMMA MinuteOf ==
  ASSUME NEW t \in Nat
  PROVE  /\ BucketOf(t) \in Nat
         /\ Minute * BucketOf(t) <= t
         /\ t < Minute * BucketOf(t) + Minute
BY ConstantsAssumption DEF BucketOf

\* How wide a window of w minutes is: no transaction of the last w minutes is left out,
\* and none that counts is as old as w + 1 minutes; there is no bound on later ones
\* (velocity.py 181-194).
THEOREM WindowsByMinutes ==
  ASSUME NEW bag, NEW t \in Time, NEW w \in Windows
  PROVE  /\ \A x \in Transaction :
              bag[x] > 0 /\ t - x[1] <= w * Minute => x \in Counter!Trailing(bag, t, w)
         /\ \A x \in Counter!Trailing(bag, t, w) : t - x[1] < (w + 1) * Minute
<1>1. Minute \in Nat /\ Minute > 0 /\ w \in Nat /\ t \in Nat
  BY ConstantsAssumption DEF Time
<1> DEFINE m == BucketOf(t)
<1>2. m \in Nat /\ Minute * m <= t /\ t < Minute * m + Minute
  BY <1>1, MinuteOf
<1> HIDE DEF m
<1>3. ASSUME NEW x \in Transaction
      PROVE  /\ t - x[1] <= w * Minute => BucketOf(x[1]) >= m - w
             /\ BucketOf(x[1]) >= m - w => t - x[1] < (w + 1) * Minute
  <2> DEFINE s == x[1]
             n == BucketOf(s)
  <2>1. s \in Nat
    BY ConstantsAssumption DEF Transaction, Time
  <2>2. n \in Nat /\ Minute * n <= s /\ s < Minute * n + Minute
    BY <2>1, MinuteOf
  <2> HIDE DEF s, n
  <2>3. ASSUME t - s <= w * Minute, n < m - w PROVE FALSE
    <3>1. n + w + 1 <= m
      BY <1>1, <1>2, <2>2, <2>3
    <3>2. Minute * (n + w + 1) <= Minute * m
      BY <1>1, <1>2, <2>2, <3>1
    <3>3. Minute * (n + w + 1) = Minute * n + w * Minute + Minute
      BY <1>1, <2>2
    <3> QED
      BY <1>1, <1>2, <2>1, <2>2, <2>3, <3>2, <3>3
  <2>4. ASSUME n >= m - w PROVE t - s < (w + 1) * Minute
    <3>1. Minute * m <= Minute * (n + w)
      BY <1>1, <1>2, <2>2, <2>4
    <3>2. Minute * (n + w) = Minute * n + w * Minute /\ (w + 1) * Minute = w * Minute + Minute
      BY <1>1, <2>2
    <3> QED
      BY <1>1, <1>2, <2>1, <2>2, <3>1, <3>2
  <2> QED
    BY <1>1, <1>2, <2>2, <2>3, <2>4 DEF s, n
<1>4. Counter!Trailing(bag, t, w)
        = {x \in Transaction : bag[x] > 0 /\ BucketOf(x[1]) >= m - w}
  BY DEF Counter!Trailing, Counter!Time, Transaction, Time, BucketOf, m
<1> QED
  BY <1>3, <1>4
=============================================================================
