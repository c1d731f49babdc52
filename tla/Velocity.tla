------------------------------ MODULE Velocity ------------------------------
(***************************************************************************)
(* VelocityProcessFunction (pipelines/processing/operators/velocity.py):   *)
(* the keyed Flink operator that counts and sums the transactions of an    *)
(* account per event-time minute and reports, with every transaction, the  *)
(* totals of the trailing windows.                                         *)
(*                                                                         *)
(* Time is in ticks, Minute ticks to the minute.  The MapState of an       *)
(* account is a total function on the minute buckets; a bucket absent from *)
(* the map is the cell with count 0 (the code never stores a count of 0).  *)
(*                                                                         *)
(* The operator runs single-threaded per subtask: Flink hands it elements, *)
(* watermarks and event-time timers.  A watermark first sets the operator's*)
(* clock and then fires every timer that is due, in timestamp order, before*)
(* the next element or watermark.                                          *)
(*                                                                         *)
(* admitted is a ghost variable: the transactions themselves, as a bag.    *)
(***************************************************************************)
EXTENDS Integers, Functions

CONSTANTS Account,          \* the keys (account_id)
          Amount,           \* transaction amounts
          Minute,           \* ticks per bucket: 60_000 ms
          Windows,          \* window lengths in minutes: {1, 5, 60, 1440}
          Retention,        \* _RETENTION_MS: 24 h + 41 s
          IdleTTL,          \* _IDLE_TTL_MS: 7 days
          AllowedLateness,  \* allowed_lateness_ms: 30 s by default
          MaxTime,          \* bound on event times
          MaxWatermark,     \* bound on the watermark
          MaxEvents         \* bound on the elements delivered

ASSUME ConstantsAssumption ==
  /\ Amount \subseteq Nat
  /\ Minute \in Nat \ {0}
  /\ Windows \subseteq Nat
  /\ Retention \in Nat
  /\ IdleTTL \in Nat
  /\ AllowedLateness \in Nat
  /\ MaxTime \in Nat
  /\ MaxWatermark \in Nat
  /\ MaxEvents \in Nat

\* What makes eviction safe: the retention exceeds the longest window by at
\* least the allowed lateness (41 s against 30 s in the default configuration).
ASSUME RetentionAssumption ==
  \A w \in Windows : w * Minute + AllowedLateness <= Retention

\* What makes eviction complete: the idle timer fires at least one bucket after
\* the retention timer (7 days against 24 h and 41 s).
ASSUME IdleAssumption == Retention + Minute <= IdleTTL

VARIABLES buckets,    \* account -> bucket -> (count, amount_sum)
          timers,     \* account -> pending event-time timers
          watermark,  \* ctx.timer_service().current_watermark()
          emitted,    \* what the last process_element yielded: {} or one record
          rejected,   \* late events sent to LATE_DLQ_TAG
          arrivals,   \* elements delivered so far
          admitted    \* ghost: account -> (time, amount) -> transactions admitted

vars == <<buckets, timers, watermark, emitted, rejected, arrivals, admitted>>

-----------------------------------------------------------------------------
Time == 0 .. MaxTime

\* A transaction, by its event time and its amount.
Transaction == Time \X Amount

\* bucket_key = event_time_ms // 60_000
BucketOf(t) == t \div Minute

Bucket == 0 .. BucketOf(MaxTime)

Cell == [count : Nat, amount : Nat]

EmptyCell == [count |-> 0, amount |-> 0]

\* Long.MIN_VALUE in the code: no watermark has reached the operator.
NoWatermark == -1

\* Mutant: the amount is taken off the sum.
AddToNegated(cell, amount) ==
  [count |-> cell.count + 1, amount |-> cell.amount - amount]

\* One more transaction in the bucket's (count, amount_sum).
AddTo(cell, amount) == [count |-> cell.count + 1, amount |-> cell.amount + amount]

\* The sums over a set of cells: (vel_count, vel_amount) of a window.
Total(cells) ==
  [count  |-> SumFunction([k \in DOMAIN cells |-> cells[k].count]),
   amount |-> SumFunction([k \in DOMAIN cells |-> cells[k].amount])]

\* The scan over the stored buckets: a lower cutoff per window, no upper one.
ComputeVelocity(cells, current) ==
  [w \in Windows |-> Total(Restrict(cells, {k \in Bucket : k >= current - w}))]

\* Mutant: an event that is late by exactly the allowed lateness is turned away.
TooLateInclusive(t) == watermark # NoWatermark /\ t <= watermark - AllowedLateness

\* The event is behind the watermark by more than the allowed lateness.
TooLate(t) == watermark # NoWatermark /\ t < watermark - AllowedLateness

\* Mutant: the buckets are kept for the retention less the lateness slack.
EvictionCutoffEager(ts) == (ts - Retention) \div Minute + 1

\* Mutant: the cutoff is computed from the idle TTL.
EvictionCutoffIdle(ts) == (ts - IdleTTL) \div Minute

\* on_timer keeps the buckets from this one on.
EvictionCutoff(ts) == (ts - Retention) \div Minute

Live(a) == {k \in Bucket : buckets[a][k].count > 0}

Due == {x \in UNION {{a} \X timers[a] : a \in Account} : x[2] <= watermark}

-----------------------------------------------------------------------------
Init ==
  /\ buckets = [a \in Account |-> [k \in Bucket |-> EmptyCell]]
  /\ timers = [a \in Account |-> {}]
  /\ watermark = NoWatermark
  /\ emitted = {}
  /\ rejected = 0
  /\ arrivals = 0
  /\ admitted = [a \in Account |-> [x \in Transaction |-> 0]]

\* Flink processes an element only when the timers of the last watermark fired.
Deliver ==
  /\ Due = {}
  /\ arrivals < MaxEvents
  /\ arrivals' = arrivals + 1

\* process_element, the early return: side output, nothing else.
RejectLate(a, t) ==
  /\ Deliver
  /\ TooLate(t)
  /\ rejected' = rejected + 1
  /\ emitted' = {}
  /\ UNCHANGED <<buckets, timers, watermark, admitted>>

\* Mutant: the idle timer is not registered.
TimersWithoutIdle(t) == {t + Retention}

\* The two timers process_element registers.
NewTimers(t) == {t + Retention, t + IdleTTL}

\* process_element, the main path: update the bucket, scan, register, yield.
Admit(a, t, amount) ==
  /\ Deliver
  /\ ~TooLate(t)
  /\ buckets' = [buckets EXCEPT ![a][BucketOf(t)] = AddTo(@, amount)]
  /\ admitted' = [admitted EXCEPT ![a][<<t, amount>>] = @ + 1]
  /\ emitted' = {[account  |-> a,
                  time     |-> t,
                  velocity |-> ComputeVelocity(buckets'[a], BucketOf(t))]}
  /\ timers' = [timers EXCEPT ![a] = @ \cup NewTimers(t)]
  /\ UNCHANGED <<watermark, rejected>>

\* on_timer, fired by Flink for the earliest due timer.
OnTimer(a, ts) ==
  /\ <<a, ts>> \in Due
  /\ \A x \in Due : ts <= x[2]
  /\ timers' = [timers EXCEPT ![a] = @ \ {ts}]
  /\ buckets' = [buckets EXCEPT ![a] =
       [k \in Bucket |-> IF k < EvictionCutoff(ts) THEN EmptyCell ELSE @[k]]]
  /\ UNCHANGED <<watermark, emitted, rejected, arrivals, admitted>>

\* A watermark reaches the operator.  It is the minimum over the partitions,
\* driven by the events of every account, so any advance is possible.
AdvanceWatermark(w) ==
  /\ Due = {}
  /\ w > watermark
  /\ watermark' = w
  /\ UNCHANGED <<buckets, timers, emitted, rejected, arrivals, admitted>>

Next ==
  \/ \E a \in Account, t \in Time : RejectLate(a, t)
  \/ \E a \in Account, t \in Time, amount \in Amount : Admit(a, t, amount)
  \/ \E a \in Account : \E ts \in timers[a] : OnTimer(a, ts)
  \/ \E w \in 0 .. MaxWatermark : AdvanceWatermark(w)

Spec == Init /\ [][Next]_vars

-----------------------------------------------------------------------------
\* Every stored cell is a cell, every timer and the watermark a time.
TypeOK ==
  /\ buckets \in [Account -> [Bucket -> Cell]]
  /\ timers \in [Account -> SUBSET Nat]
  /\ watermark \in {NoWatermark} \cup Nat
  /\ \A e \in emitted : e.account \in Account /\ e.time \in Time
  /\ rejected \in Nat
  /\ arrivals \in 0 .. MaxEvents
  /\ admitted \in [Account -> [Transaction -> Nat]]

\* The transactions of a bag that fall into a bucket or a later one.
Since(bag, bucket) == {x \in Transaction : bag[x] > 0 /\ BucketOf(x[1]) >= bucket}

\* No bucket leaks: for every stored bucket a timer is pending whose on_timer
\* will delete it (the retention timer of an account's last event keeps that
\* event's own bucket, so only the idle timer can; velocity.py 128-129, 142-148).
NoOrphanBucket ==
  \A a \in Account : \A k \in Live(a) :
    \E ts \in timers[a] : EvictionCutoff(ts) > k

\* FR-011: once the watermark has passed the idle TTL of every event admitted
\* for an account, and the timers it made due have fired, the account has no
\* state left.
IdleAccountEvicted ==
  \A a \in Account :
    (/\ Due = {}
     /\ \A x \in Since(admitted[a], 0) : x[1] + IdleTTL <= watermark)
    => Live(a) = {}

\* The operator as a counter that never forgets, on the transactions it admitted.
Counter == INSTANCE SlidingWindow WITH history <- admitted, late <- rejected

\* Buckets, timers and evictions cannot be told from the counter that keeps every
\* transaction and measures its windows in whole minutes: the same are counted and the
\* same turned away, in every order of transactions and watermarks, and no report
\* shows what was evicted before (velocity.py 78-148; the late ones: FR-014).
CountsLikeSlidingWindow == Counter!Spec
=============================================================================
