---------------------------- MODULE IcebergSink ----------------------------
(***************************************************************************)
(* The Iceberg sinks: a buffer in the memory of an operator, written to an *)
(* Iceberg table in batches through a circuit breaker.  Five classes do    *)
(* it, in four ways:                                                       *)
(*   "flink"      IcebergEnrichedSink (processing/operators/               *)
(*                iceberg_sink.py) and IcebergDecisionsSink                *)
(*                (scoring/sinks/iceberg_decisions.py) with PyFlink;       *)
(*   "enriched",  the classes of the same names that stand in for them     *)
(*   "decisions"  where PyFlink is not installed;                          *)
(*   "base"       _IcebergSinkBase (shared/iceberg_sink_base.py).          *)
(* Only the first refuses to open without the table; "base" and            *)
(* "decisions" then discard their batches.  Only "flink" and "base" limit  *)
(* the time of an append.                                                  *)
(*                                                                         *)
(* The operator reads a stream of records from a replayable source.  A     *)
(* checkpoint saves the position in the stream and nothing of the sink, so *)
(* a restart resumes at the checkpoint with an empty buffer.               *)
(*                                                                         *)
(* invoke, close and the flush they run are one step of the operator's     *)
(* thread: it waits for the pool thread that runs the append, also after   *)
(* the timeout (the with block joins it).  Metrics, logging and the reason *)
(* text of a DLQ event are left out: the outcomes of a flush that lead to  *)
(* the different reasons are kept apart, their wording is not.             *)
(*                                                                         *)
(* Ghost variables: rejected, lost, dropped, delivered, failRun and quiet. *)
(***************************************************************************)
EXTENDS Integers, Sequences, FiniteSets, PyBreaker

CONSTANTS Txn,            \* transaction ids
          Stream,         \* the records of the source, by transaction id
          BufferMax,      \* ICEBERG_BUFFER_MAX: 100
          FlushInterval,  \* ticks in the second between time-based flushes
          MaxRestarts,    \* bound on the restarts of the job
          Classes         \* the classes a behaviour may start with

ASSUME SinkAssumption ==
  /\ Stream \in Seq(Txn)
  /\ BufferMax \in Nat /\ BufferMax >= 2
  /\ FlushInterval \in Nat \ {0}
  /\ MaxRestarts \in Nat
  /\ Classes \subseteq {"flink", "base", "enriched", "decisions"}

VARIABLES class,         \* the class of the sink
          loaded,        \* _table is not None
          status,        \* "open" while the task runs, "down" before open()
          next,          \* position of the next record of Stream
          ckpt,          \* position saved by the last checkpoint
          restarts,      \* times the job was stopped or crashed
          buffer,        \* _buffer: transaction ids, in arrival order
          sinceFlush,    \* ticks since _last_flush_time_sec
          breaker,       \* _breaker
          table,         \* transaction id -> rows in the Iceberg table
          online,        \* ids whose features all reached Feast
          rejected,      \* ids of the batches reported to the DLQ
          dropped,       \* ids of the batches discarded for want of a table
          lost,          \* checkpointed ids in the buffer of a crashed task
          delivered,     \* transaction id -> times passed to invoke
          failRun,       \* failed appends since the last one that worked
          quiet          \* ticks since the last failed append

source == <<class, loaded, status, next, ckpt, restarts>>
ghosts == <<lost, delivered>>
sink == <<sinceFlush, breaker, table, online, rejected, dropped, failRun, quiet>>
vars == <<source, buffer, sink, ghosts>>

-----------------------------------------------------------------------------
\* In-batch deduplication: what is left is the set of ids, with the first.
Batch(records) == {records[i] : i \in 1 .. Len(records)}

\* _emit_dlq_event: one event for the batch, with its first id and its size.
EmitDLQ(records) == rejected' = rejected \cup Batch(records)

\* Mutant: every buffered record is a row, duplicates included.
WriteAll(records) ==
  table' = [t \in Txn |->
              table[t] + Cardinality({i \in 1 .. Len(records) : records[i] = t})]

\* Table.append: one commit for the batch.
Write(records) ==
  table' = [t \in Txn |-> IF t \in Batch(records) THEN table[t] + 1 ELSE table[t]]

\* _push_to_feast: best effort, no failure of a feature group gets out.
PushToFeast(records) == online' \in {online, online \cup Batch(records)}

FeatureGroups == 3

\* The stand-in's _push_to_feast: velocity, geo, device; the first failure ends
\* it and _flush catches it.
PushInOrder(records) ==
  \E pushed \in 0 .. FeatureGroups :
    online' = IF pushed = FeatureGroups THEN online \cup Batch(records) ELSE online

-----------------------------------------------------------------------------
\* The outcomes of _flush on a non-empty buffer.

\* _records_to_arrow_table raises ("flush_error"): the breaker never sees the batch.
ConversionFails(records) ==
  /\ EmitDLQ(records)
  /\ sinceFlush' = 0
  /\ UNCHANGED <<breaker, table, online, dropped, failRun, quiet>>

\* No table: the batch is reported, an event per record.
ReportsUnwritten(records) ==
  /\ ~loaded
  /\ EmitDLQ(records)
  /\ sinceFlush' = 0
  /\ UNCHANGED <<breaker, table, online, dropped, failRun, quiet>>

\* No table: the batch is cleared with the buffer.
DropsUnwritten(records) ==
  /\ ~loaded
  /\ dropped' = dropped \cup Batch(records)
  /\ sinceFlush' = 0
  /\ UNCHANGED <<breaker, table, online, rejected, failRun, quiet>>

\* The breaker is open: CircuitBreakerError without a call.
BreakerRefuses(records) ==
  /\ ~Allows(breaker)
  /\ EmitDLQ(records)
  /\ sinceFlush' = 0
  /\ UNCHANGED <<breaker, table, online, dropped, failRun, quiet>>

\* The append commits, within the timeout if there is one, which is longer than
\* the interval (5 s and 1 s).
AppendCommits(records) ==
  /\ Allows(breaker)
  /\ Write(records)
  /\ breaker' = AfterSuccess(breaker)
  /\ failRun' = 0
  /\ sinceFlush' \in {0, FlushInterval}
  /\ UNCHANGED <<rejected, dropped, quiet>>

\* The append commits after the timeout: the batch is in the table and is
\* reported as failed.
AppendCommitsLate(records) ==
  /\ Allows(breaker)
  /\ Write(records)
  /\ breaker' = AfterSuccess(breaker)
  /\ failRun' = 0
  /\ EmitDLQ(records)
  /\ sinceFlush' = FlushInterval
  /\ UNCHANGED <<online, dropped, quiet>>

\* Mutant: the features are pushed although the append failed.
AppendRaisesPushing(records) ==
  /\ Allows(breaker)
  /\ Write(records) \/ UNCHANGED table
  /\ breaker' = AfterFailure(breaker)
  /\ failRun' = failRun + 1
  /\ quiet' = 0
  /\ EmitDLQ(records)
  /\ sinceFlush' \in {0, FlushInterval}
  /\ PushToFeast(records)
  /\ UNCHANGED dropped

\* The append raises, in time ("catalog_unavailable", "flush_error", or
\* "circuit_open" when it trips the breaker) or after the timeout ("timeout").
\* Whether the commit reached the catalog is not known.
AppendRaises(records) ==
  /\ Allows(breaker)
  /\ Write(records) \/ UNCHANGED table
  /\ breaker' = AfterFailure(breaker)
  /\ failRun' = failRun + 1
  /\ quiet' = 0
  /\ EmitDLQ(records)
  /\ sinceFlush' \in {0, FlushInterval}
  /\ UNCHANGED <<online, dropped>>

-----------------------------------------------------------------------------
\* _flush, class by class.

\* With PyFlink; of the two operators the enriched one pushes features.
FlinkFlush(records) ==
  \/ ConversionFails(records)
  \/ BreakerRefuses(records)
  \/ AppendCommits(records) /\ PushToFeast(records)
  \/ AppendCommitsLate(records)
  \/ AppendRaises(records)

\* The base class: the hooks are empty, no features.
BaseFlush(records) ==
  \/ DropsUnwritten(records)
  \/ /\ loaded
     /\ \/ ConversionFails(records)
        \/ BreakerRefuses(records)
        \/ AppendCommits(records) /\ UNCHANGED online
        \/ AppendCommitsLate(records)
        \/ AppendRaises(records)

\* The stand-in of the enriched sink: the append runs in the caller, untimed.
EnrichedFlush(records) ==
  \/ ReportsUnwritten(records)
  \/ /\ loaded
     /\ \/ ConversionFails(records)
        \/ BreakerRefuses(records)
        \/ AppendCommits(records) /\ PushInOrder(records)
        \/ AppendRaises(records)

\* The stand-in of the decisions sink.
DecisionsFlush(records) ==
  \/ DropsUnwritten(records)
  \/ /\ loaded
     /\ \/ ConversionFails(records)
        \/ BreakerRefuses(records)
        \/ AppendCommits(records) /\ UNCHANGED online
        \/ AppendRaises(records)

Flush(records) ==
  \/ class = "flink" /\ FlinkFlush(records)
  \/ class = "base" /\ BaseFlush(records)
  \/ class = "enriched" /\ EnrichedFlush(records)
  \/ class = "decisions" /\ DecisionsFlush(records)

-----------------------------------------------------------------------------
Init ==
  /\ class \in Classes
  /\ loaded = FALSE
  /\ status = "down"
  /\ next = 1
  /\ ckpt = 1
  /\ restarts = 0
  /\ buffer = <<>>
  /\ sinceFlush = 0
  /\ breaker = ClosedBreaker
  /\ table = [t \in Txn |-> 0]
  /\ online = {}
  /\ rejected = {}
  /\ dropped = {}
  /\ lost = {}
  /\ delivered = [t \in Txn |-> 0]
  /\ failRun = 0
  /\ quiet = ResetTimeout

\* With PyFlink open() raises without the table and the task does not start.
RequiresTable == class = "flink"

\* The other classes warn and carry on.
LoadTable == loaded' \in IF RequiresTable THEN {TRUE} ELSE BOOLEAN

\* A task starts from the last checkpoint: a new sink object, open().
Open ==
  /\ status = "down"
  /\ LoadTable
  /\ status' = "open"
  /\ next' = ckpt
  /\ buffer' = <<>>
  /\ sinceFlush' = 0
  /\ breaker' = ClosedBreaker
  /\ failRun' = 0
  /\ quiet' = ResetTimeout
  /\ UNCHANGED <<class, ckpt, restarts, table, online, rejected, dropped,
                 lost, delivered>>

\* The next record reaches invoke.
Deliver ==
  /\ status = "open"
  /\ next <= Len(Stream)
  /\ next' = next + 1
  /\ delivered' = [delivered EXCEPT ![Stream[next]] = @ + 1]
  /\ UNCHANGED <<class, loaded, status, ckpt, restarts, lost>>

\* The stand-in of the enriched sink appends before it looks at the clock.
AppendsFirst == class = "enriched"

\* The interval is over and there is something to flush at that point.
IntervalElapsed == sinceFlush >= FlushInterval /\ (AppendsFirst \/ buffer # <<>>)

\* Mutant: the buffer is not cleared by the flush.
InvokeElapsedKeeping ==
  /\ Deliver
  /\ IntervalElapsed
  /\ ~AppendsFirst
  /\ Len(buffer) + 1 < BufferMax
  /\ Flush(buffer)
  /\ buffer' = Append(buffer, Stream[next])

\* invoke, a second after the last flush: flush what is buffered, then append.
InvokeElapsed ==
  /\ Deliver
  /\ IntervalElapsed
  /\ ~AppendsFirst
  /\ Flush(buffer)
  /\ buffer' = <<Stream[next]>>

\* invoke of the record that fills the buffer, or that comes a second after the
\* last flush and is appended first: append, then flush all.
InvokeFull ==
  /\ Deliver
  /\ \/ ~IntervalElapsed /\ Len(buffer) + 1 >= BufferMax
     \/ IntervalElapsed /\ AppendsFirst
  /\ Flush(Append(buffer, Stream[next]))
  /\ buffer' = <<>>

\* Mutant: the full buffer is noticed one record late.
InvokeBufferedOver ==
  /\ Deliver
  /\ ~IntervalElapsed
  /\ Len(buffer) + 1 <= BufferMax
  /\ buffer' = Append(buffer, Stream[next])
  /\ UNCHANGED sink

\* invoke of any other record.
InvokeBuffered ==
  /\ Deliver
  /\ ~IntervalElapsed
  /\ Len(buffer) + 1 < BufferMax
  /\ buffer' = Append(buffer, Stream[next])
  /\ UNCHANGED sink

\* Flink takes a checkpoint: the source's position, nothing of the sink.  The
\* stand-ins run without Flink: a restart begins at the first record.
Checkpoint ==
  /\ status = "open"
  /\ class \in {"flink", "base"}
  /\ ckpt' = next
  /\ UNCHANGED <<class, loaded, status, next, restarts, buffer, sink, ghosts>>

\* Mutant: close() drops what is buffered.
CloseDropping ==
  /\ status = "open"
  /\ restarts < MaxRestarts
  /\ status' = "down"
  /\ restarts' = restarts + 1
  /\ buffer' = <<>>
  /\ UNCHANGED <<class, loaded, next, ckpt, sink, lost, delivered>>

\* close(): the task is cancelled or fails in an orderly way.
Close ==
  /\ status = "open"
  /\ restarts < MaxRestarts
  /\ status' = "down"
  /\ restarts' = restarts + 1
  /\ IF buffer = <<>> THEN UNCHANGED sink ELSE Flush(buffer)
  /\ buffer' = <<>>
  /\ UNCHANGED <<class, loaded, next, ckpt, lost, delivered>>

\* The process dies.
Crash ==
  /\ status = "open"
  /\ restarts < MaxRestarts
  /\ status' = "down"
  /\ restarts' = restarts + 1
  /\ lost' = lost \cup {Stream[i] : i \in {j \in 1 .. ckpt - 1 :
                                            Stream[j] \in Batch(buffer)}}
  /\ buffer' = <<>>
  /\ UNCHANGED <<class, loaded, next, ckpt, sink, delivered>>

\* The clock.  Nothing else runs by itself: there is no flush timer.
Tick ==
  /\ sinceFlush' = Saturate(sinceFlush, FlushInterval)
  /\ breaker' = Aged(breaker)
  /\ quiet' = Saturate(quiet, ResetTimeout)
  /\ UNCHANGED <<source, buffer, table, online, rejected, dropped,
                 lost, delivered, failRun>>

Next ==
  \/ Open
  \/ InvokeElapsed
  \/ InvokeFull
  \/ InvokeBuffered
  \/ Checkpoint
  \/ Close
  \/ Crash
  \/ Tick

Spec == Init /\ [][Next]_vars

-----------------------------------------------------------------------------
\* The types, and the bound on the buffer: between two calls of invoke it holds
\* fewer than BufferMax records, whatever the flushes did (iceberg_sink.py 182-205).
TypeOK ==
  /\ class \in {"flink", "base", "enriched", "decisions"}
  /\ loaded \in BOOLEAN
  /\ status \in {"open", "down"}
  /\ next \in 1 .. Len(Stream) + 1
  /\ ckpt \in 1 .. Len(Stream) + 1
  /\ restarts \in 0 .. MaxRestarts
  /\ buffer \in Seq(Txn) /\ Len(buffer) < BufferMax
  /\ sinceFlush \in 0 .. FlushInterval
  /\ breaker \in Breaker
  /\ table \in [Txn -> Nat]
  /\ online \subseteq Txn
  /\ rejected \subseteq Txn
  /\ dropped \subseteq Txn
  /\ lost \subseteq Txn
  /\ delivered \in [Txn -> Nat]
  /\ failRun \in Nat
  /\ quiet \in 0 .. ResetTimeout

\* No record vanishes while the process lives: every record the source has
\* handed over and will not hand over again is buffered, in the table, in a
\* batch reported to the DLQ, or was checkpointed out of a buffer that a crash
\* destroyed (_flush clears the buffer whatever happened, iceberg_sink.py 207-338).
\* Of the classes only the shared base and the stand-in of the decisions sink
\* discard records without a word, when open() found no table
\* (iceberg_sink_base.py 133-135, iceberg_decisions.py 405).
EveryRecordAccounted ==
  LET position == IF status = "open" THEN next ELSE ckpt
  IN  \A i \in 1 .. position - 1 :
        \/ Stream[i] \in Batch(buffer) \cup rejected \cup lost
        \/ table[Stream[i]] > 0
        \/ class \in {"base", "decisions"} /\ Stream[i] \in dropped

\* A row per delivery at most: no record is written twice because of a flush
\* that timed out, failed after committing or was followed by close(); only a
\* delivery that is repeated (a restart, a duplicate in the stream) can repeat a
\* row (iceberg_sink.py 207-338, the in-batch deduplication included).
RowPerDelivery ==
  \A t \in Txn : table[t] <= delivered[t] - (IF t \in Batch(buffer) THEN 1 ELSE 0)

\* The sink as a writer of batches.
Writer == INSTANCE BatchWriter
            WITH up <- status = "open", held <- Batch(buffer), rows <- table,
                 reported <- rejected, discarded <- dropped

\* A batch ends as a whole: one row for each of its transactions, however often the
\* stream repeated it within the batch (FR-005, first layer), or none; and without rows it
\* is reported or discarded for want of a table, whichever class, step of the flush or
\* timeout it was, and nothing outside the batch is touched (iceberg_sink.py 182-338).
WritesInBatches == Writer!Spec

\* The features of a transaction reach the online store only when its row is in
\* the table, also when appends fail or time out (iceberg_sink.py 258-281).
OnlineFollowsTable == \A t \in online : table[t] > 0

\* FR-025 (iceberg_sink.py 238-325): after FailMax failures in a row the catalog is left alone until
\* ResetTimeout after the last of them, by whichever path a flush is started.
BreakerSparesCatalog ==
  [][ (\/ table' # table
       \/ failRun' > failRun)
      => failRun < FailMax \/ quiet >= ResetTimeout ]_vars

-----------------------------------------------------------------------------
\* FraudDecision: "Persisted for every ALLOW/FLAG/BLOCK outcome. Never dropped."
\* A record the source will not hand over again is in the table, waits in the
\* buffer or was reported.
NeverDropped ==
  LET position == IF status = "open" THEN next ELSE ckpt
  IN  \A i \in 1 .. position - 1 :
        Stream[i] \in Batch(buffer) \cup rejected \/ table[Stream[i]] > 0
=============================================================================
