-------------------------- MODULE IcebergSinkProofs --------------------------
(***************************************************************************)
(* The sink's properties for every stream, buffer size, timeout and number *)
(* of restarts.                                                            *)
(***************************************************************************)
EXTENDS IcebergSink, TLAPS

\* The breaker remembers exactly the failures of the appends: closed, it has
\* counted them all and they are fewer than FailMax; open, its clock started at
\* the last of them.
BreakerTracksAppends ==
  /\ breaker.open => breaker.sinceOpen = quiet
  /\ ~breaker.open => breaker.failures = failRun /\ failRun < FailMax

\* A task that is down holds nothing, and the checkpoint is not ahead of the
\* position it was taken at.
RestartPoint ==
  /\ status = "down" => buffer = <<>>
  /\ status = "open" => ckpt <= next

IInv ==
  /\ TypeOK
  /\ EveryRecordAccounted
  /\ RowPerDelivery
  /\ OnlineFollowsTable
  /\ BreakerTracksAppends
  /\ RestartPoint

-----------------------------------------------------------------------------
\* The batch of a sequence of transactions is a set of transactions.
LEMMA BatchType ==
  ASSUME NEW s \in Seq(Txn)
  PROVE  Batch(s) \subseteq Txn
BY DEF Batch

\* What the batch of a buffer is after one more record.
LEMMA BatchAppend ==
  ASSUME NEW s \in Seq(Txn), NEW t \in Txn
  PROVE  /\ Append(s, t) \in Seq(Txn)
         /\ Append(s, t) # <<>>
         /\ Len(Append(s, t)) = Len(s) + 1
         /\ Batch(Append(s, t)) = Batch(s) \cup {t}
<1>0. Append(s, t) \in Seq(Txn) /\ Len(Append(s, t)) = Len(s) + 1
  OBVIOUS
<1>2. Len(s) \in Nat
  OBVIOUS
<1>1. Append(s, t) \in Seq(Txn) /\ Append(s, t) # <<>> /\ Len(Append(s, t)) = Len(s) + 1
  <2>1. Len(<<>>) = 0
    OBVIOUS
  <2> QED
    BY <1>0, <1>2, <2>1
<1>3. \A i \in 1 .. Len(s) : Append(s, t)[i] = s[i]
  OBVIOUS
<1>4. Append(s, t)[Len(s) + 1] = t
  OBVIOUS
<1>5. Batch(Append(s, t)) = {Append(s, t)[i] : i \in 1 .. Len(s) + 1}
  BY <1>1 DEF Batch
<1>6. Batch(Append(s, t)) \subseteq Batch(s) \cup {t}
  <2> SUFFICES ASSUME NEW i \in 1 .. Len(s) + 1
               PROVE  Append(s, t)[i] \in Batch(s) \cup {t}
    BY <1>5
  <2>1. CASE i = Len(s) + 1
    BY <2>1, <1>4
  <2>2. CASE i \in 1 .. Len(s)
    BY <2>2, <1>3 DEF Batch
  <2> QED
    BY <2>1, <2>2, <1>2
<1>7. Batch(s) \subseteq Batch(Append(s, t))
  <2> SUFFICES ASSUME NEW i \in 1 .. Len(s)
               PROVE  s[i] \in Batch(Append(s, t))
    BY DEF Batch
  <2>1. i \in 1 .. Len(s) + 1
    BY <1>2
  <2> QED
    BY <2>1, <1>3, <1>5
<1>8. t \in Batch(Append(s, t))
  <2>1. Len(s) + 1 \in 1 .. Len(s) + 1
    BY <1>2
  <2> QED
    BY <2>1, <1>4, <1>5
<1> QED
  BY <1>1, <1>6, <1>7, <1>8

\* The batch of one record, and of none.
LEMMA BatchSmall ==
  /\ Batch(<<>>) = {}
  /\ \A t : Batch(<<t>>) = {t}
<1>1. Batch(<<>>) = {}
  BY DEF Batch
<1>2. ASSUME NEW t PROVE Batch(<<t>>) = {t}
  <2>1. Len(<<t>>) = 1 /\ <<t>>[1] = t
    OBVIOUS
  <2> QED
    BY <2>1 DEF Batch
<1> QED
  BY <1>1, <1>2

\* The classes whose _flush discards the batch when there is no table.
Discards == class \in {"base", "decisions"}

\* What every outcome of _flush does with a non-empty batch: each record of it
\* is in the table, reported or discarded, no other row changes and none by more than one,
\* and the breaker keeps track.  The append is tried only if the breaker allows.
FlushDone(records) ==
  /\ table' \in [Txn -> Nat]
  /\ \A t \in Txn : /\ table[t] <= table'[t]
                    /\ table'[t] <= table[t] + 1
                    /\ t \notin Batch(records) => table'[t] = table[t]
  /\ \A t \in Batch(records) : table'[t] > 0 \/ t \in rejected' \/ (Discards /\ t \in dropped')
  /\ rejected \subseteq rejected' /\ rejected' \subseteq Txn
  /\ dropped \subseteq dropped' /\ dropped' \subseteq Txn
  /\ online' \subseteq Txn /\ \A t \in online' : table'[t] > 0
  /\ sinceFlush' \in 0 .. FlushInterval
  /\ breaker' \in Breaker
  /\ failRun' \in Nat
  /\ quiet' \in 0 .. ResetTimeout
  /\ BreakerTracksAppends'
  /\ table' # table \/ failRun' > failRun => Allows(breaker)

\* Every outcome of _flush does it.
LEMMA FlushEffect ==
  ASSUME TypeOK, BreakerTracksAppends, OnlineFollowsTable,
         NEW records \in Seq(Txn), records # <<>>, Flush(records)
  PROVE  FlushDone(records)
<1> USE SinkAssumption, BreakerAssumption
<1>t. /\ table \in [Txn -> Nat] /\ rejected \subseteq Txn
      /\ online \subseteq Txn /\ failRun \in Nat /\ quiet \in 0 .. ResetTimeout
      /\ breaker \in Breaker /\ dropped \subseteq Txn
  BY DEF TypeOK
<1>b. Batch(records) \subseteq Txn /\ Head(records) \in Txn
  BY BatchType
<1>e. ASSUME EmitDLQ(records)
      PROVE  /\ rejected \subseteq rejected' /\ rejected' \subseteq Txn
             /\ Batch(records) \subseteq rejected'
  BY <1>e, <1>t, <1>b DEF EmitDLQ
<1>w. ASSUME Write(records)
      PROVE  /\ table' \in [Txn -> Nat]
             /\ \A t \in Txn : /\ table[t] <= table'[t]
                               /\ table'[t] <= table[t] + 1
                               /\ t \notin Batch(records) => table'[t] = table[t]
             /\ \A t \in Batch(records) : table'[t] > 0
             /\ \A t \in online : table'[t] > 0
  BY <1>w, <1>t, <1>b DEF Write, OnlineFollowsTable
<1>n. ASSUME UNCHANGED table
      PROVE  /\ table' \in [Txn -> Nat]
             /\ \A t \in Txn : /\ table[t] <= table'[t]
                               /\ table'[t] <= table[t] + 1
                               /\ t \notin Batch(records) => table'[t] = table[t]
             /\ \A t \in online : table'[t] > 0
  BY <1>n, <1>t DEF OnlineFollowsTable
<1>s. AfterSuccess(breaker) \in Breaker /\ ~AfterSuccess(breaker).open
      /\ AfterSuccess(breaker).failures = 0
  BY DEF AfterSuccess, ClosedBreaker, Breaker
<1>f. /\ AfterFailure(breaker) \in Breaker
      /\ AfterFailure(breaker).open => AfterFailure(breaker).sinceOpen = 0
      /\ ~AfterFailure(breaker).open =>
           /\ AfterFailure(breaker).failures = failRun + 1
           /\ failRun + 1 < FailMax
  BY <1>t DEF AfterFailure, Trips, Breaker, BreakerTracksAppends
<1>1. CASE ConversionFails(records) \/ BreakerRefuses(records) \/ ReportsUnwritten(records)
  <2>1. /\ EmitDLQ(records) /\ sinceFlush' = 0
        /\ UNCHANGED <<breaker, table, online, dropped, failRun, quiet>>
    BY <1>1 DEF ConversionFails, BreakerRefuses, ReportsUnwritten
  <2>2. BreakerTracksAppends'
    BY <2>1 DEF BreakerTracksAppends
  <2> QED
    BY <2>1, <2>2, <1>t, <1>e, <1>n DEF FlushDone
<1>5. CASE Discards /\ DropsUnwritten(records)
  <2>1. /\ dropped' = dropped \cup Batch(records) /\ sinceFlush' = 0
        /\ UNCHANGED <<breaker, table, online, rejected, failRun, quiet>>
    BY <1>5 DEF DropsUnwritten
  <2>2. BreakerTracksAppends'
    BY <2>1 DEF BreakerTracksAppends
  <2> QED
    BY <2>1, <2>2, <1>5, <1>t, <1>b, <1>n DEF FlushDone
<1>2. CASE AppendCommits(records) /\ online' \in {online, online \cup Batch(records)}
  <2>1. BreakerTracksAppends'
    BY <1>2, <1>s DEF AppendCommits, BreakerTracksAppends
  <2>2. online' \subseteq Txn /\ \A t \in online' : table'[t] > 0
    BY <1>2, <1>t, <1>b, <1>w DEF AppendCommits
  <2> QED
    BY <1>2, <2>1, <2>2, <1>t, <1>w, <1>s DEF AppendCommits, FlushDone
<1>3. CASE AppendCommitsLate(records)
  <2>1. BreakerTracksAppends'
    BY <1>3, <1>s DEF AppendCommitsLate, BreakerTracksAppends
  <2> QED
    BY <1>3, <2>1, <1>t, <1>w, <1>e, <1>s DEF AppendCommitsLate, FlushDone
<1>4. CASE AppendRaises(records)
  <2>1. BreakerTracksAppends'
    BY <1>4, <1>f DEF AppendRaises, BreakerTracksAppends
  <2>2. /\ EmitDLQ(records) /\ Allows(breaker) /\ online' = online /\ dropped' = dropped
        /\ failRun' = failRun + 1 /\ quiet' = 0 /\ breaker' = AfterFailure(breaker)
        /\ sinceFlush' \in 0 .. FlushInterval
        /\ Write(records) \/ UNCHANGED table
    BY <1>4 DEF AppendRaises
  <2>3. quiet' \in 0 .. ResetTimeout /\ failRun' \in Nat
    BY <2>2, <1>t
  <2> QED
    BY <2>1, <2>2, <2>3, <1>t, <1>w, <1>n, <1>e, <1>f DEF FlushDone
<1>6. CASE FlinkFlush(records)
  BY <1>6, <1>1, <1>2, <1>3, <1>4 DEF FlinkFlush, PushToFeast
<1>7. CASE class = "base" /\ BaseFlush(records)
  BY <1>7, <1>1, <1>2, <1>3, <1>4, <1>5 DEF BaseFlush, Discards
<1>8. CASE EnrichedFlush(records)
  <2>1. PushInOrder(records) => online' \in {online, online \cup Batch(records)}
    BY DEF PushInOrder
  <2> QED
    BY <2>1, <1>8, <1>1, <1>2, <1>4 DEF EnrichedFlush
<1>9. CASE class = "decisions" /\ DecisionsFlush(records)
  BY <1>9, <1>1, <1>2, <1>4, <1>5 DEF DecisionsFlush, Discards
<1> QED
  BY <1>6, <1>7, <1>8, <1>9 DEF Flush

-----------------------------------------------------------------------------
\* The inductive invariant holds before open(): nothing delivered, nothing
\* written, a closed breaker.
LEMMA InitIInv == Init => IInv
<1> SUFFICES ASSUME Init PROVE IInv
  OBVIOUS
<1> USE SinkAssumption, BreakerAssumption
<1>1. TypeOK
  <2>1. /\ class \in {"flink", "base", "enriched", "decisions"}
        /\ loaded \in BOOLEAN /\ status \in {"open", "down"}
        /\ online \subseteq Txn /\ rejected \subseteq Txn
        /\ dropped \subseteq Txn /\ lost \subseteq Txn
    BY DEF Init
  <2>2. breaker \in Breaker /\ quiet \in 0 .. ResetTimeout /\ failRun \in Nat
    BY DEF Init, ClosedBreaker, Breaker
  <2>3. /\ buffer \in Seq(Txn) /\ Len(buffer) < BufferMax
        /\ next \in 1 .. Len(Stream) + 1 /\ ckpt \in 1 .. Len(Stream) + 1
        /\ restarts \in 0 .. MaxRestarts /\ sinceFlush \in 0 .. FlushInterval
    BY DEF Init
  <2>4. table \in [Txn -> Nat] /\ delivered \in [Txn -> Nat]
    BY DEF Init
  <2> QED
    BY <2>1, <2>2, <2>3, <2>4 DEF TypeOK
<1>2. EveryRecordAccounted
  BY DEF Init, EveryRecordAccounted
<1>3. RowPerDelivery
  BY BatchSmall DEF Init, RowPerDelivery
<1>4. OnlineFollowsTable /\ RestartPoint
  BY DEF Init, OnlineFollowsTable, RestartPoint
<1>5. BreakerTracksAppends
  BY DEF Init, BreakerTracksAppends, ClosedBreaker
<1> QED
  BY <1>1, <1>2, <1>3, <1>4, <1>5 DEF IInv

\* open() starts a task with nothing buffered at the checkpoint.
LEMMA OpenIInv == IInv /\ Open => IInv'
<1> SUFFICES ASSUME IInv, Open PROVE IInv'
  OBVIOUS
<1> USE SinkAssumption, BreakerAssumption DEF IInv
<1>0. buffer = <<>> /\ buffer' = <<>>
  BY DEF Open, RestartPoint
<1>1. TypeOK'
  <2>1. buffer' \in Seq(Txn) /\ Len(buffer') < BufferMax
    BY <1>0
  <2>2. breaker' \in Breaker
    BY DEF Open, ClosedBreaker, Breaker
  <2>3. loaded' \in BOOLEAN
    BY DEF Open, LoadTable, RequiresTable
  <2> QED
    BY <2>1, <2>2, <2>3 DEF Open, TypeOK
<1>2. EveryRecordAccounted'
  BY <1>0 DEF Open, EveryRecordAccounted, TypeOK
<1>3. RowPerDelivery' /\ OnlineFollowsTable'
  BY <1>0 DEF Open, RowPerDelivery, OnlineFollowsTable
<1>4. RestartPoint'
  BY DEF Open, RestartPoint, TypeOK
<1>5. BreakerTracksAppends'
  BY DEF Open, BreakerTracksAppends, ClosedBreaker
<1> QED
  BY <1>1, <1>2, <1>3, <1>4, <1>5

\* The position and the count of deliveries after one more record.
Delivered ==
  /\ Stream[next] \in Txn
  /\ next' \in 1 .. Len(Stream) + 1
  /\ next' = next + 1
  /\ delivered' \in [Txn -> Nat]
  /\ delivered'[Stream[next]] = delivered[Stream[next]] + 1
  /\ \A t \in Txn : t # Stream[next] => delivered'[t] = delivered[t]
  /\ status = "open" /\ status' = "open"
  /\ ckpt' = ckpt /\ restarts' = restarts /\ lost' = lost
  /\ class' = class /\ loaded' = loaded
  /\ ckpt' <= next'
  /\ \A i \in 1 .. next' - 1 : i \in 1 .. next - 1 \/ i = next

\* Deliver does that.
LEMMA DeliverEffect ==
  ASSUME TypeOK, RestartPoint, Deliver
  PROVE  Delivered
<1>1. Stream[next] \in Txn /\ Len(Stream) \in Nat
  BY SinkAssumption DEF TypeOK, Deliver
<1>2. next' = next + 1 /\ next \in 1 .. Len(Stream) /\ status = "open"
      /\ status' = "open" /\ ckpt' = ckpt /\ restarts' = restarts /\ lost' = lost
      /\ class' = class /\ loaded' = loaded
  BY <1>1 DEF TypeOK, Deliver
<1>3. ckpt' <= next'
  BY <1>2 DEF RestartPoint, TypeOK
<1>4. /\ delivered' \in [Txn -> Nat]
      /\ delivered'[Stream[next]] = delivered[Stream[next]] + 1
      /\ \A t \in Txn : t # Stream[next] => delivered'[t] = delivered[t]
  BY <1>1 DEF TypeOK, Deliver
<1>5. \A i \in 1 .. next' - 1 : i \in 1 .. next - 1 \/ i = next
  BY <1>1, <1>2
<1> QED
  BY <1>1, <1>2, <1>3, <1>4, <1>5 DEF Delivered

\* An invoke that flushes: what was buffered and is not any more is in the
\* table, reported or discarded.
LEMMA InvokeFlushAccounts ==
  ASSUME IInv, Delivered, NEW records \in Seq(Txn), FlushDone(records),
         buffer' \in Seq(Txn),
         Batch(buffer) \cup {Stream[next]} \subseteq Batch(records) \cup Batch(buffer')
  PROVE  EveryRecordAccounted'
<1> USE SinkAssumption DEF IInv
<1> SUFFICES ASSUME NEW i \in 1 .. next' - 1
             PROVE  \/ Stream[i] \in Batch(buffer') \cup rejected' \cup lost'
                    \/ table'[Stream[i]] > 0
                    \/ Discards /\ Stream[i] \in dropped'
  BY DEF EveryRecordAccounted, Delivered, Discards
<1>1. Stream[i] \in Txn
  <2>1. next' \in 1 .. Len(Stream) + 1 /\ Len(Stream) \in Nat
    BY DEF Delivered
  <2>2. i \in 1 .. Len(Stream)
    <3> HIDE SinkAssumption DEF IInv
    <3> DEFINE n == Len(Stream)
               m == next'
    <3>1. n \in Nat /\ m \in 1 .. n + 1 /\ i \in 1 .. m - 1
      BY <2>1
    <3> HIDE DEF n, m
    <3>2. i \in 1 .. n
      BY <3>1
    <3> QED
      BY <3>2 DEF n
  <2>3. \A j \in 1 .. Len(Stream) : Stream[j] \in Txn
    OBVIOUS
  <2> QED
    BY <2>2, <2>3
<1>2. \/ Stream[i] \in Batch(buffer) \cup {Stream[next]} \cup rejected \cup lost
      \/ table[Stream[i]] > 0
      \/ Discards /\ Stream[i] \in dropped
  BY DEF EveryRecordAccounted, Delivered, Discards
<1>3. CASE Stream[i] \in Batch(records)
  BY <1>3 DEF FlushDone
<1>4. CASE Stream[i] \in Batch(buffer')
  BY <1>4
<1>5. CASE Stream[i] \in rejected \cup lost
  BY <1>5 DEF FlushDone, Delivered
<1>6. CASE table[Stream[i]] > 0
  BY <1>1, <1>6 DEF FlushDone, TypeOK
<1>7. CASE Discards /\ Stream[i] \in dropped
  BY <1>7 DEF FlushDone
<1> QED
  BY <1>2, <1>3, <1>4, <1>5, <1>6, <1>7

\* The rest of the invariant after an invoke that flushes.
LEMMA InvokeFlushIInv ==
  ASSUME IInv, Delivered, NEW records \in Seq(Txn), FlushDone(records),
         buffer' \in Seq(Txn), Len(buffer') < BufferMax,
         Batch(buffer) \cup {Stream[next]} \subseteq Batch(records) \cup Batch(buffer'),
         Batch(records) \cap Batch(buffer') \subseteq Batch(buffer) \cap {Stream[next]},
         Batch(records) \cup Batch(buffer') \subseteq Batch(buffer) \cup {Stream[next]}
  PROVE  IInv'
<1> USE SinkAssumption, BreakerAssumption DEF IInv
<1>1. TypeOK'
  <2>1. /\ sinceFlush' \in 0 .. FlushInterval /\ breaker' \in Breaker
        /\ table' \in [Txn -> Nat] /\ online' \subseteq Txn
        /\ rejected' \subseteq Txn /\ failRun' \in Nat /\ quiet' \in 0 .. ResetTimeout
        /\ dropped' \subseteq Txn
    BY DEF FlushDone
  <2>2. /\ status' \in {"open", "down"} /\ next' \in 1 .. Len(Stream) + 1
        /\ ckpt' = ckpt /\ restarts' = restarts /\ lost' = lost
        /\ class' = class /\ loaded' = loaded
        /\ delivered' \in [Txn -> Nat]
    BY DEF Delivered
  <2> QED
    BY <2>1, <2>2 DEF TypeOK
<1>2. EveryRecordAccounted'
  BY InvokeFlushAccounts
<1>3. RowPerDelivery'
  <2> SUFFICES ASSUME NEW t \in Txn
               PROVE  table'[t] <= delivered'[t] - (IF t \in Batch(buffer') THEN 1 ELSE 0)
    BY DEF RowPerDelivery
  <2>1. table[t] <= delivered[t] - (IF t \in Batch(buffer) THEN 1 ELSE 0)
    BY DEF RowPerDelivery
  <2>2. table[t] \in Nat /\ delivered[t] \in Nat /\ table'[t] \in Nat
        /\ delivered'[t] \in Nat
    BY DEF TypeOK, FlushDone, Delivered
  <2>3. delivered'[t] = IF t = Stream[next] THEN delivered[t] + 1 ELSE delivered[t]
    BY DEF Delivered
  <2>4. table'[t] <= IF t \in Batch(records) THEN table[t] + 1 ELSE table[t]
    BY <2>2 DEF FlushDone
  <2> QED
    BY <2>1, <2>2, <2>3, <2>4
<1>4. OnlineFollowsTable' /\ BreakerTracksAppends'
  BY DEF OnlineFollowsTable, FlushDone
<1>5. RestartPoint'
  BY DEF RestartPoint, Delivered
<1> QED
  BY <1>1, <1>2, <1>3, <1>4, <1>5

\* invoke with the interval elapsed: the old buffer is flushed, the record waits.
LEMMA InvokeElapsedIInv == IInv /\ InvokeElapsed => IInv'
<1> SUFFICES ASSUME IInv, InvokeElapsed PROVE IInv'
  OBVIOUS
<1>1. Deliver /\ Flush(buffer) /\ buffer' = <<Stream[next]>>
      /\ buffer # <<>>
  BY DEF InvokeElapsed, IntervalElapsed
<1>2. buffer \in Seq(Txn)
  BY DEF IInv, TypeOK
<1>3. Delivered
  BY <1>1, DeliverEffect DEF IInv
<1>4. FlushDone(buffer)
  BY <1>1, <1>2, FlushEffect DEF IInv
<1>5. buffer' \in Seq(Txn) /\ Len(buffer') < BufferMax /\ Batch(buffer') = {Stream[next]}
  BY <1>1, <1>3, BatchSmall, SinkAssumption DEF Delivered
<1> QED
  BY <1>1, <1>2, <1>3, <1>4, <1>5, InvokeFlushIInv

\* invoke of the record that fills the buffer: all of it is flushed.
LEMMA InvokeFullIInv == IInv /\ InvokeFull => IInv'
<1> SUFFICES ASSUME IInv, InvokeFull PROVE IInv'
  OBVIOUS
<1> DEFINE records == Append(buffer, Stream[next])
<1>1. Deliver /\ Flush(records) /\ buffer' = <<>>
  BY DEF InvokeFull
<1>2. buffer \in Seq(Txn)
  BY DEF IInv, TypeOK
<1>3. Delivered
  BY <1>1, DeliverEffect DEF IInv
<1>4. /\ records \in Seq(Txn) /\ records # <<>>
      /\ Batch(records) = Batch(buffer) \cup {Stream[next]}
  BY <1>2, <1>3, BatchAppend DEF Delivered
<1>5. FlushDone(records)
  BY <1>1, <1>4, FlushEffect DEF IInv
<1>6. buffer' \in Seq(Txn) /\ Len(buffer') < BufferMax /\ Batch(buffer') = {}
  BY <1>1, BatchSmall, SinkAssumption
<1> HIDE DEF records
<1> QED
  BY <1>1, <1>3, <1>4, <1>5, <1>6, InvokeFlushIInv

\* invoke of any other record: it waits in the buffer.
LEMMA InvokeBufferedIInv == IInv /\ InvokeBuffered => IInv'
<1> SUFFICES ASSUME IInv, InvokeBuffered PROVE IInv'
  OBVIOUS
<1> USE SinkAssumption, BreakerAssumption DEF IInv
<1>1. /\ Deliver /\ Len(buffer) + 1 < BufferMax
      /\ buffer' = Append(buffer, Stream[next])
      /\ UNCHANGED <<sinceFlush, breaker, table, online, rejected, dropped, failRun, quiet>>
  BY DEF InvokeBuffered, sink
<1>2. Delivered
  BY <1>1, DeliverEffect
<1>3. /\ buffer' \in Seq(Txn) /\ Len(buffer') < BufferMax
      /\ Batch(buffer') = Batch(buffer) \cup {Stream[next]}
  BY <1>1, <1>2, BatchAppend DEF TypeOK, Delivered
<1>4. TypeOK'
  <2>1. /\ status' \in {"open", "down"} /\ next' \in 1 .. Len(Stream) + 1
        /\ ckpt' = ckpt /\ restarts' = restarts /\ lost' = lost
        /\ class' = class /\ loaded' = loaded
        /\ delivered' \in [Txn -> Nat]
    BY <1>2 DEF Delivered
  <2> QED
    BY <1>1, <1>3, <2>1 DEF TypeOK
<1>5. EveryRecordAccounted'
  <2> SUFFICES ASSUME NEW i \in 1 .. next' - 1
               PROVE  \/ Stream[i] \in Batch(buffer') \cup rejected' \cup lost'
                      \/ table'[Stream[i]] > 0
                      \/ class' \in {"base", "decisions"} /\ Stream[i] \in dropped'
    BY <1>2 DEF EveryRecordAccounted, Delivered
  <2> QED
    BY <1>1, <1>2, <1>3 DEF EveryRecordAccounted, Delivered
<1>6. RowPerDelivery'
  <2> SUFFICES ASSUME NEW t \in Txn
               PROVE  table[t] <= delivered'[t] - (IF t \in Batch(buffer') THEN 1 ELSE 0)
    BY <1>1 DEF RowPerDelivery
  <2>1. table[t] <= delivered[t] - (IF t \in Batch(buffer) THEN 1 ELSE 0)
    BY DEF RowPerDelivery
  <2>2. table[t] \in Nat /\ delivered[t] \in Nat
    BY DEF TypeOK
  <2>3. delivered'[t] = IF t = Stream[next] THEN delivered[t] + 1 ELSE delivered[t]
    BY <1>2 DEF Delivered
  <2> QED
    BY <1>3, <2>1, <2>2, <2>3
<1>7. OnlineFollowsTable' /\ BreakerTracksAppends'
  BY <1>1 DEF OnlineFollowsTable, BreakerTracksAppends
<1>8. RestartPoint'
  BY <1>2 DEF RestartPoint, Delivered
<1> QED
  BY <1>4, <1>5, <1>6, <1>7, <1>8

\* A checkpoint moves only the restart point.
LEMMA CheckpointIInv == IInv /\ Checkpoint => IInv'
<1> SUFFICES ASSUME IInv, Checkpoint PROVE IInv'
  OBVIOUS
<1> USE SinkAssumption DEF IInv
<1>1. /\ ckpt' = next /\ status = "open"
      /\ UNCHANGED <<class, loaded, status, next, restarts, buffer, sinceFlush, breaker,
                     table, online, rejected, dropped, failRun, quiet, lost, delivered>>
  BY DEF Checkpoint, sink, ghosts
<1>2. TypeOK' /\ RestartPoint'
  BY <1>1 DEF TypeOK, RestartPoint
<1>3. EveryRecordAccounted' /\ RowPerDelivery'
  BY <1>1 DEF EveryRecordAccounted, RowPerDelivery, Batch
<1>4. OnlineFollowsTable' /\ BreakerTracksAppends'
  BY <1>1 DEF OnlineFollowsTable, BreakerTracksAppends
<1> QED
  BY <1>2, <1>3, <1>4

\* close() flushes what is buffered before the task goes down.
LEMMA CloseIInv == IInv /\ Close => IInv'
<1> SUFFICES ASSUME IInv, Close PROVE IInv'
  OBVIOUS
<1> USE SinkAssumption, BreakerAssumption DEF IInv
<1>1. /\ status = "open" /\ status' = "down" /\ restarts' \in 0 .. MaxRestarts
      /\ buffer' = <<>>
      /\ next' = next /\ ckpt' = ckpt /\ lost' = lost /\ delivered' = delivered
      /\ class' = class /\ loaded' = loaded
  BY DEF Close, TypeOK
<1>2. buffer \in Seq(Txn) /\ ckpt <= next /\ Batch(buffer') = {}
  BY <1>1, BatchSmall DEF TypeOK, RestartPoint
<1>3. RestartPoint'
  BY <1>1 DEF RestartPoint
<1>4. buffer' \in Seq(Txn) /\ Len(buffer') < BufferMax
  BY <1>1
<1>5. CASE buffer = <<>>
  <2>1. UNCHANGED <<buffer, sinceFlush, breaker, table, online, rejected, dropped, failRun, quiet>>
    BY <1>1, <1>5 DEF Close, sink
  <2>2. TypeOK'
    BY <1>1, <1>4, <2>1 DEF TypeOK
  <2>3. EveryRecordAccounted'
    BY <1>1, <1>2, <2>1 DEF EveryRecordAccounted, TypeOK
  <2>4. RowPerDelivery' /\ OnlineFollowsTable' /\ BreakerTracksAppends'
    BY <1>1, <2>1 DEF RowPerDelivery, OnlineFollowsTable, BreakerTracksAppends
  <2> QED
    BY <2>2, <2>3, <2>4, <1>3
<1>6. CASE buffer # <<>>
  <2>1. FlushDone(buffer)
    BY <1>2, <1>6, FlushEffect DEF Close
  <2>2. TypeOK'
    <3>1. /\ sinceFlush' \in 0 .. FlushInterval /\ breaker' \in Breaker
          /\ table' \in [Txn -> Nat] /\ online' \subseteq Txn
          /\ rejected' \subseteq Txn /\ failRun' \in Nat /\ quiet' \in 0 .. ResetTimeout
          /\ dropped' \subseteq Txn
      BY <2>1 DEF FlushDone
    <3> QED
      BY <3>1, <1>1, <1>4 DEF TypeOK
  <2>3. EveryRecordAccounted'
    <3> SUFFICES ASSUME NEW i \in 1 .. ckpt - 1
                 PROVE  \/ Stream[i] \in rejected' \cup lost'
                        \/ table'[Stream[i]] > 0
                        \/ Discards /\ Stream[i] \in dropped'
      BY <1>1 DEF EveryRecordAccounted, Discards
    <3>1. i \in 1 .. next - 1 /\ Stream[i] \in Txn
      BY <1>2 DEF TypeOK
    <3>2. \/ Stream[i] \in Batch(buffer) \cup rejected \cup lost
          \/ table[Stream[i]] > 0
          \/ Discards /\ Stream[i] \in dropped
      BY <3>1, <1>1 DEF EveryRecordAccounted, Discards
    <3>3. table[Stream[i]] \in Nat /\ table'[Stream[i]] \in Nat
          /\ table[Stream[i]] <= table'[Stream[i]]
      BY <3>1, <2>1 DEF FlushDone, TypeOK
    <3> QED
      BY <3>2, <3>3, <2>1, <1>1 DEF FlushDone
  <2>4. RowPerDelivery'
    <3> SUFFICES ASSUME NEW t \in Txn
                 PROVE  table'[t] <= delivered[t] - 0
      BY <1>1, <1>2 DEF RowPerDelivery
    <3>1. table[t] <= delivered[t] - (IF t \in Batch(buffer) THEN 1 ELSE 0)
      BY DEF RowPerDelivery
    <3>2. table[t] \in Nat /\ delivered[t] \in Nat /\ table'[t] \in Nat
      BY <2>1 DEF TypeOK, FlushDone
    <3>3. table'[t] <= IF t \in Batch(buffer) THEN table[t] + 1 ELSE table[t]
      BY <2>1, <3>2 DEF FlushDone
    <3> QED
      BY <3>1, <3>2, <3>3
  <2>5. OnlineFollowsTable' /\ BreakerTracksAppends'
    BY <2>1 DEF OnlineFollowsTable, FlushDone
  <2> QED
    BY <2>2, <2>3, <2>4, <2>5, <1>3
<1> QED
  BY <1>5, <1>6

\* A crash loses of the buffer what the checkpoint says was processed.
LEMMA CrashIInv == IInv /\ Crash => IInv'
<1> SUFFICES ASSUME IInv, Crash PROVE IInv'
  OBVIOUS
<1> USE SinkAssumption DEF IInv
<1>1. /\ status = "open" /\ status' = "down" /\ restarts' \in 0 .. MaxRestarts
      /\ buffer' = <<>>
      /\ lost' = lost \cup {Stream[i] : i \in {j \in 1 .. ckpt - 1 :
                                                Stream[j] \in Batch(buffer)}}
      /\ UNCHANGED <<class, loaded, next, ckpt, sinceFlush, breaker, table, online,
                     rejected, dropped, failRun, quiet, delivered>>
  BY DEF Crash, TypeOK, sink
<1>2. buffer \in Seq(Txn) /\ ckpt <= next /\ Batch(buffer') = {}
  BY <1>1, BatchSmall DEF TypeOK, RestartPoint
<1>3. buffer' \in Seq(Txn) /\ Len(buffer') < BufferMax
  BY <1>1
<1>4. lost' \subseteq Txn
  BY <1>1, <1>2, BatchType DEF TypeOK
<1>5. TypeOK'
  BY <1>1, <1>3, <1>4 DEF TypeOK
<1>6. EveryRecordAccounted'
  <2> SUFFICES ASSUME NEW i \in 1 .. ckpt - 1
               PROVE  \/ Stream[i] \in rejected \cup lost' \/ table[Stream[i]] > 0
                      \/ class \in {"base", "decisions"} /\ Stream[i] \in dropped
    BY <1>1 DEF EveryRecordAccounted
  <2>1. i \in 1 .. next - 1
    BY <1>2 DEF TypeOK
  <2> QED
    BY <2>1, <1>1 DEF EveryRecordAccounted
<1>7. RowPerDelivery'
  <2> SUFFICES ASSUME NEW t \in Txn PROVE table[t] <= delivered[t] - 0
    BY <1>1, <1>2 DEF RowPerDelivery
  <2>1. table[t] \in Nat /\ delivered[t] \in Nat
    BY DEF TypeOK
  <2> QED
    BY <2>1 DEF RowPerDelivery
<1>8. OnlineFollowsTable' /\ BreakerTracksAppends' /\ RestartPoint'
  BY <1>1 DEF OnlineFollowsTable, BreakerTracksAppends, RestartPoint
<1> QED
  BY <1>5, <1>6, <1>7, <1>8

\* The clock moves the breaker's counter and the ghost one together.
LEMMA TickIInv == IInv /\ Tick => IInv'
<1> SUFFICES ASSUME IInv, Tick PROVE IInv'
  OBVIOUS
<1> USE SinkAssumption, BreakerAssumption DEF IInv
<1>1. UNCHANGED <<class, loaded, status, next, ckpt, restarts, buffer, table, online,
                  rejected, dropped, lost, delivered, failRun>>
  BY DEF Tick, source
<1>2. /\ sinceFlush' \in 0 .. FlushInterval
      /\ quiet' \in 0 .. ResetTimeout
  BY DEF Tick, Saturate, TypeOK
<1>3. breaker' \in Breaker /\ BreakerTracksAppends'
  <2>1. breaker \in Breaker /\ quiet \in 0 .. ResetTimeout
    BY DEF TypeOK
  <2>2. /\ breaker'.open = breaker.open /\ breaker'.failures = breaker.failures
        /\ breaker'.sinceOpen = Saturate(breaker.sinceOpen, ResetTimeout)
        /\ quiet' = Saturate(quiet, ResetTimeout)
    BY DEF Tick, Aged
  <2>3. breaker' \in Breaker
    BY <2>1 DEF Tick, Aged, Saturate, Breaker
  <2> QED
    BY <2>2, <2>3, <1>1 DEF BreakerTracksAppends
<1>4. TypeOK'
  BY <1>1, <1>2, <1>3 DEF TypeOK
<1>5. EveryRecordAccounted' /\ RowPerDelivery' /\ OnlineFollowsTable' /\ RestartPoint'
  BY <1>1 DEF EveryRecordAccounted, RowPerDelivery, OnlineFollowsTable, RestartPoint
<1> QED
  BY <1>3, <1>4, <1>5

-----------------------------------------------------------------------------
\* The invariant is inductive.
THEOREM Invariance == Spec => []IInv
<1>1. IInv /\ [Next]_vars => IInv'
  <2> SUFFICES ASSUME IInv, [Next]_vars PROVE IInv'
    OBVIOUS
  <2>1. CASE UNCHANGED vars
    BY <2>1 DEF IInv, vars, source, sink, ghosts, TypeOK, EveryRecordAccounted,
       RowPerDelivery, OnlineFollowsTable, BreakerTracksAppends, RestartPoint
  <2> QED
    BY <2>1, OpenIInv, InvokeElapsedIInv, InvokeFullIInv, InvokeBufferedIInv,
       CheckpointIInv, CloseIInv, CrashIInv, TickIInv DEF Next
<1> QED
  BY <1>1, InitIInv, PTL DEF Spec

\* Type correctness of the sink: in particular the buffer never reaches
\* ICEBERG_BUFFER_MAX between calls.
THEOREM TypeCorrect == Spec => []TypeOK
<1>1. IInv => TypeOK
  BY DEF IInv
<1> QED
  BY <1>1, Invariance, PTL

\* No record vanishes while the process lives, whatever the outcomes of the
\* flushes and however often the job restarts.
THEOREM RecordsAccounted == Spec => []EveryRecordAccounted
<1>1. IInv => EveryRecordAccounted
  BY DEF IInv
<1> QED
  BY <1>1, Invariance, PTL

\* A row per delivery at most.
THEOREM RowsBounded == Spec => []RowPerDelivery
<1>1. IInv => RowPerDelivery
  BY DEF IInv
<1> QED
  BY <1>1, Invariance, PTL

\* The online store never runs ahead of the table.
THEOREM OnlineBehindTable == Spec => []OnlineFollowsTable
<1>1. IInv => OnlineFollowsTable
  BY DEF IInv
<1> QED
  BY <1>1, Invariance, PTL

\* The catalog is left alone for ResetTimeout after FailMax failures in a row.
THEOREM CatalogSpared == Spec => BreakerSparesCatalog
<1> DEFINE Spared == (\/ table' # table
                      \/ failRun' > failRun)
                     => failRun < FailMax \/ quiet >= ResetTimeout
<1>1. ASSUME IInv, [Next]_vars
      PROVE  [Spared]_vars
  <2> SUFFICES ASSUME table' # table \/ failRun' > failRun
               PROVE  failRun < FailMax \/ quiet >= ResetTimeout
    OBVIOUS
  <2>1. Allows(breaker)
    <3>t. TypeOK /\ BreakerTracksAppends /\ OnlineFollowsTable /\ failRun \in Nat
          /\ buffer \in Seq(Txn) /\ RestartPoint
      BY <1>1 DEF IInv, TypeOK
    <3>1. ASSUME NEW records \in Seq(Txn), records # <<>>, Flush(records)
          PROVE  Allows(breaker)
      BY <3>1, <3>t, FlushEffect DEF FlushDone
    <3>2. CASE InvokeElapsed
      BY <3>2, <3>1, <3>t DEF InvokeElapsed, IntervalElapsed
    <3>3. CASE InvokeFull
      <4>1. Stream[next] \in Txn
        BY <3>3, <3>t, DeliverEffect DEF InvokeFull, Delivered
      <4>2. Append(buffer, Stream[next]) \in Seq(Txn) /\ Append(buffer, Stream[next]) # <<>>
        BY <4>1, <3>t, BatchAppend
      <4> QED
        BY <4>2, <3>1, <3>3 DEF InvokeFull
    <3>4. CASE Close
      BY <3>4, <3>1, <3>t DEF Close, sink
    <3>5. CASE UNCHANGED <<table, failRun>> \/ (failRun' = 0 /\ table' = table)
      BY <3>5, <3>t
    <3>6. CASE Open \/ InvokeBuffered \/ Checkpoint \/ Crash \/ Tick \/ UNCHANGED vars
      BY <3>5, <3>6 DEF Open, InvokeBuffered, Checkpoint, Crash, Tick, sink, vars
    <3> QED
      BY <1>1, <3>2, <3>3, <3>4, <3>6 DEF Next
  <2> QED
    BY <2>1, <1>1, BreakerAssumption DEF IInv, TypeOK, BreakerTracksAppends, Allows
<1>2. Spec => [][Spared]_vars
  BY <1>1, Invariance, PTL DEF Spec
<1> QED
  BY <1>2 DEF BreakerSparesCatalog

-----------------------------------------------------------------------------
\* The sink writes in batches: IcebergSink implements BatchWriter.

\* Whatever the class and the outcome, a flush ends its batch as a whole.
LEMMA FlushSettles ==
  ASSUME NEW records \in Seq(Txn), Flush(records)
  PROVE  Writer!Settle(Batch(records))
<1>1. CASE ConversionFails(records) \/ ReportsUnwritten(records) \/ BreakerRefuses(records)
  BY <1>1 DEF ConversionFails, ReportsUnwritten, BreakerRefuses, EmitDLQ, Writer!Settle
<1>2. CASE DropsUnwritten(records)
  BY <1>2 DEF DropsUnwritten, Writer!Settle
<1>3. CASE AppendCommits(records)
  BY <1>3 DEF AppendCommits, Write, Writer!Settle
<1>4. CASE AppendCommitsLate(records)
  BY <1>4 DEF AppendCommitsLate, Write, EmitDLQ, Writer!Settle
<1>5. CASE AppendRaises(records)
  BY <1>5 DEF AppendRaises, Write, EmitDLQ, Writer!Settle
<1> QED
  BY <1>1, <1>2, <1>3, <1>4, <1>5
     DEF Flush, FlinkFlush, BaseFlush, EnrichedFlush, DecisionsFlush

\* Each step of the sink is a step of the writer of batches, or none of its business.
LEMMA WriterStep ==
  ASSUME IInv, [Next]_vars
  PROVE  [Writer!Next]_<<status = "open", Batch(buffer), Writer!batches>>
<1>t. TypeOK /\ RestartPoint /\ buffer \in Seq(Txn)
  BY DEF IInv, TypeOK
<1>d. ASSUME Deliver
      PROVE  /\ Stream[next] \in Txn
             /\ status = "open" /\ status' = "open"
             /\ Append(buffer, Stream[next]) \in Seq(Txn)
             /\ Batch(Append(buffer, Stream[next])) = Batch(buffer) \cup {Stream[next]}
  BY <1>d, <1>t, DeliverEffect, BatchAppend DEF Delivered
<1>1. CASE Open
  <2>1. status' = "open" /\ status = "down" /\ Batch(buffer') = {}
        /\ UNCHANGED <<table, rejected, dropped>>
    BY <1>1, BatchSmall DEF Open
  <2> QED
    BY <2>1 DEF Writer!Next, Writer!Start, Writer!batches
<1>2. CASE InvokeElapsed
  <2>1. Writer!Settle(Batch(buffer)) /\ Batch(buffer') = {Stream[next]}
    BY <1>2, <1>t, FlushSettles, BatchSmall DEF InvokeElapsed
  <2>2. Writer!Flush(Stream[next])
    BY <2>1, <1>2, <1>d DEF InvokeElapsed, Writer!Flush
  <2> QED
    BY <2>2, <1>2, <1>d DEF InvokeElapsed, Writer!Next
<1>3. CASE InvokeFull
  <2>1. Writer!Settle(Batch(buffer) \cup {Stream[next]}) /\ Batch(buffer') = {}
    <3>1. Writer!Settle(Batch(Append(buffer, Stream[next])))
      BY <1>3, <1>d, FlushSettles DEF InvokeFull
    <3> QED
      BY <3>1, <1>3, <1>d, BatchSmall DEF InvokeFull
  <2>2. Writer!Flush(Stream[next])
    BY <2>1, <1>3, <1>d DEF InvokeFull, Writer!Flush
  <2> QED
    BY <2>2, <1>3, <1>d DEF InvokeFull, Writer!Next
<1>4. CASE InvokeBuffered
  <2>1. /\ Batch(buffer') = Batch(buffer) \cup {Stream[next]}
        /\ UNCHANGED <<table, rejected, dropped>>
    BY <1>4, <1>d DEF InvokeBuffered, sink
  <2>2. Writer!Hold(Stream[next])
    BY <2>1, <1>4, <1>d DEF InvokeBuffered, Writer!Hold, Writer!batches
  <2> QED
    BY <2>2, <1>4, <1>d DEF InvokeBuffered, Writer!Next
<1>5. CASE Checkpoint \/ Tick \/ UNCHANGED vars
  BY <1>5 DEF Checkpoint, Tick, vars, source, sink, Writer!batches
<1>6. CASE Close
  <2>1. status = "open" /\ status' = "down" /\ Batch(buffer') = {}
    BY <1>6, BatchSmall DEF Close
  <2>2. Writer!Settle(Batch(buffer))
    <3>1. CASE buffer = <<>>
      BY <3>1, <1>6, BatchSmall DEF Close, sink, Writer!Settle
    <3>2. CASE buffer # <<>>
      BY <3>2, <1>6, <1>t, FlushSettles DEF Close
    <3> QED
      BY <3>1, <3>2
  <2> QED
    BY <2>1, <2>2 DEF Writer!Next, Writer!Stop
<1>7. CASE Crash
  <2>1. status = "open" /\ status' = "down" /\ Batch(buffer') = {}
        /\ UNCHANGED <<table, rejected, dropped>>
    BY <1>7, BatchSmall DEF Crash, sink
  <2> QED
    BY <2>1 DEF Writer!Next, Writer!Die, Writer!batches
<1> QED
  BY <1>1, <1>2, <1>3, <1>4, <1>5, <1>6, <1>7 DEF Next

\* For every stream, buffer size, interval and number of restarts the sink, whichever of
\* its classes, writes in batches: a flush that fails at any point, times out or finds the
\* breaker open never splits one, and close() ends the last (iceberg_sink.py 182-338).
THEOREM Implementation == Spec => WritesInBatches
<1>1. Init => Writer!Init
  BY BatchSmall DEF Init, Writer!Init
<1>2. IInv /\ [Next]_vars
        => [Writer!Next]_<<status = "open", Batch(buffer), Writer!batches>>
  BY WriterStep
<1> QED
  BY <1>1, <1>2, Invariance, PTL DEF Spec, WritesInBatches, Writer!Spec
=============================================================================
