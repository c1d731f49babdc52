---------------------------- MODULE ReplayProofs ----------------------------
(***************************************************************************)
(* Proofs about the replay job, for every set of configurations and        *)
(* messages, every size of the queue and every interval of the reports.    *)
(***************************************************************************)
EXTENDS Replay, FiniteSetTheorems, TLAPS

\* Before the loop over the events.
Early == {"none", "ready", "counting", "opening"}

\* The status is terminal exactly when the loop is left.
StatusOfTask ==
  /\ task \in {"closing", "over"} => status \in Terminal
  /\ task \in Early \cup {"iterating"} => status \notin Terminal

\* Before the loop nothing has been read or sent.
NothingYet ==
  task \in Early => /\ results = <<>> /\ queue = <<>> /\ produced = <<>>
                    /\ seen = {} /\ good = 0 /\ poison = 0

\* The counts of the loop.
LoopCounts ==
  /\ IsFiniteSet(seen)
  /\ task \in Early \cup {"iterating"} =>
       good = Len(results) /\ good + poison = Cardinality(seen)

\* What has been seen lies below the position, which is within the log from the
\* first message on, and so is the first offset read.
Behind ==
  /\ \A offset \in seen : offset < Len(log)
  /\ seen # {} => entry >= 0
  /\ task = "iterating" =>
       /\ \A offset \in seen : offset < cursor
       /\ cursor = entry \/ (entry >= 0 /\ cursor <= Len(log))
       /\ seen # {} => cursor \in 0 .. Len(log)

\* Nothing below the position was left out.
NoGap ==
  task = "iterating" =>
    \A before \in entry .. cursor - 1 :
      Reading(config.source, log[before + 1]) # "nothing" => before \in seen

IInv ==
  /\ ReplayTypeOK
  /\ StatusOfTask
  /\ NothingYet
  /\ LoopCounts
  /\ Behind
  /\ NoGap
  /\ CountsAddUp
  /\ ReplayedInOrder

-----------------------------------------------------------------------------
\* The operators of the sources return offsets and counts.
LEMMA SourceTypes ==
  ASSUME ReplayTypeOK
  PROVE  /\ EndsOfRange(config, log) \subseteq Int
         /\ EventCounts(config, log) \subseteq Int
         /\ FirstPositions(config, log) \subseteq Int
         /\ config.source \in Source /\ config.start \in Int
         /\ config.end \in Int /\ config.max \in Int
<1>1. /\ config.source \in Source /\ config.start \in Int
      /\ config.end \in Int /\ config.max \in Int /\ Len(log) \in Nat
  BY ReplayAssumption DEF ReplayTypeOK, Config
<1>2. EndsOfRange(config, log) \subseteq Int
  BY <1>1 DEF EndsOfRange
<1>3. EventCounts(config, log) \subseteq Int
  <2> DEFINE rows == {i \in DOMAIN log : Reading("iceberg", log[i]) = "event"}
  <2>1. Cardinality(rows) \in Nat
    <3>1. DOMAIN log = 1 .. Len(log)
      BY DEF ReplayTypeOK
    <3>2. IsFiniteSet(1 .. Len(log))
      BY <1>1, FS_Interval
    <3>3. rows \subseteq 1 .. Len(log)
      BY <3>1
    <3>4. IsFiniteSet(rows)
      BY <3>2, <3>3, FS_Subset
    <3> QED
      BY <3>4, FS_CardinalityType
  <2> HIDE DEF rows
  <2>2. CASE config.source = "kafka"
    BY <1>1, <2>2 DEF EventCounts
  <2>3. CASE config.source = "dlq"
    BY <1>1, <2>3 DEF EventCounts
  <2>4. CASE config.source = "iceberg"
    BY <1>1, <2>1, <2>4 DEF EventCounts, rows
  <2> QED
    BY <1>1, <2>2, <2>3, <2>4 DEF Source
<1>4. FirstPositions(config, log) \subseteq Int
  BY <1>1 DEF FirstPositions, Source
<1> QED
  BY <1>1, <1>2, <1>3, <1>4

LEMMA Initially == ReplayInit => IInv
<1> SUFFICES ASSUME ReplayInit PROVE IInv
  OBVIOUS
<1>1. ReplayTypeOK
  <2>1. log \in Seq(Kind) /\ config \in Configs
    BY ReplayAssumption DEF ReplayInit
  <2>2. /\ results \in Seq(Nat) /\ produced \in Seq(Nat) /\ queue \in Seq(Nat)
        /\ Len(queue) <= QueueSize
    <3>1. Len(<<>>) = 0 /\ <<>> \in Seq(Nat)
      OBVIOUS
    <3> QED
      BY <3>1, ReplayAssumption DEF ReplayInit
  <2>3. /\ task \in Task /\ status \in Status /\ cancelled \in BOOLEAN
        /\ quit \in BOOLEAN /\ errors \in BOOLEAN
    BY DEF ReplayInit, Task, Status
  <2>4. waiting \in 0 .. deletes /\ deletes \in 0 .. MaxDeletes
    BY ReplayAssumption DEF ReplayInit
  <2> QED
    BY <2>1, <2>2, <2>3, <2>4 DEF ReplayInit, ReplayTypeOK
<1>2. StatusOfTask /\ NothingYet
  BY DEF ReplayInit, StatusOfTask, NothingYet, Early, Terminal
<1>3. LoopCounts
  BY FS_EmptySet DEF ReplayInit, LoopCounts
<1>4. Behind /\ NoGap
  BY DEF ReplayInit, Behind, NoGap
<1>5. CountsAddUp /\ ReplayedInOrder
  BY DEF ReplayInit, CountsAddUp, ReplayedInOrder
<1> QED
  BY <1>1, <1>2, <1>3, <1>4, <1>5 DEF IInv

-----------------------------------------------------------------------------
\* The producer takes a result or not.
LEMMA SendTypes ==
  ASSUME ReplayTypeOK, NEW result \in Nat, SendToKafka(result)
  PROVE  produced' \in Seq(Nat) /\ lost' \subseteq Nat
<1> USE DEF ReplayTypeOK
<1>1. CASE produced' = Append(produced, result) /\ UNCHANGED lost
  BY <1>1
<1>2. CASE lost' = lost \cup {result} /\ UNCHANGED produced
  <2>1. lost' \subseteq Nat
    BY <1>2
  <2> QED
    BY <1>2, <2>1
<1> QED
  BY <1>1, <1>2 DEF SendToKafka

\* Every action keeps the types and the bound of the queue.
LEMMA TypeStep ==
  ASSUME ReplayTypeOK, [ReplayNext]_replayVars
  PROVE  ReplayTypeOK'
<1> USE DEF ReplayTypeOK
<1>1. ASSUME NEW offset \in Offset, Message(offset)
      PROVE  /\ log' = log /\ config' = config /\ errors' = errors /\ task = "iterating"
             /\ cursor' \in Int /\ current' \in Int /\ entry' \in Int /\ offset \in Nat
             /\ end' = end /\ quit' = quit
             /\ cancelled' = cancelled /\ waiting' = waiting /\ deletes' = deletes
  BY <1>1, ReplayAssumption DEF Message, Offset, source, deleteVars
<1>2. ASSUME NEW outcome \in Terminal, Leave(outcome)
      PROVE  /\ status' \in Status /\ task' \in Task
             /\ processed' = processed /\ failed' = failed
  BY <1>2 DEF Leave, Terminal, Status, Task, Busy
<1>3. ASSUME LoopEnds
      PROVE  /\ status' \in Status /\ task' \in Task
             /\ processed' \in Nat /\ failed' \in Nat
  BY <1>3 DEF LoopEnds, Status, Task, Busy
<1>4. CASE Create
  BY <1>4 DEF Create, Task, Status, source, counts, reader, sink, deleteVars
<1>5. CASE DeleteArrives
  BY <1>5, ReplayAssumption DEF DeleteArrives, source, counts, reader, sink
<1>6. CASE Cancel
  BY <1>6, ReplayAssumption DEF Cancel, source, counts, reader, sink
<1>7. CASE Start
  BY <1>7 DEF Start, Task, Busy, Status, source, counts, reader, sink, deleteVars
<1>8. CASE CountEvents
  <2>1. total' \in Int /\ cursor' \in Int
    BY <1>8, SourceTypes DEF CountEvents
  <2> QED
    BY <1>8, <2>1 DEF CountEvents, Task, Busy, source, sink, deleteVars
<1>9. CASE OpenSource
  <2>1. end' \in Int /\ current' \in Int /\ entry' \in Int
    BY <1>9, SourceTypes DEF OpenSource
  <2> QED
    BY <1>9, <2>1 DEF OpenSource, Task, Busy, source, counts, sink, deleteVars
<1>10. CASE OpenSourceRaises
  BY <1>10, <1>2 DEF OpenSourceRaises, Terminal, source, reader, sink, deleteVars
<1>11. CASE Exhausted
  BY <1>11, <1>3 DEF Exhausted, source, reader, sink, deleteVars
<1>12. CASE PollEndsEmpty
  BY <1>12, <1>3 DEF PollEndsEmpty, source, sink, deleteVars
<1>13. ASSUME NEW offset \in Offset, MessagePastEnd(offset)
       PROVE  ReplayTypeOK'
  BY <1>13, <1>1, <1>3 DEF MessagePastEnd, sink
<1>14. ASSUME NEW offset \in Offset, MessageSkipped(offset)
       PROVE  ReplayTypeOK'
  BY <1>14, <1>1 DEF MessageSkipped, counts, sink
<1>15. ASSUME NEW offset \in Offset, MessageRaises(offset)
       PROVE  ReplayTypeOK'
  BY <1>15, <1>1, <1>2 DEF MessageRaises, Terminal, sink
<1>16. ASSUME NEW offset \in Offset, EventCancelled(offset)
       PROVE  ReplayTypeOK'
  BY <1>16, <1>1, <1>2 DEF EventCancelled, Event, Terminal, sink
<1>17. ASSUME NEW offset \in Offset, EventFails(offset)
       PROVE  ReplayTypeOK'
  <2>1. /\ seen' = seen \cup {offset} /\ poison' = poison + 1 /\ Message(offset)
        /\ UNCHANGED <<task, status, total, processed, failed, good, sink>>
    BY <1>17 DEF EventFails, Event
  <2>2. seen' \subseteq Nat
    BY <1>1, <2>1
  <2>3. poison' \in Nat
    BY <2>1
  <2> QED
    BY <1>1, <2>1, <2>2, <2>3 DEF sink
<1>18. ASSUME NEW offset \in Offset, EventReplayed(offset)
       PROVE  ReplayTypeOK'
  <2>1. SendResult(offset) /\ offset \in Nat /\ seen' \subseteq Nat
    BY <1>18, <1>1 DEF EventReplayed, Event
  <2>2. results' \in Seq(Nat)
    BY <2>1 DEF SendResult
  <2>3. queue' \in Seq(Nat) /\ Len(queue') <= QueueSize
    <3>1. CASE Len(queue) < QueueSize /\ queue' = Append(queue, offset)
      BY <2>1, <3>1, ReplayAssumption
    <3>2. CASE queue' = queue
      BY <3>2
    <3> QED
      BY <2>1, <3>1, <3>2 DEF SendResult
  <2>4. produced' \in Seq(Nat) /\ lost' \subseteq Nat
    BY <2>1, SendTypes DEF SendResult
  <2>5. good' \in Nat /\ processed' \in Nat
    BY <1>18 DEF EventReplayed
  <2>6. Message(offset) /\ task' = task /\ status' = status /\ total' = total
        /\ failed' = failed /\ poison' = poison
    BY <1>18 DEF EventReplayed, Event
  <2> QED
    BY <1>1, <2>1, <2>2, <2>3, <2>4, <2>5, <2>6
<1>19. CASE ProcessQueue
  <2>1. Head(queue) \in Nat /\ Tail(queue) \in Seq(Nat) /\ Len(Tail(queue)) <= QueueSize
    BY <1>19, ReplayAssumption DEF ProcessQueue
  <2>2. queue' \in Seq(Nat) /\ Len(queue') <= QueueSize
    BY <1>19, <2>1 DEF ProcessQueue
  <2>3. produced' \in Seq(Nat) /\ lost' \subseteq Nat
    BY <1>19, <2>1, SendTypes DEF ProcessQueue
  <2> QED
    BY <1>19, <2>2, <2>3 DEF ProcessQueue, source, counts, reader, deleteVars
<1>20. CASE Close
  BY <1>20 DEF Close, Task, source, counts, reader, sink, deleteVars
<1>21. ASSUME NEW kind \in Published, Publish(kind)
       PROVE  ReplayTypeOK'
  <2>1. log' \in Seq(Kind)
    BY <1>21, ReplayAssumption DEF Publish
  <2> QED
    BY <1>21, <2>1 DEF Publish, counts, reader, sink, deleteVars
<1>22. CASE PollFails
  BY <1>22 DEF PollFails, counts, reader, sink, deleteVars
<1>23. CASE UNCHANGED replayVars
  BY <1>23 DEF replayVars, source, counts, reader, sink, deleteVars
<1> QED
  BY <1>4, <1>5, <1>6, <1>7, <1>8, <1>9, <1>10, <1>11, <1>12, <1>13, <1>14, <1>15,
     <1>16, <1>17, <1>18, <1>19, <1>20, <1>21, <1>22, <1>23 DEF ReplayNext, Job

-----------------------------------------------------------------------------
\* What a message that is read tells of the state before and after.
LEMMA MessageFacts ==
  ASSUME IInv, NEW offset \in Offset, Message(offset)
  PROVE  /\ offset \in Nat /\ Len(log) \in Nat /\ offset < Len(log)
         /\ task = "iterating" /\ status \notin Terminal
         /\ \A other \in seen : other < offset
         /\ offset \notin seen
         /\ cursor' = offset + 1 /\ current' = offset
         /\ \/ offset = cursor /\ entry' = entry
            \/ entry' = offset /\ seen = {} /\ offset # cursor
         /\ log' = log /\ config' = config /\ end' = end /\ quit' = quit
         /\ cancelled' = cancelled
<1>1. offset \in Nat /\ Len(log) \in Nat /\ cursor \in Int /\ seen \subseteq Nat
  BY ReplayAssumption DEF IInv, ReplayTypeOK, Offset
<1>2. /\ task = "iterating" /\ offset \in NextOffsets(config, log, cursor)
      /\ offset < Len(log) /\ cursor' = offset + 1 /\ current' = offset
      /\ entry' = (IF offset = cursor THEN entry ELSE offset)
      /\ log' = log /\ config' = config /\ end' = end /\ quit' = quit
      /\ cancelled' = cancelled
  BY DEF Message, source, deleteVars
<1>3. status \notin Terminal
  BY <1>2 DEF IInv, StatusOfTask
<1>4. \A other \in seen : other < cursor
  BY <1>2 DEF IInv, Behind
<1>5. CASE offset = cursor
  BY <1>1, <1>2, <1>3, <1>4, <1>5
<1>6. CASE offset # cursor
  <2>1. cursor \notin 0 .. Len(log)
    BY <1>1, <1>2, <1>6 DEF NextOffsets
  <2>2. seen = {}
    BY <1>2, <2>1 DEF IInv, Behind
  <2> QED
    BY <1>1, <1>2, <1>3, <1>6, <2>2
<1> QED
  BY <1>5, <1>6

\* Steps before the loop.
LEMMA BeforeLoop ==
  ASSUME IInv, ReplayTypeOK', Create \/ DeleteArrives \/ Start \/ CountEvents \/ OpenSourceRaises
  PROVE  IInv'
<1>1. /\ UNCHANGED <<log, config, cancelled, good, poison, seen, results, queue, produced>>
      /\ UNCHANGED <<processed, failed, end, entry, quit>>
  BY DEF Create, DeleteArrives, Start, CountEvents, OpenSourceRaises, Leave, source,
         counts, reader, sink, deleteVars
<1>2. \/ task' = task /\ status' = status /\ UNCHANGED reader
      \/ /\ task \in Early /\ status' \notin Terminal
         /\ task' \in Early
      \/ task = "opening" /\ task' = "closing" /\ status' = "failed"
  BY DEF Create, DeleteArrives, Start, CountEvents, OpenSourceRaises, Leave, Early, Terminal, IInv, StatusOfTask
<1>3. StatusOfTask' /\ NothingYet'
  BY <1>1, <1>2 DEF IInv, StatusOfTask, NothingYet, Early, Terminal
<1>4. LoopCounts'
  BY <1>1, <1>2 DEF IInv, LoopCounts, Early
<1>5. Behind' /\ NoGap'
  BY <1>1, <1>2 DEF IInv, Behind, NoGap, Early, reader
<1>6. CountsAddUp'
  BY <1>1, <1>2 DEF IInv, CountsAddUp, Terminal
<1>7. ReplayedInOrder'
  BY <1>1 DEF IInv, ReplayedInOrder
<1> QED
  BY <1>3, <1>4, <1>5, <1>6, <1>7 DEF IInv

\* The loop is entered with nothing read.
LEMMA EnterLoop ==
  ASSUME IInv, ReplayTypeOK', OpenSource
  PROVE  IInv'
<1>1. /\ UNCHANGED <<log, config, cancelled, good, poison, seen, results, queue, produced>>
      /\ UNCHANGED <<processed, failed, status, cursor, quit>>
      /\ task = "opening" /\ task' = "iterating"
      /\ current' = cursor /\ entry' = cursor
  BY DEF OpenSource, source, counts, sink, deleteVars
<1>2. seen = {} /\ results = <<>> /\ queue = <<>> /\ produced = <<>> /\ cursor \in Int
  BY <1>1 DEF IInv, NothingYet, Early, ReplayTypeOK
<1>3. StatusOfTask' /\ NothingYet'
  BY <1>1, <1>2 DEF IInv, StatusOfTask, NothingYet, Early
<1>4. LoopCounts'
  BY <1>1 DEF IInv, LoopCounts, Early
<1>5. Behind' /\ NoGap'
  BY <1>1, <1>2 DEF Behind, NoGap
<1>6. CountsAddUp'
  BY <1>1 DEF IInv, StatusOfTask, Early, Terminal, CountsAddUp
<1>7. ReplayedInOrder'
  BY <1>1, <1>2 DEF ReplayedInOrder
<1> QED
  BY <1>3, <1>4, <1>5, <1>6, <1>7 DEF IInv

\* A DELETE changes nothing but the flag.
LEMMA CancelKeeps ==
  ASSUME IInv, ReplayTypeOK', Cancel
  PROVE  IInv'
<1>1. /\ task \notin Busy /\ cancelled' = (cancelled \/ status \notin Terminal)
      /\ UNCHANGED <<source, task, status, counts, reader, sink>>
  BY DEF Cancel
<1>2. UNCHANGED <<log, config, task, status, total, processed, failed, good, poison, cursor,
                  current, end, seen, entry, quit, results, queue, produced, lost>>
  BY <1>1 DEF source, counts, reader, sink
<1>3. StatusOfTask' /\ NothingYet'
  BY <1>2 DEF IInv, StatusOfTask, NothingYet
<1>4. LoopCounts' /\ Behind'
  BY <1>2 DEF IInv, LoopCounts, Behind
<1>5. NoGap'
  BY <1>2 DEF IInv, NoGap
<1>6. CountsAddUp' /\ ReplayedInOrder'
  BY <1>2 DEF IInv, CountsAddUp, ReplayedInOrder
<1> QED
  BY <1>3, <1>4, <1>5, <1>6 DEF IInv

\* The loop ends by itself, with an empty poll or with a message after the range:
\* the counts are written.
LEMMA LoopCompletes ==
  ASSUME IInv, ReplayTypeOK',
         \/ Exhausted
         \/ PollEndsEmpty
         \/ \E offset \in Offset : MessagePastEnd(offset)
  PROVE  IInv'
<1>1. /\ task = "iterating" /\ LoopEnds
      /\ UNCHANGED <<log, config, good, poison, seen, results>>
  <2>1. CASE Exhausted \/ PollEndsEmpty
    BY <2>1 DEF Exhausted, PollEndsEmpty, source, reader, sink
  <2>2. CASE \E offset \in Offset : MessagePastEnd(offset)
    BY <2>2 DEF MessagePastEnd, Message, source, sink
  <2> QED
    BY <2>1, <2>2
<1>2. /\ task' = "closing" /\ status' \in Terminal
      /\ processed' = good /\ failed' = poison
  BY <1>1 DEF LoopEnds, Terminal
<1>3. /\ \/ entry' = entry
         \/ seen = {}
      /\ \A offset \in seen : offset < Len(log)
      /\ seen # {} => entry >= 0
  <2>1. CASE Exhausted \/ PollEndsEmpty
    BY <2>1 DEF Exhausted, PollEndsEmpty, reader, IInv, Behind
  <2>2. CASE \E offset \in Offset : MessagePastEnd(offset)
    BY <2>2, MessageFacts DEF MessagePastEnd, IInv, Behind
  <2> QED
    BY <2>1, <2>2
<1>4. StatusOfTask' /\ NothingYet'
  BY <1>2 DEF StatusOfTask, NothingYet, Early
<1>5. LoopCounts' /\ Behind' /\ NoGap'
  BY <1>1, <1>2, <1>3 DEF IInv, LoopCounts, Behind, NoGap, Early
<1>6. CountsAddUp'
  BY <1>1, <1>2 DEF IInv, LoopCounts, CountsAddUp
<1>7. ReplayedInOrder'
  BY <1>1, <1>3 DEF IInv, ReplayedInOrder
<1> QED
  BY <1>4, <1>5, <1>6, <1>7 DEF IInv

\* Whatever is read next, no message with an event is left out of seen.
LEMMA SeenWithoutGap ==
  ASSUME IInv, ReplayTypeOK', NEW offset \in Offset, Message(offset),
         \/ seen' = seen \cup {offset}
         \/ seen' = seen /\ Reading(config.source, log[offset + 1]) = "nothing"
  PROVE  /\ \A before \in entry' .. cursor' - 1 :
              Reading(config.source, log[before + 1]) # "nothing" => before \in seen'
         /\ \A other \in seen' : other < cursor' /\ other < Len(log)
         /\ entry' >= 0 /\ cursor' \in 0 .. Len(log)
<1>1. /\ offset \in Nat /\ Len(log) \in Nat /\ offset < Len(log) /\ task = "iterating"
      /\ \A other \in seen : other < offset
      /\ cursor' = offset + 1
      /\ \/ offset = cursor /\ entry' = entry
         \/ entry' = offset /\ seen = {}
  BY MessageFacts
<1>2. /\ entry \in Int /\ entry' \in Int /\ cursor \in Int
      /\ seen \subseteq Nat /\ seen' \subseteq Nat
  BY DEF IInv, ReplayTypeOK
<1>3. \A before \in entry' .. cursor' - 1 : before = offset \/ before \in entry .. cursor - 1
  BY <1>1, <1>2
<1>4. \A before \in entry .. cursor - 1 :
        Reading(config.source, log[before + 1]) # "nothing" => before \in seen
  BY <1>1 DEF IInv, NoGap
<1>5. \A other \in seen' : other <= offset
  BY <1>1, <1>2
<1>6. entry' >= 0
  BY <1>1, <1>2 DEF IInv, Behind
<1> QED
  BY <1>1, <1>2, <1>3, <1>4, <1>5, <1>6

\* The order of what was read, after any message.
LEMMA OrderKept ==
  ASSUME IInv, ReplayTypeOK', NEW offset \in Offset, Message(offset),
         \/ seen' = seen \cup {offset}
         \/ seen' = seen,
         \/ results' = results
         \/ results' = Append(results, offset) /\ offset \in seen'
  PROVE  ReplayedInOrder'
<1>1. /\ offset \in Nat /\ Len(log) \in Nat
      /\ \A other \in seen : other < offset
      /\ cursor' = offset + 1 /\ log' = log /\ config' = config
      /\ \/ offset = cursor /\ entry' = entry
         \/ entry' = offset /\ seen = {}
  BY MessageFacts
<1>2. /\ entry' \in Int /\ seen \subseteq Nat /\ results \in Seq(Nat) /\ results' \in Seq(Nat)
  BY DEF IInv, ReplayTypeOK
<1>3. /\ \A i, j \in DOMAIN results : i < j => results[i] < results[j]
      /\ \A i \in DOMAIN results : results[i] \in seen
      /\ \A other \in seen : \A before \in entry .. other :
           Reading(config.source, log[before + 1]) # "nothing" => before \in seen
  BY DEF IInv, ReplayedInOrder
<1>4. \A other \in seen' : \A before \in entry' .. other :
        Reading(config.source, log[before + 1]) # "nothing" => before \in seen'
  <2>1. CASE seen' = seen
    BY <1>1, <1>3, <2>1
  <2>2. CASE seen' = seen \cup {offset}
    <3>1. \A before \in entry' .. cursor' - 1 :
            Reading(config.source, log[before + 1]) # "nothing" => before \in seen'
      BY <2>2, SeenWithoutGap
    <3>2. \A other \in seen' : \A before \in entry' .. other : before \in entry' .. cursor' - 1
      BY <1>1, <1>2, <2>2
    <3> QED
      BY <3>1, <3>2
  <2> QED
    BY <2>1, <2>2
<1>5. \A i \in DOMAIN results' : results'[i] \in seen'
  <2>1. CASE results' = results
    BY <1>3, <2>1
  <2>2. CASE results' = Append(results, offset) /\ offset \in seen'
    <3>1. \A i \in DOMAIN results' : \/ i \in DOMAIN results /\ results'[i] = results[i]
                                     \/ results'[i] = offset
      BY <1>2, <2>2
    <3> QED
      BY <1>3, <2>2, <3>1
  <2> QED
    BY <2>1, <2>2
<1>6. \A i, j \in DOMAIN results' : i < j => results'[i] < results'[j]
  <2>1. CASE results' = results
    BY <1>3, <2>1
  <2>2. CASE results' = Append(results, offset)
    <3> SUFFICES ASSUME NEW i \in DOMAIN results', NEW j \in DOMAIN results', i < j
                 PROVE  results'[i] < results'[j]
      OBVIOUS
    <3>1. i \in DOMAIN results /\ results'[i] = results[i]
      BY <1>2, <2>2
    <3>2. CASE j \in DOMAIN results
      <4>1. results'[j] = results[j]
        BY <1>2, <2>2, <3>2
      <4> QED
        BY <1>3, <3>1, <3>2, <4>1
    <3>3. CASE j \notin DOMAIN results
      <4>1. results'[j] = offset
        BY <1>2, <2>2, <3>3
      <4>2. results[i] < offset
        BY <1>1, <1>3, <3>1
      <4> QED
        BY <3>1, <4>1, <4>2
    <3> QED
      BY <3>2, <3>3
  <2> QED
    BY <2>1, <2>2
<1> QED
  BY <1>1, <1>4, <1>5, <1>6 DEF ReplayedInOrder

\* A message that is left out.
LEMMA SkipKeeps ==
  ASSUME IInv, ReplayTypeOK', NEW offset \in Offset, MessageSkipped(offset)
  PROVE  IInv'
<1>1. /\ Message(offset) /\ Reading(config.source, log[offset + 1]) = "nothing"
      /\ UNCHANGED <<task, status, processed, failed, good, poison, seen, results, queue,
                     produced>>
  BY DEF MessageSkipped, counts, sink
<1>2. /\ offset \in Nat /\ Len(log) \in Nat /\ offset < Len(log) /\ cursor' = offset + 1
      /\ task = "iterating" /\ status \notin Terminal
      /\ log' = log /\ config' = config /\ cancelled' = cancelled
  BY <1>1, MessageFacts
<1>3. StatusOfTask' /\ NothingYet' /\ LoopCounts'
  BY <1>1, <1>2 DEF IInv, StatusOfTask, NothingYet, LoopCounts
<1>4. Behind' /\ NoGap'
  BY <1>1, <1>2, SeenWithoutGap DEF Behind, NoGap
<1>5. CountsAddUp'
  BY <1>1, <1>2 DEF CountsAddUp, Terminal
<1>6. ReplayedInOrder'
  BY <1>1, OrderKept
<1> QED
  BY <1>3, <1>4, <1>5, <1>6 DEF IInv

\* A failed poll.
LEMMA PollFailsKeeps ==
  ASSUME IInv, ReplayTypeOK', PollFails \/ UNCHANGED replayVars
  PROVE  IInv'
<1>1. UNCHANGED <<log, config, task, status, cancelled, total, processed, failed, good,
                  poison, cursor, current, end, seen, entry, quit, results, queue,
                  produced, lost>>
  BY DEF PollFails, replayVars, source, counts, reader, sink, deleteVars
<1>2. StatusOfTask' /\ NothingYet' /\ LoopCounts'
  BY <1>1 DEF IInv, StatusOfTask, NothingYet, LoopCounts
<1>3. Behind' /\ NoGap'
  BY <1>1 DEF IInv, Behind, NoGap
<1>4. CountsAddUp' /\ ReplayedInOrder'
  BY <1>1 DEF IInv, CountsAddUp, ReplayedInOrder
<1> QED
  BY <1>2, <1>3, <1>4 DEF IInv

\* A message that ends the job.
LEMMA RaiseKeeps ==
  ASSUME IInv, ReplayTypeOK', NEW offset \in Offset, MessageRaises(offset)
  PROVE  IInv'
<1>1. /\ Message(offset) /\ task' = "closing" /\ status' = "failed"
      /\ UNCHANGED <<good, poison, seen, results, queue, produced>>
  BY DEF MessageRaises, Leave, sink
<1>2. log' = log /\ config' = config /\ (entry' = entry \/ seen = {})
  BY <1>1, MessageFacts
<1>3. StatusOfTask' /\ NothingYet' /\ LoopCounts'
  BY <1>1, <1>2 DEF IInv, StatusOfTask, NothingYet, LoopCounts, Terminal, Early
<1>4. Behind' /\ NoGap'
  BY <1>1, <1>2 DEF IInv, Behind, NoGap
<1>5. CountsAddUp'
  BY <1>1 DEF CountsAddUp
<1>6. ReplayedInOrder'
  BY <1>1, OrderKept
<1> QED
  BY <1>3, <1>4, <1>5, <1>6 DEF IInv

\* An event that finds the flag set.
LEMMA CancelledEventKeeps ==
  ASSUME IInv, ReplayTypeOK', NEW offset \in Offset, EventCancelled(offset)
  PROVE  IInv'
<1>1. /\ Message(offset) /\ task' = "closing" /\ status' = "cancelled"
      /\ seen' = seen \cup {offset}
      /\ UNCHANGED <<good, poison, results, queue, produced>>
  BY DEF EventCancelled, Event, Leave, sink
<1>2. /\ log' = log /\ config' = config /\ cancelled' = cancelled
      /\ offset \in Nat /\ offset < Len(log) /\ entry' >= 0
  BY <1>1, MessageFacts, SeenWithoutGap
<1>3. StatusOfTask' /\ NothingYet'
  BY <1>1, <1>2 DEF IInv, StatusOfTask, NothingYet, Terminal, Early
<1>4. LoopCounts'
  BY <1>1, FS_AddElement DEF IInv, LoopCounts, Early
<1>5. Behind' /\ NoGap'
  BY <1>1, <1>2 DEF IInv, Behind, NoGap
<1>6. CountsAddUp'
  BY <1>1 DEF CountsAddUp
<1>7. ReplayedInOrder'
  BY <1>1, OrderKept
<1> QED
  BY <1>3, <1>4, <1>5, <1>6, <1>7 DEF IInv

\* What scoring an event, or failing to, does to the loop.
LEMMA LoopGoesOn ==
  ASSUME IInv, ReplayTypeOK', NEW offset \in Offset, Message(offset),
         task' = task, status' = status, seen' = seen \cup {offset},
         \/ good' = good + 1 /\ poison' = poison /\ results' = Append(results, offset)
         \/ good' = good /\ poison' = poison + 1 /\ results' = results
  PROVE  IInv'
<1>1. /\ offset \in Nat /\ Len(log) \in Nat /\ offset < Len(log)
      /\ task = "iterating" /\ status \notin Terminal
      /\ offset \notin seen
      /\ cursor' = offset + 1 /\ current' = offset
      /\ \/ offset = cursor /\ entry' = entry
         \/ entry' = offset /\ seen = {}
      /\ log' = log /\ config' = config /\ end' = end /\ cancelled' = cancelled
  BY MessageFacts
<1>2. StatusOfTask' /\ NothingYet'
  BY <1>1 DEF IInv, StatusOfTask, NothingYet, Early
<1>3. LoopCounts'
  <2>1. /\ IsFiniteSet(seen) /\ good = Len(results) /\ good + poison = Cardinality(seen)
        /\ good \in Nat /\ poison \in Nat /\ results \in Seq(Nat)
    BY <1>1 DEF IInv, LoopCounts, ReplayTypeOK
  <2>2. IsFiniteSet(seen') /\ Cardinality(seen') = Cardinality(seen) + 1
    BY <1>1, <2>1, FS_AddElement
  <2>3. good' = Len(results')
    BY <2>1
  <2>4. good' + poison' = Cardinality(seen')
    BY <2>1, <2>2
  <2> QED
    BY <2>2, <2>3, <2>4 DEF LoopCounts
<1>4. Behind' /\ NoGap'
  BY <1>1, SeenWithoutGap DEF Behind, NoGap
<1>5. CountsAddUp'
  BY <1>1 DEF CountsAddUp, Terminal
<1>6. ReplayedInOrder'
  BY OrderKept
<1> QED
  BY <1>2, <1>3, <1>4, <1>5, <1>6 DEF IInv

\* The queue is drained and the task ends.
LEMMA ClosingKeeps ==
  ASSUME IInv, ReplayTypeOK', ProcessQueue \/ Close
  PROVE  IInv'
<1>1. /\ UNCHANGED <<log, config, status, cancelled, processed, failed, good, poison, cursor,
                     current, end, seen, entry, quit, results>>
      /\ task = "closing" /\ task' \in {"closing", "over"}
      /\ queue = <<>> => queue' = queue /\ produced' = produced
  BY DEF ProcessQueue, Close, source, counts, reader, sink, deleteVars
<1>2. StatusOfTask' /\ NothingYet' /\ LoopCounts'
  BY <1>1 DEF IInv, StatusOfTask, NothingYet, LoopCounts, Early
<1>3. Behind' /\ NoGap'
  BY <1>1 DEF IInv, Behind, NoGap
<1>4. CountsAddUp' /\ ReplayedInOrder'
  BY <1>1 DEF IInv, CountsAddUp, ReplayedInOrder
<1> QED
  BY <1>2, <1>3, <1>4 DEF IInv

\* Messages that are published do not change what was read.
LEMMA PublishKeeps ==
  ASSUME IInv, ReplayTypeOK', NEW kind \in Published, Publish(kind)
  PROVE  IInv'
<1>1. /\ UNCHANGED <<config, task, status, cancelled, processed, failed, good, poison, cursor,
                     current, end, seen, entry, quit, results, queue, produced>>
      /\ log' = Append(log, kind)
  BY DEF Publish, counts, reader, sink, deleteVars
<1>2. /\ log \in Seq(Kind) /\ cursor \in Int /\ entry \in Int /\ seen \subseteq Nat
      /\ Len(log) \in Nat
  <2>1. log \in Seq(Kind) /\ cursor \in Int /\ entry \in Int /\ seen \subseteq Nat
    BY DEF IInv, ReplayTypeOK
  <2> QED
    BY <2>1
<1>3. /\ Len(log') = Len(log) + 1
      /\ \A before \in Nat : before < Len(log) => log'[before + 1] = log[before + 1]
  BY <1>1, <1>2
<1>4. StatusOfTask' /\ NothingYet' /\ LoopCounts'
  BY <1>1 DEF IInv, StatusOfTask, NothingYet, LoopCounts
<1>5. Behind'
  <2>1. \A offset \in seen : offset \in Nat /\ offset < Len(log)
    BY <1>2 DEF IInv, Behind
  <2>2. \A offset \in seen' : offset < Len(log')
    BY <1>1, <1>2, <1>3, <2>1
  <2>3. task' = "iterating" =>
          /\ \A offset \in seen' : offset < cursor'
          /\ cursor' = entry' \/ (entry' >= 0 /\ cursor' <= Len(log'))
          /\ seen' # {} => cursor' \in 0 .. Len(log')
    BY <1>1, <1>2, <1>3 DEF IInv, Behind
  <2>4. seen' # {} => entry' >= 0
    BY <1>1 DEF IInv, Behind
  <2> QED
    BY <2>2, <2>3, <2>4 DEF Behind
<1>6. NoGap'
  <2> SUFFICES ASSUME task = "iterating", NEW before \in entry .. cursor - 1,
                      Reading(config.source, log'[before + 1]) # "nothing"
               PROVE  before \in seen
    BY <1>1 DEF NoGap
  <2>1. before < Len(log) /\ before \in Nat
    BY <1>2 DEF IInv, Behind
  <2> QED
    BY <1>3, <2>1 DEF IInv, NoGap
<1>7. CountsAddUp'
  BY <1>1 DEF IInv, CountsAddUp
<1>8. ReplayedInOrder'
  <2>1. \A offset \in seen : \A before \in entry .. offset :
          before \in Nat /\ before < Len(log)
    BY <1>2 DEF IInv, Behind
  <2> QED
    BY <1>1, <1>3, <2>1 DEF IInv, ReplayedInOrder
<1> QED
  BY <1>4, <1>5, <1>6, <1>7, <1>8 DEF IInv

-----------------------------------------------------------------------------
\* The invariant holds in every state of every behaviour.
THEOREM Invariance == ReplaySpec => []IInv
<1>1. ReplayInit => IInv
  BY Initially
<1>2. IInv /\ [ReplayNext]_replayVars => IInv'
  <2> SUFFICES ASSUME IInv, [ReplayNext]_replayVars PROVE IInv'
    OBVIOUS
  <2>1. ReplayTypeOK'
    BY TypeStep DEF IInv
  <2>2. CASE Create \/ DeleteArrives \/ Start \/ CountEvents \/ OpenSourceRaises
    BY <2>1, <2>2, BeforeLoop
  <2>3. CASE Cancel
    BY <2>1, <2>3, CancelKeeps
  <2>4. CASE OpenSource
    BY <2>1, <2>4, EnterLoop
  <2>5. CASE Exhausted \/ PollEndsEmpty
    BY <2>1, <2>5, LoopCompletes
  <2>6. ASSUME NEW offset \in Offset, MessagePastEnd(offset)
        PROVE  IInv'
    BY <2>1, <2>6, LoopCompletes
  <2>7. ASSUME NEW offset \in Offset, MessageSkipped(offset)
        PROVE  IInv'
    BY <2>1, <2>7, SkipKeeps
  <2>8. ASSUME NEW offset \in Offset, MessageRaises(offset)
        PROVE  IInv'
    BY <2>1, <2>8, RaiseKeeps
  <2>9. ASSUME NEW offset \in Offset, EventCancelled(offset)
        PROVE  IInv'
    BY <2>1, <2>9, CancelledEventKeeps
  <2>10. ASSUME NEW offset \in Offset, EventFails(offset)
         PROVE  IInv'
    BY <2>1, <2>10, LoopGoesOn DEF EventFails, Event, sink
  <2>11. ASSUME NEW offset \in Offset, EventReplayed(offset)
         PROVE  IInv'
    BY <2>1, <2>11, LoopGoesOn DEF EventReplayed, Event, SendResult
  <2>12. CASE ProcessQueue \/ Close
    BY <2>1, <2>12, ClosingKeeps
  <2>13. ASSUME NEW kind \in Published, Publish(kind)
         PROVE  IInv'
    BY <2>1, <2>13, PublishKeeps
  <2>14. CASE PollFails \/ UNCHANGED replayVars
    BY <2>1, <2>14, PollFailsKeeps
  <2> QED
    BY <2>2, <2>3, <2>4, <2>5, <2>6, <2>7, <2>8, <2>9, <2>10, <2>11, <2>12, <2>13, <2>14
       DEF ReplayNext, Job
<1> QED
  BY <1>1, <1>2, PTL DEF ReplaySpec

\* Types and the bound of the sink's queue (result_sink.py 39-69, 105-120).
THEOREM TypeCorrect == ReplaySpec => []ReplayTypeOK
<1>1. IInv => ReplayTypeOK
  BY DEF IInv
<1> QED
  BY <1>1, Invariance, PTL

\* The counts of a completed job add up (replay_job.py 160-203).
THEOREM CountsAreRight == ReplaySpec => []CountsAddUp
<1>1. IInv => CountsAddUp
  BY DEF IInv
<1> QED
  BY <1>1, Invariance, PTL

\* Nothing is left out, repeated or reordered by the source adapters
\* (source_adapters.py 291-350, 432-505).
THEOREM InOrder == ReplaySpec => []ReplayedInOrder
<1>1. IInv => ReplayedInOrder
  BY DEF IInv
<1> QED
  BY <1>1, Invariance, PTL

-----------------------------------------------------------------------------
(* What becomes of the results. *)

\* No result is in two places: it waits in the queue, was handed to the producer,
\* or was lost.
OnePlace ==
  /\ Range(results) = Range(queue) \cup Range(produced) \cup lost
  /\ Range(queue) \cap (Range(produced) \cup lost) = {}
  /\ Range(produced) \cap lost = {}

\* The producer gets them in its order, and those in the queue come after.
InTurn ==
  /\ \A i, j \in DOMAIN produced : i < j => HandedBefore(produced[i], produced[j])
  /\ \A i, j \in DOMAIN queue : i < j => queue[i] < queue[j]
  /\ Range(queue) \cap Bypassing = {}
  /\ \A first \in Range(produced), second \in Range(queue) : HandedBefore(first, second)

\* Until the queue is drained it holds the first results, and the producer only
\* gets those that find it full.
QueueFills ==
  task \notin {"closing", "over"} =>
    /\ Len(queue) = IF Len(results) < QueueSize THEN Len(results) ELSE QueueSize
    /\ Range(produced) \subseteq Bypassing

HandInv ==
  /\ OnePlace
  /\ InTurn
  /\ QueueFills
  /\ task = "over" => queue = <<>>

\* The values of a sequence with one more, and with one less.
LEMMA RangeOfAppend ==
  ASSUME NEW s \in Seq(Nat), NEW x \in Nat
  PROVE  /\ Range(Append(s, x)) = Range(s) \cup {x}
         /\ DOMAIN Append(s, x) = DOMAIN s \cup {Len(s) + 1}
         /\ \A i \in DOMAIN s : i < Len(s) + 1 /\ Append(s, x)[i] = s[i]
         /\ Append(s, x)[Len(s) + 1] = x
<1>1. /\ DOMAIN Append(s, x) = DOMAIN s \cup {Len(s) + 1}
      /\ \A i \in DOMAIN s : i < Len(s) + 1 /\ Append(s, x)[i] = s[i]
      /\ Append(s, x)[Len(s) + 1] = x
  OBVIOUS
<1>2. Range(Append(s, x)) = Range(s) \cup {x}
  BY <1>1 DEF Range
<1> QED
  BY <1>1, <1>2

LEMMA RangeOfTail ==
  ASSUME NEW s \in Seq(Nat), s # <<>>
  PROVE  /\ Range(s) = {Head(s)} \cup Range(Tail(s))
         /\ \A i \in DOMAIN Tail(s) : i + 1 \in DOMAIN s /\ 1 < i + 1 /\ Tail(s)[i] = s[i + 1]
         /\ 1 \in DOMAIN s /\ Head(s) = s[1]
<1>1. /\ \A i \in DOMAIN Tail(s) : i + 1 \in DOMAIN s /\ 1 < i + 1 /\ Tail(s)[i] = s[i + 1]
      /\ 1 \in DOMAIN s /\ Head(s) = s[1]
      /\ \A j \in DOMAIN s : j # 1 => j - 1 \in DOMAIN Tail(s) /\ s[j] = Tail(s)[j - 1]
  OBVIOUS
<1>2. \A y : y \in Range(s) <=> y = Head(s) \/ y \in Range(Tail(s))
  <2>1. ASSUME NEW y \in Range(s) PROVE y = Head(s) \/ y \in Range(Tail(s))
    <3>1. PICK j \in DOMAIN s : y = s[j]
      BY DEF Range
    <3> QED
      BY <1>1, <3>1 DEF Range
  <2>2. ASSUME NEW y \in Range(Tail(s)) PROVE y \in Range(s)
    <3>1. PICK i \in DOMAIN Tail(s) : y = Tail(s)[i]
      BY DEF Range
    <3> QED
      BY <1>1, <3>1 DEF Range
  <2>3. Head(s) \in Range(s)
    BY <1>1 DEF Range
  <2> QED
    BY <2>1, <2>2, <2>3
<1>3. Range(s) = {Head(s)} \cup Range(Tail(s))
  BY <1>2
<1> QED
  BY <1>1, <1>3

LEMMA IntervalGrows ==
  ASSUME NEW first \in Nat, NEW last \in Nat, last >= first
  PROVE  \A k : k \in first + 1 .. last + 1 <=> k \in first + 1 .. last \/ k = last + 1
<1> SUFFICES ASSUME NEW k
             PROVE  k \in first + 1 .. last + 1 <=> k \in first + 1 .. last \/ k = last + 1
  OBVIOUS
<1> QED
  OBVIOUS

LEMMA HandInitially == ReplayInit => HandInv
<1> SUFFICES ASSUME ReplayInit PROVE HandInv
  OBVIOUS
<1>1. /\ results = <<>> /\ queue = <<>> /\ produced = <<>> /\ lost = {}
      /\ task = "none" /\ QueueSize \in Nat \ {0}
  BY ReplayAssumption DEF ReplayInit
<1>2. Range(<<>>) = {} /\ Len(<<>>) = 0 /\ DOMAIN <<>> = {}
  BY DEF Range
<1> QED
  BY <1>1, <1>2 DEF HandInv, OnePlace, InTurn, QueueFills

\* Steps that leave the sink alone.
LEMMA SinkUntouched ==
  ASSUME HandInv, UNCHANGED sink,
         task \in {"closing", "over"} => task' \in {"closing", "over"},
         task' = "over" => task = "over" \/ queue = <<>>
  PROVE  HandInv'
<1>1. UNCHANGED <<results, queue, produced, lost>>
  BY DEF sink
<1> QED
  BY <1>1 DEF HandInv, OnePlace, InTurn, QueueFills, Bypassing, HandedBefore

\* A result goes to the queue, or past it to the producer.
LEMMA ResultArrives ==
  ASSUME ReplayTypeOK, HandInv, NEW offset \in Nat, SendResult(offset),
         \A i \in DOMAIN results : results[i] < offset,
         task \notin {"closing", "over"}, task' = task
  PROVE  HandInv'
<1>1. /\ results \in Seq(Nat) /\ queue \in Seq(Nat) /\ produced \in Seq(Nat)
      /\ Len(results) \in Nat /\ Len(queue) \in Nat /\ QueueSize \in Nat \ {0}
      /\ results' = Append(results, offset) /\ Len(results') = Len(results) + 1
  BY ReplayAssumption DEF ReplayTypeOK, SendResult
<1>2. /\ Range(results') = Range(results) \cup {offset}
      /\ offset \notin Range(results)
      /\ \A other \in Range(results) : other < offset
      /\ Range(results) \subseteq Nat
  <2>1. \A other \in Range(results) : other < offset /\ other \in Nat
    BY <1>1 DEF Range
  <2> QED
    BY <1>1, <2>1, RangeOfAppend
<1>3. /\ Len(queue) = IF Len(results) < QueueSize THEN Len(results) ELSE QueueSize
      /\ Range(produced) \subseteq Bypassing
  BY DEF HandInv, QueueFills
<1>4. /\ Range(queue) \subseteq Range(results) /\ Range(produced) \subseteq Range(results)
      /\ lost \subseteq Range(results)
  BY DEF HandInv, OnePlace
<1>5. CASE Len(queue) < QueueSize /\ queue' = Append(queue, offset) /\ UNCHANGED <<produced, lost>>
  <2>1. Bypassing = {} /\ Bypassing' = {} /\ Len(queue') = Len(results') /\ Len(results') <= QueueSize
    BY <1>1, <1>3, <1>5 DEF Bypassing
  <2>2. Range(queue') = Range(queue) \cup {offset}
    BY <1>1, <1>5, RangeOfAppend
  <2>3. OnePlace'
    BY <1>2, <1>4, <1>5, <2>2 DEF HandInv, OnePlace
  <2>4. Range(produced) = {} /\ DOMAIN produced = {}
    BY <1>3, <2>1 DEF Range
  <2>5. \A i, j \in DOMAIN queue' : i < j => queue'[i] < queue'[j]
    <3> SUFFICES ASSUME NEW i \in DOMAIN queue', NEW j \in DOMAIN queue', i < j
                 PROVE  queue'[i] < queue'[j]
      OBVIOUS
    <3>1. i \in DOMAIN queue /\ queue'[i] = queue[i] /\ queue[i] < offset
      <4>1. i \in DOMAIN queue /\ queue'[i] = queue[i]
        BY <1>1, <1>5
      <4>2. queue[i] \in Range(queue)
        BY <4>1 DEF Range
      <4> QED
        BY <1>2, <1>4, <4>1, <4>2
    <3>2. CASE j \in DOMAIN queue
      BY <1>1, <1>5, <3>1, <3>2 DEF HandInv, InTurn
    <3>3. CASE j \notin DOMAIN queue
      BY <1>1, <1>5, <3>1, <3>3
    <3> QED
      BY <3>2, <3>3
  <2>6. InTurn'
    BY <1>5, <2>1, <2>4, <2>5 DEF InTurn
  <2>7. QueueFills'
    BY <1>1, <1>5, <2>1, <2>4 DEF QueueFills
  <2> QED
    BY <2>3, <2>6, <2>7 DEF HandInv
<1>6. CASE Len(queue) >= QueueSize /\ SendToKafka(offset) /\ UNCHANGED queue
  <2>1. Len(results) >= QueueSize /\ Len(results') >= QueueSize
    BY <1>1, <1>3, <1>6
  <2>2. Bypassing' = Bypassing \cup {offset} /\ Bypassing \subseteq Range(results)
    <3>1. \A k : k \in QueueSize + 1 .. Len(results')
                <=> k \in QueueSize + 1 .. Len(results) \/ k = Len(results')
      BY <1>1, <2>1, IntervalGrows
    <3>2. /\ results'[Len(results')] = offset
          /\ \A k \in QueueSize + 1 .. Len(results) : k \in DOMAIN results /\ results'[k] = results[k]
      BY <1>1, <2>1
    <3> QED
      BY <3>1, <3>2 DEF Bypassing, Range
  <2>3. \A first, second \in Range(results) :
          HandedBefore(first, second) => HandedBefore(first, second)'
    BY <1>2, <2>2 DEF HandedBefore
  <2>4. \A first \in Range(produced) : HandedBefore(first, offset)'
    BY <1>2, <1>3, <2>2 DEF HandedBefore
  <2>5. \A second \in Range(queue) : HandedBefore(offset, second)'
    BY <1>2, <1>4, <2>2 DEF HandedBefore, HandInv, InTurn
  <2>6. \/ /\ produced' = Append(produced, offset) /\ lost' = lost
           /\ Range(produced') = Range(produced) \cup {offset}
        \/ produced' = produced /\ lost' = lost \cup {offset}
    <3>1. Range(Append(produced, offset)) = Range(produced) \cup {offset}
      BY <1>1, RangeOfAppend
    <3> QED
      BY <1>6, <3>1 DEF SendToKafka
  <2>7. OnePlace'
    BY <1>2, <1>4, <1>6, <2>6 DEF HandInv, OnePlace
  <2>8. \A i, j \in DOMAIN produced' : i < j =>
          IF produced'[i] \in Bypassing' <=> produced'[j] \in Bypassing'
            THEN produced'[i] < produced'[j]
            ELSE produced'[i] \in Bypassing'
    <3> SUFFICES ASSUME NEW i \in DOMAIN produced', NEW j \in DOMAIN produced', i < j,
                        NEW first, NEW second, first = produced'[i], second = produced'[j]
                 PROVE  HandedBefore(first, second)'
      BY DEF HandedBefore
    <3>0. \/ produced' = produced
          \/ /\ produced' = Append(produced, offset)
             /\ DOMAIN produced' = DOMAIN produced \cup {Len(produced) + 1}
             /\ \A k \in DOMAIN produced : k < Len(produced) + 1 /\ produced'[k] = produced[k]
             /\ produced'[Len(produced) + 1] = offset
      <4>1. CASE produced' = produced
        BY <4>1
      <4>2. CASE produced' = Append(produced, offset)
        BY <1>1, <4>2, RangeOfAppend
      <4> QED
        BY <2>6, <4>1, <4>2
    <3>1. CASE i \in DOMAIN produced /\ j \in DOMAIN produced
      <4>1. first = produced[i] /\ second = produced[j]
        BY <3>0, <3>1
      <4>2. first \in Range(results) /\ second \in Range(results)
        BY <1>4, <3>1, <4>1 DEF Range
      <4> QED
        BY <2>3, <3>1, <4>1, <4>2 DEF HandInv, InTurn
    <3>2. CASE i \in DOMAIN produced /\ j \notin DOMAIN produced
      <4>1. first = produced[i] /\ second = offset
        BY <3>0, <3>2
      <4> QED
        BY <2>4, <3>2, <4>1 DEF Range
    <3>3. i \in DOMAIN produced
      <4>1. \A k \in DOMAIN produced : k < Len(produced) + 1
        BY <1>1
      <4>2. \A k \in DOMAIN produced' : k \in DOMAIN produced \/ k = Len(produced) + 1
        BY <3>0
      <4>3. \A k \in DOMAIN produced : k \in Int
        BY <1>1
      <4> QED
        BY <1>1, <4>1, <4>2, <4>3
    <3> QED
      BY <3>1, <3>2, <3>3
  <2>9. InTurn'
    <3> SUFFICES ASSUME NEW first \in Range(produced'), NEW second \in Range(queue')
                 PROVE  HandedBefore(first, second)'
      <4>1. /\ \A i, j \in DOMAIN queue' : i < j => queue'[i] < queue'[j]
            /\ Range(queue') \cap Bypassing' = {}
        BY <1>2, <1>4, <1>6, <2>2 DEF HandInv, InTurn
      <4> QED
        BY <2>8, <4>1 DEF InTurn, HandedBefore
    <3>1. CASE first \in Range(produced)
      BY <1>4, <1>6, <2>3, <3>1 DEF HandInv, InTurn
    <3>2. CASE first = offset
      BY <1>6, <2>5, <3>2
    <3> QED
      BY <2>6, <3>1, <3>2
  <2>10. QueueFills'
    BY <1>1, <1>3, <1>6, <2>1, <2>2, <2>6 DEF QueueFills
  <2> QED
    BY <2>7, <2>9, <2>10 DEF HandInv
<1> QED
  BY <1>5, <1>6 DEF SendResult

\* close() takes the first of the queue.
LEMMA QueueDrains ==
  ASSUME ReplayTypeOK, HandInv, ProcessQueue
  PROVE  HandInv'
<1>1. /\ task = "closing" /\ task' = task /\ results' = results
      /\ queue # <<>> /\ queue' = Tail(queue) /\ SendToKafka(Head(queue))
      /\ queue \in Seq(Nat) /\ produced \in Seq(Nat)
  BY DEF ReplayTypeOK, ProcessQueue
<1> DEFINE next == Head(queue)
<1>2. /\ Range(queue) = {next} \cup Range(queue') /\ next \in Nat
      /\ \A i \in DOMAIN queue' : i + 1 \in DOMAIN queue /\ queue'[i] = queue[i + 1]
      /\ \A i \in DOMAIN queue' : next < queue'[i]
      /\ queue' \in Seq(Nat)
  <2>1. /\ Range(queue) = {next} \cup Range(queue')
        /\ \A i \in DOMAIN queue' : i + 1 \in DOMAIN queue /\ 1 < i + 1 /\ queue'[i] = queue[i + 1]
        /\ 1 \in DOMAIN queue /\ next = queue[1]
    BY <1>1, RangeOfTail
  <2> QED
    BY <1>1, <2>1 DEF HandInv, InTurn
<1>3. next \notin Range(queue') /\ \A second \in Range(queue') : next < second
  BY <1>2 DEF Range
<1>4. Bypassing' = Bypassing
  BY <1>1 DEF Bypassing
<1>5. \/ /\ produced' = Append(produced, next) /\ lost' = lost
         /\ Range(produced') = Range(produced) \cup {next}
      \/ produced' = produced /\ lost' = lost \cup {next}
  BY <1>1, <1>2, RangeOfAppend DEF SendToKafka
<1> HIDE DEF next
<1>6. OnePlace'
  BY <1>1, <1>2, <1>3, <1>5 DEF HandInv, OnePlace
<1>7. \A first \in Range(produced) : HandedBefore(first, next)
  BY <1>2 DEF HandInv, InTurn
<1>8. \A i, j \in DOMAIN produced' : i < j => HandedBefore(produced'[i], produced'[j])
  <2>1. CASE produced' = produced
    BY <2>1 DEF HandInv, InTurn
  <2>2. CASE produced' = Append(produced, next)
    <3> SUFFICES ASSUME NEW i \in DOMAIN produced', NEW j \in DOMAIN produced', i < j
                 PROVE  HandedBefore(produced'[i], produced'[j])
      OBVIOUS
    <3>1. i \in DOMAIN produced /\ produced'[i] = produced[i] /\ produced[i] \in Range(produced)
      BY <1>1, <1>2, <2>2 DEF Range
    <3>2. CASE j \in DOMAIN produced
      <4>1. produced'[j] = produced[j]
        BY <1>1, <1>2, <2>2, <3>2
      <4> QED
        BY <3>1, <3>2, <4>1 DEF HandInv, InTurn
    <3>3. CASE j \notin DOMAIN produced
      <4>1. produced'[j] = next
        BY <1>1, <1>2, <2>2, <3>3
      <4> QED
        BY <1>7, <3>1, <4>1
    <3> QED
      BY <3>2, <3>3
  <2> QED
    BY <1>5, <2>1, <2>2
<1>9. InTurn'
  <2>1. Range(queue') \cap Bypassing = {} /\ next \notin Bypassing
    BY <1>2 DEF HandInv, InTurn
  <2>2. \A second \in Range(queue') : HandedBefore(next, second)
    BY <1>3, <2>1 DEF HandedBefore
  <2>3. \A first \in Range(produced'), second \in Range(queue') : HandedBefore(first, second)
    BY <1>2, <1>5, <2>2 DEF HandInv, InTurn
  <2>4. \A i, j \in DOMAIN queue' : i < j => queue'[i] < queue'[j]
    <3>1. \A i, j \in DOMAIN queue' : i < j => i + 1 < j + 1
      BY <1>2
    <3> QED
      BY <1>2, <3>1 DEF HandInv, InTurn
  <2> QED
    BY <1>4, <1>8, <2>1, <2>3, <2>4 DEF InTurn, HandedBefore
<1> QED
  BY <1>1, <1>6, <1>9 DEF HandInv, QueueFills

LEMMA HandStep ==
  ASSUME IInv, HandInv, [ReplayNext]_replayVars
  PROVE  HandInv'
<1>1. ReplayTypeOK
  BY DEF IInv
<1>2. CASE Create \/ DeleteArrives \/ Cancel \/ Start \/ CountEvents \/ OpenSource
           \/ OpenSourceRaises \/ Exhausted \/ PollEndsEmpty \/ PollFails
  <2>1. UNCHANGED sink /\ (task' = task \/ (task \notin {"closing", "over"} /\ task' # "over"))
    <3>1. CASE Create \/ DeleteArrives \/ Cancel \/ Start \/ CountEvents \/ OpenSource
      BY <3>1 DEF Create, DeleteArrives, Cancel, Start, CountEvents, OpenSource
    <3>2. CASE OpenSourceRaises \/ Exhausted \/ PollEndsEmpty \/ PollFails
      BY <3>2 DEF OpenSourceRaises, Exhausted, PollEndsEmpty, PollFails, Leave, LoopEnds
    <3> QED
      BY <1>2, <3>1, <3>2
  <2>2. task = "over" => queue = <<>>
    BY DEF HandInv
  <2> QED
    BY <2>1, <2>2, SinkUntouched
<1>3. ASSUME NEW offset \in Offset,
             \/ MessagePastEnd(offset)
             \/ MessageSkipped(offset)
             \/ MessageRaises(offset)
             \/ EventCancelled(offset)
             \/ EventFails(offset)
      PROVE  HandInv'
  <2>1. UNCHANGED sink /\ task = "iterating" /\ task' \in {"iterating", "closing"}
    BY <1>3 DEF MessagePastEnd, MessageSkipped, MessageRaises, EventCancelled, EventFails,
       Event, Message, Leave, LoopEnds
  <2> QED
    BY <2>1, SinkUntouched
<1>4. ASSUME NEW offset \in Offset, EventReplayed(offset)
      PROVE  HandInv'
  <2>1. Message(offset) /\ SendResult(offset) /\ task' = task
    BY <1>4 DEF EventReplayed, Event
  <2>2. offset \in Nat /\ task = "iterating" /\ \A other \in seen : other < offset
    BY <2>1, MessageFacts
  <2>3. \A i \in DOMAIN results : results[i] < offset
    BY <2>2 DEF IInv, ReplayedInOrder
  <2> QED
    BY <1>1, <2>1, <2>2, <2>3, ResultArrives
<1>5. CASE ProcessQueue
  BY <1>1, <1>5, QueueDrains
<1>6. CASE Close
  BY <1>6, SinkUntouched DEF Close
<1>7. CASE (\E kind \in Published : Publish(kind)) \/ UNCHANGED replayVars
  <2>1. UNCHANGED <<task, sink>>
    BY <1>7 DEF Publish, replayVars
  <2>2. task = "over" => queue = <<>>
    BY DEF HandInv
  <2> QED
    BY <2>1, <2>2, SinkUntouched
<1> QED
  BY <1>2, <1>3, <1>4, <1>5, <1>6, <1>7 DEF ReplayNext, Job

\* Every result is handed to the producer once and in its turn, or reported as
\* failed (result_sink.py 105-153, 269-297).
THEOREM ResultsReachTheProducer == ReplaySpec => []ResultsHandedOver
<1>1. IInv /\ HandInv /\ [ReplayNext]_replayVars => HandInv'
  BY HandStep
<1>2. HandInv => ResultsHandedOver
  <2> SUFFICES ASSUME HandInv, task = "over" PROVE ResultsHandedOver
    BY DEF ResultsHandedOver
  <2>1. Range(queue) = {}
    BY DEF HandInv, Range
  <2> QED
    BY <2>1 DEF HandInv, OnePlace, InTurn, ResultsHandedOver
<1> QED
  BY <1>1, <1>2, HandInitially, Invariance, PTL DEF ReplaySpec

-----------------------------------------------------------------------------
(* The job runs out. *)

LEMMA LeftIsNatural ==
  ASSUME ReplayTypeOK
  PROVE  Unread \in Nat /\ Left \in Nat
<1>1. /\ Len(log) \in Nat /\ end \in Int /\ cursor \in Int /\ Len(queue) \in Nat
  BY DEF ReplayTypeOK
<1> QED
  BY <1>1 DEF Unread, Left

\* Leaving a place of the task for a later one.
LEMMA StageFalls ==
  ASSUME \/ task = "none" /\ task' = "ready"
         \/ task = "ready" /\ task' = "counting"
         \/ task = "counting" /\ task' = "opening"
         \/ task = "opening" /\ task' \in {"iterating", "closing"}
         \/ task = "iterating" /\ task' = "closing"
         \/ task = "closing" /\ task' = "over"
  PROVE  Nearer
BY DEF Nearer, Stage

\* A message after which the loop goes on is one less to read.
LEMMA OneLessToRead ==
  ASSUME ReplayTypeOK, ReplayTypeOK', NEW offset \in Offset, Message(offset), ~PastEnd(offset), task' = task
  PROVE  Nearer
<1>1. /\ Len(log) \in Nat /\ end \in Int /\ cursor \in Int /\ offset \in Nat
      /\ config.source \in Source
  <2>1. offset \in Nat
    BY ReplayAssumption DEF Offset
  <2>2. config.source \in Source
    BY SourceTypes
  <2> QED
    BY <2>1, <2>2 DEF ReplayTypeOK
<1>2. /\ task = "iterating" /\ offset < Len(log) /\ cursor' = offset + 1
      /\ ~(config.source = "kafka" /\ cursor \notin 0 .. Len(log)) => offset = cursor
      /\ log' = log /\ config' = config /\ end' = end
  BY <1>1 DEF Message, NextOffsets, source
<1> DEFINE last == IF config.source = "dlq" THEN Len(log) ELSE end + 1
           next == IF config.source = "kafka" /\ cursor \notin 0 .. Len(log) THEN -1 ELSE cursor
<1>3. offset < last
  <2>1. CASE config.source = "kafka"
    BY <1>1, <2>1 DEF PastEnd
  <2>2. CASE config.source = "dlq"
    BY <1>2, <2>2
  <2>3. CASE config.source = "iceberg"
    <3>1. cursor < end
      BY <2>3 DEF Message, More
    <3> QED
      BY <1>1, <1>2, <2>3, <3>1
  <2> QED
    BY <1>1, <2>1, <2>2, <2>3 DEF Source
<1>4. next <= offset /\ last \in Int /\ next \in Int
  <2>1. CASE config.source = "kafka" /\ cursor \notin 0 .. Len(log)
    BY <1>1, <1>2, <2>1
  <2>2. CASE ~(config.source = "kafka" /\ cursor \notin 0 .. Len(log))
    BY <1>1, <1>2, <2>2
  <2> QED
    BY <2>1, <2>2
<1>5. Unread = last - next
  <2>1. Unread = IF next < last THEN last - next ELSE 0
    BY DEF Unread
  <2> HIDE DEF last, next
  <2> QED
    BY <1>1, <1>3, <1>4, <2>1
<1>6. Unread' = IF offset + 1 < last THEN last - (offset + 1) ELSE 0
  <2>1. cursor' \in 0 .. Len(log')
    BY <1>1, <1>2
  <2> QED
    BY <1>2, <2>1 DEF Unread
<1> HIDE DEF last, next
<1>7. Unread' < Unread
  BY <1>1, <1>3, <1>4, <1>5, <1>6
<1> QED
  BY <1>2, <1>7 DEF Nearer, Stage, Left

\* Every step of the job but a failed poll.
LEMMA JobGetsNearer ==
  ASSUME ReplayTypeOK, ReplayTypeOK', Job, ~PollFails
  PROVE  Nearer
<1>1. CASE Start \/ CountEvents \/ OpenSource \/ OpenSourceRaises \/ Exhausted \/ PollEndsEmpty
           \/ Close
  BY <1>1, StageFalls DEF Start, CountEvents, OpenSource, OpenSourceRaises, Exhausted,
     PollEndsEmpty, Close, Leave, LoopEnds
<1>2. ASSUME NEW offset \in Offset,
             MessagePastEnd(offset) \/ MessageRaises(offset) \/ EventCancelled(offset)
      PROVE  Nearer
  BY <1>2, StageFalls DEF MessagePastEnd, MessageRaises, EventCancelled, Event, Message,
     Leave, LoopEnds
<1>3. ASSUME NEW offset \in Offset,
             MessageSkipped(offset) \/ EventFails(offset) \/ EventReplayed(offset)
      PROVE  Nearer
  <2>1. Message(offset) /\ ~PastEnd(offset) /\ task' = task
    BY <1>3 DEF MessageSkipped, EventFails, EventReplayed, Event
  <2> QED
    BY <2>1, OneLessToRead
<1>4. CASE ProcessQueue
  <2>1. task = "closing" /\ task' = task /\ queue # <<>> /\ queue' = Tail(queue)
        /\ queue \in Seq(Nat)
    BY <1>4 DEF ProcessQueue, ReplayTypeOK
  <2>2. Len(queue') < Len(queue)
    BY <2>1
  <2> QED
    BY <2>1, <2>2 DEF Nearer, Stage, Left
<1> QED
  BY <1>1, <1>2, <1>3, <1>4 DEF Job

\* The requests and a failed poll leave what is left alone.
LEMMA RequestsDelayNothing ==
  ASSUME ReplayTypeOK, DeleteArrives \/ Cancel \/ PollFails
  PROVE  task' = task /\ Left' <= Left + (IF config.source = "dlq" THEN Len(log') - Len(log) ELSE 0)
<1>1. UNCHANGED <<task, queue, config, log, cursor, end>>
  BY DEF DeleteArrives, Cancel, PollFails, source, reader, sink
<1>2. Left' = Left
  BY <1>1 DEF Left, Unread
<1>3. Left \in Nat /\ Len(log) \in Nat
  BY LeftIsNatural DEF ReplayTypeOK
<1> QED
  BY <1>1, <1>2, <1>3

\* A message that is published is one more to read from a dead letter topic only.
LEMMA PublishDelays ==
  ASSUME ReplayTypeOK, NEW kind \in Published, Publish(kind)
  PROVE  task' = task /\ Left' <= Left + (IF config.source = "dlq" THEN Len(log') - Len(log) ELSE 0)
<1>1. UNCHANGED <<task, queue, config, cursor, end>> /\ log' = Append(log, kind)
  BY DEF Publish, reader, sink
<1>2. /\ Len(log) \in Nat /\ end \in Int /\ cursor \in Int /\ Len(log') = Len(log) + 1
  BY <1>1, ReplayAssumption DEF ReplayTypeOK
<1>3. Left \in Nat /\ Unread \in Nat
  BY LeftIsNatural
<1>4. CASE task = "iterating"
  <2>1. Left = Unread /\ Left' = Unread'
    BY <1>1, <1>4 DEF Left
  <2>2. CASE config.source = "dlq"
    <3>1. Unread' <= Unread + 1
      BY <1>1, <1>2, <2>2 DEF Unread
    <3> QED
      BY <1>1, <1>2, <1>3, <2>1, <2>2, <3>1
  <2>3. CASE config.source # "dlq"
    <3>1. Unread' <= Unread
      BY <1>1, <1>2, <2>3 DEF Unread
    <3> QED
      BY <1>1, <1>3, <2>1, <2>3, <3>1
  <2> QED
    BY <2>2, <2>3
<1>5. CASE task # "iterating"
  <2>1. Left' = Left
    BY <1>1, <1>5 DEF Left
  <2> QED
    BY <1>1, <1>2, <1>3, <2>1
<1> QED
  BY <1>4, <1>5

\* Every step of the job brings its end nearer, but for a failed poll of the dead
\* letter topic, which leaves it as far as it was: what the job reads, what others
\* append and what the producer refuses give it no other loop without end
\* (replay_job.py 84-203, source_adapters.py 432-505, result_sink.py 269-297).
THEOREM EveryStepGetsNearer == ReplaySpec => JobRunsOut
<1>1. ASSUME ReplayTypeOK, ReplayTypeOK', [ReplayNext]_replayVars
      PROVE  [ /\ Job => Nearer \/ PollFails
               /\ \/ Nearer
                  \/ /\ UNCHANGED task
                     /\ Left' <= Left + (IF config.source = "dlq" THEN Len(log') - Len(log) ELSE 0)
             ]_replayVars
  <2>1. Job => Nearer \/ PollFails
    BY <1>1, JobGetsNearer
  <2>2. CASE Job /\ ~PollFails
    BY <2>1, <2>2
  <2>3. CASE Create
    BY <2>1, <2>3, StageFalls DEF Create
  <2>4. CASE DeleteArrives \/ Cancel \/ PollFails
    BY <1>1, <2>1, <2>4, RequestsDelayNothing
  <2>5. ASSUME NEW kind \in Published, Publish(kind)
        PROVE  /\ UNCHANGED task
               /\ Left' <= Left + (IF config.source = "dlq" THEN Len(log') - Len(log) ELSE 0)
    BY <1>1, <2>5, PublishDelays
  <2> QED
    BY <1>1, <2>1, <2>2, <2>3, <2>4, <2>5 DEF ReplayNext
<1> QED
  BY <1>1, TypeCorrect, PTL DEF ReplaySpec, JobRunsOut
=============================================================================
