-------------------------------- MODULE Replay --------------------------------
(***************************************************************************)
(* One replay job: the endpoints that create and cancel it                 *)
(* (pipelines/scoring/management_api.py), the job itself                   *)
(* (pipelines/replay/replay_job.py) and the sink its results go to         *)
(* (pipelines/replay/result_sink.py).                                      *)
(*                                                                         *)
(* The endpoints and the job run on one event loop.  The job never waits   *)
(* for anything the loop could run in the meantime, so from its first step *)
(* to its last the loop is its own; requests that arrive wait.             *)
(*                                                                         *)
(* The job's sink has no Iceberg table: its flush thread finds nothing to  *)
(* do and the copy of every result it buffers is never used.  What is left *)
(* is the queue in front of the Kafka producer, which only close() drains. *)
(*                                                                         *)
(* Ghost variables: seen (offsets of the events the source yielded), entry *)
(* (the first offset read), quit (a poll came back empty or with an error, *)
(* which ends the iteration), lost (results the producer did not take) and *)
(* errors (flips with every poll that fails and is repeated, to tell the   *)
(* step from a pause).                                                     *)
(***************************************************************************)
EXTENDS ReplaySource, Functions

CONSTANTS Configs,      \* the configurations a client may ask for
          Logs,         \* the messages in the source at the beginning
          Published,    \* the kinds of message others append later
          MaxLog,       \* bound on the length of the log
          MaxDeletes,   \* bound on the DELETE requests
          QueueSize,    \* max_queue_size of the sink
          ReportEvery   \* processed events between two updates of the status

ASSUME ReplayAssumption ==
  /\ Configs \subseteq Config
  /\ Logs \subseteq Seq(Kind)
  /\ Published \subseteq Kind
  /\ MaxLog \in Nat
  /\ MaxDeletes \in Nat
  /\ QueueSize \in Nat \ {0}
  /\ ReportEvery \in Nat \ {0}

VARIABLES log,        \* the messages of the source
          config,     \* self.config
          task,       \* where the job's task is
          status,     \* self._status.status
          cancelled,  \* self._cancelled
          total,      \* total_events
          processed,  \* processed_events
          failed,     \* failed_events
          good,       \* the local variable processed of _run_replay
          poison,     \* its local variable failed
          cursor,     \* the consumer's position
          current,    \* current_offset of the Kafka iteration
          end,        \* end_offset of the iteration
          results,    \* self._results, as offsets
          queue,      \* the sink's queue
          produced,   \* the results handed to the Kafka producer
          waiting,    \* DELETE requests the loop has not run yet
          deletes,    \* DELETE requests so far
          seen,
          entry,
          quit,
          lost,
          errors

source == <<log, config, errors>>
counts == <<total, processed, failed, good, poison>>
reader == <<cursor, current, end, seen, entry, quit>>
sink == <<results, queue, produced, lost>>
deleteVars == <<cancelled, waiting, deletes>>
replayVars == <<source, task, status, counts, reader, sink, deleteVars>>

\* The places of the task; in those of Busy it has the loop.
Busy == {"counting", "opening", "iterating", "closing"}
Task == {"none", "ready", "over"} \cup Busy

Status == {"none", "pending", "running", "completed", "failed", "cancelled"}
Terminal == {"completed", "failed", "cancelled"}

ReplayInit ==
  /\ log \in Logs
  /\ config \in Configs
  /\ task = "none"
  /\ status = "none"
  /\ cancelled = FALSE
  /\ total = 0 /\ processed = 0 /\ failed = 0
  /\ good = 0 /\ poison = 0
  /\ cursor = 0 /\ current = 0 /\ end = 0
  /\ results = <<>> /\ queue = <<>> /\ produced = <<>>
  /\ waiting = 0 /\ deletes = 0
  /\ seen = {} /\ entry = 0 /\ quit = FALSE /\ lost = {} /\ errors = FALSE

-----------------------------------------------------------------------------
(* The endpoints. *)

\* create_replay_job: the job is registered and its task handed to the loop.
Create ==
  /\ task = "none"
  /\ task' = "ready"
  /\ status' = "pending"
  /\ UNCHANGED <<source, counts, reader, sink, deleteVars>>

\* A DELETE for the job reaches the server.
DeleteArrives ==
  /\ task # "none"
  /\ deletes < MaxDeletes
  /\ deletes' = deletes + 1
  /\ waiting' = waiting + 1
  /\ UNCHANGED <<source, task, status, counts, reader, sink, cancelled>>

\* cancel_replay_job: 409 for a job that is over, else cancel() sets the flag.
Cancel ==
  /\ task \notin Busy
  /\ waiting > 0
  /\ waiting' = waiting - 1
  /\ cancelled' = (cancelled \/ status \notin Terminal)
  /\ UNCHANGED <<source, task, status, counts, reader, sink, deletes>>

-----------------------------------------------------------------------------
(* The job. *)

\* start: the status is set and the sink and the adapter are made.
Start ==
  /\ task = "ready"
  /\ task' = "counting"
  /\ status' = "running"
  /\ UNCHANGED <<source, counts, reader, sink, deleteVars>>

\* get_event_count
CountEvents ==
  /\ task = "counting"
  /\ task' = "opening"
  /\ total' \in EventCounts(config, log)
  /\ cursor' \in FirstPositions(config, log)
  /\ UNCHANGED <<source, status, processed, failed, good, poison, current, end,
                 seen, entry, quit, sink, deleteVars>>

\* Leaving _run_replay by a return or an exception: the counts of the loop are
\* not written to the status.
Leave(outcome) ==
  /\ status' = outcome
  /\ task' = "closing"
  /\ UNCHANGED <<processed, failed>>

\* Mutant: the last report of the loop stands.
LoopEndsUnreported ==
  /\ status' = "completed"
  /\ task' = "closing"
  /\ failed' = poison
  /\ UNCHANGED processed

\* The end of the loop: the counts are written, and the summary of the results is
\* computed, which may raise.
LoopEnds ==
  /\ \/ status' = "completed"
     \/ results # <<>> /\ status' = "failed"
  /\ task' = "closing"
  /\ processed' = good
  /\ failed' = poison

\* The first step of iter_events: the consumer or the query, and the end of the
\* range.
OpenSource ==
  /\ task = "opening"
  /\ task' = "iterating"
  /\ end' \in EndsOfRange(config, log)
  /\ current' = cursor
  /\ entry' = cursor
  /\ UNCHANGED <<source, status, counts, cursor, seen, quit, sink, deleteVars>>

\* The consumer cannot be made, or the query fails.
OpenSourceRaises ==
  /\ task = "opening"
  /\ Leave("failed")
  /\ UNCHANGED <<source, total, good, poison, reader, sink, deleteVars>>

\* The condition of the adapter's loop.
More ==
  CASE config.source = "kafka"   -> current < end
    [] config.source = "dlq"     -> good + poison < config.max
    [] config.source = "iceberg" -> cursor < end

\* The range, the limit or the rows are used up.
Exhausted ==
  /\ task = "iterating"
  /\ ~More
  /\ LoopEnds
  /\ UNCHANGED <<source, total, good, poison, reader, sink, deleteVars>>

\* Mutant: an empty poll is repeated.
PollAgain ==
  /\ task = "iterating"
  /\ More
  /\ config.source # "iceberg"
  /\ UNCHANGED replayVars

\* poll times out, or returns an error to the Kafka source: the iteration ends as if
\* it were complete.
PollEndsEmpty ==
  /\ task = "iterating"
  /\ More
  /\ config.source # "iceberg"
  /\ LoopEnds
  /\ quit' = TRUE
  /\ UNCHANGED <<source, total, good, poison, cursor, current, end, seen, entry,
                 sink, deleteVars>>

\* poll returns an error to the dead letter source, which polls again.
PollFails ==
  /\ task = "iterating"
  /\ More
  /\ config.source = "dlq"
  /\ errors' = ~errors
  /\ UNCHANGED <<log, config, task, status, counts, reader, sink, deleteVars>>

\* The next message is there and is read.
Message(offset) ==
  /\ task = "iterating"
  /\ More
  /\ offset \in NextOffsets(config, log, cursor)
  /\ offset < Len(log)
  /\ cursor' = offset + 1
  /\ current' = offset
  /\ entry' = IF offset = cursor THEN entry ELSE offset
  /\ UNCHANGED <<source, end, quit, deleteVars>>

\* The Kafka source looks at the offset again: the message is after the range.
PastEnd(offset) == config.source = "kafka" /\ offset >= end

MessagePastEnd(offset) ==
  /\ Message(offset)
  /\ PastEnd(offset)
  /\ LoopEnds
  /\ UNCHANGED <<total, good, poison, seen, sink>>

\* The message is not an event, the loop goes on.
MessageSkipped(offset) ==
  /\ Message(offset)
  /\ ~PastEnd(offset)
  /\ Reading(config.source, log[offset + 1]) = "nothing"
  /\ UNCHANGED <<task, status, counts, seen, sink>>

\* Mutant: a message without a value is left out.
MessageRaisesNothing(offset) ==
  /\ Message(offset)
  /\ ~PastEnd(offset)
  /\ Reading(config.source, log[offset + 1]) = "raise"
  /\ UNCHANGED <<task, status, counts, seen, sink>>

\* The adapter raises: the job fails.
MessageRaises(offset) ==
  /\ Message(offset)
  /\ ~PastEnd(offset)
  /\ Reading(config.source, log[offset + 1]) = "raise"
  /\ Leave("failed")
  /\ UNCHANGED <<total, good, poison, seen, sink>>

\* The adapter yields an event.
Event(offset, reading) ==
  /\ Message(offset)
  /\ ~PastEnd(offset)
  /\ Reading(config.source, log[offset + 1]) \in reading
  /\ seen' = seen \cup {offset}

\* The flag is looked at before the event is scored.
EventCancelled(offset) ==
  /\ Event(offset, {"event", "poison"})
  /\ cancelled
  /\ Leave("cancelled")
  /\ UNCHANGED <<total, good, poison, sink>>

\* _process_event raises: the event is counted and the loop goes on.
EventFails(offset) ==
  /\ Event(offset, {"poison"})
  /\ ~cancelled
  /\ poison' = poison + 1
  /\ UNCHANGED <<task, status, total, processed, failed, good, sink>>

\* _send_to_kafka: produce takes the result, or the failure is logged.
SendToKafka(result) ==
  \/ produced' = Append(produced, result) /\ UNCHANGED lost
  \/ lost' = lost \cup {result} /\ UNCHANGED produced

\* send_result: with the queue full for a second the result goes to the producer
\* directly, ahead of those in the queue.
SendResult(result) ==
  /\ results' = Append(results, result)
  /\ \/ Len(queue) < QueueSize /\ queue' = Append(queue, result) /\ UNCHANGED <<produced, lost>>
     \/ Len(queue) >= QueueSize /\ SendToKafka(result) /\ UNCHANGED queue

\* _process_event returns: the result is kept and sent, and every ReportEvery
\* events the status is told.
EventReplayed(offset) ==
  /\ Event(offset, {"event"})
  /\ ~cancelled
  /\ SendResult(offset)
  /\ good' = good + 1
  /\ processed' = IF good' % ReportEvery = 0 THEN good' ELSE processed
  /\ UNCHANGED <<task, status, total, failed, poison>>

\* Mutant: a result that the producer does not take is kept for another try.
ProcessQueueAgain ==
  /\ task = "closing"
  /\ queue # <<>>
  /\ SendToKafka(Head(queue))
  /\ queue' = IF Head(queue) \in lost' THEN Append(Tail(queue), Head(queue)) ELSE Tail(queue)
  /\ UNCHANGED <<source, task, status, counts, reader, results, deleteVars>>

\* _process_queue, from close(): one result.
ProcessQueue ==
  /\ task = "closing"
  /\ queue # <<>>
  /\ SendToKafka(Head(queue))
  /\ queue' = Tail(queue)
  /\ UNCHANGED <<source, task, status, counts, reader, results, deleteVars>>

\* Mutant: close() does not look at the queue.
CloseAtOnce ==
  /\ task = "closing"
  /\ task' = "over"
  /\ UNCHANGED <<source, status, counts, reader, sink, deleteVars>>

\* The rest of close(), and the end of the task.
Close ==
  /\ task = "closing"
  /\ queue = <<>>
  /\ task' = "over"
  /\ UNCHANGED <<source, status, counts, reader, sink, deleteVars>>

-----------------------------------------------------------------------------
\* Others append to the source.
Publish(kind) ==
  /\ Len(log) < MaxLog
  /\ log' = Append(log, kind)
  /\ UNCHANGED <<config, errors, task, status, counts, reader, sink, deleteVars>>

Offset == 0 .. MaxLog

\* A step of the job's task.
Job ==
  \/ Start
  \/ CountEvents
  \/ OpenSource
  \/ OpenSourceRaises
  \/ Exhausted
  \/ PollEndsEmpty
  \/ PollFails
  \/ \E offset \in Offset :
       \/ MessagePastEnd(offset)
       \/ MessageSkipped(offset)
       \/ MessageRaises(offset)
       \/ EventCancelled(offset)
       \/ EventFails(offset)
       \/ EventReplayed(offset)
  \/ ProcessQueue
  \/ Close

ReplayNext ==
  \/ Create
  \/ DeleteArrives
  \/ Cancel
  \/ Job
  \/ \E kind \in Published : Publish(kind)

\* The calls of the job that wait for others without a timeout: the watermarks of
\* the topic, the catalog and the query of the table, and the producer's flush.
MayHang ==
  \/ task = "counting" /\ (config.source = "kafka" => config.end < 0)
  \/ task = "opening" /\ (\/ config.source = "kafka" /\ config.end < 0
                          \/ config.source = "iceberg")
  \/ task = "closing" /\ queue = <<>> /\ produced # <<>>

\* A step that no such call puts off.
PromptStep == Job /\ ~MayHang

\* The event loop runs what is ready: the task, whose other waits have a timeout,
\* and the requests when the task does not have the loop.
ReplaySpec ==
  /\ ReplayInit /\ [][ReplayNext]_replayVars
  /\ WF_replayVars(PromptStep) /\ WF_replayVars(Cancel)

-----------------------------------------------------------------------------
\* Types, and the bound of the sink's queue.
ReplayTypeOK ==
  /\ log \in Seq(Kind)
  /\ config \in Configs
  /\ task \in Task
  /\ status \in Status
  /\ cancelled \in BOOLEAN
  /\ total \in Int /\ processed \in Nat /\ failed \in Nat
  /\ good \in Nat /\ poison \in Nat
  /\ cursor \in Int /\ current \in Int /\ end \in Int
  /\ results \in Seq(Nat) /\ produced \in Seq(Nat)
  /\ queue \in Seq(Nat) /\ Len(queue) <= QueueSize
  /\ waiting \in 0 .. deletes /\ deletes \in 0 .. MaxDeletes
  /\ seen \subseteq Nat /\ entry \in Int /\ quit \in BOOLEAN /\ lost \subseteq Nat
  /\ errors \in BOOLEAN

\* A status of completed comes with counts that add up: every event the source
\* yielded is either processed, and then has its result, or failed
\* (replay_job.py 160-203).
CountsAddUp ==
  status = "completed" =>
    /\ processed = Len(results)
    /\ processed + failed = Cardinality(seen)

\* Nothing between the first and the last offset read is left out or replayed
\* twice, and results are in the order of the source, although others append to it
\* and the consumer's position is shared with the counting
\* (source_adapters.py 291-350, 432-505).
ReplayedInOrder ==
  /\ \A i, j \in DOMAIN results : i < j => results[i] < results[j]
  /\ \A i \in DOMAIN results : results[i] \in seen
  /\ \A offset \in seen : \A before \in entry .. offset :
       Reading(config.source, log[before + 1]) # "nothing" => before \in seen

\* The documented range of a Kafka replay is start_offset to end_offset, both
\* inclusive (models.py 59-60): one that began within the log and completes without
\* an empty or failed poll has read just that.  The adapter's loop stops before
\* end_offset (source_adapters.py 311, 324).
RangeInclusive ==
  (/\ config.source = "kafka" /\ config.end >= 0
   /\ status = "completed" /\ ~quit /\ entry = config.start)
    => seen = config.start .. config.end

\* The results that found the queue full.
Bypassing == {results[k] : k \in QueueSize + 1 .. Len(results)}

\* The order of the producer: the results that found the queue full come first, and
\* else the order is that of the source.
HandedBefore(first, second) ==
  IF first \in Bypassing <=> second \in Bypassing
    THEN first < second
    ELSE first \in Bypassing

\* When the task is over, every result has been handed to the producer once or
\* reported as failed; those that found the queue full come first
\* (result_sink.py 105-153, 269-297).
ResultsHandedOver ==
  task = "over" =>
    /\ Range(produced) = Range(results) \ lost
    /\ \A i, j \in DOMAIN produced : i < j => HandedBefore(produced[i], produced[j])

\* "Cancel a running replay job." (management_api.py 774): a DELETE that reaches the
\* server while the job runs and has not read its first event is in time for the
\* flag the job looks at before every event (replay_job.py 165); the job does not
\* complete with results.
RunningJobCancelled ==
  [](task = "opening" /\ waiting > 0 => [](status = "completed" => results = <<>>))

\* How far the task is from its end, and how much a loop it is in has left: the
\* messages to read, up to the end of the range (from the earliest one when the
\* position is beyond the log), and the results to hand over.
Stage == [none |-> 6, ready |-> 5, counting |-> 4, opening |-> 3, iterating |-> 2,
          closing |-> 1, over |-> 0][task]

Unread ==
  LET last == IF config.source = "dlq" THEN Len(log) ELSE end + 1
      next == IF config.source = "kafka" /\ cursor \notin 0 .. Len(log) THEN -1 ELSE cursor
  IN  IF next < last THEN last - next ELSE 0

Left ==
  CASE task = "iterating" -> Unread
    [] task = "closing"   -> Len(queue)
    [] OTHER              -> 0

Nearer ==
  \/ Stage' < Stage
  \/ Stage' = Stage /\ Left' < Left

\* Every step of the job but one brings its end nearer, whatever it reads and
\* whether the producer takes its results or not.  The one is a failed poll of the
\* dead letter topic, after which the job polls again, as often as polls fail: it
\* leaves the end as far as it was.  Of the others, only those who append to the
\* dead letter topic, which has no end of the range, put it off, by a message each
\* (replay_job.py 84-203, source_adapters.py 432-505, result_sink.py 269-297).
JobRunsOut ==
  [][ /\ Job => Nearer \/ PollFails
      /\ \/ Nearer
         \/ /\ UNCHANGED task
            /\ Left' <= Left + (IF config.source = "dlq" THEN Len(log') - Len(log) ELSE 0)
    ]_replayVars

\* The loop is not lost to the job: every job that was created comes to an end and
\* every DELETE is answered, although the job keeps the loop to itself.  There are
\* three ways to lose it: a call without a timeout that never returns, a dead
\* letter topic whose polls fail for ever, and one to which others append for ever
\* (replay_job.py 84-203, source_adapters.py 281-284, 303-307, 423, 451-460,
\* result_sink.py 273).
LoopComesBack ==
  \/ <>[]MayHang
  \/ []<><<PollFails>>_replayVars
  \/ config.source = "dlq" /\ []<><<\E kind \in Published : Publish(kind)>>_replayVars
  \/ /\ task = "ready" ~> task = "over"
     /\ waiting > 0 ~> waiting = 0
=============================================================================
