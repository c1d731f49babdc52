------------------------------- MODULE Pipeline -------------------------------
(***************************************************************************)
(* The enrichment job as a whole (pipelines/processing/job.py): the source *)
(* with deserialisation, deduplication and velocity, the network between   *)
(* them and the rest, and the two things the rest puts out: the enriched   *)
(* record, by Flink's own Kafka sink, and the alert, by AlertSinks.        *)
(*                                                                         *)
(* A checkpoint is a barrier that the source puts into the stream together *)
(* with a snapshot of its position and of the deduplication state; it is   *)
(* complete when the sinks have seen the barrier.  Flink's sink publishes  *)
(* what it holds before it lets the barrier through; the alert sinks know  *)
(* nothing of checkpoints.  A job that stops resumes from the last         *)
(* complete checkpoint.  A checkpoint that is aborted changes nothing.     *)
(*                                                                         *)
(* Velocity, DeviceProfile, IcebergSink and RuleEngine are the modules of  *)
(* what happens in between.  Here it matters that an event may be rejected *)
(* as late, after deduplication, and which transactions raise an alert.    *)
(*                                                                         *)
(* Ghost variables: late (positions rejected as late) and age (ticks since *)
(* the deduplication first saw the transaction, up to the TTL).            *)
(***************************************************************************)
EXTENDS AlertSinks

CONSTANTS Suspicious,   \* the transactions whose evaluation raises an alert
          OutOfOrder,   \* the positions whose event is behind earlier ones
          SeenTTL,      \* 48 h, in ticks
          WireCap,      \* elements the network buffers hold
          MaxRestarts   \* bound on the restarts of the job

ASSUME PipelineAssumption ==
  /\ Suspicious \subseteq Txn
  /\ OutOfOrder \subseteq Position
  /\ SeenTTL \in Nat \ {0}
  /\ WireCap \in Nat \ {0}
  /\ MaxRestarts \in Nat

VARIABLES status,     \* "up", "failing" (a function raised) or "down"
          next,       \* the position the source reads next
          seen,       \* dedup_seen_at: ticks until the entry expires, 0 if none
          wire,       \* the positions on their way, and the barrier
          taken,      \* the snapshot of the barrier on the wire, if there is one
          ckpt,       \* the last complete checkpoint
          restarts,   \* times the job stopped
          outbox,     \* enriched records Flink's sink has not published yet
          enriched,   \* positions in the output topic
          late,
          age

reading == <<next, seen>>
output == <<outbox, enriched>>
vars == <<status, reading, wire, taken, ckpt, restarts, output, late, age, alertVars>>

Barrier == 0
Unseen == [t \in Txn |-> 0]
Snapshot == [next : 1 .. Len(Stream) + 1, seen : [Txn -> 0 .. SeenTTL]]
Empty == [next |-> 1, seen |-> Unseen]

Init ==
  /\ status = "down"
  /\ next = 1 /\ seen = Unseen
  /\ wire = <<>>
  /\ taken = Empty
  /\ ckpt = Empty
  /\ restarts = 0
  /\ outbox = {} /\ enriched = {}
  /\ late = {} /\ age = Unseen
  /\ AlertInit

-----------------------------------------------------------------------------
\* Mutant: the deduplication starts empty.
OpenForgetting ==
  /\ status = "down"
  /\ status' = "up"
  /\ next' = ckpt.next
  /\ seen' = Unseen
  /\ UNCHANGED <<wire, taken, ckpt, restarts, output, late, age, alertVars>>

\* The job starts, from the last complete checkpoint.
Open ==
  /\ status = "down"
  /\ status' = "up"
  /\ next' = ckpt.next
  /\ seen' = ckpt.seen
  /\ UNCHANGED <<wire, taken, ckpt, restarts, output, late, age, alertVars>>

\* Mutant: the source does not wait for the network.
ReadAhead ==
  /\ status = "up"
  /\ next <= Len(Stream)
  /\ next' = next + 1
  /\ UNCHANGED <<status, taken, ckpt, restarts, output, alertVars>>

\* The source reads the next message while the network takes more.
Read ==
  /\ status = "up"
  /\ next <= Len(Stream)
  /\ Len(wire) < WireCap
  /\ next' = next + 1
  /\ UNCHANGED <<status, taken, ckpt, restarts, output, alertVars>>

\* deserialise_with_dlq: the record for the DLQ is built and goes nowhere.
ReadMalformed ==
  /\ Read
  /\ Stream[next] = Malformed
  /\ UNCHANGED <<seen, wire, late, age>>

\* TransactionDedup: seen before.
ReadDuplicate ==
  /\ Read
  /\ Stream[next] \in Txn
  /\ seen[Stream[next]] > 0
  /\ UNCHANGED <<seen, wire, late, age>>

\* TransactionDedup: not seen before.
FirstSeen(t) ==
  /\ Read
  /\ Stream[next] = t
  /\ seen[t] = 0
  /\ seen' = [seen EXCEPT ![t] = SeenTTL]
  /\ age' = [age EXCEPT ![t] = IF @ = 0 THEN 1 ELSE @]

\* The velocity operator rejects the event as late, if the watermark is that far;
\* nobody collects its side output.
ReadLate(t) ==
  /\ FirstSeen(t)
  /\ next \in OutOfOrder
  /\ late' = late \cup {next}
  /\ UNCHANGED wire

ReadNew(t) ==
  /\ FirstSeen(t)
  /\ wire' = Append(wire, next)
  /\ UNCHANGED late

\* The source takes its part of a checkpoint, one at a time.
TriggerCheckpoint ==
  /\ status = "up"
  /\ \A i \in 1 .. Len(wire) : wire[i] # Barrier
  /\ taken' = [next |-> next, seen |-> seen]
  /\ wire' = Append(wire, Barrier)
  /\ UNCHANGED <<status, reading, ckpt, restarts, output, late, age, alertVars>>

-----------------------------------------------------------------------------
\* The sinks are done with the element before and take the next one.
Arrives(p) ==
  /\ status = "up"
  /\ handling = 0
  /\ wire # <<>>
  /\ p = Head(wire)
  /\ wire' = Tail(wire)
  /\ UNCHANGED <<reading, restarts, late, age>>

Transaction(p) ==
  /\ Arrives(p)
  /\ p # Barrier
  /\ UNCHANGED taken

\* The evaluation finds nothing.
HandleClean(p) ==
  /\ Transaction(p)
  /\ Stream[p] \notin Suspicious
  /\ outbox' = outbox \cup {p}
  /\ UNCHANGED <<status, ckpt, enriched, alertVars>>

\* The evaluation raises an alert, which the Kafka sink takes.
HandleAlert(p) ==
  /\ Transaction(p)
  /\ Stream[p] \in Suspicious
  /\ outbox' = outbox \cup {p}
  /\ Emit(p)
  /\ UNCHANGED <<status, ckpt, enriched>>

\* Mutant: whatever emit raises is logged.
EmitRaisesCaught(p) ==
  /\ Transaction(p)
  /\ Stream[p] \in Suspicious
  /\ outbox' = outbox \cup {p}
  /\ handling' = p
  /\ UNCHANGED <<status, ckpt, enriched, producer, topics, rows, unreported, lost>>

\* The producer's queue is full or broken: the exception fails the job.  The record
\* may have reached the output before the alert's operator.
EmitRaises(p) ==
  /\ Transaction(p)
  /\ Stream[p] \in Suspicious
  /\ status' = "failing"
  /\ outbox' \in {outbox, outbox \cup {p}}
  /\ UNCHANGED <<ckpt, enriched, alertVars>>

PersistAlert ==
  /\ status = "up"
  /\ Persist
  /\ UNCHANGED <<status, reading, wire, taken, ckpt, restarts, output, late, age>>

\* Mutant: DeliveryGuarantee.NONE.
CompleteUnflushed ==
  /\ Arrives(Barrier)
  /\ ckpt' = taken
  /\ taken' = Empty
  /\ UNCHANGED <<status, output, alertVars>>

\* The barrier arrives: Flink's sink publishes what it holds (AT_LEAST_ONCE) and
\* the checkpoint is complete.
CompleteCheckpoint ==
  /\ Arrives(Barrier)
  /\ ckpt' = taken
  /\ taken' = Empty
  /\ enriched' = enriched \cup outbox
  /\ outbox' = {}
  /\ UNCHANGED <<status, alertVars>>

\* Flink's sink publishes in the background as well.
PublishEnriched(p) ==
  /\ status = "up"
  /\ p \in outbox
  /\ outbox' = outbox \ {p}
  /\ enriched' = enriched \cup {p}
  /\ UNCHANGED <<status, reading, wire, taken, ckpt, restarts, late, age, alertVars>>

DeliverAlert(m) ==
  /\ status \in {"up", "failing"}
  /\ DeliverySucceeds(m) \/ DeliveryFails(m)
  /\ UNCHANGED <<status, reading, wire, taken, ckpt, restarts, output, late, age>>

-----------------------------------------------------------------------------
\* What is on its way is gone, read again from the checkpoint.
Stop ==
  /\ status \in {"up", "failing"}
  /\ restarts < MaxRestarts
  /\ status' = "down"
  /\ restarts' = restarts + 1
  /\ seen' = Unseen
  /\ wire' = <<>>
  /\ taken' = Empty
  /\ outbox' = {}
  /\ UNCHANGED <<next, ckpt, enriched, late, age>>

\* The job is cancelled or fails in an orderly way: the sinks are closed.
Close == Stop /\ CloseSinks

\* The process dies; what comes before the checkpoint is not read again.
Crash == Stop /\ CrashSinks(1 .. ckpt.next - 1)

\* Processing time, for the TTL of the deduplication state, saved or not.
Earlier(entries) == [t \in Txn |-> IF entries[t] > 0 THEN entries[t] - 1 ELSE 0]

Tick ==
  /\ seen' = Earlier(seen)
  /\ taken' = [next |-> taken.next, seen |-> Earlier(taken.seen)]
  /\ ckpt' = [next |-> ckpt.next, seen |-> Earlier(ckpt.seen)]
  /\ age' = [t \in Txn |-> IF age[t] \in 1 .. SeenTTL THEN age[t] + 1 ELSE age[t]]
  /\ UNCHANGED <<status, next, wire, restarts, output, late, alertVars>>

Next ==
  \/ Open
  \/ ReadMalformed
  \/ ReadDuplicate
  \/ \E t \in Txn : ReadLate(t) \/ ReadNew(t)
  \/ TriggerCheckpoint
  \/ \E p \in Position :
       \/ HandleClean(p)
       \/ HandleAlert(p)
       \/ EmitRaises(p)
       \/ PublishEnriched(p)
  \/ PersistAlert
  \/ CompleteCheckpoint
  \/ \E m \in Message : DeliverAlert(m)
  \/ Close
  \/ Crash
  \/ Tick

Spec == Init /\ [][Next]_vars

-----------------------------------------------------------------------------
\* Types, and the bound of the network buffers, barrier included.
TypeOK ==
  /\ AlertTypeOK
  /\ status \in {"up", "failing", "down"}
  /\ next \in 1 .. Len(Stream) + 1
  /\ seen \in [Txn -> 0 .. SeenTTL]
  /\ wire \in Seq(Position \cup {Barrier}) /\ Len(wire) <= WireCap + 1
  /\ taken \in Snapshot
  /\ ckpt \in Snapshot
  /\ restarts \in 0 .. MaxRestarts
  /\ outbox \subseteq Position /\ enriched \subseteq Position
  /\ late \subseteq Position
  /\ age \in [Txn -> 0 .. SeenTTL + 1]

\* An output is repeated for another message of the transaction only after the TTL
\* of the deduplication state, however often the job was stopped and resumed
\* (enricher.py 97-120).  A message itself may be put out again by a restart.
OncePerTTL ==
  \A p, q \in outbox \cup enriched :
    (p # q /\ Stream[p] = Stream[q]) => age[Stream[p]] > SeenTTL

\* The source does not read this again, as long as the job runs or once it stopped.
Passed(p) == p < IF status = "up" THEN next ELSE ckpt.next

\* An alert is missing for two reasons only.  For every suspicious transaction the
\* source has passed, by this message or an earlier one of the same transaction, the
\* alert is on its way, in memory or in a topic, or its failure is known; or else the
\* event was rejected as late, or the process died after a checkpoint with the alert
\* in the producer's memory (alert_kafka.py 103-157, job_extension.py 110-139).
AlertsAccounted ==
  \A p \in Position : (Passed(p) /\ Stream[p] \in Suspicious) =>
    \E q \in 1 .. p : /\ Stream[q] = Stream[p]
                      /\ \/ Accounted(q)
                         \/ q \in late
                         \/ \E i \in 1 .. Len(wire) : wire[i] = q

\* "Alerts MUST NOT be silently dropped" and "every flagged transaction produces at
\* least one alert record" (specs/003, FR-010 and SC-006): as above, and a crash is no
\* excuse.  A transaction that is late is never evaluated, hence not flagged.
AlertsNeverDropped ==
  \A p \in Position : (Passed(p) /\ Stream[p] \in Suspicious) =>
    \E q \in 1 .. p : /\ Stream[q] = Stream[p]
                      /\ \/ q \in InMemory \cup alerts \cup dlq \cup unreported
                         \/ q \in late
                         \/ \E i \in 1 .. Len(wire) : wire[i] = q

\* A row is written only for an alert that the Kafka sink was given first and that
\* is still in memory or in a topic, or whose failure is known: a full producer
\* queue fails the job instead (job_extension.py 110-133).
RowAfterEmission ==
  [][\A t \in rows' \ rows : \E p \in Position : Stream[p] = t /\ Accounted(p)]_vars

\* The promise to the consumers of the output: lateness counts as an output.
Promise == INSTANCE AtLeastOnce
  WITH committed <- ckpt.next - 1,
       done <- {Stream[p] : p \in enriched \cup late}

PublishesAtLeastOnce == Promise!Spec
=============================================================================
