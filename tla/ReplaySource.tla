----------------------------- MODULE ReplaySource -----------------------------
(***************************************************************************)
(* The three source adapters of the replay job                             *)
(* (pipelines/replay/source_adapters.py): a Kafka partition read between   *)
(* two offsets, a dead letter topic read from its beginning up to a number *)
(* of messages, and an Iceberg table read from one query.                  *)
(*                                                                         *)
(* A source is a log of messages that others append to while it is read.   *)
(* A message is its kind, what the adapter's parsing makes of it:          *)
(*   ok      parsed, of the topic and the time asked for                   *)
(*   alien   parsed, of another topic or time                              *)
(*   bad     parsed, but the payload is not an object                      *)
(*   broken  has no value the parser can handle                            *)
(* Offsets start at 0: the message at offset o is log[o + 1].              *)
(***************************************************************************)
EXTENDS Integers, Sequences, FiniteSets

Kind == {"ok", "alien", "bad", "broken"}
Source == {"kafka", "dlq", "iceberg"}

\* KafkaSourceConfig, DLQSourceConfig, IcebergSourceConfig: start and end are the
\* offsets of the Kafka source (end < 0: up to the latest), max the limit of the
\* dead letter source.  None of them is checked, and a negative start means to the
\* consumer a place in the log that it looks up (-2 the beginning, -1 the end).
Config == [source : Source, start : Int, end : Int, max : Int]

\* What the body of iter_events makes of a message: an event that can be scored,
\* one whose scoring raises, nothing, or an exception that ends the iteration.
\* The Kafka source filters nothing; a message without a value raises in both
\* topics; a dead letter that is not an object raises in value.get.  A row is
\* always an object, and one that cannot be converted is left out.
Reading(source, kind) ==
  CASE source = "kafka"   -> [ok |-> "event", alien |-> "event",
                              bad |-> "poison", broken |-> "raise"][kind]
    [] source = "dlq"     -> [ok |-> "event", alien |-> "nothing",
                              bad |-> "poison", broken |-> "raise"][kind]
    [] source = "iceberg" -> [ok |-> "event", alien |-> "nothing",
                              bad |-> "event", broken |-> "nothing"][kind]

\* The offset at which the iteration stops, fixed when it begins: the end of the
\* range, the high watermark (end_offset as it is if there is none) or the rows of
\* the query.
EndsOfRange(config, log) ==
  CASE config.source # "kafka" -> {Len(log)}
    [] config.source = "kafka" ->
         IF config.end >= 0 THEN {config.end} ELSE {config.end, Len(log)}

\* get_event_count: what total_events can become.  Whatever fails makes it 0; the
\* count of a snapshot is that of the whole table; the dead letter consumer may
\* not have its partitions yet.
EventCounts(config, log) ==
  LET size(n) == IF n < 0 THEN 0 ELSE n
  IN  CASE config.source = "kafka" ->
             IF config.end >= 0 THEN {size(config.end - config.start)}
             ELSE {0, size(Len(log) - config.start)}
        [] config.source = "dlq" ->
             {0, IF Len(log) < config.max THEN Len(log) ELSE config.max}
        [] config.source = "iceberg" ->
             {0, Len(log),
              Cardinality({i \in DOMAIN log : Reading("iceberg", log[i]) = "event"})}

\* Where the consumer is once it has counted: the poll that waits for the
\* assignment of the dead letter topic may return, and drop, the first message.
FirstPositions(config, log) ==
  CASE config.source = "kafka"   -> {config.start}
    [] config.source = "dlq"     -> IF log = <<>> THEN {0} ELSE {0, 1}
    [] config.source = "iceberg" -> {0}

\* The offsets of the messages the next poll can return.  The Kafka source may ask
\* for a position that is none: one after the end of the log is reset to the
\* earliest message (auto.offset.reset), a negative one may be any place.
NextOffsets(config, log, cursor) ==
  CASE config.source = "kafka" /\ cursor < 0        -> 0 .. Len(log) - 1
    [] config.source = "kafka" /\ cursor > Len(log) -> {0}
    [] OTHER                                        -> {cursor}
=============================================================================
