------------------------------ MODULE MCReplay ------------------------------
EXTENDS Replay

\* Kafka ranges: closed, up to the latest offset, empty, beyond the end of the log,
\* from a place the consumer looks up.
Kafka(first, last) == [source |-> "kafka", start |-> first, end |-> last, max |-> 0]

MCConfigs ==
  {Kafka(0, 2), Kafka(1, 3), Kafka(1, -1), Kafka(2, 1), Kafka(3, 4), Kafka(-2, 2),
   [source |-> "dlq", start |-> 0, end |-> 0, max |-> 2],
   [source |-> "iceberg", start |-> 0, end |-> 0, max |-> 0]}

MCLogs == {<<>>, <<"ok", "bad">>, <<"alien", "ok">>, <<"broken">>, <<"ok", "ok", "ok">>,
           <<"bad", "alien", "ok", "ok">>}
=============================================================================
