------------------------------ MODULE AlertSinks ------------------------------
(***************************************************************************)
(* The two sinks of fraud alerts: AlertKafkaSink (pipelines/scoring/sinks/ *)
(* alert_kafka.py), AlertPostgresSink (alert_postgres.py), and             *)
(* _AlertSinkFunction (pipelines/scoring/job_extension.py), which gives an *)
(* alert to the one and then to the other.                                 *)
(*                                                                         *)
(* An alert is known by its position in the source.  The Kafka producer    *)
(* delivers in the background, from the memory of the process; the report  *)
(* of a delivery that failed waits there until the sink polls.  Nothing of *)
(* it is part of a checkpoint.                                             *)
(*                                                                         *)
(* persist pings its connection first and opens another one if it must, so *)
(* a connection that has died has no effect of its own: what is left is    *)
(* whether the database can be reached when it matters.                    *)
(*                                                                         *)
(* Ghost variables: unreported (alerts whose failure was only logged) and  *)
(* lost (alerts that a crash destroyed and nobody will raise again).       *)
(***************************************************************************)
EXTENDS Integers, Sequences, FiniteSets

CONSTANTS Txn,        \* transaction ids
          Malformed,  \* a message that is not a transaction
          Stream      \* the messages of the source

ASSUME StreamAssumption ==
  /\ Malformed \notin Txn
  /\ Stream \in Seq(Txn \cup {Malformed})

VARIABLES handling,    \* the position whose alert is between the two sinks, or 0
          inflight,    \* the messages in the producer
          failed,      \* failed deliveries whose callback has not run
          alerts,      \* positions in the topic txn.fraud.alerts
          dlq,         \* positions in txn.fraud.alerts.dlq
          rows,        \* transaction ids in the table fraud_alerts
          unreported,
          lost

producer == <<inflight, failed>>
topics == <<alerts, dlq>>
alertVars == <<handling, producer, topics, rows, unreported, lost>>

Position == 1 .. Len(Stream)
Message == [position : Position, topic : {"alerts", "dlq"}]

ToAlerts(p) == [position |-> p, topic |-> "alerts"]
ToDlq(p) == [position |-> p, topic |-> "dlq"]

\* The alerts that exist only in the memory of the process.
InMemory == failed \cup {m.position : m \in inflight}

AlertInit ==
  /\ handling = 0
  /\ inflight = {} /\ failed = {}
  /\ alerts = {} /\ dlq = {} /\ rows = {}
  /\ unreported = {} /\ lost = {}

-----------------------------------------------------------------------------
\* Mutant: the callback only logs, and not even that.
ServeCallbacksSilently(new) ==
  /\ inflight' = inflight \cup new
  /\ failed' = {}
  /\ UNCHANGED unreported

\* _on_delivery for the failed deliveries: each is produced to the DLQ topic, or
\* that fails too and is logged.  new: what the producer was just given.
ServeCallbacks(new) ==
  \E routed \in SUBSET failed :
    /\ inflight' = inflight \cup new \cup {ToDlq(p) : p \in routed}
    /\ unreported' = unreported \cup (failed \ routed)
    /\ failed' = {}

\* emit: the alert is produced and the callbacks that are due run (poll).
EmitProduced(p) ==
  /\ handling' = p
  /\ ServeCallbacks({ToAlerts(p)})
  /\ UNCHANGED <<topics, rows, lost>>

\* emit raises while it serialises: logged, and the row is still attempted.
EmitSkipped(p) ==
  /\ handling' = p
  /\ unreported' = unreported \cup {p}
  /\ UNCHANGED <<producer, topics, rows, lost>>

Emit(p) == EmitProduced(p) \/ EmitSkipped(p)

\* persist: the row is inserted, by the first attempt or by the retry, or is
\* committed by an attempt that lost its connection; inserting it again changes
\* nothing (ON CONFLICT).  Or the database cannot be reached, by the ping or by the
\* retry, or refuses the row.  Whatever is raised is logged.
Persist ==
  /\ handling # 0
  /\ handling' = 0
  /\ \/ rows' = rows \cup {Stream[handling]}
     \/ UNCHANGED rows
  /\ UNCHANGED <<producer, topics, unreported, lost>>

-----------------------------------------------------------------------------
\* The producer's background thread (librdkafka).
Delivered(m) ==
  /\ alerts' = IF m.topic = "alerts" THEN alerts \cup {m.position} ELSE alerts
  /\ dlq' = IF m.topic = "dlq" THEN dlq \cup {m.position} ELSE dlq

DeliverySucceeds(m) ==
  /\ m \in inflight
  /\ inflight' = inflight \ {m}
  /\ Delivered(m)
  /\ UNCHANGED <<handling, failed, rows, unreported, lost>>

\* The delivery is given up, though the broker may have the message.  For the DLQ
\* topic the callback only logs.
DeliveryFails(m) ==
  /\ m \in inflight
  /\ inflight' = inflight \ {m}
  /\ Delivered(m) \/ UNCHANGED topics
  /\ IF m.topic = "alerts"
       THEN failed' = failed \cup {m.position} /\ UNCHANGED unreported
       ELSE unreported' = unreported \cup {m.position} /\ UNCHANGED failed
  /\ UNCHANGED <<handling, rows, lost>>

\* close: flush waits for every delivery and runs the callbacks, whose messages it
\* waits for as well.  unsent: alerts whose delivery fails now; dead: those that do
\* not reach the DLQ topic either.  The alert between the sinks is not persisted.
InFlightTo(topic) == {m.position : m \in {n \in inflight : n.topic = topic}}

CloseSinks ==
  \E unsent \in SUBSET InFlightTo("alerts") :
    \E dead \in SUBSET (unsent \cup failed \cup InFlightTo("dlq")) :
      /\ alerts' = alerts \cup (InFlightTo("alerts") \ unsent)
      /\ dlq' = dlq \cup ((unsent \cup failed \cup InFlightTo("dlq")) \ dead)
      /\ unreported' = unreported \cup dead
      /\ inflight' = {} /\ failed' = {}
      /\ handling' = 0
      /\ UNCHANGED <<rows, lost>>

\* The process dies, and the alerts of the positions in gone will not be raised
\* again.
CrashSinks(gone) ==
  /\ lost' = lost \cup (InMemory \cap gone)
  /\ inflight' = {} /\ failed' = {}
  /\ handling' = 0
  /\ UNCHANGED <<topics, rows, unreported>>

AlertTypeOK ==
  /\ handling \in Position \cup {0}
  /\ inflight \subseteq Message
  /\ failed \subseteq Position
  /\ alerts \subseteq Position /\ dlq \subseteq Position
  /\ rows \subseteq Txn
  /\ unreported \subseteq Position /\ lost \subseteq Position

\* The alert of position p is in a topic or in memory, or its failure is known.
Accounted(p) == p \in InMemory \cup alerts \cup dlq \cup unreported \cup lost
=============================================================================
