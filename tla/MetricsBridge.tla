----------------------------- MODULE MetricsBridge -----------------------------
(***************************************************************************)
(* The life of the threads of kafka_metrics_bridge.py                      *)
(* (pipelines/processing): start() creates a thread that reads the alerts  *)
(* and one that reads the enriched transactions, stop() sets the event     *)
(* they look at between two polls, joins each for five seconds and forgets *)
(* them, ended or not.  start() called later clears the event under a      *)
(* thread that has not looked yet, which then goes on; and start() called  *)
(* while stop() joins has its threads forgotten with the old ones.         *)
(*                                                                         *)
(* The job starts the bridge from its main thread; stop() may come from    *)
(* another.  What the threads count are metrics, which are left out: the   *)
(* consumers of a topic share a group, so each message reaches one of      *)
(* them.                                                                   *)
(*                                                                         *)
(* Ghost variable: forgotten, the threads alive when stop() dropped them.  *)
(***************************************************************************)
EXTENDS Integers, FiniteSets

CONSTANTS MaxBridgeStarts   \* bound on the calls of start() that create threads

ASSUME BridgeAssumption == MaxBridgeStarts \in Nat

VARIABLES alive,        \* the threads that run
          threads,      \* _threads
          bridgeStop,   \* _stop_event
          bridgeStarts, \* times start() has created threads
          joining,      \* the list a call of stop() walks through
          stopping,     \* a call of stop() is under way
          forgotten

stopCall == <<joining, stopping, forgotten>>
bridgeVars == <<alive, threads, bridgeStop, bridgeStarts, stopCall>>

Topic == {"alerts", "enriched"}

\* A thread, by its topic and the call of start() that created it.
BridgeThread == Topic \X (1 .. MaxBridgeStarts)

BridgeInit ==
  /\ alive = {} /\ threads = {}
  /\ bridgeStop = FALSE /\ bridgeStarts = 0
  /\ joining = {} /\ stopping = FALSE /\ forgotten = {}

\* Mutant: a bridge with one dead thread is started again.
BridgeRunningBoth == threads # {} /\ threads \subseteq alive

\* any(t.is_alive() for t in _threads)
BridgeRunning == threads \cap alive # {}

\* _build_rule_family_map: without rules, or when the file cannot be read, the
\* thread of the enriched transactions returns at once.
Started(n) == {Topic \X {n}, {<<"alerts", n>>}}

\* start(), which does nothing if the bridge is running.
StartBridge ==
  /\ ~BridgeRunning
  /\ bridgeStarts < MaxBridgeStarts
  /\ bridgeStarts' = bridgeStarts + 1
  /\ bridgeStop' = FALSE
  /\ threads' = Topic \X {bridgeStarts'}
  /\ \E started \in Started(bridgeStarts') : alive' = alive \cup started
  /\ UNCHANGED stopCall

\* stop() sets the event and begins to join.
StopBridge ==
  /\ ~stopping
  /\ stopping' = TRUE
  /\ bridgeStop' = TRUE
  /\ joining' = threads
  /\ UNCHANGED <<alive, threads, bridgeStarts, forgotten>>

\* join(timeout=5.0) of one of them returns: it has ended or takes longer.
Join ==
  /\ \E t \in joining : joining' = joining \ {t}
  /\ UNCHANGED <<alive, threads, bridgeStop, bridgeStarts, stopping, forgotten>>

\* Mutant: the event is cleared for the next start().
StopReturnsClearing ==
  /\ stopping
  /\ joining = {}
  /\ stopping' = FALSE
  /\ bridgeStop' = FALSE
  /\ forgotten' = forgotten \cup (threads \cap alive)
  /\ threads' = {}
  /\ UNCHANGED <<alive, bridgeStarts, joining>>

\* ... and forgets what _threads is now.
StopReturns ==
  /\ stopping
  /\ joining = {}
  /\ stopping' = FALSE
  /\ forgotten' = forgotten \cup (threads \cap alive)
  /\ threads' = {}
  /\ UNCHANGED <<alive, bridgeStop, bridgeStarts, joining>>

\* Between two polls a thread finds the event set, closes its consumer and ends.
ThreadEnds(t) ==
  /\ t \in alive
  /\ bridgeStop
  /\ alive' = alive \ {t}
  /\ UNCHANGED <<threads, bridgeStop, bridgeStarts, stopCall>>

\* An exception that is not about a message: logged, counted, and the end.
ThreadDies ==
  /\ \E t \in alive : alive' = alive \ {t}
  /\ UNCHANGED <<threads, bridgeStop, bridgeStarts, stopCall>>

BridgeNext ==
  \/ StartBridge
  \/ StopBridge
  \/ Join
  \/ StopReturns
  \/ \E t \in BridgeThread : ThreadEnds(t)
  \/ ThreadDies

-----------------------------------------------------------------------------
BridgeTypeOK ==
  /\ alive \subseteq BridgeThread
  /\ threads \subseteq BridgeThread
  /\ bridgeStop \in BOOLEAN
  /\ bridgeStarts \in 0 .. MaxBridgeStarts
  /\ joining \subseteq BridgeThread
  /\ stopping \in BOOLEAN
  /\ forgotten \subseteq BridgeThread

\* is_healthy()
BridgeHealthy == threads # {} /\ threads \subseteq alive

\* A topic has one reader, apart from those a stop() gave up waiting for, however
\* starts, stops and deaths of single threads follow one another, and a healthy
\* bridge has one for each (kafka_metrics_bridge.py 201-263).
OneReaderPerTopic ==
  /\ \A s, t \in alive \ forgotten : s[1] = t[1] => s = t
  /\ BridgeHealthy => \A x \in Topic : \E t \in alive \ forgotten : t[1] = x
================================================================================
