------------------------------- MODULE Services -------------------------------
(***************************************************************************)
(* The services around the pipeline, side by side: the calls of the ML     *)
(* model, the online features, the live feed of the dashboard, the metrics *)
(* bridge, the ingestion API and the replay job of the management API.     *)
(*                                                                         *)
(* They run in processes of their own, or in threads that share nothing,   *)
(* and every property below speaks of one of them.  A behaviour of all is  *)
(* an interleaving of a behaviour of each, so it suffices to let one run   *)
(* at a time: focus says which, and the others stay as they are initially. *)
(***************************************************************************)
EXTENDS ModelCalls, FeatureServing, AlertFeed, MetricsBridge, Ingestion, Replay

VARIABLE focus   \* the service that runs

Service == {"model", "features", "feed", "bridge", "ingestion", "replay"}

allVars == <<focus, modelVars, servingVars, feedVars, bridgeVars, ingestVars, replayVars>>

\* What a replay that never runs would read is of no account.
PausedReplay == CHOOSE pair \in Logs \X Configs : TRUE

ServicesInit ==
  /\ focus \in Service
  /\ ModelInit /\ ServingInit /\ FeedInit /\ BridgeInit /\ IngestInit
  /\ ReplayInit /\ (focus # "replay" => <<log, config>> = PausedReplay)

\* A step A of service s, over its variables; the others pause.
Only(s, A, others) == focus = s /\ A /\ UNCHANGED <<focus, others>>

OfModel(A) ==
  Only("model", A, <<servingVars, feedVars, bridgeVars, ingestVars, replayVars>>)
OfServing(A) ==
  Only("features", A, <<modelVars, feedVars, bridgeVars, ingestVars, replayVars>>)
OfFeed(A) ==
  Only("feed", A, <<modelVars, servingVars, bridgeVars, ingestVars, replayVars>>)
OfBridge(A) ==
  Only("bridge", A, <<modelVars, servingVars, feedVars, ingestVars, replayVars>>)
OfIngestion(A) ==
  Only("ingestion", A, <<modelVars, servingVars, feedVars, bridgeVars, replayVars>>)
OfReplay(A) ==
  Only("replay", A, <<modelVars, servingVars, feedVars, bridgeVars, ingestVars>>)

ServicesNext ==
  \/ OfModel(ModelNext)
  \/ OfServing(ServingNext)
  \/ OfFeed(FeedNext)
  \/ OfBridge(BridgeNext)
  \/ OfIngestion(IngestNext)
  \/ OfReplay(ReplayNext)

\* Only waits that have a timeout end by themselves.  The consumer threads poll with
\* one and stop() joins with one; the replay job's steps are those of ReplaySpec.
\* The model, the store, the pool's thread and the registry may hang for ever.
ThreadsRun ==
  /\ WF_allVars(OfFeed(FeedThreadStep))
  /\ \A t \in BridgeThread : WF_allVars(OfBridge(ThreadEnds(t)))
  /\ WF_allVars(OfBridge(Join \/ StopReturns))

ReplayRuns ==
  /\ WF_allVars(OfReplay(PromptStep))
  /\ WF_allVars(OfReplay(Cancel))

ServicesSpec == ServicesInit /\ [][ServicesNext]_allVars /\ ThreadsRun /\ ReplayRuns

-----------------------------------------------------------------------------
\* Every service keeps its data in its types, the bounded queue included.
ServicesTypeOK ==
  /\ focus \in Service
  /\ ModelTypeOK /\ ServingTypeOK /\ FeedTypeOK /\ BridgeTypeOK /\ IngestTypeOK
  /\ ReplayTypeOK

\* A feed that is stopped ends its thread, through errors and a full queue, unless
\* it is started again, which is too early when start() finds the thread alive: it
\* does nothing then (kafka_consumer.py 112-122, 174-222).  After a call of stop()
\* the threads of the bridge end, those included that stop() gave up waiting for,
\* unless start() revives them (kafka_metrics_bridge.py 250-256).
StoppedThreadsEnd ==
  /\ feedStop ~> (feedThread = "none")
  /\ \A n \in 0 .. MaxBridgeStarts :
       (bridgeStop /\ bridgeStarts = n) ~> (alive = {} \/ bridgeStarts > n)
===============================================================================
