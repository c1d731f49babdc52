------------------------------- MODULE AlertFeed -------------------------------
(***************************************************************************)
(* The live feed of the dashboard: AnalyticsKafkaConsumer                  *)
(* (analytics/consumers/kafka_consumer.py), a thread that reads the topic  *)
(* txn.fraud.alerts into a bounded queue, and the page that empties it     *)
(* (analytics/app/pages/1_live_feed.py), once per session and refresh.     *)
(*                                                                         *)
(* Alerts are known by their offset in the topic's one partition.  The     *)
(* consumer group commits in the background what poll has returned, and    *)
(* once more when a consumer is closed, which may fail.  A group that has  *)
(* never committed starts at the end of the topic.  The lag gauge and the  *)
(* fields of an alert are left out; so is what a session makes of an alert *)
(* once it has taken it.                                                   *)
(*                                                                         *)
(* Ghost variables: received (the alerts poll returned, in that order),    *)
(* gone (how many of them have left the queue) and skipped (offsets that a *)
(* group without a commit has jumped over).                                *)
(***************************************************************************)
EXTENDS Integers, Sequences, SequencesExt

CONSTANTS FeedQueueMax,   \* QUEUE_MAX: 500
          MaxAlerts,      \* bound on the messages of the topic
          MaxFeedErrors,  \* bound on the errors that restart the consumer
          MaxFeedStarts   \* bound on the calls of start()

ASSUME FeedAssumption ==
  /\ FeedQueueMax \in Nat \ {0}
  /\ MaxAlerts \in Nat /\ MaxFeedErrors \in Nat /\ MaxFeedStarts \in Nat

VARIABLES topicEnd,    \* messages in the topic
          garbled,     \* offsets of those that cannot be decoded
          feedThread,  \* where the thread is
          feedStop,    \* _stop_event
          feedStarts,  \* calls of start()
          feedErrors,  \* errors so far
          position,    \* the offset poll returns next, 0 before the first
          polled,      \* poll has returned a message of this consumer
          committed,   \* of the group: the offset to go on from, 0 if none
          feedQueue,   \* queue
          received, gone, skipped

topic == <<topicEnd, garbled>>
group == <<position, polled, committed, skipped>>
calls == <<feedStop, feedStarts>>
feedVars == <<topic, feedThread, calls, feedErrors, group, feedQueue, received, gone>>

\* "none": no thread; "building": about to build a consumer; "polling": in poll;
\* "full": put_nowait has raised queue.Full; "sleeping": 2 s after an error;
\* "closing": leaving the loop.
FeedThread == {"none", "building", "polling", "full", "sleeping", "closing"}

FeedInit ==
  /\ topicEnd = 0 /\ garbled = {}
  /\ feedThread = "none" /\ feedStop = FALSE
  /\ feedStarts = 0 /\ feedErrors = 0
  /\ position = 0 /\ polled = FALSE /\ committed = 0
  /\ feedQueue = <<>>
  /\ received = <<>> /\ gone = 0 /\ skipped = {}

-----------------------------------------------------------------------------
\* A message is produced: an alert, or bytes that are none.
ProduceAlert ==
  /\ topicEnd < MaxAlerts
  /\ topicEnd' = topicEnd + 1
  /\ garbled' \in {garbled, garbled \cup {topicEnd'}}
  /\ UNCHANGED <<feedThread, calls, feedErrors, group, feedQueue, received, gone>>

FeedAlive == feedThread # "none"

\* start(): nothing if the thread is alive, stopping or not.
StartFeed ==
  /\ feedStarts < MaxFeedStarts
  /\ feedStarts' = feedStarts + 1
  /\ IF FeedAlive
       THEN UNCHANGED <<feedStop, feedThread>>
       ELSE feedStop' = FALSE /\ feedThread' = "building"
  /\ UNCHANGED <<topic, feedErrors, group, feedQueue, received, gone>>

StopFeed ==
  /\ ~feedStop
  /\ feedStop' = TRUE
  /\ UNCHANGED <<topic, feedThread, feedStarts, feedErrors, group, feedQueue, received, gone>>

-----------------------------------------------------------------------------
\* The head of the outer loop, without a consumer: the thread ends when stopped.
EndFeed ==
  /\ feedThread = "building"
  /\ feedStop
  /\ feedThread' = "none"
  /\ UNCHANGED <<topic, calls, feedErrors, group, feedQueue, received, gone>>

\* A consumer of the group, with auto.offset.reset "latest".
Subscribe ==
  /\ feedThread = "building"
  /\ ~feedStop
  /\ feedThread' = "polling"
  /\ polled' = FALSE
  /\ IF committed > 0
       THEN position' = committed /\ UNCHANGED skipped
       ELSE /\ position' = topicEnd + 1
            /\ skipped' = skipped \cup 1 .. topicEnd
  /\ UNCHANGED <<topic, calls, feedErrors, committed, feedQueue, received, gone>>

\* The inner loop is left when the thread is told to stop.
GoOn == feedThread' = IF feedStop THEN "closing" ELSE "polling"

\* poll returns None.
PollNone ==
  /\ feedThread = "polling"
  /\ GoOn
  /\ UNCHANGED <<topic, calls, feedErrors, group, feedQueue, received, gone>>

\* poll returns a message.
PollMessage ==
  /\ feedThread = "polling"
  /\ position <= topicEnd
  /\ position' = position + 1
  /\ polled' = TRUE

\* It cannot be decoded: logged.
PollGarbled ==
  /\ PollMessage
  /\ position \in garbled
  /\ GoOn
  /\ UNCHANGED <<topic, calls, feedErrors, committed, skipped, feedQueue, received, gone>>

\* put_nowait finds room.
PollAlert ==
  /\ PollMessage
  /\ position \notin garbled
  /\ received' = Append(received, position)
  /\ Len(feedQueue) < FeedQueueMax
  /\ feedQueue' = Append(feedQueue, position)
  /\ GoOn
  /\ UNCHANGED <<topic, calls, feedErrors, committed, skipped, gone>>

\* put_nowait raises queue.Full.
PollAlertFull ==
  /\ PollMessage
  /\ position \notin garbled
  /\ received' = Append(received, position)
  /\ Len(feedQueue) = FeedQueueMax
  /\ feedThread' = "full"
  /\ UNCHANGED <<topic, calls, feedErrors, committed, skipped, feedQueue, gone>>

\* Mutant: the alert that finds the queue full is dropped.
DropNewest ==
  /\ feedThread = "full"
  /\ GoOn
  /\ UNCHANGED <<topic, calls, feedErrors, group, feedQueue, received, gone>>

\* Mutant: the alert is put into a queue without a bound.
DropNothing ==
  /\ feedThread = "full"
  /\ feedQueue' = Append(feedQueue, Last(received))
  /\ GoOn
  /\ UNCHANGED <<topic, calls, feedErrors, group, received, gone>>

\* The oldest makes room, unless sessions have emptied the queue meanwhile; no
\* other thread puts, so the second put_nowait succeeds.
DropOldest ==
  /\ feedThread = "full"
  /\ feedQueue' = Append(IF feedQueue = <<>> THEN <<>> ELSE Tail(feedQueue), Last(received))
  /\ gone' = IF feedQueue = <<>> THEN gone ELSE gone + 1
  /\ GoOn
  /\ UNCHANGED <<topic, calls, feedErrors, group, received>>

\* poll returns an error, or anything else raises: the consumer stays open for
\* the two seconds.  (One that cannot be built is tried again, unchanged.)
FeedError ==
  /\ feedThread = "polling"
  /\ feedErrors < MaxFeedErrors
  /\ feedErrors' = feedErrors + 1
  /\ feedThread' = "sleeping"
  /\ UNCHANGED <<topic, calls, group, feedQueue, received, gone>>

\* finally: consumer.close(), which commits if it can.
CloseConsumer ==
  /\ feedThread \in {"sleeping", "closing"}
  /\ feedThread' = "building"
  /\ committed' \in {committed, IF polled THEN position ELSE committed}
  /\ UNCHANGED <<topic, calls, feedErrors, position, polled, skipped, feedQueue, received, gone>>

\* librdkafka commits in the background what poll has returned, if anything.
AutoCommit ==
  /\ feedThread \in {"polling", "full", "sleeping"}
  /\ polled
  /\ committed' = position
  /\ UNCHANGED <<topic, feedThread, calls, feedErrors, position, polled, skipped, feedQueue, received, gone>>

\* A session of the page takes the next alert.  A page that finds the thread dead
\* takes none, but a refresh that has begun goes on when it dies.
DrainOne ==
  /\ feedQueue # <<>>
  /\ feedQueue' = Tail(feedQueue)
  /\ gone' = gone + 1
  /\ UNCHANGED <<topic, feedThread, calls, feedErrors, group, received>>

FeedThreadStep ==
  \/ EndFeed
  \/ Subscribe
  \/ PollNone
  \/ PollGarbled
  \/ PollAlert
  \/ PollAlertFull
  \/ DropOldest
  \/ FeedError
  \/ CloseConsumer

FeedNext ==
  \/ ProduceAlert
  \/ StartFeed
  \/ StopFeed
  \/ FeedThreadStep
  \/ AutoCommit
  \/ DrainOne

-----------------------------------------------------------------------------
FeedTypeOK ==
  /\ topicEnd \in 0 .. MaxAlerts
  /\ garbled \subseteq 1 .. topicEnd
  /\ feedThread \in FeedThread
  /\ feedStop \in BOOLEAN
  /\ feedStarts \in 0 .. MaxFeedStarts
  /\ feedErrors \in 0 .. MaxFeedErrors
  /\ position \in 0 .. MaxAlerts + 1
  /\ polled \in BOOLEAN
  /\ committed \in 0 .. MaxAlerts + 1
  /\ feedQueue \in Seq(1 .. MaxAlerts) /\ Len(feedQueue) <= FeedQueueMax
  /\ received \in Seq(1 .. MaxAlerts)
  /\ gone \in 0 .. Len(received)
  /\ skipped \subseteq 1 .. MaxAlerts

\* The queue is the latest alerts received, in the order of the topic, less those
\* that sessions took or newer ones pushed out; and between the first offset the
\* group has read and its position nothing is missing, across errors, restarts
\* and commits that fail, but what a group without a commit jumps over
\* (kafka_consumer.py 174-222).
FeedKeepsNewest ==
  /\ LET inHand == IF feedThread = "full" THEN <<Last(received)>> ELSE <<>>
     IN  feedQueue \o inHand = SubSeq(received, gone + 1, Len(received))
  /\ \A o \in 1 .. position - 1 :
       o \in ToSet(received) \cup garbled \cup skipped
================================================================================
