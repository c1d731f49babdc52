------------------------------- MODULE Ingestion -------------------------------
(***************************************************************************)
(* The ingestion API: run_server, the handler of POST /v1/transactions and *)
(* ProducerService (pipelines/ingestion/api/producer.py) with the          *)
(* DLQProducer (ingestion/shared/dlq_producer.py) and the connection to    *)
(* the schema registry (ingestion/shared/schema_registry.py).              *)
(*                                                                         *)
(* The server handles one request at a time.  A transaction is accepted    *)
(* when it is in the memory of the Kafka producer; whether it reaches the  *)
(* topic shows later.  The report of a delivery that failed waits for the  *)
(* poll of a later publish, or for the flush of an orderly stop, and       *)
(* becomes a dead letter without the payload.  The DLQ producer has a      *)
(* memory of its own, which nothing flushes.                               *)
(*                                                                         *)
(* A request is known by its number, its payload by what the checks make   *)
(* of it.  A client may send anything again: a request of its own.         *)
(*                                                                         *)
(* Ghost variables: stored, event, letter (where the event and the dead    *)
(* letter of each request are) and ended (requests of earlier processes).  *)
(***************************************************************************)
EXTENDS Integers, Sequences

CONSTANTS Retries,        \* SCHEMA_REGISTRY_RETRIES: 5
          MaxPosts,       \* bound on the requests of a behaviour
          MaxProcesses    \* bound on the times the server is started

ASSUME IngestionAssumption ==
  Retries \in Nat /\ MaxPosts \in Nat /\ MaxProcesses \in Nat

VARIABLES server,      \* "down", "connecting", "up" or "flushing"
          attempt,     \* failed attempts to reach the schema registry
          processes,   \* times the server was started
          posts,       \* request -> what its client has
          answer,      \* the answer to the last request that is to be written
          event,       \* request -> where its event is
          letter,      \* request -> where its dead letter is
          stored,      \* requests whose event is in the topic
          ended

process == <<server, attempt, processes, ended>>
requests == <<posts, answer>>
records == <<event, letter, stored>>
ingestVars == <<process, requests, records>>

\* What the client has: nothing yet, an answer, or a closed connection.
Outcome == {"waiting", "200", "400", "404", "500", "closed"}

\* "memory": in the producer; "delivered": acknowledged; "failed": given up, its
\* callback has not run; "reported": it has; "lost": the process ended before.
Place == {"none", "memory", "delivered", "failed", "reported", "lost"}

\* "failed": it was not produced or not delivered, which only the log tells.
LetterPlace == {"none", "memory", "delivered", "failed", "lost"}

IngestInit ==
  /\ server = "down" /\ attempt = 0 /\ processes = 0 /\ ended = 0
  /\ posts = <<>> /\ answer = ""
  /\ event = <<>> /\ letter = <<>> /\ stored = {}

-----------------------------------------------------------------------------
\* ProducerService.start.
StartServer ==
  /\ server = "down"
  /\ processes < MaxProcesses
  /\ processes' = processes + 1
  /\ server' = "connecting"
  /\ attempt' = 0
  /\ UNCHANGED <<ended, requests, records>>

\* connect_with_retry succeeds, and so does the rest of start.
RegistryAnswers ==
  /\ server = "connecting"
  /\ attempt < Retries
  /\ server' = "up"
  /\ UNCHANGED <<attempt, processes, ended, requests, records>>

\* Another attempt later, or RuntimeError and the end of the process.
RegistryFails ==
  /\ server = "connecting"
  /\ attempt' = attempt + 1
  /\ server' = IF attempt' < Retries THEN "connecting" ELSE "down"
  /\ UNCHANGED <<processes, ended, requests, records>>

-----------------------------------------------------------------------------
\* A request is handled up to its answer.
Post(code) ==
  /\ server = "up"
  /\ answer = ""
  /\ Len(posts) < MaxPosts
  /\ posts' = Append(posts, "waiting")
  /\ answer' = code
  /\ UNCHANGED process

\* What the checks of the fields end in: an error (400), or an exception nobody
\* handles, which closes the connection (an event_time that is no number).
CheckFails == {"400", "closed"}

\* Not a transaction: another path, no JSON, no object, a channel, a field that is
\* missing or has an impossible value.
PostInvalid ==
  /\ \E code \in CheckFails \cup {"404"} : Post(code)
  /\ event' = Append(event, "none")
  /\ letter' = Append(letter, "none")
  /\ UNCHANGED stored

\* InvalidPANError (400), MaskingError or a number that looks like a PAN in some
\* field (500): dead-lettered without PAN and IP, if the DLQ producer takes it.
PostUnmaskable ==
  /\ Post("400") \/ Post("500")
  /\ event' = Append(event, "none")
  /\ \E place \in {"memory", "failed"} : letter' = Append(letter, place)
  /\ UNCHANGED stored

\* Any other exception of building, serialising or producing (queue full): no
\* dead letter.
PostFails ==
  /\ Post("500")
  /\ event' = Append(event, "none")
  /\ letter' = Append(letter, "none")
  /\ UNCHANGED stored

Failed(e) == {n \in DOMAIN e : e[n] = "failed"}

\* Mutant: the callback looks at err the wrong way round.
ServeReportsSilently(e, l) ==
  /\ event' = [n \in DOMAIN e |-> IF e[n] = "failed" THEN "reported" ELSE e[n]]
  /\ letter' = l

\* poll: _delivery_callback for every failure that waits, a dead letter for each,
\* if the DLQ producer takes it.
ServeReports(e, l) ==
  /\ event' = [n \in DOMAIN e |-> IF e[n] = "failed" THEN "reported" ELSE e[n]]
  /\ \E taken \in SUBSET Failed(e) :
       letter' = [n \in DOMAIN l |->
         CASE n \in taken -> "memory"
           [] n \in Failed(e) \ taken -> "failed"
           [] OTHER -> l[n]]

\* produce, then poll(0), which serves the reports of earlier requests.
PostPublished ==
  /\ Post("200")
  /\ ServeReports(Append(event, "memory"), Append(letter, "none"))
  /\ UNCHANGED stored

\* _respond: the answer is written, or the client has gone; a second attempt,
\* with a 500, finds the same closed connection.
Respond ==
  /\ answer # ""
  /\ \E outcome \in {answer, "closed"} :
       posts' = [posts EXCEPT ![Len(posts)] = outcome]
  /\ answer' = ""
  /\ UNCHANGED <<process, records>>

-----------------------------------------------------------------------------
\* The broker acknowledges an event.
EventDelivered ==
  /\ \E n \in DOMAIN event :
       /\ event[n] = "memory"
       /\ event' = [event EXCEPT ![n] = "delivered"]
       /\ stored' = stored \cup {n}
  /\ UNCHANGED <<process, requests, letter>>

\* delivery.timeout.ms is over; the broker may have it, its answer lost.
EventTimesOut ==
  /\ \E n \in DOMAIN event :
       /\ event[n] = "memory"
       /\ event' = [event EXCEPT ![n] = "failed"]
       /\ stored' \in {stored, stored \cup {n}}
  /\ UNCHANGED <<process, requests, letter>>

\* A dead letter reaches its topic or not; it has no callback.
LetterSent ==
  /\ \E n \in DOMAIN letter, place \in {"delivered", "failed"} :
       /\ letter[n] = "memory"
       /\ letter' = [letter EXCEPT ![n] = place]
  /\ UNCHANGED <<process, requests, event, stored>>

\* The connection of a request that is being handled is closed.
CloseConnection ==
  /\ posts' = IF answer = "" THEN posts ELSE [posts EXCEPT ![Len(posts)] = "closed"]
  /\ answer' = ""

\* KeyboardInterrupt, in a request or between two: run_server flushes.
Interrupt ==
  /\ server = "up"
  /\ server' = "flushing"
  /\ CloseConnection
  /\ UNCHANGED <<attempt, processes, ended, records>>

\* flush serves reports as well.
FlushPolls ==
  /\ server = "flushing"
  /\ Failed(event) # {}
  /\ ServeReports(event, letter)
  /\ UNCHANGED <<process, requests, stored>>

\* The process ends, after the flush (done or timed out after five seconds) or
\* killed at any moment: what is in memory is gone.
ProcessEnds ==
  /\ server # "down"
  /\ server' = "down"
  /\ CloseConnection
  /\ event' = [n \in DOMAIN event |->
                 IF event[n] \in {"memory", "failed"} THEN "lost" ELSE event[n]]
  /\ letter' = [n \in DOMAIN letter |->
                  IF letter[n] = "memory" THEN "lost" ELSE letter[n]]
  /\ ended' = Len(posts)
  /\ UNCHANGED <<attempt, processes, stored>>

IngestNext ==
  \/ StartServer
  \/ RegistryAnswers
  \/ RegistryFails
  \/ PostInvalid
  \/ PostUnmaskable
  \/ PostFails
  \/ PostPublished
  \/ Respond
  \/ EventDelivered
  \/ EventTimesOut
  \/ LetterSent
  \/ Interrupt
  \/ FlushPolls
  \/ ProcessEnds

-----------------------------------------------------------------------------
IngestTypeOK ==
  /\ server \in {"down", "connecting", "up", "flushing"}
  /\ attempt \in 0 .. Retries + 1
  /\ processes \in 0 .. MaxProcesses
  /\ posts \in Seq(Outcome) /\ Len(posts) <= MaxPosts
  /\ answer \in Outcome \cup {""}
  /\ event \in Seq(Place) /\ Len(event) = Len(posts)
  /\ letter \in Seq(LetterPlace) /\ Len(letter) = Len(posts)
  /\ stored \subseteq 1 .. Len(posts)
  /\ ended \in 0 .. Len(posts)

\* What the API says is so, whatever happens later.  A client that is refused, by
\* a check, by the masking or by an error, can send again without making a
\* duplicate; one that is told "accepted" finds its event in the topic, or it
\* waits in a living process, or its failure was made a dead letter (which may
\* fail in turn), or the process that had it ended (producer.py 236-324, 402-474).
AnswersHonest ==
  \A n \in DOMAIN posts :
    /\ posts[n] \in {"400", "404", "500"} => event[n] = "none" /\ n \notin stored
    /\ posts[n] = "200" =>
         \/ n \in stored
         \/ event[n] \in {"memory", "failed"} /\ server # "down" /\ n > ended
         \/ event[n] = "reported" /\ letter[n] # "none"
         \/ event[n] = "lost" /\ n <= ended
================================================================================
