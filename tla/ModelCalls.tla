------------------------------ MODULE ModelCalls ------------------------------
(***************************************************************************)
(* Calls of the ML model: MLCircuitBreaker.score_with_fallback             *)
(* (pipelines/scoring/circuit_breaker.py) and the management API's report  *)
(* of the breaker (get_circuit_breaker_state in management_api.py).        *)
(*                                                                         *)
(* Every call is handed to a pool of one thread, which asks the breaker    *)
(* and then the model when it gets to the call.  The caller waits for the  *)
(* probe timeout and takes the fallback then, but nothing cancels the      *)
(* call: it stays in the pool's queue or goes on in the model, and its     *)
(* outcome still counts for the breaker.  The model may never return.      *)
(*                                                                         *)
(* While the pool's thread is in a trial call pybreaker is half-open.  It  *)
(* opens first and tells the listener then, with the states' names, as the *)
(* listener's signature and tests have it; a tick is much longer than the  *)
(* time between the two.  The API reads the breaker first and the listener *)
(* after it, from another thread.  The scores, and the counts and times of *)
(* failures in the report, are left out.                                   *)
(*                                                                         *)
(* Ghost variables: failedCalls (failures of the model since its last      *)
(* success), sinceFailure (ticks since the last of them) and promised      *)
(* (ticks until the latest probe time that a client of the API was told).  *)
(***************************************************************************)
EXTENDS Integers, Sequences, FiniteSets, PyBreaker

CONSTANTS ScoreCallers,   \* threads that score
          MaxScores       \* bound on the calls of a behaviour

ASSUME ModelAssumption == ScoreCallers \in Nat \ {0} /\ MaxScores \in Nat

VARIABLES scores,        \* the calls, by what their caller has
          scoresTaken,   \* calls the pool's thread has taken
          poolThread,    \* "idle", "model" (in client.score) or "opening" the breaker
          mlBreaker,     \* _cb, as the last call left it
          openedAgo,     \* listener.opened_at: ticks since, up to ResetTimeout
          wired,         \* set_circuit_breaker was called
          reading,       \* what a request of the API has read, "" if nothing
          failedCalls,
          sinceFailure,
          promised

pool == <<scores, scoresTaken, poolThread>>
report == <<wired, reading, promised>>
modelGhosts == <<failedCalls, sinceFailure>>
modelVars == <<pool, mlBreaker, openedAgo, report, modelGhosts>>

CallState == {"waiting", "score", "fallback", "raised"}

ModelInit ==
  /\ scores = <<>> /\ scoresTaken = 0 /\ poolThread = "idle"
  /\ mlBreaker = ClosedBreaker
  /\ openedAgo = ResetTimeout
  /\ wired = FALSE /\ reading = "" /\ promised = 0
  /\ failedCalls = 0 /\ sinceFailure = ResetTimeout

\* current_state, as seen from outside the pool's thread.
BreakerState ==
  IF ~mlBreaker.open THEN "closed" ELSE IF poolThread = "model" THEN "half-open" ELSE "open"

\* The future of call i is resolved: its caller gets a result if it still waits.
Resolve(i, result) ==
  scores' = [scores EXCEPT ![i] = IF @ = "waiting" THEN result ELSE @]

-----------------------------------------------------------------------------
\* score_with_fallback submits to the executor.
SubmitScore ==
  /\ Len(scores) < MaxScores
  /\ Cardinality({i \in DOMAIN scores : scores[i] = "waiting"}) < ScoreCallers
  /\ scores' = Append(scores, "waiting")
  /\ UNCHANGED <<scoresTaken, poolThread, mlBreaker, openedAgo, report, modelGhosts>>

\* The pool's thread takes the next call.
TakeScore ==
  /\ poolThread = "idle"
  /\ scoresTaken < Len(scores)
  /\ scoresTaken' = scoresTaken + 1

\* The breaker is open: CircuitBreakerError.
CallRefused ==
  /\ TakeScore
  /\ ~Allows(mlBreaker)
  /\ Resolve(scoresTaken', "fallback")
  /\ UNCHANGED <<poolThread, mlBreaker, openedAgo, report, modelGhosts>>

\* Mutant: the breaker was asked when the call was submitted.
CallModelUnasked ==
  /\ TakeScore
  /\ poolThread' = "model"
  /\ UNCHANGED <<scores, mlBreaker, openedAgo, report, modelGhosts>>

\* The breaker is closed, or half-open from now on: client.score is entered.
CallModel ==
  /\ TakeScore
  /\ Allows(mlBreaker)
  /\ poolThread' = "model"
  /\ UNCHANGED <<scores, mlBreaker, openedAgo, report, modelGhosts>>

\* Mutant: the listener takes down every change of state.
ModelReturnsNotified ==
  /\ poolThread = "model"
  /\ poolThread' = "idle"
  /\ Resolve(scoresTaken, "score")
  /\ mlBreaker' = AfterSuccess(mlBreaker)
  /\ openedAgo' = IF mlBreaker.open THEN 0 ELSE openedAgo
  /\ failedCalls' = 0
  /\ UNCHANGED <<scoresTaken, report, sinceFailure>>

\* The model answers, in time for its caller or not.  Closing the breaker is
\* nothing that the listener takes down.
ModelReturns ==
  /\ poolThread = "model"
  /\ poolThread' = "idle"
  /\ Resolve(scoresTaken, "score")
  /\ mlBreaker' = AfterSuccess(mlBreaker)
  /\ failedCalls' = 0
  /\ UNCHANGED <<scoresTaken, openedAgo, report, sinceFailure>>

\* The model raises: MLClientError ends in the fallback, another exception gets
\* out, and the failure that opens the breaker becomes a CircuitBreakerError.
ModelRaises ==
  /\ poolThread = "model"
  /\ IF Trips(mlBreaker)
       THEN poolThread' = "opening" /\ UNCHANGED scores
       ELSE /\ poolThread' = "idle"
            /\ \E result \in {"fallback", "raised"} : Resolve(scoresTaken, result)
  /\ mlBreaker' = AfterFailure(mlBreaker)
  /\ failedCalls' = failedCalls + 1
  /\ sinceFailure' = 0
  /\ UNCHANGED <<scoresTaken, openedAgo, report>>

\* listener.state_change: entry to "open" is taken down.
OpeningNotified ==
  /\ poolThread = "opening"
  /\ poolThread' = "idle"
  /\ openedAgo' = 0
  /\ Resolve(scoresTaken, "fallback")
  /\ UNCHANGED <<scoresTaken, mlBreaker, report, modelGhosts>>

\* future.result(timeout): the caller stops waiting.
ScoreWaitEnds(i) ==
  /\ i \in DOMAIN scores
  /\ scores[i] = "waiting"
  /\ scores' = [scores EXCEPT ![i] = "fallback"]
  /\ UNCHANGED <<scoresTaken, poolThread, mlBreaker, openedAgo, report, modelGhosts>>

-----------------------------------------------------------------------------
\* set_circuit_breaker, called by nothing but tests.
SetCircuitBreaker ==
  /\ ~wired
  /\ wired' = TRUE
  /\ UNCHANGED <<pool, mlBreaker, openedAgo, reading, promised, modelGhosts>>

\* get_circuit_breaker_state, which answers "unknown" before that: it reads
\* current_state ...
ReadBreaker ==
  /\ wired
  /\ reading = ""
  /\ reading' = BreakerState
  /\ UNCHANGED <<pool, mlBreaker, openedAgo, wired, promised, modelGhosts>>

\* ... and then the listener's opened_at; a time in the past is not reported.
\* The ticks from now to next_probe_time, 0 for None:
NextProbe == IF reading = "open" THEN ResetTimeout - openedAgo ELSE 0

ReportBreaker ==
  /\ reading # ""
  /\ reading' = ""
  /\ promised' = IF NextProbe > promised THEN NextProbe ELSE promised
  /\ UNCHANGED <<pool, mlBreaker, openedAgo, wired, modelGhosts>>

\* The clock.  A call that is in the model was let through already.
ModelTick ==
  /\ poolThread # "opening"
  /\ mlBreaker' = Aged(mlBreaker)
  /\ openedAgo' = Saturate(openedAgo, ResetTimeout)
  /\ promised' = IF promised = 0 THEN 0 ELSE promised - 1
  /\ sinceFailure' = Saturate(sinceFailure, ResetTimeout)
  /\ UNCHANGED <<pool, wired, reading, failedCalls>>

ModelNext ==
  \/ SubmitScore
  \/ CallRefused
  \/ CallModel
  \/ ModelReturns
  \/ ModelRaises
  \/ OpeningNotified
  \/ \E i \in 1 .. MaxScores : ScoreWaitEnds(i)
  \/ SetCircuitBreaker
  \/ ReadBreaker
  \/ ReportBreaker
  \/ ModelTick

-----------------------------------------------------------------------------
ModelTypeOK ==
  /\ scores \in Seq(CallState) /\ Len(scores) <= MaxScores
  /\ scoresTaken \in 0 .. Len(scores)
  /\ poolThread \in {"idle", "model", "opening"} /\ (poolThread # "idle" => scoresTaken > 0)
  /\ mlBreaker \in Breaker
  /\ openedAgo \in 0 .. ResetTimeout
  /\ wired \in BOOLEAN
  /\ reading \in {"", "closed", "open", "half-open"}
  /\ promised \in 0 .. ResetTimeout
  /\ failedCalls \in Nat
  /\ sinceFailure \in 0 .. ResetTimeout

ModelEntered == poolThread' = "model" /\ poolThread # "model"

\* After cb_error_threshold failures without a success in between the model is
\* left alone for cb_open_seconds, whenever those calls were submitted, whether
\* their callers still waited, and while calls pile up in the pool's queue
\* (circuit_breaker.py 100-109).
BreakerSparesModel ==
  [][ModelEntered => failedCalls < FailMax \/ sinceFailure >= ResetTimeout]_modelVars

\* Before the next_probe_time that a client of the API was told no call reaches
\* the model, though the breaker may open, be tried and close between the two
\* reads of the report and after it (management_api.py 528-563).
ProbeTimeHonest == [][ModelEntered => promised = 0]_modelVars
===============================================================================
