---------------------------- MODULE FeatureServing ----------------------------
(***************************************************************************)
(* The online feature store between its writer and its reader:             *)
(* FeatureMaterializer (pipelines/processing/feature_materializer.py),     *)
(* which pushes the feature groups of a batch one after the other, and     *)
(* FeatureServingClient (pipelines/scoring/clients/feature_serving.py),    *)
(* which reads the features of one account with a hard timeout.            *)
(*                                                                         *)
(* A read is run by the client's pool of one thread (the default); a       *)
(* caller that stops waiting leaves it there, queued or running.  The      *)
(* store reads one feature view after the other, while batches are pushed. *)
(* Of the values of a group only this is kept: which batch they are from,  *)
(* 0 when the store has none of the account or when one of them is None,   *)
(* which a device without a past gives (feature_schema.py 46-64).          *)
(*                                                                         *)
(* Before open() a caller gets the zero vector at once, after close() the  *)
(* RuntimeError of the pool: nothing changes, so these are no steps here.  *)
(* It is opened and closed once.                                           *)
(*                                                                         *)
(* Ghost: in a lookup, since is what the store held when it was made.      *)
(***************************************************************************)
EXTENDS Integers, Sequences, FiniteSets

CONSTANTS Account,          \* account ids
          FeatureCallers,   \* threads that ask for features
          MaxLookups,       \* bound on the lookups of a behaviour
          MaxBatches        \* bound on the batches pushed

ASSUME ServingAssumption ==
  /\ FeatureCallers \in Nat \ {0}
  /\ MaxLookups \in Nat
  /\ MaxBatches \in Nat

VARIABLES online,      \* account -> group -> what the store holds
          batch,       \* the batch pushed last
          nextGroup,   \* the group of it that is pushed next
          client,      \* "new", "open" or "closed"
          lookups,     \* the calls of get_features on the open client
          taken,       \* lookups the pool's thread has taken
          fetching,    \* it is reading the last of them
          response     \* what it has read of it, a group at a time

store == <<online, batch, nextGroup>>
fetch == <<taken, fetching, response>>
servingVars == <<store, client, lookups, fetch>>

\* FEATURE_GROUPS, in the order in which they are pushed and read.
Group == {"velocity", "geo", "device"}
GroupOrder == <<"velocity", "geo", "device">>
Groups == Len(GroupOrder)

Stored == 0 .. MaxBatches

ServingInit ==
  /\ online = [a \in Account |-> [g \in Group |-> 0]]
  /\ batch = 0 /\ nextGroup = Groups + 1
  /\ client = "new"
  /\ lookups = <<>> /\ taken = 0
  /\ fetching = FALSE /\ response = <<>>

-----------------------------------------------------------------------------
\* materialize: another batch, with records of some accounts.
StartBatch ==
  /\ nextGroup > Groups
  /\ batch < MaxBatches
  /\ batch' = batch + 1
  /\ nextGroup' = 1
  /\ UNCHANGED <<online, client, lookups, fetch>>

\* build_feature_rows: what a record of the batch gives for a group.
ValueOf(g) == IF g = "device" THEN {batch, 0} ELSE {batch}

\* _push_feature_group for the accounts it reaches: none when it fails, which is
\* logged; the next group has its turn in any case.
PushGroup ==
  /\ nextGroup <= Groups
  /\ nextGroup' = nextGroup + 1
  /\ \E accounts \in SUBSET Account, value \in ValueOf(GroupOrder[nextGroup]) :
       online' = [a \in Account |->
         IF a \in accounts
           THEN [online[a] EXCEPT ![GroupOrder[nextGroup]] = value]
           ELSE online[a]]
  /\ UNCHANGED <<batch, client, lookups, fetch>>

-----------------------------------------------------------------------------
OpenClient ==
  /\ client = "new"
  /\ client' = "open"
  /\ UNCHANGED <<store, lookups, fetch>>

\* shutdown(wait=False): what is queued is still read.
CloseClient ==
  /\ client = "open"
  /\ client' = "closed"
  /\ UNCHANGED <<store, lookups, fetch>>

\* get_features hands the read to the pool.
GetFeatures ==
  /\ client = "open"
  /\ Len(lookups) < MaxLookups
  /\ Cardinality({i \in DOMAIN lookups : lookups[i].answer = "waiting"}) < FeatureCallers
  /\ \E a \in Account :
       lookups' = Append(lookups,
         [account |-> a, since |-> online[a], answer |-> "waiting", vector |-> <<>>])
  /\ UNCHANGED <<store, client, fetch>>

\* The pool's thread takes the next lookup: _fetch_from_store.
StartFetch ==
  /\ ~fetching
  /\ taken < Len(lookups)
  /\ taken' = taken + 1
  /\ fetching' = TRUE
  /\ response' = <<>>
  /\ UNCHANGED <<store, client, lookups>>

\* The store reads another of the feature views for it.
ReadGroup ==
  /\ fetching
  /\ Len(response) < Groups
  /\ response' = Append(response,
       online[lookups[taken].account][GroupOrder[Len(response) + 1]])
  /\ UNCHANGED <<store, client, lookups, taken, fetching>>

\* Lookup i is over: its caller gets the answer if it still waits.
Answer(i, answer, vector) ==
  lookups' = [lookups EXCEPT ![i] =
    IF @.answer = "waiting" THEN [@ EXCEPT !.answer = answer, !.vector = vector] ELSE @]

Complete == \A i \in DOMAIN response : response[i] > 0

\* Mutant: what a caller did not wait for serves the next one with the account.
FetchReturnsToNext ==
  /\ fetching /\ Len(response) = Groups
  /\ fetching' = FALSE
  /\ \E i \in taken .. Len(lookups) :
       /\ lookups[i].account = lookups[taken].account
       /\ Answer(i, IF Complete THEN "vector" ELSE "zero", IF Complete THEN response ELSE <<>>)
  /\ response' = <<>>
  /\ UNCHANGED <<store, client, taken>>

\* The read returns: a vector, or zeros for a miss or a partial response.
FetchReturns ==
  /\ fetching /\ Len(response) = Groups
  /\ fetching' = FALSE
  /\ IF Complete THEN Answer(taken, "vector", response) ELSE Answer(taken, "zero", <<>>)
  /\ response' = <<>>
  /\ UNCHANGED <<store, client, taken>>

\* The read raises: zeros.
FetchRaises ==
  /\ fetching
  /\ fetching' = FALSE
  /\ Answer(taken, "zero", <<>>)
  /\ response' = <<>>
  /\ UNCHANGED <<store, client, taken>>

\* future.result(timeout): zeros, and nobody cancels the read.
LookupWaitEnds(i) ==
  /\ i \in DOMAIN lookups
  /\ lookups[i].answer = "waiting"
  /\ Answer(i, "zero", <<>>)
  /\ UNCHANGED <<store, client, fetch>>

ServingNext ==
  \/ StartBatch
  \/ PushGroup
  \/ OpenClient
  \/ CloseClient
  \/ GetFeatures
  \/ StartFetch
  \/ ReadGroup
  \/ FetchReturns
  \/ FetchRaises
  \/ \E i \in 1 .. MaxLookups : LookupWaitEnds(i)

-----------------------------------------------------------------------------
Lookup == [account : Account, since : [Group -> Stored],
           answer : {"waiting", "zero", "vector"}, vector : Seq(Stored)]

ServingTypeOK ==
  /\ online \in [Account -> [Group -> Stored]]
  /\ batch \in 0 .. MaxBatches
  /\ nextGroup \in 1 .. Groups + 1
  /\ client \in {"new", "open", "closed"}
  /\ lookups \in Seq(Lookup) /\ Len(lookups) <= MaxLookups
  /\ taken \in 0 .. Len(lookups)
  /\ fetching \in BOOLEAN /\ (fetching => taken > 0)
  /\ response \in Seq(Stored) /\ Len(response) <= Groups

\* FR-004 and FR-004a of specs/007-feature-serving-contract: what a caller gets
\* is complete, and no older than its request, whatever reads were given up
\* before it and however pushes and reads interleave (feature_serving.py 97-139).
FeaturesCurrent ==
  \A i \in DOMAIN lookups :
    lookups[i].answer = "vector" =>
      /\ Len(lookups[i].vector) = Groups
      /\ \A k \in 1 .. Groups :
           /\ lookups[i].vector[k] > 0
           /\ lookups[i].vector[k] >= lookups[i].since[GroupOrder[k]]
=============================================================================
