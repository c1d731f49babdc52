------------------------------ MODULE RuleAdmin ------------------------------
(***************************************************************************)
(* The rule set in its three places: the YAML file, the management API's   *)
(* _rules_dict (pipelines/scoring/management_api.py) and the evaluator of  *)
(* the running Flink job (pipelines/processing/job.py), with the requests, *)
(* failures and restarts that move modes between them.                     *)
(*                                                                         *)
(* The API process handles one mode change at a time (_rules_lock), the    *)
(* write included.  The write truncates the file, dumps the rules and then *)
(* sets its permissions; each of these can fail or be cut off by a crash.  *)
(* A cut-off dump leaves the entries of a prefix of the rules (the keys of *)
(* an entry are sorted and the last one is required, so part of an entry   *)
(* is not valid) or something that does not load at all.                   *)
(*                                                                         *)
(* Ghost variables: reported (the modes the clients of this API process    *)
(* have been told), acked (the mode of the last 200 for a rule), unsure    *)
(* (rules with a failed request since) and damaged (a dump was cut off and *)
(* no complete one followed).                                              *)
(***************************************************************************)
EXTENDS RuleEngine

CONSTANTS InitialMode,  \* rule id -> mode in the deployed file
          Inputs,       \* the transactions, as the enrichment operators see them
          Unreadable,   \* the content of a file that does not load
          MaxChanges,   \* bound on the mode changes attempted
          MaxCrashes    \* bound on the crashes of either process

ASSUME AdminAssumption ==
  /\ InitialMode \in [RuleId -> Mode]
  /\ MaxChanges \in Nat
  /\ MaxCrashes \in Nat

VARIABLES file,      \* rules.yaml
          api,       \* "up" or "down"
          memory,    \* _rules_dict
          job,       \* "up" or "down"
          running,   \* the rules of the job's RuleEvaluator
          scored,    \* the last transaction judged: {} or one record
          changes,   \* mode changes attempted
          crashes,   \* crashes so far
          reported,
          acked,
          unsure,
          damaged

admin == <<file, api, memory, changes, reported, acked, unsure, damaged>>
engine == <<job, running, scored>>
vars == <<admin, engine, crashes>>

-----------------------------------------------------------------------------
\* Rule sets as the YAML file and the dicts hold them.
RuleSet == UNION {[S -> Mode] : S \in SUBSET RuleId}

ASSUME UnreadableAssumption == Unreadable \notin RuleSet

NoRules == [r \in {} |-> "active"]

\* What a dump of rules that was cut off leaves in the file.
CutOff(rules) ==
  {Unreadable} \cup
  {[r \in S |-> rules[r]] : S \in {{q \in DOMAIN rules : q < r} : r \in DOMAIN rules} \ {{}}}

\* Mutant: the enum member is written instead of its value.
OtherMember(mode) == IF mode = "active" THEN "RuleMode.shadow" ELSE "RuleMode.active"

\* The other mode.
Other(mode) == IF mode = "active" THEN "shadow" ELSE "active"

-----------------------------------------------------------------------------
Init ==
  /\ file = InitialMode
  /\ api = "down"
  /\ memory = NoRules
  /\ job = "down"
  /\ running = NoRules
  /\ scored = {}
  /\ changes = 0
  /\ crashes = 0
  /\ reported = NoRules
  /\ acked = InitialMode
  /\ unsure = {}
  /\ damaged = FALSE

\* lifespan: the API loads the file, or does not start.
StartApi ==
  /\ api = "down"
  /\ file # Unreadable
  /\ api' = "up"
  /\ memory' = file
  /\ reported' = file
  /\ UNCHANGED <<file, changes, acked, unsure, damaged, engine, crashes>>

\* demote_rule or promote_rule gets as far as changing the rule: it is known
\* (else 404) and not in the mode asked for (else 409).
Requested(r) ==
  /\ api = "up"
  /\ changes < MaxChanges
  /\ r \in DOMAIN memory
  /\ changes' = changes + 1

Changed(r) == [memory EXCEPT ![r] = Other(@)]

\* Mutant: the change stays in memory.
ModeChangedUnsaved(r) ==
  /\ Requested(r)
  /\ memory' = Changed(r)
  /\ reported' = [reported EXCEPT ![r] = memory'[r]]
  /\ acked' = [acked EXCEPT ![r] = memory'[r]]
  /\ unsure' = unsure \ {r}
  /\ damaged' = (damaged /\ DOMAIN memory # RuleId)
  /\ UNCHANGED <<file, api, engine, crashes>>

\* 200: the rules are on disk.
ModeChanged(r) ==
  /\ Requested(r)
  /\ memory' = Changed(r)
  /\ file' = memory'
  /\ reported' = [reported EXCEPT ![r] = memory'[r]]
  /\ acked' = [acked EXCEPT ![r] = memory'[r]]
  /\ unsure' = unsure \ {r}
  /\ damaged' = (damaged /\ DOMAIN memory # RuleId)
  /\ UNCHANGED <<api, engine, crashes>>

\* Mutant: the mode is not put back.
ModeChangeFailsKeeping(r) ==
  /\ Requested(r)
  /\ file' \in {file, Changed(r)} \cup CutOff(Changed(r))
  /\ memory' = Changed(r)
  /\ damaged' = (damaged \/ file' \in CutOff(Changed(r)))
  /\ unsure' = unsure \cup {r}
  /\ UNCHANGED <<api, reported, acked, engine, crashes>>

\* 500: OSError from open (the file is as it was), from the dump (cut off) or
\* from chmod (all rules written); the mode in memory is put back.
ModeChangeFails(r) ==
  /\ Requested(r)
  /\ file' \in {file, Changed(r)} \cup CutOff(Changed(r))
  /\ damaged' = (damaged \/ file' \in CutOff(Changed(r)))
  /\ unsure' = unsure \cup {r}
  /\ UNCHANGED <<api, memory, reported, acked, engine, crashes>>

\* The API process dies during the write: no answer.
CrashInWrite(r) ==
  /\ Requested(r)
  /\ crashes < MaxCrashes
  /\ crashes' = crashes + 1
  /\ api' = "down"
  /\ memory' = NoRules
  /\ reported' = NoRules
  /\ file' \in {Changed(r)} \cup CutOff(Changed(r))
  /\ damaged' = (damaged \/ file' \in CutOff(Changed(r)))
  /\ unsure' = unsure \cup {r}
  /\ UNCHANGED <<acked, engine>>

\* The API process stops between requests.
StopApi ==
  /\ api = "up"
  /\ crashes < MaxCrashes
  /\ crashes' = crashes + 1
  /\ api' = "down"
  /\ memory' = NoRules
  /\ reported' = NoRules
  /\ UNCHANGED <<file, changes, acked, unsure, damaged, engine>>

\* build_job: the rules are loaded once; RuleConfigError aborts the start.
StartJob ==
  /\ job = "down"
  /\ file # Unreadable
  /\ job' = "up"
  /\ running' = file
  /\ UNCHANGED <<scored, admin, crashes>>

\* The job starts while the API is writing a change and reads what is there so
\* far; the request that wrote it is answered afterwards.
StartJobDuringWrite(r) ==
  /\ job = "down"
  /\ api = "up"
  /\ changes < MaxChanges
  /\ r \in DOMAIN memory
  /\ job' = "up"
  /\ running' \in CutOff(Changed(r)) \ {Unreadable}
  /\ UNCHANGED <<scored, admin, crashes>>

\* The Flink job stops.
StopJob ==
  /\ job = "up"
  /\ crashes < MaxCrashes
  /\ crashes' = crashes + 1
  /\ job' = "down"
  /\ running' = NoRules
  /\ UNCHANGED <<scored, admin>>

\* The job judges a transaction with the rules it started with.
Score(in) ==
  /\ job = "up"
  /\ scored' = {[in |-> in, rules |-> running,
                 out |-> Evaluate(running, AssembleRecord(in))]}
  /\ UNCHANGED <<job, running, admin, crashes>>

Next ==
  \/ StartApi
  \/ \E r \in RuleId : ModeChanged(r)
  \/ \E r \in RuleId : ModeChangeFails(r)
  \/ \E r \in RuleId : CrashInWrite(r)
  \/ StopApi
  \/ StartJob
  \/ \E r \in RuleId : StartJobDuringWrite(r)
  \/ StopJob
  \/ \E in \in Inputs : Score(in)

Spec == Init /\ [][Next]_vars

-----------------------------------------------------------------------------
\* Rule sets everywhere, with no mode but the two the loader accepts: what the API
\* writes to the file can be loaded again (management_api.py 264-296).
TypeOK ==
  /\ file \in RuleSet \cup {Unreadable}
  /\ api \in {"up", "down"}
  /\ memory \in RuleSet
  /\ job \in {"up", "down"}
  /\ running \in RuleSet
  /\ \A s \in scored : s.rules \in RuleSet /\ s.in \in Inputs
  /\ changes \in 0 .. MaxChanges
  /\ crashes \in 0 .. MaxCrashes
  /\ reported \in RuleSet
  /\ acked \in [RuleId -> Mode]
  /\ unsure \subseteq RuleId
  /\ damaged \in BOOLEAN

\* A mode change that was answered with 200 survives crashes, restarts and the
\* failed requests of other rules: unless a dump was cut off, the file has every
\* rule, in the mode of its last 200 unless a later request for that very rule
\* failed (management_api.py 264-296, 356-496).
AckedModeDurable ==
  ~damaged =>
    /\ file \in [RuleId -> Mode]
    /\ \A r \in RuleId \ unsure : file[r] = acked[r]
    /\ api = "up" => /\ memory \in [RuleId -> Mode]
                     /\ \A r \in RuleId \ unsure : memory[r] = acked[r]

\* The rollback is exact: the API's rules are those its clients were told of,
\* never the half of a change that was answered with 500 (management_api.py 390-424,
\* 460-496).
ApiMatchesAnswers == memory = reported

\* A shadow rule "does not influence the final BLOCK/FLAG/ALLOW decision": as long
\* as no rule raises, the outcome is that of the active rules alone
\* (evaluator.py 42-120, job_extension.py 35-75).
ShadowNeverInterferes ==
  \A s \in scored :
    LET active == {r \in DOMAIN s.rules : s.rules[r] = "active"}
        alone  == Evaluate([r \in active |-> "active"], AssembleRecord(s.in))
    IN  ~Raises(s.rules, AssembleRecord(s.in))
          => s.out.decision = alone.decision /\ s.out.alert = alone.alert

\* "The highest severity among all matching rules wins; no rule can suppress
\* another": as long as no rule raises, the decision is the strictest of those the
\* rules make alone; and whether one raises or not, an alert goes with every decision
\* but ALLOW and with no other (evaluator.py 42-120, job_extension.py 35-75, 172-217).
StrictestRuleWins ==
  \A s \in scored :
    LET alone(r) == Evaluate([q \in {r} |-> s.rules[q]], AssembleRecord(s.in)).decision
        some(d)  == \E r \in DOMAIN s.rules : alone(r) = d
    IN  /\ s.out.alert <=> s.out.decision # "ALLOW"
        /\ ~Raises(s.rules, AssembleRecord(s.in))
             => s.out.decision = IF some("BLOCK") THEN "BLOCK"
                                 ELSE IF some("FLAG") THEN "FLAG" ELSE "ALLOW"

-----------------------------------------------------------------------------
\* The same statement about shadow rules without the proviso, as the
\* specification makes it.
ShadowHasNoInfluence ==
  \A s \in scored :
    LET active == {r \in DOMAIN s.rules : s.rules[r] = "active"}
        alone  == Evaluate([r \in active |-> "active"], AssembleRecord(s.in))
    IN  s.out.decision = alone.decision

\* IT-001: another country within the window of the previous transaction makes
\* the transaction suspicious (specs/003, rule catalogue).
ImpossibleTravelFlagged ==
  \A s \in scored : \A r \in DOMAIN s.rules :
    (/\ Rule[r].family = "impossible_travel" /\ Rule[r].enabled
     /\ s.rules[r] = "active"
     /\ None \notin {s.in.country, s.in.prev_country, s.in.prev_time}
     /\ s.in.country # s.in.prev_country
     /\ s.in.time - s.in.prev_time <= Rule[r].conditions["window_ms"])
    => s.out.alert
=============================================================================
