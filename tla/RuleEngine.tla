----------------------------- MODULE RuleEngine -----------------------------
(***************************************************************************)
(* How a transaction is judged: the enriched record (_assemble_record),    *)
(* the three rule families (pipelines/scoring/rules/families), the         *)
(* dispatch over the enabled rules (rules/evaluator.py) and the decision   *)
(* and alert made of the result (job_extension.py).                        *)
(*                                                                         *)
(* A rule is an id with a definition [family, conditions, severity,        *)
(* enabled]; its mode, active or shadow, is what the management API        *)
(* changes and is kept apart.  Conditions are a function on the keys that  *)
(* the YAML entry has.  The Python dict of a record is a function on the   *)
(* fields that _assemble_record writes.                                    *)
(***************************************************************************)
EXTENDS Integers

CONSTANTS RuleId,    \* 1 .. n, in the order of the YAML file
          Rule,      \* rule id -> definition
          None,      \* Python's None, and an absent key read with .get
          Malformed  \* a threshold of a type that cannot be compared

Mode == {"active", "shadow"}

\* Severity(IntEnum)
low == 0
medium == 1
high == 2
critical == 3

ASSUME RuleAssumption ==
  /\ RuleId \subseteq Nat
  /\ \A r \in RuleId : Rule[r].enabled \in BOOLEAN /\ Rule[r].severity \in low .. critical

-----------------------------------------------------------------------------
\* _do_lookup: the network class is a constant, a failed lookup gives None.
NetworkClass(country) == IF country = None THEN None ELSE "RESIDENTIAL"

\* _assemble_record: the fields the rules read, from the outputs of the velocity,
\* geolocation and device operators.  A device the API key does not name has
\* only null fields; known_fraud is never set.
AssembleRecord(in) ==
  [vel_count_1m       |-> in.vel_count,
   vel_amount_5m      |-> in.vel_amount,
   geo_country        |-> in.country,
   geo_network_class  |-> NetworkClass(in.country),
   event_time         |-> in.time,
   device_known_fraud |-> IF in.device_txn_count = None THEN None ELSE FALSE,
   device_is_new      |-> in.device_txn_count = 1,
   prev_geo_country   |-> in.prev_country,
   prev_txn_time_ms   |-> in.prev_time,
   txn_amount         |-> in.amount]

\* txn.get(field)
Get(txn, field) == IF field \in DOMAIN txn THEN txn[field] ELSE None

Has(conditions, key) == key \in DOMAIN conditions

\* What a rule function does with a transaction.
Verdict(matched) == IF matched THEN "match" ELSE "miss"

\* value > threshold: Python raises when the types do not compare.
Exceeds(value, threshold) ==
  IF threshold = Malformed THEN "raise" ELSE Verdict(value > threshold)

\* evaluate_velocity
EvaluateVelocity(txn, conditions) ==
  IF ~Has(conditions, "field") THEN "miss"
  ELSE IF Get(txn, conditions["field"]) = None THEN "miss"
  ELSE IF Has(conditions, "count")
    THEN Exceeds(Get(txn, conditions["field"]), conditions["count"])
  ELSE IF Has(conditions, "amount")
    THEN Exceeds(Get(txn, conditions["field"]), conditions["amount"])
  ELSE "miss"

\* value >= threshold
AtLeast(value, threshold) ==
  IF threshold = Malformed THEN "raise" ELSE Verdict(value >= threshold)

Distance(s, t) == IF s < t THEN t - s ELSE s - t

\* evaluate_impossible_travel
EvaluateImpossibleTravel(txn, conditions) ==
  IF \/ \E field \in {"prev_geo_country", "prev_txn_time_ms", "geo_country",
                      "txn_time_ms"} : Get(txn, field) = None
     \/ txn["prev_geo_country"] = txn["geo_country"]
     \/ ~Has(conditions, "window_ms")
    THEN "miss"
  ELSE IF conditions["window_ms"] = Malformed THEN "raise"
  ELSE Verdict(Distance(txn["txn_time_ms"], txn["prev_txn_time_ms"])
                 <= conditions["window_ms"])

\* evaluate_new_device: the keys of the conditions choose the check.
EvaluateNewDevice(txn, conditions) ==
  IF Has(conditions, "amount") THEN
    IF ~txn["device_is_new"] \/ Get(txn, "txn_amount") = None THEN "miss"
    ELSE Exceeds(txn["txn_amount"], conditions["amount"])
  ELSE IF Has(conditions, "device_count") THEN
    IF \/ ~txn["device_is_new"]
       \/ Get(txn, "device_count_24h") = None
       \/ Get(txn, "vel_count_1m") = None THEN "miss"
    ELSE IF AtLeast(txn["device_count_24h"], conditions["device_count"]) # "match"
      THEN AtLeast(txn["device_count_24h"], conditions["device_count"])
    ELSE IF ~Has(conditions, "vel_count") THEN "raise"
    ELSE AtLeast(txn["vel_count_1m"], conditions["vel_count"])
  ELSE IF Has(conditions, "network_class") THEN
    Verdict(/\ txn["device_is_new"]
            /\ Get(txn, "geo_network_class") # None
            /\ Get(txn, "geo_network_class") = conditions["network_class"])
  ELSE Verdict(Get(txn, "device_known_fraud") = TRUE)

\* _FAMILY_DISPATCH
EvaluateRule(txn, r) ==
  CASE Rule[r].family = "velocity"          -> EvaluateVelocity(txn, Rule[r].conditions)
    [] Rule[r].family = "impossible_travel" -> EvaluateImpossibleTravel(txn, Rule[r].conditions)
    [] Rule[r].family = "new_device"        -> EvaluateNewDevice(txn, Rule[r].conditions)

-----------------------------------------------------------------------------
\* The rules of a file or an evaluator: a function from rule ids to modes.
\* RuleLoader.load and RuleEvaluator keep the enabled ones.
Enabled(rules) == {r \in DOMAIN rules : Rule[r].enabled}

\* The first rule that raises ends the evaluation, whatever its mode.
Raises(rules, txn) == \E r \in Enabled(rules) : EvaluateRule(txn, r) = "raise"

Matched(rules, txn, mode) ==
  {r \in Enabled(rules) : rules[r] = mode /\ EvaluateRule(txn, r) = "match"}

\* Mutant: shadow matches count.
DeterminingAll(rules, txn) ==
  Matched(rules, txn, "active") \cup Matched(rules, txn, "shadow")

\* active_matched: the rules whose match makes a transaction suspicious.
Determining(rules, txn) == Matched(rules, txn, "active")

\* Mutant: the lowest severity is reported.
DispatchLowest(rules, txn) ==
  LET active == Determining(rules, txn)
      severities == {Rule[r].severity : r \in active}
  IN  [suspicious |-> active # {},
       severity   |-> IF active = {} THEN None
                      ELSE CHOOSE s \in severities : \A t \in severities : s <= t,
       matched    |-> {<<r, "active">> : r \in active}
                        \cup {<<r, "shadow">> : r \in Matched(rules, txn, "shadow")}]

\* dispatch: the determination and the highest severity; the matched rules are
\* the active ones and, marked as such, the shadow ones.
Dispatch(rules, txn) ==
  LET active == Determining(rules, txn)
      severities == {Rule[r].severity : r \in active}
  IN  [suspicious |-> active # {},
       severity   |-> IF active = {} THEN None
                      ELSE CHOOSE s \in severities : \A t \in severities : s >= t,
       matched    |-> {<<r, "active">> : r \in active}
                        \cup {<<r, "shadow">> : r \in Matched(rules, txn, "shadow")}]

\* _build_fraud_decision
BuildFraudDecision(result) ==
  [decision |-> IF ~result.suspicious THEN "ALLOW"
                ELSE IF result.severity >= high THEN "BLOCK" ELSE "FLAG",
   triggers |-> IF result.suspicious THEN result.matched ELSE {}]

\* Mutant: an evaluation that fails leaves the alert of what matched before it.
EvaluateAlerting(rules, txn) ==
  IF Raises(rules, txn)
    THEN [alert |-> Determining(rules, txn) # {}, decision |-> "ALLOW", triggers |-> {}]
    ELSE LET made == BuildFraudDecision(Dispatch(rules, txn))
         IN  [alert    |-> Dispatch(rules, txn).suspicious,
              decision |-> made.decision,
              triggers |-> made.triggers]

\* _evaluate: alert and decision of a transaction; any exception is an ALLOW
\* without an alert.
Evaluate(rules, txn) ==
  IF Raises(rules, txn)
    THEN [alert |-> FALSE, decision |-> "ALLOW", triggers |-> {}]
    ELSE LET made == BuildFraudDecision(Dispatch(rules, txn))
         IN  [alert    |-> Dispatch(rules, txn).suspicious,
              decision |-> made.decision,
              triggers |-> made.triggers]
=============================================================================
