---------------------------- MODULE MCRuleAdmin ----------------------------
(* Rules of the default set, one or two per family, with small thresholds,  *)
(* and a malformed one that raises for new devices.                         *)
EXTENDS RuleAdmin

CONSTANTS Countries, Times, Counts

Velocity001 ==
  [family |-> "velocity", severity |-> high, enabled |-> TRUE,
   conditions |-> [field |-> "vel_count_1m", count |-> 1]]

ImpossibleTravel001 ==
  [family |-> "impossible_travel", severity |-> critical, enabled |-> TRUE,
   conditions |-> [window_ms |-> 1]]

NewDevice001 ==
  [family |-> "new_device", severity |-> medium, enabled |-> TRUE,
   conditions |-> [amount |-> 1]]

BadNewDevice ==
  [family |-> "new_device", severity |-> low, enabled |-> TRUE,
   conditions |-> [amount |-> Malformed]]

NewDevice004 ==
  [family |-> "new_device", severity |-> low, enabled |-> TRUE,
   conditions |-> [network_class |-> "RESIDENTIAL"]]

\* The malformed rule comes last: with it gone from a file that was cut off, new
\* devices are judged by the others.
MCRule == <<Velocity001, NewDevice004, BadNewDevice>>

MCInitialMode == <<"active", "active", "shadow">>

\* ImpossibleTravel001 without the rule that raises.
MCFewRules == <<Velocity001, NewDevice001, ImpossibleTravel001>>

MCAllActive == <<"active", "active", "active">>

\* A device that was seen before has a previous time; its country may be unknown.
MCInputs ==
  {in \in [vel_count : Counts, vel_amount : {1}, amount : Counts,
           country : Countries \cup {None}, time : Times,
           device_txn_count : {None, 1, 2},
           prev_country : Countries \cup {None}, prev_time : Times \cup {None}] :
     /\ in.prev_time = None <=> in.device_txn_count # 2
     /\ in.prev_time = None => in.prev_country = None}

\* A fast account on a new device, a slow one on a new device and a fast one on a
\* known device that moved: both kinds of rules match, one of them does.
MCTellingInputs ==
  {in \in MCInputs :
     /\ in.amount = 2 /\ in.country = "FR"
     /\ \/ in.device_txn_count = 1
        \/ in.device_txn_count = 2 /\ in.prev_country = "DE" /\ in.vel_count = 2}
=============================================================================
