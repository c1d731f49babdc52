------------------------------ MODULE Operators ------------------------------
(***************************************************************************)
(* The two keyed operators of the enrichment, velocity and device profile  *)
(* (pipelines/processing/operators).  They keep their state apart and are  *)
(* ruled by their own timers, and every property below speaks of one of    *)
(* them, so it suffices to let one run at a time: operator says which.     *)
(***************************************************************************)
EXTENDS Velocity, DeviceProfile

VARIABLE operator   \* the operator that runs

OperatorsInit == operator \in {"velocity", "device"} /\ Init /\ DeviceInit

\* A step of one operator; the other one pauses.
OfVelocity == operator = "velocity" /\ Next /\ UNCHANGED <<operator, deviceVars>>
OfDevice == operator = "device" /\ DeviceNext /\ UNCHANGED <<operator, vars>>

OperatorsNext == OfVelocity \/ OfDevice

OperatorsSpec ==
  OperatorsInit /\ [][OperatorsNext]_<<operator, vars, deviceVars>>
===============================================================================
