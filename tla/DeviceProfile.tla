---------------------------- MODULE DeviceProfile ----------------------------
(***************************************************************************)
(* DeviceProcessFunction (pipelines/processing/operators/device.py): the   *)
(* keyed Flink operator that keeps one profile per device (api_key_id) and *)
(* attaches it, with the previous transaction's country and time, to every *)
(* transaction.                                                            *)
(*                                                                         *)
(* Elements, watermarks and timers reach the operator as in Velocity.  The *)
(* velocity operator upstream has removed the events that are behind the   *)
(* watermark by more than the allowed lateness, and elements and watermarks*)
(* keep their order between the two.  known_fraud is constant (False in    *)
(* v1) and left out.                                                       *)
(*                                                                         *)
(* Ghost variables: recent is what was processed for a device since its    *)
(* profile was last cleared, past everything ever processed for it.        *)
(***************************************************************************)
EXTENDS Integers, Sequences

CONSTANTS Device,                 \* the keys (api_key_id)
          Country,                \* values of geo_country, the null of a failed lookup included
          NoCountry,              \* that null
          DeviceIdleTTL,          \* _IDLE_TTL_MS: 7 days
          DeviceAllowedLateness,  \* what the velocity operator lets through
          MaxDeviceTime,          \* bound on event times
          MaxDeviceWatermark,     \* bound on the watermark
          MaxDeviceEvents         \* bound on the elements delivered

ASSUME DeviceAssumption ==
  /\ NoCountry \in Country
  /\ DeviceIdleTTL \in Nat
  /\ DeviceAllowedLateness \in Nat
  /\ DeviceAllowedLateness < DeviceIdleTTL
  /\ MaxDeviceTime \in Nat
  /\ MaxDeviceWatermark \in Nat
  /\ MaxDeviceEvents \in Nat

VARIABLES profile,         \* device -> DeviceProfileState, txn_count 0 standing for None
          profileTimers,   \* device -> pending event-time timers
          deviceClock,     \* the watermark, the operator's event-time clock
          deviceFields,    \* device fields of the last element: {} when they are null
          deviceArrivals,  \* elements delivered so far
          recent,          \* ghost: device -> events since the last clear
          past             \* ghost: device -> times of all events ever

deviceVars == <<profile, profileTimers, deviceClock, deviceFields, deviceArrivals, recent, past>>

-----------------------------------------------------------------------------
DeviceTime == 0 .. MaxDeviceTime

Event == [time : DeviceTime, country : Country]

Profile == [first_seen : DeviceTime, txn_count : Nat, last_seen : DeviceTime,
            last_geo_country : Country]

NoProfile == [first_seen |-> 0, txn_count |-> 0, last_seen |-> 0,
              last_geo_country |-> NoCountry]

Known(d) == profile[d].txn_count > 0

DeviceDue == {x \in UNION {{d} \X profileTimers[d] : d \in Device} : x[2] <= deviceClock}

\* Mutant: the country of the first transaction is kept.
UpdatedStaleCountry(p, t, country) ==
  [first_seen       |-> IF p.txn_count = 0 THEN t ELSE p.first_seen,
   txn_count        |-> p.txn_count + 1,
   last_seen        |-> t,
   last_geo_country |-> IF p.txn_count = 0 THEN country ELSE p.last_geo_country]

\* The state process_element stores, for a new device and for a known one: the
\* first time is kept, the last one is this event's, the latest or not.
Updated(p, t, country) ==
  [first_seen       |-> IF p.txn_count = 0 THEN t ELSE p.first_seen,
   txn_count        |-> p.txn_count + 1,
   last_seen        |-> t,
   last_geo_country |-> country]

-----------------------------------------------------------------------------
DeviceInit ==
  /\ profile = [d \in Device |-> NoProfile]
  /\ profileTimers = [d \in Device |-> {}]
  /\ deviceClock = -1
  /\ deviceFields = {}
  /\ deviceArrivals = 0
  /\ recent = [d \in Device |-> <<>>]
  /\ past = [d \in Device |-> {}]

DeviceDeliver ==
  /\ DeviceDue = {}
  /\ deviceArrivals < MaxDeviceEvents
  /\ deviceArrivals' = deviceArrivals + 1

\* No api_key_id: null device fields, no state.
PassThrough ==
  /\ DeviceDeliver
  /\ deviceFields' = {}
  /\ UNCHANGED <<profile, profileTimers, deviceClock, recent, past>>

\* Mutant: the timer is registered for the profile's first event only.
RegisterFirstOnly(d, t) ==
  profileTimers' = IF Known(d) THEN profileTimers
            ELSE [profileTimers EXCEPT ![d] = @ \cup {t + DeviceIdleTTL}]

\* Mutant: the timer is registered the TTL before the event.
RegisterBefore(d, t) == profileTimers' = [profileTimers EXCEPT ![d] = @ \cup {t - DeviceIdleTTL}]

\* ctx.timer_service().register_event_time_timer
Register(d, t) == profileTimers' = [profileTimers EXCEPT ![d] = @ \cup {t + DeviceIdleTTL}]

\* process_element for a transaction with an api_key_id.
ProcessElement(d, t, country) ==
  /\ DeviceDeliver
  /\ t >= deviceClock - DeviceAllowedLateness
  /\ profile' = [profile EXCEPT ![d] = Updated(@, t, country)]
  /\ Register(d, t)
  /\ deviceFields' = {[device           |-> d,
                  event_time       |-> t,
                  first_seen       |-> profile'[d].first_seen,
                  txn_count        |-> profile'[d].txn_count,
                  prev_geo_country |-> profile[d].last_geo_country,
                  prev_txn_time    |-> IF Known(d) THEN {profile[d].last_seen} ELSE {}]}
  /\ recent' = [recent EXCEPT ![d] = Append(@, [time |-> t, country |-> country])]
  /\ past' = [past EXCEPT ![d] = @ \cup {t}]
  /\ UNCHANGED deviceClock

\* on_timer: whichever event registered the timer, the profile is cleared.
ProfileTimer(d, ts) ==
  /\ <<d, ts>> \in DeviceDue
  /\ \A x \in DeviceDue : ts <= x[2]
  /\ profileTimers' = [profileTimers EXCEPT ![d] = @ \ {ts}]
  /\ profile' = [profile EXCEPT ![d] = NoProfile]
  /\ recent' = [recent EXCEPT ![d] = <<>>]
  /\ UNCHANGED <<deviceClock, deviceFields, deviceArrivals, past>>

DeviceWatermark(w) ==
  /\ DeviceDue = {}
  /\ w > deviceClock
  /\ deviceClock' = w
  /\ UNCHANGED <<profile, profileTimers, deviceFields, deviceArrivals, recent, past>>

DeviceNext ==
  \/ PassThrough
  \/ \E d \in Device, t \in DeviceTime, c \in Country : ProcessElement(d, t, c)
  \/ \E d \in Device : \E ts \in profileTimers[d] : ProfileTimer(d, ts)
  \/ \E w \in 0 .. MaxDeviceWatermark : DeviceWatermark(w)

DeviceSpec == DeviceInit /\ [][DeviceNext]_deviceVars

-----------------------------------------------------------------------------
\* Profiles, timers, the clock and the ghosts have their types.
DeviceTypeOK ==
  /\ profile \in [Device -> Profile]
  /\ profileTimers \in [Device -> SUBSET Nat]
  /\ deviceClock \in {-1} \cup Nat
  /\ deviceArrivals \in 0 .. MaxDeviceEvents
  /\ recent \in [Device -> Seq(Event)]
  /\ past \in [Device -> SUBSET DeviceTime]

\* The profile of a sequence of events.
Summary(s) ==
  IF s = <<>> THEN NoProfile
  ELSE [first_seen       |-> s[1].time,
        txn_count        |-> Len(s),
        last_seen        |-> s[Len(s)].time,
        last_geo_country |-> s[Len(s)].country]

\* The stored profile is the summary of the events processed since it was last
\* cleared, in processing order: prev_geo_country and prev_txn_time_ms, which
\* the impossible-travel rule compares, are those of the event processed just
\* before (device.py 77-99).
ProfileSummarisesRecent == \A d \in Device : profile[d] = Summary(recent[d])

\* A device whose last processed event is older than the idle TTL has no
\* profile once the timers that are due have fired, also when that event came
\* out of order (device.py 102, 114-115).
IdleDeviceEvicted ==
  \A d \in Device :
    DeviceDue = {} /\ Known(d) => profile[d].last_seen + DeviceIdleTTL > deviceClock

\* "7-day event-time idle TTL" (device.py 18): a device is reported as new only
\* if every earlier transaction of it is at least the TTL behind the watermark.
NewDeviceWasIdle ==
  \A e \in deviceFields :
    e.txn_count = 1 =>
      \A t \in past[e.device] \ {e.event_time} : t + DeviceIdleTTL <= deviceClock
=============================================================================
