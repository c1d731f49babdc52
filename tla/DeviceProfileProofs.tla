------------------------ MODULE DeviceProfileProofs ------------------------
(***************************************************************************)
(* Proofs about DeviceProfile for every set of devices and countries and   *)
(* every idle TTL above the allowed lateness.                              *)
(***************************************************************************)
EXTENDS DeviceProfile, TLAPS

\* The timer of the last processed event is pending as long as its profile is.
LastTimerPending ==
  \A d \in Device : Known(d) => profile[d].last_seen + DeviceIdleTTL \in profileTimers[d]

IInv ==
  /\ DeviceTypeOK
  /\ ProfileSummarisesRecent
  /\ LastTimerPending

LEMMA NoProfileFacts == NoProfile \in Profile /\ ~(NoProfile.txn_count > 0)
BY DeviceAssumption DEF NoProfile, Profile, DeviceTime

\* Updating a summary is summarising the longer sequence.
LEMMA UpdatedSummary ==
  ASSUME NEW s \in Seq(Event), NEW t \in DeviceTime, NEW c \in Country
  PROVE  Updated(Summary(s), t, c) = Summary(Append(s, [time |-> t, country |-> c]))
<1> DEFINE e == [time |-> t, country |-> c]
           r == Append(s, e)
<1>1. e \in Event
  BY DEF Event
<1>2. r # <<>> /\ Len(r) = Len(s) + 1 /\ r[Len(s) + 1] = e /\ Len(s) \in Nat
  BY <1>1
<1>3. CASE s = <<>>
  <2>1. Summary(s).txn_count = 0 /\ Len(r) = 1 /\ r[1] = e
    BY <1>2, <1>3 DEF Summary, NoProfile
  <2> QED
    BY <1>2, <2>1 DEF Updated, Summary
<1>4. CASE s # <<>>
  <2>1. Len(s) > 0 /\ r[1] = s[1]
    BY <1>1, <1>4
  <2>2. Summary(s) = [first_seen |-> s[1].time, txn_count |-> Len(s),
                      last_seen |-> s[Len(s)].time,
                      last_geo_country |-> s[Len(s)].country]
    BY <1>4 DEF Summary
  <2>3. Updated(Summary(s), t, c) =
          [first_seen |-> s[1].time, txn_count |-> Len(s) + 1, last_seen |-> t,
           last_geo_country |-> c]
    BY <1>2, <2>1, <2>2 DEF Updated
  <2> QED
    BY <1>2, <2>1, <2>3 DEF Summary
<1> QED
  BY <1>3, <1>4

LEMMA UpdatedType ==
  ASSUME NEW p \in Profile, NEW t \in DeviceTime, NEW c \in Country
  PROVE  /\ Updated(p, t, c) \in Profile
         /\ Updated(p, t, c).last_seen = t
BY DEF Updated, Profile

LEMMA InitIInv == DeviceInit => IInv
<1> SUFFICES ASSUME DeviceInit PROVE IInv
  OBVIOUS
<1>1. DeviceTypeOK
  BY NoProfileFacts, DeviceAssumption DEF DeviceInit, DeviceTypeOK
<1>2. ProfileSummarisesRecent
  BY DEF DeviceInit, ProfileSummarisesRecent, Summary
<1>3. LastTimerPending
  BY NoProfileFacts DEF DeviceInit, LastTimerPending, Known
<1> QED
  BY <1>1, <1>2, <1>3 DEF IInv

LEMMA ProcessElementIInv ==
  ASSUME IInv, NEW d \in Device, NEW t \in DeviceTime, NEW c \in Country,
         ProcessElement(d, t, c)
  PROVE  IInv'
<1> DEFINE e == [time |-> t, country |-> c]
<1>1. /\ \A x \in Device : x # d => profile'[x] = profile[x]
      /\ profile'[d] = Updated(profile[d], t, c)
      /\ profile[d] \in Profile
  BY DEF IInv, DeviceTypeOK, ProcessElement
<1>2. DeviceTypeOK'
  <2>1. (profile \in [Device -> Profile])'
    BY <1>1, UpdatedType DEF IInv, DeviceTypeOK, ProcessElement
  <2>2. (profileTimers \in [Device -> SUBSET Nat])'
    BY DeviceAssumption DEF IInv, DeviceTypeOK, ProcessElement, Register, DeviceTime
  <2>3. (deviceArrivals \in 0 .. MaxDeviceEvents)'
    BY DeviceAssumption DEF IInv, DeviceTypeOK, ProcessElement, DeviceDeliver
  <2>4. (recent \in [Device -> Seq(Event)])'
    <3>1. e \in Event
      BY DEF Event
    <3>2. \A s \in Seq(Event) : Append(s, e) \in Seq(Event)
      BY <3>1
    <3> QED
      BY <3>2 DEF IInv, DeviceTypeOK, ProcessElement
  <2>5. (past \in [Device -> SUBSET DeviceTime])'
    BY DEF IInv, DeviceTypeOK, ProcessElement
  <2> QED
    BY <2>1, <2>2, <2>3, <2>4, <2>5 DEF IInv, DeviceTypeOK, ProcessElement
<1>3. ProfileSummarisesRecent'
  <2>1. /\ \A x \in Device : x # d => recent'[x] = recent[x]
        /\ recent'[d] = Append(recent[d], e)
        /\ recent[d] \in Seq(Event)
    BY DEF IInv, DeviceTypeOK, ProcessElement
  <2>2. profile'[d] = Summary(recent'[d])
    BY <1>1, <2>1, UpdatedSummary DEF IInv, ProfileSummarisesRecent
  <2> QED
    BY <1>1, <2>1, <2>2 DEF IInv, ProfileSummarisesRecent, Summary
<1>4. LastTimerPending'
  <2>1. /\ profileTimers'[d] = profileTimers[d] \cup {t + DeviceIdleTTL}
        /\ \A x \in Device : profileTimers[x] \subseteq profileTimers'[x]
    BY DEF IInv, DeviceTypeOK, ProcessElement, Register
  <2>2. profile'[d].last_seen = t
    BY <1>1, UpdatedType
  <2> QED
    BY <1>1, <2>1, <2>2 DEF IInv, LastTimerPending, Known
<1> QED
  BY <1>2, <1>3, <1>4 DEF IInv

LEMMA OnTimerIInv ==
  ASSUME IInv, NEW d \in Device, NEW ts \in profileTimers[d], ProfileTimer(d, ts)
  PROVE  IInv'
<1>1. /\ \A x \in Device : x # d => /\ profile'[x] = profile[x]
                                    /\ profileTimers'[x] = profileTimers[x]
                                    /\ recent'[x] = recent[x]
      /\ profile'[d] = NoProfile
      /\ recent'[d] = <<>>
  BY DEF IInv, DeviceTypeOK, ProfileTimer
<1>2. DeviceTypeOK'
  BY NoProfileFacts DEF IInv, DeviceTypeOK, ProfileTimer
<1>3. ProfileSummarisesRecent'
  BY <1>1 DEF IInv, ProfileSummarisesRecent, Summary
<1>4. LastTimerPending'
  BY <1>1, NoProfileFacts DEF IInv, LastTimerPending, Known
<1> QED
  BY <1>2, <1>3, <1>4 DEF IInv

LEMMA OtherStepsIInv ==
  ASSUME IInv, \/ PassThrough
               \/ \E w \in 0 .. MaxDeviceWatermark : DeviceWatermark(w)
               \/ UNCHANGED deviceVars
  PROVE  IInv'
<1>1. UNCHANGED <<profile, profileTimers, recent, past>>
  BY DEF PassThrough, DeviceWatermark, deviceVars
<1>2. (deviceClock \in {-1} \cup Nat /\ deviceArrivals \in 0 .. MaxDeviceEvents)'
  BY DeviceAssumption
     DEF IInv, DeviceTypeOK, PassThrough, DeviceDeliver, DeviceWatermark, deviceVars
<1> QED
  BY <1>1, <1>2 DEF IInv, DeviceTypeOK, ProfileSummarisesRecent, LastTimerPending, Known

\* The operator keeps the invariant in every reachable state.
THEOREM Invariance == DeviceSpec => []IInv
<1>1. IInv /\ [DeviceNext]_deviceVars => IInv'
  BY ProcessElementIInv, OnTimerIInv, OtherStepsIInv DEF DeviceNext
<1> QED
  BY InitIInv, <1>1, PTL DEF DeviceSpec

\* The state has its type in every reachable state.
THEOREM TypeCorrect == DeviceSpec => []DeviceTypeOK
<1>1. IInv => DeviceTypeOK
  BY DEF IInv
<1> QED
  BY <1>1, Invariance, PTL

\* A profile is the summary of the events since it was last cleared.
THEOREM ProfileIsSummary == DeviceSpec => []ProfileSummarisesRecent
<1>1. IInv => ProfileSummarisesRecent
  BY DEF IInv
<1> QED
  BY <1>1, Invariance, PTL

\* A device idle for longer than the TTL has no profile once its timers fired.
THEOREM IdleEviction == DeviceSpec => []IdleDeviceEvicted
<1>1. IInv => IdleDeviceEvicted
  <2> SUFFICES ASSUME IInv, NEW d \in Device, DeviceDue = {}, Known(d)
               PROVE  profile[d].last_seen + DeviceIdleTTL > deviceClock
    BY DEF IdleDeviceEvicted
  <2> DEFINE ts == profile[d].last_seen + DeviceIdleTTL
  <2>1. ts \in profileTimers[d] /\ ts \in Nat /\ deviceClock \in Int
    BY DEF IInv, DeviceTypeOK, LastTimerPending
  <2>2. <<d, ts>> \notin DeviceDue
    OBVIOUS
  <2>3. ~(ts <= deviceClock)
    BY <2>1, <2>2 DEF DeviceDue
  <2> QED
    BY <2>1, <2>3
<1> QED
  BY <1>1, Invariance, PTL
=============================================================================
