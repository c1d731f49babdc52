---------------------------- MODULE SlidingWindow ----------------------------
(***************************************************************************)
(* What the velocity operator shows the rules downstream: a counter that   *)
(* forgets nothing.  It keeps every transaction that came in time and      *)
(* reports, with each one, the number and the sum of those in the trailing *)
(* windows; of those that come too late it takes none into account and every *)
(* one to the dead letters.  No buckets, no timers, no eviction.           *)
(*                                                                         *)
(* A window is measured in whole minutes, as the code does and as specs/002 *)
(* (research.md 83) decided, not to the millisecond.  The specification means *)
(* another window (spec.md 37, data-model.md 53-60 and 182: the last 60    *)
(* seconds before the event): a transaction that is nearly two minutes old, *)
(* or later than the one reported on, is in the one-minute window here.    *)
(***************************************************************************)
EXTENDS Integers, Functions

CONSTANTS Account, Amount, Minute, Windows, AllowedLateness, MaxTime

VARIABLES history,    \* account -> (time, amount) -> transactions admitted
          watermark,  \* -1 before the first one
          emitted,    \* the last report: {} or one record
          late        \* transactions that came too late

Time == 0 .. MaxTime

Init ==
  /\ history = [a \in Account |-> [x \in Time \X Amount |-> 0]]
  /\ watermark = -1
  /\ emitted = {}
  /\ late = 0

\* The transactions that were made in the minute of t, in the w minutes of the clock
\* before it, or later: those of the last w minutes among them, and older ones too.
Trailing(bag, t, w) ==
  {x \in Time \X Amount : bag[x] > 0 /\ x[1] \div Minute >= (t \div Minute) - w}

Velocity(bag, t) ==
  [w \in Windows |->
     [count  |-> SumFunction([x \in Trailing(bag, t, w) |-> bag[x]]),
      amount |-> SumFunction([x \in Trailing(bag, t, w) |-> bag[x] * x[2]])]]

InTime(t) == watermark = -1 \/ t >= watermark - AllowedLateness

\* A transaction that comes in time is counted for ever.
Count(a, t, amount) ==
  /\ InTime(t)
  /\ history' = [history EXCEPT ![a][<<t, amount>>] = @ + 1]
  /\ emitted' = {[account |-> a, time |-> t, velocity |-> Velocity(history'[a], t)]}
  /\ UNCHANGED <<watermark, late>>

\* One that does not is a dead letter: not counted, not reported.
Reject(t) ==
  /\ ~InTime(t)
  /\ emitted' = {}
  /\ late' = late + 1
  /\ UNCHANGED <<history, watermark>>

Advance ==
  /\ watermark' > watermark
  /\ UNCHANGED <<history, emitted, late>>

Next ==
  \/ \E a \in Account, t \in Time, amount \in Amount : Count(a, t, amount)
  \/ \E t \in Time : Reject(t)
  \/ Advance

Spec == Init /\ [][Next]_<<history, watermark, emitted, late>>
==============================================================================
