------------------------------ MODULE PyBreaker ------------------------------
(***************************************************************************)
(* pybreaker.CircuitBreaker (external), as the Iceberg sinks and the ML    *)
(* circuit breaker configure it: fail_max consecutive failures open it,    *)
(* and reset_timeout after the opening one trial call is let through.      *)
(*                                                                         *)
(* call() runs the trial itself, so with one caller thread the half-open   *)
(* state never outlives a call: between calls the breaker is open or       *)
(* closed.  sinceOpen counts ticks and stops at the reset timeout.         *)
(***************************************************************************)
EXTENDS Integers

CONSTANTS FailMax,       \* fail_max: 3
          ResetTimeout   \* reset_timeout in ticks: 30 s

ASSUME BreakerAssumption == FailMax \in Nat \ {0} /\ ResetTimeout \in Nat

Breaker == [open : BOOLEAN, failures : Nat, sinceOpen : 0 .. ResetTimeout]

\* CircuitBreaker(fail_max=3, reset_timeout=30)
ClosedBreaker == [open |-> FALSE, failures |-> 0, sinceOpen |-> ResetTimeout]

\* before_call: closed, or open for long enough to try once.
Allows(b) == b.open => b.sinceOpen >= ResetTimeout

\* A call returned: closed, and the failure counter starts again.
AfterSuccess(b) == ClosedBreaker

\* The failure that opens the breaker: the trial of an open one, or the
\* FailMax-th in a row.  The caller sees CircuitBreakerError for it too.
Trips(b) == b.open \/ b.failures + 1 >= FailMax

\* Mutant: the counter is compared before it is incremented.
AfterFailureLate(b) ==
  IF b.open \/ b.failures >= FailMax
    THEN [open |-> TRUE, failures |-> b.failures + 1, sinceOpen |-> 0]
    ELSE [open |-> FALSE, failures |-> b.failures + 1, sinceOpen |-> ResetTimeout]

\* A call raised.
AfterFailure(b) ==
  IF Trips(b)
    THEN [open |-> TRUE, failures |-> b.failures + 1, sinceOpen |-> 0]
    ELSE [open |-> FALSE, failures |-> b.failures + 1, sinceOpen |-> ResetTimeout]

\* A counter of ticks that stops at its limit.
Saturate(n, limit) == IF n < limit THEN n + 1 ELSE limit

\* One tick of the clock.
Aged(b) == [open      |-> b.open,
            failures  |-> b.failures,
            sinceOpen |-> Saturate(b.sinceOpen, ResetTimeout)]
==============================================================================
