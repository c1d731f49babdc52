----------------------------- MODULE BatchWriter -----------------------------
(***************************************************************************)
(* What a buffering sink promises, read from _flush, which clears the      *)
(* buffer whatever happened (iceberg_sink.py 207-338): it lets go of what  *)
(* it holds a batch at a time, and a batch ends as a whole.  Every         *)
(* transaction in it gets one row or none does, and a batch without rows   *)
(* is reported or known to be discarded.  Only the death of the process    *)
(* takes away what is held.                                                *)
(***************************************************************************)
EXTENDS Integers

CONSTANT Txn

VARIABLES up,         \* the sink runs
          held,       \* the transactions it holds
          rows,       \* transaction -> rows in the table
          reported,   \* transactions of the batches reported as failed
          discarded   \* transactions of the batches it had no table for

batches == <<rows, reported, discarded>>

Init ==
  /\ up = FALSE
  /\ held = {}
  /\ rows = [t \in Txn |-> 0]
  /\ reported = {}
  /\ discarded = {}

Start ==
  /\ ~up
  /\ up' = TRUE
  /\ held' = {}
  /\ UNCHANGED batches

Hold(t) ==
  /\ up
  /\ held' = held \cup {t}
  /\ UNCHANGED <<up, batches>>

\* The end of a batch.  A batch may be written and reported: the outcome of a write
\* is not always known in time.
Settle(batch) ==
  \/ /\ rows' = [t \in Txn |-> IF t \in batch THEN rows[t] + 1 ELSE rows[t]]
     /\ reported' \in {reported, reported \cup batch}
     /\ UNCHANGED discarded
  \/ /\ reported' = reported \cup batch
     /\ UNCHANGED <<rows, discarded>>
  \/ /\ discarded' = discarded \cup batch
     /\ UNCHANGED <<rows, reported>>

\* A transaction arrives and everything before it, or with it, ends as a batch.
Flush(t) ==
  /\ up
  /\ \/ Settle(held) /\ held' = {t}
     \/ Settle(held \cup {t}) /\ held' = {}
  /\ UNCHANGED up

Stop ==
  /\ up
  /\ up' = FALSE
  /\ Settle(held)
  /\ held' = {}

Die ==
  /\ up
  /\ up' = FALSE
  /\ held' = {}
  /\ UNCHANGED batches

Next ==
  \/ Start
  \/ \E t \in Txn : Hold(t) \/ Flush(t)
  \/ Stop
  \/ Die

Spec == Init /\ [][Next]_<<up, held, batches>>
==============================================================================
