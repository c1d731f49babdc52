----------------------------- MODULE AtLeastOnce -----------------------------
(***************************************************************************)
(* What the enrichment job promises its consumers (specs/002, FR-009 and   *)
(* SC-003): a position in the source is given up only when there is an     *)
(* output for every transaction before it.                                 *)
(***************************************************************************)
EXTENDS Integers, Sequences

CONSTANTS Txn, Stream

VARIABLES committed,   \* the messages that will not be read again
          done         \* the transactions with an output

Init == committed = 0 /\ done = {}

\* Outputs appear and the source moves on, never ahead of them.
Advance(n, new) ==
  /\ committed' = n
  /\ done' = done \cup new
  /\ \A p \in 1 .. n : Stream[p] \in Txn => Stream[p] \in done'

Next == \E n \in committed .. Len(Stream), new \in SUBSET Txn : Advance(n, new)

Spec == Init /\ [][Next]_<<committed, done>>
=============================================================================
