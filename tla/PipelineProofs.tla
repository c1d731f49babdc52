---------------------------- MODULE PipelineProofs ----------------------------
(***************************************************************************)
(* Proofs about the enrichment job, for every stream, every set of         *)
(* suspicious and of out-of-order messages, and all bounds.                *)
(***************************************************************************)
EXTENDS Pipeline, TLAPS

\* The first k elements of a sequence, and all that is on the wire.
Prefix(s, k) == {s[i] : i \in 1 .. k}
Wire == Prefix(wire, Len(wire))

\* The positions whose alert is accounted for.
Known == InMemory \cup alerts \cup dlq \cup unreported \cup lost

\* Every message of the transactions in ids before position n is represented in
\* the set by itself or an earlier message of its transaction.
Covers(set, ids, n) ==
  \A p \in 1 .. n - 1 : Stream[p] \in ids =>
    \E q \in 1 .. p : Stream[q] = Stream[p] /\ q \in set

\* A deduplication state that belongs to position n: it has nothing but what comes
\* before n, and of that only what is older than the TTL is missing.
Remembers(entries, n) ==
  /\ \A t \in Txn : entries[t] > 0 => \E q \in 1 .. n - 1 : Stream[q] = t
  /\ \A q \in 1 .. n - 1 : Stream[q] \in Txn => entries[Stream[q]] + age[Stream[q]] > SeenTTL

SeenInv ==
  /\ status # "down" => Remembers(seen, next)
  /\ Remembers(taken.seen, taken.next)
  /\ Remembers(ckpt.seen, ckpt.next)

\* Where a checkpoint is: on the wire once at most, between the last complete one
\* and the source.
BarrierInv ==
  /\ status = "down" => wire = <<>>
  /\ \A i, j \in 1 .. Len(wire) : wire[i] = Barrier /\ wire[j] = Barrier => i = j
  /\ \A i \in 1 .. Len(wire) : wire[i] = Barrier =>
       /\ ckpt.next <= taken.next
       /\ status = "up" => taken.next <= next
  /\ status = "up" => ckpt.next <= next
  /\ Len(wire) > WireCap => \E i \in 1 .. Len(wire) : wire[i] = Barrier

\* The messages of the transactions in ids are covered: what the source has passed,
\* by what came through or is on the wire; what comes before the barrier, by what
\* came through or is ahead of it; what comes before the last checkpoint, by what
\* outlives a crash.
CoverInv(through, kept, ids) ==
  /\ status = "up" => Covers(through \cup Wire, ids, next)
  /\ \A k \in 1 .. Len(wire) : wire[k] = Barrier /\ status = "up" =>
       Covers(through \cup Prefix(wire, k - 1), ids, taken.next)
  /\ Covers(kept, ids, ckpt.next)

OutputInv == CoverInv(enriched \cup late \cup outbox, enriched \cup late, Txn)
AlertInv == CoverInv(Known \cup late, Known \cup late, Suspicious)

\* Only transactions are on their way or put out, and a message that is not the
\* first of its transaction only after the TTL.
PutInv ==
  /\ \A p \in enriched \cup late \cup outbox \cup Wire : p # Barrier => Stream[p] \in Txn
  /\ \A p \in enriched \cup outbox \cup Wire : p # Barrier =>
       \A q \in 1 .. p - 1 : Stream[q] = Stream[p] => age[Stream[p]] > SeenTTL

\* The alert between the two sinks.
HandlingInv == handling # 0 => handling \in Known /\ Stream[handling] \in Txn

IInv ==
  /\ TypeOK
  /\ SeenInv
  /\ BarrierInv
  /\ OutputInv
  /\ AlertInv
  /\ PutInv
  /\ HandlingInv

-----------------------------------------------------------------------------
\* What the source adds to the wire.
LEMMA PrefixAppend ==
  ASSUME NEW S, NEW s \in Seq(S), NEW x \in S
  PROVE  /\ Append(s, x) \in Seq(S)
         /\ Len(s) \in Nat /\ Len(Append(s, x)) = Len(s) + 1
         /\ \A i \in 1 .. Len(s) : Append(s, x)[i] = s[i]
         /\ Append(s, x)[Len(s) + 1] = x
         /\ \A k \in 0 .. Len(s) : Prefix(Append(s, x), k) = Prefix(s, k)
         /\ Prefix(Append(s, x), Len(s) + 1) = Prefix(s, Len(s)) \cup {x}
<1>1. Append(s, x) \in Seq(S) /\ Len(s) \in Nat /\ Len(Append(s, x)) = Len(s) + 1
  OBVIOUS
<1>2. \A i \in 1 .. Len(s) : Append(s, x)[i] = s[i]
  OBVIOUS
<1>3. Append(s, x)[Len(s) + 1] = x
  OBVIOUS
<1>4. ASSUME NEW k \in 0 .. Len(s) PROVE Prefix(Append(s, x), k) = Prefix(s, k)
  <2>1. \A i \in 1 .. k : Append(s, x)[i] = s[i]
    BY <1>1, <1>2
  <2> QED
    BY <2>1 DEF Prefix
<1>5. Prefix(Append(s, x), Len(s) + 1) = Prefix(s, Len(s)) \cup {x}
  <2>1. 1 .. Len(s) + 1 = (1 .. Len(s)) \cup {Len(s) + 1}
    BY <1>1
  <2> HIDE <1>1
  <2> QED
    BY <2>1, <1>2, <1>3 DEF Prefix
<1> QED
  BY <1>1, <1>2, <1>3, <1>4, <1>5

\* What the sinks take from it.
LEMMA PrefixTail ==
  ASSUME NEW S, NEW s \in Seq(S), s # <<>>
  PROVE  /\ Tail(s) \in Seq(S)
         /\ Len(s) \in Nat \ {0} /\ Len(Tail(s)) = Len(s) - 1
         /\ Head(s) = s[1] /\ Head(s) \in S
         /\ \A i \in 1 .. Len(s) - 1 : Tail(s)[i] = s[i + 1]
         /\ \A k \in 0 .. Len(s) - 1 : Prefix(s, k + 1) = {Head(s)} \cup Prefix(Tail(s), k)
<1>1. /\ Tail(s) \in Seq(S)
      /\ Len(s) \in Nat \ {0} /\ Len(Tail(s)) = Len(s) - 1
      /\ Head(s) = s[1] /\ Head(s) \in S
  OBVIOUS
<1>2. \A i \in 1 .. Len(s) - 1 : Tail(s)[i] = s[i + 1]
  OBVIOUS
<1>3. ASSUME NEW k \in 0 .. Len(s) - 1
      PROVE  Prefix(s, k + 1) = {Head(s)} \cup Prefix(Tail(s), k)
  <2>1. \A i \in 1 .. k : Tail(s)[i] = s[i + 1] /\ i + 1 \in 1 .. k + 1
    BY <1>1, <1>2
  <2>2. \A i \in 1 .. k + 1 : i = 1 \/ (i - 1 \in 1 .. k /\ (i - 1) + 1 = i)
    BY <1>1
  <2>3. 1 \in 1 .. k + 1
    BY <1>1
  <2>4. Prefix(s, k + 1) \subseteq {Head(s)} \cup Prefix(Tail(s), k)
    <3> SUFFICES ASSUME NEW i \in 1 .. k + 1
                 PROVE  s[i] \in {Head(s)} \cup Prefix(Tail(s), k)
      BY DEF Prefix
    <3>1. CASE i = 1
      BY <3>1, <1>1
    <3>2. CASE i - 1 \in 1 .. k /\ (i - 1) + 1 = i
      <4>1. Tail(s)[i - 1] = s[i]
        BY <2>1, <3>2
      <4> QED
        BY <4>1, <3>2 DEF Prefix
    <3> QED
      BY <2>2, <3>1, <3>2
  <2>5. {Head(s)} \cup Prefix(Tail(s), k) \subseteq Prefix(s, k + 1)
    BY <2>1, <2>3, <1>1 DEF Prefix
  <2> QED
    BY <2>4, <2>5
<1> QED
  BY <1>1, <1>2, <1>3

\* Nothing that represents a message is taken away: it is still covered.
LEMMA CoverKeeps ==
  ASSUME NEW old, NEW new, NEW ids, NEW n \in Nat,
         \A q \in old : q \in 1 .. n - 1 /\ Stream[q] \in ids => q \in new,
         Covers(old, ids, n)
  PROVE  Covers(new, ids, n)
<1> SUFFICES ASSUME NEW p \in 1 .. n - 1, Stream[p] \in ids
             PROVE  \E q \in 1 .. p : Stream[q] = Stream[p] /\ q \in new
  BY DEF Covers
<1>1. PICK q \in 1 .. p : Stream[q] = Stream[p] /\ q \in old
  BY DEF Covers
<1>2. q \in 1 .. n - 1
  OBVIOUS
<1> QED
  BY <1>1, <1>2

\* One more message is covered.
LEMMA CoverExtends ==
  ASSUME NEW old, NEW new, NEW ids, NEW n \in Nat \ {0},
         old \subseteq new,
         Covers(old, ids, n),
         Stream[n] \in ids => \E q \in 1 .. n : Stream[q] = Stream[n] /\ q \in new
  PROVE  Covers(new, ids, n + 1)
<1> SUFFICES ASSUME NEW p \in 1 .. n, Stream[p] \in ids
             PROVE  \E q \in 1 .. p : Stream[q] = Stream[p] /\ q \in new
  BY DEF Covers
<1>1. CASE p = n
  BY <1>1
<1>2. CASE p \in 1 .. n - 1
  BY <1>2 DEF Covers
<1> QED
  BY <1>1, <1>2

-----------------------------------------------------------------------------
\* The steps of the alert sinks, and those of them that are not a crash.
OrderlyStep ==
  \/ UNCHANGED alertVars
  \/ \E p \in Position : Emit(p)
  \/ Persist
  \/ \E m \in Message : DeliverySucceeds(m) \/ DeliveryFails(m)
  \/ CloseSinks

AlertStep == OrderlyStep \/ CrashSinks(1 .. ckpt.next - 1)

LEMMA AlertType ==
  ASSUME AlertTypeOK, HandlingInv, AlertStep
  PROVE  AlertTypeOK'
<1> USE StreamAssumption DEF AlertTypeOK
<1>m. ASSUME NEW p \in Position
      PROVE  /\ ToAlerts(p) \in Message /\ ToDlq(p) \in Message
             /\ ToAlerts(p).position = p /\ ToDlq(p).position = p
  BY DEF Message, ToAlerts, ToDlq
<1>i. InMemory \subseteq Position
  BY DEF InMemory, Message
<1>1. CASE UNCHANGED alertVars
  BY <1>1 DEF alertVars, producer, topics
<1>2. ASSUME NEW p \in Position, Emit(p) PROVE AlertTypeOK'
  <2>1. ASSUME EmitProduced(p) PROVE AlertTypeOK'
    <3>1. PICK routed \in SUBSET failed :
            /\ inflight' = inflight \cup {ToAlerts(p)} \cup {ToDlq(q) : q \in routed}
            /\ unreported' = unreported \cup (failed \ routed)
            /\ failed' = {}
      BY <2>1 DEF EmitProduced, ServeCallbacks
    <3>2. inflight' \subseteq Message
      BY <3>1, <1>m
    <3> QED
      BY <2>1, <3>1, <3>2 DEF EmitProduced, topics
  <2>2. ASSUME EmitSkipped(p) PROVE AlertTypeOK'
    BY <2>2 DEF EmitSkipped, producer, topics
  <2> QED
    BY <1>2, <2>1, <2>2 DEF Emit
<1>3. CASE Persist
  <2>1. rows' \subseteq Txn
    BY <1>3 DEF Persist, HandlingInv
  <2> QED
    BY <1>3, <2>1 DEF Persist, producer, topics
<1>4. ASSUME NEW m \in Message, DeliverySucceeds(m) \/ DeliveryFails(m) PROVE AlertTypeOK'
  <2>1. m.position \in Position
    BY DEF Message
  <2>2. ASSUME Delivered(m) \/ UNCHANGED topics
        PROVE  alerts' \subseteq Position /\ dlq' \subseteq Position
    BY <2>1, <2>2 DEF Delivered, topics
  <2> QED
    BY <1>4, <2>1, <2>2 DEF DeliverySucceeds, DeliveryFails
<1>5. CASE CloseSinks
  <2>1. InFlightTo("alerts") \subseteq Position /\ InFlightTo("dlq") \subseteq Position
    BY DEF InFlightTo, Message
  <2> QED
    BY <1>5, <2>1 DEF CloseSinks
<1>6. CASE CrashSinks(1 .. ckpt.next - 1)
  BY <1>6, <1>i DEF CrashSinks, topics
<1> QED
  BY <1>1, <1>2, <1>3, <1>4, <1>5, <1>6 DEF AlertStep, OrderlyStep

\* No step but a crash forgets an alert, and a crash none that will not be raised
\* again.
LEMMA AlertsStayKnown ==
  ASSUME AlertTypeOK, AlertStep
  PROVE  /\ Known \cap (1 .. ckpt.next - 1) \subseteq Known'
         /\ OrderlyStep => Known \subseteq Known'
<1> USE DEF AlertTypeOK
<1>m. ASSUME NEW p \in Position
      PROVE  /\ ToAlerts(p) \in Message /\ ToDlq(p) \in Message
             /\ ToAlerts(p).position = p /\ ToDlq(p).position = p
  BY DEF Message, ToAlerts, ToDlq
<1>1. CASE UNCHANGED alertVars
  BY <1>1 DEF alertVars, producer, topics, Known, InMemory
<1>2. ASSUME NEW p \in Position, Emit(p) PROVE Known \subseteq Known'
  <2>1. ASSUME EmitProduced(p) PROVE Known \subseteq Known'
    <3>1. PICK routed \in SUBSET failed :
            /\ inflight' = inflight \cup {ToAlerts(p)} \cup {ToDlq(q) : q \in routed}
            /\ unreported' = unreported \cup (failed \ routed)
            /\ failed' = {}
      BY <2>1 DEF EmitProduced, ServeCallbacks
    <3>2. routed \subseteq {m.position : m \in inflight'}
      <4> SUFFICES ASSUME NEW q \in routed PROVE q \in {m.position : m \in inflight'}
        OBVIOUS
      <4>1. ToDlq(q) \in inflight' /\ ToDlq(q).position = q
        BY <3>1, <1>m
      <4> QED
        BY <4>1
    <3>3. {m.position : m \in inflight} \subseteq {m.position : m \in inflight'}
      BY <3>1
    <3> QED
      BY <2>1, <3>1, <3>2, <3>3 DEF EmitProduced, topics, Known, InMemory
  <2>2. ASSUME EmitSkipped(p) PROVE Known \subseteq Known'
    BY <2>2 DEF EmitSkipped, producer, topics, Known, InMemory
  <2> QED
    BY <1>2, <2>1, <2>2 DEF Emit
<1>3. CASE Persist
  BY <1>3 DEF Persist, producer, topics, Known, InMemory
<1>4. ASSUME NEW m \in Message, DeliverySucceeds(m) \/ DeliveryFails(m)
      PROVE  Known \subseteq Known'
  <2>1. /\ inflight' = inflight \ {m}
        /\ failed \subseteq failed' /\ unreported \subseteq unreported' /\ lost' = lost
    BY <1>4 DEF DeliverySucceeds, DeliveryFails
  <2>2. alerts \subseteq alerts' /\ dlq \subseteq dlq'
    BY <1>4 DEF DeliverySucceeds, DeliveryFails, Delivered, topics
  <2>3. m.topic = "alerts" \/ m.topic = "dlq"
    BY DEF Message
  <2>4. m.position \in alerts' \cup dlq' \cup failed' \cup unreported'
    BY <1>4, <2>3 DEF DeliverySucceeds, DeliveryFails, Delivered, topics
  <2>5. {n.position : n \in inflight} \subseteq {n.position : n \in inflight'} \cup {m.position}
    BY <2>1
  <2> QED
    BY <2>1, <2>2, <2>4, <2>5 DEF Known, InMemory
<1>5. CASE CloseSinks
  <2>1. InMemory = failed \cup InFlightTo("alerts") \cup InFlightTo("dlq")
    BY DEF InMemory, InFlightTo, Message
  <2>2. Known \subseteq Known'
    BY <1>5, <2>1 DEF CloseSinks, Known
  <2> QED
    BY <2>2
<1>6. ASSUME CrashSinks(1 .. ckpt.next - 1)
      PROVE  Known \cap (1 .. ckpt.next - 1) \subseteq Known'
  BY <1>6 DEF CrashSinks, topics, Known
<1>7. OrderlyStep => Known \subseteq Known'
  BY <1>1, <1>2, <1>3, <1>4, <1>5 DEF OrderlyStep
<1> QED
  BY <1>6, <1>7 DEF AlertStep

\* An alert that was given to the sinks is known.
LEMMA EmittedKnown ==
  ASSUME NEW p \in Position, Emit(p)
  PROVE  p \in Known' /\ handling' = p
<1>1. ToAlerts(p).position = p
  BY DEF ToAlerts
<1>2. CASE EmitProduced(p)
  <2>1. ToAlerts(p) \in inflight'
    BY <1>2 DEF EmitProduced, ServeCallbacks
  <2> QED
    BY <2>1, <1>1, <1>2 DEF Known, InMemory, EmitProduced
<1>3. CASE EmitSkipped(p)
  BY <1>3 DEF EmitSkipped, Known
<1> QED
  BY <1>2, <1>3 DEF Emit

\* Every step of the job is a step of the alert sinks.
LEMMA JobStep ==
  ASSUME [Next]_vars
  PROVE  AlertStep /\ (OrderlyStep \/ Crash)
<1> SUFFICES OrderlyStep \/ Crash
  BY DEF AlertStep, Crash
<1>1. ASSUME NEW p \in Position, HandleAlert(p) PROVE OrderlyStep
  BY <1>1 DEF HandleAlert, OrderlyStep
<1>2. ASSUME NEW m \in Message, DeliverAlert(m) PROVE OrderlyStep
  BY <1>2 DEF DeliverAlert, OrderlyStep
<1>3. CASE PersistAlert
  BY <1>3 DEF PersistAlert, OrderlyStep
<1>4. CASE Close
  BY <1>4 DEF Close, OrderlyStep
<1>5. CASE Open \/ ReadMalformed \/ ReadDuplicate \/ TriggerCheckpoint \/ CompleteCheckpoint
           \/ Tick \/ UNCHANGED vars
  BY <1>5 DEF Open, ReadMalformed, ReadDuplicate, Read, TriggerCheckpoint,
              CompleteCheckpoint, Tick, vars, OrderlyStep, alertVars
<1>6. ASSUME NEW t \in Txn, ReadLate(t) \/ ReadNew(t) PROVE OrderlyStep
  BY <1>6 DEF ReadLate, ReadNew, FirstSeen, Read, OrderlyStep, alertVars
<1>7. ASSUME NEW p \in Position, HandleClean(p) \/ EmitRaises(p) \/ PublishEnriched(p)
      PROVE  OrderlyStep
  BY <1>7 DEF HandleClean, EmitRaises, PublishEnriched, OrderlyStep, alertVars
<1> QED
  BY <1>1, <1>2, <1>3, <1>4, <1>5, <1>6, <1>7 DEF Next

\* The snapshots keep their type.
LEMMA Snapshots ==
  /\ Empty \in Snapshot
  /\ Unseen \in [Txn -> 0 .. SeenTTL]
  /\ \A e \in [Txn -> 0 .. SeenTTL] : Earlier(e) \in [Txn -> 0 .. SeenTTL]
  /\ Len(Stream) \in Nat
<1> USE PipelineAssumption, StreamAssumption
<1>1. Len(Stream) \in Nat
  OBVIOUS
<1>2. Unseen \in [Txn -> 0 .. SeenTTL]
  BY DEF Unseen
<1>3. ASSUME NEW e \in [Txn -> 0 .. SeenTTL] PROVE Earlier(e) \in [Txn -> 0 .. SeenTTL]
  BY DEF Earlier
<1>4. Empty \in Snapshot
  BY <1>1, <1>2 DEF Empty, Snapshot
<1> QED
  BY <1>1, <1>2, <1>3, <1>4

LEMMA TypeStep ==
  ASSUME TypeOK, HandlingInv, BarrierInv, [Next]_vars
  PROVE  TypeOK'
<1> USE PipelineAssumption, StreamAssumption
<1>a. AlertTypeOK'
  BY JobStep, AlertType DEF TypeOK
<1>n. Len(Stream) \in Nat
  BY Snapshots
<1>w. wire \in Seq(Position \cup {Barrier}) /\ Len(wire) \in Nat
  BY DEF TypeOK
<1>1. CASE Open
  BY <1>1, <1>a DEF Open, TypeOK, Snapshot, output
<1>2. ASSUME Read
      PROVE  /\ status' = "up" /\ next' \in 1 .. Len(Stream) + 1 /\ next \in Position
             /\ UNCHANGED <<taken, ckpt, restarts, outbox, enriched>>
  BY <1>2, <1>n DEF Read, TypeOK, Position, output
<1>3. CASE ReadMalformed \/ ReadDuplicate
  BY <1>3, <1>2, <1>a DEF ReadMalformed, ReadDuplicate, TypeOK
<1>4. ASSUME NEW t \in Txn, FirstSeen(t)
      PROVE  /\ seen' \in [Txn -> 0 .. SeenTTL]
             /\ age' \in [Txn -> 0 .. SeenTTL + 1]
  BY <1>4 DEF FirstSeen, TypeOK
<1>5. ASSUME NEW t \in Txn, ReadLate(t) PROVE TypeOK'
  <2>1. Read
    BY <1>5 DEF ReadLate, FirstSeen
  <2>2. late' \subseteq Position
    BY <2>1, <1>2, <1>5 DEF ReadLate, TypeOK
  <2>3. UNCHANGED wire
    BY <1>5 DEF ReadLate
  <2>4. FirstSeen(t)
    BY <1>5 DEF ReadLate
  <2> QED
    BY <2>1, <2>2, <2>3, <2>4, <1>2, <1>4, <1>a DEF TypeOK
<1>6. ASSUME NEW t \in Txn, ReadNew(t) PROVE TypeOK'
  <2>1. Read /\ FirstSeen(t)
    BY <1>6 DEF ReadNew, FirstSeen
  <2>2. wire' = Append(wire, next) /\ UNCHANGED late
    BY <1>6 DEF ReadNew
  <2>3. wire' \in Seq(Position \cup {Barrier}) /\ Len(wire') = Len(wire) + 1
    BY <2>1, <2>2, <1>2, <1>w, PrefixAppend
  <2>4. Len(wire') <= WireCap + 1
    BY <2>1, <2>3, <1>w DEF Read
  <2> QED
    BY <2>1, <2>2, <2>3, <2>4, <1>2, <1>4, <1>a DEF TypeOK
<1>7. CASE TriggerCheckpoint
  <2>1. taken' \in Snapshot
    BY <1>7 DEF TriggerCheckpoint, TypeOK, Snapshot
  <2>2. wire' = Append(wire, Barrier)
    BY <1>7 DEF TriggerCheckpoint
  <2>3. wire' \in Seq(Position \cup {Barrier}) /\ Len(wire') = Len(wire) + 1
    BY <2>2, <1>w, PrefixAppend
  <2>4. Len(wire) <= WireCap
    BY <1>7, <1>w DEF TriggerCheckpoint, BarrierInv
  <2> QED
    BY <2>1, <2>3, <2>4, <1>7, <1>w, <1>a DEF TriggerCheckpoint, TypeOK, reading, output
<1>8. ASSUME NEW p, Arrives(p)
      PROVE  /\ wire' \in Seq(Position \cup {Barrier}) /\ Len(wire') <= WireCap + 1
             /\ UNCHANGED <<next, seen, restarts, late, age>>
  <2>1. wire # <<>> /\ wire' = Tail(wire)
    BY <1>8 DEF Arrives
  <2>2. wire' \in Seq(Position \cup {Barrier}) /\ Len(wire') = Len(wire) - 1
    BY <2>1, <1>w, PrefixTail
  <2> QED
    BY <2>2, <1>w, <1>8 DEF Arrives, TypeOK, reading
<1>9. ASSUME NEW p \in Position, HandleClean(p) \/ HandleAlert(p) \/ EmitRaises(p)
      PROVE  TypeOK'
  <2>1. Arrives(p) /\ UNCHANGED <<taken, ckpt, enriched>>
    BY <1>9 DEF HandleClean, HandleAlert, EmitRaises, Transaction
  <2>2. outbox' \subseteq Position
    BY <1>9 DEF HandleClean, HandleAlert, EmitRaises, TypeOK
  <2>3. status' \in {"up", "failing", "down"}
    BY <1>9 DEF HandleClean, HandleAlert, EmitRaises, TypeOK
  <2> QED
    BY <2>1, <2>2, <2>3, <1>8, <1>a DEF TypeOK
<1>10. CASE CompleteCheckpoint
  <2>1. Arrives(Barrier)
    BY <1>10 DEF CompleteCheckpoint
  <2>2. taken' \in Snapshot /\ ckpt' \in Snapshot
    BY <1>10, Snapshots DEF CompleteCheckpoint, TypeOK
  <2>3. outbox' \subseteq Position /\ enriched' \subseteq Position /\ UNCHANGED status
    BY <1>10 DEF CompleteCheckpoint, TypeOK
  <2> QED
    BY <2>1, <2>2, <2>3, <1>8, <1>a DEF TypeOK
<1>11. ASSUME NEW p \in Position, PublishEnriched(p) PROVE TypeOK'
  BY <1>11, <1>a DEF PublishEnriched, TypeOK, reading
<1>12. CASE PersistAlert
  BY <1>12, <1>a DEF PersistAlert, TypeOK, reading, output
<1>13. ASSUME NEW m \in Message, DeliverAlert(m) PROVE TypeOK'
  BY <1>13, <1>a DEF DeliverAlert, TypeOK, reading, output
<1>14. CASE Close \/ Crash
  <2>1. Stop
    BY <1>14 DEF Close, Crash
  <2>2. wire' = <<>> /\ <<>> \in Seq(Position \cup {Barrier}) /\ Len(<<>>) = 0
    BY <2>1 DEF Stop
  <2>3. restarts' \in 0 .. MaxRestarts
    BY <2>1 DEF Stop, TypeOK
  <2>4. taken' \in Snapshot /\ seen' \in [Txn -> 0 .. SeenTTL]
    BY <2>1, Snapshots DEF Stop
  <2> QED
    BY <2>1, <2>2, <2>3, <2>4, <1>a DEF Stop, TypeOK
<1>15. CASE Tick
  <2>1. seen' \in [Txn -> 0 .. SeenTTL]
    BY <1>15, Snapshots DEF Tick, TypeOK
  <2>2. taken' \in Snapshot /\ ckpt' \in Snapshot
    BY <1>15, Snapshots DEF Tick, TypeOK, Snapshot
  <2>3. age' \in [Txn -> 0 .. SeenTTL + 1]
    BY <1>15 DEF Tick, TypeOK
  <2> QED
    BY <2>1, <2>2, <2>3, <1>15, <1>a DEF Tick, TypeOK, output
<1>16. CASE UNCHANGED vars
  BY <1>16, <1>a DEF vars, reading, output, TypeOK
<1> QED
  BY <1>1, <1>3, <1>5, <1>6, <1>7, <1>9, <1>10, <1>11, <1>12, <1>13, <1>14, <1>15, <1>16
     DEF Next

-----------------------------------------------------------------------------
\* The steps that move neither the source nor the wire nor a checkpoint.
Quiet ==
  UNCHANGED <<status, next, wire, taken.next, ckpt.next>>

LEMMA QuietSteps ==
  /\ PersistAlert \/ Tick \/ UNCHANGED vars => Quiet
  /\ \A p \in Position : PublishEnriched(p) => Quiet
  /\ \A m \in Message : DeliverAlert(m) => Quiet
<1>1. PersistAlert \/ Tick \/ UNCHANGED vars => Quiet
  BY DEF PersistAlert, Tick, vars, reading, Quiet
<1>2. ASSUME NEW p \in Position, PublishEnriched(p) PROVE Quiet
  BY <1>2 DEF PublishEnriched, reading, Quiet
<1>3. ASSUME NEW m \in Message, DeliverAlert(m) PROVE Quiet
  BY <1>3 DEF DeliverAlert, reading, Quiet
<1> QED
  BY <1>1, <1>2, <1>3

\* The wire after the source added to it.
LEMMA WireGrows ==
  ASSUME TypeOK, NEW x \in Position \cup {Barrier}, wire' = Append(wire, x)
  PROVE  /\ Len(wire) \in Nat /\ Len(wire') = Len(wire) + 1
         /\ \A i \in 1 .. Len(wire) : wire'[i] = wire[i]
         /\ wire'[Len(wire) + 1] = x
         /\ \A k \in 1 .. Len(wire) : Prefix(wire', k - 1) = Prefix(wire, k - 1)
         /\ Prefix(wire', Len(wire)) = Wire
         /\ Wire' = Wire \cup {x}
<1>1. wire \in Seq(Position \cup {Barrier})
  BY DEF TypeOK
<1>2. /\ Len(wire) \in Nat /\ Len(wire') = Len(wire) + 1
      /\ \A i \in 1 .. Len(wire) : wire'[i] = wire[i]
      /\ wire'[Len(wire) + 1] = x
      /\ \A k \in 0 .. Len(wire) : Prefix(wire', k) = Prefix(wire, k)
      /\ Prefix(wire', Len(wire) + 1) = Prefix(wire, Len(wire)) \cup {x}
  BY <1>1, PrefixAppend
<1>3. Wire' = Wire \cup {x}
  BY <1>2 DEF Wire
<1>4. Prefix(wire', Len(wire)) = Wire
  BY <1>2 DEF Wire
<1>5. \A k \in 1 .. Len(wire) : k - 1 \in 0 .. Len(wire)
  BY <1>2
<1> QED
  BY <1>2, <1>3, <1>4, <1>5

\* The wire after the sinks took from it.
LEMMA WireShrinks ==
  ASSUME TypeOK, NEW p, Arrives(p)
  PROVE  /\ Len(wire) \in Nat \ {0} /\ Len(wire') = Len(wire) - 1
         /\ wire[1] = p
         /\ \A i \in 1 .. Len(wire') : /\ wire'[i] = wire[i + 1] /\ i + 1 \in 1 .. Len(wire)
                                      /\ Prefix(wire, (i + 1) - 1) = {p} \cup Prefix(wire', i - 1)
         /\ Prefix(wire, 1 - 1) = {}
         /\ Wire = {p} \cup Wire'
<1>1. wire \in Seq(Position \cup {Barrier}) /\ wire # <<>> /\ wire' = Tail(wire) /\ p = Head(wire)
  BY DEF TypeOK, Arrives
<1>2. /\ Len(wire) \in Nat \ {0} /\ Len(wire') = Len(wire) - 1
      /\ wire[1] = p
      /\ \A i \in 1 .. Len(wire) - 1 : wire'[i] = wire[i + 1]
      /\ \A k \in 0 .. Len(wire) - 1 : Prefix(wire, k + 1) = {p} \cup Prefix(wire', k)
  BY <1>1, PrefixTail
<1>3. Wire = {p} \cup Wire'
  <2>1. Len(wire) - 1 \in 0 .. Len(wire) - 1 /\ (Len(wire) - 1) + 1 = Len(wire)
    BY <1>2
  <2>2. Prefix(wire, Len(wire)) = {p} \cup Prefix(wire', Len(wire'))
    BY <2>1, <1>2
  <2> QED
    BY <2>2 DEF Wire
<1>4. Prefix(wire, 1 - 1) = {}
  BY DEF Prefix
<1>5. ASSUME NEW i \in 1 .. Len(wire')
      PROVE  /\ wire'[i] = wire[i + 1] /\ i + 1 \in 1 .. Len(wire)
             /\ Prefix(wire, (i + 1) - 1) = {p} \cup Prefix(wire', i - 1)
  <2>1. /\ i \in 1 .. Len(wire) - 1 /\ i + 1 \in 1 .. Len(wire)
        /\ i - 1 \in 0 .. Len(wire) - 1 /\ (i - 1) + 1 = (i + 1) - 1
    BY <1>2
  <2> QED
    BY <2>1, <1>2
<1> QED
  BY <1>2, <1>3, <1>4, <1>5

\* One checkpoint at a time, between the last one and the source.
LEMMA BarrierStep ==
  ASSUME TypeOK, BarrierInv, [Next]_vars
  PROVE  BarrierInv'
<1> USE PipelineAssumption
<1>t. /\ Len(wire) \in Nat /\ Len(wire) <= WireCap + 1
      /\ next \in Nat /\ taken.next \in Nat /\ ckpt.next \in Nat
  BY Snapshots DEF TypeOK, Snapshot
<1>1. CASE Open
  BY <1>1, <1>t DEF Open, BarrierInv
<1>2. ASSUME Read PROVE /\ status = "up" /\ next' = next + 1 /\ next \in Position
                       /\ UNCHANGED <<status, taken, ckpt>> /\ Len(wire) < WireCap
  BY <1>2, <1>t DEF Read, Position, TypeOK
<1>3. ASSUME Read, UNCHANGED wire PROVE BarrierInv'
  BY <1>2, <1>3, <1>t DEF BarrierInv
<1>4. CASE ReadMalformed \/ ReadDuplicate \/ \E t \in Txn : ReadLate(t)
  BY <1>3, <1>4 DEF ReadMalformed, ReadDuplicate, ReadLate, FirstSeen
<1>5. ASSUME NEW t \in Txn, ReadNew(t) PROVE BarrierInv'
  <2>1. Read /\ wire' = Append(wire, next)
    BY <1>5 DEF ReadNew, FirstSeen
  <2>2. next # Barrier
    BY <2>1, <1>2 DEF Position, Barrier
  <2>3. /\ Len(wire') = Len(wire) + 1
        /\ \A i \in 1 .. Len(wire') : wire'[i] = Barrier =>
             i \in 1 .. Len(wire) /\ wire[i] = Barrier
    <3>1. /\ Len(wire') = Len(wire) + 1
          /\ \A i \in 1 .. Len(wire) : wire'[i] = wire[i]
          /\ wire'[Len(wire) + 1] = next
      BY <2>1, <1>2, WireGrows
    <3>2. \A i \in 1 .. Len(wire) + 1 : i \in 1 .. Len(wire) \/ i = Len(wire) + 1
      BY <1>t
    <3> QED
      BY <3>1, <3>2, <2>2
  <2>4. ~(Len(wire') > WireCap)
    BY <2>1, <2>3, <1>2, <1>t
  <2> QED
    BY <2>1, <2>3, <2>4, <1>2, <1>t DEF BarrierInv
<1>6. CASE TriggerCheckpoint
  <2>1. /\ wire' = Append(wire, Barrier) /\ status = "up" /\ taken'.next = next
        /\ UNCHANGED <<status, next, ckpt>>
        /\ \A i \in 1 .. Len(wire) : wire[i] # Barrier
    BY <1>6 DEF TriggerCheckpoint, reading
  <2>2. /\ Len(wire') = Len(wire) + 1
        /\ \A i \in 1 .. Len(wire') : wire'[i] = Barrier => i = Len(wire) + 1
        /\ wire'[Len(wire) + 1] = Barrier
    <3>1. /\ Len(wire') = Len(wire) + 1
          /\ \A i \in 1 .. Len(wire) : wire'[i] = wire[i]
          /\ wire'[Len(wire) + 1] = Barrier
      BY <2>1, WireGrows
    <3>2. \A i \in 1 .. Len(wire) + 1 : i \in 1 .. Len(wire) \/ i = Len(wire) + 1
      BY <1>t
    <3> QED
      BY <3>1, <3>2, <2>1
  <2>3. Len(wire) + 1 \in 1 .. Len(wire')
    BY <2>2, <1>t
  <2> QED
    BY <2>1, <2>2, <2>3, <1>t DEF BarrierInv
<1>7. ASSUME NEW p, Arrives(p)
      PROVE  /\ ~(Len(wire') > WireCap) /\ status = "up" /\ UNCHANGED next
             /\ \A i \in 1 .. Len(wire') : wire'[i] = Barrier =>
                  i + 1 \in 1 .. Len(wire) /\ wire[i + 1] = Barrier
             /\ Len(wire) \in Nat \ {0} /\ Len(wire') = Len(wire) - 1 /\ wire[1] = p
  <2>1. /\ Len(wire) \in Nat \ {0} /\ Len(wire') = Len(wire) - 1 /\ wire[1] = p
        /\ \A i \in 1 .. Len(wire') : wire'[i] = wire[i + 1] /\ i + 1 \in 1 .. Len(wire)
    BY <1>7, WireShrinks
  <2>2. ~(Len(wire') > WireCap)
    BY <2>1, <1>t
  <2> QED
    BY <2>1, <2>2, <1>7 DEF Arrives, reading
<1>8. ASSUME NEW p \in Position, HandleClean(p) \/ HandleAlert(p) \/ EmitRaises(p)
      PROVE  BarrierInv'
  <2>1. Arrives(p) /\ UNCHANGED <<taken, ckpt>> /\ status' \in {"up", "failing"}
    BY <1>8 DEF HandleClean, HandleAlert, EmitRaises, Transaction, Arrives
  <2> QED
    BY <2>1, <1>7, <1>t DEF BarrierInv
<1>9. CASE CompleteCheckpoint
  <2>1. Arrives(Barrier) /\ ckpt' = taken /\ UNCHANGED status
    BY <1>9 DEF CompleteCheckpoint
  <2>2. 1 \in 1 .. Len(wire) /\ wire[1] = Barrier
    BY <2>1, <1>7
  <2>3. \A i \in 1 .. Len(wire') : wire'[i] # Barrier
    BY <2>1, <2>2, <1>7 DEF BarrierInv
  <2>4. taken.next <= next
    BY <2>1, <2>2, <1>7 DEF BarrierInv
  <2> QED
    BY <2>1, <2>3, <2>4, <1>7 DEF BarrierInv
<1>10. CASE Close \/ Crash
  BY <1>10 DEF Close, Crash, Stop, BarrierInv
<1>11. CASE Quiet
  BY <1>11 DEF Quiet, BarrierInv
<1> QED
  BY <1>1, <1>4, <1>5, <1>6, <1>8, <1>9, <1>10, <1>11, QuietSteps DEF Next

-----------------------------------------------------------------------------
\* What a deduplication state remembers lasts while the transactions get older.
LEMMA StillRemembers ==
  ASSUME NEW entries \in [Txn -> 0 .. SeenTTL], NEW n \in Nat,
         age \in [Txn -> 0 .. SeenTTL + 1], age' \in [Txn -> 0 .. SeenTTL + 1],
         \A t \in Txn : age[t] <= age'[t],
         Remembers(entries, n)
  PROVE  /\ \A t \in Txn : entries[t] > 0 => \E q \in 1 .. n - 1 : Stream[q] = t
         /\ \A q \in 1 .. n - 1 : Stream[q] \in Txn =>
              entries[Stream[q]] + age'[Stream[q]] > SeenTTL
<1> USE PipelineAssumption
<1>1. ASSUME NEW q \in 1 .. n - 1, Stream[q] \in Txn
      PROVE  entries[Stream[q]] + age'[Stream[q]] > SeenTTL
  <2> DEFINE t == Stream[q]
  <2>1. entries[t] + age[t] > SeenTTL /\ t \in Txn
    BY <1>1 DEF Remembers
  <2>2. entries[t] \in Int /\ age[t] \in Int /\ age'[t] \in Int /\ age[t] <= age'[t]
    BY <2>1
  <2> QED
    BY <2>1, <2>2
<1> QED
  BY <1>1 DEF Remembers

\* A tick ages what is remembered by as much as it shortens the entry.
LEMMA TickRemembers ==
  ASSUME TypeOK, Tick, NEW entries \in [Txn -> 0 .. SeenTTL], NEW n \in Nat,
         Remembers(entries, n)
  PROVE  /\ \A t \in Txn : Earlier(entries)[t] > 0 => \E q \in 1 .. n - 1 : Stream[q] = t
         /\ \A q \in 1 .. n - 1 : Stream[q] \in Txn =>
              Earlier(entries)[Stream[q]] + age'[Stream[q]] > SeenTTL
<1> USE PipelineAssumption
<1>1. ASSUME NEW t \in Txn, Earlier(entries)[t] > 0 PROVE entries[t] > 0
  BY <1>1 DEF Earlier
<1>2. ASSUME NEW q \in 1 .. n - 1, Stream[q] \in Txn
      PROVE  Earlier(entries)[Stream[q]] + age'[Stream[q]] > SeenTTL
  <2> DEFINE t == Stream[q]
  <2>1. entries[t] + age[t] > SeenTTL /\ t \in Txn
    BY <1>2 DEF Remembers
  <2>2. entries[t] \in 0 .. SeenTTL /\ age[t] \in 0 .. SeenTTL + 1
    BY <2>1 DEF TypeOK
  <2>3. Earlier(entries)[t] = IF entries[t] > 0 THEN entries[t] - 1 ELSE 0
    BY <2>1 DEF Earlier
  <2>4. age'[t] = IF age[t] \in 1 .. SeenTTL THEN age[t] + 1 ELSE age[t]
    BY <2>1 DEF Tick
  <2> QED
    BY <2>1, <2>2, <2>3, <2>4
<1> QED
  BY <1>1, <1>2 DEF Remembers

\* No transaction gets younger.
LEMMA AgeGrows ==
  ASSUME TypeOK, [Next]_vars
  PROVE  \A t \in Txn : age[t] <= age'[t]
<1> USE PipelineAssumption
<1>0. \A t \in Txn : age[t] \in 0 .. SeenTTL + 1
  BY DEF TypeOK
<1>1. CASE UNCHANGED age
  BY <1>0, <1>1
<1>2. ASSUME NEW u \in Txn, FirstSeen(u) PROVE \A t \in Txn : age[t] <= age'[t]
  BY <1>0, <1>2 DEF FirstSeen, TypeOK
<1>3. CASE Tick
  BY <1>0, <1>3 DEF Tick
<1>4. CASE Open \/ ReadMalformed \/ ReadDuplicate \/ TriggerCheckpoint \/ CompleteCheckpoint
           \/ PersistAlert \/ Close \/ Crash \/ UNCHANGED vars
  BY <1>1, <1>4 DEF Open, ReadMalformed, ReadDuplicate, TriggerCheckpoint, PersistAlert,
                    CompleteCheckpoint, Arrives, Close, Crash, Stop, vars
<1>5. ASSUME NEW p \in Position,
             HandleClean(p) \/ HandleAlert(p) \/ EmitRaises(p) \/ PublishEnriched(p)
      PROVE  UNCHANGED age
  BY <1>5 DEF HandleClean, HandleAlert, EmitRaises, PublishEnriched, Transaction, Arrives
<1>6. ASSUME NEW m \in Message, DeliverAlert(m) PROVE UNCHANGED age
  BY <1>6 DEF DeliverAlert
<1>7. ASSUME NEW t \in Txn, ReadLate(t) \/ ReadNew(t) PROVE FirstSeen(t)
  BY <1>7 DEF ReadLate, ReadNew
<1> QED
  BY <1>1, <1>2, <1>3, <1>4, <1>5, <1>6, <1>7 DEF Next

\* The deduplication states belong to their positions.
LEMMA SeenStep ==
  ASSUME TypeOK, TypeOK', SeenInv, [Next]_vars
  PROVE  SeenInv'
<1> USE PipelineAssumption
<1>a. /\ age \in [Txn -> 0 .. SeenTTL + 1] /\ age' \in [Txn -> 0 .. SeenTTL + 1]
      /\ \A t \in Txn : age[t] <= age'[t]
  BY AgeGrows DEF TypeOK
<1>t. /\ seen \in [Txn -> 0 .. SeenTTL] /\ next \in Nat \ {0}
      /\ taken.seen \in [Txn -> 0 .. SeenTTL] /\ taken.next \in Nat
      /\ ckpt.seen \in [Txn -> 0 .. SeenTTL] /\ ckpt.next \in Nat
  BY Snapshots DEF TypeOK, Snapshot
<1>e. Remembers(Empty.seen, Empty.next)'
  BY DEF Empty, Unseen, Remembers
<1>s. ASSUME UNCHANGED <<seen, next>>, Remembers(seen, next) PROVE Remembers(seen, next)'
  BY <1>s, <1>a, <1>t, StillRemembers DEF Remembers
<1>k. ASSUME UNCHANGED taken PROVE Remembers(taken.seen, taken.next)'
  BY <1>k, <1>a, <1>t, StillRemembers DEF Remembers, SeenInv
<1>c. ASSUME UNCHANGED ckpt PROVE Remembers(ckpt.seen, ckpt.next)'
  BY <1>c, <1>a, <1>t, StillRemembers DEF Remembers, SeenInv
<1>1. CASE Open
  <2>1. UNCHANGED <<taken, ckpt>> /\ seen' = ckpt'.seen /\ next' = ckpt'.next
    BY <1>1 DEF Open
  <2>2. Remembers(seen, next)'
    BY <2>1, <1>c DEF Remembers
  <2> QED
    BY <2>1, <2>2, <1>k, <1>c DEF SeenInv
<1>2. ASSUME Read
      PROVE  /\ next' = next + 1 /\ UNCHANGED <<taken, ckpt>> /\ Remembers(seen, next)
             /\ \A q \in 1 .. next' - 1 : q \in 1 .. next - 1 \/ q = next
             /\ next \in 1 .. next' - 1 /\ 1 .. next - 1 \subseteq 1 .. next' - 1
  BY <1>2, <1>t DEF Read, SeenInv
<1>3. CASE ReadMalformed
  <2>1. Read /\ Stream[next] \notin Txn /\ UNCHANGED <<seen, age>>
    BY <1>3, StreamAssumption DEF ReadMalformed
  <2>2. Remembers(seen, next)'
    BY <2>1, <1>2 DEF Remembers
  <2> QED
    BY <2>1, <2>2, <1>2, <1>k, <1>c DEF SeenInv
<1>4. CASE ReadDuplicate
  <2>1. Read /\ Stream[next] \in Txn /\ seen[Stream[next]] > 0 /\ UNCHANGED <<seen, age>>
    BY <1>4 DEF ReadDuplicate
  <2>2. PICK q \in 1 .. next - 1 : Stream[q] = Stream[next]
    BY <2>1, <1>2 DEF Remembers
  <2>3. seen[Stream[next]] + age[Stream[next]] > SeenTTL
    BY <2>1, <2>2, <1>2 DEF Remembers
  <2>4. Remembers(seen, next)'
    BY <2>1, <2>3, <1>2 DEF Remembers
  <2> QED
    BY <2>1, <2>4, <1>2, <1>k, <1>c DEF SeenInv
<1>5. ASSUME NEW t \in Txn, FirstSeen(t) PROVE SeenInv'
  <2>1. /\ Read /\ Stream[next] = t
        /\ seen' = [seen EXCEPT ![t] = SeenTTL]
        /\ age' = [age EXCEPT ![t] = IF @ = 0 THEN 1 ELSE @]
    BY <1>5 DEF FirstSeen
  <2>2. seen'[t] = SeenTTL /\ age'[t] > 0 /\ \A u \in Txn \ {t} : seen'[u] = seen[u]
    BY <2>1, <1>t, <1>a
  <2>3. seen'[t] + age'[t] > SeenTTL
    BY <2>2, <1>a
  <2>4. ASSUME NEW u \in Txn, seen'[u] > 0 PROVE \E q \in 1 .. next' - 1 : Stream[q] = u
    <3>1. CASE u = t
      BY <3>1, <2>1, <1>2
    <3>2. CASE u # t
      <4>1. PICK q \in 1 .. next - 1 : Stream[q] = u
        BY <3>2, <2>1, <2>2, <2>4, <1>2 DEF Remembers
      <4> QED
        BY <4>1, <2>1, <1>2
    <3> QED
      BY <3>1, <3>2
  <2>5. ASSUME NEW q \in 1 .. next' - 1, Stream[q] \in Txn
        PROVE  seen'[Stream[q]] + age'[Stream[q]] > SeenTTL
    <3>1. CASE Stream[q] = t
      BY <3>1, <2>3
    <3>2. CASE Stream[q] # t
      <4>1. q \in 1 .. next - 1
        BY <3>2, <2>1, <1>2
      <4>2. seen[Stream[q]] + age'[Stream[q]] > SeenTTL
        BY <4>1, <2>1, <2>5, <1>2, <1>a, <1>t, StillRemembers
      <4> QED
        BY <4>2, <3>2, <2>2, <2>5
    <3> QED
      BY <3>1, <3>2
  <2>6. Remembers(seen, next)'
    BY <2>4, <2>5 DEF Remembers
  <2> QED
    BY <2>1, <2>6, <1>2, <1>k, <1>c DEF SeenInv
<1>6. ASSUME NEW t \in Txn, ReadLate(t) \/ ReadNew(t) PROVE SeenInv'
  BY <1>5, <1>6 DEF ReadLate, ReadNew
<1>7. CASE TriggerCheckpoint
  <2>1. /\ UNCHANGED <<ckpt, seen, next>> /\ Remembers(seen, next)
        /\ taken'.next = next' /\ taken'.seen = seen'
    BY <1>7 DEF TriggerCheckpoint, SeenInv, reading
  <2>2. Remembers(seen, next)'
    BY <2>1, <1>s
  <2>3. Remembers(taken.seen, taken.next)'
    BY <2>1, <2>2 DEF Remembers
  <2> QED
    BY <2>1, <2>2, <2>3, <1>c DEF SeenInv
<1>8. ASSUME NEW p \in Position, HandleClean(p) \/ HandleAlert(p) \/ EmitRaises(p)
      PROVE  /\ UNCHANGED <<taken, ckpt, seen, next>>
             /\ status # "down"
    BY <1>8 DEF HandleClean, HandleAlert, EmitRaises, Transaction, Arrives, reading
<1>9. CASE CompleteCheckpoint
  <2>1. /\ UNCHANGED <<seen, next, age>> /\ ckpt' = taken /\ taken' = Empty
        /\ status = "up"
    BY <1>9 DEF CompleteCheckpoint, Arrives, reading
  <2>2. Remembers(ckpt.seen, ckpt.next)'
    BY <2>1 DEF SeenInv, Remembers
  <2>3. Remembers(taken.seen, taken.next)'
    BY <2>1, <1>e DEF Remembers
  <2>4. Remembers(seen, next)'
    BY <2>1, <1>s DEF SeenInv
  <2> QED
    BY <2>2, <2>3, <2>4 DEF SeenInv
<1>10. CASE Close \/ Crash
  <2>1. UNCHANGED ckpt /\ taken' = Empty /\ status' = "down"
    BY <1>10 DEF Close, Crash, Stop
  <2>2. Remembers(taken.seen, taken.next)'
    BY <2>1, <1>e DEF Remembers
  <2> QED
    BY <2>1, <2>2, <1>c DEF SeenInv
<1>11. CASE Tick
  <2>1. /\ UNCHANGED <<status, next>> /\ seen' = Earlier(seen)
        /\ taken'.next = taken.next /\ taken'.seen = Earlier(taken.seen)
        /\ ckpt'.next = ckpt.next /\ ckpt'.seen = Earlier(ckpt.seen)
    BY <1>11 DEF Tick
  <2>2. ASSUME Remembers(seen, next) PROVE Remembers(seen, next)'
    BY <2>1, <2>2, <1>11, <1>t, TickRemembers DEF Remembers
  <2>3. Remembers(taken.seen, taken.next)'
    <3>1. Remembers(taken.seen, taken.next)
      BY DEF SeenInv
    <3>2. /\ \A t \in Txn : Earlier(taken.seen)[t] > 0 =>
               \E q \in 1 .. taken.next - 1 : Stream[q] = t
          /\ \A q \in 1 .. taken.next - 1 : Stream[q] \in Txn =>
               Earlier(taken.seen)[Stream[q]] + age'[Stream[q]] > SeenTTL
      BY <3>1, <1>11, <1>t, TickRemembers
    <3> QED
      BY <3>2, <2>1 DEF Remembers
  <2>4. Remembers(ckpt.seen, ckpt.next)'
    <3>1. Remembers(ckpt.seen, ckpt.next)
      BY DEF SeenInv
    <3>2. /\ \A t \in Txn : Earlier(ckpt.seen)[t] > 0 =>
               \E q \in 1 .. ckpt.next - 1 : Stream[q] = t
          /\ \A q \in 1 .. ckpt.next - 1 : Stream[q] \in Txn =>
               Earlier(ckpt.seen)[Stream[q]] + age'[Stream[q]] > SeenTTL
      BY <3>1, <1>11, <1>t, TickRemembers
    <3> QED
      BY <3>2, <2>1 DEF Remembers
  <2> QED
    BY <2>1, <2>2, <2>3, <2>4 DEF SeenInv
<1>12. ASSUME UNCHANGED <<taken, ckpt, seen, next>>, status # "down" \/ status' = status
       PROVE  SeenInv'
  BY <1>12, <1>s, <1>k, <1>c DEF SeenInv
<1>13. CASE PersistAlert \/ UNCHANGED vars
  BY <1>12, <1>13 DEF PersistAlert, vars, reading
<1>14. ASSUME NEW p \in Position, PublishEnriched(p) PROVE SeenInv'
  BY <1>12, <1>14 DEF PublishEnriched, reading
<1>15. ASSUME NEW m \in Message, DeliverAlert(m) PROVE SeenInv'
  BY <1>12, <1>15 DEF DeliverAlert, reading
<1>16. ASSUME NEW p \in Position, HandleClean(p) \/ HandleAlert(p) \/ EmitRaises(p)
       PROVE  SeenInv'
  BY <1>8, <1>12, <1>16
<1> QED
  BY <1>1, <1>3, <1>4, <1>6, <1>7, <1>9, <1>10, <1>11, <1>13, <1>14, <1>15, <1>16 DEF Next

-----------------------------------------------------------------------------
\* Where an element that is put out, or on its way, comes from.
LEMMA PutStep ==
  ASSUME TypeOK, TypeOK', SeenInv, PutInv, [Next]_vars
  PROVE  PutInv'
<1> USE PipelineAssumption
<1>a. /\ age \in [Txn -> 0 .. SeenTTL + 1] /\ age' \in [Txn -> 0 .. SeenTTL + 1]
      /\ \A t \in Txn : age[t] <= age'[t]
  BY AgeGrows DEF TypeOK
<1>b. ASSUME NEW t \in Txn, age[t] > SeenTTL PROVE age'[t] > SeenTTL
  <2>1. age[t] \in Int /\ age'[t] \in Int /\ age[t] <= age'[t]
    BY <1>a
  <2> QED
    BY <2>1, <1>b
<1> DEFINE Put == enriched \cup outbox \cup Wire
<1>1. ASSUME Put' \ {Barrier} \subseteq Put, UNCHANGED late PROVE PutInv'
  <2>1. ASSUME NEW p \in (enriched \cup late \cup outbox \cup Wire)', p # Barrier
        PROVE  Stream[p] \in Txn
    BY <1>1, <2>1 DEF PutInv
  <2>2. ASSUME NEW p \in (enriched \cup outbox \cup Wire)', p # Barrier,
               NEW q \in 1 .. p - 1, Stream[q] = Stream[p]
        PROVE  age'[Stream[p]] > SeenTTL
    <3>1. p \in Put /\ Stream[p] \in Txn
      BY <1>1, <2>2 DEF PutInv
    <3>2. age[Stream[p]] > SeenTTL
      BY <3>1, <2>2 DEF PutInv
    <3> QED
      BY <3>1, <3>2, <1>b
  <2> QED
    BY <2>1, <2>2 DEF PutInv
<1>2. CASE Open \/ ReadMalformed \/ ReadDuplicate \/ PersistAlert \/ Tick \/ UNCHANGED vars
  <2>1. UNCHANGED <<enriched, outbox, wire, late>>
    BY <1>2 DEF Open, ReadMalformed, ReadDuplicate, Read, PersistAlert, Tick, vars, output
  <2> QED
    BY <2>1, <1>1 DEF Wire
<1>3. ASSUME NEW t \in Txn, FirstSeen(t)
      PROVE  /\ next \in Position /\ Stream[next] = t /\ UNCHANGED <<enriched, outbox>>
             /\ \A q \in 1 .. next - 1 : Stream[q] = t => age[t] > SeenTTL
  <2>1. next \in Position /\ Stream[next] = t /\ UNCHANGED <<enriched, outbox>>
        /\ seen[t] = 0 /\ Remembers(seen, next)
    BY <1>3, Snapshots DEF FirstSeen, Read, SeenInv, TypeOK, Position, output
  <2>2. ASSUME NEW q \in 1 .. next - 1, Stream[q] = t PROVE age[t] > SeenTTL
    <3>1. seen[t] + age[t] > SeenTTL
      BY <2>1, <2>2 DEF Remembers
    <3>2. age[t] \in Int
      BY <1>a
    <3> QED
      BY <3>1, <3>2, <2>1
  <2> QED
    BY <2>1, <2>2
<1>4. ASSUME NEW t \in Txn, ReadLate(t) PROVE PutInv'
  <2>1. FirstSeen(t) /\ late' = late \cup {next} /\ UNCHANGED wire
    BY <1>4 DEF ReadLate
  <2>2. UNCHANGED <<enriched, outbox>> /\ Wire' = Wire /\ Stream[next] = t
    BY <2>1, <1>3 DEF Wire
  <2>3. ASSUME NEW p \in (enriched \cup late \cup outbox \cup Wire)', p # Barrier
        PROVE  Stream[p] \in Txn
    BY <2>1, <2>2, <2>3 DEF PutInv
  <2>4. ASSUME NEW p \in (enriched \cup outbox \cup Wire)', p # Barrier,
               NEW q \in 1 .. p - 1, Stream[q] = Stream[p]
        PROVE  age'[Stream[p]] > SeenTTL
    <3>1. p \in enriched \cup outbox \cup Wire
      BY <2>2
    <3>2. Stream[p] \in Txn /\ age[Stream[p]] > SeenTTL
      BY <3>1, <2>4 DEF PutInv
    <3> QED
      BY <3>2, <1>b
  <2> QED
    BY <2>3, <2>4 DEF PutInv
<1>5. ASSUME NEW t \in Txn, ReadNew(t) PROVE PutInv'
  <2>1. FirstSeen(t) /\ wire' = Append(wire, next) /\ UNCHANGED late
    BY <1>5 DEF ReadNew
  <2>2. UNCHANGED <<enriched, outbox>> /\ Wire' = Wire \cup {next} /\ Stream[next] = t
    BY <2>1, <1>3, WireGrows
  <2>3. ASSUME NEW p \in (enriched \cup late \cup outbox \cup Wire)', p # Barrier
        PROVE  Stream[p] \in Txn
    BY <2>1, <2>2, <2>3 DEF PutInv
  <2>4. ASSUME NEW p \in (enriched \cup outbox \cup Wire)', p # Barrier,
               NEW q \in 1 .. p - 1, Stream[q] = Stream[p]
        PROVE  age'[Stream[p]] > SeenTTL
    <3>1. CASE p \in enriched \cup outbox \cup Wire
      <4>1. Stream[p] \in Txn /\ age[Stream[p]] > SeenTTL
        BY <3>1, <2>4 DEF PutInv
      <4> QED
        BY <4>1, <1>b
    <3>2. CASE p = next
      <4>1. age[t] > SeenTTL
        BY <3>2, <2>1, <2>2, <2>4, <1>3
      <4> QED
        BY <4>1, <3>2, <2>2, <1>b
    <3> QED
      BY <3>1, <3>2, <2>2
  <2> QED
    BY <2>3, <2>4 DEF PutInv
<1>6. CASE TriggerCheckpoint
  <2>1. wire' = Append(wire, Barrier) /\ UNCHANGED <<enriched, outbox, late>>
    BY <1>6 DEF TriggerCheckpoint, output
  <2>2. Wire' = Wire \cup {Barrier}
    BY <2>1, WireGrows
  <2> QED
    BY <2>1, <2>2, <1>1
<1>7. ASSUME NEW p \in Position, HandleClean(p) \/ HandleAlert(p) \/ EmitRaises(p)
      PROVE  PutInv'
  <2>1. /\ Arrives(p) /\ UNCHANGED <<enriched, late>>
        /\ outbox' \subseteq outbox \cup {p}
    BY <1>7 DEF HandleClean, HandleAlert, EmitRaises, Transaction, Arrives
  <2>2. Wire = {p} \cup Wire'
    BY <2>1, WireShrinks
  <2> QED
    BY <2>1, <2>2, <1>1
<1>8. CASE CompleteCheckpoint
  <2>1. /\ Arrives(Barrier) /\ UNCHANGED late
        /\ enriched' = enriched \cup outbox /\ outbox' = {}
    BY <1>8 DEF CompleteCheckpoint, Arrives
  <2>2. Wire = {Barrier} \cup Wire'
    BY <2>1, WireShrinks
  <2> QED
    BY <2>1, <2>2, <1>1
<1>9. ASSUME NEW p \in Position, PublishEnriched(p) PROVE PutInv'
  <2>1. /\ p \in outbox /\ outbox' = outbox \ {p} /\ enriched' = enriched \cup {p}
        /\ UNCHANGED <<wire, late>>
    BY <1>9 DEF PublishEnriched
  <2> QED
    BY <2>1, <1>1 DEF Wire
<1>10. ASSUME NEW m \in Message, DeliverAlert(m) PROVE PutInv'
  <2>1. UNCHANGED <<enriched, outbox, wire, late>>
    BY <1>10 DEF DeliverAlert, output
  <2> QED
    BY <2>1, <1>1 DEF Wire
<1>11. CASE Close \/ Crash
  <2>1. wire' = <<>> /\ outbox' = {} /\ UNCHANGED <<enriched, late>>
    BY <1>11 DEF Close, Crash, Stop
  <2>2. Wire' = {}
    BY <2>1 DEF Wire, Prefix
  <2> QED
    BY <2>1, <2>2, <1>1
<1> QED
  BY <1>2, <1>4, <1>5, <1>6, <1>7, <1>8, <1>9, <1>10, <1>11 DEF Next

\* The alert between the sinks is one of a transaction, and known.
LEMMA HandlingStep ==
  ASSUME TypeOK, HandlingInv, [Next]_vars
  PROVE  HandlingInv'
<1> USE PipelineAssumption
<1>a. AlertStep /\ (OrderlyStep \/ Crash) /\ AlertTypeOK
  BY JobStep DEF TypeOK
<1>1. ASSUME UNCHANGED handling, OrderlyStep PROVE HandlingInv'
  BY <1>1, <1>a, AlertsStayKnown DEF HandlingInv
<1>2. ASSUME NEW p \in Position, HandleAlert(p) PROVE HandlingInv'
  <2>1. Stream[p] \in Txn /\ Emit(p)
    BY <1>2 DEF HandleAlert
  <2> QED
    BY <2>1, EmittedKnown DEF HandlingInv
<1>3. CASE handling' = 0
  BY <1>3 DEF HandlingInv
<1>4. CASE PersistAlert \/ Close \/ Crash
  BY <1>3, <1>4 DEF PersistAlert, Persist, Close, CloseSinks, Crash, CrashSinks
<1>5. ASSUME UNCHANGED handling PROVE HandlingInv'
  BY <1>1, <1>4, <1>5, <1>a
<1>6. CASE Open \/ ReadMalformed \/ ReadDuplicate \/ TriggerCheckpoint \/ CompleteCheckpoint
           \/ Tick \/ UNCHANGED vars
  <2>1. UNCHANGED handling
    BY <1>6 DEF Open, ReadMalformed, ReadDuplicate, Read, TriggerCheckpoint, CompleteCheckpoint,
                Tick, vars, alertVars
  <2> QED
    BY <2>1, <1>5
<1>7. ASSUME NEW t \in Txn, ReadLate(t) \/ ReadNew(t) PROVE HandlingInv'
  <2>1. UNCHANGED handling
    BY <1>7 DEF ReadLate, ReadNew, FirstSeen, Read, alertVars
  <2> QED
    BY <2>1, <1>5
<1>8. ASSUME NEW p \in Position, HandleClean(p) \/ EmitRaises(p) \/ PublishEnriched(p)
      PROVE  HandlingInv'
  <2>1. UNCHANGED handling
    BY <1>8 DEF HandleClean, EmitRaises, PublishEnriched, alertVars
  <2> QED
    BY <2>1, <1>5
<1>9. ASSUME NEW m \in Message, DeliverAlert(m) PROVE HandlingInv'
  <2>1. UNCHANGED handling
    BY <1>9 DEF DeliverAlert, DeliverySucceeds, DeliveryFails
  <2> QED
    BY <2>1, <1>5
<1> QED
  BY <1>2, <1>4, <1>6, <1>7, <1>8, <1>9 DEF Next

-----------------------------------------------------------------------------
\* What keeps messages covered: nothing that came through is lost while the job
\* runs, what arrives comes through, and a checkpoint is complete only when what
\* came through is kept.
LEMMA CoverStep ==
  ASSUME NEW ids, ids \subseteq Txn,
         NEW through, NEW kept, NEW through2, NEW kept2,
         TypeOK, SeenInv, BarrierInv, CoverInv(through, kept, ids), [Next]_vars,
         kept \subseteq through,
         status' = "up" => through \subseteq through2,
         \A t \in Txn : ReadLate(t) => next \in through2,
         \A p \in Position :
           (HandleClean(p) \/ HandleAlert(p)) /\ Stream[p] \in ids => p \in through2,
         kept \cap (1 .. ckpt.next - 1) \subseteq kept2,
         CompleteCheckpoint => through \subseteq kept2
  PROVE  /\ status' = "up" => Covers(through2 \cup Wire', ids, next')
         /\ \A k \in 1 .. Len(wire') : wire'[k] = Barrier /\ status' = "up" =>
              Covers(through2 \cup Prefix(wire', k - 1), ids, taken'.next)
         /\ Covers(kept2, ids, ckpt'.next)
<1> DEFINE Goal ==
      /\ status' = "up" => Covers(through2 \cup Wire', ids, next')
      /\ \A k \in 1 .. Len(wire') : wire'[k] = Barrier /\ status' = "up" =>
           Covers(through2 \cup Prefix(wire', k - 1), ids, taken'.next)
      /\ Covers(kept2, ids, ckpt'.next)
<1> SUFFICES Goal
  OBVIOUS
<1>t. /\ next \in Nat \ {0} /\ taken.next \in Nat /\ ckpt.next \in Nat /\ Len(wire) \in Nat
  BY Snapshots DEF TypeOK, Snapshot
<1>p. ASSUME NEW n, n \in 1 .. Len(Stream) PROVE n \in Position
  BY <1>p DEF Position
<1>k. ASSUME ckpt'.next = ckpt.next PROVE Covers(kept2, ids, ckpt'.next)
  <2>1. Covers(kept, ids, ckpt.next)
    BY DEF CoverInv
  <2>2. \A q \in kept : q \in 1 .. ckpt.next - 1 /\ Stream[q] \in ids => q \in kept2
    OBVIOUS
  <2>3. Covers(kept2, ids, ckpt.next)
    BY <2>1, <2>2, <1>t, CoverKeeps
  <2> QED
    BY <2>3, <1>k
<1>1. CASE Open
  <2>1. /\ wire = <<>> /\ wire' = wire /\ ckpt' = ckpt /\ next' = ckpt.next /\ status' = "up"
    BY <1>1 DEF Open, BarrierInv
  <2>2. Len(wire') = 0
    BY <2>1
  <2>3. Covers(through2 \cup Wire', ids, next')
    <3>1. Covers(kept, ids, ckpt.next)
      BY DEF CoverInv
    <3>2. \A q \in kept : q \in 1 .. ckpt.next - 1 /\ Stream[q] \in ids => q \in through2 \cup Wire'
      BY <2>1
    <3>3. Covers(through2 \cup Wire', ids, ckpt.next)
      BY <3>1, <3>2, <1>t, CoverKeeps
    <3> QED
      BY <3>3, <2>1
  <2>4. Covers(kept2, ids, ckpt'.next)
    BY <2>1, <1>k
  <2>5. \A k \in 1 .. Len(wire') : FALSE
    BY <2>2
  <2> QED
    BY <2>3, <2>4, <2>5
<1>2. ASSUME Read PROVE /\ status = "up" /\ status' = "up" /\ next' = next + 1 /\ next \in Position
                       /\ UNCHANGED <<taken, ckpt>>
  BY <1>2, <1>t, Snapshots DEF Read, Position
<1>3. ASSUME Read, Wire \subseteq Wire',
             Stream[next] \in ids =>
               \E q \in 1 .. next : Stream[q] = Stream[next] /\ q \in through2 \cup Wire'
      PROVE  Covers(through2 \cup Wire', ids, next')
  <2>1. Covers(through \cup Wire, ids, next)
    BY <1>2, <1>3 DEF CoverInv
  <2>2. through \cup Wire \subseteq through2 \cup Wire'
    BY <1>2, <1>3
  <2>3. Covers(through2 \cup Wire', ids, next + 1)
    BY <2>1, <2>2, <1>3, <1>t, CoverExtends
  <2> QED
    BY <2>3, <1>2, <1>3
<1>4. ASSUME Read, NEW k \in 1 .. Len(wire), wire[k] = Barrier
      PROVE  Covers(through2 \cup Prefix(wire, k - 1), ids, taken'.next)
  <2>1. Covers(through \cup Prefix(wire, k - 1), ids, taken.next)
    BY <1>2, <1>4 DEF CoverInv
  <2>2. \A q \in through \cup Prefix(wire, k - 1) :
          q \in 1 .. taken.next - 1 /\ Stream[q] \in ids => q \in through2 \cup Prefix(wire, k - 1)
    BY <1>2, <1>4
  <2>3. Covers(through2 \cup Prefix(wire, k - 1), ids, taken.next)
    BY <2>1, <2>2, <1>t, CoverKeeps
  <2> QED
    BY <2>3, <1>2, <1>4
<1>5. ASSUME Read, UNCHANGED wire,
             Stream[next] \in ids =>
               \E q \in 1 .. next : Stream[q] = Stream[next] /\ q \in through2 \cup Wire'
      PROVE  Goal
  <2>1. Wire' = Wire
    BY <1>5 DEF Wire
  <2>2. Covers(through2 \cup Wire', ids, next')
    BY <2>1, <1>3, <1>5
  <2>3. Covers(kept2, ids, ckpt'.next)
    BY <1>2, <1>5, <1>k
  <2> QED
    BY <2>2, <2>3, <1>4, <1>5
<1>6. CASE ReadMalformed
  <2>1. Read /\ UNCHANGED wire /\ Stream[next] \notin ids
    BY <1>6, StreamAssumption DEF ReadMalformed
  <2> QED
    BY <2>1, <1>5
<1>7. CASE ReadDuplicate
  <2>1. Read /\ UNCHANGED wire /\ Stream[next] \in Txn /\ seen[Stream[next]] > 0 /\ status = "up"
    BY <1>7, <1>2 DEF ReadDuplicate
  <2>2. PICK r \in 1 .. next - 1 : Stream[r] = Stream[next]
    BY <2>1 DEF SeenInv, Remembers
  <2>3. ASSUME Stream[next] \in ids
        PROVE  \E q \in 1 .. next : Stream[q] = Stream[next] /\ q \in through2 \cup Wire'
    <3>1. PICK q \in 1 .. r : Stream[q] = Stream[r] /\ q \in through \cup Wire
      BY <2>1, <2>2, <2>3 DEF CoverInv, Covers
    <3>2. q \in 1 .. next
      BY <1>t
    <3>3. q \in through2 \cup Wire'
      BY <3>1, <2>1, <1>2 DEF Wire
    <3> QED
      BY <3>1, <3>2, <3>3, <2>2
  <2> QED
    BY <2>1, <2>3, <1>5
<1>8. ASSUME NEW t \in Txn, ReadLate(t) PROVE Goal
  <2>1. Read /\ UNCHANGED wire /\ next \in through2
    BY <1>8 DEF ReadLate, FirstSeen
  <2>2. next \in 1 .. next
    BY <1>t
  <2> QED
    BY <2>1, <2>2, <1>5
<1>9. ASSUME NEW t \in Txn, ReadNew(t) PROVE Goal
  <2>1. Read /\ wire' = Append(wire, next)
    BY <1>9 DEF ReadNew, FirstSeen
  <2>2. next \in Position
    BY <2>1, <1>2
  <2>3. /\ Len(wire') = Len(wire) + 1
        /\ \A i \in 1 .. Len(wire) : wire'[i] = wire[i]
        /\ wire'[Len(wire) + 1] = next
        /\ \A k \in 1 .. Len(wire) : Prefix(wire', k - 1) = Prefix(wire, k - 1)
        /\ Wire' = Wire \cup {next}
    BY <2>1, <2>2, WireGrows
  <2>4. next \in 1 .. next /\ next # Barrier
    BY <1>t DEF Barrier
  <2>5. Covers(through2 \cup Wire', ids, next')
    BY <2>1, <2>3, <2>4, <1>3
  <2>6. ASSUME NEW k \in 1 .. Len(wire'), wire'[k] = Barrier
        PROVE  Covers(through2 \cup Prefix(wire', k - 1), ids, taken'.next)
    <3>1. k \in 1 .. Len(wire) \/ k = Len(wire) + 1
      BY <2>3, <1>t
    <3>2. k \in 1 .. Len(wire) /\ wire[k] = Barrier
      BY <3>1, <2>3, <2>4, <2>6
    <3> QED
      BY <3>2, <2>1, <2>3, <1>4
  <2>7. Covers(kept2, ids, ckpt'.next)
    BY <2>1, <1>2, <1>k
  <2> QED
    BY <2>5, <2>6, <2>7
<1>10. CASE TriggerCheckpoint
  <2>1. /\ wire' = Append(wire, Barrier) /\ status = "up" /\ status' = "up"
        /\ taken'.next = next /\ next' = next /\ ckpt' = ckpt
        /\ \A i \in 1 .. Len(wire) : wire[i] # Barrier
    BY <1>10 DEF TriggerCheckpoint, reading
  <2>2. /\ Len(wire') = Len(wire) + 1
        /\ \A i \in 1 .. Len(wire) : wire'[i] = wire[i]
        /\ Prefix(wire', Len(wire)) = Wire
        /\ Wire' = Wire \cup {Barrier}
    BY <2>1, WireGrows
  <2>3. Covers(through \cup Wire, ids, next)
    BY <2>1 DEF CoverInv
  <2>4. Covers(through2 \cup Wire', ids, next)
    BY <2>1, <2>2, <2>3, <1>t, CoverKeeps
  <2>5. Covers(through2 \cup Wire, ids, next)
    BY <2>1, <2>3, <1>t, CoverKeeps
  <2>6. ASSUME NEW k \in 1 .. Len(wire'), wire'[k] = Barrier
        PROVE  Covers(through2 \cup Prefix(wire', k - 1), ids, taken'.next)
    <3>1. k \in 1 .. Len(wire) \/ k = Len(wire) + 1
      BY <2>2, <1>t
    <3>2. k - 1 = Len(wire)
      BY <3>1, <2>1, <2>2, <2>6, <1>t
    <3> QED
      BY <3>2, <2>1, <2>2, <2>5
  <2>7. Covers(kept2, ids, ckpt'.next)
    BY <2>1, <1>k
  <2> QED
    BY <2>1, <2>4, <2>6, <2>7
<1>11. ASSUME NEW p \in Position, HandleClean(p) \/ HandleAlert(p) \/ EmitRaises(p) PROVE Goal
  <2>1. Arrives(p) /\ status = "up" /\ UNCHANGED <<taken, ckpt, next>>
    BY <1>11 DEF HandleClean, HandleAlert, EmitRaises, Transaction, Arrives, reading
  <2>2. /\ \A i \in 1 .. Len(wire') : /\ wire'[i] = wire[i + 1] /\ i + 1 \in 1 .. Len(wire)
                                     /\ Prefix(wire, (i + 1) - 1) = {p} \cup Prefix(wire', i - 1)
        /\ Wire = {p} \cup Wire'
    BY <2>1, WireShrinks
  <2>0. status' = "up" /\ Stream[p] \in ids => p \in through2
    BY <1>11 DEF EmitRaises
  <2>3. ASSUME status' = "up" PROVE Covers(through2 \cup Wire', ids, next')
    <3>1. Covers(through \cup Wire, ids, next)
      BY <2>1 DEF CoverInv
    <3>2. \A q \in through \cup Wire :
            q \in 1 .. next - 1 /\ Stream[q] \in ids => q \in through2 \cup Wire'
      BY <2>0, <2>2, <2>3
    <3>3. Covers(through2 \cup Wire', ids, next)
      BY <3>1, <3>2, <1>t, CoverKeeps
    <3> QED
      BY <3>3, <2>1
  <2>4. ASSUME status' = "up", NEW k \in 1 .. Len(wire'), wire'[k] = Barrier
        PROVE  Covers(through2 \cup Prefix(wire', k - 1), ids, taken'.next)
    <3>1. /\ wire[k + 1] = Barrier /\ k + 1 \in 1 .. Len(wire)
          /\ Prefix(wire, (k + 1) - 1) = {p} \cup Prefix(wire', k - 1)
      BY <2>2, <2>4
    <3>2. Covers(through \cup Prefix(wire, (k + 1) - 1), ids, taken.next)
      BY <3>1, <2>1 DEF CoverInv
    <3>3. \A q \in through \cup Prefix(wire, (k + 1) - 1) :
            q \in 1 .. taken.next - 1 /\ Stream[q] \in ids => q \in through2 \cup Prefix(wire', k - 1)
      BY <3>1, <2>0, <2>4
    <3>4. Covers(through2 \cup Prefix(wire', k - 1), ids, taken.next)
      BY <3>2, <3>3, <1>t, CoverKeeps
    <3> QED
      BY <3>4, <2>1
  <2>5. Covers(kept2, ids, ckpt'.next)
    BY <2>1, <1>k
  <2> QED
    BY <2>3, <2>4, <2>5
<1>12. CASE CompleteCheckpoint
  <2>1. Arrives(Barrier) /\ status = "up" /\ ckpt' = taken /\ UNCHANGED <<next, status>>
    BY <1>12 DEF CompleteCheckpoint, Arrives, reading
  <2>2. /\ Len(wire) \in Nat \ {0} /\ wire[1] = Barrier
        /\ \A i \in 1 .. Len(wire') : wire'[i] = wire[i + 1] /\ i + 1 \in 1 .. Len(wire)
        /\ Prefix(wire, 1 - 1) = {}
        /\ Wire = {Barrier} \cup Wire'
    BY <2>1, WireShrinks
  <2>3. 1 \in 1 .. Len(wire)
    BY <2>2
  <2>4. ASSUME NEW k \in 1 .. Len(wire'), wire'[k] = Barrier PROVE FALSE
    <3>1. k + 1 = 1
      BY <2>2, <2>3, <2>4 DEF BarrierInv
    <3>2. k \in Nat \ {0}
      OBVIOUS
    <3> QED
      BY <3>1, <3>2
  <2>5. Covers(through2 \cup Wire', ids, next')
    <3>1. Covers(through \cup Wire, ids, next)
      BY <2>1 DEF CoverInv
    <3>2. Barrier \notin 1 .. next - 1
      BY DEF Barrier
    <3>3. \A q \in through \cup Wire :
            q \in 1 .. next - 1 /\ Stream[q] \in ids => q \in through2 \cup Wire'
      BY <2>1, <2>2, <3>2
    <3>4. Covers(through2 \cup Wire', ids, next)
      BY <3>1, <3>3, <1>t, CoverKeeps
    <3> QED
      BY <3>4, <2>1
  <2>6. Covers(kept2, ids, ckpt'.next)
    <3>1. Covers(through \cup Prefix(wire, 1 - 1), ids, taken.next)
      BY <2>1, <2>2, <2>3 DEF CoverInv
    <3>2. \A q \in through \cup Prefix(wire, 1 - 1) :
            q \in 1 .. taken.next - 1 /\ Stream[q] \in ids => q \in kept2
      BY <2>2, <1>12
    <3>3. Covers(kept2, ids, taken.next)
      BY <3>1, <3>2, <1>t, CoverKeeps
    <3> QED
      BY <3>3, <2>1
  <2> QED
    BY <2>4, <2>5, <2>6
<1>13. CASE Close \/ Crash
  <2>1. status' = "down" /\ UNCHANGED ckpt
    BY <1>13 DEF Close, Crash, Stop
  <2>2. Covers(kept2, ids, ckpt'.next)
    BY <2>1, <1>k
  <2> QED
    BY <2>1, <2>2
<1>14. CASE Quiet
  <2>1. UNCHANGED <<status, next, wire, taken.next, ckpt.next>>
    BY <1>14 DEF Quiet
  <2>2. Wire' = Wire
    BY <2>1 DEF Wire
  <2>3. ASSUME status' = "up" PROVE Covers(through2 \cup Wire', ids, next')
    <3>1. Covers(through \cup Wire, ids, next)
      BY <2>1, <2>3 DEF CoverInv
    <3>2. Covers(through2 \cup Wire', ids, next)
      BY <3>1, <2>2, <2>3, <1>t, CoverKeeps
    <3> QED
      BY <3>2, <2>1
  <2>4. ASSUME status' = "up", NEW k \in 1 .. Len(wire'), wire'[k] = Barrier
        PROVE  Covers(through2 \cup Prefix(wire', k - 1), ids, taken'.next)
    <3>1. Covers(through \cup Prefix(wire, k - 1), ids, taken.next)
      BY <2>1, <2>4 DEF CoverInv
    <3>2. Covers(through2 \cup Prefix(wire, k - 1), ids, taken.next)
      BY <3>1, <2>4, <1>t, CoverKeeps
    <3> QED
      BY <3>2, <2>1
  <2>5. Covers(kept2, ids, ckpt'.next)
    BY <2>1, <1>k
  <2> QED
    BY <2>3, <2>4, <2>5
<1> HIDE DEF Goal
<1> QED
  BY <1>1, <1>6, <1>7, <1>8, <1>9, <1>10, <1>11, <1>12, <1>13, <1>14, QuietSteps DEF Next

\* An output stays, and what Flink's sink holds is published or held while the job
\* runs.
LEMMA OutputsStay ==
  ASSUME [Next]_vars
  PROVE  /\ enriched \subseteq enriched' /\ late \subseteq late'
         /\ status' = "up" => outbox \subseteq enriched' \cup outbox'
<1>1. CASE UNCHANGED <<enriched, outbox, late>>
  BY <1>1
<1>2. CASE Open \/ ReadMalformed \/ ReadDuplicate \/ TriggerCheckpoint \/ PersistAlert \/ Tick
           \/ UNCHANGED vars
  BY <1>1, <1>2 DEF Open, ReadMalformed, ReadDuplicate, Read, TriggerCheckpoint, PersistAlert,
                    Tick, vars, output
<1>3. ASSUME NEW t \in Txn, ReadLate(t) \/ ReadNew(t)
      PROVE  UNCHANGED <<enriched, outbox>> /\ late \subseteq late'
  BY <1>3 DEF ReadLate, ReadNew, FirstSeen, Read, output
<1>4. ASSUME NEW p \in Position, HandleClean(p) \/ HandleAlert(p) \/ EmitRaises(p)
      PROVE  UNCHANGED <<enriched, late>> /\ outbox \subseteq outbox'
  BY <1>4 DEF HandleClean, HandleAlert, EmitRaises, Transaction, Arrives
<1>5. ASSUME NEW p \in Position, PublishEnriched(p)
      PROVE  UNCHANGED late /\ enriched' = enriched \cup {p} /\ outbox' = outbox \ {p}
  BY <1>5 DEF PublishEnriched
<1>6. CASE CompleteCheckpoint
  BY <1>6 DEF CompleteCheckpoint, Arrives
<1>7. CASE Close \/ Crash
  BY <1>7 DEF Close, Crash, Stop
<1>8. ASSUME NEW m \in Message, DeliverAlert(m) PROVE UNCHANGED <<enriched, outbox, late>>
  BY <1>8 DEF DeliverAlert, output
<1> QED
  BY <1>1, <1>2, <1>3, <1>4, <1>5, <1>6, <1>7, <1>8 DEF Next

LEMMA OutputStep ==
  ASSUME TypeOK, SeenInv, BarrierInv, OutputInv, [Next]_vars
  PROVE  OutputInv'
<1> DEFINE through == enriched \cup late \cup outbox
           kept == enriched \cup late
<1>1. CoverInv(through, kept, Txn)
  BY DEF OutputInv
<1>2. kept \subseteq kept' /\ (status' = "up" => through \subseteq through')
  BY OutputsStay
<1>3. ASSUME NEW t \in Txn, ReadLate(t) PROVE next \in through'
  BY <1>3 DEF ReadLate
<1>4. ASSUME NEW p \in Position, HandleClean(p) \/ HandleAlert(p) PROVE p \in through'
  BY <1>4 DEF HandleClean, HandleAlert
<1>5. ASSUME CompleteCheckpoint PROVE through \subseteq kept'
  BY <1>5 DEF CompleteCheckpoint, Arrives
<1>6. kept \subseteq through
  OBVIOUS
<1> HIDE DEF through, kept
<1>7. /\ status' = "up" => Covers(through' \cup Wire', Txn, next')
      /\ \A k \in 1 .. Len(wire') : wire'[k] = Barrier /\ status' = "up" =>
           Covers(through' \cup Prefix(wire', k - 1), Txn, taken'.next)
      /\ Covers(kept', Txn, ckpt'.next)
  BY <1>1, <1>2, <1>3, <1>4, <1>5, <1>6, CoverStep
<1> QED
  BY <1>7 DEF through, kept, OutputInv, CoverInv

LEMMA AlertStepKeeps ==
  ASSUME TypeOK, SeenInv, BarrierInv, AlertInv, [Next]_vars
  PROVE  AlertInv'
<1> DEFINE through == Known \cup late
<1>0. AlertStep /\ (OrderlyStep \/ Crash) /\ AlertTypeOK
  BY JobStep DEF TypeOK
<1>1. CoverInv(through, through, Suspicious)
  BY DEF AlertInv
<1>2. through \cap (1 .. ckpt.next - 1) \subseteq through'
  BY <1>0, OutputsStay, AlertsStayKnown
<1>3. status' = "up" => through \subseteq through'
  BY <1>0, OutputsStay, AlertsStayKnown DEF Crash, Stop
<1>4. ASSUME NEW t \in Txn, ReadLate(t) PROVE next \in through'
  BY <1>4 DEF ReadLate
<1>5. ASSUME NEW p \in Position, HandleClean(p) \/ HandleAlert(p), Stream[p] \in Suspicious
      PROVE  p \in through'
  BY <1>5, EmittedKnown DEF HandleClean, HandleAlert
<1>6. ASSUME CompleteCheckpoint PROVE through \subseteq through'
  <2>1. UNCHANGED alertVars
    BY <1>6 DEF CompleteCheckpoint
  <2>2. OrderlyStep
    BY <2>1 DEF OrderlyStep
  <2> QED
    BY <2>2, <1>0, OutputsStay, AlertsStayKnown
<1>7. Suspicious \subseteq Txn
  BY PipelineAssumption
<1> HIDE DEF through
<1>8. /\ status' = "up" => Covers(through' \cup Wire', Suspicious, next')
      /\ \A k \in 1 .. Len(wire') : wire'[k] = Barrier /\ status' = "up" =>
           Covers(through' \cup Prefix(wire', k - 1), Suspicious, taken'.next)
      /\ Covers(through', Suspicious, ckpt'.next)
  BY <1>1, <1>2, <1>3, <1>4, <1>5, <1>6, <1>7, CoverStep
<1> QED
  BY <1>8 DEF through, AlertInv, CoverInv

-----------------------------------------------------------------------------
LEMMA IInvInit == Init => IInv
<1> SUFFICES ASSUME Init PROVE IInv
  OBVIOUS
<1> USE PipelineAssumption, StreamAssumption
<1>1. TypeOK
  <2>1. AlertTypeOK
    BY DEF Init, AlertInit, AlertTypeOK
  <2>2. age \in [Txn -> 0 .. SeenTTL + 1]
    BY DEF Init, Unseen
  <2>3. wire \in Seq(Position \cup {Barrier}) /\ Len(wire) = 0
    BY DEF Init
  <2>4. taken \in Snapshot /\ ckpt \in Snapshot /\ seen \in [Txn -> 0 .. SeenTTL]
    BY Snapshots DEF Init
  <2>5. next \in 1 .. Len(Stream) + 1
    BY Snapshots DEF Init
  <2> QED
    BY <2>1, <2>2, <2>3, <2>4, <2>5 DEF Init, TypeOK
<1>2. Len(wire) = 0 /\ status = "down"
  BY DEF Init
<1>3. SeenInv
  BY DEF Init, SeenInv, Remembers, Empty, Unseen
<1>4. BarrierInv
  BY <1>2 DEF Init, BarrierInv
<1>5. OutputInv /\ AlertInv
  BY <1>2 DEF Init, OutputInv, AlertInv, CoverInv, Covers, Empty
<1>6. PutInv
  BY <1>2 DEF Init, PutInv, Wire, Prefix
<1>7. HandlingInv
  BY DEF Init, AlertInit, HandlingInv
<1> QED
  BY <1>1, <1>3, <1>4, <1>5, <1>6, <1>7 DEF IInv

LEMMA IInvStep ==
  ASSUME IInv, [Next]_vars
  PROVE  IInv'
<1>1. TypeOK /\ SeenInv /\ BarrierInv /\ OutputInv /\ AlertInv /\ PutInv /\ HandlingInv
  BY DEF IInv
<1>2. TypeOK'
  BY <1>1, TypeStep
<1>3. SeenInv' /\ PutInv'
  BY <1>1, <1>2, SeenStep, PutStep
<1>4. BarrierInv' /\ HandlingInv'
  BY <1>1, BarrierStep, HandlingStep
<1>5. OutputInv' /\ AlertInv'
  BY <1>1, OutputStep, AlertStepKeeps
<1> QED
  BY <1>2, <1>3, <1>4, <1>5 DEF IInv

\* The invariant that the properties follow from.
LEMMA Inductive == Spec => []IInv
<1>1. Init => IInv
  BY IInvInit
<1>2. IInv /\ [Next]_vars => IInv'
  BY IInvStep
<1> QED
  BY <1>1, <1>2, PTL DEF Spec

\* The types, and that the buffers hold no more than they may, whatever the stream.
THEOREM TypeCorrect == Spec => []TypeOK
<1>1. IInv => TypeOK
  BY DEF IInv
<1> QED
  BY <1>1, Inductive, PTL

\* TransactionDedup puts out another message of a transaction only after its TTL,
\* in every run of the job and across all its restarts.
THEOREM DedupOncePerTTL == Spec => []OncePerTTL
<1>1. ASSUME IInv PROVE OncePerTTL
  <2> SUFFICES ASSUME NEW p \in outbox \cup enriched, NEW q \in outbox \cup enriched,
                      p # q, Stream[p] = Stream[q]
               PROVE  age[Stream[p]] > SeenTTL
    BY DEF OncePerTTL
  <2>1. p \in Nat \ {0} /\ q \in Nat \ {0}
    BY <1>1 DEF IInv, TypeOK, Position
  <2>2. p # Barrier /\ q # Barrier
    BY <2>1 DEF Barrier
  <2>3. CASE p < q
    <3>1. p \in 1 .. q - 1
      BY <2>1, <2>3
    <3> QED
      BY <3>1, <2>2, <1>1 DEF IInv, PutInv
  <2>4. CASE q < p
    <3>1. q \in 1 .. p - 1
      BY <2>1, <2>4
    <3> QED
      BY <3>1, <2>2, <1>1 DEF IInv, PutInv
  <2> QED
    BY <2>1, <2>3, <2>4
<1>2. IInv => OncePerTTL
  BY <1>1
<1> QED
  BY <1>2, Inductive, PTL

\* The alert sinks lose no alert without a trace: not by a failed delivery, a full
\* queue, a restart, nor by a crash between a checkpoint and the delivery.
THEOREM NoAlertVanishes == Spec => []AlertsAccounted
<1>1. ASSUME IInv PROVE AlertsAccounted
  <2> SUFFICES ASSUME NEW p \in Position, Passed(p), Stream[p] \in Suspicious
               PROVE  \E q \in 1 .. p : /\ Stream[q] = Stream[p]
                                       /\ \/ Accounted(q)
                                          \/ q \in late
                                          \/ \E i \in 1 .. Len(wire) : wire[i] = q
    BY DEF AlertsAccounted
  <2>1. /\ next \in Nat /\ ckpt.next \in Nat /\ p \in Nat \ {0}
    BY <1>1, Snapshots DEF IInv, TypeOK, Snapshot, Position
  <2>2. PICK q \in 1 .. p : Stream[q] = Stream[p] /\ q \in Known \cup late \cup Wire
    <3>1. CASE status = "up"
      <4>1. p \in 1 .. next - 1
        BY <3>1, <2>1 DEF Passed
      <4> QED
        BY <4>1, <3>1, <1>1 DEF IInv, AlertInv, CoverInv, Covers
    <3>2. CASE status # "up"
      <4>1. p \in 1 .. ckpt.next - 1
        BY <3>2, <2>1 DEF Passed
      <4> QED
        BY <4>1, <1>1 DEF IInv, AlertInv, CoverInv, Covers
    <3> QED
      BY <3>1, <3>2
  <2>3. q \in Known => Accounted(q)
    BY DEF Known, Accounted
  <2>4. q \in Wire => \E i \in 1 .. Len(wire) : wire[i] = q
    BY DEF Wire, Prefix
  <2> QED
    BY <2>2, <2>3, <2>4
<1>2. IInv => AlertsAccounted
  BY <1>1
<1> QED
  BY <1>2, Inductive, PTL

\* _AlertSinkFunction writes a row only after the Kafka sink has taken the alert.
THEOREM RowFollowsEmission == Spec => RowAfterEmission
<1>1. ASSUME IInv, [Next]_vars
      PROVE  \A t \in rows' \ rows : \E p \in Position : Stream[p] = t /\ Accounted(p)
  <2> SUFFICES ASSUME NEW t \in rows' \ rows
               PROVE  \E p \in Position : Stream[p] = t /\ Accounted(p)
    OBVIOUS
  <2>1. AlertStep
    BY <1>1, JobStep
  <2>2. Persist
    BY <2>1 DEF AlertStep, OrderlyStep, Emit, EmitProduced, EmitSkipped, DeliverySucceeds,
                DeliveryFails, CloseSinks, CrashSinks, alertVars
  <2>3. handling \in Position /\ handling \in Known /\ t = Stream[handling]
    BY <2>2, <1>1 DEF Persist, IInv, HandlingInv, TypeOK, AlertTypeOK
  <2> QED
    BY <2>3 DEF Known, Accounted
<1>2. IInv /\ [Next]_vars =>
        [\A t \in rows' \ rows : \E p \in Position : Stream[p] = t /\ Accounted(p)]_vars
  BY <1>1
<1> QED
  BY <1>2, Inductive, PTL DEF Spec, RowAfterEmission

\* The job keeps its promise: it implements AtLeastOnce, with lateness counted as
\* an output.
THEOREM Implementation == Spec => PublishesAtLeastOnce
<1> DEFINE committed == ckpt.next - 1
           done == {Stream[p] : p \in enriched \cup late}
<1>1. ASSUME Init PROVE Promise!Init
  BY <1>1 DEF Init, Promise!Init, Empty
<1>2. ASSUME IInv, IInv', [Next]_vars PROVE [Promise!Next]_<<committed, done>>
  <2>1. ckpt.next <= ckpt'.next
    <3>0. ckpt.next \in Nat
      BY <1>2, Snapshots DEF IInv, TypeOK, Snapshot
    <3>1. CASE CompleteCheckpoint
      <4>1. ckpt' = taken /\ Arrives(Barrier) /\ TypeOK /\ BarrierInv
        BY <3>1, <1>2 DEF CompleteCheckpoint, IInv
      <4>2. Len(wire) \in Nat \ {0} /\ wire[1] = Barrier
        BY <4>1, WireShrinks
      <4>3. 1 \in 1 .. Len(wire)
        BY <4>2
      <4> QED
        BY <4>1, <4>2, <4>3 DEF BarrierInv
    <3>2. ASSUME ckpt'.next = ckpt.next PROVE ckpt.next <= ckpt'.next
      BY <3>0, <3>2
    <3>3. CASE Open \/ ReadMalformed \/ ReadDuplicate \/ TriggerCheckpoint \/ Close \/ Crash
      BY <3>2, <3>3 DEF Open, ReadMalformed, ReadDuplicate, Read, TriggerCheckpoint, Close,
                        Crash, Stop
    <3>4. CASE Quiet
      BY <3>2, <3>4 DEF Quiet
    <3>5. ASSUME NEW t \in Txn, ReadLate(t) \/ ReadNew(t) PROVE ckpt'.next = ckpt.next
      BY <3>5 DEF ReadLate, ReadNew, FirstSeen, Read
    <3>6. ASSUME NEW p \in Position, HandleClean(p) \/ HandleAlert(p) \/ EmitRaises(p)
          PROVE  ckpt'.next = ckpt.next
      BY <3>6 DEF HandleClean, HandleAlert, EmitRaises
    <3> QED
      BY <3>1, <3>2, <3>3, <3>4, <3>5, <3>6, <1>2, QuietSteps DEF Next
  <2>2. committed' \in committed .. Len(Stream)
    <3>1. ckpt.next \in Nat /\ ckpt'.next \in 1 .. Len(Stream) + 1
      BY <1>2, Snapshots DEF IInv, TypeOK, Snapshot
    <3> QED
      BY <2>1, <3>1, Snapshots
  <2>3. done' \in SUBSET Txn
    <3>1. ASSUME NEW p \in (enriched \cup late)' PROVE Stream[p] \in Txn
      <4>1. p # Barrier
        BY <1>2 DEF IInv, TypeOK, Position, Barrier
      <4> QED
        BY <4>1, <1>2 DEF IInv, PutInv
    <3> QED
      BY <3>1
  <2>4. done' = done \cup done'
    <3>1. enriched \cup late \subseteq (enriched \cup late)'
      BY <1>2, OutputsStay
    <3> QED
      BY <3>1
  <2>5. ASSUME NEW p \in 1 .. committed', Stream[p] \in Txn PROVE Stream[p] \in done'
    <3>1. PICK q \in 1 .. p : Stream[q] = Stream[p] /\ q \in (enriched \cup late)'
      BY <1>2, <2>5 DEF IInv, OutputInv, CoverInv, Covers
    <3> QED
      BY <3>1
  <2>6. PICK n \in ckpt.next - 1 .. Len(Stream) : n = ckpt'.next - 1
    BY <2>2
  <2>7. PICK new \in SUBSET Txn : new = done'
    BY <2>3
  <2>8. Promise!Advance(n, new)
    BY <2>4, <2>5, <2>6, <2>7 DEF Promise!Advance
  <2> HIDE DEF committed, done
  <2> QED
    BY <2>8 DEF Promise!Next
<1>3. IInv /\ IInv' /\ [Next]_vars => [Promise!Next]_<<committed, done>>
  BY <1>2
<1> QED
  BY <1>1, <1>3, Inductive, PTL DEF Spec, PublishesAtLeastOnce, Promise!Spec
=============================================================================
