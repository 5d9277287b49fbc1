------------------------ MODULE QueueConsumerProofs -------------------------
(* Proofs about QueueConsumer, for every set of copies, ids and consumers, *)
(* both stores, both topologies, and any number of faults.                 *)
EXTENDS QueueConsumer, FiniteSetTheorems, TLAPS

Stages == {"idle", "claiming", "reading", "running", "completing",
           "releasing", "failed", "rejecting", "acking"}

(* The part of the types the safety proofs use; a busy consumer has a copy *)
(* in hand.                                                                *)
Shape ==
    /\ place \in [Copies -> Places]
    /\ mark \in [Keys -> {"none", "in_flight", "done"}]
    /\ consumer \in [Consumers -> [at : Stages, copy : Copies \cup {NoCopy}]]
    /\ effects \in [Keys -> Nat]
    /\ skipped \in SUBSET Keys
    /\ \A k \in Consumers : consumer[k] # Idle => consumer[k].copy \in Copies

(* LongTTL: whoever works on an id has its mark in flight, and is alone.   *)
MarkGuards == LongTTL => \A k, l \in Consumers :
    consumer[k].at \in {"running", "completing", "releasing"} =>
        /\ mark[KeyOf[consumer[k].copy]] = "in_flight"
        /\ /\ consumer[l].at \in {"running", "completing", "releasing"}
           /\ KeyOf[consumer[l].copy] = KeyOf[consumer[k].copy]
           => k = l

(* An id is settled once it took effect or was skipped.                    *)
Settled(key) == effects[key] >= 1 \/ key \in skipped

(* A done mark, a written effect and an ack all mean the id is settled.    *)
AcksSettled ==
    /\ \A key \in Keys : mark[key] = "done" => Settled(key)
    /\ \A k \in Consumers : consumer[k].at \in {"completing", "acking"} =>
         Settled(KeyOf[consumer[k].copy])

(* A published id is settled or has a copy no ack is due on.  A copy being *)
(* replayed does not count: its ack is due.                                *)
KeyAlive == \A c \in Copies : place[c] # "unpublished" =>
    \/ Settled(KeyOf[c])
    \/ \E d \in Copies : /\ KeyOf[d] = KeyOf[c]
                         /\ place[d] \in {"main", "held", "retry", "dead"}

IInv == Shape /\ MarkGuards /\ AcksSettled /\ KeyAlive

LEMMA InitIInv == Init => IInv
<1> SUFFICES ASSUME Init PROVE IInv
  OBVIOUS
<1>1. Shape
  BY DEF Init, Shape, Places, Stages, Idle
<1>2. MarkGuards /\ AcksSettled /\ KeyAlive
  BY DEF Init, MarkGuards, AcksSettled, KeyAlive, Idle
<1> QED
  BY <1>1, <1>2 DEF IInv

(* A step that moves copies only among the places KeyAlive counts, and     *)
(* forgets neither effects nor skips, keeps KeyAlive.                      *)
LEMMA AliveKept ==
  ASSUME KeyAlive, Shape,
         \A key \in Keys : Settled(key) => Settled(key)',
         \A c \in Copies : place[c] \in {"main", "held", "retry", "dead"} =>
           place'[c] \in {"main", "held", "retry", "dead"} \/ Settled(KeyOf[c])',
         \A c \in Copies : place'[c] # "unpublished" =>
           place[c] # "unpublished" \/ place'[c] \in {"main", "held", "retry", "dead"}
  PROVE  KeyAlive'
<1> SUFFICES ASSUME NEW c \in Copies, place'[c] # "unpublished"
             PROVE  \/ Settled(KeyOf[c])'
                    \/ \E d \in Copies : KeyOf[d] = KeyOf[c]
                         /\ place'[d] \in {"main", "held", "retry", "dead"}
  BY DEF KeyAlive
<1>0. KeyOf[c] \in Keys
  BY ConsumerAssumption
<1>1. CASE place'[c] \in {"main", "held", "retry", "dead"}
  BY <1>1
<1>2. CASE place[c] # "unpublished"
  <2>1. CASE Settled(KeyOf[c])
    BY <2>1, <1>0
  <2>2. CASE ~Settled(KeyOf[c])
    <3>1. PICK d \in Copies : KeyOf[d] = KeyOf[c]
                 /\ place[d] \in {"main", "held", "retry", "dead"}
      BY <1>2, <2>2 DEF KeyAlive
    <3> QED
      BY <3>1
  <2> QED
    BY <2>1, <2>2
<1> QED
  BY <1>1, <1>2

LEMMA NextIInv == IInv /\ [Next]_vars => IInv'
<1> SUFFICES ASSUME IInv, [Next]_vars PROVE IInv'
  OBVIOUS
<1> USE ConsumerAssumption DEF IInv, Stages, Idle
<1>1. ASSUME NEW c \in Copies, Publish(c) \/ RetryExpires(c) \/ ReplayAck(c) \/ ReplayDies(c)
      PROVE  IInv'
  <2> USE <1>1 DEF Publish, RetryExpires, ReplayAck, ReplayDies, history
  <2>1. Shape'
    BY DEF Shape, Places
  <2>2. MarkGuards' /\ AcksSettled'
    BY DEF MarkGuards, AcksSettled, Settled
  <2>3. KeyAlive'
    BY AliveKept DEF Shape, Settled
  <2> QED
    BY <2>1, <2>2, <2>3
<1>2. ASSUME NEW c \in Copies, NEW d \in Copies, ReplayPublish(c, d) PROVE IInv'
  <2> USE <1>2 DEF ReplayPublish, history
  <2>1. Shape'
    BY DEF Shape, Places
  <2>2. MarkGuards' /\ AcksSettled'
    BY DEF MarkGuards, AcksSettled, Settled
  <2>3. KeyAlive'
    BY DEF KeyAlive, Settled, Shape
  <2> QED
    BY <2>1, <2>2, <2>3
<1>3. ASSUME NEW k \in Consumers, NEW c \in Copies, Deliver(k, c) PROVE IInv'
  <2> USE <1>3 DEF Deliver, history
  <2>1. Shape'
    BY DEF Shape, Places
  <2>2. MarkGuards' /\ AcksSettled'
    BY DEF Shape, MarkGuards, AcksSettled, Settled
  <2>3. KeyAlive'
    BY AliveKept DEF Shape, Settled
  <2> QED
    BY <2>1, <2>2, <2>3
<1>4. ASSUME NEW k \in Consumers, ClaimNew(k) PROVE IInv'
  <2> USE <1>4 DEF ClaimNew, ClaimWins, Goes, history
  <2>1. Shape' /\ consumer[k].copy \in Copies
    BY DEF Shape
  <2>2. MarkGuards' /\ AcksSettled'
    BY <2>1 DEF Shape, MarkGuards, AcksSettled, Settled
  <2>3. KeyAlive'
    BY DEF KeyAlive, Settled
  <2> QED
    BY <2>1, <2>2, <2>3
<1>5. ASSUME NEW k \in Consumers, ClaimLost(k) \/ ClaimConcurrent(k) PROVE IInv'
  <2> USE <1>5 DEF ClaimLost, ClaimConcurrent, Reads, Goes, history
  <2>1. Shape'
    BY DEF Shape
  <2>2. MarkGuards' /\ AcksSettled'
    BY DEF Shape, MarkGuards, AcksSettled, Settled
  <2>3. KeyAlive'
    BY DEF KeyAlive, Settled
  <2> QED
    BY <2>1, <2>2, <2>3
<1>6. ASSUME NEW k \in Consumers, ClaimDone(k) PROVE IInv'
  <2> USE <1>6 DEF ClaimDone, AcksLost, Reads, Goes
  <2>1. Shape' /\ consumer[k].copy \in Copies
    BY DEF Shape
  <2>2. MarkGuards'
    BY DEF Shape, MarkGuards
  <2>3. AcksSettled'
    BY <2>1 DEF Shape, AcksSettled, Settled
  <2>4. KeyAlive'
    BY AliveKept, <2>1 DEF Shape, Settled
  <2> QED
    BY <2>1, <2>2, <2>3, <2>4
<1>7. ASSUME NEW k \in Consumers, HandlerReturns(k) PROVE IInv'
  <2> USE <1>7 DEF HandlerReturns, Goes
  <2>1. Shape' /\ consumer[k].copy \in Copies
    BY DEF Shape
  <2>2. MarkGuards'
    BY DEF Shape, MarkGuards
  <2>3. \A key \in Keys : Settled(key) => Settled(key)'
    BY <2>1 DEF Shape, Settled
  <2>4. Settled(KeyOf[consumer[k].copy])'
    BY <2>1 DEF Shape, Settled
  <2>5. AcksSettled'
    BY <2>1, <2>3, <2>4 DEF Shape, AcksSettled
  <2>6. KeyAlive'
    BY AliveKept, <2>3 DEF Shape
  <2> QED
    BY <2>1, <2>2, <2>5, <2>6
<1>8. ASSUME NEW k \in Consumers, HandlerRaises(k) \/ StoreFails(k) \/ Report(k)
      PROVE  IInv'
  <2> USE <1>8 DEF HandlerRaises, StoreFails, Report, Goes
  <2>1. Shape'
    BY DEF Shape
  <2>2. MarkGuards' /\ AcksSettled'
    BY DEF Shape, MarkGuards, AcksSettled, Settled
  <2>3. KeyAlive'
    BY DEF KeyAlive, Settled
  <2> QED
    BY <2>1, <2>2, <2>3
<1>9. ASSUME NEW k \in Consumers, Complete(k) PROVE IInv'
  <2> USE <1>9 DEF Complete, MarkAfterComplete, Goes, history
  <2>1. Shape' /\ consumer[k].copy \in Copies
    BY DEF Shape
  <2>2. MarkGuards'
    BY <2>1 DEF Shape, MarkGuards
  <2>3. AcksSettled'
    BY <2>1 DEF Shape, AcksSettled, Settled
  <2>4. KeyAlive'
    BY DEF KeyAlive, Settled
  <2> QED
    BY <2>1, <2>2, <2>3, <2>4
<1>10. ASSUME NEW k \in Consumers, Release(k) PROVE IInv'
  <2> USE <1>10 DEF Release, MarkAfterFailed, Goes, history
  <2>1. Shape' /\ consumer[k].copy \in Copies
    BY DEF Shape
  <2>2. MarkGuards' /\ AcksSettled'
    BY <2>1 DEF Shape, MarkGuards, AcksSettled, Settled
  <2>3. KeyAlive'
    BY DEF KeyAlive, Settled
  <2> QED
    BY <2>1, <2>2, <2>3
<1>11. ASSUME NEW k \in Consumers, Reject(k) \/ Crash(k) PROVE IInv'
  <2> USE <1>11 DEF Reject, RejectedTo, Crash, history
  <2>1. Shape' /\ consumer[k].copy \in Copies
    BY DEF Shape, Places
  <2>2. MarkGuards' /\ AcksSettled'
    BY DEF Shape, MarkGuards, AcksSettled, Settled
  <2>3. KeyAlive'
    BY AliveKept, <2>1 DEF Shape, Settled
  <2> QED
    BY <2>1, <2>2, <2>3
<1>12. ASSUME NEW k \in Consumers, Ack(k) PROVE IInv'
  <2> USE <1>12 DEF Ack, history
  <2>1. Shape' /\ consumer[k].copy \in Copies
    BY DEF Shape, Places
  <2>2. MarkGuards' /\ AcksSettled'
    BY DEF Shape, MarkGuards, AcksSettled, Settled
  <2>3. Settled(KeyOf[consumer[k].copy])
    BY DEF AcksSettled
  <2>4. KeyAlive'
    BY <2>1, <2>3 DEF KeyAlive, Shape, Settled
  <2> QED
    BY <2>1, <2>2, <2>4
<1>13. ASSUME ProcessDies PROVE IInv'
  <2> USE <1>13 DEF ProcessDies
  <2>1. Shape'
    BY DEF Shape, Places
  <2>2. MarkGuards' /\ AcksSettled'
    BY DEF Shape, MarkGuards, AcksSettled, Settled
  <2>3. KeyAlive'
    BY AliveKept DEF Shape, Settled
  <2> QED
    BY <2>1, <2>2, <2>3
<1>14. ASSUME NEW key \in Keys, MarkExpires(key) PROVE IInv'
  <2> USE <1>14 DEF MarkExpires, history
  <2>1. Shape'
    BY DEF Shape
  <2>2. MarkGuards'
    BY DEF Shape, MarkGuards, Working
  <2>3. AcksSettled'
    BY DEF Shape, AcksSettled, Settled
  <2>4. KeyAlive'
    BY DEF KeyAlive, Settled
  <2> QED
    BY <2>1, <2>2, <2>3, <2>4
<1>15. ASSUME NEW k \in Consumers, ReplyLost(k) PROVE IInv'
  <2> USE <1>15 DEF ReplyLost, ClaimWins, MarkAfterComplete, MarkAfterFailed, Goes, history
  <2>1. Shape' /\ consumer[k].copy \in Copies
    BY DEF Shape
  <2>2. UNCHANGED <<place, effects, skipped>>
    OBVIOUS
  <2>3. MarkGuards'
    BY <2>1 DEF Shape, MarkGuards
  <2>4. AcksSettled'
    BY <2>1, <2>2 DEF Shape, AcksSettled, Settled
  <2>5. KeyAlive'
    BY <2>2 DEF KeyAlive, Settled
  <2> QED
    BY <2>1, <2>3, <2>4, <2>5
<1>16. ASSUME UNCHANGED vars PROVE IInv'
  BY <1>16 DEF vars, history, Shape, MarkGuards, AcksSettled, KeyAlive, Settled
<1> QED
  BY <1>1, <1>2, <1>3, <1>4, <1>5, <1>6, <1>7, <1>8, <1>9, <1>10, <1>11, <1>12,
     <1>13, <1>14, <1>15, <1>16 DEF Next, ConsumerStep

(* The inductive invariant of the consumers, the marks and the queues.     *)
THEOREM ConsumerInvariant == Spec => []IInv
<1> QED
  BY InitIInv, NextIInv, PTL DEF Spec

(* With marks that live long enough (the TTL assumption LongTTL), two      *)
(* deliveries of one message id never run the handler together.            *)
THEOREM ConsumerOneHandler == Spec => []OneHandlerPerKey
<1>1. IInv => OneHandlerPerKey
  BY DEF IInv, MarkGuards, OneHandlerPerKey, Working
<1> QED
  BY <1>1, ConsumerInvariant, PTL

(* No id is acked away: whatever dies, expires or is replayed, a published *)
(* id took effect, or is still to be delivered or replayed, or was skipped *)
(* by the documented choice of RedisDedupStore.claim.                      *)
THEOREM ConsumerNeverLost == Spec => []NeverLost
<1>1. IInv => NeverLost
  BY DEF IInv, KeyAlive, Settled, NeverLost, Alive
<1> QED
  BY <1>1, ConsumerInvariant, PTL

(* NoOrphanMark spelled out, with what faults is.                          *)
MarkIsHeld ==
    /\ faults \in Nat
    /\ faults = 0 => \A key \in Keys : mark[key] = "in_flight" =>
         \E k \in Consumers :
            /\ consumer[k].at \in {"running", "completing", "releasing"}
            /\ KeyOf[consumer[k].copy] = key

(* A fault-free step that takes a consumer off an id also takes the mark   *)
(* out of flight; the others leave the consumers at work where they are.   *)
LEMMA NextMarkIsHeld == IInv /\ MarkIsHeld /\ [Next]_vars => MarkIsHeld'
<1> SUFFICES ASSUME IInv, MarkIsHeld, [Next]_vars PROVE MarkIsHeld'
  OBVIOUS
<1> USE ConsumerAssumption DEF IInv, Stages, Idle
<1>1. ASSUME NEW c \in Copies, Publish(c) \/ RetryExpires(c) \/ ReplayAck(c) \/ ReplayDies(c)
      PROVE  MarkIsHeld'
  BY <1>1 DEF Publish, RetryExpires, ReplayAck, ReplayDies, MarkIsHeld
<1>2. ASSUME NEW c \in Copies, NEW d \in Copies, ReplayPublish(c, d) PROVE MarkIsHeld'
  BY <1>2 DEF ReplayPublish, MarkIsHeld
<1>3. ASSUME NEW k \in Consumers, NEW c \in Copies, Deliver(k, c) PROVE MarkIsHeld'
  BY <1>3 DEF Deliver, MarkIsHeld, Shape
<1>4. ASSUME NEW k \in Consumers, ClaimNew(k) PROVE MarkIsHeld'
  BY <1>4 DEF ClaimNew, ClaimWins, Goes, MarkIsHeld, Shape
<1>5. ASSUME NEW k \in Consumers,
             ClaimLost(k) \/ ClaimDone(k) \/ ClaimConcurrent(k) \/ Report(k)
      PROVE  MarkIsHeld'
  BY <1>5 DEF ClaimLost, ClaimDone, ClaimConcurrent, Report, Reads, Goes, MarkIsHeld, Shape
<1>6. ASSUME NEW k \in Consumers, HandlerReturns(k) \/ HandlerRaises(k) PROVE MarkIsHeld'
  BY <1>6 DEF HandlerReturns, HandlerRaises, Goes, MarkIsHeld, Shape
<1>7. ASSUME NEW k \in Consumers, Complete(k) PROVE MarkIsHeld'
  BY <1>7 DEF Complete, MarkAfterComplete, Goes, MarkIsHeld, Shape
<1>8. ASSUME NEW k \in Consumers, Release(k) PROVE MarkIsHeld'
  BY <1>8 DEF Release, MarkAfterFailed, Goes, MarkIsHeld, Shape
<1>9. ASSUME NEW k \in Consumers, Reject(k) \/ Ack(k) PROVE MarkIsHeld'
  BY <1>9 DEF Reject, Ack, MarkIsHeld, Shape
<1>10. ASSUME NEW k \in Consumers, StoreFails(k) \/ ReplyLost(k) \/ Crash(k)
       PROVE  MarkIsHeld'
  BY <1>10 DEF StoreFails, ReplyLost, Crash, MarkIsHeld
<1>11. ASSUME ProcessDies PROVE MarkIsHeld'
  BY <1>11 DEF ProcessDies, MarkIsHeld
<1>12. ASSUME NEW key \in Keys, MarkExpires(key) PROVE MarkIsHeld'
  BY <1>12 DEF MarkExpires, MarkIsHeld, Shape
<1>13. ASSUME UNCHANGED vars PROVE MarkIsHeld'
  BY <1>13 DEF vars, MarkIsHeld
<1> QED
  BY <1>1, <1>2, <1>3, <1>4, <1>5, <1>6, <1>7, <1>8, <1>9, <1>10, <1>11, <1>12, <1>13
     DEF Next, ConsumerStep

(* Short of a fault, an in-flight mark has a delivery behind it, so a      *)
(* failed delivery never leaves one for the redeliveries to wait on.       *)
THEOREM ConsumerNoOrphan == Spec => []NoOrphanMark
<1>1. Init => MarkIsHeld
  BY DEF Init, MarkIsHeld
<1>2. MarkIsHeld => NoOrphanMark
  BY DEF MarkIsHeld, NoOrphanMark, Working
<1> QED
  BY <1>1, <1>2, NextMarkIsHeld, ConsumerInvariant, PTL DEF Spec

(* Every variable stays in its domain; what a dying process loses is       *)
(* counted, for the deliveries it has prefetched are finitely many.        *)
LEMMA NextTypeOK == IInv /\ TypeOK /\ [Next]_vars => TypeOK'
<1> SUFFICES ASSUME IInv, TypeOK, [Next]_vars PROVE TypeOK'
  OBVIOUS
<1> USE ConsumerAssumption DEF Idle, Places
<1>0. \A k \in Consumers : consumer[k] # Idle => consumer[k].copy \in Copies
  BY DEF IInv, Shape
<1>1. ASSUME NEW c \in Copies, Publish(c) \/ RetryExpires(c) \/ ReplayAck(c) \/ ReplayDies(c)
      PROVE  TypeOK'
  BY <1>1 DEF Publish, RetryExpires, ReplayAck, ReplayDies, history, TypeOK
<1>2. ASSUME NEW c \in Copies, NEW d \in Copies, ReplayPublish(c, d) PROVE TypeOK'
  BY <1>2 DEF ReplayPublish, history, TypeOK
<1>3. ASSUME NEW k \in Consumers, NEW c \in Copies, Deliver(k, c) PROVE TypeOK'
  BY <1>3 DEF Deliver, history, TypeOK
<1>4. ASSUME NEW k \in Consumers,
             ClaimNew(k) \/ ClaimLost(k) \/ ClaimConcurrent(k) \/ Complete(k) \/ Release(k)
      PROVE  TypeOK'
  BY <1>4 DEF ClaimNew, ClaimLost, ClaimConcurrent, Complete, Release, Goes, history,
              MarkAfterComplete, MarkAfterFailed, TypeOK
<1>5. ASSUME NEW k \in Consumers, ClaimDone(k) PROVE TypeOK'
  BY <1>0, <1>5 DEF ClaimDone, Reads, Goes, TypeOK
<1> DEFINE Deliveries == [at : {"idle", "claiming", "reading", "running", "completing",
                                "releasing", "failed", "rejecting", "acking"},
                          copy : Copies \cup {NoCopy}]
           Rest == /\ place \in [Copies -> Places] /\ deaths \in [Copies -> 0 .. MaxDeaths]
                   /\ mark \in [Keys -> {"none", "in_flight", "done"}]
                   /\ skipped \in SUBSET Keys
           Counts == /\ effects \in [Keys -> Nat] /\ unmarked \in [Keys -> Nat]
                     /\ raised \in [Copies -> Nat] /\ reported \in [Copies -> Nat]
                     /\ faults \in 0 .. MaxFaults
<1>t. TypeOK <=> Rest /\ Counts /\ consumer \in [Consumers -> Deliveries]
  BY DEF TypeOK
<1>u. Rest' /\ Counts' /\ consumer' \in [Consumers -> Deliveries] => TypeOK'
  BY DEF TypeOK
<1>g. ASSUME NEW k \in Consumers,
             NEW next \in {"completing", "releasing", "failed", "rejecting"}, Goes(k, next)
      PROVE  consumer' \in [Consumers -> Deliveries]
  BY <1>t, <1>g DEF Goes
<1>c. ASSUME NEW S, NEW f \in [S -> Nat], NEW g, NEW c \in S, NEW n \in Nat,
             g = [f EXCEPT ![c] = n]
      PROVE  g \in [S -> Nat]
  BY <1>c
<1>k. \A k \in Consumers : consumer[k] # Idle => KeyOf[consumer[k].copy] \in Keys
  BY <1>0
<1>6. ASSUME NEW k \in Consumers, HandlerReturns(k) \/ HandlerRaises(k) \/ Report(k)
      PROVE  TypeOK'
  <2>1. CASE HandlerReturns(k)
    <3>1. consumer' \in [Consumers -> Deliveries] /\ Rest'
      BY <1>t, <1>g, <2>1 DEF HandlerReturns
    <3>2. effects' \in [Keys -> Nat]
      <4>1. KeyOf[consumer[k].copy] \in Keys /\ effects \in [Keys -> Nat]
        BY <1>0, <1>t, <2>1 DEF HandlerReturns
      <4>2. effects' = [effects EXCEPT ![KeyOf[consumer[k].copy]] =
                      effects[KeyOf[consumer[k].copy]] + 1]
        BY <2>1 DEF HandlerReturns
      <4>3. effects[KeyOf[consumer[k].copy]] \in Nat
        BY <4>1
      <4> QED
        BY <1>c, <4>1, <4>2, <4>3
    <3>3. UNCHANGED <<unmarked, raised, reported, faults>>
      BY <2>1 DEF HandlerReturns
    <3> QED
      BY <1>t, <1>u, <3>1, <3>2, <3>3
  <2>2. CASE HandlerRaises(k)
    <3>1. consumer' \in [Consumers -> Deliveries] /\ Rest'
      BY <1>t, <1>g, <2>2 DEF HandlerRaises
    <3>2. raised' \in [Copies -> Nat]
      <4>1. consumer[k].copy \in Copies /\ raised \in [Copies -> Nat]
        BY <1>0, <1>t, <2>2 DEF HandlerRaises
      <4>2. raised' = [raised EXCEPT ![consumer[k].copy] =
                      raised[consumer[k].copy] + 1]
        BY <2>2 DEF HandlerRaises
      <4>3. raised[consumer[k].copy] \in Nat
        BY <4>1
      <4> QED
        BY <1>c, <4>1, <4>2, <4>3
    <3>3. UNCHANGED <<effects, unmarked, reported, faults>>
      BY <2>2 DEF HandlerRaises
    <3> QED
      BY <1>t, <1>u, <3>1, <3>2, <3>3
  <2>3. CASE Report(k)
    <3>1. consumer' \in [Consumers -> Deliveries] /\ Rest'
      BY <1>t, <1>g, <2>3 DEF Report
    <3>2. reported' \in [Copies -> Nat]
      <4>1. consumer[k].copy \in Copies /\ reported \in [Copies -> Nat]
        BY <1>0, <1>t, <2>3 DEF Report
      <4>2. reported' = [reported EXCEPT ![consumer[k].copy] =
                      IF Attempt(consumer[k].copy) >= MaxAttempts THEN reported[consumer[k].copy] + 1
                               ELSE reported[consumer[k].copy]]
        BY <2>3 DEF Report
      <4>3. reported[consumer[k].copy] \in Nat
        BY <4>1
      <4> QED
        BY <1>c, <4>1, <4>2, <4>3
    <3>3. UNCHANGED <<effects, unmarked, raised, faults>>
      BY <2>3 DEF Report
    <3> QED
      BY <1>t, <1>u, <3>1, <3>2, <3>3
  <2> QED
    BY <1>6, <2>1, <2>2, <2>3
<1>7. ASSUME NEW k \in Consumers, StoreFails(k) \/ Crash(k) PROVE TypeOK'
  <2>1. consumer' \in [Consumers -> Deliveries]
    <3>1. CASE StoreFails(k)
      BY <1>g, <3>1 DEF StoreFails
    <3>2. CASE Crash(k)
      BY <1>t, <3>2 DEF Crash
    <3> QED
      BY <1>7, <3>1, <3>2
  <2>2. Rest'
    BY <1>0, <1>t, <1>7 DEF StoreFails, Crash
  <2>3. Counts'
    <3>1. faults' \in 0 .. MaxFaults /\ UNCHANGED <<effects, raised, reported>>
      BY <1>t, <1>7 DEF StoreFails, Crash
    <3>2. \E n \in {0, 1}, key \in Keys :
             unmarked' = [unmarked EXCEPT ![key] = unmarked[key] + n]
      <4>1. consumer[k] # Idle
        BY <1>7 DEF StoreFails, Crash
      <4>2. PICK key \in Keys : key = KeyOf[consumer[k].copy]
        BY <1>k, <4>1
      <4>3. unmarked' = [unmarked EXCEPT ![key] =
                           IF consumer[k].at = "completing" THEN unmarked[key] + 1
                           ELSE unmarked[key]]
        BY <1>7, <4>2 DEF StoreFails, Crash
      <4>4. unmarked[key] = unmarked[key] + 0
        BY <1>t
      <4> QED
        BY <4>3, <4>4
    <3>3. unmarked' \in [Keys -> Nat]
      BY <1>t, <3>2
    <3> QED
      BY <1>t, <3>1, <3>3
  <2> QED
    BY <1>u, <2>1, <2>2, <2>3
<1>8. ASSUME NEW k \in Consumers, Reject(k) \/ Ack(k) PROVE TypeOK'
  <2>1. CASE Reject(k)
    <3>1. RejectedTo(consumer[k].copy) \in Places
      BY DEF RejectedTo
    <3>2. consumer[k].copy \in Copies
      BY <1>0, <2>1 DEF Reject
    <3>3. deaths' \in [Copies -> 0 .. MaxDeaths]
      BY <2>1, <3>2 DEF Reject, TypeOK
    <3> QED
      BY <2>1, <3>1, <3>3 DEF Reject, history, TypeOK
  <2>2. CASE Ack(k)
    BY <2>2 DEF Ack, history, TypeOK
  <2> QED
    BY <1>8, <2>1, <2>2
<1>9. CASE ProcessDies
  <2>1. \A S \in SUBSET Consumers : Cardinality(S) \in Nat
    BY FS_Subset, FS_CardinalityType
  <2> DEFINE lost(key) == Cardinality({k \in Working(key) : consumer[k].at = "completing"})
  <2>2. \A key \in Keys : lost(key) \in Nat
    BY <2>1 DEF Working
  <2>3. unmarked' = [key \in Keys |-> unmarked[key] + lost(key)]
    BY <1>9 DEF ProcessDies
  <2> HIDE DEF lost
  <2>4. unmarked' \in [Keys -> Nat]
    BY <2>2, <2>3 DEF TypeOK
  <2> QED
    BY <1>9, <2>4 DEF ProcessDies, TypeOK
<1>10. ASSUME NEW key \in Keys, MarkExpires(key) PROVE TypeOK'
  BY <1>10 DEF MarkExpires, history, TypeOK
<1>11. ASSUME NEW k \in Consumers, ReplyLost(k) PROVE TypeOK'
  <2>1. Goes(k, "failed") /\ faults < MaxFaults /\ faults' = faults + 1
        /\ UNCHANGED <<place, deaths, effects, unmarked, skipped, raised, reported>>
    BY <1>11 DEF ReplyLost, history
  <2>2. \E m \in {"none", "in_flight", "done"} :
           mark' = [mark EXCEPT ![KeyOf[consumer[k].copy]] = m]
    BY <1>11 DEF ReplyLost, MarkAfterComplete, MarkAfterFailed
  <2>3. Rest'
    BY <1>t, <2>1, <2>2
  <2>4. Counts'
    BY <1>t, <2>1
  <2>5. consumer' \in [Consumers -> Deliveries]
    BY <1>g, <2>1
  <2> QED
    BY <1>u, <2>3, <2>4, <2>5
<1>12. CASE UNCHANGED vars
  BY <1>12 DEF vars, history, TypeOK
<1> QED
  BY <1>1, <1>2, <1>3, <1>4, <1>5, <1>6, <1>7, <1>8, <1>9, <1>10, <1>11, <1>12
     DEF Next, ConsumerStep

(* Every variable of the consumers stays in its domain, in particular a    *)
(* mark is one of the two values the store writes, or absent.              *)
THEOREM ConsumerTyped == Spec => []TypeOK
<1>1. Init => TypeOK
  BY ConsumerAssumption DEF Init, TypeOK, Places, Idle
<1> QED
  BY <1>1, NextTypeOK, ConsumerInvariant, PTL DEF Spec

-----------------------------------------------------------------------------
(* Repeats                                                                 *)

(* A delivered copy is held, by one consumer.                              *)
HeldOnce == \A k \in Consumers : consumer[k] # Idle =>
    /\ place[consumer[k].copy] = "held"
    /\ \A l \in Consumers : consumer[l].copy = consumer[k].copy => k = l

Completing(key) == \E k \in Consumers :
    consumer[k].at = "completing" /\ KeyOf[consumer[k].copy] = key

AllGone(key) == \A c \in Copies : KeyOf[c] = key => place[c] = "gone"

(* One effect is not put down to a missing mark: the one whose mark is     *)
(* written or about to be, or whose id has nothing left to deliver.        *)
OneUnmarked == LongTTL /\ RedisStore => \A key \in Keys :
    \/ effects[key] <= unmarked[key]
    \/ /\ effects[key] = unmarked[key] + 1
       /\ mark[key] = "done" \/ Completing(key) \/ AllGone(key)

LEMMA NextHeldOnce == IInv /\ HeldOnce /\ [Next]_vars => HeldOnce'
<1> SUFFICES ASSUME IInv, HeldOnce, [Next]_vars PROVE HeldOnce'
  OBVIOUS
<1> USE ConsumerAssumption DEF IInv, Idle, HeldOnce
<1>1. ASSUME NEW c \in Copies, place[c] # "held", NEW p, place' = [place EXCEPT ![c] = p],
             consumer' = consumer
      PROVE  HeldOnce'
  BY <1>1 DEF Shape
<1>2. ASSUME NEW c \in Copies, Publish(c) \/ RetryExpires(c) \/ ReplayAck(c) \/ ReplayDies(c)
      PROVE  HeldOnce'
  BY <1>1, <1>2 DEF Publish, RetryExpires, ReplayAck, ReplayDies
<1>3. ASSUME NEW c \in Copies, NEW d \in Copies, ReplayPublish(c, d) PROVE HeldOnce'
  BY <1>3 DEF ReplayPublish, Shape
<1>4. ASSUME NEW k \in Consumers, NEW c \in Copies, Deliver(k, c) PROVE HeldOnce'
  BY <1>4 DEF Deliver, Shape
<1>5. ASSUME NEW k \in Consumers, NEW next \in Stages, consumer[k].at # "idle",
             Goes(k, next), place' = place
      PROVE  HeldOnce'
  BY <1>5 DEF Goes, Shape
<1>6. ASSUME NEW k \in Consumers,
             \/ ClaimNew(k) \/ ClaimLost(k) \/ ClaimDone(k) \/ ClaimConcurrent(k)
             \/ HandlerReturns(k) \/ HandlerRaises(k) \/ Complete(k) \/ Release(k)
             \/ StoreFails(k) \/ ReplyLost(k) \/ Report(k)
      PROVE  HeldOnce'
  BY <1>5, <1>6 DEF ClaimNew, ClaimLost, ClaimDone, ClaimConcurrent, HandlerReturns,
                    HandlerRaises, Complete, Release, StoreFails, ReplyLost, Report,
                    Reads, history, Stages
<1>7. ASSUME NEW k \in Consumers, Reject(k) \/ Ack(k) \/ Crash(k) PROVE HeldOnce'
  BY <1>7 DEF Reject, Ack, Crash, Shape
<1>8. CASE ProcessDies
  BY <1>8 DEF ProcessDies
<1>9. ASSUME UNCHANGED <<place, consumer>> PROVE HeldOnce'
  BY <1>9
<1>10. ASSUME NEW key \in Keys, MarkExpires(key) PROVE HeldOnce'
  BY <1>9, <1>10 DEF MarkExpires
<1>11. CASE UNCHANGED vars
  BY <1>9, <1>11 DEF vars
<1> QED
  BY <1>2, <1>3, <1>4, <1>6, <1>7, <1>8, <1>10, <1>11 DEF Next, ConsumerStep

LEMMA NextOneUnmarked ==
    IInv /\ TypeOK /\ HeldOnce /\ OneUnmarked /\ [Next]_vars => OneUnmarked'
<1> SUFFICES ASSUME IInv, TypeOK, HeldOnce, OneUnmarked, [Next]_vars, LongTTL, RedisStore,
                    NEW key \in Keys
             PROVE  \/ effects'[key] <= unmarked'[key]
                    \/ /\ effects'[key] = unmarked'[key] + 1
                       /\ mark'[key] = "done" \/ Completing(key)' \/ AllGone(key)'
  BY DEF OneUnmarked
<1> USE ConsumerAssumption DEF IInv, Idle
<1>0. /\ effects[key] \in Nat /\ unmarked[key] \in Nat
      /\ \/ effects[key] <= unmarked[key]
         \/ /\ effects[key] = unmarked[key] + 1
            /\ mark[key] = "done" \/ Completing(key) \/ AllGone(key)
  BY DEF TypeOK, OneUnmarked
<1> DEFINE Goal == \/ effects'[key] <= unmarked'[key]
                   \/ /\ effects'[key] = unmarked'[key] + 1
                      /\ mark'[key] = "done" \/ Completing(key)' \/ AllGone(key)'
<1>a. ASSUME effects' = effects, unmarked' = unmarked,
             mark[key] = "done" => mark'[key] = "done" \/ AllGone(key)',
             Completing(key) => Completing(key)' \/ mark'[key] = "done",
             AllGone(key) => AllGone(key)'
      PROVE  Goal
  BY <1>0, <1>a
<1>1. ASSUME NEW c \in Copies, Publish(c) \/ RetryExpires(c) \/ ReplayAck(c) \/ ReplayDies(c)
      PROVE  Goal
  <2>1. AllGone(key) => AllGone(key)'
    BY <1>1 DEF Publish, RetryExpires, ReplayAck, ReplayDies, AllGone, Shape
  <2> QED
    BY <1>a, <1>1, <2>1
       DEF Publish, RetryExpires, ReplayAck, ReplayDies, history, Completing
<1>2. ASSUME NEW c \in Copies, NEW d \in Copies, ReplayPublish(c, d) PROVE Goal
  <2>1. AllGone(key) => AllGone(key)'
    BY <1>2 DEF ReplayPublish, AllGone, Shape
  <2> QED
    BY <1>a, <1>2, <2>1 DEF ReplayPublish, history, Completing
<1>3. ASSUME NEW k \in Consumers, NEW c \in Copies, Deliver(k, c) PROVE Goal
  <2>1. AllGone(key) => AllGone(key)'
    BY <1>3 DEF Deliver, AllGone, Shape
  <2>2. Completing(key) => Completing(key)'
    BY <1>3 DEF Deliver, Completing, Shape
  <2> QED
    BY <1>a, <1>3, <2>1, <2>2 DEF Deliver, history
<1>4. ASSUME NEW k \in Consumers, NEW next \in Stages, consumer[k].at # "completing",
             Goes(k, next)
      PROVE  Completing(key) => Completing(key)'
  BY <1>4 DEF Goes, Completing, Shape
<1>5. ASSUME NEW k \in Consumers,
             ClaimNew(k) \/ ClaimLost(k) \/ ClaimConcurrent(k) \/ Release(k)
      PROVE  Goal
  <2>1. Completing(key) => Completing(key)'
    BY <1>4, <1>5 DEF ClaimNew, ClaimLost, ClaimConcurrent, Release, Reads, Stages
  <2>2. mark[key] = "done" => mark'[key] = "done"
    <3>1. CASE ClaimNew(k) \/ ClaimLost(k) \/ ClaimConcurrent(k)
      BY <3>1 DEF ClaimNew, ClaimLost, ClaimConcurrent, ClaimWins, Shape
    <3>2. CASE Release(k)
      <4>1. mark[KeyOf[consumer[k].copy]] = "in_flight"
        BY <3>2 DEF Release, MarkGuards
      <4> QED
        BY <3>2, <4>1 DEF Release, Shape
    <3> QED
      BY <1>5, <3>1, <3>2
  <2>3. AllGone(key) => AllGone(key)'
    BY <1>5 DEF ClaimNew, ClaimLost, ClaimConcurrent, Release, AllGone
  <2> QED
    BY <1>a, <1>5, <2>1, <2>2, <2>3 DEF ClaimNew, ClaimLost, ClaimConcurrent, Release, history
<1>6. ASSUME NEW k \in Consumers, ClaimDone(k) \/ HandlerRaises(k) \/ Report(k) PROVE Goal
  <2>1. Completing(key) => Completing(key)'
    BY <1>4, <1>6 DEF ClaimDone, HandlerRaises, Report, Reads, Stages
  <2>2. AllGone(key) => AllGone(key)'
    BY <1>6 DEF ClaimDone, HandlerRaises, Report, AllGone
  <2> QED
    BY <1>a, <1>6, <2>1, <2>2 DEF ClaimDone, HandlerRaises, Report
<1>7. ASSUME NEW k \in Consumers, HandlerReturns(k) PROVE Goal
  <2> DEFINE own == KeyOf[consumer[k].copy]
  <2>1. /\ consumer[k].at = "running" /\ consumer[k].copy \in Copies /\ own \in Keys
        /\ mark[own] = "in_flight" /\ place[consumer[k].copy] = "held"
    BY <1>7 DEF HandlerReturns, Shape, MarkGuards, HeldOnce
  <2>2. UNCHANGED <<place, mark, unmarked>> /\ effects' = [effects EXCEPT ![own] = @ + 1]
    BY <1>7 DEF HandlerReturns
  <2>3. CASE key = own
    <3>1. ~Completing(key)
      BY <2>1, <2>3 DEF MarkGuards, Completing
    <3>2. ~AllGone(key)
      BY <2>1, <2>3 DEF AllGone
    <3>3. effects[key] <= unmarked[key]
      BY <1>0, <2>1, <2>3, <3>1, <3>2
    <3>4. Completing(key)'
      BY <1>7, <2>1, <2>3 DEF HandlerReturns, Goes, Completing, Shape
    <3>5. effects'[key] = effects[key] + 1
      BY <2>1, <2>2, <2>3 DEF TypeOK
    <3> QED
      BY <1>0, <2>2, <3>3, <3>4, <3>5
  <2>4. CASE key # own
    <3>1. Completing(key) => Completing(key)'
      BY <1>4, <1>7 DEF HandlerReturns, Stages
    <3>2. effects'[key] = effects[key]
      BY <2>2, <2>4 DEF TypeOK
    <3>3. AllGone(key) => AllGone(key)'
      BY <2>2 DEF AllGone
    <3> QED
      BY <1>0, <2>2, <3>1, <3>2, <3>3
  <2> QED
    BY <2>3, <2>4
<1>8. ASSUME NEW k \in Consumers, Complete(k) PROVE Goal
  <2> DEFINE own == KeyOf[consumer[k].copy]
  <2>1. /\ consumer[k].at = "completing" /\ consumer[k].copy \in Copies /\ own \in Keys
        /\ mark' = [mark EXCEPT ![own] = "done"]
        /\ UNCHANGED <<place, effects, unmarked>>
    BY <1>8 DEF Complete, MarkAfterComplete, Shape, history
  <2>2. mark[key] = "done" => mark'[key] = "done"
    BY <2>1 DEF Shape
  <2>3. Completing(key) => Completing(key)' \/ mark'[key] = "done"
    BY <1>8, <2>1 DEF Complete, Goes, Completing, Shape
  <2>4. AllGone(key) => AllGone(key)'
    BY <2>1 DEF AllGone
  <2> QED
    BY <1>a, <2>1, <2>2, <2>3, <2>4
<1>9. ASSUME NEW k \in Consumers, Crash(k) \/ StoreFails(k) PROVE Goal
  <2> DEFINE own == KeyOf[consumer[k].copy]
  <2>1. /\ consumer[k].copy \in Copies /\ own \in Keys
        /\ place[consumer[k].copy] = "held"
        /\ UNCHANGED <<mark, effects>>
        /\ unmarked' = [unmarked EXCEPT ![own] = IF consumer[k].at = "completing"
                                                  THEN @ + 1 ELSE @]
    BY <1>9 DEF Crash, StoreFails, Shape, HeldOnce
  <2>2. AllGone(key) => AllGone(key)'
    BY <1>9, <2>1 DEF Crash, StoreFails, AllGone, Shape
  <2>3. CASE consumer[k].at = "completing" /\ key = own
    <3>1. unmarked'[key] = unmarked[key] + 1
      BY <2>1, <2>3 DEF TypeOK
    <3> QED
      BY <1>0, <2>1, <3>1
  <2>4. CASE ~(consumer[k].at = "completing" /\ key = own)
    <3>1. unmarked'[key] = unmarked[key]
      BY <2>1, <2>4 DEF TypeOK
    <3>2. Completing(key) => Completing(key)'
      BY <1>9, <2>4 DEF Crash, StoreFails, Goes, Completing, Shape
    <3> QED
      BY <1>0, <2>1, <2>2, <3>1, <3>2
  <2> QED
    BY <2>3, <2>4
<1>10. ASSUME NEW k \in Consumers, Reject(k) \/ Ack(k) PROVE Goal
  <2>1. /\ consumer[k].at \in {"rejecting", "acking"} /\ consumer[k].copy \in Copies
        /\ place[consumer[k].copy] = "held"
        /\ UNCHANGED <<mark, effects, unmarked>>
    BY <1>10 DEF Reject, Ack, Shape, HeldOnce, history
  <2>2. AllGone(key) => AllGone(key)'
    BY <1>10, <2>1 DEF Reject, Ack, AllGone, Shape
  <2>3. Completing(key) => Completing(key)'
    BY <1>10, <2>1 DEF Reject, Ack, Completing, Shape
  <2> QED
    BY <1>a, <2>1, <2>2, <2>3
<1>11. ASSUME ProcessDies PROVE Goal
  <2> DEFINE lost == {k \in Working(key) : consumer[k].at = "completing"}
  <2>1. /\ UNCHANGED <<mark, effects>> /\ unmarked'[key] = unmarked[key] + Cardinality(lost)
    BY <1>11 DEF ProcessDies, TypeOK
  <2>2. AllGone(key) => AllGone(key)'
    BY <1>11 DEF ProcessDies, AllGone
  <2>3. IsFiniteSet(lost)
    BY FS_Subset DEF Working
  <2>4. Cardinality(lost) \in Nat /\ (Cardinality(lost) = 0 <=> lost = {})
    BY <2>3, FS_CardinalityType, FS_EmptySet
  <2>5. Completing(key) => lost # {}
    BY DEF Completing, Working
  <2> HIDE DEF lost
  <2> QED
    BY <1>0, <2>1, <2>2, <2>4, <2>5
<1>12. ASSUME NEW k \in Keys, MarkExpires(k) PROVE Goal
  <2>1. UNCHANGED <<place, consumer, effects, unmarked>>
    BY <1>12 DEF MarkExpires, history
  <2>2. Completing(key) => Completing(key)'
    BY <2>1 DEF Completing
  <2>3. AllGone(key) => AllGone(key)'
    BY <2>1 DEF AllGone
  <2>4. mark[key] = "done" => mark'[key] = "done" \/ AllGone(key)'
    BY <1>12, <2>1 DEF MarkExpires, AllGone, Shape
  <2> QED
    BY <1>a, <2>1, <2>2, <2>3, <2>4
<1>13. ASSUME UNCHANGED vars PROVE Goal
  BY <1>a, <1>13 DEF vars, history, Completing, AllGone
<1>14. ASSUME NEW k \in Consumers, ReplyLost(k) PROVE Goal
  <2> DEFINE own == KeyOf[consumer[k].copy]
  <2>1. /\ consumer[k].copy \in Copies /\ own \in Keys
        /\ UNCHANGED <<place, effects, unmarked>>
    BY <1>14 DEF ReplyLost, Shape, history
  <2>2. mark[key] = "done" => mark'[key] = "done"
    <3>1. CASE consumer[k].at \in {"claiming", "completing"}
      BY <1>14, <2>1, <3>1 DEF ReplyLost, ClaimWins, MarkAfterComplete, Shape
    <3>2. CASE consumer[k].at = "releasing"
      <4>1. mark[own] = "in_flight" /\ mark' = [mark EXCEPT ![own] = MarkAfterFailed]
        BY <1>14, <3>2 DEF ReplyLost, MarkGuards
      <4> QED
        BY <2>1, <4>1 DEF Shape
    <3> QED
      BY <1>14, <3>1, <3>2 DEF ReplyLost
  <2>3. Completing(key) => Completing(key)' \/ mark'[key] = "done"
    BY <1>14, <2>1 DEF ReplyLost, MarkAfterComplete, Goes, Completing, Shape
  <2>4. AllGone(key) => AllGone(key)'
    BY <2>1 DEF AllGone
  <2> QED
    BY <1>a, <2>1, <2>2, <2>3, <2>4
<1> HIDE DEF Goal, IInv, Idle
<1>15. ASSUME NEW k \in Consumers, ConsumerStep(k) PROVE Goal
  BY <1>5, <1>6, <1>7, <1>8, <1>9, <1>10, <1>14, <1>15 DEF ConsumerStep
<1>16. Goal
  BY <1>1, <1>2, <1>3, <1>9, <1>11, <1>12, <1>13, <1>15 DEF Next
<1> QED
  BY <1>16 DEF Goal

(* With marks that outlive the redeliveries, in Redis, an id takes effect  *)
(* again only for a handler that returned and whose done mark was never    *)
(* written.                                                                *)
THEOREM ConsumerRepeats == Spec => []RepeatsAreExplained
<1>1. Init => HeldOnce /\ OneUnmarked
  BY DEF Init, HeldOnce, OneUnmarked, Idle
<1>2. TypeOK /\ OneUnmarked => RepeatsAreExplained
  BY DEF TypeOK, OneUnmarked, RepeatsAreExplained
<1> QED
  BY <1>1, <1>2, NextHeldOnce, NextOneUnmarked, ConsumerInvariant, ConsumerTyped, PTL
     DEF Spec
=============================================================================
