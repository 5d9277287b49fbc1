---------------------------- MODULE OutboxProofs ----------------------------
(* Proofs about Outbox, for every set of events and relays, every batch    *)
(* size, budget and number of interrupted drains.                          *)
EXTENDS Outbox, FiniteSetTheorems, TLAPS

(* The part of the types the safety proofs use.                            *)
Shape ==
    /\ business \in SUBSET Events
    /\ status \in [Events -> {"absent", "PENDING", "SENT", "FAILED"}]
    /\ todo \in [Relays -> SUBSET Events]
    /\ sent \in [Relays -> SUBSET Events]
    /\ failed \in [Relays -> SUBSET Events]
    /\ received \in [Events -> Nat]
    /\ redeliverable \in [Events -> Nat]

(* A locked row is PENDING and in one part of one batch.                   *)
HeldPending == \A r \in Relays :
    /\ \A e \in Held(r) : status[e] = "PENDING"
    /\ todo[r] \cap sent[r] = {}
    /\ todo[r] \cap failed[r] = {}
    /\ sent[r] \cap failed[r] = {}

(* An event that was never committed has left no trace.                    *)
Uncommitted == \A e \in Events :
    /\ status[e] = "absent" <=> e \notin business
    /\ e \notin business => received[e] = 0

IInv == Shape /\ HeldPending /\ Uncommitted /\ DisjointDrains /\ DuplicatesAreExplained

LEMMA InitIInv == Init => IInv
<1> SUFFICES ASSUME Init PROVE IInv
  OBVIOUS
<1> USE DEF Init
<1>1. Shape /\ HeldPending /\ Uncommitted
  BY DEF Shape, HeldPending, Uncommitted, Held
<1>2. DisjointDrains
  BY DEF DisjointDrains, Held
<1>3. DuplicatesAreExplained
  BY DEF DuplicatesAreExplained, InFlight
<1> QED
  BY <1>1, <1>2, <1>3 DEF IInv

LEMMA NextIInv == IInv /\ [Next]_vars => IInv'
<1> SUFFICES ASSUME IInv, [Next]_vars PROVE IInv'
  OBVIOUS
<1> USE DEF IInv
<1>1. ASSUME NEW e \in Events, SaveWithOutbox(e) PROVE IInv'
  <2> USE <1>1 DEF SaveWithOutbox, drainVars
  <2>1. Shape' /\ Uncommitted'
    BY DEF Shape, Uncommitted
  <2>2. \A r \in Relays : Held(r)' = Held(r) /\ e \notin Held(r)
    BY DEF Held, HeldPending
  <2>3. HeldPending' /\ DisjointDrains'
    BY <2>2 DEF HeldPending, DisjointDrains, Shape, Held
  <2>4. DuplicatesAreExplained'
    BY DEF DuplicatesAreExplained, InFlight, Shape
  <2> QED
    BY <2>1, <2>3, <2>4
<1>2. ASSUME NEW r \in Relays, Select(r) PROVE IInv'
  <2>1. PICK batch \in SUBSET Due : todo' = [todo EXCEPT ![r] = batch]
    BY <1>2 DEF Select
  <2>2. /\ todo[r] = {} /\ sent[r] = {} /\ failed[r] = {}
        /\ UNCHANGED <<business, status, sent, failed, received, redeliverable>>
    BY <1>2 DEF Select, Held, rowVars
  <2>3. batch \subseteq Events /\ \A e \in batch :
          status[e] = "PENDING" /\ \A q \in Relays : e \notin Held(q)
    BY DEF Due
  <2>4. Held(r)' = batch /\ \A q \in Relays : q # r => Held(q)' = Held(q)
    BY <2>1, <2>2 DEF Held, Shape
  <2>5. Shape' /\ Uncommitted'
    BY <2>1, <2>2, <2>3 DEF Shape, Uncommitted
  <2>6. HeldPending'
    BY <2>1, <2>2, <2>3, <2>4 DEF HeldPending, Shape
  <2>7. DisjointDrains'
    BY <2>3, <2>4 DEF DisjointDrains
  <2>8. DuplicatesAreExplained'
    BY <2>2 DEF DuplicatesAreExplained, InFlight
  <2> QED
    BY <2>5, <2>6, <2>7, <2>8
<1>3. ASSUME NEW r \in Relays, NEW e \in Events, Publish(r, e) PROVE IInv'
  <2> USE <1>3 DEF Publish
  <2>1. Shape' /\ Uncommitted'
    BY DEF Shape, Uncommitted, HeldPending, Held, rowVars
  <2>2. \A q \in Relays : Held(q)' = Held(q)
    BY DEF Held, Shape
  <2>3. HeldPending' /\ DisjointDrains'
    BY <2>2 DEF HeldPending, DisjointDrains, Shape, Held, rowVars
  <2>4. \A q \in Relays : e \notin sent[q]
    BY DEF DisjointDrains, HeldPending, Held
  <2>5. InFlight(e) = 0 /\ InFlight(e)' = 1 /\ status[e] = "PENDING"
    BY <2>4 DEF InFlight, Shape, HeldPending, Held
  <2>6. \A f \in Events : f # e => InFlight(f)' = InFlight(f)
    BY DEF InFlight, Shape
  <2>7. DuplicatesAreExplained'
    <3> SUFFICES ASSUME NEW f \in Events
                 PROVE  received'[f] = redeliverable'[f] + InFlight(f)'
                                       + (IF status'[f] = "SENT" THEN 1 ELSE 0)
      BY DEF DuplicatesAreExplained
    <3>1. received[f] = redeliverable[f] + InFlight(f)
                        + (IF status[f] = "SENT" THEN 1 ELSE 0)
      BY DEF DuplicatesAreExplained
    <3>2. CASE f = e
      BY <2>5, <3>1, <3>2 DEF rowVars, Shape
    <3>3. CASE f # e
      BY <2>6, <3>1, <3>3 DEF rowVars, Shape
    <3> QED
      BY <3>2, <3>3
  <2> QED
    BY <2>1, <2>3, <2>7
<1>4. ASSUME NEW r \in Relays, NEW e \in Events,
             PublishRaises(r, e) \/ PublishUnconfirmed(r, e)
      PROVE  IInv'
  <2>0. /\ e \in todo[r]
        /\ todo' = [todo EXCEPT ![r] = @ \ {e}]
        /\ failed' = [failed EXCEPT ![r] = @ \cup {e}]
        /\ UNCHANGED <<business, status, sent>>
        /\ \/ UNCHANGED <<received, redeliverable>>
           \/ /\ received' = [received EXCEPT ![e] = @ + 1]
              /\ redeliverable' = [redeliverable EXCEPT ![e] = @ + 1]
    BY <1>4 DEF PublishRaises, PublishUnconfirmed, rowVars
  <2>1. Shape' /\ Uncommitted'
    BY <2>0 DEF Shape, Uncommitted, HeldPending, Held
  <2>2. \A q \in Relays : Held(q)' = Held(q)
    BY <2>0 DEF Held, Shape
  <2>3. HeldPending' /\ DisjointDrains'
    BY <2>0, <2>2 DEF HeldPending, DisjointDrains, Shape, Held
  <2>4. \A f \in Events : InFlight(f)' = InFlight(f) /\ InFlight(f) \in {0, 1}
    BY <2>0 DEF InFlight
  <2>5. DuplicatesAreExplained'
    BY <2>0, <2>4 DEF DuplicatesAreExplained, Shape
  <2> QED
    BY <2>1, <2>3, <2>5
<1>5. ASSUME NEW r \in Relays, Commit(r) PROVE IInv'
  <2> USE <1>5 DEF Commit, MarkedSent
  <2>1. Shape'
    BY DEF Shape
  <2>2. /\ Held(r)' = {}
        /\ \A q \in Relays : q # r => /\ Held(q)' = Held(q)
                                      /\ todo'[q] = todo[q]
                                      /\ sent'[q] = sent[q]
                                      /\ failed'[q] = failed[q]
    BY DEF Held, Shape
  <2>3. \A f \in Events : f \notin Held(r) => status'[f] = status[f]
    BY DEF Held
  <2>4. \A f \in Held(r) : status[f] = "PENDING" /\ status'[f] # "absent"
    BY DEF HeldPending, Held, Shape
  <2>5. Uncommitted'
    BY <2>3, <2>4 DEF Uncommitted, Shape
  <2>6. DisjointDrains'
    BY <2>2 DEF DisjointDrains
  <2>7. HeldPending'
    <3>1. \A q \in Relays : q # r => \A f \in Held(q) : f \notin Held(r)
      BY DEF DisjointDrains
    <3>2. \A q \in Relays : \A f \in Held(q) : f \in Events
      BY DEF Held, Shape
    <3>3. todo'[r] = {} /\ sent'[r] = {} /\ failed'[r] = {}
      BY DEF Shape
    <3> QED
      BY <2>2, <2>3, <3>1, <3>2, <3>3 DEF HeldPending
  <2>8. DuplicatesAreExplained'
    <3> SUFFICES ASSUME NEW f \in Events
                 PROVE  received'[f] = redeliverable'[f] + InFlight(f)'
                                       + (IF status'[f] = "SENT" THEN 1 ELSE 0)
      BY DEF DuplicatesAreExplained
    <3>1. received[f] = redeliverable[f] + InFlight(f)
                        + (IF status[f] = "SENT" THEN 1 ELSE 0)
      BY DEF DuplicatesAreExplained
    <3>2. CASE f \in sent[r]
      <4>1. InFlight(f) = 1 /\ status[f] = "PENDING" /\ status'[f] = "SENT"
        BY <3>2 DEF InFlight, HeldPending, Held
      <4>2. \A q \in Relays : q # r => f \notin sent[q]
        BY <3>2 DEF DisjointDrains, Held
      <4>3. InFlight(f)' = 0
        BY <4>2 DEF InFlight, Shape
      <4> QED
        BY <3>1, <4>1, <4>3 DEF Shape
    <3>3. CASE f \notin sent[r]
      <4>1. InFlight(f)' = InFlight(f)
        BY <3>3 DEF InFlight, Shape
      <4>2. status'[f] = "SENT" <=> status[f] = "SENT"
        BY <3>3, <2>4 DEF Held
      <4> QED
        BY <3>1, <4>1, <4>2
    <3> QED
      BY <3>2, <3>3
  <2> QED
    BY <2>1, <2>5, <2>6, <2>7, <2>8
<1>6. ASSUME NEW r \in Relays, Interrupt(r) PROVE IInv'
  <2> USE <1>6 DEF Interrupt, rowVars
  <2>1. Shape' /\ Uncommitted'
    BY DEF Shape, Uncommitted
  <2>2. /\ Held(r)' = {}
        /\ \A q \in Relays : q # r => Held(q)' = Held(q)
    BY DEF Held, Shape
  <2>3. HeldPending' /\ DisjointDrains'
    BY <2>2 DEF HeldPending, DisjointDrains, Shape
  <2>4. DuplicatesAreExplained'
    <3> SUFFICES ASSUME NEW f \in Events
                 PROVE  received'[f] = redeliverable'[f] + InFlight(f)'
                                       + (IF status'[f] = "SENT" THEN 1 ELSE 0)
      BY DEF DuplicatesAreExplained
    <3>1. received[f] = redeliverable[f] + InFlight(f)
                        + (IF status[f] = "SENT" THEN 1 ELSE 0)
      BY DEF DuplicatesAreExplained
    <3>2. CASE f \in sent[r]
      <4>1. InFlight(f) = 1
        BY <3>2 DEF InFlight
      <4>2. \A q \in Relays : q # r => f \notin sent[q]
        BY <3>2 DEF DisjointDrains, Held
      <4>3. InFlight(f)' = 0
        BY <4>2 DEF InFlight, Shape
      <4> QED
        BY <3>1, <3>2, <4>1, <4>3 DEF Shape
    <3>3. CASE f \notin sent[r]
      <4>1. InFlight(f)' = InFlight(f)
        BY <3>3 DEF InFlight, Shape
      <4> QED
        BY <3>1, <3>3, <4>1 DEF Shape
    <3> QED
      BY <3>2, <3>3
  <2> QED
    BY <2>1, <2>3, <2>4
<1>7. CASE Tick \/ UNCHANGED vars
  <2>1. UNCHANGED <<business, status, todo, sent, failed, received, redeliverable>>
    BY <1>7 DEF Tick, vars, rowVars, drainVars
  <2> QED
    BY <2>1 DEF Shape, HeldPending, Uncommitted, DisjointDrains, Held,
                DuplicatesAreExplained, InFlight
<1> QED
  BY <1>1, <1>2, <1>3, <1>4, <1>5, <1>6, <1>7 DEF Next, RelayStep

(* The specification keeps the invariant.                                  *)
THEOREM OutboxInvariant == Spec => []IInv
  BY InitIInv, NextIInv, PTL DEF Spec

(* SENT events did reach the broker and nothing uncommitted ever does.     *)
THEOREM OutboxNoLostNoPhantom == Spec => []NoLostNoPhantom
<1>1. IInv => NoLostNoPhantom
  BY DEF IInv, Shape, Uncommitted, DuplicatesAreExplained, InFlight,
         NoLostNoPhantom
<1> QED
  BY <1>1, OutboxInvariant, PTL

(* Every copy of an event beyond the first is owed to an interrupted drain *)
(* or to a publish whose confirmation was lost.                            *)
THEOREM OutboxDuplicates == Spec => []DuplicatesAreExplained
<1>1. IInv => DuplicatesAreExplained
  BY DEF IInv
<1> QED
  BY <1>1, OutboxInvariant, PTL

(* A power of two is a natural number: that many subsets has 1..n.         *)
LEMMA PowerOfTwo == ASSUME NEW n \in Nat PROVE 2 ^ n \in Nat
<1>1. IsFiniteSet(1..n) /\ Cardinality(1..n) = n
  BY FS_Interval
<1>2. IsFiniteSet(SUBSET (1..n)) /\ Cardinality(SUBSET (1..n)) = 2 ^ n
  BY <1>1, FS_SUBSET
<1> QED
  BY <1>2, FS_CardinalityType

LEMMA BackoffIsNat == ASSUME NEW n \in Nat \ {0} PROVE Backoff(n) \in Nat
<1>1. 2 ^ (n - 1) \in Nat
  BY PowerOfTwo
<1> QED
  BY <1>1, OutboxAssumption DEF Backoff

(* Every variable stays in its domain, the backoff of _mark_failure too:   *)
(* its exponent is never negative, for attempts is counted first.          *)
THEOREM OutboxTyped == Spec => []TypeOK
<1> USE OutboxAssumption
<1>1. Init => TypeOK
  BY DEF Init, TypeOK
<1>2. IInv /\ IInv' /\ TypeOK /\ [Next]_vars => TypeOK'
  <2> SUFFICES ASSUME IInv, IInv', TypeOK, [Next]_vars PROVE TypeOK'
    OBVIOUS
  <2>0. ASSUME attempts' \in [Events -> Nat], dueIn' \in [Events -> Nat],
               interrupts' \in 0 .. MaxInterrupts
        PROVE  TypeOK'
    BY <2>0 DEF IInv, Shape, TypeOK
  <2>1. ASSUME NEW r \in Relays, Commit(r) PROVE TypeOK'
    <3>1. \A e \in Events : attempts[e] + 1 \in Nat \ {0}
      BY DEF TypeOK
    <3>2. \A e \in Events : Backoff(attempts[e] + 1) \in Nat
      BY <3>1, BackoffIsNat
    <3>3. attempts' \in [Events -> Nat]
      BY <2>1, <3>1 DEF Commit, TypeOK
    <3>4. dueIn' \in [Events -> Nat]
      BY <2>1, <3>2 DEF Commit, TypeOK
    <3> QED
      BY <2>0, <2>1, <3>3, <3>4 DEF Commit, TypeOK
  <2>2. CASE Tick
    <3>1. \A n \in Nat : Max2(n - 1, 0) \in Nat
      BY DEF Max2
    <3> QED
      BY <2>0, <2>2, <3>1 DEF Tick, TypeOK
  <2>3. CASE UNCHANGED <<rowVars, interrupts>>
    BY <2>0, <2>3 DEF rowVars, TypeOK
  <2>4. ASSUME NEW r \in Relays, Interrupt(r) PROVE TypeOK'
    BY <2>0, <2>4 DEF Interrupt, rowVars, TypeOK
  <2>5. ASSUME NEW e \in Events, SaveWithOutbox(e) PROVE TypeOK'
    BY <2>0, <2>5 DEF SaveWithOutbox, TypeOK
  <2>6. ASSUME NEW r \in Relays, RelayStep(r) PROVE TypeOK'
    BY <2>1, <2>3, <2>6 DEF RelayStep, Select, Publish, PublishRaises, PublishUnconfirmed
  <2>7. CASE UNCHANGED vars
    BY <2>3, <2>7 DEF vars
  <2> QED
    BY <2>2, <2>4, <2>5, <2>6, <2>7 DEF Next
<1>3. IInv /\ [Next]_vars => IInv'
  BY NextIInv
<1> QED
  BY <1>1, <1>2, <1>3, OutboxInvariant, PTL DEF Spec

(* _mark_failure gives up on the last failure of the budget and not before:*)
(* an event is FAILED exactly when its attempts are used up, one of them   *)
(* even when max_attempts is 0.                                            *)
Budget == Max2(1, MaxAttempts)

GivesUpOnBudget == \A e \in Events :
    IF status[e] = "FAILED" THEN attempts[e] = Budget ELSE attempts[e] < Budget

(* A drain commits once what it marked: a SENT or FAILED event is neither  *)
(* touched nor published again, though the relay that settled it was one   *)
(* of several.                                                             *)
SettledForGood == [][\A e \in Events : status[e] \in {"SENT", "FAILED"} =>
                        UNCHANGED <<status[e], attempts[e], received[e]>>]_vars

(* The failures of an event, from the rows a drain holds being PENDING.    *)
THEOREM OutboxBudget == Spec => []GivesUpOnBudget
<1> USE OutboxAssumption
<1>0. Budget \in Nat \ {0} /\ \A n \in Nat \ {0} : n <= Budget => (Exhausted(n) <=> n = Budget)
  BY DEF Budget, Max2, Exhausted
<1>1. Init => GivesUpOnBudget
  BY <1>0 DEF Init, GivesUpOnBudget
<1>2. IInv /\ TypeOK /\ GivesUpOnBudget /\ [Next]_vars => GivesUpOnBudget'
  <2> SUFFICES ASSUME IInv, TypeOK, GivesUpOnBudget, [Next]_vars PROVE GivesUpOnBudget'
    OBVIOUS
  <2>1. ASSUME NEW r \in Relays, Commit(r) PROVE GivesUpOnBudget'
    <3> SUFFICES ASSUME NEW e \in Events
                 PROVE  IF status'[e] = "FAILED" THEN attempts'[e] = Budget
                                                 ELSE attempts'[e] < Budget
      BY <1>0 DEF GivesUpOnBudget, Budget
    <3>1. attempts[e] \in Nat
      BY DEF TypeOK
    <3>2. CASE e \in failed[r]
      <4>1. status[e] = "PENDING" /\ e \notin sent[r]
        BY <3>2 DEF IInv, HeldPending, Held
      <4>2. attempts'[e] = attempts[e] + 1 /\ attempts[e] + 1 <= Budget
        BY <1>0, <2>1, <3>1, <3>2, <4>1 DEF Commit, GivesUpOnBudget
      <4>3. status'[e] = IF Exhausted(attempts[e] + 1) THEN "FAILED" ELSE "PENDING"
        BY <2>1, <3>2, <4>1 DEF Commit, MarkedSent
      <4>4. Exhausted(attempts[e] + 1) <=> attempts[e] + 1 = Budget
        BY <1>0, <3>1, <4>2
      <4> QED
        BY <1>0, <3>1, <4>2, <4>3, <4>4
    <3>3. CASE e \notin failed[r]
      <4>1. attempts'[e] = attempts[e]
        BY <2>1, <3>3 DEF Commit
      <4>2. status'[e] = IF e \in sent[r] THEN "SENT" ELSE status[e]
        BY <2>1, <3>3 DEF Commit, MarkedSent
      <4>3. e \in sent[r] => status[e] = "PENDING"
        BY DEF IInv, HeldPending, Held
      <4> QED
        BY <4>1, <4>2, <4>3 DEF GivesUpOnBudget
    <3> QED
      BY <3>2, <3>3
  <2>2. ASSUME NEW e \in Events, SaveWithOutbox(e) PROVE GivesUpOnBudget'
    BY <2>2 DEF SaveWithOutbox, GivesUpOnBudget, Budget, TypeOK
  <2>3. CASE UNCHANGED <<status, attempts>>
    BY <2>3 DEF GivesUpOnBudget, Budget
  <2>4. ASSUME NEW r \in Relays, RelayStep(r) \/ Interrupt(r) PROVE GivesUpOnBudget'
    BY <2>1, <2>3, <2>4 DEF RelayStep, Select, Publish, PublishRaises,
                            PublishUnconfirmed, Interrupt, rowVars
  <2>5. CASE Tick \/ UNCHANGED vars
    BY <2>3, <2>5 DEF Tick, vars, rowVars
  <2> QED
    BY <2>2, <2>4, <2>5 DEF Next
<1> QED
  BY <1>1, <1>2, OutboxInvariant, OutboxTyped, PTL DEF Spec

(* No settled event leaves for the broker again or changes its row.        *)
THEOREM OutboxSettledForGood == Spec => SettledForGood
<1> DEFINE Kept == \A e \in Events : status[e] \in {"SENT", "FAILED"} =>
                      UNCHANGED <<status[e], attempts[e], received[e]>>
<1>1. IInv /\ [Next]_vars => Kept
  <2> SUFFICES ASSUME IInv, [Next]_vars, NEW e \in Events, status[e] \in {"SENT", "FAILED"}
               PROVE  UNCHANGED <<status[e], attempts[e], received[e]>>
    OBVIOUS
  <2>1. \A r \in Relays : e \notin Held(r)
    BY DEF IInv, HeldPending
  <2>2. ASSUME NEW f \in Events, SaveWithOutbox(f)
        PROVE  UNCHANGED <<status[e], attempts[e], received[e]>>
    BY <2>2 DEF SaveWithOutbox
  <2>3. ASSUME NEW r \in Relays, RelayStep(r) \/ Interrupt(r)
        PROVE  UNCHANGED <<status[e], attempts[e], received[e]>>
    <3>1. e \notin todo[r] /\ e \notin sent[r] /\ e \notin failed[r]
      BY <2>1 DEF Held
    <3>2. CASE Commit(r)
      BY <3>1, <3>2 DEF Commit, MarkedSent
    <3>3. ASSUME NEW f \in Events,
                 Publish(r, f) \/ PublishRaises(r, f) \/ PublishUnconfirmed(r, f)
          PROVE  UNCHANGED <<status[e], attempts[e], received[e]>>
      BY <3>1, <3>3 DEF Publish, PublishRaises, PublishUnconfirmed, rowVars, IInv, Shape
    <3> QED
      BY <2>3, <3>2, <3>3 DEF RelayStep, Select, Interrupt, rowVars
  <2>4. CASE Tick \/ UNCHANGED vars
    BY <2>4 DEF Tick, vars, rowVars
  <2> QED
    BY <2>2, <2>3, <2>4 DEF Next
<1> QED
  BY <1>1, OutboxInvariant, PTL DEF Spec, SettledForGood
=============================================================================
