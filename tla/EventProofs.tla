----------------------------- MODULE EventProofs -----------------------------
(***************************************************************************)
(* Proofs about the two components that take events in and hand them out:  *)
(* WebhookInbox, for every set of events and workers, and SSE, for every   *)
(* set of streams and channels and every finite set of fan-outs.           *)
(***************************************************************************)
EXTENDS WebhookInbox, SSE, FiniteSetTheorems, TLAPS

-----------------------------------------------------------------------------
(* The webhook inbox: the invariant                                        *)

(* The part of the types the safety proofs use.                            *)
Shape ==
    /\ status \in [Events -> Statuses \cup {"absent"}]
    /\ attempts \in [Events -> Nat]
    /\ worker \in [Workers -> [at : {"idle", "handling", "readmitting"},
                               event : Events \cup {NoEvent}]]
    /\ applied \in [Events -> Nat]
    /\ \A w \in Workers : worker[w].at # "idle" => worker[w].event \in Events

IInv == Shape /\ EffectOnce /\ FailedMeansSpent

LEMMA InitIInv == Init => IInv
  BY InboxAssumption DEF Init, IInv, Shape, EffectOnce, FailedMeansSpent,
                         Statuses, Idle

LEMMA NextIInv == IInv /\ [Next]_vars => IInv'
<1> SUFFICES ASSUME IInv, [Next]_vars PROVE IInv'
  OBVIOUS
<1> USE InboxAssumption DEF IInv
<1>1. ASSUME NEW e \in Events, Record(e) PROVE IInv'
  BY <1>1 DEF Record, Inserts, Shape, EffectOnce, FailedMeansSpent, Statuses
<1>2. ASSUME NEW w \in Workers, NEW e \in Events, Claim(w, e) PROVE IInv'
  BY <1>2 DEF Claim, Shape, EffectOnce, FailedMeansSpent, Statuses, Idle
<1>3. ASSUME NEW w \in Workers, Mark(w) PROVE IInv'
  <2>1. worker[w].event \in Events
    BY <1>3 DEF Mark, Shape
  <2> QED
    BY <1>3, <2>1 DEF Mark, Markable, Shape, EffectOnce, FailedMeansSpent,
                      Statuses, Idle
<1>4. ASSUME NEW w \in Workers, FailGiveUp(w) PROVE IInv'
  <2>1. worker[w].event \in Events
    BY <1>4 DEF FailGiveUp, Shape
  <2> QED
    BY <1>4, <2>1 DEF FailGiveUp, Spent, Shape, EffectOnce, FailedMeansSpent,
                      Statuses, Idle
<1>5. ASSUME NEW w \in Workers, FailReadmit(w) PROVE IInv'
  <2>1. worker[w].event \in Events
    BY <1>5 DEF FailReadmit, Readmitted, Shape
  <2> QED
    BY <1>5, <2>1 DEF FailReadmit, Readmitted, Shape, EffectOnce, FailedMeansSpent,
                      Statuses, Idle
<1>6. ASSUME NEW w \in Workers,
             \/ MarkRefused(w) \/ FailNotSpent(w) \/ FailNothing(w) \/ Crash(w)
      PROVE  IInv'
  <2>1. UNCHANGED <<status, attempts, applied>>
    BY <1>6 DEF MarkRefused, FailNotSpent, FailNothing, Crash, rowVars
  <2>2. EffectOnce' /\ FailedMeansSpent'
    BY <2>1 DEF EffectOnce, FailedMeansSpent
  <2>3. Shape'
    BY <1>6, <2>1 DEF MarkRefused, FailNotSpent, FailNothing, Crash, Shape, Idle
  <2> QED
    BY <2>2, <2>3
<1>7. CASE ReclaimStale
  BY <1>7 DEF ReclaimStale, Readmitted, Stale, Spent, Shape, EffectOnce, FailedMeansSpent,
              Statuses
<1>8. CASE Tick
  BY <1>8 DEF Tick, Shape, EffectOnce, FailedMeansSpent
<1>9. CASE UNCHANGED vars
  BY <1>9 DEF vars, rowVars, Shape, EffectOnce, FailedMeansSpent
<1> QED
  BY <1>1, <1>2, <1>3, <1>4, <1>5, <1>6, <1>7, <1>8, <1>9 DEF Next, WorkerStep

(* The specification keeps the invariant.                                  *)
THEOREM InboxInvariant == Spec => []IInv
  BY InitIInv, NextIInv, PTL DEF Spec

(* The handler's writes for an event are committed exactly when the row is *)
(* PROCESSED and never twice, although nothing fences a superseded worker. *)
THEOREM InboxEffectOnce == Spec => []EffectOnce
<1>1. IInv => EffectOnce
  BY DEF IInv
<1> QED
  BY <1>1, InboxInvariant, PTL

(* No step reopens a PROCESSED or FAILED event.                            *)
THEOREM InboxClosedForGood == Spec => ClosedForGood
<1>1. IInv /\ [Next]_vars =>
        [\A e \in Events : status[e] \in Closed => status'[e] = status[e]]_vars
  <2> SUFFICES ASSUME IInv, Next, NEW e \in Events, status[e] \in Closed
               PROVE  status'[e] = status[e]
    OBVIOUS
  <2> USE DEF IInv, Shape, Closed
  <2>1. ASSUME NEW f \in Events, Record(f) PROVE status'[e] = status[e]
    BY <2>1 DEF Record, Inserts
  <2>2. ASSUME NEW w \in Workers, NEW f \in Events, Claim(w, f)
        PROVE  status'[e] = status[e]
    BY <2>2 DEF Claim
  <2>3. ASSUME NEW w \in Workers, WorkerStep(w) PROVE status'[e] = status[e]
    BY <2>3 DEF WorkerStep, Mark, Markable, MarkRefused, FailGiveUp, FailNotSpent,
                FailReadmit, FailNothing, Crash, rowVars
  <2>4. CASE ReclaimStale
    BY <2>4 DEF ReclaimStale, Readmitted, Stale
  <2>5. CASE Tick
    BY <2>5 DEF Tick
  <2> QED
    BY <2>1, <2>2, <2>3, <2>4, <2>5 DEF Next
<1> QED
  BY <1>1, InboxInvariant, PTL DEF Spec, ClosedForGood

(* What the budget rests on when `fail` runs without interference: an      *)
(* event that may be claimed has budget left, and the one `fail` between   *)
(* its UPDATEs still sees the row its first UPDATE found unspent.          *)
BudgetLeft == \A e \in Events :
    status[e] \in {"absent", "RECEIVED"} => attempts[e] < MaxAttempts

ReadmitsUnspent == \A w \in Workers : worker[w].at = "readmitting" =>
    /\ status[worker[w].event] = "PROCESSING" => attempts[worker[w].event] < MaxAttempts
    /\ \A v \in Workers : v # w => worker[v].at # "readmitting"

NothingClaimed == \A e \in Events : status[e] = "absent" => attempts[e] = 0

BInv == IInv /\ WithinBudget /\ BudgetLeft /\ ReadmitsUnspent /\ NothingClaimed

LEMMA NextBudget ==
    ASSUME AtomicFail, BInv, [Next]_vars
    PROVE  BInv'
<1> USE InboxAssumption
<1> DEFINE Budgeted == WithinBudget /\ BudgetLeft /\ ReadmitsUnspent /\ NothingClaimed
<1>s. Shape /\ Shape'
  BY NextIInv DEF BInv, IInv
<1>b. Budgeted
  BY DEF BInv
<1> SUFFICES Budgeted'
  BY NextIInv DEF BInv
<1>1. ASSUME NEW e \in Events, Record(e) PROVE Budgeted'
  BY <1>1, <1>s, <1>b DEF Record, Inserts, MayWrite, Shape, WithinBudget,
                          BudgetLeft, ReadmitsUnspent, NothingClaimed
<1>2. ASSUME NEW w \in Workers, NEW e \in Events, Claim(w, e) PROVE Budgeted'
  BY <1>2, <1>s, <1>b DEF Claim, MayWrite, Shape, WithinBudget, BudgetLeft,
                          ReadmitsUnspent, NothingClaimed
<1>3. ASSUME NEW w \in Workers, Mark(w) \/ MarkRefused(w) \/ FailGiveUp(w)
      PROVE  Budgeted'
  <2>1. \A v \in Workers : worker'[v].at # "readmitting"
    BY <1>3, <1>s DEF Mark, MarkRefused, FailGiveUp, MayWrite, Shape, Idle
  <2>2. UNCHANGED attempts /\ \A e \in Events :
          status'[e] = status[e] \/ status'[e] \in Closed
    BY <1>3, <1>s DEF Mark, MarkRefused, FailGiveUp, Shape, Closed, rowVars
  <2> QED
    BY <1>b, <2>1, <2>2 DEF WithinBudget, BudgetLeft, ReadmitsUnspent,
                            NothingClaimed, Closed
<1>4. ASSUME NEW w \in Workers, FailNotSpent(w) PROVE Budgeted'
  <2>1. worker[w].event \in Events
    BY <1>4, <1>s DEF FailNotSpent, Shape
  <2>2. WithinBudget' /\ BudgetLeft' /\ NothingClaimed'
    BY <1>4, <1>b DEF FailNotSpent, rowVars, WithinBudget, BudgetLeft,
                      NothingClaimed
  <2>3. ReadmitsUnspent'
    BY <1>4, <1>s, <1>b, <2>1 DEF FailNotSpent, MayWrite, Spent, Shape, rowVars,
                                  ReadmitsUnspent
  <2> QED
    BY <2>2, <2>3
<1>5. ASSUME NEW w \in Workers, FailReadmit(w) PROVE Budgeted'
  <2>1. worker[w].event \in Events /\ attempts[worker[w].event] < MaxAttempts
    BY <1>5, <1>s, <1>b DEF FailReadmit, Readmitted, Shape, ReadmitsUnspent
  <2>2. \A v \in Workers : worker'[v].at # "readmitting"
    BY <1>5, <1>s, <1>b DEF FailReadmit, Readmitted, Shape, ReadmitsUnspent, Idle
  <2>3. WithinBudget' /\ BudgetLeft' /\ NothingClaimed'
    BY <1>5, <1>s, <1>b, <2>1 DEF FailReadmit, Readmitted, Shape, WithinBudget, BudgetLeft,
                                  NothingClaimed
  <2> QED
    BY <2>2, <2>3 DEF ReadmitsUnspent
<1>6. ASSUME NEW w \in Workers, FailNothing(w) \/ Crash(w) PROVE Budgeted'
  <2>1. UNCHANGED <<status, attempts>>
    BY <1>6 DEF FailNothing, Crash, rowVars
  <2>2. \A v \in Workers : worker'[v].at = "readmitting" => worker'[v] = worker[v]
    BY <1>6, <1>s DEF FailNothing, Crash, Shape, Idle
  <2> QED
    BY <1>b, <2>1, <2>2 DEF WithinBudget, BudgetLeft, ReadmitsUnspent,
                            NothingClaimed
<1>7. CASE ReclaimStale
  BY <1>7, <1>s, <1>b DEF ReclaimStale, Readmitted, MayWrite, Stale, Spent, Shape,
                          WithinBudget, BudgetLeft, ReadmitsUnspent, NothingClaimed
<1>8. CASE Tick \/ UNCHANGED vars
  BY <1>8, <1>b DEF Tick, vars, rowVars, WithinBudget, BudgetLeft,
                    ReadmitsUnspent, NothingClaimed
<1> HIDE DEF Budgeted
<1> QED
  BY <1>1, <1>2, <1>3, <1>4, <1>5, <1>6, <1>7, <1>8 DEF Next, WorkerStep

(* When the two UPDATEs of `fail` cannot be interleaved (SQLite), no event *)
(* is claimed more often than its budget.  Without that assumption it is   *)
(* false: a reclaim and a claim fit in between.                            *)
THEOREM InboxBudget == ASSUME AtomicFail PROVE Spec => []WithinBudget
<1>1. Init => BInv
  BY InitIInv, InboxAssumption
     DEF Init, BInv, WithinBudget, BudgetLeft, ReadmitsUnspent, NothingClaimed,
         Idle
<1>2. BInv /\ [Next]_vars => BInv'
  BY NextBudget
<1>3. BInv => WithinBudget
  BY DEF BInv
<1> QED
  BY <1>1, <1>2, <1>3, PTL DEF Spec

(* A power of two is a natural number: that many subsets has 1..n.         *)
LEMMA PowerOfTwo == ASSUME NEW n \in Nat PROVE 2 ^ n \in Nat
<1>1. IsFiniteSet(1..n) /\ Cardinality(1..n) = n
  BY FS_Interval
<1>2. IsFiniteSet(SUBSET (1..n)) /\ Cardinality(SUBSET (1..n)) = 2 ^ n
  BY <1>1, FS_SUBSET
<1> QED
  BY <1>2, FS_CardinalityType

LEMMA BackoffIsNat == ASSUME NEW n \in Nat PROVE Backoff(n) \in Nat
<1>1. Max2(n - 1, 0) \in Nat
  BY DEF Max2
<1>2. 2 ^ Max2(n - 1, 0) \in Nat
  BY <1>1, PowerOfTwo
<1> QED
  BY <1>2, InboxAssumption DEF Backoff

(* Every variable stays in its domain: a claim within MaxClaims, a backoff *)
(* that is a number of seconds, and an age that stops counting when stale. *)
THEOREM InboxTyped == Spec => []TypeOK
<1> USE InboxAssumption
<1>1. Init => TypeOK
  BY DEF Init, TypeOK, Statuses, Idle
<1>2. IInv /\ TypeOK /\ [Next]_vars => TypeOK'
  <2> SUFFICES ASSUME IInv, TypeOK, [Next]_vars PROVE TypeOK'
    OBVIOUS
  <2>1. ASSUME NEW e \in Events, Record(e) PROVE TypeOK'
    BY <2>1 DEF Record, TypeOK, Statuses
  <2>2. ASSUME NEW w \in Workers, NEW e \in Events, Claim(w, e) PROVE TypeOK'
    BY <2>2 DEF Claim, TypeOK, Statuses
  <2>3. ASSUME NEW w \in Workers, Mark(w) \/ FailGiveUp(w) PROVE TypeOK'
    BY <2>3 DEF Mark, FailGiveUp, TypeOK, Statuses, Idle
  <2>4. ASSUME NEW w \in Workers, MarkRefused(w) \/ FailNotSpent(w) \/ FailNothing(w) \/ Crash(w)
        PROVE  TypeOK'
    BY <2>4 DEF MarkRefused, FailNotSpent, FailNothing, Crash, rowVars, TypeOK, Idle
  <2>5. ASSUME NEW w \in Workers, FailReadmit(w) PROVE TypeOK'
    <3>1. worker[w].event \in Events
      BY <2>5 DEF FailReadmit, IInv, Shape
    <3>2. Backoff(attempts[worker[w].event]) \in Nat
      BY <3>1, BackoffIsNat DEF TypeOK
    <3> QED
      BY <2>5, <3>2 DEF FailReadmit, Readmitted, TypeOK, Statuses, Idle
  <2>6. CASE ReclaimStale
    BY <2>6 DEF ReclaimStale, Readmitted, TypeOK, Statuses
  <2>7. CASE Tick
    <3>1. \A n \in Nat : Max2(n - 1, 0) \in Nat
      BY DEF Max2
    <3>2. \A n \in 0 .. StaleAfter + 1 : Min2(n + 1, StaleAfter + 1) \in 0 .. StaleAfter + 1
      BY DEF Min2
    <3> QED
      BY <2>7, <3>1, <3>2 DEF Tick, TypeOK
  <2>8. CASE UNCHANGED vars
    BY <2>8 DEF vars, rowVars, TypeOK
  <2> QED
    BY <2>1, <2>2, <2>3, <2>4, <2>5, <2>6, <2>7, <2>8 DEF Next, WorkerStep
<1> QED
  BY <1>1, <1>2, InboxInvariant, PTL DEF Spec

-----------------------------------------------------------------------------
(* The streams: counting the events of a queue                             *)

Items == {"event", "close"}

(* The events of a queue, counted by their places.                         *)
Places(q) == {i \in DOMAIN q : q[i] = "event"}

LEMMA PlacesFinite ==
    ASSUME NEW q \in Seq(Items)
    PROVE  IsFiniteSet(Places(q)) /\ EventsIn(q) \in Nat /\ EventsIn(q) <= Len(q)
<1>1. Places(q) \in SUBSET (1..Len(q)) /\ Len(q) \in Nat
  BY DEF Places
<1>2. IsFiniteSet(1..Len(q)) /\ Cardinality(1..Len(q)) = Len(q)
  <2> DEFINE n == Len(q)
  <2>1. n \in Int /\ 1 \in Int
    BY <1>1
  <2> HIDE DEF n
  <2>2. /\ IsFiniteSet(1..n)
        /\ Cardinality(1..n) = IF 1 > n THEN 0 ELSE n - 1 + 1
    BY <2>1, FS_Interval
  <2> QED
    BY <1>1, <2>2 DEF n
<1>3. IsFiniteSet(Places(q)) /\ Cardinality(Places(q)) <= Len(q)
  BY <1>1, <1>2, FS_Subset
<1>4. Cardinality(Places(q)) \in Nat
  BY <1>3, FS_CardinalityType
<1> QED
  BY <1>3, <1>4 DEF EventsIn, Places

LEMMA EventsAppend ==
    ASSUME NEW q \in Seq(Items), NEW item \in Items
    PROVE  EventsIn(Append(q, item)) = EventsIn(q) + IF item = "event" THEN 1 ELSE 0
<1> DEFINE n == Len(q) + 1
           a == Append(q, item)
<1>1. /\ n \in Nat \ {0} /\ DOMAIN a = 1..n /\ DOMAIN q = 1..n - 1
      /\ \A i \in 1..n - 1 : a[i] = q[i]
      /\ a[n] = item /\ n \notin Places(q)
  BY DEF Places
<1> HIDE DEF n, a
<1>2. Places(a) = IF item = "event" THEN Places(q) \cup {n} ELSE Places(q)
  <2>1. \A i \in 1..n : i \in Places(a) <=> a[i] = "event"
    BY <1>1 DEF Places
  <2>2. \A i \in 1..n - 1 : i \in Places(q) <=> q[i] = "event"
    BY <1>1 DEF Places
  <2>3. Places(a) \subseteq 1..n /\ Places(q) \subseteq 1..n - 1
    BY <1>1 DEF Places
  <2>4. /\ n \in 1..n /\ \A i \in 1..n - 1 : i \in 1..n /\ i # n
        /\ \A i \in 1..n : i = n \/ i \in 1..n - 1
    BY <1>1
  <2>5. n \in Places(a) <=> item = "event"
    BY <1>1, <2>1, <2>4
  <2>6. \A i \in 1..n - 1 : i \in Places(a) <=> i \in Places(q)
    BY <1>1, <2>1, <2>2, <2>4
  <2>7. \A i : i \in Places(a) <=> i \in Places(q) \/ (i = n /\ item = "event")
    BY <2>3, <2>4, <2>5, <2>6
  <2> QED
    BY <2>7
<1>3. Cardinality(Places(q) \cup {n}) = Cardinality(Places(q)) + 1
  BY <1>1, PlacesFinite, FS_AddElement
<1>4. Cardinality(Places(q)) \in Nat
  BY PlacesFinite DEF EventsIn, Places
<1>5. Cardinality(Places(a)) = Cardinality(Places(q)) + IF item = "event" THEN 1 ELSE 0
  BY <1>2, <1>3, <1>4
<1> QED
  BY <1>5 DEF EventsIn, Places, a

LEMMA EventsTail ==
    ASSUME NEW q \in Seq(Items), q # <<>>
    PROVE  EventsIn(q) = EventsIn(Tail(q)) + IF Head(q) = "event" THEN 1 ELSE 0
<1> DEFINE n == Len(q)
           t == Tail(q)
           S == Places(q) \ {1}
           f == [i \in Places(t) |-> i + 1]
<1>1. /\ n \in Nat \ {0} /\ DOMAIN q = 1..n /\ t \in Seq(Items) /\ DOMAIN t = 1..n - 1
      /\ \A i \in 1..n - 1 : t[i] = q[i + 1]
      /\ Head(q) = q[1]
  OBVIOUS
<1> HIDE DEF n, t
<1>2. f \in Bijection(Places(t), S)
  <2>1. ASSUME NEW i \in Places(t) PROVE i + 1 \in S
    BY <1>1 DEF Places
  <2>2. ASSUME NEW j \in S PROVE j - 1 \in Places(t) /\ (j - 1) + 1 = j
    BY <1>1 DEF Places
  <2>3. \A i, j \in Places(t) : i + 1 = j + 1 => i = j
    BY <1>1 DEF Places
  <2>4. f \in Injection(Places(t), S)
    BY <2>1, <2>3 DEF Injection, IsInjective
  <2>5. f \in Surjection(Places(t), S)
    BY <2>1, <2>2 DEF Surjection
  <2> QED
    BY <2>4, <2>5 DEF Bijection
<1> HIDE DEF f, S
<1>3. IsFiniteSet(Places(t)) /\ Cardinality(Places(t)) \in Nat
  BY <1>1, PlacesFinite, FS_CardinalityType
<1>4. Cardinality(S) = Cardinality(Places(t))
  <2>1. ExistsBijection(Places(t), S)
    BY <1>2 DEF ExistsBijection
  <2> QED
    BY <1>3, <2>1, FS_Bijection
<1>5. IsFiniteSet(Places(q)) /\ Cardinality(Places(q)) \in Nat
  BY PlacesFinite, FS_CardinalityType
<1>6. Cardinality(S) = IF 1 \in Places(q) THEN Cardinality(Places(q)) - 1 ELSE Cardinality(Places(q))
  BY <1>5, FS_RemoveElement DEF S
<1>7. 1 \in Places(q) <=> Head(q) = "event"
  BY <1>1 DEF Places
<1>8. Cardinality(Places(q)) = Cardinality(Places(t)) + IF Head(q) = "event" THEN 1 ELSE 0
  BY <1>3, <1>4, <1>5, <1>6, <1>7
<1> QED
  BY <1>8 DEF EventsIn, Places, t

-----------------------------------------------------------------------------
(* The streams: the invariant                                              *)

(* An evicted sentinel is counted as dropped.                              *)
SentinelsCounted == \A s \in Streams : unseated[s] <= dropped[s]

(* A fan-out that waits has an item to put.                                *)
WaitsWithItem == \A p \in Emitters : emit[p].on # None => emit[p].item \in Items

StreamInv == StreamTypeOK /\ EveryEventAccounted /\ SentinelsCounted /\ WaitsWithItem

Emission == [item : {"none", "event", "close"}, on : Streams \cup {None},
             todo : SUBSET Streams]

(* What is on its way to a client, and the corrections for what is not.    *)
Balance(s) == EventsIn(queue[s]) + Cardinality(Awaiting(s)) + dropped[s] - unseated[s]

(* A queue within its bound.                                               *)
Bounded(s) ==
    /\ MaxQueue > 0 => EventsIn(queue[s]) <= MaxQueue + unseated[s]
    /\ MaxQueue > 0 /\ overflow = "block" => Len(queue[s]) <= MaxQueue

LEMMA AwaitingFinite ==
    \A s, p : /\ IsFiniteSet(Awaiting(s)) /\ Cardinality(Awaiting(s)) \in Nat
              /\ Cardinality(Awaiting(s) \ {p}) =
                   Cardinality(Awaiting(s)) - IF p \in Awaiting(s) THEN 1 ELSE 0
<1> TAKE s, p
<1>1. IsFiniteSet(Awaiting(s))
  BY SSEAssumption, FS_Subset DEF Awaiting
<1>2. Cardinality(Awaiting(s)) \in Nat
  BY <1>1, FS_CardinalityType
<1>3. Cardinality(Awaiting(s) \ {p}) =
        IF p \in Awaiting(s) THEN Cardinality(Awaiting(s)) - 1 ELSE Cardinality(Awaiting(s))
  BY <1>1, FS_RemoveElement
<1> QED
  BY <1>1, <1>2, <1>3

(* _put on a set of streams none of which suspends.                        *)
LEMMA PutOnAccounts ==
    ASSUME StreamTypeOK, SentinelsCounted, NEW item \in Items, NEW S \in SUBSET Streams,
           \A s \in S : ~Blocks(s), PutOn(S, item), overflow' = overflow, NEW s \in Streams
    PROVE  /\ queue'[s] \in Seq(Items) /\ dropped'[s] \in Nat /\ unseated'[s] \in Nat
           /\ Bounded(s)' /\ unseated'[s] <= dropped'[s]
           /\ EventsIn(queue'[s]) + dropped'[s] - unseated'[s] =
                EventsIn(queue[s]) + dropped[s] - unseated[s]
                  + IF s \in S /\ item = "event" THEN 1 ELSE 0
<1> DEFINE q == queue[s]
           d == dropped[s]
           u == unseated[s]
<1>1. /\ q \in Seq(Items) /\ d \in Nat /\ u \in Nat /\ u <= d /\ Bounded(s)
      /\ MaxQueue \in Nat
  BY SSEAssumption DEF StreamTypeOK, SentinelsCounted, Bounded, Items
<1>2. /\ queue'[s] = IF s \in S THEN QueueAfter(s, item) ELSE q
      /\ dropped'[s] = d + IF s \in S THEN Drop(s, item) ELSE 0
      /\ unseated'[s] = u + IF s \in S /\ Evicts(s, item) /\ Head(q) = "close" THEN 1 ELSE 0
  BY DEF PutOn
<1>3. EventsIn(q) \in Nat /\ EventsIn(q) <= Len(q) /\ Len(q) \in Nat
  BY <1>1, PlacesFinite
<1> HIDE DEF q, d, u
<1>4. CASE s \notin S
  <2>1. queue'[s] = q /\ dropped'[s] = d /\ unseated'[s] = u
    BY <1>1, <1>2, <1>4
  <2> QED
    BY <1>1, <1>3, <1>4, <2>1 DEF Bounded, q, d, u
<1>5. CASE s \in S /\ Evicts(s, item)
  <2>1. /\ overflow # "block" /\ item = "event" /\ q # <<>>
        /\ Drop(s, item) = 1 /\ QueueAfter(s, item) = Append(Tail(q), item)
    BY <1>1, <1>5 DEF Evicts, Overflows, AtBound, Drop, QueueAfter, Items, q
  <2>2. /\ queue'[s] = Append(Tail(q), item) /\ dropped'[s] = d + 1
        /\ unseated'[s] = u + IF Head(q) = "close" THEN 1 ELSE 0
    BY <1>2, <1>5, <2>1
  <2>3. Tail(q) \in Seq(Items) /\ Head(q) \in Items /\ Append(Tail(q), item) \in Seq(Items)
    BY <1>1, <2>1
  <2>4. EventsIn(Tail(q)) \in Nat
    BY <2>3, PlacesFinite
  <2>5. /\ EventsIn(q) = EventsIn(Tail(q)) + IF Head(q) = "event" THEN 1 ELSE 0
        /\ EventsIn(Append(Tail(q), item)) = EventsIn(Tail(q)) + 1
    BY <1>1, <2>1, <2>3, EventsAppend, EventsTail
  <2>6. /\ EventsIn(queue'[s]) = EventsIn(Tail(q)) + 1
        /\ EventsIn(q) = EventsIn(Tail(q)) + IF Head(q) = "close" THEN 0 ELSE 1
    BY <2>2, <2>3, <2>5 DEF Items
  <2> DEFINE e == EventsIn(Tail(q))
             f == EventsIn(q)
             e1 == EventsIn(queue'[s])
             d1 == dropped'[s]
             u1 == unseated'[s]
  <2>7. /\ u1 \in Nat /\ d1 \in Nat /\ u1 <= d1
        /\ e1 + d1 - u1 = f + d - u + 1
    <3>1. e \in Nat /\ d \in Nat /\ u \in Nat /\ u <= d
      BY <1>1, <2>4
    <3>2. e1 = e + 1 /\ d1 = d + 1
      BY <2>2, <2>6
    <3>3. CASE Head(q) = "close"
      <4>1. u1 = u + 1 /\ f = e
        BY <3>1, <3>3, <2>2, <2>6
      <4> HIDE DEF e, f, e1, d1, u1
      <4> QED
        BY <3>1, <3>2, <4>1
    <3>4. CASE Head(q) # "close"
      <4>1. u1 = u /\ f = e + 1
        BY <3>1, <3>4, <2>2, <2>6
      <4> HIDE DEF e, f, e1, d1, u1
      <4> QED
        BY <3>1, <3>2, <4>1
    <3> QED
      BY <3>3, <3>4
  <2>8. Bounded(s)'
    BY <1>1, <2>1, <2>2, <2>4, <2>6 DEF Bounded, q, u
  <2> QED
    BY <1>5, <2>1, <2>2, <2>3, <2>7, <2>8 DEF q, d, u
<1>6. CASE s \in S /\ Overflows(s, item) /\ ~Evicts(s, item)
  <2>1. /\ item = "event" /\ queue'[s] = q /\ dropped'[s] = d + 1 /\ unseated'[s] = u
    BY <1>1, <1>2, <1>6 DEF Overflows, Drop, QueueAfter, Items, q
  <2> QED
    BY <1>1, <1>3, <1>6, <2>1 DEF Bounded, q, d, u
<1>7. CASE s \in S /\ ~Overflows(s, item)
  <2>1. /\ queue'[s] = Append(q, item) /\ dropped'[s] = d /\ unseated'[s] = u
    BY <1>1, <1>2, <1>7 DEF Drop, QueueAfter, Evicts, q
  <2>2. /\ Append(q, item) \in Seq(Items) /\ Len(Append(q, item)) = Len(q) + 1
        /\ EventsIn(Append(q, item)) = EventsIn(q) + IF item = "event" THEN 1 ELSE 0
    BY <1>1, EventsAppend
  <2>3. MaxQueue > 0 /\ (overflow = "block" \/ item = "event") => Len(q) < MaxQueue
    BY <1>1, <1>3, <1>7 DEF Overflows, Blocks, AtBound, q, Items
  <2>4. Bounded(s)'
    BY <1>1, <1>3, <2>1, <2>2, <2>3 DEF Bounded, q, u, Items
  <2> QED
    BY <1>1, <1>3, <1>7, <2>1, <2>2, <2>4 DEF q, d, u
<1> QED
  BY <1>4, <1>5, <1>6, <1>7

(* What a fan-out still owes a stream, before and after it ran.            *)
LEMMA AwaitingAfterRun ==
    ASSUME NEW p \in Emitters, emit \in [Emitters -> Emission],
           NEW e \in Emission, emit' = [emit EXCEPT ![p] = e], NEW s \in Streams
    PROVE  Cardinality(Awaiting(s)') =
             Cardinality(Awaiting(s)) - (IF p \in Awaiting(s) THEN 1 ELSE 0)
               + (IF e.item = "event" /\ s \in e.todo \cup {e.on} THEN 1 ELSE 0)
<1> DEFINE A == Awaiting(s)
           owes == e.item = "event" /\ s \in e.todo \cup {e.on}
<1>1. \A r \in Emitters : r \in Awaiting(s)' <=> (r # p /\ r \in A) \/ (r = p /\ owes)
  BY DEF Awaiting
<1>2. Awaiting(s)' \subseteq Emitters /\ A \subseteq Emitters
  BY DEF Awaiting
<1>3. Awaiting(s)' = IF owes THEN (A \ {p}) \cup {p} ELSE A \ {p}
  <2> HIDE DEF A, owes
  <2> QED
    BY <1>1, <1>2
<1>4. /\ IsFiniteSet(A) /\ Cardinality(A) \in Nat
      /\ Cardinality(A \ {p}) = Cardinality(A) - IF p \in A THEN 1 ELSE 0
  BY AwaitingFinite
<1> HIDE DEF A
<1>5. IsFiniteSet(A \ {p})
  BY <1>4, FS_Subset
<1>6. Cardinality((A \ {p}) \cup {p}) = Cardinality(A \ {p}) + 1
  BY <1>5, FS_AddElement
<1>7. Cardinality(Awaiting(s)') = Cardinality(A \ {p}) + IF owes THEN 1 ELSE 0
  <2>1. Cardinality(A \ {p}) \in Int
    BY <1>4
  <2> HIDE DEF owes
  <2>2. CASE owes
    BY <1>3, <1>6, <2>2
  <2>3. CASE ~owes
    BY <1>3, <2>1, <2>3
  <2> QED
    BY <2>2, <2>3
<1> QED
  BY <1>4, <1>7 DEF A

(* One stretch of a fan-out: the streams stay within their bounds, and     *)
(* each stream of todo is given the item, or is owed it.                   *)
LEMMA RunKeeps ==
    ASSUME StreamInv, NEW p \in Emitters, NEW item \in Items,
           NEW todo \in SUBSET Streams, NEW must, Run(p, item, todo, must),
           overflow' = overflow
    PROVE  /\ emit' \in [Emitters -> Emission] /\ WaitsWithItem'
           /\ queue' \in [Streams -> Seq(Items)]
           /\ {dropped', unseated'} \subseteq [Streams -> Nat]
           /\ \A s \in Streams :
                /\ Bounded(s)' /\ unseated'[s] <= dropped'[s]
                /\ Balance(s) \in Int
                /\ Balance(s)' = Balance(s) - (IF p \in Awaiting(s) THEN 1 ELSE 0)
                                   + (IF s \in todo /\ item = "event" THEN 1 ELSE 0)
<1>1. PICK S \in SUBSET todo :
        /\ \A s \in S : ~Blocks(s)
        /\ PutOn(S, item)
        /\ \/ S = todo /\ emit' = [emit EXCEPT ![p] = NoEmit]
           \/ \E s \in todo \ S :
                 emit' = [emit EXCEPT ![p] =
                            [item |-> item, on |-> s, todo |-> todo \ (S \cup {s})]]
  BY DEF Run
<1>2. PICK e \in Emission :
        /\ emit' = [emit EXCEPT ![p] = e]
        /\ e.on # None => e.item \in Items
        /\ \A s \in Streams : (e.item = "event" /\ s \in e.todo \cup {e.on})
                                 <=> (item = "event" /\ s \in todo \ S)
  <2>1. CASE S = todo /\ emit' = [emit EXCEPT ![p] = NoEmit]
    <3>1. /\ NoEmit \in Emission /\ NoEmit.on = None /\ NoEmit.item # "event"
      BY DEF NoEmit, Emission
    <3> QED
      BY <2>1, <3>1
  <2>2. ASSUME NEW on \in todo \ S,
               emit' = [emit EXCEPT ![p] =
                          [item |-> item, on |-> on, todo |-> todo \ (S \cup {on})]]
        PROVE  \E e \in Emission :
                 /\ emit' = [emit EXCEPT ![p] = e]
                 /\ e.on # None => e.item \in Items
                 /\ \A s \in Streams : (e.item = "event" /\ s \in e.todo \cup {e.on})
                                          <=> (item = "event" /\ s \in todo \ S)
    <3> DEFINE e == [item |-> item, on |-> on, todo |-> todo \ (S \cup {on})]
    <3>1. e \in Emission /\ e.item = item /\ e.on = on /\ e.todo = todo \ (S \cup {on})
      BY DEF Emission, Items
    <3>2. emit' = [emit EXCEPT ![p] = e]
      BY <2>2
    <3> HIDE DEF e
    <3>3. \A s \in Streams : s \in e.todo \cup {e.on} <=> s \in todo \ S
      BY <3>1
    <3> QED
      BY <3>1, <3>2, <3>3
  <2> QED
    BY <1>1, <2>1, <2>2
<1>3. emit \in [Emitters -> Emission] /\ emit' \in [Emitters -> Emission]
  BY <1>2 DEF StreamInv, StreamTypeOK, Emission
<1>4. WaitsWithItem'
  BY <1>2, <1>3 DEF StreamInv, WaitsWithItem
<1>5. ASSUME NEW s \in Streams
      PROVE  /\ queue'[s] \in Seq(Items) /\ dropped'[s] \in Nat /\ unseated'[s] \in Nat
             /\ Bounded(s)' /\ unseated'[s] <= dropped'[s]
             /\ EventsIn(queue'[s]) + dropped'[s] - unseated'[s] =
                  EventsIn(queue[s]) + dropped[s] - unseated[s]
                    + IF s \in S /\ item = "event" THEN 1 ELSE 0
  <2>1. S \in SUBSET Streams /\ \A r \in S : ~Blocks(r)
    BY <1>1
  <2> QED
    BY <1>1, <2>1, PutOnAccounts DEF StreamInv
<1>6. /\ queue' \in [Streams -> Seq(Items)]
      /\ {dropped', unseated'} \subseteq [Streams -> Nat]
  <2>1. /\ queue' = [s \in Streams |-> queue'[s]]
        /\ dropped' = [s \in Streams |-> dropped'[s]]
        /\ unseated' = [s \in Streams |-> unseated'[s]]
    BY <1>1 DEF PutOn
  <2>2. /\ dropped' \in [Streams -> Nat] /\ unseated' \in [Streams -> Nat]
        /\ queue' \in [Streams -> Seq(Items)]
    BY <1>5, <2>1
  <2> QED
    BY <2>2
<1>7. ASSUME NEW s \in Streams
      PROVE  /\ Balance(s) \in Int
             /\ Balance(s)' = Balance(s) - (IF p \in Awaiting(s) THEN 1 ELSE 0)
                                + (IF s \in todo /\ item = "event" THEN 1 ELSE 0)
  <2> DEFINE c == Cardinality(Awaiting(s))
             c1 == Cardinality(Awaiting(s)')
             b == EventsIn(queue[s]) + dropped[s] - unseated[s]
             b1 == EventsIn(queue'[s]) + dropped'[s] - unseated'[s]
             owed == IF p \in Awaiting(s) THEN 1 ELSE 0
             given == IF s \in S /\ item = "event" THEN 1 ELSE 0
             left == IF s \in todo \ S /\ item = "event" THEN 1 ELSE 0
             due == IF s \in todo /\ item = "event" THEN 1 ELSE 0
  <2>1. c \in Nat /\ c1 = c - owed + left
    <3>1. c1 = c - owed + (IF e.item = "event" /\ s \in e.todo \cup {e.on} THEN 1 ELSE 0)
      BY <1>2, <1>3, AwaitingAfterRun
    <3>2. (e.item = "event" /\ s \in e.todo \cup {e.on}) <=> (s \in todo \ S /\ item = "event")
      BY <1>2
    <3> QED
      BY <3>1, <3>2, AwaitingFinite
  <2>2. b1 = b + given
    BY <1>5
  <2>3. /\ dropped[s] \in Nat /\ unseated[s] \in Nat /\ queue[s] \in Seq(Items)
        /\ EventsIn(queue[s]) \in Nat
    BY PlacesFinite DEF StreamInv, StreamTypeOK, Items
  <2>4. EventsIn(queue'[s]) \in Nat
    BY <1>5, PlacesFinite
  <2>5. given \in Int /\ left \in Int /\ owed \in Int /\ given + left = due
    BY <1>1
  <2>6. b \in Int /\ Balance(s) = b + c
    BY <2>1, <2>3 DEF Balance
  <2>7. c1 \in Int
    BY <2>1, <2>5
  <2>8. Balance(s)' = b1 + c1
    BY <1>5, <2>4, <2>7 DEF Balance
  <2> HIDE DEF c, c1, b, b1, owed, given, left, due
  <2>9. Balance(s) \in Int /\ Balance(s)' = Balance(s) - owed + due
    BY <2>1, <2>2, <2>5, <2>6, <2>8
  <2> QED
    BY <2>9 DEF owed, due
<1> QED
  BY <1>3, <1>4, <1>5, <1>6, <1>7

-----------------------------------------------------------------------------
(* The streams: the invariant is kept                                      *)

(* The invariant, stream by stream.                                        *)
Typed ==
    /\ queue \in [Streams -> Seq(Items)]
    /\ channel \in [Streams -> Channels \cup {None}]
    /\ client \in [Streams -> {"new", "opened", "reading", "gone", "ghost"}]
    /\ emit \in [Emitters -> Emission]
    /\ {dropped, received, offered, unseated} \subseteq [Streams -> Nat]

InBalance(s) ==
    /\ Bounded(s) /\ unseated[s] <= dropped[s]
    /\ Balance(s) \in Int /\ offered[s] = received[s] + Balance(s)

AllInBalance == \A s \in Streams : InBalance(s)

LEMMA StreamByStream == StreamInv <=> Typed /\ WaitsWithItem /\ AllInBalance
<1>1. StreamTypeOK <=> Typed /\ \A s \in Streams : Bounded(s)
  BY DEF StreamTypeOK, Typed, Bounded, Emission, Items
<1>2. ASSUME Typed, NEW s \in Streams
      PROVE  /\ Balance(s) \in Int
             /\ received[s] + EventsIn(queue[s]) + Cardinality(Awaiting(s))
                  + dropped[s] - unseated[s] = received[s] + Balance(s)
  <2>1. EventsIn(queue[s]) \in Nat /\ Cardinality(Awaiting(s)) \in Nat
    BY <1>2, PlacesFinite, AwaitingFinite DEF Typed
  <2>2. dropped[s] \in Nat /\ unseated[s] \in Nat /\ received[s] \in Nat
    BY <1>2 DEF Typed
  <2> QED
    BY <2>1, <2>2 DEF Balance
<1>3. ASSUME StreamInv PROVE \A s \in Streams : InBalance(s)
  BY <1>1, <1>2, <1>3 DEF StreamInv, InBalance, SentinelsCounted, EveryEventAccounted
<1>4. ASSUME Typed, \A s \in Streams : InBalance(s)
      PROVE  StreamTypeOK /\ SentinelsCounted /\ EveryEventAccounted
  BY <1>1, <1>2, <1>4 DEF InBalance, SentinelsCounted, EveryEventAccounted
<1> QED
  BY <1>1, <1>3, <1>4 DEF StreamInv, AllInBalance

LEMMA InitStreamInv == StreamInit => StreamInv
<1> SUFFICES ASSUME StreamInit PROVE StreamInv
  OBVIOUS
<1>1. Typed /\ WaitsWithItem
  BY SSEAssumption DEF StreamInit, Typed, WaitsWithItem, NoEmit, Emission, Items
<1>2. ASSUME NEW s \in Streams PROVE InBalance(s)
  <2>1. Awaiting(s) = {}
    BY DEF StreamInit, Awaiting, NoEmit
  <2>2. Cardinality(Awaiting(s)) = 0
    BY <2>1, FS_EmptySet
  <2>3. queue[s] = <<>> /\ Len(queue[s]) = 0 /\ queue[s] \in Seq(Items)
    BY DEF StreamInit
  <2>4. EventsIn(queue[s]) = 0
    <3>1. EventsIn(queue[s]) \in Nat /\ EventsIn(queue[s]) <= Len(queue[s])
      BY <2>3, PlacesFinite
    <3> QED
      BY <2>3, <3>1
  <2>5. dropped[s] = 0 /\ unseated[s] = 0 /\ received[s] = 0 /\ offered[s] = 0
    BY DEF StreamInit
  <2>6. Bounded(s)
    BY SSEAssumption, <2>3, <2>4, <2>5 DEF Bounded
  <2> QED
    BY <2>2, <2>3, <2>4, <2>5, <2>6 DEF InBalance, Balance
<1> QED
  BY <1>1, <1>2, StreamByStream DEF AllInBalance

(* What p owed is settled, and what it now runs for is offered.            *)
Settled(p, item, todo) ==
    /\ offered' \in [Streams -> Nat]
    /\ \A s \in Streams :
          offered'[s] = offered[s] - (IF p \in Awaiting(s) THEN 1 ELSE 0)
                          + (IF s \in todo /\ item = "event" THEN 1 ELSE 0)

(* A fan-out that starts or goes on.                                       *)
LEMMA RunInBalance ==
    ASSUME StreamInv, NEW p \in Emitters, NEW item \in Items,
           NEW todo \in SUBSET Streams, NEW must, Run(p, item, todo, must),
           overflow' = overflow, UNCHANGED <<channel, client, received>>,
           Settled(p, item, todo)
    PROVE  StreamInv'
<1>1. /\ emit' \in [Emitters -> Emission] /\ WaitsWithItem'
      /\ queue' \in [Streams -> Seq(Items)]
      /\ {dropped', unseated'} \subseteq [Streams -> Nat]
      /\ \A s \in Streams :
           /\ Bounded(s)' /\ unseated'[s] <= dropped'[s]
           /\ Balance(s) \in Int
           /\ Balance(s)' = Balance(s) - (IF p \in Awaiting(s) THEN 1 ELSE 0)
                              + (IF s \in todo /\ item = "event" THEN 1 ELSE 0)
  BY RunKeeps
<1>2. Typed /\ \A s \in Streams : InBalance(s)
  BY StreamByStream DEF AllInBalance
<1>3. Typed'
  BY <1>1, <1>2 DEF Typed, Settled
<1>4. ASSUME NEW s \in Streams PROVE InBalance(s)'
  <2> DEFINE b == Balance(s)
             b1 == Balance(s)'
             owed == IF p \in Awaiting(s) THEN 1 ELSE 0
             due == IF s \in todo /\ item = "event" THEN 1 ELSE 0
  <2>1. /\ b \in Int /\ owed \in Int /\ due \in Int /\ b1 = b - owed + due
        /\ offered'[s] = offered[s] - owed + due /\ offered[s] = received[s] + b
        /\ received[s] \in Nat /\ received'[s] = received[s]
    BY <1>1, <1>2 DEF InBalance, Typed, Settled
  <2> HIDE DEF b, b1, owed, due
  <2>2. b1 \in Int /\ offered'[s] = received'[s] + b1
    BY <2>1
  <2> QED
    BY <1>1, <2>2 DEF InBalance, b1
<1>5. AllInBalance'
  BY <1>4 DEF AllInBalance
<1> QED
  BY <1>1, <1>3, <1>5, StreamByStream, PTL

(* A step that moves no item.                                              *)
LEMMA NothingMoved ==
    ASSUME StreamInv, UNCHANGED <<overflow, queue, dropped, emit, received, offered,
                                  unseated>>,
           channel' \in [Streams -> Channels \cup {None}],
           client' \in [Streams -> {"new", "opened", "reading", "gone", "ghost"}]
    PROVE  StreamInv'
<1>1. Typed /\ WaitsWithItem /\ \A s \in Streams : InBalance(s)
  BY StreamByStream DEF AllInBalance
<1>2. Typed' /\ WaitsWithItem'
  BY <1>1 DEF Typed, WaitsWithItem
<1>3. AllInBalance'
  BY <1>1 DEF AllInBalance, InBalance, Balance, Bounded, Awaiting
<1> QED
  BY <1>2, <1>3, StreamByStream, PTL

LEMMA ReadKeeps ==
    ASSUME StreamInv, NEW s \in Streams, Read(s)
    PROVE  StreamInv'
<1>1. Typed /\ WaitsWithItem /\ \A r \in Streams : InBalance(r)
  BY StreamByStream DEF AllInBalance
<1>2. /\ queue' = [queue EXCEPT ![s] = Tail(queue[s])] /\ queue[s] # <<>>
      /\ received' = [received EXCEPT ![s] =
                        IF Head(queue[s]) = "event" THEN received[s] + 1 ELSE received[s]]
      /\ UNCHANGED <<overflow, dropped, emit, offered, unseated>>
  <2>1. queue[s] # <<>> /\ Head(queue[s]) \in Items
    BY <1>1 DEF Read, Typed
  <2> QED
    BY <1>1, <2>1 DEF Read, Items, Typed
<1>3. Typed' /\ WaitsWithItem'
  <2>1. received' \in [Streams -> Nat]
    BY <1>1, <1>2 DEF Typed
  <2>2. /\ channel' \in [Streams -> Channels \cup {None}]
        /\ client' \in [Streams -> {"new", "opened", "reading", "gone", "ghost"}]
    BY <1>1 DEF Typed, Read
  <2>3. queue' \in [Streams -> Seq(Items)]
    <3>1. Tail(queue[s]) \in Seq(Items)
      BY <1>1, <1>2 DEF Typed
    <3> QED
      BY <1>1, <1>2, <3>1 DEF Typed
  <2> QED
    BY <1>1, <1>2, <2>1, <2>2, <2>3 DEF Typed, WaitsWithItem
<1>4. \A r \in Streams : Awaiting(r)' = Awaiting(r)
  BY <1>2 DEF Awaiting
<1>5. ASSUME NEW r \in Streams, r # s PROVE InBalance(r)'
  <2>1. /\ queue'[r] = queue[r] /\ received'[r] = received[r]
    BY <1>1, <1>2, <1>5 DEF Typed
  <2> QED
    BY <1>1, <1>2, <1>4, <2>1 DEF InBalance, Balance, Bounded
<1>6. InBalance(s)'
  <2> DEFINE q == queue[s]
             t == Tail(queue[s])
             got == IF Head(q) = "event" THEN 1 ELSE 0
             c == Cardinality(Awaiting(s))
  <2>1. /\ q \in Seq(Items) /\ q # <<>> /\ Bounded(s)
        /\ queue' = [queue EXCEPT ![s] = t]
    BY <1>1, <1>2 DEF InBalance, Typed
  <2>2. t \in Seq(Items) /\ Len(t) <= Len(q) /\ Len(q) \in Nat /\ Len(t) \in Nat
    BY <2>1
  <2>3. /\ EventsIn(t) \in Nat /\ EventsIn(q) = EventsIn(t) + got
        /\ EventsIn(q) \in Nat /\ got \in {0, 1} /\ c \in Nat
    BY <2>1, <2>2, PlacesFinite, EventsTail, AwaitingFinite
  <2>4. queue'[s] = t
    BY <1>1, <2>1 DEF Typed
  <2>5. /\ received'[s] = received[s] + got /\ received[s] \in Nat
        /\ dropped[s] \in Nat /\ unseated[s] \in Nat
        /\ unseated[s] <= dropped[s] /\ offered[s] = received[s] + Balance(s)
    BY <1>1, <1>2 DEF Typed, InBalance
  <2>6. Balance(s) = EventsIn(q) + c + dropped[s] - unseated[s]
    BY DEF Balance
  <2>7. Balance(s)' = EventsIn(t) + c + dropped[s] - unseated[s]
    BY <1>2, <1>4, <2>4 DEF Balance
  <2>8. Bounded(s)'
    <3> HIDE DEF q, t, got
    <3>1. EventsIn(t) <= EventsIn(q) /\ MaxQueue \in Nat
      BY <2>3, SSEAssumption
    <3>2. /\ MaxQueue > 0 => EventsIn(q) <= MaxQueue + unseated[s]
          /\ MaxQueue > 0 /\ overflow = "block" => Len(q) <= MaxQueue
      BY <2>1 DEF Bounded, q
    <3>3. /\ MaxQueue > 0 => EventsIn(t) <= MaxQueue + unseated[s]
          /\ MaxQueue > 0 /\ overflow = "block" => Len(t) <= MaxQueue
      BY <2>2, <2>3, <2>5, <3>1, <3>2
    <3> QED
      BY <1>2, <2>4, <3>3 DEF Bounded
  <2> HIDE DEF q, t, got, c
  <2>9. Balance(s)' \in Int /\ offered[s] = received'[s] + Balance(s)'
    BY <2>3, <2>5, <2>6, <2>7
  <2> QED
    BY <1>2, <2>2, <2>4, <2>5, <2>8, <2>9 DEF InBalance
<1>7. AllInBalance'
  BY <1>5, <1>6 DEF AllInBalance
<1> QED
  BY <1>3, <1>7, StreamByStream, PTL

(* The cancelled fan-out owes nothing any more.                            *)
LEMMA CancelKeeps ==
    ASSUME StreamInv, NEW p \in Emitters, Cancelled(p)
    PROVE  StreamInv'
<1>1. Typed /\ WaitsWithItem /\ \A s \in Streams : InBalance(s)
  BY StreamByStream DEF AllInBalance
<1>2. /\ emit' = [emit EXCEPT ![p] = NoEmit] /\ NoEmit \in Emission
      /\ NoEmit.item # "event" /\ NoEmit.on = None
      /\ UNCHANGED <<overflow, channel, client, queue, dropped, received, unseated>>
  BY DEF Cancelled, NoEmit, Emission
<1>3. ASSUME NEW s \in Streams
      PROVE  InBalance(s)' /\ offered'[s] \in Nat
  <2> DEFINE owed == IF p \in Awaiting(s) THEN 1 ELSE 0
             c == Cardinality(Awaiting(s))
             c1 == Cardinality(Awaiting(s)')
             e == EventsIn(queue[s])
             d == dropped[s]
             u == unseated[s]
  <2>1. offered'[s] = offered[s] - owed
    BY DEF Cancelled, Awaiting
  <2>2. c1 = c - owed
    <3>1. c1 = c - owed + 0
      BY <1>1, <1>2, AwaitingAfterRun DEF Typed
    <3>2. c - owed \in Int
      BY AwaitingFinite
    <3> QED
      BY <3>1, <3>2
  <2>3. c \in Nat /\ c - owed \in Nat
    <3>1. IsFiniteSet(Awaiting(s) \ {p})
      BY AwaitingFinite, FS_Subset
    <3>2. Cardinality(Awaiting(s) \ {p}) \in Nat
      BY <3>1, FS_CardinalityType
    <3> QED
      BY <3>2, AwaitingFinite
  <2>4. /\ e \in Nat /\ d \in Nat /\ u \in Nat /\ u <= d /\ offered[s] \in Nat
        /\ received[s] \in Nat /\ offered[s] = received[s] + (e + c + d - u)
    BY <1>1, PlacesFinite DEF InBalance, Balance, Typed
  <2>5. Balance(s)' = e + c1 + d - u
    BY <1>2 DEF Balance
  <2>6. owed \in {0, 1} /\ received'[s] = received[s]
    BY <1>2
  <2>7. Bounded(s)' /\ unseated'[s] <= dropped'[s]
    BY <1>1, <1>2 DEF InBalance, Bounded
  <2> HIDE DEF owed, c, c1, e, d, u
  <2>8. /\ Balance(s)' \in Int /\ offered'[s] = received'[s] + Balance(s)'
        /\ offered'[s] \in Nat
    BY <2>1, <2>2, <2>3, <2>4, <2>5, <2>6
  <2> QED
    BY <2>7, <2>8 DEF InBalance
<1>4. offered' \in [Streams -> Nat]
  <2>1. offered' = [s \in Streams |-> offered'[s]]
    BY DEF Cancelled
  <2> QED
    BY <1>3, <2>1
<1>5. Typed' /\ WaitsWithItem'
  BY <1>1, <1>2, <1>4 DEF Typed, WaitsWithItem
<1>6. AllInBalance'
  BY <1>3 DEF AllInBalance
<1> QED
  BY <1>5, <1>6, StreamByStream, PTL

LEMMA NextStreamInv == StreamInv /\ [StreamNext]_streamVars => StreamInv'
<1> SUFFICES ASSUME StreamInv, [StreamNext]_streamVars PROVE StreamInv'
  OBVIOUS
<1>1. Typed /\ WaitsWithItem /\ \A s \in Streams : InBalance(s)
  BY StreamByStream DEF AllInBalance
<1>2. ASSUME NEW p \in Emitters, emit[p] = NoEmit
      PROVE  \A s : p \notin Awaiting(s)
  BY <1>2 DEF Awaiting, NoEmit
<1>3. ASSUME NEW S, Offer(S)
      PROVE  /\ offered' \in [Streams -> Nat]
             /\ \A s \in Streams : offered'[s] = offered[s] - 0 + IF s \in S THEN 1 ELSE 0
  BY <1>1, <1>3 DEF Offer, Typed
<1>4. ASSUME NEW p \in Emitters, NEW S \in SUBSET Streams, emit[p] = NoEmit,
             Offer(S), Run(p, "event", S, {}),
             UNCHANGED <<overflow, channel, client, received>>
      PROVE  StreamInv'
  <2>1. \A s \in Streams :
           offered'[s] = offered[s] - (IF p \in Awaiting(s) THEN 1 ELSE 0)
                           + (IF s \in S /\ "event" = "event" THEN 1 ELSE 0)
    BY <1>2, <1>3, <1>4
  <2>2. "event" \in Items /\ offered' \in [Streams -> Nat]
    BY <1>3, <1>4 DEF Items
  <2> QED
    BY <1>4, <2>1, <2>2, RunInBalance DEF Settled
<1>5. ASSUME NEW s \in Streams, NEW c \in Channels, Open(s, c) PROVE StreamInv'
  <2>1. /\ channel' \in [Streams -> Channels \cup {None}]
        /\ client' \in [Streams -> {"new", "opened", "reading", "gone", "ghost"}]
    BY <1>1, <1>5 DEF Typed, Open
  <2> QED
    BY <1>5, <2>1, NothingMoved DEF Open
<1>6. ASSUME NEW s \in Streams, Start(s) \/ LeaveUnstarted(s) \/ Leave(s)
      PROVE  StreamInv'
  <2>1. /\ channel' \in [Streams -> Channels \cup {None}]
        /\ client' \in [Streams -> {"new", "opened", "reading", "gone", "ghost"}]
        /\ UNCHANGED <<overflow, queue, dropped, emit, received, offered, unseated>>
    BY <1>1, <1>6 DEF Typed, Start, LeaveUnstarted, Leave
  <2> QED
    BY <2>1, NothingMoved
<1>7. ASSUME NEW s \in Streams, Read(s) PROVE StreamInv'
  BY <1>7, ReadKeeps
<1>8. ASSUME NEW p \in Emitters, NEW c \in Channels, Publish(p, c) PROVE StreamInv'
  <2> DEFINE members == {s \in Registered : channel[s] = c}
  <2>1. members \in SUBSET Streams
    BY DEF Registered
  <2>2. /\ emit[p] = NoEmit /\ Offer(members) /\ Run(p, "event", members, {})
        /\ UNCHANGED <<overflow, channel, client, received>>
    BY <1>8 DEF Publish
  <2> QED
    BY <1>4, <2>1, <2>2
<1>9. ASSUME NEW p \in Emitters, Broadcast(p) PROVE StreamInv'
  <2>1. Registered \in SUBSET Streams
    BY DEF Registered
  <2> QED
    BY <1>4, <1>9, <2>1 DEF Broadcast
<1>10. ASSUME NEW p \in Emitters, NEW s \in Streams, Close(p, s) PROVE StreamInv'
  <2>1. /\ emit[p] = NoEmit /\ Run(p, "close", {s}, {}) /\ {s} \in SUBSET Streams
        /\ UNCHANGED <<overflow, channel, client, received, offered>>
        /\ "close" \in Items /\ offered' \in [Streams -> Nat]
    BY <1>1, <1>10 DEF Close, Items, Typed
  <2>2. \A r \in Streams :
           offered'[r] = offered[r] - (IF p \in Awaiting(r) THEN 1 ELSE 0)
                           + (IF r \in {s} /\ "close" = "event" THEN 1 ELSE 0)
    BY <1>1, <1>2, <2>1 DEF Typed
  <2> QED
    BY <2>1, <2>2, RunInBalance DEF Settled
<1>11. ASSUME NEW p \in Emitters, Resume(p) PROVE StreamInv'
  <2> DEFINE item == emit[p].item
             todo == emit[p].todo \cup {emit[p].on}
  <2>1. /\ Run(p, item, todo, {emit[p].on})
        /\ UNCHANGED <<overflow, channel, client, received, offered>>
        /\ emit[p].on # None
    BY <1>11 DEF Resume
  <2>2. item \in Items /\ todo \in SUBSET Streams /\ offered' \in [Streams -> Nat]
    BY <1>1, <2>1 DEF WaitsWithItem, Typed, Emission
  <2>3. \A s \in Streams :
           offered'[s] = offered[s] - (IF p \in Awaiting(s) THEN 1 ELSE 0)
                           + (IF s \in todo /\ item = "event" THEN 1 ELSE 0)
    <3>1. \A s \in Streams : p \in Awaiting(s) <=> s \in todo /\ item = "event"
      BY DEF Awaiting
    <3>2. \A s \in Streams : offered[s] \in Nat /\ offered'[s] = offered[s]
      BY <1>1, <2>1 DEF Typed
    <3> QED
      BY <3>1, <3>2
  <2> HIDE DEF item, todo
  <2> QED
    BY <2>1, <2>2, <2>3, RunInBalance DEF Settled
<1>12. ASSUME NEW p \in Emitters, Cancelled(p) PROVE StreamInv'
  BY <1>12, CancelKeeps
<1>13. CASE UNCHANGED streamVars
  BY <1>1, <1>13, NothingMoved DEF streamVars, Typed
<1> QED
  BY <1>5, <1>6, <1>7, <1>8, <1>9, <1>10, <1>11, <1>12, <1>13 DEF StreamNext

(* Every stream's queue, counters and fan-outs, and the whole account of   *)
(* its events (EventStream._put, SSEBroker._emit_local).                   *)
THEOREM StreamInvariant == StreamSpec => []StreamInv
<1>1. StreamInit => StreamInv
  BY InitStreamInv
<1>2. StreamInv /\ [StreamNext]_streamVars => StreamInv'
  BY NextStreamInv
<1> QED
  BY <1>1, <1>2, PTL DEF StreamSpec

(* The queue of a stream holds at most max_queue events besides those that *)
(* replaced a sentinel, and at most max_queue items under "block"          *)
(* (EventStream._put).                                                     *)
THEOREM StreamTyped == StreamSpec => []StreamTypeOK
<1>1. StreamInv => StreamTypeOK
  BY DEF StreamInv
<1> QED
  BY <1>1, StreamInvariant, PTL

(* No event vanishes between a fan-out and the client: dropped_events, the *)
(* queue, what was sent and the waiting fan-outs account for all of them.  *)
THEOREM EventsAccounted == StreamSpec => []EveryEventAccounted
<1>1. StreamInv => EveryEventAccounted
  BY DEF StreamInv
<1> QED
  BY <1>1, StreamInvariant, PTL
=============================================================================
