----------------------------- MODULE LockProofs -----------------------------
(* Proofs about the two locks: the ones a process keeps per idempotency    *)
(* key, for any number of requests and bodies, and the lease the replicas  *)
(* share, for every set of replicas, every TTL and every stall, and any    *)
(* number of errors and of stopped replicas.  The two have no state in     *)
(* common, and none of the definitions of one uses the other's.            *)
EXTENDS Idempotency, SchedulerLease, FiniteSetTheorems, TLAPS

-----------------------------------------------------------------------------
(* Sequences                                                               *)

LEMMA Smallest ==
    ASSUME NEW S \in SUBSET Nat, S # {}
    PROVE  \E x \in S : \A y \in S : x <= y
<1> DEFINE Below == {p \in Nat \X Nat : p[1] < p[2]}
<1>1. IsWellFoundedOn(Below, Nat)
  BY NatLessThanWellFounded DEF OpToRel
<1>2. PICK x \in S : \A y \in S : <<y, x>> \notin Below
  <2> HIDE DEF Below
  <2> QED
    BY <1>1, WFMin
<1>3. ASSUME NEW y \in S PROVE x <= y
  <2>1. x \in Nat /\ y \in Nat /\ <<y, x>> \notin Below
    BY <1>2
  <2>2. ~(y < x)
    BY <2>1
  <2> QED
    BY <2>1, <2>2
<1> HIDE DEF Below
<1> QED
  BY <1>3

LEMMA EmptyRange == Range(<<>>) = {}
BY DEF Range

LEMMA SubSeqType ==
    ASSUME NEW S, NEW s \in Seq(S), NEW m \in 1..Len(s) + 1, NEW n \in 0..Len(s)
    PROVE  SubSeq(s, m, n) \in Seq(S) /\ Range(SubSeq(s, m, n)) \subseteq Range(s)
<1> DEFINE u == SubSeq(s, m, n)
<1>0. u \in Seq(S) /\ Len(u) = IF m <= n THEN n - m + 1 ELSE 0
  OBVIOUS
<1>1. \A i \in 1..Len(u) : m + i - 1 \in 1..Len(s) /\ u[i] = s[m + i - 1]
  <2>1. ASSUME NEW i \in 1..Len(u) PROVE u[i] = s[m + i - 1]
    BY <1>0
  <2> HIDE DEF u
  <2>2. ASSUME NEW i \in 1..Len(u) PROVE m + i - 1 \in 1..Len(s)
    BY <1>0
  <2> QED
    BY <2>1, <2>2
<1> HIDE DEF u
<1>2. \A i \in 1..Len(u) : u[i] \in Range(s)
  BY <1>1 DEF Range
<1>3. Range(u) = {u[i] : i \in 1..Len(u)}
  BY <1>0 DEF Range
<1>4. u \in Seq(S) /\ Range(u) \subseteq Range(s)
  BY <1>0, <1>2, <1>3
<1> QED
  BY <1>4 DEF u

(* Where RemoveFirst cuts.                                                 *)
LEMMA RemovedAt ==
    ASSUME NEW S, NEW s \in Seq(S), NEW e, \E i \in 1..Len(s) : s[i] = e
    PROVE  \E k \in 1..Len(s) :
             /\ s[k] = e
             /\ RemoveFirst(s, e) = SubSeq(s, 1, k - 1) \o SubSeq(s, k + 1, Len(s))
<1> DEFINE k == SelectInSeq(s, LAMBDA v : v = e)
           I == {i \in 1..Len(s) : s[i] = e}
<1>1. I # {} /\ I \in SUBSET Nat
  OBVIOUS
<1>2. \E x \in I : \A y \in I : x <= y
  BY <1>1, Smallest
<1>3. k = Min(I)
  BY <1>1 DEF SelectInSeq
<1>4. Min(I) \in I
  BY <1>2 DEF Min
<1>5. RemoveFirst(s, e) = SubSeq(s, 1, k - 1) \o SubSeq(s, k + 1, Len(s))
  BY DEF RemoveFirst, RemoveAt
<1>6. k \in 1..Len(s) /\ s[k] = e
  BY <1>3, <1>4
<1> HIDE DEF k, I
<1> QED
  BY <1>5, <1>6

(* Taking an element out of a sequence leaves a sequence of the others.    *)
LEMMA RemoveFirstType ==
    ASSUME NEW S, NEW s \in Seq(S), NEW e
    PROVE  RemoveFirst(s, e) \in Seq(S) /\ Range(RemoveFirst(s, e)) \subseteq Range(s)
<1>1. CASE ~\E i \in 1..Len(s) : s[i] = e
  BY <1>1 DEF RemoveFirst
<1>2. CASE \E i \in 1..Len(s) : s[i] = e
  <2>1. PICK k \in 1..Len(s) :
           RemoveFirst(s, e) = SubSeq(s, 1, k - 1) \o SubSeq(s, k + 1, Len(s))
    BY <1>2, RemovedAt
  <2>6. /\ 1 \in 1..Len(s) + 1 /\ k - 1 \in 0..Len(s)
        /\ k + 1 \in 1..Len(s) + 1 /\ Len(s) \in 0..Len(s)
    BY <2>1
  <2> DEFINE Whole(u) == u \in Seq(S) /\ Range(u) \subseteq Range(s)
  <2>3. \A m \in 1..Len(s) + 1, n \in 0..Len(s) : Whole(SubSeq(s, m, n))
    BY SubSeqType
  <2> HIDE DEF Whole
  <2>5. Whole(SubSeq(s, 1, k - 1)) /\ Whole(SubSeq(s, k + 1, Len(s)))
    BY <2>3, <2>6
  <2>4. \A a, b \in Seq(S) : a \o b \in Seq(S) /\ Range(a \o b) \subseteq Range(a) \cup Range(b)
    BY DEF Range
  <2>7. PICK a \in Seq(S), b \in Seq(S) :
           /\ RemoveFirst(s, e) = a \o b
           /\ Range(a) \subseteq Range(s) /\ Range(b) \subseteq Range(s)
    BY <2>1, <2>5 DEF Whole
  <2> QED
    BY <2>4, <2>7
<1> QED
  BY <1>1, <1>2

(* What is first stays first unless it is what is taken out.               *)
LEMMA RemoveFirstHead ==
    ASSUME NEW S, NEW s \in Seq(S), NEW e, s # <<>>, Head(s) # e
    PROVE  RemoveFirst(s, e) # <<>> /\ Head(RemoveFirst(s, e)) = Head(s)
<1>1. CASE ~\E i \in 1..Len(s) : s[i] = e
  BY <1>1 DEF RemoveFirst
<1>2. CASE \E i \in 1..Len(s) : s[i] = e
  <2>1. PICK k \in 1..Len(s) :
           /\ s[k] = e
           /\ RemoveFirst(s, e) = SubSeq(s, 1, k - 1) \o SubSeq(s, k + 1, Len(s))
    BY <1>2, RemovedAt
  <2>2. k - 1 \in 1..Len(s) /\ k + 1 \in 1..Len(s) + 1
    BY <2>1
  <2> DEFINE a == SubSeq(s, 1, k - 1)
             b == SubSeq(s, k + 1, Len(s))
  <2>3. a \in Seq(S) /\ Len(a) = k - 1 /\ a[1] = s[1]
    BY <2>2
  <2>4. b \in Seq(S)
    BY <2>2
  <2> HIDE DEF a, b
  <2>5. a \o b # <<>> /\ Head(a \o b) = a[1]
    BY <2>2, <2>3, <2>4
  <2>6. RemoveFirst(s, e) = a \o b /\ Head(s) = s[1]
    BY <2>1 DEF a, b
  <2> QED
    BY <2>3, <2>5, <2>6
<1> QED
  BY <1>1, <1>2

-----------------------------------------------------------------------------
(* Idempotency: the invariant                                              *)

Queues == waiters \in [Requests -> Seq(Requests)]

(* A lock is named by the request that made it, and used by requests that  *)
(* arrived; the one in the table is held.                                  *)
LocksMade ==
    /\ \A r \in Requests :
          /\ at[r] # "new" <=> lockOf[r] # None
          /\ lockOf[r] # None => at[lockOf[r]] # "new"
          /\ at[r] = "new" => waiters[r] = <<>> /\ ~locked[r]
          /\ \A q \in Range(waiters[r]) : at[q] # "new"
    /\ \A r \in woken : at[r] # "new"
    /\ table # None => at[table] # "new" /\ locked[table]

(* A lock is held by a request that is going to leave it.                  *)
HeldInside == \A l \in Requests :
    locked[l] => \E r \in Requests : at[r] \in Inside /\ lockOf[r] = l

(* Before the first response is stored or given up there is one lock, and  *)
(* one request that went past it.                                          *)
BeforeStored == ~unstored /\ cached = None =>
    /\ woken = {}
    /\ table = None => \A r \in Requests : at[r] = "new"
    /\ \A r \in Requests : at[r] = "waiting" => lockOf[r] = table
    /\ \A q, r \in Requests : at[q] \in Inside /\ at[r] \in Inside => q = r
    /\ \A q \in runs : at[q] \in Inside

(* After it no handler runs and none is started.                           *)
OnceStored == ~unstored /\ cached # None =>
    /\ \A q, r \in runs : q = r
    /\ \A r \in Requests : at[r] \notin {"handling", "storing"}

IInv == TypeOK /\ Queues /\ LocksMade /\ HeldInside /\ BeforeStored /\ OnceStored

LEMMA InitIInv == Init => IInv
<1> SUFFICES ASSUME Init PROVE IInv
  OBVIOUS
<1> USE IdempotencyAssumption DEF Init
<1>1. Queues /\ \A l \in Requests : waiters[l] = <<>>
  BY DEF Queues
<1>2. TypeOK
  BY <1>1, EmptyRange DEF TypeOK, Stages
<1>4. LocksMade /\ HeldInside
  <2>1. ASSUME NEW r \in Requests PROVE \A q \in Range(waiters[r]) : at[q] # "new"
    BY <1>1, EmptyRange
  <2>2. woken = {} /\ table = None /\ \A r \in Requests : at[r] = "new" /\ lockOf[r] = None /\ ~locked[r]
    OBVIOUS
  <2>3. HeldInside
    BY <2>2 DEF HeldInside
  <2> HIDE DEF Init
  <2> QED
    BY <1>1, <2>1, <2>2, <2>3 DEF LocksMade
<1>3. BeforeStored /\ OnceStored
  BY DEF BeforeStored, OnceStored, Inside
<1> QED
  BY <1>1, <1>2, <1>3, <1>4 DEF IInv

(* What leaving the lock keeps, whatever the answer is.                    *)
LEMMA LeaveKeeps ==
    ASSUME IInv, NEW r \in Requests, at[r] \in Inside, NEW a \in Answers, Leave(r, a)
    PROVE  /\ table' \in Requests \cup {None} /\ locked' \in [Requests -> BOOLEAN]
           /\ woken' \subseteq Requests /\ at' \in [Requests -> Stages]
           /\ answer' \in [Requests -> Answers \cup {None}]
           /\ at'[r] = "done" /\ \A q \in Requests : q # r => at'[q] = at[q]
           /\ LocksMade' /\ HeldInside'
<1> DEFINE l == lockOf[r]
           held == [locked EXCEPT ![l] = FALSE]
<1> USE IdempotencyAssumption DEF IInv
<1>1. /\ l \in Requests /\ at[l] # "new" /\ waiters[l] \in Seq(Requests)
      /\ at[r] # "new"
  BY DEF TypeOK, LocksMade, Queues, Inside
<1>2. /\ locked' = held
      /\ woken' = woken \cup WokenFirst(waiters[l])
      /\ table' = IF table # None /\ ~held[table] THEN None ELSE table
      /\ at' = [at EXCEPT ![r] = "done"] /\ answer' = [answer EXCEPT ![r] = a]
      /\ waiters' = waiters /\ lockOf' = lockOf
  BY <1>1 DEF Leave, KeepsLock, DropsLock, TypeOK
<1>3. /\ held \in [Requests -> BOOLEAN] /\ ~held[l]
      /\ \A k \in Requests : k # l => held[k] = locked[k]
  BY <1>1 DEF TypeOK
<1>4. WokenFirst(waiters[l]) \subseteq Range(waiters[l]) /\ Range(waiters[l]) \subseteq Requests
  BY <1>1 DEF WokenFirst, Range
<1> HIDE DEF held
<1>5. at'[r] = "done" /\ \A q \in Requests : q # r => at'[q] = at[q]
  BY <1>2 DEF TypeOK
<1>6. \A q \in Requests : at'[q] # "new" <=> at[q] # "new"
  BY <1>1, <1>5
<1>7. LocksMade'
  <2>1. \A q \in Requests :
          /\ at'[q] # "new" <=> lockOf'[q] # None
          /\ lockOf'[q] # None => at'[lockOf'[q]] # "new"
          /\ at'[q] = "new" => waiters'[q] = <<>> /\ ~locked'[q]
          /\ \A k \in Range(waiters'[q]) : at'[k] # "new"
    BY <1>1, <1>2, <1>3, <1>6 DEF LocksMade, TypeOK
  <2>2. \A q \in woken' : at'[q] # "new"
    BY <1>1, <1>2, <1>4, <1>6 DEF LocksMade, TypeOK
  <2>3. table' # None => at'[table'] # "new" /\ locked'[table']
    BY <1>1, <1>2, <1>6 DEF LocksMade, TypeOK
  <2> QED
    BY <2>1, <2>2, <2>3 DEF LocksMade
<1>8. HeldInside'
  BY <1>2, <1>3, <1>5 DEF HeldInside, Inside
<1>9. /\ table' \in Requests \cup {None} /\ woken' \subseteq Requests
      /\ at' \in [Requests -> Stages] /\ answer' \in [Requests -> Answers \cup {None}]
  BY <1>2, <1>4 DEF TypeOK, Stages
<1> QED
  BY <1>2, <1>3, <1>5, <1>7, <1>8, <1>9

LEMMA NextIInv == IInv /\ [Next]_vars => IInv'
<1> SUFFICES ASSUME IInv, [Next]_vars PROVE IInv'
  OBVIOUS
<1> USE IdempotencyAssumption DEF IInv, lockVars
<1>1. ASSUME NEW r \in Requests, Arrive(r) PROVE IInv'
  <2> DEFINE l == LockFor(r)
             free == ~locked[l] /\ waiters[l] = <<>>
  <2>1. /\ at[r] = "new" /\ table' = l
        /\ lockOf' = [lockOf EXCEPT ![r] = l]
        /\ locked' = [locked EXCEPT ![l] = @ \/ free]
        /\ waiters' = [waiters EXCEPT ![l] = IF free THEN @ ELSE Append(@, r)]
        /\ at' = [at EXCEPT ![r] = IF free THEN "looking" ELSE "waiting"]
        /\ UNCHANGED <<woken, cached, runs, answer, unstored>>
    BY <1>1 DEF Arrive
  <2>2. l \in Requests /\ (table = None => l = r) /\ (table # None => l = table)
    BY DEF LockFor, TypeOK
  <2>3. (table = None => free) /\ (table # None => ~free)
    BY <2>1, <2>2 DEF LocksMade
  <2> HIDE DEF l, free
  <2>4. /\ at'[r] = IF table = None THEN "looking" ELSE "waiting"
        /\ \A q \in Requests : q # r => at'[q] = at[q]
        /\ lockOf'[r] = l /\ \A q \in Requests : q # r => lockOf'[q] = lockOf[q]
        /\ locked'[l] /\ \A q \in Requests : q # l => locked'[q] = locked[q]
        /\ \A q \in Requests : q # l => waiters'[q] = waiters[q]
        /\ waiters'[l] = waiters[l] \/ waiters'[l] = Append(waiters[l], r)
    BY <2>1, <2>2, <2>3 DEF TypeOK, Queues, LocksMade
  <2>5. \A s \in Seq(Requests) : /\ Append(s, r) \in Seq(Requests)
                                 /\ Range(Append(s, r)) \subseteq Range(s) \cup {r}
    BY DEF Range
  <2>6. TypeOK' /\ Queues'
    <3>1. Queues'
      BY <2>1, <2>2, <2>5 DEF Queues
    <3>2. /\ table' \in Requests \cup {None} /\ at' \in [Requests -> Stages]
          /\ lockOf' \in [Requests -> Requests \cup {None}]
      BY <2>1, <2>2 DEF TypeOK, Stages
    <3>3. locked' \in [Requests -> BOOLEAN]
      BY <2>1, <2>2 DEF TypeOK, free
    <3>4. \A q \in Requests : Range(waiters'[q]) \subseteq Requests
      BY <3>1 DEF Queues, Range
    <3>5. /\ woken' = woken /\ cached' = cached /\ runs' = runs
          /\ answer' = answer /\ unstored' = unstored
      BY <2>1
    <3> QED
      BY <3>1, <3>2, <3>3, <3>4, <3>5 DEF TypeOK
  <2>7. LocksMade'
    <3>1. at'[r] # "new" /\ at'[l] # "new" /\ at'[table'] # "new" /\ locked'[table']
      BY <2>1, <2>2, <2>4 DEF LocksMade
    <3>2. \A q \in Requests : at[q] # "new" => at'[q] # "new"
      BY <2>1, <2>4
    <3>3. ASSUME NEW q \in Requests
          PROVE  /\ at'[q] # "new" <=> lockOf'[q] # None
                 /\ lockOf'[q] # None => at'[lockOf'[q]] # "new"
                 /\ at'[q] = "new" => waiters'[q] = <<>> /\ ~locked'[q]
      BY <2>2, <2>4, <3>1, <3>2 DEF LocksMade, TypeOK
    <3>4. ASSUME NEW q \in Requests
          PROVE  \A k \in Range(waiters'[q]) : at'[k] # "new"
      <4>1. Range(waiters'[q]) \subseteq Range(waiters[q]) \cup {r}
        BY <2>4, <2>5 DEF Queues
      <4> QED
        BY <3>1, <3>2, <4>1 DEF LocksMade, TypeOK
    <3> QED
      BY <2>1, <3>1, <3>2, <3>3, <3>4 DEF LocksMade, TypeOK
  <2>8. HeldInside'
    <3> SUFFICES ASSUME NEW k \in Requests, locked'[k]
                 PROVE  \E q \in Requests : at'[q] \in Inside /\ lockOf'[q] = k
      BY DEF HeldInside
    <3>1. CASE table = None /\ k = l
      BY <2>4, <3>1 DEF Inside
    <3>2. CASE ~(table = None /\ k = l)
      <4>1. locked[k]
        BY <2>2, <2>4, <3>2 DEF LocksMade
      <4>2. PICK q \in Requests : at[q] \in Inside /\ lockOf[q] = k
        BY <4>1 DEF HeldInside
      <4> QED
        BY <2>1, <2>4, <4>2 DEF Inside
    <3> QED
      BY <3>1, <3>2
  <2>9. BeforeStored'
    BY <2>1, <2>2, <2>4 DEF BeforeStored, Inside, TypeOK
  <2>10. OnceStored'
    BY <2>1, <2>4 DEF OnceStored
  <2> QED
    BY <2>6, <2>7, <2>8, <2>9, <2>10
<1>2. ASSUME NEW r \in Requests, Wake(r) PROVE IInv'
  <2> DEFINE l == lockOf[r]
  <2>1. /\ r \in woken /\ woken' = woken \ {r}
        /\ waiters' = [waiters EXCEPT ![l] = RemoveFirst(@, r)]
        /\ locked' = [locked EXCEPT ![l] = TRUE] /\ at' = [at EXCEPT ![r] = "looking"]
        /\ UNCHANGED <<table, lockOf, cached, runs, answer, unstored>>
    BY <1>2 DEF Wake
  <2>2. l \in Requests /\ at[r] # "new" /\ at[l] # "new"
    BY <2>1 DEF LocksMade, TypeOK
  <2> HIDE DEF l
  <2>3. /\ at'[r] = "looking" /\ \A q \in Requests : q # r => at'[q] = at[q]
        /\ locked'[l] /\ \A q \in Requests : q # l => locked'[q] = locked[q]
        /\ \A q \in Requests : /\ waiters'[q] \in Seq(Requests)
                               /\ Range(waiters'[q]) \subseteq Range(waiters[q])
                               /\ q # l => waiters'[q] = waiters[q]
    BY <2>1, <2>2, RemoveFirstType DEF TypeOK, Queues
  <2>4. TypeOK' /\ Queues'
    <3>1. Queues'
      BY <2>1, <2>3 DEF Queues
    <3>2. locked' \in [Requests -> BOOLEAN] /\ at' \in [Requests -> Stages]
      BY <2>1 DEF TypeOK, Stages
    <3>3. \A q \in Requests : Range(waiters'[q]) \subseteq Requests
      BY <2>3 DEF TypeOK
    <3> QED
      BY <2>1, <3>1, <3>2, <3>3 DEF TypeOK
  <2>5. LocksMade'
    <3>1. \A q \in Requests : at'[q] # "new" <=> at[q] # "new"
      BY <2>2, <2>3
    <3>2. \A q \in woken' : at'[q] # "new"
      BY <2>1, <3>1 DEF LocksMade, TypeOK
    <3>3. ASSUME NEW q \in Requests, NEW k \in Range(waiters'[q]) PROVE at'[k] # "new"
      <4>1. k \in Range(waiters[q]) /\ k \in Requests /\ at[k] # "new"
        <5>1. k \in Range(waiters[q])
          BY <2>3
        <5> QED
          BY <5>1 DEF LocksMade, TypeOK
      <4> QED
        BY <3>1, <4>1
    <3>4. \A q \in Requests : at'[q] = "new" => q # l
      BY <2>2, <3>1
    <3>5. table' # None => at'[table'] # "new" /\ locked'[table']
      BY <2>1, <2>3, <3>1 DEF LocksMade, TypeOK
    <3> QED
      BY <2>1, <2>3, <3>1, <3>2, <3>3, <3>4, <3>5 DEF LocksMade, TypeOK
  <2>6. HeldInside'
    <3> SUFFICES ASSUME NEW k \in Requests, locked'[k]
                 PROVE  \E q \in Requests : at'[q] \in Inside /\ lockOf'[q] = k
      BY DEF HeldInside
    <3> QED
      BY <2>1, <2>2, <2>3 DEF HeldInside, Inside, l
  <2>7. BeforeStored' /\ OnceStored'
    BY <2>1, <2>3 DEF BeforeStored, OnceStored
  <2> QED
    BY <2>4, <2>5, <2>6, <2>7
<1>3. ASSUME NEW r \in Requests, Hit(r) PROVE IInv'
  <2> DEFINE a == IF Replays(r) THEN "replayed" ELSE "key_reused"
  <2>1. /\ at[r] \in Inside /\ cached # None /\ Leave(r, a) /\ a \in Answers
        /\ UNCHANGED <<cached, runs, unstored>>
    BY <1>3 DEF Hit, Inside, Answers
  <2> HIDE DEF a
  <2>2. waiters' = waiters /\ lockOf' = lockOf
    BY <2>1 DEF Leave
  <2> QED
    BY <2>1, <2>2, LeaveKeeps DEF TypeOK, Queues, BeforeStored, OnceStored
<1>4. ASSUME NEW r \in Requests, Miss(r) \/ HandlerStorable(r) PROVE IInv'
  <2>1. /\ at[r] \in Inside /\ at'[r] \in Inside
        /\ at' \in [Requests -> Stages] /\ runs' \in {runs, runs \cup {r}}
        /\ at[r] \in {"handling", "storing"} \/ cached = None
        /\ \A q \in Requests : q # r => at'[q] = at[q]
        /\ UNCHANGED <<lockVars, lockOf, cached, answer, unstored>>
    BY <1>4 DEF Miss, HandlerStorable, Inside, TypeOK, Stages
  <2>2. TypeOK' /\ Queues'
    BY <2>1 DEF TypeOK, Queues
  <2>3. LocksMade'
    BY <2>1 DEF LocksMade, TypeOK, Inside
  <2>4. HeldInside'
    BY <2>1 DEF HeldInside
  <2>5. BeforeStored' /\ OnceStored'
    BY <2>1 DEF BeforeStored, OnceStored, Inside, TypeOK
  <2> QED
    BY <2>2, <2>3, <2>4, <2>5
<1>5. ASSUME NEW r \in Requests, HandlerUnstored(r) \/ FailInside(r) PROVE IInv'
  <2>1. PICK a \in Answers : Leave(r, a)
    BY <1>5 DEF HandlerUnstored, FailInside, Answers
  <2>2. at[r] \in Inside /\ unstored' = TRUE /\ UNCHANGED <<cached, runs>>
    BY <1>5 DEF HandlerUnstored, FailInside, Inside
  <2>3. waiters' = waiters /\ lockOf' = lockOf
    BY <2>1 DEF Leave
  <2> QED
    BY <2>1, <2>2, <2>3, LeaveKeeps DEF TypeOK, Queues, BeforeStored, OnceStored
<1>6. ASSUME NEW r \in Requests, Store(r) PROVE IInv'
  <2>1. /\ at[r] = "storing" /\ at[r] \in Inside /\ Leave(r, "own") /\ "own" \in Answers
        /\ cached' = BodyOf[r] /\ BodyOf[r] \in Bodies /\ BodyOf[r] # None
        /\ UNCHANGED <<runs, unstored>>
    BY <1>6 DEF Store, StoredFingerprint, Inside, Answers
  <2>2. waiters' = waiters /\ lockOf' = lockOf
    BY <2>1 DEF Leave
  <2>3. OnceStored' /\ BeforeStored'
    BY <2>1, LeaveKeeps DEF BeforeStored, OnceStored, Inside, TypeOK
  <2> QED
    BY <2>1, <2>2, <2>3, LeaveKeeps DEF TypeOK, Queues
<1>7. ASSUME NEW r \in Requests, CancelWaiting(r) PROVE IInv'
  <2> DEFINE l == lockOf[r]
             rest == RemoveFirst(waiters[l], r)
  <2>1. /\ at[r] = "waiting" /\ waiters' = [waiters EXCEPT ![l] = rest]
        /\ woken' = (woken \ {r}) \cup (IF locked[l] THEN {} ELSE WokenFirst(rest))
        /\ table' = IF table # None /\ ~locked[table] THEN None ELSE table
        /\ at' = [at EXCEPT ![r] = "done"] /\ answer' = [answer EXCEPT ![r] = "failed"]
        /\ UNCHANGED <<locked, lockOf, cached, runs, unstored>>
    BY <1>7 DEF CancelWaiting, DropsLock
  <2>2. /\ l \in Requests /\ at[l] # "new" /\ table' = table
        /\ rest \in Seq(Requests) /\ Range(rest) \subseteq Range(waiters[l])
    BY <2>1, RemoveFirstType DEF LocksMade, TypeOK, Queues
  <2>3. WokenFirst(rest) \subseteq Range(rest) /\ Range(rest) \subseteq Requests
    BY <2>2 DEF WokenFirst, Range
  <2> HIDE DEF rest
  <2>4. /\ at'[r] = "done" /\ \A q \in Requests : q # r => at'[q] = at[q]
        /\ \A q \in Requests : /\ waiters'[q] \in Seq(Requests)
                               /\ Range(waiters'[q]) \subseteq Range(waiters[q])
                               /\ q # l => waiters'[q] = waiters[q]
    BY <2>1, <2>2 DEF TypeOK, Queues
  <2>5. TypeOK' /\ Queues'
    <3>1. Queues'
      BY <2>1, <2>4 DEF Queues
    <3>2. /\ answer' \in [Requests -> Answers \cup {None}]
          /\ at' \in [Requests -> Stages]
      BY <2>1 DEF TypeOK, Answers, Stages
    <3>3. \A q \in Requests : Range(waiters'[q]) \subseteq Requests
      BY <2>4 DEF TypeOK
    <3>4. woken' \subseteq Requests /\ table' = table
      BY <2>1, <2>2, <2>3 DEF TypeOK
    <3> QED
      BY <2>1, <3>1, <3>2, <3>3, <3>4 DEF TypeOK
  <2>6. LocksMade'
    <3>1. \A q \in Requests : at'[q] # "new" <=> at[q] # "new"
      BY <2>1, <2>4
    <3>2. \A q \in woken' : at'[q] # "new"
      BY <2>1, <2>2, <2>3, <3>1 DEF LocksMade, TypeOK
    <3> QED
      BY <2>1, <2>2, <2>4, <3>1, <3>2 DEF LocksMade, TypeOK
  <2>7. HeldInside'
    BY <2>1, <2>4 DEF HeldInside, Inside
  <2>8. BeforeStored' /\ OnceStored'
    BY <2>1, <2>2, <2>4 DEF BeforeStored, OnceStored, Inside, LocksMade, TypeOK
  <2> QED
    BY <2>5, <2>6, <2>7, <2>8
<1>8. ASSUME Expire PROVE IInv'
  BY <1>8 DEF Expire, TypeOK, Queues, LocksMade, HeldInside, BeforeStored, OnceStored
<1>9. CASE UNCHANGED vars
  BY <1>9 DEF vars, TypeOK, Queues, LocksMade, HeldInside, BeforeStored, OnceStored
<1> QED
  BY <1>1, <1>2, <1>3, <1>4, <1>5, <1>6, <1>7, <1>8, <1>9 DEF Next, RequestStep

(* The invariant of every execution.                                       *)
THEOREM Invariance == Spec => []IInv
<1> QED
  BY InitIInv, NextIInv, PTL DEF Spec

(* Every variable keeps its domain.                                        *)
THEOREM IdempotencyTyped == Spec => []TypeOK
<1>1. IInv => TypeOK
  BY DEF IInv
<1> QED
  BY <1>1, Invariance, PTL

(* No entry of _locks outlives the requests with its key: the lock in the  *)
(* table is held, by a request that deletes it or leaves it to another one *)
(* when it goes.                                                           *)
THEOREM NoEntryLeaks == Spec => []NoLockLeak
<1>1. IInv => NoLockLeak
  BY DEF IInv, LocksMade, HeldInside, NoLockLeak, Inside, TypeOK
<1> QED
  BY <1>1, Invariance, PTL

(* As long as every handler's response is stored and kept, requests with   *)
(* one key start the handler once, however many come and are cancelled.    *)
THEOREM OneHandlerRun == Spec => []HandlerRunsOnce
<1>1. IInv => HandlerRunsOnce
  <2> SUFFICES ASSUME IInv, ~unstored PROVE Cardinality(runs) <= 1
    BY DEF HandlerRunsOnce
  <2>1. \A q, r \in runs : q = r
    BY DEF IInv, TypeOK, BeforeStored, OnceStored
  <2>2. runs = {} \/ \E r : runs = {r}
    BY <2>1
  <2> QED
    BY <2>2, FS_EmptySet, FS_Singleton
<1> QED
  BY <1>1, Invariance, PTL

(* One lock admits one request at a time, though a released lock stays     *)
(* unlocked until the waiter it woke runs, and any of them may be          *)
(* cancelled (asyncio.Lock under `async with` in dispatch).                *)
OnePerLock == \A q, r \in Requests :
    at[q] \in Inside /\ at[r] \in Inside /\ lockOf[q] = lockOf[r] => q = r

QueuedHere == \A l \in Requests : \A q \in Range(waiters[l]) : lockOf[q] = l

InsideHolds == \A r \in Requests : at[r] \in Inside => locked[lockOf[r]]

(* Whoever is woken is first in the queue of a lock that is free, so no    *)
(* arrival takes it first, and no second waiter is woken.                  *)
WokenIsFirst == \A r \in woken : /\ ~locked[lockOf[r]] /\ waiters[lockOf[r]] # <<>>
                                 /\ Head(waiters[lockOf[r]]) = r

Mutex == OnePerLock /\ QueuedHere /\ InsideHolds /\ WokenIsFirst

LEMMA LeaveMutex ==
    ASSUME IInv, Mutex, NEW r \in Requests, at[r] \in Inside, NEW a, Leave(r, a)
    PROVE  Mutex'
<1> DEFINE l == lockOf[r]
<1> USE DEF IInv, Mutex
<1>1. /\ l \in Requests /\ waiters[l] \in Seq(Requests) /\ locked[l]
      /\ \A q \in woken : lockOf[q] # l
  BY DEF TypeOK, LocksMade, Queues, Inside, InsideHolds, WokenIsFirst
<1>2. /\ ~locked'[l] /\ \A k \in Requests : k # l => locked'[k] = locked[k]
      /\ woken' = woken \cup WokenFirst(waiters[l])
      /\ at'[r] = "done" /\ \A q \in Requests : q # r => at'[q] = at[q]
      /\ waiters' = waiters /\ lockOf' = lockOf
  BY <1>1 DEF Leave, KeepsLock, TypeOK
<1>3. \A q \in Requests : at[q] # "new" => lockOf[q] \in Requests
  BY DEF TypeOK, LocksMade
<1> HIDE DEF l
<1>4. OnePerLock' /\ QueuedHere'
  BY <1>2 DEF OnePerLock, QueuedHere, Inside
<1>5. InsideHolds'
  <2> SUFFICES ASSUME NEW q \in Requests, at'[q] \in Inside
               PROVE  locked'[lockOf[q]]
    BY <1>2 DEF InsideHolds
  <2>1. q # r /\ at[q] \in Inside /\ at[q] # "new"
    BY <1>2 DEF Inside
  <2>2. lockOf[q] # l /\ lockOf[q] \in Requests /\ locked[lockOf[q]]
    BY <1>3, <2>1 DEF OnePerLock, InsideHolds, l
  <2> QED
    BY <1>2, <2>2
<1>6. WokenIsFirst'
  <2>1. ASSUME NEW q \in woken
        PROVE  /\ ~locked'[lockOf[q]] /\ waiters[lockOf[q]] # <<>>
               /\ Head(waiters[lockOf[q]]) = q
    <3>1. lockOf[q] \in Requests /\ lockOf[q] # l
      BY <1>1, <1>3 DEF TypeOK, LocksMade
    <3> QED
      BY <1>2, <3>1 DEF WokenIsFirst
  <2>2. ASSUME NEW q \in WokenFirst(waiters[l])
        PROVE  /\ ~locked'[lockOf[q]] /\ waiters[lockOf[q]] # <<>>
               /\ Head(waiters[lockOf[q]]) = q
    <3>1. waiters[l] # <<>> /\ q = Head(waiters[l])
      BY <2>2 DEF WokenFirst
    <3>2. q \in Range(waiters[l])
      BY <1>1, <3>1 DEF Range
    <3>3. lockOf[q] = l
      BY <1>1, <3>2 DEF QueuedHere
    <3> QED
      BY <1>2, <3>1, <3>3
  <2> QED
    BY <1>2, <2>1, <2>2 DEF WokenIsFirst
<1> QED
  BY <1>4, <1>5, <1>6

LEMMA NextMutex == IInv /\ Mutex /\ [Next]_vars => Mutex'
<1> SUFFICES ASSUME IInv, Mutex, [Next]_vars PROVE Mutex'
  OBVIOUS
<1> USE IdempotencyAssumption DEF IInv, Mutex, lockVars
<1>0. \A q \in Requests : at[q] # "new" => lockOf[q] \in Requests
  BY DEF TypeOK, LocksMade
<1>1. ASSUME NEW r \in Requests, Arrive(r) PROVE Mutex'
  <2> DEFINE l == LockFor(r)
             free == ~locked[l] /\ waiters[l] = <<>>
  <2>1. /\ at[r] = "new" /\ l \in Requests /\ waiters[l] \in Seq(Requests)
        /\ woken' = woken /\ r \notin woken
    BY <1>1 DEF Arrive, LockFor, TypeOK, LocksMade, Queues
  <2>2. /\ at'[r] = IF free THEN "looking" ELSE "waiting"
        /\ \A q \in Requests : q # r => at'[q] = at[q]
        /\ lockOf'[r] = l /\ \A q \in Requests : q # r => lockOf'[q] = lockOf[q]
        /\ locked'[l] = (locked[l] \/ free)
        /\ \A q \in Requests : q # l => locked'[q] = locked[q]
        /\ waiters'[l] = IF free THEN waiters[l] ELSE Append(waiters[l], r)
        /\ \A q \in Requests : q # l => waiters'[q] = waiters[q]
    BY <1>1, <2>1 DEF Arrive, TypeOK, Queues
  <2> HIDE DEF l
  <2>3. /\ Range(Append(waiters[l], r)) \subseteq Range(waiters[l]) \cup {r}
        /\ Append(waiters[l], r) # <<>>
        /\ waiters[l] # <<>> => Head(Append(waiters[l], r)) = Head(waiters[l])
    BY <2>1 DEF Range
  <2>4. \A q \in Requests : at[q] \in Inside => q # r /\ lockOf[q] \in Requests
    BY <1>0, <2>1 DEF Inside
  <2>5. OnePerLock'
    <3>1. free => \A q \in Requests : at[q] \in Inside => lockOf[q] # l
      BY DEF InsideHolds
    <3> HIDE DEF free
    <3> QED
      BY <2>2, <2>4, <3>1 DEF OnePerLock, Inside
  <2>6. QueuedHere'
    <3> SUFFICES ASSUME NEW k \in Requests, NEW q \in Range(waiters'[k])
                 PROVE  lockOf'[q] = k
      BY DEF QueuedHere
    <3>1. \/ q \in Range(waiters[k]) /\ q \in Requests /\ q # r
          \/ k = l /\ q = r
      <4>1. q \in Range(waiters[k]) \/ (k = l /\ q = r)
        BY <2>2, <2>3
      <4>2. r \notin Range(waiters[k])
        BY <2>1 DEF LocksMade
      <4>3. Range(waiters[k]) \subseteq Requests
        BY DEF TypeOK
      <4> QED
        BY <4>1, <4>2, <4>3
    <3> QED
      BY <2>2, <3>1 DEF QueuedHere
  <2>7. InsideHolds'
    <3> SUFFICES ASSUME NEW q \in Requests, at'[q] \in Inside
                 PROVE  locked'[lockOf'[q]]
      BY DEF InsideHolds
    <3>1. CASE q = r
      <4>1. free
        BY <2>2, <3>1 DEF Inside
      <4> HIDE DEF free
      <4> QED
        BY <2>2, <3>1, <4>1
    <3>2. CASE q # r
      <4>1. at[q] \in Inside /\ lockOf'[q] = lockOf[q]
        BY <2>2, <3>2
      <4>2. locked[lockOf[q]] /\ lockOf[q] \in Requests
        BY <2>4, <4>1 DEF InsideHolds
      <4> HIDE DEF free
      <4> QED
        BY <2>2, <4>1, <4>2
    <3> QED
      BY <3>1, <3>2
  <2>8. WokenIsFirst'
    <3> SUFFICES ASSUME NEW q \in woken
                 PROVE  /\ ~locked'[lockOf'[q]] /\ waiters'[lockOf'[q]] # <<>>
                        /\ Head(waiters'[lockOf'[q]]) = q
      BY <2>1 DEF WokenIsFirst
    <3>1. q \in Requests /\ q # r /\ lockOf'[q] = lockOf[q] /\ lockOf[q] \in Requests
      BY <1>0, <2>1, <2>2 DEF TypeOK, LocksMade
    <3>2. /\ ~locked[lockOf[q]] /\ waiters[lockOf[q]] # <<>>
          /\ Head(waiters[lockOf[q]]) = q
      BY DEF WokenIsFirst
    <3>3. CASE lockOf[q] = l
      <4>1. ~free /\ ~locked[l]
        BY <3>2, <3>3
      <4> HIDE DEF free
      <4>2. ~locked'[l] /\ waiters'[l] = Append(waiters[l], r)
        BY <2>2, <4>1
      <4> QED
        BY <2>3, <3>1, <3>2, <3>3, <4>2
    <3>4. CASE lockOf[q] # l
      BY <2>2, <3>1, <3>2, <3>4
    <3> QED
      BY <3>3, <3>4
  <2> QED
    BY <2>5, <2>6, <2>7, <2>8
<1>2. ASSUME NEW r \in Requests, Wake(r) PROVE Mutex'
  <2> DEFINE l == lockOf[r]
  <2>1. /\ l \in Requests /\ r \in woken /\ woken' = woken \ {r} /\ lockOf' = lockOf
        /\ at'[r] = "looking" /\ \A q \in Requests : q # r => at'[q] = at[q]
        /\ locked'[l] /\ \A k \in Requests : k # l => locked'[k] = locked[k]
        /\ waiters[l] \in Seq(Requests) /\ waiters'[l] = RemoveFirst(waiters[l], r)
        /\ \A k \in Requests : k # l => waiters'[k] = waiters[k]
    BY <1>0, <1>2 DEF Wake, TypeOK, LocksMade, Queues
  <2>2. /\ ~locked[l] /\ \A q \in woken : lockOf[q] = l => q = r
    BY <2>1 DEF WokenIsFirst
  <2> HIDE DEF l
  <2>3. \A q \in Requests : at[q] \in Inside => lockOf[q] # l /\ lockOf[q] \in Requests
    BY <1>0, <2>2 DEF InsideHolds, Inside
  <2>4. Range(waiters'[l]) \subseteq Range(waiters[l])
    BY <2>1, RemoveFirstType
  <2>5. OnePerLock' /\ InsideHolds'
    BY <2>1, <2>3 DEF OnePerLock, InsideHolds, Inside, l
  <2>6. QueuedHere'
    BY <2>1, <2>4 DEF QueuedHere
  <2>7. WokenIsFirst'
    <3> SUFFICES ASSUME NEW q \in woken, q # r
                 PROVE  /\ ~locked'[lockOf[q]] /\ waiters'[lockOf[q]] # <<>>
                        /\ Head(waiters'[lockOf[q]]) = q
      BY <2>1 DEF WokenIsFirst
    <3>1. lockOf[q] # l /\ lockOf[q] \in Requests
      BY <1>0, <2>2 DEF TypeOK, LocksMade
    <3> QED
      BY <2>1, <3>1 DEF WokenIsFirst
  <2> QED
    BY <2>5, <2>6, <2>7
<1>3. ASSUME NEW r \in Requests,
             Hit(r) \/ HandlerUnstored(r) \/ FailInside(r) \/ Store(r)
      PROVE  Mutex'
  <2>1. at[r] \in Inside /\ \E a : Leave(r, a)
    BY <1>3 DEF Hit, HandlerUnstored, FailInside, Store, Inside
  <2> QED
    BY <2>1, LeaveMutex
<1>4. ASSUME NEW r \in Requests, Miss(r) \/ HandlerStorable(r) PROVE Mutex'
  <2>1. /\ at[r] \in Inside /\ at'[r] \in Inside
        /\ \A q \in Requests : q # r => at'[q] = at[q]
        /\ UNCHANGED <<lockVars, lockOf>>
    BY <1>4 DEF Miss, HandlerStorable, Inside, TypeOK
  <2> QED
    BY <2>1 DEF OnePerLock, QueuedHere, InsideHolds, WokenIsFirst
<1>5. ASSUME NEW r \in Requests, CancelWaiting(r) PROVE Mutex'
  <2> DEFINE l == lockOf[r]
             rest == RemoveFirst(waiters[l], r)
  <2>1. /\ l \in Requests /\ waiters[l] \in Seq(Requests)
        /\ waiters'[l] = rest /\ \A k \in Requests : k # l => waiters'[k] = waiters[k]
        /\ woken' = (woken \ {r}) \cup (IF locked[l] THEN {} ELSE WokenFirst(rest))
        /\ at'[r] = "done" /\ \A q \in Requests : q # r => at'[q] = at[q]
        /\ locked' = locked /\ lockOf' = lockOf
    BY <1>0, <1>5 DEF CancelWaiting, TypeOK, Queues
  <2>2. /\ rest \in Seq(Requests) /\ Range(rest) \subseteq Range(waiters[l])
        /\ \A q : waiters[l] # <<>> /\ Head(waiters[l]) = q /\ q # r
                     => rest # <<>> /\ Head(rest) = q
    BY <2>1, RemoveFirstType, RemoveFirstHead
  <2> HIDE DEF l, rest
  <2>3. OnePerLock' /\ InsideHolds'
    BY <2>1 DEF OnePerLock, InsideHolds, Inside
  <2>4. QueuedHere'
    BY <2>1, <2>2 DEF QueuedHere
  <2>5. ASSUME NEW q \in woken, q # r
        PROVE  /\ ~locked[lockOf[q]] /\ waiters'[lockOf[q]] # <<>>
               /\ Head(waiters'[lockOf[q]]) = q
    <3>1. /\ ~locked[lockOf[q]] /\ waiters[lockOf[q]] # <<>>
          /\ Head(waiters[lockOf[q]]) = q /\ lockOf[q] \in Requests
      BY <1>0 DEF WokenIsFirst, TypeOK, LocksMade
    <3>2. CASE lockOf[q] = l
      BY <2>1, <2>2, <2>5, <3>1, <3>2
    <3>3. CASE lockOf[q] # l
      BY <2>1, <3>1, <3>3
    <3> QED
      BY <3>2, <3>3
  <2>6. ASSUME ~locked[l], NEW q \in WokenFirst(rest)
        PROVE  /\ ~locked[lockOf[q]] /\ waiters'[lockOf[q]] # <<>>
               /\ Head(waiters'[lockOf[q]]) = q
    <3>1. rest # <<>> /\ q = Head(rest)
      BY <2>6 DEF WokenFirst
    <3>2. q \in Range(rest)
      BY <2>2, <3>1 DEF Range
    <3>3. lockOf[q] = l
      BY <2>1, <2>2, <3>2 DEF QueuedHere
    <3> QED
      BY <2>1, <2>6, <3>1, <3>3
  <2>7. WokenIsFirst'
    BY <2>1, <2>5, <2>6 DEF WokenIsFirst
  <2> QED
    BY <2>3, <2>4, <2>7
<1>6. CASE Expire \/ UNCHANGED vars
  BY <1>6 DEF Expire, vars, OnePerLock, QueuedHere, InsideHolds, WokenIsFirst
<1> QED
  BY <1>1, <1>2, <1>3, <1>4, <1>5, <1>6 DEF Next, RequestStep

(* Two requests are never past the same lock, however many wait, fail and  *)
(* are cancelled, stored or not: what goes wrong when a response is not    *)
(* stored is a second lock for the key.                                    *)
THEOREM MutualExclusion == Spec => []OnePerLock
<1>1. Init => Mutex
  BY EmptyRange DEF Init, Mutex, OnePerLock, QueuedHere, InsideHolds, WokenIsFirst, Inside
<1>2. Mutex => OnePerLock
  BY DEF Mutex
<1> QED
  BY <1>1, <1>2, NextMutex, Invariance, PTL DEF Spec

-----------------------------------------------------------------------------
(* The lease                                                               *)

(* The key exists exactly while it has time left.                          *)
KeyHasTime == owner = NoOwner <=> ttl = 0

(* What is left of the key's TTL is what its leader counts on.             *)
LeaderInTime == \A r \in Replicas :
    supervisor[r] = "leader" /\ SinceRenewed(r) < TTL =>
        owner = r /\ ttl = TTL - SinceRenewed(r)

LeaseInv == LeaseTypeOK /\ KeyHasTime /\ LeaderInTime

LEMMA PollInTTL == Poll \in Nat /\ Poll <= TTL
  BY LeaseAssumption DEF Poll

LEMMA InitLeaseInv == LeaseInit => LeaseInv
<1> SUFFICES ASSUME LeaseInit PROVE LeaseInv
  OBVIOUS
<1>1. LeaseTypeOK
  BY LeaseAssumption, PollInTTL DEF LeaseInit, LeaseTypeOK, SupervisorStages
<1>2. KeyHasTime /\ LeaderInTime
  BY DEF LeaseInit, KeyHasTime, LeaderInTime, SinceRenewed
<1> QED
  BY <1>1, <1>2 DEF LeaseInv

LEMMA NextLeaseInv == LeaseInv /\ [LeaseNext]_leaseVars => LeaseInv'
<1> SUFFICES ASSUME LeaseInv, [LeaseNext]_leaseVars PROVE LeaseInv'
  OBVIOUS
<1> USE LeaseAssumption, PollInTTL DEF LeaseInv, SupervisorStages, SinceRenewed
<1>1. ASSUME NEW r \in Replicas, AcquireWins(r) PROVE LeaseInv'
  <2> USE <1>1 DEF AcquireWins, Goes, Soon
  <2>1. LeaseTypeOK' /\ KeyHasTime'
    BY DEF LeaseTypeOK, KeyHasTime
  <2>2. LeaderInTime'
    BY DEF LeaseTypeOK, LeaderInTime
  <2> QED
    BY <2>1, <2>2
<1>2. ASSUME NEW r \in Replicas, AcquireLoses(r) \/ StopLoop(r) \/ Start(r)
      PROVE  LeaseInv'
  <2> USE <1>2 DEF AcquireLoses, StopLoop, StoodDown, Start, Goes, Soon, lease
  <2>1. LeaseTypeOK' /\ KeyHasTime'
    BY DEF LeaseTypeOK, KeyHasTime
  <2>2. LeaderInTime'
    BY DEF LeaseTypeOK, LeaderInTime
  <2> QED
    BY <2>1, <2>2
<1>3. ASSUME NEW r \in Replicas, AcquireRaises(r) \/ RenewLost(r) PROVE LeaseInv'
  <2> USE <1>3 DEF AcquireRaises, RenewLost, Goes, lease
  <2>1. LeaseTypeOK' /\ KeyHasTime'
    BY DEF LeaseTypeOK, KeyHasTime
  <2>2. LeaderInTime'
    BY DEF LeaseTypeOK, LeaderInTime
  <2> QED
    BY <2>1, <2>2
<1>4. ASSUME NEW r \in Replicas, RenewExtends(r) PROVE LeaseInv'
  <2> USE <1>4 DEF RenewExtends, Renewed, Soon
  <2>1. LeaseTypeOK' /\ KeyHasTime'
    BY DEF LeaseTypeOK, KeyHasTime
  <2>2. LeaderInTime'
    BY DEF LeaseTypeOK, LeaderInTime
  <2> QED
    BY <2>1, <2>2
<1>5. ASSUME NEW r \in Replicas, RenewRaises(r) PROVE LeaseInv'
  <2> USE <1>5 DEF RenewRaises, Goes, lease
  <2>1. LeaseTypeOK' /\ KeyHasTime'
    BY DEF LeaseTypeOK, KeyHasTime
  <2>2. LeaderInTime'
    BY DEF LeaseTypeOK, LeaderInTime
  <2> QED
    BY <2>1, <2>2
<1>6. ASSUME NEW r \in Replicas, Stop(r) PROVE LeaseInv'
  <2> USE <1>6 DEF Stop, Goes, lease
  <2>1. LeaseTypeOK' /\ KeyHasTime'
    BY DEF LeaseTypeOK, KeyHasTime
  <2>2. LeaderInTime'
    BY DEF LeaseTypeOK, LeaderInTime
  <2> QED
    BY <2>1, <2>2
<1>7. ASSUME Tick PROVE LeaseInv'
  <2> USE <1>7 DEF Tick
  <2>1. KeyHasTime'
    BY DEF LeaseTypeOK, KeyHasTime
  <2>2. LeaseTypeOK'
    BY DEF LeaseTypeOK, KeyHasTime, Polling
  <2>3. LeaderInTime'
    BY DEF LeaseTypeOK, KeyHasTime, LeaderInTime, Polling
  <2> QED
    BY <2>1, <2>2, <2>3
<1>8. ASSUME UNCHANGED leaseVars PROVE LeaseInv'
  BY <1>8 DEF leaseVars, lease, LeaseTypeOK, KeyHasTime, LeaderInTime
<1> QED
  BY <1>1, <1>2, <1>3, <1>4, <1>5, <1>6, <1>7, <1>8 DEF LeaseNext, SupervisorStep

(* The inductive invariant of the lease: types, one TTL at most, and a     *)
(* leader that knows how much of it is left.                               *)
THEOREM LeaseInvariant == LeaseSpec => []LeaseInv
<1> QED
  BY InitLeaseInv, NextLeaseInv, PTL DEF LeaseSpec

(* For a TTL from its last renewal a replica that believes it leads owns   *)
(* the key.                                                                *)
THEOREM LeaseHeld == LeaseSpec => []LoopHoldsLease
<1>1. LeaseInv => LoopHoldsLease
  BY DEF LeaseInv, LeaderInTime, LoopHoldsLease
<1> QED
  BY <1>1, LeaseInvariant, PTL

OneLeader == \A q, r \in Replicas :
    supervisor[q] = "leader" /\ supervisor[r] = "leader" => q = r

(* With polls in time (poll_seconds plus the longest stall below the TTL)  *)
(* no two replicas believe they lead.                                      *)
THEOREM LeaseOneLeader ==
    ASSUME Poll + MaxStall < TTL
    PROVE  LeaseSpec => []OneLeader
<1>1. LeaseInv => OneLeader
  BY LeaseAssumption, PollInTTL
     DEF LeaseInv, LeaderInTime, OneLeader, SinceRenewed, LeaseTypeOK
<1> QED
  BY <1>1, LeaseInvariant, PTL

(* Every variable stays in its domain: no renewal lengthens a lease beyond *)
(* one TTL, and no supervisor is later than the longest stall.             *)
THEOREM LeaseTyped == LeaseSpec => []LeaseTypeOK
<1>1. LeaseInv => LeaseTypeOK
  BY DEF LeaseInv
<1> QED
  BY <1>1, LeaseInvariant, PTL
=============================================================================
