------------------------ MODULE BatchSchedulerProofs ------------------------
(* Proofs about BatchScheduler, for every set of calls, every max_batch    *)
(* and number of cancellations of the worker.                              *)
EXTENDS BatchScheduler, TLAPS

-----------------------------------------------------------------------------
(* Sequences                                                               *)

Distinct(s) == \A i, j \in DOMAIN s : s[i] = s[j] => i = j

(* Two sequences have no element twice, alone or together.                 *)
Apart(s, t) == Distinct(s) /\ Distinct(t) /\ ToSet(s) \cap ToSet(t) = {}

(* Moving the first n elements of q behind s.                              *)
Longer(s, q, n) == s \o SubSeq(q, 1, n)
Rest(q, n)      == SubSeq(q, n + 1, Len(q))

LEMMA Shift ==
    ASSUME NEW s \in Seq(Calls), NEW q \in Seq(Calls), NEW n \in 0..Len(q), Apart(s, q)
    PROVE  /\ Longer(s, q, n) \in Seq(Calls) /\ Len(Longer(s, q, n)) = Len(s) + n
           /\ Rest(q, n) \in Seq(Calls) /\ Len(Rest(q, n)) = Len(q) - n
           /\ ToSet(Longer(s, q, n)) \cup ToSet(Rest(q, n)) = ToSet(s) \cup ToSet(q)
           /\ ToSet(Rest(q, n)) \subseteq ToSet(q)
           /\ Apart(Longer(s, q, n), Rest(q, n))
<1> SUFFICES ASSUME NEW a, a = s \o SubSeq(q, 1, n), NEW b, b = SubSeq(q, n + 1, Len(q))
             PROVE  /\ a \in Seq(Calls) /\ Len(a) = Len(s) + n
                    /\ b \in Seq(Calls) /\ Len(b) = Len(q) - n
                    /\ ToSet(a) \cup ToSet(b) = ToSet(s) \cup ToSet(q)
                    /\ ToSet(b) \subseteq ToSet(q)
                    /\ Apart(a, b)
  BY DEF Longer, Rest
<1>1. /\ a \in Seq(Calls) /\ Len(a) = Len(s) + n
      /\ b \in Seq(Calls) /\ Len(b) = Len(q) - n
      /\ \A i \in 1..Len(s) : a[i] = s[i]
      /\ \A i \in 1..n : a[Len(s) + i] = q[i]
      /\ \A i \in 1..(Len(q) - n) : b[i] = q[n + i]
  OBVIOUS
<1>0. /\ DOMAIN s = 1..Len(s) /\ DOMAIN q = 1..Len(q)
      /\ DOMAIN a = 1..(Len(s) + n) /\ DOMAIN b = 1..(Len(q) - n)
  BY <1>1
<1>2. /\ \A x : x \in ToSet(a) <=> \E i \in 1..(Len(s) + n) : x = a[i]
      /\ \A x : x \in ToSet(b) <=> \E i \in 1..(Len(q) - n) : x = b[i]
      /\ \A x : x \in ToSet(s) <=> \E i \in 1..Len(s) : x = s[i]
      /\ \A x : x \in ToSet(q) <=> \E i \in 1..Len(q) : x = q[i]
  BY <1>0 DEF ToSet
<1>3. ToSet(b) \subseteq ToSet(q)
  BY <1>1, <1>2
<1>4. ToSet(a) \subseteq ToSet(s) \cup ToSet(q)
  <2>1. ASSUME NEW i \in 1..(Len(s) + n) PROVE a[i] \in ToSet(s) \cup ToSet(q)
    <3>1. CASE i <= Len(s)
      BY <1>1, <1>2, <3>1
    <3>2. CASE i > Len(s)
      <4>1. i - Len(s) \in 1..n /\ i = Len(s) + (i - Len(s))
        BY <3>2
      <4> QED
        BY <1>1, <1>2, <4>1
    <3> QED
      BY <3>1, <3>2
  <2> QED
    BY <1>2, <2>1
<1>5. ToSet(s) \subseteq ToSet(a)
  BY <1>1, <1>2
<1>6. ToSet(q) \subseteq ToSet(a) \cup ToSet(b)
  <2>1. ASSUME NEW i \in 1..Len(q) PROVE q[i] \in ToSet(a) \cup ToSet(b)
    <3>1. CASE i <= n
      <4>1. a[Len(s) + i] = q[i] /\ Len(s) + i \in 1..(Len(s) + n)
        BY <1>1, <3>1
      <4> QED
        BY <1>2, <4>1
    <3>2. CASE i > n
      <4>1. PICK k \in 1..(Len(q) - n) : i = n + k
        <5>1. i - n \in 1..(Len(q) - n) /\ i = n + (i - n)
          BY <3>2
        <5> QED
          BY <5>1
      <4>2. b[k] = q[n + k]
        BY <1>1
      <4>3. b[k] \in ToSet(b)
        BY <1>2
      <4> QED
        BY <4>1, <4>2, <4>3
    <3> QED
      BY <3>1, <3>2
  <2>2. ASSUME NEW x \in ToSet(q) PROVE x \in ToSet(a) \cup ToSet(b)
    <3>1. PICK i \in 1..Len(q) : x = q[i]
      BY <1>2
    <3> QED
      BY <2>1, <3>1
  <2> QED
    BY <2>2
<1>7. Distinct(b)
  <2> SUFFICES ASSUME NEW i \in 1..(Len(q) - n), NEW j \in 1..(Len(q) - n), b[i] = b[j]
               PROVE  i = j
    BY <1>0 DEF Distinct
  <2>1. q[n + i] = q[n + j]
    BY <1>1
  <2>3. n + i \in DOMAIN q /\ n + j \in DOMAIN q
    <3>1. Len(q) \in Nat
      OBVIOUS
    <3> QED
      BY <1>0, <3>1
  <2>2. n + i = n + j
    BY <2>1, <2>3 DEF Apart, Distinct
  <2> QED
    BY <2>2
<1>8. \A i \in 1..(Len(s) + n) :
         \/ i \in DOMAIN s /\ a[i] = s[i]
         \/ i - Len(s) \in DOMAIN q /\ i - Len(s) <= n /\ a[i] = q[i - Len(s)]
  <2> TAKE i \in 1..(Len(s) + n)
  <2>1. CASE i <= Len(s)
    BY <1>1, <2>1
  <2>2. CASE i > Len(s)
    <3>1. i - Len(s) \in 1..n /\ i = Len(s) + (i - Len(s))
      BY <2>2
    <3> QED
      BY <1>1, <3>1
  <2> QED
    BY <2>1, <2>2
<1>9. \A i \in DOMAIN s, j \in DOMAIN q : s[i] # q[j]
  BY DEF Apart, ToSet
<1>10. Distinct(a)
  <2> SUFFICES ASSUME NEW i \in 1..(Len(s) + n), NEW j \in 1..(Len(s) + n), a[i] = a[j]
               PROVE  i = j
    BY <1>0 DEF Distinct
  <2>1. \A k, l \in DOMAIN s : s[k] = s[l] => k = l
    BY DEF Apart, Distinct
  <2>2. \A k, l \in DOMAIN q : q[k] = q[l] => k = l
    BY DEF Apart, Distinct
  <2> QED
    BY <1>8, <1>9, <2>1, <2>2
<1>11. ToSet(a) \cap ToSet(b) = {}
  <2>1. ASSUME NEW i \in 1..(Len(s) + n), NEW j \in 1..(Len(q) - n), a[i] = b[j]
        PROVE  FALSE
    <3>1. b[j] = q[n + j]
      BY <1>1
    <3>2. Len(q) \in Nat
      OBVIOUS
    <3>3. n + j \in DOMAIN q
      BY <1>0, <3>2
    <3>4. \A k, l \in DOMAIN q : q[k] = q[l] => k = l
      BY DEF Apart, Distinct
    <3> QED
      BY <1>8, <1>9, <2>1, <3>1, <3>3, <3>4
  <2>2. ASSUME NEW x \in ToSet(a), x \in ToSet(b) PROVE FALSE
    <3>1. PICK i \in 1..(Len(s) + n) : x = a[i]
      BY <1>2
    <3>2. PICK j \in 1..(Len(q) - n) : x = b[j]
      BY <1>2, <2>2
    <3> QED
      BY <2>1, <3>1, <3>2
  <2> QED
    BY <2>2
<1> QED
  BY <1>1, <1>3, <1>4, <1>5, <1>6, <1>7, <1>10, <1>11 DEF Apart

-----------------------------------------------------------------------------
(* The invariant                                                           *)

(* No item is in the queue or in a batch twice, and the handler has not    *)
(* seen those it was not handed.                                           *)
Unhanded ==
    /\ Apart(batch, queue)
    /\ \A c \in ToSet(queue) : handed[c] = 0
    /\ worker = "forming" => \A c \in ToSet(batch) : handed[c] = 0

(* A call that was not made has left no trace.                             *)
Unmade == \A c \in Calls : future[c].is = "unborn" =>
    handed[c] = 0 /\ c \notin ToSet(queue) \cup ToSet(batch)

(* Without a worker only orphans are queued.                               *)
LeftBehind == worker = "none" => ToSet(queue) \subseteq orphans

IInv == TypeOK /\ Unhanded /\ Unmade /\ LeftBehind /\ OwnResult /\ NoStrandedCaller

(* What a future may become.                                               *)
LEMMA Kinds ==
    /\ \A k \in {"unborn", "pending", "error", "cancelled"} :
          Settled(k) \in Outcomes /\ Settled(k).is = k
    /\ \A c \in Calls : /\ Result(c) \in Outcomes
                        /\ Result(c).is = "result" /\ Result(c).of = c
    /\ \A c \in Calls : Pending(c) <=> future[c] = Settled("pending")
BY DEF Settled, Result, Outcomes, Pending

LEMMA InitIInv == Init => IInv
<1> SUFFICES ASSUME Init PROVE IInv
  OBVIOUS
<1> USE BatchAssumption DEF Init
<1>1. TypeOK
  <2>1. future \in [Calls -> Outcomes]
    BY Kinds
  <2>2. queue \in Seq(Calls) /\ batch \in Seq(Calls) /\ Len(batch) <= MaxBatch
    OBVIOUS
  <2>3. cancels \in 0..MaxCancels /\ handed \in [Calls -> Nat]
    OBVIOUS
  <2>4. batch = <<>> <=> worker \in {"none", "new"}
    OBVIOUS
  <2> QED
    BY <2>1, <2>2, <2>3, <2>4 DEF TypeOK
<1>2. Unhanded /\ Unmade /\ LeftBehind
  <2>1. ToSet(<<>>) = {} /\ Distinct(<<>>)
    BY DEF ToSet, Distinct
  <2> QED
    BY <2>1 DEF Unhanded, Unmade, LeftBehind, Apart
<1>3. OwnResult /\ NoStrandedCaller
  BY Kinds DEF OwnResult, NoStrandedCaller, Pending
<1> QED
  BY <1>1, <1>2, <1>3 DEF IInv

(* The pending calls of a set get an outcome that ends them, a result      *)
(* being their own.                                                        *)
Ends(S) ==
    /\ future' \in [Calls -> Outcomes]
    /\ \A c \in Calls :
          IF c \in S /\ Pending(c)
          THEN /\ future'[c].is \notin {"unborn", "pending"}
               /\ future'[c].is = "result" => future'[c].of = c
          ELSE future'[c] = future[c]

(* What the worker has in hand after gathering.                            *)
LEMMA Gathered ==
    ASSUME queue \in Seq(Calls), NEW taken \in Seq(Calls), Len(taken) <= MaxBatch,
           Apart(taken, queue), Gather(taken)
    PROVE  /\ queue' \in Seq(Calls) /\ batch' \in Seq(Calls) /\ Len(batch') <= MaxBatch
           /\ Apart(batch', queue')
           /\ ToSet(batch') \cup ToSet(queue') = ToSet(taken) \cup ToSet(queue)
           /\ ToSet(queue') \subseteq ToSet(queue)
           /\ batch' = <<>> <=> worker' = "none"
           /\ worker' = "none" => queue' = <<>>
           /\ \/ worker' \in {"none", "forming"} /\ handed' = handed
              \/ /\ worker' = "handling"
                 /\ handed' = [c \in Calls |-> IF c \in ToSet(batch') THEN handed[c] + 1
                                               ELSE handed[c]]
<1> DEFINE n == Smaller(Len(queue), MaxBatch - Len(taken))
<1>1. n \in 0..Len(queue) /\ Len(taken) + n <= MaxBatch /\ Len(taken) \in Nat
  BY BatchAssumption DEF Smaller
<1>2. batch' = Longer(taken, queue, n) /\ queue' = Rest(queue, n)
  BY DEF Gather, Longer, Rest
<1>3. /\ batch' \in Seq(Calls) /\ Len(batch') = Len(taken) + n
      /\ queue' \in Seq(Calls) /\ Len(queue') = Len(queue) - n
      /\ ToSet(batch') \cup ToSet(queue') = ToSet(taken) \cup ToSet(queue)
      /\ ToSet(queue') \subseteq ToSet(queue)
      /\ Apart(batch', queue')
  BY <1>1, <1>2, Shift
<1>4. /\ \/ batch' = <<>> /\ worker' = "none" /\ handed' = handed
         \/ batch' # <<>> /\ worker' = "forming" /\ handed' = handed
         \/ batch' # <<>> /\ worker' = "handling" /\ Hand(batch')
  BY <1>2 DEF Gather, Longer
<1>5. batch' = <<>> => queue' = <<>>
  <2> SUFFICES ASSUME batch' = <<>> PROVE Len(queue') = 0
    BY <1>3
  <2>1. Len(taken) = 0 /\ n = 0
    BY <1>1, <1>3
  <2>2. Len(queue) = 0
    BY <2>1, BatchAssumption DEF Smaller
  <2> QED
    BY <1>3, <2>1, <2>2
<1> QED
  BY <1>1, <1>3, <1>4, <1>5 DEF Hand

(* The worker gathers its next batch, the calls of S having been given     *)
(* their outcomes.                                                         *)
LEMMA GatherKeeps ==
    ASSUME IInv, NEW taken \in Seq(Calls), Len(taken) <= MaxBatch, Gather(taken),
           Apart(taken, queue), \A c \in ToSet(taken) : handed[c] = 0,
           NEW S \in SUBSET Calls, Ends(S), ToSet(taken) \subseteq ToSet(batch),
           ToSet(batch) \subseteq S \cup ToSet(taken),
           cancel' \in {"no", "asked", "taken"}, UNCHANGED <<orphans, closed, closing, cancels>>
    PROVE  IInv'
<1> USE DEF IInv
<1>1. /\ queue' \in Seq(Calls) /\ batch' \in Seq(Calls) /\ Len(batch') <= MaxBatch
      /\ Apart(batch', queue')
      /\ ToSet(batch') \cup ToSet(queue') = ToSet(taken) \cup ToSet(queue)
      /\ ToSet(queue') \subseteq ToSet(queue)
      /\ batch' = <<>> <=> worker' = "none"
      /\ worker' = "none" => queue' = <<>>
      /\ \/ worker' \in {"none", "forming"} /\ handed' = handed
         \/ /\ worker' = "handling"
            /\ handed' = [c \in Calls |-> IF c \in ToSet(batch') THEN handed[c] + 1
                                          ELSE handed[c]]
  <2>1. queue \in Seq(Calls)
    BY DEF TypeOK
  <2> QED
    BY <2>1, Gathered
<1>2. ToSet(<<>>) = {} /\ handed \in [Calls -> Nat]
  BY DEF ToSet, TypeOK
<1>3. \A c \in ToSet(batch') \cup ToSet(queue') : handed[c] = 0
  BY <1>1 DEF Unhanded
<1>4. \A c \in Calls : handed'[c] = IF worker' = "handling" /\ c \in ToSet(batch')
                                    THEN handed[c] + 1 ELSE handed[c]
  BY <1>1, <1>2
<1>5. TypeOK'
  <2>1. handed' \in [Calls -> Nat]
    <3>1. CASE handed' = handed
      BY <1>2, <3>1
    <3>2. CASE handed' = [c \in Calls |-> IF c \in ToSet(batch') THEN handed[c] + 1
                                          ELSE handed[c]]
      BY <1>2, <3>2
    <3> QED
      BY <1>1, <3>1, <3>2
  <2>2. worker' \in {"none", "forming", "handling"}
    BY <1>1
  <2> QED
    BY <1>1, <2>1, <2>2 DEF TypeOK, Ends
<1>6. ToSet(batch') \subseteq Calls /\ ToSet(queue') \subseteq Calls
  BY <1>1 DEF ToSet
<1>7. Unhanded'
  BY <1>1, <1>3, <1>4, <1>6 DEF Unhanded, Apart
<1>8. Unmade'
  BY <1>1, <1>4, <1>6 DEF Unmade, Ends
<1>9. LeftBehind'
  BY <1>1, <1>2 DEF LeftBehind
<1>10. OwnResult'
  BY <1>2, <1>3, <1>4 DEF OwnResult, Ends
<1>11. NoStrandedCaller'
  <2> SUFFICES ASSUME NEW c \in Calls, Pending(c)'
               PROVE  c \in ToSet(queue') \cup ToSet(batch') /\ worker' # "none"
    BY DEF NoStrandedCaller
  <2>1. Pending(c) /\ c \notin S
    BY DEF Ends, Pending
  <2>2. c \in ToSet(queue') \cup ToSet(batch')
    BY <1>1, <2>1 DEF NoStrandedCaller
  <2> QED
    BY <1>1, <1>2, <2>2
<1> QED
  BY <1>5, <1>7, <1>8, <1>9, <1>10, <1>11

(* The worker goes, and everything it held or was to hold with it.         *)
LEMMA AbandonKeeps ==
    ASSUME IInv, NEW kind \in {"error", "cancelled"}, Abandon(kind)
    PROVE  IInv'
<1> USE DEF IInv
<1>1. /\ queue' = <<>> /\ batch' = <<>> /\ worker' = "none" /\ cancel' = "no"
      /\ UNCHANGED <<handed, orphans, closed, closing, cancels>>
  BY DEF Abandon
<1>2. ToSet(batch \o queue) = ToSet(batch) \cup ToSet(queue)
  <2> SUFFICES ASSUME NEW s \in Seq(Calls), NEW t \in Seq(Calls)
               PROVE  ToSet(s \o t) = ToSet(s) \cup ToSet(t)
    BY DEF TypeOK
  <2>1. ASSUME NEW x \in ToSet(s \o t) PROVE x \in ToSet(s) \cup ToSet(t)
    <3>1. PICK i \in 1..(Len(s) + Len(t)) : x = (s \o t)[i]
      BY DEF ToSet
    <3>2. CASE i <= Len(s)
      BY <3>1, <3>2 DEF ToSet
    <3>3. CASE i > Len(s)
      <4>1. x = t[i - Len(s)] /\ i - Len(s) \in 1..Len(t)
        BY <3>1, <3>3
      <4> QED
        BY <4>1 DEF ToSet
    <3> QED
      BY <3>2, <3>3
  <2>2. ASSUME NEW i \in 1..Len(s) PROVE s[i] \in ToSet(s \o t)
    <3>1. s[i] = (s \o t)[i] /\ i \in DOMAIN (s \o t)
      OBVIOUS
    <3> QED
      BY <3>1 DEF ToSet
  <2>3. ASSUME NEW i \in 1..Len(t) PROVE t[i] \in ToSet(s \o t)
    <3>1. t[i] = (s \o t)[Len(s) + i] /\ Len(s) + i \in DOMAIN (s \o t)
      OBVIOUS
    <3> QED
      BY <3>1 DEF ToSet
  <2>4. /\ \A x : x \in ToSet(s) <=> \E i \in 1..Len(s) : x = s[i]
        /\ \A x : x \in ToSet(t) <=> \E i \in 1..Len(t) : x = t[i]
    BY DEF ToSet
  <2>5. ToSet(s) \subseteq ToSet(s \o t) /\ ToSet(t) \subseteq ToSet(s \o t)
    BY <2>2, <2>3, <2>4
  <2> QED
    BY <2>1, <2>5
<1>3. Ends(ToSet(batch) \cup ToSet(queue))
  <2>1. Settled(kind) \in Outcomes /\ Settled(kind).is = kind
    BY Kinds
  <2>2. Settled("cancelled") \in Outcomes /\ Settled("cancelled").is = "cancelled"
    BY Kinds
  <2>3. \A c \in Calls :
           future'[c] = IF c \in ToSet(batch) \cup ToSet(queue) /\ Pending(c)
                        THEN IF c \in ToSet(batch) THEN Settled(kind) ELSE Settled("cancelled")
                        ELSE future[c]
    BY <1>2 DEF Abandon, Settle
  <2>4. future' \in [Calls -> Outcomes]
    BY <2>1, <2>2 DEF Abandon, Settle, TypeOK
  <2> QED
    BY <2>1, <2>2, <2>3, <2>4 DEF Ends
<1>4. ToSet(<<>>) = {} /\ Distinct(<<>>)
  BY DEF ToSet, Distinct
<1>5. TypeOK'
  BY <1>1, <1>3, BatchAssumption DEF TypeOK, Ends
<1>6. Unhanded' /\ Unmade' /\ LeftBehind'
  BY <1>1, <1>3, <1>4 DEF Unhanded, Unmade, LeftBehind, Apart, Ends
<1>7. OwnResult' /\ NoStrandedCaller'
  BY <1>1, <1>3 DEF OwnResult, NoStrandedCaller, Ends, Pending
<1> QED
  BY <1>5, <1>6, <1>7

LEMMA NextIInv == IInv /\ [Next]_vars => IInv'
<1> SUFFICES ASSUME IInv, [Next]_vars PROVE IInv'
  OBVIOUS
<1> USE DEF IInv
<1>0. ToSet(<<>>) = {} /\ Distinct(<<>>)
  BY DEF ToSet, Distinct
<1>1. ASSUME NEW c \in Calls, Submit(c) PROVE IInv'
  <2>1. /\ handed[c] = 0 /\ c \notin ToSet(queue) \cup ToSet(batch)
        /\ future \in [Calls -> Outcomes] /\ queue \in Seq(Calls)
        /\ UNCHANGED <<batch, cancel, handed, orphans, closed, closing, cancels>>
    BY <1>1 DEF Submit, Unmade, TypeOK
  <2>2. CASE closed
    <3>1. /\ future' = [future EXCEPT ![c] = Settled("error")]
          /\ UNCHANGED <<queue, worker>>
      BY <1>1, <2>2 DEF Submit
    <3>2. /\ future' \in [Calls -> Outcomes]
          /\ future'[c].is = "error" /\ ~Pending(c)'
          /\ \A d \in Calls : d # c => future'[d] = future[d]
      BY <2>1, <3>1, Kinds DEF Pending
    <3> QED
      BY <2>1, <3>1, <3>2 DEF TypeOK, Unhanded, Unmade, LeftBehind, OwnResult,
                              NoStrandedCaller, Pending
  <2>3. CASE ~closed
    <3>1. /\ future' = [future EXCEPT ![c] = Settled("pending")]
          /\ queue' = Append(queue, c) /\ worker' # "none"
          /\ worker' = IF worker = "none" THEN "new" ELSE worker
      BY <1>1, <2>3 DEF Submit
    <3>2. /\ future' \in [Calls -> Outcomes] /\ future'[c].is = "pending"
          /\ \A d \in Calls : d # c => future'[d] = future[d]
      BY <2>1, <3>1, Kinds
    <3>3. /\ queue' \in Seq(Calls) /\ ToSet(queue') = ToSet(queue) \cup {c}
          /\ Distinct(queue')
      <4>1. /\ queue' \in Seq(Calls) /\ DOMAIN queue' = 1..(Len(queue) + 1)
            /\ queue'[Len(queue) + 1] = c
            /\ \A i \in 1..Len(queue) : queue'[i] = queue[i]
        BY <2>1, <3>1
      <4>2. /\ \A x : x \in ToSet(queue') <=> \E i \in 1..(Len(queue) + 1) : x = queue'[i]
            /\ \A x : x \in ToSet(queue) <=> \E i \in 1..Len(queue) : x = queue[i]
        BY <2>1, <4>1 DEF ToSet
      <4>3. Len(queue) \in Nat
        BY <2>1
      <4>4. ToSet(queue') = ToSet(queue) \cup {c}
        BY <4>1, <4>2, <4>3
      <4>5. Distinct(queue')
        <5> SUFFICES ASSUME NEW i \in 1..(Len(queue) + 1), NEW j \in 1..(Len(queue) + 1),
                            queue'[i] = queue'[j]
                     PROVE  i = j
          BY <4>1 DEF Distinct
        <5>1. \A k, l \in 1..Len(queue) : queue[k] = queue[l] => k = l
          BY <2>1 DEF Unhanded, Apart, Distinct
        <5>2. \A k \in 1..Len(queue) : queue[k] # c
          BY <2>1, <4>2
        <5> QED
          BY <4>1, <4>3, <5>1, <5>2
      <4> QED
        BY <4>1, <4>4, <4>5
    <3>4. TypeOK'
      BY <2>1, <3>1, <3>2, <3>3 DEF TypeOK
    <3>5. Unhanded' /\ Unmade' /\ LeftBehind'
      BY <2>1, <3>1, <3>2, <3>3 DEF Unhanded, Apart, Unmade, LeftBehind
    <3>6. OwnResult'
      BY <2>1, <3>2 DEF OwnResult
    <3>7. NoStrandedCaller'
      BY <2>1, <3>1, <3>2, <3>3 DEF NoStrandedCaller, Pending
    <3> QED
      BY <3>4, <3>5, <3>6, <3>7
  <2> QED
    BY <2>2, <2>3
<1>2. ASSUME NEW c \in Calls, CallerCancelled(c) PROVE IInv'
  <2>1. /\ future' = [future EXCEPT ![c] = Settled("cancelled")] /\ future[c].is = "pending"
        /\ UNCHANGED <<queue, batch, worker, cancel, handed, orphans, closed, closing,
                       cancels>>
    BY <1>2, Kinds DEF CallerCancelled
  <2>2. /\ future' \in [Calls -> Outcomes] /\ future'[c].is = "cancelled" /\ ~Pending(c)'
        /\ \A d \in Calls : d # c => future'[d] = future[d]
    BY <2>1, Kinds DEF TypeOK, Pending
  <2> QED
    BY <2>1, <2>2 DEF TypeOK, Unhanded, Unmade, LeftBehind, OwnResult, NoStrandedCaller,
                      Pending
<1>3. CASE AClose \/ ACloseReturns \/ CancelWorker
  <2>1. /\ UNCHANGED <<queue, batch, worker, future, handed, orphans>>
        /\ cancel' \in {cancel, "asked"} /\ closed' \in {closed, TRUE}
        /\ closing' \in {closing, "waiting", "done"}
        /\ cancels' \in 0..MaxCancels
    <3>1. CASE AClose
      BY <3>1 DEF AClose, workerVars, TypeOK
    <3>2. CASE ACloseReturns
      BY <3>2 DEF ACloseReturns, workerVars, TypeOK
    <3>3. CASE CancelWorker
      BY <3>3, BatchAssumption DEF CancelWorker, TypeOK
    <3> QED
      BY <1>3, <3>1, <3>2, <3>3
  <2> QED
    BY <2>1 DEF TypeOK, Unhanded, Unmade, LeftBehind, OwnResult, NoStrandedCaller, Pending
<1>4. CASE Start \/ Resume
  <2>1. Ends({})
    BY <1>4 DEF Ends, Start, Resume, TypeOK
  <2>2. UNCHANGED <<orphans, closed, closing, cancels>> /\ cancel' \in {"no", "asked", "taken"}
    BY <1>4 DEF Start, Resume, TypeOK
  <2>3. CASE Start
    <3>1. batch = <<>> /\ <<>> \in Seq(Calls) /\ Len(<<>>) <= MaxBatch
      BY <2>3, BatchAssumption DEF Start, TypeOK
    <3>2. Apart(<<>>, queue) /\ Gather(<<>>)
      BY <1>0, <2>3 DEF Start, Apart, Unhanded
    <3> QED
      BY <1>0, <2>1, <2>2, <3>1, <3>2, GatherKeeps
  <2>4. CASE Resume
    <3>1. /\ batch \in Seq(Calls) /\ Len(batch) <= MaxBatch /\ Gather(batch)
          /\ Apart(batch, queue) /\ \A c \in ToSet(batch) : handed[c] = 0
      BY <2>4 DEF Resume, TypeOK, Unhanded
    <3> QED
      BY <2>1, <2>2, <3>1, GatherKeeps
  <2> QED
    BY <1>4, <2>3, <2>4
<1>5. CASE NeverStarts
  <2>1. /\ worker = "new" /\ worker' = "none" /\ cancel' = "no"
        /\ orphans' = orphans \cup ToSet(queue)
        /\ UNCHANGED <<queue, batch, future, handed, closed, closing, cancels>>
    BY <1>5 DEF NeverStarts
  <2>2. batch = <<>> /\ ToSet(queue) \subseteq Calls
    BY <2>1 DEF TypeOK, ToSet
  <2> QED
    BY <1>0, <2>1, <2>2 DEF TypeOK, Unhanded, Unmade, LeftBehind, OwnResult,
                            NoStrandedCaller, Pending
<1>6. CASE WaitOver
  <2>1. /\ worker = "forming" /\ worker' = "handling" /\ Hand(batch)
        /\ UNCHANGED <<queue, batch, cancel, future, orphans, closed, closing, cancels>>
    BY <1>6 DEF WaitOver
  <2>2. ToSet(batch) \subseteq Calls /\ handed \in [Calls -> Nat]
    BY DEF TypeOK, ToSet
  <2>3. /\ handed' \in [Calls -> Nat]
        /\ \A c \in Calls : handed'[c] = IF c \in ToSet(batch) THEN handed[c] + 1 ELSE handed[c]
    BY <2>1, <2>2 DEF Hand
  <2>4. TypeOK'
    BY <2>1, <2>3 DEF TypeOK
  <2>5. ToSet(queue) \subseteq Calls
    BY DEF TypeOK, ToSet
  <2>6. Unhanded' /\ Unmade' /\ LeftBehind'
    BY <2>1, <2>3, <2>5 DEF Unhanded, Apart, Unmade, LeftBehind
  <2>7. OwnResult' /\ NoStrandedCaller'
    BY <2>1, <2>2, <2>3 DEF OwnResult, NoStrandedCaller, Unhanded, Pending
  <2> QED
    BY <2>4, <2>6, <2>7
<1>7. CASE CancelledForming \/ CancelledHandling \/ HandlerExits
  BY <1>7, AbandonKeeps DEF CancelledForming, CancelledHandling, HandlerExits
<1>8. CASE HandlerReturns \/ HandlerFails \/ HandlerCancelsItself
  <2>1. /\ worker = "handling" /\ Gather(<<>>)
        /\ UNCHANGED <<orphans, closed, closing, cancels>>
        /\ cancel' \in {"no", "asked", "taken"}
    BY <1>8 DEF HandlerReturns, HandlerFails, HandlerCancelsItself, AfterHandler, TypeOK
  <2>2. Ends(ToSet(batch))
    <3>1. ASSUME NEW c \in ToSet(batch) PROVE batch[Position(c)] = c /\ c \in Calls
      <4>1. \E i \in DOMAIN batch : batch[i] = c
        BY DEF ToSet
      <4>2. c \in Calls
        BY <4>1 DEF TypeOK
      <4> QED
        BY <4>1, <4>2 DEF Position
    <3>2. \A k \in {"error", "cancelled"} : Settled(k) \in Outcomes /\ Settled(k).is = k
      BY Kinds
    <3>3. CASE HandlerReturns
      <4>1. future' = [c \in Calls |-> IF c \in ToSet(batch) /\ Pending(c)
                                       THEN Result(batch[Position(c)]) ELSE future[c]]
        BY <3>3 DEF HandlerReturns, AfterHandler, Settle
      <4>2. \A c \in Calls : future'[c] = IF c \in ToSet(batch) /\ Pending(c)
                                          THEN Result(c) ELSE future[c]
        BY <3>1, <4>1
      <4>3. future' \in [Calls -> Outcomes]
        BY <3>1, <4>1, Kinds DEF TypeOK
      <4> QED
        BY <4>2, <4>3, Kinds DEF Ends
    <3>4. CASE HandlerFails \/ HandlerCancelsItself
      <4>1. PICK k \in {"error", "cancelled"} :
               future' = [c \in Calls |-> IF c \in ToSet(batch) /\ Pending(c)
                                          THEN Settled(k) ELSE future[c]]
        BY <3>4 DEF HandlerFails, HandlerCancelsItself, AfterHandler, Settle
      <4>2. future' \in [Calls -> Outcomes]
        BY <3>2, <4>1 DEF TypeOK
      <4> QED
        BY <3>2, <4>1, <4>2 DEF Ends
    <3> QED
      BY <1>8, <3>3, <3>4
  <2>3. /\ <<>> \in Seq(Calls) /\ Len(<<>>) <= MaxBatch /\ ToSet(batch) \subseteq Calls
        /\ Apart(<<>>, queue)
    BY <1>0, BatchAssumption DEF Apart, Unhanded, ToSet, TypeOK
  <2> QED
    BY <1>0, <2>1, <2>2, <2>3, GatherKeeps
<1>9. CASE UNCHANGED vars
  BY <1>9 DEF vars, workerVars, TypeOK, Unhanded, Unmade, LeftBehind, OwnResult,
              NoStrandedCaller, Pending
<1> QED
  BY <1>1, <1>2, <1>3, <1>4, <1>5, <1>6, <1>7, <1>8, <1>9 DEF Next, WorkerStep

(* The invariant of every execution.                                       *)
THEOREM Invariance == Spec => []IInv
<1> QED
  BY InitIInv, NextIInv, PTL DEF Spec

(* Every variable keeps its domain, and no batch exceeds max_batch.        *)
THEOREM Typing == Spec => []TypeOK
<1>1. IInv => TypeOK
  BY DEF IInv
<1> QED
  BY <1>1, Invariance, PTL

(* Results go to the callers they belong to, whoever of a batch gave up,   *)
(* and no item is handed over twice.                                       *)
THEOREM ResultsFindTheirCaller == Spec => []OwnResult
<1>1. IInv => OwnResult
  BY DEF IInv
<1> QED
  BY <1>1, Invariance, PTL

(* A caller that waits is within reach of a worker: however the worker     *)
(* ends, the queue it leaves holds no caller, but for a worker cancelled   *)
(* before its first step.                                                  *)
THEOREM NobodyIsStranded == Spec => []NoStrandedCaller
<1>1. IInv => NoStrandedCaller
  BY DEF IInv
<1> QED
  BY <1>1, Invariance, PTL

=============================================================================
