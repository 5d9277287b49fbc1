----------------------------- MODULE JobsProofs -----------------------------
(* Proofs about Jobs, for every number of rows, workers and sweepers and   *)
(* every budget and cutoff.                                                *)
EXTENDS Jobs, TLAPS

(* A row that can be claimed still has budget: what makes                  *)
(* AttemptsWithinBudget inductive.                                         *)
QueuedHasBudget == \A j \in Jobs :
    /\ status[j] = "absent" => attempts[j] = 0
    /\ status[j] \in {"absent", "QUEUED"} => attempts[j] < Budget(j)

(* A busy worker holds a row that was enqueued.                            *)
BusyHoldsAttempt == \A w \in Workers : Busy(w) =>
    /\ worker[w].job \in Jobs
    /\ status[worker[w].job] # "absent"

IInv ==
    /\ TypeOK
    /\ AttemptsWithinBudget
    /\ QueuedHasBudget
    /\ BusyHoldsAttempt
    /\ AttemptsAreDistinct
    /\ OneOutcome
    /\ ResultMatchesOutcome

LEMMA BudgetType == ASSUME NEW j \in Jobs
                    PROVE  /\ Budget(j) \in Nat
                           /\ Budget(j) >= 1
                           /\ Budget(j) >= MaxAttempts[j]
  BY JobsAssumption DEF Budget, Max2

(* Init establishes the invariant.                                         *)
LEMMA InitIInv == Init => IInv
<1> SUFFICES ASSUME Init PROVE IInv
  OBVIOUS
<1> USE JobsAssumption DEF Init
<1>1. TypeOK
  BY DEF TypeOK, Idle, Statuses
<1>2. AttemptsWithinBudget /\ QueuedHasBudget
  BY BudgetType DEF AttemptsWithinBudget, QueuedHasBudget
<1>3. BusyHoldsAttempt /\ AttemptsAreDistinct
  BY DEF BusyHoldsAttempt, AttemptsAreDistinct, Busy
<1>4. OneOutcome /\ ResultMatchesOutcome
  BY DEF OneOutcome, ResultMatchesOutcome, Terminal
<1> QED
  BY <1>1, <1>2, <1>3, <1>4 DEF IInv

(* Every step preserves the types.                                         *)
LEMMA NextTypeOK == TypeOK /\ BusyHoldsAttempt /\ [Next]_vars => TypeOK'
<1> SUFFICES ASSUME TypeOK, BusyHoldsAttempt, [Next]_vars PROVE TypeOK'
  OBVIOUS
<1> USE JobsAssumption
<1>1. ASSUME NEW j \in Jobs, Enqueue(j) PROVE TypeOK'
  BY <1>1 DEF Enqueue, TypeOK, Statuses, sweepVars
<1>2. ASSUME NEW j \in Jobs, Dispatch(j) PROVE TypeOK'
  BY <1>2 DEF Dispatch, TypeOK, rowVars, sweepVars, Min2
<1>3. ASSUME NEW j \in Jobs, DispatchLost(j) PROVE TypeOK'
  BY <1>3 DEF DispatchLost, TypeOK, rowVars, sweepVars
<1>4. ASSUME NEW j \in Jobs, Cancel(j) PROVE TypeOK'
  BY <1>4 DEF Cancel, TypeOK, queueVars, sweepVars, Statuses, Terminal
<1>5. ASSUME NEW j \in Jobs, LoseMessage(j) PROVE TypeOK'
  BY <1>5 DEF LoseMessage, TypeOK, rowVars, sweepVars
<1>6. CASE Tick
  BY <1>6 DEF Tick, TypeOK, queueVars, Older, Min2
<1>7. ASSUME NEW w \in Workers, NEW j \in Jobs, Claim(w, j) PROVE TypeOK'
  BY <1>7 DEF Claim, TypeOK, sweepVars, Statuses, NextAttempt
<1>8. ASSUME NEW w \in Workers, NEW j \in Jobs, ClaimRefused(w, j) PROVE TypeOK'
  BY <1>8 DEF ClaimRefused, TypeOK, rowVars, sweepVars
<1>9. ASSUME NEW w \in Workers, NEW p \in -1 .. Full + 1, ReportProgress(w, p)
      PROVE  TypeOK'
  <2>1. Clamp(p) \in 0 .. Full
    BY DEF Clamp, Min2, Max2
  <2> QED
    BY <1>9, <2>1 DEF ReportProgress, TypeOK, queueVars, sweepVars,
                      BusyHoldsAttempt
<1>10. ASSUME NEW w \in Workers, NEW final \in {"DONE", "FAILED"}, Finish(w, final)
       PROVE  TypeOK'
  <2> DEFINE j == worker[w].job
             a == worker[w].attempt
  <2>1. j \in Jobs /\ a \in Nat
    BY <1>10 DEF Finish, BusyHoldsAttempt, TypeOK
  <2>2. told' \in [Jobs -> SUBSET (Terminal \X Nat)]
    <3>1. <<final, a>> \in Terminal \X Nat
      BY <2>1 DEF Terminal
    <3> QED
      BY <1>10, <2>1, <3>1 DEF Finish, TypeOK
  <2>3. /\ status' \in [Jobs -> Statuses \cup {"absent"}]
        /\ result' \in [Jobs -> Nat]
        /\ progress' \in [Jobs -> 0 .. Full]
        /\ payload' \in [Jobs -> BOOLEAN]
        /\ updatedAge' \in [Jobs -> 0 .. OlderThan + 1]
    BY <1>10, <2>1 DEF Finish, TypeOK, Statuses
  <2>4. worker' \in [Workers -> [job : Jobs \cup {NoJob}, attempt : Nat]]
    BY <1>10 DEF Finish, TypeOK, Idle
  <2> QED
    BY <1>10, <2>2, <2>3, <2>4 DEF Finish, TypeOK, queueVars, sweepVars
<1>11. ASSUME NEW w \in Workers, FinishRefused(w) \/ NoticeCancelled(w) \/ Crash(w)
       PROVE  TypeOK'
  BY <1>11 DEF FinishRefused, NoticeCancelled, Crash, TypeOK, Idle, rowVars,
               queueVars, sweepVars
<1>12. CASE ReclaimStale
  <2>1. \A j \in Jobs : <<"FAILED", 0>> \in Terminal \X Nat
    BY DEF Terminal
  <2>2. told' \in [Jobs -> SUBSET (Terminal \X Nat)]
    BY <1>12, <2>1 DEF ReclaimStale, TypeOK
  <2>3. Requeued \in SUBSET Jobs
    BY DEF Requeued, Stale
  <2>4. payload' \in [Jobs -> BOOLEAN]
    BY <1>12 DEF ReclaimStale, TypeOK
  <2> QED
    BY <1>12, <2>2, <2>3, <2>4 DEF ReclaimStale, TypeOK, Statuses, sweepVars
<1>13. ASSUME NEW s \in Sweepers, RedispatchSelect(s) PROVE TypeOK'
  BY <1>13 DEF RedispatchSelect, Waiting, TypeOK, rowVars, queueVars
<1>14. ASSUME NEW s \in Sweepers, NEW j \in Jobs, RedispatchSend(s, j) PROVE TypeOK'
  BY <1>14 DEF RedispatchSend, TypeOK, rowVars, Min2
<1>15. ASSUME NEW s \in Sweepers, RedispatchTouch(s) PROVE TypeOK'
  BY <1>15 DEF RedispatchTouch, TypeOK, queueVars
<1>16. ASSUME NEW s \in Sweepers, RedispatchAbort(s) PROVE TypeOK'
  BY <1>16 DEF RedispatchAbort, TypeOK, rowVars, queueVars
<1>17. CASE UNCHANGED vars
  BY <1>17 DEF vars, rowVars, queueVars, sweepVars, TypeOK
<1> QED
  BY <1>1, <1>2, <1>3, <1>4, <1>5, <1>6, <1>7, <1>8, <1>9, <1>10, <1>11,
     <1>12, <1>13, <1>14, <1>15, <1>16, <1>17
     DEF Next, CallerNext, WorkerNext, Succeed, Fail, SweepNext

(* The only steps that move a row are the ones of the store: the others    *)
(* leave every column the safety invariants read as it was.                *)
Bystander ==
    UNCHANGED <<status, attempts, progress, result, told>>

LEMMA NextIInv == IInv /\ [Next]_vars => IInv'
<1> SUFFICES ASSUME IInv, [Next]_vars PROVE IInv'
  OBVIOUS
<1> USE JobsAssumption
<1>0. TypeOK' /\ TypeOK
  BY NextTypeOK DEF IInv
<1> DEFINE Safe == /\ AttemptsWithinBudget /\ QueuedHasBudget /\ BusyHoldsAttempt
                   /\ AttemptsAreDistinct /\ OneOutcome /\ ResultMatchesOutcome
<1> SUFFICES Safe'
  BY <1>0 DEF IInv
<1>s. Safe
  BY DEF IInv
<1>1. ASSUME NEW j \in Jobs, Enqueue(j) PROVE Safe'
  <2> USE <1>1, <1>0, <1>s DEF Enqueue
  <2>1. AttemptsWithinBudget' /\ QueuedHasBudget'
    BY BudgetType DEF AttemptsWithinBudget, QueuedHasBudget, Budget, TypeOK
  <2>2. BusyHoldsAttempt' /\ AttemptsAreDistinct'
    BY DEF BusyHoldsAttempt, AttemptsAreDistinct, Busy, TypeOK
  <2>3. OneOutcome' /\ ResultMatchesOutcome'
    BY DEF OneOutcome, ResultMatchesOutcome, Terminal, TypeOK
  <2> QED
    BY <2>1, <2>2, <2>3
<1>2. ASSUME Bystander, \/ UNCHANGED worker
                        \/ \E w \in Workers : worker' = [worker EXCEPT ![w] = Idle]
      PROVE  Safe'
  <2>1. AttemptsWithinBudget' /\ QueuedHasBudget'
    BY <1>2, <1>s DEF Bystander, AttemptsWithinBudget, QueuedHasBudget, Budget
  <2>2. BusyHoldsAttempt' /\ AttemptsAreDistinct'
    BY <1>0, <1>2, <1>s
       DEF Bystander, BusyHoldsAttempt, AttemptsAreDistinct, Busy, TypeOK
  <2>3. OneOutcome' /\ ResultMatchesOutcome'
    BY <1>2, <1>s DEF Bystander, OneOutcome, ResultMatchesOutcome
  <2> QED
    BY <2>1, <2>2, <2>3
<1>3. ASSUME NEW j \in Jobs, Cancel(j) PROVE Safe'
  <2> USE <1>3, <1>0, <1>s DEF Cancel
  <2>1. AttemptsWithinBudget' /\ QueuedHasBudget'
    BY BudgetType DEF AttemptsWithinBudget, QueuedHasBudget, Budget, TypeOK
  <2>2. BusyHoldsAttempt' /\ AttemptsAreDistinct'
    <3>1. /\ attempts' = attempts /\ worker' = worker
          /\ \A k \in Jobs : status'[k] = "absent" => status[k] = "absent"
      BY DEF Cancellable, TypeOK
    <3> QED
      BY <3>1 DEF BusyHoldsAttempt, AttemptsAreDistinct, Busy
  <2>3. told[j] = {}
    BY DEF OneOutcome, Terminal, Cancellable
  <2>4. OneOutcome'
    BY <2>3 DEF OneOutcome, Terminal, TypeOK
  <2>5. ResultMatchesOutcome'
    BY <2>3 DEF ResultMatchesOutcome, TypeOK, Cancellable
  <2> QED
    BY <2>1, <2>2, <2>4, <2>5
<1>4. ASSUME NEW w \in Workers, NEW j \in Jobs, Claim(w, j) PROVE Safe'
  <2> USE <1>4, <1>0, <1>s DEF Claim, NextAttempt
  <2>1. AttemptsWithinBudget' /\ QueuedHasBudget'
    BY BudgetType DEF AttemptsWithinBudget, QueuedHasBudget, Budget, TypeOK
  <2>2. BusyHoldsAttempt'
    BY DEF BusyHoldsAttempt, Busy, TypeOK
  <2>3. AttemptsAreDistinct'
    <3>1. \A v \in Workers : v # w => worker'[v] = worker[v]
      BY DEF TypeOK
    <3>2. worker'[w] = [job |-> j, attempt |-> attempts[j] + 1]
      BY DEF TypeOK
    <3>3. \A v \in Workers : Busy(v) => worker[v].attempt \in 1 .. attempts[worker[v].job]
      BY DEF AttemptsAreDistinct
    <3>4. \A v \in Workers : worker[v] # worker'[w]
      <4> SUFFICES ASSUME NEW v \in Workers, worker[v] = worker'[w] PROVE FALSE
        OBVIOUS
      <4>1. worker[v].job = j /\ worker[v].attempt = attempts[j] + 1
        BY <3>2
      <4>2. Busy(v)
        BY <4>1 DEF Busy, Idle
      <4> QED
        BY <4>1, <4>2, <3>3 DEF TypeOK
    <3>5. \A v \in Workers : Busy(v)' => worker'[v].attempt \in 1 .. attempts'[worker'[v].job]
      <4> TAKE v \in Workers
      <4>1. CASE v = w
        BY <4>1, <3>2 DEF TypeOK
      <4>2. CASE v # w
        <5> HAVE Busy(v)'
        <5>1. Busy(v) /\ worker[v].job \in Jobs
          BY <4>2, <3>1 DEF Busy, BusyHoldsAttempt
        <5>2. attempts[worker[v].job] <= attempts'[worker[v].job]
          BY <5>1 DEF TypeOK
        <5> QED
          BY <4>2, <5>1, <5>2, <3>1, <3>3 DEF TypeOK
      <4> QED
        BY <4>1, <4>2
    <3>6. \A u, v \in Workers : (u # v /\ Busy(u)') => worker'[u] # worker'[v]
      BY <3>1, <3>4 DEF AttemptsAreDistinct, Busy
    <3> QED
      BY <3>5, <3>6 DEF AttemptsAreDistinct
  <2>4. OneOutcome' /\ ResultMatchesOutcome'
    BY DEF OneOutcome, ResultMatchesOutcome, Terminal, TypeOK
  <2> QED
    BY <2>1, <2>2, <2>3, <2>4
<1>5. ASSUME NEW w \in Workers, NEW p \in -1 .. Full + 1, ReportProgress(w, p)
      PROVE  Safe'
  <2> USE <1>5, <1>0, <1>s DEF ReportProgress, queueVars, sweepVars
  <2>1. AttemptsWithinBudget' /\ QueuedHasBudget'
    BY DEF AttemptsWithinBudget, QueuedHasBudget, Budget
  <2>2. BusyHoldsAttempt' /\ AttemptsAreDistinct'
    BY DEF BusyHoldsAttempt, AttemptsAreDistinct, Busy
  <2>3. OneOutcome' /\ ResultMatchesOutcome'
    BY DEF OneOutcome, ResultMatchesOutcome
  <2> QED
    BY <2>1, <2>2, <2>3
<1>6. ASSUME NEW w \in Workers, NEW final \in {"DONE", "FAILED"}, Finish(w, final)
      PROVE  Safe'
  <2> DEFINE j == worker[w].job
             a == worker[w].attempt
  <2>1. j \in Jobs /\ a \in 1 .. attempts[j]
    BY <1>6, <1>s DEF Finish, BusyHoldsAttempt, AttemptsAreDistinct
  <2>2. told[j] = {} /\ status[j] \notin Terminal
    BY <1>6, <1>s, <2>1 DEF Finish, Closable, OneOutcome
  <2>3. AttemptsWithinBudget' /\ QueuedHasBudget'
    BY <1>6, <1>0, <1>s, <2>1
       DEF Finish, AttemptsWithinBudget, QueuedHasBudget, Budget, TypeOK
  <2>4. BusyHoldsAttempt' /\ AttemptsAreDistinct'
    BY <1>6, <1>0, <1>s, <2>1
       DEF Finish, BusyHoldsAttempt, AttemptsAreDistinct, Busy, TypeOK
  <2>5. OneOutcome'
    <3>1. status'[j] = final /\ told'[j] = {<<final, a>>}
      BY <1>6, <1>0, <2>1, <2>2 DEF Finish, TypeOK
    <3>2. \A i \in Jobs : i # j => status'[i] = status[i] /\ told'[i] = told[i]
      BY <1>6, <1>0, <2>1 DEF Finish, TypeOK
    <3>3. ASSUME NEW i \in Jobs
          PROVE  /\ status'[i] \in Terminal <=> told'[i] # {}
                 /\ \A t \in told'[i] : t[1] = status'[i]
                 /\ \A t, u \in told'[i] : t = u
      <4>1. CASE i = j
        <5>1. \A t \in told'[i] : t = <<final, a>> /\ t[1] = final
          BY <3>1, <4>1
        <5>2. told'[i] # {} /\ status'[i] = final /\ final \in Terminal
          BY <3>1, <4>1 DEF Terminal
        <5> HIDE DEF j, a
        <5> QED
          BY <5>1, <5>2
      <4>2. CASE i # j
        BY <1>s, <3>2, <4>2 DEF OneOutcome
      <4> QED
        BY <4>1, <4>2
    <3> QED
      BY <3>3 DEF OneOutcome
  <2>6. ResultMatchesOutcome'
    BY <1>6, <1>0, <1>s, <2>1, <2>2
       DEF Finish, ResultMatchesOutcome, Terminal, TypeOK
  <2> QED
    BY <2>3, <2>4, <2>5, <2>6
<1>7. CASE ReclaimStale
  <2> USE <1>7, <1>0, <1>s DEF ReclaimStale
  <2>1. \A j \in Jobs : /\ j \in GivenUp => status[j] = "RUNNING"
                        /\ j \in Requeued => /\ status[j] = "RUNNING"
                                              /\ attempts[j] < MaxAttempts[j]
                                              /\ j \notin GivenUp
    BY DEF GivenUp, Requeued, Stale, Spent, TypeOK
  <2>2. AttemptsWithinBudget' /\ QueuedHasBudget'
    BY <2>1, BudgetType
       DEF AttemptsWithinBudget, QueuedHasBudget, Budget, TypeOK
  <2>3. BusyHoldsAttempt' /\ AttemptsAreDistinct'
    BY <2>1 DEF BusyHoldsAttempt, AttemptsAreDistinct, Busy, TypeOK
  <2>4. \A j \in Jobs : j \in GivenUp => told'[j] = {<<"FAILED", 0>>}
    BY <2>1 DEF OneOutcome, Terminal
  <2>5. \A j \in Jobs : j \notin GivenUp => told'[j] = told[j]
    OBVIOUS
  <2>6. OneOutcome'
    <3> SUFFICES ASSUME NEW j \in Jobs
                 PROVE  /\ status'[j] \in Terminal <=> told'[j] # {}
                        /\ \A t \in told'[j] : t[1] = status'[j]
                        /\ \A t, u \in told'[j] : t = u
      BY DEF OneOutcome
    <3>1. CASE j \in GivenUp
      <4>1. status'[j] = "FAILED" /\ told'[j] = {<<"FAILED", 0>>}
        BY <2>4, <3>1
      <4>2. status'[j] \in Terminal /\ told'[j] # {}
        BY <4>1 DEF Terminal
      <4>3. \A t \in told'[j] : t = <<"FAILED", 0>>
        BY <4>1
      <4> QED
        BY <4>1, <4>2, <4>3, <<"FAILED", 0>>[1] = "FAILED"
    <3>2. CASE j \in Requeued
      <4>1. status'[j] = "QUEUED" /\ told'[j] = told[j] /\ status[j] = "RUNNING"
        BY <2>1, <3>2
      <4> QED
        BY <4>1 DEF OneOutcome, Terminal
    <3>3. CASE j \notin GivenUp \cup Requeued
      <4>1. status'[j] = status[j] /\ told'[j] = told[j]
        BY <3>3
      <4> QED
        BY <4>1 DEF OneOutcome
    <3> QED
      BY <3>1, <3>2, <3>3
  <2>7. ResultMatchesOutcome'
    <3> SUFFICES ASSUME NEW j \in Jobs
                 PROVE  IF status'[j] = "DONE"
                        THEN /\ told'[j] = {<<"DONE", result'[j]>>}
                             /\ result'[j] \in 1 .. attempts'[j]
                        ELSE result'[j] = 0
      BY DEF ResultMatchesOutcome
    <3>1. CASE j \in GivenUp \cup Requeued
      <4>1. status[j] # "DONE" /\ status'[j] # "DONE"
        BY <2>1, <3>1
      <4> QED
        BY <4>1 DEF ResultMatchesOutcome
    <3>2. CASE j \notin GivenUp \cup Requeued
      <4>1. status'[j] = status[j] /\ told'[j] = told[j]
        BY <3>2
      <4> QED
        BY <4>1 DEF ResultMatchesOutcome
    <3> QED
      BY <3>1, <3>2
  <2> QED
    BY <2>2, <2>3, <2>6, <2>7
<1>8. ASSUME NEW j \in Jobs, Dispatch(j) \/ DispatchLost(j) \/ LoseMessage(j)
      PROVE  Safe'
  BY <1>8, <1>2 DEF Dispatch, DispatchLost, LoseMessage, Bystander, rowVars
<1>9. CASE Tick
  BY <1>9, <1>2 DEF Tick, Bystander
<1>10. ASSUME NEW w \in Workers, NEW j \in Jobs, ClaimRefused(w, j) PROVE Safe'
  BY <1>10, <1>2 DEF ClaimRefused, Bystander, rowVars
<1>11. ASSUME NEW w \in Workers, FinishRefused(w) \/ NoticeCancelled(w) \/ Crash(w)
       PROVE  Safe'
  BY <1>11, <1>2 DEF FinishRefused, NoticeCancelled, Crash, Bystander, rowVars
<1>12. ASSUME NEW s \in Sweepers,
              \/ RedispatchSelect(s)
              \/ \E j \in Jobs : RedispatchSend(s, j)
              \/ RedispatchTouch(s)
              \/ RedispatchAbort(s)
       PROVE  Safe'
  BY <1>12, <1>2 DEF RedispatchSelect, RedispatchSend, RedispatchTouch,
                     RedispatchAbort, Bystander, rowVars
<1>13. CASE UNCHANGED vars
  BY <1>13, <1>2 DEF vars, rowVars, Bystander
<1> HIDE DEF Safe
<1> QED
  BY <1>1, <1>3, <1>4, <1>5, <1>6, <1>7, <1>8, <1>9, <1>10, <1>11, <1>12, <1>13
     DEF Next, CallerNext, WorkerNext, Succeed, Fail, SweepNext

(* The specification keeps the inductive invariant.                        *)
THEOREM JobsInvariant == Spec => []IInv
  BY InitIInv, NextIInv, PTL DEF Spec

(* JobStore never lets a row be claimed more often than its budget, for    *)
(* any number of rows, workers and sweeps.                                 *)
THEOREM JobsBudget == Spec => []AttemptsWithinBudget
<1>1. IInv => AttemptsWithinBudget
  BY DEF IInv
<1> QED
  BY <1>1, JobsInvariant, PTL

(* Of all succeed, fail, cancel and give-up calls on a row, one is told it *)
(* closed the row, and the row says what that caller was told.             *)
THEOREM JobsOneOutcome == Spec => []OneOutcome
<1>1. IInv => OneOutcome
  BY DEF IInv
<1> QED
  BY <1>1, JobsInvariant, PTL

(* JobStore implements the lifecycle: every step of the store, its         *)
(* workers, its sweeps and the queue advances each job along JobLifecycle  *)
(* or leaves it where it was.                                              *)
THEOREM JobsImplementLifecycle == Spec => ImplementsLifecycle
<1> USE JobsAssumption
<1>1. Init => Lifecycle!LInit
  BY DEF Init, Lifecycle!LInit, OutcomeOf
<1>2. IInv /\ IInv' /\ [Next]_vars => [Lifecycle!LNext]_(Lifecycle!lifecycle)
  <2> SUFFICES ASSUME IInv, IInv', [Next]_vars
               PROVE  [Lifecycle!LNext]_(Lifecycle!lifecycle)
    OBVIOUS
  <2> DEFINE Advance(j) == \/ Lifecycle!Submit(j) \/ Lifecycle!Start(j)
                           \/ Lifecycle!Close(j)  \/ Lifecycle!Wait(j)
  <2>0. TypeOK /\ TypeOK' /\ QueuedHasBudget
    BY DEF IInv
  <2>1. ASSUME \A j \in Jobs : Advance(j) PROVE Lifecycle!LNext
    <3>1. attempts' \in [Jobs -> Nat]
      BY <2>0 DEF TypeOK
    <3>2. [j \in Jobs |-> OutcomeOf(j)]' \in [Jobs -> Lifecycle!Outcomes \cup {"none", "open"}]
      BY <2>0 DEF TypeOK, OutcomeOf, Lifecycle!Outcomes, Statuses, Cancellable
    <3> QED
      BY <2>1, <3>1, <3>2 DEF Lifecycle!LNext
  <2> USE DEF OutcomeOf, Cancellable, Lifecycle!Submit, Lifecycle!Start,
              Lifecycle!Close, Lifecycle!Wait, Lifecycle!Outcomes
  <2>2. ASSUME NEW j \in Jobs, Enqueue(j) PROVE \A i \in Jobs : Advance(i)
    BY <2>2, <2>0 DEF Enqueue, TypeOK
  <2>3. ASSUME NEW j \in Jobs, Cancel(j) PROVE \A i \in Jobs : Advance(i)
    BY <2>3, <2>0 DEF Cancel, TypeOK
  <2>4. ASSUME NEW w \in Workers, NEW j \in Jobs, Claim(w, j)
        PROVE  \A i \in Jobs : Advance(i)
    BY <2>4, <2>0 DEF Claim, NextAttempt, QueuedHasBudget, TypeOK
  <2>5. ASSUME NEW w \in Workers, NEW final \in {"DONE", "FAILED"}, Finish(w, final)
        PROVE  \A i \in Jobs : Advance(i)
    <3>1. worker[w].job \in Jobs /\ status[worker[w].job] \in {"QUEUED", "RUNNING"}
      BY <2>5, <2>0 DEF Finish, Closable, IInv, BusyHoldsAttempt, TypeOK,
                        Statuses, Terminal
    <3> QED
      BY <2>5, <2>0, <3>1 DEF Finish, TypeOK
  <2>6. CASE ReclaimStale
    <3>1. \A i \in Jobs : /\ i \in GivenUp \cup Requeued => status[i] = "RUNNING"
                          /\ i \in Requeued => i \notin GivenUp
      BY DEF GivenUp, Requeued, Stale
    <3>2. \A i \in Jobs : Advance(i)
      BY <2>6, <2>0, <3>1 DEF ReclaimStale, TypeOK
    <3> QED
      BY <2>1, <3>2
  <2>7. CASE UNCHANGED <<status, attempts>>
    BY <2>7 DEF Lifecycle!lifecycle
  <2>8. ASSUME NEW w \in Workers
        PROVE  \/ \E p \in -1 .. Full + 1 : ReportProgress(w, p)
               \/ \E j \in Jobs : ClaimRefused(w, j)
               \/ FinishRefused(w) \/ NoticeCancelled(w) \/ Crash(w)
               => UNCHANGED <<status, attempts>>
    BY DEF ReportProgress, ClaimRefused, FinishRefused, NoticeCancelled, Crash,
           rowVars
  <2>9. ASSUME NEW j \in Jobs
        PROVE  Dispatch(j) \/ DispatchLost(j) \/ LoseMessage(j)
               => UNCHANGED <<status, attempts>>
    BY DEF Dispatch, DispatchLost, LoseMessage, rowVars
  <2>10. ASSUME NEW s \in Sweepers
         PROVE  \/ RedispatchSelect(s)
                \/ \E j \in Jobs : RedispatchSend(s, j)
                \/ RedispatchTouch(s) \/ RedispatchAbort(s)
                => UNCHANGED <<status, attempts>>
    BY DEF RedispatchSelect, RedispatchSend, RedispatchTouch, RedispatchAbort,
           rowVars
  <2>11. Tick \/ UNCHANGED vars => UNCHANGED <<status, attempts>>
    BY DEF Tick, vars, rowVars
  <2> HIDE DEF Advance
  <2> QED
    BY <2>1, <2>2, <2>3, <2>4, <2>5, <2>6, <2>7, <2>8, <2>9, <2>10, <2>11
       DEF Next, CallerNext, WorkerNext, Succeed, Fail, SweepNext
<1> QED
  BY <1>1, <1>2, JobsInvariant, PTL DEF Spec, ImplementsLifecycle, Lifecycle!LSpec

(* A DONE row points at what the worker that was told DONE produced, and   *)
(* no other row points at a result, for any number of rival attempts.      *)
THEOREM JobsResult == Spec => []ResultMatchesOutcome
  BY JobsInvariant, PTL DEF IInv

(* No step of any actor rewrites the status, the result or the payload of  *)
(* a terminal row.                                                         *)
THEOREM JobsTerminalIsFinal == Spec => TerminalIsFinal
<1> DEFINE Final == \A j \in Jobs :
      status[j] \in Terminal => UNCHANGED <<status[j], result[j], payload[j]>>
<1>1. ASSUME IInv, [Next]_vars PROVE Final
  <2> USE <1>1 DEF IInv, Terminal
  <2>1. TypeOK
    OBVIOUS
  <2>2. ASSUME NEW i \in Jobs, Enqueue(i) \/ Cancel(i) PROVE Final
    BY <2>1, <2>2 DEF Enqueue, Cancel, Cancellable, TypeOK
  <2>3. ASSUME NEW w \in Workers, NEW i \in Jobs, Claim(w, i) PROVE Final
    BY <2>1, <2>3 DEF Claim, TypeOK
  <2>4. ASSUME NEW w \in Workers, NEW f, Finish(w, f) PROVE Final
    BY <2>1, <2>4 DEF Finish, Closable, TypeOK
  <2>5. ASSUME ReclaimStale PROVE Final
    BY <2>1, <2>5 DEF ReclaimStale, GivenUp, Requeued, Stale, TypeOK
  <2>6. ASSUME UNCHANGED <<status, result, payload>> PROVE Final
    BY <2>6
  <2> HIDE DEF Final
  <2>7. ASSUME NEW i \in Jobs, Dispatch(i) \/ DispatchLost(i) \/ LoseMessage(i)
        PROVE  Final
    BY <2>6, <2>7 DEF Dispatch, DispatchLost, LoseMessage, rowVars
  <2>8. ASSUME NEW w \in Workers,
               \/ \E i \in Jobs : ClaimRefused(w, i)
               \/ \E p \in -1 .. Full + 1 : ReportProgress(w, p)
               \/ FinishRefused(w) \/ NoticeCancelled(w) \/ Crash(w)
        PROVE  Final
    BY <2>6, <2>8 DEF ClaimRefused, ReportProgress, FinishRefused, NoticeCancelled,
                      Crash, rowVars
  <2>9. ASSUME NEW s \in Sweepers,
               \/ RedispatchSelect(s) \/ RedispatchTouch(s) \/ RedispatchAbort(s)
               \/ \E i \in Jobs : RedispatchSend(s, i)
        PROVE  Final
    BY <2>6, <2>9 DEF RedispatchSelect, RedispatchTouch, RedispatchAbort,
                      RedispatchSend, rowVars
  <2>10. CASE Tick \/ UNCHANGED vars
    BY <2>6, <2>10 DEF Tick, vars, rowVars
  <2> QED
    BY <2>2, <2>3, <2>4, <2>5, <2>7, <2>8, <2>9, <2>10
       DEF Next, CallerNext, WorkerNext, Succeed, Fail, SweepNext
<1> QED
  BY <1>1, JobsInvariant, PTL DEF Spec, TerminalIsFinal

(* The progress of a row never decreases, across reports that arrive out   *)
(* of order, rival attempts, sweeps and closings.                          *)
THEOREM JobsProgress == Spec => ProgressNeverGoesBack
<1> DEFINE Forward == \A j \in Jobs : progress'[j] >= progress[j]
<1>1. ASSUME IInv, [Next]_vars PROVE Forward
  <2>1. TypeOK
    BY <1>1 DEF IInv
  <2>2. ASSUME UNCHANGED progress PROVE Forward
    BY <2>1, <2>2 DEF TypeOK
  <2>3. ASSUME NEW w \in Workers, NEW p \in -1 .. Full + 1, ReportProgress(w, p)
        PROVE  Forward
    BY <2>1, <2>3, JobsAssumption
       DEF ReportProgress, Advances, Clamp, Min2, Max2, TypeOK
  <2>4. ASSUME NEW w \in Workers, NEW f, Finish(w, f) PROVE Forward
    BY <2>1, <2>4, JobsAssumption DEF Finish, TypeOK
  <2> HIDE DEF Forward
  <2>5. CASE CallerNext \/ ReclaimStale \/ Tick \/ UNCHANGED vars
    BY <2>2, <2>5 DEF CallerNext, Enqueue, Dispatch, DispatchLost, Cancel,
                      ReclaimStale, Tick, vars, rowVars
  <2>6. ASSUME NEW w \in Workers,
               \/ \E i \in Jobs : Claim(w, i) \/ ClaimRefused(w, i)
               \/ FinishRefused(w) \/ NoticeCancelled(w) \/ Crash(w)
        PROVE  Forward
    BY <2>2, <2>6 DEF Claim, ClaimRefused, FinishRefused, NoticeCancelled, Crash,
                      rowVars
  <2>7. ASSUME NEW s \in Sweepers,
               \/ RedispatchSelect(s) \/ RedispatchTouch(s) \/ RedispatchAbort(s)
               \/ \E i \in Jobs : RedispatchSend(s, i)
        PROVE  Forward
    BY <2>2, <2>7 DEF RedispatchSelect, RedispatchTouch, RedispatchAbort,
                      RedispatchSend, rowVars
  <2>8. ASSUME NEW i \in Jobs, LoseMessage(i) PROVE Forward
    BY <2>2, <2>8 DEF LoseMessage, rowVars
  <2> QED
    BY <1>1, <2>3, <2>4, <2>5, <2>6, <2>7, <2>8 DEF Next, WorkerNext, Succeed, Fail, SweepNext
<1> QED
  BY <1>1, JobsInvariant, PTL DEF Spec, ProgressNeverGoesBack

(* Every variable stays in its domain: percentages, ages, outcomes told.   *)
THEOREM JobsTyped == Spec => []TypeOK
<1>1. IInv => TypeOK
  BY DEF IInv
<1> QED
  BY <1>1, JobsInvariant, PTL
=============================================================================
