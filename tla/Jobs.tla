-------------------------------- MODULE Jobs --------------------------------
(***************************************************************************)
(* tasks/jobs.py: `JobStore`, the durable record of background work, with  *)
(* the actors around it.                                                   *)
(*                                                                         *)
(*   callers   enqueue a row, then send its id to the task queue (two      *)
(*             steps, the second may never happen) and may cancel it;      *)
(*   queue     carries the ids; it may lose a message or carry it twice;   *)
(*   workers   claim a row, report progress, close it, or die holding it;  *)
(*   sweepers  reclaim rows whose worker went silent and send again the    *)
(*             QUEUED rows nobody touched for a while.                     *)
(*                                                                         *)
(* Every store method is one transaction around conditional UPDATEs, so    *)
(* one method is one action; `redispatch_queued`, which holds no session   *)
(* while it dispatches, is four.  Nothing fences a worker whose row was    *)
(* reclaimed: it keeps running next to its successor and may still report  *)
(* progress and close the row.                                             *)
(*                                                                         *)
(* Timestamps are ages that saturate one unit past the cutoff they are     *)
(* compared with.  The row's `kind`, `params`, `stage` and `error` are     *)
(* not modelled: no guard reads them.                                      *)
(***************************************************************************)
EXTENDS Integers, FiniteSets

CONSTANTS
    Jobs,           \* ids of the rows that may be enqueued
    Workers,        \* task-worker slots
    Sweepers,       \* processes running the scheduled `redispatch_queued`
    NoJob,          \* not an element of Jobs
    MaxAttempts,    \* MaxAttempts[j] is the `max_attempts` column of row j
    StaleAfter,     \* `stale_after`, in clock units
    OlderThan,      \* `older_than`, in clock units
    Limit,          \* `limit` of `redispatch_queued`
    Full,           \* the progress fraction 1.0, in units of progress
    MaxMessages     \* bound: copies of one id in the queue at a time

ASSUME JobsAssumption ==
    /\ NoJob \notin Jobs
    /\ MaxAttempts \in [Jobs -> Nat]
    /\ StaleAfter \in Nat
    /\ OlderThan \in Nat
    /\ Limit \in Nat \ {0}
    /\ Full \in Nat \ {0}
    /\ MaxMessages \in Nat \ {0}

VARIABLES
    status,         \* status column; "absent" before `enqueue`
    attempts,       \* attempts column
    progress,       \* progress column, 0 .. Full
    payload,        \* whether the payload column is not NULL
    result,         \* result_id: the attempt that produced it, 0 for NULL
    startedAge,     \* now - started_at
    updatedAge,     \* now - updated_at
    messages,       \* copies of the id in the task queue
    unsent,         \* ids a caller read back and has still to send
    worker,         \* what each worker is running: job and attempt
    candidates,     \* rows a sweep selected and has still to send
    touching,       \* row a sweep has sent and has still to touch
    told            \* history: outcomes some caller was told it wrote

rowVars   == <<status, attempts, progress, payload, result, startedAge,
               updatedAge>>
queueVars == <<messages, unsent>>
sweepVars == <<candidates, touching>>
vars      == <<rowVars, queueVars, worker, sweepVars, told>>

Min2(a, b) == IF a <= b THEN a ELSE b
Max2(a, b) == IF a >= b THEN a ELSE b

Statuses == {"QUEUED", "RUNNING", "DONE", "FAILED", "CANCELLED"}
Terminal == {"DONE", "FAILED", "CANCELLED"}

Cancellable       == {"QUEUED", "RUNNING"}

Idle == [job |-> NoJob, attempt |-> 0]
Busy(w) == worker[w] # Idle

(* The most claims a row can see.  `claim` does not read `max_attempts`,   *)
(* so a row enqueued with a budget of 0 is still claimed once.             *)
Budget(j) == Max2(1, MaxAttempts[j])

(* What the conditional UPDATEs test and write.  Each definition marked    *)
(* "mutant" is a slip the properties below must notice.                    *)

\* claim: attempts = attempts + 1
NextAttempt(j)      == attempts[j] + 1

\* report_progress: value = min(max(progress, 0.0), 1.0)
ClampBelow(p) == Max2(p, 0)                             \* mutant
Clamp(p)      == Min2(Max2(p, 0), Full)

\* report_progress: WHERE progress < value
Advances(j, value)     == progress[j] < value

\* _finish: WHERE status NOT IN terminal
ClosableFailed(j)    == status[j] \notin {"DONE", "CANCELLED"}   \* mutant
Closable(j)          == status[j] \notin Terminal

\* reclaim_stale: WHERE status = RUNNING AND started_at < cutoff ...
Stale == {j \in Jobs : status[j] = "RUNNING" /\ startedAge[j] > StaleAfter}

\* ... AND attempts >= max_attempts, or AND attempts < max_attempts
SpentLate == {j \in Jobs : attempts[j] > MaxAttempts[j]}   \* mutant
Spent     == {j \in Jobs : attempts[j] >= MaxAttempts[j]}
GivenUp   == Stale \cap Spent
Requeued  == Stale \ Spent

\* redispatch_queued: WHERE status = QUEUED AND updated_at < cutoff
WaitingNew == {j \in Jobs : /\ status[j] = "QUEUED" /\ attempts[j] = 0
                            /\ updatedAge[j] > OlderThan}     \* mutant
Waiting    == {j \in Jobs : status[j] = "QUEUED" /\ updatedAge[j] > OlderThan}

-----------------------------------------------------------------------------

Init ==
    /\ status     = [j \in Jobs |-> "absent"]
    /\ attempts   = [j \in Jobs |-> 0]
    /\ progress   = [j \in Jobs |-> 0]
    /\ payload    = [j \in Jobs |-> FALSE]
    /\ result     = [j \in Jobs |-> 0]
    /\ startedAge = [j \in Jobs |-> 0]
    /\ updatedAge = [j \in Jobs |-> 0]
    /\ messages   = [j \in Jobs |-> 0]
    /\ unsent     = {}
    /\ worker     = [w \in Workers |-> Idle]
    /\ candidates = [s \in Sweepers |-> {}]
    /\ touching   = [s \in Sweepers |-> NoJob]
    /\ told       = [j \in Jobs |-> {}]

-----------------------------------------------------------------------------
(* Callers.                                                                *)

(* JobStore.enqueue and BaseJobModel.new_job.                              *)
Enqueue(j) ==
    /\ status[j] = "absent"
    /\ status' = [status EXCEPT ![j] = "QUEUED"]
    /\ payload' = [payload EXCEPT ![j] = TRUE]
    /\ updatedAge' = [updatedAge EXCEPT ![j] = 0]
    /\ unsent' = unsent \cup {j}
    /\ UNCHANGED <<attempts, progress, result, startedAge, messages, worker,
                   sweepVars, told>>

(* The caller that was handed the id (by `enqueue`, or in the `requeued`   *)
(* list of `reclaim_stale`) sends it to the queue ...                      *)
Dispatch(j) ==
    /\ j \in unsent
    /\ unsent' = unsent \ {j}
    /\ messages' = [messages EXCEPT ![j] = Min2(@ + 1, MaxMessages)]
    /\ UNCHANGED <<rowVars, worker, sweepVars, told>>

(* ... or dies, or finds the broker down, before it does.                  *)
DispatchLost(j) ==
    /\ j \in unsent
    /\ unsent' = unsent \ {j}
    /\ UNCHANGED <<rowVars, messages, worker, sweepVars, told>>

(* JobStore.cancel: terminal rows answer None.                             *)
Cancel(j) ==
    /\ status[j] \in Cancellable
    /\ status' = [status EXCEPT ![j] = "CANCELLED"]
    /\ payload' = [payload EXCEPT ![j] = FALSE]
    /\ updatedAge' = [updatedAge EXCEPT ![j] = 0]
    /\ told' = [told EXCEPT ![j] = @ \cup {<<"CANCELLED", 0>>}]
    /\ UNCHANGED <<attempts, progress, result, startedAge, queueVars, worker,
                   sweepVars>>

-----------------------------------------------------------------------------
(* The queue, and the clock.                                               *)

(* The broker drops a message, or the worker that took it dies before its  *)
(* claim commits.                                                          *)
LoseMessage(j) ==
    /\ messages[j] > 0
    /\ messages' = [messages EXCEPT ![j] = @ - 1]
    /\ UNCHANGED <<rowVars, unsent, worker, sweepVars, told>>

Older(age, cutoff) == Min2(age + 1, cutoff + 1)

Tick ==
    /\ startedAge' = [j \in Jobs |-> Older(startedAge[j], StaleAfter)]
    /\ updatedAge' = [j \in Jobs |-> Older(updatedAge[j], OlderThan)]
    /\ UNCHANGED <<status, attempts, progress, payload, result, queueVars,
                   worker, candidates, touching, told>>

-----------------------------------------------------------------------------
(* Workers.                                                                *)

(* A message is taken and JobStore.claim runs; a row that is not QUEUED    *)
(* answers None and the worker drops the message.                          *)
Claim(w, j) ==
    /\ ~Busy(w)
    /\ messages[j] > 0
    /\ status[j] = "QUEUED"
    /\ messages' = [messages EXCEPT ![j] = @ - 1]
    /\ status' = [status EXCEPT ![j] = "RUNNING"]
    /\ startedAge' = [startedAge EXCEPT ![j] = 0]
    /\ updatedAge' = [updatedAge EXCEPT ![j] = 0]
    /\ attempts' = [attempts EXCEPT ![j] = NextAttempt(j)]
    /\ worker' = [worker EXCEPT ![w] = [job |-> j, attempt |-> NextAttempt(j)]]
    /\ UNCHANGED <<progress, payload, result, unsent, sweepVars, told>>

ClaimRefused(w, j) ==
    /\ ~Busy(w)
    /\ messages[j] > 0
    /\ status[j] # "QUEUED"
    /\ messages' = [messages EXCEPT ![j] = @ - 1]
    /\ UNCHANGED <<rowVars, unsent, worker, sweepVars, told>>

(* JobStore.report_progress: the fraction is clamped to [0, 1]; a row that *)
(* is not RUNNING, or is already further along, is not written.            *)
ReportProgress(w, p) ==
    LET j == worker[w].job
    IN  /\ Busy(w)
        /\ status[j] = "RUNNING"
        /\ Advances(j, Clamp(p))
        /\ progress' = [progress EXCEPT ![j] = Clamp(p)]
        /\ updatedAge' = [updatedAge EXCEPT ![j] = 0]
        /\ UNCHANGED <<status, attempts, payload, result, startedAge,
                       queueVars, worker, sweepVars, told>>

(* JobStore._finish, for `succeed` (final = "DONE") and `fail` ("FAILED"). *)
(* Any row that is not terminal yet is closed, whoever holds it: the       *)
(* statement does not name the attempt.                                    *)
Finish(w, final) ==
    LET j == worker[w].job
        a == worker[w].attempt
    IN  /\ Busy(w)
        /\ Closable(j)
        /\ status' = [status EXCEPT ![j] = final]
        /\ result' = [result EXCEPT ![j] = IF final = "DONE" THEN a ELSE 0]
        /\ payload' = [payload EXCEPT ![j] = FALSE]
        /\ progress' = [progress EXCEPT ![j] = IF final = "DONE" THEN Full ELSE @]
        /\ updatedAge' = [updatedAge EXCEPT ![j] = 0]
        /\ told' = [told EXCEPT ![j] = @ \cup {<<final, a>>}]
        /\ worker' = [worker EXCEPT ![w] = Idle]
        /\ UNCHANGED <<attempts, startedAge, queueVars, sweepVars>>

Succeed(w) == Finish(w, "DONE")
Fail(w)    == Finish(w, "FAILED")

(* _finish on a terminal row: JobCancelledError or JobAlreadyFinishedError *)
(* and nothing written.                                                    *)
FinishRefused(w) ==
    /\ Busy(w)
    /\ ~Closable(worker[w].job)
    /\ worker' = [worker EXCEPT ![w] = Idle]
    /\ UNCHANGED <<rowVars, queueVars, sweepVars, told>>

(* run_cancellable polls `is_cancelled`: the work is abandoned at the next *)
(* checkpoint after the cancel committed.                                  *)
NoticeCancelled(w) ==
    /\ Busy(w)
    /\ status[worker[w].job] = "CANCELLED"
    /\ worker' = [worker EXCEPT ![w] = Idle]
    /\ UNCHANGED <<rowVars, queueVars, sweepVars, told>>

(* The worker process dies; the row stays RUNNING with no one behind it.   *)
Crash(w) ==
    /\ Busy(w)
    /\ worker' = [worker EXCEPT ![w] = Idle]
    /\ UNCHANGED <<rowVars, queueVars, sweepVars, told>>

-----------------------------------------------------------------------------
(* Sweepers.                                                               *)

(* JobStore.reclaim_stale: two UPDATEs over disjoint conditions in one     *)
(* transaction.  The ids it requeued are in its caller's hands.            *)
ReclaimStale ==
    /\ Stale # {}
    /\ status' = [j \in Jobs |-> IF j \in GivenUp THEN "FAILED"
                               ELSE IF j \in Requeued THEN "QUEUED" ELSE status[j]]
    /\ payload' = [j \in Jobs |-> payload[j] /\ j \notin GivenUp]
    /\ startedAge' = [j \in Jobs |-> IF j \in Requeued THEN 0 ELSE startedAge[j]]
    /\ updatedAge' = [j \in Jobs |-> IF j \in Stale THEN 0 ELSE updatedAge[j]]
    /\ told' = [j \in Jobs |-> IF j \in GivenUp
                              THEN told[j] \cup {<<"FAILED", 0>>} ELSE told[j]]
    /\ unsent' = unsent \cup Requeued
    /\ UNCHANGED <<attempts, progress, result, messages, worker, sweepVars>>

(* JobStore.redispatch_queued: the candidate read is a transaction of its  *)
(* own, `limit` rows at most (oldest first: past the cutoff every age has  *)
(* saturated, so any of them) ...                                          *)
RedispatchSelect(s) ==
    /\ candidates[s] = {}
    /\ touching[s] = NoJob
    /\ \E batch \in SUBSET Waiting :
        /\ batch # {}
        /\ Cardinality(batch) = Min2(Limit, Cardinality(Waiting))
        /\ candidates' = [candidates EXCEPT ![s] = batch]
    /\ UNCHANGED <<rowVars, queueVars, worker, touching, told>>

(* ... each row is sent with no session open ...                           *)
RedispatchSend(s, j) ==
    /\ touching[s] = NoJob
    /\ j \in candidates[s]
    /\ candidates' = [candidates EXCEPT ![s] = @ \ {j}]
    /\ touching' = [touching EXCEPT ![s] = j]
    /\ messages' = [messages EXCEPT ![j] = Min2(@ + 1, MaxMessages)]
    /\ UNCHANGED <<rowVars, unsent, worker, told>>

(* ... and then touched, if it is still QUEUED.                            *)
RedispatchTouch(s) ==
    LET j == touching[s]
    IN  /\ j # NoJob
        /\ touching' = [touching EXCEPT ![s] = NoJob]
        /\ updatedAge' = IF status[j] = "QUEUED"
                         THEN [updatedAge EXCEPT ![j] = 0] ELSE updatedAge
        /\ UNCHANGED <<status, attempts, progress, payload, result, startedAge,
                       queueVars, worker, candidates, told>>

(* `dispatch` raises, or the sweeper dies: the rest of the batch is        *)
(* dropped, rows keep their age.                                           *)
RedispatchAbort(s) ==
    /\ candidates[s] # {} \/ touching[s] # NoJob
    /\ candidates' = [candidates EXCEPT ![s] = {}]
    /\ touching' = [touching EXCEPT ![s] = NoJob]
    /\ UNCHANGED <<rowVars, queueVars, worker, told>>

-----------------------------------------------------------------------------

CallerNext == \E j \in Jobs :
    Enqueue(j) \/ Dispatch(j) \/ DispatchLost(j) \/ Cancel(j)

WorkerNext == \E w \in Workers :
    \/ \E j \in Jobs : Claim(w, j) \/ ClaimRefused(w, j)
    \/ \E p \in -1 .. Full + 1 : ReportProgress(w, p)
    \/ Succeed(w)
    \/ Fail(w)
    \/ FinishRefused(w)
    \/ NoticeCancelled(w)
    \/ Crash(w)

SweepNext ==
    \/ ReclaimStale
    \/ \E s \in Sweepers :
        \/ RedispatchSelect(s)
        \/ \E j \in Jobs : RedispatchSend(s, j)
        \/ RedispatchTouch(s)
        \/ RedispatchAbort(s)

Next ==
    \/ CallerNext
    \/ WorkerNext
    \/ SweepNext
    \/ \E j \in Jobs : LoseMessage(j)
    \/ Tick

Spec == Init /\ [][Next]_vars

(* The clock runs and the scheduled sweeps keep being called; an attempt   *)
(* ends somehow (it closes the row, is refused or dies); a sweep that      *)
(* selects a row again and again does send it some time, and an id sent    *)
(* again and again does reach a claim: the broker may lose any message,    *)
(* but not every message.                                                  *)
Fairness ==
    /\ WF_vars(Tick)
    /\ WF_vars(ReclaimStale)
    /\ \A s \in Sweepers :
        /\ WF_vars(RedispatchSelect(s))
        /\ WF_vars(RedispatchTouch(s))
        /\ \A j \in Jobs : SF_vars(RedispatchSend(s, j))
    /\ \A j \in Jobs : SF_vars(\E w \in Workers : Claim(w, j))
    /\ \A w \in Workers :
        WF_vars(\/ Succeed(w) \/ Fail(w)
                \/ FinishRefused(w) \/ NoticeCancelled(w) \/ Crash(w))

FairSpec == Spec /\ Fairness

-----------------------------------------------------------------------------
(* Properties.                                                             *)

TypeOK ==
    /\ status \in [Jobs -> Statuses \cup {"absent"}]
    /\ attempts \in [Jobs -> Nat]
    /\ progress \in [Jobs -> 0 .. Full]
    /\ payload \in [Jobs -> BOOLEAN]
    /\ result \in [Jobs -> Nat]
    /\ startedAge \in [Jobs -> 0 .. StaleAfter + 1]
    /\ updatedAge \in [Jobs -> 0 .. OlderThan + 1]
    /\ messages \in [Jobs -> 0 .. MaxMessages]
    /\ unsent \in SUBSET Jobs
    /\ worker \in [Workers -> [job : Jobs \cup {NoJob}, attempt : Nat]]
    /\ candidates \in [Sweepers -> SUBSET Jobs]
    /\ touching \in [Sweepers -> Jobs \cup {NoJob}]
    /\ told \in [Jobs -> SUBSET (Terminal \X Nat)]

(* reclaim_stale ends the loop: however claims, crashes, late workers,     *)
(* duplicate messages and sweeps interleave, no row is claimed more often  *)
(* than its budget.                                                        *)
AttemptsWithinBudget == \A j \in Jobs : attempts[j] <= Budget(j)

(* claim hands out each attempt once: two workers on the same row are      *)
(* running different attempts, and none runs an attempt the row does not   *)
(* count.                                                                  *)
AttemptsAreDistinct ==
    /\ \A v, w \in Workers :
        (v # w /\ Busy(v)) => worker[v] # worker[w]
    /\ \A w \in Workers : Busy(w) =>
        worker[w].attempt \in 1 .. attempts[worker[w].job]

(* What a caller was told is what the row says: at most one of the         *)
(* succeed, fail, cancel and give-up calls racing for a row is told it     *)
(* closed it, and a row has an outcome exactly when one of them was.       *)
OneOutcome == \A j \in Jobs :
    /\ status[j] \in Terminal <=> told[j] # {}
    /\ \A t \in told[j] : t[1] = status[j]
    /\ \A t, u \in told[j] : t = u

(* A cancelled or failed row never points at a result, and a DONE row      *)
(* points at what the worker that was told so produced.                    *)
ResultMatchesOutcome == \A j \in Jobs :
    IF status[j] = "DONE"
    THEN told[j] = {<<"DONE", result[j]>>} /\ result[j] \in 1 .. attempts[j]
    ELSE result[j] = 0

(* A terminal status is final, whichever late worker, sweep or caller      *)
(* writes next.                                                            *)
TerminalIsFinal == [][\A j \in Jobs :
    status[j] \in Terminal => UNCHANGED <<status[j], result[j], payload[j]>>]_vars

(* "The bar cannot go backwards": not across ticks arriving out of order,  *)
(* nor across attempts.                                                    *)
ProgressNeverGoesBack ==
    [][\A j \in Jobs : progress'[j] >= progress[j]]_vars

(* A lost message, a dead worker or a dead sweep never strands a row: an   *)
(* enqueued job is eventually closed.                                      *)
EveryJobIsClosed == \A j \in Jobs :
    status[j] \in Cancellable ~> status[j] \in Terminal

(* The lifecycle JobLifecycle promises: a caller that reads the rows sees  *)
(* each job started at most Budget(j) times and closed once, whatever      *)
(* claims, sweeps, losses and late workers do behind it.                   *)
OutcomeOf(j) == IF status[j] = "absent" THEN "none"
                ELSE IF status[j] \in Cancellable THEN "open" ELSE status[j]

Lifecycle == INSTANCE JobLifecycle WITH
    JobIds <- Jobs, Limit <- Budget, starts <- attempts,
    outcome <- [j \in Jobs |-> OutcomeOf(j)]

ImplementsLifecycle == Lifecycle!LSpec
=============================================================================
