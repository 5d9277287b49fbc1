---------------------------- MODULE WebhookInbox ----------------------------
(***************************************************************************)
(* db/webhook_inbox.py: inbound webhook events recorded once, processed by *)
(* racing workers, retried with backoff, given up after a budget.          *)
(*                                                                         *)
(* `claim`, `record`, `reclaim_stale` and the mark at the end of `process` *)
(* are one step each: a conditional UPDATE (or INSERT ON CONFLICT) decides *)
(* and the row lock holds until the commit.  `fail` is two: its first      *)
(* UPDATE locks nothing when it matches no row, so under PostgreSQL's READ *)
(* COMMITTED other transactions commit before its second UPDATE reads the  *)
(* row again.  On SQLite the first UPDATE already holds the database's     *)
(* write lock; AtomicFail tells the two apart.                             *)
(*                                                                         *)
(* Nothing ties a claim to its worker: one whose event was reclaimed goes  *)
(* on, and its mark or its failure acts on whatever claim the row is under *)
(* by then.  The handler's own database writes commit with the mark.       *)
(***************************************************************************)
EXTENDS Integers

CONSTANTS
    Events,         \* (provider, external_id) pairs
    Workers,        \* concurrent calls of `process`, from drains or routes
    NoEvent,        \* not an element of Events
    MaxAttempts,    \* `max_attempts`
    StaleAfter,     \* `stale_after`, in clock units
    BackoffBase,    \* `backoff_base_seconds`, in clock units
    AtomicFail,     \* TRUE: no commit between the UPDATEs of `fail` (SQLite)
    MaxClaims       \* bound: claims of one event in an instance

ASSUME InboxAssumption ==
    /\ NoEvent \notin Events
    /\ MaxAttempts \in Nat \ {0}
    /\ StaleAfter \in Nat
    /\ BackoffBase \in Nat
    /\ AtomicFail \in BOOLEAN
    /\ MaxClaims \in Nat

VARIABLES
    status,         \* status column; "absent" before `record`
    attempts,       \* attempts column
    dueIn,          \* available_at - now, 0 when due
    startedAge,     \* now - started_at, saturating past the cutoff
    worker,         \* what each call of `process` is doing
    applied         \* how often the handler's writes for the event committed

rowVars == <<status, attempts, dueIn, startedAge>>
vars    == <<rowVars, worker, applied>>

Statuses == {"RECEIVED", "PROCESSING", "PROCESSED", "FAILED"}
Closed   == {"PROCESSED", "FAILED"}

Min2(a, b) == IF a <= b THEN a ELSE b
Max2(a, b) == IF a >= b THEN a ELSE b

Idle == [at |-> "idle", event |-> NoEvent]

(* `backoff_base_seconds * 2 ** max(attempts - 1, 0)`                      *)
Backoff(n) == BackoffBase * 2 ^ Max2(n - 1, 0)

(* On SQLite a `fail` past its first UPDATE keeps other writers out.       *)
MayWrite == AtomicFail => \A w \in Workers : worker[w].at # "readmitting"

(* What the conditional statements test; "mutant" marks a slip.            *)

\* record: ON CONFLICT (provider, external_id) DO NOTHING
Inserts(e) == status[e] = "absent"

\* process: WHERE status = PROCESSING when marking PROCESSED
MarkableAny(e)  == TRUE                                         \* mutant
Markable(e)     == status[e] = "PROCESSING"

\* fail and reclaim_stale: AND attempts >= max_attempts
SpentLate(e)  == attempts[e] > MaxAttempts                      \* mutant
Spent(e)      == attempts[e] >= MaxAttempts

\* fail and reclaim_stale: the status a row goes back to the queue with
ReadmittedPending == "PENDING"                                  \* mutant
Readmitted        == "RECEIVED"

\* reclaim_stale: WHERE status = PROCESSING AND started_at < cutoff
StaleNever == {}                                                \* mutant
Stale == {e \in Events : status[e] = "PROCESSING" /\ startedAge[e] > StaleAfter}

-----------------------------------------------------------------------------

Init ==
    /\ status     = [e \in Events |-> "absent"]
    /\ attempts   = [e \in Events |-> 0]
    /\ dueIn      = [e \in Events |-> 0]
    /\ startedAge = [e \in Events |-> 0]
    /\ worker     = [w \in Workers |-> Idle]
    /\ applied    = [e \in Events |-> 0]

(* record: the provider delivers, as often as it likes; only the first     *)
(* delivery of an (provider, external_id) inserts.                         *)
Record(e) ==
    /\ MayWrite
    /\ Inserts(e)
    /\ status' = [status EXCEPT ![e] = "RECEIVED"]
    /\ attempts' = [attempts EXCEPT ![e] = 0]
    /\ dueIn' = [dueIn EXCEPT ![e] = 0]
    /\ UNCHANGED <<startedAge, worker, applied>>

(* claim, the first half of `process`.                                     *)
Claim(w, e) ==
    /\ worker[w] = Idle
    /\ MayWrite
    /\ status[e] = "RECEIVED"
    /\ dueIn[e] = 0
    /\ attempts[e] < MaxClaims
    /\ status' = [status EXCEPT ![e] = "PROCESSING"]
    /\ startedAge' = [startedAge EXCEPT ![e] = 0]
    /\ attempts' = [attempts EXCEPT ![e] = @ + 1]
    /\ worker' = [worker EXCEPT ![w] = [at |-> "handling", event |-> e]]
    /\ UNCHANGED <<dueIn, applied>>

(* The handler returned: its writes and the mark commit together.          *)
Mark(w) ==
    LET e == worker[w].event
    IN  /\ worker[w].at = "handling"
        /\ MayWrite
        /\ Markable(e)
        /\ status' = [status EXCEPT ![e] = "PROCESSED"]
        /\ applied' = [applied EXCEPT ![e] = @ + 1]
        /\ worker' = [worker EXCEPT ![w] = Idle]
        /\ UNCHANGED <<attempts, dueIn, startedAge>>

(* The handler returned but the row left PROCESSING: _AlreadyFinishedError *)
(* rolls its writes back.                                                  *)
MarkRefused(w) ==
    /\ worker[w].at = "handling"
    /\ MayWrite
    /\ ~Markable(worker[w].event)
    /\ worker' = [worker EXCEPT ![w] = Idle]
    /\ UNCHANGED <<rowVars, applied>>

(* The handler raised: its writes roll back, `fail` runs its first UPDATE. *)
FailGiveUp(w) ==
    LET e == worker[w].event
    IN  /\ worker[w].at = "handling"
        /\ MayWrite
        /\ status[e] = "PROCESSING" /\ Spent(e)
        /\ status' = [status EXCEPT ![e] = "FAILED"]
        /\ worker' = [worker EXCEPT ![w] = Idle]
        /\ UNCHANGED <<attempts, dueIn, startedAge, applied>>

FailNotSpent(w) ==
    LET e == worker[w].event
    IN  /\ worker[w].at = "handling"
        /\ MayWrite
        /\ ~(status[e] = "PROCESSING" /\ Spent(e))
        /\ worker' = [worker EXCEPT ![w].at = "readmitting"]
        /\ UNCHANGED <<rowVars, applied>>

(* The second UPDATE of `fail`, with the third that writes the backoff     *)
(* under the same row lock: WHERE status = PROCESSING, and nothing else.   *)
FailReadmit(w) ==
    LET e == worker[w].event
    IN  /\ worker[w].at = "readmitting"
        /\ status[e] = "PROCESSING"
        /\ status' = [status EXCEPT ![e] = Readmitted]
        /\ dueIn' = [dueIn EXCEPT ![e] = Backoff(attempts[e])]
        /\ worker' = [worker EXCEPT ![w] = Idle]
        /\ UNCHANGED <<attempts, startedAge, applied>>

FailNothing(w) ==
    /\ worker[w].at = "readmitting"
    /\ status[worker[w].event] # "PROCESSING"
    /\ worker' = [worker EXCEPT ![w] = Idle]
    /\ UNCHANGED <<rowVars, applied>>

(* The process dies, its task is cancelled, or the database is away when   *)
(* it fails: open transactions roll back, the row stays PROCESSING.        *)
Crash(w) ==
    /\ worker[w] # Idle
    /\ worker' = [worker EXCEPT ![w] = Idle]
    /\ UNCHANGED <<rowVars, applied>>

(* reclaim_stale, run at the head of every drain_once: two UPDATEs over    *)
(* disjoint conditions in one transaction.  available_at is left alone.    *)
ReclaimStale ==
    /\ MayWrite
    /\ Stale # {}
    /\ status' = [e \in Events |-> IF e \notin Stale THEN status[e]
                                 ELSE IF Spent(e) THEN "FAILED" ELSE Readmitted]
    /\ UNCHANGED <<attempts, dueIn, startedAge, worker, applied>>

Tick ==
    /\ dueIn' = [e \in Events |-> Max2(dueIn[e] - 1, 0)]
    /\ startedAge' = [e \in Events |-> Min2(startedAge[e] + 1, StaleAfter + 1)]
    /\ UNCHANGED <<status, attempts, worker, applied>>

WorkerStep(w) ==
    \/ Mark(w) \/ MarkRefused(w)
    \/ FailGiveUp(w) \/ FailNotSpent(w) \/ FailReadmit(w) \/ FailNothing(w)
    \/ Crash(w)

Next ==
    \/ \E e \in Events : Record(e)
    \/ \E w \in Workers, e \in Events : Claim(w, e)
    \/ \E w \in Workers : WorkerStep(w)
    \/ ReclaimStale
    \/ Tick

Spec == Init /\ [][Next]_vars

(* drain_once is called for ever, so a due event is claimed and a stale    *)
(* one reclaimed (each may wait for other writers, hence strong fairness); *)
(* a call of `process` ends somehow; time passes.                          *)
Fairness ==
    /\ WF_vars(Tick)
    /\ SF_vars(ReclaimStale)
    /\ \A e \in Events : SF_vars(\E w \in Workers : Claim(w, e))
    /\ \A w \in Workers : SF_vars(WorkerStep(w))

FairSpec == Spec /\ Fairness

-----------------------------------------------------------------------------
(* Properties.                                                             *)

TypeOK ==
    /\ status \in [Events -> Statuses \cup {"absent"}]
    /\ attempts \in [Events -> 0 .. MaxClaims]
    /\ dueIn \in [Events -> Nat]
    /\ startedAge \in [Events -> 0 .. StaleAfter + 1]
    /\ worker \in [Workers -> [at : {"idle", "handling", "readmitting"},
                               event : Events \cup {NoEvent}]]
    /\ applied \in [Events -> Nat]

(* "a database effect and the mark commit together": through duplicate     *)
(* deliveries, crashes, reclaims and superseded workers the handler's      *)
(* writes are in the database exactly when the row says PROCESSED, and     *)
(* never twice.                                                            *)
EffectOnce == \A e \in Events :
    applied[e] = IF status[e] = "PROCESSED" THEN 1 ELSE 0

(* A provider's redelivery, a late failure or a late mark never reopens a  *)
(* closed event: FAILED "leaves the sweep for good".                       *)
ClosedForGood == [][\A e \in Events :
    status[e] \in Closed => status'[e] = status[e]]_vars

(* An event is given up only once its whole budget was claimed.            *)
FailedMeansSpent == \A e \in Events :
    status[e] = "FAILED" => attempts[e] >= MaxAttempts

(* "process each at most to its budget" (class WebhookInbox).              *)
WithinBudget == \A e \in Events : attempts[e] <= MaxAttempts

(* A recorded event is eventually PROCESSED or FAILED, whichever workers   *)
(* die holding it.                                                         *)
EveryEventIsClosed == \A e \in Events :
    status[e] \in {"RECEIVED", "PROCESSING"} ~> status[e] \in Closed
=============================================================================
