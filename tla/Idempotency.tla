----------------------------- MODULE Idempotency ----------------------------
(***************************************************************************)
(* api/middlewares/idempotency.py: concurrent requests that carry the same *)
(* Idempotency-Key, in one process.  One cache key: keys share only        *)
(* `_locks_guard`, whose critical sections never await, so it is never     *)
(* contended and the sections are part of the step around them.            *)
(*                                                                         *)
(* asyncio runs a request from one await to the next in one step.  Leaving *)
(* `async with lock` and `_release_lock` is such a step: the waiter the    *)
(* release woke has not run when `_release_lock` finds the lock free.      *)
(* asyncio.Lock (external) hands itself over first in, first out: a woken  *)
(* waiter stays queued until it runs, and no arrival overtakes it.         *)
(***************************************************************************)
EXTENDS Integers, FiniteSets, SequencesExt

CONSTANTS
    Requests,           \* requests with one principal, method, path and key
    Bodies,             \* request fingerprints
    BodyOf,             \* BodyOf[r] is the fingerprint of request r
    None,               \* no lock, no cached response, no answer yet
    Outcomes,           \* what the handler may do
    CacheServerErrors,  \* `cache_server_errors`
    MayExpire,          \* the cached response's TTL may pass
    MayFail             \* requests may be cancelled, the store may be away

ASSUME IdempotencyAssumption ==
    /\ BodyOf \in [Requests -> Bodies]
    /\ None \notin Requests \cup Bodies
    /\ Outcomes \subseteq {"ok", "server_error", "stream", "raises"}
    /\ CacheServerErrors \in BOOLEAN
    /\ MayExpire \in BOOLEAN
    /\ MayFail \in BOOLEAN

VARIABLES
    table,      \* `_locks[cache_key]`: a lock, named by the request that made it
    locked,     \* locked[l]: asyncio.Lock._locked
    waiters,    \* waiters[l]: asyncio.Lock._waiters
    woken,      \* waiters whose future is done, still to run
    at,         \* where each request is
    lockOf,     \* the lock each request was given
    cached,     \* fingerprint stored with the cached response, or None
    runs,       \* requests whose handler was started
    answer,     \* how each request was answered
    unstored    \* history: a request left the lock with nothing stored, or
                \* what was stored expired

lockVars == <<table, locked, waiters, woken>>
vars     == <<lockVars, at, lockOf, cached, runs, answer, unstored>>

Stages  == {"new", "waiting", "looking", "handling", "storing", "done"}
Answers == {"own", "replayed", "key_reused", "failed"}
Inside  == {"looking", "handling", "storing"}

(* What the code tests; "mutant" marks a slip.                             *)

\* _lock_for: the lock in the table, or a new one put there
LockForFresh(r) == r                                            \* mutant
LockFor(r)      == IF table = None THEN r ELSE table

\* `async with lock`: released however the body ends
KeepsLockOnFailure(a) == a = "failed"                           \* mutant
KeepsLock(a)          == FALSE

\* _release_lock: `lock is not None and not lock.locked()`, after the step
\* that leaves `held` as the locked flags
DropsNever(held)  == FALSE                                      \* mutant
DropsLock(held)   == table # None /\ ~held[table]

\* hmac.compare_digest(cached.fingerprint, fingerprint)
Replays(r)    == cached = BodyOf[r]

\* CachedResponse(..., fingerprint=fingerprint); the field defaults to ""
StoredFingerprintLost(r) == ""                                  \* mutant
StoredFingerprint(r)     == BodyOf[r]

\* `self.cache_server_errors or response.status_code < 500`, no stream
Storable(o) == o = "ok" \/ (o = "server_error" /\ CacheServerErrors)

\* asyncio.Lock._wake_up_first
WokenFirst(queue) == IF queue = <<>> THEN {} ELSE {Head(queue)}

-----------------------------------------------------------------------------

Init ==
    /\ table   = None
    /\ locked  = [l \in Requests |-> FALSE]
    /\ waiters = [l \in Requests |-> <<>>]
    /\ woken   = {}
    /\ at      = [r \in Requests |-> "new"]
    /\ lockOf  = [r \in Requests |-> None]
    /\ cached  = None
    /\ runs    = {}
    /\ answer  = [r \in Requests |-> None]
    /\ unstored = FALSE

(* dispatch up to the first await that suspends: `_lock_for`, then the     *)
(* lock itself when it is free, or its queue.                              *)
Arrive(r) ==
    LET l    == LockFor(r)
        free == ~locked[l] /\ waiters[l] = <<>>
    IN  /\ at[r] = "new"
        /\ table' = l
        /\ lockOf' = [lockOf EXCEPT ![r] = l]
        /\ locked' = [locked EXCEPT ![l] = @ \/ free]
        /\ waiters' = [waiters EXCEPT ![l] = IF free THEN @ ELSE Append(@, r)]
        /\ at' = [at EXCEPT ![r] = IF free THEN "looking" ELSE "waiting"]
        /\ UNCHANGED <<woken, cached, runs, answer, unstored>>

(* A woken waiter runs and owns the lock.                                  *)
Wake(r) ==
    LET l == lockOf[r]
    IN  /\ r \in woken
        /\ woken' = woken \ {r}
        /\ waiters' = [waiters EXCEPT ![l] = RemoveFirst(@, r)]
        /\ locked' = [locked EXCEPT ![l] = TRUE]
        /\ at' = [at EXCEPT ![r] = "looking"]
        /\ UNCHANGED <<table, lockOf, cached, runs, answer, unstored>>

(* Leaving `async with lock`, and the `finally` that drops the table entry.*)
Leave(r, a) ==
    LET l    == lockOf[r]
        held == [locked EXCEPT ![l] = KeepsLock(a)]
    IN  /\ locked' = held
        /\ woken' = IF held[l] THEN woken ELSE woken \cup WokenFirst(waiters[l])
        /\ table' = IF DropsLock(held) THEN None ELSE table
        /\ at' = [at EXCEPT ![r] = "done"]
        /\ answer' = [answer EXCEPT ![r] = a]
        /\ UNCHANGED <<waiters, lockOf>>

(* store.get found a response: replayed, or 422 for another request.       *)
Hit(r) ==
    /\ at[r] = "looking"
    /\ cached # None
    /\ Leave(r, IF Replays(r) THEN "replayed" ELSE "key_reused")
    /\ UNCHANGED <<cached, runs, unstored>>

Miss(r) ==
    /\ at[r] = "looking"
    /\ cached = None
    /\ at' = [at EXCEPT ![r] = "handling"]
    /\ runs' = runs \cup {r}
    /\ UNCHANGED <<lockVars, lockOf, cached, answer, unstored>>

(* call_next ended with a response to store ...                            *)
HandlerStorable(r) ==
    /\ at[r] = "handling"
    /\ \E o \in Outcomes : Storable(o)
    /\ at' = [at EXCEPT ![r] = "storing"]
    /\ UNCHANGED <<lockVars, lockOf, cached, runs, answer, unstored>>

(* ... or with one that is not stored, or with an exception.               *)
HandlerUnstored(r) ==
    /\ at[r] = "handling"
    /\ \E o \in Outcomes : /\ ~Storable(o)
                           /\ Leave(r, IF o = "raises" THEN "failed" ELSE "own")
    /\ unstored' = TRUE
    /\ UNCHANGED <<cached, runs>>

Store(r) ==
    /\ at[r] = "storing"
    /\ cached' = StoredFingerprint(r)
    /\ Leave(r, "own")
    /\ UNCHANGED <<runs, unstored>>

(* The request is cancelled inside the lock, or the store raises there.    *)
FailInside(r) ==
    /\ MayFail
    /\ at[r] \in Inside
    /\ Leave(r, "failed")
    /\ unstored' = TRUE
    /\ UNCHANGED <<cached, runs>>

(* The request is cancelled in the queue: acquire takes it out, passes a   *)
(* wake-up on when the lock is free, and the `finally` still runs.         *)
CancelWaiting(r) ==
    LET l    == lockOf[r]
        rest == RemoveFirst(waiters[l], r)
    IN  /\ MayFail
        /\ at[r] = "waiting"
        /\ waiters' = [waiters EXCEPT ![l] = rest]
        /\ woken' = (woken \ {r}) \cup (IF locked[l] THEN {} ELSE WokenFirst(rest))
        /\ table' = IF DropsLock(locked) THEN None ELSE table
        /\ at' = [at EXCEPT ![r] = "done"]
        /\ answer' = [answer EXCEPT ![r] = "failed"]
        /\ UNCHANGED <<locked, lockOf, cached, runs, unstored>>

Expire ==
    /\ MayExpire
    /\ cached # None
    /\ cached' = None
    /\ unstored' = TRUE
    /\ UNCHANGED <<lockVars, at, lockOf, runs, answer>>

RequestStep(r) ==
    \/ Wake(r) \/ Hit(r) \/ Miss(r)
    \/ HandlerStorable(r) \/ HandlerUnstored(r) \/ Store(r)
    \/ FailInside(r) \/ CancelWaiting(r)

Next ==
    \/ \E r \in Requests : Arrive(r) \/ RequestStep(r)
    \/ Expire

Spec == Init /\ [][Next]_vars

(* The event loop runs what is ready, handlers and the store answer; no    *)
(* request need arrive, be cancelled or fail.                              *)
Fairness == \A r \in Requests :
    WF_vars(Wake(r) \/ Hit(r) \/ Miss(r) \/ HandlerStorable(r)
            \/ HandlerUnstored(r) \/ Store(r))

FairSpec == Spec /\ Fairness

-----------------------------------------------------------------------------
(* Properties.                                                             *)

TypeOK ==
    /\ table \in Requests \cup {None}
    /\ locked \in [Requests -> BOOLEAN]
    /\ \A l \in Requests : Range(waiters[l]) \subseteq Requests
    /\ woken \subseteq Requests
    /\ at \in [Requests -> Stages]
    /\ lockOf \in [Requests -> Requests \cup {None}]
    /\ cached \in Bodies \cup {None}
    /\ runs \subseteq Requests
    /\ answer \in [Requests -> Answers \cup {None}]
    /\ unstored \in BOOLEAN

(* `_locks` does not grow with the keys seen: whatever was cancelled or    *)
(* raised, no entry is left once no request with the key is in flight.     *)
NoLockLeak ==
    (\A r \in Requests : at[r] \in {"new", "done"}) => table = None

(* No wake-up is lost between a release, a cancellation and the deletion   *)
(* of the table entry: a request that arrived is answered.                 *)
EveryRequestAnswered == \A r \in Requests :
    at[r] = "waiting" ~> at[r] = "done"

(* As long as every handler's response is stored and kept, requests with   *)
(* one key run the handler once, though the table entry goes while a woken *)
(* waiter has still to run.                                                *)
HandlerRunsOnce == ~unstored => Cardinality(runs) <= 1
=============================================================================
