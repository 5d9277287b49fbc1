--------------------------- MODULE BatchScheduler ---------------------------
(***************************************************************************)
(* genai/batching.py: concurrent submit calls merged into handler calls.   *)
(* One event loop: code between two awaits is one step.  The queue is      *)
(* unbounded, so put never suspends, and a get on a queue that holds       *)
(* something does not either; the worker waits for the next item of a      *)
(* batch and for the handler, and nowhere else.                            *)
(*                                                                         *)
(* Each call submits an item of its own: the call names the item, and the  *)
(* handler's result for it.  A cancellation of the worker (the caller of   *)
(* aclose cancelled while it awaits the worker, or the loop shutting down) *)
(* is delivered at the worker's current await, or before its first step.   *)
(***************************************************************************)
EXTENDS Integers, SequencesExt

CONSTANTS
    Calls,          \* submit calls of the instance
    MaxBatch,       \* `max_batch`
    MaxCancels      \* bound: cancellations of the worker

ASSUME BatchAssumption == MaxBatch \in Nat \ {0} /\ MaxCancels \in Nat

VARIABLES
    queue,      \* _queue: calls whose item waits
    batch,      \* calls whose items the worker has taken
    worker,     \* "none" when _worker is None or done
    cancel,     \* cancellation of the worker: "no", "asked", "taken"
    future,     \* future[c]: the call's future
    closed,     \* _closed
    closing,    \* aclose: "no", "waiting" on the worker, "done"
    cancels,
    handed,     \* history: handed[c]: times the handler was given c's item
    orphans     \* history: calls queued when a worker ended before it ran

workerVars == <<queue, batch, worker, cancel, future, handed, orphans>>
vars       == <<workerVars, closed, closing, cancels>>

Pending(c) == future[c] = [is |-> "pending"]
Result(v)  == [is |-> "result", of |-> v]
Settled(kind) == [is |-> kind]

(* set_result, _fail_all, _cancel_all: a future that is done is left alone. *)
Settle(calls, outcome(_)) ==
    future' = [c \in Calls |-> IF c \in calls /\ Pending(c) THEN outcome(c) ELSE future[c]]

Init ==
    /\ queue = <<>> /\ batch = <<>> /\ worker = "none" /\ cancel = "no"
    /\ future = [c \in Calls |-> Settled("unborn")]
    /\ closed = FALSE /\ closing = "no" /\ cancels = 0
    /\ handed = [c \in Calls |-> 0] /\ orphans = {}

-----------------------------------------------------------------------------
(* Callers                                                                 *)

Submit(c) ==
    /\ future[c].is = "unborn"
    /\ IF closed
       THEN /\ future' = [future EXCEPT ![c] = Settled("error")]
            /\ UNCHANGED <<queue, worker>>
       ELSE /\ future' = [future EXCEPT ![c] = Settled("pending")]
            /\ queue' = Append(queue, c)
            /\ worker' = IF worker = "none" THEN "new" ELSE worker
    /\ UNCHANGED <<batch, cancel, handed, orphans, closed, closing, cancels>>

(* The task awaiting submit is cancelled, and the future with it.          *)
CallerCancelled(c) ==
    /\ Pending(c)
    /\ future' = [future EXCEPT ![c] = Settled("cancelled")]
    /\ UNCHANGED <<queue, batch, worker, cancel, handed, orphans, closed, closing, cancels>>

AClose ==
    /\ ~closed
    /\ closed' = TRUE
    /\ closing' = IF worker = "none" THEN "done" ELSE "waiting"
    /\ UNCHANGED <<workerVars, cancels>>

ACloseReturns ==
    /\ closing = "waiting" /\ worker = "none"
    /\ closing' = "done"
    /\ UNCHANGED <<workerVars, closed, cancels>>

CancelWorker ==
    /\ worker # "none" /\ cancel # "asked" /\ cancels < MaxCancels
    /\ cancel' = "asked" /\ cancels' = cancels + 1
    /\ UNCHANGED closing \/ (closing = "waiting" /\ closing' = "done")
    /\ UNCHANGED <<queue, batch, worker, future, handed, orphans, closed>>

-----------------------------------------------------------------------------
(* The worker                                                              *)

Smaller(a, b) == IF a < b THEN a ELSE b

Hand(items) ==
    handed' = [c \in Calls |-> IF c \in ToSet(items) THEN handed[c] + 1 ELSE handed[c]]

(* _run up to its next await, with `taken` already in hand: take what is   *)
(* queued without waiting; a full batch, or one whose deadline has passed, *)
(* goes to the handler, another waits for an item.  With nothing in hand   *)
(* and nothing queued the worker ends.                                     *)
GatherAll(taken) ==   \* mutant
    LET n == Len(queue)
        all == taken \o SubSeq(queue, 1, n)
    IN  /\ queue' = SubSeq(queue, n + 1, Len(queue))
        /\ batch' = all
        /\ \/ /\ all = <<>> /\ worker' = "none" /\ UNCHANGED handed
           \/ /\ all # <<>> /\ Len(all) < MaxBatch
              /\ worker' = "forming" /\ UNCHANGED handed
           \/ /\ all # <<>>
              /\ worker' = "handling" /\ Hand(all)
Gather(taken) ==
    LET n == Smaller(Len(queue), MaxBatch - Len(taken))
        all == taken \o SubSeq(queue, 1, n)
    IN  /\ queue' = SubSeq(queue, n + 1, Len(queue))
        /\ batch' = all
        /\ \/ /\ all = <<>> /\ worker' = "none" /\ UNCHANGED handed
           \/ /\ all # <<>> /\ Len(all) < MaxBatch
              /\ worker' = "forming" /\ UNCHANGED handed
           \/ /\ all # <<>>
              /\ worker' = "handling" /\ Hand(all)

(* The worker goes away: _abandon_queue cancels what is queued, besides    *)
(* what becomes of the batch.                                              *)
AbandonBatchOnly(kind) ==   \* mutant
    /\ Settle(ToSet(batch), LAMBDA c : Settled(kind))
    /\ queue' = queue /\ batch' = <<>> /\ worker' = "none" /\ cancel' = "no"
    /\ UNCHANGED <<handed, orphans, closed, closing, cancels>>
Abandon(kind) ==
    /\ Settle(ToSet(batch \o queue),
              LAMBDA c : IF c \in ToSet(batch) THEN Settled(kind) ELSE Settled("cancelled"))
    /\ queue' = <<>> /\ batch' = <<>> /\ worker' = "none" /\ cancel' = "no"
    /\ UNCHANGED <<handed, orphans, closed, closing, cancels>>

Start ==
    /\ worker = "new" /\ cancel # "asked"
    /\ Gather(<<>>)
    /\ UNCHANGED <<cancel, future, orphans, closed, closing, cancels>>

(* Cancelled before its first step: _run's body never executes.            *)
NeverStarts ==
    /\ worker = "new" /\ cancel = "asked"
    /\ worker' = "none" /\ cancel' = "no" /\ orphans' = orphans \cup ToSet(queue)
    /\ UNCHANGED <<queue, batch, future, handed, closed, closing, cancels>>

(* The awaited get returns, with anything else that is queued by then.     *)
Resume ==
    /\ worker = "forming" /\ cancel # "asked" /\ queue # <<>>
    /\ Gather(batch)
    /\ UNCHANGED <<cancel, future, orphans, closed, closing, cancels>>

(* max_wait is over; an item that arrived meanwhile stays queued.          *)
WaitOverRestarts ==   \* mutant
    /\ worker = "forming" /\ cancel # "asked"
    /\ UNCHANGED vars
WaitOver ==
    /\ worker = "forming" /\ cancel # "asked"
    /\ worker' = "handling" /\ Hand(batch)
    /\ UNCHANGED <<queue, batch, cancel, future, orphans, closed, closing, cancels>>

CancelledForming ==
    /\ worker = "forming" /\ cancel = "asked"
    /\ Abandon("cancelled")

(* The handler ends, having swallowed a cancellation delivered to it if    *)
(* there was one: settle the batch, then form the next.                    *)
AfterHandler(outcome(_)) ==
    /\ worker = "handling"
    /\ Settle(ToSet(batch), outcome)
    /\ Gather(<<>>)
    /\ cancel' = CASE worker' = "none" -> "no"
                   [] cancel = "asked" -> "taken"
                   [] OTHER -> cancel
    /\ UNCHANGED <<orphans, closed, closing, cancels>>

(* One result per item, in order: by position.                             *)
PositionPending(c) ==   \* mutant
    LET open == SelectSeq(batch, LAMBDA d : Pending(d))
    IN  CHOOSE i \in DOMAIN open : open[i] = c
Position(c) == CHOOSE i \in DOMAIN batch : batch[i] = c

HandlerReturns == AfterHandler(LAMBDA c : Result(batch[Position(c)]))

(* An Exception, a result without a length or with the wrong one.          *)
HandlerFails == AfterHandler(LAMBDA c : Settled("error"))

(* The handler raised CancelledError of its own.                           *)
HandlerCancelsItself ==
    /\ cancel = "no"
    /\ AfterHandler(LAMBDA c : Settled("cancelled"))

(* CancelledError while task.cancelling(): the worker goes.                *)
CancelledHandling ==
    /\ worker = "handling" /\ cancel # "no"
    /\ Abandon("cancelled")

(* KeyboardInterrupt, SystemExit.                                          *)
HandlerExits ==
    /\ worker = "handling"
    /\ Abandon("error")

WorkerStep ==
    \/ Start \/ NeverStarts \/ Resume \/ WaitOver \/ CancelledForming
    \/ HandlerReturns \/ HandlerFails \/ HandlerCancelsItself
    \/ CancelledHandling \/ HandlerExits

Next ==
    \/ \E c \in Calls : Submit(c) \/ CallerCancelled(c)
    \/ AClose \/ ACloseReturns \/ CancelWorker
    \/ WorkerStep

Spec == Init /\ [][Next]_vars

(* The event loop runs what is ready, timers fire, and the handler ends:   *)
(* the one assumption about code outside the class.                        *)
Fairness == WF_vars(WorkerStep) /\ WF_vars(ACloseReturns)

FairSpec == Spec /\ Fairness

-----------------------------------------------------------------------------
(* Properties                                                              *)

Outcomes == {Settled(k) : k \in {"unborn", "pending", "error", "cancelled"}}
              \cup {Result(c) : c \in Calls}

(* Every variable stays in its domain; a batch never exceeds max_batch,    *)
(* and the worker holds one exactly while it forms or handles it.          *)
TypeOK ==
    /\ queue \in Seq(Calls) /\ batch \in Seq(Calls) /\ Len(batch) <= MaxBatch
    /\ worker \in {"none", "new", "forming", "handling"}
    /\ batch = <<>> <=> worker \in {"none", "new"}
    /\ cancel \in {"no", "asked", "taken"}
    /\ future \in [Calls -> Outcomes] /\ closed \in BOOLEAN
    /\ closing \in {"no", "waiting", "done"} /\ cancels \in 0..MaxCancels
    /\ handed \in [Calls -> Nat] /\ orphans \subseteq Calls

(* Every caller gets the result of its own item, and no item reaches the   *)
(* handler twice, whichever callers of the batch gave up (batching.py:216).*)
OwnResult ==
    \A c \in Calls : handed[c] <= 1 /\ (future[c].is = "result" => future[c].of = c)

(* A caller that waits is queued or in the batch of a worker that is       *)
(* there to settle it, unless the worker was cancelled before its first    *)
(* step (batching.py:141 and :154, "no submit is left awaiting forever").  *)
NoStrandedCaller ==
    \A c \in Calls : Pending(c) =>
        /\ c \in ToSet(queue) \cup ToSet(batch)
        /\ worker # "none" \/ c \in orphans

(* Every submit ends, but for the orphans of such a worker, and so does    *)
(* aclose.                                                                 *)
EveryCallEnds ==
    /\ \A c \in Calls : Pending(c) ~> (~Pending(c) \/ c \in orphans)
    /\ closing = "waiting" ~> closing = "done"
=============================================================================
