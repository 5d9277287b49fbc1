------------------------------- MODULE Outbox -------------------------------
(***************************************************************************)
(* db/outbox.py and BaseRepository.save_with_outbox: the transactional     *)
(* outbox.  A writer commits the business row and the event row together;  *)
(* relays drain the due PENDING events, publish each inside the drain's    *)
(* transaction and write what happened when it commits at the end.         *)
(*                                                                         *)
(* The batch is locked FOR UPDATE SKIP LOCKED, so concurrent drains take   *)
(* disjoint rows; on SQLite, which has no row locks, the relay is          *)
(* documented for one worker, the instance with one relay.  A drain may be *)
(* cut short at any point (process killed, task cancelled, commit failed): *)
(* the database forgets it, the broker does not.                           *)
(*                                                                         *)
(* A batch is published in any order: `available_at` orders it, and the    *)
(* model keeps only whether that time has come.                            *)
(***************************************************************************)
EXTENDS Integers, FiniteSets

CONSTANTS
    Events,             \* ids of the outbox rows that may be written
    Relays,             \* concurrent OutboxRelay loops
    MaxAttempts,        \* `max_attempts` of the rows
    BatchSize,          \* `batch_size`
    BackoffBase,        \* `backoff_base_seconds`, in clock units
    MaxInterrupts       \* bound: drains cut short in an instance

ASSUME OutboxAssumption ==
    /\ MaxAttempts \in Nat
    /\ BatchSize \in Nat \ {0}
    /\ BackoffBase \in Nat
    /\ MaxInterrupts \in Nat

VARIABLES
    business,       \* events whose business row is committed
    status,         \* status column; "absent" before the write commits
    attempts,       \* attempts column
    dueIn,          \* available_at - now, 0 when due
    todo,           \* todo[r]: rows of r's batch still to publish
    sent,           \* sent[r]: rows r published, not yet committed
    failed,         \* failed[r]: rows whose publish raised, not yet committed
    received,       \* received[e]: copies of the event the broker accepted
    interrupts,     \* drains cut short so far
    redeliverable   \* history: why copies of e beyond the first may exist

rowVars   == <<status, attempts, dueIn>>
drainVars == <<todo, sent, failed>>
vars      == <<business, rowVars, drainVars, received, interrupts, redeliverable>>

Max2(a, b) == IF a >= b THEN a ELSE b
Min2(a, b) == IF a <= b THEN a ELSE b

(* The rows of r's open transaction.                                       *)
Held(r) == todo[r] \cup sent[r] \cup failed[r]

(* What drain_once selects: due PENDING rows no other drain has locked.    *)
DueUnlocked == {e \in Events : status[e] = "PENDING" /\ dueIn[e] = 0}   \* mutant
DueFresh == {e \in Events : /\ status[e] = "PENDING" /\ attempts[e] = 0   \* mutant
                            /\ \A r \in Relays : e \notin Held(r)}
Due == {e \in Events : /\ status[e] = "PENDING" /\ dueIn[e] = 0
                       /\ \A r \in Relays : e \notin Held(r)}

(* _mark_failure: backoff_base_seconds * 2 ** (attempts - 1), or give up.  *)
BackoffShort(n) == BackoffBase * (n - 2)                                \* mutant
Backoff(n)      == BackoffBase * 2 ^ (n - 1)

Exhausted(n)      == n >= MaxAttempts

(* The rows a commit marks SENT: the ones whose publish returned.          *)
MarkedSentAll(r) == sent[r] \cup failed[r]                              \* mutant
MarkedSent(r)    == sent[r]

-----------------------------------------------------------------------------

Init ==
    /\ business      = {}
    /\ status        = [e \in Events |-> "absent"]
    /\ attempts      = [e \in Events |-> 0]
    /\ dueIn         = [e \in Events |-> 0]
    /\ todo          = [r \in Relays |-> {}]
    /\ sent          = [r \in Relays |-> {}]
    /\ failed        = [r \in Relays |-> {}]
    /\ received      = [e \in Events |-> 0]
    /\ interrupts    = 0
    /\ redeliverable = [e \in Events |-> 0]

(* save_with_outbox: both rows in one commit.  An IntegrityError rolls     *)
(* both back and leaves nothing to see.                                    *)
SaveWithOutbox(e) ==
    /\ status[e] = "absent"
    /\ business' = business \cup {e}
    /\ status' = [status EXCEPT ![e] = "PENDING"]
    /\ UNCHANGED <<attempts, dueIn, drainVars, received, interrupts, redeliverable>>

(* drain_once selects and locks its batch.                                 *)
Select(r) ==
    /\ Held(r) = {}
    /\ \E batch \in SUBSET Due :
        /\ batch # {}
        /\ Cardinality(batch) = Min2(BatchSize, Cardinality(Due))
        /\ todo' = [todo EXCEPT ![r] = batch]
    /\ UNCHANGED <<business, rowVars, sent, failed, received, interrupts, redeliverable>>

(* `await self._publish(event)` returned.                                  *)
Publish(r, e) ==
    /\ e \in todo[r]
    /\ todo' = [todo EXCEPT ![r] = @ \ {e}]
    /\ sent' = [sent EXCEPT ![r] = @ \cup {e}]
    /\ received' = [received EXCEPT ![e] = @ + 1]
    /\ UNCHANGED <<business, rowVars, failed, interrupts, redeliverable>>

(* It raised: the broker refused the event ...                             *)
PublishRaises(r, e) ==
    /\ e \in todo[r]
    /\ todo' = [todo EXCEPT ![r] = @ \ {e}]
    /\ failed' = [failed EXCEPT ![r] = @ \cup {e}]
    /\ UNCHANGED <<business, rowVars, sent, received, interrupts, redeliverable>>

(* ... or took it and the confirmation was lost.                           *)
PublishUnconfirmed(r, e) ==
    /\ e \in todo[r]
    /\ todo' = [todo EXCEPT ![r] = @ \ {e}]
    /\ failed' = [failed EXCEPT ![r] = @ \cup {e}]
    /\ received' = [received EXCEPT ![e] = @ + 1]
    /\ redeliverable' = [redeliverable EXCEPT ![e] = @ + 1]
    /\ UNCHANGED <<business, rowVars, sent, interrupts>>

(* The end of the batch: the session commits SENT for what was published   *)
(* and _mark_failure's columns for what was not.                           *)
Commit(r) ==
    LET n(e) == attempts[e] + 1
    IN  /\ todo[r] = {}
        /\ Held(r) # {}
        /\ status' = [e \in Events |->
                        IF e \in MarkedSent(r) THEN "SENT"
                        ELSE IF e \in failed[r] /\ Exhausted(n(e)) THEN "FAILED"
                        ELSE status[e]]
        /\ attempts' = [e \in Events |->
                          IF e \in failed[r] THEN n(e) ELSE attempts[e]]
        /\ dueIn' = [e \in Events |->
                       IF e \in failed[r] /\ ~Exhausted(n(e))
                       THEN Backoff(n(e)) ELSE dueIn[e]]
        /\ sent' = [sent EXCEPT ![r] = {}]
        /\ failed' = [failed EXCEPT ![r] = {}]
        /\ UNCHANGED <<business, todo, received, interrupts, redeliverable>>

(* The drain is cut short: rows and locks are as before it began.  What it *)
(* published will be published again.                                      *)
Interrupt(r) ==
    /\ Held(r) # {}
    /\ interrupts < MaxInterrupts
    /\ interrupts' = interrupts + 1
    /\ redeliverable' = [e \in Events |->
                           IF e \in sent[r] THEN redeliverable[e] + 1
                                            ELSE redeliverable[e]]
    /\ todo' = [todo EXCEPT ![r] = {}]
    /\ sent' = [sent EXCEPT ![r] = {}]
    /\ failed' = [failed EXCEPT ![r] = {}]
    /\ UNCHANGED <<business, rowVars, received>>

Tick ==
    /\ \E e \in Events : dueIn[e] > 0
    /\ dueIn' = [e \in Events |-> Max2(dueIn[e] - 1, 0)]
    /\ UNCHANGED <<business, status, attempts, drainVars, received, interrupts,
                   redeliverable>>

RelayStep(r) ==
    \/ Select(r)
    \/ \E e \in Events : Publish(r, e) \/ PublishRaises(r, e) \/ PublishUnconfirmed(r, e)
    \/ Commit(r)

Next ==
    \/ \E e \in Events : SaveWithOutbox(e)
    \/ \E r \in Relays : RelayStep(r) \/ Interrupt(r)
    \/ Tick

Spec == Init /\ [][Next]_vars

(* `run` loops drain_once; a publish returns or raises; time passes.       *)
Fairness == WF_vars(Tick) /\ \A r \in Relays : WF_vars(RelayStep(r))

FairSpec == Spec /\ Fairness

-----------------------------------------------------------------------------
(* Properties.                                                             *)

TypeOK ==
    /\ business \in SUBSET Events
    /\ status \in [Events -> {"absent", "PENDING", "SENT", "FAILED"}]
    /\ attempts \in [Events -> Nat]
    /\ dueIn \in [Events -> Nat]
    /\ todo \in [Relays -> SUBSET Events]
    /\ sent \in [Relays -> SUBSET Events]
    /\ failed \in [Relays -> SUBSET Events]
    /\ received \in [Events -> Nat]
    /\ interrupts \in 0 .. MaxInterrupts
    /\ redeliverable \in [Events -> Nat]

(* Neither half of the dual-write problem: an event marked SENT did reach  *)
(* the broker, and nothing reaches the broker for a row that was never     *)
(* committed.                                                              *)
NoLostNoPhantom == \A e \in Events :
    /\ status[e] = "SENT" => received[e] >= 1
    /\ received[e] >= 1 => e \in business

(* Concurrent relays never hold the same row.                              *)
DisjointDrains == \A r, q \in Relays : r # q => Held(r) \cap Held(q) = {}

(* Delivery is at-least-once and no worse: the broker has a second copy    *)
(* only if a drain was cut short after its publish or a publish raised     *)
(* after the broker took it, one extra copy for each.                      *)
InFlight(e) == IF \E r \in Relays : e \in sent[r] THEN 1 ELSE 0

DuplicatesAreExplained == \A e \in Events :
    received[e] = redeliverable[e] + InFlight(e)
                  + (IF status[e] = "SENT" THEN 1 ELSE 0)

(* A committed event is eventually SENT or FAILED.                         *)
EveryEventSettles == \A e \in Events :
    status[e] = "PENDING" ~> status[e] \in {"SENT", "FAILED"}
=============================================================================
