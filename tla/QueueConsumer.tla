---------------------------- MODULE QueueConsumer ---------------------------
(***************************************************************************)
(* queue/dedup.py and queue/reliability.py: what a consumer does with a    *)
(* delivery under the deduplication and dead-letter middlewares, on the    *)
(* queues `retry_queues` declares, or a QueueSpec with a dead-letter       *)
(* queue.                                                                  *)
(*                                                                         *)
(*   main --reject--> retry --TTL--> main      copies in Retried           *)
(*   main --reject--> dead --replay--> main    the others                  *)
(*                                                                         *)
(* The broker (external) redelivers an unacked message when its consumer   *)
(* dies and counts every reject in x-death.  A message id may be on        *)
(* several copies: a publisher that retries, a fan-out to several queues,  *)
(* a replay that died between its publish and its ack.                     *)
(*                                                                         *)
(* The middlewares are split at their awaits.  RedisDedupStore.claim is    *)
(* two round trips (SET NX, then GET when it lost); MemoryDedupStore.claim *)
(* has no await inside.  The mark and the handler's effect are not atomic. *)
(***************************************************************************)
EXTENDS Integers, FiniteSets

CONSTANTS
    Copies,         \* physical messages
    Keys,           \* message ids, the deduplication keys
    KeyOf,          \* KeyOf[c] is the message_id of copy c
    Consumers,      \* concurrent deliveries (prefetch slots of all replicas)
    NoCopy,         \* not an element of Copies
    MaxAttempts,    \* `max_attempts` of the dead-letter middleware
    Retried,        \* copies on queues with a retry chain
    RedisStore,     \* RedisDedupStore (else MemoryDedupStore)
    LongTTL,        \* a mark outlives the handler and the redeliveries
    MaxDeaths,      \* bound: rejects of one copy counted in an instance
    MaxFaults       \* bound: deaths and store failures in an instance

ASSUME ConsumerAssumption ==
    /\ KeyOf \in [Copies -> Keys]
    /\ NoCopy \notin Copies /\ IsFiniteSet(Consumers)
    /\ MaxAttempts \in Nat \ {0}
    /\ Retried \subseteq Copies
    /\ RedisStore \in BOOLEAN
    /\ LongTTL \in BOOLEAN
    /\ MaxDeaths \in Nat
    /\ MaxFaults \in Nat

VARIABLES
    place,          \* where each copy is
    deaths,         \* rejects recorded in the copy's x-death header
    mark,           \* mark[key] in the dedup store: "none" when absent
    consumer,       \* what each consumer is doing, and with which copy
    effects,        \* effects[key]: handler runs that returned
    unmarked,       \* history: of those, the ones no done mark followed
    skipped,        \* history: keys acked because the GET found no mark
    raised,         \* history: raised[c]: handler runs of c that raised
    reported,       \* reported[c]: times the dead-letter sink got c
    faults          \* deliveries cut short and store calls that failed

history == <<effects, unmarked, skipped, raised, reported>>
vars    == <<place, deaths, mark, consumer, history, faults>>

Idle == [at |-> "idle", copy |-> NoCopy]
Places == {"unpublished", "main", "held", "retry", "dead", "replaying", "gone"}
Alive == {"main", "held", "retry", "dead", "replaying"}

(* Consumers between their claim and their complete or release.            *)
Working(key) == {k \in Consumers :
    consumer[k].at \in {"running", "completing", "releasing"}
    /\ KeyOf[consumer[k].copy] = key}

(* delivery_attempt: rejects in x-death, expiries left out, plus one.      *)
Attempt(c) == deaths[c] + 1

(* What the middlewares decide; "mutant" marks a slip.                     *)

\* claim: SET NX succeeds only when there is no mark
ClaimWinsOver(key) == mark[key] # "done"                        \* mutant
ClaimWins(key)     == mark[key] = "none"

\* the ack of a delivery that lost the claim: only when the mark is done
AcksInFlight(m) == TRUE                                         \* mutant
AcksLost(m)     == m # "in_flight"

\* complete marks done; a failure releases the key
MarkAfterKept     == "in_flight"                                \* mutant
MarkAfterFailed   == "none"
MarkAfterDropped  == "none"                                     \* mutant
MarkAfterOther    == "completed"                                \* mutant
MarkAfterComplete == "done"

\* where a reject sends the copy
RejectedTo(c) == IF c \in Retried THEN "retry" ELSE "dead"

-----------------------------------------------------------------------------

Init ==
    /\ place    = [c \in Copies |-> "unpublished"]
    /\ deaths   = [c \in Copies |-> 0]
    /\ mark     = [key \in Keys |-> "none"]
    /\ consumer = [k \in Consumers |-> Idle]
    /\ effects  = [key \in Keys |-> 0]
    /\ unmarked = [key \in Keys |-> 0]
    /\ skipped  = {}
    /\ raised   = [c \in Copies |-> 0]
    /\ reported = [c \in Copies |-> 0]
    /\ faults  = 0

(* A publisher sends a copy, the first of its id or another.               *)
Publish(c) ==
    /\ place[c] = "unpublished"
    /\ place' = [place EXCEPT ![c] = "main"]
    /\ UNCHANGED <<deaths, mark, consumer, history, faults>>

(* The broker hands a ready copy to a consumer.                            *)
Deliver(k, c) ==
    /\ consumer[k] = Idle
    /\ place[c] = "main"
    /\ place' = [place EXCEPT ![c] = "held"]
    /\ consumer' = [consumer EXCEPT ![k] = [at |-> "claiming", copy |-> c]]
    /\ UNCHANGED <<deaths, mark, history, faults>>

Goes(k, next) ==
    consumer' = [consumer EXCEPT ![k] = [at |-> next, copy |-> consumer[k].copy]]

(* consume_scope: store.claim answered NEW, the handler starts.            *)
ClaimNew(k) ==
    LET key == KeyOf[consumer[k].copy]
    IN  /\ consumer[k].at = "claiming"
        /\ ClaimWins(key)
        /\ mark' = [mark EXCEPT ![key] = "in_flight"]
        /\ Goes(k, "running")
        /\ UNCHANGED <<place, deaths, history, faults>>

(* RedisDedupStore.claim: the SET NX lost, the GET is still to come.       *)
ClaimLost(k) ==
    /\ RedisStore
    /\ consumer[k].at = "claiming"
    /\ ~ClaimWins(KeyOf[consumer[k].copy])
    /\ Goes(k, "reading")
    /\ UNCHANGED <<place, deaths, mark, history, faults>>

(* The mark is read, by GET or in the same step as the lost claim: done,   *)
(* or nothing left to read, skips and acks ...                             *)
Reads(k) == consumer[k].at = IF RedisStore THEN "reading" ELSE "claiming"

ClaimDone(k) ==
    LET c == consumer[k].copy
        m == mark[KeyOf[c]]
    IN  /\ Reads(k)
        /\ RedisStore \/ m # "none"
        /\ AcksLost(m)
        /\ skipped' = IF m = "none" THEN skipped \cup {KeyOf[c]} ELSE skipped
        /\ Goes(k, "acking")
        /\ UNCHANGED <<place, deaths, mark, effects, unmarked, raised, reported, faults>>

(* ... in flight raises ConcurrentDeliveryError, which the dead-letter     *)
(* middleware lets through untouched to the reject.                        *)
ClaimConcurrent(k) ==
    /\ Reads(k)
    /\ mark[KeyOf[consumer[k].copy]] = "in_flight"
    /\ ~AcksLost("in_flight")
    /\ Goes(k, "rejecting")
    /\ UNCHANGED <<place, deaths, mark, history, faults>>

HandlerReturns(k) ==
    LET key == KeyOf[consumer[k].copy]
    IN  /\ consumer[k].at = "running"
        /\ effects' = [effects EXCEPT ![key] = @ + 1]
        /\ Goes(k, "completing")
        /\ UNCHANGED <<place, deaths, mark, unmarked, skipped, raised, reported, faults>>

HandlerRaises(k) ==
    /\ consumer[k].at = "running"
    /\ raised' = [raised EXCEPT ![consumer[k].copy] = @ + 1]
    /\ Goes(k, "releasing")
    /\ UNCHANGED <<place, deaths, mark, effects, unmarked, skipped, reported, faults>>

(* store.complete and store.release write the mark without looking at it.  *)
Complete(k) ==
    /\ consumer[k].at = "completing"
    /\ mark' = [mark EXCEPT ![KeyOf[consumer[k].copy]] = MarkAfterComplete]
    /\ Goes(k, "acking")
    /\ UNCHANGED <<place, deaths, history, faults>>

Release(k) ==
    /\ consumer[k].at = "releasing"
    /\ mark' = [mark EXCEPT ![KeyOf[consumer[k].copy]] = MarkAfterFailed]
    /\ Goes(k, "failed")
    /\ UNCHANGED <<place, deaths, history, faults>>

(* Redis is away when a mark is claimed, read, completed or released: the  *)
(* delivery fails; a mark it had set stays in flight until it expires ...  *)
StoreFails(k) ==
    LET key == KeyOf[consumer[k].copy]
    IN  /\ RedisStore
        /\ consumer[k].at \in {"claiming", "reading", "completing", "releasing"}
        /\ faults < MaxFaults
        /\ faults' = faults + 1
        /\ unmarked' = [unmarked EXCEPT ![key] =
                          IF consumer[k].at = "completing" THEN @ + 1 ELSE @]
        /\ Goes(k, "failed")
        /\ UNCHANGED <<place, deaths, mark, effects, skipped, raised, reported>>

(* ... or Redis carried the command out and its answer was lost: the       *)
(* delivery fails with its mark claimed, completed or released.            *)
ReplyLost(k) ==
    LET key == KeyOf[consumer[k].copy]
    IN  /\ RedisStore
        /\ faults < MaxFaults
        /\ faults' = faults + 1
        /\ \/ /\ consumer[k].at = "claiming" /\ ClaimWins(key)
              /\ mark' = [mark EXCEPT ![key] = "in_flight"]
           \/ /\ consumer[k].at = "completing"
              /\ mark' = [mark EXCEPT ![key] = MarkAfterComplete]
           \/ /\ consumer[k].at = "releasing"
              /\ mark' = [mark EXCEPT ![key] = MarkAfterFailed]
        /\ Goes(k, "failed")
        /\ UNCHANGED <<place, deaths, history>>

(* The dead-letter middleware: the sink on an exhausted attempt, and the   *)
(* exception goes on in every case.                                        *)
Report(k) ==
    LET c == consumer[k].copy
    IN  /\ consumer[k].at = "failed"
        /\ reported' = [reported EXCEPT ![c] =
                          IF Attempt(c) >= MaxAttempts THEN @ + 1 ELSE @]
        /\ Goes(k, "rejecting")
        /\ UNCHANGED <<place, deaths, mark, effects, unmarked, skipped, raised, faults>>

(* REJECT_ON_ERROR: the broker counts the reject and dead-letters.         *)
Reject(k) ==
    LET c == consumer[k].copy
    IN  /\ consumer[k].at = "rejecting"
        /\ deaths[c] < MaxDeaths
        /\ deaths' = [deaths EXCEPT ![c] = @ + 1]
        /\ place' = [place EXCEPT ![c] = RejectedTo(c)]
        /\ consumer' = [consumer EXCEPT ![k] = Idle]
        /\ UNCHANGED <<mark, history, faults>>

Ack(k) ==
    /\ consumer[k].at = "acking"
    /\ place' = [place EXCEPT ![consumer[k].copy] = "gone"]
    /\ consumer' = [consumer EXCEPT ![k] = Idle]
    /\ UNCHANGED <<deaths, mark, history, faults>>

(* The delivery is cancelled, or its replica dies: `except Exception` does *)
(* not release, the broker requeues its copy, x-death unchanged.           *)
Crash(k) ==
    LET c == consumer[k].copy
    IN  /\ consumer[k] # Idle
        /\ faults < MaxFaults
        /\ faults' = faults + 1
        /\ place' = [place EXCEPT ![c] = "main"]
        /\ unmarked' = [unmarked EXCEPT ![KeyOf[c]] =
                          IF consumer[k].at = "completing" THEN @ + 1 ELSE @]
        /\ consumer' = [consumer EXCEPT ![k] = Idle]
        /\ UNCHANGED <<deaths, mark, effects, skipped, raised, reported>>

(* The consumers are one process and it dies; a MemoryDedupStore with it.  *)
ProcessDies ==
    LET lost(key) == {k \in Working(key) : consumer[k].at = "completing"}
    IN  /\ faults < MaxFaults
        /\ faults' = faults + 1
        /\ place' = [c \in Copies |-> IF place[c] = "held" THEN "main" ELSE place[c]]
        /\ mark' = [key \in Keys |-> IF RedisStore THEN mark[key] ELSE "none"]
        /\ consumer' = [k \in Consumers |-> Idle]
        /\ unmarked' = [key \in Keys |-> unmarked[key] + Cardinality(lost(key))]
        /\ UNCHANGED <<deaths, effects, skipped, raised, reported>>

(* The retry queue's TTL returns the copy to the main queue.               *)
RetryExpires(c) ==
    /\ place[c] = "retry"
    /\ place' = [place EXCEPT ![c] = "main"]
    /\ UNCHANGED <<deaths, mark, consumer, history, faults>>

(* A mark's TTL runs out.  With LongTTL not while a consumer works on the  *)
(* key, and a done mark not before every copy of it is gone.               *)
MarkExpires(key) ==
    /\ mark[key] # "none"
    /\ LongTTL => /\ Working(key) = {}
                  /\ mark[key] = "done" => \A c \in Copies :
                        KeyOf[c] = key => place[c] = "gone"
    /\ mark' = [mark EXCEPT ![key] = "none"]
    /\ UNCHANGED <<place, deaths, consumer, history, faults>>

(* replay_dead_letters: the dead copy c is published again as d, to the    *)
(* queue it came from, the death headers stripped, and acked once that is  *)
(* confirmed.                                                              *)
ReplayPublish(c, d) ==
    /\ place[c] = "dead"
    /\ place[d] = "unpublished"
    /\ KeyOf[c] = KeyOf[d]
    /\ c \in Retried <=> d \in Retried
    /\ place' = [place EXCEPT ![c] = "replaying", ![d] = "main"]
    /\ UNCHANGED <<deaths, mark, consumer, history, faults>>

ReplayAck(c) ==
    /\ place[c] = "replaying"
    /\ place' = [place EXCEPT ![c] = "gone"]
    /\ UNCHANGED <<deaths, mark, consumer, history, faults>>

ReplayDies(c) ==
    /\ place[c] = "replaying"
    /\ place' = [place EXCEPT ![c] = "dead"]
    /\ UNCHANGED <<deaths, mark, consumer, history, faults>>

ConsumerStep(k) ==
    \/ ClaimNew(k) \/ ClaimLost(k) \/ ClaimDone(k) \/ ClaimConcurrent(k)
    \/ HandlerReturns(k) \/ HandlerRaises(k)
    \/ Complete(k) \/ Release(k)
    \/ StoreFails(k) \/ ReplyLost(k)
    \/ Report(k) \/ Reject(k) \/ Ack(k)

Next ==
    \/ \E c \in Copies : Publish(c) \/ RetryExpires(c) \/ ReplayAck(c) \/ ReplayDies(c)
    \/ \E c, d \in Copies : ReplayPublish(c, d)
    \/ \E k \in Consumers : ConsumerStep(k) \/ Crash(k)
    \/ \E k \in Consumers, c \in Copies : Deliver(k, c)
    \/ ProcessDies
    \/ \E key \in Keys : MarkExpires(key)

Spec == Init /\ [][Next]_vars

-----------------------------------------------------------------------------
(* Properties.                                                             *)

TypeOK ==
    /\ place \in [Copies -> Places]
    /\ deaths \in [Copies -> 0 .. MaxDeaths]
    /\ mark \in [Keys -> {"none", "in_flight", "done"}]
    /\ consumer \in [Consumers ->
         [at : {"idle", "claiming", "reading", "running", "completing",
                "releasing", "failed", "rejecting", "acking"},
          copy : Copies \cup {NoCopy}]]
    /\ effects \in [Keys -> Nat] /\ unmarked \in [Keys -> Nat]
    /\ skipped \in SUBSET Keys
    /\ raised \in [Copies -> Nat] /\ reported \in [Copies -> Nat]
    /\ faults \in 0 .. MaxFaults

(* With marks that live long enough, two deliveries of one id never run    *)
(* the handler at the same time, on whichever copies and replicas.         *)
OneHandlerPerKey == LongTTL => \A key \in Keys :
    \A k, l \in Working(key) : k = l

(* The handler takes effect more than once only for the window the module  *)
(* names: it returned and the done mark was never written.                 *)
RepeatsAreExplained == LongTTL /\ RedisStore => \A key \in Keys :
    effects[key] <= 1 + unmarked[key]

(* A failed delivery leaves its id free for the next one: short of a       *)
(* cancelled delivery or an unreachable store, an in-flight mark always    *)
(* has a delivery behind it, so no redelivery waits for a mark to expire.  *)
NoOrphanMark == faults = 0 => \A key \in Keys :
    mark[key] = "in_flight" => Working(key) # {}

(* Deduplication does not turn "processed twice" into "processed never":   *)
(* once an id was published it has taken effect, or a copy is still to be  *)
(* delivered or to be replayed, or its mark vanished between the SET NX    *)
(* and the GET, the case RedisDedupStore.claim decides to skip.            *)
NeverLost == \A c \in Copies : place[c] = "gone" =>
    \/ effects[KeyOf[c]] >= 1
    \/ \E d \in Copies : KeyOf[d] = KeyOf[c] /\ place[d] \in Alive
    \/ KeyOf[c] \in skipped

(* "routes to the dead queue once the budget is spent" (retry_queues): the *)
(* handler is not run again on a copy that failed max_attempts times.      *)
RunsWithinBudget == \A c \in Copies : raised[c] <= MaxAttempts
=============================================================================
