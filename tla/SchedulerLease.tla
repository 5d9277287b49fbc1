--------------------------- MODULE SchedulerLease ---------------------------
(***************************************************************************)
(* tasks/lock.py and TaskQueue._run_scheduler_under_lease: the replicas of *)
(* a service share a Redis lease, and the one that holds it runs the       *)
(* periodic scheduler.                                                     *)
(*                                                                         *)
(* Time is discrete.  A replica polls every `poll_seconds`; it may be late *)
(* by at most MaxStall (garbage collection, a slow tick, the round trip),  *)
(* which the clock enforces by not passing a replica's deadline.  The      *)
(* Redis lock is external: acquire is SET NX with a TTL, extend and        *)
(* release act only for the token that owns the key.                       *)
(*                                                                         *)
(* A renewal that raises is followed, still inside `renew`, by a release;  *)
(* the scheduler loop is cancelled only after `renew` has returned, so     *)
(* standing down is two steps.                                             *)
(***************************************************************************)
EXTENDS Integers

CONSTANTS
    Replicas,
    NoOwner,        \* the key does not exist
    TTL,            \* `lease_ttl_seconds`, in clock units
    MaxStall,       \* how late a poll may be
    RenewErrors,    \* bound: renewals that raise in an instance
    AcquireErrors,  \* bound: acquires that raise in an instance
    MaxStops        \* bound: replicas stopped or killed in an instance

ASSUME LeaseAssumption ==
    /\ NoOwner \notin Replicas
    /\ TTL \in Nat \ {0}
    /\ MaxStall \in Nat
    /\ RenewErrors \in Nat
    /\ AcquireErrors \in Nat
    /\ MaxStops \in Nat

VARIABLES
    owner,      \* the replica whose token the key holds
    ttl,        \* what is left of the key's TTL
    supervisor, \* where each replica's supervisor is
    next,       \* time to its next poll; below zero it is late
    errors,     \* calls that raised, by kind
    stops       \* replicas stopped or killed so far

lease     == <<owner, ttl>>
leaseVars == <<lease, supervisor, next, errors, stops>>

(* "standing_down": renew returned False, the loop is still to be stopped. *)
(* "ended": the supervisor task ended with an exception in a live process. *)
SupervisorStages == {"standby", "leader", "standing_down", "ended", "stopped"}
Polling          == {"standby", "leader", "standing_down"}

(* What the code fixes; "mutant" marks a slip.                             *)

\* lifespan: poll_seconds = lease_ttl_seconds / 3
Poll == TTL \div 3

\* renew: extend(ttl_seconds, replace_ttl=True)
RenewedAdds   == ttl + TTL                                      \* mutant
RenewedChecks == ttl                                            \* mutant
Renewed       == TTL

\* once the loop is stopped, loop_task = None: the supervisor acquires again
StoodDownKept == "standing_down"                                \* mutant
StoodDown     == "standby"

Due(r)  == next[r] <= 0
Soon(r) == next' = [next EXCEPT ![r] = Poll]
Goes(r, stage) == supervisor' = [supervisor EXCEPT ![r] = stage]

-----------------------------------------------------------------------------

LeaseInit ==
    /\ owner  = NoOwner
    /\ ttl    = 0
    /\ supervisor = [r \in Replicas |-> "standby"]
    /\ next   = [r \in Replicas |-> 0]
    /\ errors = [renew |-> 0, acquire |-> 0]
    /\ stops  = 0

(* lock.acquire() answered True: the loop is started.                      *)
AcquireWins(r) ==
    /\ supervisor[r] = "standby" /\ Due(r)
    /\ owner = NoOwner
    /\ owner' = r
    /\ ttl' = TTL
    /\ Goes(r, "leader")
    /\ Soon(r)
    /\ UNCHANGED <<errors, stops>>

AcquireLoses(r) ==
    /\ supervisor[r] = "standby" /\ Due(r)
    /\ owner # NoOwner
    /\ Soon(r)
    /\ UNCHANGED <<lease, supervisor, errors, stops>>

(* lock.acquire() raised, its SET done in Redis or not: only               *)
(* CancelledError is caught around it, and a key it did take is left to    *)
(* its TTL.                                                                *)
AcquireRaises(r) ==
    /\ supervisor[r] = "standby" /\ Due(r)
    /\ errors.acquire < AcquireErrors
    /\ errors' = [errors EXCEPT !.acquire = @ + 1]
    /\ \/ owner = NoOwner /\ owner' = r /\ ttl' = TTL
       \/ UNCHANGED lease
    /\ Goes(r, "ended")
    /\ UNCHANGED <<next, stops>>

RenewExtends(r) ==
    /\ supervisor[r] = "leader" /\ Due(r)
    /\ owner = r
    /\ ttl' = Renewed
    /\ Soon(r)
    /\ UNCHANGED <<owner, supervisor, errors, stops>>

(* The key is someone else's or nobody's: extend refuses.                  *)
RenewLost(r) ==
    /\ supervisor[r] = "leader" /\ Due(r)
    /\ owner # r
    /\ Goes(r, "standing_down")
    /\ UNCHANGED <<lease, next, errors, stops>>

(* extend raised, done in Redis or not; the release that follows frees the *)
(* key, or fails as well and is swallowed.                                 *)
RenewRaises(r) ==
    /\ supervisor[r] = "leader" /\ Due(r)
    /\ errors.renew < RenewErrors
    /\ errors' = [errors EXCEPT !.renew = @ + 1]
    /\ \/ owner = r /\ owner' = NoOwner /\ ttl' = 0
       \/ owner = r /\ UNCHANGED owner /\ ttl' \in {ttl, TTL}
       \/ owner # r /\ UNCHANGED lease
    /\ Goes(r, "standing_down")
    /\ UNCHANGED <<next, stops>>

(* loop_task.cancel() and stop_scheduler(), then the sleep.                *)
StopLoop(r) ==
    /\ supervisor[r] = "standing_down"
    /\ Goes(r, StoodDown)
    /\ Soon(r)
    /\ UNCHANGED <<lease, errors, stops>>

(* The supervisor is cancelled: a leader cancels its loop and releases, if *)
(* Redis answers; an acquire cut short may have taken the key unseen.  Or  *)
(* the process is killed and does neither.                                 *)
Stop(r) ==
    /\ supervisor[r] # "stopped"
    /\ stops < MaxStops
    /\ stops' = stops + 1
    /\ \/ supervisor[r] = "leader" /\ owner = r /\ owner' = NoOwner /\ ttl' = 0
       \/ supervisor[r] = "standby" /\ owner = NoOwner /\ owner' = r /\ ttl' = TTL
       \/ UNCHANGED lease
    /\ Goes(r, "stopped")
    /\ UNCHANGED <<next, errors>>

Start(r) ==
    /\ supervisor[r] = "stopped"
    /\ Goes(r, "standby")
    /\ next' = [next EXCEPT ![r] = 0]
    /\ UNCHANGED <<lease, errors, stops>>

(* Time passes for the key and for every supervisor that polls, none of    *)
(* which is at its deadline.                                               *)
Tick ==
    /\ \A r \in Replicas : supervisor[r] \in Polling => next[r] > -MaxStall
    /\ next' = [r \in Replicas |->
                   IF supervisor[r] \in Polling THEN next[r] - 1 ELSE next[r]]
    /\ ttl' = IF owner = NoOwner THEN ttl ELSE ttl - 1
    /\ owner' = IF ttl' = 0 THEN NoOwner ELSE owner
    /\ UNCHANGED <<supervisor, errors, stops>>

SupervisorStep(r) ==
    \/ AcquireWins(r) \/ AcquireLoses(r) \/ AcquireRaises(r)
    \/ RenewExtends(r) \/ RenewLost(r) \/ RenewRaises(r)
    \/ StopLoop(r)

LeaseNext ==
    \/ \E r \in Replicas : SupervisorStep(r) \/ Stop(r) \/ Start(r)
    \/ Tick

LeaseSpec == LeaseInit /\ [][LeaseNext]_leaseVars

(* Time passes and a supervisor goes on polling; nobody need be stopped or *)
(* started.                                                                *)
LeaseFairness == WF_leaseVars(Tick) /\ \A r \in Replicas : WF_leaseVars(SupervisorStep(r))

LeaseFairSpec == LeaseSpec /\ LeaseFairness

-----------------------------------------------------------------------------
(* Properties.                                                             *)

(* ttl never exceeds one TTL: a leader's death costs at most that.         *)
LeaseTypeOK ==
    /\ owner \in Replicas \cup {NoOwner}
    /\ ttl \in 0 .. TTL
    /\ supervisor \in [Replicas -> SupervisorStages]
    /\ next \in [Replicas -> -MaxStall .. Poll]
    /\ errors \in [renew : 0 .. RenewErrors, acquire : 0 .. AcquireErrors]
    /\ stops \in 0 .. MaxStops

(* A lease lasts a TTL from the last acquire or renewal that worked: until *)
(* then the key does not leave a replica that believes it leads, whatever  *)
(* is late, killed, restarted or raises elsewhere.                         *)
SinceRenewed(r) == Poll - next[r]

LoopHoldsLease == \A r \in Replicas :
    supervisor[r] = "leader" /\ SinceRenewed(r) < TTL => owner = r

(* A supervisor that still polls takes over from leaders that die, stand   *)
(* down or lose their lease.                                               *)
PollerTakesOver ==
    (\E r \in Replicas : supervisor[r] \in Polling)
        ~> \/ \E r \in Replicas : supervisor[r] = "leader"
           \/ \A r \in Replicas : supervisor[r] \notin Polling
=============================================================================
