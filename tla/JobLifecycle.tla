---------------------------- MODULE JobLifecycle ----------------------------
(***************************************************************************)
(* What JobStore promises to the screen that follows a job, with none of   *)
(* the machinery: a submitted job is started a bounded number of times,    *)
(* gets at most one outcome and keeps it.                                  *)
(*                                                                         *)
(* Several jobs may advance in one step: one sweep closes many.            *)
(***************************************************************************)
EXTENDS Integers

CONSTANTS
    JobIds,
    Limit(_)        \* the most starts of a job

VARIABLES
    outcome,        \* "none" before it is submitted, "open", or an outcome
    starts          \* how often an attempt was started

lifecycle == <<outcome, starts>>

Outcomes == {"DONE", "FAILED", "CANCELLED"}

LInit ==
    /\ outcome = [j \in JobIds |-> "none"]
    /\ starts  = [j \in JobIds |-> 0]

Submit(j) == /\ outcome[j] = "none" /\ outcome'[j] = "open"
             /\ starts'[j] = starts[j]

Start(j)  == /\ outcome[j] = "open" /\ outcome'[j] = "open"
             /\ starts[j] < Limit(j) /\ starts'[j] = starts[j] + 1

Close(j)  == /\ outcome[j] = "open" /\ outcome'[j] \in Outcomes
             /\ starts'[j] = starts[j]

Wait(j)   == outcome'[j] = outcome[j] /\ starts'[j] = starts[j]

LNext ==
    /\ outcome' \in [JobIds -> Outcomes \cup {"none", "open"}]
    /\ starts' \in [JobIds -> Nat]
    /\ \A j \in JobIds : Submit(j) \/ Start(j) \/ Close(j) \/ Wait(j)

LSpec == LInit /\ [][LNext]_lifecycle
=============================================================================
