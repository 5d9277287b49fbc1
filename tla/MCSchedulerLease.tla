-------------------------- MODULE MCSchedulerLease --------------------------
(* The instance of SchedulerLease for TLC gives each constant its value in *)
(* its cfg.                                                                *)
EXTENDS SchedulerLease
=============================================================================
