-------------------------- MODULE MCBatchScheduler --------------------------
(* The instance of BatchScheduler for TLC gives each constant its value in *)
(* its cfg.                                                                *)
EXTENDS BatchScheduler
=============================================================================
