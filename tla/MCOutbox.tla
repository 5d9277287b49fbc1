------------------------------ MODULE MCOutbox ------------------------------
(* The instance of Outbox for TLC gives each constant its value in its     *)
(* cfg.                                                                    *)
EXTENDS Outbox
=============================================================================
