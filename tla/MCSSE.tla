------------------------------- MODULE MCSSE -------------------------------
(* The instance of SSE for TLC gives each constant its value in its cfg.   *)
EXTENDS SSE
=============================================================================
