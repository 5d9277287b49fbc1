----------------------------- MODULE MCSessions -----------------------------
(* The instance of Sessions for TLC.                                       *)
EXTENDS Sessions, TLC

(* Requests and session ids are interchangeable.                           *)
Sym == Permutations(Ids) \cup Permutations(Clients)
=============================================================================
