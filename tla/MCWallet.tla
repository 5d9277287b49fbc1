------------------------------ MODULE MCWallet ------------------------------
(* The instance of Wallet for TLC: an order released at once and one on    *)
(* hold.                                                                   *)
EXTENDS Wallet, TLC

CONSTANTS o1, o2

MCPrice == (o1 :> 2) @@ (o2 :> 1)
MCHold  == (o1 :> 0) @@ (o2 :> 1)

(* Callers and correlation ids are interchangeable.                        *)
Sym == Permutations(Settlers) \cup Permutations(Withdrawers) \cup Permutations(Correlations)
=============================================================================
