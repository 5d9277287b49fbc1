--------------------------- MODULE MCIdempotency ----------------------------
(* A small instance of Idempotency for TLC.                                *)
EXTENDS Idempotency

CONSTANTS OddRequest, BodyA, BodyB

\* one request reuses the key for another payload
MCBodyOf == [r \in Requests |-> IF r = OddRequest THEN BodyB ELSE BodyA]
=============================================================================
