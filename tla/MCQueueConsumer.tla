-------------------------- MODULE MCQueueConsumer ---------------------------
(* Small instances of QueueConsumer for TLC.                               *)
EXTENDS QueueConsumer, TLC

MCOneKey == [c \in Copies |-> CHOOSE key \in Keys : TRUE]

Symmetry == Permutations(Consumers) \cup Permutations(Copies \ Retried)
=============================================================================
