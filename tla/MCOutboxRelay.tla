---------------------------- MODULE MCOutboxRelay ----------------------------
(* Instances of OutboxRelay for TLC.                                       *)
EXTENDS OutboxDelivery, TLC

Symmetry == Permutations(Drainers)
MCOneSubscriber == [e \in Events |-> 1]
MCSubscribers == [e \in Events |-> IF e = 1 THEN 2 ELSE 1]
=============================================================================
