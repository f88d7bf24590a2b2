---------------------------- MODULE OutboxDelivery ----------------------------
(***************************************************************************)
(* The relay keeps the promise of EventDelivery.  What has become of an    *)
(* event is read off its row; what its subscribers were given is what was  *)
(* added to their queues.                                                  *)
(***************************************************************************)
EXTENDS OutboxRelay

StateOf(e) ==
  IF e \notin published THEN "unpublished"
  ELSE IF e \notin stored THEN "forgotten"
  ELSE IF Drained(e) THEN "delivered"
  ELSE IF Dead(e) THEN "dead"
  ELSE "pending"

Delivery == INSTANCE EventDelivery
              WITH state <- [e \in Events |-> StateOf(e)], received <- jobs

\* Every step of the relay is a step of EventDelivery or changes nothing that its
\* publishers and subscribers can see, whatever overlaps, fails or dies.
ImplementsDelivery == Delivery!Spec
=============================================================================
