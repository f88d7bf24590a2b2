---------------------------- MODULE EventDelivery ----------------------------
(***************************************************************************)
(* What the outbox promises to those who publish and to those who          *)
(* subscribe (EventPublisherPort, EVENT_SUBSCRIBERS): a published event is *)
(* kept until it is settled, it is delivered to each subscriber at least   *)
(* once or given up, and it is settled once.  How rows are claimed, leased *)
(* and retried is no part of the promise; OutboxRelay shows how it is kept.*)
(***************************************************************************)
EXTENDS Naturals

CONSTANTS
  Events,
  Invalid,      \* events that no contract accepts
  Subscribers,  \* how many queues subscribe to an event
  MaxFanout

VARIABLES
  state,        \* what has become of each event
  received      \* <<e, i>> -> how often e's i-th subscriber was given the event

dvars == <<state, received>>

States == {"unpublished", "pending", "delivered", "dead", "forgotten"}

Init ==
  /\ state = [e \in Events |-> "unpublished"]
  /\ received = [s \in Events \X (1..MaxFanout) |-> 0]

Publish(e) ==
  /\ state[e] = "unpublished"
  /\ state' = [state EXCEPT ![e] = "pending"]
  /\ UNCHANGED received

\* A subscriber is given an event, perhaps again, and perhaps after it was settled.
Receive(e, i) ==
  /\ state[e] # "unpublished" /\ e \notin Invalid
  /\ received' = [received EXCEPT ![<<e, i>>] = @ + 1]
  /\ UNCHANGED state

\* A pending event is delivered when all its subscribers have it, or given up; what
\* is settled may be forgotten.
MayBecome(e, s) ==
  \/ s = state[e]
  \/ /\ state[e] = "pending" /\ s = "delivered"
     /\ \A i \in 1..Subscribers[e] : received[<<e, i>>] > 0
  \/ state[e] = "pending" /\ s = "dead"
  \/ state[e] \in {"delivered", "dead"} /\ s = "forgotten"

Settle ==
  /\ state' \in [Events -> States]
  /\ \A e \in Events : MayBecome(e, state'[e])
  /\ UNCHANGED received

Next ==
  \/ \E e \in Events : Publish(e)
  \/ \E e \in Events, i \in 1..MaxFanout : Receive(e, i)
  \/ Settle

Spec == Init /\ [][Next]_dvars
=============================================================================
