-------------------------------- MODULE Jobs --------------------------------
(***************************************************************************)
(* One BullMQ job as the workers of src/platform/queue see it.  `tries'    *)
(* counts failed attempts; BullMqService gives a job retryLimit + 1 of     *)
(* them, and its processor rethrows whatever the handler throws, so every  *)
(* error costs one.  A worker that dies costs none: the broker finds the   *)
(* job stalled and queues it again.                                        *)
(***************************************************************************)
EXTENDS Naturals

CONSTANT Attempts                    \* retryLimit + 1

ASSUME AttemptsAssumption == Attempts \in Nat \ {0}

Job == [st : {"unsent", "waiting", "active", "done", "dead"}, tries : 0..Attempts]

\* A job that is not over has attempts left.
HasAttempts(j) == j.st \in {"unsent", "waiting", "active"} => j.tries < Attempts

Unsent == [st |-> "unsent", tries |-> 0]

Sent == [st |-> "waiting", tries |-> 0]

Picked(j) == [j EXCEPT !.st = "active"]

Completed(j) == [j EXCEPT !.st = "done"]

FailedUncounted(j) == [j EXCEPT !.st = "waiting"]

Failed(j) == [st |-> IF j.tries + 1 < Attempts THEN "waiting" ELSE "dead",
              tries |-> j.tries + 1]

Stalled(j) == [j EXCEPT !.st = "waiting"]
=============================================================================
