------------------------------- MODULE Queues -------------------------------
(***************************************************************************)
(* The retry and retention settings of the queues, and one job under them: *)
(* when its attempts start, and when it is due to leave Redis once it has  *)
(* ended.  BullMQ removes what is due with the next job of the queue that  *)
(* ends; no other job is modelled.                                         *)
(* Time is in seconds since the job was sent.                              *)
(***************************************************************************)
EXTENDS Integers

CONSTANT AttemptSeconds    \* how long an attempt may take: the SMTP timeouts

ASSUME QueuesAssumption == AttemptSeconds \in Nat

ONE_HOUR == 3600
ONE_DAY  == 24 * ONE_HOUR

AtOnce == {"users.create-profile", "users.delete-profile", "audit-log.record-event",
           "upload.purge-user-files", "billing.apply-webhook"}
Scheduled == {"upload.sweep-unconfirmed", "messaging.outbox-prune", "billing.webhook-prune",
              "notifications.prune-ledger", "audit-log.prune", "auth.prune-expired"}

QUEUES == AtOnce \cup Scheduled \cup
          {"mailer.send-auth-email", "organizations.send-invitation", "mailer.send-welcome",
           "messaging.outbox-drain"}

defaults == [retryLimit |-> 5, retryDelay |-> 5, retryDelayMax |-> ONE_HOUR,
             failedKept |-> 30 * ONE_DAY, completedKept |-> 3 * ONE_DAY]

QueueDefinition(q) ==
  CASE q = "mailer.send-auth-email" ->
         [defaults EXCEPT !.retryDelayMax = 900, !.completedKept = 0, !.failedKept = 900]
    [] q = "organizations.send-invitation" ->
         [defaults EXCEPT !.retryLimit = 8, !.completedKept = 0, !.failedKept = ONE_HOUR]
    [] q = "mailer.send-welcome" -> [defaults EXCEPT !.retryLimit = 8, !.retryDelayMax = 6 * ONE_HOUR]
    [] q = "messaging.outbox-drain" ->
         [defaults EXCEPT !.retryLimit = 3, !.retryDelay = 2, !.retryDelayMax = 60, !.failedKept = ONE_HOUR]
    [] q \in Scheduled -> [defaults EXCEPT !.retryLimit = 1, !.failedKept = ONE_HOUR]
    [] OTHER -> defaults

VARIABLES kept,    \* the job in Redis: [queue, st, made, at]; st ends in "gone"
          started  \* when its last attempt started

queuesVars == <<kept, started>>

QueuesInit == /\ kept \in {[queue |-> q, st |-> "waiting", made |-> 0, at |-> 0] : q \in QUEUES}
              /\ started = 0

delayInMinutes(q, made) == QueueDefinition(q).retryDelay * 60 * 2^(made - 1)

\* backoffStrategy's delay, before it is bounded.
delay(q, made) == QueueDefinition(q).retryDelay * 2^(made - 1)

backoffStrategy(q, made) ==
  IF delay(q, made) < QueueDefinition(q).retryDelayMax THEN delay(q, made) ELSE QueueDefinition(q).retryDelayMax

\* An attempt fails, soon or late; BullMQ gives the job attempts = retryLimit + 1 of them.
AttemptFails ==
  LET q == kept.queue
      made == kept.made + 1
      again == made < QueueDefinition(q).retryLimit + 1
  IN  /\ kept.st = "waiting"
      /\ \E took \in {0, AttemptSeconds} :
           kept' = [queue |-> q, made |-> made, st |-> IF again THEN "waiting" ELSE "failed",
                    at |-> kept.at + took + IF again THEN backoffStrategy(q, made) ELSE 0]
      /\ started' = kept.at

\* removeOnComplete: a retention of zero drops the job at once.
AttemptSucceeds ==
  /\ kept.st = "waiting"
  /\ kept' = [kept EXCEPT !.st = IF QueueDefinition(kept.queue).completedKept = 0 THEN "gone" ELSE "completed"]
  /\ started' = kept.at

\* removeOnFail and removeOnComplete by age: the earliest that the job goes.
Reap ==
  /\ kept.st \in {"failed", "completed"}
  /\ kept' = [kept EXCEPT !.st = "gone",
                          !.at = @ + IF kept.st = "failed" THEN QueueDefinition(kept.queue).failedKept
                                     ELSE QueueDefinition(kept.queue).completedKept]
  /\ UNCHANGED started

QueuesNext == AttemptFails \/ AttemptSucceeds \/ Reap

QueuesSpec == QueuesInit /\ [][QueuesNext]_queuesVars
-----------------------------------------------------------------------------
QueuesTypeOK ==
  /\ kept \in [queue : QUEUES, st : {"waiting", "failed", "completed", "gone"}, made : 0..9, at : Nat]
  /\ started \in 0..kept.at

\* How long what a job carries is good for: the token of an authentication mail
\* (Better Auth's default), an invitation, and the ledger row that keeps a
\* message from being sent twice.
ResetTokenSeconds == ONE_HOUR
InvitationSeconds == 7 * ONE_DAY
LedgerSeconds     == 90 * ONE_DAY

GoodFor(q) == CASE q = "mailer.send-auth-email"        -> ResetTokenSeconds
                [] q = "organizations.send-invitation" -> InvitationSeconds
                [] q = "mailer.send-welcome"           -> LedgerSeconds

Mail == {"mailer.send-auth-email", "organizations.send-invitation", "mailer.send-welcome"}

\* However its attempts fail, no mail is tried after its link is dead or its
\* ledger row may be pruned ("Retrying past the token's own lifetime would only
\* deliver a dead link", queues.ts): the sum of the back-offs stays below.  And a
\* job with a credential in its payload is due to leave Redis while that is good,
\* or minutes later ("a failed job outlives the token it carries by minutes, not
\* weeks", queues.ts).
NoLongerThanItsLink ==
  /\ kept.queue \in Mail => started < GoodFor(kept.queue)
  /\ kept.queue \in {"mailer.send-auth-email", "organizations.send-invitation"} =>
       /\ kept.st # "completed"
       /\ kept.at <= GoodFor(kept.queue) + 900

\* When the attempt of a mail after n failed ones can start, at the latest.
Latest(n) == n * AttemptSeconds + defaults.retryDelay * (2^n - 1)

\* The inductive invariant behind NoLongerThanItsLink: what a job has used up of
\* its attempts bounds the time it has been about.
QueuesInv ==
  LET q == QueueDefinition(kept.queue)
  IN /\ QueuesTypeOK
     /\ kept.st = "waiting" => kept.made <= q.retryLimit
     /\ kept.queue \in Mail =>
          /\ started <= Latest(q.retryLimit)
          /\ kept.st = "waiting" => kept.at <= Latest(kept.made)
          /\ kept.st = "completed" => q.completedKept # 0
          /\ q.completedKept = 0 /\ kept.st # "waiting" =>
               kept.at <= Latest(q.retryLimit) + AttemptSeconds +
                            (IF kept.st = "gone" THEN q.failedKept ELSE 0)
=============================================================================
