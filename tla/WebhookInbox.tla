----------------------------- MODULE WebhookInbox -----------------------------
(***************************************************************************)
(* One event of a billing provider on its way through the inbox: the       *)
(* deliveries that claim it (BillingWebhookController), its row in         *)
(* billing.webhook_inbox_event, the jobs of the queue                      *)
(* billing.apply-webhook, and the worker that applies it.                  *)
(*                                                                         *)
(* A step is one SQL statement, one call of Redis or of the applier.  What *)
(* can go wrong is bounded: each failure, crash, overrun of a lease and    *)
(* prune spends one of MaxFaults.                                          *)
(***************************************************************************)
EXTENDS Naturals, FiniteSets

CONSTANTS
  Deliveries,  \* requests of the provider that are served at the same time
  Attempts,    \* attempts of a job: retryLimit + 1
  MaxFaults,
  NULL

ASSUME AttemptsAssumption == Attempts \in Nat \ {0}
ASSUME FaultsAssumption == MaxFaults \in Nat

\* newId() for claims: the n-th claim has the token n.
Tokens == 1 .. MaxFaults + 1
ASSUME NullAssumption == NULL \notin Tokens

VARIABLES
  row,      \* the inbox row: its state, processing_token, and whether the lease has run out
  claims,   \* how many claims were made
  pc,       \* what a delivery does next
  mine,     \* the claim a delivery holds
  job,      \* where the job of a claim is; "none" before it is added
  tries,    \* the job's attemptsMade
  applied,  \* how often the applier took effect
  acked,    \* the provider has been answered 204
  spent     \* faults so far

vars == <<row, claims, pc, mine, job, tries, applied, acked, spent>>

\* A row has a token while it is being processed, and only then.
Rows == {r \in [state : {"absent", "processing", "failed", "processed"},
                token : Tokens \cup {NULL}, stale : BOOLEAN] :
           r.token # NULL <=> r.state = "processing"}
Absent == [state |-> "absent", token |-> NULL, stale |-> FALSE]
Processing(t) == [state |-> "processing", token |-> t, stale |-> FALSE]
Failed == [state |-> "failed", token |-> NULL, stale |-> FALSE]
Processed == [state |-> "processed", token |-> NULL, stale |-> FALSE]

TypeOK ==
  /\ row \in Rows
  /\ claims \in 0 .. MaxFaults + 1
  /\ pc \in [Deliveries -> {"idle", "insert", "update", "dispatch"}]
  /\ mine \in [Deliveries -> Tokens \cup {NULL}]
  /\ job \in [Tokens -> {"none", "waiting", "handle", "mark", "fail", "done", "dead"}]
  /\ tries \in [Tokens -> 0 .. Attempts]
  /\ applied \in Nat
  /\ acked \in BOOLEAN
  /\ spent \in 0 .. MaxFaults

Init ==
  /\ row = Absent
  /\ claims = 0
  /\ pc = [p \in Deliveries |-> "idle"]
  /\ mine = [p \in Deliveries |-> NULL]
  /\ job = [t \in Tokens |-> "none"]
  /\ tries = [t \in Tokens |-> 0]
  /\ applied = 0
  /\ acked = FALSE
  /\ spent = 0

Fault == spent < MaxFaults /\ spent' = spent + 1
-----------------------------------------------------------------------------
(* A delivery: receive, claim and dispatchClaimed.                         *)

\* The provider calls; the signature verifies.
Deliver(p) ==
  /\ pc[p] = "idle"
  /\ pc' = [pc EXCEPT ![p] = "insert"]
  /\ UNCHANGED <<row, claims, mine, job, tries, applied, acked, spent>>

\* The claim is this delivery's.
Take(p) ==
  /\ claims' = claims + 1
  /\ row' = Processing(claims + 1)
  /\ mine' = [mine EXCEPT ![p] = claims + 1]
  /\ pc' = [pc EXCEPT ![p] = "dispatch"]
  /\ UNCHANGED acked

\* The delivery has its answer.
Answer(p) ==
  /\ pc' = [pc EXCEPT ![p] = "idle"]
  /\ mine' = [mine EXCEPT ![p] = NULL]

\* claim: createMany with skipDuplicates.
Insert(p) ==
  /\ pc[p] = "insert"
  /\ IF row.state = "absent"
     THEN Take(p)
     ELSE pc' = [pc EXCEPT ![p] = "update"] /\ UNCHANGED <<row, claims, mine, acked>>
  /\ UNCHANGED <<job, tries, applied, spent>>

\* claim: WHERE processedAt IS NULL AND (failedAt IS NOT NULL OR processingAt is
\* before staleBefore).  The mutants forget one condition each.
ReclaimableOnceStale == row.state = "processing" /\ row.stale
ReclaimableWhenDone == row.state \in {"failed", "processed"} \/ row.stale
Reclaimable ==
  \/ row.state = "failed"
  \/ row.state = "processing" /\ row.stale

\* claim: updateMany.  Nothing to take means 'duplicate', which is acknowledged.
Update(p) ==
  /\ pc[p] = "update"
  /\ IF Reclaimable
     THEN Take(p)
     ELSE Answer(p) /\ acked' = TRUE /\ UNCHANGED <<row, claims>>
  /\ UNCHANGED <<job, tries, applied, spent>>

\* The statement throws, or the process dies, before the claim is made or after.
ClaimThrows(p) ==
  /\ pc[p] \in {"insert", "update"}
  /\ \/ UNCHANGED <<row, claims>>
     \/ /\ IF pc[p] = "insert" THEN row.state = "absent" ELSE Reclaimable
        /\ claims' = claims + 1
        /\ row' = Processing(claims + 1)
  /\ Answer(p)
  /\ Fault
  /\ UNCHANGED <<job, tries, applied, acked>>

AddJob(t) == job' = [job EXCEPT ![t] = "waiting"]

\* dispatchClaimed, and the 204.
Dispatch(p) ==
  /\ pc[p] = "dispatch"
  /\ AddJob(mine[p])
  /\ Answer(p)
  /\ acked' = TRUE
  /\ UNCHANGED <<row, claims, tries, applied, spent>>

\* The send throws, having added the job or not, or the process dies here: the
\* claim stays and the provider gets an error.
DispatchThrows(p) ==
  /\ pc[p] = "dispatch"
  /\ AddJob(mine[p]) \/ UNCHANGED job
  /\ Answer(p)
  /\ Fault
  /\ UNCHANGED <<row, claims, tries, applied, acked>>

-----------------------------------------------------------------------------
(* The job of claim t: ApplyBillingWebhookListener and applyClaimed.       *)

\* findClaimed, and the WHERE of markProcessed and markFailed.  The mutant looks
\* for the event and not for the claim.
HeldByAnyone(t) == row.state = "processing"
Held(t) == row.state = "processing" /\ row.token = t

Goto(t, label) == job' = [job EXCEPT ![t] = label] /\ UNCHANGED tries

\* findClaimed; 'claim-lost' completes the job.
Start(t) ==
  /\ job[t] = "waiting"
  /\ Goto(t, IF Held(t) THEN "handle" ELSE "done")
  /\ UNCHANGED <<row, claims, pc, mine, applied, acked, spent>>

\* ApplyWebhookEventUseCase.
Handle(t) ==
  /\ job[t] = "handle"
  /\ applied' = applied + 1
  /\ Goto(t, "mark")
  /\ UNCHANGED <<row, claims, pc, mine, acked, spent>>

\* applyClaimed's catch.
OnError == "fail"

\* The applier throws, before or after its effect.
HandleThrows(t) ==
  /\ job[t] = "handle"
  /\ applied' \in {applied, applied + 1}
  /\ Goto(t, OnError)
  /\ Fault
  /\ UNCHANGED <<row, claims, pc, mine, acked>>

MarkProcessed(t) ==
  /\ job[t] = "mark"
  /\ row' = IF Held(t) THEN Processed ELSE row
  /\ Goto(t, "done")
  /\ UNCHANGED <<claims, pc, mine, applied, acked, spent>>

MarkThrows(t) ==
  /\ job[t] = "mark"
  /\ row' \in {row, IF Held(t) THEN Processed ELSE row}
  /\ Goto(t, "fail")
  /\ Fault
  /\ UNCHANGED <<claims, pc, mine, applied, acked>>

\* The error reaches BullMQ: another attempt, or none is left.
AttemptsUsedUp(n) == n >= Attempts
Rethrow(t) ==
  /\ tries' = [tries EXCEPT ![t] = @ + 1]
  /\ job' = [job EXCEPT ![t] = IF AttemptsUsedUp(tries[t] + 1) THEN "dead" ELSE "waiting"]

MarkFailed(t) ==
  /\ job[t] = "fail"
  /\ row' = IF Held(t) THEN Failed ELSE row
  /\ Rethrow(t)
  /\ UNCHANGED <<claims, pc, mine, applied, acked, spent>>

MarkFailedThrows(t) ==
  /\ job[t] = "fail"
  /\ row' \in {row, IF Held(t) THEN Failed ELSE row}
  /\ Rethrow(t)
  /\ Fault
  /\ UNCHANGED <<claims, pc, mine, applied, acked>>

\* The worker dies; BullMQ finds the stalled job and runs it again or gives up.
WorkerDies(t) ==
  /\ job[t] \in {"handle", "mark", "fail"}
  /\ \E label \in {"waiting", "dead"} : Goto(t, label)
  /\ Fault
  /\ UNCHANGED <<row, claims, pc, mine, applied, acked>>

-----------------------------------------------------------------------------
\* Somebody is still at work on claim t.
Dispatching(t) == \E p \in Deliveries : pc[p] = "dispatch" /\ mine[p] = t
Working(t) == job[t] \in {"waiting", "handle", "mark", "fail"} \/ Dispatching(t)

\* PROCESSING_LEASE_MS pass.  An overrun is a fault; an orphan's lease just ends.
Lapse ==
  /\ row.state = "processing" /\ ~row.stale
  /\ row' = [row EXCEPT !.stale = TRUE]
  /\ IF Working(row.token) THEN Fault ELSE UNCHANGED spent
  /\ UNCHANGED <<claims, pc, mine, job, tries, applied, acked>>

\* PruneBillingWebhookInboxUseCase: the row is past its retention.
Prune ==
  /\ row.state = "processed"
  /\ row' = Absent
  /\ Fault
  /\ UNCHANGED <<claims, pc, mine, job, tries, applied, acked>>

Delivery(p) ==
  \/ Deliver(p) \/ Insert(p) \/ Update(p) \/ Dispatch(p)
  \/ ClaimThrows(p) \/ DispatchThrows(p)
Job(t) == Start(t) \/ Handle(t) \/ MarkProcessed(t) \/ MarkFailed(t)
JobFault(t) == HandleThrows(t) \/ MarkThrows(t) \/ MarkFailedThrows(t) \/ WorkerDies(t)

Next ==
  \/ \E p \in Deliveries : Delivery(p)
  \/ \E t \in Tokens : Job(t) \/ JobFault(t)
  \/ Lapse
  \/ Prune

Spec == Init /\ [][Next]_vars

\* Requests and jobs run to their end, and time passes.  Nothing makes the provider
\* call.
Fairness ==
  /\ \A p \in Deliveries : WF_vars(Insert(p) \/ Update(p) \/ Dispatch(p))
  /\ \A t \in Tokens : WF_vars(Job(t))
  /\ WF_vars(Lapse)

FairSpec == Spec /\ Fairness

-----------------------------------------------------------------------------
(* Properties.                                                             *)

\* markProcessed is reached only behind an application: an event that is recorded
\* as processed was applied, by the claim that recorded it or by one before it.
ProcessedMeansApplied == row.state = "processed" => applied > 0

\* The work happens once unless something goes wrong (a failure, an overrun of the
\* lease, a prune), and once more for each thing that does: concurrent and
\* repeated deliveries by themselves never apply an event again.
EffectsPaid == applied <= spent + 1

\* A processed event stays processed until it is pruned, whatever slow workers of
\* earlier claims and late deliveries still do.
ProcessedIsFinal ==
  [][row.state = "processed" => row'.state \in {"processed", "absent"}]_vars

\* "records failures so a later delivery can retry the event": if the provider
\* keeps calling, an event that was claimed is processed in the end.
RedeliveryHeals ==
  ([]<>(\E p \in Deliveries : pc[p] = "insert")) =>
    (row.state \in {"processing", "failed"} ~> row.state = "processed")

\* "The endpoint's job ends once the event is durable in the inbox and someone has
\* been told about it": the provider is answered 204 only when a job was added, or
\* another delivery is about to add it.
AcknowledgedMeansTold ==
  acked => \/ \E t \in Tokens : job[t] # "none"
           \/ \E p \in Deliveries : pc[p] = "dispatch"

\* "Someone else owns the lease now, or it is already processed": a job completes
\* only when its event is processed or somebody else is at work on it.
LeftToItsOwner ==
  [][\A t \in Tokens : job[t] # "done" /\ job'[t] = "done" =>
       row'.state \in {"processed", "processing"}]_vars

-----------------------------------------------------------------------------
(* The inductive invariant behind EffectsPaid and ProcessedMeansApplied.   *)

\* Claims are numbered as they are made: the row and the deliveries refer to
\* claims that were made, and a delivery's claim is its own and has no job yet.
TokenInv ==
  /\ row.state = "processing" => row.token \in 1 .. claims
  /\ \A t \in Tokens : job[t] # "none" => t <= claims
  /\ \A p \in Deliveries : pc[p] = "dispatch" =>
       /\ mine[p] \in 1 .. claims
       /\ job[mine[p]] = "none"
       /\ \A q \in Deliveries \ {p} : pc[q] = "dispatch" => mine[q] # mine[p]
  /\ \A t \in Tokens : job[t] = "dead" \/ tries[t] < Attempts

\* Only a job that has applied the event, or tried to, gets to markProcessed.
AppliedInv == \A t \in Tokens : job[t] = "mark" => applied > 0

\* The event can be claimed again without anything else going wrong: at once, or
\* when the lease of a claim that nobody works on runs out.
Claimable ==
  \/ row.state \in {"absent", "failed"}
  \/ row.state = "processing" /\ (row.stale \/ ~Working(row.token))

\* Claim t can still lead to an application, or to a claim that does, without
\* anything else going wrong.
Can(t) ==
  \/ job[t] = "handle"
  \/ Held(t) /\ (job[t] \in {"waiting", "fail"} \/ Dispatching(t))
Cans == {t \in Tokens : Can(t)}

\* The claim that holds the event is about to give it up in markFailed.
Failing == \E t \in Tokens : Held(t) /\ job[t] = "fail"

\* Each claim after the first was paid for by a fault, and so was the next one if
\* it can be made, or will be once markFailed has run.
ClaimsPaid == claims + (IF Claimable \/ Failing THEN 1 ELSE 0) <= spent + 1

\* Each application after the first was paid for, and so is each that can come.
CansPaid ==
  applied + Cardinality(Cans) + (IF Claimable THEN 1 ELSE 0) <= spent + 1

IInv ==
  /\ TypeOK /\ TokenInv /\ AppliedInv /\ ProcessedMeansApplied
  /\ ClaimsPaid /\ CansPaid
=============================================================================
