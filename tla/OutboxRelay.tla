----------------------------- MODULE OutboxRelay -----------------------------
(***************************************************************************)
(* The transactional outbox: the table messaging.outbox_events, the        *)
(* drainers that relay its rows to BullMQ (OutboxDrainService), and the    *)
(* fan-out of one event to its subscribers' queues                         *)
(* (BullMqEventPublisher.dispatch).                                        *)
(*                                                                         *)
(* Every SQL statement is one atomic step, and so is every call of         *)
(* BullMqService.send.  Between two of them anything may happen: another   *)
(* drainer's statement, time passing, an exception, the death of the       *)
(* process.  Time is kept as ages: a timestamp column holds the number of  *)
(* ticks since it was written, and stops counting when the code can no     *)
(* longer tell the difference, so the model needs no bound on the clock.   *)
(***************************************************************************)
EXTENDS Naturals, FiniteSets

CONSTANTS
  Events,        \* rows of the table, numbered in the order (occurred_at, event_id)
  Invalid,       \* rows no contract of contracts/events accepts
  Subscribers,   \* how many queues EVENT_SUBSCRIBERS lists for an event
  MaxFanout,     \* the longest list in EVENT_SUBSCRIBERS
  Drainers,      \* runs of the drain job that may overlap
  Tokens,        \* claim tokens: what newId() can return
  BatchSize,     \* options.drainBatchSize
  MaxAttempts,   \* MAX_RELAY_ATTEMPTS
  MaxPasses,     \* MAX_PASSES_PER_RUN
  Lease,         \* CLAIM_LEASE_SECONDS, in ticks
  DedupWindow,   \* DEDUP_WINDOW_SECONDS, in ticks
  Retention,     \* options.retentionDays, in ticks
  NULL           \* SQL's NULL

ASSUME EventsAssumption ==
  Events \subseteq Nat /\ IsFiniteSet(Events) /\ Invalid \subseteq Events
ASSUME FanoutAssumption ==
  MaxFanout \in Nat /\ Subscribers \in [Events -> 1..MaxFanout]
ASSUME LimitsAssumption ==
  /\ BatchSize \in Nat \ {0}
  /\ MaxAttempts \in Nat \ {0}
  /\ MaxPasses \in Nat \ {0}
ASSUME TimesAssumption ==
  Lease \in Nat /\ DedupWindow \in Nat \ {0} /\ Retention \in Nat
ASSUME DrainersAssumption == IsFiniteSet(Drainers)
ASSUME NullAssumption == NULL \notin Nat /\ NULL \notin Tokens

VARIABLES
  published,         \* events whose producer's transaction has committed
  stored,            \* rows now in the table (published and not pruned)
  claimed_at, claim_token, attempt_count, drained_at, dead_lettered_at,
  jobs,              \* <<e, i>> -> jobs added to e's i-th subscriber queue
  dedup,             \* <<e, i>> -> ticks left of the deduplication key
  pc,                \* where a drain run is; "idle" between runs
  pass,              \* drainUntilIdle's loop counter, from 1
  token,             \* drainOnce's claimToken
  batch,             \* claimed rows this pass has not finished with
  cur,               \* the row of the for loop's current iteration
  next,              \* which subscriber dispatch sends to next
  settled            \* dispatched + invalid.length

columns == <<claimed_at, claim_token, attempt_count, drained_at, dead_lettered_at>>
table   == <<published, stored, columns>>
redis   == <<jobs, dedup>>
run     == <<pc, pass, token, batch, cur, next, settled>>
vars    == <<table, redis, run>>

Slots == Events \X (1..MaxFanout)

Labels == {"idle", "exhausted", "claim", "invalid", "send", "mark", "release"}

TypeOK ==
  /\ published \subseteq Events
  /\ stored \subseteq published
  /\ claimed_at \in [Events -> Nat \cup {NULL}]
  /\ claim_token \in [Events -> Tokens \cup {NULL}]
  /\ attempt_count \in [Events -> Nat]
  /\ drained_at \in [Events -> Nat \cup {NULL}]
  /\ dead_lettered_at \in [Events -> Nat \cup {NULL}]
  /\ jobs \in [Slots -> Nat]
  /\ dedup \in [Slots -> Nat]
  /\ pc \in [Drainers -> Labels]
  /\ pass \in [Drainers -> 0..MaxPasses]
  /\ token \in [Drainers -> Tokens \cup {NULL}]
  /\ batch \in [Drainers -> SUBSET Events]
  /\ cur \in [Drainers -> Events \cup {NULL}]
  /\ next \in [Drainers -> Nat]
  /\ settled \in [Drainers -> Nat]

Init ==
  /\ published = {}
  /\ stored = {}
  /\ claimed_at = [e \in Events |-> NULL]
  /\ claim_token = [e \in Events |-> NULL]
  /\ attempt_count = [e \in Events |-> 0]
  /\ drained_at = [e \in Events |-> NULL]
  /\ dead_lettered_at = [e \in Events |-> NULL]
  /\ jobs = [s \in Slots |-> 0]
  /\ dedup = [s \in Slots |-> 0]
  /\ pc = [d \in Drainers |-> "idle"]
  /\ pass = [d \in Drainers |-> 0]
  /\ token = [d \in Drainers |-> NULL]
  /\ batch = [d \in Drainers |-> {}]
  /\ cur = [d \in Drainers |-> NULL]
  /\ next = [d \in Drainers |-> 0]
  /\ settled = [d \in Drainers |-> 0]

-----------------------------------------------------------------------------
(* The table, the tokens and the queues.                                   *)

\* UPDATE ... SET column = value WHERE event_id IN rows
Set(column, rows, value) ==
  [e \in Events |-> IF e \in rows THEN value ELSE column[e]]

\* claimed_at < now() - CLAIM_LEASE_SECONDS
LeaseExpired(e) == claimed_at[e] # NULL /\ claimed_at[e] > Lease

\* Rows neither drained nor dead-lettered that no live claim covers.  The
\* mutants each drop one conjunct of the WHERE clause.
UnheldWithoutLease ==
  {e \in stored : /\ drained_at[e] = NULL
                  /\ dead_lettered_at[e] = NULL
                  /\ claimed_at[e] = NULL}
Unheld ==
  {e \in stored : /\ drained_at[e] = NULL
                  /\ dead_lettered_at[e] = NULL
                  /\ claimed_at[e] = NULL \/ LeaseExpired(e)}

Claimable == {e \in Unheld : attempt_count[e] < MaxAttempts}
ExhaustedOneEarly == {e \in Unheld : attempt_count[e] + 1 >= MaxAttempts}
Exhausted == {e \in Unheld : attempt_count[e] >= MaxAttempts}

\* attempt_count = attempt_count + 1 for the rows a claim takes.  The mutant
\* does not charge a claim that takes over an expired one.
ChargedUnlessTakenOver(rows) ==
  [e \in Events |-> IF e \in rows /\ claimed_at[e] = NULL
                    THEN attempt_count[e] + 1 ELSE attempt_count[e]]
Charged(rows) ==
  [e \in Events |-> IF e \in rows THEN attempt_count[e] + 1 ELSE attempt_count[e]]

\* ORDER BY occurred_at, event_id LIMIT drainBatchSize
Oldest(rows) ==
  {e \in rows : Cardinality({f \in rows : f < e}) < BatchSize}

\* A new UUID: no row and no run remembers it.
TokensInUse == {claim_token[e] : e \in Events} \cup {token[d] : d \in Drainers}
newId == CHOOSE t \in Tokens : t \notin TokensInUse

\* Queue.add with a deduplication id and ttl: the job is dropped while the
\* key of an earlier one lives.
AddJob(slot) ==
  IF dedup[slot] > 0
  THEN UNCHANGED redis
  ELSE /\ jobs' = [jobs EXCEPT ![slot] = @ + 1]
       /\ dedup' = [dedup EXCEPT ![slot] = DedupWindow]

-----------------------------------------------------------------------------
(* What is not the relay: producers, time, the nightly prune.              *)

\* A business transaction that published an event, or an auth trigger's
\* transaction, commits and its outbox row becomes visible.
Publish(e) ==
  /\ e \notin published
  /\ published' = published \cup {e}
  /\ stored' = stored \cup {e}
  /\ UNCHANGED <<columns, redis, run>>

Older(column, most) ==
  [e \in Events |-> IF column[e] = NULL \/ column[e] >= most
                    THEN column[e] ELSE column[e] + 1]

Tick ==
  /\ claimed_at' = Older(claimed_at, Lease + 1)
  /\ drained_at' = Older(drained_at, Retention + 1)
  /\ dead_lettered_at' = Older(dead_lettered_at, Retention + 1)
  /\ dedup' = [s \in Slots |-> IF dedup[s] > 0 THEN dedup[s] - 1 ELSE 0]
  /\ UNCHANGED <<published, stored, claim_token, attempt_count, jobs, run>>

\* pruneOnce: one DELETE of rows settled longer ago than the retention.  The
\* mutant takes a NULL timestamp for an old one.
PastRetentionOrNull(at) == at = NULL \/ at > Retention
PastRetention(at) == at # NULL /\ at > Retention
Prune ==
  LET gone == {e \in stored : \/ PastRetention(drained_at[e])
                              \/ PastRetention(dead_lettered_at[e])}
  IN  /\ gone # {}
      /\ stored' = stored \ gone
      /\ UNCHANGED <<published, columns, redis, run>>

-----------------------------------------------------------------------------
(* The drain run: drainUntilIdle around drainOnce.                         *)

Goto(d, label) == pc' = [pc EXCEPT ![d] = label]

\* BullMQ's scheduler hands the run to a worker: the first pass begins.
StartRun(d) ==
  /\ pc[d] = "idle"
  /\ Goto(d, "exhausted")
  /\ pass' = [pass EXCEPT ![d] = 1]
  /\ UNCHANGED <<table, redis, token, batch, cur, next, settled>>

\* quarantineExhaustedRows
QuarantineExhaustedRows(d) ==
  /\ pc[d] = "exhausted"
  /\ dead_lettered_at' = Set(dead_lettered_at, Exhausted, 0)
  /\ claimed_at' = Set(claimed_at, Exhausted, NULL)
  /\ claim_token' = Set(claim_token, Exhausted, NULL)
  /\ Goto(d, "claim")
  /\ UNCHANGED <<published, stored, attempt_count, drained_at, redis,
                 pass, token, batch, cur, next, settled>>

\* drainUntilIdle goes on to another pass only when this one has settled a
\* whole batch (n rows) and the budget allows it.
RunEnds(d, n) == n < BatchSize \/ pass[d] >= MaxPasses

EndPass(d, n) ==
  /\ IF RunEnds(d, n)
     THEN Goto(d, "idle") /\ pass' = [pass EXCEPT ![d] = 0]
     ELSE Goto(d, "exhausted") /\ pass' = [pass EXCEPT ![d] = @ + 1]
  /\ token' = [token EXCEPT ![d] = NULL]
  /\ cur' = [cur EXCEPT ![d] = NULL]
  /\ next' = [next EXCEPT ![d] = 0]
  /\ settled' = [settled EXCEPT ![d] = 0]

\* The for loop takes a row of rest (RETURNING promises no order) and begins
\* to dispatch it, or the pass ends with n rows settled.
NextRow(d, rest, n) ==
  /\ batch' = [batch EXCEPT ![d] = rest]
  /\ \/ /\ rest = {}
        /\ EndPass(d, n)
     \/ \E e \in rest :
          /\ cur' = [cur EXCEPT ![d] = e]
          /\ next' = [next EXCEPT ![d] = 1]
          /\ settled' = [settled EXCEPT ![d] = n]
          /\ Goto(d, "send")
          /\ UNCHANGED <<pass, token>>

\* The UPDATE of claimBatch on the rows its SELECT chose, and the count of
\* partitionByContract's invalid ones.
Claim(d, rows) ==
  /\ TokensInUse \cap Tokens # Tokens
  /\ token' = [token EXCEPT ![d] = newId]
  /\ claim_token' = Set(claim_token, rows, newId)
  /\ claimed_at' = Set(claimed_at, rows, 0)
  /\ attempt_count' = Charged(rows)
  /\ batch' = [batch EXCEPT ![d] = rows]
  /\ settled' = [settled EXCEPT ![d] = Cardinality(rows \cap Invalid)]
  /\ Goto(d, "invalid")
  /\ UNCHANGED <<published, stored, drained_at, dead_lettered_at, redis,
                 pass, cur, next>>

ClaimNothing(d) ==
  /\ batch' = [batch EXCEPT ![d] = {}]
  /\ EndPass(d, 0)
  /\ UNCHANGED <<table, redis>>

\* claimBatch.  SKIP LOCKED passes over a row that another run's statement has
\* locked at this moment.
ClaimBatch(d) ==
  /\ pc[d] = "claim"
  /\ \E locked \in SUBSET UNION {batch[o] : o \in Drainers \ {d}} :
       LET rows == Oldest(Claimable \ locked)
       IN  IF rows = {} THEN ClaimNothing(d) ELSE Claim(d, rows)

\* AND claim_token = $token.  The mutant drops the comparison.
HoldsAnyClaim(d, e) == e \in stored /\ claim_token[e] # NULL
Holds(d, e) == e \in stored /\ claim_token[e] # NULL /\ claim_token[e] = token[d]

\* quarantineRows(invalid, claimToken), then into the loop over publishable.
QuarantineRows(d) ==
  LET hit == {e \in batch[d] \cap Invalid : Holds(d, e)}
  IN  /\ pc[d] = "invalid"
      /\ dead_lettered_at' = Set(dead_lettered_at, hit, 0)
      /\ claimed_at' = Set(claimed_at, hit, NULL)
      /\ claim_token' = Set(claim_token, hit, NULL)
      /\ NextRow(d, batch[d] \ Invalid, settled[d])
      /\ UNCHANGED <<published, stored, attempt_count, drained_at, redis>>

\* dispatch: one send per subscriber, in the order of the list.
LastSubscriber(d) == next[d] = Subscribers[cur[d]]

Send(d) ==
  /\ pc[d] = "send"
  /\ AddJob(<<cur[d], next[d]>>)
  /\ IF LastSubscriber(d)
     THEN Goto(d, "mark") /\ UNCHANGED next
     ELSE next' = [next EXCEPT ![d] = @ + 1] /\ UNCHANGED pc
  /\ UNCHANGED <<table, pass, token, batch, cur, settled>>

\* A send throws: before the job was added, or after (the answer was lost).
SendThrows(d) ==
  /\ pc[d] = "send"
  /\ UNCHANGED redis \/ AddJob(<<cur[d], next[d]>>)
  /\ Goto(d, "release")
  /\ UNCHANGED <<table, pass, token, batch, cur, next, settled>>

\* markDrained's UPDATE; it may match no row, and the code does not look.
markDrained(d) ==
  LET hit == {e \in {cur[d]} : Holds(d, e) /\ dead_lettered_at[e] = NULL}
  IN  /\ drained_at' = Set(drained_at, hit, 0)
      /\ claimed_at' = Set(claimed_at, hit, NULL)
      /\ claim_token' = Set(claim_token, hit, NULL)
      /\ UNCHANGED <<published, stored, attempt_count, dead_lettered_at>>

MarkDrained(d) ==
  /\ pc[d] = "mark"
  /\ markDrained(d)
  /\ NextRow(d, batch[d] \ {cur[d]}, settled[d] + 1)
  /\ UNCHANGED redis

\* The statement throws: not executed, or executed and the answer lost.
MarkThrows(d) ==
  /\ pc[d] = "mark"
  /\ UNCHANGED table \/ markDrained(d)
  /\ Goto(d, "release")
  /\ UNCHANGED <<redis, pass, token, batch, cur, next, settled>>

\* The catch block: releaseClaim, and on to the next row.
ReleaseClaim(d) ==
  LET hit == {e \in {cur[d]} : Holds(d, e)}
  IN  /\ pc[d] = "release"
      /\ claimed_at' = Set(claimed_at, hit, NULL)
      /\ claim_token' = Set(claim_token, hit, NULL)
      /\ NextRow(d, batch[d] \ {cur[d]}, settled[d])
      /\ UNCHANGED <<published, stored, attempt_count, drained_at,
                     dead_lettered_at, redis>>

\* The process dies, or a statement outside the try block throws and the
\* exception ends the run; what the run remembered is gone.
Abort(d) ==
  /\ pc[d] # "idle"
  /\ Goto(d, "idle")
  /\ pass' = [pass EXCEPT ![d] = 0]
  /\ token' = [token EXCEPT ![d] = NULL]
  /\ batch' = [batch EXCEPT ![d] = {}]
  /\ cur' = [cur EXCEPT ![d] = NULL]
  /\ next' = [next EXCEPT ![d] = 0]
  /\ settled' = [settled EXCEPT ![d] = 0]
  /\ UNCHANGED <<table, redis>>

-----------------------------------------------------------------------------
Step(d) ==
  \/ QuarantineExhaustedRows(d)
  \/ ClaimBatch(d)
  \/ QuarantineRows(d)
  \/ Send(d)
  \/ SendThrows(d)
  \/ MarkDrained(d)
  \/ MarkThrows(d)
  \/ ReleaseClaim(d)

Next ==
  \/ \E e \in Events : Publish(e)
  \/ Tick
  \/ Prune
  \/ \E d \in Drainers : StartRun(d) \/ Step(d) \/ Abort(d)

Spec == Init /\ [][Next]_vars

\* The scheduler keeps starting runs and a run keeps going (WF).  A run may
\* die, but not every run dies before it reaches its claim (SF): each claim
\* charges an attempt, so dying after it cannot go on for ever.
Fairness ==
  /\ WF_vars(Tick)
  /\ \A d \in Drainers :
       /\ WF_vars(StartRun(d))
       /\ WF_vars(Step(d))
       /\ SF_vars(QuarantineExhaustedRows(d))
       /\ SF_vars(ClaimBatch(d))

FairSpec == Spec /\ Fairness

-----------------------------------------------------------------------------
(* Properties.                                                             *)

Drained(e) == drained_at[e] # NULL
Dead(e)    == dead_lettered_at[e] # NULL

\* A row is never both drained and dead-lettered, although quarantineRows and
\* releaseClaim look only at the token and two runs may work on one row.
NeverBothSettled == \A e \in Events : ~(Drained(e) /\ Dead(e))

\* At least once: a row is marked drained only after every subscriber's queue
\* has received a job for it, whichever runs sent them and however many of
\* them were dropped as duplicates.
DrainedMeansDelivered ==
  \A e \in Events : Drained(e) =>
    \A i \in 1..Subscribers[e] : jobs[<<e, i>>] > 0

\* A row with a valid contract is given up only after MAX_RELAY_ATTEMPTS
\* claims, and no row is ever claimed more often than that.
DeadMeansExhausted ==
  \A e \in Events : /\ attempt_count[e] <= MaxAttempts
                    /\ Dead(e) /\ e \notin Invalid => attempt_count[e] = MaxAttempts

\* Redelivery is bounded: a subscriber's queue gets at most one job per
\* attempt that was charged to the row, overlapping and stale runs included.
JobsWithinAttempts ==
  \A e \in Events, i \in 1..MaxFanout : jobs[<<e, i>>] <= attempt_count[e]

\* Nothing is lost: a published row leaves the table only once it has been
\* drained or dead-lettered, and an invalid one is never sent to anyone.
NothingLost ==
  /\ \A e \in published \ stored : Drained(e) \/ Dead(e)
  /\ \A e \in Invalid, i \in 1..MaxFanout : jobs[<<e, i>>] = 0

\* A claim whose lease is running is ended by the run that holds it, never by
\* the late statement of a run that has lost the row.
LiveClaimRespected ==
  [][\A e \in Events :
       claim_token[e] # NULL /\ claim_token'[e] # claim_token[e]
         => \/ LeaseExpired(e)
            \/ \E d \in Drainers : token[d] = claim_token[e] /\ e \in batch[d]]_vars

\* Settling is final: a drained or dead-lettered row is not claimed, charged,
\* released or settled differently ever again.
SettledIsFinal ==
  [][\A e \in Events : Drained(e) \/ Dead(e) =>
       /\ Drained(e)' = Drained(e)
       /\ Dead(e)' = Dead(e)
       /\ claim_token'[e] = NULL
       /\ attempt_count'[e] = attempt_count[e]]_vars

\* Every published row is eventually drained or dead-lettered, whatever
\* failures, crashes and overlaps happen on the way.
EventuallySettled ==
  \A e \in Events : e \in published ~> Drained(e) \/ Dead(e)

-----------------------------------------------------------------------------
(* The inductive invariant behind the safety properties.                   *)

\* A row with a token is in the table and not settled, token and lease come
\* and go together, and a settled row stays settled in one way.
RowInv ==
  \A e \in Events :
    /\ claim_token[e] = NULL <=> claimed_at[e] = NULL
    /\ claim_token[e] # NULL => e \in stored /\ ~Drained(e) /\ ~Dead(e)
    /\ Drained(e) \/ Dead(e) => e \in published
    /\ e \in published \ stored => Drained(e) \/ Dead(e)

\* What a run's place in the code says about its local variables.
RunInv ==
  \A d \in Drainers :
    /\ pc[d] \in {"idle", "exhausted", "claim"} => batch[d] = {} /\ token[d] = NULL
    /\ pc[d] \in {"idle", "exhausted", "claim", "invalid"} => cur[d] = NULL
    /\ pc[d] \in {"send", "mark", "release"}
         => cur[d] \in batch[d] /\ batch[d] \cap Invalid = {}
    /\ pc[d] = "send" => next[d] \in 1..Subscribers[cur[d]]

\* The queues of the current row's earlier subscribers have their job.
Sent(d, i) == jobs[<<cur[d], i>>] > 0
SentInv ==
  /\ \A s \in Slots : dedup[s] > 0 => jobs[s] > 0
  /\ \A d \in Drainers :
       /\ pc[d] = "send" => \A i \in 1..MaxFanout : i < next[d] => Sent(d, i)
       /\ pc[d] = "mark" => \A i \in 1..Subscribers[cur[d]] : Sent(d, i)

\* The runs that may still add a job for e's i-th subscriber have each been
\* charged for an attempt that has added none yet.
Owes(d, e, i) ==
  e \in batch[d] /\ (cur[d] = e => pc[d] = "send" /\ next[d] <= i)
Owing(e, i) == {d \in Drainers : Owes(d, e, i)}
ChargeInv ==
  \A e \in Events, i \in 1..MaxFanout :
    jobs[<<e, i>>] + Cardinality(Owing(e, i)) <= attempt_count[e]

IInv ==
  /\ TypeOK
  /\ RowInv
  /\ RunInv
  /\ SentInv
  /\ ChargeInv
  /\ NeverBothSettled
  /\ DrainedMeansDelivered
  /\ DeadMeansExhausted
  /\ NothingLost
=============================================================================
