---------------------------- MODULE OutboxProofs ----------------------------
(***************************************************************************)
(* Proofs about OutboxRelay, for every set of events and drain runs, every *)
(* batch size, attempt limit, lease and deduplication window: what one     *)
(* step does to the types, the rows, the runs and the queues; the          *)
(* invariants that follow; and that OutboxRelay implements EventDelivery.  *)
(***************************************************************************)
EXTENDS OutboxDelivery, Integers, FiniteSetTheorems, TLAPS

USE EventsAssumption, FanoutAssumption, LimitsAssumption, TimesAssumption,
    NullAssumption


-----------------------------------------------------------------------------
(* Lemmas about the operators the actions are built from.                  *)

\* Every event has between one and MaxFanout subscribers.
LEMMA FanoutType ==
  ASSUME NEW e \in Events
  PROVE  /\ Subscribers[e] \in Nat
         /\ 1 <= Subscribers[e] /\ Subscribers[e] <= MaxFanout /\ MaxFanout \in Nat
<1>1. Subscribers[e] \in 1..MaxFanout /\ MaxFanout \in Nat
  BY FanoutAssumption
<1> QED
  BY <1>1

\* A number up to m is one up to any larger n.
LEMMA Within ==
  ASSUME NEW m \in Nat, NEW n \in Nat, m <= n, NEW i \in 1..m
  PROVE  i \in 1..n /\ i <= m
OBVIOUS

\* An UPDATE of one column keeps the column's type.
LEMMA SetType ==
  ASSUME NEW T, NEW column \in [Events -> T], NEW rows, NEW value \in T
  PROVE  Set(column, rows, value) \in [Events -> T]
BY DEF Set

\* The age of a timestamp stays a number or NULL.
LEMMA OlderType ==
  ASSUME NEW column \in [Events -> Nat \cup {NULL}], NEW most \in Nat
  PROVE  Older(column, most) \in [Events -> Nat \cup {NULL}]
BY DEF Older

\* Adding a job only raises the count of its own slot, by at most one, and
\* leaves that slot with at least one job once keys belong to added jobs.
LEMMA AddJobEffect ==
  ASSUME TypeOK, NEW slot \in Slots, AddJob(slot)
  PROVE  /\ jobs' \in [Slots -> Nat]
         /\ dedup' \in [Slots -> Nat]
         /\ \A s \in Slots : s # slot => jobs'[s] = jobs[s] /\ dedup'[s] = dedup[s]
         /\ jobs'[slot] \in {jobs[slot], jobs[slot] + 1}
         /\ jobs'[slot] = jobs[slot] => dedup[slot] > 0 /\ dedup' = dedup
BY DEF AddJob, TypeOK, redis

\* A new token is a token no row and no run remembers.
LEMMA NewIdIsFresh ==
  ASSUME TokensInUse \cap Tokens # Tokens
  PROVE  newId \in Tokens /\ newId \notin TokensInUse
BY DEF newId

\* The run's own variables keep their types when its loop moves on.
RunTypeOK ==
  /\ pc \in [Drainers -> Labels]
  /\ pass \in [Drainers -> 0..MaxPasses]
  /\ token \in [Drainers -> Tokens \cup {NULL}]
  /\ batch \in [Drainers -> SUBSET Events]
  /\ cur \in [Drainers -> Events \cup {NULL}]
  /\ next \in [Drainers -> Nat]
  /\ settled \in [Drainers -> Nat]

\* The end of a pass of drainUntilIdle leaves the run well typed.
LEMMA EndPassType ==
  ASSUME RunTypeOK, NEW d \in Drainers, NEW n \in Nat, EndPass(d, n),
         batch' \in [Drainers -> SUBSET Events]
  PROVE  RunTypeOK'
<1>1. pass[d] \in Nat /\ pass[d] <= MaxPasses /\ MaxPasses \in Nat
  BY DEF RunTypeOK
<1>2. pc' \in [Drainers -> Labels]
  BY DEF RunTypeOK, EndPass, Goto, Labels
<1>3. pass' \in [Drainers -> 0..MaxPasses]
  <2>1. CASE RunEnds(d, n)
    BY <2>1, <1>1 DEF RunTypeOK, EndPass
  <2>2. CASE ~RunEnds(d, n)
    <3>1. pass[d] + 1 \in 0..MaxPasses
      BY <2>2, <1>1 DEF RunEnds
    <3> QED
      BY <2>2, <3>1 DEF RunTypeOK, EndPass
  <2> QED
    BY <2>1, <2>2
<1> QED
  BY <1>2, <1>3 DEF RunTypeOK, EndPass

\* Going on to the next row of the batch, or ending the pass, does too.
LEMMA NextRowType ==
  ASSUME RunTypeOK, NEW d \in Drainers, NEW rest \in SUBSET Events, NEW n \in Nat,
         NextRow(d, rest, n)
  PROVE  RunTypeOK'
<1>1. batch' \in [Drainers -> SUBSET Events]
  BY DEF NextRow, RunTypeOK
<1>2. CASE rest = {} /\ EndPass(d, n)
  BY <1>1, <1>2, EndPassType
<1>3. CASE \E e \in rest : /\ cur' = [cur EXCEPT ![d] = e]
                           /\ next' = [next EXCEPT ![d] = 1]
                           /\ settled' = [settled EXCEPT ![d] = n]
                           /\ Goto(d, "send")
                           /\ UNCHANGED <<pass, token>>
  BY <1>1, <1>3 DEF RunTypeOK, Goto, Labels
<1> QED
  BY <1>2, <1>3 DEF NextRow

\* How many rows a pass found invalid is a number (a fact about finite sets,
\* which OutboxRelayProofs proves).
CountType == \A rows \in SUBSET Events : Cardinality(rows) \in Nat

\* A claim takes claimable rows, or none and the pass ends.
LEMMA ClaimCases ==
  ASSUME NEW d \in Drainers, ClaimBatch(d)
  PROVE  \/ ClaimNothing(d)
         \/ \E rows \in SUBSET Claimable : rows # {} /\ Claim(d, rows)
<1>1. \A rows : Oldest(rows) \subseteq rows
  BY DEF Oldest
<1> QED
  BY Zenon, <1>1 DEF ClaimBatch

-----------------------------------------------------------------------------
(* Type correctness.                                                       *)

TableTypeOK ==
  /\ published \subseteq Events
  /\ stored \subseteq published
  /\ claimed_at \in [Events -> Nat \cup {NULL}]
  /\ claim_token \in [Events -> Tokens \cup {NULL}]
  /\ attempt_count \in [Events -> Nat]
  /\ drained_at \in [Events -> Nat \cup {NULL}]
  /\ dead_lettered_at \in [Events -> Nat \cup {NULL}]

RedisTypeOK ==
  /\ jobs \in [Slots -> Nat]
  /\ dedup \in [Slots -> Nat]

\* The three parts make up the type invariant, before and after a step.
LEMMA TypeParts ==
  /\ TypeOK <=> TableTypeOK /\ RedisTypeOK /\ RunTypeOK
  /\ TypeOK' <=> TableTypeOK' /\ RedisTypeOK' /\ RunTypeOK'
BY DEF TypeOK, TableTypeOK, RedisTypeOK, RunTypeOK

\* The stamp of markDrained leaves the table well typed.
LEMMA MarkDrainedType ==
  ASSUME TableTypeOK, NEW d \in Drainers, markDrained(d)
  PROVE  TableTypeOK'
BY Zenon, SetType DEF markDrained, TableTypeOK

\* The slot a run is sending to exists.
LEMMA CurSlot ==
  ASSUME TypeOK, RunInv, NEW d \in Drainers, pc[d] = "send"
  PROVE  /\ cur[d] \in Events
         /\ next[d] \in 1..MaxFanout
         /\ <<cur[d], next[d]>> \in Slots
<1>1. cur[d] \in batch[d] /\ next[d] \in 1..Subscribers[cur[d]]
  BY DEF RunInv
<1>2. cur[d] \in Events
  BY <1>1 DEF TypeOK
<1>3. Subscribers[cur[d]] \in 1..MaxFanout
  BY Zenon, <1>2
<1>4. next[d] \in 1..MaxFanout
  BY <1>1, <1>3
<1> QED
  BY <1>2, <1>4 DEF Slots

\* What each action of a run does to the types, given the invariant RunInv.
LEMMA StepType ==
  ASSUME CountType, TypeOK, RunInv, NEW d \in Drainers, Step(d)
  PROVE  TypeOK'
<1> USE TypeParts
<1>1. CASE QuarantineExhaustedRows(d)
  <2>1. TableTypeOK'
    BY Zenon, <1>1, SetType DEF QuarantineExhaustedRows, TableTypeOK
  <2>2. RedisTypeOK' /\ RunTypeOK'
    BY <1>1 DEF QuarantineExhaustedRows, RedisTypeOK, RunTypeOK, redis, Goto, Labels
  <2> QED
    BY <2>1, <2>2
<1>2. CASE ClaimBatch(d)
  <2>1. CASE ClaimNothing(d)
    <3>1. TableTypeOK' /\ RedisTypeOK'
      BY <2>1 DEF ClaimNothing, table, columns, redis, TableTypeOK, RedisTypeOK
    <3>2. batch' \in [Drainers -> SUBSET Events]
      BY <2>1 DEF ClaimNothing, RunTypeOK
    <3>3. RunTypeOK'
      BY <2>1, <3>2, EndPassType DEF ClaimNothing
    <3> QED
      BY <3>1, <3>3
  <2>2. ASSUME NEW rows \in SUBSET Claimable, Claim(d, rows)
        PROVE  TypeOK'
    <3>1. newId \in Tokens /\ rows \subseteq Events
      BY <2>2, NewIdIsFresh DEF Claim, Claimable, Unheld, TableTypeOK
    <3>2. Cardinality(rows \cap Invalid) \in Nat
      BY <3>1 DEF CountType
    <3>3. attempt_count' \in [Events -> Nat]
      BY <2>2 DEF Claim, Charged, TableTypeOK
    <3>4. TableTypeOK'
      BY Zenon, <2>2, <3>1, <3>3, SetType DEF Claim, TableTypeOK
    <3>5. RedisTypeOK'
      BY <2>2 DEF Claim, redis, RedisTypeOK
    <3>6. RunTypeOK'
      BY <2>2, <3>1, <3>2 DEF Claim, RunTypeOK, Goto, Labels
    <3> QED
      BY <3>4, <3>5, <3>6
  <2> QED
    BY <1>2, <2>1, <2>2, ClaimCases
<1>3. CASE QuarantineRows(d)
  <2>1. TableTypeOK'
    BY Zenon, <1>3, SetType DEF QuarantineRows, TableTypeOK
  <2>2. RedisTypeOK'
    BY <1>3 DEF QuarantineRows, RedisTypeOK, redis
  <2>3. RunTypeOK'
    <3>1. batch[d] \ Invalid \in SUBSET Events /\ settled[d] \in Nat
      BY DEF RunTypeOK
    <3> QED
      BY <1>3, <3>1, NextRowType DEF QuarantineRows
  <2> QED
    BY <2>1, <2>2, <2>3
<1>4. CASE Send(d)
  <2>1. <<cur[d], next[d]>> \in Slots
    BY <1>4, CurSlot DEF Send
  <2>2. RedisTypeOK'
    BY <1>4, <2>1, AddJobEffect DEF Send, RedisTypeOK
  <2>3. TableTypeOK'
    BY <1>4 DEF Send, table, columns, TableTypeOK
  <2>4. RunTypeOK'
    BY <1>4 DEF Send, RunTypeOK, Goto, Labels
  <2> QED
    BY <2>2, <2>3, <2>4
<1>5. CASE SendThrows(d)
  <2>1. <<cur[d], next[d]>> \in Slots
    BY <1>5, CurSlot DEF SendThrows
  <2>2. RedisTypeOK'
    BY <1>5, <2>1, AddJobEffect DEF SendThrows, RedisTypeOK, redis
  <2>3. TableTypeOK' /\ RunTypeOK'
    BY <1>5 DEF SendThrows, table, columns, TableTypeOK, RunTypeOK, Goto, Labels
  <2> QED
    BY <2>2, <2>3
<1>6. CASE MarkDrained(d)
  <2>1. TableTypeOK' /\ RedisTypeOK'
    BY <1>6, MarkDrainedType DEF MarkDrained, RedisTypeOK, redis
  <2>2. batch[d] \ {cur[d]} \in SUBSET Events /\ settled[d] + 1 \in Nat
    BY DEF RunTypeOK
  <2> QED
    BY <1>6, <2>1, <2>2, NextRowType DEF MarkDrained
<1>7. CASE MarkThrows(d)
  <2>1. TableTypeOK'
    BY <1>7, MarkDrainedType DEF MarkThrows, TableTypeOK, table, columns
  <2>2. RedisTypeOK' /\ RunTypeOK'
    BY <1>7 DEF MarkThrows, RedisTypeOK, redis, RunTypeOK, Goto, Labels
  <2> QED
    BY <2>1, <2>2
<1>8. CASE ReleaseClaim(d)
  <2>1. TableTypeOK' /\ RedisTypeOK'
    BY Zenon, <1>8, SetType DEF ReleaseClaim, TableTypeOK, RedisTypeOK, redis
  <2>2. batch[d] \ {cur[d]} \in SUBSET Events /\ settled[d] \in Nat
    BY DEF RunTypeOK
  <2> QED
    BY <1>8, <2>1, <2>2, NextRowType DEF ReleaseClaim
<1> QED
  BY <1>1, <1>2, <1>3, <1>4, <1>5, <1>6, <1>7, <1>8 DEF Step

\* Every step keeps the types.
LEMMA NextType ==
  ASSUME CountType, TypeOK, RunInv, [Next]_vars
  PROVE  TypeOK'
<1> USE TypeParts
<1>1. CASE \E e \in Events : Publish(e)
  BY <1>1 DEF Publish, columns, redis, run, TypeOK
<1>2. CASE Tick
  <2>1. TableTypeOK'
    BY <1>2, OlderType DEF Tick, TableTypeOK
  <2>2. RedisTypeOK' /\ RunTypeOK'
    BY <1>2 DEF Tick, RedisTypeOK, RunTypeOK, run
  <2> QED
    BY <2>1, <2>2
<1>3. CASE Prune
  BY Zenon, <1>3 DEF Prune, columns, redis, run, TypeOK
<1>4. ASSUME NEW d \in Drainers, StartRun(d)
      PROVE  TypeOK'
  BY <1>4 DEF StartRun, TypeOK, table, columns, redis, Goto, Labels
<1>5. ASSUME NEW d \in Drainers, Abort(d)
      PROVE  TypeOK'
  BY <1>5 DEF Abort, TypeOK, table, columns, redis, Goto, Labels
<1>6. CASE UNCHANGED vars
  BY <1>6 DEF vars, table, columns, redis, run, TypeOK
<1> QED
  BY <1>1, <1>2, <1>3, <1>4, <1>5, <1>6, StepType DEF Next

-----------------------------------------------------------------------------
(* The rows of the table.                                                  *)

RowFacts == RowInv /\ NeverBothSettled /\ DeadMeansExhausted

\* The settling of e, and who may end a claim on it: what SettledIsFinal and
\* LiveClaimRespected say of one step.
RowStep ==
  \A e \in Events :
    /\ Drained(e) \/ Dead(e) => /\ Drained(e)' = Drained(e)
                                /\ Dead(e)' = Dead(e)
                                /\ claim_token'[e] = NULL
                                /\ attempt_count'[e] = attempt_count[e]
    /\ claim_token[e] # NULL /\ claim_token'[e] # claim_token[e]
         => \/ LeaseExpired(e)
            \/ \E d \in Drainers : token[d] = claim_token[e] /\ e \in batch[d]

\* markDrained stamps a row only while this run's token is on it.
LEMMA MarkDrainedRows ==
  ASSUME TypeOK, RowFacts, NEW d \in Drainers, cur[d] \in batch[d], markDrained(d)
  PROVE  RowFacts' /\ RowStep
<1>1. ASSUME NEW e \in Events, e # cur[d] \/ ~Holds(d, e)
      PROVE  /\ drained_at'[e] = drained_at[e]
             /\ claimed_at'[e] = claimed_at[e]
             /\ claim_token'[e] = claim_token[e]
  BY <1>1 DEF markDrained, Set
<1>2. ASSUME NEW e \in Events, e = cur[d] /\ Holds(d, e)
      PROVE  /\ drained_at'[e] = 0 /\ drained_at[e] = NULL
             /\ claimed_at'[e] = NULL
             /\ claim_token'[e] = NULL /\ claim_token[e] # NULL
             /\ dead_lettered_at[e] = NULL /\ e \in stored
             /\ token[d] = claim_token[e]
  BY <1>2 DEF markDrained, Set, Holds, RowFacts, RowInv, Drained, Dead
<1>3. UNCHANGED <<published, stored, attempt_count, dead_lettered_at>>
  BY DEF markDrained
<1>4. stored \subseteq published
  BY DEF TypeOK
<1>5. RowInv'
  BY <1>1, <1>2, <1>3, <1>4 DEF RowFacts, RowInv, Drained, Dead
<1>6. NeverBothSettled' /\ DeadMeansExhausted'
  BY <1>1, <1>2, <1>3 DEF RowFacts, NeverBothSettled, DeadMeansExhausted, Drained, Dead
<1>7. RowStep
  <2> SUFFICES ASSUME NEW e \in Events
               PROVE  /\ Drained(e) \/ Dead(e) => /\ Drained(e)' = Drained(e)
                                                  /\ Dead(e)' = Dead(e)
                                                  /\ claim_token'[e] = NULL
                                                  /\ attempt_count'[e] = attempt_count[e]
                      /\ claim_token'[e] # claim_token[e] =>
                           token[d] = claim_token[e] /\ e \in batch[d]
    BY DEF RowStep
  <2>1. CASE e = cur[d] /\ Holds(d, e)
    BY Zenon, <1>2, <2>1 DEF Drained, Dead
  <2>2. CASE e # cur[d] \/ ~Holds(d, e)
    BY Zenon, <1>1, <1>3, <2>2 DEF RowFacts, RowInv, Drained, Dead
  <2> QED
    BY <2>1, <2>2
<1> QED
  BY <1>5, <1>6, <1>7 DEF RowFacts

\* A step that leaves the table alone.
LEMMA RowsUnchanged ==
  ASSUME TypeOK, RowFacts, UNCHANGED table
  PROVE  RowFacts' /\ RowStep
BY DEF RowFacts, RowInv, NeverBothSettled, DeadMeansExhausted, RowStep, Drained, Dead,
       table, columns

\* Quarantine of rows that are exhausted and unheld, or claimed by this run.
LEMMA QuarantineRowFacts ==
  ASSUME TypeOK, RowFacts, NEW rows \in SUBSET stored,
         \A e \in rows : /\ drained_at[e] = NULL /\ dead_lettered_at[e] = NULL
                         /\ e \in Invalid \/ attempt_count[e] = MaxAttempts
                         /\ \/ claim_token[e] = NULL \/ LeaseExpired(e)
                            \/ \E d \in Drainers :
                                 token[d] = claim_token[e] /\ e \in batch[d],
         dead_lettered_at' = Set(dead_lettered_at, rows, 0),
         claimed_at' = Set(claimed_at, rows, NULL),
         claim_token' = Set(claim_token, rows, NULL),
         UNCHANGED <<published, stored, attempt_count, drained_at>>
  PROVE  RowFacts' /\ RowStep
<1>1. ASSUME NEW e \in Events, e \notin rows
      PROVE  /\ dead_lettered_at'[e] = dead_lettered_at[e]
             /\ claimed_at'[e] = claimed_at[e]
             /\ claim_token'[e] = claim_token[e]
  BY <1>1 DEF Set
<1>2. ASSUME NEW e \in Events, e \in rows
      PROVE  /\ dead_lettered_at'[e] = 0
             /\ claimed_at'[e] = NULL
             /\ claim_token'[e] = NULL
  BY <1>2 DEF Set
<1>3. stored \subseteq published
  BY DEF TypeOK
<1>4. RowInv'
  <2> SUFFICES ASSUME NEW e \in Events
               PROVE  /\ claim_token'[e] = NULL <=> claimed_at'[e] = NULL
                      /\ claim_token'[e] # NULL => e \in stored' /\ ~Drained(e)' /\ ~Dead(e)'
                      /\ Drained(e)' \/ Dead(e)' => e \in published'
                      /\ e \in published' \ stored' => Drained(e)' \/ Dead(e)'
    BY DEF RowInv
  <2>1. CASE e \in rows
    BY Zenon, <1>2, <1>3, <2>1 DEF Drained, Dead
  <2>2. CASE e \notin rows
    BY <1>1, <2>2 DEF RowFacts, RowInv, Drained, Dead
  <2> QED
    BY <2>1, <2>2
<1>5. NeverBothSettled' /\ DeadMeansExhausted'
  BY Zenon, <1>1, <1>2 DEF RowFacts, NeverBothSettled, DeadMeansExhausted, Drained, Dead
<1>6. RowStep
  BY <1>1, <1>2 DEF RowFacts, RowInv, RowStep, Drained, Dead
<1> QED
  BY <1>4, <1>5, <1>6 DEF RowFacts

\* A run is only ever allowed to end its own claim, or one that has expired.
LEMMA StepRows ==
  ASSUME TypeOK, RowFacts, RunInv, NEW d \in Drainers, Step(d)
  PROVE  RowFacts' /\ RowStep
<1>1. CASE QuarantineExhaustedRows(d)
  <2>1. Exhausted \in SUBSET stored
    BY DEF Exhausted, Unheld
  <2>2. ASSUME NEW e \in Exhausted
        PROVE  /\ drained_at[e] = NULL /\ dead_lettered_at[e] = NULL
               /\ attempt_count[e] = MaxAttempts
               /\ claim_token[e] = NULL \/ LeaseExpired(e)
    <3>1. e \in Events /\ attempt_count[e] \in Nat
      BY <2>1 DEF TypeOK
    <3>2. attempt_count[e] >= MaxAttempts /\ attempt_count[e] <= MaxAttempts
      BY <3>1 DEF Exhausted, RowFacts, DeadMeansExhausted
    <3> QED
      BY <3>1, <3>2 DEF Exhausted, Unheld, RowFacts, RowInv
  <2> QED
    BY <1>1, <2>1, <2>2, QuarantineRowFacts DEF QuarantineExhaustedRows
<1>2. CASE ClaimBatch(d)
  <2>1. CASE ClaimNothing(d)
    BY <2>1, RowsUnchanged DEF ClaimNothing
  <2>2. ASSUME NEW rows \in SUBSET Claimable, Claim(d, rows)
        PROVE  RowFacts' /\ RowStep
    <3>1. newId # NULL
      BY <2>2, NewIdIsFresh DEF Claim
    <3>2. ASSUME NEW e \in Events, e \in rows
          PROVE  /\ e \in stored /\ drained_at[e] = NULL /\ dead_lettered_at[e] = NULL
                 /\ claim_token[e] = NULL \/ LeaseExpired(e)
                 /\ claim_token'[e] = newId /\ claimed_at'[e] = 0
                 /\ attempt_count'[e] <= MaxAttempts
      BY <2>2, <3>2 DEF Claim, Claimable, Unheld, Set, Charged, RowFacts, RowInv, TypeOK
    <3>3. ASSUME NEW e \in Events, e \notin rows
          PROVE  /\ claim_token'[e] = claim_token[e] /\ claimed_at'[e] = claimed_at[e]
                 /\ attempt_count'[e] = attempt_count[e]
      BY Zenon, <2>2, <3>3 DEF Claim, Set, Charged
    <3>4. UNCHANGED <<published, stored, drained_at, dead_lettered_at>>
      BY <2>2 DEF Claim
    <3>5. RowInv'
      BY <3>1, <3>2, <3>3, <3>4 DEF RowFacts, RowInv, Drained, Dead
    <3>6. NeverBothSettled' /\ DeadMeansExhausted'
      BY <3>2, <3>3, <3>4 DEF RowFacts, NeverBothSettled, DeadMeansExhausted, Drained, Dead
    <3>7. RowStep
      BY Zenon, <3>2, <3>3, <3>4 DEF RowFacts, RowInv, RowStep, Drained, Dead
    <3> QED
      BY <3>5, <3>6, <3>7 DEF RowFacts
  <2> QED
    BY <1>2, <2>1, <2>2, ClaimCases
<1>3. CASE QuarantineRows(d)
  <2> DEFINE hit == {e \in batch[d] \cap Invalid : Holds(d, e)}
  <2>1. hit \in SUBSET stored
    BY DEF Holds
  <2>2. ASSUME NEW e \in hit
        PROVE  /\ drained_at[e] = NULL /\ dead_lettered_at[e] = NULL
               /\ e \in Invalid
               /\ token[d] = claim_token[e] /\ e \in batch[d]
    BY Zenon DEF Holds, RowFacts, RowInv, Drained, Dead
  <2> QED
    BY SMTT(30), <1>3, <2>1, <2>2, QuarantineRowFacts DEF QuarantineRows
<1>4. CASE Send(d) \/ SendThrows(d)
  BY <1>4, RowsUnchanged DEF Send, SendThrows
<1>5. CASE MarkDrained(d) \/ MarkThrows(d)
  <2>1. cur[d] \in batch[d]
    BY <1>5 DEF MarkDrained, MarkThrows, RunInv
  <2> QED
    BY Zenon, <1>5, <2>1, MarkDrainedRows, RowsUnchanged DEF MarkDrained, MarkThrows
<1>6. CASE ReleaseClaim(d)
  <2>1. cur[d] \in batch[d]
    BY Zenon, <1>6 DEF ReleaseClaim, RunInv
  <2>2. ASSUME NEW e \in Events, ~(e = cur[d] /\ Holds(d, e))
        PROVE  claimed_at'[e] = claimed_at[e] /\ claim_token'[e] = claim_token[e]
    BY <1>6, <2>2 DEF ReleaseClaim, Set
  <2>3. ASSUME NEW e \in Events, e = cur[d] /\ Holds(d, e)
        PROVE  /\ claimed_at'[e] = NULL /\ claim_token'[e] = NULL
               /\ token[d] = claim_token[e] /\ e \in batch[d]
    BY Zenon, <1>6, <2>1, <2>3 DEF ReleaseClaim, Set, Holds
  <2>4. UNCHANGED <<published, stored, attempt_count, drained_at, dead_lettered_at>>
    BY <1>6 DEF ReleaseClaim
  <2> QED
    BY Zenon, <2>2, <2>3, <2>4
    DEF RowFacts, RowInv, NeverBothSettled, DeadMeansExhausted, RowStep, Drained, Dead
<1> QED
  BY Zenon, <1>1, <1>2, <1>3, <1>4, <1>5, <1>6 DEF Step

\* Every step keeps the facts about rows, and changes a row only as RowStep allows.
LEMMA NextRows ==
  ASSUME TypeOK, RowFacts, RunInv, [Next]_vars
  PROVE  RowFacts' /\ RowStep
<1>1. ASSUME NEW e \in Events, Publish(e)
      PROVE  RowFacts' /\ RowStep
  BY <1>1 DEF Publish, columns, RowFacts, RowInv, NeverBothSettled, DeadMeansExhausted,
              RowStep, Drained, Dead
<1>2. CASE Tick
  <2>1. \A e \in Events : /\ claimed_at'[e] = NULL <=> claimed_at[e] = NULL
                          /\ drained_at'[e] = NULL <=> drained_at[e] = NULL
                          /\ dead_lettered_at'[e] = NULL <=> dead_lettered_at[e] = NULL
    BY <1>2 DEF Tick, Older, TypeOK
  <2>2. UNCHANGED <<published, stored, claim_token, attempt_count>>
    BY <1>2 DEF Tick
  <2> QED
    BY <2>1, <2>2
    DEF RowFacts, RowInv, NeverBothSettled, DeadMeansExhausted, RowStep, Drained, Dead
<1>3. CASE Prune
  <2>1. UNCHANGED <<published, columns>> /\ stored' \subseteq stored
    BY <1>3 DEF Prune
  <2>2. \A e \in stored \ stored' : Drained(e) \/ Dead(e)
    BY <1>3 DEF Prune, PastRetention, Drained, Dead
  <2> QED
    BY <2>1, <2>2 DEF columns, RowFacts, RowInv, NeverBothSettled, DeadMeansExhausted,
                      RowStep, Drained, Dead
<1>4. CASE \E d \in Drainers : StartRun(d) \/ Abort(d)
  BY <1>4, RowsUnchanged DEF StartRun, Abort
<1>5. CASE UNCHANGED vars
  BY ZenonT(30), <1>5, RowsUnchanged DEF vars
<1> QED
  BY Zenon, <1>1, <1>2, <1>3, <1>4, <1>5, StepRows DEF Next
-----------------------------------------------------------------------------
(* The runs.                                                               *)

\* RunInv for one run.
RunAt(d) ==
  /\ pc[d] \in {"idle", "exhausted", "claim"} => batch[d] = {} /\ token[d] = NULL
  /\ pc[d] \in {"idle", "exhausted", "claim", "invalid"} => cur[d] = NULL
  /\ pc[d] \in {"send", "mark", "release"}
       => cur[d] \in batch[d] /\ batch[d] \cap Invalid = {}
  /\ pc[d] = "send" => next[d] \in 1..Subscribers[cur[d]]

\* A step of one run leaves the local variables of the others alone.
LEMMA OthersUnchanged ==
  ASSUME TypeOK, NEW d \in Drainers, StartRun(d) \/ Step(d) \/ Abort(d),
         NEW o \in Drainers, o # d
  PROVE  /\ pc'[o] = pc[o] /\ token'[o] = token[o] /\ batch'[o] = batch[o]
         /\ cur'[o] = cur[o] /\ next'[o] = next[o]
<1> USE DEF TypeOK, Goto
<1>1. CASE StartRun(d) \/ Abort(d) \/ QuarantineExhaustedRows(d) \/ Send(d)
           \/ SendThrows(d) \/ MarkThrows(d)
  BY <1>1 DEF StartRun, Abort, QuarantineExhaustedRows, Send, SendThrows, MarkThrows
<1>2. ASSUME NEW rest, NEW n, NextRow(d, rest, n)
      PROVE  /\ pc'[o] = pc[o] /\ token'[o] = token[o] /\ batch'[o] = batch[o]
             /\ cur'[o] = cur[o] /\ next'[o] = next[o]
  BY SMTT(30), <1>2 DEF NextRow, EndPass
<1>3. CASE QuarantineRows(d) \/ MarkDrained(d) \/ ReleaseClaim(d)
  BY ZenonT(30), <1>2, <1>3 DEF QuarantineRows, MarkDrained, ReleaseClaim
<1>4. CASE ClaimBatch(d)
  <2>1. CASE ClaimNothing(d)
    BY <2>1 DEF ClaimNothing, EndPass
  <2>2. ASSUME NEW rows, Claim(d, rows)
        PROVE  /\ pc'[o] = pc[o] /\ token'[o] = token[o] /\ batch'[o] = batch[o]
               /\ cur'[o] = cur[o] /\ next'[o] = next[o]
    BY <2>2 DEF Claim
  <2> QED
    BY Zenon, <1>4, <2>1, <2>2, ClaimCases
<1> QED
  BY Zenon, <1>1, <1>3, <1>4 DEF Step

\* Moving to the next row ends the pass or begins to dispatch a row of rest.
LEMMA NextRowEffect ==
  ASSUME TypeOK, NEW d \in Drainers, NEW rest, NEW n, NextRow(d, rest, n)
  PROVE  /\ batch'[d] = rest
         /\ \/ /\ rest = {} /\ pc'[d] \in {"idle", "exhausted"}
               /\ token'[d] = NULL /\ cur'[d] = NULL
            \/ cur'[d] \in rest /\ next'[d] = 1 /\ pc'[d] = "send"
BY DEF NextRow, EndPass, Goto, TypeOK

\* The next row of a batch is a publishable one, and its first subscriber exists.
LEMMA NextRowRun ==
  ASSUME TypeOK, NEW d \in Drainers, NEW rest \in SUBSET Events, NEW n,
         rest \cap Invalid = {}, NextRow(d, rest, n)
  PROVE  RunAt(d)'
<1>1. \A e \in Events : 1 \in 1..Subscribers[e]
  OBVIOUS
<1> QED
  BY Zenon, <1>1, NextRowEffect DEF RunAt

\* A step of a run leaves that run where RunInv says it can be.
LEMMA StepRun ==
  ASSUME TypeOK, RunInv, NEW d \in Drainers, StartRun(d) \/ Step(d) \/ Abort(d)
  PROVE  RunAt(d)'
<1>0. RunAt(d) /\ batch[d] \in SUBSET Events
  BY DEF RunInv, RunAt, TypeOK
<1>1. CASE StartRun(d) \/ Abort(d) \/ QuarantineExhaustedRows(d)
  <2>1. CASE StartRun(d)
    BY Zenon, <1>0, <2>1 DEF StartRun, RunAt, Goto, TypeOK
  <2>2. CASE Abort(d)
    BY Zenon, <2>2 DEF Abort, RunAt, Goto, TypeOK
  <2>3. CASE QuarantineExhaustedRows(d)
    BY <1>0, <2>3 DEF QuarantineExhaustedRows, RunAt, Goto, TypeOK
  <2> QED
    BY Zenon, <1>1, <2>1, <2>2, <2>3
<1>2. CASE ClaimBatch(d)
  <2>1. CASE ClaimNothing(d)
    BY ZenonT(30), <2>1 DEF ClaimNothing, EndPass, RunAt, Goto, TypeOK
  <2>2. ASSUME NEW rows, Claim(d, rows)
        PROVE  RunAt(d)'
    BY Zenon, <1>0, <1>2, <2>2 DEF ClaimBatch, Claim, RunAt, Goto, TypeOK
  <2> QED
    BY <1>2, <2>1, <2>2, ClaimCases
<1>3. CASE QuarantineRows(d)
  <2>1. batch[d] \ Invalid \in SUBSET Events /\ (batch[d] \ Invalid) \cap Invalid = {}
    BY Zenon, <1>0
  <2>2. NextRow(d, batch[d] \ Invalid, settled[d])
    BY <1>3 DEF QuarantineRows
  <2> QED
    BY <2>1, <2>2, NextRowRun
<1>4. CASE Send(d)
  <2>1. cur[d] \in Events /\ next[d] \in 1..Subscribers[cur[d]]
    BY Zenon, <1>0, <1>4, CurSlot DEF Send, RunAt
  <2>2. CASE LastSubscriber(d)
    BY Zenon, <1>0, <1>4, <2>2 DEF Send, RunAt, Goto, TypeOK
  <2>3. CASE ~LastSubscriber(d)
    <3>1. Subscribers[cur[d]] \in Nat
      BY Zenon, <2>1, FanoutType
    <3>2. next[d] + 1 \in 1..Subscribers[cur[d]]
      BY <2>1, <2>3, <3>1 DEF LastSubscriber
    <3> QED
      BY <1>0, <1>4, <2>3, <3>2 DEF Send, RunAt, TypeOK
  <2> QED
    BY Zenon, <2>2, <2>3
<1>5. CASE SendThrows(d) \/ MarkThrows(d)
  BY SMTT(30), <1>0, <1>5 DEF SendThrows, MarkThrows, RunAt, Goto, TypeOK
<1>6. CASE MarkDrained(d) \/ ReleaseClaim(d)
  <2>1. batch[d] \ {cur[d]} \in SUBSET Events /\ (batch[d] \ {cur[d]}) \cap Invalid = {}
    BY Zenon, <1>0, <1>6 DEF MarkDrained, ReleaseClaim, RunAt
  <2> QED
    BY Zenon, <1>6, <2>1, NextRowRun DEF MarkDrained, ReleaseClaim
<1> QED
  BY Zenon, <1>1, <1>2, <1>3, <1>4, <1>5, <1>6 DEF Step
\* A step in which no run moves leaves every run's local variables alone.
LEMMA NoRunMoves ==
  ASSUME [Next]_vars
  PROVE  \/ UNCHANGED run /\ UNCHANGED <<jobs, attempt_count>>
         \/ \E d \in Drainers : StartRun(d) \/ Step(d) \/ Abort(d)
BY DEF Next, vars, table, columns, redis, run, Publish, Tick, Prune

\* Every step keeps RunInv.
LEMMA NextRun ==
  ASSUME TypeOK, RunInv, [Next]_vars
  PROVE  RunInv'
<1>1. CASE UNCHANGED run
  BY Zenon, <1>1 DEF run, RunInv
<1>2. ASSUME NEW d \in Drainers, StartRun(d) \/ Step(d) \/ Abort(d),
             NEW o \in Drainers
      PROVE  RunAt(o)'
  <2>1. RunAt(o)
    BY DEF RunInv, RunAt
  <2>2. CASE o = d
    BY Zenon, <1>2, <2>2, StepRun
  <2>3. CASE o # d
    BY SMTT(30), <1>2, <2>1, <2>3, OthersUnchanged DEF RunAt
  <2> QED
    BY Zenon, <2>2, <2>3
<1>3. (\A o \in Drainers : RunAt(o)') => RunInv'
  BY DEF RunInv, RunAt
<1> QED
  BY SMTT(30), <1>1, <1>2, <1>3, NoRunMoves

-----------------------------------------------------------------------------
(* The queues.                                                             *)

\* Jobs are only added, one at a time, by a run that is sending; and the
\* deduplication key of a slot belongs to a job that was added to it.
SendStep(d) ==
  /\ pc[d] = "send"
  /\ Send(d) \/ SendThrows(d)
  /\ AddJob(<<cur[d], next[d]>>)

KeyedJobs == \A s \in Slots : dedup[s] > 0 => jobs[s] > 0

\* Jobs are only added, by a send, and every deduplication key has its job.
LEMMA RedisStep ==
  ASSUME TypeOK, RunInv, KeyedJobs, [Next]_vars
  PROVE  /\ KeyedJobs'
         /\ jobs' = jobs \/ \E d \in Drainers : SendStep(d)
<1>1. ASSUME NEW d \in Drainers, SendStep(d)
      PROVE  KeyedJobs'
  <2> DEFINE slot == <<cur[d], next[d]>>
  <2>1. slot \in Slots
    BY Zenon, <1>1, CurSlot DEF SendStep
  <2>2. \A s \in Slots : s # slot => jobs'[s] = jobs[s] /\ dedup'[s] = dedup[s]
    BY <1>1, <2>1, AddJobEffect DEF SendStep
  <2>3. dedup'[slot] > 0 => jobs'[slot] > 0
    <3>1. jobs[slot] \in Nat
      BY <2>1 DEF TypeOK
    <3> QED
      BY <1>1, <2>1, <3>1, AddJobEffect DEF SendStep, KeyedJobs
  <2> QED
    BY <2>2, <2>3 DEF KeyedJobs
<1>2. CASE UNCHANGED redis
  BY <1>2 DEF redis, KeyedJobs
<1>3. CASE Tick
  <2>1. jobs' = jobs /\ \A s \in Slots : dedup'[s] > 0 => dedup[s] > 0
    BY SMTT(30), <1>3 DEF Tick, TypeOK
  <2> QED
    BY <2>1 DEF KeyedJobs
<1>4. \/ Tick \/ UNCHANGED redis
      \/ \E d \in Drainers : SendStep(d)
  <2>1. ASSUME NEW d \in Drainers, Step(d)
        PROVE  UNCHANGED redis \/ SendStep(d)
    BY Zenon, <2>1, ClaimCases
    DEF Step, QuarantineExhaustedRows, Claim, ClaimNothing, QuarantineRows, Send,
        SendThrows, MarkDrained, MarkThrows, ReleaseClaim, SendStep, redis
  <2> QED
    BY <2>1 DEF Next, Publish, Prune, StartRun, Abort, vars
<1> QED
  BY <1>1, <1>2, <1>3, <1>4 DEF redis

\* After the step that adds it, a slot has a job, whether it was dropped or not.
LEMMA SlotServed ==
  ASSUME TypeOK, RunInv, KeyedJobs, NEW d \in Drainers, SendStep(d)
  PROVE  /\ jobs'[<<cur[d], next[d]>>] > 0
         /\ \A s \in Slots : jobs[s] > 0 => jobs'[s] > 0
<1> DEFINE slot == <<cur[d], next[d]>>
<1>1. slot \in Slots /\ jobs[slot] \in Nat
  BY CurSlot DEF SendStep, TypeOK
<1>2. jobs'[slot] > 0
  BY <1>1, AddJobEffect DEF SendStep, KeyedJobs
<1> QED
  BY Zenon, <1>1, <1>2, AddJobEffect DEF SendStep
\* SentInv for one run.
SentAt(d) ==
  /\ pc[d] = "send" => \A i \in 1..MaxFanout : i < next[d] => Sent(d, i)
  /\ pc[d] = "mark" => \A i \in 1..Subscribers[cur[d]] : Sent(d, i)

\* A job that was added stays.
LEMMA JobsStay ==
  ASSUME TypeOK, RunInv, KeyedJobs, [Next]_vars
  PROVE  \A s \in Slots : jobs[s] > 0 => jobs'[s] > 0
BY Zenon, RedisStep, SlotServed

\* The run that moves: its loop has served every subscriber before next.
LEMMA StepSent ==
  ASSUME TypeOK, RunInv, SentInv, NEW d \in Drainers,
         StartRun(d) \/ Step(d) \/ Abort(d)
  PROVE  SentAt(d)'
<1>1. ASSUME NEW rest, NEW n, NextRow(d, rest, n)
      PROVE  SentAt(d)'
  <2>1. pc'[d] \in {"idle", "exhausted"} \/ (pc'[d] = "send" /\ next'[d] = 1)
    BY Zenon, <1>1, NextRowEffect
  <2>2. \A i \in 1..MaxFanout : ~(i < 1)
    OBVIOUS
  <2> QED
    BY SMTT(30), <2>1, <2>2 DEF SentAt
<1>2. CASE QuarantineRows(d) \/ MarkDrained(d) \/ ReleaseClaim(d)
  BY Zenon, <1>1, <1>2 DEF QuarantineRows, MarkDrained, ReleaseClaim
<1>3. CASE StartRun(d) \/ Abort(d) \/ QuarantineExhaustedRows(d) \/ SendThrows(d)
           \/ MarkThrows(d)
  BY <1>3 DEF StartRun, Abort, QuarantineExhaustedRows, SendThrows, MarkThrows, Goto,
              SentAt, TypeOK
<1>4. CASE ClaimBatch(d)
  <2>1. CASE ClaimNothing(d)
    <3>1. pc'[d] \in {"idle", "exhausted"}
      BY SMTT(30), <2>1 DEF ClaimNothing, EndPass, Goto, TypeOK
    <3> QED
      BY Zenon, <3>1 DEF SentAt
  <2>2. ASSUME NEW rows, Claim(d, rows)
        PROVE  SentAt(d)'
    <3>1. pc'[d] = "invalid"
      BY <2>2 DEF Claim, Goto, TypeOK
    <3> QED
      BY Zenon, <3>1 DEF SentAt
  <2> QED
    BY SMTT(30), <1>4, <2>1, <2>2, ClaimCases
<1>5. CASE Send(d)
  <2>1. SendStep(d) /\ KeyedJobs
    BY Zenon, <1>5 DEF Send, SendStep, SentInv, KeyedJobs
  <2>2. /\ cur[d] \in Events /\ next[d] \in 1..MaxFanout
        /\ <<cur[d], next[d]>> \in Slots
    BY Zenon, <2>1, CurSlot DEF SendStep
  <2>3. cur'[d] = cur[d]
    BY Zenon, <1>5 DEF Send
  <2>4. ASSUME NEW i \in 1..MaxFanout, i <= next[d]
        PROVE  Sent(d, i)'
    <3>1. <<cur[d], i>> \in Slots
      BY <2>2 DEF Slots
    <3>2. CASE i = next[d]
      BY <2>1, <2>3, <3>2, SlotServed DEF Sent
    <3>3. CASE i < next[d]
      <4>1. jobs[<<cur[d], i>>] > 0
        BY Zenon, <1>5, <3>3 DEF Send, SentInv, Sent
      <4> QED
        BY Zenon, <2>1, <2>3, <3>1, <4>1, SlotServed DEF Sent
    <3> HIDE EventsAssumption, FanoutAssumption, LimitsAssumption, TimesAssumption,
             NullAssumption
    <3>4. i \in Int /\ next[d] \in Int
      BY SMTT(30), <2>2
    <3> QED
      BY <2>4, <3>2, <3>3, <3>4
  <2>5. CASE LastSubscriber(d)
    <3>1. pc'[d] = "mark"
      BY <1>5, <2>5 DEF Send, Goto, TypeOK
    <3>2. ASSUME NEW i \in 1..Subscribers[cur[d]]
          PROVE  i \in 1..MaxFanout /\ i <= next[d]
      <4>1. /\ Subscribers[cur[d]] \in Nat /\ MaxFanout \in Nat
            /\ Subscribers[cur[d]] <= MaxFanout
        BY Zenon, <2>2, FanoutType
      <4>2. next[d] = Subscribers[cur[d]]
        BY SMTT(30), <2>5 DEF LastSubscriber
      <4> QED
        BY Zenon, <4>1, <4>2, Within
    <3> QED
      BY Zenon, <2>3, <2>4, <3>1, <3>2 DEF SentAt
  <2>6. CASE ~LastSubscriber(d)
    <3>1. pc'[d] = "send" /\ next'[d] = next[d] + 1
      BY Zenon, <1>5, <2>6 DEF Send, TypeOK
    <3> HIDE EventsAssumption, FanoutAssumption, LimitsAssumption, TimesAssumption,
             NullAssumption
    <3>2. ASSUME NEW i \in 1..MaxFanout, i < next[d] + 1
          PROVE  i <= next[d]
      BY <2>2, <3>2
    <3> QED
      BY Zenon, <2>4, <3>1, <3>2 DEF SentAt
  <2> QED
    BY SMTT(30), <2>5, <2>6
<1> QED
  BY ZenonT(30), <1>2, <1>3, <1>4, <1>5 DEF Step

\* Every step keeps SentInv: what a run has sent is in the queue.
LEMMA NextSent ==
  ASSUME TypeOK, RunInv, SentInv, [Next]_vars
  PROVE  SentInv'
<1>0. KeyedJobs
  BY DEF SentInv, KeyedJobs
<1>1. KeyedJobs'
  BY SMTT(30), <1>0, RedisStep
<1>2. ASSUME NEW o \in Drainers,
             /\ pc'[o] = pc[o] /\ cur'[o] = cur[o] /\ next'[o] = next[o]
      PROVE  SentAt(o)'
  <2>1. ASSUME pc[o] \in {"send", "mark"}, NEW i \in 1..MaxFanout, Sent(o, i)
        PROVE  Sent(o, i)'
    <3>1. cur[o] \in batch[o] /\ batch[o] \subseteq Events
      BY <2>1 DEF RunInv, TypeOK
    <3>2. <<cur[o], i>> \in Slots
      BY <3>1 DEF Slots
    <3> QED
      BY Zenon, <1>0, <1>2, <2>1, <3>2, JobsStay DEF Sent
  <2>2. ASSUME pc[o] = "mark", NEW i \in 1..Subscribers[cur[o]]
        PROVE  i \in 1..MaxFanout
    <3>1. cur[o] \in Events
      BY <2>2 DEF RunInv, TypeOK
    <3>2. /\ Subscribers[cur[o]] \in Nat /\ MaxFanout \in Nat
          /\ Subscribers[cur[o]] <= MaxFanout
      BY Zenon, <3>1, FanoutType
    <3> QED
      BY <3>2
  <2> QED
    BY Zenon, <1>2, <2>1, <2>2 DEF SentAt, SentInv
<1>3. CASE UNCHANGED run
  BY Zenon, <1>1, <1>2, <1>3 DEF run, SentInv, SentAt, KeyedJobs
<1>4. ASSUME NEW d \in Drainers, StartRun(d) \/ Step(d) \/ Abort(d)
      PROVE  SentInv'
  <2>1. SentAt(d)'
    BY Zenon, <1>4, StepSent
  <2>2. ASSUME NEW o \in Drainers, o # d
        PROVE  SentAt(o)'
    BY <1>2, <1>4, <2>2, OthersUnchanged
  <2>3. \A o \in Drainers : SentAt(o)'
    BY ZenonT(30), <2>1, <2>2
  <2> QED
    BY <1>1, <2>3 DEF SentInv, SentAt, KeyedJobs
<1> QED
  BY <1>3, <1>4, NoRunMoves
-----------------------------------------------------------------------------
(* Delivery.                                                               *)

\* Only markDrained, by a run that has served every subscriber, drains a row.
LEMMA NewlyDrained ==
  ASSUME TypeOK, [Next]_vars, NEW e \in Events, ~Drained(e), Drained(e)'
  PROVE  \E d \in Drainers : pc[d] = "mark" /\ e = cur[d]
<1>1. CASE UNCHANGED drained_at
  BY <1>1 DEF Drained
<1>2. CASE Tick
  BY Zenon, <1>2 DEF Tick, Older, Drained, TypeOK
<1>3. ASSUME NEW d \in Drainers, pc[d] = "mark", markDrained(d)
      PROVE  e = cur[d]
  BY Zenon, <1>3 DEF markDrained, Set, Drained
<1>4. ASSUME NEW d \in Drainers, Step(d)
      PROVE  UNCHANGED drained_at \/ (pc[d] = "mark" /\ markDrained(d))
  BY Zenon, <1>4, ClaimCases
  DEF Step, QuarantineExhaustedRows, Claim, ClaimNothing, QuarantineRows, Send,
      SendThrows, MarkDrained, MarkThrows, ReleaseClaim, table, columns
<1> QED
  BY Zenon, <1>1, <1>2, <1>3, <1>4
  DEF Next, Publish, Prune, StartRun, Abort, vars, table, columns

\* Every step keeps DrainedMeansDelivered: only markDrained stamps, after the last send.
LEMMA NextDelivered ==
  ASSUME TypeOK, RunInv, SentInv, DrainedMeansDelivered, [Next]_vars
  PROVE  DrainedMeansDelivered'
<1> SUFFICES ASSUME NEW e \in Events, Drained(e)', NEW i \in 1..Subscribers[e]
             PROVE  jobs'[<<e, i>>] > 0
  BY Zenon DEF DrainedMeansDelivered, Drained
<1>1. KeyedJobs
  BY Zenon DEF SentInv, KeyedJobs
<1>2. i \in 1..MaxFanout
  <2>1. Subscribers[e] \in Nat /\ MaxFanout \in Nat /\ Subscribers[e] <= MaxFanout
    BY FanoutType
  <2> QED
    BY <2>1
<1>3. <<e, i>> \in Slots
  BY <1>2 DEF Slots
<1>4. jobs[<<e, i>>] > 0
  <2>1. CASE Drained(e)
    BY <2>1 DEF DrainedMeansDelivered
  <2>2. CASE ~Drained(e)
    BY Zenon, <2>2, NewlyDrained DEF SentInv, Sent
  <2> QED
    BY <2>1, <2>2
<1> QED
  BY <1>1, <1>3, <1>4, JobsStay

\* A job is added only for a row that some contract accepts.
LEMMA NextNothingLost ==
  ASSUME TypeOK, TypeOK', RunInv, SentInv, RowInv', NothingLost, [Next]_vars
  PROVE  NothingLost'
<1>1. KeyedJobs
  BY DEF SentInv, KeyedJobs
<1>2. \A e \in published' \ stored' : Drained(e)' \/ Dead(e)'
  <2>1. published' \subseteq Events
    BY DEF TypeOK
  <2> QED
    BY Zenon, <2>1 DEF RowInv
<1>3. ASSUME NEW e \in Invalid, NEW i \in 1..MaxFanout
      PROVE  jobs'[<<e, i>>] = 0
  <2>1. jobs[<<e, i>>] = 0 /\ <<e, i>> \in Slots
    BY DEF NothingLost, Slots
  <2>2. ASSUME NEW d \in Drainers, SendStep(d)
        PROVE  jobs'[<<e, i>>] = jobs[<<e, i>>]
    <3>1. cur[d] \notin Invalid /\ <<cur[d], next[d]>> \in Slots
      BY Zenon, <2>2, CurSlot DEF SendStep, RunInv
    <3>2. <<e, i>> # <<cur[d], next[d]>>
      BY <3>1
    <3> QED
      BY ZenonT(30), <2>1, <2>2, <3>1, <3>2, AddJobEffect DEF SendStep
  <2> QED
    BY <1>1, <2>1, <2>2, RedisStep
<1> QED
  BY Zenon, <1>2, <1>3 DEF NothingLost

-----------------------------------------------------------------------------
(* Redelivery is bounded by the attempts that were charged.                *)

\* A subset is no larger.
LEMMA SmallerSet ==
  ASSUME NEW S, IsFiniteSet(S), NEW T, T \subseteq S
  PROVE  Cardinality(T) <= Cardinality(S)
BY FS_Subset

\* One more element adds at most one.
LEMMA LargerSet ==
  ASSUME NEW S, IsFiniteSet(S), NEW x
  PROVE  /\ IsFiniteSet(S \cup {x})
         /\ Cardinality(S \cup {x}) <= Cardinality(S) + 1
<1>1. Cardinality(S) \in Nat
  BY FS_CardinalityType
<1>2. /\ IsFiniteSet(S \cup {x})
      /\ Cardinality(S \cup {x}) = IF x \in S THEN Cardinality(S) ELSE Cardinality(S) + 1
  BY Zenon, FS_AddElement
<1> QED
  BY <1>1, <1>2

\* A set of events is finite.
LEMMA EventsCount == CountType
BY Zenon, FS_Subset, FS_CardinalityType DEF CountType

\* The runs that still owe a send are finitely many.
LEMMA OwingFinite ==
  ASSUME NEW e, NEW i
  PROVE  IsFiniteSet(Owing(e, i)) /\ Cardinality(Owing(e, i)) \in Nat
BY DrainersAssumption, FS_Subset, FS_CardinalityType DEF Owing

\* And they are after a step.
LEMMA OwingFiniteAfter ==
  ASSUME NEW e, NEW i
  PROVE  IsFiniteSet(Owing(e, i)') /\ Cardinality(Owing(e, i)') \in Nat
<1>1. Owing(e, i)' \subseteq Drainers
  BY DEF Owing
<1> QED
  BY <1>1, DrainersAssumption, FS_Subset, FS_CardinalityType

\* Short of a claim, a run never takes on a new debt.
LEMMA NoNewDebt ==
  ASSUME TypeOK, RunInv, NEW d \in Drainers, StartRun(d) \/ Step(d) \/ Abort(d),
         \A rows : ~Claim(d, rows),
         NEW e \in Events, NEW i \in 1..MaxFanout, Owes(d, e, i)'
  PROVE  Owes(d, e, i)
<1>1. ASSUME NEW rest \in SUBSET batch[d], cur[d] \notin rest, NEW n, NextRow(d, rest, n)
      PROVE  Owes(d, e, i)
  BY Zenon, <1>1, NextRowEffect DEF Owes
<1>2. CASE QuarantineRows(d)
  <2>1. cur[d] \notin Events
    BY Zenon, <1>2 DEF QuarantineRows, RunInv
  <2>2. batch[d] \ Invalid \in SUBSET batch[d] /\ cur[d] \notin batch[d] \ Invalid
    BY <2>1 DEF TypeOK
  <2> QED
    BY Zenon, <1>1, <1>2, <2>2 DEF QuarantineRows
<1>3. CASE MarkDrained(d) \/ ReleaseClaim(d)
  BY Zenon, <1>1, <1>3 DEF MarkDrained, ReleaseClaim
<1>4. CASE StartRun(d) \/ Abort(d) \/ QuarantineExhaustedRows(d)
  <2>1. batch'[d] = {}
    BY Zenon, <1>4 DEF StartRun, Abort, QuarantineExhaustedRows, RunInv, TypeOK
  <2> QED
    BY Zenon, <2>1 DEF Owes
<1>5. CASE ClaimBatch(d)
  <2>1. batch'[d] = {}
    BY <1>5, ClaimCases DEF ClaimNothing, TypeOK
  <2> QED
    BY Zenon, <2>1 DEF Owes
<1>6. CASE Send(d)
  <2>1. batch'[d] = batch[d] /\ cur'[d] = cur[d] /\ pc[d] = "send"
    BY Zenon, <1>6 DEF Send
  <2>2. next[d] \in Nat /\ next'[d] \in {next[d], next[d] + 1}
    BY SMTT(30), <1>6 DEF Send, TypeOK
  <2>3. next'[d] <= i => next[d] <= i
    <3>1. i \in Int
      OBVIOUS
    <3>2. CASE next'[d] = next[d]
      BY Zenon, <3>2
    <3> HIDE EventsAssumption, FanoutAssumption, LimitsAssumption, TimesAssumption,
             NullAssumption
    <3>3. CASE next'[d] = next[d] + 1
      BY SMTT(30), <2>2, <3>1, <3>3
    <3> QED
      BY Zenon, <2>2, <3>2, <3>3
  <2> QED
    BY Zenon, <2>1, <2>3 DEF Owes
<1>7. CASE SendThrows(d) \/ MarkThrows(d)
  <2>1. batch'[d] = batch[d] /\ cur'[d] = cur[d] /\ pc'[d] = "release"
    BY <1>7 DEF SendThrows, MarkThrows, Goto, TypeOK
  <2> QED
    BY Zenon, <2>1 DEF Owes
<1> QED
  BY SMTT(30), <1>2, <1>3, <1>4, <1>5, <1>6, <1>7 DEF Step

\* Adding a job settles the debt of this run for this subscriber.
LEMMA SendPays ==
  ASSUME TypeOK, RunInv, NEW d \in Drainers, SendStep(d),
         NEW e, e = cur[d], NEW i, i = next[d]
  PROVE  Owes(d, e, i) /\ ~Owes(d, e, i)'
<1>1. cur[d] \in batch[d] /\ next[d] \in Nat /\ cur'[d] = cur[d] /\ pc[d] = "send"
  BY SMTT(30) DEF SendStep, RunInv, TypeOK, Send, SendThrows
<1>2. pc'[d] # "send" \/ next'[d] = next[d] + 1
  <2>1. CASE SendThrows(d)
    BY Zenon, <2>1 DEF SendThrows, Goto, TypeOK
  <2>2. CASE Send(d) /\ LastSubscriber(d)
    BY Zenon, <2>2 DEF Send, Goto, TypeOK
  <2>3. CASE Send(d) /\ ~LastSubscriber(d)
    BY ZenonT(30), <2>3 DEF Send, TypeOK
  <2> QED
    BY Zenon, <2>1, <2>2, <2>3 DEF SendStep
<1> HIDE EventsAssumption, FanoutAssumption, LimitsAssumption, TimesAssumption,
         NullAssumption
<1> QED
  BY SMTT(30), <1>1, <1>2 DEF Owes

\* Every step keeps ChargeInv: a send is paid for by the attempt its claim was charged.
LEMMA NextCharge ==
  ASSUME TypeOK, RunInv, KeyedJobs, ChargeInv, [Next]_vars
  PROVE  ChargeInv'
<1> SUFFICES ASSUME NEW e \in Events, NEW i \in 1..MaxFanout
             PROVE  jobs'[<<e, i>>] + Cardinality(Owing(e, i)') <= attempt_count'[e]
  BY Zenon DEF ChargeInv
<1> DEFINE slot == <<e, i>>
           owed == Cardinality(Owing(e, i))
           owes == Cardinality(Owing(e, i)')
           sent == jobs[slot]
           sends == jobs'[slot]
           paid == attempt_count[e]
           pays == attempt_count'[e]
<1>0. slot \in Slots
  BY DEF Slots
<1>1. sent \in Nat /\ paid \in Nat /\ sent + owed <= paid
  <2>1. sent \in Nat /\ paid \in Nat
    BY <1>0 DEF TypeOK
  <2>2. sent + owed <= paid
    BY DEF ChargeInv
  <2> QED
    BY Zenon, <2>1, <2>2
<1>2. /\ IsFiniteSet(Owing(e, i)) /\ owed \in Nat
      /\ IsFiniteSet(Owing(e, i)') /\ owes \in Nat
  BY OwingFinite, OwingFiniteAfter
<1> HIDE EventsAssumption, FanoutAssumption, LimitsAssumption, TimesAssumption,
         NullAssumption
<1> HIDE DEF slot, owed, owes, sent, sends, paid, pays
<1>3. ASSUME Owing(e, i)' \subseteq Owing(e, i)
      PROVE  owes <= owed
  BY <1>2, <1>3, SmallerSet DEF owed, owes
<1>4. ASSUME UNCHANGED run, UNCHANGED <<jobs, attempt_count>>
      PROVE  sends + owes <= pays
  <2>1. Owing(e, i)' = Owing(e, i)
    BY <1>4 DEF run, Owing, Owes
  <2>2. owes = owed
    BY <2>1 DEF owed, owes
  <2>3. sends = sent /\ pays = paid
    BY <1>4 DEF sent, sends, paid, pays
  <2> QED
    BY <1>1, <2>2, <2>3
<1>5. ASSUME NEW d \in Drainers, StartRun(d) \/ Step(d) \/ Abort(d)
      PROVE  sends + owes <= pays
  <2>1. \A o \in Drainers : o # d => (Owes(o, e, i)' <=> Owes(o, e, i))
    BY <1>5, OthersUnchanged DEF Owes
  <2>2. ASSUME NEW rows, Claim(d, rows)
        PROVE  sends + owes <= pays
    <3>1. /\ jobs' = jobs /\ batch'[d] = rows
          /\ attempt_count'[e] = IF e \in rows THEN attempt_count[e] + 1 ELSE attempt_count[e]
      BY <2>2 DEF Claim, Charged, redis, TypeOK
    <3>2. CASE e \in rows
      <4>0. sends = sent /\ pays = paid + 1
        BY <3>1, <3>2 DEF sent, sends, paid, pays
      <4>1. Owing(e, i)' \subseteq Owing(e, i) \cup {d}
        BY <2>1 DEF Owing
      <4>2. owes <= owed + 1
        <5>1. /\ IsFiniteSet(Owing(e, i) \cup {d})
              /\ Cardinality(Owing(e, i) \cup {d}) <= owed + 1
          BY <1>2, LargerSet DEF owed
        <5>2. owes <= Cardinality(Owing(e, i) \cup {d})
          BY <4>1, <5>1, SmallerSet DEF owes
        <5>3. Cardinality(Owing(e, i) \cup {d}) \in Nat
          BY <5>1, FS_CardinalityType
        <5> QED
          BY <1>2, <5>1, <5>2, <5>3
      <4> QED
        BY <1>1, <1>2, <4>0, <4>2
    <3>3. CASE e \notin rows
      <4>0. sends = sent /\ pays = paid
        BY SMTT(30), <3>1, <3>3 DEF sent, sends, paid, pays
      <4>1. Owing(e, i)' \subseteq Owing(e, i)
        BY Zenon, <2>1, <3>1, <3>3 DEF Owing, Owes
      <4>2. owes <= owed
        BY <1>3, <4>1
      <4> QED
        BY SMTT(30), <1>1, <1>2, <4>0, <4>2
    <3> QED
      BY Zenon, <3>2, <3>3
  <2>3. CASE \A rows : ~Claim(d, rows)
    <3>1. Owing(e, i)' \subseteq Owing(e, i)
      BY SMTT(30), <1>5, <2>1, <2>3, NoNewDebt DEF Owing
    <3>2. attempt_count' = attempt_count
      BY ZenonT(30), <1>5, <2>3, ClaimCases
      DEF StartRun, Abort, Step, QuarantineExhaustedRows, ClaimNothing, QuarantineRows,
          Send, SendThrows, MarkDrained, markDrained, MarkThrows, ReleaseClaim, table,
          columns
    <3>3. CASE jobs'[slot] = jobs[slot]
      <4>1. owes <= owed
        BY <1>3, <3>1
      <4>2. sends = sent /\ pays = paid
        BY <3>2, <3>3 DEF sent, sends, paid, pays
      <4> QED
        BY <1>1, <1>2, <4>1, <4>2
    <3>4. CASE jobs'[slot] # jobs[slot]
      <4>1. PICK o \in Drainers : SendStep(o)
        BY ZenonT(30), <3>4, RedisStep
      <4>2. <<cur[o], next[o]>> \in Slots
        BY SMTT(30), <4>1, CurSlot DEF SendStep
      <4>3. slot = <<cur[o], next[o]>> /\ jobs'[slot] = jobs[slot] + 1
        BY Zenon, <1>0, <3>4, <4>1, <4>2, AddJobEffect DEF SendStep
      <4>4. o \in Owing(e, i) /\ o \notin Owing(e, i)'
        BY Zenon, <4>1, <4>3, SendPays DEF Owing, slot
      <4>5. Owing(e, i)' \subseteq Owing(e, i) \ {o}
        BY <3>1, <4>4
      <4>6. /\ IsFiniteSet(Owing(e, i) \ {o})
            /\ Cardinality(Owing(e, i) \ {o}) = owed - 1
        BY <1>2, <4>4, FS_RemoveElement DEF owed
      <4>7. owes <= owed - 1
        <5>1. owes <= Cardinality(Owing(e, i) \ {o})
          BY Zenon, <4>5, <4>6, SmallerSet DEF owes
        <5> QED
          BY <4>6, <5>1
      <4>8. sends = sent + 1 /\ pays = paid
        BY <3>2, <4>3 DEF sent, sends, paid, pays
      <4> QED
        BY <1>1, <1>2, <4>7, <4>8
    <3> QED
      BY <3>3, <3>4
  <2> QED
    BY Zenon, <2>2, <2>3
<1> QED
  BY <1>4, <1>5, NoRunMoves DEF slot, owes, sends, pays
-----------------------------------------------------------------------------
(* The theorems.                                                           *)

\* IInv holds initially and every step keeps it.
LEMMA InitIInv == Init => IInv
<1> SUFFICES ASSUME Init PROVE IInv
  OBVIOUS
<1>1. TypeOK
  BY SMTT(30) DEF Init, TypeOK, Labels
<1>2. RowFacts /\ RunInv
  BY SMTT(30) DEF Init, RowFacts, RowInv, NeverBothSettled, DeadMeansExhausted, Drained, Dead,
         RunInv
<1>3. SentInv /\ DrainedMeansDelivered /\ NothingLost
  BY DEF Init, SentInv, DrainedMeansDelivered, NothingLost, Drained, Slots
<1>4. ChargeInv
  <2> SUFFICES ASSUME NEW e \in Events, NEW i \in 1..MaxFanout
               PROVE  jobs[<<e, i>>] + Cardinality(Owing(e, i)) <= attempt_count[e]
    BY Zenon DEF ChargeInv
  <2>1. Owing(e, i) = {}
    BY DEF Init, Owing, Owes
  <2>2. Cardinality({}) = 0
    BY FS_EmptySet
  <2> QED
    BY <2>1, <2>2 DEF Init, Slots
<1> QED
  BY <1>1, <1>2, <1>3, <1>4 DEF IInv, RowFacts

\* Every step keeps the inductive invariant.
LEMMA NextIInv == IInv /\ [Next]_vars => IInv' /\ RowStep
<1> SUFFICES ASSUME IInv, [Next]_vars PROVE IInv' /\ RowStep
  OBVIOUS
<1>1. TypeOK /\ RowFacts /\ RunInv /\ SentInv /\ KeyedJobs
  BY DEF IInv, RowFacts, SentInv, KeyedJobs
<1>2. TypeOK' /\ RowFacts' /\ RunInv' /\ RowStep
  BY <1>1, EventsCount, NextType, NextRows, NextRun
<1>3. SentInv' /\ ChargeInv'
  BY <1>1, NextSent, NextCharge DEF IInv
<1>4. DrainedMeansDelivered' /\ NothingLost'
  BY <1>1, <1>2, NextDelivered, NextNothingLost DEF IInv, RowFacts
<1> QED
  BY <1>2, <1>3, <1>4 DEF IInv, RowFacts

\* The conjuncts of IInv, the inductive invariant, always hold.
THEOREM InductiveInvariant == Spec => []IInv
BY InitIInv, NextIInv, PTL DEF Spec

\* Type correctness of the table, the queues and every drain run.
THEOREM TypeCorrect == Spec => []TypeOK
<1>1. IInv => TypeOK
  BY DEF IInv
<1> QED
  BY <1>1, InductiveInvariant, PTL

\* No interleaving of runs, stale statements and crashes leaves a row both
\* drained and dead-lettered.
THEOREM SettledOneWay == Spec => []NeverBothSettled
<1>1. IInv => NeverBothSettled
  BY DEF IInv
<1> QED
  BY <1>1, InductiveInvariant, PTL

\* At-least-once delivery: a drained row's subscribers all have their job.
THEOREM AtLeastOnce == Spec => []DrainedMeansDelivered
<1>1. IInv => DrainedMeansDelivered
  BY Zenon DEF IInv
<1> QED
  BY <1>1, InductiveInvariant, PTL

\* Bounded redelivery: no subscriber gets more jobs than the row has attempts,
\* hence never more than MAX_RELAY_ATTEMPTS.
THEOREM BoundedRedelivery == Spec => []JobsWithinAttempts
<1>1. IInv => JobsWithinAttempts
  <2> SUFFICES ASSUME IInv, NEW e \in Events, NEW i \in 1..MaxFanout
               PROVE  jobs[<<e, i>>] <= attempt_count[e]
    BY Zenon DEF JobsWithinAttempts
  <2>1. /\ jobs[<<e, i>>] \in Nat /\ attempt_count[e] \in Nat
        /\ jobs[<<e, i>>] + Cardinality(Owing(e, i)) <= attempt_count[e]
    BY Zenon DEF IInv, TypeOK, Slots, ChargeInv
  <2> QED
    BY <2>1, OwingFinite
<1> QED
  BY <1>1, InductiveInvariant, PTL

\* A valid row is given up only after MAX_RELAY_ATTEMPTS charged claims.
THEOREM GivenUpOnlyWhenExhausted == Spec => []DeadMeansExhausted
<1>1. IInv => DeadMeansExhausted
  BY DEF IInv
<1> QED
  BY <1>1, InductiveInvariant, PTL

\* The nightly prune deletes no row that is not settled.
THEOREM NoEventLost == Spec => []NothingLost
<1>1. IInv => NothingLost
  BY DEF IInv
<1> QED
  BY <1>1, InductiveInvariant, PTL

\* A running lease is ended only by its holder, and settling is final.
THEOREM ClaimsAndSettling == Spec => LiveClaimRespected /\ SettledIsFinal
<1>1. IInv /\ [Next]_vars
        => /\ [\A e \in Events :
                 claim_token[e] # NULL /\ claim_token'[e] # claim_token[e]
                   => \/ LeaseExpired(e)
                      \/ \E d \in Drainers : token[d] = claim_token[e] /\ e \in batch[d]]_vars
           /\ [\A e \in Events : Drained(e) \/ Dead(e) =>
                 /\ Drained(e)' = Drained(e)
                 /\ Dead(e)' = Dead(e)
                 /\ claim_token'[e] = NULL
                 /\ attempt_count'[e] = attempt_count[e]]_vars
  BY NextIInv DEF RowStep
<1> QED
  BY <1>1, InductiveInvariant, PTL DEF Spec, LiveClaimRespected, SettledIsFinal

-----------------------------------------------------------------------------
(* The relay implements EventDelivery.                                     *)


\* A run works on rows that were published.
PublishedBatch == \A d \in Drainers : batch[d] \subseteq published

\* What a step makes of the events, seen from outside.
Settles == jobs' = jobs /\ \A e \in Events : Delivery!MayBecome(e, StateOf(e)')

\* An event's state is one of the five.
LEMMA StateType == \A e \in Events : StateOf(e) \in Delivery!States /\ StateOf(e)' \in Delivery!States
BY Zenon DEF StateOf, Delivery!States

\* A step that settles is a step of EventDelivery.
LEMMA SettlesIsSettle == Settles => Delivery!Settle
<1> SUFFICES ASSUME Settles PROVE Delivery!Settle
  OBVIOUS
<1>1. [e \in Events |-> StateOf(e)]' \in [Events -> Delivery!States]
  BY StateType
<1>2. \A e \in Events : Delivery!MayBecome(e, [x \in Events |-> StateOf(x)]'[e])
  BY Zenon DEF Settles
<1> QED BY <1>1, <1>2 DEF Delivery!Settle, Settles

\* A step that leaves the row of an event as settled as it was, in the table or not,
\* leaves its state.
LEMMA SameState ==
  ASSUME NEW e \in Events,
         e \in published' <=> e \in published, e \in stored' <=> e \in stored,
         Drained(e)' = Drained(e), Dead(e)' = Dead(e)
  PROVE  Delivery!MayBecome(e, StateOf(e)')
<1>1. StateOf(e)' = StateOf(e)
  BY Zenon DEF StateOf
<1> QED BY <1>1 DEF Delivery!MayBecome

\* Time passes for a stamp without making or removing one.
LEMMA OlderStamps ==
  ASSUME NEW c \in [Events -> Nat \cup {NULL}], NEW most \in Nat, NEW e \in Events
  PROVE  Older(c, most)[e] = NULL <=> c[e] = NULL
BY DEF Older

\* Statements outside the relay's batches settle nothing out of turn.
LEMMA OutsideSettles ==
  ASSUME IInv, Tick \/ Prune PROVE Settles
<1>1. CASE Tick
  <2>1. ASSUME NEW e \in Events PROVE Delivery!MayBecome(e, StateOf(e)')
    <3>1. Retention + 1 \in Nat
      BY SMTT(30), TimesAssumption
    <3>2. Drained(e)' = Drained(e) /\ Dead(e)' = Dead(e)
      <4>1. Older(drained_at, Retention + 1)[e] = NULL <=> drained_at[e] = NULL
        BY Zenon, <3>1, OlderStamps DEF IInv, TypeOK
      <4>2. Older(dead_lettered_at, Retention + 1)[e] = NULL <=> dead_lettered_at[e] = NULL
        BY Zenon, <3>1, OlderStamps DEF IInv, TypeOK
      <4> QED BY SMTT(30), <1>1, <4>1, <4>2 DEF Tick, Drained, Dead
    <3>3. published' = published /\ stored' = stored
      BY ZenonT(30), <1>1 DEF Tick
    <3> QED BY <3>2, <3>3, SameState
  <2> QED BY Zenon, <1>1, <2>1 DEF Settles, Tick
<1>2. CASE Prune
  <2>1. ASSUME NEW e \in Events PROVE Delivery!MayBecome(e, StateOf(e)')
    <3>1. Drained(e)' = Drained(e) /\ Dead(e)' = Dead(e) /\ published' = published
      BY ZenonT(30), <1>2 DEF Prune, columns, Drained, Dead
    <3>2. CASE e \in stored /\ e \notin stored'
      <4>1. Drained(e) \/ Dead(e)
        BY Zenon, <1>2, <3>2 DEF Prune, PastRetention, Drained, Dead
      <4>2. e \in published /\ e \in published'
        BY Zenon, <3>1, <3>2 DEF IInv, TypeOK
      <4> QED BY Zenon, <3>1, <3>2, <4>1, <4>2 DEF StateOf, Delivery!MayBecome
    <3>3. CASE e \in stored' <=> e \in stored
      BY SMTT(30), <3>1, <3>3, SameState
    <3>4. stored' \subseteq stored
      BY ZenonT(30), <1>2 DEF Prune
    <3> QED BY Zenon, <3>2, <3>3, <3>4
  <2> QED BY <1>2, <2>1 DEF Settles, Prune, redis
<1> QED BY Zenon, <1>1, <1>2

\* A row that is neither drained nor dead may be dead-lettered.
LEMMA MayDie ==
  ASSUME NEW e \in Events, e \in published, e \in stored, ~Drained(e), ~Dead(e),
         published' = published, stored' = stored, Drained(e)' = Drained(e), Dead(e)'
  PROVE  Delivery!MayBecome(e, StateOf(e)')
BY DEF StateOf, Delivery!MayBecome

\* Both quarantines give up only rows that are not settled.
LEMMA QuarantineSettles ==
  ASSUME IInv, NEW d \in Drainers, QuarantineExhaustedRows(d) \/ QuarantineRows(d)
  PROVE  Settles
<1> DEFINE hit == IF pc[d] = "exhausted" THEN Exhausted
                  ELSE {e \in batch[d] \cap Invalid : Holds(d, e)}
<1>1. /\ published' = published /\ stored' = stored /\ drained_at' = drained_at
      /\ jobs' = jobs /\ dead_lettered_at' = Set(dead_lettered_at, hit, 0)
  BY Zenon DEF QuarantineExhaustedRows, QuarantineRows, redis
<1>2. ASSUME NEW e \in hit PROVE e \in stored /\ ~Drained(e) /\ ~Dead(e)
  <2>1. CASE pc[d] = "exhausted"
    BY Zenon, <1>2, <2>1 DEF Exhausted, Unheld, Drained, Dead
  <2>2. CASE pc[d] # "exhausted"
    <3>1. e \in Events /\ Holds(d, e)
      BY Zenon, <1>2, <2>2 DEF IInv, TypeOK
    <3> QED BY Zenon, <3>1 DEF Holds, IInv, RowInv
  <2> QED BY Zenon, <2>1, <2>2
<1> HIDE DEF hit
<1>3. ASSUME NEW e \in Events PROVE Delivery!MayBecome(e, StateOf(e)')
  <2>1. Drained(e)' = Drained(e)
    BY Zenon, <1>1 DEF Drained
  <2>2. CASE e \in hit
    <3>1. Dead(e)'
      BY <1>1, <2>2 DEF Set, Dead
    <3>2. e \in published
      BY Zenon, <1>2, <2>2 DEF IInv, TypeOK
    <3> QED BY Zenon, <1>1, <1>2, <2>1, <2>2, <3>1, <3>2, MayDie
  <2>3. CASE e \notin hit
    <3>1. Dead(e)' = Dead(e)
      BY <1>1, <2>3 DEF Set, Dead
    <3> QED BY Zenon, <1>1, <2>1, <3>1, SameState
  <2> QED BY <2>2, <2>3
<1> QED BY SMTT(30), <1>1, <1>3 DEF Settles

\* markDrained marks a row that is not settled, and whose subscribers have it all.
LEMMA MarkSettles ==
  ASSUME IInv, NEW d \in Drainers, pc[d] = "mark", markDrained(d), UNCHANGED redis
  PROVE  Settles
<1> DEFINE hit == {e \in {cur[d]} : Holds(d, e) /\ dead_lettered_at[e] = NULL}
<1>1. /\ published' = published /\ stored' = stored /\ dead_lettered_at' = dead_lettered_at
      /\ jobs' = jobs /\ drained_at' = Set(drained_at, hit, 0)
  BY Zenon DEF markDrained, redis
<1>2. cur[d] \in Events
  BY Zenon DEF IInv, RunInv, TypeOK
<1>3. ASSUME NEW e \in hit
      PROVE  /\ e \in published /\ e \in stored /\ ~Drained(e) /\ ~Dead(e)
             /\ \A i \in 1..Subscribers[e] : jobs[<<e, i>>] > 0
  <2>1. e = cur[d] /\ Holds(d, e)
    BY SMTT(30), <1>3
  <2>2. e \in stored /\ ~Drained(e) /\ ~Dead(e)
    BY ZenonT(30), <1>2, <2>1 DEF Holds, IInv, RowInv
  <2>3. \A i \in 1..Subscribers[e] : jobs[<<e, i>>] > 0
    BY Zenon, <2>1 DEF IInv, SentInv, Sent
  <2> QED BY ZenonT(30), <2>2, <2>3 DEF IInv, TypeOK
<1> HIDE DEF hit
<1>4. ASSUME NEW e \in Events PROVE Delivery!MayBecome(e, StateOf(e)')
  <2>1. Dead(e)' = Dead(e)
    BY Zenon, <1>1 DEF Dead
  <2>2. CASE e \in hit
    <3>1. Drained(e)'
      BY SMTT(30), <1>1, <2>2 DEF Set, Drained
    <3>2. StateOf(e) = "pending" /\ StateOf(e)' = "delivered"
      BY Zenon, <1>1, <1>3, <2>1, <2>2, <3>1 DEF StateOf
    <3> QED BY Zenon, <1>3, <2>2, <3>2 DEF Delivery!MayBecome
  <2>3. CASE e \notin hit
    <3>1. Drained(e)' = Drained(e)
      BY <1>1, <2>3 DEF Set, Drained
    <3> QED BY Zenon, <1>1, <2>1, <3>1, SameState
  <2> QED BY <2>2, <2>3
<1> QED BY Zenon, <1>1, <1>4 DEF Settles

\* A step that leaves the stamps and the queues alone shows nothing outside.
LEMMA QuietSettles ==
  ASSUME published' = published, stored' = stored, drained_at' = drained_at,
         dead_lettered_at' = dead_lettered_at, jobs' = jobs
  PROVE  Settles
<1>1. ASSUME NEW e \in Events PROVE Delivery!MayBecome(e, StateOf(e)')
  <2>1. Drained(e)' = Drained(e) /\ Dead(e)' = Dead(e)
    BY Zenon DEF Drained, Dead
  <2> QED BY <2>1, SameState
<1> QED BY <1>1 DEF Settles

\* dispatch gives the current row to one of its subscribers, or the queue drops it.
LEMMA SendReceives ==
  ASSUME IInv, PublishedBatch, NEW d \in Drainers, pc[d] = "send",
         UNCHANGED table, UNCHANGED redis \/ AddJob(<<cur[d], next[d]>>)
  PROVE  Delivery!Next
<1> DEFINE e == cur[d]
           i == next[d]
<1>1. e \in Events /\ e \in published /\ e \notin Invalid /\ i \in 1..MaxFanout
  <2>1. e \in batch[d] /\ batch[d] \cap Invalid = {} /\ i \in 1..Subscribers[e]
    BY Zenon DEF IInv, RunInv
  <2>2. e \in Events /\ e \in published
    BY SMTT(30), <2>1 DEF IInv, TypeOK, PublishedBatch
  <2>3. Subscribers[e] \in 1..MaxFanout
    BY Zenon, <2>2
  <2> QED BY SMTT(30), <2>1, <2>2, <2>3
<1>2. [x \in Events |-> StateOf(x)]' = [x \in Events |-> StateOf(x)]
  BY Zenon DEF table, columns, StateOf, Drained, Dead
<1>3. CASE jobs' = jobs
  <2>1. Settles
    BY Zenon, <1>3, QuietSettles DEF table, columns
  <2> QED BY Zenon, <2>1, SettlesIsSettle DEF Delivery!Next
<1>4. CASE jobs' = [jobs EXCEPT ![<<e, i>>] = @ + 1]
  <2>1. StateOf(e) # "unpublished"
    BY Zenon, <1>1 DEF StateOf
  <2>2. Delivery!Receive(e, i)
    BY Zenon, <1>1, <1>2, <1>4, <2>1 DEF Delivery!Receive
  <2> QED BY Zenon, <1>1, <2>2 DEF Delivery!Next
<1> QED BY Zenon, <1>3, <1>4 DEF AddJob, redis

\* Every step of the relay is one of EventDelivery.
LEMMA NextRefines ==
  ASSUME IInv, PublishedBatch, Next PROVE Delivery!Next
<1> SUFFICES ASSUME ~Settles PROVE Delivery!Next
  BY SettlesIsSettle DEF Delivery!Next
<1>1. ASSUME NEW e \in Events, Publish(e) PROVE Delivery!Next
  <2>1. StateOf(e) = "unpublished"
    BY <1>1 DEF Publish, StateOf
  <2>2. StateOf(e)' = "pending"
    <3>1. ~Drained(e)' /\ ~Dead(e)'
      BY SMTT(30), <1>1 DEF Publish, columns, IInv, RowInv, Drained, Dead
    <3> QED BY Zenon, <1>1, <3>1 DEF Publish, StateOf
  <2>3. ASSUME NEW x \in Events, x # e PROVE StateOf(x)' = StateOf(x)
    BY <1>1, <2>3 DEF Publish, columns, StateOf, Drained, Dead
  <2>4. [x \in Events |-> StateOf(x)]' = [[x \in Events |-> StateOf(x)] EXCEPT ![e] = "pending"]
    BY Zenon, <2>2, <2>3
  <2>5. Delivery!Publish(e)
    BY <1>1, <2>1, <2>4 DEF Delivery!Publish, Publish, redis
  <2> QED BY <2>5 DEF Delivery!Next
<1>2. ~(Tick \/ Prune)
  BY OutsideSettles
<1>3. ASSUME NEW d \in Drainers, StartRun(d) \/ Abort(d) PROVE Delivery!Next
  BY <1>3, QuietSettles DEF StartRun, Abort, table, columns, redis
<1>4. ASSUME NEW d \in Drainers, QuarantineExhaustedRows(d) \/ QuarantineRows(d)
      PROVE  Delivery!Next
  BY SMTT(30), <1>4, QuarantineSettles
<1>5. ASSUME NEW d \in Drainers, ClaimBatch(d) PROVE Delivery!Next
  BY Zenon, <1>5, QuietSettles DEF ClaimBatch, ClaimNothing, Claim, table, columns, redis
<1>6. ASSUME NEW d \in Drainers, Send(d) \/ SendThrows(d) PROVE Delivery!Next
  BY Zenon, <1>6, SendReceives DEF Send, SendThrows
<1>7. ASSUME NEW d \in Drainers, MarkDrained(d) PROVE Delivery!Next
  BY Zenon, <1>7, MarkSettles DEF MarkDrained
<1>8. ASSUME NEW d \in Drainers, MarkThrows(d) PROVE Delivery!Next
  BY Zenon, <1>8, MarkSettles, QuietSettles DEF MarkThrows, table, columns, redis
<1>9. ASSUME NEW d \in Drainers, ReleaseClaim(d) PROVE Delivery!Next
  BY Zenon, <1>9, QuietSettles DEF ReleaseClaim, redis
<1> QED
  BY Zenon, <1>1, <1>2, <1>3, <1>4, <1>5, <1>6, <1>7, <1>8, <1>9 DEF Next, Step

\* A batch is claimed from the table, and only shrinks.
LEMMA NextPublished ==
  ASSUME IInv, PublishedBatch, Next PROVE PublishedBatch'
<1>1. published \subseteq published'
  BY Zenon DEF Next, Publish, Tick, Prune, StartRun, Step, Abort, QuarantineExhaustedRows, ClaimBatch,
         ClaimNothing, Claim, QuarantineRows, Send, SendThrows, MarkDrained, MarkThrows,
         markDrained, ReleaseClaim, table
<1> SUFFICES ASSUME NEW d \in Drainers PROVE batch'[d] \subseteq published
  BY SMTT(30), <1>1 DEF PublishedBatch
<1>2. ASSUME NEW o \in Drainers, NEW rest \in SUBSET published, batch' = [batch EXCEPT ![o] = rest]
      PROVE  batch'[d] \subseteq published
  BY Zenon, <1>2 DEF PublishedBatch, IInv, TypeOK
<1>3. ASSUME batch' = batch PROVE batch'[d] \subseteq published
  BY ZenonT(30), <1>3 DEF PublishedBatch
<1>4. ASSUME NEW e \in Events, Publish(e) PROVE batch'[d] \subseteq published
  BY Zenon, <1>3, <1>4 DEF Publish, run
<1>5. ASSUME Tick \/ Prune PROVE batch'[d] \subseteq published
  BY Zenon, <1>3, <1>5 DEF Tick, Prune, run
<1>6. ASSUME NEW o \in Drainers, ClaimBatch(o) PROVE batch'[d] \subseteq published
  <2>1. \A rows : Oldest(Claimable \ rows) \subseteq published
    BY Zenon DEF Oldest, Claimable, Unheld, IInv, TypeOK
  <2> QED BY Zenon, <1>2, <1>6, <2>1 DEF ClaimBatch, ClaimNothing, Claim
<1>7. ASSUME NEW o \in Drainers,
             QuarantineRows(o) \/ MarkDrained(o) \/ ReleaseClaim(o) \/ Abort(o)
      PROVE  batch'[d] \subseteq published
  <2>1. ASSUME NEW gone, NEW done, NextRow(o, batch[o] \ gone, done)
        PROVE  batch'[d] \subseteq published
    <3>1. batch[o] \ gone \in SUBSET published
      BY DEF PublishedBatch
    <3>2. batch' = [batch EXCEPT ![o] = batch[o] \ gone]
      BY SMTT(30), <2>1 DEF NextRow
    <3> QED BY Zenon, <1>2, <3>1, <3>2
  <2>2. CASE Abort(o)
    BY ZenonT(30), <1>2, <2>2 DEF Abort
  <2> QED BY Zenon, <1>7, <2>1, <2>2 DEF QuarantineRows, MarkDrained, ReleaseClaim
<1>8. ASSUME NEW o \in Drainers,
             StartRun(o) \/ QuarantineExhaustedRows(o) \/ Send(o) \/ SendThrows(o) \/ MarkThrows(o)
      PROVE  batch'[d] \subseteq published
  BY Zenon, <1>3, <1>8 DEF StartRun, QuarantineExhaustedRows, Send, SendThrows, MarkThrows
<1> QED BY ZenonT(30), <1>4, <1>5, <1>6, <1>7, <1>8 DEF Next, Step

\* OutboxDrainService and BullMqEventPublisher keep the outbox's promise: seen from
\* its publishers and subscribers, the relay is EventDelivery.
THEOREM Refinement == Spec => ImplementsDelivery
<1>1. Init => Delivery!Init /\ PublishedBatch
  BY Zenon DEF Init, Delivery!Init, StateOf, Slots, PublishedBatch
<1>2. IInv /\ PublishedBatch /\ [Next]_vars => PublishedBatch'
  BY NextPublished DEF vars, run, table, PublishedBatch
<1>3. IInv /\ PublishedBatch /\ [Next]_vars => [Delivery!Next]_(Delivery!dvars)
  <2>1. UNCHANGED vars => UNCHANGED Delivery!dvars
    BY DEF vars, table, columns, redis, StateOf, Drained, Dead, Delivery!dvars
  <2> QED BY Zenon, <2>1, NextRefines
<1> QED
  BY <1>1, <1>2, <1>3, InductiveInvariant, PTL DEF Spec, ImplementsDelivery, Delivery!Spec
=============================================================================
