------------------------------ MODULE Schedules ------------------------------
(***************************************************************************)
(* The repeatable jobs (BullMqService.schedule and scheduleEvery, called   *)
(* by CronRegistrar and the outbox): every process that registers          *)
(* schedules does so when it starts, queue by queue, and first removes the *)
(* schedulers the queue no longer declares.  Starts overlap, fail between  *)
(* two calls to Redis, and during a deployment run beside processes of an  *)
(* earlier version, which kept a scheduler per cron expression.            *)
(***************************************************************************)
EXTENDS Naturals, Sequences

CONSTANTS ScheduleQueues,      \* the queues with a schedule, in the order they are registered
          Starters,            \* processes
          CronOf,              \* the expression each process declares
          Legacy,              \* the processes of an earlier version
          MaxStarts            \* bound on starts

ASSUME SchedulesAssumption ==
  /\ ScheduleQueues \in Seq(STRING) \ {<<>>} /\ Legacy \subseteq Starters /\ MaxStarts \in Nat
  /\ DOMAIN CronOf = Starters

VARIABLES schedulers,   \* queue -> its schedulers: [key, cron]
          start,        \* the processes: [at, q, stale]
          clean,        \* the processes since whose start no earlier version has written
          starts

schedulesVars == <<schedulers, start, clean, starts>>

DeclaredWithCron(p) == [prefix |-> "schedule", rest |-> CronOf[p]]

\* A key is the queue's prefix and a rest; other tools have prefixes of their own.
Declared(p) == [prefix |-> "schedule", rest |-> ""]

LegacyKey(p) == [prefix |-> "schedule", rest |-> CronOf[p]]

Foreign == [key |-> [prefix |-> "other", rest |-> ""], cron |-> "*"]

Queue(p) == ScheduleQueues[start[p].q]

Stopped == [at |-> "stopped", q |-> 0, stale |-> {}]

SchedulesInit ==
  /\ schedulers = [q \in {ScheduleQueues[i] : i \in DOMAIN ScheduleQueues} |-> {Foreign}]
  /\ start = [p \in Starters |-> Stopped]
  /\ clean = {} /\ starts = 0

\* CronRegistrar.onApplicationBootstrap; a running process may be started anew.
StartProcess(p) ==
  /\ start[p].at \in {"stopped", "running"}
  /\ starts < MaxStarts
  /\ starts' = starts + 1
  /\ start' = [start EXCEPT ![p] = [at |-> "read", q |-> 1, stale |-> {}]]
  /\ clean' = clean \cup {p}
  /\ UNCHANGED schedulers

schedulerKeyOf(s) == s.key

StaleIn(q, keep) == {s \in schedulers[q] : /\ schedulerKeyOf(s) # keep
                                           /\ schedulerKeyOf(s).prefix = "schedule"}

\* removeStaleSchedulers: one call lists them, and one call removes each.
removeStaleSchedulers(p) ==
  /\ p \notin Legacy
  /\ \/ /\ start[p].at = "read"
        /\ start' = [start EXCEPT ![p].at = "remove", ![p].stale = StaleIn(Queue(p), Declared(p))]
        /\ UNCHANGED schedulers
     \/ /\ start[p].at = "remove"
        /\ \E s \in start[p].stale :
             /\ schedulers' = [schedulers EXCEPT ![Queue(p)] = {x \in @ : x.key # s.key}]
             /\ start' = [start EXCEPT ![p].stale = @ \ {s}]
  /\ UNCHANGED <<clean, starts>>

Upserted(key, p) == {s \in schedulers[Queue(p)] : s.key # key} \cup {[key |-> key, cron |-> CronOf[p]]}

NextQueue(p) == IF start[p].q = Len(ScheduleQueues) THEN [Stopped EXCEPT !.at = "running"]
                ELSE [at |-> "read", q |-> start[p].q + 1, stale |-> {}]

upsertSchedule(p) ==
  /\ p \notin Legacy
  /\ start[p].at = "remove" /\ start[p].stale = {}
  /\ schedulers' = [schedulers EXCEPT ![Queue(p)] = Upserted(Declared(p), p)]
  /\ start' = [start EXCEPT ![p] = NextQueue(p)]
  /\ UNCHANGED <<clean, starts>>

\* What the earlier version did: one scheduler per expression, nothing removed.
LegacyUpsert(p) ==
  /\ p \in Legacy
  /\ start[p].at = "read"
  /\ schedulers' = [schedulers EXCEPT ![Queue(p)] = Upserted(LegacyKey(p), p)]
  /\ start' = [start EXCEPT ![p] = NextQueue(p)]
  /\ clean' = {}
  /\ UNCHANGED starts

\* A call to Redis fails, the bootstrap with it, and the process exits.
StartFails(p) ==
  /\ start[p].at \in {"read", "remove"}
  /\ start' = [start EXCEPT ![p] = Stopped]
  /\ UNCHANGED <<schedulers, clean, starts>>

Registering(p) == removeStaleSchedulers(p) \/ upsertSchedule(p) \/ LegacyUpsert(p)

SchedulesNext == \E p \in Starters : StartProcess(p) \/ Registering(p) \/ StartFails(p)

SchedulesSpec == SchedulesInit /\ [][SchedulesNext]_schedulesVars
-----------------------------------------------------------------------------
SchedulesTypeOK ==
  /\ \A p \in Starters : /\ start[p].at \in {"stopped", "read", "remove", "running"}
                         /\ start[p].q \in 0..Len(ScheduleQueues)
  /\ clean \subseteq Starters /\ starts \in 0..MaxStarts

\* Once a process has started, every queue has one schedule of this service's,
\* however starts overlap and with whatever expressions ("both fire, forever,
\* and both report success" is what must not happen), until an earlier version
\* writes again; and a scheduler that is not this service's is still there.
OneSchedulePerQueue ==
  \A p \in Starters \ Legacy : start[p].at = "running" /\ p \in clean =>
    \A q \in DOMAIN schedulers :
      \E s \in schedulers[q] : schedulers[q] = {s, Foreign} /\ s # Foreign

Scheduler == {Foreign} \cup
  [key : [prefix : {"schedule"}, rest : {""} \cup {CronOf[p] : p \in Starters}],
   cron : {CronOf[p] : p \in Starters}]

TheKey == [prefix |-> "schedule", rest |-> ""]

\* The schedulers of a queue: one per key, and another tool's among them.
Sound(S) == /\ S \subseteq Scheduler /\ Foreign \in S
            /\ \A s, t \in S : s.key = t.key => s = t

\* Besides what is on a list there is nothing of an earlier declaration.
Covered(S, stale) == \A s \in S : s = Foreign \/ s.key = TheKey \/ s \in stale

\* The declared schedule is there, and nothing of an earlier one.
Tidy(S) == Covered(S, {}) /\ \E s \in S : s.key = TheKey

Registers(p) == start[p].at \in {"read", "remove"}

\* The inductive invariant behind OneSchedulePerQueue: the queues a start has
\* registered are tidy until an earlier version writes, and what it still has to
\* remove from the next one is on its list.
SchedulesInv ==
  /\ schedulers \in [{ScheduleQueues[i] : i \in DOMAIN ScheduleQueues} -> SUBSET Scheduler]
  /\ start \in [Starters -> [at : {"stopped", "read", "remove", "running"},
                            q : 0..Len(ScheduleQueues), stale : SUBSET Scheduler]]
  /\ clean \subseteq Starters /\ starts \in 0..MaxStarts
  /\ \A i \in DOMAIN ScheduleQueues : Sound(schedulers[ScheduleQueues[i]])
  /\ \A p \in Starters : /\ Registers(p) => start[p].q # 0
                         /\ \A s \in start[p].stale : s # Foreign /\ s.key # TheKey
  /\ \A p \in clean \ Legacy :
       /\ \A i \in DOMAIN ScheduleQueues :
            start[p].at = "running" \/ (Registers(p) /\ i < start[p].q) => Tidy(schedulers[ScheduleQueues[i]])
       /\ start[p].at = "remove" => Covered(schedulers[Queue(p)], start[p].stale)
=============================================================================
