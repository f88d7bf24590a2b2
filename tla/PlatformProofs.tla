--------------------------- MODULE PlatformProofs ---------------------------
(***************************************************************************)
(* Proofs about the schedules and the processes and what they promise      *)
(* together, and about the retries of the queues.                          *)
(***************************************************************************)
EXTENDS Platform, Queues, TLAPS

-----------------------------------------------------------------------------
(* The schedules.                                                          *)

\* Another tool's scheduler has a key of its own.
LEMMA OwnKeys ==
  /\ Foreign \in Scheduler /\ Foreign.key # TheKey
  /\ \A s \in Scheduler : s # Foreign => s.key.prefix = "schedule" /\ s.key # Foreign.key
  /\ \A s \in Scheduler : s.key.prefix = "schedule" => s # Foreign
  /\ \A p \in Starters : /\ Declared(p) = TheKey
                         /\ [key |-> TheKey, cron |-> CronOf[p]] \in Scheduler
                         /\ [key |-> LegacyKey(p), cron |-> CronOf[p]] \in Scheduler
                         /\ LegacyKey(p) # Foreign.key
<1>1. Foreign \in Scheduler /\ Foreign.key.prefix = "other" /\ TheKey.prefix = "schedule"
  BY Zenon DEF Scheduler, Foreign, TheKey
<1>2. ASSUME NEW s \in Scheduler, s # Foreign PROVE s.key.prefix = "schedule"
  BY Zenon, <1>2 DEF Scheduler
<1>3. ASSUME NEW p \in Starters
      PROVE  /\ Declared(p) = TheKey /\ LegacyKey(p).prefix = "schedule"
             /\ [key |-> TheKey, cron |-> CronOf[p]] \in Scheduler
             /\ [key |-> LegacyKey(p), cron |-> CronOf[p]] \in Scheduler
  <2>1. Declared(p) = TheKey /\ LegacyKey(p).prefix = "schedule"
    BY DEF Declared, TheKey, LegacyKey
  <2> DEFINE C == {CronOf[x] : x \in Starters}
             R == {""} \cup C
  <2>2. CronOf[p] \in C /\ CronOf[p] \in R /\ "" \in R
    OBVIOUS
  <2>3. Scheduler = {Foreign} \cup [key : [prefix : {"schedule"}, rest : R], cron : C]
    BY DEF Scheduler
  <2> HIDE DEF C, R
  <2>4. TheKey \in [prefix : {"schedule"}, rest : R] /\ LegacyKey(p) \in [prefix : {"schedule"}, rest : R]
    BY Zenon, <2>2 DEF TheKey, LegacyKey
  <2> QED BY Zenon, <2>1, <2>2, <2>3, <2>4
<1> QED BY <1>1, <1>2, <1>3

\* What removing a stale scheduler does to a queue.
LEMMA RemoveOne ==
  ASSUME NEW S, Sound(S), NEW s \in Scheduler, s # Foreign, s.key # TheKey
  PROVE  LET T == {x \in S : x.key # s.key} IN
         /\ Sound(T) /\ (Tidy(S) => Tidy(T))
         /\ \A stale : Covered(S, stale) => Covered(T, stale) /\ Covered(T, stale \ {s})
BY OwnKeys DEF Sound, Tidy, Covered

\* What writing one does.
LEMMA UpsertOne ==
  ASSUME NEW S, Sound(S), NEW k, NEW new \in Scheduler, new.key = k, k # Foreign.key
  PROVE  LET T == {x \in S : x.key # k} \cup {new} IN
         /\ Sound(T)
         /\ k = TheKey => /\ Covered(S, {}) => Tidy(T)
                          /\ \A stale : Covered(S, stale) => Covered(T, stale)
<1> DEFINE T == {x \in S : x.key # k} \cup {new}
<1>1. Sound(T)
  BY DEF Sound
<1>2. ASSUME k = TheKey, NEW stale, Covered(S, stale) PROVE Covered(T, stale)
  BY <1>2 DEF Covered
<1>3. ASSUME k = TheKey, Covered(S, {}) PROVE Tidy(T)
  BY <1>2, <1>3 DEF Tidy
<1> QED BY <1>1, <1>2, <1>3

\* What the invariant says of a process that is registering.
LEMMA AtQueue ==
  ASSUME SchedulesInv, NEW p \in Starters, Registers(p)
  PROVE  /\ start[p].q \in DOMAIN ScheduleQueues /\ Queue(p) = ScheduleQueues[start[p].q]
         /\ Queue(p) \in {ScheduleQueues[i] : i \in DOMAIN ScheduleQueues}
         /\ Sound(schedulers[Queue(p)])
<1>1. start[p].q \in 0..Len(ScheduleQueues) /\ start[p].q # 0 /\ ScheduleQueues \in Seq(STRING)
  BY SchedulesAssumption DEF SchedulesInv
<1>2. start[p].q \in DOMAIN ScheduleQueues
  BY <1>1
<1> QED BY <1>2 DEF SchedulesInv, Queue

\* A step of one process that leaves every queue sound, tidy if it was, and covered
\* if it was, keeps the invariant, if it does for the process itself.
LEMMA OneStarter ==
  ASSUME SchedulesInv, NEW p \in Starters,
         NEW t \in [at : {"stopped", "read", "remove", "running"},
                    q : 0..Len(ScheduleQueues), stale : SUBSET Scheduler],
         start' = [start EXCEPT ![p] = t],
         schedulers' \in [{ScheduleQueues[i] : i \in DOMAIN ScheduleQueues} -> SUBSET Scheduler],
         \A i \in DOMAIN ScheduleQueues : Sound(schedulers'[ScheduleQueues[i]]),
         clean' \subseteq Starters, starts' \in 0..MaxStarts,
         t.at \in {"read", "remove"} => t.q # 0,
         \A s \in t.stale : s # Foreign /\ s.key # TheKey,
         \A x \in clean' \ (Legacy \cup {p}) :
           /\ x \in clean
           /\ \A i \in DOMAIN ScheduleQueues :
                LET n == ScheduleQueues[i] IN
                /\ Tidy(schedulers[n]) => Tidy(schedulers'[n])
                /\ Covered(schedulers[n], start[x].stale) => Covered(schedulers'[n], start[x].stale),
         p \in clean' \ Legacy =>
           /\ \A i \in DOMAIN ScheduleQueues :
                t.at = "running" \/ (t.at \in {"read", "remove"} /\ i < t.q) => Tidy(schedulers'[ScheduleQueues[i]])
           /\ t.at = "remove" => Covered(schedulers'[ScheduleQueues[t.q]], t.stale)
  PROVE  SchedulesInv'
<1>1. /\ start' \in [Starters -> [at : {"stopped", "read", "remove", "running"},
                               q : 0..Len(ScheduleQueues), stale : SUBSET Scheduler]]
      /\ start'[p] = t /\ \A x \in Starters : x # p => start'[x] = start[x]
  BY DEF SchedulesInv
<1>2. ASSUME NEW x \in Starters
      PROVE  /\ Registers(x)' => start'[x].q # 0
             /\ \A s \in start'[x].stale : s # Foreign /\ s.key # TheKey
  BY <1>1 DEF SchedulesInv, Registers
<1>3. ASSUME NEW x \in clean' \ Legacy
      PROVE  /\ \A i \in DOMAIN ScheduleQueues :
                  start'[x].at = "running" \/ (Registers(x)' /\ i < start'[x].q)
                    => Tidy(schedulers'[ScheduleQueues[i]])
             /\ start'[x].at = "remove" => Covered(schedulers'[Queue(x)'], start'[x].stale)
  <2>1. CASE x = p
    BY <1>1, <2>1 DEF Registers, Queue
  <2>2. CASE x # p
    <3>1. x \in clean \ Legacy /\ x \in Starters /\ start'[x] = start[x]
      BY <1>1, <2>2
    <3>2. /\ \A i \in DOMAIN ScheduleQueues :
               start[x].at = "running" \/ (Registers(x) /\ i < start[x].q) => Tidy(schedulers[ScheduleQueues[i]])
          /\ start[x].at = "remove" => Covered(schedulers[Queue(x)], start[x].stale)
      BY <3>1 DEF SchedulesInv
    <3>3. Queue(x)' = Queue(x) /\ Registers(x)' = Registers(x)
      BY <3>1 DEF Queue, Registers
    <3>4. start[x].at = "remove" => /\ start[x].q \in DOMAIN ScheduleQueues
                                    /\ Queue(x) = ScheduleQueues[start[x].q]
      BY <3>1, AtQueue DEF Registers
    <3> QED BY <2>2, <3>1, <3>2, <3>3, <3>4
  <2> QED BY <2>1, <2>2
<1> QED BY Zenon, <1>1, <1>2, <1>3 DEF SchedulesInv

StartType == [at : {"stopped", "read", "remove", "running"}, q : 0..Len(ScheduleQueues),
              stale : SUBSET Scheduler]

\* A start begins or fails: nothing is written.
LEMMA StartOrFail ==
  ASSUME SchedulesInv, NEW p \in Starters, StartProcess(p) \/ StartFails(p)
  PROVE  SchedulesInv'
<1>1. PICK t \in {[at |-> "read", q |-> 1, stale |-> {}], Stopped} : start' = [start EXCEPT ![p] = t]
  BY DEF StartProcess, StartFails
<1>2. t \in StartType /\ t.stale = {} /\ t.at \in {"read", "stopped"} /\ (t.at = "read" => t.q = 1)
  <2>1. 1 \in 0..Len(ScheduleQueues) /\ 0 \in 0..Len(ScheduleQueues)
    BY SchedulesAssumption
  <2> QED BY <2>1 DEF Stopped, StartType
<1>3. schedulers' = schedulers /\ clean' \subseteq clean \cup {p}
  BY DEF StartProcess, StartFails
<1>4. clean' \subseteq Starters /\ starts' \in 0..MaxStarts
  BY <1>3, SchedulesAssumption DEF StartProcess, StartFails, SchedulesInv
<1>5. \A i \in DOMAIN ScheduleQueues : ~(i < 1)
  BY SchedulesAssumption
<1>6. /\ schedulers' \in [{ScheduleQueues[i] : i \in DOMAIN ScheduleQueues} -> SUBSET Scheduler]
      /\ \A i \in DOMAIN ScheduleQueues : Sound(schedulers'[ScheduleQueues[i]])
  BY <1>3 DEF SchedulesInv
<1>7. p \in clean' \ Legacy =>
           /\ \A i \in DOMAIN ScheduleQueues :
                t.at = "running" \/ (t.at \in {"read", "remove"} /\ i < t.q) => Tidy(schedulers'[ScheduleQueues[i]])
           /\ t.at = "remove" => Covered(schedulers'[ScheduleQueues[t.q]], t.stale)
  BY <1>2, <1>5
<1>8. \A x \in clean' \ (Legacy \cup {p}) :
        /\ x \in clean
        /\ \A i \in DOMAIN ScheduleQueues :
             LET n == ScheduleQueues[i] IN
             /\ Tidy(schedulers[n]) => Tidy(schedulers'[n])
             /\ Covered(schedulers[n], start[x].stale) => Covered(schedulers'[n], start[x].stale)
  BY <1>3
<1>9. (t.at \in {"read", "remove"} => t.q # 0) /\ \A s \in t.stale : s # Foreign /\ s.key # TheKey
  BY <1>2
<1> QED BY Zenon, <1>1, <1>2, <1>4, <1>6, <1>7, <1>8, <1>9, OneStarter DEF StartType

\* The schedulers of the queue are listed.
LEMMA ListStep ==
  ASSUME SchedulesInv, NEW p \in Starters, p \notin Legacy, start[p].at = "read",
         start' = [start EXCEPT ![p].at = "remove", ![p].stale = StaleIn(Queue(p), Declared(p))],
         UNCHANGED <<schedulers, clean, starts>>
  PROVE  SchedulesInv'
<1> DEFINE stale == StaleIn(Queue(p), Declared(p))
           t == [start[p] EXCEPT !.at = "remove", !.stale = stale]
<1>1. start[p] \in StartType /\ start \in [Starters -> StartType]
  BY DEF SchedulesInv, StartType
<1>2. /\ start[p].q \in DOMAIN ScheduleQueues /\ Queue(p) = ScheduleQueues[start[p].q]
      /\ Sound(schedulers[Queue(p)]) /\ start[p].q # 0
  BY Zenon, AtQueue DEF Registers, SchedulesInv
<1>3. /\ stale = {s \in schedulers[Queue(p)] : s.key # TheKey /\ s.key.prefix = "schedule"}
      /\ stale \subseteq Scheduler /\ \A s \in stale : s # Foreign /\ s.key # TheKey
  BY Zenon, <1>2, OwnKeys DEF StaleIn, schedulerKeyOf, Sound
<1>4. Covered(schedulers[Queue(p)], stale)
  BY <1>2, <1>3, OwnKeys DEF Covered, Sound
<1> HIDE DEF stale
<1>5. t \in StartType /\ t.at = "remove" /\ t.stale = stale /\ t.q = start[p].q
  BY Zenon, <1>1, <1>3 DEF StartType
<1>6. start' = [start EXCEPT ![p] = t]
  BY Zenon, <1>1 DEF stale, StartType
<1> HIDE DEF t
<1>7. p \in clean' \ Legacy =>
           /\ \A i \in DOMAIN ScheduleQueues :
                t.at = "running" \/ (t.at \in {"read", "remove"} /\ i < t.q) => Tidy(schedulers'[ScheduleQueues[i]])
           /\ t.at = "remove" => Covered(schedulers'[ScheduleQueues[t.q]], t.stale)
  BY <1>2, <1>4, <1>5 DEF SchedulesInv, Registers
<1>8. /\ schedulers' \in [{ScheduleQueues[i] : i \in DOMAIN ScheduleQueues} -> SUBSET Scheduler]
      /\ \A i \in DOMAIN ScheduleQueues : Sound(schedulers'[ScheduleQueues[i]])
      /\ clean' \subseteq Starters /\ starts' \in 0..MaxStarts
  BY DEF SchedulesInv
<1>9. \A x \in clean' \ (Legacy \cup {p}) :
        /\ x \in clean
        /\ \A i \in DOMAIN ScheduleQueues :
             LET n == ScheduleQueues[i] IN
             /\ Tidy(schedulers[n]) => Tidy(schedulers'[n])
             /\ Covered(schedulers[n], start[x].stale) => Covered(schedulers'[n], start[x].stale)
  OBVIOUS
<1>10. (t.at \in {"read", "remove"} => t.q # 0) /\ \A s \in t.stale : s # Foreign /\ s.key # TheKey
  BY <1>2, <1>3, <1>5
<1> QED BY Zenon, <1>5, <1>6, <1>7, <1>8, <1>9, <1>10, OneStarter DEF StartType

\* One of them is removed.
LEMMA RemoveStep ==
  ASSUME SchedulesInv, NEW p \in Starters, p \notin Legacy, start[p].at = "remove",
         NEW s \in start[p].stale,
         schedulers' = [schedulers EXCEPT ![Queue(p)] = {x \in @ : x.key # s.key}],
         start' = [start EXCEPT ![p].stale = @ \ {s}], UNCHANGED <<clean, starts>>
  PROVE  SchedulesInv'
<1> DEFINE t == [start[p] EXCEPT !.stale = @ \ {s}]
           Q == Queue(p)
           T == {x \in schedulers[Q] : x.key # s.key}
<1>1. start[p] \in StartType /\ start \in [Starters -> StartType]
  BY DEF SchedulesInv, StartType
<1>2. /\ start[p].q \in DOMAIN ScheduleQueues /\ Q = ScheduleQueues[start[p].q]
      /\ Sound(schedulers[Q]) /\ start[p].q # 0
      /\ Q \in {ScheduleQueues[i] : i \in DOMAIN ScheduleQueues}
  BY Zenon, AtQueue DEF Registers, SchedulesInv
<1>3. s \in Scheduler /\ s # Foreign /\ s.key # TheKey
  BY <1>1 DEF SchedulesInv, StartType
<1>4. /\ Sound(T) /\ (Tidy(schedulers[Q]) => Tidy(T))
      /\ \A stale : Covered(schedulers[Q], stale) => Covered(T, stale) /\ Covered(T, stale \ {s})
  BY Zenon, <1>2, <1>3, RemoveOne
<1>5. t \in StartType /\ t.at = "remove" /\ t.stale = start[p].stale \ {s} /\ t.q = start[p].q
  BY <1>1 DEF StartType
<1>6. start' = [start EXCEPT ![p] = t]
  BY <1>1 DEF StartType
<1>7. T \in SUBSET Scheduler /\ schedulers' = [schedulers EXCEPT ![Q] = T]
  BY <1>4 DEF Sound
<1> HIDE DEF t, T, Q
<1>8. /\ schedulers' \in [{ScheduleQueues[i] : i \in DOMAIN ScheduleQueues} -> SUBSET Scheduler]
      /\ \A n \in {ScheduleQueues[i] : i \in DOMAIN ScheduleQueues} :
           schedulers'[n] = IF n = Q THEN T ELSE schedulers[n]
  BY Zenon, <1>2, <1>7 DEF SchedulesInv
<1>9. ASSUME NEW i \in DOMAIN ScheduleQueues
      PROVE  LET n == ScheduleQueues[i] IN
             /\ Sound(schedulers'[n]) /\ (Tidy(schedulers[n]) => Tidy(schedulers'[n]))
             /\ \A stale : Covered(schedulers[n], stale) => Covered(schedulers'[n], stale)
  BY ZenonT(30), <1>4, <1>8 DEF SchedulesInv
<1>10. p \in clean' \ Legacy =>
           /\ \A i \in DOMAIN ScheduleQueues :
                t.at = "running" \/ (t.at \in {"read", "remove"} /\ i < t.q) => Tidy(schedulers'[ScheduleQueues[i]])
           /\ t.at = "remove" => Covered(schedulers'[ScheduleQueues[t.q]], t.stale)
  <2>1. ASSUME p \in clean \ Legacy
        PROVE  /\ \A i \in DOMAIN ScheduleQueues : i < start[p].q => Tidy(schedulers[ScheduleQueues[i]])
               /\ Covered(schedulers[Q], start[p].stale)
    BY <2>1 DEF SchedulesInv, Registers, Q
  <2>2. schedulers'[Q] = T
    BY Zenon, <1>2, <1>8
  <2> QED BY ZenonT(30), <1>2, <1>4, <1>5, <1>9, <2>1, <2>2
<1>11. \A x \in clean' \ (Legacy \cup {p}) :
        /\ x \in clean
        /\ \A i \in DOMAIN ScheduleQueues :
             LET n == ScheduleQueues[i] IN
             /\ Tidy(schedulers[n]) => Tidy(schedulers'[n])
             /\ Covered(schedulers[n], start[x].stale) => Covered(schedulers'[n], start[x].stale)
  BY Zenon, <1>9
<1>12. clean' \subseteq Starters /\ starts' \in 0..MaxStarts /\ (t.at \in {"read", "remove"} => t.q # 0)
       /\ \A x \in t.stale : x # Foreign /\ x.key # TheKey
  BY <1>2, <1>5 DEF SchedulesInv
<1> QED BY Zenon, <1>5, <1>6, <1>8, <1>9, <1>10, <1>11, <1>12, OneStarter DEF StartType

\* Where a start goes from a queue it has registered.
LEMMA NextOfStart ==
  ASSUME SchedulesInv, NEW p \in Starters, Registers(p)
  PROVE  /\ NextQueue(p) \in StartType /\ NextQueue(p).stale = {} /\ NextQueue(p).at \in {"read", "running"}
         /\ NextQueue(p).at = "read" => NextQueue(p).q = start[p].q + 1
         /\ NextQueue(p).at = "running" => start[p].q = Len(ScheduleQueues)
<1>1. start[p].q \in 1..Len(ScheduleQueues) /\ Len(ScheduleQueues) \in Nat
  BY AtQueue, SchedulesAssumption
<1>2. CASE start[p].q = Len(ScheduleQueues)
  BY <1>1, <1>2 DEF NextQueue, Stopped, StartType
<1>3. CASE start[p].q # Len(ScheduleQueues)
  <2>1. NextQueue(p) = [at |-> "read", q |-> start[p].q + 1, stale |-> {}]
    BY <1>3 DEF NextQueue
  <2>2. start[p].q + 1 \in 0..Len(ScheduleQueues)
    BY <1>1, <1>3
  <2> QED BY <2>1, <2>2 DEF StartType
<1> QED BY <1>2, <1>3

\* A schedule is written, by this version or by an earlier one.
LEMMA UpsertStep ==
  ASSUME SchedulesInv, NEW p \in Starters, Registers(p), NEW k, NEW new \in Scheduler,
         new.key = k, k # Foreign.key,
         schedulers' = [schedulers EXCEPT ![Queue(p)] = {s \in schedulers[Queue(p)] : s.key # k} \cup {new}],
         start' = [start EXCEPT ![p] = NextQueue(p)], UNCHANGED starts,
         \/ clean' = {}
         \/ /\ clean' = clean /\ k = TheKey
            /\ start[p].at = "remove" /\ start[p].stale = {}
  PROVE  SchedulesInv'
<1> DEFINE t == NextQueue(p)
           Q == Queue(p)
           T == {x \in schedulers[Q] : x.key # k} \cup {new}
<1>1. start[p] \in StartType /\ start \in [Starters -> StartType]
  BY DEF SchedulesInv, StartType
<1>2. /\ start[p].q \in DOMAIN ScheduleQueues /\ Q = ScheduleQueues[start[p].q]
      /\ Sound(schedulers[Q])
      /\ Q \in {ScheduleQueues[i] : i \in DOMAIN ScheduleQueues}
  BY AtQueue
<1>3. start[p].q \in 1..Len(ScheduleQueues) /\ Len(ScheduleQueues) \in Nat
      /\ \A i \in DOMAIN ScheduleQueues : i \in 1..Len(ScheduleQueues)
  BY <1>2, SchedulesAssumption
<1>4. /\ Sound(T)
      /\ k = TheKey => /\ Covered(schedulers[Q], {}) => Tidy(T)
                       /\ \A stale : Covered(schedulers[Q], stale) => Covered(T, stale)
  BY <1>2, UpsertOne
<1>5. /\ t \in StartType /\ t.stale = {} /\ t.at \in {"read", "running"}
      /\ t.at = "read" => t.q = start[p].q + 1
      /\ t.at = "running" => start[p].q = Len(ScheduleQueues)
  BY NextOfStart
<1>6. T \in SUBSET Scheduler /\ schedulers' = [schedulers EXCEPT ![Q] = T]
  BY <1>4 DEF Sound
<1> HIDE DEF t, T, Q
<1>7. /\ schedulers' \in [{ScheduleQueues[i] : i \in DOMAIN ScheduleQueues} -> SUBSET Scheduler]
      /\ \A n \in {ScheduleQueues[i] : i \in DOMAIN ScheduleQueues} :
           schedulers'[n] = IF n = Q THEN T ELSE schedulers[n]
  BY Zenon, <1>2, <1>6 DEF SchedulesInv
<1>8. \A i \in DOMAIN ScheduleQueues : Sound(schedulers'[ScheduleQueues[i]])
  BY Zenon, <1>4, <1>7 DEF SchedulesInv
<1>9. ASSUME k = TheKey, NEW i \in DOMAIN ScheduleQueues
      PROVE  LET n == ScheduleQueues[i] IN
             /\ Tidy(schedulers[n]) => Tidy(schedulers'[n])
             /\ \A stale : Covered(schedulers[n], stale) => Covered(schedulers'[n], stale)
  <2>1. CASE ScheduleQueues[i] = Q
    BY Zenon, <1>2, <1>4, <1>7, <1>9, <2>1 DEF Tidy
  <2>2. CASE ScheduleQueues[i] # Q
    BY Zenon, <1>7, <2>2
  <2> QED BY <2>1, <2>2
<1>10. p \in clean' \ Legacy =>
           /\ \A i \in DOMAIN ScheduleQueues :
                t.at = "running" \/ (t.at \in {"read", "remove"} /\ i < t.q) => Tidy(schedulers'[ScheduleQueues[i]])
           /\ t.at = "remove" => Covered(schedulers'[ScheduleQueues[t.q]], t.stale)
  <2> SUFFICES ASSUME p \in clean' \ Legacy, NEW i \in DOMAIN ScheduleQueues,
                      t.at = "running" \/ (t.at = "read" /\ i < t.q)
               PROVE  Tidy(schedulers'[ScheduleQueues[i]])
    BY Zenon, <1>5
  <2>1. /\ \A j \in DOMAIN ScheduleQueues : j < start[p].q => Tidy(schedulers[ScheduleQueues[j]])
        /\ Covered(schedulers[Q], {}) /\ k = TheKey
    <3>1. p \in clean \ Legacy /\ k = TheKey /\ start[p].at = "remove" /\ start[p].stale = {}
      OBVIOUS
    <3>2. Covered(schedulers[Q], start[p].stale)
      BY Zenon, <3>1 DEF SchedulesInv, Q
    <3>3. \A j \in DOMAIN ScheduleQueues : j < start[p].q => Tidy(schedulers[ScheduleQueues[j]])
      BY <3>1 DEF SchedulesInv, Registers
    <3> QED BY <3>1, <3>2, <3>3
  <2>2. i < start[p].q \/ i = start[p].q
    BY <1>3, <1>5
  <2>3. CASE i = start[p].q
    BY Zenon, <1>2, <1>4, <1>7, <2>1, <2>3
  <2>4. CASE i < start[p].q
    BY Zenon, <1>9, <2>1, <2>4
  <2> QED BY <2>2, <2>3, <2>4
<1>11. \A x \in clean' \ (Legacy \cup {p}) :
        /\ x \in clean
        /\ \A i \in DOMAIN ScheduleQueues :
             LET n == ScheduleQueues[i] IN
             /\ Tidy(schedulers[n]) => Tidy(schedulers'[n])
             /\ Covered(schedulers[n], start[x].stale) => Covered(schedulers'[n], start[x].stale)
  BY <1>9
<1>12. clean' \subseteq Starters /\ starts' \in 0..MaxStarts /\ (t.at \in {"read", "remove"} => t.q # 0)
       /\ \A x \in t.stale : x # Foreign /\ x.key # TheKey
  BY <1>3, <1>5 DEF SchedulesInv
<1> QED BY Zenon, <1>5, <1>7, <1>8, <1>10, <1>11, <1>12, OneStarter DEF StartType, t

\* The invariant of the schedules: the queues a start has registered stay tidy.
THEOREM SchedulesInvariant == SchedulesSpec => []SchedulesInv
<1>1. ASSUME SchedulesInit PROVE SchedulesInv
  <2>1. Stopped \in StartType
    BY SchedulesAssumption DEF Stopped, StartType
  <2>2. start \in [Starters -> StartType] /\ \A p \in Starters : start[p].stale = {} /\ ~Registers(p)
    BY <1>1, <2>1 DEF SchedulesInit, Stopped, Registers
  <2>3. Sound({Foreign})
    BY OwnKeys DEF Sound
  <2> QED BY <1>1, <2>2, <2>3, OwnKeys, SchedulesAssumption DEF SchedulesInit, SchedulesInv, StartType
<1>2. ASSUME SchedulesInv, [SchedulesNext]_schedulesVars PROVE SchedulesInv'
  <2>1. CASE UNCHANGED schedulesVars
    BY <1>2, <2>1 DEF schedulesVars, SchedulesInv, Registers, Queue
  <2>2. CASE SchedulesNext
    <3>1. PICK p \in Starters : StartProcess(p) \/ Registering(p) \/ StartFails(p)
      BY <2>2 DEF SchedulesNext
    <3>2. CASE StartProcess(p) \/ StartFails(p)
      BY <1>2, <3>2, StartOrFail
    <3>3. CASE removeStaleSchedulers(p) /\ start[p].at = "read"
      BY <1>2, <3>3, ListStep DEF removeStaleSchedulers
    <3>4. CASE removeStaleSchedulers(p) /\ start[p].at = "remove"
      <4>1. PICK s \in start[p].stale :
              /\ schedulers' = [schedulers EXCEPT ![Queue(p)] = {x \in @ : x.key # s.key}]
              /\ start' = [start EXCEPT ![p].stale = @ \ {s}]
        BY <3>4 DEF removeStaleSchedulers
      <4> QED BY Zenon, <1>2, <3>4, <4>1, RemoveStep DEF removeStaleSchedulers
    <3>5. CASE upsertSchedule(p)
      <4> DEFINE new == [key |-> TheKey, cron |-> CronOf[p]]
      <4>1. new \in Scheduler /\ new.key = TheKey /\ TheKey # Foreign.key /\ Declared(p) = TheKey
        BY Zenon, OwnKeys
      <4>2. schedulers' = [schedulers EXCEPT ![Queue(p)] =
                             {s \in schedulers[Queue(p)] : s.key # TheKey} \cup {new}]
        BY <3>5, <4>1 DEF upsertSchedule, Upserted
      <4> HIDE DEF new
      <4>3. Registers(p) /\ start[p].at = "remove" /\ start[p].stale = {} /\ clean' = clean
            /\ start' = [start EXCEPT ![p] = NextQueue(p)] /\ UNCHANGED starts
        BY <3>5 DEF upsertSchedule, Registers
      <4> QED BY Zenon, <1>2, <4>1, <4>2, <4>3, UpsertStep
    <3>6. CASE LegacyUpsert(p)
      <4> DEFINE new == [key |-> LegacyKey(p), cron |-> CronOf[p]]
      <4>1. new \in Scheduler /\ new.key = LegacyKey(p) /\ LegacyKey(p) # Foreign.key
        BY Zenon, OwnKeys
      <4>2. schedulers' = [schedulers EXCEPT ![Queue(p)] =
                             {s \in schedulers[Queue(p)] : s.key # LegacyKey(p)} \cup {new}]
        BY <3>6 DEF LegacyUpsert, Upserted
      <4> HIDE DEF new
      <4>3. Registers(p) /\ clean' = {} /\ start' = [start EXCEPT ![p] = NextQueue(p)] /\ UNCHANGED starts
        BY <3>6 DEF LegacyUpsert, Registers
      <4> QED BY ZenonT(30), <1>2, <4>1, <4>2, <4>3, UpsertStep
    <3> QED BY <3>1, <3>2, <3>3, <3>4, <3>5, <3>6 DEF Registering, removeStaleSchedulers
  <2> QED BY <1>2, <2>1, <2>2
<1> QED BY <1>1, <1>2, PTL DEF SchedulesSpec

\* However starts of this version overlap, and with whatever expressions, once one
\* has come up every queue has exactly one schedule of this service's, and keeps it
\* until an earlier version writes (CronRegistrar); another tool's stays.
THEOREM SchedulesAreSingle == SchedulesSpec => [](SchedulesTypeOK /\ OneSchedulePerQueue)
<1>1. ASSUME SchedulesInv PROVE SchedulesTypeOK
  BY <1>1 DEF SchedulesInv, SchedulesTypeOK
<1>2. ASSUME SchedulesInv PROVE OneSchedulePerQueue
  <2> SUFFICES ASSUME NEW p \in Starters \ Legacy, start[p].at = "running", p \in clean,
                      NEW q \in DOMAIN schedulers
               PROVE  \E s \in schedulers[q] : schedulers[q] = {s, Foreign} /\ s # Foreign
    BY DEF OneSchedulePerQueue
  <2>1. PICK i \in DOMAIN ScheduleQueues : q = ScheduleQueues[i]
    BY <1>2 DEF SchedulesInv
  <2>2. Tidy(schedulers[q]) /\ Sound(schedulers[q])
    BY <1>2, <2>1 DEF SchedulesInv
  <2>3. PICK s \in schedulers[q] : s.key = TheKey
    BY <2>2 DEF Tidy
  <2>4. \A x \in schedulers[q] : x = Foreign \/ x = s
    BY <2>2, <2>3 DEF Tidy, Covered, Sound
  <2>5. s # Foreign /\ Foreign \in schedulers[q]
    BY <2>2, <2>3, OwnKeys DEF Sound
  <2> QED BY <2>4, <2>5
<1> QED BY <1>1, <1>2, SchedulesInvariant, PTL

-----------------------------------------------------------------------------
(* The processes.                                                          *)

\* The roles of a process, and what is said of each by its place or by its name.
LEMMA RolePlaces ==
  ASSUME ProcessShape
  PROVE  /\ roles \in Seq({"api", "worker", "scheduler"}) /\ DOMAIN roles = 1..Len(roles)
         /\ Len(roles) \in Nat \ {0} /\ boot.i \in DOMAIN roles /\ Role \in Roles
         /\ \A i, j \in DOMAIN roles : roles[i] = roles[j] => i = j
         /\ \A r \in Roles : \E i \in DOMAIN roles : r = roles[i]
         /\ \A i \in DOMAIN roles : roles[i] \in Roles
<1>1. /\ roles \in Seq({"api", "worker", "scheduler"}) /\ roles # <<>>
      /\ \A i, j \in DOMAIN roles : roles[i] = roles[j] => i = j
  BY ProcessesAssumption DEF ProcessShape
<1>2. DOMAIN roles = 1..Len(roles) /\ Len(roles) \in Nat \ {0}
  BY <1>1
<1>3. boot.i \in DOMAIN roles
  BY <1>2 DEF ProcessShape
<1> QED BY <1>1, <1>2, <1>3 DEF Roles, Role

\* A role is created: its hook is on.
LEMMA CreateStep ==
  ASSUME ProcessesInv, createApp
  PROVE  ProcessesInv'
<1>1. /\ exit = "none" /\ boot.step = "create" /\ hook' = [hook EXCEPT ![Role] = "on"]
      /\ UNCHANGED <<roles, providers, main, consumers, client, run, exit, signals, early>>
  BY DEF createApp
<1>2. Roles' = Roles /\ ProcessShape
  BY <1>1 DEF Roles, ProcessesInv
<1>3. boot'.step = "listen" /\ boot'.i = boot.i
  BY <1>2 DEF createApp, ProcessShape
<1>4. ProcessShape'
  <2>1. boot' = [boot EXCEPT !.step = "listen"]
    BY DEF createApp
  <2>2. boot' \in [step : {"env", "create", "listen", "up"}, i : 1..Len(roles)]
    BY <1>2, <2>1 DEF ProcessShape
  <2>3. hook' \in [Roles -> {"off", "on", "received"}]
    BY <1>1, <1>2, RolePlaces DEF ProcessShape
  <2> QED BY <1>1, <1>2, <2>2, <2>3 DEF ProcessShape
<1>5. StartedInOrder'
  BY <1>1, <1>3 DEF StartedInOrder, Listens, HandlersUsable, Declaring, ProcessesInv
<1>6. ClosedInOrder'
  BY <1>1, <1>2 DEF ClosedInOrder, ProcessesInv
<1>7. (signals = 0 => NotSignalled)'
  <2> SUFFICES ASSUME signals = 0 PROVE NotSignalled'
    BY <1>1
  <2>1. NotSignalled
    BY DEF ProcessesInv
  <2>2. ASSUME NEW i \in DOMAIN roles, WasCreated(i)' PROVE hook'[roles[i]] = "on"
    <3>1. CASE i = boot.i
      BY <1>1, <1>2, <3>1, RolePlaces DEF Role, ProcessShape
    <3>2. CASE i # boot.i
      <4>1. WasCreated(i) /\ roles[i] # Role
        BY <1>1, <1>2, <1>3, <2>2, <3>2, RolePlaces DEF WasCreated, Role
      <4> QED BY <1>1, <1>2, <2>1, <4>1, RolePlaces DEF NotSignalled, ProcessShape
    <3> QED BY <3>1, <3>2
  <2> QED BY <1>1, <1>2, <2>1, <2>2 DEF NotSignalled
<1>8. (signals > 0 /\ ~early => SignalledUp)' /\ CleanExitClosesAll'
  BY <1>1 DEF ProcessesInv, SignalledUp, CleanExitClosesAll
<1> QED BY <1>4, <1>5, <1>6, <1>7, <1>8 DEF ProcessesInv

\* The environment is read, or the start fails.
LEMMA EarlyBootStep ==
  ASSUME ProcessesInv, loadEnvOrExit \/ BootFails
  PROVE  ProcessesInv'
<1>1. /\ exit = "none" /\ boot.step # "up" /\ exit' \in {"none", "1"}
      /\ UNCHANGED <<roles, providers, hook, main, consumers, client, run, signals, early>>
  BY DEF loadEnvOrExit, BootFails
<1>2. Roles' = Roles /\ ProcessShape
  BY <1>1 DEF Roles, ProcessesInv
<1>3. \/ boot' = boot
      \/ boot.step = "env" /\ boot' = [step |-> "env", i |-> boot.i + 1] /\ boot.i < Len(roles)
      \/ boot.step = "env" /\ boot' = [step |-> "create", i |-> 1]
  BY DEF loadEnvOrExit, BootFails, NextStep
<1>4. \A i \in DOMAIN roles : (Listens(i)' <=> Listens(i)) /\ (WasCreated(i)' => WasCreated(i))
  BY <1>2, <1>3, RolePlaces DEF Listens, WasCreated
<1>5. ProcessShape'
  <2>1. boot' \in [step : {"env", "create", "listen", "up"}, i : 1..Len(roles)]
    BY <1>2, <1>3, RolePlaces DEF ProcessShape
  <2> QED BY <1>1, <1>2, <2>1 DEF ProcessShape
<1>6. StartedInOrder'
  BY <1>1, <1>4 DEF StartedInOrder, HandlersUsable, Declaring, ProcessesInv
<1>7. ClosedInOrder'
  BY <1>1, <1>2 DEF ClosedInOrder, ProcessesInv
<1>8. (signals = 0 => NotSignalled)'
  BY <1>1, <1>2, <1>4 DEF ProcessesInv, NotSignalled
<1>9. (signals > 0 /\ ~early => SignalledUp)' /\ CleanExitClosesAll'
  BY <1>1 DEF ProcessesInv, SignalledUp, CleanExitClosesAll
<1> QED BY <1>5, <1>6, <1>7, <1>8, <1>9 DEF ProcessesInv

\* A role listens: it consumes what it declares.
LEMMA ListenStep ==
  ASSUME ProcessesInv, listen
  PROVE  ProcessesInv'
<1>1. /\ exit = "none" /\ boot.step = "listen" /\ consumers' = [consumers EXCEPT ![Role] = Started(Role)]
      /\ Role = "worker" => HandlersUsable
      /\ UNCHANGED <<roles, providers, hook, client, run, exit, signals, early>>
      /\ main' = "on" \/ main' = main
  BY DEF listen
<1>2. Roles' = Roles /\ ProcessShape
  BY <1>1 DEF Roles, ProcessesInv
<1>3. \/ boot' = [step |-> "create", i |-> boot.i + 1] /\ boot.i < Len(roles)
      \/ boot' = [step |-> "up", i |-> 1] /\ ~(boot.i < Len(roles))
  BY DEF listen, NextStep
<1>4. \A i \in DOMAIN roles : (Listens(i)' <=> Listens(i) \/ i = boot.i) /\ (WasCreated(i)' <=> WasCreated(i)) /\ ~(Listens(boot.i))
  BY <1>1, <1>2, <1>3, RolePlaces DEF Listens, WasCreated
<1>5. /\ DOMAIN Started(Role) \subseteq Nat /\ Started(Role) \in [DOMAIN Started(Role) -> Consumer]
      /\ Role = "worker" => /\ DOMAIN Started(Role) = Declaring
                            /\ \A j \in Declaring : Started(Role)[j].queue = providers[j].queue
  <2>1. providers \in Seq([queue : STRING, usable : BOOLEAN])
    BY <1>2, ProcessesAssumption DEF ProcessShape
  <2>2. Declaring \subseteq DOMAIN providers /\ DOMAIN providers \subseteq Nat
    BY <2>1 DEF Declaring
  <2>3. \A j \in Declaring : providers[j].queue \in STRING
    <3> DEFINE P == [queue : STRING, usable : BOOLEAN]
    <3>1. \A x \in P : x.queue \in STRING
      OBVIOUS
    <3>2. providers \in Seq(P)
      BY <2>1
    <3> HIDE DEF P
    <3>3. \A j \in DOMAIN providers : providers[j] \in P
      BY <3>2
    <3> QED BY <2>2, <3>1, <3>3
  <2>4. CASE Role = "worker"
    BY <2>2, <2>3, <2>4 DEF Started, discoverHandlers, Consumer
  <2>5. CASE Role # "worker"
    BY <2>5 DEF Started
  <2> QED BY <2>4, <2>5
<1>6. /\ DOMAIN consumers' = Roles /\ consumers'[Role] = Started(Role)
      /\ \A r \in Roles : r # Role => consumers'[r] = consumers[r]
  BY <1>1, <1>2, RolePlaces DEF ProcessShape
<1>7. ProcessShape'
  <2>1. boot' \in [step : {"env", "create", "listen", "up"}, i : 1..Len(roles)]
    BY <1>2, <1>3, RolePlaces DEF ProcessShape
  <2>2. \A r \in Roles : DOMAIN consumers'[r] \subseteq Nat /\ consumers'[r] \in [DOMAIN consumers'[r] -> Consumer]
    BY Zenon, <1>2, <1>5, <1>6 DEF ProcessShape
  <2> QED BY <1>1, <1>2, <1>6, <2>1, <2>2 DEF ProcessShape
<1>8. StartedInOrder'
  <2> SUFFICES ASSUME NEW i \in DOMAIN roles
               PROVE  /\ ~Listens(i)' => consumers'[roles[i]] = <<>>
                      /\ Listens(i)' /\ roles[i] = "worker" =>
                           /\ HandlersUsable /\ DOMAIN consumers'["worker"] = Declaring
                           /\ \A j \in Declaring : consumers'["worker"][j].queue = providers[j].queue
    BY <1>1 DEF StartedInOrder, HandlersUsable, Declaring
  <2>1. CASE i = boot.i
    BY <1>1, <1>4, <1>5, <1>6, <2>1 DEF Role
  <2>2. CASE i # boot.i
    <3>1. roles[i] # Role /\ roles[i] \in Roles
      BY <1>2, <2>2, RolePlaces DEF Role
    <3> QED BY <1>4, <1>6, <2>2, <3>1 DEF ProcessesInv, StartedInOrder
  <2> QED BY <2>1, <2>2
<1>9. ClosedInOrder'
  <2>1. consumers[Role] = <<>> /\ DOMAIN consumers[Role] = {}
    BY <1>2, <1>4, RolePlaces DEF ProcessesInv, StartedInOrder, Role
  <2>2. ASSUME NEW r \in Roles, NEW c \in Ways PROVE InOrder(run[r][c], consumers'[r], client[r])
    <3>1. InOrder(run[r][c], consumers[r], client[r])
      BY DEF ProcessesInv, ClosedInOrder
    <3>2. CASE r = Role
      BY <2>1, <3>1, <3>2 DEF InOrder
    <3>3. CASE r # Role
      BY <1>6, <3>1, <3>3
    <3> QED BY <3>2, <3>3
  <2> QED BY <1>1, <1>2, <2>2 DEF ClosedInOrder
<1>10. (signals = 0 => NotSignalled)'
  BY <1>1, <1>2, <1>4 DEF ProcessesInv, NotSignalled
<1>11. (signals > 0 /\ ~early => SignalledUp)' /\ CleanExitClosesAll'
  BY <1>1 DEF ProcessesInv, SignalledUp, CleanExitClosesAll
<1> QED BY <1>7, <1>8, <1>9, <1>10, <1>11 DEF ProcessesInv

NodeType == [at : {"no", "workers", "queues", "closed", "rejected", "done"}, found : SUBSET Nat]

\* What a signal makes of one closing.
LEMMA ToldStep ==
  ASSUME ProcessesInv, NEW h, NEW r \in Roles, NEW c \in Ways
  PROVE  /\ Told(r, c, h) \in NodeType /\ InOrder(Told(r, c, h), consumers[r], client[r])
         /\ \/ Told(r, c, h).at = run[r][c].at /\ Told(r, c, h).found = run[r][c].found
            \/ Told(r, c, h).found = DOMAIN consumers[r]
            \/ Told(r, c, h).at = "done" /\ run[r][c].at = "closed" /\ Told(r, c, h).found = run[r][c].found
         /\ (c = "hook" => h[r] # "on") /\ (c = "main" => main # "on") /\ run[r][c].at \in {"closed", "done"} =>
              Told(r, c, h).at \in {"closed", "done"}
<1> DEFINE n == run[r][c]
           d == DOMAIN consumers[r]
<1>1. n \in NodeType /\ InOrder(n, consumers[r], client[r]) /\ d \subseteq Nat
  BY DEF ProcessesInv, ProcessShape, ClosedInOrder, NodeType
<1>2. /\ Begun(r) \in NodeType /\ Begun(r).found = d /\ Begun(r).at = "workers"
      /\ InOrder(Begun(r), consumers[r], client[r])
  BY <1>1 DEF Begun, NodeType, InOrder
<1>3. n.at = "closed" => /\ [n EXCEPT !.at = "done"] \in NodeType /\ [n EXCEPT !.at = "done"].at = "done"
                         /\ [n EXCEPT !.at = "done"].found = n.found
                         /\ InOrder([n EXCEPT !.at = "done"], consumers[r], client[r])
  BY <1>1 DEF NodeType, InOrder
<1>4. \/ Told(r, c, h) = Begun(r) /\ ((c = "hook" /\ h[r] = "on") \/ (c = "main" /\ main = "on"))
      \/ Told(r, c, h) = [n EXCEPT !.at = "done"] /\ n.at = "closed"
      \/ Told(r, c, h) = n
  <2>1. CASE c = "hook" /\ h[r] = "on"
    BY <2>1 DEF Told
  <2>2. CASE c = "hook" /\ h[r] = "off" /\ n.at = "closed"
    BY <2>2 DEF Told
  <2>3. CASE c = "main" /\ main = "on"
    BY <2>3 DEF Told
  <2>4. CASE /\ ~(c = "hook" /\ h[r] = "on")
             /\ ~(c = "hook" /\ h[r] = "off" /\ n.at = "closed")
             /\ ~(c = "main" /\ main = "on")
    BY <2>4 DEF Told
  <2> QED BY <2>1, <2>2, <2>3, <2>4
<1> HIDE DEF n, d
<1> QED BY Zenon, <1>1, <1>2, <1>3, <1>4 DEF n, d

\* A role one of whose closings has ended, in a process that was up, is closed.
LEMMA EndedIsClosed ==
  ASSUME ProcessesInv, NEW r \in Roles, NEW c \in Ways, run[r][c].at \in {"closed", "done"},
         run[r][c].found = DOMAIN consumers[r]
  PROVE  client[r] = "closed" /\ \A i \in DOMAIN consumers[r] : consumers[r][i].state = "closed"
BY DEF ProcessesInv, ClosedInOrder, InOrder

\* A signal is delivered, from outside or by a hook that sends it again.
LEMMA DeliverStep ==
  ASSUME ProcessesInv, exit = "none", NEW h \in [Roles -> {"off", "on", "received"}], Delivered(h),
         UNCHANGED <<roles, providers, boot, consumers, client>>,
         signals' \in Nat, signals' > 0, early' \in BOOLEAN,
         ~early' => /\ boot.step = "up"
                    /\ \A r \in Roles :
                         /\ \A c \in Ways : run[r][c].at # "no" => run[r][c].found = DOMAIN consumers[r]
                         /\ h[r] = "off" => main # "on" /\ \E c \in Ways : run[r][c].at \in {"closed", "done"}
  PROVE  ProcessesInv'
<1>1. Roles' = Roles /\ ProcessShape
  BY Zenon DEF Roles, ProcessesInv
<1>2. StartedInOrder'
  BY DEF StartedInOrder, Listens, HandlersUsable, Declaring, ProcessesInv
<1>3. (signals = 0 => NotSignalled)'
  BY SMT
<1>4. CASE main # "on" /\ \A r \in Roles : h[r] = "off"
  <2>1. exit' = "signal" /\ hook' = h /\ UNCHANGED <<main, run>>
    BY <1>4 DEF Delivered
  <2>2. ProcessShape'
    BY <1>1, <2>1 DEF ProcessShape
  <2>3. ClosedInOrder'
    BY <1>1, <2>1 DEF ClosedInOrder, ProcessesInv
  <2>4. (signals > 0 /\ ~early => SignalledUp)'
    BY <1>1, <1>4, <2>1 DEF SignalledUp
  <2>5. CleanExitClosesAll'
    <3> SUFFICES ASSUME ~early', NEW r \in Roles
                 PROVE  client[r] = "closed" /\ \A i \in DOMAIN consumers[r] : consumers[r][i].state = "closed"
      BY SMTT(30), <1>1, <2>1 DEF CleanExitClosesAll
    <3>1. PICK c \in Ways : run[r][c].at \in {"closed", "done"}
      BY <1>4
    <3>2. run[r][c].found = DOMAIN consumers[r]
      BY <3>1
    <3> QED BY SMTT(30), <3>1, <3>2, EndedIsClosed
  <2> QED BY <1>2, <1>3, <2>2, <2>3, <2>4, <2>5 DEF ProcessesInv
<1>5. CASE ~(main # "on" /\ \A r \in Roles : h[r] = "off")
  <2>1. /\ hook' = [r \in Roles |-> IF h[r] = "on" THEN "received" ELSE h[r]]
        /\ main' = IF main = "on" THEN "closing" ELSE main
        /\ run' = [r \in Roles |-> [c \in Ways |-> Told(r, c, h)]]
        /\ exit' = exit
    BY <1>5 DEF Delivered
  <2>2. \A r \in Roles, c \in Ways : run'[r][c] = Told(r, c, h)
    BY Zenon, <2>1
  <2>3. ProcessShape'
    <3>1. run' \in [Roles -> [Ways -> NodeType]]
      BY Zenon, <2>1, ToldStep
    <3>2. hook' \in [Roles -> {"off", "on", "received"}] /\ main' \in {"off", "on", "closing"}
      BY Zenon, <1>1, <2>1 DEF ProcessShape
    <3> QED BY Zenon, <1>1, <2>1, <3>1, <3>2 DEF ProcessShape, NodeType
  <2>4. ClosedInOrder'
    BY <1>1, <2>2, ToldStep DEF ClosedInOrder
  <2>5. (signals > 0 /\ ~early => SignalledUp)'
    <3> SUFFICES ASSUME ~early' PROVE SignalledUp'
      OBVIOUS
    <3>1. boot'.step = "up" /\ main' # "on"
      BY <2>1
    <3>2. ASSUME NEW r \in Roles, NEW c \in Ways, run'[r][c].at # "no" PROVE run'[r][c].found = DOMAIN consumers[r]
      <4>1. run'[r][c] = Told(r, c, h)
        BY ZenonT(30), <2>2
      <4>2. \/ Told(r, c, h).at = run[r][c].at /\ Told(r, c, h).found = run[r][c].found
            \/ Told(r, c, h).found = DOMAIN consumers[r]
            \/ run[r][c].at = "closed" /\ Told(r, c, h).found = run[r][c].found
        BY ToldStep
      <4> QED BY <3>2, <4>1, <4>2
    <3>3. ASSUME NEW r \in Roles, hook'[r] = "off" PROVE \E c \in Ways : run'[r][c].at \in {"closed", "done"}
      <4>1. h[r] = "off"
        BY <2>1, <3>3
      <4>2. main # "on" /\ \E c \in Ways : run[r][c].at \in {"closed", "done"}
        BY <4>1
      <4>3. PICK c \in Ways : run[r][c].at \in {"closed", "done"}
        BY Zenon, <4>2
      <4>4. Told(r, c, h).at \in {"closed", "done"}
        BY Zenon, <4>1, <4>2, <4>3, ToldStep
      <4> QED BY <2>2, <4>4
    <3> QED BY <1>1, <3>1, <3>2, <3>3 DEF SignalledUp
  <2>6. CleanExitClosesAll'
    BY Zenon, <2>1 DEF CleanExitClosesAll
  <2> QED BY <1>2, <1>3, <2>3, <2>4, <2>5, <2>6 DEF ProcessesInv
<1> QED BY <1>4, <1>5

\* The process gets a signal.
LEMMA SignalStep ==
  ASSUME ProcessesInv, Signal
  PROVE  ProcessesInv'
<1>1. /\ exit = "none" /\ signals' = signals + 1 /\ Delivered(hook)
      /\ early' = (early \/ boot.step # "up")
      /\ UNCHANGED <<roles, providers, boot, consumers, client>>
  BY DEF Signal
<1>2. /\ hook \in [Roles -> {"off", "on", "received"}] /\ signals \in Nat /\ signals' \in Nat /\ signals' > 0
      /\ early' \in BOOLEAN
  BY <1>1 DEF ProcessesInv, ProcessShape
<1>3. ASSUME ~early'
      PROVE  /\ boot.step = "up"
             /\ \A r \in Roles :
                  /\ \A c \in Ways : run[r][c].at # "no" => run[r][c].found = DOMAIN consumers[r]
                  /\ hook[r] = "off" => main # "on" /\ \E c \in Ways : run[r][c].at \in {"closed", "done"}
  <2>1. ~early /\ boot.step = "up"
    BY Zenon, <1>1, <1>3
  <2>2. CASE signals = 0
    <3>1. NotSignalled
      BY <2>2 DEF ProcessesInv
    <3>2. \A r \in Roles : hook[r] = "on"
      BY <2>1, <3>1, RolePlaces DEF NotSignalled, WasCreated, ProcessesInv
    <3> QED BY <2>1, <3>1, <3>2 DEF NotSignalled
  <2>3. CASE signals # 0
    <3>1. SignalledUp
      BY <1>2, <2>1, <2>3 DEF ProcessesInv
    <3> QED BY <2>1, <3>1 DEF SignalledUp
  <2> QED BY <2>2, <2>3
<1> QED BY <1>1, <1>2, <1>3, DeliverStep

\* A hook ends: with a failure, or by sending the signal again.
LEMMA HookEndsStep ==
  ASSUME ProcessesInv, NEW r \in Roles, HookEnds(r)
  PROVE  ProcessesInv'
<1>1. /\ exit = "none" /\ UNCHANGED <<roles, providers, boot, consumers, client, signals, early>>
      /\ run[r]["hook"].at \in {"closed", "rejected"} /\ "hook" \in Ways
  BY DEF HookEnds, Ways
<1>2. Roles' = Roles /\ ProcessShape
  BY <1>1 DEF Roles, ProcessesInv
<1>3. signals > 0 /\ signals \in Nat
  BY <1>1, <1>2 DEF ProcessesInv, NotSignalled, ProcessShape
<1>4. CASE exit' = "1" /\ UNCHANGED <<hook, main, run>>
  <2>1. ProcessShape'
    BY Zenon, <1>1, <1>2, <1>4 DEF ProcessShape
  <2>2. StartedInOrder'
    BY <1>1 DEF StartedInOrder, Listens, HandlersUsable, Declaring, ProcessesInv
  <2>3. ClosedInOrder' /\ (signals > 0 /\ ~early => SignalledUp)'
    BY Zenon, <1>1, <1>2, <1>4 DEF ClosedInOrder, SignalledUp, ProcessesInv
  <2> QED BY <1>1, <1>3, <1>4, <2>1, <2>2, <2>3 DEF ProcessesInv, CleanExitClosesAll
<1>5. CASE run[r]["hook"].at = "closed" /\ Delivered([hook EXCEPT ![r] = "off"])
  <2> DEFINE h == [hook EXCEPT ![r] = "off"]
  <2>1. h \in [Roles -> {"off", "on", "received"}] /\ h[r] = "off" /\ \A x \in Roles : x # r => h[x] = hook[x]
    BY <1>2 DEF ProcessShape
  <2>2. Delivered(h)
    BY Zenon, <1>5
  <2> HIDE DEF h
  <2>3. ASSUME ~early'
        PROVE  /\ boot.step = "up"
               /\ \A x \in Roles :
                    /\ \A c \in Ways : run[x][c].at # "no" => run[x][c].found = DOMAIN consumers[x]
                    /\ h[x] = "off" => main # "on" /\ \E c \in Ways : run[x][c].at \in {"closed", "done"}
    <3>1. SignalledUp
      BY <1>1, <1>3, <2>3 DEF ProcessesInv
    <3> QED BY Zenon, <1>1, <1>5, <2>1, <3>1 DEF SignalledUp
  <2>4. signals' \in Nat /\ signals' > 0 /\ early' \in BOOLEAN
    BY <1>1, <1>2, <1>3 DEF ProcessShape
  <2> QED BY <1>1, <2>1, <2>2, <2>3, <2>4, DeliverStep
<1> QED BY <1>4, <1>5 DEF HookEnds

\* A worker is closed, or rejects.
LEMMA CloseWorkerStep ==
  ASSUME ProcessesInv, NEW r \in Roles, NEW i \in DOMAIN consumers[r], closeWorker(r, i)
  PROVE  ProcessesInv'
<1>1. /\ exit = "none" /\ consumers[r][i].state = "open"
      /\ UNCHANGED <<roles, providers, boot, hook, main, client, run, exit, signals, early>>
  BY DEF closeWorker
<1>2. PICK o \in Outcomes : consumers' = [consumers EXCEPT ![r][i].state = o]
  BY Zenon DEF closeWorker
<1>3. Roles' = Roles /\ ProcessShape
  BY <1>1 DEF Roles, ProcessesInv
<1>4. /\ DOMAIN consumers' = Roles /\ \A x \in Roles : x # r => consumers'[x] = consumers[x]
      /\ consumers'[r] = [consumers[r] EXCEPT ![i].state = o]
  BY <1>2, <1>3 DEF ProcessShape
<1>5. consumers[r] \in [DOMAIN consumers[r] -> Consumer] /\ DOMAIN consumers[r] \subseteq Nat
  BY <1>3 DEF ProcessShape
<1>6. /\ DOMAIN consumers'[r] = DOMAIN consumers[r]
      /\ \A j \in DOMAIN consumers[r] : j # i => consumers'[r][j] = consumers[r][j]
      /\ consumers'[r][i].queue = consumers[r][i].queue
      /\ consumers'[r] \in [DOMAIN consumers[r] -> Consumer]
  BY <1>4, <1>5 DEF Consumer
<1>7. ProcessShape'
  <2>1. \A x \in Roles : DOMAIN consumers'[x] \subseteq Nat /\ consumers'[x] \in [DOMAIN consumers'[x] -> Consumer]
    BY Zenon, <1>3, <1>4, <1>5, <1>6 DEF ProcessShape
  <2> QED BY <1>1, <1>3, <1>4, <2>1 DEF ProcessShape
<1>8. StartedInOrder'
  <2> SUFFICES ASSUME NEW k \in DOMAIN roles
               PROVE  /\ ~Listens(k) => consumers'[roles[k]] = <<>>
                      /\ Listens(k) /\ roles[k] = "worker" =>
                           /\ HandlersUsable /\ DOMAIN consumers'["worker"] = Declaring
                           /\ \A j \in Declaring : consumers'["worker"][j].queue = providers[j].queue
    BY <1>1 DEF StartedInOrder, HandlersUsable, Declaring, Listens
  <2>1. /\ ~Listens(k) => consumers[roles[k]] = <<>>
        /\ Listens(k) /\ roles[k] = "worker" =>
             /\ HandlersUsable /\ DOMAIN consumers["worker"] = Declaring
             /\ \A j \in Declaring : consumers["worker"][j].queue = providers[j].queue
    BY ZenonT(30) DEF ProcessesInv, StartedInOrder
  <2>2. CASE roles[k] = r
    <3>1. consumers[r] # <<>>
      OBVIOUS
    <3> QED BY <1>6, <2>1, <2>2, <3>1
  <2>3. CASE roles[k] # r
    <3>1. consumers'[roles[k]] = consumers[roles[k]]
      BY Zenon, <1>3, <1>4, <2>3, RolePlaces
    <3> QED BY Zenon, <2>1, <3>1
  <2> QED BY ZenonT(30), <2>2, <2>3
<1>9. ClosedInOrder'
  <2>1. ASSUME NEW x \in Roles, NEW c \in Ways PROVE InOrder(run[x][c], consumers'[x], client[x])
    <3>1. InOrder(run[x][c], consumers[x], client[x])
      BY SMTT(30) DEF ProcessesInv, ClosedInOrder
    <3>2. CASE x = r
      BY <1>1, <1>6, <3>1, <3>2 DEF InOrder
    <3>3. CASE x # r
      BY <1>4, <3>1, <3>3
    <3> QED BY <3>2, <3>3
  <2> QED BY ZenonT(30), <1>1, <1>3, <2>1 DEF ClosedInOrder
<1>10. (signals = 0 => NotSignalled)'
  BY <1>1, <1>3 DEF ProcessesInv, NotSignalled, WasCreated
<1>11. (signals > 0 /\ ~early => SignalledUp)'
  BY <1>1, <1>3, <1>4, <1>6 DEF ProcessesInv, SignalledUp
<1>12. CleanExitClosesAll'
  BY <1>1 DEF CleanExitClosesAll
<1> QED BY <1>7, <1>8, <1>9, <1>10, <1>11, <1>12 DEF ProcessesInv

\* The queue connections of a role are closed, or reject.
LEMMA CloseQueueStep ==
  ASSUME ProcessesInv, NEW r \in Roles, closeQueue(r)
  PROVE  ProcessesInv'
<1>1. /\ exit = "none" /\ client[r] = "open"
      /\ UNCHANGED <<roles, providers, boot, hook, main, consumers, run, exit, signals, early>>
  BY DEF closeQueue
<1>2. PICK o \in Outcomes : client' = [client EXCEPT ![r] = o]
  BY Zenon DEF closeQueue
<1>3. Roles' = Roles /\ ProcessShape
  BY <1>1 DEF Roles, ProcessesInv
<1>4. ProcessShape'
  BY Zenon, <1>1, <1>2, <1>3 DEF ProcessShape
<1>5. StartedInOrder'
  BY <1>1 DEF StartedInOrder, Listens, HandlersUsable, Declaring, ProcessesInv
<1>6. ClosedInOrder'
  <2>1. ASSUME NEW x \in Roles, NEW c \in Ways PROVE InOrder(run[x][c], consumers[x], client'[x])
    <3>1. InOrder(run[x][c], consumers[x], client[x])
      BY DEF ProcessesInv, ClosedInOrder
    <3> QED BY <1>1, <1>2, <1>3, <3>1 DEF InOrder, ProcessShape
  <2> QED BY Zenon, <1>1, <1>3, <2>1 DEF ClosedInOrder
<1>7. (signals = 0 => NotSignalled)'
  BY <1>1, <1>3 DEF ProcessesInv, NotSignalled, WasCreated
<1>8. (signals > 0 /\ ~early => SignalledUp)'
  BY <1>1, <1>3 DEF ProcessesInv, SignalledUp
<1>9. CleanExitClosesAll'
  BY <1>1 DEF CleanExitClosesAll
<1> QED BY <1>4, <1>5, <1>6, <1>7, <1>8, <1>9 DEF ProcessesInv

\* Where a closing goes next, and what it has waited for.
LEMMA DestroyTo ==
  ASSUME ProcessesInv, NEW r \in Roles, NEW c \in Ways, run[r][c].at \in {"workers", "queues"}
  PROVE  /\ DestroyStep(r, c) \in {"workers", "queues", "closed", "rejected"}
         /\ DestroyStep(r, c) \in {"queues", "closed"} => \A i \in run[r][c].found : consumers[r][i].state = "closed"
         /\ DestroyStep(r, c) = "closed" => client[r] = "closed"
<1>1. InOrder(run[r][c], consumers[r], client[r])
  BY DEF ProcessesInv, ClosedInOrder
<1>2. Awaited(r, c) \subseteq {"closed"} => \A i \in run[r][c].found : consumers[r][i].state = "closed"
  BY DEF Awaited
<1>3. CASE run[r][c].at = "workers"
  <2>1. CASE "rejected" \in Awaited(r, c)
    BY <1>3, <2>1 DEF DestroyStep
  <2>2. CASE "rejected" \notin Awaited(r, c) /\ Awaited(r, c) \subseteq {"closed"}
    BY <1>2, <1>3, <2>2 DEF DestroyStep
  <2>3. CASE "rejected" \notin Awaited(r, c) /\ ~(Awaited(r, c) \subseteq {"closed"})
    BY <1>3, <2>3 DEF DestroyStep
  <2> QED BY <2>1, <2>2, <2>3
<1>4. CASE run[r][c].at = "queues"
  <2>1. CASE client[r] = "rejected"
    BY <1>4, <2>1 DEF DestroyStep
  <2>2. CASE client[r] = "closed"
    BY <1>1, <1>4, <2>2 DEF DestroyStep, InOrder
  <2>3. CASE client[r] \notin {"closed", "rejected"}
    BY <1>1, <1>4, <2>3 DEF DestroyStep, InOrder
  <2> QED BY <2>1, <2>2, <2>3
<1> QED BY <1>3, <1>4

\* A closing goes on, and main's, when it ends, takes the hook off.
LEMMA OnModuleDestroyStep ==
  ASSUME ProcessesInv, NEW r \in Roles, NEW c \in Ways, onModuleDestroy(r, c)
  PROVE  ProcessesInv'
<1>1. /\ exit = "none" /\ run[r][c].at \in {"workers", "queues"}
      /\ run' = [run EXCEPT ![r][c].at = DestroyStep(r, c)]
      /\ hook' = IF c = "main" /\ run'[r][c].at = "closed" THEN [hook EXCEPT ![r] = "off"] ELSE hook
      /\ UNCHANGED <<roles, providers, boot, main, consumers, client, exit, signals, early>>
  BY DEF onModuleDestroy
<1>2. Roles' = Roles /\ ProcessShape
  BY <1>1 DEF Roles, ProcessesInv
<1>3. run \in [Roles -> [Ways -> NodeType]]
  BY <1>2 DEF ProcessShape, NodeType
<1>4. DestroyStep(r, c) \in {"workers", "queues", "closed", "rejected"}
  BY <1>1, DestroyTo
<1>5. /\ run' \in [Roles -> [Ways -> NodeType]]
      /\ run'[r][c].at = DestroyStep(r, c) /\ run'[r][c].found = run[r][c].found
      /\ \A x \in Roles, d \in Ways : x # r \/ d # c => run'[x][d] = run[x][d]
  BY ZenonT(30), <1>1, <1>3, <1>4 DEF NodeType
<1>6. ProcessShape'
  <2>1. hook' \in [Roles -> {"off", "on", "received"}]
    BY <1>1, <1>2 DEF ProcessShape
  <2> QED BY Zenon, <1>1, <1>2, <1>5, <2>1 DEF ProcessShape, NodeType
<1>7. StartedInOrder'
  BY <1>1 DEF StartedInOrder, Listens, HandlersUsable, Declaring, ProcessesInv
<1>8. ClosedInOrder'
  <2>1. ASSUME NEW x \in Roles, NEW d \in Ways PROVE InOrder(run'[x][d], consumers[x], client[x])
    <3>1. InOrder(run[x][d], consumers[x], client[x])
      BY DEF ProcessesInv, ClosedInOrder
    <3>2. CASE x = r /\ d = c
      BY <1>1, <1>4, <1>5, <3>1, <3>2, DestroyTo DEF InOrder
    <3>3. CASE x # r \/ d # c
      BY <1>5, <3>1, <3>3
    <3> QED BY <3>2, <3>3
  <2> QED BY <1>1, <1>2, <2>1 DEF ClosedInOrder
<1>9. signals # 0
  BY <1>1 DEF ProcessesInv, NotSignalled
<1>10. (signals > 0 /\ ~early => SignalledUp)'
  <2> SUFFICES ASSUME signals > 0, ~early PROVE SignalledUp'
    BY <1>1
  <2>1. SignalledUp
    BY DEF ProcessesInv
  <2>2. ASSUME NEW x \in Roles, NEW d \in Ways, run'[x][d].at # "no" PROVE run'[x][d].found = DOMAIN consumers[x]
    BY <1>1, <1>5, <2>1, <2>2 DEF SignalledUp
  <2>3. ASSUME NEW x \in Roles, hook'[x] = "off" PROVE \E d \in Ways : run'[x][d].at \in {"closed", "done"}
    <3>1. CASE hook[x] = "off"
      <4>1. PICK d \in Ways : run[x][d].at \in {"closed", "done"}
        BY <2>1, <3>1 DEF SignalledUp
      <4>2. x # r \/ d # c
        BY <1>1, <4>1
      <4> QED BY <1>5, <4>1, <4>2
    <3>2. CASE hook[x] # "off"
      <4>1. x = r /\ run'[r][c].at = "closed"
        BY <1>1, <1>2, <2>3, <3>2 DEF ProcessShape
      <4> QED BY <4>1
    <3> QED BY <3>1, <3>2
  <2> QED BY <1>1, <1>2, <2>1, <2>2, <2>3 DEF SignalledUp
<1>11. CleanExitClosesAll'
  BY <1>1 DEF CleanExitClosesAll
<1> QED BY <1>1, <1>6, <1>7, <1>8, <1>9, <1>10, <1>11 DEF ProcessesInv

\* main.all has waited for all its applications.
LEMMA ShutdownStep ==
  ASSUME ProcessesInv, ShutdownEnds
  PROVE  ProcessesInv'
<1>1. /\ exit = "none" /\ main = "closing" /\ exit' \in {"0", "1"}
      /\ exit' = "0" => \A r \in Roles : run[r]["main"].at = "closed"
      /\ UNCHANGED <<roles, providers, boot, hook, main, consumers, client, run, signals, early>>
  BY DEF ShutdownEnds, AllSettledBy
<1>2. Roles' = Roles /\ ProcessShape
  BY <1>1 DEF Roles, ProcessesInv
<1>3. signals # 0 /\ signals \in Nat
  BY Zenon, <1>1, <1>2 DEF ProcessesInv, NotSignalled, ProcessShape
<1>4. ProcessShape'
  BY Zenon, <1>1, <1>2 DEF ProcessShape
<1>5. StartedInOrder'
  BY Zenon, <1>1 DEF StartedInOrder, Listens, HandlersUsable, Declaring, ProcessesInv
<1>6. ClosedInOrder' /\ (signals > 0 /\ ~early => SignalledUp)'
  BY <1>1, <1>2 DEF ClosedInOrder, SignalledUp, ProcessesInv
<1>7. CleanExitClosesAll'
  <2> SUFFICES ASSUME exit' = "0", ~early, NEW r \in Roles
               PROVE  client[r] = "closed" /\ \A i \in DOMAIN consumers[r] : consumers[r][i].state = "closed"
    BY <1>1, <1>2 DEF CleanExitClosesAll
  <2>1. SignalledUp
    BY <1>3 DEF ProcessesInv
  <2>2. "main" \in Ways /\ run[r]["main"].at = "closed" /\ run[r]["main"].found = DOMAIN consumers[r]
    BY <1>1, <2>1 DEF SignalledUp, Ways
  <2> QED BY <2>2, EndedIsClosed
<1> QED BY <1>1, <1>3, <1>4, <1>5, <1>6, <1>7 DEF ProcessesInv

\* The invariant of a process, from its start to its exit.
THEOREM ProcessesInvariant == ProcessesSpec => []ProcessesInv
<1>1. ASSUME ProcessesInit PROVE ProcessesInv
  <2>1. /\ roles \in Hosted /\ providers \in ProviderLists /\ boot = [step |-> "env", i |-> 1]
        /\ hook = [r \in Roles |-> "off"] /\ main = "off" /\ consumers = [r \in Roles |-> <<>>]
        /\ client = [r \in Roles |-> "open"] /\ exit = "none" /\ signals = 0 /\ early = FALSE
        /\ run = [r \in Roles |-> [c \in Ways |-> NotBegun]]
    BY <1>1 DEF ProcessesInit
  <2>2. roles \in Seq({"api", "worker", "scheduler"}) /\ roles # <<>>
    BY <2>1, ProcessesAssumption
  <2>3. 1 \in 1..Len(roles) /\ \A i \in DOMAIN roles : roles[i] \in Roles
    BY <2>2 DEF Roles
  <2>4. NotBegun \in NodeType /\ NotBegun.at = "no" /\ NotBegun.found = {}
    BY DEF NotBegun, NodeType
  <2>5. run \in [Roles -> [Ways -> NodeType]] /\ \A r \in Roles, c \in Ways : run[r][c] = NotBegun
    BY <2>1, <2>4
  <2>6. \A r \in Roles : DOMAIN consumers[r] \subseteq Nat /\ consumers[r] \in [DOMAIN consumers[r] -> Consumer]
    BY <2>1
  <2>7. ProcessShape
    BY Zenon, <2>1, <2>3, <2>5, <2>6 DEF ProcessShape, NodeType
  <2>8. \A i \in DOMAIN roles : ~Listens(i) /\ ~WasCreated(i)
    BY <2>1 DEF Listens, WasCreated
  <2>9. StartedInOrder
    BY Zenon, <2>1, <2>3, <2>8 DEF StartedInOrder
  <2>10. ClosedInOrder /\ NotSignalled
    BY <2>1, <2>4, <2>5, <2>8 DEF ClosedInOrder, InOrder, NotSignalled
  <2> QED BY <2>1, <2>7, <2>9, <2>10 DEF ProcessesInv, CleanExitClosesAll
<1>2. ASSUME ProcessesInv, [ProcessesNext]_processesVars PROVE ProcessesInv'
  <2>1. CASE UNCHANGED processesVars
    <3>1. UNCHANGED <<roles, providers, boot, hook, main, consumers, client, run, exit, signals, early>>
      BY SMTT(30), <2>1 DEF processesVars
    <3>2. Roles' = Roles /\ (ProcessShape' <=> ProcessShape) /\ (CleanExitClosesAll' <=> CleanExitClosesAll)
      <4>1. Roles' = Roles
        BY ZenonT(30), <3>1 DEF Roles
      <4>2. ProcessShape' <=> ProcessShape
        BY <3>1, <4>1 DEF ProcessShape
      <4>3. CleanExitClosesAll' <=> CleanExitClosesAll
        BY Zenon, <3>1, <4>1 DEF CleanExitClosesAll
      <4> QED BY Zenon, <4>1, <4>2, <4>3
    <3>3. (StartedInOrder' <=> StartedInOrder) /\ (ClosedInOrder' <=> ClosedInOrder)
      BY <3>1, <3>2 DEF StartedInOrder, Listens, HandlersUsable, Declaring, ClosedInOrder
    <3>4. (NotSignalled' <=> NotSignalled) /\ (SignalledUp' <=> SignalledUp)
      BY <3>1, <3>2 DEF NotSignalled, SignalledUp, WasCreated
    <3> QED BY <1>2, <3>1, <3>2, <3>3, <3>4 DEF ProcessesInv
  <2>2. CASE ProcessesNext
    <3>1. CASE Booting \/ BootFails \/ Signal \/ ShutdownEnds
      BY <1>2, <3>1, EarlyBootStep, CreateStep, ListenStep, SignalStep, ShutdownStep DEF Booting
    <3>2. ASSUME NEW r \in Roles, Closing(r) PROVE ProcessesInv'
      BY <1>2, <3>2, CloseQueueStep, HookEndsStep, CloseWorkerStep, OnModuleDestroyStep DEF Closing
    <3> QED BY <2>2, <3>1, <3>2 DEF ProcessesNext
  <2> QED BY <1>2, <2>1, <2>2
<1> QED BY <1>1, <1>2, PTL DEF ProcessesSpec

\* For every list of roles a process may host, every container and any number of
\* signals: a process that was up when it was told to stop and does not exit with
\* a failure has closed every worker and every connection (installShutdown, Nest's
\* own hooks, BullMqService.onModuleDestroy).
THEOREM CleanExits == ProcessesSpec => [](ProcessesTypeOK /\ CleanExitClosesAll)
<1>1. ASSUME ProcessesInv PROVE ProcessesTypeOK
  BY <1>1 DEF ProcessesInv, ProcessShape, ProcessesTypeOK
<1>2. ProcessesInv => CleanExitClosesAll
  BY DEF ProcessesInv
<1> QED BY <1>1, <1>2, ProcessesInvariant, PTL

\* A worker process that came up has one consumer for every queue it declares a
\* handler for, whatever else its container holds (QueueRegistrar.discoverHandlers).
THEOREM ConsumersAreSingle == ProcessesSpec => []OneConsumerPerQueue
<1>1. ASSUME ProcessesInv PROVE OneConsumerPerQueue
  <2> SUFFICES ASSUME boot.step = "up", "worker" \in Roles
               PROVE  /\ {providers[i].queue : i \in Declaring}
                           = {consumers["worker"][i].queue : i \in DOMAIN consumers["worker"]}
                      /\ \A i, j \in DOMAIN consumers["worker"] :
                           consumers["worker"][i].queue = consumers["worker"][j].queue => i = j
    BY Zenon DEF OneConsumerPerQueue
  <2>1. PICK k \in DOMAIN roles : roles[k] = "worker"
    BY DEF Roles
  <2>2. /\ HandlersUsable /\ DOMAIN consumers["worker"] = Declaring
        /\ \A j \in Declaring : consumers["worker"][j].queue = providers[j].queue
    BY <1>1, <2>1 DEF ProcessesInv, StartedInOrder, Listens
  <2> QED BY <2>2 DEF HandlersUsable
<1> QED BY <1>1, ProcessesInvariant, PTL

\* A role's connections are closed only after the workers its shutdown found.
THEOREM ConnectionsLast == ProcessesSpec => ClientsOutliveWorkers
<1>1. ASSUME ProcessesInv, [ProcessesNext]_processesVars PROVE [WorkersFirst]_processesVars
  <2>1. CASE UNCHANGED client
    BY <2>1 DEF WorkersFirst
  <2>2. ASSUME NEW x \in Roles, closeQueue(x) PROVE WorkersFirst
    <3>1. PICK o \in Outcomes : client' = [client EXCEPT ![x] = o]
      BY Zenon, <2>2 DEF closeQueue
    <3>2. \A r \in Roles : r # x => client'[r] = client[r]
      BY <1>1, <3>1 DEF ProcessesInv, ProcessShape
    <3>3. PICK c \in Ways : run[x][c].at = "queues"
      BY <2>2 DEF closeQueue
    <3>4. InOrder(run[x][c], consumers[x], client[x])
      BY <1>1 DEF ProcessesInv, ClosedInOrder
    <3>5. run[x][c].at # "no" /\ Awaited(x, c) \subseteq {"closed"}
      BY <3>3, <3>4 DEF InOrder, Awaited
    <3> QED BY <3>2, <3>5 DEF WorkersFirst
  <2>3. CASE UNCHANGED processesVars
    BY <2>3
  <2> QED BY Zenon, <1>1, <2>1, <2>2, <2>3
          DEF ProcessesNext, Booting, loadEnvOrExit, createApp, listen, BootFails, Signal, ShutdownEnds,
              Closing, HookEnds, closeWorker, onModuleDestroy
<1> QED BY <1>1, ProcessesInvariant, PTL DEF ProcessesSpec, ClientsOutliveWorkers

-----------------------------------------------------------------------------
(* The platform.                                                           *)

\* Whatever processes start together, a queue has one schedule and each worker
\* that came up consumes it once.
THEOREM QueuesServedOnce == PlatformSpec => []QueuesAreServedOnce
<1>1. SchedulesTypeOK /\ OneSchedulePerQueue /\ OneConsumerPerQueue => QueuesAreServedOnce
  BY DEF QueuesAreServedOnce
<1> QED BY <1>1, SchedulesAreSingle, ConsumersAreSingle, PTL DEF PlatformSpec

-----------------------------------------------------------------------------
(* The queues.                                                             *)

\* The powers that the back-off reaches.
LEMMA Powers ==
  /\ 2^0 = 1 /\ 2^1 = 2 /\ 2^2 = 4 /\ 2^3 = 8 /\ 2^4 = 16 /\ 2^5 = 32 /\ 2^6 = 64 /\ 2^7 = 128
  /\ 2^8 = 256
OBVIOUS

\* They double.
LEMMA Doubling == \A n \in 0..7 : 2^n \in Nat /\ 2^(n + 1) = 2 * 2^n
<1> DEFINE P(n) == 2^n
<1>1. /\ P(0) = 1 /\ P(1) = 2 /\ P(2) = 4 /\ P(3) = 8 /\ P(4) = 16 /\ P(5) = 32 /\ P(6) = 64
      /\ P(7) = 128 /\ P(8) = 256
  BY SMT, Powers
<1> HIDE DEF P
<1>2. \A n \in 0..7 : P(n) \in Nat /\ P(n + 1) = 2 * P(n)
  BY SMT, <1>1
<1> QED BY Zenon, <1>2 DEF P

\* The settings of the queues.
LEMMA Settings ==
  \A q \in QUEUES :
    /\ QueueDefinition(q).retryLimit \in 1..8 /\ QueueDefinition(q).retryDelay \in {2, 5}
    /\ QueueDefinition(q).retryDelayMax \in Nat
    /\ QueueDefinition(q).failedKept \in Nat /\ QueueDefinition(q).completedKept \in Nat
BY SMT DEF QueueDefinition, defaults, ONE_DAY, ONE_HOUR

\* Those of the mails.
LEMMA MailSettings ==
  \A q \in Mail :
    /\ q \in QUEUES /\ QueueDefinition(q).retryDelay = 5
    /\ \/ /\ q = "mailer.send-auth-email" /\ QueueDefinition(q).retryLimit = 5
          /\ QueueDefinition(q).completedKept = 0 /\ QueueDefinition(q).failedKept = 900
       \/ /\ q = "organizations.send-invitation" /\ QueueDefinition(q).retryLimit = 8
          /\ QueueDefinition(q).completedKept = 0 /\ QueueDefinition(q).failedKept = 3600
       \/ /\ q = "mailer.send-welcome" /\ QueueDefinition(q).retryLimit = 8
          /\ QueueDefinition(q).completedKept # 0
<1>1. /\ DOMAIN defaults = {"retryLimit", "retryDelay", "retryDelayMax", "failedKept", "completedKept"}
      /\ defaults.retryLimit = 5 /\ defaults.retryDelay = 5 /\ defaults.completedKept # 0
  BY SMT DEF defaults, ONE_DAY, ONE_HOUR
<1>2. /\ QueueDefinition("mailer.send-auth-email").retryDelay = 5
      /\ QueueDefinition("mailer.send-auth-email").retryLimit = 5
      /\ QueueDefinition("mailer.send-auth-email").completedKept = 0
      /\ QueueDefinition("mailer.send-auth-email").failedKept = 900
  <2> DEFINE q == QueueDefinition("mailer.send-auth-email")
  <2>1. q = [defaults EXCEPT !.retryDelayMax = 900, !.completedKept = 0, !.failedKept = 900]
    BY SMT DEF QueueDefinition, Scheduled
  <2> HIDE DEF q
  <2>2. q.retryDelay = 5 /\ q.retryLimit = 5 /\ q.completedKept = 0 /\ q.failedKept = 900
    BY SMT, <1>1, <2>1
  <2> QED BY SMT, <2>2 DEF q
<1>3. /\ QueueDefinition("organizations.send-invitation").retryDelay = 5
      /\ QueueDefinition("organizations.send-invitation").retryLimit = 8
      /\ QueueDefinition("organizations.send-invitation").completedKept = 0
      /\ QueueDefinition("organizations.send-invitation").failedKept = 3600
  <2> DEFINE q == QueueDefinition("organizations.send-invitation")
  <2>1. q = [defaults EXCEPT !.retryLimit = 8, !.completedKept = 0, !.failedKept = ONE_HOUR]
    BY SMT DEF QueueDefinition, Scheduled
  <2> HIDE DEF q
  <2>2. q.retryDelay = 5 /\ q.retryLimit = 8 /\ q.completedKept = 0 /\ q.failedKept = 3600
    BY SMT, <1>1, <2>1 DEF ONE_HOUR
  <2> QED BY SMT, <2>2 DEF q
<1>4. /\ QueueDefinition("mailer.send-welcome").retryDelay = 5
      /\ QueueDefinition("mailer.send-welcome").retryLimit = 8
      /\ QueueDefinition("mailer.send-welcome").completedKept # 0
  <2> DEFINE q == QueueDefinition("mailer.send-welcome")
  <2>1. q = [defaults EXCEPT !.retryLimit = 8, !.retryDelayMax = 6 * ONE_HOUR]
    BY SMT DEF QueueDefinition, Scheduled
  <2> HIDE DEF q
  <2>2. q.retryDelay = 5 /\ q.retryLimit = 8 /\ q.completedKept # 0
    BY SMT, <1>1, <2>1
  <2> QED BY SMT, <2>2 DEF q
<1> QED BY SMT, <1>2, <1>3, <1>4 DEF Mail, QUEUES

\* When an attempt of a mail can start, by how many have failed before it.
LEMMA LatestTimes ==
  /\ Latest(0) = 0 /\ Latest(1) = AttemptSeconds + 5 /\ Latest(2) = 2 * AttemptSeconds + 15
  /\ Latest(3) = 3 * AttemptSeconds + 35 /\ Latest(4) = 4 * AttemptSeconds + 75
  /\ Latest(5) = 5 * AttemptSeconds + 155 /\ Latest(6) = 6 * AttemptSeconds + 315
  /\ Latest(7) = 7 * AttemptSeconds + 635 /\ Latest(8) = 8 * AttemptSeconds + 1275
<1> DEFINE P(n) == 2^n
<1>1. defaults.retryDelay = 5
  BY SMT DEF defaults
<1>2. /\ P(0) = 1 /\ P(1) = 2 /\ P(2) = 4 /\ P(3) = 8 /\ P(4) = 16 /\ P(5) = 32 /\ P(6) = 64
      /\ P(7) = 128 /\ P(8) = 256
  BY SMT, Powers
<1>3. \A n : Latest(n) = n * AttemptSeconds + 5 * (P(n) - 1)
  BY SMT, <1>1 DEF Latest
<1> HIDE DEF P
<1> QED BY SMT, <1>2, <1>3, QueuesAssumption

\* One failure more adds an attempt and a back-off.
LEMMA LatestGrows ==
  /\ \A n \in 0..7 : Latest(n + 1) = Latest(n) + AttemptSeconds + 5 * 2^n
  /\ \A n \in 0..8 : Latest(n) \in Nat /\ Latest(n) <= Latest(8)
  /\ \A n \in 0..5 : Latest(n) <= Latest(5)
<1> DEFINE P(n) == 2^n
<1>1. /\ P(0) = 1 /\ P(1) = 2 /\ P(2) = 4 /\ P(3) = 8 /\ P(4) = 16 /\ P(5) = 32 /\ P(6) = 64
      /\ P(7) = 128
  BY SMT, Powers
<1> HIDE DEF P
<1>2. \A n \in 0..7 : Latest(n + 1) = Latest(n) + AttemptSeconds + 5 * P(n)
  BY SMT, <1>1, LatestTimes, QueuesAssumption
<1>3. /\ \A n \in 0..8 : Latest(n) \in Nat /\ Latest(n) <= Latest(8)
      /\ \A n \in 0..5 : Latest(n) <= Latest(5)
  BY SMT, LatestTimes, QueuesAssumption
<1> QED BY Zenon, <1>2, <1>3 DEF P

\* The back-off is a number of seconds, and a mail's no more than twice the last.
LEMMA BackOff ==
  ASSUME NEW q \in QUEUES, NEW n \in 0..7
  PROVE  /\ backoffStrategy(q, n + 1) \in Nat
         /\ q \in Mail => backoffStrategy(q, n + 1) <= 5 * 2^n
<1> DEFINE P(i) == 2^i
           D == QueueDefinition(q)
           d == D.retryDelay * P((n + 1) - 1)
           m == D.retryDelayMax
<1>1. D.retryDelay \in {2, 5} /\ m \in Nat /\ (q \in Mail => D.retryDelay = 5)
  BY SMT, Settings, MailSettings
<1>2. P(n) \in Nat
  BY Zenon, Doubling
<1>3. backoffStrategy(q, n + 1) = IF d < m THEN d ELSE m
  BY SMT DEF backoffStrategy, delay
<1> HIDE DEF P, D, m
<1>4. (n + 1) - 1 = n
  BY SMT
<1>5. d = D.retryDelay * P(n)
  BY SMT, <1>4
<1>6. d \in Nat /\ (q \in Mail => d = 5 * P(n))
  BY SMT, <1>1, <1>2, <1>5
<1> HIDE DEF d
<1>7. /\ backoffStrategy(q, n + 1) \in Nat
      /\ q \in Mail => backoffStrategy(q, n + 1) <= 5 * P(n)
  BY SMT, <1>1, <1>3, <1>6
<1> QED BY SMT, <1>7 DEF P

\* An attempt fails: the job waits for the next, or has failed.
LEMMA FailStep ==
  ASSUME QueuesInv, AttemptFails
  PROVE  QueuesInv'
<1> DEFINE q == kept.queue
           n == kept.made
           limit == QueueDefinition(q).retryLimit
           back == backoffStrategy(q, n + 1)
           A == AttemptSeconds
<1>1. /\ kept.st = "waiting" /\ q \in QUEUES /\ kept.at \in Nat /\ started \in 0..kept.at
      /\ n \in 0..9 /\ n <= limit /\ A \in Nat
  BY SMT, QueuesAssumption DEF QueuesInv, QueuesTypeOK, AttemptFails
<1>2. limit \in 1..8
  BY Zenon, <1>1, Settings
<1>3. PICK took \in {0, A} :
        kept' = [queue |-> q, made |-> n + 1, st |-> IF n + 1 < limit + 1 THEN "waiting" ELSE "failed",
                 at |-> kept.at + took + IF n + 1 < limit + 1 THEN back ELSE 0]
  BY Zenon DEF AttemptFails
<1>4. started' = kept.at
  BY Zenon DEF AttemptFails
<1>5. q \in Mail => /\ kept.at <= Latest(n) /\ Latest(n) \in Nat /\ Latest(limit) \in Nat
                    /\ Latest(n) <= Latest(limit)
                    /\ limit \in {5, 8}
  <2> SUFFICES ASSUME q \in Mail PROVE <1>5!2
    OBVIOUS
  <2>1. kept.at <= Latest(n)
    BY Zenon, <1>1 DEF QueuesInv
  <2>2. limit = 5 \/ limit = 8
    BY SMT, MailSettings
  <2> HIDE DEF limit, n
  <2> QED BY SMT, <1>1, <2>1, <2>2, LatestGrows
<1> HIDE DEF limit
<1>6. CASE n < limit
  <2>1. back \in Nat /\ (q \in Mail => back <= 5 * 2^n) /\ n \in 0..7
    <3>1. n \in 0..7
      BY SMT, <1>1, <1>2, <1>6
    <3> QED BY Zenon, <1>1, <3>1, BackOff
  <2> HIDE DEF back
  <2>2. /\ kept' = [queue |-> q, made |-> n + 1, st |-> "waiting", at |-> kept.at + took + back]
        /\ n + 1 <= limit
    BY SMT, <1>1, <1>2, <1>3, <1>6
  <2>3. /\ kept'.queue = q /\ kept'.made = n + 1 /\ kept'.st = "waiting"
        /\ kept'.at = kept.at + took + back
    BY SMT, <2>2
  <2>4. QueuesTypeOK'
    BY SMT, <1>1, <1>2, <1>4, <2>1, <2>2, <2>3 DEF QueuesTypeOK
  <2>5. q \in Mail => kept'.at <= Latest(n + 1)
    <3> DEFINE P == 2^n
               l == Latest(n)
               m == Latest(n + 1)
    <3>1. m = l + A + 5 * P
      BY Zenon, <2>1, LatestGrows
    <3>2. (q \in Mail => back <= 5 * P) /\ P \in Nat
      BY Zenon, <2>1, Doubling
    <3>3. q \in Mail => kept.at <= l /\ l \in Nat
      BY Zenon, <1>5
    <3> HIDE DEF P, l, m, q
    <3> QED BY SMT, <1>1, <2>1, <2>3, <3>1, <3>2, <3>3 DEF m
  <2>6. q \in Mail => started' <= Latest(limit)
    <3> HIDE DEF q
    <3> QED BY SMT, <1>1, <1>4, <1>5
  <2> QED BY Zenon, <2>2, <2>3, <2>4, <2>5, <2>6 DEF QueuesInv, limit
<1>7. CASE ~(n < limit)
  <2>2. kept' = [queue |-> q, made |-> n + 1, st |-> "failed", at |-> kept.at + took + 0]
    <3> HIDE DEF back
    <3> QED BY SMT, <1>1, <1>2, <1>3, <1>7
  <2>3. /\ kept'.queue = q /\ kept'.made = n + 1 /\ kept'.st = "failed"
        /\ kept'.at = kept.at + took
    BY SMT, <1>1, <2>2
  <2>4. QueuesTypeOK'
    BY SMT, <1>1, <1>2, <1>4, <2>2, <2>3 DEF QueuesTypeOK
  <2>5. q \in Mail => kept'.at <= Latest(limit) + A + 0 /\ started' <= Latest(limit)
    <3> HIDE DEF q
    <3> QED BY SMT, <1>1, <1>4, <1>5, <2>3
  <2> QED BY Zenon, <2>3, <2>4, <2>5 DEF QueuesInv, limit
<1> QED BY <1>6, <1>7

\* An attempt succeeds: a job with a credential goes at once.
LEMMA SucceedStep ==
  ASSUME QueuesInv, AttemptSucceeds
  PROVE  QueuesInv'
<1> DEFINE q == kept.queue
           D == QueueDefinition(q)
<1>1. /\ kept.st = "waiting" /\ q \in QUEUES /\ kept.at \in Nat /\ started \in 0..kept.at
      /\ kept.made \in 0..9 /\ kept.made <= D.retryLimit /\ AttemptSeconds \in Nat
      /\ kept \in [queue : QUEUES, st : {"waiting", "failed", "completed", "gone"}, made : 0..9, at : Nat]
  BY SMT, QueuesAssumption DEF QueuesInv, QueuesTypeOK, AttemptSucceeds
<1>2. /\ kept'.queue = q /\ kept'.made = kept.made /\ kept'.at = kept.at /\ started' = kept.at
      /\ kept' \in [queue : QUEUES, st : {"waiting", "failed", "completed", "gone"}, made : 0..9, at : Nat]
  BY SMT, <1>1 DEF AttemptSucceeds
<1>3. /\ D.completedKept = 0 => kept'.st = "gone"
      /\ D.completedKept # 0 => kept'.st = "completed"
  BY SMT, <1>1 DEF AttemptSucceeds
<1>4. QueuesTypeOK'
  BY SMT, <1>1, <1>2 DEF QueuesTypeOK
<1>5. ASSUME q \in Mail
      PROVE  /\ kept.at <= Latest(D.retryLimit) /\ D.failedKept \in Nat /\ Latest(D.retryLimit) \in Nat
  <2>1. kept.at <= Latest(kept.made)
    BY Zenon, <1>1, <1>5 DEF QueuesInv
  <2>2. (D.retryLimit = 5 \/ D.retryLimit = 8) /\ D.failedKept \in Nat
    BY SMT, <1>1, <1>5, Settings, MailSettings
  <2> HIDE DEF D
  <2> QED BY SMT, <1>1, <2>1, <2>2, LatestGrows
<1>6. ASSUME q \in Mail
      PROVE  /\ started' <= Latest(D.retryLimit)
             /\ kept'.at <= Latest(D.retryLimit) + AttemptSeconds + D.failedKept
  <2> HIDE DEF D, q
  <2> QED BY SMT, <1>1, <1>2, <1>5, <1>6
<1>7. kept'.st # "waiting"
  BY Zenon, <1>3
<1> QED BY Zenon, <1>2, <1>3, <1>4, <1>6, <1>7 DEF QueuesInv

\* A job that has ended goes when it has been kept for its time.
LEMMA ReapStep ==
  ASSUME QueuesInv, Reap
  PROVE  QueuesInv'
<1> DEFINE q == kept.queue
           D == QueueDefinition(q)
<1>1. /\ kept.st \in {"failed", "completed"} /\ q \in QUEUES /\ kept.at \in Nat /\ started \in 0..kept.at
      /\ kept.made \in 0..9 /\ AttemptSeconds \in Nat
      /\ kept \in [queue : QUEUES, st : {"waiting", "failed", "completed", "gone"}, made : 0..9, at : Nat]
  BY SMT, QueuesAssumption DEF QueuesInv, QueuesTypeOK, Reap
<1>2. D.failedKept \in Nat /\ D.completedKept \in Nat
  BY Zenon, <1>1, Settings
<1> HIDE DEF D
<1>3. /\ kept'.queue = q /\ kept'.made = kept.made /\ kept'.st = "gone" /\ started' = started
      /\ kept.st = "failed" => kept'.at = kept.at + D.failedKept
      /\ kept.st = "completed" => kept'.at = kept.at + D.completedKept
      /\ kept' \in [queue : QUEUES, st : {"waiting", "failed", "completed", "gone"}, made : 0..9, at : Nat]
  <2> DEFINE keep == IF kept.st = "failed" THEN D.failedKept ELSE D.completedKept
             until == kept.at + keep
  <2>1. kept' = [kept EXCEPT !.st = "gone", !.at = until] /\ started' = started
    BY Zenon DEF Reap, D
  <2>2. /\ keep \in Nat
        /\ kept.st = "failed" => keep = D.failedKept
        /\ kept.st = "completed" => keep = D.completedKept
    BY SMT, <1>1, <1>2
  <2> HIDE DEF keep
  <2>3. until \in Nat
    BY SMT, <1>1, <2>2
  <2> HIDE DEF until
  <2>4. /\ kept'.queue = q /\ kept'.made = kept.made /\ kept'.st = "gone" /\ kept'.at = until
        /\ kept' \in [queue : QUEUES, st : {"waiting", "failed", "completed", "gone"}, made : 0..9, at : Nat]
    <3>1. kept \in [queue : QUEUES, st : {"waiting", "failed", "completed", "gone"}, made : 0..9, at : Nat]
      BY Zenon, <1>1
    <3>2. kept' = [kept EXCEPT !.st = "gone", !.at = until]
      BY Zenon, <2>1
    <3>3. kept'.queue = q /\ kept'.made = kept.made /\ kept'.st = "gone" /\ kept'.at = until
      BY SMT, <2>3, <3>1, <3>2
    <3>4. kept' \in [queue : QUEUES, st : {"waiting", "failed", "completed", "gone"}, made : 0..9, at : Nat]
      BY Zenon, <2>3, <3>1, <3>2
    <3> QED BY Zenon, <3>3, <3>4
  <2> QED BY Zenon, <2>1, <2>2, <2>4 DEF until
<1>4. QueuesTypeOK'
  BY SMT, <1>1, <1>2, <1>3 DEF QueuesTypeOK
<1>5. ASSUME q \in Mail, D.completedKept = 0
      PROVE  kept'.at <= Latest(D.retryLimit) + AttemptSeconds + D.failedKept
  <2>1. kept.st = "failed" /\ kept.at <= Latest(D.retryLimit) + AttemptSeconds + 0
    BY Zenon, <1>1, <1>5 DEF QueuesInv, D
  <2>2. Latest(D.retryLimit) \in Nat
    <3>1. D.retryLimit \in 0..8
      BY SMT, <1>1, Settings DEF D
    <3> QED BY Zenon, <3>1, LatestGrows
  <2> QED BY SMT, <1>1, <1>2, <1>3, <2>1, <2>2
<1>6. q \in Mail => started' <= Latest(D.retryLimit)
  BY Zenon, <1>3 DEF QueuesInv, D
<1> QED BY Zenon, <1>3, <1>4, <1>5, <1>6 DEF QueuesInv, D

\* What its attempts have used up bounds the time of a job.
THEOREM QueuesInvariant == QueuesSpec => []QueuesInv
<1>1. QueuesInit => QueuesInv
  <2> SUFFICES ASSUME QueuesInit PROVE QueuesInv
    OBVIOUS
  <2>1. PICK q \in QUEUES : kept = [queue |-> q, st |-> "waiting", made |-> 0, at |-> 0] /\ started = 0
    BY Zenon DEF QueuesInit
  <2>2. /\ kept.queue = q /\ kept.st = "waiting" /\ kept.made = 0 /\ kept.at = 0
        /\ QueuesTypeOK
    BY SMT, <2>1 DEF QueuesTypeOK
  <2>3. QueueDefinition(q).retryLimit \in 1..8
    BY Zenon, Settings
  <2>4. Latest(0) = 0 /\ 0 <= Latest(QueueDefinition(q).retryLimit)
    <3>1. Latest(0) = 0
      BY SMT, LatestTimes
    <3>2. Latest(QueueDefinition(q).retryLimit) \in Nat
      BY SMT, <2>3, LatestGrows
    <3> QED BY SMT, <3>1, <3>2
  <2> QED BY SMT, <2>1, <2>2, <2>3, <2>4 DEF QueuesInv
<1>2. QueuesInv /\ QueuesNext => QueuesInv'
  BY Zenon, FailStep, SucceedStep, ReapStep DEF QueuesNext
<1>3. QueuesInv /\ UNCHANGED queuesVars => QueuesInv'
  BY Zenon DEF QueuesInv, QueuesTypeOK, queuesVars
<1> QED BY <1>1, <1>2, <1>3, PTL DEF QueuesSpec

\* No mail is tried after its link is dead, and no credential stays in Redis for
\* long after, whatever an attempt takes up to 574 seconds; the SMTP timeouts are
\* far below that.
THEOREM LinksOutlive ==
  ASSUME AttemptSeconds <= 574
  PROVE  QueuesSpec => [](QueuesTypeOK /\ NoLongerThanItsLink)
<1>1. QueuesInv => QueuesTypeOK /\ NoLongerThanItsLink
  <2> SUFFICES ASSUME QueuesInv PROVE NoLongerThanItsLink
    BY Zenon DEF QueuesInv
  <2> DEFINE q == kept.queue
             D == QueueDefinition(q)
             l == Latest(D.retryLimit)
  <2>1. kept.at \in Nat /\ started \in Nat /\ started <= kept.at /\ AttemptSeconds \in Nat
    BY SMT, QueuesAssumption DEF QueuesInv, QueuesTypeOK
  <2>2. CASE q \notin Mail
    BY Zenon, <2>2 DEF NoLongerThanItsLink, Mail
  <2>3. CASE q = "mailer.send-auth-email"
    <3>1. D.retryLimit = 5 /\ D.completedKept = 0 /\ D.failedKept = 900 /\ q \in Mail
      BY SMT, <2>3, MailSettings DEF Mail
    <3>2. l = 5 * AttemptSeconds + 155
      BY SMT, <3>1, LatestTimes
    <3>3. /\ started <= l /\ kept.st # "completed"
          /\ kept.st = "waiting" => kept.made <= 5 /\ kept.at <= Latest(kept.made) /\ kept.made \in 0..9
          /\ kept.st # "waiting" => kept.at <= l + AttemptSeconds + (IF kept.st = "gone" THEN 900 ELSE 0)
      BY SMT, <3>1 DEF QueuesInv, QueuesTypeOK
    <3>4. kept.st = "waiting" => kept.at <= Latest(5) /\ Latest(5) \in Nat
      BY SMT, <2>1, <3>3, LatestGrows
    <3>5. started < 3600 /\ kept.at <= 4500
      <4> HIDE DEF l
      <4> QED BY SMT, <2>1, <3>2, <3>3, <3>4, LatestTimes
    <3> QED BY SMT, <2>3, <3>3, <3>5 DEF NoLongerThanItsLink, GoodFor, ResetTokenSeconds, ONE_HOUR
  <2>4. CASE q = "organizations.send-invitation"
    <3>1. D.retryLimit = 8 /\ D.completedKept = 0 /\ D.failedKept = 3600 /\ q \in Mail
      BY SMT, <2>4, MailSettings DEF Mail
    <3>2. l = 8 * AttemptSeconds + 1275
      BY SMT, <3>1, LatestTimes
    <3>3. /\ started <= l /\ kept.st # "completed"
          /\ kept.st = "waiting" => kept.made <= 8 /\ kept.at <= Latest(kept.made) /\ kept.made \in 0..9
          /\ kept.st # "waiting" => kept.at <= l + AttemptSeconds + (IF kept.st = "gone" THEN 3600 ELSE 0)
      BY SMT, <3>1 DEF QueuesInv, QueuesTypeOK
    <3>4. kept.st = "waiting" => kept.at <= Latest(8) /\ Latest(8) \in Nat
      BY SMT, <2>1, <3>3, LatestGrows
    <3>5. started < 604800 /\ kept.at <= 604800
      <4> HIDE DEF l
      <4> QED BY SMT, <2>1, <3>2, <3>3, <3>4, LatestTimes
    <3> QED BY SMT, <2>1, <2>4, <3>3, <3>5 DEF NoLongerThanItsLink, GoodFor, InvitationSeconds, ONE_DAY, ONE_HOUR, Mail
  <2>5. CASE q = "mailer.send-welcome"
    <3>1. D.retryLimit = 8 /\ q \in Mail
      BY SMT, <2>5, MailSettings DEF Mail
    <3>2. started <= 8 * AttemptSeconds + 1275
      BY SMT, <3>1, LatestTimes DEF QueuesInv
    <3> QED BY SMT, <2>1, <2>5, <3>2 DEF NoLongerThanItsLink, GoodFor, LedgerSeconds, ONE_DAY, ONE_HOUR
  <2> QED BY Zenon, <2>2, <2>3, <2>4, <2>5 DEF Mail
<1> QED BY <1>1, QueuesInvariant, PTL
=============================================================================
