--------------------------- MODULE ServicesProofs ---------------------------
(***************************************************************************)
(* Proofs about the consumers that must act once for an event delivered    *)
(* more than once, the audit trail and the mails, and about the lists that *)
(* are read in pages, the trail and the profiles.                          *)
(***************************************************************************)
EXTENDS Notifications, Lists, FiniteSetTheorems, TLAPS

\* What the queue does to a job.
LEMMA JobSteps ==
  /\ Unsent \in Job /\ Sent \in Job /\ HasAttempts(Unsent) /\ HasAttempts(Sent)
  /\ Unsent.st = "unsent" /\ Sent.st = "waiting"
  /\ \A j \in Job :
       /\ Picked(j) \in Job /\ Completed(j) \in Job /\ Stalled(j) \in Job
       /\ Picked(j).st = "active" /\ Completed(j).st = "done" /\ Stalled(j).st = "waiting"
       /\ HasAttempts(Completed(j))
       /\ j.st \in {"waiting", "active"} /\ HasAttempts(j) =>
            /\ HasAttempts(Picked(j)) /\ HasAttempts(Stalled(j))
            /\ Failed(j) \in Job /\ HasAttempts(Failed(j)) /\ Failed(j).st \in {"waiting", "dead"}
BY AttemptsAssumption DEF Unsent, Sent, Job, Picked, Completed, Failed, Stalled, HasAttempts

-----------------------------------------------------------------------------
(* The audit trail.                                                        *)

\* Recording an event adds its row, unless it is there, and nothing else.
LEMMA RecordedRow ==
  ASSUME TrailInv, NEW e \in Events, NEW d, trail' = recordIfAbsent(createAuditEntry(e, d))
  PROVE  /\ trail' \subseteq [id : Nat, ts : Nat, org : Nat, event : Events]
         /\ trail \subseteq trail'
         /\ \E row \in trail' : row.event = e
         /\ \A row \in trail' : row = [id |-> row.event.id, ts |-> row.event.ts,
                                      org |-> row.event.org, event |-> row.event]
<1> DEFINE new == createAuditEntry(e, d)
<1>1. /\ new \in [id : Nat, ts : Nat, org : Nat, event : Events] /\ new.event = e /\ new.id = e.id
      /\ new = [id |-> new.event.id, ts |-> new.event.ts, org |-> new.event.org, event |-> new.event]
  BY AuditAssumption DEF createAuditEntry
<1>2. ASSUME NEW row \in trail, row.id = new.id PROVE row.event = e
  <2>1. row.event \in Events /\ row.id = row.event.id
    BY DEF TrailInv, AuditTypeOK
  <2> QED BY Zenon, <1>1, <1>2, <2>1, AuditAssumption
<1>3. trail' = IF \E row \in trail : row.id = new.id THEN trail ELSE trail \cup {new}
  BY DEF recordIfAbsent
<1> HIDE DEF new
<1> QED BY <1>1, <1>2, <1>3 DEF TrailInv, AuditTypeOK

\* The steps of the recording jobs.
LEMMA RecorderSteps ==
  ASSUME TrailInv, NEW e \in Events, NEW d \in Redeliveries,
         AuditDeliver(e, d) \/ Recorder(e, d) \/ RecordCrash(e, d)
  PROVE  TrailInv'
<1> USE DEF TrailInv
<1>1. UNCHANGED <<now, walk, prune>>
  BY DEF AuditDeliver, Recorder, RecordEvent, RecordFails, RecordCrash
<1>2. record \in [Events -> [Redeliveries -> Job]] /\ record[e][d] \in Job /\ HasAttempts(record[e][d])
  BY DEF AuditTypeOK
<1>3. \E j \in Job : /\ HasAttempts(j) /\ record' = [record EXCEPT ![e][d] = j]
                     /\ j.st = "done" => RecordEvent(e, d)
  <2>1. CASE AuditDeliver(e, d)
    BY Zenon, <2>1, JobSteps DEF AuditDeliver
  <2>2. CASE RecordEvent(e, d)
    BY Zenon, <1>2, <2>2, JobSteps DEF RecordEvent
  <2>3. CASE RecordFails(e, d)
    <3>1. record' = [record EXCEPT ![e][d] = Failed(record[e][d])] /\ record[e][d].st = "waiting"
      BY <2>3 DEF RecordFails
    <3>2. Failed(record[e][d]) \in Job /\ HasAttempts(Failed(record[e][d]))
          /\ Failed(record[e][d]).st # "done"
      BY <1>2, <3>1, JobSteps
    <3> QED BY Zenon, <3>1, <3>2
  <2>4. CASE RecordCrash(e, d)
    <3> DEFINE j == Stalled(Picked(record[e][d]))
    <3>1. record' = [record EXCEPT ![e][d] = j] /\ record[e][d].st = "waiting"
      BY <2>4 DEF RecordCrash
    <3>2. j \in Job /\ HasAttempts(j) /\ j.st = "waiting"
      BY <1>2, <3>1, JobSteps
    <3> HIDE DEF j
    <3> QED BY Zenon, <3>1, <3>2
  <2> QED BY <2>1, <2>2, <2>3, <2>4 DEF Recorder
<1>4. PICK j \in Job : /\ HasAttempts(j) /\ record' = [record EXCEPT ![e][d] = j]
                       /\ j.st = "done" => RecordEvent(e, d)
  BY Zenon, <1>3
<1>5. /\ record' \in [Events -> [Redeliveries -> Job]]
      /\ \A x \in Events, y \in Redeliveries : HasAttempts(record'[x][y])
      /\ \A x \in Events, y \in Redeliveries :
           record'[x][y].st = "done" => record[x][y].st = "done" \/ (x = e /\ RecordEvent(e, d))
  <2>1. record'[e][d] = j
    BY <1>2, <1>4
  <2>2. \A x \in Events, y \in Redeliveries : (x # e \/ y # d) => record'[x][y] = record[x][y]
    BY <1>2, <1>4
  <2>3. record' \in [Events -> [Redeliveries -> Job]]
    BY <1>2, <1>4
  <2> QED BY <1>4, <2>1, <2>2, <2>3
<1>6. trail' = trail \/ trail' = recordIfAbsent(createAuditEntry(e, d))
  BY DEF AuditDeliver, Recorder, RecordEvent, RecordFails, RecordCrash
<1>7. /\ trail' \subseteq [id : Nat, ts : Nat, org : Nat, event : Events]
      /\ trail \subseteq trail'
      /\ RecordEvent(e, d) => \E row \in trail' : row.event = e
      /\ \A row \in trail' : row = [id |-> row.event.id, ts |-> row.event.ts,
                                   org |-> row.event.org, event |-> row.event]
  <2>1. RecordEvent(e, d) => trail' = recordIfAbsent(createAuditEntry(e, d))
    BY DEF RecordEvent
  <2> QED BY <1>6, <2>1, RecordedRow DEF AuditTypeOK
<1>8. AuditTypeOK'
  BY <1>1, <1>5, <1>7 DEF AuditTypeOK
<1>9. RecordedOnce'
  <2>1. \A x, y \in trail' : x.event = y.event => x = y
    BY <1>7
  <2>2. ASSUME NEW x \in Events, NEW y \in Redeliveries, record'[x][y].st = "done"
        PROVE  (\E row \in trail' : row.event = x) \/ x.ts + Retention < now'
    BY <1>1, <1>5, <1>7, <2>2 DEF RecordedOnce
  <2> QED BY <2>1, <2>2 DEF RecordedOnce
<1> QED BY <1>1, <1>5, <1>7, <1>8, <1>9

\* A prune takes only rows past their retention.
LEMMA PruneStep ==
  ASSUME TrailInv, DeleteOlderThan
  PROVE  TrailInv'
<1> USE DEF TrailInv
<1>1. PICK rows \in SUBSET Expired(prune.cutoff) :
        /\ trail' = trail \ rows
        /\ walk' = [walk EXCEPT !.steady = @ \ rows]
        /\ prune' = IF LastPass(Cardinality(rows)) THEN Idle ELSE [prune EXCEPT !.pass = @ + 1]
  BY Zenon DEF DeleteOlderThan
<1>2. UNCHANGED <<now, record>> /\ prune.at = "delete"
  BY DEF DeleteOlderThan
<1>3. /\ prune' \in [at : {"idle", "delete"}, cutoff : 0..MaxNow, pass : 0..(AuditPasses - 1)]
      /\ prune'.at = "delete" => prune'.cutoff = prune.cutoff
  BY <1>1, <1>2, AuditAssumption DEF AuditTypeOK, Idle, LastPass
<1>4. AuditTypeOK'
  BY <1>1, <1>2, <1>3 DEF AuditTypeOK
<1>5. RecordedOnce'
  <2>1. \A x, y \in trail' : x.event = y.event => x = y
    BY <1>1 DEF RecordedOnce
  <2>2. ASSUME NEW e \in Events, NEW d \in Redeliveries, record[e][d].st = "done"
        PROVE  (\E row \in trail' : row.event = e) \/ e.ts + Retention < now
    <3>1. CASE \E row \in trail : row.event = e
      <4>1. PICK row \in trail : row.event = e
        BY <3>1
      <4>2. CASE row \in rows
        <5>1. row.ts < prune.cutoff /\ row.ts = e.ts
          BY <1>1, <4>1, <4>2 DEF Expired
        <5>2. e.ts \in Nat /\ prune.cutoff \in Nat /\ now \in Nat /\ Retention \in Nat
              /\ prune.cutoff + Retention <= now
          BY <1>2, AuditAssumption DEF AuditTypeOK
        <5> QED BY <5>1, <5>2
      <4>3. CASE row \notin rows
        BY <1>1, <4>1, <4>3
      <4> QED BY <4>2, <4>3
    <3>2. CASE ~\E row \in trail : row.event = e
      BY <2>2, <3>2 DEF RecordedOnce
    <3> QED BY <3>1, <3>2
  <2> QED BY <1>2, <2>1, <2>2 DEF RecordedOnce
<1> QED BY <1>1, <1>2, <1>3, <1>4, <1>5

\* The invariant of the trail, for any number of events and deliveries.
THEOREM TrailInvariant == AuditSpec => []TrailInv
<1>1. AuditInit => TrailInv
  <2> SUFFICES ASSUME AuditInit PROVE TrailInv
    OBVIOUS
  <2> USE DEF AuditInit
  <2>1. AuditTypeOK
    BY AuditAssumption, JobSteps DEF AuditTypeOK, Idle
  <2>2. RecordedOnce
    BY JobSteps DEF RecordedOnce
  <2> QED BY <2>1, <2>2, JobSteps DEF TrailInv, Idle
<1>2. ASSUME TrailInv, Tick PROVE TrailInv'
  <2>1. now \in Nat /\ now' = now + 1 /\ now' \in 0..MaxNow /\ UNCHANGED <<trail, record, walk, prune>>
    BY <1>2, AuditAssumption DEF Tick, TrailInv, AuditTypeOK
  <2>2. RecordedOnce'
    BY <1>2, <2>1, AuditAssumption DEF TrailInv, RecordedOnce
  <2> QED BY <1>2, <2>1, <2>2, AuditAssumption DEF TrailInv, AuditTypeOK
<1>3. ASSUME TrailInv, (\E org \in {0} \cup {e.org : e \in Events} : WalkStart(org)) \/ ListAuditEntries
      PROVE  TrailInv'
  <2>1. /\ UNCHANGED <<now, trail, record, prune>>
        /\ walk'.at \in {"idle", "page", "end", "refused"}
        /\ DOMAIN walk' = {"at", "org", "cursor", "seen", "steady"}
    <3>1. \A org : WalkStart(org) => <2>1!:
      BY SMTT(30) DEF WalkStart
    <3>2. ASSUME ListAuditEntries PROVE <2>1!:
      <4>1. /\ UNCHANGED <<now, trail, record, prune>>
            /\ \/ \E a \in {"page", "end"} : \E c, s :
                     walk' = [walk EXCEPT !.at = a, !.cursor = c, !.seen = s]
               \/ walk' = [walk EXCEPT !.at = "refused"]
        BY <3>2, Zenon DEF ListAuditEntries
      <4> QED BY Zenon, <1>3, <4>1 DEF TrailInv
    <3> QED BY <1>3, <3>1, <3>2
  <2> QED BY <1>3, <2>1 DEF TrailInv, AuditTypeOK, RecordedOnce
<1>4. ASSUME TrailInv, PruneAuditEntries PROVE TrailInv'
  BY <1>4, AuditAssumption DEF TrailInv, AuditTypeOK, RecordedOnce, PruneAuditEntries
<1>5. TrailInv /\ AuditNext => TrailInv'
  BY <1>2, <1>3, <1>4, RecorderSteps, PruneStep, Zenon DEF AuditNext
<1>6. TrailInv /\ UNCHANGED auditVars => TrailInv'
  BY DEF TrailInv, AuditTypeOK, RecordedOnce, auditVars
<1> QED BY <1>1, <1>5, <1>6, PTL DEF AuditSpec

\* One entry per event, and for as long as its retention lasts, however often the
\* event is delivered and wherever an attempt or a prune stops.
THEOREM EventsAreRecordedOnce == AuditSpec => []RecordedOnce
<1>1. TrailInv => RecordedOnce
  BY DEF TrailInv
<1> QED BY <1>1, TrailInvariant, PTL

-----------------------------------------------------------------------------
(* The once-only mail.                                                     *)

\* The message and the row of a notice are its own.
LEMMA OwnKey ==
  /\ \A n \in Notices : IdempotencyKey(n) \in Keys /\ Message(n) \in Messages
  /\ \A m, n \in Notices : m # n => /\ IdempotencyKey(m) # IdempotencyKey(n)
                                    /\ Message(m) # Message(n)
BY Zenon, KeysAreDistinct DEF Keys, Messages, Message

\* A step of one job of one notice, by what it leaves in the notice's row, in the
\* job and its handler, and in the counts of mails, doubts and lost claims.
Moves(n, d, l, j, s, i, b, t) ==
  /\ ledger' = [ledger EXCEPT ![IdempotencyKey(n)] = l]
  /\ mail' = [mail EXCEPT ![n][d] = j]
  /\ step' = [step EXCEPT ![n][d] = s]
  /\ inbox' = [inbox EXCEPT ![Message(n)] = i]
  /\ doubt' = [doubt EXCEPT ![n] = b]
  /\ lost' = [lost EXCEPT ![n] = t]
  /\ pruner' = pruner /\ faults' \in 0..MaxFaults

\* The job takes a row that is nobody's, lets go of its own only for a reason, and
\* ends well only when the mail is out, a claim is lost, or another job of the
\* notice is not over.
Fits(n, d, l, j, s, i, b, t) ==
  /\ HasAttempts(j) /\ ((s # "idle") <=> (j.st = "active")) /\ j.st # "unsent"
  /\ i >= inbox[Message(n)] /\ t >= lost[n] /\ i <= 1 + b
  /\ ledger[IdempotencyKey(n)] = "old" => l = "old"
  /\ s \in {"send", "release"} => l = "fresh" /\ ~\E x \in Deliveries \ {d} : Holds(n, x)
  /\ s \in {"send", "release"} \/ l = "none" => i <= b
  /\ \A x \in Deliveries \ {d} : Holds(n, x) => l = "fresh" /\ i <= b
  /\ l # "none" => \/ i > 0 \/ t > 0 \/ s \in {"send", "release"}
                   \/ \E x \in Deliveries \ {d} : Holds(n, x)
  /\ l \in {"old", "pruned"} =>
       /\ j.st \in {"done", "dead"}
       /\ \A x \in Deliveries \ {d} : mail[n][x].st \in {"unsent", "done", "dead"}
  /\ j.st = "done" => \/ i > 0 \/ t > 0
                      \/ \E x \in Deliveries \ {d} : mail[n][x].st \notin {"unsent", "done"}

\* Such a step keeps the invariant.
LEMMA NoticeStep ==
  ASSUME NotificationsInv, NEW n \in Notices, NEW d \in Deliveries,
         NEW l \in {"none", "fresh", "old", "pruned"}, NEW j \in Job,
         NEW s \in {"idle", "claim", "send", "release"},
         NEW i \in Nat, NEW b \in Nat, NEW t \in Nat,
         Moves(n, d, l, j, s, i, b, t), Fits(n, d, l, j, s, i, b, t)
  PROVE  NotificationsInv'
<1> USE DEF Moves, Fits
<1> DEFINE K == IdempotencyKey(n)
           M == Message(n)
<1>1. /\ ledger \in [Keys -> {"none", "fresh", "old", "pruned"}]
      /\ mail \in [Notices -> [Deliveries -> Job]]
      /\ step \in [Notices -> [Deliveries -> {"idle", "claim", "send", "release"}]]
      /\ inbox \in [Messages -> Nat] /\ doubt \in [Notices -> Nat] /\ lost \in [Notices -> Nat]
      /\ pruner \in [at : {"idle", "select", "delete"}, pass : 0..PrunePasses, rows : SUBSET Keys]
  BY DEF NotificationsInv, NotificationsTypeOK
<1>2. /\ ledger' \in [Keys -> {"none", "fresh", "old", "pruned"}]
      /\ mail' \in [Notices -> [Deliveries -> Job]]
      /\ step' \in [Notices -> [Deliveries -> {"idle", "claim", "send", "release"}]]
      /\ inbox' \in [Messages -> Nat] /\ doubt' \in [Notices -> Nat] /\ lost' \in [Notices -> Nat]
  BY <1>1, OwnKey
<1>3. /\ ledger'[K] = l /\ inbox'[M] = i /\ doubt'[n] = b /\ lost'[n] = t
      /\ mail'[n][d] = j /\ step'[n][d] = s
  BY <1>1, OwnKey
<1>4. \A x \in Deliveries \ {d} : mail'[n][x] = mail[n][x] /\ step'[n][x] = step[n][x]
  BY <1>1
<1>5. ASSUME NEW m \in Notices, m # n
      PROVE  /\ ledger'[IdempotencyKey(m)] = ledger[IdempotencyKey(m)]
             /\ inbox'[Message(m)] = inbox[Message(m)]
             /\ doubt'[m] = doubt[m] /\ lost'[m] = lost[m]
             /\ mail'[m] = mail[m] /\ step'[m] = step[m]
  BY <1>1, <1>5, OwnKey
<1> HIDE DEF K, M
<1>6. NotificationsTypeOK'
  <2>1. \A m \in Notices, x \in Deliveries : (step[m][x] # "idle") <=> (mail[m][x].st = "active")
    BY DEF NotificationsInv, NotificationsTypeOK
  <2>2. \A m \in Notices, x \in Deliveries :
          (step'[m][x] # "idle") <=> (mail'[m][x].st = "active")
    BY <1>3, <1>4, <1>5, <2>1
  <2> QED BY <1>1, <1>2, <2>2 DEF NotificationsTypeOK
<1>7. MailedOnce'
  <2> SUFFICES ASSUME NEW m \in Notices
               PROVE  /\ inbox'[Message(m)] <= 1 + doubt'[m]
                      /\ (\E x \in Deliveries : mail'[m][x].st = "done")
                           /\ (\A x \in Deliveries : mail'[m][x].st \in {"unsent", "done"})
                         => inbox'[Message(m)] > 0 \/ lost'[m] > 0
    BY DEF MailedOnce
  <2>1. CASE m # n
    BY <1>5, <2>1 DEF NotificationsInv, MailedOnce
  <2>2. CASE m = n
    BY <1>3, <1>4, <2>2 DEF M
  <2> QED BY <2>1, <2>2
<1>8. ASSUME NEW m \in Notices PROVE RowIsExplained(m)'
  <2>1. CASE m # n
    <3>1. RowIsExplained(m)
      BY DEF NotificationsInv
    <3> QED BY <1>5, <2>1, <3>1 DEF RowIsExplained, Holds, AllSettled
  <2>2. CASE m = n
    <3>1. /\ \A x \in Deliveries \ {d} : Holds(n, x)' <=> Holds(n, x)
          /\ Holds(n, d)' <=> s \in {"send", "release"}
      BY <1>3, <1>4 DEF Holds
    <3>2. \A x, y \in Deliveries \ {d} : Holds(n, x) /\ Holds(n, y) => x = y
      BY DEF NotificationsInv, RowIsExplained
    <3>3. \A x, y \in Deliveries : Holds(n, x)' /\ Holds(n, y)' => x = y
      BY <3>1, <3>2
    <3>4. \A x \in Deliveries : Holds(n, x)' => l = "fresh" /\ i <= b
      BY <3>1
    <3>5. l # "none" => i > 0 \/ t > 0 \/ \E x \in Deliveries : Holds(n, x)'
      BY <3>1
    <3>6. l \in {"old", "pruned"} => AllSettled(n)'
      BY <1>3, <1>4 DEF AllSettled
    <3> QED BY <1>3, <2>2, <3>3, <3>4, <3>5, <3>6 DEF RowIsExplained, K, M
  <2> QED BY <2>1, <2>2
<1>9. \A m \in Notices, x \in Deliveries : HasAttempts(mail'[m][x])
  <2>1. \A m \in Notices, x \in Deliveries : HasAttempts(mail[m][x])
    BY DEF NotificationsInv
  <2> QED BY <1>3, <1>4, <1>5, <2>1
<1>10. pruner'.at = "delete" => \A k \in pruner'.rows : ledger'[k] = "old"
  BY <1>1 DEF NotificationsInv
<1> QED BY <1>6, <1>7, <1>8, <1>9, <1>10 DEF NotificationsInv, HasAttempts

\* What the invariant says of one job of one notice.
LEMMA NoticeFacts ==
  ASSUME NotificationsInv, NEW n \in Notices, NEW d \in Deliveries
  PROVE  /\ ledger[IdempotencyKey(n)] \in {"none", "fresh", "old", "pruned"}
         /\ mail[n][d] \in Job /\ HasAttempts(mail[n][d])
         /\ step[n][d] \in {"idle", "claim", "send", "release"}
         /\ (step[n][d] # "idle") <=> (mail[n][d].st = "active")
         /\ inbox[Message(n)] \in Nat /\ doubt[n] \in Nat /\ lost[n] \in Nat
         /\ ledger = [ledger EXCEPT ![IdempotencyKey(n)] = ledger[IdempotencyKey(n)]]
         /\ mail = [mail EXCEPT ![n][d] = mail[n][d]]
         /\ step = [step EXCEPT ![n][d] = step[n][d]]
         /\ inbox = [inbox EXCEPT ![Message(n)] = inbox[Message(n)]]
         /\ doubt = [doubt EXCEPT ![n] = doubt[n]]
         /\ lost = [lost EXCEPT ![n] = lost[n]]
         /\ faults \in 0..MaxFaults
<1>1. NotificationsTypeOK /\ HasAttempts(mail[n][d])
  BY DEF NotificationsInv
<1>2. IdempotencyKey(n) \in Keys /\ Message(n) \in Messages
  BY OwnKey
<1> QED BY <1>1, <1>2 DEF NotificationsTypeOK

\* And of its row.
LEMMA RowFacts ==
  ASSUME NotificationsInv, NEW n \in Notices, NEW d \in Deliveries
  PROVE  LET row == ledger[IdempotencyKey(n)] IN
         /\ inbox[Message(n)] <= 1 + doubt[n]
         /\ \A x \in Deliveries : Holds(n, x) => row = "fresh" /\ inbox[Message(n)] <= doubt[n]
         /\ Holds(n, d) => ~\E x \in Deliveries \ {d} : Holds(n, x)
         /\ row = "none" => inbox[Message(n)] <= doubt[n]
         /\ row # "none" => inbox[Message(n)] > 0 \/ lost[n] > 0 \/ \E x \in Deliveries : Holds(n, x)
         /\ row \in {"old", "pruned"} => \A x \in Deliveries : mail[n][x].st \in {"unsent", "done", "dead"}
         /\ \A x \in Deliveries : Holds(n, x) => mail[n][x].st = "active"
<1>1. RowIsExplained(n) /\ inbox[Message(n)] <= 1 + doubt[n]
  BY DEF NotificationsInv, MailedOnce
<1>2. \A x \in Deliveries : Holds(n, x) => mail[n][x].st = "active"
  BY DEF NotificationsInv, NotificationsTypeOK, Holds
<1> QED BY <1>1, <1>2 DEF RowIsExplained, AllSettled

\* The job is sent.
LEMMA DeliverStep ==
  ASSUME NotificationsInv, NEW n \in Notices, NEW d \in Deliveries, NotifyDeliver(n, d)
  PROVE  NotificationsInv'
<1> DEFINE j == Sent
<1>1. mail[n][d] \in Job /\ HasAttempts(mail[n][d]) /\ step[n][d] = "idle" /\ ledger[IdempotencyKey(n)] \notin {"old", "pruned"}
  BY NoticeFacts DEF NotifyDeliver
<1>2. j \in Job /\ HasAttempts(j) /\ j.st = "waiting"
  BY <1>1, JobSteps
<1>3. Moves(n, d, ledger[IdempotencyKey(n)], j, "idle", inbox[Message(n)], doubt[n], lost[n])
  BY NoticeFacts, NotificationsAssumption DEF Moves, NotifyDeliver, At, Becomes
<1> HIDE DEF j
<1>4. Fits(n, d, ledger[IdempotencyKey(n)], j, "idle", inbox[Message(n)], doubt[n], lost[n])
  BY <1>1, <1>2, NoticeFacts, RowFacts DEF Fits, Holds
<1>5. inbox[Message(n)] \in Nat /\ doubt[n] \in Nat /\ lost[n] \in Nat
  BY NoticeFacts
<1> QED BY <1>2, <1>3, <1>4, <1>5, NoticeFacts, NoticeStep

\* A listener takes it.
LEMMA HandleStep ==
  ASSUME NotificationsInv, NEW n \in Notices, NEW d \in Deliveries, NotifyHandle(n, d)
  PROVE  NotificationsInv'
<1> DEFINE j == Picked(mail[n][d])
<1>1. mail[n][d] \in Job /\ HasAttempts(mail[n][d]) /\ mail[n][d].st = "waiting"
  BY NoticeFacts DEF NotifyHandle
<1>2. j \in Job /\ HasAttempts(j) /\ j.st = "active"
  BY <1>1, JobSteps
<1>3. Moves(n, d, ledger[IdempotencyKey(n)], j, "claim", inbox[Message(n)], doubt[n], lost[n])
  BY NoticeFacts, NotificationsAssumption DEF Moves, NotifyHandle, At, Becomes
<1> HIDE DEF j
<1>4. Fits(n, d, ledger[IdempotencyKey(n)], j, "claim", inbox[Message(n)], doubt[n], lost[n])
  BY <1>1, <1>2, NoticeFacts, RowFacts DEF Fits, Holds
<1>5. inbox[Message(n)] \in Nat /\ doubt[n] \in Nat /\ lost[n] \in Nat
  BY NoticeFacts
<1> QED BY <1>2, <1>3, <1>4, <1>5, NoticeFacts, NoticeStep

\* It gives up before it has claimed.
LEMMA ThrowsStep ==
  ASSUME NotificationsInv, NEW n \in Notices, NEW d \in Deliveries, NotifyThrows(n, d)
  PROVE  NotificationsInv'
<1> DEFINE j == Failed(mail[n][d])
<1>1. mail[n][d] \in Job /\ HasAttempts(mail[n][d]) /\ mail[n][d].st = "active" /\ step[n][d] = "claim"
  BY NoticeFacts DEF NotifyThrows
<1>2. j \in Job /\ HasAttempts(j) /\ j.st \in {"waiting", "dead"}
  BY <1>1, JobSteps
<1>3. Moves(n, d, ledger[IdempotencyKey(n)], j, "idle", inbox[Message(n)], doubt[n], lost[n])
  BY NoticeFacts, NotificationsAssumption DEF Moves, NotifyThrows, At, Becomes, Fault
<1> HIDE DEF j
<1>4. Fits(n, d, ledger[IdempotencyKey(n)], j, "idle", inbox[Message(n)], doubt[n], lost[n])
  BY <1>1, <1>2, NoticeFacts, RowFacts DEF Fits, Holds
<1>5. inbox[Message(n)] \in Nat /\ doubt[n] \in Nat /\ lost[n] \in Nat
  BY NoticeFacts
<1> QED BY <1>2, <1>3, <1>4, <1>5, NoticeFacts, NoticeStep

\* The mail leaves.
LEMMA SendStep ==
  ASSUME NotificationsInv, NEW n \in Notices, NEW d \in Deliveries, NotifySend(n, d)
  PROVE  NotificationsInv'
<1> DEFINE j == Completed(mail[n][d])
<1>1. mail[n][d] \in Job /\ HasAttempts(mail[n][d]) /\ mail[n][d].st = "active" /\ step[n][d] = "send"
  BY NoticeFacts DEF NotifySend
<1>2. j \in Job /\ HasAttempts(j) /\ j.st = "done"
  BY <1>1, JobSteps
<1>3. Moves(n, d, ledger[IdempotencyKey(n)], j, "idle", inbox[Message(n)] + 1, doubt[n], lost[n])
  BY NoticeFacts, NotificationsAssumption DEF Moves, NotifySend, At, Becomes
<1> HIDE DEF j
<1>4. Fits(n, d, ledger[IdempotencyKey(n)], j, "idle", inbox[Message(n)] + 1, doubt[n], lost[n])
  BY <1>1, <1>2, NoticeFacts, RowFacts DEF Fits, Holds
<1>5. inbox[Message(n)] + 1 \in Nat /\ doubt[n] \in Nat /\ lost[n] \in Nat
  BY NoticeFacts
<1> QED BY <1>2, <1>3, <1>4, <1>5, NoticeFacts, NoticeStep

\* The claim is granted: the row was nobody's.
LEMMA ClaimStep ==
  ASSUME NotificationsInv, NEW n \in Notices, NEW d \in Deliveries, NotifyClaim(n, d),
         claim(IdempotencyKey(n))
  PROVE  NotificationsInv'
<1> DEFINE j == mail[n][d]
<1>1. mail[n][d] \in Job /\ HasAttempts(mail[n][d]) /\ mail[n][d].st = "active" /\ step[n][d] = "claim"
  BY NoticeFacts DEF NotifyClaim
<1>2. j \in Job /\ HasAttempts(j) /\ j.st = "active"
  BY <1>1, JobSteps
<1>3. Moves(n, d, "fresh", j, "send", inbox[Message(n)], doubt[n], lost[n])
  BY NoticeFacts, NotificationsAssumption DEF Moves, NotifyClaim, At, Becomes
<1> HIDE DEF j
<1>4. Fits(n, d, "fresh", j, "send", inbox[Message(n)], doubt[n], lost[n])
  BY <1>1, <1>2, NoticeFacts, RowFacts DEF Fits, Holds, claim
<1>5. inbox[Message(n)] \in Nat /\ doubt[n] \in Nat /\ lost[n] \in Nat
  BY NoticeFacts
<1> QED BY <1>2, <1>3, <1>4, <1>5, NoticeFacts, NoticeStep

\* The claim is refused: another job of the notice holds the row, or did.
LEMMA RefusedStep ==
  ASSUME NotificationsInv, NEW n \in Notices, NEW d \in Deliveries, NotifyClaim(n, d),
         ~claim(IdempotencyKey(n))
  PROVE  NotificationsInv'
<1> DEFINE j == Completed(mail[n][d])
<1>1. mail[n][d] \in Job /\ HasAttempts(mail[n][d]) /\ mail[n][d].st = "active" /\ step[n][d] = "claim"
  BY NoticeFacts DEF NotifyClaim
<1>2. j \in Job /\ HasAttempts(j) /\ j.st = "done"
  BY <1>1, JobSteps
<1>3. Moves(n, d, ledger[IdempotencyKey(n)], j, "idle", inbox[Message(n)], doubt[n], lost[n])
  BY NoticeFacts, NotificationsAssumption DEF Moves, NotifyClaim, At, Becomes
<1> HIDE DEF j
<1>4. Fits(n, d, ledger[IdempotencyKey(n)], j, "idle", inbox[Message(n)], doubt[n], lost[n])
  BY <1>1, <1>2, NoticeFacts, RowFacts DEF Fits, Holds, claim
<1>5. inbox[Message(n)] \in Nat /\ doubt[n] \in Nat /\ lost[n] \in Nat
  BY NoticeFacts
<1> QED BY <1>2, <1>3, <1>4, <1>5, NoticeFacts, NoticeStep

\* The mailer refuses the mail.
LEMMA SendRefusedStep ==
  ASSUME NotificationsInv, NEW n \in Notices, NEW d \in Deliveries, NotifySendFails(n, d),
         UNCHANGED <<inbox, doubt>>
  PROVE  NotificationsInv'
<1> DEFINE j == mail[n][d]
<1>1. mail[n][d] \in Job /\ HasAttempts(mail[n][d]) /\ mail[n][d].st = "active" /\ step[n][d] = "send"
  BY NoticeFacts DEF NotifySendFails
<1>2. j \in Job /\ HasAttempts(j) /\ j.st = "active"
  BY <1>1, JobSteps
<1>3. Moves(n, d, ledger[IdempotencyKey(n)], j, "release", inbox[Message(n)], doubt[n], lost[n])
  BY NoticeFacts, NotificationsAssumption DEF Moves, NotifySendFails, At, Becomes, Fault
<1> HIDE DEF j
<1>4. Fits(n, d, ledger[IdempotencyKey(n)], j, "release", inbox[Message(n)], doubt[n], lost[n])
  BY <1>1, <1>2, NoticeFacts, RowFacts DEF Fits, Holds
<1>5. inbox[Message(n)] \in Nat /\ doubt[n] \in Nat /\ lost[n] \in Nat
  BY NoticeFacts
<1> QED BY <1>2, <1>3, <1>4, <1>5, NoticeFacts, NoticeStep

\* The mail leaves and the call fails.
LEMMA SendCutOffStep ==
  ASSUME NotificationsInv, NEW n \in Notices, NEW d \in Deliveries, NotifySendFails(n, d),
         inbox' = [inbox EXCEPT ![Message(n)] = @ + 1],
         doubt' = [doubt EXCEPT ![n] = @ + 1]
  PROVE  NotificationsInv'
<1> DEFINE j == mail[n][d]
<1>1. mail[n][d] \in Job /\ HasAttempts(mail[n][d]) /\ mail[n][d].st = "active" /\ step[n][d] = "send"
  BY NoticeFacts DEF NotifySendFails
<1>2. j \in Job /\ HasAttempts(j) /\ j.st = "active"
  BY <1>1, JobSteps
<1>3. Moves(n, d, ledger[IdempotencyKey(n)], j, "release", inbox[Message(n)] + 1, doubt[n] + 1, lost[n])
  BY NoticeFacts, NotificationsAssumption DEF Moves, NotifySendFails, At, Becomes, Fault
<1> HIDE DEF j
<1>4. Fits(n, d, ledger[IdempotencyKey(n)], j, "release", inbox[Message(n)] + 1, doubt[n] + 1, lost[n])
  BY <1>1, <1>2, NoticeFacts, RowFacts DEF Fits, Holds
<1>5. inbox[Message(n)] + 1 \in Nat /\ doubt[n] + 1 \in Nat /\ lost[n] \in Nat
  BY NoticeFacts
<1> QED BY <1>2, <1>3, <1>4, <1>5, NoticeFacts, NoticeStep

\* The claim is given up.
LEMMA ReleaseStep ==
  ASSUME NotificationsInv, NEW n \in Notices, NEW d \in Deliveries, NotifyRelease(n, d),
         ledger' = release(IdempotencyKey(n)), UNCHANGED <<lost, faults>>
  PROVE  NotificationsInv'
<1> DEFINE j == Failed(mail[n][d])
<1>1. mail[n][d] \in Job /\ HasAttempts(mail[n][d]) /\ mail[n][d].st = "active" /\ step[n][d] = "release"
  BY NoticeFacts DEF NotifyRelease
<1>2. j \in Job /\ HasAttempts(j) /\ j.st \in {"waiting", "dead"}
  BY <1>1, JobSteps
<1>3. Moves(n, d, "none", j, "idle", inbox[Message(n)], doubt[n], lost[n])
  BY Zenon, NoticeFacts, NotificationsAssumption DEF Moves, NotifyRelease, At, Becomes, release
<1> HIDE DEF j
<1>4. Fits(n, d, "none", j, "idle", inbox[Message(n)], doubt[n], lost[n])
  BY <1>1, <1>2, NoticeFacts, RowFacts DEF Fits, Holds
<1>5. inbox[Message(n)] \in Nat /\ doubt[n] \in Nat /\ lost[n] \in Nat
  BY NoticeFacts
<1> QED BY Zenon, <1>2, <1>3, <1>4, <1>5, NoticeFacts, NoticeStep

\* Or it is not.
LEMMA ReleaseLostStep ==
  ASSUME NotificationsInv, NEW n \in Notices, NEW d \in Deliveries, NotifyRelease(n, d),
         Fault, lost' = [lost EXCEPT ![n] = @ + 1], UNCHANGED ledger
  PROVE  NotificationsInv'
<1> DEFINE j == Failed(mail[n][d])
<1>1. mail[n][d] \in Job /\ HasAttempts(mail[n][d]) /\ mail[n][d].st = "active" /\ step[n][d] = "release"
  BY NoticeFacts DEF NotifyRelease
<1>2. j \in Job /\ HasAttempts(j) /\ j.st \in {"waiting", "dead"}
  BY <1>1, JobSteps
<1>3. Moves(n, d, ledger[IdempotencyKey(n)], j, "idle", inbox[Message(n)], doubt[n], lost[n] + 1)
  BY SMTT(30), NoticeFacts, NotificationsAssumption DEF Moves, NotifyRelease, At, Becomes, Fault
<1> HIDE DEF j
<1>4. Fits(n, d, ledger[IdempotencyKey(n)], j, "idle", inbox[Message(n)], doubt[n], lost[n] + 1)
  BY <1>1, <1>2, NoticeFacts, RowFacts DEF Fits, Holds
<1>5. inbox[Message(n)] \in Nat /\ doubt[n] \in Nat /\ lost[n] + 1 \in Nat
  BY NoticeFacts
<1> QED BY <1>2, <1>3, <1>4, <1>5, NoticeFacts, NoticeStep

\* A worker dies that had claimed nothing.
LEMMA CrashEarlyStep ==
  ASSUME NotificationsInv, NEW n \in Notices, NEW d \in Deliveries, NotifyCrash(n, d),
         step[n][d] = "claim"
  PROVE  NotificationsInv'
<1> DEFINE j == Stalled(mail[n][d])
<1>1. mail[n][d] \in Job /\ HasAttempts(mail[n][d]) /\ mail[n][d].st = "active"
  BY NoticeFacts DEF NotifyCrash
<1>2. j \in Job /\ HasAttempts(j) /\ j.st = "waiting"
  BY <1>1, JobSteps
<1>3. Moves(n, d, ledger[IdempotencyKey(n)], j, "idle", inbox[Message(n)], doubt[n], lost[n])
  BY NoticeFacts, NotificationsAssumption DEF Moves, NotifyCrash, At, Becomes, Fault
<1> HIDE DEF j
<1>4. Fits(n, d, ledger[IdempotencyKey(n)], j, "idle", inbox[Message(n)], doubt[n], lost[n])
  BY <1>1, <1>2, NoticeFacts, RowFacts DEF Fits, Holds
<1>5. inbox[Message(n)] \in Nat /\ doubt[n] \in Nat /\ lost[n] \in Nat
  BY NoticeFacts
<1> QED BY <1>2, <1>3, <1>4, <1>5, NoticeFacts, NoticeStep

\* One dies with a claim, and no mail has left,
LEMMA CrashStep ==
  ASSUME NotificationsInv, NEW n \in Notices, NEW d \in Deliveries, NotifyCrash(n, d),
         step[n][d] # "claim", UNCHANGED inbox
  PROVE  NotificationsInv'
<1> DEFINE j == Stalled(mail[n][d])
<1>1. mail[n][d] \in Job /\ HasAttempts(mail[n][d]) /\ mail[n][d].st = "active"
  BY NoticeFacts DEF NotifyCrash
<1>2. j \in Job /\ HasAttempts(j) /\ j.st = "waiting"
  BY <1>1, JobSteps
<1>3. Moves(n, d, ledger[IdempotencyKey(n)], j, "idle", inbox[Message(n)], doubt[n], lost[n] + 1)
  BY SMTT(30), NoticeFacts, NotificationsAssumption DEF Moves, NotifyCrash, At, Becomes, Fault
<1> HIDE DEF j
<1>4. Fits(n, d, ledger[IdempotencyKey(n)], j, "idle", inbox[Message(n)], doubt[n], lost[n] + 1)
  BY <1>1, <1>2, NoticeFacts, RowFacts DEF Fits, Holds
<1>5. inbox[Message(n)] \in Nat /\ doubt[n] \in Nat /\ lost[n] + 1 \in Nat
  BY NoticeFacts
<1> QED BY <1>2, <1>3, <1>4, <1>5, NoticeFacts, NoticeStep

\* or the mail has.
LEMMA CrashLateStep ==
  ASSUME NotificationsInv, NEW n \in Notices, NEW d \in Deliveries, NotifyCrash(n, d),
         step[n][d] = "send", inbox' = [inbox EXCEPT ![Message(n)] = @ + 1]
  PROVE  NotificationsInv'
<1> DEFINE j == Stalled(mail[n][d])
<1>1. mail[n][d] \in Job /\ HasAttempts(mail[n][d]) /\ mail[n][d].st = "active"
  BY NoticeFacts DEF NotifyCrash
<1>2. j \in Job /\ HasAttempts(j) /\ j.st = "waiting"
  BY <1>1, JobSteps
<1>3. Moves(n, d, ledger[IdempotencyKey(n)], j, "idle", inbox[Message(n)] + 1, doubt[n], lost[n] + 1)
  BY SMTT(30), NoticeFacts, NotificationsAssumption DEF Moves, NotifyCrash, At, Becomes, Fault
<1> HIDE DEF j
<1>4. Fits(n, d, ledger[IdempotencyKey(n)], j, "idle", inbox[Message(n)] + 1, doubt[n], lost[n] + 1)
  BY <1>1, <1>2, NoticeFacts, RowFacts DEF Fits, Holds
<1>5. inbox[Message(n)] + 1 \in Nat /\ doubt[n] \in Nat /\ lost[n] + 1 \in Nat
  BY NoticeFacts
<1> QED BY <1>2, <1>3, <1>4, <1>5, NoticeFacts, NoticeStep

\* The retention passes for a row whose jobs are all over.
LEMMA RetentionStep ==
  ASSUME NotificationsInv, NEW n \in Notices, RetentionPasses(n)
  PROVE  NotificationsInv'
<1>1. /\ ledger \in [Keys -> {"none", "fresh", "old", "pruned"}] /\ ledger[IdempotencyKey(n)] = "fresh"
      /\ ledger' = [ledger EXCEPT ![IdempotencyKey(n)] = "old"] /\ AllSettled(n)
      /\ UNCHANGED <<mail, step, inbox, doubt, lost, pruner, faults>>
  BY DEF NotificationsInv, NotificationsTypeOK, RetentionPasses
<1>2. /\ ledger' \in [Keys -> {"none", "fresh", "old", "pruned"}] /\ ledger'[IdempotencyKey(n)] = "old"
      /\ \A k \in Keys : ledger[k] = "old" => ledger'[k] = "old"
      /\ \A m \in Notices : m # n => ledger'[IdempotencyKey(m)] = ledger[IdempotencyKey(m)]
  BY <1>1, OwnKey
<1>3. NotificationsTypeOK' /\ MailedOnce'
  <2>1. NotificationsTypeOK'
    BY <1>1, <1>2 DEF NotificationsInv, NotificationsTypeOK
  <2>2. MailedOnce'
    BY <1>1 DEF NotificationsInv, MailedOnce
  <2> QED BY <2>1, <2>2
<1>4. ASSUME NEW m \in Notices PROVE RowIsExplained(m)'
  <2>1. RowIsExplained(m)
    BY Zenon DEF NotificationsInv
  <2>2. CASE m = n
    <3>1. \A d \in Deliveries : ~Holds(n, d)
      BY ZenonT(30), <1>1, RowFacts DEF AllSettled
    <3> QED BY Zenon, <1>1, <1>2, <2>1, <2>2, <3>1 DEF RowIsExplained, Holds, AllSettled
  <2>3. CASE m # n
    BY <1>1, <1>2, <2>1, <2>3 DEF RowIsExplained, Holds, AllSettled
  <2> QED BY <2>2, <2>3
<1>5. pruner'.at = "delete" => \A k \in pruner'.rows : ledger'[k] = "old"
  BY <1>1, <1>2 DEF NotificationsInv, NotificationsTypeOK
<1> QED BY <1>1, <1>3, <1>4, <1>5 DEF NotificationsInv

\* The prune takes rows that are old, and whose jobs are over.
LEMMA LedgerPruneStep ==
  ASSUME NotificationsInv, PruneStart \/ PruneSelect \/ PruneDelete
  PROVE  NotificationsInv'
<1>1. UNCHANGED <<mail, step, inbox, doubt, lost, faults>>
  BY Zenon DEF PruneStart, PruneSelect, PruneDelete
<1>2. pruner \in [at : {"idle", "select", "delete"}, pass : 0..PrunePasses, rows : SUBSET Keys]
  BY DEF NotificationsInv, NotificationsTypeOK
<1>3. CASE PruneStart \/ PruneSelect
  <2>1. ledger' = ledger
    BY Zenon, <1>3 DEF PruneStart, PruneSelect
  <2>2. /\ pruner' \in [at : {"idle", "select", "delete"}, pass : 0..PrunePasses, rows : SUBSET Keys]
        /\ pruner'.at # "idle" => pruner'.pass < PrunePasses
        /\ pruner'.at = "delete" => \A k \in pruner'.rows : ledger[k] = "old"
    <3>1. CASE PruneStart
      BY <3>1, NotificationsAssumption DEF PruneStart
    <3>2. CASE PruneSelect
      <4>1. PICK rows \in SUBSET {k \in Keys : ledger[k] = "old"} :
              pruner' = IF rows = {} THEN [pruner EXCEPT !.at = "idle"]
                                     ELSE [pruner EXCEPT !.at = "delete", !.rows = rows]
        BY Zenon, <3>2 DEF PruneSelect
      <4>2. pruner.pass < PrunePasses
        BY Zenon, <3>2 DEF PruneSelect, NotificationsInv
      <4> QED BY Zenon, <1>2, <4>1, <4>2
    <3> QED BY <1>3, <3>1, <3>2
  <2>3. NotificationsTypeOK' /\ MailedOnce'
    BY ZenonT(30), <1>1, <2>1, <2>2 DEF NotificationsInv, NotificationsTypeOK, MailedOnce
  <2>4. \A n \in Notices : RowIsExplained(n)'
    BY <1>1, <2>1 DEF NotificationsInv, RowIsExplained, Holds, AllSettled
  <2> QED BY SMTT(30), <1>1, <2>1, <2>2, <2>3, <2>4 DEF NotificationsInv
<1>4. CASE PruneDelete
  <2>1. /\ ledger' = [k \in Keys |-> IF k \in pruner.rows THEN "pruned" ELSE ledger[k]]
        /\ \A k \in pruner.rows : ledger[k] = "old"
        /\ ledger \in [Keys -> {"none", "fresh", "old", "pruned"}]
    BY <1>4 DEF PruneDelete, NotificationsInv, NotificationsTypeOK
  <2>2. /\ ledger' \in [Keys -> {"none", "fresh", "old", "pruned"}]
        /\ \A k \in Keys : \/ ledger'[k] = ledger[k]
                           \/ ledger[k] = "old" /\ ledger'[k] = "pruned"
    BY <2>1
  <2>3. /\ pruner' \in [at : {"idle", "select", "delete"}, pass : 0..PrunePasses, rows : SUBSET Keys]
        /\ pruner'.at # "idle" => pruner'.pass < PrunePasses
        /\ pruner'.at # "delete"
    <3>1. pruner.pass < PrunePasses
      BY <1>4 DEF PruneDelete, NotificationsInv
    <3>2. \E p \in BOOLEAN : pruner' = [at |-> IF p \/ pruner.pass + 1 = PrunePasses THEN "idle" ELSE "select",
                                       pass |-> pruner.pass + 1, rows |-> {}]
      BY Zenon, <1>4 DEF PruneDelete
    <3> QED BY <1>2, <3>1, <3>2, NotificationsAssumption
  <2>4. NotificationsTypeOK' /\ MailedOnce'
    <3>1. NotificationsTypeOK'
      BY SMTT(30), <1>1, <2>2, <2>3 DEF NotificationsInv, NotificationsTypeOK
    <3>2. MailedOnce'
      BY Zenon, <1>1, <2>2 DEF NotificationsInv, MailedOnce
    <3> QED BY Zenon, <3>1, <3>2
  <2>5. ASSUME NEW n \in Notices PROVE RowIsExplained(n)'
    <3>1. RowIsExplained(n)
      BY DEF NotificationsInv
    <3>2. \/ ledger'[IdempotencyKey(n)] = ledger[IdempotencyKey(n)]
          \/ ledger[IdempotencyKey(n)] = "old" /\ ledger'[IdempotencyKey(n)] = "pruned"
      BY Zenon, <2>2, OwnKey
    <3>3. \A d \in Deliveries : Holds(n, d)' <=> Holds(n, d)
      BY Zenon, <1>1 DEF Holds
    <3>4. AllSettled(n)' <=> AllSettled(n)
      BY <1>1 DEF AllSettled
    <3> QED BY <1>1, <3>1, <3>2, <3>3, <3>4 DEF RowIsExplained
  <2> QED BY ZenonT(30), <1>1, <2>3, <2>4, <2>5 DEF NotificationsInv
<1> QED BY Zenon, <1>3, <1>4

\* The invariant of the ledger, for any number of notices, jobs and faults.
THEOREM NotificationsInvariant == NotificationsSpec => []NotificationsInv
<1>1. NotificationsInit => NotificationsInv
  <2> SUFFICES ASSUME NotificationsInit PROVE NotificationsInv
    OBVIOUS
  <2> USE DEF NotificationsInit
  <2>1. NotificationsTypeOK
    BY JobSteps, NotificationsAssumption DEF NotificationsTypeOK
  <2>2. MailedOnce
    BY OwnKey, JobSteps DEF MailedOnce
  <2>3. ASSUME NEW n \in Notices PROVE RowIsExplained(n)
    BY OwnKey DEF RowIsExplained, Holds
  <2> QED BY Zenon, <2>1, <2>2, <2>3, JobSteps DEF NotificationsInv
<1>2. ASSUME NotificationsInv, NEW n \in Notices, NEW d \in Deliveries, Worker(n, d)
      PROVE  NotificationsInv'
  <2>1. ASSUME NotifyClaim(n, d) PROVE NotificationsInv'
    BY SMTT(30), <1>2, <2>1, ClaimStep, RefusedStep
  <2>2. ASSUME NotifySendFails(n, d) PROVE NotificationsInv'
    BY Zenon, <1>2, <2>2, SendRefusedStep, SendCutOffStep DEF NotifySendFails
  <2>3. ASSUME NotifyRelease(n, d) PROVE NotificationsInv'
    BY SMTT(30), <1>2, <2>3, ReleaseStep, ReleaseLostStep DEF NotifyRelease
  <2>4. ASSUME NotifyCrash(n, d) PROVE NotificationsInv'
    BY Zenon, <1>2, <2>4, CrashEarlyStep, CrashStep, CrashLateStep DEF NotifyCrash
  <2> QED BY <1>2, <2>1, <2>2, <2>3, <2>4, HandleStep, SendStep, ThrowsStep DEF Worker
<1>3. NotificationsInv /\ NotificationsNext => NotificationsInv'
  BY <1>2, DeliverStep, RetentionStep, LedgerPruneStep, ZenonT(30) DEF NotificationsNext
<1>4. NotificationsInv /\ UNCHANGED notificationsVars => NotificationsInv'
  BY DEF NotificationsInv, NotificationsTypeOK, MailedOnce, RowIsExplained, Holds, AllSettled,
         notificationsVars
<1> QED BY <1>1, <1>3, <1>4, PTL DEF NotificationsSpec

\* A mail leaves once, whatever jobs, workers, crashes and prunes do, except once
\* more for every call that failed after the mail had left.
THEOREM MailIsSentOnce == NotificationsSpec => []MailedOnce
<1>1. NotificationsInv => MailedOnce
  BY DEF NotificationsInv
<1> QED BY <1>1, NotificationsInvariant, PTL

-----------------------------------------------------------------------------
(* Ranks.                                                                  *)

\* A strict total order on the set S, as a set of pairs.
Orders(R, S) ==
  /\ \A x \in S : <<x, x>> \notin R
  /\ \A x, y \in S : x # y => <<x, y>> \in R \/ <<y, x>> \in R
  /\ \A x, y, z \in S : <<x, y>> \in R /\ <<y, z>> \in R => <<x, z>> \in R

Before(R, S, k) == {x \in S : <<x, k>> \in R}

\* In a finite set that is strictly ordered, an element comes after another
\* exactly when more elements come before it, and every place is taken.
LEMMA Ranks ==
  ASSUME NEW S, NEW R, IsFiniteSet(S), Orders(R, S)
  PROVE  /\ Cardinality(S) \in Nat
         /\ \A k \in S : Cardinality(Before(R, S, k)) \in 0..(Cardinality(S) - 1)
         /\ \A k, l \in S : <<k, l>> \in R =>
                              Cardinality(Before(R, S, k)) < Cardinality(Before(R, S, l))
         /\ \A n \in 1..Cardinality(S) : \E k \in S : Cardinality(Before(R, S, k)) = n - 1
<1> DEFINE B(k) == Before(R, S, k)
           N == Cardinality(S)
           f == [k \in S |-> Cardinality(B(k))]
<1>1. N \in Nat
  BY FS_CardinalityType
<1>2. \A k \in S : B(k) \subseteq S /\ k \notin B(k) /\ IsFiniteSet(B(k)) /\ Cardinality(B(k)) \in Nat
  <2> TAKE k \in S
  <2>1. B(k) \subseteq S /\ k \notin B(k)
    BY DEF Before, Orders
  <2>2. IsFiniteSet(B(k))
    BY <2>1, FS_Subset
  <2> QED BY <2>1, <2>2, FS_CardinalityType
<1>3. \A k \in S : Cardinality(B(k)) \in 0..(N - 1)
  <2> TAKE k \in S
  <2>1. B(k) # S /\ Cardinality(B(k)) <= N /\ (Cardinality(B(k)) = N => B(k) = S)
    BY <1>2, FS_Subset
  <2> HIDE DEF B, N
  <2> QED BY <1>1, <1>2, <2>1
<1>4. \A k, l \in S : <<k, l>> \in R => Cardinality(B(k)) < Cardinality(B(l))
  <2> SUFFICES ASSUME NEW k \in S, NEW l \in S, <<k, l>> \in R
               PROVE  Cardinality(B(k)) < Cardinality(B(l))
    OBVIOUS
  <2>1. B(k) \subseteq B(l) /\ k \in B(l) /\ B(k) # B(l)
    <3>1. B(k) \subseteq B(l) /\ k \in B(l)
      BY DEF Before, Orders
    <3> QED BY <1>2, <3>1
  <2>2. Cardinality(B(k)) <= Cardinality(B(l)) /\ Cardinality(B(k)) # Cardinality(B(l))
    BY <1>2, <2>1, FS_Subset
  <2> HIDE DEF B
  <2> QED BY <1>2, <2>2
<1>5. f \in Injection(S, 0..(N - 1))
  <2>1. f \in [S -> 0..(N - 1)]
    BY <1>3
  <2>2. \A k, l \in S : f[k] = f[l] => k = l
    <3> SUFFICES ASSUME NEW k \in S, NEW l \in S, f[k] = f[l], k # l PROVE FALSE
      OBVIOUS
    <3>1. Cardinality(B(k)) = Cardinality(B(l)) /\ Cardinality(B(k)) \in Nat
      BY <1>2
    <3>2. Cardinality(B(k)) < Cardinality(B(l)) \/ Cardinality(B(l)) < Cardinality(B(k))
      BY Zenon, <1>4 DEF Orders
    <3> HIDE DEF B
    <3> QED BY <3>1, <3>2
  <2> HIDE DEF f, N
  <2> QED BY <2>1, <2>2 DEF Injection, IsInjective
<1>6. IsFiniteSet(0..(N - 1)) /\ Cardinality(0..(N - 1)) = N
  <2> HIDE DEF N
  <2>1. IsFiniteSet(0..(N - 1)) /\ Cardinality(0..(N - 1)) = IF 0 > N - 1 THEN 0 ELSE (N - 1) - 0 + 1
    BY <1>1, FS_Interval
  <2> QED BY <1>1, <2>1
<1>7. f \in Surjection(S, 0..(N - 1))
  <2> HIDE DEF f, N
  <2>1. \/ Cardinality(S) # Cardinality(0..(N - 1))
        \/ f \in Surjection(S, 0..(N - 1))
    BY <1>5, <1>6, FS_Injection
  <2> QED BY <1>6, <2>1 DEF N
<1>8. \A n \in 1..N : \E k \in S : Cardinality(B(k)) = n - 1
  <2> TAKE n \in 1..N
  <2>1. n - 1 \in 0..(N - 1)
    <3> HIDE DEF N
    <3> QED BY <1>1
  <2>2. PICK k \in S : f[k] = n - 1
    <3> HIDE DEF f, N
    <3> QED BY <1>7, <2>1 DEF Surjection
  <2> QED BY <2>2
<1> QED BY <1>1, <1>3, <1>4, <1>8

-----------------------------------------------------------------------------
(* Pages.                                                                  *)

\* Rows with a time and an id, no two of them with the same.
Keyed(K) ==
  /\ \A k \in K : k.ts \in Nat /\ k.id \in Nat
  /\ \A k, l \in K : k.ts = l.ts /\ k.id = l.id => k = l

NewerPairs(K) == {p \in K \X K : Newer(p[1], p[2])}

\* The order of the lists is strict and total on such rows.
LEMMA NewerOrders ==
  ASSUME NEW K, Keyed(K)
  PROVE  /\ Orders(NewerPairs(K), K)
         /\ \A x, y \in K : <<x, y>> \in NewerPairs(K) <=> Newer(x, y)
         /\ \A k \in K : Before(NewerPairs(K), K, k) = {x \in K : Newer(x, k)}
<1>1. \A x, y \in K : <<x, y>> \in NewerPairs(K) <=> Newer(x, y)
  BY DEF NewerPairs
<1>2. \A x \in K : ~Newer(x, x)
  BY DEF Newer, Keyed
<1>3. \A x, y \in K : x # y => Newer(x, y) \/ Newer(y, x)
  BY DEF Newer, Keyed
<1>4. \A x, y, z \in K : Newer(x, y) /\ Newer(y, z) => Newer(x, z)
  BY DEF Newer, Keyed
<1>5. Orders(NewerPairs(K), K)
  BY Zenon, <1>1, <1>2, <1>3, <1>4 DEF Orders
<1>6. \A k \in K : Before(NewerPairs(K), K, k) = {x \in K : Newer(x, k)}
  BY <1>1 DEF Before
<1> QED BY Zenon, <1>1, <1>5, <1>6

\* ORDER BY ... LIMIT n returns n rows or all there are, newest first, and what
\* it leaves out is older than all it returns.
LEMMA OrderedFacts ==
  ASSUME NEW K, Keyed(K), IsFiniteSet(K), NEW n \in Nat
  PROVE  /\ Ordered(K, n) \in Seq(K)
         /\ Len(Ordered(K, n)) <= n
         /\ NewestFirst(Ordered(K, n))
         /\ \A k \in K : \/ k \in RowsOf(Ordered(K, n))
                         \/ /\ Len(Ordered(K, n)) = n
                            /\ \A i \in DOMAIN Ordered(K, n) : Newer(Ordered(K, n)[i], k)
<1> DEFINE rank(k) == Cardinality({x \in K : Newer(x, k)})
           N == Cardinality(K)
           len == IF N < n THEN N ELSE n
           s == Ordered(K, n)
<1>1. /\ N \in Nat
      /\ \A k \in K : rank(k) \in 0..(N - 1)
      /\ \A k, l \in K : Newer(k, l) => rank(k) < rank(l)
      /\ \A i \in 1..N : \E k \in K : rank(k) = i - 1
  <2> DEFINE R == NewerPairs(K)
  <2>1. \A k \in K : rank(k) = Cardinality(Before(R, K, k))
    BY Zenon, NewerOrders
  <2>2. Orders(R, K) /\ \A k, l \in K : Newer(k, l) => <<k, l>> \in R
    BY Zenon, NewerOrders
  <2> HIDE DEF R, rank
  <2>3. /\ N \in Nat
        /\ \A k \in K : Cardinality(Before(R, K, k)) \in 0..(N - 1)
        /\ \A k, l \in K : <<k, l>> \in R => Cardinality(Before(R, K, k)) < Cardinality(Before(R, K, l))
        /\ \A i \in 1..N : \E k \in K : Cardinality(Before(R, K, k)) = i - 1
    BY Zenon, <2>2, Ranks
  <2> QED BY Zenon, <2>1, <2>2, <2>3
<1>2. s = [i \in 1..len |-> CHOOSE k \in K : rank(k) = i - 1]
  BY DEF Ordered
<1>3. \A k, l \in K : k # l => Newer(k, l) \/ Newer(l, k)
  BY DEF Newer, Keyed
<1> HIDE DEF rank, N, s
<1>4. len \in Nat /\ len <= N /\ len <= n /\ (len # n => len = N)
  BY <1>1
<1>5. \A k, l \in K : (rank(k) = rank(l) => k = l) /\ (rank(k) < rank(l) => Newer(k, l))
  BY <1>1, <1>3
<1>6. \A i \in 1..len : s[i] \in K /\ rank(s[i]) = i - 1
  <2> TAKE i \in 1..len
  <2>1. \E k \in K : rank(k) = i - 1
    BY <1>1, <1>4
  <2>2. s[i] = CHOOSE k \in K : rank(k) = i - 1
    BY <1>2
  <2> QED BY Zenon, <2>1, <2>2
<1> HIDE DEF len
<1>7. s \in Seq(K) /\ Len(s) = len /\ DOMAIN s = 1..len
  BY <1>2, <1>4, <1>6
<1>8. NewestFirst(s)
  BY <1>4, <1>5, <1>6, <1>7 DEF NewestFirst
<1>9. \A k \in K : k \in RowsOf(s) \/ (len = n /\ \A i \in DOMAIN s : Newer(s[i], k))
  <2> TAKE k \in K
  <2>1. CASE rank(k) < len
    <3>1. rank(k) + 1 \in 1..len /\ rank(k) = (rank(k) + 1) - 1
      BY <1>1, <1>4, <2>1
    <3>2. s[rank(k) + 1] = k
      BY <1>5, <1>6, <3>1
    <3> QED BY <1>7, <3>1, <3>2 DEF RowsOf
  <2>2. CASE ~(rank(k) < len)
    <3>1. len = n
      BY <1>1, <1>4, <2>2
    <3>2. \A i \in 1..len : rank(s[i]) < rank(k)
      BY <1>1, <1>4, <1>6, <2>2
    <3> QED BY <1>5, <1>6, <1>7, <3>1, <3>2
  <2> QED BY <2>1, <2>2
<1> QED BY <1>4, <1>7, <1>8, <1>9 DEF s

\* The rows after the cursor are those that the walk has all its rows before.
LEMMA AfterIsAhead ==
  ASSUME NEW K, Keyed(K), NEW keys \in SUBSET K, NEW seen \in Seq(K), NewestFirst(seen),
         NEW cursor, AtCursor(seen, cursor)
  PROVE  After(keys, decodeOptionalCursor(cursor)) = {k \in keys : Ahead(seen, k)}
<1>1. CASE seen = <<>>
  BY <1>1 DEF AtCursor, After, decodeOptionalCursor, Ahead
<1>2. CASE seen # <<>>
  <2> DEFINE last == seen[Len(seen)]
  <2>1. Len(seen) \in DOMAIN seen /\ last \in K /\ \A i \in DOMAIN seen : i \in 1..Len(seen) /\ seen[i] \in K
    BY <1>2
  <2>2. decodeOptionalCursor(cursor) = encodeCursor(last) /\ encodeCursor(last) # NoCursor
        /\ encodeCursor(last).key = last
    BY <1>2 DEF AtCursor, decodeOptionalCursor, decodeCursor, encodeCursor, NoCursor
  <2>3. After(keys, decodeOptionalCursor(cursor)) = {k \in keys : Newer(last, k)}
    BY <2>2 DEF After
  <2>4. ASSUME NEW k \in keys, Newer(last, k), NEW i \in DOMAIN seen
        PROVE  Newer(seen[i], k)
    <3>1. CASE i = Len(seen)
      BY SMTT(30), <2>4, <3>1
    <3>2. CASE i # Len(seen)
      <4>1. Newer(seen[i], last) /\ seen[i] \in K /\ k \in K
        BY <2>1, <3>2 DEF NewestFirst
      <4> QED BY <2>1, <2>4, <4>1 DEF Newer, Keyed
    <3> QED BY <3>1, <3>2
  <2> HIDE DEF last
  <2>5. \A k \in keys : Newer(last, k) <=> Ahead(seen, k)
    BY <2>1, <2>4 DEF Ahead, last
  <2> QED BY <2>3, <2>5
<1> QED BY <1>1, <1>2

\* The first query of a page fetches what a walk that has missed nothing needs.
LEMMA FetchStep ==
  ASSUME NEW K, Keyed(K), NEW keys \in SUBSET K, IsFiniteSet(keys), NEW limit \in Nat,
         NEW seen, NEW cursor, NEW steady \in SUBSET keys, Walked(K, seen, cursor, steady)
  PROVE  Fetched(K, seen, PageOf(keys, decodeOptionalCursor(cursor), limit + 1), steady, limit)
<1> DEFINE ahead == {k \in keys : Ahead(seen, k)}
           rows == Ordered(ahead, limit + 1)
<1>1. PageOf(keys, decodeOptionalCursor(cursor), limit + 1) = rows
  <2>1. seen \in Seq(K) /\ NewestFirst(seen) /\ AtCursor(seen, cursor)
    BY DEF Walked
  <2>2. After(keys, decodeOptionalCursor(cursor)) = ahead
    BY <2>1, AfterIsAhead
  <2> HIDE DEF ahead
  <2> QED BY Zenon, <2>2 DEF PageOf
<1>2. IsFiniteSet(ahead) /\ Keyed(ahead) /\ ahead \subseteq K
  BY FS_Subset DEF Keyed
<1>3. /\ rows \in Seq(ahead) /\ Len(rows) <= limit + 1 /\ NewestFirst(rows)
      /\ \A k \in ahead : k \in RowsOf(rows) \/ (Len(rows) = limit + 1 /\ \A i \in DOMAIN rows : Newer(rows[i], k))
  <2> HIDE DEF ahead
  <2>1. limit + 1 \in Nat
    OBVIOUS
  <2> QED BY Zenon, <1>2, <2>1, OrderedFacts
<1>4. \A k \in steady : k \in RowsOf(seen) \/ k \in ahead
  BY DEF Walked
<1>5. \A i \in DOMAIN rows : Ahead(seen, rows[i])
  <2> HIDE DEF rows
  <2> QED BY <1>3
<1> HIDE DEF rows, ahead
<1>6. rows \in Seq(K)
  BY SMTT(30), <1>2, <1>3
<1> QED BY <1>1, <1>3, <1>4, <1>5, <1>6 DEF Fetched, Ahead

\* A page in answer to such a query leaves such a walk behind, or has ended it.
LEMMA AnswerStep ==
  ASSUME NEW K, Keyed(K), NEW limit \in Nat \ {0}, NEW seen, NEW cursor, NEW steady, NEW rows,
         Walked(K, seen, cursor, steady), Fetched(K, seen, rows, steady, limit),
         NEW page, page = buildListResponse(rows, limit)
  PROVE  /\ seen \o page.data \in Seq(K) /\ NewestFirst(seen \o page.data)
         /\ page.hasMore => Walked(K, seen \o page.data, page.lastCursor, steady)
         /\ ~page.hasMore => steady \subseteq RowsOf(seen \o page.data)
<1> DEFINE data == page.data
           all == seen \o data
           S == Len(seen)
           R == Len(rows)
           len == IF R < limit THEN R ELSE limit
<1>1. /\ data = [i \in 1..len |-> rows[i]]
      /\ page.hasMore => R > limit
      /\ ~page.hasMore => ~(R > limit)
      /\ data # <<>> => page.lastCursor = encodeCursor(data[Len(data)])
  BY Zenon DEF buildListResponse, take
<1>a. (R < limit => len = R) /\ (~(R < limit) => len = limit)
  BY Zenon
<1>2. /\ rows \in Seq(K) /\ R \in Nat /\ R <= limit + 1 /\ DOMAIN rows = 1..R
      /\ seen \in Seq(K) /\ S \in Nat /\ DOMAIN seen = 1..S
  BY DEF Fetched, Walked
<1> HIDE DEF data, len, S, R
<1>b. /\ len \in Nat /\ len <= R
      /\ R > limit => len = limit /\ R = limit + 1 /\ limit \in 1..len
      /\ ~(R > limit) => len = R /\ R # limit + 1
  BY <1>2, <1>a
<1>3. data \in Seq(K) /\ Len(data) = len /\ DOMAIN data = 1..len
      /\ \A i \in 1..len : data[i] = rows[i] /\ i \in DOMAIN rows
  <2>1. \A i \in 1..len : i \in DOMAIN rows /\ rows[i] \in K
    BY <1>2, <1>b
  <2> QED BY <1>1, <1>b, <2>1
<1>4. /\ all \in Seq(K) /\ Len(all) = S + len /\ DOMAIN all = 1..(S + len)
      /\ \A i \in 1..S : all[i] = seen[i]
      /\ \A i \in 1..len : all[S + i] = data[i]
      /\ \A i \in DOMAIN all : i \in 1..S \/ \E j \in 1..len : i = S + j
  <2>1. all \in Seq(K) /\ Len(all) = S + len /\ DOMAIN all = 1..(S + len)
    <3>1. all \in Seq(K)
      BY <1>2, <1>3
    <3>2. Len(all) = Len(seen) + Len(data)
      BY <1>2, <1>3
    <3>3. Len(all) = S + len
      BY Zenon, <1>3, <3>2 DEF S
    <3>4. DOMAIN all = 1..Len(all)
      BY <3>1
    <3> HIDE DEF all
    <3> QED BY Zenon, <3>1, <3>3, <3>4
  <2>2. \A i \in 1..S : all[i] = seen[i]
    BY <1>2, <1>3 DEF S
  <2>3. \A i \in 1..len : all[S + i] = data[i]
    BY <1>2, <1>3 DEF S
  <2>4. \A i \in 1..(S + len) : i \in 1..S \/ \E j \in 1..len : i = S + j
    <3> TAKE i \in 1..(S + len)
    <3>1. CASE i <= S
      BY <1>2, <3>1
    <3>2. CASE ~(i <= S)
      <4>1. i - S \in 1..len /\ i = S + (i - S)
        BY SMTT(30), <1>2, <1>b, <3>2
      <4> QED BY <4>1
    <3> QED BY <3>1, <3>2
  <2> HIDE DEF all
  <2> QED BY Zenon, <2>1, <2>2, <2>3, <2>4
<1> HIDE DEF all
<1>5. NewestFirst(all)
  <2> SUFFICES ASSUME NEW i \in DOMAIN all, NEW j \in DOMAIN all, i < j PROVE Newer(all[i], all[j])
    BY ZenonT(30) DEF NewestFirst
  <2>1. CASE j \in 1..S
    BY SMTT(30), <1>2, <1>4, <2>1 DEF Walked, NewestFirst
  <2>2. ASSUME NEW m \in 1..len, j = S + m PROVE Newer(all[i], all[j])
    <3>1. all[j] = rows[m] /\ m \in DOMAIN rows
      BY Zenon, <1>3, <1>4, <2>2
    <3>2. CASE i \in 1..S
      BY ZenonT(30), <1>2, <1>4, <3>1, <3>2 DEF Fetched, Ahead
    <3>3. ASSUME NEW n \in 1..len, i = S + n PROVE Newer(all[i], all[j])
      <4>1. all[i] = rows[n] /\ n \in DOMAIN rows /\ n < m
        BY SMTT(30), <1>2, <1>3, <1>4, <2>2, <3>3
      <4> QED BY Zenon, <3>1, <4>1 DEF Fetched, NewestFirst
    <3> QED BY Zenon, <1>4, <3>2, <3>3
  <2> QED BY <1>4, <2>1, <2>2
<1>6. RowsOf(seen) \subseteq RowsOf(all) /\ RowsOf(data) \subseteq RowsOf(all)
  <2>1. \A i \in DOMAIN seen : i \in DOMAIN all /\ all[i] = seen[i]
    <3>1. \A i \in 1..S : i \in 1..(S + len)
      BY SMTT(30), <1>2, <1>b
    <3> QED BY Zenon, <1>2, <1>4, <3>1
  <2>2. \A i \in DOMAIN data : S + i \in DOMAIN all /\ all[S + i] = data[i]
    BY <1>2, <1>3, <1>4
  <2> QED BY <2>1, <2>2 DEF RowsOf
<1>7. ASSUME ~page.hasMore PROVE steady \subseteq RowsOf(all)
  <2>1. len = R /\ R # limit + 1
    BY Zenon, <1>1, <1>b, <1>7
  <2>2. RowsOf(rows) \subseteq RowsOf(data)
    BY ZenonT(30), <1>2, <1>3, <2>1 DEF RowsOf
  <2> QED BY Zenon, <1>6, <2>1, <2>2 DEF Fetched, R
<1>8. ASSUME page.hasMore PROVE Walked(K, all, page.lastCursor, steady)
  <2>1. len = limit /\ R = limit + 1 /\ limit \in 1..len
    BY Zenon, <1>1, <1>b, <1>8
  <2>2. data # <<>> /\ all # <<>> /\ all[Len(all)] = data[limit] /\ Len(data) = limit
    BY <1>2, <1>3, <1>4, <2>1
  <2>3. AtCursor(all, page.lastCursor)
    BY ZenonT(30), <1>1, <1>3, <1>4, <2>2 DEF AtCursor
  <2>4. ASSUME NEW k, Ahead(seen, k), \A i \in 1..limit : Newer(rows[i], k)
        PROVE  Ahead(all, k)
    <3> SUFFICES ASSUME NEW i \in DOMAIN all PROVE Newer(all[i], k)
      BY Zenon DEF Ahead
    <3>1. CASE i \in 1..S
      BY Zenon, <1>2, <1>4, <2>4, <3>1 DEF Ahead
    <3>2. ASSUME NEW j \in 1..len, i = S + j PROVE Newer(all[i], k)
      <4>1. all[i] = rows[j] /\ j \in 1..limit
        BY ZenonT(30), <1>3, <1>4, <2>1, <3>2
      <4> QED BY Zenon, <2>4, <4>1
    <3> QED BY <1>4, <3>1, <3>2
  <2>5. \A k \in steady : k \in RowsOf(all) \/ Ahead(all, k)
    <3> TAKE k \in steady
    <3>1. CASE k \in RowsOf(seen)
      BY <1>6, <3>1
    <3>2. ASSUME NEW m \in DOMAIN rows, k = rows[m] PROVE k \in RowsOf(all) \/ Ahead(all, k)
      <4>1. CASE m \in 1..len
        BY Zenon, <1>3, <1>6, <3>2, <4>1 DEF RowsOf
      <4>2. CASE m \notin 1..len
        <5>1. m = limit + 1 /\ k \in K
          BY <1>2, <2>1, <3>2, <4>2
        <5>2. \A i \in 1..limit : Newer(rows[i], k)
          BY <1>2, <2>1, <3>2, <5>1 DEF Fetched, NewestFirst
        <5>3. Ahead(seen, k)
          BY <3>2 DEF Fetched
        <5> QED BY <2>4, <5>1, <5>2, <5>3
      <4> QED BY SMTT(30), <4>1, <4>2
    <3>3. CASE k \notin RowsOf(seen) /\ k \notin RowsOf(rows)
      <4>1. Ahead(rows, k) /\ Ahead(seen, k)
        BY ZenonT(30), <3>3 DEF Fetched, Walked
      <4>2. \A i \in 1..limit : Newer(rows[i], k)
        BY <1>2, <2>1, <4>1 DEF Ahead
      <4> QED BY <2>4, <4>1, <4>2
    <3> QED BY <3>1, <3>2, <3>3 DEF RowsOf
  <2> QED BY <1>4, <1>5, <2>3, <2>5 DEF Walked
<1> QED BY <1>4, <1>5, <1>7, <1>8 DEF all, data

\* Of fewer rows it is all the more true that none is missed.
LEMMA MissedNone ==
  ASSUME NEW K, NEW seen, NEW cursor, NEW rows, NEW limit, NEW A, NEW B \in SUBSET A
  PROVE  /\ Walked(K, seen, cursor, A) => Walked(K, seen, cursor, B)
         /\ Fetched(K, seen, rows, A, limit) => Fetched(K, seen, rows, B, limit)
BY Zenon DEF Walked, Fetched

\* Nothing seen, nothing missed.
LEMMA NothingMissed ==
  ASSUME NEW K, NEW steady PROVE Walked(K, <<>>, NoCursor, steady)
<1>1. <<>> \in Seq(K) /\ DOMAIN <<>> = {}
  OBVIOUS
<1>2. NewestFirst(<<>>) /\ \A k : Ahead(<<>>, k)
  BY Zenon, <1>1 DEF NewestFirst, Ahead
<1> QED BY Zenon, <1>1, <1>2 DEF Walked, AtCursor

-----------------------------------------------------------------------------
(* The walk over the trail.                                                *)

\* The entries have distinct keys.
LEMMA EntriesAreKeyed == Keyed(Entries)
<1> SUFFICES ASSUME NEW e \in Events, NEW f \in Events
             PROVE  /\ e.ts \in Nat /\ e.id \in Nat
                    /\ e.ts = f.ts /\ e.id = f.id => e = f
  BY DEF Keyed, Entries
<1> QED BY AuditAssumption

\* Whatever is recorded and pruned around it, a page leaves a walk that has missed
\* nothing that is still there.
LEMMA WalkStep ==
  ASSUME TrailInv, WalkInv, TrailInv', [AuditNext]_auditVars
  PROVE  WalkInv'
<1>0. /\ DOMAIN walk = {"at", "org", "cursor", "seen", "steady"}
      /\ walk.at \in {"idle", "page", "end", "refused"} /\ PageLimit \in Nat \ {0}
  BY AuditAssumption DEF TrailInv, AuditTypeOK
<1>1. ASSUME IsFiniteSet(trail'), trail \subseteq trail', walk' = walk PROVE WalkInv'
  <2>1. Visible(walk.org) \subseteq Visible(walk.org)'
    BY <1>1 DEF Visible
  <2> QED BY Zenon, <1>1, <2>1 DEF WalkInv, AuditWalkComplete
<1>2. ASSUME NEW e \in Events, NEW d \in Redeliveries,
             AuditDeliver(e, d) \/ Recorder(e, d) \/ RecordCrash(e, d)
      PROVE  WalkInv'
  <2>1. /\ trail' = trail \/ trail' = trail \cup {createAuditEntry(e, d)}
        /\ walk' = walk
    BY Zenon, <1>2 DEF AuditDeliver, Recorder, RecordEvent, RecordFails, RecordCrash, recordIfAbsent
  <2>2. IsFiniteSet(trail)
    BY Zenon DEF WalkInv
  <2>3. IsFiniteSet(trail')
    BY Zenon, <2>1, <2>2, FS_AddElement
  <2>4. trail \subseteq trail'
    BY ZenonT(30), <2>1
  <2> QED BY Zenon, <1>1, <2>1, <2>3, <2>4
<1>3. ASSUME NEW org, WalkStart(org) PROVE WalkInv'
  <2>1. /\ walk'.at = "page" /\ walk'.org = org /\ walk'.cursor = NoCursor /\ walk'.seen = <<>>
        /\ walk'.steady = Visible(org) /\ trail' = trail
    BY <1>3 DEF WalkStart
  <2>2. Walked(Entries, <<>>, NoCursor, walk'.steady)
    BY Zenon, NothingMissed
  <2>3. Visible(org)' = Visible(org) /\ IsFiniteSet(trail')
    BY Zenon, <2>1 DEF Visible, WalkInv
  <2> QED BY <2>1, <2>2, <2>3 DEF WalkInv, AuditWalkComplete, Visible
<1>4. CASE ListAuditEntries
  <2> DEFINE rows == listPage(decodeOptionalCursor(walk.cursor), PageLimit, walk.org)
             page == buildListResponse(rows, PageLimit)
  <2>1. walk.at = "page" /\ trail' = trail
    BY Zenon, <1>4 DEF ListAuditEntries
  <2>2. CASE walk' = [walk EXCEPT !.at = "refused"]
    <3>1. walk'.at = "refused" /\ walk'.org = walk.org /\ walk'.steady = walk.steady
      BY <1>0, <2>2
    <3> QED BY <2>1, <3>1 DEF WalkInv, AuditWalkComplete, Visible
  <2>3. CASE walk' = [walk EXCEPT !.at = IF page.hasMore THEN "page" ELSE "end",
                                  !.cursor = page.lastCursor,
                                  !.seen = @ \o page.data]
    <3>1. /\ walk'.org = walk.org /\ walk'.steady = walk.steady /\ walk'.cursor = page.lastCursor
          /\ walk'.seen = walk.seen \o page.data
      <4> HIDE DEF page
      <4> QED BY <1>0, <2>3
    <3>2. /\ walk'.at = "page" \/ walk'.at = "end"
          /\ walk'.at = "page" => page.hasMore
          /\ walk'.at = "end" => ~page.hasMore
      <4> HIDE DEF page
      <4>1. walk'.at = IF page.hasMore THEN "page" ELSE "end"
        BY Zenon, <1>0, <2>3
      <4> QED BY <4>1
    <3>3. /\ Visible(walk.org) \subseteq Entries /\ IsFiniteSet(Visible(walk.org))
          /\ walk.steady \subseteq Visible(walk.org)
      <4>1. trail \subseteq Entries
        BY DEF TrailInv, AuditTypeOK, Entries
      <4>2. Visible(walk.org) \subseteq trail /\ IsFiniteSet(trail)
        BY DEF WalkInv, Visible
      <4>3. IsFiniteSet(Visible(walk.org))
        BY <4>2, FS_Subset
      <4> QED BY ZenonT(30), <4>1, <4>2, <4>3 DEF WalkInv
    <3>4. Walked(Entries, walk.seen, walk.cursor, walk.steady)
      BY Zenon, <2>1 DEF WalkInv
    <3>5. Fetched(Entries, walk.seen, rows, walk.steady, PageLimit)
      <4>1. Fetched(Entries, walk.seen, PageOf(Visible(walk.org), decodeOptionalCursor(walk.cursor), PageLimit + 1),
                    walk.steady, PageLimit)
        BY Zenon, <1>0, <3>3, <3>4, FetchStep, EntriesAreKeyed
      <4> QED BY Zenon, <4>1 DEF listPage
    <3> HIDE DEF rows
    <3>6. /\ NewestFirst(walk.seen \o page.data)
          /\ page.hasMore => Walked(Entries, walk.seen \o page.data, page.lastCursor, walk.steady)
          /\ ~page.hasMore => walk.steady \subseteq RowsOf(walk.seen \o page.data)
      BY Zenon, <1>0, <3>4, <3>5, AnswerStep, EntriesAreKeyed
    <3> HIDE DEF page
    <3>7. AuditWalkComplete' /\ (walk'.at = "page" => Walked(Entries, walk'.seen, walk'.cursor, walk'.steady))
      BY Zenon, <3>1, <3>2, <3>6 DEF AuditWalkComplete
    <3>8. (walk.steady \subseteq Visible(walk.org))' /\ IsFiniteSet(trail')
      BY <2>1, <3>1, <3>3 DEF Visible, WalkInv
    <3> QED BY Zenon, <3>7, <3>8 DEF WalkInv
  <2> QED BY Zenon, <1>4, <2>2, <2>3 DEF ListAuditEntries
<1>5. CASE DeleteOlderThan
  <2>1. PICK rows : trail' = trail \ rows /\ walk' = [walk EXCEPT !.steady = @ \ rows]
    BY Zenon, <1>5 DEF DeleteOlderThan
  <2>2. /\ walk'.at = walk.at /\ walk'.org = walk.org /\ walk'.cursor = walk.cursor
        /\ walk'.seen = walk.seen /\ walk'.steady = walk.steady \ rows
    BY <1>0, <2>1
  <2>3. IsFiniteSet(trail') /\ (walk.steady \subseteq Visible(walk.org))'
    <3>1. IsFiniteSet(trail) /\ trail' \subseteq trail
      BY <2>1 DEF WalkInv
    <3>2. IsFiniteSet(trail')
      BY <3>1, FS_Subset
    <3> QED BY <2>1, <2>2, <3>2 DEF WalkInv, Visible
  <2>4. walk.at = "page" => Walked(Entries, walk.seen, walk.cursor, walk'.steady)
    BY Zenon, <2>2, MissedNone DEF WalkInv
  <2>5. AuditWalkComplete'
    BY Zenon, <2>2 DEF WalkInv, AuditWalkComplete
  <2> QED BY Zenon, <2>2, <2>3, <2>4, <2>5 DEF WalkInv
<1>6. CASE Tick \/ PruneAuditEntries \/ UNCHANGED auditVars
  <2>1. trail' = trail /\ walk' = walk
    BY Zenon, <1>6 DEF Tick, PruneAuditEntries, auditVars
  <2> QED BY Zenon, <1>1, <2>1 DEF WalkInv
<1> QED BY ZenonT(30), <1>2, <1>3, <1>4, <1>5, <1>6 DEF AuditNext

\* A walk over the audit trail misses nothing that is still there.
THEOREM AuditWalks == AuditSpec => []WalkInv
<1>1. AuditInit => WalkInv
  <2> SUFFICES ASSUME AuditInit PROVE WalkInv
    OBVIOUS
  <2>1. trail = {} /\ walk.at = "idle" /\ walk.steady = {}
    BY DEF AuditInit
  <2>2. IsFiniteSet(trail)
    BY Zenon, <2>1, FS_EmptySet
  <2> QED BY <2>1, <2>2 DEF WalkInv, AuditWalkComplete
<1>2. TrailInv /\ WalkInv /\ TrailInv' /\ [AuditNext]_auditVars => WalkInv'
  BY WalkStep
<1> QED BY <1>1, <1>2, TrailInvariant, PTL DEF AuditSpec

-----------------------------------------------------------------------------
(* The profiles.                                                           *)

\* An empty page is within every limit.
LEMMA NoRows == Len(<<>>) <= PageSize + 1
BY SMT, ProfileListAssumption

\* Dropping the rows whose account is gone keeps the others in their order; when
\* as many are left, all are.
LEMMA KeptFacts ==
  ASSUME NEW K, NEW rows \in Seq(K), NewestFirst(rows)
  PROVE  /\ WithIdentity(rows) \in Seq(K) /\ NewestFirst(WithIdentity(rows))
         /\ Len(WithIdentity(rows)) <= Len(rows)
         /\ Len(WithIdentity(rows)) < Len(rows) \/ WithIdentity(rows) = rows
         /\ RowsOf(WithIdentity(rows)) \subseteq RowsOf(rows)
<1> DEFINE live == {i \in DOMAIN rows : user[rows[i]] = "live"}
           rank(i) == Cardinality({j \in live : j < i})
           Place(n) == CHOOSE i \in live : rank(i) = n - 1
           L == Cardinality(live)
           N == Len(rows)
           kept == WithIdentity(rows)
<1>1. kept = [n \in 1..L |-> rows[Place(n)]]
  BY DEF WithIdentity
<1>2. N \in Nat /\ DOMAIN rows = 1..N /\ live \subseteq 1..N /\ \A i \in 1..N : rows[i] \in K
  OBVIOUS
<1>3. IsFiniteSet(1..N) /\ Cardinality(1..N) = N
  <2> HIDE DEF N
  <2>1. IsFiniteSet(1..N) /\ Cardinality(1..N) = IF 1 > N THEN 0 ELSE N - 1 + 1
    BY <1>2, FS_Interval
  <2> QED BY <1>2, <2>1
<1>4. IsFiniteSet(live) /\ L <= N /\ (L = N => live = 1..N)
  <2> HIDE DEF live, N
  <2>1. /\ IsFiniteSet(live) /\ Cardinality(live) <= Cardinality(1..N)
        /\ Cardinality(1..N) = Cardinality(live) => 1..N = live
    BY Zenon, <1>2, <1>3, FS_Subset
  <2> HIDE DEF L
  <2> QED BY <1>3, <2>1 DEF L
<1> HIDE DEF live, N
<1>5. /\ L \in Nat
      /\ \A i, j \in live : i < j => rank(i) < rank(j)
      /\ \A i \in live : rank(i) \in Nat
      /\ \A n \in 1..L : \E i \in live : rank(i) = n - 1
  <2> DEFINE R == {p \in live \X live : p[1] < p[2]}
  <2>1. \A i, j \in live : <<i, j>> \in R <=> i < j
    OBVIOUS
  <2>2. \A i \in live : Before(R, live, i) = {j \in live : j < i}
    BY <2>1 DEF Before
  <2> HIDE DEF R
  <2>3. Orders(R, live)
    BY <1>2, <2>1 DEF Orders
  <2>4. /\ L \in Nat
        /\ \A k \in live : Cardinality(Before(R, live, k)) \in 0..(L - 1)
        /\ \A k, l \in live : <<k, l>> \in R =>
                                Cardinality(Before(R, live, k)) < Cardinality(Before(R, live, l))
        /\ \A n \in 1..L : \E k \in live : Cardinality(Before(R, live, k)) = n - 1
    BY Zenon, <1>4, <2>3, Ranks
  <2>5. \A i \in live : rank(i) = Cardinality(Before(R, live, i))
    BY Zenon, <2>2
  <2> HIDE DEF rank
  <2>6. /\ \A i \in live : rank(i) \in 0..(L - 1)
        /\ \A i, j \in live : <<i, j>> \in R => rank(i) < rank(j)
        /\ \A n \in 1..L : \E i \in live : rank(i) = n - 1
    BY Zenon, <2>4, <2>5
  <2>7. \A i, j \in live : i < j => rank(i) < rank(j)
    BY Zenon, <2>1, <2>6
  <2> HIDE DEF L
  <2>8. \A i \in live : rank(i) \in Nat
    BY <2>4, <2>6
  <2> QED BY Zenon, <2>4, <2>6, <2>7, <2>8
<1> HIDE DEF rank, L
<1>6. \A n \in 1..L : Place(n) \in live /\ rank(Place(n)) = n - 1
  <2> TAKE n \in 1..L
  <2>1. \E i \in live : rank(i) = n - 1
    BY Zenon, <1>5
  <2> QED BY Zenon, <2>1
<1>7. \A i, j \in live : rank(i) = rank(j) => i = j
  BY <1>2, <1>5
<1>8. \A m, n \in 1..L : m < n => Place(m) < Place(n)
  <2> SUFFICES ASSUME NEW m \in 1..L, NEW n \in 1..L, m < n PROVE Place(m) < Place(n)
    OBVIOUS
  <2> DEFINE a == Place(m)
             b == Place(n)
  <2>1. a \in live /\ b \in live /\ rank(a) = m - 1 /\ rank(b) = n - 1
    BY Zenon, <1>6
  <2> HIDE DEF a, b
  <2>2. a < b
    BY <1>2, <1>5, <2>1
  <2> QED BY <2>2 DEF a, b
<1> HIDE DEF Place
<1>9. kept \in Seq(K) /\ Len(kept) = L /\ DOMAIN kept = 1..L /\ \A n \in 1..L : kept[n] = rows[Place(n)]
  <2> DEFINE e(n) == rows[Place(n)]
  <2>1. \A n \in 1..L : e(n) \in K
    BY Zenon, <1>2, <1>6
  <2> HIDE DEF e
  <2>2. kept = [n \in 1..L |-> e(n)]
    BY Zenon, <1>1 DEF e
  <2> HIDE DEF kept
  <2>3. kept \in Seq(K) /\ Len(kept) = L /\ DOMAIN kept = 1..L /\ \A n \in 1..L : kept[n] = e(n)
    BY <1>5, <2>1, <2>2
  <2> QED BY Zenon, <2>3 DEF e
<1> HIDE DEF kept
<1>10. NewestFirst(kept) /\ RowsOf(kept) \subseteq RowsOf(rows)
  <2>1. \A n \in DOMAIN kept : Place(n) \in DOMAIN rows
    BY Zenon, <1>2, <1>6, <1>9
  <2>2. NewestFirst(kept)
    BY Zenon, <1>8, <1>9, <2>1 DEF NewestFirst
  <2>3. RowsOf(kept) \subseteq RowsOf(rows)
    BY Zenon, <1>9, <2>1 DEF RowsOf
  <2> QED BY Zenon, <2>2, <2>3
<1>11. ASSUME live = 1..N PROVE \A i \in live : rank(i) = i - 1
  <2> TAKE i \in live
  <2>0. i \in 1..N
    BY Zenon, <1>11
  <2>1. {j \in live : j < i} = 1..(i - 1) /\ i - 1 \in Nat
    <3>1. {j \in 1..N : j < i} = 1..(i - 1) /\ i - 1 \in Nat
      BY <1>2, <2>0
    <3> QED BY Zenon, <1>11, <3>1
  <2>2. ASSUME NEW m \in Nat PROVE Cardinality(1..m) = m
    <3>1. IsFiniteSet(1..m) /\ Cardinality(1..m) = IF 1 > m THEN 0 ELSE m - 1 + 1
      BY <2>2, FS_Interval
    <3> QED BY <2>2, <3>1
  <2> QED BY Zenon, <2>1, <2>2 DEF rank
<1>12. ASSUME L = N PROVE kept = rows
  <2>1. live = 1..N
    BY <1>4, <1>12
  <2>2. \A n \in 1..L : Place(n) = n
    BY <1>6, <1>7, <1>11, <1>12, <2>1
  <2>3. DOMAIN kept = DOMAIN rows
    BY Zenon, <1>2, <1>9, <1>12
  <2>4. ASSUME NEW n \in DOMAIN kept PROVE kept[n] = rows[n]
    <3>1. n \in 1..L /\ kept[n] = rows[Place(n)]
      BY Zenon, <1>9, <2>4
    <3>2. Place(n) = n
      BY Zenon, <2>2, <3>1
    <3> QED BY Zenon, <3>1, <3>2
  <2> QED BY <1>9, <2>3, <2>4
<1>13. L < N \/ L = N
  BY <1>2, <1>4, <1>5
<1> QED BY Zenon, <1>4, <1>9, <1>10, <1>12, <1>13 DEF kept, N

\* The second query leaves rows that the page can be made of; unless it dropped
\* one, they are those of the first.
LEMMA KeptFetched ==
  ASSUME NEW K, NEW seen, NEW rows, NEW steady, NEW limit \in Nat,
         Fetched(K, seen, rows, steady, limit)
  PROVE  \/ Len(WithIdentity(rows)) < Len(rows) /\ Fetched(K, seen, WithIdentity(rows), {}, limit)
         \/ ~(Len(WithIdentity(rows)) < Len(rows)) /\ WithIdentity(rows) = rows
<1> DEFINE kept == WithIdentity(rows)
<1>1. rows \in Seq(K) /\ Len(rows) <= limit + 1 /\ NewestFirst(rows) /\ Len(rows) \in Nat
  BY DEF Fetched
<1>2. /\ kept \in Seq(K) /\ NewestFirst(kept) /\ Len(kept) <= Len(rows)
      /\ Len(kept) < Len(rows) \/ kept = rows
      /\ RowsOf(kept) \subseteq RowsOf(rows)
  BY Zenon, <1>1, KeptFacts
<1> HIDE DEF kept
<1>3. Len(kept) <= limit + 1 /\ ~(Len(rows) < Len(rows))
  BY <1>1, <1>2
<1>4. \A i \in DOMAIN kept : Ahead(seen, kept[i])
  <2> TAKE i \in DOMAIN kept
  <2>1. PICK j \in DOMAIN rows : rows[j] = kept[i]
    BY Zenon, <1>2 DEF RowsOf
  <2> QED BY Zenon, <2>1 DEF Fetched
<1>5. Fetched(K, seen, kept, {}, limit)
  BY Zenon, <1>2, <1>3, <1>4 DEF Fetched
<1> QED BY Zenon, <1>2, <1>3, <1>5 DEF kept

\* The profiles have distinct keys.
LEMMA MembersAreKeyed == Keyed(Members)
BY SMTT(30), ProfileListAssumption DEF Keyed

\* Before its first page a walk has missed nothing.
LEMMA ScanInit == ProfileListInit => ScanInv
<1> SUFFICES ASSUME ProfileListInit PROVE ScanInv
  OBVIOUS
<1>1. /\ scan.at = "idle" /\ scan.cursor = NoCursor /\ scan.rows = <<>> /\ scan.seen = <<>>
      /\ scan.steady = {} /\ scan.cut \in BOOLEAN
      /\ DOMAIN scan = {"at", "cursor", "rows", "seen", "steady", "cut"}
  BY DEF ProfileListInit
<1>2. ProfileListTypeOK
  <2>1. Len(<<>>) <= PageSize + 1
    BY ProfileListAssumption
  <2>2. user \in [Members -> {"none", "live", "deleted"}] /\ member \subseteq {m \in Members : user[m] = "live"}
    BY DEF ProfileListInit
  <2> QED BY <1>1, <2>1, <2>2 DEF ProfileListTypeOK
<1>3. Walked(Members, scan.seen, scan.cursor, Owed)
  <2>1. Walked(Members, <<>>, NoCursor, Owed)
    BY Zenon, NothingMissed
  <2> QED BY <1>1, <2>1
<1> QED BY Zenon, <1>1, <1>2, <1>3 DEF ScanInv

\* Users who register, join, leave and go, and each of the two queries of a page,
\* leave a walk that has missed nothing.
LEMMA ScanStep ==
  ASSUME ScanInv, [ProfileListNext]_profileListVars
  PROVE  ScanInv'
<1>0. /\ user \in [Members -> {"none", "live", "deleted"}]
      /\ member \subseteq {m \in Members : user[m] = "live"}
      /\ DOMAIN scan = {"at", "cursor", "rows", "seen", "steady", "cut"}
      /\ scan.at \in {"idle", "rows", "identities", "end"} /\ Len(scan.rows) <= PageSize + 1
      /\ PageSize \in Nat \ {0}
  BY ProfileListAssumption DEF ScanInv, ProfileListTypeOK
<1>o. /\ scan.cut => Owed = {}
      /\ ~scan.cut => Owed = scan.steady
      /\ scan'.cut => Owed' = {}
      /\ ~scan'.cut => Owed' = scan'.steady
  BY Zenon DEF Owed
<1>1. ASSUME NEW m \in Members, Join(m) PROVE ScanInv'
  <2>1. scan' = scan /\ Owed' = Owed
    BY Zenon, <1>1 DEF Join, Owed
  <2>2. ProfileListTypeOK' /\ Listed \subseteq Listed'
    <3>1. /\ user' \in [Members -> {"none", "live", "deleted"}]
          /\ member' \subseteq {x \in Members : user'[x] = "live"}
          /\ Listed \subseteq Listed'
      BY <1>0, <1>1 DEF Join, Listed
    <3> QED BY Zenon, <1>0, <2>1, <3>1 DEF ProfileListTypeOK
  <2> QED BY Zenon, <2>1, <2>2 DEF ScanInv
<1>2. ASSUME NEW m \in Members, Leave(m) \/ Erase(m) PROVE ScanInv'
  <2>1. /\ scan'.at = scan.at /\ scan'.cursor = scan.cursor /\ scan'.rows = scan.rows
        /\ scan'.seen = scan.seen /\ scan'.steady = scan.steady \ {m} /\ DOMAIN scan' = DOMAIN scan
    BY <1>0, <1>2 DEF Leave, Erase
  <2>2. scan'.cut = scan.cut
    BY <1>0, <1>2 DEF Leave, Erase
  <2>3. /\ user' \in [Members -> {"none", "live", "deleted"}]
        /\ member' \subseteq {x \in Members : user'[x] = "live"}
        /\ Listed \ {m} \subseteq Listed'
    BY <1>0, <1>2 DEF Leave, Erase, Listed
  <2>4. ProfileListTypeOK'
    BY Zenon, <1>0, <2>1, <2>3 DEF ProfileListTypeOK
  <2>5. Owed' \subseteq Owed /\ scan'.cut \in BOOLEAN
    BY Zenon, <1>o, <2>1, <2>2 DEF ScanInv
  <2>6. /\ scan.at # "end" => Walked(Members, scan.seen, scan.cursor, Owed')
        /\ scan.at = "identities" => Fetched(Members, scan.seen, scan.rows, Owed', PageSize)
    BY Zenon, <2>5, MissedNone DEF ScanInv
  <2>7. scan'.steady \subseteq Listed'
    BY Zenon, <2>1, <2>3 DEF ScanInv
  <2> QED BY Zenon, <1>0, <2>1, <2>4, <2>5, <2>6, <2>7 DEF ScanInv
<1>3. CASE ScanStart
  <2>1. /\ scan'.at = "rows" /\ scan'.cursor = scan.cursor /\ scan'.rows = scan.rows
        /\ scan'.seen = scan.seen /\ scan'.steady = Listed /\ DOMAIN scan' = DOMAIN scan
        /\ scan.seen = <<>> /\ scan.at = "idle"
    BY <1>0, <1>3 DEF ScanStart, ScanInv
  <2>2. scan'.cut = scan.cut
    BY <1>0, <1>3 DEF ScanStart
  <2>3. ProfileListTypeOK' /\ Listed' = Listed
    BY Zenon, <1>0, <1>3, <2>1 DEF ScanStart, ProfileListTypeOK, Listed
  <2>4. scan.cursor = NoCursor
    BY Zenon, <2>1 DEF ScanInv, Walked, AtCursor
  <2>5. Walked(Members, scan'.seen, scan'.cursor, Owed')
    BY ZenonT(30), <2>1, <2>4, NothingMissed
  <2> QED BY Zenon, <1>0, <2>1, <2>2, <2>3, <2>5 DEF ScanInv
<1>4. CASE ListRows
  <2> DEFINE rows == PageOf(Listed, decodeOptionalCursor(scan.cursor), PageSize + 1)
  <2>1. /\ scan'.at = "identities" /\ scan'.cursor = scan.cursor /\ scan'.rows = rows
        /\ scan'.seen = scan.seen /\ scan'.steady = scan.steady /\ DOMAIN scan' = DOMAIN scan
        /\ scan.at = "rows"
    BY <1>0, <1>4 DEF ListRows
  <2>2. scan'.cut = scan.cut
    BY <1>0, <1>4 DEF ListRows
  <2>3. Listed' = Listed /\ UNCHANGED <<user, member>>
    BY Zenon, <1>4 DEF ListRows, Listed
  <2>4. Owed' = Owed /\ Owed \subseteq Listed
    BY Zenon, <1>o, <2>1, <2>2 DEF ScanInv
  <2>5. Listed \subseteq Members /\ IsFiniteSet(Listed)
    <3>1. Listed \subseteq Members
      BY SMTT(30), <1>0 DEF Listed
    <3> QED BY <3>1, ProfileListAssumption, FS_Subset
  <2>6. Walked(Members, scan.seen, scan.cursor, Owed)
    BY Zenon, <2>1 DEF ScanInv
  <2>7. Fetched(Members, scan.seen, rows, Owed, PageSize)
    BY Zenon, <1>0, <2>4, <2>5, <2>6, FetchStep, MembersAreKeyed
  <2> HIDE DEF rows
  <2>8. ProfileListTypeOK'
    BY Zenon, <1>0, <2>1, <2>3, <2>7 DEF ProfileListTypeOK, Fetched
  <2>9. Walked(Members, scan'.seen, scan'.cursor, Owed') /\ Fetched(Members, scan'.seen, scan'.rows, Owed', PageSize)
    BY Zenon, <2>1, <2>4, <2>6, <2>7
  <2>10. scan'.steady \subseteq Listed' /\ scan'.cut \in BOOLEAN
    BY Zenon, <2>1, <2>2, <2>3 DEF ScanInv
  <2> QED BY <1>0, <2>1, <2>8, <2>9, <2>10 DEF ScanInv
<1>5. CASE ListIdentities
  <2> DEFINE kept == WithIdentity(scan.rows)
             page == buildListResponse(kept, PageSize)
  <2>1. /\ scan'.cursor = page.lastCursor /\ scan'.rows = <<>>
        /\ scan'.seen = scan.seen \o page.data /\ scan'.steady = scan.steady
        /\ DOMAIN scan' = DOMAIN scan /\ scan.at = "identities"
    BY <1>0, <1>5 DEF ListIdentities
  <2>2. /\ scan'.at = IF page.hasMore THEN "rows" ELSE "end"
        /\ scan'.cut = (scan.cut \/ Len(kept) < Len(scan.rows))
    <3> HIDE DEF page, kept
    <3> QED BY Zenon, <1>0, <1>5 DEF ListIdentities, page, kept
  <2>3. Listed' = Listed /\ UNCHANGED <<user, member>>
    BY Zenon, <1>5 DEF ListIdentities, Listed
  <2>4. Walked(Members, scan.seen, scan.cursor, Owed) /\ Fetched(Members, scan.seen, scan.rows, Owed, PageSize)
    BY Zenon, <2>1 DEF ScanInv
  <2>5. \/ Len(kept) < Len(scan.rows) /\ Fetched(Members, scan.seen, kept, {}, PageSize)
        \/ ~(Len(kept) < Len(scan.rows)) /\ kept = scan.rows
    BY Zenon, <1>0, <2>4, KeptFetched
  <2> HIDE DEF kept
  <2>6. Owed' \subseteq Owed /\ scan'.cut \in BOOLEAN /\ (Len(kept) < Len(scan.rows) => Owed' = {})
    BY Zenon, <1>o, <2>1, <2>2
  <2>7. Walked(Members, scan.seen, scan.cursor, Owed') /\ Fetched(Members, scan.seen, kept, Owed', PageSize)
    BY Zenon, <2>4, <2>5, <2>6, MissedNone
  <2>8. /\ NewestFirst(scan.seen \o page.data)
        /\ page.hasMore => Walked(Members, scan.seen \o page.data, page.lastCursor, Owed')
        /\ ~page.hasMore => Owed' \subseteq RowsOf(scan.seen \o page.data)
    BY Zenon, <1>0, <2>7, AnswerStep, MembersAreKeyed
  <2> HIDE DEF page
  <2>9. /\ scan'.at = "rows" \/ scan'.at = "end"
        /\ scan'.at # "end" => page.hasMore
        /\ scan'.at = "end" => ~page.hasMore
    BY ZenonT(30), <2>2
  <2>10. ProfileListTypeOK'
    BY <1>0, <2>1, <2>3, <2>9, NoRows DEF ProfileListTypeOK
  <2>11. scan'.steady \subseteq Listed' /\ scan'.at # "idle" /\ scan'.at # "identities"
    BY Zenon, <2>1, <2>3, <2>9 DEF ScanInv
  <2>12. /\ scan'.at # "end" => Walked(Members, scan'.seen, scan'.cursor, Owed')
         /\ scan'.at = "end" => NewestFirst(scan'.seen) /\ Owed' \subseteq RowsOf(scan'.seen)
    BY Zenon, <2>1, <2>8, <2>9
  <2> QED BY Zenon, <1>0, <2>1, <2>6, <2>10, <2>11, <2>12 DEF ScanInv
<1>6. CASE ScanAgain
  <2>1. /\ scan'.at = "idle" /\ scan'.cursor = NoCursor /\ scan'.rows = <<>> /\ scan'.seen = <<>>
        /\ scan'.steady = {} /\ scan'.cut \in BOOLEAN
        /\ DOMAIN scan' = {"at", "cursor", "rows", "seen", "steady", "cut"}
    BY Zenon, <1>6 DEF ScanAgain
  <2>2. Len(<<>>) <= PageSize + 1
    BY <1>0
  <2>3. ProfileListTypeOK'
    BY ZenonT(30), <1>0, <1>6, <2>1, <2>2 DEF ProfileListTypeOK, ScanAgain
  <2>4. Walked(Members, scan'.seen, scan'.cursor, Owed')
    <3>1. Walked(Members, <<>>, NoCursor, Owed')
      BY Zenon, NothingMissed
    <3> QED BY <2>1, <3>1
  <2> QED BY Zenon, <2>1, <2>3, <2>4 DEF ScanInv
<1>7. CASE UNCHANGED profileListVars
  BY Zenon, <1>7 DEF profileListVars, ScanInv, ProfileListTypeOK, Listed, Owed
<1> QED BY ZenonT(30), <1>1, <1>2, <1>3, <1>4, <1>5, <1>6, <1>7 DEF ProfileListNext

\* A walk over the profiles that no deletion cuts returns every profile listed all
\* along; no walk repeats a profile or leaves the order.
THEOREM ProfileScan == ProfileListSpec => []ScanInv
BY ScanInit, ScanStep, PTL DEF ProfileListSpec

\* Paging to the end of a list, the audit trail or the profiles, gives every row
\* that was there all along, once and newest first.
THEOREM WalksComplete == ListsSpec => []WalksAreComplete
<1>1. WalkInv /\ ScanInv => WalksAreComplete
  <2> SUFFICES ASSUME WalkInv, ScanInv PROVE WalksAreComplete
    OBVIOUS
  <2>1. scan.at = "end" /\ ~scan.cut => scan.steady \subseteq RowsOf(scan.seen)
    BY Zenon DEF ScanInv, Owed
  <2>2. NewestFirst(scan.seen)
    BY Zenon DEF ScanInv, Walked
  <2> QED BY Zenon, <2>1, <2>2 DEF WalksAreComplete, WalkInv, ScanCompleteUnlessCut
<1> QED BY <1>1, AuditWalks, ProfileScan, PTL DEF ListsSpec
=============================================================================
