----------------------------- MODULE AuditTrail -----------------------------
(***************************************************************************)
(* src/modules/audit-log: integration events become audit entries, the     *)
(* entries are read in pages, and those past their retention are pruned    *)
(* in batches.  Redelivery, failing attempts, a prune that is halfway, and *)
(* a client that walks the pages, in every order.                          *)
(***************************************************************************)
EXTENDS Jobs, Listing

CONSTANTS Events,                    \* [ts, id, org]: occurredAt, eventId and tenant
          Redeliveries,              \* the jobs an event can be delivered as
          PageLimit,
          Retention, MaxNow,         \* in units of event time; MaxNow bounds the clock
          AuditBatch, AuditPasses    \* PRUNE_BATCH_SIZE and MAX_PASSES

ASSUME AuditAssumption ==
  /\ Events \subseteq [ts : Nat, id : Nat, org : Nat] /\ \A x, y \in Events : x.id = y.id => x = y
  /\ PageLimit \in Nat \ {0}
  /\ Retention \in Nat /\ MaxNow \in Nat
  /\ AuditBatch \in Nat \ {0} /\ AuditPasses \in Nat \ {0}

VARIABLES now,
          trail,     \* the rows of audit_log: [id, ts, org, event]
          record,    \* the job of an event and a delivery
          walk,      \* the client: [at, org, cursor, seen, steady]
          prune      \* the prune job: [at, cutoff, pass]

auditVars == <<now, trail, record, walk, prune>>

Idle == [at |-> "idle", cutoff |-> 0, pass |-> 0]

AuditInit ==
  /\ now = 0
  /\ trail = {}
  /\ record = [e \in Events |-> [d \in Redeliveries |-> Unsent]]
  /\ walk = [at |-> "idle", org |-> 0, cursor |-> NoCursor, seen |-> <<>>, steady |-> {}]
  /\ prune = Idle

Tick ==
  /\ now < MaxNow
  /\ now' = now + 1
  /\ UNCHANGED <<trail, record, walk, prune>>
-----------------------------------------------------------------------------
\* The relay delivers an event that has occurred, once or again.
AuditDeliver(e, d) ==
  /\ record[e][d].st = "unsent"
  /\ e.ts <= now
  /\ record' = [record EXCEPT ![e][d] = Sent]
  /\ UNCHANGED <<now, trail, walk, prune>>

EntryWithNewId(e, d) ==
  [id |-> 10 * (record[e][d].tries + 1) + e.id, ts |-> e.ts, org |-> e.org, event |-> e]

\* The entry takes its id from the event, not from newId().
createAuditEntry(e, d) == [id |-> e.id, ts |-> e.ts, org |-> e.org, event |-> e]

\* INSERT ... ON CONFLICT DO NOTHING on the primary key.
recordIfAbsent(entry) ==
  IF \E row \in trail : row.id = entry.id THEN trail ELSE trail \cup {entry}

\* A worker takes the job; its one statement is the whole of its effect.
RecordEvent(e, d) ==
  /\ record[e][d].st = "waiting"
  /\ trail' = recordIfAbsent(createAuditEntry(e, d))
  /\ record' = [record EXCEPT ![e][d] = Completed(@)]
  /\ UNCHANGED <<now, walk, prune>>

\* The payload does not parse, the statement fails, or its answer is lost.
RecordFails(e, d) ==
  /\ record[e][d].st = "waiting"
  /\ record' = [record EXCEPT ![e][d] = Failed(@)]
  /\ \/ UNCHANGED trail
     \/ trail' = recordIfAbsent(createAuditEntry(e, d))
  /\ UNCHANGED <<now, walk, prune>>

\* The worker dies after the insert: the job is stalled, and taken again.
RecordCrash(e, d) ==
  /\ record[e][d].st = "waiting"
  /\ trail' = recordIfAbsent(createAuditEntry(e, d))
  /\ record' = [record EXCEPT ![e][d] = Stalled(Picked(@))]
  /\ UNCHANGED <<now, walk, prune>>
-----------------------------------------------------------------------------
\* GET /audit-log: the rows of a tenant, or of all of them for org 0.
Visible(org) == {row \in trail : org = 0 \/ row.org = org}

WalkStart(org) ==
  /\ walk.at = "idle"
  /\ walk' = [at |-> "page", org |-> org, cursor |-> NoCursor, seen |-> <<>>,
              steady |-> Visible(org)]
  /\ UNCHANGED <<now, trail, record, prune>>

listPageByTime(cursor, limit, org) ==
  Ordered(AfterByTime(Visible(org), cursor), limit + 1)

\* ListAuditEntriesUseCase: the limit, and the row after it as a probe.
listPage(cursor, limit, org) == PageOf(Visible(org), cursor, limit + 1)

ListAuditEntries ==
  /\ walk.at = "page"
  /\ \/ LET page == buildListResponse(
                      listPage(decodeOptionalCursor(walk.cursor), PageLimit, walk.org), PageLimit)
        IN walk' = [walk EXCEPT !.at = IF page.hasMore THEN "page" ELSE "end",
                                !.cursor = page.lastCursor,
                                !.seen = @ \o page.data]
     \/ /\ decodeOptionalCursor(Garbled) = malformedCursor
        /\ walk' = [walk EXCEPT !.at = "refused"]
  /\ UNCHANGED <<now, trail, record, prune>>
-----------------------------------------------------------------------------
\* The cutoff is computed once and holds for every pass.
PruneAuditEntries ==
  /\ prune.at = "idle"
  /\ now >= Retention
  /\ prune' = [at |-> "delete", cutoff |-> now - Retention, pass |-> 0]
  /\ UNCHANGED <<now, trail, record, walk>>

Expired(cutoff) == {row \in trail : row.ts < cutoff}

LastPassLate(deleted) == deleted < AuditBatch \/ prune.pass = AuditPasses

\* The pass deleted less than a batch, or it was the last one allowed.
LastPass(deleted) == deleted < AuditBatch \/ prune.pass + 1 = AuditPasses

\* One statement: the oldest rows before the cutoff, at most a batch of them.
DeleteOlderThan ==
  /\ prune.at = "delete"
  /\ \E rows \in SUBSET Expired(prune.cutoff) :
       /\ \/ Cardinality(rows) = AuditBatch
          \/ Cardinality(rows) < AuditBatch /\ rows = Expired(prune.cutoff)
       /\ \A x \in rows, y \in Expired(prune.cutoff) \ rows : x.ts <= y.ts
       /\ trail' = trail \ rows
       /\ walk' = [walk EXCEPT !.steady = @ \ rows]
       /\ prune' = IF LastPass(Cardinality(rows))
                     THEN Idle ELSE [prune EXCEPT !.pass = @ + 1]
  /\ UNCHANGED <<now, record>>
-----------------------------------------------------------------------------
Recorder(e, d) == RecordEvent(e, d) \/ RecordFails(e, d)

AuditNext ==
  \/ Tick
  \/ \E e \in Events, d \in Redeliveries : AuditDeliver(e, d) \/ Recorder(e, d) \/ RecordCrash(e, d)
  \/ \E org \in {0} \cup {e.org : e \in Events} : WalkStart(org)
  \/ ListAuditEntries
  \/ PruneAuditEntries \/ DeleteOlderThan

AuditSpec == AuditInit /\ [][AuditNext]_auditVars

AuditProgress == \E e \in Events, d \in Redeliveries : Recorder(e, d)
-----------------------------------------------------------------------------
AuditTypeOK ==
  /\ now \in 0..MaxNow
  /\ trail \subseteq [id : Nat, ts : Nat, org : Nat, event : Events]
  /\ record \in [Events -> [Redeliveries -> Job]]
  /\ walk.at \in {"idle", "page", "end", "refused"}
  /\ prune \in [at : {"idle", "delete"}, cutoff : 0..MaxNow, pass : 0..(AuditPasses - 1)]

\* However often an event is delivered, and wherever an attempt fails, the
\* trail has one entry for it; and once a recording job has ended well it has
\* that entry for as long as the retention lasts: a later delivery, a failed
\* attempt or a prune never takes it away early.
RecordedOnce ==
  /\ \A x, y \in trail : x.event = y.event => x = y
  /\ \A e \in Events :
       (\E d \in Redeliveries : record[e][d].st = "done")
         => \/ \E row \in trail : row.event = e
            \/ e.ts + Retention < now

\* The inductive invariant behind RecordedOnce: a row is its event's, and the
\* cutoff of a prune is never ahead of the retention.
TrailInv ==
  /\ AuditTypeOK /\ RecordedOnce
  /\ \A row \in trail : row = [id |-> row.event.id, ts |-> row.event.ts, org |-> row.event.org,
                               event |-> row.event]
  /\ \A e \in Events, d \in Redeliveries : HasAttempts(record[e][d])
  /\ prune.at = "delete" => prune.cutoff + Retention <= now
  /\ DOMAIN walk = {"at", "org", "cursor", "seen", "steady"}

\* A walk to the last page returns every entry that was there all along, once
\* and newest first, while entries are recorded and pruned around it ("walks
\* the whole set without dropping or repeating a row",
\* list-audit-entries.use-case.spec.ts).
AuditWalkComplete ==
  walk.at = "end" =>
    /\ walk.steady \subseteq RowsOf(walk.seen)
    /\ NewestFirst(walk.seen)

Entries == {[id |-> e.id, ts |-> e.ts, org |-> e.org, event |-> e] : e \in Events}

\* The inductive invariant behind AuditWalkComplete: between its pages a walk has
\* missed nothing that is still there.
WalkInv ==
  /\ IsFiniteSet(trail) /\ walk.steady \subseteq Visible(walk.org)
  /\ walk.at = "page" => Walked(Entries, walk.seen, walk.cursor, walk.steady)
  /\ AuditWalkComplete

\* A delivered event is recorded in the end, unless its jobs used up their
\* attempts.
DeliveredIsRecorded ==
  \A e \in Events :
    (\E d \in Redeliveries : record[e][d].st # "unsent")
      ~> \/ \E d \in Redeliveries : record[e][d].st = "done"
         \/ \A d \in Redeliveries : record[e][d].st \in {"unsent", "dead"}
=============================================================================
