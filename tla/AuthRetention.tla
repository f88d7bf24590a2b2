--------------------------- MODULE AuthRetention ---------------------------
(***************************************************************************)
(* AuthRetentionService: the nightly job deletes expired sessions and      *)
(* verifications in bounded batches, while sessions are opened, renewed    *)
(* and expire.  One cutoff holds for the whole run, and a DELETE picks its *)
(* rows before it removes them.                                            *)
(***************************************************************************)
EXTENDS Naturals, FiniteSets, FiniteSetsExt

CONSTANTS SessionIds, VerificationIds,
          Lifetime,            \* how long a row lives from its last renewal
          GRACE,               \* expiredSessionGraceHours
          BATCH, MAX_PRUNE_PASSES,
          LastHour             \* bound on time

ASSUME RetentionAssumption ==
  /\ IsFiniteSet(SessionIds) /\ IsFiniteSet(VerificationIds)
  /\ Lifetime \in Nat \ {0} /\ GRACE \in Nat /\ LastHour \in Nat /\ GRACE < LastHour
  /\ BATCH \in Nat \ {0} /\ MAX_PRUNE_PASSES \in Nat \ {0}

VARIABLES hour, sessions, verifications,   \* id -> expires_at; 0 before it is issued, Gone when deleted
          pruning,                         \* [at, cutoff, pass, picked, full]
          cutLive                          \* ghost: a usable row was deleted

retentionVars == <<hour, sessions, verifications, pruning, cutLive>>

Gone == LastHour + Lifetime + 1

NotPruning == [at |-> "idle", now |-> 0, pass |-> 0, picked |-> {}, full |-> FALSE]

RetentionInit ==
  /\ hour = GRACE + 1
  /\ sessions = [s \in SessionIds |-> 0] /\ verifications = [v \in VerificationIds |-> 0]
  /\ pruning = NotPruning /\ cutLive = FALSE

HourPasses ==
  /\ hour < LastHour /\ hour' = hour + 1
  /\ UNCHANGED <<sessions, verifications, pruning, cutLive>>

\* Better Auth, external: it opens a session, and renews one it still accepts.
SessionUsed(s) ==
  /\ sessions[s] = 0 \/ (sessions[s] >= hour /\ sessions[s] # Gone)
  /\ sessions' = [sessions EXCEPT ![s] = hour + Lifetime]
  /\ UNCHANGED <<hour, verifications, pruning, cutLive>>

VerificationIssued(v) ==
  /\ verifications[v] = 0
  /\ verifications' = [verifications EXCEPT ![v] = hour + Lifetime]
  /\ UNCHANGED <<hour, sessions, pruning, cutLive>>

pruneUntilIdle ==
  /\ pruning.at = "idle"
  /\ pruning' = [NotPruning EXCEPT !.at = "pick-sessions", !.now = hour]
  /\ UNCHANGED <<hour, sessions, verifications, cutLive>>

CutoffAhead(table) == IF table = "sessions" THEN hour + GRACE ELSE hour + 1

CutoffInMinutes(table) == pruning.now - 60 * GRACE

Cutoff(table) == IF table = "sessions" THEN pruning.now - GRACE ELSE pruning.now

Overdue(rows, cutoff) == {x \in DOMAIN rows : rows[x] # 0 /\ rows[x] < cutoff}

\* ORDER BY expires_at LIMIT batchSize: the oldest, as many as fit.
Batches(rows, cutoff) ==
  LET due == Overdue(rows, cutoff) IN
  {b \in SUBSET due : /\ Cardinality(b) = Min({Cardinality(due), BATCH})
                      /\ \A x \in b, y \in due \ b : rows[x] <= rows[y]}

\* pruneExpired: two statements, each picking its rows and then deleting them.
Pick(at, table, rows) ==
  /\ pruning.at = at
  /\ \E b \in Batches(rows, Cutoff(table)) : pruning' = [pruning EXCEPT !.at = table, !.picked = b]
  /\ UNCHANGED <<hour, sessions, verifications, cutLive>>

PickSessions == Pick("pick-sessions", "sessions", sessions)

PickVerifications == Pick("pick-verifications", "verifications", verifications)

Filled == Cardinality(pruning.picked) = BATCH

DeleteSessions ==
  /\ pruning.at = "sessions"
  /\ sessions' = [s \in SessionIds |-> IF s \in pruning.picked THEN Gone ELSE sessions[s]]
  /\ cutLive' = (cutLive \/ \E s \in pruning.picked : sessions[s] >= hour)
  /\ pruning' = [pruning EXCEPT !.at = "pick-verifications", !.picked = {}, !.full = Filled]
  /\ UNCHANGED <<hour, verifications>>

\* Another pass while either batch was full and passes are left.
MorePasses == (pruning.full \/ Filled) /\ pruning.pass + 1 < MAX_PRUNE_PASSES

DeleteVerifications ==
  /\ pruning.at = "verifications"
  /\ verifications' = [v \in VerificationIds |-> IF v \in pruning.picked THEN Gone ELSE verifications[v]]
  /\ cutLive' = (cutLive \/ \E v \in pruning.picked : verifications[v] >= hour)
  /\ pruning' = IF MorePasses
                THEN [pruning EXCEPT !.at = "pick-sessions", !.pass = @ + 1, !.picked = {}, !.full = FALSE]
                ELSE [NotPruning EXCEPT !.at = "ended", !.now = pruning.now]
  /\ UNCHANGED <<hour, sessions>>

NightEnds ==
  /\ pruning.at = "ended"
  /\ pruning' = NotPruning
  /\ UNCHANGED <<hour, sessions, verifications, cutLive>>

Pruning == \/ PickSessions \/ DeleteSessions \/ PickVerifications \/ DeleteVerifications
           \/ NightEnds \/ pruneUntilIdle

RetentionNext == \/ HourPasses \/ Pruning
                 \/ \E s \in SessionIds : SessionUsed(s)
                 \/ \E v \in VerificationIds : VerificationIssued(v)

RetentionProgress == Pruning

RetentionSpec == RetentionInit /\ [][RetentionNext]_retentionVars
-----------------------------------------------------------------------------
RetentionTypeOK ==
  /\ hour \in 0..LastHour /\ pruning.pass \in 0..(MAX_PRUNE_PASSES - 1)
  /\ \A s \in SessionIds : sessions[s] \in 0..Gone
  /\ \A v \in VerificationIds : verifications[v] \in 0..Gone

\* The job never deletes a session or a verification its owner could still use,
\* although a renewal may fall between the choice of the rows and their deletion;
\* and a run whose pass budget covers the backlog leaves nothing that was overdue
\* when it began.
OverdueAndNoMore ==
  /\ ~cutLive
  /\ pruning.at = "ended" /\ Cardinality(SessionIds) < BATCH * MAX_PRUNE_PASSES
                          /\ Cardinality(VerificationIds) < BATCH * MAX_PRUNE_PASSES =>
       /\ Overdue(sessions, pruning.now - GRACE) = {}
       /\ Overdue(verifications, pruning.now) = {}

\* The tables do not grow without bound: an expired row is deleted in the end.
OverdueIsDeleted ==
  \A s \in SessionIds : s \in Overdue(sessions, hour - GRACE) ~> sessions[s] = Gone

DueSessions == Overdue(sessions, pruning.now - GRACE)

DueVerifications == Overdue(verifications, pruning.now)

\* After k batches nothing is due, or every one of them was full.
Backlog(ids, due, k) == due = {} \/ BATCH * k + Cardinality(due) <= Cardinality(ids)

ABatch(b, due) == b \subseteq due /\ Cardinality(b) = Min({Cardinality(due), BATCH})

AtSessions == pruning.at \in {"pick-sessions", "sessions"}

AtVerifications == pruning.at \in {"pick-verifications", "verifications"}

\* The inductive invariant behind OverdueAndNoMore: what a run may delete was due
\* when it began, nothing becomes due meanwhile, and a batch was full or the last.
RetentionInv ==
  /\ hour \in 0..LastHour /\ GRACE < hour /\ ~cutLive
  /\ sessions \in [SessionIds -> 0..Gone] /\ verifications \in [VerificationIds -> 0..Gone]
  /\ pruning \in [at : {"idle", "pick-sessions", "sessions", "pick-verifications", "verifications", "ended"},
                  now : 0..LastHour, pass : 0..(MAX_PRUNE_PASSES - 1),
                  picked : SUBSET (SessionIds \cup VerificationIds), full : BOOLEAN]
  /\ pruning.at # "idle" => GRACE < pruning.now /\ pruning.now <= hour
  /\ AtSessions => Backlog(SessionIds, DueSessions, pruning.pass)
  /\ AtSessions \/ AtVerifications => Backlog(VerificationIds, DueVerifications, pruning.pass)
  /\ AtVerifications => /\ Backlog(SessionIds, DueSessions, pruning.pass + 1)
                        /\ ~pruning.full => DueSessions = {}
  /\ pruning.at = "sessions" => ABatch(pruning.picked, DueSessions)
  /\ pruning.at = "verifications" => ABatch(pruning.picked, DueVerifications)
  /\ pruning.at = "ended" => /\ Backlog(SessionIds, DueSessions, MAX_PRUNE_PASSES)
                             /\ Backlog(VerificationIds, DueVerifications, MAX_PRUNE_PASSES)
=============================================================================
