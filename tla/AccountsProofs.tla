---------------------------- MODULE AccountsProofs ----------------------------
(***************************************************************************)
(* Proofs about what is kept of an account: its profile, and the sessions  *)
(* and verifications the nightly prune deletes.                            *)
(***************************************************************************)
EXTENDS Profiles, AuthRetention, SequenceTheorems, FiniteSetTheorems, TLAPS

-----------------------------------------------------------------------------
\* The lesser of two numbers (LIMIT).
LEMMA MinOfTwo ==
  ASSUME NEW a \in Nat, NEW b \in Nat
  PROVE  Min({a, b}) = IF a <= b THEN a ELSE b
<1>1. \E x \in {a, b} : \A y \in {a, b} : x =< y
  OBVIOUS
<1>2. Min({a, b}) \in {a, b} /\ \A y \in {a, b} : Min({a, b}) =< y
  BY <1>1 DEF Min
<1> QED BY <1>2

\* What a deleted batch leaves: nothing, if it was not full.
LEMMA BatchGone ==
  ASSUME NEW ids, IsFiniteSet(ids), NEW due \in SUBSET ids, NEW b, ABatch(b, due), NEW k \in Nat,
         Backlog(ids, due, k)
  PROVE  /\ Backlog(ids, due \ b, k + 1)
         /\ Cardinality(b) # BATCH => due \ b = {}
<1>1. IsFiniteSet(due) /\ Cardinality(due) \in Nat /\ Cardinality(ids) \in Nat
  BY FS_Subset, FS_CardinalityType
<1>2. /\ b \subseteq due /\ IsFiniteSet(b) /\ Cardinality(b) \in Nat /\ due \cap b = b
      /\ Cardinality(b) = IF Cardinality(due) <= BATCH THEN Cardinality(due) ELSE BATCH
  <2>1. b \subseteq due /\ Cardinality(b) = Min({Cardinality(due), BATCH})
    BY DEF ABatch
  <2>2. IsFiniteSet(b) /\ Cardinality(b) \in Nat
    BY <1>1, <2>1, FS_Subset, FS_CardinalityType
  <2> QED BY <1>1, <2>1, <2>2, MinOfTwo, RetentionAssumption
<1>3. /\ IsFiniteSet(due \ b) /\ Cardinality(due \ b) = Cardinality(due) - Cardinality(b)
      /\ Cardinality(due \ b) = 0 <=> due \ b = {}
  <2>1. /\ IsFiniteSet(due \ b)
        /\ Cardinality(due \ b) = Cardinality(due) - Cardinality(due \cap b)
    BY Zenon, <1>1, FS_Difference
  <2>2. Cardinality(due \ b) = 0 <=> due \ b = {}
    BY <2>1, FS_EmptySet
  <2> QED BY <1>2, <2>1, <2>2
<1>4. CASE Cardinality(due) <= BATCH
  BY <1>1, <1>2, <1>3, <1>4 DEF Backlog
<1>5. CASE ~(Cardinality(due) <= BATCH)
  <2>1. due # {}
    BY <1>1, <1>5, FS_EmptySet, RetentionAssumption
  <2>2. BATCH * k + Cardinality(due) <= Cardinality(ids)
    BY <2>1 DEF Backlog
  <2>3. BATCH * (k + 1) = BATCH * k + BATCH /\ BATCH * k \in Nat
    BY RetentionAssumption
  <2>4. BATCH * (k + 1) + Cardinality(due \ b) <= Cardinality(ids)
    <3> DEFINE bk == BATCH * k
               bk1 == BATCH * (k + 1)
    <3>1. bk \in Nat /\ bk1 = bk + BATCH /\ bk + Cardinality(due) <= Cardinality(ids)
      BY <2>2, <2>3
    <3> HIDE DEF bk, bk1
    <3>2. bk1 + Cardinality(due \ b) <= Cardinality(ids)
      BY <1>1, <1>2, <1>3, <1>5, <3>1, RetentionAssumption
    <3> QED BY <3>2 DEF bk1
  <2> QED BY <1>2, <1>5, <2>4 DEF Backlog
<1> QED BY <1>4, <1>5

\* A row that is issued, or renewed while it is accepted, is not due before and
\* not due afterwards.
LEMMA RenewedIsNotDue ==
  ASSUME NEW ids, NEW rows \in [ids -> 0..Gone], NEW x \in ids, NEW h \in 0..LastHour, NEW c \in 0..h,
         rows[x] = 0 \/ rows[x] >= h,
         NEW new \in [ids -> 0..Gone], new[x] = h + Lifetime, \A y \in ids \ {x} : new[y] = rows[y]
  PROVE  Overdue(new, c) = Overdue(rows, c)
<1>1. ~(new[x] < c) /\ Gone \in Nat
  BY RetentionAssumption DEF Gone
<1>2. rows[x] \in Nat /\ (rows[x] = 0 \/ ~(rows[x] < c))
  BY <1>1
<1>3. \A y \in ids : new[y] # 0 /\ new[y] < c <=> rows[y] # 0 /\ rows[y] < c
  BY <1>1, <1>2
<1> QED BY <1>3 DEF Overdue

\* What a DELETE leaves due.
LEMMA DeletedIsNotDue ==
  ASSUME NEW ids, NEW rows \in [ids -> 0..Gone], NEW b, NEW c \in 0..LastHour
  PROVE  LET new == [x \in ids |-> IF x \in b THEN Gone ELSE rows[x]] IN
         new \in [ids -> 0..Gone] /\ Overdue(new, c) = Overdue(rows, c) \ b
<1>1. Gone \in Nat /\ Gone \in 0..Gone /\ ~(Gone < c)
  BY RetentionAssumption DEF Gone
<1> QED BY <1>1 DEF Overdue

\* The cutoffs of a run lie in the past.
LEMMA Cutoffs ==
  ASSUME RetentionInv, pruning.at # "idle"
  PROVE  /\ pruning.now - GRACE \in 0..hour /\ pruning.now \in 0..hour
         /\ hour \in 0..LastHour
         /\ DueSessions \in SUBSET SessionIds /\ DueVerifications \in SUBSET VerificationIds
         /\ \A s \in DueSessions : sessions[s] # 0 /\ sessions[s] < hour
         /\ \A v \in DueVerifications : verifications[v] # 0 /\ verifications[v] < hour
<1>1. pruning.now - GRACE \in 0..hour /\ pruning.now \in 0..hour /\ hour \in 0..LastHour
  BY RetentionAssumption DEF RetentionInv
<1>2. /\ DOMAIN sessions = SessionIds /\ DOMAIN verifications = VerificationIds
      /\ \A s \in SessionIds : sessions[s] \in Nat
      /\ \A v \in VerificationIds : verifications[v] \in Nat
  BY DEF RetentionInv
<1> DEFINE c == pruning.now - GRACE
           n == pruning.now
<1>3. DueSessions = Overdue(sessions, c) /\ DueVerifications = Overdue(verifications, n)
  BY DEF DueSessions, DueVerifications
<1>4. c \in 0..hour /\ n \in 0..hour
  BY <1>1
<1> HIDE DEF c, n
<1> QED BY <1>1, <1>2, <1>3, <1>4 DEF Overdue

\* Better Auth and the clock: nothing that is due becomes acceptable, and nothing
\* else becomes due before the cutoff of the run.
LEMMA OutsideStep ==
  ASSUME RetentionInv, pruning' = pruning, cutLive' = cutLive, hour' \in 0..LastHour, hour <= hour',
         sessions' \in [SessionIds -> 0..Gone], verifications' \in [VerificationIds -> 0..Gone],
         pruning.at # "idle" => DueSessions' = DueSessions /\ DueVerifications' = DueVerifications
  PROVE  RetentionInv'
<1>1. GRACE < hour' /\ ~cutLive' /\ (pruning'.at # "idle" => GRACE < pruning'.now /\ pruning'.now <= hour')
  BY RetentionAssumption DEF RetentionInv
<1>2. CASE pruning.at = "idle"
  BY <1>1, <1>2 DEF RetentionInv, AtSessions, AtVerifications
<1>3. CASE pruning.at # "idle"
  BY <1>1, <1>3 DEF RetentionInv, AtSessions, AtVerifications
<1> QED BY <1>2, <1>3

\* An hour passes, a session is used, a verification is issued.
LEMMA OutsideSteps ==
  ASSUME RetentionInv, \/ HourPasses
                       \/ \E s \in SessionIds : SessionUsed(s)
                       \/ \E v \in VerificationIds : VerificationIssued(v)
  PROVE  RetentionInv'
<1>1. CASE HourPasses
  <2>1. hour' \in 0..LastHour /\ hour <= hour'
    BY <1>1, RetentionAssumption DEF HourPasses, RetentionInv
  <2>2. DueSessions' = DueSessions /\ DueVerifications' = DueVerifications
    BY <1>1 DEF HourPasses, DueSessions, DueVerifications, Overdue
  <2> QED BY <1>1, <2>1, <2>2, OutsideStep DEF HourPasses, RetentionInv
<1>2. ASSUME NEW s \in SessionIds, SessionUsed(s) PROVE RetentionInv'
  <2>1. /\ sessions' = [sessions EXCEPT ![s] = hour + Lifetime] /\ sessions \in [SessionIds -> 0..Gone]
        /\ sessions[s] = 0 \/ sessions[s] >= hour
        /\ hour \in 0..LastHour /\ hour \in 0..hour /\ hour <= hour
        /\ UNCHANGED <<hour, verifications, pruning, cutLive>>
    BY <1>2 DEF SessionUsed, RetentionInv
  <2>2. sessions' \in [SessionIds -> 0..Gone]
    <3>1. hour + Lifetime \in 0..Gone
      BY <2>1, RetentionAssumption DEF Gone
    <3> QED BY <2>1, <3>1
  <2>3. pruning.at # "idle" => DueSessions' = DueSessions
    <3> SUFFICES ASSUME pruning.at # "idle" PROVE DueSessions' = DueSessions
      OBVIOUS
    <3>1. pruning.now - GRACE \in 0..hour
      BY Cutoffs
    <3>2. ASSUME NEW c \in 0..hour PROVE Overdue(sessions', c) = Overdue(sessions, c)
      <4>1. /\ sessions' \in [SessionIds -> 0..Gone] /\ sessions'[s] = hour + Lifetime
            /\ \A y \in SessionIds \ {s} : sessions'[y] = sessions[y]
        BY <2>1, <2>2
      <4>2. PICK h \in 0..LastHour, old \in [SessionIds -> 0..Gone], new \in [SessionIds -> 0..Gone] :
              h = hour /\ old = sessions /\ new = sessions'
        BY Zenon, <2>1, <4>1
      <4>3. /\ c \in 0..h /\ (old[s] = 0 \/ old[s] >= h)
            /\ new[s] = h + Lifetime /\ \A y \in SessionIds \ {s} : new[y] = old[y]
        BY <2>1, <4>1, <4>2
      <4>4. Overdue(new, c) = Overdue(old, c)
        BY <4>3, RenewedIsNotDue
      <4> QED BY <4>2, <4>4
    <3> QED BY Zenon, <2>1, <3>1, <3>2 DEF DueSessions
  <2>4. DueVerifications' = DueVerifications
    BY <2>1 DEF DueVerifications, Overdue
  <2> QED BY <2>1, <2>2, <2>3, <2>4, OutsideStep DEF RetentionInv
<1>3. ASSUME NEW v \in VerificationIds, VerificationIssued(v) PROVE RetentionInv'
  <2>1. /\ verifications' = [verifications EXCEPT ![v] = hour + Lifetime]
        /\ verifications \in [VerificationIds -> 0..Gone] /\ verifications[v] = 0
        /\ hour \in 0..LastHour /\ hour \in 0..hour /\ hour <= hour
        /\ UNCHANGED <<hour, sessions, pruning, cutLive>>
    BY <1>3 DEF VerificationIssued, RetentionInv
  <2>2. verifications' \in [VerificationIds -> 0..Gone]
    <3>1. hour + Lifetime \in 0..Gone
      BY <2>1, RetentionAssumption DEF Gone
    <3> QED BY <2>1, <3>1
  <2>3. pruning.at # "idle" => DueVerifications' = DueVerifications
    <3> SUFFICES ASSUME pruning.at # "idle" PROVE DueVerifications' = DueVerifications
      OBVIOUS
    <3>1. pruning.now \in 0..hour
      BY Cutoffs
    <3>2. ASSUME NEW c \in 0..hour PROVE Overdue(verifications', c) = Overdue(verifications, c)
      <4>1. /\ verifications' \in [VerificationIds -> 0..Gone] /\ verifications'[v] = hour + Lifetime
            /\ \A y \in VerificationIds \ {v} : verifications'[y] = verifications[y]
        BY <2>1, <2>2
      <4>2. PICK h \in 0..LastHour, old \in [VerificationIds -> 0..Gone], new \in [VerificationIds -> 0..Gone] :
              h = hour /\ old = verifications /\ new = verifications'
        BY Zenon, <2>1, <4>1
      <4>3. /\ c \in 0..h /\ (old[v] = 0 \/ old[v] >= h)
            /\ new[v] = h + Lifetime /\ \A y \in VerificationIds \ {v} : new[y] = old[y]
        BY <2>1, <4>1, <4>2
      <4>4. Overdue(new, c) = Overdue(old, c)
        BY <4>3, RenewedIsNotDue
      <4> QED BY <4>2, <4>4
    <3> QED BY Zenon, <2>1, <3>1, <3>2 DEF DueVerifications
  <2>4. DueSessions' = DueSessions
    BY <2>1 DEF DueSessions, Overdue
  <2> QED BY <2>1, <2>2, <2>3, <2>4, OutsideStep DEF RetentionInv
<1> QED BY <1>1, <1>2, <1>3

PruneType ==
  [at : {"idle", "pick-sessions", "sessions", "pick-verifications", "verifications", "ended"},
   now : 0..LastHour, pass : 0..(MAX_PRUNE_PASSES - 1),
   picked : SUBSET (SessionIds \cup VerificationIds), full : BOOLEAN]

\* A run begins, or has ended.
LEMMA RunStep ==
  ASSUME RetentionInv, pruneUntilIdle \/ NightEnds
  PROVE  RetentionInv'
<1>1. NotPruning \in PruneType /\ NotPruning.at = "idle" /\ NotPruning.pass = 0
  BY RetentionAssumption DEF NotPruning, PruneType
<1>2. UNCHANGED <<hour, sessions, verifications, cutLive>>
  BY DEF pruneUntilIdle, NightEnds
<1>3. CASE NightEnds
  BY <1>1, <1>2, <1>3 DEF NightEnds, RetentionInv, PruneType, AtSessions, AtVerifications
<1>4. CASE pruneUntilIdle
  <2>1. /\ pruning' \in PruneType /\ pruning'.at = "pick-sessions" /\ pruning'.now = hour
        /\ pruning'.pass = 0
    BY Zenon, <1>1, <1>4 DEF pruneUntilIdle, RetentionInv, PruneType
  <2>2. BATCH * 0 = 0
    BY RetentionAssumption
  <2>3. ASSUME NEW ids, IsFiniteSet(ids), NEW due \in SUBSET ids PROVE Backlog(ids, due, 0)
    BY <2>2, <2>3, FS_Subset, FS_CardinalityType DEF Backlog
  <2>4. DueSessions' \in SUBSET SessionIds /\ DueVerifications' \in SUBSET VerificationIds
    BY <1>2 DEF DueSessions, DueVerifications, Overdue, RetentionInv
  <2>5. Backlog(SessionIds, DueSessions, pruning.pass)' /\ Backlog(VerificationIds, DueVerifications, pruning.pass)'
    BY <2>1, <2>3, <2>4, RetentionAssumption
  <2> QED BY <1>2, <2>1, <2>5 DEF RetentionInv, PruneType, AtSessions, AtVerifications
<1> QED BY <1>3, <1>4

\* A statement picks its rows.
LEMMA PickStep ==
  ASSUME RetentionInv, PickSessions \/ PickVerifications
  PROVE  RetentionInv'
<1>1. CASE PickSessions
  <2>1. PICK b \in Batches(sessions, pruning.now - GRACE) : pruning' = [pruning EXCEPT !.at = "sessions", !.picked = b]
    BY Zenon, <1>1 DEF PickSessions, Pick, Cutoff
  <2>2. pruning.at = "pick-sessions" /\ UNCHANGED <<hour, sessions, verifications, cutLive>>
    BY Zenon, <1>1 DEF PickSessions, Pick
  <2>3. ABatch(b, DueSessions) /\ b \in SUBSET SessionIds
    BY <2>2, Cutoffs DEF Batches, ABatch, DueSessions
  <2>4. /\ pruning' \in PruneType /\ pruning'.at = "sessions" /\ pruning'.picked = b
        /\ pruning'.now = pruning.now /\ pruning'.pass = pruning.pass
    BY Zenon, <2>1, <2>3 DEF RetentionInv, PruneType
  <2>5. DueSessions' = DueSessions /\ DueVerifications' = DueVerifications
    BY <2>2, <2>4 DEF DueSessions, DueVerifications, Overdue
  <2> QED BY <2>2, <2>3, <2>4, <2>5 DEF RetentionInv, PruneType, AtSessions, AtVerifications
<1>2. CASE PickVerifications
  <2>1. PICK b \in Batches(verifications, pruning.now) : pruning' = [pruning EXCEPT !.at = "verifications", !.picked = b]
    BY Zenon, <1>2 DEF PickVerifications, Pick, Cutoff
  <2>2. pruning.at = "pick-verifications" /\ UNCHANGED <<hour, sessions, verifications, cutLive>>
    BY Zenon, <1>2 DEF PickVerifications, Pick
  <2>3. ABatch(b, DueVerifications) /\ b \in SUBSET VerificationIds
    BY <2>2, Cutoffs DEF Batches, ABatch, DueVerifications
  <2>4. /\ pruning' \in PruneType /\ pruning'.at = "verifications" /\ pruning'.picked = b
        /\ pruning'.now = pruning.now /\ pruning'.pass = pruning.pass /\ pruning'.full = pruning.full
    BY Zenon, <2>1, <2>3 DEF RetentionInv, PruneType
  <2>5. DueSessions' = DueSessions /\ DueVerifications' = DueVerifications
    BY <2>2, <2>4 DEF DueSessions, DueVerifications, Overdue
  <2> QED BY <2>2, <2>3, <2>4, <2>5 DEF RetentionInv, PruneType, AtSessions, AtVerifications
<1> QED BY <1>1, <1>2

\* A statement deletes the rows it picked: they had expired, and no renewal has
\* come between, because an expired session is not accepted.
LEMMA DeleteSessionsStep ==
  ASSUME RetentionInv, DeleteSessions
  PROVE  RetentionInv'
<1>1. /\ pruning.at = "sessions" /\ UNCHANGED <<hour, verifications>>
      /\ sessions' = [s \in SessionIds |-> IF s \in pruning.picked THEN Gone ELSE sessions[s]]
      /\ cutLive' = (cutLive \/ \E s \in pruning.picked : sessions[s] >= hour)
      /\ pruning' = [pruning EXCEPT !.at = "pick-verifications", !.picked = {}, !.full = Filled]
  BY DEF DeleteSessions
<1>2. ABatch(pruning.picked, DueSessions) /\ pruning.picked \subseteq DueSessions
  BY <1>1 DEF RetentionInv, ABatch
<1>3. ~cutLive'
  <2>1. \A s \in pruning.picked : sessions[s] \in Nat /\ sessions[s] < hour /\ hour \in Nat
    BY <1>1, <1>2, Cutoffs DEF RetentionInv
  <2>2. ~\E s \in pruning.picked : sessions[s] >= hour
    BY <2>1
  <2>3. ~cutLive
    BY DEF RetentionInv
  <2> QED BY <1>1, <2>2, <2>3, Zenon
<1>4. /\ pruning' \in PruneType /\ pruning'.at = "pick-verifications"
      /\ pruning'.full = Filled /\ pruning'.now = pruning.now /\ pruning'.pass = pruning.pass
  <2>1. Filled \in BOOLEAN
    BY DEF Filled
  <2> QED BY Zenon, <1>1, <2>1 DEF RetentionInv, PruneType
<1>5. sessions' \in [SessionIds -> 0..Gone] /\ DueSessions' = DueSessions \ pruning.picked
  <2>1. pruning.now - GRACE \in 0..LastHour /\ sessions \in [SessionIds -> 0..Gone]
    <3>1. pruning.now - GRACE \in 0..hour /\ hour \in 0..LastHour
      BY <1>1, Cutoffs
    <3> QED BY <3>1, RetentionAssumption DEF RetentionInv
  <2>2. ASSUME NEW c \in 0..LastHour
        PROVE  sessions' \in [SessionIds -> 0..Gone] /\ Overdue(sessions', c) = Overdue(sessions, c) \ pruning.picked
    BY SMTT(30), <1>1, <2>1, DeletedIsNotDue
  <2> QED BY <1>4, <2>1, <2>2 DEF DueSessions
<1>6. DueVerifications' = DueVerifications
  BY <1>1, <1>4 DEF DueVerifications, Overdue
<1>7. /\ Backlog(SessionIds, DueSessions', pruning.pass + 1)
      /\ ~Filled => DueSessions' = {}
  <2>1. pruning.pass \in Nat /\ Backlog(SessionIds, DueSessions, pruning.pass) /\ DueSessions \in SUBSET SessionIds
    BY <1>1, Cutoffs DEF RetentionInv, AtSessions
  <2>2. Backlog(SessionIds, DueSessions \ pruning.picked, pruning.pass + 1)
        /\ (Cardinality(pruning.picked) # BATCH => DueSessions \ pruning.picked = {})
    <3>1. IsFiniteSet(SessionIds)
      BY RetentionAssumption
    <3>2. ASSUME NEW k \in Nat, NEW due \in SUBSET SessionIds, NEW b, ABatch(b, due), Backlog(SessionIds, due, k)
          PROVE  Backlog(SessionIds, due \ b, k + 1) /\ (Cardinality(b) # BATCH => due \ b = {})
      BY <3>1, <3>2, BatchGone
    <3>3. PICK k \in Nat, due \in SUBSET SessionIds, b \in SUBSET DueSessions :
            k = pruning.pass /\ due = DueSessions /\ b = pruning.picked
      BY <1>2, <2>1
    <3>4. ABatch(b, due) /\ Backlog(SessionIds, due, k)
      BY <1>2, <2>1, <3>3
    <3>5. Backlog(SessionIds, due \ b, k + 1) /\ (Cardinality(b) # BATCH => due \ b = {})
      BY Zenon, <3>2, <3>4
    <3> QED BY <3>3, <3>5
  <2> QED BY <1>5, <2>2 DEF Filled
<1>8. Backlog(VerificationIds, DueVerifications', pruning.pass)
  BY <1>1, <1>6 DEF RetentionInv, AtSessions
<1> QED BY <1>1, <1>3, <1>4, <1>5, <1>7, <1>8 DEF RetentionInv, PruneType, AtSessions, AtVerifications

\* The same of the verifications, after which the run goes on or ends.
LEMMA DeleteVerificationsStep ==
  ASSUME RetentionInv, DeleteVerifications
  PROVE  RetentionInv'
<1>1. /\ pruning.at = "verifications" /\ UNCHANGED <<hour, sessions>>
      /\ verifications' = [v \in VerificationIds |-> IF v \in pruning.picked THEN Gone ELSE verifications[v]]
      /\ cutLive' = (cutLive \/ \E v \in pruning.picked : verifications[v] >= hour)
      /\ pruning' = IF MorePasses
                    THEN [pruning EXCEPT !.at = "pick-sessions", !.pass = @ + 1, !.picked = {}, !.full = FALSE]
                    ELSE [NotPruning EXCEPT !.at = "ended", !.now = pruning.now]
  BY DEF DeleteVerifications
<1>2. ABatch(pruning.picked, DueVerifications) /\ pruning.picked \subseteq DueVerifications
  BY <1>1 DEF RetentionInv, ABatch
<1>3. ~cutLive'
  <2>1. \A v \in pruning.picked : verifications[v] \in Nat /\ verifications[v] < hour /\ hour \in Nat
    BY <1>1, <1>2, Cutoffs DEF RetentionInv
  <2>2. ~\E v \in pruning.picked : verifications[v] >= hour
    BY <2>1
  <2>3. ~cutLive
    BY DEF RetentionInv
  <2> QED BY <1>1, <2>2, <2>3, Zenon
<1>4. /\ pruning' \in PruneType /\ pruning'.now = pruning.now
      /\ MorePasses => pruning'.at = "pick-sessions" /\ pruning'.pass = pruning.pass + 1
      /\ ~MorePasses => pruning'.at = "ended"
  <2>1. CASE MorePasses
    <3>1. pruning.pass + 1 \in 0..(MAX_PRUNE_PASSES - 1)
      BY <2>1, RetentionAssumption DEF MorePasses, RetentionInv
    <3> QED BY Zenon, <1>1, <2>1, <3>1 DEF RetentionInv, PruneType
  <2>2. CASE ~MorePasses
    <3>1. NotPruning \in PruneType /\ pruning.now \in 0..LastHour
      BY RetentionAssumption DEF RetentionInv, PruneType, NotPruning
    <3>2. pruning' = [NotPruning EXCEPT !.at = "ended", !.now = pruning.now]
      BY <1>1, <2>2
    <3> QED BY Zenon, <2>2, <3>1, <3>2 DEF PruneType
  <2> QED BY <2>1, <2>2
<1>5. verifications' \in [VerificationIds -> 0..Gone] /\ DueVerifications' = DueVerifications \ pruning.picked
  <2>1. pruning.now \in 0..LastHour /\ verifications \in [VerificationIds -> 0..Gone]
    BY <1>1, Cutoffs DEF RetentionInv
  <2>2. ASSUME NEW c \in 0..LastHour
        PROVE  /\ verifications' \in [VerificationIds -> 0..Gone]
               /\ Overdue(verifications', c) = Overdue(verifications, c) \ pruning.picked
    BY <1>1, <2>1, DeletedIsNotDue
  <2> QED BY <1>4, <2>1, <2>2 DEF DueVerifications
<1>6. DueSessions' = DueSessions
  BY <1>1, <1>4 DEF DueSessions, Overdue
<1>7. /\ Backlog(VerificationIds, DueVerifications', pruning.pass + 1)
      /\ ~Filled => DueVerifications' = {}
  <2>1. pruning.pass \in Nat /\ Backlog(VerificationIds, DueVerifications, pruning.pass)
        /\ DueVerifications \in SUBSET VerificationIds
    BY <1>1, Cutoffs DEF RetentionInv, AtVerifications
  <2>2. Backlog(VerificationIds, DueVerifications \ pruning.picked, pruning.pass + 1)
        /\ (Cardinality(pruning.picked) # BATCH => DueVerifications \ pruning.picked = {})
    <3>1. IsFiniteSet(VerificationIds)
      BY Zenon, RetentionAssumption
    <3>2. ASSUME NEW k \in Nat, NEW due \in SUBSET VerificationIds, NEW b, ABatch(b, due), Backlog(VerificationIds, due, k)
          PROVE  Backlog(VerificationIds, due \ b, k + 1) /\ (Cardinality(b) # BATCH => due \ b = {})
      BY <3>1, <3>2, BatchGone
    <3>3. PICK k \in Nat, due \in SUBSET VerificationIds, b \in SUBSET DueVerifications :
            k = pruning.pass /\ due = DueVerifications /\ b = pruning.picked
      BY <1>2, <2>1
    <3>4. ABatch(b, due) /\ Backlog(VerificationIds, due, k)
      BY <1>2, <2>1, <3>3
    <3>5. Backlog(VerificationIds, due \ b, k + 1) /\ (Cardinality(b) # BATCH => due \ b = {})
      BY Zenon, <3>2, <3>4
    <3> QED BY <3>3, <3>5
  <2> QED BY <1>5, <2>2 DEF Filled
<1>8. Backlog(SessionIds, DueSessions', pruning.pass + 1) /\ (~pruning.full => DueSessions' = {})
  BY <1>1, <1>6 DEF RetentionInv, AtVerifications
<1>9. ~MorePasses => /\ Backlog(SessionIds, DueSessions', MAX_PRUNE_PASSES)
                     /\ Backlog(VerificationIds, DueVerifications', MAX_PRUNE_PASSES)
  <2>1. pruning.pass + 1 = MAX_PRUNE_PASSES \/ pruning.pass + 1 < MAX_PRUNE_PASSES
    BY RetentionAssumption DEF RetentionInv
  <2>2. CASE pruning.pass + 1 = MAX_PRUNE_PASSES
    BY <1>7, <1>8, <2>2
  <2>3. CASE ~pruning.full /\ ~Filled
    BY <1>7, <1>8, <2>3 DEF Backlog
  <2> QED BY <2>1, <2>2, <2>3 DEF MorePasses
<1>10. CASE MorePasses
  BY Zenon, <1>1, <1>3, <1>4, <1>5, <1>7, <1>8, <1>10 DEF RetentionInv, PruneType, AtSessions, AtVerifications
<1>11. CASE ~MorePasses
  BY <1>1, <1>3, <1>4, <1>5, <1>9, <1>11 DEF RetentionInv, PruneType, AtSessions, AtVerifications
<1> QED BY <1>10, <1>11

\* The invariant of the nightly prune.
THEOREM RetentionInvariant == RetentionSpec => []RetentionInv
<1>1. ASSUME RetentionInit PROVE RetentionInv
  <2>1. NotPruning \in PruneType /\ NotPruning.at = "idle"
    BY RetentionAssumption DEF NotPruning, PruneType
  <2>2. 0 \in 0..Gone /\ hour \in 0..LastHour /\ GRACE < hour
    BY <1>1, RetentionAssumption DEF Gone, RetentionInit
  <2> QED BY <1>1, <2>1, <2>2 DEF RetentionInit, RetentionInv, PruneType, AtSessions, AtVerifications
<1>2. ASSUME RetentionInv, [RetentionNext]_retentionVars PROVE RetentionInv'
  <2>1. CASE UNCHANGED retentionVars
    <3>1. UNCHANGED <<hour, sessions, verifications, pruning, cutLive>>
      BY <2>1 DEF retentionVars
    <3>2. DueSessions' = DueSessions /\ DueVerifications' = DueVerifications
      BY <3>1 DEF DueSessions, DueVerifications, Overdue
    <3> QED BY <1>2, <3>1, <3>2 DEF RetentionInv, AtSessions, AtVerifications
  <2>2. CASE RetentionNext
    BY <1>2, <2>2, OutsideSteps, RunStep, PickStep, DeleteSessionsStep, DeleteVerificationsStep
       DEF RetentionNext, Pruning
  <2> QED BY <1>2, <2>1, <2>2
<1> QED BY <1>1, <1>2, PTL DEF RetentionSpec

\* For tables of any size, any batch and any pass budget: the nightly job deletes
\* only rows nobody could use any more, runs no more passes than its budget, and
\* leaves nothing that was overdue when it began if the budget covers the tables
\* (pruneUntilIdle, pruneExpired).
THEOREM PruneIsExact == RetentionSpec => [](RetentionTypeOK /\ OverdueAndNoMore)
<1>1. ASSUME RetentionInv PROVE RetentionTypeOK
  BY <1>1 DEF RetentionInv, RetentionTypeOK
<1>2. ASSUME RetentionInv PROVE OverdueAndNoMore
  <2>1. ~cutLive
    BY <1>2 DEF RetentionInv
  <2>2. ASSUME NEW ids, IsFiniteSet(ids), NEW due \in SUBSET ids, Backlog(ids, due, MAX_PRUNE_PASSES),
               Cardinality(ids) < BATCH * MAX_PRUNE_PASSES
        PROVE  due = {}
    <3>1. Cardinality(due) \in Nat /\ Cardinality(ids) \in Nat
      BY <2>2, FS_Subset, FS_CardinalityType
    <3>2. BATCH * MAX_PRUNE_PASSES \in Nat
      BY RetentionAssumption
    <3> QED BY <2>2, <3>1, <3>2 DEF Backlog
  <2>3. ASSUME pruning.at = "ended", Cardinality(SessionIds) < BATCH * MAX_PRUNE_PASSES,
               Cardinality(VerificationIds) < BATCH * MAX_PRUNE_PASSES
        PROVE  DueSessions = {} /\ DueVerifications = {}
    <3>1. /\ Backlog(SessionIds, DueSessions, MAX_PRUNE_PASSES)
          /\ Backlog(VerificationIds, DueVerifications, MAX_PRUNE_PASSES)
          /\ DueSessions \in SUBSET SessionIds /\ DueVerifications \in SUBSET VerificationIds
      BY <1>2, <2>3, Cutoffs DEF RetentionInv
    <3> QED BY <2>2, <2>3, <3>1, RetentionAssumption
  <2> QED BY <2>1, <2>3 DEF OverdueAndNoMore, DueSessions, DueVerifications
<1> QED BY <1>1, <1>2, RetentionInvariant, PTL

USE DEF Text

-----------------------------------------------------------------------------
(* Names.                                                                  *)

\* A set of natural numbers that has an element has a least one.
LEMMA LeastExists ==
  ASSUME NEW K \in SUBSET Nat, K # {}
  PROVE  Min(K) \in K /\ \A y \in K : Min(K) <= y
<1>1. PICK x \in K : \A y \in K : ~(<<y, x>> \in OpToRel(<, Nat))
  BY NatLessThanWellFounded, WFMin, Zenon
<1>2. ASSUME NEW y \in K PROVE x <= y
  <2>1. x \in Nat /\ y \in Nat
    OBVIOUS
  <2>2. <<y, x>> \in OpToRel(<, Nat) <=> y < x
    BY <2>1 DEF OpToRel
  <2>3. ~(y < x)
    BY <1>1, <2>2, Zenon
  <2> QED BY <2>1, <2>3
<1> QED BY Zenon, <1>2 DEF Min

\* And one that has a bound has a greatest one.
LEMMA GreatestExists ==
  ASSUME NEW n \in Nat, NEW K \in SUBSET (0..n), K # {}
  PROVE  Max(K) \in K /\ \A y \in K : Max(K) >= y
<1> DEFINE M == {m \in Nat : n - m \in K}
<1>1. \A x \in K : n - x \in M
  OBVIOUS
<1>2. M \in SUBSET Nat /\ M # {}
  BY Zenon, <1>1
<1>3. PICK m \in M : \A y \in M : m <= y
  <2> HIDE DEF M
  <2> QED BY Zenon, <1>2, LeastExists
<1>4. n - m \in K /\ \A y \in K : n - m >= y
  BY <1>1, <1>3
<1> QED BY Zenon, <1>4 DEF Max

\* The characters of a text that are not white space.
Kept(t) == {i \in DOMAIN t : t[i] \notin Space}

\* A text that begins and ends with something is left as it is.
LEMMA TrimKeeps ==
  ASSUME NEW t \in Text, t = <<>> \/ (1 \in Kept(t) /\ Len(t) \in Kept(t))
  PROVE  trim(t) = t
<1>1. Kept(t) \subseteq 1..Len(t)
  BY DEF Kept
<1>2. CASE t = <<>>
  BY <1>2 DEF trim, Kept
<1>3. CASE 1 \in Kept(t) /\ Len(t) \in Kept(t)
  <2>1. Min(Kept(t)) = 1
    BY <1>1, <1>3, LeastExists
  <2>2. Max(Kept(t)) = Len(t)
    <3>1. Kept(t) \in SUBSET (0..Len(t)) /\ Len(t) \in Nat /\ Kept(t) # {}
      BY <1>1, <1>3
    <3>2. Max(Kept(t)) \in Kept(t) /\ Max(Kept(t)) >= Len(t)
      BY Zenon, <1>3, <3>1, GreatestExists
    <3> QED BY <1>1, <3>1, <3>2
  <2> QED BY Zenon, <1>3, <2>1, <2>2, SubSeqFull DEF trim, Kept
<1> QED BY <1>2, <1>3

\* A trimmed text begins and ends with something, so that trimming it again
\* changes nothing.
LEMMA TrimTwice ==
  ASSUME NEW t \in Text
  PROVE  trim(t) \in Text /\ trim(trim(t)) = trim(t)
<1>1. CASE Kept(t) = {}
  <2>1. trim(t) = <<>> /\ <<>> \in Text
    BY <1>1 DEF trim, Kept
  <2> QED BY Zenon, <2>1, TrimKeeps
<1>2. CASE Kept(t) # {}
  <2> DEFINE a == Min(Kept(t))
             b == Max(Kept(t))
             u == SubSeq(t, a, b)
  <2>1. Kept(t) \in SUBSET (0..Len(t)) /\ Kept(t) \in SUBSET (1..Len(t)) /\ Len(t) \in Nat
    BY DEF Kept
  <2>2. a \in Kept(t) /\ b \in Kept(t) /\ a <= b
    <3>1. Kept(t) \in SUBSET Nat
      BY <2>1
    <3>2. a \in Kept(t) /\ \A y \in Kept(t) : a <= y
      BY <1>2, <3>1, LeastExists
    <3>3. b \in Kept(t)
      BY Zenon, <1>2, <2>1, GreatestExists
    <3> QED BY <3>2, <3>3
  <2>3. trim(t) = u
    BY Zenon, <1>2 DEF trim, Kept
  <2> HIDE DEF a, b
  <2>4. a \in 1..Len(t) /\ b \in 1..Len(t) /\ \A i \in a..b : t[i] \in Characters
    BY <2>1, <2>2
  <2>5. /\ u \in Text /\ Len(u) = b - a + 1
        /\ \A i \in 1..(b - a + 1) : u[i] = t[a + i - 1]
    BY <2>2, <2>4, SubSeqProperties
  <2> HIDE DEF u
  <2>6. u[1] = t[a] /\ u[Len(u)] = t[b] /\ 1 \in DOMAIN u /\ Len(u) \in DOMAIN u
    BY <2>2, <2>4, <2>5
  <2>7. 1 \in Kept(u) /\ Len(u) \in Kept(u)
    BY <2>2, <2>6 DEF Kept
  <2> QED BY <2>3, <2>5, <2>7, TrimKeeps
<1> QED BY <1>1, <1>2

\* What a name is: DisplayName.of gives it back.
ValidName(n) == n \in Text /\ DisplayNameOf(n) = <<n>>

\* A name that DisplayName.of has accepted it accepts again, as it is.
LEMMA AcceptedIsValid ==
  ASSUME NEW raw \in Text, DisplayNameOf(raw) # <<>>
  PROVE  DisplayNameOf(raw)[1] = trim(raw) /\ ValidName(trim(raw))
<1>1. /\ ~(Len(trim(raw)) < MIN_LENGTH \/ Len(trim(raw)) > MAX_LENGTH
             \/ containsControlCharacter(trim(raw)))
      /\ DisplayNameOf(raw) = <<trim(raw)>>
  BY DEF DisplayNameOf
<1>2. trim(raw) \in Text /\ trim(trim(raw)) = trim(raw)
  BY TrimTwice
<1> QED BY <1>1, <1>2 DEF DisplayNameOf, ValidName

\* A name has a length within the bounds.
LEMMA ValidLength ==
  ASSUME NEW n, ValidName(n)
  PROVE  Len(n) \in MIN_LENGTH..MAX_LENGTH
<1>1. Len(n) \in Nat /\ MIN_LENGTH \in Nat /\ MAX_LENGTH \in Nat
  BY ProfilesAssumption DEF ValidName
<1>2. trim(n) = n /\ ~(Len(n) < MIN_LENGTH \/ Len(n) > MAX_LENGTH)
  BY DEF ValidName, DisplayNameOf
<1> QED BY <1>1, <1>2

\* The name made from an address is one: defaultDisplayName needs no check.
LEMMA DefaultNameIsValid ==
  ASSUME NEW l \in LocalParts
  PROVE  /\ DisplayNameOf(defaultDisplayName(l)) = <<defaultDisplayName(l)>>
         /\ defaultDisplayName(l) \in Text
<1> DEFINE n == defaultDisplayName(l)
           user == <<"-", "u", "s", "e", "r">>
<1>1. /\ l \in Text /\ l # <<>> /\ Len(l) \in Nat /\ Len(l) >= 1
      /\ \A i \in 1..Len(l) : l[i] \in Characters /\ l[i] \notin Space \cup Control
  BY ProfilesAssumption
<1>2. /\ n \in Text
      /\ Len(n) >= MIN_LENGTH /\ Len(n) <= MAX_LENGTH /\ Len(n) >= 1
      /\ \A i \in 1..Len(n) : n[i] \notin Space \cup Control
  <2>1. CASE Len(l) >= 2
    <3> DEFINE m == IF Len(l) > MAX_LENGTH THEN MAX_LENGTH ELSE Len(l)
    <3>1. m \in Nat /\ m >= 2 /\ m <= Len(l) /\ m <= MAX_LENGTH
      BY <1>1, <2>1, ProfilesAssumption
    <3>2. n = SubSeq(l, 1, m)
      BY Zenon, <2>1 DEF defaultDisplayName
    <3> HIDE DEF m, n
    <3>3. \A i \in 1..m : l[i] \in Characters
      BY <1>1, <3>1
    <3>4. n \in Text /\ Len(n) = m /\ \A i \in 1..m : n[i] = l[i]
      BY <3>1, <3>2, <3>3, SubSeqProperties
    <3> QED BY <1>1, <3>1, <3>4, ProfilesAssumption
  <2>2. CASE ~(Len(l) >= 2)
    <3>1. n = l \o user
      BY <2>2 DEF defaultDisplayName
    <3>2. Len(l) = 1
      <4>1. \A k \in Nat : k >= 1 /\ ~(k >= 2) => k = 1
        OBVIOUS
      <4> QED BY <1>1, <2>2, <4>1, Zenon
    <3>3. user \in Text /\ Len(user) = 5
      BY ProfilesAssumption
    <3>4. \A i \in 1..5 : user[i] \in {"-", "u", "s", "e", "r"}
      OBVIOUS
    <3>5. {"-", "u", "s", "e", "r"} \cap (Space \cup Control) = {}
      BY DEF Space, Control
    <3> HIDE DEF user, n
    <3>6. /\ n \in Text /\ Len(n) = 6
          /\ \A i \in 1..6 : n[i] = IF i <= 1 THEN l[i] ELSE user[i - 1]
      <4>1. /\ n \in Text /\ Len(n) = Len(l) + Len(user)
            /\ \A i \in 1..(Len(l) + Len(user)) :
                 n[i] = IF i <= Len(l) THEN l[i] ELSE user[i - Len(l)]
        BY <1>1, <3>1, <3>3, ConcatProperties, Zenon
      <4> QED BY <3>2, <3>3, <4>1
    <3>7. \A i \in 1..6 : n[i] \notin Space \cup Control
      BY <1>1, <3>2, <3>4, <3>5, <3>6
    <3> QED BY <3>6, <3>7, ProfilesAssumption
  <2> QED BY <2>1, <2>2
<1> HIDE DEF n
<1>3. 1 \in Kept(n) /\ Len(n) \in Kept(n)
  BY <1>2 DEF Kept
<1>4. trim(n) = n
  BY <1>2, <1>3, TrimKeeps
<1>5. ~containsControlCharacter(n)
  BY <1>2 DEF containsControlCharacter
<1>6. ~(Len(n) < MIN_LENGTH) /\ ~(Len(n) > MAX_LENGTH)
  BY <1>2, ProfilesAssumption
<1> QED BY <1>2, <1>4, <1>5, <1>6 DEF DisplayNameOf, n

-----------------------------------------------------------------------------
(* Profiles.                                                               *)

\* An optional value is absent, or one value.
LEMMA OptionalValue ==
  ASSUME NEW S
  PROVE  /\ <<>> \in Optional(S)
         /\ \A x \in S : <<x>> \in Optional(S) /\ <<x>> # <<>> /\ <<x>>[1] = x
         /\ \A o \in Optional(S) : o # <<>> => o[1] \in S /\ o = <<o[1]>> /\ DOMAIN o = {1}
<1>1. \A o \in Optional(S) : o # <<>> => o[1] \in S /\ o = <<o[1]>> /\ DOMAIN o = {1}
  <2> TAKE o \in Optional(S)
  <2> HAVE o # <<>>
  <2>1. o \in Seq(S) /\ Len(o) \in Nat \ {0} /\ Len(o) <= 1
    BY EmptySeq DEF Optional
  <2>2. \A n \in Nat \ {0} : n <= 1 => n = 1
    OBVIOUS
  <2>3. Len(o) = 1
    BY Zenon, <2>1, <2>2
  <2> QED BY <2>1, <2>3
<1> QED BY <1>1 DEF Optional

\* What a request does to a profile is what its user asked for, once the name it
\* was given is accepted; doing it twice is doing it once.
LEMMA EditedAsAsked ==
  ASSUME NEW p \in ProfileRows, NEW e \in EditRows,
         e.name = <<>> \/ DisplayNameOf(e.name[1]) # <<>>
  PROVE  /\ Edited(p, e) = AsAsked(p, e) /\ AsAsked(p, e) \in ProfileRows
         /\ AsAsked(AsAsked(p, e), e) = AsAsked(p, e)
         /\ ValidName(p.name) => ValidName(AsAsked(p, e).name)
<1>1. /\ e.name # <<>> => e.name[1] \in Text
      /\ e.avatar # <<>> => e.avatar[1] \in Avatars \cup {0}
  BY OptionalValue DEF EditRows
<1>2. e.name # <<>> => /\ DisplayNameOf(e.name[1])[1] = trim(e.name[1])
                       /\ trim(e.name[1]) \in Text /\ ValidName(trim(e.name[1]))
  BY <1>1, AcceptedIsValid DEF ValidName
<1>3. p = [name |-> p.name, avatar |-> p.avatar] /\ p.name \in Text /\ p.avatar \in Avatars \cup {0}
  BY DEF ProfileRows
<1>4. Edited(p, e) = AsAsked(p, e)
  BY <1>1, <1>2, <1>3 DEF Edited, AsAsked, rename, changeAvatar, ProfileRows
<1>5. AsAsked(p, e) \in ProfileRows
  BY <1>1, <1>2, <1>3 DEF AsAsked, ProfileRows
<1>6. AsAsked(AsAsked(p, e), e) = AsAsked(p, e)
  BY DEF AsAsked
<1>7. ValidName(p.name) => ValidName(AsAsked(p, e).name)
  BY <1>2 DEF AsAsked
<1> QED BY <1>4, <1>5, <1>6, <1>7

\* The profile that a creation saves is sound.
LEMMA CreatedIsSound ==
  ASSUME NEW l \in LocalParts
  PROVE  Created(l) \in ProfileRows /\ ValidName(Created(l).name) /\ Created(l).avatar = 0
<1>1. ValidName(defaultDisplayName(l)) /\ DisplayNameOf(defaultDisplayName(l))[1] = defaultDisplayName(l)
  BY DefaultNameIsValid DEF ValidName
<1> QED BY <1>1 DEF Created, ProfileRows, ValidName

\* What the queue does to a job.
LEMMA JobSteps ==
  /\ Unsent \in Job /\ Sent \in Job /\ HasAttempts(Unsent) /\ HasAttempts(Sent)
  /\ Unsent.st = "unsent" /\ Sent.st = "waiting"
  /\ \A j \in Job :
       /\ Picked(j) \in Job /\ Completed(j) \in Job /\ Stalled(j) \in Job
       /\ Picked(j).st = "active" /\ Completed(j).st = "done" /\ Stalled(j).st = "waiting"
       /\ HasAttempts(Completed(j))
       /\ j.st \in {"waiting", "active"} /\ HasAttempts(j) =>
            /\ HasAttempts(Picked(j)) /\ HasAttempts(Stalled(j))
            /\ Failed(j) \in Job /\ HasAttempts(Failed(j)) /\ Failed(j).st \in {"waiting", "dead"}
BY AttemptsAssumption DEF Unsent, Sent, Job, Picked, Completed, Failed, Stalled, HasAttempts

\* The steps of the creation job, of the account and of the files.
LEMMA CreatorSteps ==
  ASSUME ProfilesInv, NEW j \in CreateJobs, CreateDeliver(j) \/ EnsureFind(j) \/ EnsureFails(j)
  PROVE  ProfilesInv'
<1> USE DEF ProfilesInv
<1>1. UNCHANGED <<account, local, profile, avatars, remove, edit, asked, crossed>>
  BY DEF CreateDeliver, EnsureFind, EnsureFails
<1>2. /\ create' \in [CreateJobs -> Job]
      /\ \A i \in CreateJobs : HasAttempts(create'[i])
      /\ looked' = {i \in CreateJobs : create'[i].st = "active"}
  <2>1. create \in [CreateJobs -> Job] /\ create[j] \in Job /\ HasAttempts(create[j])
        /\ looked = {i \in CreateJobs : create[i].st = "active"}
    BY DEF ProfilesTypeOK
  <2>2. CASE CreateDeliver(j)
    BY <2>1, <2>2, JobSteps DEF CreateDeliver
  <2>3. CASE EnsureFind(j)
    BY <2>1, <2>3, JobSteps DEF EnsureFind
  <2>4. CASE EnsureFails(j)
    BY <2>1, <2>4, JobSteps DEF EnsureFails
  <2> QED BY <2>2, <2>3, <2>4
<1>3. ProfilesTypeOK'
  BY ZenonT(30), <1>1, <1>2 DEF ProfilesTypeOK
<1>4. ASSUME NEW r \in Edits PROVE DraftIsSound(r)'
  <2>1. DraftIsSound(r)
    OBVIOUS
  <2> QED BY <1>1, <2>1 DEF DraftIsSound
<1>5. ProfileIsSound' /\ EditsAddUp'
  BY Zenon, <1>1 DEF ProfileIsSound, EditsAddUp
<1> QED BY Zenon, <1>1, <1>2, <1>3, <1>4, <1>5

\* The account goes and its profile with it; or its deletion job removes what is
\* left; or a file is settled.
LEMMA AccountSteps ==
  ASSUME ProfilesInv, DeleteAccount \/ DeleteProfile \/ \E f \in Avatars : SettleAvatar(f)
  PROVE  ProfilesInv'
<1> USE DEF ProfilesInv
<1>1. ASSUME DeleteAccount \/ DeleteProfile PROVE ProfilesInv'
  <2>1. /\ UNCHANGED <<local, avatars, create, looked, edit, asked, crossed>>
        /\ profile' \in {<<>>, profile}
        /\ account' \in {account, "deleted"} /\ (account' # account => profile' = <<>>)
    BY Zenon, <1>1 DEF DeleteAccount, DeleteProfile
  <2>2. remove' \in Job /\ HasAttempts(remove')
    BY <1>1, JobSteps DEF DeleteAccount, DeleteProfile, ProfilesTypeOK
  <2>3. ProfilesTypeOK'
    BY ZenonT(30), <2>1, <2>2 DEF ProfilesTypeOK
  <2>4. ASSUME NEW r \in Edits PROVE DraftIsSound(r)'
    <3>1. DraftIsSound(r) /\ account \in {"live", "deleted"}
      BY DEF ProfilesTypeOK
    <3> QED BY <2>1, <3>1 DEF DraftIsSound
  <2>5. profile' \in Optional(ProfileRows)
    BY <2>1, OptionalValue
  <2>6. ProfileIsSound' /\ EditsAddUp'
    BY <2>1 DEF ProfileIsSound, EditsAddUp
  <2> QED BY Zenon, <2>1, <2>2, <2>3, <2>4, <2>5, <2>6
<1>2. ASSUME NEW f \in Avatars, SettleAvatar(f) PROVE ProfilesInv'
  <2>1. /\ UNCHANGED <<account, local, profile, create, looked, remove, edit, asked, crossed>>
        /\ avatars' \in [Avatars -> {"pending", "confirmed", "gone"}]
        /\ account = "live" => \A g \in Avatars : avatars[g] = "confirmed" => avatars'[g] = "confirmed"
    BY <1>2 DEF SettleAvatar, ProfilesTypeOK
  <2>2. ProfilesTypeOK'
    BY Zenon, <2>1 DEF ProfilesTypeOK
  <2>3. ASSUME NEW r \in Edits PROVE DraftIsSound(r)'
    <3>1. DraftIsSound(r) /\ edit[r] \in EditRows
      OBVIOUS
    <3>2. edit[r].draft # <<>> => edit[r].draft[1].avatar \in Avatars \cup {0}
      BY Zenon, <3>1, OptionalValue DEF EditRows, ProfileRows
    <3> QED BY Zenon, <2>1, <3>1, <3>2 DEF DraftIsSound
  <2>4. ProfileIsSound'
    <3>1. \A i \in DOMAIN profile : profile[i].avatar \in Avatars \cup {0}
      <4>1. profile # <<>> => DOMAIN profile = {1} /\ profile[1] \in ProfileRows
        BY OptionalValue
      <4> QED BY <4>1 DEF ProfileRows
    <3> QED BY Zenon, <2>1, <3>1 DEF ProfileIsSound
  <2>5. EditsAddUp'
    BY <2>1 DEF EditsAddUp
  <2> QED BY <2>1, <2>2, <2>3, <2>4, <2>5
<1> QED BY Zenon, <1>1, <1>2

\* After a save, every draft is stale and otherwise as it was.
LEMMA OvertakenDrafts ==
  ASSUME ProfilesInv, NEW q \in Edits
  PROVE  /\ Overtaken[q] \in EditRows
         /\ edit[q].at \in {"avatar", "save"} => Overtaken[q] = [edit[q] EXCEPT !.stale = TRUE]
         /\ edit[q].at \notin {"avatar", "save"} => Overtaken[q] = edit[q]
<1>1. edit[q] \in EditRows
  BY DEF ProfilesInv
<1>2. Overtaken[q] = [edit[q] EXCEPT !.stale = @ \/ edit[q].at \in {"avatar", "save"}]
  BY DEF Overtaken
<1>3. CASE edit[q].at \in {"avatar", "save"}
  <2>1. Overtaken[q] = [edit[q] EXCEPT !.stale = TRUE]
    BY Zenon, <1>1, <1>2, <1>3 DEF EditRows
  <2> QED BY Zenon, <1>1, <1>3, <2>1 DEF EditRows
<1>4. CASE edit[q].at \notin {"avatar", "save"}
  <2>1. Overtaken[q] = edit[q]
    BY ZenonT(30), <1>1, <1>2, <1>4 DEF EditRows
  <2> QED BY <1>1, <1>4, <2>1
<1> QED BY <1>3, <1>4

\* A creation that saves.
LEMMA EnsureSaveStep ==
  ASSUME ProfilesInv, NEW j \in CreateJobs, EnsureSave(j)
  PROVE  ProfilesInv'
<1> USE DEF ProfilesInv
<1> DEFINE new == Created(local)
<1>1. new \in ProfileRows /\ ValidName(new.name) /\ new.avatar = 0
  BY CreatedIsSound DEF ProfilesTypeOK
<1>2. /\ profile' = <<new>> /\ UNCHANGED <<account, local, avatars, remove>>
      /\ asked' = IF profile = <<>> THEN <<new>> ELSE asked
      /\ crossed' = (crossed \/ profile # <<>>)
      /\ edit' = Overtaken
      /\ account = "live"
  <2>1. profile # <<>> => account = "live"
    BY OptionalValue DEF ProfileIsSound
  <2> QED BY <2>1 DEF EnsureSave, save, Saveable
<1> HIDE DEF new
<1>3. /\ create' \in [CreateJobs -> Job]
      /\ \A i \in CreateJobs : HasAttempts(create'[i])
      /\ looked' = {i \in CreateJobs : create'[i].st = "active"}
  BY JobSteps DEF EnsureSave, ProfilesTypeOK
<1>4. edit' \in [Edits -> EditRows]
  BY Zenon, <1>2, OvertakenDrafts DEF Overtaken
<1>5. ProfilesTypeOK'
  BY <1>2, <1>3, <1>4 DEF ProfilesTypeOK, EditRows
<1>6. /\ profile' \in Optional(ProfileRows) /\ profile' # <<>> /\ profile'[1] = new
      /\ DOMAIN profile' = {1}
      /\ asked' \in Optional(ProfileRows) /\ asked' # <<>>
  BY <1>1, <1>2, OptionalValue
<1>7. ASSUME NEW q \in Edits PROVE DraftIsSound(q)'
  <2>1. DraftIsSound(q) /\ edit[q] \in EditRows
    OBVIOUS
  <2>2. CASE edit[q].at \in {"avatar", "save"}
    <3>1. edit'[q] = [edit[q] EXCEPT !.stale = TRUE]
      BY SMTT(30), <1>2, <2>2, OvertakenDrafts
    <3> QED BY <1>2, <2>1, <2>2, <3>1 DEF DraftIsSound, EditRows, AsAsked
  <2>3. CASE edit[q].at \notin {"avatar", "save"}
    BY Zenon, <1>2, <2>3, OvertakenDrafts DEF DraftIsSound
  <2> QED BY <2>2, <2>3
<1>8. ProfileIsSound'
  BY <1>1, <1>2, <1>6, ValidLength DEF ProfileIsSound, ValidName
<1>9. EditsAddUp'
  BY Zenon, <1>2 DEF EditsAddUp, ProfilesTypeOK
<1> QED BY Zenon, <1>2, <1>3, <1>4, <1>5, <1>6, <1>7, <1>8, <1>9

\* The steps of a request other than its save change its own row only.
LEMMA EditStep ==
  ASSUME ProfilesInv, NEW r \in Edits, NEW e \in EditRows, edit' = [edit EXCEPT ![r] = e],
         UNCHANGED <<account, local, profile, avatars, create, looked, remove, asked, crossed>>,
         DraftIsSound(r)'
  PROVE  ProfilesInv'
<1> USE DEF ProfilesInv
<1>1. edit' \in [Edits -> EditRows] /\ edit'[r] = e
  OBVIOUS
<1>2. ProfilesTypeOK'
  BY <1>1 DEF ProfilesTypeOK, EditRows
<1>3. ASSUME NEW q \in Edits PROVE DraftIsSound(q)'
  <2>1. CASE q = r
    BY SMTT(30), <2>1
  <2>2. CASE q # r
    <3>1. DraftIsSound(q) /\ edit'[q] = edit[q]
      BY <2>2
    <3> QED BY Zenon, <3>1 DEF DraftIsSound
  <2> QED BY <2>1, <2>2
<1>4. ProfileIsSound' /\ EditsAddUp'
  BY DEF ProfileIsSound, EditsAddUp
<1> QED BY <1>1, <1>2, <1>3, <1>4

\* A request begins, answers or fails.
LEMMA EditorEnds ==
  ASSUME ProfilesInv, NEW r \in Edits,
         (\E c \in Changes : UpdateMe(r, c)) \/ UpdateAnswer(r) \/ UpdateFails(r)
  PROVE  ProfilesInv'
<1>1. ASSUME NEW at \in {"ok", "refused"}, edit' = [edit EXCEPT ![r] = Ended(at)],
             UNCHANGED <<account, local, profile, avatars, create, looked, remove, asked, crossed>>
      PROVE  ProfilesInv'
  <2>1. Ended(at) \in EditRows /\ Ended(at).at = at
    BY Zenon, OptionalValue DEF Ended, NoEdit, EditRows
  <2>2. edit'[r].at = at
    BY Zenon, <1>1, <2>1 DEF ProfilesInv
  <2>3. DraftIsSound(r)'
    BY <2>2 DEF DraftIsSound
  <2> QED BY Zenon, <1>1, <2>1, <2>3, EditStep
<1>2. ASSUME NEW c \in Changes, UpdateMe(r, c) PROVE ProfilesInv'
  <2> DEFINE e == [NoEdit EXCEPT !.at = "find", !.name = c.name, !.avatar = c.avatar]
  <2>1. e \in EditRows /\ e.at = "find"
    BY Zenon, OptionalValue, ProfilesAssumption DEF NoEdit, EditRows
  <2>2. /\ edit' = [edit EXCEPT ![r] = e]
        /\ UNCHANGED <<account, local, profile, avatars, create, looked, remove, asked, crossed>>
    BY Zenon, <1>2 DEF UpdateMe
  <2> HIDE DEF e
  <2>3. edit'[r].at = "find"
    BY Zenon, <2>1, <2>2 DEF ProfilesInv
  <2>4. DraftIsSound(r)'
    BY <2>3 DEF DraftIsSound
  <2> QED BY Zenon, <2>1, <2>2, <2>4, EditStep
<1> QED BY <1>1, <1>2 DEF UpdateAnswer, UpdateFails

\* A request finds the profile: its draft is what it was asked to make of it.
LEMMA UpdateFindStep ==
  ASSUME ProfilesInv, NEW r \in Edits, UpdateFind(r)
  PROVE  ProfilesInv'
<1> DEFINE e == edit[r]
           at == IF e.avatar \in {<<>>, <<0>>} THEN "save" ELSE "avatar"
           d == Edited(profile[1], e)
           found == [e EXCEPT !.at = at, !.draft = <<d>>]
<1>1. /\ e \in EditRows /\ DraftIsSound(r)
      /\ UNCHANGED <<account, local, profile, avatars, create, looked, remove, asked, crossed>>
  BY DEF ProfilesInv, UpdateFind
<1>2. CASE profile = <<>> \/ (e.name # <<>> /\ DisplayNameOf(e.name[1]) = <<>>)
  <2>1. edit' = [edit EXCEPT ![r] = Ended("refused")]
    BY Zenon, <1>2 DEF UpdateFind
  <2>2. Ended("refused") \in EditRows /\ Ended("refused").at = "refused"
    BY Zenon, OptionalValue DEF Ended, NoEdit, EditRows
  <2>3. edit'[r].at = "refused"
    BY Zenon, <2>1, <2>2 DEF ProfilesInv
  <2>4. DraftIsSound(r)'
    BY <2>3 DEF DraftIsSound
  <2> QED BY Zenon, <1>1, <2>1, <2>2, <2>4, EditStep
<1>3. CASE profile # <<>> /\ ~(e.name # <<>> /\ DisplayNameOf(e.name[1]) = <<>>)
  <2>1. edit' = [edit EXCEPT ![r] = found]
    BY Zenon, <1>3 DEF UpdateFind
  <2>2. profile[1] \in ProfileRows /\ DOMAIN profile = {1}
    BY <1>3, OptionalValue DEF ProfilesInv
  <2>3. ValidName(profile[1].name) /\ account = "live"
        /\ (profile[1].avatar # 0 => avatars[profile[1].avatar] = "confirmed")
    BY Zenon, <2>2 DEF ProfilesInv, ProfileIsSound, ValidName, ProfileRows
  <2>4. /\ d = AsAsked(profile[1], e) /\ d \in ProfileRows /\ AsAsked(d, e) = d /\ ValidName(d.name)
    BY <1>1, <1>3, <2>2, <2>3, EditedAsAsked
  <2>5. /\ e.avatar \in {<<>>, <<0>>} => d.avatar = profile[1].avatar \/ d.avatar = 0
        /\ e.avatar \notin {<<>>, <<0>>} => e.avatar # <<>> /\ d.avatar # 0
    <3>1. e.avatar # <<>> => e.avatar = <<e.avatar[1]>>
      BY <1>1, OptionalValue DEF EditRows
    <3>2. d.avatar = IF e.avatar = <<>> THEN profile[1].avatar ELSE e.avatar[1]
      BY <2>4 DEF AsAsked
    <3>3. <<0>> # <<>> /\ <<0>>[1] = 0
      OBVIOUS
    <3> HIDE DEF d, e
    <3> QED BY Zenon, <3>1, <3>2, <3>3
  <2> HIDE DEF d
  <2>6. <<d>> \in Optional(ProfileRows) /\ <<d>> # <<>> /\ <<d>>[1] = d
    BY <2>4, OptionalValue
  <2>7. /\ found \in EditRows /\ found.at = at /\ found.draft = <<d>>
        /\ found.name = e.name /\ found.avatar = e.avatar
    BY Zenon, <1>1, <2>6 DEF EditRows
  <2>8. edit'[r] = found
    BY Zenon, <2>1 DEF ProfilesInv
  <2> HIDE DEF found
  <2>9. AsAsked(d, found) = d /\ AsAsked(profile[1], found) = d
    BY <2>4, <2>7 DEF AsAsked
  <2>10. DraftIsSound(r)'
    BY Zenon, <1>1, <2>3, <2>4, <2>5, <2>6, <2>7, <2>8, <2>9 DEF DraftIsSound, ValidName
  <2> QED BY Zenon, <1>1, <2>1, <2>7, <2>10, EditStep
<1> QED BY <1>2, <1>3

\* The avatar asked for is a confirmed file, or the request is refused.
LEMMA AvatarStep ==
  ASSUME ProfilesInv, NEW r \in Edits, assertAvatarUsable(r)
  PROVE  ProfilesInv'
<1> DEFINE e == edit[r]
           d == e.draft[1]
           usable == [e EXCEPT !.at = "save"]
<1>1. /\ e \in EditRows /\ DraftIsSound(r) /\ e.at = "avatar"
      /\ UNCHANGED <<account, local, profile, avatars, create, looked, remove, asked, crossed>>
  BY DEF ProfilesInv, assertAvatarUsable
<1>2. CASE ~existsUsableForOwner(e.avatar[1])
  <2>1. edit' = [edit EXCEPT ![r] = Ended("refused")]
    BY <1>2 DEF assertAvatarUsable, ProfilesInv
  <2>2. Ended("refused") \in EditRows /\ Ended("refused").at = "refused"
    BY Zenon, OptionalValue DEF Ended, NoEdit, EditRows
  <2>3. edit'[r].at = "refused"
    BY <2>1, <2>2 DEF ProfilesInv
  <2>4. DraftIsSound(r)'
    BY <2>3 DEF DraftIsSound
  <2> QED BY Zenon, <1>1, <2>1, <2>2, <2>4, EditStep
<1>3. CASE existsUsableForOwner(e.avatar[1])
  <2>1. edit' = [edit EXCEPT ![r] = usable]
    BY <1>3 DEF assertAvatarUsable, ProfilesInv
  <2>2. /\ usable \in EditRows /\ usable.at = "save" /\ usable.draft = e.draft
        /\ usable.name = e.name /\ usable.avatar = e.avatar /\ usable.stale = e.stale
    BY ZenonT(30), <1>1 DEF EditRows
  <2>3. d.avatar = e.avatar[1]
    BY <1>1 DEF DraftIsSound, AsAsked
  <2>4. avatars[d.avatar] = "confirmed"
    BY <1>3, <2>3 DEF existsUsableForOwner
  <2>5. edit'[r] = usable
    BY <2>1 DEF ProfilesInv
  <2> HIDE DEF usable
  <2>6. \A p : AsAsked(p, usable) = AsAsked(p, e)
    BY Zenon, <2>2 DEF AsAsked
  <2>7. DraftIsSound(r)'
    BY Zenon, <1>1, <2>2, <2>4, <2>5, <2>6 DEF DraftIsSound
  <2> QED BY Zenon, <1>1, <2>1, <2>2, <2>7, EditStep
<1> QED BY <1>2, <1>3

\* A request saves its draft.  A draft that is not stale is what was asked for,
\* applied to what had been asked for before.
LEMMA UpdateSaveStep ==
  ASSUME ProfilesInv, NEW r \in Edits, UpdateSave(r)
  PROVE  ProfilesInv'
<1> USE DEF ProfilesInv
<1> DEFINE e == edit[r]
           d == e.draft[1]
           p == IF profile = <<>> THEN d ELSE asked[1]
           saved == [NoEdit EXCEPT !.at = "identity"]
<1>1. e \in EditRows /\ DraftIsSound(r) /\ e.at = "save"
  BY SMTT(30) DEF UpdateSave
<1>2. e.draft # <<>> /\ ValidName(d.name) /\ AsAsked(d, e) = d /\ d \in ProfileRows
  BY Zenon, <1>1, OptionalValue DEF DraftIsSound, ValidName, EditRows, ProfileRows
<1>3. /\ profile' = <<d>> /\ UNCHANGED <<account, local, avatars, create, looked, remove>>
      /\ asked' = <<AsAsked(p, e)>>
      /\ crossed' = (crossed \/ e.stale)
      /\ edit' = [Overtaken EXCEPT ![r] = saved]
  BY DEF UpdateSave, save
<1>4. account = "live"
  BY OptionalValue DEF UpdateSave, Saveable, ProfileIsSound
<1>5. saved \in EditRows /\ saved.at = "identity"
  BY Zenon, OptionalValue DEF NoEdit, EditRows
<1>6. AsAsked(p, e) \in ProfileRows
  <2>1. p \in ProfileRows
    BY Zenon, <1>2, OptionalValue
  <2>2. p.name \in Text /\ d.name \in Text /\ p.avatar \in Avatars \cup {0}
    BY Zenon, <1>2, <2>1 DEF ProfileRows
  <2>3. /\ e.name # <<>> => d.name = trim(e.name[1])
        /\ e.avatar # <<>> => e.avatar[1] \in Avatars \cup {0}
    BY <1>1, <1>2, OptionalValue DEF AsAsked, EditRows
  <2> HIDE DEF p, d, e
  <2> QED BY Zenon, <2>2, <2>3 DEF AsAsked, ProfileRows
<1>7. ~crossed /\ ~e.stale => AsAsked(p, e) = d
  <2>1. CASE profile = <<>>
    BY SMTT(30), <1>2, <2>1
  <2>2. CASE profile # <<>>
    BY Zenon, <1>1, <2>2 DEF DraftIsSound, EditsAddUp
  <2> QED BY Zenon, <2>1, <2>2
<1>8. d.avatar # 0 => avatars[d.avatar] = "confirmed"
  BY Zenon, <1>1, <1>4 DEF DraftIsSound
<1> HIDE DEF d, p, e, saved
<1>9. edit' \in [Edits -> EditRows]
  BY Zenon, <1>3, <1>5, OvertakenDrafts DEF Overtaken
<1>10. ProfilesTypeOK'
  BY Zenon, <1>3, <1>9 DEF ProfilesTypeOK, EditRows
<1>11. /\ profile' \in Optional(ProfileRows) /\ profile' # <<>> /\ profile'[1] = d
       /\ DOMAIN profile' = {1}
       /\ asked' \in Optional(ProfileRows) /\ asked' # <<>>
  BY <1>2, <1>3, <1>6, OptionalValue
<1>12. ASSUME NEW q \in Edits PROVE DraftIsSound(q)'
  <2>1. DraftIsSound(q) /\ edit[q] \in EditRows
    OBVIOUS
  <2>2. CASE q = r
    <3>1. edit'[q].at = "identity"
      BY ZenonT(30), <1>3, <1>5, <2>2 DEF Overtaken
    <3> QED BY <3>1 DEF DraftIsSound
  <2>3. CASE q # r /\ edit[q].at \in {"avatar", "save"}
    <3>1. edit'[q] = [edit[q] EXCEPT !.stale = TRUE]
      BY Zenon, <1>3, <2>3, OvertakenDrafts DEF Overtaken
    <3> QED BY <1>3, <2>1, <2>3, <3>1 DEF DraftIsSound, EditRows, AsAsked
  <2>4. CASE q # r /\ edit[q].at \notin {"avatar", "save"}
    <3>1. edit'[q] = edit[q]
      BY Zenon, <1>3, <2>4, OvertakenDrafts DEF Overtaken
    <3> QED BY Zenon, <2>4, <3>1 DEF DraftIsSound
  <2> QED BY <2>2, <2>3, <2>4
<1>13. ProfileIsSound'
  BY Zenon, <1>2, <1>3, <1>4, <1>8, <1>11, ValidLength DEF ProfileIsSound, ValidName
<1>14. EditsAddUp'
  BY Zenon, <1>3, <1>7 DEF EditsAddUp, ProfilesTypeOK
<1> QED BY Zenon, <1>3, <1>9, <1>10, <1>11, <1>12, <1>13, <1>14

\* The invariant holds in every state: of a profile, whatever overlaps.
THEOREM ProfilesInvariant == ProfilesSpec => []ProfilesInv
<1>1. ProfilesInit => ProfilesInv
  <2> SUFFICES ASSUME ProfilesInit PROVE ProfilesInv
    OBVIOUS
  <2> USE DEF ProfilesInit
  <2>1. NoEdit \in EditRows /\ NoEdit.at = "idle"
    BY OptionalValue DEF NoEdit, EditRows
  <2>2. edit \in [Edits -> EditRows] /\ \A r \in Edits : edit[r].at = "idle"
    BY <2>1
  <2>3. ProfilesTypeOK
    BY Zenon, <2>2, JobSteps DEF ProfilesTypeOK
  <2>4. \A r \in Edits : DraftIsSound(r)
    BY <2>2 DEF DraftIsSound
  <2> QED BY <2>2, <2>3, <2>4, OptionalValue, JobSteps DEF ProfilesInv, ProfileIsSound, EditsAddUp
<1>2. ProfilesInv /\ ProfilesNext => ProfilesInv'
  BY CreatorSteps, AccountSteps, EnsureSaveStep, EditorEnds, UpdateFindStep, AvatarStep,
     UpdateSaveStep, Zenon DEF ProfilesNext, Creator, Editor
<1>3. ASSUME ProfilesInv, UNCHANGED profilesVars PROVE ProfilesInv'
  <2>1. /\ account' = account /\ local' = local /\ profile' = profile /\ avatars' = avatars
        /\ create' = create /\ looked' = looked /\ remove' = remove /\ edit' = edit
        /\ asked' = asked /\ crossed' = crossed
    BY Zenon, <1>3 DEF profilesVars
  <2>2. ProfilesTypeOK'
    BY Zenon, <1>3, <2>1 DEF ProfilesInv, ProfilesTypeOK
  <2>3. \A r \in Edits : DraftIsSound(r)'
    BY Zenon, <1>3, <2>1 DEF ProfilesInv, DraftIsSound
  <2>4. ProfileIsSound' /\ EditsAddUp'
    BY Zenon, <1>3, <2>1 DEF ProfilesInv, ProfileIsSound, EditsAddUp
  <2> QED BY Zenon, <1>3, <2>1, <2>2, <2>3, <2>4 DEF ProfilesInv
<1> QED BY <1>1, <1>2, <1>3, PTL DEF ProfilesSpec

\* What a profile refers to is there, for any number of creation jobs, requests,
\* files and names: neither a late save nor the deletion of the account leaves one
\* that points to nothing.
THEOREM ProfilesAreSound == ProfilesSpec => []ProfileIsSound
<1>1. ProfilesInv => ProfileIsSound
  BY DEF ProfilesInv
<1> QED BY <1>1, ProfilesInvariant, PTL

\* Edits that do not cross add up, for any number of requests and redeliveries.
THEOREM ProfileEditsAddUp == ProfilesSpec => []EditsAddUp
<1>1. ProfilesInv => EditsAddUp
  BY DEF ProfilesInv
<1> QED BY <1>1, ProfilesInvariant, PTL
=============================================================================
