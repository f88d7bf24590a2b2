---------------------------- MODULE Notifications ----------------------------
(***************************************************************************)
(* The once-only mail of src/modules/notifications: jobs that carry a      *)
(* notice, the ledger row each of them claims before it calls the mailer,  *)
(* the claim released when the call fails, and the nightly prune of the    *)
(* ledger.  A notice may be delivered as several jobs, on several workers  *)
(* at once: the outbox delivers at least once, and a request that sends    *)
(* an authentication or an invitation mail may be repeated.                *)
(***************************************************************************)
EXTENDS Jobs, FiniteSets

CONSTANTS Notices,          \* [kind, ref |-> an event id or a token, to |-> an address]
          Deliveries,       \* the jobs a notice can be delivered as
          PruneBatch, PrunePasses,   \* BATCH_SIZE and MAX_PASSES of the prune
          MaxFaults         \* bound on failing or ambiguous calls and crashes

ASSUME NotificationsAssumption ==
  /\ Notices \subseteq [kind : {"welcome", "invitation", "verify-email",
                                "reset-password", "delete-account"},
                         ref : Nat, to : Nat]
  /\ PruneBatch \in Nat \ {0} /\ PrunePasses \in Nat \ {0} /\ MaxFaults \in Nat

VARIABLES ledger,     \* the sent_notification row of a key, or why it has none
          mail,       \* the job of a notice and a delivery
          step,       \* where its handler is: "idle", "claim", "send", "release"
          inbox,      \* how often a message has left
          doubt,      \* calls for it that failed after the mail had left
          lost,       \* claims for it that nobody will release
          pruner,     \* the prune: [at, pass, rows]
          faults      \* faults so far

notificationsVars == <<ledger, mail, step, inbox, doubt, lost, pruner, faults>>
-----------------------------------------------------------------------------
digestAuthToken(token) == <<"sha256", token>>

hashInvitationToken(token) == <<"sha256", token>>

FRONTEND_PATHS == [k \in {"verify-email", "reset-password", "delete-account"} |->
                     CASE k = "verify-email"   -> "/verify-email"
                       [] k = "reset-password" -> "/reset"
                       [] k = "delete-account" -> "/delete-account"]

buildFrontendTokenUrl(kind, token) == <<FRONTEND_PATHS[kind], token>>

\* What the job of each kind of notice holds: the mailed link, and the key
\* under which the mail is sent once.
resetPasswordJob(n) == [url |-> buildFrontendTokenUrl("reset-password", n.ref),
                        key |-> digestAuthToken(n.ref)]

verificationJob(n) == [url |-> buildFrontendTokenUrl("verify-email", n.ref),
                       key |-> digestAuthToken(n.ref)]

deleteAccountJob(n) == [url |-> buildFrontendTokenUrl("delete-account", n.ref),
                        key |-> digestAuthToken(n.ref)]

invitationJob(n) == [url |-> <<"/invitations/accept", n.ref>>,
                     key |-> hashInvitationToken(n.ref)]

welcomeJob(n) == [url |-> <<"/", 0>>, key |-> <<"event", n.ref>>]

JobOf(n) == CASE n.kind = "reset-password" -> resetPasswordJob(n)
              [] n.kind = "verify-email"   -> verificationJob(n)
              [] n.kind = "delete-account" -> deleteAccountJob(n)
              [] n.kind = "invitation"     -> invitationJob(n)
              [] n.kind = "welcome"        -> welcomeJob(n)

Subject == [k \in {n.kind : n \in Notices} |->
              CASE k = "reset-password" -> "Reset your password"
                [] k = "verify-email"   -> "Confirm your email address"
                [] k = "delete-account" -> "Confirm account deletion"
                [] k = "invitation"     -> "You have been invited"
                [] k = "welcome"        -> "Welcome"]

IdempotencyKey(n) == JobOf(n).key

\* What is handed to the mailer, the key included.
Message(n) == [to |-> n.to, subject |-> Subject[n.kind], url |-> JobOf(n).url,
               idempotencyKey |-> IdempotencyKey(n)]

Messages == {Message(n) : n \in Notices}

Keys == {IdempotencyKey(n) : n \in Notices}

\* A token is minted for one mail and an event id for one event, so no two
\* notices have one key.
ASSUME KeysAreDistinct ==
  \A m, n \in Notices : IdempotencyKey(m) = IdempotencyKey(n) => m = n
-----------------------------------------------------------------------------
NotificationsInit ==
  /\ ledger = [k \in Keys |-> "none"]
  /\ mail = [n \in Notices |-> [d \in Deliveries |-> Unsent]]
  /\ step = [n \in Notices |-> [d \in Deliveries |-> "idle"]]
  /\ inbox = [m \in Messages |-> 0]
  /\ doubt = [n \in Notices |-> 0]
  /\ lost = [n \in Notices |-> 0]
  /\ pruner = [at |-> "idle", pass |-> 0, rows |-> {}]
  /\ faults = 0

At(n, d, s) == step' = [step EXCEPT ![n][d] = s]

Becomes(n, d, j) == mail' = [mail EXCEPT ![n][d] = j]

Fault == /\ faults < MaxFaults
         /\ faults' = faults + 1

\* The relay or a request sends the job.  A ledger row outlives every retry of
\* its notice: 90 days against the two weeks an outbox row is kept and the
\* days a failed job is.
NotifyDeliver(n, d) ==
  /\ mail[n][d].st = "unsent"
  /\ ledger[IdempotencyKey(n)] \notin {"old", "pruned"}
  /\ Becomes(n, d, Sent)
  /\ UNCHANGED <<ledger, step, inbox, doubt, lost, pruner, faults>>

\* A listener takes the job, parses it and renders the message.
NotifyHandle(n, d) ==
  /\ mail[n][d].st = "waiting"
  /\ Becomes(n, d, Picked(mail[n][d]))
  /\ At(n, d, "claim")
  /\ UNCHANGED <<ledger, inbox, doubt, lost, pruner, faults>>

claimByUpsert(k) == TRUE

\* IdempotentNotificationSender: one INSERT ... ON CONFLICT DO NOTHING decides.
claim(k) == ledger[k] \in {"none", "pruned"}

NotifyClaim(n, d) ==
  /\ step[n][d] = "claim"
  /\ IF claim(IdempotencyKey(n))
       THEN /\ ledger' = [ledger EXCEPT ![IdempotencyKey(n)] = "fresh"]
            /\ At(n, d, "send")
            /\ UNCHANGED mail
       ELSE /\ At(n, d, "idle")
            /\ Becomes(n, d, Completed(mail[n][d]))
            /\ UNCHANGED ledger
  /\ UNCHANGED <<inbox, doubt, lost, pruner, faults>>

NotifySend(n, d) ==
  /\ step[n][d] = "send"
  /\ inbox' = [inbox EXCEPT ![Message(n)] = @ + 1]
  /\ At(n, d, "idle")
  /\ Becomes(n, d, Completed(mail[n][d]))
  /\ UNCHANGED <<ledger, doubt, lost, pruner, faults>>

\* The SMTP call throws: refused, or cut off after the server took the mail.
NotifySendFails(n, d) ==
  /\ step[n][d] = "send"
  /\ Fault
  /\ \/ UNCHANGED <<inbox, doubt>>
     \/ /\ inbox' = [inbox EXCEPT ![Message(n)] = @ + 1]
        /\ doubt' = [doubt EXCEPT ![n] = @ + 1]
  /\ At(n, d, "release")
  /\ UNCHANGED <<ledger, mail, lost, pruner>>

release(k) == [ledger EXCEPT ![k] = "none"]

\* releaseQuietly, and then the error of the send fails the attempt.
NotifyRelease(n, d) ==
  /\ step[n][d] = "release"
  /\ \/ /\ ledger' = release(IdempotencyKey(n))
        /\ UNCHANGED <<lost, faults>>
     \/ /\ Fault
        /\ lost' = [lost EXCEPT ![n] = @ + 1]
        /\ UNCHANGED ledger
  /\ At(n, d, "idle")
  /\ Becomes(n, d, Failed(mail[n][d]))
  /\ UNCHANGED <<inbox, doubt, pruner>>

\* The payload does not match its schema, or the claim's statement fails.
NotifyThrows(n, d) ==
  /\ step[n][d] = "claim"
  /\ Fault
  /\ At(n, d, "idle")
  /\ Becomes(n, d, Failed(mail[n][d]))
  /\ UNCHANGED <<ledger, inbox, doubt, lost, pruner>>

\* The worker dies, before the mail leaves or after.  A claim it had stays.
NotifyCrash(n, d) ==
  /\ step[n][d] # "idle"
  /\ Fault
  /\ lost' = IF step[n][d] = "claim" THEN lost ELSE [lost EXCEPT ![n] = @ + 1]
  /\ \/ UNCHANGED inbox
     \/ /\ step[n][d] = "send"
        /\ inbox' = [inbox EXCEPT ![Message(n)] = @ + 1]
  /\ At(n, d, "idle")
  /\ Becomes(n, d, Stalled(mail[n][d]))
  /\ UNCHANGED <<ledger, doubt, pruner>>
-----------------------------------------------------------------------------
AllSettled(n) == \A d \in Deliveries : mail[n][d].st \in {"unsent", "done", "dead"}

\* DEFAULT_LEDGER_RETENTION_DAYS pass, which no job of the notice lives to see.
RetentionPasses(n) ==
  /\ ledger[IdempotencyKey(n)] = "fresh"
  /\ AllSettled(n)
  /\ ledger' = [ledger EXCEPT ![IdempotencyKey(n)] = "old"]
  /\ UNCHANGED <<mail, step, inbox, doubt, lost, pruner, faults>>

PruneStart ==
  /\ pruner.at = "idle"
  /\ pruner' = [at |-> "select", pass |-> 0, rows |-> {}]
  /\ UNCHANGED <<ledger, mail, step, inbox, doubt, lost, faults>>

\* deleteSentBefore selects the oldest keys and deletes them by key.
PruneSelect ==
  /\ pruner.at = "select"
  /\ \E rows \in SUBSET {k \in Keys : ledger[k] = "old"} :
       /\ \/ Cardinality(rows) = PruneBatch
          \/ /\ Cardinality(rows) < PruneBatch
             /\ rows = {k \in Keys : ledger[k] = "old"}
       /\ pruner' = IF rows = {} THEN [pruner EXCEPT !.at = "idle"]
                                 ELSE [pruner EXCEPT !.at = "delete", !.rows = rows]
  /\ UNCHANGED <<ledger, mail, step, inbox, doubt, lost, faults>>

PruneDelete ==
  /\ pruner.at = "delete"
  /\ ledger' = [k \in Keys |-> IF k \in pruner.rows THEN "pruned" ELSE ledger[k]]
  /\ pruner' = [at |-> IF \/ Cardinality({k \in pruner.rows : ~claim(k)}) < PruneBatch
                          \/ pruner.pass + 1 = PrunePasses
                         THEN "idle" ELSE "select",
                pass |-> pruner.pass + 1, rows |-> {}]
  /\ UNCHANGED <<mail, step, inbox, doubt, lost, faults>>
-----------------------------------------------------------------------------
Worker(n, d) == \/ NotifyHandle(n, d) \/ NotifyClaim(n, d)
                \/ NotifySend(n, d) \/ NotifySendFails(n, d)
                \/ NotifyRelease(n, d) \/ NotifyThrows(n, d) \/ NotifyCrash(n, d)

NotificationsNext ==
  \/ \E n \in Notices, d \in Deliveries : NotifyDeliver(n, d) \/ Worker(n, d)
  \/ \E n \in Notices : RetentionPasses(n)
  \/ PruneStart \/ PruneSelect \/ PruneDelete

NotificationsSpec == NotificationsInit /\ [][NotificationsNext]_notificationsVars

NotificationsProgress == \E n \in Notices, d \in Deliveries : Worker(n, d)
-----------------------------------------------------------------------------
NotificationsTypeOK ==
  /\ ledger \in [Keys -> {"none", "fresh", "old", "pruned"}]
  /\ mail \in [Notices -> [Deliveries -> Job]]
  /\ step \in [Notices -> [Deliveries -> {"idle", "claim", "send", "release"}]]
  /\ \A n \in Notices, d \in Deliveries :
       (step[n][d] # "idle") <=> (mail[n][d].st = "active")
  /\ inbox \in [Messages -> Nat]
  /\ doubt \in [Notices -> Nat] /\ lost \in [Notices -> Nat]
  /\ pruner \in [at : {"idle", "select", "delete"}, pass : 0..PrunePasses, rows : SUBSET Keys]
  /\ faults \in 0..MaxFaults

\* A message leaves once, and once more only for each SMTP call that failed
\* after the mail had left: neither a duplicate job on another worker, nor a
\* crash, nor the prune of the ledger sends it again ("what makes a concurrent
\* duplicate impossible", notification-ledger.port.ts).  And jobs that all ended
\* well have sent it, one of them, unless the holder of the claim died or could
\* not give it up ("it costs one undelivered message").
MailedOnce ==
  \A n \in Notices :
    /\ inbox[Message(n)] <= 1 + doubt[n]
    /\ (\E d \in Deliveries : mail[n][d].st = "done")
         /\ (\A d \in Deliveries : mail[n][d].st \in {"unsent", "done"})
       => inbox[Message(n)] > 0 \/ lost[n] > 0

Holds(n, d) == step[n][d] \in {"send", "release"}

\* What the row of a notice says of its jobs and its mail: one job holds a
\* fresh row; while a job holds it, or there is none, every mail that left is in
\* doubt; a row that nobody holds means a mail that left, or a lost claim; and a
\* row is old only once every job is over.
RowIsExplained(n) ==
  LET row == ledger[IdempotencyKey(n)] IN
  /\ \A d, x \in Deliveries : Holds(n, d) /\ Holds(n, x) => d = x
  /\ \A d \in Deliveries : Holds(n, d) => row = "fresh" /\ inbox[Message(n)] <= doubt[n]
  /\ row = "none" => inbox[Message(n)] <= doubt[n]
  /\ row # "none" => inbox[Message(n)] > 0 \/ lost[n] > 0 \/ \E d \in Deliveries : Holds(n, d)
  /\ row \in {"old", "pruned"} => AllSettled(n)

\* The inductive invariant behind MailedOnce.
NotificationsInv ==
  /\ NotificationsTypeOK /\ MailedOnce
  /\ \A n \in Notices : RowIsExplained(n)
  /\ \A n \in Notices, d \in Deliveries : HasAttempts(mail[n][d])
  /\ pruner.at # "idle" => pruner.pass < PrunePasses
  /\ pruner.at = "delete" => \A k \in pruner.rows : ledger[k] = "old"

\* A notice that was queued is mailed in the end, unless its claim was lost or
\* one of its jobs used up its attempts.
QueuedIsMailed ==
  \A n \in Notices :
    (\E d \in Deliveries : mail[n][d].st # "unsent")
      ~> \/ inbox[Message(n)] > 0 \/ lost[n] > 0
         \/ \E d \in Deliveries : mail[n][d].st = "dead"
=============================================================================
