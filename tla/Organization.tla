----------------------------- MODULE Organization -----------------------------
(***************************************************************************)
(* One organization of the module organizations: its row, its members, its *)
(* invitations and its files, and the requests that change them, each a    *)
(* sequence of SQL statements at READ COMMITTED.                           *)
(*                                                                         *)
(* A step is one statement.  The last statement of a transaction is taken  *)
(* together with its COMMIT, so the variables hold committed data and an   *)
(* open transaction has written nothing yet; what it holds are row locks,  *)
(* and those follow from where it is (pc) and what it works on (req).      *)
(***************************************************************************)
EXTENDS Naturals

CONSTANTS
  Users,      \* accounts that may be members
  Founder,    \* the caller of CreateOrganizationUseCase
  Requests,   \* requests the API may be serving at the same time
  Invites,    \* ids of invitations, each issued at most once
  Files,      \* ids of stored_file rows of the organization
  Ops,        \* the operations that are requested
  Offered,    \* the roles that requests ask for
  NULL

Roles == {"owner", "admin", "member", "viewer"}
Managers == {"owner", "admin"}

ASSUME UsersAssumption == Founder \in Users /\ NULL \notin Users
ASSUME InvitesAssumption == NULL \notin Invites
ASSUME RolesAssumption == Offered \subseteq Roles /\ NULL \notin Roles
ASSUME OpsAssumption ==
  Ops \subseteq {"change", "remove", "delete", "invite", "accept", "revoke",
                "archive", "restore", "purge", "presign"}

VARIABLES
  org,        \* "live", "archived", or "purged"
  accounts,   \* users with a row in auth.user
  role,       \* tenancy.organization_member: a user's role, or NULL
  invite,     \* tenancy.organization_invitation
  files,      \* rows of stored_file that belong to the organization
  lead,       \* how many more archived than restored events were published
  purges,     \* how many purged events were published
  pc,         \* the statement a request executes next; "idle" when it is none
  req         \* what the request is about

data == <<org, accounts, role, invite, files, lead, purges>>
vars == <<data, pc, req>>

NoRequest == [op |-> "none", actor |-> NULL, target |-> NULL, role |-> NULL,
              invite |-> NULL]

Labels == {"idle", "lock", "decide", "write", "trigger", "cascade", "save", "claim",
           "join", "revoke", "read", "set", "find", "lockOrg", "counts", "erase",
           "insert"}

RequestRows == [op : Ops \cup {"none"}, actor : Users \cup {NULL},
                target : Users \cup {NULL}, role : Roles \cup {NULL},
                invite : Invites \cup {NULL}]
InviteRows == [state : {"free", "pending", "accepted", "deleted"}, expired : BOOLEAN,
               to : Users \cup {NULL}, role : Roles \cup {NULL}]

TypeOK ==
  /\ org \in {"live", "archived", "purged"}
  /\ accounts \subseteq Users
  /\ role \in [Users -> Roles \cup {NULL}]
  /\ invite \in [Invites -> InviteRows]
  /\ files \subseteq Files
  /\ lead \in 0..1
  /\ purges \in 0..1
  /\ pc \in [Requests -> Labels]
  /\ req \in [Requests -> RequestRows]

\* createOrganizationWithOwner has committed.
Init ==
  /\ org = "live"
  /\ accounts = Users
  /\ role = [u \in Users |-> IF u = Founder THEN "owner" ELSE NULL]
  /\ invite = [i \in Invites |-> [state |-> "free", expired |-> FALSE,
                                  to |-> NULL, role |-> NULL]]
  /\ files = {}
  /\ lead = 0
  /\ purges = 0
  /\ pc = [r \in Requests |-> "idle"]
  /\ req = [r \in Requests |-> NoRequest]

-----------------------------------------------------------------------------
(* Row locks: what a request holds until its transaction ends.             *)

Others(r) == Requests \ {r}

\* FOR UPDATE on the membership row of u (mutateMembership).
MemberLockers(r, u) == {o \in Others(r) : pc[o] \in {"decide", "write"} /\ req[o].target = u}
\* The DELETE of auth.user holds the row of u while the cascade runs.
UserLockers(r, u)   == {o \in Others(r) : pc[o] = "cascade" /\ req[o].target = u}
\* markAccepted's UPDATE of invitation i.
InviteLockers(r, i) == {o \in Others(r) : pc[o] = "join" /\ req[o].invite = i}
\* FOR UPDATE on the organization (purgeWithClient).
OrgLockers(r)       == {o \in Others(r) : pc[o] \in {"counts", "erase"}}

\* Whom r's next statement waits for.  An INSERT that refers to a row (a foreign
\* key) waits for FOR UPDATE and DELETE on it, not for its other updates.
Blockers(r) ==
  CASE pc[r] = "lock"    -> MemberLockers(r, req[r].target)
    [] pc[r] = "trigger" -> UserLockers(r, req[r].target)
    [] pc[r] = "cascade" -> MemberLockers(r, req[r].target)
    [] pc[r] = "claim"   -> InviteLockers(r, req[r].invite)
    [] pc[r] = "revoke"  -> InviteLockers(r, req[r].invite)
    [] pc[r] = "join"    -> OrgLockers(r) \cup UserLockers(r, req[r].actor)
    [] pc[r] \in {"save", "insert", "set", "lockOrg"} -> OrgLockers(r)
    [] pc[r] = "erase"   -> (UNION {InviteLockers(r, i) : i \in Invites})
                              \cup (UNION {MemberLockers(r, u) : u \in Users})
    [] OTHER             -> {}

At(r, label) == pc[r] = label /\ Blockers(r) = {}

\* The foreign keys to tenancy.organization: an INSERT finds its row.  The mutant
\* is a schema without them.
ReferenceUnchecked == TRUE
ReferenceHolds == org # "purged"

Goto(r, label) == pc' = [pc EXCEPT ![r] = label] /\ UNCHANGED req
Begin(r, label, what) ==
  /\ pc[r] = "idle"
  /\ what.op \in Ops
  /\ pc' = [pc EXCEPT ![r] = label]
  /\ req' = [req EXCEPT ![r] = what]
  /\ UNCHANGED data
\* The transaction has ended and the request has its answer.
Done(r) ==
  /\ pc' = [pc EXCEPT ![r] = "idle"]
  /\ req' = [req EXCEPT ![r] = NoRequest]

\* TenantContextGuard and TenantRoles: the caller's role in a live organization,
\* read before the handler runs.
Allowed(u, roles) == u \in accounts /\ org = "live" /\ role[u] \in roles
-----------------------------------------------------------------------------
(* ChangeMemberRoleUseCase and RemoveMemberUseCase.                        *)

ChangeRole(r) ==
  \E a \in Users, u \in Users, new \in Offered :
    /\ Allowed(a, {"owner"})
    /\ Begin(r, "lock", [NoRequest EXCEPT !.op = "change", !.actor = a, !.target = u,
                                          !.role = new])

Remove(r) ==
  \E a \in Users, u \in Users :
    /\ Allowed(a, Managers)
    /\ Begin(r, "lock", [NoRequest EXCEPT !.op = "remove", !.actor = a, !.target = u])

\* mutateMembership: SELECT role ... FOR UPDATE of the target's row, and no
\* other.  'not-a-member' ends the request.
LockMember(r) ==
  /\ At(r, "lock")
  /\ IF role[req[r].target] = NULL THEN Done(r) ELSE Goto(r, "decide")
  /\ UNCHANGED data

OtherOwners(u) == {o \in Users \ {u} : role[o] = "owner"}
\* The mutant counts the target among the other owners.
isLastOwnerOfTwo(u) == {o \in Users : role[o] = "owner"} = {}
isLastOwner(u) == OtherOwners(u) = {}

\* The decision under the lock: nothing to do, 'would-orphan-organization', or
\* go on.  The count reads committed rows that nobody has locked.
Decide(r) ==
  LET u == req[r].target
  IN  /\ At(r, "decide")
      /\ IF \/ req[r].op = "change" /\ role[u] = req[r].role
            \/ role[u] = "owner" /\ isLastOwner(u)
         THEN Done(r)
         ELSE Goto(r, "write")
      /\ UNCHANGED data

\* UPDATE of the role or DELETE of the row, and COMMIT.
WriteMember(r) ==
  /\ At(r, "write")
  /\ role' = [role EXCEPT ![req[r].target] =
                IF req[r].op = "change" THEN req[r].role ELSE NULL]
  /\ Done(r)
  /\ UNCHANGED <<org, accounts, invite, files, lead, purges>>

-----------------------------------------------------------------------------
(* Deletion of an account: beforeDelete, the trigger and the cascade.      *)

solelyOwns(u) == role[u] = "owner" /\ isLastOwner(u)

\* beforeDelete found no organization that the user solely owns.
DeleteAccount(r) ==
  \E u \in accounts :
    /\ ~solelyOwns(u)
    /\ Begin(r, "trigger", [NoRequest EXCEPT !.op = "delete", !.target = u])

\* DELETE FROM auth.user fires refuse_last_owner_deletion.
Trigger(r) ==
  LET u == req[r].target
  IN  /\ At(r, "trigger")
      /\ IF u \notin accounts \/ solelyOwns(u) THEN Done(r) ELSE Goto(r, "cascade")
      /\ UNCHANGED data

\* The foreign key's ON DELETE CASCADE removes the membership; COMMIT.
Cascade(r) ==
  /\ At(r, "cascade")
  /\ accounts' = accounts \ {req[r].target}
  /\ role' = [role EXCEPT ![req[r].target] = NULL]
  /\ Done(r)
  /\ UNCHANGED <<org, invite, files, lead, purges>>

-----------------------------------------------------------------------------
(* Invitations.                                                            *)

\* InviteMemberUseCase: the organization is live and the address is not a
\* member's; OrganizationInvitation.issue refuses ownership.
Invite(r) ==
  \E a \in Users, u \in Users, new \in Offered \ {"owner"}, i \in Invites :
    /\ Allowed(a, Managers)
    /\ role[u] = NULL
    /\ invite[i].state = "free"
    /\ \A o \in Requests : req[o].invite # i
    /\ Begin(r, "save", [NoRequest EXCEPT !.op = "invite", !.actor = a, !.target = u,
                                          !.role = new, !.invite = i])

\* INSERT; it fails when the organization is gone.
SaveInvite(r) ==
  /\ At(r, "save")
  /\ invite' = [invite EXCEPT ![req[r].invite] =
       IF ReferenceHolds
       THEN [state |-> "pending", expired |-> FALSE, to |-> req[r].target,
             role |-> req[r].role]
       ELSE @]
  /\ Done(r)
  /\ UNCHANGED <<org, accounts, role, files, lead, purges>>

\* expiresAt passes.
Expire(i) ==
  /\ invite[i].state = "pending" /\ ~invite[i].expired
  /\ invite' = [invite EXCEPT ![i].expired = TRUE]
  /\ UNCHANGED <<org, accounts, role, files, lead, purges, pc, req>>

\* AcceptInvitationUseCase: findPendingByTokenHash, isRedeemableAt and
\* matchesRecipient.  now is read here and used in markAccepted.
Accept(r) ==
  \E i \in Invites :
    /\ invite[i].state = "pending" /\ ~invite[i].expired
    /\ invite[i].to \in accounts
    /\ Begin(r, "claim", [NoRequest EXCEPT !.op = "accept", !.actor = invite[i].to,
                                           !.invite = i])

\* markAccepted: UPDATE ... WHERE accepted_at IS NULL.  The mutant forgets the
\* condition.
ClaimableAnyway(i) == invite[i].state # "free"
Redeemable(i) == invite[i].state = "pending"
MarkAccepted(r) ==
  /\ At(r, "claim")
  /\ IF Redeemable(req[r].invite) THEN Goto(r, "join") ELSE Done(r)
  /\ UNCHANGED data

\* addMember: INSERT ... ON CONFLICT DO NOTHING, and COMMIT of both writes; a
\* missing account or organization rolls both back.
Join(r) ==
  LET i == req[r].invite
      u == req[r].actor
  IN  /\ At(r, "join")
      /\ IF u \in accounts /\ ReferenceHolds
         THEN /\ invite' = [invite EXCEPT ![i].state = "accepted"]
              /\ role' = [role EXCEPT ![u] = IF @ = NULL THEN invite[i].role ELSE @]
         ELSE UNCHANGED <<invite, role>>
      /\ Done(r)
      /\ UNCHANGED <<org, accounts, files, lead, purges>>

\* RevokeInvitationUseCase: DELETE ... WHERE accepted_at IS NULL.
Revoke(r) ==
  \E a \in Users, i \in Invites :
    /\ Allowed(a, Managers)
    /\ invite[i].state # "free"
    /\ Begin(r, "revoke", [NoRequest EXCEPT !.op = "revoke", !.actor = a, !.invite = i])

DeleteInvite(r) ==
  LET i == req[r].invite
  IN  /\ At(r, "revoke")
      /\ invite' = [invite EXCEPT ![i].state = IF @ = "pending" THEN "deleted" ELSE @]
      /\ Done(r)
      /\ UNCHANGED <<org, accounts, role, files, lead, purges>>
-----------------------------------------------------------------------------
(* ChangeOrganizationLifecycleUseCase.                                     *)

\* requireOwner: an owner, whether or not the organization is archived, read
\* before the transaction.
OwnerBegins(r, op, label) ==
  \E a \in accounts :
    /\ role[a] = "owner"
    /\ Begin(r, label, [NoRequest EXCEPT !.op = op, !.actor = a])

Archive(r) == OwnerBegins(r, "archive", "read")
Restore(r) == OwnerBegins(r, "restore", "read")
Purge(r)   == OwnerBegins(r, "purge", "find")

Wanted(r) == IF req[r].op = "archive" THEN "archived" ELSE "live"
Opposite(r) == IF req[r].op = "archive" THEN "live" ELSE "archived"

\* changeState: not found, already in the requested state, or go on.
ReadState(r) ==
  /\ At(r, "read")
  /\ IF org = Opposite(r) THEN Goto(r, "set") ELSE Done(r)
  /\ UNCHANGED data

\* setArchivedAt: UPDATE ... WHERE archived_at IS (NOT) NULL.
StillOpposite(r) == org = Opposite(r)

\* The UPDATE, publishAll and COMMIT; a conflict when the state has changed.
SetState(r) ==
  /\ At(r, "set")
  /\ IF StillOpposite(r)
     THEN /\ org' = Wanted(r)
          /\ lead' = IF req[r].op = "archive" THEN lead + 1 ELSE lead - 1
     ELSE UNCHANGED <<org, lead>>
  /\ Done(r)
  /\ UNCHANGED <<accounts, role, invite, files, purges>>

\* purge: only an archived organization.
FindArchived(r) ==
  /\ At(r, "find")
  /\ IF org = "archived" THEN Goto(r, "lockOrg") ELSE Done(r)
  /\ UNCHANGED data

\* purgeWithClient: SELECT ... FOR UPDATE and its check.  The mutant does not
\* look at archived_at again.
PurgeableIfFound == org # "purged"
Purgeable == org = "archived"
LockOrganization(r) ==
  /\ At(r, "lockOrg")
  /\ IF Purgeable THEN Goto(r, "counts") ELSE Done(r)
  /\ UNCHANGED data

\* The two counts.  A file refuses the purge, and so does a live subscription,
\* which nothing in this code writes.
CountFiles(r) ==
  /\ At(r, "counts")
  /\ \/ files = {} /\ Goto(r, "erase")
     \/ Done(r)
  /\ UNCHANGED data

\* The DELETEs, publishAll and COMMIT.  The lock on the organization has kept new
\* files out since the count, so stored_file's ON DELETE RESTRICT has no say.
Erase(r) ==
  /\ At(r, "erase")
  /\ invite' = [i \in Invites |-> IF invite[i].state = "free" THEN invite[i]
                                  ELSE [invite[i] EXCEPT !.state = "deleted"]]
  /\ role' = [u \in Users |-> NULL]
  /\ org' = "purged"
  /\ purges' = purges + 1
  /\ Done(r)
  /\ UNCHANGED <<accounts, files, lead>>

-----------------------------------------------------------------------------
(* The organization's files, as far as its lifecycle sees them.            *)

\* PresignUploadUseCase behind TenantContextGuard, then the INSERT.
Presign(r) ==
  \E a \in Users :
    /\ Allowed(a, Roles)
    /\ Begin(r, "insert", [NoRequest EXCEPT !.op = "presign", !.actor = a])

InsertFile(r) ==
  /\ At(r, "insert")
  /\ IF ReferenceHolds /\ Files # files
     THEN \E f \in Files \ files : files' = files \cup {f}
     ELSE UNCHANGED files
  /\ Done(r)
  /\ UNCHANGED <<org, accounts, role, invite, lead, purges>>

\* The sweep and the purge of a user's files delete rows.
DeleteFile ==
  /\ \E f \in files : files' = files \ {f}
  /\ UNCHANGED <<org, accounts, role, invite, lead, purges, pc, req>>

-----------------------------------------------------------------------------
\* A request fails between two statements (a lost connection, a timeout) and
\* its transaction rolls back; and PostgreSQL ends a cycle of waiting
\* transactions by failing one of them.
Fail(r) ==
  /\ pc[r] # "idle"
  /\ Done(r)
  /\ UNCHANGED data

\* The mutant has no detector.  Only an acceptance ("join") and a purge ("erase")
\* wait for each other, so a cycle has two members.
NoVictim(r) == FALSE /\ UNCHANGED vars
DeadlockVictim(r) ==
  /\ \E o \in Blockers(r) : r \in Blockers(o)
  /\ Done(r)
  /\ UNCHANGED data

Start(r) ==
  \/ ChangeRole(r) \/ Remove(r) \/ DeleteAccount(r)
  \/ Invite(r) \/ Accept(r) \/ Revoke(r)
  \/ Archive(r) \/ Restore(r) \/ Purge(r) \/ Presign(r)

Statement(r) ==
  \/ LockMember(r) \/ Decide(r) \/ WriteMember(r)
  \/ Trigger(r) \/ Cascade(r)
  \/ SaveInvite(r) \/ MarkAccepted(r) \/ Join(r) \/ DeleteInvite(r)
  \/ ReadState(r) \/ SetState(r)
  \/ FindArchived(r) \/ LockOrganization(r) \/ CountFiles(r) \/ Erase(r)
  \/ InsertFile(r)

Next ==
  \/ \E r \in Requests : Start(r) \/ Statement(r) \/ Fail(r) \/ DeadlockVictim(r)
  \/ \E i \in Invites : Expire(i)
  \/ DeleteFile

Spec == Init /\ [][Next]_vars

\* Statements are executed and a lock is granted to the waiters in turn (strong
\* fairness); the deadlock detector runs.
Fairness ==
  \A r \in Requests : SF_vars(Statement(r)) /\ WF_vars(DeadlockVictim(r))

-----------------------------------------------------------------------------
(* Properties.                                                             *)

\* "An organization always has an owner" (the migration's
\* refuse_last_owner_deletion, and organization.repository.ts): mutateMembership
\* and the trigger refuse to take the last owner away.
AlwaysAnOwner == org # "purged" => \E u \in Users : role[u] = "owner"

\* Every archive, restore and purge is published exactly once: however requests
\* overlap or are repeated, the events published so far describe the state.
EventsMatchState ==
  /\ org = "live" => lead = 0 /\ purges = 0
  /\ org = "archived" => lead = 1 /\ purges = 0
  /\ org = "purged" => lead = 1 /\ purges = 1

\* A purge leaves nothing behind: no member, no open invitation and no file
\* refers to a purged organization, whatever was under way when it committed.
PurgeIsComplete ==
  org = "purged" =>
    /\ files = {}
    /\ \A u \in Users : role[u] = NULL
    /\ \A i \in Invites : invite[i].state \in {"free", "deleted"}

\* Somebody becomes a member only by the acceptance of an invitation that is
\* still open at that moment, and with its role: accepting twice, accepting what
\* is being revoked, or being invited while already a member adds nothing.
JoinedByInvitation ==
  [][\A u \in Users : role[u] = NULL /\ role'[u] # NULL =>
       \E i \in Invites : /\ invite[i].state = "pending" /\ invite[i].to = u
                          /\ invite'[i].state = "accepted"
                          /\ role'[u] = invite[i].role]_vars

\* Every request is answered: no statement waits for ever, not even when a purge
\* and an acceptance wait for each other.
EveryRequestEnds == \A r \in Requests : pc[r] # "idle" ~> pc[r] = "idle"

-----------------------------------------------------------------------------
(* The inductive invariant behind EventsMatchState, PurgeIsComplete and    *)
(* JoinedByInvitation: what each lock keeps true for its holder.           *)

Mutating(r) == pc[r] \in {"decide", "write"}
Purging(r) == pc[r] \in {"counts", "erase"}

\* A request has the operands that its statements use.
Operands ==
  \A r \in Requests :
    /\ pc[r] \in {"lock", "decide", "write", "trigger", "cascade", "save"} =>
         req[r].target \in Users
    /\ pc[r] \in {"lock", "decide", "write"} /\ req[r].op = "change" => req[r].role \in Roles
    /\ pc[r] \in {"claim", "join"} => req[r].actor \in Users
    /\ pc[r] \in {"save", "claim", "join", "revoke"} => req[r].invite \in Invites

\* The lock of mutateMembership: one holder per row, and the row stays.
MemberInv ==
  \A r \in Requests : Mutating(r) =>
    /\ role[req[r].target] # NULL
    /\ \A o \in Others(r) : Mutating(o) => req[o].target # req[r].target

\* The lock of purgeWithClient: one holder, the organization stays archived, and
\* no file arrives after the count.
PurgeInv ==
  \A r \in Requests :
    /\ Purging(r) => org = "archived" /\ \A o \in Others(r) : ~Purging(o)
    /\ pc[r] = "erase" => files = {}

\* An invitation that is being saved has no row yet; one that is being accepted is
\* its recipient's, and stays open once it is locked.
InviteInv ==
  \A r \in Requests :
    /\ pc[r] = "save" => invite[req[r].invite].state = "free"
    /\ pc[r] \in {"claim", "join"} =>
         /\ invite[req[r].invite].state # "free"
         /\ invite[req[r].invite].to = req[r].actor
    /\ pc[r] = "join" => invite[req[r].invite].state = "pending"

\* An invitation that is being saved is nobody else's, and one request at a time
\* holds the lock of markAccepted.
AloneInv ==
  \A r \in Requests : \A o \in Others(r) :
    /\ pc[r] = "save" => req[o].invite # req[r].invite
    /\ pc[r] = "join" /\ pc[o] = "join" => req[o].invite # req[r].invite

IInv ==
  /\ TypeOK /\ EventsMatchState /\ PurgeIsComplete
  /\ Operands /\ MemberInv /\ PurgeInv /\ InviteInv /\ AloneInv

\* What one request at a time keeps: the owner that was counted is still there
\* when the statement after the count runs.
OwnerInv ==
  /\ AlwaysAnOwner
  /\ \A r \in Requests :
       pc[r] \in {"write", "cascade"} /\ role[req[r].target] = "owner" =>
         OtherOwners(req[r].target) # {}
=============================================================================
