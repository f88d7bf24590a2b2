-------------------------- MODULE OrganizationProofs --------------------------
(***************************************************************************)
(* Proofs about Organization: for every number of users, requests,         *)
(* invitations and files, the inductive invariant IInv holds, and with it  *)
(* EventsMatchState, PurgeIsComplete and JoinedByInvitation; and the       *)
(* organization keeps an owner until two requests overlap.                 *)
(***************************************************************************)
EXTENDS OrganizationHistory, TLAPS

-----------------------------------------------------------------------------
(* What a step can be.                                                     *)

\* A request that begins is idle before, and what it is about is well typed and
\* fits the statement it will execute first.
Begun(r, label, what) ==
  /\ pc[r] = "idle"
  /\ what \in RequestRows
  /\ pc' = [pc EXCEPT ![r] = label]
  /\ req' = [req EXCEPT ![r] = what]
  /\ UNCHANGED data
  /\ \/ label = "lock" /\ what.target \in Users /\ what.invite = NULL
          /\ (what.op = "change" => what.role \in Roles)
     \/ label = "trigger" /\ what.target \in Users /\ what.invite = NULL
     \/ label = "save" /\ what.target \in Users /\ what.invite \in Invites
          /\ invite[what.invite].state = "free"
          /\ \A o \in Requests : req[o].invite # what.invite
     \/ label = "claim" /\ what.actor \in Users /\ what.invite \in Invites
          /\ invite[what.invite].state = "pending"
          /\ invite[what.invite].to = what.actor
     \/ label = "revoke" /\ what.invite \in Invites /\ invite[what.invite].state # "free"
     \/ label \in {"read", "find", "insert"} /\ what.invite = NULL

\* Every way a request starts (ChangeRole ... Presign) is a Begun step.
LEMMA StartBegins ==
  ASSUME TypeOK, NEW r \in Requests, Start(r)
  PROVE  \E label, what : Begun(r, label, what)
<1> USE UsersAssumption, RolesAssumption, InvitesAssumption DEF NoRequest, RequestRows, Begin
<1>1. CASE ChangeRole(r)
  <2>1. PICK a \in Users, u \in Users, new \in Offered :
          Begin(r, "lock", [NoRequest EXCEPT !.op = "change", !.actor = a, !.target = u, !.role = new])
    BY Zenon, <1>1 DEF ChangeRole
  <2> DEFINE w == [NoRequest EXCEPT !.op = "change", !.actor = a, !.target = u, !.role = new]
  <2>3. Begun(r, "lock", w)
    BY Zenon, <2>1 DEF Begun
  <2> HIDE DEF w
  <2> QED BY <2>3
<1>2. CASE Remove(r)
  <2>1. PICK a \in Users, u \in Users :
          Begin(r, "lock", [NoRequest EXCEPT !.op = "remove", !.actor = a, !.target = u])
    BY Zenon, <1>2 DEF Remove
  <2> DEFINE w == [NoRequest EXCEPT !.op = "remove", !.actor = a, !.target = u]
  <2>3. Begun(r, "lock", w)
    BY Zenon, <2>1 DEF Begun
  <2> HIDE DEF w
  <2> QED BY <2>3
<1>3. CASE DeleteAccount(r)
  <2>1. PICK u \in accounts :
          Begin(r, "trigger", [NoRequest EXCEPT !.op = "delete", !.target = u])
    BY Zenon, <1>3 DEF DeleteAccount
  <2> DEFINE w == [NoRequest EXCEPT !.op = "delete", !.target = u]
  <2>2. u \in Users
    BY <2>1 DEF TypeOK
  <2>3. Begun(r, "trigger", w)
    BY Zenon, <2>1, <2>2 DEF Begun
  <2> HIDE DEF w
  <2> QED BY <2>3
<1>4. CASE Invite(r)
  <2>1. PICK a \in Users, u \in Users, new \in Offered \ {"owner"}, i \in Invites :
          /\ Allowed(a, Managers)
          /\ role[u] = NULL
          /\ invite[i].state = "free"
          /\ \A o \in Requests : req[o].invite # i
          /\ Begin(r, "save", [NoRequest EXCEPT !.op = "invite", !.actor = a, !.target = u, !.role = new, !.invite = i])
    BY Zenon, <1>4 DEF Invite
  <2> DEFINE w == [NoRequest EXCEPT !.op = "invite", !.actor = a, !.target = u, !.role = new, !.invite = i]
  <2>3. Begun(r, "save", w)
    BY Zenon, <2>1 DEF Begun
  <2> HIDE DEF w
  <2> QED BY <2>3
<1>5. CASE Accept(r)
  <2>1. PICK i \in Invites :
          /\ invite[i].state = "pending"
          /\ invite[i].to \in accounts
          /\ Begin(r, "claim", [NoRequest EXCEPT !.op = "accept", !.actor = invite[i].to, !.invite = i])
    BY Zenon, <1>5 DEF Accept
  <2> DEFINE w == [NoRequest EXCEPT !.op = "accept", !.actor = invite[i].to, !.invite = i]
  <2>2. invite[i].to \in Users
    BY <2>1 DEF TypeOK
  <2>3. Begun(r, "claim", w)
    BY Zenon, <2>1, <2>2 DEF Begun
  <2> HIDE DEF w
  <2> QED BY <2>3
<1>6. CASE Revoke(r)
  <2>1. PICK a \in Users, i \in Invites :
          /\ invite[i].state # "free"
          /\ Begin(r, "revoke", [NoRequest EXCEPT !.op = "revoke", !.actor = a, !.invite = i])
    BY Zenon, <1>6 DEF Revoke
  <2> DEFINE w == [NoRequest EXCEPT !.op = "revoke", !.actor = a, !.invite = i]
  <2>3. Begun(r, "revoke", w)
    BY Zenon, <2>1 DEF Begun
  <2> HIDE DEF w
  <2> QED BY <2>3
<1>7. CASE Presign(r)
  <2>1. PICK a \in Users :
          Begin(r, "insert", [NoRequest EXCEPT !.op = "presign", !.actor = a])
    BY Zenon, <1>7 DEF Presign
  <2> DEFINE w == [NoRequest EXCEPT !.op = "presign", !.actor = a]
  <2>3. Begun(r, "insert", w)
    BY Zenon, <2>1 DEF Begun
  <2> HIDE DEF w
  <2> QED BY <2>3
<1>8. ASSUME NEW op, NEW label \in {"read", "find"}, OwnerBegins(r, op, label)
      PROVE  \E l, what : Begun(r, l, what)
  <2>1. PICK a \in accounts : Begin(r, label, [NoRequest EXCEPT !.op = op, !.actor = a])
    BY Zenon, <1>8 DEF OwnerBegins
  <2> DEFINE w == [NoRequest EXCEPT !.op = op, !.actor = a]
  <2>2. a \in Users
    BY <2>1 DEF TypeOK
  <2>3. Begun(r, label, w)
    BY Zenon, <2>1, <2>2 DEF Begun
  <2> HIDE DEF w
  <2> QED BY <2>3
<1> QED
  BY <1>1, <1>2, <1>3, <1>4, <1>5, <1>6, <1>7, <1>8 DEF Start, Archive, Restore, Purge

-----------------------------------------------------------------------------
(* The locks.                                                              *)

\* Two unions that are empty have no members in their sets.
LEMMA EmptyUnions ==
  ASSUME NEW I, NEW M, (UNION I) \cup (UNION M) = {}
  PROVE  \A S \in I \cup M : \A o : o \notin S
<1> SUFFICES ASSUME NEW S \in I \cup M, NEW o \in S PROVE FALSE
  OBVIOUS
<1>1. o \in (UNION I) \cup (UNION M)
  BY Zenon
<1> QED BY <1>1

\* A statement that does not wait has no other holder of the lock it needs.
LEMMA NotBlocked ==
  ASSUME NEW r \in Requests
  PROVE  /\ At(r, "lock") \/ At(r, "cascade") =>
              \A o \in Others(r) : Mutating(o) => req[o].target # req[r].target
         /\ At(r, "claim") \/ At(r, "revoke") =>
              \A o \in Others(r) : pc[o] = "join" => req[o].invite # req[r].invite
         /\ At(r, "set") \/ At(r, "lockOrg") \/ At(r, "save") \/ At(r, "insert")
              \/ At(r, "join") => \A o \in Others(r) : ~Purging(o)
         /\ At(r, "erase") =>
              \A o \in Others(r) :
                /\ pc[o] = "join" => req[o].invite \notin Invites
                /\ Mutating(o) => req[o].target \notin Users
<1> USE DEF At, Blockers, Mutating, Purging
<1>1. At(r, "lock") \/ At(r, "cascade") =>
        \A o \in Others(r) : Mutating(o) => req[o].target # req[r].target
  BY DEF MemberLockers
<1>2. At(r, "claim") \/ At(r, "revoke") =>
        \A o \in Others(r) : pc[o] = "join" => req[o].invite # req[r].invite
  BY Zenon DEF InviteLockers
<1>3. At(r, "set") \/ At(r, "lockOrg") \/ At(r, "save") \/ At(r, "insert")
        \/ At(r, "join") => \A o \in Others(r) : ~Purging(o)
  BY DEF OrgLockers
<1>4. ASSUME At(r, "erase"), NEW o \in Others(r)
      PROVE  /\ pc[o] = "join" => req[o].invite \notin Invites
             /\ Mutating(o) => req[o].target \notin Users
  <2> DEFINE I == {InviteLockers(r, i) : i \in Invites}
             M == {MemberLockers(r, u) : u \in Users}
  <2>1. Blockers(r) = (UNION I) \cup (UNION M)
    BY <1>4
  <2>2. Blockers(r) = {}
    BY <1>4
  <2> HIDE DEF Blockers
  <2>3. \A S \in I \cup M : o \notin S
    BY Zenon, <2>1, <2>2, EmptyUnions
  <2>4. \A i \in Invites : o \notin InviteLockers(r, i)
    BY <2>3
  <2>5. \A u \in Users : o \notin MemberLockers(r, u)
    BY <2>3
  <2> QED BY <2>4, <2>5 DEF InviteLockers, MemberLockers
<1> QED BY <1>1, <1>2, <1>3, <1>4

-----------------------------------------------------------------------------
(* Each conjunct of IInv, one step.                                        *)

\* The part of TypeOK about where the requests are.
ControlType == pc \in [Requests -> Labels] /\ req \in [Requests -> RequestRows]

\* A request that goes on, or ends, is well typed.
LEMMA ControlStep ==
  ASSUME TypeOK, NEW r \in Requests
  PROVE  /\ Done(r) => ControlType'
         /\ \A label \in Labels : Goto(r, label) => ControlType'
<1>1. NoRequest \in RequestRows /\ "idle" \in Labels
  BY DEF NoRequest, RequestRows, Labels
<1>2. Done(r) => ControlType'
  BY <1>1 DEF TypeOK, ControlType, Done
<1>3. ASSUME NEW label \in Labels, Goto(r, label) PROVE ControlType'
  BY <1>3 DEF TypeOK, ControlType, Goto
<1> QED BY <1>2, <1>3

\* Every step keeps the types, the counters of events included.
LEMMA NextType ==
  ASSUME IInv, Next
  PROVE  TypeOK'
<1> USE DEF IInv, TypeOK
<1>1. ASSUME NEW r \in Requests, NEW label, NEW what, Begun(r, label, what)
      PROVE  TypeOK'
  BY <1>1 DEF Begun, data, Labels
<1>2. ASSUME NEW r \in Requests, LockMember(r) PROVE TypeOK'
  <2>1. ControlType'
    BY <1>2, ControlStep DEF LockMember, Labels
  <2> QED BY <1>2, <2>1 DEF LockMember, ControlType, data
<1>3. ASSUME NEW r \in Requests, Decide(r) PROVE TypeOK'
  <2>1. ControlType'
    BY <1>3, ControlStep DEF Decide, Labels
  <2> QED BY <1>3, <2>1 DEF Decide, ControlType, data
<1>4. ASSUME NEW r \in Requests, WriteMember(r) PROVE TypeOK'
  <2>1. ControlType'
    BY <1>4, ControlStep DEF WriteMember, Labels
  <2>2. req[r] \in RequestRows
    OBVIOUS
  <2>3. role' \in [Users -> Roles \cup {NULL}]
    BY Zenon, <1>4, <2>2 DEF WriteMember, RequestRows
  <2> QED BY <1>4, <2>1, <2>3 DEF WriteMember, ControlType
<1>5. ASSUME NEW r \in Requests, Trigger(r) PROVE TypeOK'
  <2>1. ControlType'
    BY <1>5, ControlStep DEF Trigger, Labels
  <2> QED BY <1>5, <2>1 DEF Trigger, ControlType, data
<1>6. ASSUME NEW r \in Requests, Cascade(r) PROVE TypeOK'
  <2>1. ControlType'
    BY <1>6, ControlStep DEF Cascade, Labels
  <2> QED BY Zenon, <1>6, <2>1 DEF Cascade, ControlType, data
<1>7. ASSUME NEW r \in Requests, SaveInvite(r) PROVE TypeOK'
  <2>1. ControlType'
    BY <1>7, ControlStep DEF SaveInvite, Labels
  <2> DEFINE row == [state |-> "pending", expired |-> FALSE, to |-> req[r].target,
                     role |-> req[r].role]
  <2>2. req[r] \in RequestRows /\ req[r].target \in Users
    BY <1>7 DEF Operands, SaveInvite, At
  <2>3. row \in InviteRows
    BY <2>2 DEF RequestRows, InviteRows
  <2>4. invite' \in [Invites -> InviteRows]
    BY Zenon, <1>7, <2>3 DEF SaveInvite, InviteRows
  <2> QED BY <1>7, <2>1, <2>4 DEF SaveInvite, ControlType
<1>8. ASSUME NEW r \in Requests, MarkAccepted(r) PROVE TypeOK'
  <2>1. ControlType'
    BY <1>8, ControlStep DEF MarkAccepted, Labels
  <2> QED BY <1>8, <2>1 DEF MarkAccepted, ControlType, data
<1>9. ASSUME NEW r \in Requests, Join(r) PROVE TypeOK'
  <2>1. ControlType'
    BY <1>9, ControlStep DEF Join, Labels
  <2>2. req[r].invite \in Invites
    BY <1>9 DEF Operands, Join, At
  <2>3. invite[req[r].invite] \in InviteRows
    BY <2>2
  <2>4. invite' \in [Invites -> InviteRows]
    BY <1>9, <2>3 DEF Join, InviteRows
  <2>5. role' \in [Users -> Roles \cup {NULL}]
    BY <1>9, <2>3 DEF Join, InviteRows
  <2> QED BY <1>9, <2>1, <2>4, <2>5 DEF Join, ControlType
<1>10. ASSUME NEW r \in Requests, DeleteInvite(r) PROVE TypeOK'
  <2>1. ControlType'
    BY <1>10, ControlStep DEF DeleteInvite, Labels
  <2>2. req[r].invite \in Invites
    BY <1>10 DEF Operands, DeleteInvite, At
  <2>3. invite[req[r].invite] \in InviteRows
    BY <2>2
  <2>4. [invite[req[r].invite] EXCEPT !.state =
           IF @ = "pending" THEN "deleted" ELSE @] \in InviteRows
    BY <2>3 DEF InviteRows
  <2>5. invite' \in [Invites -> InviteRows]
    BY Zenon, <1>10, <2>4 DEF DeleteInvite
  <2> QED BY <1>10, <2>1, <2>5 DEF DeleteInvite, ControlType
<1>11. ASSUME NEW r \in Requests, ReadState(r) PROVE TypeOK'
  <2>1. ControlType'
    BY <1>11, ControlStep DEF ReadState, Labels
  <2> QED BY <1>11, <2>1 DEF ReadState, ControlType, data
<1>12. ASSUME NEW r \in Requests, SetState(r) PROVE TypeOK'
  <2>1. ControlType'
    BY <1>12, ControlStep DEF SetState, Labels
  <2>2. org' \in {"live", "archived", "purged"} /\ lead' \in 0..1
    BY <1>12 DEF SetState, EventsMatchState, StillOpposite, Wanted, Opposite
  <2> QED BY <1>12, <2>1, <2>2 DEF SetState, ControlType
<1>13. ASSUME NEW r \in Requests, FindArchived(r) PROVE TypeOK'
  <2>1. ControlType'
    BY <1>13, ControlStep DEF FindArchived, Labels
  <2> QED BY <1>13, <2>1 DEF FindArchived, ControlType, data
<1>14. ASSUME NEW r \in Requests, LockOrganization(r) PROVE TypeOK'
  <2>1. ControlType'
    BY <1>14, ControlStep DEF LockOrganization, Labels
  <2> QED BY <1>14, <2>1 DEF LockOrganization, ControlType, data
<1>15. ASSUME NEW r \in Requests, CountFiles(r) PROVE TypeOK'
  <2>1. ControlType'
    BY <1>15, ControlStep DEF CountFiles, Labels
  <2> QED BY <1>15, <2>1 DEF CountFiles, ControlType, data
<1>16. ASSUME NEW r \in Requests, Erase(r) PROVE TypeOK'
  <2>1. ControlType'
    BY <1>16, ControlStep DEF Erase, Labels
  <2>2. invite' \in [Invites -> InviteRows]
    BY ZenonT(30), <1>16 DEF Erase, InviteRows
  <2>3. purges' \in 0..1
    BY <1>16 DEF Erase, At, EventsMatchState, PurgeInv, Purging
  <2> QED BY <1>16, <2>1, <2>2, <2>3 DEF Erase, ControlType
<1>17. ASSUME NEW r \in Requests, InsertFile(r) PROVE TypeOK'
  <2>1. ControlType'
    BY <1>17, ControlStep DEF InsertFile, Labels
  <2> QED BY <1>17, <2>1 DEF InsertFile, ControlType, data
<1>18. ASSUME NEW r \in Requests, Fail(r) PROVE TypeOK'
  <2>1. ControlType'
    BY <1>18, ControlStep DEF Fail, Labels
  <2> QED BY <1>18, <2>1 DEF Fail, ControlType, data
<1>19. ASSUME NEW r \in Requests, DeadlockVictim(r) PROVE TypeOK'
  <2>1. ControlType'
    BY <1>19, ControlStep DEF DeadlockVictim, Labels
  <2> QED BY <1>19, <2>1 DEF DeadlockVictim, ControlType, data
<1>20. ASSUME NEW i \in Invites, Expire(i) PROVE TypeOK'
  BY Zenon, <1>20 DEF Expire, InviteRows
<1>21. ASSUME DeleteFile PROVE TypeOK'
  BY <1>21 DEF DeleteFile
<1>22. ASSUME NEW r \in Requests, Start(r) PROVE TypeOK'
  <2>1. TypeOK
    BY DEF IInv
  <2> QED BY <1>1, <1>22, <2>1, StartBegins
<1> QED
  BY <1>2, <1>3, <1>4, <1>5, <1>6, <1>7, <1>8, <1>9,
     <1>10, <1>11, <1>12, <1>13, <1>14, <1>15, <1>16, <1>17,
     <1>18, <1>19, <1>20, <1>21, <1>22 DEF Next, Statement

\* Every step keeps the published events in agreement with the state.
LEMMA NextEvents ==
  ASSUME IInv, Next
  PROVE  EventsMatchState'
<1> USE DEF IInv, EventsMatchState
<1>1. ASSUME NEW r \in Requests, NEW label, NEW what, Begun(r, label, what)
      PROVE  EventsMatchState'
  BY <1>1 DEF Begun, data
<1>2. ASSUME NEW r \in Requests, LockMember(r) PROVE EventsMatchState'
  BY <1>2 DEF LockMember, At, Goto, Done, data
<1>3. ASSUME NEW r \in Requests, Decide(r) PROVE EventsMatchState'
  BY <1>3 DEF Decide, At, Goto, Done, data
<1>4. ASSUME NEW r \in Requests, WriteMember(r) PROVE EventsMatchState'
  BY <1>4 DEF WriteMember, At, Goto, Done, data
<1>5. ASSUME NEW r \in Requests, Trigger(r) PROVE EventsMatchState'
  BY <1>5 DEF Trigger, At, Goto, Done, data
<1>6. ASSUME NEW r \in Requests, Cascade(r) PROVE EventsMatchState'
  BY <1>6 DEF Cascade, At, Goto, Done, data
<1>7. ASSUME NEW r \in Requests, SaveInvite(r) PROVE EventsMatchState'
  BY <1>7 DEF SaveInvite, At, Goto, Done, data
<1>8. ASSUME NEW r \in Requests, MarkAccepted(r) PROVE EventsMatchState'
  BY <1>8 DEF MarkAccepted, At, Goto, Done, data
<1>9. ASSUME NEW r \in Requests, Join(r) PROVE EventsMatchState'
  BY <1>9 DEF Join, At, Goto, Done, data
<1>10. ASSUME NEW r \in Requests, DeleteInvite(r) PROVE EventsMatchState'
  BY <1>10 DEF DeleteInvite, At, Goto, Done, data
<1>11. ASSUME NEW r \in Requests, ReadState(r) PROVE EventsMatchState'
  BY <1>11 DEF ReadState, At, Goto, Done, data
<1>12. ASSUME NEW r \in Requests, SetState(r) PROVE EventsMatchState'
  BY <1>12 DEF SetState, At, Goto, Done, data, StillOpposite, Wanted, Opposite, TypeOK
<1>13. ASSUME NEW r \in Requests, FindArchived(r) PROVE EventsMatchState'
  BY <1>13 DEF FindArchived, At, Goto, Done, data
<1>14. ASSUME NEW r \in Requests, LockOrganization(r) PROVE EventsMatchState'
  BY <1>14 DEF LockOrganization, At, Goto, Done, data
<1>15. ASSUME NEW r \in Requests, CountFiles(r) PROVE EventsMatchState'
  BY <1>15 DEF CountFiles, At, Goto, Done, data
<1>16. ASSUME NEW r \in Requests, Erase(r) PROVE EventsMatchState'
  BY <1>16 DEF Erase, At, Goto, Done, data, PurgeInv, Purging
<1>17. ASSUME NEW r \in Requests, InsertFile(r) PROVE EventsMatchState'
  BY <1>17 DEF InsertFile, At, Goto, Done, data
<1>18. ASSUME NEW r \in Requests, Fail(r) PROVE EventsMatchState'
  BY <1>18 DEF Fail, At, Goto, Done, data
<1>19. ASSUME NEW r \in Requests, DeadlockVictim(r) PROVE EventsMatchState'
  BY <1>19 DEF DeadlockVictim, At, Goto, Done, data
<1>20. ASSUME NEW i \in Invites, Expire(i) PROVE EventsMatchState'
  BY <1>20 DEF Expire
<1>21. ASSUME DeleteFile PROVE EventsMatchState'
  BY <1>21 DEF DeleteFile
<1>22. ASSUME NEW r \in Requests, Start(r) PROVE EventsMatchState'
  <2>1. TypeOK
    BY ZenonT(30) DEF IInv
  <2> QED BY <1>1, <1>22, <2>1, StartBegins
<1> QED
  BY <1>2, <1>3, <1>4, <1>5, <1>6, <1>7, <1>8, <1>9,
     <1>10, <1>11, <1>12, <1>13, <1>14, <1>15, <1>16, <1>17,
     <1>18, <1>19, <1>20, <1>21, <1>22 DEF Next, Statement

\* Nothing comes back to a purged organization.
LEMMA NextComplete ==
  ASSUME IInv, Next
  PROVE  PurgeIsComplete'
<1> USE DEF IInv, PurgeIsComplete, TypeOK
<1>1. ASSUME NEW r \in Requests, NEW label, NEW what, Begun(r, label, what)
      PROVE  PurgeIsComplete'
  BY <1>1 DEF Begun, data
<1>2. ASSUME NEW r \in Requests, LockMember(r) PROVE PurgeIsComplete'
  BY <1>2 DEF LockMember, At, Goto, Done, data
<1>3. ASSUME NEW r \in Requests, Decide(r) PROVE PurgeIsComplete'
  BY <1>3 DEF Decide, At, Goto, Done, data
<1>4. ASSUME NEW r \in Requests, WriteMember(r) PROVE PurgeIsComplete'
  BY <1>4 DEF WriteMember, At, Goto, Done, data, MemberInv, Mutating, Operands
<1>5. ASSUME NEW r \in Requests, Trigger(r) PROVE PurgeIsComplete'
  BY <1>5 DEF Trigger, At, Goto, Done, data
<1>6. ASSUME NEW r \in Requests, Cascade(r) PROVE PurgeIsComplete'
  BY <1>6 DEF Cascade, At, Goto, Done, data
<1>7. ASSUME NEW r \in Requests, SaveInvite(r) PROVE PurgeIsComplete'
  BY <1>7 DEF SaveInvite, At, Goto, Done, data, ReferenceHolds
<1>8. ASSUME NEW r \in Requests, MarkAccepted(r) PROVE PurgeIsComplete'
  BY <1>8 DEF MarkAccepted, At, Goto, Done, data
<1>9. ASSUME NEW r \in Requests, Join(r) PROVE PurgeIsComplete'
  BY <1>9 DEF Join, At, Goto, Done, data, ReferenceHolds
<1>10. ASSUME NEW r \in Requests, DeleteInvite(r) PROVE PurgeIsComplete'
  BY <1>10 DEF DeleteInvite, At, Goto, Done, data
<1>11. ASSUME NEW r \in Requests, ReadState(r) PROVE PurgeIsComplete'
  BY <1>11 DEF ReadState, At, Goto, Done, data
<1>12. ASSUME NEW r \in Requests, SetState(r) PROVE PurgeIsComplete'
  BY <1>12 DEF SetState, At, Goto, Done, data, StillOpposite, Wanted, Opposite
<1>13. ASSUME NEW r \in Requests, FindArchived(r) PROVE PurgeIsComplete'
  BY <1>13 DEF FindArchived, At, Goto, Done, data
<1>14. ASSUME NEW r \in Requests, LockOrganization(r) PROVE PurgeIsComplete'
  BY <1>14 DEF LockOrganization, At, Goto, Done, data
<1>15. ASSUME NEW r \in Requests, CountFiles(r) PROVE PurgeIsComplete'
  BY <1>15 DEF CountFiles, At, Goto, Done, data
<1>16. ASSUME NEW r \in Requests, Erase(r) PROVE PurgeIsComplete'
  BY <1>16 DEF Erase, At, Goto, Done, data, PurgeInv, InviteRows
<1>17. ASSUME NEW r \in Requests, InsertFile(r) PROVE PurgeIsComplete'
  BY <1>17 DEF InsertFile, At, Goto, Done, data, ReferenceHolds
<1>18. ASSUME NEW r \in Requests, Fail(r) PROVE PurgeIsComplete'
  BY <1>18 DEF Fail, At, Goto, Done, data
<1>19. ASSUME NEW r \in Requests, DeadlockVictim(r) PROVE PurgeIsComplete'
  BY <1>19 DEF DeadlockVictim, At, Goto, Done, data
<1>20. ASSUME NEW i \in Invites, Expire(i) PROVE PurgeIsComplete'
  BY <1>20 DEF Expire, InviteRows
<1>21. ASSUME DeleteFile PROVE PurgeIsComplete'
  BY <1>21 DEF DeleteFile
<1>22. ASSUME NEW r \in Requests, Start(r) PROVE PurgeIsComplete'
  <2>1. TypeOK
    BY SMTT(30) DEF IInv
  <2> QED BY <1>1, <1>22, <2>1, StartBegins
<1> QED
  BY <1>2, <1>3, <1>4, <1>5, <1>6, <1>7, <1>8, <1>9,
     <1>10, <1>11, <1>12, <1>13, <1>14, <1>15, <1>16, <1>17,
     <1>18, <1>19, <1>20, <1>21, <1>22 DEF Next, Statement

\* Every step leaves the requests with the operands they need.
LEMMA NextOperands ==
  ASSUME IInv, Next
  PROVE  Operands'
<1> USE DEF IInv, Operands, TypeOK
<1>1. ASSUME NEW r \in Requests, NEW label, NEW what, Begun(r, label, what)
      PROVE  Operands'
  BY <1>1 DEF Begun, data
<1>2. ASSUME NEW r \in Requests, LockMember(r) PROVE Operands'
  BY SMTT(30), <1>2 DEF LockMember, At, Goto, Done, data
<1>3. ASSUME NEW r \in Requests, Decide(r) PROVE Operands'
  BY <1>3 DEF Decide, At, Goto, Done, data
<1>4. ASSUME NEW r \in Requests, WriteMember(r) PROVE Operands'
  BY <1>4 DEF WriteMember, At, Goto, Done, data
<1>5. ASSUME NEW r \in Requests, Trigger(r) PROVE Operands'
  BY <1>5 DEF Trigger, At, Goto, Done, data
<1>6. ASSUME NEW r \in Requests, Cascade(r) PROVE Operands'
  BY <1>6 DEF Cascade, At, Goto, Done, data
<1>7. ASSUME NEW r \in Requests, SaveInvite(r) PROVE Operands'
  BY <1>7 DEF SaveInvite, At, Goto, Done, data
<1>8. ASSUME NEW r \in Requests, MarkAccepted(r) PROVE Operands'
  BY SMTT(30), <1>8 DEF MarkAccepted, At, Goto, Done, data
<1>9. ASSUME NEW r \in Requests, Join(r) PROVE Operands'
  BY <1>9 DEF Join, At, Goto, Done, data
<1>10. ASSUME NEW r \in Requests, DeleteInvite(r) PROVE Operands'
  BY <1>10 DEF DeleteInvite, At, Goto, Done, data
<1>11. ASSUME NEW r \in Requests, ReadState(r) PROVE Operands'
  BY <1>11 DEF ReadState, At, Goto, Done, data
<1>12. ASSUME NEW r \in Requests, SetState(r) PROVE Operands'
  BY <1>12 DEF SetState, At, Goto, Done, data
<1>13. ASSUME NEW r \in Requests, FindArchived(r) PROVE Operands'
  BY SMTT(30), <1>13 DEF FindArchived, At, Goto, Done, data
<1>14. ASSUME NEW r \in Requests, LockOrganization(r) PROVE Operands'
  BY <1>14 DEF LockOrganization, At, Goto, Done, data
<1>15. ASSUME NEW r \in Requests, CountFiles(r) PROVE Operands'
  BY <1>15 DEF CountFiles, At, Goto, Done, data
<1>16. ASSUME NEW r \in Requests, Erase(r) PROVE Operands'
  BY <1>16 DEF Erase, At, Goto, Done, data
<1>17. ASSUME NEW r \in Requests, InsertFile(r) PROVE Operands'
  BY <1>17 DEF InsertFile, At, Goto, Done, data
<1>18. ASSUME NEW r \in Requests, Fail(r) PROVE Operands'
  BY <1>18 DEF Fail, At, Goto, Done, data
<1>19. ASSUME NEW r \in Requests, DeadlockVictim(r) PROVE Operands'
  BY <1>19 DEF DeadlockVictim, At, Goto, Done, data
<1>20. ASSUME NEW i \in Invites, Expire(i) PROVE Operands'
  BY <1>20 DEF Expire
<1>21. ASSUME DeleteFile PROVE Operands'
  BY Zenon, <1>21 DEF DeleteFile
<1>22. ASSUME NEW r \in Requests, Start(r) PROVE Operands'
  <2>1. TypeOK
    BY SMTT(30) DEF IInv
  <2> QED BY <1>1, <1>22, <2>1, StartBegins
<1> QED
  BY Zenon, <1>2, <1>3, <1>4, <1>5, <1>6, <1>7, <1>8, <1>9,
     <1>10, <1>11, <1>12, <1>13, <1>14, <1>15, <1>16, <1>17,
     <1>18, <1>19, <1>20, <1>21, <1>22 DEF Next, Statement

\* Every step respects the lock on a membership row.
LEMMA NextMember ==
  ASSUME IInv, Next
  PROVE  MemberInv'
<1> USE DEF IInv, MemberInv, Mutating, Operands, TypeOK, Others
<1>1. ASSUME NEW r \in Requests, NEW label, NEW what, Begun(r, label, what)
      PROVE  MemberInv'
  BY <1>1 DEF Begun, data
<1>2. ASSUME NEW r \in Requests, LockMember(r) PROVE MemberInv'
  <2>1. \A o \in Others(r) : Mutating(o) => req[o].target # req[r].target
    BY <1>2, NotBlocked DEF LockMember
  <2>2. CASE role[req[r].target] = NULL
    BY <1>2, <2>2 DEF LockMember, Done, At, data
  <2>3. CASE role[req[r].target] # NULL
    BY SMTT(30), <1>2, <2>1, <2>3 DEF LockMember, Goto, At, data
  <2> QED BY SMTT(30), <2>2, <2>3
<1>3. ASSUME NEW r \in Requests, Decide(r) PROVE MemberInv'
  BY SMTT(30), <1>3 DEF Decide, At, Goto, Done, data
<1>4. ASSUME NEW r \in Requests, WriteMember(r) PROVE MemberInv'
  BY <1>4 DEF WriteMember, At, Goto, Done, data
<1>5. ASSUME NEW r \in Requests, Trigger(r) PROVE MemberInv'
  BY <1>5 DEF Trigger, At, Goto, Done, data
<1>6. ASSUME NEW r \in Requests, Cascade(r) PROVE MemberInv'
  <2>1. At(r, "cascade") /\ req[r].target \in Users
    BY <1>6 DEF Cascade, At
  <2>2. \A o \in Others(r) : Mutating(o) => req[o].target # req[r].target
    BY <2>1, NotBlocked
  <2>3. /\ \A o \in Requests : Mutating(o)' => o \in Others(r) /\ Mutating(o)
        /\ \A o \in Others(r) : req'[o] = req[o]
    BY <1>6 DEF Cascade, Done
  <2>4. \A u \in Users : u # req[r].target => role'[u] = role[u]
    BY Zenon, <1>6 DEF Cascade
  <2>5. ASSUME NEW o \in Requests, Mutating(o)'
        PROVE  /\ role'[req'[o].target] # NULL
               /\ \A p \in Others(o) : Mutating(p)' => req'[p].target # req'[o].target
    <3>1. o \in Others(r) /\ Mutating(o) /\ req'[o] = req[o]
      BY <2>3, <2>5
    <3>2. /\ req[o].target \in Users /\ req[o].target # req[r].target
          /\ role[req[o].target] # NULL
      BY <2>2, <3>1
    <3>3. role'[req'[o].target] # NULL
      BY <2>4, <3>1, <3>2
    <3>4. ASSUME NEW p \in Others(o), Mutating(p)'
          PROVE  req'[p].target # req'[o].target
      BY <2>3, <3>1, <3>4
    <3> QED BY <3>3, <3>4
  <2> QED BY <2>5
<1>7. ASSUME NEW r \in Requests, SaveInvite(r) PROVE MemberInv'
  BY <1>7 DEF SaveInvite, At, Goto, Done, data
<1>8. ASSUME NEW r \in Requests, MarkAccepted(r) PROVE MemberInv'
  BY SMTT(30), <1>8 DEF MarkAccepted, At, Goto, Done, data
<1>9. ASSUME NEW r \in Requests, Join(r) PROVE MemberInv'
  BY <1>9 DEF Join, At, Goto, Done, data
<1>10. ASSUME NEW r \in Requests, DeleteInvite(r) PROVE MemberInv'
  BY <1>10 DEF DeleteInvite, At, Goto, Done, data
<1>11. ASSUME NEW r \in Requests, ReadState(r) PROVE MemberInv'
  BY <1>11 DEF ReadState, At, Goto, Done, data
<1>12. ASSUME NEW r \in Requests, SetState(r) PROVE MemberInv'
  BY <1>12 DEF SetState, At, Goto, Done, data
<1>13. ASSUME NEW r \in Requests, FindArchived(r) PROVE MemberInv'
  BY SMTT(30), <1>13 DEF FindArchived, At, Goto, Done, data
<1>14. ASSUME NEW r \in Requests, LockOrganization(r) PROVE MemberInv'
  BY <1>14 DEF LockOrganization, At, Goto, Done, data
<1>15. ASSUME NEW r \in Requests, CountFiles(r) PROVE MemberInv'
  BY <1>15 DEF CountFiles, At, Goto, Done, data
<1>16. ASSUME NEW r \in Requests, Erase(r) PROVE MemberInv'
  BY <1>16, NotBlocked DEF Erase, At, Goto, Done, data
<1>17. ASSUME NEW r \in Requests, InsertFile(r) PROVE MemberInv'
  BY <1>17 DEF InsertFile, At, Goto, Done, data
<1>18. ASSUME NEW r \in Requests, Fail(r) PROVE MemberInv'
  BY <1>18 DEF Fail, At, Goto, Done, data
<1>19. ASSUME NEW r \in Requests, DeadlockVictim(r) PROVE MemberInv'
  BY <1>19 DEF DeadlockVictim, At, Goto, Done, data
<1>20. ASSUME NEW i \in Invites, Expire(i) PROVE MemberInv'
  BY <1>20 DEF Expire
<1>21. ASSUME DeleteFile PROVE MemberInv'
  BY Zenon, <1>21 DEF DeleteFile
<1>22. ASSUME NEW r \in Requests, Start(r) PROVE MemberInv'
  <2>1. TypeOK
    BY Zenon DEF IInv
  <2> QED BY <1>1, <1>22, <2>1, StartBegins
<1> QED
  BY Zenon, <1>2, <1>3, <1>4, <1>5, <1>6, <1>7, <1>8, <1>9,
     <1>10, <1>11, <1>12, <1>13, <1>14, <1>15, <1>16, <1>17,
     <1>18, <1>19, <1>20, <1>21, <1>22 DEF Next, Statement

\* Every step respects the lock on the organization.
LEMMA NextPurging ==
  ASSUME IInv, Next
  PROVE  PurgeInv'
<1> USE DEF IInv, PurgeInv, Purging, TypeOK, Others
<1>1. ASSUME NEW r \in Requests, NEW label, NEW what, Begun(r, label, what)
      PROVE  PurgeInv'
  BY <1>1 DEF Begun, data
<1>2. ASSUME NEW r \in Requests, LockMember(r) PROVE PurgeInv'
  BY <1>2 DEF LockMember, At, Goto, Done, data
<1>3. ASSUME NEW r \in Requests, Decide(r) PROVE PurgeInv'
  BY <1>3 DEF Decide, At, Goto, Done, data
<1>4. ASSUME NEW r \in Requests, WriteMember(r) PROVE PurgeInv'
  BY <1>4 DEF WriteMember, At, Goto, Done, data
<1>5. ASSUME NEW r \in Requests, Trigger(r) PROVE PurgeInv'
  BY <1>5 DEF Trigger, At, Goto, Done, data
<1>6. ASSUME NEW r \in Requests, Cascade(r) PROVE PurgeInv'
  BY <1>6 DEF Cascade, At, Goto, Done, data
<1>7. ASSUME NEW r \in Requests, SaveInvite(r) PROVE PurgeInv'
  BY <1>7 DEF SaveInvite, At, Goto, Done, data
<1>8. ASSUME NEW r \in Requests, MarkAccepted(r) PROVE PurgeInv'
  BY <1>8 DEF MarkAccepted, At, Goto, Done, data
<1>9. ASSUME NEW r \in Requests, Join(r) PROVE PurgeInv'
  BY <1>9 DEF Join, At, Goto, Done, data
<1>10. ASSUME NEW r \in Requests, DeleteInvite(r) PROVE PurgeInv'
  BY <1>10 DEF DeleteInvite, At, Goto, Done, data
<1>11. ASSUME NEW r \in Requests, ReadState(r) PROVE PurgeInv'
  BY <1>11 DEF ReadState, At, Goto, Done, data
<1>12. ASSUME NEW r \in Requests, SetState(r) PROVE PurgeInv'
  BY <1>12, NotBlocked DEF SetState, At, Goto, Done, data, StillOpposite
<1>13. ASSUME NEW r \in Requests, FindArchived(r) PROVE PurgeInv'
  BY <1>13 DEF FindArchived, At, Goto, Done, data
<1>14. ASSUME NEW r \in Requests, LockOrganization(r) PROVE PurgeInv'
  BY SMTT(30), <1>14, NotBlocked DEF LockOrganization, At, Goto, Done, data, Purgeable
<1>15. ASSUME NEW r \in Requests, CountFiles(r) PROVE PurgeInv'
  BY <1>15 DEF CountFiles, At, Goto, Done, data
<1>16. ASSUME NEW r \in Requests, Erase(r) PROVE PurgeInv'
  BY <1>16 DEF Erase, At, Goto, Done, data
<1>17. ASSUME NEW r \in Requests, InsertFile(r) PROVE PurgeInv'
  BY <1>17, NotBlocked DEF InsertFile, At, Goto, Done, data
<1>18. ASSUME NEW r \in Requests, Fail(r) PROVE PurgeInv'
  BY <1>18 DEF Fail, At, Goto, Done, data
<1>19. ASSUME NEW r \in Requests, DeadlockVictim(r) PROVE PurgeInv'
  BY <1>19 DEF DeadlockVictim, At, Goto, Done, data
<1>20. ASSUME NEW i \in Invites, Expire(i) PROVE PurgeInv'
  BY <1>20 DEF Expire
<1>21. ASSUME DeleteFile PROVE PurgeInv'
  BY Zenon, <1>21 DEF DeleteFile
<1>22. ASSUME NEW r \in Requests, Start(r) PROVE PurgeInv'
  <2>1. TypeOK
    BY SMTT(30) DEF IInv
  <2> QED BY <1>1, <1>22, <2>1, StartBegins
<1> QED
  BY Zenon, <1>2, <1>3, <1>4, <1>5, <1>6, <1>7, <1>8, <1>9,
     <1>10, <1>11, <1>12, <1>13, <1>14, <1>15, <1>16, <1>17,
     <1>18, <1>19, <1>20, <1>21, <1>22 DEF Next, Statement

\* Every step respects the lock on an invitation, and the freshness of its id.
LEMMA NextAlone ==
  ASSUME IInv, Next
  PROVE  AloneInv'
<1> USE InvitesAssumption DEF IInv, AloneInv, Operands, TypeOK, Others, NoRequest
<1>1. ASSUME NEW r \in Requests, NEW label, NEW what, Begun(r, label, what)
      PROVE  AloneInv'
  <2> SUFFICES ASSUME NEW q \in Requests, NEW o \in Requests \ {q}
               PROVE  /\ pc'[q] = "save" => req'[o].invite # req'[q].invite
                      /\ pc'[q] = "join" /\ pc'[o] = "join" =>
                           req'[o].invite # req'[q].invite
    OBVIOUS
  <2>1. /\ label # "join" /\ pc'[r] = label /\ req'[r] = what
        /\ \A p \in Requests \ {r} : pc'[p] = pc[p] /\ req'[p] = req[p]
    BY SMTT(30), <1>1 DEF Begun
  <2>2. CASE q = r
    BY <1>1, <2>1, <2>2 DEF Begun
  <2>3. CASE o = r /\ pc[q] = "save"
    <3>1. invite[req[q].invite].state = "free" /\ req[q].invite \in Invites
      BY <2>3 DEF InviteInv
    <3>2. req[q].invite # what.invite
      BY <1>1, <3>1 DEF Begun
    <3> QED BY <2>1, <2>3, <3>2
  <2> QED BY Zenon, <2>1, <2>2, <2>3
<1>2. ASSUME NEW r \in Requests, LockMember(r) PROVE AloneInv'
  BY <1>2 DEF LockMember, At, Goto, Done, data
<1>3. ASSUME NEW r \in Requests, Decide(r) PROVE AloneInv'
  BY SMTT(30), <1>3 DEF Decide, At, Goto, Done, data
<1>4. ASSUME NEW r \in Requests, WriteMember(r) PROVE AloneInv'
  BY <1>4 DEF WriteMember, At, Goto, Done, data
<1>5. ASSUME NEW r \in Requests, Trigger(r) PROVE AloneInv'
  BY SMTT(30), <1>5 DEF Trigger, At, Goto, Done, data
<1>6. ASSUME NEW r \in Requests, Cascade(r) PROVE AloneInv'
  BY <1>6 DEF Cascade, At, Goto, Done, data
<1>7. ASSUME NEW r \in Requests, SaveInvite(r) PROVE AloneInv'
  BY <1>7 DEF SaveInvite, At, Goto, Done, data
<1>8. ASSUME NEW r \in Requests, MarkAccepted(r) PROVE AloneInv'
  <2>1. \A o \in Others(r) : pc[o] = "join" => req[o].invite # req[r].invite
    BY <1>8, NotBlocked DEF MarkAccepted
  <2>2. /\ pc[r] = "claim" /\ pc'[r] \in {"join", "idle"}
        /\ pc'[r] = "join" => req' = req
        /\ req'[r].invite \in {req[r].invite, NULL}
        /\ \A o \in Others(r) : pc'[o] = pc[o] /\ req'[o] = req[o]
    BY SMTT(30), <1>8 DEF MarkAccepted, At, Goto, Done
  <2>3. ASSUME NEW q \in Requests, NEW o \in Others(q)
        PROVE  /\ pc'[q] = "save" => req'[o].invite # req'[q].invite
               /\ pc'[q] = "join" /\ pc'[o] = "join" => req'[o].invite # req'[q].invite
    <3>1. CASE q = r
      BY <2>1, <2>2, <3>1
    <3>2. CASE o = r
      BY <2>1, <2>2, <3>2
    <3>3. CASE q # r /\ o # r
      BY <2>2, <3>3
    <3> QED BY <3>1, <3>2, <3>3
  <2> QED BY Zenon, <2>3
<1>9. ASSUME NEW r \in Requests, Join(r) PROVE AloneInv'
  BY <1>9 DEF Join, At, Goto, Done, data
<1>10. ASSUME NEW r \in Requests, DeleteInvite(r) PROVE AloneInv'
  BY <1>10 DEF DeleteInvite, At, Goto, Done, data
<1>11. ASSUME NEW r \in Requests, ReadState(r) PROVE AloneInv'
  BY SMTT(30), <1>11 DEF ReadState, At, Goto, Done, data
<1>12. ASSUME NEW r \in Requests, SetState(r) PROVE AloneInv'
  BY <1>12 DEF SetState, At, Goto, Done, data
<1>13. ASSUME NEW r \in Requests, FindArchived(r) PROVE AloneInv'
  BY SMTT(30), <1>13 DEF FindArchived, At, Goto, Done, data
<1>14. ASSUME NEW r \in Requests, LockOrganization(r) PROVE AloneInv'
  BY <1>14 DEF LockOrganization, At, Goto, Done, data
<1>15. ASSUME NEW r \in Requests, CountFiles(r) PROVE AloneInv'
  BY <1>15 DEF CountFiles, At, Goto, Done, data
<1>16. ASSUME NEW r \in Requests, Erase(r) PROVE AloneInv'
  BY <1>16 DEF Erase, At, Goto, Done, data
<1>17. ASSUME NEW r \in Requests, InsertFile(r) PROVE AloneInv'
  BY <1>17 DEF InsertFile, At, Goto, Done, data
<1>18. ASSUME NEW r \in Requests, Fail(r) PROVE AloneInv'
  BY <1>18 DEF Fail, At, Goto, Done, data
<1>19. ASSUME NEW r \in Requests, DeadlockVictim(r) PROVE AloneInv'
  BY <1>19 DEF DeadlockVictim, At, Goto, Done, data
<1>20. ASSUME NEW i \in Invites, Expire(i) PROVE AloneInv'
  BY <1>20 DEF Expire
<1>21. ASSUME DeleteFile PROVE AloneInv'
  BY Zenon, <1>21 DEF DeleteFile
<1>22. ASSUME NEW r \in Requests, Start(r) PROVE AloneInv'
  <2>1. TypeOK
    BY DEF IInv
  <2> QED BY Zenon, <1>1, <1>22, <2>1, StartBegins
<1> QED
  BY Zenon, <1>2, <1>3, <1>4, <1>5, <1>6, <1>7, <1>8, <1>9,
     <1>10, <1>11, <1>12, <1>13, <1>14, <1>15, <1>16, <1>17,
     <1>18, <1>19, <1>20, <1>21, <1>22 DEF Next, Statement

\* Every step leaves the invitations of the others alone.
LEMMA NextInvite ==
  ASSUME IInv, Next
  PROVE  InviteInv'
<1> USE DEF IInv, InviteInv, Operands, TypeOK, Others
<1>1. ASSUME NEW r \in Requests, NEW label, NEW what, Begun(r, label, what)
      PROVE  InviteInv'
  BY Zenon, <1>1 DEF Begun, data
<1>2. ASSUME NEW r \in Requests, LockMember(r) PROVE InviteInv'
  BY Zenon, <1>2 DEF LockMember, At, Goto, Done, data
<1>3. ASSUME NEW r \in Requests, Decide(r) PROVE InviteInv'
  BY Zenon, <1>3 DEF Decide, At, Goto, Done, data
<1>4. ASSUME NEW r \in Requests, WriteMember(r) PROVE InviteInv'
  BY Zenon, <1>4 DEF WriteMember, At, Goto, Done, data
<1>5. ASSUME NEW r \in Requests, Trigger(r) PROVE InviteInv'
  BY Zenon, <1>5 DEF Trigger, At, Goto, Done, data
<1>6. ASSUME NEW r \in Requests, Cascade(r) PROVE InviteInv'
  BY Zenon, <1>6 DEF Cascade, At, Goto, Done, data
<1>7. ASSUME NEW r \in Requests, SaveInvite(r) PROVE InviteInv'
  BY Zenon, <1>7 DEF SaveInvite, At, Goto, Done, data, ReferenceHolds, AloneInv
<1>8. ASSUME NEW r \in Requests, MarkAccepted(r) PROVE InviteInv'
  BY ZenonT(30), <1>8 DEF MarkAccepted, At, Goto, Done, data, Redeemable
<1>9. ASSUME NEW r \in Requests, Join(r) PROVE InviteInv'
  <2> DEFINE i == req[r].invite
  <2>1. i \in Invites /\ invite[i].state = "pending"
    BY <1>9 DEF Join, At
  <2>2. /\ pc'[r] = "idle"
        /\ \A o \in Requests \ {r} : pc'[o] = pc[o] /\ req'[o] = req[o]
    BY <1>9 DEF Join, Done
  <2>3. \A o \in Requests \ {r} : pc[o] = "join" => req[o].invite # i
    BY <1>9 DEF AloneInv, Join, At
  <2>4. /\ \A j \in Invites \ {i} : invite'[j] = invite[j]
        /\ invite'[i].to = invite[i].to
        /\ invite'[i].state \in {"pending", "accepted"}
    BY SMTT(30), <1>9, <2>1 DEF Join, InviteRows
  <2> HIDE DEF i
  <2>5. ASSUME NEW o \in Requests
        PROVE  /\ pc'[o] = "save" => invite'[req'[o].invite].state = "free"
               /\ pc'[o] \in {"claim", "join"} =>
                    /\ invite'[req'[o].invite].state # "free"
                    /\ invite'[req'[o].invite].to = req'[o].actor
               /\ pc'[o] = "join" => invite'[req'[o].invite].state = "pending"
    <3>1. CASE o = r
      BY Zenon, <2>2, <3>1
    <3>2. CASE o # r /\ req[o].invite = i
      BY Zenon, <2>1, <2>2, <2>3, <2>4, <3>2
    <3>3. CASE o # r /\ req[o].invite # i
      <4>1. pc[o] \in {"save", "claim", "join"} => req[o].invite \in Invites \ {i}
        BY Zenon, <3>3
      <4>2. pc'[o] = pc[o] /\ req'[o] = req[o]
        BY <2>2, <3>3
      <4> QED BY ZenonT(30), <2>4, <4>1, <4>2
    <3> QED BY Zenon, <3>1, <3>2, <3>3
  <2> QED BY <2>5
<1>10. ASSUME NEW r \in Requests, DeleteInvite(r) PROVE InviteInv'
  BY SMTT(30), <1>10, NotBlocked DEF DeleteInvite, At, Goto, Done, data
<1>11. ASSUME NEW r \in Requests, ReadState(r) PROVE InviteInv'
  BY Zenon, <1>11 DEF ReadState, At, Goto, Done, data
<1>12. ASSUME NEW r \in Requests, SetState(r) PROVE InviteInv'
  BY Zenon, <1>12 DEF SetState, At, Goto, Done, data
<1>13. ASSUME NEW r \in Requests, FindArchived(r) PROVE InviteInv'
  BY Zenon, <1>13 DEF FindArchived, At, Goto, Done, data
<1>14. ASSUME NEW r \in Requests, LockOrganization(r) PROVE InviteInv'
  BY ZenonT(30), <1>14 DEF LockOrganization, At, Goto, Done, data
<1>15. ASSUME NEW r \in Requests, CountFiles(r) PROVE InviteInv'
  BY <1>15 DEF CountFiles, At, Goto, Done, data
<1>16. ASSUME NEW r \in Requests, Erase(r) PROVE InviteInv'
  BY SMTT(30), <1>16, NotBlocked DEF Erase, At, Goto, Done, data
<1>17. ASSUME NEW r \in Requests, InsertFile(r) PROVE InviteInv'
  BY Zenon, <1>17 DEF InsertFile, At, Goto, Done, data
<1>18. ASSUME NEW r \in Requests, Fail(r) PROVE InviteInv'
  BY Zenon, <1>18 DEF Fail, At, Goto, Done, data
<1>19. ASSUME NEW r \in Requests, DeadlockVictim(r) PROVE InviteInv'
  BY <1>19 DEF DeadlockVictim, At, Goto, Done, data
<1>20. ASSUME NEW i \in Invites, Expire(i) PROVE InviteInv'
  BY SMTT(30), <1>20 DEF Expire
<1>21. ASSUME DeleteFile PROVE InviteInv'
  BY SMTT(30), <1>21 DEF DeleteFile
<1>22. ASSUME NEW r \in Requests, Start(r) PROVE InviteInv'
  <2>1. TypeOK
    BY DEF IInv
  <2> QED BY Zenon, <1>1, <1>22, <2>1, StartBegins
<1> QED
  BY Zenon, <1>2, <1>3, <1>4, <1>5, <1>6, <1>7, <1>8, <1>9,
     <1>10, <1>11, <1>12, <1>13, <1>14, <1>15, <1>16, <1>17,
     <1>18, <1>19, <1>20, <1>21, <1>22 DEF Next, Statement

-----------------------------------------------------------------------------
(* The theorems.                                                           *)

\* A new organization satisfies the invariant.
LEMMA InitIInv == Init => IInv
<1> SUFFICES ASSUME Init PROVE IInv
  OBVIOUS
<1> USE DEF Init
<1>1. TypeOK
  <2>1. NoRequest \in RequestRows
    BY DEF NoRequest, RequestRows
  <2> QED BY <2>1, UsersAssumption DEF TypeOK, InviteRows, Labels, Roles
<1>2. EventsMatchState /\ PurgeIsComplete
  BY DEF EventsMatchState, PurgeIsComplete
<1>3. Operands /\ MemberInv /\ PurgeInv /\ InviteInv /\ AloneInv
  BY DEF Operands, MemberInv, PurgeInv, InviteInv, AloneInv, Mutating, Purging
<1> QED BY <1>1, <1>2, <1>3 DEF IInv

\* A step that changes nothing keeps the invariant.
LEMMA StutterIInv == IInv /\ UNCHANGED vars => IInv'
<1> SUFFICES ASSUME IInv, UNCHANGED vars PROVE IInv'
  OBVIOUS
<1> USE DEF vars, data, IInv
<1>1. TypeOK'
  BY DEF TypeOK
<1>2. EventsMatchState' /\ PurgeIsComplete'
  BY DEF EventsMatchState, PurgeIsComplete
<1>3. Operands'
  BY DEF Operands
<1>4. MemberInv' /\ PurgeInv'
  BY DEF MemberInv, PurgeInv, Mutating, Purging, Others
<1>5. InviteInv' /\ AloneInv'
  BY DEF InviteInv, AloneInv, Others
<1> QED BY <1>1, <1>2, <1>3, <1>4, <1>5

\* The locks of mutateMembership, purgeWithClient and markAccepted protect what
\* their holders rely on: IInv holds in every reachable state.
THEOREM InductiveInvariant == Spec => []IInv
<1>1. IInv /\ Next => IInv'
  BY NextType, NextEvents, NextComplete, NextOperands, NextMember, NextPurging, NextInvite,
     NextAlone DEF IInv
<1> QED BY InitIInv, StutterIInv, <1>1, PTL DEF Spec

\* The statements of all requests keep memberships, invitations, files and the
\* requests' own progress well formed.
THEOREM TypeCorrect == Spec => []TypeOK
<1>1. IInv => TypeOK
  BY DEF IInv
<1> QED BY <1>1, InductiveInvariant, PTL

\* However requests overlap, fail or are repeated, an archive, a restore and a
\* purge are published exactly once each time they happen.
THEOREM EventsAgree == Spec => []EventsMatchState
<1>1. IInv => EventsMatchState
  BY DEF IInv
<1> QED BY InductiveInvariant, <1>1, PTL

\* A purge that commits leaves no member, invitation or file behind, whatever
\* uploads, invitations and acceptances were under way.
THEOREM PurgeComplete == Spec => []PurgeIsComplete
<1>1. IInv => PurgeIsComplete
  BY DEF IInv
<1> QED BY InductiveInvariant, <1>1, PTL

\* A request's membership gain comes from the open invitation it accepts.
THEOREM MembersAreInvited == Spec => JoinedByInvitation
<1> DEFINE Gain == \A u \in Users : role[u] = NULL /\ role'[u] # NULL =>
                     \E i \in Invites : /\ invite[i].state = "pending" /\ invite[i].to = u
                                        /\ invite'[i].state = "accepted"
                                        /\ role'[u] = invite[i].role
<1>1. IInv /\ [Next]_vars => [Gain]_vars
  <2> SUFFICES ASSUME IInv, Next PROVE Gain
    BY DEF vars
  <2> USE DEF IInv, TypeOK
  <2>1. ASSUME NEW r \in Requests, Join(r) PROVE Gain
    <3> DEFINE i == req[r].invite
    <3>1. /\ i \in Invites /\ invite[i] \in InviteRows
          /\ invite[i].state = "pending" /\ invite[i].to = req[r].actor
      BY <2>1 DEF Join, At, InviteInv, Operands
    <3>2. CASE role' = role
      BY <3>2
    <3>3. CASE /\ invite' = [invite EXCEPT ![i].state = "accepted"]
               /\ role' = [role EXCEPT ![req[r].actor] =
                             IF @ = NULL THEN invite[i].role ELSE @]
      <4>1. invite'[i].state = "accepted"
        BY <3>1, <3>3 DEF InviteRows
      <4>2. \A u \in Users : role[u] = NULL /\ role'[u] # NULL =>
              u = req[r].actor /\ role'[u] = invite[i].role
        BY SMTT(30), <3>3
      <4> HIDE DEF i
      <4> QED BY <3>1, <4>1, <4>2
    <3> QED BY <2>1, <3>2, <3>3 DEF Join
  <2>2. ASSUME NEW r \in Requests, WriteMember(r) PROVE Gain
    BY <2>2 DEF WriteMember, At, MemberInv, Mutating
  <2>3. ASSUME NEW r \in Requests, Cascade(r) \/ Erase(r) PROVE Gain
    BY <2>3 DEF Cascade, Erase
  <2>4. ASSUME UNCHANGED role PROVE Gain
    BY Zenon, <2>4
  <2>5. ASSUME NEW r \in Requests, Start(r) PROVE UNCHANGED role
    BY <2>5, StartBegins DEF Begun, data
  <2>6. ASSUME NEW r \in Requests,
               \/ LockMember(r) \/ Decide(r) \/ Trigger(r) \/ SaveInvite(r)
               \/ MarkAccepted(r) \/ DeleteInvite(r) \/ ReadState(r) \/ SetState(r)
               \/ FindArchived(r) \/ LockOrganization(r) \/ CountFiles(r)
               \/ InsertFile(r) \/ Fail(r) \/ DeadlockVictim(r)
        PROVE  UNCHANGED role
    BY <2>6 DEF LockMember, Decide, Trigger, SaveInvite, MarkAccepted, DeleteInvite,
                ReadState, SetState, FindArchived, LockOrganization, CountFiles, InsertFile,
                Fail, DeadlockVictim, data
  <2>7. ASSUME (\E i \in Invites : Expire(i)) \/ DeleteFile PROVE UNCHANGED role
    BY <2>7 DEF Expire, DeleteFile
  <2> HIDE DEF Gain
  <2> QED BY <2>1, <2>2, <2>3, <2>4, <2>5, <2>6, <2>7 DEF Next, Statement
<1> QED BY InductiveInvariant, <1>1, PTL DEF Spec, JoinedByInvitation

-----------------------------------------------------------------------------
(* The last owner, one request at a time.                                  *)

\* At most one request is in progress.
OneAtATime == \A r, o \in Requests : pc[r] # "idle" /\ pc[o] # "idle" => r = o

\* isLastOwner answers "no" only if there is another owner.
LEMMA AnotherOwner == \A u : ~isLastOwner(u) => OtherOwners(u) # {}
BY SMTT(30) DEF isLastOwner

\* With no other request under way, the owner that was counted is still one when
\* the write that relies on it commits.
LEMMA NextOwner ==
  ASSUME OneAtATime, IInv, OwnerInv, Next
  PROVE  OwnerInv'
<1> USE DEF IInv, OwnerInv, AlwaysAnOwner, OneAtATime, OtherOwners, TypeOK
<1>1. ASSUME NEW r \in Requests, NEW label, NEW what, Begun(r, label, what)
      PROVE  OwnerInv'
  BY <1>1 DEF Begun, data
<1>2. ASSUME NEW r \in Requests, LockMember(r) PROVE OwnerInv'
  BY ZenonT(30), <1>2 DEF LockMember, At, Goto, Done, data
<1>3. ASSUME NEW r \in Requests, Decide(r) PROVE OwnerInv'
  <2> DEFINE u == req[r].target
  <2>0. \A o \in Requests : o # r => pc'[o] = "idle"
    BY <1>3 DEF Decide, At, Goto, Done
  <2>1. CASE pc'[r] = "idle"
    <3>1. \A o \in Requests : pc'[o] = "idle"
      BY <2>0, <2>1
    <3>2. UNCHANGED <<role, org>>
      BY <1>3 DEF Decide, data
    <3> QED BY <3>1, <3>2
  <2>2. CASE ~(role[u] = "owner" /\ isLastOwner(u)) /\ pc'[r] # "idle"
    <3>1. role[u] = "owner" => OtherOwners(u) # {}
      BY <2>2, AnotherOwner
    <3>2. UNCHANGED <<role, org, req>>
      BY <1>3, <2>2 DEF Decide, Goto, Done, data
    <3> QED BY <2>0, <3>1, <3>2
  <2> QED BY <1>3, <2>1, <2>2 DEF Decide, Done
<1>4. ASSUME NEW r \in Requests, WriteMember(r) PROVE OwnerInv'
  BY Zenon, <1>4 DEF WriteMember, At, Goto, Done, data
<1>5. ASSUME NEW r \in Requests, Trigger(r) PROVE OwnerInv'
  <2> DEFINE u == req[r].target
  <2>0. \A o \in Requests : o # r => pc'[o] = "idle"
    BY <1>5 DEF Trigger, At, Goto, Done
  <2>1. CASE pc'[r] = "idle"
    <3>1. \A o \in Requests : pc'[o] = "idle"
      BY <2>0, <2>1
    <3>2. UNCHANGED <<role, org>>
      BY <1>5 DEF Trigger, data
    <3> QED BY <3>1, <3>2
  <2>2. CASE ~(role[u] = "owner" /\ isLastOwner(u)) /\ pc'[r] # "idle"
    <3>1. role[u] = "owner" => OtherOwners(u) # {}
      BY <2>2, AnotherOwner
    <3>2. UNCHANGED <<role, org, req>>
      BY <1>5, <2>2 DEF Trigger, Goto, Done, data
    <3> QED BY <2>0, <3>1, <3>2
  <2> QED BY <1>5, <2>1, <2>2 DEF Trigger, Done, solelyOwns
<1>6. ASSUME NEW r \in Requests, Cascade(r) PROVE OwnerInv'
  BY <1>6 DEF Cascade, At, Goto, Done, data
<1>7. ASSUME NEW r \in Requests, SaveInvite(r) PROVE OwnerInv'
  BY <1>7 DEF SaveInvite, At, Goto, Done, data
<1>8. ASSUME NEW r \in Requests, MarkAccepted(r) PROVE OwnerInv'
  BY <1>8 DEF MarkAccepted, At, Goto, Done, data
<1>9. ASSUME NEW r \in Requests, Join(r) PROVE OwnerInv'
  <2>1. \A v \in Users : role[v] = "owner" => role'[v] = "owner"
    BY <1>9, RolesAssumption DEF Join, Roles
  <2>2. UNCHANGED org
    BY <1>9 DEF Join
  <2>3. \A o \in Requests : pc'[o] = "idle"
    BY <1>9 DEF Join, At, Done
  <2> QED BY <2>1, <2>2, <2>3
<1>10. ASSUME NEW r \in Requests, DeleteInvite(r) PROVE OwnerInv'
  BY <1>10 DEF DeleteInvite, At, Goto, Done, data
<1>11. ASSUME NEW r \in Requests, ReadState(r) PROVE OwnerInv'
  BY <1>11 DEF ReadState, At, Goto, Done, data
<1>12. ASSUME NEW r \in Requests, SetState(r) PROVE OwnerInv'
  BY <1>12 DEF SetState, At, Goto, Done, data, StillOpposite, Opposite, Wanted
<1>13. ASSUME NEW r \in Requests, FindArchived(r) PROVE OwnerInv'
  BY <1>13 DEF FindArchived, At, Goto, Done, data
<1>14. ASSUME NEW r \in Requests, LockOrganization(r) PROVE OwnerInv'
  BY <1>14 DEF LockOrganization, At, Goto, Done, data
<1>15. ASSUME NEW r \in Requests, CountFiles(r) PROVE OwnerInv'
  BY <1>15 DEF CountFiles, At, Goto, Done, data
<1>16. ASSUME NEW r \in Requests, Erase(r) PROVE OwnerInv'
  BY <1>16 DEF Erase, At, Goto, Done, data
<1>17. ASSUME NEW r \in Requests, InsertFile(r) PROVE OwnerInv'
  BY <1>17 DEF InsertFile, At, Goto, Done, data
<1>18. ASSUME NEW r \in Requests, Fail(r) PROVE OwnerInv'
  BY <1>18 DEF Fail, At, Goto, Done, data
<1>19. ASSUME NEW r \in Requests, DeadlockVictim(r) PROVE OwnerInv'
  BY <1>19 DEF DeadlockVictim, At, Goto, Done, data
<1>20. ASSUME NEW i \in Invites, Expire(i) PROVE OwnerInv'
  BY <1>20 DEF Expire
<1>21. ASSUME DeleteFile PROVE OwnerInv'
  BY SMTT(30), <1>21 DEF DeleteFile
<1>22. ASSUME NEW r \in Requests, Start(r) PROVE OwnerInv'
  <2>1. TypeOK
    BY DEF IInv
  <2> QED BY <1>1, <1>22, <2>1, StartBegins
<1> QED
  BY ZenonT(30), <1>2, <1>3, <1>4, <1>5, <1>6, <1>7, <1>8, <1>9,
     <1>10, <1>11, <1>12, <1>13, <1>14, <1>15, <1>16, <1>17,
     <1>18, <1>19, <1>20, <1>21, <1>22 DEF Next, Statement

\* What holds until two requests are in progress together.
OwnerIInv == ~overlapped => OneAtATime /\ OwnerInv

\* Until two requests have been in progress together the organization keeps an
\* owner: mutateMembership and the trigger are right when nothing overlaps, for
\* any number of users and requests.
THEOREM SequentialOwner == OverlapSpec => []OwnerUntilOverlap
<1>1. OverlapSpec => Spec
  <2>1. [OverlapNext]_<<vars, overlapped>> => [Next]_vars
    BY DEF OverlapNext
  <2> QED BY <2>1, PTL DEF OverlapSpec, OverlapInit, Spec
<1>2. OverlapInit => OwnerIInv
  BY UsersAssumption DEF OverlapInit, Init, OwnerIInv, OneAtATime, OwnerInv, AlwaysAnOwner
<1>3. IInv /\ OwnerIInv /\ OverlapNext => OwnerIInv'
  <2> SUFFICES ASSUME IInv, OwnerIInv, OverlapNext, ~overlapped' PROVE OneAtATime' /\ OwnerInv'
    BY DEF OwnerIInv
  <2>1. ~overlapped /\ ~Together
    BY Zenon DEF OverlapNext
  <2>2. OneAtATime'
    BY <2>1 DEF Together, OneAtATime
  <2> QED BY <2>1, <2>2, NextOwner DEF OwnerIInv, OverlapNext
<1>4. OwnerIInv /\ UNCHANGED <<vars, overlapped>> => OwnerIInv'
  BY DEF OwnerIInv, OneAtATime, OwnerInv, AlwaysAnOwner, OtherOwners, vars, data
<1>5. OwnerIInv => OwnerUntilOverlap
  BY DEF OwnerIInv, OwnerInv, OwnerUntilOverlap
<1> QED BY InductiveInvariant, <1>1, <1>2, <1>3, <1>4, <1>5, PTL DEF OverlapSpec
=============================================================================
