------------------------------- MODULE Profiles -------------------------------
(***************************************************************************)
(* The profile of one user (src/modules/users): created by a job when the  *)
(* user registers, edited by the user's requests, removed with the         *)
(* account.  Every one of them reads, then writes, in statements of its    *)
(* own: an edit can meet a creation that looked earlier, another edit, or  *)
(* the deletion of the account.                                            *)
(***************************************************************************)
EXTENDS Jobs, Sequences, FiniteSetsExt

CONSTANTS CreateJobs,        \* the jobs users.registered can be delivered as
          Edits,             \* requests
          Characters,        \* of which a text is a sequence
          LocalParts,        \* the local parts of the addresses users register with
          Changes,           \* what users ask for: [name, avatar], each of them optional
          Avatars,           \* the ids of the user's files, from 1; 0 is no file
          MIN_LENGTH, MAX_LENGTH

Optional(S) == {s \in Seq(S) : Len(s) <= 1}

Text == Seq(Characters)

Space == {" ", "\n"}
Control == {"\n", "\t"}

\* The lengths are 2 and 80 in the code; a default name has two characters or more,
\* and six when it is made from a local part of one.
ASSUME ProfilesAssumption ==
  /\ MIN_LENGTH \in 0..2 /\ MAX_LENGTH \in Nat /\ MAX_LENGTH >= 6
  /\ {"-", "u", "s", "e", "r"} \subseteq Characters
  /\ Avatars \subseteq Nat \ {0}
  /\ Changes \subseteq [name : Optional(Text), avatar : Optional(Avatars \cup {0})]
  /\ LocalParts \subseteq Text
  /\ \A l \in LocalParts : l # <<>> /\ \A i \in DOMAIN l : l[i] \notin Space \cup Control

VARIABLES account,   \* auth.user: "live", "deleted"
          local,     \* the local part of its address
          profile,   \* users.user_profile: none, or its [name, avatar]
          avatars,   \* upload.stored_file
          create,    \* the jobs of users.registered
          looked,    \* the creations that found no profile and will save one
          remove,    \* the job of users.deleted
          edit,      \* the requests: [at, name, avatar, draft, stale]
          asked,     \* what the user has asked for, in the order of the saves
          crossed    \* a save has overwritten one it had not seen

profilesVars == <<account, local, profile, avatars, create, looked, remove, edit,
                  asked, crossed>>
-----------------------------------------------------------------------------
containsControlCharacter(t) == \E i \in DOMAIN t : t[i] \in Control

trim(t) == LET kept == {i \in DOMAIN t : t[i] \notin Space}
           IN IF kept = {} THEN <<>> ELSE SubSeq(t, Min(kept), Max(kept))

\* DisplayName.of: the name, or none when it is refused.
DisplayNameOf(raw) ==
  LET t == trim(raw)
  IN IF Len(t) < MIN_LENGTH \/ Len(t) > MAX_LENGTH \/ containsControlCharacter(t)
       THEN <<>> ELSE <<t>>

defaultDisplayName(l) ==
  IF Len(l) >= 2 THEN SubSeq(l, 1, IF Len(l) > MAX_LENGTH THEN MAX_LENGTH ELSE Len(l))
                 ELSE l \o <<"-", "u", "s", "e", "r">>

\* UserProfile.create, and its two changes.
Created(l) == [name |-> DisplayNameOf(defaultDisplayName(l))[1], avatar |-> 0]

renameAnew(p, raw) == [name |-> DisplayNameOf(raw)[1], avatar |-> 0]

rename(p, raw) == [p EXCEPT !.name = DisplayNameOf(raw)[1]]

changeAvatar(p, file) == [p EXCEPT !.avatar = file]

\* The change a request asks for, applied to a profile.
Edited(p, e) ==
  LET named == IF e.name = <<>> THEN p ELSE rename(p, e.name[1])
  IN IF e.avatar = <<>> THEN named ELSE changeAvatar(named, e.avatar[1])
-----------------------------------------------------------------------------
NoEdit == [at |-> "idle", name |-> <<>>, avatar |-> <<>>, draft |-> <<>>, stale |-> FALSE]

ProfilesInit ==
  /\ account = "live" /\ local \in LocalParts
  /\ profile = <<>>
  /\ avatars = [f \in Avatars |-> "pending"]
  /\ create = [j \in CreateJobs |-> Unsent] /\ looked = {}
  /\ remove = Unsent
  /\ edit = [r \in Edits |-> NoEdit]
  /\ asked = <<>> /\ crossed = FALSE

\* The foreign key cascades to the profile; users.deleted is published.
DeleteAccount ==
  /\ account = "live"
  /\ account' = "deleted"
  /\ profile' = <<>>
  /\ remove' = Sent
  /\ UNCHANGED <<local, avatars, create, looked, edit, asked, crossed>>

\* A file is confirmed, or swept before it was; a confirmed one stays while its
\* owner has an account (Uploads!ConfirmedStays).
SettleAvatar(f) ==
  /\ \/ avatars[f] = "pending" /\ avatars' = [avatars EXCEPT ![f] = "confirmed"]
     \/ avatars[f] = "pending" /\ avatars' = [avatars EXCEPT ![f] = "gone"]
     \/ account = "deleted" /\ avatars' = [avatars EXCEPT ![f] = "gone"]
  /\ UNCHANGED <<account, local, profile, create, looked, remove, edit, asked, crossed>>
-----------------------------------------------------------------------------
SaveableAlways == TRUE

\* PrismaUserRepository.save is an upsert on user_id; its INSERT needs the user.
Saveable == profile # <<>> \/ account = "live"

save(p) == profile' = <<p>>

\* After a save, what requests have loaded is stale.
Overtaken == [q \in Edits |->
                  [edit[q] EXCEPT !.stale = @ \/ edit[q].at \in {"avatar", "save"}]]

existsUsableForOwner(f) == avatars[f] = "confirmed"

CreateDeliver(j) ==
  /\ create[j].st = "unsent"
  /\ create' = [create EXCEPT ![j] = Sent]
  /\ UNCHANGED <<account, local, profile, avatars, looked, remove, edit, asked, crossed>>

\* EnsureUserProfileUseCase up to its first statement.
EnsureFind(j) ==
  /\ create[j].st = "waiting"
  /\ IF profile # <<>>
       THEN /\ create' = [create EXCEPT ![j] = Completed(@)]
            /\ UNCHANGED looked
       ELSE /\ create' = [create EXCEPT ![j] = Picked(@)]
            /\ looked' = looked \cup {j}
  /\ UNCHANGED <<account, local, profile, avatars, remove, edit, asked, crossed>>

EnsureSave(j) ==
  /\ j \in looked
  /\ Saveable
  /\ save(Created(local))
  /\ asked' = IF profile = <<>> THEN <<Created(local)>> ELSE asked
  /\ crossed' = (crossed \/ profile # <<>>)
  /\ looked' = looked \ {j}
  /\ create' = [create EXCEPT ![j] = Completed(@)]
  /\ edit' = Overtaken
  /\ UNCHANGED <<account, local, avatars, remove>>

\* A payload that does not parse, a failing statement, the foreign key.
EnsureFails(j) ==
  /\ create[j].st \in {"waiting", "active"}
  /\ create' = [create EXCEPT ![j] = Failed(@)]
  /\ looked' = looked \ {j}
  /\ UNCHANGED <<account, local, profile, avatars, remove, edit, asked, crossed>>

\* DeleteUserProfileUseCase: one deleteMany; or the attempt fails.
DeleteProfile ==
  /\ remove.st = "waiting"
  /\ \/ profile' = <<>> /\ remove' = Completed(remove)
     \/ remove' = Failed(remove) /\ UNCHANGED profile
  /\ UNCHANGED <<account, local, avatars, create, looked, edit, asked, crossed>>
-----------------------------------------------------------------------------
\* PATCH /users/me, whose guard has found the caller's session.
UpdateMe(r, change) ==
  /\ account = "live"
  /\ edit[r].at = "idle"
  /\ edit' = [edit EXCEPT ![r] = [NoEdit EXCEPT !.at = "find", !.name = change.name,
                                            !.avatar = change.avatar]]
  /\ UNCHANGED <<account, local, profile, avatars, create, looked, remove, asked, crossed>>

Ended(outcome) == [NoEdit EXCEPT !.at = outcome]

\* The profile is loaded and renamed.
UpdateFind(r) ==
  LET e == edit[r]
  IN /\ e.at = "find"
     /\ edit' = [edit EXCEPT ![r] =
          CASE profile = <<>> -> Ended("refused")
            [] profile # <<>> /\ e.name # <<>> /\ DisplayNameOf(e.name[1]) = <<>> -> Ended("refused")
            [] OTHER -> [e EXCEPT !.at = IF e.avatar \in {<<>>, <<0>>} THEN "save" ELSE "avatar",
                                  !.draft = <<Edited(profile[1], e)>>]]
     /\ UNCHANGED <<account, local, profile, avatars, create, looked, remove, asked, crossed>>

assertAvatarUsable(r) ==
  /\ edit[r].at = "avatar"
  /\ edit' = [edit EXCEPT ![r] = IF existsUsableForOwner(edit[r].avatar[1])
                                   THEN [@ EXCEPT !.at = "save"] ELSE Ended("refused")]
  /\ UNCHANGED <<account, local, profile, avatars, create, looked, remove, asked, crossed>>

\* What the user sees on asking for a change of p: the fields named, and no other.
AsAsked(p, e) == [name   |-> IF e.name = <<>> THEN p.name ELSE trim(e.name[1]),
                  avatar |-> IF e.avatar = <<>> THEN p.avatar ELSE e.avatar[1]]

UpdateSave(r) ==
  LET e == edit[r]
  IN /\ e.at = "save"
     /\ Saveable
     /\ save(e.draft[1])
     /\ asked' = <<AsAsked(IF profile = <<>> THEN e.draft[1] ELSE asked[1], e)>>
     /\ crossed' = (crossed \/ e.stale)
     /\ edit' = [Overtaken EXCEPT ![r] = [NoEdit EXCEPT !.at = "identity"]]
     /\ UNCHANGED <<account, local, avatars, create, looked, remove>>

UpdateAnswer(r) ==
  /\ edit[r].at = "identity"
  /\ edit' = [edit EXCEPT ![r] = Ended(IF account = "live" THEN "ok" ELSE "refused")]
  /\ UNCHANGED <<account, local, profile, avatars, create, looked, remove, asked, crossed>>

\* A statement fails, the foreign key included.
UpdateFails(r) ==
  /\ edit[r].at \in {"find", "avatar", "save", "identity"}
  /\ edit' = [edit EXCEPT ![r] = Ended("refused")]
  /\ UNCHANGED <<account, local, profile, avatars, create, looked, remove, asked, crossed>>
-----------------------------------------------------------------------------
Creator(j) == EnsureFind(j) \/ EnsureSave(j) \/ EnsureFails(j)

Editor(r) == UpdateFind(r) \/ assertAvatarUsable(r) \/ UpdateSave(r) \/ UpdateAnswer(r)

ProfilesNext ==
  \/ DeleteAccount \/ DeleteProfile
  \/ \E f \in Avatars : SettleAvatar(f)
  \/ \E j \in CreateJobs : CreateDeliver(j) \/ Creator(j)
  \/ \E r \in Edits :
       \/ \E c \in Changes : UpdateMe(r, c)
       \/ Editor(r) \/ UpdateFails(r)

ProfilesSpec == ProfilesInit /\ [][ProfilesNext]_profilesVars

ProfilesProgress == \E j \in CreateJobs : Creator(j)
-----------------------------------------------------------------------------
ProfilesTypeOK ==
  /\ account \in {"live", "deleted"} /\ local \in LocalParts
  /\ avatars \in [Avatars -> {"pending", "confirmed", "gone"}]
  /\ create \in [CreateJobs -> Job] /\ remove \in Job
  /\ looked = {j \in CreateJobs : create[j].st = "active"}
  /\ \A r \in Edits : edit[r].at \in {"idle", "find", "avatar", "save", "identity",
                                      "ok", "refused"}
  /\ crossed \in BOOLEAN

\* What a profile refers to is there, although nothing is locked between the
\* reads and the save: it exists only while the account does (neither a late
\* creation nor an edit that read it before the deletion brings it back), its
\* avatar is a confirmed file, and its name, typed or made from an address, is
\* one DisplayName.of accepts (what is loaded is not checked again).
ProfileIsSound ==
  \A i \in DOMAIN profile :
    /\ account = "live"
    /\ profile[i].avatar # 0 => avatars[profile[i].avatar] = "confirmed"
    /\ DisplayNameOf(profile[i].name) = <<profile[i].name>>
    /\ Len(profile[i].name) \in MIN_LENGTH..MAX_LENGTH

\* As long as no save crosses another, the profile shows all that was asked
\* for, in order: an edit changes what it names and keeps the rest, and the
\* creation job, delivered again, changes nothing.
EditsAddUp == profile # <<>> /\ ~crossed => profile = asked

ProfileRows == [name : Text, avatar : Avatars \cup {0}]

EditRows == [at : {"idle", "find", "avatar", "save", "identity", "ok", "refused"},
             name : Optional(Text), avatar : Optional(Avatars \cup {0}),
             draft : Optional(ProfileRows), stale : BOOLEAN]

\* A request that will save has a sound draft, which is what it was asked to
\* make of the profile unless that has changed since.
DraftIsSound(r) ==
  LET e == edit[r]
      d == e.draft[1]
  IN e.at \in {"avatar", "save"} =>
       /\ e.draft # <<>> /\ DisplayNameOf(d.name) = <<d.name>>
       /\ d = AsAsked(d, e)
       /\ e.at = "avatar" => e.avatar # <<>> /\ d.avatar # 0
       /\ e.at = "save" /\ d.avatar # 0 /\ account = "live" => avatars[d.avatar] = "confirmed"
       /\ ~e.stale /\ profile # <<>> => d = AsAsked(profile[1], e)

\* The inductive invariant behind ProfileIsSound and EditsAddUp.
ProfilesInv ==
  /\ ProfilesTypeOK
  /\ profile \in Optional(ProfileRows) /\ asked \in Optional(ProfileRows)
  /\ edit \in [Edits -> EditRows]
  /\ HasAttempts(remove) /\ \A j \in CreateJobs : HasAttempts(create[j])
  /\ profile # <<>> => asked # <<>>
  /\ \A r \in Edits : DraftIsSound(r)
  /\ ProfileIsSound /\ EditsAddUp

\* A registered user whose event was delivered has a profile in the end, unless
\* the account goes or the jobs use up their attempts.
RegisteredGetsProfile ==
  (\E j \in CreateJobs : create[j].st # "unsent")
    ~> \/ profile # <<>> \/ account = "deleted"
       \/ \A j \in CreateJobs : create[j].st \in {"unsent", "dead"}
=============================================================================
