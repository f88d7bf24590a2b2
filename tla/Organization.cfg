\* Two requests at a time, of every kind, on an organization of two users.
SPECIFICATION FairOverlapSpec
CONSTANTS
  Users = {u1, u2}
  Founder = u1
  Requests = {r1, r2}
  Invites = {i1}
  Files = {f1}
  Ops = {"change", "remove", "delete", "invite", "accept", "revoke", "archive", "restore", "purge", "presign"}
  Offered = {"owner", "member"}
  NULL = NULL
INVARIANTS
  EventsMatchState
  PurgeIsComplete
  OwnerUntilOverlap
PROPERTIES
  JoinedByInvitation
  
CHECK_DEADLOCK FALSE
