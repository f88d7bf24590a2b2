\* Two role changes or removals at a time.
SPECIFICATION OverlapSpec
CONSTANTS
  Users = {u1, u2}
  Founder = u1
  Requests = {r1, r2}
  Invites = {i1}
  Files = {}
  Ops = {"change", "remove", "invite", "accept"}
  Offered = {"owner", "member"}
  NULL = NULL
INVARIANTS
  AlwaysAnOwner
SYMMETRY Symmetry
CHECK_DEADLOCK FALSE
