------------------------- MODULE OrganizationHistory -------------------------
(***************************************************************************)
(* Organization with a history variable: whether two requests have ever    *)
(* been in progress together.  The last-owner rule holds up to that point. *)
(***************************************************************************)
EXTENDS Organization

VARIABLE overlapped

Together == \E r, s \in Requests : r # s /\ pc'[r] # "idle" /\ pc'[s] # "idle"

OverlapInit == Init /\ overlapped = FALSE

OverlapNext == Next /\ overlapped' = (overlapped \/ Together)

OverlapSpec == OverlapInit /\ [][OverlapNext]_<<vars, overlapped>>

FairOverlapSpec == OverlapSpec /\ Fairness

\* As long as requests come one at a time, the last-owner checks of the member
\* routes and of the account deletion keep an owner in the organization.
OwnerUntilOverlap == ~overlapped => AlwaysAnOwner
=============================================================================
