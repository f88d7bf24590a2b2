-------------------------------- MODULE Lists --------------------------------
(***************************************************************************)
(* The two lists that clients page through, the audit trail and the        *)
(* administrator's profiles, which share no state.                         *)
(***************************************************************************)
EXTENDS AuditTrail, ProfileList

ListsSpec == AuditSpec /\ ProfileListSpec

\* A client who pages through a list to its end, the audit trail or the profiles,
\* while rows come and go, gets every row that was there all along, once and
\* newest first; of the profiles only where no account went between the two
\* queries of a page.
WalksAreComplete == AuditWalkComplete /\ ScanCompleteUnlessCut
=============================================================================
