----------------------------- MODULE ProfileList -----------------------------
(***************************************************************************)
(* An administrator's walk over the profiles of an organization            *)
(* (ListUserProfilesUseCase, through the admin overview).  A page takes    *)
(* two queries: the profiles, and then the identities of their users; a    *)
(* profile without an identity is dropped from the page.  Meanwhile users  *)
(* register, join or leave, and delete their accounts.                     *)
(***************************************************************************)
EXTENDS Listing

CONSTANTS Members,      \* profiles by their key [ts, id]
          PageSize

ASSUME ProfileListAssumption ==
  /\ Members \subseteq [ts : Nat, id : Nat] /\ IsFiniteSet(Members)
  /\ PageSize \in Nat \ {0}

VARIABLES user,       \* auth.user, with its profile: "none", "live", "deleted"
          member,     \* the memberships of the organization
          scan        \* the walk: [at, cursor, rows, seen, steady, cut]

profileListVars == <<user, member, scan>>

ProfileListInit ==
  /\ user \in [Members -> {"none", "live"}]
  /\ member = {m \in Members : user[m] = "live"}
  /\ scan = [at |-> "idle", cursor |-> NoCursor, rows |-> <<>>, seen |-> <<>>,
             steady |-> {}, cut |-> FALSE]

Listed == {m \in member : user[m] = "live"}

\* A user registers, or rejoins, and is listed.
Join(m) ==
  /\ user[m] # "deleted" /\ m \notin member
  /\ user' = [user EXCEPT ![m] = "live"]
  /\ member' = member \cup {m}
  /\ UNCHANGED scan

Leave(m) ==
  /\ m \in member
  /\ member' = member \ {m}
  /\ scan' = [scan EXCEPT !.steady = @ \ {m}]
  /\ UNCHANGED user

\* The account goes, and by the foreign keys its profile and memberships.
Erase(m) ==
  /\ user[m] = "live"
  /\ user' = [user EXCEPT ![m] = "deleted"]
  /\ member' = member \ {m}
  /\ scan' = [scan EXCEPT !.steady = @ \ {m}]
-----------------------------------------------------------------------------
\* GET /admin/users.
ScanStart ==
  /\ scan.at = "idle"
  /\ scan' = [scan EXCEPT !.at = "rows", !.steady = Listed]
  /\ UNCHANGED <<user, member>>

\* The first query of listPage, which is asked for one row more than the page.
ListRows ==
  /\ scan.at = "rows"
  /\ scan' = [scan EXCEPT !.at = "identities",
                          !.rows = PageOf(Listed, decodeOptionalCursor(scan.cursor), PageSize + 1)]
  /\ UNCHANGED <<user, member>>

\* The rows whose account is still there, in their order.
WithIdentity(rows) ==
  LET live == {i \in DOMAIN rows : user[rows[i]] = "live"}
      Place(n) == CHOOSE i \in live : Cardinality({j \in live : j < i}) = n - 1
  IN [n \in 1..Cardinality(live) |-> rows[Place(n)]]

\* The second query, and the page made of what is left.
ListIdentities ==
  /\ scan.at = "identities"
  /\ LET kept == WithIdentity(scan.rows)
         page == buildListResponse(kept, PageSize)
     IN scan' = [scan EXCEPT !.at = IF page.hasMore THEN "rows" ELSE "end",
                             !.cursor = page.lastCursor,
                             !.rows = <<>>,
                             !.seen = @ \o page.data,
                             !.cut = @ \/ Len(kept) < Len(scan.rows)]
  /\ UNCHANGED <<user, member>>

\* The walk ends; another one begins.
ScanAgain ==
  /\ scan.at = "end"
  /\ scan' = [at |-> "idle", cursor |-> NoCursor, rows |-> <<>>, seen |-> <<>>,
              steady |-> {}, cut |-> FALSE]
  /\ UNCHANGED <<user, member>>

ProfileListNext ==
  \/ \E m \in Members : Join(m) \/ Leave(m) \/ Erase(m)
  \/ ScanStart \/ ListRows \/ ListIdentities \/ ScanAgain

ProfileListSpec == ProfileListInit /\ [][ProfileListNext]_profileListVars
-----------------------------------------------------------------------------
ProfileListTypeOK ==
  /\ user \in [Members -> {"none", "live", "deleted"}]
  /\ member \subseteq {m \in Members : user[m] = "live"}
  /\ scan.at \in {"idle", "rows", "identities", "end"}
  /\ Len(scan.rows) <= PageSize + 1

\* A walk to the last page returns every profile that was listed all along
\* ("walks the whole set without dropping or repeating a row",
\* list-user-profiles.use-case.spec.ts), unless an account went between the
\* two queries of one of its pages; it never repeats a profile or leaves the
\* order.
ScanCompleteUnlessCut ==
  /\ scan.at = "end" /\ ~scan.cut => scan.steady \subseteq RowsOf(scan.seen)
  /\ NewestFirst(scan.seen)

Owed == IF scan.cut THEN {} ELSE scan.steady

\* The inductive invariant behind ScanCompleteUnlessCut: a walk of which no page
\* was cut has missed nothing, between its pages and between the two queries of
\* one.
ScanInv ==
  /\ ProfileListTypeOK
  /\ DOMAIN scan = {"at", "cursor", "rows", "seen", "steady", "cut"}
  /\ scan.cut \in BOOLEAN /\ scan.steady \subseteq Listed
  /\ scan.at = "idle" => scan.seen = <<>>
  /\ scan.at # "end" => Walked(Members, scan.seen, scan.cursor, Owed)
  /\ scan.at = "identities" => Fetched(Members, scan.seen, scan.rows, Owed, PageSize)
  /\ scan.at = "end" => NewestFirst(scan.seen) /\ Owed \subseteq RowsOf(scan.seen)
=============================================================================
