------------------------------- MODULE Routes -------------------------------
(***************************************************************************)
(* The routes of the API's controllers, by what their decorators ask of a  *)
(* caller: @Public, @Roles, @TenantRequired with @TenantRoles, and the     *)
(* address guard of /metrics.  An empty set of roles asks for none.        *)
(***************************************************************************)
EXTENDS Functions

Guarded == [public |-> FALSE, roles |-> {}, tenant |-> {}, metrics |-> FALSE]

Public == [Guarded EXCEPT !.public = TRUE]

\* @TenantRequired alone admits every member.
Tenant == [Guarded EXCEPT !.tenant = {"owner", "admin", "member", "viewer"}]

TenantRoles(roles) == [Guarded EXCEPT !.tenant = roles]

UsersController == [me |-> Guarded, byId |-> [Guarded EXCEPT !.roles = {"admin"}], updateMe |-> Guarded]

OrganizationsController ==
  [create |-> Guarded, list |-> Guarded, archive |-> Guarded, restore |-> Guarded, purge |-> Guarded]

MembersController ==
  [list |-> Tenant, setRole |-> TenantRoles({"owner"}), invite |-> TenantRoles({"owner", "admin"}),
   revoke |-> TenantRoles({"owner", "admin"}), remove |-> TenantRoles({"owner", "admin"})]

InvitationRedemptionController == [accept |-> Guarded]

UploadController == [createPolicy |-> Tenant, confirmUpload |-> Tenant, list |-> Tenant]

AdminController ==
  [listUsers |-> TenantRoles({"owner", "admin"}), userOverview |-> TenantRoles({"owner", "admin"})]

AuditLogController == [list |-> TenantRoles({"owner", "admin"})]

BillingController == [getEntitlements |-> Tenant]

BillingWebhookController == [receive |-> Public]

ErrorDocsController == [list |-> Public, read |-> Public]

HealthController == [live |-> Public, ready |-> Public, dependencies |-> [Public EXCEPT !.metrics = TRUE]]

MetricsController == [scrape |-> [Public EXCEPT !.metrics = TRUE]]

ApiRoutes ==
  Range(UsersController) \cup Range(OrganizationsController) \cup Range(MembersController)
    \cup Range(InvitationRedemptionController) \cup Range(UploadController) \cup Range(AdminController)
    \cup Range(AuditLogController) \cup Range(BillingController) \cup Range(BillingWebhookController)
    \cup Range(ErrorDocsController) \cup Range(HealthController) \cup Range(MetricsController)
=============================================================================
