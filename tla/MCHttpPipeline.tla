--------------------------- MODULE MCHttpPipeline ---------------------------
(* Two requests at a time, of the kinds that differ for some layer.        *)
EXTENDS HttpPipeline, Routes

SignedIn(route) == [route |-> "api", to |-> route, session |-> "s1", role |-> "member", member |-> "none",
                    ip |-> "a", email |-> "", trace |-> 0, body |-> 200]

Open == [SignedIn(BillingWebhookController.receive) EXCEPT !.session = ""]

RequestKinds ==
  {[SignedIn(UsersController.byId) EXCEPT !.role = "admin", !.trace = 99],
   [SignedIn(UsersController.byId) EXCEPT !.session = "s2"],
   [SignedIn(MembersController.setRole) EXCEPT !.member = "owner", !.ip = "b"],
   [SignedIn(MembersController.setRole) EXCEPT !.member = "viewer", !.session = "s2", !.trace = 99],
   [SignedIn(MembersController.invite) EXCEPT !.member = "admin", !.body = 422],
   SignedIn(UploadController.list),
   [SignedIn(UsersController.me) EXCEPT !.session = "", !.body = 413],
   [SignedIn(UsersController.me) EXCEPT !.session = "", !.ip = "b"],
   Open,
   [Open EXCEPT !.to = MetricsController.scrape],
   [Open EXCEPT !.to = MetricsController.scrape, !.ip = "b"],
   [Open EXCEPT !.route = "auth", !.email = "e"],
   [Open EXCEPT !.route = "auth", !.email = "e", !.ip = "b"],
   [Open EXCEPT !.route = "auth", !.ip = "b", !.body = 413],
   [Open EXCEPT !.route = "upload"],
   [Open EXCEPT !.route = "upload", !.body = 413],
   [Open EXCEPT !.route = "unknown", !.trace = 99]}

\* Every kind of route a controller has is among them.
ASSUME EveryRouteIsTried == {s.to : s \in RequestKinds} = ApiRoutes

FewKinds ==
  {[SignedIn(MembersController.setRole) EXCEPT !.member = "owner"],
   [Open EXCEPT !.route = "auth", !.email = "e"],
   [Open EXCEPT !.route = "upload"]}

OneNetwork == {{"a"}}

OneFailure == {Prisma("P2024")}

HandlerFailures == {Domain("conflict", "last_owner"), Domain("forbidden", "organization_access_denied"),
                    Prisma("P2024"), Prisma("P1001"), Unknown, Http(503)}
=============================================================================
