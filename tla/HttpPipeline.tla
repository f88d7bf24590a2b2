---------------------------- MODULE HttpPipeline ----------------------------
(***************************************************************************)
(* Requests on their way through the API process: request ids, the edge    *)
(* limiter, the guards, the interceptors, the handler, the exception       *)
(* filter and the onSend hook, in the order api.module and app-factory     *)
(* register them.  Requests interleave, share the limiters' budgets in a   *)
(* Redis that comes and goes, and have handlers that fail, are late or     *)
(* never answer.                                                           *)
(***************************************************************************)
EXTENDS HttpErrors, FiniteSets

CONSTANTS InFlightRequests,   \* requests, by number; a new request id is the number
          Shapes,             \* what may arrive: see ShapeFields
          EDGE_MAX, API_MAX, ACCOUNT_MAX,   \* the limiters' budgets
          TrustInbound,       \* TRUST_INBOUND_REQUEST_ID
          METRICS_ALLOW_LIST, \* the networks /metrics answers, as sets of addresses
          Failures,           \* the exceptions a handler of the API may throw
          MaxOutages

ShapeFields == {"route", "to", "session", "role", "member", "ip", "email", "trace", "body"}

ASSUME HttpAssumption ==
  /\ IsFiniteSet(InFlightRequests)
  /\ \A s \in Shapes : /\ DOMAIN s = ShapeFields
                       /\ s.route \in {"api", "auth", "upload", "unknown"}
  /\ \A e \in Failures : Throwable(e)
  /\ EDGE_MAX \in Nat /\ API_MAX \in Nat /\ ACCOUNT_MAX \in Nat
  /\ TrustInbound \in BOOLEAN /\ MaxOutages \in Nat

VARIABLES req,        \* r -> [at, shape, id, exc]
          reply,      \* r -> what was sent: [status, code, problem, retry, id, header]
          redis,      \* "up" or "down"
          used,       \* the points used in the current window: [limiter, key, by]
          handling,   \* the gauge httpRequestsInFlight
          observed,   \* r -> the status the request histogram was given
          ghost,      \* r -> what the properties ask about: [ran, broke, over]
          outages

httpVars == <<req, reply, redis, used, handling, observed, ghost, outages>>

Waiting == [at |-> "waiting"]
NotSent == [status |-> 0]
Quiet   == [ran |-> FALSE, broke |-> FALSE, over |-> FALSE]

HttpInit ==
  /\ req = [r \in InFlightRequests |-> Waiting] /\ reply = [r \in InFlightRequests |-> NotSent]
  /\ redis \in {"up", "down"} /\ used = {} /\ handling = 0
  /\ observed = [r \in InFlightRequests |-> 0]
  /\ ghost = [r \in InFlightRequests |-> Quiet]
  /\ outages = 0

Shape(r) == req[r].shape
GoTo(r, at) == req' = [req EXCEPT ![r].at = at]
Throw(r, e) == req' = [req EXCEPT ![r].at = "filter", ![r].exc = e]
Respond(r, e) == req' = [req EXCEPT ![r].at = "send", ![r].exc = e]

\* An answer that is no problem document yet.
raw(status) == [class |-> "raw", status |-> status]

\* ensureRequestIds: the id a request was stamped with, or a new one.
resolveRequestId(r, s) == IF TrustInbound /\ s.trace # 0 THEN s.trace ELSE r

ensureRequestIds(r) == req[r].id

\* The onRequest hook stamps the ids and sends them as headers.
ReceiveRequest(r) ==
  /\ req[r] = Waiting
  /\ \E s \in Shapes :
       req' = [req EXCEPT ![r] = [at |-> "edge", shape |-> s, id |-> resolveRequestId(r, s), exc |-> Unknown]]
  /\ UNCHANGED <<reply, redis, used, handling, observed, ghost, outages>>

Used(limiter, key) == Cardinality({u \in used : u.limiter = limiter /\ u.key = key})

Consumed(r, limiter, key) == used \cup {[limiter |-> limiter, key |-> key, by |-> r]}

\* A limiter's verdict: it is skipped without its store, and counts before it compares.
Limited(limiter, key, max) == redis = "up" /\ Used(limiter, key) >= max

Count(r, limiter, key) == used' = IF redis = "up" THEN Consumed(r, limiter, key) ELSE used

InScope(r) == Shape(r).route \in {"auth", "upload"}

\* An error in a scope of its own reaches the filter or Fastify's default handler.
ScopeError(r, status) ==
  \/ Throw(r, IF status < 500 THEN Http(status) ELSE Unknown)
  \/ Respond(r, raw(status))

TooMany(r) == Prebuilt(buildProblemDetails(429, "rate_limited", ensureRequestIds(r)))

\* @fastify/rate-limit on every route: by address, with skipOnError.
EdgeLimit(r) ==
  LET key == <<Shape(r).route, Shape(r).ip>> IN
  /\ req[r].at = "edge"
  /\ \/ /\ Shape(r).route # "unknown" /\ Limited("edge", key, EDGE_MAX)
        /\ Throw(r, TooMany(r)) /\ ghost' = [ghost EXCEPT ![r].over = TRUE]
     \/ /\ Shape(r).route # "unknown" /\ ~Limited("edge", key, EDGE_MAX)
        /\ IF Shape(r).body \notin {413, 415} THEN GoTo(r, Shape(r).route)
           ELSE IF InScope(r) THEN ScopeError(r, Shape(r).body) ELSE Throw(r, Http(Shape(r).body))
        /\ UNCHANGED ghost
     \/ Shape(r).route = "unknown" /\ Throw(r, Http(404)) /\ UNCHANGED ghost
  /\ IF Shape(r).route = "unknown" THEN UNCHANGED used ELSE Count(r, "edge", key)
  /\ UNCHANGED <<reply, redis, handling, observed, outages>>

Anonymous(r) == Shape(r).session = ""

\* BetterAuthGuard.
BetterAuthGuard(r) ==
  /\ req[r].at = "api"
  /\ \/ /\ Shape(r).to.public \/ ~Anonymous(r)
        /\ GoTo(r, "throttle") /\ UNCHANGED ghost
     \/ ~Shape(r).to.public /\ Anonymous(r) /\ Throw(r, Http(401)) /\ UNCHANGED ghost
     \/ ~Shape(r).to.public /\ Throw(r, Prisma("P2024")) /\ ghost' = [ghost EXCEPT ![r].broke = TRUE]
  /\ UNCHANGED <<reply, redis, used, handling, observed, outages>>

getTrackerByAddress(r) == <<"ip", Shape(r).ip>>

\* The session, known only when a guard has put it on the request, or the address.
getTracker(r) == IF ~Shape(r).to.public /\ ~Anonymous(r) THEN <<"session", Shape(r).session>>
                 ELSE <<"ip", Shape(r).ip>>

\* handleRequest: a 429 is the limiter working; any other error lets the request pass.
OnOutage(r) == GoTo(r, "authorise")

ApiThrottlerGuard(r) ==
  /\ req[r].at = "throttle"
  /\ IF Limited("api", getTracker(r), API_MAX)
     THEN Throw(r, Http(429)) /\ ghost' = [ghost EXCEPT ![r].over = TRUE]
     ELSE /\ IF redis = "up" THEN GoTo(r, "authorise") ELSE OnOutage(r)
          /\ UNCHANGED ghost
  /\ Count(r, "api", getTracker(r))
  /\ UNCHANGED <<reply, redis, handling, observed, outages>>

SessionOnRequest(r) == ~Shape(r).to.public /\ ~Anonymous(r)

\* RolesGuard, TenantContextGuard and TenantRolesGuard, in that order: 0 lets the request pass.
RolesRefusal(r) ==
  IF Shape(r).to.roles = {} THEN 0 ELSE IF ~SessionOnRequest(r) THEN 401
  ELSE IF Shape(r).role \notin Shape(r).to.roles THEN 403 ELSE 0

TenantRefusal(r) ==
  IF Shape(r).to.tenant = {} \/ (SessionOnRequest(r) /\ Shape(r).member # "none") THEN 0
  ELSE IF ~SessionOnRequest(r) THEN 401 ELSE 403

TenantRolesRefusal(r) == IF Shape(r).to.tenant = {} \/ Shape(r).member \in Shape(r).to.tenant THEN 0 ELSE 403

\* MetricsIpGuard: an address outside every network, or an empty list, is refused.
isAddressAllowed(address) == \E network \in METRICS_ALLOW_LIST : address \in network

MetricsRefusal(r) == IF Shape(r).to.metrics /\ ~isAddressAllowed(Shape(r).ip) THEN 403 ELSE 0

FirstRefusal(r) == IF RolesRefusal(r) # 0 THEN RolesRefusal(r)
                   ELSE IF TenantRefusal(r) # 0 THEN TenantRefusal(r)
                   ELSE IF TenantRolesRefusal(r) # 0 THEN TenantRolesRefusal(r) ELSE MetricsRefusal(r)

\* Past the guards the interceptors wrap the handler: the gauge goes up.
Authorise(r) ==
  /\ req[r].at = "authorise"
  /\ IF FirstRefusal(r) # 0 THEN Throw(r, Http(FirstRefusal(r))) /\ UNCHANGED handling
     ELSE GoTo(r, "handler") /\ handling' = handling + 1
  /\ UNCHANGED <<reply, redis, used, observed, ghost, outages>>

\* HttpMetricsInterceptor's finalize: the status is the reply's as it stands,
\* and on an error the filter has not run yet.
Finalized(r) ==
  /\ handling' = handling - 1
  /\ observed' = [observed EXCEPT ![r] = 200]

Answered(r) == Respond(r, raw(200))

\* The validation pipe and the handler; a handler may also never answer.
Handle(r) ==
  /\ req[r].at = "handler"
  /\ IF Shape(r).body = 422
     THEN Throw(r, Domain("validation", "validation_failed")) /\ UNCHANGED ghost
     ELSE \/ Answered(r) /\ ghost' = [ghost EXCEPT ![r].ran = TRUE]
          \/ \E e \in Failures : Throw(r, e) /\ ghost' = [ghost EXCEPT ![r].ran = TRUE, ![r].broke = TRUE]
  /\ Finalized(r)
  /\ UNCHANGED <<reply, redis, used, outages>>

NoTimeout(r) == FALSE

\* RequestTimeoutInterceptor; the handler's own result, if it comes, goes nowhere.
RequestTimeout(r) ==
  /\ req[r].at = "handler"
  /\ Throw(r, Http(408))
  /\ ghost' = [ghost EXCEPT ![r].ran = TRUE]
  /\ Finalized(r)
  /\ UNCHANGED <<reply, redis, used, outages>>

\* The auth routes: the account limiter, with its own answer, then Better Auth
\* under withTimeout.
AccountLimit(r) ==
  /\ req[r].at = "auth"
  /\ IF Shape(r).email # "" /\ Limited("account", <<"email", Shape(r).email>>, ACCOUNT_MAX)
     THEN /\ Respond(r, TooMany(r))
          /\ ghost' = [ghost EXCEPT ![r].over = TRUE]
     ELSE GoTo(r, "better-auth") /\ UNCHANGED ghost
  /\ used' = IF Shape(r).email # "" /\ redis = "up" THEN Consumed(r, "account", <<"email", Shape(r).email>>) ELSE used
  /\ UNCHANGED <<reply, redis, handling, observed, outages>>

handleWebRequest(r) ==
  /\ req[r].at = "better-auth"
  /\ \/ (\E status \in {200, 401} : Respond(r, raw(status))) /\ ghost' = [ghost EXCEPT ![r].ran = TRUE]
     \/ Respond(r, raw(500)) /\ ghost' = [ghost EXCEPT ![r].ran = TRUE, ![r].broke = TRUE]
     \/ ScopeError(r, 500) /\ ghost' = [ghost EXCEPT ![r].broke = TRUE]
  /\ UNCHANGED <<reply, redis, used, handling, observed, outages>>

\* The local upload route: refuse answers a problem document, putObject may fail.
LocalUpload(r) ==
  /\ req[r].at = "upload"
  /\ \/ Answered(r) /\ UNCHANGED ghost
     \/ Respond(r, Prebuilt(buildProblemDetails(403, "forbidden", ensureRequestIds(r)))) /\ UNCHANGED ghost
     \/ ScopeError(r, 500) /\ ghost' = [ghost EXCEPT ![r].broke = TRUE]
  /\ UNCHANGED <<reply, redis, used, handling, observed, outages>>

Limiting(e) == e.class = "problem" /\ e.problem.status = 429

Send(r, status, problem, code, id, retry) ==
  /\ reply' = [reply EXCEPT ![r] = [status |-> status, problem |-> problem, code |-> code, id |-> id,
                                    retry |-> retry, header |-> req[r].id]]
  /\ req' = [req EXCEPT ![r].at = "sent", ![r].exc = Unknown]
  /\ UNCHANGED <<redis, used, handling, observed, ghost, outages>>

\* DomainExceptionFilter.catch, and the hook that lets its document through.
Catch(r) ==
  /\ req[r].at = "filter"
  /\ LET p == toProblem(req[r].exc, ensureRequestIds(r)) IN
     Send(r, p.status, TRUE, p.code, p.id, p.status \in RETRY_AFTER_SECONDS \/ Limiting(req[r].exc))

PassthroughAll(r, status) == Shape(r).route = "auth"

Passthrough(r, status) == Shape(r).route = "auth" /\ status < 500

\* The onSend hook, for what did not come from the filter.
OnSend(r) ==
  /\ req[r].at = "send"
  /\ LET e == req[r].exc IN
     \/ /\ e.class = "problem"
        /\ Send(r, e.problem.status, TRUE, e.problem.code, e.problem.id, Limiting(e))
     \/ /\ e.class = "raw" /\ (e.status < 400 \/ Passthrough(r, e.status))
        /\ Send(r, e.status, FALSE, "", 0, FALSE)
     \/ /\ e.class = "raw" /\ e.status >= 400 /\ ~Passthrough(r, e.status)
        /\ Send(r, e.status, TRUE,
                IF e.status >= 500 THEN "internal_error" ELSE codeForClientStatus(e.status),
                ensureRequestIds(r), FALSE)

\* Redis, external: it goes away, with the limiters' connection, and comes back.
RedisTurns ==
  /\ outages < MaxOutages
  /\ redis' = IF redis = "up" THEN "down" ELSE "up"
  /\ outages' = outages + 1
  /\ UNCHANGED <<req, reply, used, handling, observed, ghost>>

RequestStep(r) ==
  \/ EdgeLimit(r) \/ BetterAuthGuard(r) \/ ApiThrottlerGuard(r) \/ Authorise(r) \/ RequestTimeout(r)
  \/ AccountLimit(r) \/ handleWebRequest(r) \/ LocalUpload(r) \/ Catch(r) \/ OnSend(r)

HttpNext == \/ RedisTurns
            \/ \E r \in InFlightRequests : ReceiveRequest(r) \/ RequestStep(r) \/ Handle(r)

\* A handler owes no answer; everything around it does.
HttpProgress == \E r \in InFlightRequests : RequestStep(r)

HttpSpec == HttpInit /\ [][HttpNext]_httpVars
-----------------------------------------------------------------------------
HttpTypeOK ==
  /\ \A r \in InFlightRequests :
       /\ req[r].at \in {"waiting", "edge", "api", "auth", "upload", "throttle", "authorise", "handler",
                         "better-auth", "filter", "send", "sent"}
       /\ reply[r].status \in {0, 200, 400, 401, 403, 404, 408, 409, 413, 415, 422, 429, 500, 503}
  /\ handling \in 0..Cardinality(InFlightRequests) /\ redis \in {"up", "down"}

Sends(r) == req[r].at = "sent"

\* Whatever failed, and wherever, the caller gets one coherent problem document;
\* only what Better Auth itself refuses passes as it is.  The filter and the hook
\* give a status the same code, except where a handler's domain error has its own,
\* a server error names nothing but itself, an answer that asks the caller to come
\* back says when, and the id in the document is the one in the header and in the
\* log.
ErrorsAreProblems ==
  \A r \in InFlightRequests : Sends(r) =>
    LET status == reply[r].status
        code == reply[r].code
    IN  /\ status >= 400 => reply[r].problem \/ (Shape(r).route = "auth" /\ status < 500)
        /\ reply[r].problem =>
             /\ status \in {401, 408, 413, 415, 429} \/ (status = 403 /\ ~ghost[r].broke) =>
                  code = CODE_BY_STATUS(status)
             /\ status = 503 <=> code = "service_unavailable"
             /\ status >= 500 => code \in {"internal_error", "service_unavailable"}
             /\ status \in {429, 503} => reply[r].retry
             /\ reply[r].id = reply[r].header

\* Requests of a session whose handlers the store's counters let run.
Handled(s) == {r \in InFlightRequests : /\ ghost[r].ran /\ Shape(r).route = "api"
                                        /\ ~Shape(r).to.public /\ Shape(r).session = s}

\* The in-flight gauge counts the requests inside a handler, and comes back to
\* zero also after failures and timeouts.
GaugeCountsHandlers == handling = Cardinality({r \in InFlightRequests : req[r].at = "handler"})

\* A handler runs for those its route admits, and as often as the limits allow.
\* A guarded route's handler ran only for a caller with the session, the roles,
\* the membership and the address it asks for; a signed-in caller has one budget,
\* whatever addresses the requests come from; and without Redis the limiters let
\* requests through: a request is throttled only by a store that answered, and
\* fails only where something else failed.  The gauge counts the handlers that run.
HandlersAreGuarded ==
  /\ \A r \in InFlightRequests :
       /\ ghost[r].ran /\ Shape(r).route = "api" =>
            /\ Shape(r).to.public \/ ~Anonymous(r)
            /\ Shape(r).to.roles # {} => Shape(r).role \in Shape(r).to.roles
            /\ Shape(r).to.tenant # {} => Shape(r).member \in Shape(r).to.tenant
            /\ Shape(r).to.metrics => isAddressAllowed(Shape(r).ip)
       /\ Sends(r) => /\ reply[r].status = 429 => ghost[r].over
                      /\ reply[r].status >= 500 => ghost[r].broke
  /\ outages = 0 /\ redis = "up" =>
       \A s \in {Shape(r).session : r \in {q \in InFlightRequests : req[q] # Waiting}} \ {""} :
         Cardinality(Handled(s)) <= API_MAX
  /\ GaugeCountsHandlers

\* What the alert on failing requests reads: the status a request is counted
\* under is the one its caller was sent.
ObservedStatusIsSent ==
  \A r \in InFlightRequests : Sends(r) /\ observed[r] # 0 => observed[r] = reply[r].status

\* Every request is answered, also when its handler never does.
EveryRequestIsAnswered == \A r \in InFlightRequests : req[r].at = "edge" ~> req[r].at = "sent"

Places == {"edge", "api", "auth", "upload", "throttle", "authorise", "handler", "better-auth", "filter",
           "send", "sent"}

KnownOrPublic(s) == s.to.public \/ s.session # ""

\* What the guards in front of a handler ask of a caller.
Admitted(s) ==
  /\ KnownOrPublic(s)
  /\ s.to.roles # {} => s.role \in s.to.roles
  /\ s.to.tenant # {} => s.member \in s.to.tenant
  /\ s.to.metrics => isAddressAllowed(s.ip)

\* What reaches the filter, and what reaches the hook without it, of a request
\* with this id, history and route.
Caught(e, id, g) ==
  \/ e = Prebuilt(buildProblemDetails(429, "rate_limited", id)) /\ g.over
  \/ \E status \in {401, 403, 404, 408, 413, 415} : e = Http(status)
  \/ e = Http(429) /\ g.over
  \/ e = Domain("validation", "validation_failed")
  \/ Throwable(e) /\ g.broke

Uncaught(e, id, g, route) ==
  \/ e = Prebuilt(buildProblemDetails(429, "rate_limited", id)) /\ g.over
  \/ e = Prebuilt(buildProblemDetails(403, "forbidden", id))
  \/ \E status \in {200, 413, 415} : e = raw(status)
  \/ e = raw(401) /\ route = "auth"
  \/ e = raw(500) /\ g.broke

\* ErrorsAreProblems, and what HandlersAreGuarded says of answers, for one of them.
Coherent(p, route, g) ==
  /\ p.status \in {200, 400, 401, 403, 404, 408, 409, 413, 415, 422, 429, 500, 503}
  /\ p.status >= 400 => p.problem \/ (route = "auth" /\ p.status < 500)
  /\ p.problem =>
       /\ p.status \in {401, 408, 413, 415, 429} \/ (p.status = 403 /\ ~g.broke) => p.code = CODE_BY_STATUS(p.status)
       /\ p.status = 503 <=> p.code = "service_unavailable"
       /\ p.status >= 500 => p.code \in {"internal_error", "service_unavailable"}
       /\ p.status \in {429, 503} => p.retry
       /\ p.id = p.header
  /\ p.status = 429 => g.over
  /\ p.status >= 500 => g.broke

\* What holds of a request q with the reply p and the history g.
RequestOK(q, p, g) ==
  /\ g \in [ran : BOOLEAN, broke : BOOLEAN, over : BOOLEAN]
  /\ \/ q = Waiting /\ g.ran = FALSE /\ p.status = 0
     \/ /\ q = [at |-> q.at, shape |-> q.shape, id |-> q.id, exc |-> q.exc]
        /\ q.at \in Places /\ q.shape \in Shapes
        /\ q.at \in {"api", "throttle", "authorise", "handler"} => q.shape.route = "api"
        /\ q.at \in {"auth", "better-auth"} => q.shape.route = "auth"
        /\ q.at = "upload" => q.shape.route = "upload"
        /\ q.at \in {"throttle", "authorise"} => KnownOrPublic(q.shape)
        /\ q.at = "handler" \/ (g.ran /\ q.shape.route = "api") => Admitted(q.shape)
        /\ q.at = "filter" => Caught(q.exc, q.id, g)
        /\ q.at = "send" => Uncaught(q.exc, q.id, g, q.shape.route)
        /\ IF q.at = "sent" THEN Coherent(p, q.shape.route, g) ELSE p.status = 0

\* A request that was counted against its session's budget and let through.
Spends(q, g, s) ==
  /\ q # Waiting /\ q.shape.route = "api" /\ ~q.shape.to.public /\ q.shape.session = s
  /\ q.at \in {"authorise", "handler"} \/ g.ran

Spenders(s) == {r \in InFlightRequests : Spends(req[r], ghost[r], s)}

AlwaysUp == outages = 0 /\ redis = "up"

\* The inductive invariant behind ErrorsAreProblems, HandlersAreGuarded and
\* GaugeCountsHandlers: each request by itself, the gauge, and the points every
\* session has used.
HttpInv ==
  /\ req = [r \in InFlightRequests |-> req[r]] /\ reply = [r \in InFlightRequests |-> reply[r]]
  /\ ghost = [r \in InFlightRequests |-> ghost[r]]
  /\ \A r \in InFlightRequests : RequestOK(req[r], reply[r], ghost[r])
  /\ redis \in {"up", "down"} /\ outages \in Nat /\ IsFiniteSet(used)
  /\ GaugeCountsHandlers
  /\ AlwaysUp => \A s \in {x.session : x \in Shapes} \ {""} :
       /\ Cardinality(Spenders(s)) <= API_MAX
       /\ \A r \in Spenders(s) : [limiter |-> "api", key |-> <<"session", s>>, by |-> r] \in used
=============================================================================
