----------------------------- MODULE HttpProofs -----------------------------
(***************************************************************************)
(* Proofs about the HTTP pipeline, for any number of requests of any       *)
(* shapes, any budgets and any outages of Redis.  A step moves one request *)
(* from one place to another, so that the invariant is a predicate of the  *)
(* request, its reply and its history (RequestOK), plus what the requests  *)
(* share: the gauge and the points of a session.  And about the tables     *)
(* that an error is explained from.                                        *)
(***************************************************************************)
EXTENDS HttpPipeline, ErrorCatalog, FiniteSetTheorems, TLAPS

\* The request q at another place, with another exception.
Placed(q, at, e) == [at |-> at, shape |-> q.shape, id |-> q.id, exc |-> e]

Histories == [ran : BOOLEAN, broke : BOOLEAN, over : BOOLEAN]

\* The contribution of a place to the gauge.
Weight(at) == IF at = "handler" THEN 1 ELSE 0

Handling(f) == {r \in InFlightRequests : f[r].at = "handler"}

Point(s, r) == [limiter |-> "api", key |-> <<"session", s>>, by |-> r]

Sessions == {x.session : x \in Shapes} \ {""}

\* What a request that moves to a place needs there, but for what it brought along.
Fits(q, at, e, h) ==
  /\ at \in Places \ {"sent"} /\ h \in Histories
  /\ at \in {"api", "throttle", "authorise", "handler"} => q.shape.route = "api"
  /\ at \in {"auth", "better-auth"} => q.shape.route = "auth"
  /\ at = "upload" => q.shape.route = "upload"
  /\ at \in {"throttle", "authorise"} => KnownOrPublic(q.shape)
  /\ at = "handler" \/ (h.ran /\ q.shape.route = "api") => Admitted(q.shape)
  /\ at = "filter" => Caught(e, q.id, h)
  /\ at = "send" => Uncaught(e, q.id, h, q.shape.route)

\* A request that has arrived and was not answered yet.
Pending(q) == q # Waiting /\ q.at # "sent"

\* Placed is the record its fields say.
LEMMA PlacedFields ==
  ASSUME NEW q, NEW at, NEW e
  PROVE  /\ Placed(q, at, e).at = at /\ Placed(q, at, e).shape = q.shape
         /\ Placed(q, at, e).id = q.id /\ Placed(q, at, e).exc = e
         /\ Placed(q, at, e) = [at |-> Placed(q, at, e).at, shape |-> Placed(q, at, e).shape,
                                id |-> Placed(q, at, e).id, exc |-> Placed(q, at, e).exc]
  BY DEF Placed

\* What RequestOK says of a request that has arrived.
LEMMA Arrived ==
  ASSUME NEW q, NEW p, NEW g, RequestOK(q, p, g), q # Waiting
  PROVE  /\ g \in Histories
         /\ q = [at |-> q.at, shape |-> q.shape, id |-> q.id, exc |-> q.exc]
         /\ q.at \in Places /\ q.shape \in Shapes
         /\ q.at \in {"api", "throttle", "authorise", "handler"} => q.shape.route = "api"
         /\ q.at \in {"auth", "better-auth"} => q.shape.route = "auth"
         /\ q.at = "upload" => q.shape.route = "upload"
         /\ q.at \in {"throttle", "authorise"} => KnownOrPublic(q.shape)
         /\ q.at = "handler" \/ (g.ran /\ q.shape.route = "api") => Admitted(q.shape)
         /\ q.at = "filter" => Caught(q.exc, q.id, g)
         /\ q.at = "send" => Uncaught(q.exc, q.id, g, q.shape.route)
         /\ IF q.at = "sent" THEN Coherent(p, q.shape.route, g) ELSE p.status = 0
  BY DEF RequestOK, Histories

\* A request that moves to a place it fits is as it should be there.
LEMMA PlacedOK ==
  ASSUME NEW q, NEW p, NEW g, RequestOK(q, p, g), Pending(q), NEW at, NEW e, NEW h, Fits(q, at, e, h)
  PROVE  RequestOK(Placed(q, at, e), p, h)
<1> DEFINE n == Placed(q, at, e)
<1>1. /\ n.at = at /\ n.shape = q.shape /\ n.id = q.id /\ n.exc = e
      /\ n = [at |-> n.at, shape |-> n.shape, id |-> n.id, exc |-> n.exc]
  BY PlacedFields
<1>2. q.shape \in Shapes /\ p.status = 0
  BY Arrived DEF Pending
<1> HIDE DEF n
<1>3. n.at \in Places /\ n.at # "sent" /\ h \in Histories
  BY <1>1 DEF Fits
<1>4. /\ n.at \in {"api", "throttle", "authorise", "handler"} => n.shape.route = "api"
      /\ n.at \in {"auth", "better-auth"} => n.shape.route = "auth"
      /\ n.at = "upload" => n.shape.route = "upload"
      /\ n.at \in {"throttle", "authorise"} => KnownOrPublic(n.shape)
      /\ n.at = "handler" \/ (h.ran /\ n.shape.route = "api") => Admitted(n.shape)
  BY <1>1 DEF Fits
<1>5. /\ n.at = "filter" => Caught(n.exc, n.id, h)
      /\ n.at = "send" => Uncaught(n.exc, n.id, h, n.shape.route)
  BY <1>1 DEF Fits
<1>6. RequestOK(n, p, h)
  BY <1>1, <1>2, <1>3, <1>4, <1>5 DEF RequestOK, Histories
<1> QED BY <1>6 DEF n

\* A place is not where a request waits to arrive.
LEMMA NotWaiting ==
  ASSUME NEW q, q.at \in Places
  PROVE  q # Waiting
BY DEF Waiting, Places
-----------------------------------------------------------------------------
\* The gauge follows a request that moves from one place to another.
LEMMA GaugeFollows ==
  ASSUME HttpInv, NEW r \in InFlightRequests, NEW q, req' = [req EXCEPT ![r] = q],
         handling' = handling + Weight(q.at) - Weight(req[r].at)
  PROVE  GaugeCountsHandlers'
<1> DEFINE H == Handling(req)
           N == Handling(req')
<1>1. DOMAIN req = InFlightRequests /\ handling = Cardinality(H)
  BY Zenon DEF HttpInv, GaugeCountsHandlers, Handling
<1>2. IsFiniteSet(H) /\ Cardinality(H) \in Nat
  <2>1. H \subseteq InFlightRequests
    BY DEF Handling
  <2> QED BY <2>1, HttpAssumption, FS_Subset, FS_CardinalityType
<1>3. r \in H <=> req[r].at = "handler"
  BY DEF Handling
<1>4. N = (IF q.at = "handler" THEN H \cup {r} ELSE H \ {r})
  BY <1>1 DEF Handling
<1>5. handling' = Cardinality(N)
  <2> HIDE DEF H, N
  <2>1. CASE q.at = "handler"
    <3>1. Cardinality(N) = IF r \in H THEN Cardinality(H) ELSE Cardinality(H) + 1
      BY Zenon, <1>2, <1>4, <2>1, FS_AddElement
    <3> QED BY <1>1, <1>2, <1>3, <2>1, <3>1 DEF Weight
  <2>2. CASE q.at # "handler"
    <3>1. Cardinality(N) = IF r \in H THEN Cardinality(H) - 1 ELSE Cardinality(H)
      BY Zenon, <1>2, <1>4, <2>2, FS_RemoveElement
    <3> QED BY <1>1, <1>2, <1>3, <2>2, <3>1 DEF Weight
  <2> QED BY <2>1, <2>2
<1> QED BY <1>5 DEF GaugeCountsHandlers, Handling

\* The requests a session's budget let through have each used a point of it.
LEMMA SpendersUsePoints ==
  ASSUME HttpInv, AlwaysUp, NEW s \in Sessions
  PROVE  /\ IsFiniteSet(Spenders(s)) /\ Cardinality(Spenders(s)) \in Nat
         /\ Used("api", <<"session", s>>) \in Nat
         /\ Cardinality(Spenders(s)) <= Used("api", <<"session", s>>)
<1> DEFINE U == {u \in used : u.limiter = "api" /\ u.key = <<"session", s>>}
           f == [r \in Spenders(s) |-> Point(s, r)]
<1>1. IsFiniteSet(Spenders(s)) /\ Cardinality(Spenders(s)) \in Nat
  <2>1. Spenders(s) \subseteq InFlightRequests
    BY DEF Spenders
  <2> QED BY <2>1, HttpAssumption, FS_Subset, FS_CardinalityType
<1>2. IsFiniteSet(U) /\ Cardinality(U) \in Nat
  <2>1. IsFiniteSet(used) /\ U \subseteq used
    BY Zenon DEF HttpInv
  <2> QED BY <2>1, FS_Subset, FS_CardinalityType
<1>3. \A r \in Spenders(s) : Point(s, r) \in U
  <2>1. \A r \in Spenders(s) : Point(s, r) \in used
    BY Zenon DEF HttpInv, Point, Sessions
  <2> QED BY <2>1 DEF Point
<1>4. f \in Injection(Spenders(s), U)
  <2>1. \A a, b : Point(s, a) = Point(s, b) => a = b
    BY DEF Point
  <2> QED BY <1>3, <2>1 DEF Injection, IsInjective
<1>5. Cardinality(Spenders(s)) <= Cardinality(U)
  <2> HIDE DEF f, U
  <2> QED BY <1>1, <1>2, <1>4, FS_Injection
<1> QED BY <1>1, <1>2, <1>5 DEF Used

\* A step of one request keeps the invariant when the request is as it should be
\* afterwards, the gauge moved with it, and, if it now spends a point of its
\* session, the budget had one left.
LEMMA OneRequest ==
  ASSUME HttpInv, NEW r \in InFlightRequests, NEW q, NEW p, NEW g,
         req' = [req EXCEPT ![r] = q], reply' = [reply EXCEPT ![r] = p], ghost' = [ghost EXCEPT ![r] = g],
         RequestOK(q, p, g), UNCHANGED <<redis, outages>>,
         handling' = handling + Weight(q.at) - Weight(req[r].at),
         used \subseteq used', IsFiniteSet(used'),
         \A s \in Sessions : Spends(q, g, s) /\ ~Spends(req[r], ghost[r], s) /\ AlwaysUp =>
           Used("api", <<"session", s>>) < API_MAX /\ Point(s, r) \in used'
  PROVE  HttpInv'
<1>1. GaugeCountsHandlers'
  BY Zenon, GaugeFollows
<1>2. /\ DOMAIN req = InFlightRequests /\ DOMAIN reply = InFlightRequests /\ DOMAIN ghost = InFlightRequests
      /\ \A x \in InFlightRequests : RequestOK(req[x], reply[x], ghost[x])
      /\ redis \in {"up", "down"} /\ outages \in Nat
  BY Zenon DEF HttpInv
<1>3. /\ DOMAIN req' = InFlightRequests /\ DOMAIN reply' = InFlightRequests /\ DOMAIN ghost' = InFlightRequests
      /\ req'[r] = q /\ reply'[r] = p /\ ghost'[r] = g
      /\ \A x \in InFlightRequests \ {r} : req'[x] = req[x] /\ reply'[x] = reply[x] /\ ghost'[x] = ghost[x]
  BY <1>2
<1>4. \A x \in InFlightRequests : RequestOK(req'[x], reply'[x], ghost'[x])
  <2> TAKE x \in InFlightRequests
  <2>1. CASE x = r
    BY <1>3, <2>1
  <2>2. CASE x # r
    BY <1>2, <1>3, <2>2
  <2> QED BY <2>1, <2>2
<1>5. ASSUME AlwaysUp', NEW s \in Sessions
      PROVE  /\ Cardinality(Spenders(s)') <= API_MAX
             /\ \A x \in Spenders(s)' : Point(s, x) \in used'
  <2>1. AlwaysUp
    BY <1>5 DEF AlwaysUp
  <2>2. /\ IsFiniteSet(Spenders(s)) /\ Cardinality(Spenders(s)) \in Nat
        /\ Used("api", <<"session", s>>) \in Nat
        /\ Cardinality(Spenders(s)) <= Used("api", <<"session", s>>)
    BY <2>1, SpendersUsePoints
  <2>3. /\ Cardinality(Spenders(s)) <= API_MAX
        /\ \A x \in Spenders(s) : Point(s, x) \in used'
    BY Zenon, <2>1 DEF HttpInv, Point, Sessions
  <2>4. Spenders(s)' \subseteq Spenders(s) \cup {r}
    BY <1>3 DEF Spenders
  <2>5. r \in Spenders(s) <=> Spends(req[r], ghost[r], s)
    BY DEF Spenders
  <2>6. r \in Spenders(s)' <=> Spends(q, g, s)
    BY <1>3 DEF Spenders
  <2>7. API_MAX \in Nat
    BY HttpAssumption
  <2> DEFINE S == Spenders(s)
             N == Spenders(s)'
  <2> HIDE DEF S, N
  <2>8. CASE N \subseteq S
    <3>1. Cardinality(N) <= Cardinality(S) /\ Cardinality(N) \in Nat
      BY <2>2, <2>8, FS_Subset, FS_CardinalityType DEF S
    <3> QED BY <2>2, <2>3, <2>7, <2>8, <3>1 DEF S, N
  <2>9. CASE ~(N \subseteq S)
    <3>1. r \in N /\ r \notin S /\ N \subseteq S \cup {r}
      BY <2>4, <2>9 DEF S, N
    <3>2. Used("api", <<"session", s>>) < API_MAX /\ Point(s, r) \in used'
      BY <2>1, <2>5, <2>6, <3>1 DEF S, N
    <3>3. IsFiniteSet(S \cup {r}) /\ Cardinality(S \cup {r}) = Cardinality(S) + 1
      BY Zenon, <2>2, <3>1, FS_AddElement DEF S
    <3>4. Cardinality(N) <= Cardinality(S \cup {r}) /\ Cardinality(N) \in Nat
      BY <3>1, <3>3, FS_Subset, FS_CardinalityType
    <3>5. Cardinality(N) <= API_MAX
      BY <2>2, <2>7, <3>2, <3>3, <3>4 DEF S
    <3>6. \A x \in N : Point(s, x) \in used'
      BY <2>3, <3>1, <3>2 DEF S
    <3> QED BY <3>5, <3>6 DEF N
  <2> QED BY <2>8, <2>9
<1>6. /\ req' = [x \in InFlightRequests |-> req'[x]] /\ reply' = [x \in InFlightRequests |-> reply'[x]]
      /\ ghost' = [x \in InFlightRequests |-> ghost'[x]]
  BY Zenon, <1>3
<1>7. (AlwaysUp => \A s \in Sessions :
         /\ Cardinality(Spenders(s)) <= API_MAX
         /\ \A x \in Spenders(s) : Point(s, x) \in used)'
  BY <1>5
<1> QED BY Zenon, <1>1, <1>2, <1>4, <1>6, <1>7 DEF HttpInv, Point, Sessions
-----------------------------------------------------------------------------
\* The ways a step names the next place of a request.
LEMMA GoToPlace ==
  ASSUME HttpInv, NEW r \in InFlightRequests, req[r] # Waiting, NEW at, GoTo(r, at)
  PROVE  req' = [req EXCEPT ![r] = Placed(req[r], at, req[r].exc)]
<1>1. DOMAIN req = InFlightRequests
  BY Zenon DEF HttpInv
<1>2. req[r] = [at |-> req[r].at, shape |-> req[r].shape, id |-> req[r].id, exc |-> req[r].exc]
  BY Zenon, Arrived DEF HttpInv
<1> DEFINE q == req[r]
<1> HIDE DEF q
<1>3. PICK a, s, i, x : q = [at |-> a, shape |-> s, id |-> i, exc |-> x]
  BY Zenon, <1>2 DEF q
<1>4. [q EXCEPT !.at = at] = Placed(q, at, q.exc)
  BY <1>3 DEF Placed
<1> QED BY Zenon, <1>1, <1>4 DEF GoTo, q

\* The same for an exception.
LEMMA ThrowPlace ==
  ASSUME HttpInv, NEW r \in InFlightRequests, req[r] # Waiting, NEW e, Throw(r, e)
  PROVE  req' = [req EXCEPT ![r] = Placed(req[r], "filter", e)]
<1>1. DOMAIN req = InFlightRequests
  BY Zenon DEF HttpInv
<1>2. req[r] = [at |-> req[r].at, shape |-> req[r].shape, id |-> req[r].id, exc |-> req[r].exc]
  BY Zenon, Arrived DEF HttpInv
<1> DEFINE q == req[r]
<1> HIDE DEF q
<1>3. PICK a, s, i, x : q = [at |-> a, shape |-> s, id |-> i, exc |-> x]
  BY Zenon, <1>2 DEF q
<1>4. [q EXCEPT !.at = "filter", !.exc = e] = Placed(q, "filter", e)
  <2>1. PICK y : y = [q EXCEPT !.at = "filter", !.exc = e]
    OBVIOUS
  <2>2. DOMAIN y = {"at", "shape", "id", "exc"} /\ y = [k \in DOMAIN y |-> y[k]]
    BY Zenon, <1>3, <2>1
  <2>3. y.at = "filter" /\ y.shape = s /\ y.id = i /\ y.exc = e
    BY <1>3, <2>1
  <2>4. y = [at |-> "filter", shape |-> s, id |-> i, exc |-> e]
    BY <2>2, <2>3
  <2> QED BY Zenon, <1>3, <2>1, <2>4 DEF Placed
<1> QED BY Zenon, <1>1, <1>4 DEF Throw, q

\* The same for a response.
LEMMA RespondPlace ==
  ASSUME HttpInv, NEW r \in InFlightRequests, req[r] # Waiting, NEW e, Respond(r, e)
  PROVE  req' = [req EXCEPT ![r] = Placed(req[r], "send", e)]
<1>1. DOMAIN req = InFlightRequests
  BY Zenon DEF HttpInv
<1>2. req[r] = [at |-> req[r].at, shape |-> req[r].shape, id |-> req[r].id, exc |-> req[r].exc]
  BY Zenon, Arrived DEF HttpInv
<1> DEFINE q == req[r]
<1> HIDE DEF q
<1>3. PICK a, s, i, x : q = [at |-> a, shape |-> s, id |-> i, exc |-> x]
  BY Zenon, <1>2 DEF q
<1>4. [q EXCEPT !.at = "send", !.exc = e] = Placed(q, "send", e)
  <2>1. PICK y : y = [q EXCEPT !.at = "send", !.exc = e]
    OBVIOUS
  <2>2. DOMAIN y = {"at", "shape", "id", "exc"} /\ y = [k \in DOMAIN y |-> y[k]]
    BY Zenon, <1>3, <2>1
  <2>3. y.at = "send" /\ y.shape = s /\ y.id = i /\ y.exc = e
    BY <1>3, <2>1
  <2>4. y = [at |-> "send", shape |-> s, id |-> i, exc |-> e]
    BY <2>2, <2>3
  <2> QED BY Zenon, <1>3, <2>1, <2>4 DEF Placed
<1> QED BY Zenon, <1>1, <1>4 DEF Respond, q

\* The same for what was sent.
LEMMA SentPlace ==
  ASSUME HttpInv, NEW r \in InFlightRequests, req[r] # Waiting, NEW e,
         req' = [req EXCEPT ![r].at = "sent", ![r].exc = e]
  PROVE  req' = [req EXCEPT ![r] = Placed(req[r], "sent", e)]
<1>1. DOMAIN req = InFlightRequests
  BY Zenon DEF HttpInv
<1>2. req[r] = [at |-> req[r].at, shape |-> req[r].shape, id |-> req[r].id, exc |-> req[r].exc]
  BY Zenon, Arrived DEF HttpInv
<1> DEFINE q == req[r]
<1> HIDE DEF q
<1>3. PICK a, s, i, x : q = [at |-> a, shape |-> s, id |-> i, exc |-> x]
  BY Zenon, <1>2 DEF q
<1>4. [q EXCEPT !.at = "sent", !.exc = e] = Placed(q, "sent", e)
  <2>1. PICK y : y = [q EXCEPT !.at = "sent", !.exc = e]
    OBVIOUS
  <2>2. DOMAIN y = {"at", "shape", "id", "exc"} /\ y = [k \in DOMAIN y |-> y[k]]
    BY Zenon, <1>3, <2>1
  <2>3. y.at = "sent" /\ y.shape = s /\ y.id = i /\ y.exc = e
    BY <1>3, <2>1
  <2>4. y = [at |-> "sent", shape |-> s, id |-> i, exc |-> e]
    BY <2>2, <2>3
  <2> QED BY Zenon, <1>3, <2>1, <2>4 DEF Placed
<1> QED BY Zenon, <1>1, <1>4 DEF q

\* A request that moves to a place it fits keeps the invariant.
LEMMA Moves ==
  ASSUME HttpInv, NEW r \in InFlightRequests, Pending(req[r]), NEW at, NEW e, NEW h,
         req' = [req EXCEPT ![r] = Placed(req[r], at, e)], ghost' = [ghost EXCEPT ![r] = h],
         Fits(req[r], at, e, h), UNCHANGED <<reply, redis, outages>>,
         handling' = handling + Weight(at) - Weight(req[r].at),
         used \subseteq used', IsFiniteSet(used'),
         \A s \in Sessions : Spends(Placed(req[r], at, e), h, s) /\ ~Spends(req[r], ghost[r], s) /\ AlwaysUp =>
           Used("api", <<"session", s>>) < API_MAX /\ Point(s, r) \in used'
  PROVE  HttpInv'
<1> DEFINE q == Placed(req[r], at, e)
<1>1. reply = [x \in InFlightRequests |-> reply[x]] /\ RequestOK(req[r], reply[r], ghost[r])
  BY Zenon DEF HttpInv
<1>2. RequestOK(q, reply[r], h)
  BY <1>1, PlacedOK
<1>3. reply' = [reply EXCEPT ![r] = reply[r]]
  BY <1>1
<1>4. q.at = at
  BY PlacedFields
<1> HIDE DEF q
<1>5. \A s \in Sessions : Spends(q, h, s) /\ ~Spends(req[r], ghost[r], s) /\ AlwaysUp =>
        Used("api", <<"session", s>>) < API_MAX /\ Point(s, r) \in used'
  BY DEF q
<1>6. req' = [req EXCEPT ![r] = q] /\ handling' = handling + Weight(q.at) - Weight(req[r].at)
  BY <1>4 DEF q
<1> QED BY Zenon, <1>2, <1>3, <1>5, <1>6, OneRequest

\* A move that spends no point of a session: any but the one past the API's limiter.
Passing(r, at, e, h) ==
  /\ req' = [req EXCEPT ![r] = Placed(req[r], at, e)] /\ ghost' = [ghost EXCEPT ![r] = h]
  /\ Fits(req[r], at, e, h) /\ UNCHANGED <<reply, redis, outages>>
  /\ handling' = handling + Weight(at) - Weight(req[r].at)
  /\ used \subseteq used' /\ IsFiniteSet(used')
  /\ at # "authorise" /\ (at = "handler" => req[r].at = "authorise")
  /\ h.ran => ghost[r].ran \/ req[r].at = "handler" \/ req[r].shape.route # "api"

\* Such a move keeps the invariant.
LEMMA Passes ==
  ASSUME HttpInv, NEW r \in InFlightRequests, Pending(req[r]), NEW at, NEW e, NEW h, Passing(r, at, e, h)
  PROVE  HttpInv'
<1>1. ASSUME NEW s \in Sessions, Spends(Placed(req[r], at, e), h, s)
      PROVE  Spends(req[r], ghost[r], s)
  <2> DEFINE q == Placed(req[r], at, e)
  <2>1. q.at = at /\ q.shape = req[r].shape
    BY PlacedFields
  <2>2. Spends(q, h, s)
    BY <1>1
  <2> HIDE DEF q
  <2> QED BY <2>1, <2>2 DEF Spends, Pending, Passing
<1> QED BY Zenon, <1>1, Moves DEF Passing
-----------------------------------------------------------------------------
\* What the invariant says of a request at a place.
LEMMA AtPlace ==
  ASSUME HttpInv, NEW r \in InFlightRequests, req[r].at \in Places \ {"sent"}
  PROVE  /\ Pending(req[r]) /\ req[r] # Waiting /\ ghost[r] \in Histories /\ handling \in Nat
         /\ req[r].shape \in Shapes /\ req[r].shape.route \in {"api", "auth", "upload", "unknown"}
         /\ ghost[r].ran /\ req[r].shape.route = "api" => Admitted(req[r].shape)
<1>1. req[r] # Waiting
  BY NotWaiting
<1>2. Pending(req[r])
  BY <1>1 DEF Pending
<1>3. RequestOK(req[r], reply[r], ghost[r])
  BY Zenon DEF HttpInv
<1>4. ghost[r] \in Histories /\ req[r].shape \in Shapes
  BY <1>1, <1>3, Arrived
<1>5. ghost[r].ran /\ req[r].shape.route = "api" => Admitted(req[r].shape)
  BY <1>1, <1>3, Arrived
<1>6. handling \in Nat
  <2>1. {x \in InFlightRequests : req[x].at = "handler"} \subseteq InFlightRequests
    OBVIOUS
  <2>2. IsFiniteSet({x \in InFlightRequests : req[x].at = "handler"})
    BY <2>1, HttpAssumption, FS_Subset
  <2> QED BY Zenon, <2>2, FS_CardinalityType DEF HttpInv, GaugeCountsHandlers
<1> QED BY <1>1, <1>2, <1>4, <1>5, <1>6, HttpAssumption

\* A step that writes at most one field of one history changes that history only.
LEMMA HistoryStep ==
  ASSUME HttpInv, NEW r \in InFlightRequests, ghost[r] \in Histories,
         \/ UNCHANGED ghost
         \/ ghost' = [ghost EXCEPT ![r].over = TRUE]
         \/ ghost' = [ghost EXCEPT ![r].broke = TRUE]
         \/ ghost' = [ghost EXCEPT ![r].ran = TRUE]
  PROVE  /\ ghost' = [ghost EXCEPT ![r] = ghost'[r]] /\ ghost'[r] \in Histories
         /\ ghost' = [ghost EXCEPT ![r].over = TRUE] => ghost'[r].over
         /\ ghost' = [ghost EXCEPT ![r].broke = TRUE] => ghost'[r].broke
         /\ ghost' # [ghost EXCEPT ![r].ran = TRUE] => ghost'[r].ran = ghost[r].ran
<1>1. ghost = [x \in InFlightRequests |-> ghost[x]]
  BY Zenon DEF HttpInv
<1>2. CASE UNCHANGED ghost
  BY Zenon, <1>1, <1>2 DEF Histories
<1>3. CASE ghost' = [ghost EXCEPT ![r].over = TRUE]
  BY Zenon, <1>1, <1>3 DEF Histories
<1>4. CASE ghost' = [ghost EXCEPT ![r].broke = TRUE]
  BY Zenon, <1>1, <1>4 DEF Histories
<1>5. CASE ghost' = [ghost EXCEPT ![r].ran = TRUE]
  BY Zenon, <1>1, <1>5 DEF Histories
<1> QED BY <1>2, <1>3, <1>4, <1>5

\* The set of used points only grows, by at most one.
LEMMA UsedGrows ==
  ASSUME HttpInv, NEW r, NEW limiter, NEW key,
         \/ UNCHANGED used
         \/ Count(r, limiter, key)
         \/ used' = Consumed(r, limiter, key)
  PROVE  used \subseteq used' /\ IsFiniteSet(used')
<1>1. IsFiniteSet(used)
  BY Zenon DEF HttpInv
<1>2. IsFiniteSet(Consumed(r, limiter, key)) /\ used \subseteq Consumed(r, limiter, key)
  BY <1>1, FS_AddElement DEF Consumed
<1> QED BY <1>1, <1>2 DEF Count
-----------------------------------------------------------------------------
\* A request that arrives.
LEMMA ReceiveStep ==
  ASSUME HttpInv, NEW r \in InFlightRequests, ReceiveRequest(r)
  PROVE  HttpInv'
<1>1. PICK s \in Shapes :
        req' = [req EXCEPT ![r] = [at |-> "edge", shape |-> s, id |-> resolveRequestId(r, s), exc |-> Unknown]]
  BY Zenon DEF ReceiveRequest
<1>2. PICK q : q = [at |-> "edge", shape |-> s, id |-> resolveRequestId(r, s), exc |-> Unknown]
  BY Zenon
<1>3. /\ q.at = "edge" /\ q.shape = s
      /\ q = [at |-> q.at, shape |-> q.shape, id |-> q.id, exc |-> q.exc]
  BY <1>2
<1>4. /\ req[r] = Waiting /\ Waiting.at = "waiting"
      /\ RequestOK(req[r], reply[r], ghost[r])
      /\ reply = [x \in InFlightRequests |-> reply[x]] /\ ghost = [x \in InFlightRequests |-> ghost[x]]
  BY Zenon DEF ReceiveRequest, HttpInv, Waiting
<1>5. ghost[r] \in Histories /\ ~ghost[r].ran /\ reply[r].status = 0
  BY <1>4 DEF RequestOK, Histories, Waiting, Places
<1>6. RequestOK(q, reply[r], ghost[r])
  BY <1>3, <1>5 DEF RequestOK, Histories, Places
<1>7. reply' = [reply EXCEPT ![r] = reply[r]] /\ ghost' = [ghost EXCEPT ![r] = ghost[r]]
  BY Zenon, <1>4 DEF ReceiveRequest
<1>8. \A t \in Sessions : ~Spends(q, ghost[r], t)
  BY <1>3, <1>5 DEF Spends
<1>9. used \subseteq used' /\ IsFiniteSet(used') /\ UNCHANGED <<redis, outages>>
  BY Zenon DEF ReceiveRequest, HttpInv
<1>10. handling \in Nat
  <2>1. {x \in InFlightRequests : req[x].at = "handler"} \subseteq InFlightRequests
    OBVIOUS
  <2>2. IsFiniteSet({x \in InFlightRequests : req[x].at = "handler"})
    BY <2>1, HttpAssumption, FS_Subset
  <2> QED BY Zenon, <2>2, FS_CardinalityType DEF HttpInv, GaugeCountsHandlers
<1>11. handling' = handling + Weight(q.at) - Weight(req[r].at)
  BY <1>3, <1>4, <1>10 DEF ReceiveRequest, Weight
<1>12. req' = [req EXCEPT ![r] = q]
  BY <1>1, <1>2
<1> QED BY Zenon, <1>6, <1>7, <1>8, <1>9, <1>11, <1>12, OneRequest

\* Where an error in a scope of its own goes.
LEMMA ScopeErrorStep ==
  ASSUME HttpInv, NEW r \in InFlightRequests, req[r].at \in {"edge", "better-auth", "upload"},
         NEW status \in {413, 415, 500}, ScopeError(r, status),
         UNCHANGED <<reply, redis, outages, handling>>, used \subseteq used', IsFiniteSet(used'),
         IF status = 500 THEN ghost' = [ghost EXCEPT ![r].broke = TRUE] ELSE UNCHANGED ghost
  PROVE  HttpInv'
<1>1. req[r].at \in Places \ {"sent"}
  BY DEF Places
<1>2. /\ Pending(req[r]) /\ req[r] # Waiting /\ ghost[r] \in Histories /\ handling \in Nat
      /\ ghost[r].ran /\ req[r].shape.route = "api" => Admitted(req[r].shape)
  BY <1>1, AtPlace
<1>3. PICK h : h = ghost'[r]
  OBVIOUS
<1>4. /\ ghost' = [ghost EXCEPT ![r] = h] /\ h \in Histories /\ (status = 500 => h.broke) /\ h.ran = ghost[r].ran
  <2>1. CASE status = 500
    <3>1. ghost = [x \in InFlightRequests |-> ghost[x]] /\ ghost' = [ghost EXCEPT ![r].broke = TRUE]
      BY ZenonT(30), <2>1 DEF HttpInv
    <3> QED BY Zenon, <1>2, <1>3, <3>1 DEF Histories
  <2>2. CASE status # 500
    <3>1. ghost = [x \in InFlightRequests |-> ghost[x]] /\ ghost' = ghost
      BY Zenon, <2>2 DEF HttpInv
    <3> QED BY <1>2, <1>3, <2>2, <3>1
  <2> QED BY <2>1, <2>2
<1>5. /\ handling' = handling + Weight("filter") - Weight(req[r].at)
      /\ handling' = handling + Weight("send") - Weight(req[r].at)
      /\ UNCHANGED <<reply, redis, outages>>
  BY <1>2 DEF Weight
<1>6. CASE Throw(r, IF status < 500 THEN Http(status) ELSE Unknown)
  <2>1. PICK e : e = IF status < 500 THEN Http(status) ELSE Unknown
    OBVIOUS
  <2>2. req' = [req EXCEPT ![r] = Placed(req[r], "filter", e)]
    <3>1. Throw(r, e)
      BY <1>6, <2>1
    <3> QED BY <1>2, <3>1, ThrowPlace
  <2>3. Caught(e, req[r].id, h)
    <3>1. CASE status = 500
      BY <1>4, <2>1, <3>1 DEF Caught, Throwable
    <3>2. CASE status \in {413, 415}
      BY <2>1, <3>2 DEF Caught
    <3> QED BY <3>1, <3>2
  <2>4. Fits(req[r], "filter", e, h)
    BY <1>2, <1>4, <2>3 DEF Fits, Places
  <2>5. Passing(r, "filter", e, h)
    BY <1>4, <1>5, <2>2, <2>4 DEF Passing
  <2> QED BY <1>2, <2>5, Passes
<1>7. CASE Respond(r, raw(status))
  <2>1. PICK e : e = raw(status)
    OBVIOUS
  <2>2. req' = [req EXCEPT ![r] = Placed(req[r], "send", e)]
    <3>1. Respond(r, e)
      BY <1>7, <2>1
    <3> QED BY <1>2, <3>1, RespondPlace
  <2>3. Uncaught(e, req[r].id, h, req[r].shape.route)
    BY <1>4, <2>1 DEF Uncaught
  <2>4. Fits(req[r], "send", e, h)
    BY <1>2, <1>4, <2>3 DEF Fits, Places
  <2>5. Passing(r, "send", e, h)
    BY <1>4, <1>5, <2>2, <2>4 DEF Passing
  <2> QED BY <1>2, <2>5, Passes
<1> QED BY <1>6, <1>7 DEF ScopeError

\* A request that meets an exception on its way, outside a handler.
LEMMA ThrownStep ==
  ASSUME HttpInv, NEW r \in InFlightRequests, req[r].at \in Places \ {"sent", "handler"}, NEW e, Throw(r, e),
         Caught(e, req[r].id, ghost'[r]), UNCHANGED <<reply, redis, outages>>, UNCHANGED handling,
         used \subseteq used', IsFiniteSet(used'),
         UNCHANGED ghost \/ ghost' = [ghost EXCEPT ![r].over = TRUE] \/ ghost' = [ghost EXCEPT ![r].broke = TRUE]
  PROVE  HttpInv'
<1>1. /\ Pending(req[r]) /\ req[r] # Waiting /\ ghost[r] \in Histories /\ handling \in Nat
      /\ ghost[r].ran /\ req[r].shape.route = "api" => Admitted(req[r].shape)
  BY AtPlace
<1>2. PICK h : h = ghost'[r]
  OBVIOUS
<1>3. ghost' = [ghost EXCEPT ![r] = h] /\ h \in Histories /\ h.ran = ghost[r].ran
  <2>1. ghost = [x \in InFlightRequests |-> ghost[x]]
    BY Zenon DEF HttpInv
  <2> QED BY ZenonT(30), <1>1, <1>2, <2>1 DEF Histories
<1>4. req' = [req EXCEPT ![r] = Placed(req[r], "filter", e)]
  BY <1>1, ThrowPlace
<1>5. Fits(req[r], "filter", e, h)
  BY <1>1, <1>2, <1>3 DEF Fits, Places
<1>6. handling' = handling + Weight("filter") - Weight(req[r].at)
  BY <1>1 DEF Weight
<1>7. Passing(r, "filter", e, h)
  BY <1>3, <1>4, <1>5, <1>6 DEF Passing
<1> QED BY <1>1, <1>7, Passes

\* The edge limiter: the request goes on to its route, or fails there.
LEMMA EdgeStep ==
  ASSUME HttpInv, NEW r \in InFlightRequests, EdgeLimit(r)
  PROVE  HttpInv'
<1>1. req[r].at = "edge" /\ UNCHANGED <<reply, redis, outages>> /\ UNCHANGED handling
  BY DEF EdgeLimit
<1>2. req[r].at \in Places \ {"sent", "handler"}
  BY <1>1 DEF Places
<1>3. used \subseteq used' /\ IsFiniteSet(used')
  <2>1. PICK key : key = <<Shape(r).route, Shape(r).ip>>
    BY Zenon
  <2>2. UNCHANGED used \/ Count(r, "edge", key)
    BY <2>1 DEF EdgeLimit
  <2> QED BY <2>2, UsedGrows
<1>4. /\ Pending(req[r]) /\ req[r] # Waiting /\ ghost[r] \in Histories /\ handling \in Nat
      /\ req[r].shape.route \in {"api", "auth", "upload", "unknown"}
      /\ ghost[r].ran /\ req[r].shape.route = "api" => Admitted(req[r].shape)
      /\ ghost = [x \in InFlightRequests |-> ghost[x]]
  BY Zenon, <1>2, AtPlace DEF HttpInv
<1>5. CASE Throw(r, TooMany(r)) /\ ghost' = [ghost EXCEPT ![r].over = TRUE]
  <2>1. ghost'[r].over
    BY <1>4, <1>5 DEF Histories
  <2>2. Caught(TooMany(r), req[r].id, ghost'[r])
    BY <2>1 DEF Caught, TooMany, ensureRequestIds
  <2> QED BY Zenon, <1>1, <1>2, <1>3, <1>5, <2>2, ThrownStep
<1>6. CASE GoTo(r, Shape(r).route) /\ Shape(r).route # "unknown" /\ UNCHANGED ghost
  <2>1. PICK at : at = Shape(r).route
    OBVIOUS
  <2>2. at \in {"api", "auth", "upload"} /\ req[r].shape.route = at
    BY <1>4, <1>6, <2>1 DEF Shape
  <2>3. GoTo(r, at)
    BY <1>6, <2>1
  <2>4. PICK e : e = req[r].exc
    OBVIOUS
  <2>5. req' = [req EXCEPT ![r] = Placed(req[r], at, e)]
    BY <1>4, <2>3, <2>4, GoToPlace
  <2>6. PICK h : h = ghost[r]
    OBVIOUS
  <2>7. ghost' = [ghost EXCEPT ![r] = h]
    BY <1>4, <1>6, <2>6
  <2>8. Fits(req[r], at, e, h)
    BY <1>4, <2>2, <2>6 DEF Fits, Places
  <2>9. handling' = handling + Weight(at) - Weight(req[r].at)
    BY <1>1, <1>4, <2>2 DEF Weight
  <2>10. Passing(r, at, e, h)
    BY <1>1, <1>3, <2>2, <2>5, <2>6, <2>7, <2>8, <2>9 DEF Passing
  <2> QED BY <1>4, <2>10, Passes
<1>7. CASE ScopeError(r, Shape(r).body) /\ Shape(r).body \in {413, 415} /\ UNCHANGED ghost
  <2>1. PICK status \in {413, 415} : status = Shape(r).body
    BY <1>7
  <2>2. ScopeError(r, status)
    BY <1>7, <2>1
  <2>3. UNCHANGED <<reply, redis, outages, handling>>
    BY <1>1
  <2> QED BY <1>1, <1>3, <1>7, <2>1, <2>2, <2>3, ScopeErrorStep
<1>8. CASE Throw(r, Http(Shape(r).body)) /\ Shape(r).body \in {413, 415} /\ UNCHANGED ghost
  <2>1. Caught(Http(Shape(r).body), req[r].id, ghost'[r])
    BY <1>8 DEF Caught
  <2> QED BY <1>1, <1>2, <1>3, <1>8, <2>1, ThrownStep
<1>9. CASE Throw(r, Http(404)) /\ UNCHANGED ghost
  <2>1. Caught(Http(404), req[r].id, ghost'[r])
    BY DEF Caught
  <2> QED BY <1>1, <1>2, <1>3, <1>9, <2>1, ThrownStep
<1> QED BY <1>5, <1>6, <1>7, <1>8, <1>9 DEF EdgeLimit

\* A request that goes on to a place, outside a handler, with its history as it is.
LEMMA GoneStep ==
  ASSUME HttpInv, NEW r \in InFlightRequests, req[r].at \in Places \ {"sent", "handler"},
         NEW at \in {"throttle", "better-auth", "handler"}, GoTo(r, at),
         at = "throttle" => req[r].at = "api" /\ KnownOrPublic(req[r].shape),
         at = "better-auth" => req[r].at = "auth",
         at = "handler" => req[r].at = "authorise" /\ Admitted(req[r].shape),
         UNCHANGED <<reply, redis, outages>>, UNCHANGED ghost,
         handling' = handling + Weight(at) - Weight(req[r].at),
         used \subseteq used', IsFiniteSet(used')
  PROVE  HttpInv'
<1>1. /\ Pending(req[r]) /\ req[r] # Waiting /\ ghost[r] \in Histories /\ handling \in Nat
      /\ ghost[r].ran /\ req[r].shape.route = "api" => Admitted(req[r].shape)
  BY AtPlace
<1>2. PICK e, h : e = req[r].exc /\ h = ghost[r]
  OBVIOUS
<1>3. ghost' = [ghost EXCEPT ![r] = h]
  BY Zenon, <1>2 DEF HttpInv
<1>4. req' = [req EXCEPT ![r] = Placed(req[r], at, e)]
  BY <1>1, <1>2, GoToPlace
<1>5. /\ req[r].at \in {"api", "throttle", "authorise", "handler"} => req[r].shape.route = "api"
      /\ req[r].at \in {"auth", "better-auth"} => req[r].shape.route = "auth"
  BY Zenon, <1>1, Arrived DEF HttpInv
<1>6. Fits(req[r], at, e, h)
  BY <1>1, <1>2, <1>5 DEF Fits, Places
<1>7. Passing(r, at, e, h)
  BY Zenon, <1>2, <1>3, <1>4, <1>6 DEF Passing
<1> QED BY <1>1, <1>7, Passes

\* The guard that asks for a session.
LEMMA GuardStep ==
  ASSUME HttpInv, NEW r \in InFlightRequests, BetterAuthGuard(r)
  PROVE  HttpInv'
<1>1. /\ req[r].at = "api" /\ UNCHANGED <<reply, redis, outages>> /\ UNCHANGED handling /\ UNCHANGED used
  BY DEF BetterAuthGuard
<1>2. req[r].at \in Places \ {"sent", "handler"}
  BY <1>1 DEF Places
<1>3. used \subseteq used' /\ IsFiniteSet(used') /\ ghost = [x \in InFlightRequests |-> ghost[x]]
  BY Zenon, <1>1 DEF HttpInv
<1>4. ghost[r] \in Histories /\ handling \in Nat
  BY <1>2, AtPlace
<1>5. CASE (Shape(r).to.public \/ ~Anonymous(r)) /\ GoTo(r, "throttle") /\ UNCHANGED ghost
  <2>1. KnownOrPublic(req[r].shape)
    BY Zenon, <1>5 DEF Anonymous, Shape, KnownOrPublic
  <2>2. handling' = handling + Weight("throttle") - Weight(req[r].at)
    BY <1>1, <1>4 DEF Weight
  <2> QED BY <1>1, <1>2, <1>3, <1>5, <2>1, <2>2, GoneStep
<1>6. CASE Throw(r, Http(401)) /\ UNCHANGED ghost
  <2>1. Caught(Http(401), req[r].id, ghost'[r])
    BY DEF Caught
  <2> QED BY <1>1, <1>2, <1>3, <1>6, <2>1, ThrownStep
<1>7. CASE Throw(r, Prisma("P2024")) /\ ghost' = [ghost EXCEPT ![r].broke = TRUE]
  <2>1. ghost'[r].broke
    BY <1>3, <1>4, <1>7 DEF Histories
  <2>2. Caught(Prisma("P2024"), req[r].id, ghost'[r])
    <3>1. Throwable(Prisma("P2024"))
      BY DEF Throwable, Prisma
    <3> QED BY <2>1, <3>1 DEF Caught
  <2> QED BY Zenon, <1>1, <1>2, <1>3, <1>7, <2>2, ThrownStep
<1> QED BY <1>5, <1>6, <1>7 DEF BetterAuthGuard

\* The API's limiter: a request it lets through spends a point of its session.
LEMMA ThrottleStep ==
  ASSUME HttpInv, NEW r \in InFlightRequests, ApiThrottlerGuard(r)
  PROVE  HttpInv'
<1>1. /\ req[r].at = "throttle" /\ UNCHANGED <<reply, redis, outages>> /\ UNCHANGED handling
      /\ Count(r, "api", getTracker(r))
  BY DEF ApiThrottlerGuard
<1>2. req[r].at \in Places \ {"sent", "handler"}
  BY <1>1 DEF Places
<1>3. used \subseteq used' /\ IsFiniteSet(used')
  BY <1>1, UsedGrows
<1>4. /\ Pending(req[r]) /\ req[r] # Waiting /\ ghost[r] \in Histories /\ handling \in Nat
      /\ ghost[r].ran /\ req[r].shape.route = "api" => Admitted(req[r].shape)
      /\ ghost = [x \in InFlightRequests |-> ghost[x]]
  BY Zenon, <1>2, AtPlace DEF HttpInv
<1>5. CASE Throw(r, Http(429)) /\ ghost' = [ghost EXCEPT ![r].over = TRUE]
  <2>1. ghost'[r].over
    BY <1>4, <1>5 DEF Histories
  <2>2. Caught(Http(429), req[r].id, ghost'[r])
    BY <2>1 DEF Caught
  <2> QED BY Zenon, <1>1, <1>2, <1>3, <1>5, <2>2, ThrownStep
<1>6. CASE /\ ~Limited("api", getTracker(r), API_MAX)
           /\ GoTo(r, "authorise") /\ UNCHANGED ghost
  <2>1. PICK e, h : e = req[r].exc /\ h = ghost[r]
    OBVIOUS
  <2>2. ghost' = [ghost EXCEPT ![r] = h]
    BY <1>4, <1>6, <2>1
  <2>3. req' = [req EXCEPT ![r] = Placed(req[r], "authorise", e)]
    BY <1>4, <1>6, <2>1, GoToPlace
  <2>4. req[r].shape.route = "api" /\ KnownOrPublic(req[r].shape)
    BY Zenon, <1>1, <1>4, Arrived DEF HttpInv
  <2>5. Fits(req[r], "authorise", e, h)
    BY <1>4, <2>1, <2>4 DEF Fits, Places
  <2>6. handling' = handling + Weight("authorise") - Weight(req[r].at)
    BY <1>1, <1>4 DEF Weight
  <2>7. ASSUME NEW s \in Sessions, Spends(Placed(req[r], "authorise", e), h, s), AlwaysUp
        PROVE  Used("api", <<"session", s>>) < API_MAX /\ Point(s, r) \in used'
    <3>1. ~req[r].shape.to.public /\ req[r].shape.session = s /\ s # ""
      <4>1. PICK q : q = Placed(req[r], "authorise", e)
        OBVIOUS
      <4>2. q.shape = req[r].shape /\ Spends(q, h, s)
        BY <2>7, <4>1, PlacedFields
      <4> QED BY Zenon, <4>2 DEF Spends, Sessions
    <3>2. getTracker(r) = <<"session", s>>
      BY Zenon, <3>1 DEF getTracker, Anonymous, Shape
    <3>3. redis = "up"
      BY <2>7 DEF AlwaysUp
    <3>4. Used("api", <<"session", s>>) \in Nat
      BY <2>7, SpendersUsePoints
    <3>5. ~(Used("api", <<"session", s>>) >= API_MAX)
      BY <1>6, <3>2, <3>3 DEF Limited
    <3>6. Point(s, r) \in used'
      BY <1>1, <3>2, <3>3 DEF Count, Consumed, Point
    <3> QED BY <3>4, <3>5, <3>6, HttpAssumption
  <2> QED BY Zenon, <1>1, <1>3, <1>4, <2>2, <2>3, <2>5, <2>6, <2>7, Moves
<1> QED BY <1>5, <1>6 DEF ApiThrottlerGuard, OnOutage
-----------------------------------------------------------------------------
\* The role, tenant and address guards refuse with 401 or 403, and a request they
\* all let pass is one its route admits.
LEMMA Refusals ==
  ASSUME NEW r \in InFlightRequests, KnownOrPublic(Shape(r))
  PROVE  /\ FirstRefusal(r) \in {0, 401, 403}
         /\ FirstRefusal(r) = 0 => Admitted(Shape(r))
<1> DEFINE s == Shape(r)
           on == SessionOnRequest(r)
           allowed == isAddressAllowed(Shape(r).ip)
<1> HIDE DEF s, on, allowed
<1>1. /\ RolesRefusal(r) = 0 \/ RolesRefusal(r) = 401 \/ RolesRefusal(r) = 403
      /\ RolesRefusal(r) = 0 => s.to.roles = {} \/ s.role \in s.to.roles
  <2>1. CASE s.to.roles = {}
    BY <2>1 DEF RolesRefusal, s
  <2>2. CASE s.to.roles # {} /\ ~on
    BY <2>2 DEF RolesRefusal, s, on
  <2>3. CASE s.to.roles # {} /\ on /\ s.role \in s.to.roles
    BY <2>3 DEF RolesRefusal, s, on
  <2>4. CASE s.to.roles # {} /\ on /\ s.role \notin s.to.roles
    BY <2>4 DEF RolesRefusal, s, on
  <2> QED BY <2>1, <2>2, <2>3, <2>4
<1>2. TenantRefusal(r) = 0 \/ TenantRefusal(r) = 401 \/ TenantRefusal(r) = 403
  <2>1. CASE s.to.tenant = {} \/ (on /\ s.member # "none")
    BY <2>1 DEF TenantRefusal, s, on
  <2>2. CASE ~(s.to.tenant = {} \/ (on /\ s.member # "none"))
    BY <2>2 DEF TenantRefusal, s, on
  <2> QED BY <2>1, <2>2
<1>3. /\ TenantRolesRefusal(r) = 0 \/ TenantRolesRefusal(r) = 403
      /\ TenantRolesRefusal(r) = 0 => s.to.tenant = {} \/ s.member \in s.to.tenant
  BY DEF TenantRolesRefusal, s
<1>4. /\ MetricsRefusal(r) = 0 \/ MetricsRefusal(r) = 403
      /\ MetricsRefusal(r) = 0 => (s.to.metrics => allowed)
  BY DEF MetricsRefusal, s, allowed
<1>5. CASE RolesRefusal(r) # 0
  BY <1>1, <1>5 DEF FirstRefusal
<1>6. CASE RolesRefusal(r) = 0 /\ TenantRefusal(r) # 0
  BY <1>2, <1>6 DEF FirstRefusal
<1>7. CASE RolesRefusal(r) = 0 /\ TenantRefusal(r) = 0 /\ TenantRolesRefusal(r) # 0
  BY <1>3, <1>7 DEF FirstRefusal
<1>8. CASE RolesRefusal(r) = 0 /\ TenantRefusal(r) = 0 /\ TenantRolesRefusal(r) = 0
  <2>1. FirstRefusal(r) = MetricsRefusal(r)
    BY <1>8 DEF FirstRefusal
  <2>2. MetricsRefusal(r) = 0 => Admitted(Shape(r))
    BY <1>1, <1>3, <1>4, <1>8 DEF Admitted, s, allowed
  <2> QED BY <1>4, <2>1, <2>2
<1> QED BY <1>5, <1>6, <1>7, <1>8

\* The guards in front of a handler.
LEMMA AuthoriseStep ==
  ASSUME HttpInv, NEW r \in InFlightRequests, Authorise(r)
  PROVE  HttpInv'
<1>1. /\ req[r].at = "authorise" /\ UNCHANGED <<reply, redis, outages>> /\ UNCHANGED used /\ UNCHANGED ghost
  BY DEF Authorise
<1>2. req[r].at \in Places \ {"sent", "handler"}
  BY <1>1 DEF Places
<1>3. used \subseteq used' /\ IsFiniteSet(used')
  BY Zenon, <1>1 DEF HttpInv
<1>4. req[r] # Waiting /\ handling \in Nat
  BY <1>2, AtPlace
<1>5. KnownOrPublic(Shape(r))
  BY Zenon, <1>1, <1>4, Arrived DEF HttpInv, Shape
<1>6. CASE FirstRefusal(r) # 0 /\ Throw(r, Http(FirstRefusal(r))) /\ UNCHANGED handling
  <2>1. FirstRefusal(r) \in {401, 403}
    BY <1>5, <1>6, Refusals
  <2>2. Caught(Http(FirstRefusal(r)), req[r].id, ghost'[r])
    BY <2>1 DEF Caught
  <2> QED BY <1>1, <1>2, <1>3, <1>6, <2>2, ThrownStep
<1>7. CASE FirstRefusal(r) = 0 /\ GoTo(r, "handler") /\ handling' = handling + 1
  <2>1. Admitted(req[r].shape)
    BY <1>5, <1>7, Refusals DEF Shape
  <2>2. handling' = handling + Weight("handler") - Weight(req[r].at)
    BY <1>1, <1>4, <1>7 DEF Weight
  <2> QED BY <1>1, <1>2, <1>3, <1>7, <2>1, <2>2, GoneStep
<1> QED BY <1>6, <1>7 DEF Authorise

\* What ends a handler: an answer, an exception, or the timeout.
LEMMA HandlerEnds ==
  ASSUME HttpInv, NEW r \in InFlightRequests, req[r].at = "handler",
         NEW at \in {"filter", "send"}, NEW e, req' = [req EXCEPT ![r] = Placed(req[r], at, e)],
         NEW h \in Histories, ghost' = [ghost EXCEPT ![r] = h],
         at = "filter" => Caught(e, req[r].id, h),
         at = "send" => Uncaught(e, req[r].id, h, req[r].shape.route),
         UNCHANGED <<reply, redis, outages>>, UNCHANGED used, handling' = handling - 1
  PROVE  HttpInv'
<1>1. req[r].at \in Places \ {"sent"}
  BY DEF Places
<1>2. Pending(req[r]) /\ req[r] # Waiting /\ handling \in Nat
  BY <1>1, AtPlace
<1>3. Admitted(req[r].shape)
  BY Zenon, <1>2, Arrived DEF HttpInv
<1>4. Fits(req[r], at, e, h)
  BY <1>3 DEF Fits, Places
<1>5. handling' = handling + Weight(at) - Weight(req[r].at)
  BY <1>2 DEF Weight
<1>6. used \subseteq used' /\ IsFiniteSet(used')
  BY Zenon DEF HttpInv
<1>7. Passing(r, at, e, h)
  BY <1>4, <1>5, <1>6 DEF Passing
<1> QED BY <1>2, <1>7, Passes

\* The validation pipe and the handler.
LEMMA HandleStep ==
  ASSUME HttpInv, NEW r \in InFlightRequests, Handle(r)
  PROVE  HttpInv'
<1>1. /\ req[r].at = "handler" /\ UNCHANGED <<reply, redis, outages>> /\ UNCHANGED used /\ handling' = handling - 1
  BY DEF Handle, Finalized
<1>2. req[r].at \in Places \ {"sent"}
  BY <1>1 DEF Places
<1>3. req[r] # Waiting /\ ghost[r] \in Histories /\ ghost = [x \in InFlightRequests |-> ghost[x]]
  BY Zenon, <1>2, AtPlace DEF HttpInv
<1>4. PICK h : h = ghost'[r]
  OBVIOUS
<1>5. CASE Throw(r, Domain("validation", "validation_failed")) /\ UNCHANGED ghost
  <2>1. PICK e : e = Domain("validation", "validation_failed")
    OBVIOUS
  <2>2. Throw(r, e)
    BY <1>5, <2>1
  <2>3. req' = [req EXCEPT ![r] = Placed(req[r], "filter", e)]
    BY <1>3, <2>2, ThrowPlace
  <2>4. h \in Histories /\ ghost' = [ghost EXCEPT ![r] = h]
    BY <1>3, <1>4, <1>5
  <2>5. Caught(e, req[r].id, h)
    BY <2>1 DEF Caught
  <2> QED BY Zenon, <1>1, <2>3, <2>4, <2>5, HandlerEnds
<1>6. CASE Answered(r) /\ ghost' = [ghost EXCEPT ![r].ran = TRUE]
  <2>1. PICK e : e = raw(200)
    OBVIOUS
  <2>2. Respond(r, e)
    BY <1>6, <2>1 DEF Answered
  <2>3. req' = [req EXCEPT ![r] = Placed(req[r], "send", e)]
    BY <1>3, <2>2, RespondPlace
  <2>4. h \in Histories /\ ghost' = [ghost EXCEPT ![r] = h]
    BY Zenon, <1>3, <1>4, <1>6 DEF Histories
  <2>5. Uncaught(e, req[r].id, h, req[r].shape.route)
    BY <2>1 DEF Uncaught
  <2> QED BY Zenon, <1>1, <2>3, <2>4, <2>5, HandlerEnds
<1>7. ASSUME NEW e \in Failures, Throw(r, e), ghost' = [ghost EXCEPT ![r].ran = TRUE, ![r].broke = TRUE]
      PROVE  HttpInv'
  <2>1. req' = [req EXCEPT ![r] = Placed(req[r], "filter", e)]
    BY <1>3, <1>7, ThrowPlace
  <2>2. h \in Histories /\ ghost' = [ghost EXCEPT ![r] = h] /\ h.broke
    BY Zenon, <1>3, <1>4, <1>7 DEF Histories
  <2>3. Caught(e, req[r].id, h)
    BY <2>2, HttpAssumption DEF Caught
  <2> QED BY Zenon, <1>1, <2>1, <2>2, <2>3, HandlerEnds
<1> QED BY ZenonT(30), <1>5, <1>6, <1>7 DEF Handle

\* The timeout.
LEMMA TimeoutStep ==
  ASSUME HttpInv, NEW r \in InFlightRequests, RequestTimeout(r)
  PROVE  HttpInv'
<1>1. /\ req[r].at = "handler" /\ UNCHANGED <<reply, redis, outages>> /\ UNCHANGED used /\ handling' = handling - 1
      /\ Throw(r, Http(408)) /\ ghost' = [ghost EXCEPT ![r].ran = TRUE]
  BY DEF RequestTimeout, Finalized
<1>2. req[r].at \in Places \ {"sent"}
  BY <1>1 DEF Places
<1>3. req[r] # Waiting /\ ghost[r] \in Histories /\ ghost = [x \in InFlightRequests |-> ghost[x]]
  BY Zenon, <1>2, AtPlace DEF HttpInv
<1>4. PICK e, h : e = Http(408) /\ h = ghost'[r]
  OBVIOUS
<1>5. req' = [req EXCEPT ![r] = Placed(req[r], "filter", e)]
  BY <1>1, <1>3, <1>4, ThrowPlace
<1>6. h \in Histories /\ ghost' = [ghost EXCEPT ![r] = h]
  BY Zenon, <1>1, <1>3, <1>4 DEF Histories
<1>7. Caught(e, req[r].id, h)
  BY <1>4 DEF Caught
<1> QED BY Zenon, <1>1, <1>5, <1>6, <1>7, HandlerEnds
-----------------------------------------------------------------------------
\* A request that gets a response without the filter, outside the API's handlers.
LEMMA RespondedStep ==
  ASSUME HttpInv, NEW r \in InFlightRequests, req[r].at \in {"auth", "better-auth", "upload"},
         NEW e, Respond(r, e), NEW h \in Histories, ghost' = [ghost EXCEPT ![r] = h],
         Uncaught(e, req[r].id, h, req[r].shape.route), UNCHANGED <<reply, redis, outages>>, UNCHANGED handling,
         used \subseteq used', IsFiniteSet(used')
  PROVE  HttpInv'
<1>1. req[r].at \in Places \ {"sent"}
  BY DEF Places
<1>2. Pending(req[r]) /\ req[r] # Waiting /\ handling \in Nat
  BY <1>1, AtPlace
<1>3. req[r].shape.route # "api"
  BY Zenon, <1>2, Arrived DEF HttpInv
<1>4. req' = [req EXCEPT ![r] = Placed(req[r], "send", e)]
  BY <1>2, RespondPlace
<1>5. Fits(req[r], "send", e, h)
  BY <1>3 DEF Fits, Places
<1>6. handling' = handling + Weight("send") - Weight(req[r].at)
  BY SMTT(30), <1>2 DEF Weight
<1>7. Passing(r, "send", e, h)
  BY <1>3, <1>4, <1>5, <1>6 DEF Passing
<1> QED BY <1>2, <1>7, Passes

\* The account limiter of the auth routes.
LEMMA AccountStep ==
  ASSUME HttpInv, NEW r \in InFlightRequests, AccountLimit(r)
  PROVE  HttpInv'
<1>1. req[r].at = "auth" /\ UNCHANGED <<reply, redis, outages>> /\ UNCHANGED handling
  BY Zenon DEF AccountLimit
<1>2. req[r].at \in Places \ {"sent", "handler"}
  BY <1>1 DEF Places
<1>3. used \subseteq used' /\ IsFiniteSet(used')
  <2>1. PICK key : key = <<"email", Shape(r).email>>
    BY Zenon
  <2>2. UNCHANGED used \/ used' = Consumed(r, "account", key)
    BY Zenon, <2>1 DEF AccountLimit
  <2> QED BY <2>2, UsedGrows
<1>4. ghost[r] \in Histories /\ handling \in Nat /\ ghost = [x \in InFlightRequests |-> ghost[x]]
  BY Zenon, <1>2, AtPlace DEF HttpInv
<1>5. CASE Respond(r, TooMany(r)) /\ ghost' = [ghost EXCEPT ![r].over = TRUE]
  <2>1. PICK h : h = ghost'[r]
    OBVIOUS
  <2>2. h \in Histories /\ ghost' = [ghost EXCEPT ![r] = h] /\ h.over
    BY Zenon, <1>4, <1>5, <2>1 DEF Histories
  <2>3. Uncaught(TooMany(r), req[r].id, h, req[r].shape.route)
    BY <2>2 DEF Uncaught, TooMany, ensureRequestIds
  <2> QED BY Zenon, <1>1, <1>3, <1>5, <2>2, <2>3, RespondedStep
<1>6. CASE GoTo(r, "better-auth") /\ UNCHANGED ghost
  <2>1. handling' = handling + Weight("better-auth") - Weight(req[r].at)
    BY <1>1, <1>4 DEF Weight
  <2> QED BY <1>1, <1>2, <1>3, <1>6, <2>1, GoneStep
<1> QED BY Zenon, <1>5, <1>6 DEF AccountLimit

\* Better Auth: its own response, or a failure in its scope.
LEMMA WebStep ==
  ASSUME HttpInv, NEW r \in InFlightRequests, handleWebRequest(r)
  PROVE  HttpInv'
<1>1. /\ req[r].at = "better-auth" /\ UNCHANGED <<reply, redis, outages>> /\ UNCHANGED handling /\ UNCHANGED used
  BY DEF handleWebRequest
<1>2. req[r].at \in Places \ {"sent", "handler"}
  BY <1>1 DEF Places
<1>3. used \subseteq used' /\ IsFiniteSet(used')
  BY Zenon, <1>1 DEF HttpInv
<1>4. req[r] # Waiting /\ ghost[r] \in Histories /\ ghost = [x \in InFlightRequests |-> ghost[x]]
  BY Zenon, <1>2, AtPlace DEF HttpInv
<1>5. req[r].shape.route = "auth"
  BY Zenon, <1>1, <1>4, Arrived DEF HttpInv
<1>6. ASSUME NEW status \in {200, 401}, Respond(r, raw(status)), ghost' = [ghost EXCEPT ![r].ran = TRUE]
      PROVE  HttpInv'
  <2>1. PICK h : h = ghost'[r]
    OBVIOUS
  <2>2. h \in Histories /\ ghost' = [ghost EXCEPT ![r] = h]
    BY Zenon, <1>4, <1>6, <2>1 DEF Histories
  <2>3. Uncaught(raw(status), req[r].id, h, req[r].shape.route)
    BY <1>5, <1>6 DEF Uncaught
  <2> QED BY Zenon, <1>1, <1>3, <1>6, <2>2, <2>3, RespondedStep
<1>7. CASE ScopeError(r, 500) /\ ghost' = [ghost EXCEPT ![r].broke = TRUE]
  <2>1. PICK status \in {413, 415, 500} : status = 500
    OBVIOUS
  <2>2. /\ ScopeError(r, status) /\ UNCHANGED <<reply, redis, outages, handling>>
        /\ IF status = 500 THEN ghost' = [ghost EXCEPT ![r].broke = TRUE] ELSE UNCHANGED ghost
    BY <1>1, <1>7, <2>1
  <2> QED BY <1>1, <1>3, <2>2, ScopeErrorStep
<1>8. CASE Respond(r, raw(500)) /\ ghost' = [ghost EXCEPT ![r].ran = TRUE, ![r].broke = TRUE]
  <2>1. PICK h : h = ghost'[r]
    OBVIOUS
  <2>2. h \in Histories /\ ghost' = [ghost EXCEPT ![r] = h] /\ h.broke
    BY Zenon, <1>4, <1>8, <2>1 DEF Histories
  <2>3. Uncaught(raw(500), req[r].id, h, req[r].shape.route)
    BY <2>2 DEF Uncaught
  <2> QED BY Zenon, <1>1, <1>3, <1>8, <2>2, <2>3, RespondedStep
<1> QED BY ZenonT(30), <1>6, <1>7, <1>8 DEF handleWebRequest

\* The local upload route.
LEMMA UploadStep ==
  ASSUME HttpInv, NEW r \in InFlightRequests, LocalUpload(r)
  PROVE  HttpInv'
<1>1. /\ req[r].at = "upload" /\ UNCHANGED <<reply, redis, outages>> /\ UNCHANGED handling /\ UNCHANGED used
  BY DEF LocalUpload
<1>2. req[r].at \in Places \ {"sent", "handler"}
  BY <1>1 DEF Places
<1>3. used \subseteq used' /\ IsFiniteSet(used')
  BY Zenon, <1>1 DEF HttpInv
<1>4. ghost[r] \in Histories /\ ghost = [x \in InFlightRequests |-> ghost[x]]
  BY Zenon, <1>2, AtPlace DEF HttpInv
<1>5. PICK h : h = ghost[r]
  OBVIOUS
<1>6. UNCHANGED ghost => h \in Histories /\ ghost' = [ghost EXCEPT ![r] = h]
  BY SMTT(30), <1>4, <1>5
<1>7. CASE Respond(r, raw(200)) /\ UNCHANGED ghost
  <2>1. Uncaught(raw(200), req[r].id, h, req[r].shape.route)
    BY DEF Uncaught
  <2> QED BY SMTT(30), <1>1, <1>3, <1>6, <1>7, <2>1, RespondedStep
<1>8. CASE Respond(r, Prebuilt(buildProblemDetails(403, "forbidden", ensureRequestIds(r)))) /\ UNCHANGED ghost
  <2>1. PICK e : e = Prebuilt(buildProblemDetails(403, "forbidden", req[r].id))
    OBVIOUS
  <2>2. Respond(r, e)
    BY <1>8, <2>1 DEF ensureRequestIds
  <2>3. Uncaught(e, req[r].id, h, req[r].shape.route)
    BY <2>1 DEF Uncaught
  <2> QED BY <1>1, <1>3, <1>6, <1>8, <2>2, <2>3, RespondedStep
<1>9. CASE ScopeError(r, 500) /\ ghost' = [ghost EXCEPT ![r].broke = TRUE]
  <2>1. PICK status \in {413, 415, 500} : status = 500
    OBVIOUS
  <2>2. /\ ScopeError(r, status) /\ UNCHANGED <<reply, redis, outages, handling>>
        /\ IF status = 500 THEN ghost' = [ghost EXCEPT ![r].broke = TRUE] ELSE UNCHANGED ghost
    BY <1>1, <1>9, <2>1
  <2> QED BY <1>1, <1>3, <2>2, ScopeErrorStep
<1> QED BY <1>7, <1>8, <1>9 DEF LocalUpload, Answered
-----------------------------------------------------------------------------
\* What a problem document says, but for the header that asks to come back.
SoundDocument(p, id, g) ==
  /\ p.status \in {400, 401, 403, 404, 408, 409, 413, 415, 422, 429, 500, 503}
  /\ p.status \in {401, 408, 413, 415, 429} \/ (p.status = 403 /\ ~g.broke) => p.code = CODE_BY_STATUS(p.status)
  /\ p.status = 503 <=> p.code = "service_unavailable"
  /\ p.status >= 500 => p.code \in {"internal_error", "service_unavailable"}
  /\ p.status = 429 => g.over
  /\ p.status >= 500 => g.broke
  /\ p.id = id

\* No client status has the code of an unavailable service.
LEMMA ClientCodes ==
  ASSUME NEW status \in {400, 401, 403, 404, 408, 409, 413, 415, 422, 429}
  PROVE  CODE_BY_STATUS(status) # "service_unavailable"
<1>1. CASE status \in {400, 401, 403, 404}
  BY <1>1 DEF CODE_BY_STATUS
<1>2. CASE status \in {408, 409, 413}
  BY <1>2 DEF CODE_BY_STATUS
<1>3. CASE status \in {415, 422, 429}
  BY <1>3 DEF CODE_BY_STATUS
<1> QED BY <1>1, <1>2, <1>3

\* A status that says why it was sent.
Accounted(status, g) == (status = 429 => g.over) /\ (status >= 500 => g.broke)

\* The document of an HttpException.
LEMMA HttpDocument ==
  ASSUME NEW status \in {400, 401, 403, 404, 408, 409, 413, 415, 429, 500, 503}, NEW id, NEW g,
         Accounted(status, g)
  PROVE  SoundDocument(toProblem(Http(status), id), id, g)
<1>1. PICK e : e = Http(status)
  OBVIOUS
<1>2. e.class = "http" /\ e.status = status /\ e.code = ""
  BY ZenonT(30), <1>1 DEF Http
<1>3. toProblem(e, id) = fromHttpException(e, id)
  BY ZenonT(30), <1>2 DEF toProblem
<1>4. CASE status < 500
  <2>1. toProblem(e, id) = [status |-> status, code |-> CODE_BY_STATUS(status), id |-> id]
    <3>1. ~(status >= 500)
      BY <1>4
    <3>2. ~(e.status >= 500)
      BY ZenonT(30), <1>2, <3>1
    <3>3. readCode(e) = CODE_BY_STATUS(status)
      BY ZenonT(30), <1>2 DEF readCode
    <3>4. fromHttpException(e, id) = buildProblemDetails(e.status, readCode(e), id)
      BY <3>2 DEF fromHttpException
    <3> QED BY ZenonT(30), <1>2, <1>3, <3>3, <3>4 DEF buildProblemDetails
  <2>2. CODE_BY_STATUS(status) # "service_unavailable"
    BY <1>4, ClientCodes
  <2> QED BY <1>1, <1>4, <2>1, <2>2 DEF SoundDocument, Accounted
<1>5. CASE status \in {500, 503}
  <2>1. toProblem(e, id) = [status |-> status, code |-> IF status = 503 THEN "service_unavailable" ELSE "internal_error",
                            id |-> id]
    <3>1. status >= 500
      BY <1>5
    <3>2. e.status >= 500
      BY ZenonT(30), <1>2, <3>1
    <3>3. fromHttpException(e, id) = genericServerError(status, id)
      BY ZenonT(30), <1>2, <3>2 DEF fromHttpException
    <3> QED BY <1>3, <3>3 DEF genericServerError, buildProblemDetails
  <2> QED BY <1>1, <1>5, <2>1 DEF SoundDocument, Accounted
<1> QED BY <1>4, <1>5

\* The document of an error of the Prisma client.
LEMMA PrismaDocument ==
  ASSUME NEW e, e.class = "prisma", NEW id, NEW g, g.broke
  PROVE  SoundDocument(toProblem(e, id), id, g)
<1>1. PICK m : m = mapPrismaError(e.code)
  OBVIOUS
<1>2. toProblem(e, id) = [status |-> m[1], code |-> m[2], id |-> id]
  BY <1>1 DEF toProblem, buildProblemDetails
<1>3. m \in {<<409, "conflict">>, <<404, "not_found">>, <<400, "malformed_request">>,
             <<503, "service_unavailable">>, <<500, "internal_error">>}
  BY <1>1 DEF mapPrismaError, BY_PRISMA_CODE
<1>4. CASE m = <<409, "conflict">>
  BY <1>2, <1>4 DEF SoundDocument
<1>5. CASE m = <<404, "not_found">>
  BY <1>2, <1>5 DEF SoundDocument
<1>6. CASE m = <<400, "malformed_request">>
  BY <1>2, <1>6 DEF SoundDocument
<1>7. CASE m = <<503, "service_unavailable">>
  BY <1>2, <1>7 DEF SoundDocument
<1>8. CASE m = <<500, "internal_error">>
  BY <1>2, <1>8 DEF SoundDocument
<1> QED BY <1>3, <1>4, <1>5, <1>6, <1>7, <1>8

\* The document of a domain error.
LEMMA DomainDocument ==
  ASSUME NEW e, e.class = "domain", e.kind \in DOMAIN STATUS_BY_KIND, e.code # "service_unavailable",
         NEW id, NEW g, e.kind = "forbidden" => g.broke
  PROVE  SoundDocument(toProblem(e, id), id, g)
<1>1. toProblem(e, id) = [status |-> STATUS_BY_KIND[e.kind], code |-> e.code, id |-> id]
  BY DEF toProblem, buildProblemDetails
<1>2. STATUS_BY_KIND[e.kind] \in {400, 422, 404, 409, 403} /\ (STATUS_BY_KIND[e.kind] = 403 => e.kind = "forbidden")
  BY DEF STATUS_BY_KIND
<1> QED BY <1>1, <1>2 DEF SoundDocument

\* Whatever reaches the filter becomes a sound document.
LEMMA Documents ==
  ASSUME NEW e, NEW id, NEW g, Caught(e, id, g)
  PROVE  SoundDocument(toProblem(e, id), id, g)
<1>1. CASE e = Prebuilt(buildProblemDetails(429, "rate_limited", id)) /\ g.over
  <2>1. toProblem(e, id) = [status |-> 429, code |-> "rate_limited", id |-> id]
    BY <1>1 DEF toProblem, Prebuilt, buildProblemDetails
  <2>2. CODE_BY_STATUS(429) = "rate_limited"
    BY DEF CODE_BY_STATUS
  <2> QED BY <1>1, <2>1, <2>2 DEF SoundDocument
<1>2. CASE \E status \in {401, 403, 404, 408, 413, 415} : e = Http(status)
  BY <1>2, HttpDocument DEF Accounted
<1>3. CASE e = Http(429) /\ g.over
  BY <1>3, HttpDocument DEF Accounted
<1>4. CASE e = Domain("validation", "validation_failed")
  <2>1. /\ e.class = "domain" /\ e.kind = "validation" /\ e.code = "validation_failed"
    BY <1>4 DEF Domain
  <2>2. e.kind \in DOMAIN STATUS_BY_KIND
    BY <2>1 DEF STATUS_BY_KIND
  <2> QED BY <2>1, <2>2, DomainDocument
<1>5. CASE Throwable(e) /\ g.broke
  <2>1. CASE e.class = "domain" /\ e.kind \in DOMAIN STATUS_BY_KIND /\ e.code # "service_unavailable"
    BY <1>5, <2>1, DomainDocument
  <2>2. CASE \E status \in {400, 401, 403, 404, 409, 500, 503} : e = Http(status)
    BY <1>5, <2>2, HttpDocument DEF Accounted
  <2>3. CASE e.class = "prisma"
    BY <1>5, <2>3, PrismaDocument
  <2>4. CASE e = Unknown
    <3>1. toProblem(e, id) = [status |-> 500, code |-> "internal_error", id |-> id]
      BY SMTT(30), <2>4 DEF toProblem, Unknown, genericServerError, buildProblemDetails
    <3> QED BY <1>5, <3>1 DEF SoundDocument
  <2> QED BY <1>5, <2>1, <2>2, <2>3, <2>4 DEF Throwable
<1> QED BY <1>1, <1>2, <1>3, <1>4, <1>5 DEF Caught
-----------------------------------------------------------------------------
\* The answer to a request, as Send writes it.
Answer(status, problem, code, id, retry, header) ==
  [status |-> status, problem |-> problem, code |-> code, id |-> id, retry |-> retry, header |-> header]

\* A request whose coherent answer is sent keeps the invariant.
LEMMA SentStep ==
  ASSUME HttpInv, NEW r \in InFlightRequests, req[r].at \in {"filter", "send"},
         NEW status, NEW problem, NEW code, NEW id, NEW retry, Send(r, status, problem, code, id, retry),
         Coherent(Answer(status, problem, code, id, retry, req[r].id), req[r].shape.route, ghost[r])
  PROVE  HttpInv'
<1>1. req[r].at \in Places \ {"sent"}
  BY Zenon DEF Places
<1>2. /\ req[r] # Waiting /\ ghost[r] \in Histories /\ handling \in Nat /\ req[r].shape \in Shapes
      /\ ghost[r].ran /\ req[r].shape.route = "api" => Admitted(req[r].shape)
  BY ZenonT(30), <1>1, AtPlace
<1>3. PICK q, p, g : /\ q = Placed(req[r], "sent", Unknown) /\ g = ghost[r]
                     /\ p = Answer(status, problem, code, id, retry, req[r].id)
  OBVIOUS
<1>4. req' = [req EXCEPT ![r] = q]
  <2>1. req' = [req EXCEPT ![r].at = "sent", ![r].exc = Unknown]
    BY DEF Send
  <2> QED BY Zenon, <1>2, <1>3, <2>1, SentPlace
<1>5. reply' = [reply EXCEPT ![r] = p]
  BY <1>3 DEF Send, Answer
<1>6. ghost' = [ghost EXCEPT ![r] = g]
  BY Zenon, <1>3 DEF Send, HttpInv
<1>7. /\ q.at = "sent" /\ q.shape = req[r].shape
      /\ q = [at |-> q.at, shape |-> q.shape, id |-> q.id, exc |-> q.exc]
  BY <1>3, PlacedFields
<1>8. RequestOK(q, p, g)
  <2>1. Coherent(p, q.shape.route, g)
    BY <1>3, <1>7
  <2>2. g.ran /\ q.shape.route = "api" => Admitted(q.shape)
    BY <1>2, <1>3, <1>7
  <2>3. g \in Histories /\ q.shape \in Shapes
    BY <1>2, <1>3, <1>7
  <2> QED BY Zenon, <1>7, <2>1, <2>2, <2>3 DEF RequestOK, Histories, Places
<1>9. UNCHANGED <<redis, outages>> /\ used \subseteq used' /\ IsFiniteSet(used')
  BY Zenon DEF Send, HttpInv
<1>10. handling' = handling + Weight(q.at) - Weight(req[r].at)
  BY <1>2, <1>7 DEF Send, Weight
<1>11. \A s \in Sessions : Spends(q, g, s) => Spends(req[r], ghost[r], s)
  BY <1>2, <1>3, <1>7 DEF Spends
<1> QED BY Zenon, <1>4, <1>5, <1>6, <1>8, <1>9, <1>10, <1>11, OneRequest

\* A sound document with the header where it is owed is a coherent answer.
LEMMA SoundIsCoherent ==
  ASSUME NEW p, NEW id, NEW g, SoundDocument(p, id, g), NEW retry, p.status \in {429, 503} => retry, NEW route
  PROVE  Coherent(Answer(p.status, TRUE, p.code, p.id, retry, id), route, g)
<1>1. PICK a : a = Answer(p.status, TRUE, p.code, p.id, retry, id)
  BY Zenon
<1>2. /\ a.status = p.status /\ a.problem = TRUE /\ a.code = p.code /\ a.id = p.id /\ a.retry = retry /\ a.header = id
  BY Zenon, <1>1 DEF Answer
<1>3. Coherent(a, route, g)
  BY <1>2 DEF SoundDocument, Coherent
<1> QED BY Zenon, <1>1, <1>3

\* The exception filter.
LEMMA CatchStep ==
  ASSUME HttpInv, NEW r \in InFlightRequests, Catch(r)
  PROVE  HttpInv'
<1>1. req[r].at = "filter"
  BY DEF Catch
<1>2. req[r] # Waiting
  BY <1>1, AtPlace DEF Places
<1>3. Caught(req[r].exc, req[r].id, ghost[r])
  BY Zenon, <1>1, <1>2, Arrived DEF HttpInv
<1>4. PICK p : p = toProblem(req[r].exc, req[r].id)
  OBVIOUS
<1>5. SoundDocument(p, req[r].id, ghost[r])
  BY <1>3, <1>4, Documents
<1>6. PICK retry : retry = (p.status \in RETRY_AFTER_SECONDS \/ Limiting(req[r].exc))
  OBVIOUS
<1>7. Send(r, p.status, TRUE, p.code, p.id, retry)
  BY Zenon, <1>4, <1>6 DEF Catch, ensureRequestIds
<1>8. p.status \in {429, 503} => retry
  BY Zenon, <1>6 DEF RETRY_AFTER_SECONDS
<1>9. Coherent(Answer(p.status, TRUE, p.code, p.id, retry, req[r].id), req[r].shape.route, ghost[r])
  BY ZenonT(30), <1>5, <1>8, SoundIsCoherent
<1> QED BY Zenon, <1>1, <1>7, <1>9, SentStep

\* The onSend hook.
LEMMA OnSendStep ==
  ASSUME HttpInv, NEW r \in InFlightRequests, OnSend(r)
  PROVE  HttpInv'
<1>1. req[r].at = "send"
  BY Zenon DEF OnSend
<1>2. req[r] # Waiting
  BY <1>1, AtPlace DEF Places
<1> DEFINE e == req[r].exc
<1> HIDE DEF e
<1>3. PICK id, route, g : id = req[r].id /\ route = req[r].shape.route /\ g = ghost[r]
  OBVIOUS
<1>4. Uncaught(e, id, g, route)
  BY ZenonT(30), <1>1, <1>2, <1>3, Arrived DEF HttpInv, e
<1>5. e.class = "raw" => \/ e.status \in {200, 413, 415}
                         \/ e.status = 401 /\ route = "auth"
                         \/ e.status = 500 /\ g.broke
  BY SMTT(30), <1>4 DEF Uncaught, raw, Prebuilt
<1>6. CASE e.class = "problem" /\ Send(r, e.problem.status, TRUE, e.problem.code, e.problem.id, Limiting(e))
  <2>1. \/ e = Prebuilt(buildProblemDetails(429, "rate_limited", id)) /\ g.over
        \/ e = Prebuilt(buildProblemDetails(403, "forbidden", id))
    BY <1>4, <1>6 DEF Uncaught, raw
  <2>2. PICK p, retry : p = e.problem /\ retry = Limiting(e)
    OBVIOUS
  <2>3. SoundDocument(p, id, g) /\ (p.status \in {429, 503} => retry)
    <3>1. CASE e = Prebuilt(buildProblemDetails(429, "rate_limited", id)) /\ g.over
      <4>1. p = [status |-> 429, code |-> "rate_limited", id |-> id]
        BY <2>2, <3>1 DEF Prebuilt, buildProblemDetails
      <4>2. CODE_BY_STATUS(429) = "rate_limited"
        BY DEF CODE_BY_STATUS
      <4>3. SoundDocument(p, id, g)
        BY SMTT(30), <3>1, <4>1, <4>2 DEF SoundDocument
      <4>4. Limiting(e)
        BY <1>6, <2>2, <4>1 DEF Limiting
      <4> QED BY <2>2, <4>3, <4>4
    <3>2. CASE e = Prebuilt(buildProblemDetails(403, "forbidden", id))
      <4>1. p = [status |-> 403, code |-> "forbidden", id |-> id]
        BY <2>2, <3>2 DEF Prebuilt, buildProblemDetails
      <4>2. CODE_BY_STATUS(403) = "forbidden"
        BY DEF CODE_BY_STATUS
      <4> QED BY <4>1, <4>2 DEF SoundDocument
    <3> QED BY Zenon, <2>1, <3>1, <3>2
  <2>4. Coherent(Answer(p.status, TRUE, p.code, p.id, retry, id), route, g)
    BY ZenonT(30), <2>3, SoundIsCoherent
  <2>5. Send(r, p.status, TRUE, p.code, p.id, retry)
    BY Zenon, <1>6, <2>2
  <2> QED BY Zenon, <1>1, <1>3, <2>4, <2>5, SentStep
<1>7. CASE /\ e.class = "raw" /\ (e.status < 400 \/ Passthrough(r, e.status))
           /\ Send(r, e.status, FALSE, "", 0, FALSE)
  <2>1. \/ e.status = 200
        \/ e.status \in {401, 413, 415} /\ route = "auth"
    <3>1. PICK n \in {200, 401, 413, 415, 500} : n = e.status
      <4>1. e.status \in {200, 401, 413, 415, 500}
        BY ZenonT(30), <1>5, <1>7
      <4> QED BY <4>1
    <3>2. n < 400 \/ (route = "auth" /\ n < 500)
      BY ZenonT(30), <1>3, <1>7, <3>1 DEF Passthrough, Shape
    <3>3. n = 200 \/ (n \in {401, 413, 415} /\ route = "auth")
      BY <3>2
    <3> QED BY <3>1, <3>3
  <2>2. PICK a : a = Answer(e.status, FALSE, "", 0, FALSE, id)
    OBVIOUS
  <2>3. a.status = e.status /\ a.problem = FALSE
    BY Zenon, <2>2 DEF Answer
  <2>4. Coherent(a, route, g)
    BY SMTT(30), <2>1, <2>3 DEF Coherent
  <2> QED BY Zenon, <1>1, <1>3, <1>7, <2>2, <2>4, SentStep
<1>8. CASE /\ e.class = "raw" /\ e.status >= 400 /\ ~Passthrough(r, e.status)
           /\ Send(r, e.status, TRUE,
                   IF e.status >= 500 THEN "internal_error" ELSE codeForClientStatus(e.status),
                   ensureRequestIds(r), FALSE)
  <2>1. e.status \in {413, 415} \/ (e.status = 500 /\ g.broke)
    BY <1>3, <1>5, <1>8 DEF Passthrough, Shape
  <2>2. PICK code : code = IF e.status >= 500 THEN "internal_error" ELSE codeForClientStatus(e.status)
    OBVIOUS
  <2>3. PICK p : p = [status |-> e.status, code |-> code, id |-> id]
    BY Zenon
  <2>4. SoundDocument(p, id, g)
    <3>1. CASE e.status \in {413, 415}
      <4>1. code = CODE_BY_STATUS(e.status)
        BY <2>2, <3>1 DEF codeForClientStatus
      <4>2. CODE_BY_STATUS(e.status) # "service_unavailable"
        BY <3>1, ClientCodes
      <4> QED BY <2>3, <3>1, <4>1, <4>2 DEF SoundDocument
    <3>2. CASE e.status = 500 /\ g.broke
      BY <2>2, <2>3, <3>2 DEF SoundDocument
    <3> QED BY <2>1, <3>1, <3>2
  <2>5. p.status \in {429, 503} => FALSE
    BY <2>1, <2>3
  <2>6. Coherent(Answer(p.status, TRUE, p.code, p.id, FALSE, id), route, g)
    BY ZenonT(30), <2>4, <2>5, SoundIsCoherent
  <2>7. Send(r, p.status, TRUE, p.code, p.id, FALSE)
    <3>1. p.status = e.status /\ p.code = code /\ p.id = ensureRequestIds(r)
      BY <1>3, <2>3 DEF ensureRequestIds
    <3>2. Send(r, e.status, TRUE, code, ensureRequestIds(r), FALSE)
      BY Zenon, <1>8, <2>2
    <3> QED BY Zenon, <3>1, <3>2
  <2> QED BY Zenon, <1>1, <1>3, <2>6, <2>7, SentStep
<1>9. \/ e.class = "problem" /\ Send(r, e.problem.status, TRUE, e.problem.code, e.problem.id, Limiting(e))
      \/ /\ e.class = "raw" /\ (e.status < 400 \/ Passthrough(r, e.status))
         /\ Send(r, e.status, FALSE, "", 0, FALSE)
      \/ /\ e.class = "raw" /\ e.status >= 400 /\ ~Passthrough(r, e.status)
         /\ Send(r, e.status, TRUE,
                 IF e.status >= 500 THEN "internal_error" ELSE codeForClientStatus(e.status),
                 ensureRequestIds(r), FALSE)
  BY Zenon DEF OnSend, e
<1> QED BY ZenonT(30), <1>6, <1>7, <1>8, <1>9

\* An outage touches no request; after it nothing is claimed of budgets.
LEMMA RedisStep ==
  ASSUME HttpInv, RedisTurns
  PROVE  HttpInv'
<1>1. UNCHANGED <<req, reply, used, handling, ghost>> /\ outages' = outages + 1 /\ redis' \in {"up", "down"}
  BY DEF RedisTurns
<1>2. outages' \in Nat /\ outages' # 0
  <2>1. outages \in Nat
    BY Zenon DEF HttpInv
  <2> QED BY <1>1, <2>1
<1>3. ~AlwaysUp'
  BY <1>2 DEF AlwaysUp
<1> QED BY ZenonT(30), <1>1, <1>2, <1>3 DEF HttpInv, GaugeCountsHandlers
-----------------------------------------------------------------------------
\* The invariant holds in every state of the pipeline.
THEOREM HttpInvariant == HttpSpec => []HttpInv
<1>1. HttpInit => HttpInv
  <2> SUFFICES ASSUME HttpInit PROVE HttpInv
    OBVIOUS
  <2>1. \A r \in InFlightRequests : req[r] = Waiting /\ reply[r] = NotSent /\ ghost[r] = Quiet
    BY DEF HttpInit
  <2>2. /\ Waiting.at = "waiting" /\ NotSent.status = 0
        /\ Quiet \in Histories /\ Quiet.ran = FALSE
    BY SMTT(30) DEF Waiting, NotSent, Quiet, Histories
  <2>3. \A r \in InFlightRequests : RequestOK(req[r], reply[r], ghost[r])
    BY Zenon, <2>1, <2>2 DEF RequestOK, Histories
  <2>4. {r \in InFlightRequests : req[r].at = "handler"} = {}
    BY <2>1, <2>2
  <2>5. GaugeCountsHandlers
    BY <2>4, FS_EmptySet DEF GaugeCountsHandlers, HttpInit
  <2>6. \A s \in Sessions : Spenders(s) = {}
    BY <2>1 DEF Spenders, Spends
  <2>7. \A s \in Sessions : /\ Cardinality(Spenders(s)) <= API_MAX
                            /\ \A r \in Spenders(s) : Point(s, r) \in used
    BY <2>6, FS_EmptySet, HttpAssumption
  <2>8. redis \in {"up", "down"} /\ outages \in Nat /\ IsFiniteSet(used)
    BY FS_EmptySet DEF HttpInit
  <2>9. /\ req = [r \in InFlightRequests |-> req[r]] /\ reply = [r \in InFlightRequests |-> reply[r]]
        /\ ghost = [r \in InFlightRequests |-> ghost[r]]
    BY DEF HttpInit
  <2> QED BY ZenonT(30), <2>3, <2>5, <2>7, <2>8, <2>9 DEF HttpInv, Sessions, Point
<1>2. HttpInv /\ [HttpNext]_httpVars => HttpInv'
  <2> SUFFICES ASSUME HttpInv, [HttpNext]_httpVars PROVE HttpInv'
    OBVIOUS
  <2>1. CASE RedisTurns
    BY <2>1, RedisStep
  <2>2. ASSUME NEW r \in InFlightRequests, ReceiveRequest(r) \/ RequestStep(r) \/ Handle(r) PROVE HttpInv'
    <3>1. CASE ReceiveRequest(r)
      BY <3>1, ReceiveStep
    <3>2. CASE EdgeLimit(r)
      BY ZenonT(30), <3>2, EdgeStep
    <3>3. CASE BetterAuthGuard(r)
      BY <3>3, GuardStep
    <3>4. CASE ApiThrottlerGuard(r)
      BY <3>4, ThrottleStep
    <3>5. CASE Authorise(r)
      BY <3>5, AuthoriseStep
    <3>6. CASE RequestTimeout(r)
      BY <3>6, TimeoutStep
    <3>7. CASE AccountLimit(r)
      BY <3>7, AccountStep
    <3>8. CASE handleWebRequest(r)
      BY <3>8, WebStep
    <3>9. CASE LocalUpload(r)
      BY <3>9, UploadStep
    <3>10. CASE Catch(r)
      BY <3>10, CatchStep
    <3>11. CASE OnSend(r)
      BY <3>11, OnSendStep
    <3>12. CASE Handle(r)
      BY <3>12, HandleStep
    <3> QED BY ZenonT(30), <2>2, <3>1, <3>2, <3>3, <3>4, <3>5, <3>6, <3>7, <3>8, <3>9, <3>10, <3>11, <3>12 DEF RequestStep
  <2>3. CASE UNCHANGED httpVars
    BY Zenon, <2>3 DEF httpVars, HttpInv, GaugeCountsHandlers, AlwaysUp, Spenders
  <2> QED BY <2>1, <2>2, <2>3 DEF HttpNext
<1> QED BY <1>1, <1>2, PTL DEF HttpSpec

\* Whatever the handlers throw, and wherever a request fails on its way, its
\* caller gets one coherent problem document (app-factory's onSend hook and
\* DomainExceptionFilter agree).
THEOREM AnswersAreCoherent == HttpSpec => []ErrorsAreProblems
<1>1. HttpInv => ErrorsAreProblems
  <2> SUFFICES ASSUME HttpInv, NEW r \in InFlightRequests, req[r].at = "sent"
               PROVE  Coherent(reply[r], req[r].shape.route, ghost[r])
    BY DEF ErrorsAreProblems, Sends, Coherent, Shape
  <2>1. req[r] # Waiting
    BY NotWaiting DEF Places
  <2> QED BY ZenonT(30), <2>1, Arrived DEF HttpInv
<1> QED BY <1>1, HttpInvariant, PTL

\* The in-flight gauge is the number of requests inside a handler.
THEOREM GaugeIsExact == HttpSpec => []GaugeCountsHandlers
<1>1. HttpInv => GaugeCountsHandlers
  BY Zenon DEF HttpInv
<1> QED BY <1>1, HttpInvariant, PTL

\* A handler runs only behind its guards and within its caller's budget, and a
\* request is throttled or fails for a reason only.
THEOREM GuardsHold == HttpSpec => [](HttpTypeOK /\ HandlersAreGuarded)
<1>1. HttpInv => HttpTypeOK
  <2> SUFFICES ASSUME HttpInv PROVE HttpTypeOK
    OBVIOUS
  <2>1. ASSUME NEW r \in InFlightRequests
        PROVE  /\ req[r].at \in Places \cup {"waiting"}
               /\ reply[r].status \in {0, 200, 400, 401, 403, 404, 408, 409, 413, 415, 422, 429, 500, 503}
    <3>1. RequestOK(req[r], reply[r], ghost[r])
      BY Zenon DEF HttpInv
    <3>2. CASE req[r] = Waiting
      <4>1. reply[r].status = 0
        BY <3>1, <3>2 DEF RequestOK, Waiting, Places
      <4>2. Waiting.at = "waiting"
        BY DEF Waiting
      <4> QED BY ZenonT(30), <3>2, <4>1, <4>2
    <3>3. CASE req[r] # Waiting
      <4>1. req[r].at \in Places /\ IF req[r].at = "sent" THEN Coherent(reply[r], req[r].shape.route, ghost[r])
                                    ELSE reply[r].status = 0
        BY <3>1, <3>3, Arrived
      <4> QED BY <4>1 DEF Coherent
    <3> QED BY <3>2, <3>3
  <2>2. handling \in 0..Cardinality(InFlightRequests)
    <3>1. handling = Cardinality(Handling(req)) /\ Handling(req) \subseteq InFlightRequests
      BY Zenon DEF HttpInv, GaugeCountsHandlers, Handling
    <3>2. /\ Cardinality(Handling(req)) <= Cardinality(InFlightRequests)
          /\ Cardinality(Handling(req)) \in Nat /\ Cardinality(InFlightRequests) \in Nat
      BY <3>1, HttpAssumption, FS_Subset, FS_CardinalityType
    <3> QED BY <3>1, <3>2
  <2>3. redis \in {"up", "down"}
    BY Zenon DEF HttpInv
  <2> QED BY <2>1, <2>2, <2>3 DEF HttpTypeOK, Places
<1>2. HttpInv => HandlersAreGuarded
  <2> SUFFICES ASSUME HttpInv PROVE HandlersAreGuarded
    OBVIOUS
  <2>1. ASSUME NEW r \in InFlightRequests
        PROVE  /\ ghost[r].ran => req[r] # Waiting /\ req[r].shape \in Shapes
               /\ req[r] # Waiting => req[r].shape \in Shapes
               /\ ghost[r].ran /\ req[r].shape.route = "api" => Admitted(req[r].shape)
               /\ req[r].at = "sent" => Accounted(reply[r].status, ghost[r])
    <3>1. RequestOK(req[r], reply[r], ghost[r])
      BY Zenon DEF HttpInv
    <3>2. CASE req[r] = Waiting
      <4>1. ~ghost[r].ran /\ req[r].at = "waiting"
        <5>1. req[r].at = "waiting" /\ "waiting" \notin Places
          BY <3>2 DEF Waiting, Places
        <5> QED BY Zenon, <3>1, <5>1 DEF RequestOK
      <4> QED BY <3>2, <4>1
    <3>3. CASE req[r] # Waiting
      <4>1. /\ req[r].shape \in Shapes
            /\ ghost[r].ran /\ req[r].shape.route = "api" => Admitted(req[r].shape)
            /\ req[r].at = "sent" => Coherent(reply[r], req[r].shape.route, ghost[r])
        BY ZenonT(30), <3>1, <3>3, Arrived
      <4>2. req[r].at = "sent" => Accounted(reply[r].status, ghost[r])
        BY <4>1 DEF Coherent, Accounted
      <4> QED BY <3>3, <4>1, <4>2
    <3> QED BY SMTT(30), <3>2, <3>3
  <2>2. ASSUME outages = 0, redis = "up", NEW s \in Sessions
        PROVE  Cardinality(Handled(s)) <= API_MAX
    <3>1. Handled(s) \subseteq Spenders(s)
      BY SMTT(30), <2>1 DEF Handled, Spenders, Spends, Shape
    <3>2. /\ IsFiniteSet(Spenders(s)) /\ Cardinality(Spenders(s)) \in Nat /\ Cardinality(Spenders(s)) <= API_MAX
      BY Zenon, <2>2, SpendersUsePoints DEF AlwaysUp, HttpInv, Sessions
    <3>3. Cardinality(Handled(s)) <= Cardinality(Spenders(s)) /\ Cardinality(Handled(s)) \in Nat
      BY SMTT(30), <3>1, <3>2, FS_Subset, FS_CardinalityType
    <3> QED BY SMTT(30), <3>2, <3>3, HttpAssumption
  <2>3. {Shape(r).session : r \in {q \in InFlightRequests : req[q] # Waiting}} \ {""} \subseteq Sessions
    BY Zenon, <2>1 DEF Sessions, Shape
  <2>4. ASSUME NEW r \in InFlightRequests
        PROVE  /\ ghost[r].ran /\ Shape(r).route = "api" =>
                    /\ Shape(r).to.public \/ ~Anonymous(r)
                    /\ Shape(r).to.roles # {} => Shape(r).role \in Shape(r).to.roles
                    /\ Shape(r).to.tenant # {} => Shape(r).member \in Shape(r).to.tenant
                    /\ Shape(r).to.metrics => isAddressAllowed(Shape(r).ip)
               /\ Sends(r) => /\ reply[r].status = 429 => ghost[r].over
                              /\ reply[r].status >= 500 => ghost[r].broke
    BY Zenon, <2>1 DEF Admitted, KnownOrPublic, Anonymous, Shape, Sends, Accounted
  <2>5. GaugeCountsHandlers
    BY Zenon DEF HttpInv
  <2> QED BY ZenonT(30), <2>2, <2>3, <2>4, <2>5 DEF HandlersAreGuarded
<1> QED BY <1>1, <1>2, HttpInvariant, PTL

-----------------------------------------------------------------------------
(* The catalogue of errors.                                                *)

\* The table of a locale has the text of every code.
LEMMA Translated ==
  ASSUME NEW l \in SUPPORTED_LOCALES
  PROVE  /\ \A c \in ERROR_CODES : OrEnglish(translate(<<"errors", c>>, l)) = l
         /\ \A v \in VALIDATION_CODES : OrEnglish(translate(<<"validation", v>>, l)) = l
<1>1. l # ""
  BY Zenon DEF SUPPORTED_LOCALES
<1>2. /\ \A c \in ERROR_CODES : <<"errors", c>> \in messages[l]
      /\ \A v \in VALIDATION_CODES : <<"validation", v>> \in messages[l]
  BY Zenon DEF messages
<1> QED BY Zenon, <1>1, <1>2 DEF translate, OrEnglish

\* Every constraint of the request DTOs has a code.
LEMMA ConstraintsHaveCodes == \A c \in DtoConstraints : validationCodeFor(c) \in VALIDATION_CODES
<1> SUFFICES ASSUME NEW c \in DtoConstraints
             PROVE  c \in DOMAIN BY_CONSTRAINT /\ BY_CONSTRAINT[c] \in VALIDATION_CODES
  BY Zenon DEF validationCodeFor
<1>1. c \in DOMAIN BY_CONSTRAINT
  BY ZenonT(30) DEF DtoConstraints, BY_CONSTRAINT
<1>2. BY_CONSTRAINT[c] \in VALIDATION_CODES
  BY DEF DtoConstraints, BY_CONSTRAINT, VALIDATION_CODES
<1> QED BY <1>1, <1>2

\* The codes of the statuses are in the table.
LEMMA StatusCodes == \A s : CODE_BY_STATUS(s) \in ERROR_CODES
BY DEF CODE_BY_STATUS, ERROR_CODES, General

\* So are those of the Prisma mapping.
LEMMA PrismaCodes == \A c : mapPrismaError(c)[2] \in ERROR_CODES
BY DEF mapPrismaError, BY_PRISMA_CODE, ERROR_CODES, General

\* And those that the use cases throw.
LEMMA DomainCodes == \A kind \in DOMAIN DomainErrors : DomainErrors[kind] \subseteq ERROR_CODES
BY DEF DomainErrors, ERROR_CODES, General

Worded(e) == e.class \in {"domain", "unknown"} \/ (e.class = "http" /\ e.status # 503)

\* Every failure of the API has a code of the table, and what the filter words of it
\* is in the language of the locale.
LEMMA FailureTold ==
  ASSUME NEW e \in ApiFailures
  PROVE  /\ toProblem(e, 1).code \in ERROR_CODES
         /\ Worded(e) => \A l \in SUPPORTED_LOCALES : detailLanguage(e, l) = l
<1> DEFINE S == {400, 401, 403, 404, 408, 413, 415, 429, 500, 503}
<1>0. e \in DomainFailures \/ e \in {Http(status) : status \in S} \/ e \in PrismaFailures \/ e = Unknown
  BY SMT DEF ApiFailures, HttpFailures
<1>S. \A s \in S : s \in Nat
  BY SMT
<1> HIDE DEF S
<1>1. CASE \E kind \in DOMAIN DomainErrors : \E code \in DomainErrors[kind] : e = Domain(kind, code)
  <2>0. PICK kind \in DOMAIN DomainErrors : \E code \in DomainErrors[kind] : e = Domain(kind, code)
    BY Zenon, <1>1
  <2>1. PICK code \in DomainErrors[kind] : e = Domain(kind, code)
    BY Zenon, <2>0
  <2>2. e.class = "domain" /\ e.code = code /\ code \in ERROR_CODES
    <3>1. code \in ERROR_CODES
      BY Zenon, <2>1, DomainCodes
    <3> QED BY <2>1, <3>1 DEF Domain
  <2>3. toProblem(e, 1).code = code
    BY <2>2 DEF toProblem, buildProblemDetails
  <2>4. \A l : detailLanguage(e, l) = OrEnglish(translate(<<"errors", e.code>>, l))
    BY <2>2 DEF detailLanguage
  <2> QED BY Zenon, <2>2, <2>3, <2>4, Translated
<1>2. CASE \E status \in S : e = Http(status)
  <2>1. PICK status \in S : e = Http(status)
    BY Zenon, <1>2
  <2>2. e.class = "http" /\ e.status = status
    BY Zenon, <2>1 DEF Http
  <2>n. status \in Nat
    BY Zenon, <1>S
  <2>3. readCode(e) = CODE_BY_STATUS(status)
    BY Zenon, <2>1, <2>2 DEF readCode, Http
  <2>4. CASE status < 500
    <3>1. toProblem(e, 1).code = readCode(e)
      BY SMT, <2>n, <2>2, <2>4 DEF toProblem, fromHttpException, buildProblemDetails
    <3>2. \A l : detailLanguage(e, l) = OrEnglish(translate(<<"errors", readCode(e)>>, l))
      BY SMT, <2>n, <2>2, <2>4 DEF detailLanguage
    <3>3. readCode(e) \in ERROR_CODES
      BY Zenon, <2>3, StatusCodes
    <3> QED BY Zenon, <3>1, <3>2, <3>3, Translated
  <2>5. CASE ~(status < 500)
    <3>1. toProblem(e, 1).code = IF status = 503 THEN "service_unavailable" ELSE "internal_error"
      BY SMT, <2>n, <2>2, <2>5 DEF toProblem, fromHttpException, genericServerError, buildProblemDetails
    <3>2. status # 503 => \A l : detailLanguage(e, l) = OrEnglish(translate(<<"errors", "internal_error">>, l))
      BY SMT, <2>n, <2>2, <2>5 DEF detailLanguage
    <3>3. "internal_error" \in ERROR_CODES /\ "service_unavailable" \in ERROR_CODES
      BY SMT DEF ERROR_CODES, General
    <3>4. toProblem(e, 1).code \in ERROR_CODES
      BY SMT, <3>1, <3>3
    <3>5. Worded(e) => status # 503
      BY SMT, <2>2 DEF Worded
    <3> QED BY Zenon, <3>2, <3>3, <3>4, <3>5, Translated
  <2> QED BY <2>4, <2>5
<1>3. CASE \E code : e = Prisma(code)
  <2>1. e.class = "prisma"
    BY <1>3 DEF Prisma
  <2>2. toProblem(e, 1).code = mapPrismaError(e.code)[2]
    BY <2>1 DEF toProblem, buildProblemDetails
  <2>3. ~Worded(e)
    BY <2>1 DEF Worded
  <2> QED BY Zenon, <2>2, <2>3, PrismaCodes
<1>4. CASE e = Unknown
  <2>1. e.class = "unknown"
    BY <1>4 DEF Unknown
  <2>2. toProblem(e, 1).code = "internal_error"
    BY SMT, <2>1 DEF toProblem, genericServerError, buildProblemDetails
  <2>3. \A l : detailLanguage(e, l) = OrEnglish(translate(<<"errors", "internal_error">>, l))
    BY SMT, <2>1 DEF detailLanguage
  <2>4. "internal_error" \in ERROR_CODES
    BY SMT DEF ERROR_CODES, General
  <2> QED BY Zenon, <2>2, <2>3, <2>4, Translated
<1> QED BY Zenon, <1>0, <1>1, <1>2, <1>3, <1>4 DEF DomainFailures, PrismaFailures

\* A reader gets the answer in a language the catalogue has, and the page of its
\* code, for any Accept-Language header.
THEOREM ErrorsAreExplained == ErrorCatalogSpec => []ErrorIsExplained
<1>1. ErrorCatalogInit => ExplainedInv
  <2> SUFFICES ASSUME ErrorCatalogInit PROVE ExplainedInv
    OBVIOUS
  <2>1. told = NotTold /\ docPage = "unopened"
    BY Zenon DEF ErrorCatalogInit
  <2>2. Domain("validation", "validation_failed") \in ApiFailures
    <3>1. "validation" \in DOMAIN DomainErrors /\ "validation_failed" \in DomainErrors["validation"]
      BY DEF DomainErrors
    <3>2. Domain("validation", "validation_failed") \in DomainFailures
      BY SMT, <3>1 DEF DomainFailures
    <3> QED BY Zenon, <3>2 DEF ApiFailures
  <2>3. failing \in FailingRequests
    BY Zenon, <2>2 DEF ErrorCatalogInit, FailingRequests
  <2> QED BY Zenon, <2>1, <2>3 DEF ExplainedInv, ErrorIsExplained
<1>2. ASSUME ExplainedInv, TellFailure PROVE ExplainedInv'
  <2> DEFINE e == failing.exception
             locale == resolve(failing.languages)
             problem == toProblem(e, 1)
  <2>1. e \in ApiFailures /\ failing.fields \subseteq DtoConstraints
    BY Zenon, <1>2 DEF ExplainedInv, FailingRequests
  <2>2. /\ told'.code = problem.code /\ told'.detail = detailLanguage(e, locale)
        /\ told'.fields = {translateFieldError(c, locale) : c \in failing.fields}
        /\ told'.type = typeForCode(problem.code)
    BY Zenon, <1>2 DEF TellFailure
  <2>3. failing' = failing /\ docPage' = docPage /\ told = NotTold
    BY Zenon, <1>2 DEF TellFailure
  <2>4. docPage = "unopened"
    BY Zenon, <1>2, <2>3 DEF ExplainedInv
  <2>5. ASSUME Worded(e), failing.languages # <<>>, failing.languages[1] \in SUPPORTED_LOCALES
        PROVE  {told'.detail} \cup told'.fields = {failing.languages[1]}
    <3>1. locale = failing.languages[1]
      BY Zenon, <2>5 DEF resolve
    <3>2. told'.detail = failing.languages[1]
      BY Zenon, <2>1, <2>2, <2>5, <3>1, FailureTold
    <3>3. \A c \in failing.fields : translateFieldError(c, locale) = failing.languages[1]
      BY Zenon, <2>1, <2>5, <3>1, ConstraintsHaveCodes, Translated DEF translateFieldError
    <3> HIDE DEF locale
    <3> QED BY Zenon, <2>2, <3>2, <3>3
  <2>6. problem.code \in ERROR_CODES
    BY Zenon, <2>1, FailureTold
  <2> QED BY Zenon, <1>2, <2>2, <2>3, <2>4, <2>5, <2>6 DEF ExplainedInv, ErrorIsExplained, Worded, FailingRequests
<1>3. ASSUME ExplainedInv, OpenType PROVE ExplainedInv'
  <2>1. failing' = failing /\ told' = told /\ told # NotTold
    BY Zenon, <1>3 DEF OpenType
  <2>2. docPage' = told.code
    <3>1. told.code \in ERROR_CATALOG /\ told.type = <<"-", told.code>>
      BY Zenon, <1>3, <2>1 DEF ExplainedInv, typeForCode, ERROR_CATALOG
    <3>2. ReadSlug(told.type) = told.code
      BY <3>1 DEF ReadSlug
    <3> QED BY Zenon, <1>3, <3>1, <3>2 DEF OpenType
  <2> QED BY Zenon, <1>3, <2>1, <2>2 DEF ExplainedInv, ErrorIsExplained, FailingRequests
<1>4. ASSUME ExplainedInv, UNCHANGED errorCatalogVars PROVE ExplainedInv'
  <2>1. failing' = failing /\ told' = told /\ docPage' = docPage
    BY Zenon, <1>4 DEF errorCatalogVars
  <2>2. ErrorIsExplained'
    BY Zenon, <1>4, <2>1 DEF ExplainedInv, ErrorIsExplained
  <2> QED BY Zenon, <1>4, <2>1, <2>2 DEF ExplainedInv, FailingRequests
<1>5. ExplainedInv => ErrorIsExplained
  BY Zenon DEF ExplainedInv
<1> QED BY <1>1, <1>2, <1>3, <1>4, <1>5, PTL DEF ErrorCatalogSpec, ErrorCatalogNext
=============================================================================
