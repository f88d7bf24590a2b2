---------------------------- MODULE Entitlements ----------------------------
(***************************************************************************)
(* DefaultEntitlementService (src/modules/billing): what a tenant's plan   *)
(* grants, through a cache of one process.  Calls overlap: each reads the  *)
(* clock and the cache, waits for its query, and stores what it got, so a  *)
(* slow call stores an old answer over a newer one.                        *)
(***************************************************************************)
EXTENDS Naturals, Sequences

CONSTANTS Tenants, Calls,
          CACHE_TTL, MAX_CACHED_TENANTS,
          MaxTime, MaxPlans          \* bounds on the clock and on plan changes

ASSUME EntitlementsAssumption ==
  CACHE_TTL \in Nat /\ MAX_CACHED_TENANTS \in Nat \ {0} /\ MaxTime \in Nat /\ MaxPlans \in Nat

VARIABLES time,
          plan,      \* the number of the tenant's current plan; 0 is none
          until,     \* when each of the tenant's plans stopped being current
          cache,     \* the Map, in insertion order: [tenant, value, freshUntil]
          call       \* the calls: [at, tenant, started, value, cached]

entitlementsVars == <<time, plan, until, cache, call>>

NoCall == [at |-> "idle", tenant |-> 0, started |-> 0, value |-> 0, cached |-> FALSE]

EntitlementsInit ==
  /\ time = 0
  /\ plan = [t \in Tenants |-> 0]
  /\ until = [t \in Tenants |-> [v \in 0..MaxPlans |-> 0]]
  /\ cache = <<>>
  /\ call = [c \in Calls |-> NoCall]

TimePasses ==
  /\ time < MaxTime
  /\ time' = time + 1
  /\ UNCHANGED <<plan, until, cache, call>>

\* A webhook has changed the subscription (or a plan has been withdrawn).
PlanChanges(t) ==
  /\ plan[t] < MaxPlans
  /\ plan' = [plan EXCEPT ![t] = @ + 1]
  /\ until' = [until EXCEPT ![t][plan[t]] = time]
  /\ UNCHANGED <<time, cache, call>>
-----------------------------------------------------------------------------
\* Map.get: the entry of a tenant, if there is one.
EntriesOf(t) == {e \in {cache[i] : i \in DOMAIN cache} : e.tenant = t}
Entry(t) == CHOOSE e \in EntriesOf(t) : TRUE

Fresh(t) == EntriesOf(t) # {} /\ Entry(t).freshUntil > time

getFor(c, t) ==
  /\ call[c].at = "idle"
  /\ call' = [call EXCEPT ![c] =
       IF Fresh(t)
         THEN [at |-> "done", tenant |-> t, started |-> time,
               value |-> Entry(t).value, cached |-> TRUE]
         ELSE [at |-> "query", tenant |-> t, started |-> time, value |-> 0, cached |-> FALSE]]
  /\ UNCHANGED <<time, plan, until, cache>>

\* The database answers for the plan that is current now.
findCurrentSubscription(c) ==
  /\ call[c].at = "query"
  /\ \/ call' = [call EXCEPT ![c].at = "resume", ![c].value = plan[call[c].tenant]]
     \/ call' = [call EXCEPT ![c] = NoCall]          \* the query fails, and the call with it
  /\ UNCHANGED <<time, plan, until, cache>>

ShortenedLate == IF Len(cache) > MAX_CACHED_TENANTS THEN Tail(cache) ELSE cache

Shortened == IF Len(cache) >= MAX_CACHED_TENANTS THEN Tail(cache) ELSE cache

\* Map.set: in place when the tenant is there, at the end when it is not.
remember(entry) ==
  LET kept == Shortened
  IN IF \E i \in DOMAIN kept : kept[i].tenant = entry.tenant
       THEN [i \in DOMAIN kept |-> IF kept[i].tenant = entry.tenant THEN entry ELSE kept[i]]
       ELSE Append(kept, entry)

ExpiryFromAnswer(c) == time + CACHE_TTL

ExpiryOf(c) == call[c].started + CACHE_TTL

Resume(c) ==
  /\ call[c].at = "resume"
  /\ cache' = remember([tenant |-> call[c].tenant, value |-> call[c].value,
                        freshUntil |-> ExpiryOf(c)])
  /\ call' = [call EXCEPT ![c].at = "done"]
  /\ UNCHANGED <<time, plan, until>>

\* hasFeature, limitFor and the endpoint read the value; the call is over.
CallReturns(c) ==
  /\ call[c].at = "done"
  /\ call' = [call EXCEPT ![c] = NoCall]
  /\ UNCHANGED <<time, plan, until, cache>>

EntitlementsNext ==
  \/ TimePasses
  \/ \E t \in Tenants : PlanChanges(t)
  \/ \E c \in Calls :
       \/ \E t \in Tenants : getFor(c, t)
       \/ findCurrentSubscription(c) \/ Resume(c) \/ CallReturns(c)

EntitlementsSpec == EntitlementsInit /\ [][EntitlementsNext]_entitlementsVars
-----------------------------------------------------------------------------
EntitlementsTypeOK ==
  /\ time \in 0..MaxTime
  /\ plan \in [Tenants -> 0..MaxPlans]
  /\ until \in [Tenants -> [0..MaxPlans -> 0..MaxTime]]
  /\ \A i \in DOMAIN cache : cache[i].tenant \in Tenants /\ cache[i].value \in 0..MaxPlans
  /\ \A c \in Calls : call[c].at \in {"idle", "query", "resume", "done"}

\* The cache holds at most MAX_CACHED_TENANTS tenants, each of them once,
\* whichever calls overlap at the limit.
CacheBounded ==
  /\ Len(cache) <= MAX_CACHED_TENANTS
  /\ \A i, j \in DOMAIN cache : cache[i].tenant = cache[j].tenant => i = j

\* An answer from the cache was right less than CACHE_TTL ago, also when a slow
\* call has stored an answer older than the one it replaced: the time to live
\* runs from before the query ("a short per-process window ... without making
\* a plan change wait noticeably").
StaleForTTL ==
  \A c \in Calls :
    LET t == call[c].tenant v == call[c].value
    IN call[c].at = "done" /\ call[c].cached
         => plan[t] = v \/ until[t][v] + CACHE_TTL > call[c].started
=============================================================================
