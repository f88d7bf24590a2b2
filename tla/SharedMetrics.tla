---------------------------- MODULE SharedMetrics ----------------------------
(***************************************************************************)
(* SharedStateMetricsCollector (src/platform/observability): the gauges    *)
(* of the state that all processes share, read from Redis and PostgreSQL   *)
(* when /metrics is scraped.  Scrapes that overlap share one collection,   *)
(* its result is kept for cacheTtlSeconds, and a source that fails or      *)
(* outruns its timeout is left out.                                        *)
(***************************************************************************)
EXTENDS Naturals

CONSTANTS Sources,              \* the queue's and the outbox's
          Scrapes,              \* requests for /metrics
          SCRAPE_TTL, TIMEOUT,  \* cacheTtlSeconds and sharedStateTimeoutMs
          MaxClock              \* bound on the clock

ASSUME SharedMetricsAssumption ==
  /\ SCRAPE_TTL \in Nat /\ TIMEOUT \in Nat /\ MaxClock \in Nat \ {0} /\ 0 \notin Scrapes

VARIABLES clock,
          registered,    \* the sources that have registered
          freshUntil,
          inFlight,      \* the collection scrapes wait for: 0 is none
          collection,    \* the running ones: id -> [began, sources, got]
          gauge,         \* when the value a source's gauges show was read; 0 is no gauge
          scrape         \* the requests: [at, of]

sharedMetricsVars == <<clock, registered, freshUntil, inFlight, collection, gauge, scrape>>

\* The clock starts at 1.
SharedMetricsInit ==
  /\ clock = 1 /\ registered = {} /\ freshUntil = 0
  /\ inFlight = 0 /\ collection = [i \in Scrapes |-> [began |-> 0, sources |-> {}, got |-> <<>>]]
  /\ gauge = [s \in Sources |-> 0]
  /\ scrape = [r \in Scrapes |-> [at |-> "idle", of |-> 0]]

Running == {i \in Scrapes : collection[i].began > 0}

\* A source answers or is given up before TIMEOUT has passed, and the event
\* loop goes on with the collection as soon as the last one has.
ClockTicks ==
  /\ clock < MaxClock
  /\ \A i \in Running : collection[i].sources # {} /\ clock < collection[i].began + TIMEOUT
  /\ clock' = clock + 1
  /\ UNCHANGED <<registered, freshUntil, inFlight, collection, gauge, scrape>>

\* onApplicationBootstrap of a source; the process serves nothing yet.
register(s) ==
  /\ s \notin registered /\ \A r \in Scrapes : scrape[r].at = "idle"
  /\ registered' = registered \cup {s}
  /\ freshUntil' = 0
  /\ UNCHANGED <<clock, inFlight, collection, gauge, scrape>>
-----------------------------------------------------------------------------

\* refresh, up to its first await: a scrape starts the collection it waits
\* for, under its own name, or joins the one that is running.
Joins(r) == IF inFlight = 0 THEN r ELSE inFlight

refresh(r) ==
  /\ scrape[r].at = "idle"
  /\ IF clock < freshUntil
       THEN /\ scrape' = [scrape EXCEPT ![r] = [at |-> "served", of |-> 0]]
            /\ UNCHANGED <<inFlight, collection>>
       ELSE /\ scrape' = [scrape EXCEPT ![r] = [at |-> "waits", of |-> Joins(r)]]
            /\ inFlight' = Joins(r)
            /\ collection' = IF Joins(r) # r THEN collection
                             ELSE [collection EXCEPT ![r] = [began |-> clock, got |-> <<>>,
                                                             sources |-> registered]]
  /\ UNCHANGED <<clock, registered, freshUntil, gauge>>

\* A source reads its state; or it throws, or TIMEOUT cuts it off, and its
\* gauges are left out.
collectOne(i, s) ==
  /\ i \in Running /\ s \in collection[i].sources
  /\ \/ collection' = [collection EXCEPT ![i].sources = @ \ {s},
                                         ![i].got = [x \in DOMAIN @ \cup {s} |->
                                                       IF x = s THEN clock ELSE @[x]]]
     \/ collection' = [collection EXCEPT ![i].sources = @ \ {s}]
  /\ UNCHANGED <<clock, registered, freshUntil, inFlight, gauge, scrape>>

AppliedOver(i, dropped) ==
  [s \in Sources |-> IF s \in DOMAIN collection[i].got \ dropped THEN collection[i].got[s] ELSE gauge[s]]

\* The gauges are reset and set from the readings, in one step of the event
\* loop; a reading that is not a number is dropped.  Setting one may throw.
Applied(i, dropped) ==
  [s \in Sources |-> IF s \in DOMAIN collection[i].got \ dropped THEN collection[i].got[s] ELSE 0]

Released == 0

collectAndApply(i) ==
  /\ i \in Running /\ collection[i].sources = {}
  /\ \/ /\ \E dropped \in SUBSET DOMAIN collection[i].got : gauge' = Applied(i, dropped)
        /\ freshUntil' = clock + SCRAPE_TTL
     \/ gauge' = [s \in Sources |-> 0] /\ UNCHANGED freshUntil
  /\ inFlight' = Released
  /\ collection' = [collection EXCEPT ![i] = [began |-> 0, sources |-> {}, got |-> <<>>]]
  /\ scrape' = [r \in Scrapes |-> IF scrape[r].at = "waits" /\ scrape[r].of = i
                                    THEN [at |-> "served", of |-> 0] ELSE scrape[r]]
  /\ UNCHANGED <<clock, registered>>

\* MetricsController.scrape answers with the gauges as they are.
Scraped(r) ==
  /\ scrape[r].at = "served"
  /\ scrape' = [scrape EXCEPT ![r] = [at |-> "idle", of |-> 0]]
  /\ UNCHANGED <<clock, registered, freshUntil, inFlight, collection, gauge>>
-----------------------------------------------------------------------------
CollectionSteps == \E i \in Scrapes : collectAndApply(i) \/ \E s \in Sources : collectOne(i, s)

SharedMetricsNext ==
  \/ ClockTicks \/ CollectionSteps
  \/ \E s \in Sources : register(s)
  \/ \E r \in Scrapes : refresh(r) \/ Scraped(r)

SharedMetricsSpec == SharedMetricsInit /\ [][SharedMetricsNext]_sharedMetricsVars

SharedMetricsProgress == CollectionSteps
-----------------------------------------------------------------------------
SharedMetricsTypeOK ==
  /\ clock \in 1..MaxClock /\ registered \subseteq Sources
  /\ freshUntil \in 0..(MaxClock + SCRAPE_TTL) /\ inFlight \in {0} \cup Scrapes
  /\ gauge \in [Sources -> 0..MaxClock]
  /\ \A r \in Scrapes : scrape[r].at \in {"idle", "waits", "served"}

\* Scrapes that overlap never start a second collection, and the one they wait
\* for is the one that is running.  While a collection is kept, what the gauges
\* show was read at most a timeout before it ended: nothing of an earlier one is
\* left.
GaugesAreRecent ==
  /\ Running = (IF inFlight = 0 THEN {} ELSE {inFlight})
  /\ clock < freshUntil =>
       \A s \in Sources : gauge[s] # 0 => gauge[s] + TIMEOUT + SCRAPE_TTL >= freshUntil

\* The inductive invariant behind GaugesAreRecent: the collection that runs is the
\* one scrapes join, and it is not older than its timeout, nor are its readings.
MetricsInv ==
  /\ SharedMetricsTypeOK
  /\ Running = (IF inFlight = 0 THEN {} ELSE {inFlight})
  /\ inFlight # 0 => scrape[inFlight].at = "waits"
  /\ DOMAIN scrape = Scrapes /\ DOMAIN collection = Scrapes
  /\ \A i \in Scrapes :
       /\ DOMAIN collection[i] = {"began", "sources", "got"}
       /\ collection[i].began \in 0..clock /\ collection[i].sources \subseteq Sources
       /\ i \in Running =>
            /\ clock <= collection[i].began + TIMEOUT
            /\ \A s \in DOMAIN collection[i].got :
                 collection[i].got[s] \in collection[i].began..clock
  /\ clock < freshUntil =>
       \A s \in Sources : gauge[s] # 0 => gauge[s] + TIMEOUT + SCRAPE_TTL >= freshUntil

\* A scrape that waits is served, whether the collection succeeds or throws.
ScrapesAreServed == \A r \in Scrapes : scrape[r].at = "waits" ~> scrape[r].at # "waits"
=============================================================================
