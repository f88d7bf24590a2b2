---------------------------- MODULE BillingProofs ----------------------------
(***************************************************************************)
(* Proofs about what a process reports of itself, and about the billing    *)
(* module.                                                                 *)
(*                                                                         *)
(* Observability: a probe answers ready only for dependencies that were up *)
(* while it asked, and a gauge is no older than its cache and its timeout. *)
(*                                                                         *)
(* Entitlements: for every number of tenants and of calls that overlap,    *)
(* every limit of the cache and every time to live, the cache stays within *)
(* its limit, and what it answers was right less than the time to live ago.*)
(*                                                                         *)
(* WebhookInbox: for every number of deliveries, attempts and faults, an   *)
(* event is applied once, and once more for each fault at most; one that   *)
(* is recorded as processed was applied, and stays processed.              *)
(***************************************************************************)
EXTENDS WebhookInbox, Entitlements, Observability, FiniteSetTheorems, TLAPS

-----------------------------------------------------------------------------
(* Readiness.                                                              *)

\* What a role checks.
LEMMA ChecksAreDependencies ==
  /\ DOMAIN ReadinessChecks = {"api", "worker", "scheduler"}
  /\ \A role \in DOMAIN ReadinessChecks : ReadinessChecks[role] \subseteq Dependencies
BY DEF ReadinessChecks, Dependencies

\* The dependencies turn: what was seen up stays seen.
LEMMA DependencyStep ==
  ASSUME ReadinessInv, DependencyTurns
  PROVE  ReadinessInv'
<1> DEFINE Now == {d \in Dependencies : dependency'[d] = "up"}
<1>1. /\ turns \in Nat /\ turns' = turns + 1 /\ turns' \in 0..MaxTurns /\ probe' = probe
      /\ seenUp' = [p \in Probes |-> IF probe[p].answer = 0 THEN seenUp[p] \cup Now ELSE seenUp[p]]
  BY ReadinessAssumption DEF ReadinessInv, DependencyTurns
<1>2. dependency' \in [Dependencies -> {"up", "down", "hung"}]
  BY DEF ReadinessInv, DependencyTurns
<1>3. seenUp' \in [Probes -> SUBSET Dependencies]
  BY <1>1 DEF ReadinessInv
<1>4. ASSUME NEW p \in Probes PROVE Explained(probe[p], seenUp'[p], Up', turns')
  <2>1. /\ Explained(probe[p], seenUp[p], Up, turns) /\ seenUp[p] \subseteq seenUp'[p]
        /\ probe[p].answer = 0 => Up' \subseteq seenUp'[p]
    BY <1>1 DEF ReadinessInv, Up
  <2> QED BY <1>1, <2>1 DEF Explained
<1>5. turns' # 0 /\ \A p \in Probes : probe'[p] = probe[p]
  BY <1>1
<1> QED BY Zenon, <1>1, <1>2, <1>3, <1>4, <1>5 DEF ReadinessInv

\* A step of one probe leaves the others as they are.
LEMMA OneProbe ==
  ASSUME ReadinessInv, NEW p \in Probes, NEW t \in Probing, NEW u \in SUBSET Dependencies,
         dependency' = dependency, turns' = turns,
         probe' = [probe EXCEPT ![p] = t], seenUp' = [seenUp EXCEPT ![p] = u],
         Explained(t, u, Up, turns)
  PROVE  ReadinessInv'
<1>1. Up' = Up
  BY DEF Up
<1>2. /\ probe' \in [Probes -> Probing] /\ seenUp' \in [Probes -> SUBSET Dependencies]
      /\ \A x \in Probes : /\ probe'[x] = IF x = p THEN t ELSE probe[x]
                           /\ seenUp'[x] = IF x = p THEN u ELSE seenUp[x]
  BY DEF ReadinessInv
<1>3. \A x \in Probes : Explained(probe'[x], seenUp'[x], Up, turns)
  BY <1>2 DEF ReadinessInv
<1> QED BY <1>1, <1>2, <1>3 DEF ReadinessInv

\* A probe begins.
LEMMA ReadyStep ==
  ASSUME ReadinessInv, NEW p \in Probes, ready(p)
  PROVE  ReadinessInv'
<1>1. PICK role \in DOMAIN ReadinessChecks :
        probe' = [probe EXCEPT ![p] = [NoProbe EXCEPT !.role = role, !.left = ReadinessChecks[role]]]
  BY Zenon DEF ready
<1> DEFINE t == [NoProbe EXCEPT !.role = role, !.left = ReadinessChecks[role]]
<1>2. role # "none" /\ ReadinessChecks[role] \subseteq Dependencies
  BY ChecksAreDependencies
<1>3. /\ t \in Probing
      /\ t.role = role /\ t.left = ReadinessChecks[role] /\ t.results = {} /\ t.answer = 0
  BY Zenon, <1>2 DEF NoProbe, Probing
<1>4. /\ seenUp' = [seenUp EXCEPT ![p] = Up] /\ Up \in SUBSET Dependencies
      /\ dependency' = dependency /\ turns' = turns
  BY DEF ready, Up
<1> HIDE DEF t
<1>5. Explained(t, Up, Up, turns)
  BY <1>2, <1>3 DEF Explained
<1> QED BY Zenon, <1>1, <1>3, <1>4, <1>5, OneProbe DEF t

\* An indicator answers, or the check ends.
LEMMA ProbeSteps ==
  ASSUME ReadinessInv, NEW p \in Probes, ProbeStep(p)
  PROVE  ReadinessInv'
<1>1. dependency' = dependency /\ turns' = turns /\ seenUp' = seenUp
  BY Zenon DEF ProbeStep, CheckEnds, indicator, Reported
<1>2. /\ probe[p] \in Probing /\ Explained(probe[p], seenUp[p], Up, turns) /\ turns \in Nat
      /\ seenUp' = [seenUp EXCEPT ![p] = seenUp[p]] /\ seenUp[p] \in SUBSET Dependencies
      /\ turns = 0 => Up = Dependencies
  BY <1>1, ReadinessAssumption DEF ReadinessInv
<1>3. ASSUME NEW d \in Dependencies, indicator(p, d) PROVE ReadinessInv'
  <2> DEFINE s == IF dependency[d] = "up" THEN "up" ELSE "down"
             t == [probe[p] EXCEPT !.left = @ \ {d}, !.results = @ \cup {<<d, s>>}]
  <2>1. probe' = [probe EXCEPT ![p] = t] /\ d \in probe[p].left
    BY Zenon, <1>3 DEF indicator, Reported
  <2>2. s \in {"up", "down"} /\ (s = "up" => d \in Up) /\ (s = "down" => turns > 0)
    BY <1>2 DEF Up
  <2> HIDE DEF s
  <2>3. /\ t \in Probing /\ t.role = probe[p].role /\ t.left = probe[p].left \ {d}
        /\ t.results = probe[p].results \cup {<<d, s>>} /\ t.answer = probe[p].answer
    <3>1. probe[p].results \cup {<<d, s>>} \in SUBSET (Dependencies \X {"up", "down"})
      BY <1>2, <2>2 DEF Probing
    <3>2. probe[p].left \ {d} \in SUBSET Dependencies
      BY <1>2 DEF Probing
    <3> DEFINE P == SUBSET (Dependencies \X {"up", "down"})
               R == probe[p].results \cup {<<d, s>>}
               L == probe[p].left \ {d}
               A == {"none"} \cup DOMAIN ReadinessChecks
               D == SUBSET Dependencies
               Q == [role : A, left : D, results : P, answer : {0, 200, 503}]
    <3>3. Probing = Q /\ probe[p] \in Q
      BY <1>2, Zenon DEF Probing
    <3>4. R \in P /\ L \in D /\ t = [probe[p] EXCEPT !.left = L, !.results = R]
      BY <3>1, <3>2
    <3> HIDE DEF P, R, L, A, D, t
    <3>5. t \in Q /\ t.role = probe[p].role /\ t.left = L /\ t.results = R /\ t.answer = probe[p].answer
      BY ZenonT(30), <3>3, <3>4
    <3> QED BY <3>3, <3>5 DEF R, L
  <2> HIDE DEF t
  <2>4. /\ probe[p].role # "none" /\ probe[p].answer = 0
        /\ d \in ReadinessChecks[probe[p].role] /\ Up \subseteq seenUp[p]
    BY Zenon, <1>2, <2>1 DEF Explained
  <2>5. /\ \A x \in Dependencies, r \in {"up", "down"} :
              <<x, r>> \in t.results <=> <<x, r>> \in probe[p].results \/ (x = d /\ r = s)
        /\ \A x \in Dependencies : x \in t.left <=> x \in probe[p].left /\ x # d
    BY <2>3
  <2>6. Explained(t, seenUp[p], Up, turns)
    BY <1>2, <2>2, <2>3, <2>4, <2>5 DEF Explained
  <2> QED BY Zenon, <1>1, <1>2, <2>1, <2>3, <2>6, OneProbe
<1>4. ASSUME CheckEnds(p) PROVE ReadinessInv'
  <2> DEFINE a == IF AllUp(p) THEN 200 ELSE 503
             t == [probe[p] EXCEPT !.answer = a]
  <2>1. probe' = [probe EXCEPT ![p] = t] /\ probe[p].left = {} /\ probe[p].role # "none"
    BY <1>4 DEF CheckEnds
  <2>2. /\ t \in Probing /\ t.role = probe[p].role /\ t.left = probe[p].left
        /\ t.results = probe[p].results /\ t.answer = a
    BY <1>2 DEF Probing
  <2>3. /\ a \in {200, 503}
        /\ a = 200 => \A d \in Dependencies : <<d, "down">> \notin probe[p].results
        /\ a = 503 => \E d \in Dependencies : <<d, "down">> \in probe[p].results
    <3>1. probe[p].results \subseteq Dependencies \X {"up", "down"}
      BY <1>2 DEF Probing
    <3>2. CASE AllUp(p)
      BY <3>2 DEF AllUp
    <3>3. CASE ~AllUp(p)
      <4>1. PICK r \in probe[p].results : r[2] # "up"
        BY <3>3 DEF AllUp
      <4>2. r = <<r[1], r[2]>> /\ r[1] \in Dependencies /\ r[2] = "down"
        BY <3>1, <4>1
      <4> QED BY <3>3, <4>1, <4>2
    <3> QED BY <3>2, <3>3
  <2> HIDE DEF t, a
  <2>4. Explained(t, seenUp[p], Up, turns)
    BY SMTT(30), <1>2, <2>1, <2>2, <2>3 DEF Explained
  <2> QED BY Zenon, <1>1, <1>2, <2>1, <2>2, <2>4, OneProbe
<1> QED BY <1>3, <1>4 DEF ProbeStep

\* The invariant of the probes, for any number of them and of turns.
THEOREM ReadinessInvariant == ReadinessSpec => []ReadinessInv
<1>1. ReadinessInit => ReadinessInv
  <2> SUFFICES ASSUME ReadinessInit PROVE ReadinessInv
    OBVIOUS
  <2>1. \A p \in Probes : Explained(probe[p], seenUp[p], Up, turns)
    BY DEF ReadinessInit, Explained, NoProbe
  <2> QED BY SMTT(30), <2>1, ReadinessAssumption DEF ReadinessInit, ReadinessInv, NoProbe, Probing, Up
<1>2. ReadinessInv /\ ReadinessNext => ReadinessInv'
  BY DependencyStep, ReadyStep, ProbeSteps DEF ReadinessNext
<1>3. ReadinessInv /\ UNCHANGED readinessVars => ReadinessInv'
  <2> SUFFICES ASSUME ReadinessInv, UNCHANGED readinessVars PROVE ReadinessInv'
    OBVIOUS
  <2>1. UNCHANGED <<dependency, turns, probe, seenUp>> /\ Up' = Up
    BY DEF readinessVars, Up
  <2> QED BY <2>1 DEF ReadinessInv
<1> QED BY <1>1, <1>2, <1>3, PTL DEF ReadinessSpec

\* A probe's answer is true of what it asked, however the dependencies turn.
THEOREM ReadinessIsTrue == ReadinessSpec => [](ReadinessTypeOK /\ ReadyMeansUp)
<1>1. ReadinessInv => ReadinessTypeOK
  BY DEF ReadinessInv, ReadinessTypeOK, Probing
<1>2. ReadinessInv => ReadyMeansUp
  <2> SUFFICES ASSUME ReadinessInv, NEW p \in Probes, probe[p].answer # 0
               PROVE  LET checks == ReadinessChecks[probe[p].role] IN
                      /\ probe[p].answer = 200 => checks \subseteq seenUp[p]
                      /\ probe[p].answer = 503 => turns > 0
                      /\ probe[p].answer = 503 => \E d \in checks : <<d, "down">> \in probe[p].results
    BY DEF ReadyMeansUp
  <2>1. Explained(probe[p], seenUp[p], Up, turns) /\ probe[p].role \in {"none"} \cup DOMAIN ReadinessChecks
    BY DEF ReadinessInv, Probing
  <2>2. probe[p].role # "none"
    BY <2>1 DEF Explained
  <2>3. ReadinessChecks[probe[p].role] \subseteq Dependencies
    BY <2>1, <2>2, ChecksAreDependencies
  <2>4. ASSUME probe[p].answer = 200 PROVE ReadinessChecks[probe[p].role] \subseteq seenUp[p]
    <3>1. /\ probe[p].left = {} /\ \A d \in Dependencies : <<d, "down">> \notin probe[p].results
          /\ \A d \in Dependencies : <<d, "up">> \in probe[p].results => d \in seenUp[p]
      BY <2>1, <2>4, Zenon DEF Explained
    <3>2. \A d \in Dependencies : d \in ReadinessChecks[probe[p].role] =>
            d \in probe[p].left \/ <<d, "up">> \in probe[p].results \/ <<d, "down">> \in probe[p].results
      BY <2>1, <2>2, Zenon DEF Explained
    <3> QED BY <2>3, <3>1, <3>2, Zenon
  <2>5. ASSUME probe[p].answer = 503
        PROVE  turns > 0 /\ \E d \in ReadinessChecks[probe[p].role] : <<d, "down">> \in probe[p].results
    <3>1. PICK d \in Dependencies : <<d, "down">> \in probe[p].results
      BY Zenon, <2>1, <2>5 DEF Explained
    <3>2. d \in ReadinessChecks[probe[p].role]
      BY <2>1, <2>2, <3>1, Zenon DEF Explained
    <3>3. turns > 0
      BY <2>1, <3>1, Zenon DEF Explained
    <3> QED BY <3>1, <3>2, <3>3
  <2> QED BY <2>4, <2>5
<1> QED BY <1>1, <1>2, ReadinessInvariant, PTL

-----------------------------------------------------------------------------
(* The shared gauges.                                                      *)

\* A collection ends: its readings are at most a timeout old.
LEMMA CollectAndApply ==
  ASSUME MetricsInv, NEW i \in Scrapes, collectAndApply(i)
  PROVE  MetricsInv'
<1>1. i \in Running /\ clock' = clock /\ registered' = registered /\ inFlight' = 0
  BY SMTT(30) DEF collectAndApply, Released
<1>2. inFlight = i /\ Running = {i}
  BY SMTT(30), <1>1 DEF MetricsInv
<1>3. /\ collection' = [collection EXCEPT ![i] = [began |-> 0, sources |-> {}, got |-> <<>>]]
      /\ DOMAIN collection' = Scrapes /\ \A j \in Scrapes \ {i} : collection'[j] = collection[j]
      /\ collection'[i] = [began |-> 0, sources |-> {}, got |-> <<>>]
  BY Zenon DEF collectAndApply, MetricsInv
<1>4. Running' = {}
  BY SMTT(30), <1>2, <1>3 DEF Running
<1>5. /\ DOMAIN scrape' = Scrapes
      /\ \A r \in Scrapes : scrape'[r].at \in {"idle", "waits", "served"}
  BY SMTT(30) DEF collectAndApply, MetricsInv, SharedMetricsTypeOK
<1>6. /\ clock \in Nat /\ clock <= MaxClock /\ collection[i].began \in 0..clock
      /\ clock <= collection[i].began + TIMEOUT /\ collection[i].began > 0
      /\ \A s \in DOMAIN collection[i].got : collection[i].got[s] \in collection[i].began..clock
  BY SMTT(30), <1>1, SharedMetricsAssumption DEF MetricsInv, SharedMetricsTypeOK, Running
<1>7. /\ gauge' \in [Sources -> 0..MaxClock] /\ freshUntil' \in 0..(MaxClock + SCRAPE_TTL)
      /\ clock < freshUntil' =>
           \A s \in Sources : gauge'[s] # 0 => gauge'[s] + TIMEOUT + SCRAPE_TTL >= freshUntil'
  <2>1. CASE freshUntil' = clock + SCRAPE_TTL /\ \E dropped \in SUBSET DOMAIN collection[i].got :
                                                   gauge' = Applied(i, dropped)
    <3>1. PICK dropped \in SUBSET DOMAIN collection[i].got : gauge' = Applied(i, dropped)
      BY <2>1
    <3>2. ASSUME NEW s \in Sources
          PROVE  gauge'[s] = 0 \/ (gauge'[s] \in 0..MaxClock /\ gauge'[s] + TIMEOUT >= clock)
      <4>1. CASE s \in DOMAIN collection[i].got \ dropped
        <5>1. gauge'[s] = collection[i].got[s] /\ collection[i].got[s] \in collection[i].began..clock
          BY <1>6, <3>1, <4>1 DEF Applied
        <5> QED BY <1>6, <5>1, SharedMetricsAssumption
      <4>2. CASE s \notin DOMAIN collection[i].got \ dropped
        BY <3>1, <4>2 DEF Applied
      <4> QED BY <4>1, <4>2
    <3>3. gauge' \in [Sources -> 0..MaxClock]
      BY <3>1, <3>2, SharedMetricsAssumption DEF Applied
    <3> QED BY <1>6, <2>1, <3>2, <3>3, SharedMetricsAssumption
  <2>2. CASE gauge' = [s \in Sources |-> 0] /\ UNCHANGED freshUntil
    BY <2>2, SharedMetricsAssumption DEF MetricsInv, SharedMetricsTypeOK
  <2> QED BY <2>1, <2>2 DEF collectAndApply
<1>8. SharedMetricsTypeOK'
  BY SMTT(30), <1>1, <1>5, <1>7 DEF MetricsInv, SharedMetricsTypeOK
<1>9. ASSUME NEW j \in Scrapes
      PROVE  /\ DOMAIN collection'[j] = {"began", "sources", "got"}
             /\ collection'[j].began \in 0..clock /\ collection'[j].sources \subseteq Sources
  BY SMTT(30), <1>3, <1>6 DEF MetricsInv
<1> QED BY SMTT(30), <1>1, <1>3, <1>4, <1>5, <1>7, <1>8, <1>9 DEF MetricsInv

\* A source is read, or given up.
LEMMA CollectOne ==
  ASSUME MetricsInv, NEW i \in Scrapes, NEW s \in Sources, collectOne(i, s)
  PROVE  MetricsInv'
<1>1. i \in Running /\ UNCHANGED <<clock, registered, freshUntil, inFlight, gauge, scrape>>
  BY SMTT(30) DEF collectOne
<1> DEFINE old == collection[i]
<1>2. /\ DOMAIN old = {"began", "sources", "got"} /\ old.began \in 0..clock /\ old.sources \subseteq Sources
      /\ clock <= old.began + TIMEOUT /\ \A x \in DOMAIN old.got : old.got[x] \in old.began..clock
      /\ clock \in Nat
  BY <1>1, SharedMetricsAssumption DEF MetricsInv, SharedMetricsTypeOK
<1>3. \E new : /\ collection' = [collection EXCEPT ![i] = new]
               /\ DOMAIN new = {"began", "sources", "got"} /\ new.began = old.began
               /\ new.sources \subseteq old.sources
               /\ \A x \in DOMAIN new.got : (x \in DOMAIN old.got /\ new.got[x] = old.got[x]) \/ new.got[x] = clock
  <2>1. CASE collection' = [collection EXCEPT ![i].sources = @ \ {s}]
    <3> DEFINE new == [old EXCEPT !.sources = @ \ {s}]
    <3>1. /\ DOMAIN new = {"began", "sources", "got"} /\ new.began = old.began
          /\ new.sources = old.sources \ {s} /\ new.got = old.got
      BY <1>2
    <3> HIDE DEF new
    <3>2. collection' = [collection EXCEPT ![i] = new]
      BY <2>1 DEF new
    <3> QED BY Zenon, <3>1, <3>2
  <2>2. CASE collection' = [collection EXCEPT ![i].sources = @ \ {s},
                                              ![i].got = [x \in DOMAIN @ \cup {s} |->
                                                            IF x = s THEN clock ELSE @[x]]]
    <3> DEFINE got == [x \in DOMAIN old.got \cup {s} |-> IF x = s THEN clock ELSE old.got[x]]
               new == [old EXCEPT !.sources = @ \ {s}, !.got = got]
    <3>1. \A x \in DOMAIN got : (x \in DOMAIN old.got /\ got[x] = old.got[x]) \/ got[x] = clock
      OBVIOUS
    <3>2. collection' = [collection EXCEPT ![i] = new]
      BY Zenon, <1>2, <2>2 DEF MetricsInv
    <3> HIDE DEF got
    <3>3. /\ DOMAIN new = {"began", "sources", "got"} /\ new.began = old.began
          /\ new.sources = old.sources \ {s} /\ new.got = got
      BY <1>2
    <3> HIDE DEF new
    <3> QED BY Zenon, <3>1, <3>2, <3>3
  <2> QED BY SMTT(30), <2>1, <2>2 DEF collectOne
<1>4. PICK new : <1>3!(new)
  BY Zenon, <1>3
<1> HIDE DEF old
<1>5. /\ DOMAIN collection' = Scrapes /\ collection'[i] = new
      /\ \A j \in Scrapes \ {i} : collection'[j] = collection[j]
  BY <1>4 DEF MetricsInv
<1>6. Running' = Running
  BY <1>1, <1>4, <1>5 DEF Running, old
<1>7. \A x \in DOMAIN new.got : new.got[x] \in new.began..clock
  BY SMT, <1>2, <1>4
<1>8. ASSUME NEW j \in Scrapes
      PROVE  /\ DOMAIN collection'[j] = {"began", "sources", "got"}
             /\ collection'[j].began \in 0..clock /\ collection'[j].sources \subseteq Sources
             /\ j \in Running => /\ clock <= collection'[j].began + TIMEOUT
                                 /\ \A x \in DOMAIN collection'[j].got :
                                      collection'[j].got[x] \in collection'[j].began..clock
  BY SMTT(30), <1>2, <1>4, <1>5, <1>7 DEF MetricsInv
<1>9. SharedMetricsTypeOK'
  BY <1>1 DEF MetricsInv, SharedMetricsTypeOK
<1> QED BY Zenon, <1>1, <1>5, <1>6, <1>8, <1>9 DEF MetricsInv

\* A scrape joins the collection that runs, or starts one when none does.
LEMMA RefreshStep ==
  ASSUME MetricsInv, NEW r \in Scrapes, refresh(r)
  PROVE  MetricsInv'
<1>1. UNCHANGED <<clock, registered, freshUntil, gauge>> /\ clock \in Nat \ {0} /\ r # 0
  BY SMTT(30), SharedMetricsAssumption DEF refresh, MetricsInv, SharedMetricsTypeOK
<1>2. DOMAIN scrape' = Scrapes /\ \A x \in Scrapes : scrape'[x].at \in {"idle", "waits", "served"}
  BY SMTT(30) DEF refresh, MetricsInv, SharedMetricsTypeOK
<1>3. CASE inFlight' = inFlight /\ collection' = collection
  <2>1. Running' = Running /\ (inFlight # 0 => scrape'[inFlight].at = "waits")
    BY SMTT(30), <1>3 DEF Running, MetricsInv, SharedMetricsTypeOK, refresh
  <2> QED BY SMTT(30), <1>1, <1>2, <1>3, <2>1 DEF MetricsInv, SharedMetricsTypeOK
<1>4. CASE inFlight = 0 /\ inFlight' = r
           /\ collection' = [collection EXCEPT ![r] = [began |-> clock, got |-> <<>>, sources |-> registered]]
  <2>1. /\ DOMAIN collection' = Scrapes /\ \A j \in Scrapes \ {r} : collection'[j] = collection[j]
        /\ collection'[r] = [began |-> clock, got |-> <<>>, sources |-> registered]
    BY Zenon, <1>4 DEF MetricsInv
  <2>2. Running' = {r}
    BY SMTT(30), <1>1, <1>4, <2>1 DEF MetricsInv, Running
  <2>3. /\ DOMAIN collection'[r] = {"began", "sources", "got"} /\ collection'[r].began = clock
        /\ collection'[r].sources = registered /\ DOMAIN collection'[r].got = {}
    BY <2>1
  <2>4. ASSUME NEW j \in Scrapes
        PROVE  /\ DOMAIN collection'[j] = {"began", "sources", "got"}
               /\ collection'[j].began \in 0..clock /\ collection'[j].sources \subseteq Sources
               /\ j \in {r} => /\ clock <= collection'[j].began + TIMEOUT
                               /\ \A x \in DOMAIN collection'[j].got :
                                    collection'[j].got[x] \in collection'[j].began..clock
    BY <1>1, <2>1, <2>3, SharedMetricsAssumption DEF MetricsInv, SharedMetricsTypeOK
  <2>5. SharedMetricsTypeOK'
    BY SMTT(30), <1>1, <1>2, <1>4 DEF MetricsInv, SharedMetricsTypeOK
  <2>6. scrape'[r].at = "waits"
    BY <1>1, <1>4 DEF refresh, MetricsInv
  <2> QED BY Zenon, <1>1, <1>2, <1>4, <2>1, <2>2, <2>4, <2>5, <2>6 DEF MetricsInv
<1>5. CASE inFlight # 0 /\ ~(clock < freshUntil)
  <2>1. inFlight' = inFlight
    BY SMTT(30), <1>5 DEF refresh, Joins
  <2>2. CASE inFlight = r
    \* The collection that runs has the name of a scrape that waits.
    BY SMTT(30), <1>5, <2>2 DEF refresh, MetricsInv
  <2>3. CASE inFlight # r
    BY Zenon, <1>3, <1>5, <2>1, <2>3 DEF refresh, Joins
  <2> QED BY Zenon, <2>2, <2>3
<1>6. CASE clock < freshUntil
  BY Zenon, <1>3, <1>6 DEF refresh
<1>7. CASE inFlight = 0 /\ ~(clock < freshUntil)
  BY SMTT(30), <1>4, <1>7 DEF refresh, Joins
<1> QED BY Zenon, <1>5, <1>6, <1>7

\* The invariant of the gauges, for any number of sources and scrapes, and any clock.
THEOREM MetricsInvariant == SharedMetricsSpec => []MetricsInv
<1>1. SharedMetricsInit => MetricsInv
  <2> SUFFICES ASSUME SharedMetricsInit PROVE MetricsInv
    OBVIOUS
  <2> USE SharedMetricsAssumption DEF SharedMetricsInit
  <2>1. Running = {}
    BY SMTT(30) DEF Running
  <2> QED BY <2>1 DEF MetricsInv, SharedMetricsTypeOK
<1>2. ASSUME MetricsInv, ClockTicks PROVE MetricsInv'
  <2>1. /\ clock \in Nat /\ clock' = clock + 1 /\ clock' \in 1..MaxClock
        /\ UNCHANGED <<registered, freshUntil, inFlight, collection, gauge, scrape>>
        /\ \A i \in Running : clock < collection[i].began + TIMEOUT
    BY <1>2, SharedMetricsAssumption DEF ClockTicks, MetricsInv, SharedMetricsTypeOK
  <2>2. Running' = Running
    BY <2>1 DEF Running
  <2>3. SharedMetricsTypeOK'
    BY <1>2, <2>1 DEF MetricsInv, SharedMetricsTypeOK
  <2>4. ASSUME NEW i \in Scrapes
        PROVE  /\ collection[i].began \in 0..clock'
               /\ i \in Running => /\ clock' <= collection[i].began + TIMEOUT
                                   /\ \A s \in DOMAIN collection[i].got :
                                        collection[i].got[s] \in collection[i].began..clock'
    <3>1. collection[i].began \in 0..clock
      BY <1>2 DEF MetricsInv
    <3>2. ASSUME i \in Running
          PROVE  \A s \in DOMAIN collection[i].got : collection[i].got[s] \in collection[i].began..clock
      BY SMTT(30), <1>2, <3>2 DEF MetricsInv
    <3> QED BY <2>1, <3>1, <3>2, SharedMetricsAssumption
  <2>5. freshUntil \in Nat
    BY <1>2, SharedMetricsAssumption DEF MetricsInv, SharedMetricsTypeOK
  <2>6. clock' < freshUntil => clock < freshUntil
    BY SMT, <2>1, <2>5
  <2> QED BY SMTT(30), <1>2, <2>1, <2>2, <2>3, <2>4, <2>6 DEF MetricsInv
<1>3. ASSUME MetricsInv, NEW s \in Sources, register(s) PROVE MetricsInv'
  <2>1. /\ UNCHANGED <<clock, inFlight, collection, gauge, scrape>> /\ freshUntil' = 0
        /\ registered' = registered \cup {s} /\ Running' = Running
    BY SMTT(30), <1>3 DEF register, Running
  <2>2. SharedMetricsTypeOK' /\ clock \in Nat
    BY SMTT(30), <1>3, <2>1, SharedMetricsAssumption DEF MetricsInv, SharedMetricsTypeOK
  <2> QED BY <1>3, <2>1, <2>2 DEF MetricsInv
<1>4. ASSUME MetricsInv, NEW r \in Scrapes, Scraped(r) PROVE MetricsInv'
  <2>1. /\ UNCHANGED <<clock, registered, freshUntil, inFlight, collection, gauge>> /\ Running' = Running
        /\ DOMAIN scrape' = Scrapes /\ \A x \in Scrapes \ {r} : scrape'[x] = scrape[x]
        /\ scrape'[r].at = "idle" /\ scrape[r].at = "served"
    BY SMTT(30), <1>4 DEF Scraped, Running, MetricsInv
  <2>2. inFlight # 0 => scrape'[inFlight].at = "waits"
    BY Zenon, <1>4, <2>1 DEF MetricsInv, SharedMetricsTypeOK
  <2>3. SharedMetricsTypeOK'
    BY <1>4, <2>1 DEF MetricsInv, SharedMetricsTypeOK
  <2> QED BY SMTT(30), <1>4, <2>1, <2>2, <2>3 DEF MetricsInv
<1>5. MetricsInv /\ SharedMetricsNext => MetricsInv'
  BY <1>2, <1>3, <1>4, CollectAndApply, CollectOne, RefreshStep, Zenon
     DEF SharedMetricsNext, CollectionSteps
<1>6. MetricsInv /\ UNCHANGED sharedMetricsVars => MetricsInv'
  BY DEF MetricsInv, SharedMetricsTypeOK, Running, sharedMetricsVars
<1> QED BY <1>1, <1>5, <1>6, PTL DEF SharedMetricsSpec

\* One collection at a time, and gauges no older than a timeout and a cache period.
THEOREM GaugesStayRecent == SharedMetricsSpec => [](SharedMetricsTypeOK /\ GaugesAreRecent)
<1>1. MetricsInv => SharedMetricsTypeOK /\ GaugesAreRecent
  BY Zenon DEF MetricsInv, GaugesAreRecent
<1> QED BY <1>1, MetricsInvariant, PTL

\* What the probes and the shared gauges report is true.
THEOREM ReportsStayTrue == ObservabilitySpec => []ReportsAreTrue
<1>1. GaugesAreRecent /\ ReadyMeansUp => ReportsAreTrue
  BY DEF ReportsAreTrue
<1> QED BY <1>1, GaugesStayRecent, ReadinessIsTrue, PTL DEF ObservabilitySpec

-----------------------------------------------------------------------------
(* The cache of entitlements.                                              *)

USE EntitlementsAssumption

Entries == [tenant : Tenants, value : Nat, freshUntil : Nat]
CallStates == [at : {"idle", "query", "resume", "done"}, tenant : Tenants \cup {0},
               started : Nat, value : Nat, cached : BOOLEAN]

Types ==
  /\ time \in Nat
  /\ plan \in [Tenants -> Nat]
  /\ until \in [Tenants -> [0..MaxPlans -> Nat]]
  /\ cache \in Seq(Entries)
  /\ call \in [Calls -> CallStates]

\* Plan v of tenant t is the current one, or was at the moment m.
Current(t, v, m) == v \in 0..MaxPlans /\ (plan[t] = v \/ until[t][v] >= m)

\* An entry was current when its time to live began, and that was not in the future.
EntryOK(e) == \E m \in Nat : m <= time /\ e.freshUntil = m + CACHE_TTL /\ Current(e.tenant, e.value, m)

\* So was the answer of a query, when its call began; and a hit, the entry's.
CallOK(q) ==
  /\ q.started <= time
  /\ q.at # "idle" => q.tenant \in Tenants
  /\ q.at = "resume" => Current(q.tenant, q.value, q.started)
  /\ q.at \in {"query", "resume"} => ~q.cached
  /\ q.at = "done" /\ q.cached =>
       /\ q.value \in 0..MaxPlans /\ CACHE_TTL > 0
       /\ plan[q.tenant] = q.value \/ until[q.tenant][q.value] + CACHE_TTL > q.started

CacheInv ==
  /\ Types /\ CacheBounded
  /\ \A t \in Tenants : plan[t] <= MaxPlans
  /\ \A i \in DOMAIN cache : EntryOK(cache[i])
  /\ \A c \in Calls : CallOK(call[c])

-----------------------------------------------------------------------------
\* What is left of the cache when an entry is to be stored has room for it.
LEMMA ShortenedOK ==
  ASSUME cache \in Seq(Entries), CacheBounded
  PROVE  /\ Shortened \in Seq(Entries) /\ Len(Shortened) < MAX_CACHED_TENANTS
         /\ \A i \in 1..Len(Shortened) : \E j \in 1..Len(cache) : Shortened[i] = cache[j]
         /\ \A i, j \in 1..Len(Shortened) : Shortened[i].tenant = Shortened[j].tenant => i = j
<1>1. DOMAIN cache = 1..Len(cache) /\ Len(cache) \in Nat
  OBVIOUS
<1>2. CASE Len(cache) >= MAX_CACHED_TENANTS
  <2>1. Shortened = Tail(cache) /\ cache # <<>>
    BY <1>2 DEF Shortened
  <2>2. /\ Tail(cache) \in Seq(Entries) /\ Len(Tail(cache)) = Len(cache) - 1
        /\ \A i \in 1..Len(Tail(cache)) : Tail(cache)[i] = cache[i + 1]
    BY <2>1
  <2>3. \A i \in 1..Len(Tail(cache)) : i + 1 \in 1..Len(cache)
    BY <1>1, <2>2
  <2> QED BY <1>1, <2>1, <2>2, <2>3 DEF CacheBounded
<1>3. CASE ~(Len(cache) >= MAX_CACHED_TENANTS)
  BY <1>1, <1>3 DEF Shortened, CacheBounded
<1> QED BY <1>2, <1>3

\* Storing an entry keeps the limit and one entry per tenant.
LEMMA RememberOK ==
  ASSUME cache \in Seq(Entries), CacheBounded, NEW e \in Entries, cache' = remember(e)
  PROVE  /\ cache' \in Seq(Entries) /\ CacheBounded'
         /\ \A i \in DOMAIN cache' : cache'[i] = e \/ \E j \in DOMAIN cache : cache'[i] = cache[j]
<1> DEFINE kept == Shortened
<1>1. /\ kept \in Seq(Entries) /\ Len(kept) < MAX_CACHED_TENANTS
      /\ \A i \in 1..Len(kept) : \E j \in 1..Len(cache) : kept[i] = cache[j]
      /\ \A i, j \in 1..Len(kept) : kept[i].tenant = kept[j].tenant => i = j
  BY Zenon, ShortenedOK
<1>2. cache' = IF \E i \in DOMAIN kept : kept[i].tenant = e.tenant
                 THEN [i \in DOMAIN kept |-> IF kept[i].tenant = e.tenant THEN e ELSE kept[i]]
                 ELSE Append(kept, e)
  BY DEF remember
<1> HIDE DEF kept
<1>3. DOMAIN kept = 1..Len(kept) /\ Len(kept) \in Nat /\ DOMAIN cache = 1..Len(cache)
  BY <1>1
<1>4. CASE \E i \in DOMAIN kept : kept[i].tenant = e.tenant
  <2>1. cache' = [i \in 1..Len(kept) |-> IF kept[i].tenant = e.tenant THEN e ELSE kept[i]]
    BY Zenon, <1>2, <1>3, <1>4
  <2>2. \A i \in 1..Len(kept) : kept[i] \in Entries
    BY <1>1
  <2>3. cache' \in Seq(Entries) /\ Len(cache') = Len(kept) /\ DOMAIN cache' = 1..Len(kept)
    BY <1>3, <2>1, <2>2
  <2>4. \A i, j \in 1..Len(kept) : cache'[i].tenant = cache'[j].tenant => i = j
    BY <1>1, <2>1
  <2>5. \A i \in 1..Len(kept) : cache'[i] = e \/ \E j \in DOMAIN cache : cache'[i] = cache[j]
    BY Zenon, <1>1, <1>3, <2>1
  <2> QED BY <1>1, <2>3, <2>4, <2>5 DEF CacheBounded
<1>5. CASE ~\E i \in DOMAIN kept : kept[i].tenant = e.tenant
  <2>1. cache' = Append(kept, e)
    BY <1>2, <1>5
  <2>2. /\ cache' \in Seq(Entries) /\ Len(cache') = Len(kept) + 1
        /\ DOMAIN cache' = 1..(Len(kept) + 1)
        /\ \A i \in 1..Len(kept) : cache'[i] = kept[i]
        /\ cache'[Len(kept) + 1] = e
    BY <1>1, <2>1
  <2>3. \A i \in 1..(Len(kept) + 1) : i \in 1..Len(kept) \/ i = Len(kept) + 1
    BY <1>3
  <2>4. \A i, j \in 1..(Len(kept) + 1) : cache'[i].tenant = cache'[j].tenant => i = j
    BY Zenon, <1>1, <1>3, <1>5, <2>2, <2>3
  <2>5. \A i \in DOMAIN cache' : cache'[i] = e \/ \E j \in DOMAIN cache : cache'[i] = cache[j]
    <3> SUFFICES ASSUME NEW i \in 1..(Len(kept) + 1)
                 PROVE  cache'[i] = e \/ \E j \in 1..Len(cache) : cache'[i] = cache[j]
      BY Zenon, <1>3, <2>2
    <3>1. CASE i = Len(kept) + 1
      BY Zenon, <2>2, <3>1
    <3>2. CASE i \in 1..Len(kept)
      BY ZenonT(30), <1>1, <2>2, <3>2
    <3> QED BY Zenon, <2>3, <3>1, <3>2
  <2> QED BY <1>1, <1>3, <2>2, <2>4, <2>5 DEF CacheBounded
<1> QED BY <1>4, <1>5

\* An entry that is found is in the cache, and the tenant's.
LEMMA EntryFound ==
  ASSUME NEW t, EntriesOf(t) # {}
  PROVE  Entry(t).tenant = t /\ \E i \in DOMAIN cache : Entry(t) = cache[i]
<1>1. Entry(t) \in EntriesOf(t)
  BY DEF Entry
<1> QED BY <1>1 DEF EntriesOf

-----------------------------------------------------------------------------
(* The steps.                                                              *)

\* Time passing makes no entry and no call younger.
LEMMA TimePassesKeeps ==
  ASSUME CacheInv, TimePasses
  PROVE  CacheInv'
<1> USE DEF CacheInv, TimePasses
<1>1. Types' /\ CacheBounded' /\ \A t \in Tenants : plan'[t] <= MaxPlans
  BY DEF Types, CacheBounded
<1>2. time \in Nat /\ time <= time'
  BY DEF Types
<1>3. ASSUME NEW i \in DOMAIN cache PROVE EntryOK(cache[i])'
  <2>1. PICK m \in Nat : m <= time /\ cache[i].freshUntil = m + CACHE_TTL /\ Current(cache[i].tenant, cache[i].value, m)
    BY DEF EntryOK
  <2>2. m <= time' /\ Current(cache[i].tenant, cache[i].value, m)'
    BY <1>2, <2>1 DEF Current
  <2> QED BY <2>1, <2>2 DEF EntryOK
<1>4. ASSUME NEW c \in Calls PROVE CallOK(call[c])'
  BY <1>2 DEF Types, CallStates, CallOK, Current
<1> QED BY <1>1, <1>3, <1>4

\* The plan that stops being current does so now, and no entry or call is younger.
LEMMA PlanChangesKeeps ==
  ASSUME CacheInv, NEW t \in Tenants, PlanChanges(t)
  PROVE  CacheInv'
<1> USE DEF CacheInv, PlanChanges
<1>1. plan[t] \in Nat /\ plan[t] \in 0..MaxPlans /\ plan[t] + 1 <= MaxPlans
  BY DEF Types
<1>2. Types'
  <2>1. until[t] \in [0..MaxPlans -> Nat] /\ time \in Nat
    BY DEF Types
  <2>2. [until[t] EXCEPT ![plan[t]] = time] \in [0..MaxPlans -> Nat]
    BY <1>1, <2>1
  <2>3. until' = [until EXCEPT ![t] = [until[t] EXCEPT ![plan[t]] = time]]
    BY DEF Types
  <2>4. until' \in [Tenants -> [0..MaxPlans -> Nat]]
    BY Zenon, <2>2, <2>3 DEF Types
  <2>5. plan' \in [Tenants -> Nat]
    BY <1>1 DEF Types
  <2> QED BY Zenon, <2>4, <2>5 DEF Types
<1>3. CacheBounded' /\ \A u \in Tenants : plan'[u] <= MaxPlans
  BY <1>1 DEF Types, CacheBounded
<1>4. ASSUME NEW u \in Tenants, NEW v \in 0..MaxPlans
      PROVE  \/ plan'[u] = plan[u] /\ until'[u][v] = until[u][v]
             \/ plan[u] # v /\ until'[u][v] = until[u][v]
             \/ plan[u] = v /\ until'[u][v] = time
  BY Zenon, <1>1 DEF Types
<1>5. ASSUME NEW u \in Tenants, NEW v, NEW m \in Nat, m <= time, Current(u, v, m)
      PROVE  Current(u, v, m)'
  <2>1. v \in 0..MaxPlans
    BY <1>5 DEF Current
  <2> QED BY <1>4, <1>5, <2>1 DEF Current
<1>6. ASSUME NEW i \in DOMAIN cache PROVE EntryOK(cache[i])'
  <2>1. PICK m \in Nat : m <= time /\ cache[i].freshUntil = m + CACHE_TTL /\ Current(cache[i].tenant, cache[i].value, m)
    BY DEF EntryOK
  <2>2. cache[i] \in Entries
    BY DEF Types
  <2>3. Current(cache[i].tenant, cache[i].value, m)'
    BY ZenonT(30), <1>5, <2>1, <2>2 DEF Entries
  <2> QED BY <2>1, <2>3 DEF EntryOK
<1>7. ASSUME NEW c \in Calls PROVE CallOK(call[c])'
  <2> DEFINE q == call[c]
  <2>1. q.started \in Nat /\ q.started <= time /\ CallOK(q) /\ call' = call /\ time' = time
    BY DEF Types, CallStates, CallOK
  <2>2. q.at = "resume" => Current(q.tenant, q.value, q.started)'
    BY Zenon, <1>5, <2>1 DEF CallOK
  <2>3. ASSUME q.at = "done", q.cached
        PROVE  plan'[q.tenant] = q.value \/ until'[q.tenant][q.value] + CACHE_TTL > q.started
    <3>1. /\ q.tenant \in Tenants /\ q.value \in 0..MaxPlans /\ CACHE_TTL > 0
          /\ plan[q.tenant] = q.value \/ until[q.tenant][q.value] + CACHE_TTL > q.started
      BY <2>1, <2>3 DEF CallOK
    <3>2. CASE plan[q.tenant] # q.value
      BY <1>4, <3>1, <3>2
    <3>3. CASE plan[q.tenant] = q.value
      <4>1. \A n, m \in Nat : m <= n => n + CACHE_TTL > m
        BY <3>1
      <4>2. time + CACHE_TTL > q.started
        BY Zenon, <2>1, <4>1 DEF Types
      <4> QED BY <1>4, <3>1, <3>3, <4>2
    <3> QED BY Zenon, <3>2, <3>3
  <2> QED BY <2>1, <2>2, <2>3 DEF CallOK
<1> QED BY <1>2, <1>3, <1>6, <1>7

\* A step of one call that leaves the cache alone.
LEMMA CallStepKeeps ==
  ASSUME CacheInv, NEW c \in Calls, NEW q \in CallStates, CallOK(q),
         call' = [call EXCEPT ![c] = q], UNCHANGED <<time, plan, until, cache>>
  PROVE  CacheInv'
<1>1. Types' /\ CacheBounded' /\ \A t \in Tenants : plan'[t] <= MaxPlans
  BY DEF CacheInv, Types, CacheBounded
<1>2. ASSUME NEW i \in DOMAIN cache PROVE EntryOK(cache[i])'
  BY ZenonT(30) DEF CacheInv, EntryOK, Current
<1>3. ASSUME NEW d \in Calls PROVE CallOK(call[d])'
  <2>1. call'[d] = IF d = c THEN q ELSE call[d]
    BY DEF CacheInv, Types
  <2>2. CallOK(call'[d])
    BY <2>1 DEF CacheInv
  <2> QED BY <2>2 DEF CallOK, Current
<1> QED BY <1>1, <1>2, <1>3 DEF CacheInv

\* The call that is over, and the one that has not begun.
LEMMA NoCallOK == CacheInv => NoCall \in CallStates /\ CallOK(NoCall)
BY DEF CacheInv, Types, NoCall, CallStates, CallOK

\* A hit takes the value of an entry that is still fresh; a miss goes on to query.
LEMMA GetForKeeps ==
  ASSUME CacheInv, NEW c \in Calls, NEW t \in Tenants, getFor(c, t)
  PROVE  CacheInv'
<1>0. time \in Nat /\ UNCHANGED <<time, plan, until, cache>>
  BY DEF CacheInv, Types, getFor
<1>1. CASE Fresh(t)
  <2> DEFINE q == [at |-> "done", tenant |-> t, started |-> time,
                   value |-> Entry(t).value, cached |-> TRUE]
  <2>1. call' = [call EXCEPT ![c] = q]
    BY Zenon, <1>1 DEF getFor
  <2>2. PICK i \in DOMAIN cache : Entry(t) = cache[i]
    BY <1>1, EntryFound DEF Fresh
  <2>3. Entry(t).tenant = t /\ Entry(t).freshUntil > time /\ Entry(t) \in Entries /\ EntryOK(Entry(t))
    BY <1>1, <2>2, EntryFound DEF Fresh, CacheInv, Types
  <2>4. PICK m \in Nat : m <= time /\ Entry(t).freshUntil = m + CACHE_TTL /\ Current(t, Entry(t).value, m)
    BY <2>3 DEF EntryOK
  <2>5. Entry(t).value \in 0..MaxPlans /\ until[t][Entry(t).value] \in Nat /\ Entry(t).value \in Nat
    BY <2>4 DEF Current, CacheInv, Types
  <2>6. plan[t] = Entry(t).value \/ until[t][Entry(t).value] + CACHE_TTL > time
    BY <1>0, <2>3, <2>4, <2>5 DEF Current
  <2>7. CACHE_TTL > 0
    BY <1>0, <2>3, <2>4
  <2>8. q \in CallStates /\ CallOK(q)
    BY <1>0, <2>5, <2>6, <2>7 DEF CallStates, CallOK
  <2> QED BY Zenon, <1>0, <2>1, <2>8, CallStepKeeps
<1>2. CASE ~Fresh(t)
  <2> DEFINE q == [at |-> "query", tenant |-> t, started |-> time, value |-> 0, cached |-> FALSE]
  <2>1. call' = [call EXCEPT ![c] = q]
    BY Zenon, <1>2 DEF getFor
  <2>2. q \in CallStates /\ CallOK(q)
    BY <1>0 DEF CallStates, CallOK
  <2> QED BY Zenon, <1>0, <2>1, <2>2, CallStepKeeps
<1> QED BY Zenon, <1>1, <1>2

\* The database answers with the plan that is current now, after the call began.
LEMMA QueryKeeps ==
  ASSUME CacheInv, NEW c \in Calls, findCurrentSubscription(c)
  PROVE  CacheInv'
<1> DEFINE q == [call[c] EXCEPT !.at = "resume", !.value = plan[call[c].tenant]]
<1>0. UNCHANGED <<time, plan, until, cache>>
  BY DEF findCurrentSubscription
<1>1. CASE call' = [call EXCEPT ![c] = NoCall]
  BY Zenon, <1>0, <1>1, NoCallOK, CallStepKeeps
<1>2. CASE call' = [call EXCEPT ![c].at = "resume", ![c].value = plan[call[c].tenant]]
  <2>1. call[c] \in CallStates /\ CallOK(call[c]) /\ call[c].at = "query" /\ call[c].tenant \in Tenants
    BY DEF CacheInv, Types, CallOK, findCurrentSubscription
  <2>2. plan[call[c].tenant] \in Nat /\ plan[call[c].tenant] <= MaxPlans
    BY <2>1 DEF CacheInv, Types
  <2>3. q \in CallStates
    BY Zenon, <2>1, <2>2 DEF CallStates
  <2>4. CallOK(q)
    BY <2>1, <2>2 DEF CallOK, Current, CallStates
  <2>5. call' = [call EXCEPT ![c] = q]
    BY Zenon, <1>2 DEF CacheInv, Types
  <2> QED BY Zenon, <1>0, <2>3, <2>4, <2>5, CallStepKeeps
<1> QED BY <1>1, <1>2 DEF findCurrentSubscription

\* The answer is stored with a time to live that began with the call.
LEMMA ResumeKeeps ==
  ASSUME CacheInv, NEW c \in Calls, Resume(c)
  PROVE  CacheInv'
<1> DEFINE q == call[c]
           e == [tenant |-> q.tenant, value |-> q.value, freshUntil |-> q.started + CACHE_TTL]
<1>0. cache' = remember(e) /\ call' = [call EXCEPT ![c].at = "done"] /\ UNCHANGED <<time, plan, until>>
  BY DEF Resume, ExpiryOf
<1>1. /\ q \in CallStates /\ q.at = "resume" /\ ~q.cached /\ q.tenant \in Tenants
      /\ q.started <= time /\ Current(q.tenant, q.value, q.started)
  BY DEF CacheInv, Types, CallOK, Resume
<1>2. e \in Entries /\ EntryOK(e)
  BY <1>1 DEF Entries, CallStates, EntryOK
<1> HIDE DEF e
<1>3. /\ cache' \in Seq(Entries) /\ CacheBounded'
      /\ \A i \in DOMAIN cache' : cache'[i] = e \/ \E j \in DOMAIN cache : cache'[i] = cache[j]
  BY <1>0, <1>2, RememberOK DEF CacheInv, Types
<1>4. ASSUME NEW i \in DOMAIN cache' PROVE EntryOK(cache[i])'
  <2>1. EntryOK(cache'[i])
    BY <1>2, <1>3 DEF CacheInv
  <2> QED BY <1>0, <2>1 DEF EntryOK, Current
<1>5. Types' /\ \A t \in Tenants : plan'[t] <= MaxPlans
  BY Zenon, <1>0, <1>1, <1>3 DEF CacheInv, Types, CallStates
<1>6. ASSUME NEW d \in Calls PROVE CallOK(call[d])'
  <2>1. CASE d # c
    BY <1>0, <2>1 DEF CacheInv, Types, CallOK, Current
  <2>2. CASE d = c
    <3>1. call'[c] = [q EXCEPT !.at = "done"]
      BY <1>0 DEF CacheInv, Types
    <3> QED BY <1>0, <1>1, <2>2, <3>1 DEF CallStates, CallOK
  <2> QED BY <2>1, <2>2
<1> QED BY <1>3, <1>4, <1>5, <1>6 DEF CacheInv

-----------------------------------------------------------------------------
(* The theorems.                                                           *)

\* The inductive invariant of the cache and its calls.
THEOREM CacheInvariant == EntitlementsSpec => []CacheInv
<1>1. EntitlementsInit => CacheInv
  <2> SUFFICES ASSUME EntitlementsInit PROVE CacheInv
    OBVIOUS
  <2>1. Types /\ CacheBounded
    BY DEF EntitlementsInit, Types, CacheBounded, NoCall, CallStates
  <2>2. \A c \in Calls : CallOK(call[c])
    BY DEF EntitlementsInit, CallOK, NoCall
  <2> QED BY <2>1, <2>2 DEF EntitlementsInit, CacheInv
<1>2. CacheInv /\ [EntitlementsNext]_entitlementsVars => CacheInv'
  <2> SUFFICES ASSUME CacheInv, [EntitlementsNext]_entitlementsVars PROVE CacheInv'
    BY ZenonT(30)
  <2>1. CASE UNCHANGED entitlementsVars
    BY <2>1 DEF entitlementsVars, CacheInv, Types, CacheBounded, EntryOK, CallOK, Current
  <2>2. CASE TimePasses
    BY <2>2, TimePassesKeeps
  <2>3. ASSUME NEW t \in Tenants, PlanChanges(t) PROVE CacheInv'
    BY <2>3, PlanChangesKeeps
  <2>4. ASSUME NEW c \in Calls, NEW t \in Tenants, getFor(c, t) PROVE CacheInv'
    BY <2>4, GetForKeeps
  <2>5. ASSUME NEW c \in Calls, findCurrentSubscription(c) \/ Resume(c) PROVE CacheInv'
    BY <2>5, QueryKeeps, ResumeKeeps
  <2>6. ASSUME NEW c \in Calls, CallReturns(c) PROVE CacheInv'
    BY Zenon, <2>6, NoCallOK, CallStepKeeps DEF CallReturns
  <2> QED BY <2>1, <2>2, <2>3, <2>4, <2>5, <2>6 DEF EntitlementsNext
<1> QED BY <1>1, <1>2, PTL DEF EntitlementsSpec

\* The eviction before the store keeps the cache within its limit, with one entry
\* for a tenant, whichever calls overlap.
THEOREM CacheStaysBounded == EntitlementsSpec => []CacheBounded
<1>1. CacheInv => CacheBounded
  BY DEF CacheInv
<1> QED BY <1>1, CacheInvariant, PTL

\* An answer from the cache was right less than the time to live ago, however
\* slow the query was that stored it.
THEOREM StalenessIsBounded == EntitlementsSpec => []StaleForTTL
<1>1. CacheInv => StaleForTTL
  BY DEF CacheInv, CallOK, StaleForTTL
<1> QED BY <1>1, CacheInvariant, PTL

-----------------------------------------------------------------------------
(* The inbox.                                                              *)

USE AttemptsAssumption, FaultsAssumption, NullAssumption

\* When a claim can be made there is a token for it.
LEMMA NextToken ==
  ASSUME TypeOK, ClaimsPaid, Claimable
  PROVE  claims + 1 \in Tokens
BY DEF TypeOK, ClaimsPaid, Tokens

\* What can be claimed now satisfies Claimable.
LEMMA ClaimableNow == (row.state = "absent" \/ Reclaimable) => Claimable
BY DEF Reclaimable, Claimable

\* The rows that statements write, and the row of a lapsed lease, are rows.
LEMMA RowsWritten ==
  /\ \A t \in Tokens : Processing(t) \in Rows
  /\ Absent \in Rows /\ Failed \in Rows /\ Processed \in Rows
  /\ \A w \in Rows : [w EXCEPT !.stale = TRUE] \in Rows
BY Zenon DEF Rows, Processing, Absent, Failed, Processed

\* A job that is running has an attempt to spend.
LEMMA RethrowType ==
  ASSUME TypeOK, TokenInv, NEW t \in Tokens, job[t] = "fail", Rethrow(t)
  PROVE  /\ tries' \in [Tokens -> 0 .. Attempts]
         /\ job' \in [Tokens -> {"none", "waiting", "handle", "mark", "fail", "done", "dead"}]
<1>1. tries[t] \in 0 .. Attempts /\ tries[t] < Attempts
  BY DEF TypeOK, TokenInv
<1>2. tries[t] + 1 \in 0 .. Attempts
  BY <1>1
<1> QED BY <1>2 DEF TypeOK, Rethrow

\* Every step keeps the types, the tokens' range included.
LEMMA NextType ==
  ASSUME IInv, Next
  PROVE  TypeOK'
<1> USE DEF IInv, TypeOK
<1>1. ASSUME NEW p \in Deliveries, Deliver(p) PROVE TypeOK'
  BY <1>1 DEF Deliver
<1>2. ASSUME NEW p \in Deliveries, Insert(p) PROVE TypeOK'
  <2>1. CASE row.state = "absent" \/ Reclaimable
    <3>1. claims + 1 \in Tokens
      BY <2>1, ClaimableNow, NextToken
    <3>2. claims + 1 \in 0 .. MaxFaults + 1 /\ Processing(claims + 1) \in Rows
      BY <3>1, RowsWritten DEF Tokens
    <3> QED BY Zenon, <1>2, <3>1, <3>2 DEF Insert, Take, Answer, Fault
  <2>2. CASE ~(row.state = "absent" \/ Reclaimable)
    BY <1>2, <2>2 DEF Insert, Answer, Fault
  <2> QED BY Zenon, <2>1, <2>2
<1>3. ASSUME NEW p \in Deliveries, Update(p) PROVE TypeOK'
  <2>1. CASE row.state = "absent" \/ Reclaimable
    <3>1. claims + 1 \in Tokens
      BY <2>1, ClaimableNow, NextToken
    <3>2. claims + 1 \in 0 .. MaxFaults + 1 /\ Processing(claims + 1) \in Rows
      BY <3>1, RowsWritten DEF Tokens
    <3> QED BY Zenon, <1>3, <3>1, <3>2 DEF Update, Take, Answer, Fault
  <2>2. CASE ~(row.state = "absent" \/ Reclaimable)
    BY Zenon, <1>3, <2>2 DEF Update, Answer, Fault
  <2> QED BY <2>1, <2>2
<1>4. ASSUME NEW p \in Deliveries, Dispatch(p) PROVE TypeOK'
  <2>1. mine[p] \in Tokens
    BY <1>4 DEF Dispatch, TokenInv, Tokens
  <2> QED BY <1>4, <2>1 DEF Dispatch, AddJob, Answer
<1>5. ASSUME NEW p \in Deliveries, ClaimThrows(p) PROVE TypeOK'
  <2>1. CASE row.state = "absent" \/ Reclaimable
    <3>1. claims + 1 \in Tokens
      BY <2>1, ClaimableNow, NextToken
    <3>2. claims + 1 \in 0 .. MaxFaults + 1 /\ Processing(claims + 1) \in Rows
      BY <3>1, RowsWritten DEF Tokens
    <3> QED BY <1>5, <3>1, <3>2 DEF ClaimThrows, Take, Answer, Fault
  <2>2. CASE ~(row.state = "absent" \/ Reclaimable)
    BY <1>5, <2>2 DEF ClaimThrows, Answer, Fault
  <2> QED BY <2>1, <2>2
<1>6. ASSUME NEW p \in Deliveries, DispatchThrows(p) PROVE TypeOK'
  <2>1. mine[p] \in Tokens
    BY <1>6 DEF DispatchThrows, TokenInv, Tokens
  <2> QED BY <1>6, <2>1 DEF DispatchThrows, AddJob, Answer, Fault
<1>7. ASSUME NEW t \in Tokens, Start(t) PROVE TypeOK'
  BY <1>7 DEF Start, Goto
<1>8. ASSUME NEW t \in Tokens, Handle(t) PROVE TypeOK'
  BY <1>8 DEF Handle, Goto
<1>9. ASSUME NEW t \in Tokens, MarkProcessed(t) PROVE TypeOK'
  <2>1. row' \in Rows
    BY <1>9, RowsWritten DEF MarkProcessed
  <2> QED BY <1>9, <2>1 DEF MarkProcessed, Goto, Fault
<1>10. ASSUME NEW t \in Tokens, MarkFailed(t) PROVE TypeOK'
  <2>1. row' \in Rows
    BY <1>10, RowsWritten DEF MarkFailed
  <2> QED BY <1>10, <2>1, RethrowType DEF MarkFailed, Fault
<1>11. ASSUME NEW t \in Tokens, HandleThrows(t) PROVE TypeOK'
  BY <1>11 DEF HandleThrows, Goto, Fault, OnError
<1>12. ASSUME NEW t \in Tokens, MarkThrows(t) PROVE TypeOK'
  <2>1. row' \in Rows
    BY <1>12, RowsWritten DEF MarkThrows
  <2> QED BY <1>12, <2>1 DEF MarkThrows, Goto, Fault
<1>13. ASSUME NEW t \in Tokens, MarkFailedThrows(t) PROVE TypeOK'
  <2>1. row' \in Rows
    BY <1>13, RowsWritten DEF MarkFailedThrows
  <2> QED BY <1>13, <2>1, RethrowType DEF MarkFailedThrows, Fault
<1>14. ASSUME NEW t \in Tokens, WorkerDies(t) PROVE TypeOK'
  BY <1>14 DEF WorkerDies, Goto, Fault
<1>15. ASSUME Lapse PROVE TypeOK'
  <2>1. row' \in Rows
    BY <1>15, RowsWritten DEF Lapse
  <2> QED BY <1>15, <2>1 DEF Lapse, Goto, Fault
<1>16. ASSUME Prune PROVE TypeOK'
  <2>1. row' \in Rows
    BY Zenon, <1>16, RowsWritten DEF Prune
  <2> QED BY <1>16, <2>1 DEF Prune, Goto, Fault
<1> QED
  BY ZenonT(30), <1>1, <1>2, <1>3, <1>4, <1>5, <1>6, <1>7, <1>8,
     <1>9, <1>10, <1>11, <1>12, <1>13, <1>14, <1>15, <1>16
  DEF Next, Delivery, Job, JobFault

\* A claim that is taken is nobody else's.
LEMMA TakeTokens ==
  ASSUME TypeOK, TokenInv, ClaimsPaid, Claimable, NEW p \in Deliveries, Take(p),
         UNCHANGED <<job, tries>>
  PROVE  TokenInv'
<1>1. claims \in Nat /\ claims + 1 \in Tokens
  BY NextToken DEF TypeOK
<1>2. job[claims + 1] = "none"
  BY <1>1 DEF TokenInv
<1>3. /\ claims' = claims + 1 /\ row'.token = claims + 1
      /\ pc' = [pc EXCEPT ![p] = "dispatch"] /\ mine' = [mine EXCEPT ![p] = claims + 1]
  BY DEF Take, Processing
<1>4. \A t \in Tokens : job'[t] # "none" => t <= claims'
  BY <1>1, <1>3 DEF TokenInv, Tokens
<1>5. \A q \in Deliveries \ {p} : pc'[q] = "dispatch" =>
        mine'[q] \in 1 .. claims /\ job'[mine'[q]] = "none" /\ mine'[q] = mine[q]
          /\ pc[q] = "dispatch"
  BY <1>3 DEF TokenInv, TypeOK
<1>6. mine'[p] = claims + 1 /\ job'[mine'[p]] = "none"
  BY <1>2, <1>3 DEF TypeOK
<1>7. \A q \in Deliveries : pc'[q] = "dispatch" =>
        /\ mine'[q] \in 1 .. claims' /\ job'[mine'[q]] = "none"
        /\ \A o \in Deliveries \ {q} : pc'[o] = "dispatch" => mine'[o] # mine'[q]
  BY <1>1, <1>3, <1>5, <1>6 DEF TokenInv
<1> QED BY <1>1, <1>3, <1>4, <1>7 DEF TokenInv

\* Every step keeps the claims apart: a new one has a fresh token.
LEMMA NextTokens ==
  ASSUME IInv, Next
  PROVE  TokenInv'
<1> USE DEF IInv
<1>1. ASSUME NEW p \in Deliveries, Deliver(p) PROVE TokenInv'
  BY <1>1 DEF Deliver, TypeOK, TokenInv, Tokens, Rows
<1>2. ASSUME NEW p \in Deliveries, Insert(p) PROVE TokenInv'
  <2>1. CASE row.state = "absent"
    BY <1>2, <2>1, ClaimableNow, TakeTokens DEF Insert
  <2>2. CASE ~(row.state = "absent")
    <3>1. /\ UNCHANGED <<row, claims, job, tries>>
          /\ \A q \in Deliveries : pc'[q] = "dispatch" => pc[q] = "dispatch" /\ mine'[q] = mine[q]
      BY <1>2, <2>2 DEF Insert, Answer, TypeOK
    <3> QED BY <3>1 DEF TokenInv
  <2> QED BY <2>1, <2>2
<1>3. ASSUME NEW p \in Deliveries, Update(p) PROVE TokenInv'
  <2>1. CASE Reclaimable
    BY <1>3, <2>1, ClaimableNow, TakeTokens DEF Update
  <2>2. CASE ~(Reclaimable)
    <3>1. /\ UNCHANGED <<row, claims, job, tries>>
          /\ \A q \in Deliveries : pc'[q] = "dispatch" => pc[q] = "dispatch" /\ mine'[q] = mine[q]
      BY <1>3, <2>2 DEF Update, Answer, TypeOK
    <3> QED BY <3>1 DEF TokenInv
  <2> QED BY <2>1, <2>2
<1>4. ASSUME NEW p \in Deliveries, Dispatch(p) PROVE TokenInv'
  BY <1>4 DEF Dispatch, Answer, AddJob, TypeOK, TokenInv, Tokens, Rows
<1>5. ASSUME NEW p \in Deliveries, ClaimThrows(p) PROVE TokenInv'
  BY <1>5 DEF ClaimThrows, Answer, Fault, TypeOK, TokenInv, Tokens, Rows, Processing
<1>6. ASSUME NEW p \in Deliveries, DispatchThrows(p) PROVE TokenInv'
  BY SMTT(30), <1>6 DEF DispatchThrows, Answer, AddJob, Fault, TypeOK, TokenInv, Tokens, Rows
<1>7. ASSUME NEW t \in Tokens, Start(t) PROVE TokenInv'
  BY <1>7 DEF Start, Goto, TypeOK, TokenInv, Tokens, Rows
<1>8. ASSUME NEW t \in Tokens, Handle(t) PROVE TokenInv'
  BY <1>8 DEF Handle, Goto, TypeOK, TokenInv, Tokens, Rows
<1>9. ASSUME NEW t \in Tokens, MarkProcessed(t) PROVE TokenInv'
  BY <1>9 DEF MarkProcessed, Goto, TypeOK, TokenInv, Tokens, Rows, Processed
<1>10. ASSUME NEW t \in Tokens, MarkFailed(t) PROVE TokenInv'
  BY <1>10 DEF MarkFailed, Rethrow, TypeOK, TokenInv, Tokens, Rows, AttemptsUsedUp, Failed
<1>11. ASSUME NEW t \in Tokens, HandleThrows(t) PROVE TokenInv'
  BY <1>11 DEF HandleThrows, Goto, Fault, TypeOK, TokenInv, Tokens, Rows
<1>12. ASSUME NEW t \in Tokens, MarkThrows(t) PROVE TokenInv'
  BY <1>12 DEF MarkThrows, Goto, Fault, TypeOK, TokenInv, Tokens, Rows, Processed
<1>13. ASSUME NEW t \in Tokens, MarkFailedThrows(t) PROVE TokenInv'
  BY <1>13 DEF MarkFailedThrows, Rethrow, Fault, TypeOK, TokenInv, Tokens, Rows, AttemptsUsedUp, Failed
<1>14. ASSUME NEW t \in Tokens, WorkerDies(t) PROVE TokenInv'
  BY <1>14 DEF WorkerDies, Goto, Fault, TypeOK, TokenInv, Tokens, Rows
<1>15. ASSUME Lapse PROVE TokenInv'
  BY Zenon, <1>15 DEF Lapse, Fault, TypeOK, TokenInv, Tokens, Rows
<1>16. ASSUME Prune PROVE TokenInv'
  BY SMTT(30), <1>16 DEF Prune, Fault, TypeOK, TokenInv, Tokens, Rows, Absent
<1> QED
  BY ZenonT(30), <1>1, <1>2, <1>3, <1>4, <1>5, <1>6, <1>7, <1>8,
     <1>9, <1>10, <1>11, <1>12, <1>13, <1>14, <1>15, <1>16
  DEF Next, Delivery, Job, JobFault

\* Every step keeps markProcessed behind an application.
LEMMA NextApplied ==
  ASSUME IInv, Next
  PROVE  AppliedInv' /\ ProcessedMeansApplied'
<1> USE DEF IInv, TypeOK, AppliedInv, ProcessedMeansApplied
<1>1. ASSUME NEW p \in Deliveries, Deliver(p) PROVE AppliedInv' /\ ProcessedMeansApplied'
  BY Zenon, <1>1 DEF Deliver
<1>2. ASSUME NEW p \in Deliveries, Insert(p) PROVE AppliedInv' /\ ProcessedMeansApplied'
  BY <1>2 DEF Insert, Take, Processing
<1>3. ASSUME NEW p \in Deliveries, Update(p) PROVE AppliedInv' /\ ProcessedMeansApplied'
  BY <1>3 DEF Update, Take, Answer, Processing
<1>4. ASSUME NEW p \in Deliveries, Dispatch(p) PROVE AppliedInv' /\ ProcessedMeansApplied'
  BY <1>4 DEF Dispatch, Answer, AddJob
<1>5. ASSUME NEW p \in Deliveries, ClaimThrows(p) PROVE AppliedInv' /\ ProcessedMeansApplied'
  BY <1>5 DEF ClaimThrows, Answer, Fault, Processing
<1>6. ASSUME NEW p \in Deliveries, DispatchThrows(p) PROVE AppliedInv' /\ ProcessedMeansApplied'
  BY <1>6 DEF DispatchThrows, Answer, AddJob, Fault
<1>7. ASSUME NEW t \in Tokens, Start(t) PROVE AppliedInv' /\ ProcessedMeansApplied'
  BY <1>7 DEF Start, Goto
<1>8. ASSUME NEW t \in Tokens, Handle(t) PROVE AppliedInv' /\ ProcessedMeansApplied'
  BY <1>8 DEF Handle, Goto
<1>9. ASSUME NEW t \in Tokens, MarkProcessed(t) PROVE AppliedInv' /\ ProcessedMeansApplied'
  BY <1>9 DEF MarkProcessed, Goto, Processed
<1>10. ASSUME NEW t \in Tokens, MarkFailed(t) PROVE AppliedInv' /\ ProcessedMeansApplied'
  BY <1>10 DEF MarkFailed, Rethrow, Failed
<1>11. ASSUME NEW t \in Tokens, HandleThrows(t) PROVE AppliedInv' /\ ProcessedMeansApplied'
  BY <1>11 DEF HandleThrows, Goto, Fault, OnError
<1>12. ASSUME NEW t \in Tokens, MarkThrows(t) PROVE AppliedInv' /\ ProcessedMeansApplied'
  BY <1>12 DEF MarkThrows, Goto, Fault, Processed
<1>13. ASSUME NEW t \in Tokens, MarkFailedThrows(t) PROVE AppliedInv' /\ ProcessedMeansApplied'
  BY <1>13 DEF MarkFailedThrows, Rethrow, Fault, Failed
<1>14. ASSUME NEW t \in Tokens, WorkerDies(t) PROVE AppliedInv' /\ ProcessedMeansApplied'
  BY <1>14 DEF WorkerDies, Goto, Fault
<1>15. ASSUME Lapse PROVE AppliedInv' /\ ProcessedMeansApplied'
  BY <1>15 DEF Lapse, Fault
<1>16. ASSUME Prune PROVE AppliedInv' /\ ProcessedMeansApplied'
  BY <1>16 DEF Prune, Fault, Absent
<1> QED
  BY Zenon, <1>1, <1>2, <1>3, <1>4, <1>5, <1>6, <1>7, <1>8,
     <1>9, <1>10, <1>11, <1>12, <1>13, <1>14, <1>15, <1>16
  DEF Next, Delivery, Job, JobFault

\* How the claims that can still lead to an application are counted.
LEMMA Counting ==
  ASSUME NEW S \in SUBSET Tokens, NEW T \in SUBSET Tokens
  PROVE  /\ Cardinality(S) \in Nat /\ Cardinality(T) \in Nat
         /\ T \subseteq S => Cardinality(T) <= Cardinality(S)
         /\ \A t \in S : T \subseteq S \ {t} => Cardinality(T) + 1 <= Cardinality(S)
         /\ \A t \in Tokens : T \subseteq S \cup {t} => Cardinality(T) <= Cardinality(S) + 1
<1>1. IsFiniteSet(Tokens)
  BY FS_Interval DEF Tokens
<1>2. /\ IsFiniteSet(S) /\ IsFiniteSet(T)
      /\ Cardinality(S) \in Nat /\ Cardinality(T) \in Nat
  BY <1>1, FS_Subset, FS_CardinalityType
<1>3. T \subseteq S => Cardinality(T) <= Cardinality(S)
  BY <1>2, FS_Subset
<1>4. ASSUME NEW t \in S, T \subseteq S \ {t}
      PROVE  Cardinality(T) + 1 <= Cardinality(S)
  <2>1. IsFiniteSet(S \ {t}) /\ Cardinality(S \ {t}) = Cardinality(S) - 1
    BY <1>2, FS_RemoveElement
  <2>2. Cardinality(T) <= Cardinality(S \ {t})
    BY <1>4, <2>1, FS_Subset
  <2> QED BY <1>2, <2>1, <2>2
<1>5. ASSUME NEW t \in Tokens, T \subseteq S \cup {t}
      PROVE  Cardinality(T) <= Cardinality(S) + 1
  <2>1. IsFiniteSet(S \cup {t})
        /\ (Cardinality(S \cup {t}) = Cardinality(S) \/ Cardinality(S \cup {t}) = Cardinality(S) + 1)
    BY <1>2, FS_AddElement
  <2>2. Cardinality(T) <= Cardinality(S \cup {t})
    BY <1>5, <2>1, FS_Subset
  <2> QED BY <1>2, <2>1, <2>2
<1> QED BY <1>2, <1>3, <1>4, <1>5

(* What a step does to the two budgets. *)
\* Nothing is gained.
Quiet ==
  /\ Cans' \subseteq Cans /\ (Claimable' => Claimable) /\ (Failing' => Failing)
  /\ UNCHANGED <<claims, applied, spent>>

\* A fault, after which the event may be claimed.
FaultyStep ==
  /\ Cans' \subseteq Cans
  /\ spent' = spent + 1 /\ UNCHANGED <<claims, applied>>

\* A fault that lets one claim apply the event again.
FaultyGain ==
  /\ \E t \in Tokens : Cans' \subseteq Cans \cup {t}
  /\ Claimable' => Claimable
  /\ spent' = spent + 1 /\ UNCHANGED <<claims, applied>>

\* A claim is made, and it can apply the event.
Taken ==
  /\ \E t \in Tokens : Cans' \subseteq Cans \cup {t}
  /\ Claimable /\ ~Claimable' /\ ~Failing'
  /\ claims' = claims + 1 /\ UNCHANGED <<applied, spent>>

\* A claim is made and lost at once.
TakenInVain ==
  /\ Cans' \subseteq Cans /\ Claimable
  /\ claims' = claims + 1 /\ spent' = spent + 1 /\ UNCHANGED applied

\* A claim that could apply the event does, and cannot again.
AppliedOnce ==
  /\ \E t \in Cans : Cans' \subseteq Cans \ {t}
  /\ (Claimable' => Claimable) /\ (Failing' => Failing)
  /\ applied' = applied + 1 /\ UNCHANGED <<claims, spent>>

\* A fault of the applier, which may have taken effect.
AppliedAndFailed ==
  /\ Cans' \subseteq Cans /\ (Claimable' => Claimable)
  /\ (applied' = applied \/ applied' = applied + 1)
  /\ spent' = spent + 1 /\ UNCHANGED claims

\* A claim that could apply the event gives it up.
GivenUp ==
  /\ \E t \in Cans : Cans' \subseteq Cans \ {t}
  /\ Failing /\ UNCHANGED <<claims, applied, spent>>

\* No kind of step overdraws a budget.
LEMMA Paid ==
  ASSUME IInv, claims' \in Nat, applied' \in Nat, spent' \in Nat,
         \/ Quiet \/ FaultyStep \/ FaultyGain \/ Taken
         \/ TakenInVain \/ AppliedOnce \/ AppliedAndFailed \/ GivenUp
  PROVE  ClaimsPaid' /\ CansPaid'
<1> DEFINE S == Cardinality(Cans)
           T == Cardinality(Cans')
           c == IF Claimable THEN 1 ELSE 0
           d == IF Claimable' THEN 1 ELSE 0
           e == IF Claimable \/ Failing THEN 1 ELSE 0
           f == IF Claimable' \/ Failing' THEN 1 ELSE 0
<1>1. claims \in Nat /\ applied \in Nat /\ spent \in Nat
      /\ claims + e <= spent + 1 /\ applied + S + c <= spent + 1
  BY DEF IInv, TypeOK, ClaimsPaid, CansPaid
<1>2. Cans \in SUBSET Tokens /\ Cans' \in SUBSET Tokens
  BY DEF Cans
<1>3. /\ S \in Nat /\ T \in Nat
      /\ Cans' \subseteq Cans => T <= S
      /\ (\E t \in Cans : Cans' \subseteq Cans \ {t}) => T + 1 <= S
      /\ (\E t \in Tokens : Cans' \subseteq Cans \cup {t}) => T <= S + 1
  BY <1>2, Counting
<1>4. c \in {0, 1} /\ d \in {0, 1} /\ e \in {0, 1} /\ f \in {0, 1}
  OBVIOUS
<1>5. /\ Claimable => c = 1 /\ e = 1
      /\ Failing => e = 1
      /\ ~Claimable' => d = 0
      /\ ~Claimable' /\ ~Failing' => f = 0
      /\ (Claimable' => Claimable) => d <= c
      /\ (Claimable' => Claimable) /\ (Failing' => Failing) => f <= e
  OBVIOUS
<1> SUFFICES claims' + f <= spent' + 1 /\ applied' + T + d <= spent' + 1
  BY Zenon DEF ClaimsPaid, CansPaid
<1> HIDE DEF S, T, c, d, e, f
<1>6. CASE Quiet
  BY <1>1, <1>3, <1>4, <1>5, <1>6 DEF Quiet
<1>7. CASE FaultyStep
  BY <1>1, <1>3, <1>4, <1>5, <1>7 DEF FaultyStep
<1>8. CASE FaultyGain
  BY <1>1, <1>3, <1>4, <1>5, <1>8 DEF FaultyGain
<1>9. CASE Taken
  BY <1>1, <1>3, <1>4, <1>5, <1>9 DEF Taken
<1>10. CASE TakenInVain
  BY <1>1, <1>3, <1>4, <1>5, <1>10 DEF TakenInVain
<1>11. CASE AppliedOnce
  BY <1>1, <1>3, <1>4, <1>5, <1>11 DEF AppliedOnce
<1>12. CASE AppliedAndFailed
  <2>1. T <= S /\ d <= c /\ spent' = spent + 1 /\ claims' = claims
    BY <1>3, <1>5, <1>12 DEF AppliedAndFailed
  <2>2. applied' = applied \/ applied' = applied + 1
    BY <1>12 DEF AppliedAndFailed
  <2>3. CASE applied' = applied
    BY <1>1, <1>3, <1>4, <2>1, <2>3
  <2>4. CASE applied' = applied + 1
    BY <1>1, <1>3, <1>4, <2>1, <2>4
  <2> QED BY <2>2, <2>3, <2>4
<1>13. CASE GivenUp
  BY SMTT(30), <1>1, <1>3, <1>4, <1>5, <1>13 DEF GivenUp
<1> QED BY Zenon, <1>6, <1>7, <1>8, <1>9, <1>10, <1>11, <1>12, <1>13

\* A step that leaves the row, the jobs and who dispatches alone gains nothing.
LEMMA NothingGained ==
  ASSUME UNCHANGED <<row, job, claims, applied, spent>>,
         \A t \in Tokens : Dispatching(t)' <=> Dispatching(t),
         TypeOK, TokenInv
  PROVE  Quiet
<1>1. row.state = "processing" => row.token \in Tokens
  BY DEF TokenInv, TypeOK, Tokens
<1> QED BY Zenon, <1>1 DEF Quiet, Cans, Can, Held, Claimable, Working, Failing

\* A claim that has a job is not being dispatched.
LEMMA DispatchedOnce ==
  ASSUME TypeOK, TokenInv, NEW t \in Tokens, job[t] # "none"
  PROVE  ~Dispatching(t)
BY DEF TypeOK, TokenInv, Dispatching

\* A job's step moves that job only, and no delivery.
LEMMA JobAlone ==
  ASSUME TypeOK, TokenInv, NEW t \in Tokens, NEW l, job' = [job EXCEPT ![t] = l],
         UNCHANGED <<pc, mine>>
  PROVE  /\ job'[t] = l /\ \A s \in Tokens \ {t} : job'[s] = job[s]
         /\ \A s \in Tokens : Dispatching(s)' <=> Dispatching(s)
         /\ row.state = "processing" => row.token \in Tokens
         /\ job[t] # "none" => ~Dispatching(t)
<1>1. job'[t] = l /\ \A s \in Tokens \ {t} : job'[s] = job[s]
  BY DEF TypeOK
<1>2. \A s \in Tokens : Dispatching(s)' <=> Dispatching(s)
  BY DEF Dispatching
<1>3. row.state = "processing" => row.token \in Tokens
  BY DEF TypeOK, TokenInv, Tokens
<1> QED BY <1>1, <1>2, <1>3, DispatchedOnce

\* A claim that is taken can apply the event, and nobody else can claim it.
LEMMA TakeGains ==
  ASSUME TypeOK, TokenInv, ClaimsPaid, Claimable, NEW p \in Deliveries, Take(p),
         UNCHANGED <<job, applied, spent>>
  PROVE  Taken
<1>1. claims \in Nat /\ claims + 1 \in Tokens /\ NULL \notin Tokens
  BY NextToken DEF TypeOK
<1>2. job[claims + 1] = "none"
  BY <1>1 DEF TokenInv
<1>3. /\ row'.state = "processing" /\ row'.token = claims + 1 /\ row'.stale = FALSE
      /\ claims' = claims + 1
  BY DEF Take, Processing
<1>4. pc'[p] = "dispatch" /\ mine'[p] = claims + 1
  BY DEF Take, TypeOK
<1>5. PICK n \in Tokens : n = claims + 1
  BY Zenon, <1>1
<1>6. ~Claimable' /\ ~Failing'
  <2>1. Dispatching(n)'
    BY <1>4, <1>5 DEF Dispatching
  <2>2. row'.token = n /\ Working(n)' /\ job'[n] = "none"
    BY Zenon, <1>2, <1>3, <1>5, <2>1 DEF Working
  <2> QED BY <1>3, <2>2 DEF Claimable, Failing, Held
<1>7. Cans' \subseteq Cans \cup {claims + 1}
  BY <1>1, <1>3 DEF Cans, Can, Held
<1> QED BY Zenon, <1>1, <1>3, <1>6, <1>7 DEF Taken

\* Every step is of one of these kinds, and so stays within the budgets.
LEMMA NextPaid ==
  ASSUME IInv, Next
  PROVE  ClaimsPaid' /\ CansPaid'
<1> DEFINE Budgeted == \/ Quiet \/ FaultyStep \/ FaultyGain \/ Taken
                       \/ TakenInVain \/ AppliedOnce \/ AppliedAndFailed \/ GivenUp
<1> TypeOK /\ TokenInv /\ ClaimsPaid
  BY DEF IInv
<1>1. ASSUME NEW p \in Deliveries, Deliver(p) PROVE Budgeted
  <2>1. \A s \in Tokens : Dispatching(s)' <=> Dispatching(s)
    BY <1>1 DEF Deliver, Dispatching, TypeOK
  <2> QED BY Zenon, <1>1, <2>1, NothingGained DEF Deliver
<1>2. ASSUME NEW p \in Deliveries, Insert(p) PROVE Budgeted
  <2>1. CASE row.state = "absent"
    BY <1>2, <2>1, ClaimableNow, TakeGains DEF Insert
  <2>2. CASE ~(row.state = "absent")
    <3>1. \A s \in Tokens : Dispatching(s)' <=> Dispatching(s)
      BY <1>2, <2>2 DEF Insert, Answer, Dispatching, TypeOK
    <3> QED BY Zenon, <1>2, <2>2, <3>1, NothingGained DEF Insert
  <2> QED BY <2>1, <2>2
<1>3. ASSUME NEW p \in Deliveries, Update(p) PROVE Budgeted
  <2>1. CASE Reclaimable
    BY Zenon, <1>3, <2>1, ClaimableNow, TakeGains DEF Update
  <2>2. CASE ~(Reclaimable)
    <3>1. \A s \in Tokens : Dispatching(s)' <=> Dispatching(s)
      BY SMTT(30), <1>3, <2>2 DEF Update, Answer, Dispatching, TypeOK
    <3> QED BY Zenon, <1>3, <2>2, <3>1, NothingGained DEF Update
  <2> QED BY <2>1, <2>2
<1>4. ASSUME NEW p \in Deliveries, Dispatch(p) PROVE Budgeted
  <2>1. mine[p] \in Tokens /\ job[mine[p]] = "none" /\ Dispatching(mine[p])
    BY <1>4 DEF Dispatch, TokenInv, Dispatching, Tokens, TypeOK
  <2>2. \A s \in Tokens \ {mine[p]} :
          job'[s] = job[s] /\ (Dispatching(s)' <=> Dispatching(s))
    BY <1>4, <2>1 DEF Dispatch, AddJob, Answer, Dispatching, TypeOK
  <2>3. job'[mine[p]] = "waiting"
    BY Zenon, <1>4, <2>1 DEF Dispatch, AddJob, TypeOK
  <2>4. row.state = "processing" => row.token \in Tokens
    BY DEF TypeOK, TokenInv, Tokens
  <2>5. Cans' \subseteq Cans
    BY ZenonT(30), <1>4, <2>1, <2>2, <2>3 DEF Dispatch, Cans, Can, Held
  <2>6. (Claimable' => Claimable) /\ (Failing' => Failing)
    BY <1>4, <2>1, <2>2, <2>3, <2>4 DEF Dispatch, Claimable, Working, Failing, Held
  <2> QED BY ZenonT(30), <1>4, <2>5, <2>6 DEF Dispatch, Quiet
<1>5. ASSUME NEW p \in Deliveries, ClaimThrows(p) PROVE Budgeted
  <2>1. \A s \in Tokens : Dispatching(s)' <=> Dispatching(s)
    BY Zenon, <1>5 DEF ClaimThrows, Answer, Dispatching, TypeOK
  <2>2. CASE UNCHANGED <<row, claims>>
    BY Zenon, <1>5, <2>1, <2>2 DEF ClaimThrows, Fault, FaultyStep, Cans, Can, Held
  <2>3. CASE ~UNCHANGED <<row, claims>>
    <3>1. Claimable
      BY <1>5, <2>3, ClaimableNow DEF ClaimThrows
    <3>2. claims' = claims + 1 /\ row'.token = claims + 1
      BY <1>5, <2>3 DEF ClaimThrows, Processing
    <3>3. job[claims + 1] = "none" /\ ~Dispatching(claims + 1)
      BY <3>1, NextToken DEF TypeOK, TokenInv, Dispatching
    <3>4. Cans' \subseteq Cans
      BY <1>5, <2>1, <3>2, <3>3 DEF ClaimThrows, Cans, Can, Held
    <3> QED BY <1>5, <3>1, <3>2, <3>4 DEF ClaimThrows, Fault, TakenInVain
  <2> QED BY <2>2, <2>3
<1>6. ASSUME NEW p \in Deliveries, DispatchThrows(p) PROVE Budgeted
  <2>1. mine[p] \in Tokens /\ job[mine[p]] = "none" /\ Dispatching(mine[p])
    BY <1>6 DEF DispatchThrows, TokenInv, Dispatching, Tokens, TypeOK
  <2>2. \A s \in Tokens \ {mine[p]} :
          job'[s] = job[s] /\ (Dispatching(s)' <=> Dispatching(s))
    BY <1>6, <2>1 DEF DispatchThrows, AddJob, Answer, Dispatching, TypeOK
  <2>3. job'[mine[p]] \in {"none", "waiting"}
    BY <1>6, <2>1 DEF DispatchThrows, AddJob, TypeOK
  <2>4. Cans' \subseteq Cans
    BY Zenon, <1>6, <2>1, <2>2, <2>3 DEF DispatchThrows, Cans, Can, Held
  <2> QED BY ZenonT(30), <1>6, <2>4 DEF DispatchThrows, Fault, FaultyStep
<1>7. ASSUME NEW t \in Tokens, Start(t) PROVE Budgeted
  <2> DEFINE l == IF Held(t) THEN "handle" ELSE "done"
  <2>1. /\ job'[t] = l /\ \A s \in Tokens \ {t} : job'[s] = job[s]
        /\ \A s \in Tokens : Dispatching(s)' <=> Dispatching(s)
        /\ row.state = "processing" => row.token \in Tokens
        /\ ~Dispatching(t)
    BY Zenon, <1>7, JobAlone DEF Start, Goto, Rethrow
  <2>2. Cans' \subseteq Cans
    BY ZenonT(30), <1>7, <2>1 DEF Start, Cans, Can, Held
  <2>3. (Claimable' => Claimable) /\ (Failing' => Failing)
    BY <1>7, <2>1 DEF Start, Claimable, Working, Failing, Held
  <2> QED BY <1>7, <2>2, <2>3 DEF Start, Quiet
<1>8. ASSUME NEW t \in Tokens, Handle(t) PROVE Budgeted
  <2> DEFINE l == "mark"
  <2>1. /\ job'[t] = l /\ \A s \in Tokens \ {t} : job'[s] = job[s]
        /\ \A s \in Tokens : Dispatching(s)' <=> Dispatching(s)
        /\ row.state = "processing" => row.token \in Tokens
        /\ ~Dispatching(t)
    BY Zenon, <1>8, JobAlone DEF Handle, Goto, Rethrow
  <2>2. t \in Cans /\ Cans' \subseteq Cans \ {t}
    BY ZenonT(30), <1>8, <2>1 DEF Handle, Cans, Can, Held
  <2>3. (Claimable' => Claimable) /\ (Failing' => Failing)
    BY <1>8, <2>1 DEF Handle, Claimable, Working, Failing, Held
  <2> QED BY <1>8, <2>2, <2>3 DEF Handle, AppliedOnce
<1>9. ASSUME NEW t \in Tokens, MarkProcessed(t) PROVE Budgeted
  <2> DEFINE l == "done"
  <2>1. /\ job'[t] = l /\ \A s \in Tokens \ {t} : job'[s] = job[s]
        /\ \A s \in Tokens : Dispatching(s)' <=> Dispatching(s)
        /\ row.state = "processing" => row.token \in Tokens
        /\ ~Dispatching(t)
    BY Zenon, <1>9, JobAlone DEF MarkProcessed, Goto, Rethrow
  <2>2. Cans' \subseteq Cans
    BY Zenon, <1>9, <2>1 DEF MarkProcessed, Cans, Can, Held, Processed
  <2>3. (Claimable' => Claimable) /\ (Failing' => Failing)
    BY Zenon, <1>9, <2>1 DEF MarkProcessed, Claimable, Working, Failing, Held, Processed
  <2> QED BY <1>9, <2>2, <2>3 DEF MarkProcessed, Quiet
<1>10. ASSUME NEW t \in Tokens, MarkFailed(t) PROVE Budgeted
  <2> DEFINE l == IF AttemptsUsedUp(tries[t] + 1) THEN "dead" ELSE "waiting"
  <2>1. /\ job'[t] = l /\ \A s \in Tokens \ {t} : job'[s] = job[s]
        /\ \A s \in Tokens : Dispatching(s)' <=> Dispatching(s)
        /\ row.state = "processing" => row.token \in Tokens
        /\ ~Dispatching(t)
    BY Zenon, <1>10, JobAlone DEF MarkFailed, Goto, Rethrow
  <2>2. CASE Held(t)
    <3>1. t \in Cans /\ Cans' \subseteq Cans \ {t} /\ Failing
      BY Zenon, <1>10, <2>1, <2>2 DEF MarkFailed, Cans, Can, Held, Failing, Failed
    <3> QED BY SMTT(30), <1>10, <3>1 DEF MarkFailed, GivenUp
  <2>3. CASE ~Held(t)
    <3>1. Cans' \subseteq Cans
      BY Zenon, <1>10, <2>1, <2>3 DEF MarkFailed, Cans, Can, Held
    <3>2. (Claimable' => Claimable) /\ (Failing' => Failing)
      BY Zenon, <1>10, <2>1, <2>3 DEF MarkFailed, Claimable, Working, Failing, Held
    <3> QED BY SMTT(30), <1>10, <3>1, <3>2 DEF MarkFailed, Quiet
  <2> QED BY <2>2, <2>3
<1>11. ASSUME NEW t \in Tokens, HandleThrows(t) PROVE Budgeted
  <2> DEFINE l == OnError
  <2>1. /\ job'[t] = l /\ \A s \in Tokens \ {t} : job'[s] = job[s]
        /\ \A s \in Tokens : Dispatching(s)' <=> Dispatching(s)
        /\ row.state = "processing" => row.token \in Tokens
        /\ ~Dispatching(t)
    BY Zenon, <1>11, JobAlone DEF HandleThrows, Goto, Rethrow
  <2>2. Cans' \subseteq Cans
    BY Zenon, <1>11, <2>1 DEF HandleThrows, Cans, Can, Held, OnError
  <2>3. Claimable' => Claimable
    BY Zenon, <1>11, <2>1 DEF HandleThrows, Claimable, Working, OnError
  <2>4. (applied' = applied \/ applied' = applied + 1) /\ spent' = spent + 1 /\ claims' = claims
    BY <1>11 DEF HandleThrows, Fault
  <2> QED BY <2>2, <2>3, <2>4 DEF AppliedAndFailed
<1>12. ASSUME NEW t \in Tokens, MarkThrows(t) PROVE Budgeted
  <2> DEFINE l == "fail"
  <2>1. /\ job'[t] = l /\ \A s \in Tokens \ {t} : job'[s] = job[s]
        /\ \A s \in Tokens : Dispatching(s)' <=> Dispatching(s)
        /\ row.state = "processing" => row.token \in Tokens
        /\ ~Dispatching(t)
    BY Zenon, <1>12, JobAlone DEF MarkThrows, Goto, Rethrow
  <2>2. Cans' \subseteq Cans \cup {t}
    <3> SUFFICES ASSUME NEW s \in Tokens, s # t, Can(s)' PROVE Can(s)
      BY Zenon DEF Cans
    <3>1. Held(s)' => Held(s)
      BY <1>12 DEF MarkThrows, Held, Processed
    <3> QED BY Zenon, <2>1, <3>1 DEF Can
  <2>3. Claimable' => Claimable
    <3>1. row' = row \/ row' = Processed
      BY Zenon, <1>12 DEF MarkThrows
    <3>2. CASE row' = Processed
      BY Zenon, <3>2 DEF Claimable, Processed
    <3>3. CASE row' = row
      BY Zenon, <2>1, <3>3 DEF Claimable, Working
    <3> QED BY <3>1, <3>2, <3>3
  <2> QED BY <1>12, <2>2, <2>3 DEF MarkThrows, Fault, FaultyGain
<1>13. ASSUME NEW t \in Tokens, MarkFailedThrows(t) PROVE Budgeted
  <2> DEFINE l == IF AttemptsUsedUp(tries[t] + 1) THEN "dead" ELSE "waiting"
  <2>1. /\ job'[t] = l /\ \A s \in Tokens \ {t} : job'[s] = job[s]
        /\ \A s \in Tokens : Dispatching(s)' <=> Dispatching(s)
        /\ row.state = "processing" => row.token \in Tokens
        /\ ~Dispatching(t)
    BY ZenonT(30), <1>13, JobAlone DEF MarkFailedThrows, Goto, Rethrow
  <2>2. Cans' \subseteq Cans
    BY SMTT(30), <1>13, <2>1 DEF MarkFailedThrows, Cans, Can, Held, Failed
  <2> QED BY <1>13, <2>2 DEF MarkFailedThrows, Fault, FaultyStep
<1>14. ASSUME NEW t \in Tokens, WorkerDies(t) PROVE Budgeted
  <2>1. PICK l \in {"waiting", "dead"} : job' = [job EXCEPT ![t] = l]
    BY Zenon, <1>14 DEF WorkerDies, Goto
  <2>2. /\ job'[t] = l /\ \A s \in Tokens \ {t} : job'[s] = job[s]
        /\ \A s \in Tokens : Dispatching(s)' <=> Dispatching(s)
        /\ row.state = "processing" => row.token \in Tokens
        /\ ~Dispatching(t)
    BY Zenon, <1>14, <2>1, JobAlone DEF WorkerDies
  <2>3. CASE l = "dead"
    <3>1. Cans' \subseteq Cans
      BY Zenon, <1>14, <2>2, <2>3 DEF WorkerDies, Cans, Can, Held
    <3> QED BY SMTT(30), <1>14, <3>1 DEF WorkerDies, Fault, FaultyStep
  <2>4. CASE l = "waiting"
    <3>1. Cans' \subseteq Cans \cup {t}
      BY Zenon, <1>14, <2>2 DEF WorkerDies, Cans, Can, Held
    <3>2. Claimable' => Claimable
      BY Zenon, <1>14, <2>2, <2>4 DEF WorkerDies, Claimable, Working
    <3> QED BY Zenon, <1>14, <3>1, <3>2 DEF WorkerDies, Fault, FaultyGain
  <2> QED BY <2>3, <2>4
<1>15. ASSUME Lapse PROVE Budgeted
  <2>1. row'.state = row.state /\ row'.token = row.token
    BY <1>15 DEF Lapse, TypeOK, Rows
  <2>2. \A s \in Tokens : Dispatching(s)' <=> Dispatching(s)
    BY <1>15 DEF Lapse, Dispatching
  <2>3. Cans' \subseteq Cans /\ (Failing' => Failing)
    BY <1>15, <2>1, <2>2 DEF Lapse, Cans, Can, Held, Failing
  <2>4. CASE Working(row.token)
    BY <1>15, <2>3, <2>4 DEF Lapse, Fault, FaultyStep
  <2>5. CASE ~Working(row.token)
    <3>1. Claimable
      BY <1>15, <2>5 DEF Lapse, Claimable
    <3> QED BY <1>15, <2>3, <2>5, <3>1 DEF Lapse, Quiet
  <2> QED BY <2>4, <2>5
<1>16. ASSUME Prune PROVE Budgeted
  <2>1. Cans' \subseteq Cans
    BY Zenon, <1>16 DEF Prune, Absent, Cans, Can, Held
  <2> QED BY Zenon, <1>16, <2>1 DEF Prune, Fault, FaultyStep
<1>17. Budgeted
  BY ZenonT(30), <1>1, <1>2, <1>3, <1>4, <1>5, <1>6, <1>7, <1>8,
     <1>9, <1>10, <1>11, <1>12, <1>13, <1>14, <1>15, <1>16
  DEF Next, Delivery, Job, JobFault
<1>18. claims' \in Nat /\ applied' \in Nat /\ spent' \in Nat
  BY NextType DEF TypeOK
<1> QED BY <1>17, <1>18, Paid

\* The initial state satisfies the inductive invariant.
LEMMA InitIInv == Init => IInv
<1> SUFFICES ASSUME Init PROVE IInv
  OBVIOUS
<1>1. TypeOK
  <2>1. row \in Rows /\ claims \in 0 .. MaxFaults + 1 /\ spent \in 0 .. MaxFaults
    BY RowsWritten DEF Init
  <2>2. tries \in [Tokens -> 0 .. Attempts]
    BY DEF Init
  <2> QED BY Zenon, <2>1, <2>2 DEF Init, TypeOK
<1>2. TokenInv /\ AppliedInv /\ ProcessedMeansApplied
  BY DEF Init, Absent, TokenInv, AppliedInv, ProcessedMeansApplied
<1>3. Cans = {} /\ ~Failing
  BY DEF Init, Absent, Cans, Can, Held, Failing
<1>4. Cardinality(Cans) = 0
  BY <1>3, FS_EmptySet
<1> QED BY <1>1, <1>2, <1>4 DEF Init, IInv, ClaimsPaid, CansPaid

\* So does every state that a stuttering step reaches.
LEMMA StutterIInv == IInv /\ UNCHANGED vars => IInv'
<1> SUFFICES ASSUME IInv, UNCHANGED vars PROVE IInv'
  BY ZenonT(30)
<1>1. /\ TypeOK' /\ TokenInv' /\ AppliedInv' /\ ProcessedMeansApplied'
  BY DEF IInv, vars, TypeOK, TokenInv, AppliedInv, ProcessedMeansApplied
<1>2. \A t \in Tokens : Dispatching(t)' <=> Dispatching(t)
  BY Zenon DEF vars, Dispatching
<1>3. Quiet
  BY <1>2, NothingGained DEF IInv, vars
<1>4. claims' \in Nat /\ applied' \in Nat /\ spent' \in Nat
  BY <1>1 DEF TypeOK
<1>5. ClaimsPaid' /\ CansPaid'
  BY <1>3, <1>4, Paid
<1> QED BY <1>1, <1>5 DEF IInv

\* Claims have tokens of their own, only an applied event is marked, and each
\* application and each claim after the first is paid for by a fault.
THEOREM InductiveInvariant == Spec => []IInv
<1>1. IInv /\ [Next]_vars => IInv'
  <2>1. IInv /\ Next => IInv'
    BY NextType, NextTokens, NextApplied, NextPaid DEF IInv
  <2> QED BY <2>1, StutterIInv
<1> QED BY <1>1, InitIInv, PTL DEF Spec

\* claim, markProcessed and markFailed keep a row's state and its token in step: a
\* row has a token while it is being processed, and only then.
THEOREM TypeCorrect == Spec => []TypeOK
<1>1. IInv => TypeOK
  BY DEF IInv
<1> QED BY <1>1, InductiveInvariant, PTL

\* applyClaimed marks only what was applied: an event that is recorded as processed
\* has taken effect, for any number of deliveries, attempts and faults.
THEOREM NothingMarkedInVain == Spec => []ProcessedMeansApplied
<1>1. IInv => ProcessedMeansApplied
  BY DEF IInv
<1> QED BY <1>1, InductiveInvariant, PTL

\* The claim makes deliveries idempotent: however many there are, an event takes
\* effect once, and once more at most for each fault, overrun lease or prune.
THEOREM DeliveriesAreIdempotent == Spec => []EffectsPaid
<1>1. IInv => EffectsPaid
  <2> SUFFICES ASSUME IInv PROVE EffectsPaid
    OBVIOUS
  <2>1. applied \in Nat /\ spent \in Nat /\ Cardinality(Cans) \in Nat
    <3>1. Cans \in SUBSET Tokens
      BY DEF Cans
    <3> QED BY <3>1, Counting DEF IInv, TypeOK
  <2> QED BY <2>1 DEF IInv, CansPaid, EffectsPaid
<1> QED BY <1>1, InductiveInvariant, PTL

\* No late worker, failing job or delivery undoes a processed row: the WHERE
\* clauses of claim, markProcessed and markFailed pass it by.
THEOREM ProcessedStays == Spec => ProcessedIsFinal
<1> DEFINE Stays == row.state = "processed" => row'.state \in {"processed", "absent"}
<1>1. Next => Stays
  <2> SUFFICES ASSUME Next, row.state = "processed" PROVE row'.state \in {"processed", "absent"}
    OBVIOUS
  <2> USE DEF Held, Reclaimable
  <2>1. ASSUME NEW p \in Deliveries, Delivery(p) PROVE row' = row
    BY Zenon, <2>1 DEF Delivery, Deliver, Insert, Update, Dispatch, ClaimThrows, DispatchThrows
  <2>2. ASSUME NEW t \in Tokens, Job(t) \/ JobFault(t) PROVE row' = row
    BY Zenon, <2>2 DEF Job, JobFault, Start, Handle, MarkProcessed, MarkFailed, HandleThrows,
                MarkThrows, MarkFailedThrows, WorkerDies
  <2>3. CASE Lapse
    BY <2>3 DEF Lapse
  <2>4. CASE Prune
    BY <2>4 DEF Prune, Absent
  <2> QED BY <2>1, <2>2, <2>3, <2>4 DEF Next
<1>2. [Next]_vars => [Stays]_vars
  BY <1>1
<1> QED BY <1>2, PTL DEF Spec, ProcessedIsFinal
=============================================================================
