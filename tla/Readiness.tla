----------------------------- MODULE Readiness -----------------------------
(***************************************************************************)
(* The readiness probe of each role (HealthController and                  *)
(* HealthIndicators): every dependency the role declares is asked, all at  *)
(* once and each under a timeout, while dependencies fail, hang and come   *)
(* back.                                                                   *)
(***************************************************************************)
EXTENDS Naturals

CONSTANTS Probes,       \* probes
          MaxTurns      \* bound on changes of the dependencies

ASSUME ReadinessAssumption == MaxTurns \in Nat

\* API_READINESS, WORKER_READINESS, SCHEDULER_READINESS.
ReadinessChecks == [api |-> {"postgres", "redis"}, worker |-> {"postgres", "queue"},
                    scheduler |-> {"postgres", "queue"}]

VARIABLES dependency,   \* up | down | hung
          turns,
          probe,        \* p -> [role, asked, results], <<>> when not asked for
          seenUp        \* p -> the dependencies that were up at some time since it began

readinessVars == <<dependency, turns, probe, seenUp>>

Dependencies == {"postgres", "redis", "queue"}

NoProbe == [role |-> "none", left |-> {}, results |-> {}, answer |-> 0]

ReadinessInit ==
  /\ dependency = [d \in Dependencies |-> "up"] /\ turns = 0
  /\ probe = [p \in Probes |-> NoProbe] /\ seenUp = [p \in Probes |-> {}]

Up == {d \in Dependencies : dependency[d] = "up"}

\* PostgreSQL and Redis, external.
DependencyTurns ==
  /\ turns < MaxTurns /\ turns' = turns + 1
  /\ \E d \in Dependencies, s \in {"up", "down", "hung"} : dependency' = [dependency EXCEPT ![d] = s]
  /\ seenUp' = [p \in Probes |-> IF probe[p].answer = 0 THEN seenUp[p] \cup {d \in Dependencies : dependency'[d] = "up"}
                                 ELSE seenUp[p]]
  /\ UNCHANGED probe

ready(p) ==
  /\ probe[p] = NoProbe
  /\ \E role \in DOMAIN ReadinessChecks :
       probe' = [probe EXCEPT ![p] = [NoProbe EXCEPT !.role = role, !.left = ReadinessChecks[role]]]
  /\ seenUp' = [seenUp EXCEPT ![p] = Up]
  /\ UNCHANGED <<dependency, turns>>

Reported(p, d, state) ==
  /\ probe' = [probe EXCEPT ![p].left = @ \ {d}, ![p].results = @ \cup {<<d, state>>}]
  /\ UNCHANGED <<dependency, turns, seenUp>>

\* An indicator: what the dependency answers, its error, or withTimeout's.
indicator(p, d) ==
  /\ d \in probe[p].left
  /\ Reported(p, d, IF dependency[d] = "up" THEN "up" ELSE "down")

AllUp(p) == \A r \in probe[p].results : r[2] = "up"

\* HealthCheckService.check: 200 when every result is up, and otherwise the 503
\* whose details readDependencyChecks copies.
CheckEnds(p) ==
  /\ probe[p].role # "none" /\ probe[p].left = {} /\ probe[p].answer = 0
  /\ probe' = [probe EXCEPT ![p].answer = IF AllUp(p) THEN 200 ELSE 503]
  /\ UNCHANGED <<dependency, turns, seenUp>>

ProbeStep(p) == CheckEnds(p) \/ \E d \in Dependencies : indicator(p, d)

ReadinessNext == DependencyTurns \/ \E p \in Probes : ready(p) \/ ProbeStep(p)

ReadinessSpec == ReadinessInit /\ [][ReadinessNext]_readinessVars

ReadinessProgress == \E p \in Probes : ProbeStep(p)
-----------------------------------------------------------------------------
ReadinessTypeOK ==
  /\ dependency \in [Dependencies -> {"up", "down", "hung"}] /\ turns \in 0..MaxTurns
  /\ \A p \in Probes : /\ probe[p].left \subseteq Dependencies /\ probe[p].answer \in {0, 200, 503}
                       /\ probe[p].results \subseteq Dependencies \X {"up", "down"}

\* A role reports ready only when each of its dependencies was up while it was
\* asked, and not ready only when one of them was not.
ReadyMeansUp ==
  \A p \in Probes : probe[p].answer # 0 =>
    LET checks == ReadinessChecks[probe[p].role] IN
    /\ probe[p].answer = 200 => checks \subseteq seenUp[p]
    /\ probe[p].answer = 503 => turns > 0
    /\ probe[p].answer = 503 => \E d \in checks : <<d, "down">> \in probe[p].results

Probing == [role : {"none"} \cup DOMAIN ReadinessChecks, left : SUBSET Dependencies,
            results : SUBSET (Dependencies \X {"up", "down"}), answer : {0, 200, 503}]

\* What probe t has seen up, what it was told and what it has still to ask, when
\* these dependencies are up now and there were n turns.
Explained(t, seen, up, n) ==
  /\ t.role = "none" => t.left = {} /\ t.results = {} /\ t.answer = 0
  /\ t.role # "none" /\ t.answer = 0 => up \subseteq seen
  /\ \A d \in Dependencies : /\ <<d, "up">> \in t.results => d \in seen
                             /\ <<d, "down">> \in t.results => n > 0
  /\ t.role # "none" =>
       \A d \in Dependencies :
         d \in ReadinessChecks[t.role] <=>
           d \in t.left \/ <<d, "up">> \in t.results \/ <<d, "down">> \in t.results
  /\ t.answer # 0 => t.left = {}
  /\ t.answer = 200 => \A d \in Dependencies : <<d, "down">> \notin t.results
  /\ t.answer = 503 => \E d \in Dependencies : <<d, "down">> \in t.results

\* The inductive invariant behind ReadyMeansUp.
ReadinessInv ==
  /\ dependency \in [Dependencies -> {"up", "down", "hung"}] /\ turns \in 0..MaxTurns
  /\ probe \in [Probes -> Probing] /\ seenUp \in [Probes -> SUBSET Dependencies]
  /\ turns = 0 => Up = Dependencies
  /\ \A p \in Probes : Explained(probe[p], seenUp[p], Up, turns)

\* A probe is answered, also while a dependency hangs.
ProbesAreAnswered == \A p \in Probes : probe[p].role # "none" ~> probe[p].answer # 0
=============================================================================
