----------------------------- MODULE MCServices -----------------------------
(***************************************************************************)
(* The components that share no state, checked in one run.  None of them   *)
(* reads or writes a variable of another (each has its own tables, caches  *)
(* and queues), so an interleaving of two of them shows nothing that they  *)
(* do not show apart: a behaviour is one of the component in focus, and    *)
(* the others stay in their initial state.                                 *)
(***************************************************************************)
EXTENDS Notifications, Profiles, Lists, MCProfileList, Entitlements, Platform, Observability,
        Queues, AuthRetention, ErrorCatalog, MCHttpPipeline

CONSTANT Components   \* the components a run is about

VARIABLE focus

servicesVars == <<notificationsVars, auditVars, profilesVars, profileListVars, entitlementsVars,
                  sharedMetricsVars, schedulesVars, processesVars, readinessVars, retentionVars,
                  queuesVars, errorCatalogVars, httpVars, focus>>

\* The components out of focus start where they like, and it does not matter where.
ServicesInit ==
  /\ focus \in Components
  /\ NotificationsInit /\ AuditInit /\ EntitlementsInit /\ SharedMetricsInit /\ SchedulesInit
  /\ ReadinessInit /\ RetentionInit
  /\ ProfilesInit /\ (focus # "profiles" => local = CHOOSE l \in LocalParts : TRUE)
  /\ ProfileListInit /\ (focus # "profile-list" => user = [m \in Members |-> "live"])
  /\ ProcessesInit /\ (focus # "processes" => /\ roles = CHOOSE h \in Hosted : TRUE
                                              /\ providers = CHOOSE l \in ProviderLists : TRUE)
  /\ QueuesInit /\ (focus # "queues" => kept.queue = CHOOSE q \in QUEUES : TRUE)
  /\ ErrorCatalogInit /\ (focus # "errors" => failing = [exception |-> Unknown, languages |-> <<>>, fields |-> {}])
  /\ HttpInit /\ (focus # "http" => redis = "up")

Still(c, vars) == IF focus = c THEN TRUE ELSE UNCHANGED vars

OthersStill ==
  /\ Still("notifications", notificationsVars)
  /\ Still("audit", auditVars)
  /\ Still("profiles", profilesVars)
  /\ Still("profile-list", profileListVars)
  /\ Still("entitlements", entitlementsVars)
  /\ Still("metrics", sharedMetricsVars)
  /\ Still("schedules", schedulesVars)
  /\ Still("processes", processesVars)
  /\ Still("readiness", readinessVars)
  /\ Still("retention", retentionVars)
  /\ Still("queues", queuesVars)
  /\ Still("errors", errorCatalogVars)
  /\ Still("http", httpVars)
  /\ UNCHANGED focus

ServicesNext ==
  \/ focus = "notifications" /\ NotificationsNext /\ OthersStill
  \/ focus = "audit" /\ AuditNext /\ OthersStill
  \/ focus = "profiles" /\ ProfilesNext /\ OthersStill
  \/ focus = "profile-list" /\ ProfileListNext /\ OthersStill
  \/ focus = "entitlements" /\ EntitlementsNext /\ OthersStill
  \/ focus = "metrics" /\ SharedMetricsNext /\ OthersStill
  \/ focus = "schedules" /\ SchedulesNext /\ OthersStill
  \/ focus = "processes" /\ ProcessesNext /\ OthersStill
  \/ focus = "readiness" /\ ReadinessNext /\ OthersStill
  \/ focus = "retention" /\ RetentionNext /\ OthersStill
  \/ focus = "queues" /\ QueuesNext /\ OthersStill
  \/ focus = "errors" /\ ErrorCatalogNext /\ OthersStill
  \/ focus = "http" /\ HttpNext /\ OthersStill

ServicesSpec == ServicesInit /\ [][ServicesNext]_servicesVars

\* The steps each component owes.  The focus never changes, so that weak fairness
\* of their union is weak fairness of the component's own.
ServicesProgress ==
  \/ focus = "notifications" /\ NotificationsProgress /\ OthersStill
  \/ focus = "audit" /\ AuditProgress /\ OthersStill
  \/ focus = "profiles" /\ ProfilesProgress /\ OthersStill
  \/ focus = "metrics" /\ SharedMetricsProgress /\ OthersStill
  \/ focus = "processes" /\ ProcessesProgress /\ OthersStill
  \/ focus = "readiness" /\ ReadinessProgress /\ OthersStill
  \/ focus = "retention" /\ RetentionProgress /\ OthersStill
  \/ focus = "http" /\ HttpProgress /\ OthersStill

FairServicesSpec == ServicesSpec /\ WF_servicesVars(ServicesProgress)

\* Every component's state keeps its type; among others, no prune runs more
\* passes than it is allowed.
ServicesTypeOK ==
  /\ NotificationsTypeOK /\ AuditTypeOK /\ ProfilesTypeOK /\ ProfileListTypeOK /\ EntitlementsTypeOK
  /\ SharedMetricsTypeOK /\ SchedulesTypeOK /\ ProcessesTypeOK /\ ReadinessTypeOK /\ RetentionTypeOK
  /\ QueuesTypeOK /\ HttpTypeOK

\* What was queued has its effect in the end, unless its attempts are used up:
\* the mail is sent, the event is recorded, the registered user has a profile.
QueuedWorkIsDone == QueuedIsMailed /\ DeliveredIsRecorded /\ RegisteredGetsProfile

\* Nobody who calls the process waits for ever, although a source, a dependency
\* or a handler never answers: scrapes, probes and requests.
CallersAreAnswered == ScrapesAreServed /\ ProbesAreAnswered /\ EveryRequestIsAnswered
-----------------------------------------------------------------------------
\* A password reset and the welcome message, to one address.
TwoNotices == {[kind |-> "reset-password", ref |-> 1, to |-> 1], [kind |-> "welcome", ref |-> 2, to |-> 1]}

OneNotice == {[kind |-> "reset-password", ref |-> 1, to |-> 1]}

\* Two events of one instant, and a later one of another organization.
ThreeEvents == {[ts |-> 0, id |-> 1, org |-> 1], [ts |-> 0, id |-> 2, org |-> 1], [ts |-> 1, id |-> 3, org |-> 2]}

TwoEvents == {[ts |-> 0, id |-> 1, org |-> 1], [ts |-> 1, id |-> 2, org |-> 2]}

Letters == {" ", "\n", "-", "a", "b", "c", "d", "e", "f", "g", "r", "s", "u"}

\* A local part too short for a name and one too long for it.
TwoLocalParts == {<<"a">>, <<"a", "b", "c", "d", "e", "f", "g">>}

ThreeChanges == {[name |-> <<<<" ", "b", "b", "\n">>>>, avatar |-> <<>>],
                 [name |-> <<<<"b", " ">>>>, avatar |-> <<0>>],
                 [name |-> <<>>, avatar |-> <<1>>]}

OneLocalPart == {<<"a">>}

OneChange == {[name |-> <<<<"b", "b">>>>, avatar |-> <<1>>]}

TwoQueues == <<"sweep", "prune">>

Crons == [p \in Starters |-> IF p = 1 THEN "nightly" ELSE "hourly"]

AllInOneAndWorker == {<<"api", "worker", "scheduler">>, <<"worker">>}

Provider(queue, usable) == [queue |-> queue, usable |-> usable]

NoHandlers == {<<>>}

Languages == {<<>>, <<"en">>, <<"vi", "en">>, <<"fr", "vi">>}

Containers == {<<Provider("mail", TRUE), Provider("none", FALSE), Provider("audit", TRUE)>>,
               <<Provider("mail", TRUE), Provider("mail", TRUE)>>,
               <<Provider("mail", TRUE), Provider("audit", FALSE)>>}
=============================================================================
