---------------------------- MODULE Observability ----------------------------
(***************************************************************************)
(* What a process reports of itself: the shared gauges and the readiness   *)
(* probes, which share no state.                                           *)
(***************************************************************************)
EXTENDS SharedMetrics, Readiness

ObservabilitySpec == SharedMetricsSpec /\ ReadinessSpec

\* What a process reports of itself is true: the shared gauges are recent, and a
\* role is ready when its dependencies were up.
ReportsAreTrue == GaugesAreRecent /\ ReadyMeansUp
=============================================================================
