------------------------------ MODULE Platform ------------------------------
(***************************************************************************)
(* The processes and the schedules they register.  They share no state, so *)
(* that any of their steps may fall together: the platform is the          *)
(* conjunction.                                                            *)
(***************************************************************************)
EXTENDS Processes, Schedules

PlatformSpec == ProcessesSpec /\ SchedulesSpec

\* However many processes start, and in whatever order, a queue gets one schedule
\* and, in a worker that came up, one consumer.
QueuesAreServedOnce == OneSchedulePerQueue /\ OneConsumerPerQueue
=============================================================================
