------------------------------ MODULE Processes ------------------------------
(***************************************************************************)
(* A process of the service from its start to its exit: main.all hosts the *)
(* three roles, main.worker (main.api, main.scheduler) one.  The roles are *)
(* created in order; each application registers its own signal hooks when  *)
(* it is created, and main.all one more for all of them once they listen.  *)
(* A signal may come at any time, twice, and in the middle of the start.   *)
(***************************************************************************)
EXTENDS Naturals, Sequences

CONSTANTS Hosted,          \* the sequences of roles a process hosts
          ProviderLists,   \* what the worker role's container may hold: <<[queue, usable], ..>>
          MaxSignals

ASSUME ProcessesAssumption ==
  /\ \A h \in Hosted : /\ h \in Seq({"api", "worker", "scheduler"}) /\ h # <<>>
                       /\ \A i, j \in DOMAIN h : h[i] = h[j] => i = j
  /\ \A l \in ProviderLists : l \in Seq([queue : STRING, usable : BOOLEAN])
  /\ MaxSignals \in Nat

VARIABLES roles,      \* the roles of this process, in order
          providers,
          boot,       \* how far the start is: [step, i]
          hook,       \* role -> Nest's signal listener: off | on | received
          main,       \* main.all's listener: off | on | closing
          consumers,  \* role -> its BullMQ workers, by the place of the handler: [queue, state]
          client,     \* role -> its queue connections: open | closed | rejected
          run,        \* role -> the closing begun by the hook and by main: [at, found]
          exit,       \* none | 0 | 1 | signal
          signals, early

processesVars == <<roles, providers, boot, hook, main, consumers, client, run, exit, signals, early>>

Ways == {"hook", "main"}

Roles == {roles[i] : i \in DOMAIN roles}

AllInOne == Len(roles) > 1

NotBegun == [at |-> "no", found |-> {}]

ProcessesInit ==
  /\ roles \in Hosted /\ providers \in ProviderLists
  /\ boot = [step |-> "env", i |-> 1]
  /\ hook = [r \in Roles |-> "off"] /\ main = "off"
  /\ consumers = [r \in Roles |-> <<>>] /\ client = [r \in Roles |-> "open"]
  /\ run = [r \in Roles |-> [c \in Ways |-> NotBegun]]
  /\ exit = "none" /\ signals = 0 /\ early = FALSE

Role == roles[boot.i]

NextStep(step, after) ==
  IF boot.i < Len(roles) THEN [step |-> step, i |-> boot.i + 1] ELSE [step |-> after, i |-> 1]

\* process.exit(1) of a bootstrap that failed, at any step.
BootFails ==
  /\ exit = "none" /\ boot.step # "up"
  /\ exit' = "1"
  /\ UNCHANGED <<roles, providers, boot, hook, main, consumers, client, run, signals, early>>

\* Every role's environment is read before the first application is built.
loadEnvOrExit ==
  /\ exit = "none" /\ boot.step = "env"
  /\ boot' = NextStep("env", "create")
  /\ UNCHANGED <<roles, providers, hook, main, consumers, client, run, exit, signals, early>>

\* createApiApp and createProbeOnlyApp end with enableShutdownHooks.
createApp ==
  /\ exit = "none" /\ boot.step = "create"
  /\ hook' = [hook EXCEPT ![Role] = "on"]
  /\ boot' = [boot EXCEPT !.step = "listen"]
  /\ UNCHANGED <<roles, providers, main, consumers, client, run, exit, signals, early>>

Declaring == {i \in DOMAIN providers : providers[i].queue # "none"}

\* discoverHandlers throws for a handler without a handle method and for a second one of a queue.
HandlersUsable ==
  /\ \A i \in Declaring : providers[i].usable
  /\ \A i, j \in Declaring : providers[i].queue = providers[j].queue => i = j

discoverHandlers == [i \in Declaring |-> [queue |-> providers[i].queue, state |-> "open"]]

Started(r) == IF r = "worker" THEN discoverHandlers ELSE <<>>

\* app.listen runs onApplicationBootstrap, which starts the workers; after the
\* last role main.all installs its own listener.
listen ==
  /\ exit = "none" /\ boot.step = "listen"
  /\ Role = "worker" => HandlersUsable
  /\ consumers' = [consumers EXCEPT ![Role] = Started(Role)]
  /\ boot' = NextStep("create", "up")
  /\ main' = IF AllInOne /\ boot.i = Len(roles) THEN "on" ELSE main
  /\ UNCHANGED <<roles, providers, hook, client, run, exit, signals, early>>

Begun(r) == [at |-> "workers", found |-> DOMAIN consumers[r]]

\* What a signal makes of a closing: a listener begins one, and a hook that was
\* taken off has done with its own.
Told(r, c, h) ==
  CASE c = "hook" /\ h[r] = "on" -> Begun(r)
    [] c = "hook" /\ h[r] = "off" /\ run[r][c].at = "closed" -> [run[r][c] EXCEPT !.at = "done"]
    [] c = "main" /\ main = "on" -> Begun(r)
    [] OTHER -> run[r][c]

\* A signal goes to the listeners there are, and ends a process that has none.
\* h is the hooks as the sender leaves them; Nest ignores a second signal, and
\* so does main.all (`closing`).
Delivered(h) ==
  IF main # "on" /\ \A r \in Roles : h[r] = "off"
  THEN exit' = "signal" /\ hook' = h /\ UNCHANGED <<main, run>>
  ELSE /\ hook' = [r \in Roles |-> IF h[r] = "on" THEN "received" ELSE h[r]]
       /\ main' = IF main = "on" THEN "closing" ELSE main
       /\ run' = [r \in Roles |-> [c \in Ways |-> Told(r, c, h)]]
       /\ UNCHANGED exit

Signal ==
  /\ exit = "none" /\ signals < MaxSignals
  /\ signals' = signals + 1
  /\ early' = (early \/ boot.step # "up")
  /\ Delivered(hook)
  /\ UNCHANGED <<roles, providers, boot, consumers, client>>

\* Closed in time or forced after the deadline; a close that rejects before it propagates.
Outcomes == {"closed", "rejected"}

\* closeWorker, of those the closing found.
closeWorker(r, i) ==
  /\ exit = "none"
  /\ \E c \in Ways : run[r][c].at # "no" /\ i \in run[r][c].found
  /\ consumers[r][i].state = "open"
  /\ \E o \in Outcomes : consumers' = [consumers EXCEPT ![r][i].state = o]
  /\ UNCHANGED <<roles, providers, boot, hook, main, client, run, exit, signals, early>>

closeQueue(r) ==
  /\ exit = "none"
  /\ \E c \in Ways : run[r][c].at = "queues"
  /\ client[r] = "open"
  /\ \E o \in Outcomes : client' = [client EXCEPT ![r] = o]
  /\ UNCHANGED <<roles, providers, boot, hook, main, consumers, run, exit, signals, early>>

Awaited(r, c) == {consumers[r][i].state : i \in run[r][c].found}

DestroyTogether(r, c) ==
  IF run[r][c].at = "workers" THEN "queues"
  ELSE IF client[r] = "rejected" \/ "rejected" \in Awaited(r, c) THEN "rejected"
  ELSE IF run[r][c].at = "queues" /\ client[r] = "closed" THEN "closed" ELSE run[r][c].at

\* onModuleDestroy: all workers, then all queues; the first to reject rejects the whole.
DestroyStep(r, c) ==
  CASE run[r][c].at = "workers" /\ "rejected" \in Awaited(r, c) -> "rejected"
    [] run[r][c].at = "workers" /\ Awaited(r, c) \subseteq {"closed"} -> "queues"
    [] run[r][c].at = "queues" /\ client[r] = "rejected" -> "rejected"
    [] run[r][c].at = "queues" /\ client[r] = "closed" -> "closed"
    [] OTHER -> run[r][c].at

\* A closing of main's that ends also takes the application's hook off.
onModuleDestroy(r, c) ==
  /\ exit = "none"
  /\ run[r][c].at \in {"workers", "queues"}
  /\ run' = [run EXCEPT ![r][c].at = DestroyStep(r, c)]
  /\ run' # run
  /\ hook' = IF c = "main" /\ run'[r][c].at = "closed" THEN [hook EXCEPT ![r] = "off"] ELSE hook
  /\ UNCHANGED <<roles, providers, boot, main, consumers, client, exit, signals, early>>

\* The hooks never end: nothing coordinates the applications.
HookWaits(r) ==
  /\ exit = "none"
  /\ run[r].hook.at = "rejected" /\ run[r].main.at = "rejected" /\ exit' = "1" /\ UNCHANGED <<hook, main, run>>
  /\ UNCHANGED <<roles, providers, boot, consumers, client, signals, early>>

\* Nest's hook: exits with 1 when the closing failed, and otherwise takes its
\* listener off and sends the process the signal again.
HookEnds(r) ==
  /\ exit = "none"
  /\ \/ run[r].hook.at = "rejected" /\ exit' = "1" /\ UNCHANGED <<hook, main, run>>
     \/ run[r].hook.at = "closed" /\ Delivered([hook EXCEPT ![r] = "off"])
  /\ UNCHANGED <<roles, providers, boot, consumers, client, signals, early>>

AllSettledBy(ends) == \A r \in Roles : run[r].main.at \in ends

\* Promise.all instead: the first application to close ends the wait.
ShutdownEndsAtFirst ==
  /\ exit = "none" /\ main = "closing"
  /\ \E r \in Roles : run[r].main.at = "closed"
  /\ exit' = "0"
  /\ UNCHANGED <<roles, providers, boot, hook, main, consumers, client, run, signals, early>>

\* installShutdown: Promise.allSettled over the applications, then process.exit.
ShutdownEnds ==
  /\ exit = "none" /\ main = "closing"
  /\ AllSettledBy({"closed", "rejected"})
  /\ exit' = IF AllSettledBy({"closed"}) THEN "0" ELSE "1"
  /\ UNCHANGED <<roles, providers, boot, hook, main, consumers, client, run, signals, early>>

Booting == loadEnvOrExit \/ createApp \/ listen

Closing(r) == \/ closeQueue(r) \/ HookEnds(r)
              \/ \E i \in DOMAIN consumers[r] : closeWorker(r, i)
              \/ \E c \in Ways : onModuleDestroy(r, c)

ProcessesNext == \/ Booting \/ BootFails \/ Signal \/ ShutdownEnds
                 \/ \E r \in Roles : Closing(r)

\* Every step of a start resolves or rejects, and so does every close.
ProcessesProgress == Booting \/ BootFails \/ ShutdownEnds \/ \E r \in Roles : Closing(r)

ProcessesSpec == ProcessesInit /\ [][ProcessesNext]_processesVars
-----------------------------------------------------------------------------
ProcessesTypeOK ==
  /\ boot.step \in {"env", "create", "listen", "up"} /\ boot.i \in 1..Len(roles)
  /\ \A r \in Roles : /\ hook[r] \in {"off", "on", "received"}
                      /\ client[r] \in Outcomes \cup {"open"}
                      /\ \A c \in Ways : run[r][c].at \in
                           {"no", "workers", "queues", "closed", "rejected", "done"}
  /\ main \in {"off", "on", "closing"} /\ exit \in {"none", "0", "1", "signal"}

\* A process that was up when it was told to stop and does not report a failure
\* has closed, or forced, every worker and queue connection of every role it
\* hosted, whichever of the two shutdown paths ended it.
CleanExitClosesAll ==
  exit \in {"0", "signal"} /\ signals > 0 /\ ~early =>
    \A r \in Roles : /\ client[r] = "closed"
                     /\ \A i \in DOMAIN consumers[r] : consumers[r][i].state = "closed"

WorkersFirst ==
  \A r \in Roles : client'[r] # client[r] =>
    \E c \in Ways : run[r][c].at # "no" /\ Awaited(r, c) \subseteq {"closed"}

\* A role's queue connections are closed after the workers the shutdown found,
\* so that the job in hand can still enqueue what it sends.
ClientsOutliveWorkers == [][WorkersFirst]_processesVars

\* A worker process that came up consumes every queue it has a handler for, once.
OneConsumerPerQueue ==
  boot.step = "up" /\ "worker" \in Roles =>
    /\ {providers[i].queue : i \in Declaring} = {consumers["worker"][i].queue : i \in DOMAIN consumers["worker"]}
    /\ \A i, j \in DOMAIN consumers["worker"] :
         consumers["worker"][i].queue = consumers["worker"][j].queue => i = j

\* A signal ends the process, also when it comes in the middle of the start and
\* when an application fails to close.
SignalEndsProcess == signals > 0 ~> exit # "none"

WasCreated(i) == \/ boot.step = "up"
                 \/ boot.step = "listen" /\ i <= boot.i
                 \/ boot.step = "create" /\ i < boot.i

Listens(i) == boot.step = "up" \/ (boot.step \in {"create", "listen"} /\ i < boot.i)

Consumer == [queue : STRING, state : Outcomes \cup {"open"}]

\* A closing goes on to the queues when the workers it found are closed, and ends
\* when they are too.
InOrder(n, ws, cl) ==
  /\ n.found \subseteq DOMAIN ws
  /\ n.at \in {"queues", "closed", "done"} => \A i \in n.found : ws[i].state = "closed"
  /\ n.at \in {"closed", "done"} => cl = "closed"

ProcessShape ==
  /\ roles \in Hosted /\ providers \in ProviderLists
  /\ boot \in [step : {"env", "create", "listen", "up"}, i : 1..Len(roles)]
  /\ hook \in [Roles -> {"off", "on", "received"}] /\ main \in {"off", "on", "closing"}
  /\ DOMAIN consumers = Roles
  /\ \A r \in Roles : DOMAIN consumers[r] \subseteq Nat /\ consumers[r] \in [DOMAIN consumers[r] -> Consumer]
  /\ client \in [Roles -> Outcomes \cup {"open"}]
  /\ run \in [Roles -> [Ways -> [at : {"no", "workers", "queues", "closed", "rejected", "done"},
                                 found : SUBSET Nat]]]
  /\ exit \in {"none", "0", "1", "signal"} /\ signals \in Nat /\ early \in BOOLEAN

\* What the process consumes: nothing before a role listens, then what it declares.
StartedInOrder ==
  \A i \in DOMAIN roles :
    /\ ~Listens(i) => consumers[roles[i]] = <<>>
    /\ Listens(i) /\ roles[i] = "worker" =>
         /\ HandlersUsable /\ DOMAIN consumers["worker"] = Declaring
         /\ \A j \in Declaring : consumers["worker"][j].queue = providers[j].queue

ClosedInOrder == \A r \in Roles, c \in Ways : InOrder(run[r][c], consumers[r], client[r])

NotSignalled ==
  /\ exit \in {"none", "1"} /\ main # "closing"
  /\ \A r \in Roles, c \in Ways : run[r][c].at = "no"
  /\ \A i \in DOMAIN roles : WasCreated(i) => hook[roles[i]] = "on"

\* A closing that began when the process was up found every worker, and a role's
\* hook is off only when one of its closings has ended.
SignalledUp ==
  /\ boot.step = "up" /\ main # "on"
  /\ \A r \in Roles : /\ \A c \in Ways : run[r][c].at # "no" => run[r][c].found = DOMAIN consumers[r]
                      /\ hook[r] = "off" => \E c \in Ways : run[r][c].at \in {"closed", "done"}

\* The inductive invariant behind CleanExitClosesAll, ClientsOutliveWorkers and
\* OneConsumerPerQueue.
ProcessesInv ==
  /\ ProcessShape /\ StartedInOrder /\ ClosedInOrder
  /\ signals = 0 => NotSignalled
  /\ signals > 0 /\ ~early => SignalledUp
  /\ CleanExitClosesAll
=============================================================================
