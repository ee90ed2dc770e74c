------------------------------- MODULE Services -------------------------------
(***************************************************************************)
(* The applications of one process: a single one, or the services that      *)
(* MultiServiceOrchestrator (packages/core/src/application/                 *)
(* multi-service-orchestrator.ts) makes and starts side by side.            *)
(*                                                                          *)
(* Each application installs its own signal handlers when its start() ends, *)
(* so one signal calls stop() of every application that has started, and    *)
(* the first of them to resolve ends the process.                           *)
(***************************************************************************)
EXTENDS AppLifecycle

CONSTANTS StopAll,      \* the cause of the stops that stopAll() calls
          Deployments   \* what the process may run, each a record of
                        \*   services: the sequence of its applications
                        \*   multi:    they are started by startAll()
                        \*   causes:   what calls stop() in it, each once

ASSUME StopAllAssumption == StopAll \in Causes
\* Every service has an application of its own, and at least one is enabled.
ASSUME DeploymentsAssumption ==
  \A d \in Deployments :
    /\ d.services \in Seq(Apps) /\ d.services # <<>> /\ IsInjective(d.services)
    /\ d.causes \subseteq Causes

VARIABLES
  deployment,  \* the one this process runs
  isStarted,   \* the orchestrator's flag
  stopAll      \* stopAll(): "no", "running", "resolved", "rejected", "ignored"

orchestrator == <<deployment, isStarted, stopAll>>
servicesVars == <<appVars, orchestrator>>

services == ToSet(deployment.services)

ServicesInit ==
  /\ deployment \in Deployments
  /\ isStarted = FALSE /\ stopAll = "no"
  /\ AppInit /\ TransportInit

-----------------------------------------------------------------------------
(* startAll(), stopAll()                                                    *)

\* An application is made, with its log transport, and its start() is called: by
\* the program, or by the loop of startAll(), which does not await it.
MakeService(i) ==
  LET a == deployment.services[i]
  IN /\ ~exited /\ ~Made(a)
     /\ \A j \in 1..i - 1 : Made(deployment.services[j])
     /\ startPc' = [startPc EXCEPT ![a] = 1]
     /\ MakeTransport(a)
     /\ UNCHANGED <<startBusy, failed, stop, resources, history, orchestrator>>

\* Promise.all of every start() has resolved.
AllStarted ==
  /\ ~exited /\ deployment.multi /\ ~isStarted /\ stopAll \in {"no", "ignored"}
  /\ \A a \in services : Started(a)
  /\ isStarted' = TRUE
  /\ UNCHANGED <<appVars, deployment, stopAll>>

CallStop(s) == stopPc' = [stopPc EXCEPT ![s] = 1]

\* Bound: stopAll() is called once.
CallStopAll ==
  /\ ~exited /\ StopAll \in deployment.causes /\ stopAll = "no"
  /\ IF isStarted
     THEN stopAll' = "running" /\ CallStop(<<StopAll, Head(deployment.services)>>)
     ELSE stopAll' = "ignored" /\ UNCHANGED stopPc
  /\ UNCHANGED <<start, stopBusy, rejected, exited, resources, history, transport,
                 deployment, isStarted>>

\* Mutant: the services are stopped without waiting for one another.
StopAllGoesOnAtOnce(i) ==
  /\ ~exited /\ stopAll = "running"
  /\ stopPc[<<StopAll, deployment.services[i]>>] > 0
  /\ IF i < Len(deployment.services)
     THEN /\ stopPc[<<StopAll, deployment.services[i + 1]>>] = 0
          /\ CallStop(<<StopAll, deployment.services[i + 1]>>)
          /\ UNCHANGED <<stopAll, isStarted>>
     ELSE stopAll' = "resolved" /\ isStarted' = FALSE /\ UNCHANGED stopPc
  /\ UNCHANGED <<start, stopBusy, rejected, exited, resources, history, transport,
                 deployment>>

\* One service after another ...
StopAllGoesOn(i) ==
  /\ ~exited /\ stopAll = "running"
  /\ StopEnded(<<StopAll, deployment.services[i]>>)
  /\ IF i < Len(deployment.services)
     THEN /\ stopPc[<<StopAll, deployment.services[i + 1]>>] = 0
          /\ CallStop(<<StopAll, deployment.services[i + 1]>>)
          /\ UNCHANGED <<stopAll, isStarted>>
     ELSE stopAll' = "resolved" /\ isStarted' = FALSE /\ UNCHANGED stopPc
  /\ UNCHANGED <<start, stopBusy, rejected, exited, resources, history, transport,
                 deployment>>

\* ... until one rejects: the ones after it are left running.
StopAllFails ==
  /\ ~exited /\ stopAll = "running"
  /\ \E a \in services : <<StopAll, a>> \in rejected
  /\ stopAll' = "rejected"
  /\ UNCHANGED <<appVars, deployment, isStarted>>

-----------------------------------------------------------------------------
(* Signals                                                                  *)

\* Every handler is called.  Bounds: each signal once, and none before startAll()
\* has made every application; before any handler is installed it just kills.
Signal(c) ==
  /\ ~exited /\ c \in deployment.causes \ {StopAll}
  /\ \A a \in services : Made(a) /\ stopPc[<<c, a>>] = 0
  /\ \E a \in services : Started(a)
  /\ stopPc' = [s \in StopCalls |->
                  IF s[1] = c /\ App(s) \in services /\ Started(App(s)) THEN 1 ELSE stopPc[s]]
  /\ UNCHANGED <<start, stopBusy, rejected, exited, resources, history, transport,
                 orchestrator>>

\* A handler calls process.exit(0) when the stop() it called has resolved.
Exit(s) ==
  /\ ~exited /\ s[1] # StopAll /\ StopEnded(s)
  /\ exited' = TRUE
  /\ UNCHANGED <<start, stopPc, stopBusy, rejected, resources, history, transport,
                 orchestrator>>

-----------------------------------------------------------------------------
AppAction ==
  /\ \/ \E a \in Apps : StartAction(a) \/ TransportAction(a) \/ LogAction(a)
     \/ \E s \in Called : StopAction(s)
  /\ UNCHANGED orchestrator

ServicesNext ==
  \/ AppAction
  \/ \E i \in DOMAIN deployment.services : MakeService(i) \/ StopAllGoesOn(i)
  \/ AllStarted \/ CallStopAll \/ StopAllFails
  \/ \E c \in Causes : Signal(c)
  \/ \E s \in Called : Exit(s)

\* The event loop runs every continuation that is ready, the destroy hooks of the
\* application settle (one that never does keeps stop() waiting for ever), timers
\* fire, and a POST is answered or aborted.  Within the bounds each of these can
\* happen finitely often, so one condition says the same as one for each call.
ServicesFairness ==
  /\ WF_servicesVars(\E s \in Called : (StopAction(s) /\ UNCHANGED orchestrator) \/ Exit(s))
  /\ WF_servicesVars(\E a \in Apps : TransportAction(a) /\ UNCHANGED orchestrator)

ServicesSpec == ServicesInit /\ [][ServicesNext]_servicesVars /\ ServicesFairness

-----------------------------------------------------------------------------
(* Properties                                                               *)

\* The steps of a program that call one of the hooks.
Calls(program, ops) == {step \in ToSet(program) : step.op \in ops}

DestroysEnded(a) == Calls(StopProgram[a], DestroyHooks) \subseteq ended

\* The process exits only when every destroy hook of at least one application has
\* ended, of the application if it is alone, although hooks reject and signals
\* race; and stopAll() resolves only when every service has ended all of its
\* hooks and takes no more traffic.
StopsComplete ==
  /\ exited => \E a \in services : DestroysEnded(a)
  /\ stopAll = "resolved" =>
       \A a \in services : DestroysEnded(a) /\ a \notin listening \cup consuming \cup scheduling

\* An application accepts HTTP requests only between the end of its last init hook
\* and the start of its first onModuleDestroy, and takes queue messages and jobs
\* only between the end of its last onModuleInit and that: while start() waits in
\* the middle of its program, after it failed, and while two stop() calls race.
TrafficOnlyWhileAlive ==
  \A a \in Apps :
    /\ a \in listening =>
         Calls(StartProgram[a], {"onModuleInit", "onApplicationInit"}) \subseteq ended
    /\ a \in consuming \cup scheduling =>
         Calls(StartProgram[a], {"onModuleInit"}) \subseteq ended
    /\ a \in listening \cup consuming \cup scheduling =>
         Calls(StopProgram[a], {"onModuleDestroy"}) \cap begun = {}

\* A signal is followed by the end of the process, however the hooks settle and
\* also when another service never started, unless the queue, the WebSocket
\* storage or the trace exporter of every application it stops refuses to stop.
SignalEndsProcess ==
  \A c \in Causes \ {StopAll} :
    (\E a \in Apps : stopPc[<<c, a>>] > 0)
      ~> (exited \/ \A a \in Apps : stopPc[<<c, a>>] > 0 => <<c, a>> \in rejected)

\* A record in a buffer is posted, while earlier POSTs hang and while other
\* transports are shut down, unless the process exits.
RecordsArePosted == \A a \in Apps : buffer[a] > 0 ~> (buffer[a] = 0 \/ exited)
=============================================================================
