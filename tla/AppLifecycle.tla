----------------------------- MODULE AppLifecycle -----------------------------
(***************************************************************************)
(* OneBunApplication.start() and stop() of                                  *)
(* packages/core/src/application/application.ts, with the lifecycle hooks   *)
(* that OneBunModule (packages/core/src/module/module.ts) calls over the    *)
(* tree of imported modules, for every application of the process.          *)
(*                                                                          *)
(* Both methods await one hook after another, so each is a program: a       *)
(* sequence of steps, most of which begin in one action and end in a later  *)
(* one.  Anything else comes between any two actions: another application,  *)
(* a second stop() of the same one, the log transports.                     *)
(*                                                                          *)
(* An application is named by its root module.  Every module has one        *)
(* service and one controller; a service is injected the exported services  *)
(* of the modules its module imports.                                       *)
(***************************************************************************)
EXTENDS Integers, Sequences, SequencesExt, FiniteSets, LogTransport

CONSTANTS Modules,     \* the modules of all the applications
          Imports,     \* Modules -> Seq(Modules): the imports arrays, trees
          Exported,    \* the modules that export their service
          Causes       \* what can call stop(): signals, or stopAll()

ASSUME AppsAssumption == Apps \subseteq Modules
ASSUME ImportsAssumption == Imports \in [Modules -> Seq(Modules)]
\* The imports are acyclic, or the constructors of the modules would not return, and
\* an application constructs its modules itself.
ImportsRanked(depth) ==
  \A m \in Modules : \A i \in DOMAIN Imports[m] : depth[Imports[m][i]] < depth[m]
ImportsOwned(owner) ==
  /\ \A a \in Apps : owner[a] = a
  /\ \A m \in Modules : \A i \in DOMAIN Imports[m] : owner[Imports[m][i]] = owner[m]
ASSUME TreesAssumption ==
  /\ IsFiniteSet(Modules)
  /\ \E depth \in [Modules -> 0..Cardinality(Modules)] : ImportsRanked(depth)
  /\ \E owner \in [Modules -> Apps] : ImportsOwned(owner)
ASSUME ExportedAssumption == Exported \subseteq Modules

Service(m) == [kind |-> "service", of |-> m]
Controller(m) == [kind |-> "controller", of |-> m]
Framework(a) == [kind |-> "framework", of |-> a]

Step(op, unit) == [op |-> op, unit |-> unit]
Hooks(op, units) == [i \in DOMAIN units |-> Step(op, units[i])]

-----------------------------------------------------------------------------
(* The order in which the module tree is walked.                            *)

\* collectDescendantModules(): depth first, leaves first, without m itself.
Descendants[m \in Modules] ==
  FlattenSeq([i \in DOMAIN Imports[m] |->
                Append(Descendants[Imports[m][i]], Imports[m][i])])

\* serviceInstances of a module, in insertion order: what it imports, its own.
Instances(m) ==
  Append(FlattenSeq([i \in DOMAIN Imports[m] |->
           IF Imports[m][i] \in Exported THEN <<Service(Imports[m][i])>> ELSE <<>>]),
         Service(m))

\* callBeforeApplicationDestroy, callOnApplicationInit and
\* callOnApplicationDestroy walk every module's Map, so the service of an
\* imported module is called once for each module that holds it.
Walk[m \in Modules] ==
  Append(Instances(m), Controller(m))
    \o FlattenSeq([i \in DOMAIN Imports[m] |-> Walk[Imports[m][i]]])

\* callOnModuleDestroy: the controllers, then the services in reverse.
WalkBack[m \in Modules] ==
  <<Controller(m)>> \o Reverse(Instances(m))
    \o FlattenSeq([i \in DOMAIN Imports[m] |-> WalkBack[Imports[m][i]]])

-----------------------------------------------------------------------------
(* The two programs.                                                        *)

\* OneBunModule.setup(): the root's services first, then the descendants'.
SetupOrder(a) == <<a>> \o Descendants[a]

InitHooks(a, kind) ==
  Hooks("onModuleInit",
        [i \in DOMAIN SetupOrder(a) |-> [kind |-> kind, of |-> SetupOrder(a)[i]]])

\* Mutant: the queue handlers are registered as soon as the services are ready.
StartStepsQueueEarly(a) ==
  InitHooks(a, "service")
    \o <<Step("subscribe", Framework(a))>>
    \o InitHooks(a, "controller")
    \o <<Step("scheduler", Framework(a)), Step("wireProxy", Framework(a))>>
    \o Hooks("onApplicationInit", Walk[a])
    \o <<Step("listen", Framework(a))>>

\* start(): setup(), initializeQueue(), callOnApplicationInit(), Bun.serve().
StartSteps(a) ==
  InitHooks(a, "service")
    \o InitHooks(a, "controller")
    \o <<Step("subscribe", Framework(a)), Step("scheduler", Framework(a)),
         Step("wireProxy", Framework(a))>>
    \o Hooks("onApplicationInit", Walk[a])
    \o <<Step("listen", Framework(a))>>

\* stop(): the WebSocket handler and the queue, the server, the trace service, then the
\* modules.
StopSteps(a) ==
  Hooks("beforeApplicationDestroy", Walk[a])
    \o <<Step("stopQueue", Framework(a)),
         Step("stopServer", Framework(a)), Step("stopTracing", Framework(a))>>
    \o Hooks("onModuleDestroy", WalkBack[a])
    \o <<Step("closeRedis", Framework(a))>>
    \o Hooks("onApplicationDestroy", Walk[a])
    \o <<Step("shutdownLogger", Framework(a))>>

StartProgram == [a \in Apps |-> StartSteps(a)]
StopProgram == [a \in Apps |-> StopSteps(a)]

-----------------------------------------------------------------------------
StopCalls == Causes \X Apps
App(s) == s[2]

VARIABLES
  startPc,     \* the step each start() has reached, 0 before the constructor
  startBusy,   \* the applications whose step has begun and is awaited
  failed,      \* the applications whose start() has rejected
  stopPc,      \* the step each stop() has reached, 0 before it is called
  stopBusy,    \* the calls of stop() whose step has begun and is awaited
  rejected,    \* the calls of stop() that have rejected
  exited,      \* process.exit(0)
  consuming,   \* the applications whose queue subscriptions deliver
  scheduling,  \* ... whose queue scheduler runs
  wired,       \* ... whose QueueServiceProxy has its real QueueService
  listening,   \* ... whose HTTP server accepts requests
  redis,       \* the connection they share is open
  begun,       \* history: steps of hooks ever begun
  ended        \* history: steps of hooks ever ended

start == <<startPc, startBusy, failed>>
stop == <<stopPc, stopBusy, rejected, exited>>
resources == <<consuming, scheduling, wired, listening, redis>>
history == <<begun, ended>>
appVars == <<start, stop, resources, history, transport>>

AppInit ==
  /\ startPc = [a \in Apps |-> 0]
  /\ startBusy = {} /\ failed = {}
  /\ stopPc = [s \in StopCalls |-> 0]
  /\ stopBusy = {} /\ rejected = {} /\ exited = FALSE
  /\ consuming = {} /\ scheduling = {} /\ wired = {} /\ listening = {}
  /\ redis = TRUE
  /\ begun = {} /\ ended = {}

Made(a) == startPc[a] > 0
Started(a) == startPc[a] > Len(StartProgram[a])
Called == {s \in StopCalls : stopPc[s] > 0}
StopEnded(s) == stopPc[s] = Len(StopProgram[App(s)]) + 1

-----------------------------------------------------------------------------
(* start()                                                                  *)

AtStart(a, op) ==
  /\ ~exited /\ a \notin failed /\ Made(a) /\ ~Started(a)
  /\ StartProgram[a][startPc[a]].op = op

StartHooks == {"onModuleInit", "onApplicationInit"}
AtInitHook(a) == \E op \in StartHooks : AtStart(a, op)

NextStart(a) == startPc' = [startPc EXCEPT ![a] = @ + 1]

\* The call of a hook, which a unit that does not have it answers at once.
HookCalled(step) == begun' = begun \cup {step}

\* A hook is called ...
StartHookBegins(a) ==
  /\ AtInitHook(a) /\ a \notin startBusy
  /\ startBusy' = startBusy \cup {a}
  /\ HookCalled(StartProgram[a][startPc[a]])
  /\ UNCHANGED <<startPc, failed, stop, resources, ended, transport>>

\* ... and its promise resolves ...
StartHookEnds(a) ==
  /\ AtInitHook(a) /\ a \in startBusy
  /\ startBusy' = startBusy \ {a}
  /\ NextStart(a)
  /\ ended' = ended \cup {StartProgram[a][startPc[a]]}
  /\ UNCHANGED <<failed, stop, resources, begun, transport>>

\* ... or rejects, which is rethrown and ends start().
StartHookFails(a) ==
  /\ AtInitHook(a) /\ a \in startBusy
  /\ startBusy' = startBusy \ {a}
  /\ failed' = failed \cup {a}
  /\ UNCHANGED <<startPc, stop, resources, history, transport>>

\* initializeQueue: registerService subscribes the handlers one after another,
\* and the first ones receive messages while the others are being subscribed ...
SubscribeBegins(a) ==
  /\ AtStart(a, "subscribe") /\ a \notin startBusy
  /\ startBusy' = startBusy \cup {a}
  /\ consuming' = consuming \cup {a}
  /\ UNCHANGED <<startPc, failed, stop, scheduling, wired, listening, redis, history,
                 transport>>

SubscribeEnds(a) ==
  /\ AtStart(a, "subscribe") /\ a \in startBusy
  /\ startBusy' = startBusy \ {a}
  /\ NextStart(a)
  /\ UNCHANGED <<failed, stop, resources, history, transport>>

\* ... or a subscription is refused, which is rethrown: the handlers subscribed
\* before it stay subscribed.
SubscribeFails(a) ==
  /\ AtStart(a, "subscribe") /\ a \in startBusy
  /\ startBusy' = startBusy \ {a}
  /\ failed' = failed \cup {a}
  /\ UNCHANGED <<startPc, stop, resources, history, transport>>

\* ... then queueService.start() starts the scheduler ...
StartScheduler(a) ==
  /\ AtStart(a, "scheduler")
  /\ scheduling' = scheduling \cup {a}
  /\ NextStart(a)
  /\ UNCHANGED <<startBusy, failed, stop, consuming, wired, listening, redis, history,
                 transport>>

\* ... and the proxy that was injected is given its delegate.
WireProxy(a) ==
  /\ AtStart(a, "wireProxy")
  /\ wired' = wired \cup {a}
  /\ NextStart(a)
  /\ UNCHANGED <<startBusy, failed, stop, consuming, scheduling, listening, redis,
                 history, transport>>

\* Bun.serve, and enableGracefulShutdown in the same turn.
Listen(a) ==
  /\ AtStart(a, "listen")
  /\ listening' = listening \cup {a}
  /\ NextStart(a)
  /\ UNCHANGED <<startBusy, failed, stop, consuming, scheduling, wired, redis, history,
                 transport>>

-----------------------------------------------------------------------------
(* stop(): nothing keeps a second signal from calling it again.             *)

AtStop(s, op) ==
  /\ ~exited /\ s \notin rejected /\ stopPc[s] > 0 /\ ~StopEnded(s)
  /\ StopProgram[App(s)][stopPc[s]].op = op

DestroyHooks == {"beforeApplicationDestroy", "onModuleDestroy", "onApplicationDestroy"}
AtDestroyHook(s) == \E op \in DestroyHooks : AtStop(s, op)

StopStep(s) == StopProgram[App(s)][stopPc[s]]
NextStop(s) == stopPc' = [stopPc EXCEPT ![s] = @ + 1]

StopHookBegins(s) ==
  /\ AtDestroyHook(s) /\ s \notin stopBusy
  /\ stopBusy' = stopBusy \cup {s}
  /\ HookCalled(StopStep(s))
  /\ UNCHANGED <<start, stopPc, rejected, exited, resources, ended, transport>>

\* Mutant: a rejected hook is waited for again.
StopHookEndsOnlyIfResolved(s) ==
  /\ AtDestroyHook(s) /\ s \in stopBusy
  /\ StopStep(s).unit # Service(App(s))
  /\ stopBusy' = stopBusy \ {s}
  /\ NextStop(s)
  /\ ended' = ended \cup {StopStep(s)}
  /\ UNCHANGED <<start, rejected, exited, resources, begun, transport>>

\* Mutant: the first hook that rejects ends the walk.
StopHookEndsTheWalk(s) ==
  /\ AtDestroyHook(s) /\ s \in stopBusy
  /\ stopBusy' = stopBusy \ {s}
  /\ \/ NextStop(s)
     \/ stopPc' = [stopPc EXCEPT ![s] = Len(StopProgram[App(s)]) + 1]
  /\ ended' = ended \cup {StopStep(s)}
  /\ UNCHANGED <<start, rejected, exited, resources, begun, transport>>

\* A destroy hook resolves or rejects; a rejection is only logged.
StopHookEnds(s) ==
  /\ AtDestroyHook(s) /\ s \in stopBusy
  /\ stopBusy' = stopBusy \ {s}
  /\ NextStop(s)
  /\ ended' = ended \cup {StopStep(s)}
  /\ UNCHANGED <<start, rejected, exited, resources, begun, transport>>

\* queueService.stop(): the scheduler stops at once, the subscriptions go on
\* delivering while they are unsubscribed one after another ...
StopQueueBegins(s) ==
  /\ AtStop(s, "stopQueue") /\ s \notin stopBusy
  /\ stopBusy' = stopBusy \cup {s}
  /\ scheduling' = scheduling \ {App(s)}
  /\ UNCHANGED <<start, stopPc, rejected, exited, consuming, wired, listening, redis,
                 history, transport>>

\* ... and the proxy loses its delegate when they all are.
StopQueueEnds(s) ==
  /\ AtStop(s, "stopQueue") /\ s \in stopBusy
  /\ stopBusy' = stopBusy \ {s}
  /\ consuming' = consuming \ {App(s)}
  /\ wired' = wired \ {App(s)}
  /\ NextStop(s)
  /\ UNCHANGED <<start, rejected, exited, scheduling, listening, redis, history,
                 transport>>

\* Nothing catches a rejection of the WebSocket handler's cleanup or of the queue
\* adapter: stop() itself rejects, and the steps after it are not taken.
StopQueueFails(s) ==
  /\ AtStop(s, "stopQueue")
  /\ rejected' = rejected \cup {s}
  /\ stopBusy' = stopBusy \ {s}
  /\ UNCHANGED <<start, stopPc, exited, resources, history, transport>>

\* server.stop(): no new requests; the ones in flight are not waited for.
StopServer(s) ==
  /\ AtStop(s, "stopServer")
  /\ listening' = listening \ {App(s)}
  /\ NextStop(s)
  /\ UNCHANGED <<start, stopBusy, rejected, exited, consuming, scheduling, wired,
                 redis, history, transport>>

\* traceService.shutdown() posts the spans that are left.  The provider is shut down
\* once, so that every stop() of the application gets the same answer ...
StopTracingEnds(s) ==
  /\ AtStop(s, "stopTracing")
  /\ ~\E t \in rejected : App(t) = App(s) /\ StopStep(t).op = "stopTracing"
  /\ NextStop(s)
  /\ UNCHANGED <<start, stopBusy, rejected, exited, resources, history, transport>>

\* ... and nothing catches the rejection of a POST that has failed.
StopTracingFails(s) ==
  /\ AtStop(s, "stopTracing")
  /\ ~\E t \in Called : App(t) = App(s)
       /\ \E i \in 1..stopPc[t] - 1 : StopProgram[App(t)][i].op = "stopTracing"
  /\ rejected' = rejected \cup {s}
  /\ UNCHANGED <<start, stopPc, stopBusy, exited, resources, history, transport>>

\* SharedRedisProvider.disconnect(), whoever else uses the connection.
CloseRedis(s) ==
  /\ AtStop(s, "closeRedis")
  /\ redis' = FALSE
  /\ NextStop(s)
  /\ UNCHANGED <<start, stopBusy, rejected, exited, consuming, scheduling, wired,
                 listening, history, transport>>

\* shutdownLogger(): the transport that is active, whoever made it ...
StopLoggerBegins(s) ==
  /\ AtStop(s, "shutdownLogger") /\ s \notin stopBusy
  /\ stopBusy' = stopBusy \cup {s}
  /\ ShutDown
  /\ UNCHANGED <<start, stopPc, rejected, exited, resources, history>>

\* ... and its POST has settled, or there was nothing to post.
StopLoggerEnds(s) ==
  /\ AtStop(s, "shutdownLogger") /\ s \in stopBusy
  /\ stopBusy' = stopBusy \ {s}
  /\ ForgetTransport
  /\ NextStop(s)
  /\ UNCHANGED <<start, rejected, exited, resources, history>>

-----------------------------------------------------------------------------
StartAction(a) ==
  \/ StartHookBegins(a) \/ StartHookEnds(a) \/ StartHookFails(a)
  \/ SubscribeBegins(a) \/ SubscribeEnds(a) \/ SubscribeFails(a)
  \/ StartScheduler(a) \/ WireProxy(a) \/ Listen(a)

StopAction(s) ==
  \/ StopHookBegins(s) \/ StopHookEnds(s)
  \/ StopQueueBegins(s) \/ StopQueueEnds(s) \/ StopQueueFails(s)
  \/ StopServer(s) \/ StopTracingEnds(s) \/ StopTracingFails(s) \/ CloseRedis(s)
  \/ StopLoggerBegins(s) \/ StopLoggerEnds(s)

\* A timer fired or a POST settled.
TransportAction(a) ==
  /\ ~exited
  /\ TimerFires(a) \/ TimerPostEnds(a) \/ PostEnds(a)
  /\ UNCHANGED <<start, stop, resources, history>>

\* Anything the application does is logged.
LogAction(a) ==
  /\ ~exited
  /\ Log(a)
  /\ UNCHANGED <<start, stop, resources, history>>
=============================================================================
