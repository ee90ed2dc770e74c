# A verification development of OneBun

OneBun is a TypeScript framework for Bun: modules with dependency injection, HTTP
controllers, queues, WebSockets, caching, logging and their supporting packages.
This directory holds TLA+ models of its parts that keep state and run
concurrently, TLC configurations that check them on small instances, and proofs,
checked by TLAPS, of what matters most in them. Paths below are relative
to the repository; `core/` stands for `packages/core/src/`.

Everything runs on one JavaScript event loop, so the unit of interleaving is a
callback between two `await`s. A model has one action for each such piece of code,
and the hazards are what other callbacks, other processes that share Redis or a NATS
server, and failures do between them.

## 1. Inventory

| Component | State | Operations | Interacts with | What is hard | Correct when |
|---|---|---|---|---|---|
| Queue scheduler `core/queue/scheduler.ts` | Map of jobs, their timers, `paused`, `isRunning`, `nextRun` | start, stop, add\*, pause, resume, update, remove, timer callbacks, `executeJob` | publishes through a queue adapter | timers outlive calls; asynchronous `finally` | timers match the schedule, `skip` jobs do not overlap, nothing fires after stop |
| Cron parser `core/queue/cron-parser.ts` | a date moved forward | `getNextRun` | scheduler | months, leap years, changes of the clock | the least match after the date |
| Redis queue adapter `core/queue/adapters/redis.adapter.ts` | lists, sorted sets and channels in Redis; subscriptions, a poll loop each, one tick timer | publish, subscribe, poll, tick, ack, nack, pause, unsubscribe, disconnect | Redis, other processes | several commands for one move; two delivery paths; crashes | no message vanishes, eventual handling |
| In-memory queue `core/queue/adapters/memory.adapter.ts`, queue service, pattern matcher | subscriptions, delayed messages; started, ready handlers | publish, dispatch, requeue; start, stop | handlers | awaits inside a live iteration | each subscriber gets each message |
| NATS, JetStream `packages/nats` | consumers, subscriptions, pauses | publish, consume, ack, nack, pause | NATS server | redelivery, pauses, crashes | at least once, unless let go |
| Dependency injection `core/module/module.ts` | pending providers, instances, the tree of modules, global services | `createServicesWithDI`, constructors, `setup()` | applications | order, optional parameters, failing constructors, shared globals | a service sees all its dependencies, initialised |
| Lifecycle `core/module/module.ts`, `core/application/application.ts`, `multi-service-orchestrator.ts` | what is open; where each start() and stop() is | hooks, signals, startAll, stopAll | everything | rejecting hooks, racing signals and stops, partial failure | hooks run in order and completely, a signal ends the process |
| Logger `packages/logger` | buffer, timer, the one active transport | write, flush, shutdown | OTLP endpoint | flush in flight at exit | accepted records are posted |
| Routing `core/decorators`, `core/application/application.ts` | what decorators noted, routes | decorators, start() | request pipeline | order of decorators, levels, owners | a request goes through what was written |
| Request pipeline `core/application/application.ts`, middleware, guards, interceptors, filters | per request | one HTTP request | handlers | exceptions at each layer, timeouts racing the handler | one response; guards asked first |
| Rate limiting `core/security/rate-limit-middleware.ts` | a counter per key | increment, use | Redis or a Map | await between count and answer | limit per window |
| HTTP client `packages/requests` | attempts, options | request, retry, updateConfig | servers, their rate limiters | retry of what was done, late answers | bounded attempts, earned results |
| WebSocket client `core/websocket/ws-client.ts` | state, socket, reconnect timer, pending requests | connect, disconnect, emit, socket events | server | late events of old sockets | it is connected when it says so; requests settle |
| WebSocket server `core/websocket/ws-handler.ts`, gateway, storages | clients, rooms | open, join, leave, close, emit, cleanup | Redis storage, other processes | joins racing closes | rooms hold live clients only, each is sent a message once |
| Cache `packages/cache` | entries, expiry, connection | get, set, delete, clear, mset, close, interceptor | Redis, the shared client | stale fills, capacity, outages | never older than an invalidation, unless it raced |
| Shared Redis `core/redis` | instance, connecting | getClient, disconnect | cache, WebSocket storage, lifecycle | concurrent calls | one live connection |
| Drizzle `packages/drizzle` | the connection, its client, migrations | initialize, close, onModuleInit, transaction | databases | overlapping calls, late answers | migrated when initialised, no client lost |
| Environment `packages/envs` | one proxy, loads under way | load, getConfig | applications | racing loads, edits | all read the same |
| Tracing `packages/trace` | providers, spans, buffers, exports | start, end, export, shutdown | OpenTelemetry, applications | one provider per process, a flush at exit | ended spans are exported |
| Metrics `packages/metrics` | one register, gauges, the current service | make, gauge updates | prom-client | one register for several services, late queries | a gauge shows what it measures |
| Other middleware, validation, files, service client, profiler, testing; OpenAPI, `create-onebun` | none of their own | conversions | | | |

`PROJECT.json` lists the same components with their status, and under `hazards`
each place where one of them can go wrong, at its line, with the properties that
cover it or the reason why none does.

## 2. Modules

| Module | Models | Composed with |
|---|---|---|
| `QueueScheduler` | `core/queue/scheduler.ts` | `QueueSchedulerProofs`; beside `CronSchedule` in `MCQueueScheduler` |
| `CronSchedule` | `core/queue/cron-parser.ts` | `QueueSchedulerProofs` |
| `RedisQueue` | `core/queue/adapters/redis.adapter.ts` with the Redis commands it uses | `QueueProofs` |
| `QueuePatterns` | `core/queue/pattern-matcher.ts` | used by `MemoryQueue`; `DispatchProofs` |
| `MemoryQueue` | `core/queue/adapters/memory.adapter.ts` under `core/queue/queue.service.ts` | `DispatchProofs` |
| `NatsQueue` | `packages/nats/src` with the server's consumers | `QueueSchedulerProofs` |
| `ServiceDI` | `createServicesWithDI` of `core/module/module.ts` | `ApplicationProofs` |
| `ModuleTree` | the constructors of modules and `setup()` | extends `ServiceDI`: a step of it constructs the providers of one module; `ApplicationProofs` |
| `Routing` | decorators and the making of routes | extends `ModuleTree`; `ApplicationProofs` |
| `LogTransport` | `packages/logger/src/otlp-transport.ts` and the active transport | |
| `AppLifecycle` | `start()`, `stop()` and the module tree's hooks | extends `LogTransport`, which stop() shuts down; `ApplicationProofs` |
| `Services` | the applications of a process and the orchestrator | extends `AppLifecycle`; `ApplicationProofs` |
| `RateWindow` | the abstract fixed-window limiter | implemented by `RateLimit` |
| `RateLimit` | the middleware over the in-memory store | `RateLimitProofs` |
| `HttpCalls` | the surfaces of `packages/requests`: arguments, settings, what callers catch | |
| `HttpClient` | attempts and retries of `packages/requests/src/client.ts` | extends `RateLimit`, whose requests are the attempts, and `HttpCalls` |
| `Exchange` | the abstract promise of one HTTP request | implemented by `RequestPipeline` |
| `RequestPipeline` | one request through the layers of its route | `DispatchProofs` |
| `WsClient` | `core/websocket/ws-client.ts` | `WebSocketProofs` |
| `WsServer` | `core/websocket/ws-handler.ts`, the gateway and both storages | `WebSocketProofs` |
| `SharedRedis` | `core/redis/shared-redis.ts` | |
| `Cache` | `packages/cache/src` | extends `SharedRedis`, whose client it may use; `CacheProofs` |
| `Database`, `Configuration`, `Tracing`, `Metrics` | `packages/drizzle`, `packages/envs`, `packages/trace`, `packages/metrics` | put side by side in `MCProcess`; `ProcessProofs` |

The `MC` modules give the constants their values; some of them put several
specifications beside each other, one per behaviour. Definitions whose comment
starts with "Mutant:" are variants of the one they precede, as a plausible bug would
write it; nothing uses them but the `mutants` table of `PROJECT.json`, which names for
each property a mutant that violates it.

### QueueScheduler

A job object is a number, in order of creation; `decl` is what its add call
declared and `jobs` is the Map from names to objects, so that an object which the
Map no longer holds is still there with its timer. `timer` separates a handle that
is still armed from one that is spent (a timeout that fired) because
`startTimeoutJob` looks at the handle. The runs of one object in flight are
counted by where they wait (`fetching` for `getDataFn`, `publishing` for
`adapter.publish`). Cron expressions are abstracted to `due`, the fact that
`nextRun` has passed, and a duration to `lasts`, whether it is not zero: a timer of zero duration is never
armed, since the code asks `!job.intervalMs`. `executeJob` up to its first await belongs to the action
that calls it.

### CronSchedule

`Parsed` is what an expression parses to; `getNextRun` is a loop that moves
a local date by whole fields, one action per way round. The calendar is a parameter (how many days each
month of a year has, which hours the clocks skip or repeat), so that all dates of a small one
can be searched; `NextRunIsLeast` compares the result with the least matching instant. Setters
of `Date` are taken as one set; fields that parse to NaN and milliseconds are left out.

### QueuePatterns, MemoryQueue

Patterns are sequences of segments; `CreateQueuePatternMatcher` is the matcher, and `Denotes` the meaning of a pattern. How much a final `#` stands for
is its parameter, since the matcher's documentation (nothing, too: `Documented`) and its tests (something: `Tested`) differ;
the properties of dispatching take the tests' reading, and section 4 tells the two apart. `MemoryQueue` is the adapter under the service: `publish` dispatches at once, in a `for...of` loop
over the live array of subscriptions which awaits every handler, so a dispatch is a record of which
array it walks (the current one, or the one that `disconnect()` left behind, when it is `frozen`) and how far it is; an
`unsubscribe()` splices that array under the loop. The tick of the delayed
list dispatches its head while that is due and awaits nothing. `nack(true)` asks for another dispatch through `setImmediate`. The service's `start()`, `stop()` and `subscribe()` are actions of their own, with its
ready handlers. Bounds: a direct `disconnect()` of the adapter not during `start()`, and no two
concurrent `start()` or `stop()`; each message is published once, so that an unending stream of a higher priority, which
would hold back a delayed message for ever, is out of reach.

### RedisQueue

One topic. Redis is the list of the topic, the two sorted sets (`ripe` are the
delayed messages whose score has passed) and, per process, what the channel still
has to deliver. One action is one Redis command or one callback: `publish` takes
two, a tick of the delayed processor one for the read and three for each message, the
poll loop one for `LPOP` and one for what it does with the answer. A command may fail (`TickFails`, `PollFails`, whose error
the loop swallows), also after Redis has carried it out. `Steady` processes
never pause, leave, or fail; the others do so between any two
actions, at most `MaxFaults` times. A process has one subscription. `setInterval` does not wait for a tick, so that ticks of one process may overlap:
the ticks of two processes race in the same way, since what a tick knows is its own. A tick reads at most a hundred
messages and takes ten by priority, numbers that no run reaches and no property depends on. Dead letters
and retries touch keys nothing here reads.

### NatsQueue

The stream keeps every message; a consumer, known by its name, is shared by the subscriptions that name
it. Core NATS (nothing is kept) and JetStream with `AckPolicy.None` (`auto`) or `Explicit`
(`manual`) are modes of one module. A subscription's loop (`Looping`) takes a message,
drops it if paused, runs the handler, acknowledges; its errors restart it after a delay. `AckWaitEnds` is the
server's redelivery, at most `MaxDeliver` times, with `Prefetch` messages handed out. Pauses,
errors, `unsubscribe()`, `disconnect()` and crashes are counted against `MaxFaults`. A payload that cannot be parsed, which
is acknowledged and dropped, is left out.

### ServiceDI, ModuleTree, Routing

`ServiceDI`: `deps` is the dependency graph, `conduct` whether a provider's constructor works,
throws, or has no `@Service` decorator, `foreign` whether it has a parameter that
is not a provider of the module. One action is one pass of the loop; `Return` is
what follows it.

`ModuleTree` builds an application: a module's constructor constructs its imports, inherits what they export,
and then runs `ServiceDI`'s loop over its own providers; when the root is done, `setup()` awaits
`onModuleInit` of the services in the code's order and resolves middleware and controllers. Modules are numbered
as they are constructed, since a class imported in two places is constructed twice; global modules are
kept by the process, so that a second application gets the first one's services.

`Routing` is what `start()` makes of a built tree: each controller's decorators, applied bottom-up, note
middleware, guards, filters and interceptors, which `@Controller` copies to its wrapper; a route decorator
takes a snapshot of what has been noted by then (`UnderRoute`), out of all that stands on its method (`OfMethod`); each kind is merged from the levels it has, of application,
modules, controller and method; and a path, with the application's prefix, belongs to who registered it
last. `RoutesAsWritten` compares with the source text: a route has all that its modules, its class and the decorators
under its own ask for, nothing that is not written there, and each layer as the kind it was written. Whether a decorator above the route's own
applies is left open by it, because the documentation says that it does and the code that it does not
(`MethodDecoratorsApply`, section 4).
Of a module that is imported in several places the controller is that of the first, in the order of a walk from the root, and the middleware
that of the first which has any (`getModuleMiddleware`, module.ts:1230, goes on where `getOwnerModuleForController` stops): where they differ, requests
reach the controller of one place through the middleware of another, which the property allows and `MCRouting` reaches.
(Of the filters that are merged the last one is asked, in `RequestPipeline`, as the code does; the comment of
`UseFilters`, decorators.ts:983, says the first.) Bounds of all three: imports are
acyclic, a class belongs to one module, one controller with one route per module, and the
families of programs in `MCRouting` (`Single`, `Trees`, `Needy`, `Decorated`, `Layered`).

### LogTransport, AppLifecycle, Services

`StartProgram` and `StopProgram` are the sequences of awaited steps of start() and
stop(), computed from the import tree by the walks the code uses
(`collectDescendantModules` and the recursive `call...` methods). A hook begins in
one action and ends, or rejects, in another. Requests, queue messages and
further signals come in between. Hooks of stop() that reject are logged, while a
rejection of `wsHandler.cleanup()`, of the queue or of the trace service's last export rejects stop() itself
(`StopQueueFails`, `StopTracingFails`); what the runtime does with that unhandled rejection is
outside the code and left out.
Every service and controller is taken to have every hook.

`LogTransport` has a buffer, a timer and POSTs in flight per application and the one reference
`activeTransport`; its `shutdown()` is a step of stop(). `Services` puts several
applications into one process: `startAll()` starts them side by side, any of them may fail,
every one that has started handles the signals, and the first stop() to resolve exits.
Bounds: each signal once and only after all applications were made, `stopAll()` once, a signal and `stopAll()` not
raced with each other when there are two services, `MaxRecords` records.

### RateWindow, RateLimit, HttpCalls, HttpClient

`MemoryRateLimitStore.increment` has no await between its read and its write, so
`Increment` is one action and `Respond`, after the await in `use()`, another.
`RedisRateLimitStore.increment` is not modelled.
`RateWindow` grants or refuses in one step; `RateLimit` implements it under a
mapping that takes the verdict as settled by the increment.

`HttpCalls` has no state: which arguments of a surface become the request's
configuration (`ConfigOf`), which settings apply (`Settings`), and what the caller catches (`Caught`). `HttpClient`
makes calls with them against `RateLimit`: every attempt is one of its requests, a timeout abandons
the attempt for the client only, the network may lose a request or an answer, and the answer to an
abandoned attempt finds nobody. `updateConfig()` may change the options between calls.

### Exchange, RequestPipeline

`Exchange` is what a route owes a request: one answer, recorded once with its own
status, and one end of its span. `RequestPipeline` implements it. Its `route` is
the result of merging the levels as `start()` does (middleware, guards and
interceptors as counts and kinds, filters by level, and whether the route takes
the fast path, `isFastPath`). The chain of layers is a line of positions:
middleware first, then interceptors, then the handler at `Bottom`; the guards are
asked between the last middleware and what follows. A *strand* is one chain of
awaited calls: where it is, whether it goes down or comes back `up` with an
outcome, and which guards have said yes since the last middleware called next().

| Action | Code |
|---|---|
| `Begin` | the wrapped handler: trace setup, first call |
| `EnterLayer`, `LeaveLayer` | a middleware's or interceptor's own code before and after its `next()`: it awaits, answers, throws, passes on, or calls next() again |
| `AskGuard`, `PassGuards` | `executeHttpGuards`, one guard at a time, then `interceptedHandler()` |
| `CallHandler` | the fast path, or `executeHandler` up to the call: the form or the body is read, each parameter in turn is taken from its source and may refuse the request |
| `HandlerSettles` | the handler returns or throws, and what it returned becomes a response |
| `Catch` | the filter that `executeHandler`'s catch picks, which may throw; the default one too, when an error's `code` is no HTTP status |
| `Expire`, `Drop` | `Promise.race` of `TimeoutInterceptor`: the timer wins, the strand it awaited runs on below its floor, and its outcome is dropped there |
| `Answer` | the rest of the try, or the outer catch: metrics, end of span, response |

A handler's parameters are a list of what their decorators noted (`Parameters`, `Required`) with what the
request has for each: absent, valid or invalid. `body` says whether the request's body can still be read, which is once:
`Value`, `Refuses` and `Reads` are the loop of `executeHandler`, and `calls` records what each call of the handler
was given. A layer that reads the body itself is not modelled.

Errors and responses are abstracted to who threw or made them. Metrics are taken to
be on; a trace service that is off and one whose setup fails are the same
`span = "none"`. Layers await the `next()` they call and return responses; the envelope
option and the profiler change no control and are left out, and so is a failure of the metrics service while it records a request,
which the catch-all would record a second time.

### WsClient

Sockets are numbered in order of creation. Their events act on the client, as the
handlers in the code do: only `connect` and `disconnect` know which socket is the
current one. The application's listeners run in the middle of the handlers and may call connect(), disconnect() and emit()
there; so a handler is cut where it emits an event with work still to do, and `handler` says what that is:

| Action | Code |
|---|---|
| `SocketFails`, `ErrorHeard` | `onerror` up to the listeners of `error`, and after them |
| `Rejected` | the `catch` of a reconnect timer whose connect() was rejected, a microtask between `onerror` and `onclose` |
| `SocketCloses`, `ClosePacket`, `FailedCloses` | `handleClose()` up to the listeners of `disconnect` |
| `DisconnectHeard` | the rest of it: `scheduleReconnect()` up to the listeners of `reconnect_attempt` |
| `AttemptHeard` | the rest of that: the timer is armed |

While a handler is not done no timer and no event of a socket has its turn. `handle` and `strays` tell the timer that
`reconnectTimer` refers to from those it no longer does. `protocol` matters for the
Socket.IO CLOSE packet, which runs `handleClose` on a live socket. History
variables say how the application has behaved: `off`, `gaveUp`, and `fresh` (it called
connect() only when nothing of an earlier connection was left). `off = "late"` is a disconnect() called by a listener of
`disconnect` or `reconnect_attempt`: the handler that called the listener arms the reconnect timer after it, so the client comes up again.
`StaysOff` is about all other calls of disconnect().

### WsServer

One gateway per process, over the memory storage (one process) or the Redis one. Bun does not await the
handlers of a socket's events, so the open, the requests and the close of one client are tasks that run side by
side, each in a slot of its own; each awaited Redis command is a step. Over the memory a request awaits only what is resolved
already, and is one step. A join and a leave of one room that overlap end with the storage saying one thing and the socket another:
`crossed` knows the memberships for which that was so, `evicted` and `wiped` those that another process's delete took
away, `cut` the clients that closed with a handler under way. The properties except these, since the code does not prevent them, and
say that nothing else can go wrong. The answers of Redis may come in any order, which the one connection of a process would narrow. Emissions read the members of a room and send to those
sockets that are local, or publish to the other processes. Who has subscribed by then is chosen with each emission (`ready`), since
`_initialize()` does not await the subscription, and so is whether the message is `defined`: an undefined one loses its
field in JSON, and the receivers ignore it. In both cases clients elsewhere are missed, and owed nothing. `emit()` to one
client is left out. `cleanup()` removes a process's own clients.
Which storage and which process a client is on is chosen in `Init`. Bounds: a client has as many requests under way as
there are `Messages`, `MaxExtras` bounds emissions, cleanups and closes that cut a request off; joinRoom() and leaveRoom() called by server code and the crash of a process
(which leaves its clients in Redis) are not modelled.

### SharedRedis, Cache

`SharedRedis` is the provider: `instance`, `connecting`, those who wait in `getClient()`, and clients
that open, quit and close at any later time; `overlapped` is the history that two `disconnect()`
calls were under way at once. `Cache` adds the service, which chooses memory or Redis, and its users: a request that
reads through the interceptor (look up, handle, store), an `mset()`, and a change of the data followed by
`delete()` or `clear()`, which over Redis are several commands. A response is the version of the data
that it was made from; `late` marks what was overtaken by a change, and `fresh` the version of the last
invalidation that was carried out. The memory evicts by order of insertion (`older`), and both expire.

### Database, Configuration, Tracing, Metrics

`Database` is DrizzleService: the hook `onModuleInit()` and callers of `initialize()`, `close()`,
`runMigrations()` and `transaction()`, each cut where it awaits; clients are numbered as they are opened, and opening one may fail
for either kind of database. What is written in a transaction is not modelled, only that it needs a client.
`Configuration` is one variable of a schema, loaded from process.env, the file and overrides by racing
loads into one proxy. `Tracing` is the decision whether a method or a request is traced, the spans of both, one provider
per application of which one is registered, batches and the flush in stop(), with OpenTelemetry
external; a batch of that flush that fails rejects the provider's shutdown before `trace.disable()`, and with it stop()
(`StopFails`). `Metrics` is the register and the default labels that all services share and a gauge that
`@Gauged` updates from a value or a query, with prom-client external.
They share no state in the code, so `MCProcess` runs one of them per behaviour while the others rest.

## 3. Runs

| Run | Instance | What it shows |
|---|---|---|
| `scheduler` | 2 names, 2 objects of every kind, 2 runs each; beside it, from every time of a calendar of two months of three days and a few hours, for 2 years, the search for every expression with one field of any shape and none, one or all of the fields narrowed to a value | `ArmedIffScheduled`, `SkipNeverOverlaps`, `UniqueNamesNoOrphans`, `RunsOnlyWhenScheduled` of the scheduler; `NextRunIsLeast`, `Returns` of the search |
| `memory_queue` | subscriptions of `{}.#` and `#.b`, 2 messages, 1 requeue, 2 sessions | `EveryListenerHears`, `DelayedDispatched` |
| `redis_queue` | 2 processes, one steady; 1 message of any kind; 1 requeue, 1 fault | `NothingVanishes`, `EventuallyHandled` |
| `nats_queue` | 2 subscriptions, 2 messages, `MaxDeliver` 2, `Prefetch` 2, 2 faults | `LostOnlyWhenLetGo`, `OwedIsHandled` |
| `service_di` | every graph over 3 providers, one of them odd; trees of 5 modules under one or two applications; their decorators in every order | `TwoPassesSuffice`, `InjectedInitialized`, `UpIsComplete`, `RoutesAsWritten` |
| `rate_limit` | 2 calls, each made in one of two ways with a retry or none, max 1, window 2, 3 ticks | `FewerThanTwiceMaxPerInterval`, `PromiseKept` of the limiter; `ResultEarned`, `CallSettles` of the client |
| `app_lifecycle` | a chain of 3 modules and 2 signals, or 2 services with a signal or a `stopAll()`; batches of 2, 2 records | `StopsComplete`, `TrafficOnlyWhileAlive`, `SignalEndsProcess`, `RecordsArePosted` |
| `traffic` | routes of up to 1 middleware, 2 guards, 2 interceptors, filters of no, one or two levels, and seven handlers' parameters; 1 repeated next() | `HandlerOnlyAdmitted`, `OneAnswer` (refinement of `Exchange`), `TimedRoutesAnswered` |
| | after a plain request, the WebSocket client: 3 sockets, 2 attempts, 1 request, both protocols, calls by listeners | `StaysOff`, `EmitSettles`, `ReconnectsOrGivesUp` |
| `ws_server` | 2 clients, 1 room, 2 processes, 2 requests that may overlap, 1 extra | `JoinedIsMember`, `CloseLeavesNothing`, `EmittedOnce` |
| `process` | 2 callers, a file and a server, 2 calls; one-variable schemas, 1 edit; 2 applications, 4 methods, 4 spans, batches of 2; 3 metrics services of 2 prefixes, 3 levels, 2 queries | `LosesOnlyUnseen`, `MigratedWhenInitialized`; `SameForAll`; `FlushedWhenStopped`; `GaugeFresh` |
| | 2 keys, 1 reader, room for 1, 1 change, 2 clients, 2 quits | `FreshUnlessRaced`, `OneSharedConnection` |
| `queue_patterns` | the instance of `memory_queue` | `NobodyDocumentedIsMissed` is violated |
| `method_decorators` | the instance of `service_di` | `MethodDecoratorsApply` is violated |

`MCTraffic` and `MCProcess` put modules that share no state beside each other, one per behaviour; `scheduler` does so with the search.

### Bounds, and why they are enough

- `MaxJobs = 2`: the hazards are between a job object and the one that replaces it
  under its name; a third adds a second replacement. `MaxRuns = 2` lets runs overlap.
- The small calendar has months of different lengths, a leap year, an hour that is skipped and one that is
  repeated, which is what the search branches on; only its units are smaller.
- Two subscriptions and two messages in the in-memory queue: one loop over the array while another one, or a
  subscribe, unsubscribe or disconnect, changes it. Two sessions, so that a stopped service starts again.
- One message and two processes on Redis: messages of one topic meet only in the
  order of the list, which no property mentions. Two processes race in every pair of
  commands; a third would only add readers of a delayed message.
- NATS: two messages fill a prefetch of two, two deliveries reach `MaxDeliver`, two faults
  let a restarted loop fail again or a paused one crash.
- Three providers, one odd one at a time: two passes and their budget occur in every order. Trees
  of five modules hold a global one and one imported twice.
- Two calls of up to two attempts against a limit of one, and a clock that outlasts one window and reaches
  into the next, so that each window fills and refuses, and a late answer meets a retry.
- A chain of three modules: the root, whose services go first, and two levels under it,
  where depth-first order shows. Two signals race; two records fill a batch.
- One middleware above the guards and two interceptors below: a timeout inside a
  timeout, a timeout above and below a layer of the application's own. Two guards, so that a
  partial yes exists. One repeated next(), by any layer, after a refusal, an error or a timeout,
  so that the body is wanted twice. Each source of a parameter occurs, with values that are missing or invalid.
- Three sockets: a connection of the application and two reconnections, or two and one; two attempts, so
  that a failed attempt is not the last one. `ReconnectsOrGivesUp` has an escape at the
  bound (`Stopped`: a timer is due and no socket left), which two attempts reach only after an
  earlier success or a second connect(); the last failed attempt, which gives up, is before it.
- Two WebSocket clients of one room: a join that races a close, an emission that races both, in one process and in two.
- Two keys with room for one evict; one reader and one change race; two clients and two quits let a
  connection be replaced while the old one still closes.
- Two callers beside the hook, so that any two of open, close, migrate and transact overlap; a second
  application, and a third metrics service, since the first is the one whose tracer provider or metrics the others meet. Four spans fill two
  batches, of which one may fail.

`CHECK_DEADLOCK FALSE` stands in every configuration, since the systems do stop: processes that exit, a
bootstrap that returns, a search that has found, requests that have all been answered, clients at rest.

### Fairness

- `RedisQueue`: time passes (`Ripen`), timers of live processes fire and Redis answers
  (`TickStep`, `PollStep`), a steady process subscribes. Publishers, faults and the
  channel are not fair: delivery must not rest on them.
- `MemoryQueue`: time passes (`BecomesDue`) and the tick of the delayed list runs (`Tick`). Handlers need not settle.
- `NatsQueue`: the server delivers and redelivers, and the loop of a subscription goes on (its
  handlers settle, its restart timers fire). Faults and publishers are not fair.
- `CronSchedule`: a synchronous function runs on.
- `Services`: each stop() goes on while it can, that is, hooks settle; transports post and their timers
  fire. A hook that never settles blocks stop() in the code too, which has no timeout.
- `HttpClient`: time passes, and the client's timers (timeouts, retry delays) fire. Nothing of the network or the server is
  fair, so a call settles without them.
- `RequestPipeline`: guards and layers settle and timers fire, on the strand that leads to
  the answer. Handlers and filters may hang: nothing in the code bounds them but a
  `TimeoutInterceptor`.
- `WsClient`: listeners return, timers fire, an opening socket opens or fails, a closing one closes. An open
  socket need not close and the application need not call anything.

The other modules state no liveness property. `ServiceDI`'s specification has weak fairness of its loop
because one synchronous call runs on.

## 4. Disagreements met while modelling

Where the code does something else than a document, a comment or a plain reading says. The models follow
the code; the properties of the passing runs are stated so that they hold of it. Two of them are runs of their own, whose property is what
the documentation says and whose counterexample is what the code does:
`queue_patterns` (a final `#`) and `method_decorators` (a decorator above the route's own).

**Queues.**
- Adding a job under a taken name leaks the old timer: `stop()` leaves a replaced job's interval armed
  (`core/queue/scheduler.ts:197`; the comment at 131 says that it is replaced). `UniqueNamesNoOrphans` therefore asks for
  unique names.
- Subscribers with a `group` do not share the load on Redis: a message is handled from the list and from
  the channel (`core/queue/adapters/redis.adapter.ts:384`; `docs/api/queue.md:272`).
- Two processes may read the same ripe message before either removes it, since the result of ZREM is ignored
  (`redis.adapter.ts:594`): it is doubled once per reader. A pause or unsubscribe during LPOP is not seen: one late call.
- `events.#` does not match `events`, although `core/queue/pattern-matcher.ts:23` and 64 say so and only a test
  (`pattern-matcher.test.ts:61`) does not (`NobodyDocumentedIsMissed`). The proxy of the
  service gets its delegate only after the onReady handlers ran; declared handlers are not subscribed again after a stop and start.
- NATS: in `auto` mode (AckPolicy.None) nack and retry have no effect and a pause loses messages, in `manual` mode after
  `max_deliver`; a group's second pattern shares the first one's filter; groupless subscriptions of the same
  millisecond share a consumer; `{param}` patterns never match at the server; `nack(false)` passes `{delay: -1}`; subscriptions
  are not restored after a reconnect; a subject goes to the first stream that matches.
- An interval or timeout of 0 ms is accepted and never fires (`core/queue/scheduler.ts:292`).
- Cron: the second pass of an hour that the clocks repeat is never returned, and a search that starts in it starts in the first,
  so that its result may lie in the past and every check fires for the rest of the hour; stepped ranges are not
  checked against bounds (`50-70/10`).

**Modules, lifecycle, logs.**
- `CircularDependencyError` is thrown for acyclic graphs, too: the attempt budget mistakes an unlucky order for a
  cycle (`core/module/module.ts:360`; `docs/api/services.md:154`).
- `onModuleInit` of the root module's services precedes that of the modules it
  imports (`module.ts:953`), although `docs/api/services.md:199` promises dependency order.
- A module that is not global and is imported in two places is constructed twice (`docs/migration-nestjs.md:615`: singletons); the
  second instance's controllers are initialised but never serve. A module constructed before the global one in import order
  cannot inject its services (`docs/api/decorators.md:168`). Global services are shared by the applications of a process: both call their hooks, and
  stopping one application destroys what the other uses.
- A parent's middleware is constructed again in each child's scope, so that one which injects a service of the parent
  alone makes `start()` fail (`docs/api/controllers.md:783` says that it is instantiated once).
- In a multi-service process the first service's `stop()` closes the shared Redis and shuts down the transport made
  last, while others run; transports made earlier are never shut down, so what they buffer is lost at the exit. One signal runs every
  application's `stop()`, and the first to finish exits, which cuts the others' hooks. A start that fails in part leaves `isStarted`
  false, so that `stopAll()` does nothing (`multi-service-orchestrator.ts:215`, 278).
- A flush in flight at shutdown is not awaited, and a second `stop()` may exit during the first one's final POST
  (`docs/api/logger.md:301` promises the flush). `makeLogger()` ignores the OTEL variables and never sets
  `activeTransport` (`docs/api/logger.md:287`).

**HTTP.**
- Exception filters see only what is thrown inside `executeHandler`: on a route of the fast path, and for guards and
  interceptors on every route, the catch-all answers instead (`core/application/application.ts:855`;
  `docs/api/exception-filters.md:44`). A filter that rethrows ends in the catch-all and not in the next filter (line 172 there); the default
  filter, which never throws by line 174, throws a `RangeError` when an error's `code` is no HTTP status.
- A header that is optional but has a schema is required after all: a missing one is `null`, and only `undefined` is passed
  over (`core/application/application.ts:1842`; `core/decorators/decorators.ts:603`: "optional with validation").
  When a layer calls next() again, or beside a strand that timed out, the body has been read: a handler that may do without it runs without it.
- Method decorators apply bottom-up and a route decorator takes a snapshot (`core/decorators/decorators.ts:384`; `MethodDecoratorsApply`), so that `@UseGuards` and the
  like written above it are ignored, where `docs/api/guards.md:133` and `docs/api/interceptors.md:199` show them. Of
  several of one kind the bottom one runs first.
- `/docs`, `/openapi.json` and `/metrics` replace all methods of a user's route of that path; of two
  controllers with one path and method the later wins. A global module that another application has processed is no child of the
  second one's tree: its controllers and middleware are served by the first only. Application interceptors are resolved in
  each controller's owner, application middleware in the root.
- `RedisRateLimitStore` is called atomic (`core/security/rate-limit-middleware.ts:69`), and is a GET, an await and a SET: more than `max` may be served.
- The HTTP client: a failed Effect rejects before `isErrorResponse` and `config.errors` are reached; errors
  reach promise callers in Effect's wrapper, so `instanceof OneBunBaseError` (`docs/api/requests.md:229`) is false and `req()`
  always throws `InternalServerError`; API keys in the query have no effect; HEAD to a JSON endpoint fails; a timeout while
  the body is read gives the response's code and is not retried; a nonce is computed once for all attempts; POST is retried; a call can end in
  429 although an earlier attempt was served; a query object with a key such as `timeout` is taken for configuration;
  `get(url, undefined, config)` drops its configuration; `retries` given to a client replaces the default ones as a
  whole; an error code without a class becomes 500 and is retried.

**WebSockets.**
- A late close event of an old socket makes the client forget the new one: CONNECTED after
  `disconnect()` (`core/websocket/ws-client.ts:380`; 169). `StaysOff` therefore asks for an orderly application (`fresh`).
- `disconnect()` called by a listener of `disconnect` or `reconnect_attempt` does not stop the reconnection: the listeners are called
  before the timer is armed (`core/websocket/ws-client.ts:394`, 417). `StaysOff` excepts it.
- A join and a leave that a client sends back to back over Redis are handled at a time and may leave it a member of a room it was told to have
  left, or the reverse (`core/websocket/ws-handler.ts:200`). An emission misses the clients of a process whose subscription is not
  through yet, and an undefined message all clients of other processes (`core/websocket/ws-base-gateway.ts:153`, 173).
- `application.ts` never calls `setStorage`, so the storage is always the memory. On Redis, `clear()` in one process's cleanup
  wipes every process's keys; two gateways of one process would duplicate; emissions to several rooms or a pattern stay
  local.

**Cache, database, environment.**
- In shared mode `RedisCache.clear()` deletes nothing (the pattern has the prefix, the keys do not); `delete()` during an outage
  returns false; `get` swallows a failure and `set` throws, so an outage turns a response that was computed into a failed request
  (`redis-cache.ts:169`); `CacheService` never forwards `useSharedClient` (`docs/api/cache.md:476`); the memory evicts
  even when a key is rewritten; a `disconnect()` during the connecting leaves a connection that becomes the instance; overlapping ones can orphan one.
- Drizzle: `initPromise` is never assigned, so that `waitForInit()` waits for nothing; of two overlapping `initialize()` the first client leaks,
  as it does after a failed env-migration or pragma; `transaction()` then says "not initialized" while `select()` works; no destroy hook
  closes the client; `getAppliedMigrationHashes` on PostgreSQL does not await; an asynchronous SQLite transaction commits at the
  first await (`docs/api/drizzle.md:439`); the path of the module options swallows failed migrations, whose options are static.
- `TypedEnv.create` uses one static key (`application.ts:369`, 380), so every later service gets the first one's
  configuration and overrides (`docs/api/envs.md:641`). The constructor's load is not awaited and may end after that of `start()`. An
  optional number with a positive `min` that is left unset becomes 0 and fails. Inline comments of `.env` are part of the value.

**Tracing and metrics.**
- `trace.service.ts:558` makes a provider at import, which is registered first: later ones, with exporters, are refused, and nothing
  is exported until some `stop()` disables tracing, and then only for applications made after it. HTTP spans are never active, so they
  never end; there is no context manager, so no parents and no `this.span` (`docs/api/trace.md`). Any `stop()` disables
  tracing for all, except when the last export fails: then `stop()` is rejected, nothing after that step is done, and the provider
  stays registered (`packages/trace/src/provider.ts:68`). `@TraceAll` has no effect when `traceAll` is false (`application.ts:649`). A method with `@Traced` below another decorator is
  traced twice with `asyncOnly: false`.
- A second metrics service of the same prefix gets no metrics and relabels the first one's; one of another prefix makes the
  first one's decorated metrics unfindable; an asynchronous `@Gauged` may set a stale value.

## 5. Proofs

TLAPS checks every leaf with its SMT, Zenon and LS4 backends. The theorems hold for all
values of the constants under the named assumptions of the modules: finite sets
of names and requests, natural bounds, settings of the right shape. `PROJECT.json` lists them. Each safety theorem has the shape
`Init => Inv`, `Inv /\ [Next]_vars => Inv'`, `Inv => Property`, with one lemma or step per action.

**QueueSchedulerProofs.** `TimersFollowSchedule` and `SkipHolds` are not inductive. The
invariant `IInv` adds: objects not created yet are untouched; no unfired handle of a mapped job is
spent; and the link between the flag and the runs, `SkipFlagExact` — a `skip` job has at most
one run, and `isRunning` is set exactly while it has one. The last conjunct is what makes the shared flag safe: a
`finally` clears it only when the one run ends, since `checkCronJobs` is the only
place where a cron job starts. There is one lemma per action and one for
`StartRuns`, which seven actions share. What `ArmedIffScheduled` says of a job of zero duration needs no more: nothing arms it. `OrphansNeedNameReuse` uses a second
invariant under the hypothesis that names are used once, which is stable backwards: if names are
unique after a step they were before it. `RunsAreScheduled` (`RunsOnlyWhenScheduled`): a call that starts a run found its
object mapped and not paused; for a timer `ArmedIffScheduled` says so, unless its object has lost its Map entry.

The same module proves `LostIsLetGo` (`LostOnlyWhenLetGo`) of the NATS adapters. `NatsInv` adds what the server's
consumer counts (`Counted`: a message is published before it is pending, and what is pending has a delivery left), that everything there has the consumer's
filter (`Filtered`), so that subscriptions of one pattern skip nothing (`NothingToSkip`), and that in manual mode only a handler
acknowledges (`Reached`). `LoopKeeps` treats every step of a loop at once: what leaves a buffer was let go of or handled.

It also proves `NextRunIsTheLeast` (`NextRunIsLeast`) of the search for a cron job's next run. The invariant `SearchInv` says that
no local time that matches has been passed. `SetIsFirst` says that a setter, whose sum may run over the end of an hour, a day or a month,
makes the first local time that is not before what it was given, also where the clocks skip an hour; `NumberOrders` that the numbers of two local
times compare as their fields do, from the largest unit down. `MoveOn` draws the conclusion that every way round the loop needs, and one lemma for
each way provides what it needs. Assumed are `CronUnits` (months follow one another, fields stay in bounds), which TLC evaluates.

**QueueProofs.** `NothingEverVanishes`: `VanishInv` says what the processes hold between two Redis commands, and that nobody
but the holder empties a hand: a tick at rest holds nothing, one under way knows its message, without a subscription no
poll loop runs, and a loop that has popped holds a message.

**ApplicationProofs.** Of `ServiceDI`: `IInv` says that the pending queue and the created services together
hold every working provider while the loop runs, and that a normal return leaves an
empty queue. `HeadAndTail` and `AppendElements` are the facts about
queues that deferral needs. `NoConstructorSeesAHole` (a service is constructed after all it needs) and
`ReturnsComplete` (a normal return has constructed every working provider) follow. `TwoPassesAreEnough`: by `RankInv` the queue is
the rest of the array and behind it what the first pass put off, in order and not longer than the budget
that is left, so that the second pass has no need to defer.

Of `Services`: `StopsAreComplete` (`StopsComplete`) and `TrafficIsAlive` (`TrafficOnlyWhileAlive`) have two halves. The first is about the
programs, which are put together by recursive walks over a tree of modules: `WalksTyped` and `DescendantsTyped` say, by induction on how deep a
tree is (`ByInduction`, from a least counterexample), that a walk from an application's root visits units of that application only, and
`StartOrder` and `StopOrder` in which order the parts of a program follow. The second is `LifeInv`: the hooks that a start() has passed have ended, what a
stop() has passed is done and stays done although other calls of stop() and other applications go on, a hook that
was begun was reached by somebody, and stopAll() has ended the service before the one it waits for. `StartMoves` and `StopMoves` state once what any
step of a program may do. Assumed are `TreesAssumption` (imports are acyclic and lead to modules of the same
application) and `DeploymentsAssumption` (each service is an application of its own, at least one is enabled); TLC evaluates both.

Of `ModuleTree`: `InjectedAreInitialized` (`InjectedInitialized`) and `UpIsCompleteAlways` (`UpIsComplete`) rest on `TreeInv`, what the nested
calls of the constructors make, for any programs. The modules are numbered as they are constructed, so a tree is an interval of numbers: whatever
is numbered from a module on up to one under it is under it too (`Nested`), children stand in order (`Grouped`), the constructors under way are one chain
(`Stacked`), and what a module holds comes from itself or from one that had returned when it was taken (`Provenance`, `ReturnsBefore`).
`DescendantModulesAre` identifies what `collectDescendantModules` lists with what is under a module, `PostOrder` says that it lists those that returned
earlier first, and `OrderIsEnough` concludes, with the order within a module (`InOrder`, from `DependenciesFirst`), that what was
injected comes before. `SetUp` keeps the services of a tree that is set up initialised although other applications go on making modules;
`AllReady` is that setup() has been through them all. Assumed is `ProgramsAssumption`, the types of a program, which TLC evaluates.

Of `Routing`: `RoutesAreAsWritten` (`RoutesAsWritten`) compares a table made once with a tree that other applications go on adding modules to. The
tree a root has reached is the one set of modules that is closed under imports, is the least such and has no constructor under way (`Reached`,
`TreeReached`), and no step takes anything from the modules of such a set (`Grown`); so `TableInv` says that an application with routes has reached such
a set, and that its routes are as written for it. That start() makes them so (`RouteIsAsWritten`) needs
four things: what the folds over the decorators note, for a class and for a method in any order (`DecorateFolds`, `DecorateMethodFolds`, whence
`ClassNotes` and `MethodNotes`), by induction on the number of decorators; that the places
a controller is looked for are the modules of the tree (`PlacesAre`); that the module whose middleware a route gets is its owner or, when
its owner has none, one that has some if any has (`ModuleMiddlewareIs`); and that the levels are put together in their order (`MergedIs`, from `RankedConcat`).

**RateLimitProofs.** `IInv` says that requests counted in one window of a key carry distinct
counts (`NoRepetition`), without a gap (`NoGap`), and that the Map holds the last one
(`MapIsLast`). `LimitHolds` (`AtMostMaxPerWindow`) is then an injection of the admitted requests into `1..Max`,
`RefusalIsEarned` (`RefusedOnlyWhenFull`) a bijection, and `Implements` the refinement of `RateWindow`, step by step.
`BurstIsBounded` is about an interval that begins anywhere: `FirstOpens` says that the request counted first
opened its window, `Apart` that openings are a window's length apart, so an interval
of one window's length meets at most two windows and misses the opener of the first. `ResultsAreEarned` is about the client: `ClientInv` ties each call
to the attempts it has made (the requests beyond the last are untouched, the call waits for the last one
or has its result), so that neither a late answer nor a changed option decides the result. `ClientsAreLimited`
composes the two: every step of a client is a step or a stutter of the limiter, so the limits and the refinement of `RateWindow` hold with
any number of clients in front.

**WebSocketProofs.** Of the client: that no request waits on a client that is not CONNECTED (`NoRequestOutlivesItsConnection`) is inductive once the types
are known. `ConnectedIsConnected` and `DisconnectedStaysOff` are not: `OneConnection` says that an orderly client has
either the one live socket its state names, or possibly a reconnect timer or the rest of a handler that will arm one, or, when it was
disconnected, at most sockets that are on their way out; it holds between the stages of a handler, whatever its listeners have called. `CloseIInv` treats the three events that end in
`handleClose()` at once, after what `handleClose()` and `scheduleReconnect()` do to the client
has been stated in `HandleCloseEffect` and `ScheduleReconnectEffect`. Of the server: `ServerInv` says, command by command, what each handler
under way has done so far to the record of a client (`Recorded`, `Gone`), to its memberships (`Membership`) and to what its process
tracks (`Tracked`), and `OwedIsThere` where an emission must still get to: a member not yet sent to is in the list that the task
walks or behind a relay. Handlers of one client for one room are all joins or all leaves unless they are
`crossed`, so that what one has done the others do not undo. `MembersAreToldSo`, `NothingIsLeft` and `NobodyIsMissedOrToldTwice` are what remains of them when the handlers have
ended.

**DispatchProofs.** Of a request: `HandlerOnlyAdmitted`, `ErrorsStayInside` and the refinement are not inductive. `IInv` says that while a request is
open exactly one strand has floor 0 and no answer is out, that afterwards there is none
(`OneMain`), and for every strand that it stands where its mode allows (`Placed`), that below
the guards all have said yes (`Vetted`), and that its outcome is one its position and route can
have produced (`Caught`). The lemmas about `Descend` and `Ascend` carry most of the actions.
`Implements` maps every action but `Begin` and `Answer` to a stutter; `OneMain` is
what makes a second `Answer` impossible when timeouts have left strands behind. `InputInv` adds that as long as the body can be read no call
has had anything of it: with `NotRefused` a call that is given some of it is then the only one, and one that requires some
does not run again. Of the in-memory queue: `MatcherIsMeant` relates the matcher to the meaning
of a pattern, with a final `#` as the matcher's tests read it, by induction from the pattern's end (`DenotesRest`: a stretch is cut off in front, and the rest is denoted by what follows), so that no
assumption on patterns is needed. `Behind` are the listeners a dispatch owes its message and has neither called nor ahead of its index. Every step
of the loop keeps it (`WalkKeeps`), a subscription and a pause can only shrink it, and a splice, which shifts the rest of the
array by one, adds at most the one entry that stood at the index (`SpliceKeeps`); `MemoryInv` says that it has no more members than entries were
spliced out, and `NoListenerIsPassedOver` is what that means when the loop ends. The rest of the invariant is that no listener is twice in an array, nor called and still ahead.

**CacheProofs.** `ConnectionIsShared`: `SharedInv` says that, unless two disconnects overlapped, an open connection is the instance,
nothing is opening while there is an instance, and only the instance is being closed. `StoredIsFresh`: `CacheInv` says of
each user of the cache what it still knows at its await: a storer not yet overtaken holds the current data, a change
under way has been seen by everyone whose response is older, and what `clear()` has not listed was stored since. The lemmas about
`Set`, `Keeps` and what Redis or the memory forget carry the commands.

**ProcessProofs.** `GaugesAreFresh`: the gauge was set by the call that settled it, or by its one query, and the level
changes only as a call ends. `ConfigurationIsTheSame`: while the file has not been edited, every load
that has read it has read the same, so whichever finishes last writes what is there. `EnvironmentIsMigrated` and
`OnlyTheUnseenIsLost` share `DatabaseInv`: the numbers of clients are never used again (`Grows`); a call that closed
what it found and waits has nothing older before it (`CallOK`); and while the hook's client is in place,
what the hook migrates is that client's database (`HookOK`). `StoppedIsFlushed`: `TracingInv` says that an ended span waits in its provider's buffer or is
in an export; `BatchesCover`, by division, that batches of any size leave nothing of a buffer out; a failed one rejects stop(), which then is
never past the step.

Proved without being listed by a run, since the listed properties are deeper: the type
invariants, `AtMostMaxPerWindow`, `RefusedOnlyWhenFull`, `MostSpecificFilter`, `WaitingOnlyConnected`, `ConnectedHasSocket`,
`DependenciesFirst`, `DoneIsComplete` and `ErrorsStayInside`.

Only model-checked is every liveness property (`DelayedDispatched`, `EventuallyHandled`, `OwedIsHandled`, `Returns`,
`CallSettles`, `SignalEndsProcess`, `RecordsArePosted`, `EmitSettles`, `ReconnectsOrGivesUp`, `TimedRoutesAnswered`): liveness under fairness is
beyond the prover. Every safety invariant and every action property that a run checks is a theorem.

## 6. Not modelled, and the plan

Left out for good: text formats (headers, logs, URLs, metadata parsing, OpenAPI), the
wire protocols, validation, query builders and repositories, and what a library does alone.

Not modelled yet: `RedisRateLimitStore` as a second store of `RateLimit` (two of the hazards have no property:
`core/security/rate-limit-middleware.ts:80` and the poll loop that a pause ends, `redis.adapter.ts:543`); how Bun matches paths;
`joinRoom()` and `leaveRoom()` by server code; the dead letter queue on Redis; static files and their cache
of existence; response schemas and server-sent events of a route.

To be modelled next: a Redis store for `RateLimit`.
