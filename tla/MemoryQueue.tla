----------------------------- MODULE MemoryQueue -----------------------------
(***************************************************************************)
(* InMemoryQueueAdapter (packages/core/src/queue/adapters/memory.adapter.ts)*)
(* under QueueService (packages/core/src/queue/queue.service.ts), in one    *)
(* process: one thread, whose steps run from one await to the next.         *)
(*                                                                          *)
(* A dispatch walks the live array of subscriptions with a for...of loop    *)
(* and awaits every handler, so anything may happen to the array under it:  *)
(* unsubscribe() splices it, subscribe() appends to it, and disconnect()    *)
(* replaces it, leaving the loop with the old one.                          *)
(***************************************************************************)
EXTENDS Integers, Sequences, FiniteSets, SequencesExt, QueuePatterns

CONSTANTS Declared,     \* the @Subscribe handlers, in the order of registration
          Pausing,      \* subscriptions whose owner may pause them
          Messages,     \* messages, each published at most once
          Pattern,      \* the pattern of each subscription
          Topic,        \* the topic of each message
          Priority,     \* the priority of each message
          MaxRequeues,  \* bound: calls of nack(true)
          MaxSessions   \* bound: calls of connect() that connect

Subs == Range(Declared)

ASSUME DeclaredAssumption == Declared \in Seq(Range(Declared)) /\ IsInjective(Declared)
ASSUME PausingAssumption == Pausing \subseteq Subs
ASSUME PatternAssumption ==
  \A s \in Subs : Pattern[s] \in Seq(STRING) /\ Pattern[s] # <<>>
ASSUME TopicAssumption == \A m \in Messages : Topic[m] \in Seq(STRING)
ASSUME PriorityAssumption == \A m \in Messages : Priority[m] \in Int
ASSUME MemoryBoundsAssumption == MaxRequeues \in Nat /\ MaxSessions \in Nat \ {0}

VARIABLES
  \* the adapter
  connected,    \* adapter.connected
  subs,         \* adapter.subscriptions, the current array
  paused,       \* subscriptions whose entry.paused is set
  delayed,      \* adapter.delayedMessages, in its order
  due,          \* delayed messages whose executeAt has passed
  runs,         \* dispatches, in the order they were begun
  requeued,     \* setImmediate callbacks of nack(true): the messages to dispatch
  requeues,     \* calls of nack(true)
  batch,        \* publishBatch(): what is left, and the dispatch it awaits
  \* the service
  started,      \* service.started
  wired,        \* adapterOnReadyRegistered
  starting,     \* start() awaits adapter.connect()
  stopping,     \* stop(): 0, or the index its loop has reached
  mine,         \* service.subscriptions
  \* history
  sessions,     \* connections made
  ready,        \* times the @OnQueueReady handlers have been called
  dropped       \* delayed messages that disconnect() discarded

queue == <<delayed, due>>
immediate == <<requeued, requeues>>
service == <<started, wired, starting, stopping, mine>>
memoryVars == <<connected, subs, paused, queue, runs, immediate, batch, service,
          sessions, ready, dropped>>

NoBatch == [rest |-> <<>>, awaits |-> 0]

MemoryInit ==
  /\ connected = TRUE /\ sessions = 1        \* after initialize()
  /\ subs = <<>> /\ paused = {}
  /\ delayed = <<>> /\ due = {}
  /\ runs = <<>> /\ requeued = <<>> /\ requeues = 0 /\ batch = NoBatch
  /\ started = FALSE /\ wired = FALSE /\ starting = FALSE /\ stopping = 0
  /\ mine = <<>>
  /\ ready = 0 /\ dropped = {}

-----------------------------------------------------------------------------
(* One dispatch: the loop's array, how far it is, whom it is calling.       *)

\* The array a dispatch walks: the current one, or the one it began with when
\* disconnect() has replaced that since.
Walked(r) == IF r.frozen THEN r.array ELSE subs

\* entry.matcher, created once per subscription, and what it should be: as the
\* matcher's tests read a final "#", and as its documentation does.
Matcher == [s \in Subs |-> {m \in Messages : CreateQueuePatternMatcher(Pattern[s], Topic[m])}]
Meant == [s \in Subs |-> {m \in Messages : Denotes(Pattern[s], Topic[m], Tested)}]
Promised == [s \in Subs |-> {m \in Messages : Denotes(Pattern[s], Topic[m], Documented)}]

Hears(m, s) == s \notin paused /\ m \in Matcher[s]

\* The loop from index `from` on: the next subscription to call, if any.
Ahead(array, m, from) == {i \in from..Len(array) : Hears(m, array[i])}

\* A loop that has ended leaves nothing behind.
Ended(m) ==
  [msg |-> m, next |-> 0, phase |-> "done", nacked |-> FALSE, frozen |-> FALSE,
   array |-> <<>>, heard |-> <<>>, removed |-> 0, owed |-> {}]

Walk(r, array) ==
  LET ahead == Ahead(array, r.msg, r.next)
      i == CHOOSE j \in ahead : \A k \in ahead : j <= k
  IN IF ahead = {} THEN Ended(r.msg)
     ELSE [r EXCEPT !.phase = "handling", !.nacked = FALSE, !.next = i + 1,
                    !.heard = Append(@, array[i])]

\* Whom a message is for when its dispatch begins: the unpaused subscriptions of
\* the array whose pattern denotes the topic.
Owed(m) == {s \in Range(subs) \ paused : m \in Meant[s]}

\* `heard`, `owed` and `removed` (entries taken out of the array since) are kept
\* for the properties.
Fresh(m) ==
  [msg |-> m, next |-> 1, phase |-> "handling", nacked |-> FALSE, frozen |-> FALSE,
   array |-> <<>>, heard |-> <<>>, removed |-> 0, owed |-> Owed(m)]

\* dispatch(), up to its first await.
Dispatch(m) ==
  /\ runs' = Append(runs, Walk(Fresh(m), subs))

\* The handler calls message.nack(true), which counts once and asks for another
\* dispatch through setImmediate; the handler goes on.
Nacks(d) ==
  /\ runs[d].phase = "handling" /\ ~runs[d].nacked
  /\ requeues < MaxRequeues
  /\ requeues' = requeues + 1
  /\ requeued' = Append(requeued, runs[d].msg)
  /\ runs' = [runs EXCEPT ![d].nacked = TRUE]
  /\ UNCHANGED <<connected, subs, paused, queue, batch, service,
                 sessions, ready, dropped>>

\* The awaited handler returns or throws; the automatic ack or nack(false), when
\* ackMode is not manual, is awaited before the loop goes on.
HandlerEnds(d) ==
  /\ runs[d].phase = "handling"
  /\ runs' = [runs EXCEPT ![d].phase = "settling"]
  /\ UNCHANGED <<connected, subs, paused, queue, immediate, batch, service,
                 sessions, ready, dropped>>

\* The loop goes on to the next subscription it finds then.
Continues(d) ==
  /\ runs[d].phase = "settling"
  /\ runs' = [runs EXCEPT ![d] = Walk(@, Walked(@))]
  /\ UNCHANGED <<connected, subs, paused, queue, immediate, batch, service,
                 sessions, ready, dropped>>

Redispatch ==
  /\ requeued # <<>>
  /\ requeued' = Tail(requeued) /\ UNCHANGED requeues
  /\ Dispatch(Head(requeued))
  /\ UNCHANGED <<connected, subs, paused, queue, batch, service,
                 sessions, ready, dropped>>

-----------------------------------------------------------------------------
(* Publishing.                                                              *)

Sent == {runs[d].msg : d \in DOMAIN runs}
Used == Sent \cup Range(delayed) \cup dropped

\* publish() with a delay: the message joins those of its priority behind what
\* is due already, at the place its executeAt gives it; the sort is by priority
\* first.
MayFollow(a, b) ==
  Priority[a] >= Priority[b]
MayPrecede(a, b) ==
  Priority[a] > Priority[b] \/ (Priority[a] = Priority[b] /\ b \notin due)

Delay(m) ==
  /\ \E i \in 1..Len(delayed) + 1 :
       /\ \A j \in 1..i - 1 : MayFollow(delayed[j], m)
       /\ \A j \in i..Len(delayed) : MayPrecede(m, delayed[j])
       /\ delayed' = InsertAt(delayed, i, m)
  /\ UNCHANGED runs

Send(m) == Delay(m) \/ (Dispatch(m) /\ UNCHANGED delayed)

\* publish(); ensureConnected() throws otherwise.
Publish(m) ==
  /\ connected /\ m \notin Used
  /\ Send(m)
  /\ UNCHANGED <<connected, subs, paused, due, immediate, batch, service,
                 sessions, ready, dropped>>

\* publishBatch(): the messages in descending priority, each published when the
\* dispatch of the one before has ended.
PublishBatch(two) ==
  /\ batch.rest = <<>> /\ connected
  /\ \A i \in DOMAIN two : two[i] \notin Used
  /\ two[1] # two[2] /\ Priority[two[1]] >= Priority[two[2]]
  /\ batch' = [rest |-> two, awaits |-> 0]
  /\ UNCHANGED <<connected, subs, paused, queue, runs, immediate, service,
                 sessions, ready, dropped>>

BatchContinues ==
  /\ batch.awaits # 0 => runs[batch.awaits].phase = "done"
  /\ batch.rest # <<>>
  /\ LET m == Head(batch.rest)
         proceeds == connected /\ m \notin Used
     IN IF proceeds
        THEN /\ Send(m)
             /\ batch' = [rest |-> Tail(batch.rest),
                          awaits |-> IF Len(runs') > Len(runs) THEN Len(runs') ELSE 0]
        ELSE batch' = NoBatch /\ UNCHANGED <<runs, delayed>>
  /\ UNCHANGED <<connected, subs, paused, due, immediate, service,
                 sessions, ready, dropped>>

\* Time reaches the executeAt of a delayed message, and not before that of the
\* messages of its priority that precede it.
BecomesDue(m) ==
  /\ \E i \in 1..Len(delayed) :
       /\ delayed[i] = m /\ m \notin due
       /\ \A j \in 1..i - 1 :
            Priority[delayed[j]] = Priority[m] => delayed[j] \in due
  /\ due' = due \cup {m}
  /\ UNCHANGED <<connected, subs, paused, delayed, runs, immediate, batch, service,
                 sessions, ready, dropped>>

\* Mutant: the head is shifted off before its time is looked at.
TickShiftsFirst ==
  /\ connected /\ delayed # <<>>
  /\ delayed' = Tail(delayed) /\ due' = due \ {Head(delayed)}
  /\ IF Head(delayed) \in due THEN Dispatch(Head(delayed)) ELSE UNCHANGED runs
  /\ UNCHANGED <<connected, subs, paused, immediate, batch, service,
                 sessions, ready, dropped>>

\* processDelayedMessages(), one round of its loop: only the head of the list is
\* looked at, and its dispatch is not awaited.
Tick ==
  /\ connected /\ delayed # <<>> /\ Head(delayed) \in due
  /\ delayed' = Tail(delayed) /\ due' = due \ {Head(delayed)}
  /\ Dispatch(Head(delayed))
  /\ UNCHANGED <<connected, subs, paused, immediate, batch, service,
                 sessions, ready, dropped>>

-----------------------------------------------------------------------------
(* Subscriptions.                                                           *)

\* Every subscription made so far and not forgotten.
Known == Range(subs) \cup Range(mine) \cup
         UNION {Range(runs[d].array) \cup Range(runs[d].heard) : d \in DOMAIN runs}

\* registerService() subscribes the declared handlers one after the other.
Registering(s) ==
  \E i \in DOMAIN Declared :
    s = Declared[i] /\ {j \in DOMAIN Declared : Declared[j] \in Known} = 1..i - 1

\* subscribe(): the adapter's part and the service's are separated by the await of
\* a promise that is already resolved.
Subscribe(s) ==
  /\ connected /\ Registering(s)
  /\ subs' = Append(subs, s)
  /\ mine' = Append(mine, s)
  /\ UNCHANGED <<connected, paused, queue, runs, immediate, batch, started, wired,
                 starting, stopping, sessions, ready, dropped>>

\* What a splice of the current array, and a pause, mean to the dispatches.
Excuse(s, spliced) ==
  [d \in DOMAIN runs |->
    IF runs[d].phase = "done" THEN runs[d]
    ELSE [runs[d] EXCEPT !.owed = @ \ {s},
            !.removed = @ + (IF spliced /\ ~runs[d].frozen THEN 1 ELSE 0)]]

Splice(s) ==
  /\ subs' = RemoveFirst(subs, s)
  /\ runs' = Excuse(s, s \in Range(subs))

\* A handler's owner unsubscribes.
Unsubscribe(s) ==
  /\ s \in Range(subs)
  /\ Splice(s)
  /\ UNCHANGED <<connected, paused, queue, immediate, batch, service,
                 sessions, ready, dropped>>

Pause(s) ==
  /\ s \in (Known \cap Pausing) \ paused
  /\ paused' = paused \cup {s}
  /\ runs' = Excuse(s, FALSE)
  /\ UNCHANGED <<connected, subs, queue, immediate, batch, service,
                 sessions, ready, dropped>>

Resume(s) ==
  /\ s \in paused
  /\ paused' = paused \ {s}
  /\ UNCHANGED <<connected, subs, queue, runs, immediate, batch, service,
                 sessions, ready, dropped>>

-----------------------------------------------------------------------------
(* Connecting, starting and stopping.                                       *)

\* emit('onReady'), as the service's listener hears it.
AnnounceReady == ready' = IF wired /\ started THEN ready + 1 ELSE ready

Connect ==
  /\ ~connected /\ sessions < MaxSessions
  /\ connected' = TRUE /\ sessions' = sessions + 1
  /\ AnnounceReady

\* The application reconnects the adapter itself.
AdapterConnect ==
  /\ Connect
  /\ UNCHANGED <<subs, paused, queue, runs, immediate, batch, service, dropped>>

\* Mutant: the array is emptied in place.
DisconnectInPlace ==
  /\ connected' = FALSE
  /\ subs' = <<>>
  /\ delayed' = <<>> /\ due' = {} /\ dropped' = dropped \cup Range(delayed)
  /\ UNCHANGED runs

\* disconnect(): a new, empty array for the next session; every loop that is
\* under way keeps the old one.
Disconnect ==
  /\ connected' = FALSE
  /\ subs' = <<>>
  /\ delayed' = <<>> /\ due' = {} /\ dropped' = dropped \cup Range(delayed)
  /\ runs' = [d \in DOMAIN runs |->
       IF runs[d].phase = "done" \/ runs[d].frozen THEN runs[d]
       ELSE [runs[d] EXCEPT !.frozen = TRUE, !.array = subs]]

\* The application disconnects the adapter itself, though not inside start().
AdapterDisconnect ==
  /\ connected /\ ~starting
  /\ Disconnect
  /\ UNCHANGED <<paused, immediate, batch, service, sessions, ready>>

\* The end of start(): the listener is registered once, and the @OnQueueReady
\* handlers are called.
Ready ==
  /\ wired' = TRUE /\ started' = TRUE /\ starting' = FALSE

\* start() while the adapter is connected does not suspend.
Start ==
  /\ ~started /\ ~starting /\ connected
  /\ Ready /\ ready' = ready + 1
  /\ UNCHANGED <<connected, subs, paused, queue, runs, immediate, batch, stopping,
                 mine, sessions, dropped>>

\* start() while it is not: it connects and awaits.
StartConnects ==
  /\ ~started /\ ~starting
  /\ Connect
  /\ starting' = TRUE
  /\ UNCHANGED <<subs, paused, queue, runs, immediate, batch, started, wired,
                 stopping, mine, dropped>>

StartContinues ==
  /\ starting
  /\ Ready /\ ready' = ready + 1
  /\ UNCHANGED <<connected, subs, paused, queue, runs, immediate, batch, stopping,
                 mine, sessions, dropped>>

\* stop(), one round of its loop over the live array `mine`: unsubscribe() runs
\* at once and is awaited.
StopUnsubscribes ==
  /\ started
  /\ LET i == IF stopping = 0 THEN 1 ELSE stopping
     IN /\ i <= Len(mine)
        /\ Splice(mine[i])
        /\ stopping' = i + 1
  /\ UNCHANGED <<connected, paused, queue, immediate, batch, started, wired, starting,
                 mine, sessions, ready, dropped>>

\* The rest of stop(): the adapter's disconnect() has no await in it.
StopEnds ==
  /\ started
  /\ (IF stopping = 0 THEN 1 ELSE stopping) > Len(mine)
  /\ mine' = <<>> /\ started' = FALSE /\ stopping' = 0
  /\ IF connected THEN Disconnect
     ELSE UNCHANGED <<connected, subs, queue, runs, dropped>>
  /\ UNCHANGED <<paused, immediate, batch, wired, starting,
                 sessions, ready>>

-----------------------------------------------------------------------------
Dispatching == \E d \in DOMAIN runs : Nacks(d) \/ HandlerEnds(d) \/ Continues(d)
Publishing ==
  \/ \E m \in Messages : Publish(m) \/ BecomesDue(m)
  \/ \E two \in Messages \X Messages : PublishBatch(two)
  \/ BatchContinues \/ Redispatch \/ Tick
Subscribing ==
  \E s \in Subs : Subscribe(s) \/ Unsubscribe(s) \/ Pause(s) \/ Resume(s)
Living ==
  \/ AdapterConnect \/ AdapterDisconnect
  \/ Start \/ StartConnects \/ StartContinues
  \/ StopUnsubscribes \/ StopEnds

MemoryNext == Dispatching \/ Publishing \/ Subscribing \/ Living

\* Time passes and the interval of a connected adapter fires.
MemoryFairness ==
  /\ \A m \in Messages : WF_memoryVars(BecomesDue(m))
  /\ WF_memoryVars(Tick)

MemorySpec == MemoryInit /\ [][MemoryNext]_memoryVars /\ MemoryFairness

-----------------------------------------------------------------------------
Phases == {"handling", "settling", "done"}

MemoryTypeOK ==
  /\ connected \in BOOLEAN /\ started \in BOOLEAN /\ wired \in BOOLEAN
  /\ starting \in BOOLEAN /\ stopping \in Nat
  /\ subs \in Seq(Subs) /\ mine \in Seq(Subs)
  /\ paused \subseteq Subs
  /\ delayed \in Seq(Messages) /\ due \subseteq Range(delayed)
  /\ requeued \in Seq(Messages) /\ requeues \in 0..MaxRequeues
  /\ batch \in [rest : Seq(Messages), awaits : Nat] /\ batch.awaits <= Len(runs)
  /\ \A d \in DOMAIN runs :
       /\ runs[d].msg \in Messages /\ runs[d].phase \in Phases
  /\ sessions \in 1..MaxSessions /\ ready \in Nat /\ dropped \subseteq Messages

\* A dispatch that ends has reached every subscription the message was for
\* (unpaused and matching, by the meaning of its pattern, when the dispatch
\* began, and neither paused nor unsubscribed since), whatever was subscribed,
\* unsubscribed, paused or disconnected while its handlers ran, but for one per
\* entry that was spliced out of the array it walks (the splice shifts the rest
\* under the loop); and it has called no handler twice, and none whose pattern
\* does not denote the topic.  A final "#" is read as the matcher's tests read it.
Missed(d) ==
  IF d \in DOMAIN runs THEN Cardinality(runs[d].owed \ Range(runs[d].heard)) - runs[d].removed
  ELSE Cardinality(Owed(runs'[d].msg))

Ends(d) == runs'[d].phase = "done" /\ (d \in DOMAIN runs => runs[d].phase # "done")

EveryListenerHears ==
  [][\A d \in DOMAIN runs' :
       /\ Ends(d) => Missed(d) <= 0
       /\ IsInjective(runs'[d].heard)
       /\ \A s \in Range(runs'[d].heard) : runs'[d].msg \in Meant[s]]_memoryVars

\* A message that is dispatched to nobody was for nobody, by the documentation of
\* the patterns ("matchQueuePattern('events.#', 'events') // true",
\* pattern-matcher.ts:23).  The code has it otherwise.
NobodyDocumentedIsMissed ==
  [][\A d \in DOMAIN runs' \ DOMAIN runs :
       runs'[d].phase = "done" =>
         \A s \in Range(subs) \ paused : runs'[d].msg \notin Promised[s]]_memoryVars

\* A delayed message is dispatched in the end, also from behind messages of a
\* higher priority, unless the adapter is disconnected before.
DelayedDispatched ==
  \A m \in Messages : m \in Range(delayed) ~> m \in Sent \cup dropped

=============================================================================
