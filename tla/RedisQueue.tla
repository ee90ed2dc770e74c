------------------------------ MODULE RedisQueue ------------------------------
(***************************************************************************)
(* RedisQueueAdapter of packages/core/src/queue/adapters/redis.adapter.ts: *)
(* one topic of one Redis server, shared by the adapters of several         *)
(* operating-system processes.                                              *)
(*                                                                          *)
(* A message travels twice.  publish() RPUSHes it to the topic's list and   *)
(* then PUBLISHes it on the topic's channel; every subscription both polls  *)
(* the list (LPOP) and listens to the channel.  Delayed and priority        *)
(* messages first wait in a sorted set, from which the setInterval tick of  *)
(* every adapter moves them to the list and the channel.                    *)
(*                                                                          *)
(* Every awaited Redis command is a step of its own, so other processes     *)
(* interleave, and a process may fail, between any two of them.             *)
(***************************************************************************)
EXTENDS Integers, Sequences, FiniteSets

CONSTANTS Workers,      \* processes, each with one adapter and one subscription
          Steady,       \* processes that subscribe and then neither pause nor fail
          Messages,     \* messages, each published at most once
          NoMessage,    \* stands for null
          MaxRequeues,  \* bound: calls of nack(true) per message
          MaxFaults     \* bound: crashes, disconnects and Redis errors together

ASSUME WorkersAssumption == IsFiniteSet(Workers) /\ Workers # {}
ASSUME SteadyAssumption == Steady \subseteq Workers
ASSUME NoMessageAssumption == NoMessage \notin Messages
ASSUME BoundsAssumption == MaxRequeues \in Nat /\ MaxFaults \in Nat

Held == Messages \cup {NoMessage}
Kinds == {"normal", "delayed", "priority"}

VARIABLES
  \* in Redis
  list,        \* queue:q:<pattern>, popped at the left
  delayed,     \* queue:delayed
  ripe,        \* the members of `delayed` whose score has been reached
  priority,    \* queue:priority
  channel,     \* pub/sub messages on their way to each process
  \* in each process
  running,     \* adapter.running: connected and alive
  sub,         \* the subscription: none, on, off (unsubscribed), or detached
               \* (adapter disconnected, handler still on the shared client)
  paused,      \* entry.paused
  poll,        \* the poll loop: dead, idle (timer set), popped, handling
  polled,      \* the message the poll loop has popped
  handling,    \* handler calls started by the channel and not finished
  announcing,  \* messages whose publisher has RPUSHed them and not yet PUBLISHed
  tick,        \* the delayed processor's current tick
  \* history
  kind,        \* how each message will be published (fixed)
  published,   \* messages publish() was called with
  heard,       \* messages a handler was called with
  requeues,    \* nack(true) per message
  lost,        \* messages that left Redis and never reached a process, or that a
               \* failing process held
  faults

redis == <<list, delayed, ripe, priority, channel>>
loop == <<poll, polled>>
consumer == <<running, sub, paused>>
history == <<kind, published, heard, requeues, lost, faults>>
vars == <<redis, consumer, loop, handling, announcing, tick, history>>

IdleTick == [phase |-> "idle", batch |-> {}, moving |-> NoMessage, pushed |-> FALSE]

Init ==
  /\ list = <<>> /\ delayed = {} /\ ripe = {} /\ priority = {}
  /\ channel = [w \in Workers |-> [m \in Messages |-> 0]]
  /\ running = [w \in Workers |-> TRUE]
  /\ sub = [w \in Workers |-> "none"]
  /\ paused = [w \in Workers |-> FALSE]
  /\ poll = [w \in Workers |-> "dead"]
  /\ polled = [w \in Workers |-> NoMessage]
  /\ handling = [w \in Workers |-> [m \in Messages |-> 0]]
  /\ announcing = {}
  /\ tick = [w \in Workers |-> IdleTick]
  /\ kind \in [Messages -> Kinds]
  /\ published = {}
  /\ heard = {}
  /\ requeues = [m \in Messages |-> 0]
  /\ lost = {}
  /\ faults = 0

-----------------------------------------------------------------------------
\* Redis delivers a PUBLISH to every process that listens to the channel.
Listening(w) == sub[w] \in {"on", "detached"}

Broadcast(m) ==
  channel' = [w \in Workers |->
    IF Listening(w) THEN [channel[w] EXCEPT ![m] = @ + 1] ELSE channel[w]]

\* publish(), up to its first Redis command: ZADD for a delayed or a priority
\* message, RPUSH for a normal one.
Publish(m) ==
  /\ m \notin published
  /\ published' = published \cup {m}
  /\ delayed' = IF kind[m] = "delayed" THEN delayed \cup {m} ELSE delayed
  /\ priority' = IF kind[m] = "priority" THEN priority \cup {m} ELSE priority
  /\ list' = IF kind[m] = "normal" THEN Append(list, m) ELSE list
  /\ announcing' = IF kind[m] = "normal" THEN announcing \cup {m} ELSE announcing
  /\ UNCHANGED <<ripe, channel, consumer, loop, handling, tick,
                 kind, heard, requeues, lost, faults>>

\* publish(), its second command: PUBLISH on the channel.
Announce(m) ==
  /\ m \in announcing
  /\ announcing' = announcing \ {m}
  /\ Broadcast(m)
  /\ UNCHANGED <<list, delayed, ripe, priority, consumer, loop, handling,
                 tick, history>>

\* The publishing process dies, or is disconnected, between the two.
PublisherDies(m) ==
  /\ m \in announcing
  /\ announcing' = announcing \ {m}
  /\ UNCHANGED <<redis, consumer, loop, handling, tick, history>>

\* Time reaches the score of a delayed message.
Ripen(m) ==
  /\ m \in delayed \ ripe
  /\ ripe' = ripe \cup {m}
  /\ UNCHANGED <<list, delayed, priority, channel, consumer, loop, handling,
                 announcing, tick, history>>

-----------------------------------------------------------------------------
(* The delayed processor, one command of a tick at a time.  setInterval does *)
(* not wait for the tick before it, so one adapter may have two under way:    *)
(* they share nothing but Redis, as the ticks of two processes do, and are    *)
(* represented by those.  Both batches fit their limits (100 and 10).         *)

\* ZRANGEBYSCORE: reads the ripe messages, removes nothing.
TickReads(w) ==
  /\ running[w] /\ tick[w].phase = "idle" /\ ripe \cup priority # {}
  /\ tick' = [tick EXCEPT ![w].phase = "delayed", ![w].batch = ripe]
  /\ UNCHANGED <<redis, consumer, loop, handling, announcing, history>>

\* ZREM, whose result (was the message still there?) is not looked at.
TickRemoves(w, m) ==
  /\ tick[w].phase = "delayed" /\ tick[w].moving = NoMessage /\ m \in tick[w].batch
  /\ delayed' = delayed \ {m} /\ ripe' = ripe \ {m}
  /\ tick' = [tick EXCEPT ![w].batch = @ \ {m}, ![w].moving = m]
  /\ UNCHANGED <<list, priority, channel, consumer, loop, handling,
                 announcing, history>>

\* ZPOPMIN: the whole priority batch leaves Redis at once.
TickPopsPriority(w) ==
  /\ tick[w].phase = "delayed" /\ tick[w].moving = NoMessage /\ tick[w].batch = {}
  /\ tick' = [tick EXCEPT ![w].phase = "priority", ![w].batch = priority]
  /\ priority' = {}
  /\ UNCHANGED <<list, delayed, ripe, channel, consumer, loop, handling,
                 announcing, history>>

\* Mutant: the message goes to the channel only.
TickPushesNothing(w, m) ==
  /\ ~tick[w].pushed
  /\ \/ tick[w].moving = m
     \/ tick[w].phase = "priority" /\ tick[w].moving = NoMessage /\ m \in tick[w].batch
  /\ tick' = [tick EXCEPT ![w].batch = @ \ {m}, ![w].moving = m, ![w].pushed = TRUE]
  /\ UNCHANGED <<redis, consumer, loop, handling, announcing, history>>

\* RPUSH of the message that ZREM removed, or of the next one of the batch.
TickPushes(w, m) ==
  /\ ~tick[w].pushed
  /\ \/ tick[w].moving = m
     \/ tick[w].phase = "priority" /\ tick[w].moving = NoMessage /\ m \in tick[w].batch
  /\ list' = Append(list, m)
  /\ tick' = [tick EXCEPT ![w].batch = @ \ {m}, ![w].moving = m, ![w].pushed = TRUE]
  /\ UNCHANGED <<delayed, ripe, priority, channel, consumer, loop, handling,
                 announcing, history>>

\* PUBLISH of the message just pushed.
TickAnnounces(w) ==
  /\ tick[w].pushed
  /\ Broadcast(tick[w].moving)
  /\ tick' = [tick EXCEPT ![w].moving = NoMessage, ![w].pushed = FALSE]
  /\ UNCHANGED <<list, delayed, ripe, priority, consumer, loop, handling,
                 announcing, history>>

TickEnds(w) ==
  /\ tick[w].phase = "priority" /\ tick[w].batch = {} /\ tick[w].moving = NoMessage
  /\ tick' = [tick EXCEPT ![w] = IdleTick]
  /\ UNCHANGED <<redis, consumer, loop, handling, announcing, history>>

\* What a tick holds outside Redis: the message between ZREM and RPUSH, and the
\* popped priority batch.
InTick(w) ==
  (IF tick[w].moving # NoMessage /\ ~tick[w].pushed THEN {tick[w].moving} ELSE {})
    \cup (IF tick[w].phase = "priority" THEN tick[w].batch ELSE {})

\* A command of the tick rejects: the catch drops the rest of the tick.
TickFails(w) ==
  /\ tick[w].phase # "idle" /\ faults < MaxFaults
  /\ lost' = lost \cup InTick(w)
  /\ tick' = [tick EXCEPT ![w] = IdleTick]
  /\ faults' = faults + 1
  /\ UNCHANGED <<redis, consumer, loop, handling, announcing,
                 kind, published, heard, requeues>>

-----------------------------------------------------------------------------
(* The two ways a subscription receives messages.                           *)

\* A channel message arrives: it is dropped when the entry is paused or the
\* handler is gone, and otherwise starts processMessage without awaiting it.
PushArrives(w, m) ==
  /\ channel[w][m] > 0
  /\ channel' = [channel EXCEPT ![w][m] = @ - 1]
  /\ LET received == Listening(w) /\ ~paused[w]
     IN /\ handling' = IF received THEN [handling EXCEPT ![w][m] = @ + 1] ELSE handling
        /\ heard' = IF received THEN heard \cup {m} ELSE heard
  /\ UNCHANGED <<list, delayed, ripe, priority, consumer, loop, announcing,
                 tick, kind, published, requeues, lost, faults>>

\* A poll timer fires on a paused or disconnected adapter: the loop returns
\* without setting the next timer, and nothing ever starts it again.
PollStops(w) ==
  /\ poll[w] = "idle" /\ (~running[w] \/ paused[w])
  /\ poll' = [poll EXCEPT ![w] = "dead"]
  /\ UNCHANGED <<redis, consumer, polled, handling, announcing, tick,
                 kind, published, heard, requeues, lost, faults>>

\* LPOP on an empty list: the loop goes on only while the entry is subscribed.
PollFindsNothing(w) ==
  /\ poll[w] = "idle" /\ running[w] /\ ~paused[w] /\ list = <<>> /\ sub[w] # "on"
  /\ poll' = [poll EXCEPT ![w] = "dead"]
  /\ UNCHANGED <<redis, consumer, polled, handling, announcing, tick, history>>

\* LPOP; whether the entry is still subscribed is not checked before it.
PollPops(w) ==
  /\ poll[w] = "idle" /\ running[w] /\ ~paused[w] /\ list # <<>>
  /\ list' = Tail(list)
  /\ poll' = [poll EXCEPT ![w] = "popped"]
  /\ polled' = [polled EXCEPT ![w] = Head(list)]
  /\ UNCHANGED <<delayed, ripe, priority, channel, consumer, handling,
                 announcing, tick, history>>

\* LPOP rejects, and the loop swallows the error and goes on: Redis has popped
\* nothing, or it has popped a message whose reply is lost.
PollFails(w) ==
  /\ poll[w] = "idle" /\ running[w] /\ ~paused[w] /\ faults < MaxFaults
  /\ faults' = faults + 1
  /\ \/ UNCHANGED <<list, lost>>
     \/ list # <<>> /\ list' = Tail(list) /\ lost' = lost \cup {Head(list)}
  /\ poll' = [poll EXCEPT ![w] = IF sub[w] = "on" THEN "idle" ELSE "dead"]
  /\ UNCHANGED <<delayed, ripe, priority, channel, consumer, polled, handling,
                 announcing, tick, kind, published, heard, requeues>>

\* Mutant: the pause is checked once more when the reply arrives, and the popped
\* message is forgotten.
PollHandlesUnlessPaused(w) ==
  /\ poll[w] = "popped"
  /\ poll' = [poll EXCEPT ![w] = IF paused[w] THEN "dead" ELSE "handling"]
  /\ polled' = [polled EXCEPT ![w] = IF paused[w] THEN NoMessage ELSE @]
  /\ heard' = IF paused[w] THEN heard ELSE heard \cup {polled[w]}
  /\ UNCHANGED <<redis, consumer, handling, announcing, tick,
                 kind, published, requeues, lost, faults>>

\* The reply of LPOP arrives and the handler is called, paused or not.
PollHandles(w) ==
  /\ poll[w] = "popped"
  /\ poll' = [poll EXCEPT ![w] = "handling"]
  /\ heard' = heard \cup {polled[w]}
  /\ UNCHANGED <<redis, consumer, polled, handling, announcing, tick,
                 kind, published, requeues, lost, faults>>

\* How a handler call settles its message: nack(true) LPUSHes it back, unless
\* the adapter is disconnected (client = null).  An ack, the auto-nack of a
\* failure (with or without a dead letter queue) and no answer at all leave the
\* topic's list alone: the message has left it already.
Settle(w, m) ==
  \/ UNCHANGED <<list, requeues>>
  \/ /\ requeues[m] < MaxRequeues /\ running[w]
     /\ requeues' = [requeues EXCEPT ![m] = @ + 1]
     /\ list' = <<m>> \o list

PushDone(w, m) ==
  /\ handling[w][m] > 0
  /\ handling' = [handling EXCEPT ![w][m] = @ - 1]
  /\ Settle(w, m)
  /\ UNCHANGED <<delayed, ripe, priority, channel, consumer, loop, announcing,
                 tick, kind, published, heard, lost, faults>>

\* The polled handler call ends; the next timer is set only for an entry that
\* is still in the subscriptions of a running adapter.
PollDone(w) ==
  /\ poll[w] = "handling"
  /\ Settle(w, polled[w])
  /\ polled' = [polled EXCEPT ![w] = NoMessage]
  /\ poll' = [poll EXCEPT ![w] = IF running[w] /\ sub[w] = "on" THEN "idle" ELSE "dead"]
  /\ UNCHANGED <<delayed, ripe, priority, channel, consumer, handling, announcing,
                 tick, kind, published, heard, lost, faults>>

-----------------------------------------------------------------------------
(* The life of a subscription and of an adapter.                            *)

Subscribe(w) ==
  /\ running[w] /\ sub[w] = "none"
  /\ sub' = [sub EXCEPT ![w] = "on"]
  /\ poll' = [poll EXCEPT ![w] = "idle"]
  /\ UNCHANGED <<redis, running, paused, polled, handling, announcing, tick, history>>

Pause(w) ==
  /\ w \notin Steady /\ sub[w] = "on" /\ ~paused[w]
  /\ paused' = [paused EXCEPT ![w] = TRUE]
  /\ UNCHANGED <<redis, running, sub, loop, handling, announcing, tick,
                 kind, published, heard, requeues, lost, faults>>

\* resume() clears the flag and nothing else.
Resume(w) ==
  /\ sub[w] = "on" /\ paused[w]
  /\ paused' = [paused EXCEPT ![w] = FALSE]
  /\ UNCHANGED <<redis, running, sub, loop, handling, announcing, tick, history>>

Unsubscribe(w) ==
  /\ w \notin Steady /\ running[w] /\ sub[w] = "on"
  /\ sub' = [sub EXCEPT ![w] = "off"]
  /\ UNCHANGED <<redis, running, paused, loop, handling, announcing, tick,
                 kind, published, heard, requeues, lost, faults>>

\* disconnect(): the subscriptions array is emptied, the channel handler stays on
\* the shared client, and the next command of a tick finds client = null.
Disconnect(w) ==
  /\ w \notin Steady /\ running[w] /\ faults < MaxFaults
  /\ faults' = faults + 1
  /\ running' = [running EXCEPT ![w] = FALSE]
  /\ sub' = [sub EXCEPT ![w] = IF @ = "on" THEN "detached" ELSE @]
  /\ lost' = lost \cup InTick(w)
  /\ tick' = [tick EXCEPT ![w] = IdleTick]
  /\ UNCHANGED <<redis, paused, loop, handling, announcing,
                 kind, published, heard, requeues>>

\* What a process holds outside Redis and no handler has seen yet.
InHands(w) == InTick(w) \cup (IF poll[w] = "popped" THEN {polled[w]} ELSE {})

\* The process dies; Redis forgets its channel.
Crash(w) ==
  /\ w \notin Steady /\ running[w] /\ faults < MaxFaults
  /\ faults' = faults + 1
  /\ lost' = lost \cup InHands(w)
  /\ running' = [running EXCEPT ![w] = FALSE]
  /\ sub' = [sub EXCEPT ![w] = "none"]
  /\ paused' = [paused EXCEPT ![w] = FALSE]
  /\ poll' = [poll EXCEPT ![w] = "dead"]
  /\ polled' = [polled EXCEPT ![w] = NoMessage]
  /\ handling' = [handling EXCEPT ![w] = [m \in Messages |-> 0]]
  /\ channel' = [channel EXCEPT ![w] = [m \in Messages |-> 0]]
  /\ tick' = [tick EXCEPT ![w] = IdleTick]
  /\ UNCHANGED <<list, delayed, ripe, priority, announcing, kind, published,
                 heard, requeues>>

\* A crashed process is started again and connects a new adapter.
Restart(w) ==
  /\ ~running[w] /\ sub[w] = "none"
  /\ running' = [running EXCEPT ![w] = TRUE]
  /\ UNCHANGED <<redis, sub, paused, loop, handling, announcing, tick, history>>

-----------------------------------------------------------------------------
TickStep(w) ==
  \/ TickReads(w)
  \/ \E m \in Messages : TickRemoves(w, m)
  \/ TickPopsPriority(w)
  \/ \E m \in Messages : TickPushes(w, m)
  \/ TickAnnounces(w)
  \/ TickEnds(w)

PollStep(w) ==
  \/ PollStops(w)
  \/ PollFindsNothing(w)
  \/ PollPops(w)
  \/ PollHandles(w)
  \/ PollDone(w)

Next ==
  \/ \E m \in Messages : Publish(m)
  \/ \E m \in Messages : Announce(m)
  \/ \E m \in Messages : PublisherDies(m)
  \/ \E m \in Messages : Ripen(m)
  \/ \E w \in Workers : TickStep(w)
  \/ \E w \in Workers : TickFails(w)
  \/ \E w \in Workers, m \in Messages : PushArrives(w, m)
  \/ \E w \in Workers, m \in Messages : PushDone(w, m)
  \/ \E w \in Workers : PollStep(w)
  \/ \E w \in Workers : PollFails(w)
  \/ \E w \in Workers : Subscribe(w)
  \/ \E w \in Workers : Pause(w)
  \/ \E w \in Workers : Resume(w)
  \/ \E w \in Workers : Unsubscribe(w)
  \/ \E w \in Workers : Disconnect(w)
  \/ \E w \in Workers : Crash(w)
  \/ \E w \in Workers : Restart(w)

(* The timers of a live process fire, Redis answers, and handlers return.   *)
(* A steady process subscribes.                                             *)
Fairness ==
  /\ WF_vars(\E m \in Messages : Ripen(m))
  /\ \A w \in Workers : WF_vars(TickStep(w)) /\ WF_vars(PollStep(w))
  /\ \A w \in Steady : WF_vars(Subscribe(w))

Spec == Init /\ [][Next]_vars /\ Fairness

-----------------------------------------------------------------------------
InRedis(m) == (\E i \in DOMAIN list : list[i] = m) \/ m \in delayed \cup priority
Handled(m) == m \in heard

\* Every variable holds a value of its type.
TypeOK ==
  /\ list \in Seq(Messages)
  /\ delayed \subseteq Messages /\ ripe \subseteq delayed /\ priority \subseteq Messages
  /\ channel \in [Workers -> [Messages -> Nat]]
  /\ running \in [Workers -> BOOLEAN]
  /\ sub \in [Workers -> {"none", "on", "off", "detached"}]
  /\ paused \in [Workers -> BOOLEAN]
  /\ poll \in [Workers -> {"dead", "idle", "popped", "handling"}]
  /\ polled \in [Workers -> Held]
  /\ handling \in [Workers -> [Messages -> Nat]]
  /\ announcing \subseteq Messages
  /\ tick \in [Workers -> [phase : {"idle", "delayed", "priority"},
                           batch : SUBSET Messages, moving : Held, pushed : BOOLEAN]]
  /\ kind \in [Messages -> Kinds]
  /\ published \subseteq Messages /\ lost \subseteq Messages
  /\ heard \subseteq Messages
  /\ requeues \in [Messages -> 0..MaxRequeues]
  /\ faults \in 0..MaxFaults

\* A published message is in Redis, or outside it in the hands of a live
\* process, until a handler has been called with it; what is gone before that
\* was in the hands of a process that failed.  Neither the move between the
\* sorted sets and the list nor a pause or an unsubscribe may drop it.
NothingVanishes ==
  \A m \in published :
    \/ InRedis(m)
    \/ \E w \in Workers : m \in InHands(w)
    \/ Handled(m)
    \/ m \in lost

\* With one process that stays subscribed, every published message is
\* eventually handed to a handler, unless a failing process held it: also the
\* one whose publisher died between RPUSH and PUBLISH, the delayed one whose
\* processor died, and the one that reached its other readers while paused.
EventuallyHandled ==
  \A m \in Messages : (Steady # {} /\ m \in published) ~> (Handled(m) \/ m \in lost)
=============================================================================
