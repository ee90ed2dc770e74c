------------------------------ MODULE NatsQueue ------------------------------
(***************************************************************************)
(* The NATS queue adapters of packages/nats/src: NatsQueueAdapter ("core",  *)
(* which nothing persists) and JetStreamQueueAdapter, whose subscriptions   *)
(* acknowledge in "auto" (AckPolicy.None) or "manual" (Explicit) mode.      *)
(*                                                                          *)
(* The server is external: a stream keeps every message, and a consumer,    *)
(* known by its name, hands each message of its filter to one of the        *)
(* subscriptions that consume from it, again when it is not acknowledged in *)
(* time, at most MaxDeliver times.  Here is one consumer with those that    *)
(* name it: the subscriptions of a group, or those without a group made in  *)
(* the same millisecond, which is then their name.  Others have a consumer  *)
(* each, and nothing to do with one another.                                *)
(***************************************************************************)
EXTENDS Integers, Sequences, FiniteSets

CONSTANTS Subs,       \* the subscriptions that name it, each in a process of its own
          Messages, Topics,
          MaxDeliver, \* of a JetStream consumer
          Prefetch,   \* messages handed out ahead of their handlers
          MaxFaults   \* bound: pauses, unsubscribes, errors and crashes

ASSUME NatsBounds == MaxDeliver \in Nat \ {0} /\ Prefetch \in Nat \ {0} /\ MaxFaults \in Nat
ASSUME NatsTopics == "none" \notin Topics

VARIABLES
  \* chosen at first and fixed
  mode,      \* "core", "auto" or "manual"
  pattern,   \* the topic each one subscribes to
  topic,     \* the topic of each message
  \* the server
  published, \* messages in the stream
  filter,    \* the topic of the consumer, once it exists, or "none"
  state,     \* of a message there: absent, pending, out (unacknowledged), done
  delivered, \* how often it was handed out
  \* the subscriptions
  status,    \* none, added, consuming, waiting (to restart), gone
  subRunning, subPaused,
  buffer,    \* what each has been handed and not looked at
  handling,  \* the messages whose handler is under way
  \* history
  handled,   \* messages that reached a handler
  dropped,   \* messages that a subscription let go of unseen
  faults

fixed == <<mode, pattern, topic>>
server == <<published, filter, state, delivered>>
loop == <<status, subRunning, subPaused, buffer, handling>>
seen == <<handled, dropped>>
natsVars == <<fixed, server, loop, seen, faults>>

NatsInit ==
  /\ mode \in {"core", "auto", "manual"}
  /\ pattern \in [Subs -> Topics] /\ topic \in [Messages -> Topics]
  /\ published = {} /\ filter = "none"
  /\ state = [m \in Messages |-> "absent"] /\ delivered = [m \in Messages |-> 0]
  /\ status = [s \in Subs |-> "none"]
  /\ subRunning = [s \in Subs |-> FALSE] /\ subPaused = [s \in Subs |-> FALSE]
  /\ buffer = [s \in Subs |-> <<>>] /\ handling = [s \in Subs |-> {}]
  /\ handled = {} /\ dropped = {} /\ faults = 0

Fault == faults < MaxFaults /\ faults' = faults + 1

-----------------------------------------------------------------------------
(* publish() and subscribe().                                               *)

\* Core NATS gives a message to one of the group that subscribe to its topic, and
\* forgets it.
PublishCore(m) ==
  /\ mode = "core" /\ m \notin published
  /\ published' = published \cup {m}
  /\ LET there == {s \in Subs : status[s] = "consuming" /\ pattern[s] = topic[m]}
     IN \/ there = {} /\ UNCHANGED <<buffer, state>>
        \/ /\ \E s \in there : buffer' = [buffer EXCEPT ![s] = Append(@, m)]
           /\ state' = [state EXCEPT ![m] = "done"]
  /\ UNCHANGED <<fixed, filter, delivered, status, subRunning, subPaused, handling, seen, faults>>

PublishStream(m) ==
  /\ mode # "core" /\ m \notin published
  /\ published' = published \cup {m}
  /\ state' = IF filter = topic[m] THEN [state EXCEPT ![m] = "pending"] ELSE state
  /\ UNCHANGED <<fixed, filter, delivered, loop, seen, faults>>

\* consumers.add(): a name that exists is an error, which is ignored.  A new
\* consumer starts at the beginning of the stream.
AddConsumer(s) ==
  /\ mode # "core" /\ status[s] = "none"
  /\ status' = [status EXCEPT ![s] = "added"]
  /\ IF filter # "none" THEN UNCHANGED <<filter, state>> ELSE
       /\ filter' = pattern[s]
       /\ state' = [m \in Messages |->
            IF m \in published /\ topic[m] = pattern[s] THEN "pending" ELSE "absent"]
  /\ UNCHANGED <<fixed, published, delivered, subRunning, subPaused, buffer, handling, seen, faults>>

\* consumers.get() and consumeMessages(); in core NATS the subscription itself.
Subscribe(s) ==
  /\ status[s] = IF mode = "core" THEN "none" ELSE "added"
  /\ status' = [status EXCEPT ![s] = "consuming"]
  /\ subRunning' = [subRunning EXCEPT ![s] = TRUE]
  /\ UNCHANGED <<fixed, server, subPaused, buffer, handling, seen, faults>>

-----------------------------------------------------------------------------
(* The server and the loop that consumes.                                   *)

\* What is not to be acknowledged is done with as it is handed out.
Deliver(s, m) ==
  /\ mode # "core" /\ status[s] = "consuming" /\ Len(buffer[s]) < Prefetch
  /\ state[m] = "pending"
  /\ buffer' = [buffer EXCEPT ![s] = Append(@, m)]
  /\ state' = [state EXCEPT ![m] = IF mode = "manual" THEN "out" ELSE "done"]
  /\ delivered' = [delivered EXCEPT ![m] = @ + 1]
  /\ UNCHANGED <<fixed, published, filter, status, subRunning, subPaused, handling, seen, faults>>

\* ack_wait is over; after the last delivery the message stays unacknowledged.
AckWaitEnds(m) ==
  /\ state[m] = "out" /\ delivered[m] < MaxDeliver
  /\ state' = [state EXCEPT ![m] = "pending"]
  /\ UNCHANGED <<fixed, published, filter, delivered, loop, seen, faults>>

\* Mutant: what a loop lets go of as it stops is acknowledged.
LetGoAcked(ms) ==
  /\ dropped' = dropped \cup ms
  /\ state' = [m \in Messages |-> IF m \in ms THEN "done" ELSE state[m]]
\* The messages of a loop that stops are let go of without a word.
LetGo(ms) ==
  /\ dropped' = dropped \cup ms
  /\ UNCHANGED state
InBuffer(s) == {buffer[s][i] : i \in 1..Len(buffer[s])}

\* Mutant: a loop that has stopped is not started again.
StoppedForGood(s) == "gone"
\* Consumption starts again after a while if the subscription is still running.
Stopped(s) == IF subRunning[s] THEN "waiting" ELSE "gone"

\* A paused or unsubscribed loop takes one more message, and stops.
Breaks(s) ==
  /\ mode # "core" /\ status[s] = "consuming" /\ handling[s] = {} /\ buffer[s] # <<>>
  /\ ~subRunning[s] \/ subPaused[s]
  /\ LetGo(InBuffer(s))
  /\ buffer' = [buffer EXCEPT ![s] = <<>>]
  /\ status' = [status EXCEPT ![s] = Stopped(s)]
  /\ UNCHANGED <<fixed, published, filter, delivered, subRunning, subPaused, handling, handled, faults>>

\* Core NATS: a message that comes while paused is let go of.
Ignores(s) ==
  /\ mode = "core" /\ subPaused[s] /\ handling[s] = {} /\ buffer[s] # <<>>
  /\ LetGo({Head(buffer[s])})
  /\ buffer' = [buffer EXCEPT ![s] = Tail(@)]
  /\ UNCHANGED <<fixed, published, filter, delivered, status, subRunning, subPaused, handling, handled, faults>>

Looks(s) ==
  /\ status[s] = "consuming" /\ subRunning[s] /\ ~subPaused[s]
  /\ handling[s] = {} /\ buffer[s] # <<>>

\* A message of another pattern: skipped, and acknowledged unless that is manual.
Skips(s) ==
  /\ Looks(s) /\ topic[Head(buffer[s])] # pattern[s]
  /\ buffer' = [buffer EXCEPT ![s] = Tail(@)]
  /\ UNCHANGED <<fixed, server, status, subRunning, subPaused, handling, seen, faults>>

\* The handler is called, and awaited before the next message is looked at.
Handles(s) ==
  /\ Looks(s) /\ topic[Head(buffer[s])] = pattern[s]
  /\ handling' = [handling EXCEPT ![s] = {Head(buffer[s])}]
  /\ handled' = handled \cup {Head(buffer[s])}
  /\ buffer' = [buffer EXCEPT ![s] = Tail(@)]
  /\ UNCHANGED <<fixed, server, status, subRunning, subPaused, dropped, faults>>

\* What a handler may have done with its message: in auto mode the adapter's ack
\* and nak have no effect on the server.  nack(false) passes nak() a delay that is
\* no number: the message comes back at once, or when its ack_wait is over.
Acts == IF mode = "manual" THEN {"ack", "nack", "nothing"} ELSE {"nothing"}

HandlerEnds(s, act) ==
  /\ act \in Acts
  /\ \E m \in handling[s] :
       /\ handling' = [handling EXCEPT ![s] = {}]
       /\ state' = IF act = "ack" /\ state[m] = "out" THEN [state EXCEPT ![m] = "done"]
                   ELSE IF act = "nack" /\ state[m] = "out" /\ delivered[m] < MaxDeliver
                   THEN [state EXCEPT ![m] = "pending"] ELSE state
  /\ UNCHANGED <<fixed, published, filter, delivered, status, subRunning, subPaused, buffer, seen, faults>>

\* The timer of the restart.  It is not looked at whether it is paused.
Restarts(s) ==
  /\ status[s] = "waiting"
  /\ status' = [status EXCEPT ![s] = IF subRunning[s] THEN "consuming" ELSE "gone"]
  /\ UNCHANGED <<fixed, server, subRunning, subPaused, buffer, handling, seen, faults>>

-----------------------------------------------------------------------------
(* What the application and the world do to a subscription.                 *)

Pause(s) ==
  /\ status[s] \in {"consuming", "waiting"} /\ ~subPaused[s] /\ Fault
  /\ subPaused' = [subPaused EXCEPT ![s] = TRUE]
  /\ UNCHANGED <<fixed, server, status, subRunning, buffer, handling, seen>>

Resume(s) ==
  /\ subPaused[s]
  /\ subPaused' = [subPaused EXCEPT ![s] = FALSE]
  /\ UNCHANGED <<fixed, server, status, subRunning, buffer, handling, seen, faults>>

\* JetStream's loop goes on to its next message; core NATS stops delivering.
Unsubscribe(s) ==
  /\ subRunning[s] /\ Fault
  /\ subRunning' = [subRunning EXCEPT ![s] = FALSE]
  /\ IF mode = "core"
     THEN /\ LetGo(InBuffer(s))
          /\ buffer' = [buffer EXCEPT ![s] = <<>>]
          /\ status' = [status EXCEPT ![s] = "gone"]
     ELSE UNCHANGED <<state, dropped, buffer, status>>
  /\ UNCHANGED <<fixed, published, filter, delivered, subPaused, handling, handled>>

\* The iterator of the consumer throws, between two handlers.
ConsumerFails(s) ==
  /\ mode # "core" /\ status[s] = "consuming" /\ handling[s] = {} /\ Fault
  /\ LetGo(InBuffer(s))
  /\ buffer' = [buffer EXCEPT ![s] = <<>>]
  /\ status' = [status EXCEPT ![s] = Stopped(s)]
  /\ UNCHANGED <<fixed, published, filter, delivered, subRunning, subPaused, handling, handled>>

\* disconnect(), during which a handler goes on, or a crash, which ends it.
Leaves(s, crash) ==
  /\ status[s] \in {"consuming", "waiting"} /\ Fault
  /\ subRunning' = [subRunning EXCEPT ![s] = FALSE]
  /\ LetGo(InBuffer(s))
  /\ buffer' = [buffer EXCEPT ![s] = <<>>]
  /\ status' = [status EXCEPT ![s] = "gone"]
  /\ handling' = IF crash THEN [handling EXCEPT ![s] = {}] ELSE handling
  /\ UNCHANGED <<fixed, published, filter, delivered, subPaused, handled>>

-----------------------------------------------------------------------------
Publishing == \E m \in Messages : PublishCore(m) \/ PublishStream(m)
Joining == \E s \in Subs : AddConsumer(s) \/ Subscribe(s)
Serving == (\E s \in Subs, m \in Messages : Deliver(s, m))
           \/ (\E m \in Messages : AckWaitEnds(m))
Looping(s) == Breaks(s) \/ Ignores(s) \/ Skips(s) \/ Handles(s) \/ Restarts(s)
              \/ \E act \in Acts : HandlerEnds(s, act)
Disturbing ==
  \E s \in Subs :
    \/ Pause(s) \/ Resume(s) \/ Unsubscribe(s) \/ ConsumerFails(s)
    \/ \E crash \in BOOLEAN : Leaves(s, crash)

NatsNext == Publishing \/ Joining \/ Serving \/ (\E s \in Subs : Looping(s)) \/ Disturbing

\* The server hands out what it can and notices what was not acknowledged, the
\* loops go on, handlers end and the restart timers fire.
Fairness ==
  /\ WF_natsVars(\E s \in Subs, m \in Messages : Deliver(s, m))
  /\ WF_natsVars(\E m \in Messages : AckWaitEnds(m))
  /\ \A s \in Subs : WF_natsVars(Looping(s))

NatsSpec == NatsInit /\ [][NatsNext]_natsVars /\ Fairness

-----------------------------------------------------------------------------
NatsTypeOK ==
  /\ mode \in {"core", "auto", "manual"}
  /\ pattern \in [Subs -> Topics] /\ topic \in [Messages -> Topics]
  /\ published \subseteq Messages /\ filter \in Topics \cup {"none"}
  /\ state \in [Messages -> {"absent", "pending", "out", "done"}]
  /\ delivered \in [Messages -> 0..MaxDeliver]
  /\ status \in [Subs -> {"none", "added", "consuming", "waiting", "gone"}]
  /\ subRunning \in [Subs -> BOOLEAN] /\ subPaused \in [Subs -> BOOLEAN]
  /\ buffer \in [Subs -> Seq(Messages)] /\ handling \in [Subs -> SUBSET Messages]
  /\ handled \subseteq Messages /\ dropped \subseteq Messages
  /\ faults \in 0..MaxFaults

\* The subscriptions all have the pattern that the consumer was made with.
OneFilter == \A s, t \in Subs : pattern[s] = pattern[t]
Held == UNION {InBuffer(s) : s \in Subs}
Owed == {m \in Messages : state[m] # "absent"} \ handled
Exhausted(m) == state[m] = "out" /\ delivered[m] = MaxDeliver
Lost(m) == m \in dropped /\ (mode # "manual" \/ Exhausted(m))

\* A message that was there for the subscriptions and has not reached a handler is
\* still held by one of them or will be handed out again.  It is lost only when a
\* subscription that was paused, failed, unsubscribed or left let go of it: at
\* once in core NATS and in auto mode, and in manual mode only when that has used
\* up its last delivery.  (Not for subscriptions of several patterns under one
\* name: they skip each other's messages, and what only the second one's
\* pattern matches never comes.)
LostOnlyWhenLetGo ==
  OneFilter => \A m \in Owed :
    m \in Held \/ state[m] = "pending" \/ (state[m] = "out" /\ ~Exhausted(m)) \/ Lost(m)

\* A message that is owed reaches a handler, unless it was let go of for good or
\* every subscription is gone or paused: an error of the consumer and a pause end
\* in a new start.
OwedIsHandled ==
  \A m \in Messages :
    (OneFilter /\ m \in Owed) ~>
      (m \notin Owed \/ Lost(m) \/ \A s \in Subs : ~subRunning[s] \/ subPaused[s])
=============================================================================
