------------------------------ MODULE QueueProofs ------------------------------
(***************************************************************************)
(* Proofs about RedisQueue for any number of processes, messages, requeues   *)
(* and faults.                                                              *)
(*                                                                          *)
(* That nothing vanishes is almost inductive: a command that takes a message *)
(* out of Redis hands it to the process that sent it.  What it rests on is   *)
(* that no hand is emptied by anybody else: a tick that rests holds nothing, *)
(* one that has pushed knows what, and a process without a subscription has  *)
(* no poll loop, so that subscribe() starts none over one that has popped.   *)
(***************************************************************************)
EXTENDS RedisQueue, SequenceTheorems, TLAPS

TickType == [phase : {"idle", "delayed", "priority"}, batch : SUBSET Messages,
             moving : Held, pushed : BOOLEAN]

HandsOrderly(w) ==
  /\ tick[w].phase = "idle" => tick[w] = IdleTick
  /\ tick[w].pushed => tick[w].moving # NoMessage
  /\ sub[w] = "none" => poll[w] = "dead"
  /\ poll[w] \in {"popped", "handling"} => polled[w] \in Messages

VanishInv == TypeOK /\ NothingVanishes /\ \A w \in Workers : HandsOrderly(w)

InList(m) == \E i \in DOMAIN list : list[i] = m

-----------------------------------------------------------------------------
\* A message pushed at either end of the list joins those in it.
LEMMA PushAdds ==
  ASSUME NEW q \in Seq(Messages), NEW m \in Messages
  PROVE  /\ Append(q, m) \in Seq(Messages) /\ <<m>> \o q \in Seq(Messages)
         /\ \A x : (\E i \in DOMAIN Append(q, m) : Append(q, m)[i] = x)
                     <=> x = m \/ \E i \in DOMAIN q : q[i] = x
         /\ \A x : (\E i \in DOMAIN q : q[i] = x) \/ x = m
                     => \E i \in DOMAIN (<<m>> \o q) : (<<m>> \o q)[i] = x
<1>1. /\ Append(q, m) \in Seq(Messages) /\ Len(Append(q, m)) = Len(q) + 1
      /\ \A i \in 1..Len(q) : Append(q, m)[i] = q[i]
      /\ Append(q, m)[Len(q) + 1] = m
      /\ Len(q) \in Nat /\ DOMAIN q = 1..Len(q)
      /\ DOMAIN Append(q, m) = 1..(Len(q) + 1)
  OBVIOUS
<1>2. /\ <<m>> \in Seq(Messages) /\ Len(<<m>>) = 1 /\ <<m>>[1] = m
  OBVIOUS
<1>3. /\ <<m>> \o q \in Seq(Messages) /\ Len(<<m>> \o q) = 1 + Len(q)
      /\ \A i \in 1..1 + Len(q) :
           (<<m>> \o q)[i] = IF i <= 1 THEN <<m>>[i] ELSE q[i - 1]
      /\ DOMAIN (<<m>> \o q) = 1..1 + Len(q)
  BY <1>2, ConcatProperties
<1>4. \A x : (\E i \in DOMAIN Append(q, m) : Append(q, m)[i] = x)
               <=> x = m \/ \E i \in DOMAIN q : q[i] = x
  <2>1. 1..(Len(q) + 1) = 1..Len(q) \cup {Len(q) + 1}
    BY <1>1
  <2> QED BY <1>1, <2>1
<1>5. ASSUME NEW x, (\E i \in DOMAIN q : q[i] = x) \/ x = m
      PROVE  \E i \in DOMAIN (<<m>> \o q) : (<<m>> \o q)[i] = x
  <2>1. CASE x = m
    <3>1. 1 \in 1..1 + Len(q) /\ (<<m>> \o q)[1] = m
      BY <1>1, <1>2, <1>3
    <3> QED BY <1>3, <2>1, <3>1
  <2>2. CASE \E i \in DOMAIN q : q[i] = x
    <3>1. PICK i \in 1..Len(q) : q[i] = x
      BY <1>1, <2>2
    <3>2. i + 1 \in 1..1 + Len(q) /\ (<<m>> \o q)[i + 1] = q[i]
      BY <1>1, <1>3
    <3> QED BY <1>3, <3>1, <3>2
  <2> QED BY <1>5, <2>1, <2>2
<1> QED BY <1>1, <1>3, <1>4, <1>5

\* What LPOP leaves in the list, and what it takes.
LEMMA PopTakes ==
  ASSUME NEW q \in Seq(Messages), q # <<>>
  PROVE  /\ Head(q) \in Messages /\ Tail(q) \in Seq(Messages)
         /\ \A x : (\E i \in DOMAIN q : q[i] = x)
                     => x = Head(q) \/ \E i \in DOMAIN Tail(q) : Tail(q)[i] = x
<1>1. /\ Head(q) \in Messages /\ Tail(q) \in Seq(Messages) /\ Head(q) = q[1]
      /\ Len(q) \in Nat /\ DOMAIN q = 1..Len(q) /\ DOMAIN Tail(q) = 1..Len(q) - 1
      /\ \A i \in 1..Len(q) - 1 : Tail(q)[i] = q[i + 1]
  OBVIOUS
<1>2. ASSUME NEW i \in 1..Len(q), i # 1
      PROVE  i - 1 \in DOMAIN Tail(q) /\ Tail(q)[i - 1] = q[i]
  BY <1>1, <1>2
<1> QED BY <1>1, <1>2

-----------------------------------------------------------------------------
\* The hand of a process is what its tick and its poll loop hold.
LEMMA HandsAre ==
  ASSUME NEW w \in Workers, NEW m
  PROVE  m \in InHands(w) <=>
           \/ tick[w].moving # NoMessage /\ ~tick[w].pushed /\ m = tick[w].moving
           \/ tick[w].phase = "priority" /\ m \in tick[w].batch
           \/ poll[w] = "popped" /\ m = polled[w]
BY DEF InHands, InTick

\* The same in the next state.
LEMMA HandsWillBe ==
  ASSUME NEW w \in Workers, NEW m
  PROVE  (m \in InHands(w))' <=>
           \/ tick'[w].moving # NoMessage /\ ~tick'[w].pushed /\ m = tick'[w].moving
           \/ tick'[w].phase = "priority" /\ m \in tick'[w].batch
           \/ poll'[w] = "popped" /\ m = polled'[w]
BY DEF InHands, InTick

\* A step that leaves ticks and loops alone, and takes nothing out of Redis but
\* what it records as published, handled or lost, loses no message.
LEMMA HandsUntouched ==
  ASSUME NothingVanishes, UNCHANGED <<tick, loop>>,
         \A m \in published : InRedis(m) => InRedis(m)',
         \A m \in published' : m \in published \/ InRedis(m)',
         heard \subseteq heard', lost \subseteq lost'
  PROVE  NothingVanishes'
<1>1. \A w \in Workers : \A m : m \in InHands(w) => (m \in InHands(w))'
  BY HandsAre, HandsWillBe DEF loop
<1> QED BY <1>1 DEF NothingVanishes, Handled

LEMMA InitVanishInv == Init => VanishInv
<1> SUFFICES ASSUME Init PROVE VanishInv
  OBVIOUS
<1>1. TypeOK
  <2>1. IdleTick \in TickType
    BY DEF IdleTick, TickType, Held
  <2>2. \A w \in Workers : tick[w] \in TickType
    BY <2>1 DEF Init
  <2> QED BY <2>1, BoundsAssumption DEF Init, TypeOK, TickType, Held, Kinds
<1>2. NothingVanishes
  BY DEF Init, NothingVanishes
<1>3. \A w \in Workers : HandsOrderly(w)
  BY DEF Init, HandsOrderly, IdleTick
<1> QED BY <1>1, <1>2, <1>3 DEF VanishInv

\* A broadcast leaves every channel one of counters.
LEMMA BroadcastType ==
  ASSUME channel \in [Workers -> [Messages -> Nat]], NEW m \in Messages, Broadcast(m)
  PROVE  channel' \in [Workers -> [Messages -> Nat]]
<1>1. \A w \in Workers : [channel[w] EXCEPT ![m] = @ + 1] \in [Messages -> Nat]
  OBVIOUS
<1> QED BY <1>1 DEF Broadcast

-----------------------------------------------------------------------------
(* The publisher.                                                           *)

LEMMA StepPublish ==
  ASSUME VanishInv, NEW m \in Messages, Publish(m)
  PROVE  VanishInv'
<1>1. list \in Seq(Messages)
  BY DEF VanishInv, TypeOK
<1>2. list' \in Seq(Messages) /\ \A x : InList(x) => InList(x)'
  BY <1>1, PushAdds DEF Publish, InList
<1>3. \A x \in published : InRedis(x) => InRedis(x)'
  BY <1>2 DEF InRedis, InList, Publish
<1>4. InRedis(m)'
  <2>1. CASE kind[m] = "normal"
    BY <1>1, <2>1, PushAdds DEF Publish, InRedis
  <2>2. CASE kind[m] # "normal"
    BY <2>2 DEF Publish, InRedis, VanishInv, TypeOK, Kinds
  <2> QED BY <2>1, <2>2
<1>5. NothingVanishes'
  <2>1. \A x \in published' : x \in published \/ InRedis(x)'
    BY <1>4 DEF Publish
  <2>2. NothingVanishes /\ UNCHANGED <<tick, loop, heard, lost>>
    BY DEF Publish, VanishInv
  <2> QED BY <1>3, <2>1, <2>2, HandsUntouched
<1>6. TypeOK'
  BY <1>2 DEF Publish, VanishInv, TypeOK, consumer, loop
<1>7. \A w \in Workers : HandsOrderly(w)'
  BY DEF Publish, VanishInv, HandsOrderly, consumer, loop
<1> QED BY <1>5, <1>6, <1>7 DEF VanishInv

\* PUBLISH, the publisher's failure, and time reaching a score move nothing.
LEMMA StepAnnounce ==
  ASSUME VanishInv, NEW m \in Messages, Announce(m) \/ PublisherDies(m) \/ Ripen(m)
  PROVE  VanishInv'
<1>1. TypeOK'
  <2>1. CASE Announce(m)
    <3>1. channel' \in [Workers -> [Messages -> Nat]]
      BY <2>1, BroadcastType DEF Announce, VanishInv, TypeOK
    <3> QED BY <2>1, <3>1 DEF Announce, VanishInv, TypeOK, consumer, loop, history
  <2>2. CASE PublisherDies(m)
    BY <2>2 DEF PublisherDies, VanishInv, TypeOK, redis, consumer, loop, history
  <2>3. CASE Ripen(m)
    BY <2>3 DEF Ripen, VanishInv, TypeOK, consumer, loop, history
  <2> QED BY <2>1, <2>2, <2>3
<1>2. UNCHANGED <<tick, loop, consumer, list, delayed, priority, history>>
  BY DEF Announce, PublisherDies, Ripen, redis
<1>3. NothingVanishes'
  <2>1. \A x \in published : InRedis(x) => InRedis(x)'
    BY <1>2 DEF InRedis
  <2>2. NothingVanishes /\ UNCHANGED <<published, heard, lost>>
    BY <1>2 DEF VanishInv, history
  <2> QED BY <1>2, <2>1, <2>2, HandsUntouched
<1>4. \A w \in Workers : HandsOrderly(w)'
  BY <1>2 DEF VanishInv, HandsOrderly, consumer, loop
<1> QED BY <1>1, <1>3, <1>4 DEF VanishInv

-----------------------------------------------------------------------------
(* The tick of a process's delayed processor.                               *)

\* A step of one tick that leaves the rest of the hands alone: it is enough to
\* follow the messages of Redis and those of this hand.
LEMMA TickMoves ==
  ASSUME NothingVanishes, NEW w \in Workers,
         \A v \in Workers \ {w} : tick'[v] = tick[v],
         UNCHANGED loop, published' = published, heard' = heard, lost \subseteq lost',
         \A x : InRedis(x) => InRedis(x)' \/ (x \in InHands(w))',
         \A x : x \in InTick(w) => InRedis(x)' \/ (x \in InHands(w))' \/ x \in lost'
  PROVE  NothingVanishes'
<1>1. \A v \in Workers \ {w} : \A x : x \in InHands(v) => (x \in InHands(v))'
  BY HandsAre, HandsWillBe DEF loop
<1>2. \A x : x \in InHands(w) => InRedis(x)' \/ (x \in InHands(w))' \/ x \in lost'
  <2> SUFFICES ASSUME NEW x, x \in InHands(w)
               PROVE  InRedis(x)' \/ (x \in InHands(w))' \/ x \in lost'
    OBVIOUS
  <2>1. CASE x \in InTick(w)
    BY <2>1
  <2>2. CASE poll[w] = "popped" /\ x = polled[w]
    BY <2>2, HandsWillBe DEF loop
  <2> QED BY <2>1, <2>2 DEF InHands
<1> QED BY <1>1, <1>2 DEF NothingVanishes, Handled

\* What a step of one tick leaves of the orderly hands, when it is orderly itself.
LEMMA TickStaysOrderly ==
  ASSUME VanishInv, NEW w \in Workers, UNCHANGED <<loop, sub>>,
         \A v \in Workers \ {w} : tick'[v] = tick[v],
         tick'[w].phase = "idle" => tick'[w] = IdleTick,
         tick'[w].pushed => tick'[w].moving # NoMessage
  PROVE  \A v \in Workers : HandsOrderly(v)'
<1> SUFFICES ASSUME NEW v \in Workers PROVE HandsOrderly(v)'
  OBVIOUS
<1>1. HandsOrderly(v)
  BY DEF VanishInv
<1>2. CASE v = w
  BY <1>1, <1>2 DEF HandsOrderly, loop
<1>3. CASE v # w
  BY <1>1, <1>3 DEF HandsOrderly, loop
<1> QED BY <1>2, <1>3

LEMMA StepTickReads ==
  ASSUME VanishInv, NEW w \in Workers, TickReads(w)
  PROVE  VanishInv'
<1>1. tick \in [Workers -> TickType] /\ tick[w] \in TickType /\ ripe \subseteq Messages
  BY DEF VanishInv, TypeOK, TickType
<1>2. tick[w] = IdleTick
  BY DEF VanishInv, HandsOrderly, TickReads
<1>3. /\ tick' \in [Workers -> TickType]
      /\ \A v \in Workers \ {w} : tick'[v] = tick[v]
      /\ tick'[w].phase = "delayed" /\ tick'[w].batch = ripe
      /\ tick'[w].moving = tick[w].moving /\ tick'[w].pushed = tick[w].pushed
  BY <1>1 DEF TickReads, TickType
<1>4. TypeOK'
  BY <1>3 DEF TickReads, VanishInv, TypeOK, TickType, redis, consumer, loop, history
<1>5. \A v \in Workers : HandsOrderly(v)'
  BY <1>2, <1>3, TickStaysOrderly DEF TickReads, IdleTick, consumer
<1>6. NothingVanishes'
  <2>1. \A x : InRedis(x) => InRedis(x)'
    BY DEF TickReads, InRedis, redis
  <2>2. \A x : x \notin InTick(w)
    BY <1>2 DEF InTick, IdleTick
  <2>3. NothingVanishes /\ UNCHANGED <<loop, published, heard, lost>>
    BY DEF TickReads, VanishInv, history
  <2> QED BY <1>3, <2>1, <2>2, <2>3, TickMoves
<1> QED BY <1>4, <1>5, <1>6 DEF VanishInv

LEMMA StepTickRemoves ==
  ASSUME VanishInv, NEW w \in Workers, NEW m \in Messages, TickRemoves(w, m)
  PROVE  VanishInv'
<1>1. /\ tick \in [Workers -> TickType] /\ tick[w] \in TickType
      /\ tick[w].phase = "delayed" /\ tick[w].moving = NoMessage /\ ~tick[w].pushed
  BY DEF VanishInv, TypeOK, TickType, HandsOrderly, TickRemoves
<1>2. /\ tick' \in [Workers -> TickType]
      /\ \A v \in Workers \ {w} : tick'[v] = tick[v]
      /\ tick'[w].phase = "delayed" /\ tick'[w].batch = tick[w].batch \ {m}
      /\ tick'[w].moving = m /\ ~tick'[w].pushed
  BY <1>1 DEF TickRemoves, TickType, Held
<1>3. TypeOK'
  BY <1>2 DEF TickRemoves, VanishInv, TypeOK, TickType, consumer, loop, history
<1>4. \A v \in Workers : HandsOrderly(v)'
  BY <1>2, TickStaysOrderly DEF TickRemoves, consumer
<1>5. NothingVanishes'
  <2>1. (m \in InHands(w))'
    BY <1>2, HandsWillBe, NoMessageAssumption
  <2>2. \A x : InRedis(x) => InRedis(x)' \/ x = m
    BY DEF TickRemoves, InRedis
  <2>3. \A x : x \notin InTick(w)
    BY <1>1 DEF InTick
  <2>4. NothingVanishes /\ UNCHANGED <<loop, published, heard, lost>>
    BY DEF TickRemoves, VanishInv, history
  <2>5. \A x : InRedis(x) => InRedis(x)' \/ (x \in InHands(w))'
    BY <2>1, <2>2
  <2> QED BY <1>2, <2>3, <2>4, <2>5, TickMoves
<1> QED BY <1>3, <1>4, <1>5 DEF VanishInv

LEMMA StepTickPopsPriority ==
  ASSUME VanishInv, NEW w \in Workers, TickPopsPriority(w)
  PROVE  VanishInv'
<1>1. /\ tick \in [Workers -> TickType] /\ tick[w] \in TickType
      /\ tick[w].phase = "delayed" /\ tick[w].moving = NoMessage /\ ~tick[w].pushed
      /\ priority \subseteq Messages
  BY DEF VanishInv, TypeOK, TickType, HandsOrderly, TickPopsPriority
<1>2. /\ tick' \in [Workers -> TickType]
      /\ \A v \in Workers \ {w} : tick'[v] = tick[v]
      /\ tick'[w].phase = "priority" /\ tick'[w].batch = priority
      /\ tick'[w].moving = NoMessage /\ ~tick'[w].pushed
  BY <1>1 DEF TickPopsPriority, TickType
<1>3. TypeOK'
  BY <1>2 DEF TickPopsPriority, VanishInv, TypeOK, TickType, consumer, loop, history
<1>4. \A v \in Workers : HandsOrderly(v)'
  BY <1>2, TickStaysOrderly DEF TickPopsPriority, consumer
<1>5. NothingVanishes'
  <2>1. \A x \in priority : (x \in InHands(w))'
    BY <1>2, HandsWillBe
  <2>2. \A x : InRedis(x) => InRedis(x)' \/ x \in priority
    BY DEF TickPopsPriority, InRedis
  <2>3. \A x : x \notin InTick(w)
    BY <1>1 DEF InTick
  <2>4. NothingVanishes /\ UNCHANGED <<loop, published, heard, lost>>
    BY DEF TickPopsPriority, VanishInv, history
  <2>5. \A x : InRedis(x) => InRedis(x)' \/ (x \in InHands(w))'
    BY <2>1, <2>2
  <2> QED BY <1>2, <2>3, <2>4, <2>5, TickMoves
<1> QED BY <1>3, <1>4, <1>5 DEF VanishInv

LEMMA StepTickPushes ==
  ASSUME VanishInv, NEW w \in Workers, NEW m \in Messages, TickPushes(w, m)
  PROVE  VanishInv'
<1>1. /\ tick \in [Workers -> TickType] /\ tick[w] \in TickType
      /\ list \in Seq(Messages) /\ tick[w].moving \in {m, NoMessage}
      /\ tick[w].phase # "idle"
  BY NoMessageAssumption
     DEF VanishInv, TypeOK, TickType, HandsOrderly, TickPushes, IdleTick
<1>2. /\ tick' \in [Workers -> TickType]
      /\ \A v \in Workers \ {w} : tick'[v] = tick[v]
      /\ tick'[w].phase = tick[w].phase /\ tick'[w].batch = tick[w].batch \ {m}
      /\ tick'[w].moving = m /\ tick'[w].pushed
  BY <1>1 DEF TickPushes, TickType, Held
<1>3. list' \in Seq(Messages) /\ InList(m)' /\ \A x : InList(x) => InList(x)'
  BY <1>1, PushAdds DEF TickPushes, InList
<1>4. TypeOK'
  BY <1>2, <1>3 DEF TickPushes, VanishInv, TypeOK, TickType, consumer, loop, history
<1>5. \A v \in Workers : HandsOrderly(v)'
  BY <1>1, <1>2, NoMessageAssumption, TickStaysOrderly DEF TickPushes, consumer
<1>6. NothingVanishes'
  <2>1. InRedis(m)' /\ \A x : InRedis(x) => InRedis(x)'
    BY <1>3 DEF TickPushes, InRedis, InList
  <2>2. \A x : x \in InTick(w) => x = m \/ (x \in InHands(w))'
    BY <1>1, <1>2, HandsWillBe DEF InTick
  <2>3. NothingVanishes /\ UNCHANGED <<loop, published, heard, lost>>
    BY DEF TickPushes, VanishInv, history
  <2>4. \A x : x \in InTick(w) => InRedis(x)' \/ (x \in InHands(w))'
    BY <2>1, <2>2
  <2> QED BY <1>2, <2>1, <2>3, <2>4, TickMoves
<1> QED BY <1>4, <1>5, <1>6 DEF VanishInv

LEMMA StepTickAnnounces ==
  ASSUME VanishInv, NEW w \in Workers, TickAnnounces(w)
  PROVE  VanishInv'
<1>1. /\ tick \in [Workers -> TickType] /\ tick[w] \in TickType
      /\ tick[w].moving \in Messages /\ tick[w].phase # "idle" /\ tick[w].pushed
  BY DEF VanishInv, TypeOK, TickType, HandsOrderly, TickAnnounces, IdleTick, Held
<1>2. /\ tick' \in [Workers -> TickType]
      /\ \A v \in Workers \ {w} : tick'[v] = tick[v]
      /\ tick'[w].phase = tick[w].phase /\ tick'[w].batch = tick[w].batch
      /\ tick'[w].moving = NoMessage /\ ~tick'[w].pushed
  BY <1>1 DEF TickAnnounces, TickType, Held
<1>3. channel' \in [Workers -> [Messages -> Nat]]
  BY <1>1, BroadcastType DEF TickAnnounces, VanishInv, TypeOK
<1>4. TypeOK'
  BY <1>2, <1>3
     DEF TickAnnounces, VanishInv, TypeOK, TickType, consumer, loop, history
<1>5. \A v \in Workers : HandsOrderly(v)'
  BY <1>1, <1>2, TickStaysOrderly DEF TickAnnounces, consumer
<1>6. NothingVanishes'
  <2>1. \A x : InRedis(x) => InRedis(x)'
    BY DEF TickAnnounces, InRedis
  <2>2. \A x : x \in InTick(w) => (x \in InHands(w))'
    BY <1>1, <1>2, HandsWillBe DEF InTick
  <2>3. NothingVanishes /\ UNCHANGED <<loop, published, heard, lost>>
    BY DEF TickAnnounces, VanishInv, history
  <2> QED BY <1>2, <2>1, <2>2, <2>3, TickMoves
<1> QED BY <1>4, <1>5, <1>6 DEF VanishInv

\* A tick that rests: after its last message, or because its process failed.
LEMMA StepTickRests ==
  ASSUME VanishInv, NEW w \in Workers, TickEnds(w) \/ TickFails(w) \/ Disconnect(w)
  PROVE  VanishInv'
<1>1. tick \in [Workers -> TickType] /\ tick[w] \in TickType /\ IdleTick \in TickType
  BY DEF VanishInv, TypeOK, TickType, IdleTick, Held
<1>2. /\ tick' = [tick EXCEPT ![w] = IdleTick]
      /\ UNCHANGED <<list, delayed, priority, loop, published, heard>>
      /\ lost' = lost \cup InTick(w)
  BY DEF TickEnds, TickFails, Disconnect, InTick, redis, history
<1>3. tick' \in [Workers -> TickType] /\ tick'[w] = IdleTick
      /\ \A v \in Workers \ {w} : tick'[v] = tick[v]
  BY <1>1, <1>2
<1>4. InTick(w) \subseteq Messages
  BY <1>1 DEF InTick, TickType, Held
<1>5. TypeOK'
  <2>1. lost' \subseteq Messages
    BY <1>2, <1>4 DEF VanishInv, TypeOK
  <2>2. CASE TickEnds(w) \/ TickFails(w)
    BY <1>3, <2>1, <2>2, BoundsAssumption
       DEF TickEnds, TickFails, VanishInv, TypeOK, TickType, redis, consumer, loop, history
  <2>3. CASE Disconnect(w)
    BY <1>3, <2>1, <2>3, BoundsAssumption
       DEF Disconnect, VanishInv, TypeOK, TickType, redis, loop
  <2> QED BY <2>2, <2>3
<1>6. \A v \in Workers : HandsOrderly(v)'
  <2> SUFFICES ASSUME NEW v \in Workers PROVE HandsOrderly(v)'
    OBVIOUS
  <2>1. HandsOrderly(v) /\ sub \in [Workers -> {"none", "on", "off", "detached"}]
    BY DEF VanishInv, TypeOK
  <2>2. sub'[v] = "none" => sub[v] = "none"
    BY <2>1 DEF TickEnds, TickFails, Disconnect, consumer
  <2>3. tick'[v] = tick[v] \/ tick'[v] = IdleTick
    BY <1>3
  <2> QED BY <1>2, <2>1, <2>2, <2>3 DEF HandsOrderly, IdleTick, loop
<1>7. NothingVanishes'
  <2>1. \A x : InRedis(x) => InRedis(x)'
    BY <1>2 DEF InRedis
  <2>2. \A x : x \in InTick(w) => x \in lost'
    BY <1>2
  <2>3. NothingVanishes /\ lost \subseteq lost'
    BY <1>2 DEF VanishInv
  <2> QED BY <1>2, <1>3, <2>1, <2>2, <2>3, TickMoves
<1> QED BY <1>5, <1>6, <1>7 DEF VanishInv

LEMMA StepTick ==
  ASSUME VanishInv, NEW w \in Workers, TickStep(w)
  PROVE  VanishInv'
<1>1. CASE TickReads(w)
  BY <1>1, StepTickReads
<1>2. CASE \E m \in Messages : TickRemoves(w, m)
  BY <1>2, StepTickRemoves
<1>3. CASE TickPopsPriority(w)
  BY <1>3, StepTickPopsPriority
<1>4. CASE \E m \in Messages : TickPushes(w, m)
  BY <1>4, StepTickPushes
<1>5. CASE TickAnnounces(w)
  BY <1>5, StepTickAnnounces
<1>6. CASE TickEnds(w)
  BY <1>6, StepTickRests
<1> QED BY <1>1, <1>2, <1>3, <1>4, <1>5, <1>6 DEF TickStep

-----------------------------------------------------------------------------
(* The channel and the poll loop.                                           *)

\* Settling a message only ever adds to the list.
LEMMA SettleKeeps ==
  ASSUME TypeOK, NEW w \in Workers, NEW m \in Messages, Settle(w, m)
  PROVE  /\ list' \in Seq(Messages) /\ requeues' \in [Messages -> 0..MaxRequeues]
         /\ \A x : InList(x) => InList(x)'
<1>1. list \in Seq(Messages) /\ requeues \in [Messages -> 0..MaxRequeues]
  BY DEF TypeOK
<1>2. CASE UNCHANGED <<list, requeues>>
  BY <1>1, <1>2 DEF InList
<1>3. CASE /\ requeues[m] < MaxRequeues
           /\ requeues' = [requeues EXCEPT ![m] = @ + 1]
           /\ list' = <<m>> \o list
  <2>1. PICK front : front = <<m>> \o list
    OBVIOUS
  <2>2. /\ front \in Seq(Messages)
        /\ \A x : InList(x) => \E i \in DOMAIN front : front[i] = x
    <3>1. /\ <<m>> \o list \in Seq(Messages)
          /\ \A x : (\E i \in DOMAIN list : list[i] = x) \/ x = m
                     => \E i \in DOMAIN (<<m>> \o list) : (<<m>> \o list)[i] = x
      BY <1>1, PushAdds, Zenon
    <3> QED BY <2>1, <3>1 DEF InList
  <2>3. list' \in Seq(Messages) /\ \A x : InList(x) => InList(x)'
    BY <1>3, <2>1, <2>2 DEF InList
  <2>4. requeues' \in [Messages -> 0..MaxRequeues]
    BY <1>1, <1>3, BoundsAssumption
  <2> QED BY <2>3, <2>4
<1> QED BY <1>2, <1>3 DEF Settle

LEMMA StepPushArrives ==
  ASSUME VanishInv, NEW w \in Workers, NEW m \in Messages, PushArrives(w, m)
  PROVE  VanishInv'
<1>1. heard \subseteq heard' /\ heard' \subseteq Messages
  BY DEF PushArrives, VanishInv, TypeOK
<1>2. /\ channel' \in [Workers -> [Messages -> Nat]]
      /\ handling' \in [Workers -> [Messages -> Nat]]
  <2>1. channel \in [Workers -> [Messages -> Nat]]
        /\ handling \in [Workers -> [Messages -> Nat]]
    BY DEF VanishInv, TypeOK
  <2>2. channel[w] \in [Messages -> Nat] /\ handling[w] \in [Messages -> Nat]
    BY <2>1
  <2>3. [channel[w] EXCEPT ![m] = @ - 1] \in [Messages -> Nat]
    BY <2>2 DEF PushArrives
  <2>4. [handling[w] EXCEPT ![m] = @ + 1] \in [Messages -> Nat]
    BY <2>2
  <2>5. channel' = [channel EXCEPT ![w] = [channel[w] EXCEPT ![m] = @ - 1]]
    BY <2>1 DEF PushArrives
  <2>6. handling' \in {handling,
                       [handling EXCEPT ![w] = [handling[w] EXCEPT ![m] = @ + 1]]}
    BY <2>1 DEF PushArrives
  <2> QED BY <2>1, <2>3, <2>4, <2>5, <2>6
<1>3. TypeOK'
  BY <1>1, <1>2 DEF PushArrives, VanishInv, TypeOK, consumer, loop
<1>4. \A v \in Workers : HandsOrderly(v)'
  BY DEF PushArrives, VanishInv, HandsOrderly, consumer, loop
<1>5. NothingVanishes'
  <2>1. \A x \in published : InRedis(x) => InRedis(x)'
    BY DEF PushArrives, InRedis
  <2>2. NothingVanishes /\ UNCHANGED <<tick, loop, published, lost>>
    BY DEF PushArrives, VanishInv
  <2> QED BY <1>1, <2>1, <2>2, HandsUntouched
<1> QED BY <1>3, <1>4, <1>5 DEF VanishInv

LEMMA StepPushDone ==
  ASSUME VanishInv, NEW w \in Workers, NEW m \in Messages, PushDone(w, m)
  PROVE  VanishInv'
<1>1. /\ list' \in Seq(Messages) /\ requeues' \in [Messages -> 0..MaxRequeues]
      /\ \A x : InList(x) => InList(x)'
  BY SettleKeeps DEF PushDone, VanishInv
<1>2. handling' \in [Workers -> [Messages -> Nat]]
  <2>1. handling \in [Workers -> [Messages -> Nat]] /\ handling[w] \in [Messages -> Nat]
    BY DEF VanishInv, TypeOK
  <2>2. [handling[w] EXCEPT ![m] = @ - 1] \in [Messages -> Nat]
    BY <2>1 DEF PushDone
  <2>3. handling' = [handling EXCEPT ![w] = [handling[w] EXCEPT ![m] = @ - 1]]
    BY <2>1 DEF PushDone
  <2> QED BY <2>1, <2>2, <2>3
<1>3. TypeOK'
  BY <1>1, <1>2 DEF PushDone, VanishInv, TypeOK, consumer, loop
<1>4. \A v \in Workers : HandsOrderly(v)'
  BY DEF PushDone, VanishInv, HandsOrderly, consumer, loop
<1>5. NothingVanishes'
  <2>1. \A x \in published : InRedis(x) => InRedis(x)'
    BY <1>1 DEF PushDone, InRedis, InList
  <2>2. NothingVanishes /\ UNCHANGED <<tick, loop, published, heard, lost>>
    BY DEF PushDone, VanishInv
  <2> QED BY <2>1, <2>2, HandsUntouched
<1> QED BY <1>3, <1>4, <1>5 DEF VanishInv

\* A step of one poll loop: it is enough to follow what it has popped.
LEMMA PollMoves ==
  ASSUME VanishInv, NEW w \in Workers,
         \A v \in Workers \ {w} : poll'[v] = poll[v] /\ polled'[v] = polled[v],
         UNCHANGED <<tick, sub, published>>,
         heard \subseteq heard', lost \subseteq lost',
         \A x : InRedis(x) => InRedis(x)' \/ (x \in InHands(w))' \/ x \in lost',
         poll[w] = "popped" => polled[w] \in heard',
         sub[w] = "none" => poll'[w] = "dead",
         poll'[w] \in {"popped", "handling"} => polled'[w] \in Messages
  PROVE  NothingVanishes' /\ \A v \in Workers : HandsOrderly(v)'
<1>1. \A v \in Workers \ {w} : \A x : x \in InHands(v) => (x \in InHands(v))'
  BY HandsAre, HandsWillBe
<1>2. \A x : x \in InHands(w) => (x \in InHands(w))' \/ x \in heard'
  <2> SUFFICES ASSUME NEW x, x \in InHands(w)
               PROVE  (x \in InHands(w))' \/ x \in heard'
    OBVIOUS
  <2>1. CASE x \in InTick(w)
    BY <2>1, HandsWillBe DEF InTick
  <2>2. CASE poll[w] = "popped" /\ x = polled[w]
    BY <2>2
  <2> QED BY <2>1, <2>2 DEF InHands
<1>3. NothingVanishes
  BY DEF VanishInv
<1>4. NothingVanishes'
  BY <1>1, <1>2, <1>3 DEF NothingVanishes, Handled
<1>5. \A v \in Workers : HandsOrderly(v)'
  <2> SUFFICES ASSUME NEW v \in Workers PROVE HandsOrderly(v)'
    OBVIOUS
  <2>1. HandsOrderly(v)
    BY DEF VanishInv
  <2>2. CASE v = w
    BY <2>1, <2>2 DEF HandsOrderly
  <2>3. CASE v # w
    BY <2>1, <2>3 DEF HandsOrderly
  <2> QED BY <2>2, <2>3
<1> QED BY <1>4, <1>5

LEMMA StepPollRests ==
  ASSUME VanishInv, NEW w \in Workers, PollStops(w) \/ PollFindsNothing(w)
  PROVE  VanishInv'
<1>1. /\ poll \in [Workers -> {"dead", "idle", "popped", "handling"}]
      /\ poll' = [poll EXCEPT ![w] = "dead"] /\ poll[w] = "idle"
      /\ UNCHANGED <<redis, consumer, polled, handling, announcing, tick, history>>
  BY DEF PollStops, PollFindsNothing, VanishInv, TypeOK, history
<1>2. TypeOK'
  BY <1>1 DEF VanishInv, TypeOK, redis, consumer, history
<1>3. /\ \A x : InRedis(x) => InRedis(x)'
      /\ \A v \in Workers \ {w} : poll'[v] = poll[v] /\ polled'[v] = polled[v]
      /\ poll'[w] = "dead"
      /\ UNCHANGED <<tick, sub, published, heard, lost>>
  BY <1>1 DEF InRedis, redis, consumer, history
<1> QED BY <1>1, <1>2, <1>3, PollMoves DEF VanishInv

LEMMA StepPollPops ==
  ASSUME VanishInv, NEW w \in Workers, PollPops(w)
  PROVE  VanishInv'
<1>1. /\ list \in Seq(Messages) /\ list # <<>>
      /\ poll \in [Workers -> {"dead", "idle", "popped", "handling"}]
      /\ polled \in [Workers -> Held]
  BY DEF PollPops, VanishInv, TypeOK
<1>2. /\ Head(list) \in Messages /\ list' \in Seq(Messages)
      /\ \A x : InList(x) => x = Head(list) \/ InList(x)'
  <2>1. PICK front, rest : front = Head(list) /\ rest = Tail(list)
    OBVIOUS
  <2>2. /\ front \in Messages /\ rest \in Seq(Messages)
        /\ \A x : InList(x) => x = front \/ \E i \in DOMAIN rest : rest[i] = x
    BY <1>1, <2>1, PopTakes DEF InList
  <2> QED BY <2>1, <2>2 DEF PollPops, InList
<1>3. /\ poll' \in [Workers -> {"dead", "idle", "popped", "handling"}]
      /\ polled' \in [Workers -> Held]
      /\ poll'[w] = "popped" /\ polled'[w] = Head(list) /\ poll[w] = "idle"
      /\ \A v \in Workers \ {w} : poll'[v] = poll[v] /\ polled'[v] = polled[v]
  BY <1>1, <1>2 DEF PollPops, Held
<1>4. TypeOK'
  BY <1>2, <1>3 DEF PollPops, VanishInv, TypeOK, consumer, history
<1>5. \A x : InRedis(x) => InRedis(x)' \/ (x \in InHands(w))'
  <2>1. \A x : x = Head(list) => (x \in InHands(w))'
    BY <1>3, HandsWillBe
  <2>2. \A x : InRedis(x) => InRedis(x)' \/ x = Head(list)
    BY <1>2 DEF PollPops, InRedis, InList
  <2> QED BY <2>1, <2>2
<1>6. sub[w] # "none" /\ UNCHANGED <<tick, sub, published, heard, lost>>
  BY <1>3 DEF VanishInv, HandsOrderly, PollPops, consumer, history
<1> QED BY <1>2, <1>3, <1>4, <1>5, <1>6, PollMoves DEF VanishInv

\* LPOP rejects: what Redis has popped, if anything, is lost.
LEMMA StepPollFails ==
  ASSUME VanishInv, NEW w \in Workers, PollFails(w)
  PROVE  VanishInv'
<1>1. /\ list \in Seq(Messages) /\ lost \subseteq Messages
      /\ poll \in [Workers -> {"dead", "idle", "popped", "handling"}]
      /\ faults \in 0..MaxFaults
  BY DEF VanishInv, TypeOK
<1>2. /\ list' \in Seq(Messages) /\ lost' \subseteq Messages /\ lost \subseteq lost'
      /\ \A x : InList(x) => InList(x)' \/ x \in lost'
  <2>1. CASE UNCHANGED <<list, lost>>
    BY <1>1, <2>1 DEF InList
  <2>2. CASE list # <<>> /\ list' = Tail(list) /\ lost' = lost \cup {Head(list)}
    <3>1. PICK front, rest : front = Head(list) /\ rest = Tail(list)
      OBVIOUS
    <3>2. /\ front \in Messages /\ rest \in Seq(Messages)
          /\ \A x : InList(x) => x = front \/ \E i \in DOMAIN rest : rest[i] = x
      BY <1>1, <2>2, <3>1, PopTakes DEF InList
    <3>3. list' = rest /\ lost' = lost \cup {front}
      BY <2>2, <3>1
    <3> QED BY <1>1, <3>2, <3>3 DEF InList
  <2> QED BY <2>1, <2>2 DEF PollFails
<1>3. /\ poll' \in [Workers -> {"dead", "idle", "popped", "handling"}]
      /\ poll'[w] \in {"idle", "dead"} /\ poll[w] = "idle"
      /\ sub[w] = "none" => poll'[w] = "dead"
      /\ \A v \in Workers \ {w} : poll'[v] = poll[v] /\ polled'[v] = polled[v]
  BY <1>1 DEF PollFails
<1>4. TypeOK'
  <2>1. faults' \in 0..MaxFaults
    BY <1>1, BoundsAssumption DEF PollFails
  <2> QED BY <1>2, <1>3, <2>1 DEF PollFails, VanishInv, TypeOK, consumer
<1>5. /\ \A x : InRedis(x) => InRedis(x)' \/ x \in lost'
      /\ UNCHANGED <<tick, sub, published, heard>>
  BY <1>2 DEF PollFails, InRedis, InList, consumer
<1> QED BY <1>2, <1>3, <1>4, <1>5, PollMoves DEF VanishInv

LEMMA StepPollHandles ==
  ASSUME VanishInv, NEW w \in Workers, PollHandles(w)
  PROVE  VanishInv'
<1>1. /\ poll \in [Workers -> {"dead", "idle", "popped", "handling"}]
      /\ polled[w] \in Messages /\ heard \subseteq Messages
      /\ poll[w] = "popped" /\ sub[w] # "none"
  BY DEF PollHandles, VanishInv, TypeOK, HandsOrderly
<1>2. /\ poll' \in [Workers -> {"dead", "idle", "popped", "handling"}]
      /\ poll'[w] = "handling"
      /\ \A v \in Workers \ {w} : poll'[v] = poll[v]
  BY <1>1 DEF PollHandles
<1>3. TypeOK'
  BY <1>1, <1>2 DEF PollHandles, VanishInv, TypeOK, redis, consumer
<1>4. /\ \A x : InRedis(x) => InRedis(x)'
      /\ heard \subseteq heard' /\ polled[w] \in heard'
      /\ UNCHANGED <<polled, tick, sub, published, lost>>
  BY DEF PollHandles, InRedis, redis, consumer
<1> QED BY <1>1, <1>2, <1>3, <1>4, PollMoves DEF VanishInv

LEMMA StepPollDone ==
  ASSUME VanishInv, NEW w \in Workers, PollDone(w)
  PROVE  VanishInv'
<1>1. /\ poll \in [Workers -> {"dead", "idle", "popped", "handling"}]
      /\ polled \in [Workers -> Held] /\ polled[w] \in Messages
      /\ poll[w] = "handling" /\ sub[w] # "none"
  BY DEF PollDone, VanishInv, TypeOK, HandsOrderly
<1>2. /\ list' \in Seq(Messages) /\ requeues' \in [Messages -> 0..MaxRequeues]
      /\ \A x : InList(x) => InList(x)'
  BY <1>1, SettleKeeps DEF PollDone, VanishInv
<1>3. /\ poll' \in [Workers -> {"dead", "idle", "popped", "handling"}]
      /\ polled' \in [Workers -> Held]
      /\ poll'[w] \in {"idle", "dead"}
      /\ \A v \in Workers \ {w} : poll'[v] = poll[v] /\ polled'[v] = polled[v]
  BY <1>1 DEF PollDone, Held
<1>4. TypeOK'
  BY <1>2, <1>3 DEF PollDone, VanishInv, TypeOK, consumer
<1>5. /\ \A x : InRedis(x) => InRedis(x)'
      /\ UNCHANGED <<heard, tick, sub, published, lost>>
  BY <1>2 DEF PollDone, InRedis, InList, consumer
<1> QED BY <1>1, <1>3, <1>4, <1>5, PollMoves DEF VanishInv

-----------------------------------------------------------------------------
(* The life of a subscription and of an adapter.                            *)

LEMMA StepSubscribe ==
  ASSUME VanishInv, NEW w \in Workers, Subscribe(w)
  PROVE  VanishInv'
<1>1. /\ poll \in [Workers -> {"dead", "idle", "popped", "handling"}]
      /\ sub \in [Workers -> {"none", "on", "off", "detached"}]
      /\ poll[w] = "dead"
  BY DEF Subscribe, VanishInv, TypeOK, HandsOrderly
<1>2. TypeOK'
  BY <1>1 DEF Subscribe, VanishInv, TypeOK, redis, history
<1>3. /\ poll'[w] = "idle" /\ sub'[w] = "on"
      /\ \A v \in Workers \ {w} : poll'[v] = poll[v] /\ sub'[v] = sub[v]
  BY <1>1 DEF Subscribe
<1>4. \A v \in Workers : HandsOrderly(v)'
  <2> SUFFICES ASSUME NEW v \in Workers PROVE HandsOrderly(v)'
    OBVIOUS
  <2>1. HandsOrderly(v) /\ UNCHANGED <<tick, polled>>
    BY DEF VanishInv, Subscribe
  <2>2. CASE v = w
    BY <1>3, <2>1, <2>2 DEF HandsOrderly
  <2>3. CASE v # w
    BY <1>3, <2>1, <2>3 DEF HandsOrderly
  <2> QED BY <2>2, <2>3
<1>5. NothingVanishes'
  <2>1. \A v \in Workers : \A x : x \in InHands(v) => (x \in InHands(v))'
    BY <1>1, <1>3, HandsAre, HandsWillBe DEF Subscribe
  <2>2. NothingVanishes /\ UNCHANGED <<redis, history>>
    BY DEF VanishInv, Subscribe
  <2> QED BY <2>1, <2>2 DEF NothingVanishes, InRedis, Handled, redis, history
<1> QED BY <1>2, <1>4, <1>5 DEF VanishInv

\* Steps that change no more than whether a subscription or an adapter is on.
LEMMA StepSwitches ==
  ASSUME VanishInv, NEW w \in Workers,
         Pause(w) \/ Resume(w) \/ Unsubscribe(w) \/ Restart(w)
  PROVE  VanishInv'
<1>1. UNCHANGED <<redis, loop, handling, announcing, tick, history>>
  BY DEF Pause, Resume, Unsubscribe, Restart, history
<1>2. TypeOK'
  BY <1>1 DEF Pause, Resume, Unsubscribe, Restart, VanishInv, TypeOK, redis, loop, history
<1>3. \A v \in Workers : HandsOrderly(v)'
  <2> SUFFICES ASSUME NEW v \in Workers PROVE HandsOrderly(v)'
    OBVIOUS
  <2>1. HandsOrderly(v) /\ sub \in [Workers -> {"none", "on", "off", "detached"}]
    BY DEF VanishInv, TypeOK
  <2>2. sub'[v] = "none" => sub[v] = "none"
    BY <2>1 DEF Pause, Resume, Unsubscribe, Restart
  <2> QED BY <1>1, <2>1, <2>2 DEF HandsOrderly, loop
<1>4. NothingVanishes'
  <2>1. NothingVanishes /\ UNCHANGED <<tick, loop, published, heard, lost>>
    BY <1>1 DEF VanishInv, history
  <2>2. \A x \in published : InRedis(x) => InRedis(x)'
    BY <1>1 DEF InRedis, redis
  <2> QED BY <2>1, <2>2, HandsUntouched
<1> QED BY <1>2, <1>3, <1>4 DEF VanishInv

LEMMA StepCrash ==
  ASSUME VanishInv, NEW w \in Workers, Crash(w)
  PROVE  VanishInv'
<1>1. /\ tick \in [Workers -> TickType] /\ tick[w] \in TickType /\ IdleTick \in TickType
      /\ poll \in [Workers -> {"dead", "idle", "popped", "handling"}]
      /\ polled \in [Workers -> Held]
      /\ sub \in [Workers -> {"none", "on", "off", "detached"}]
      /\ channel \in [Workers -> [Messages -> Nat]]
      /\ handling \in [Workers -> [Messages -> Nat]]
      /\ HandsOrderly(w)
  BY DEF VanishInv, TypeOK, TickType, IdleTick, Held
<1>2. /\ tick' \in [Workers -> TickType] /\ tick'[w] = IdleTick
      /\ poll' \in [Workers -> {"dead", "idle", "popped", "handling"}]
      /\ polled' \in [Workers -> Held] /\ poll'[w] = "dead"
      /\ \A v \in Workers \ {w} : /\ tick'[v] = tick[v] /\ poll'[v] = poll[v]
                                  /\ polled'[v] = polled[v] /\ sub'[v] = sub[v]
  BY <1>1 DEF Crash, Held
<1>3. channel' \in [Workers -> [Messages -> Nat]]
      /\ handling' \in [Workers -> [Messages -> Nat]]
  <2>1. [m \in Messages |-> 0] \in [Messages -> Nat]
    OBVIOUS
  <2> QED BY <1>1, <2>1 DEF Crash
<1>4. InHands(w) \subseteq Messages
  BY <1>1 DEF InHands, InTick, TickType, Held, HandsOrderly
<1>5. TypeOK'
  <2>1. /\ running' \in [Workers -> BOOLEAN] /\ paused' \in [Workers -> BOOLEAN]
        /\ sub' \in [Workers -> {"none", "on", "off", "detached"}]
        /\ faults' \in 0..MaxFaults /\ lost' \subseteq Messages
    BY <1>1, <1>4, BoundsAssumption DEF Crash, VanishInv, TypeOK
  <2> QED BY <1>2, <1>3, <2>1 DEF Crash, VanishInv, TypeOK, TickType
<1>6. \A v \in Workers : HandsOrderly(v)'
  <2> SUFFICES ASSUME NEW v \in Workers PROVE HandsOrderly(v)'
    OBVIOUS
  <2>1. HandsOrderly(v)
    BY DEF VanishInv
  <2>2. CASE v = w
    BY <1>2, <2>2 DEF HandsOrderly, IdleTick
  <2>3. CASE v # w
    BY <1>2, <2>1, <2>3 DEF HandsOrderly
  <2> QED BY <2>2, <2>3
<1>7. NothingVanishes'
  <2>1. \A v \in Workers \ {w} : \A x : x \in InHands(v) => (x \in InHands(v))'
    BY <1>2, HandsAre, HandsWillBe
  <2>2. \A x : x \in InHands(w) => x \in lost'
    BY DEF Crash
  <2>3. NothingVanishes /\ lost \subseteq lost'
        /\ UNCHANGED <<list, delayed, priority, published, heard>>
    BY DEF VanishInv, Crash
  <2> QED BY <2>1, <2>2, <2>3 DEF NothingVanishes, InRedis, Handled
<1> QED BY <1>5, <1>6, <1>7 DEF VanishInv

-----------------------------------------------------------------------------
LEMMA StepVanishInv == VanishInv /\ [Next]_vars => VanishInv'
<1> SUFFICES ASSUME VanishInv, [Next]_vars PROVE VanishInv'
  OBVIOUS
<1>1. ASSUME NEW m \in Messages, Publish(m) PROVE VanishInv'
  BY <1>1, StepPublish
<1>2. ASSUME NEW m \in Messages, Announce(m) \/ PublisherDies(m) \/ Ripen(m)
      PROVE  VanishInv'
  BY <1>2, StepAnnounce
<1>3. ASSUME NEW w \in Workers, TickStep(w) PROVE VanishInv'
  BY <1>3, StepTick
<1>4. ASSUME NEW w \in Workers, TickFails(w) \/ Disconnect(w) PROVE VanishInv'
  BY <1>4, StepTickRests
<1>5. ASSUME NEW w \in Workers, NEW m \in Messages, PushArrives(w, m) PROVE VanishInv'
  BY <1>5, StepPushArrives
<1>6. ASSUME NEW w \in Workers, NEW m \in Messages, PushDone(w, m) PROVE VanishInv'
  BY <1>6, StepPushDone
<1>7. ASSUME NEW w \in Workers, PollStep(w) \/ PollFails(w) PROVE VanishInv'
  BY <1>7, StepPollRests, StepPollPops, StepPollFails, StepPollHandles, StepPollDone
  DEF PollStep
<1>8. ASSUME NEW w \in Workers, Subscribe(w) PROVE VanishInv'
  BY <1>8, StepSubscribe
<1>9. ASSUME NEW w \in Workers, Pause(w) \/ Resume(w) \/ Unsubscribe(w) \/ Restart(w)
      PROVE  VanishInv'
  BY <1>9, StepSwitches
<1>10. ASSUME NEW w \in Workers, Crash(w) PROVE VanishInv'
  BY <1>10, StepCrash
<1>11. CASE UNCHANGED vars
  <2>1. TypeOK' /\ \A w \in Workers : HandsOrderly(w)'
    BY <1>11 DEF VanishInv, TypeOK, HandsOrderly, vars, redis, consumer, loop, history
  <2>2. NothingVanishes'
    <3>1. NothingVanishes /\ UNCHANGED <<tick, loop, published, heard, lost>>
      BY <1>11 DEF VanishInv, vars, history
    <3>2. \A x \in published : InRedis(x) => InRedis(x)'
      BY <1>11 DEF InRedis, vars, redis
    <3> QED BY <3>1, <3>2, HandsUntouched
  <2> QED BY <2>1, <2>2 DEF VanishInv
<1> QED
  BY <1>1, <1>2, <1>3, <1>4, <1>5, <1>6, <1>7, <1>8, <1>9, <1>10, <1>11 DEF Next

\* Every variable of the topic keeps its type.
THEOREM RedisQueueTypes == Spec => []TypeOK
<1>1. VanishInv => TypeOK
  BY DEF VanishInv
<1> QED BY <1>1, InitVanishInv, StepVanishInv, PTL DEF Spec

\* However many processes read the topic, tick, pause, leave, fail and start
\* again: a published message that no handler has been called with is in Redis,
\* in the hands of a live process, or was in those of one that failed.
THEOREM NothingEverVanishes == Spec => []NothingVanishes
<1>1. VanishInv => NothingVanishes
  BY DEF VanishInv
<1> QED BY <1>1, InitVanishInv, StepVanishInv, PTL DEF Spec
=============================================================================
