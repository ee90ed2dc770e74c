------------------------------- MODULE WsServer -------------------------------
(***************************************************************************)
(* The WebSocket server of packages/core/src/websocket: WsHandler and one   *)
(* BaseWebSocketGateway per process, over InMemoryWsStorage (one process)   *)
(* or RedisWsStorage (several processes and one Redis).                     *)
(*                                                                          *)
(* Bun does not await the handlers of a socket's events, so the open, the   *)
(* requests and the close of one client run side by side.  Over Redis every *)
(* awaited command is a step, in which the other clients, and the other     *)
(* handlers of the same client, may run in any order (the one connection of *)
(* a process allows fewer); over the memory storage a join or a leave is one *)
(* step, since it only awaits promises that are already resolved.           *)
(***************************************************************************)
EXTENDS Integers, FiniteSets

CONSTANTS Clients,     \* sockets, each opened at most once
          Rooms,
          Processes,
          Messages,    \* bound: handlers of a client's messages at a time
          NoRecord,    \* the client's key does not exist
          MaxRequests, \* bound: join and leave requests, over all clients
          MaxExtras    \* bound: emissions, cleanups, and closes with a handler under way

ASSUME ClientsAssumption == IsFiniteSet(Clients)
ASSUME MessagesAssumption == {"open", "close"} \cap Messages = {}
ASSUME NoRecordAssumption ==
  NoRecord \notin Rooms /\ \A rooms \in SUBSET Rooms : rooms # NoRecord
ASSUME BoundsAssumption == MaxRequests \in Nat /\ MaxExtras \in Nat

VARIABLES
  storage,     \* "memory" or "redis" (fixed)
  home,        \* the process each client connects to (fixed): with Redis, each has one
  \* the storage
  record,      \* client.rooms of the stored client, or NoRecord
  roomKeys,    \* rooms that exist
  members,     \* the clientIds of each room
  clientRooms, \* the rooms of each client (a set of its own in Redis)
  \* the processes
  socket,      \* each socket: none, open, closed
  sockets,     \* clientSockets, all processes together
  pings,       \* pingIntervals, likewise
  joined,      \* ws.data.rooms, which the socket's subscriptions follow
  task,        \* the handlers under way, per client and slot
  stopping,    \* keys that a stopping process is still to delete
  \* emissions
  emission,    \* the emission under way
  \* history
  requests,    \* requests made
  extras,      \* emissions, cleanups, and closes with a handler under way
  cut,         \* clients whose socket closed while a handler was under way
  crossed,     \* memberships a join and a leave of the client itself ran at a time for
  evicted,     \* memberships taken away by somebody else
  wiped,       \* clients whose set of rooms a stopping process deleted
  stopped      \* processes that have run cleanup(), or do not take part

place == <<storage, home>>
stored == <<record, roomKeys, members, clientRooms>>
local == <<socket, sockets, pings, joined>>
emitted == <<emission, extras>>
serverVars == <<place, stored, local, task, stopping, emitted,
                requests, cut, crossed, evicted, wiped, stopped>>

\* A client's handlers: handleOpen, handleClose and those of its messages.
Slots == {"open", "close"} \cup Messages

NoTask == [op |-> "none", step |-> "none", room |-> NoRecord, seen |-> {}, rest |-> {}]
Idle(c) == \A s \in Slots : task[c][s] = NoTask
NoEmission == [kind |-> "none", room |-> NoRecord, inbox |-> {},
               owed |-> {}, once |-> {}, twice |-> {}]

ServerInit ==
  /\ storage \in {"memory", "redis"}
  /\ home \in [Clients -> Processes]
  /\ Cardinality({home[c] : c \in Clients}) = IF storage = "memory" THEN 1 ELSE Cardinality(Processes)
  /\ record = [c \in Clients |-> NoRecord] /\ roomKeys = {}
  /\ members = [r \in Rooms |-> {}] /\ clientRooms = [c \in Clients |-> {}]
  /\ socket = [c \in Clients |-> "none"] /\ sockets = {} /\ pings = {}
  /\ joined = [c \in Clients |-> {}]
  /\ task = [c \in Clients |-> [s \in Slots |-> NoTask]]
  /\ stopping = {} /\ emission = NoEmission
  /\ requests = 0 /\ extras = 0 /\ cut = {} /\ crossed = {} /\ evicted = {} /\ wiped = {}
  /\ stopped = IF storage = "memory" THEN Processes \ {home[c] : c \in Clients} ELSE {}

-----------------------------------------------------------------------------
\* The handler of client c in slot s goes on to `step`; `done` ends it.
Go(c, s, step) == task' = [task EXCEPT ![c][s].step = step]
Done(c, s) == task' = [task EXCEPT ![c][s] = NoTask]
At(c, s, step) == task[c][s].step = step
Redis(c, s, step) == storage = "redis" /\ At(c, s, step)
Memory(c, s, step) == storage = "memory" /\ At(c, s, step)
Extra == extras < MaxExtras /\ extras' = extras + 1
Unkept == <<requests, cut, crossed, evicted, wiped, stopped>>

\* Clients of a process that is stopping do nothing more (a bound: it is about to
\* exit); the handlers they have under way go on.
Stays(c) == socket[c] = "open" /\ home[c] \notin stopped

Upgrade(c) ==
  /\ socket[c] = "none" /\ home[c] \notin stopped
  /\ socket' = [socket EXCEPT ![c] = "open"]
  /\ task' = [task EXCEPT ![c]["open"] = [NoTask EXCEPT !.op = "open", !.step = "addClient"]]
  /\ UNCHANGED <<place, stored, sockets, pings, joined, stopping, emitted, Unkept>>

\* storage.addClient(): one command in both storages.
AddClient(c) ==
  /\ At(c, "open", "addClient")
  /\ record' = [record EXCEPT ![c] = joined[c]]
  /\ Go(c, "open", "register")
  /\ UNCHANGED <<place, roomKeys, members, clientRooms, local, stopping, emitted, Unkept>>

\* The rest of handleOpen(): the socket and its ping are registered whether or
\* not it is still open.
Registers(c) ==
  /\ At(c, "open", "register")
  /\ sockets' = sockets \cup {c} /\ pings' = pings \cup {c}
  /\ Done(c, "open")
  /\ UNCHANGED <<place, stored, socket, joined, stopping, emitted, Unkept>>

\* What the handlers of client c's messages are doing about room r.
Ops(c, r) == {task[c][m].op : m \in {x \in Messages : task[c][x].room = r}}

Asks(c) == Stays(c) /\ ~At(c, "open", "addClient") /\ requests < MaxRequests

\* A join or a leave message over Redis, whether or not those before it are handled.
\* Its commands follow the one of addClient(), which was sent before.
Request(c, m, op, r) ==
  /\ storage = "redis" /\ Asks(c) /\ task[c][m] = NoTask
  /\ task' = [task EXCEPT ![c][m] =
       [NoTask EXCEPT !.op = op, !.room = r,
                      !.step = IF op = "join" THEN "getRoom" ELSE "removeMember"]]
  /\ requests' = requests + 1
  /\ crossed' = IF Ops(c, r) = {} THEN crossed \ {<<c, r>>}
                ELSE IF Ops(c, r) = {op} THEN crossed ELSE crossed \cup {<<c, r>>}
  /\ emission' = IF op = "leave" THEN [emission EXCEPT !.owed = @ \ {c}] ELSE emission
  /\ UNCHANGED <<place, stored, local, stopping, extras, cut, evicted, wiped, stopped>>

-----------------------------------------------------------------------------
(* RedisWsStorage.addClientToRoom(), a command at a time.                   *)

GetRoom(c, s) ==
  /\ Redis(c, s, "getRoom")
  /\ Go(c, s, IF task[c][s].room \in roomKeys THEN "addMember" ELSE "setRoom")
  /\ UNCHANGED <<place, stored, local, stopping, emitted, Unkept>>

SetRoom(c, s) ==
  /\ Redis(c, s, "setRoom")
  /\ roomKeys' = roomKeys \cup {task[c][s].room}
  /\ Go(c, s, "addMember")
  /\ UNCHANGED <<place, record, members, clientRooms, local, stopping, emitted, Unkept>>

AddMember(c, s) ==
  /\ Redis(c, s, "addMember")
  /\ members' = [members EXCEPT ![task[c][s].room] = @ \cup {c}]
  /\ evicted' = evicted \ {<<c, task[c][s].room>>}
  /\ Go(c, s, "addRoom")
  /\ UNCHANGED <<place, record, roomKeys, clientRooms, local, stopping, emitted,
                 requests, cut, crossed, wiped, stopped>>

AddRoom(c, s) ==
  /\ Redis(c, s, "addRoom")
  /\ clientRooms' = [clientRooms EXCEPT ![c] = @ \cup {task[c][s].room}]
  /\ Go(c, s, "getClient")
  /\ UNCHANGED <<place, record, roomKeys, members, local, stopping, emitted, Unkept>>

\* Where a task goes when the client's record is dealt with: a join is over, a
\* removal counts the members that are left.
AfterRecord(op) == IF op = "join" THEN "finish" ELSE "count"

\* getClient(), and the new list of rooms made from what it returns.
GetClient(c, s) ==
  /\ Redis(c, s, "getClient")
  /\ LET t == task[c][s]
         rooms == IF t.op = "join" THEN record[c] \cup {t.room} ELSE record[c] \ {t.room}
     IN IF record[c] = NoRecord \/ (t.op = "join" /\ t.room \in record[c])
        THEN Go(c, s, AfterRecord(t.op))
        ELSE task' = [task EXCEPT ![c][s] = [@ EXCEPT !.step = "getAgain", !.seen = rooms]]
  /\ UNCHANGED <<place, stored, local, stopping, emitted, Unkept>>

\* updateClient() reads the record once more, only to see that it exists.
GetAgain(c, s) ==
  /\ Redis(c, s, "getAgain")
  /\ Go(c, s, IF record[c] = NoRecord THEN AfterRecord(task[c][s].op) ELSE "setClient")
  /\ UNCHANGED <<place, stored, local, stopping, emitted, Unkept>>

SetClient(c, s) ==
  /\ Redis(c, s, "setClient")
  /\ record' = [record EXCEPT ![c] = task[c][s].seen]
  /\ task' = [task EXCEPT ![c][s] = [@ EXCEPT !.step = AfterRecord(task[c][s].op), !.seen = {}]]
  /\ UNCHANGED <<place, roomKeys, members, clientRooms, local, stopping, emitted, Unkept>>

(* RedisWsStorage.removeClientFromRoom(), of a leave and of a close.        *)

RemoveMember(c, s) ==
  /\ Redis(c, s, "removeMember")
  /\ members' = [members EXCEPT ![task[c][s].room] = @ \ {c}]
  /\ Go(c, s, "removeRoom")
  /\ UNCHANGED <<place, record, roomKeys, clientRooms, local, stopping, emitted, Unkept>>

RemoveRoom(c, s) ==
  /\ Redis(c, s, "removeRoom")
  /\ clientRooms' = [clientRooms EXCEPT ![c] = @ \ {task[c][s].room}]
  /\ Go(c, s, "getClient")
  /\ UNCHANGED <<place, record, roomKeys, members, local, stopping, emitted, Unkept>>

\* Where a task goes when it is through with a room.
AfterRoom(op) == IF op = "close" THEN "nextRoom" ELSE "finish"

\* SCARD.
Count(c, s) ==
  /\ Redis(c, s, "count")
  /\ Go(c, s, IF members[task[c][s].room] = {} THEN "deleteRoom" ELSE AfterRoom(task[c][s].op))
  /\ UNCHANGED <<place, stored, local, stopping, emitted, Unkept>>

DeleteRoom(c, s) ==
  /\ Redis(c, s, "deleteRoom")
  /\ roomKeys' = roomKeys \ {task[c][s].room}
  /\ Go(c, s, "deleteMembers")
  /\ UNCHANGED <<place, record, members, clientRooms, local, stopping, emitted, Unkept>>

\* The members key is deleted, whoever has joined since it was counted.
Evict(r) ==
  /\ evicted' = evicted \cup (members[r] \X {r})
  /\ emission' = [emission EXCEPT !.owed = @ \ members[r]]
  /\ members' = [members EXCEPT ![r] = {}]

DeleteMembers(c, s) ==
  /\ Redis(c, s, "deleteMembers")
  /\ Evict(task[c][s].room)
  /\ Go(c, s, AfterRoom(task[c][s].op))
  /\ UNCHANGED <<place, record, roomKeys, clientRooms, local, stopping, extras,
                 requests, cut, crossed, wiped, stopped>>

-----------------------------------------------------------------------------
(* InMemoryWsStorage, and with it all of a join, a leave or a removal.       *)

\* Mutant: a room is deleted with the first client that leaves it.
OutWithRoom(c, rooms) ==
  /\ members' = [r \in Rooms |-> IF r \in rooms /\ c \in members[r] THEN {} ELSE members[r]]
  /\ roomKeys' = roomKeys \ {r \in rooms : c \in members[r]}

\* Taking a client out of some rooms deletes those that are empty then.
Out(c, rooms) ==
  /\ members' = [r \in Rooms |-> IF r \in rooms THEN members[r] \ {c} ELSE members[r]]
  /\ roomKeys' = roomKeys \ {r \in rooms : members[r] \subseteq {c}}

MemoryJoins(c, r) ==
  /\ storage = "memory" /\ Asks(c)
  /\ members' = [members EXCEPT ![r] = @ \cup {c}]
  /\ roomKeys' = roomKeys \cup {r}
  /\ record' = [record EXCEPT ![c] = IF @ = NoRecord THEN @ ELSE @ \cup {r}]
  /\ joined' = [joined EXCEPT ![c] = @ \cup {r}]
  /\ requests' = requests + 1
  /\ UNCHANGED <<place, clientRooms, socket, sockets, pings, task, stopping, emitted,
                 cut, crossed, evicted, wiped, stopped>>

MemoryLeaves(c, r) ==
  /\ storage = "memory" /\ Asks(c)
  /\ Out(c, {r})
  /\ record' = [record EXCEPT ![c] = IF @ = NoRecord THEN @ ELSE @ \ {r}]
  /\ joined' = [joined EXCEPT ![c] = @ \ {r}]
  /\ requests' = requests + 1
  /\ emission' = [emission EXCEPT !.owed = @ \ {c}]
  /\ UNCHANGED <<place, clientRooms, socket, sockets, pings, task, stopping, extras,
                 cut, crossed, evicted, wiped, stopped>>

MemoryRemovesClient(c) ==
  /\ Memory(c, "close", "listRooms")
  /\ Out(c, IF record[c] = NoRecord THEN {} ELSE record[c])
  /\ record' = [record EXCEPT ![c] = NoRecord]
  /\ Done(c, "close")
  /\ UNCHANGED <<place, clientRooms, local, stopping, emitted, Unkept>>

-----------------------------------------------------------------------------
\* The rest of handleRoomJoin() and handleRoomLeave(): the socket's subscription
\* and ws.data.rooms, then the gateway's handlers.
Finish(c, m) ==
  /\ At(c, m, "finish")
  /\ joined' = [joined EXCEPT ![c] =
       IF task[c][m].op = "join" THEN @ \cup {task[c][m].room} ELSE @ \ {task[c][m].room}]
  /\ Done(c, m)
  /\ UNCHANGED <<place, stored, socket, sockets, pings, stopping, emitted, Unkept>>

\* The socket closes: its ping stops, and the OnDisconnect handlers are awaited.
Close(c) ==
  /\ Stays(c) /\ ~At(c, "open", "addClient")
  /\ socket' = [socket EXCEPT ![c] = "closed"]
  /\ pings' = pings \ {c}
  /\ task' = [task EXCEPT ![c]["close"] = [NoTask EXCEPT !.op = "close", !.step = "unregister"]]
  /\ IF Idle(c) THEN UNCHANGED <<cut, extras>> ELSE cut' = cut \cup {c} /\ Extra
  /\ emission' = [emission EXCEPT !.owed = @ \ {c}]
  /\ UNCHANGED <<place, stored, sockets, joined, stopping,
                 requests, crossed, evicted, wiped, stopped>>

Unregister(c) ==
  /\ At(c, "close", "unregister")
  /\ sockets' = sockets \ {c}
  /\ Go(c, "close", "listRooms")
  /\ UNCHANGED <<place, stored, socket, pings, joined, stopping, emitted, Unkept>>

\* Mutant: only the client's own key is deleted.
ListRoomsNone(c) ==
  /\ Redis(c, "close", "listRooms")
  /\ Go(c, "close", "deleteClient")
  /\ UNCHANGED <<place, stored, local, stopping, emitted, Unkept>>

\* removeClientFromAllRooms(): SMEMBERS, then a removal from each room in turn.
ListRooms(c) ==
  /\ Redis(c, "close", "listRooms")
  /\ task' = [task EXCEPT ![c]["close"] = [@ EXCEPT !.step = "nextRoom", !.rest = clientRooms[c]]]
  /\ UNCHANGED <<place, stored, local, stopping, emitted, Unkept>>

NextRoom(c) ==
  /\ Redis(c, "close", "nextRoom")
  /\ \/ /\ task[c]["close"].rest = {}
        /\ Go(c, "close", "deleteClient")
     \/ \E r \in task[c]["close"].rest :
          task' = [task EXCEPT ![c]["close"] =
                     [@ EXCEPT !.step = "removeMember", !.room = r,
                               !.rest = task[c]["close"].rest \ {r}]]
  /\ UNCHANGED <<place, stored, local, stopping, emitted, Unkept>>

DeleteClient(c) ==
  /\ Redis(c, "close", "deleteClient")
  /\ record' = [record EXCEPT ![c] = NoRecord]
  /\ Done(c, "close")
  /\ UNCHANGED <<place, roomKeys, members, clientRooms, local, stopping, emitted, Unkept>>

-----------------------------------------------------------------------------
(* Emissions to a room or to everybody, from any process; those to a single *)
(* client are left out.                                                     *)

SettledIn(c, r) == Stays(c) /\ Idle(c) /\ r \in joined[c] /\ c \in members[r]

\* The sockets of process p that are sent a message now.
Deliver(e, to) == [e EXCEPT !.once = @ \cup to, !.twice = @ \cup (e.once \cap to)]
Here(p) == {c \in sockets : home[c] = p}

\* Mutant: a process does not ignore the events that it has published itself.
AudienceAll(p) == Processes
\* Who acts on the publication of process p: every other process.
Audience(p) == Processes \ {p}

\* The processes that an emission in p is still to get to: those of `ready`, whose
\* subscribe(), which _initialize() does not await, is done by now.  An undefined
\* message is dropped from the JSON of the publication, which is ignored without it.
Inbox(p, defined, ready) ==
  IF storage = "redis" /\ defined THEN (Audience(p) \cap ready) \ stopped ELSE {}

\* The processes whose clients are owed it.
Owing(p, defined, ready) == {p} \cup (IF defined THEN ready ELSE {})

EmitToRoom(p, r, defined, ready) ==
  /\ emission = NoEmission /\ Extra /\ p \notin stopped
  /\ emission' = [NoEmission EXCEPT !.kind = "room", !.room = r,
       !.inbox = Inbox(p, defined, ready) \cup {p},
       !.owed = {c \in Clients : SettledIn(c, r) /\ home[c] \in Owing(p, defined, ready)}]
  /\ UNCHANGED <<place, stored, local, task, stopping, Unkept>>

Broadcast(p, defined, ready) ==
  /\ emission = NoEmission /\ Extra /\ p \notin stopped
  /\ emission' = Deliver([NoEmission EXCEPT !.kind = "all", !.inbox = Inbox(p, defined, ready),
       !.owed = {c \in sockets : Stays(c) /\ home[c] \in Owing(p, defined, ready)}], Here(p))
  /\ UNCHANGED <<place, stored, local, task, stopping, Unkept>>

\* The publication of a broadcast arrives at a process.
Receive(p) ==
  /\ emission.kind = "all" /\ p \in emission.inbox
  /\ emission' = Deliver([emission EXCEPT !.inbox = @ \ {p}], Here(p))
  /\ UNCHANGED <<place, stored, local, task, stopping, extras, Unkept>>

\* _localEmitToRoom(), called or on a publication's arrival: the members are
\* read, and their sockets looked up.  A socket that closes between the two is
\* owed nothing, so that they are one step.
Reads(p) ==
  /\ emission.kind = "room" /\ p \in emission.inbox
  /\ emission' = Deliver([emission EXCEPT !.inbox = @ \ {p}],
                         Here(p) \cap members[emission.room])
  /\ UNCHANGED <<place, stored, local, task, stopping, extras, Unkept>>

Quiet == emission.inbox = {}

EmissionEnds ==
  /\ emission # NoEmission /\ Quiet
  /\ emission' = NoEmission
  /\ UNCHANGED <<place, stored, local, task, stopping, extras, Unkept>>

-----------------------------------------------------------------------------
(* cleanup() of a process that stops, whose sockets may be open and its     *)
(* handlers under way: clear() lists the keys of every process and deletes  *)
(* them one by one.                                                         *)

Keys ==
  {<<"client", c>> : c \in {x \in Clients : record[x] # NoRecord}}
    \cup {<<"room", r>> : r \in roomKeys}
    \cup {<<"members", r>> : r \in {x \in Rooms : members[x] # {}}}
    \cup {<<"rooms", c>> : c \in {x \in Clients : clientRooms[x] # {}}}

Cleanup(p) ==
  /\ p \notin stopped /\ stopping = {} /\ Extra
  /\ stopped' = stopped \cup {p}
  /\ pings' = {c \in pings : home[c] # p}
  /\ stopping' = Keys
  /\ emission' = [emission EXCEPT !.inbox = @ \ {p}, !.owed = @ \ {c \in Clients : home[c] = p}]
  /\ UNCHANGED <<place, stored, socket, sockets, joined, task,
                 requests, cut, crossed, evicted, wiped>>

\* In the order of the four KEYS commands.
Rank(key) ==
  CASE key[1] = "client" -> 1 [] key[1] = "room" -> 2 [] key[1] = "members" -> 3 [] OTHER -> 4

Clear(key) ==
  /\ key \in stopping /\ \A k \in stopping : Rank(key) <= Rank(k)
  /\ stopping' = stopping \ {key}
  /\ record' = IF key[1] = "client" THEN [record EXCEPT ![key[2]] = NoRecord] ELSE record
  /\ roomKeys' = IF key[1] = "room" THEN roomKeys \ {key[2]} ELSE roomKeys
  /\ clientRooms' = IF key[1] = "rooms" THEN [clientRooms EXCEPT ![key[2]] = {}] ELSE clientRooms
  /\ wiped' = IF key[1] = "rooms" THEN wiped \cup {key[2]} ELSE wiped
  /\ IF key[1] = "members" THEN Evict(key[2]) ELSE UNCHANGED <<members, evicted, emission>>
  /\ UNCHANGED <<place, local, task, extras, requests, cut, crossed, stopped>>

-----------------------------------------------------------------------------
Opening == \E c \in Clients : Upgrade(c) \/ AddClient(c) \/ Registers(c)
Requesting ==
  \E c \in Clients :
    \/ \E m \in Messages, r \in Rooms, op \in {"join", "leave"} : Request(c, m, op, r)
    \/ \E m \in Messages : Finish(c, m)
    \/ \E r \in Rooms : MemoryJoins(c, r) \/ MemoryLeaves(c, r)
Commands ==
  \E c \in Clients, s \in Slots :
    \/ GetRoom(c, s) \/ SetRoom(c, s) \/ AddMember(c, s) \/ AddRoom(c, s)
    \/ GetClient(c, s) \/ GetAgain(c, s) \/ SetClient(c, s)
    \/ RemoveMember(c, s) \/ RemoveRoom(c, s)
    \/ Count(c, s) \/ DeleteRoom(c, s) \/ DeleteMembers(c, s)
Closing ==
  \E c \in Clients :
    \/ Close(c) \/ Unregister(c) \/ MemoryRemovesClient(c)
    \/ ListRooms(c) \/ NextRoom(c) \/ DeleteClient(c)
Emitting ==
  \/ \E p \in Processes :
       \/ Receive(p) \/ Reads(p)
       \/ \E defined \in BOOLEAN, ready \in SUBSET Processes :
            \/ Broadcast(p, defined, ready)
            \/ \E r \in Rooms : EmitToRoom(p, r, defined, ready)
  \/ EmissionEnds
Stopping == (\E p \in Processes : Cleanup(p)) \/ (\E key \in stopping : Clear(key))

ServerNext == Opening \/ Requesting \/ Commands \/ Closing \/ Emitting \/ Stopping

ServerSpec == ServerInit /\ [][ServerNext]_serverVars

-----------------------------------------------------------------------------
Tasks ==
  [op : {"none", "open", "join", "leave", "close"},
   step : {"none", "addClient", "register", "getRoom", "setRoom", "addMember", "addRoom",
           "getClient", "getAgain", "setClient", "finish", "removeMember", "removeRoom",
           "count", "deleteRoom", "deleteMembers", "nextRoom", "unregister", "listRooms",
           "deleteClient"},
   room : Rooms \cup {NoRecord}, seen : SUBSET Rooms, rest : SUBSET Rooms]

ServerTypeOK ==
  /\ storage \in {"memory", "redis"} /\ home \in [Clients -> Processes]
  /\ record \in [Clients -> {NoRecord} \cup SUBSET Rooms] /\ roomKeys \subseteq Rooms
  /\ members \in [Rooms -> SUBSET Clients] /\ clientRooms \in [Clients -> SUBSET Rooms]
  /\ socket \in [Clients -> {"none", "open", "closed"}]
  /\ sockets \subseteq Clients /\ pings \subseteq Clients
  /\ joined \in [Clients -> SUBSET Rooms]
  /\ task \in [Clients -> [Slots -> Tasks]]
  /\ stopping \subseteq ({"client", "rooms"} \X Clients) \cup ({"room", "members"} \X Rooms)
  /\ emission \in [kind : {"none", "room", "all"}, room : Rooms \cup {NoRecord},
                   inbox : SUBSET Processes, owed : SUBSET Clients,
                   once : SUBSET Clients, twice : SUBSET Clients]
  /\ requests \in 0..MaxRequests /\ extras \in 0..MaxExtras
  /\ cut \subseteq Clients /\ evicted \subseteq Clients \X Rooms /\ wiped \subseteq Clients
  /\ crossed \subseteq Clients \X Rooms
  /\ stopped \subseteq Processes

\* What a client has been told about its rooms is what the storage says, for a
\* client with no handler under way in a process that goes on: a membership can
\* only be missing when somebody else took it away, deleting the members of a
\* room that it had counted as empty or clearing the storage as its process
\* stopped; and the two can only disagree otherwise when a join and a leave of the
\* client itself were handled at a time.  In memory neither can.
JoinedIsMember ==
  \A c \in Clients, r \in Rooms :
    socket[c] = "open" /\ Idle(c) /\ home[c] \notin stopped =>
      \/ r \in joined[c] <=> c \in members[r]
      \/ <<c, r>> \in evicted \cup crossed /\ storage = "redis"

\* A client that is gone has left nothing behind, neither in the storage nor in
\* its process, which goes on, unless its socket closed while one of its handlers
\* was under way or, over Redis, a process that stopped had deleted the set of
\* its rooms, or a join and a leave of its own for the room had crossed.
CloseLeavesNothing ==
  \A c \in Clients :
    socket[c] = "closed" /\ Idle(c) /\ c \notin cut /\ home[c] \notin stopped =>
      /\ c \notin sockets \cup pings
      /\ record[c] = NoRecord
      /\ c \notin wiped => \A r \in Rooms : c \notin members[r] \/ <<c, r>> \in crossed

\* A message emitted once reaches every client of its process and, if it is not
\* undefined, of the processes whose subscription stands, exactly once: every one
\* that was and stayed connected, or a settled member of the room, whichever
\* process it is connected to; nobody gets it twice.
EmittedOnce ==
  /\ emission.twice = {}
  /\ Quiet => emission.owed \subseteq emission.once
=============================================================================
