----------------------------- MODULE SharedRedis -----------------------------
(***************************************************************************)
(* SharedRedisProvider (packages/core/src/redis/shared-redis.ts): the one   *)
(* Redis connection that a cache, a WebSocket storage and others share, and *)
(* the RedisClient objects it makes.  The server's answers to a connection  *)
(* and to QUIT come at any later time.                                      *)
(***************************************************************************)
EXTENDS Integers

CONSTANTS Users,      \* those who call getClient()
          MaxClients, \* bound: RedisClient objects made
          MaxQuits    \* bound: calls of disconnect()

ASSUME SharedBounds == MaxClients \in Nat /\ MaxQuits \in Nat

VARIABLES
  instance,   \* SharedRedisProvider.instance, or NoClient
  connecting, \* SharedRedisProvider.connecting, likewise
  client,     \* each RedisClient object
  waiting,    \* the connection that each user's getClient() awaits
  holds,      \* the client that each user was last given
  quitting,   \* per client, the calls of disconnect() awaiting QUIT
  quits,      \* history: calls of disconnect()
  overlapped  \* history: two of them have overlapped

shared == <<instance, connecting, client, waiting, holds, quitting, quits, overlapped>>

Ids == 1..MaxClients
NoClient == 0

SharedInit ==
  /\ instance = NoClient /\ connecting = NoClient
  /\ client = [i \in Ids |-> "unmade"]
  /\ waiting = [u \in Users |-> NoClient] /\ holds = [u \in Users |-> NoClient]
  /\ quitting = [i \in Ids |-> 0] /\ quits = 0 /\ overlapped = FALSE

\* isConnected(): until QUIT is answered.
Connected(i) == i # NoClient /\ client[i] \in {"open", "quitting"}
Works(i) == i # NoClient /\ client[i] = "open"

\* Mutant: a caller does not look for an attempt under way.
PendingUnseen == NoClient
\* The attempt that a caller may wait for.
Pending == connecting

GetClient(u) ==
  /\ waiting[u] = NoClient
  /\ \/ /\ Connected(instance)
        /\ holds' = [holds EXCEPT ![u] = instance]
        /\ UNCHANGED <<connecting, client, waiting>>
     \/ /\ ~Connected(instance) /\ Pending # NoClient
        /\ waiting' = [waiting EXCEPT ![u] = Pending]
        /\ UNCHANGED <<connecting, client, holds>>
     \/ /\ ~Connected(instance) /\ Pending = NoClient
        /\ \E i \in Ids :
             /\ client[i] = "unmade" /\ \A j \in 1..(i - 1) : client[j] # "unmade"
             /\ client' = [client EXCEPT ![i] = "connecting"]
             /\ connecting' = i
             /\ waiting' = [waiting EXCEPT ![u] = i]
             /\ UNCHANGED holds
  /\ UNCHANGED <<instance, quitting, quits, overlapped>>

\* The connection is there: it becomes the instance, whatever has happened since.
Opens(i) ==
  /\ client[i] = "connecting"
  /\ client' = [client EXCEPT ![i] = "open"]
  /\ instance' = i /\ connecting' = NoClient
  /\ holds' = [u \in Users |-> IF waiting[u] = i THEN i ELSE holds[u]]
  /\ waiting' = [u \in Users |-> IF waiting[u] = i THEN NoClient ELSE waiting[u]]
  /\ UNCHANGED <<quitting, quits, overlapped>>

\* It fails, and so does getClient() of everybody who waits.
FailsToOpen(i) ==
  /\ client[i] = "connecting"
  /\ client' = [client EXCEPT ![i] = "closed"]
  /\ connecting' = NoClient
  /\ waiting' = [u \in Users |-> IF waiting[u] = i THEN NoClient ELSE waiting[u]]
  /\ UNCHANGED <<instance, holds, quitting, quits, overlapped>>

\* disconnect() up to its await; without an instance it does nothing, even while
\* one is on its way.
Disconnect ==
  /\ instance # NoClient /\ quits < MaxQuits
  /\ quits' = quits + 1
  /\ quitting' = [quitting EXCEPT ![instance] = @ + 1]
  /\ client' = [client EXCEPT ![instance] = "quitting"]
  /\ overlapped' = (overlapped \/ \E i \in Ids : quitting[i] > 0)
  /\ UNCHANGED <<instance, connecting, waiting, holds>>

\* After the await, instance is cleared without a look at what it is by then.
Disconnected(i) ==
  /\ quitting[i] > 0
  /\ quitting' = [quitting EXCEPT ![i] = @ - 1]
  /\ client' = [client EXCEPT ![i] = "closed"]
  /\ instance' = NoClient
  /\ UNCHANGED <<connecting, waiting, holds, quits, overlapped>>

SharedTypeOK ==
  /\ instance \in Ids \cup {NoClient} /\ connecting \in Ids \cup {NoClient}
  /\ client \in [Ids -> {"unmade", "connecting", "open", "quitting", "closed"}]
  /\ waiting \in [Users -> Ids \cup {NoClient}] /\ holds \in [Users -> Ids \cup {NoClient}]
  /\ quitting \in [Ids -> 0..MaxQuits] /\ quits \in 0..MaxQuits /\ overlapped \in BOOLEAN

\* The connection is shared: however the calls of getClient() interleave with
\* each other, with failures and with a disconnect(), no connection that the
\* provider has made is open or being opened without it knowing, and nobody
\* holds a working one that the others would not be given.  Only calls of
\* disconnect() that overlap can leave one behind.
OneSharedConnection ==
  \A i \in Ids : client[i] \in {"connecting", "open"} =>
    overlapped \/ i = (IF client[i] = "open" THEN instance ELSE connecting)
=============================================================================
