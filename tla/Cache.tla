-------------------------------- MODULE Cache --------------------------------
(***************************************************************************)
(* The cache (packages/cache/src): InMemoryCache, and RedisCache with a     *)
(* client of its own or the shared one; CacheService, which chooses one of  *)
(* them and makes its callers wait until it has; and those who read through *)
(* it (CacheInterceptor), preload it (mset) and invalidate it (delete and   *)
(* clear after a change of the data).  Every awaited Redis command, and the *)
(* handler, is a step of its own; over the memory a call is one step.       *)
(*                                                                          *)
(* A response is the version of the data it was made from.                  *)
(***************************************************************************)
EXTENDS SharedRedis, Functions, FiniteSetsExt

CONSTANTS Keys, Requests,
          CacheUser,  \* the user of the shared connection that is this cache
          MaxSize,    \* maxSize of the memory cache
          MaxChanges  \* bound: changes of the data

ASSUME CacheUserAssumption == CacheUser \in Users
ASSUME CacheBounds == MaxSize \in Nat \ {0} /\ MaxChanges \in Nat

VARIABLES
  backend,  \* "memory", "own", "shared", or "fallback": memory after a failed start
  ttl,      \* defaultTtl: 0 is for ever
  ready,    \* initPromise has settled
  closed,   \* close() has been called
  outage,   \* of Redis: none, now, over (commands reject meanwhile)
  entries,  \* what is stored under each key
  older,    \* which key of the memory was inserted before which
  request,  \* the readers, one request after the other until one fails
  preload,  \* the call of mset() under way
  change,   \* the invalidation under way
  \* the world and history
  data,     \* the current version of each datum
  fresh     \* its version when an invalidation of it was last completed

settings == <<backend, ttl, ready>>
calls == <<request, preload, change>>
world == <<data, fresh>>
store == <<entries, older>>
vars == <<settings, closed, outage, store, calls, world, shared>>

NoRequest == [step |-> "lookup", key |-> "none", version |-> 0, late |-> FALSE]
NoPreload == [step |-> "none", rest |-> {}, read |-> [k \in Keys |-> 0], late |-> FALSE]
NoChange == [step |-> "none", rest |-> {}, at |-> [k \in Keys |-> 0], keys |-> {}]

Init ==
  /\ SharedInit
  /\ backend \in {"memory", "own", "shared"} /\ ttl \in {0, 1}
  /\ ready = (backend = "shared") /\ closed = FALSE /\ outage = "none"
  /\ entries = [k \in {} |-> 0] /\ older = {}
  /\ request = [r \in Requests |-> NoRequest]
  /\ preload = NoPreload /\ change = NoChange
  /\ data = [k \in Keys |-> 0] /\ fresh = [k \in Keys |-> 0]

-----------------------------------------------------------------------------
(* The store.                                                               *)

InMemory == backend \in {"memory", "fallback"}

\* What a command meets: a client that answers, one that rejects, or none.
Reach ==
  CASE InMemory -> "up"
    [] backend = "own" -> IF closed THEN "none" ELSE IF outage = "now" THEN "dead" ELSE "up"
    [] OTHER -> IF holds[CacheUser] = NoClient THEN "none"
                ELSE IF Works(holds[CacheUser]) THEN "up" ELSE "dead"

Stored == DOMAIN entries
Keeps(keys) == entries' = Restrict(entries, keys) /\ older' = older \cap (keys \X keys)

\* What is left of an entry's time.  Redis drops a key when there is none; in
\* memory an entry is expired when its time is past, and is there until it is
\* looked up or cleaned up.
Forever == 2
DefaultTtl == IF ttl = 0 \/ backend = "fallback" THEN Forever ELSE ttl
Expired(e) == e.left < 0
Present(k) == k \in Stored /\ ~Expired(entries[k])
Made(v, late) == [version |-> v, left |-> DefaultTtl, late |-> late]

\* evictOldest(): a tenth of the entries, and at least one.
Evicted(n) == IF n \div 10 > 1 THEN n \div 10 ELSE 1
Oldest(n) == {k \in Stored : Cardinality({j \in Stored : <<j, k>> \in older}) < n}

\* set() in memory makes room first, even for a key that is there already.
Kept ==
  IF backend = "memory" /\ Cardinality(Stored) >= MaxSize
  THEN Stored \ Oldest(Evicted(Cardinality(Stored))) ELSE Stored

\* Map.set(): an existing key keeps its place.
Set(k, e) ==
  /\ entries' = [x \in Kept \cup {k} |-> IF x = k THEN e ELSE entries[x]]
  /\ older' = (older \cap (Kept \X Kept)) \cup (IF InMemory /\ k \notin Kept THEN Kept \X {k} ELSE {})

-----------------------------------------------------------------------------
(* CacheService.autoInitialize(), and RedisCache.connect() of a shared one. *)

Initialize ==
  /\ ~ready /\ ready' = TRUE
  /\ backend' \in IF backend = "own" THEN {"own", "fallback"} ELSE {backend}
  /\ UNCHANGED <<ttl, closed, outage, store, calls, world, shared>>

\* connect() keeps a client that is connected.
Joins ==
  /\ backend = "shared" /\ ~closed /\ ~Connected(holds[CacheUser]) /\ GetClient(CacheUser)
  /\ UNCHANGED <<settings, closed, outage, store, calls, world>>

Sharing ==
  /\ backend = "shared"
  /\ \/ \E u \in Users \ {CacheUser} : GetClient(u)
     \/ \E i \in Ids : Opens(i) \/ FailsToOpen(i) \/ Disconnected(i)
     \/ Disconnect
  /\ UNCHANGED <<settings, closed, outage, store, calls, world>>

\* Commands reject, until Redis is back with what it had stored.  (For the shared
\* client the provider's disconnect() stands for it.)
Outage ==
  /\ backend = "own" /\ ready
  /\ \/ outage = "none" /\ outage' = "now"
     \/ outage = "now" /\ outage' = "over"
  /\ UNCHANGED <<settings, closed, store, calls, world, shared>>

\* close(): the memory is emptied; a client of its own is disconnected, a shared
\* one only let go (a bound: not while connect() waits for it).
Close ==
  /\ ready /\ ~closed /\ closed' = TRUE
  /\ IF InMemory THEN Keeps({}) ELSE UNCHANGED store
  /\ holds' = IF backend = "shared" THEN [holds EXCEPT ![CacheUser] = NoClient] ELSE holds
  /\ waiting[CacheUser] = NoClient
  /\ UNCHANGED <<settings, outage, calls, world,
                 instance, connecting, client, waiting, quitting, quits, overlapped>>

Aged(e) == [e EXCEPT !.left = IF @ = Forever \/ @ < 0 THEN @ ELSE @ - 1]
Tick ==
  /\ \E k \in Stored : Aged(entries[k]) # entries[k]
  /\ LET aged == [k \in Stored |-> Aged(entries[k])]
     IN entries' = Restrict(aged, {k \in Stored : InMemory \/ aged[k].left > 0})
  /\ UNCHANGED <<settings, closed, outage, older, calls, world, shared>>

\* The timer of the memory cache, until close().
Cleanup ==
  /\ ready /\ ~closed
  /\ \E k \in Stored : Expired(entries[k])
  /\ Keeps({k \in Stored : ~Expired(entries[k])})
  /\ UNCHANGED <<settings, closed, outage, calls, world, shared>>

-----------------------------------------------------------------------------
(* CacheInterceptor.intercept() of a GET.                                   *)

\* get() throws without a client, and the request fails; on a client that
\* rejects it is a miss.
LookupFails == Reach = "none"

Lookup(r, k) ==
  /\ ready /\ request[r].step = "lookup"
  /\ LET hit == Reach = "up" /\ Present(k)
     IN request' = [request EXCEPT ![r] =
          IF LookupFails THEN [NoRequest EXCEPT !.step = "failed"]
          ELSE IF hit THEN NoRequest
          ELSE [NoRequest EXCEPT !.step = "handler", !.key = k]]
  /\ IF InMemory /\ ~Present(k) THEN Keeps(Stored \ {k}) ELSE UNCHANGED store
  /\ UNCHANGED <<settings, closed, outage, preload, change, world, shared>>

\* next(): a response made from the data as they are now, or none to be cached.
Handle(r, good) ==
  /\ request[r].step = "handler"
  /\ request' = [request EXCEPT ![r] =
       IF good THEN [request[r] EXCEPT !.step = "store", !.version = data[request[r].key]]
       ELSE NoRequest]
  /\ UNCHANGED <<settings, closed, outage, store, preload, change, world, shared>>

\* set(), whose failure fails the request.
Store(r) ==
  /\ request[r].step = "store"
  /\ request' = [request EXCEPT ![r] =
       IF Reach = "up" THEN NoRequest ELSE [NoRequest EXCEPT !.step = "failed"]]
  /\ IF Reach = "up" THEN Set(request[r].key, Made(request[r].version, request[r].late))
                     ELSE UNCHANGED store
  /\ UNCHANGED <<settings, closed, outage, preload, change, world, shared>>

-----------------------------------------------------------------------------
(* mset() of all keys with what the data are.                               *)

Preload ==
  /\ ready /\ preload = NoPreload
  /\ preload' = [NoPreload EXCEPT !.step = "set", !.rest = Keys, !.read = data]
  /\ UNCHANGED <<settings, closed, outage, store, request, change, world, shared>>

\* In memory, and in Redis with a time to live, one key after the other.
PreloadOne ==
  /\ preload.step = "set" /\ (InMemory \/ ttl # 0)
  /\ IF preload.rest = {} \/ Reach # "up"
     THEN preload' = NoPreload /\ UNCHANGED store
     ELSE \E k \in preload.rest :
            /\ Set(k, Made(preload.read[k], preload.late))
            /\ preload' = [preload EXCEPT !.rest = @ \ {k}]
  /\ UNCHANGED <<settings, closed, outage, request, change, world, shared>>

\* MSET.
PreloadAll ==
  /\ preload.step = "set" /\ ~InMemory /\ ttl = 0
  /\ entries' = IF Reach = "up" THEN [k \in Keys |-> Made(preload.read[k], preload.late)] ELSE entries
  /\ preload' = NoPreload
  /\ UNCHANGED <<settings, closed, outage, older, request, change, world, shared>>

-----------------------------------------------------------------------------
(* A change of the data, and then delete() of its key or clear().           *)

\* Whoever has read the data before may store what it has read after.
Overtake ==
  /\ request' = [r \in Requests |->
       [request[r] EXCEPT !.late = @ \/ request[r].step = "store"]]
  /\ preload' = [preload EXCEPT !.late = @ \/ preload.step = "set"]

SumOf(f) == FoldSet(LAMBDA k, sum : f[k] + sum, 0, Keys)

Change(k, step) ==
  /\ ready /\ change = NoChange /\ SumOf(data) < MaxChanges
  /\ data' = [data EXCEPT ![k] = @ + 1]
  /\ change' = [NoChange EXCEPT !.step = step, !.at = data',
                                !.keys = IF step = "keys" THEN Keys ELSE {k}]
  /\ Overtake
  /\ UNCHANGED <<settings, closed, outage, store, fresh, shared>>

\* The invalidation of its keys is complete.
Invalidated == fresh' = [k \in Keys |-> IF k \in change.keys THEN change.at[k] ELSE fresh[k]]

MemoryForgets ==
  /\ InMemory /\ change.step \in {"exists", "keys"}
  /\ Keeps(Stored \ change.keys)
  /\ Invalidated /\ change' = NoChange
  /\ UNCHANGED <<settings, closed, outage, request, preload, data, shared>>

\* delete() asks whether the key exists, and deletes it in any case; an error is
\* reported as a key that was not there.
DeleteAsks ==
  /\ ~InMemory /\ change.step = "exists"
  /\ change' = IF Reach = "up" THEN [change EXCEPT !.step = "del"] ELSE NoChange
  /\ UNCHANGED <<settings, closed, outage, store, request, preload, world, shared>>

Deletes ==
  /\ ~InMemory /\ change.step = "del"
  /\ IF Reach = "up" THEN Keeps(Stored \ change.keys) /\ Invalidated
                     ELSE UNCHANGED <<store, fresh>>
  /\ change' = NoChange
  /\ UNCHANGED <<settings, closed, outage, request, preload, data, shared>>

\* Mutant: the prefix of no client's keys is the one that is looked for.
ListedNever == {}
\* The keys that clear() finds under its prefix: none on a shared client, whose
\* keys do not have it.
Listed == IF backend = "shared" THEN {} ELSE Stored

ClearLists ==
  /\ ~InMemory /\ change.step = "keys"
  /\ change' = IF Reach = "up" THEN [change EXCEPT !.step = "dels", !.rest = Listed] ELSE NoChange
  /\ UNCHANGED <<settings, closed, outage, store, request, preload, world, shared>>

ClearDeletes ==
  /\ ~InMemory /\ change.step = "dels"
  /\ IF change.rest = {} THEN
       /\ change' = NoChange /\ UNCHANGED store
       /\ IF backend = "shared" THEN UNCHANGED fresh ELSE Invalidated
     ELSE IF Reach # "up" THEN change' = NoChange /\ UNCHANGED <<store, fresh>>
     ELSE \E k \in change.rest :
       /\ Keeps(Stored \ {k}) /\ UNCHANGED fresh
       /\ change' = [change EXCEPT !.rest = @ \ {k}]
  /\ UNCHANGED <<settings, closed, outage, request, preload, data, shared>>

-----------------------------------------------------------------------------
Reading ==
  \E r \in Requests :
    \/ \E k \in Keys : Lookup(r, k)
    \/ \E good \in BOOLEAN : Handle(r, good)
    \/ Store(r)
Preloading == Preload \/ PreloadOne \/ PreloadAll
Invalidating ==
  \/ \E k \in Keys, step \in {"exists", "keys"} : Change(k, step)
  \/ MemoryForgets \/ DeleteAsks \/ Deletes \/ ClearLists \/ ClearDeletes
Passing == Tick \/ Cleanup \/ Outage
Living == Initialize \/ Joins \/ Sharing \/ Close

Next == Reading \/ Preloading \/ Invalidating \/ Passing \/ Living

Spec == Init /\ [][Next]_vars

-----------------------------------------------------------------------------
Versions == 0..MaxChanges
TypeOK ==
  /\ SharedTypeOK
  /\ backend \in {"memory", "own", "shared", "fallback"} /\ ttl \in {0, 1}
  /\ ready \in BOOLEAN /\ closed \in BOOLEAN /\ outage \in {"none", "now", "over"}
  /\ Stored \subseteq Keys /\ older \subseteq Stored \X Stored
  /\ entries \in [Stored -> [version : Versions, left : -1..Forever, late : BOOLEAN]]
  /\ request \in [Requests -> [step : {"lookup", "handler", "store", "failed"},
                              key : Keys \cup {"none"}, version : Versions, late : BOOLEAN]]
  /\ preload \in [step : {"none", "set"}, rest : SUBSET Keys,
                  read : [Keys -> Versions], late : BOOLEAN]
  /\ change \in [step : {"none", "exists", "del", "keys", "dels"}, rest : SUBSET Keys,
                 at : [Keys -> Versions], keys : SUBSET Keys]
  /\ data \in [Keys -> Versions] /\ fresh \in [Keys -> Versions]

\* What is stored is at least as new as the last invalidation that was carried
\* out, and so is what a hit has served when it was looked up: only a response
\* (or an mset()) that was computed before an invalidation and stored after it
\* can bring older data back.  Such an entry is not caught by anything but its
\* time to live.
FreshUnlessRaced ==
  \A k \in Stored : entries[k].late \/ entries[k].version >= fresh[k]
=============================================================================
