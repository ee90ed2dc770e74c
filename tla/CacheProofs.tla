----------------------------- MODULE CacheProofs -----------------------------
(***************************************************************************)
(* Proofs about the shared Redis connection and about the cache.            *)
(***************************************************************************)
EXTENDS Cache, TLAPS

-----------------------------------------------------------------------------
(* The shared connection.  Unless two calls of disconnect() have overlapped, *)
(* an open client is the instance, nothing is being opened while there is an *)
(* instance, and only the instance is being closed.                         *)

SharedTyped ==
  /\ instance \in Ids \cup {NoClient} /\ connecting \in Ids \cup {NoClient}
  /\ client \in [Ids -> {"unmade", "connecting", "open", "quitting", "closed"}]
  /\ quitting \in [Ids -> Nat] /\ overlapped \in BOOLEAN

SharedInv ==
  /\ SharedTyped
  /\ \A i \in Ids : client[i] = "connecting" <=> connecting = i
  /\ instance # NoClient => client[instance] \in {"open", "quitting", "closed"}
  /\ \A i \in Ids : quitting[i] > 0 => client[i] \in {"quitting", "closed"}
  /\ ~overlapped =>
       /\ \A i \in Ids : client[i] = "open" => instance = i
       /\ instance # NoClient => client[instance] \in {"open", "quitting"}
       /\ \A i \in Ids : quitting[i] > 0 => instance = i /\ quitting[i] = 1
       /\ connecting # NoClient => instance = NoClient

LEMMA InitSharedInv == SharedInit => SharedInv
<1> SUFFICES ASSUME SharedInit PROVE SharedInv
  OBVIOUS
<1>1. NoClient \notin Ids
  BY SharedBounds DEF Ids, NoClient
<1>2. SharedTyped
  BY DEF SharedInit, SharedTyped
<1>3. \A i \in Ids : client[i] = "unmade" /\ quitting[i] = 0
  BY DEF SharedInit
<1> QED BY <1>1, <1>2, <1>3 DEF SharedInit, SharedInv

\* What the steps do to the connection.
SharedStep ==
  \/ \E u \in Users : GetClient(u)
  \/ \E i \in Ids : Opens(i) \/ FailsToOpen(i) \/ Disconnected(i)
  \/ Disconnect
  \/ UNCHANGED <<instance, connecting, client, quitting, overlapped>>

LEMMA StepSharedInv == SharedInv /\ SharedStep => SharedInv'
<1> SUFFICES ASSUME SharedInv, SharedStep PROVE SharedInv'
  OBVIOUS
<1>0. /\ SharedTyped /\ NoClient \notin Ids /\ \A i \in Ids : i \in Nat
  BY SharedBounds DEF SharedInv, Ids, NoClient
<1>1. ASSUME NEW u \in Users, GetClient(u) PROVE SharedInv'
  <2>1. CASE UNCHANGED <<connecting, client>>
    BY <1>1, <2>1 DEF GetClient, SharedInv, SharedTyped
  <2>2. ASSUME NEW i \in Ids, ~Connected(instance), connecting = NoClient,
               client[i] = "unmade", client' = [client EXCEPT ![i] = "connecting"],
               connecting' = i
        PROVE  SharedInv'
    <3>1. UNCHANGED <<instance, quitting, overlapped>>
      BY <1>1 DEF GetClient
    <3>2. ~overlapped => instance = NoClient
      BY <2>2 DEF SharedInv, Connected
    <3> QED BY <1>0, <2>2, <3>1, <3>2 DEF SharedInv, SharedTyped
  <2> QED BY <1>1, <2>1, <2>2 DEF GetClient, Pending
<1>2. ASSUME NEW i \in Ids, Opens(i) PROVE SharedInv'
  <2>1. connecting = i /\ instance # i /\ (~overlapped => instance = NoClient)
    BY <1>0, <1>2 DEF Opens, SharedInv
  <2> QED BY <1>0, <1>2, <2>1 DEF Opens, SharedInv, SharedTyped
<1>3. ASSUME NEW i \in Ids, FailsToOpen(i) PROVE SharedInv'
  BY <1>0, <1>3 DEF FailsToOpen, SharedInv, SharedTyped
<1>4. ASSUME NEW i \in Ids, Disconnected(i) PROVE SharedInv'
  BY <1>0, <1>4 DEF Disconnected, SharedInv, SharedTyped
<1>5. CASE Disconnect
  <2>1. /\ instance \in Ids /\ UNCHANGED <<instance, connecting>>
        /\ quitting' = [quitting EXCEPT ![instance] = @ + 1]
        /\ client' = [client EXCEPT ![instance] = "quitting"]
    BY <1>0, <1>5 DEF Disconnect, SharedTyped
  <2>2. CASE overlapped \/ \E i \in Ids : quitting[i] > 0
    <3>1. overlapped' = TRUE
      BY <1>5, <2>2 DEF Disconnect
    <3> QED BY <1>0, <2>1, <3>1 DEF SharedInv, SharedTyped
  <2>3. CASE ~overlapped /\ ~\E i \in Ids : quitting[i] > 0
    <3>1. overlapped' = FALSE
      BY <1>5, <2>3 DEF Disconnect
    <3>2. \A i \in Ids : quitting[i] = 0
      BY <1>0, <2>3 DEF SharedTyped
    <3>3. /\ quitting' \in [Ids -> Nat] /\ quitting'[instance] = 1
          /\ \A i \in Ids \ {instance} : quitting'[i] = 0
      BY <1>0, <2>1, <3>2 DEF SharedTyped
    <3>4. /\ client' \in [Ids -> {"unmade", "connecting", "open", "quitting", "closed"}]
          /\ client'[instance] = "quitting"
          /\ \A i \in Ids \ {instance} : client'[i] = client[i]
      BY <1>0, <2>1 DEF SharedTyped
    <3> QED BY <1>0, <2>1, <2>3, <3>1, <3>3, <3>4 DEF SharedInv, SharedTyped
  <2> QED BY <2>2, <2>3
<1>6. CASE UNCHANGED <<instance, connecting, client, quitting, overlapped>>
  BY <1>6 DEF SharedInv, SharedTyped
<1> QED BY <1>1, <1>2, <1>3, <1>4, <1>5, <1>6 DEF SharedStep

\* Every step of the cache is one of these, or leaves the connection alone.
LEMMA StepIsShared == [Next]_vars => SharedStep
<1>1. Reading \/ Preloading \/ Invalidating => SharedStep
  BY DEF Reading, Lookup, Handle, Store, Preloading, Preload, PreloadOne, PreloadAll,
         Invalidating, Change, MemoryForgets, DeleteAsks, Deletes, ClearLists, ClearDeletes,
         shared, SharedStep
<1>2. Passing => SharedStep
  BY DEF Passing, Tick, Cleanup, Outage, shared, SharedStep
<1>3. Living => SharedStep
  BY CacheUserAssumption DEF Living, Initialize, Joins, Sharing, Close, shared, SharedStep
<1>4. UNCHANGED vars => SharedStep
  BY DEF vars, shared, SharedStep
<1> QED BY <1>1, <1>2, <1>3, <1>4 DEF Next

\* The connection is shared: unless calls of disconnect() have overlapped, no client
\* is open or being opened but the one that callers of getClient() are given.
THEOREM ConnectionIsShared == Spec => []OneSharedConnection
<1>1. Init => SharedInv
  BY InitSharedInv DEF Init
<1>2. SharedInv /\ [Next]_vars => SharedInv'
  BY StepSharedInv, StepIsShared
<1>3. SharedInv => OneSharedConnection
  BY DEF SharedInv, OneSharedConnection
<1> QED BY <1>1, <1>2, <1>3, PTL DEF Spec

-----------------------------------------------------------------------------
(* Freshness.  Whoever is about to store and has not been overtaken by a      *)
(* change holds the data as they are; a change under way has seen them as    *)
(* they are; and while clear() deletes the keys that it has listed, what it   *)
(* has not listed was stored since.                                         *)

Entry == [version : Nat, left : Int, late : BOOLEAN]
Request == [step : {"lookup", "handler", "store", "failed"}, key : Keys \cup {"none"},
            version : Nat, late : BOOLEAN]
CacheTyped ==
  /\ ttl \in {0, 1} /\ DOMAIN entries \subseteq Keys /\ \A k \in DOMAIN entries : entries[k] \in Entry
  /\ data \in [Keys -> Nat] /\ fresh \in [Keys -> Nat]
  /\ request \in [Requests -> Request]
  /\ preload \in [step : {"none", "set"}, rest : SUBSET Keys, read : [Keys -> Nat],
                  late : BOOLEAN]
  /\ change \in [step : {"none", "exists", "del", "keys", "dels"}, rest : SUBSET Keys,
                 at : [Keys -> Nat], keys : SUBSET Keys]

\* A response, or a value of mset(), that may be stored.
UpToDate(version, late, k) == late \/ version = data[k]
RequestOK(r) ==
  /\ request[r].step \in {"handler", "store"} => request[r].key \in Keys
  /\ request[r].step = "store" =>
       UpToDate(request[r].version, request[r].late, request[r].key)
PreloadOK ==
  preload.step = "set" => \A k \in Keys : UpToDate(preload.read[k], preload.late, k)
\* What is stored, as clear() sees it that has listed the keys it deletes.
Outlives(k) ==
  \/ entries[k].late \/ k \in change.rest \/ k \notin change.keys
  \/ entries[k].version >= change.at[k]

CacheInv ==
  /\ CacheTyped
  /\ \A k \in Keys : fresh[k] <= data[k]
  /\ \A r \in Requests : RequestOK(r)
  /\ PreloadOK
  /\ change.step # "none" => change.at = data
  /\ FreshUnlessRaced
  /\ change.step = "dels" /\ backend # "shared" => \A k \in Stored : Outlives(k)

LEMMA Nothings ==
  /\ NoPreload \in [step : {"none", "set"}, rest : SUBSET Keys, read : [Keys -> Nat],
                    late : BOOLEAN]
  /\ NoChange \in [step : {"none", "exists", "del", "keys", "dels"}, rest : SUBSET Keys,
                   at : [Keys -> Nat], keys : SUBSET Keys]
  /\ NoRequest \in Request
  /\ NoPreload.step = "none" /\ NoChange.step = "none"
  /\ NoRequest.step = "lookup" /\ ~NoRequest.late
BY DEF NoPreload, NoChange, NoRequest, Request

LEMMA InitCacheInv == Init => CacheInv
<1> SUFFICES ASSUME Init PROVE CacheInv
  OBVIOUS
<1>1. CacheTyped
  BY Nothings DEF Init, CacheTyped
<1>2. PreloadOK /\ \A r \in Requests : RequestOK(r)
  BY Nothings DEF Init, PreloadOK, RequestOK
<1> QED BY <1>1, <1>2, Nothings DEF Init, CacheInv, FreshUnlessRaced, Stored

\* An entry is as it was but for its age, or may be stored.
Follows(k) ==
  /\ entries'[k] \in Entry
  /\ \/ /\ k \in Stored /\ entries'[k].version = entries[k].version
        /\ entries'[k].late = entries[k].late
     \/ UpToDate(entries'[k].version, entries'[k].late, k)

\* A step that neither changes the data nor invalidates.
LEMMA EntriesKeep ==
  ASSUME CacheInv, UNCHANGED <<ttl, data, fresh, change>>,
         backend' = "shared" <=> backend = "shared",
         DOMAIN entries' \subseteq Keys, \A k \in DOMAIN entries' : Follows(k),
         request' \in [Requests -> Request], (\A r \in Requests : RequestOK(r))',
         preload' \in [step : {"none", "set"}, rest : SUBSET Keys, read : [Keys -> Nat],
                       late : BOOLEAN],
         PreloadOK'
  PROVE  CacheInv'
<1>0. /\ CacheTyped /\ \A k \in Keys : fresh[k] <= data[k] /\ data[k] \in Nat /\ fresh[k] \in Nat
      /\ change.step # "none" => change.at = data
  BY DEF CacheInv, CacheTyped
<1>1. CacheTyped'
  BY <1>0 DEF CacheTyped, Follows
<1>2. FreshUnlessRaced'
  BY <1>0 DEF CacheInv, FreshUnlessRaced, Follows, UpToDate, Stored
<1>3. change.step = "dels" /\ backend' # "shared" => (\A k \in Stored : Outlives(k))'
  BY <1>0 DEF CacheInv, Outlives, Follows, UpToDate, Stored, CacheTyped
<1> QED BY <1>0, <1>1, <1>2, <1>3 DEF CacheInv

\* What is removed, and what set() leaves.
LEMMA KeepsFollow ==
  ASSUME CacheInv, NEW keys \in SUBSET Stored, Keeps(keys)
  PROVE  DOMAIN entries' = keys /\ \A k \in keys : entries'[k] = entries[k] /\ Follows(k)
<1>1. DOMAIN entries' = keys /\ \A k \in keys : entries'[k] = entries[k]
  BY DEF Keeps, Restrict
<1> QED BY <1>1 DEF CacheInv, CacheTyped, Follows, Stored

LEMMA SetFollows ==
  ASSUME CacheInv, NEW key \in Keys, NEW version \in Nat, NEW late \in BOOLEAN,
         UpToDate(version, late, key), Set(key, Made(version, late))
  PROVE  DOMAIN entries' \subseteq Keys /\ \A k \in DOMAIN entries' : Follows(k)
<1>1. Kept \subseteq Stored /\ Stored \subseteq Keys /\ \A k \in Stored : entries[k] \in Entry
  BY DEF Kept, CacheInv, CacheTyped, Stored
<1>2. PICK e : e = Made(version, late)
  OBVIOUS
<1>3. e \in Entry /\ e.version = version /\ e.late = late
  BY <1>2 DEF Made, Entry, DefaultTtl, Forever, CacheInv, CacheTyped
<1>4. entries' = [x \in Kept \cup {key} |-> IF x = key THEN e ELSE entries[x]]
  BY <1>2 DEF Set
<1> QED BY <1>1, <1>3, <1>4 DEF Follows

LEMMA SameFollows ==
  ASSUME CacheInv, UNCHANGED entries
  PROVE  DOMAIN entries' \subseteq Keys /\ \A k \in DOMAIN entries' : Follows(k)
BY DEF CacheInv, CacheTyped, Follows, Stored

\* The calls of others go on, as long as the data stay.
LEMMA OthersGoOn ==
  ASSUME CacheInv, UNCHANGED data
  PROVE  /\ UNCHANGED request => /\ request' \in [Requests -> Request]
                                 /\ (\A r \in Requests : RequestOK(r))'
         /\ UNCHANGED preload =>
              /\ preload' \in [step : {"none", "set"}, rest : SUBSET Keys,
                               read : [Keys -> Nat], late : BOOLEAN]
              /\ PreloadOK'
         /\ preload' = NoPreload =>
              /\ preload' \in [step : {"none", "set"}, rest : SUBSET Keys,
                               read : [Keys -> Nat], late : BOOLEAN]
              /\ PreloadOK'
BY Nothings DEF CacheInv, CacheTyped, RequestOK, PreloadOK, UpToDate

LEMMA OneGoesOn ==
  ASSUME CacheInv, UNCHANGED data, NEW r \in Requests, NEW x \in Request,
         request' = [request EXCEPT ![r] = x],
         x.step \in {"handler", "store"} => x.key \in Keys,
         x.step = "store" => UpToDate(x.version, x.late, x.key)
  PROVE  request' \in [Requests -> Request] /\ (\A q \in Requests : RequestOK(q))'
<1>1. request' \in [Requests -> Request] /\ request'[r] = x
      /\ \A q \in Requests \ {r} : request'[q] = request[q]
  BY DEF CacheInv, CacheTyped
<1>2. (\A q \in Requests : RequestOK(q))'
  BY <1>1 DEF CacheInv, RequestOK, UpToDate
<1> QED BY <1>1, <1>2

LEMMA ReadingKeeps == CacheInv /\ Reading => CacheInv'
<1> SUFFICES ASSUME CacheInv, NEW r \in Requests,
                    \/ \E k \in Keys : Lookup(r, k)
                    \/ \E good \in BOOLEAN : Handle(r, good)
                    \/ Store(r)
             PROVE  CacheInv'
  BY DEF Reading
<1>0. /\ request \in [Requests -> Request] /\ request[r] \in Request /\ RequestOK(r)
      /\ data \in [Keys -> Nat] /\ \A k \in Keys : data[k] \in Nat
  BY DEF CacheInv, CacheTyped
<1>1. ASSUME NEW k \in Keys, Lookup(r, k) PROVE CacheInv'
  <2>1. UNCHANGED <<ttl, data, fresh, change, backend, preload>>
    BY <1>1 DEF Lookup, settings, world
  <2>2. PICK x : /\ request' = [request EXCEPT ![r] = x]
                 /\ \/ x = [NoRequest EXCEPT !.step = "failed"]
                    \/ x = NoRequest
                    \/ x = [NoRequest EXCEPT !.step = "handler", !.key = k]
    BY <1>1 DEF Lookup
  <2>3. x \in Request /\ x.step # "store" /\ (x.step = "handler" => x.key = k)
    <3>1. PICK n \in Request : n = NoRequest
      BY Nothings
    <3>2. n.step = "lookup"
      BY <3>1, Nothings
    <3> QED BY <2>2, <3>1, <3>2 DEF Request
  <2>4. request' \in [Requests -> Request] /\ (\A q \in Requests : RequestOK(q))'
    BY <2>1, <2>2, <2>3, OneGoesOn
  <2>5. DOMAIN entries' \subseteq Keys /\ \A e \in DOMAIN entries' : Follows(e)
    <3>1. CASE Keeps(Stored \ {k})
      BY <3>1, KeepsFollow DEF CacheInv, CacheTyped, Stored
    <3>2. CASE UNCHANGED store
      BY <3>2, SameFollows DEF store
    <3> QED BY <1>1, <3>1, <3>2 DEF Lookup
  <2> QED BY <2>1, <2>4, <2>5, EntriesKeep, OthersGoOn
<1>2. ASSUME NEW good \in BOOLEAN, Handle(r, good) PROVE CacheInv'
  <2>1. UNCHANGED <<ttl, data, fresh, change, backend, preload, entries>>
        /\ request[r].step = "handler"
    BY <1>2 DEF Handle, settings, world, store
  <2>2. PICK x : /\ request' = [request EXCEPT ![r] = x]
                 /\ x = IF good THEN [request[r] EXCEPT !.step = "store",
                                                        !.version = data[request[r].key]]
                        ELSE NoRequest
    BY <1>2 DEF Handle
  <2>3. request[r].key \in Keys
    BY <1>0, <2>1 DEF RequestOK
  <2>4. /\ x \in Request
        /\ x.step = "store" => x.key = request[r].key /\ x.version = data[x.key]
        /\ x.step \in {"store", "lookup"}
    <3>1. CASE good
      <4>1. PICK v \in Nat : v = data[request[r].key]
        BY <1>0, <2>3
      <4>2. x = [request[r] EXCEPT !.step = "store", !.version = v]
        BY <2>2, <3>1, <4>1
      <4> QED BY <1>0, <4>1, <4>2 DEF Request
    <3>2. CASE ~good
      BY <2>2, <3>2, Nothings
    <3> QED BY <3>1, <3>2
  <2>5. request' \in [Requests -> Request] /\ (\A q \in Requests : RequestOK(q))'
    BY <2>1, <2>2, <2>3, <2>4, OneGoesOn DEF UpToDate
  <2> QED BY <2>1, <2>5, EntriesKeep, OthersGoOn, SameFollows
<1>3. CASE Store(r)
  <2>1. UNCHANGED <<ttl, data, fresh, change, backend, preload>> /\ request[r].step = "store"
    BY <1>3 DEF Store, settings, world
  <2>2. PICK x : /\ request' = [request EXCEPT ![r] = x]
                 /\ x = NoRequest \/ x = [NoRequest EXCEPT !.step = "failed"]
    BY <1>3 DEF Store
  <2>3. x \in Request /\ x.step \notin {"handler", "store"}
    <3>1. PICK n \in Request : n = NoRequest
      BY Nothings
    <3> QED BY <2>2, <3>1, Nothings DEF Request
  <2>4. request' \in [Requests -> Request] /\ (\A q \in Requests : RequestOK(q))'
    BY <2>1, <2>2, <2>3, OneGoesOn
  <2>5. DOMAIN entries' \subseteq Keys /\ \A e \in DOMAIN entries' : Follows(e)
    <3>1. CASE Set(request[r].key, Made(request[r].version, request[r].late))
      <4>1. /\ request[r].key \in Keys /\ request[r].version \in Nat
            /\ request[r].late \in BOOLEAN
            /\ UpToDate(request[r].version, request[r].late, request[r].key)
        BY <1>0, <2>1 DEF RequestOK, Request
      <4> QED BY <3>1, <4>1, SetFollows
    <3>2. CASE UNCHANGED store
      BY <3>2, SameFollows DEF store
    <3> QED BY <1>3, <3>1, <3>2 DEF Store
  <2> QED BY <2>1, <2>4, <2>5, EntriesKeep, OthersGoOn
<1> QED BY <1>1, <1>2, <1>3

LEMMA PreloadingKeeps == CacheInv /\ Preloading => CacheInv'
<1> SUFFICES ASSUME CacheInv, Preloading PROVE CacheInv'
  OBVIOUS
<1> DEFINE Preloads == [step : {"none", "set"}, rest : SUBSET Keys, read : [Keys -> Nat],
                        late : BOOLEAN]
<1>0. /\ preload \in Preloads /\ data \in [Keys -> Nat] /\ PreloadOK /\ Stored \subseteq Keys
  BY DEF CacheInv, CacheTyped, Stored
<1>1. CASE Preload
  <2>1. UNCHANGED <<ttl, data, fresh, change, backend, request, entries>>
    BY <1>1 DEF Preload, settings, world, store
  <2>2. PICK n \in Preloads : n = NoPreload
    BY Nothings
  <2>3. preload' = [n EXCEPT !.step = "set", !.rest = Keys, !.read = data]
    BY <1>1, <2>2 DEF Preload
  <2>4. preload' \in Preloads /\ preload'.read = data
    BY <1>0, <2>2, <2>3
  <2>5. PreloadOK'
    BY <2>1, <2>4 DEF PreloadOK, UpToDate
  <2> QED BY <2>1, <2>4, <2>5, EntriesKeep, OthersGoOn, SameFollows
<1>2. CASE PreloadOne
  <2>1. UNCHANGED <<ttl, data, fresh, change, backend, request>> /\ preload.step = "set"
    BY <1>2 DEF PreloadOne, settings, world
  <2>2. CASE preload' = NoPreload /\ UNCHANGED store
    BY <2>1, <2>2, EntriesKeep, OthersGoOn, SameFollows DEF store
  <2>3. ASSUME NEW k \in preload.rest, Set(k, Made(preload.read[k], preload.late)),
               preload' = [preload EXCEPT !.rest = @ \ {k}]
        PROVE  CacheInv'
    <3>1. /\ k \in Keys /\ preload.read[k] \in Nat /\ preload.late \in BOOLEAN
          /\ UpToDate(preload.read[k], preload.late, k)
      BY <1>0, <2>1 DEF PreloadOK
    <3>2. DOMAIN entries' \subseteq Keys /\ \A e \in DOMAIN entries' : Follows(e)
      BY <2>3, <3>1, SetFollows
    <3>3. /\ preload' \in Preloads /\ preload'.step = preload.step
          /\ preload'.read = preload.read /\ preload'.late = preload.late
      BY <1>0, <2>3
    <3>4. PreloadOK'
      BY <1>0, <2>1, <3>3 DEF PreloadOK, UpToDate
    <3> QED BY <2>1, <3>2, <3>3, <3>4, EntriesKeep, OthersGoOn
  <2> QED BY <1>2, <2>2, <2>3 DEF PreloadOne
<1>3. CASE PreloadAll
  <2>1. UNCHANGED <<ttl, data, fresh, change, backend, request>> /\ preload.step = "set"
        /\ preload' = NoPreload
    BY <1>3 DEF PreloadAll, settings, world
  <2>2. DOMAIN entries' \subseteq Keys /\ \A e \in DOMAIN entries' : Follows(e)
    <3>1. CASE entries' = entries
      BY <3>1, SameFollows
    <3>2. CASE entries' = [k \in Keys |-> Made(preload.read[k], preload.late)]
      <4> SUFFICES ASSUME NEW k \in Keys PROVE Follows(k)
        BY <3>2
      <4>1. PICK e : e = Made(preload.read[k], preload.late)
        OBVIOUS
      <4>2. e \in Entry /\ e.version = preload.read[k] /\ e.late = preload.late
        BY <1>0, <4>1 DEF Made, Entry, DefaultTtl, Forever, CacheInv, CacheTyped
      <4>3. entries'[k] = e
        BY <3>2, <4>1
      <4> QED BY <1>0, <2>1, <4>2, <4>3 DEF Follows, PreloadOK
    <3> QED BY <1>3, <3>1, <3>2 DEF PreloadAll
  <2> QED BY <2>1, <2>2, EntriesKeep, OthersGoOn
<1> QED BY <1>1, <1>2, <1>3 DEF Preloading

\* An invalidation that is complete: what is left of its keys is new enough.
LEMMA InvalidatedKeeps ==
  ASSUME CacheInv, Invalidated, change.step # "none", change' = NoChange,
         UNCHANGED <<ttl, data, request, preload>>,
         DOMAIN entries' \subseteq Stored, \A k \in DOMAIN entries' : entries'[k] = entries[k],
         \A k \in DOMAIN entries' :
           k \in change.keys => entries[k].late \/ entries[k].version >= change.at[k]
  PROVE  CacheInv'
<1>0. /\ CacheTyped /\ change.at = data /\ data \in [Keys -> Nat] /\ fresh \in [Keys -> Nat]
      /\ \A k \in Keys : fresh[k] <= data[k]
  BY DEF CacheInv, CacheTyped
<1>1. /\ fresh' \in [Keys -> Nat]
      /\ \A k \in Keys : fresh'[k] = IF k \in change.keys THEN change.at[k] ELSE fresh[k]
  BY <1>0 DEF Invalidated
<1>2. CacheTyped'
  BY <1>0, <1>1, Nothings DEF CacheTyped, Stored
<1>3. FreshUnlessRaced'
  <2> SUFFICES ASSUME NEW k \in DOMAIN entries'
               PROVE  entries'[k].late \/ entries'[k].version >= fresh'[k]
    BY DEF FreshUnlessRaced, Stored
  <2>1. k \in Keys /\ entries[k] = entries'[k] /\ k \in Stored
    BY <1>0 DEF CacheTyped, Stored
  <2> QED BY <1>1, <2>1 DEF CacheInv, FreshUnlessRaced
<1> QED BY <1>0, <1>1, <1>2, <1>3, OthersGoOn, Nothings DEF CacheInv

\* A step of an invalidation that goes on, or gives up.
LEMMA ChangeGoesOn ==
  ASSUME CacheInv, UNCHANGED <<ttl, data, fresh, request, preload>>,
         DOMAIN entries' \subseteq Stored, \A k \in DOMAIN entries' : entries'[k] = entries[k],
         change' \in [step : {"none", "exists", "del", "keys", "dels"}, rest : SUBSET Keys,
                      at : [Keys -> Nat], keys : SUBSET Keys],
         change'.step # "none" => change'.at = data,
         change'.step = "dels" /\ backend' # "shared" => (\A k \in Stored : Outlives(k))'
  PROVE  CacheInv'
<1>1. CacheTyped'
  BY DEF CacheInv, CacheTyped, Stored
<1>2. FreshUnlessRaced'
  BY DEF CacheInv, FreshUnlessRaced, Stored
<1> QED BY <1>1, <1>2, OthersGoOn DEF CacheInv

\* Whoever has read the data before a change of it is late, and may store the rest.
LEMMA ChangeKeeps ==
  ASSUME CacheInv, NEW key \in Keys, NEW step \in {"exists", "keys"}, Change(key, step)
  PROVE  CacheInv'
<1> DEFINE Preloads == [step : {"none", "set"}, rest : SUBSET Keys, read : [Keys -> Nat],
                        late : BOOLEAN]
<1>0. /\ CacheTyped /\ data \in [Keys -> Nat] /\ request \in [Requests -> Request]
      /\ preload \in Preloads /\ \A k \in Keys : fresh[k] <= data[k] /\ fresh[k] \in Nat
      /\ \A r \in Requests : RequestOK(r) /\ request[r] \in Request
  BY DEF CacheInv, CacheTyped
<1>1. /\ data' = [data EXCEPT ![key] = @ + 1] /\ Overtake
      /\ UNCHANGED <<ttl, backend, entries, fresh>>
  BY DEF Change, settings, store
<1>2. data' \in [Keys -> Nat] /\ \A k \in Keys : data'[k] \in Nat /\ data[k] <= data'[k]
  BY <1>0, <1>1
<1>3. ASSUME NEW r \in Requests
      PROVE  /\ request'[r] \in Request /\ request'[r].step = request[r].step
             /\ request'[r].key = request[r].key
             /\ request[r].step = "store" => request'[r].late
  <2>1. PICK late \in BOOLEAN : late = (request[r].late \/ request[r].step = "store")
    BY <1>0 DEF Request
  <2>2. request'[r] = [request[r] EXCEPT !.late = late]
    BY <1>1, <2>1 DEF Overtake
  <2> QED BY <1>0, <2>1, <2>2 DEF Request
<1>4. request' \in [Requests -> Request] /\ (\A r \in Requests : RequestOK(r))'
  <2>1. request' = [r \in Requests |-> request'[r]]
    BY <1>1 DEF Overtake
  <2> QED BY <1>0, <1>3, <2>1 DEF RequestOK, UpToDate
<1>5. preload' \in Preloads /\ PreloadOK'
  <2>1. PICK late \in BOOLEAN : late = (preload.late \/ preload.step = "set")
    BY <1>0
  <2>2. preload' = [preload EXCEPT !.late = late]
    BY <1>1, <2>1 DEF Overtake
  <2>3. preload' \in Preloads /\ preload'.step = preload.step /\ preload'.late = late
    BY <1>0, <2>2
  <2> QED BY <2>1, <2>3 DEF PreloadOK, UpToDate
<1>6. /\ change' \in [step : {"none", "exists", "del", "keys", "dels"}, rest : SUBSET Keys,
                      at : [Keys -> Nat], keys : SUBSET Keys]
      /\ change'.at = data' /\ change'.step = step
  <2>1. PICK keys \in SUBSET Keys : keys = IF step = "keys" THEN Keys ELSE {key}
    OBVIOUS
  <2>2. PICK at \in [Keys -> Nat] : at = data'
    BY <1>2
  <2>3. PICK n \in [step : {"none", "exists", "del", "keys", "dels"}, rest : SUBSET Keys,
                    at : [Keys -> Nat], keys : SUBSET Keys] : n = NoChange
    BY Nothings
  <2>4. change' = [n EXCEPT !.step = step, !.at = at, !.keys = keys]
    BY <2>1, <2>2, <2>3 DEF Change
  <2> QED BY <2>2, <2>3, <2>4
<1>7. CacheTyped'
  BY <1>0, <1>1, <1>2, <1>4, <1>5, <1>6 DEF CacheTyped
<1>8. FreshUnlessRaced' /\ \A k \in Keys : fresh'[k] <= data'[k]
  BY <1>0, <1>1, <1>2 DEF CacheInv, FreshUnlessRaced, Stored
<1> QED BY <1>4, <1>5, <1>6, <1>7, <1>8 DEF CacheInv

LEMMA InvalidatingKeeps == CacheInv /\ Invalidating => CacheInv'
<1> SUFFICES ASSUME CacheInv, Invalidating PROVE CacheInv'
  OBVIOUS
<1> DEFINE Changes == [step : {"none", "exists", "del", "keys", "dels"}, rest : SUBSET Keys,
                       at : [Keys -> Nat], keys : SUBSET Keys]
<1>0. /\ change \in Changes /\ NoChange \in Changes /\ NoChange.step = "none"
      /\ Stored \subseteq Keys
      /\ change.step # "none" => change.at = data
  BY Nothings DEF CacheInv, CacheTyped, Stored
<1>1. ASSUME NEW k \in Keys, NEW step \in {"exists", "keys"}, Change(k, step)
      PROVE  CacheInv'
  BY <1>1, ChangeKeeps
<1>2. CASE MemoryForgets
  <2>1. Keeps(Stored \ change.keys) /\ Invalidated /\ change' = NoChange
        /\ UNCHANGED <<ttl, data, request, preload>> /\ change.step # "none"
    BY <1>2 DEF MemoryForgets, settings
  <2>2. DOMAIN entries' = Stored \ change.keys
        /\ \A k \in DOMAIN entries' : entries'[k] = entries[k]
    BY <2>1, KeepsFollow
  <2> QED BY <2>1, <2>2, InvalidatedKeeps
<1>3. CASE DeleteAsks
  <2>1. UNCHANGED <<ttl, data, fresh, request, preload, entries>>
    BY <1>3 DEF DeleteAsks, settings, world, store
  <2>2. change' \in Changes /\ change'.step # "dels"
        /\ (change'.step # "none" => change'.at = data)
    BY <1>0, <1>3 DEF DeleteAsks
  <2> QED BY <2>1, <2>2, ChangeGoesOn DEF Stored
<1>4. CASE Deletes
  <2>1. change' = NoChange /\ UNCHANGED <<ttl, data, request, preload>> /\ change.step = "del"
    BY <1>4 DEF Deletes, settings
  <2>2. CASE Keeps(Stored \ change.keys) /\ Invalidated
    <3>1. DOMAIN entries' = Stored \ change.keys
          /\ \A k \in DOMAIN entries' : entries'[k] = entries[k]
      BY <2>2, KeepsFollow
    <3> QED BY <2>1, <2>2, <3>1, InvalidatedKeeps
  <2>3. CASE UNCHANGED <<store, fresh>>
    BY <1>0, <2>1, <2>3, ChangeGoesOn DEF Stored, store
  <2> QED BY <1>4, <2>2, <2>3 DEF Deletes
<1>5. CASE ClearLists
  <2>1. UNCHANGED <<ttl, data, fresh, request, preload, entries, backend>>
    BY <1>5 DEF ClearLists, settings, world, store
  <2>2. CASE change' = NoChange
    BY <1>0, <2>1, <2>2, ChangeGoesOn DEF Stored
  <2>3. CASE change' = [change EXCEPT !.step = "dels", !.rest = Listed]
    <3>1. Listed \subseteq Keys /\ (backend # "shared" => Listed = Stored)
      BY <1>0 DEF Listed
    <3>2. PICK listed \in SUBSET Keys : listed = Listed
      BY <3>1
    <3>3. change' \in Changes /\ change'.at = change.at /\ change'.rest = listed
      BY <1>0, <2>3, <3>2
    <3>4. change'.at = data
      BY <1>0, <1>5, <3>3 DEF ClearLists
    <3>5. backend' # "shared" => (\A k \in Stored : Outlives(k))'
      BY <2>1, <3>1, <3>2, <3>3 DEF Outlives, Stored
    <3> QED BY <2>1, <3>3, <3>4, <3>5, ChangeGoesOn DEF Stored
  <2> QED BY <1>5, <2>2, <2>3 DEF ClearLists
<1>6. CASE ClearDeletes
  <2>1. change.step = "dels" /\ UNCHANGED <<ttl, data, request, preload, backend>>
    BY <1>6 DEF ClearDeletes, settings
  <2>2. CASE change' = NoChange /\ UNCHANGED <<store, fresh>>
    BY <1>0, <2>1, <2>2, ChangeGoesOn DEF Stored, store
  <2>3. CASE change.rest = {} /\ change' = NoChange /\ UNCHANGED store /\ Invalidated
             /\ backend # "shared"
    <3>1. \A k \in Stored : k \in change.keys =>
            entries[k].late \/ entries[k].version >= change.at[k]
      BY <2>1, <2>3 DEF CacheInv, Outlives
    <3> QED BY <2>1, <2>3, <3>1, InvalidatedKeeps DEF Stored, store
  <2>4. ASSUME NEW k \in change.rest, Keeps(Stored \ {k}), UNCHANGED fresh,
               change' = [change EXCEPT !.rest = @ \ {k}]
        PROVE  CacheInv'
    <3>1. DOMAIN entries' = Stored \ {k} /\ \A e \in DOMAIN entries' : entries'[e] = entries[e]
      BY <2>4, KeepsFollow
    <3>2. /\ change' \in Changes /\ change'.at = change.at /\ change'.rest = change.rest \ {k}
          /\ change'.keys = change.keys /\ change'.step = change.step
      BY <1>0, <2>4
    <3>3. backend # "shared" => (\A e \in Stored : Outlives(e))'
      BY <2>1, <3>1, <3>2 DEF CacheInv, Outlives, Stored
    <3> QED BY <1>0, <2>1, <2>4, <3>1, <3>2, <3>3, ChangeGoesOn
  <2> QED BY <1>6, <2>2, <2>3, <2>4 DEF ClearDeletes
<1> QED BY <1>1, <1>2, <1>3, <1>4, <1>5, <1>6 DEF Invalidating

LEMMA PassingKeeps == CacheInv /\ Passing => CacheInv'
<1> SUFFICES ASSUME CacheInv, Passing PROVE CacheInv'
  OBVIOUS
<1>1. UNCHANGED <<ttl, backend, data, fresh, change, request, preload>>
  BY DEF Passing, Tick, Cleanup, Outage, settings, calls, world
<1>2. DOMAIN entries' \subseteq Keys /\ \A k \in DOMAIN entries' : Follows(k)
  <2>1. CASE Tick
    <3>1. PICK rest \in SUBSET Stored : entries' = [k \in rest |-> Aged(entries[k])]
      BY <2>1 DEF Tick, Restrict
    <3>2. \A k \in Stored : k \in Keys /\ entries[k] \in Entry
      BY DEF CacheInv, CacheTyped, Stored
    <3>3. ASSUME NEW k \in rest PROVE Follows(k)
      <4>1. PICK left \in Int :
              left = IF entries[k].left = Forever \/ entries[k].left < 0
                     THEN entries[k].left ELSE entries[k].left - 1
        BY <3>2 DEF Entry
      <4>2. entries'[k] = [entries[k] EXCEPT !.left = left]
        BY <3>1, <4>1 DEF Aged
      <4>3. entries[k] \in Entry /\ k \in Stored
        BY <3>2
      <4> QED BY <4>1, <4>2, <4>3 DEF Follows, Entry
    <3> QED BY <3>1, <3>2, <3>3
  <2>2. CASE Cleanup
    BY <2>2, KeepsFollow DEF Cleanup, CacheInv, CacheTyped, Stored
  <2>3. CASE Outage
    BY <2>3, SameFollows DEF Outage, store
  <2> QED BY <2>1, <2>2, <2>3 DEF Passing
<1> QED BY <1>1, <1>2, EntriesKeep, OthersGoOn

LEMMA LivingKeeps == CacheInv /\ Living => CacheInv'
<1> SUFFICES ASSUME CacheInv, Living PROVE CacheInv'
  OBVIOUS
<1>1. /\ UNCHANGED <<ttl, data, fresh, change, request, preload>>
      /\ backend' = "shared" <=> backend = "shared"
  BY DEF Living, Initialize, Joins, Sharing, Close, settings, calls, world
<1>2. DOMAIN entries' \subseteq Keys /\ \A k \in DOMAIN entries' : Follows(k)
  <2>1. CASE Close
    <3>1. CASE Keeps({})
      BY <3>1, KeepsFollow
    <3>2. CASE UNCHANGED store
      BY <3>2, SameFollows DEF store
    <3> QED BY <2>1, <3>1, <3>2 DEF Close
  <2>2. CASE Initialize \/ Joins \/ Sharing
    BY <2>2, SameFollows DEF Initialize, Joins, Sharing, store
  <2> QED BY <2>1, <2>2 DEF Living
<1> QED BY <1>1, <1>2, EntriesKeep, OthersGoOn

\* What is stored is as new as the last invalidation carried out, unless it was
\* computed before one and stored after it.
THEOREM StoredIsFresh == Spec => []FreshUnlessRaced
<1>1. CacheInv /\ UNCHANGED vars => CacheInv'
  BY DEF vars, settings, store, calls, world, CacheInv, CacheTyped, RequestOK, PreloadOK,
         UpToDate, FreshUnlessRaced, Stored, Outlives
<1>2. CacheInv /\ [Next]_vars => CacheInv'
  BY <1>1, ReadingKeeps, PreloadingKeeps, InvalidatingKeeps, PassingKeeps, LivingKeeps
     DEF Next
<1>3. CacheInv => FreshUnlessRaced
  BY DEF CacheInv
<1> QED BY <1>2, <1>3, InitCacheInv, PTL DEF Spec
=============================================================================
