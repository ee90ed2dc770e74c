------------------------------- MODULE RateLimit -------------------------------
(***************************************************************************)
(* RateLimitMiddleware over a MemoryRateLimitStore, from                    *)
(* packages/core/src/security/rate-limit-middleware.ts: concurrent requests *)
(* of one process.                                                          *)
(*                                                                          *)
(* increment() runs without an await between its read and its write, so it  *)
(* is one step; use() awaits it, so the response is decided in a later step *)
(* from the count the request carries, when other requests may have gone    *)
(* first or the window may have ended.                                      *)
(***************************************************************************)
EXTENDS Integers, FiniteSets

CONSTANTS Keys,      \* what keyGenerator returns
          Requests,  \* requests, each made at most once
          Max,       \* options.max
          Window,    \* options.windowMs, in ticks of the clock
          MaxTime    \* bound: ticks of the clock

ASSUME RequestsAssumption == IsFiniteSet(Requests)
ASSUME MaxAssumption == Max \in Nat
ASSUME WindowAssumption == Window \in Nat \ {0}
ASSUME MaxTimeAssumption == MaxTime \in Nat

VARIABLES
  now,     \* Date.now()
  map,     \* the store's Map: count 0 where it has no entry
  req      \* each request: its phase, and what increment() returned to it

vars == <<now, map, req>>

NoEntry == [count |-> 0, resetAt |-> 0]
Phases == {"new", "counted", "served", "refused"}

Init ==
  /\ now = 0
  /\ map = [k \in Keys |-> NoEntry]
  /\ req \in [Requests -> {[phase |-> "new", key |-> k, count |-> 0, resetAt |-> 0,
                            at |-> 0] : k \in Keys}]

Tick ==
  /\ now < MaxTime
  /\ now' = now + 1
  /\ UNCHANGED <<map, req>>

\* Mutant: an ended window passes its count on.
IncrementedKeepsCount(k) ==
  IF map[k].count = 0 \/ map[k].resetAt <= now
  THEN [count |-> map[k].count + 1, resetAt |-> now + Window]
  ELSE [map[k] EXCEPT !.count = @ + 1]

\* Mutant: a window restarts when it is full, not when it has ended.
IncrementedOnDemand(k) ==
  IF map[k].count = 0 \/ map[k].count >= Max
  THEN [count |-> 1, resetAt |-> now + Window]
  ELSE [map[k] EXCEPT !.count = @ + 1]

\* The entry that increment(key) leaves in the Map.
Incremented(k) ==
  IF map[k].count = 0 \/ map[k].resetAt <= now
  THEN [count |-> 1, resetAt |-> now + Window]
  ELSE [map[k] EXCEPT !.count = @ + 1]

\* store.increment(key, windowMs)
Increment(r) ==
  LET entry == Incremented(req[r].key)
  IN /\ req[r].phase = "new"
     /\ map' = [map EXCEPT ![req[r].key] = entry]
     /\ req' = [req EXCEPT ![r].phase = "counted", ![r].count = entry.count,
                           ![r].resetAt = entry.resetAt, ![r].at = now]
     /\ UNCHANGED now

\* use() goes on after the await: next() or a 429.
Admitted(r) == req[r].count <= Max

Respond(r) ==
  /\ req[r].phase = "counted"
  /\ req' = [req EXCEPT ![r].phase = IF Admitted(r) THEN "served" ELSE "refused"]
  /\ UNCHANGED <<now, map>>

Next ==
  \/ Tick
  \/ \E r \in Requests : Increment(r)
  \/ \E r \in Requests : Respond(r)

Spec == Init /\ [][Next]_vars

-----------------------------------------------------------------------------
Counted(r) == req[r].phase # "new"

\* Types; and the window a request is counted in is open when it is counted.
TypeOK ==
  /\ now \in 0..MaxTime
  /\ map \in [Keys -> [count : Nat, resetAt : Nat]]
  /\ req \in [Requests -> [phase : Phases, key : Keys, count : Nat, resetAt : Nat,
                           at : Nat]]
  /\ \A r \in Requests : Counted(r) =>
       /\ req[r].at <= now
       /\ req[r].at < req[r].resetAt /\ req[r].resetAt <= req[r].at + Window

\* The requests the store counted in one window of a key, and those admitted.
InWindow(k, w) == {r \in Requests : Counted(r) /\ req[r].key = k /\ req[r].resetAt = w}
AdmittedIn(k, w) == {r \in InWindow(k, w) : Admitted(r)}

\* However many requests are between their increment and their response, and
\* wherever the end of the window falls, at most `max` requests of a key are
\* let through per window.
AtMostMaxPerWindow ==
  \A k \in Keys, w \in 0..(MaxTime + Window) : Cardinality(AdmittedIn(k, w)) <= Max

\* A fixed window lets a burst through at either side of a boundary and no more:
\* in any interval as long as a window fewer than twice `max` requests pass, for
\* the request that opened the first window is always outside.
FewerThanTwiceMaxPerInterval ==
  \A k \in Keys, t \in 0..MaxTime :
    Cardinality({r \in Requests : /\ Counted(r) /\ Admitted(r) /\ req[r].key = k
                                 /\ req[r].at \in t..(t + Window - 1)})
      <= IF Max = 0 THEN 0 ELSE 2 * Max - 1

\* A 429 is earned: `max` other requests of the key were admitted in the very
\* window whose end the response reports.
RefusedOnlyWhenFull ==
  \A r \in Requests : req[r].phase = "refused" =>
    Cardinality(AdmittedIn(req[r].key, req[r].resetAt)) = Max

(* The verdict is settled by the increment; the response only carries it out. *)
Verdict(r) ==
  IF ~Counted(r) THEN "none" ELSE IF Admitted(r) THEN "granted" ELSE "refused"

Ends == [k \in Keys |-> map[k].resetAt]
Granted == [k \in Keys |-> IF map[k].count <= Max THEN map[k].count ELSE Max]
Verdicts == [r \in Requests |-> Verdict(r)]

Promise == INSTANCE RateWindow
             WITH ends <- Ends, granted <- Granted, verdict <- Verdicts

\* The middleware implements the fixed-window limiter: no interleaving of
\* increments and responses grants what the promise would refuse, or refuses
\* what it would grant.
PromiseKept == Promise!Spec
=============================================================================
