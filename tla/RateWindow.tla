------------------------------ MODULE RateWindow ------------------------------
(***************************************************************************)
(* What a fixed-window rate limiter promises, whatever stores its counters: *)
(* "Maximum number of requests allowed per window per key"                  *)
(* (packages/core/src/security/rate-limit-middleware.ts, RateLimitOptions). *)
(* A request is granted or refused in one step.                             *)
(***************************************************************************)
EXTENDS Integers

CONSTANTS Keys, Requests,
          Max,       \* options.max
          Window     \* options.windowMs, in ticks of the clock

VARIABLES now,      \* the clock
          ends,     \* when the current window of each key ends
          granted,  \* requests granted in the current window of each key
          verdict   \* "none", "granted" or "refused" for each request

vars == <<now, ends, granted, verdict>>

Init ==
  /\ now = 0
  /\ ends = [k \in Keys |-> 0]
  /\ granted = [k \in Keys |-> 0]
  /\ verdict = [r \in Requests |-> "none"]

Tick ==
  /\ now' = now + 1
  /\ UNCHANGED <<ends, granted, verdict>>

\* The first request after a window has ended opens the next one.
Open(r, k) ==
  /\ verdict[r] = "none" /\ ends[k] <= now
  /\ ends' = [ends EXCEPT ![k] = now + Window]
  /\ IF Max > 0
     THEN /\ granted' = [granted EXCEPT ![k] = 1]
          /\ verdict' = [verdict EXCEPT ![r] = "granted"]
     ELSE /\ granted' = [granted EXCEPT ![k] = 0]
          /\ verdict' = [verdict EXCEPT ![r] = "refused"]
  /\ UNCHANGED now

Grant(r, k) ==
  /\ verdict[r] = "none" /\ ends[k] > now /\ granted[k] < Max
  /\ granted' = [granted EXCEPT ![k] = @ + 1]
  /\ verdict' = [verdict EXCEPT ![r] = "granted"]
  /\ UNCHANGED <<now, ends>>

Refuse(r, k) ==
  /\ verdict[r] = "none" /\ ends[k] > now /\ granted[k] = Max
  /\ verdict' = [verdict EXCEPT ![r] = "refused"]
  /\ UNCHANGED <<now, ends, granted>>

Next ==
  \/ Tick
  \/ \E r \in Requests, k \in Keys : Open(r, k)
  \/ \E r \in Requests, k \in Keys : Grant(r, k)
  \/ \E r \in Requests, k \in Keys : Refuse(r, k)

Spec == Init /\ [][Next]_vars
=============================================================================
