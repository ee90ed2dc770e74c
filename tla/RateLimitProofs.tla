---------------------------- MODULE RateLimitProofs ----------------------------
(***************************************************************************)
(* Proofs about RateLimit for every set of keys and requests, every limit   *)
(* and every window, and about HttpClient for every set of calls and every   *)
(* way to make them.                                                        *)
(*                                                                          *)
(* The counts that increment() returns number the requests of a window of a *)
(* key 1, 2, 3, ... without a gap (NoGap) and without repetition            *)
(* (NoRepetition); the entry in the Map is the number of the last one       *)
(* (MapIsLast).  The requests let through are those numbered 1..Max.        *)
(***************************************************************************)
EXTENDS HttpClient, FiniteSetTheorems, TLAPS

EmptyIsFresh == \A k \in Keys : map[k].count = 0 => map[k].resetAt = 0

MapIsLast ==
  \A r \in Requests : Counted(r) =>
    /\ req[r].count >= 1 /\ map[req[r].key].count >= 1
    /\ req[r].resetAt <= map[req[r].key].resetAt
    /\ req[r].resetAt = map[req[r].key].resetAt => req[r].count <= map[req[r].key].count

NoRepetition ==
  \A r, q \in Requests :
    /\ Counted(r) /\ Counted(q) /\ r # q
    /\ req[r].key = req[q].key /\ req[r].resetAt = req[q].resetAt
    => req[r].count # req[q].count

\* Number c of window w of key k was given to a request.
Given(k, w, c) ==
  \E q \in Requests : /\ Counted(q) /\ req[q].key = k
                      /\ req[q].resetAt = w /\ req[q].count = c

NoGap ==
  /\ \A k \in Keys : \A c \in 1..map[k].count : Given(k, map[k].resetAt, c)
  /\ \A r \in Requests : Counted(r) =>
       \A c \in 1..req[r].count : Given(req[r].key, req[r].resetAt, c)

RefusedIsOver ==
  \A r \in Requests : req[r].phase = "refused" => req[r].count > Max

IInv == TypeOK /\ EmptyIsFresh /\ MapIsLast /\ NoRepetition /\ NoGap

-----------------------------------------------------------------------------
\* Nothing has been counted at first.
LEMMA InitIInv == Init => IInv
<1> SUFFICES ASSUME Init PROVE IInv
  OBVIOUS
<1>1. /\ \A r \in Requests : ~Counted(r)
      /\ \A k \in Keys : map[k] = NoEntry
      /\ now = 0
  BY DEF Init, Counted
<1>2. TypeOK
  BY <1>1, MaxTimeAssumption DEF Init, TypeOK, NoEntry, Phases
<1>3. EmptyIsFresh /\ MapIsLast /\ NoRepetition
  BY <1>1 DEF EmptyIsFresh, MapIsLast, NoRepetition, NoEntry
<1>4. NoGap
  BY <1>1 DEF NoGap, NoEntry
<1> QED BY <1>2, <1>3, <1>4 DEF IInv

\* What one increment does to the Map and to the requests.
LEMMA IncrementEffect ==
  ASSUME IInv, NEW r \in Requests, Increment(r),
         NEW k, k = req[r].key, NEW e, e = Incremented(k)
  PROVE  /\ k \in Keys /\ ~Counted(r) /\ now' = now /\ now \in Nat
         /\ e \in [count : Nat, resetAt : Nat] /\ e.count >= 1
         /\ now < e.resetAt /\ e.resetAt <= now + Window
         /\ \/ e.count = 1 /\ e.resetAt > map[k].resetAt
            \/ e.count = map[k].count + 1 /\ e.resetAt = map[k].resetAt
         /\ map' = [map EXCEPT ![k] = e] /\ map'[k] = e
         /\ \A q \in Requests : q # r => req'[q] = req[q]
         /\ Counted(r)' /\ req'[r].key = k /\ req'[r].count = e.count
         /\ req'[r].resetAt = e.resetAt /\ req'[r].at = now
         /\ req' \in [Requests -> [phase : Phases, key : Keys, count : Nat,
                                   resetAt : Nat, at : Nat]]
<1>1. /\ req \in [Requests -> [phase : Phases, key : Keys, count : Nat,
                               resetAt : Nat, at : Nat]]
      /\ map \in [Keys -> [count : Nat, resetAt : Nat]]
      /\ now \in Nat
  BY MaxTimeAssumption DEF IInv, TypeOK
<1>2. /\ req[r].phase = "new" /\ now' = now
      /\ map' = [map EXCEPT ![k] = e]
      /\ req' = [req EXCEPT ![r].phase = "counted", ![r].count = e.count,
                            ![r].resetAt = e.resetAt, ![r].at = now]
  BY DEF Increment
<1>3. k \in Keys /\ map[k] \in [count : Nat, resetAt : Nat]
  BY <1>1
<1>4. /\ e \in [count : Nat, resetAt : Nat] /\ e.count >= 1
      /\ now < e.resetAt
      /\ \/ e.count = 1 /\ e.resetAt > map[k].resetAt /\ e.resetAt = now + Window
         \/ e.count = map[k].count + 1 /\ e.resetAt = map[k].resetAt
  <2>1. CASE map[k].count = 0 \/ map[k].resetAt <= now
    <3>1. e = [count |-> 1, resetAt |-> now + Window]
      BY <2>1 DEF Incremented
    <3>2. map[k].resetAt <= now
      BY <1>1, <1>3, <2>1 DEF IInv, EmptyIsFresh
    <3> QED BY <1>1, <1>3, <3>1, <3>2, WindowAssumption
  <2>2. CASE ~(map[k].count = 0 \/ map[k].resetAt <= now)
    <3>1. e = [map[k] EXCEPT !.count = @ + 1]
      BY <2>2 DEF Incremented
    <3> QED BY <1>1, <1>3, <2>2, <3>1
  <2> QED BY <2>1, <2>2
<1>5. req'[r] = [phase |-> "counted", key |-> k, count |-> e.count,
                 resetAt |-> e.resetAt, at |-> now]
  BY <1>1, <1>2
<1>6. \A q \in Requests : q # r => req'[q] = req[q]
  BY <1>1, <1>2
<1>7. req' \in [Requests -> [phase : Phases, key : Keys, count : Nat,
                             resetAt : Nat, at : Nat]]
  <2>1. req'[r] \in [phase : Phases, key : Keys, count : Nat, resetAt : Nat, at : Nat]
    BY <1>1, <1>3, <1>4, <1>5 DEF Phases
  <2>2. \A q \in Requests :
          req'[q] \in [phase : Phases, key : Keys, count : Nat, resetAt : Nat, at : Nat]
    BY <1>1, <1>6, <2>1
  <2>3. req' = [q \in Requests |-> req'[q]]
    BY <1>1, <1>2
  <2> QED BY <2>2, <2>3
<1>8. e.resetAt <= now + Window
  <2>1. CASE e.resetAt = now + Window
    BY <1>1, <2>1, WindowAssumption
  <2>2. CASE e.count = map[k].count + 1 /\ e.resetAt = map[k].resetAt /\ e.count # 1
    \* The last request of the window was counted no later than now.
    <3>1. map[k].count \in 1..map[k].count
      BY <1>3, <2>2
    <3>2. PICK q \in Requests : Counted(q) /\ req[q].resetAt = map[k].resetAt
      BY <1>3, <3>1 DEF IInv, NoGap, Given
    <3>3. req[q].at <= now /\ req[q].resetAt <= req[q].at + Window /\ req[q].at \in Nat
      BY <1>1, <3>2 DEF IInv, TypeOK
    <3> QED BY <1>1, <1>3, <2>2, <3>2, <3>3, WindowAssumption
  <2>3. CASE e.count = map[k].count + 1 /\ e.resetAt = map[k].resetAt /\ e.count = 1
    <3>1. map[k].count = 0
      BY <1>3, <2>3
    <3>2. e.resetAt = 0
      BY <1>3, <2>3, <3>1 DEF IInv, EmptyIsFresh
    <3> QED BY <1>1, <1>4, <3>2
  <2> QED BY <1>4, <2>1, <2>2, <2>3
<1> QED BY <1>1, <1>2, <1>3, <1>4, <1>5, <1>6, <1>7, <1>8 DEF Counted

\* No step breaks the invariant.
LEMMA StepIInv == IInv /\ [Next]_vars => IInv'
<1> SUFFICES ASSUME IInv, [Next]_vars PROVE IInv'
  OBVIOUS
<1>0. /\ TypeOK /\ EmptyIsFresh /\ MapIsLast /\ NoRepetition /\ NoGap
      /\ now \in Nat /\ map \in [Keys -> [count : Nat, resetAt : Nat]]
      /\ req \in [Requests -> [phase : Phases, key : Keys, count : Nat,
                               resetAt : Nat, at : Nat]]
  BY MaxTimeAssumption DEF IInv, TypeOK
\* A step that leaves the Map and what the requests were told alone.
<1>1. ASSUME now' \in 0..MaxTime, now' >= now, map' = map,
             req' \in [Requests -> [phase : Phases, key : Keys, count : Nat,
                                   resetAt : Nat, at : Nat]],
             \A r \in Requests :
               /\ Counted(r)' <=> Counted(r)
               /\ req'[r].key = req[r].key /\ req'[r].count = req[r].count
               /\ req'[r].resetAt = req[r].resetAt /\ req'[r].at = req[r].at
      PROVE  IInv'
  <2>1. TypeOK'
    BY <1>0, <1>1, MaxTimeAssumption DEF TypeOK
  <2>2. EmptyIsFresh'
    BY <1>0, <1>1 DEF EmptyIsFresh
  <2>3. MapIsLast'
    BY <1>0, <1>1 DEF MapIsLast
  <2>4. NoRepetition'
    BY <1>0, <1>1 DEF NoRepetition
  <2>5. \A k, w, c : Given(k, w, c) => Given(k, w, c)'
    BY <1>1 DEF Given
  <2>6. NoGap'
    BY <1>0, <1>1, <2>5 DEF NoGap
  <2> QED BY <2>1, <2>2, <2>3, <2>4, <2>6 DEF IInv
<1>2. CASE Tick
  BY <1>0, <1>1, <1>2, MaxTimeAssumption DEF Tick, Counted, TypeOK
<1>3. ASSUME NEW r \in Requests, Respond(r) PROVE IInv'
  <2> DEFINE phase == IF Admitted(r) THEN "served" ELSE "refused"
  <2>1. /\ req[r].phase = "counted" /\ req' = [req EXCEPT ![r].phase = phase]
        /\ now' = now /\ map' = map
    BY <1>3 DEF Respond
  <2>2. phase \in {"served", "refused"}
    OBVIOUS
  <2> HIDE DEF phase
  <2>3. \A q \in Requests :
          req'[q] = IF q = r THEN [req[r] EXCEPT !.phase = phase] ELSE req[q]
    BY <1>0, <2>1
  <2>4. req' \in [Requests -> [phase : Phases, key : Keys, count : Nat,
                              resetAt : Nat, at : Nat]]
    BY <1>0, <2>1, <2>2 DEF Phases
  <2>5. \A q \in Requests :
          /\ Counted(q)' <=> Counted(q)
          /\ req'[q].key = req[q].key /\ req'[q].count = req[q].count
          /\ req'[q].resetAt = req[q].resetAt /\ req'[q].at = req[q].at
    BY <1>0, <2>1, <2>2, <2>3 DEF Counted
  <2> QED BY <1>0, <1>1, <2>1, <2>4, <2>5 DEF TypeOK
<1>4. ASSUME NEW r \in Requests, Increment(r) PROVE IInv'
  <2> DEFINE Later(j, w, c) ==
         \E q \in Requests : /\ Counted(q)' /\ req'[q].key = j
                             /\ req'[q].resetAt = w /\ req'[q].count = c
  <2>k. PICK k : k = req[r].key
    OBVIOUS
  <2>e. PICK e : e = Incremented(k)
    OBVIOUS
  <2>1. /\ k \in Keys /\ ~Counted(r) /\ now' = now
        /\ e \in [count : Nat, resetAt : Nat] /\ e.count >= 1
        /\ now < e.resetAt /\ e.resetAt <= now + Window
        /\ \/ e.count = 1 /\ e.resetAt > map[k].resetAt
           \/ e.count = map[k].count + 1 /\ e.resetAt = map[k].resetAt
        /\ map' = [map EXCEPT ![k] = e] /\ map'[k] = e
        /\ \A q \in Requests : q # r => req'[q] = req[q]
        /\ Counted(r)' /\ req'[r].key = k /\ req'[r].count = e.count
        /\ req'[r].resetAt = e.resetAt /\ req'[r].at = now
        /\ req' \in [Requests -> [phase : Phases, key : Keys, count : Nat,
                                  resetAt : Nat, at : Nat]]
    BY <1>4, <2>k, <2>e, IncrementEffect
  <2>2. \A q \in Requests : q # r => (Counted(q)' <=> Counted(q))
    BY <2>1 DEF Counted
  <2>3. \A j \in Keys : j # k => map'[j] = map[j]
    BY <1>0, <2>1
  <2>4. TypeOK'
    <3>1. map' \in [Keys -> [count : Nat, resetAt : Nat]]
      BY <1>0, <2>1
    <3> QED BY <1>0, <2>1, <2>2, <3>1 DEF TypeOK
  <2>5. EmptyIsFresh'
    BY <1>0, <2>1, <2>3 DEF EmptyIsFresh
  <2>6. MapIsLast'
    <3> SUFFICES ASSUME NEW q \in Requests, Counted(q)'
                 PROVE  /\ req'[q].count >= 1 /\ map'[req'[q].key].count >= 1
                        /\ req'[q].resetAt <= map'[req'[q].key].resetAt
                        /\ req'[q].resetAt = map'[req'[q].key].resetAt
                             => req'[q].count <= map'[req'[q].key].count
      BY DEF MapIsLast
    <3>1. CASE q = r
      BY <2>1, <3>1
    <3>2. CASE q # r
      <4>1. /\ req'[q] = req[q] /\ Counted(q) /\ req[q].key \in Keys
            /\ req[q].count \in Nat /\ req[q].resetAt \in Nat
            /\ map[req[q].key].count \in Nat /\ map[req[q].key].resetAt \in Nat
        BY <1>0, <2>1, <2>2, <3>2
      <4>2. /\ req[q].count >= 1 /\ map[req[q].key].count >= 1
            /\ req[q].resetAt <= map[req[q].key].resetAt
            /\ req[q].resetAt = map[req[q].key].resetAt
                 => req[q].count <= map[req[q].key].count
        BY <1>0, <4>1 DEF MapIsLast
      <4>3. CASE req[q].key = k
        BY <2>1, <4>1, <4>2, <4>3
      <4>4. CASE req[q].key # k
        BY <2>3, <4>1, <4>2, <4>4
      <4> QED BY <4>3, <4>4
    <3> QED BY <3>1, <3>2
  <2>7. ASSUME NEW q \in Requests, Counted(q), q # r, req[q].key = k,
               req[q].resetAt = e.resetAt
        PROVE  req[q].count < e.count
    <3>1. /\ req[q].resetAt <= map[k].resetAt /\ req[q].count \in Nat
          /\ req[q].resetAt = map[k].resetAt => req[q].count <= map[k].count
          /\ map[k].resetAt \in Nat /\ map[k].count \in Nat
      BY <1>0, <2>1, <2>7 DEF MapIsLast
    <3> QED BY <2>1, <2>7, <3>1
  <2>8. NoRepetition'
    <3> SUFFICES ASSUME NEW p \in Requests, NEW q \in Requests,
                        Counted(p)', Counted(q)', p # q,
                        req'[p].key = req'[q].key, req'[p].resetAt = req'[q].resetAt
                 PROVE  req'[p].count # req'[q].count
      BY DEF NoRepetition
    <3>1. CASE p # r /\ q # r
      BY <1>0, <2>1, <2>2, <3>1 DEF NoRepetition
    <3>2. CASE p = r
      <4>1. req[q].count < e.count /\ req'[q] = req[q] /\ req[q].count \in Nat
        BY <1>0, <2>1, <2>2, <2>7, <3>2
      <4> QED BY <2>1, <3>2, <4>1
    <3>3. CASE q = r
      <4>1. req[p].count < e.count /\ req'[p] = req[p] /\ req[p].count \in Nat
        BY <1>0, <2>1, <2>2, <2>7, <3>3
      <4> QED BY <2>1, <3>3, <4>1
    <3> QED BY <3>1, <3>2, <3>3
  <2>9. \A j, w, c : Given(j, w, c) => Later(j, w, c)
    <3> SUFFICES ASSUME NEW j, NEW w, NEW c, Given(j, w, c) PROVE Later(j, w, c)
      OBVIOUS
    <3>1. PICK q \in Requests : Counted(q) /\ req[q].key = j
                                /\ req[q].resetAt = w /\ req[q].count = c
      BY DEF Given
    <3>2. Counted(q)' /\ req'[q] = req[q]
      BY <2>1, <2>2, <3>1
    <3> QED BY <3>1, <3>2
  <2> HIDE DEF Later
  <2>10. ASSUME NEW c \in 1..e.count PROVE Later(k, e.resetAt, c)
    <3>1. CASE c = e.count
      BY <2>1, <3>1 DEF Later
    <3>2. CASE c # e.count
      <4>1. map[k].count \in Nat /\ e.count \in Nat
        BY <1>0, <2>1
      <4>2. c \in 1..map[k].count /\ e.resetAt = map[k].resetAt
        BY <2>1, <3>2, <4>1
      <4>3. Given(k, e.resetAt, c)
        BY <1>0, <2>1, <4>2 DEF NoGap
      <4> QED BY <2>9, <4>3
    <3> QED BY <3>1, <3>2
  <2>11. NoGap'
    <3>1. ASSUME NEW j \in Keys, NEW c \in 1..map'[j].count
          PROVE  Later(j, map'[j].resetAt, c)
      <4>1. CASE j = k
        BY <2>1, <2>10, <3>1, <4>1
      <4>2. CASE j # k
        BY <1>0, <2>3, <2>9, <3>1, <4>2 DEF NoGap
      <4> QED BY <4>1, <4>2
    <3>2. ASSUME NEW q \in Requests, Counted(q)', NEW c \in 1..req'[q].count
          PROVE  Later(req'[q].key, req'[q].resetAt, c)
      <4>1. CASE q = r
        BY <2>1, <2>10, <3>2, <4>1
      <4>2. CASE q # r
        <5>1. req'[q] = req[q] /\ Counted(q)
          BY <2>1, <2>2, <3>2, <4>2
        <5>2. Given(req[q].key, req[q].resetAt, c)
          BY <1>0, <3>2, <5>1 DEF NoGap
        <5> QED BY <2>9, <5>1, <5>2
      <4> QED BY <4>1, <4>2
    <3> QED BY <3>1, <3>2 DEF NoGap, Given, Later
  <2> QED BY <2>4, <2>5, <2>6, <2>8, <2>11 DEF IInv
<1>5. CASE UNCHANGED vars
  BY <1>0, <1>1, <1>5 DEF vars, Counted, TypeOK
<1> QED BY <1>2, <1>3, <1>4, <1>5 DEF Next

-----------------------------------------------------------------------------
\* There are Max numbers.
LEMMA OneToMax == IsFiniteSet(1..Max) /\ Cardinality(1..Max) = Max
BY FS_Interval, MaxAssumption

\* The requests of a window that were let through carry different numbers
\* between 1 and Max.
LEMMA AdmittedAreNumbered ==
  ASSUME IInv, NEW k \in Keys, NEW w
  PROVE  /\ [r \in AdmittedIn(k, w) |-> req[r].count] \in Injection(AdmittedIn(k, w), 1..Max)
         /\ IsFiniteSet(AdmittedIn(k, w))
         /\ Cardinality(AdmittedIn(k, w)) <= Max
<1> DEFINE A == AdmittedIn(k, w)
           number == [r \in A |-> req[r].count]
<1>1. \A r \in A : r \in Requests /\ Counted(r) /\ req[r].key = k /\ req[r].resetAt = w
                  /\ req[r].count \in 1..Max
  <2> TAKE r \in A
  <2>1. r \in Requests /\ Counted(r) /\ req[r].key = k /\ req[r].resetAt = w
        /\ req[r].count <= Max
    BY DEF AdmittedIn, InWindow, Admitted
  <2>2. req[r].count \in Nat /\ req[r].count >= 1
    BY <2>1 DEF IInv, TypeOK, MapIsLast
  <2> QED BY <2>1, <2>2, MaxAssumption
<1>2. \A r, q \in A : number[r] = number[q] => r = q
  BY <1>1 DEF IInv, NoRepetition
<1>3. number \in Injection(A, 1..Max)
  BY <1>1, <1>2 DEF Injection, IsInjective
<1> HIDE DEF A, number
<1>5. IsFiniteSet(A) /\ Cardinality(A) <= Max
  BY <1>3, OneToMax, FS_Injection
<1> QED BY <1>3, <1>5 DEF A, number

\* The inductive invariant of the limiter.
THEOREM Invariance == Spec => []IInv
BY InitIInv, StepIInv, PTL DEF Spec

\* Type correctness, and every request is counted in a window that is open.
THEOREM TypeCorrect == Spec => []TypeOK
<1>1. IInv => TypeOK
  BY DEF IInv
<1> QED BY <1>1, Invariance, PTL

\* However many requests are concurrent, and whatever the limit and the window,
\* no key gets more than `max` requests through per window.
THEOREM LimitHolds == Spec => []AtMostMaxPerWindow
<1>1. IInv => AtMostMaxPerWindow
  BY AdmittedAreNumbered DEF AtMostMaxPerWindow
<1> QED BY <1>1, Invariance, PTL

\* A 429 is answered only on a count above the limit.
LEMMA RefusedAreOver == Spec => []RefusedIsOver
<1>1. Init => RefusedIsOver
  BY DEF Init, RefusedIsOver
<1>2. ASSUME IInv, RefusedIsOver, [Next]_vars PROVE RefusedIsOver'
  <2>0. req \in [Requests -> [phase : Phases, key : Keys, count : Nat,
                             resetAt : Nat, at : Nat]]
    BY <1>2 DEF IInv, TypeOK
  <2>1. CASE Tick \/ UNCHANGED vars
    BY <1>2, <2>1 DEF Tick, vars, RefusedIsOver
  <2>2. ASSUME NEW r \in Requests, Increment(r) PROVE RefusedIsOver'
    BY <1>2, <2>0, <2>2 DEF Increment, RefusedIsOver
  <2>3. ASSUME NEW r \in Requests, Respond(r) PROVE RefusedIsOver'
    BY <1>2, <2>0, <2>3, MaxAssumption DEF Respond, Admitted, RefusedIsOver
  <2> QED BY <1>2, <2>1, <2>2, <2>3 DEF Next
<1> QED BY <1>1, <1>2, Invariance, PTL DEF Spec

\* A request is refused only when exactly `max` others were let through in the
\* window it was counted in.
THEOREM RefusalIsEarned == Spec => []RefusedOnlyWhenFull
<1>1. ASSUME IInv, RefusedIsOver PROVE RefusedOnlyWhenFull
  <2> SUFFICES ASSUME NEW r \in Requests, req[r].phase = "refused"
               PROVE  Cardinality(AdmittedIn(req[r].key, req[r].resetAt)) = Max
    BY DEF RefusedOnlyWhenFull
  <2>k. PICK k : k = req[r].key
    OBVIOUS
  <2>w. PICK w : w = req[r].resetAt
    OBVIOUS
  <2> DEFINE A == AdmittedIn(k, w)
             number == [q \in A |-> req[q].count]
  <2>1. Counted(r) /\ k \in Keys /\ req[r].count \in Nat /\ req[r].count > Max
    BY <1>1, <2>k DEF IInv, TypeOK, RefusedIsOver, Counted
  <2>2. ASSUME NEW c \in 1..Max PROVE \E q \in A : number[q] = c
    <3>1. c \in 1..req[r].count /\ c <= Max
      BY <2>1, MaxAssumption
    <3>2. PICK q \in Requests : /\ Counted(q) /\ req[q].key = k
                                /\ req[q].resetAt = w /\ req[q].count = c
      BY <1>1, <2>k, <2>w, <2>1, <3>1 DEF IInv, NoGap, Given
    <3>3. q \in A
      BY <3>1, <3>2 DEF AdmittedIn, InWindow, Admitted
    <3> QED BY <3>2, <3>3
  <2>3. number \in Injection(A, 1..Max)
    BY <1>1, <2>1, AdmittedAreNumbered
  <2>4. number \in Surjection(A, 1..Max)
    BY <2>2, <2>3 DEF Injection, Surjection
  <2> HIDE DEF A, number
  <2>6. Cardinality(A) = Max
    BY <2>3, <2>4, OneToMax, FS_Injection
  <2> QED BY <2>k, <2>w, <2>6 DEF A
<1> QED BY <1>1, Invariance, RefusedAreOver, PTL

-----------------------------------------------------------------------------
\* The first request of a window opens it.
FirstOpens ==
  \A r \in Requests : Counted(r) /\ req[r].count = 1 => req[r].resetAt = req[r].at + Window

\* Windows of a key follow one another.
Apart ==
  \A r, q \in Requests :
    /\ Counted(r) /\ Counted(q) /\ req[r].key = req[q].key
    /\ req[r].resetAt < req[q].resetAt
    => req[r].resetAt + Window <= req[q].resetAt

\* A request is counted in the window that is open, or in one that begins now.
LEMMA OpenOrBegun ==
  ASSUME IInv, NEW k \in Keys, NEW e, e = Incremented(k)
  PROVE  \/ e.count = 1 /\ e.resetAt = now + Window /\ map[k].resetAt <= now
         \/ e.count > 1 /\ e.resetAt = map[k].resetAt /\ map[k].count >= 1
<1>1. map \in [Keys -> [count : Nat, resetAt : Nat]] /\ now \in Nat
  BY MaxTimeAssumption DEF IInv, TypeOK
<1>2. CASE map[k].count = 0 \/ map[k].resetAt <= now
  BY <1>1, <1>2 DEF Incremented, IInv, EmptyIsFresh
<1>3. CASE ~(map[k].count = 0 \/ map[k].resetAt <= now)
  BY <1>1, <1>3 DEF Incremented
<1> QED BY <1>2, <1>3

\* No step lets two windows of a key overlap.
LEMMA WindowsFollow == Spec => [](FirstOpens /\ Apart)
<1>1. Init => FirstOpens /\ Apart
  BY DEF Init, FirstOpens, Apart, Counted
<1>2. ASSUME IInv, FirstOpens, Apart, [Next]_vars PROVE FirstOpens' /\ Apart'
  <2>0. /\ now \in Nat /\ map \in [Keys -> [count : Nat, resetAt : Nat]]
        /\ req \in [Requests -> [phase : Phases, key : Keys, count : Nat,
                                 resetAt : Nat, at : Nat]]
    BY <1>2, MaxTimeAssumption DEF IInv, TypeOK
  <2>1. CASE Tick \/ UNCHANGED vars
    BY <1>2, <2>1 DEF Tick, vars, FirstOpens, Apart, Counted
  <2>2. ASSUME NEW r \in Requests, Respond(r) PROVE FirstOpens' /\ Apart'
    <3>1. \A q \in Requests :
            /\ Counted(q)' <=> Counted(q)
            /\ req'[q].key = req[q].key /\ req'[q].count = req[q].count
            /\ req'[q].resetAt = req[q].resetAt /\ req'[q].at = req[q].at
      BY <2>0, <2>2 DEF Respond, Counted
    <3> QED BY <1>2, <3>1 DEF FirstOpens, Apart
  <2>3. ASSUME NEW r \in Requests, Increment(r) PROVE FirstOpens' /\ Apart'
    <3>k. PICK k : k = req[r].key
      OBVIOUS
    <3>e. PICK e : e = Incremented(k)
      OBVIOUS
    <3>1. /\ k \in Keys /\ ~Counted(r)
          /\ e \in [count : Nat, resetAt : Nat] /\ e.count >= 1
          /\ \A q \in Requests : q # r => req'[q] = req[q]
          /\ req'[r].key = k /\ req'[r].count = e.count
          /\ req'[r].resetAt = e.resetAt /\ req'[r].at = now
      BY <1>2, <2>3, <3>k, <3>e, IncrementEffect
    <3>2. \A q \in Requests : q # r => (Counted(q)' <=> Counted(q))
      BY <3>1 DEF Counted
    <3>3. \/ e.count = 1 /\ e.resetAt = now + Window /\ map[k].resetAt <= now
          \/ e.count > 1 /\ e.resetAt = map[k].resetAt /\ map[k].count >= 1
      BY <1>2, <3>1, <3>e, OpenOrBegun
    <3>4. FirstOpens'
      BY <1>2, <3>1, <3>2, <3>3 DEF FirstOpens
    <3>5. ASSUME NEW q \in Requests, q # r, Counted(q), req[q].key = k
          PROVE  /\ req[q].resetAt = e.resetAt \/ req[q].resetAt + Window <= e.resetAt
                 /\ req[q].resetAt \in Nat
      <4>1. req[q].resetAt <= map[k].resetAt /\ req[q].resetAt \in Nat
        BY <1>2, <2>0, <3>5 DEF IInv, MapIsLast
      <4>2. CASE e.resetAt = now + Window /\ map[k].resetAt <= now
        BY <2>0, <3>1, <4>1, <4>2, WindowAssumption
      <4>3. CASE e.resetAt = map[k].resetAt /\ map[k].count >= 1
        <5>1. 1 \in 1..map[k].count
          BY <2>0, <3>1, <4>3
        <5>2. PICK p \in Requests : /\ Counted(p) /\ req[p].key = k
                                    /\ req[p].resetAt = map[k].resetAt
          BY <1>2, <3>1, <5>1 DEF IInv, NoGap, Given
        <5>3. req[q].resetAt < req[p].resetAt
                => req[q].resetAt + Window <= req[p].resetAt
          BY <1>2, <3>5, <5>2 DEF Apart
        <5>4. req[p].resetAt = e.resetAt /\ map[k].resetAt = e.resetAt /\ e.resetAt \in Nat
          BY <3>1, <4>3, <5>2
        <5> QED BY <4>1, <5>3, <5>4
      <4> QED BY <3>3, <4>1, <4>2, <4>3
    <3>6. Apart'
      <4> SUFFICES ASSUME NEW p \in Requests, NEW q \in Requests,
                          Counted(p)', Counted(q)', req'[p].key = req'[q].key,
                          req'[p].resetAt < req'[q].resetAt
                   PROVE  req'[p].resetAt + Window <= req'[q].resetAt
        BY DEF Apart
      <4>1. CASE p # r /\ q # r
        BY <1>2, <3>1, <3>2, <4>1 DEF Apart
      <4>2. CASE p # r /\ q = r
        <5>1. req'[p] = req[p] /\ Counted(p) /\ req[p].key = k
          BY <3>1, <3>2, <4>2
        <5> QED BY <3>1, <3>5, <4>2, <5>1
      <4>3. CASE p = r /\ q # r
        \* No window is newer than the one a request is counted in.
        <5>1. req'[q] = req[q] /\ Counted(q) /\ req[q].key = k
          BY <3>1, <3>2, <4>3
        <5> QED BY <3>1, <3>5, <4>3, <5>1, WindowAssumption
      <4> QED BY <3>1, <4>1, <4>2, <4>3
    <3> QED BY <3>4, <3>6
  <2> QED BY <1>2, <2>1, <2>2, <2>3 DEF Next
<1> QED BY <1>1, <1>2, Invariance, PTL DEF Spec

\* The bound on any interval as long as a window: it meets at most two windows of
\* a key, and when it meets two, it misses the request that opened the first.
LEMMA IntervalBound == IInv /\ FirstOpens /\ Apart => FewerThanTwiceMaxPerInterval
<1> SUFFICES ASSUME IInv, FirstOpens, Apart, NEW k \in Keys, NEW t \in 0..MaxTime
             PROVE  Cardinality({r \in Requests :
                                  /\ Counted(r) /\ Admitted(r) /\ req[r].key = k
                                  /\ req[r].at \in t..(t + Window - 1)})
                      <= IF Max = 0 THEN 0 ELSE 2 * Max - 1
  BY DEF FewerThanTwiceMaxPerInterval
<1> DEFINE A == {r \in Requests : /\ Counted(r) /\ Admitted(r) /\ req[r].key = k
                                  /\ req[r].at \in t..(t + Window - 1)}
<1>1. t \in Nat /\ Window \in Nat \ {0} /\ Max \in Nat
  BY MaxTimeAssumption, WindowAssumption, MaxAssumption
<1>2. ASSUME NEW r \in Requests, Counted(r)
      PROVE  /\ req[r].resetAt \in Nat /\ req[r].at \in Nat /\ req[r].count \in Nat
             /\ req[r].count >= 1 /\ req[r].at < req[r].resetAt
             /\ req[r].resetAt <= req[r].at + Window
  BY <1>2 DEF IInv, TypeOK, MapIsLast
<1>3. \A r \in A : /\ r \in Requests /\ Counted(r) /\ req[r].key = k
                   /\ r \in AdmittedIn(k, req[r].resetAt)
                   /\ t <= req[r].at /\ req[r].at <= t + Window - 1
  BY <1>1, <1>2 DEF AdmittedIn, InWindow
<1>4. \A w : IsFiniteSet(AdmittedIn(k, w)) /\ Cardinality(AdmittedIn(k, w)) <= Max
             /\ Cardinality(AdmittedIn(k, w)) \in Nat
  BY AdmittedAreNumbered, FS_CardinalityType
<1>5. CASE Max = 0
  <2>1. A = {}
    BY <1>1, <1>2, <1>5 DEF Admitted
  <2> QED BY <1>5, <2>1, FS_EmptySet
<1>6. CASE Max # 0 /\ \E w : A \subseteq AdmittedIn(k, w)
  <2>1. PICK w : A \subseteq AdmittedIn(k, w)
    BY <1>6
  <2> HIDE DEF A
  <2>2. Cardinality(A) <= Cardinality(AdmittedIn(k, w)) /\ IsFiniteSet(A)
    BY <1>4, <2>1, FS_Subset
  <2>3. Cardinality(A) \in Nat
    BY <2>2, FS_CardinalityType
  <2> QED BY <1>1, <1>4, <1>6, <2>2, <2>3 DEF A
<1>7. CASE Max # 0 /\ ~\E w : A \subseteq AdmittedIn(k, w)
  <2>1. PICK a \in A : TRUE
    BY <1>7
  <2>2. PICK b \in A : req[b].resetAt # req[a].resetAt
    BY <1>3, <1>7
  <2>3. PICK p \in A, q \in A : req[p].resetAt < req[q].resetAt
    <3>1. req[a].resetAt \in Nat /\ req[b].resetAt \in Nat
      BY <1>2, <1>3
    <3> QED BY <2>1, <2>2, <3>1
  <2>4. /\ req[p].resetAt \in Nat /\ req[q].resetAt \in Nat
        /\ req[p].at \in Nat /\ req[q].at \in Nat
        /\ req[p].resetAt + Window <= req[q].resetAt
    BY <1>2, <1>3, <2>3 DEF Apart
  <2>5. ASSUME NEW s \in A
        PROVE  req[s].resetAt = req[p].resetAt \/ req[s].resetAt = req[q].resetAt
    <3>1. /\ s \in Requests /\ p \in Requests /\ q \in Requests
          /\ Counted(s) /\ Counted(p) /\ Counted(q)
          /\ req[s].key = k /\ req[p].key = k /\ req[q].key = k
      BY <1>3
    <3>2. /\ req[s].resetAt < req[p].resetAt => req[s].resetAt + Window <= req[p].resetAt
          /\ req[p].resetAt < req[s].resetAt => req[p].resetAt + Window <= req[s].resetAt
          /\ req[q].resetAt < req[s].resetAt => req[q].resetAt + Window <= req[s].resetAt
          /\ req[s].resetAt < req[q].resetAt => req[s].resetAt + Window <= req[q].resetAt
      BY <3>1 DEF Apart
    <3>3. /\ t <= req[s].at /\ req[s].at <= t + Window - 1
          /\ t <= req[p].at /\ req[p].at <= t + Window - 1
          /\ t <= req[q].at /\ req[q].at <= t + Window - 1
      BY <1>3
    <3>4. /\ req[s].resetAt \in Nat /\ req[s].at \in Nat
          /\ req[s].at < req[s].resetAt /\ req[s].resetAt <= req[s].at + Window
          /\ req[p].at < req[p].resetAt /\ req[p].resetAt <= req[p].at + Window
          /\ req[q].at < req[q].resetAt /\ req[q].resetAt <= req[q].at + Window
      BY <1>2, <3>1
    <3> QED BY <1>1, <2>4, <3>2, <3>3, <3>4
  \* The request that opened the first window was made before the interval.
  <2>6. PICK o \in Requests : /\ Counted(o) /\ req[o].key = k /\ req[o].count = 1
                             /\ req[o].resetAt = req[p].resetAt
    <3>1. 1 \in 1..req[p].count /\ p \in Requests /\ Counted(p) /\ req[p].key = k
      BY <1>2, <1>3
    <3> QED BY <3>1 DEF IInv, NoGap, Given
  <2>7. o \in AdmittedIn(k, req[p].resetAt)
    BY <1>1, <1>7, <2>6 DEF AdmittedIn, InWindow, Admitted
  <2>8. o \notin A
    <3>1. req[o].resetAt = req[o].at + Window /\ req[o].at \in Nat
      BY <1>2, <2>6 DEF FirstOpens
    <3>2. req[q].resetAt <= req[q].at + Window /\ req[q].at <= t + Window - 1
      BY <1>2, <1>3
    <3>3. req[o].at < t
      BY <1>1, <2>4, <2>6, <3>1, <3>2
    <3> QED BY <1>1, <3>1, <3>3
  <2> DEFINE Whole == AdmittedIn(k, req[p].resetAt)
             First == Whole \ {o}
             Second == AdmittedIn(k, req[q].resetAt)
  <2>9. A \subseteq First \cup Second
    <3> SUFFICES ASSUME NEW s \in A PROVE s \in First \cup Second
      OBVIOUS
    <3>1. s \in AdmittedIn(k, req[s].resetAt)
      BY <1>3
    <3>2. s # o
      BY <2>8
    <3> QED BY <2>5, <3>1, <3>2
  <2>10. IsFiniteSet(First) /\ Cardinality(First) = Cardinality(Whole) - 1
    <3>1. IsFiniteSet(Whole) /\ o \in Whole
      BY <1>4, <2>7
    <3> HIDE DEF Whole
    <3> QED BY <3>1, FS_RemoveElement
  <2>11. IsFiniteSet(Second) /\ Cardinality(Second) <= Max /\ Cardinality(Second) \in Nat
    BY <1>4
  <2>12. Cardinality(First) <= Max - 1 /\ Cardinality(First) \in Nat
    BY <1>1, <1>4, <2>10, FS_CardinalityType
  <2> HIDE DEF A, First, Second
  <2>13. /\ IsFiniteSet(First \cup Second)
         /\ Cardinality(First \cup Second)
              = Cardinality(First) + Cardinality(Second) - Cardinality(First \cap Second)
    BY <2>10, <2>11, FS_Union
  <2>14. Cardinality(First \cap Second) \in Nat
    <3>1. IsFiniteSet(First \cap Second)
      BY <2>10, FS_Intersection
    <3> QED BY <3>1, FS_CardinalityType
  <2>15. Cardinality(A) <= Cardinality(First \cup Second) /\ IsFiniteSet(A)
    BY <2>9, <2>13, FS_Subset
  <2>16. Cardinality(A) \in Nat /\ Cardinality(First \cup Second) \in Nat
    BY <2>13, <2>15, FS_CardinalityType
  <2>17. Cardinality(A) <= 2 * Max - 1
    BY <1>1, <2>11, <2>12, <2>13, <2>14, <2>15, <2>16
  <2> QED BY <1>7, <2>17 DEF A
<1> QED BY <1>5, <1>6, <1>7

\* In no interval as long as a window do twice `max` requests of a key pass.
THEOREM BurstIsBounded == Spec => []FewerThanTwiceMaxPerInterval
BY IntervalBound, WindowsFollow, Invariance, PTL

-----------------------------------------------------------------------------
\* The Map, the requests and their responses implement the limiter that grants
\* and refuses in one step (RateWindow): increment() is its Open, Grant or
\* Refuse, and the response that follows is a stutter.
THEOREM Implements == Spec => PromiseKept
<1>1. Init => Promise!Init
  <2> SUFFICES ASSUME Init PROVE Promise!Init
    OBVIOUS
  <2>1. \A k \in Keys : map[k].count = 0 /\ map[k].resetAt = 0
    BY DEF Init, NoEntry
  <2>2. \A r \in Requests : Verdict(r) = "none"
    BY DEF Init, Verdict, Counted
  <2> QED BY <2>1, <2>2, MaxAssumption DEF Init, Promise!Init, Ends, Granted, Verdicts
<1>2. ASSUME IInv, [Next]_vars PROVE [Promise!Next]_(Promise!vars)
  <2>0. /\ now \in Nat /\ map \in [Keys -> [count : Nat, resetAt : Nat]]
        /\ req \in [Requests -> [phase : Phases, key : Keys, count : Nat,
                                 resetAt : Nat, at : Nat]]
    BY <1>2, MaxTimeAssumption DEF IInv, TypeOK
  <2>1. CASE Tick
    <3>1. now' = now + 1 /\ map' = map /\ \A r \in Requests : Verdict(r)' = Verdict(r)
      BY <2>1 DEF Tick, Verdict, Counted, Admitted
    <3> QED BY <3>1 DEF Promise!Next, Promise!Tick, Ends, Granted, Verdicts
  <2>2. ASSUME NEW r \in Requests, Respond(r) PROVE UNCHANGED Promise!vars
    <3>1. /\ now' = now /\ map' = map
          /\ \A q \in Requests : Verdict(q)' = Verdict(q)
      BY <2>0, <2>2 DEF Respond, Verdict, Counted, Admitted
    <3> QED BY <3>1 DEF Promise!vars, Ends, Granted, Verdicts
  <2>3. ASSUME NEW r \in Requests, Increment(r) PROVE Promise!Next
    <3>k. PICK k : k = req[r].key
      OBVIOUS
    <3>e. PICK e : e = Incremented(k)
      OBVIOUS
    <3> DEFINE new == IF e.count <= Max THEN "granted" ELSE "refused"
               capped == IF e.count <= Max THEN e.count ELSE Max
    <3>1. /\ k \in Keys /\ ~Counted(r) /\ now' = now
          /\ e \in [count : Nat, resetAt : Nat] /\ e.count >= 1
          /\ map' = [map EXCEPT ![k] = e] /\ map'[k] = e
          /\ \A q \in Requests : q # r => req'[q] = req[q]
          /\ Counted(r)' /\ req'[r].count = e.count
      BY <1>2, <2>3, <3>k, <3>e, IncrementEffect
    <3>2. Verdicts[r] = "none" /\ Verdicts' = [Verdicts EXCEPT ![r] = new]
      <4>1. Verdict(r) = "none" /\ Verdict(r)' = new
        BY <3>1 DEF Verdict, Admitted
      <4>2. \A q \in Requests : q # r => Verdict(q)' = Verdict(q)
        BY <3>1 DEF Verdict, Admitted, Counted
      <4> QED BY <4>1, <4>2 DEF Verdicts
    <3>3. Ends' = [Ends EXCEPT ![k] = e.resetAt] /\ Ends \in [Keys -> Nat]
      BY <2>0, <3>1 DEF Ends
    <3>4. Granted' = [Granted EXCEPT ![k] = capped]
      BY <2>0, <3>1 DEF Granted
    <3>5. /\ Ends[k] = map[k].resetAt /\ Granted \in [Keys -> Nat]
          /\ Granted[k] = IF map[k].count <= Max THEN map[k].count ELSE Max
      BY <2>0, <3>1, MaxAssumption DEF Ends, Granted
    <3>6. CASE map[k].resetAt <= now
      <4>1. e = [count |-> 1, resetAt |-> now + Window]
        BY <3>e, <3>6 DEF Incremented
      <4>2. /\ Ends[k] <= now /\ Ends' = [Ends EXCEPT ![k] = now + Window]
        BY <3>3, <3>5, <3>6, <4>1
      <4>3. IF Max > 0 THEN capped = 1 /\ new = "granted"
                       ELSE capped = 0 /\ new = "refused"
        BY <4>1, MaxAssumption
      <4> HIDE DEF capped, new
      <4>4. Promise!Open(r, k)
        BY <3>1, <3>2, <3>4, <4>2, <4>3 DEF Promise!Open
      <4> QED BY <3>1, <4>4 DEF Promise!Next
    <3>7. CASE map[k].resetAt > now
      <4>0. map[k].count # 0
        BY <1>2, <2>0, <3>1, <3>7 DEF IInv, EmptyIsFresh
      <4>1. e.count = map[k].count + 1 /\ e.resetAt = map[k].resetAt
        BY <2>0, <3>1, <3>e, <3>7, <4>0 DEF Incremented
      <4>2. Ends' = Ends
        BY <2>0, <3>1, <3>3, <3>5, <4>1
      <4>3. CASE map[k].count < Max
        <5>1. Granted[k] = map[k].count /\ Granted[k] < Max
              /\ capped = Granted[k] + 1 /\ new = "granted"
          BY <2>0, <3>1, <3>5, <4>1, <4>3, MaxAssumption
        <5> HIDE DEF capped, new
        <5>2. Promise!Grant(r, k)
          BY <3>1, <3>2, <3>4, <3>5, <3>7, <4>2, <5>1 DEF Promise!Grant
        <5> QED BY <3>1, <5>2 DEF Promise!Next
      <4>4. CASE map[k].count >= Max
        <5>1. Granted[k] = Max /\ capped = Max /\ new = "refused"
          <6>1. map[k].count \in Nat /\ e.count \in Nat
            BY <2>0, <3>1
          <6>2. ~(e.count <= Max)
            BY <4>1, <4>4, <6>1, MaxAssumption
          <6>3. map[k].count <= Max => map[k].count = Max
            BY <4>4, <6>1, MaxAssumption
          <6>4. Granted[k] = Max
            BY <3>5, <6>3
          <6> QED BY <6>2, <6>4
        <5> HIDE DEF capped, new
        <5>2. Granted' = Granted
          BY <3>4, <3>5, <5>1
        <5>3. Promise!Refuse(r, k)
          BY <3>1, <3>2, <3>5, <3>7, <4>2, <5>1, <5>2 DEF Promise!Refuse
        <5> QED BY <3>1, <5>3 DEF Promise!Next
      <4> QED BY <2>0, <3>1, <4>3, <4>4, MaxAssumption
    <3> QED BY <2>0, <3>1, <3>6, <3>7
  <2>4. CASE UNCHANGED vars
    BY <2>4 DEF vars, Promise!vars, Verdict, Counted, Admitted, Ends, Granted, Verdicts
  <2> QED BY <1>2, <2>1, <2>2, <2>3, <2>4 DEF Next
<1> QED BY <1>1, <1>2, Invariance, PTL DEF Spec, PromiseKept, Promise!Spec

-----------------------------------------------------------------------------
(* The client.  What a call remembers is in step with the requests it made, *)
(* and an answer on its way tells what became of its request.               *)

SettingsOf(c) == {Settings(form, given) : form \in Forms[c], given \in Configured}

Fields == {"phase", "attempt", "until", "result", "recorded", "with"}
Shaped(c) == call[c] = [f \in Fields |-> call[c][f]]

InStep(c) ==
  LET made == call[c].with
      n == call[c].attempt
  IN /\ made \in SettingsOf(c)
     /\ call[c].phase \in {"sent", "pausing", "resolved", "rejected"}
     /\ n \in 0..made.retries.max + 1
     /\ n = 0 => call[c].phase = "rejected" /\ call[c].result = "auth"
     /\ call[c].phase = "pausing" => n <= made.retries.max
     /\ call[c].recorded = IF made.metrics
                           THEN (IF call[c].phase = "sent" THEN n - 1 ELSE n) ELSE 0
     /\ call[c].phase = "resolved" => req[Last(c)].phase = "served"
     /\ call[c].phase = "rejected" =>
          /\ call[c].result \in made.retries.on => n = made.retries.max + 1
          /\ call[c].result = "limited" => req[Last(c)].phase = "refused"
          /\ call[c].result = "wrong" => req[Last(c)].phase = "served"

Told ==
  \A a \in answers :
    /\ a.to \in Requests
    /\ a.says \in {"ok", "limited", "failing", "wrong", "odd"}
    /\ a.says = "limited" => req[a.to].phase = "refused"
    /\ a.says \in {"ok", "wrong", "odd"} => req[a.to].phase = "served"

ClientInv ==
  /\ IInv
  /\ options \in Configured
  /\ call = [c \in Calls |-> call[c]]
  /\ \A c \in Calls : Shaped(c) /\ (call[c] = Idle \/ InStep(c))
  /\ Told

\* What the assumption says of the settings a call may have.
LEMMA SettingsBound ==
  ASSUME NEW c \in Calls, NEW s \in SettingsOf(c)
  PROVE  /\ s.retries.max \in Nat /\ s.retries.on \subseteq Failures
         /\ s.retries.max + 1 \in 1..MostRetries + 1 /\ s.metrics \in BOOLEAN
<1>1. PICK form \in Forms[c], given \in Configured : s = Settings(form, given)
  BY DEF SettingsOf
<1> HIDE DEF SettingsOf
<1> QED BY <1>1, SettingsAssumption, MostRetriesAssumption

\* How an attempt that told `result` ends its call, if it does.
LEMMA EndsInStep ==
  ASSUME ClientInv, NEW c \in Calls, call[c].phase = "sent",
         NEW result \in Failures \cup {"ok"}, AttemptEnds(c, result), UNCHANGED vars,
         result = "limited" => req[Last(c)].phase = "refused",
         result \in {"ok", "wrong"} => req[Last(c)].phase = "served"
  PROVE  /\ call' = [d \in Calls |-> call'[d]]
         /\ \A d \in Calls : Shaped(d)' /\ (call'[d] = Idle \/ InStep(d)')
<1> DEFINE made == call[c].with
           n == call[c].attempt
           counted == IF made.metrics THEN call[c].recorded + 1 ELSE call[c].recorded
<1>1. Shaped(c) /\ InStep(c) /\ call = [d \in Calls |-> call[d]]
  BY DEF ClientInv, Idle
<1>2. /\ made.retries.max \in Nat /\ made.retries.on \subseteq Failures
      /\ n \in Nat /\ made.metrics \in BOOLEAN
  BY <1>1, SettingsBound DEF InStep
<1>3. PICK next \in After(Recorded(c), result) : call' = [call EXCEPT ![c] = next]
  BY DEF AttemptEnds
<1>4. /\ Recorded(c) = [f \in Fields |-> Recorded(c)[f]]
      /\ Recorded(c).phase = "sent" /\ Recorded(c).attempt = n
      /\ Recorded(c).recorded = counted /\ Recorded(c).with = made
  <2>1. Recorded(c) = [call[c] EXCEPT !.recorded = counted]
    BY DEF Recorded
  <2> HIDE DEF counted
  <2> QED BY <1>1, <2>1 DEF Shaped, Fields
<1>5. /\ next = [f \in Fields |-> next[f]]
      /\ next.attempt = n /\ next.recorded = counted /\ next.with = made
      /\ \/ next.phase = "pausing" /\ n <= made.retries.max
         \/ /\ next.phase = IF result = "ok" THEN "resolved" ELSE "rejected"
            /\ next.result = result
            /\ result \in made.retries.on => n > made.retries.max
         \/ next.phase = "rejected" /\ next.result = "callback"
  <2>e. PICK ended : ended = Recorded(c)
    OBVIOUS
  <2>d. PICK delayed : delayed = now + RetryDelay(made.retries, n)
    OBVIOUS
  <2> HIDE DEF made, n, counted
  <2>1. /\ ended = [f \in Fields |-> ended[f]] /\ ended.attempt = n
        /\ ended.recorded = counted /\ ended.with = made
    BY <1>4, <2>e
  <2>2. next \in IF result \in made.retries.on /\ n <= made.retries.max
                THEN {[ended EXCEPT !.phase = "pausing", !.until = delayed],
                      Settled(ended, "callback")}
                ELSE {Settled(ended, result)}
    <3>1. next \in After(ended, result)
      BY <1>3, <2>e
    <3>2. now + RetryDelay(ended.with.retries, ended.attempt) = delayed
      BY <2>1, <2>d
    <3> QED BY <2>1, <3>1, <3>2 DEF After
  <2>3. ASSUME NEW f
        PROVE  LET s == Settled(ended, f)
               IN /\ s = [g \in Fields |-> s[g]]
                  /\ s.attempt = n /\ s.recorded = counted /\ s.with = made
                  /\ s.phase = IF f = "ok" THEN "resolved" ELSE "rejected"
                  /\ s.result = f
    <3>1. PICK ph : ph = IF f = "ok" THEN "resolved" ELSE "rejected"
      OBVIOUS
    <3>2. PICK s1 : s1 = [ended EXCEPT !.phase = ph]
      OBVIOUS
    <3>3. PICK s2 : s2 = [s1 EXCEPT !.until = 0]
      OBVIOUS
    <3>4. PICK s3 : s3 = [s2 EXCEPT !.result = f]
      OBVIOUS
    <3>5. /\ s1 = [g \in Fields |-> s1[g]] /\ s1.attempt = n /\ s1.recorded = counted
          /\ s1.with = made /\ s1.phase = ph
      BY <2>1, <3>2 DEF Fields
    <3>6. /\ s2 = [g \in Fields |-> s2[g]] /\ s2.attempt = n /\ s2.recorded = counted
          /\ s2.with = made /\ s2.phase = ph
      BY <3>3, <3>5 DEF Fields
    <3>7. /\ s3 = [g \in Fields |-> s3[g]] /\ s3.attempt = n /\ s3.recorded = counted
          /\ s3.with = made /\ s3.phase = ph /\ s3.result = f
      BY <3>4, <3>6 DEF Fields
    <3>8. Settled(ended, f) = s3
      BY <3>1, <3>2, <3>3, <3>4, Zenon DEF Settled
    <3> QED BY <3>1, <3>7, <3>8, Zenon
  <2>4. LET s == [ended EXCEPT !.phase = "pausing", !.until = delayed]
        IN /\ s = [g \in Fields |-> s[g]]
           /\ s.attempt = n /\ s.recorded = counted /\ s.with = made
           /\ s.phase = "pausing"
    BY <2>1 DEF Fields
  <2>5. CASE result \in made.retries.on /\ n <= made.retries.max
    <3>1. CASE next = Settled(ended, "callback")
      <4>1. /\ next = [g \in Fields |-> next[g]]
            /\ next.attempt = n /\ next.recorded = counted /\ next.with = made
            /\ next.phase = "rejected" /\ next.result = "callback"
        BY <2>3, <3>1
      <4> QED BY <4>1
    <3>2. CASE next = [ended EXCEPT !.phase = "pausing", !.until = delayed]
      BY <2>4, <2>5, <3>2
    <3> QED BY <2>2, <2>5, <3>1, <3>2
  <2>6. CASE ~(result \in made.retries.on /\ n <= made.retries.max)
    BY <1>2, <2>2, <2>3, <2>6
  <2> QED BY <2>5, <2>6
<1>6. ASSUME NEW d \in Calls, d # c
      PROVE  Shaped(d)' /\ (call'[d] = Idle \/ InStep(d)')
  <2>1. call'[d] = call[d] /\ req' = req
    BY <1>3, <1>6 DEF vars
  <2> QED BY <2>1 DEF ClientInv, Shaped, InStep, Last
<1>7. call'[c] = next /\ call' = [d \in Calls |-> call'[d]] /\ req' = req
  BY <1>1, <1>3 DEF vars
<1>8. counted = IF made.metrics THEN n ELSE 0
  BY <1>1, <1>2 DEF InStep
<1>9. /\ made \in SettingsOf(c) /\ n >= 1 /\ n <= made.retries.max + 1
      /\ Last(c) = <<c, n>> /\ "callback" \notin Failures
  BY <1>1, <1>2 DEF InStep, Last, Failures
<1>10. Shaped(c)' /\ InStep(c)'
  <2> HIDE DEF made, n, counted
  <2>1. Shaped(c)' /\ call'[c].with = made /\ call'[c].attempt = n
        /\ call'[c].recorded = counted
        /\ call'[c].phase \in {"pausing", "resolved", "rejected"}
    BY <1>5, <1>7 DEF Shaped
  <2>2. Last(c)' = <<c, n>>
    BY <2>1 DEF Last
  <2>3. /\ call'[c].phase = "pausing" => n <= made.retries.max
        /\ call'[c].phase = "resolved" => result = "ok"
        /\ call'[c].phase = "rejected" =>
             \/ call'[c].result = "callback"
             \/ /\ call'[c].result = result
                /\ result \in made.retries.on => n > made.retries.max
    BY <1>5, <1>7
  <2> QED BY <1>2, <1>7, <1>8, <1>9, <2>1, <2>2, <2>3 DEF InStep
<1> QED BY <1>6, <1>7, <1>10

\* Every step of the client is one of the rate limiter, or leaves it alone.
LEMMA ClientStepIsStep == [ClientNext]_allVars => [Next]_vars
<1> SUFFICES ASSUME [ClientNext]_allVars PROVE [Next]_vars
  OBVIOUS
<1>1. ASSUME NEW new \in NewOptions, UpdateConfig(new) PROVE UNCHANGED vars
  BY <1>1 DEF UpdateConfig
<1>2. ASSUME NEW c \in Calls, NEW s, Begin(c, s) \/ AuthFails(c, s) PROVE UNCHANGED vars
  BY <1>2 DEF Begin, Attempt, AuthFails
<1>3. ASSUME NEW c \in Calls, Retry(c) \/ ConnectionFails(c) \/ TimesOut(c)
      PROVE  UNCHANGED vars
  BY <1>3 DEF Retry, Attempt, ConnectionFails, TimesOut
<1>4. ASSUME NEW a \in answers, Deliver(a) \/ BodyBreaks(a) PROVE UNCHANGED vars
  BY <1>4 DEF Deliver, BodyBreaks
<1>5. ASSUME NEW r \in Requests, Arrive(r) \/ Answer(r) PROVE Next
  BY <1>5 DEF Arrive, Answer, Next
<1>6. CASE Elapse
  BY <1>6 DEF Elapse, Next
<1>7. CASE UNCHANGED allVars
  BY <1>7 DEF allVars
<1> QED BY <1>1, <1>2, <1>3, <1>4, <1>5, <1>6, <1>7 DEF ClientNext

\* What became of a request does not change.
LEMMA OutcomesStay ==
  ASSUME IInv, [Next]_vars, NEW r \in Requests, req[r].phase \in {"served", "refused"}
  PROVE  req'[r].phase = req[r].phase
<1>1. req \in [Requests -> [phase : Phases, key : Keys, count : Nat, resetAt : Nat,
                           at : Nat]]
  BY DEF IInv, TypeOK
<1>2. ASSUME NEW q \in Requests, Increment(q) \/ Respond(q)
      PROVE  req'[r] = req[r]
  BY <1>1, <1>2 DEF Increment, Respond
<1>3. CASE Tick \/ UNCHANGED vars
  BY <1>3 DEF Tick, vars
<1> QED BY <1>2, <1>3 DEF Next

\* So a call, and the answers on their way, stay in step while the client stands still.
LEMMA StandsStill ==
  ASSUME ClientInv, [Next]_vars, NEW c \in Calls, call'[c] = call[c]
  PROVE  Shaped(c)' /\ (call'[c] = Idle \/ InStep(c)')
<1>1. Shaped(c)' /\ (call[c] = Idle \/ InStep(c)) /\ IInv
  BY DEF ClientInv, Shaped
<1>2. CASE InStep(c)
  <2> DEFINE n == call[c].attempt
  <2>1. /\ n \in 0..call[c].with.retries.max + 1
        /\ call[c].with.retries.max + 1 \in 1..MostRetries + 1
    BY <1>2, SettingsBound DEF InStep
  <2>2. n # 0 => Last(c) \in Requests
    BY <2>1, AttemptsAreRequests, MostRetriesAssumption DEF Last
  <2>3. Last(c)' = Last(c)
    BY DEF Last
  <2>4. /\ n # 0 /\ req[Last(c)].phase = "served" => req'[Last(c)].phase = "served"
        /\ n # 0 /\ req[Last(c)].phase = "refused" => req'[Last(c)].phase = "refused"
    BY <1>1, <2>2, OutcomesStay
  <2>5. /\ n = 0 => call[c].phase = "rejected" /\ call[c].result = "auth"
        /\ call[c].phase = "resolved" => req[Last(c)].phase = "served"
        /\ call[c].phase = "rejected" /\ call[c].result = "limited" =>
             req[Last(c)].phase = "refused"
        /\ call[c].phase = "rejected" /\ call[c].result = "wrong" =>
             req[Last(c)].phase = "served"
    BY <1>2 DEF InStep
  <2>6. /\ call[c].phase = "resolved" => req'[Last(c)].phase = "served"
        /\ call[c].phase = "rejected" /\ call[c].result = "limited" =>
             req'[Last(c)].phase = "refused"
        /\ call[c].phase = "rejected" /\ call[c].result = "wrong" =>
             req'[Last(c)].phase = "served"
    BY <2>4, <2>5
  <2> QED BY <1>1, <1>2, <2>3, <2>6 DEF InStep
<1> QED BY <1>1, <1>2

LEMMA StillTold ==
  ASSUME ClientInv, [Next]_vars, answers' \subseteq answers
  PROVE  Told'
<1>1. \A a \in answers : /\ req[a.to].phase = "served" => req'[a.to].phase = "served"
                         /\ req[a.to].phase = "refused" => req'[a.to].phase = "refused"
  BY OutcomesStay DEF ClientInv, Told
<1> QED BY <1>1 DEF ClientInv, Told

\* Attempt n of a call, made.
Sent(made, n, until) ==
  [made EXCEPT !.phase = "sent", !.attempt = n, !.until = until]

LEMMA SentInStep ==
  ASSUME NEW c \in Calls, call = [d \in Calls |-> call[d]],
         NEW made, NEW n \in Nat, NEW m, m = n + 1, NEW until,
         call' = [call EXCEPT ![c] = Sent(made, m, until)],
         made = [f \in Fields |-> made[f]], made.with \in SettingsOf(c),
         n <= made.with.retries.max,
         made.recorded = IF made.with.metrics THEN n ELSE 0
  PROVE  Shaped(c)' /\ InStep(c)'
<1>2. PICK z1 : z1 = [made EXCEPT !.phase = "sent"]
  OBVIOUS
<1>3. PICK z2 : z2 = [z1 EXCEPT !.attempt = m]
  OBVIOUS
<1>4. PICK z : z = [z2 EXCEPT !.until = until]
  OBVIOUS
<1>5. /\ z1 = [f \in Fields |-> z1[f]] /\ z1.phase = "sent"
      /\ z1.with = made.with /\ z1.recorded = made.recorded
  BY <1>2 DEF Fields
<1>6. /\ z2 = [f \in Fields |-> z2[f]] /\ z2.phase = "sent" /\ z2.attempt = m
      /\ z2.with = made.with /\ z2.recorded = made.recorded
  BY <1>3, <1>5 DEF Fields
<1>7. /\ z = [f \in Fields |-> z[f]] /\ z.phase = "sent" /\ z.attempt = m
      /\ z.with = made.with /\ z.recorded = made.recorded
  BY <1>4, <1>6 DEF Fields
<1>8. call'[c] = z
  <2>1. Sent(made, m, until) = z
    BY <1>2, <1>3, <1>4, Zenon DEF Sent
  <2> QED BY <2>1
<1>9. made.with.retries.max \in Nat
  BY SettingsBound
<1>10. /\ m \in 0..made.with.retries.max + 1 /\ m # 0
       /\ z.recorded = IF made.with.metrics THEN m - 1 ELSE 0
  BY <1>7, <1>9
<1> QED BY <1>7, <1>8, <1>10 DEF Shaped, InStep

LEMMA InitClientInv == ClientInit => ClientInv
<1> SUFFICES ASSUME ClientInit PROVE ClientInv
  OBVIOUS
<1>1. IInv
  BY InitIInv DEF ClientInit
<1>2. \A c \in Calls : call[c] = Idle
  BY DEF ClientInit
<1>3. Idle = [f \in Fields |-> Idle[f]]
  BY DEF Idle, Fields
<1>4. call = [c \in Calls |-> call[c]]
  BY DEF ClientInit
<1>5. options \in Configured /\ Told
  BY DEF ClientInit, Configured, Told
<1>6. \A c \in Calls : Shaped(c)
  BY <1>2, <1>3 DEF Shaped
<1> QED BY <1>1, <1>2, <1>4, <1>5, <1>6 DEF ClientInv

\* What an attempt tells its call, and what of its request that is true of.
LEMMA WhatItTells ==
  ASSUME ClientInv, NEW a \in answers, WaitsFor(a.to),
         NEW method, NEW result \in {Parsed(method, a.says), Unread(a.says)}
  PROVE  /\ a.to[1] \in Calls /\ Last(a.to[1]) = a.to
         /\ result \in Failures \cup {"ok"}
         /\ result = "limited" => req[a.to].phase = "refused"
         /\ result \in {"ok", "wrong"} => req[a.to].phase = "served"
<1>1. /\ a.to \in Requests
      /\ a.says \in {"ok", "limited", "failing", "wrong", "odd"}
      /\ a.says = "limited" => req[a.to].phase = "refused"
      /\ a.says \in {"ok", "wrong", "odd"} => req[a.to].phase = "served"
  BY DEF ClientInv, Told
<1>2. a.to[1] \in Calls /\ Last(a.to[1]) = a.to
  BY <1>1, AttemptsAreRequests DEF Last, WaitsFor
<1>3. Unread(a.says) = CASE a.says = "ok" -> "unread"
                         [] a.says = "odd" -> "wrong"
                         [] OTHER -> a.says
  BY DEF Unread
<1>4. /\ Unread(a.says) \in Failures
      /\ Unread(a.says) = "limited" => a.says = "limited"
      /\ Unread(a.says) = "wrong" => a.says \in {"wrong", "odd"}
  BY <1>1 DEF Unread, Failures
<1>5. Parsed(method, a.says) \in {Unread(a.says), "failing", a.says}
      /\ (Parsed(method, a.says) = "odd" => FALSE)
  BY <1>1, <1>4 DEF Parsed, Failures
<1>6. result \in Failures \cup {"ok"}
  BY <1>1, <1>4, <1>5 DEF Failures
<1>7. result = "limited" => a.says = "limited"
  BY <1>4, <1>5
<1>8. result \in {"ok", "wrong"} => a.says \in {"ok", "wrong", "odd"}
  BY <1>4, <1>5 DEF Failures
<1> QED BY <1>1, <1>2, <1>6, <1>7, <1>8

LEMMA StepClientInv == ClientInv /\ [ClientNext]_allVars => ClientInv'
<1> SUFFICES ASSUME ClientInv, [ClientNext]_allVars PROVE ClientInv'
  OBVIOUS
<1>1. [Next]_vars /\ IInv'
  BY ClientStepIsStep, StepIInv DEF ClientInv
<1>2. /\ options \in Configured /\ call = [c \in Calls |-> call[c]]
      /\ \A c \in Calls : Shaped(c) /\ (call[c] = Idle \/ InStep(c))
      /\ Told
  BY DEF ClientInv
\* A step that changes call c at most.
<1>3. ASSUME NEW c \in Calls, call' = [call EXCEPT ![c] = call'[c]],
             Shaped(c)', call'[c] = Idle \/ InStep(c)',
             options' = options, answers' \subseteq answers
      PROVE  ClientInv'
  <2>1. call' = [d \in Calls |-> call'[d]]
    BY <1>2, <1>3
  <2>2. \A d \in Calls : Shaped(d)' /\ (call'[d] = Idle \/ InStep(d)')
    BY <1>1, <1>2, <1>3, StandsStill
  <2>3. Told'
    BY <1>1, <1>3, StillTold
  <2> QED BY <1>1, <1>2, <1>3, <2>1, <2>2, <2>3 DEF ClientInv
\* A step that leaves the calls alone.
<1>4. ASSUME call' = call, options' \in Configured, Told' PROVE ClientInv'
  <2>1. \A d \in Calls : Shaped(d)' /\ (call'[d] = Idle \/ InStep(d)')
    BY <1>1, <1>4, StandsStill
  <2> QED BY <1>1, <1>2, <1>4, <2>1 DEF ClientInv
<1>5. ASSUME NEW new \in NewOptions, UpdateConfig(new) PROVE ClientInv'
  <2>1. options' \in Configured /\ call' = call /\ answers' = answers
    BY <1>5 DEF UpdateConfig, Configured
  <2> QED BY <1>1, <1>4, <2>1, StillTold
<1>6. ASSUME NEW c \in Calls, NEW form \in Forms[c],
             NEW s, s = Settings(form, OptionsOf(form.via)),
             Begin(c, s) \/ AuthFails(c, s)
      PROVE  ClientInv'
  <2>1. s \in SettingsOf(c)
    BY <1>2, <1>6 DEF SettingsOf, OptionsOf, Configured
  <2>2. call[c].phase = "idle" /\ Shaped(c) /\ call[c] = Idle
    BY <1>2, <1>6 DEF Begin, AuthFails, InStep
  <2>3. PICK made : made = Made(c, s)
    OBVIOUS
  <2>4. /\ made = [f \in Fields |-> made[f]] /\ made.with = s /\ made.recorded = 0
        /\ made.attempt = 0
    BY <2>2, <2>3 DEF Made, Shaped, Fields, Idle
  <2>5. CASE Begin(c, s)
    <3>1. call' = [call EXCEPT ![c] = Sent(made, 1, now + s.timeout)]
          /\ options' = options /\ answers' = answers
      BY <2>3, <2>4, <2>5 DEF Begin, Attempt, Sent
    <3>2. made.recorded = IF made.with.metrics THEN 0 ELSE 0
      BY <2>4
    <3>3. s.retries.max \in Nat
      BY <2>1, SettingsBound
    <3>4. Shaped(c)' /\ InStep(c)'
      BY <1>2, <2>1, <2>4, <3>1, <3>2, <3>3, SentInStep
    <3> QED BY <1>2, <1>3, <3>1, <3>4
  <2>6. CASE AuthFails(c, s)
    <3>1. PICK z : z = [made EXCEPT !.phase = "rejected"]
      OBVIOUS
    <3>2. PICK next : next = [z EXCEPT !.result = "auth"]
      OBVIOUS
    <3>3. /\ z = [f \in Fields |-> z[f]] /\ z.with = s /\ z.recorded = 0
          /\ z.attempt = 0 /\ z.phase = "rejected"
      BY <2>4, <3>1 DEF Fields
    <3>4. /\ next = [f \in Fields |-> next[f]] /\ next.with = s /\ next.recorded = 0
          /\ next.attempt = 0 /\ next.phase = "rejected" /\ next.result = "auth"
      BY <3>2, <3>3 DEF Fields
    <3>5. call' = [call EXCEPT ![c] = next] /\ options' = options /\ answers' = answers
      <4>1. next = [made EXCEPT !.phase = "rejected", !.result = "auth"]
        BY <3>1, <3>2, Zenon
      <4> QED BY <2>3, <2>6, <4>1, Zenon DEF AuthFails
    <3>6. call'[c] = next
      BY <1>2, <3>5
    <3>7. Shaped(c)' /\ InStep(c)'
      BY <2>1, <3>4, <3>6, SettingsBound DEF Shaped, InStep, Failures
    <3> QED BY <1>2, <1>3, <3>5, <3>6, <3>7
  <2> QED BY <1>6, <2>5, <2>6
<1>7. ASSUME NEW c \in Calls, Retry(c) PROVE ClientInv'
  <2> DEFINE n == call[c].attempt
  <2>1. /\ call[c].phase = "pausing" /\ Shaped(c) /\ InStep(c)
    BY <1>2, <1>7 DEF Retry, Idle
  <2>2. /\ call[c].with \in SettingsOf(c) /\ n \in Nat
        /\ n <= call[c].with.retries.max
        /\ call[c].recorded = IF call[c].with.metrics THEN n ELSE 0
    BY <2>1, SettingsBound DEF InStep
  <2>3. call' = [call EXCEPT ![c] = Sent(call[c], n + 1, now + call[c].with.timeout)]
        /\ options' = options /\ answers' = answers
    BY <1>7 DEF Retry, Attempt, Sent
  <2>4. Shaped(c)' /\ InStep(c)'
    BY <1>2, <2>1, <2>2, <2>3, SentInStep DEF Shaped
  <2> QED BY <1>2, <1>3, <2>3, <2>4
<1>8. ASSUME NEW c \in Calls, ConnectionFails(c) \/ TimesOut(c) PROVE ClientInv'
  <2>1. /\ call[c].phase = "sent" /\ AttemptEnds(c, "failing") /\ UNCHANGED vars
        /\ options' = options /\ answers' \subseteq answers
    BY <1>8 DEF ConnectionFails, TimesOut
  <2>2. /\ call' = [d \in Calls |-> call'[d]]
        /\ \A d \in Calls : Shaped(d)' /\ (call'[d] = Idle \/ InStep(d)')
    BY <2>1, EndsInStep DEF Failures
  <2>3. Told'
    BY <1>1, <2>1, StillTold
  <2> QED BY <1>1, <1>2, <2>1, <2>2, <2>3 DEF ClientInv
<1>9. ASSUME NEW a \in answers, Deliver(a) \/ BodyBreaks(a) PROVE ClientInv'
  <2> DEFINE c == a.to[1]
  <2>1. PICK result \in {Parsed(call[c].with.method, a.says), Unread(a.says)} :
          /\ WaitsFor(a.to) /\ AttemptEnds(c, result) /\ UNCHANGED vars
          /\ options' = options /\ answers' \subseteq answers
    BY <1>9 DEF Deliver, BodyBreaks
  <2>2. /\ c \in Calls /\ Last(c) = a.to /\ call[c].phase = "sent"
        /\ result \in Failures \cup {"ok"}
        /\ result = "limited" => req[Last(c)].phase = "refused"
        /\ result \in {"ok", "wrong"} => req[Last(c)].phase = "served"
    BY <2>1, WhatItTells DEF WaitsFor
  <2> HIDE DEF c
  <2>3. /\ call' = [d \in Calls |-> call'[d]]
        /\ \A d \in Calls : Shaped(d)' /\ (call'[d] = Idle \/ InStep(d)')
    BY <2>1, <2>2, EndsInStep
  <2>4. Told'
    BY <1>1, <2>1, StillTold
  <2> QED BY <1>1, <1>2, <2>1, <2>3, <2>4 DEF ClientInv
<1>10. ASSUME NEW r \in Requests, Arrive(r) \/ Answer(r) PROVE ClientInv'
  <2>1. call' = call /\ options' = options
    BY <1>10 DEF Arrive, Answer
  <2>2. CASE answers' = answers
    BY <1>1, <1>2, <1>4, <2>1, <2>2, StillTold
  <2>3. ASSUME Answer(r), NEW says \in IF Admitted(r) THEN Handled ELSE {"limited"},
               answers' = answers \cup {[to |-> r, says |-> says]}
        PROVE  Told'
    <3>1. req'[r].phase = IF Admitted(r) THEN "served" ELSE "refused"
      BY <1>1, <2>3 DEF Answer, Respond, ClientInv, IInv, TypeOK
    <3>2. \A a \in answers : /\ req[a.to].phase = "served" => req'[a.to].phase = "served"
                             /\ req[a.to].phase = "refused" => req'[a.to].phase = "refused"
      BY <1>1, OutcomesStay DEF ClientInv, Told
    <3>3. \A a \in answers :
            /\ a.to \in Requests
            /\ a.says \in {"ok", "limited", "failing", "wrong", "odd"}
            /\ a.says = "limited" => req'[a.to].phase = "refused"
            /\ a.says \in {"ok", "wrong", "odd"} => req'[a.to].phase = "served"
      BY <1>2, <3>2 DEF Told
    <3>4. /\ says \in {"ok", "limited", "failing", "wrong", "odd"}
          /\ says = "limited" => req'[r].phase = "refused"
          /\ says \in {"ok", "wrong", "odd"} => req'[r].phase = "served"
      BY <2>3, <3>1, HandledAssumption
    <3> QED BY <2>3, <3>3, <3>4 DEF Told
  <2> QED BY <1>2, <1>4, <1>10, <2>1, <2>2, <2>3 DEF Arrive, Answer
<1>11. CASE Elapse \/ UNCHANGED allVars
  <2>1. UNCHANGED clientVars
    BY <1>11 DEF Elapse, allVars
  <2> QED BY <1>1, <1>2, <1>4, <2>1, StillTold DEF clientVars
<1> QED BY <1>5, <1>6, <1>7, <1>8, <1>9, <1>10, <1>11 DEF ClientNext

\* What a surface makes of a failure is never a refusal, or an error of the request
\* itself, that the attempt did not end in.
LEMMA CaughtTells ==
  ASSUME NEW via, NEW failure
  PROVE  /\ Caught(via, failure) = "limited" => failure = "limited"
         /\ Caught(via, failure) = "wrong" => failure = "wrong"
BY DEF Caught, ErrorOf

\* The result of a call is that of its last attempt and never of one it abandoned.
THEOREM ResultsAreEarned == ClientSpec => []ResultEarned
<1>1. ClientInv => ResultEarned
  <2> SUFFICES ASSUME ClientInv, NEW c \in Calls, call[c].phase \in {"resolved", "rejected"}
               PROVE  LET made == call[c].with
                          caught == Caught(made.via, call[c].result)
                      IN /\ call[c].phase = "resolved" => req[Last(c)].phase = "served"
                         /\ call[c].phase = "rejected" =>
                              /\ call[c].result \in made.retries.on =>
                                   call[c].attempt = made.retries.max + 1
                              /\ caught = "limited" => req[Last(c)].phase = "refused"
                              /\ caught = "wrong" => req[Last(c)].phase = "served"
                         /\ call[c].recorded =
                              IF made.metrics THEN call[c].attempt ELSE 0
    BY DEF ResultEarned
  <2>1. InStep(c)
    BY DEF ClientInv, Idle
  <2> QED BY <2>1, CaughtTells DEF InStep
<1> QED BY <1>1, InitClientInv, StepClientInv, PTL DEF ClientSpec

\* Whatever the calls are, the server's limiter keeps its promises to them.
THEOREM ClientsAreLimited ==
  ClientSpec => [](AtMostMaxPerWindow /\ FewerThanTwiceMaxPerInterval) /\ PromiseKept
<1>1. ClientInit => Init
  BY DEF ClientInit
<1>2. ClientSpec => Spec
  BY <1>1, ClientStepIsStep, PTL DEF ClientSpec, Spec
<1> QED BY <1>2, LimitHolds, BurstIsBounded, Implements, PTL

=============================================================================
