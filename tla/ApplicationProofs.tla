--------------------------- MODULE ApplicationProofs ---------------------------
(***************************************************************************)
(* Proofs about an application: the injection of its services (ServiceDI),  *)
(* for a module of any number of providers, with any dependency graph among *)
(* them and any conduct of their constructors, the life of the applications *)
(* of one process (Services, AppLifecycle), for any trees of modules, any   *)
(* deployment and any causes of a stop, and the construction and the        *)
(* initialisation of those trees (ModuleTree, Routing), for any programs.   *)
(*                                                                          *)
(* DependenciesFirst is inductive once the types are known.  DoneIsComplete *)
(* is not: it needs that no provider is ever lost on the way between the    *)
(* queue and the services (NoneLost).                                       *)
(*                                                                          *)
(* StopsComplete and TrafficOnlyWhileAlive follow from what start() and     *)
(* stop() have passed of their programs (LifeInv), and from the order in    *)
(* which those programs are put together (StartOrder, StopOrder).           *)
(*                                                                          *)
(* InjectedInitialized and UpIsComplete need the tree that the nested calls *)
(* of the constructors make (TreeInv): the modules are numbered before those*)
(* under them and hold only what has returned, and collectDescendantModules *)
(* is a walk of that tree which visits those a module imports before it     *)
(* (PostOrder).                                                             *)
(*                                                                          *)
(* RoutesAsWritten needs what the folds over the decorators of a method and *)
(* of a class have noted (MethodNotes, ClassNotes), where a middleware of a *)
(* route was written (PlacesAre), and that no step takes anything from the  *)
(* modules that are constructed (Grown, TableInv).                          *)
(***************************************************************************)
EXTENDS Routing, Services, SequenceTheorems, FiniteSetTheorems, WellFoundedInduction, TLAPS

\* A working provider waits or has been constructed, as long as the method has
\* not thrown.
NoneLost ==
  outcome # "unresolvable" =>
    \A p \in Providers : conduct[p] = "works" => p \in Created \cup Waiting

DoneIsEmpty == outcome = "done" => pending = <<>>

IInv == TypeOK /\ DependenciesFirst /\ NoneLost /\ DoneIsEmpty

-----------------------------------------------------------------------------
\* The elements of a queue are its head and those of its tail.
LEMMA HeadAndTail ==
  ASSUME NEW S, NEW q \in Seq(S), q # <<>>
  PROVE  /\ Head(q) \in S /\ Tail(q) \in Seq(S) /\ Len(Tail(q)) = Len(q) - 1
         /\ {q[i] : i \in 1..Len(q)}
              = {Head(q)} \cup {Tail(q)[i] : i \in 1..Len(Tail(q))}
<1>1. /\ Head(q) \in S /\ Tail(q) \in Seq(S) /\ Len(Tail(q)) = Len(q) - 1
      /\ Head(q) = q[1] /\ Len(q) \in Nat \ {0}
      /\ \A i \in 1..Len(Tail(q)) : Tail(q)[i] = q[i + 1]
  OBVIOUS
<1>2. ASSUME NEW i \in 1..Len(q)
      PROVE  q[i] \in {Head(q)} \cup {Tail(q)[k] : k \in 1..Len(Tail(q))}
  <2>1. CASE i = 1
    BY <1>1, <2>1
  <2>2. CASE i # 1
    <3>1. i - 1 \in 1..Len(Tail(q)) /\ Tail(q)[i - 1] = q[i]
      BY <1>1, <2>2
    <3> QED BY <3>1
  <2> QED BY <2>1, <2>2
<1>3. ASSUME NEW i \in 1..Len(Tail(q))
      PROVE  Tail(q)[i] \in {q[k] : k \in 1..Len(q)}
  <2>1. i + 1 \in 1..Len(q) /\ Tail(q)[i] = q[i + 1]
    BY <1>1
  <2> QED BY <2>1
<1>4. Head(q) \in {q[k] : k \in 1..Len(q)}
  BY <1>1
<1> QED BY <1>1, <1>2, <1>3, <1>4

\* Appending adds one element, at the end.
LEMMA AppendElements ==
  ASSUME NEW S, NEW q \in Seq(S), NEW e \in S
  PROVE  /\ Append(q, e) \in Seq(S) /\ Len(Append(q, e)) = Len(q) + 1
         /\ \A i \in 1..Len(q) : Append(q, e)[i] = q[i]
         /\ Append(q, e)[Len(q) + 1] = e
         /\ {Append(q, e)[i] : i \in 1..Len(Append(q, e))}
              = {q[i] : i \in 1..Len(q)} \cup {e}
<1>1. /\ Append(q, e) \in Seq(S) /\ Len(Append(q, e)) = Len(q) + 1
      /\ \A i \in 1..Len(q) : Append(q, e)[i] = q[i]
      /\ Append(q, e)[Len(q) + 1] = e
      /\ Len(q) \in Nat
  OBVIOUS
<1>2. 1..Len(Append(q, e)) = 1..Len(q) \cup {Len(q) + 1}
  BY <1>1
<1> QED BY <1>1, <1>2

\* Every attempt takes the head off the queue it finds.
LEMMA AttemptShape ==
  ASSUME IInv, NEW p \in Providers, Attempt(p)
  PROVE  /\ pending \in Seq(Providers) /\ pending # <<>>
         /\ p = Head(pending)
         /\ Tail(pending) \in Seq(Providers)
         /\ Len(Tail(pending)) = Len(pending) - 1 /\ Len(pending) \in Nat
         /\ Waiting = {p} \cup {Tail(pending)[i] : i \in 1..Len(Tail(pending))}
         /\ iterations' \in 0..MaxIterations
         /\ outcome = "running"
         /\ UNCHANGED <<deps, conduct, foreign>>
<1>1. /\ pending \in Seq(Providers) /\ pending # <<>> /\ p = Head(pending)
      /\ outcome = "running" /\ UNCHANGED <<deps, conduct, foreign>>
  BY DEF IInv, TypeOK, Attempt
<1>2. iterations' \in 0..MaxIterations
  BY NAssumption DEF IInv, TypeOK, Attempt, MaxIterations
<1>3. Len(pending) \in Nat
  BY <1>1
<1> QED BY <1>1, <1>2, <1>3, HeadAndTail DEF Waiting

-----------------------------------------------------------------------------
\* At the call every provider waits and nothing has been constructed.
LEMMA InitIInv == Init => IInv
<1> SUFFICES ASSUME Init PROVE IInv
  OBVIOUS
<1>0. N \in Nat
  BY NAssumption
<1>1. /\ pending = [p \in 1..N |-> p] /\ pending \in Seq(Providers) /\ Len(pending) = N
      /\ created = <<>> /\ created \in Seq(Providers) /\ Len(created) = 0
  BY <1>0 DEF Init, Providers
<1>2. conduct \in [Providers -> Conduct] /\ foreign \in [Providers -> Foreign]
  BY DEF Init, Traits
<1>3. TypeOK
  BY <1>0, <1>1, <1>2 DEF Init, TypeOK, MaxIterations
<1>4. DependenciesFirst
  BY <1>1 DEF DependenciesFirst
<1>5. NoneLost
  <2>1. \A p \in Providers : pending[p] = p /\ p \in 1..Len(pending)
    BY <1>1 DEF Providers
  <2> QED BY <2>1 DEF NoneLost, Waiting
<1>6. DoneIsEmpty
  BY DEF Init, DoneIsEmpty
<1> QED BY <1>3, <1>4, <1>5, <1>6 DEF IInv

\* A step that constructs nothing leaves the services in their order.
LEMMA OrderKept ==
  ASSUME DependenciesFirst, created' = created, deps' = deps
  PROVE  DependenciesFirst'
<1>1. PICK d, c : d = deps /\ c = created
  OBVIOUS
<1>2. \A i \in 1..Len(c) : d[c[i]] \subseteq {c[k] : k \in 1..(i - 1)}
  BY <1>1 DEF DependenciesFirst
<1>3. deps' = d /\ created' = c
  BY <1>1
<1> QED BY <1>2, <1>3 DEF DependenciesFirst

\* No step of the loop, nor its end, breaks the invariant.
LEMMA StepIInv == IInv /\ [Next]_vars => IInv'
<1> SUFFICES ASSUME IInv, [Next]_vars PROVE IInv'
  OBVIOUS
<1>a. TypeOK /\ DependenciesFirst /\ NoneLost /\ DoneIsEmpty
  BY DEF IInv
<1>0. N \in Nat /\ Len(pending) \in Nat /\ Len(created) \in Nat
  BY <1>a, NAssumption DEF TypeOK
<1>1. ASSUME NEW p \in Providers, Attempt(p), pending' = Tail(pending),
             created' = created, outcome' \in {"running", "unresolvable"},
             conduct[p] # "works" \/ outcome' = "unresolvable"
      PROVE  IInv'
  <2>0. /\ Tail(pending) \in Seq(Providers) /\ Len(Tail(pending)) = Len(pending) - 1
        /\ Waiting = {p} \cup Waiting' /\ Created' = Created
        /\ iterations' \in 0..MaxIterations /\ outcome = "running"
        /\ deps' = deps /\ conduct' = conduct /\ foreign' = foreign
    BY <1>1, AttemptShape DEF Waiting, Created
  <2>1. TypeOK'
    BY <1>a, <1>0, <1>1, <2>0 DEF TypeOK
  <2>2. DependenciesFirst'
    <3>1. created' = created /\ deps' = deps
      BY <1>1, <2>0
    <3> QED BY <1>a, <3>1, OrderKept
  <2>3. NoneLost'
    BY <1>a, <1>1, <2>0 DEF NoneLost
  <2>4. DoneIsEmpty'
    BY <1>1 DEF DoneIsEmpty
  <2> QED BY <2>1, <2>2, <2>3, <2>4 DEF IInv
<1>2. ASSUME NEW p \in Providers, Skip(p) PROVE IInv'
  <2>1. /\ Attempt(p) /\ pending' = Tail(pending) /\ created' = created
        /\ outcome' = "running" /\ conduct[p] # "works"
    BY <1>2, AttemptShape DEF Skip
  <2> QED BY <1>1, <2>1
<1>3. ASSUME NEW p \in Providers, Unresolvable(p) PROVE IInv'
  BY <1>1, <1>3 DEF Unresolvable
<1>4. ASSUME NEW p \in Providers, Fail(p) PROVE IInv'
  <2>1. /\ Attempt(p) /\ pending' = Tail(pending) /\ created' = created
        /\ outcome' = "running" /\ conduct[p] # "works"
    BY <1>4, AttemptShape DEF Fail
  <2> QED BY <1>1, <2>1
<1>5. ASSUME NEW p \in Providers, Defer(p) PROVE IInv'
  <2>0. /\ Attempt(p) /\ pending' = Append(Tail(pending), p)
        /\ created' = created /\ outcome' = outcome
    BY <1>5 DEF Defer
  <2>1. /\ Tail(pending) \in Seq(Providers) /\ Len(Tail(pending)) = Len(pending) - 1
        /\ Waiting = {p} \cup {Tail(pending)[i] : i \in 1..Len(Tail(pending))}
        /\ iterations' \in 0..MaxIterations /\ outcome = "running"
        /\ deps' = deps /\ conduct' = conduct /\ foreign' = foreign
    BY <2>0, AttemptShape
  <2>2. /\ pending' \in Seq(Providers) /\ Len(pending') = Len(pending)
        /\ Waiting' = Waiting /\ Created' = Created
    <3>1. /\ pending' \in Seq(Providers) /\ Len(pending') = Len(Tail(pending)) + 1
          /\ Waiting' = {Tail(pending)[i] : i \in 1..Len(Tail(pending))} \cup {p}
      <4> DEFINE rest == Tail(pending)
      <4>1. rest \in Seq(Providers) /\ pending' = Append(rest, p)
        BY <2>0, <2>1
      <4> HIDE DEF rest
      <4>2. /\ Append(rest, p) \in Seq(Providers)
            /\ Len(Append(rest, p)) = Len(rest) + 1
            /\ {Append(rest, p)[i] : i \in 1..Len(Append(rest, p))}
                 = {rest[i] : i \in 1..Len(rest)} \cup {p}
        BY <4>1, AppendElements
      <4> QED BY <4>1, <4>2 DEF Waiting, rest
    <3> QED BY <1>0, <2>0, <2>1, <3>1 DEF Created
  <2>3. TypeOK'
    BY <1>a, <1>0, <2>0, <2>1, <2>2 DEF TypeOK
  <2>4. DependenciesFirst'
    <3>1. created' = created /\ deps' = deps
      BY <2>0, <2>1
    <3> QED BY <1>a, <3>1, OrderKept
  <2>5. NoneLost'
    BY <1>a, <2>0, <2>1, <2>2 DEF NoneLost
  <2>6. DoneIsEmpty'
    BY <2>0, <2>1 DEF DoneIsEmpty
  <2> QED BY <2>3, <2>4, <2>5, <2>6 DEF IInv
<1>6. ASSUME NEW p \in Providers, Construct(p) PROVE IInv'
  <2>0. /\ Attempt(p) /\ pending' = Tail(pending) /\ created' = Append(created, p)
        /\ outcome' = outcome /\ deps[p] \ Created = {}
    BY <1>6 DEF Construct, Resolved, Unresolved
  <2>1. /\ Tail(pending) \in Seq(Providers) /\ Len(Tail(pending)) = Len(pending) - 1
        /\ Waiting = {p} \cup Waiting'
        /\ iterations' \in 0..MaxIterations /\ outcome = "running"
        /\ deps' = deps /\ conduct' = conduct /\ foreign' = foreign
    BY <2>0, AttemptShape DEF Waiting
  <2>2. /\ created' \in Seq(Providers) /\ Len(created') = Len(created) + 1
        /\ \A i \in 1..Len(created) : created'[i] = created[i]
        /\ created'[Len(created) + 1] = p
        /\ Created' = Created \cup {p}
    <3>1. created \in Seq(Providers)
      BY <1>a DEF TypeOK
    <3> QED BY <2>0, <3>1, AppendElements DEF Created
  <2>3. TypeOK'
    BY <1>a, <1>0, <2>0, <2>1, <2>2 DEF TypeOK
  <2>4. DependenciesFirst'
    <3> SUFFICES ASSUME NEW i \in 1..Len(created')
                 PROVE  deps[created'[i]] \subseteq {created'[k] : k \in 1..(i - 1)}
      BY <2>1 DEF DependenciesFirst
    <3>1. CASE i \in 1..Len(created)
      <4>1. \A k \in 1..(i - 1) : created'[k] = created[k]
        BY <1>0, <2>2, <3>1
      <4>2. deps[created[i]] \subseteq {created[k] : k \in 1..(i - 1)}
        BY <1>a, <3>1 DEF DependenciesFirst
      <4> QED BY <2>2, <3>1, <4>1, <4>2
    <3>2. CASE i = Len(created) + 1
      <4>1. {created'[k] : k \in 1..(i - 1)} = Created
        BY <1>0, <2>2, <3>2 DEF Created
      <4> QED BY <2>0, <2>2, <3>2, <4>1
    <3> QED BY <1>0, <2>2, <3>1, <3>2
  <2>5. NoneLost'
    BY <1>a, <2>0, <2>1, <2>2 DEF NoneLost
  <2>6. DoneIsEmpty'
    BY <2>0, <2>1 DEF DoneIsEmpty
  <2> QED BY <2>3, <2>4, <2>5, <2>6 DEF IInv
<1>7. CASE Return
  <2>1. UNCHANGED <<deps, conduct, foreign, pending, created, iterations>>
    BY <1>7 DEF Return
  <2>2. outcome' \in {"done", "circular"} /\ outcome = "running"
        /\ (outcome' = "done" => pending = <<>>)
    BY <1>7 DEF Return
  <2>3. TypeOK'
    BY <1>a, <2>1, <2>2 DEF TypeOK
  <2>4. DependenciesFirst'
    <3>1. created' = created /\ deps' = deps
      BY <2>1
    <3> QED BY <1>a, <3>1, OrderKept
  <2>5. NoneLost'
    BY <1>a, <2>1, <2>2 DEF NoneLost, Waiting, Created
  <2>6. DoneIsEmpty'
    BY <2>1, <2>2 DEF DoneIsEmpty
  <2> QED BY <2>3, <2>4, <2>5, <2>6 DEF IInv
<1>8. CASE UNCHANGED vars
  BY <1>a, <1>8 DEF IInv, vars, TypeOK, DependenciesFirst, NoneLost, DoneIsEmpty, Waiting, Created
<1> QED BY <1>2, <1>3, <1>4, <1>5, <1>6, <1>7, <1>8 DEF Next

-----------------------------------------------------------------------------
\* The inductive invariant of createServicesWithDI.
THEOREM Invariance == Spec => []IInv
BY InitIInv, StepIInv, PTL DEF Spec

\* Type correctness for every number of providers.
THEOREM TypeCorrect == Spec => []TypeOK
<1>1. IInv => TypeOK
  BY DEF IInv
<1> QED BY <1>1, Invariance, PTL

\* Whatever the graph and the order of the providers array, no constructor runs
\* before those of the services it is given, and onModuleInit follows that order.
THEOREM NoConstructorSeesAHole == Spec => []DependenciesFirst
<1>1. IInv => DependenciesFirst
  BY DEF IInv
<1> QED BY <1>1, Invariance, PTL

\* createServicesWithDI never returns normally with a working service left out.
THEOREM ReturnsComplete == Spec => []DoneIsComplete
<1>1. IInv => DoneIsComplete
  <2> SUFFICES ASSUME IInv, outcome = "done" PROVE DoneIsComplete
    BY DEF DoneIsComplete
  <2>1. Waiting = {}
    BY DEF IInv, DoneIsEmpty, Waiting
  <2> QED BY <2>1 DEF IInv, NoneLost, DoneIsComplete
<1> QED BY <1>1, Invariance, PTL

-----------------------------------------------------------------------------
\* A graph that two passes over the array construct: rank[p] is the pass in which
\* p is, and a provider that stands before one it needs is in a later pass.
Ranks(rank) ==
  /\ \A p \in Providers : conduct[p] = "works"
  /\ \A p \in Providers : \A d \in deps[p] : rank[d] + (IF d >= p THEN 1 ELSE 0) <= rank[p]

\* How many of the array the first pass has still before it: the queue begins
\* with them.
Left == IF iterations < N THEN N - iterations ELSE 0

\* While the loop runs, what follows in the queue was put off by the first pass, in
\* the order of the array, and is no more than the budget has left.
SecondPass(rank) ==
  outcome = "running" =>
    /\ Left <= Len(pending) /\ Len(pending) <= MaxIterations - iterations
    /\ \A i \in 1..Len(pending) :
         /\ i <= Left => pending[i] = iterations + i
         /\ i > Left => rank[pending[i]] = 1 /\ pending[i] <= iterations
    /\ \A i, k \in 1..Len(pending) : Left < i /\ i < k => pending[i] < pending[k]

RankInv ==
  \A rank \in [Providers -> {0, 1}] : Ranks(rank) => SecondPass(rank) /\ outcome # "circular"

\* A ranked provider that has to wait is in its first pass and not the first to go.
LEMMA OnlyFirstPassDefers ==
  ASSUME IInv, NEW rank \in [Providers -> {0, 1}], Ranks(rank), SecondPass(rank),
         NEW p \in Providers, Defer(p)
  PROVE  Left > 0 /\ rank[p] = 1
<1>0. /\ N \in Nat /\ iterations \in 0..MaxIterations /\ pending \in Seq(Providers)
      /\ Len(pending) \in Nat /\ deps \in [Providers -> SUBSET Providers]
      /\ outcome = "running" /\ pending # <<>> /\ p = pending[1] /\ NoneLost
  BY NAssumption DEF IInv, TypeOK, Defer, Attempt
<1>1. PICK d \in deps[p] : d \notin Created
  BY DEF Defer, Unresolved
<1>2. d \in Providers /\ rank[d] \in {0, 1} /\ rank[p] \in {0, 1} /\ conduct[d] = "works"
  BY <1>0, <1>1 DEF Ranks
<1>3. d \in Waiting
  BY <1>0, <1>1, <1>2 DEF NoneLost
<1>4. PICK i \in 1..Len(pending) : d = pending[i]
  BY <1>3 DEF Waiting
<1>5. rank[d] + (IF d >= p THEN 1 ELSE 0) <= rank[p]
  BY <1>1 DEF Ranks
<1>6. /\ i <= Left => d = iterations + i
      /\ i > Left => rank[d] = 1
      /\ Left >= 1 => p = iterations + 1
      /\ Left < 1 => rank[p] = 1
      /\ Left < 1 /\ i # 1 => p < d
      /\ Left \in Nat
  BY <1>0, <1>4 DEF SecondPass, Left, MaxIterations
<1>7. p \in Nat /\ d \in Nat /\ iterations \in Nat
  BY <1>0, <1>2 DEF Providers
<1>8. Left > 0
  <2> SUFFICES ASSUME Left < 1 PROVE FALSE
    BY <1>6
  <2>1. d >= p /\ rank[d] = 1
    BY <1>4, <1>6, <1>7, <1>0
  <2> QED BY <1>2, <1>5, <2>1
<1>9. rank[p] = 1
  <2> SUFFICES ASSUME rank[p] = 0 PROVE FALSE
    BY <1>2
  <2>1. ~(d >= p) /\ rank[d] = 0
    BY <1>2, <1>5
  <2> QED BY <1>4, <1>6, <1>7, <1>8, <2>1
<1> QED BY <1>8, <1>9

\* What an attempt leaves of the queue keeps its order, with or without a
\* provider put off to its end.
LEMMA QueueKeepsOrder ==
  ASSUME IInv, NEW rank \in [Providers -> {0, 1}], SecondPass(rank),
         NEW p \in Providers, Attempt(p),
         \/ pending' = Tail(pending)
         \/ pending' = Append(Tail(pending), p) /\ Left > 0 /\ rank[p] = 1
  PROVE  SecondPass(rank)'
<1>0. /\ N \in Nat \ {0} /\ iterations \in Nat /\ iterations < MaxIterations /\ MaxIterations = 2 * N
      /\ pending \in Seq(Providers) /\ Len(pending) \in Nat /\ Len(pending) <= N
      /\ outcome = "running" /\ pending # <<>> /\ p = pending[1] /\ iterations' = iterations + 1
      /\ Len(created) \in Nat /\ Len(pending) >= 1
  BY NAssumption DEF IInv, TypeOK, Attempt, MaxIterations
<1>1. /\ Left \in Nat /\ Left' \in Nat /\ Left <= Len(pending)
      /\ Len(pending) <= MaxIterations - iterations
      /\ Left > 0 => Left' = Left - 1
      /\ Left = 0 => Left' = 0
      /\ Left > 0 => Left = N - iterations
      /\ Left > 0 => p = iterations + 1
  BY <1>0 DEF SecondPass, Left
<1>2. /\ Tail(pending) \in Seq(Providers) /\ Len(Tail(pending)) = Len(pending) - 1
      /\ \A i \in 1..Len(pending) - 1 : Tail(pending)[i] = pending[i + 1]
  BY <1>0
<1>3. PICK rest \in Seq(Providers) : rest = Tail(pending)
  BY <1>2
<1>8. Len(rest) = Len(pending) - 1 /\ \A i \in 1..Len(pending) - 1 : rest[i] \in Nat
  <2>1. \A i \in 1..Len(rest) : rest[i] \in Providers
    OBVIOUS
  <2> QED BY <1>0, <1>2, <1>3, <2>1 DEF Providers
<1>4. \A i \in 1..Len(pending) - 1 :
        /\ i <= Left' => rest[i] = iterations' + i
        /\ i > Left' => rank[rest[i]] = 1 /\ rest[i] <= iterations
  <2> TAKE i \in 1..Len(pending) - 1
  <2>1. i + 1 \in 1..Len(pending) /\ rest[i] = pending[i + 1] /\ i \in Nat
    BY <1>0, <1>2, <1>3
  <2> QED BY <1>0, <1>1, <2>1 DEF SecondPass
<1>5. \A i, k \in 1..Len(pending) - 1 : Left' < i /\ i < k => rest[i] < rest[k]
  <2> TAKE i, k \in 1..Len(pending) - 1
  <2>1. /\ i + 1 \in 1..Len(pending) /\ rest[i] = pending[i + 1] /\ i \in Nat
        /\ k + 1 \in 1..Len(pending) /\ rest[k] = pending[k + 1] /\ k \in Nat
    BY <1>0, <1>2, <1>3
  <2> QED BY <1>0, <1>1, <2>1 DEF SecondPass
<1>6. CASE pending' = Tail(pending)
  <2>1. pending' = rest /\ Len(pending') = Len(pending) - 1
    BY <1>2, <1>3, <1>6
  <2>2. Left' <= Len(pending') /\ Len(pending') <= MaxIterations - iterations'
    BY <1>0, <1>1, <2>1
  <2>3. \A i \in 1..Len(pending') :
          /\ i <= Left' => pending'[i] = iterations' + i
          /\ i > Left' => rank[pending'[i]] = 1 /\ pending'[i] <= iterations'
    BY <1>0, <1>4, <1>8, <2>1
  <2>4. \A i, k \in 1..Len(pending') : Left' < i /\ i < k => pending'[i] < pending'[k]
    BY <1>5, <2>1
  <2> QED BY <2>2, <2>3, <2>4 DEF SecondPass
<1>7. CASE pending' = Append(Tail(pending), p) /\ Left > 0 /\ rank[p] = 1
  <2>0. Left > 0 /\ rank[p] = 1 /\ pending' = Append(rest, p)
    BY <1>3, <1>7
  <2>1. /\ Len(pending') = Len(pending) /\ pending'[Len(pending)] = p
        /\ \A i \in 1..Len(pending) - 1 : pending'[i] = rest[i]
    <3>1. /\ Len(Append(rest, p)) = Len(rest) + 1
          /\ \A i \in 1..Len(rest) : Append(rest, p)[i] = rest[i]
          /\ Append(rest, p)[Len(rest) + 1] = p
      BY AppendElements
    <3>2. Len(rest) + 1 = Len(pending)
      BY <1>0, <1>8
    <3> QED BY <1>8, <2>0, <3>1, <3>2
  <2>2. \A i \in 1..Len(pending) : i = Len(pending) \/ i \in 1..Len(pending) - 1
    BY <1>0
  <2>4. /\ Left' <= Len(pending') /\ Len(pending') <= MaxIterations - iterations'
    BY <1>0, <1>1, <2>0, <2>1
  <2>5. \A i \in 1..Len(pending') :
          /\ i <= Left' => pending'[i] = iterations' + i
          /\ i > Left' => rank[pending'[i]] = 1 /\ pending'[i] <= iterations'
    <3> TAKE i \in 1..Len(pending')
    <3>1. CASE i = Len(pending)
      BY <1>0, <1>1, <2>0, <2>1, <3>1
    <3>2. CASE i \in 1..Len(pending) - 1
      BY <1>0, <1>4, <1>8, <2>1, <3>2
    <3> QED BY <2>1, <2>2, <3>1, <3>2
  <2>6. \A i, k \in 1..Len(pending') : Left' < i /\ i < k => pending'[i] < pending'[k]
    <3> TAKE i, k \in 1..Len(pending')
    <3> HAVE Left' < i /\ i < k
    <3>1. i \in 1..Len(pending) - 1 /\ pending'[i] = rest[i]
      BY <1>0, <2>1
    <3>2. CASE k = Len(pending)
      <4>1. rest[i] <= iterations /\ rest[i] \in Nat
        BY <1>4, <1>8, <3>1
      <4> QED BY <1>0, <1>1, <2>0, <2>1, <3>1, <3>2, <4>1
    <3>3. CASE k \in 1..Len(pending) - 1
      BY <1>5, <2>1, <3>1, <3>3
    <3> QED BY <2>1, <2>2, <3>2, <3>3
  <2> QED BY <2>4, <2>5, <2>6 DEF SecondPass
<1> QED BY <1>6, <1>7

LEMMA InitRankInv == Init => RankInv
<1> SUFFICES ASSUME Init, NEW rank \in [Providers -> {0, 1}]
             PROVE  SecondPass(rank) /\ outcome # "circular"
  BY DEF RankInv
<1>1. /\ N \in Nat \ {0} /\ pending = [p \in 1..N |-> p] /\ Len(pending) = N
      /\ iterations = 0 /\ outcome = "running"
  BY NAssumption DEF Init, Providers
<1> QED BY <1>1 DEF SecondPass, Left, MaxIterations

LEMMA StepRankInv == IInv /\ RankInv /\ [Next]_vars => RankInv'
<1> SUFFICES ASSUME IInv, RankInv, [Next]_vars,
                    NEW rank \in [Providers -> {0, 1}], Ranks(rank)'
             PROVE  SecondPass(rank)' /\ outcome' # "circular"
  BY DEF RankInv
<1>1. deps' = deps /\ conduct' = conduct
  BY DEF Next, vars, Skip, Defer, Unresolvable, Fail, Construct, Return, Attempt
<1>2. Ranks(rank)
  BY <1>1 DEF Ranks
<1>3. SecondPass(rank) /\ outcome # "circular"
  BY <1>2 DEF RankInv
<1>4. ASSUME NEW p \in Providers, Skip(p) \/ Unresolvable(p) \/ Fail(p) \/ Construct(p)
      PROVE  SecondPass(rank)' /\ outcome' # "circular"
  <2>1. Attempt(p) /\ pending' = Tail(pending) /\ outcome' # "circular"
    BY <1>4, <1>3 DEF Skip, Unresolvable, Fail, Construct
  <2> QED BY <1>3, <2>1, QueueKeepsOrder
<1>5. ASSUME NEW p \in Providers, Defer(p) PROVE SecondPass(rank)' /\ outcome' # "circular"
  <2>1. Attempt(p) /\ pending' = Append(Tail(pending), p) /\ outcome' # "circular"
    BY <1>5, <1>3 DEF Defer
  <2> QED BY <1>2, <1>3, <1>5, <2>1, OnlyFirstPassDefers, QueueKeepsOrder
<1>6. CASE Return
  <2>1. pending = <<>>
    <3> SUFFICES ASSUME iterations >= MaxIterations PROVE pending = <<>>
      BY <1>6 DEF Return
    <3>1. Len(pending) \in Nat /\ pending \in Seq(Providers) /\ iterations = MaxIterations
      BY NAssumption DEF IInv, TypeOK, MaxIterations
    <3>2. Len(pending) <= 0
      BY <1>3, <1>6, <3>1, NAssumption DEF SecondPass, Return, MaxIterations
    <3> QED BY <3>1, <3>2
  <2> QED BY <1>6, <2>1 DEF Return, SecondPass
<1>7. CASE UNCHANGED vars
  BY <1>3, <1>7 DEF vars, SecondPass, Left
<1> QED BY <1>4, <1>5, <1>6, <1>7 DEF Next

\* The budget of twice as many attempts as providers is enough for every graph that
\* two passes can construct, of any size: its services are never called circular.
THEOREM TwoPassesAreEnough == Spec => []TwoPassesSuffice
<1>1. IInv /\ RankInv => TwoPassesSuffice
  BY DEF RankInv, Ranks, TwoPassesSuffice, TwoPasses
<1> QED BY <1>1, Invariance, InitRankInv, StepRankInv, PTL DEF Spec

-----------------------------------------------------------------------------
(* Sequences that are put together of others.                               *)

\* Induction over the numbers in a set, by its least counterexample.
LEMMA ByInduction ==
  ASSUME NEW K, 0 \in K, \A k \in Nat : k \in K => k + 1 \in K
  PROVE  Nat \subseteq K
<1>1. SUFFICES ASSUME Nat \ K # {} PROVE FALSE
  OBVIOUS
<1>2. PICK k \in Nat \ K : \A j \in Nat \ K : ~(<<j, k>> \in OpToRel(<, Nat))
  BY <1>1, WFMin, NatLessThanWellFounded, Zenon
<1>3. \A j \in Nat \ K : ~(j < k)
  BY <1>2 DEF OpToRel
<1>4. k # 0 /\ k - 1 \in Nat /\ k = (k - 1) + 1
  OBVIOUS
<1>5. k - 1 \in K
  BY <1>3, <1>4
<1> QED BY <1>4, <1>5

\* Sequences of one set concatenate to a sequence of that set.
LEMMA FlattenIsSeq ==
  ASSUME NEW S, NEW ss \in Seq(Seq(S))
  PROVE  FlattenSeq(ss) \in Seq(S)
<1> DEFINE n == Len(ss)
           Body(g) == [i \in 1..n |-> IF i = 1 THEN ss[i] ELSE g[i - 1] \o ss[i]]
<1>0. n \in Nat
  OBVIOUS
<1>1. CASE n = 0
  BY <1>1, EmptySeq DEF FlattenSeq
<1>2. CASE n # 0
  <2> DEFINE K == {k \in Nat : \E g : \A i \in 1..n : i <= k => g[i] = Body(g)[i]}
  <2>1. 0 \in K
    OBVIOUS
  <2>2. ASSUME NEW k \in Nat, NEW g, \A i \in 1..n : i <= k => g[i] = Body(g)[i]
        PROVE  \A i \in 1..n : i <= k + 1 => Body(g)[i] = Body(Body(g))[i]
    <3> SUFFICES ASSUME NEW i \in 1..n, i <= k + 1
                 PROVE  Body(g)[i] = Body(Body(g))[i]
      OBVIOUS
    <3>1. CASE i = 1
      BY <3>1
    <3>2. CASE i # 1
      <4>1. i - 1 \in 1..n /\ i - 1 <= k
        BY <3>2
      <4>2. g[i - 1] = Body(g)[i - 1]
        BY <2>2, <4>1
      <4> QED BY <3>2, <4>2
    <3> QED BY <3>1, <3>2
  <2>3. ASSUME NEW k \in Nat, k \in K
        PROVE  k + 1 \in K
    <3> HIDE DEF Body
    <3>1. PICK g : \A i \in 1..n : i <= k => g[i] = Body(g)[i]
      BY <2>3
    <3>2. \A i \in 1..n : i <= k + 1 => Body(g)[i] = Body(Body(g))[i]
      BY <2>2, <3>1
    <3> QED BY <3>2
  <2>4. n \in K
    <3> HIDE DEF K
    <3>1. Nat \subseteq K
      BY <2>1, <2>3, ByInduction
    <3> QED BY <1>0, <3>1
  <2>5. PICK g : \A i \in 1..n : i <= n => g[i] = Body(g)[i]
    BY <2>4
  <2>6. Body(g) = Body(Body(g))
    <3>1. \A i \in 1..n : i <= n + 1 => Body(g)[i] = Body(Body(g))[i]
      <4> HIDE DEF Body
      <4> QED BY <1>0, <2>2, <2>5
    <3>2. \A i \in 1..n : Body(g)[i] = Body(Body(g))[i]
      <4> HIDE DEF Body
      <4> QED BY <3>1
    <3> QED BY <3>2
  <2>7. PICK f : f = Body(f) /\ FlattenSeq(ss) = f[n]
    BY <1>2, <2>6, Zenon DEF FlattenSeq
  <2> DEFINE L == {k \in Nat : \A i \in 1..n : i <= k => f[i] \in Seq(S)}
  <2>8. 0 \in L
    OBVIOUS
  <2>9. ASSUME NEW k \in Nat, k \in L PROVE k + 1 \in L
    <3> SUFFICES ASSUME NEW i \in 1..n, i = k + 1 PROVE f[i] \in Seq(S)
      BY <2>9
    <3>1. ss[i] \in Seq(S)
      OBVIOUS
    <3>2. CASE i = 1
      BY <2>7, <3>1, <3>2
    <3>3. CASE i # 1
      <4>1. f[i - 1] \in Seq(S)
        BY <2>9, <3>3
      <4>2. f[i] = f[i - 1] \o ss[i]
        BY <2>7, <3>3
      <4> QED BY <3>1, <4>1, <4>2, ConcatProperties
    <3> QED BY <3>2, <3>3
  <2>10. n \in L
    <3> HIDE DEF L
    <3>1. Nat \subseteq L
      BY <2>8, <2>9, ByInduction
    <3> QED BY <1>0, <3>1
  <2>11. n \in 1..n
    BY <1>0, <1>2
  <2>12. f[n] \in Seq(S)
    <3> HIDE DEF Body
    <3> QED BY <2>10, <2>11
  <2> QED BY <2>7, <2>12, Zenon
<1> QED BY <1>1, <1>2

\* The sequences of at most one element.
LEMMA OneOrNone ==
  ASSUME NEW T
  PROVE  <<>> \in Seq(T) /\ \A x \in T : <<x>> \in Seq(T)
OBVIOUS

\* What a sequence is mapped to is a sequence.
LEMMA MappedIsSeq ==
  ASSUME NEW S, NEW T, NEW s \in Seq(S), NEW p \in [DOMAIN s -> T]
  PROVE  p \in Seq(T)
OBVIOUS

-----------------------------------------------------------------------------
(* What the walks over a tree of modules visit.                             *)

\* How deep the tree under a module is, and the application that it belongs to.
Depth == CHOOSE depth \in [Modules -> 0..Cardinality(Modules)] : ImportsRanked(depth)
AppOf == CHOOSE owner \in [Modules -> Apps] : ImportsOwned(owner)

\* Both exist, the trees being trees.
LEMMA TreesAreRanked ==
  /\ Cardinality(Modules) \in Nat
  /\ Depth \in [Modules -> 0..Cardinality(Modules)] /\ ImportsRanked(Depth)
  /\ AppOf \in [Modules -> Apps] /\ ImportsOwned(AppOf)
<1>1. Cardinality(Modules) \in Nat
  BY TreesAssumption, FS_CardinalityType
<1>2. Depth \in [Modules -> 0..Cardinality(Modules)] /\ ImportsRanked(Depth)
  BY TreesAssumption, Zenon DEF Depth
<1>3. AppOf \in [Modules -> Apps] /\ ImportsOwned(AppOf)
  BY TreesAssumption, Zenon DEF AppOf
<1> QED BY <1>1, <1>2, <1>3

\* What a module imports is less deep and belongs to the same application.
LEMMA ImportedBelow ==
  ASSUME NEW m \in Modules, NEW i \in DOMAIN Imports[m]
  PROVE  /\ Imports[m][i] \in Modules
         /\ Depth[m] \in Nat /\ Depth[Imports[m][i]] \in Nat
         /\ Depth[Imports[m][i]] < Depth[m] /\ AppOf[Imports[m][i]] = AppOf[m]
<1>1. Imports[m] \in Seq(Modules)
  BY ImportsAssumption
<1>2. Imports[m][i] \in Modules
  BY <1>1
<1> QED BY <1>2, TreesAreRanked DEF ImportsRanked, ImportsOwned

\* The units of the application that a module belongs to.
Units == [kind : {"service", "controller", "framework"}, of : Modules]
UnitsOf(a) == {u \in Units : AppOf[u.of] = a}

\* There is a function that walks a tree with these heads.
LEMMA WalkExists ==
  ASSUME NEW head
  PROVE  \E f : f = [m \in Modules |->
           head[m] \o FlattenSeq([i \in DOMAIN Imports[m] |-> f[Imports[m][i]]])]
<1> DEFINE Body(g) == [m \in Modules |->
             head[m] \o FlattenSeq([i \in DOMAIN Imports[m] |-> g[Imports[m][i]]])]
           Right(g, k) == \A m \in Modules : Depth[m] < k => g[m] = Body(g)[m]
           K == {k \in Nat : \E g : Right(g, k)}
<1>1. 0 \in K
  BY TreesAreRanked
<1>2. ASSUME NEW k \in Nat, NEW g, Right(g, k)
      PROVE  Right(Body(g), k + 1)
  <2> SUFFICES ASSUME NEW m \in Modules, Depth[m] < k + 1
               PROVE  Body(g)[m] = Body(Body(g))[m]
    OBVIOUS
  <2>1. \A i \in DOMAIN Imports[m] : g[Imports[m][i]] = Body(g)[Imports[m][i]]
    <3> SUFFICES ASSUME NEW i \in DOMAIN Imports[m]
                 PROVE  g[Imports[m][i]] = Body(g)[Imports[m][i]]
      OBVIOUS
    <3> HIDE DEF Body
    <3> QED BY <1>2, ImportedBelow
  <2>2. [i \in DOMAIN Imports[m] |-> g[Imports[m][i]]]
          = [i \in DOMAIN Imports[m] |-> Body(g)[Imports[m][i]]]
    <3> HIDE DEF Body
    <3> QED BY <2>1
  <2> QED BY <2>2, Zenon
<1>3. ASSUME NEW k \in Nat, k \in K
      PROVE  k + 1 \in K
  <2> HIDE DEF Body, Right
  <2>1. PICK g : Right(g, k)
    BY <1>3
  <2>2. Right(Body(g), k + 1)
    BY <1>2, <2>1
  <2> QED BY <2>2
<1>4. Cardinality(Modules) + 1 \in K
  <2> HIDE DEF K
  <2> QED BY <1>1, <1>3, ByInduction, TreesAreRanked
<1>n. PICK k \in Nat : k = Cardinality(Modules) + 1 /\ k \in K
  BY <1>4, TreesAreRanked
<1>5. PICK g : Right(g, k)
  BY <1>n
<1>6. Right(Body(g), k + 1)
  <2> HIDE DEF Body, Right
  <2> QED BY <1>2, <1>5
<1>7. Body(g) = Body(Body(g))
  <2>1. \A m \in Modules : Body(g)[m] = Body(Body(g))[m]
    <3> HIDE DEF Body
    <3> QED BY <1>n, <1>5, <1>6, TreesAreRanked
  <2> QED BY <2>1
<1> QED BY <1>7, Zenon

\* f is such a walk.
Walks(f, head) ==
  f = [m \in Modules |->
         head[m] \o FlattenSeq([i \in DOMAIN Imports[m] |-> f[Imports[m][i]]])]

\* It visits units of the module's application.
LEMMA WalkTyped ==
  ASSUME NEW head, NEW f, Walks(f, head),
         \A m \in Modules : head[m] \in Seq(UnitsOf(AppOf[m]))
  PROVE  \A m \in Modules : f[m] \in Seq(UnitsOf(AppOf[m]))
<1> DEFINE K == {k \in Nat : \A m \in Modules : Depth[m] < k => f[m] \in Seq(UnitsOf(AppOf[m]))}
<1>1. 0 \in K
  BY TreesAreRanked
<1>2. ASSUME NEW k \in Nat, k \in K
      PROVE  k + 1 \in K
  <2> SUFFICES ASSUME NEW m \in Modules, Depth[m] < k + 1
               PROVE  f[m] \in Seq(UnitsOf(AppOf[m]))
    BY <1>2
  <2> DEFINE parts == [i \in DOMAIN Imports[m] |-> f[Imports[m][i]]]
  <2>1. \A i \in DOMAIN Imports[m] : f[Imports[m][i]] \in Seq(UnitsOf(AppOf[m]))
    BY <1>2, ImportedBelow, SMTT(30)
  <2>2. Imports[m] \in Seq(Modules)
    BY ImportsAssumption
  <2>3. f[m] = head[m] \o FlattenSeq(parts)
    BY DEF Walks
  <2>4. parts \in [DOMAIN Imports[m] -> Seq(UnitsOf(AppOf[m]))]
    BY <2>1, Zenon
  <2> HIDE DEF parts
  <2>5. parts \in Seq(Seq(UnitsOf(AppOf[m])))
    BY <2>2, <2>4, MappedIsSeq, Zenon
  <2>6. FlattenSeq(parts) \in Seq(UnitsOf(AppOf[m]))
    BY <2>5, FlattenIsSeq, Zenon
  <2>7. head[m] \o FlattenSeq(parts) \in Seq(UnitsOf(AppOf[m]))
    BY <2>6, ConcatProperties, Zenon
  <2> QED BY <2>3, <2>7
<1>3. Cardinality(Modules) + 1 \in K
  <2> HIDE DEF K
  <2> QED BY <1>1, <1>2, ByInduction, TreesAreRanked
<1>4. \A m \in Modules : Depth[m] < Cardinality(Modules) + 1
  BY TreesAreRanked
<1> QED BY <1>3, <1>4

\* Walk, with Instances as its heads, and WalkBack do.
LEMMA InstancesTyped ==
  ASSUME NEW m \in Modules
  PROVE  Instances(m) \in Seq(UnitsOf(AppOf[m])) /\ Controller(m) \in UnitsOf(AppOf[m])
<1> DEFINE parts == [i \in DOMAIN Imports[m] |->
                       IF Imports[m][i] \in Exported THEN <<Service(Imports[m][i])>> ELSE <<>>]
<1>1. Service(m) \in UnitsOf(AppOf[m]) /\ Controller(m) \in UnitsOf(AppOf[m])
  BY DEF Service, Controller, UnitsOf, Units
<1>2. \A i \in DOMAIN Imports[m] : Service(Imports[m][i]) \in UnitsOf(AppOf[m])
  BY ImportedBelow DEF Service, UnitsOf, Units
<1>3. Imports[m] \in Seq(Modules)
  BY ImportsAssumption
<1>4. Instances(m) = Append(FlattenSeq(parts), Service(m))
  BY Zenon DEF Instances
<1>5. parts \in [DOMAIN Imports[m] -> Seq(UnitsOf(AppOf[m]))]
  <2>1. \A i \in DOMAIN Imports[m] :
          (IF Imports[m][i] \in Exported THEN <<Service(Imports[m][i])>> ELSE <<>>)
            \in Seq(UnitsOf(AppOf[m]))
    BY <1>2, OneOrNone
  <2> QED BY <2>1, Zenon
<1> HIDE DEF parts
<1>6. parts \in Seq(Seq(UnitsOf(AppOf[m])))
  BY <1>3, <1>5, MappedIsSeq, Zenon
<1>7. FlattenSeq(parts) \in Seq(UnitsOf(AppOf[m]))
  BY <1>6, FlattenIsSeq, Zenon
<1> QED BY <1>1, <1>4, <1>7, AppendProperties

LEMMA WalksTyped ==
  ASSUME NEW m \in Modules
  PROVE  Walk[m] \in Seq(UnitsOf(AppOf[m])) /\ WalkBack[m] \in Seq(UnitsOf(AppOf[m]))
<1>1. Walk[m] \in Seq(UnitsOf(AppOf[m]))
  <2> DEFINE head == [n \in Modules |-> Append(Instances(n), Controller(n))]
  <2>1. PICK f : f = [n \in Modules |->
          head[n] \o FlattenSeq([i \in DOMAIN Imports[n] |-> f[Imports[n][i]]])]
    <3> HIDE DEF head
    <3> QED BY WalkExists, Zenon
  <2>2. f = [n \in Modules |-> Append(Instances(n), Controller(n))
               \o FlattenSeq([i \in DOMAIN Imports[n] |-> f[Imports[n][i]]])]
    BY <2>1
  <2>3. Walk = [n \in Modules |-> Append(Instances(n), Controller(n))
                  \o FlattenSeq([i \in DOMAIN Imports[n] |-> Walk[Imports[n][i]]])]
    BY <2>2, Zenon DEF Walk
  <2>4. Walks(Walk, head)
    BY <2>3 DEF Walks
  <2>5. \A n \in Modules : head[n] \in Seq(UnitsOf(AppOf[n]))
    BY InstancesTyped, AppendProperties
  <2> HIDE DEF head
  <2> QED BY <2>4, <2>5, WalkTyped
<1>2. WalkBack[m] \in Seq(UnitsOf(AppOf[m]))
  <2> DEFINE head == [n \in Modules |-> <<Controller(n)>> \o Reverse(Instances(n))]
  <2>1. PICK f : f = [n \in Modules |->
          head[n] \o FlattenSeq([i \in DOMAIN Imports[n] |-> f[Imports[n][i]]])]
    <3> HIDE DEF head
    <3> QED BY WalkExists, Zenon
  <2>2. f = [n \in Modules |-> <<Controller(n)>> \o Reverse(Instances(n))
               \o FlattenSeq([i \in DOMAIN Imports[n] |-> f[Imports[n][i]]])]
    BY <2>1
  <2>3. WalkBack = [n \in Modules |-> <<Controller(n)>> \o Reverse(Instances(n))
                      \o FlattenSeq([i \in DOMAIN Imports[n] |-> WalkBack[Imports[n][i]]])]
    BY <2>2, Zenon DEF WalkBack
  <2>4. Walks(WalkBack, head)
    BY <2>3 DEF Walks
  <2>5. ASSUME NEW n \in Modules
        PROVE  head[n] \in Seq(UnitsOf(AppOf[n]))
    <3>1. Reverse(Instances(n)) \in Seq(UnitsOf(AppOf[n]))
      <4>1. Instances(n) \in Seq(UnitsOf(AppOf[n]))
        BY InstancesTyped
      <4> HIDE DEF head
      <4> QED BY <4>1 DEF Reverse
    <3>2. <<Controller(n)>> \in Seq(UnitsOf(AppOf[n]))
      BY InstancesTyped
    <3> QED BY <3>1, <3>2, ConcatProperties
  <2> HIDE DEF head
  <2> QED BY <2>4, <2>5, WalkTyped, SMTT(30)
<1> QED BY <1>1, <1>2

\* The same for the modules under a module.
LEMMA DescendantsExist ==
  \E f : f = [m \in Modules |->
    FlattenSeq([i \in DOMAIN Imports[m] |-> Append(f[Imports[m][i]], Imports[m][i])])]
<1> DEFINE Body(g) == [m \in Modules |->
      FlattenSeq([i \in DOMAIN Imports[m] |-> Append(g[Imports[m][i]], Imports[m][i])])]
           Right(g, k) == \A m \in Modules : Depth[m] < k => g[m] = Body(g)[m]
           K == {k \in Nat : \E g : Right(g, k)}
<1>1. 0 \in K
  BY TreesAreRanked
<1>2. ASSUME NEW k \in Nat, NEW g, Right(g, k)
      PROVE  Right(Body(g), k + 1)
  <2> SUFFICES ASSUME NEW m \in Modules, Depth[m] < k + 1
               PROVE  Body(g)[m] = Body(Body(g))[m]
    OBVIOUS
  <2>1. \A i \in DOMAIN Imports[m] : g[Imports[m][i]] = Body(g)[Imports[m][i]]
    <3> SUFFICES ASSUME NEW i \in DOMAIN Imports[m]
                 PROVE  g[Imports[m][i]] = Body(g)[Imports[m][i]]
      OBVIOUS
    <3> HIDE DEF Body
    <3> QED BY <1>2, ImportedBelow
  <2>2. [i \in DOMAIN Imports[m] |-> Append(g[Imports[m][i]], Imports[m][i])]
          = [i \in DOMAIN Imports[m] |-> Append(Body(g)[Imports[m][i]], Imports[m][i])]
    <3> HIDE DEF Body
    <3> QED BY <2>1
  <2> QED BY <2>2, Zenon
<1>3. ASSUME NEW k \in Nat, k \in K
      PROVE  k + 1 \in K
  <2> HIDE DEF Body, Right
  <2>1. PICK g : Right(g, k)
    BY <1>3
  <2>2. Right(Body(g), k + 1)
    BY <1>2, <2>1
  <2> QED BY <2>2
<1>4. Cardinality(Modules) + 1 \in K
  <2> HIDE DEF K
  <2> QED BY <1>1, <1>3, ByInduction, TreesAreRanked
<1>n. PICK k \in Nat : k = Cardinality(Modules) + 1 /\ k \in K
  BY <1>4, TreesAreRanked
<1>5. PICK g : Right(g, k)
  BY <1>n
<1>6. Right(Body(g), k + 1)
  <2> HIDE DEF Body, Right
  <2> QED BY <1>2, <1>5
<1>7. Body(g) = Body(Body(g))
  <2>1. \A m \in Modules : Body(g)[m] = Body(Body(g))[m]
    <3> HIDE DEF Body
    <3> QED BY <1>n, <1>5, <1>6, TreesAreRanked
  <2> QED BY <2>1
<1> QED BY <1>7, Zenon

LEMMA DescendantsTyped ==
  \A m \in Modules : Descendants[m] \in Seq({n \in Modules : AppOf[n] = AppOf[m]})
<1> DEFINE Of(m) == {n \in Modules : AppOf[n] = AppOf[m]}
           K == {k \in Nat : \A m \in Modules : Depth[m] < k => Descendants[m] \in Seq(Of(m))}
<1>0. Descendants = [m \in Modules |->
        FlattenSeq([i \in DOMAIN Imports[m] |->
                     Append(Descendants[Imports[m][i]], Imports[m][i])])]
  BY DescendantsExist, Zenon DEF Descendants
<1>1. 0 \in K
  BY TreesAreRanked
<1>2. ASSUME NEW k \in Nat, k \in K
      PROVE  k + 1 \in K
  <2> SUFFICES ASSUME NEW m \in Modules, Depth[m] < k + 1
               PROVE  Descendants[m] \in Seq(Of(m))
    BY <1>2
  <2> DEFINE parts == [i \in DOMAIN Imports[m] |->
                         Append(Descendants[Imports[m][i]], Imports[m][i])]
  <2>1. ASSUME NEW i \in DOMAIN Imports[m]
        PROVE  Append(Descendants[Imports[m][i]], Imports[m][i]) \in Seq(Of(m))
    <3>1. Imports[m][i] \in Of(m) /\ Of(Imports[m][i]) = Of(m)
      BY ImportedBelow
    <3>2. Descendants[Imports[m][i]] \in Seq(Of(Imports[m][i]))
      <4> HIDE DEF Of
      <4> QED BY <1>2, ImportedBelow
    <3> HIDE DEF Of
    <3> QED BY <3>1, <3>2, AppendProperties
  <2>2. Imports[m] \in Seq(Modules)
    BY ImportsAssumption
  <2>3. Descendants[m] = FlattenSeq(parts)
    BY <1>0, Zenon
  <2> HIDE DEF Of
  <2>4. parts \in [DOMAIN Imports[m] -> Seq(Of(m))]
    BY <2>1, Zenon
  <2> HIDE DEF parts
  <2>5. parts \in Seq(Seq(Of(m)))
    BY <2>2, <2>4, MappedIsSeq, Zenon
  <2>6. FlattenSeq(parts) \in Seq(Of(m))
    BY <2>5, FlattenIsSeq, Zenon
  <2> QED BY <2>3, <2>6, Zenon
<1>3. Cardinality(Modules) + 1 \in K
  <2> HIDE DEF K
  <2> QED BY <1>1, <1>2, ByInduction, TreesAreRanked
<1>4. \A m \in Modules : Depth[m] < Cardinality(Modules) + 1
  BY TreesAreRanked
<1> QED BY <1>3, <1>4

-----------------------------------------------------------------------------
(* The order of the steps of start() and of stop().                         *)

Operations ==
  {"onModuleInit", "subscribe", "scheduler", "wireProxy", "onApplicationInit", "listen",
   "beforeApplicationDestroy", "stopQueue", "stopServer", "stopTracing", "onModuleDestroy",
   "closeRedis", "onApplicationDestroy", "shutdownLogger"}

\* The steps of an application with some operations.
StepsOf(a, ops) == [op : ops, unit : UnitsOf(a)]

\* Hooks of an application are steps of it.
LEMMA HooksTyped ==
  ASSUME NEW a, NEW ops, NEW op \in ops, NEW units \in Seq(UnitsOf(a))
  PROVE  Hooks(op, units) \in Seq(StepsOf(a, ops))
<1>1. \A i \in DOMAIN units : Step(op, units[i]) \in StepsOf(a, ops)
  BY DEF Step, StepsOf
<1>2. Hooks(op, units) \in [DOMAIN units -> StepsOf(a, ops)]
  BY <1>1 DEF Hooks
<1> QED BY <1>2, MappedIsSeq

LEMMA InitHooksTyped ==
  ASSUME NEW a \in Apps, NEW ops, "onModuleInit" \in ops, NEW kind \in {"service", "controller"}
  PROVE  InitHooks(a, kind) \in Seq(StepsOf(a, ops))
<1> DEFINE of == SetupOrder(a)
           units == [i \in DOMAIN of |-> [kind |-> kind, of |-> of[i]]]
<1>1. InitHooks(a, kind) = Hooks("onModuleInit", units)
  BY DEF InitHooks
<1>2. of \in Seq({n \in Modules : AppOf[n] = a})
  <2>1. a \in Modules /\ AppOf[a] = a
    BY AppsAssumption, TreesAreRanked DEF ImportsOwned
  <2>2. Descendants[a] \in Seq({n \in Modules : AppOf[n] = a})
    BY <2>1, DescendantsTyped
  <2> QED BY <2>1, <2>2, OneOrNone, ConcatProperties DEF SetupOrder
<1> HIDE DEF of
<1>3. \A i \in DOMAIN of : [kind |-> kind, of |-> of[i]] \in UnitsOf(a)
  BY <1>2 DEF UnitsOf, Units
<1>4. units \in [DOMAIN of -> UnitsOf(a)]
  BY <1>3
<1> HIDE DEF units
<1>5. units \in Seq(UnitsOf(a))
  BY <1>2, <1>4, MappedIsSeq
<1> QED BY <1>1, <1>5, HooksTyped

\* So are the steps that the framework takes itself.
LEMMA FrameworkTyped ==
  ASSUME NEW a \in Apps, NEW ops, NEW op \in ops
  PROVE  <<Step(op, Framework(a))>> \in Seq(StepsOf(a, ops))
<1>1. a \in Modules /\ AppOf[a] = a
  BY AppsAssumption, TreesAreRanked DEF ImportsOwned
<1>2. Step(op, Framework(a)) \in StepsOf(a, ops)
  BY <1>1 DEF Step, Framework, StepsOf, UnitsOf, Units
<1> QED BY <1>2, OneOrNone

\* Of two parts of a program with operations of their own, the first comes first.
LEMMA PartsInOrder ==
  ASSUME NEW a, NEW X, NEW Y, X \cap Y = {},
         NEW s \in Seq(StepsOf(a, X)), NEW t \in Seq(StepsOf(a, Y))
  PROVE  /\ s \o t \in Seq(StepsOf(a, X \cup Y)) /\ Len(s \o t) = Len(s) + Len(t)
         /\ Len(s) \in Nat /\ Len(t) \in Nat
         /\ \A i \in 1..Len(s \o t) :
              /\ (s \o t)[i].op \in X => i <= Len(s) /\ (s \o t)[i] = s[i]
              /\ (s \o t)[i].op \in Y => i > Len(s)
<1>1. s \in Seq(StepsOf(a, X \cup Y)) /\ t \in Seq(StepsOf(a, X \cup Y))
  <2>1. StepsOf(a, X) \subseteq StepsOf(a, X \cup Y) /\ StepsOf(a, Y) \subseteq StepsOf(a, X \cup Y)
    BY DEF StepsOf
  <2> QED BY <2>1, SeqMonotonic
<1>2. /\ s \o t \in Seq(StepsOf(a, X \cup Y)) /\ Len(s \o t) = Len(s) + Len(t)
      /\ \A i \in 1..Len(s) + Len(t) :
           (s \o t)[i] = IF i <= Len(s) THEN s[i] ELSE t[i - Len(s)]
  BY <1>1, ConcatProperties
<1>3. Len(s) \in Nat /\ Len(t) \in Nat
  OBVIOUS
<1>4. ASSUME NEW i \in 1..Len(s \o t)
      PROVE  /\ (s \o t)[i].op \in X => i <= Len(s) /\ (s \o t)[i] = s[i]
             /\ (s \o t)[i].op \in Y => i > Len(s)
  <2>1. CASE i <= Len(s)
    <3>1. (s \o t)[i] = s[i] /\ s[i] \in StepsOf(a, X)
      BY <1>2, <1>3, <2>1
    <3> QED BY <2>1, <3>1 DEF StepsOf
  <2>2. CASE ~(i <= Len(s))
    <3>1. i - Len(s) \in 1..Len(t)
      BY <1>2, <1>3, <2>2
    <3>2. (s \o t)[i] = t[i - Len(s)] /\ t[i - Len(s)] \in StepsOf(a, Y)
      BY <1>2, <1>3, <2>2, <3>1
    <3>3. (s \o t)[i].op \notin X
      BY <3>2 DEF StepsOf
    <3> QED BY <1>3, <2>2, <3>3
  <2> QED BY <2>1, <2>2
<1> QED BY <1>2, <1>3, <1>4

\* start() takes messages and jobs after every onModuleInit, and traffic at its end.
LEMMA StartOrder ==
  ASSUME NEW a \in Apps
  PROVE  /\ StartProgram[a] \in Seq(StepsOf(a, Operations))
         /\ \A i, j \in 1..Len(StartProgram[a]) :
              StartProgram[a][i].op = "onModuleInit"
                /\ StartProgram[a][j].op \in {"subscribe", "scheduler"} => i < j
         /\ \A i \in 1..Len(StartProgram[a]) :
              StartProgram[a][i].op = "listen" => i = Len(StartProgram[a])
<1> DEFINE X == {"onModuleInit"}
           Y == {"subscribe", "scheduler", "wireProxy", "onApplicationInit"}
           Z == {"listen"}
           A == InitHooks(a, "service")
           B == InitHooks(a, "controller")
           C == <<Step("subscribe", Framework(a))>>
           D == <<Step("scheduler", Framework(a))>>
           E == <<Step("wireProxy", Framework(a))>>
           F == Hooks("onApplicationInit", Walk[a])
           G == <<Step("listen", Framework(a))>>
<1>1. StartProgram[a] = A \o B \o (C \o D \o E) \o F \o G
  BY DEF StartProgram, StartSteps
<1>2. A \in Seq(StepsOf(a, X)) /\ B \in Seq(StepsOf(a, X))
  BY InitHooksTyped
<1>3. C \in Seq(StepsOf(a, Y)) /\ D \in Seq(StepsOf(a, Y)) /\ E \in Seq(StepsOf(a, Y))
  BY FrameworkTyped
<1>4. F \in Seq(StepsOf(a, Y))
  <2>1. Walk[a] \in Seq(UnitsOf(a))
    BY AppsAssumption, WalksTyped, TreesAreRanked DEF ImportsOwned
  <2> QED BY <2>1, HooksTyped
<1>5. G \in Seq(StepsOf(a, Z)) /\ Len(G) = 1
  BY FrameworkTyped
<1> HIDE DEF A, B, C, D, E, F, G, X, Y, Z
<1> DEFINE XY == X \cup Y
           p == A \o B \o (C \o D \o E) \o F
<1>6. X \cap Y = {} /\ XY \cap Z = {} /\ XY \cup Z \subseteq Operations
      /\ "onModuleInit" \in X /\ {"subscribe", "scheduler"} \subseteq Y /\ "listen" \in Z
  BY DEF X, Y, Z, Operations
<1>7. A \o B \in Seq(StepsOf(a, X)) /\ C \o D \o E \in Seq(StepsOf(a, Y))
      /\ (C \o D \o E) \o F \in Seq(StepsOf(a, Y))
  BY <1>2, <1>3, <1>4, ConcatProperties
<1>8. p = (A \o B) \o ((C \o D \o E) \o F) /\ p \in Seq(StepsOf(a, XY))
  <2> DEFINE S == StepsOf(a, XY)
  <2>1. StepsOf(a, X) \subseteq S /\ StepsOf(a, Y) \subseteq S
    BY DEF StepsOf
  <2>2. A \o B \in Seq(S) /\ C \o D \o E \in Seq(S) /\ F \in Seq(S)
    BY <1>4, <1>7, <2>1, SeqMonotonic
  <2> HIDE DEF S
  <2>3. \A u, v, w \in Seq(S) : (u \o v) \o w = u \o (v \o w) /\ (u \o v) \o w \in Seq(S)
    BY ConcatAssociative, ConcatProperties
  <2> QED BY <2>2, <2>3, Zenon DEF S
<1>9. PICK s : s = A \o B
  OBVIOUS
<1>10. PICK t : t = (C \o D \o E) \o F
  OBVIOUS
<1>11. s \in Seq(StepsOf(a, X)) /\ t \in Seq(StepsOf(a, Y)) /\ p = s \o t
  BY <1>7, <1>8, <1>9, <1>10
<1>12. StartProgram[a] = p \o G
  BY <1>1
<1> HIDE DEF XY, p
<1>13. /\ Len(s) \in Nat
       /\ \A i \in 1..Len(p) : (p[i].op \in X => i <= Len(s)) /\ (p[i].op \in Y => i > Len(s))
  BY <1>6, <1>11, PartsInOrder
<1>14. /\ p \o G \in Seq(StepsOf(a, XY \cup Z)) /\ Len(p \o G) = Len(p) + Len(G)
       /\ Len(p) \in Nat /\ Len(G) \in Nat
       /\ \A i \in 1..Len(p \o G) :
            /\ (p \o G)[i].op \in XY => i <= Len(p) /\ (p \o G)[i] = p[i]
            /\ (p \o G)[i].op \in Z => i > Len(p)
  <2>1. p \in Seq(StepsOf(a, XY))
    BY <1>8
  <2>2. G \in Seq(StepsOf(a, Z))
    BY <1>5
  <2>3. XY \cap Z = {}
    BY <1>6
  <2> QED BY <2>1, <2>2, <2>3, PartsInOrder, Zenon
<1>15. p \o G \in Seq(StepsOf(a, Operations))
  <2>1. StepsOf(a, XY \cup Z) \subseteq StepsOf(a, Operations)
    BY <1>6 DEF StepsOf
  <2> QED BY <1>14, <2>1, SeqMonotonic
<1>16. ASSUME NEW i \in 1..Len(p \o G), NEW j \in 1..Len(p \o G),
              (p \o G)[i].op = "onModuleInit", (p \o G)[j].op \in {"subscribe", "scheduler"}
       PROVE  i < j
  <2>1. i <= Len(p) /\ p[i].op \in X /\ j <= Len(p) /\ p[j].op \in Y
    BY <1>6, <1>14, <1>16 DEF XY
  <2>2. i \in 1..Len(p) /\ j \in 1..Len(p)
    BY <1>14, <2>1
  <2> QED BY <1>13, <2>1, <2>2
<1>17. ASSUME NEW i \in 1..Len(p \o G), (p \o G)[i].op = "listen"
       PROVE  i = Len(p \o G)
  <2>1. i > Len(p) /\ Len(p \o G) = Len(p) + 1 /\ Len(p) \in Nat
    BY <1>5, <1>6, <1>14, <1>17
  <2> QED BY <2>1
<1> HIDE DEF StartProgram
<1> QED BY <1>12, <1>15, <1>16, <1>17

\* stop() stops the queue and the server before the first onModuleDestroy.
LEMMA StopOrder ==
  ASSUME NEW a \in Apps
  PROVE  /\ StopProgram[a] \in Seq(StepsOf(a, Operations))
         /\ \A i, j \in 1..Len(StopProgram[a]) :
              StopProgram[a][i].op \in {"stopQueue", "stopServer"}
                /\ StopProgram[a][j].op = "onModuleDestroy" => i < j
         /\ \A op \in {"stopQueue", "stopServer"} :
              \E i \in 1..Len(StopProgram[a]) : StopProgram[a][i].op = op
<1> DEFINE X == {"beforeApplicationDestroy", "stopQueue", "stopServer", "stopTracing"}
           Y == {"onModuleDestroy", "closeRedis", "onApplicationDestroy", "shutdownLogger"}
           A == Hooks("beforeApplicationDestroy", Walk[a])
           x == Step("stopQueue", Framework(a))
           y == Step("stopServer", Framework(a))
           z == Step("stopTracing", Framework(a))
           B == <<x, y, z>>
           C == Hooks("onModuleDestroy", WalkBack[a])
           D == <<Step("closeRedis", Framework(a))>>
           E == Hooks("onApplicationDestroy", Walk[a])
           F == <<Step("shutdownLogger", Framework(a))>>
<1>1. StopProgram[a] = A \o B \o C \o D \o E \o F
  BY DEF StopProgram, StopSteps
<1>2. Walk[a] \in Seq(UnitsOf(a)) /\ WalkBack[a] \in Seq(UnitsOf(a))
  BY AppsAssumption, WalksTyped, TreesAreRanked DEF ImportsOwned
<1>3. A \in Seq(StepsOf(a, X))
  BY <1>2, HooksTyped
<1>4. /\ B \in Seq(StepsOf(a, X)) /\ Len(B) = 3 /\ B[1].op = "stopQueue" /\ B[2].op = "stopServer"
  <2>1. /\ <<x>> \in Seq(StepsOf(a, X)) /\ <<y>> \in Seq(StepsOf(a, X))
        /\ <<z>> \in Seq(StepsOf(a, X))
    BY FrameworkTyped
  <2>2. x \in StepsOf(a, X) /\ y \in StepsOf(a, X) /\ z \in StepsOf(a, X)
    <3> HIDE DEF x, y, z, X
    <3>1. <<x>>[1] \in StepsOf(a, X) /\ <<y>>[1] \in StepsOf(a, X) /\ <<z>>[1] \in StepsOf(a, X)
      BY <2>1, ElementOfSeq
    <3> QED BY <3>1
  <2>3. x.op = "stopQueue" /\ y.op = "stopServer"
    BY DEF Step
  <2> HIDE DEF x, y, z, X
  <2> QED BY <2>2, <2>3
<1>5. C \in Seq(StepsOf(a, Y)) /\ E \in Seq(StepsOf(a, Y))
  BY <1>2, HooksTyped
<1>6. D \in Seq(StepsOf(a, Y)) /\ F \in Seq(StepsOf(a, Y))
  BY FrameworkTyped
<1> HIDE DEF A, B, C, D, E, F, X, Y, x, y, z
<1>7. PICK s \in Seq(StepsOf(a, X)), t \in Seq(StepsOf(a, Y)) :
        s = A \o B /\ t = C \o (D \o (E \o F))
  BY <1>3, <1>4, <1>5, <1>6, ConcatProperties
<1>8. StopProgram[a] = s \o t
  <2> DEFINE S == StepsOf(a, X \cup Y)
  <2>1. /\ s \in Seq(S) /\ C \in Seq(S) /\ D \in Seq(S) /\ E \in Seq(S) /\ F \in Seq(S)
    <3>1. StepsOf(a, X) \subseteq S /\ StepsOf(a, Y) \subseteq S
      BY DEF StepsOf
    <3> QED BY <1>5, <1>6, <3>1, SeqMonotonic
  <2> HIDE DEF S
  <2>2. \A u, v \in Seq(S) : u \o v \in Seq(S)
    BY ConcatProperties
  <2>3. \A u, v, w \in Seq(S) : (u \o v) \o w = u \o (v \o w)
    BY ConcatAssociative
  <2>4. PICK u : u = s \o C
    OBVIOUS
  <2>5. PICK v : v = u \o D
    OBVIOUS
  <2>6. PICK w : w = E \o F
    OBVIOUS
  <2>7. PICK rest : rest = D \o w
    OBVIOUS
  <2>8. u \in Seq(S) /\ w \in Seq(S)
    BY <2>1, <2>2, <2>4, <2>6
  <2>9. v \in Seq(S) /\ rest \in Seq(S)
    BY <2>1, <2>2, <2>5, <2>7, <2>8
  <2>10. (v \o E) \o F = v \o (E \o F)
    <3>1. v \in Seq(S)
      BY <2>9
    <3>2. E \in Seq(S)
      BY <2>1
    <3>3. F \in Seq(S)
      BY <2>1
    <3> QED BY <2>3, <3>1, <3>2, <3>3, Zenon
  <2>11. (u \o D) \o w = u \o (D \o w)
    <3>1. u \in Seq(S)
      BY <2>8
    <3>2. D \in Seq(S)
      BY <2>1
    <3>3. w \in Seq(S)
      BY <2>8
    <3> QED BY <2>3, <3>1, <3>2, <3>3, Zenon
  <2>12. (s \o C) \o rest = s \o (C \o rest)
    <3>1. s \in Seq(S)
      BY <2>1
    <3>2. C \in Seq(S)
      BY <2>1
    <3>3. rest \in Seq(S)
      BY <2>9
    <3> QED BY <2>3, <3>1, <3>2, <3>3, Zenon
  <2>13. StopProgram[a] = (v \o E) \o F
    BY <1>1, <1>7, <2>4, <2>5, Zenon
  <2>14. t = C \o rest
    BY <1>7, <2>6, <2>7, Zenon
  <2> QED BY <2>4, <2>5, <2>6, <2>7, <2>10, <2>11, <2>12, <2>13, <2>14, Zenon
<1>9. X \cap Y = {} /\ X \cup Y \subseteq Operations
      /\ "onModuleDestroy" \in Y /\ {"stopQueue", "stopServer"} \subseteq X
  BY DEF X, Y, Operations
<1>10. /\ s \o t \in Seq(StepsOf(a, X \cup Y)) /\ Len(s \o t) = Len(s) + Len(t)
       /\ Len(s) \in Nat /\ Len(t) \in Nat
       /\ \A i \in 1..Len(s \o t) :
            /\ (s \o t)[i].op \in X => i <= Len(s)
            /\ (s \o t)[i].op \in Y => i > Len(s)
  BY <1>9, PartsInOrder
<1>11. s \o t \in Seq(StepsOf(a, Operations))
  <2>1. StepsOf(a, X \cup Y) \subseteq StepsOf(a, Operations)
    BY <1>9 DEF StepsOf
  <2> QED BY <1>10, <2>1, SeqMonotonic
<1>12. /\ Len(A) \in Nat /\ Len(s) = Len(A) + 3
       /\ s[Len(A) + 1] = B[1] /\ s[Len(A) + 2] = B[2]
  <2>1. /\ Len(A \o B) = Len(A) + Len(B)
        /\ \A i \in 1..Len(A) + Len(B) : (A \o B)[i] = IF i <= Len(A) THEN A[i] ELSE B[i - Len(A)]
    BY <1>3, <1>4, ConcatProperties
  <2>2. Len(A) \in Nat
    BY <1>3
  <2> QED BY <1>4, <1>7, <2>1, <2>2
<1>13. /\ (s \o t)[Len(A) + 1].op = "stopQueue" /\ (s \o t)[Len(A) + 2].op = "stopServer"
       /\ Len(A) + 1 \in 1..Len(s \o t) /\ Len(A) + 2 \in 1..Len(s \o t)
  <2>1. Len(A) + 1 \in 1..Len(s) /\ Len(A) + 2 \in 1..Len(s)
    BY <1>12
  <2>2. \A i \in 1..Len(s) : (s \o t)[i] = s[i]
    <3>1. s \in Seq(StepsOf(a, X \cup Y)) /\ t \in Seq(StepsOf(a, X \cup Y))
      <4>1. StepsOf(a, X) \subseteq StepsOf(a, X \cup Y) /\ StepsOf(a, Y) \subseteq StepsOf(a, X \cup Y)
        BY DEF StepsOf
      <4> QED BY <4>1, SeqMonotonic
    <3> QED BY <1>10, <3>1, ConcatProperties
  <2>3. Len(A) + 1 \in 1..Len(s \o t) /\ Len(A) + 2 \in 1..Len(s \o t)
    BY <1>10, <1>12
  <2> QED BY <1>4, <1>12, <2>1, <2>2, <2>3
<1>14. ASSUME NEW i \in 1..Len(s \o t), NEW j \in 1..Len(s \o t),
              (s \o t)[i].op \in {"stopQueue", "stopServer"}, (s \o t)[j].op = "onModuleDestroy"
       PROVE  i < j
  BY <1>9, <1>10, <1>14
<1> HIDE DEF StopProgram
<1> QED BY <1>8, <1>11, <1>13, <1>14

-----------------------------------------------------------------------------
(* The invariant of the applications of a process.                          *)

\* Where the programs may be.
AppTypes ==
  /\ startPc \in [Apps -> Nat] /\ \A a \in Apps : startPc[a] <= Len(StartProgram[a]) + 1
  /\ stopPc \in [StopCalls -> Nat]
  /\ \A s \in StopCalls : stopPc[s] <= Len(StopProgram[App(s)]) + 1
  /\ deployment \in Deployments

\* The hooks that start() has passed have ended, and what it has opened is behind it.
StartInv ==
  \A a \in Apps :
    /\ \A i \in 1..Len(StartProgram[a]) :
         i < startPc[a] /\ StartProgram[a][i].op \in StartHooks => StartProgram[a][i] \in ended
    /\ a \in listening => Started(a)
    /\ a \in consuming \cup scheduling =>
         \A i \in 1..Len(StartProgram[a]) :
           StartProgram[a][i].op = "onModuleInit" => i < startPc[a]

\* Only a step with an end of its own is awaited, and a queue being stopped no
\* longer schedules.
BusyInv ==
  \A s \in stopBusy :
    /\ s \in Called /\ ~StopEnded(s)
    /\ StopStep(s).op \in DestroyHooks \cup {"stopQueue", "shutdownLogger"}
    /\ StopStep(s).op = "stopQueue" => App(s) \notin scheduling

\* What one stop() has passed is done, and stays done whatever the others do.
Passed(s, step) ==
  /\ step.op \in DestroyHooks => step \in ended
  /\ step.op = "stopQueue" => App(s) \notin consuming \cup scheduling
  /\ step.op = "stopServer" => App(s) \notin listening
StopInv ==
  \A s \in Called :
    /\ App(s) \in services /\ Started(App(s))
    /\ \A i \in 1..Len(StopProgram[App(s)]) : i < stopPc[s] => Passed(s, StopProgram[App(s)][i])

\* A module is destroyed by a stop() that has come to it.
BegunInv ==
  \A x \in begun : x.op = "onModuleDestroy" =>
    \E s \in Called : \E i \in 1..Len(StopProgram[App(s)]) :
      i <= stopPc[s] /\ StopProgram[App(s)][i] = x

\* stopAll() has ended the stop() of every service before the one it waits for.
Turn(i) == <<StopAll, deployment.services[i]>>
OrchestratorInv ==
  /\ isStarted \/ stopAll = "running" => \A a \in services : Started(a)
  /\ stopAll \in {"no", "ignored"} => \A a \in Apps : stopPc[<<StopAll, a>>] = 0
  /\ \A i, j \in DOMAIN deployment.services :
       i < j /\ stopPc[Turn(j)] > 0 => StopEnded(Turn(i))
  /\ stopAll = "resolved" => \A i \in DOMAIN deployment.services : StopEnded(Turn(i))
  /\ exited => \E s \in Called : StopEnded(s)

\* All of it.
LifeInv ==
  AppTypes /\ StartInv /\ BusyInv /\ StopInv /\ BegunInv /\ OrchestratorInv

-----------------------------------------------------------------------------
\* The programs are finite.
LEMMA ProgramsTyped ==
  \A a \in Apps : Len(StartProgram[a]) \in Nat /\ Len(StopProgram[a]) \in Nat
BY StartOrder, StopOrder

\* Services of a deployment are applications, each in one place.
LEMMA ServicesTyped ==
  ASSUME deployment \in Deployments
  PROVE  /\ DOMAIN deployment.services = 1..Len(deployment.services)
         /\ Len(deployment.services) \in Nat \ {0}
         /\ \A i \in 1..Len(deployment.services) :
              deployment.services[i] \in services /\ deployment.services[i] \in Apps
         /\ \A i, j \in 1..Len(deployment.services) :
              deployment.services[i] = deployment.services[j] => i = j
         /\ \A a \in services : \E i \in 1..Len(deployment.services) :
              a = deployment.services[i]
         /\ services \subseteq Apps
<1> DEFINE ss == deployment.services
<1>1. ss \in Seq(Apps) /\ ss # <<>> /\ IsInjective(ss)
  BY DeploymentsAssumption
<1>2. services = {ss[i] : i \in DOMAIN ss}
  BY DEF services, ToSet
<1>3. \A i, j \in DOMAIN ss : ss[i] = ss[j] => i = j
  BY <1>1 DEF IsInjective
<1> HIDE DEF ss
<1>4. DOMAIN ss = 1..Len(ss) /\ Len(ss) \in Nat \ {0} /\ \A i \in 1..Len(ss) : ss[i] \in Apps
  BY <1>1
<1> QED BY <1>2, <1>3, <1>4 DEF ss

\* What a step of start() does.
StartStep(a) == StartProgram[a][startPc[a]]
StartAdvances(a) == startPc' = [startPc EXCEPT ![a] = @ + 1]

LEMMA StartMoves ==
  ASSUME AppTypes, NEW a \in Apps, StartAction(a)
  PROVE  /\ startPc[a] \in 1..Len(StartProgram[a])
         /\ \/ startPc' = startPc
            \/ StartAdvances(a) /\ (StartStep(a).op \in StartHooks => StartStep(a) \in ended')
         /\ ended \subseteq ended'
         /\ \A x \in begun' : x \in begun \/ x.op \in StartHooks
         /\ \/ listening' = listening
            \/ listening' = listening \cup {a} /\ StartAdvances(a) /\ StartStep(a).op = "listen"
         /\ \/ consuming' = consuming
            \/ consuming' = consuming \cup {a} /\ StartStep(a).op = "subscribe"
         /\ \/ scheduling' = scheduling
            \/ scheduling' = scheduling \cup {a} /\ StartStep(a).op = "scheduler"
         /\ UNCHANGED <<stopPc, stopBusy, exited>>
<1> USE DEF start, stop, resources, history, AtStart, StartStep, StartAdvances, NextStart
<1>1. startPc[a] \in 1..Len(StartProgram[a])
  <2>1. Made(a) /\ ~Started(a)
    BY DEF StartAction, StartHookBegins, StartHookEnds, StartHookFails, SubscribeBegins,
           SubscribeEnds, SubscribeFails, StartScheduler, WireProxy, Listen, AtInitHook, StartHooks
  <2> QED BY <2>1, ProgramsTyped DEF Made, Started, AppTypes
<1>2. CASE StartHookBegins(a)
  BY <1>1, <1>2 DEF StartHookBegins, HookCalled, AtInitHook, StartHooks
<1>3. CASE StartHookEnds(a)
  BY <1>1, <1>3 DEF StartHookEnds, AtInitHook, StartHooks
<1>4. CASE StartHookFails(a)
  BY <1>1, <1>4 DEF StartHookFails
<1>5. CASE SubscribeBegins(a)
  BY <1>1, <1>5 DEF SubscribeBegins
<1>6. CASE SubscribeEnds(a)
  BY <1>1, <1>6 DEF SubscribeEnds, StartHooks
<1>7. CASE SubscribeFails(a)
  BY <1>1, <1>7 DEF SubscribeFails
<1>8. CASE StartScheduler(a)
  BY <1>1, <1>8 DEF StartScheduler, StartHooks
<1>9. CASE WireProxy(a)
  BY <1>1, <1>9 DEF WireProxy, StartHooks
<1>10. CASE Listen(a)
  BY <1>1, <1>10 DEF Listen, StartHooks
<1> QED BY <1>2, <1>3, <1>4, <1>5, <1>6, <1>7, <1>8, <1>9, <1>10 DEF StartAction

\* What a step of stop() does.
StopAdvances(s) == stopPc' = [stopPc EXCEPT ![s] = @ + 1]

LEMMA StopMoves ==
  ASSUME AppTypes, BusyInv, NEW s \in Called, StopAction(s)
  PROVE  /\ s \in StopCalls /\ App(s) \in Apps /\ stopPc[s] \in 1..Len(StopProgram[App(s)])
         /\ \/ stopPc' = stopPc
            \/ StopAdvances(s) /\ s \notin stopBusy' /\ \A x : x = StopStep(s) => Passed(s, x)'
         /\ ended \subseteq ended'
         /\ \A x \in begun' : x \in begun \/ x = StopStep(s)
         /\ listening' \subseteq listening /\ consuming' \subseteq consuming
         /\ scheduling' \subseteq scheduling
         /\ stopBusy' \subseteq stopBusy \cup {s}
         /\ s \in stopBusy' =>
              /\ StopStep(s).op \in DestroyHooks \cup {"stopQueue", "shutdownLogger"}
              /\ StopStep(s).op = "stopQueue" => App(s) \notin scheduling'
         /\ UNCHANGED <<startPc, exited>>
<1> USE DEF start, resources, history, AtStop, StopAdvances, NextStop
<1>0. s \in StopCalls /\ App(s) \in Apps
  BY DEF Called, StopCalls, App
<1>1. stopPc[s] \in 1..Len(StopProgram[App(s)])
  <2>1. stopPc[s] > 0 /\ ~StopEnded(s)
    BY DEF StopAction, StopHookBegins, StopHookEnds, StopQueueBegins, StopQueueEnds,
           StopQueueFails, StopServer, StopTracingEnds, StopTracingFails, CloseRedis, StopLoggerBegins, StopLoggerEnds,
           AtDestroyHook
  <2> QED BY <1>0, <2>1, ProgramsTyped DEF StopEnded, AppTypes
<1>2. s \in stopBusy =>
        /\ StopStep(s).op \in DestroyHooks \cup {"stopQueue", "shutdownLogger"}
        /\ StopStep(s).op = "stopQueue" => App(s) \notin scheduling
  BY DEF BusyInv
<1>3. PICK x : x = StopStep(s)
  OBVIOUS
<1>4. CASE StopHookBegins(s)
  BY <1>0, <1>1, <1>3, <1>4 DEF StopHookBegins, HookCalled, AtDestroyHook, DestroyHooks, StopStep
<1>5. CASE StopHookEnds(s)
  BY <1>0, <1>1, <1>3, <1>5 DEF StopHookEnds, AtDestroyHook, DestroyHooks, StopStep, Passed
<1>6. CASE StopQueueBegins(s)
  BY <1>0, <1>1, <1>3, <1>6 DEF StopQueueBegins, DestroyHooks, StopStep
<1>7. CASE StopQueueEnds(s)
  BY <1>0, <1>1, <1>2, <1>3, <1>7 DEF StopQueueEnds, DestroyHooks, StopStep, Passed
<1>8. CASE StopQueueFails(s)
  BY <1>0, <1>1, <1>2, <1>3, <1>8 DEF StopQueueFails
<1>9. CASE StopServer(s)
  BY <1>0, <1>1, <1>2, <1>3, <1>9 DEF StopServer, DestroyHooks, StopStep, Passed
<1>10. CASE CloseRedis(s)
  BY <1>0, <1>1, <1>2, <1>3, <1>10 DEF CloseRedis, DestroyHooks, StopStep, Passed
<1>11. CASE StopLoggerBegins(s)
  BY <1>0, <1>1, <1>3, <1>11 DEF StopLoggerBegins, DestroyHooks, StopStep
<1>12. CASE StopLoggerEnds(s)
  BY <1>0, <1>1, <1>3, <1>12 DEF StopLoggerEnds, DestroyHooks, StopStep, Passed
<1>13. CASE StopTracingEnds(s)
  BY <1>0, <1>1, <1>2, <1>3, <1>13 DEF StopTracingEnds, DestroyHooks, StopStep, Passed
<1>14. CASE StopTracingFails(s)
  BY <1>0, <1>1, <1>2, <1>3, <1>14 DEF StopTracingFails
<1> QED BY <1>4, <1>5, <1>6, <1>7, <1>8, <1>9, <1>10, <1>11, <1>12, <1>13, <1>14 DEF StopAction

\* A step of start() keeps what every stop() has passed.
LEMMA StartKeeps ==
  ASSUME LifeInv, NEW a \in Apps, StartAction(a), UNCHANGED orchestrator
  PROVE  LifeInv'
<1> USE DEF LifeInv
<1>1. /\ startPc[a] \in 1..Len(StartProgram[a])
      /\ \/ startPc' = startPc
         \/ StartAdvances(a) /\ (StartStep(a).op \in StartHooks => StartStep(a) \in ended')
      /\ ended \subseteq ended'
      /\ \A x \in begun' : x \in begun \/ x.op \in StartHooks
      /\ \/ listening' = listening
         \/ listening' = listening \cup {a} /\ StartAdvances(a) /\ StartStep(a).op = "listen"
      /\ \/ consuming' = consuming
         \/ consuming' = consuming \cup {a} /\ StartStep(a).op = "subscribe"
      /\ \/ scheduling' = scheduling
         \/ scheduling' = scheduling \cup {a} /\ StartStep(a).op = "scheduler"
      /\ UNCHANGED <<stopPc, stopBusy, exited>>
  BY StartMoves
<1>2. UNCHANGED <<deployment, isStarted, stopAll>> /\ services' = services
  BY DEF orchestrator, services
<1>3. /\ startPc' \in [Apps -> Nat]
      /\ \A b \in Apps : startPc'[b] >= startPc[b] /\ (b # a => startPc'[b] = startPc[b])
      /\ startPc'[a] \in {startPc[a], startPc[a] + 1}
      /\ \A b \in Apps : startPc'[b] <= Len(StartProgram[b]) + 1
  <2>1. /\ startPc \in [Apps -> Nat] /\ Len(StartProgram[a]) \in Nat
        /\ \A b \in Apps : startPc[b] <= Len(StartProgram[b]) + 1
    BY ProgramsTyped DEF AppTypes
  <2>2. CASE startPc' = startPc
    BY <2>1, <2>2
  <2>3. CASE StartAdvances(a)
    <3>1. startPc' = [startPc EXCEPT ![a] = startPc[a] + 1]
      BY <2>3 DEF StartAdvances
    <3>2. startPc' \in [Apps -> Nat]
      BY <2>1, <3>1
    <3>3. \A b \in Apps : startPc'[b] = IF b = a THEN startPc[a] + 1 ELSE startPc[b]
      BY <2>1, <3>1
    <3>4. startPc[a] + 1 <= Len(StartProgram[a]) + 1
      BY <1>1, <2>1
    <3>5. \A b \in Apps : startPc[b] \in Nat
      BY <2>1
    <3> QED BY <2>1, <3>2, <3>3, <3>4, <3>5
  <2> QED BY <1>1, <2>2, <2>3
<1>4. ~Started(a) /\ \A b \in Apps : Started(b) => Started(b)' /\ b # a
  <2>1. ~Started(a)
    BY <1>1, ProgramsTyped DEF Started
  <2> QED BY <1>3, <2>1, ProgramsTyped DEF Started, AppTypes
<1>5. AppTypes'
  BY <1>1, <1>2, <1>3 DEF AppTypes
<1>6. StartInv'
  <2> SUFFICES ASSUME NEW b \in Apps
      PROVE  /\ \A i \in 1..Len(StartProgram[b]) :
                  i < startPc'[b] /\ StartProgram[b][i].op \in StartHooks => StartProgram[b][i] \in ended'
             /\ b \in listening' => Started(b)'
             /\ b \in consuming' \cup scheduling' =>
                  \A i \in 1..Len(StartProgram[b]) :
                    StartProgram[b][i].op = "onModuleInit" => i < startPc'[b]
    BY DEF StartInv
  <2>1. ASSUME NEW i \in 1..Len(StartProgram[b]), i < startPc'[b], StartProgram[b][i].op \in StartHooks
        PROVE  StartProgram[b][i] \in ended'
    <3>1. CASE i < startPc[b]
      BY <1>1, <2>1, <3>1 DEF StartInv
    <3>2. CASE ~(i < startPc[b])
      <4>1. b = a /\ startPc'[a] = startPc[a] + 1 /\ i = startPc[a]
        BY <1>1, <1>3, <2>1, <3>2 DEF AppTypes
      <4> QED BY <1>1, <2>1, <4>1 DEF StartStep
    <3> QED BY <3>1, <3>2
  <2>2. ASSUME b \in listening'
        PROVE  Started(b)'
    <3>1. CASE b \in listening
      BY <1>4, <3>1 DEF StartInv
    <3>2. CASE b \notin listening
      <4>1. b = a /\ StartAdvances(a) /\ StartStep(a).op = "listen"
        BY <1>1, <2>2, <3>2
      <4>2. startPc[a] = Len(StartProgram[a])
        BY <1>1, <4>1, StartOrder DEF StartStep
      <4> QED BY <1>1, <4>1, <4>2 DEF StartAdvances, Started, AppTypes
    <3> QED BY <3>1, <3>2
  <2>3. ASSUME b \in consuming' \cup scheduling',
               NEW i \in 1..Len(StartProgram[b]), StartProgram[b][i].op = "onModuleInit"
        PROVE  i < startPc'[b]
    <3>1. CASE b \in consuming \cup scheduling
      <4>1. i < startPc[b]
        BY <2>3, <3>1 DEF StartInv
      <4> QED BY <1>3, <4>1 DEF AppTypes
    <3>2. CASE b \notin consuming \cup scheduling
      <4>1. b = a /\ StartStep(a).op \in {"subscribe", "scheduler"}
        BY <1>1, <2>3, <3>2
      <4>2. i < startPc[a]
        BY <1>1, <2>3, <4>1, StartOrder DEF StartStep
      <4> QED BY <1>3, <4>1, <4>2 DEF AppTypes
    <3> QED BY <3>1, <3>2
  <2> QED BY <2>1, <2>2, <2>3
<1>7. \A s \in Called : App(s) # a /\ Started(App(s))' /\ App(s) \in Apps
  <2> SUFFICES ASSUME NEW s \in Called
               PROVE  App(s) # a /\ Started(App(s))' /\ App(s) \in Apps
    OBVIOUS
  <2>1. App(s) \in Apps /\ Started(App(s))
    BY DEF StopInv, Called, StopCalls, App
  <2> QED BY <1>4, <2>1
<1>8. Called' = Called /\ \A s \in StopCalls : StopEnded(s)' <=> StopEnded(s)
  BY <1>1 DEF Called, StopEnded
<1>9. BusyInv'
  BY <1>1, <1>7, <1>8 DEF BusyInv, StopEnded, StopStep
<1>10. StopInv'
  <2> SUFFICES ASSUME NEW s \in Called
      PROVE  /\ App(s) \in services /\ Started(App(s))'
             /\ \A i \in 1..Len(StopProgram[App(s)]) :
                  i < stopPc[s] => Passed(s, StopProgram[App(s)][i])'
    BY <1>1, <1>2, <1>8 DEF StopInv
  <2>1. ASSUME NEW x, Passed(s, x)
        PROVE  Passed(s, x)'
    BY <1>1, <1>7, <2>1 DEF Passed
  <2> QED BY <1>7, <2>1 DEF StopInv
<1>11. BegunInv'
  <2>1. \A x \in begun' : x.op = "onModuleDestroy" => x \in begun
    BY <1>1 DEF StartHooks
  <2> QED BY <1>1, <1>8, <2>1 DEF BegunInv
<1>12. OrchestratorInv'
  <2>1. services \subseteq Apps
    BY ServicesTyped DEF AppTypes
  <2>2. isStarted' \/ stopAll' = "running" => \A b \in services' : Started(b)'
    BY <1>2, <1>4, <2>1 DEF OrchestratorInv
  <2> QED BY <1>1, <1>2, <1>8, <2>2 DEF OrchestratorInv, Turn, StopEnded, Called
<1> QED BY <1>5, <1>6, <1>9, <1>10, <1>11, <1>12

\* A step of one stop() keeps what every other has passed.
LEMMA StopKeeps ==
  ASSUME LifeInv, NEW s \in Called, StopAction(s), UNCHANGED orchestrator
  PROVE  LifeInv'
<1> USE DEF LifeInv
<1> DEFINE a == App(s)
<1>1. /\ s \in StopCalls /\ a \in Apps /\ stopPc[s] \in 1..Len(StopProgram[a])
      /\ \/ stopPc' = stopPc
         \/ StopAdvances(s) /\ s \notin stopBusy' /\ \A x : x = StopStep(s) => Passed(s, x)'
      /\ ended \subseteq ended'
      /\ \A x \in begun' : x \in begun \/ x = StopStep(s)
      /\ listening' \subseteq listening /\ consuming' \subseteq consuming
      /\ scheduling' \subseteq scheduling
      /\ stopBusy' \subseteq stopBusy \cup {s}
      /\ s \in stopBusy' =>
           /\ StopStep(s).op \in DestroyHooks \cup {"stopQueue", "shutdownLogger"}
           /\ StopStep(s).op = "stopQueue" => a \notin scheduling'
      /\ UNCHANGED <<startPc, exited>>
  BY StopMoves
<1>2. UNCHANGED <<deployment, isStarted, stopAll>> /\ services' = services
      /\ \A b \in Apps : Started(b)' <=> Started(b)
  BY <1>1 DEF orchestrator, services, Started
<1>3. /\ stopPc' \in [StopCalls -> Nat]
      /\ \A t \in StopCalls : t # s => stopPc'[t] = stopPc[t]
      /\ stopPc[s] \in Nat /\ stopPc'[s] \in {stopPc[s], stopPc[s] + 1}
      /\ \A t \in StopCalls : stopPc'[t] <= Len(StopProgram[App(t)]) + 1
  <2>1. /\ stopPc \in [StopCalls -> Nat] /\ Len(StopProgram[a]) \in Nat
        /\ \A t \in StopCalls : stopPc[t] <= Len(StopProgram[App(t)]) + 1
    BY <1>1, ProgramsTyped DEF AppTypes
  <2>2. stopPc[s] \in Nat /\ stopPc[s] <= Len(StopProgram[a]) + 1
    BY <1>1, <2>1
  <2>3. CASE stopPc' = stopPc
    BY <2>1, <2>2, <2>3
  <2>4. CASE StopAdvances(s)
    <3>1. stopPc' = [stopPc EXCEPT ![s] = stopPc[s] + 1]
      BY <2>4 DEF StopAdvances
    <3>2. stopPc' \in [StopCalls -> Nat]
      <4>1. stopPc[s] + 1 \in Nat /\ stopPc \in [StopCalls -> Nat]
        BY <2>1, <2>2
      <4> QED BY <1>1, <3>1, <4>1, Zenon
    <3>3. \A t \in StopCalls : stopPc'[t] = IF t = s THEN stopPc[s] + 1 ELSE stopPc[t]
      BY <2>1, <3>1
    <3>4. stopPc[s] + 1 <= Len(StopProgram[a]) + 1
      BY <1>1, <2>1
    <3> QED BY <1>1, <2>1, <2>2, <3>2, <3>3, <3>4
  <2> QED BY <1>1, <2>3, <2>4
<1>4. AppTypes'
  BY <1>1, <1>2, <1>3 DEF AppTypes
<1>5. StartInv'
  BY <1>1, <1>2 DEF StartInv
<1>6. Called' = Called /\ ~StopEnded(s) /\ \A t \in StopCalls : StopEnded(t) => StopEnded(t)'
  <2>1. stopPc'[s] > 0 /\ stopPc[s] > 0 /\ ~StopEnded(s)
    BY <1>1, <1>3, ProgramsTyped DEF StopEnded
  <2>2. Called' = Called
    BY <1>1, <1>3, <2>1 DEF Called
  <2> QED BY <1>3, <2>1, <2>2 DEF StopEnded
<1>7. BusyInv'
  <2> SUFFICES ASSUME NEW t \in stopBusy'
      PROVE  /\ t \in Called /\ ~StopEnded(t)'
             /\ StopStep(t)'.op \in DestroyHooks \cup {"stopQueue", "shutdownLogger"}
             /\ StopStep(t)'.op = "stopQueue" => App(t) \notin scheduling'
    BY <1>6 DEF BusyInv
  <2>1. CASE t = s
    <3>1. stopPc' = stopPc
      BY <1>1, <2>1
    <3>2. StopStep(s)' = StopStep(s) /\ (StopEnded(s)' <=> StopEnded(s))
      BY <3>1 DEF StopStep, StopEnded
    <3> QED BY <1>1, <1>6, <2>1, <3>2
  <2>2. CASE t # s
    <3>1. t \in stopBusy /\ t \in StopCalls
      BY <1>1, <2>2 DEF BusyInv, Called
    <3>2. stopPc'[t] = stopPc[t]
      BY <1>3, <2>2, <3>1
    <3>3. StopStep(t)' = StopStep(t) /\ (StopEnded(t)' <=> StopEnded(t))
      BY <3>2 DEF StopStep, StopEnded
    <3> QED BY <1>1, <3>1, <3>3 DEF BusyInv
  <2> QED BY <2>1, <2>2
<1>8. StopInv'
  <2> SUFFICES ASSUME NEW t \in Called
      PROVE  /\ App(t) \in services /\ Started(App(t))'
             /\ \A i \in 1..Len(StopProgram[App(t)]) :
                  i < stopPc'[t] => Passed(t, StopProgram[App(t)][i])'
    BY <1>2, <1>6 DEF StopInv
  <2>1. App(t) \in Apps /\ t \in StopCalls
    BY DEF Called, StopCalls, App
  <2>2. ASSUME NEW i \in 1..Len(StopProgram[App(t)]), i < stopPc'[t]
        PROVE  Passed(t, StopProgram[App(t)][i])'
    <3>1. CASE i < stopPc[t]
      <4>1. Passed(t, StopProgram[App(t)][i])
        BY <3>1 DEF StopInv
      <4> QED BY <1>1, <4>1 DEF Passed
    <3>2. CASE ~(i < stopPc[t])
      <4>1. t = s /\ stopPc'[s] = stopPc[s] + 1 /\ i = stopPc[s]
        BY <1>1, <1>3, <2>1, <2>2, <3>2
      <4>2. stopPc' # stopPc /\ StopProgram[App(t)][i] = StopStep(s)
        BY <1>3, <4>1 DEF StopStep
      <4> QED BY <1>1, <4>1, <4>2
    <3> QED BY <3>1, <3>2
  <2> QED BY <1>2, <2>1, <2>2 DEF StopInv
<1>9. BegunInv'
  <2> SUFFICES ASSUME NEW x \in begun', x.op = "onModuleDestroy"
      PROVE  \E t \in Called : \E i \in 1..Len(StopProgram[App(t)]) :
               i <= stopPc'[t] /\ StopProgram[App(t)][i] = x
    BY <1>6 DEF BegunInv
  <2>1. CASE x \in begun
    <3>1. PICK t \in Called : \E i \in 1..Len(StopProgram[App(t)]) :
                                i <= stopPc[t] /\ StopProgram[App(t)][i] = x
      BY <2>1 DEF BegunInv
    <3>2. PICK i \in 1..Len(StopProgram[App(t)]) :
            i <= stopPc[t] /\ StopProgram[App(t)][i] = x
      BY <3>1
    <3>3. t \in StopCalls /\ stopPc[t] \in Nat
      BY DEF Called, AppTypes
    <3>4. i <= stopPc'[t]
      BY <1>3, <3>2, <3>3
    <3> QED BY <3>2, <3>4
  <2>2. CASE x = StopStep(s)
    <3>1. stopPc[s] <= stopPc'[s] /\ StopProgram[a][stopPc[s]] = x
      BY <1>3, <2>2 DEF StopStep
    <3> QED BY <1>1, <3>1
  <2> QED BY <1>1, <2>1, <2>2
<1>10. OrchestratorInv'
  <2>1. services \subseteq Apps /\ \A i \in DOMAIN deployment.services : Turn(i) \in StopCalls
    BY ServicesTyped, StopAllAssumption DEF AppTypes, Turn, StopCalls
  <2>2. isStarted' \/ stopAll' = "running" => \A b \in services' : Started(b)'
    BY <1>2, <2>1 DEF OrchestratorInv
  <2>3. stopAll' \in {"no", "ignored"} => \A b \in Apps : stopPc'[<<StopAll, b>>] = 0
    <3> SUFFICES ASSUME stopAll \in {"no", "ignored"}, NEW b \in Apps
                 PROVE  stopPc'[<<StopAll, b>>] = 0
      BY <1>2
    <3>1. stopPc[<<StopAll, b>>] = 0 /\ <<StopAll, b>> \in StopCalls
      BY StopAllAssumption DEF OrchestratorInv, StopCalls
    <3>2. <<StopAll, b>> # s
      BY <1>1, <3>1
    <3> QED BY <1>3, <3>1, <3>2
  <2>4. \A i \in DOMAIN deployment.services :
          /\ Turn(i)' = Turn(i) /\ (stopPc'[Turn(i)] > 0 => stopPc[Turn(i)] > 0)
          /\ StopEnded(Turn(i)) => stopPc'[Turn(i)] = Len(StopProgram[App(Turn(i))]) + 1
    <3> SUFFICES ASSUME NEW i \in DOMAIN deployment.services
        PROVE  /\ Turn(i)' = Turn(i) /\ (stopPc'[Turn(i)] > 0 => stopPc[Turn(i)] > 0)
               /\ StopEnded(Turn(i)) => stopPc'[Turn(i)] = Len(StopProgram[App(Turn(i))]) + 1
      OBVIOUS
    <3>1. Turn(i)' = Turn(i)
      BY <1>2 DEF Turn
    <3>2. Turn(i) \in StopCalls
      BY <2>1
    <3>3. PICK t : t = Turn(i)
      OBVIOUS
    <3>4. stopPc'[t] > 0 => stopPc[t] > 0
      BY <1>1, <1>3, <3>2, <3>3
    <3>5. StopEnded(t) => stopPc'[t] = Len(StopProgram[App(t)]) + 1
      BY <1>6, <3>2, <3>3 DEF StopEnded
    <3> QED BY <3>1, <3>3, <3>4, <3>5
  <2>5. \A i, j \in DOMAIN deployment'.services :
          i < j /\ stopPc'[Turn(j)'] > 0 => StopEnded(Turn(i))'
    BY <1>2, <2>4 DEF OrchestratorInv, StopEnded
  <2>6. stopAll' = "resolved" => \A i \in DOMAIN deployment'.services : StopEnded(Turn(i))'
    BY <1>2, <2>4 DEF OrchestratorInv, StopEnded
  <2>7. exited' => \E t \in Called : StopEnded(t)'
    BY <1>1, <1>6 DEF OrchestratorInv, Called
  <2> QED BY <1>6, <2>2, <2>3, <2>5, <2>6, <2>7 DEF OrchestratorInv
<1> QED BY <1>4, <1>5, <1>7, <1>8, <1>9, <1>10

\* Calling stop() of services that have started disturbs no other stop().
LEMMA CallsKeep ==
  ASSUME LifeInv, NEW C \in SUBSET StopCalls,
         \A t \in C : stopPc[t] = 0 /\ App(t) \in services /\ Started(App(t)),
         stopPc' = [t \in StopCalls |-> IF t \in C THEN 1 ELSE stopPc[t]],
         UNCHANGED <<start, stopBusy, resources, history, deployment>>
  PROVE  /\ AppTypes' /\ StartInv' /\ BusyInv' /\ StopInv' /\ BegunInv'
         /\ \A t \in StopCalls : StopEnded(t) => StopEnded(t)'
         /\ (\E t \in Called : StopEnded(t)) => (\E t \in Called : StopEnded(t))'
<1> USE DEF LifeInv
<1>1. /\ UNCHANGED <<startPc, stopBusy, listening, consuming, scheduling, begun, ended, deployment>>
      /\ services' = services /\ \A a \in Apps : Started(a)' <=> Started(a)
  BY DEF start, resources, history, services, Started
<1>2. /\ stopPc' \in [StopCalls -> Nat]
      /\ \A t \in StopCalls : stopPc'[t] = IF t \in C THEN 1 ELSE stopPc[t]
      /\ \A t \in StopCalls : App(t) \in Apps /\ stopPc[t] \in Nat
  BY DEF AppTypes, StopCalls, App
<1>3. Called' = Called \cup C /\ \A t \in Called : t \in StopCalls /\ t \notin C /\ stopPc'[t] = stopPc[t]
  BY <1>2 DEF Called
<1>4. AppTypes'
  <2>1. \A t \in StopCalls : stopPc'[t] <= Len(StopProgram[App(t)]) + 1
    BY <1>2, ProgramsTyped DEF AppTypes
  <2> QED BY <1>1, <1>2, <2>1 DEF AppTypes
<1>5. StartInv'
  BY <1>1 DEF StartInv
<1>6. BusyInv'
  BY <1>1, <1>3 DEF BusyInv, StopEnded, StopStep
<1>7. StopInv'
  <2> SUFFICES ASSUME NEW t \in Called \cup C
      PROVE  /\ App(t) \in services /\ Started(App(t))'
             /\ \A i \in 1..Len(StopProgram[App(t)]) :
                  i < stopPc'[t] => Passed(t, StopProgram[App(t)][i])'
    BY <1>1, <1>3 DEF StopInv
  <2>1. CASE t \in C
    BY <1>1, <1>2, <2>1
  <2>2. CASE t \in Called
    <3>1. ASSUME NEW x, Passed(t, x)
          PROVE  Passed(t, x)'
      BY <1>1, <3>1 DEF Passed
    <3> QED BY <1>1, <1>2, <1>3, <2>2, <3>1 DEF StopInv
  <2> QED BY <2>1, <2>2
<1>8. BegunInv'
  <2>1. \A x \in begun : x.op = "onModuleDestroy" =>
          \E t \in Called : \E i \in 1..Len(StopProgram[App(t)]) :
            i <= stopPc'[t] /\ StopProgram[App(t)][i] = x
    BY <1>3 DEF BegunInv
  <2> QED BY <1>1, <1>3, <2>1 DEF BegunInv
<1>9. \A t \in StopCalls : StopEnded(t) => StopEnded(t)'
  <2> SUFFICES ASSUME NEW t \in StopCalls, stopPc[t] = Len(StopProgram[App(t)]) + 1
               PROVE  stopPc'[t] = Len(StopProgram[App(t)]) + 1
    BY DEF StopEnded
  <2>1. stopPc[t] # 0
    BY <1>2, ProgramsTyped
  <2> QED BY <1>2, <2>1
<1> QED BY <1>3, <1>4, <1>5, <1>6, <1>7, <1>8, <1>9

\* ... nor does what leaves every stop() alone.
LEMMA NothingKeeps ==
  ASSUME LifeInv, UNCHANGED <<start, stopPc, stopBusy, resources, history, deployment>>
  PROVE  /\ AppTypes' /\ StartInv' /\ BusyInv' /\ StopInv' /\ BegunInv'
         /\ \A t \in StopCalls : StopEnded(t)' <=> StopEnded(t)
         /\ Called' = Called /\ services' = services
         /\ \A a \in Apps : Started(a)' <=> Started(a)
<1> USE DEF LifeInv
<1>1. /\ UNCHANGED <<startPc, stopPc, stopBusy, listening, consuming, scheduling, begun, ended,
                     deployment>>
  BY DEF start, resources, history
<1>2. services' = services /\ Called' = Called /\ \A a \in Apps : Started(a)' <=> Started(a)
  BY <1>1 DEF services, Called, Started
<1>3. AppTypes' /\ StartInv' /\ \A t \in StopCalls : StopEnded(t)' <=> StopEnded(t)
  BY <1>1, <1>2 DEF AppTypes, StartInv, StopEnded
<1>4. BusyInv'
  BY <1>1, <1>2 DEF BusyInv, StopEnded, StopStep
<1>5. StopInv'
  <2>1. \A t, x : Passed(t, x) => Passed(t, x)'
    BY <1>1 DEF Passed
  <2>2. \A t \in Called : App(t) \in Apps
    BY DEF Called, StopCalls, App
  <2> QED BY <1>1, <1>2, <2>1, <2>2 DEF StopInv
<1>6. BegunInv'
  BY <1>1, <1>2 DEF BegunInv
<1> QED BY <1>2, <1>3, <1>4, <1>5, <1>6

\* Every service is asked by stopAll() in its turn.
LEMMA TurnsTyped ==
  ASSUME deployment \in Deployments
  PROVE  /\ \A i \in DOMAIN deployment.services : Turn(i) \in StopCalls
         /\ \A i, j \in DOMAIN deployment.services : Turn(i) = Turn(j) => i = j
BY ServicesTyped, StopAllAssumption DEF Turn, StopCalls

\* A new application has passed nothing yet.
LEMMA MakeServiceKeeps ==
  ASSUME LifeInv, NEW i \in DOMAIN deployment.services, MakeService(i)
  PROVE  LifeInv'
<1> USE DEF LifeInv
<1> DEFINE a == deployment.services[i]
<1>1. a \in Apps /\ startPc[a] = 0 /\ services' = services /\ services \subseteq Apps
      /\ startPc' = [startPc EXCEPT ![a] = 1]
      /\ UNCHANGED <<stopPc, stopBusy, exited, listening, consuming, scheduling, begun, ended,
                     deployment, isStarted, stopAll>>
  BY ServicesTyped DEF MakeService, Made, AppTypes, stop, resources, history, orchestrator, services
<1> HIDE DEF a
<1>2. /\ startPc' \in [Apps -> Nat]
      /\ \A b \in Apps : startPc'[b] = IF b = a THEN 1 ELSE startPc[b]
      /\ \A b \in Apps : startPc[b] \in Nat /\ startPc[b] <= startPc'[b]
  BY <1>1 DEF AppTypes
<1>3. ~Started(a) /\ \A b \in Apps : Started(b) => Started(b)' /\ b # a
  BY <1>1, <1>2, ProgramsTyped DEF Started
<1>4. AppTypes'
  <2>1. \A b \in Apps : startPc'[b] <= Len(StartProgram[b]) + 1
    BY <1>2, ProgramsTyped DEF AppTypes
  <2> QED BY <1>1, <1>2, <2>1 DEF AppTypes
<1>5. StartInv'
  <2> SUFFICES ASSUME NEW b \in Apps
      PROVE  /\ \A j \in 1..Len(StartProgram[b]) :
                  j < startPc'[b] /\ StartProgram[b][j].op \in StartHooks => StartProgram[b][j] \in ended
             /\ b \in listening => Started(b)'
             /\ b \in consuming \cup scheduling =>
                  \A j \in 1..Len(StartProgram[b]) :
                    StartProgram[b][j].op = "onModuleInit" => j < startPc'[b]
    BY <1>1 DEF StartInv
  <2>1. \A j \in 1..Len(StartProgram[b]) :
          j < startPc'[b] /\ StartProgram[b][j].op \in StartHooks => StartProgram[b][j] \in ended
    BY <1>2 DEF StartInv
  <2>2. b \in listening => Started(b)'
    BY <1>3 DEF StartInv
  <2>3. b \in consuming \cup scheduling =>
          \A j \in 1..Len(StartProgram[b]) : StartProgram[b][j].op = "onModuleInit" => j < startPc'[b]
    BY <1>2 DEF StartInv
  <2> QED BY <2>1, <2>2, <2>3
<1>6. Called' = Called /\ \A t \in StopCalls : StopEnded(t)' <=> StopEnded(t)
  BY <1>1 DEF Called, StopEnded
<1>7. \A t \in Called : t \in StopCalls /\ App(t) \in Apps
  BY DEF Called, StopCalls, App
<1>8. BusyInv'
  BY <1>1, <1>6 DEF BusyInv, StopEnded, StopStep
<1>9. StopInv'
  <2>1. \A t, x : Passed(t, x) => Passed(t, x)'
    BY <1>1 DEF Passed
  <2> QED BY <1>1, <1>3, <1>6, <1>7, <2>1 DEF StopInv
<1>10. BegunInv'
  BY <1>1, <1>6 DEF BegunInv
<1>11. OrchestratorInv'
  <2>1. isStarted' \/ stopAll' = "running" => \A b \in services' : Started(b)'
    BY <1>1, <1>3 DEF OrchestratorInv
  <2>2. \A j \in DOMAIN deployment.services : Turn(j)' = Turn(j)
    BY <1>1 DEF Turn
  <2> QED BY <1>1, <1>6, <2>1, <2>2 DEF OrchestratorInv, StopEnded
<1> QED BY <1>4, <1>5, <1>8, <1>9, <1>10, <1>11

\* A signal calls stop() of the services that have started, and of no other.
LEMMA SignalKeeps ==
  ASSUME LifeInv, NEW c, Signal(c)
  PROVE  LifeInv'
<1> USE DEF LifeInv
<1> DEFINE C == {s \in StopCalls : s[1] = c /\ App(s) \in services /\ Started(App(s))}
<1>1. /\ c # StopAll /\ \A a \in services : stopPc[<<c, a>>] = 0
      /\ stopPc' = [t \in StopCalls |-> IF t \in C THEN 1 ELSE stopPc[t]]
      /\ UNCHANGED <<start, stopBusy, exited, resources, history, deployment, isStarted, stopAll>>
  BY DEF Signal, orchestrator
<1>2. C \in SUBSET StopCalls
      /\ \A t \in C : stopPc[t] = 0 /\ App(t) \in services /\ Started(App(t))
  BY <1>1 DEF StopCalls, App
<1>3. \A t \in StopCalls : t[1] = StopAll => t \notin C
  BY <1>1
<1> HIDE DEF C
<1>4. /\ AppTypes' /\ StartInv' /\ BusyInv' /\ StopInv' /\ BegunInv'
      /\ \A t \in StopCalls : StopEnded(t) => StopEnded(t)'
      /\ (\E t \in Called : StopEnded(t)) => (\E t \in Called : StopEnded(t))'
  BY <1>1, <1>2, CallsKeep
<1>5. OrchestratorInv'
  <2>1. /\ deployment' = deployment /\ services' = services
        /\ \A a \in Apps : Started(a)' <=> Started(a)
    BY <1>1 DEF services, Started, start
  <2>2. \A a \in Apps : stopPc'[<<StopAll, a>>] = stopPc[<<StopAll, a>>]
    BY <1>1, <1>3, StopAllAssumption DEF StopCalls
  <2>3. \A i \in DOMAIN deployment.services : Turn(i)' = Turn(i) /\ Turn(i)[1] = StopAll
    BY <2>1 DEF Turn
  <2>4. \A i \in DOMAIN deployment.services : stopPc'[Turn(i)] = stopPc[Turn(i)]
    BY <1>1, <1>3, <2>3, TurnsTyped DEF AppTypes
  <2>5. services \subseteq Apps
    BY ServicesTyped DEF AppTypes
  <2>6. exited' => (\E t \in Called : StopEnded(t))'
    BY <1>1, <1>4 DEF OrchestratorInv
  <2>7. /\ isStarted' \/ stopAll' = "running" => \A a \in services' : Started(a)'
        /\ stopAll' \in {"no", "ignored"} => \A a \in Apps : stopPc'[<<StopAll, a>>] = 0
    BY <1>1, <2>1, <2>2, <2>5 DEF OrchestratorInv
  <2>8. \A i \in DOMAIN deployment.services : StopEnded(Turn(i))' <=> StopEnded(Turn(i))
    BY <2>3, <2>4 DEF StopEnded
  <2>9. \A i, j \in DOMAIN deployment'.services :
          i < j /\ stopPc'[Turn(j)'] > 0 => StopEnded(Turn(i))'
    BY <2>1, <2>3, <2>4, <2>8 DEF OrchestratorInv
  <2>10. stopAll' = "resolved" => \A i \in DOMAIN deployment'.services : StopEnded(Turn(i))'
    BY <1>1, <2>1, <2>8 DEF OrchestratorInv
  <2> QED BY <2>6, <2>7, <2>9, <2>10 DEF OrchestratorInv
<1> QED BY <1>4, <1>5

\* stopAll() calls the first service's stop(), or nothing ...
LEMMA CallStopAllKeeps ==
  ASSUME LifeInv, CallStopAll
  PROVE  LifeInv'
<1> USE DEF LifeInv
<1>1. /\ stopAll = "no" /\ stopAll' \in {"running", "ignored"}
      /\ UNCHANGED <<start, stopBusy, exited, resources, history, deployment, isStarted>>
  BY DEF CallStopAll
<1>2. /\ deployment' = deployment /\ services' = services /\ services \subseteq Apps
      /\ \A a \in Apps : Started(a)' <=> Started(a)
      /\ \A i \in DOMAIN deployment.services :
           Turn(i)' = Turn(i) /\ stopPc[Turn(i)] = 0 /\ Turn(i) \in StopCalls
      /\ \A a \in Apps : stopPc[<<StopAll, a>>] = 0
  <2>1. \A a \in Apps : stopPc[<<StopAll, a>>] = 0
    BY <1>1 DEF OrchestratorInv
  <2>2. services \subseteq Apps /\ \A i \in DOMAIN deployment.services : deployment.services[i] \in Apps
    BY ServicesTyped DEF AppTypes
  <2> QED BY <1>1, <2>1, <2>2, StopAllAssumption DEF services, Started, start, Turn, StopCalls
<1>3. CASE isStarted
  <2> DEFINE C == {Turn(1)}
  <2>1. 1 \in DOMAIN deployment.services /\ Turn(1) = <<StopAll, Head(deployment.services)>>
        /\ App(Turn(1)) \in services
    BY ServicesTyped DEF AppTypes, Turn, App
  <2>2. C \in SUBSET StopCalls
        /\ \A t \in C : stopPc[t] = 0 /\ App(t) \in services /\ Started(App(t))
    BY <1>2, <1>3, <2>1 DEF OrchestratorInv
  <2>3. stopAll' = "running" /\ stopPc' = [t \in StopCalls |-> IF t \in C THEN 1 ELSE stopPc[t]]
    <3>1. stopAll' = "running" /\ stopPc' = [stopPc EXCEPT ![Turn(1)] = 1]
      BY <1>3, <2>1 DEF CallStopAll, CallStop
    <3>2. stopPc \in [StopCalls -> Nat] /\ Turn(1) \in StopCalls
      BY <1>2, <2>1 DEF AppTypes
    <3> QED BY <3>1, <3>2
  <2> HIDE DEF C
  <2>4. /\ AppTypes' /\ StartInv' /\ BusyInv' /\ StopInv' /\ BegunInv'
        /\ \A t \in StopCalls : StopEnded(t) => StopEnded(t)'
        /\ (\E t \in Called : StopEnded(t)) => (\E t \in Called : StopEnded(t))'
    BY <1>1, <2>2, <2>3, CallsKeep
  <2>5. \A i, j \in DOMAIN deployment.services : i < j => stopPc'[Turn(j)] = 0
    <3> SUFFICES ASSUME NEW i \in DOMAIN deployment.services, NEW j \in DOMAIN deployment.services,
                        i < j
                 PROVE  stopPc'[Turn(j)] = 0
      OBVIOUS
    <3>1. j # 1
      BY ServicesTyped DEF AppTypes
    <3>2. Turn(j) \notin C
      BY <2>1, <3>1, TurnsTyped DEF C, AppTypes
    <3> QED BY <1>2, <2>3, <3>2
  <2>6. \A i, j \in DOMAIN deployment'.services :
          i < j /\ stopPc'[Turn(j)'] > 0 => StopEnded(Turn(i))'
    BY <1>2, <2>5
  <2>7. isStarted' \/ stopAll' = "running" => \A a \in services' : Started(a)'
    BY <1>2, <1>3 DEF OrchestratorInv
  <2>8. exited' => (\E t \in Called : StopEnded(t))'
    BY <1>1, <2>4 DEF OrchestratorInv
  <2> QED BY <2>3, <2>4, <2>6, <2>7, <2>8 DEF OrchestratorInv
<1>4. CASE ~isStarted
  <2>1. stopAll' = "ignored" /\ stopPc' = stopPc /\ isStarted' = isStarted /\ exited' = exited
    BY <1>1, <1>4 DEF CallStopAll
  <2>2. /\ AppTypes' /\ StartInv' /\ BusyInv' /\ StopInv' /\ BegunInv'
        /\ \A t \in StopCalls : StopEnded(t)' <=> StopEnded(t)
        /\ Called' = Called
    BY <1>1, <2>1, NothingKeeps
  <2>3. exited' => (\E t \in Called : StopEnded(t))'
    BY <2>1, <2>2 DEF OrchestratorInv, Called
  <2>4. \A i, j \in DOMAIN deployment'.services :
          i < j /\ stopPc'[Turn(j)'] > 0 => StopEnded(Turn(i))'
    BY <1>2, <2>1
  <2> QED BY <1>2, <1>4, <2>1, <2>2, <2>3, <2>4 DEF OrchestratorInv
<1> QED BY <1>3, <1>4

\* ... and the next one's when the last has ended.
LEMMA StopAllGoesOnKeeps ==
  ASSUME LifeInv, NEW i \in DOMAIN deployment.services, StopAllGoesOn(i)
  PROVE  LifeInv'
<1> USE DEF LifeInv
<1>1. /\ stopAll = "running" /\ StopEnded(Turn(i))
      /\ UNCHANGED <<start, stopBusy, exited, resources, history, deployment>>
  BY DEF StopAllGoesOn, Turn
<1>2. /\ deployment' = deployment /\ services' = services /\ services \subseteq Apps
      /\ \A a \in Apps : Started(a)' <=> Started(a)
      /\ \A j \in DOMAIN deployment.services :
           /\ Turn(j)' = Turn(j) /\ Turn(j) \in StopCalls
           /\ App(Turn(j)) = deployment.services[j] /\ App(Turn(j)) \in services
      /\ \A a \in services : Started(a)
  <2>1. services \subseteq Apps /\ \A j \in DOMAIN deployment.services : deployment.services[j] \in services
    BY ServicesTyped DEF AppTypes
  <2> QED BY <1>1, <2>1, TurnsTyped DEF services, Started, start, Turn, App, AppTypes, OrchestratorInv
<1>3. \A j \in DOMAIN deployment.services : j <= i => StopEnded(Turn(j))
  <2>1. stopPc[Turn(i)] > 0
    BY <1>1, <1>2, ProgramsTyped DEF StopEnded
  <2>2. \A j \in DOMAIN deployment.services : j < i => StopEnded(Turn(j))
    BY <2>1 DEF OrchestratorInv
  <2>3. \A j \in DOMAIN deployment.services : j <= i => j < i \/ j = i
    BY ServicesTyped DEF AppTypes
  <2> QED BY <1>1, <2>2, <2>3
<1>4. CASE i < Len(deployment.services)
  <2>1. i + 1 \in DOMAIN deployment.services
    BY <1>4, ServicesTyped DEF AppTypes
  <2> DEFINE C == {Turn(i + 1)}
  <2>2. /\ stopPc[Turn(i + 1)] = 0 /\ stopPc' = [stopPc EXCEPT ![Turn(i + 1)] = 1]
        /\ stopAll' = "running" /\ isStarted' = isStarted
    BY <1>1, <1>4 DEF StopAllGoesOn, CallStop, Turn
  <2>3. C \in SUBSET StopCalls
        /\ \A t \in C : stopPc[t] = 0 /\ App(t) \in services /\ Started(App(t))
    BY <1>2, <2>1, <2>2
  <2>4. stopPc' = [t \in StopCalls |-> IF t \in C THEN 1 ELSE stopPc[t]]
    <3>1. stopPc \in [StopCalls -> Nat]
      BY DEF AppTypes
    <3> QED BY <2>2, <3>1
  <2> HIDE DEF C
  <2>5. /\ AppTypes' /\ StartInv' /\ BusyInv' /\ StopInv' /\ BegunInv'
        /\ \A t \in StopCalls : StopEnded(t) => StopEnded(t)'
        /\ (\E t \in Called : StopEnded(t)) => (\E t \in Called : StopEnded(t))'
    BY <1>1, <2>3, <2>4, CallsKeep
  <2>6. ASSUME NEW j \in DOMAIN deployment.services, NEW k \in DOMAIN deployment.services,
               j < k, stopPc'[Turn(k)] > 0
        PROVE  StopEnded(Turn(j))
    <3>1. CASE k = i + 1
      <4>1. j <= i
        BY <2>6, <3>1, ServicesTyped DEF AppTypes
      <4> QED BY <1>3, <4>1
    <3>2. CASE k # i + 1
      <4>1. Turn(k) \notin C
        BY <2>1, <3>2, TurnsTyped DEF C, AppTypes
      <4>2. stopPc[Turn(k)] > 0
        BY <1>2, <2>4, <2>6, <4>1
      <4> QED BY <2>6, <4>2 DEF OrchestratorInv
    <3> QED BY <3>1, <3>2
  <2>7. \A j, k \in DOMAIN deployment'.services :
          j < k /\ stopPc'[Turn(k)'] > 0 => StopEnded(Turn(j))'
    <3> SUFFICES ASSUME NEW j \in DOMAIN deployment.services, NEW k \in DOMAIN deployment.services,
                        j < k, stopPc'[Turn(k)] > 0
                 PROVE  StopEnded(Turn(j))'
      BY <1>2
    <3>1. PICK t \in StopCalls : t = Turn(j)
      BY <1>2
    <3>2. StopEnded(t)'
      BY <2>5, <2>6, <3>1
    <3> QED BY <1>2, <3>1, <3>2 DEF StopEnded
  <2>8. exited' => (\E t \in Called : StopEnded(t))'
    BY <1>1, <2>5 DEF OrchestratorInv
  <2> QED BY <1>2, <2>2, <2>5, <2>7, <2>8 DEF OrchestratorInv
<1>5. CASE ~(i < Len(deployment.services))
  <2>1. stopAll' = "resolved" /\ isStarted' = FALSE /\ stopPc' = stopPc
    BY <1>5 DEF StopAllGoesOn
  <2>2. /\ AppTypes' /\ StartInv' /\ BusyInv' /\ StopInv' /\ BegunInv'
        /\ Called' = Called
    BY <1>1, <2>1, NothingKeeps
  <2>3. \A j \in DOMAIN deployment.services : StopEnded(Turn(j))
    BY <1>3, <1>5, ServicesTyped DEF AppTypes
  <2>4. \A j \in DOMAIN deployment.services : StopEnded(Turn(j))'
    BY <1>2, <2>1, <2>3 DEF StopEnded
  <2>5. exited' => (\E t \in Called : StopEnded(t))'
    BY <1>1, <2>1, <2>2 DEF OrchestratorInv, StopEnded
  <2> QED BY <1>2, <2>1, <2>2, <2>4, <2>5 DEF OrchestratorInv
<1> QED BY <1>4, <1>5

\* The actions that move neither start() nor stop().
LEMMA OthersKeep ==
  ASSUME LifeInv,
         \/ AllStarted \/ StopAllFails \/ UNCHANGED servicesVars
         \/ \E s \in Called : Exit(s)
         \/ \E a \in Apps : (TransportAction(a) \/ LogAction(a)) /\ UNCHANGED orchestrator
  PROVE  LifeInv'
<1> USE DEF LifeInv
<1>1. /\ UNCHANGED <<start, stopPc, stopBusy, resources, history, deployment>>
      /\ isStarted' => isStarted \/ \A a \in services : Started(a)
      /\ stopAll' \in {stopAll, "rejected"}
      /\ exited' => exited \/ \E s \in Called : StopEnded(s)
  BY DEF AllStarted, StopAllFails, servicesVars, Exit, TransportAction, LogAction, orchestrator,
         appVars, stop
<1>2. /\ AppTypes' /\ StartInv' /\ BusyInv' /\ StopInv' /\ BegunInv'
      /\ \A t \in StopCalls : StopEnded(t)' <=> StopEnded(t)
      /\ Called' = Called /\ services' = services
      /\ \A a \in Apps : Started(a)' <=> Started(a)
  BY <1>1, NothingKeeps
<1>3. services \subseteq Apps
  BY ServicesTyped DEF AppTypes
<1>4. \A j \in DOMAIN deployment.services : Turn(j)' = Turn(j)
  BY <1>1 DEF Turn
<1>5. exited' => (\E t \in Called : StopEnded(t))'
  BY <1>1, <1>2 DEF OrchestratorInv, StopEnded
<1>6. isStarted' \/ stopAll' = "running" => \A a \in services' : Started(a)'
  BY <1>1, <1>2, <1>3 DEF OrchestratorInv
<1>7. OrchestratorInv'
  BY <1>1, <1>2, <1>4, <1>5, <1>6 DEF OrchestratorInv, StopEnded
<1> QED BY <1>2, <1>7

\* Every application of a process keeps to its two programs.
THEOREM LifeInvariance == ServicesSpec => []LifeInv
<1>1. ServicesInit => LifeInv
  <2> SUFFICES ASSUME ServicesInit PROVE LifeInv
    OBVIOUS
  <2> USE DEF ServicesInit, AppInit
  <2>1. Called = {} /\ AppTypes
    <3>1. \A s \in StopCalls : App(s) \in Apps
      BY DEF StopCalls, App
    <3> QED BY <3>1, ProgramsTyped DEF Called, AppTypes
  <2>2. StartInv /\ BusyInv /\ StopInv /\ BegunInv
    BY <2>1 DEF StartInv, BusyInv, StopInv, BegunInv
  <2>3. OrchestratorInv
    <3>1. \A i \in DOMAIN deployment.services : stopPc[Turn(i)] = 0
      BY <2>1, TurnsTyped DEF AppTypes
    <3>2. \A a \in Apps : stopPc[<<StopAll, a>>] = 0
      BY StopAllAssumption DEF StopCalls
    <3> QED BY <3>1, <3>2 DEF OrchestratorInv
  <2> QED BY <2>1, <2>2, <2>3 DEF LifeInv
<1>2. LifeInv /\ [ServicesNext]_servicesVars => LifeInv'
  <2> SUFFICES ASSUME LifeInv, [ServicesNext]_servicesVars PROVE LifeInv'
    OBVIOUS
  <2>1. CASE AppAction
    BY <2>1, StartKeeps, StopKeeps, OthersKeep DEF AppAction
  <2>2. CASE \E i \in DOMAIN deployment.services : MakeService(i) \/ StopAllGoesOn(i)
    BY <2>2, MakeServiceKeeps, StopAllGoesOnKeeps
  <2>3. CASE CallStopAll
    BY <2>3, CallStopAllKeeps
  <2>4. CASE \E c \in Causes : Signal(c)
    BY <2>4, SignalKeeps
  <2>5. CASE AllStarted \/ StopAllFails \/ UNCHANGED servicesVars \/ \E s \in Called : Exit(s)
    BY <2>5, OthersKeep
  <2> QED BY <2>1, <2>2, <2>3, <2>4, <2>5 DEF ServicesNext
<1> QED BY <1>1, <1>2, PTL DEF ServicesSpec

-----------------------------------------------------------------------------
\* The steps of two applications are steps of different units.
LEMMA StepsApart ==
  ASSUME NEW a, NEW b, NEW x, x \in StepsOf(a, Operations), x \in StepsOf(b, Operations)
  PROVE  a = b
BY DEF StepsOf, UnitsOf

\* A stop() that has ended has ended every destroy hook and closed every source.
LEMMA DestroysPassed ==
  ASSUME LifeInv, NEW s \in Called, StopEnded(s)
  PROVE  DestroysEnded(App(s))
         /\ App(s) \in services /\ App(s) \notin listening \cup consuming \cup scheduling
<1> DEFINE p == StopProgram[App(s)]
<1>1. App(s) \in Apps
  BY DEF Called, StopCalls, App
<1>2. App(s) \in services /\ \A i \in 1..Len(p) : Passed(s, p[i])
  BY <1>1, ProgramsTyped DEF LifeInv, StopInv, StopEnded
<1>3. p \in Seq(StepsOf(App(s), Operations))
      /\ (\E i \in 1..Len(p) : p[i].op = "stopQueue") /\ (\E i \in 1..Len(p) : p[i].op = "stopServer")
  BY <1>1, StopOrder
<1> HIDE DEF p
<1>4. DOMAIN p = 1..Len(p)
  BY <1>3
<1>5. Calls(p, DestroyHooks) \subseteq ended
  BY <1>2, <1>4 DEF Calls, ToSet, Passed
<1>6. App(s) \notin listening \cup consuming \cup scheduling
  BY <1>2, <1>3 DEF Passed
<1> QED BY <1>2, <1>5, <1>6 DEF DestroysEnded, p

\* The process exits only when every destroy hook of an application has ended,
\* whatever hooks reject and however many signals race.
THEOREM StopsAreComplete == ServicesSpec => []StopsComplete
<1>1. LifeInv => StopsComplete
  <2> SUFFICES ASSUME LifeInv PROVE StopsComplete
    OBVIOUS
  <2>1. exited => \E a \in services : DestroysEnded(a)
    <3> SUFFICES ASSUME exited PROVE \E a \in services : DestroysEnded(a)
      OBVIOUS
    <3>1. PICK s \in Called : StopEnded(s)
      BY DEF LifeInv, OrchestratorInv
    <3> QED BY <3>1, DestroysPassed
  <2>2. ASSUME stopAll = "resolved", NEW a \in services
        PROVE  DestroysEnded(a) /\ a \notin listening \cup consuming \cup scheduling
    <3>1. PICK i \in DOMAIN deployment.services : a = deployment.services[i]
      BY ServicesTyped DEF LifeInv, AppTypes
    <3>2. StopEnded(Turn(i)) /\ Turn(i) \in StopCalls /\ App(Turn(i)) = a
      BY <2>2, <3>1, TurnsTyped DEF LifeInv, OrchestratorInv, AppTypes, Turn, App
    <3>3. Turn(i) \in Called
      <4>1. a \in Apps
        BY <3>2 DEF StopCalls, App
      <4> QED BY <3>2, <4>1, ProgramsTyped DEF Called, StopEnded
    <3> QED BY <3>2, <3>3, DestroysPassed
  <2> QED BY <2>1, <2>2 DEF StopsComplete
<1> QED BY <1>1, LifeInvariance, PTL

\* An application takes traffic only between its init hooks and its destroy hooks,
\* however its start(), its stop() calls and those of its neighbours interleave.
THEOREM TrafficIsAlive == ServicesSpec => []TrafficOnlyWhileAlive
<1>1. LifeInv => TrafficOnlyWhileAlive
  <2> SUFFICES ASSUME LifeInv, NEW a \in Apps
      PROVE  /\ a \in listening => Calls(StartProgram[a], StartHooks) \subseteq ended
             /\ a \in consuming \cup scheduling =>
                  Calls(StartProgram[a], {"onModuleInit"}) \subseteq ended
             /\ a \in listening \cup consuming \cup scheduling =>
                  Calls(StopProgram[a], {"onModuleDestroy"}) \cap begun = {}
    BY DEF TrafficOnlyWhileAlive, StartHooks
  <2> DEFINE p == StartProgram[a]
             q == StopProgram[a]
  <2>1. DOMAIN p = 1..Len(p) /\ DOMAIN q = 1..Len(q)
    BY StartOrder, StopOrder
  <2>2. a \in listening => Calls(p, StartHooks) \subseteq ended
    <3>1. a \in listening => \A i \in 1..Len(p) : p[i].op \in StartHooks => p[i] \in ended
      BY ProgramsTyped DEF LifeInv, StartInv, Started, AppTypes
    <3> HIDE DEF p
    <3> QED BY <2>1, <3>1 DEF Calls, ToSet
  <2>3. a \in consuming \cup scheduling => Calls(p, {"onModuleInit"}) \subseteq ended
    <3>1. a \in consuming \cup scheduling =>
            \A i \in 1..Len(p) : p[i].op = "onModuleInit" => p[i] \in ended
      BY DEF LifeInv, StartInv, StartHooks
    <3> HIDE DEF p
    <3> QED BY <2>1, <3>1 DEF Calls, ToSet
  <2>4. ASSUME NEW x \in Calls(q, {"onModuleDestroy"}), x \in begun
        PROVE  a \notin listening \cup consuming \cup scheduling
    <3>1. x \in StepsOf(a, Operations) /\ x.op = "onModuleDestroy"
      <4>1. q \in Seq(StepsOf(a, Operations))
        BY StopOrder
      <4> HIDE DEF q
      <4> QED BY <2>1, <4>1 DEF Calls, ToSet
    <3>2. PICK s \in Called : \E i \in 1..Len(StopProgram[App(s)]) :
                                i <= stopPc[s] /\ StopProgram[App(s)][i] = x
      BY <2>4, <3>1 DEF LifeInv, BegunInv
    <3>3. s \in StopCalls /\ App(s) \in Apps
      BY DEF Called, StopCalls, App
    <3>4. PICK i \in 1..Len(StopProgram[App(s)]) :
            i <= stopPc[s] /\ StopProgram[App(s)][i] = x
      BY <3>2
    <3>5. App(s) = a
      <4>1. StopProgram[App(s)] \in Seq(StepsOf(App(s), Operations))
        BY <3>3, StopOrder
      <4>2. x \in StepsOf(App(s), Operations)
        BY <3>4, <4>1
      <4> QED BY <3>1, <4>2, StepsApart
    <3>6. \A op \in {"stopQueue", "stopServer"} :
            \E j \in 1..Len(q) : q[j].op = op /\ j < stopPc[s]
      <4> SUFFICES ASSUME NEW op \in {"stopQueue", "stopServer"}
                   PROVE  \E j \in 1..Len(q) : q[j].op = op /\ j < stopPc[s]
        OBVIOUS
      <4>1. PICK j \in 1..Len(q) : q[j].op = op
        BY StopOrder
      <4>2. j < i
        BY <3>1, <3>4, <3>5, <4>1, StopOrder
      <4>3. stopPc[s] \in Nat
        BY <3>3 DEF LifeInv, AppTypes
      <4> QED BY <3>4, <3>5, <4>1, <4>2, <4>3
    <3>7. \A j \in 1..Len(q) : j < stopPc[s] => Passed(s, q[j])
      BY <3>5 DEF LifeInv, StopInv
    <3> HIDE DEF q
    <3> QED BY <3>5, <3>6, <3>7 DEF Passed
  <2> QED BY <2>2, <2>3, <2>4
<1> QED BY <1>1, LifeInvariance, PTL

-----------------------------------------------------------------------------
(* Sequences that are flattened, once more: who comes before whom.          *)

\* Flattening appends one sequence after another.
LEMMA FlattenUnfolds ==
  ASSUME NEW S, NEW ss \in Seq(Seq(S)), ss # <<>>
  PROVE  \E f : /\ FlattenSeq(ss) = f[Len(ss)]
                /\ f[1] = ss[1]
                /\ \A i \in 2..Len(ss) : f[i] = f[i - 1] \o ss[i]
<1> DEFINE n == Len(ss)
           Body(g) == [i \in 1..n |-> IF i = 1 THEN ss[i] ELSE g[i - 1] \o ss[i]]
<1>0. n \in Nat /\ n # 0
  OBVIOUS
<1> DEFINE K == {k \in Nat : \E g : \A i \in 1..n : i <= k => g[i] = Body(g)[i]}
<1>1. 0 \in K
  OBVIOUS
<1>2. ASSUME NEW k \in Nat, NEW g, \A i \in 1..n : i <= k => g[i] = Body(g)[i]
      PROVE  \A i \in 1..n : i <= k + 1 => Body(g)[i] = Body(Body(g))[i]
  <2> SUFFICES ASSUME NEW i \in 1..n, i <= k + 1
               PROVE  Body(g)[i] = Body(Body(g))[i]
    OBVIOUS
  <2>1. CASE i = 1
    BY <2>1
  <2>2. CASE i # 1
    <3>1. i - 1 \in 1..n /\ i - 1 <= k
      BY <2>2
    <3>2. g[i - 1] = Body(g)[i - 1]
      BY <1>2, <3>1
    <3> QED BY <2>2, <3>2
  <2> QED BY <2>1, <2>2
<1>3. ASSUME NEW k \in Nat, k \in K
      PROVE  k + 1 \in K
  <2> HIDE DEF Body
  <2>1. PICK g : \A i \in 1..n : i <= k => g[i] = Body(g)[i]
    BY <1>3
  <2>2. \A i \in 1..n : i <= k + 1 => Body(g)[i] = Body(Body(g))[i]
    BY <1>2, <2>1
  <2> QED BY <2>2
<1>4. n \in K
  <2> HIDE DEF K
  <2>1. Nat \subseteq K
    BY <1>1, <1>3, ByInduction
  <2> QED BY <1>0, <2>1
<1>5. PICK g : \A i \in 1..n : i <= n => g[i] = Body(g)[i]
  BY <1>4
<1>6. Body(g) = Body(Body(g))
  <2>1. \A i \in 1..n : i <= n + 1 => Body(g)[i] = Body(Body(g))[i]
    <3> HIDE DEF Body
    <3> QED BY <1>0, <1>2, <1>5
  <2>2. \A i \in 1..n : Body(g)[i] = Body(Body(g))[i]
    <3> HIDE DEF Body
    <3> QED BY <2>1
  <2> QED BY <2>2
<1>7. PICK f : f = Body(f) /\ FlattenSeq(ss) = f[n]
  BY <1>0, <1>6, Zenon DEF FlattenSeq
<1>8. f[1] = ss[1]
  BY <1>0, <1>7
<1>9. ASSUME NEW i \in 2..n PROVE f[i] = f[i - 1] \o ss[i]
  <2>1. f[i] = Body(f)[i]
    <3> HIDE DEF Body
    <3> QED BY <1>7
  <2>2. i \in 1..n /\ i # 1
    BY <1>0
  <2> QED BY <2>1, <2>2
<1> QED BY <1>7, <1>8, <1>9

\* An element of one of the sequences has a place in all of them together, and
\* what is in an earlier sequence, or earlier in its own, has an earlier one.
InPlace(F, ss, n) ==
  /\ \A k \in DOMAIN F : \E t \in 1..n : \E o \in DOMAIN ss[t] :
       /\ F[k] = ss[t][o]
       /\ \A u \in 1..n : \A v \in DOMAIN ss[u] :
            u < t \/ (u = t /\ v < o) => \E l \in DOMAIN F : l < k /\ F[l] = ss[u][v]
  /\ \A u \in 1..n : \A v \in DOMAIN ss[u] : \E l \in DOMAIN F : F[l] = ss[u][v]

LEMMA InPlaceStep ==
  ASSUME NEW S, NEW ss \in Seq(Seq(S)), NEW n \in Nat, n + 1 \in DOMAIN ss,
         NEW F \in Seq(S), InPlace(F, ss, n)
  PROVE  InPlace(F \o ss[n + 1], ss, n + 1)
<1> DEFINE G == F \o ss[n + 1]
           m == Len(F)
<1>1. ss[n + 1] \in Seq(S) /\ m \in Nat /\ Len(ss[n + 1]) \in Nat
  OBVIOUS
<1>2. /\ DOMAIN F = 1..m /\ DOMAIN G = 1..(m + Len(ss[n + 1]))
      /\ \A k \in 1..m : G[k] = F[k]
      /\ \A v \in DOMAIN ss[n + 1] : m + v \in DOMAIN G /\ G[m + v] = ss[n + 1][v]
  BY <1>1
<1> HIDE DEF G, m
<1>3. ASSUME NEW u \in 1..(n + 1), NEW v \in DOMAIN ss[u], u # n + 1
      PROVE  \E l \in 1..m : G[l] = ss[u][v]
  <2>1. u \in 1..n
    BY <1>3
  <2>2. PICK l \in DOMAIN F : F[l] = ss[u][v]
    BY <2>1 DEF InPlace
  <2> QED BY <1>2, <2>2
<1>4. ASSUME NEW u \in 1..(n + 1), NEW v \in DOMAIN ss[u]
      PROVE  \E l \in DOMAIN G : G[l] = ss[u][v]
  <2>1. CASE u = n + 1
    <3>1. m + v \in DOMAIN G /\ G[m + v] = ss[u][v]
      BY <1>2, <2>1
    <3> QED BY <3>1
  <2>2. CASE u # n + 1
    <3>1. PICK l \in 1..m : G[l] = ss[u][v]
      BY <1>3, <2>2
    <3>2. l \in DOMAIN G
      BY <1>1, <1>2, <3>1
    <3> QED BY <3>1, <3>2
  <2> QED BY <2>1, <2>2
<1>5. ASSUME NEW k \in DOMAIN G
      PROVE  \E t \in 1..(n + 1) : \E o \in DOMAIN ss[t] :
               /\ G[k] = ss[t][o]
               /\ \A u \in 1..(n + 1) : \A v \in DOMAIN ss[u] :
                    u < t \/ (u = t /\ v < o) => \E l \in DOMAIN G : l < k /\ G[l] = ss[u][v]
  <2>1. CASE k \in 1..m
    <3>1. PICK t \in 1..n : \E o \in DOMAIN ss[t] :
            /\ F[k] = ss[t][o]
            /\ \A u \in 1..n : \A v \in DOMAIN ss[u] :
                 u < t \/ (u = t /\ v < o) => \E l \in DOMAIN F : l < k /\ F[l] = ss[u][v]
      BY <1>2, <2>1 DEF InPlace
    <3>2. PICK o \in DOMAIN ss[t] :
            /\ F[k] = ss[t][o]
            /\ \A u \in 1..n : \A v \in DOMAIN ss[u] :
                 u < t \/ (u = t /\ v < o) => \E l \in DOMAIN F : l < k /\ F[l] = ss[u][v]
      BY <3>1
    <3>3. ASSUME NEW u \in 1..(n + 1), NEW v \in DOMAIN ss[u], u < t \/ (u = t /\ v < o)
          PROVE  \E l \in DOMAIN G : l < k /\ G[l] = ss[u][v]
      <4>1. u \in 1..n
        BY <3>3
      <4>2. PICK l \in DOMAIN F : l < k /\ F[l] = ss[u][v]
        BY <3>2, <3>3, <4>1
      <4>3. l \in DOMAIN G /\ G[l] = F[l]
        BY <1>1, <1>2, <4>2
      <4> QED BY <4>2, <4>3
    <3>4. t \in 1..(n + 1) /\ G[k] = ss[t][o]
      BY <1>2, <2>1, <3>2
    <3> QED BY <3>2, <3>3, <3>4
  <2>2. CASE k \notin 1..m
    <3>1. PICK o \in DOMAIN ss[n + 1] : k = m + o
      <4>1. k - m \in 1..Len(ss[n + 1]) /\ k = m + (k - m)
        BY <1>1, <1>2, <2>2
      <4>2. DOMAIN ss[n + 1] = 1..Len(ss[n + 1])
        BY <1>1
      <4> QED BY <4>1, <4>2
    <3>2. ASSUME NEW u \in 1..(n + 1), NEW v \in DOMAIN ss[u],
                 u < n + 1 \/ (u = n + 1 /\ v < o)
          PROVE  \E l \in DOMAIN G : l < k /\ G[l] = ss[u][v]
      <4>1. CASE u # n + 1
        <5>1. PICK l \in 1..m : G[l] = ss[u][v]
          BY <1>3, <4>1
        <5>2. l \in DOMAIN G /\ l < k
          BY <1>1, <1>2, <2>2, <5>1
        <5> QED BY <5>1, <5>2
      <4>2. CASE u = n + 1
        <5>1. m + v \in DOMAIN G /\ G[m + v] = ss[u][v]
          BY <1>2, <4>2
        <5>2. v \in Nat /\ o \in Nat /\ v < o
          BY <1>1, <3>2, <4>2
        <5>3. m + v < k
          BY <1>1, <3>1, <5>2
        <5> QED BY <5>1, <5>3
      <4> QED BY <4>1, <4>2
    <3>3. n + 1 \in 1..(n + 1) /\ G[k] = ss[n + 1][o]
      BY <1>2, <3>1
    <3> QED BY <3>2, <3>3
  <2> QED BY <2>1, <2>2
<1>6. InPlace(G, ss, n + 1)
  BY <1>4, <1>5, Zenon DEF InPlace
<1> QED BY <1>6 DEF G

LEMMA FlattenInPlace ==
  ASSUME NEW S, NEW ss \in Seq(Seq(S))
  PROVE  FlattenSeq(ss) \in Seq(S) /\ InPlace(FlattenSeq(ss), ss, Len(ss))
<1>0. Len(ss) \in Nat /\ FlattenSeq(ss) \in Seq(S)
  BY FlattenIsSeq
<1>1. CASE ss = <<>>
  <2>1. Len(ss) = 0 /\ FlattenSeq(ss) = <<>>
    BY <1>1 DEF FlattenSeq
  <2>2. DOMAIN <<>> = {} /\ 1..0 = {}
    OBVIOUS
  <2> QED BY <1>0, <2>1, <2>2 DEF InPlace
<1>2. CASE ss # <<>>
  <2>1. PICK f : /\ FlattenSeq(ss) = f[Len(ss)]
                 /\ f[1] = ss[1]
                 /\ \A i \in 2..Len(ss) : f[i] = f[i - 1] \o ss[i]
    BY <1>2, FlattenUnfolds
  <2> DEFINE K == {k \in Nat : k + 1 \in 1..Len(ss) =>
                                 f[k + 1] \in Seq(S) /\ InPlace(f[k + 1], ss, k + 1)}
  <2>2. 0 \in K
    <3>1. ss[1] \in Seq(S)
      BY <1>2
    <3>2. 1..1 = {1} /\ DOMAIN ss[1] \subseteq Nat
      BY <3>1
    <3>3. InPlace(f[1], ss, 1)
      BY <2>1, <3>2 DEF InPlace
    <3> QED BY <2>1, <3>1, <3>3
  <2>3. ASSUME NEW k \in Nat, k \in K PROVE k + 1 \in K
    <3> SUFFICES ASSUME (k + 1) + 1 \in 1..Len(ss)
                 PROVE  f[(k + 1) + 1] \in Seq(S) /\ InPlace(f[(k + 1) + 1], ss, (k + 1) + 1)
      OBVIOUS
    <3>1. f[k + 1] \in Seq(S) /\ InPlace(f[k + 1], ss, k + 1)
      BY <1>0, <2>3
    <3>2. f[(k + 1) + 1] = f[k + 1] \o ss[(k + 1) + 1]
      <4>1. (k + 1) + 1 \in 2..Len(ss) /\ ((k + 1) + 1) - 1 = k + 1
        BY <1>0
      <4> QED BY <2>1, <4>1
    <3>3. (k + 1) + 1 \in DOMAIN ss /\ ss[(k + 1) + 1] \in Seq(S) /\ k + 1 \in Nat
      OBVIOUS
    <3>4. InPlace(f[k + 1] \o ss[(k + 1) + 1], ss, (k + 1) + 1)
      BY <3>1, <3>3, InPlaceStep
    <3> QED BY <3>1, <3>2, <3>3, <3>4, ConcatProperties
  <2>4. PICK k \in Nat : k + 1 = Len(ss) /\ k \in K
    <3>1. Len(ss) - 1 \in Nat /\ (Len(ss) - 1) + 1 = Len(ss)
      BY <1>0, <1>2
    <3> HIDE DEF K
    <3>2. Nat \subseteq K
      BY <2>2, <2>3, ByInduction
    <3> QED BY <3>1, <3>2
  <2>5. k + 1 \in 1..Len(ss)
    BY <1>0, <2>4
  <2> QED BY <1>0, <2>1, <2>4, <2>5
<1> QED BY <1>1, <1>2

\* Induction from the last number down.
LEMMA ByDownwardInduction ==
  ASSUME NEW n \in Nat, NEW K,
         \A i \in 1..n : (\A j \in 1..n : i < j => j \in K) => i \in K
  PROVE  1..n \subseteq K
<1> DEFINE L == {k \in Nat : \A i \in 1..n : n - i < k => i \in K}
<1>1. 0 \in L
  OBVIOUS
<1>2. ASSUME NEW k \in Nat, k \in L PROVE k + 1 \in L
  <2> SUFFICES ASSUME NEW i \in 1..n, n - i < k + 1 PROVE i \in K
    OBVIOUS
  <2>1. ASSUME NEW j \in 1..n, i < j PROVE j \in K
    <3>1. n - j < k
      BY <2>1
    <3> QED BY <1>2, <3>1
  <2> QED BY <2>1
<1>3. n + 1 \in L
  <2> HIDE DEF L
  <2> QED BY <1>1, <1>2, ByInduction
<1>4. \A i \in 1..n : n - i < n + 1
  OBVIOUS
<1> QED BY <1>3, <1>4

-----------------------------------------------------------------------------
(* The tree of modules.                                                     *)

\* The modules are numbered, and every one of them has its place in each list.
Ids == 1..Len(made)
AnyInstance == Nat \X Providers
Frames == [id : Nat, next : Nat]

TreeTypeOK ==
  /\ program \in Programs
  /\ frames \in Seq(Frames)
  /\ \A x \in DOMAIN frames : frames[x].id \in Ids /\ frames[x].next # 0
  /\ made \in Seq(ModuleClasses)
  /\ held \in Seq(UNION {[D -> AnyInstance] : D \in SUBSET Classes})
  /\ registry \in UNION {[D -> AnyInstance] : D \in SUBSET Classes}
  /\ children \in Seq(Seq(Nat)) /\ parents \in Seq(Seq(Nat))
  /\ inits \in Seq(Seq(AnyInstance))
  /\ Len(held) = Len(made) /\ Len(children) = Len(made)
  /\ Len(parents) = Len(made) /\ Len(inits) = Len(made)
  /\ phase \in [AppIds -> {"off", "making", "setup", "created", "up", "failed"}]
  /\ root \in [AppIds -> Nat] /\ awaits \subseteq AppIds
  /\ \A a \in AppIds : phase[a] # "off" => root[a] \in Ids
  /\ \A a \in awaits : phase[a] # "off"

\* The modules whose constructors called that of one.
Above(id) == ToSet(parents[id])

\* A module is numbered after those above it, and all that are numbered from one of
\* them on up to it are under that one.
Nested ==
  \A i \in Ids :
    /\ Above(i) \subseteq 1..(i - 1)
    /\ \A j \in Above(i) :
         /\ Above(j) \subseteq Above(i)
         /\ \A k \in Ids : j < k /\ k < i => j \in Above(k)

\* The children of a module are right under it, in the order of their numbers.
Grouped ==
  \A i \in Ids : \A k \in DOMAIN children[i] :
    /\ children[i][k] \in Ids
    /\ Above(children[i][k]) = Above(i) \cup {i}
    /\ \A l \in DOMAIN children[i] : k < l => children[i][k] < children[i][l]

Shape == TreeTypeOK /\ Nested /\ Grouped

\* Children are numbered after their parent.
LEMMA ChildrenAfter ==
  ASSUME Shape, NEW i \in Ids
  PROVE  /\ Len(made) \in Nat /\ i \in Nat /\ children[i] \in Seq(Nat)
         /\ \A k \in DOMAIN children[i] :
              /\ children[i][k] \in Ids /\ i < children[i][k]
              /\ i \in Above(children[i][k])
<1>1. Len(made) \in Nat /\ i \in Nat /\ children[i] \in Seq(Nat)
  BY DEF Shape, TreeTypeOK, Ids
<1>2. ASSUME NEW k \in DOMAIN children[i]
      PROVE  /\ children[i][k] \in Ids /\ i < children[i][k]
             /\ i \in Above(children[i][k])
  <2>1. children[i][k] \in Ids /\ i \in Above(children[i][k])
    BY DEF Shape, Grouped
  <2>2. Above(children[i][k]) \subseteq 1..(children[i][k] - 1)
    BY <2>1 DEF Shape, Nested
  <2>3. i \in 1..(children[i][k] - 1)
    BY <2>1, <2>2
  <2> QED BY <1>1, <2>1, <2>3 DEF Ids
<1> QED BY <1>1, <1>2

\* The recursion of collectDescendantModules() is well founded.
LEMMA DescendantModulesUnfold ==
  ASSUME Shape
  PROVE  \A i \in Ids :
           DescendantModules(i)
             = FlattenSeq([k \in DOMAIN children[i] |->
                 Append(DescendantModules(children[i][k]), children[i][k])])
<1> DEFINE Body(g) == [i \in 1..Len(made) |->
      FlattenSeq([k \in DOMAIN children[i] |-> Append(g[children[i][k]], children[i][k])])]
           Right(g, k) == \A i \in 1..Len(made) : Len(made) - i < k => g[i] = Body(g)[i]
           K == {k \in Nat : \E g : Right(g, k)}
<1>0. Len(made) \in Nat
  BY DEF Shape, TreeTypeOK
<1>1. 0 \in K
  BY <1>0
<1>2. ASSUME NEW k \in Nat, NEW g, Right(g, k)
      PROVE  Right(Body(g), k + 1)
  <2> SUFFICES ASSUME NEW i \in 1..Len(made), Len(made) - i < k + 1
               PROVE  Body(g)[i] = Body(Body(g))[i]
    OBVIOUS
  <2>1. \A l \in DOMAIN children[i] : g[children[i][l]] = Body(g)[children[i][l]]
    <3> SUFFICES ASSUME NEW l \in DOMAIN children[i]
                 PROVE  g[children[i][l]] = Body(g)[children[i][l]]
      OBVIOUS
    <3> HIDE DEF Body
    <3>1. children[i][l] \in 1..Len(made) /\ i < children[i][l]
      BY ChildrenAfter DEF Ids
    <3> QED BY <1>0, <1>2, <3>1
  <2>2. [l \in DOMAIN children[i] |-> Append(g[children[i][l]], children[i][l])]
          = [l \in DOMAIN children[i] |-> Append(Body(g)[children[i][l]], children[i][l])]
    <3> HIDE DEF Body
    <3> QED BY <2>1
  <2> QED BY <2>2, Zenon
<1>3. ASSUME NEW k \in Nat, k \in K
      PROVE  k + 1 \in K
  <2> HIDE DEF Body, Right
  <2>1. PICK g : Right(g, k)
    BY <1>3
  <2>2. Right(Body(g), k + 1)
    BY <1>2, <2>1
  <2> QED BY <2>2
<1>4. Len(made) + 1 \in K
  <2> HIDE DEF K
  <2> QED BY <1>0, <1>1, <1>3, ByInduction
<1>n. PICK k \in Nat : k = Len(made) + 1 /\ k \in K
  BY <1>0, <1>4
<1>5. PICK g : Right(g, k)
  BY <1>n
<1>6. Right(Body(g), k + 1)
  <2> HIDE DEF Body, Right
  <2> QED BY <1>2, <1>5
<1>7. Body(g) = Body(Body(g))
  <2>1. \A i \in 1..Len(made) : Body(g)[i] = Body(Body(g))[i]
    <3> HIDE DEF Body
    <3> QED BY <1>0, <1>n, <1>5, <1>6
  <2> QED BY <2>1
<1>8. PICK f : f = Body(f) /\ \A i : DescendantModules(i) = f[i]
  <2>1. \E f : f = Body(f)
    BY <1>7, Zenon
  <2> QED BY <2>1, Zenon DEF DescendantModules
<1>9. ASSUME NEW i \in Ids
      PROVE  DescendantModules(i)
               = FlattenSeq([k2 \in DOMAIN children[i] |->
                   Append(DescendantModules(children[i][k2]), children[i][k2])])
  <2>1. f[i] = FlattenSeq([k2 \in DOMAIN children[i] |->
                             Append(f[children[i][k2]], children[i][k2])])
    BY <1>8 DEF Ids
  <2> QED BY <1>8, <2>1, Zenon
<1> QED BY <1>9

\* What is under a module, and in it its children with what is under them.
Under(i) == {j \in Ids : i \in Above(j)}
Parts(i) == [k \in DOMAIN children[i] |->
               Append(DescendantModules(children[i][k]), children[i][k])]

LEMMA DescendantModulesTyped ==
  ASSUME Shape, NEW i \in Ids
  PROVE  DescendantModules(i) \in Seq(Under(i)) /\ Parts(i) \in Seq(Seq(Under(i)))
<1> DEFINE K == {j \in Ids : DescendantModules(j) \in Seq(Under(j))}
<1>0. Len(made) \in Nat
  BY DEF Shape, TreeTypeOK
<1>1. ASSUME NEW j \in Ids, \A l \in Ids : j < l => l \in K
      PROVE  Parts(j) \in Seq(Seq(Under(j)))
  <2>1. ASSUME NEW k \in DOMAIN children[j]
        PROVE  Append(DescendantModules(children[j][k]), children[j][k]) \in Seq(Under(j))
    <3> DEFINE c == children[j][k]
    <3>1. c \in Ids /\ j < c /\ j \in Above(c)
      BY ChildrenAfter
    <3>2. DescendantModules(c) \in Seq(Under(c))
      BY <1>1, <3>1
    <3>3. Under(c) \subseteq Under(j)
      BY <3>1 DEF Shape, Nested, Under
    <3>4. c \in Under(j)
      BY <3>1 DEF Under
    <3>5. DescendantModules(c) \in Seq(Under(j))
      BY <3>2, <3>3
    <3> HIDE DEF c
    <3>6. Append(DescendantModules(c), c) \in Seq(Under(j))
      BY <3>4, <3>5, AppendProperties
    <3> QED BY <3>6 DEF c
  <2>2. Parts(j) \in [DOMAIN children[j] -> Seq(Under(j))]
    BY <2>1, Zenon DEF Parts
  <2>3. children[j] \in Seq(Nat)
    BY ChildrenAfter
  <2> QED BY <2>2, <2>3, MappedIsSeq, Zenon
<1>2. ASSUME NEW j \in Ids, \A l \in Ids : j < l => l \in K
      PROVE  j \in K
  <2>1. Parts(j) \in Seq(Seq(Under(j)))
    BY <1>1, <1>2
  <2>2. FlattenSeq(Parts(j)) \in Seq(Under(j))
    BY <2>1, FlattenIsSeq, Zenon
  <2>3. DescendantModules(j) = FlattenSeq(Parts(j))
    BY DescendantModulesUnfold, Zenon DEF Parts
  <2> QED BY <2>2, <2>3
<1>3. Ids \subseteq K
  <2> HIDE DEF K
  <2> QED BY <1>0, <1>2, ByDownwardInduction DEF Ids
<1> QED BY <1>1, <1>3

\* What stands where in the parts.
LEMMA PartsAre ==
  ASSUME Shape, NEW i \in Ids, NEW k \in DOMAIN children[i],
         NEW c, c = children[i][k], NEW d, d = DescendantModules(c)
  PROVE  /\ c \in Ids /\ d \in Seq(Under(c)) /\ Len(d) \in Nat
         /\ DOMAIN Parts(i)[k] = 1..(Len(d) + 1)
         /\ \A o \in 1..Len(d) : Parts(i)[k][o] = d[o] /\ d[o] \in Under(c)
         /\ Parts(i)[k][Len(d) + 1] = c
<1>1. c \in Ids
  BY ChildrenAfter
<1>2. d \in Seq(Under(c)) /\ c \in Nat
  BY <1>1, DescendantModulesTyped DEF Ids
<1>3. Parts(i)[k] = Append(d, c)
  BY DEF Parts
<1>4. \A o \in 1..Len(d) : d[o] \in Under(c)
  BY <1>2
<1>5. d \in Seq(Under(c) \cup {c}) /\ c \in Under(c) \cup {c}
  BY <1>2
<1>6. /\ Len(Append(d, c)) = Len(d) + 1 /\ Append(d, c) \in Seq(Under(c) \cup {c})
      /\ \A o \in 1..Len(d) : Append(d, c)[o] = d[o]
      /\ Append(d, c)[Len(d) + 1] = c
  BY <1>5, AppendElements
<1>7. Len(d) \in Nat /\ DOMAIN Append(d, c) = 1..(Len(d) + 1)
  BY <1>2, <1>6
<1> QED BY <1>1, <1>2, <1>3, <1>4, <1>6, <1>7

\* Under a module are its children and what is under them.
LEMMA DescendantModulesAre ==
  ASSUME Shape, NEW i \in Ids
  PROVE  /\ DescendantModules(i) \in Seq(Under(i)) /\ Len(Parts(i)) \in Nat
         /\ InPlace(DescendantModules(i), Parts(i), Len(Parts(i)))
         /\ 1..Len(Parts(i)) = DOMAIN children[i]
<1>1. Parts(i) \in Seq(Seq(Under(i))) /\ DescendantModules(i) \in Seq(Under(i))
  BY DescendantModulesTyped
<1>2. DescendantModules(i) = FlattenSeq(Parts(i))
  BY DescendantModulesUnfold, Zenon DEF Parts
<1>3. InPlace(FlattenSeq(Parts(i)), Parts(i), Len(Parts(i)))
  BY <1>1, FlattenInPlace
<1>4. DOMAIN Parts(i) = DOMAIN children[i]
  BY DEF Parts
<1>5. DOMAIN Parts(i) = 1..Len(Parts(i)) /\ Len(Parts(i)) \in Nat
  BY <1>1
<1> QED BY <1>1, <1>2, <1>3, <1>4, <1>5

LEMMA DescendantModulesClosed ==
  ASSUME Shape, NEW i \in Ids
  PROVE  \A j \in {i} \cup ToSet(DescendantModules(i)) : \A k \in DOMAIN children[j] :
           children[j][k] \in ToSet(DescendantModules(i))
<1> DEFINE Closed(j) ==
      \A m \in {j} \cup ToSet(DescendantModules(j)) : \A k \in DOMAIN children[m] :
        children[m][k] \in ToSet(DescendantModules(j))
           K == {j \in Ids : Closed(j)}
<1>0. Len(made) \in Nat
  BY DEF Shape, TreeTypeOK
<1>1. ASSUME NEW j \in Ids, \A l \in Ids : j < l => l \in K
      PROVE  j \in K
  <2>0. InPlace(DescendantModules(j), Parts(j), Len(Parts(j)))
        /\ 1..Len(Parts(j)) = DOMAIN children[j]
    BY DescendantModulesAre
  <2>1. ASSUME NEW k \in DOMAIN children[j]
        PROVE  /\ children[j][k] \in ToSet(DescendantModules(j))
               /\ ToSet(DescendantModules(children[j][k])) \subseteq ToSet(DescendantModules(j))
    <3>1. PICK c : c = children[j][k]
      OBVIOUS
    <3>2. PICK d : d = DescendantModules(c)
      OBVIOUS
    <3>3. /\ d \in Seq(Under(c)) /\ Len(d) \in Nat
          /\ DOMAIN Parts(j)[k] = 1..(Len(d) + 1)
          /\ \A o \in 1..Len(d) : Parts(j)[k][o] = d[o]
          /\ Parts(j)[k][Len(d) + 1] = c
      BY <3>1, <3>2, PartsAre
    <3>4. \A o \in DOMAIN Parts(j)[k] : Parts(j)[k][o] \in ToSet(DescendantModules(j))
      <4>1. k \in 1..Len(Parts(j))
        BY <2>0
      <4> QED BY <2>0, <4>1 DEF InPlace, ToSet
    <3>5. c \in ToSet(DescendantModules(j))
      <4>1. Len(d) + 1 \in DOMAIN Parts(j)[k]
        BY <3>3
      <4> QED BY <3>3, <3>4, <4>1
    <3>6. ToSet(d) \subseteq ToSet(DescendantModules(j))
      <4>1. DOMAIN d = 1..Len(d)
        BY <3>3
      <4>2. \A o \in DOMAIN d : o \in DOMAIN Parts(j)[k] /\ Parts(j)[k][o] = d[o]
        BY <3>3, <4>1
      <4> QED BY <3>4, <4>2 DEF ToSet
    <3> QED BY <3>1, <3>2, <3>5, <3>6
  <2>2. ASSUME NEW m \in ToSet(DescendantModules(j)), NEW n \in DOMAIN children[m]
        PROVE  children[m][n] \in ToSet(DescendantModules(j))
    <3>1. PICK y \in DOMAIN DescendantModules(j) : m = DescendantModules(j)[y]
      BY DEF ToSet
    <3>2. PICK k \in DOMAIN children[j] : \E o \in DOMAIN Parts(j)[k] : m = Parts(j)[k][o]
      BY <2>0, <3>1 DEF InPlace
    <3>3. PICK c : c = children[j][k]
      OBVIOUS
    <3>4. PICK d : d = DescendantModules(c)
      OBVIOUS
    <3>5. /\ d \in Seq(Under(c)) /\ Len(d) \in Nat
          /\ DOMAIN Parts(j)[k] = 1..(Len(d) + 1)
          /\ \A o \in 1..Len(d) : Parts(j)[k][o] = d[o]
          /\ Parts(j)[k][Len(d) + 1] = c
      BY <3>3, <3>4, PartsAre
    <3>6. c \in Ids /\ j < c
      BY <3>3, ChildrenAfter
    <3>7. Closed(c)
      BY <1>1, <3>6
    <3>8. m \in {c} \cup ToSet(DescendantModules(c))
      <4>1. PICK o \in 1..(Len(d) + 1) : m = Parts(j)[k][o]
        BY <3>2, <3>5
      <4>2. CASE o = Len(d) + 1
        BY <3>5, <4>1, <4>2
      <4>3. CASE o # Len(d) + 1
        <5>1. o \in 1..Len(d) /\ DOMAIN d = 1..Len(d)
          BY <3>5, <4>3
        <5>2. m = d[o] /\ o \in DOMAIN d
          BY <3>5, <4>1, <5>1
        <5> QED BY <3>4, <5>2 DEF ToSet
      <4> QED BY <4>2, <4>3
    <3>9. children[m][n] \in ToSet(DescendantModules(c))
      BY <3>7, <3>8
    <3> QED BY <2>1, <3>3, <3>9
  <2> QED BY <2>1, <2>2
<1>2. Ids \subseteq K
  <2> HIDE DEF K
  <2> QED BY <1>0, <1>1, ByDownwardInduction DEF Ids
<1> QED BY <1>2

\* They are in every set that has the module and the children of what is there.
LEMMA DescendantModulesLeast ==
  ASSUME Shape, NEW D, NEW i \in Ids, i \in D,
         \A j \in D : \A k \in DOMAIN children[j] : children[j][k] \in D
  PROVE  ToSet(DescendantModules(i)) \subseteq D
<1> DEFINE K == {j \in Ids : j \in D => ToSet(DescendantModules(j)) \subseteq D}
<1>0. Len(made) \in Nat
  BY DEF Shape, TreeTypeOK
<1>1. ASSUME NEW j \in Ids, \A l \in Ids : j < l => l \in K
      PROVE  j \in K
  <2> SUFFICES ASSUME j \in D, NEW m \in ToSet(DescendantModules(j)) PROVE m \in D
    OBVIOUS
  <2>0. InPlace(DescendantModules(j), Parts(j), Len(Parts(j)))
        /\ 1..Len(Parts(j)) = DOMAIN children[j]
    BY DescendantModulesAre
  <2>1. PICK y \in DOMAIN DescendantModules(j) : m = DescendantModules(j)[y]
    BY DEF ToSet
  <2>2. PICK k \in DOMAIN children[j] : \E o \in DOMAIN Parts(j)[k] : m = Parts(j)[k][o]
    BY <2>0, <2>1 DEF InPlace
  <2>3. PICK c : c = children[j][k]
    OBVIOUS
  <2>4. PICK d : d = DescendantModules(c)
    OBVIOUS
  <2>5. /\ d \in Seq(Under(c)) /\ Len(d) \in Nat
        /\ DOMAIN Parts(j)[k] = 1..(Len(d) + 1)
        /\ \A o \in 1..Len(d) : Parts(j)[k][o] = d[o]
        /\ Parts(j)[k][Len(d) + 1] = c
    BY <2>3, <2>4, PartsAre
  <2>6. c \in Ids /\ j < c /\ c \in D
    BY <2>3, ChildrenAfter
  <2>7. ToSet(d) \subseteq D
    BY <1>1, <2>4, <2>6
  <2>8. PICK o \in 1..(Len(d) + 1) : m = Parts(j)[k][o]
    BY <2>2, <2>5
  <2>9. CASE o = Len(d) + 1
    BY <2>5, <2>6, <2>8, <2>9
  <2>10. CASE o # Len(d) + 1
    <3>1. o \in 1..Len(d) /\ DOMAIN d = 1..Len(d)
      BY <2>5, <2>10
    <3>2. m = d[o] /\ o \in DOMAIN d
      BY <2>5, <2>8, <3>1
    <3> QED BY <2>7, <3>2 DEF ToSet
  <2> QED BY <2>9, <2>10
<1>2. Ids \subseteq K
  <2> HIDE DEF K
  <2> QED BY <1>0, <1>1, ByDownwardInduction DEF Ids
<1> QED BY <1>2

\* The constructor of one module returns before that of another: it is called by
\* that one, or by one that had returned before that one was called.
ReturnsBefore(j, i) == i \in Above(j) \/ (j < i /\ j \notin Above(i))

\* Two children of a module, and what is under them.
LEMMA SiblingsApart ==
  ASSUME Shape, NEW i \in Ids, NEW k \in DOMAIN children[i], NEW l \in DOMAIN children[i], k < l,
         NEW c, c = children[i][k], NEW b, b = children[i][l],
         NEW e \in {c} \cup Under(c), NEW j \in {b} \cup Under(b)
  PROVE  ~ReturnsBefore(j, e)
<1>1. /\ c \in Ids /\ i < c /\ b \in Ids /\ i \in Nat /\ Len(made) \in Nat
  BY ChildrenAfter
<1>2. c < b /\ Above(b) = Above(i) \cup {i}
  BY DEF Shape, Grouped
<1>3. Above(i) \subseteq 1..(i - 1) /\ Above(j) \subseteq 1..(j - 1) /\ Above(e) \subseteq 1..(e - 1)
      /\ e \in Ids /\ j \in Ids
  BY <1>1 DEF Shape, Nested, Under
<1>4. e \in Nat /\ j \in Nat /\ b \in Nat /\ c \in Nat
  BY <1>1, <1>3 DEF Ids
<1>5. c <= e /\ b <= j
  <2>1. e = c \/ c \in 1..(e - 1)
    BY <1>3 DEF Under
  <2>2. j = b \/ b \in 1..(j - 1)
    BY <1>3 DEF Under
  <2> QED BY <1>4, <2>1, <2>2
<1>6. c \notin Above(b) /\ e \notin Above(b)
  <2>1. Above(b) \subseteq 0..i
    BY <1>1, <1>2, <1>3
  <2> QED BY <1>1, <1>4, <1>5, <2>1
<1>7. e < b
  <2>1. CASE e = c
    BY <1>2, <2>1
  <2>2. CASE e # c
    <3>1. c \in Above(e)
      BY <2>2 DEF Under
    <3>2. e # b
      BY <1>6, <3>1
    <3>3. ~(b < e)
      BY <1>1, <1>2, <1>3, <1>6, <3>1 DEF Shape, Nested
    <3> QED BY <1>4, <3>2, <3>3
  <2> QED BY <2>1, <2>2
<1>8. e \notin Above(j)
  <2> SUFFICES ASSUME e \in Above(j) PROVE FALSE
    OBVIOUS
  <2>1. j # b
    BY <1>6
  <2>2. b < j
    BY <1>4, <1>5, <2>1
  <2>3. e \in Above(b)
    BY <1>1, <1>3, <1>7, <2>2 DEF Shape, Nested
  <2> QED BY <1>6, <2>3
<1> QED BY <1>4, <1>5, <1>7, <1>8 DEF ReturnsBefore

\* collectDescendantModules() lists the modules in the order in which their
\* constructors return.
LEMMA PostOrder ==
  ASSUME Shape, NEW i \in Ids
  PROVE  \A y \in DOMAIN DescendantModules(i) : \A j \in ToSet(DescendantModules(i)) :
           ReturnsBefore(j, DescendantModules(i)[y]) =>
             \E x \in DOMAIN DescendantModules(i) : x < y /\ DescendantModules(i)[x] = j
<1> DEFINE Ordered(r) ==
      \A y \in DOMAIN DescendantModules(r) : \A j \in ToSet(DescendantModules(r)) :
        ReturnsBefore(j, DescendantModules(r)[y]) =>
          \E x \in DOMAIN DescendantModules(r) : x < y /\ DescendantModules(r)[x] = j
           K == {r \in Ids : Ordered(r)}
<1>0. Len(made) \in Nat
  BY DEF Shape, TreeTypeOK
<1>1. ASSUME NEW r \in Ids, \A l \in Ids : r < l => l \in K
      PROVE  r \in K
  <2>0. /\ InPlace(DescendantModules(r), Parts(r), Len(Parts(r)))
        /\ 1..Len(Parts(r)) = DOMAIN children[r]
    BY DescendantModulesAre
  <2>1. PICK F : F = DescendantModules(r)
    OBVIOUS
  <2> SUFFICES ASSUME NEW y \in DOMAIN F, NEW j \in ToSet(F), ReturnsBefore(j, F[y])
               PROVE  \E x \in DOMAIN F : x < y /\ F[x] = j
    BY <2>1
  <2>2. PICK t \in DOMAIN children[r] : \E o \in DOMAIN Parts(r)[t] :
          /\ F[y] = Parts(r)[t][o]
          /\ \A u \in DOMAIN children[r] : \A v \in DOMAIN Parts(r)[u] :
               u < t \/ (u = t /\ v < o) => \E x \in DOMAIN F : x < y /\ F[x] = Parts(r)[u][v]
    BY <2>0, <2>1 DEF InPlace
  <2>3. PICK o \in DOMAIN Parts(r)[t] :
          /\ F[y] = Parts(r)[t][o]
          /\ \A u \in DOMAIN children[r] : \A v \in DOMAIN Parts(r)[u] :
               u < t \/ (u = t /\ v < o) => \E x \in DOMAIN F : x < y /\ F[x] = Parts(r)[u][v]
    BY <2>2
  <2>4. PICK u \in DOMAIN children[r] : \E v \in DOMAIN Parts(r)[u] : j = Parts(r)[u][v]
    <3>1. PICK z \in DOMAIN F : F[z] = j
      BY DEF ToSet
    <3> QED BY <2>0, <2>1, <3>1 DEF InPlace
  <2>5. PICK v \in DOMAIN Parts(r)[u] : j = Parts(r)[u][v]
    BY <2>4
  <2>6. PICK c : c = children[r][t]
    OBVIOUS
  <2>7. PICK d : d = DescendantModules(c)
    OBVIOUS
  <2>8. /\ c \in Ids /\ d \in Seq(Under(c)) /\ Len(d) \in Nat
        /\ DOMAIN Parts(r)[t] = 1..(Len(d) + 1)
        /\ \A m \in 1..Len(d) : Parts(r)[t][m] = d[m] /\ d[m] \in Under(c)
        /\ Parts(r)[t][Len(d) + 1] = c
    BY <2>6, <2>7, PartsAre
  <2>9. F[y] \in {c} \cup Under(c)
    BY <2>3, <2>8
  <2>10. CASE u < t
    BY <2>3, <2>5, <2>10
  <2>11. CASE t < u
    <3>1. PICK b : b = children[r][u]
      OBVIOUS
    <3>2. PICK d2 : d2 = DescendantModules(b)
      OBVIOUS
    <3>3. /\ Len(d2) \in Nat
          /\ DOMAIN Parts(r)[u] = 1..(Len(d2) + 1)
          /\ \A m \in 1..Len(d2) : Parts(r)[u][m] = d2[m] /\ d2[m] \in Under(b)
          /\ Parts(r)[u][Len(d2) + 1] = b
      BY <3>1, <3>2, PartsAre
    <3>4. j \in {b} \cup Under(b)
      BY <2>5, <3>3
    <3> QED BY <2>6, <2>9, <2>11, <3>1, <3>4, SiblingsApart
  <2>12. CASE u = t
    <3>1. c \in Nat /\ Above(c) \subseteq 1..(c - 1)
      BY <2>8 DEF Shape, Nested, Ids
    <3>2. CASE o = Len(d) + 1
      <4>1. F[y] = c
        BY <2>3, <2>8, <3>2
      <4>2. v # Len(d) + 1
        <5> SUFFICES ASSUME v = Len(d) + 1 PROVE FALSE
          OBVIOUS
        <5>1. ReturnsBefore(c, c)
          BY <2>5, <2>8, <2>12, <4>1
        <5> QED BY <3>1, <5>1 DEF ReturnsBefore
      <4>3. v < o
        BY <2>5, <2>8, <2>12, <3>2, <4>2
      <4> QED BY <2>3, <2>5, <2>12, <4>3
    <3>3. CASE o # Len(d) + 1
      <4>1. o \in 1..Len(d) /\ DOMAIN d = 1..Len(d)
        BY <2>8, <3>3
      <4>2. F[y] = d[o] /\ d[o] \in Under(c)
        BY <2>3, <2>8, <4>1
      <4>3. v # Len(d) + 1
        <5> SUFFICES ASSUME v = Len(d) + 1 PROVE FALSE
          OBVIOUS
        <5>1. ReturnsBefore(c, d[o])
          BY <2>5, <2>8, <2>12, <4>2
        <5>2. d[o] \in Ids /\ c \in Above(d[o])
          BY <4>2 DEF Under
        <5>3. c \in 1..(d[o] - 1)
          BY <5>2 DEF Shape, Nested
        <5>4. d[o] \in Nat
          BY <5>2 DEF Ids
        <5> QED BY <3>1, <5>1, <5>2, <5>3, <5>4 DEF ReturnsBefore
      <4>4. v \in 1..Len(d) /\ j = d[v]
        BY <2>5, <2>8, <2>12, <4>3
      <4>5. Ordered(c)
        <5>1. r < c
          BY <2>6, ChildrenAfter
        <5> QED BY <1>1, <2>8, <5>1
      <4>6. PICK x \in DOMAIN d : x < o /\ d[x] = j
        <5>1. j \in ToSet(d)
          BY <4>1, <4>4 DEF ToSet
        <5> QED BY <2>7, <4>1, <4>2, <4>5, <5>1
      <4>7. x \in DOMAIN Parts(r)[t] /\ Parts(r)[t][x] = j
        BY <2>8, <4>1, <4>6
      <4> QED BY <2>3, <4>6, <4>7
    <3> QED BY <3>2, <3>3
  <2>13. u \in Nat /\ t \in Nat
    <3>1. children[r] \in Seq(Nat)
      BY ChildrenAfter
    <3> QED BY <3>1
  <2> QED BY <2>10, <2>11, <2>12, <2>13
<1>2. Ids \subseteq K
  <2> HIDE DEF K
  <2> QED BY <1>0, <1>1, ByDownwardInduction DEF Ids
<1> QED BY <1>2

-----------------------------------------------------------------------------
(* What the modules hold, and the order in which setup() initialises it.    *)

\* What a module holds is its own or comes from modules that were constructed
\* before it was, the registry has what returned.
Provenance ==
  /\ \A i \in Ids : \A d \in DOMAIN held[i] :
       /\ held[i][d][1] \in Ids /\ made[held[i][d][1]] = d[1]
       /\ held[i][d][1] = i \/ ReturnsBefore(held[i][d][1], i)
  /\ \A d \in DOMAIN registry :
       /\ registry[d][1] \in Ids /\ made[registry[d][1]] = d[1]
       /\ \A x \in DOMAIN frames : registry[d][1] # frames[x].id

\* The services of a module are queued after those of it that they are given.
InOrder ==
  \A i \in Ids :
    /\ inits[i] \in Seq({i} \X Providers)
    /\ \A k \in DOMAIN inits[i] : \A q \in program.deps[made[i]][inits[i][k][2]] :
         \E l \in DOMAIN inits[i] : l < k /\ inits[i][l] = <<i, q>>

\* The modules of an application, and what each of them has queued.
LEMMA TreeIs ==
  ASSUME Shape, NEW a \in AppIds, root[a] \in Ids
  PROVE  /\ DescendantModules(root[a]) \in Seq(Ids) /\ Len(DescendantModules(root[a])) \in Nat
         /\ DOMAIN DescendantModules(root[a]) = 1..Len(DescendantModules(root[a]))
         /\ DOMAIN Tree(a) = 1..(Len(DescendantModules(root[a])) + 1)
         /\ Tree(a) \in Seq(Ids) /\ Tree(a)[1] = root[a]
         /\ \A y \in DOMAIN DescendantModules(root[a]) :
              Tree(a)[y + 1] = DescendantModules(root[a])[y]
<1> DEFINE d == DescendantModules(root[a])
           i == root[a]
<1>1. d \in Seq(Ids)
  <2>1. d \in Seq(Under(i))
    BY DescendantModulesTyped
  <2>2. Under(i) \subseteq Ids
    BY DEF Under
  <2> HIDE DEF d, i
  <2> QED BY <2>1, <2>2
<1>2. Tree(a) = <<i>> \o d
  BY DEF Tree
<1>3. i \in Ids
  OBVIOUS
<1> HIDE DEF d, i
<1>4. /\ <<i>> \o d \in Seq(Ids) /\ Len(d) \in Nat
      /\ DOMAIN d = 1..Len(d) /\ DOMAIN (<<i>> \o d) = 1..(Len(d) + 1)
      /\ (<<i>> \o d)[1] = i
      /\ \A y \in DOMAIN d : (<<i>> \o d)[y + 1] = d[y]
  BY <1>1, <1>3
<1> QED BY <1>1, <1>2, <1>4 DEF d, i

Queued(a) == [k \in DOMAIN Tree(a) |-> inits[Tree(a)[k]]]

LEMMA InitOrderIs ==
  ASSUME Shape, NEW a \in AppIds, root[a] \in Ids
  PROVE  /\ InitOrder(a) \in Seq(AnyInstance)
         /\ InPlace(InitOrder(a), Queued(a), Len(Queued(a)))
         /\ 1..Len(Queued(a)) = DOMAIN Tree(a)
         /\ \A k \in DOMAIN Tree(a) : Tree(a)[k] \in Ids /\ Queued(a)[k] = inits[Tree(a)[k]]
<1>1. Tree(a) \in Seq(Ids)
  BY TreeIs
<1>2. inits \in [Ids -> Seq(AnyInstance)]
  BY DEF Shape, TreeTypeOK, Ids
<1>3. \A k \in DOMAIN Tree(a) : Tree(a)[k] \in Ids
  BY <1>1
<1>4. Queued(a) \in [DOMAIN Tree(a) -> Seq(AnyInstance)]
  BY <1>2, <1>3 DEF Queued
<1>5. Queued(a) \in Seq(Seq(AnyInstance))
  BY <1>1, <1>4, MappedIsSeq, Zenon
<1>6. InitOrder(a) = FlattenSeq(Queued(a))
  BY DEF InitOrder, Queued
<1>7. DOMAIN Queued(a) = 1..Len(Queued(a))
  BY <1>5
<1>8. /\ FlattenSeq(Queued(a)) \in Seq(AnyInstance)
      /\ InPlace(FlattenSeq(Queued(a)), Queued(a), Len(Queued(a)))
  BY <1>5, FlattenInPlace
<1> QED BY <1>3, <1>6, <1>7, <1>8 DEF Queued

\* What a service is given, as far as it is the application's own and setup() can
\* have it first, stands before the service.
LEMMA GivenEarlier ==
  ASSUME Shape, Provenance, InOrder, NEW a \in AppIds, root[a] \in Ids,
         NEW k \in DOMAIN InitOrder(a), NEW s, s = InitOrder(a)[k],
         NEW g \in Given(s) \cap Ours(a), s[1] = root[a] => g[1] = root[a]
  PROVE  \E l \in DOMAIN InitOrder(a) : l < k /\ InitOrder(a)[l] = g
<1>0. /\ InPlace(InitOrder(a), Queued(a), Len(Queued(a)))
      /\ 1..Len(Queued(a)) = DOMAIN Tree(a)
      /\ \A t \in DOMAIN Tree(a) : Tree(a)[t] \in Ids /\ Queued(a)[t] = inits[Tree(a)[t]]
  BY InitOrderIs
<1>1. PICK t \in DOMAIN Tree(a) : \E o \in DOMAIN Queued(a)[t] :
        /\ InitOrder(a)[k] = Queued(a)[t][o]
        /\ \A u \in DOMAIN Tree(a) : \A v \in DOMAIN Queued(a)[u] :
             u < t \/ (u = t /\ v < o) =>
               \E l \in DOMAIN InitOrder(a) : l < k /\ InitOrder(a)[l] = Queued(a)[u][v]
  BY <1>0 DEF InPlace
<1>2. PICK o \in DOMAIN Queued(a)[t] :
        /\ InitOrder(a)[k] = Queued(a)[t][o]
        /\ \A u \in DOMAIN Tree(a) : \A v \in DOMAIN Queued(a)[u] :
             u < t \/ (u = t /\ v < o) =>
               \E l \in DOMAIN InitOrder(a) : l < k /\ InitOrder(a)[l] = Queued(a)[u][v]
  BY <1>1
<1>3. PICK i \in Ids : i = Tree(a)[t] /\ Queued(a)[t] = inits[i]
  BY <1>0
<1>4. s \in {i} \X Providers
  <2>1. inits[i] \in Seq({i} \X Providers) /\ o \in DOMAIN inits[i] /\ s = inits[i][o]
    BY <1>2, <1>3 DEF InOrder
  <2> QED BY <2>1
<1>5. PICK p \in Providers : s = <<i, p>>
  BY <1>4
<1>6. PICK c : c = <<made[i], p>>
  OBVIOUS
<1>7. c \in Classes /\ c[1] = made[i] /\ c[2] = p
  <2>1. made[i] \in ModuleClasses
    BY DEF Shape, TreeTypeOK, Ids
  <2> QED BY <1>6, <2>1 DEF Classes
<1>8. g \in {<<i, q>> : q \in program.deps[made[i]][p]}
        \cup {held[i][d] : d \in {program.asks[c]} \cap DOMAIN held[i]}
  BY <1>5, <1>6, <1>7 DEF Given, Class
<1>9. CASE g \in {<<i, q>> : q \in program.deps[made[i]][p]}
  <2>1. PICK q \in program.deps[made[i]][p] : g = <<i, q>>
    BY <1>9
  <2>2. o \in DOMAIN inits[i] /\ inits[i][o][2] = p
    BY <1>2, <1>3, <1>5
  <2>3. PICK v \in DOMAIN inits[i] : v < o /\ inits[i][v] = <<i, q>>
    BY <2>2 DEF InOrder
  <2> QED BY <1>2, <1>3, <2>1, <2>3
<1>10. CASE program.asks[c] \in DOMAIN held[i] /\ g = held[i][program.asks[c]]
  <2>1. PICK d \in DOMAIN held[i] : d = program.asks[c] /\ g = held[i][d]
    BY <1>10
  <2>2. /\ g[1] \in Ids /\ made[g[1]] = d[1]
        /\ g[1] = i \/ ReturnsBefore(g[1], i)
    BY <2>1 DEF Provenance
  <2>3. d[1] # made[i]
    <3>1. d \in Classes
      <4>1. held[i] \in UNION {[D -> AnyInstance] : D \in SUBSET Classes}
        BY DEF Shape, TreeTypeOK, Ids
      <4>2. DOMAIN held[i] \subseteq Classes
        BY <4>1
      <4> QED BY <2>1, <4>2
    <3>2. program \in Programs
      BY DEF Shape, TreeTypeOK
    <3>3. program.asks[c] \notin {c[1]} \X Providers
      BY <1>7, <3>2, ProgramsAssumption
    <3>4. d \notin {made[i]} \X Providers
      BY <1>7, <2>1, <3>3
    <3>5. d \in ModuleClasses \X Providers
      BY <3>1 DEF Classes
    <3> QED BY <3>4, <3>5
  <2>4. PICK j \in Ids : j = g[1] /\ j # i /\ ReturnsBefore(j, i)
    BY <2>2, <2>3
  <2>5. PICK u \in DOMAIN Tree(a) : \E v \in DOMAIN Queued(a)[u] : g = Queued(a)[u][v]
    <3>1. PICK l \in DOMAIN InitOrder(a) : g = InitOrder(a)[l]
      BY DEF Ours, ToSet
    <3> QED BY <1>0, <3>1 DEF InPlace
  <2>6. PICK v \in DOMAIN Queued(a)[u] : g = Queued(a)[u][v]
    BY <2>5
  <2>7. Tree(a)[u] = j /\ Queued(a)[u] = inits[j]
    <3>1. PICK m \in Ids : m = Tree(a)[u] /\ Queued(a)[u] = inits[m]
      BY <1>0
    <3>2. inits[m] \in Seq({m} \X Providers) /\ v \in DOMAIN inits[m] /\ g = inits[m][v]
      BY <2>6, <3>1 DEF InOrder
    <3>3. g \in {m} \X Providers
      BY <3>2
    <3>4. m = j
      BY <2>4, <3>3
    <3> QED BY <3>1, <3>4
  <2>8. PICK D : D = DescendantModules(root[a])
    OBVIOUS
  <2>9. /\ Len(D) \in Nat /\ DOMAIN D = 1..Len(D) /\ DOMAIN Tree(a) = 1..(Len(D) + 1)
        /\ Tree(a)[1] = root[a]
        /\ \A y \in DOMAIN D : Tree(a)[y + 1] = D[y]
    BY <2>8, TreeIs
  <2>10. t # 1
    BY <1>3, <1>5, <2>4, <2>9
  <2>11. CASE u = 1
    <3>1. u < t
      BY <2>9, <2>10, <2>11
    <3> QED BY <1>2, <2>6, <3>1
  <2>12. CASE u # 1
    <3>1. PICK y \in DOMAIN D : t = y + 1
      <4>1. t - 1 \in DOMAIN D /\ t = (t - 1) + 1
        BY <2>9, <2>10
      <4> QED BY <4>1
    <3>2. PICK z \in DOMAIN D : u = z + 1
      <4>1. u - 1 \in DOMAIN D /\ u = (u - 1) + 1
        BY <2>9, <2>12
      <4> QED BY <4>1
    <3>3. D[y] = i /\ D[z] = j
      BY <1>3, <2>7, <2>9, <3>1, <3>2
    <3>4. j \in ToSet(D)
      BY <3>3 DEF ToSet
    <3>5. PICK x \in DOMAIN D : x < y /\ D[x] = j
      BY <2>4, <2>8, <3>3, <3>4, PostOrder
    <3>6. x + 1 \in DOMAIN Tree(a) /\ x + 1 < t /\ Tree(a)[x + 1] = j
      BY <2>9, <3>1, <3>5
    <3>7. Queued(a)[x + 1] = inits[j]
      BY <1>0, <3>6
    <3> QED BY <1>2, <2>6, <2>7, <3>6, <3>7
  <2> QED BY <2>11, <2>12
<1> QED BY <1>8, <1>9, <1>10

LEMMA OrderIsEnough ==
  ASSUME Shape, Provenance, InOrder
  PROVE  InjectedInitialized
<1> SUFFICES ASSUME NEW a \in awaits,
                    NEW g \in Given(NextService(a)) \cap Ours(a),
                    NextService(a)[1] = root[a] => g[1] = root[a]
             PROVE  g \in ready
  BY DEF InjectedInitialized
<1>1. a \in AppIds /\ root[a] \in Ids
  BY DEF Shape, TreeTypeOK
<1>2. CASE Unready(a) = {}
  BY <1>2 DEF Unready, Ours, ToSet
<1>3. CASE Unready(a) # {}
  <2>1. PICK k \in Unready(a) : k = Min(Unready(a)) /\ \A l \in Unready(a) : k <= l
    <3>1. Unready(a) \subseteq Nat
      <4>1. InitOrder(a) \in Seq(AnyInstance)
        BY <1>1, InitOrderIs
      <4> QED BY <4>1 DEF Unready
    <3>2. PICK m \in Unready(a) : \A l \in Unready(a) : ~(<<l, m>> \in OpToRel(<, Nat))
      BY <1>3, <3>1, WFMin, NatLessThanWellFounded, Zenon
    <3>3. ASSUME NEW l \in Unready(a) PROVE m <= l
      <4>1. l \in Nat /\ m \in Nat
        BY <3>1
      <4>2. ~(l < m)
        BY <3>2, <4>1 DEF OpToRel
      <4> QED BY <4>1, <4>2
    <3>4. \E x \in Unready(a) : \A l \in Unready(a) : x <= l
      BY <3>3
    <3> QED BY <3>4 DEF Min
  <2>2. k \in DOMAIN InitOrder(a) /\ NextService(a) = InitOrder(a)[k]
    BY <2>1 DEF NextService, Unready
  <2>3. PICK l \in DOMAIN InitOrder(a) : l < k /\ InitOrder(a)[l] = g
    BY <1>1, <2>2, GivenEarlier
  <2>4. l \notin Unready(a)
    <3>1. l \in Nat /\ k \in Nat
      <4>1. InitOrder(a) \in Seq(AnyInstance)
        BY <1>1, InitOrderIs
      <4> QED BY <2>2, <4>1
    <3> QED BY <2>1, <2>3, <3>1
  <2> QED BY <2>3, <2>4 DEF Unready
<1> QED BY <1>2, <1>3

-----------------------------------------------------------------------------
(* The invariant.                                                           *)

\* The constructors under way are those above the innermost one, everything that is
\* numbered after one of them is under it, and of its children all but the one under
\* way have returned.
Stacked ==
  \A x \in DOMAIN frames :
    /\ Above(frames[x].id) = {frames[y].id : y \in 1..(x - 1)}
    /\ \A i \in Ids : frames[x].id < i => frames[x].id \in Above(i)
    /\ x < Len(frames) =>
         \A k \in DOMAIN children[frames[x].id] : children[frames[x].id][k] < frames[x + 1].id

\* Every working provider of a module has been constructed.
AllQueued(i) ==
  \A p \in Providers : program.conduct[made[i]][p] = "works" => <<i, p>> \in ToSet(inits[i])

\* That holds for the modules whose constructors have returned.
Finished ==
  /\ \A i \in Ids : \A k \in DOMAIN children[i] : AllQueued(children[i][k])
  /\ \A a \in AppIds : phase[a] \in {"setup", "created", "up"} => AllQueued(root[a])

\* D has the module and what is under it, no constructor of which is under way, and
\* the services of D are initialised.
Initialised(D, i) ==
  /\ D \subseteq Ids /\ i \in D
  /\ \A x \in DOMAIN frames : frames[x].id \notin D
  /\ \A j \in D :
       /\ \A k \in DOMAIN children[j] : children[j][k] \in D
       /\ \A p \in Providers : program.conduct[made[j]][p] = "works" => <<j, p>> \in ready

SetUp == \A a \in AppIds : phase[a] \in {"created", "up"} => \E D : Initialised(D, root[a])

\* createServicesWithDI is called by the innermost constructor with the providers
\* of its class.
Running ==
  outcome # "none" =>
    /\ frames # <<>> /\ IInv
    /\ deps = program.deps[made[frames[Len(frames)].id]]
    /\ conduct = program.conduct[made[frames[Len(frames)].id]]

TreeInv ==
  /\ Shape /\ Stacked /\ Provenance /\ InOrder
  /\ Finished /\ SetUp /\ Running

-----------------------------------------------------------------------------
\* No application has begun.
LEMMA InitTreeInv == RoutingInit => TreeInv
<1> SUFFICES ASSUME RoutingInit PROVE TreeInv
  OBVIOUS
<1>1. TreeInit
  BY DEF RoutingInit
<1>2. /\ program \in Programs /\ frames = <<>> /\ made = <<>> /\ held = <<>>
      /\ children = <<>> /\ parents = <<>> /\ inits = <<>>
      /\ registry = Nothing /\ awaits = {} /\ outcome = "none"
      /\ phase = [a \in AppIds |-> "off"] /\ root = [a \in AppIds |-> 0]
  BY <1>1 DEF TreeInit
<1>3. Len(<<>>) = 0 /\ 1..0 = {} /\ DOMAIN <<>> = {} /\ \A S : <<>> \in Seq(S)
  OBVIOUS
<1>4. registry \in UNION {[D -> AnyInstance] : D \in SUBSET Classes} /\ DOMAIN registry = {}
  <2>1. Nothing \in [{} -> AnyInstance] /\ DOMAIN Nothing = {}
    BY DEF Nothing
  <2>2. {} \in SUBSET Classes
    OBVIOUS
  <2> QED BY <1>2, <2>1, <2>2
<1>5. Ids = {}
  BY <1>2, <1>3 DEF Ids
<1>6. TreeTypeOK
  BY <1>2, <1>3, <1>4, <1>5 DEF TreeTypeOK
<1>7. Nested /\ Grouped /\ Stacked /\ Provenance /\ InOrder
  BY <1>2, <1>3, <1>4, <1>5 DEF Nested, Grouped, Stacked, Provenance, InOrder
<1>8. Finished /\ SetUp /\ Running
  BY <1>2, <1>5 DEF Finished, SetUp, Running
<1> QED BY <1>6, <1>7, <1>8 DEF TreeInv, Shape

\* Steps that leave the modules alone: the constructors under way go on or are given
\* up, or an application does something.
ModulesKept ==
  /\ UNCHANGED <<program, made, held, children, parents, inits, registry, root>>
  /\ frames' \in Seq(Frames) /\ Len(frames') \in {0, Len(frames)}
  /\ \A x \in DOMAIN frames' : frames'[x].id = frames[x].id /\ frames'[x].next # 0
  /\ phase' \in [AppIds -> {"off", "making", "setup", "created", "up", "failed"}]
  /\ \A a \in AppIds : phase'[a] # "off" => root[a] \in Ids
  /\ awaits' \subseteq AppIds
  /\ \A a \in awaits' : phase'[a] # "off"

LEMMA KeptShape ==
  ASSUME TreeInv, ModulesKept
  PROVE  Shape' /\ Stacked' /\ Provenance' /\ InOrder' /\ Ids' = Ids /\ AppIds' = AppIds
<1>1. /\ program' = program /\ made' = made /\ held' = held /\ children' = children
      /\ parents' = parents /\ inits' = inits /\ registry' = registry /\ root' = root
  BY DEF ModulesKept
<1>2. Ids' = Ids /\ AppIds' = AppIds /\ \A i : Above(i)' = Above(i)
  BY <1>1 DEF Ids, AppIds, Above
<1>3. /\ frames' \in Seq(Frames) /\ Len(frames') \in {0, Len(frames)}
      /\ \A x \in DOMAIN frames' : frames'[x].id = frames[x].id /\ frames'[x].next # 0
  BY DEF ModulesKept
<1>4. Shape /\ Stacked /\ Provenance /\ InOrder /\ frames \in Seq(Frames)
  BY DEF TreeInv, Shape, TreeTypeOK
<1>5. /\ DOMAIN frames' = 1..Len(frames') /\ Len(frames') \in Nat
      /\ DOMAIN frames = 1..Len(frames) /\ Len(frames) \in Nat
      /\ DOMAIN frames' \subseteq DOMAIN frames
  BY <1>3, <1>4, SMTT(30)
<1>6. TreeTypeOK'
  BY <1>1, <1>2, <1>3, <1>4, <1>5 DEF ModulesKept, Shape, TreeTypeOK
<1>7. Nested' /\ Grouped'
  BY <1>1, <1>2, <1>4 DEF Shape, Nested, Grouped
<1>8. Stacked'
  <2> SUFFICES ASSUME NEW x \in DOMAIN frames'
               PROVE  /\ Above(frames'[x].id) = {frames'[y].id : y \in 1..(x - 1)}
                      /\ \A i \in Ids : frames'[x].id < i => frames'[x].id \in Above(i)
                      /\ x < Len(frames') =>
                           \A k \in DOMAIN children[frames'[x].id] :
                             children[frames'[x].id][k] < frames'[x + 1].id
    BY <1>1, <1>2 DEF Stacked
  <2>1. x \in DOMAIN frames /\ frames'[x].id = frames[x].id /\ Len(frames') = Len(frames)
    <3>1. x \in DOMAIN frames
      BY <1>5, Zenon
    <3>2. frames'[x].id = frames[x].id
      BY <1>3, Zenon
    <3>3. Len(frames') # 0
      BY <1>5
    <3> QED BY <1>3, <3>1, <3>2, <3>3
  <2>2. \A y \in 1..(x - 1) : frames'[y].id = frames[y].id
    <3>1. 1..(x - 1) \subseteq DOMAIN frames'
      BY <1>5
    <3> QED BY <1>3, <3>1
  <2>3. {frames'[y].id : y \in 1..(x - 1)} = {frames[y].id : y \in 1..(x - 1)}
    BY <2>2
  <2>4. x < Len(frames') => frames'[x + 1].id = frames[x + 1].id
    <3>1. x < Len(frames') => x + 1 \in DOMAIN frames'
      BY <1>5
    <3> QED BY <1>3, <3>1
  <2> QED BY <1>4, <2>1, <2>3, <2>4 DEF Stacked
<1>9. Provenance'
  <2>1. \A j, i : ReturnsBefore(j, i)' = ReturnsBefore(j, i)
    BY <1>2 DEF ReturnsBefore
  <2>2. \A e : (\A x \in DOMAIN frames : e # frames[x].id)
                 => \A x \in DOMAIN frames' : e # frames'[x].id
    BY <1>3, <1>5, Zenon
  <2> QED BY <1>1, <1>2, <1>4, <2>1, <2>2, Zenon DEF Provenance
<1>10. InOrder'
  <2>1. \A i \in Ids :
          /\ inits'[i] \in Seq({i} \X Providers)
          /\ \A k \in DOMAIN inits'[i] : \A q \in program'.deps[made'[i]][inits'[i][k][2]] :
               \E l \in DOMAIN inits'[i] : l < k /\ inits'[i][l] = <<i, q>>
    <3>1. InOrder
      BY <1>4
    <3> QED BY <1>1, <3>1 DEF InOrder
  <2> QED BY <1>2, <2>1 DEF InOrder
<1> QED BY <1>2, <1>6, <1>7, <1>8, <1>9, <1>10 DEF Shape

\* The services that are initialised stay so.
LEMMA KeptFinished ==
  ASSUME TreeInv, ModulesKept, ready \subseteq ready'
  PROVE  /\ (\A a \in AppIds : phase'[a] \in {"setup", "created", "up"} => AllQueued(root[a]))
              => Finished'
         /\ (\A a \in AppIds : phase'[a] \in {"created", "up"} => \E D : Initialised(D, root[a]))
              => SetUp'
<1>1. /\ program' = program /\ made' = made /\ children' = children
      /\ inits' = inits /\ root' = root
  BY DEF ModulesKept
<1>2. Ids' = Ids /\ AppIds' = AppIds
  BY KeptShape
<1>3. \A i : AllQueued(i)' = AllQueued(i)
  BY <1>1 DEF AllQueued
<1>4. Finished
  BY DEF TreeInv
<1>5. ASSUME NEW D, NEW i, Initialised(D, i)
      PROVE  Initialised(D, i)'
  <2>1. /\ DOMAIN frames' \subseteq DOMAIN frames
        /\ \A x \in DOMAIN frames' : frames'[x].id = frames[x].id
    <3>1. frames \in Seq(Frames) /\ frames' \in Seq(Frames) /\ Len(frames') \in {0, Len(frames)}
      BY DEF TreeInv, Shape, TreeTypeOK, ModulesKept
    <3> QED BY <3>1 DEF ModulesKept
  <2> QED BY <1>1, <1>2, <1>5, <2>1 DEF Initialised
<1>6. ASSUME \A a \in AppIds : phase'[a] \in {"setup", "created", "up"} => AllQueued(root[a])
      PROVE  Finished'
  BY <1>1, <1>2, <1>3, <1>4, <1>6 DEF Finished
<1>7. ASSUME \A a \in AppIds : phase'[a] \in {"created", "up"} => \E D : Initialised(D, root[a])
      PROVE  SetUp'
  <2> SUFFICES ASSUME NEW a \in AppIds, phase'[a] \in {"created", "up"}
               PROVE  \E D : Initialised(D, root[a])'
    BY <1>1, <1>2 DEF SetUp
  <2>1. PICK D : Initialised(D, root[a])
    BY <1>7
  <2>2. PICK i : i = root[a]
    OBVIOUS
  <2>3. Initialised(D, i)'
    BY <1>5, <2>1, <2>2
  <2> QED BY <1>1, <2>2, <2>3
<1> QED BY <1>6, <1>7

-----------------------------------------------------------------------------
(* A constructor is called.                                                 *)

\* It is called by the constructors under way, for which the stack stands.
Entered(m, above, stack) ==
  /\ m \in ModuleClasses /\ above \in Seq(Nat) /\ stack \in Seq(Frames)
  /\ Len(stack) = Len(frames)
  /\ \A x \in DOMAIN stack : stack[x].id = frames[x].id /\ stack[x].next # 0
  /\ ToSet(above) = {frames[x].id : x \in DOMAIN frames}
  /\ Enter(m, above, stack)
  /\ UNCHANGED <<program, registry, awaits, ready>>
  /\ outcome' = "none"
  /\ phase' \in [AppIds -> {"off", "making", "setup", "created", "up", "failed"}]
  /\ root' \in [AppIds -> Nat]
  /\ \A a \in AppIds : phase'[a] # "off" => root'[a] \in 1..(Len(made) + 1)
  /\ \A a \in awaits : phase'[a] # "off"
  /\ \A a \in AppIds : phase'[a] \in {"setup", "created", "up"} =>
       phase[a] = phase'[a] /\ root'[a] = root[a]

\* The number of the module it makes.
Fresh == Len(made) + 1

\* What it adds to each list.
LEMMA EnterShape ==
  ASSUME TreeInv, NEW m, NEW above, NEW stack, Entered(m, above, stack)
  PROVE  /\ Fresh \in Nat /\ Ids = 1..(Fresh - 1) /\ Ids' = Ids \cup {Fresh} /\ Fresh \notin Ids
         /\ Len(made') = Fresh /\ Len(held') = Fresh /\ Len(children') = Fresh /\ Len(parents') = Fresh
         /\ Len(inits') = Fresh
         /\ made' \in Seq(ModuleClasses)
         /\ held' \in Seq(UNION {[D -> AnyInstance] : D \in SUBSET Classes})
         /\ children' \in Seq(Seq(Nat)) /\ parents' \in Seq(Seq(Nat))
         /\ inits' \in Seq(Seq(AnyInstance))
         /\ \A i \in Ids :
              /\ made'[i] = made[i] /\ held'[i] = held[i] /\ children'[i] = children[i]
              /\ parents'[i] = parents[i] /\ inits'[i] = inits[i]
         /\ made'[Fresh] = m /\ held'[Fresh] = registry /\ children'[Fresh] = <<>>
         /\ parents'[Fresh] = above /\ inits'[Fresh] = <<>>
<1>1. /\ made' = Append(made, m) /\ held' = Append(held, registry)
      /\ children' = Append(children, <<>>) /\ parents' = Append(parents, above)
      /\ inits' = Append(inits, <<>>)
  BY DEF Entered, Enter
<1>2. /\ made \in Seq(ModuleClasses)
      /\ held \in Seq(UNION {[D -> AnyInstance] : D \in SUBSET Classes})
      /\ children \in Seq(Seq(Nat)) /\ parents \in Seq(Seq(Nat))
      /\ inits \in Seq(Seq(AnyInstance))
      /\ Len(held) = Len(made) /\ Len(children) = Len(made)
      /\ Len(parents) = Len(made) /\ Len(inits) = Len(made)
      /\ registry \in UNION {[D -> AnyInstance] : D \in SUBSET Classes}
      /\ m \in ModuleClasses /\ above \in Seq(Nat)
  BY DEF TreeInv, Shape, TreeTypeOK, Entered
<1>3. \A S : <<>> \in Seq(S)
  OBVIOUS
<1>4. Len(made) \in Nat
  BY <1>2
<1>5. /\ made' \in Seq(ModuleClasses) /\ Len(made') = Fresh
      /\ \A i \in 1..Len(made) : made'[i] = made[i]
      /\ made'[Fresh] = m
  BY <1>1, <1>2, AppendElements DEF Fresh
<1>6. /\ held' \in Seq(UNION {[D -> AnyInstance] : D \in SUBSET Classes}) /\ Len(held') = Fresh
      /\ \A i \in 1..Len(made) : held'[i] = held[i]
      /\ held'[Fresh] = registry
  <2> DEFINE S == UNION {[D -> AnyInstance] : D \in SUBSET Classes}
  <2> HIDE DEF S
  <2>1. held \in Seq(S) /\ registry \in S
    BY <1>2 DEF S
  <2> QED BY <1>1, <1>2, <2>1, AppendElements DEF S, Fresh
<1>7. /\ children' \in Seq(Seq(Nat)) /\ Len(children') = Fresh
      /\ \A i \in 1..Len(made) : children'[i] = children[i]
      /\ children'[Fresh] = <<>>
  <2> DEFINE S == Seq(Nat)
  <2>1. <<>> \in S /\ children \in Seq(S)
    BY <1>2, <1>3
  <2> HIDE DEF S
  <2> QED BY <1>1, <1>2, <2>1, AppendElements DEF S, Fresh
<1>8. /\ parents' \in Seq(Seq(Nat)) /\ Len(parents') = Fresh
      /\ \A i \in 1..Len(made) : parents'[i] = parents[i]
      /\ parents'[Fresh] = above
  <2> DEFINE S == Seq(Nat)
  <2>1. above \in S /\ parents \in Seq(S)
    BY <1>2
  <2> HIDE DEF S
  <2> QED BY <1>1, <1>2, <2>1, AppendElements DEF S, Fresh
<1>9. /\ inits' \in Seq(Seq(AnyInstance)) /\ Len(inits') = Fresh
      /\ \A i \in 1..Len(made) : inits'[i] = inits[i]
      /\ inits'[Fresh] = <<>>
  <2> DEFINE S == Seq(AnyInstance)
  <2>1. <<>> \in S /\ inits \in Seq(S)
    BY <1>2, <1>3
  <2> HIDE DEF S
  <2> QED BY <1>1, <1>2, <2>1, AppendElements DEF S, Fresh
<1>10. Fresh \in Nat /\ Ids = 1..(Fresh - 1) /\ Ids' = Ids \cup {Fresh} /\ Fresh \notin Ids
  BY <1>4, <1>5 DEF Ids, Fresh
<1>11. \A i \in Ids : i \in 1..Len(made)
  BY DEF Ids
<1> QED BY <1>5, <1>6, <1>7, <1>8, <1>9, <1>10, <1>11

LEMMA EnterFrames ==
  ASSUME TreeInv, NEW m, NEW above, NEW stack, Entered(m, above, stack)
  PROVE  /\ frames \in Seq(Frames) /\ Len(frames) \in Nat /\ DOMAIN frames = 1..Len(frames)
         /\ frames' \in Seq(Frames) /\ DOMAIN frames' = 1..(Len(frames) + 1)
         /\ Len(frames') = Len(frames) + 1
         /\ \A x \in DOMAIN frames : frames'[x].id = frames[x].id /\ frames'[x].next # 0
         /\ frames'[Len(frames) + 1] = [id |-> Fresh, next |-> 1]
<1>1. stack \in Seq(Frames) /\ frames \in Seq(Frames) /\ Len(stack) = Len(frames)
      /\ \A x \in DOMAIN stack : stack[x].id = frames[x].id /\ stack[x].next # 0
  BY DEF Entered, TreeInv, Shape, TreeTypeOK
<1>2. frames' = Append(stack, [id |-> Fresh, next |-> 1])
  BY DEF Entered, Enter, Fresh
<1>3. [id |-> Fresh, next |-> 1] \in Frames
  BY EnterShape DEF Frames
<1>4. /\ frames' \in Seq(Frames) /\ Len(frames') = Len(stack) + 1
      /\ \A x \in 1..Len(stack) : frames'[x] = stack[x]
      /\ frames'[Len(stack) + 1] = [id |-> Fresh, next |-> 1]
  BY <1>1, <1>2, <1>3, AppendElements
<1>5. DOMAIN frames = 1..Len(frames) /\ DOMAIN stack = 1..Len(frames) /\ Len(frames) \in Nat
  BY <1>1
<1>6. DOMAIN frames' = 1..(Len(frames) + 1)
  BY <1>1, <1>4
<1> QED BY <1>1, <1>4, <1>5, <1>6

LEMMA EnterKeepsShape ==
  ASSUME TreeInv, NEW m, NEW above, NEW stack, Entered(m, above, stack)
  PROVE  Shape' /\ Stacked'
<1> DEFINE A(i) == ToSet(parents'[i])
<1>2. /\ Fresh \in Nat /\ Ids = 1..(Fresh - 1) /\ Ids' = Ids \cup {Fresh} /\ Fresh \notin Ids
      /\ Len(made') = Fresh /\ Len(held') = Fresh /\ Len(children') = Fresh /\ Len(parents') = Fresh
      /\ Len(inits') = Fresh
      /\ made' \in Seq(ModuleClasses)
      /\ held' \in Seq(UNION {[D -> AnyInstance] : D \in SUBSET Classes})
      /\ children' \in Seq(Seq(Nat)) /\ parents' \in Seq(Seq(Nat))
      /\ inits' \in Seq(Seq(AnyInstance))
  BY EnterShape
<1>3. /\ \A i \in Ids : children'[i] = children[i] /\ parents'[i] = parents[i]
      /\ children'[Fresh] = <<>> /\ parents'[Fresh] = above
  BY EnterShape
<1>4. /\ frames \in Seq(Frames) /\ Len(frames) \in Nat /\ DOMAIN frames = 1..Len(frames)
      /\ frames' \in Seq(Frames) /\ DOMAIN frames' = 1..(Len(frames) + 1)
      /\ Len(frames') = Len(frames) + 1
      /\ \A x \in DOMAIN frames : frames'[x].id = frames[x].id /\ frames'[x].next # 0
      /\ frames'[Len(frames) + 1] = [id |-> Fresh, next |-> 1]
  BY EnterFrames
<1>5. \A x \in DOMAIN frames : frames[x].id \in Ids
  BY DEF TreeInv, Shape, TreeTypeOK
<1>6. TreeTypeOK'
  <2>1. program' = program /\ AppIds' = AppIds /\ registry' = registry /\ awaits' = awaits
    BY DEF Entered, AppIds
  <2>2. \A x \in DOMAIN frames' : frames'[x].id \in Ids' /\ frames'[x].next # 0
    <3> SUFFICES ASSUME NEW x \in DOMAIN frames'
                 PROVE  frames'[x].id \in Ids' /\ frames'[x].next # 0
      OBVIOUS
    <3>1. CASE x \in DOMAIN frames
      BY <1>2, <1>4, <1>5, <3>1
    <3>2. CASE x \notin DOMAIN frames
      <4>1. x = Len(frames) + 1
        BY <1>4, <3>2
      <4> QED BY <1>2, <1>4, <4>1
    <3> QED BY <3>1, <3>2
  <2>3. Ids' = 1..(Len(made) + 1)
    BY <1>2 DEF Fresh
  <2>4. /\ program \in Programs /\ awaits \subseteq AppIds
        /\ registry \in UNION {[D -> AnyInstance] : D \in SUBSET Classes}
    BY DEF TreeInv, Shape, TreeTypeOK
  <2> QED BY <1>2, <1>4, <2>1, <2>2, <2>3, <2>4 DEF Entered, TreeTypeOK
<1>7. /\ \A i \in Ids : A(i) = Above(i)
      /\ A(Fresh) = {frames[x].id : x \in DOMAIN frames}
  <2>1. ToSet(above) = {frames[x].id : x \in DOMAIN frames}
    BY DEF Entered
  <2> QED BY <1>3, <2>1 DEF Above
<1> HIDE DEF A
<1>8. Nested'
  <2> SUFFICES ASSUME NEW i \in Ids \cup {Fresh}
               PROVE  /\ A(i) \subseteq 1..(i - 1)
                      /\ \A j \in A(i) :
                           /\ A(j) \subseteq A(i)
                           /\ \A k \in Ids \cup {Fresh} : j < k /\ k < i => j \in A(k)
    BY <1>2 DEF Nested, Above, A
  <2>1. CASE i \in Ids
    <3>1. Above(i) \subseteq 1..(i - 1) /\ 1..(i - 1) \subseteq Ids /\ i < Fresh
      BY <1>2, <2>1 DEF TreeInv, Shape, Nested
    <3>2. ASSUME NEW j \in Above(i)
          PROVE  /\ A(j) \subseteq A(i)
                 /\ \A k \in Ids \cup {Fresh} : j < k /\ k < i => j \in A(k)
      <4>1. j \in Ids
        BY <3>1
      <4>2. Above(j) \subseteq Above(i) /\ \A k \in Ids : j < k /\ k < i => j \in Above(k)
        BY <2>1 DEF TreeInv, Shape, Nested
      <4>3. ~(Fresh < i)
        BY <1>2, <2>1
      <4> QED BY <1>7, <2>1, <4>1, <4>2, <4>3
    <3> QED BY <1>7, <2>1, <3>1, <3>2
  <2>2. CASE i = Fresh
    <3>1. A(i) \subseteq 1..(i - 1)
      BY <1>2, <1>5, <1>7, <2>2
    <3>2. ASSUME NEW j \in A(i)
          PROVE  /\ A(j) \subseteq A(i)
                 /\ \A k \in Ids \cup {Fresh} : j < k /\ k < i => j \in A(k)
      <4>1. PICK x \in DOMAIN frames : j = frames[x].id
        BY <1>7, <2>2
      <4>2. /\ Above(j) = {frames[y].id : y \in 1..(x - 1)}
            /\ \A k \in Ids : j < k => j \in Above(k)
        BY <4>1 DEF TreeInv, Stacked
      <4>3. 1..(x - 1) \subseteq DOMAIN frames
        BY <1>4
      <4>4. Above(j) \subseteq {frames[y].id : y \in DOMAIN frames}
        BY <4>2, <4>3
      <4>5. j \in Ids
        BY <1>5, <4>1
      <4>6. ~(Fresh < i)
        BY <1>2, <2>2
      <4>7. \A k \in Ids \cup {Fresh} : k < i => k \in Ids
        BY <1>2, <2>2
      <4> QED BY <1>7, <2>2, <4>2, <4>4, <4>5, <4>6, <4>7
    <3> QED BY <3>1, <3>2
  <2> QED BY <2>1, <2>2
<1>9. Grouped'
  <2> SUFFICES ASSUME NEW i \in Ids \cup {Fresh}, NEW k \in DOMAIN children'[i]
               PROVE  /\ children'[i][k] \in Ids \cup {Fresh}
                      /\ A(children'[i][k]) = A(i) \cup {i}
                      /\ \A l \in DOMAIN children'[i] : k < l => children'[i][k] < children'[i][l]
    BY <1>2 DEF Grouped, Above, A
  <2>1. i \in Ids
    <3>1. DOMAIN <<>> = {}
      OBVIOUS
    <3> QED BY <1>3, <3>1
  <2>2. PICK c : c = children[i][k] /\ children'[i] = children[i]
    BY <1>3, <2>1
  <2>3. /\ c \in Ids /\ Above(c) = Above(i) \cup {i}
        /\ \A l \in DOMAIN children[i] : k < l => c < children[i][l]
    BY <2>1, <2>2 DEF TreeInv, Shape, Grouped
  <2> QED BY <1>7, <2>1, <2>2, <2>3
<1>10. Stacked'
  <2> SUFFICES ASSUME NEW x \in DOMAIN frames'
               PROVE  /\ A(frames'[x].id) = {frames'[y].id : y \in 1..(x - 1)}
                      /\ \A i \in Ids \cup {Fresh} : frames'[x].id < i => frames'[x].id \in A(i)
                      /\ x < Len(frames') =>
                           \A k \in DOMAIN children'[frames'[x].id] :
                             children'[frames'[x].id][k] < frames'[x + 1].id
    BY <1>2 DEF Stacked, Above, A
  <2>1. \A y \in 1..(x - 1) : y \in DOMAIN frames /\ frames'[y].id = frames[y].id
    BY <1>4
  <2>2. {frames'[y].id : y \in 1..(x - 1)} = {frames[y].id : y \in 1..(x - 1)}
    BY <2>1
  <2>3. CASE x = Len(frames) + 1
    <3>1. frames'[x].id = Fresh /\ 1..(x - 1) = DOMAIN frames /\ ~(x < Len(frames'))
      BY <1>4, <2>3
    <3>2. \A i \in Ids \cup {Fresh} : ~(Fresh < i)
      BY <1>2
    <3> QED BY <1>7, <2>2, <3>1, <3>2
  <2>4. CASE x # Len(frames) + 1
    <3>1. x \in DOMAIN frames /\ x \in Nat
      BY <1>4, <2>4
    <3>2. PICK f \in Ids : f = frames[x].id /\ f = frames'[x].id
      BY <1>4, <1>5, <3>1
    <3>3. /\ Above(f) = {frames[y].id : y \in 1..(x - 1)}
          /\ \A i \in Ids : f < i => f \in Above(i)
          /\ x < Len(frames) => \A k \in DOMAIN children[f] : children[f][k] < frames[x + 1].id
      BY <3>1, <3>2 DEF TreeInv, Stacked
    <3>4. f \in A(Fresh)
      BY <1>7, <3>1, <3>2
    <3>5. ASSUME x < Len(frames'), NEW k \in DOMAIN children[f]
          PROVE  children[f][k] < frames'[x + 1].id
      <4>1. CASE x < Len(frames)
        <5>1. x + 1 \in DOMAIN frames
          BY <1>4, <3>1, <4>1
        <5>2. frames'[x + 1].id = frames[x + 1].id
          BY <1>4, <5>1
        <5> QED BY <3>3, <3>5, <4>1, <5>2
      <4>2. CASE ~(x < Len(frames))
        <5>1. x = Len(frames)
          BY <1>4, <3>1, <4>2
        <5>2. frames'[x + 1].id = Fresh
          BY <1>4, <5>1
        <5>3. children[f][k] \in Ids
          BY DEF TreeInv, Shape, Grouped
        <5> QED BY <1>2, <5>2, <5>3
      <4> QED BY <4>1, <4>2
    <3> QED BY <1>3, <1>7, <2>2, <3>2, <3>3, <3>4, <3>5
  <2> QED BY <2>3, <2>4
<1> QED BY <1>6, <1>8, <1>9, <1>10 DEF Shape

\* What the module copies from the registry returned before its constructor was
\* called.
LEMMA EnterKeepsProvenance ==
  ASSUME TreeInv, NEW m, NEW above, NEW stack, Entered(m, above, stack)
  PROVE  Provenance' /\ InOrder'
<1> DEFINE A(i) == ToSet(parents'[i])
           R(j, i) == i \in A(j) \/ (j < i /\ j \notin A(i))
<1>1. /\ Fresh \in Nat /\ Ids = 1..(Fresh - 1) /\ Ids' = Ids \cup {Fresh} /\ Fresh \notin Ids
      /\ \A i \in Ids :
           /\ made'[i] = made[i] /\ held'[i] = held[i]
           /\ parents'[i] = parents[i] /\ inits'[i] = inits[i]
      /\ held'[Fresh] = registry /\ parents'[Fresh] = above /\ inits'[Fresh] = <<>>
  BY EnterShape
<1>2. /\ DOMAIN frames = 1..Len(frames) /\ Len(frames) \in Nat
      /\ DOMAIN frames' = 1..(Len(frames) + 1)
      /\ \A x \in DOMAIN frames : frames'[x].id = frames[x].id
      /\ frames'[Len(frames) + 1].id = Fresh
  BY EnterFrames
<1>3. /\ program' = program /\ registry' = registry
      /\ A(Fresh) = {frames[x].id : x \in DOMAIN frames}
  BY <1>1 DEF Entered
<1>4. \A i \in Ids : A(i) = Above(i)
  BY <1>1 DEF Above
<1> HIDE DEF A
<1>5. \A i, j \in Ids : R(j, i) <=> ReturnsBefore(j, i)
  BY <1>4 DEF ReturnsBefore
<1>6. ASSUME NEW i \in Ids \cup {Fresh}, NEW d \in DOMAIN held'[i]
      PROVE  /\ held'[i][d][1] \in Ids \cup {Fresh} /\ made'[held'[i][d][1]] = d[1]
             /\ held'[i][d][1] = i \/ R(held'[i][d][1], i)
  <2>1. CASE i \in Ids
    <3>1. PICK j : j = held[i][d][1] /\ held'[i] = held[i]
      BY <1>1, <2>1
    <3>2. j \in Ids /\ made[j] = d[1] /\ (j = i \/ ReturnsBefore(j, i))
      BY <1>6, <2>1, <3>1 DEF TreeInv, Provenance
    <3> QED BY <1>1, <1>5, <2>1, <3>1, <3>2
  <2>2. CASE i = Fresh
    <3>1. PICK j : j = registry[d][1] /\ held'[i] = registry
      BY <1>1, <2>2
    <3>2. /\ j \in Ids /\ made[j] = d[1]
          /\ \A x \in DOMAIN frames : j # frames[x].id
      BY <1>6, <3>1 DEF TreeInv, Provenance
    <3>3. j < Fresh /\ j \notin A(Fresh)
      BY <1>1, <1>3, <3>2
    <3> QED BY <1>1, <2>2, <3>1, <3>2, <3>3
  <2> QED BY <2>1, <2>2
<1>7. ASSUME NEW d \in DOMAIN registry
      PROVE  /\ registry[d][1] \in Ids \cup {Fresh} /\ made'[registry[d][1]] = d[1]
             /\ \A x \in DOMAIN frames' : registry[d][1] # frames'[x].id
  <2>1. PICK j : j = registry[d][1]
    OBVIOUS
  <2>2. /\ j \in Ids /\ made[j] = d[1]
        /\ \A x \in DOMAIN frames : j # frames[x].id
    BY <2>1 DEF TreeInv, Provenance
  <2>3. ASSUME NEW x \in DOMAIN frames' PROVE j # frames'[x].id
    <3>1. CASE x \in DOMAIN frames
      BY <1>2, <2>2, <3>1
    <3>2. CASE x \notin DOMAIN frames
      <4>1. x = Len(frames) + 1
        BY <1>2, <3>2
      <4> QED BY <1>1, <1>2, <2>2, <4>1
    <3> QED BY <3>1, <3>2
  <2> QED BY <1>1, <2>1, <2>2, <2>3
<1>8. Provenance'
  BY <1>1, <1>3, <1>6, <1>7 DEF Provenance, ReturnsBefore, Above, A
<1>9. InOrder'
  <2> SUFFICES ASSUME NEW i \in Ids \cup {Fresh}
               PROVE  /\ inits'[i] \in Seq({i} \X Providers)
                      /\ \A k \in DOMAIN inits'[i] :
                           \A q \in program.deps[made'[i]][inits'[i][k][2]] :
                             \E l \in DOMAIN inits'[i] : l < k /\ inits'[i][l] = <<i, q>>
    BY <1>1, <1>3 DEF InOrder
  <2>1. CASE i \in Ids
    <3>1. /\ inits[i] \in Seq({i} \X Providers)
          /\ \A k \in DOMAIN inits[i] : \A q \in program.deps[made[i]][inits[i][k][2]] :
               \E l \in DOMAIN inits[i] : l < k /\ inits[i][l] = <<i, q>>
      BY <2>1 DEF TreeInv, InOrder
    <3>2. inits'[i] = inits[i] /\ made'[i] = made[i]
      BY <1>1, <2>1
    <3> QED BY <3>1, <3>2
  <2>2. CASE i = Fresh
    <3>1. inits'[i] = <<>> /\ DOMAIN <<>> = {} /\ <<>> \in Seq({i} \X Providers)
      BY <1>1, <2>2
    <3> QED BY <3>1
  <2> QED BY <2>1, <2>2
<1> QED BY <1>8, <1>9

LEMMA EnterKeepsFinished ==
  ASSUME TreeInv, NEW m, NEW above, NEW stack, Entered(m, above, stack)
  PROVE  Finished' /\ SetUp' /\ Running'
<1> DEFINE Q(i) ==
      \A p \in Providers : program.conduct[made'[i]][p] = "works" => <<i, p>> \in ToSet(inits'[i])
<1>1. /\ Ids' = Ids \cup {Fresh} /\ Fresh \notin Ids
      /\ \A i \in Ids :
           /\ made'[i] = made[i] /\ children'[i] = children[i] /\ inits'[i] = inits[i]
      /\ children'[Fresh] = <<>>
  BY EnterShape
<1>2. /\ DOMAIN frames = 1..Len(frames) /\ Len(frames) \in Nat
      /\ DOMAIN frames' = 1..(Len(frames) + 1)
      /\ \A x \in DOMAIN frames : frames'[x].id = frames[x].id
      /\ frames'[Len(frames) + 1].id = Fresh
  BY EnterFrames
<1>3. /\ program' = program /\ AppIds' = AppIds /\ ready' = ready /\ outcome' = "none"
      /\ \A a \in AppIds : phase'[a] \in {"setup", "created", "up"} =>
           phase[a] = phase'[a] /\ root'[a] = root[a]
  BY DEF Entered, AppIds
<1>4. ASSUME NEW i \in Ids, AllQueued(i)
      PROVE  Q(i)
  BY <1>1, <1>4 DEF AllQueued
<1> HIDE DEF Q
<1>5. \A a \in AppIds : phase[a] # "off" => root[a] \in Ids
  BY DEF TreeInv, Shape, TreeTypeOK
<1>6. Finished'
  <2>1. ASSUME NEW i \in Ids \cup {Fresh}, NEW k \in DOMAIN children'[i]
        PROVE  Q(children'[i][k])
    <3>1. i \in Ids
      <4>1. DOMAIN <<>> = {}
        OBVIOUS
      <4> QED BY <1>1, <2>1, <4>1
    <3>2. PICK c : c = children[i][k] /\ children'[i] = children[i]
      BY <1>1, <3>1
    <3>3. c \in Ids /\ AllQueued(c)
      BY <2>1, <3>1, <3>2 DEF TreeInv, Shape, Grouped, Finished
    <3>4. Q(c)
      BY <1>4, <3>3
    <3> QED BY <3>2, <3>4
  <2>2. ASSUME NEW a \in AppIds, phase'[a] \in {"setup", "created", "up"}
        PROVE  Q(root'[a])
    <3>1. phase[a] = phase'[a] /\ root'[a] = root[a]
      BY <1>3, <2>2
    <3>2. PICK i : i = root[a]
      OBVIOUS
    <3>3. i \in Ids /\ AllQueued(i)
      BY <1>5, <2>2, <3>1, <3>2 DEF TreeInv, Finished
    <3>4. Q(i)
      BY <1>4, <3>3
    <3> QED BY <3>1, <3>2, <3>4
  <2> QED BY <1>1, <1>3, <2>1, <2>2 DEF Finished, AllQueued, Q
<1>7. SetUp'
  <2> SUFFICES ASSUME NEW a \in AppIds, phase'[a] \in {"created", "up"}
               PROVE  \E D : Initialised(D, root[a])'
    BY <1>3 DEF SetUp
  <2>1. phase[a] = phase'[a] /\ root'[a] = root[a]
    BY <1>3
  <2>2. PICK i : i = root[a]
    OBVIOUS
  <2>3. PICK D : Initialised(D, i)
    BY <2>1, <2>2 DEF TreeInv, SetUp
  <2>4. D \subseteq Ids /\ Fresh \notin D
    BY <1>1, <2>3 DEF Initialised
  <2>5. ASSUME NEW x \in DOMAIN frames' PROVE frames'[x].id \notin D
    <3>1. CASE x \in DOMAIN frames
      BY <1>2, <2>3, <3>1 DEF Initialised
    <3>2. CASE x \notin DOMAIN frames
      <4>1. x = Len(frames) + 1
        BY <1>2, <3>2
      <4> QED BY <1>2, <2>4, <4>1
    <3> QED BY <3>1, <3>2
  <2>6. Initialised(D, i)'
    BY <1>1, <1>3, <2>3, <2>4, <2>5 DEF Initialised
  <2> QED BY <2>1, <2>2, <2>6
<1>8. Running'
  BY <1>3 DEF Running
<1> QED BY <1>6, <1>7, <1>8

LEMMA EnterKeeps ==
  ASSUME TreeInv, NEW m, NEW above, NEW stack, Entered(m, above, stack)
  PROVE  TreeInv'
BY EnterKeepsShape, EnterKeepsProvenance, EnterKeepsFinished DEF TreeInv

-----------------------------------------------------------------------------
(* A constructor returns.                                                   *)

\* What is in the map then.
LEMMA SetAllIs ==
  ASSUME NEW g, NEW f
  PROVE  /\ DOMAIN SetAll(g, f) = DOMAIN f \cup DOMAIN g
         /\ SetAll(g, f) = [x \in DOMAIN SetAll(g, f) |-> SetAll(g, f)[x]]
         /\ \A x \in DOMAIN SetAll(g, f) :
              \/ x \in DOMAIN f /\ SetAll(g, f)[x] = f[x]
              \/ x \in DOMAIN g /\ SetAll(g, f)[x] = g[x]
BY DEF SetAll

LEMMA SetAllEntries ==
  ASSUME NEW g, NEW f, NEW h, h = SetAll(g, f)
  PROVE  \A x \in DOMAIN h : \/ x \in DOMAIN f /\ h[x] = f[x]
                             \/ x \in DOMAIN g /\ h[x] = g[x]
<1>1. h = [x \in DOMAIN g \cup DOMAIN f |-> IF x \in DOMAIN f THEN f[x] ELSE g[x]]
  BY DEF SetAll
<1> QED BY <1>1

\* What a set of services has been put together of.
IsServices(f) == f \in UNION {[D -> AnyInstance] : D \in SUBSET Classes}

LEMMA ServicesAre ==
  ASSUME NEW f
  PROVE  IsServices(f) <=>
           /\ f = [x \in DOMAIN f |-> f[x]] /\ DOMAIN f \subseteq Classes
           /\ \A d \in DOMAIN f : f[d] \in AnyInstance
<1>1. ASSUME IsServices(f)
      PROVE  /\ f = [x \in DOMAIN f |-> f[x]] /\ DOMAIN f \subseteq Classes
             /\ \A d \in DOMAIN f : f[d] \in AnyInstance
  <2>1. PICK D \in SUBSET Classes : f \in [D -> AnyInstance]
    BY <1>1 DEF IsServices
  <2> QED BY <2>1
<1>2. ASSUME f = [x \in DOMAIN f |-> f[x]], DOMAIN f \subseteq Classes,
             \A d \in DOMAIN f : f[d] \in AnyInstance
      PROVE  IsServices(f)
  <2>1. f \in [DOMAIN f -> AnyInstance]
    BY <1>2
  <2> QED BY <1>2, <2>1 DEF IsServices
<1> QED BY <1>1, <1>2

LEMMA SetAllServices ==
  ASSUME NEW f, NEW g, IsServices(f), IsServices(g)
  PROVE  IsServices(SetAll(g, f))
<1>1. /\ DOMAIN f \subseteq Classes /\ \A d \in DOMAIN f : f[d] \in AnyInstance
      /\ DOMAIN g \subseteq Classes /\ \A d \in DOMAIN g : g[d] \in AnyInstance
  BY ServicesAre
<1>2. PICK h : h = SetAll(g, f)
  OBVIOUS
<1>3. /\ SetAll(g, f) = [x \in DOMAIN SetAll(g, f) |-> SetAll(g, f)[x]]
      /\ \A x \in DOMAIN SetAll(g, f) :
           \/ x \in DOMAIN f /\ SetAll(g, f)[x] = f[x]
           \/ x \in DOMAIN g /\ SetAll(g, f)[x] = g[x]
  BY SetAllIs
<1>4. /\ h = [x \in DOMAIN h |-> h[x]]
      /\ \A x \in DOMAIN h :
           \/ x \in DOMAIN f /\ h[x] = f[x]
           \/ x \in DOMAIN g /\ h[x] = g[x]
  BY <1>2, <1>3
<1>5. DOMAIN h \subseteq Classes /\ \A d \in DOMAIN h : h[d] \in AnyInstance
  BY <1>1, <1>4
<1>6. IsServices(h)
  <2>1. h = [x \in DOMAIN h |-> h[x]]
    BY <1>4
  <2> QED BY <2>1, <1>5, ServicesAre
<1> QED BY <1>2, <1>6

\* The module whose constructor returns, and the one that imports it.
Leaving == frames[Len(frames)].id
Importer == frames[Len(frames) - 1].id

\* A service that comes from a module, or from one that returned before it did.
From(e, d, i) ==
  /\ e[1] \in Ids /\ made[e[1]] = d[1]
  /\ e[1] = i \/ ReturnsBefore(e[1], i)

\* The services of the module, its own and those it held.
LEMMA OwnServicesAre ==
  ASSUME TreeInv, Leave
  PROVE  /\ Len(frames) \in Nat \ {0} /\ DOMAIN frames = 1..Len(frames)
         /\ Inner.id = Leaving /\ Leaving \in Ids /\ Leaving \in Nat
         /\ IsServices(WithOwn(Leaving))
         /\ \A d \in DOMAIN WithOwn(Leaving) : From(WithOwn(Leaving)[d], d, Leaving)
<1>1. /\ frames \in Seq(Frames) /\ frames # <<>> /\ made \in Seq(ModuleClasses)
      /\ \A x \in DOMAIN frames : frames[x].id \in Ids
      /\ Len(held) = Len(made)
      /\ held \in Seq(UNION {[D -> AnyInstance] : D \in SUBSET Classes})
  BY DEF TreeInv, Shape, TreeTypeOK, Leave
<1>2. Len(frames) \in Nat \ {0} /\ DOMAIN frames = 1..Len(frames) /\ Len(frames) \in DOMAIN frames
  BY <1>1
<1>3. Inner.id = Leaving /\ Leaving \in Ids /\ Leaving \in Nat
  BY <1>1, <1>2 DEF Inner, Leaving, Ids
<1>4. Created \subseteq Providers
  <2>1. created \in Seq(Providers)
    BY DEF TreeInv, Running, Leave, IInv, TypeOK
  <2> QED BY <2>1 DEF Created
<1>5. PICK i \in Ids : i = Leaving
  BY <1>3
<1>6. PICK own : own = [c \in {<<Class(i), p>> : p \in Created} |-> <<i, c[2]>>]
  OBVIOUS
<1>7. PICK h : h = WithOwn(i) /\ h = SetAll(held[i], own)
  BY <1>6 DEF WithOwn, OwnServices
<1>8. made[i] \in ModuleClasses /\ i \in Nat
  BY <1>1 DEF Ids
<1>9. ASSUME NEW d \in DOMAIN own
      PROVE  d \in Classes /\ own[d] \in AnyInstance /\ From(own[d], d, i)
  <2>1. PICK p \in Created : d = <<made[i], p>>
    BY <1>6 DEF Class
  <2>2. own[d] = <<i, p>>
    BY <1>6, <2>1
  <2>3. d \in Classes /\ own[d] \in AnyInstance
    BY <1>4, <1>8, <2>1, <2>2 DEF Classes, AnyInstance
  <2> QED BY <2>1, <2>2, <2>3 DEF From
<1>10. IsServices(own)
  <2>1. own = [x \in DOMAIN own |-> own[x]]
    BY <1>6
  <2> QED BY <1>9, <2>1, ServicesAre
<1>11. IsServices(held[i])
  BY <1>1 DEF Ids, IsServices
<1>12. \A d \in DOMAIN held[i] : From(held[i][d], d, i)
  BY DEF TreeInv, Provenance, From
<1>13. IsServices(h)
  BY <1>7, <1>10, <1>11, SetAllServices
<1>14. ASSUME NEW d \in DOMAIN h PROVE From(h[d], d, i)
  <2>1. \/ d \in DOMAIN own /\ h[d] = own[d]
        \/ d \in DOMAIN held[i] /\ h[d] = held[i][d]
    <3>1. PICK g : g = held[i]
      OBVIOUS
    <3>2. h = SetAll(g, own)
      BY <1>7, <3>1
    <3>3. \A x \in DOMAIN h : \/ x \in DOMAIN own /\ h[x] = own[x]
                              \/ x \in DOMAIN g /\ h[x] = g[x]
      BY <3>2, SetAllEntries
    <3> QED BY <1>14, <3>1, <3>3
  <2>2. CASE d \in DOMAIN own /\ h[d] = own[d]
    BY <1>9, <2>2, Zenon
  <2>3. CASE d \in DOMAIN held[i] /\ h[d] = held[i][d]
    BY <1>12, <2>3, Zenon
  <2> QED BY <2>1, <2>2, <2>3
<1> QED BY <1>2, <1>3, <1>5, <1>7, <1>13, <1>14

\* What it exports.
LEMMA ExportsAre ==
  ASSUME NEW f, IsServices(f), NEW m, NEW i, \A d \in DOMAIN f : From(f[d], d, i)
  PROVE  /\ IsServices(ExportedServices(m, f))
         /\ \A d \in DOMAIN ExportedServices(m, f) : From(ExportedServices(m, f)[d], d, i)
<1>1. PICK e : e = ExportedServices(m, f)
  OBVIOUS
<1>2. /\ DOMAIN e \subseteq DOMAIN f /\ \A d \in DOMAIN e : e[d] = f[d]
      /\ e = [x \in DOMAIN e |-> e[x]]
  BY <1>1 DEF ExportedServices
<1>3. DOMAIN f \subseteq Classes /\ \A d \in DOMAIN f : f[d] \in AnyInstance
  BY ServicesAre
<1>4. IsServices(e)
  BY <1>2, <1>3, ServicesAre
<1> QED BY <1>1, <1>2, <1>4

\* Where the module stands that imports it.
LEMMA ImporterIs ==
  ASSUME TreeInv, Leave, Len(frames) # 1
  PROVE  /\ Importer \in Ids /\ Importer < Leaving
         /\ Above(Leaving) = Above(Importer) \cup {Importer}
         /\ \A k \in DOMAIN children[Importer] : children[Importer][k] < Leaving
<1>1. /\ Len(frames) \in Nat \ {0} /\ DOMAIN frames = 1..Len(frames)
      /\ Leaving \in Ids /\ Leaving \in Nat
  BY OwnServicesAre
<1>2. PICK x \in DOMAIN frames : x = Len(frames) - 1 /\ x + 1 = Len(frames) /\ x \in Nat
  BY <1>1
<1>3. Importer = frames[x].id /\ Leaving = frames[x + 1].id /\ x + 1 \in DOMAIN frames
  BY <1>1, <1>2 DEF Importer, Leaving
<1>4. /\ Above(Importer) = {frames[y].id : y \in 1..(x - 1)}
      /\ x < Len(frames) =>
           \A k \in DOMAIN children[Importer] : children[Importer][k] < Leaving
  BY <1>3 DEF TreeInv, Stacked
<1>5. Above(Leaving) = {frames[y].id : y \in 1..((x + 1) - 1)}
  BY <1>3 DEF TreeInv, Stacked
<1>6. 1..((x + 1) - 1) = 1..(x - 1) \cup {x}
  BY <1>1, <1>2
<1>7. Above(Leaving) = Above(Importer) \cup {Importer}
  BY <1>3, <1>4, <1>5, <1>6
<1>8. Importer \in Ids
  BY <1>3 DEF TreeInv, Shape, TreeTypeOK
<1>9. Above(Leaving) \subseteq 1..(Leaving - 1)
  BY <1>1 DEF TreeInv, Shape, Nested
<1>10. Importer < Leaving
  <2>1. Importer \in 1..(Leaving - 1)
    BY <1>7, <1>9
  <2> QED BY <1>1, <2>1
<1>11. x < Len(frames)
  BY <1>1, <1>2
<1> QED BY <1>4, <1>7, <1>8, <1>10, <1>11

\* The constructors that are still under way.
LEMMA LeaveFrames ==
  ASSUME TreeInv, Leave
  PROVE  /\ frames' \in Seq(Frames) /\ Len(frames') = Len(frames) - 1
         /\ DOMAIN frames' = 1..(Len(frames) - 1)
         /\ \A x \in DOMAIN frames' : x \in DOMAIN frames /\ frames'[x] = frames[x]
<1>1. frames \in Seq(Frames) /\ frames' = Outer
  BY DEF TreeInv, Shape, TreeTypeOK, Leave
<1>2. Len(frames) \in Nat \ {0} /\ DOMAIN frames = 1..Len(frames)
  BY OwnServicesAre
<1>3. PICK n \in Nat : n = Len(frames) - 1
  <2>1. Len(frames) - 1 \in Nat
    BY <1>2
  <2> QED BY <2>1
<1>4. frames' = [x \in 1..n |-> frames[x]]
  BY <1>1, <1>2, <1>3 DEF Outer
<1>5. 1..n \subseteq DOMAIN frames /\ \A x \in 1..n : frames[x] \in Frames
  BY <1>1, <1>2, <1>3
<1>6. frames' \in Seq(Frames) /\ Len(frames') = n /\ DOMAIN frames' = 1..n
  BY <1>4, <1>5
<1> QED BY <1>3, <1>4, <1>5, <1>6

\* What comes from the module comes from under its importer.
LEMMA FromImporter ==
  ASSUME TreeInv, Leave, Len(frames) # 1, NEW e, NEW d, From(e, d, Leaving)
  PROVE  From(e, d, Importer)
<1>1. /\ Leaving \in Ids /\ Leaving \in Nat /\ Importer \in Ids /\ Importer < Leaving
      /\ Above(Leaving) = Above(Importer) \cup {Importer}
  BY OwnServicesAre, ImporterIs
<1>2. PICK j : j = e[1]
  OBVIOUS
<1>3. j \in Ids /\ j \in Nat /\ Importer \in Nat /\ (j = Leaving \/ ReturnsBefore(j, Leaving))
  BY <1>1, <1>2 DEF From, Ids
<1>4. \A i \in Ids : \A m \in Above(i) :
        /\ Above(m) \subseteq Above(i)
        /\ \A k \in Ids : m < k /\ k < i => m \in Above(k)
  BY DEF TreeInv, Shape, Nested
<1>5. CASE j = Leaving
  BY <1>1, <1>2, <1>5 DEF From, ReturnsBefore
<1>6. CASE Leaving \in Above(j)
  <2>1. Importer \in Above(j)
    BY <1>1, <1>3, <1>4, <1>6
  <2> QED BY <1>2, <1>3, <2>1 DEF From, ReturnsBefore
<1>7. CASE j < Leaving /\ j \notin Above(Leaving)
  <2>1. j # Importer /\ j \notin Above(Importer)
    BY <1>1, <1>7
  <2>2. j < Importer \/ Importer \in Above(j)
    BY <1>1, <1>3, <1>4, <1>7, <2>1
  <2> QED BY <1>2, <1>3, <2>1, <2>2 DEF From, ReturnsBefore
<1> QED BY <1>3, <1>5, <1>6, <1>7 DEF ReturnsBefore

\* Nothing of it comes from a constructor that is still under way.
LEMMA FromReturned ==
  ASSUME TreeInv, Leave, NEW e, NEW d, From(e, d, Leaving), NEW x \in DOMAIN frames'
  PROVE  e[1] # frames'[x].id
<1>1. /\ Leaving \in Ids /\ Leaving \in Nat
      /\ Len(frames) \in Nat \ {0} /\ DOMAIN frames = 1..Len(frames)
  BY OwnServicesAre
<1>2. PICK i : i = frames'[x].id /\ i = frames[x].id /\ x \in 1..(Len(frames) - 1)
  BY LeaveFrames
<1>3. i \in Above(Leaving)
  <2>1. PICK n \in DOMAIN frames : n = Len(frames) /\ frames[n].id = Leaving
    BY <1>1 DEF Leaving
  <2>2. Above(Leaving) = {frames[y].id : y \in 1..(n - 1)}
    BY <2>1 DEF TreeInv, Stacked
  <2> QED BY <1>2, <2>1, <2>2
<1>4. i \in 1..(Leaving - 1)
  BY <1>1, <1>3 DEF TreeInv, Shape, Nested
<1>5. PICK j : j = e[1] /\ j \in Ids /\ (j = Leaving \/ ReturnsBefore(j, Leaving))
  BY DEF From
<1>6. Leaving \in Above(j) => Leaving \in 1..(j - 1)
  BY <1>5 DEF TreeInv, Shape, Nested
<1> QED BY <1>1, <1>2, <1>3, <1>4, <1>5, <1>6 DEF ReturnsBefore, Ids

\* What every module holds then.
LEMMA LeaveHeld ==
  ASSUME TreeInv, Leave
  PROVE  /\ held' \in Seq(UNION {[D -> AnyInstance] : D \in SUBSET Classes})
         /\ Len(held') = Len(made)
         /\ \A i \in Ids : \A d \in DOMAIN held'[i] : From(held'[i][d], d, i)
<1> DEFINE S == UNION {[D -> AnyInstance] : D \in SUBSET Classes}
<1>1. /\ Leaving \in Ids /\ Inner.id = Leaving /\ Len(frames) \in Nat \ {0}
      /\ IsServices(WithOwn(Leaving))
      /\ \A d \in DOMAIN WithOwn(Leaving) : From(WithOwn(Leaving)[d], d, Leaving)
  BY OwnServicesAre
<1>2. /\ Len(made) \in Nat /\ held \in Seq(S) /\ Len(held) = Len(made) /\ DOMAIN held = Ids
      /\ \A i \in Ids : \A d \in DOMAIN held[i] : From(held[i][d], d, i)
  BY DEF TreeInv, Shape, TreeTypeOK, Provenance, From, Ids
<1>3. PICK f : f = WithOwn(Leaving)
  OBVIOUS
<1>4. PICK e : e = ExportedServices(Class(Leaving), f)
  OBVIOUS
<1>5. IsServices(f) /\ \A d \in DOMAIN f : From(f[d], d, Leaving)
  BY <1>1, <1>3
<1>6. IsServices(e) /\ \A d \in DOMAIN e : From(e[d], d, Leaving)
  BY <1>4, <1>5, ExportsAre
<1>7. \A i \in Ids : IsServices(held[i])
  BY <1>2 DEF IsServices
<1>8. CASE Len(frames) = 1
  <2>1. held' = [held EXCEPT ![Leaving] = f]
    BY <1>1, <1>3, <1>8 DEF Leave
  <2>2. /\ held' \in Seq(S) /\ Len(held') = Len(made)
        /\ \A i \in Ids : held'[i] = IF i = Leaving THEN f ELSE held[i]
    <3>1. f \in S
      BY <1>5 DEF IsServices
    <3> HIDE DEF S
    <3> QED BY <1>1, <1>2, <2>1, <3>1
  <2>3. ASSUME NEW i \in Ids, NEW d \in DOMAIN held'[i] PROVE From(held'[i][d], d, i)
    <3>1. CASE i = Leaving
      <4>1. held'[i] = f
        BY <2>2, <3>1
      <4> QED BY <1>5, <2>3, <3>1, <4>1, Zenon
    <3>2. CASE i # Leaving
      <4>1. held'[i] = held[i]
        BY <2>2, <3>2
      <4> QED BY <1>2, <2>3, <4>1, Zenon
    <3> QED BY <3>1, <3>2
  <2> QED BY <2>2, <2>3
<1>9. CASE Len(frames) # 1
  <2>1. PICK i1 \in Ids : i1 = Importer /\ i1 # Leaving
    BY <1>1, <1>9, ImporterIs DEF Ids
  <2>2. PICK g : g = SetAll(held[i1], e)
    OBVIOUS
  <2>3. held' = [held EXCEPT ![Leaving] = f, ![i1] = g]
    BY <1>1, <1>2, <1>3, <1>4, <1>9, <2>1, <2>2 DEF Leave, Importer
  <2>4. IsServices(g)
    <3>1. IsServices(held[i1])
      BY <1>7
    <3> QED BY <1>6, <2>2, <3>1, SetAllServices
  <2>5. ASSUME NEW d \in DOMAIN g PROVE From(g[d], d, i1)
    <3>1. PICK h : h = held[i1]
      OBVIOUS
    <3>2. \/ d \in DOMAIN e /\ g[d] = e[d]
          \/ d \in DOMAIN h /\ g[d] = h[d]
      <4>1. g = SetAll(h, e)
        BY <2>2, <3>1
      <4>2. \A x \in DOMAIN g : \/ x \in DOMAIN e /\ g[x] = e[x]
                                \/ x \in DOMAIN h /\ g[x] = h[x]
        BY <4>1, SetAllEntries
      <4> QED BY <2>5, <4>2
    <3>3. CASE d \in DOMAIN e /\ g[d] = e[d]
      <4>1. From(e[d], d, Leaving)
        BY <1>6, <3>3
      <4>2. From(e[d], d, Importer)
        BY <1>9, <4>1, FromImporter
      <4> QED BY <2>1, <3>3, <4>2, Zenon
    <3>4. CASE d \in DOMAIN h /\ g[d] = h[d]
      BY <1>2, <3>1, <3>4, Zenon
    <3> QED BY <3>2, <3>3, <3>4
  <2>6. /\ held' \in Seq(S) /\ Len(held') = Len(made)
        /\ \A i \in Ids : held'[i] = IF i = i1 THEN g ELSE IF i = Leaving THEN f ELSE held[i]
    <3>1. f \in S /\ g \in S
      BY <1>5, <2>4 DEF IsServices
    <3> HIDE DEF S
    <3> QED BY <1>1, <1>2, <2>1, <2>3, <3>1
  <2>7. ASSUME NEW i \in Ids, NEW d \in DOMAIN held'[i] PROVE From(held'[i][d], d, i)
    <3>1. CASE i = i1
      <4>1. held'[i] = g
        BY <2>6, <3>1
      <4> QED BY <2>5, <2>7, <3>1, <4>1, Zenon
    <3>2. CASE i # i1 /\ i = Leaving
      <4>1. held'[i] = f
        BY <2>6, <3>2
      <4> QED BY <1>5, <2>7, <3>2, <4>1, Zenon
    <3>3. CASE i # i1 /\ i # Leaving
      <4>1. held'[i] = held[i]
        BY <2>6, <3>3
      <4> QED BY <1>2, <2>7, <4>1, Zenon
    <3> QED BY <3>1, <3>2, <3>3
  <2> QED BY <2>6, <2>7
<1> QED BY <1>8, <1>9

\* What the registry has then.
LEMMA LeaveRegistry ==
  ASSUME TreeInv, Leave
  PROVE  /\ registry' \in UNION {[D -> AnyInstance] : D \in SUBSET Classes}
         /\ \A d \in DOMAIN registry' :
              /\ registry'[d][1] \in Ids /\ made[registry'[d][1]] = d[1]
              /\ \A x \in DOMAIN frames' : registry'[d][1] # frames'[x].id
<1> DEFINE Fine(r, d) ==
      /\ r[d][1] \in Ids /\ made[r[d][1]] = d[1]
      /\ \A x \in DOMAIN frames' : r[d][1] # frames'[x].id
<1>1. /\ Inner.id = Leaving /\ IsServices(WithOwn(Leaving))
      /\ \A d \in DOMAIN WithOwn(Leaving) : From(WithOwn(Leaving)[d], d, Leaving)
  BY OwnServicesAre
<1>2. IsServices(registry) /\ \A d \in DOMAIN registry : Fine(registry, d)
  <2>1. \A x \in DOMAIN frames' : x \in DOMAIN frames /\ frames'[x] = frames[x]
    BY LeaveFrames
  <2> QED BY <2>1 DEF TreeInv, Shape, TreeTypeOK, Provenance, IsServices
<1>3. PICK f : f = WithOwn(Leaving)
  OBVIOUS
<1>4. PICK e : e = ExportedServices(Class(Leaving), f)
  OBVIOUS
<1>5. IsServices(e) /\ \A d \in DOMAIN e : From(e[d], d, Leaving)
  BY <1>1, <1>3, <1>4, ExportsAre
<1>6. ASSUME NEW d \in DOMAIN e PROVE Fine(e, d)
  <2>1. PICK v : v = e[d]
    OBVIOUS
  <2>2. From(v, d, Leaving)
    BY <1>5, <2>1
  <2>3. \A x \in DOMAIN frames' : v[1] # frames'[x].id
    BY <2>2, FromReturned
  <2> QED BY <2>1, <2>2, <2>3 DEF From
<1>7. registry' = registry \/ registry' = SetAll(registry, e)
  BY <1>1, <1>3, <1>4 DEF Leave, globals
<1>8. CASE registry' = registry
  BY <1>2, <1>8 DEF IsServices
<1>9. CASE registry' = SetAll(registry, e)
  <2>1. PICK g : g = SetAll(registry, e)
    OBVIOUS
  <2>2. IsServices(g)
    BY <1>2, <1>5, <2>1, SetAllServices
  <2>3. \A x \in DOMAIN g : \/ x \in DOMAIN e /\ g[x] = e[x]
                            \/ x \in DOMAIN registry /\ g[x] = registry[x]
    BY <2>1, SetAllEntries
  <2>4. ASSUME NEW d \in DOMAIN g PROVE Fine(g, d)
    <3>1. CASE d \in DOMAIN e /\ g[d] = e[d]
      BY <1>6, <3>1, Zenon
    <3>2. CASE d \in DOMAIN registry /\ g[d] = registry[d]
      BY <1>2, <3>2, Zenon
    <3> QED BY <2>3, <3>1, <3>2
  <2> QED BY <1>9, <2>1, <2>2, <2>4 DEF IsServices
<1> QED BY <1>7, <1>8, <1>9

\* The services of the module are queued.
LEMMA LeaveInits ==
  ASSUME TreeInv, Leave
  PROVE  /\ inits' \in Seq(Seq(AnyInstance)) /\ Len(inits') = Len(made)
         /\ \A i \in Ids : i # Leaving => inits'[i] = inits[i]
         /\ InOrder'
         /\ \A p \in Providers :
              program.conduct[made[Leaving]][p] = "works" => <<Leaving, p>> \in ToSet(inits'[Leaving])
<1>0. /\ Leaving \in Ids /\ Inner.id = Leaving /\ Len(made) \in Nat /\ Leaving \in Nat
  BY OwnServicesAre DEF TreeInv, Shape, TreeTypeOK
<1>1. /\ inits' = [inits EXCEPT ![Leaving] = PendingInits(Leaving)]
      /\ program' = program /\ made' = made /\ outcome = "done"
  BY <1>0 DEF Leave
<1>2. /\ created \in Seq(Providers) /\ DependenciesFirst /\ NoneLost /\ pending = <<>>
      /\ deps = program.deps[made[Leaving]] /\ conduct = program.conduct[made[Leaving]]
  BY <1>1 DEF TreeInv, Running, IInv, TypeOK, DoneIsEmpty, Leaving
<1>3. PICK q : q = PendingInits(Leaving)
  OBVIOUS
<1>4. PICK own : own = {Leaving} \X Providers
  OBVIOUS
<1>5. /\ q \in Seq(own) /\ DOMAIN q = 1..Len(created)
      /\ \A k \in DOMAIN q : q[k] = <<Leaving, created[k]>>
  <2>1. q = [k \in 1..Len(created) |-> <<Leaving, created[k]>>]
    BY <1>3 DEF PendingInits
  <2>2. \A k \in 1..Len(created) : <<Leaving, created[k]>> \in own
    BY <1>2, <1>4
  <2>3. Len(created) \in Nat
    BY <1>2
  <2> QED BY <2>1, <2>2, <2>3
<1>6. /\ inits' \in Seq(Seq(AnyInstance)) /\ Len(inits') = Len(made) /\ inits'[Leaving] = q
      /\ \A i \in Ids : i # Leaving => inits'[i] = inits[i]
  <2>1. q \in Seq(AnyInstance)
    <3>1. own \subseteq AnyInstance
      BY <1>0, <1>4 DEF AnyInstance
    <3> QED BY <1>5, <3>1
  <2> DEFINE S == Seq(AnyInstance)
  <2>2. inits \in Seq(S) /\ Len(inits) = Len(made) /\ q \in S
    BY <2>1 DEF TreeInv, Shape, TreeTypeOK
  <2> HIDE DEF S
  <2>3. inits' \in Seq(S) /\ Len(inits') = Len(made) /\ inits'[Leaving] = q
        /\ \A i \in Ids : i # Leaving => inits'[i] = inits[i]
    BY <1>0, <1>1, <1>3, <2>2 DEF Ids
  <2> QED BY <2>3 DEF S
<1>7. InOrder'
  <2> SUFFICES ASSUME NEW i \in Ids
               PROVE  /\ inits'[i] \in Seq({i} \X Providers)
                      /\ \A k \in DOMAIN inits'[i] :
                           \A d \in program.deps[made[i]][inits'[i][k][2]] :
                             \E l \in DOMAIN inits'[i] : l < k /\ inits'[i][l] = <<i, d>>
    BY <1>1 DEF InOrder, Ids
  <2>1. CASE i # Leaving
    <3>1. inits'[i] = inits[i]
      BY <1>6, <2>1
    <3>2. /\ inits[i] \in Seq({i} \X Providers)
          /\ \A k \in DOMAIN inits[i] : \A d \in program.deps[made[i]][inits[i][k][2]] :
               \E l \in DOMAIN inits[i] : l < k /\ inits[i][l] = <<i, d>>
      BY DEF TreeInv, InOrder
    <3> QED BY <3>1, <3>2, Zenon
  <2>2. CASE i = Leaving
    <3>1. ASSUME NEW k \in DOMAIN q, NEW d \in program.deps[made[Leaving]][q[k][2]]
          PROVE  \E l \in DOMAIN q : l < k /\ q[l] = <<Leaving, d>>
      <4>1. q[k][2] = created[k] /\ k \in 1..Len(created)
        BY <1>5
      <4>2. d \in deps[created[k]]
        BY <1>2, <3>1, <4>1
      <4>3. PICK l \in 1..(k - 1) : created[l] = d
        BY <1>2, <4>1, <4>2 DEF DependenciesFirst
      <4>4. l \in DOMAIN q /\ l < k
        BY <1>2, <1>5, <4>1
      <4> QED BY <1>5, <4>3, <4>4
    <3> QED BY <1>4, <1>5, <1>6, <2>2, <3>1
  <2> QED BY <2>1, <2>2
<1>8. ASSUME NEW p \in Providers, program.conduct[made[Leaving]][p] = "works"
      PROVE  <<Leaving, p>> \in ToSet(inits'[Leaving])
  <2>1. p \in Created
    <3>1. Waiting = {}
      BY <1>2 DEF Waiting
    <3> QED BY <1>1, <1>2, <1>8, <3>1 DEF NoneLost
  <2>2. PICK k \in DOMAIN q : created[k] = p
    BY <1>5, <2>1 DEF Created
  <2> QED BY <1>5, <1>6, <2>2 DEF ToSet
<1> QED BY <1>6, <1>7, <1>8

\* The importer gets the module as its last child.
LEMMA LeaveChildren ==
  ASSUME TreeInv, Leave
  PROVE  /\ children' \in Seq(Seq(Nat)) /\ Len(children') = Len(made)
         /\ \A i \in Ids : Len(frames) = 1 \/ i # Importer => children'[i] = children[i]
         /\ Len(frames) # 1 =>
              /\ DOMAIN children'[Importer] = 1..(Len(children[Importer]) + 1)
              /\ \A k \in DOMAIN children[Importer] :
                   children'[Importer][k] = children[Importer][k]
              /\ children'[Importer][Len(children[Importer]) + 1] = Leaving
<1> DEFINE S == Seq(Nat)
<1>1. Leaving \in Ids /\ Leaving \in Nat /\ Inner.id = Leaving
  BY OwnServicesAre
<1>2. children \in Seq(S) /\ Len(children) = Len(made) /\ DOMAIN children = Ids
  BY DEF TreeInv, Shape, TreeTypeOK, Ids
<1>3. CASE Len(frames) = 1
  <2>1. children' = children
    BY <1>3 DEF Leave
  <2> QED BY <1>2, <1>3, <2>1
<1>4. CASE Len(frames) # 1
  <2>1. PICK i1 \in Ids : i1 = Importer
    BY <1>4, ImporterIs
  <2>2. PICK q : q = Append(children[i1], Leaving)
    OBVIOUS
  <2>3. children' = [children EXCEPT ![i1] = q]
    BY <1>1, <1>2, <1>4, <2>1, <2>2 DEF Leave, Importer
  <2>4. children[i1] \in Seq(Nat)
    BY <1>2, <2>1
  <2>5. /\ q \in Seq(Nat) /\ Len(q) = Len(children[i1]) + 1
        /\ \A k \in 1..Len(children[i1]) : q[k] = children[i1][k]
        /\ q[Len(children[i1]) + 1] = Leaving
    BY <1>1, <2>2, <2>4, AppendElements
  <2>6. DOMAIN children[i1] = 1..Len(children[i1]) /\ DOMAIN q = 1..(Len(children[i1]) + 1)
    BY <2>4, <2>5
  <2>7. /\ children' \in Seq(S) /\ Len(children') = Len(made)
        /\ \A i \in Ids : children'[i] = IF i = i1 THEN q ELSE children[i]
    <3>1. q \in S
      BY <2>5
    <3> HIDE DEF S
    <3> QED BY <1>2, <2>1, <2>3, <3>1
  <2> QED BY <1>4, <2>1, <2>5, <2>6, <2>7
<1> QED BY <1>3, <1>4

\* A module that returns has its place among the children of the importer, behind
\* those that returned before.
LEMMA LeaveKeepsGrouped ==
  ASSUME TreeInv, Leave
  PROVE  Nested' /\ Grouped' /\ Ids' = Ids
<1>1. made' = made /\ parents' = parents
  BY DEF Leave
<1>2. Ids' = Ids /\ \A i : Above(i)' = Above(i)
  BY <1>1 DEF Ids, Above
<1>3. Nested'
  BY <1>1, <1>2 DEF TreeInv, Shape, Nested
<1>4. \A i \in Ids : Len(frames) = 1 \/ i # Importer => children'[i] = children[i]
  BY LeaveChildren
<1>5. ASSUME NEW i \in Ids, NEW k \in DOMAIN children'[i]
      PROVE  /\ children'[i][k] \in Ids
             /\ Above(children'[i][k]) = Above(i) \cup {i}
             /\ \A l \in DOMAIN children'[i] : k < l => children'[i][k] < children'[i][l]
  <2>1. CASE Len(frames) = 1 \/ i # Importer
    <3>1. children'[i] = children[i]
      BY <1>4, <2>1
    <3>2. k \in DOMAIN children[i]
      BY <1>5, <3>1
    <3> QED BY <3>1, <3>2 DEF TreeInv, Shape, Grouped
  <2>2. CASE Len(frames) # 1 /\ i = Importer
    <3>1. PICK n : n = Len(children[i])
      OBVIOUS
    <3>2. PICK q : q = children'[i]
      OBVIOUS
    <3>3. /\ DOMAIN q = 1..(n + 1) /\ q[n + 1] = Leaving
          /\ \A m \in DOMAIN children[i] : q[m] = children[i][m]
      BY <2>2, <3>1, <3>2, LeaveChildren
    <3>4. DOMAIN children[i] = 1..n /\ n \in Nat
      <4>1. children[i] \in Seq(Nat)
        BY ChildrenAfter DEF TreeInv
      <4> QED BY <3>1, <4>1
    <3>5. /\ Leaving \in Ids /\ Above(Leaving) = Above(i) \cup {i}
          /\ \A m \in DOMAIN children[i] : children[i][m] < Leaving
      BY <2>2, ImporterIs, OwnServicesAre
    <3>6. \A m \in DOMAIN children[i] :
            /\ children[i][m] \in Ids /\ Above(children[i][m]) = Above(i) \cup {i}
            /\ \A l \in DOMAIN children[i] : m < l => children[i][m] < children[i][l]
      BY DEF TreeInv, Shape, Grouped
    <3>7. k \in 1..(n + 1)
      BY <1>5, <3>2, <3>3
    <3>8. CASE k = n + 1
      <4>1. \A l \in DOMAIN q : ~(k < l)
        BY <3>3, <3>4, <3>8
      <4> QED BY <3>2, <3>3, <3>5, <3>8, <4>1
    <3>9. CASE k # n + 1
      <4>1. k \in DOMAIN children[i] /\ q[k] = children[i][k]
        BY <3>3, <3>4, <3>7, <3>9
      <4>2. ASSUME NEW l \in DOMAIN q, k < l PROVE q[k] < q[l]
        <5>1. CASE l = n + 1
          BY <3>3, <3>5, <4>1, <5>1
        <5>2. CASE l # n + 1
          <6>1. l \in DOMAIN children[i] /\ q[l] = children[i][l]
            BY <3>3, <3>4, <4>2, <5>2
          <6> QED BY <3>6, <4>1, <4>2, <6>1
        <5> QED BY <5>1, <5>2
      <4> QED BY <3>2, <3>6, <4>1, <4>2
    <3> QED BY <3>8, <3>9
  <2> QED BY <2>1, <2>2
<1>6. Grouped'
  BY <1>2, <1>5 DEF Grouped
<1> QED BY <1>2, <1>3, <1>6

LEMMA LeaveKeepsShape ==
  ASSUME TreeInv, Leave
  PROVE  Shape' /\ Stacked' /\ Provenance' /\ InOrder'
<1>1. /\ program' = program /\ made' = made /\ parents' = parents /\ root' = root
      /\ awaits' = awaits
  BY DEF Leave
<1>2. Ids' = Ids /\ AppIds' = AppIds /\ \A i : Above(i)' = Above(i)
  BY <1>1 DEF Ids, AppIds, Above
<1>3. /\ frames' \in Seq(Frames) /\ Len(frames') = Len(frames) - 1
      /\ DOMAIN frames' = 1..(Len(frames) - 1)
      /\ \A x \in DOMAIN frames' : x \in DOMAIN frames /\ frames'[x] = frames[x]
  BY LeaveFrames
<1>4. /\ Len(frames) \in Nat \ {0} /\ DOMAIN frames = 1..Len(frames)
      /\ Leaving \in Ids /\ Inner.id = Leaving
  BY OwnServicesAre
<1>5. /\ held' \in Seq(UNION {[D -> AnyInstance] : D \in SUBSET Classes})
      /\ Len(held') = Len(made)
      /\ registry' \in UNION {[D -> AnyInstance] : D \in SUBSET Classes}
  BY LeaveHeld, LeaveRegistry
<1>6. /\ inits' \in Seq(Seq(AnyInstance)) /\ Len(inits') = Len(made)
      /\ children' \in Seq(Seq(Nat)) /\ Len(children') = Len(made)
  BY LeaveInits, LeaveChildren
<1>7. /\ phase' \in [AppIds -> {"off", "making", "setup", "created", "up", "failed"}]
      /\ \A a \in AppIds : phase'[a] # "off" => root[a] \in Ids
      /\ \A a \in awaits : phase'[a] # "off"
  <2>1. /\ phase \in [AppIds -> {"off", "making", "setup", "created", "up", "failed"}]
        /\ \A a \in AppIds : phase[a] # "off" => root[a] \in Ids
        /\ \A a \in awaits : phase[a] # "off"
        /\ awaits \subseteq AppIds
    BY DEF TreeInv, Shape, TreeTypeOK
  <2>2. \/ phase' = phase
        \/ phase' = [a \in AppIds |-> IF root[a] = Leaving THEN "setup" ELSE phase[a]]
    BY <1>4 DEF Leave
  <2> QED BY <1>4, <2>1, <2>2
<1>8. TreeTypeOK'
  <2>1. \A x \in DOMAIN frames' : frames'[x].id \in Ids /\ frames'[x].next # 0
    BY <1>3 DEF TreeInv, Shape, TreeTypeOK
  <2>2. /\ program \in Programs /\ made \in Seq(ModuleClasses)
        /\ parents \in Seq(Seq(Nat)) /\ Len(parents) = Len(made)
        /\ root \in [AppIds -> Nat] /\ awaits \subseteq AppIds
    BY DEF TreeInv, Shape, TreeTypeOK
  <2> QED BY <1>1, <1>2, <1>3, <1>5, <1>6, <1>7, <2>1, <2>2 DEF TreeTypeOK
<1>9. Stacked'
  <2> SUFFICES ASSUME NEW x \in DOMAIN frames'
               PROVE  /\ Above(frames'[x].id) = {frames'[y].id : y \in 1..(x - 1)}
                      /\ \A i \in Ids : frames'[x].id < i => frames'[x].id \in Above(i)
                      /\ x < Len(frames') =>
                           \A k \in DOMAIN children'[frames'[x].id] :
                             children'[frames'[x].id][k] < frames'[x + 1].id
    BY <1>1, <1>2 DEF Stacked
  <2>1. x \in DOMAIN frames /\ frames'[x].id = frames[x].id /\ x \in Nat
    BY <1>3, <1>4
  <2>2. {frames'[y].id : y \in 1..(x - 1)} = {frames[y].id : y \in 1..(x - 1)}
    <3>1. 1..(x - 1) \subseteq DOMAIN frames'
      BY <1>3, <1>4, <2>1
    <3>2. \A y \in 1..(x - 1) : frames'[y].id = frames[y].id
      BY <1>3, <3>1
    <3> QED BY <3>2
  <2>3. PICK f : f = frames[x].id
    OBVIOUS
  <2>4. /\ Above(f) = {frames[y].id : y \in 1..(x - 1)}
        /\ \A i \in Ids : f < i => f \in Above(i)
        /\ x < Len(frames) => \A k \in DOMAIN children[f] : children[f][k] < frames[x + 1].id
    BY <2>1, <2>3 DEF TreeInv, Stacked
  <2>5. ASSUME x < Len(frames'), NEW k \in DOMAIN children'[f]
        PROVE  children'[f][k] < frames'[x + 1].id
    <3>1. x + 1 \in DOMAIN frames' /\ x < Len(frames) /\ Len(frames) # 1
      BY <1>3, <1>4, <2>1, <2>5
    <3>2. frames'[x + 1].id = frames[x + 1].id
      BY <1>3, <3>1
    <3>3. f \in Above(Importer)
      <4>1. PICK n \in DOMAIN frames : n = Len(frames) - 1 /\ frames[n].id = Importer
        BY <1>4, <3>1 DEF Importer
      <4>2. Above(Importer) = {frames[y].id : y \in 1..(n - 1)}
        BY <4>1 DEF TreeInv, Stacked
      <4>3. x \in 1..(n - 1)
        BY <1>3, <1>4, <2>1, <2>5, <4>1
      <4> QED BY <2>3, <4>2, <4>3
    <3>4. f # Importer
      <4>1. Importer \in Ids
        BY <3>1, ImporterIs
      <4>2. f \in 1..(Importer - 1)
        BY <3>3, <4>1 DEF TreeInv, Shape, Nested
      <4> QED BY <4>1, <4>2 DEF Ids
    <3>5. children'[f] = children[f]
      <4>1. f \in Ids
        BY <2>1, <2>3 DEF TreeInv, Shape, TreeTypeOK
      <4> QED BY <3>4, <4>1, LeaveChildren
    <3> QED BY <2>4, <2>5, <3>1, <3>2, <3>5
  <2> QED BY <2>1, <2>2, <2>3, <2>4, <2>5
<1>10. Provenance'
  <2>1. \A j, i : ReturnsBefore(j, i)' = ReturnsBefore(j, i)
    BY <1>2 DEF ReturnsBefore
  <2>2. ASSUME NEW i \in Ids, NEW d \in DOMAIN held'[i]
        PROVE  /\ held'[i][d][1] \in Ids /\ made[held'[i][d][1]] = d[1]
               /\ held'[i][d][1] = i \/ ReturnsBefore(held'[i][d][1], i)
    <3>1. From(held'[i][d], d, i)
      BY LeaveHeld
    <3> QED BY <3>1 DEF From
  <2>3. \A d \in DOMAIN registry' :
          /\ registry'[d][1] \in Ids /\ made[registry'[d][1]] = d[1]
          /\ \A x \in DOMAIN frames' : registry'[d][1] # frames'[x].id
    BY LeaveRegistry
  <2> QED BY <1>1, <1>2, <2>1, <2>2, <2>3 DEF Provenance
<1>11. InOrder' /\ Nested' /\ Grouped'
  BY LeaveInits, LeaveKeepsGrouped
<1> QED BY <1>8, <1>9, <1>10, <1>11 DEF Shape

LEMMA LeaveKeeps == TreeInv /\ Leave => TreeInv'
<1> SUFFICES ASSUME TreeInv, Leave PROVE TreeInv'
  OBVIOUS
<1> DEFINE Q(i) ==
      \A p \in Providers : program.conduct[made[i]][p] = "works" => <<i, p>> \in ToSet(inits'[i])
<1>1. /\ program' = program /\ made' = made /\ root' = root /\ ready' = ready
      /\ outcome' = "none" /\ Ids' = Ids /\ AppIds' = AppIds
  BY DEF Leave, Ids, AppIds
<1>2. /\ Len(frames) \in Nat \ {0} /\ DOMAIN frames = 1..Len(frames)
      /\ Leaving \in Ids /\ Inner.id = Leaving
  BY OwnServicesAre
<1>3. Q(Leaving) /\ \A i \in Ids : AllQueued(i) => Q(i)
  <2>1. Q(Leaving) /\ \A i \in Ids : i # Leaving => inits'[i] = inits[i]
    BY LeaveInits
  <2> QED BY <2>1 DEF AllQueued
<1> HIDE DEF Q
<1>4. \A a \in AppIds :
        \/ phase'[a] = phase[a]
        \/ phase'[a] = "setup" /\ root[a] = Leaving
  <2>1. phase \in [AppIds -> {"off", "making", "setup", "created", "up", "failed"}]
    BY DEF TreeInv, Shape, TreeTypeOK
  <2>2. \/ phase' = phase
        \/ phase' = [a \in AppIds |-> IF root[a] = Leaving THEN "setup" ELSE phase[a]]
    BY <1>2 DEF Leave
  <2> QED BY <2>1, <2>2
<1>5. ASSUME NEW i \in Ids, NEW k \in DOMAIN children'[i]
      PROVE  Q(children'[i][k])
  <2>1. \A m \in DOMAIN children[i] : children[i][m] \in Ids /\ AllQueued(children[i][m])
    BY DEF TreeInv, Finished, Shape, Grouped
  <2>2. CASE Len(frames) = 1 \/ i # Importer
    <3>1. children'[i] = children[i]
      BY <2>2, LeaveChildren
    <3>2. PICK c : c = children'[i][k] /\ c \in Ids /\ AllQueued(c)
      BY <1>5, <2>1, <3>1
    <3> QED BY <1>3, <3>2
  <2>3. CASE Len(frames) # 1 /\ i = Importer
    <3>1. PICK n : n = Len(children[i])
      OBVIOUS
    <3>2. /\ DOMAIN children'[i] = 1..(n + 1) /\ children'[i][n + 1] = Leaving
          /\ \A m \in DOMAIN children[i] : children'[i][m] = children[i][m]
      BY <2>3, <3>1, LeaveChildren
    <3>3. DOMAIN children[i] = 1..n /\ n \in Nat
      <4>1. children[i] \in Seq(Nat)
        BY ChildrenAfter DEF TreeInv
      <4> QED BY <3>1, <4>1
    <3>4. CASE k = n + 1
      BY <1>3, <3>2, <3>4
    <3>5. CASE k # n + 1
      <4>1. k \in DOMAIN children[i]
        BY <1>5, <3>2, <3>3, <3>5
      <4>2. PICK c : c = children'[i][k] /\ c \in Ids /\ AllQueued(c)
        BY <2>1, <3>2, <4>1
      <4> QED BY <1>3, <4>2
    <3> QED BY <3>4, <3>5
  <2> QED BY <2>2, <2>3
<1>6. ASSUME NEW a \in AppIds, phase'[a] \in {"setup", "created", "up"}
      PROVE  Q(root[a])
  <2>1. CASE root[a] = Leaving
    BY <1>3, <2>1
  <2>2. CASE phase'[a] = phase[a]
    <3>1. PICK r : r = root[a] /\ r \in Ids /\ AllQueued(r)
      BY <1>6, <2>2 DEF TreeInv, Shape, TreeTypeOK, Finished
    <3> QED BY <1>3, <3>1
  <2> QED BY <1>4, <2>1, <2>2
<1>7. Finished'
  BY <1>1, <1>5, <1>6 DEF Finished, AllQueued, Q
<1>8. SetUp'
  <2> SUFFICES ASSUME NEW a \in AppIds, phase'[a] \in {"created", "up"}
               PROVE  \E D : Initialised(D, root[a])'
    BY <1>1 DEF SetUp
  <2>1. phase'[a] = phase[a]
    BY <1>4
  <2>2. PICK i : i = root[a]
    OBVIOUS
  <2>3. PICK D : Initialised(D, i)
    BY <2>1, <2>2 DEF TreeInv, SetUp
  <2>4. \A x \in DOMAIN frames' : x \in DOMAIN frames /\ frames'[x] = frames[x]
    BY LeaveFrames
  <2>5. \A j \in D : children'[j] = children[j]
    <3>1. Len(frames) # 1 => Importer \notin D
      <4>1. Len(frames) # 1 => Len(frames) - 1 \in DOMAIN frames
        BY <1>2
      <4> QED BY <2>3, <4>1 DEF Initialised, Importer
    <3>2. D \subseteq Ids
      BY <2>3 DEF Initialised
    <3> QED BY <3>1, <3>2, LeaveChildren
  <2>6. Initialised(D, i)'
    BY <1>1, <2>3, <2>4, <2>5 DEF Initialised
  <2> QED BY <1>1, <2>2, <2>6
<1>9. Running'
  BY <1>1 DEF Running
<1> QED BY <1>7, <1>8, <1>9, LeaveKeepsShape DEF TreeInv

-----------------------------------------------------------------------------
(* The other steps.                                                         *)

\* What every step that leaves the modules alone keeps.
LEMMA KeptTreeInv ==
  ASSUME TreeInv, ModulesKept, ready \subseteq ready', Running',
         \A a \in AppIds : \/ phase'[a] = phase[a] \/ phase'[a] = "failed"
                           \/ phase[a] = "created" /\ phase'[a] = "up"
  PROVE  TreeInv'
<1>1. Finished /\ SetUp
  BY DEF TreeInv
<1>2. \A a \in AppIds : phase'[a] \in {"setup", "created", "up"} =>
        phase[a] \in {"setup", "created", "up"}
  OBVIOUS
<1>3. \A a \in AppIds : phase'[a] \in {"created", "up"} => phase[a] \in {"created", "up"}
  OBVIOUS
<1>4. \A a \in AppIds : phase'[a] \in {"setup", "created", "up"} => AllQueued(root[a])
  BY <1>1, <1>2, Zenon DEF Finished
<1>5. \A a \in AppIds : phase'[a] \in {"created", "up"} => \E D : Initialised(D, root[a])
  BY <1>1, <1>3, Zenon DEF SetUp
<1>6. Finished' /\ SetUp'
  BY <1>4, <1>5, KeptFinished, Zenon
<1> QED BY <1>6, KeptShape DEF TreeInv

\* The innermost constructor goes on to its next import.
LEMMA OnwardFrames ==
  ASSUME TreeInv, frames # <<>>
  PROVE  /\ Len(frames) \in Nat \ {0} /\ DOMAIN frames = 1..Len(frames)
         /\ Inner.id \in Ids /\ Inner.id = frames[Len(frames)].id
         /\ Inner.next \in Nat \ {0}
         /\ Append(Outer, Onward) \in Seq(Frames)
         /\ Len(Append(Outer, Onward)) = Len(frames)
         /\ \A x \in DOMAIN Append(Outer, Onward) :
              /\ Append(Outer, Onward)[x].id = frames[x].id
              /\ Append(Outer, Onward)[x].next # 0
<1>1. frames \in Seq(Frames) /\ \A x \in DOMAIN frames : frames[x].id \in Ids /\ frames[x].next # 0
  BY DEF TreeInv, Shape, TreeTypeOK
<1>2. Len(frames) \in Nat \ {0} /\ DOMAIN frames = 1..Len(frames) /\ Len(frames) \in DOMAIN frames
  BY <1>1
<1>3. PICK n \in Nat : n = Len(frames) - 1
  <2>1. Len(frames) - 1 \in Nat
    BY <1>2
  <2> QED BY <2>1
<1>4. Inner = frames[Len(frames)] /\ Inner \in Frames /\ Inner.id \in Ids /\ Inner.next # 0
  BY <1>1, <1>2 DEF Inner
<1>5. /\ Onward \in Frames /\ Onward.id = Inner.id /\ Onward.next # 0
      /\ Inner.next \in Nat \ {0}
  BY <1>4 DEF Onward, Frames
<1>6. Outer = [x \in 1..n |-> frames[x]]
  BY <1>1, <1>2, <1>3 DEF Outer
<1>7. Outer \in Seq(Frames) /\ Len(Outer) = n /\ \A x \in 1..n : Outer[x] = frames[x]
  <2>1. 1..n \subseteq DOMAIN frames /\ \A x \in 1..n : frames[x] \in Frames
    BY <1>1, <1>2, <1>3
  <2> QED BY <1>6, <2>1
<1>8. PICK q : q = Append(Outer, Onward)
  OBVIOUS
<1>9. /\ q \in Seq(Frames) /\ Len(q) = n + 1 /\ q[n + 1] = Onward
      /\ \A x \in 1..n : q[x] = Outer[x]
  BY <1>5, <1>7, <1>8, AppendElements
<1>10. ASSUME NEW x \in DOMAIN q PROVE q[x].id = frames[x].id /\ q[x].next # 0
  <2>1. x \in 1..(n + 1) /\ n + 1 = Len(frames)
    BY <1>2, <1>3, <1>9
  <2>2. CASE x = n + 1
    BY <1>4, <1>5, <1>9, <2>1, <2>2
  <2>3. CASE x # n + 1
    <3>1. x \in 1..n /\ x \in DOMAIN frames
      BY <1>2, <2>1, <2>3
    <3>2. q[x] = frames[x]
      BY <1>7, <1>9, <3>1
    <3> QED BY <1>1, <3>1, <3>2
  <2> QED BY <2>2, <2>3
<1> QED BY <1>2, <1>3, <1>4, <1>5, <1>8, <1>9, <1>10

LEMMA PassByKeeps == TreeInv /\ PassBy => TreeInv'
<1> SUFFICES ASSUME TreeInv, PassBy PROVE TreeInv'
  OBVIOUS
<1>1. /\ frames # <<>> /\ outcome = "none" /\ frames' = Append(Outer, Onward)
      /\ UNCHANGED <<vars, program, modules, globals, apps>>
  BY DEF PassBy, Importing
<1>2. /\ UNCHANGED <<program, made, held, children, parents, inits, registry, root>>
      /\ UNCHANGED <<phase, awaits, ready, outcome>>
  BY <1>1 DEF modules, globals, apps, vars
<1>3. ModulesKept
  <2>1. /\ frames' \in Seq(Frames) /\ Len(frames') \in {0, Len(frames)}
        /\ \A x \in DOMAIN frames' : frames'[x].id = frames[x].id /\ frames'[x].next # 0
    BY <1>1, OnwardFrames
  <2> QED BY <1>2, <2>1, SMTT(30) DEF ModulesKept, TreeInv, Shape, TreeTypeOK
<1>4. Running'
  BY <1>1, <1>2 DEF Running
<1> QED BY <1>2, <1>3, <1>4, KeptTreeInv

LEMMA ImportKeeps == TreeInv /\ Import => TreeInv'
<1> SUFFICES ASSUME TreeInv, Import PROVE TreeInv'
  OBVIOUS
<1>1. /\ frames # <<>> /\ outcome = "none"
      /\ Inner.next <= Len(program.imports[Class(Inner.id)])
      /\ UNCHANGED <<vars, program, globals, apps>>
  BY DEF Import, Importing
<1>2. PICK above : above = Append(parents[Inner.id], Inner.id)
  OBVIOUS
<1>3. PICK stack : stack = Append(Outer, Onward)
  OBVIOUS
<1>4. PICK m : m = Imported
  OBVIOUS
<1>5. Enter(m, above, stack)
  BY <1>2, <1>3, <1>4, SMTT(30) DEF Import
<1>6. /\ Len(frames) \in Nat \ {0} /\ DOMAIN frames = 1..Len(frames)
      /\ Inner.id \in Ids /\ Inner.id = frames[Len(frames)].id
      /\ Inner.next \in Nat \ {0}
      /\ stack \in Seq(Frames) /\ Len(stack) = Len(frames)
      /\ \A x \in DOMAIN stack : stack[x].id = frames[x].id /\ stack[x].next # 0
  BY <1>1, <1>3, OnwardFrames
<1>7. PICK i \in Ids : i = Inner.id
  BY <1>6
<1>8. made[i] \in ModuleClasses /\ parents[i] \in Seq(Nat) /\ i \in Nat /\ program \in Programs
  BY DEF TreeInv, Shape, TreeTypeOK, Ids
<1>9. m \in ModuleClasses
  <2>1. PICK s \in Seq(ModuleClasses) : s = program.imports[made[i]]
    BY <1>8, ProgramsAssumption
  <2>2. Inner.next \in DOMAIN s
    BY <1>1, <1>6, <1>7, <2>1 DEF Class
  <2>3. m = s[Inner.next]
    BY <1>4, <1>7, <2>1 DEF Imported, Class
  <2> QED BY <2>2, <2>3
<1>10. above \in Seq(Nat) /\ ToSet(above) = {frames[x].id : x \in DOMAIN frames}
  <2>1. /\ above \in Seq(Nat)
        /\ {above[k] : k \in 1..Len(above)}
             = {parents[i][k] : k \in 1..Len(parents[i])} \cup {i}
    BY <1>2, <1>7, <1>8, AppendElements
  <2>2. ToSet(above) = Above(i) \cup {i}
    <3>1. DOMAIN above = 1..Len(above) /\ DOMAIN parents[i] = 1..Len(parents[i])
      BY <1>8, <2>1
    <3> QED BY <2>1, <3>1 DEF ToSet, Above
  <2>3. PICK n \in DOMAIN frames : n = Len(frames) /\ i = frames[n].id
    BY <1>6, <1>7
  <2>4. Above(i) = {frames[y].id : y \in 1..(n - 1)}
    BY <2>3 DEF TreeInv, Stacked
  <2>5. DOMAIN frames = 1..(n - 1) \cup {n}
    BY <1>6, <2>3
  <2>6. {frames[x].id : x \in DOMAIN frames} = {frames[y].id : y \in 1..(n - 1)} \cup {frames[n].id}
    <3>1. PICK lower : lower = 1..(n - 1)
      OBVIOUS
    <3>2. DOMAIN frames = lower \cup {n}
      BY <2>5, <3>1
    <3>3. {frames[x].id : x \in DOMAIN frames} = {frames[y].id : y \in lower} \cup {frames[n].id}
      BY <3>2
    <3> QED BY <3>1, <3>3
  <2> QED BY <2>1, <2>2, <2>3, <2>4, <2>6
<1>11. Entered(m, above, stack)
  <2>1. /\ UNCHANGED <<program, registry, awaits, ready>> /\ outcome' = "none"
        /\ phase' = phase /\ root' = root
    BY <1>1 DEF vars, globals, apps
  <2>2. /\ phase \in [AppIds -> {"off", "making", "setup", "created", "up", "failed"}]
        /\ root \in [AppIds -> Nat]
        /\ \A a \in AppIds : phase[a] # "off" => root[a] \in 1..Len(made)
        /\ \A a \in awaits : phase[a] # "off"
        /\ Len(made) \in Nat
    BY DEF TreeInv, Shape, TreeTypeOK, Ids
  <2>3. \A a \in AppIds : phase[a] # "off" => root[a] \in 1..(Len(made) + 1)
    BY <2>2
  <2> QED BY <1>5, <1>6, <1>9, <1>10, <2>1, <2>2, <2>3 DEF Entered
<1> QED BY <1>11, EnterKeeps

LEMMA StartAppKeeps ==
  ASSUME TreeInv, NEW a \in AppIds, StartApp(a)
  PROVE  TreeInv'
<1>1. /\ frames = <<>> /\ phase[a] = "off"
      /\ phase' = [phase EXCEPT ![a] = "making"] /\ root' = [root EXCEPT ![a] = Len(made) + 1]
      /\ Enter(program.apps[a], <<>>, <<>>)
      /\ UNCHANGED <<vars, program, globals, awaits, ready>>
  BY DEF StartApp
<1>2. outcome' = "none" /\ UNCHANGED <<program, registry, awaits, ready>>
  BY <1>1 DEF TreeInv, Running, vars, globals
<1>3. /\ program \in Programs /\ Len(made) \in Nat
      /\ phase \in [AppIds -> {"off", "making", "setup", "created", "up", "failed"}]
      /\ root \in [AppIds -> Nat] /\ awaits \subseteq AppIds
      /\ \A b \in AppIds : phase[b] # "off" => root[b] \in 1..Len(made)
      /\ \A b \in awaits : phase[b] # "off"
  BY DEF TreeInv, Shape, TreeTypeOK, Ids
<1>4. program.apps[a] \in ModuleClasses
  <2>1. program.apps \in Seq(ModuleClasses)
    BY <1>3, ProgramsAssumption
  <2> QED BY <2>1 DEF AppIds
<1>5. Len(<<>>) = 0 /\ DOMAIN <<>> = {} /\ <<>> \in Seq(Nat) /\ <<>> \in Seq(Frames)
  OBVIOUS
<1>6. ToSet(<<>>) = {frames[x].id : x \in DOMAIN frames}
  BY <1>1, <1>5 DEF ToSet
<1>7. /\ phase' \in [AppIds -> {"off", "making", "setup", "created", "up", "failed"}]
      /\ root' \in [AppIds -> Nat]
      /\ \A b \in AppIds : phase'[b] # "off" => root'[b] \in 1..(Len(made) + 1)
      /\ \A b \in awaits : phase'[b] # "off"
      /\ \A b \in AppIds : phase'[b] \in {"setup", "created", "up"} =>
           phase[b] = phase'[b] /\ root'[b] = root[b]
  BY <1>1, <1>3
<1>8. Entered(program.apps[a], <<>>, <<>>)
  BY <1>1, <1>2, <1>4, <1>5, <1>6, <1>7 DEF Entered
<1> QED BY <1>8, EnterKeeps

\* The innermost constructor has imported everything.
LEMMA CallServicesKeeps == TreeInv /\ CallServices => TreeInv'
<1> SUFFICES ASSUME TreeInv, CallServices PROVE TreeInv'
  OBVIOUS
<1>1. /\ frames # <<>> /\ deps' = program.deps[Class(Inner.id)]
      /\ conduct' = program.conduct[Class(Inner.id)]
      /\ foreign' = [p \in Providers |-> Availability(<<Class(Inner.id), p>>)]
      /\ pending' = [p \in Providers |-> p] /\ created' = <<>> /\ iterations' = 0
      /\ outcome' = "running" /\ UNCHANGED treeVars
  BY DEF CallServices
<1>2. /\ UNCHANGED <<program, frames, made, held, children, parents, inits, registry, root>>
      /\ UNCHANGED <<phase, awaits, ready>>
  BY <1>1 DEF treeVars, modules, globals, apps
<1>3. /\ Inner.id \in Ids /\ Inner.id = frames[Len(frames)].id
  BY <1>1, OnwardFrames
<1>4. PICK m \in ModuleClasses : m = made[Inner.id] /\ m = Class(Inner.id)
  <2>1. made \in Seq(ModuleClasses) /\ Inner.id \in DOMAIN made
    BY <1>3 DEF TreeInv, Shape, TreeTypeOK, Ids
  <2>2. made[Inner.id] \in ModuleClasses
    BY <2>1
  <2> QED BY <2>2 DEF Class
<1>5. program.deps[m] \in [Providers -> SUBSET Providers] /\ program.conduct[m] \in [Providers -> Conduct]
  <2>1. program \in Programs
    BY DEF TreeInv, Shape, TreeTypeOK
  <2> QED BY <2>1, ProgramsAssumption
<1>6. foreign' \in [Providers -> Foreign]
  <2>1. \A c : Availability(c) \in Foreign
    BY DEF Availability, Foreign
  <2> QED BY <1>1, <2>1
<1>7. N \in Nat
  BY NAssumption
<1>8. /\ pending' = [p \in 1..N |-> p] /\ pending' \in Seq(Providers) /\ Len(pending') = N
      /\ created' = <<>> /\ created' \in Seq(Providers) /\ Len(created') = 0
  BY <1>1, <1>7 DEF Providers
<1>9. TypeOK'
  BY <1>1, <1>4, <1>5, <1>6, <1>7, <1>8 DEF TypeOK, MaxIterations
<1>10. DependenciesFirst'
  BY <1>8 DEF DependenciesFirst
<1>11. NoneLost'
  <2>1. \A p \in Providers : pending'[p] = p /\ p \in 1..Len(pending')
    BY <1>8 DEF Providers
  <2> QED BY <2>1 DEF NoneLost, Waiting
<1>12. DoneIsEmpty'
  BY <1>1 DEF DoneIsEmpty
<1>13. Running'
  BY <1>1, <1>2, <1>3, <1>4, <1>9, <1>10, <1>11, <1>12 DEF Running, IInv, Class
<1>14. ModulesKept
  BY <1>2 DEF ModulesKept, TreeInv, Shape, TreeTypeOK
<1> QED BY <1>2, <1>13, <1>14, KeptTreeInv

LEMMA CreateServicesKeeps == TreeInv /\ CreateServices => TreeInv'
<1> SUFFICES ASSUME TreeInv, CreateServices PROVE TreeInv'
  OBVIOUS
<1>1. Next /\ UNCHANGED treeVars
  BY DEF CreateServices
<1>2. /\ UNCHANGED <<program, frames, made, held, children, parents, inits, registry, root>>
      /\ UNCHANGED <<phase, awaits, ready>>
  BY <1>1 DEF treeVars, modules, globals, apps
<1>3. outcome = "running" /\ deps' = deps /\ conduct' = conduct
  BY <1>1 DEF Next, Skip, Defer, Unresolvable, Fail, Construct, Return, Attempt
<1>4. /\ frames # <<>> /\ IInv
      /\ deps = program.deps[made[frames[Len(frames)].id]]
      /\ conduct = program.conduct[made[frames[Len(frames)].id]]
  BY <1>3 DEF TreeInv, Running
<1>5. IInv'
  BY <1>1, <1>4, StepIInv
<1>6. Running'
  BY <1>2, <1>3, <1>4, <1>5 DEF Running
<1>7. ModulesKept
  BY <1>2 DEF ModulesKept, TreeInv, Shape, TreeTypeOK
<1> QED BY <1>2, <1>6, <1>7, KeptTreeInv

LEMMA ThrowKeeps == TreeInv /\ Throw => TreeInv'
<1> SUFFICES ASSUME TreeInv, Throw PROVE TreeInv'
  OBVIOUS
<1>1. /\ frames' = <<>> /\ outcome' = "none"
      /\ phase' = [a \in AppIds |-> IF root[a] = frames[1].id THEN "failed" ELSE phase[a]]
      /\ UNCHANGED <<program, made, held, children, parents, inits, registry, root, awaits, ready>>
  BY DEF Throw, modules, globals
<1>2. <<>> \in Seq(Frames) /\ Len(<<>>) = 0 /\ DOMAIN <<>> = {}
  OBVIOUS
<1>3. /\ phase \in [AppIds -> {"off", "making", "setup", "created", "up", "failed"}]
      /\ awaits \subseteq AppIds /\ \A a \in awaits : phase[a] # "off"
  BY DEF TreeInv, Shape, TreeTypeOK
<1>4. ModulesKept
  <2>1. /\ phase' \in [AppIds -> {"off", "making", "setup", "created", "up", "failed"}]
        /\ \A a \in AppIds : phase'[a] # "off" => phase[a] # "off" \/ root[a] = frames[1].id
        /\ \A a \in awaits : phase'[a] # "off"
    BY <1>1, <1>3
  <2>2. frames[1].id \in Ids
    <3>1. frames \in Seq(Frames) /\ frames # <<>>
      BY DEF Throw, TreeInv, Shape, TreeTypeOK
    <3>2. 1 \in DOMAIN frames
      BY <3>1
    <3> QED BY <3>2 DEF TreeInv, Shape, TreeTypeOK
  <2>3. \A a \in AppIds : phase'[a] # "off" => root[a] \in Ids
    BY <2>1, <2>2 DEF TreeInv, Shape, TreeTypeOK
  <2> QED BY <1>1, <1>2, <1>3, <2>1, <2>3 DEF ModulesKept
<1>5. \A a \in AppIds : phase'[a] = phase[a] \/ phase'[a] = "failed"
  BY <1>1
<1>6. Running'
  BY <1>1 DEF Running
<1> QED BY <1>1, <1>4, <1>5, <1>6, KeptTreeInv

\* What an application does while no constructor is under way leaves them alone.
LEMMA AppStepKeeps ==
  ASSUME TreeInv, frames = <<>>,
         UNCHANGED <<vars, program, frames, modules, globals, root>>,
         awaits' \subseteq AppIds, \A b \in awaits' : phase[b] # "off",
         NEW a \in AppIds, phase[a] # "off",
         NEW new \in {"setup", "created", "up", "failed"}, phase' = [phase EXCEPT ![a] = new]
  PROVE  ModulesKept /\ Running'
<1>1. UNCHANGED <<program, frames, made, held, children, parents, inits, registry, root, outcome>>
  BY DEF vars, modules, globals
<1>2. phase \in [AppIds -> {"off", "making", "setup", "created", "up", "failed"}]
  BY DEF TreeInv, Shape, TreeTypeOK
<1>3. ModulesKept
  BY <1>1, <1>2 DEF ModulesKept, TreeInv, Shape, TreeTypeOK
<1>4. Running'
  BY <1>1 DEF TreeInv, Running
<1> QED BY <1>3, <1>4

\* onModuleInit is called, resolves or rejects.
LEMMA InitKeeps ==
  ASSUME TreeInv, NEW a \in AppIds, InitBegins(a) \/ InitEnds(a) \/ InitFails(a)
  PROVE  TreeInv'
<1>1. /\ frames = <<>>
      /\ UNCHANGED <<vars, program, frames, modules, globals, root>>
      /\ ready \subseteq ready'
      /\ awaits' = awaits \cup {a} \/ awaits' = awaits \ {a}
      /\ phase' = phase \/ phase' = [phase EXCEPT ![a] = "failed"]
      /\ phase[a] = "setup" \/ a \in awaits
  BY DEF InitBegins, InitEnds, InitFails
<1>2. /\ phase \in [AppIds -> {"off", "making", "setup", "created", "up", "failed"}]
      /\ awaits \subseteq AppIds /\ \A b \in awaits : phase[b] # "off"
  BY DEF TreeInv, Shape, TreeTypeOK
<1>3. phase[a] # "off" /\ awaits' \subseteq AppIds /\ \A b \in awaits' : phase[b] # "off"
  BY <1>1, <1>2
<1>4. UNCHANGED <<program, frames, made, held, children, parents, inits, registry, root, outcome>>
  BY <1>1 DEF vars, modules, globals
<1>5. /\ phase' \in [AppIds -> {"off", "making", "setup", "created", "up", "failed"}]
      /\ \A b \in AppIds : phase'[b] = phase[b] \/ (phase'[b] = "failed" /\ phase[b] # "off")
  BY <1>1, <1>2, <1>3
<1>6. ModulesKept
  BY <1>3, <1>4, <1>5 DEF ModulesKept, TreeInv, Shape, TreeTypeOK
<1>7. Running'
  BY <1>1, <1>4 DEF TreeInv, Running
<1> QED BY <1>1, <1>5, <1>6, <1>7, KeptTreeInv

\* What the modules of an application have queued is initialised when none of it is
\* unready.
LEMMA AllReady ==
  ASSUME TreeInv, NEW a \in AppIds, frames = <<>>, phase[a] = "setup", Unready(a) = {}
  PROVE  \E D : Initialised(D, root[a])
<1>1. Shape /\ Finished /\ root[a] \in Ids
  BY DEF TreeInv, Shape, TreeTypeOK
<1>2. PICK r \in Ids : r = root[a]
  BY <1>1
<1>3. PICK d : d = DescendantModules(r)
  OBVIOUS
<1>4. PICK D : D = {r} \cup ToSet(d)
  OBVIOUS
<1>5. PICK Q : Q = {j \in Ids : AllQueued(j)}
  OBVIOUS
<1>6. r \in Q /\ \A j \in Q : \A k \in DOMAIN children[j] : children[j][k] \in Q
  <2>1. AllQueued(r)
    BY <1>1, <1>2 DEF Finished
  <2>2. \A j \in Ids : \A k \in DOMAIN children[j] : children[j][k] \in Ids /\ AllQueued(children[j][k])
    BY <1>1 DEF Finished, Shape, Grouped
  <2> QED BY <1>5, <2>1, <2>2
<1>7. D \subseteq Q
  <2>1. ToSet(d) \subseteq Q
    BY <1>1, <1>3, <1>6, DescendantModulesLeast
  <2> QED BY <1>4, <1>6, <2>1
<1>8. \A j \in D : \A k \in DOMAIN children[j] : children[j][k] \in D
  BY <1>1, <1>3, <1>4, DescendantModulesClosed
<1>9. \A j \in D : \E t \in DOMAIN Tree(a) : Tree(a)[t] = j
  <2>1. /\ Len(d) \in Nat /\ DOMAIN d = 1..Len(d) /\ DOMAIN Tree(a) = 1..(Len(d) + 1)
        /\ Tree(a)[1] = r
        /\ \A y \in DOMAIN d : Tree(a)[y + 1] = d[y]
    BY <1>1, <1>2, <1>3, TreeIs
  <2>2. 1 \in DOMAIN Tree(a) /\ \A y \in DOMAIN d : y + 1 \in DOMAIN Tree(a)
    BY <2>1
  <2> QED BY <1>4, <2>1, <2>2 DEF ToSet
<1>10. ASSUME NEW j \in D, NEW p \in Providers, program.conduct[made[j]][p] = "works"
       PROVE  <<j, p>> \in ready
  <2>1. <<j, p>> \in ToSet(inits[j])
    BY <1>5, <1>7, <1>10 DEF AllQueued
  <2>2. PICK t \in DOMAIN Tree(a) : Tree(a)[t] = j
    BY <1>9
  <2>3. PICK v \in DOMAIN inits[j] : inits[j][v] = <<j, p>>
    BY <2>1 DEF ToSet
  <2>4. /\ InPlace(InitOrder(a), Queued(a), Len(Queued(a)))
        /\ 1..Len(Queued(a)) = DOMAIN Tree(a) /\ Queued(a)[t] = inits[j]
    BY <1>1, <2>2, InitOrderIs
  <2>5. PICK l \in DOMAIN InitOrder(a) : InitOrder(a)[l] = <<j, p>>
    <3>1. t \in 1..Len(Queued(a)) /\ v \in DOMAIN Queued(a)[t] /\ Queued(a)[t][v] = <<j, p>>
      BY <2>3, <2>4
    <3>2. \A u \in 1..Len(Queued(a)) : \A w \in DOMAIN Queued(a)[u] :
            \E l \in DOMAIN InitOrder(a) : InitOrder(a)[l] = Queued(a)[u][w]
      BY <2>4 DEF InPlace
    <3> QED BY <3>1, <3>2
  <2>6. l \notin Unready(a)
    OBVIOUS
  <2> QED BY <2>5, <2>6 DEF Unready
<1>11. D \subseteq Ids /\ r \in D /\ DOMAIN frames = {}
  BY <1>4, <1>5, <1>7
<1>12. Initialised(D, r)
  BY <1>8, <1>10, <1>11 DEF Initialised
<1> QED BY <1>2, <1>12

LEMMA CreateLayersKeeps ==
  ASSUME TreeInv, NEW a \in AppIds, CreateLayers(a)
  PROVE  TreeInv'
<1>1. PICK new \in {"created", "failed"} : phase' = [phase EXCEPT ![a] = new]
  BY DEF CreateLayers
<1>2. /\ frames = <<>> /\ phase[a] = "setup" /\ Unready(a) = {}
      /\ UNCHANGED <<vars, program, frames, modules, globals, root, awaits, ready>>
  BY DEF CreateLayers
<1>3. /\ phase \in [AppIds -> {"off", "making", "setup", "created", "up", "failed"}]
      /\ awaits \subseteq AppIds /\ \A b \in awaits : phase[b] # "off"
  BY DEF TreeInv, Shape, TreeTypeOK
<1>4. ModulesKept /\ Running'
  BY <1>1, <1>2, <1>3, AppStepKeeps
<1>5. Finished /\ SetUp
  BY DEF TreeInv
<1>6. \A b \in AppIds : phase'[b] \in {"setup", "created", "up"} => AllQueued(root[b])
  <2>1. \A b \in AppIds :
          phase'[b] \in {"setup", "created", "up"} => phase[b] \in {"setup", "created", "up"}
    BY <1>1, <1>2, <1>3
  <2> QED BY <1>5, <2>1, Zenon DEF Finished
<1>7. \A b \in AppIds : phase'[b] \in {"created", "up"} => \E D : Initialised(D, root[b])
  <2> SUFFICES ASSUME NEW b \in AppIds, phase'[b] \in {"created", "up"}
               PROVE  \E D : Initialised(D, root[b])
    OBVIOUS
  <2>1. CASE b = a
    <3>1. \E D : Initialised(D, root[a])
      BY <1>2, AllReady
    <3> QED BY <2>1, <3>1
  <2>2. CASE b # a
    <3>1. phase[b] \in {"created", "up"}
      BY <1>1, <1>3, <2>2
    <3> QED BY <1>5, <3>1, Zenon DEF SetUp
  <2> QED BY <2>1, <2>2
<1>8. Finished' /\ SetUp'
  <2>1. ready \subseteq ready'
    BY <1>2
  <2> QED BY <1>4, <1>6, <1>7, <2>1, KeptFinished, Zenon
<1> QED BY <1>4, <1>8, KeptShape DEF TreeInv

LEMMA CreateRoutesKeeps ==
  ASSUME TreeInv, NEW a \in AppIds, CreateRoutes(a)
  PROVE  TreeInv'
<1>1. PICK new \in {"up", "failed"} : phase' = [phase EXCEPT ![a] = new]
  BY DEF CreateRoutes
<1>2. /\ frames = <<>> /\ phase[a] = "created"
      /\ UNCHANGED <<vars, program, frames, modules, globals, root, awaits, ready>>
  BY DEF CreateRoutes
<1>3. /\ phase \in [AppIds -> {"off", "making", "setup", "created", "up", "failed"}]
      /\ awaits \subseteq AppIds /\ \A b \in awaits : phase[b] # "off"
  BY DEF TreeInv, Shape, TreeTypeOK
<1>4. ModulesKept /\ Running'
  BY <1>1, <1>2, <1>3, AppStepKeeps
<1>5. ready \subseteq ready'
  BY <1>2
<1>6. \A b \in AppIds : \/ phase'[b] = phase[b] \/ phase'[b] = "failed"
                        \/ phase[b] = "created" /\ phase'[b] = "up"
  BY <1>1, <1>2, <1>3
<1> QED BY <1>4, <1>5, <1>6, KeptTreeInv

LEMMA StepTreeInv == TreeInv /\ [RoutingNext]_routingVars => TreeInv'
<1> SUFFICES ASSUME TreeInv, [RoutingNext]_routingVars PROVE TreeInv'
  OBVIOUS
<1>1. CASE UNCHANGED routingVars
  <2>1. /\ UNCHANGED <<program, frames, made, held, children, parents, inits, registry, root>>
        /\ UNCHANGED <<phase, awaits, ready>>
    BY <1>1 DEF routingVars, allVars, treeVars, modules, globals, apps
  <2>2. UNCHANGED vars
    BY <1>1 DEF routingVars, allVars
  <2>3. ModulesKept
    BY <2>1 DEF ModulesKept, TreeInv, Shape, TreeTypeOK
  <2>4. Running'
    <3>1. IInv => IInv'
      BY <2>2, StepIInv
    <3>2. deps' = deps /\ conduct' = conduct /\ outcome' = outcome
      BY <2>2 DEF vars
    <3>3. Running
      BY DEF TreeInv
    <3> QED BY <2>1, <3>1, <3>2, <3>3 DEF Running
  <2> QED BY <2>1, <2>3, <2>4, KeptTreeInv
<1>2. CASE Constructing
  BY <1>2, PassByKeeps, ImportKeeps, CallServicesKeeps, CreateServicesKeeps, LeaveKeeps, ThrowKeeps
     DEF Constructing
<1>3. ASSUME NEW a \in AppIds,
             StartApp(a) \/ InitBegins(a) \/ InitEnds(a) \/ InitFails(a) \/ CreateLayers(a)
      PROVE  TreeInv'
  BY <1>3, StartAppKeeps, InitKeeps, CreateLayersKeeps
<1>4. ASSUME NEW a \in AppIds, CreateRoutes(a) PROVE TreeInv'
  BY <1>4, CreateRoutesKeeps
<1> QED BY <1>1, <1>2, <1>3, <1>4 DEF RoutingNext, TreeNext

-----------------------------------------------------------------------------
\* The numbers of the modules are a tree, which the calls of the constructors have
\* made, and all that follows from that.
THEOREM TreeInvariant == RoutingSpec => []TreeInv
<1> QED BY InitTreeInv, StepTreeInv, PTL DEF RoutingSpec

\* onModuleInit of a service begins when it has ended for every service that was
\* injected there, whatever module that comes from and however it became visible.
THEOREM InjectedAreInitialized == RoutingSpec => []InjectedInitialized
<1>1. TreeInv => InjectedInitialized
  BY OrderIsEnough DEF TreeInv
<1> QED BY <1>1, TreeInvariant, PTL

\* An application that is up has initialised every provider of its modules that can
\* be constructed.
THEOREM UpIsCompleteAlways == RoutingSpec => []UpIsComplete
<1>1. ASSUME TreeInv PROVE UpIsComplete
  <2> SUFFICES ASSUME NEW a \in AppIds, phase[a] \in {"created", "up"},
                      NEW id \in ToSet(Tree(a)), NEW p \in Providers,
                      program.conduct[Class(id)][p] = "works"
               PROVE  <<id, p>> \in ready
    BY DEF UpIsComplete
  <2>1. PICK r \in Ids : r = root[a]
    BY <1>1 DEF TreeInv, Shape, TreeTypeOK
  <2>2. PICK D : Initialised(D, r)
    BY <1>1, <2>1 DEF TreeInv, SetUp
  <2>3. PICK d : d = DescendantModules(r)
    OBVIOUS
  <2>4. ToSet(d) \subseteq D /\ r \in D
    BY <1>1, <2>2, <2>3, DescendantModulesLeast DEF TreeInv, Initialised
  <2>5. id \in D
    <3>1. PICK t \in DOMAIN Tree(a) : id = Tree(a)[t]
      BY DEF ToSet
    <3>2. /\ Len(d) \in Nat /\ DOMAIN d = 1..Len(d) /\ DOMAIN Tree(a) = 1..(Len(d) + 1)
          /\ Tree(a)[1] = r
          /\ \A y \in DOMAIN d : Tree(a)[y + 1] = d[y]
      BY <1>1, <2>1, <2>3, TreeIs DEF TreeInv
    <3>3. CASE t = 1
      BY <2>4, <3>1, <3>2, <3>3
    <3>4. CASE t # 1
      <4>1. t - 1 \in DOMAIN d /\ t = (t - 1) + 1
        BY <3>2, <3>4
      <4>2. id = d[t - 1]
        BY <3>1, <3>2, <4>1
      <4>3. id \in ToSet(d)
        BY <4>1, <4>2 DEF ToSet
      <4> QED BY <2>4, <4>3
    <3> QED BY <3>3, <3>4
  <2> QED BY <2>2, <2>5 DEF Initialised, Class
<1> QED BY <1>1, TreeInvariant, PTL


-----------------------------------------------------------------------------
(* The least and the greatest of some numbers.                              *)

LEMMA LeastIs ==
  ASSUME NEW s, s \subseteq Nat, s # {}
  PROVE  Min(s) \in s /\ \A i \in s : Min(s) <= i
<1>1. PICK m \in s : \A l \in s : ~(<<l, m>> \in OpToRel(<, Nat))
  BY WFMin, NatLessThanWellFounded, Zenon
<1>2. ASSUME NEW l \in s PROVE m <= l
  <2>1. l \in Nat /\ m \in Nat
    OBVIOUS
  <2>2. ~(l < m)
    BY <1>1, <2>1 DEF OpToRel
  <2> QED BY <2>1, <2>2
<1>3. \E x \in s : \A l \in s : x <= l
  BY <1>2
<1> QED BY <1>3 DEF Min

LEMMA GreatestIs ==
  ASSUME NEW n \in Nat, NEW s, s \subseteq 1..n, s # {}
  PROVE  Max(s) \in s
<1>1. PICK t : t = {j \in 0..n : n - j \in s}
  OBVIOUS
<1>2. t \subseteq Nat /\ t # {}
  <2>1. PICK i \in s : TRUE
    OBVIOUS
  <2>2. n - i \in t
    BY <1>1, <2>1
  <2> QED BY <1>1, <2>2
<1>3. PICK m \in t : \A i \in t : m <= i
  BY <1>2, LeastIs
<1>4. ASSUME NEW y \in s PROVE n - m >= y
  <2>1. n - y \in t
    BY <1>1
  <2>2. m <= n - y
    BY <1>3, <2>1
  <2>3. m \in Nat /\ y \in Nat
    BY <1>2, <1>3
  <2> QED BY <2>2, <2>3
<1>5. \E x \in s : \A y \in s : x >= y
  BY <1>1, <1>3, <1>4
<1> QED BY <1>5 DEF Max



-----------------------------------------------------------------------------
(* What the decorators note.                                                *)

\* f goes through what a fold of the decorators of a class makes, from the last.
ClassDecorated(f, ds, n, base) ==
  /\ FoldRight(Decorate, ds, base) = f[1] /\ f[n + 1] = base
  /\ \A i \in 1..n : f[i] = Decorate(ds[i], f[i + 1])

\* A fold from the right goes through what it makes of the ends of the sequence.
LEMMA DecorateFolds ==
  ASSUME NEW n \in Nat, NEW ds, DOMAIN ds = 1..n, NEW base
  PROVE  \E f : ClassDecorated(f, ds, n, base)
<1> DEFINE S == 1..n
           Once(g, s) == IF s = {} THEN base ELSE Decorate(ds[Min(s)], g[s \ {Min(s)}])
           Body(g) == [s \in SUBSET S |-> Once(g, s)]
           Right(g, k) == \A s \in SUBSET S : (\A i \in s : n - i < k) => g[s] = Body(g)[s]
           K == {k \in Nat : \E g : Right(g, k)}
<1>1. \A s \in SUBSET S : s # {} => /\ Min(s) \in s /\ s \ {Min(s)} \in SUBSET S
                                    /\ \A i \in s \ {Min(s)} : Min(s) < i
  <2> SUFFICES ASSUME NEW s \in SUBSET S, s # {}
               PROVE  Min(s) \in s /\ \A i \in s \ {Min(s)} : Min(s) < i
    OBVIOUS
  <2>1. s \subseteq Nat
    OBVIOUS
  <2>2. Min(s) \in s /\ \A i \in s : Min(s) <= i
    BY <2>1, LeastIs
  <2>3. PICK x : x = Min(s)
    OBVIOUS
  <2>4. x \in s /\ x \in Nat /\ \A i \in s : i \in Nat /\ x <= i
    BY <2>1, <2>2, <2>3
  <2>5. \A i \in s \ {x} : x < i
    BY <2>4
  <2> QED BY <2>3, <2>4, <2>5
<1>2. 0 \in K
  <2>1. PICK g : g = [s \in SUBSET S |-> base]
    OBVIOUS
  <2>2. \A s \in SUBSET S : (\A i \in s : n - i < 0) => s = {}
    OBVIOUS
  <2>3. g[{}] = base /\ Body(g)[{}] = base
    BY <2>1
  <2>4. Right(g, 0)
    <3> HIDE DEF Body
    <3> QED BY <2>2, <2>3
  <2> QED BY <2>4
<1>3. ASSUME NEW k \in Nat, NEW g, Right(g, k)
      PROVE  Right(Body(g), k + 1)
  <2> SUFFICES ASSUME NEW s \in SUBSET S, \A i \in s : n - i < k + 1
               PROVE  Body(g)[s] = Body(Body(g))[s]
    OBVIOUS
  <2>1. Body(g)[s] = Once(g, s) /\ Body(Body(g))[s] = Once(Body(g), s)
    <3> HIDE DEF Once
    <3> QED OBVIOUS
  <2>2. CASE s = {}
    <3> HIDE DEF Body
    <3> QED BY <2>1, <2>2
  <2>3. CASE s # {}
    <3> HIDE DEF Body
    <3>1. PICK x, t : x = Min(s) /\ t = s \ {x}
      OBVIOUS
    <3>2. x \in s /\ t \in SUBSET S /\ \A i \in t : i \in s /\ x < i
      BY <1>1, <2>3, <3>1
    <3>3. \A i \in t : n - i < k
      BY <3>2
    <3>4. g[t] = Body(g)[t]
      BY <1>3, <3>2, <3>3
    <3>5. Once(g, s) = Decorate(ds[x], g[t]) /\ Once(Body(g), s) = Decorate(ds[x], Body(g)[t])
      BY <2>3, <3>1
    <3> HIDE DEF Once
    <3> QED BY <2>1, <3>4, <3>5
  <2> QED BY <2>2, <2>3
<1>4. ASSUME NEW k \in Nat, k \in K PROVE k + 1 \in K
  <2> HIDE DEF Body, Right
  <2>1. PICK g : Right(g, k)
    BY <1>4
  <2>2. Right(Body(g), k + 1)
    BY <1>3, <2>1
  <2> QED BY <2>2
<1>5. n \in K
  <2> HIDE DEF K
  <2> QED BY <1>2, <1>4, ByInduction
<1>6. PICK g : Right(g, n)
  <2> HIDE DEF Right
  <2> QED BY <1>5
<1>7. \A s \in SUBSET S : g[s] = Body(g)[s]
  <2> HIDE DEF Body
  <2>1. \A s \in SUBSET S : \A i \in s : n - i < n
    OBVIOUS
  <2> QED BY <1>6, <2>1
<1>8. Body(g) = Body(Body(g))
  <2>1. \A s \in SUBSET S : s # {} => g[s \ {Min(s)}] = Body(g)[s \ {Min(s)}]
    <3> HIDE DEF Body
    <3> QED BY <1>1, <1>7
  <2>2. \A s \in SUBSET S : Once(g, s) = Once(Body(g), s)
    <3> SUFFICES ASSUME NEW s \in SUBSET S PROVE Once(g, s) = Once(Body(g), s)
      OBVIOUS
    <3> HIDE DEF Body
    <3>1. CASE s = {}
      BY <3>1
    <3>2. CASE s # {}
      <4>1. PICK x, t : x = Min(s) /\ t = s \ {x} /\ g[t] = Body(g)[t]
        BY <2>1, <3>2
      <4>2. Once(g, s) = Decorate(ds[x], g[t]) /\ Once(Body(g), s) = Decorate(ds[x], Body(g)[t])
        BY <3>2, <4>1
      <4> HIDE DEF Once
      <4> QED BY <4>1, <4>2
    <3> QED BY <3>1, <3>2
  <2> HIDE DEF Once
  <2>3. PICK h : h = Body(g)
    OBVIOUS
  <2>4. h = [s \in SUBSET S |-> Once(g, s)] /\ Body(h) = [s \in SUBSET S |-> Once(h, s)]
    BY <2>3
  <2>5. \A s \in SUBSET S : Once(g, s) = Once(h, s)
    BY <2>2, <2>3
  <2>6. h = Body(h)
    BY <2>4, <2>5
  <2> QED BY <2>3, <2>6
<1>9. PICK f : f = Body(f) /\ FoldRight(Decorate, ds, base) = f[S]
  <2>1. \E f : f = Body(f)
    BY <1>8, Zenon
  <2> QED BY <2>1, Zenon DEF FoldRight, MapThenFoldSet
<1>10. PICK h : h = [i \in 1..(n + 1) |-> f[i..n]]
  OBVIOUS
<1>11. h[1] = f[S] /\ h[n + 1] = f[{}]
  <2>1. (n + 1)..n = {} /\ 1 \in 1..(n + 1) /\ n + 1 \in 1..(n + 1)
    OBVIOUS
  <2> QED BY <1>10, <2>1
<1>12. f[{}] = base
  <2>1. Body(f)[{}] = base
    OBVIOUS
  <2> HIDE DEF Body
  <2> QED BY <1>9, <2>1
<1>13. ASSUME NEW i \in 1..n PROVE h[i] = Decorate(ds[i], h[i + 1])
  <2>1. PICK s : s = i..n
    OBVIOUS
  <2>2. s \in SUBSET S /\ s # {} /\ i \in s /\ \A j \in s : j \in Nat /\ i <= j
    <3>1. i \in Nat /\ 1 <= i /\ i <= n /\ n \in Nat
      OBVIOUS
    <3>2. i \in i..n /\ \A j \in i..n : j \in 1..n /\ j \in Nat /\ i <= j
      BY <3>1
    <3> QED BY <2>1, <3>2
  <2>3. Min(s) = i
    <3>1. Min(s) \in s /\ \A j \in s \ {Min(s)} : Min(s) < j
      BY <1>1, <2>2
    <3>2. PICK x : x = Min(s)
      OBVIOUS
    <3>3. x \in s /\ (i # x => x < i)
      BY <2>2, <3>1, <3>2
    <3>4. x = i
      BY <2>2, <3>3
    <3> QED BY <3>2, <3>4
  <2>4. s \ {i} = (i + 1)..n
    BY <2>1
  <2>5. Body(f)[s] = Decorate(ds[i], f[s \ {i}])
    BY <2>2, <2>3
  <2>6. f[s] = Decorate(ds[i], f[s \ {i}])
    <3> HIDE DEF Body
    <3> QED BY <1>9, <2>5
  <2>7. h[i] = f[s] /\ h[i + 1] = f[s \ {i}]
    <3>1. i \in 1..(n + 1) /\ i + 1 \in 1..(n + 1)
      OBVIOUS
    <3> QED BY <1>10, <2>1, <2>4, <3>1
  <2> QED BY <2>6, <2>7
<1> QED BY <1>9, <1>11, <1>12, <1>13 DEF ClassDecorated



MethodDecorated(f, ds, n, base) ==
  /\ FoldRight(DecorateMethod, ds, base) = f[1] /\ f[n + 1] = base
  /\ \A i \in 1..n : f[i] = DecorateMethod(ds[i], f[i + 1])

\* The same for those of a method.
LEMMA DecorateMethodFolds ==
  ASSUME NEW n \in Nat, NEW ds, DOMAIN ds = 1..n, NEW base
  PROVE  \E f : MethodDecorated(f, ds, n, base)
<1> DEFINE S == 1..n
           Once(g, s) == IF s = {} THEN base ELSE DecorateMethod(ds[Min(s)], g[s \ {Min(s)}])
           Body(g) == [s \in SUBSET S |-> Once(g, s)]
           Right(g, k) == \A s \in SUBSET S : (\A i \in s : n - i < k) => g[s] = Body(g)[s]
           K == {k \in Nat : \E g : Right(g, k)}
<1>1. \A s \in SUBSET S : s # {} => /\ Min(s) \in s /\ s \ {Min(s)} \in SUBSET S
                                    /\ \A i \in s \ {Min(s)} : Min(s) < i
  <2> SUFFICES ASSUME NEW s \in SUBSET S, s # {}
               PROVE  Min(s) \in s /\ \A i \in s \ {Min(s)} : Min(s) < i
    OBVIOUS
  <2>1. s \subseteq Nat
    OBVIOUS
  <2>2. Min(s) \in s /\ \A i \in s : Min(s) <= i
    BY <2>1, LeastIs
  <2>3. PICK x : x = Min(s)
    OBVIOUS
  <2>4. x \in s /\ x \in Nat /\ \A i \in s : i \in Nat /\ x <= i
    BY <2>1, <2>2, <2>3
  <2>5. \A i \in s \ {x} : x < i
    BY <2>4
  <2> QED BY <2>3, <2>4, <2>5
<1>2. 0 \in K
  <2>1. PICK g : g = [s \in SUBSET S |-> base]
    OBVIOUS
  <2>2. \A s \in SUBSET S : (\A i \in s : n - i < 0) => s = {}
    OBVIOUS
  <2>3. g[{}] = base /\ Body(g)[{}] = base
    BY <2>1
  <2>4. Right(g, 0)
    <3> HIDE DEF Body
    <3> QED BY <2>2, <2>3
  <2> QED BY <2>4
<1>3. ASSUME NEW k \in Nat, NEW g, Right(g, k)
      PROVE  Right(Body(g), k + 1)
  <2> SUFFICES ASSUME NEW s \in SUBSET S, \A i \in s : n - i < k + 1
               PROVE  Body(g)[s] = Body(Body(g))[s]
    OBVIOUS
  <2>1. Body(g)[s] = Once(g, s) /\ Body(Body(g))[s] = Once(Body(g), s)
    <3> HIDE DEF Once
    <3> QED OBVIOUS
  <2>2. CASE s = {}
    <3> HIDE DEF Body
    <3> QED BY <2>1, <2>2
  <2>3. CASE s # {}
    <3> HIDE DEF Body
    <3>1. PICK x, t : x = Min(s) /\ t = s \ {x}
      OBVIOUS
    <3>2. x \in s /\ t \in SUBSET S /\ \A i \in t : i \in s /\ x < i
      BY <1>1, <2>3, <3>1
    <3>3. \A i \in t : n - i < k
      BY <3>2
    <3>4. g[t] = Body(g)[t]
      BY <1>3, <3>2, <3>3
    <3>5. Once(g, s) = DecorateMethod(ds[x], g[t]) /\ Once(Body(g), s) = DecorateMethod(ds[x], Body(g)[t])
      BY <2>3, <3>1
    <3> HIDE DEF Once
    <3> QED BY <2>1, <3>4, <3>5
  <2> QED BY <2>2, <2>3
<1>4. ASSUME NEW k \in Nat, k \in K PROVE k + 1 \in K
  <2> HIDE DEF Body, Right
  <2>1. PICK g : Right(g, k)
    BY <1>4
  <2>2. Right(Body(g), k + 1)
    BY <1>3, <2>1
  <2> QED BY <2>2
<1>5. n \in K
  <2> HIDE DEF K
  <2> QED BY <1>2, <1>4, ByInduction
<1>6. PICK g : Right(g, n)
  <2> HIDE DEF Right
  <2> QED BY <1>5
<1>7. \A s \in SUBSET S : g[s] = Body(g)[s]
  <2> HIDE DEF Body
  <2>1. \A s \in SUBSET S : \A i \in s : n - i < n
    OBVIOUS
  <2> QED BY <1>6, <2>1
<1>8. Body(g) = Body(Body(g))
  <2>1. \A s \in SUBSET S : s # {} => g[s \ {Min(s)}] = Body(g)[s \ {Min(s)}]
    <3> HIDE DEF Body
    <3> QED BY <1>1, <1>7
  <2>2. \A s \in SUBSET S : Once(g, s) = Once(Body(g), s)
    <3> SUFFICES ASSUME NEW s \in SUBSET S PROVE Once(g, s) = Once(Body(g), s)
      OBVIOUS
    <3> HIDE DEF Body
    <3>1. CASE s = {}
      BY <3>1
    <3>2. CASE s # {}
      <4>1. PICK x, t : x = Min(s) /\ t = s \ {x} /\ g[t] = Body(g)[t]
        BY <2>1, <3>2
      <4>2. Once(g, s) = DecorateMethod(ds[x], g[t]) /\ Once(Body(g), s) = DecorateMethod(ds[x], Body(g)[t])
        BY <3>2, <4>1
      <4> HIDE DEF Once
      <4> QED BY <4>1, <4>2
    <3> QED BY <3>1, <3>2
  <2> HIDE DEF Once
  <2>3. PICK h : h = Body(g)
    OBVIOUS
  <2>4. h = [s \in SUBSET S |-> Once(g, s)] /\ Body(h) = [s \in SUBSET S |-> Once(h, s)]
    BY <2>3
  <2>5. \A s \in SUBSET S : Once(g, s) = Once(h, s)
    BY <2>2, <2>3
  <2>6. h = Body(h)
    BY <2>4, <2>5
  <2> QED BY <2>3, <2>6
<1>9. PICK f : f = Body(f) /\ FoldRight(DecorateMethod, ds, base) = f[S]
  <2>1. \E f : f = Body(f)
    BY <1>8, Zenon
  <2> QED BY <2>1, Zenon DEF FoldRight, MapThenFoldSet
<1>10. PICK h : h = [i \in 1..(n + 1) |-> f[i..n]]
  OBVIOUS
<1>11. h[1] = f[S] /\ h[n + 1] = f[{}]
  <2>1. (n + 1)..n = {} /\ 1 \in 1..(n + 1) /\ n + 1 \in 1..(n + 1)
    OBVIOUS
  <2> QED BY <1>10, <2>1
<1>12. f[{}] = base
  <2>1. Body(f)[{}] = base
    OBVIOUS
  <2> HIDE DEF Body
  <2> QED BY <1>9, <2>1
<1>13. ASSUME NEW i \in 1..n PROVE h[i] = DecorateMethod(ds[i], h[i + 1])
  <2>1. PICK s : s = i..n
    OBVIOUS
  <2>2. s \in SUBSET S /\ s # {} /\ i \in s /\ \A j \in s : j \in Nat /\ i <= j
    <3>1. i \in Nat /\ 1 <= i /\ i <= n /\ n \in Nat
      OBVIOUS
    <3>2. i \in i..n /\ \A j \in i..n : j \in 1..n /\ j \in Nat /\ i <= j
      BY <3>1
    <3> QED BY <2>1, <3>2
  <2>3. Min(s) = i
    <3>1. Min(s) \in s /\ \A j \in s \ {Min(s)} : Min(s) < j
      BY <1>1, <2>2
    <3>2. PICK x : x = Min(s)
      OBVIOUS
    <3>3. x \in s /\ (i # x => x < i)
      BY <2>2, <3>1, <3>2
    <3>4. x = i
      BY <2>2, <3>3
    <3> QED BY <3>2, <3>4
  <2>4. s \ {i} = (i + 1)..n
    BY <2>1
  <2>5. Body(f)[s] = DecorateMethod(ds[i], f[s \ {i}])
    BY <2>2, <2>3
  <2>6. f[s] = DecorateMethod(ds[i], f[s \ {i}])
    <3> HIDE DEF Body
    <3> QED BY <1>9, <2>5
  <2>7. h[i] = f[s] /\ h[i + 1] = f[s \ {i}]
    <3>1. i \in 1..(n + 1) /\ i + 1 \in 1..(n + 1)
      OBVIOUS
    <3> QED BY <1>10, <2>1, <2>4, <3>1
  <2> QED BY <2>6, <2>7
<1> QED BY <1>9, <1>11, <1>12, <1>13 DEF MethodDecorated


\* What a sequence has that one more is appended to.
LEMMA AppendedSet ==
  ASSUME NEW S, NEW s \in Seq(S), NEW x \in S
  PROVE  /\ Append(s, x) \in Seq(S)
         /\ \A y : y \in ToSet(Append(s, x)) <=> y \in ToSet(s) \/ y = x
<1>1. /\ Append(s, x) \in Seq(S) /\ Len(Append(s, x)) = Len(s) + 1 /\ Len(s) \in Nat
      /\ \A i \in 1..Len(s) : Append(s, x)[i] = s[i]
      /\ Append(s, x)[Len(s) + 1] = x
  OBVIOUS
<1>2. PICK t : t = Append(s, x)
  OBVIOUS
<1>3. DOMAIN t = 1..(Len(s) + 1) /\ DOMAIN s = 1..Len(s)
  BY <1>1, <1>2
<1>4. \A y : y \in ToSet(t) <=> y \in ToSet(s) \/ y = x
  <2>1. ASSUME NEW y, y \in ToSet(t) PROVE y \in ToSet(s) \/ y = x
    <3>1. PICK i \in 1..(Len(s) + 1) : y = t[i]
      BY <1>3, <2>1 DEF ToSet
    <3>2. CASE i = Len(s) + 1
      BY <1>1, <1>2, <3>1, <3>2
    <3>3. CASE i # Len(s) + 1
      <4>1. i \in 1..Len(s) /\ y = s[i]
        BY <1>1, <1>2, <3>1, <3>3
      <4> QED BY <1>3, <4>1 DEF ToSet
    <3> QED BY <3>2, <3>3
  <2>2. x \in ToSet(t)
    <3>1. Len(s) + 1 \in DOMAIN t /\ t[Len(s) + 1] = x
      BY <1>1, <1>2, <1>3
    <3> QED BY <3>1 DEF ToSet
  <2>3. ASSUME NEW y, y \in ToSet(s) PROVE y \in ToSet(t)
    <3>1. PICK i \in DOMAIN s : y = s[i]
      BY <2>3 DEF ToSet
    <3>2. i \in DOMAIN t /\ t[i] = y
      BY <1>1, <1>2, <1>3, <3>1
    <3> QED BY <3>2 DEF ToSet
  <2> QED BY <2>1, <2>2, <2>3
<1> QED BY <1>1, <1>2, <1>4

\* What is noted has names for every kind.
Names == {d.name : d \in Decorators}
Noted == [Kinds -> Seq(Names)]

\* A decorator of a kind adds its name there.
LEMMA UseNotes ==
  ASSUME NEW x \in Noted, NEW d \in Decorators
  PROVE  /\ Use(x, d) \in Noted
         /\ \A k \in Kinds : \A y :
              y \in ToSet(Use(x, d)[k]) <=> y \in ToSet(x[k]) \/ (d.kind = k /\ y = d.name)
<1>1. PICK k \in Kinds : k = d.kind
  BY DecoratorsAssumption
<1>2. Use(x, d) = [x EXCEPT ![k] = Append(x[k], d.name)]
  BY <1>1 DEF Kinds, Use, UseMiddleware, UseGuards, UseFilters, UseInterceptors, Noted
<1>3. d.name \in Names /\ x[k] \in Seq(Names)
  BY DEF Names, Noted
<1>4. /\ Append(x[k], d.name) \in Seq(Names)
      /\ \A y : y \in ToSet(Append(x[k], d.name)) <=> y \in ToSet(x[k]) \/ y = d.name
  BY <1>3, AppendedSet
<1>5. Use(x, d) \in Noted /\ \A j \in Kinds : Use(x, d)[j] = IF j = k THEN Append(x[k], d.name) ELSE x[j]
  BY <1>2, <1>4 DEF Noted
<1> QED BY <1>1, <1>4, <1>5

\* x has noted what the decorators from number i to number n give, but for the one
\* that makes a controller or a route.
Notes(x, ds, i, n) ==
  /\ x \in Noted
  /\ \A k \in Kinds : \A y :
       y \in ToSet(x[k]) <=>
         \E j \in i..n : ds[j] # MakesIt /\ ds[j].kind = k /\ y = ds[j].name

LEMMA NotesNothing ==
  ASSUME NEW ds, NEW n \in Nat
  PROVE  Notes(Bare, ds, n + 1, n)
<1>1. Bare \in Noted /\ \A k \in Kinds : Bare[k] = <<>>
  BY DEF Bare, Noted
<1>2. ToSet(<<>>) = {} /\ (n + 1)..n = {}
  BY DEF ToSet
<1> QED BY <1>1, <1>2 DEF Notes

\* The decorator above adds to that.
LEMMA NotesMore ==
  ASSUME NEW n \in Nat, NEW i \in 1..n, NEW ds, NEW x, Notes(x, ds, i + 1, n)
  PROVE  /\ ds[i] = MakesIt => Notes(x, ds, i, n)
         /\ ds[i] # MakesIt /\ ds[i] \in Decorators => Notes(Use(x, ds[i]), ds, i, n)
<1>1. i..n = {i} \cup ((i + 1)..n)
  OBVIOUS
<1>2. CASE ds[i] = MakesIt
  BY <1>1, <1>2 DEF Notes
<1>3. CASE ds[i] # MakesIt /\ ds[i] \in Decorators
  <2>1. PICK d \in Decorators : d = ds[i]
    BY <1>3
  <2>2. /\ Use(x, d) \in Noted
        /\ \A k \in Kinds : \A y :
             y \in ToSet(Use(x, d)[k]) <=> y \in ToSet(x[k]) \/ (d.kind = k /\ y = d.name)
    BY UseNotes DEF Notes
  <2>3. PICK z : z = Use(x, d)
    OBVIOUS
  <2>4. Notes(z, ds, i, n)
    <3>1. z \in Noted
      BY <2>2, <2>3
    <3> SUFFICES ASSUME NEW k \in Kinds, NEW y
                 PROVE  y \in ToSet(z[k]) <=>
                          \E j \in i..n : ds[j] # MakesIt /\ ds[j].kind = k /\ y = ds[j].name
      BY <3>1 DEF Notes
    <3>2. y \in ToSet(z[k]) <=> y \in ToSet(x[k]) \/ (d.kind = k /\ y = d.name)
      BY <2>2, <2>3, Zenon
    <3>3. y \in ToSet(x[k]) <=>
            \E j \in (i + 1)..n : ds[j] # MakesIt /\ ds[j].kind = k /\ y = ds[j].name
      BY DEF Notes
    <3>4. d # MakesIt
      BY <1>3, <2>1
    <3> QED BY <1>1, <2>1, <3>2, <3>3, <3>4, Zenon
  <2> QED BY <1>3, <2>1, <2>3, <2>4
<1> QED BY <1>2, <1>3

\* All that is written above a class is noted on it, whatever stands above or under
\* the decorator that makes it a controller.
LEMMA ClassNotes ==
  ASSUME program \in Programs, NEW m \in ModuleClasses
  PROVE  Notes(OnClass(m), program.onClass[m], 1, Len(program.onClass[m]))
<1>1. PICK ds, n : ds = program.onClass[m] /\ n = Len(ds)
  OBVIOUS
<1>2. /\ n \in Nat /\ DOMAIN ds = 1..n
      /\ \A i \in 1..n : ds[i] = MakesIt \/ ds[i] \in Decorators
  <2>1. ds \in Seq(Decorators \cup {MakesIt})
    BY <1>1, DecoratorsAssumption
  <2> QED BY <1>1, <2>1
<1>3. PICK base : base = [class |-> Bare, wrapper |-> Bare]
  OBVIOUS
<1>4. PICK f : /\ FoldRight(Decorate, ds, base) = f[1] /\ f[n + 1] = base
               /\ \A i \in 1..n : f[i] = Decorate(ds[i], f[i + 1])
  <2>1. PICK f : ClassDecorated(f, ds, n, base)
    BY <1>2, DecorateFolds
  <2> QED BY <2>1, Zenon DEF ClassDecorated
<1> DEFINE Good(s, i) == /\ s = [class |-> s.class, wrapper |-> s.wrapper]
                         /\ Notes(s.class, ds, i, n) /\ Notes(s.wrapper, ds, i, n)
           G == {i \in 1..(n + 1) : Good(f[i], i)}
<1>5. n + 1 \in G
  BY <1>2, <1>3, <1>4, NotesNothing
<1>6. ASSUME NEW i \in 1..n, i + 1 \in G PROVE i \in G
  <2>1. PICK s : s = f[i + 1] /\ Good(s, i + 1)
    BY <1>6
  <2>2. f[i] = Decorate(ds[i], s)
    BY <1>4, <2>1
  <2>3. CASE ds[i] = MakesIt
    <3>1. f[i] = [class |-> s.class, wrapper |-> s.class]
      BY <2>1, <2>2, <2>3 DEF Decorate
    <3>2. Notes(s.class, ds, i, n)
      BY <1>2, <2>1, <2>3, NotesMore
    <3>3. PICK t : t = f[i]
      OBVIOUS
    <3>4. t.class = s.class /\ t.wrapper = s.class /\ t = [class |-> t.class, wrapper |-> t.wrapper]
      BY <3>1, <3>3
    <3>5. Good(t, i)
      BY <3>2, <3>4
    <3> HIDE DEF Good
    <3> QED BY <1>2, <3>3, <3>5
  <2>4. CASE ds[i] # MakesIt
    <3>1. f[i] = [class |-> Use(s.class, ds[i]), wrapper |-> Use(s.wrapper, ds[i])]
      BY <2>2, <2>4 DEF Decorate
    <3>2. ds[i] \in Decorators
      BY <1>2, <2>4
    <3>3. Notes(Use(s.class, ds[i]), ds, i, n) /\ Notes(Use(s.wrapper, ds[i]), ds, i, n)
      BY <1>2, <2>1, <2>4, <3>2, NotesMore
    <3>4. PICK t : t = f[i]
      OBVIOUS
    <3>5. /\ t.class = Use(s.class, ds[i]) /\ t.wrapper = Use(s.wrapper, ds[i])
          /\ t = [class |-> t.class, wrapper |-> t.wrapper]
      BY <3>1, <3>4
    <3>6. Good(t, i)
      BY <3>3, <3>5
    <3> HIDE DEF Good
    <3> QED BY <1>2, <3>4, <3>6
  <2> QED BY <2>3, <2>4
<1>7. 1 \in G
  <2> HIDE DEF G
  <2>1. \A i \in 1..(n + 1) : (\A j \in 1..(n + 1) : i < j => j \in G) => i \in G
    <3> SUFFICES ASSUME NEW i \in 1..(n + 1), \A j \in 1..(n + 1) : i < j => j \in G
                 PROVE  i \in G
      OBVIOUS
    <3>1. CASE i = n + 1
      BY <1>5, <3>1
    <3>2. CASE i # n + 1
      <4>1. i \in 1..n /\ i + 1 \in 1..(n + 1) /\ i < i + 1
        BY <1>2, <3>2
      <4> QED BY <1>6, <4>1
    <3> QED BY <3>1, <3>2
  <2>2. 1..(n + 1) \subseteq G
    <3>1. n + 1 \in Nat
      BY <1>2
    <3> QED BY <2>1, <3>1, ByDownwardInduction
  <2> QED BY <1>2, <2>2
<1>8. OnClass(m) = f[1].wrapper
  BY <1>1, <1>3, <1>4, Zenon DEF OnClass
<1> QED BY <1>1, <1>7, <1>8

\* A route is noted with what is written under the decorator that makes it one.
LEMMA MethodNotes ==
  ASSUME program \in Programs, NEW m \in ModuleClasses
  PROVE  Notes(OnMethod(m), program.onMethod[m], RouteMark(m) + 1, Len(program.onMethod[m]))
         /\ RouteMark(m) \in DOMAIN program.onMethod[m]
         /\ \A j \in (RouteMark(m) + 1)..Len(program.onMethod[m]) :
              program.onMethod[m][j] \in Decorators
<1>1. PICK ds, n : ds = program.onMethod[m] /\ n = Len(ds)
  OBVIOUS
<1>2. /\ n \in Nat /\ DOMAIN ds = 1..n
      /\ \A i \in 1..n : ds[i] = MakesIt \/ ds[i] \in Decorators
  <2>1. ds \in Seq(Decorators \cup {MakesIt})
    BY <1>1, DecoratorsAssumption
  <2> QED BY <1>1, <2>1
<1>3. PICK q \in 1..n : q = RouteMark(m) /\ \A j \in 1..n : ds[j] = MakesIt <=> j = q
  <2>1. PICK q \in 1..n : \A j \in 1..n : ds[j] = MakesIt <=> j = q
    <3>1. \E k \in DOMAIN program.onMethod[m] :
            \A j \in DOMAIN program.onMethod[m] : program.onMethod[m][j] = MakesIt <=> j = k
      BY DecoratorsAssumption
    <3>2. \E k \in DOMAIN ds : \A j \in DOMAIN ds : ds[j] = MakesIt <=> j = k
      BY <1>1, <3>1
    <3>3. PICK q \in DOMAIN ds : \A j \in DOMAIN ds : ds[j] = MakesIt <=> j = q
      BY <3>2
    <3>4. q \in 1..n /\ \A j \in 1..n : j \in DOMAIN ds
      BY <1>2
    <3> QED BY <3>3, <3>4
  <2>2. RouteMark(m) = CHOOSE k \in 1..n : ds[k] = MakesIt
    BY <1>1, <1>2, Zenon DEF RouteMark
  <2>3. RouteMark(m) = q
    BY <2>1, <2>2
  <2> QED BY <2>1, <2>3
<1>4. PICK base : base = [method |-> Bare, route |-> Bare]
  OBVIOUS
<1>5. PICK f : /\ FoldRight(DecorateMethod, ds, base) = f[1] /\ f[n + 1] = base
               /\ \A i \in 1..n : f[i] = DecorateMethod(ds[i], f[i + 1])
  <2>1. PICK f : MethodDecorated(f, ds, n, base)
    BY <1>2, DecorateMethodFolds
  <2> QED BY <2>1, Zenon DEF MethodDecorated
<1> DEFINE Good(s, i) == /\ s = [method |-> s.method, route |-> s.route]
                         /\ Notes(s.method, ds, i, n)
                         /\ i <= q => Notes(s.route, ds, q + 1, n)
           G == {i \in 1..(n + 1) : Good(f[i], i)}
<1>6. n + 1 \in G
  BY <1>2, <1>3, <1>4, <1>5, NotesNothing
<1>7. ASSUME NEW i \in 1..n, i + 1 \in G PROVE i \in G
  <2>1. PICK s : s = f[i + 1] /\ Good(s, i + 1)
    BY <1>7
  <2>2. f[i] = DecorateMethod(ds[i], s)
    BY <1>5, <2>1
  <2>3. CASE ds[i] = MakesIt
    <3>1. f[i] = [method |-> s.method, route |-> s.method]
      BY <2>1, <2>2, <2>3 DEF DecorateMethod
    <3>2. Notes(s.method, ds, i, n) /\ i = q /\ Notes(s.method, ds, q + 1, n)
      BY <1>2, <1>3, <2>1, <2>3, NotesMore
    <3>3. PICK t : t = f[i]
      OBVIOUS
    <3>4. t.method = s.method /\ t.route = s.method /\ t = [method |-> t.method, route |-> t.route]
      BY <3>1, <3>3
    <3>5. Good(t, i)
      BY <3>2, <3>4
    <3> HIDE DEF Good
    <3> QED BY <1>2, <3>3, <3>5
  <2>4. CASE ds[i] # MakesIt
    <3>1. f[i] = [method |-> Use(s.method, ds[i]), route |-> s.route]
      BY <2>1, <2>2, <2>4 DEF DecorateMethod
    <3>2. ds[i] \in Decorators /\ i # q
      BY <1>2, <1>3, <2>4
    <3>3. Notes(Use(s.method, ds[i]), ds, i, n)
      BY <1>2, <2>1, <2>4, <3>2, NotesMore
    <3>4. i <= q => i + 1 <= q
      BY <1>2, <1>3, <3>2
    <3>5. PICK t : t = f[i]
      OBVIOUS
    <3>6. /\ t.method = Use(s.method, ds[i]) /\ t.route = s.route
          /\ t = [method |-> t.method, route |-> t.route]
      BY <3>1, <3>5
    <3>7. Good(t, i)
      BY <2>1, <3>3, <3>4, <3>6
    <3> HIDE DEF Good
    <3> QED BY <1>2, <3>5, <3>7
  <2> QED BY <2>3, <2>4
<1>8. 1 \in G
  <2> HIDE DEF G
  <2>1. \A i \in 1..(n + 1) : (\A j \in 1..(n + 1) : i < j => j \in G) => i \in G
    <3> SUFFICES ASSUME NEW i \in 1..(n + 1), \A j \in 1..(n + 1) : i < j => j \in G
                 PROVE  i \in G
      OBVIOUS
    <3>1. CASE i = n + 1
      BY <1>6, <3>1
    <3>2. CASE i # n + 1
      <4>1. i \in 1..n /\ i + 1 \in 1..(n + 1) /\ i < i + 1
        BY <1>2, <3>2
      <4> QED BY <1>7, <4>1
    <3> QED BY <3>1, <3>2
  <2>2. 1..(n + 1) \subseteq G
    <3>1. n + 1 \in Nat
      BY <1>2
    <3> QED BY <2>1, <3>1, ByDownwardInduction
  <2> QED BY <1>2, <2>2
<1>9. OnMethod(m) = f[1].route
  BY <1>1, <1>4, <1>5, Zenon DEF OnMethod
<1>10. Notes(f[1].route, ds, q + 1, n)
  BY <1>2, <1>3, <1>8
<1>11. \A j \in (q + 1)..n : ds[j] \in Decorators
  BY <1>2, <1>3
<1> QED BY <1>1, <1>2, <1>3, <1>9, <1>10, <1>11


-----------------------------------------------------------------------------
(* Where the modules stand in the list that start() makes of a tree.        *)

\* The list goes down the tree as the walk of setup() does.
Walked(f) ==
  \A i \in Ids : f[i] = <<i>> \o FlattenSeq([k \in DOMAIN children[i] |-> f[children[i][k]]])

LEMMA PlacesUnfold ==
  ASSUME Shape
  PROVE  \E f : Walked(f) /\ \A a : Places(a) = f[root[a]]
<1> DEFINE Body(g) == [i \in 1..Len(made) |->
      <<i>> \o FlattenSeq([k \in DOMAIN children[i] |-> g[children[i][k]]])]
           Right(g, k) == \A i \in 1..Len(made) : Len(made) - i < k => g[i] = Body(g)[i]
           K == {k \in Nat : \E g : Right(g, k)}
<1>0. Len(made) \in Nat
  BY DEF Shape, TreeTypeOK
<1>1. 0 \in K
  BY <1>0
<1>2. ASSUME NEW k \in Nat, NEW g, Right(g, k)
      PROVE  Right(Body(g), k + 1)
  <2> SUFFICES ASSUME NEW i \in 1..Len(made), Len(made) - i < k + 1
               PROVE  Body(g)[i] = Body(Body(g))[i]
    OBVIOUS
  <2>1. \A l \in DOMAIN children[i] : g[children[i][l]] = Body(g)[children[i][l]]
    <3> SUFFICES ASSUME NEW l \in DOMAIN children[i]
                 PROVE  g[children[i][l]] = Body(g)[children[i][l]]
      OBVIOUS
    <3> HIDE DEF Body
    <3>1. children[i][l] \in 1..Len(made) /\ i < children[i][l]
      BY ChildrenAfter DEF Ids
    <3> QED BY <1>0, <1>2, <3>1
  <2>2. [l \in DOMAIN children[i] |-> g[children[i][l]]]
          = [l \in DOMAIN children[i] |-> Body(g)[children[i][l]]]
    <3> HIDE DEF Body
    <3> QED BY <2>1
  <2> QED BY <2>2, Zenon
<1>3. ASSUME NEW k \in Nat, k \in K
      PROVE  k + 1 \in K
  <2> HIDE DEF Body, Right
  <2>1. PICK g : Right(g, k)
    BY <1>3
  <2>2. Right(Body(g), k + 1)
    BY <1>2, <2>1
  <2> QED BY <2>2
<1>4. Len(made) + 1 \in K
  <2> HIDE DEF K
  <2> QED BY <1>0, <1>1, <1>3, ByInduction
<1>n. PICK k \in Nat : k = Len(made) + 1 /\ k \in K
  BY <1>0, <1>4
<1>5. PICK g : Right(g, k)
  BY <1>n
<1>6. Right(Body(g), k + 1)
  <2> HIDE DEF Body, Right
  <2> QED BY <1>2, <1>5
<1>7. Body(g) = Body(Body(g))
  <2>1. \A i \in 1..Len(made) : Body(g)[i] = Body(Body(g))[i]
    <3> HIDE DEF Body
    <3> QED BY <1>0, <1>n, <1>5, <1>6
  <2> QED BY <2>1
<1>8. PICK f : f = Body(f) /\ \A a : Places(a) = f[root[a]]
  <2>1. \E f : f = Body(f)
    BY <1>7, Zenon
  <2> QED BY <2>1, Zenon DEF Places
<1>9. Walked(f)
  BY <1>8 DEF Walked, Ids
<1> QED BY <1>8, <1>9

\* What is listed from a module on is the module and what is under it.
LEMMA WalkedTyped ==
  ASSUME Shape, NEW f, Walked(f), NEW i \in Ids
  PROVE  f[i] \in Seq(Ids) /\ [k \in DOMAIN children[i] |-> f[children[i][k]]] \in Seq(Seq(Ids))
<1> DEFINE Lists(j) == [k \in DOMAIN children[j] |-> f[children[j][k]]]
           K == {j \in Ids : f[j] \in Seq(Ids)}
<1>0. Len(made) \in Nat
  BY DEF Shape, TreeTypeOK
<1>1. ASSUME NEW j \in Ids, \A l \in Ids : j < l => l \in K
      PROVE  Lists(j) \in Seq(Seq(Ids))
  <2>1. \A k \in DOMAIN children[j] : f[children[j][k]] \in Seq(Ids)
    BY <1>1, ChildrenAfter
  <2>2. Lists(j) \in [DOMAIN children[j] -> Seq(Ids)]
    BY <2>1, Zenon
  <2>3. children[j] \in Seq(Nat)
    BY ChildrenAfter
  <2> QED BY <2>2, <2>3, MappedIsSeq, Zenon
<1>2. ASSUME NEW j \in Ids, \A l \in Ids : j < l => l \in K
      PROVE  j \in K
  <2>1. PICK s : s = FlattenSeq(Lists(j))
    OBVIOUS
  <2>2. s \in Seq(Ids)
    <3>1. Lists(j) \in Seq(Seq(Ids))
      BY <1>1, <1>2
    <3> HIDE DEF Lists
    <3> QED BY <2>1, <3>1, FlattenIsSeq, Zenon
  <2>3. f[j] = <<j>> \o s
    BY <2>1 DEF Walked
  <2>4. <<j>> \in Seq(Ids)
    OBVIOUS
  <2> QED BY <2>2, <2>3, <2>4, ConcatProperties
<1>3. Ids \subseteq K
  <2> HIDE DEF K
  <2> QED BY <1>0, <1>2, ByDownwardInduction DEF Ids
<1>4. f[i] \in Seq(Ids) /\ \A l \in Ids : l \in K
  BY <1>3
<1>5. Lists(i) \in Seq(Seq(Ids))
  <2> HIDE DEF K, Lists
  <2> QED BY <1>1, <1>4
<1> QED BY <1>4, <1>5

\* What one sequence and then another one have.
LEMMA ConcatSet ==
  ASSUME NEW S, NEW s \in Seq(S), NEW t \in Seq(S)
  PROVE  s \o t \in Seq(S) /\ ToSet(s \o t) = ToSet(s) \cup ToSet(t)
<1>1. /\ s \o t \in Seq(S) /\ Len(s \o t) = Len(s) + Len(t)
      /\ \A i \in 1..Len(s) : (s \o t)[i] = s[i]
      /\ \A i \in 1..Len(t) : (s \o t)[Len(s) + i] = t[i]
      /\ Len(s) \in Nat /\ Len(t) \in Nat
  OBVIOUS
<1>2. PICK u, m, n : u = s \o t /\ m = Len(s) /\ n = Len(t)
  OBVIOUS
<1>3. /\ m \in Nat /\ n \in Nat /\ DOMAIN u = 1..(m + n) /\ DOMAIN s = 1..m /\ DOMAIN t = 1..n
      /\ \A i \in 1..m : u[i] = s[i]
      /\ \A i \in 1..n : u[m + i] = t[i]
  BY <1>1, <1>2
<1>4. ASSUME NEW i \in DOMAIN u PROVE u[i] \in ToSet(s) \cup ToSet(t)
  <2>1. CASE i <= m
    <3>1. i \in DOMAIN s /\ u[i] = s[i]
      BY <1>3, <2>1
    <3> QED BY <3>1 DEF ToSet
  <2>2. CASE ~(i <= m)
    <3>1. PICK j \in 1..n : i = m + j
      <4>1. i - m \in 1..n /\ i = m + (i - m)
        BY <1>3, <2>2
      <4> QED BY <4>1
    <3>2. j \in DOMAIN t /\ u[i] = t[j]
      BY <1>3, <3>1
    <3> QED BY <3>2 DEF ToSet
  <2> QED BY <2>1, <2>2
<1>5. \A i \in DOMAIN s : i \in DOMAIN u /\ u[i] = s[i]
  BY <1>3
<1>6. \A i \in DOMAIN t : m + i \in DOMAIN u /\ u[m + i] = t[i]
  BY <1>3
<1>7. ToSet(u) = ToSet(s) \cup ToSet(t)
  <2>1. ToSet(u) \subseteq ToSet(s) \cup ToSet(t)
    <3> SUFFICES ASSUME NEW i \in DOMAIN u PROVE u[i] \in ToSet(s) \cup ToSet(t)
      BY DEF ToSet
    <3> QED BY <1>4
  <2>2. ToSet(s) \subseteq ToSet(u)
    BY <1>5 DEF ToSet
  <2>3. ToSet(t) \subseteq ToSet(u)
    BY <1>6 DEF ToSet
  <2> QED BY <2>1, <2>2, <2>3
<1> QED BY <1>1, <1>2, <1>7

LEMMA WalkedAre ==
  ASSUME Shape, NEW f, Walked(f), NEW i \in Ids
  PROVE  /\ f[i] \in Seq(Ids) /\ i \in ToSet(f[i])
         /\ \A k \in DOMAIN children[i] : ToSet(f[children[i][k]]) \subseteq ToSet(f[i])
         /\ \A j \in ToSet(f[i]) :
              j = i \/ \E k \in DOMAIN children[i] : j \in ToSet(f[children[i][k]])
<1>1. PICK ss : ss = [k \in DOMAIN children[i] |-> f[children[i][k]]]
  OBVIOUS
<1>2. PICK s : s = FlattenSeq(ss)
  OBVIOUS
<1>3. ss \in Seq(Seq(Ids)) /\ f[i] \in Seq(Ids)
  BY <1>1, WalkedTyped
<1>4. s \in Seq(Ids) /\ InPlace(s, ss, Len(ss))
  BY <1>2, <1>3, FlattenInPlace
<1>5. f[i] = <<i>> \o s
  BY <1>1, <1>2, Zenon DEF Walked
<1>6. PICK one : one = <<i>> /\ one \in Seq(Ids) /\ ToSet(one) = {i}
  <2>1. <<i>> \in Seq(Ids) /\ ToSet(<<i>>) = {i}
    BY DEF ToSet
  <2> QED BY <2>1, Zenon
<1>7. ToSet(f[i]) = {i} \cup ToSet(s)
  <2>1. ToSet(one \o s) = ToSet(one) \cup ToSet(s)
    BY <1>4, <1>6, ConcatSet
  <2> QED BY <1>5, <1>6, <2>1
<1>8. 1..Len(ss) = DOMAIN children[i] /\ \A k \in DOMAIN children[i] : ss[k] = f[children[i][k]]
  <2>1. DOMAIN ss = DOMAIN children[i] /\ DOMAIN ss = 1..Len(ss)
    BY <1>1, <1>3
  <2> QED BY <1>1, <2>1
<1>9. \A k \in DOMAIN children[i] : ToSet(ss[k]) \subseteq ToSet(s)
  BY <1>4, <1>8 DEF InPlace, ToSet
<1>10. \A j \in ToSet(s) : \E k \in DOMAIN children[i] : j \in ToSet(ss[k])
  <2> SUFFICES ASSUME NEW l \in DOMAIN s
               PROVE  \E k \in DOMAIN children[i] : s[l] \in ToSet(ss[k])
    BY DEF ToSet
  <2>1. PICK k \in 1..Len(ss) : \E o \in DOMAIN ss[k] : s[l] = ss[k][o]
    BY <1>4 DEF InPlace
  <2> QED BY <1>8, <2>1 DEF ToSet
<1> QED BY <1>3, <1>7, <1>8, <1>9, <1>10

\* D is the module i and what is under it, and no constructor of D is under way.
Reached(D, i) ==
  /\ D \subseteq Ids /\ i \in D
  /\ \A x \in DOMAIN frames : frames[x].id \notin D
  /\ \A j \in D : \A k \in DOMAIN children[j] : children[j][k] \in D
  /\ \A E \in SUBSET D :
       i \in E /\ (\A j \in E : \A k \in DOMAIN children[j] : children[j][k] \in E) => E = D

\* That is what start() lists, once setup() is through with it.
LEMMA PlacesAre ==
  ASSUME Shape, NEW a \in AppIds, root[a] \in Ids, NEW D, Reached(D, root[a])
  PROVE  Places(a) \in Seq(Ids) /\ ToSet(Places(a)) = D
<1>1. PICK r \in Ids : r = root[a]
  OBVIOUS
<1>2. PICK f : Walked(f) /\ \A b : Places(b) = f[root[b]]
  BY PlacesUnfold
<1>3. Places(a) = f[r]
  BY <1>1, <1>2, Zenon
<1>4. Len(made) \in Nat /\ Reached(D, r)
  BY <1>1 DEF Shape, TreeTypeOK
<1>5. PICK K : K = {j \in Ids : /\ j \in D => ToSet(f[j]) \subseteq D
                                /\ \A m \in ToSet(f[j]) : \A k \in DOMAIN children[m] :
                                     children[m][k] \in ToSet(f[j])}
  OBVIOUS
<1>6. ASSUME NEW j \in Ids, \A l \in Ids : j < l => l \in K
      PROVE  j \in K
  <2>1. \A k \in DOMAIN children[j] : children[j][k] \in Ids /\ children[j][k] \in K
    BY <1>6, ChildrenAfter
  <2>2. /\ j \in ToSet(f[j])
        /\ \A k \in DOMAIN children[j] : ToSet(f[children[j][k]]) \subseteq ToSet(f[j])
        /\ \A m \in ToSet(f[j]) :
             m = j \/ \E k \in DOMAIN children[j] : m \in ToSet(f[children[j][k]])
    BY <1>2, WalkedAre
  <2>3. \A k \in DOMAIN children[j] : children[j][k] \in ToSet(f[children[j][k]])
    BY <1>2, <2>1, WalkedAre
  <2>4. ASSUME j \in D, NEW m \in ToSet(f[j]) PROVE m \in D
    BY <1>4, <1>5, <2>1, <2>2, <2>4 DEF Reached
  <2>5. ASSUME NEW m \in ToSet(f[j]), NEW k \in DOMAIN children[m]
        PROVE  children[m][k] \in ToSet(f[j])
    <3>1. CASE m = j
      BY <2>2, <2>3, <2>5, <3>1
    <3>2. CASE m # j
      <4>1. PICK l \in DOMAIN children[j] : m \in ToSet(f[children[j][l]])
        BY <2>2, <3>2
      <4>2. children[m][k] \in ToSet(f[children[j][l]])
        BY <1>5, <2>1, <2>5, <4>1
      <4> QED BY <2>2, <4>2
    <3> QED BY <3>1, <3>2
  <2> QED BY <1>5, <2>4, <2>5
<1>7. r \in K
  BY <1>4, <1>6, ByDownwardInduction DEF Ids
<1>8. f[r] \in Seq(Ids) /\ r \in ToSet(f[r])
  BY <1>2, WalkedAre
<1>9. PICK E : E = ToSet(f[r])
  OBVIOUS
<1>10. E \in SUBSET D /\ r \in E /\ \A j \in E : \A k \in DOMAIN children[j] : children[j][k] \in E
  BY <1>4, <1>5, <1>7, <1>8, <1>9 DEF Reached
<1>11. E = D
  BY <1>4, <1>10 DEF Reached
<1> QED BY <1>3, <1>8, <1>9, <1>11

\* And it is what setup() has gone through.
LEMMA TreeReached ==
  ASSUME Shape, NEW a \in AppIds, root[a] \in Ids
  PROVE  /\ \A D : Reached(D, root[a]) => D = ToSet(Tree(a))
         /\ frames = <<>> => Reached(ToSet(Tree(a)), root[a])
<1>1. PICK r \in Ids : r = root[a]
  OBVIOUS
<1>2. PICK d : d = DescendantModules(r)
  OBVIOUS
<1>3. PICK T : T = {r} \cup ToSet(d)
  OBVIOUS
<1>4. \A j \in T : \A k \in DOMAIN children[j] : children[j][k] \in T
  BY <1>2, <1>3, DescendantModulesClosed
<1>5. ASSUME NEW E, r \in E, \A j \in E : \A k \in DOMAIN children[j] : children[j][k] \in E
      PROVE  T \subseteq E
  BY <1>2, <1>3, <1>5, DescendantModulesLeast
<1>6. T = ToSet(Tree(a)) /\ T \subseteq Ids
  <2>1. /\ d \in Seq(Ids) /\ Tree(a) = <<r>> \o d
    BY <1>1, <1>2, TreeIs DEF Tree
  <2>2. PICK one : one = <<r>> /\ one \in Seq(Ids) /\ ToSet(one) = {r}
    <3>1. <<r>> \in Seq(Ids) /\ ToSet(<<r>>) = {r}
      BY DEF ToSet
    <3> QED BY <3>1, Zenon
  <2>3. ToSet(d) \subseteq Ids
    BY <2>1 DEF ToSet
  <2>4. ToSet(one \o d) = ToSet(one) \cup ToSet(d)
    BY <2>1, <2>2, ConcatSet
  <2> QED BY <1>3, <2>1, <2>2, <2>3, <2>4
<1>7. ASSUME NEW D, Reached(D, r) PROVE D = T
  <2>1. T \in SUBSET D
    BY <1>5, <1>7 DEF Reached
  <2>2. r \in T
    BY <1>3
  <2> QED BY <1>4, <1>7, <2>1, <2>2 DEF Reached
<1>8. frames = <<>> => Reached(T, r)
  <2>1. frames = <<>> => DOMAIN frames = {}
    OBVIOUS
  <2>2. \A E \in SUBSET T :
          r \in E /\ (\A j \in E : \A k \in DOMAIN children[j] : children[j][k] \in E) => E = T
    BY <1>5
  <2> QED BY <1>3, <1>4, <1>6, <2>1, <2>2 DEF Reached
<1> QED BY <1>1, <1>6, <1>7, <1>8

-----------------------------------------------------------------------------
(* The table of routes.                                                     *)

\* What RoutesAsWritten says of a route and the modules that have its controller.
AsWritten(r, homes) ==
  /\ r.by \in homes
  /\ \E i \in homes :
       /\ i = r.by \/ Configuring(r.by) = <<>>
       /\ Configuring(i) = <<>> => \A j \in homes : Configuring(j) = <<>>
       /\ WrittenFor(r.controller, i, UnderRoute(r.controller)) \subseteq Around(r)
       /\ Around(r) \subseteq WrittenFor(r.controller, i, OfMethod(r.controller))
  /\ \A k \in Kinds : \A i, j \in DOMAIN r.layers[k] :
       i < j => Rank[r.layers[k][i].level] <= Rank[r.layers[k][j].level]

\* Those of D that have the controller.
HomesIn(D, m) == {i \in D : made[i] = m}

\* That holds for the modules that the root module has reached when start() made the
\* routes: its constructors have returned, so that there never are others.
RoutesOf(routes, D) ==
  \A p \in DOMAIN routes : routes[p] # FrameworkRoute =>
    AsWritten(routes[p], HomesIn(D, routes[p].controller))

TableInv ==
  /\ DOMAIN table = AppIds /\ table = [a \in DOMAIN table |-> table[a]]
  /\ \A a \in AppIds : DOMAIN table[a] # {} =>
       phase[a] # "off" /\ \E D : Reached(D, root[a]) /\ RoutesOf(table[a], D)

LEMMA TableIsAsWritten ==
  ASSUME TreeInv, TableInv
  PROVE  RoutesAsWritten
<1> SUFFICES ASSUME NEW a \in AppIds, NEW p \in DOMAIN table[a], table[a][p] # FrameworkRoute
             PROVE  AsWritten(table[a][p], Homes(a, table[a][p].controller))
  BY Zenon DEF RoutesAsWritten, AsWritten
<1>1. Shape /\ root[a] \in Ids
  BY DEF TableInv, TreeInv, Shape, TreeTypeOK
<1>2. PICK D : Reached(D, root[a]) /\ RoutesOf(table[a], D)
  BY DEF TableInv
<1>3. D = ToSet(Tree(a))
  BY <1>1, <1>2, TreeReached
<1>4. PICK r : r = table[a][p]
  OBVIOUS
<1>5. Homes(a, r.controller) = HomesIn(D, r.controller)
  BY <1>3 DEF Homes, HomesIn, Class
<1>6. AsWritten(r, HomesIn(D, r.controller))
  BY <1>2, <1>4, Zenon DEF RoutesOf
<1> QED BY <1>4, <1>5, <1>6, Zenon

\* What no step takes from the modules that are there: a module under construction
\* gets children, one whose constructor has returned is left as it is.
Grown ==
  /\ program' = program /\ Ids \subseteq Ids'
  /\ \A i \in Ids :
       /\ made'[i] = made[i] /\ parents'[i] = parents[i]
       /\ (\A x \in DOMAIN frames : frames[x].id # i) =>
            /\ children'[i] = children[i]
            /\ \A x \in DOMAIN frames' : frames'[x].id # i
  /\ \A a \in AppIds : phase[a] # "off" => phase'[a] # "off" /\ root'[a] = root[a]

\* The modules that configure middleware for one.
LEMMA ConfiguringTyped ==
  ASSUME Shape, NEW i \in Ids
  PROVE  Configuring(i) \in Seq(Ids) /\ Append(parents[i], i) \in Seq(Ids)
<1>1. PICK all : all = Append(parents[i], i)
  OBVIOUS
<1>2. all \in Seq(Ids)
  <2>1. parents[i] \in Seq(Nat) /\ Above(i) \subseteq 1..(i - 1) /\ i \in Nat /\ Len(made) \in Nat
    <3>1. Above(i) \subseteq 1..(i - 1)
      BY DEF Shape, Nested
    <3> QED BY <3>1 DEF Shape, TreeTypeOK, Ids
  <2>2. \A k \in DOMAIN parents[i] : parents[i][k] \in Ids
    <3>1. \A k \in DOMAIN parents[i] : parents[i][k] \in 1..(i - 1)
      BY <2>1 DEF Above, ToSet
    <3> QED BY <2>1, <3>1 DEF Ids
  <2>3. parents[i] \in Seq(Ids)
    <3>1. PICK s \in Seq(Nat) : s = parents[i]
      BY <2>1
    <3>2. s \in [DOMAIN s -> Ids]
      BY <2>2, <3>1
    <3> QED BY <3>1, <3>2, MappedIsSeq, Zenon
  <2> QED BY <1>1, <2>3, AppendProperties
<1>3. PICK ss : ss = [k \in DOMAIN all |-> IF Class(all[k]) \in program.configures THEN <<all[k]>> ELSE <<>>]
  OBVIOUS
<1>4. ss \in Seq(Seq(Ids))
  <2>1. \A k \in DOMAIN all : ss[k] \in Seq(Ids)
    <3> SUFFICES ASSUME NEW k \in DOMAIN all PROVE ss[k] \in Seq(Ids)
      OBVIOUS
    <3>1. all[k] \in Ids
      BY <1>2
    <3>2. <<all[k]>> \in Seq(Ids) /\ <<>> \in Seq(Ids)
      BY <3>1, OneOrNone
    <3> QED BY <1>3, <3>2
  <2>2. ss \in [DOMAIN all -> Seq(Ids)]
    BY <1>3, <2>1
  <2> QED BY <1>2, <2>2, MappedIsSeq, Zenon
<1>5. Configuring(i) = FlattenSeq(ss)
  BY <1>1, <1>3, Zenon DEF Configuring
<1> QED BY <1>1, <1>2, <1>4, <1>5, FlattenIsSeq

\* They stay the same.
LEMMA ConfiguringKept ==
  ASSUME Shape, Grown, NEW i \in Ids
  PROVE  Configuring(i)' = Configuring(i)
<1>1. PICK all : all = Append(parents[i], i) /\ all \in Seq(Ids)
  BY ConfiguringTyped
<1>2. Append(parents'[i], i) = all
  BY <1>1 DEF Grown
<1>3. \A k \in DOMAIN all : made'[all[k]] = made[all[k]]
  <2>1. \A k \in DOMAIN all : all[k] \in Ids
    BY <1>1
  <2> QED BY <2>1 DEF Grown
<1>4. program' = program
  BY DEF Grown
<1>5. [k \in DOMAIN all |-> IF made'[all[k]] \in program.configures THEN <<all[k]>> ELSE <<>>]
        = [k \in DOMAIN all |-> IF made[all[k]] \in program.configures THEN <<all[k]>> ELSE <<>>]
  BY <1>3
<1>6. Configuring(i)'
        = FlattenSeq([k \in DOMAIN all |-> IF made'[all[k]] \in program.configures THEN <<all[k]>> ELSE <<>>])
  BY <1>2, <1>4, Zenon DEF Configuring, Class
<1>7. Configuring(i)
        = FlattenSeq([k \in DOMAIN all |-> IF made[all[k]] \in program.configures THEN <<all[k]>> ELSE <<>>])
  BY <1>1, Zenon DEF Configuring, Class
<1> QED BY <1>5, <1>6, <1>7, Zenon

\* And so does what was written for a route.
LEMMA WrittenForKept ==
  ASSUME Shape, Grown, NEW m, NEW i \in Ids
  PROVE  /\ WrittenFor(m, i, UnderRoute(m))' = WrittenFor(m, i, UnderRoute(m))
         /\ WrittenFor(m, i, OfMethod(m))' = WrittenFor(m, i, OfMethod(m))
<1>1. program' = program /\ Configuring(i)' = Configuring(i)
  BY ConfiguringKept DEF Grown
<1>2. PICK J : J = ToSet(Configuring(i)) /\ J \subseteq Ids
  <2>1. ToSet(Configuring(i)) \subseteq Ids
    BY ConfiguringTyped DEF ToSet
  <2> QED BY <2>1
<1>3. {Layer("middleware", "module", made'[j]) : j \in J} = {Layer("middleware", "module", made[j]) : j \in J}
  <2>1. \A j \in J : made'[j] = made[j]
    BY <1>2 DEF Grown
  <2> QED BY <2>1
<1>4. PICK C : C = {Layer(d.kind, "controller", d.name) : d \in ToSet(program.onClass[m]) \ {MakesIt}}
  OBVIOUS
<1>5. PICK U, O : U = UnderRoute(m) /\ O = OfMethod(m)
  OBVIOUS
<1>6. UnderRoute(m)' = U /\ OfMethod(m)' = O
  <2>1. RouteMark(m)' = RouteMark(m)
    BY <1>1, Zenon DEF RouteMark
  <2> QED BY <1>1, <1>5, <2>1, Zenon DEF UnderRoute, OfMethod
<1>7. ASSUME NEW S
      PROVE  /\ WrittenFor(m, i, S) = {Layer("middleware", "module", made[j]) : j \in J} \cup C
                                        \cup {Layer(d.kind, "route", d.name) : d \in S}
             /\ WrittenFor(m, i, S)' = {Layer("middleware", "module", made'[j]) : j \in J} \cup C
                                         \cup {Layer(d.kind, "route", d.name) : d \in S}
  BY <1>1, <1>2, <1>4, Zenon DEF WrittenFor, Class
<1>8. /\ WrittenFor(m, i, UnderRoute(m))' = WrittenFor(m, i, U)'
      /\ WrittenFor(m, i, OfMethod(m))' = WrittenFor(m, i, O)'
  BY <1>6, Zenon DEF WrittenFor
<1> QED BY <1>3, <1>5, <1>7, <1>8, Zenon

LEMMA AsWrittenKept ==
  ASSUME Shape, Grown, NEW r, NEW homes, homes \subseteq Ids, AsWritten(r, homes)
  PROVE  AsWritten(r, homes)'
<1>1. \A i \in homes : /\ Configuring(i)' = Configuring(i)
                       /\ WrittenFor(r.controller, i, UnderRoute(r.controller))'
                            = WrittenFor(r.controller, i, UnderRoute(r.controller))
                       /\ WrittenFor(r.controller, i, OfMethod(r.controller))'
                            = WrittenFor(r.controller, i, OfMethod(r.controller))
  BY ConfiguringKept, WrittenForKept
<1>2. r.by \in homes
  BY DEF AsWritten
<1>3. PICK i \in homes : /\ i = r.by \/ Configuring(r.by) = <<>>
                         /\ Configuring(i) = <<>> => \A j \in homes : Configuring(j) = <<>>
                         /\ WrittenFor(r.controller, i, UnderRoute(r.controller)) \subseteq Around(r)
                         /\ Around(r) \subseteq WrittenFor(r.controller, i, OfMethod(r.controller))
  BY Zenon DEF AsWritten
<1>4. /\ i = r.by \/ Configuring(r.by)' = <<>>
      /\ Configuring(i)' = <<>> => \A j \in homes : Configuring(j)' = <<>>
      /\ WrittenFor(r.controller, i, UnderRoute(r.controller))' \subseteq Around(r)
      /\ Around(r) \subseteq WrittenFor(r.controller, i, OfMethod(r.controller))'
  BY <1>1, <1>2, <1>3, Zenon
<1>5. \A k \in Kinds : \A x, y \in DOMAIN r.layers[k] :
        x < y => Rank[r.layers[k][x].level] <= Rank[r.layers[k][y].level]
  BY Zenon DEF AsWritten
<1> QED BY <1>2, <1>4, <1>5, Zenon DEF AsWritten

\* The modules that are reached stay reached.
LEMMA ReachedKept ==
  ASSUME Grown, NEW D, NEW i, Reached(D, i)
  PROVE  Reached(D, i)'
<1>1. \A j \in D : /\ j \in Ids /\ children'[j] = children[j]
                   /\ \A x \in DOMAIN frames' : frames'[x].id # j
  BY DEF Grown, Reached
<1>2. D \subseteq Ids' /\ i \in D
  BY DEF Grown, Reached
<1>3. \A x \in DOMAIN frames' : frames'[x].id \notin D
  BY <1>1
<1>4. \A j \in D : \A k \in DOMAIN children'[j] : children'[j][k] \in D
  BY <1>1 DEF Reached
<1>5. ASSUME NEW E \in SUBSET D, i \in E,
             \A j \in E : \A k \in DOMAIN children'[j] : children'[j][k] \in E
      PROVE  E = D
  <2>1. \A j \in E : \A k \in DOMAIN children[j] : children[j][k] \in E
    BY <1>1, <1>5
  <2> QED BY <1>5, <2>1 DEF Reached
<1> QED BY <1>2, <1>3, <1>4, <1>5 DEF Reached

\* The routes of an application are still as they were written.
LEMMA RoutesKept ==
  ASSUME TreeInv, Grown, NEW a \in AppIds, phase[a] # "off", NEW r, r = root[a],
         NEW D, Reached(D, r), NEW routes, RoutesOf(routes, D)
  PROVE  phase'[a] # "off" /\ root'[a] = r /\ Reached(D, r)' /\ RoutesOf(routes, D)'
<1>1. phase'[a] # "off" /\ root'[a] = r
  BY DEF Grown
<1>2. Reached(D, r)'
  BY ReachedKept
<1>3. D \subseteq Ids /\ Shape
  BY DEF Reached, TreeInv
<1>4. ASSUME NEW p \in DOMAIN routes, routes[p] # FrameworkRoute
      PROVE  AsWritten(routes[p], HomesIn(D, routes[p].controller))'
  <2>1. PICK x : x = routes[p]
    OBVIOUS
  <2>2. PICK homes : homes = HomesIn(D, x.controller)
    OBVIOUS
  <2>3. AsWritten(x, homes)
    BY <1>4, <2>1, <2>2, Zenon DEF RoutesOf
  <2>4. AsWritten(x, homes)'
    <3>1. homes \subseteq Ids
      BY <1>3, <2>2 DEF HomesIn
    <3> QED BY <1>3, <2>3, <3>1, AsWrittenKept
  <2>5. homes = HomesIn(D, x.controller)'
    BY <1>3, <2>2 DEF Grown, HomesIn
  <2> QED BY <2>1, <2>4, <2>5, Zenon
<1>5. RoutesOf(routes, D)'
  BY <1>4, Zenon DEF RoutesOf
<1> QED BY <1>1, <1>2, <1>5

\* Every step but the one that makes the routes takes nothing away.
LEMMA TableKept ==
  ASSUME TreeInv, TableInv, Grown, table' = table
  PROVE  TableInv'
<1>1. AppIds' = AppIds
  BY DEF Grown, AppIds
<1>2. ASSUME NEW a \in AppIds, DOMAIN table[a] # {}
      PROVE  phase'[a] # "off" /\ \E D : Reached(D, root[a])' /\ RoutesOf(table[a], D)'
  <2>1. PICK r, routes : r = root[a] /\ routes = table[a]
    OBVIOUS
  <2>2. PICK D : phase[a] # "off" /\ Reached(D, r) /\ RoutesOf(routes, D)
    BY <1>2, <2>1 DEF TableInv
  <2>3. phase'[a] # "off" /\ root'[a] = r /\ Reached(D, r)' /\ RoutesOf(routes, D)'
    BY <2>1, <2>2, RoutesKept
  <2>4. table'[a] = routes
    BY <2>1
  <2> QED BY <2>3, <2>4
<1> QED BY <1>1, <1>2 DEF TableInv

\* What is appended to stays.
LEMMA AppendKeeps ==
  ASSUME NEW S, NEW s \in Seq(S), NEW x
  PROVE  /\ Len(Append(s, x)) = Len(s) + 1 /\ DOMAIN Append(s, x) = 1..(Len(s) + 1)
         /\ Append(s, x)[Len(s) + 1] = x /\ Len(s) \in Nat
         /\ \A i \in 1..Len(s) : Append(s, x)[i] = s[i]
<1>1. PICK T : T = S \cup {x}
  OBVIOUS
<1>2. s \in Seq(T) /\ x \in T
  BY <1>1
<1>3. /\ Append(s, x) \in Seq(T) /\ Len(Append(s, x)) = Len(s) + 1
      /\ \A i \in 1..Len(s) : Append(s, x)[i] = s[i]
      /\ Append(s, x)[Len(s) + 1] = x
  BY <1>2, AppendElements
<1>4. Len(s) \in Nat
  OBVIOUS
<1> QED BY <1>3, <1>4

\* A constructor that is called adds a module, and is under way then.
LEMMA EnterGrows ==
  ASSUME TreeInv, NEW m, NEW above, NEW stack \in Seq(Frames), Enter(m, above, stack),
         Len(stack) = Len(frames), \A x \in DOMAIN stack : stack[x].id = frames[x].id,
         program' = program,
         \A a \in AppIds : phase[a] # "off" => phase'[a] # "off" /\ root'[a] = root[a]
  PROVE  Grown
<1>1. /\ made \in Seq(ModuleClasses) /\ children \in Seq(Seq(Nat)) /\ parents \in Seq(Seq(Nat))
      /\ Len(children) = Len(made) /\ Len(parents) = Len(made) /\ Len(made) \in Nat
      /\ frames \in Seq(Frames)
  BY DEF TreeInv, Shape, TreeTypeOK
<1>2. /\ made' = Append(made, m) /\ children' = Append(children, <<>>)
      /\ parents' = Append(parents, above)
      /\ frames' = Append(stack, [id |-> Len(made) + 1, next |-> 1])
  BY DEF Enter
<1>3. Len(made') = Len(made) + 1 /\ \A i \in Ids : made'[i] = made[i]
  BY <1>1, <1>2, AppendKeeps DEF Ids
<1>4. \A i \in Ids : children'[i] = children[i]
  <2> DEFINE S == Seq(Nat)
  <2>1. children \in Seq(S)
    BY <1>1
  <2> HIDE DEF S
  <2> QED BY <1>1, <1>2, <2>1, AppendKeeps DEF Ids
<1>5. \A i \in Ids : parents'[i] = parents[i]
  <2> DEFINE S == Seq(Nat)
  <2>1. parents \in Seq(S)
    BY <1>1
  <2> HIDE DEF S
  <2> QED BY <1>1, <1>2, <2>1, AppendKeeps DEF Ids
<1>6. Ids \subseteq Ids'
  BY <1>1, <1>3 DEF Ids
<1>7. ASSUME NEW i \in Ids, \A x \in DOMAIN frames : frames[x].id # i, NEW x \in DOMAIN frames'
      PROVE  frames'[x].id # i
  <2>1. PICK e : e = [id |-> Len(made) + 1, next |-> 1]
    OBVIOUS
  <2>2. frames' = Append(stack, e)
    BY <1>2, <2>1
  <2>3. /\ DOMAIN frames' = 1..(Len(stack) + 1) /\ Len(stack) \in Nat
        /\ frames'[Len(stack) + 1] = e
        /\ \A y \in 1..Len(stack) : frames'[y] = stack[y]
    BY <2>2, AppendKeeps
  <2>4. CASE x = Len(stack) + 1
    <3>1. e.id # i
      BY <1>1, <2>1 DEF Ids
    <3> QED BY <2>3, <2>4, <3>1
  <2>5. CASE x # Len(stack) + 1
    <3>1. x \in 1..Len(stack)
      BY <2>3, <2>5
    <3>2. x \in DOMAIN stack /\ x \in DOMAIN frames
      BY <1>1, <3>1
    <3>3. frames'[x].id = frames[x].id
      BY <2>3, <3>1, <3>2
    <3> QED BY <1>7, <3>2, <3>3
  <2> QED BY <2>4, <2>5
<1> QED BY <1>3, <1>4, <1>5, <1>6, <1>7 DEF Grown

\* Steps that leave the modules alone.
LEMMA OthersGrow ==
  ASSUME TreeInv, UNCHANGED <<program, made, children, parents, root>>,
         \A x \in DOMAIN frames' : x \in DOMAIN frames /\ frames'[x].id = frames[x].id,
         \A a \in AppIds : phase[a] # "off" => phase'[a] # "off"
  PROVE  Grown
BY DEF Grown, Ids

LEMMA ConstructingGrows ==
  ASSUME TreeInv, Constructing
  PROVE  Grown
<1>0. /\ phase \in [AppIds -> {"off", "making", "setup", "created", "up", "failed"}]
      /\ frames \in Seq(Frames)
  BY DEF TreeInv, Shape, TreeTypeOK
<1>1. CASE PassBy
  <2>1. /\ frames # <<>> /\ frames' = Append(Outer, Onward)
        /\ UNCHANGED <<program, made, children, parents, root, phase>>
    BY <1>1, SMTT(30) DEF PassBy, Importing, modules, apps
  <2>2. /\ frames' \in Seq(Frames) /\ Len(frames') = Len(frames)
        /\ \A x \in DOMAIN frames' : frames'[x].id = frames[x].id
    BY <2>1, OnwardFrames
  <2>3. DOMAIN frames' = DOMAIN frames
    BY <1>0, <2>2
  <2> QED BY <2>1, <2>2, <2>3, OthersGrow
<1>2. CASE Import
  <2>1. /\ frames # <<>> /\ UNCHANGED <<program, root, phase>>
        /\ Enter(Imported, Append(parents[Inner.id], Inner.id), Append(Outer, Onward))
    BY <1>2 DEF Import, Importing, apps
  <2>2. PICK stack : stack = Append(Outer, Onward)
    OBVIOUS
  <2>3. PICK above : above = Append(parents[Inner.id], Inner.id)
    OBVIOUS
  <2>4. PICK m : m = Imported
    OBVIOUS
  <2>5. Enter(m, above, stack)
    BY <2>1, <2>2, <2>3, <2>4, SMTT(30)
  <2>6. /\ stack \in Seq(Frames) /\ Len(stack) = Len(frames)
        /\ \A x \in DOMAIN stack : stack[x].id = frames[x].id
    BY <2>1, <2>2, OnwardFrames
  <2> QED BY <2>1, <2>5, <2>6, EnterGrows
<1>3. CASE CallServices \/ CreateServices
  <2>1. UNCHANGED <<program, frames, made, children, parents, root, phase>>
    BY <1>3 DEF CallServices, CreateServices, treeVars, modules, apps
  <2> QED BY <2>1, OthersGrow
<1>4. CASE Leave
  <2>1. UNCHANGED <<program, made, parents, root>> /\ Ids' = Ids
    BY <1>4 DEF Leave, Ids
  <2>2. \A a \in AppIds : phase[a] # "off" => phase'[a] # "off"
    <3>1. phase' = phase \/ phase' = [a \in AppIds |-> IF root[a] = Inner.id THEN "setup" ELSE phase[a]]
      BY <1>4 DEF Leave
    <3> QED BY <1>0, <3>1
  <2>3. \A x \in DOMAIN frames' : x \in DOMAIN frames /\ frames'[x] = frames[x]
    BY <1>4, LeaveFrames
  <2>4. ASSUME NEW i \in Ids, \A x \in DOMAIN frames : frames[x].id # i
        PROVE  children'[i] = children[i]
    <3>1. Len(frames) # 1 => Len(frames) - 1 \in DOMAIN frames
      <4>1. Len(frames) \in Nat \ {0} /\ DOMAIN frames = 1..Len(frames)
        BY <1>4, OwnServicesAre
      <4> QED BY <4>1
    <3>2. Len(frames) = 1 \/ i # Importer
      BY <2>4, <3>1 DEF Importer
    <3> QED BY <1>4, <3>2, LeaveChildren
  <2> QED BY <2>1, <2>2, <2>3, <2>4 DEF Grown
<1>5. CASE Throw
  <2>1. /\ frames' = <<>> /\ UNCHANGED <<program, made, children, parents, root>>
        /\ phase' = [a \in AppIds |-> IF root[a] = frames[1].id THEN "failed" ELSE phase[a]]
    BY <1>5 DEF Throw, modules
  <2>2. DOMAIN frames' = {}
    BY <2>1
  <2>3. \A a \in AppIds : phase[a] # "off" => phase'[a] # "off"
    BY <2>1
  <2> QED BY <2>1, <2>2, <2>3, OthersGrow
<1> QED BY <1>1, <1>2, <1>3, <1>4, <1>5, Zenon DEF Constructing

LEMMA AppsGrow ==
  ASSUME TreeInv, NEW a \in AppIds,
         StartApp(a) \/ InitBegins(a) \/ InitEnds(a) \/ InitFails(a) \/ CreateLayers(a)
  PROVE  Grown
<1>0. /\ phase \in [AppIds -> {"off", "making", "setup", "created", "up", "failed"}]
      /\ root \in [AppIds -> Nat]
  BY DEF TreeInv, Shape, TreeTypeOK
<1>1. CASE StartApp(a)
  <2>1. /\ frames = <<>> /\ phase[a] = "off" /\ program' = program
        /\ phase' = [phase EXCEPT ![a] = "making"] /\ root' = [root EXCEPT ![a] = Len(made) + 1]
        /\ Enter(program.apps[a], <<>>, <<>>)
    BY <1>1 DEF StartApp
  <2>2. \A b \in AppIds : phase[b] # "off" => phase'[b] # "off" /\ root'[b] = root[b]
    BY <1>0, <2>1
  <2>3. PICK stack : stack = <<>> /\ stack \in Seq(Frames) /\ stack = frames
    <3>1. <<>> \in Seq(Frames)
      OBVIOUS
    <3> QED BY <2>1, <3>1
  <2>4. PICK m, above : m = program.apps[a] /\ above = <<>>
    OBVIOUS
  <2>5. Enter(m, above, stack)
    BY <2>1, <2>3, <2>4
  <2> QED BY <2>1, <2>2, <2>3, <2>5, EnterGrows
<1>2. CASE InitBegins(a) \/ InitEnds(a) \/ InitFails(a) \/ CreateLayers(a)
  <2>1. /\ UNCHANGED <<program, frames, made, children, parents, root>>
        /\ \/ phase' = phase
           \/ phase' = [phase EXCEPT ![a] = "failed"] \/ phase' = [phase EXCEPT ![a] = "created"]
    BY <1>2 DEF InitBegins, InitEnds, InitFails, CreateLayers, modules
  <2>2. \A b \in AppIds : phase[b] # "off" => phase'[b] # "off"
    BY <1>0, <2>1
  <2> QED BY <2>1, <2>2, OthersGrow
<1> QED BY <1>1, <1>2

-----------------------------------------------------------------------------
(* What a request goes through.                                             *)

LayerNames == ModuleClasses \cup Names \cup Nat
Item(level, name) == [level |-> level, name |-> name]
Items(level, names) == {Item(level, y) : y \in names}
AnyLayer == [level : {"application", "module", "controller", "route"}, name : LayerNames]

\* s has the layers in X, of ranks from lo to hi, in their order.
Ranked(s, lo, hi, X) ==
  /\ s \in Seq(AnyLayer) /\ ToSet(s) = X
  /\ \A i \in DOMAIN s : lo <= Rank[s[i].level] /\ Rank[s[i].level] <= hi
  /\ \A i, j \in DOMAIN s : i < j => Rank[s[i].level] <= Rank[s[j].level]

LEMMA RankIs ==
  /\ \A l \in {"application", "module", "controller", "route"} : Rank[l] \in 1..4
  /\ Rank["application"] = 1 /\ Rank["module"] = 2 /\ Rank["controller"] = 3 /\ Rank["route"] = 4
BY DEF Rank

\* The layers of one level are of its rank.
LEMMA AtRanked ==
  ASSUME NEW level \in {"application", "module", "controller", "route"},
         NEW names \in Seq(LayerNames)
  PROVE  Ranked(At(level, names), Rank[level], Rank[level], Items(level, ToSet(names)))
<1>1. PICK s : s = At(level, names)
  OBVIOUS
<1>2. DOMAIN s = DOMAIN names /\ \A i \in DOMAIN names : s[i] = Item(level, names[i])
  BY <1>1 DEF At, Item
<1>3. \A i \in DOMAIN names : s[i] \in AnyLayer /\ s[i].level = level
  BY <1>2 DEF AnyLayer, Item
<1>4. s \in Seq(AnyLayer)
  <2>1. s = [i \in DOMAIN names |-> s[i]]
    BY <1>1 DEF At
  <2>2. s \in [DOMAIN names -> AnyLayer]
    BY <1>3, <2>1
  <2> QED BY <2>2, MappedIsSeq, Zenon
<1>5. ToSet(s) = Items(level, ToSet(names))
  BY <1>2 DEF ToSet, Items
<1>6. Rank[level] \in Nat
  BY RankIs
<1> QED BY <1>1, <1>2, <1>3, <1>4, <1>5, <1>6 DEF Ranked

\* One after the other they keep their order.
LEMMA RankedConcat ==
  ASSUME NEW s, NEW t, NEW l1 \in Nat, NEW h1 \in Nat, NEW l2 \in Nat, NEW h2 \in Nat,
         NEW X, NEW Y, Ranked(s, l1, h1, X), Ranked(t, l2, h2, Y),
         l1 <= h1, h1 <= l2, l2 <= h2
  PROVE  Ranked(s \o t, l1, h2, X \cup Y)
<1>1. s \in Seq(AnyLayer) /\ t \in Seq(AnyLayer) /\ ToSet(s) = X /\ ToSet(t) = Y
  BY DEF Ranked
<1>2. PICK u, m, n : u = s \o t /\ m = Len(s) /\ n = Len(t)
  OBVIOUS
<1>3. u \in Seq(AnyLayer) /\ ToSet(u) = X \cup Y
  BY <1>1, <1>2, ConcatSet
<1>4. /\ m \in Nat /\ n \in Nat /\ DOMAIN u = 1..(m + n) /\ DOMAIN s = 1..m /\ DOMAIN t = 1..n
      /\ \A i \in 1..m : u[i] = s[i]
      /\ \A i \in 1..n : u[m + i] = t[i]
  BY <1>1, <1>2
<1>5. PICK q : q = [i \in DOMAIN u |-> Rank[u[i].level]]
  OBVIOUS
<1>6. \A i \in DOMAIN u : q[i] \in Nat
  <2>1. \A i \in DOMAIN u : u[i] \in AnyLayer
    BY <1>3
  <2> QED BY <1>5, <2>1, RankIs DEF AnyLayer
<1>7. \A i \in 1..m : q[i] = Rank[s[i].level] /\ l1 <= q[i] /\ q[i] <= h1
  BY <1>4, <1>5, SMTT(30) DEF Ranked
<1>8. ASSUME NEW i \in (m + 1)..(m + n)
      PROVE  q[i] = Rank[t[i - m].level] /\ l2 <= q[i] /\ q[i] <= h2
  <2>1. PICK j \in 1..n : j = i - m /\ i = m + j
    BY <1>4
  <2>2. u[i] = t[j] /\ i \in DOMAIN u /\ j \in DOMAIN t
    BY <1>4, <2>1
  <2> QED BY <1>5, <2>1, <2>2 DEF Ranked
<1>9. \A i \in DOMAIN u : l1 <= q[i] /\ q[i] <= h2
  <2> SUFFICES ASSUME NEW i \in DOMAIN u PROVE l1 <= q[i] /\ q[i] <= h2
    OBVIOUS
  <2>1. i \in 1..m \/ i \in (m + 1)..(m + n)
    BY <1>4
  <2> QED BY <1>6, <1>7, <1>8, <2>1
<1>10. ASSUME NEW i \in DOMAIN u, NEW j \in DOMAIN u, i < j PROVE q[i] <= q[j]
  <2>1. /\ i \in 1..m \/ i \in (m + 1)..(m + n)
        /\ j \in 1..m \/ j \in (m + 1)..(m + n)
    BY <1>4
  <2>2. CASE i \in 1..m /\ j \in 1..m
    <3>1. Rank[s[i].level] <= Rank[s[j].level]
      BY <1>4, <1>10, <2>2 DEF Ranked
    <3> QED BY <1>7, <2>2, <3>1
  <2>3. CASE i \in 1..m /\ j \in (m + 1)..(m + n)
    BY <1>6, <1>7, <1>8, <2>3
  <2>4. CASE i \in (m + 1)..(m + n) /\ j \in (m + 1)..(m + n)
    <3>1. i - m \in 1..n /\ j - m \in 1..n /\ i - m < j - m
      BY <1>4, <1>10, <2>4
    <3>2. Rank[t[i - m].level] <= Rank[t[j - m].level]
      BY <1>4, <3>1 DEF Ranked
    <3> QED BY <1>8, <2>4, <3>2
  <2>5. ~(i \in (m + 1)..(m + n) /\ j \in 1..m)
    BY <1>4, <1>10
  <2> QED BY <2>1, <2>2, <2>3, <2>4, <2>5
<1>11. Ranked(u, l1, h2, X \cup Y)
  BY <1>3, <1>5, <1>9, <1>10 DEF Ranked
<1> QED BY <1>2, <1>11

\* A request goes through what the class and the method have noted for each kind, after
\* the module's middleware and what the application has for all.
LEMMA MergedIs ==
  ASSUME NEW a, root[a] \in Nat, NEW m, NEW mm \in Seq(ModuleClasses), mm = ModuleMiddleware(a, m),
         NEW oc \in Noted, oc = OnClass(m), NEW om \in Noted, om = OnMethod(m), NEW k \in Kinds
  PROVE  \E X \in SUBSET Items("application", Nat) :
           Ranked(Merged(a, m)[k], 1, 4,
                  X \cup (IF k = "middleware" THEN Items("module", ToSet(mm)) ELSE {})
                    \cup (Items("controller", ToSet(oc[k])) \cup Items("route", ToSet(om[k]))))
<1>1. oc[k] \in Seq(LayerNames) /\ om[k] \in Seq(LayerNames) /\ mm \in Seq(LayerNames)
  <2>1. oc[k] \in Seq(Names) /\ om[k] \in Seq(Names)
    BY DEF Noted
  <2> QED BY <2>1 DEF LayerNames
<1>2. PICK B : B = Items("controller", ToSet(oc[k])) \cup Items("route", ToSet(om[k]))
  OBVIOUS
<1>3. PICK n : n = At("controller", oc[k]) \o At("route", om[k])
  OBVIOUS
<1>4. Ranked(n, 3, 4, B)
  <2>1. Ranked(At("controller", oc[k]), 3, 3, Items("controller", ToSet(oc[k])))
    BY <1>1, AtRanked, RankIs
  <2>2. Ranked(At("route", om[k]), 4, 4, Items("route", ToSet(om[k])))
    BY <1>1, AtRanked, RankIs
  <2>3. PICK s, t, X, Y : /\ s = At("controller", oc[k]) /\ t = At("route", om[k])
                          /\ X = Items("controller", ToSet(oc[k])) /\ Y = Items("route", ToSet(om[k]))
    OBVIOUS
  <2>4. Ranked(s, 3, 3, X) /\ Ranked(t, 4, 4, Y)
    BY <2>1, <2>2, <2>3
  <2>5. Ranked(s \o t, 3, 4, X \cup Y)
    BY <2>4, RankedConcat
  <2> QED BY <1>2, <1>3, <2>3, <2>5
<1>5. PICK e : e = At("application", <<root[a]>>)
  OBVIOUS
<1>6. PICK A \in SUBSET Items("application", Nat) : Ranked(e, 1, 1, A)
  <2>1. PICK one : one = <<root[a]>> /\ one \in Seq(LayerNames) /\ ToSet(one) \subseteq Nat
    <3>1. <<root[a]>> \in Seq(LayerNames) /\ ToSet(<<root[a]>>) \subseteq Nat
      BY DEF LayerNames, ToSet
    <3> QED BY <3>1, Zenon
  <2>2. Ranked(e, 1, 1, Items("application", ToSet(one)))
    BY <1>5, <2>1, AtRanked, RankIs
  <2>3. Items("application", ToSet(one)) \in SUBSET Items("application", Nat)
    BY <2>1 DEF Items
  <2> QED BY <2>2, <2>3
<1>7. PICK w, W : w = At("module", mm) /\ W = Items("module", ToSet(mm)) /\ Ranked(w, 2, 2, W)
  <2>1. Ranked(At("module", mm), 2, 2, Items("module", ToSet(mm)))
    BY <1>1, AtRanked, RankIs
  <2> QED BY <2>1, Zenon
<1>8. Merged(a, m)[k] = CASE k = "middleware" -> e \o w \o n
                          [] k = "guards" -> n
                          [] k \in {"filters", "interceptors"} -> e \o n
  <2>1. PICK noted : noted = [j \in Kinds |-> At("controller", oc[j]) \o At("route", om[j])]
    OBVIOUS
  <2>2. Merged(a, m) = [middleware |-> e \o w \o noted.middleware, guards |-> noted.guards,
                        filters |-> e \o noted.filters, interceptors |-> e \o noted.interceptors]
    BY <1>5, <1>7, <2>1, Zenon DEF Merged
  <2>3. noted[k] = n
    BY <1>3, <2>1
  <2>4. PICK x, y, z : x = e \o w \o noted.middleware /\ y = e \o noted.filters /\ z = e \o noted.interceptors
    OBVIOUS
  <2>5. Merged(a, m) = [middleware |-> x, guards |-> noted.guards, filters |-> y, interceptors |-> z]
    BY <2>2, <2>4, Zenon
  <2>6. CASE k = "middleware"
    <3>1. Merged(a, m)[k] = x /\ k # "guards" /\ k \notin {"filters", "interceptors"}
      BY <2>5, <2>6
    <3>2. noted.middleware = n
      BY <2>3, <2>6
    <3>3. x = e \o w \o n
      BY <2>4, <3>2, Zenon
    <3> QED BY <2>6, <3>1, <3>3, Zenon
  <2>7. CASE k = "guards"
    BY <2>3, <2>5, <2>7
  <2>8. CASE k = "filters"
    <3>1. Merged(a, m)[k] = y /\ k # "guards" /\ k # "middleware" /\ k \in {"filters", "interceptors"}
      BY <2>5, <2>8
    <3>2. noted.filters = n
      BY <2>3, <2>8
    <3>3. y = e \o n
      BY <2>4, <3>2, Zenon
    <3> QED BY <2>8, <3>1, <3>3, Zenon
  <2>9. CASE k = "interceptors"
    <3>1. Merged(a, m)[k] = z /\ k # "guards" /\ k # "middleware" /\ k \in {"filters", "interceptors"}
      BY <2>5, <2>9
    <3>2. noted.interceptors = n
      BY <2>3, <2>9
    <3>3. z = e \o n
      BY <2>4, <3>2, Zenon
    <3> QED BY <2>9, <3>1, <3>3, Zenon
  <2> QED BY <2>6, <2>7, <2>8, <2>9 DEF Kinds
<1>9. CASE k = "middleware"
  <2>1. Ranked(e \o w, 1, 2, A \cup W)
    BY <1>6, <1>7, RankedConcat
  <2>2. PICK v, V : v = e \o w /\ V = A \cup W /\ Ranked(v, 1, 2, V)
    BY <2>1, Zenon
  <2>3. Ranked(v \o n, 1, 4, V \cup B)
    <3>1. Ranked(v, 1, 2, V)
      BY <2>2
    <3> QED BY <1>4, <3>1, RankedConcat
  <2>4. Merged(a, m)[k] = v \o n
    BY <1>8, <1>9, <2>2
  <2> QED BY <1>2, <1>6, <1>7, <1>9, <2>2, <2>3, <2>4
<1>10. CASE k = "guards"
  <2>1. Merged(a, m)[k] = n
    BY <1>8, <1>10
  <2>2. Ranked(n, 1, 4, B)
    <3>1. \A i \in DOMAIN n : Rank[n[i].level] \in Nat
      <4>1. \A i \in DOMAIN n : n[i] \in AnyLayer
        BY <1>4 DEF Ranked
      <4> QED BY <4>1, RankIs DEF AnyLayer
    <3> QED BY <1>4, <3>1 DEF Ranked
  <2>3. {} \cup {} \cup B = B /\ k # "middleware" /\ {} \in SUBSET Items("application", Nat)
    BY <1>10
  <2> QED BY <1>2, <2>1, <2>2, <2>3
<1>11. CASE k \in {"filters", "interceptors"}
  <2>1. Merged(a, m)[k] = e \o n
    BY <1>8, <1>11
  <2>2. Ranked(e \o n, 1, 4, A \cup B)
    BY <1>4, <1>6, RankedConcat
  <2>3. A \cup {} \cup B = A \cup B /\ k # "middleware"
    BY <1>11
  <2> QED BY <1>2, <1>6, <2>1, <2>2, <2>3
<1> QED BY <1>9, <1>10, <1>11 DEF Kinds

\* i is the module whose middleware the routes of m get.
Chosen(a, m, i, homes) ==
  /\ i = Owner(a, m) \/ Configuring(Owner(a, m)) = <<>>
  /\ Configuring(i) = <<>> => \A j \in homes : Configuring(j) = <<>>
  /\ ModuleMiddleware(a, m) \in Seq(ModuleClasses)
  /\ ToSet(ModuleMiddleware(a, m)) = {made[j] : j \in ToSet(Configuring(i))}

\* Where a module stands in several places, that is the first that has any.
LEMMA ModuleMiddlewareIs ==
  ASSUME Shape, NEW a, NEW D, Places(a) \in Seq(Ids), ToSet(Places(a)) = D,
         NEW m, NEW c \in DOMAIN Places(a), made[Places(a)[c]] = m
  PROVE  /\ Owner(a, m) \in HomesIn(D, m)
         /\ \E i \in HomesIn(D, m) : Chosen(a, m, i, HomesIn(D, m))
<1> DEFINE homes == HomesIn(D, m)
<1>0. PICK P \in Seq(Ids) : P = Places(a)
  OBVIOUS
<1>h. homes = {i \in ToSet(P) : made[i] = m} /\ c \in DOMAIN P /\ made[P[c]] = m
  BY <1>0 DEF HomesIn
<1> HIDE DEF homes
<1>1. PICK S : S = {k \in DOMAIN P : made[P[k]] = m}
  OBVIOUS
<1>2. S = PlacesOf(a, m)
  BY <1>0, <1>1 DEF PlacesOf, Class
<1>3. S \subseteq Nat /\ S # {}
  <2>1. DOMAIN P \subseteq Nat /\ c \in S
    BY <1>h, <1>1
  <2> QED BY <1>1, <2>1
<1>4. PICK low : low = Min(S) /\ low \in S /\ \A k \in S : low <= k
  BY <1>3, LeastIs
<1>5. PICK by : by = P[low]
  OBVIOUS
<1>6. by = Owner(a, m)
  BY <1>0, <1>2, <1>4, <1>5, Zenon DEF Owner
<1>7. \A k \in S : P[k] \in homes /\ P[k] \in Ids
  <2>1. \A k \in S : k \in DOMAIN P /\ made[P[k]] = m
    BY <1>1
  <2>2. \A k \in S : P[k] \in ToSet(P) /\ P[k] \in Ids
    BY <2>1 DEF ToSet
  <2> QED BY <1>h, <2>1, <2>2
<1>8. \A j \in homes : \E k \in S : j = P[k]
  BY <1>h, <1>1 DEF ToSet
<1>9. PICK some : some = {k \in S : Configuring(P[k]) # <<>>}
  OBVIOUS
<1>10. ModuleMiddleware(a, m) =
         IF some = {} THEN <<>>
         ELSE [k \in DOMAIN Configuring(P[Min(some)]) |-> made[Configuring(P[Min(some)])[k]]]
  <2>1. some = {k \in PlacesOf(a, m) : Configuring(Places(a)[k]) # <<>>}
    BY <1>0, <1>2, <1>9
  <2> QED BY <1>0, <2>1, Zenon DEF ModuleMiddleware, Class
<1>11. CASE some = {}
  <2>1. \A k \in S : Configuring(P[k]) = <<>>
    BY <1>9, <1>11
  <2>2. \A j \in homes : Configuring(j) = <<>>
    BY <1>8, <2>1
  <2>3. by \in homes /\ Configuring(by) = <<>>
    BY <1>4, <1>5, <1>7, <2>2
  <2>4. ToSet(<<>>) = {} /\ <<>> \in Seq(ModuleClasses)
    BY DEF ToSet
  <2>5. ToSet(ModuleMiddleware(a, m)) = {made[j] : j \in ToSet(Configuring(by))}
    BY <1>10, <1>11, <2>3, <2>4
  <2>6. ModuleMiddleware(a, m) \in Seq(ModuleClasses)
    BY <1>10, <1>11, <2>4
  <2> QED BY <1>6, <2>2, <2>3, <2>5, <2>6 DEF Chosen, homes
<1>12. CASE some # {}
  <2>1. PICK q : q = Min(some) /\ q \in some /\ \A k \in some : q <= k
    <3>1. some \subseteq Nat
      BY <1>3, <1>9
    <3> QED BY <1>12, <3>1, LeastIs
  <2>2. PICK i : i = P[q]
    OBVIOUS
  <2>3. PICK cf : cf = Configuring(i)
    OBVIOUS
  <2>4. q \in S /\ cf # <<>> /\ i \in homes /\ i \in Ids
    BY <1>7, <1>9, <2>1, <2>2, <2>3
  <2>5. i = by \/ Configuring(by) = <<>>
    <3> SUFFICES ASSUME Configuring(by) # <<>> PROVE q = low
      BY <1>5, <2>2
    <3>1. low \in some
      BY <1>4, <1>5, <1>9
    <3>2. q <= low /\ low <= q /\ q \in Nat /\ low \in Nat
      BY <1>3, <1>4, <2>1, <2>4, <3>1
    <3> QED BY <3>2
  <2>6. cf \in Seq(Ids)
    BY <2>3, <2>4, ConfiguringTyped
  <2>7. PICK mm : mm = [k \in DOMAIN cf |-> made[cf[k]]]
    OBVIOUS
  <2>8. ModuleMiddleware(a, m) = mm
    BY <1>10, <1>12, <2>1, <2>2, <2>3, <2>7, Zenon
  <2>9. mm \in Seq(ModuleClasses)
    <3>1. \A k \in DOMAIN cf : cf[k] \in Ids
      BY <2>6
    <3>2. \A j \in Ids : made[j] \in ModuleClasses
      BY DEF Shape, TreeTypeOK, Ids
    <3>3. mm \in [DOMAIN cf -> ModuleClasses]
      BY <2>7, <3>1, <3>2
    <3> QED BY <2>6, <3>3, MappedIsSeq, Zenon
  <2>10. ToSet(mm) = {made[j] : j \in ToSet(cf)}
    BY <2>7 DEF ToSet
  <2>11. Configuring(i) # <<>> /\ ToSet(ModuleMiddleware(a, m)) = {made[j] : j \in ToSet(Configuring(i))}
    BY <2>3, <2>4, <2>8, <2>10, Zenon
  <2>12. ModuleMiddleware(a, m) \in Seq(ModuleClasses)
    BY <2>8, <2>9, Zenon
  <2>13. by \in homes
    BY <1>4, <1>5, <1>7
  <2> QED BY <1>6, <2>4, <2>5, <2>11, <2>12, <2>13, Zenon DEF Chosen, homes
<1> QED BY <1>11, <1>12

\* z is a layer that the modules in M, what is noted on the class or what is noted on
\* the method puts around a route.
Written(z, M, oc, om) ==
  \/ \E y \in M : z = Layer("middleware", "module", y)
  \/ \E k \in Kinds : \E y \in ToSet(oc[k]) : z = Layer(k, "controller", y)
  \/ \E k \in Kinds : \E y \in ToSet(om[k]) : z = Layer(k, "route", y)

LEMMA AroundIs ==
  ASSUME NEW r, NEW M, NEW oc, NEW om,
         \A k \in Kinds : \E X \in SUBSET Items("application", Nat) :
           ToSet(r.layers[k]) = X \cup (IF k = "middleware" THEN Items("module", M) ELSE {})
             \cup (Items("controller", ToSet(oc[k])) \cup Items("route", ToSet(om[k])))
  PROVE  \A z : z \in Around(r) <=> Written(z, M, oc, om)
<1> DEFINE Inside(k) == {y \in ToSet(r.layers[k]) : y.level # "application"}
<1>1. ASSUME NEW k \in Kinds
      PROVE  \A x : x \in Inside(k) <=>
               \/ k = "middleware" /\ \E y \in M : x = Item("module", y)
               \/ \E y \in ToSet(oc[k]) : x = Item("controller", y)
               \/ \E y \in ToSet(om[k]) : x = Item("route", y)
  <2>1. PICK X \in SUBSET Items("application", Nat) :
          ToSet(r.layers[k]) = X \cup (IF k = "middleware" THEN Items("module", M) ELSE {})
            \cup (Items("controller", ToSet(oc[k])) \cup Items("route", ToSet(om[k])))
    OBVIOUS
  <2>2. \A x \in X : x.level = "application"
    BY DEF Items, Item
  <2>3. \A l, y : Item(l, y).level = l
    BY DEF Item
  <2>4. \A l, Y, x : x \in Items(l, Y) <=> \E y \in Y : x = Item(l, y)
    BY DEF Items
  <2> QED BY <2>1, <2>2, <2>3, <2>4
<1>2. \A z : z \in Around(r) <=> \E k \in Kinds : \E x \in Inside(k) : z = Layer(k, x.level, x.name)
  <2>1. Around(r) = UNION {{Layer(k, x.level, x.name) : x \in Inside(k)} : k \in Kinds}
    BY Zenon DEF Around
  <2> HIDE DEF Inside
  <2> QED BY <2>1
<1>3. \A k, l, y : Layer(k, Item(l, y).level, Item(l, y).name) = Layer(k, l, y)
  BY DEF Item
<1> HIDE DEF Inside
<1>4. ASSUME NEW z, z \in Around(r) PROVE Written(z, M, oc, om)
  <2>1. PICK k \in Kinds : \E x \in Inside(k) : z = Layer(k, x.level, x.name)
    BY <1>2, <1>4
  <2>2. PICK x \in Inside(k) : z = Layer(k, x.level, x.name)
    BY <2>1
  <2> QED BY <1>1, <1>3, <2>2 DEF Written
<1>5. ASSUME NEW z, Written(z, M, oc, om) PROVE z \in Around(r)
  <2>1. "middleware" \in Kinds
    BY DEF Kinds
  <2>2. CASE \E y \in M : z = Layer("middleware", "module", y)
    <3>1. PICK y \in M : z = Layer("middleware", "module", y)
      BY <2>2
    <3>2. Item("module", y) \in Inside("middleware")
      BY <1>1, <2>1
    <3> QED BY <1>2, <1>3, <2>1, <3>1, <3>2
  <2>3. CASE \E k \in Kinds : \E y \in ToSet(oc[k]) : z = Layer(k, "controller", y)
    <3>1. PICK k \in Kinds : \E y \in ToSet(oc[k]) : z = Layer(k, "controller", y)
      BY <2>3
    <3>2. PICK y \in ToSet(oc[k]) : z = Layer(k, "controller", y)
      BY <3>1
    <3>3. Item("controller", y) \in Inside(k)
      BY <1>1
    <3> QED BY <1>2, <1>3, <3>2, <3>3
  <2>4. CASE \E k \in Kinds : \E y \in ToSet(om[k]) : z = Layer(k, "route", y)
    <3>1. PICK k \in Kinds : \E y \in ToSet(om[k]) : z = Layer(k, "route", y)
      BY <2>4
    <3>2. PICK y \in ToSet(om[k]) : z = Layer(k, "route", y)
      BY <3>1
    <3>3. Item("route", y) \in Inside(k)
      BY <1>1
    <3> QED BY <1>2, <1>3, <3>2, <3>3
  <2> QED BY <1>5, <2>2, <2>3, <2>4, Zenon DEF Written
<1> QED BY <1>4, <1>5

\* And that is what was written there.
LEMMA WrittenIs ==
  ASSUME program \in Programs, NEW m \in ModuleClasses, NEW i,
         NEW M, M = {made[j] : j \in ToSet(Configuring(i))}
  PROVE  \A z : z \in WrittenFor(m, i, UnderRoute(m)) <=> Written(z, M, OnClass(m), OnMethod(m))
<1>1. PICK cs, n : cs = program.onClass[m] /\ n = Len(cs)
  OBVIOUS
<1>2. PICK ms, q, l : ms = program.onMethod[m] /\ l = Len(ms) /\ q = RouteMark(m) + 1
  OBVIOUS
<1>3. PICK oc, om : oc = OnClass(m) /\ om = OnMethod(m)
  OBVIOUS
<1>4. /\ \A k \in Kinds : \A y : y \in ToSet(oc[k]) <=>
           \E j \in 1..n : cs[j] # MakesIt /\ cs[j].kind = k /\ y = cs[j].name
      /\ \A k \in Kinds : \A y : y \in ToSet(om[k]) <=>
           \E j \in q..l : ms[j] # MakesIt /\ ms[j].kind = k /\ y = ms[j].name
  <2>1. Notes(oc, cs, 1, n)
    BY <1>1, <1>3, ClassNotes
  <2>2. Notes(om, ms, q, l)
    BY <1>2, <1>3, MethodNotes
  <2> QED BY <2>1, <2>2 DEF Notes
<1>5. DOMAIN cs = 1..n /\ \A j \in 1..n : cs[j] # MakesIt => cs[j] \in Decorators
  <2>1. cs \in Seq(Decorators \cup {MakesIt})
    BY <1>1, DecoratorsAssumption
  <2> QED BY <1>1, <2>1
<1>6. \A j \in q..l : ms[j] \in Decorators
  BY <1>2, MethodNotes
<1>7. \A d \in Decorators : d.kind \in Kinds /\ d # MakesIt
  BY DecoratorsAssumption
<1>8. WrittenFor(m, i, UnderRoute(m)) =
        {Layer("middleware", "module", made[j]) : j \in ToSet(Configuring(i))}
          \cup {Layer(d.kind, "controller", d.name) : d \in ToSet(cs) \ {MakesIt}}
          \cup {Layer(d.kind, "route", d.name) : d \in {ms[k] : k \in q..l}}
  BY <1>1, <1>2, Zenon DEF WrittenFor, UnderRoute, Class
<1>9. \A z : z \in {Layer("middleware", "module", made[j]) : j \in ToSet(Configuring(i))}
               <=> \E y \in M : z = Layer("middleware", "module", y)
  OBVIOUS
<1>10. \A z : z \in {Layer(d.kind, "controller", d.name) : d \in ToSet(cs) \ {MakesIt}}
               <=> \E k \in Kinds : \E y \in ToSet(oc[k]) : z = Layer(k, "controller", y)
  <2>1. \A d : d \in ToSet(cs) \ {MakesIt} <=> \E j \in 1..n : d = cs[j] /\ cs[j] # MakesIt
    BY <1>5 DEF ToSet
  <2>2. ASSUME NEW d, d \in ToSet(cs) \ {MakesIt}
        PROVE  \E k \in Kinds : \E y \in ToSet(oc[k]) : Layer(d.kind, "controller", d.name) = Layer(k, "controller", y)
    <3>1. PICK j \in 1..n : d = cs[j] /\ cs[j] # MakesIt
      BY <2>1, <2>2
    <3>2. d.kind \in Kinds
      BY <1>5, <1>7, <3>1
    <3>3. d.name \in ToSet(oc[d.kind])
      BY <1>4, <3>1, <3>2
    <3> QED BY <3>2, <3>3
  <2>3. ASSUME NEW k \in Kinds, NEW y \in ToSet(oc[k])
        PROVE  \E d \in ToSet(cs) \ {MakesIt} : Layer(k, "controller", y) = Layer(d.kind, "controller", d.name)
    <3>1. PICK j \in 1..n : cs[j] # MakesIt /\ cs[j].kind = k /\ y = cs[j].name
      BY <1>4
    <3> QED BY <2>1, <3>1
  <2> QED BY <2>2, <2>3
<1>11. \A z : z \in {Layer(d.kind, "route", d.name) : d \in {ms[k] : k \in q..l}}
               <=> \E k \in Kinds : \E y \in ToSet(om[k]) : z = Layer(k, "route", y)
  <2>2. ASSUME NEW j \in q..l
        PROVE  \E k \in Kinds : \E y \in ToSet(om[k]) : Layer(ms[j].kind, "route", ms[j].name) = Layer(k, "route", y)
    <3>1. ms[j] # MakesIt /\ ms[j].kind \in Kinds
      BY <1>6, <1>7
    <3>2. ms[j].name \in ToSet(om[ms[j].kind])
      BY <1>4, <3>1
    <3> QED BY <3>1, <3>2
  <2>3. ASSUME NEW k \in Kinds, NEW y \in ToSet(om[k])
        PROVE  \E j \in q..l : Layer(k, "route", y) = Layer(ms[j].kind, "route", ms[j].name)
    <3>1. PICK j \in q..l : ms[j] # MakesIt /\ ms[j].kind = k /\ y = ms[j].name
      BY <1>4
    <3> QED BY <3>1
  <2> QED BY <2>2, <2>3
<1>12. \A z : z \in WrittenFor(m, i, UnderRoute(m)) <=> Written(z, M, oc, om)
  <2>1. PICK A, B, C : /\ A = {Layer("middleware", "module", made[j]) : j \in ToSet(Configuring(i))}
                       /\ B = {Layer(d.kind, "controller", d.name) : d \in ToSet(cs) \ {MakesIt}}
                       /\ C = {Layer(d.kind, "route", d.name) : d \in {ms[k] : k \in q..l}}
    OBVIOUS
  <2>2. \A z : z \in WrittenFor(m, i, UnderRoute(m)) <=> z \in A \/ z \in B \/ z \in C
    BY <1>8, <2>1
  <2> QED BY <1>9, <1>10, <1>11, <2>1, <2>2, Zenon DEF Written
<1> QED BY <1>3, <1>12, Zenon

\* What stands under the route's own decorator is of the method.
LEMMA UnderIsOfMethod ==
  ASSUME program \in Programs, NEW m \in ModuleClasses, NEW i
  PROVE  WrittenFor(m, i, UnderRoute(m)) \subseteq WrittenFor(m, i, OfMethod(m))
<1>1. PICK ms, q, l : ms = program.onMethod[m] /\ l = Len(ms) /\ q = RouteMark(m) + 1
  OBVIOUS
<1>2. \A j \in q..l : ms[j] \in Decorators
  BY <1>1, MethodNotes
<1>3. UnderRoute(m) \subseteq OfMethod(m)
  <2> SUFFICES ASSUME NEW j \in q..l PROVE ms[j] \in ToSet(ms) \ {MakesIt}
    BY <1>1, Zenon DEF UnderRoute, OfMethod
  <2>1. MakesIt \notin Decorators
    BY DecoratorsAssumption
  <2>2. j \in DOMAIN ms
    BY <1>1, MethodNotes
  <2> QED BY <1>2, <2>1, <2>2 DEF ToSet
<1>4. \A S, T : S \subseteq T => {Layer(d.kind, "route", d.name) : d \in S} \subseteq {Layer(d.kind, "route", d.name) : d \in T}
  OBVIOUS
<1>5. PICK A, C : \A S : WrittenFor(m, i, S) = A \cup C \cup {Layer(d.kind, "route", d.name) : d \in S}
  BY Zenon DEF WrittenFor
<1> QED BY <1>3, <1>4, <1>5

\* A route is as it was written when start() makes it.
LEMMA RouteIsAsWritten ==
  ASSUME Shape, NEW a \in AppIds, root[a] \in Ids, NEW D, Reached(D, root[a]),
         NEW p \in Paths(a), p \notin program.reserved
  PROVE  AsWritten(RouteAt(a, p), HomesIn(D, RouteAt(a, p).controller))
<1>0. PICK r : r = RouteAt(a, p)
  OBVIOUS
<1>1. PICK P \in Seq(Ids) : P = Places(a) /\ ToSet(P) = D
  <2>1. Places(a) \in Seq(Ids) /\ ToSet(Places(a)) = D
    BY PlacesAre, Zenon
  <2> QED BY <2>1, Zenon
<1>2. PICK cs : cs = Controllers(a)
  OBVIOUS
<1>3. DOMAIN cs = DOMAIN P /\ \A k \in DOMAIN P : cs[k] = made[P[k]]
  BY <1>1, <1>2 DEF Controllers, Class
<1>4. PICK takers : takers = {k \in DOMAIN cs : FullPath(a, cs[k]) = p}
  OBVIOUS
<1>5. takers # {}
  <2>1. PICK m0 \in ToSet(cs) : p = FullPath(a, m0)
    BY <1>2 DEF Paths
  <2>2. PICK k \in DOMAIN cs : m0 = cs[k]
    BY DEF ToSet
  <2> QED BY <1>4, <2>1, <2>2
<1>6. PICK c \in DOMAIN P : c = Max(takers)
  <2>1. DOMAIN P = 1..Len(P) /\ Len(P) \in Nat
    BY <1>1
  <2>2. takers \subseteq 1..Len(P)
    BY <1>3, <1>4, <2>1
  <2>3. Max(takers) \in takers
    BY <1>5, <2>1, <2>2, GreatestIs
  <2> QED BY <2>1, <2>2, <2>3
<1>7. PICK m : m = made[P[c]]
  OBVIOUS
<1>8. m \in ModuleClasses /\ program \in Programs /\ root[a] \in Nat
  <2>1. P[c] \in Ids
    BY <1>6
  <2> QED BY <1>7, <2>1 DEF Shape, TreeTypeOK, Ids
<1>9. r = [controller |-> m, by |-> Owner(a, m), layers |-> Merged(a, m)]
  <2>1. m = cs[Max(takers)]
    BY <1>3, <1>6, <1>7
  <2> QED BY <1>0, <1>2, <1>4, <2>1, Zenon DEF RouteAt
<1>10. PICK homes : homes = HomesIn(D, m)
  OBVIOUS
<1>11. PICK mm : mm = ModuleMiddleware(a, m)
  OBVIOUS
<1>12. Owner(a, m) \in homes /\ \E i \in homes : Chosen(a, m, i, homes)
  <2>1. /\ Places(a) \in Seq(Ids) /\ ToSet(Places(a)) = D /\ c \in DOMAIN Places(a)
        /\ made[Places(a)[c]] = m
    BY <1>1, <1>6, <1>7
  <2> QED BY <1>10, <2>1, ModuleMiddlewareIs
<1>13. PICK i \in homes :
         /\ i = Owner(a, m) \/ Configuring(Owner(a, m)) = <<>>
         /\ Configuring(i) = <<>> => \A j \in homes : Configuring(j) = <<>>
         /\ mm \in Seq(ModuleClasses)
         /\ ToSet(mm) = {made[j] : j \in ToSet(Configuring(i))}
  BY <1>11, <1>12, Zenon DEF Chosen
<1>14. PICK oc, om : oc = OnClass(m) /\ om = OnMethod(m) /\ oc \in Noted /\ om \in Noted
  BY <1>8, ClassNotes, MethodNotes DEF Notes
<1>15. PICK ls : ls = Merged(a, m)
  OBVIOUS
<1>16. PICK M : M = ToSet(mm)
  OBVIOUS
<1>17. \A k \in Kinds : \E X \in SUBSET Items("application", Nat) :
         Ranked(ls[k], 1, 4, X \cup (IF k = "middleware" THEN Items("module", M) ELSE {})
                  \cup (Items("controller", ToSet(oc[k])) \cup Items("route", ToSet(om[k]))))
  <2> SUFFICES ASSUME NEW k \in Kinds
               PROVE  \E X \in SUBSET Items("application", Nat) :
                        Ranked(ls[k], 1, 4,
                          X \cup (IF k = "middleware" THEN Items("module", M) ELSE {})
                            \cup (Items("controller", ToSet(oc[k])) \cup Items("route", ToSet(om[k]))))
    OBVIOUS
  <2>1. \E X \in SUBSET Items("application", Nat) :
          Ranked(Merged(a, m)[k], 1, 4,
            X \cup (IF k = "middleware" THEN Items("module", ToSet(mm)) ELSE {})
              \cup (Items("controller", ToSet(oc[k])) \cup Items("route", ToSet(om[k]))))
    BY <1>8, <1>11, <1>13, <1>14, MergedIs, Zenon
  <2> QED BY <1>15, <1>16, <2>1, Zenon
<1>18. r.controller = m /\ r.by = Owner(a, m) /\ r.layers = ls
  BY <1>9, <1>15
<1>19. \A k \in Kinds : \E X \in SUBSET Items("application", Nat) :
         ToSet(r.layers[k]) = X \cup (IF k = "middleware" THEN Items("module", M) ELSE {})
           \cup (Items("controller", ToSet(oc[k])) \cup Items("route", ToSet(om[k])))
  BY <1>17, <1>18, Zenon DEF Ranked
<1>20. Around(r) = WrittenFor(m, i, UnderRoute(m))
  <2>1. \A z : z \in Around(r) <=> Written(z, M, oc, om)
    BY <1>19, AroundIs
  <2>2. \A z : z \in WrittenFor(m, i, UnderRoute(m)) <=> Written(z, M, OnClass(m), OnMethod(m))
    <3>1. M = {made[j] : j \in ToSet(Configuring(i))}
      BY <1>13, <1>16
    <3> QED BY <1>8, <3>1, WrittenIs
  <2>3. \A z : z \in WrittenFor(m, i, UnderRoute(m)) <=> Written(z, M, oc, om)
    BY <1>14, <2>2, Zenon
  <2> QED BY <2>1, <2>3
<1>21. \A k \in Kinds : \A x, y \in DOMAIN r.layers[k] :
         x < y => Rank[r.layers[k][x].level] <= Rank[r.layers[k][y].level]
  BY <1>17, <1>18, Zenon DEF Ranked
<1>22. WrittenFor(m, i, UnderRoute(m)) \subseteq Around(r) /\ Around(r) \subseteq WrittenFor(m, i, OfMethod(m))
  BY <1>8, <1>20, UnderIsOfMethod
<1>23. AsWritten(r, homes)
  BY <1>12, <1>13, <1>18, <1>21, <1>22, Zenon DEF AsWritten
<1> QED BY <1>0, <1>10, <1>18, <1>23, Zenon

LEMMA CreateRoutesTable ==
  ASSUME TreeInv, TableInv, NEW a \in AppIds, CreateRoutes(a)
  PROVE  TableInv'
<1>1. /\ frames = <<>> /\ phase[a] = "created"
      /\ UNCHANGED <<program, frames, made, children, parents, root>>
      /\ \/ phase' = [phase EXCEPT ![a] = "up"]
         \/ phase' = [phase EXCEPT ![a] = "failed"]
      /\ \/ table' = [table EXCEPT ![a] = [p \in Paths(a) |-> RouteAt(a, p)]]
         \/ table' = table
  BY DEF CreateRoutes, modules
<1>2. phase \in [AppIds -> {"off", "making", "setup", "created", "up", "failed"}]
      /\ Shape /\ root[a] \in Ids
  BY <1>1 DEF TreeInv, Shape, TreeTypeOK
<1>3. Grown
  <2>1. \A b \in AppIds : phase[b] # "off" => phase'[b] # "off"
    BY <1>1, <1>2
  <2> QED BY <1>1, <2>1, OthersGrow
<1>4. CASE table' = table
  BY <1>3, <1>4, TableKept
<1>5. CASE table' = [table EXCEPT ![a] = [p \in Paths(a) |-> RouteAt(a, p)]]
  <2>1. PICK new : new = [p \in Paths(a) |-> RouteAt(a, p)]
    OBVIOUS
  <2>2. /\ table' = [table EXCEPT ![a] = new] /\ DOMAIN table = AppIds
        /\ table = [b \in DOMAIN table |-> table[b]]
    BY <1>5, <2>1 DEF TableInv
  <2>3. /\ DOMAIN table' = AppIds /\ table' = [b \in DOMAIN table' |-> table'[b]]
        /\ table'[a] = new /\ \A b \in AppIds : b # a => table'[b] = table[b]
    BY <2>2
  <2>4. AppIds' = AppIds
    BY <1>1 DEF AppIds
  <2>5. ASSUME NEW b \in AppIds, DOMAIN table'[b] # {}
        PROVE  phase'[b] # "off" /\ \E D : Reached(D, root[b])' /\ RoutesOf(table[b], D)'
    <3>1. PICK r, routes : r = root[b] /\ routes = table'[b]
      OBVIOUS
    <3>2. phase[b] # "off" /\ \E D : Reached(D, r) /\ RoutesOf(routes, D)
      <4>1. CASE b # a
        <5>1. routes = table[b]
          BY <2>3, <3>1, <4>1
        <5> QED BY <2>5, <3>1, <5>1 DEF TableInv
      <4>2. CASE b = a
        <5>1. PICK D : Reached(D, root[a])
          BY <1>1, <1>2, TreeReached
        <5>2. ASSUME NEW p \in DOMAIN new, new[p] # FrameworkRoute
              PROVE  AsWritten(new[p], HomesIn(D, new[p].controller))
          <6>1. p \in Paths(a) /\ new[p] = RouteAt(a, p)
            BY <2>1
          <6>2. p \notin program.reserved
            BY <5>2, <6>1 DEF RouteAt
          <6>3. AsWritten(RouteAt(a, p), HomesIn(D, RouteAt(a, p).controller))
            BY <1>2, <5>1, <6>1, <6>2, RouteIsAsWritten
          <6> QED BY <6>1, <6>3, Zenon
        <5>3. RoutesOf(new, D)
          BY <5>2, Zenon DEF RoutesOf
        <5> QED BY <1>1, <2>3, <3>1, <4>2, <5>1, <5>3
      <4> QED BY <4>1, <4>2
    <3>3. PICK D : Reached(D, r) /\ RoutesOf(routes, D)
      BY <3>2
    <3>4. phase'[b] # "off" /\ root'[b] = r /\ Reached(D, r)' /\ RoutesOf(routes, D)'
      BY <1>3, <3>1, <3>2, <3>3, RoutesKept
    <3> QED BY <3>1, <3>4
  <2> QED BY <2>3, <2>4, <2>5 DEF TableInv
<1> QED BY <1>1, <1>4, <1>5

LEMMA StepTableInv == TreeInv /\ TableInv /\ [RoutingNext]_routingVars => TableInv'
<1> SUFFICES ASSUME TreeInv, TableInv, [RoutingNext]_routingVars PROVE TableInv'
  OBVIOUS
<1>1. CASE UNCHANGED routingVars
  <2>1. UNCHANGED <<program, frames, made, children, parents, root, phase, table>>
    BY <1>1 DEF routingVars, allVars, treeVars, modules, apps
  <2>2. Grown
    BY <2>1, OthersGrow
  <2> QED BY <2>1, <2>2, TableKept
<1>2. CASE TreeNext /\ UNCHANGED table
  <2>1. Grown
    BY <1>2, ConstructingGrows, AppsGrow DEF TreeNext
  <2> QED BY <1>2, <2>1, TableKept
<1>3. ASSUME NEW a \in AppIds, CreateRoutes(a) PROVE TableInv'
  BY <1>3, CreateRoutesTable
<1> QED BY <1>1, <1>2, <1>3 DEF RoutingNext

\* A request that reaches a controller goes through what was written for it and nothing
\* else, in the order of the levels, whatever the order of the decorators and wherever
\* the module is imported.
THEOREM RoutesAreAsWritten == RoutingSpec => []RoutesAsWritten
<1>1. RoutingInit => TableInv
  <2> SUFFICES ASSUME RoutingInit PROVE TableInv
    OBVIOUS
  <2>1. table = [a \in AppIds |-> Nothing]
    BY DEF RoutingInit
  <2>2. DOMAIN Nothing = {}
    BY DEF Nothing
  <2> QED BY <2>1, <2>2 DEF TableInv
<1>2. TreeInv /\ TableInv => RoutesAsWritten
  BY TableIsAsWritten
<1> QED BY <1>1, <1>2, InitTreeInv, StepTreeInv, StepTableInv, PTL DEF RoutingSpec
=============================================================================
