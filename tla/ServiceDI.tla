------------------------------- MODULE ServiceDI -------------------------------
(***************************************************************************)
(* OneBunModule.createServicesWithDI of packages/core/src/module/module.ts: *)
(* how one module constructs its providers.                                 *)
(*                                                                          *)
(* There is no topological sort: the providers wait in a queue, the first   *)
(* one is tried, and one whose dependency has not been constructed yet goes *)
(* to the back.  A budget of twice the number of providers bounds the       *)
(* attempts; what is left when it is spent is called a cycle.               *)
(*                                                                          *)
(* Provider p is the p-th entry of the module's providers array.            *)
(***************************************************************************)
EXTENDS Integers, Sequences, FiniteSets

CONSTANTS N,       \* how many providers the module lists
          MaxOdd   \* bound: providers with a non-default `conduct` or `foreign`

ASSUME NAssumption == N \in Nat \ {0}
ASSUME MaxOddAssumption == MaxOdd \in Nat

Providers == 1..N

\* What constructing a provider does: it works, the constructor throws an
\* ordinary error, or the class has no @Service decorator.
Conduct == {"works", "throws", "undecorated"}

\* A constructor parameter whose type is no provider of this module: there is
\* none, an import supplies it, nobody supplies it, or nobody does and @Optional.
Foreign == {"none", "imported", "missing", "optional"}

VARIABLES
  deps,        \* the module's providers each constructor asks for (fixed)
  conduct,     \* (fixed)
  foreign,     \* (fixed)
  pending,     \* pendingProviders
  created,     \* serviceInstances and pendingServiceInits, in insertion order
  iterations,
  outcome      \* running, or how the method returned; none before it is called

vars == <<deps, conduct, foreign, pending, created, iterations, outcome>>

MaxIterations == 2 * N

Created == {created[i] : i \in 1..Len(created)}
Waiting == {pending[i] : i \in 1..Len(pending)}

Traits ==
  {t \in [Providers -> [conduct : Conduct, foreign : Foreign]] :
     Cardinality({p \in Providers : t[p] # [conduct |-> "works", foreign |-> "none"]})
       <= MaxOdd}

Init ==
  /\ \E t \in Traits :
       /\ conduct = [p \in Providers |-> t[p].conduct]
       /\ foreign = [p \in Providers |-> t[p].foreign]
  /\ deps \in [Providers -> SUBSET Providers]
  /\ pending = [p \in Providers |-> p]
  /\ created = <<>>
  /\ iterations = 0
  /\ outcome = "running"

-----------------------------------------------------------------------------
\* The loop takes the first pending provider while the budget lasts.
Attempt(p) ==
  /\ outcome = "running"
  /\ pending # <<>> /\ iterations < MaxIterations
  /\ p = Head(pending)
  /\ iterations' = iterations + 1
  /\ UNCHANGED <<deps, conduct, foreign>>

Unresolved(p) == deps[p] \ Created

\* No @Service decorator: the provider is dropped.
Skip(p) ==
  /\ Attempt(p)
  /\ conduct[p] = "undecorated"
  /\ pending' = Tail(pending)
  /\ UNCHANGED <<created, outcome>>

\* Mutant: a deferred provider is tried again at once.
DeferToFront(p) ==
  /\ Attempt(p)
  /\ conduct[p] # "undecorated"
  /\ Unresolved(p) # {}
  /\ UNCHANGED <<pending, created, outcome>>

\* A provider of this module is not constructed yet, whether the parameter is
\* optional or not: back to the end of the queue.
Defer(p) ==
  /\ Attempt(p)
  /\ conduct[p] # "undecorated"
  /\ Unresolved(p) # {}
  /\ pending' = Append(Tail(pending), p)
  /\ UNCHANGED <<created, outcome>>

\* A required type nobody provides: DependencyResolutionError.  Parameters are
\* resolved in order, so this one may come before an unresolved provider.
Unresolvable(p) ==
  /\ Attempt(p)
  /\ conduct[p] # "undecorated"
  /\ foreign[p] = "missing"
  /\ pending' = Tail(pending)
  /\ outcome' = "unresolvable"
  /\ UNCHANGED created

Resolved(p) == Unresolved(p) = {} /\ foreign[p] # "missing"

\* The constructor throws: the error is logged and the provider dropped.
Fail(p) ==
  /\ Attempt(p)
  /\ conduct[p] = "throws" /\ Resolved(p)
  /\ pending' = Tail(pending)
  /\ UNCHANGED <<created, outcome>>

Construct(p) ==
  /\ Attempt(p)
  /\ conduct[p] = "works" /\ Resolved(p)
  /\ pending' = Tail(pending)
  /\ created' = Append(created, p)
  /\ UNCHANGED outcome

\* Mutant: what is left over is not looked at.
ReturnAnyway ==
  /\ outcome = "running"
  /\ pending = <<>> \/ iterations >= MaxIterations
  /\ outcome' = "done"
  /\ UNCHANGED <<deps, conduct, foreign, pending, created, iterations>>

\* After the loop: services left in the queue are a CircularDependencyError.
Return ==
  /\ outcome = "running"
  /\ pending = <<>> \/ iterations >= MaxIterations
  /\ outcome' = IF pending = <<>> THEN "done" ELSE "circular"
  /\ UNCHANGED <<deps, conduct, foreign, pending, created, iterations>>

Next ==
  \/ \E p \in Providers : Skip(p)
  \/ \E p \in Providers : Defer(p)
  \/ \E p \in Providers : Unresolvable(p)
  \/ \E p \in Providers : Fail(p)
  \/ \E p \in Providers : Construct(p)
  \/ Return

\* The loop is synchronous: nothing can keep it from its next step.
Spec == Init /\ [][Next]_vars /\ WF_vars(Next)

-----------------------------------------------------------------------------
\* Every variable holds a value of its type; a provider is never both waiting
\* and created, nor waiting twice.
TypeOK ==
  /\ deps \in [Providers -> SUBSET Providers]
  /\ conduct \in [Providers -> Conduct]
  /\ foreign \in [Providers -> Foreign]
  /\ pending \in Seq(Providers) /\ created \in Seq(Providers)
  /\ Len(pending) + Len(created) <= N
  /\ iterations \in 0..MaxIterations
  /\ outcome \in {"none", "running", "done", "circular", "unresolvable"}

\* Services are constructed, and their onModuleInit queued, after every service
\* of the module their constructors ask for, however the array lists them:
\* no constructor, not even one with an optional parameter, sees a hole.
DependenciesFirst ==
  \A i \in 1..Len(created) :
    deps[created[i]] \subseteq {created[k] : k \in 1..(i - 1)}

\* createServicesWithDI returns normally only when every provider was
\* constructed, is no service, or threw in its own constructor; in particular
\* never with a cycle among the providers.
DoneIsComplete ==
  outcome = "done" => \A p \in Providers : conduct[p] = "works" => p \in Created

\* The budget is enough when every service is constructible in two passes over
\* the array: rank counts the passes that start before the provider's own.
TwoPasses ==
  \E rank \in [Providers -> {0, 1}] :
    \A p \in Providers : \A d \in deps[p] :
      rank[d] + (IF d >= p THEN 1 ELSE 0) <= rank[p]

TwoPassesSuffice ==
  (\A p \in Providers : conduct[p] = "works") /\ TwoPasses => outcome # "circular"
=============================================================================
