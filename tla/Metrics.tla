------------------------------- MODULE Metrics -------------------------------
(***************************************************************************)
(* Metrics (packages/metrics/src) in a process of several applications.     *)
(* They share one register of metrics by name and one set of default labels, *)
(* and the decorators of methods find the process's metrics service, the     *)
(* last that was made.  prom-client is modelled from how src/ uses it: it    *)
(* refuses a metric whose name is taken.                                    *)
(*                                                                          *)
(* One method updates a gauge when it has returned (@Gauged), from a value    *)
(* read at once or by a query.  What the gauge measures changes as a call of  *)
(* the method ends.                                                         *)
(***************************************************************************)
EXTENDS Naturals, Sequences, FiniteSets

CONSTANTS Services, \* the options of the metrics services made, one after the other
          MaxLevel, \* bound: of what the gauge measures
          MaxReads  \* bound: queries under way

ASSUME MetricsAssumption ==
  /\ Services \in Seq([prefix : STRING, collects : SUBSET {"gc", "http", "system"}])
  /\ MaxLevel \in Nat /\ MaxReads \in Nat

VARIABLES
  queried,  \* whether the gauge's value is read by a query
  made,     \* how many services there are
  working,  \* those whose constructor did not throw
  current,  \* the one that decorators find, or 0
  register, \* the prefixes and names of the metrics there are
  labels,   \* whose default labels all of them have
  level,    \* what the gauge measures
  gauges,   \* what is shown, by prefix
  reads,    \* what the queries under way have read
  settled   \* the gauge that the last call updated, no other being under way

metricsVars == <<queried, made, working, current, register, labels, level, gauges, reads, settled>>

Prefix(a) == Services[a].prefix
Prefixes == {Prefix(a) : a \in DOMAIN Services}
NoGauge == "none"
Depth == "depth"

MetricsStart ==
  /\ made = 0 /\ working = {} /\ current = 0 /\ labels = 0 /\ register = {}
  /\ level = 0 /\ gauges = [p \in Prefixes |-> 0] /\ reads = <<>> /\ settled = NoGauge
MetricsInit == queried \in BOOLEAN /\ MetricsStart

-----------------------------------------------------------------------------
(* The services.                                                            *)

\* The metrics that a constructor makes before it meets a name that is taken.
Kinds == <<"gc", "http", "system">>
Before(a, i) == {Kinds[j] : j \in 1..i - 1} \cap Services[a].collects
Taken(a) == {i \in DOMAIN Kinds : Kinds[i] \in Services[a].collects /\ <<Prefix(a), Kinds[i]>> \in register}
Makes(a) ==
  {<<Prefix(a), kind>> :
     kind \in IF Taken(a) = {} THEN Services[a].collects
              ELSE Before(a, CHOOSE i \in Taken(a) : \A j \in Taken(a) : i <= j)}

\* The constructor of an application: it goes on without metrics when the service's
\* throws, which by then has replaced the default labels and made some metrics.
MakeMetrics ==
  /\ made < Len(Services) /\ made' = made + 1
  /\ labels' = made' /\ register' = register \cup Makes(made')
  /\ working' = IF Taken(made') = {} THEN working \cup {made'} ELSE working
  /\ current' = IF Taken(made') = {} THEN made' ELSE current
  /\ UNCHANGED <<queried, level, gauges, reads, settled>>

\* createGauge(), once for a name.
CreateGauge ==
  /\ \E a \in working :
       <<Prefix(a), Depth>> \notin register /\ register' = register \cup {<<Prefix(a), Depth>>}
  /\ UNCHANGED <<queried, made, working, current, labels, level, gauges, reads, settled>>

-----------------------------------------------------------------------------
(* @Gauged.                                                                 *)

\* getMetric() of the current service, with its prefix; the update is left out
\* when there is none.
Found == current # 0 /\ <<Prefix(current), Depth>> \in register
Shows(value) == gauges' = IF Found THEN [gauges EXCEPT ![Prefix(current)] = value] ELSE gauges

\* Mutant: the value is read before the method runs.
UpdatesBefore == level
Updates == level'

\* A call ends and leaves another level; one that throws updates nothing.
Returns ==
  /\ level' \in 0..MaxLevel
  /\ IF queried
     THEN Len(reads) < MaxReads /\ reads' = Append(reads, Updates) /\ UNCHANGED gauges
     ELSE Shows(Updates) /\ UNCHANGED reads
  /\ settled' = IF reads = <<>> /\ Found THEN Prefix(current) ELSE NoGauge
  /\ UNCHANGED <<queried, made, working, current, register, labels>>

Throws ==
  /\ level' \in 0..MaxLevel /\ settled' = NoGauge
  /\ UNCHANGED <<queried, made, working, current, register, labels, gauges, reads>>

\* A query's answer, in any order.
WithoutRead(i) == SubSeq(reads, 1, i - 1) \o SubSeq(reads, i + 1, Len(reads))
Answered(i) ==
  /\ Shows(reads[i]) /\ reads' = WithoutRead(i)
  /\ settled' = IF Found /\ settled = Prefix(current) THEN settled ELSE NoGauge
  /\ UNCHANGED <<queried, made, working, current, register, labels, level>>

\* A query fails: the decorator only logs it.
Unanswered(i) ==
  /\ reads' = WithoutRead(i) /\ settled' = NoGauge
  /\ UNCHANGED <<queried, made, working, current, register, labels, level, gauges>>

MetricsNext ==
  \/ MakeMetrics \/ CreateGauge \/ Returns \/ Throws
  \/ \E i \in DOMAIN reads : Answered(i) \/ Unanswered(i)

MetricsSpec == MetricsInit /\ [][MetricsNext]_metricsVars

-----------------------------------------------------------------------------
(* Properties.                                                              *)

\* Types: who is current works, and every gauge shown is one that there is.
MetricsTypeOK ==
  /\ made \in 0..Len(Services) /\ working \subseteq 1..made /\ labels \in 0..made
  /\ register \subseteq Prefixes \X {"gc", "http", "system", Depth}
  /\ level \in 0..MaxLevel /\ \A p \in Prefixes : gauges[p] # 0 => <<p, Depth>> \in register

\* A gauge that @Gauged updates is what it measures whenever no query is under way
\* and the last call has returned while none was: calls that throw, a query that
\* fails, queries that overlap, and a service with another prefix made meanwhile
\* are what may leave it stale (decorators.ts: "Update gauge after method
\* execution").
GaugeFresh == settled # NoGauge /\ reads = <<>> => gauges[settled] = level
=============================================================================
