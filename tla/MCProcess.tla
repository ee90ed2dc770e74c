------------------------------ MODULE MCProcess ------------------------------
(* What an application keeps for a whole process, for TLC: its configuration,  *)
(* its database service, its metrics, its tracing, and its cache with the     *)
(* shared Redis connection, one of them at a time (subject) while the others  *)
(* rest.                                                                     *)
EXTENDS Database, Configuration, Tracing, Metrics, Cache, TLC

VARIABLE subject

\* Callers of the service and a hook, with a file and a server.
MCKindOf == [c \in Connections |-> IF c = "file" THEN "sqlite" ELSE "postgresql"]

\* A schema of one variable, of every type and with or without a default, a need
\* and a range; the ways to load it; and a second application with its own.
MCNumberOf == ("1" :> 1) @@ ("7" :> 7)
Word == {"", "1", "7", "yes", "x,y"}
MCItemsOf == [w \in Word |-> IF w = "" THEN <<>> ELSE IF w = "x,y" THEN <<"x", "y">> ELSE <<w>>]
Default == [number |-> <<"number", 7>>, string |-> <<"string", "x,y">>, boolean |-> <<"boolean", TRUE>>,
            array |-> <<"array", <<"x">>>>]
Schemas ==
  {[type |-> t, default |-> d, required |-> r, min |-> range[1], max |-> range[2], oneOf |-> range[3]] :
     t \in DOMAIN Default, d \in {"none", "some"}, r \in BOOLEAN, range \in {<<0, 9, {}>>, <<1, 1, {"1", "x,y"}>>}}
Settled == {[s EXCEPT !.default = IF @ = "none" THEN Nothing ELSE Default[s.type]] : s \in Schemas}
Plain == [override |-> Absent, envOverridesDotEnv |-> TRUE, loadDotEnv |-> TRUE]
LoadOptions == [override : {Absent, "1"}, envOverridesDotEnv : BOOLEAN, loadDotEnv : BOOLEAN]
Optional(s) == ~s.required /\ s.default = Nothing /\ s.min = 0
Own == [schema |-> CHOOSE s \in Settled : s.type = "number" /\ Optional(s)] @@ [Plain EXCEPT !.override = "7"]
MCPlans ==
  {<<[schema |-> s] @@ Plain>> : s \in Settled}
  \cup {<<[schema |-> s] @@ o>> : s \in {s \in Settled : Optional(s)}, o \in LoadOptions}
  \cup {<<[schema |-> s] @@ Plain, Own>> : s \in {s \in Settled : Optional(s) /\ s.type = "string"}}
MCWords == {Absent} \cup Word
MCFiles == {<<>>, <<"1", "7">>, Unreadable}

\* A method that its decorator traces, one that auto-trace does, one that both do
\* and one that nothing does.
Method ==
  [async |-> TRUE, decorated |-> TRUE, covered |-> FALSE, noTrace |-> FALSE, excluded |-> FALSE,
   traceAll |-> FALSE, classNoTrace |-> FALSE, matched |-> TRUE, allClasses |-> FALSE, asyncOnly |-> TRUE]
MCMethods ==
  {Method, [Method EXCEPT !.allClasses = TRUE, !.decorated = FALSE],
   [Method EXCEPT !.allClasses = TRUE, !.covered = TRUE, !.asyncOnly = FALSE],
   [Method EXCEPT !.decorated = FALSE]}

\* Two services of one prefix and one of another.
MCServices ==
  <<[prefix |-> "p", collects |-> {"http"}], [prefix |-> "p", collects |-> {"gc", "http", "system"}],
    [prefix |-> "q", collects |-> {"http"}]>>

One(S) == CHOOSE x \in S : TRUE
DatabaseRests == setup = One(Settings)
ConfigurationRests == plan = One(Plans) /\ word = One(Words) /\ file = One(Files)
TracingRests == method = One(Methods) /\ option = One(Options)
MetricsRest == queried = One(BOOLEAN)
CacheRests == backend = "memory" /\ ttl = 0
Given ==
  \/ /\ subject = "database" /\ setup \in Settings
     /\ ConfigurationRests /\ TracingRests /\ MetricsRest /\ CacheRests
  \/ /\ subject = "configuration" /\ plan \in Plans /\ word \in Words /\ file \in Files
     /\ DatabaseRests /\ TracingRests /\ MetricsRest /\ CacheRests
  \/ /\ subject = "tracing" /\ method \in Methods /\ option \in Options
     /\ DatabaseRests /\ ConfigurationRests /\ MetricsRest /\ CacheRests
  \/ /\ subject = "metrics" /\ queried \in BOOLEAN
     /\ DatabaseRests /\ ConfigurationRests /\ TracingRests /\ CacheRests
  \/ /\ subject = "cache" /\ backend \in {"memory", "own", "shared"} /\ ttl \in {0, 1}
     /\ DatabaseRests /\ ConfigurationRests /\ TracingRests /\ MetricsRest

ProcessInit ==
  Given /\ DatabaseStart /\ ConfigurationStart /\ TracingStart /\ MetricsStart /\ Init

ProcessNext ==
  \/ /\ subject = "database" /\ DatabaseNext
     /\ UNCHANGED <<subject, configurationVars, tracingVars, metricsVars, vars>>
  \/ /\ subject = "configuration" /\ ConfigurationNext
     /\ UNCHANGED <<subject, databaseVars, tracingVars, metricsVars, vars>>
  \/ /\ subject = "tracing" /\ TracingNext
     /\ UNCHANGED <<subject, databaseVars, configurationVars, metricsVars, vars>>
  \/ /\ subject = "metrics" /\ MetricsNext
     /\ UNCHANGED <<subject, databaseVars, configurationVars, tracingVars, vars>>
  \/ /\ subject = "cache" /\ Next
     /\ UNCHANGED <<subject, databaseVars, configurationVars, tracingVars, metricsVars>>

ProcessSpec ==
  /\ ProcessInit
  /\ [][ProcessNext]_<<subject, databaseVars, configurationVars, tracingVars, metricsVars, vars>>
=============================================================================
