----------------------------- MODULE ProcessProofs -----------------------------
(***************************************************************************)
(* Proofs about what an application keeps for a whole process: the metrics, *)
(* the configuration, the spans and the database service.                   *)
(***************************************************************************)
EXTENDS Database, Configuration, Tracing, Metrics, SequenceTheorems, TLAPS

-----------------------------------------------------------------------------
(* Metrics.  The last call has updated its gauge, or its query is the only   *)
(* one under way and has read what the gauge measures.                       *)

Updated ==
  settled # NoGauge =>
    /\ reads = <<>> => gauges[settled] = level
    /\ reads # <<>> => reads = <<level>>

MetricsInv ==
  /\ made \in 0..Len(Services) /\ working \subseteq 1..made
  /\ current \in working \cup {0} /\ labels \in 0..made
  /\ register \subseteq Prefixes \X {"gc", "http", "system", Depth}
  /\ level \in 0..MaxLevel /\ reads \in Seq(0..MaxLevel)
  /\ gauges \in [Prefixes -> 0..MaxLevel]
  /\ \A p \in Prefixes : gauges[p] # 0 => <<p, Depth>> \in register
  /\ settled = NoGauge \/ settled \in Prefixes
  /\ Updated

LEMMA InitMetricsInv == MetricsInit => MetricsInv
<1> SUFFICES ASSUME MetricsInit PROVE MetricsInv
  OBVIOUS
<1>1. Len(Services) \in Nat /\ MaxLevel \in Nat
  BY MetricsAssumption
<1>2. reads \in Seq(0..MaxLevel)
  BY DEF MetricsInit, MetricsStart
<1> QED BY <1>1, <1>2 DEF MetricsInit, MetricsStart, MetricsInv, Updated

\* What a gauge shows after an update that finds it, or does not.
LEMMA ShowsEffect ==
  ASSUME MetricsInv, NEW shown \in 0..MaxLevel, Shows(shown)
  PROVE  /\ gauges' \in [Prefixes -> 0..MaxLevel]
         /\ \A p \in Prefixes : gauges'[p] # 0 => <<p, Depth>> \in register
         /\ Found => Prefix(current) \in Prefixes /\ gauges'[Prefix(current)] = shown
<1>1. Found => Prefix(current) \in Prefixes
  <2> SUFFICES ASSUME Found PROVE current \in DOMAIN Services
    BY DEF Prefixes
  <2>1. Services \in Seq([prefix : STRING, collects : SUBSET {"gc", "http", "system"}])
    BY MetricsAssumption
  <2>2. DOMAIN Services = 1..Len(Services) /\ Len(Services) \in Nat
    BY <2>1
  <2> QED BY <2>2 DEF MetricsInv, Found
<1>2. MaxLevel \in Nat
  BY MetricsAssumption
<1>3. CASE Found
  BY <1>1, <1>2, <1>3 DEF MetricsInv, Shows, Found
<1>4. CASE ~Found
  BY <1>4 DEF MetricsInv, Shows
<1> QED BY <1>1, <1>3, <1>4

LEMMA StepMetricsInv == MetricsInv /\ [MetricsNext]_metricsVars => MetricsInv'
<1> SUFFICES ASSUME MetricsInv, [MetricsNext]_metricsVars PROVE MetricsInv'
  OBVIOUS
<1>1. /\ Services \in Seq([prefix : STRING, collects : SUBSET {"gc", "http", "system"}])
      /\ MaxLevel \in Nat /\ MaxReads \in Nat
  BY MetricsAssumption
<1>2. Len(Services) \in Nat /\ DOMAIN Services = 1..Len(Services)
  BY <1>1
<1>a. ASSUME NEW n \in 1..Len(Services)
      PROVE  /\ Services[n].collects \subseteq {"gc", "http", "system"}
             /\ Prefix(n) \in Prefixes
  <2>1. Services[n] \in [prefix : STRING, collects : SUBSET {"gc", "http", "system"}]
    BY <1>1, ElementOfSeq
  <2> QED BY <1>2, <2>1 DEF Prefixes
<1>b. /\ made \in 0..Len(Services) /\ working \subseteq 1..made
      /\ current \in working \cup {0} /\ reads \in Seq(0..MaxLevel)
  BY DEF MetricsInv
<1>d. /\ DOMAIN reads = 1..Len(reads) /\ Len(reads) \in Nat
      /\ \A i \in 1..Len(reads) : reads[i] \in 0..MaxLevel
  BY <1>b, LenProperties, ElementOfSeq
<1>c. working \subseteq 1..Len(Services)
  BY <1>2, <1>b
<1>3. CASE MakeMetrics
  <2>n. PICK n : n = made'
    OBVIOUS
  <2>1. n = made + 1 /\ n \in 1..Len(Services)
    BY <1>2, <1>3, <1>b, <2>n DEF MakeMetrics
  <2>3. Makes(n) \subseteq Prefixes \X {"gc", "http", "system", Depth}
    <3>1. Before(n, CHOOSE i \in Taken(n) : \A j \in Taken(n) : i <= j)
            \subseteq Services[n].collects
      BY DEF Before
    <3> QED BY <1>a, <2>1, <3>1 DEF Makes
  <2>4. /\ labels' = n /\ register' = register \cup Makes(n)
        /\ working' = IF Taken(n) = {} THEN working \cup {n} ELSE working
        /\ current' = IF Taken(n) = {} THEN n ELSE current
    BY <1>3, <2>n, Zenon DEF MakeMetrics
  <2>5. working' \subseteq 1..n /\ current' \in working' \cup {0} /\ labels' \in 0..n
    <3>1. CASE Taken(n) = {}
      <4>1. working' = working \cup {n} /\ current' = n
        BY <2>4, <3>1
      <4> QED BY <1>b, <2>1, <2>4, <4>1
    <3>2. CASE Taken(n) # {}
      <4>1. working' = working /\ current' = current
        BY <2>4, <3>2
      <4> QED BY <1>b, <2>1, <2>4, <4>1
    <3> QED BY <3>1, <3>2
  <2>6. register' \subseteq Prefixes \X {"gc", "http", "system", Depth}
        /\ register \subseteq register'
    BY <2>3, <2>4 DEF MetricsInv
  <2> QED BY <1>3, <2>n, <2>1, <2>5, <2>6 DEF MakeMetrics, MetricsInv, Updated
<1>4. CASE CreateGauge
  <2>1. PICK a \in working : register' = register \cup {<<Prefix(a), Depth>>}
    BY <1>4 DEF CreateGauge
  <2>2. Prefix(a) \in Prefixes
    BY <1>a, <1>c
  <2> QED BY <1>4, <2>1, <2>2 DEF CreateGauge, MetricsInv, Updated
<1>5. CASE Returns
  <2>1. level' \in 0..MaxLevel /\ Updates = level'
        /\ UNCHANGED <<queried, made, working, current, register, labels>>
    BY <1>5 DEF Returns, Updates
  <2>2. CASE queried
    <3>1. reads' = Append(reads, level') /\ gauges' = gauges
      BY <1>5, <2>1, <2>2 DEF Returns
    <3>2. reads' \in Seq(0..MaxLevel) /\ reads' # <<>>
          /\ (reads = <<>> => reads' = <<level'>>)
      <4>1. PICK v \in 0..MaxLevel : v = level'
        BY <2>1
      <4>2. Append(reads, v) \in Seq(0..MaxLevel) /\ Append(reads, v) # <<>>
        BY <1>b
      <4>3. reads = <<>> => Append(reads, v) = <<v>>
        OBVIOUS
      <4> QED BY <3>1, <4>1, <4>2, <4>3
    <3>3. settled' # NoGauge => reads = <<>> /\ Found /\ settled' = Prefix(current)
      BY <1>5 DEF Returns
    <3>4. Found => Prefix(current) \in Prefixes
      BY <1>a, <1>b, <1>c DEF Found
    <3> QED BY <2>1, <3>1, <3>2, <3>3, <3>4 DEF MetricsInv, Updated
  <2>3. CASE ~queried
    <3>1. Shows(level') /\ reads' = reads
      BY <1>5, <2>1, <2>3 DEF Returns
    <3>2. settled' # NoGauge => reads = <<>> /\ Found /\ settled' = Prefix(current)
      BY <1>5 DEF Returns
    <3> QED BY <2>1, <3>1, <3>2, ShowsEffect DEF MetricsInv, Updated
  <2> QED BY <2>2, <2>3
<1>6. CASE Throws
  BY <1>6 DEF Throws, MetricsInv, Updated
<1>7. ASSUME NEW i \in DOMAIN reads PROVE WithoutRead(i) \in Seq(0..MaxLevel)
  <2>1. SubSeq(reads, 1, i - 1) \in Seq(0..MaxLevel)
    <3>1. \A j \in 1..i - 1 : reads[j] \in 0..MaxLevel
      BY <1>d
    <3> QED BY <1>d, <3>1, SubSeqProperties
  <2>2. SubSeq(reads, i + 1, Len(reads)) \in Seq(0..MaxLevel)
    <3>1. \A j \in i + 1..Len(reads) : reads[j] \in 0..MaxLevel
      BY <1>d
    <3> QED BY <1>d, <3>1, SubSeqProperties
  <2> QED BY <2>1, <2>2, ConcatProperties DEF WithoutRead
<1>8. ASSUME NEW i \in DOMAIN reads, Answered(i) PROVE MetricsInv'
  <2>1. reads[i] \in 0..MaxLevel /\ reads # <<>>
    BY <1>d
  <2>2. Shows(reads[i]) /\ reads' = WithoutRead(i) /\ level' = level
        /\ UNCHANGED <<made, working, current, register, labels>>
        /\ (settled' # NoGauge => Found /\ settled = Prefix(current) /\ settled' = settled)
    BY <1>8 DEF Answered
  <2>3. settled' # NoGauge => reads = <<level>> /\ i = 1 /\ reads' = <<>>
    <3>1. settled' # NoGauge => reads = <<level>>
      BY <2>1, <2>2 DEF MetricsInv, Updated
    <3>2. reads = <<level>> => i = 1 /\ WithoutRead(i) = <<>>
      BY DEF WithoutRead
    <3> QED BY <2>2, <3>1, <3>2
  <2>4. settled' # NoGauge => gauges'[settled'] = level'
    BY <2>1, <2>2, <2>3, ShowsEffect
  <2> QED BY <1>7, <2>1, <2>2, <2>3, <2>4, ShowsEffect DEF MetricsInv, Updated
<1>9. ASSUME NEW i \in DOMAIN reads, Unanswered(i) PROVE MetricsInv'
  BY <1>7, <1>9 DEF Unanswered, MetricsInv, Updated
<1>10. CASE UNCHANGED metricsVars
  BY <1>10 DEF metricsVars, MetricsInv, Updated
<1> QED BY <1>3, <1>4, <1>5, <1>6, <1>8, <1>9, <1>10 DEF MetricsNext

\* A gauge that the last call updated shows what it measures.
THEOREM GaugesAreFresh == MetricsSpec => []GaugeFresh
<1>1. MetricsInv => GaugeFresh
  BY DEF MetricsInv, Updated, GaugeFresh
<1> QED BY <1>1, InitMetricsInv, StepMetricsInv, PTL DEF MetricsSpec

THEOREM MetricsTyped == MetricsSpec => []MetricsTypeOK
<1>1. MetricsInv => MetricsTypeOK
  BY DEF MetricsInv, MetricsTypeOK
<1> QED BY <1>1, InitMetricsInv, StepMetricsInv, PTL DEF MetricsSpec

-----------------------------------------------------------------------------
(* Configuration.  While the file is not edited, what every load has read of *)
(* it is what it contains, so what the proxy and getConfig() hold is what    *)
(* they are made of now.                                                    *)

ConfigurationInv ==
  /\ DOMAIN plan \subseteq Nat \ {0} /\ edits \in Nat
  /\ owner = 0 => value = Nothing /\ loads = {} /\ \A a \in AppIds : state[a] = "planned"
  /\ \A l \in loads : l = [for |-> l.for, lines |-> l.lines]
  /\ edits = 0 =>
       /\ \A l \in loads : l.lines # Nothing => l.lines = file
       /\ value # Nothing => value = Loaded(plan[owner], word, file)
       /\ early # Nothing => early = Loaded(plan[1], word, file)

LEMMA InitConfigurationInv == ConfigurationInit => ConfigurationInv
<1> SUFFICES ASSUME ConfigurationInit PROVE ConfigurationInv
  OBVIOUS
<1>1. plan \in Plans
  BY DEF ConfigurationInit
<1>2. DOMAIN plan \subseteq Nat \ {0}
  BY <1>1, PlansAssumption
<1> QED BY <1>2 DEF ConfigurationInit, ConfigurationStart, ConfigurationInv, AppIds

LEMMA StepConfigurationInv ==
  ConfigurationInv /\ [ConfigurationNext]_configurationVars => ConfigurationInv'
<1> SUFFICES ASSUME ConfigurationInv, [ConfigurationNext]_configurationVars
             PROVE  ConfigurationInv'
  OBVIOUS
<1>1. CASE Edit
  BY <1>1 DEF Edit, ConfigurationInv, given, AppIds
<1>2. ASSUME NEW a \in AppIds, Construct(a) PROVE ConfigurationInv'
  <2>1. a # 0
    BY DEF ConfigurationInv, AppIds
  <2> QED BY <1>2, <2>1 DEF Construct, Begun, ConfigurationInv, given, AppIds
<1>3. ASSUME NEW a \in AppIds, Start(a) PROVE ConfigurationInv'
  BY <1>3 DEF Start, Begun, ConfigurationInv, given, AppIds
<1>4. ASSUME NEW l \in loads, ReadFile(l) PROVE ConfigurationInv'
  <2>1. PICK r : r = [for |-> l.for, lines |-> file]
    OBVIOUS
  <2>2. r = [l EXCEPT !.lines = file]
    BY <2>1 DEF ConfigurationInv
  <2>3. loads' = (loads \ {l}) \cup {r} /\ owner # 0
    BY <1>4, <2>2 DEF ReadFile, ConfigurationInv
  <2>4. r = [for |-> r.for, lines |-> r.lines] /\ r.lines = file
    BY <2>1
  <2>5. UNCHANGED <<given, state, file, edits, owner, value, early>>
    BY <1>4 DEF ReadFile
  <2> QED BY <2>3, <2>4, <2>5 DEF ConfigurationInv, given, AppIds
<1>5. ASSUME NEW l \in loads, Finish(l) PROVE ConfigurationInv'
  <2>1. /\ loads' = loads \ {l} /\ owner # 0 /\ l.lines # Nothing
        /\ UNCHANGED <<plan, word, file, edits, owner, early>>
    BY <1>5 DEF Finish, ConfigurationInv, given, AppIds
  <2>2. PICK v : v = Loaded(plan[owner], word, l.lines)
    OBVIOUS
  <2>3. value' = IF v = Failure THEN value ELSE v
    BY <1>5, <2>2 DEF Finish, LoadsWith
  <2>4. edits = 0 => l.lines = file
    BY <2>1 DEF ConfigurationInv
  <2>5. edits = 0 /\ value' # Nothing => value' = Loaded(plan[owner], word, file)
    BY <2>2, <2>3, <2>4 DEF ConfigurationInv
  <2> QED BY <2>1, <2>5 DEF ConfigurationInv, AppIds
<1>6. CASE GetConfig
  BY <1>6 DEF GetConfig, ConfigurationInv, given, AppIds
<1>7. CASE UNCHANGED configurationVars
  BY <1>7 DEF configurationVars, given, ConfigurationInv, AppIds
<1> QED BY <1>1, <1>2, <1>3, <1>4, <1>5, <1>6, <1>7 DEF ConfigurationNext

\* Unless the file is edited, all that read the configuration read the same.
THEOREM ConfigurationIsTheSame == ConfigurationSpec => SameForAll
<1>1. ASSUME ConfigurationInv, ConfigurationInv', [ConfigurationNext]_configurationVars
      PROVE  [edits = 0 => /\ value # Nothing => value' = value
                           /\ owner' = 1 /\ value' # Nothing /\ early' # Nothing =>
                                value' = early']_configurationVars
  <2> SUFFICES ASSUME edits = 0, ConfigurationNext
               PROVE  /\ value # Nothing => value' = value
                      /\ owner' = 1 /\ value' # Nothing /\ early' # Nothing =>
                           value' = early'
    BY <1>1
  <2>1. CASE Edit
    BY <1>1, <2>1 DEF Edit, given, ConfigurationInv
  <2>2. CASE ~Edit
    <3>1. /\ UNCHANGED <<plan, word, file, edits>>
          /\ owner # 0 => owner' = owner
      BY <2>2 DEF ConfigurationNext, GetConfig, Construct, Start, ReadFile, Finish, given
    <3>2. value # Nothing => value' = value
      <4>1. CASE \E l \in loads : Finish(l)
        <5>1. PICK l \in loads : Finish(l)
          BY <4>1
        <5>2. l.lines = file
          BY <1>1, <5>1 DEF Finish, ConfigurationInv
        <5>3. PICK v : v = Loaded(plan[owner], word, file)
          OBVIOUS
        <5>4. value' = IF v = Failure THEN value ELSE v
          BY <5>1, <5>2, <5>3 DEF Finish, LoadsWith
        <5> QED BY <1>1, <5>3, <5>4 DEF ConfigurationInv
      <4>2. CASE ~\E l \in loads : Finish(l)
        BY <2>2, <4>2 DEF ConfigurationNext, GetConfig, Construct, Start, ReadFile
      <4> QED BY <4>1, <4>2
    <3>3. value' = Nothing \/ value' = Loaded(plan[owner'], word, file)
      BY <1>1, <3>1 DEF ConfigurationInv
    <3>4. early' = Nothing \/ early' = Loaded(plan[1], word, file)
      BY <1>1, <3>1 DEF ConfigurationInv
    <3> QED BY <3>2, <3>3, <3>4
  <2> QED BY <2>1, <2>2
<1> QED BY <1>1, InitConfigurationInv, StepConfigurationInv, PTL
        DEF ConfigurationSpec, SameForAll

-----------------------------------------------------------------------------
(* The database service.  Clients are numbered as they are made, so a number *)
(* that a call remembers is never given again: what the service holds is      *)
(* what it held, or newer.                                                  *)

Client == [to : Connections, open : BOOLEAN]
Service == [db : Nat, sqlite : Nat, postgres : Nat,
            connection : Connections \cup {Nowhere}, initialized : BOOLEAN]
Ops == {"none", "initialize", "close", "migrate", "transaction", Hook}
Steps == {"none", "enter", "wait", "close", "open", "load", "opened", "failed", "migrates",
          "migrated", "broken", "ended", "begun"}
Call == [op : Ops, step : Steps, to : Connections \cup {Nowhere},
         since : Nat, client : Nat, on : Nat]

DatabaseTyped ==
  /\ setup \in Settings /\ clients \in Seq(Client) /\ service \in Service
  /\ call \in [Actors -> Call]
  /\ service.db <= Len(clients) /\ service.sqlite <= Len(clients)
  /\ service.postgres <= Len(clients)

\* A call that has closed what it found has nothing older before it.
CallOK(a) ==
  /\ call[a].since <= Len(clients)
  /\ call[a].op = Hook => a = Hook
  /\ call[a].step = "open" =>
       call[a].op # "close" /\ \A c \in Held : c > call[a].since
  /\ call[a].step \in {"close", "open"} => call[a].op \in {"initialize", "close", Hook}
  /\ call[a].op \in {"initialize", Hook} /\ call[a].step \in {"wait", "close", "open", "load"}
       => call[a].to \in Connections

\* As long as the hook's client is the service's, what it migrates is that one's.
HookOK ==
  LET hook == call[Hook]
      inPlace == hook.client # None /\ service.db = hook.client
  IN /\ hook.op \in {"none", Hook} /\ (hook.step # "none" => hook.op = Hook)
     /\ hook.op = Hook => hook.to = setup.to
     /\ hook.step \in {"load", "close", "open"} => hook.client = None
     /\ hook.client # None => hook.client <= Len(clients) /\ clients[hook.client].to = setup.to
     /\ hook.step = "migrates" /\ inPlace => hook.on = hook.client
     /\ hook.step = "migrated" /\ inPlace => setup.to \in migrated
     /\ hook.step = "ended" /\ inPlace /\ service.initialized
          /\ setup.from = "environment" /\ setup.autoMigrate => setup.to \in migrated

DatabaseInv ==
  /\ DatabaseTyped
  /\ service.connection = Nowhere => Held = {}
  /\ \A a \in Actors : CallOK(a)
  /\ HookOK

LEMMA InitDatabaseInv == DatabaseInit => DatabaseInv
<1> SUFFICES ASSUME DatabaseInit PROVE DatabaseInv
  OBVIOUS
<1>1. /\ service \in Service /\ service.db = 0 /\ service.sqlite = 0 /\ service.postgres = 0
      /\ clients = <<>> /\ setup \in Settings
      /\ \A a \in Actors : call[a] = NoCall
      /\ call = [a \in Actors |-> NoCall]
  BY DEF DatabaseInit, DatabaseStart, Service, None
<1>2. NoCall \in Call
  BY DEF NoCall, Call, Ops, Steps, None
<1>3. DatabaseTyped
  BY <1>1, <1>2 DEF DatabaseTyped
<1>4. Held = {}
  BY <1>1 DEF Held, None
<1>5. \A a \in Actors : CallOK(a)
  BY <1>1 DEF CallOK, NoCall, Hook
<1>6. HookOK
  <2>1. call[Hook] = NoCall
    BY <1>1 DEF Actors
  <2> QED BY <2>1 DEF HookOK, NoCall, Hook
<1> QED BY <1>3, <1>4, <1>5, <1>6 DEF DatabaseInv

\* What every step does to the clients, and every one but the hook's last to the
\* service.
Grows ==
  /\ setup' = setup /\ migrated \subseteq migrated'
  /\ Len(clients') \in Nat /\ Len(clients) <= Len(clients')
  /\ \A c \in 1..Len(clients) : clients'[c].to = clients[c].to
  /\ \A c \in Held' : c \in Nat /\ (c \in Held \/ c > Len(clients))
  /\ service'.db = service.db \/ service'.db = None \/ service'.db > Len(clients)
StaysUnset ==
  service'.initialized /\ service'.db = service.db => service.initialized

LEMMA OthersKeep ==
  ASSUME DatabaseInv, Grows, NEW a \in Actors, call'[a] = call[a]
  PROVE  CallOK(a)'
<1>1. CallOK(a) /\ call[a] \in Call /\ Len(clients) \in Nat
  BY DEF DatabaseInv, DatabaseTyped
<1>2. call'[a].step = "open" => \A c \in Held' : c > call[a].since
  BY <1>1 DEF CallOK, Grows, Call
<1>3. call[a].since <= Len(clients')
  BY <1>1 DEF CallOK, Grows, Call
<1> QED BY <1>1, <1>2, <1>3 DEF CallOK

LEMMA HookKeeps ==
  ASSUME DatabaseInv, Grows, StaysUnset, call'[Hook] = call[Hook]
  PROVE  HookOK'
<1>1. HookOK /\ call[Hook] \in Call /\ Len(clients) \in Nat /\ service \in Service
  BY DEF DatabaseInv, DatabaseTyped, Actors
<1> QED BY <1>1 DEF HookOK, Grows, StaysUnset, Call, None, Service

\* What opening does, whose call c is c.
LEMMA OpenGrows ==
  ASSUME DatabaseInv, NEW a \in Actors, NEW c \in Call, c.to \in Connections, Open(a, c),
         UNCHANGED <<setup, migrated>>
  PROVE  /\ Grows /\ StaysUnset /\ DatabaseTyped'
         /\ service'.connection # Nowhere
         /\ \A d \in Actors \ {a} : call'[d] = call[d]
         /\ a # Hook => call'[a] = NoCall
         /\ a = Hook => /\ call'[a].step \in {"opened", "failed"}
                        /\ call'[a].op = c.op /\ call'[a].to = c.to
                        /\ call'[a].since = c.since
                        /\ \/ call'[a].client = c.client
                           \/ /\ call'[a].client = Len(clients) + 1 /\ call'[a].step = "opened"
                              /\ Len(clients') = Len(clients) + 1
                              /\ clients'[Len(clients) + 1].to = c.to
<1> DEFINE new == [to |-> c.to, open |-> TRUE]
           n == Len(clients) + 1
<1>1. /\ clients \in Seq(Client) /\ new \in Client /\ Len(clients) \in Nat /\ n \in Nat
      /\ service \in Service /\ call \in [Actors -> Call] /\ Nowhere \notin Connections
      /\ service.db <= Len(clients) /\ service.sqlite <= Len(clients)
      /\ service.postgres <= Len(clients)
  BY DatabaseAssumption DEF DatabaseInv, DatabaseTyped, Client
<1>2. /\ Append(clients, new) \in Seq(Client) /\ Len(Append(clients, new)) = n
      /\ \A i \in 1..Len(clients) : Append(clients, new)[i] = clients[i]
      /\ Append(clients, new)[n] = new
  BY <1>1, AppendProperties
<1>3. \A x \in Call : Ends(a, x) =>
         /\ call' = [call EXCEPT ![a] = IF a = Hook THEN x ELSE NoCall]
         /\ call'[a] = IF a = Hook THEN x ELSE NoCall
         /\ \A d \in Actors \ {a} : call'[d] = call[d]
  BY <1>1 DEF Ends
<1>4. NoCall \in Call
  BY DEF NoCall, Call, Ops, Steps, None
<1>5. CASE /\ clients' = Append(clients, new) /\ service' = Opened(c.to)
           /\ Ends(a, [c EXCEPT !.step = "opened", !.client = n])
  <2>1. PICK x : x = [c EXCEPT !.step = "opened", !.client = n]
    OBVIOUS
  <2>2. /\ x \in Call /\ x.step = "opened" /\ x.client = n
        /\ x.op = c.op /\ x.to = c.to /\ x.since = c.since
    BY <1>1, <2>1 DEF Call, Steps
  <2>3. /\ call' = [call EXCEPT ![a] = IF a = Hook THEN x ELSE NoCall]
        /\ call'[a] = IF a = Hook THEN x ELSE NoCall
        /\ \A d \in Actors \ {a} : call'[d] = call[d]
    BY <1>3, <1>5, <2>1, <2>2
  <2>4. /\ service' \in Service /\ service'.db = n /\ service'.connection = c.to
        /\ service'.sqlite \in {service.sqlite, n} /\ service'.postgres \in {service.postgres, n}
    BY <1>1, <1>5 DEF Opened, Service
  <2>5. call' \in [Actors -> Call]
    BY <1>1, <1>4, <2>2, <2>3
  <2> HIDE DEF new, n
  <2>6. /\ clients' \in Seq(Client) /\ Len(clients') = n
        /\ \A i \in 1..Len(clients) : clients'[i].to = clients[i].to
        /\ clients'[n].to = c.to
    BY <1>2, <1>5 DEF new
  <2>7. DatabaseTyped'
    BY <1>1, <2>4, <2>5, <2>6 DEF DatabaseTyped, DatabaseInv, Service, n
  <2>8. \A h \in Held' : h \in Nat /\ (h \in Held \/ h > Len(clients))
    BY <1>1, <2>4 DEF Held, Service, n
  <2>9. Grows /\ StaysUnset
    BY <1>1, <2>4, <2>6, <2>8 DEF Grows, StaysUnset, n, Service
  <2> QED BY <1>1, <2>2, <2>3, <2>4, <2>6, <2>7, <2>9 DEF n
<1>6. CASE /\ Ends(a, [c EXCEPT !.step = "failed"])
           /\ \E stored \in BOOLEAN :
                /\ stored => Sqlite(c.to)
                /\ clients' = IF stored THEN Append(clients, new) ELSE clients
                /\ service' = [service EXCEPT !.connection = c.to,
                                              !.sqlite = IF stored THEN n ELSE @]
  <2>1. PICK x : x = [c EXCEPT !.step = "failed"]
    OBVIOUS
  <2>2. /\ x \in Call /\ x.step = "failed" /\ x.client = c.client
        /\ x.op = c.op /\ x.to = c.to /\ x.since = c.since
    BY <1>1, <2>1 DEF Call, Steps
  <2>3. /\ call' = [call EXCEPT ![a] = IF a = Hook THEN x ELSE NoCall]
        /\ call'[a] = IF a = Hook THEN x ELSE NoCall
        /\ \A d \in Actors \ {a} : call'[d] = call[d]
    BY <1>3, <1>6, <2>1, <2>2
  <2>4. PICK stored \in BOOLEAN :
           /\ clients' = IF stored THEN Append(clients, new) ELSE clients
           /\ service' = [service EXCEPT !.connection = c.to,
                                         !.sqlite = IF stored THEN n ELSE @]
    BY <1>6
  <2>5. /\ service' \in Service /\ service'.db = service.db /\ service'.connection = c.to
        /\ service'.initialized = service.initialized
        /\ service'.sqlite = IF stored THEN n ELSE service.sqlite
        /\ service'.postgres = service.postgres
    BY <1>1, <2>4 DEF Service
  <2>6. call' \in [Actors -> Call]
    BY <1>1, <1>4, <2>2, <2>3
  <2> HIDE DEF new, n
  <2>7. /\ clients' \in Seq(Client) /\ Len(clients') = IF stored THEN n ELSE Len(clients)
        /\ \A i \in 1..Len(clients) : clients'[i].to = clients[i].to
    BY <1>1, <1>2, <2>4
  <2>8. DatabaseTyped'
    BY <1>1, <2>5, <2>6, <2>7 DEF DatabaseTyped, DatabaseInv, Service, n
  <2>9. \A h \in Held' : h \in Nat /\ (h \in Held \/ h > Len(clients))
    BY <1>1, <2>5 DEF Held, Service, n
  <2>10. Grows /\ StaysUnset
    BY <1>1, <2>5, <2>7, <2>9 DEF Grows, StaysUnset, n, Service
  <2> QED BY <1>1, <2>2, <2>3, <2>5, <2>8, <2>10
<1> QED BY <1>5, <1>6 DEF Open

\* A call that may open a client: the hook's, which has none yet, or a caller's.
MayOpen(a, c) ==
  /\ c \in Call /\ c.to \in Connections /\ c.since <= Len(clients)
  /\ a = Hook => c.op = Hook /\ c.to = setup.to /\ c.client = None
  /\ a # Hook => c.op = "initialize"

LEMMA OpenKeeps ==
  ASSUME DatabaseInv, NEW a \in Actors, NEW c, MayOpen(a, c), Open(a, c),
         UNCHANGED <<setup, migrated>>
  PROVE  DatabaseInv'
<1>1. /\ Grows /\ StaysUnset /\ DatabaseTyped' /\ service'.connection # Nowhere
      /\ \A d \in Actors \ {a} : call'[d] = call[d]
      /\ a # Hook => call'[a] = NoCall
      /\ a = Hook => /\ call'[a].step \in {"opened", "failed"}
                     /\ call'[a].op = c.op /\ call'[a].to = c.to
                     /\ call'[a].since = c.since
                     /\ \/ call'[a].client = c.client
                        \/ /\ call'[a].client = Len(clients) + 1 /\ call'[a].step = "opened"
                           /\ Len(clients') = Len(clients) + 1
                           /\ clients'[Len(clients) + 1].to = c.to
  BY OpenGrows DEF MayOpen
<1>2. Len(clients) \in Nat /\ Len(clients') \in Nat
  BY DEF DatabaseInv, DatabaseTyped
<1>3. CallOK(a)'
  <2>1. CASE a = Hook
    BY <1>1, <1>2, <2>1 DEF CallOK, MayOpen, Grows, Call
  <2>2. CASE a # Hook
    BY <1>1, <1>2, <2>2 DEF CallOK, NoCall, Hook
  <2> QED BY <2>1, <2>2
<1>4. \A d \in Actors : CallOK(d)'
  BY <1>1, <1>3, OthersKeep
<1>5. HookOK'
  <2>1. CASE a = Hook
    BY <1>1, <1>2, <2>1 DEF HookOK, MayOpen, None, Grows
  <2>2. CASE a # Hook
    BY <1>1, <2>2, HookKeeps DEF Actors
  <2> QED BY <2>1, <2>2
<1> QED BY <1>1, <1>4, <1>5 DEF DatabaseInv

\* A step of one call that does not open.
LEMMA StepKeeps ==
  ASSUME DatabaseInv, NEW a \in Actors, NEW c \in Call, call' = [call EXCEPT ![a] = c],
         DatabaseTyped', Grows, StaysUnset,
         service'.connection = Nowhere => Held' = {},
         CallOK(a)', a = Hook => HookOK'
  PROVE  DatabaseInv'
<1>1. \A d \in Actors \ {a} : call'[d] = call[d]
  BY DEF DatabaseInv, DatabaseTyped
<1>2. \A d \in Actors : CallOK(d)'
  BY <1>1, OthersKeep
<1>3. HookOK'
  BY <1>1, HookKeeps DEF Actors
<1> QED BY <1>2, <1>3 DEF DatabaseInv

LEMMA EntersKeeps ==
  ASSUME DatabaseInv, NEW a \in Actors, NEW c, MayOpen(a, c), Enters(a, c),
         UNCHANGED <<setup, migrated>>
  PROVE  DatabaseInv'
<1>1. CASE ~Replaces
  BY <1>1, OpenKeeps DEF Enters
<1>2. CASE Replaces
  <2>1. PICK x : x = [c EXCEPT !.step = "close", !.since = Len(clients)]
    OBVIOUS
  <2>2. /\ call' = [call EXCEPT ![a] = x] /\ service' = service /\ clients' = clients
    BY <1>2, <2>1 DEF Enters
  <2>3. Len(clients) \in Nat /\ call \in [Actors -> Call] /\ clients \in Seq(Client)
        /\ service \in Service
    BY DEF DatabaseInv, DatabaseTyped
  <2>4. /\ x \in Call /\ x.step = "close" /\ x.since = Len(clients) /\ x.op = c.op
        /\ x.to = c.to /\ x.client = c.client
    BY <2>1, <2>3 DEF MayOpen, Call, Steps
  <2>5. call'[a] = x /\ call' \in [Actors -> Call]
    BY <2>2, <2>3, <2>4
  <2>6. DatabaseTyped' /\ Held' = Held
    BY <2>2, <2>5 DEF DatabaseInv, DatabaseTyped, Held
  <2>7. Grows /\ StaysUnset
    BY <2>2, <2>3, <2>6 DEF Grows, StaysUnset, Held, Service
  <2>8. CallOK(a)'
    BY <2>2, <2>4, <2>5, <2>3 DEF CallOK, MayOpen, Call, Hook
  <2>9. a = Hook => HookOK'
    BY <2>2, <2>4, <2>5 DEF HookOK, MayOpen, Call
  <2> QED BY <2>2, <2>4, <2>6, <2>7, <2>8, <2>9, StepKeeps DEF DatabaseInv
<1> QED BY <1>1, <1>2

LEMMA CallsCounted == DatabaseSpec => [](dbCalls \in 0..MaxCalls)
<1>1. DatabaseInit => dbCalls \in 0..MaxCalls
  BY DatabaseAssumption DEF DatabaseInit, DatabaseStart
<1>2. dbCalls \in 0..MaxCalls /\ [DatabaseNext]_databaseVars => (dbCalls \in 0..MaxCalls)'
  <2> SUFFICES ASSUME dbCalls \in 0..MaxCalls, [DatabaseNext]_databaseVars
               PROVE  dbCalls' \in 0..MaxCalls
    OBVIOUS
  <2>1. ASSUME NEW u \in Callers, Calls(u) PROVE dbCalls' \in 0..MaxCalls
    BY <2>1, DatabaseAssumption DEF Calls
  <2>2. CASE UNCHANGED dbCalls
    BY <2>2
  <2> QED BY <2>1, <2>2 DEF DatabaseNext, CallerStep, ActorStep, InitializeService, Transaction,
                        TransactionEnds, Reopens, CloseClient, Migrate, Migrated, OnModuleInit,
                        LoadFromEnv, Settle, databaseVars
<1> QED BY <1>1, <1>2, PTL DEF DatabaseSpec

LEMMA StepDatabaseInv ==
  DatabaseInv /\ dbCalls \in 0..MaxCalls /\ [DatabaseNext]_databaseVars => DatabaseInv'
<1> SUFFICES ASSUME DatabaseInv, dbCalls \in 0..MaxCalls, [DatabaseNext]_databaseVars
             PROVE  DatabaseInv'
  OBVIOUS
<1>0. /\ setup \in Settings /\ clients \in Seq(Client) /\ Len(clients) \in Nat
      /\ service \in Service /\ call \in [Actors -> Call]
      /\ \A a \in Actors : CallOK(a)
      /\ service.connection = Nowhere => Held = {}
  BY DEF DatabaseInv, DatabaseTyped
<1>a. /\ NoCall \in Call /\ Hook \in Actors /\ Hook \notin Callers
      /\ Callers \subseteq Actors /\ Nowhere \notin Connections
  BY DatabaseAssumption DEF NoCall, Call, Ops, Steps, None, Actors
\* A step that leaves the service and its clients alone.
<1>b. ASSUME NEW a \in Actors, NEW c \in Call, call' = [call EXCEPT ![a] = c],
             UNCHANGED <<setup, service, clients>>, migrated \subseteq migrated',
             c.since <= Len(clients), c.op = Hook => a = Hook, c.step \notin {"open", "close"},
             c.op \in {"initialize", Hook} /\ c.step \in {"wait", "load"} => c.to \in Connections,
             a = Hook => HookOK'
      PROVE  DatabaseInv'
  <2>1. call'[a] = c /\ call' \in [Actors -> Call] /\ Held' = Held
    BY <1>0, <1>b DEF Held
  <2>2. DatabaseTyped'
    BY <1>b, <2>1 DEF DatabaseInv, DatabaseTyped
  <2>3. Grows /\ StaysUnset
    BY <1>0, <1>b, <2>1 DEF Grows, StaysUnset, Held, Service
  <2>4. CallOK(a)'
    BY <1>b, <2>1 DEF CallOK
  <2> QED BY <1>0, <1>b, <2>1, <2>2, <2>3, <2>4, StepKeeps
\* A step that ends the call of a caller.
<1>c. ASSUME NEW u \in Callers, call' = [call EXCEPT ![u] = NoCall],
             UNCHANGED <<setup, service, clients>>, migrated \subseteq migrated'
      PROVE  DatabaseInv'
  <2>1. PICK c \in Call : c = NoCall
    BY <1>a
  <2>2. /\ c.since <= Len(clients) /\ c.step \notin {"open", "close", "wait", "load"}
        /\ c.op # Hook
    BY <1>0, <2>1 DEF NoCall, Hook
  <2>3. u \in Actors /\ u # Hook
    BY <1>a
  <2> QED BY <1>b, <1>c, <2>1, <2>2, <2>3
<1>1. ASSUME NEW u \in Callers, Calls(u) PROVE DatabaseInv'
  <2>1. PICK op \in {"initialize", "close", "migrate", "transaction"},
             to \in Connections \cup {Nowhere} :
       /\ (op = "initialize") = (to # Nowhere)
       /\ IF op = "close" /\ Held = {}
          THEN /\ call' = call
               /\ service' = [service EXCEPT !.db = None, !.connection = Nowhere, !.initialized = FALSE]
          ELSE /\ call' = [call EXCEPT ![u] = [NoCall EXCEPT !.op = op, !.to = to,
                                                 !.step = IF op = "close" THEN op ELSE "wait"]]
               /\ service' = service
    BY <1>1 DEF Calls
  <2>2. UNCHANGED <<setup, clients, migrated>> /\ u \in Actors /\ u # Hook
    BY <1>1, <1>a DEF Calls
  <2>3. CASE op = "close" /\ Held = {}
    <3>1. call' = call
          /\ service' = [service EXCEPT !.db = None, !.connection = Nowhere, !.initialized = FALSE]
      BY <2>1, <2>3
    <3>2. /\ service' \in Service /\ service'.db = 0 /\ service'.sqlite = service.sqlite
          /\ service'.postgres = service.postgres /\ ~service'.initialized
      BY <1>0, <3>1 DEF Service, None
    <3>3. DatabaseTyped' /\ Held' = {}
      BY <1>0, <2>2, <2>3, <3>1, <3>2 DEF DatabaseInv, DatabaseTyped, Held
    <3>4. Grows /\ StaysUnset
      BY <1>0, <2>2, <3>2, <3>3 DEF Grows, StaysUnset, None
    <3>5. \A a \in Actors : CallOK(a)'
      BY <3>1, <3>4, OthersKeep
    <3> QED BY <3>1, <3>3, <3>4, <3>5, HookKeeps DEF DatabaseInv
  <2>4. CASE ~(op = "close" /\ Held = {})
    <3>1. PICK step \in {"wait", "close"} : step = IF op = "close" THEN op ELSE "wait"
      OBVIOUS
    <3>2. PICK x : x = [NoCall EXCEPT !.op = op, !.to = to, !.step = step]
      OBVIOUS
    <3>3. call' = [call EXCEPT ![u] = x] /\ service' = service
      BY <2>1, <2>4, <3>1, <3>2
    <3>4. /\ x \in Call /\ x.op = op /\ x.to = to /\ x.step = step /\ x.since = 0
      <4>1. NoCall.since = 0 /\ dbCalls + 1 \in Nat
        BY DatabaseAssumption DEF NoCall
      <4> QED BY <1>a, <3>2, <4>1 DEF Call, Steps, Ops
    <3>5. x.op \in {"initialize", Hook} => x.to \in Connections
      BY <2>1, <3>4 DEF Hook
    <3>6. call'[u] = x /\ call' \in [Actors -> Call] /\ Held' = Held
      BY <1>0, <2>2, <3>3, <3>4 DEF Held
    <3>7. DatabaseTyped'
      BY <2>2, <3>3, <3>6 DEF DatabaseInv, DatabaseTyped
    <3>8. Grows /\ StaysUnset
      BY <1>0, <2>2, <3>3, <3>6 DEF Grows, StaysUnset, Held, Service
    <3>9. CallOK(u)'
      BY <1>0, <2>2, <3>1, <3>4, <3>5, <3>6 DEF CallOK, Hook
    <3> QED BY <1>0, <2>2, <3>3, <3>4, <3>6, <3>7, <3>8, <3>9, StepKeeps
  <2> QED BY <2>3, <2>4
<1>2. ASSUME NEW u \in Callers, InitializeService(u) PROVE DatabaseInv'
  <2>1. MayOpen(u, call[u])
    BY <1>0, <1>2, <1>a DEF InitializeService, At, CallOK, MayOpen
  <2> QED BY <1>2, <1>a, <2>1, EntersKeeps DEF InitializeService
<1>3. ASSUME NEW u \in Callers, Transaction(u) \/ TransactionEnds(u)
      PROVE  DatabaseInv'
  <2>1. UNCHANGED <<setup, service, clients, migrated>> /\ call[u].op = "transaction"
        /\ call[u] \in Call /\ CallOK(u) /\ u \in Actors /\ u # Hook
    BY <1>0, <1>3, <1>a DEF Transaction, TransactionEnds, At
  <2>2. CASE call' = [call EXCEPT ![u] = NoCall]
    BY <1>c, <2>1, <2>2
  <2>3. CASE call' = [call EXCEPT ![u] = [@ EXCEPT !.step = "begun", !.client = service.db]]
    <3>1. PICK x : x = [call[u] EXCEPT !.step = "begun", !.client = service.db]
      OBVIOUS
    <3>2. x \in Call /\ x.step = "begun" /\ x.op = "transaction" /\ x.since = call[u].since
      BY <1>0, <2>1, <3>1 DEF Call, Steps, Service
    <3>3. call' = [call EXCEPT ![u] = x]
      BY <1>0, <2>1, <2>3, <3>1
    <3> QED BY <1>b, <2>1, <3>2, <3>3 DEF CallOK, Hook
  <2> QED BY <1>3, <2>1, <2>2, <2>3
          DEF Transaction, TransactionEnds, Ended, Ends, Goes
<1>4. ASSUME NEW a \in Actors, Reopens(a) PROVE DatabaseInv'
  <2>1. MayOpen(a, call[a])
    BY <1>0, <1>4, <1>a DEF Reopens, CallOK, MayOpen, DatabaseInv, HookOK
  <2> QED BY <1>4, <2>1, OpenKeeps DEF Reopens
<1>5. ASSUME NEW a \in Actors, CloseClient(a) PROVE DatabaseInv'
  <2>0. /\ call[a].step = "close" /\ clients' = Shut /\ UNCHANGED <<setup, migrated>>
        /\ service' = [db |-> None, sqlite |-> None, postgres |-> None,
                       connection |-> Nowhere, initialized |-> FALSE]
        /\ IF call[a].op = "close" THEN Ended(a, "closed") ELSE Goes(a, "open")
        /\ call[a] \in Call /\ CallOK(a)
    BY <1>0, <1>5 DEF CloseClient
  <2>1. /\ service' \in Service /\ service'.db = 0 /\ service'.sqlite = 0
        /\ service'.postgres = 0 /\ ~service'.initialized
    BY <2>0 DEF Service, None
  <2>2. /\ clients' \in Seq(Client) /\ Len(clients') = Len(clients)
        /\ \A i \in 1..Len(clients) : clients'[i].to = clients[i].to
    <3>1. \A i \in 1..Len(clients) : clients[i] \in Client
      BY <1>0, ElementOfSeq
    <3>2. DOMAIN clients = 1..Len(clients)
      BY <1>0, LenProperties
    <3>3. clients' = [i \in 1..Len(clients) |-> clients'[i]]
      BY <2>0, <3>2 DEF Shut
    <3>4. \A i \in 1..Len(clients) : clients'[i] \in Client /\ clients'[i].to = clients[i].to
      BY <2>0, <3>1, <3>2 DEF Shut, Client
    <3> QED BY <1>0, <3>3, <3>4
  <2>3. Held' = {}
    BY <2>1 DEF Held, None
  <2>4. Grows /\ StaysUnset
    BY <1>0, <2>0, <2>1, <2>2, <2>3 DEF Grows, StaysUnset, None
  <2>5. CASE call[a].op = "close"
    <3>1. a # Hook /\ call' = [call EXCEPT ![a] = NoCall]
      BY <2>0, <2>5, <1>a DEF Ended, Ends, DatabaseInv, HookOK, Hook
    <3>2. call'[a] = NoCall /\ call' \in [Actors -> Call]
      BY <1>0, <1>a, <3>1
    <3>3. DatabaseTyped'
      BY <1>0, <2>0, <2>1, <2>2, <3>2 DEF DatabaseTyped
    <3>4. CallOK(a)'
      BY <1>0, <2>2, <3>2 DEF CallOK, NoCall, Hook
    <3> QED BY <1>a, <2>3, <2>4, <3>1, <3>3, <3>4, StepKeeps
  <2>6. CASE call[a].op # "close"
    <3>1. PICK x : x = [call[a] EXCEPT !.step = "open"]
      OBVIOUS
    <3>2. /\ x \in Call /\ x.step = "open" /\ x.op = call[a].op /\ x.to = call[a].to
          /\ x.since = call[a].since /\ x.client = call[a].client
      BY <2>0, <3>1 DEF Call, Steps
    <3>3. call' = [call EXCEPT ![a] = x] /\ call'[a] = x /\ call' \in [Actors -> Call]
      BY <1>0, <2>0, <2>6, <3>1, <3>2 DEF Goes
    <3>4. DatabaseTyped'
      BY <1>0, <2>0, <2>1, <2>2, <3>3 DEF DatabaseTyped
    <3>5. CallOK(a)'
      BY <2>0, <2>2, <2>3, <2>6, <3>2, <3>3 DEF CallOK
    <3>6. a = Hook => HookOK'
      BY <2>0, <3>2, <3>3 DEF DatabaseInv, HookOK
    <3> QED BY <2>3, <2>4, <3>2, <3>3, <3>4, <3>5, <3>6, StepKeeps
  <2> QED BY <2>5, <2>6
\* The hook goes on to a step at which its migrations have ended.
<1>d. ASSUME NEW step \in {"migrated", "broken"}, call[Hook].op = Hook,
             call' = [call EXCEPT ![Hook] = [call[Hook] EXCEPT !.step = step]],
             UNCHANGED <<setup, service, clients>>, migrated \subseteq migrated',
             step = "migrated" /\ call[Hook].client # None /\ service.db = call[Hook].client
               => setup.to \in migrated'
      PROVE  DatabaseInv'
  <2>1. PICK x : x = [call[Hook] EXCEPT !.step = step]
    OBVIOUS
  <2>2. /\ x \in Call /\ x.step = step /\ x.op = Hook /\ x.to = call[Hook].to
        /\ x.since = call[Hook].since /\ x.client = call[Hook].client
    BY <1>0, <1>a, <1>d, <2>1 DEF Call, Steps
  <2>3. call' = [call EXCEPT ![Hook] = x] /\ call'[Hook] = x
    BY <1>0, <1>a, <1>d, <2>1
  <2>4. HookOK'
    BY <1>d, <2>2, <2>3 DEF DatabaseInv, HookOK
  <2>5. x.since <= Len(clients) /\ x.step \notin {"open", "close", "wait", "load"}
    BY <1>0, <1>a, <1>d, <2>2 DEF CallOK
  <2> QED BY <1>a, <1>b, <1>d, <2>2, <2>3, <2>4, <2>5
<1>6. ASSUME NEW a \in Actors, Migrate(a) PROVE DatabaseInv'
  <2>1. UNCHANGED <<setup, service, clients>> /\ migrated \subseteq migrated'
        /\ (a = Hook => call[a].op = Hook) /\ (a # Hook => call[a].op = "migrate")
    BY <1>6 DEF Migrate, Wants, At
  <2>2. CASE call' = [call EXCEPT ![a] = [@ EXCEPT !.step = "migrates", !.on = service.db]]
    <3>1. PICK x : x = [call[a] EXCEPT !.step = "migrates", !.on = service.db]
      OBVIOUS
    <3>2. /\ x \in Call /\ x.step = "migrates" /\ x.op = call[a].op /\ x.to = call[a].to
          /\ x.since = call[a].since /\ x.client = call[a].client /\ x.on = service.db
      BY <1>0, <3>1 DEF Call, Steps, Service
    <3>3. call' = [call EXCEPT ![a] = x] /\ call'[a] = x
      BY <1>0, <2>2, <3>1
    <3>4. a = Hook => HookOK'
      BY <2>1, <3>2, <3>3 DEF DatabaseInv, HookOK
    <3> QED BY <1>0, <1>b, <2>1, <3>2, <3>3, <3>4 DEF CallOK
  <2>3. CASE /\ Ended(a, "migrated")
             /\ migrated' = migrated \cup {clients[service.db].to}
    <3>1. CASE a = Hook
      <4>1. call[Hook].client # None /\ service.db = call[Hook].client => setup.to \in migrated'
        BY <2>3 DEF DatabaseInv, HookOK
      <4>2. call' = [call EXCEPT ![Hook] = [call[Hook] EXCEPT !.step = "migrated"]]
        BY <2>3, <3>1 DEF Ended, Ends
      <4> QED BY <1>d, <2>1, <3>1, <4>1, <4>2
    <3>2. CASE a # Hook
      <4>1. a \in Callers /\ call' = [call EXCEPT ![a] = NoCall]
        BY <2>3, <3>2 DEF Actors, Ended, Ends
      <4> QED BY <1>c, <2>1, <4>1
    <3> QED BY <3>1, <3>2
  <2>4. CASE Ended(a, "broken") /\ UNCHANGED migrated
    <3>1. CASE a = Hook
      <4>1. call' = [call EXCEPT ![Hook] = [call[Hook] EXCEPT !.step = "broken"]]
        BY <2>4, <3>1 DEF Ended, Ends
      <4> QED BY <1>d, <2>1, <3>1, <4>1
    <3>2. CASE a # Hook
      <4>1. a \in Callers /\ call' = [call EXCEPT ![a] = NoCall]
        BY <2>4, <3>2 DEF Actors, Ended, Ends
      <4> QED BY <1>c, <2>1, <4>1
    <3> QED BY <3>1, <3>2
  <2> QED BY <1>6, <2>2, <2>3, <2>4 DEF Migrate
<1>7. ASSUME NEW a \in Actors, Migrated(a) PROVE DatabaseInv'
  <2>1. UNCHANGED <<setup, service, clients>> /\ migrated \subseteq migrated'
        /\ call[a].step = "migrates"
    BY <1>7 DEF Migrated
  <2>2. CASE a = Hook
    <3>1. call[Hook].op = Hook
      BY <2>1, <2>2 DEF DatabaseInv, HookOK
    <3>2. PICK step \in {"migrated", "broken"} :
             /\ Ended(Hook, step)
             /\ step = "migrated" => migrated' = migrated \cup {clients[call[Hook].on].to}
      BY <1>7, <2>2 DEF Migrated
    <3>3. call' = [call EXCEPT ![Hook] = [call[Hook] EXCEPT !.step = step]]
      BY <3>2 DEF Ended, Ends
    <3>4. step = "migrated" /\ call[Hook].client # None /\ service.db = call[Hook].client
            => setup.to \in migrated'
      BY <2>1, <2>2, <3>2 DEF DatabaseInv, HookOK
    <3> QED BY <1>d, <2>1, <3>1, <3>3, <3>4
  <2>3. CASE a # Hook
    <3>1. a \in Callers /\ call' = [call EXCEPT ![a] = NoCall]
      BY <1>7, <2>3 DEF Actors, Migrated, Ended, Ends
    <3> QED BY <1>c, <2>1, <3>1
  <2> QED BY <2>2, <2>3
<1>8. CASE OnModuleInit
  <2>1. call[Hook] = NoCall
    BY <1>8 DEF OnModuleInit
  <2>2. ASSUME NEW step \in {"enter", "failed", "load"}, NEW x, x = HookCall(step)
        PROVE  /\ x \in Call /\ x.op = Hook /\ x.to = setup.to /\ x.step = step
               /\ x.since = 0 /\ x.client = None
    <3>1. setup.to \in Connections \cup {Nowhere} /\ step \in Steps /\ Hook \in Ops
      BY <1>0 DEF Settings, Steps, Ops
    <3>2. PICK c \in Call : c = NoCall /\ c.since = 0 /\ c.client = None
      BY <1>a DEF NoCall
    <3>3. x = [c EXCEPT !.op = Hook, !.to = setup.to, !.step = step]
      BY <2>2, <3>2 DEF HookCall
    <3> QED BY <3>1, <3>2, <3>3 DEF Call
  <2>3. setup.from # "none" => setup.to \in Connections
    BY <1>0 DEF Settings
  <2>4. UNCHANGED <<setup, migrated>>
    BY <1>8 DEF OnModuleInit
  <2>5. CASE setup.from = "module"
    <3>1. PICK x : x = HookCall("enter")
      OBVIOUS
    <3>2. /\ x \in Call /\ x.op = Hook /\ x.to = setup.to /\ x.since = 0 /\ x.client = None
      BY <2>2, <3>1
    <3>3. MayOpen(Hook, x)
      BY <1>0, <2>3, <2>5, <3>2 DEF MayOpen
    <3>4. Enters(Hook, x)
      BY <1>8, <2>5, <3>1 DEF OnModuleInit
    <3> QED BY <1>a, <2>4, <3>3, <3>4, EntersKeeps
  <2>6. CASE setup.from # "module"
    <3>1. PICK step \in {"failed", "load"} : step = IF setup.from = "none" THEN "failed" ELSE "load"
      OBVIOUS
    <3>2. PICK x : x = HookCall(step)
      OBVIOUS
    <3>3. /\ x \in Call /\ x.op = Hook /\ x.to = setup.to /\ x.step = step
          /\ x.since = 0 /\ x.client = None
      BY <2>2, <3>1, <3>2
    <3>4. call' = [call EXCEPT ![Hook] = x] /\ call'[Hook] = x /\ UNCHANGED <<service, clients>>
      BY <1>0, <1>8, <1>a, <2>6, <3>1, <3>2 DEF OnModuleInit
    <3>5. HookOK'
      BY <2>4, <3>1, <3>3, <3>4 DEF HookOK
    <3>6. /\ x.step \in {"wait", "load"} => x.to \in Connections
          /\ x.step \notin {"open", "close"}
          /\ x.since <= Len(clients)
      BY <1>0, <2>3, <3>1, <3>3
    <3> QED BY <1>a, <1>b, <2>4, <3>3, <3>4, <3>5, <3>6
  <2> QED BY <2>5, <2>6
<1>9. CASE LoadFromEnv
  <2>1. CASE Enters(Hook, call[Hook])
    <3>1. MayOpen(Hook, call[Hook])
      BY <1>0, <1>9, <1>a DEF LoadFromEnv, CallOK, MayOpen, DatabaseInv, HookOK
    <3> QED BY <1>9, <1>a, <2>1, <3>1, EntersKeeps DEF LoadFromEnv
  <2>2. CASE Goes(Hook, "failed") /\ UNCHANGED <<service, clients>>
    <3>1. PICK x : x = [call[Hook] EXCEPT !.step = "failed"]
      OBVIOUS
    <3>2. /\ x \in Call /\ x.step = "failed" /\ x.op = call[Hook].op /\ x.to = call[Hook].to
          /\ x.since = call[Hook].since /\ x.client = call[Hook].client
      BY <1>0, <1>a, <3>1 DEF Call, Steps
    <3>3. call' = [call EXCEPT ![Hook] = x] /\ call'[Hook] = x
      BY <1>0, <1>a, <2>2, <3>1 DEF Goes
    <3>4. UNCHANGED <<setup, migrated>>
      BY <1>9 DEF LoadFromEnv
    <3>5. HookOK'
      BY <1>9, <2>2, <3>2, <3>3, <3>4 DEF DatabaseInv, HookOK, LoadFromEnv
    <3> QED BY <1>0, <1>a, <1>b, <2>2, <3>2, <3>3, <3>4, <3>5 DEF CallOK
  <2> QED BY <1>9, <2>1, <2>2 DEF LoadFromEnv
<1>10. CASE Settle
  <2>1. PICK x : x = [call[Hook] EXCEPT !.step = "ended"]
    OBVIOUS
  <2>2. /\ x \in Call /\ x.step = "ended" /\ x.op = call[Hook].op /\ x.to = call[Hook].to
        /\ x.since = call[Hook].since /\ x.client = call[Hook].client
    BY <1>0, <1>a, <2>1 DEF Call, Steps
  <2>3. call' = [call EXCEPT ![Hook] = x] /\ call'[Hook] = x /\ call' \in [Actors -> Call]
    BY <1>0, <1>10, <1>a, <2>1, <2>2 DEF Settle, Goes
  <2>4. UNCHANGED <<setup, clients, migrated>>
    BY <1>10 DEF Settle
  <2>5. PICK gives \in BOOLEAN : gives = GivesUp
    BY DEF GivesUp
  <2>6. /\ service' \in Service /\ service'.db = service.db
        /\ service'.sqlite = service.sqlite /\ service'.postgres = service.postgres
        /\ service'.connection = service.connection /\ service'.initialized = ~gives
    <3>1. service' = [service EXCEPT !.initialized = ~gives]
      BY <1>10, <2>5 DEF Settle
    <3> QED BY <1>0, <3>1 DEF Service
  <2>7. DatabaseTyped' /\ Held' = Held
    BY <2>3, <2>4, <2>6 DEF DatabaseInv, DatabaseTyped, Held
  <2>8. Grows
    BY <1>0, <2>4, <2>6, <2>7 DEF Grows, Held, Service
  <2>9. \A d \in Actors \ {Hook} : call'[d] = call[d]
    BY <1>0, <2>3
  <2>10. CallOK(Hook)'
    BY <1>0, <1>a, <2>2, <2>3, <2>4 DEF CallOK
  <2>11. \A d \in Actors : CallOK(d)'
    BY <2>8, <2>9, <2>10, OthersKeep
  <2>12. HookOK'
    <3>1. HookOK
      BY DEF DatabaseInv
    <3>2. call[Hook].step \in {"migrated", "broken", "failed"} \/ ~setup.autoMigrate
      BY <1>10 DEF Settle, At
    <3>3. /\ call[Hook].step = "failed" => gives
          /\ call[Hook].step = "broken" /\ setup.from = "environment" => gives
      BY <2>5 DEF GivesUp
    <3>4. /\ x.op = Hook /\ x.to = setup.to
          /\ x.client # None => x.client <= Len(clients) /\ clients[x.client].to = setup.to
      BY <1>10, <2>2, <3>1 DEF HookOK, Settle, At, Hook
    <3>5. x.client # None /\ service.db = x.client /\ ~gives
            /\ setup.from = "environment" /\ setup.autoMigrate => setup.to \in migrated
      BY <2>2, <3>1, <3>2, <3>3 DEF HookOK
    <3> QED BY <2>2, <2>3, <2>4, <2>6, <3>4, <3>5 DEF HookOK
  <2> QED BY <1>0, <2>6, <2>7, <2>11, <2>12 DEF DatabaseInv
<1>11. CASE UNCHANGED databaseVars
  <2>1. UNCHANGED <<setup, service, clients, call, migrated>>
    BY <1>11 DEF databaseVars
  <2> QED BY <2>1 DEF DatabaseInv, DatabaseTyped, CallOK, HookOK, Held
<1> QED BY <1>1, <1>2, <1>3, <1>4, <1>5, <1>6, <1>7, <1>8, <1>9, <1>10, <1>11
        DEF DatabaseNext, CallerStep, ActorStep

LEMMA DatabaseInvariant == DatabaseSpec => []DatabaseInv
<1> QED BY InitDatabaseInv, StepDatabaseInv, CallsCounted, PTL DEF DatabaseSpec

\* As long as the connection made from the environment is in place, a service that
\* says it is initialized has the migrations that it was to run.
THEOREM EnvironmentIsMigrated == DatabaseSpec => []MigratedWhenInitialized
<1>1. DatabaseInv => MigratedWhenInitialized
  <2> SUFFICES ASSUME DatabaseInv, setup.from = "environment", setup.autoMigrate,
                      call[Hook].step = "ended", service.initialized,
                      call[Hook].client # None, service.db = call[Hook].client
               PROVE  setup.to \in migrated
    BY DEF MigratedWhenInitialized
  <2> QED BY DEF DatabaseInv, HookOK
<1> QED BY <1>1, DatabaseInvariant, PTL

\* Opening lets go of a client that the service held, whoever opens.
LEMMA OpenMoves ==
  ASSUME DatabaseInv, NEW a \in Actors, NEW c, MayOpen(a, c), Open(a, c),
         call[a].step \in {"none", "wait", "load", "open"}, a # Hook => call[a].step # "none",
         UNCHANGED <<setup, migrated>>
  PROVE  /\ call'[a] # call[a]
         /\ \A d \in DOMAIN clients : clients'[d] = clients[d]
<1>1. /\ a # Hook => call'[a] = NoCall
      /\ a = Hook => call'[a].step \in {"opened", "failed"}
  BY OpenGrows DEF MayOpen
<1>2. \A d \in DOMAIN clients : clients'[d] = clients[d]
  <2>1. clients \in Seq(Client) /\ DOMAIN clients = 1..Len(clients)
    BY DEF DatabaseInv, DatabaseTyped
  <2>2. c.to \in Connections
    BY DEF MayOpen
  <2>3. PICK new \in Client : new = [to |-> c.to, open |-> TRUE]
    BY <2>2 DEF Client
  <2>4. \A d \in DOMAIN clients : Append(clients, new)[d] = clients[d]
    BY <2>1, AppendProperties
  <2>5. clients' = clients \/ clients' = Append(clients, new)
    BY <2>3 DEF Open
  <2> QED BY <2>4, <2>5
<1> QED BY <1>1, <1>2 DEF NoCall

\* An open client is lost only by an opening that could not see it: the service
\* said it was not initialized, or the opening had waited since.
THEOREM OnlyTheUnseenIsLost == DatabaseSpec => LosesOnlyUnseen
<1>1. ASSUME DatabaseInv, [DatabaseNext]_databaseVars
      PROVE  [\A c \in DOMAIN clients :
                ~Lost(c) /\ Lost(c)' =>
                  \E a \in Actors : call'[a] # call[a] /\
                    IF call[a].step = "open" THEN c > call[a].since
                    ELSE ~service.initialized]_databaseVars
  <2> SUFFICES ASSUME DatabaseNext, NEW c \in DOMAIN clients, ~Lost(c), Lost(c)'
               PROVE  \E a \in Actors : call'[a] # call[a] /\
                        IF call[a].step = "open" THEN c > call[a].since
                        ELSE ~service.initialized
    BY <1>1
  <2>0. /\ clients \in Seq(Client) /\ DOMAIN clients = 1..Len(clients)
        /\ Callers \subseteq Actors /\ Hook \in Actors /\ Hook \notin Callers
        /\ \A a \in Actors : CallOK(a) /\ call[a] \in Call
        /\ service.connection = Nowhere => Held = {}
    BY <1>1, DatabaseAssumption DEF DatabaseInv, DatabaseTyped, Actors
  <2>1. clients'[c].open /\ c \notin Held'
    BY DEF Lost
  <2>2. CASE UNCHANGED <<service, clients>>
    BY <2>2 DEF Lost, Held
  <2>3. ASSUME NEW a \in Actors, NEW d, MayOpen(a, d), Enters(a, d),
               call[a].step \in {"none", "wait", "load"}, a # Hook => call[a].step # "none",
               UNCHANGED <<setup, migrated>>
        PROVE  \E e \in Actors : call'[e] # call[e] /\
                 IF call[e].step = "open" THEN c > call[e].since ELSE ~service.initialized
    <3>1. CASE Replaces
      BY <2>2, <2>3, <3>1 DEF Enters
    <3>2. CASE ~Replaces
      <4>1. call'[a] # call[a] /\ clients'[c] = clients[c]
        BY <1>1, <2>3, <3>2, OpenMoves DEF Enters
      <4>2. c \in Held
        BY <2>1, <4>1 DEF Lost
      <4>3. ~service.initialized
        BY <2>0, <3>2, <4>2 DEF Replaces
      <4> QED BY <2>3, <4>1, <4>3
    <3> QED BY <3>1, <3>2
  <2>4. ASSUME NEW u \in Callers, Calls(u) PROVE UNCHANGED clients /\ Held' = Held
    <3>1. UNCHANGED clients
      BY <2>4 DEF Calls
    <3>2. service' = service
          \/ service' = [service EXCEPT !.db = None, !.connection = Nowhere, !.initialized = FALSE]
      BY <2>4 DEF Calls
    <3>3. service'.sqlite = service.sqlite /\ service'.postgres = service.postgres
      BY <1>1, <3>2 DEF DatabaseInv, DatabaseTyped, Service
    <3> QED BY <3>1, <3>3 DEF Held
  <2>5. ASSUME NEW u \in Callers, InitializeService(u)
        PROVE  \E a \in Actors : call'[a] # call[a] /\
                 IF call[a].step = "open" THEN c > call[a].since ELSE ~service.initialized
    <3>1. MayOpen(u, call[u])
      BY <2>0, <2>5 DEF InitializeService, At, CallOK, MayOpen
    <3> QED BY <2>0, <2>3, <2>5, <3>1 DEF InitializeService, At
  <2>6. ASSUME NEW a \in Actors, Reopens(a)
        PROVE  \E e \in Actors : call'[e] # call[e] /\
                 IF call[e].step = "open" THEN c > call[e].since ELSE ~service.initialized
    <3>1. MayOpen(a, call[a])
      BY <1>1, <2>0, <2>6 DEF Reopens, CallOK, MayOpen, DatabaseInv, HookOK
    <3>2. call'[a] # call[a] /\ clients'[c] = clients[c]
      BY <1>1, <2>6, <3>1, OpenMoves DEF Reopens
    <3>3. c \in Held
      BY <2>1, <3>2 DEF Lost
    <3>4. c > call[a].since
      BY <2>0, <2>6, <3>3 DEF CallOK, Reopens
    <3> QED BY <2>6, <3>2, <3>4 DEF Reopens
  <2>7. ASSUME NEW a \in Actors, CloseClient(a) PROVE FALSE
    <3>1. clients'[c].open = (clients[c].open /\ c \notin Held)
      <4>1. clients[c] \in Client
        BY <2>0, ElementOfSeq
      <4> QED BY <2>7, <4>1 DEF CloseClient, Shut, Client
    <3> QED BY <2>1, <3>1 DEF Lost
  <2>8. CASE OnModuleInit
    <3>1. CASE setup.from = "module"
      <4>1. PICK x : x = HookCall("enter")
        OBVIOUS
      <4>2. /\ x \in Call /\ x.op = Hook /\ x.to = setup.to /\ x.since = 0 /\ x.client = None
        <5>1. NoCall \in Call /\ setup.to \in Connections \cup {Nowhere}
          BY <1>1 DEF NoCall, Call, Ops, Steps, None, DatabaseInv, DatabaseTyped, Settings
        <5>2. PICK n \in Call : n = NoCall /\ n.since = 0 /\ n.client = None
          BY <5>1 DEF NoCall
        <5>3. x = [n EXCEPT !.op = Hook, !.to = setup.to, !.step = "enter"]
          BY <4>1, <5>2 DEF HookCall
        <5> QED BY <5>1, <5>2, <5>3 DEF Call, Ops, Steps
      <4>3. setup.to \in Connections /\ Len(clients) \in Nat
        BY <1>1, <2>0, <3>1 DEF DatabaseInv, DatabaseTyped, Settings
      <4>4. MayOpen(Hook, x)
        BY <4>2, <4>3 DEF MayOpen
      <4>5. call[Hook].step = "none" /\ Enters(Hook, x) /\ UNCHANGED <<setup, migrated>>
        BY <2>8, <3>1, <4>1 DEF OnModuleInit, NoCall
      <4> QED BY <2>0, <2>3, <4>4, <4>5
    <3>2. CASE setup.from # "module"
      BY <2>2, <2>8, <3>2 DEF OnModuleInit
    <3> QED BY <3>1, <3>2
  <2>9. CASE LoadFromEnv
    <3>1. CASE Enters(Hook, call[Hook])
      <4>1. MayOpen(Hook, call[Hook])
        BY <1>1, <2>0, <2>9 DEF LoadFromEnv, CallOK, MayOpen, DatabaseInv, HookOK
      <4> QED BY <2>0, <2>3, <2>9, <3>1, <4>1 DEF LoadFromEnv
    <3>2. CASE UNCHANGED <<service, clients>>
      BY <2>2, <3>2
    <3> QED BY <2>9, <3>1, <3>2 DEF LoadFromEnv
  <2>10. CASE Settle
    <3>1. service'.sqlite = service.sqlite /\ service'.postgres = service.postgres
          /\ UNCHANGED clients
      BY <1>1, <2>10 DEF Settle, DatabaseInv, DatabaseTyped, Service
    <3>2. Held' = Held
      BY <3>1 DEF Held
    <3> QED BY <3>1, <3>2 DEF Lost
  <2>11. ASSUME NEW u \in Callers, Calls(u) PROVE FALSE
    BY <2>4, <2>11 DEF Lost
  <2> QED BY <2>0, <2>2, <2>5, <2>6, <2>7, <2>8, <2>9, <2>10, <2>11
          DEF DatabaseNext, CallerStep, ActorStep, Transaction, TransactionEnds,
              Migrate, Migrated
<1> QED BY <1>1, DatabaseInvariant, PTL DEF DatabaseSpec, LosesOnlyUnseen
-----------------------------------------------------------------------------
(* Tracing.  A span that has ended waits in its provider's buffer or in one   *)
(* of the provider's exports, and the batches of a shutdown leave none out.  *)

LEMMA DivisionByBatch ==
  ASSUME NEW B \in Nat \ {0}, NEW k \in Nat
  PROVE  k = B * (k \div B) + (k % B) /\ k % B \in 0..B - 1 /\ k \div B \in Nat
OBVIOUS

LEMMA MultiplesDivide ==
  ASSUME NEW B \in Nat \ {0}, NEW q \in Nat PROVE (B * q) % B = 0
<1>1. PICK p \in Int, r \in 0..B - 1 : B * q = B * p + r /\ r = (B * q) % B
  OBVIOUS
<1>2. PICK d \in Int : d = q - p
  BY <1>1
<1>3. B * d = r
  BY <1>1, <1>2
<1>4. CASE d >= 1
  <2>1. PICK e \in Nat : d = e + 1
    BY <1>4
  <2>2. B * e \in Nat /\ B * d = B * e + B
    BY <2>1
  <2> QED BY <1>1, <1>3, <2>2
<1>5. CASE d <= -1
  <2>1. PICK e \in Nat : d = -1 - e
    BY <1>5
  <2>2. B * e \in Nat /\ B * d = -B - B * e
    BY <2>1
  <2> QED BY <1>1, <1>3, <2>2
<1>6. CASE d = 0
  BY <1>1, <1>3, <1>6
<1> QED BY <1>2, <1>4, <1>5, <1>6

LEMMA LeastIsOne ==
  ASSUME NEW a \in Nat, NEW b \in Nat
  PROVE  Least(a, b) \in {a, b} /\ Least(a, b) <= a /\ Least(a, b) <= b
BY DEF Least

\* What is buffered goes out in one batch or another, and nothing else does.
LEMMA BatchesCover ==
  ASSUME NEW queue \in Seq(Nat)
  PROVE  /\ Batches(queue) \subseteq Seq(Nat)
         /\ \A k \in DOMAIN queue :
              \E batch \in Batches(queue) : \E j \in DOMAIN batch : batch[j] = queue[k]
<1>1. /\ BatchSize \in Nat \ {0} /\ Len(queue) \in Nat /\ DOMAIN queue = 1..Len(queue)
      /\ \A k \in 1..Len(queue) : queue[k] \in Nat
  BY TracingAssumption, ElementOfSeq
<1>2. ASSUME NEW first \in 1..Len(queue), NEW last,
             last = Least(first + BatchSize - 1, Len(queue))
      PROVE  /\ SubSeq(queue, first, last) \in Seq(Nat)
             /\ Len(SubSeq(queue, first, last)) = last - first + 1
             /\ \A j \in 1..last - first + 1 :
                  SubSeq(queue, first, last)[j] = queue[first + j - 1]
  <2>0. PICK end \in Nat : end = first + BatchSize - 1 /\ end >= first
    BY <1>1
  <2>1. last \in first..Len(queue)
    BY <1>1, <1>2, <2>0, LeastIsOne
  <2>2. \A j \in first..last : queue[j] \in Nat
    BY <1>1, <2>1
  <2> QED BY <1>1, <2>1, <2>2, SubSeqProperties
<1>3. Batches(queue) \subseteq Seq(Nat)
  BY <1>2 DEF Batches
<1>4. ASSUME NEW k \in DOMAIN queue
      PROVE  \E batch \in Batches(queue) : \E j \in DOMAIN batch : batch[j] = queue[k]
  <2>1. k \in 1..Len(queue) /\ k - 1 \in Nat
    BY <1>1
  <2>2. PICK q \in Nat, r \in 0..BatchSize - 1 : k - 1 = BatchSize * q + r
    BY <1>1, <2>1, DivisionByBatch
  <2>3. PICK first \in Nat : first = BatchSize * q + 1
    BY <1>1
  <2>4. first \in 1..Len(queue) /\ k = first + r
    BY <1>1, <2>1, <2>2, <2>3
  <2>5. (first - 1) % BatchSize = 0
    <3>1. first - 1 = BatchSize * q
      BY <1>1, <2>3
    <3> QED BY <1>1, <3>1, MultiplesDivide
  <2>6. PICK last : last = Least(first + BatchSize - 1, Len(queue))
    OBVIOUS
  <2>7. last \in Nat /\ first <= k /\ k <= last
    <3>1. PICK end \in Nat : end = first + BatchSize - 1 /\ k <= end
      BY <1>1, <2>4
    <3> QED BY <1>1, <2>1, <2>4, <2>6, <3>1, LeastIsOne
  <2>8. SubSeq(queue, first, last) \in Batches(queue)
    BY <2>4, <2>5, <2>6 DEF Batches
  <2>9. PICK batch : batch = SubSeq(queue, first, last)
    OBVIOUS
  <2>10. k - first + 1 \in DOMAIN batch /\ batch[k - first + 1] = queue[k]
    BY <1>2, <2>4, <2>6, <2>7, <2>9
  <2>11. batch \in Batches(queue)
    BY <2>8, <2>9
  <2> QED BY <2>10, <2>11
<1> QED BY <1>3, <1>4

Providers == Apps \cup {Imported, Nobody}
Span == [of : Providers, kind : {"method", "http"}, call : Nat,
         state : {"idle", "open", "ended", "posted", "lost", "left"}]
Waits(a, i) ==
  \/ \E k \in DOMAIN buffer[a] : buffer[a][k] = i
  \/ \E e \in exports : e.of = a /\ \E k \in DOMAIN e.batch : e.batch[k] = i

TracingTyped ==
  /\ life \in [Apps -> {"planned", "up", "stopping", "down", "rejected"}]
  /\ registered \in Providers /\ tracer \in [Apps -> Providers]
  /\ spans \in Seq(Span) /\ buffer \in [Apps -> Seq(Nat)]
  /\ exports \subseteq [of : Apps, batch : Seq(Nat), awaited : BOOLEAN]

TracingInv ==
  /\ TracingTyped
  /\ \A i \in DOMAIN spans :
       spans[i].state = "ended" => spans[i].of \in Apps /\ Waits(spans[i].of, i)
  /\ \A a \in Apps : life[a] \in {"stopping", "down", "rejected"} => buffer[a] = <<>>
  /\ \A a \in Apps : life[a] = "down" => Flushed(a)

LEMMA InitTracingInv == TracingInit => TracingInv
<1> SUFFICES ASSUME TracingInit PROVE TracingInv
  OBVIOUS
<1>1. /\ spans = <<>> /\ exports = {} /\ registered = Imported
      /\ life = [a \in Apps |-> "planned"]
      /\ tracer = [a \in Apps |-> Nobody] /\ buffer = [a \in Apps |-> <<>>]
  BY DEF TracingInit, TracingStart
<1> QED BY <1>1 DEF TracingInv, TracingTyped, Providers

\* A span that ends goes to the buffer of a provider that is up, or is lost.
LEMMA SpanEndsKeeps ==
  ASSUME TracingInv, NEW i \in DOMAIN spans, SpanEnds(i),
         UNCHANGED <<tracingSettings, life, registered, tracer, exports>>
  PROVE  TracingInv'
<1>1. /\ spans \in Seq(Span) /\ DOMAIN spans = 1..Len(spans) /\ Len(spans) \in Nat
      /\ i \in Nat /\ spans[i] \in Span /\ buffer \in [Apps -> Seq(Nat)]
      /\ \A j \in DOMAIN spans : spans[j] \in Span
  BY ElementOfSeq DEF TracingInv, TracingTyped
<1>2. PICK fate \in {"ended", "lost"} :
         /\ spans' = [spans EXCEPT ![i].state = fate]
         /\ IF fate = "ended"
            THEN /\ Takes(spans[i].of)
                 /\ buffer' = [buffer EXCEPT ![spans[i].of] = Append(@, i)]
            ELSE UNCHANGED buffer
  BY DEF SpanEnds
<1>3. /\ spans' \in Seq(Span) /\ DOMAIN spans' = DOMAIN spans
      /\ \A j \in DOMAIN spans : j # i => spans'[j] = spans[j]
      /\ spans'[i].of = spans[i].of /\ spans'[i].state = fate
  <2>1. PICK new : new = [spans[i] EXCEPT !.state = fate]
    OBVIOUS
  <2>2. new \in Span /\ new.of = spans[i].of /\ new.state = fate
    BY <1>1, <2>1 DEF Span
  <2>3. spans' = [spans EXCEPT ![i] = new]
    BY <1>2, <2>1
  <2> QED BY <1>1, <2>2, <2>3, ExceptSeq
<1>4. CASE fate = "lost"
  <2>1. buffer' = buffer /\ \A a, j : Waits(a, j)' = Waits(a, j)
    BY <1>2, <1>4 DEF Waits
  <2> QED BY <1>3, <1>4, <2>1 DEF TracingInv, TracingTyped, Flushed
<1>5. CASE fate = "ended"
  <2>1. PICK a \in Apps : a = spans[i].of /\ life[a] = "up"
    BY <1>2, <1>5 DEF Takes
  <2>2. buffer' = [buffer EXCEPT ![a] = Append(buffer[a], i)]
    BY <1>2, <1>5, <2>1
  <2>3. /\ buffer[a] \in Seq(Nat) /\ Append(buffer[a], i) \in Seq(Nat)
        /\ \A k \in DOMAIN buffer[a] : k \in DOMAIN Append(buffer[a], i)
                                       /\ Append(buffer[a], i)[k] = buffer[a][k]
        /\ \E k \in DOMAIN Append(buffer[a], i) : Append(buffer[a], i)[k] = i
    <3>1. buffer[a] \in Seq(Nat)
      BY <1>1
    <3>2. /\ Len(Append(buffer[a], i)) = Len(buffer[a]) + 1 /\ Append(buffer[a], i) \in Seq(Nat)
          /\ Append(buffer[a], i)[Len(buffer[a]) + 1] = i
          /\ \A k \in 1..Len(buffer[a]) : Append(buffer[a], i)[k] = buffer[a][k]
      BY <1>1, <3>1, AppendProperties
    <3> QED BY <3>1, <3>2
  <2>4. /\ buffer' \in [Apps -> Seq(Nat)] /\ buffer'[a] = Append(buffer[a], i)
        /\ \A b \in Apps \ {a} : buffer'[b] = buffer[b]
    BY <1>1, <2>2, <2>3
  <2>5. \A b \in Apps : \A j \in DOMAIN spans : Waits(b, j) => Waits(b, j)'
    <3> SUFFICES ASSUME NEW b \in Apps, NEW j \in DOMAIN spans, Waits(b, j)
                 PROVE  Waits(b, j)'
      OBVIOUS
    <3>1. CASE \E k \in DOMAIN buffer[b] : buffer[b][k] = j
      BY <2>3, <2>4, <3>1 DEF Waits
    <3>2. CASE ~\E k \in DOMAIN buffer[b] : buffer[b][k] = j
      BY <3>2 DEF Waits
    <3> QED BY <3>1, <3>2
  <2>6. Waits(a, i)'
    BY <2>3, <2>4 DEF Waits
  <2>7. (\A j \in DOMAIN spans :
            spans[j].state = "ended" => spans[j].of \in Apps /\ Waits(spans[j].of, j))'
    <3> SUFFICES ASSUME NEW j \in DOMAIN spans, spans'[j].state = "ended"
                 PROVE  spans'[j].of \in Apps /\ Waits(spans[j].of, j)'
      BY <1>3
    <3>1. PICK b \in Apps : b = spans'[j].of /\ Waits(b, j)'
      BY <1>3, <2>1, <2>5, <2>6 DEF TracingInv
    <3> QED BY <3>1 DEF Waits
  <2> QED BY <1>3, <2>1, <2>4, <2>7 DEF TracingInv, TracingTyped, Flushed
<1> QED BY <1>4, <1>5

\* New spans have not ended.
LEMMA NewSpansKeep ==
  ASSUME TracingInv, NEW new \in Seq(Span), spans' = spans \o new,
         \A k \in DOMAIN new : new[k].state # "ended",
         UNCHANGED <<tracingSettings, life, registered, tracer, buffer, exports>>
  PROVE  TracingInv'
<1>1. /\ spans \in Seq(Span) /\ DOMAIN spans = 1..Len(spans) /\ Len(spans) \in Nat
      /\ DOMAIN new = 1..Len(new) /\ Len(new) \in Nat
  BY DEF TracingInv, TracingTyped
<1>2. /\ spans' \in Seq(Span) /\ DOMAIN spans' = 1..Len(spans) + Len(new)
      /\ \A j \in DOMAIN spans : spans'[j] = spans[j]
      /\ \A j \in DOMAIN spans' : j \notin DOMAIN spans => spans'[j].state # "ended"
  <2>1. /\ spans' \in Seq(Span) /\ Len(spans') = Len(spans) + Len(new)
        /\ \A j \in 1..Len(spans') :
             spans'[j] = IF j <= Len(spans) THEN spans[j] ELSE new[j - Len(spans)]
    BY <1>1, ConcatProperties
  <2>2. \A j \in 1..Len(spans') : j \notin 1..Len(spans) => j - Len(spans) \in 1..Len(new)
    BY <1>1, <2>1
  <2> QED BY <1>1, <2>1, <2>2
<1>3. \A a, j : Waits(a, j)' = Waits(a, j)
  BY DEF Waits
<1> QED BY <1>1, <1>2, <1>3 DEF TracingInv, TracingTyped, Flushed

LEMMA StepTracingInv == TracingInv /\ [TracingNext]_tracingVars => TracingInv'
<1> SUFFICES ASSUME TracingInv, [TracingNext]_tracingVars PROVE TracingInv'
  OBVIOUS
<1>0. /\ spans \in Seq(Span) /\ DOMAIN spans = 1..Len(spans) /\ Len(spans) \in Nat
      /\ buffer \in [Apps -> Seq(Nat)] /\ registered \in Providers
      /\ life \in [Apps -> {"planned", "up", "stopping", "down", "rejected"}]
      /\ tracer \in [Apps -> Providers]
      /\ exports \subseteq [of : Apps, batch : Seq(Nat), awaited : BOOLEAN]
      /\ BatchSize \in Nat \ {0}
      /\ \A j \in DOMAIN spans : spans[j] \in Span
  BY TracingAssumption, ElementOfSeq DEF TracingInv, TracingTyped
<1>1. CASE CallBegins
  <2>1. PICK n \in Nat \ {0} : n = Len(spans) + 1
    BY <1>0
  <2>2. PICK span : span = NewSpan(registered, "method", n)
    OBVIOUS
  <2>3. span \in Span /\ span.state \in {"idle", "open"}
    BY <1>0, <2>1, <2>2 DEF NewSpan, Span
  <2>4. CASE spans' = Append(spans, [span EXCEPT !.state = "left"])
    <3>1. PICK x : x = [span EXCEPT !.state = "left"]
      OBVIOUS
    <3>2. x \in Span /\ x.state = "left"
      BY <2>3, <3>1 DEF Span
    <3>0. spans' = Append(spans, x)
      BY <2>4, <3>1
    <3>3. spans' = spans \o <<x>> /\ <<x>> \in Seq(Span)
      BY <1>0, <3>0, <3>2, AppendIsConcat
    <3>4. \A k \in DOMAIN <<x>> : <<x>>[k].state # "ended"
      BY <3>2
    <3> QED BY <1>1, <3>3, <3>4, NewSpansKeep DEF CallBegins
  <2>5. CASE spans' = spans \o [i \in 1..SpansPerCall |-> span]
    <3>1. SpansPerCall \in Nat
      BY DEF SpansPerCall
    <3>2. PICK new : new = [i \in 1..SpansPerCall |-> span]
      OBVIOUS
    <3>3. new \in Seq(Span) /\ \A k \in DOMAIN new : new[k].state # "ended"
      BY <2>3, <3>1, <3>2
    <3> QED BY <1>1, <2>5, <3>2, <3>3, NewSpansKeep DEF CallBegins
  <2> QED BY <1>1, <2>1, <2>2, <2>4, <2>5 DEF CallBegins
<1>2. ASSUME NEW a \in Apps, TraceBegins(a) PROVE TracingInv'
  <2>1. PICK n \in Nat : n = Len(spans) + 1
    BY <1>0
  <2>2. PICK span : span = NewSpan(tracer[a], "http", n)
    OBVIOUS
  <2>3. span \in Span /\ span.state \in {"idle", "open"}
    BY <1>0, <2>2 DEF NewSpan, Span
  <2>a. spans' = Append(spans, span)
    BY <1>2, <2>1, <2>2 DEF TraceBegins, StartSpan
  <2>4. spans' = spans \o <<span>> /\ <<span>> \in Seq(Span)
    BY <1>0, <2>3, <2>a, AppendIsConcat
  <2>5. \A k \in DOMAIN <<span>> : <<span>>[k].state # "ended"
    BY <2>3
  <2> QED BY <1>2, <2>4, <2>5, NewSpansKeep DEF TraceBegins
<1>3. ASSUME NEW i \in DOMAIN spans, CallEnds(i) PROVE TracingInv'
  BY <1>3, SpanEndsKeeps DEF CallEnds
<1>4. ASSUME NEW i \in DOMAIN spans, EndHttpTrace(i) PROVE TracingInv'
  <2>1. CASE SpanEnds(i)
    BY <1>4, <2>1, SpanEndsKeeps DEF EndHttpTrace
  <2>2. CASE spans' = [spans EXCEPT ![i].state = "left"] /\ UNCHANGED buffer
    <3>1. PICK new : new = [spans[i] EXCEPT !.state = "left"]
      OBVIOUS
    <3>2. new \in Span /\ new.state = "left"
      BY <1>0, <3>1 DEF Span
    <3>3. spans' = [spans EXCEPT ![i] = new]
      BY <2>2, <3>1
    <3>4. /\ spans' \in Seq(Span) /\ DOMAIN spans' = DOMAIN spans /\ spans'[i].state = "left"
          /\ \A j \in DOMAIN spans : j # i => spans'[j] = spans[j]
      BY <1>0, <3>2, <3>3, ExceptSeq
    <3>5. \A a, j : Waits(a, j)' = Waits(a, j)
      BY <1>4, <2>2 DEF EndHttpTrace, Waits
    <3> QED BY <1>4, <2>2, <3>4, <3>5 DEF EndHttpTrace, TracingInv, TracingTyped, Flushed
  <2> QED BY <1>4, <2>1, <2>2 DEF EndHttpTrace, EndSpan
<1>5. ASSUME NEW a \in Apps, StartTracing(a) PROVE TracingInv'
  <2>1. /\ life' = [life EXCEPT ![a] = "up"] /\ UNCHANGED <<spans, buffer, exports>>
        /\ registered' \in Providers /\ tracer' \in [Apps -> Providers]
    <3>1. Register(a) \in Providers
      BY <1>0 DEF Register, Providers
    <3> QED BY <1>0, <1>5, <3>1 DEF StartTracing
  <2>2. \A b, j : Waits(b, j)' = Waits(b, j)
    BY <2>1 DEF Waits
  <2> QED BY <1>0, <2>1, <2>2 DEF TracingInv, TracingTyped, Flushed
<1>6. ASSUME NEW a \in Apps, Flush(a) PROVE TracingInv'
  <2>1. PICK size : size = Least(BatchSize, Len(buffer[a]))
    OBVIOUS
  <2>2. /\ buffer[a] \in Seq(Nat) /\ Len(buffer[a]) \in Nat /\ buffer[a] # <<>>
        /\ DOMAIN buffer[a] = 1..Len(buffer[a])
        /\ \A k \in 1..Len(buffer[a]) : buffer[a][k] \in Nat
    BY <1>0, <1>6, ElementOfSeq DEF Flush
  <2>3. size \in 1..Len(buffer[a])
    BY <1>0, <2>1, <2>2, LeastIsOne, EmptySeq
  <2>4. PICK first : first = SubSeq(buffer[a], 1, size)
    OBVIOUS
  <2>5. PICK rest : rest = SubSeq(buffer[a], size + 1, Len(buffer[a]))
    OBVIOUS
  <2>6. first \in Seq(Nat) /\ Len(first) = size /\ \A k \in 1..size : first[k] = buffer[a][k]
    <3>1. \A k \in 1..size : buffer[a][k] \in Nat
      BY <2>2, <2>3
    <3> QED BY <2>2, <2>3, <2>4, <3>1, SubSeqProperties
  <2>7. /\ rest \in Seq(Nat) /\ Len(rest) = Len(buffer[a]) - size
        /\ \A k \in 1..Len(buffer[a]) - size : rest[k] = buffer[a][size + k]
    <3>1. \A k \in size + 1..Len(buffer[a]) : buffer[a][k] \in Nat
      BY <2>2, <2>3
    <3> QED BY <2>2, <2>3, <2>5, <3>1, SubSeqProperties
  <2>8. /\ exports' = exports \cup {Export(a, first, FALSE)}
        /\ buffer' = [buffer EXCEPT ![a] = rest]
        /\ UNCHANGED <<life, registered, tracer, spans>> /\ life[a] = "up"
    BY <1>6, <2>1, <2>4, <2>5 DEF Flush
  <2>c. PICK e : e = Export(a, first, FALSE)
    OBVIOUS
  <2>9. /\ e.of = a /\ e.batch = first /\ ~e.awaited /\ e \in exports'
        /\ e \in [of : Apps, batch : Seq(Nat), awaited : BOOLEAN]
    BY <2>6, <2>8, <2>c DEF Export
  <2>10. \A b \in Apps : \A j \in DOMAIN spans : Waits(b, j) => Waits(b, j)'
    <3> SUFFICES ASSUME NEW b \in Apps, NEW j \in DOMAIN spans, Waits(b, j)
                 PROVE  Waits(b, j)'
      OBVIOUS
    <3>1. CASE \E d \in exports : d.of = b /\ \E k \in DOMAIN d.batch : d.batch[k] = j
      BY <2>8, <3>1 DEF Waits
    <3>2. CASE b # a /\ \E k \in DOMAIN buffer[b] : buffer[b][k] = j
      BY <1>0, <2>8, <3>2 DEF Waits
    <3>3. CASE b = a /\ \E k \in DOMAIN buffer[a] : buffer[a][k] = j
      <4>1. PICK k \in 1..Len(buffer[a]) : buffer[a][k] = j
        BY <2>2, <3>3
      <4>2. CASE k <= size
        <5>1. k \in DOMAIN first /\ first[k] = j
          BY <2>3, <2>6, <4>1, <4>2
        <5> QED BY <2>8, <2>9, <3>3, <5>1 DEF Waits
      <4>3. CASE k > size
        <5>0. PICK m \in Nat : m = k - size
          BY <2>2, <2>3, <4>1, <4>3
        <5>a. k = size + m /\ m \in 1..Len(buffer[a]) - size
          BY <2>2, <2>3, <4>1, <4>3, <5>0
        <5>1. m \in DOMAIN rest /\ rest[m] = j
          BY <2>7, <4>1, <5>a
        <5>2. buffer'[a] = rest
          BY <1>0, <2>8
        <5> QED BY <3>3, <5>1, <5>2 DEF Waits
      <4> QED BY <2>3, <4>2, <4>3
    <3> QED BY <3>1, <3>2, <3>3 DEF Waits
  <2>11. buffer' \in [Apps -> Seq(Nat)] /\ \A b \in Apps \ {a} : buffer'[b] = buffer[b]
    BY <1>0, <2>7, <2>8
  <2> QED BY <1>0, <2>8, <2>9, <2>c, <2>10, <2>11 DEF TracingInv, TracingTyped, Flushed
<1>7. ASSUME NEW e \in exports, Answer(e) PROVE TracingInv'
  <2>1. PICK outcome \in {"posted", "lost"} :
           spans' = [i \in DOMAIN spans |->
                       IF \E k \in DOMAIN e.batch : e.batch[k] = i
                       THEN [spans[i] EXCEPT !.state = outcome] ELSE spans[i]]
    BY <1>7 DEF Answer
  <2>2. \A i \in DOMAIN spans :
          /\ spans'[i] \in Span /\ spans'[i].of = spans[i].of
          /\ spans'[i].state = "ended" =>
               spans[i].state = "ended" /\ ~\E k \in DOMAIN e.batch : e.batch[k] = i
    BY <1>0, <2>1 DEF Span
  <2>3. spans' \in Seq(Span) /\ DOMAIN spans' = DOMAIN spans
    BY <1>0, <2>1, <2>2
  <2>4. exports' = exports \ {e} /\ UNCHANGED <<life, registered, tracer, buffer>>
    BY <1>7 DEF Answer
  <2>5. \A a, i : Waits(a, i) /\ ~(\E k \in DOMAIN e.batch : e.batch[k] = i) => Waits(a, i)'
    BY <2>4 DEF Waits
  <2>6. (\A i \in DOMAIN spans :
            spans[i].state = "ended" => spans[i].of \in Apps /\ Waits(spans[i].of, i))'
    <3> SUFFICES ASSUME NEW i \in DOMAIN spans, spans'[i].state = "ended"
                 PROVE  spans'[i].of \in Apps /\ Waits(spans[i].of, i)'
      BY <2>3
    <3>1. PICK b \in Apps : b = spans'[i].of /\ Waits(b, i)'
      BY <2>2, <2>5 DEF TracingInv
    <3> QED BY <3>1 DEF Waits
  <2> QED BY <2>3, <2>4, <2>6 DEF TracingInv, TracingTyped, Flushed
<1>8. ASSUME NEW a \in Apps, Stop(a) PROVE TracingInv'
  <2>1. /\ life' = [life EXCEPT ![a] = "stopping"] /\ life[a] = "up"
        /\ exports' = exports \cup {Export(a, batch, TRUE) : batch \in Batches(buffer[a])}
        /\ buffer' = [buffer EXCEPT ![a] = <<>>]
        /\ UNCHANGED <<registered, tracer, spans>>
    BY <1>8 DEF Stop, OnShutdown
  <2>2. /\ buffer[a] \in Seq(Nat) /\ Batches(buffer[a]) \subseteq Seq(Nat)
        /\ \A k \in DOMAIN buffer[a] :
             \E batch \in Batches(buffer[a]) : \E j \in DOMAIN batch : batch[j] = buffer[a][k]
    BY <1>0, BatchesCover
  <2>3. \A batch \in Seq(Nat) :
          /\ Export(a, batch, TRUE) \in [of : Apps, batch : Seq(Nat), awaited : BOOLEAN]
          /\ Export(a, batch, TRUE).of = a /\ Export(a, batch, TRUE).batch = batch
    BY DEF Export
  <2>4. /\ exports' \subseteq [of : Apps, batch : Seq(Nat), awaited : BOOLEAN]
        /\ \A e \in exports' : e \in exports \/ e.of = a
    <3> SUFFICES ASSUME NEW e \in exports', e \notin exports
                 PROVE  e \in [of : Apps, batch : Seq(Nat), awaited : BOOLEAN] /\ e.of = a
      BY <1>0
    <3>1. PICK batch \in Batches(buffer[a]) : e = Export(a, batch, TRUE)
      BY <2>1
    <3>2. batch \in Seq(Nat)
      BY <2>2
    <3> QED BY <2>3, <3>1, <3>2
  <2>5. /\ buffer' \in [Apps -> Seq(Nat)] /\ buffer'[a] = <<>>
        /\ \A b \in Apps \ {a} : buffer'[b] = buffer[b]
    BY <1>0, <2>1
  <2>6. \A b \in Apps : \A j \in DOMAIN spans : Waits(b, j) => Waits(b, j)'
    <3> SUFFICES ASSUME NEW b \in Apps, NEW j \in DOMAIN spans, Waits(b, j)
                 PROVE  Waits(b, j)'
      OBVIOUS
    <3>1. CASE \E d \in exports : d.of = b /\ \E k \in DOMAIN d.batch : d.batch[k] = j
      BY <2>1, <3>1 DEF Waits
    <3>2. CASE b # a /\ \E k \in DOMAIN buffer[b] : buffer[b][k] = j
      BY <2>5, <3>2 DEF Waits
    <3>3. CASE b = a /\ \E k \in DOMAIN buffer[a] : buffer[a][k] = j
      <4>1. PICK batch \in Batches(buffer[a]) : \E k \in DOMAIN batch : batch[k] = j
        BY <2>2, <3>3
      <4>2. PICK e : e = Export(a, batch, TRUE) /\ e.of = a /\ e.batch = batch
        BY <2>2, <2>3
      <4>3. e \in exports'
        BY <2>1, <4>2
      <4> QED BY <3>3, <4>1, <4>2, <4>3 DEF Waits
    <3> QED BY <3>1, <3>2, <3>3 DEF Waits
  <2>7. \A b \in Apps \ {a} : Flushed(b) => Flushed(b)'
    BY <2>4 DEF Flushed
  <2>8. life' \in [Apps -> {"planned", "up", "stopping", "down", "rejected"}] /\ life'[a] = "stopping"
        /\ \A b \in Apps \ {a} : life'[b] = life[b]
    BY <1>0, <2>1
  <2> QED BY <2>1, <2>4, <2>5, <2>6, <2>7, <2>8 DEF TracingInv, TracingTyped
<1>9. ASSUME NEW a \in Apps, StopEnds(a) PROVE TracingInv'
  <2>1. \A b, j : Waits(b, j)' = Waits(b, j)
    BY <1>9 DEF StopEnds, Waits
  <2>2. /\ life' = [life EXCEPT ![a] = "down"] /\ life[a] \in {"stopping", "down"} /\ Flushed(a)
        /\ registered' = Nobody /\ UNCHANGED <<tracer, spans, buffer, exports>>
    BY <1>9 DEF StopEnds
  <2> QED BY <1>0, <2>1, <2>2 DEF TracingInv, TracingTyped, Flushed, Providers
<1>10. CASE UNCHANGED tracingVars
  BY <1>10 DEF tracingVars, TracingInv, TracingTyped, Flushed, Waits
<1>11. ASSUME NEW a \in Apps, StartHttpTrace(a) PROVE TracingInv'
  BY <1>2, <1>11 DEF StartHttpTrace
<1>12. ASSUME NEW a \in Apps, StopFails(a) PROVE TracingInv'
  <2>1. \A b, j : Waits(b, j)' = Waits(b, j)
    BY <1>12 DEF StopFails, Waits
  <2>2. /\ life' = [life EXCEPT ![a] = "rejected"] /\ life[a] = "stopping"
        /\ UNCHANGED <<registered, tracer, spans, buffer, exports>>
    BY <1>12 DEF StopFails
  <2> QED BY <1>0, <2>1, <2>2 DEF TracingInv, TracingTyped, Flushed
<1> QED BY <1>1, <1>2, <1>3, <1>4, <1>5, <1>6, <1>7, <1>8, <1>9, <1>10, <1>11, <1>12 DEF TracingNext

\* When an application's stop() has got past the trace service, which it never does once
\* an export of the flush has failed, its provider keeps no span back but those of the
\* export that was under way.
THEOREM StoppedIsFlushed == TracingSpec => []FlushedWhenStopped
<1>1. TracingInv => FlushedWhenStopped
  <2> SUFFICES ASSUME TracingInv, NEW a \in Apps, life[a] = "down", NEW i \in DOMAIN spans,
                      spans[i].of = a, spans[i].state = "ended"
               PROVE  \E e \in exports : e.of = a /\ ~e.awaited
                                         /\ \E k \in DOMAIN e.batch : e.batch[k] = i
    BY DEF FlushedWhenStopped
  <2>1. Waits(a, i) /\ buffer[a] = <<>> /\ Flushed(a)
    BY DEF TracingInv
  <2>2. ~\E k \in DOMAIN buffer[a] : buffer[a][k] = i
    BY <2>1
  <2> QED BY <2>1, <2>2 DEF Waits, Flushed
<1> QED BY <1>1, InitTracingInv, StepTracingInv, PTL DEF TracingSpec
=============================================================================
