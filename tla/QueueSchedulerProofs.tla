------------------------- MODULE QueueSchedulerProofs -------------------------
(***************************************************************************)
(* Proofs about QueueScheduler for every set of names and every bound.      *)
(*                                                                          *)
(* The inductive invariant adds three facts to the properties themselves:   *)
(* objects not created yet are untouched, a handle in the Map is never a    *)
(* spent one (so startIntervalJob's `if (job.timer) return` never keeps a   *)
(* dead timer), and for a 'skip' job the shared flag isRunning says exactly *)
(* whether its one run is in flight.                                        *)
(*                                                                          *)
(* Then proofs about NatsQueue: NatsInv says what the consumer has counted  *)
(* and filtered, and that what a buffer loses was let go of or has reached  *)
(* a handler.  Last, CronSchedule: a search has never passed a match, since *)
(* a setter of Date makes the first local time that is not before what it   *)
(* is given.                                                                *)
(***************************************************************************)
EXTENDS QueueScheduler, NatsQueue, CronSchedule, WellFoundedInduction, TLAPS

Untouched(j) ==
  /\ timer[j] = "none"
  /\ ~paused[j]
  /\ ~isRunning[j]
  /\ fetching[j] = 0
  /\ publishing[j] = 0

FreshObjects == \A j \in Job : j > created => Untouched(j)

NoSpentHandles ==
  \A j \in Job : /\ Mapped(j) => timer[j] # "spent"
                 /\ ~Timed(j) => timer[j] = "none"

RunsBounded == \A j \in Job : InFlight(j) <= MaxRuns

SkipFlagExact ==
  \A j \in Job : SkipJob(j) =>
    /\ InFlight(j) <= 1
    /\ isRunning[j] <=> InFlight(j) = 1

IInv ==
  /\ TypeOK
  /\ FreshObjects
  /\ NoSpentHandles
  /\ RunsBounded
  /\ ArmedIffScheduled
  /\ SkipFlagExact

-----------------------------------------------------------------------------
\* A run is started or it is not: what StartRuns(S) does to one job.
LEMMA StartRunsEffect ==
  ASSUME TypeOK, NEW S \in SUBSET Job, StartRuns(S)
  PROVE  /\ isRunning' \in [Job -> BOOLEAN]
         /\ fetching' \in [Job -> 0..MaxRuns]
         /\ publishing' \in [Job -> 0..MaxRuns]
         /\ \A j \in S : /\ isRunning'[j]
                         /\ fetching'[j] + publishing'[j] = fetching[j] + publishing[j] + 1
                         /\ fetching'[j] + publishing'[j] <= MaxRuns
         /\ \A j \in Job \ S : /\ isRunning'[j] = isRunning[j]
                               /\ fetching'[j] = fetching[j]
                               /\ publishing'[j] = publishing[j]
<1>1. isRunning' \in [Job -> BOOLEAN]
  BY DEF StartRuns, TypeOK
<1>2. \A j \in S : /\ isRunning'[j]
                   /\ fetching'[j] + publishing'[j] = fetching[j] + publishing[j] + 1
                   /\ fetching'[j] + publishing'[j] <= MaxRuns
                   /\ fetching'[j] \in 0..MaxRuns
                   /\ publishing'[j] \in 0..MaxRuns
  <2> TAKE j \in S
  <2>1. /\ j \in Job /\ fetching[j] \in 0..MaxRuns /\ publishing[j] \in 0..MaxRuns
        /\ fetching[j] + publishing[j] < MaxRuns
    BY DEF TypeOK, StartRuns, InFlight
  <2>2. CASE decl[j].provider
    <3>1. fetching'[j] = fetching[j] + 1 /\ publishing'[j] = publishing[j] /\ isRunning'[j]
      BY <2>1, <2>2 DEF StartRuns
    <3> QED BY <2>1, <3>1, BoundsAssumption
  <2>3. CASE ~decl[j].provider
    <3>1. fetching'[j] = fetching[j] /\ publishing'[j] = publishing[j] + 1 /\ isRunning'[j]
      BY <2>1, <2>3 DEF StartRuns
    <3> QED BY <2>1, <3>1, BoundsAssumption
  <2> QED BY <2>2, <2>3
<1>3. \A j \in Job \ S : /\ isRunning'[j] = isRunning[j]
                         /\ fetching'[j] = fetching[j]
                         /\ publishing'[j] = publishing[j]
  BY DEF StartRuns, TypeOK
<1>4. fetching' \in [Job -> 0..MaxRuns] /\ publishing' \in [Job -> 0..MaxRuns]
  <2>1. \A j \in Job : fetching'[j] \in 0..MaxRuns /\ publishing'[j] \in 0..MaxRuns
    BY <1>2, <1>3 DEF TypeOK
  <2>2. /\ fetching' = [j \in Job |-> fetching'[j]]
        /\ publishing' = [j \in Job |-> publishing'[j]]
    BY DEF StartRuns
  <2> QED BY <2>1, <2>2
<1> QED BY <1>1, <1>2, <1>3, <1>4

\* The overlap strategy is a cron job's: interval and timeout jobs have none.
LEMMA SkipIsCron ==
  ASSUME TypeOK, NEW j \in Job, SkipJob(j)
  PROVE  decl[j].type = "cron" /\ ~Timed(j)
BY DEF TypeOK, SkipJob, Decl, Timed

\* Every job object was declared under one of the names.
LEMMA DeclName ==
  ASSUME TypeOK, NEW j \in Job
  PROVE  decl[j].name \in Names
BY DEF TypeOK, Decl

\* The constructor establishes the invariant.
LEMMA InitIInv == Init => IInv
<1> SUFFICES ASSUME Init PROVE IInv
  OBVIOUS
<1>1. TypeOK
  <2>1. 0 \in 0..MaxJobs /\ 0 \in 0..MaxRuns /\ created = 0
    BY BoundsAssumption DEF Init
  <2>2. /\ jobs \in [Names -> 0..created]
        /\ \A n \in Names : jobs[n] = NoJob
    BY <2>1 DEF Init, NoJob
  <2>3. /\ fetching \in [Job -> 0..MaxRuns]
        /\ publishing \in [Job -> 0..MaxRuns]
    BY <2>1 DEF Init
  <2>4. /\ running \in BOOLEAN
        /\ decl \in [Job -> Decl]
        /\ lasts \in [Job -> BOOLEAN]
        /\ timer \in [Job -> TimerState]
        /\ paused \in [Job -> BOOLEAN]
        /\ isRunning \in [Job -> BOOLEAN]
        /\ due \in [Job -> BOOLEAN]
    BY DEF Init, TimerState
  <2> QED BY <2>1, <2>2, <2>3, <2>4 DEF TypeOK
<1>2. \A j \in Job : ~Mapped(j) /\ InFlight(j) = 0 /\ ~isRunning[j] /\ timer[j] = "none"
  BY DEF Init, Mapped, Exists, InFlight, Job
<1>3. FreshObjects
  BY DEF Init, FreshObjects, Untouched
<1> QED
  BY <1>1, <1>2, <1>3, BoundsAssumption
     DEF IInv, NoSpentHandles, RunsBounded, ArmedIffScheduled, SkipFlagExact

\* Starting runs of jobs that are not 'skip' jobs in flight keeps the facts about
\* runs, whatever else the callback does.
LEMMA StartRunsInv ==
  ASSUME IInv, NEW S \in SUBSET Job, StartRuns(S), decl' = decl,
         \A j \in S : SkipJob(j) => ~isRunning[j]
  PROVE  /\ RunsBounded' /\ SkipFlagExact'
         /\ isRunning' \in [Job -> BOOLEAN]
         /\ fetching' \in [Job -> 0..MaxRuns]
         /\ publishing' \in [Job -> 0..MaxRuns]
         /\ \A j \in Job \ S : /\ isRunning'[j] = isRunning[j]
                               /\ fetching'[j] = fetching[j]
                               /\ publishing'[j] = publishing[j]
<1>1. /\ isRunning' \in [Job -> BOOLEAN]
      /\ fetching' \in [Job -> 0..MaxRuns]
      /\ publishing' \in [Job -> 0..MaxRuns]
      /\ \A j \in S : /\ isRunning'[j]
                      /\ fetching'[j] + publishing'[j] = fetching[j] + publishing[j] + 1
                      /\ fetching'[j] + publishing'[j] <= MaxRuns
      /\ \A j \in Job \ S : /\ isRunning'[j] = isRunning[j]
                            /\ fetching'[j] = fetching[j]
                            /\ publishing'[j] = publishing[j]
  BY StartRunsEffect DEF IInv
<1>2. RunsBounded'
  BY <1>1 DEF IInv, RunsBounded, InFlight
<1>3. SkipFlagExact'
  <2> SUFFICES ASSUME NEW j \in Job, SkipJob(j)
               PROVE  InFlight(j)' <= 1 /\ (isRunning'[j] <=> InFlight(j)' = 1)
    BY DEF SkipFlagExact, SkipJob
  <2>1. CASE j \in S
    <3>1. InFlight(j) = 0
      <4>1. ~isRunning[j] /\ fetching[j] \in 0..MaxRuns /\ publishing[j] \in 0..MaxRuns
        BY <2>1 DEF IInv, TypeOK
      <4>2. InFlight(j) <= 1 /\ (isRunning[j] <=> InFlight(j) = 1)
        BY DEF IInv, SkipFlagExact
      <4> QED BY <4>1, <4>2, BoundsAssumption DEF InFlight
    <3> QED BY <1>1, <2>1, <3>1 DEF InFlight
  <2>2. CASE j \notin S
    BY <1>1, <2>2 DEF IInv, SkipFlagExact, InFlight
  <2> QED BY <2>1, <2>2
<1> QED BY <1>1, <1>2, <1>3

\* start() arms exactly the unpaused timed jobs of the Map, so the invariant holds.
LEMMA StartIInv == IInv /\ Start => IInv'
<1> SUFFICES ASSUME IInv, Start PROVE IInv'
  OBVIOUS
<1> DEFINE toArm == {j \in Job : Mapped(j) /\ Timed(j) /\ lasts[j] /\ ~paused[j] /\ timer[j] = "none"}
<1> DEFINE S == {j \in toArm : decl[j].type = "interval"}
<1>1. /\ TypeOK /\ StartRuns(S) /\ S \in SUBSET Job
      /\ UNCHANGED <<jobs, created, decl, lasts, paused, due>>
      /\ running' = TRUE /\ ~running
      /\ timer' = [j \in Job |-> IF j \in toArm THEN "armed" ELSE timer[j]]
  BY DEF Start, IInv
<1>2. \A j \in S : Mapped(j) /\ ~SkipJob(j)
  BY <1>1, SkipIsCron
<1> HIDE DEF S
<1>3. /\ RunsBounded' /\ SkipFlagExact'
      /\ isRunning' \in [Job -> BOOLEAN]
      /\ fetching' \in [Job -> 0..MaxRuns]
      /\ publishing' \in [Job -> 0..MaxRuns]
      /\ \A j \in Job \ S : /\ isRunning'[j] = isRunning[j]
                            /\ fetching'[j] = fetching[j]
                            /\ publishing'[j] = publishing[j]
  BY <1>1, <1>2, StartRunsInv
<1>4. TypeOK'
  BY <1>1, <1>3 DEF TypeOK, TimerState
<1>5. FreshObjects'
  <2> SUFFICES ASSUME NEW j \in Job, j > created PROVE Untouched(j)'
    BY <1>1 DEF FreshObjects
  <2>1. ~Mapped(j) /\ j \notin S /\ Untouched(j)
    BY <1>2 DEF IInv, FreshObjects, TypeOK, Mapped, Exists, Job
  <2> QED BY <1>1, <1>3, <2>1 DEF Untouched
<1>6. NoSpentHandles'
  BY <1>1 DEF IInv, NoSpentHandles, Mapped, Exists, Timed
<1>7. ArmedIffScheduled'
  BY <1>1 DEF IInv, TypeOK, ArmedIffScheduled, NoSpentHandles, Mapped, Exists, Timed, TimerState
<1> QED BY <1>3, <1>4, <1>5, <1>6, <1>7 DEF IInv

\* A step that starts and ends no run keeps every fact about runs.
LEMMA NoRunsInv ==
  ASSUME IInv, NoRuns, decl' = decl
  PROVE  RunsBounded' /\ SkipFlagExact'
BY DEF NoRuns, IInv, RunsBounded, SkipFlagExact, InFlight, SkipJob

\* stop() clears the timer of every mapped job and keeps the invariant.
LEMMA StopIInv == IInv /\ Stop => IInv'
<1> SUFFICES ASSUME IInv, Stop PROVE IInv'
  OBVIOUS
<1>1. RunsBounded' /\ SkipFlagExact'
  BY NoRunsInv DEF Stop
<1>2. TypeOK'
  BY DEF IInv, TypeOK, TimerState, Stop, NoRuns
<1>3. FreshObjects'
  BY DEF IInv, TypeOK, FreshObjects, Untouched, Stop, NoRuns
<1>4. NoSpentHandles'
  BY DEF IInv, TypeOK, NoSpentHandles, Mapped, Exists, Timed, Stop
<1>5. ArmedIffScheduled'
  BY DEF IInv, TypeOK, ArmedIffScheduled, Mapped, Exists, Timed, Stop
<1> QED BY <1>1, <1>2, <1>3, <1>4, <1>5 DEF IInv

\* Adding a job, also under a name in use, keeps the invariant.
LEMMA AddJobIInv ==
  ASSUME IInv, NEW lasting \in BOOLEAN, AddJob(lasting)
  PROVE  IInv'
<1> DEFINE new == created + 1
           arm == running /\ Timed(new) /\ lasting
           S == IF arm /\ decl[new].type = "interval" THEN {new} ELSE {}
<1>1. /\ TypeOK /\ StartRuns(S)
      /\ UNCHANGED <<running, decl, paused, due>>
      /\ created < MaxJobs /\ created' = new
      /\ jobs' = [jobs EXCEPT ![decl[new].name] = new]
      /\ lasts' = [lasts EXCEPT ![new] = lasting]
      /\ timer' = [timer EXCEPT ![new] = IF arm THEN "armed" ELSE "none"]
  BY DEF AddJob, IInv
<1>2. new \in Job /\ created' \in 0..MaxJobs /\ decl[new].name \in Names
  <2>1. new \in Job /\ created' \in 0..MaxJobs
    BY <1>1, BoundsAssumption DEF TypeOK, Job
  <2> QED BY <1>1, <2>1 DEF TypeOK, Decl
<1>3. S \in SUBSET Job /\ \A j \in S : ~SkipJob(j)
  BY <1>1, <1>2, SkipIsCron
<1> HIDE DEF S
<1>4. /\ RunsBounded' /\ SkipFlagExact'
      /\ isRunning' \in [Job -> BOOLEAN]
      /\ fetching' \in [Job -> 0..MaxRuns]
      /\ publishing' \in [Job -> 0..MaxRuns]
      /\ \A j \in Job \ S : /\ isRunning'[j] = isRunning[j]
                            /\ fetching'[j] = fetching[j]
                            /\ publishing'[j] = publishing[j]
  BY <1>1, <1>3, StartRunsInv
<1>5. Untouched(new)
  BY <1>2 DEF IInv, TypeOK, FreshObjects
<1>6. TypeOK'
  <2>1. jobs' \in [Names -> 0..created']
    BY <1>1, <1>2 DEF TypeOK, Job
  <2>2. \A n \in Names : jobs'[n] # NoJob => decl'[jobs'[n]].name = n
    BY <1>1, <1>2 DEF TypeOK
  <2>3. timer' \in [Job -> TimerState]
    BY <1>1, <1>2 DEF TypeOK, TimerState
  <2>4. lasts' \in [Job -> BOOLEAN]
    BY <1>1, <1>2 DEF TypeOK
  <2> QED BY <1>1, <1>2, <1>4, <2>1, <2>2, <2>3, <2>4 DEF TypeOK
<1>7. FreshObjects'
  <2> SUFFICES ASSUME NEW j \in Job, j > new PROVE Untouched(j)'
    BY <1>1 DEF FreshObjects
  <2>1. j # new /\ j \notin S /\ Untouched(j)
    BY <1>1 DEF IInv, FreshObjects, TypeOK, Job, S
  <2> QED BY <1>1, <1>2, <1>4, <2>1 DEF Untouched, TypeOK
<1>8. \A j \in Job \ {new} : /\ timer'[j] = timer[j] /\ lasts'[j] = lasts[j]
                             /\ Mapped(j)' => Mapped(j)
  BY <1>1, <1>2 DEF TypeOK, Mapped, Exists, Job
<1>9. lasts'[new] = lasting /\ timer'[new] = IF arm THEN "armed" ELSE "none"
  BY <1>1, <1>2 DEF TypeOK
<1>10. NoSpentHandles'
  BY <1>1, <1>8, <1>9 DEF IInv, NoSpentHandles, Timed
<1>11. ArmedIffScheduled'
  BY <1>1, <1>5, <1>8, <1>9 DEF IInv, ArmedIffScheduled, Timed, Untouched
<1> QED BY <1>4, <1>6, <1>7, <1>10, <1>11 DEF IInv

\* The object a name of the Map holds was created, under that name.
LEMMA MapEntry ==
  ASSUME TypeOK, NEW n \in Names, jobs[n] # NoJob
  PROVE  /\ jobs[n] \in Job /\ jobs[n] <= created
         /\ decl[jobs[n]].name = n /\ Mapped(jobs[n])
BY BoundsAssumption DEF TypeOK, Mapped, Exists, Job, NoJob

\* pauseJob() keeps the invariant.
LEMMA PauseJobIInv ==
  ASSUME IInv, NEW n \in Names, PauseJob(n)
  PROVE  IInv'
<1> DEFINE j == jobs[n]
<1>1. /\ TypeOK /\ j \in Job /\ j <= created /\ decl[j].name = n
  BY MapEntry DEF PauseJob, IInv
<1>2. RunsBounded' /\ SkipFlagExact'
  BY NoRunsInv DEF PauseJob
<1>3. TypeOK'
  BY <1>1 DEF TypeOK, TimerState, PauseJob, NoRuns
<1>4. FreshObjects'
  BY <1>1 DEF IInv, TypeOK, FreshObjects, Untouched, Job, PauseJob, NoRuns
<1>5. NoSpentHandles'
  BY <1>1 DEF IInv, TypeOK, NoSpentHandles, Mapped, Exists, Timed, PauseJob
<1>6. ArmedIffScheduled'
  BY <1>1 DEF IInv, TypeOK, ArmedIffScheduled, Mapped, Exists, Timed, PauseJob
<1> QED BY <1>2, <1>3, <1>4, <1>5, <1>6 DEF IInv

\* resumeJob() keeps the invariant: the handle it finds is never a spent one.
LEMMA ResumeJobIInv ==
  ASSUME IInv, NEW n \in Names, ResumeJob(n)
  PROVE  IInv'
<1> DEFINE j == jobs[n]
           arm == running /\ Timed(j) /\ lasts[j] /\ timer[j] = "none"
           S == IF arm /\ decl[j].type = "interval" THEN {j} ELSE {}
<1>1. /\ TypeOK /\ StartRuns(S)
      /\ UNCHANGED <<running, jobs, created, decl, lasts>>
      /\ paused[j]
      /\ paused' = [paused EXCEPT ![j] = FALSE]
      /\ timer' = [timer EXCEPT ![j] = IF arm THEN "armed" ELSE @]
      /\ due' = [due EXCEPT ![j] = IF running /\ ~Timed(j) THEN FALSE ELSE @]
  BY DEF ResumeJob, IInv
<1>2. j \in Job /\ j <= created /\ Mapped(j)
  BY <1>1, MapEntry DEF ResumeJob
<1>3. S \in SUBSET Job /\ (\A k \in S : ~SkipJob(k)) /\ S \subseteq {j}
  BY <1>1, <1>2, SkipIsCron
<1> HIDE DEF S
<1>4. /\ RunsBounded' /\ SkipFlagExact'
      /\ isRunning' \in [Job -> BOOLEAN]
      /\ fetching' \in [Job -> 0..MaxRuns]
      /\ publishing' \in [Job -> 0..MaxRuns]
      /\ \A k \in Job \ S : /\ isRunning'[k] = isRunning[k]
                            /\ fetching'[k] = fetching[k]
                            /\ publishing'[k] = publishing[k]
  BY <1>1, <1>3, StartRunsInv
<1>5. TypeOK'
  BY <1>1, <1>2, <1>4 DEF TypeOK, TimerState
<1>6. FreshObjects'
  <2> SUFFICES ASSUME NEW k \in Job, k > created PROVE Untouched(k)'
    BY <1>1 DEF FreshObjects
  <2>1. k # j /\ k \notin S /\ Untouched(k)
    BY <1>1, <1>2, <1>3 DEF IInv, FreshObjects, TypeOK, Job
  <2> QED BY <1>1, <1>4, <2>1 DEF Untouched, TypeOK
<1>7. NoSpentHandles'
  BY <1>1, <1>2 DEF IInv, TypeOK, NoSpentHandles, Mapped, Exists, Timed
<1>8. ArmedIffScheduled'
  <2>1. timer[j] # "spent" /\ timer[j] \in TimerState
    BY <1>1, <1>2 DEF IInv, TypeOK, NoSpentHandles
  <2> QED BY <1>1, <1>2, <2>1 DEF IInv, TypeOK, ArmedIffScheduled, Mapped, Exists, Timed, TimerState
<1> QED BY <1>4, <1>5, <1>6, <1>7, <1>8 DEF IInv

\* updateJob() keeps the invariant, although it may start a run at once.
LEMMA UpdateJobIInv ==
  ASSUME IInv, NEW n \in Names, NEW lasting \in BOOLEAN, UpdateJob(n, lasting)
  PROVE  IInv'
<1> DEFINE j == jobs[n]
           arm == running /\ ~paused[j] /\ Timed(j) /\ lasting
           S == IF arm /\ decl[j].type = "interval" THEN {j} ELSE {}
<1>1. /\ TypeOK /\ StartRuns(S)
      /\ UNCHANGED <<running, jobs, created, decl, paused>>
      /\ lasts' = [lasts EXCEPT ![j] = lasting]
      /\ timer' = [timer EXCEPT ![j] = IF arm THEN "armed" ELSE "none"]
      /\ due' = [due EXCEPT ![j] = FALSE]
  BY DEF UpdateJob, IInv
<1>2. j \in Job /\ j <= created /\ Mapped(j)
  BY <1>1, MapEntry DEF UpdateJob
<1>3. S \in SUBSET Job /\ (\A k \in S : ~SkipJob(k)) /\ S \subseteq {j}
  BY <1>1, <1>2, SkipIsCron
<1> HIDE DEF S
<1>4. /\ RunsBounded' /\ SkipFlagExact'
      /\ isRunning' \in [Job -> BOOLEAN]
      /\ fetching' \in [Job -> 0..MaxRuns]
      /\ publishing' \in [Job -> 0..MaxRuns]
      /\ \A k \in Job \ S : /\ isRunning'[k] = isRunning[k]
                            /\ fetching'[k] = fetching[k]
                            /\ publishing'[k] = publishing[k]
  BY <1>1, <1>3, StartRunsInv
<1>5. TypeOK'
  BY <1>1, <1>2, <1>4 DEF TypeOK, TimerState
<1>6. FreshObjects'
  <2> SUFFICES ASSUME NEW k \in Job, k > created PROVE Untouched(k)'
    BY <1>1 DEF FreshObjects
  <2>1. k # j /\ k \notin S /\ Untouched(k)
    BY <1>1, <1>2, <1>3 DEF IInv, FreshObjects, TypeOK, Job
  <2> QED BY <1>1, <1>4, <2>1 DEF Untouched, TypeOK
<1>7. NoSpentHandles'
  BY <1>1, <1>2 DEF IInv, TypeOK, NoSpentHandles, Mapped, Exists, Timed
<1>8. ArmedIffScheduled'
  BY <1>1, <1>2 DEF IInv, TypeOK, ArmedIffScheduled, Mapped, Exists, Timed
<1> QED BY <1>4, <1>5, <1>6, <1>7, <1>8 DEF IInv

\* removeJob() keeps the invariant: the spent handle leaves the Map with its job.
LEMMA RemoveJobIInv ==
  ASSUME IInv, NEW n \in Names, RemoveJob(n)
  PROVE  IInv'
<1> DEFINE j == jobs[n]
<1>1. TypeOK /\ j \in Job /\ j <= created /\ decl[j].name = n
  BY MapEntry DEF RemoveJob, IInv
<1>2. RunsBounded' /\ SkipFlagExact'
  BY NoRunsInv DEF RemoveJob
<1>3. TypeOK'
  BY <1>1 DEF TypeOK, TimerState, NoJob, RemoveJob, NoRuns
<1>4. FreshObjects'
  BY <1>1 DEF IInv, TypeOK, FreshObjects, Untouched, Job, RemoveJob, NoRuns
<1>5. \A k \in Job : Mapped(k)' => Mapped(k) /\ k # j /\ timer'[k] = timer[k]
  BY <1>1 DEF TypeOK, Mapped, Exists, Job, NoJob, RemoveJob
<1>6. NoSpentHandles'
  BY <1>1, <1>5 DEF IInv, TypeOK, NoSpentHandles, Timed, RemoveJob
<1>7. ArmedIffScheduled'
  BY <1>5 DEF IInv, ArmedIffScheduled, Timed, RemoveJob
<1> QED BY <1>2, <1>3, <1>4, <1>6, <1>7 DEF IInv

\* The setInterval callback of a job, mapped or not, keeps the invariant.
LEMMA FireIntervalIInv ==
  ASSUME IInv, NEW j \in Job, FireInterval(j)
  PROVE  IInv'
<1>1. /\ TypeOK /\ StartRuns({j}) /\ {j} \in SUBSET Job /\ j <= created
      /\ UNCHANGED <<running, jobs, created, decl, lasts, timer, paused, due>>
      /\ ~SkipJob(j)
  BY SkipIsCron DEF FireInterval, IInv, Exists
<1>2. /\ RunsBounded' /\ SkipFlagExact'
      /\ isRunning' \in [Job -> BOOLEAN]
      /\ fetching' \in [Job -> 0..MaxRuns]
      /\ publishing' \in [Job -> 0..MaxRuns]
      /\ \A k \in Job \ {j} : /\ isRunning'[k] = isRunning[k]
                              /\ fetching'[k] = fetching[k]
                              /\ publishing'[k] = publishing[k]
  BY <1>1, StartRunsInv
<1>3. TypeOK'
  BY <1>1, <1>2 DEF TypeOK
<1>4. FreshObjects'
  BY <1>1, <1>2 DEF IInv, TypeOK, FreshObjects, Untouched, Job
<1>5. NoSpentHandles' /\ ArmedIffScheduled'
  BY <1>1 DEF IInv, NoSpentHandles, ArmedIffScheduled, Mapped, Exists, Timed
<1> QED BY <1>2, <1>3, <1>4, <1>5 DEF IInv

\* The setTimeout callback keeps the invariant, whatever its name now stands for.
LEMMA FireTimeoutIInv ==
  ASSUME IInv, NEW j \in Job, FireTimeout(j)
  PROVE  IInv'
<1>1. /\ TypeOK /\ StartRuns({j}) /\ {j} \in SUBSET Job /\ j <= created
      /\ UNCHANGED <<running, created, decl, lasts, paused, due>>
      /\ timer[j] = "armed" /\ decl[j].type = "timeout"
      /\ timer' = [timer EXCEPT ![j] = "spent"]
      /\ jobs' = [jobs EXCEPT ![decl[j].name] = NoJob]
      /\ ~SkipJob(j) /\ decl[j].name \in Names
  BY SkipIsCron, DeclName DEF FireTimeout, IInv, Exists
<1>2. /\ RunsBounded' /\ SkipFlagExact'
      /\ isRunning' \in [Job -> BOOLEAN]
      /\ fetching' \in [Job -> 0..MaxRuns]
      /\ publishing' \in [Job -> 0..MaxRuns]
      /\ \A k \in Job \ {j} : /\ isRunning'[k] = isRunning[k]
                              /\ fetching'[k] = fetching[k]
                              /\ publishing'[k] = publishing[k]
  BY <1>1, StartRunsInv
<1>3. TypeOK'
  <2>1. jobs' \in [Names -> 0..created']
    BY <1>1 DEF TypeOK, NoJob
  <2>2. \A n \in Names : jobs'[n] # NoJob => decl'[jobs'[n]].name = n
    BY <1>1 DEF TypeOK
  <2>3. timer' \in [Job -> TimerState]
    BY <1>1 DEF TypeOK, TimerState
  <2> QED BY <1>1, <1>2, <2>1, <2>2, <2>3 DEF TypeOK
<1>4. FreshObjects'
  <2> SUFFICES ASSUME NEW k \in Job, k > created PROVE Untouched(k)'
    BY <1>1 DEF FreshObjects
  <2>1. k # j /\ Untouched(k)
    BY <1>1 DEF IInv, FreshObjects, TypeOK, Job
  <2> QED BY <1>1, <1>2, <2>1 DEF Untouched, TypeOK
<1>5. \A k \in Job : Mapped(k)' => Mapped(k) /\ k # j /\ timer'[k] = timer[k]
  <2> SUFFICES ASSUME NEW k \in Job, Mapped(k)'
               PROVE  Mapped(k) /\ k # j /\ timer'[k] = timer[k]
    OBVIOUS
  <2>1. decl[k].name \in Names /\ jobs'[decl[k].name] = k /\ k # NoJob /\ Exists(k)
    BY <1>1, DeclName DEF Mapped, Exists, Job, NoJob
  <2>2. decl[k].name # decl[j].name /\ jobs[decl[k].name] = k
    BY <1>1, <2>1 DEF TypeOK
  <2> QED BY <1>1, <2>1, <2>2 DEF TypeOK, Mapped
<1>6. NoSpentHandles'
  BY <1>1, <1>5 DEF IInv, TypeOK, NoSpentHandles, Timed
<1>7. ArmedIffScheduled'
  BY <1>1, <1>5 DEF IInv, ArmedIffScheduled, Timed
<1> QED BY <1>2, <1>3, <1>4, <1>6, <1>7 DEF IInv

\* checkCronJobs() keeps the invariant: no 'skip' job is started while it runs.
LEMMA CheckCronJobsIInv ==
  ASSUME IInv, CheckCronJobs
  PROVE  IInv'
<1> DEFINE S == RunnableCron
<1>1. /\ TypeOK /\ StartRuns(S) /\ S \in SUBSET Job
      /\ UNCHANGED <<running, jobs, created, decl, lasts, timer, paused>>
      /\ due' = [j \in Job |-> due[j] /\ j \notin DueCron]
      /\ \A j \in S : (SkipJob(j) => ~isRunning[j]) /\ j <= created
  BY DEF CheckCronJobs, RunnableCron, DueCron, Mapped, Exists, IInv
<1> HIDE DEF S
<1>2. /\ RunsBounded' /\ SkipFlagExact'
      /\ isRunning' \in [Job -> BOOLEAN]
      /\ fetching' \in [Job -> 0..MaxRuns]
      /\ publishing' \in [Job -> 0..MaxRuns]
      /\ \A k \in Job \ S : /\ isRunning'[k] = isRunning[k]
                            /\ fetching'[k] = fetching[k]
                            /\ publishing'[k] = publishing[k]
  BY <1>1, StartRunsInv
<1>3. due' \in [Job -> BOOLEAN]
  BY <1>1 DEF TypeOK
<1>4. TypeOK'
  BY <1>1, <1>2, <1>3 DEF TypeOK
<1>5. FreshObjects'
  <2> SUFFICES ASSUME NEW k \in Job, k > created PROVE Untouched(k)'
    BY <1>1 DEF FreshObjects
  <2>1. k \notin S /\ Untouched(k)
    BY <1>1 DEF IInv, FreshObjects, TypeOK, Job
  <2> QED BY <1>1, <1>2, <2>1 DEF Untouched
<1>6. NoSpentHandles' /\ ArmedIffScheduled'
  BY <1>1 DEF IInv, NoSpentHandles, ArmedIffScheduled, Mapped, Exists, Timed
<1> QED BY <1>2, <1>4, <1>5, <1>6 DEF IInv

\* A cron job's date being reached keeps the invariant.
LEMMA CronDueIInv ==
  ASSUME IInv, NEW j \in Job, CronDue(j)
  PROVE  IInv'
<1>1. RunsBounded' /\ SkipFlagExact'
  BY NoRunsInv DEF CronDue
<1>2. TypeOK' /\ FreshObjects' /\ NoSpentHandles' /\ ArmedIffScheduled'
  BY DEF IInv, TypeOK, FreshObjects, Untouched, NoSpentHandles, ArmedIffScheduled,
         Mapped, Exists, Timed, CronDue, NoRuns
<1> QED BY <1>1, <1>2 DEF IInv

\* What a run's settling leaves alone: everything but the run itself.
LEMMA SettleIInv ==
  ASSUME IInv, NEW j \in Job, DataReady(j) \/ DataFailed(j) \/ Published(j)
  PROVE  IInv'
<1>1. /\ TypeOK /\ InFlight(j) > 0 /\ fetching[j] \in 0..MaxRuns /\ publishing[j] \in 0..MaxRuns
      /\ fetching[j] + publishing[j] <= MaxRuns
      /\ UNCHANGED <<running, jobs, created, decl, lasts, timer, paused, due>>
  BY BoundsAssumption DEF IInv, TypeOK, RunsBounded, InFlight, DataReady, DataFailed, Published
<1>2. j <= created
  BY <1>1 DEF IInv, TypeOK, FreshObjects, Untouched, InFlight, Job
<1>3. /\ fetching' \in [Job -> 0..MaxRuns]
      /\ publishing' \in [Job -> 0..MaxRuns]
      /\ isRunning' \in [Job -> BOOLEAN]
      /\ InFlight(j)' <= InFlight(j)
      /\ \A k \in Job \ {j} : /\ isRunning'[k] = isRunning[k]
                              /\ fetching'[k] = fetching[k]
                              /\ publishing'[k] = publishing[k]
  <2>1. CASE DataReady(j)
    BY <1>1, <2>1, BoundsAssumption DEF TypeOK, DataReady, InFlight
  <2>2. CASE DataFailed(j)
    BY <1>1, <2>2, BoundsAssumption DEF TypeOK, DataFailed, InFlight
  <2>3. CASE Published(j)
    BY <1>1, <2>3, BoundsAssumption DEF TypeOK, Published, InFlight
  <2> QED BY <2>1, <2>2, <2>3
<1>4. TypeOK'
  BY <1>1, <1>3 DEF TypeOK
<1>5. FreshObjects'
  <2> SUFFICES ASSUME NEW k \in Job, k > created PROVE Untouched(k)'
    BY <1>1 DEF FreshObjects
  <2> QED BY <1>1, <1>2, <1>3 DEF IInv, TypeOK, FreshObjects, Untouched, Job
<1>6. NoSpentHandles' /\ ArmedIffScheduled'
  BY <1>1 DEF IInv, NoSpentHandles, ArmedIffScheduled, Mapped, Exists, Timed
<1>7. RunsBounded'
  <2> SUFFICES ASSUME NEW k \in Job PROVE InFlight(k)' <= MaxRuns
    BY DEF RunsBounded
  <2>1. CASE k = j
    BY <1>1, <1>3, <2>1, BoundsAssumption DEF InFlight
  <2>2. CASE k # j
    BY <1>3, <2>2 DEF IInv, RunsBounded, InFlight
  <2> QED BY <2>1, <2>2
<1>8. SkipFlagExact'
  <2> SUFFICES ASSUME NEW k \in Job, SkipJob(k)
               PROVE  InFlight(k)' <= 1 /\ (isRunning'[k] <=> InFlight(k)' = 1)
    BY <1>1 DEF SkipFlagExact, SkipJob
  <2>1. CASE k # j
    BY <1>3, <2>1 DEF IInv, SkipFlagExact, InFlight
  <2>2. CASE k = j
    <3>1. InFlight(j) = 1 /\ isRunning[j]
      BY <1>1, <2>2 DEF IInv, SkipFlagExact, InFlight
    <3>2. CASE DataReady(j)
      BY <1>1, <2>2, <3>1, <3>2 DEF TypeOK, DataReady, InFlight
    <3>3. CASE DataFailed(j)
      BY <1>1, <2>2, <3>1, <3>3 DEF TypeOK, DataFailed, InFlight
    <3>4. CASE Published(j)
      BY <1>1, <2>2, <3>1, <3>4 DEF TypeOK, Published, InFlight
    <3> QED BY <3>2, <3>3, <3>4
  <2> QED BY <2>1, <2>2
<1> QED BY <1>4, <1>5, <1>6, <1>7, <1>8 DEF IInv

\* A step that changes nothing keeps the invariant.
LEMMA StutterIInv == IInv /\ UNCHANGED vars => IInv'
BY DEF vars, IInv, TypeOK, FreshObjects, Untouched, NoSpentHandles, RunsBounded,
       ArmedIffScheduled, SkipFlagExact, Mapped, Exists, Timed, InFlight, SkipJob

\* Every step of the scheduler keeps the invariant.
LEMMA NextIInv == IInv /\ [Next]_vars => IInv'
<1> SUFFICES ASSUME IInv, [Next]_vars PROVE IInv'
  OBVIOUS
<1>1. CASE Start BY <1>1, StartIInv
<1>2. CASE Stop BY <1>2, StopIInv
<1>3. CASE \E lasting \in BOOLEAN : AddJob(lasting) BY <1>3, AddJobIInv
<1>4. CASE \E n \in Names : PauseJob(n) BY <1>4, PauseJobIInv
<1>5. CASE \E n \in Names : ResumeJob(n) BY <1>5, ResumeJobIInv
<1>6. CASE \E n \in Names, lasting \in BOOLEAN : UpdateJob(n, lasting) BY <1>6, UpdateJobIInv
<1>7. CASE \E n \in Names : RemoveJob(n) BY <1>7, RemoveJobIInv
<1>8. CASE \E j \in Job : FireInterval(j) BY <1>8, FireIntervalIInv
<1>9. CASE \E j \in Job : FireTimeout(j) BY <1>9, FireTimeoutIInv
<1>10. CASE \E j \in Job : CronDue(j) BY <1>10, CronDueIInv
<1>11. CASE CheckCronJobs BY <1>11, CheckCronJobsIInv
<1>12. CASE \E j \in Job : DataReady(j) \/ DataFailed(j) \/ Published(j)
  BY <1>12, SettleIInv
<1>13. CASE UNCHANGED vars BY <1>13, StutterIInv
<1> QED
  BY <1>1, <1>2, <1>3, <1>4, <1>5, <1>6, <1>7, <1>8, <1>9, <1>10, <1>11, <1>12, <1>13
     DEF Next

\* The inductive invariant holds in every reachable state, for all names and bounds.
THEOREM Invariance == Spec => []IInv
BY InitIInv, NextIInv, PTL DEF Spec

\* TypeOK holds in every reachable state, for all names and bounds.
THEOREM TypeCorrect == Spec => []TypeOK
BY Invariance, PTL DEF IInv

\* A timer of a mapped interval or timeout job is live exactly while the
\* scheduler runs, the job is not paused and its duration is not zero.
THEOREM TimersFollowSchedule == Spec => []ArmedIffScheduled
BY Invariance, PTL DEF IInv

\* Executions of a cron job declared 'skip' never overlap.
THEOREM SkipHolds == Spec => []SkipNeverOverlaps
<1>1. IInv => SkipNeverOverlaps
  BY DEF IInv, SkipFlagExact, SkipNeverOverlaps
<1> QED BY <1>1, Invariance, PTL

-----------------------------------------------------------------------------
\* Only a reused name orphans a timer: with every name added once, each step
\* keeps armed timers in the Map.
LEMMA NextUnique ==
  IInv /\ UniqueNamesNoOrphans /\ [Next]_vars => UniqueNamesNoOrphans'
<1> SUFFICES ASSUME IInv, UniqueNamesNoOrphans, [Next]_vars, NamesUsedOnce',
                    NEW j \in Job, timer'[j] = "armed"
             PROVE  Mapped(j)' /\ running'
  BY DEF UniqueNamesNoOrphans
<1>1. IInv' /\ TypeOK /\ TypeOK'
  BY NextIInv DEF IInv
<1>2. Timed(j)' /\ (Mapped(j)' => running')
  BY <1>1 DEF IInv, NoSpentHandles, ArmedIffScheduled, Timed
<1>3. j \in 1..created'
  BY <1>1 DEF IInv, FreshObjects, Untouched, TypeOK, Job
<1>4. NamesUsedOnce
  <2>1. decl' = decl /\ created \in Nat /\ (created' = created \/ created' = created + 1)
    <3>1. CASE \E lasting \in BOOLEAN : AddJob(lasting)
      BY <1>1, <3>1 DEF TypeOK, AddJob
    <3>2. CASE ~\E lasting \in BOOLEAN : AddJob(lasting)
      <4>1. UNCHANGED <<decl, created>>
        BY <3>2 DEF Next, vars, Start, Stop, PauseJob, ResumeJob, UpdateJob, RemoveJob,
                    FireInterval, FireTimeout, CronDue, CheckCronJobs, DataReady,
                    DataFailed, Published
      <4> QED BY <1>1, <4>1 DEF TypeOK
    <3> QED BY <3>1, <3>2
  <2> QED BY <2>1 DEF NamesUsedOnce
<1>5. \A k \in Job : timer[k] = "armed" => Mapped(k) /\ running
  BY <1>4 DEF UniqueNamesNoOrphans
<1>6. Mapped(j)'
  <2>1. CASE Start
    <3>1. UNCHANGED <<jobs, created, decl>> /\ (timer[j] = "armed" \/ Mapped(j))
      BY <1>1, <2>1 DEF Start, TypeOK
    <3> QED BY <1>5, <3>1 DEF Mapped, Exists
  <2>2. CASE Stop
    BY <1>1, <1>5, <2>2 DEF Stop, TypeOK, Mapped, Exists
  <2>3. CASE \E lasting \in BOOLEAN : AddJob(lasting)
    <3> DEFINE new == created + 1
    <3>1. /\ decl' = decl /\ created' = new /\ new \in 1..new /\ new \in Job
          /\ jobs' = [jobs EXCEPT ![decl[new].name] = new]
      BY <1>1, <2>3, BoundsAssumption DEF AddJob, TypeOK, Job
    <3>2. decl[new].name \in Names /\ decl[j].name \in Names
      BY <1>1, <3>1, DeclName
    <3>3. CASE j = new
      BY <1>1, <3>1, <3>2, <3>3 DEF TypeOK, Mapped, Exists
    <3>4. CASE j # new
      <4>1. timer[j] = "armed"
        BY <1>1, <2>3, <3>1, <3>4 DEF AddJob, TypeOK
      <4>2. Mapped(j)
        BY <1>5, <4>1
      <4>3. decl[j].name # decl[new].name
        BY <1>3, <3>1, <3>4 DEF NamesUsedOnce
      <4> QED BY <1>1, <1>3, <3>1, <3>2, <4>2, <4>3 DEF TypeOK, Mapped, Exists
    <3> QED BY <3>3, <3>4
  <2>4. CASE \E n \in Names, lasting \in BOOLEAN :
               PauseJob(n) \/ ResumeJob(n) \/ UpdateJob(n, lasting)
    <3> PICK n \in Names, lasting \in BOOLEAN :
               PauseJob(n) \/ ResumeJob(n) \/ UpdateJob(n, lasting)
      BY <2>4
    <3>1. /\ jobs[n] # NoJob /\ decl' = decl /\ jobs' = jobs /\ created' = created
          /\ \A k \in Job \ {jobs[n]} : timer'[k] = timer[k]
      <4>1. CASE PauseJob(n) BY <1>1, <4>1 DEF PauseJob, TypeOK
      <4>2. CASE ResumeJob(n) BY <1>1, <4>2 DEF ResumeJob, TypeOK
      <4>3. CASE UpdateJob(n, lasting) BY <1>1, <4>3 DEF UpdateJob, TypeOK
      <4> QED BY <4>1, <4>2, <4>3
    <3>2. Mapped(jobs[n])
      BY <1>1, <3>1, MapEntry
    <3>3. Mapped(j)
      BY <1>5, <3>1, <3>2
    <3> QED BY <3>1, <3>3 DEF Mapped, Exists
  <2>5. CASE \E n \in Names : RemoveJob(n)
    <3> PICK n \in Names : RemoveJob(n)
      BY <2>5
    <3>1. /\ jobs[n] \in Job /\ decl[jobs[n]].name = n
          /\ timer[j] = "armed" /\ j # jobs[n]
      BY <1>1, MapEntry DEF RemoveJob, TypeOK
    <3>2. Mapped(j) /\ decl[j].name # n
      BY <1>5, <3>1 DEF Mapped
    <3> QED BY <1>1, <3>2 DEF RemoveJob, TypeOK, Mapped, Exists
  <2>6. CASE \E k \in Job : FireTimeout(k)
    <3> PICK k \in Job : FireTimeout(k)
      BY <2>6
    <3>1. Mapped(k) /\ timer[j] = "armed" /\ j # k /\ Mapped(j)
      BY <1>1, <1>5 DEF FireTimeout, TypeOK
    <3>2. decl[j].name # decl[k].name
      BY <3>1 DEF Mapped
    <3> QED BY <1>1, <3>1, <3>2 DEF FireTimeout, TypeOK, Mapped, Exists
  <2>7. CASE UNCHANGED <<jobs, created, decl, timer>>
    BY <1>5, <2>7 DEF Mapped, Exists
  <2> QED
    BY <2>1, <2>2, <2>3, <2>4, <2>5, <2>6, <2>7
       DEF Next, vars, FireInterval, CronDue, CheckCronJobs, DataReady, DataFailed, Published
<1> QED BY <1>2, <1>6

\* Timers outlive their Map entry only when a name was added twice.
THEOREM OrphansNeedNameReuse == Spec => []UniqueNamesNoOrphans
<1>1. Init => UniqueNamesNoOrphans
  BY DEF Init, UniqueNamesNoOrphans
<1> QED BY <1>1, NextUnique, Invariance, PTL DEF Spec

-----------------------------------------------------------------------------
\* Only the jobs that a callback runs get a run more.
LEMMA OnlyTheseStart ==
  ASSUME IInv, NEW S \in SUBSET Job, StartRuns(S), NEW j \in Job, RunStarts(j)
  PROVE  j \in S
<1>1. j \notin S => fetching'[j] = fetching[j] /\ publishing'[j] = publishing[j]
  BY StartRunsEffect DEF IInv
<1>2. fetching[j] \in 0..MaxRuns /\ publishing[j] \in 0..MaxRuns
  BY DEF IInv, TypeOK
<1> QED BY <1>1, <1>2, BoundsAssumption DEF RunStarts, InFlight

\* What a callback starts is in the Map, unpaused and under a running scheduler,
\* before the step or after it, unless its timer has outlived its entry.
LEMMA StartsAreScheduled ==
  ASSUME IInv, [Next]_vars, NEW j \in Job, RunStarts(j)
  PROVE  Scheduled(j) \/ Scheduled(j)' \/ Orphaned(j)
<1>0. TypeOK /\ ArmedIffScheduled /\ IInv'
  BY NextIInv DEF IInv
<1>1. fetching[j] \in 0..MaxRuns /\ publishing[j] \in 0..MaxRuns /\ MaxRuns \in Nat
  BY <1>0, BoundsAssumption DEF TypeOK
<1>2. ~UNCHANGED <<fetching, publishing>>
  BY <1>1 DEF RunStarts, InFlight
<1>3. CASE Start
  <2> DEFINE arm == {k \in Job : Mapped(k) /\ Timed(k) /\ lasts[k] /\ ~paused[k] /\ timer[k] = "none"}
  <2>1. StartRuns({k \in arm : decl[k].type = "interval"})
    BY <1>3 DEF Start
  <2>2. j \in arm
    BY <2>1, OnlyTheseStart
  <2> QED BY <1>3, <2>2 DEF Start, Scheduled, Mapped, Exists
<1>4. ASSUME NEW lasting \in BOOLEAN, AddJob(lasting) PROVE Scheduled(j)'
  <2> DEFINE new == created + 1
             arm == running /\ Timed(new) /\ lasting
             S == IF arm /\ decl[new].type = "interval" THEN {new} ELSE {}
  <2>1. new \in Job /\ created \in Nat /\ S \in SUBSET Job
    BY <1>0, <1>4, BoundsAssumption DEF AddJob, TypeOK, Job
  <2>2. StartRuns(S)
    BY <1>4 DEF AddJob
  <2>3. j = new /\ running
    BY <2>1, <2>2, OnlyTheseStart
  <2>4. /\ running' /\ ~paused'[j] /\ decl' = decl /\ created' = new /\ j \in 1..new
        /\ jobs' = [jobs EXCEPT ![decl[new].name] = new]
    BY <1>0, <1>4, <2>1, <2>3 DEF AddJob, IInv, FreshObjects, Untouched
  <2>5. decl[new].name \in Names
    BY <1>0, <2>1, DeclName
  <2> QED BY <1>0, <2>3, <2>4, <2>5 DEF Scheduled, Mapped, Exists, TypeOK
<1>5. ASSUME NEW n \in Names, ResumeJob(n) PROVE Scheduled(j)'
  <2> DEFINE arm == running /\ Timed(jobs[n]) /\ lasts[jobs[n]] /\ timer[jobs[n]] = "none"
             S == IF arm /\ decl[jobs[n]].type = "interval" THEN {jobs[n]} ELSE {}
  <2>1. jobs[n] \in Job /\ Mapped(jobs[n])
    BY <1>0, <1>5, MapEntry DEF ResumeJob
  <2>2. S \in SUBSET Job /\ StartRuns(S)
    BY <1>5, <2>1 DEF ResumeJob
  <2>3. j = jobs[n] /\ running
    BY <2>2, OnlyTheseStart
  <2>4. UNCHANGED <<running, jobs, created, decl, lasts>> /\ ~paused'[j]
    BY <1>0, <1>5, <2>3 DEF ResumeJob, TypeOK
  <2> QED BY <2>1, <2>3, <2>4 DEF Scheduled, Mapped, Exists
<1>6. ASSUME NEW n \in Names, NEW lasting \in BOOLEAN, UpdateJob(n, lasting) PROVE Scheduled(j)
  <2> DEFINE arm == running /\ ~paused[jobs[n]] /\ Timed(jobs[n]) /\ lasting
             S == IF arm /\ decl[jobs[n]].type = "interval" THEN {jobs[n]} ELSE {}
  <2>1. jobs[n] \in Job /\ Mapped(jobs[n])
    BY <1>0, <1>6, MapEntry DEF UpdateJob
  <2>2. S \in SUBSET Job /\ StartRuns(S)
    BY <1>6, <2>1 DEF UpdateJob
  <2>3. j = jobs[n] /\ running /\ ~paused[j]
    BY <2>2, OnlyTheseStart
  <2> QED BY <2>1, <2>3 DEF Scheduled
<1>7. ASSUME NEW k \in Job, FireInterval(k) \/ FireTimeout(k)
      PROVE  Scheduled(j) \/ Orphaned(j)
  <2>1. StartRuns({k}) /\ timer[k] = "armed" /\ Timed(k)
    BY <1>7 DEF FireInterval, FireTimeout, Timed
  <2>2. j = k
    BY <2>1, OnlyTheseStart
  <2> QED BY <1>0, <2>1, <2>2 DEF ArmedIffScheduled, Scheduled, Orphaned
<1>8. CASE CheckCronJobs
  <2>1. running /\ StartRuns(RunnableCron) /\ RunnableCron \in SUBSET Job
    BY <1>8 DEF CheckCronJobs, RunnableCron, DueCron
  <2>2. j \in RunnableCron
    BY <2>1, OnlyTheseStart
  <2> QED BY <2>1, <2>2 DEF RunnableCron, DueCron, Scheduled
<1>9. ASSUME NEW k \in Job, DataReady(k) \/ DataFailed(k) \/ Published(k) PROVE FALSE
  <2>1. fetching[k] \in 0..MaxRuns /\ publishing[k] \in 0..MaxRuns
    BY <1>0 DEF TypeOK
  <2>2. CASE DataReady(k)
    <3>1. fetching'[j] + publishing'[j] = fetching[j] + publishing[j]
      BY <1>0, <1>1, <2>1, <2>2 DEF DataReady, TypeOK
    <3> QED BY <1>1, <3>1 DEF RunStarts, InFlight
  <2>3. CASE DataFailed(k)
    <3>1. fetching'[j] \in {fetching[j], fetching[j] - 1} /\ publishing'[j] = publishing[j]
      BY <1>0, <1>1, <2>1, <2>3 DEF DataFailed, TypeOK
    <3> QED BY <1>1, <3>1 DEF RunStarts, InFlight
  <2>4. CASE Published(k)
    <3>1. publishing'[j] \in {publishing[j], publishing[j] - 1} /\ fetching'[j] = fetching[j]
      BY <1>0, <1>1, <2>1, <2>4 DEF Published, TypeOK
    <3> QED BY <1>1, <3>1 DEF RunStarts, InFlight
  <2> QED BY <1>9, <2>2, <2>3, <2>4
<1> QED
  BY <1>2, <1>3, <1>4, <1>5, <1>6, <1>7, <1>8, <1>9
     DEF Next, vars, NoRuns, Stop, PauseJob, RemoveJob, CronDue

\* No callback starts a run of a job that is stopped, paused or removed, unless its
\* name was taken over and its timer left behind.
THEOREM RunsAreScheduled == Spec => RunsOnlyWhenScheduled
<1>1. IInv /\ [Next]_vars =>
        [\A j \in Job : RunStarts(j) => Scheduled(j) \/ Scheduled(j)' \/ Orphaned(j)]_vars
  BY StartsAreScheduled
<1> QED BY <1>1, Invariance, PTL DEF Spec, RunsOnlyWhenScheduled

-----------------------------------------------------------------------------
(* The NATS adapters.                                                       *)

\* What a message is to its consumer before it can be owed to anybody.
Counted(m) ==
  /\ m \notin published => state[m] = "absent"
  /\ state[m] = "absent" => delivered[m] = 0
  /\ state[m] = "pending" => delivered[m] < MaxDeliver
Filtered ==
  /\ filter # "none" => \E s \in Subs : pattern[s] = filter
  /\ mode # "core" => \A m \in Messages : state[m] # "absent" =>
                        filter # "none" /\ topic[m] = filter
\* A handler has had what is acknowledged, and what it is at.
Reached ==
  /\ mode = "manual" => \A m \in Messages : state[m] = "done" => m \in handled
  /\ \A s \in Subs : handling[s] \subseteq handled
\* Subscriptions of one pattern skip nothing.
NothingToSkip == OneFilter => \A s \in Subs : \A m \in InBuffer(s) : topic[m] = pattern[s]

Kept(m) == \/ \E s \in Subs : m \in InBuffer(s)
           \/ state[m] = "pending"
           \/ state[m] = "out" /\ ~Exhausted(m)
           \/ Lost(m)
KeptWhileOwed == OneFilter => \A m \in Messages : state[m] # "absent" => m \in handled \/ Kept(m)

NatsInv ==
  /\ NatsTypeOK /\ \A m \in Messages : Counted(m)
  /\ Filtered /\ Reached /\ NothingToSkip /\ KeptWhileOwed

LEMMA KeptIsEnough == KeptWhileOwed <=> LostOnlyWhenLetGo
BY DEF KeptWhileOwed, LostOnlyWhenLetGo, Kept, Owed, Held

LEMMA BufferHead ==
  ASSUME NEW q \in Seq(Messages), q # <<>>
  PROVE  /\ Head(q) \in Messages /\ Tail(q) \in Seq(Messages)
         /\ \A m : (\E i \in 1..Len(q) : q[i] = m)
                     <=> m = Head(q) \/ \E i \in 1..Len(Tail(q)) : Tail(q)[i] = m
<1>1. /\ Len(q) \in Nat \ {0} /\ Head(q) = q[1] /\ Head(q) \in Messages
      /\ Tail(q) \in Seq(Messages) /\ Len(Tail(q)) = Len(q) - 1
      /\ \A i \in 1..Len(Tail(q)) : Tail(q)[i] = q[i + 1]
  OBVIOUS
<1>2. ASSUME NEW m, NEW i \in 1..Len(q), q[i] = m
      PROVE  m = Head(q) \/ \E j \in 1..Len(Tail(q)) : Tail(q)[j] = m
  <2>1. CASE i = 1
    BY <1>1, <1>2, <2>1
  <2>2. CASE i # 1
    <3>1. i - 1 \in 1..Len(Tail(q)) /\ Tail(q)[i - 1] = q[(i - 1) + 1] /\ (i - 1) + 1 = i
      BY <1>1, <2>2
    <3> QED BY <1>2, <3>1
  <2> QED BY <2>1, <2>2
<1>3. ASSUME NEW m, m = Head(q) \/ \E j \in 1..Len(Tail(q)) : Tail(q)[j] = m
      PROVE  \E i \in 1..Len(q) : q[i] = m
  <2>1. CASE m = Head(q)
    <3>1. 1 \in 1..Len(q) /\ q[1] = m
      BY <1>1, <2>1
    <3> QED BY <3>1
  <2>2. ASSUME NEW j \in 1..Len(Tail(q)), Tail(q)[j] = m
        PROVE  \E i \in 1..Len(q) : q[i] = m
    <3>1. j + 1 \in 1..Len(q) /\ q[j + 1] = m
      BY <1>1, <2>2
    <3> QED BY <3>1
  <2> QED BY <1>3, <2>1, <2>2
<1> QED BY <1>1, <1>2, <1>3

LEMMA BufferGrows ==
  ASSUME NEW q \in Seq(Messages), NEW new \in Messages
  PROVE  /\ Append(q, new) \in Seq(Messages)
         /\ \A m : (\E i \in 1..Len(Append(q, new)) : Append(q, new)[i] = m)
                     <=> m = new \/ \E i \in 1..Len(q) : q[i] = m
<1>1. /\ Append(q, new) \in Seq(Messages) /\ Len(q) \in Nat
      /\ Len(Append(q, new)) = Len(q) + 1 /\ Append(q, new)[Len(q) + 1] = new
      /\ \A i \in 1..Len(q) : Append(q, new)[i] = q[i]
  OBVIOUS
<1>2. 1..(Len(q) + 1) = 1..Len(q) \cup {Len(q) + 1}
  BY <1>1
<1> QED BY <1>1, <1>2

\* A step of a loop, or to it: the server is left alone, and what leaves a buffer has
\* been let go of or has reached a handler.
LEMMA LoopKeeps ==
  ASSUME NatsInv, NatsTypeOK', UNCHANGED <<fixed, server>>,
         handled \subseteq handled', dropped \subseteq dropped',
         \A s \in Subs : InBuffer(s)' \subseteq InBuffer(s),
         \A s \in Subs : (handling')[s] \subseteq handled',
         OneFilter => \A s \in Subs : \A m \in InBuffer(s) :
                        m \in InBuffer(s)' \/ m \in dropped' \/ m \in handled'
  PROVE  NatsInv'
<1>1. /\ mode \in {"core", "auto", "manual"}
      /\ state \in [Messages -> {"absent", "pending", "out", "done"}]
      /\ UNCHANGED <<mode, pattern, topic, published, filter, state, delivered>>
  BY DEF NatsInv, NatsTypeOK, fixed, server
<1>2. (\A m \in Messages : Counted(m))'
  BY <1>1 DEF NatsInv, Counted
<1>3. Filtered' /\ Reached'
  BY <1>1 DEF NatsInv, Filtered, Reached
<1>4. NothingToSkip'
  BY <1>1 DEF NatsInv, NothingToSkip, OneFilter
<1>5. ASSUME OneFilter, NEW m \in Messages, state[m] # "absent", m \notin handled'
      PROVE  Kept(m)'
  <2>1. Kept(m)
    BY <1>5 DEF NatsInv, KeptWhileOwed
  <2>2. CASE \E s \in Subs : m \in InBuffer(s)
    <3>1. (\E s \in Subs : m \in InBuffer(s)') \/ m \in dropped'
      BY <1>5, <2>2
    <3>2. mode = "manual" => state[m] \in {"pending", "out"}
      BY <1>1, <1>5 DEF NatsInv, Reached
    <3> QED BY <1>1, <3>1, <3>2 DEF Kept, Lost, Exhausted
  <2>3. CASE ~\E s \in Subs : m \in InBuffer(s)
    BY <1>1, <2>1, <2>3 DEF Kept, Lost, Exhausted
  <2> QED BY <2>2, <2>3
<1>6. KeptWhileOwed'
  BY <1>1, <1>5 DEF KeptWhileOwed, OneFilter
<1> QED BY <1>2, <1>3, <1>4, <1>6 DEF NatsInv

LEMMA InitKeeps == NatsInit => NatsInv
<1>1. SUFFICES ASSUME NatsInit PROVE NatsInv
  OBVIOUS
<1>2. NatsTypeOK
  BY <1>1, NatsBounds DEF NatsInit, NatsTypeOK
<1>3. \A s \in Subs : InBuffer(s) = {}
  BY <1>1 DEF NatsInit, InBuffer
<1>4. (\A m \in Messages : Counted(m)) /\ Filtered /\ Reached /\ KeptWhileOwed
  BY <1>1 DEF NatsInit, Counted, Filtered, Reached, KeptWhileOwed
<1>5. NothingToSkip
  BY <1>3 DEF NothingToSkip
<1> QED BY <1>2, <1>4, <1>5 DEF NatsInv

\* A buffer that is emptied is let go of; one that is taken from loses its head.
LEMMA Emptied ==
  ASSUME NatsInv, NEW s \in Subs, buffer' = [buffer EXCEPT ![s] = <<>>]
  PROVE  /\ buffer' \in [Subs -> Seq(Messages)]
         /\ \A t \in Subs : InBuffer(t)' \subseteq InBuffer(t)
         /\ \A t \in Subs : \A m \in InBuffer(t) : m \in InBuffer(t)' \/ m \in InBuffer(s)
         /\ InBuffer(s) \subseteq Messages
<1>1. buffer \in [Subs -> Seq(Messages)]
  BY DEF NatsInv, NatsTypeOK
<1>2. buffer' \in [Subs -> Seq(Messages)] /\ (buffer')[s] = <<>>
      /\ \A t \in Subs \ {s} : (buffer')[t] = buffer[t]
  BY <1>1
<1>3. InBuffer(s)' = {} /\ \A t \in Subs \ {s} : InBuffer(t)' = InBuffer(t)
  BY <1>2 DEF InBuffer
<1>4. InBuffer(s) \subseteq Messages
  BY <1>1 DEF InBuffer
<1> QED BY <1>2, <1>3, <1>4

LEMMA Taken ==
  ASSUME NatsInv, NEW s \in Subs, buffer[s] # <<>>, buffer' = [buffer EXCEPT ![s] = Tail(@)]
  PROVE  /\ buffer' \in [Subs -> Seq(Messages)]
         /\ Head(buffer[s]) \in Messages /\ Head(buffer[s]) \in InBuffer(s)
         /\ \A t \in Subs : InBuffer(t)' \subseteq InBuffer(t)
         /\ \A t \in Subs : \A m \in InBuffer(t) : m \in InBuffer(t)' \/ m = Head(buffer[s])
<1>1. buffer \in [Subs -> Seq(Messages)] /\ buffer[s] \in Seq(Messages)
  BY DEF NatsInv, NatsTypeOK
<1>2. /\ Head(buffer[s]) \in Messages /\ Tail(buffer[s]) \in Seq(Messages)
      /\ \A m : (\E i \in 1..Len(buffer[s]) : buffer[s][i] = m)
                  <=> m = Head(buffer[s])
                      \/ \E i \in 1..Len(Tail(buffer[s])) : Tail(buffer[s])[i] = m
  BY <1>1, BufferHead
<1>3. buffer' \in [Subs -> Seq(Messages)] /\ (buffer')[s] = Tail(buffer[s])
      /\ \A t \in Subs \ {s} : (buffer')[t] = buffer[t]
  BY <1>1, <1>2
<1>4. \A t \in Subs \ {s} : InBuffer(t)' = InBuffer(t)
  BY <1>3 DEF InBuffer
<1>5. \A m : m \in InBuffer(s) <=> m = Head(buffer[s]) \/ m \in InBuffer(s)'
  BY <1>2, <1>3 DEF InBuffer
<1> QED BY <1>2, <1>3, <1>4, <1>5

LEMMA Same ==
  ASSUME buffer' = buffer
  PROVE  \A t : InBuffer(t)' = InBuffer(t)
BY DEF InBuffer

\* What a step of the world counts.
LEMMA FaultTyped == ASSUME NatsTypeOK, Fault PROVE faults' \in 0..MaxFaults
BY NatsBounds DEF NatsTypeOK, Fault

LEMMA SubscribeKeeps == ASSUME NatsInv, NEW s \in Subs, Subscribe(s) PROVE NatsInv'
<1>1. NatsTypeOK'
  BY DEF NatsInv, NatsTypeOK, Subscribe, fixed, server, seen
<1>2. UNCHANGED <<fixed, server, buffer, handling, handled, dropped>>
  BY DEF Subscribe, seen
<1> QED BY <1>1, <1>2, Same, LoopKeeps DEF NatsInv, Reached

LEMMA RestartsKeeps == ASSUME NatsInv, NEW s \in Subs, Restarts(s) PROVE NatsInv'
<1>1. NatsTypeOK'
  BY DEF NatsInv, NatsTypeOK, Restarts, fixed, server, seen
<1>2. UNCHANGED <<fixed, server, buffer, handling, handled, dropped>>
  BY DEF Restarts, seen
<1> QED BY <1>1, <1>2, Same, LoopKeeps DEF NatsInv, Reached

LEMMA PauseKeeps == ASSUME NatsInv, NEW s \in Subs, Pause(s) PROVE NatsInv'
<1>1. NatsTypeOK'
  BY FaultTyped DEF NatsInv, NatsTypeOK, Pause, fixed, server, seen
<1>2. UNCHANGED <<fixed, server, buffer, handling, handled, dropped>>
  BY DEF Pause, seen
<1> QED BY <1>1, <1>2, Same, LoopKeeps DEF NatsInv, Reached

LEMMA ResumeKeeps == ASSUME NatsInv, NEW s \in Subs, Resume(s) PROVE NatsInv'
<1>1. NatsTypeOK'
  BY DEF NatsInv, NatsTypeOK, Resume, fixed, server, seen
<1>2. UNCHANGED <<fixed, server, buffer, handling, handled, dropped>>
  BY DEF Resume, seen
<1> QED BY <1>1, <1>2, Same, LoopKeeps DEF NatsInv, Reached

LEMMA HandlesKeeps == ASSUME NatsInv, NEW s \in Subs, Handles(s) PROVE NatsInv'
<1>1. buffer[s] # <<>> /\ buffer' = [buffer EXCEPT ![s] = Tail(@)]
      /\ UNCHANGED <<fixed, server, dropped>>
  BY DEF Handles, Looks
<1>2. /\ buffer' \in [Subs -> Seq(Messages)] /\ Head(buffer[s]) \in Messages
      /\ \A t \in Subs : InBuffer(t)' \subseteq InBuffer(t)
      /\ \A t \in Subs : \A m \in InBuffer(t) : m \in InBuffer(t)' \/ m = Head(buffer[s])
  BY <1>1, Taken
<1>3. NatsTypeOK'
  BY <1>2 DEF NatsInv, NatsTypeOK, Handles, fixed, server
<1>4. Head(buffer[s]) \in handled' /\ handled \subseteq handled'
  BY DEF Handles
<1>5. \A t \in Subs : (handling')[t] \subseteq handled'
  BY <1>4 DEF NatsInv, NatsTypeOK, Reached, Handles
<1> QED BY <1>1, <1>2, <1>3, <1>4, <1>5, LoopKeeps

LEMMA SkipsKeeps == ASSUME NatsInv, NEW s \in Subs, Skips(s) PROVE NatsInv'
<1>1. buffer[s] # <<>> /\ buffer' = [buffer EXCEPT ![s] = Tail(@)]
      /\ UNCHANGED <<fixed, server, handling, handled, dropped>>
  BY DEF Skips, Looks, seen
<1>2. /\ buffer' \in [Subs -> Seq(Messages)] /\ Head(buffer[s]) \in InBuffer(s)
      /\ \A t \in Subs : InBuffer(t)' \subseteq InBuffer(t)
  BY <1>1, Taken
<1>3. NatsTypeOK'
  BY <1>1, <1>2 DEF NatsInv, NatsTypeOK, Skips, fixed, server, seen
<1>4. ~OneFilter
  BY <1>2 DEF NatsInv, NothingToSkip, Skips
<1> QED BY <1>1, <1>2, <1>3, <1>4, LoopKeeps DEF NatsInv, Reached

LEMMA IgnoresKeeps == ASSUME NatsInv, NEW s \in Subs, Ignores(s) PROVE NatsInv'
<1>1. buffer[s] # <<>> /\ buffer' = [buffer EXCEPT ![s] = Tail(@)]
      /\ UNCHANGED <<fixed, server, handling, handled>>
      /\ dropped' = dropped \cup {Head(buffer[s])}
  BY DEF Ignores, LetGo, server
<1>2. /\ buffer' \in [Subs -> Seq(Messages)] /\ Head(buffer[s]) \in Messages
      /\ \A t \in Subs : InBuffer(t)' \subseteq InBuffer(t)
      /\ \A t \in Subs : \A m \in InBuffer(t) : m \in InBuffer(t)' \/ m = Head(buffer[s])
  BY <1>1, Taken
<1>3. NatsTypeOK'
  BY <1>1, <1>2 DEF NatsInv, NatsTypeOK, Ignores, fixed, server
<1> QED BY <1>1, <1>2, <1>3, LoopKeeps DEF NatsInv, Reached

LEMMA BreaksKeeps == ASSUME NatsInv, NEW s \in Subs, Breaks(s) PROVE NatsInv'
<1>1. buffer' = [buffer EXCEPT ![s] = <<>>] /\ UNCHANGED <<fixed, server, handling, handled>>
      /\ dropped' = dropped \cup InBuffer(s)
  BY DEF Breaks, LetGo, server
<1>2. /\ buffer' \in [Subs -> Seq(Messages)]
      /\ \A t \in Subs : InBuffer(t)' \subseteq InBuffer(t)
      /\ \A t \in Subs : \A m \in InBuffer(t) : m \in InBuffer(t)' \/ m \in InBuffer(s)
      /\ InBuffer(s) \subseteq Messages
  BY <1>1, Emptied
<1>3. NatsTypeOK'
  BY <1>1, <1>2 DEF NatsInv, NatsTypeOK, Breaks, Stopped, fixed, server
<1> QED BY <1>1, <1>2, <1>3, LoopKeeps DEF NatsInv, Reached

LEMMA ConsumerFailsKeeps == ASSUME NatsInv, NEW s \in Subs, ConsumerFails(s) PROVE NatsInv'
<1>1. buffer' = [buffer EXCEPT ![s] = <<>>] /\ UNCHANGED <<fixed, server, handling, handled>>
      /\ dropped' = dropped \cup InBuffer(s)
  BY DEF ConsumerFails, LetGo, server
<1>2. /\ buffer' \in [Subs -> Seq(Messages)]
      /\ \A t \in Subs : InBuffer(t)' \subseteq InBuffer(t)
      /\ \A t \in Subs : \A m \in InBuffer(t) : m \in InBuffer(t)' \/ m \in InBuffer(s)
      /\ InBuffer(s) \subseteq Messages
  BY <1>1, Emptied
<1>3. NatsTypeOK'
  BY <1>1, <1>2, FaultTyped DEF NatsInv, NatsTypeOK, ConsumerFails, Stopped, fixed, server
<1> QED BY <1>1, <1>2, <1>3, LoopKeeps DEF NatsInv, Reached

LEMMA LeavesKeeps ==
  ASSUME NatsInv, NEW s \in Subs, NEW crash \in BOOLEAN, Leaves(s, crash)
  PROVE  NatsInv'
<1>1. buffer' = [buffer EXCEPT ![s] = <<>>] /\ UNCHANGED <<fixed, server, handled>>
      /\ dropped' = dropped \cup InBuffer(s)
  BY DEF Leaves, LetGo, server
<1>2. /\ buffer' \in [Subs -> Seq(Messages)]
      /\ \A t \in Subs : InBuffer(t)' \subseteq InBuffer(t)
      /\ \A t \in Subs : \A m \in InBuffer(t) : m \in InBuffer(t)' \/ m \in InBuffer(s)
      /\ InBuffer(s) \subseteq Messages
  BY <1>1, Emptied
<1>3. /\ handling' \in [Subs -> SUBSET Messages]
      /\ \A t \in Subs : (handling')[t] \subseteq handling[t]
  BY DEF NatsInv, NatsTypeOK, Leaves
<1>4. NatsTypeOK'
  BY <1>1, <1>2, <1>3, FaultTyped DEF NatsInv, NatsTypeOK, Leaves, fixed, server
<1> QED BY <1>1, <1>2, <1>3, <1>4, LoopKeeps DEF NatsInv, Reached

LEMMA UnsubscribeKeeps == ASSUME NatsInv, NEW s \in Subs, Unsubscribe(s) PROVE NatsInv'
<1>1. UNCHANGED <<fixed, server, handling, handled>>
  BY DEF Unsubscribe, LetGo, server
<1>2. CASE mode = "core"
  <2>1. buffer' = [buffer EXCEPT ![s] = <<>>] /\ dropped' = dropped \cup InBuffer(s)
    BY <1>2 DEF Unsubscribe, LetGo
  <2>2. /\ buffer' \in [Subs -> Seq(Messages)]
        /\ \A t \in Subs : InBuffer(t)' \subseteq InBuffer(t)
        /\ \A t \in Subs : \A m \in InBuffer(t) : m \in InBuffer(t)' \/ m \in InBuffer(s)
        /\ InBuffer(s) \subseteq Messages
    BY <2>1, Emptied
  <2>3. NatsTypeOK'
    BY <1>1, <1>2, <2>1, <2>2, FaultTyped
    DEF NatsInv, NatsTypeOK, Unsubscribe, fixed, server
  <2> QED BY <1>1, <2>1, <2>2, <2>3, LoopKeeps DEF NatsInv, Reached
<1>3. CASE mode # "core"
  <2>1. UNCHANGED <<buffer, dropped>>
    BY <1>3 DEF Unsubscribe
  <2>2. NatsTypeOK'
    BY <1>1, <1>3, FaultTyped DEF NatsInv, NatsTypeOK, Unsubscribe, fixed, server
  <2> QED BY <1>1, <2>1, <2>2, Same, LoopKeeps DEF NatsInv, Reached
<1> QED BY <1>2, <1>3

\* A message joins a buffer.
LEMMA Joins ==
  ASSUME NatsInv, NEW s \in Subs, NEW new \in Messages,
         buffer' = [buffer EXCEPT ![s] = Append(@, new)]
  PROVE  /\ buffer' \in [Subs -> Seq(Messages)]
         /\ \A t \in Subs \ {s} : InBuffer(t)' = InBuffer(t)
         /\ InBuffer(s)' = InBuffer(s) \cup {new}
<1>1. buffer \in [Subs -> Seq(Messages)] /\ buffer[s] \in Seq(Messages)
  BY DEF NatsInv, NatsTypeOK
<1>2. /\ Append(buffer[s], new) \in Seq(Messages)
      /\ \A m : (\E i \in 1..Len(Append(buffer[s], new)) : Append(buffer[s], new)[i] = m)
                  <=> m = new \/ \E i \in 1..Len(buffer[s]) : buffer[s][i] = m
  BY <1>1, BufferGrows
<1>3. buffer' \in [Subs -> Seq(Messages)] /\ (buffer')[s] = Append(buffer[s], new)
      /\ \A t \in Subs \ {s} : (buffer')[t] = buffer[t]
  BY <1>1, <1>2
<1>4. \A t \in Subs \ {s} : InBuffer(t)' = InBuffer(t)
  BY <1>3 DEF InBuffer
<1>5. \A m : m \in InBuffer(s)' <=> m = new \/ m \in InBuffer(s)
  BY <1>2, <1>3 DEF InBuffer
<1>6. InBuffer(s)' = InBuffer(s) \cup {new}
  BY <1>5
<1> QED BY <1>3, <1>4, <1>6

LEMMA PublishCoreKeeps == ASSUME NatsInv, NEW m \in Messages, PublishCore(m) PROVE NatsInv'
<1>1. /\ mode = "core" /\ m \notin published /\ published' = published \cup {m}
      /\ UNCHANGED <<mode, pattern, topic, filter, delivered, status, subRunning, subPaused,
                     handling, handled, dropped, faults>>
  BY DEF PublishCore, fixed, seen
<1>2. CASE UNCHANGED <<buffer, state>>
  <2>1. NatsTypeOK'
    BY <1>1, <1>2 DEF NatsInv, NatsTypeOK
  <2>2. \A t : InBuffer(t)' = InBuffer(t)
    BY <1>2, Same
  <2>3. (\A n \in Messages : Counted(n))' /\ Filtered' /\ Reached'
    BY <1>1, <1>2 DEF NatsInv, Counted, Filtered, Reached
  <2>4. NothingToSkip' /\ KeptWhileOwed'
    BY <1>1, <1>2, <2>2 DEF NatsInv, NothingToSkip, KeptWhileOwed, OneFilter, Kept, Lost, Exhausted
  <2> QED BY <2>1, <2>3, <2>4 DEF NatsInv
<1>3. ASSUME NEW s \in Subs, pattern[s] = topic[m],
             buffer' = [buffer EXCEPT ![s] = Append(@, m)],
             state' = [state EXCEPT ![m] = "done"]
      PROVE  NatsInv'
  <2>1. /\ buffer' \in [Subs -> Seq(Messages)]
        /\ \A t \in Subs \ {s} : InBuffer(t)' = InBuffer(t)
        /\ InBuffer(s)' = InBuffer(s) \cup {m}
    BY <1>3, Joins
  <2>2. /\ state \in [Messages -> {"absent", "pending", "out", "done"}]
        /\ (state')[m] = "done" /\ \A n \in Messages \ {m} : (state')[n] = state[n]
    BY <1>3 DEF NatsInv, NatsTypeOK
  <2>3. NatsTypeOK'
    BY <1>1, <1>3, <2>1 DEF NatsInv, NatsTypeOK
  <2>4. (\A n \in Messages : Counted(n))' /\ Filtered' /\ Reached'
    BY <1>1, <2>2 DEF NatsInv, Counted, Filtered, Reached
  <2>5. NothingToSkip'
    BY <1>1, <1>3, <2>1 DEF NatsInv, NothingToSkip, OneFilter
  <2>6. KeptWhileOwed'
    BY <1>1, <2>1, <2>2 DEF NatsInv, KeptWhileOwed, OneFilter, Kept, Lost, Exhausted
  <2> QED BY <2>3, <2>4, <2>5, <2>6 DEF NatsInv
<1> QED BY <1>2, <1>3 DEF PublishCore

LEMMA PublishStreamKeeps == ASSUME NatsInv, NEW m \in Messages, PublishStream(m) PROVE NatsInv'
<1>1. /\ mode # "core" /\ m \notin published /\ published' = published \cup {m}
      /\ state' = IF filter = topic[m] THEN [state EXCEPT ![m] = "pending"] ELSE state
      /\ UNCHANGED <<mode, pattern, topic, filter, delivered, status, subRunning, subPaused,
                     buffer, handling, handled, dropped, faults>>
  BY DEF PublishStream, fixed, seen, loop
<1>2. NatsTypeOK'
  BY <1>1 DEF NatsInv, NatsTypeOK
<1>3. \A t : InBuffer(t)' = InBuffer(t)
  BY <1>1, Same
<1>4. /\ state \in [Messages -> {"absent", "pending", "out", "done"}]
      /\ state[m] = "absent" /\ delivered[m] = 0 /\ topic[m] # "none"
      /\ \A n \in Messages \ {m} : (state')[n] = state[n]
      /\ (state')[m] = IF filter = topic[m] THEN "pending" ELSE "absent"
  BY <1>1, NatsTopics DEF NatsInv, NatsTypeOK, Counted
<1>5. (\A n \in Messages : Counted(n))' /\ Filtered' /\ Reached'
  BY <1>1, <1>4, NatsBounds DEF NatsInv, Counted, Filtered, Reached
<1>6. NothingToSkip' /\ KeptWhileOwed'
  BY <1>1, <1>3, <1>4 DEF NatsInv, NothingToSkip, KeptWhileOwed, OneFilter, Kept, Lost, Exhausted
<1> QED BY <1>2, <1>5, <1>6 DEF NatsInv

LEMMA AddConsumerKeeps == ASSUME NatsInv, NEW s \in Subs, AddConsumer(s) PROVE NatsInv'
<1>1. /\ mode # "core"
      /\ UNCHANGED <<mode, pattern, topic, published, delivered, subRunning, subPaused,
                     buffer, handling, handled, dropped, faults>>
  BY DEF AddConsumer, fixed, seen
<1>2. \A t : InBuffer(t)' = InBuffer(t)
  BY <1>1, Same
<1>3. CASE filter # "none"
  <2>1. UNCHANGED <<filter, state>>
    BY <1>3 DEF AddConsumer
  <2>2. NatsTypeOK'
    BY <1>1, <2>1 DEF NatsInv, NatsTypeOK, AddConsumer
  <2>3. (\A n \in Messages : Counted(n))' /\ Filtered' /\ Reached'
    BY <1>1, <2>1 DEF NatsInv, Counted, Filtered, Reached
  <2>4. NothingToSkip' /\ KeptWhileOwed'
    BY <1>1, <1>2, <2>1
    DEF NatsInv, NothingToSkip, KeptWhileOwed, OneFilter, Kept, Lost, Exhausted
  <2> QED BY <2>2, <2>3, <2>4 DEF NatsInv
<1>4. CASE filter = "none"
  <2>1. /\ filter' = pattern[s]
        /\ state' = [m \in Messages |->
             IF m \in published /\ topic[m] = pattern[s] THEN "pending" ELSE "absent"]
    BY <1>4 DEF AddConsumer
  <2>2. \A m \in Messages : state[m] = "absent" /\ delivered[m] = 0
    BY <1>1, <1>4 DEF NatsInv, Filtered, Counted
  <2>3. pattern[s] \in Topics /\ filter' # "none"
    BY <2>1, NatsTopics DEF NatsInv, NatsTypeOK
  <2>4. NatsTypeOK'
    BY <1>1, <2>1, <2>3 DEF NatsInv, NatsTypeOK, AddConsumer
  <2>5. (\A n \in Messages : Counted(n))' /\ Filtered' /\ Reached'
    BY <1>1, <2>1, <2>2, <2>3, NatsBounds DEF NatsInv, Counted, Filtered, Reached
  <2>6. NothingToSkip'
    BY <1>1, <1>2 DEF NatsInv, NothingToSkip, OneFilter
  <2>7. KeptWhileOwed'
    BY <2>1 DEF KeptWhileOwed, Kept
  <2> QED BY <2>4, <2>5, <2>6, <2>7 DEF NatsInv
<1> QED BY <1>3, <1>4

LEMMA DeliverKeeps ==
  ASSUME NatsInv, NEW s \in Subs, NEW m \in Messages, Deliver(s, m)
  PROVE  NatsInv'
<1>1. /\ mode # "core" /\ state[m] = "pending"
      /\ buffer' = [buffer EXCEPT ![s] = Append(@, m)]
      /\ state' = [state EXCEPT ![m] = IF mode = "manual" THEN "out" ELSE "done"]
      /\ delivered' = [delivered EXCEPT ![m] = @ + 1]
      /\ UNCHANGED <<mode, pattern, topic, published, filter, status, subRunning, subPaused,
                     handling, handled, dropped, faults>>
  BY DEF Deliver, fixed, seen
<1>2. /\ buffer' \in [Subs -> Seq(Messages)]
      /\ \A t \in Subs \ {s} : InBuffer(t)' = InBuffer(t)
      /\ InBuffer(s)' = InBuffer(s) \cup {m}
  BY <1>1, Joins
<1>3. /\ state \in [Messages -> {"absent", "pending", "out", "done"}]
      /\ delivered \in [Messages -> 0..MaxDeliver] /\ delivered[m] < MaxDeliver
      /\ (state')[m] = IF mode = "manual" THEN "out" ELSE "done"
      /\ \A n \in Messages \ {m} : (state')[n] = state[n] /\ (delivered')[n] = delivered[n]
  BY <1>1 DEF NatsInv, NatsTypeOK, Counted
<1>4. delivered' \in [Messages -> 0..MaxDeliver]
  BY <1>1, <1>3, NatsBounds
<1>5. NatsTypeOK'
  BY <1>1, <1>2, <1>4 DEF NatsInv, NatsTypeOK
<1>6. (\A n \in Messages : Counted(n))' /\ Filtered' /\ Reached'
  BY <1>1, <1>3 DEF NatsInv, Counted, Filtered, Reached
<1>7. OneFilter => \A t \in Subs : topic[m] = pattern[t]
  BY <1>1 DEF NatsInv, Filtered, OneFilter
<1>8. NothingToSkip'
  <2>1. ASSUME OneFilter, NEW t \in Subs, NEW n \in InBuffer(t)'
        PROVE  topic[n] = pattern[t]
    <3>1. n \in InBuffer(t) \/ n = m
      BY <1>2, <2>1
    <3> QED BY <1>7, <2>1, <3>1 DEF NatsInv, NothingToSkip
  <2> QED BY <1>1, <2>1 DEF NothingToSkip, OneFilter
<1>9. KeptWhileOwed'
  BY <1>1, <1>2, <1>3 DEF NatsInv, KeptWhileOwed, OneFilter, Kept, Lost, Exhausted
<1> QED BY <1>5, <1>6, <1>8, <1>9 DEF NatsInv

LEMMA AckWaitEndsKeeps == ASSUME NatsInv, NEW m \in Messages, AckWaitEnds(m) PROVE NatsInv'
<1>1. /\ state[m] = "out" /\ delivered[m] < MaxDeliver
      /\ state' = [state EXCEPT ![m] = "pending"]
      /\ UNCHANGED <<mode, pattern, topic, published, filter, delivered, status, subRunning,
                     subPaused, buffer, handling, handled, dropped, faults>>
  BY DEF AckWaitEnds, fixed, seen, loop
<1>2. NatsTypeOK'
  BY <1>1 DEF NatsInv, NatsTypeOK
<1>3. \A t : InBuffer(t)' = InBuffer(t)
  BY <1>1, Same
<1>4. /\ state \in [Messages -> {"absent", "pending", "out", "done"}]
      /\ (state')[m] = "pending" /\ \A n \in Messages \ {m} : (state')[n] = state[n]
  BY <1>1 DEF NatsInv, NatsTypeOK
<1>5. (\A n \in Messages : Counted(n))' /\ Filtered' /\ Reached'
  BY <1>1, <1>4 DEF NatsInv, Counted, Filtered, Reached
<1>6. NothingToSkip' /\ KeptWhileOwed'
  BY <1>1, <1>3, <1>4 DEF NatsInv, NothingToSkip, KeptWhileOwed, OneFilter, Kept, Lost, Exhausted
<1> QED BY <1>2, <1>5, <1>6 DEF NatsInv

LEMMA HandlerEndsKeeps ==
  ASSUME NatsInv, NEW s \in Subs, NEW act \in Acts, HandlerEnds(s, act)
  PROVE  NatsInv'
<1>1. PICK m \in handling[s] :
        /\ handling' = [handling EXCEPT ![s] = {}]
        /\ state' = IF act = "ack" /\ state[m] = "out" THEN [state EXCEPT ![m] = "done"]
                    ELSE IF act = "nack" /\ state[m] = "out" /\ delivered[m] < MaxDeliver
                    THEN [state EXCEPT ![m] = "pending"] ELSE state
  BY DEF HandlerEnds
<1>2. UNCHANGED <<mode, pattern, topic, published, filter, delivered, status, subRunning,
                  subPaused, buffer, handled, dropped, faults>>
  BY DEF HandlerEnds, fixed, seen
<1>3. m \in Messages /\ m \in handled
  BY DEF NatsInv, NatsTypeOK, Reached
<1>4. /\ state \in [Messages -> {"absent", "pending", "out", "done"}]
      /\ \A n \in Messages \ {m} : (state')[n] = state[n]
      /\ \/ (state')[m] = state[m]
         \/ state[m] = "out" /\ (state')[m] = "done"
         \/ state[m] = "out" /\ (state')[m] = "pending" /\ delivered[m] < MaxDeliver
  BY <1>1, <1>3 DEF NatsInv, NatsTypeOK
<1>5. NatsTypeOK'
  BY <1>1, <1>2, <1>3 DEF NatsInv, NatsTypeOK
<1>6. \A t : InBuffer(t)' = InBuffer(t)
  BY <1>2, Same
<1>7. (\A n \in Messages : Counted(n))' /\ Filtered'
  BY <1>2, <1>3, <1>4 DEF NatsInv, Counted, Filtered
<1>8. Reached'
  <2>1. \A t \in Subs : (handling')[t] \subseteq handling[t]
    BY <1>1 DEF NatsInv, NatsTypeOK
  <2> QED BY <1>2, <1>3, <1>4, <2>1 DEF NatsInv, Reached
<1>9. NothingToSkip'
  BY <1>2, <1>6 DEF NatsInv, NothingToSkip, OneFilter
<1>10. KeptWhileOwed'
  BY <1>2, <1>3, <1>4, <1>6 DEF NatsInv, KeptWhileOwed, OneFilter, Kept, Lost, Exhausted
<1> QED BY <1>5, <1>7, <1>8, <1>9, <1>10 DEF NatsInv

LEMMA NatsStep == NatsInv /\ [NatsNext]_natsVars => NatsInv'
<1> SUFFICES ASSUME NatsInv, [NatsNext]_natsVars PROVE NatsInv'
  OBVIOUS
<1>2. CASE Publishing
  BY <1>2, PublishCoreKeeps, PublishStreamKeeps DEF Publishing
<1>3. CASE Joining
  BY <1>3, AddConsumerKeeps, SubscribeKeeps DEF Joining
<1>4. CASE Serving
  BY <1>4, DeliverKeeps, AckWaitEndsKeeps DEF Serving
<1>5. ASSUME NEW s \in Subs, Looping(s) PROVE NatsInv'
  BY <1>5, BreaksKeeps, IgnoresKeeps, SkipsKeeps, HandlesKeeps, RestartsKeeps, HandlerEndsKeeps
  DEF Looping
<1>6. CASE Disturbing
  BY <1>6, PauseKeeps, ResumeKeeps, UnsubscribeKeeps, ConsumerFailsKeeps, LeavesKeeps
  DEF Disturbing
<1>7. CASE UNCHANGED natsVars
  <2>1. UNCHANGED <<fixed, server, buffer, handling, handled, dropped>> /\ NatsTypeOK'
    BY <1>7 DEF NatsInv, NatsTypeOK, natsVars, fixed, server, loop, seen
  <2> QED BY <2>1, Same, LoopKeeps DEF NatsInv, Reached
<1> QED BY <1>2, <1>3, <1>4, <1>5, <1>6, <1>7 DEF NatsNext

\* The values stay in their domains; no message is handed out more than MaxDeliver
\* times, however often it is not acknowledged or given back.
THEOREM NatsTypes == NatsSpec => []NatsTypeOK
<1>1. NatsInv => NatsTypeOK
  BY DEF NatsInv
<1> QED BY InitKeeps, NatsStep, <1>1, PTL DEF NatsSpec

\* For any number of subscriptions under one name, in every mode of the two adapters: a
\* message that was there for them and that no handler has had is in a buffer or will be
\* handed out again, unless a loop that stopped or was paused let go of it (processMessages,
\* startConsumption and the callback of the core adapter), and in manual mode only on its
\* last delivery.
THEOREM LostIsLetGo == NatsSpec => []LostOnlyWhenLetGo
<1>1. NatsInv => LostOnlyWhenLetGo
  BY KeptIsEnough DEF NatsInv
<1> QED BY InitKeeps, NatsStep, <1>1, PTL DEF NatsSpec

-----------------------------------------------------------------------------
(* The search for the next run of a cron expression.                        *)

LEMMA LeastIsThere ==
  ASSUME NEW values \in SUBSET Nat, values # {}
  PROVE  Least(values) \in values /\ \A v \in values : Least(values) <= v
<1>1. PICK n \in values : \A k \in values : ~(<<k, n>> \in OpToRel(<, Nat))
  BY WFMin, NatLessThanWellFounded, Zenon
<1>2. \A k \in values : ~(k < n)
  BY <1>1 DEF OpToRel
<1>3. \A k \in values : n <= k
  BY <1>2
<1> QED BY <1>3 DEF Least

LEMMA Multiples ==
  ASSUME NEW x \in Nat, NEW y \in Nat, NEW n \in Nat, x < y
  PROVE  x * n \in Nat /\ y * n \in Nat /\ x * n + n <= y * n
<1>1. y - x - 1 \in Nat /\ y = x + 1 + (y - x - 1)
  OBVIOUS
<1>2. PICK k \in Nat : y = x + 1 + k
  BY <1>1
<1>3. x * n \in Nat /\ y * n = x * n + n + k * n /\ k * n \in Nat
  BY <1>2
<1> QED BY <1>3

\* Numbers written with a last digit below n are compared digit by digit.
LEMMA DigitByDigit ==
  ASSUME NEW a \in Nat, NEW b \in Nat, NEW c \in Nat, NEW d \in Nat, NEW n \in Nat, b < n, d < n
  PROVE  /\ a * n + b \in Nat /\ c * n + d \in Nat
         /\ (a * n + b < c * n + d) <=> (a < c \/ (a = c /\ b < d))
<1>1. a * n \in Nat /\ c * n \in Nat
  OBVIOUS
<1>2. CASE a < c
  <2>1. a * n + n <= c * n BY <1>2, Multiples
  <2> QED BY <1>1, <1>2, <2>1
<1>3. CASE c < a
  <2>1. c * n + n <= a * n BY <1>3, Multiples
  <2> QED BY <1>1, <1>3, <2>1
<1> QED BY <1>1, <1>2, <1>3

LEMMA Division ==
  ASSUME NEW a \in Nat, NEW n \in Nat \ {0}
  PROVE  /\ a \div n \in Nat /\ a % n \in Nat /\ a % n < n /\ (a \div n) * n \in Nat
         /\ a = (a \div n) * n + (a % n)
OBVIOUS

LEMMA Carried ==
  ASSUME NEW a \in Nat, NEW n \in Nat \ {0}, a <= n
  PROVE  /\ a < n => a \div n = 0 /\ a % n = a
         /\ a = n => a \div n = 1 /\ a % n = 0
OBVIOUS

-----------------------------------------------------------------------------
\* The order of local times, field by field.
Before(t, month, date, hour, minute, second) ==
  \/ t.month < month
  \/ t.month = month /\ t.date < date
  \/ t.month = month /\ t.date = date /\ t.hour < hour
  \/ t.month = month /\ t.date = date /\ t.hour = hour /\ t.minute < minute
  \/ t.month = month /\ t.date = date /\ t.hour = hour /\ t.minute = minute /\ t.second < second
Earlier(t, u) == Before(t, u.month, u.date, u.hour, u.minute, u.second)

LEMMA Units ==
  /\ SecondsPerMinute \in Nat \ {0} /\ MinutesPerHour \in Nat \ {0} /\ HoursPerDay \in Nat \ {0}
  /\ MonthsPerYear \in Nat \ {0} /\ StartMonths \in Nat \ {0} /\ MaxYears \in Nat
  /\ DaysPerMonth \in Nat
BY CronUnits

LEMMA Calendar ==
  ASSUME NEW month \in Months
  PROVE  /\ month \in Nat /\ FirstDay[month + 1] \in Nat /\ FirstDay[month + 2] \in Nat
         /\ DaysInMonth(month) \in Nat \ {0} /\ DaysInMonth(month) <= DaysPerMonth
         /\ DaysInMonth(month) = FirstDay[month + 2] - FirstDay[month + 1]
         /\ \A later \in Months : month < later => FirstDay[month + 2] <= FirstDay[later + 1]
<1>1. /\ FirstDay \in Seq(Nat) /\ \A i, j \in 1..Len(FirstDay) : i < j => FirstDay[i] < FirstDay[j]
      /\ \A i \in 1..(Len(FirstDay) - 1) : FirstDay[i + 1] - FirstDay[i] <= DaysPerMonth
  BY CronUnits
<1>2. /\ month \in Nat /\ month + 1 \in 1..(Len(FirstDay) - 1) /\ month + 2 \in 1..Len(FirstDay)
      /\ month + 1 \in 1..Len(FirstDay) /\ (month + 1) + 1 = month + 2
  BY <1>1 DEF Months
<1>3. \A i \in 1..Len(FirstDay) : FirstDay[i] \in Nat
  BY <1>1
<1>4. FirstDay[month + 1] < FirstDay[month + 2] /\ FirstDay[month + 2] - FirstDay[month + 1] <= DaysPerMonth
  BY <1>1, <1>2
<1>5. ASSUME NEW later \in Months, month < later PROVE FirstDay[month + 2] <= FirstDay[later + 1]
  <2>1. later + 1 \in 1..Len(FirstDay) /\ (month + 2 < later + 1 \/ month + 2 = later + 1)
    BY <1>1, <1>2, <1>5 DEF Months
  <2> QED BY <1>1, <1>2, <1>3, <2>1
<1> QED BY <1>2, <1>3, <1>4, <1>5 DEF DaysInMonth

LEMMA CandidateFields ==
  ASSUME NEW t \in Candidates
  PROVE  /\ t.month \in Months /\ t.month \in Nat /\ t.date \in Nat \ {0} /\ t.hour \in Nat
         /\ t.minute \in Nat /\ t.second \in Nat /\ t.again = FALSE
         /\ t.date <= DaysInMonth(t.month) /\ t.hour < HoursPerDay
         /\ t.minute < MinutesPerHour /\ t.second < SecondsPerMinute
         /\ ~Is(t.month, t.date, t.hour, Skipped)
<1>1. t.month \in Months /\ t.month \in Nat
  BY Calendar DEF Candidates, Instants
<1>2. /\ t.hour \in Nat /\ t.hour < HoursPerDay /\ t.minute \in Nat /\ t.minute < MinutesPerHour
      /\ t.second \in Nat /\ t.second < SecondsPerMinute /\ t.again = FALSE
  BY Units DEF Candidates, Instants
<1>3. t.date \in Nat \ {0} /\ t.date <= DaysInMonth(t.month)
  <2>1. t.date \in 1..Bounds.daysOfMonth[2]
    BY DEF Candidates, Instants
  <2>2. Bounds.daysOfMonth[2] = DaysPerMonth
    BY DEF Bounds
  <2> QED BY <2>1, <2>2 DEF Candidates, Instants
<1> QED BY <1>1, <1>2, <1>3 DEF Candidates, Instants

LEMMA IsCandidate ==
  ASSUME NEW t, NEW month \in Months, NEW date \in 1..DaysInMonth(month),
         NEW hour \in 0..(HoursPerDay - 1), NEW minute \in 0..(MinutesPerHour - 1),
         NEW second \in 0..(SecondsPerMinute - 1), ~Is(month, date, hour, Skipped),
         t = [month |-> month, date |-> date, hour |-> hour, again |-> FALSE,
              minute |-> minute, second |-> second]
  PROVE  t \in Candidates
<1>1. Bounds.daysOfMonth[2] = DaysPerMonth
  BY DEF Bounds
<1>2. date \in 1..Bounds.daysOfMonth[2] /\ date <= DaysInMonth(month)
  BY <1>1, Calendar, Units
<1> QED BY <1>2 DEF Candidates, Instants

LEMMA NumberOrders ==
  ASSUME NEW t \in Candidates, NEW u \in Candidates
  PROVE  Number(t) \in Nat /\ Number(u) \in Nat /\ (Number(t) < Number(u) <=> Earlier(t, u))
<1> DEFINE Day(x) == FirstDay[x.month + 1] + x.date - 1
           Hour(x) == Day(x) * HoursPerDay + x.hour
           Half(x) == Hour(x) * 2 + 0
           Minute(x) == Half(x) * MinutesPerHour + x.minute
<1>1. \A x \in {t, u} : Number(x) = Minute(x) * SecondsPerMinute + x.second
  BY CandidateFields DEF Number
<1>2. /\ Day(t) \in Nat /\ Day(u) \in Nat
      /\ Day(t) < Day(u) <=> (t.month < u.month \/ (t.month = u.month /\ t.date < u.date))
      /\ Day(t) = Day(u) <=> t.month = u.month /\ t.date = u.date
  <2>1. /\ FirstDay[t.month + 1] \in Nat /\ FirstDay[u.month + 1] \in Nat
        /\ t.date \in Nat \ {0} /\ u.date \in Nat \ {0}
        /\ t.date <= FirstDay[t.month + 2] - FirstDay[t.month + 1]
        /\ u.date <= FirstDay[u.month + 2] - FirstDay[u.month + 1]
        /\ FirstDay[t.month + 2] \in Nat /\ FirstDay[u.month + 2] \in Nat
        /\ t.month < u.month => FirstDay[t.month + 2] <= FirstDay[u.month + 1]
        /\ u.month < t.month => FirstDay[u.month + 2] <= FirstDay[t.month + 1]
        /\ t.month \in Nat /\ u.month \in Nat
    BY CandidateFields, Calendar
  <2>2. CASE t.month = u.month
    BY <2>1, <2>2
  <2>3. CASE t.month < u.month
    BY <2>1, <2>3
  <2>4. CASE u.month < t.month
    BY <2>1, <2>4
  <2> QED BY <2>1, <2>2, <2>3, <2>4
<1> HIDE DEF Day
<1>3. /\ Hour(t) \in Nat /\ Hour(u) \in Nat
      /\ Hour(t) < Hour(u) <=> (Day(t) < Day(u) \/ (Day(t) = Day(u) /\ t.hour < u.hour))
      /\ Hour(u) < Hour(t) <=> (Day(u) < Day(t) \/ (Day(u) = Day(t) /\ u.hour < t.hour))
  BY <1>2, CandidateFields, DigitByDigit, Units
<1> HIDE DEF Hour
<1>4. Half(t) \in Nat /\ Half(u) \in Nat /\ (Half(t) < Half(u) <=> Hour(t) < Hour(u))
      /\ (Half(u) < Half(t) <=> Hour(u) < Hour(t))
  BY <1>3
<1> HIDE DEF Half
<1>5. /\ t.minute \in Nat /\ u.minute \in Nat /\ t.second \in Nat /\ u.second \in Nat
      /\ t.minute < MinutesPerHour /\ u.minute < MinutesPerHour
      /\ t.second < SecondsPerMinute /\ u.second < SecondsPerMinute
      /\ MinutesPerHour \in Nat /\ SecondsPerMinute \in Nat
  BY CandidateFields, Units
<1>6. /\ Minute(t) \in Nat /\ Minute(u) \in Nat
      /\ Minute(t) < Minute(u) <=> (Half(t) < Half(u) \/ (Half(t) = Half(u) /\ t.minute < u.minute))
      /\ Minute(u) < Minute(t) <=> (Half(u) < Half(t) \/ (Half(u) = Half(t) /\ u.minute < t.minute))
  BY <1>4, <1>5, DigitByDigit
<1> HIDE DEF Minute
<1>8. /\ Minute(t) * SecondsPerMinute + t.second \in Nat
      /\ Minute(u) * SecondsPerMinute + u.second \in Nat
      /\ Minute(t) * SecondsPerMinute + t.second < Minute(u) * SecondsPerMinute + u.second
           <=> (Minute(t) < Minute(u) \/ (Minute(t) = Minute(u) /\ t.second < u.second))
  BY <1>5, <1>6, DigitByDigit
<1>7. /\ t.hour \in Nat /\ u.hour \in Nat /\ t.minute \in Nat /\ u.minute \in Nat
      /\ t.second \in Nat /\ u.second \in Nat
  BY CandidateFields
<1>9. Earlier(t, u) <=> Minute(t) < Minute(u) \/ (Minute(t) = Minute(u) /\ t.second < u.second)
  BY <1>2, <1>3, <1>4, <1>5, <1>6, <1>7 DEF Earlier, Before
<1> QED BY <1>1, <1>8, <1>9
-----------------------------------------------------------------------------
\* What Date's setters are given: at most one field is past its end, by one, and those
\* after it are 0; so they are in an hour that the clocks skip.
Given(month, date, hour, minute, second) ==
  /\ month \in Months /\ month + 1 \in Months
  /\ date \in Nat \ {0} /\ date <= DaysInMonth(month) + 1
  /\ hour \in Nat /\ hour <= HoursPerDay
  /\ minute \in Nat /\ minute <= MinutesPerHour
  /\ second \in Nat /\ second <= SecondsPerMinute
  /\ date > DaysInMonth(month) => hour = 0 /\ minute = 0 /\ second = 0
  /\ hour = HoursPerDay => minute = 0 /\ second = 0
  /\ minute = MinutesPerHour => second = 0
  /\ Is(month, date, hour, Skipped) => minute = 0 /\ second = 0

\* A setter makes the first local time there is that is not before what it is given.
LEMMA SetIsFirst ==
  ASSUME NEW month, NEW date, NEW hour, NEW minute, NEW second,
         Given(month, date, hour, minute, second)
  PROVE  /\ Set(month, date, hour, minute, second) \in Candidates
         /\ Set(month, date, hour, minute, second).month \in {month, month + 1}
         /\ date <= DaysInMonth(month) /\ hour < HoursPerDay /\ minute < MinutesPerHour
              /\ second < SecondsPerMinute
              => /\ Set(month, date, hour, minute, second).month = month
                 /\ Set(month, date, hour, minute, second).date = date
         /\ \A t \in Candidates : Earlier(t, Set(month, date, hour, minute, second))
                                    <=> Before(t, month, date, hour, minute, second)
<1> DEFINE m == minute + second \div SecondsPerMinute
           h == hour + m \div MinutesPerHour
           d == date + h \div HoursPerDay
           inMonth == d <= DaysInMonth(month)
           lmonth == IF inMonth THEN month ELSE month + 1
           ldate == IF inMonth THEN d ELSE d - DaysInMonth(month)
           lhour == h % HoursPerDay
           lminute == m % MinutesPerHour
           lsecond == second % SecondsPerMinute
           local == [month |-> lmonth, date |-> ldate, hour |-> lhour, again |-> FALSE,
                     minute |-> lminute, second |-> lsecond]
           result == Set(month, date, hour, minute, second)
<1>1. result = IF Is(lmonth, ldate, lhour, Skipped) THEN [local EXCEPT !.hour = @ + 1] ELSE local
  BY DEF Set
<1>2. /\ date \in Nat \ {0} /\ hour \in Nat /\ minute \in Nat /\ second \in Nat
      /\ month \in Nat /\ DaysInMonth(month) \in Nat \ {0} /\ DaysInMonth(month + 1) \in Nat \ {0}
  BY Calendar DEF Given
<1>3. /\ second < SecondsPerMinute => m = minute /\ lsecond = second
      /\ second = SecondsPerMinute => m = minute + 1 /\ lsecond = 0
      /\ lsecond \in 0..(SecondsPerMinute - 1) /\ m \in Nat /\ m <= MinutesPerHour
  <2>1. /\ second < SecondsPerMinute => second \div SecondsPerMinute = 0 /\ lsecond = second
        /\ second = SecondsPerMinute => second \div SecondsPerMinute = 1 /\ lsecond = 0
    BY <1>2, Carried, Units DEF Given
  <2> QED BY <1>2, <2>1, Units DEF Given
<1> HIDE DEF m, lsecond
<1>4. /\ m < MinutesPerHour => h = hour /\ lminute = m
      /\ m = MinutesPerHour => h = hour + 1 /\ lminute = 0
      /\ lminute \in 0..(MinutesPerHour - 1) /\ h \in Nat /\ h <= HoursPerDay
  <2>1. /\ m < MinutesPerHour => m \div MinutesPerHour = 0 /\ lminute = m
        /\ m = MinutesPerHour => m \div MinutesPerHour = 1 /\ lminute = 0
    BY <1>3, Carried, Units
  <2> QED BY <1>2, <1>3, <2>1, Units DEF Given
<1> HIDE DEF h, lminute
<1>5. /\ h < HoursPerDay => d = date /\ lhour = h
      /\ h = HoursPerDay => d = date + 1 /\ lhour = 0
      /\ lhour \in 0..(HoursPerDay - 1) /\ d \in Nat \ {0} /\ d <= DaysInMonth(month) + 1
  <2>1. /\ h < HoursPerDay => h \div HoursPerDay = 0 /\ lhour = h
        /\ h = HoursPerDay => h \div HoursPerDay = 1 /\ lhour = 0
    BY <1>4, Carried, Units
  <2> QED BY <1>2, <1>3, <1>4, <2>1, Units DEF Given
<1> HIDE DEF d, lhour
<1>6. /\ lmonth \in Months /\ ldate \in 1..DaysInMonth(lmonth) /\ lmonth \in {month, month + 1}
      /\ d <= DaysInMonth(month) => lmonth = month /\ ldate = d
      /\ d = DaysInMonth(month) + 1 => lmonth = month + 1 /\ ldate = 1
  BY <1>2, <1>5 DEF Given
<1> HIDE DEF lmonth, ldate
<1>7. \A t \in Candidates : Before(t, lmonth, ldate, lhour, lminute, lsecond)
                              <=> Before(t, month, date, hour, minute, second)
  <2>1. SUFFICES ASSUME NEW t \in Candidates
                 PROVE  Before(t, lmonth, ldate, lhour, lminute, lsecond)
                          <=> Before(t, month, date, hour, minute, second)
    OBVIOUS
  <2>2. /\ t.month \in Nat /\ t.date \in Nat \ {0} /\ t.hour \in Nat /\ t.minute \in Nat
        /\ t.second \in Nat /\ (t.month = month => t.date <= DaysInMonth(month))
        /\ t.hour < HoursPerDay /\ t.minute < MinutesPerHour /\ t.second < SecondsPerMinute
    BY CandidateFields
  <2>3. Before(t, month, date, hour, m, lsecond) <=> Before(t, month, date, hour, minute, second)
    <3>1. CASE second < SecondsPerMinute
      BY <1>3, <3>1
    <3>2. CASE second = SecondsPerMinute
      <4>1. m = minute + 1 /\ lsecond = 0 /\ t.second < second /\ ~(t.second < lsecond)
        BY <1>3, <2>2, <3>2
      <4>2. t.minute < m <=> t.minute < minute \/ t.minute = minute
        BY <1>2, <2>2, <4>1
      <4> QED BY <4>1, <4>2 DEF Before
    <3> QED BY <1>2, <3>1, <3>2, Units DEF Given
  <2>4. Before(t, month, date, h, lminute, lsecond) <=> Before(t, month, date, hour, m, lsecond)
    <3>1. CASE m < MinutesPerHour
      BY <1>4, <3>1
    <3>2. CASE m = MinutesPerHour
      <4>1. /\ h = hour + 1 /\ lminute = 0 /\ lsecond = 0 /\ t.minute < m
            /\ ~(t.minute < lminute) /\ ~(t.second < lsecond)
        BY <1>2, <1>3, <1>4, <2>2, <3>2, Units DEF Given
      <4>2. t.hour < h <=> t.hour < hour \/ t.hour = hour
        BY <1>2, <2>2, <4>1
      <4> QED BY <4>1, <4>2 DEF Before
    <3> QED BY <1>3, <3>1, <3>2, Units
  <2>5. Before(t, month, d, lhour, lminute, lsecond) <=> Before(t, month, date, h, lminute, lsecond)
    <3>1. CASE h < HoursPerDay
      BY <1>5, <3>1
    <3>2. CASE h = HoursPerDay
      <4>1. /\ d = date + 1 /\ lhour = 0 /\ lminute = 0 /\ lsecond = 0 /\ t.hour < h
            /\ ~(t.hour < lhour) /\ ~(t.minute < lminute) /\ ~(t.second < lsecond)
        BY <1>2, <1>3, <1>4, <1>5, <2>2, <3>2, Units DEF Given
      <4>2. t.date < d <=> t.date < date \/ t.date = date
        BY <1>2, <2>2, <4>1
      <4> QED BY <4>1, <4>2 DEF Before
    <3> QED BY <1>4, <3>1, <3>2, Units
  <2>6. Before(t, lmonth, ldate, lhour, lminute, lsecond)
          <=> Before(t, month, d, lhour, lminute, lsecond)
    <3>1. CASE d <= DaysInMonth(month)
      BY <1>6, <3>1
    <3>2. CASE d = DaysInMonth(month) + 1
      <4>1. /\ lmonth = month + 1 /\ ldate = 1 /\ lhour = 0 /\ lminute = 0 /\ lsecond = 0
            /\ t.month = month => t.date < d
            /\ ~(t.date < ldate) /\ ~(t.hour < lhour) /\ ~(t.minute < lminute)
            /\ ~(t.second < lsecond)
        BY <1>2, <1>3, <1>4, <1>5, <1>6, <2>2, <3>2, Units DEF Given
      <4>2. t.month < lmonth <=> t.month < month \/ t.month = month
        BY <1>2, <2>2, <4>1
      <4> QED BY <4>1, <4>2 DEF Before
    <3> QED BY <1>2, <1>5, <3>1, <3>2
  <2> QED BY <2>3, <2>4, <2>5, <2>6
<1>8. CASE ~Is(lmonth, ldate, lhour, Skipped)
  <2>1. result = local
    BY <1>1, <1>8
  <2>2. result \in Candidates
    BY <1>3, <1>4, <1>5, <1>6, <1>8, <2>1, IsCandidate
  <2> QED BY <1>2, <1>3, <1>4, <1>5, <1>6, <1>7, <2>1, <2>2 DEF Earlier
<1>9. CASE Is(lmonth, ldate, lhour, Skipped)
  <2>1. lminute = 0 /\ lsecond = 0
    BY <1>2, <1>3, <1>4, <1>5, <1>6, <1>9, Units DEF Given, Is
  <2>2. lhour + 1 \in 0..(HoursPerDay - 1) /\ ~Is(lmonth, ldate, lhour + 1, Skipped)
    BY <1>5, <1>9, CronUnits DEF Is
  <2>3. result = [month |-> lmonth, date |-> ldate, hour |-> lhour + 1, again |-> FALSE,
                  minute |-> lminute, second |-> lsecond]
    BY <1>1, <1>9
  <2>4. result \in Candidates
    BY <1>3, <1>4, <1>6, <2>2, <2>3, IsCandidate
  <2>5. ASSUME NEW t \in Candidates
        PROVE  Before(t, lmonth, ldate, lhour + 1, lminute, lsecond)
                 <=> Before(t, lmonth, ldate, lhour, lminute, lsecond)
    <3>1. /\ t.hour \in Nat /\ t.minute \in Nat /\ t.second \in Nat
          /\ ~(t.month = lmonth /\ t.date = ldate /\ t.hour = lhour)
      BY <1>9, CandidateFields DEF Is
    <3> QED BY <1>5, <2>1, <3>1 DEF Before
  <2> QED BY <1>2, <1>3, <1>4, <1>5, <1>6, <1>7, <2>3, <2>4, <2>5 DEF Earlier
<1> QED BY <1>8, <1>9
-----------------------------------------------------------------------------
\* Years and months.
LEMMA YearIs ==
  ASSUME NEW a \in Nat
  PROVE  /\ YearOf(a) \in Nat /\ YearOf(a) * MonthsPerYear \in Nat
         /\ YearOf(a) * MonthsPerYear <= a
         /\ (YearOf(a) + 1) * MonthsPerYear = YearOf(a) * MonthsPerYear + MonthsPerYear
         /\ a < (YearOf(a) + 1) * MonthsPerYear
         /\ a % MonthsPerYear \in Nat /\ a % MonthsPerYear < MonthsPerYear
         /\ a = YearOf(a) * MonthsPerYear + (a % MonthsPerYear)
<1>1. /\ YearOf(a) \in Nat /\ YearOf(a) * MonthsPerYear \in Nat
      /\ a % MonthsPerYear \in Nat /\ a % MonthsPerYear < MonthsPerYear
      /\ a = YearOf(a) * MonthsPerYear + (a % MonthsPerYear)
  BY Division, Units DEF YearOf
<1>2. (YearOf(a) + 1) * MonthsPerYear = YearOf(a) * MonthsPerYear + MonthsPerYear
  BY <1>1, Units
<1> QED BY <1>1, <1>2, Units

LEMMA YearsInOrder ==
  ASSUME NEW a \in Nat, NEW b \in Nat
  PROVE  /\ a <= b => YearOf(a) <= YearOf(b)
         /\ YearOf(a) < YearOf(b) => (YearOf(a) + 1) * MonthsPerYear <= b
<1>1. /\ YearOf(a) \in Nat /\ YearOf(b) \in Nat /\ YearOf(a) * MonthsPerYear \in Nat
      /\ YearOf(b) * MonthsPerYear \in Nat /\ YearOf(a) * MonthsPerYear <= a
      /\ YearOf(b) * MonthsPerYear <= b
      /\ (YearOf(a) + 1) * MonthsPerYear = YearOf(a) * MonthsPerYear + MonthsPerYear
      /\ b < YearOf(b) * MonthsPerYear + MonthsPerYear
  BY YearIs
<1>2. YearOf(a) < YearOf(b)
        => YearOf(a) * MonthsPerYear + MonthsPerYear <= YearOf(b) * MonthsPerYear
  BY <1>1, Multiples, Units
<1>3. YearOf(b) < YearOf(a)
        => YearOf(b) * MonthsPerYear + MonthsPerYear <= YearOf(a) * MonthsPerYear
  BY <1>1, Multiples, Units
<1> QED BY <1>1, <1>2, <1>3, Units

\* A search may start in the month after StartMonths.
LEMMA StartsHaveRoom ==
  ASSUME NEW month \in Nat, month <= StartMonths
  PROVE  month \in Months /\ month + 1 \in Months
<1>1. PICK q \in Nat : q = StartMonths \div MonthsPerYear
  BY YearIs, Units DEF YearOf
<1>2. PICK a \in Nat : a = q * MonthsPerYear
  BY <1>1, Units
<1>3. PICK b \in Nat : b = MaxYears * MonthsPerYear
  BY Units
<1>4. Len(FirstDay) = a + b + MonthsPerYear + MonthsPerYear + MonthsPerYear + 1
  <2>1. Len(FirstDay) = (q + MaxYears + 3) * MonthsPerYear + 1
    BY <1>1, CronUnits
  <2>2. (q + MaxYears + 3) * MonthsPerYear
          = a + b + MonthsPerYear + MonthsPerYear + MonthsPerYear
    BY <1>2, <1>3, Units
  <2> QED BY <2>1, <2>2
<1>5. StartMonths < a + MonthsPerYear
  <2>1. StartMonths < (YearOf(StartMonths) + 1) * MonthsPerYear /\ YearOf(StartMonths) = q
        /\ (YearOf(StartMonths) + 1) * MonthsPerYear
             = YearOf(StartMonths) * MonthsPerYear + MonthsPerYear
    BY <1>1, YearIs, Units DEF YearOf
  <2> QED BY <1>2, <2>1
<1> QED BY <1>4, <1>5, Units DEF Months

-----------------------------------------------------------------------------
\* The local time it searches from, and what it must not have passed when it is at u.
Since == [from EXCEPT !.again = FALSE]
Passed(u) ==
  /\ Earlier(Since, u)
  /\ \A t \in Candidates : Matches(t) /\ Earlier(Since, t) => ~Earlier(t, u)

LEMMA SinceIs ==
  ASSUME from \in Starts
  PROVE  /\ Since \in Candidates /\ Since.month = from.month /\ Since.date = from.date
         /\ Since.hour = from.hour /\ Since.minute = from.minute /\ Since.second = from.second
         /\ from.month \in Nat /\ from.month < StartMonths
<1>1. from \in Instants(0..(StartMonths - 1))
  BY DEF Starts
<1>2. /\ from.month \in 0..(StartMonths - 1) /\ from.date \in 1..Bounds.daysOfMonth[2]
      /\ from.hour \in 0..(HoursPerDay - 1) /\ from.minute \in 0..(MinutesPerHour - 1)
      /\ from.second \in 0..(SecondsPerMinute - 1) /\ from.date <= DaysInMonth(from.month)
      /\ ~Is(from.month, from.date, from.hour, Skipped)
  BY <1>1 DEF Instants
<1>3. PICK s : s = Since
  OBVIOUS
<1>4. s = [month |-> from.month, date |-> from.date, hour |-> from.hour, again |-> FALSE,
           minute |-> from.minute, second |-> from.second]
  BY <1>1, <1>3 DEF Since, Instants
<1>5. from.month \in Months
  BY <1>2, StartsHaveRoom, Units
<1>6. s \in Candidates
  <2>1. Bounds.daysOfMonth[2] = DaysPerMonth
    BY DEF Bounds
  <2>2. from.date \in 1..DaysInMonth(from.month)
    BY <1>2, <1>5, <2>1, Units, Calendar
  <2> QED BY <1>2, <1>4, <1>5, <2>2, IsCandidate
<1> QED BY <1>2, <1>3, <1>4, <1>6, Units

LEMMA BeforeIsTransitive ==
  ASSUME NEW t \in Candidates, NEW u \in Candidates,
         NEW month \in Nat, NEW date \in Nat, NEW hour \in Nat, NEW minute \in Nat, NEW second \in Nat,
         ~Earlier(u, t), Before(u, month, date, hour, minute, second)
  PROVE  Before(t, month, date, hour, minute, second)
<1>1. /\ t.month \in Nat /\ t.date \in Nat /\ t.hour \in Nat /\ t.minute \in Nat /\ t.second \in Nat
      /\ u.month \in Nat /\ u.date \in Nat /\ u.hour \in Nat /\ u.minute \in Nat /\ u.second \in Nat
  BY CandidateFields
<1> QED BY <1>1 DEF Before, Earlier

LEMMA NotEarlier ==
  ASSUME NEW t \in Candidates, NEW u \in Candidates, ~Earlier(t, u)
  PROVE  /\ t.month \in Nat /\ t.date \in Nat \ {0} /\ t.hour \in Nat /\ t.minute \in Nat
         /\ t.second \in Nat /\ t.month >= u.month
         /\ t.month = u.month => t.date >= u.date
         /\ t.month = u.month /\ t.date = u.date => t.hour >= u.hour
         /\ t.month = u.month /\ t.date = u.date /\ t.hour = u.hour => t.minute >= u.minute
         /\ t.month = u.month /\ t.date = u.date /\ t.hour = u.hour /\ t.minute = u.minute
              => t.second >= u.second
<1>1. /\ t.month \in Nat /\ t.date \in Nat \ {0} /\ t.hour \in Nat /\ t.minute \in Nat
      /\ t.second \in Nat
      /\ u.month \in Nat /\ u.date \in Nat /\ u.hour \in Nat /\ u.minute \in Nat /\ u.second \in Nat
  BY CandidateFields
<1> QED BY <1>1 DEF Before, Earlier

LEMMA EarlierIsOneWay ==
  ASSUME NEW t \in Candidates, NEW u \in Candidates, Earlier(t, u)
  PROVE  ~Earlier(u, t)
<1>1. /\ t.month \in Nat /\ t.date \in Nat /\ t.hour \in Nat /\ t.minute \in Nat /\ t.second \in Nat
      /\ u.month \in Nat /\ u.date \in Nat /\ u.hour \in Nat /\ u.minute \in Nat /\ u.second \in Nat
  BY CandidateFields
<1> QED BY <1>1 DEF Before, Earlier

\* A move goes on, and passes no match, when none lies between.
LEMMA MoveOn ==
  ASSUME from \in Starts, NEW u \in Candidates, Passed(u),
         NEW month, NEW date, NEW hour, NEW minute, NEW second,
         Given(month, date, hour, minute, second), Before(u, month, date, hour, minute, second),
         \A t \in Candidates : Matches(t) /\ ~Earlier(t, u)
                                 => ~Before(t, month, date, hour, minute, second)
  PROVE  /\ Set(month, date, hour, minute, second) \in Candidates
         /\ Passed(Set(month, date, hour, minute, second))
<1>1. /\ Set(month, date, hour, minute, second) \in Candidates
      /\ \A t \in Candidates : Earlier(t, Set(month, date, hour, minute, second))
                                 <=> Before(t, month, date, hour, minute, second)
  BY SetIsFirst
<1>2. /\ month \in Nat /\ date \in Nat /\ hour \in Nat /\ minute \in Nat /\ second \in Nat
  BY Calendar DEF Given
<1>3. Since \in Candidates /\ ~Earlier(u, Since)
  BY SinceIs, EarlierIsOneWay DEF Passed
<1>4. Before(Since, month, date, hour, minute, second)
  BY <1>2, <1>3, BeforeIsTransitive
<1> QED BY <1>1, <1>3, <1>4 DEF Passed

-----------------------------------------------------------------------------
\* Where it begins.
LEMMA FirstIsCandidate ==
  ASSUME from \in Starts
  PROVE  /\ Given(from.month, from.date, from.hour, from.minute, from.second + 1)
         /\ Set(from.month, from.date, from.hour, from.minute, from.second + 1) \in Candidates
<1>1. /\ from.month \in Months /\ from.month + 1 \in Months /\ from.month \in Nat
      /\ from.month < StartMonths
  BY SinceIs, StartsHaveRoom, Units
<1>2. /\ from.date \in Nat \ {0} /\ from.hour \in Nat /\ from.minute \in Nat /\ from.second \in Nat
      /\ from.date <= DaysInMonth(from.month) /\ from.hour < HoursPerDay
      /\ from.minute < MinutesPerHour /\ from.second < SecondsPerMinute
      /\ ~Is(from.month, from.date, from.hour, Skipped)
  BY SinceIs, CandidateFields
<1>3. Given(from.month, from.date, from.hour, from.minute, from.second + 1)
  BY <1>1, <1>2, Calendar, Units DEF Given
<1> QED BY <1>3, SetIsFirst

LEMMA EndYearIs == ASSUME from \in Starts PROVE EndYear \in Nat
<1> DEFINE first == Set(from.month, from.date, from.hour, from.minute, from.second + 1)
<1>1. first.month \in Nat
  BY FirstIsCandidate, CandidateFields
<1>2. YearOf(first.month) \in Nat
  BY <1>1, YearIs
<1>3. EndYear = YearOf(first.month) + MaxYears
  BY DEF EndYear
<1> QED BY <1>2, <1>3, Units

\* The year it ends in leaves room in the calendar.
LEMMA Room ==
  ASSUME from \in Starts, NEW u \in Candidates, YearOf(u.month) <= EndYear
  PROVE  /\ \A month \in 0..((YearOf(u.month) + 1) * MonthsPerYear) :
              month \in Months /\ month + 1 \in Months
         /\ u.month + 1 \in 0..((YearOf(u.month) + 1) * MonthsPerYear)
<1> DEFINE first == Set(from.month, from.date, from.hour, from.minute, from.second + 1)
           q == StartMonths \div MonthsPerYear
<1>1. first.month \in Nat /\ first.month <= StartMonths /\ StartMonths \in Nat
  <2>1. from.month \in Nat /\ from.month < StartMonths
    BY SinceIs
  <2>3. first.month \in {from.month, from.month + 1}
    BY FirstIsCandidate, SetIsFirst
  <2> QED BY <2>1, <2>3, Units
<1>2. EndYear <= q + MaxYears /\ EndYear \in Nat /\ q \in Nat
  <2>1. YearOf(first.month) <= q /\ YearOf(first.month) \in Nat /\ q \in Nat
    BY <1>1, YearsInOrder, YearIs DEF YearOf
  <2>2. EndYear = YearOf(first.month) + MaxYears
    BY DEF EndYear
  <2> QED BY <2>1, <2>2, Units
<1>3. YearOf(u.month) \in Nat /\ YearOf(u.month) <= q + MaxYears /\ u.month \in Nat
  <2>1. u.month \in Nat
    BY CandidateFields
  <2>2. YearOf(u.month) \in Nat
    BY <2>1, YearIs
  <2>3. MaxYears \in Nat
    BY Units
  <2> QED BY <1>2, <2>1, <2>2, <2>3
<1>4. (YearOf(u.month) + 1) * MonthsPerYear \in Nat
      /\ (YearOf(u.month) + 1) * MonthsPerYear + MonthsPerYear <= (q + MaxYears + 2) * MonthsPerYear
  <2>1. YearOf(u.month) + 1 \in Nat /\ q + MaxYears + 2 \in Nat
        /\ YearOf(u.month) + 1 < q + MaxYears + 2
    BY <1>2, <1>3, Units
  <2> QED BY <2>1, Multiples, Units
<1>5. Len(FirstDay) = (q + MaxYears + 3) * MonthsPerYear + 1
  BY CronUnits
<1>6. (q + MaxYears + 3) * MonthsPerYear = (q + MaxYears + 2) * MonthsPerYear + MonthsPerYear
      /\ (q + MaxYears + 2) * MonthsPerYear \in Nat
  BY <1>2, Units
<1>7. u.month < (YearOf(u.month) + 1) * MonthsPerYear
  BY <1>3, YearIs
<1> HIDE DEF first, q
<1>8. PICK a \in Nat : a = (YearOf(u.month) + 1) * MonthsPerYear
  BY <1>4
<1>9. PICK b \in Nat : b = (q + MaxYears + 2) * MonthsPerYear
  BY <1>6
<1>10. /\ a + MonthsPerYear <= b /\ Len(FirstDay) = b + MonthsPerYear + 1 /\ u.month < a
       /\ u.month \in Nat /\ MonthsPerYear \in Nat \ {0}
  BY <1>3, <1>4, <1>5, <1>6, <1>7, <1>8, <1>9, Units
<1>11. \A month \in 0..a : month \in Months /\ month + 1 \in Months
  BY <1>10 DEF Months
<1> QED BY <1>8, <1>10, <1>11
-----------------------------------------------------------------------------
\* The fields of a schedule within its bounds have least values.
LEMMA FieldsAre ==
  ASSUME InBounds
  PROVE  /\ schedule.months \subseteq 1..MonthsPerYear /\ schedule.hours \subseteq 0..(HoursPerDay - 1)
         /\ schedule.minutes \subseteq 0..(MinutesPerHour - 1)
         /\ schedule.seconds \subseteq 0..(SecondsPerMinute - 1)
<1>1. {"months", "hours", "minutes", "seconds"} \subseteq DOMAIN Bounds
  BY DEF Bounds
<1>2. /\ Bounds["months"] = <<1, MonthsPerYear>> /\ Bounds["hours"] = <<0, HoursPerDay - 1>>
      /\ Bounds["minutes"] = <<0, MinutesPerHour - 1>>
      /\ Bounds["seconds"] = <<0, SecondsPerMinute - 1>>
  BY DEF Bounds
<1> QED BY <1>1, <1>2 DEF InBounds

LEMMA NextInSorted ==
  ASSUME NEW values \in SUBSET Nat, NEW target \in Nat
  PROVE  /\ From(values, target) # {} =>
              /\ Least(From(values, target)) \in values /\ Least(From(values, target)) >= target
              /\ Least(From(values, target)) \in Nat
              /\ \A v \in values : v >= target => Least(From(values, target)) <= v
         /\ From(values, target) = {} => \A v \in values : v < target
<1>1. From(values, target) \in SUBSET Nat
  BY DEF From
<1>2. CASE From(values, target) # {}
  BY <1>1, <1>2, LeastIsThere DEF From
<1>3. CASE From(values, target) = {}
  BY <1>3 DEF From
<1> QED BY <1>2, <1>3

\* The state of a search that goes on.
Here ==
  /\ InBounds /\ from \in Starts /\ current \in Candidates /\ Passed(current) /\ Searching
Progress == Here /\ current' \in Candidates /\ Passed(current')

LEMMA MonthFields ==
  ASSUME Here
  PROVE  /\ current.month \in Nat /\ MonthOfYear(current) \in 1..MonthsPerYear
         /\ current.month = January(YearOf(current.month)) + MonthOfYear(current) - 1
         /\ January(YearOf(current.month)) \in Nat
         /\ January(YearOf(current.month) + 1) = January(YearOf(current.month)) + MonthsPerYear
         /\ current.month < January(YearOf(current.month) + 1)
         /\ \A month \in 0..January(YearOf(current.month) + 1) :
              month \in Months /\ month + 1 \in Months
         /\ \A t \in Candidates : MonthOfYear(t) \in Nat
         /\ \A t \in Candidates : t.month >= current.month /\ t.month < January(YearOf(current.month) + 1)
              => t.month = January(YearOf(current.month)) + MonthOfYear(t) - 1
<1>1. current.month \in Nat /\ \A t \in Candidates : t.month \in Nat
  BY CandidateFields DEF Here
<1>2. /\ YearOf(current.month) \in Nat /\ YearOf(current.month) * MonthsPerYear \in Nat
      /\ (YearOf(current.month) + 1) * MonthsPerYear
           = YearOf(current.month) * MonthsPerYear + MonthsPerYear
      /\ current.month < (YearOf(current.month) + 1) * MonthsPerYear
      /\ current.month % MonthsPerYear \in Nat /\ current.month % MonthsPerYear < MonthsPerYear
      /\ current.month = YearOf(current.month) * MonthsPerYear + (current.month % MonthsPerYear)
  BY <1>1, YearIs
<1>3. \A month \in 0..((YearOf(current.month) + 1) * MonthsPerYear) :
        month \in Months /\ month + 1 \in Months
  BY Room DEF Here, Searching
<1>4. ASSUME NEW t \in Candidates
      PROVE  /\ MonthOfYear(t) \in Nat
             /\ t.month >= current.month /\ t.month < January(YearOf(current.month) + 1)
                  => t.month = January(YearOf(current.month)) + MonthOfYear(t) - 1
  <2>1. /\ t.month % MonthsPerYear \in Nat /\ YearOf(t.month) \in Nat
        /\ t.month = YearOf(t.month) * MonthsPerYear + (t.month % MonthsPerYear)
        /\ YearOf(t.month) * MonthsPerYear \in Nat
    BY <1>1, YearIs
  <2>2. CASE t.month >= current.month /\ t.month < January(YearOf(current.month) + 1)
    <3>1. YearOf(current.month) <= YearOf(t.month) /\ ~(YearOf(current.month) < YearOf(t.month))
      <4>1. /\ current.month <= t.month => YearOf(current.month) <= YearOf(t.month)
            /\ YearOf(current.month) < YearOf(t.month)
                 => (YearOf(current.month) + 1) * MonthsPerYear <= t.month
        BY <1>1, YearsInOrder
      <4>2. PICK b \in Nat : b = (YearOf(current.month) + 1) * MonthsPerYear
        BY <1>2, Units
      <4> QED BY <1>1, <2>2, <4>1, <4>2 DEF January
    <3>2. YearOf(t.month) = YearOf(current.month)
      BY <1>2, <2>1, <3>1
    <3>3. PICK a \in Nat : a = YearOf(current.month) * MonthsPerYear
      BY <1>2
    <3> QED BY <2>1, <3>2, <3>3 DEF January, MonthOfYear
  <2> QED BY <2>1, <2>2 DEF MonthOfYear
<1>5. PICK a \in Nat : a = YearOf(current.month) * MonthsPerYear
  BY <1>2
<1>6. /\ MonthOfYear(current) \in 1..MonthsPerYear
      /\ current.month = January(YearOf(current.month)) + MonthOfYear(current) - 1
      /\ January(YearOf(current.month)) \in Nat
      /\ January(YearOf(current.month) + 1) = January(YearOf(current.month)) + MonthsPerYear
      /\ current.month < January(YearOf(current.month) + 1)
  BY <1>1, <1>2, <1>5, Units DEF January, MonthOfYear
<1> QED BY <1>1, <1>3, <1>4, <1>6 DEF January

LEMMA GivenMidnight ==
  ASSUME NEW month \in Months, month + 1 \in Months, NEW date \in Nat \ {0},
         date <= DaysInMonth(month) + 1
  PROVE  Given(month, date, 0, 0, 0)
BY Units DEF Given

\* A new month is looked at from its first midnight.
LEMMA NoMonthMoves == ASSUME Here, NoMonth PROVE Progress
<1> DEFINE month == January(YearOf(current.month) + 1)
<1>1. /\ month \in Months /\ month + 1 \in Months /\ month \in Nat /\ current.month < month
      /\ DaysInMonth(month) \in Nat
  BY MonthFields, Calendar, Units
<1>2. Given(month, 1, 0, 0, 0)
  BY <1>1, GivenMidnight
<1>3. Before(current, month, 1, 0, 0, 0)
  BY <1>1 DEF Before
<1>4. ASSUME NEW t \in Candidates, Matches(t), ~Earlier(t, current)
      PROVE  ~Before(t, month, 1, 0, 0, 0)
  <2>1. /\ t.month \in Nat /\ t.date \in Nat \ {0} /\ t.hour \in Nat /\ t.minute \in Nat
        /\ t.second \in Nat /\ t.month >= current.month
    BY <1>4, NotEarlier DEF Here
  <2>2. MonthOfYear(t) < MonthOfYear(current)
    BY <1>4, FieldsAre, MonthFields, NextInSorted, Units DEF NoMonth, MonthsLeft, Matches, Here, From
  <2>3. t.month >= month
    BY <2>1, <2>2, MonthFields, Units
  <2> QED BY <1>1, <2>1, <2>3 DEF Before
<1>5. current' = Set(month, 1, 0, 0, 0)
  BY DEF NoMonth, GoesTo, Midnight
<1> QED BY <1>2, <1>3, <1>4, <1>5, MoveOn DEF Here, Progress

LEMMA LaterMonthMoves == ASSUME Here, LaterMonth PROVE Progress
<1> DEFINE least == Least(MonthsLeft)
           month == January(YearOf(current.month)) + least - 1
<1>1. schedule.months \in SUBSET Nat /\ MonthOfYear(current) \in Nat
  BY FieldsAre, MonthFields, Units DEF Here
<1>2. /\ least \in schedule.months /\ least > MonthOfYear(current)
      /\ \A v \in schedule.months : v >= MonthOfYear(current) => least <= v
  BY <1>1, NextInSorted DEF LaterMonth, MonthsLeft
<1>3. least \in Nat /\ least <= MonthsPerYear
  BY <1>2, FieldsAre, Units DEF Here
<1> HIDE DEF least
<1>4. /\ month \in Months /\ month + 1 \in Months /\ month \in Nat /\ current.month < month
      /\ DaysInMonth(month) \in Nat /\ month < January(YearOf(current.month) + 1)
  <2>1. /\ month \in 0..January(YearOf(current.month) + 1) /\ month \in Nat /\ current.month < month
        /\ month < January(YearOf(current.month) + 1)
    BY <1>2, <1>3, MonthFields, Units
  <2>2. month \in Months /\ month + 1 \in Months
    BY <2>1, MonthFields
  <2> QED BY <2>1, <2>2, Calendar
<1>5. Given(month, 1, 0, 0, 0)
  BY <1>4, GivenMidnight
<1>6. Before(current, month, 1, 0, 0, 0)
  BY <1>4 DEF Before
<1>7. ASSUME NEW t \in Candidates, Matches(t), ~Earlier(t, current)
      PROVE  ~Before(t, month, 1, 0, 0, 0)
  <2>1. /\ t.month \in Nat /\ t.date \in Nat \ {0} /\ t.hour \in Nat /\ t.minute \in Nat
        /\ t.second \in Nat /\ t.month >= current.month
    BY <1>7, NotEarlier DEF Here
  <2>2. MonthOfYear(t) >= MonthOfYear(current) => least <= MonthOfYear(t)
    BY <1>2, <1>7 DEF Matches
  <2>3. t.month >= month
    BY <1>3, <1>4, <2>1, <2>2, MonthFields, Units
  <2> QED BY <1>4, <2>1, <2>3 DEF Before
<1>8. current' = Set(month, 1, 0, 0, 0)
  BY DEF LaterMonth, GoesTo, Midnight, least
<1> QED BY <1>5, <1>6, <1>7, <1>8, MoveOn DEF Here, Progress

LEMMA NoDayMoves == ASSUME Here, NoDay PROVE Progress
<1> DEFINE month == current.month + 1
<1>1. /\ month \in Months /\ month + 1 \in Months /\ month \in Nat /\ current.month \in Nat
      /\ DaysInMonth(month) \in Nat
  BY MonthFields, Calendar, Units
<1>2. Given(month, 1, 0, 0, 0)
  BY <1>1, GivenMidnight
<1>3. Before(current, month, 1, 0, 0, 0)
  BY <1>1 DEF Before
<1>4. ASSUME NEW t \in Candidates, Matches(t), ~Earlier(t, current)
      PROVE  ~Before(t, month, 1, 0, 0, 0)
  <2>1. /\ t.month \in Nat /\ t.date \in Nat \ {0} /\ t.hour \in Nat /\ t.minute \in Nat
        /\ t.second \in Nat /\ t.month >= current.month /\ current.date \in Nat
        /\ (t.month = current.month => t.date >= current.date)
        /\ t.date <= DaysInMonth(t.month) /\ DaysInMonth(t.month) \in Nat
    BY <1>1, <1>4, NotEarlier, CandidateFields, Calendar DEF Here
  <2>2. t.month # current.month
    BY <1>4, <2>1 DEF NoDay, Days, Matches
  <2> QED BY <1>1, <2>1, <2>2 DEF Before
<1>5. current' = Set(month, 1, 0, 0, 0)
  BY DEF NoDay, GoesTo, Midnight
<1> QED BY <1>2, <1>3, <1>4, <1>5, MoveOn DEF Here, Progress
\* The day that is found is the first that is left, from midnight on or from now on.
LEMMA DayIsFound ==
  ASSUME Here, OnDay
  PROVE  /\ There \in Candidates /\ Passed(There) /\ MonthOfYear(There) \in schedule.months
         /\ There.date \in schedule.daysOfMonth
         /\ Weekday(There.month, There.date) \in schedule.daysOfWeek
         /\ There.month \in Months /\ There.month + 1 \in Months
<1> DEFINE date == Least(Days)
<1>1. /\ current.month \in Months /\ current.month + 1 \in Months /\ current.month \in Nat
      /\ DaysInMonth(current.month) \in Nat /\ current.date \in Nat \ {0}
  <2>1. current.month \in Nat /\ current.month \in 0..January(YearOf(current.month) + 1)
    BY MonthFields, Units
  <2>2. current.month \in Months /\ current.month + 1 \in Months
    BY <2>1, MonthFields
  <2> QED BY <2>1, <2>2, CandidateFields, Calendar DEF Here
<1>2. Days \in SUBSET Nat
  BY <1>1 DEF Days
<1>3. date \in Days /\ \A d \in Days : date <= d
  BY <1>2, LeastIsThere DEF OnDay
<1>4. /\ date \in Nat \ {0} /\ date >= current.date /\ date <= DaysInMonth(current.month)
      /\ date \in schedule.daysOfMonth /\ Weekday(current.month, date) \in schedule.daysOfWeek
  BY <1>1, <1>3 DEF Days
<1>5. MonthOfYear(current) \in schedule.months
  <2>1. schedule.months \in SUBSET Nat /\ MonthOfYear(current) \in Nat
    BY FieldsAre, MonthFields, Units DEF Here
  <2> QED BY <2>1, NextInSorted DEF OnDay, InMonth, MonthsLeft
<1> HIDE DEF date
<1>6. CASE date > current.date
  <2>1. There = Set(current.month, date, 0, 0, 0)
    BY <1>6 DEF There, Midnight, date
  <2>2. Given(current.month, date, 0, 0, 0)
    BY <1>1, <1>4, GivenMidnight
  <2>3. Before(current, current.month, date, 0, 0, 0)
    BY <1>6 DEF Before
  <2>4. ASSUME NEW t \in Candidates, Matches(t), ~Earlier(t, current)
        PROVE  ~Before(t, current.month, date, 0, 0, 0)
    <3>1. /\ t.month \in Nat /\ t.date \in Nat \ {0} /\ t.hour \in Nat /\ t.minute \in Nat
          /\ t.second \in Nat /\ t.month >= current.month
          /\ (t.month = current.month => t.date >= current.date)
          /\ t.date <= DaysInMonth(t.month)
      BY <2>4, NotEarlier, CandidateFields DEF Here
    <3>2. t.month = current.month => t.date \in Days
      BY <1>1, <2>4, <3>1 DEF Days, Matches
    <3> QED BY <1>1, <1>3, <1>4, <3>1, <3>2 DEF Before
  <2>5. There \in Candidates /\ Passed(There)
    BY <2>1, <2>2, <2>3, <2>4, MoveOn DEF Here
  <2>6. There.month = current.month /\ There.date = date
    BY <1>4, <2>1, <2>2, SetIsFirst, Units
  <2> QED BY <1>1, <1>4, <1>5, <2>5, <2>6 DEF MonthOfYear
<1>7. CASE ~(date > current.date)
  <2>1. There = current /\ date = current.date
    BY <1>1, <1>4, <1>7 DEF There, date
  <2> QED BY <1>1, <1>4, <1>5, <2>1 DEF Here
<1> QED BY <1>6, <1>7

\* What is known of it, as numbers.
LEMMA ThereIs ==
  ASSUME Here, OnDay
  PROVE  /\ There.month \in Nat /\ There.date \in Nat \ {0} /\ There.hour \in Nat
         /\ There.minute \in Nat /\ There.second \in Nat /\ There.date <= DaysInMonth(There.month)
         /\ DaysInMonth(There.month) \in Nat
         /\ There.hour < HoursPerDay /\ There.minute < MinutesPerHour
         /\ There.second < SecondsPerMinute /\ ~Is(There.month, There.date, There.hour, Skipped)
         /\ schedule.hours \in SUBSET Nat /\ schedule.minutes \in SUBSET Nat
         /\ schedule.seconds \in SUBSET Nat
<1>1. There \in Candidates
  BY DayIsFound
<1>2. There.month \in Months /\ DaysInMonth(There.month) \in Nat
  BY <1>1, CandidateFields, Calendar
<1>3. /\ schedule.hours \in SUBSET Nat /\ schedule.minutes \in SUBSET Nat
      /\ schedule.seconds \in SUBSET Nat
  BY FieldsAre, Units DEF Here
<1> QED BY <1>1, <1>2, <1>3, CandidateFields
\* The time of day: nothing that matches lies between There and where it goes on.
LEMMA NoHourMoves == ASSUME Here, NoHour PROVE Progress
<1>1. OnDay
  BY DEF NoHour
<1>2. Given(There.month, There.date + 1, 0, 0, 0)
  BY <1>1, ThereIs, DayIsFound, GivenMidnight
<1>3. Before(There, There.month, There.date + 1, 0, 0, 0)
  BY <1>1, ThereIs DEF Before
<1>4. ASSUME NEW t \in Candidates, Matches(t), ~Earlier(t, There)
      PROVE  ~Before(t, There.month, There.date + 1, 0, 0, 0)
  <2>1. There.hour \in Nat /\ schedule.hours \in SUBSET Nat /\ HoursLeft = {} /\ There \in Candidates
    BY <1>1, ThereIs, DayIsFound DEF NoHour
  <2>2. t.hour < There.hour
    BY <1>4, <2>1, NextInSorted DEF HoursLeft, Matches
  <2> QED BY <1>1, <1>4, <2>1, <2>2, NotEarlier, ThereIs DEF Before
<1>5. current' = Set(There.month, There.date + 1, 0, 0, 0)
  BY DEF NoHour, GoesTo, Midnight
<1> QED BY <1>1, <1>2, <1>3, <1>4, <1>5, DayIsFound, MoveOn DEF Here, Progress

LEMMA LaterHourMoves == ASSUME Here, LaterHour PROVE Progress
<1> DEFINE least == Least(HoursLeft)
<1>1. OnDay /\ HoursLeft # {} /\ least > There.hour
  BY DEF LaterHour
<1>2. /\ There.hour \in Nat /\ schedule.hours \in SUBSET Nat
      /\ schedule.hours \subseteq 0..(HoursPerDay - 1)
  BY <1>1, ThereIs, FieldsAre DEF Here
<1>3. /\ least \in Nat /\ least < HoursPerDay
      /\ \A v \in schedule.hours : v >= There.hour => least <= v
  <2>1. /\ least \in schedule.hours /\ least \in Nat
        /\ \A v \in schedule.hours : v >= There.hour => least <= v
    BY <1>1, <1>2, NextInSorted DEF HoursLeft
  <2> QED BY <1>2, <2>1, Units
<1>4. current' = Set(There.month, There.date, least, 0, 0)
  BY DEF LaterHour, GoesTo
<1> HIDE DEF least
<1>5. Given(There.month, There.date, least, 0, 0)
  BY <1>1, <1>3, ThereIs, DayIsFound, Units DEF Given
<1>6. Before(There, There.month, There.date, least, 0, 0)
  BY <1>1 DEF Before
<1>7. ASSUME NEW t \in Candidates, Matches(t), ~Earlier(t, There)
      PROVE  ~Before(t, There.month, There.date, least, 0, 0)
  <2>1. t.hour >= There.hour => least <= t.hour
    BY <1>3, <1>7 DEF Matches
  <2>2. There \in Candidates
    BY <1>1, DayIsFound
  <2> QED BY <1>1, <1>3, <1>7, <2>1, <2>2, NotEarlier, ThereIs DEF Before
<1> QED BY <1>1, <1>4, <1>5, <1>6, <1>7, DayIsFound, MoveOn DEF Here, Progress

LEMMA NoMinuteMoves == ASSUME Here, NoMinute PROVE Progress
<1>1. OnDay /\ InHour
  BY DEF NoMinute, InHour
<1>2. Given(There.month, There.date, There.hour + 1, 0, 0)
  BY <1>1, ThereIs, DayIsFound, Units DEF Given
<1>3. Before(There, There.month, There.date, There.hour + 1, 0, 0)
  BY <1>1, ThereIs DEF Before
<1>4. ASSUME NEW t \in Candidates, Matches(t), ~Earlier(t, There)
      PROVE  ~Before(t, There.month, There.date, There.hour + 1, 0, 0)
  <2>1. /\ There.minute \in Nat /\ schedule.minutes \in SUBSET Nat /\ MinutesLeft = {}
        /\ There \in Candidates
    BY <1>1, ThereIs, DayIsFound DEF NoMinute
  <2>2. t.minute < There.minute
    BY <1>4, <2>1, NextInSorted DEF MinutesLeft, Matches
  <2> QED BY <1>1, <1>4, <2>1, <2>2, NotEarlier, ThereIs DEF Before
<1>5. current' = Set(There.month, There.date, There.hour + 1, 0, 0)
  BY DEF NoMinute, GoesTo
<1> QED BY <1>1, <1>2, <1>3, <1>4, <1>5, DayIsFound, MoveOn DEF Here, Progress

LEMMA LaterMinuteMoves == ASSUME Here, LaterMinute PROVE Progress
<1> DEFINE least == Least(MinutesLeft)
<1>1. OnDay /\ InHour /\ MinutesLeft # {} /\ least > There.minute
  BY DEF LaterMinute, InHour
<1>2. /\ There.minute \in Nat /\ schedule.minutes \in SUBSET Nat
      /\ schedule.minutes \subseteq 0..(MinutesPerHour - 1)
  BY <1>1, ThereIs, FieldsAre DEF Here
<1>3. /\ least \in Nat /\ least < MinutesPerHour
      /\ \A v \in schedule.minutes : v >= There.minute => least <= v
  <2>1. /\ least \in schedule.minutes /\ least \in Nat
        /\ \A v \in schedule.minutes : v >= There.minute => least <= v
    BY <1>1, <1>2, NextInSorted DEF MinutesLeft
  <2> QED BY <1>2, <2>1, Units
<1>4. current' = Set(There.month, There.date, There.hour, least, 0)
  BY DEF LaterMinute, GoesTo
<1> HIDE DEF least
<1>5. Given(There.month, There.date, There.hour, least, 0)
  BY <1>1, <1>3, ThereIs, DayIsFound, Units DEF Given
<1>6. Before(There, There.month, There.date, There.hour, least, 0)
  BY <1>1 DEF Before
<1>7. ASSUME NEW t \in Candidates, Matches(t), ~Earlier(t, There)
      PROVE  ~Before(t, There.month, There.date, There.hour, least, 0)
  <2>1. t.minute >= There.minute => least <= t.minute
    BY <1>3, <1>7 DEF Matches
  <2>2. There \in Candidates
    BY <1>1, DayIsFound
  <2> QED BY <1>1, <1>3, <1>7, <2>1, <2>2, NotEarlier, ThereIs DEF Before
<1> QED BY <1>1, <1>4, <1>5, <1>6, <1>7, DayIsFound, MoveOn DEF Here, Progress

LEMMA NoSecondMoves == ASSUME Here, NoSecond PROVE Progress
<1>1. OnDay /\ InMinute
  BY DEF NoSecond, InMinute, InHour
<1>2. Given(There.month, There.date, There.hour, There.minute + 1, 0)
  BY <1>1, ThereIs, DayIsFound, Units DEF Given
<1>3. Before(There, There.month, There.date, There.hour, There.minute + 1, 0)
  BY <1>1, ThereIs DEF Before
<1>4. ASSUME NEW t \in Candidates, Matches(t), ~Earlier(t, There)
      PROVE  ~Before(t, There.month, There.date, There.hour, There.minute + 1, 0)
  <2>1. /\ There.second \in Nat /\ schedule.seconds \in SUBSET Nat /\ SecondsLeft = {}
        /\ There \in Candidates
    BY <1>1, ThereIs, DayIsFound DEF NoSecond
  <2>2. t.second < There.second
    BY <1>4, <2>1, NextInSorted DEF SecondsLeft, Matches
  <2> QED BY <1>1, <1>4, <2>1, <2>2, NotEarlier, ThereIs DEF Before
<1>5. current' = Set(There.month, There.date, There.hour, There.minute + 1, 0)
  BY DEF NoSecond, GoesTo
<1> QED BY <1>1, <1>2, <1>3, <1>4, <1>5, DayIsFound, MoveOn DEF Here, Progress

LEMMA LaterSecondMoves == ASSUME Here, LaterSecond PROVE Progress
<1> DEFINE least == Least(SecondsLeft)
<1>1. OnDay /\ InMinute /\ SecondsLeft # {} /\ least > There.second
  BY DEF LaterSecond, InMinute, InHour
<1>2. /\ There.second \in Nat /\ schedule.seconds \in SUBSET Nat
      /\ schedule.seconds \subseteq 0..(SecondsPerMinute - 1)
  BY <1>1, ThereIs, FieldsAre DEF Here
<1>3. /\ least \in Nat /\ least < SecondsPerMinute
      /\ \A v \in schedule.seconds : v >= There.second => least <= v
  <2>1. /\ least \in schedule.seconds /\ least \in Nat
        /\ \A v \in schedule.seconds : v >= There.second => least <= v
    BY <1>1, <1>2, NextInSorted DEF SecondsLeft
  <2> QED BY <1>2, <2>1, Units
<1>4. current' = Set(There.month, There.date, There.hour, There.minute, least)
  BY DEF LaterSecond, GoesTo
<1> HIDE DEF least
<1>5. Given(There.month, There.date, There.hour, There.minute, least)
  BY <1>1, <1>3, ThereIs, DayIsFound, Units DEF Given
<1>6. Before(There, There.month, There.date, There.hour, There.minute, least)
  BY <1>1 DEF Before
<1>7. ASSUME NEW t \in Candidates, Matches(t), ~Earlier(t, There)
      PROVE  ~Before(t, There.month, There.date, There.hour, There.minute, least)
  <2>1. t.second >= There.second => least <= t.second
    BY <1>3, <1>7 DEF Matches
  <2>2. There \in Candidates
    BY <1>1, DayIsFound
  <2> QED BY <1>1, <1>3, <1>7, <2>1, <2>2, NotEarlier, ThereIs DEF Before
<1> QED BY <1>1, <1>4, <1>5, <1>6, <1>7, DayIsFound, MoveOn DEF Here, Progress

-----------------------------------------------------------------------------
\* Nothing that matches has been passed.
SearchInv ==
  InBounds =>
    /\ from \in Starts /\ phase \in {"parse", "search", "found", "none"}
    /\ phase # "parse" => current \in Candidates /\ Passed(current)
    /\ phase = "found" => Matches(current)
    /\ phase = "none" => YearOf(current.month) > EndYear

LEMMA BeginMoves ==
  ASSUME from \in Starts, Begin
  PROVE  current' \in Candidates /\ Passed(current')
<1>1. current' = Set(from.month, from.date, from.hour, from.minute, from.second + 1)
  BY DEF Begin
<1>2. /\ Since \in Candidates /\ Since.month = from.month /\ Since.date = from.date
      /\ Since.hour = from.hour /\ Since.minute = from.minute /\ Since.second = from.second
      /\ from.month \in Months /\ from.month + 1 \in Months
  BY SinceIs, StartsHaveRoom, Units
<1>3. /\ from.date \in Nat \ {0} /\ from.hour \in Nat /\ from.minute \in Nat /\ from.second \in Nat
  BY <1>2, CandidateFields
<1>4. Given(from.month, from.date, from.hour, from.minute, from.second + 1)
  BY FirstIsCandidate
<1>5. Before(Since, from.month, from.date, from.hour, from.minute, from.second + 1)
  BY <1>2, <1>3 DEF Before
<1>6. ASSUME NEW t \in Candidates, Earlier(Since, t)
      PROVE  ~Before(t, from.month, from.date, from.hour, from.minute, from.second + 1)
  <2>1. /\ t.month \in Nat /\ t.date \in Nat /\ t.hour \in Nat /\ t.minute \in Nat /\ t.second \in Nat
        /\ from.month \in Nat
    BY <1>2, CandidateFields
  <2> QED BY <1>2, <1>3, <1>6, <2>1 DEF Earlier, Before
<1> QED BY <1>1, <1>2, <1>4, <1>5, <1>6, SetIsFirst DEF Passed

LEMMA FindsIt == ASSUME Here, Finds PROVE Progress /\ Matches(current')
<1>1. OnDay /\ current' = There
  BY DEF Finds, InMinute, InHour
<1>2. /\ HoursLeft # {} /\ Least(HoursLeft) = There.hour /\ MinutesLeft # {}
      /\ Least(MinutesLeft) = There.minute /\ SecondsLeft # {} /\ Least(SecondsLeft) = There.second
  BY DEF Finds, InMinute, InHour
<1>3. /\ There.hour \in schedule.hours /\ There.minute \in schedule.minutes
      /\ There.second \in schedule.seconds
  <2>1. /\ There.hour \in Nat /\ There.minute \in Nat /\ There.second \in Nat
        /\ schedule.hours \in SUBSET Nat /\ schedule.minutes \in SUBSET Nat
        /\ schedule.seconds \in SUBSET Nat
    BY <1>1, ThereIs
  <2>2. There.hour \in schedule.hours
    BY <1>2, <2>1, NextInSorted DEF HoursLeft
  <2>3. There.minute \in schedule.minutes
    BY <1>2, <2>1, NextInSorted DEF MinutesLeft
  <2>4. There.second \in schedule.seconds
    BY <1>2, <2>1, NextInSorted DEF SecondsLeft
  <2> QED BY <2>2, <2>3, <2>4
<1> QED BY <1>1, <1>3, DayIsFound DEF Progress, Matches

LEMMA SearchStarts == CronInit => SearchInv
BY DEF CronInit, SearchInv

LEMMA SearchGoesOn == SearchInv /\ [CronNext]_cronVars => SearchInv'
<1> SUFFICES ASSUME SearchInv, [CronNext]_cronVars PROVE SearchInv'
  OBVIOUS
<1>1. UNCHANGED <<schedule, from>>
  BY DEF CronNext, Loop, cronVars, Begin, NoMonth, LaterMonth, NoDay, NoHour, LaterHour, NoMinute,
         LaterMinute, NoSecond, LaterSecond, GoesTo, Finds, GivesUp
<1>2. /\ InBounds' <=> InBounds
      /\ EndYear' = EndYear
      /\ Passed(current)' <=> Passed(current')
      /\ Matches(current)' <=> Matches(current')
  BY <1>1 DEF InBounds, EndYear, Passed, Since, Matches
<1> SUFFICES ASSUME InBounds
             PROVE  /\ from' \in Starts /\ phase' \in {"parse", "search", "found", "none"}
                    /\ phase' # "parse" => current' \in Candidates /\ Passed(current')
                    /\ phase' = "found" => Matches(current')
                    /\ phase' = "none" => YearOf((current').month) > EndYear
  BY <1>2 DEF SearchInv
<1>3. from' \in Starts /\ from \in Starts
  BY <1>1 DEF SearchInv
<1>4. CASE Begin
  BY <1>3, <1>4, BeginMoves DEF Begin
<1>5. CASE Loop
  <2>1. phase = "search" /\ phase' = "search" /\ Searching
    BY <1>5 DEF Loop, NoMonth, LaterMonth, NoDay, NoHour, LaterHour, NoMinute, LaterMinute,
                NoSecond, LaterSecond, GoesTo, InMonth, OnDay, InHour, InMinute, Searching
  <2>2. Here
    BY <1>3, <2>1 DEF SearchInv, Here
  <2>3. Progress
    BY <1>5, <2>2, NoMonthMoves, LaterMonthMoves, NoDayMoves, NoHourMoves, LaterHourMoves,
       NoMinuteMoves, LaterMinuteMoves, NoSecondMoves, LaterSecondMoves DEF Loop
  <2> QED BY <1>3, <2>1, <2>3 DEF Progress
<1>6. CASE Finds
  <2>1. phase = "search" /\ phase' = "found" /\ Searching
    BY <1>6 DEF Finds, InMinute, InHour, OnDay, InMonth, Searching
  <2>2. Here
    BY <1>3, <2>1 DEF SearchInv, Here
  <2> QED BY <1>3, <1>6, <2>1, <2>2, FindsIt DEF Progress
<1>7. CASE GivesUp
  <2>1. /\ phase = "search" /\ phase' = "none" /\ current' = current
        /\ ~(YearOf(current.month) <= EndYear)
    BY <1>7 DEF GivesUp, Searching
  <2>2. current \in Candidates /\ Passed(current)
    BY <2>1 DEF SearchInv
  <2>3. YearOf(current.month) \in Nat /\ EndYear \in Nat
    <3>1. current.month \in Nat
      BY <2>2, CandidateFields
    <3> QED BY <1>3, <3>1, EndYearIs, YearIs
  <2> QED BY <1>3, <2>1, <2>2, <2>3
<1>8. CASE UNCHANGED cronVars
  BY <1>3, <1>8 DEF SearchInv, cronVars
<1> QED BY <1>4, <1>5, <1>6, <1>7, <1>8 DEF CronNext

LEMMA SearchInvIsEnough == SearchInv => NextRunIsLeast
<1> SUFFICES ASSUME SearchInv, InBounds, phase \in {"found", "none"}
             PROVE  /\ phase = "found" =>
                         /\ Matches(current) /\ After(current)
                         /\ \A t \in Candidates :
                              Matches(t) /\ After(t) => Number(current) <= Number(t)
                    /\ phase = "none" =>
                         \A t \in Candidates :
                           Matches(t) /\ YearOf(t.month) <= EndYear => ~After(t)
  BY DEF NextRunIsLeast
<1>1. from \in Starts /\ current \in Candidates /\ Passed(current) /\ Since \in Candidates
  BY SinceIs DEF SearchInv
<1>2. \A t \in Candidates : After(t) <=> Earlier(Since, t)
  BY <1>1, NumberOrders DEF After, Since
<1>3. \A t \in Candidates : Number(current) <= Number(t) <=> ~Earlier(t, current)
  BY <1>1, NumberOrders
<1>4. CASE phase = "found"
  BY <1>1, <1>2, <1>3, <1>4 DEF SearchInv, Passed
<1>5. ASSUME phase = "none", NEW t \in Candidates, Matches(t), YearOf(t.month) <= EndYear
      PROVE  ~After(t)
  <2>1. YearOf(current.month) > EndYear
    BY <1>5 DEF SearchInv
  <2>2. /\ t.month \in Nat /\ current.month \in Nat /\ YearOf(t.month) \in Nat
        /\ YearOf(current.month) \in Nat
        /\ current.month <= t.month => YearOf(current.month) <= YearOf(t.month)
    BY <1>1, CandidateFields, YearIs, YearsInOrder
  <2>3. EndYear \in Nat
    BY <1>1, EndYearIs
  <2>4. t.month < current.month
    BY <1>5, <2>1, <2>2, <2>3
  <2>5. Earlier(t, current)
    BY <2>4 DEF Earlier, Before
  <2> QED BY <1>1, <1>2, <1>5, <2>5 DEF Passed
<1> QED BY <1>4, <1>5

\* For every calendar, every start and every schedule whose fields are within their
\* bounds: what getNextRun() returns is the first local time after the one it is given
\* that matches, and it returns null only when there is none in the years it looks at.
THEOREM NextRunIsTheLeast == CronSpec => []NextRunIsLeast
BY SearchStarts, SearchGoesOn, SearchInvIsEnough, PTL DEF CronSpec
=============================================================================
