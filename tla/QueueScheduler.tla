---------------------------- MODULE QueueScheduler ----------------------------
(***************************************************************************)
(* QueueScheduler of packages/core/src/queue/scheduler.ts: the Map of cron, *)
(* interval and timeout jobs, their timers, and the asynchronous runs the   *)
(* timers start.                                                            *)
(*                                                                          *)
(* A ScheduledJob is an object: re-adding a name puts a NEW object into the *)
(* Map, and the closures of the old object's timer still refer to the old   *)
(* one.  Objects are therefore the numbers 1..MaxJobs in order of creation, *)
(* and jobs[n] is the object the Map holds under the name n.                *)
(*                                                                          *)
(* JavaScript runs one callback at a time, so every synchronous method and  *)
(* every timer callback is one action; executeJob awaits, so a run is a     *)
(* count of executions in flight that finishes in later actions.            *)
(***************************************************************************)
EXTENDS Integers, FiniteSets

CONSTANTS Names,    \* the job names callers use
          MaxJobs,  \* bound: job objects ever created
          MaxRuns   \* bound: executions of one job object in flight at once

ASSUME NamesAssumption == Names # {} /\ IsFiniteSet(Names)
ASSUME BoundsAssumption == MaxJobs \in Nat /\ MaxRuns \in Nat \ {0}

Job == 1..MaxJobs
NoJob == 0

VARIABLES
  running,     \* BOOLEAN: between start() and stop()
  jobs,        \* the Map: name -> job object, NoJob when absent
  created,     \* how many job objects exist
  decl,        \* the arguments of the add call that creates each object (fixed)
  lasts,       \* job.intervalMs, job.timeoutMs: whether the duration is not zero
  timer,       \* job.timer: no handle, an armed timer, or the handle of a spent one
  paused,      \* job.paused
  isRunning,   \* job.isRunning, the flag executeJob shares between its runs
  due,         \* cron: nextRun has been reached
  fetching,    \* runs awaiting getDataFn
  publishing   \* runs awaiting adapter.publish

vars == <<running, jobs, created, decl, lasts, timer, paused, isRunning, due,
          fetching, publishing>>

\* An unset overlapStrategy of a cron job is 'skip'; the other types have none.
Decl == [name : Names, type : {"cron"}, overlap : {"skip", "queue"}, provider : BOOLEAN]
   \cup [name : Names, type : {"interval", "timeout"}, overlap : {"none"}, provider : BOOLEAN]

TimerState == {"none", "armed", "spent"}

Exists(j) == j \in 1..created
Mapped(j) == Exists(j) /\ jobs[decl[j].name] = j
InFlight(j) == fetching[j] + publishing[j]
Timed(j) == decl[j].type \in {"interval", "timeout"}
SkipJob(j) == decl[j].overlap = "skip"

\* The durations a caller may give a job, as far as `!job.intervalMs` and
\* `!job.timeoutMs` tell them apart; a cron job has none.
Durations(j) == IF Timed(j) THEN BOOLEAN ELSE {TRUE}

Init ==
  /\ running = FALSE
  /\ jobs = [n \in Names |-> NoJob]
  /\ created = 0
  /\ decl \in [Job -> Decl]
  /\ lasts = [j \in Job |-> TRUE]
  /\ timer = [j \in Job |-> "none"]
  /\ paused = [j \in Job |-> FALSE]
  /\ isRunning = [j \in Job |-> FALSE]
  /\ due = [j \in Job |-> FALSE]
  /\ fetching = [j \in Job |-> 0]
  /\ publishing = [j \in Job |-> 0]

-----------------------------------------------------------------------------
(* executeJob up to its first await, for every job of S in one callback.    *)
(* With a data provider the run waits for it; without one it goes straight  *)
(* to adapter.publish.                                                      *)
StartRuns(S) ==
  /\ \A j \in S : InFlight(j) < MaxRuns
  /\ isRunning' = [j \in Job |-> j \in S \/ isRunning[j]]
  /\ fetching' = [j \in Job |->
        IF j \in S /\ decl[j].provider THEN fetching[j] + 1 ELSE fetching[j]]
  /\ publishing' = [j \in Job |->
        IF j \in S /\ ~decl[j].provider THEN publishing[j] + 1 ELSE publishing[j]]

NoRuns == UNCHANGED <<isRunning, fetching, publishing>>

\* start(): every unpaused interval job is armed and runs at once, every
\* unpaused timeout job is armed, unless its duration is zero; cron jobs wait
\* for the next check.
Start ==
  LET toArm == {j \in Job : Mapped(j) /\ Timed(j) /\ lasts[j] /\ ~paused[j] /\ timer[j] = "none"}
  IN /\ ~running
     /\ running' = TRUE
     /\ timer' = [j \in Job |-> IF j \in toArm THEN "armed" ELSE timer[j]]
     /\ UNCHANGED <<jobs, created, decl, lasts, paused, due>>
     /\ StartRuns({j \in toArm : decl[j].type = "interval"})

\* stop(): only the timers of jobs in the Map are cleared.
Stop ==
  /\ running
  /\ running' = FALSE
  /\ timer' = [j \in Job |-> IF Mapped(j) THEN "none" ELSE timer[j]]
  /\ NoRuns
  /\ UNCHANGED <<jobs, created, decl, lasts, paused, due>>

(* addCronJob, addIntervalJob, addTimeoutJob: this.jobs.set(name, job),     *)
(* whatever the name held before, then arm the timer if already running; a  *)
(* job of zero duration is kept and never armed.                            *)
AddJob(lasting) ==
  LET j == created + 1
      arm == running /\ Timed(j) /\ lasting
  IN /\ created < MaxJobs
     /\ lasting \in Durations(j)
     /\ created' = j
     /\ lasts' = [lasts EXCEPT ![j] = lasting]
     /\ jobs' = [jobs EXCEPT ![decl[j].name] = j]
     /\ timer' = [timer EXCEPT ![j] = IF arm THEN "armed" ELSE "none"]
     /\ StartRuns(IF arm /\ decl[j].type = "interval" THEN {j} ELSE {})
     /\ UNCHANGED <<running, decl, paused, due>>

\* Mutant: pauseJob sets the flag and forgets the timer.
PauseJobKeepsTimer(n) ==
  LET j == jobs[n]
  IN /\ j # NoJob
     /\ paused' = [paused EXCEPT ![j] = TRUE]
     /\ NoRuns
     /\ UNCHANGED <<running, jobs, created, decl, lasts, timer, due>>

\* pauseJob(name)
PauseJob(n) ==
  LET j == jobs[n]
  IN /\ j # NoJob
     /\ paused' = [paused EXCEPT ![j] = TRUE]
     /\ timer' = [timer EXCEPT ![j] = "none"]
     /\ NoRuns
     /\ UNCHANGED <<running, jobs, created, decl, lasts, due>>

\* resumeJob(name): an interval job runs at once, a timeout job waits its full
\* delay again, a cron job is given its next run from now.
ResumeJob(n) ==
  LET j == jobs[n]
      arm == running /\ Timed(j) /\ lasts[j] /\ timer[j] = "none"
  IN /\ j # NoJob
     /\ paused[j]
     /\ paused' = [paused EXCEPT ![j] = FALSE]
     /\ timer' = [timer EXCEPT ![j] = IF arm THEN "armed" ELSE @]
     /\ due' = [due EXCEPT ![j] = IF running /\ ~Timed(j) THEN FALSE ELSE @]
     /\ StartRuns(IF arm /\ decl[j].type = "interval" THEN {j} ELSE {})
     /\ UNCHANGED <<running, jobs, created, decl, lasts>>

\* updateJob(options) with the job's own type (another type returns false):
\* the old timer is cleared and a new one armed unless stopped or paused, or
\* the new duration is zero.
UpdateJob(n, lasting) ==
  LET j == jobs[n]
      arm == running /\ ~paused[j] /\ Timed(j) /\ lasting
  IN /\ j # NoJob
     /\ lasting \in Durations(j)
     /\ lasts' = [lasts EXCEPT ![j] = lasting]
     /\ timer' = [timer EXCEPT ![j] = IF arm THEN "armed" ELSE "none"]
     /\ due' = [due EXCEPT ![j] = FALSE]
     /\ StartRuns(IF arm /\ decl[j].type = "interval" THEN {j} ELSE {})
     /\ UNCHANGED <<running, jobs, created, decl, paused>>

\* Mutant: removeJob deletes the entry and forgets the timer.
RemoveJobKeepsTimer(n) ==
  /\ jobs[n] # NoJob
  /\ jobs' = [jobs EXCEPT ![n] = NoJob]
  /\ NoRuns
  /\ UNCHANGED <<running, created, decl, lasts, timer, paused, due>>

\* removeJob(name): the handle stays in the object that leaves the Map.
RemoveJob(n) ==
  LET j == jobs[n]
  IN /\ j # NoJob
     /\ jobs' = [jobs EXCEPT ![n] = NoJob]
     /\ timer' = [timer EXCEPT ![j] = IF @ = "armed" THEN "spent" ELSE @]
     /\ NoRuns
     /\ UNCHANGED <<running, created, decl, lasts, paused, due>>

-----------------------------------------------------------------------------
\* The setInterval callback of startIntervalJob: it consults neither the Map
\* nor the overlap of its own earlier runs.
FireInterval(j) ==
  /\ Exists(j) /\ decl[j].type = "interval"
  /\ timer[j] = "armed"
  /\ UNCHANGED <<running, jobs, created, decl, lasts, timer, paused, due>>
  /\ StartRuns({j})

\* The setTimeout callback of startTimeoutJob: it runs its own object and then
\* deletes whatever the Map holds under that object's NAME.
FireTimeout(j) ==
  /\ Exists(j) /\ decl[j].type = "timeout"
  /\ timer[j] = "armed"
  /\ timer' = [timer EXCEPT ![j] = "spent"]
  /\ jobs' = [jobs EXCEPT ![decl[j].name] = NoJob]
  /\ UNCHANGED <<running, created, decl, lasts, paused, due>>
  /\ StartRuns({j})

\* Time reaches nextRun of a cron job (running or not: nextRun is a date).
CronDue(j) ==
  /\ Exists(j) /\ decl[j].type = "cron"
  /\ ~due[j]
  /\ due' = [due EXCEPT ![j] = TRUE]
  /\ NoRuns
  /\ UNCHANGED <<running, jobs, created, decl, lasts, timer, paused>>

\* Mutant: the pause is not looked at.
DueCronPausedToo == {j \in Job : Mapped(j) /\ decl[j].type = "cron" /\ due[j]}

\* checkCronJobs, every second while running: each due unpaused cron job of the
\* Map runs, unless it is a 'skip' job still flagged running; either way
\* nextRun moves on.
DueCron == {j \in Job : Mapped(j) /\ decl[j].type = "cron" /\ ~paused[j] /\ due[j]}

\* Mutant: the overlap strategy is not looked at.
RunnableCronNoSkip == DueCron

RunnableCron == {j \in DueCron : ~(isRunning[j] /\ SkipJob(j))}

CheckCronJobs ==
  /\ running
  /\ DueCron # {}
  /\ due' = [j \in Job |-> due[j] /\ j \notin DueCron]
  /\ UNCHANGED <<running, jobs, created, decl, lasts, timer, paused>>
  /\ StartRuns(RunnableCron)

\* getDataFn resolves and the run goes on to publish, even for a job that was
\* paused, removed or stopped meanwhile.
DataReady(j) ==
  /\ fetching[j] > 0
  /\ fetching' = [fetching EXCEPT ![j] = @ - 1]
  /\ publishing' = [publishing EXCEPT ![j] = @ + 1]
  /\ UNCHANGED <<running, jobs, created, decl, lasts, timer, paused, isRunning, due>>

\* getDataFn rejects: the error handler is called and `finally` clears the flag.
DataFailed(j) ==
  /\ fetching[j] > 0
  /\ fetching' = [fetching EXCEPT ![j] = @ - 1]
  /\ isRunning' = [isRunning EXCEPT ![j] = FALSE]
  /\ UNCHANGED <<running, jobs, created, decl, lasts, timer, paused, due, publishing>>

\* adapter.publish settles, with either outcome: `finally` clears the flag,
\* whatever other runs of the object are still in flight.
Published(j) ==
  /\ publishing[j] > 0
  /\ publishing' = [publishing EXCEPT ![j] = @ - 1]
  /\ isRunning' = [isRunning EXCEPT ![j] = FALSE]
  /\ UNCHANGED <<running, jobs, created, decl, lasts, timer, paused, due, fetching>>

Next ==
  \/ Start
  \/ Stop
  \/ \E lasting \in BOOLEAN : AddJob(lasting)
  \/ \E n \in Names : PauseJob(n)
  \/ \E n \in Names : ResumeJob(n)
  \/ \E n \in Names, lasting \in BOOLEAN : UpdateJob(n, lasting)
  \/ \E n \in Names : RemoveJob(n)
  \/ \E j \in Job : FireInterval(j)
  \/ \E j \in Job : FireTimeout(j)
  \/ \E j \in Job : CronDue(j)
  \/ CheckCronJobs
  \/ \E j \in Job : DataReady(j)
  \/ \E j \in Job : DataFailed(j)
  \/ \E j \in Job : Published(j)

Spec == Init /\ [][Next]_vars


-----------------------------------------------------------------------------
\* Every field holds a value of its type, and the Map maps a name only to an
\* object created under that name.
TypeOK ==
  /\ running \in BOOLEAN
  /\ created \in 0..MaxJobs
  /\ decl \in [Job -> Decl]
  /\ lasts \in [Job -> BOOLEAN]
  /\ jobs \in [Names -> 0..created]
  /\ \A n \in Names : jobs[n] # NoJob => decl[jobs[n]].name = n
  /\ timer \in [Job -> TimerState]
  /\ paused \in [Job -> BOOLEAN]
  /\ isRunning \in [Job -> BOOLEAN]
  /\ due \in [Job -> BOOLEAN]
  /\ fetching \in [Job -> 0..MaxRuns]
  /\ publishing \in [Job -> 0..MaxRuns]

\* Whatever sequence of start, stop, add, pause, resume and update led here,
\* an interval or timeout job of the Map has a live timer exactly when the
\* scheduler runs, the job is not paused and its last duration is not zero: no
\* job is forgotten by a restart, none survives a pause or a stop, and an update
\* to zero leaves no timer of the old duration behind.
ArmedIffScheduled ==
  \A j \in Job : Mapped(j) /\ Timed(j) =>
    (timer[j] = "armed" <=> running /\ ~paused[j] /\ lasts[j])

\* overlapStrategy 'skip' ("Skip execution if previous job is still running"):
\* the executions of one cron job object never overlap, although the flag that
\* guards them is cleared by an asynchronous `finally` and the job may be
\* paused, resumed and updated while it runs.
SkipNeverOverlaps ==
  \A j \in Job : SkipJob(j) => InFlight(j) <= 1

\* As long as no name is added twice, every armed timer belongs to a job of the
\* Map: removeJob, pauseJob and stop() then leave nothing firing behind.
NamesUsedOnce ==
  \A j, k \in 1..created : decl[j].name = decl[k].name => j = k

UniqueNamesNoOrphans ==
  NamesUsedOnce => \A j \in Job : timer[j] = "armed" => Mapped(j) /\ running

\* A run starts only for a job the running scheduler holds unpaused; the one
\* exception is a timer that lost its Map entry to another use of its name.
RunStarts(j) == InFlight(j)' > InFlight(j)
Scheduled(j) == Mapped(j) /\ running /\ ~paused[j]
Orphaned(j) == timer[j] = "armed" /\ ~Mapped(j)

RunsOnlyWhenScheduled ==
  [][\A j \in Job : RunStarts(j) => Scheduled(j) \/ Scheduled(j)' \/ Orphaned(j)]_vars
=============================================================================
