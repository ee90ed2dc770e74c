------------------------------ MODULE LogTransport ------------------------------
(***************************************************************************)
(* The OTLP log transport of packages/logger/src/otlp-transport.ts, and     *)
(* the module-level activeTransport of packages/logger/src/logger.ts.       *)
(*                                                                          *)
(* Every application makes a transport in its constructor; the module keeps *)
(* one reference, to the last one made.  A transport gathers records and    *)
(* posts them when a batch is full or a timer fires; the timer is armed     *)
(* again when the POST it made has settled.                                 *)
(***************************************************************************)
EXTENDS Integers

CONSTANTS Apps,        \* the applications of the process, each with a transport
          NoApp,
          BatchSize,   \* otlpBatchSize
          MaxRecords   \* bound: records logged in a behaviour

ASSUME NoAppAssumption == NoApp \notin Apps
ASSUME BatchSizeAssumption == BatchSize \in Nat \ {0}

VARIABLES
  active,   \* activeTransport, named by the application that made it
  buffer,   \* records waiting in each transport
  timer,    \* "armed", "posting" (it fired, its POST is in flight) or "off"
  shut,     \* isShutdown
  posts,    \* POSTs in flight that nothing waits for
  logged    \* records logged, to bound them

transport == <<active, buffer, timer, shut, posts, logged>>

TransportInit ==
  /\ active = NoApp
  /\ buffer = [a \in Apps |-> 0]
  /\ timer = [a \in Apps |-> "off"]
  /\ shut = [a \in Apps |-> FALSE]
  /\ posts = [a \in Apps |-> 0]
  /\ logged = 0

\* makeLoggerFromOptions: the constructor arms the timer.
MakeTransport(a) ==
  /\ active' = a
  /\ timer' = [timer EXCEPT ![a] = "armed"]
  /\ UNCHANGED <<buffer, shut, posts, logged>>

\* log(): a full batch is posted at once, and not waited for.
Log(a) ==
  /\ ~shut[a] /\ timer[a] # "off" /\ logged < MaxRecords
  /\ logged' = logged + 1
  /\ LET full == buffer[a] + 1 >= BatchSize
     IN /\ buffer' = [buffer EXCEPT ![a] = IF full THEN 0 ELSE @ + 1]
        /\ posts' = [posts EXCEPT ![a] = IF full THEN @ + 1 ELSE @]
  /\ UNCHANGED <<active, timer, shut>>

\* scheduleFlush: the timer fires.  With nothing to post it is armed again in
\* the same turn, which changes nothing.
TimerFires(a) ==
  /\ timer[a] = "armed" /\ buffer[a] > 0
  /\ timer' = [timer EXCEPT ![a] = "posting"]
  /\ buffer' = [buffer EXCEPT ![a] = 0]
  /\ UNCHANGED <<active, shut, posts, logged>>

\* Mutant: the timer is armed once.
TimerPostEndsForGood(a) ==
  /\ timer[a] = "posting"
  /\ timer' = [timer EXCEPT ![a] = "spent"]
  /\ UNCHANGED <<active, buffer, shut, posts, logged>>

\* Its POST is answered, refused, or aborted after ten seconds: all the same.
TimerPostEnds(a) ==
  /\ timer[a] = "posting"
  /\ timer' = [timer EXCEPT ![a] = "armed"]
  /\ UNCHANGED <<active, buffer, shut, posts, logged>>

PostEnds(a) ==
  /\ posts[a] > 0
  /\ posts' = [posts EXCEPT ![a] = @ - 1]
  /\ UNCHANGED <<active, buffer, timer, shut, logged>>

\* shutdownLogger() until its await: the active transport's shutdown() stops the
\* timer and posts what is buffered.  A POST that is in flight is forgotten.
ShutDown ==
  IF active = NoApp THEN UNCHANGED transport
  ELSE /\ shut' = [shut EXCEPT ![active] = TRUE]
       /\ timer' = [timer EXCEPT ![active] = "off"]
       /\ posts' = [posts EXCEPT ![active] = IF timer[active] = "posting" THEN @ + 1 ELSE @]
       /\ buffer' = [buffer EXCEPT ![active] = 0]
       /\ UNCHANGED <<active, logged>>

\* ... and after it, whatever has become active in the meantime.
ForgetTransport ==
  /\ active' = NoApp
  /\ UNCHANGED <<buffer, timer, shut, posts, logged>>
=============================================================================
