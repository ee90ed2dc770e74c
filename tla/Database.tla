------------------------------ MODULE Database ------------------------------
(***************************************************************************)
(* DrizzleService (packages/drizzle/src): the connection a process keeps,   *)
(* opened by its onModuleInit() from the options of DrizzleModule or from   *)
(* the environment, or by callers' initialize(); its close(); migrations;   *)
(* and transactions.  A call is cut where it awaits.                        *)
(*                                                                          *)
(* SQLite answers at once.  PostgreSQL may answer late or never, and a      *)
(* client of it is a pool that connects when it is first used.  waitForInit *)
(* waits for nothing, since nothing assigns initPromise: it is one pass of  *)
(* the event loop.  What the libraries do is taken from how src/ calls them.*)
(***************************************************************************)
EXTENDS Naturals, Sequences, FiniteSets

CONSTANTS Callers,     \* callers of the service's methods
          Connections, \* what can be given to initialize()
          KindOf,      \* "sqlite" or "postgresql"
          MaxCalls     \* bound: calls of the callers

Nowhere == "nowhere"
Hook == "hook"

ASSUME DatabaseAssumption ==
  /\ KindOf \in [Connections -> {"sqlite", "postgresql"}] /\ Nowhere \notin Connections
  /\ MaxCalls \in Nat /\ Hook \notin Callers

VARIABLES
  setup,    \* what autoInitialize() finds
  service,  \* the fields of the service
  clients,  \* every client ever made: where it leads, whether it is open
  call,     \* the call each actor has under way
  dbCalls,  \* calls made
  migrated  \* the databases whose schema is up to date

databaseVars == <<setup, service, clients, call, dbCalls, migrated>>

Actors == Callers \cup {Hook}
None == 0

NoCall == [op |-> "none", step |-> "none", to |-> Nowhere,
           since |-> 0, client |-> None, on |-> None]
Settings ==
  [from : {"module", "environment"}, to : Connections, autoMigrate : BOOLEAN]
  \cup {[from |-> "none", to |-> Nowhere, autoMigrate |-> FALSE]}

DatabaseStart ==
  /\ service = [db |-> None, sqlite |-> None, postgres |-> None, connection |-> Nowhere, initialized |-> FALSE]
  /\ clients = <<>> /\ dbCalls = 0
  /\ call = [a \in Actors |-> NoCall]
  /\ migrated = {}
DatabaseInit == setup \in Settings /\ DatabaseStart

Held == {service.sqlite, service.postgres} \ {None}
At(a, op, step) == call[a].op = op /\ call[a].step = step
Goes(a, step) == call' = [call EXCEPT ![a].step = step]

\* A caller's call returns or rejects; the hook has yet to set its flag.
Ends(a, c) == call' = [call EXCEPT ![a] = IF a = Hook THEN c ELSE NoCall]
Ended(a, step) == Ends(a, [call[a] EXCEPT !.step = step])

\* A caller calls a method; each of them but close() awaits waitForInit first.
Calls(u) ==
  /\ call[u] = NoCall /\ dbCalls < MaxCalls /\ dbCalls' = dbCalls + 1
  /\ \E op \in {"initialize", "close", "migrate", "transaction"}, to \in Connections \cup {Nowhere} :
       /\ (op = "initialize") = (to # Nowhere)
       /\ IF op = "close" /\ Held = {}
          THEN /\ call' = call
               /\ service' = [service EXCEPT !.db = None, !.connection = Nowhere, !.initialized = FALSE]
          ELSE /\ call' = [call EXCEPT ![u] = [NoCall EXCEPT !.op = op, !.to = to,
                                                 !.step = IF op = "close" THEN op ELSE "wait"]]
               /\ service' = service
  /\ UNCHANGED <<setup, clients, migrated>>

-----------------------------------------------------------------------------
(* initialize().                                                            *)

\* A connection is to a SQLite file or to a PostgreSQL server.
Sqlite(to) == KindOf[to] = "sqlite"

Opened(to) ==
  [db |-> Len(clients) + 1,
   sqlite |-> IF Sqlite(to) THEN Len(clients) + 1 ELSE service.sqlite,
   postgres |-> IF ~Sqlite(to) THEN Len(clients) + 1 ELSE service.postgres,
   connection |-> to, initialized |-> TRUE]

\* Opening fails where the client is made, of a URL that does not parse, say, or,
\* for SQLite, at a pragma, when the new client is already stored.  c is the call
\* that opens.
Open(a, c) ==
  \/ /\ clients' = Append(clients, [to |-> c.to, open |-> TRUE])
     /\ service' = Opened(c.to)
     /\ Ends(a, [c EXCEPT !.step = "opened", !.client = Len(clients) + 1])
  \/ /\ Ends(a, [c EXCEPT !.step = "failed"])
     /\ \E stored \in BOOLEAN :
          /\ stored => Sqlite(c.to)
          /\ clients' = IF stored THEN Append(clients, [to |-> c.to, open |-> TRUE]) ELSE clients
          /\ service' = [service EXCEPT !.connection = c.to,
                                        !.sqlite = IF stored THEN Len(clients) + 1 ELSE @]

\* Mutant: a service that is initialized just opens another connection.
ReplacesNothing == FALSE

\* A connection that is there is closed first, and close() awaits.
Replaces == service.initialized /\ service.connection # Nowhere

Enters(a, c) ==
  IF Replaces
  THEN /\ call' = [call EXCEPT ![a] = [c EXCEPT !.step = "close", !.since = Len(clients)]]
       /\ UNCHANGED <<service, clients>>
  ELSE Open(a, c)

InitializeService(u) ==
  /\ At(u, "initialize", "wait") /\ Enters(u, call[u])
  /\ UNCHANGED <<setup, dbCalls, migrated>>

Reopens(a) ==
  /\ call[a].step = "open" /\ Open(a, call[a])
  /\ UNCHANGED <<setup, dbCalls, migrated>>

Shut == [c \in DOMAIN clients |-> [clients[c] EXCEPT !.open = @ /\ c \notin Held]]

CloseClient(a) ==
  /\ call[a].step = "close"
  /\ clients' = Shut
  /\ service' = [db |-> None, sqlite |-> None, postgres |-> None, connection |-> Nowhere, initialized |-> FALSE]
  /\ IF call[a].op = "close" THEN Ended(a, "closed") ELSE Goes(a, "open")
  /\ UNCHANGED <<setup, dbCalls, migrated>>

-----------------------------------------------------------------------------
(* onModuleInit(): autoInitialize(), once.                                  *)

HookCall(step) == [NoCall EXCEPT !.op = Hook, !.to = setup.to, !.step = step]

OnModuleInit ==
  /\ call[Hook] = NoCall
  /\ IF setup.from = "module"
     THEN Enters(Hook, HookCall("enter"))
     ELSE /\ call' = [call EXCEPT ![Hook] = HookCall(IF setup.from = "none" THEN "failed" ELSE "load")]
          /\ UNCHANGED <<service, clients>>
  /\ UNCHANGED <<setup, dbCalls, migrated>>

\* loadFromEnv() reads and parses; what it cannot parse is a failure.
LoadFromEnv ==
  /\ call[Hook].step = "load"
  /\ \/ Enters(Hook, call[Hook])
     \/ Goes(Hook, "failed") /\ UNCHANGED <<service, clients>>
  /\ UNCHANGED <<setup, dbCalls, migrated>>

\* Mutant: the flag stays as initialize() set it.
GivesUpNever == call[Hook].step = "failed"

\* A failure of the migrations makes it give up only if the configuration is the
\* environment's; the client stays.
GivesUp ==
  \/ call[Hook].step = "failed"
  \/ call[Hook].step = "broken" /\ setup.from = "environment"

Settle ==
  /\ \/ call[Hook].step \in {"migrated", "broken", "failed"}
     \/ At(Hook, Hook, "opened") /\ ~setup.autoMigrate
  /\ Goes(Hook, "ended")
  /\ service' = [service EXCEPT !.initialized = ~GivesUp]
  /\ UNCHANGED <<setup, clients, dbCalls, migrated>>

-----------------------------------------------------------------------------
(* runMigrations().                                                         *)

Wants(a) == IF a = Hook THEN At(a, Hook, "opened") /\ setup.autoMigrate ELSE At(a, "migrate", "wait")

\* The migrator is chosen by the options, and given the handle: of another kind
\* when initialize() failed over a connection that was given up.
Migratable == service.db # None /\ service.connection # Nowhere
              /\ (Sqlite(service.connection) <=> Sqlite(clients[service.db].to))

\* SQLite migrates at once or fails.
Migrate(a) ==
  /\ Wants(a)
  /\ IF Migratable /\ ~Sqlite(service.connection)
     THEN /\ call' = [call EXCEPT ![a] = [@ EXCEPT !.step = "migrates", !.on = service.db]]
          /\ UNCHANGED migrated
     ELSE \/ /\ Migratable /\ Ended(a, "migrated")
             /\ clients[service.db].open
             /\ migrated' = migrated \cup {clients[service.db].to}
          \/ Ended(a, "broken") /\ UNCHANGED migrated
  /\ UNCHANGED <<setup, service, clients, dbCalls>>

\* PostgreSQL answers, or the call rejects: also when the options it then looks at
\* have been closed.
Migrated(a) ==
  /\ call[a].step = "migrates"
  /\ \/ /\ clients[call[a].on].open
        /\ Ended(a, IF service.connection = Nowhere THEN "broken" ELSE "migrated")
        /\ migrated' = migrated \cup {clients[call[a].on].to}
     \/ Ended(a, "broken") /\ UNCHANGED migrated
  /\ UNCHANGED <<setup, service, clients, dbCalls>>

-----------------------------------------------------------------------------
(* transaction(): the callback is given the client that is there when it     *)
(* begins, and may outlive it.                                              *)

Transaction(u) ==
  /\ At(u, "transaction", "wait")
  /\ IF service.db # None /\ service.initialized
     THEN call' = [call EXCEPT ![u] = [@ EXCEPT !.step = "begun", !.client = service.db]]
     ELSE Ended(u, "failed")
  /\ UNCHANGED <<setup, service, clients, dbCalls, migrated>>

\* The callback returned and the transaction committed, or either failed, for one
\* because the client has been closed.
TransactionEnds(u) ==
  /\ At(u, "transaction", "begun") /\ Ended(u, "done")
  /\ UNCHANGED <<setup, service, clients, dbCalls, migrated>>

-----------------------------------------------------------------------------
CallerStep(u) == Calls(u) \/ InitializeService(u) \/ Transaction(u) \/ TransactionEnds(u)
ActorStep(a) == Reopens(a) \/ CloseClient(a) \/ Migrate(a) \/ Migrated(a)

DatabaseNext ==
  \/ OnModuleInit \/ LoadFromEnv \/ Settle
  \/ \E u \in Callers : CallerStep(u)
  \/ \E a \in Actors : ActorStep(a)

DatabaseSpec == DatabaseInit /\ [][DatabaseNext]_databaseVars

-----------------------------------------------------------------------------
DatabaseTypeOK ==
  /\ setup \in Settings /\ dbCalls \in 0..MaxCalls
  /\ service.db \in 0..Len(clients) /\ Held \subseteq 1..Len(clients)
  /\ migrated \subseteq Connections

\* An open client is lost, held by nobody who could close it, in two ways only:
\* by a call that found the service not initialized, although it held a client
\* (autoInitialize() gave up, or a pragma failed); and by a call that closed what
\* it found and then waited, when another one opened a client meanwhile.  Closing,
\* replacing and auto-initializing, however they overlap, lose no other.
Lost(c) == clients[c].open /\ c \notin Held
LosesOnlyUnseen ==
  [][\A c \in DOMAIN clients :
       ~Lost(c) /\ Lost(c)' =>
         \E a \in Actors : call'[a] # call[a] /\ IF call[a].step = "open" THEN c > call[a].since
                                                 ELSE ~service.initialized]_databaseVars

\* As long as the connection that onModuleInit() made from the environment is in
\* place and the service says that it is initialized, the migrations it was to
\* run have been run, whatever others called while they ran.
MigratedWhenInitialized ==
  setup.from = "environment" /\ setup.autoMigrate /\ call[Hook].step = "ended" /\ service.initialized
  /\ call[Hook].client # None /\ service.db = call[Hook].client
    => setup.to \in migrated
=============================================================================
