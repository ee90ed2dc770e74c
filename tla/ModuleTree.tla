------------------------------ MODULE ModuleTree ------------------------------
(***************************************************************************)
(* OneBunModule of packages/core/src/module/module.ts: how an application   *)
(* is made of its tree of modules, whose constructor constructs the         *)
(* modules it imports before its own providers (which is ServiceDI), and    *)
(* how setup() then initialises their services one after another.           *)
(*                                                                          *)
(* The constructors are one synchronous call, setup() awaits every hook.    *)
(* The global modules are kept by the process: an application that imports  *)
(* one which another has constructed gets that one's services.              *)
(*                                                                          *)
(* The modules are numbered as they are constructed, since a class that is  *)
(* imported in two places is constructed twice.  A service class is the     *)
(* p-th provider of a module class, its instance that of a numbered module. *)
(***************************************************************************)
EXTENDS ServiceDI, SequencesExt, TLC

CONSTANTS ModuleClasses,   \* the module classes
          NoClass,   \* asked for by those that ask for nothing
          Programs   \* what the process may run, each a record of
                     \*   apps:     the sequence of the root modules of its applications
                     \*   imports:  the imports array of each module
                     \*   global:   the modules with @Global()
                     \*   exports:  the service classes that each module exports
                     \*   deps:     which of its own providers each provider asks for
                     \*   conduct:  what constructing each provider does
                     \*   asks:     the class of another module each provider asks for
                     \*   optional: the providers that ask for it with @Optional()
                     \*   configures: the modules with a middleware of their own
                     \*   needs:    the classes that the controller of each module, the
                     \*             module's middleware and what decorates the controller
                     \*             ask for: [controller, middleware, layers]
                     \* and what Routing says

Classes == ModuleClasses \X Providers

\* The types of those fields.  What a provider asks for in its own module is in deps,
\* so that asks names the class of another one.
ASSUME ProgramsAssumption ==
  \A g \in Programs :
    /\ g.apps \in Seq(ModuleClasses)
    /\ g.imports \in [ModuleClasses -> Seq(ModuleClasses)]
    /\ g.deps \in [ModuleClasses -> [Providers -> SUBSET Providers]]
    /\ g.conduct \in [ModuleClasses -> [Providers -> Conduct]]
    /\ \A c \in Classes : g.asks[c] \notin {c[1]} \X Providers

VARIABLES
  program,    \* (fixed)
  frames,     \* the constructors under way, the innermost last
  made,       \* the module class of each module, in the order of construction
  held,       \* serviceInstances of each module
  children,   \* childModules of each module
  parents,    \* the modules whose middleware each module inherits
  inits,      \* pendingServiceInits of each module
  registry,   \* globalServicesRegistry
  processed,  \* processedGlobalModules
  phase,      \* of each application: off, making, setup, created, up, failed
  root,       \* its root module, once there is one
  awaits,     \* its setup() awaits a hook
  ready       \* the services whose onModuleInit has ended

modules == <<made, held, children, parents, inits>>
globals == <<registry, processed>>
apps == <<phase, root, awaits, ready>>
treeVars == <<program, frames, modules, globals, apps>>
allVars == <<vars, treeVars>>

AppIds == DOMAIN program.apps
Nothing == [c \in {} |-> <<0, 0>>]

TreeInit ==
  /\ program \in Programs
  /\ frames = <<>> /\ made = <<>> /\ held = <<>> /\ children = <<>> /\ parents = <<>>
  /\ inits = <<>>
  /\ registry = Nothing /\ processed = {}
  /\ phase = [a \in AppIds |-> "off"] /\ root = [a \in AppIds |-> 0]
  /\ awaits = {} /\ ready = {}
  /\ deps = [p \in Providers |-> {}]
  /\ conduct = [p \in Providers |-> "works"] /\ foreign = [p \in Providers |-> "none"]
  /\ pending = [p \in Providers |-> p] /\ created = <<>> /\ iterations = 0
  /\ outcome = "none"

-----------------------------------------------------------------------------
(* The constructor.                                                         *)

Inner == frames[Len(frames)]
Outer == SubSeq(frames, 1, Len(frames) - 1)
Class(id) == made[id]

\* The constructor is called, and PHASE 0 copies the global services.
Enter(m, above, stack) ==
  LET id == Len(made) + 1
  IN /\ frames' = Append(stack, [id |-> id, next |-> 1])
     /\ made' = Append(made, m)
     /\ held' = Append(held, registry)
     /\ children' = Append(children, <<>>)
     /\ parents' = Append(parents, above)
     /\ inits' = Append(inits, <<>>)

\* start() of an application creates its root module.
StartApp(a) ==
  /\ frames = <<>> /\ phase[a] = "off"
  /\ \A b \in AppIds : b < a => phase[b] # "off"
  /\ phase' = [phase EXCEPT ![a] = "making"]
  /\ root' = [root EXCEPT ![a] = Len(made) + 1]
  /\ Enter(program.apps[a], <<>>, <<>>)
  /\ UNCHANGED <<vars, program, globals, awaits, ready>>

Importing ==
  /\ frames # <<>> /\ outcome = "none"
  /\ Inner.next <= Len(program.imports[Class(Inner.id)])

Imported == program.imports[Class(Inner.id)][Inner.next]
Onward == [Inner EXCEPT !.next = @ + 1]

IsGlobalModule(m) == m \in program.global
AlreadyProcessed(m) == IsGlobalModule(m) /\ m \in processed

\* PHASE 1: a global module that was processed is in the registry, any other one
\* is constructed.
PassBy ==
  /\ Importing /\ AlreadyProcessed(Imported)
  /\ frames' = Append(Outer, Onward)
  /\ UNCHANGED <<vars, program, modules, globals, apps>>

Import ==
  /\ Importing /\ ~AlreadyProcessed(Imported)
  /\ Enter(Imported, Append(parents[Inner.id], Inner.id), Append(Outer, Onward))
  /\ UNCHANGED <<vars, program, globals, apps>>

IsOptionalParam(c) == c \in program.optional

\* What a parameter of another module's class is found to be.
Availability(c) ==
  LET wanted == program.asks[c]
  IN CASE wanted = NoClass -> "none"
       [] wanted \in DOMAIN held[Inner.id] -> "imported"
       [] IsOptionalParam(c) -> "optional"
       [] OTHER -> "missing"

\* PHASE 2: createServicesWithDI is called, with the imported services there.
CallServices ==
  /\ frames # <<>> /\ outcome = "none"
  /\ Inner.next > Len(program.imports[Class(Inner.id)])
  /\ LET m == Class(Inner.id)
     IN /\ deps' = program.deps[m] /\ conduct' = program.conduct[m]
        /\ foreign' = [p \in Providers |-> Availability(<<m, p>>)]
  /\ pending' = [p \in Providers |-> p] /\ created' = <<>> /\ iterations' = 0
  /\ outcome' = "running"
  /\ UNCHANGED treeVars

CreateServices == Next /\ UNCHANGED treeVars

ExportedServices(m, services) ==
  [c \in program.exports[m] \cap DOMAIN services |-> services[c]]

PendingInits(id) == [i \in 1..Len(created) |-> <<id, created[i]>>]
OwnServices(id) == [c \in {<<Class(id), p>> : p \in Created} |-> <<id, c[2]>>]

\* A map with the entries of another one set in it.
SetAll(map, entries) ==
  [c \in DOMAIN map \cup DOMAIN entries |->
     IF c \in DOMAIN entries THEN entries[c] ELSE map[c]]

WithOwn(id) == SetAll(held[id], OwnServices(id))

\* The constructor returns to the one that imports it, which takes the exported
\* services, or to start(), which calls setup().
Leave ==
  /\ frames # <<>> /\ outcome = "done"
  /\ LET id == Inner.id
         m == Class(id)
         services == WithOwn(id)
         exported == ExportedServices(m, services)
         importer == frames[Len(frames) - 1].id
     IN /\ inits' = [inits EXCEPT ![id] = PendingInits(id)]
        /\ frames' = Outer
        /\ IF Len(frames) = 1
           THEN /\ held' = [held EXCEPT ![id] = services]
                /\ phase' = [a \in AppIds |-> IF root[a] = id THEN "setup" ELSE phase[a]]
                /\ UNCHANGED <<children, globals>>
           ELSE /\ held' = [held EXCEPT ![id] = services, ![importer] = SetAll(@, exported)]
                /\ children' = [children EXCEPT ![importer] = Append(@, id)]
                /\ IF IsGlobalModule(m)
                   THEN /\ registry' = SetAll(registry, exported)
                         /\ processed' = processed \cup {m}
                   ELSE UNCHANGED globals
                /\ UNCHANGED phase
  /\ outcome' = "none"
  /\ UNCHANGED <<deps, conduct, foreign, pending, created, iterations,
                 program, made, parents, root, awaits, ready>>

\* createServicesWithDI threw: every constructor under way does, and start()
\* rejects.  What the registry has stays there.
Throw ==
  /\ frames # <<>> /\ outcome \in {"circular", "unresolvable"}
  /\ frames' = <<>>
  /\ phase' = [a \in AppIds |-> IF root[a] = frames[1].id THEN "failed" ELSE phase[a]]
  /\ outcome' = "none"
  /\ UNCHANGED <<deps, conduct, foreign, pending, created, iterations,
                 program, modules, globals, root, awaits, ready>>

-----------------------------------------------------------------------------
(* setup()                                                                  *)

\* Mutant: a module before those it imports.
DescendantModulesTopDown(id) ==
  LET Below[i \in 1..Len(made)] ==
        FlattenSeq([k \in DOMAIN children[i] |-> <<children[i][k]>> \o Below[children[i][k]]])
  IN Below[id]

\* collectDescendantModules(): depth first, a module after those it imports.
DescendantModules(id) ==
  LET Below[i \in 1..Len(made)] ==
        FlattenSeq([k \in DOMAIN children[i] |-> Append(Below[children[i][k]], children[i][k])])
  IN Below[id]

Tree(a) == <<root[a]>> \o DescendantModules(root[a])

\* The services of the root module first, then the others'.
InitOrder(a) == FlattenSeq([k \in DOMAIN Tree(a) |-> inits[Tree(a)[k]]])

\* Where those stand whose onModuleInit has not ended, and the next one of them.
Unready(a) ==
  LET order == InitOrder(a) IN {k \in DOMAIN order : order[k] \notin ready}
NextService(a) == InitOrder(a)[Min(Unready(a))]

\* onModuleInit of the next service is called ...
InitBegins(a) ==
  /\ frames = <<>> /\ phase[a] = "setup" /\ a \notin awaits /\ Unready(a) # {}
  /\ awaits' = awaits \cup {a}
  /\ UNCHANGED <<vars, program, frames, modules, globals, phase, root, ready>>

\* ... and its promise resolves ...
InitEnds(a) ==
  /\ frames = <<>> /\ a \in awaits
  /\ awaits' = awaits \ {a}
  /\ ready' = ready \cup {NextService(a)}
  /\ UNCHANGED <<vars, program, frames, modules, globals, phase, root>>

\* ... or rejects, and start() with it.
InitFails(a) ==
  /\ frames = <<>> /\ a \in awaits
  /\ awaits' = awaits \ {a}
  /\ phase' = [phase EXCEPT ![a] = "failed"]
  /\ UNCHANGED <<vars, program, frames, modules, globals, root, ready>>

\* The modules whose middleware stands before the controllers of one.
Configuring(id) ==
  LET all == Append(parents[id], id)
  IN FlattenSeq([k \in DOMAIN all |->
                   IF Class(all[k]) \in program.configures THEN <<all[k]>> ELSE <<>>])

Resolvable(id, asked) == asked \subseteq DOMAIN held[id] \cup {NoClass}

\* The middleware of a module is constructed again for each module under it, from
\* the services that one holds; then come the controllers.
Layers(id) ==
  {program.needs[Class(id)].controller}
    \cup {program.needs[Class(i)].middleware : i \in ToSet(Configuring(id))}

\* setup() ends when what they ask for is there, or start() rejects.
CreateLayers(a) ==
  /\ frames = <<>> /\ phase[a] = "setup" /\ a \notin awaits /\ Unready(a) = {}
  /\ phase' = [phase EXCEPT ![a] =
       IF \A id \in ToSet(Tree(a)) : Resolvable(id, Layers(id)) THEN "created" ELSE "failed"]
  /\ UNCHANGED <<vars, program, frames, modules, globals, root, awaits, ready>>

-----------------------------------------------------------------------------
Constructing == PassBy \/ Import \/ CallServices \/ CreateServices \/ Leave \/ Throw

TreeNext ==
  \/ Constructing
  \/ \E a \in AppIds :
       StartApp(a) \/ InitBegins(a) \/ InitEnds(a) \/ InitFails(a) \/ CreateLayers(a)

TreeSpec == TreeInit /\ [][TreeNext]_allVars

-----------------------------------------------------------------------------
(* Properties                                                               *)

\* The services that were passed to the constructor of one.
Given(s) ==
  LET c == <<Class(s[1]), s[2]>>
      wanted == program.asks[c]
  IN {<<s[1], p>> : p \in program.deps[c[1]][c[2]]}
       \cup {held[s[1]][d] : d \in {wanted} \cap DOMAIN held[s[1]]}

Ours(a) == ToSet(InitOrder(a))

\* onModuleInit of a service begins when it has ended for every service that was
\* injected there, whatever module that comes from and however it became visible.
\* Not for what the root module's services are given by others, which come after
\* them, nor for the services of a global module that another application is still
\* initialising, or has failed to.
InjectedInitialized ==
  \A a \in awaits :
    LET s == NextService(a)
    IN {g \in Given(s) \cap Ours(a) : s[1] = root[a] => g[1] = root[a]} \subseteq ready

\* The controllers of an application are created, and it is up, only when every
\* provider of its modules that can be constructed has been, and has been
\* initialised, although constructors failed and providers were put off.
UpIsComplete ==
  \A a \in AppIds : phase[a] \in {"created", "up"} =>
    \A id \in ToSet(Tree(a)) : \A p \in Providers :
      program.conduct[Class(id)][p] = "works" => <<id, p>> \in ready
=============================================================================
