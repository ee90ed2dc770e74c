------------------------------- MODULE Routing -------------------------------
(***************************************************************************)
(* How start() of packages/core/src/application/application.ts makes the    *)
(* routes of an application from its tree of modules and from what the      *)
(* decorators of packages/core/src/decorators/decorators.ts have noted.     *)
(*                                                                          *)
(* A module has one controller with one route, and goes by the same name.   *)
(* A decorator is a record of the kind of layer it puts around the route    *)
(* and of its name.                                                         *)
(***************************************************************************)
EXTENDS ModuleTree

\* Further fields of a program:
\*   path:       the path and method of each module's route
\*   prefix:     the parts that routePrefix and basePath put before it, by application
\*   reserved:   the paths of the framework's own endpoints, which have no prefix
\*   everywhere: what the application's own middleware and interceptors ask for:
\*               [middleware, interceptor]
\*   onClass:    the decorators of each module's controller, from top to bottom;
\*               the one that makes it a controller is MakesIt
\*   onMethod:   those of its method; the one that makes it a route is MakesIt
CONSTANTS MakesIt, Decorators

Kinds == {"middleware", "guards", "filters", "interceptors"}

\* A method is decorated as a route once.
ASSUME DecoratorsAssumption ==
  /\ MakesIt \notin Decorators
  /\ \A d \in Decorators : d.kind \in Kinds
  /\ \A g \in Programs : \A m \in ModuleClasses :
       /\ g.onClass[m] \in Seq(Decorators \cup {MakesIt})
       /\ g.onMethod[m] \in Seq(Decorators \cup {MakesIt})
       /\ \E k \in DOMAIN g.onMethod[m] :
            \A j \in DOMAIN g.onMethod[m] : g.onMethod[m][j] = MakesIt <=> j = k

VARIABLE table  \* bunRoutes of each application

routingVars == <<allVars, table>>

RoutingInit == TreeInit /\ table = [a \in AppIds |-> Nothing]

-----------------------------------------------------------------------------
(* Decorators are applied from the bottom to the top.                       *)

Bare == [k \in Kinds |-> <<>>]

UseMiddleware(noted, d) == [noted EXCEPT !.middleware = Append(@, d.name)]
UseGuards(noted, d) == [noted EXCEPT !.guards = Append(@, d.name)]
UseFilters(noted, d) == [noted EXCEPT !.filters = Append(@, d.name)]
UseInterceptors(noted, d) == [noted EXCEPT !.interceptors = Append(@, d.name)]

Use(noted, d) ==
  CASE d.kind = "middleware" -> UseMiddleware(noted, d)
    [] d.kind = "guards" -> UseGuards(noted, d)
    [] d.kind = "filters" -> UseFilters(noted, d)
    [] d.kind = "interceptors" -> UseInterceptors(noted, d)

\* @Controller() wraps the class and copies what is noted to the wrapper, which is
\* what the decorators above it then see.
Decorate(d, s) ==
  CASE d = MakesIt -> [s EXCEPT !.wrapper = s.class]
    [] OTHER -> [class |-> Use(s.class, d), wrapper |-> Use(s.wrapper, d)]

OnClass(m) ==
  FoldRight(Decorate, program.onClass[m], [class |-> Bare, wrapper |-> Bare]).wrapper

\* @Get() notes the route with what is noted by then.
DecorateMethod(d, s) ==
  CASE d = MakesIt -> [s EXCEPT !.route = s.method]
    [] OTHER -> [s EXCEPT !.method = Use(@, d)]

OnMethod(m) ==
  FoldRight(DecorateMethod, program.onMethod[m], [method |-> Bare, route |-> Bare]).route

-----------------------------------------------------------------------------
(* The tree of modules is searched by the controller's class.               *)

\* The modules of an application, each before those it imports.
Places(a) ==
  LET From[i \in 1..Len(made)] ==
        <<i>> \o FlattenSeq([k \in DOMAIN children[i] |-> From[children[i][k]]])
  IN From[root[a]]

Controllers(a) == [k \in DOMAIN Places(a) |-> Class(Places(a)[k])]

\* Where the modules of a class stand: it may be imported in several places.
PlacesOf(a, m) == {k \in DOMAIN Places(a) : Class(Places(a)[k]) = m}

\* The controller is that of the first of them ...
Owner(a, m) == Places(a)[Min(PlacesOf(a, m))]

\* Mutant: without what the modules above have configured.
ModuleMiddlewareOwn(a, m) == IF m \in program.configures THEN <<m>> ELSE <<>>

\* ... but the middleware that of the first which has any.
ModuleMiddleware(a, m) ==
  LET some == {k \in PlacesOf(a, m) : Configuring(Places(a)[k]) # <<>>}
      found == Configuring(Places(a)[Min(some)])
  IN IF some = {} THEN <<>> ELSE [k \in DOMAIN found |-> Class(found[k])]

-----------------------------------------------------------------------------
At(level, names) == [k \in DOMAIN names |-> [level |-> level, name |-> names[k]]]

\* What a request to the route of m goes through.
Merged(a, m) ==
  LET noted == [k \in Kinds |-> At("controller", OnClass(m)[k]) \o At("route", OnMethod(m)[k])]
      everywhere == At("application", <<root[a]>>)
  IN [middleware |-> everywhere \o At("module", ModuleMiddleware(a, m)) \o noted.middleware,
      guards |-> noted.guards,
      filters |-> everywhere \o noted.filters,
      interceptors |-> everywhere \o noted.interceptors]

FrameworkRoute == [controller |-> NoClass, by |-> 0, layers |-> Bare]

BuildPathPrefix(a) == program.prefix[a]
FullPath(a, m) == Append(BuildPathPrefix(a), program.path[m])

\* A later controller takes over the path of an earlier one, and the framework's
\* endpoints those of both.
RouteAt(a, p) ==
  LET takers == {k \in DOMAIN Controllers(a) : FullPath(a, Controllers(a)[k]) = p}
      m == Controllers(a)[Max(takers)]
  IN IF p \in program.reserved THEN FrameworkRoute
     ELSE [controller |-> m, by |-> Owner(a, m), layers |-> Merged(a, m)]

Paths(a) == {FullPath(a, m) : m \in ToSet(Controllers(a))} \cup program.reserved

\* What the decorators name, and the interceptors of the application, is made from
\* the services of the controller's module, the application's middleware from those
\* of the root.
RoutesResolvable(a) ==
  /\ Resolvable(root[a], {program.everywhere.middleware})
  /\ \A m \in ToSet(Controllers(a)) :
       Resolvable(Owner(a, m), {program.needs[m].layers, program.everywhere.interceptor})

\* start() makes the routes, or rejects.
CreateRoutes(a) ==
  /\ frames = <<>> /\ phase[a] = "created"
  /\ IF RoutesResolvable(a)
     THEN /\ phase' = [phase EXCEPT ![a] = "up"]
          /\ table' = [table EXCEPT ![a] = [p \in Paths(a) |-> RouteAt(a, p)]]
     ELSE /\ phase' = [phase EXCEPT ![a] = "failed"]
          /\ UNCHANGED table
  /\ UNCHANGED <<vars, program, frames, modules, globals, root, awaits, ready>>

RoutingNext ==
  \/ TreeNext /\ UNCHANGED table
  \/ \E a \in AppIds : CreateRoutes(a)

RoutingSpec == RoutingInit /\ [][RoutingNext]_routingVars

-----------------------------------------------------------------------------
(* Properties                                                               *)

Rank == [application |-> 1, module |-> 2, controller |-> 3, route |-> 4]
Layer(kind, level, name) == [kind |-> kind, level |-> level, name |-> name]

\* Where the decorator that makes the method a route stands.
RouteMark(m) == CHOOSE k \in DOMAIN program.onMethod[m] : program.onMethod[m][k] = MakesIt

\* The decorators of a method, and those of them that stand under the one that makes
\* it a route.
OfMethod(m) == ToSet(program.onMethod[m]) \ {MakesIt}
UnderRoute(m) == {program.onMethod[m][k] : k \in (RouteMark(m) + 1)..Len(program.onMethod[m])}

\* What was written for a route whose module is i: the middleware that it and those
\* above it in the tree configure, all decorators of the class but the one that makes
\* it a controller, and some of those of its method.
WrittenFor(m, i, method) ==
  LET class == ToSet(program.onClass[m]) \ {MakesIt}
  IN {Layer("middleware", "module", Class(j)) : j \in ToSet(Configuring(i))}
       \cup {Layer(d.kind, "controller", d.name) : d \in class}
       \cup {Layer(d.kind, "route", d.name) : d \in method}

\* What is around a route of an application, next to what the application puts
\* around all of them.
Around(r) ==
  UNION {{Layer(k, x.level, x.name) : x \in {y \in ToSet(r.layers[k]) : y.level # "application"}} :
           k \in Kinds}

\* The modules of an application that have a controller.
Homes(a, m) == {i \in ToSet(Tree(a)) : Class(i) = m}

\* A request that reaches a controller goes through what was written for it, of its
\* method at least what stands under the route's own decorator (as decorators.ts:910
\* shows it), and through nothing that was not, each layer as the kind it was written as, the application's layers
\* first, then those of the modules, the controller and the route, whatever the
\* order of the class decorators and whatever controller had the path before.  Where
\* the module is imported in several places, middleware is not lost because one of
\* them has none; but then it is not that of the module the controller is from.
RoutesAsWritten ==
  \A a \in AppIds : \A p \in DOMAIN table[a] :
    LET r == table[a][p]
        homes == Homes(a, r.controller)
    IN r # FrameworkRoute =>
         /\ r.by \in homes
         /\ \E i \in homes :
              /\ i = r.by \/ Configuring(r.by) = <<>>
              /\ Configuring(i) = <<>> => \A j \in homes : Configuring(j) = <<>>
              /\ WrittenFor(r.controller, i, UnderRoute(r.controller)) \subseteq Around(r)
              /\ Around(r) \subseteq WrittenFor(r.controller, i, OfMethod(r.controller))
         /\ \A k \in Kinds : \A i, j \in DOMAIN r.layers[k] :
              i < j => Rank[r.layers[k][i].level] <= Rank[r.layers[k][j].level]

\* Every decorator of a method is around its route, also one that stands above the
\* route's own: "@UseGuards(AuthGuard, new RolesGuard(['admin'])) @Delete('/:id') ...
\* only accessible with Bearer token AND admin role" (docs/api/guards.md:130-134).
\* The code has it otherwise.
MethodDecoratorsApply ==
  \A a \in AppIds : \A p \in DOMAIN table[a] :
    LET r == table[a][p]
    IN r # FrameworkRoute =>
         \A d \in OfMethod(r.controller) : Layer(d.kind, "route", d.name) \in Around(r)
=============================================================================
