------------------------------ MODULE MCRouting ------------------------------
(* A module of three providers in every dependency graph, up to one of them    *)
(* out of the ordinary, which imports another one; trees of five modules with  *)
(* a global one and one that is imported twice, under one or two applications; *)
(* and trees whose controllers are decorated in every order, for TLC.          *)
EXTENDS Routing
CONSTANTS app, admin, orders, users, cfg,   \* modules
          upper, lower                      \* layers

Always(x) == [m \in ModuleClasses |-> x]
First(m) == <<m, 1>>

Works == [p \in Providers |-> "works"]
Alone == [p \in Providers |-> {}]
Chain == [p \in Providers |-> {q \in Providers : q = p + 1}]

\* Five modules that import nothing, each with a path of its own.
Plain ==
  [apps |-> <<app>>, imports |-> Always(<<>>), global |-> {}, exports |-> Always({}),
   deps |-> Always(Alone), conduct |-> Always(Works), asks |-> [c \in Classes |-> NoClass],
   optional |-> {}, configures |-> {},
   needs |-> Always([controller |-> NoClass, middleware |-> NoClass, layers |-> NoClass]),
   path |-> [m \in ModuleClasses |-> m], prefix |-> <<<<>>, <<>>>>, reserved |-> {},
   everywhere |-> [middleware |-> NoClass, interceptor |-> NoClass],
   onClass |-> Always(<<MakesIt>>), onMethod |-> Always(<<MakesIt>>)]

\* app imports users, which exports its first provider but not its second.
Odd(p, c, wanted, optional) ==
  [conduct |-> [Works EXCEPT ![p] = c],
   asks |-> [c2 \in Classes |-> IF c2 = <<app, p>> THEN wanted ELSE NoClass],
   optional |-> optional]
Modest ==
  {Odd(p, c, wanted, {}) : p \in Providers, c \in Conduct,
                           wanted \in {NoClass, First(users), <<users, 2>>}}
    \cup {Odd(p, c, <<users, 2>>, {<<app, p>>}) : p \in Providers, c \in Conduct}
Single ==
  {[Plain EXCEPT !.imports[app] = <<users>>, !.exports[users] = {First(users)},
                 !.deps[app] = d, !.conduct[app] = o.conduct,
                 !.asks = o.asks, !.optional = o.optional] :
     d \in [Providers -> SUBSET Providers], o \in Modest}

\* The global module comes first or last, fails or not, and what asks for it can
\* do without it or not; users is under app and under orders.
Shop(roots, order) ==
  [Plain EXCEPT !.apps = roots,
                !.imports[app] = order, !.imports[orders] = <<users>>,
                !.imports[admin] = <<users, cfg>>, !.global = {cfg},
                !.exports = [m \in ModuleClasses |-> {First(m)}]]
Orders == {<<cfg, orders, users>>, <<orders, users, cfg>>}
Roots == {<<app>>, <<app, admin>>, <<admin, app>>}
Trees ==
  {[Shop(roots, order) EXCEPT
      !.deps = Always(Chain), !.conduct[cfg][2] = c, !.optional = optional,
      !.asks[First(users)] = First(cfg), !.asks[First(orders)] = First(users),
      !.asks[First(app)] = First(users)] :
     roots \in Roots, order \in Orders,
     c \in {"works", "throws", "undecorated"}, optional \in {{}, {First(users)}}}

\* What the layers ask for is there or not ...
Needy ==
  {[Shop(roots, order) EXCEPT
      !.configures = {app},
      !.needs[app].controller = c, !.needs[app].middleware = w,
      !.needs[users].layers = l, !.everywhere = e] :
     roots \in {<<app>>, <<admin, app>>}, order \in {<<cfg, orders, users>>},
     c \in {First(app), First(cfg)}, w \in {NoClass, First(app), First(cfg)},
     l \in {NoClass, First(cfg)},
     e \in [middleware : {First(app), First(cfg)}, interceptor : {NoClass, First(app), First(cfg)}]}

\* ... and some modules have middleware, orders and users are decorated in one order
\* or the other, and share a path with each other or with the framework, ...
Marked(k, n) == [kind |-> k, name |-> n]
AnyDecorator == [kind : Kinds, name : {upper, lower}]
Marks(k, j) ==
  {<<MakesIt>>, <<MakesIt, Marked(j, lower)>>, <<Marked(k, upper), MakesIt>>,
   <<Marked(k, upper), MakesIt, Marked(j, lower)>>}
DecoratedShop(order, some, marks, o) ==
  [Shop(<<app>>, order) EXCEPT
     !.configures = some, !.onClass[users] = marks, !.onMethod[users] = marks,
     !.path[orders] = o, !.path[users] = users, !.reserved = {<<cfg>>}]
Decorated ==
  {DecoratedShop(order, some, marks, o) :
     order \in {<<cfg, orders, users>>, <<users, orders, cfg>>},
     some \in SUBSET {app, orders, users},
     marks \in Marks("middleware", "middleware"), o \in {orders, users, cfg}}

\* ... with every kind of layer, under a prefix or not.
Layered ==
  {[DecoratedShop(<<cfg, orders, users>>, {orders}, marks, o) EXCEPT !.prefix[1] = prefix] :
     marks \in UNION {Marks(k, j) : k, j \in Kinds},
     o \in {users, cfg}, prefix \in {<<>>, <<app>>}}

AnyProgram == Single \cup Trees \cup Needy \cup Decorated \cup Layered
=============================================================================
