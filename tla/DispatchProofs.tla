----------------------------- MODULE DispatchProofs -----------------------------
(***************************************************************************)
(* Proofs about RequestPipeline for every number of middleware, guards,     *)
(* interceptors and repeated calls of next().                               *)
(*                                                                          *)
(* The inductive invariant says where a strand can be in each of its modes  *)
(* and what it knows of the guards there (Placed, Vetted, Caught), and that *)
(* the only strand without a floor is the one that has still to answer      *)
(* (OneMain). Vetted is HandlerOnlyAdmitted with the history it needs: how  *)
(* far the guards have been asked, and that nothing is remembered of them   *)
(* above. OneMain makes every step a step of Exchange or a stutter.         *)
(*                                                                          *)
(* Then proofs about QueuePatterns and MemoryQueue: the matcher accepts what *)
(* a pattern means, by induction from its end; and a dispatch whose array    *)
(* changes under its loop misses no more listeners than entries were taken   *)
(* out of the array, since those it owes the message and whom it has neither *)
(* called nor ahead of it (Behind) are never more than that.                 *)
(***************************************************************************)
EXTENDS RequestPipeline, MemoryQueue, SequenceTheorems, FiniteSetTheorems,
        WellFoundedInduction, TLAPS

M == route.middleware
G == route.guards

\* Where a strand is in each mode. Floors are interceptors, so a strand that is
\* back at the guards has none.
Placed(s) ==
  /\ s.floor = 0 \/ s.floor > M
  /\ s.mode = "guards" => s.at = M /\ s.floor = 0
  /\ s.mode \in {"down", "busy", "catch"} => s.floor < s.at
  /\ s.mode \in {"busy", "catch"} => s.at = Bottom
  /\ s.mode = "up" => s.floor <= s.at /\ s.at < Bottom

\* What is known of the guards: nothing above them, the first k while they are
\* asked, all of them below.
Vetted(s) ==
  /\ s.mode = "guards" => \E k \in 0..G : s.allowed = 1..k
  /\ s.mode # "guards" => s.allowed = IF s.at > M THEN 1..G ELSE {}

\* What a layer can be given: on the full path no error but a filter's, and of
\* the filters' responses those of the chosen one.
Filtered(by) == by \in Levels \cup {"default"} => by = ChosenFilter(route)
Contained(out) ==
  /\ ~route.fast /\ ~out.ok => out.by \notin {"params", "handler", "result"}
  /\ Filtered(out.by)
Caught(s) == /\ s.mode = "catch" => ~route.fast
             /\ s.mode = "up" => Contained(s.out) /\ s.out # Pending
             /\ Filtered(s.out.by)

Good(s) == s \in Strands /\ Placed(s) /\ Vetted(s) /\ Caught(s)

\* One strand, without a floor, stands between the beginning and the answer.
OneMain ==
  /\ \A s, t \in strands : s.floor = 0 /\ t.floor = 0 => s = t
  /\ span = "unset" \/ answer # "none" => \A s \in strands : s.floor # 0
  /\ span = "unset" => strands = {} /\ answer = "none"
  /\ answer = "none" => records = <<>> /\ span \in {"unset", "none", "open"}

IInv == RequestTypeOK /\ OneMain /\ Filtered(answer) /\ \A s \in strands : Good(s)

-----------------------------------------------------------------------------
\* The numbers of a route are what the proofs below need of it.
LEMMA RouteFacts ==
  ASSUME route \in Routes
  PROVE  /\ M \in Nat /\ G \in 0..MaxGuards /\ Bottom \in Nat /\ M < Bottom
         /\ route.fast \in BOOLEAN
<1>1. /\ route.middleware \in Nat /\ route.guards \in 0..MaxGuards
      /\ route.fast \in BOOLEAN
      /\ route.interceptors \in UNION {[1..n -> Kinds] : n \in 0..MaxInterceptors}
  BY BoundsAssumption DEF Routes
<1>2. route.interceptors \in Seq(Kinds)
  BY <1>1, BoundsAssumption, SeqDef
<1>3. Len(route.interceptors) \in Nat
  BY <1>2, LenProperties
<1> QED BY <1>1, <1>3 DEF M, G, Bottom

\* A TimeoutInterceptor is below the guards.
LEMMA TimeoutPlace ==
  ASSUME route \in Routes, NEW p, IsTimeout(p)
  PROVE  p \in (M + 1)..(Bottom - 1)
BY DEF IsTimeout, M

\* The fields of a strand, and of a strand that moves on.
Modes == {"down", "guards", "busy", "catch", "up"}

LEMMA StrandFields ==
  ASSUME NEW s \in Strands
  PROVE  /\ s.at \in 0..Bottom /\ s.mode \in Modes /\ s.out \in Outcomes
         /\ s.allowed \in SUBSET (1..MaxGuards) /\ s.floor \in 0..Bottom
BY DEF Strands, Modes

LEMMA StrandAt ==
  ASSUME NEW s, s.floor \in 0..Bottom, NEW at \in 0..Bottom, NEW mode \in Modes,
         NEW out \in Outcomes, NEW allowed \in SUBSET (1..MaxGuards)
  PROVE  LET t == At(s, at, mode, out, allowed)
         IN /\ t \in Strands /\ t.at = at /\ t.mode = mode /\ t.out = out
            /\ t.allowed = allowed /\ t.floor = s.floor
BY DEF At, Strands, Modes

\* What the layers and the guards make themselves is no filter's response.
LEMMA OwnOutcomes ==
  /\ Pending \in Outcomes /\ Filtered(Pending.by)
  /\ \A m \in {"handler", "layer", "forbidden"} :
       /\ Response(m) \in Outcomes /\ Response(m) # Pending
       /\ Contained(Response(m))
  /\ \A t \in {"layer", "guard", "timeout", "filter"} :
       /\ Error(t) \in Outcomes /\ Error(t) # Pending
       /\ Contained(Error(t))
<1>1. Pending \in Outcomes /\ Filtered(Pending.by)
  BY DEF Pending, Outcomes, Filtered, Levels
<1>2. ASSUME NEW m \in {"handler", "layer", "forbidden"}
      PROVE  /\ Response(m) \in Outcomes /\ Response(m) # Pending
             /\ Contained(Response(m))
  <2>1. Response(m).ok = TRUE /\ Response(m).by = m /\ Pending.by = "pending"
    BY DEF Response, Pending
  <2>2. Response(m) \in Outcomes
    BY DEF Outcomes, Makers
  <2> QED BY <2>1, <2>2 DEF Contained, Filtered, Levels
<1>3. ASSUME NEW t \in {"layer", "guard", "timeout", "filter"}
      PROVE  /\ Error(t) \in Outcomes /\ Error(t) # Pending
             /\ Contained(Error(t))
  <2>1. Error(t).ok = FALSE /\ Error(t).by = t /\ Pending.by = "pending"
    BY DEF Error, Pending
  <2>2. Error(t) \in Outcomes
    BY DEF Outcomes, Throwers
  <2> QED BY <2>1, <2>2 DEF Contained, Filtered, Levels
<1> QED BY <1>1, <1>2, <1>3

\* The first strand.
LEMMA FirstGood ==
  ASSUME route \in Routes
  PROVE  Good(Descend(First, 0)) /\ Descend(First, 0).floor = 0
<1> DEFINE t == Descend(First, 0)
<1>1. /\ Pending \in Outcomes /\ {} = 1..0
      /\ 0 \in 0..Bottom /\ 1 \in 0..Bottom /\ "guards" \in Modes /\ "down" \in Modes
  BY RouteFacts, OwnOutcomes DEF Modes
<1>2. /\ First.allowed = {} /\ First.floor = 0 /\ First.floor \in 0..Bottom
      /\ {} \in SUBSET (1..MaxGuards)
  BY <1>1 DEF First
<1>3. CASE M = 0
  <2>1. t = At(First, 0, "guards", Pending, First.allowed)
    BY <1>3 DEF Descend, M
  <2>2. /\ t \in Strands /\ t.at = 0 /\ t.mode = "guards" /\ t.allowed = {}
        /\ t.floor = 0 /\ t.out = Pending
    BY <1>1, <1>2, <2>1, StrandAt
  <2> HIDE DEF t
  <2>3. Placed(t) /\ Caught(t)
    BY <1>3, <2>2, OwnOutcomes DEF Placed, Caught
  <2>4. Vetted(t)
    BY <1>1, <2>2, RouteFacts DEF Vetted
  <2> QED BY <2>2, <2>3, <2>4 DEF Good, t
<1>4. CASE M # 0
  <2>1. t = At(First, 1, "down", Pending, First.allowed)
    BY <1>4 DEF Descend, M
  <2>2. /\ t \in Strands /\ t.at = 1 /\ t.mode = "down" /\ t.allowed = {}
        /\ t.floor = 0 /\ t.out = Pending
    BY <1>1, <1>2, <2>1, StrandAt
  <2> HIDE DEF t
  <2>3. Placed(t) /\ Caught(t)
    BY <2>2, OwnOutcomes DEF Placed, Caught
  <2>4. Vetted(t)
    BY <1>4, <2>2, RouteFacts DEF Vetted
  <2> QED BY <2>2, <2>3, <2>4 DEF Good, t
<1> QED BY <1>3, <1>4

\* A strand whose layer at p calls next() is well placed again.
LEMMA DescendGood ==
  ASSUME route \in Routes, NEW s, Good(s), NEW p \in 0..(Bottom - 1),
         s.floor <= p, s.mode # "guards", s.at = p
  PROVE  Good(Descend(s, p)) /\ Descend(s, p).floor = s.floor
<1> DEFINE t == Descend(s, p)
<1>1. /\ s \in Strands /\ Placed(s) /\ Vetted(s) /\ s.floor \in 0..Bottom
      /\ s.allowed \in SUBSET (1..MaxGuards) /\ Pending \in Outcomes /\ {} = 1..0 /\ "guards" \in Modes /\ "down" \in Modes
      /\ p \in 0..Bottom /\ p + 1 \in 0..Bottom
  BY RouteFacts, StrandFields, OwnOutcomes DEF Good, Modes
<1>2. CASE p = M
  <2>1. t = At(s, p, "guards", Pending, s.allowed)
    BY <1>2 DEF Descend, M
  <2>2. /\ t \in Strands /\ t.at = p /\ t.mode = "guards" /\ t.floor = s.floor
        /\ t.allowed = s.allowed /\ t.out = Pending
    BY <1>1, <2>1, StrandAt
  <2>3. s.floor = 0 /\ s.allowed = {}
    BY <1>1, <1>2, RouteFacts DEF Placed, Vetted
  <2>4. Placed(t) /\ Vetted(t) /\ Caught(t)
    BY <1>1, <1>2, <2>2, <2>3, RouteFacts, OwnOutcomes DEF Placed, Vetted, Caught
  <2> QED BY <2>2, <2>4 DEF Good
<1>3. CASE p # M
  <2>1. t = At(s, p + 1, "down", Pending, s.allowed)
    BY <1>3 DEF Descend, M
  <2>2. /\ t \in Strands /\ t.at = p + 1 /\ t.mode = "down" /\ t.floor = s.floor
        /\ t.allowed = s.allowed /\ t.out = Pending
    BY <1>1, <2>1, StrandAt
  <2>3. s.allowed = IF p + 1 > M THEN 1..G ELSE {}
    BY <1>1, <1>3, RouteFacts DEF Vetted
  <2>4. s.floor < p + 1 /\ (s.floor = 0 \/ s.floor > M)
    BY <1>1, RouteFacts DEF Placed
  <2> QED BY <2>2, <2>3, <2>4, OwnOutcomes DEF Good, Placed, Vetted, Caught
<1> QED BY <1>2, <1>3

\* A strand whose layer at p settles is well placed again, above it.
LEMMA AscendGood ==
  ASSUME route \in Routes, NEW s, Good(s), NEW p \in 1..Bottom, NEW out \in Outcomes,
         s.floor < p, Contained(out), out # Pending,
         (s.mode # "guards" /\ p <= s.at) \/ (s.mode = "guards" /\ p = s.at + 1)
  PROVE  Good(Ascend(s, p, out)) /\ Ascend(s, p, out).floor = s.floor
<1> DEFINE t == Ascend(s, p, out)
           left == IF p - 1 > M THEN s.allowed ELSE {}
<1>1. /\ s \in Strands /\ Placed(s) /\ Vetted(s)
      /\ s.at \in 0..Bottom /\ s.floor \in 0..Bottom
  BY StrandFields DEF Good
<1>2. p - 1 > M => s.mode # "guards" /\ s.allowed = 1..G
  BY <1>1, RouteFacts DEF Placed, Vetted
<1>3. t = At(s, p - 1, "up", out, left)
  BY DEF Ascend, M
<1>4. p - 1 \in 0..Bottom /\ "up" \in Modes /\ left \in SUBSET (1..MaxGuards)
  BY <1>1, RouteFacts, StrandFields DEF Modes
<1> HIDE DEF left
<1>5. /\ t \in Strands /\ t.at = p - 1 /\ t.mode = "up" /\ t.out = out
      /\ t.floor = s.floor /\ t.allowed = left
  BY <1>1, <1>3, <1>4, StrandAt
<1>6. s.floor <= p - 1 /\ p - 1 < Bottom /\ (s.floor = 0 \/ s.floor > M)
  BY <1>1, RouteFacts DEF Placed
<1>7. Placed(t) /\ Vetted(t) /\ Caught(t)
  BY <1>2, <1>5, <1>6 DEF Placed, Vetted, Caught, Contained, left
<1> QED BY <1>5, <1>7 DEF Good

-----------------------------------------------------------------------------
\* The last element of a concatenation.
LEMMA LastOfConcat ==
  ASSUME NEW a \in Seq(Levels), NEW b \in Seq(Levels)
  PROVE  /\ a \o b \in Seq(Levels) /\ Len(a \o b) = Len(a) + Len(b)
         /\ Len(a) \in Nat /\ Len(b) \in Nat
         /\ Len(b) > 0 => (a \o b)[Len(a \o b)] = b[Len(b)]
         /\ Len(b) = 0 => (a \o b)[Len(a \o b)] = a[Len(a)] \/ Len(a) = 0
<1>1. /\ a \o b \in Seq(Levels) /\ Len(a \o b) = Len(a) + Len(b)
      /\ Len(a) \in Nat /\ Len(b) \in Nat
      /\ \A i \in 1..(Len(a) + Len(b)) :
           (a \o b)[i] = IF i <= Len(a) THEN a[i] ELSE b[i - Len(a)]
  BY ConcatProperties, LenProperties
<1>2. Len(b) > 0 => (a \o b)[Len(a \o b)] = b[Len(b)]
  BY <1>1
<1>3. Len(b) = 0 => (a \o b)[Len(a \o b)] = a[Len(a)] \/ Len(a) = 0
  BY <1>1
<1> QED BY <1>1, <1>2, <1>3

\* The last of the merged filters is the most specific level's.
LEMMA ChosenIsMostSpecific ==
  ChosenFilter(route) = IF "route" \in route.filters THEN "route"
                        ELSE IF "controller" \in route.filters THEN "controller"
                        ELSE IF "global" \in route.filters THEN "global" ELSE "default"
<1> DEFINE g == FiltersAt(route, "global")
           c == FiltersAt(route, "controller")
           r == FiltersAt(route, "route")
           gc == g \o c
           all == gc \o r
<1>1. \A l \in Levels :
        /\ FiltersAt(route, l) \in Seq(Levels)
        /\ l \in route.filters => Len(FiltersAt(route, l)) = 1 /\ FiltersAt(route, l)[1] = l
        /\ l \notin route.filters => Len(FiltersAt(route, l)) = 0
  BY DEF FiltersAt
<1>2. /\ g \in Seq(Levels) /\ c \in Seq(Levels) /\ r \in Seq(Levels)
      /\ Len(g) = IF "global" \in route.filters THEN 1 ELSE 0
      /\ Len(c) = IF "controller" \in route.filters THEN 1 ELSE 0
      /\ Len(r) = IF "route" \in route.filters THEN 1 ELSE 0
      /\ "global" \in route.filters => g[1] = "global"
      /\ "controller" \in route.filters => c[1] = "controller"
      /\ "route" \in route.filters => r[1] = "route"
  BY <1>1 DEF Levels
<1>3. MergedFilters(route) = all
  BY DEF MergedFilters
<1> HIDE DEF g, c, r
<1>4. /\ gc \in Seq(Levels) /\ Len(gc) = Len(g) + Len(c)
      /\ Len(c) > 0 => gc[Len(gc)] = c[Len(c)]
      /\ Len(c) = 0 => gc[Len(gc)] = g[Len(g)] \/ Len(g) = 0
  BY <1>2, LastOfConcat
<1> HIDE DEF gc
<1>5. /\ all \in Seq(Levels) /\ Len(all) = Len(gc) + Len(r)
      /\ Len(r) > 0 => all[Len(all)] = r[Len(r)]
      /\ Len(r) = 0 => all[Len(all)] = gc[Len(gc)] \/ Len(gc) = 0
  BY <1>2, <1>4, LastOfConcat
<1> HIDE DEF all
<1>6. all = <<>> <=> Len(all) = 0
  BY <1>5, EmptySeq
<1>7. ChosenFilter(route) = IF Len(all) = 0 THEN "default" ELSE all[Len(all)]
  BY <1>3, <1>6 DEF ChosenFilter
<1>8. CASE "route" \in route.filters
  BY <1>2, <1>4, <1>5, <1>7, <1>8
<1>9. CASE "route" \notin route.filters /\ "controller" \in route.filters
  <2>1. Len(r) = 0 /\ Len(c) = 1 /\ Len(gc) # 0 /\ Len(all) = Len(gc)
    BY <1>2, <1>4, <1>5, <1>9
  <2>2. all[Len(all)] = "controller"
    BY <1>2, <1>4, <1>5, <1>9, <2>1
  <2> QED BY <1>2, <1>7, <1>9, <2>1, <2>2
<1>10. CASE /\ "route" \notin route.filters /\ "controller" \notin route.filters
            /\ "global" \in route.filters
  <2>1. /\ Len(r) = 0 /\ Len(c) = 0 /\ Len(g) = 1 /\ Len(gc) = 1 /\ Len(all) = 1
    BY <1>2, <1>4, <1>5, <1>10
  <2>2. all[Len(all)] = "global"
    BY <1>2, <1>4, <1>5, <1>10, <2>1
  <2> QED BY <1>2, <1>7, <1>10, <2>1, <2>2
<1>11. CASE /\ "route" \notin route.filters /\ "controller" \notin route.filters
            /\ "global" \notin route.filters
  BY <1>2, <1>4, <1>5, <1>7, <1>11
<1> QED BY <1>8, <1>9, <1>10, <1>11

\* The response of the filter that is picked.
LEMMA FilterOutcome ==
  LET out == Response(ChosenFilter(route))
  IN out \in Outcomes /\ out # Pending /\ Contained(out)
<1> DEFINE out == Response(ChosenFilter(route))
<1>1. ChosenFilter(route) \in Levels \cup {"default"}
  BY ChosenIsMostSpecific DEF Levels
<1>2. out.ok = TRUE /\ out.by = ChosenFilter(route) /\ Pending.by = "pending"
  BY DEF Response, Pending
<1>3. out \in Outcomes
  BY <1>1 DEF Outcomes, Makers, Levels
<1>4. out # Pending
  BY <1>1, <1>2 DEF Levels
<1> QED BY <1>2, <1>3, <1>4 DEF Contained, Filtered

-----------------------------------------------------------------------------
LEMMA InitIInv == Init => IInv
<1> SUFFICES ASSUME Init PROVE IInv
  OBVIOUS
<1>1. RequestTypeOK
  BY BoundsAssumption DEF Init, RequestTypeOK
<1>2. OneMain
  BY DEF Init, OneMain
<1>3. Filtered(answer) /\ \A s \in strands : Good(s)
  BY DEF Init, Filtered, Levels
<1> QED BY <1>1, <1>2, <1>3 DEF IInv

\* What is good stays good: it depends on the route alone.
LEMMA GoodStays ==
  ASSUME NEW t, Good(t), route' = route
  PROVE  Good(t)'
BY DEF Good, Strands, Placed, Vetted, Caught, Contained, Filtered, ChosenFilter,
       MergedFilters, FiltersAt, Bottom, M, G

\* A strand makes a step on its own.
LEMMA ReplaceStep ==
  ASSUME IInv, NEW s \in strands, NEW t, Good(t), t.floor = s.floor, Replace(s, t),
         again' \in 0..MaxAgain
  PROVE  IInv'
<1>1. \A u \in strands' : Good(u) /\ (u = t \/ u \in strands)
  BY DEF Replace, IInv
<1>2. \A u \in strands' : Good(u)'
  BY <1>1, GoodStays DEF Replace
<1>3. RequestTypeOK'
  <2>1. strands' \subseteq Strands /\ Strands' = Strands
    BY <1>1 DEF Good, Replace, Strands, Bottom
  <2> QED BY <2>1 DEF IInv, RequestTypeOK, Replace, Routes
<1>4. OneMain'
  <2>1. /\ \A u, v \in strands' : u.floor = 0 /\ v.floor = 0 => u = v
        /\ s.floor # 0 => \A u \in strands' : u.floor = 0 => u \in strands
    BY DEF IInv, OneMain, Replace
  <2>2. span # "unset" /\ (answer # "none" => s.floor # 0)
    BY DEF IInv, OneMain
  <2> QED BY <2>1, <2>2 DEF IInv, OneMain, Replace
<1>5. Filtered(answer)'
  BY DEF IInv, Replace, Filtered, ChosenFilter, MergedFilters, FiltersAt
<1> QED BY <1>2, <1>3, <1>4, <1>5 DEF IInv

\* What IInv says of one strand.
LEMMA StrandFacts ==
  ASSUME IInv, NEW s \in strands
  PROVE  /\ route \in Routes /\ Good(s) /\ s \in Strands /\ Placed(s) /\ Vetted(s)
         /\ Caught(s) /\ again \in 0..MaxAgain /\ again \in Nat
         /\ s.at \in 0..Bottom /\ s.floor \in 0..Bottom /\ s.mode \in Modes
         /\ s.out \in Outcomes /\ s.allowed \in SUBSET (1..MaxGuards)
BY StrandFields, BoundsAssumption DEF IInv, RequestTypeOK, Good

LEMMA AskGuardStep ==
  ASSUME IInv, NEW s \in strands, AskGuard(s)
  PROVE  IInv'
<1>1. /\ s.mode = "guards" /\ s.allowed # 1..G /\ again' = again
  BY DEF AskGuard, G
<1>2. s.at = M /\ s.floor = 0 /\ M + 1 \in 1..Bottom
  BY <1>1, StrandFacts, RouteFacts DEF Placed
<1>3. PICK k \in 0..G : s.allowed = 1..k
  BY <1>1, StrandFacts DEF Vetted
<1>4. /\ k \in Nat /\ k < G /\ Cardinality(s.allowed) = k
      /\ G \in Nat /\ G <= MaxGuards /\ MaxGuards \in Nat
  <2>1. G \in Nat /\ G <= MaxGuards /\ MaxGuards \in Nat
    BY StrandFacts, RouteFacts, BoundsAssumption
  <2>2. k \in Nat /\ k <= G /\ k # G
    BY <1>1, <1>3, <2>1
  <2>3. Cardinality(1..k) = IF 1 > k THEN 0 ELSE k - 1 + 1
    BY <2>2, FS_Interval
  <2> QED BY <1>3, <2>1, <2>2, <2>3
<1>5. CASE Replace(s, At(s, s.at, "guards", Pending, s.allowed \cup {Cardinality(s.allowed) + 1}))
  <2> DEFINE t == At(s, s.at, "guards", Pending, s.allowed \cup {k + 1})
  <2>1. s.allowed \cup {k + 1} = 1..(k + 1) /\ k + 1 \in 0..G
    BY <1>3, <1>4
  <2>2. s.allowed \cup {k + 1} \in SUBSET (1..MaxGuards)
    BY <1>4, <2>1
  <2>3. /\ t \in Strands /\ t.at = s.at /\ t.mode = "guards" /\ t.out = Pending
        /\ t.allowed = 1..(k + 1) /\ t.floor = s.floor
    <3>1. /\ s.floor \in 0..Bottom /\ s.at \in 0..Bottom /\ "guards" \in Modes
          /\ Pending \in Outcomes
      BY StrandFacts, OwnOutcomes DEF Modes
    <3> DEFINE a == s.allowed \cup {k + 1}
    <3>2. a \in SUBSET (1..MaxGuards) /\ a = 1..(k + 1)
      BY <2>1, <2>2
    <3> HIDE DEF a
    <3>3. LET u == At(s, s.at, "guards", Pending, a)
          IN /\ u \in Strands /\ u.at = s.at /\ u.mode = "guards" /\ u.out = Pending
             /\ u.allowed = a /\ u.floor = s.floor
      BY <3>1, <3>2, StrandAt
    <3> QED BY <3>2, <3>3 DEF a
  <2> HIDE DEF t
  <2>4. Good(t)
    BY <1>2, <2>1, <2>3, OwnOutcomes DEF Good, Placed, Vetted, Caught
  <2>5. Replace(s, t)
    BY <1>4, <1>5 DEF t
  <2> QED BY <1>1, <2>3, <2>4, <2>5, ReplaceStep, StrandFacts
<1>6. ASSUME NEW out \in {Response("forbidden"), Error("guard")},
             Replace(s, Ascend(s, s.at + 1, out))
      PROVE  IInv'
  <2>1. out \in Outcomes /\ Contained(out) /\ out # Pending
    BY <1>6, OwnOutcomes
  <2>2. Good(Ascend(s, s.at + 1, out)) /\ Ascend(s, s.at + 1, out).floor = s.floor
    BY <1>1, <1>2, <2>1, StrandFacts, RouteFacts, AscendGood
  <2> QED BY <1>1, <1>6, <2>2, ReplaceStep, StrandFacts
<1> QED BY <1>5, <1>6 DEF AskGuard

LEMMA PassGuardsStep ==
  ASSUME IInv, NEW s \in strands, PassGuards(s)
  PROVE  IInv'
<1> DEFINE t == At(s, s.at + 1, "down", Pending, s.allowed)
<1>1. /\ s.mode = "guards" /\ s.allowed = 1..G /\ again' = again /\ Replace(s, t)
  BY DEF PassGuards, Admitted, G
<1>2. s.at = M /\ s.floor = 0 /\ M + 1 \in 0..Bottom
  BY <1>1, StrandFacts, RouteFacts DEF Placed
<1>3. /\ t \in Strands /\ t.at = M + 1 /\ t.mode = "down" /\ t.out = Pending
      /\ t.allowed = 1..G /\ t.floor = s.floor
  BY <1>1, <1>2, StrandFacts, OwnOutcomes, StrandAt DEF Modes
<1> HIDE DEF t
<1>4. Good(t)
  BY <1>2, <1>3, StrandFacts, RouteFacts, OwnOutcomes DEF Good, Placed, Vetted, Caught
<1> QED BY <1>1, <1>3, <1>4, ReplaceStep, StrandFacts

LEMMA EnterLayerStep ==
  ASSUME IInv, NEW s \in strands, EnterLayer(s)
  PROVE  IInv'
<1>1. /\ s.mode = "down" /\ s.at \in 0..(Bottom - 1) /\ again' = again
      /\ s.floor < s.at /\ s.at \in 1..Bottom
  BY StrandFacts, RouteFacts DEF EnterLayer, Placed
<1>2. CASE Replace(s, Descend(s, s.at))
  <2>1. Good(Descend(s, s.at)) /\ Descend(s, s.at).floor = s.floor
    BY <1>1, StrandFacts, DescendGood
  <2> QED BY <1>1, <1>2, <2>1, ReplaceStep, StrandFacts
<1>3. ASSUME NEW out \in {Response("layer"), Error("layer")},
             Replace(s, Ascend(s, s.at, out))
      PROVE  IInv'
  <2>1. out \in Outcomes /\ Contained(out) /\ out # Pending
    BY <1>3, OwnOutcomes
  <2>2. Good(Ascend(s, s.at, out)) /\ Ascend(s, s.at, out).floor = s.floor
    <3>1. /\ s.mode # "guards" /\ s.at <= s.at /\ s.at \in 1..Bottom
          /\ s.floor < s.at /\ route \in Routes /\ Good(s)
      BY <1>1, StrandFacts
    <3> QED BY <2>1, <3>1, AscendGood
  <2> QED BY <1>1, <1>3, <2>2, ReplaceStep, StrandFacts
<1> QED BY <1>2, <1>3 DEF EnterLayer

LEMMA LeaveLayerStep ==
  ASSUME IInv, NEW s \in strands, LeaveLayer(s)
  PROVE  IInv'
<1>1. /\ s.mode = "up" /\ s.at \in 0..(Bottom - 1) /\ s.floor < s.at
      /\ s.at \in 1..Bottom
  BY StrandFacts, RouteFacts DEF LeaveLayer, Placed
<1>2. ASSUME NEW out \in {s.out, Response("layer"), Error("layer")},
             Replace(s, Ascend(s, s.at, out)), again' = again
      PROVE  IInv'
  <2>1. out \in Outcomes /\ Contained(out) /\ out # Pending
    BY <1>1, <1>2, StrandFacts, OwnOutcomes DEF Caught
  <2>2. Good(Ascend(s, s.at, out)) /\ Ascend(s, s.at, out).floor = s.floor
    <3>1. /\ s.mode # "guards" /\ s.at <= s.at /\ s.at \in 1..Bottom
          /\ s.floor < s.at /\ route \in Routes /\ Good(s)
      BY <1>1, StrandFacts
    <3> QED BY <2>1, <3>1, AscendGood
  <2> QED BY <1>2, <2>2, ReplaceStep, StrandFacts
<1>3. CASE again < MaxAgain /\ again' = again + 1 /\ Replace(s, Descend(s, s.at))
  <2>1. Good(Descend(s, s.at)) /\ Descend(s, s.at).floor = s.floor
    BY <1>1, StrandFacts, DescendGood
  <2>2. again' \in 0..MaxAgain
    BY <1>3, StrandFacts, BoundsAssumption
  <2> QED BY <1>3, <2>1, <2>2, ReplaceStep
<1> QED BY <1>2, <1>3 DEF LeaveLayer

\* An error in the handler's place, to the layers or to a filter.
LEMMA FailGood ==
  ASSUME IInv, NEW s \in strands, s.at = Bottom, s.mode \in {"down", "busy"},
         NEW t \in {"params", "handler", "result"}
  PROVE  Good(Fail(s, t)) /\ Fail(s, t).floor = s.floor
<1>1. /\ Error(t) \in Outcomes /\ Error(t) # Pending /\ Filtered(Error(t).by)
  BY DEF Error, Outcomes, Throwers, Pending, Filtered, Levels
<1>2. /\ s.floor < s.at /\ s.at \in 1..Bottom /\ s.mode # "guards" /\ s.at <= s.at
      /\ route \in Routes /\ Good(s)
  BY StrandFacts, RouteFacts DEF Placed
<1>3. CASE route.fast
  <2>1. Contained(Error(t))
    BY <1>1, <1>3 DEF Contained
  <2>2. Good(Ascend(s, s.at, Error(t))) /\ Ascend(s, s.at, Error(t)).floor = s.floor
    BY <1>1, <1>2, <2>1, AscendGood
  <2> QED BY <1>3, <2>2 DEF Fail
<1>4. CASE ~route.fast
  <2> DEFINE u == At(s, s.at, "catch", Error(t), s.allowed)
  <2>1. /\ u \in Strands /\ u.at = s.at /\ u.mode = "catch" /\ u.out = Error(t)
        /\ u.allowed = s.allowed /\ u.floor = s.floor
    BY <1>1, StrandFacts, StrandAt DEF Modes
  <2> HIDE DEF u
  <2>2. Good(u)
    BY <1>1, <1>2, <1>4, <2>1, StrandFacts DEF Good, Placed, Vetted, Caught
  <2> QED BY <1>4, <2>1, <2>2 DEF Fail, u
<1> QED BY <1>3, <1>4

LEMMA CallHandlerStep ==
  ASSUME IInv, NEW s \in strands, CallHandler(s)
  PROVE  IInv'
<1>1. s.mode = "down" /\ s.at = Bottom /\ again' = again
  BY DEF CallHandler
<1>2. CASE Replace(s, At(s, s.at, "busy", Pending, s.allowed))
  <2> DEFINE u == At(s, s.at, "busy", Pending, s.allowed)
  <2>1. /\ u \in Strands /\ u.at = s.at /\ u.mode = "busy" /\ u.out = Pending
        /\ u.allowed = s.allowed /\ u.floor = s.floor
    BY OwnOutcomes, StrandFacts, StrandAt DEF Modes
  <2> HIDE DEF u
  <2>2. Good(u)
    BY <1>1, <2>1, StrandFacts, OwnOutcomes DEF Good, Placed, Vetted, Caught
  <2>3. Replace(s, u)
    BY <1>2 DEF u
  <2> QED BY <1>1, <2>1, <2>2, <2>3, ReplaceStep, StrandFacts
<1>3. CASE Replace(s, Fail(s, "params"))
  BY <1>1, <1>3, FailGood, ReplaceStep, StrandFacts
<1> QED BY <1>2, <1>3 DEF CallHandler

LEMMA HandlerSettlesStep ==
  ASSUME IInv, NEW s \in strands, HandlerSettles(s)
  PROVE  IInv'
<1>1. s.mode = "busy" /\ again' = again
  BY DEF HandlerSettles
<1>2. /\ s.floor < s.at /\ s.at = Bottom /\ s.at \in 1..Bottom /\ s.mode # "guards"
      /\ s.at <= s.at /\ route \in Routes /\ Good(s)
  BY <1>1, StrandFacts, RouteFacts DEF Placed
<1>3. CASE Replace(s, Ascend(s, s.at, Response("handler")))
  <2>1. /\ Good(Ascend(s, s.at, Response("handler")))
        /\ Ascend(s, s.at, Response("handler")).floor = s.floor
    BY <1>2, OwnOutcomes, AscendGood
  <2> QED BY <1>1, <1>3, <2>1, ReplaceStep, StrandFacts
<1>4. ASSUME NEW t \in {"handler", "result"}, Replace(s, Fail(s, t))
      PROVE  IInv'
  <2>1. Good(Fail(s, t)) /\ Fail(s, t).floor = s.floor
    BY <1>1, <1>2, FailGood
  <2> QED BY <1>1, <1>4, <2>1, ReplaceStep, StrandFacts
<1> QED BY <1>3, <1>4 DEF HandlerSettles

LEMMA CatchStep ==
  ASSUME IInv, NEW s \in strands, Catch(s)
  PROVE  IInv'
<1>1. s.mode = "catch" /\ again' = again
  BY DEF Catch
<1>2. /\ s.floor < s.at /\ s.at \in 1..Bottom /\ s.mode # "guards"
      /\ s.at <= s.at /\ route \in Routes /\ Good(s)
  BY <1>1, StrandFacts, RouteFacts DEF Placed
<1>3. ASSUME NEW out \in {Response(ChosenFilter(route)), Error("filter")},
             Replace(s, Ascend(s, s.at, out))
      PROVE  IInv'
  <2>1. out \in Outcomes /\ Contained(out) /\ out # Pending
    BY <1>3, FilterOutcome, OwnOutcomes
  <2>2. Good(Ascend(s, s.at, out)) /\ Ascend(s, s.at, out).floor = s.floor
    BY <1>2, <2>1, AscendGood
  <2> QED BY <1>1, <1>3, <2>2, ReplaceStep, StrandFacts
<1> QED BY <1>3 DEF Catch

\* The race is lost: the strand goes on without a floor above the interceptor,
\* the strand it awaited has the interceptor for its floor.
LEMMA ExpireStep ==
  ASSUME IInv, NEW s \in strands, NEW p \in 1..Bottom, Expire(s, p)
  PROVE  IInv'
<1> DEFINE up == Ascend(s, p, Error("timeout"))
           low == [s EXCEPT !.floor = p]
<1>1. /\ p \in (M + 1)..(Bottom - 1) /\ s.floor < p /\ p < s.at
      /\ route \in Routes /\ Good(s) /\ p \in 0..Bottom /\ s.mode # "guards"
  BY StrandFacts, RouteFacts, TimeoutPlace DEF Expire, Placed
<1>2. Good(up) /\ up.floor = s.floor
  BY <1>1, StrandFacts, RouteFacts, OwnOutcomes, AscendGood
<1>3. /\ low \in Strands /\ low.at = s.at /\ low.mode = s.mode /\ low.out = s.out
      /\ low.allowed = s.allowed /\ low.floor = p
  BY <1>1, StrandFacts DEF Strands
<1> HIDE DEF up, low
<1>4. Good(low)
  BY <1>1, <1>3, StrandFacts, RouteFacts DEF Good, Placed, Vetted, Caught
<1>5. /\ strands' = (strands \ {s}) \cup {up, low}
      /\ UNCHANGED <<route, again, span, answer, records>>
  BY DEF Expire, up, low
<1>6. \A u \in strands' : Good(u) /\ Good(u)'
  BY <1>2, <1>4, <1>5, GoodStays DEF IInv
<1>7. RequestTypeOK'
  <2>1. strands' \subseteq Strands /\ Strands' = Strands
    BY <1>5, <1>6 DEF Good, Strands, Bottom
  <2> QED BY <1>5, <2>1 DEF IInv, RequestTypeOK, Routes
<1>8. OneMain'
  <2>1. low.floor # 0
    BY <1>1, <1>3, RouteFacts
  <2> QED BY <1>2, <1>5, <2>1 DEF IInv, OneMain
<1>9. Filtered(answer)'
  BY <1>5 DEF IInv, Filtered, ChosenFilter, MergedFilters, FiltersAt
<1> QED BY <1>6, <1>7, <1>8, <1>9 DEF IInv

LEMMA DropStep ==
  ASSUME IInv, NEW s \in strands, Drop(s)
  PROVE  IInv'
<1>1. /\ strands' = strands \ {s}
      /\ UNCHANGED <<route, again, span, answer, records>>
  BY DEF Drop
<1>2. \A u \in strands' : Good(u)'
  BY <1>1, GoodStays DEF IInv
<1>3. RequestTypeOK'
  BY <1>1 DEF IInv, RequestTypeOK, Strands, Bottom, Routes
<1>4. OneMain'
  BY <1>1 DEF IInv, OneMain
<1>5. Filtered(answer)'
  BY <1>1 DEF IInv, Filtered, ChosenFilter, MergedFilters, FiltersAt
<1> QED BY <1>2, <1>3, <1>4, <1>5 DEF IInv

\* What Answer finds, and what it sends: a response of a layer, of the handler
\* or of a filter, or the catch-all's.
LEMMA AnswerFacts ==
  ASSUME IInv, NEW s \in strands, Answer(s)
  PROVE  /\ answer = "none" /\ records = <<>> /\ span \in {"none", "open"}
         /\ answer' \in Makers /\ records' = <<answer'>>
         /\ span' \in IF span = "open" THEN {"closed", "lost"} ELSE {span}
         /\ strands' = strands \ {s} /\ UNCHANGED <<route, again>>
         /\ s.floor = 0 /\ (answer' = s.out.by \/ answer' = "fallback")
<1>1. answer = "none" /\ records = <<>> /\ span \in {"none", "open"} /\ s.floor = 0
  BY DEF IInv, OneMain, Answer
<1>2. s.mode = "up" /\ s.out \in Outcomes /\ s.out # Pending
  BY StrandFacts DEF Answer, Caught
<1>3. s.out.ok => s.out.by \in Makers
  BY <1>2 DEF Outcomes, Response, Error, Pending
<1>4. /\ answer' = IF s.out.ok THEN s.out.by ELSE "fallback"
      /\ records' = Append(records, answer')
      /\ span' \in IF span = "open" THEN {"closed", "lost"} ELSE {span}
      /\ strands' = strands \ {s} /\ UNCHANGED <<route, again>>
  BY DEF Answer
<1>5. answer' \in Makers /\ (answer' = s.out.by \/ answer' = "fallback")
  BY <1>3, <1>4 DEF Makers
<1>6. records' = <<answer'>>
  BY <1>1, <1>4
<1> QED BY <1>1, <1>4, <1>5, <1>6

LEMMA AnswerStep ==
  ASSUME IInv, NEW s \in strands, Answer(s)
  PROVE  IInv'
<1>1. /\ strands' = strands \ {s} /\ UNCHANGED <<route, again>> /\ s.floor = 0
      /\ answer' \in Makers /\ records' = <<answer'>>
      /\ span \in {"none", "open"}
      /\ span' \in IF span = "open" THEN {"closed", "lost"} ELSE {span}
  BY AnswerFacts
<1>2. \A u \in strands' : Good(u)'
  BY <1>1, GoodStays DEF IInv
<1>3. RequestTypeOK'
  BY <1>1 DEF IInv, RequestTypeOK, Strands, Bottom, Routes
<1>4. OneMain'
  <2>1. answer' # "none" /\ span' # "unset"
    BY <1>1 DEF Makers, Levels
  <2>2. \A u \in strands' : u.floor # 0
    BY <1>1 DEF IInv, OneMain
  <2> QED BY <2>1, <2>2 DEF OneMain
<1>5. Filtered(answer)'
  <2>1. Filtered(s.out.by)
    BY StrandFacts DEF Caught
  <2>2. answer' = s.out.by \/ answer' = "fallback"
    BY AnswerFacts
  <2>3. route' = route
    BY <1>1
  <2> QED BY <2>1, <2>2, <2>3
           DEF Filtered, ChosenFilter, MergedFilters, FiltersAt, Levels
<1> QED BY <1>2, <1>3, <1>4, <1>5 DEF IInv

LEMMA BeginStep ==
  ASSUME IInv, Begin
  PROVE  IInv'
<1>1. /\ route \in Routes /\ answer = "none" /\ records = <<>> /\ span = "unset"
      /\ strands' = {Descend(First, 0)} /\ span' \in {"none", "open"}
      /\ UNCHANGED <<route, again, answer, records>>
  BY DEF IInv, RequestTypeOK, OneMain, Begin
<1> DEFINE t == Descend(First, 0)
<1>2. Good(t)
  BY <1>1, FirstGood
<1> HIDE DEF t
<1>3. strands' = {t}
  BY <1>1 DEF t
<1>4. \A u \in strands' : Good(u) /\ Good(u)'
  BY <1>1, <1>2, <1>3, GoodStays
<1>5. RequestTypeOK'
  <2>1. strands' \subseteq Strands /\ Strands' = Strands
    BY <1>1, <1>4 DEF Good, Strands, Bottom
  <2> QED BY <1>1, <2>1 DEF IInv, RequestTypeOK, Routes
<1>6. OneMain'
  <2>1. answer' = "none" /\ records' = <<>> /\ span' \in {"none", "open"}
    BY <1>1
  <2> QED BY <1>3, <2>1 DEF OneMain
<1>7. Filtered(answer)'
  BY <1>1 DEF Filtered, Levels
<1> QED BY <1>4, <1>5, <1>6, <1>7 DEF IInv

\* The invariant holds and stays.
THEOREM Invariance == Spec => []IInv
<1>1. IInv /\ [Next]_vars => IInv'
  <2> SUFFICES ASSUME IInv, [Next]_vars PROVE IInv'
    OBVIOUS
  <2>1. CASE Next
    BY <2>1, BeginStep, AskGuardStep, PassGuardsStep, EnterLayerStep, LeaveLayerStep,
       CallHandlerStep, HandlerSettlesStep, CatchStep, ExpireStep, DropStep, AnswerStep
       DEF Next
  <2>2. CASE UNCHANGED vars
    <3>1. \A u \in strands' : Good(u)'
      BY <2>2, GoodStays DEF IInv, vars
    <3> QED BY <2>2, <3>1 DEF IInv, RequestTypeOK, OneMain, Filtered, ChosenFilter,
               MergedFilters, FiltersAt, Strands, Bottom, Routes, vars
  <2> QED BY <2>1, <2>2
<1> QED BY InitIInv, <1>1, PTL DEF Spec

-----------------------------------------------------------------------------
\* What a handler is given, and the body: as long as that can be read no call has
\* had anything of it.
InputInv ==
  /\ InputTypeOK /\ AdmittedByParameters
  /\ body = "whole" => \A n \in DOMAIN calls : ~Holds(n)

\* The parameters of a route.
LEMMA SignatureFacts ==
  ASSUME route \in Routes, NEW whole \in BOOLEAN
  PROVE  \A k \in DOMAIN route.params : Value(route.params, k, whole) \in Values
<1>1. route.params \in Seq(Parameters)
  BY SignaturesAssumption DEF Routes
<1>2. \A k \in DOMAIN route.params : route.params[k] \in Parameters
  BY <1>1
<1> QED BY <1>2 DEF Value, Values, Parameters

\* A call that is not refused has what its handler requires; it has something of the
\* body only if that was whole, and it has read it then.
LEMMA NotRefused ==
  ASSUME route \in Routes, NEW whole \in BOOLEAN, ~Refused(route.params, whole),
         NEW k \in DOMAIN route.params
  PROVE  /\ Required(route.params[k]) => Value(route.params, k, whole) # "absent"
         /\ FromBody(k) /\ Value(route.params, k, whole) # "absent" =>
              whole /\ Reads(route.params, whole)
<1>1. ~Conflict(route.params) /\ ~Refuses(route.params, k, whole)
  BY DEF Refused
<1>2. Required(route.params[k]) => Value(route.params, k, whole) # "absent"
  BY <1>1 DEF Refuses
<1>3. FromBody(k) /\ Value(route.params, k, whole) # "absent" => whole
  BY DEF FromBody, Value
<1>4. FromBody(k) => Reads(route.params, whole)
  <2>1. CASE route.params[k].from \in FormData
    BY <1>1, <2>1 DEF Reads, TakesForm
  <2>2. CASE route.params[k].from = "body"
    <3>1. route.params \in Seq(Parameters)
      BY SignaturesAssumption DEF Routes
    <3>2. \A j \in 1..k - 1 : j \in DOMAIN route.params
      BY <3>1
    <3>3. \A j \in 1..k - 1 : ~Refuses(route.params, j, whole)
      BY <3>2 DEF Refused
    <3> QED BY <1>1, <2>2, <3>3 DEF Reads
  <2> QED BY <2>1, <2>2 DEF FromBody
<1> QED BY <1>2, <1>3, <1>4

LEMMA InputStays ==
  ASSUME InputInv, route' = route, UNCHANGED input
  PROVE  InputInv'
BY DEF InputInv, InputTypeOK, AdmittedByParameters, Holds, FromBody, input

LEMMA CallHandlerInput ==
  ASSUME IInv, InputInv, NEW s \in strands, CallHandler(s)
  PROVE  InputInv'
<1> DEFINE whole == body = "whole"
           args == [k \in DOMAIN route.params |-> Value(route.params, k, whole)]
<1>1. route \in Routes /\ whole \in BOOLEAN /\ route' = route
  BY DEF IInv, RequestTypeOK, CallHandler, Replace
<1>2. /\ body' = IF Reads(route.params, whole) THEN "read" ELSE body
      /\ Refused(route.params, whole) => calls' = calls
      /\ ~Refused(route.params, whole) => calls' = Append(calls, args)
  BY DEF CallHandler
<1>3. body \in {"whole", "read"} /\ calls \in Seq([DOMAIN route.params -> Values])
  BY DEF InputInv, InputTypeOK
<1>4. body' \in {"whole", "read"} /\ (body' = "whole" => whole /\ ~Reads(route.params, whole))
  BY <1>2, <1>3
<1>5. \A k : FromBody(k)' = FromBody(k)
  BY <1>1 DEF FromBody
<1> HIDE DEF whole
<1>6. CASE Refused(route.params, whole)
  <2>1. calls' = calls
    BY <1>2, <1>6
  <2>2. \A n \in DOMAIN calls : Holds(n)' = Holds(n)
    BY <1>1, <1>5, <2>1 DEF Holds
  <2> QED BY <1>1, <1>3, <1>4, <2>1, <2>2 DEF InputInv, InputTypeOK, AdmittedByParameters, whole
<1>7. CASE ~Refused(route.params, whole)
  <2> DEFINE Tuples == [DOMAIN route.params -> Values]
  <2>a. Len(calls) \in Nat /\ DOMAIN calls = 1..Len(calls)
    BY <1>3, LenProperties
  <2>b. PICK last : last = Len(calls) + 1
    OBVIOUS
  <2>1. args \in Tuples
    BY <1>1, SignatureFacts
  <2>2. \A k \in DOMAIN route.params :
          /\ Required(route.params[k]) => args[k] # "absent"
          /\ FromBody(k) /\ args[k] # "absent" => whole /\ Reads(route.params, whole)
    BY <1>1, <1>7, NotRefused
  <2> HIDE DEF args
  <2>c. calls \in Seq(Tuples)
    BY <1>3
  <2> HIDE DEF Tuples
  <2>d. /\ Append(calls, args) \in Seq(Tuples)
        /\ Len(Append(calls, args)) = last /\ Append(calls, args)[last] = args
        /\ \A n \in 1..Len(calls) : Append(calls, args)[n] = calls[n]
    BY <2>b, <2>c, <2>1, AppendProperties
  <2>e. DOMAIN Append(calls, args) = 1..last
    BY <2>d, LenProperties
  <2>3. /\ calls' = Append(calls, args) /\ calls' \in Seq(Tuples)
        /\ DOMAIN calls' = 1..last /\ calls'[last] = args
        /\ DOMAIN calls = 1..last - 1 /\ last \in Nat
        /\ \A n \in DOMAIN calls : calls'[n] = calls[n]
    BY <1>2, <1>7, <2>a, <2>b, <2>d, <2>e
  <2>4. \A n \in DOMAIN calls : Holds(n)' = Holds(n)
    BY <1>1, <1>5, <2>3 DEF Holds
  <2>5. Holds(last)' => whole /\ Reads(route.params, whole)
    BY <1>1, <1>5, <2>2, <2>3 DEF Holds
  <2>6. \A n \in DOMAIN calls' : n = last \/ n \in DOMAIN calls
    BY <2>3
  <2>7. whole => \A n \in DOMAIN calls : ~Holds(n)
    BY DEF InputInv, whole
  <2>8. ASSUME NEW n \in DOMAIN calls', Holds(n)', NEW m \in DOMAIN calls', Holds(m)'
        PROVE  m = n
    <3>1. CASE n = last \/ m = last
      BY <2>4, <2>5, <2>6, <2>7, <2>8, <3>1
    <3>2. CASE n \in DOMAIN calls /\ m \in DOMAIN calls
      <4>1. Holds(n) /\ Holds(m)
        BY <2>4, <2>8, <3>2
      <4> QED BY <3>2, <4>1 DEF InputInv, AdmittedByParameters
    <3> QED BY <2>6, <3>1, <3>2
  <2>9. ASSUME NEW n \in DOMAIN calls', NEW k \in DOMAIN route.params,
               Required(route.params[k])
        PROVE  calls'[n][k] # "absent"
    <3>1. CASE n = last
      BY <2>2, <2>3, <2>9, <3>1
    <3>2. CASE n \in DOMAIN calls
      BY <2>3, <2>9, <3>2 DEF InputInv, AdmittedByParameters
    <3> QED BY <2>6, <3>1, <3>2
  <2>10. body' = "whole" => \A n \in DOMAIN calls' : ~Holds(n)'
    BY <1>4, <2>4, <2>5, <2>6, <2>7
  <2>11. AdmittedByParameters'
    BY <1>1, <2>8, <2>9 DEF AdmittedByParameters
  <2>12. InputTypeOK'
    BY <1>1, <1>4, <2>3 DEF InputTypeOK, Tuples
  <2> QED BY <2>10, <2>11, <2>12 DEF InputInv
<1> QED BY <1>6, <1>7

THEOREM InputInvariance == Spec => []InputInv
<1>1. Init => InputInv
  <2> SUFFICES ASSUME Init PROVE InputInv
    OBVIOUS
  <2>1. calls = <<>> /\ body = "whole" /\ DOMAIN calls = {}
    BY DEF Init
  <2>2. calls \in Seq([DOMAIN route.params -> Values])
    BY <2>1, EmptySeq, Zenon
  <2> QED BY <2>1, <2>2 DEF InputInv, InputTypeOK, AdmittedByParameters
<1>2. IInv /\ InputInv /\ [Next]_vars => InputInv'
  <2> SUFFICES ASSUME IInv, InputInv, [Next]_vars PROVE InputInv'
    OBVIOUS
  <2>1. ASSUME NEW s \in strands, CallHandler(s) PROVE InputInv'
    BY <2>1, CallHandlerInput
  <2>2. ASSUME \/ Begin \/ UNCHANGED vars
               \/ \E s \in strands :
                    \/ AskGuard(s) \/ PassGuards(s) \/ EnterLayer(s) \/ LeaveLayer(s)
                    \/ HandlerSettles(s) \/ Catch(s) \/ Drop(s) \/ Answer(s)
                    \/ \E p \in 1..Bottom : Expire(s, p)
        PROVE  InputInv'
    <3>1. route' = route /\ UNCHANGED input
      BY <2>2 DEF Begin, vars, AskGuard, PassGuards, EnterLayer, LeaveLayer, HandlerSettles,
         Catch, Drop, Answer, Expire, Replace
    <3> QED BY <3>1, InputStays
  <2> QED BY <2>1, <2>2 DEF Next
<1> QED BY Invariance, <1>1, <1>2, PTL DEF Spec

-----------------------------------------------------------------------------
\* Every variable keeps its type: at most one record per request, each strand at a
\* layer of its route, and each call with a value for each parameter.
THEOREM TypeCorrect == Spec => []TypeOK
<1>1. IInv /\ InputInv => TypeOK
  BY DEF IInv, InputInv, TypeOK
<1> QED BY Invariance, InputInvariance, <1>1, PTL

\* No handler runs for a request that a guard has not let through, nor without what
\* it requires, and the body reaches one call of it, however often its layers call
\* next(), whatever they do, and with abandoned strands running on beside them.
THEOREM HandlersOnlyAdmitted == Spec => []HandlerOnlyAdmitted
<1>1. IInv => AdmittedByGuards
  BY DEF IInv, AdmittedByGuards, Good, Vetted, Admitted, M, G
<1>2. InputInv => AdmittedByParameters
  BY DEF InputInv
<1> QED BY Invariance, InputInvariance, <1>1, <1>2, PTL DEF HandlerOnlyAdmitted

\* The most specific filter answers, whatever levels declare one.
THEOREM MostSpecificFilters == Spec => []MostSpecificFilter
<1>1. IInv => MostSpecificFilter
  <2> SUFFICES ASSUME IInv, NEW m \in {answer} \cup {s.out.by : s \in strands},
                      m \in Levels \cup {"default"}
               PROVE  m = ChosenFilter(route)
    BY ChosenIsMostSpecific DEF MostSpecificFilter
  <2>1. Filtered(m)
    BY DEF IInv, Good, Caught
  <2> QED BY <2>1 DEF Filtered
<1> QED BY Invariance, <1>1, PTL

\* On the full path the layers never see an error that a filter should have had.
THEOREM ErrorsInside == Spec => []ErrorsStayInside
<1>1. IInv => ErrorsStayInside
  BY DEF IInv, ErrorsStayInside, Good, Caught, Contained
<1> QED BY Invariance, <1>1, PTL

\* The pipeline implements Exchange: begin, answer once, and only then no more.
THEOREM Implements == Spec => OneAnswer
<1>1. Init => E!Init
  BY DEF Init, E!Init
<1>2. IInv /\ [Next]_vars => [E!Next]_E!vars
  <2> SUFFICES ASSUME IInv, [Next]_vars PROVE [E!Next]_E!vars
    OBVIOUS
  <2>1. CASE Begin
    BY <2>1 DEF Begin, E!Next, E!Begin
  <2>2. ASSUME NEW s \in strands, Answer(s) PROVE E!Next
    BY <2>2, AnswerFacts DEF E!Next, E!Reply
  <2>3. ASSUME NEW s \in strands, NEW t, Replace(s, t) PROVE UNCHANGED E!vars
    BY <2>3 DEF Replace, E!vars
  <2>4. ASSUME NEW s \in strands,
               \/ AskGuard(s) \/ PassGuards(s) \/ EnterLayer(s) \/ LeaveLayer(s)
               \/ CallHandler(s) \/ HandlerSettles(s) \/ Catch(s)
        PROVE  UNCHANGED E!vars
    BY <2>4, <2>3 DEF AskGuard, PassGuards, EnterLayer, LeaveLayer, CallHandler,
       HandlerSettles, Catch, Replace, E!vars
  <2>5. ASSUME NEW s \in strands, Drop(s) \/ \E p \in 1..Bottom : Expire(s, p)
        PROVE  UNCHANGED E!vars
    BY <2>5 DEF Drop, Expire, E!vars
  <2>6. CASE UNCHANGED vars
    BY <2>6 DEF vars, E!vars
  <2> QED BY <2>1, <2>2, <2>4, <2>5, <2>6 DEF Next
<1> QED BY Invariance, <1>1, <1>2, PTL DEF Spec, OneAnswer, E!Spec

-----------------------------------------------------------------------------
(* Patterns of queues.                                                      *)

LEMMA ByInduction ==
  ASSUME NEW K, 0 \in K, \A k \in Nat : k \in K => k + 1 \in K
  PROVE  Nat \subseteq K
<1>1. SUFFICES ASSUME Nat \ K # {} PROVE FALSE
  OBVIOUS
<1>2. PICK k \in Nat \ K : \A j \in Nat \ K : ~(<<j, k>> \in OpToRel(<, Nat))
  BY <1>1, WFMin, NatLessThanWellFounded, Zenon
<1>3. \A j \in Nat \ K : ~(j < k)
  BY <1>2 DEF OpToRel
<1>4. k # 0 /\ k - 1 \in Nat /\ k = (k - 1) + 1
  OBVIOUS
<1>5. k - 1 \in K
  BY <1>3, <1>4
<1> QED BY <1>4, <1>5

\* From which positions the rest of a pattern matches, given those from which what
\* follows its first member does.
Positions(p, t, i, after) ==
  {j \in 1..Len(t) + 1 :
     IF i > Len(p) THEN j > Len(t)
     ELSE IF p[i] # "#"
     THEN /\ j <= Len(t) /\ j + 1 \in after
          /\ p[i] \in OneSegment \/ p[i] = t[j]
     ELSE IF i < Len(p) THEN \E k \in after : j <= k
     ELSE i = 1 \/ j <= Len(t)}

\* The recursion of RegexMatches has a solution, and it is what the matcher reads.
LEMMA PositionsExist ==
  ASSUME NEW p \in Seq(STRING), NEW t \in Seq(STRING)
  PROVE  \E Mt : /\ \A i \in 1..Len(p) + 1 : Mt[i] = Positions(p, t, i, Mt[i + 1])
                 /\ RegexMatches(p, t) <=> 1 \in Mt[1]
<1> DEFINE n == Len(p) + 1
           Body(g) == [i \in 1..n |-> Positions(p, t, i, g[i + 1])]
           Right(g, k) == \A i \in 1..n : i > n - k => g[i] = Body(g)[i]
           K == {k \in Nat : \E g : Right(g, k)}
<1>0. n \in Nat
  OBVIOUS
<1>1. 0 \in K
  OBVIOUS
<1>2. ASSUME NEW k \in Nat, NEW g, Right(g, k)
      PROVE  Right(Body(g), k + 1)
  <2> SUFFICES ASSUME NEW i \in 1..n, i > n - (k + 1)
               PROVE  Body(g)[i] = Body(Body(g))[i]
    OBVIOUS
  <2>1. CASE i = n
    <3>1. \A a, b : Positions(p, t, i, a) = Positions(p, t, i, b)
      <4>1. i > Len(p)
        BY <2>1
      <4> QED BY <4>1, Zenon DEF Positions
    <3> QED BY <3>1
  <2>2. CASE i # n
    <3>1. i + 1 \in 1..n /\ i + 1 > n - k
      BY <1>0, <2>2
    <3>2. g[i + 1] = Body(g)[i + 1]
      BY <1>2, <3>1
    <3> QED BY <3>2
  <2> QED BY <2>1, <2>2
<1>3. ASSUME NEW k \in Nat, k \in K
      PROVE  k + 1 \in K
  <2> HIDE DEF Body, Right
  <2>1. PICK g : Right(g, k)
    BY <1>3
  <2>2. Right(Body(g), k + 1)
    BY <1>2, <2>1
  <2> QED BY <2>2
<1>4. n \in K
  <2> HIDE DEF K
  <2> QED BY <1>0, <1>1, <1>3, ByInduction
<1>5. PICK g : Right(g, n)
  BY <1>4
<1>6. Right(Body(g), n + 1)
  <2> HIDE DEF Body, Right
  <2> QED BY <1>0, <1>2, <1>5
<1>7. Body(g) = Body(Body(g))
  <2>1. \A i \in 1..n : Body(g)[i] = Body(Body(g))[i]
    <3> HIDE DEF Body
    <3> QED BY <1>0, <1>6
  <2> QED BY <2>1
<1>8. \E f : f = [i \in 1..Len(p) + 1 |-> Positions(p, t, i, f[i + 1])]
  BY <1>7, Zenon
<1> HIDE DEF n, Body, Right, K
<1>9. \E Mt : Mt = [i \in 1..Len(p) + 1 |-> Positions(p, t, i, Mt[i + 1])]
              /\ (RegexMatches(p, t) <=> 1 \in Mt[1])
  BY <1>8, Zenon DEF RegexMatches, Positions
<1> QED BY <1>9

\* The rest of a pattern, from its i-th member on, denotes the rest of a topic.
DenotesRest(p, t, i, j) ==
  \E Cut \in [i..Len(p) + 1 -> 1..Len(t) + 1] :
    /\ Cut[i] = j /\ Cut[Len(p) + 1] = Len(t) + 1
    /\ \A k \in i..Len(p) :
         Cut[k] <= Cut[k + 1] /\ Accepts(p, k, SubSeq(t, Cut[k], Cut[k + 1] - 1), Tested)

\* A stretch is cut off at a time.
LEMMA CutOff ==
  ASSUME NEW p \in Seq(STRING), NEW t \in Seq(STRING), NEW i \in 1..Len(p), NEW j \in 1..Len(t) + 1
  PROVE  DenotesRest(p, t, i, j) <=>
           \E k \in j..Len(t) + 1 :
             Accepts(p, i, SubSeq(t, j, k - 1), Tested) /\ DenotesRest(p, t, i + 1, k)
<1>0. Len(p) \in Nat /\ Len(t) \in Nat
  OBVIOUS
<1>1. ASSUME DenotesRest(p, t, i, j)
      PROVE  \E k \in j..Len(t) + 1 :
               Accepts(p, i, SubSeq(t, j, k - 1), Tested) /\ DenotesRest(p, t, i + 1, k)
  <2>1. PICK Cut \in [i..Len(p) + 1 -> 1..Len(t) + 1] :
          /\ Cut[i] = j /\ Cut[Len(p) + 1] = Len(t) + 1
          /\ \A k \in i..Len(p) :
               Cut[k] <= Cut[k + 1] /\ Accepts(p, k, SubSeq(t, Cut[k], Cut[k + 1] - 1), Tested)
    BY <1>1 DEF DenotesRest
  <2>2. PICK k : k = Cut[i + 1]
    OBVIOUS
  <2>3. k \in j..Len(t) + 1 /\ Accepts(p, i, SubSeq(t, j, k - 1), Tested)
    <3>1. i \in i..Len(p) /\ i + 1 \in i..Len(p) + 1
      BY <1>0
    <3>2. Cut[i] <= Cut[i + 1] /\ Accepts(p, i, SubSeq(t, Cut[i], Cut[i + 1] - 1), Tested)
      BY <2>1, <3>1
    <3>3. k \in 1..Len(t) + 1 /\ j <= k
      BY <2>1, <2>2, <3>1, <3>2
    <3> QED BY <1>0, <2>1, <2>2, <3>2, <3>3
  <2>4. DenotesRest(p, t, i + 1, k)
    <3> DEFINE Rest == [m \in i + 1..Len(p) + 1 |-> Cut[m]]
    <3>1. Rest \in [i + 1..Len(p) + 1 -> 1..Len(t) + 1]
      BY <1>0, <2>1
    <3>2. Rest[i + 1] = k /\ Rest[Len(p) + 1] = Len(t) + 1
      BY <1>0, <2>1, <2>2
    <3>3. \A m \in i + 1..Len(p) : Rest[m] = Cut[m] /\ Rest[m + 1] = Cut[m + 1] /\ m \in i..Len(p)
      BY <1>0
    <3> HIDE DEF Rest
    <3> QED BY <2>1, <3>1, <3>2, <3>3 DEF DenotesRest
  <2> QED BY <2>3, <2>4
<1>2. ASSUME NEW k \in j..Len(t) + 1,
             Accepts(p, i, SubSeq(t, j, k - 1), Tested), DenotesRest(p, t, i + 1, k)
      PROVE  DenotesRest(p, t, i, j)
  <2>1. PICK Rest \in [i + 1..Len(p) + 1 -> 1..Len(t) + 1] :
          /\ Rest[i + 1] = k /\ Rest[Len(p) + 1] = Len(t) + 1
          /\ \A m \in i + 1..Len(p) :
               Rest[m] <= Rest[m + 1] /\ Accepts(p, m, SubSeq(t, Rest[m], Rest[m + 1] - 1), Tested)
    BY <1>2 DEF DenotesRest
  <2> DEFINE Cut == [m \in i..Len(p) + 1 |-> IF m = i THEN j ELSE Rest[m]]
  <2>2. Cut \in [i..Len(p) + 1 -> 1..Len(t) + 1]
    BY <1>0, <2>1
  <2>3. Cut[i] = j /\ Cut[i + 1] = k /\ Cut[Len(p) + 1] = Len(t) + 1
    BY <1>0, <2>1
  <2>4. \A m \in i + 1..Len(p) : Cut[m] = Rest[m] /\ Cut[m + 1] = Rest[m + 1]
    BY <1>0
  <2> HIDE DEF Cut
  <2>5. ASSUME NEW m \in i..Len(p)
        PROVE  Cut[m] <= Cut[m + 1] /\ Accepts(p, m, SubSeq(t, Cut[m], Cut[m + 1] - 1), Tested)
    <3>1. CASE m = i
      BY <1>2, <2>3, <3>1
    <3>2. CASE m # i
      <4>1. m \in i + 1..Len(p)
        BY <3>2
      <4> QED BY <2>1, <2>4, <4>1
    <3> QED BY <3>1, <3>2
  <2> QED BY <2>2, <2>3, <2>5 DEF DenotesRest
<1> QED BY <1>1, <1>2

\* What one member accepts is as long as the expression says.
LEMMA Stretches ==
  ASSUME NEW p \in Seq(STRING), NEW t \in Seq(STRING), NEW i \in 1..Len(p),
         NEW j \in 1..Len(t) + 1, NEW k \in j..Len(t) + 1
  PROVE  Accepts(p, i, SubSeq(t, j, k - 1), Tested) <=>
           IF p[i] # "#" THEN k = j + 1 /\ (p[i] \in OneSegment \/ p[i] = t[j])
           ELSE i < Len(p) \/ i = 1 \/ j < k
<1>0. Len(p) \in Nat /\ Len(t) \in Nat /\ j \in Nat /\ k \in Nat
  OBVIOUS
<1>1. PICK s : s = SubSeq(t, j, k - 1)
  OBVIOUS
<1>2. s \in Seq(STRING) /\ Len(s) = k - j /\ (k = j + 1 => s[1] = t[j])
  <2>1. \A m \in j..k - 1 : t[m] \in STRING
    BY <1>0
  <2>2. /\ s \in Seq(STRING) /\ Len(s) = IF j <= k - 1 THEN (k - 1) - j + 1 ELSE 0
        /\ \A m \in 1..(k - 1) - j + 1 : s[m] = t[j + m - 1]
    BY <1>0, <1>1, <2>1, SubSeqProperties
  <2> QED BY <1>0, <2>2
<1>3. CASE p[i] \in OneSegment
  <2>1. Accepts(p, i, s, Tested) <=> Len(s) = 1
    BY <1>3 DEF Accepts, OneSegment
  <2>2. p[i] # "#"
    BY <1>3 DEF OneSegment
  <2> QED BY <1>0, <1>1, <1>2, <1>3, <2>1, <2>2
<1>4. CASE p[i] = "#"
  <2>1. Accepts(p, i, s, Tested) <=> i < Len(p) \/ i = 1 \/ Len(s) > 0
    <3>1. Accepts(p, i, s, Tested) <=> i < Len(p) \/ i = 1 \/ Len(s) >= Tested
      BY <1>4, Zenon DEF Accepts, OneSegment
    <3> QED BY <1>0, <1>2, <3>1 DEF Tested
  <2> QED BY <1>0, <1>1, <1>2, <1>4, <2>1
<1>5. CASE p[i] \notin OneSegment /\ p[i] # "#"
  <2>1. Accepts(p, i, s, Tested) <=> s = <<p[i]>>
    BY <1>5 DEF Accepts
  <2>2. s = <<p[i]>> => Len(s) = 1 /\ s[1] = p[i]
    OBVIOUS
  <2>3. Len(s) = 1 /\ s[1] = p[i] => s = <<p[i]>>
    BY <1>2
  <2>4. s = <<p[i]>> <=> k = j + 1 /\ p[i] = t[j]
    BY <1>0, <1>2, <2>2, <2>3
  <2> QED BY <1>1, <1>5, <2>1, <2>4
<1> QED BY <1>3, <1>4, <1>5

\* The expression matches what the pattern denotes.
LEMMA RegexIsMeant ==
  ASSUME NEW p \in Seq(STRING), NEW t \in Seq(STRING)
  PROVE  RegexMatches(p, t) <=> Denotes(p, t, Tested)
<1> DEFINE n == Len(p) + 1
           e == Len(t) + 1
<1>0. Len(p) \in Nat /\ Len(t) \in Nat
  OBVIOUS
<1>1. PICK Mt : /\ \A i \in 1..n : Mt[i] = Positions(p, t, i, Mt[i + 1])
                /\ RegexMatches(p, t) <=> 1 \in Mt[1]
  BY PositionsExist
<1> DEFINE Meets(i) == \A j \in 1..e : j \in Mt[i] <=> DenotesRest(p, t, i, j)
           K == {k \in Nat : \A i \in 1..n : n - k < i => Meets(i)}
<1>2. Meets(n)
  <2> SUFFICES ASSUME NEW j \in 1..e PROVE j \in Mt[n] <=> DenotesRest(p, t, n, j)
    OBVIOUS
  <2>1. j \in Mt[n] <=> j > Len(t)
    <3>1. n \in 1..n /\ n > Len(p)
      BY <1>0
    <3>2. Mt[n] = Positions(p, t, n, Mt[n + 1])
      BY <1>1, <3>1
    <3> QED BY <3>1, <3>2 DEF Positions
  <2>2. DenotesRest(p, t, n, j) <=> j = e
    <3>1. ASSUME DenotesRest(p, t, n, j) PROVE j = e
      BY <3>1 DEF DenotesRest
    <3>2. ASSUME j = e PROVE DenotesRest(p, t, n, j)
      <4> DEFINE Cut == [k \in n..n |-> e]
      <4>1. /\ Cut \in [n..n -> 1..e] /\ Cut[n] = e
            /\ \A k \in n..Len(p) : FALSE
        BY <1>0
      <4> HIDE DEF Cut
      <4> QED BY <3>2, <4>1 DEF DenotesRest
    <3> QED BY <3>1, <3>2
  <2> QED BY <1>0, <2>1, <2>2
<1>3. ASSUME NEW i \in 1..Len(p), Meets(i + 1)
      PROVE  Meets(i)
  <2> SUFFICES ASSUME NEW j \in 1..e PROVE j \in Mt[i] <=> DenotesRest(p, t, i, j)
    OBVIOUS
  <2>1. i \in 1..n /\ i + 1 \in 1..n /\ ~(i > Len(p)) /\ i \in Int
    BY <1>0
  <2>2. PICK after : after = Mt[i + 1]
    OBVIOUS
  <2>3. /\ \A k \in 1..e : k \in after <=> DenotesRest(p, t, i + 1, k)
        /\ Mt[i] = Positions(p, t, i, after)
    BY <1>1, <1>3, <2>1, <2>2
  <2>4. after \subseteq 1..e
    BY <1>1, <2>1, <2>2 DEF Positions
  <2>5. DenotesRest(p, t, i, j) <=>
          \E k \in j..e : Accepts(p, i, SubSeq(t, j, k - 1), Tested) /\ DenotesRest(p, t, i + 1, k)
    BY CutOff
  <2>6. \A k \in j..e : k \in 1..e /\ (Accepts(p, i, SubSeq(t, j, k - 1), Tested) <=>
           IF p[i] # "#" THEN k = j + 1 /\ (p[i] \in OneSegment \/ p[i] = t[j])
           ELSE i < Len(p) \/ i = 1 \/ j < k)
    BY <1>0, Stretches
  <2>7. DenotesRest(p, t, i, j) <=>
          \E k \in j..e : /\ k \in after
                          /\ IF p[i] # "#" THEN k = j + 1 /\ (p[i] \in OneSegment \/ p[i] = t[j])
                             ELSE i < Len(p) \/ i = 1 \/ j < k
    BY <2>3, <2>5, <2>6
  <2>8. j \in Mt[i] <=>
          IF p[i] # "#" THEN j <= Len(t) /\ j + 1 \in after /\ (p[i] \in OneSegment \/ p[i] = t[j])
          ELSE IF i < Len(p) THEN \E k \in after : j <= k
          ELSE i = 1 \/ j <= Len(t)
    BY <2>1, <2>3 DEF Positions
  <2>9. CASE p[i] # "#"
    <3>1. (\E k \in j..e : k \in after /\ k = j + 1) <=> j <= Len(t) /\ j + 1 \in after
      BY <1>0, <2>4
    <3> QED BY <2>7, <2>8, <2>9, <3>1
  <2>10. CASE p[i] = "#" /\ i < Len(p)
    <3>1. (\E k \in j..e : k \in after) <=> (\E k \in after : j <= k)
      BY <1>0, <2>4
    <3> QED BY <2>7, <2>8, <2>10, <3>1
  <2>11. CASE p[i] = "#" /\ i = Len(p)
    <3>1. after = {e}
      <4>1. \A k \in 1..e : k \in after <=> k > Len(t)
        <5>1. after = Positions(p, t, i + 1, Mt[i + 1 + 1]) /\ i + 1 > Len(p)
          BY <1>0, <1>1, <2>1, <2>2, <2>11
        <5> QED BY <5>1 DEF Positions
      <4>2. \A k \in 1..e : k > Len(t) <=> k = e
        BY <1>0
      <4>3. e \in 1..e
        BY <1>0
      <4> HIDE DEF e
      <4> QED BY <2>4, <4>1, <4>2, <4>3
    <3>2. (\E k \in j..e : k \in after /\ (i = 1 \/ j < k)) <=> i = 1 \/ j <= Len(t)
      BY <1>0, <3>1
    <3> QED BY <2>7, <2>8, <2>11, <3>2
  <2> QED BY <1>0, <2>9, <2>10, <2>11
<1> HIDE DEF Meets
<1>4. ASSUME NEW k \in Nat, k \in K
      PROVE  k + 1 \in K
  <2> SUFFICES ASSUME NEW i \in 1..n, n - (k + 1) < i
               PROVE  Meets(i)
    OBVIOUS
  <2>1. CASE i = n
    BY <1>2, <2>1
  <2>2. CASE i # n
    <3>1. i \in 1..Len(p) /\ i + 1 \in 1..n /\ n - k < i + 1
      BY <1>0, <2>2
    <3>2. Meets(i + 1)
      BY <1>4, <3>1
    <3> QED BY <1>3, <3>1, <3>2
  <2> QED BY <2>1, <2>2
<1>5. 0 \in K
  BY <1>0
<1>6. n \in K
  <2> HIDE DEF K
  <2> QED BY <1>0, <1>4, <1>5, ByInduction
<1>7. Meets(1)
  BY <1>0, <1>6
<1>8. 1 \in Mt[1] <=> DenotesRest(p, t, 1, 1)
  BY <1>0, <1>7 DEF Meets
<1>9. DenotesRest(p, t, 1, 1) <=> Denotes(p, t, Tested)
  BY DEF DenotesRest, Denotes
<1> QED BY <1>1, <1>8, <1>9

\* A pattern denotes itself.
LEMMA DenotesItself ==
  ASSUME NEW p \in Seq(STRING)
  PROVE  Denotes(p, p, Tested)
<1> DEFINE n == Len(p) + 1
           Cut == [i \in 1..n |-> i]
<1>0. Len(p) \in Nat
  OBVIOUS
<1>1. Cut \in [1..n -> 1..n] /\ Cut[1] = 1 /\ Cut[n] = n
  BY <1>0
<1>2. ASSUME NEW i \in 1..Len(p)
      PROVE  Cut[i] <= Cut[i + 1] /\ Accepts(p, i, SubSeq(p, Cut[i], Cut[i + 1] - 1), Tested)
  <2>1. Cut[i] = i /\ Cut[i + 1] = i + 1
    BY <1>0
  <2>2. i + 1 \in i..Len(p) + 1 /\ i \in 1..Len(p) + 1
    BY <1>0
  <2>3. Accepts(p, i, SubSeq(p, i, i + 1 - 1), Tested)
    <3>1. PICK k : k = i + 1
      OBVIOUS
    <3>2. k \in i..Len(p) + 1
      BY <2>2, <3>1
    <3>3. i \in 1..Len(p) + 1
      BY <2>2
    <3>4. Accepts(p, i, SubSeq(p, i, k - 1), Tested) <=>
            IF p[i] # "#" THEN k = i + 1 /\ (p[i] \in OneSegment \/ p[i] = p[i])
            ELSE i < Len(p) \/ i = 1 \/ i < k
      BY <3>2, <3>3, Stretches
    <3> QED BY <3>1, <3>4
  <2> HIDE DEF Cut
  <2> QED BY <1>0, <2>1, <2>3
<1> HIDE DEF Cut
<1> QED BY <1>1, <1>2 DEF Denotes

\* A pattern of literals denotes nothing else.
LEMMA LiteralsDenoteThemselves ==
  ASSUME NEW p \in Seq(STRING), NEW t \in Seq(STRING), ~IsQueuePattern(p), Denotes(p, t, Tested)
  PROVE  p = t
<1>0. Len(p) \in Nat /\ Len(t) \in Nat
  OBVIOUS
<1>1. PICK Cut \in [1..Len(p) + 1 -> 1..Len(t) + 1] :
        /\ Cut[1] = 1 /\ Cut[Len(p) + 1] = Len(t) + 1
        /\ \A i \in 1..Len(p) :
             Cut[i] <= Cut[i + 1] /\ Accepts(p, i, SubSeq(t, Cut[i], Cut[i + 1] - 1), Tested)
  BY DEF Denotes
<1>2. ASSUME NEW i \in 1..Len(p)
      PROVE  Cut[i + 1] = Cut[i] + 1 /\ t[Cut[i]] = p[i]
  <2>1. p[i] \notin OneSegment /\ p[i] # "#"
    BY DEF IsQueuePattern
  <2>2. PICK j, k : j = Cut[i] /\ k = Cut[i + 1]
    OBVIOUS
  <2>3. j \in 1..Len(t) + 1 /\ k \in j..Len(t) + 1 /\ Accepts(p, i, SubSeq(t, j, k - 1), Tested)
    <3>1. i \in 1..Len(p) + 1 /\ i + 1 \in 1..Len(p) + 1
      BY <1>0
    <3>2. j \in 1..Len(t) + 1
      BY <2>2, <3>1
    <3>3. k \in 1..Len(t) + 1
      BY <2>2, <3>1
    <3>4. j <= k /\ Accepts(p, i, SubSeq(t, j, k - 1), Tested)
      BY <1>1, <2>2
    <3> QED BY <1>0, <3>2, <3>3, <3>4
  <2>4. k = j + 1 /\ p[i] = t[j]
    BY <2>1, <2>3, Stretches
  <2> QED BY <2>2, <2>4
<1> DEFINE K == {k \in Nat : k < Len(p) + 1 => Cut[k + 1] = k + 1}
<1>3. 0 \in K
  BY <1>1
<1>4. ASSUME NEW k \in Nat, k \in K
      PROVE  k + 1 \in K
  <2> SUFFICES ASSUME k + 1 < Len(p) + 1
               PROVE  Cut[k + 1 + 1] = k + 1 + 1
    OBVIOUS
  <2>1. k + 1 \in 1..Len(p)
    BY <1>0
  <2> QED BY <1>0, <1>2, <1>4, <2>1
<1>5. Nat \subseteq K
  <2> HIDE DEF K
  <2> QED BY <1>3, <1>4, ByInduction
<1>6. \A i \in 1..Len(p) + 1 : Cut[i] = i
  <2> SUFFICES ASSUME NEW i \in 1..Len(p) + 1 PROVE Cut[i] = i
    OBVIOUS
  <2>1. i - 1 \in Nat /\ i - 1 < Len(p) + 1 /\ (i - 1) + 1 = i
    BY <1>0
  <2>2. i - 1 \in K
    BY <1>5, <2>1
  <2> QED BY <2>1, <2>2
<1>7. Len(p) = Len(t) /\ \A i \in 1..Len(p) : t[i] = p[i]
  <2>1. Len(p) + 1 \in 1..Len(p) + 1
    BY <1>0
  <2>2. Len(p) = Len(t)
    BY <1>0, <1>1, <1>6, <2>1
  <2> QED BY <1>0, <1>2, <1>6, <2>2
<1> QED BY <1>7, SeqEqual

\* What a pattern denotes by the documentation and not by the tests is what it
\* denotes without its final "#".
LEMMA OnlyTheFinalHash ==
  ASSUME NEW p \in Seq(STRING), NEW t \in Seq(STRING),
         Denotes(p, t, Documented), ~Denotes(p, t, Tested)
  PROVE  /\ Len(p) > 1 /\ p[Len(p)] = "#"
         /\ Denotes(SubSeq(p, 1, Len(p) - 1), t, Documented)
<1> DEFINE q == SubSeq(p, 1, Len(p) - 1)
           s(Cut, i) == SubSeq(t, Cut[i], Cut[i + 1] - 1)
<1>0. Len(p) \in Nat /\ Len(t) \in Nat
  OBVIOUS
<1>1. PICK Cut \in [1..Len(p) + 1 -> 1..Len(t) + 1] :
        /\ Cut[1] = 1 /\ Cut[Len(p) + 1] = Len(t) + 1
        /\ \A i \in 1..Len(p) : Cut[i] <= Cut[i + 1] /\ Accepts(p, i, s(Cut, i), Documented)
  BY DEF Denotes
<1>2. PICK n \in 1..Len(p) : ~Accepts(p, n, s(Cut, n), Tested)
  BY <1>1 DEF Denotes
<1>3. Accepts(p, n, s(Cut, n), Documented) /\ Cut[n] <= Cut[n + 1]
  BY <1>1
<1> HIDE DEF s
<1>4. p[n] = "#" /\ n = Len(p) /\ n # 1 /\ ~(Len(s(Cut, n)) >= Tested)
  <2>1. ~(p[n] \in OneSegment)
    BY <1>2, <1>3, Zenon DEF Accepts, OneSegment
  <2>2. p[n] = "#" /\ ~(n < Len(p) \/ n = 1)
    BY <1>2, <1>3, <2>1, Zenon DEF Accepts, OneSegment
  <2>3. ~(Len(s(Cut, n)) >= Tested)
    BY <1>2, <2>1, <2>2, Zenon DEF Accepts, OneSegment
  <2> QED BY <1>0, <2>2, <2>3
<1>5. Cut[n] = Len(t) + 1
  <2>1. PICK j, k : j = Cut[n] /\ k = Cut[n + 1]
    OBVIOUS
  <2>2. j \in 1..Len(t) + 1 /\ k = Len(t) + 1
    BY <1>0, <1>1, <1>4, <2>1
  <2>3. \A m \in j..k - 1 : t[m] \in STRING
    BY <1>0, <2>2
  <2>4. Len(SubSeq(t, j, k - 1)) = IF j <= k - 1 THEN (k - 1) - j + 1 ELSE 0
    BY <1>0, <2>2, <2>3, SubSeqProperties
  <2>5. ~(Len(SubSeq(t, j, k - 1)) >= 1)
    BY <1>4, <2>1 DEF s, Tested
  <2> QED BY <1>0, <2>1, <2>2, <2>4, <2>5
<1>6. q \in Seq(STRING) /\ Len(q) = Len(p) - 1 /\ \A i \in 1..Len(p) - 1 : q[i] = p[i]
  <2>1. \A m \in 1..Len(p) - 1 : p[m] \in STRING
    BY <1>0
  <2> QED BY <1>0, <1>4, <2>1, SubSeqProperties
<1> HIDE DEF q
<1> DEFINE Shorter == [i \in 1..Len(p) |-> Cut[i]]
<1>7. /\ Shorter \in [1..Len(q) + 1 -> 1..Len(t) + 1]
      /\ Shorter[1] = 1 /\ Shorter[Len(q) + 1] = Len(t) + 1
      /\ \A i \in 1..Len(q) : Shorter[i] = Cut[i] /\ Shorter[i + 1] = Cut[i + 1]
  BY <1>0, <1>1, <1>4, <1>5, <1>6
<1> HIDE DEF Shorter
<1>8. ASSUME NEW i \in 1..Len(q)
      PROVE  Shorter[i] <= Shorter[i + 1] /\ Accepts(q, i, s(Shorter, i), Documented)
  <2>1. i \in 1..Len(p) /\ q[i] = p[i] /\ i < Len(p)
    BY <1>0, <1>4, <1>6
  <2>2. Shorter[i] <= Shorter[i + 1] /\ s(Shorter, i) = s(Cut, i) /\ Accepts(p, i, s(Cut, i), Documented)
    BY <1>1, <1>7, <2>1 DEF s
  <2>3. Len(s(Cut, i)) >= Documented
    <3>1. Cut[i] \in Int /\ Cut[i + 1] - 1 \in Int
      BY <1>0, <1>1, <2>1
    <3>2. PICK j, k : j = Cut[i] /\ k = Cut[i + 1]
      OBVIOUS
    <3>3. j \in 1..Len(t) + 1 /\ k \in 1..Len(t) + 1
      <4>1. i \in 1..Len(p) + 1 /\ i + 1 \in 1..Len(p) + 1
        BY <1>0, <2>1
      <4> QED BY <3>2, <4>1
    <3>4. \A m \in j..k - 1 : t[m] \in STRING
      BY <1>0, <3>3
    <3>5. Len(SubSeq(t, j, k - 1)) = IF j <= k - 1 THEN (k - 1) - j + 1 ELSE 0
      BY <1>0, <3>3, <3>4, SubSeqProperties
    <3>6. Len(SubSeq(t, j, k - 1)) >= 0
      BY <3>3, <3>5
    <3> QED BY <3>2, <3>6 DEF s, Documented
  <2>4. CASE p[i] \in OneSegment
    BY <2>1, <2>2, <2>4, Zenon DEF Accepts, OneSegment
  <2>5. CASE p[i] = "#"
    BY <2>1, <2>2, <2>3, <2>5, Zenon DEF Accepts, OneSegment
  <2>6. CASE p[i] \notin OneSegment /\ p[i] # "#"
    BY <2>1, <2>2, <2>6, Zenon DEF Accepts, OneSegment
  <2> QED BY <2>2, <2>4, <2>5, <2>6
<1>9. Denotes(q, t, Documented)
  BY <1>7, <1>8 DEF Denotes, s
<1> QED BY <1>0, <1>4, <1>9 DEF q

\* What a pattern denotes by the tests it denotes by the documentation.
LEMMA TestedIsDocumented ==
  ASSUME NEW p \in Seq(STRING), NEW t \in Seq(STRING), Denotes(p, t, Tested)
  PROVE  Denotes(p, t, Documented)
<1>1. PICK Cut \in [1..Len(p) + 1 -> 1..Len(t) + 1] :
        /\ Cut[1] = 1 /\ Cut[Len(p) + 1] = Len(t) + 1
        /\ \A i \in 1..Len(p) :
             Cut[i] <= Cut[i + 1] /\ Accepts(p, i, SubSeq(t, Cut[i], Cut[i + 1] - 1), Tested)
  BY DEF Denotes
<1>2. ASSUME NEW i \in 1..Len(p)
      PROVE  Accepts(p, i, SubSeq(t, Cut[i], Cut[i + 1] - 1), Documented)
  <2>1. PICK l : l = Len(SubSeq(t, Cut[i], Cut[i + 1] - 1))
    OBVIOUS
  <2>2. l >= 1 => l >= 0
    <3>1. Cut[i] \in 1..Len(t) + 1 /\ Cut[i + 1] \in 1..Len(t) + 1 /\ Len(t) \in Nat
      <4>1. i \in 1..Len(p) + 1 /\ i + 1 \in 1..Len(p) + 1 /\ Len(t) \in Nat
        OBVIOUS
      <4> QED BY <4>1
    <3>2. \A m \in Cut[i]..Cut[i + 1] - 1 : t[m] \in STRING
      BY <3>1
    <3>3. SubSeq(t, Cut[i], Cut[i + 1] - 1) \in Seq(STRING)
      BY <3>1, <3>2, SubSeqProperties
    <3>4. l \in Nat
      BY <2>1, <3>3
    <3> QED BY <3>4
  <2>3. l >= Tested => l >= Documented
    BY <2>2 DEF Tested, Documented
  <2>4. Accepts(p, i, SubSeq(t, Cut[i], Cut[i + 1] - 1), Tested)
    BY <1>1
  <2> QED BY <2>1, <2>3, <2>4, Zenon DEF Accepts, OneSegment
<1> QED BY <1>1, <1>2 DEF Denotes

\* createQueuePatternMatcher() agrees with the meaning its tests give a pattern, for
\* every pattern and every topic.  With the documented meaning it disagrees on one
\* thing only: it misses a topic that the pattern denotes without its final "#".
THEOREM MatcherIsMeant ==
  ASSUME NEW p \in Seq(STRING), NEW t \in Seq(STRING)
  PROVE  /\ CreateQueuePatternMatcher(p, t) <=> Denotes(p, t, Tested)
         /\ CreateQueuePatternMatcher(p, t) => Denotes(p, t, Documented)
         /\ Denotes(p, t, Documented) /\ ~CreateQueuePatternMatcher(p, t) =>
              /\ Len(p) > 1 /\ p[Len(p)] = "#"
              /\ Denotes(SubSeq(p, 1, Len(p) - 1), t, Documented)
<1>1. CreateQueuePatternMatcher(p, t) <=> Denotes(p, t, Tested)
  BY RegexIsMeant, DenotesItself, LiteralsDenoteThemselves DEF CreateQueuePatternMatcher
<1> QED BY <1>1, OnlyTheFinalHash, TestedIsDocumented

-----------------------------------------------------------------------------
(* The in-memory queue.                                                     *)

Run == [msg : Messages, next : Nat, phase : Phases, nacked : BOOLEAN,
        frozen : BOOLEAN, array : Seq(Subs), heard : Seq(Subs), removed : Nat,
        owed : SUBSET Subs]

\* Those a dispatch owes the message whom its loop has neither called nor ahead
\* of it.
Behind(r, array) ==
  {s \in r.owed : /\ \A j \in DOMAIN r.heard : r.heard[j] # s
                  /\ \A i \in DOMAIN array : i >= r.next => array[i] # s}

\* A dispatch under way, with the array it walks and those who are paused.
Orderly(r, array, off) ==
  /\ IsInjective(array) /\ r.next # 0
  /\ IsInjective(r.heard)
  /\ \A j \in DOMAIN r.heard :
       /\ r.msg \in Meant[r.heard[j]]
       /\ \A i \in DOMAIN array : i >= r.next => array[i] # r.heard[j]
  /\ \A s \in r.owed : s \notin off /\ r.msg \in Meant[s]
  /\ Cardinality(Behind(r, array)) <= r.removed

\* Any dispatch, with the current array.
Kept(r, current, off) ==
  IF r.phase = "done" THEN r.heard = <<>>
  ELSE Orderly(r, IF r.frozen THEN r.array ELSE current, off)

MemoryInv ==
  /\ MemoryTypeOK /\ runs \in Seq(Run)
  /\ IsInjective(subs)
  /\ \A d \in DOMAIN runs : Kept(runs[d], subs, paused)

LEMMA MatchersAreMeant == Matcher = Meant
<1>1. ASSUME NEW s \in Subs, NEW m \in Messages
      PROVE  CreateQueuePatternMatcher(Pattern[s], Topic[m]) <=> Denotes(Pattern[s], Topic[m], Tested)
  BY MatcherIsMeant, PatternAssumption, TopicAssumption
<1> QED BY <1>1, Zenon DEF Matcher, Meant

LEMMA SubsFinite == IsFiniteSet(Subs)
<1>1. Declared \in [1..Len(Declared) -> Subs] /\ Len(Declared) \in Nat /\ DOMAIN Declared = 1..Len(Declared)
  BY DeclaredAssumption, LenProperties DEF Subs
<1>2. Declared \in Surjection(1..Len(Declared), Subs)
  BY <1>1 DEF Surjection, Subs, Range
<1>3. IsFiniteSet(1..Len(Declared))
  BY <1>1, FS_Interval
<1> QED BY <1>2, <1>3, FS_Surjection

\* Fewer of them count for less, and one more for at most one more.
LEMMA Counted ==
  ASSUME NEW S \in SUBSET Subs, NEW T \in SUBSET Subs
  PROVE  /\ Cardinality(S) \in Nat /\ Cardinality(T) \in Nat
         /\ T \subseteq S => Cardinality(T) <= Cardinality(S)
         /\ \A x : T \subseteq S \cup {x} => Cardinality(T) <= Cardinality(S) + 1
<1>1. IsFiniteSet(S) /\ IsFiniteSet(T)
  BY SubsFinite, FS_Subset
<1>2. Cardinality(S) \in Nat /\ Cardinality(T) \in Nat
  BY <1>1, FS_CardinalityType
<1>3. T \subseteq S => Cardinality(T) <= Cardinality(S)
  BY <1>1, FS_Subset
<1>4. ASSUME NEW x, T \subseteq S \cup {x} PROVE Cardinality(T) <= Cardinality(S) + 1
  <2>1. /\ IsFiniteSet(S \cup {x})
        /\ Cardinality(S \cup {x}) = IF x \in S THEN Cardinality(S) ELSE Cardinality(S) + 1
    BY <1>1, FS_AddElement
  <2>2. T \in SUBSET (S \cup {x})
    BY <1>4
  <2>3. Cardinality(T) <= Cardinality(S \cup {x})
    BY <2>1, <2>2, FS_Subset
  <2> QED BY <1>2, <2>1, <2>3
<1> QED BY <1>2, <1>3, <1>4

LEMMA RunFields ==
  ASSUME NEW r \in Run
  PROVE  /\ r.msg \in Messages /\ r.next \in Nat /\ r.phase \in Phases
         /\ r.nacked \in BOOLEAN /\ r.frozen \in BOOLEAN
         /\ r.array \in Seq(Subs) /\ r.heard \in Seq(Subs)
         /\ r.removed \in Nat /\ r.owed \in SUBSET Subs
BY DEF Run

Less(r, s, n) == [r EXCEPT !.owed = @ \ {s}, !.removed = @ + n]

\* What is left of a dispatch when s is excused and n entries are taken out.
LEMMA Excused ==
  ASSUME NEW r \in Run, NEW s, NEW n \in Nat
  PROVE  /\ Less(r, s, n) \in Run
         /\ Less(r, s, n).owed = r.owed \ {s} /\ Less(r, s, n).removed = r.removed + n
         /\ Less(r, s, n).msg = r.msg /\ Less(r, s, n).next = r.next
         /\ Less(r, s, n).heard = r.heard /\ Less(r, s, n).phase = r.phase
         /\ Less(r, s, n).frozen = r.frozen /\ Less(r, s, n).array = r.array
<1>1. /\ Less(r, s, n).owed = r.owed \ {s} /\ Less(r, s, n).removed = r.removed + n
      /\ Less(r, s, n).msg = r.msg /\ Less(r, s, n).next = r.next
      /\ Less(r, s, n).heard = r.heard /\ Less(r, s, n).phase = r.phase
      /\ Less(r, s, n).frozen = r.frozen /\ Less(r, s, n).array = r.array
  BY DEF Run, Less
<1>2. r.owed \ {s} \in SUBSET Subs /\ r.removed + n \in Nat
  BY RunFields
<1>3. Less(r, s, n) \in Run
  BY <1>2 DEF Run, Less
<1> QED BY <1>1, <1>3

LEMMA BehindAreSubs ==
  ASSUME NEW r \in Run, NEW array PROVE Behind(r, array) \in SUBSET Subs
BY DEF Behind, Run

\* A subscription nobody has had joins the array.
LEMMA JoinKeeps ==
  ASSUME NEW r \in Run, NEW array \in Seq(Subs), NEW off, NEW s \in Subs,
         Orderly(r, array, off),
         \A i \in DOMAIN array : array[i] # s,
         \A j \in DOMAIN r.heard : r.heard[j] # s
  PROVE  Orderly(r, Append(array, s), off)
<1> DEFINE more == Append(array, s)
<1>1. /\ more \in Seq(Subs) /\ DOMAIN array = 1..Len(array) /\ Len(array) \in Nat
      /\ DOMAIN more = 1..Len(array) + 1
      /\ \A i \in 1..Len(array) : more[i] = array[i]
      /\ more[Len(array) + 1] = s
  OBVIOUS
<1> HIDE DEF more
<1>2. IsInjective(more)
  BY <1>1 DEF Orderly, IsInjective
<1>3. Behind(r, more) \subseteq Behind(r, array)
  BY <1>1 DEF Behind
<1>4. Cardinality(Behind(r, more)) <= r.removed
  <2>1. Behind(r, more) \in SUBSET Subs /\ Behind(r, array) \in SUBSET Subs
    BY BehindAreSubs
  <2>2. /\ Cardinality(Behind(r, more)) <= Cardinality(Behind(r, array))
        /\ Cardinality(Behind(r, more)) \in Nat /\ Cardinality(Behind(r, array)) \in Nat
    BY <1>3, <2>1, Counted
  <2> QED BY <2>2, RunFields DEF Orderly
<1>5. \A j \in DOMAIN r.heard : \A i \in DOMAIN more : i >= r.next => more[i] # r.heard[j]
  <2> SUFFICES ASSUME NEW j \in DOMAIN r.heard, NEW i \in DOMAIN more, i >= r.next
               PROVE  more[i] # r.heard[j]
    OBVIOUS
  <2>1. CASE i \in 1..Len(array)
    BY <1>1, <2>1 DEF Orderly
  <2>2. CASE i = Len(array) + 1
    BY <1>1, <2>2
  <2> QED BY <1>1, <2>1, <2>2
<1>6. Orderly(r, more, off)
  BY <1>2, <1>4, <1>5 DEF Orderly
<1> QED BY <1>6 DEF more

\* indexOf() and splice().
LEMMA Spliced ==
  ASSUME NEW array \in Seq(Subs), NEW s
  PROVE  \/ /\ RemoveFirst(array, s) = array
            /\ \A i \in DOMAIN array : array[i] # s
         \/ \E k \in DOMAIN array :
              /\ array[k] = s
              /\ RemoveFirst(array, s) \in Seq(Subs)
              /\ Len(RemoveFirst(array, s)) = Len(array) - 1
              /\ \A i \in 1..Len(array) - 1 :
                   RemoveFirst(array, s)[i] = IF i < k THEN array[i] ELSE array[i + 1]
<1>0. Len(array) \in Nat /\ DOMAIN array = 1..Len(array)
  OBVIOUS
<1>1. CASE ~\E i \in 1..Len(array) : array[i] = s
  <2> DEFINE found == \E i \in 1..Len(array) : array[i] = s
             cut == RemoveAt(array, SelectInSeq(array, LAMBDA v : v = s))
  <2>0. RemoveFirst(array, s) = IF found THEN cut ELSE array
    BY Zenon DEF RemoveFirst
  <2>1. RemoveFirst(array, s) = array
    <3>1. ~found
      BY <1>1, Zenon
    <3> HIDE DEF found, cut
    <3> QED BY <2>0, <3>1, Zenon
  <2>2. ASSUME NEW i \in DOMAIN array, array[i] = s PROVE FALSE
    BY <1>0, <1>1, <2>2, Zenon
  <2> QED BY <2>1, <2>2, Zenon
<1>2. CASE \E i \in 1..Len(array) : array[i] = s
  <2> DEFINE I == {i \in 1..Len(array) : array[i] = s}
             k == SelectInSeq(array, LAMBDA v : v = s)
             a == SubSeq(array, 1, k - 1)
             b == SubSeq(array, k + 1, Len(array))
  <2>1. PICK i \in I : \A j \in I : ~(<<j, i>> \in OpToRel(<, Nat))
    <3>1. I \subseteq Nat /\ I # {}
      BY <1>2
    <3> HIDE DEF I
    <3> QED BY <3>1, WFMin, NatLessThanWellFounded, Zenon
  <2>2. i \in I /\ \A j \in I : i <= j
    <3>1. I \subseteq Nat
      OBVIOUS
    <3> HIDE DEF I
    <3>2. \A j \in I : ~(j < i)
      BY <2>1, <3>1 DEF OpToRel
    <3> QED BY <3>1, <3>2
  <2>3. k = Min(I)
    BY <1>2 DEF SelectInSeq
  <2>4. k \in I
    BY <2>2, <2>3 DEF Min
  <2> HIDE DEF k
  <2>5. RemoveFirst(array, s) = a \o b
    BY <1>2 DEF RemoveFirst, RemoveAt, k
  <2>6. k \in 1..Len(array) /\ array[k] = s
    BY <2>4
  <2>7. /\ a \in Seq(Subs) /\ Len(a) = k - 1
        /\ \A j \in 1..k - 1 : a[j] = array[j]
    <3>1. \A j \in 1..k - 1 : array[j] \in Subs
      BY <1>0, <2>6
    <3> QED BY <1>0, <2>6, <3>1, SubSeqProperties
  <2>8. /\ b \in Seq(Subs) /\ Len(b) = Len(array) - k
        /\ \A j \in 1..Len(array) - k : b[j] = array[k + j]
    <3>1. \A j \in k + 1..Len(array) : array[j] \in Subs
      BY <1>0, <2>6
    <3>2. /\ b \in Seq(Subs)
          /\ Len(b) = IF k + 1 <= Len(array) THEN Len(array) - (k + 1) + 1 ELSE 0
          /\ \A j \in 1..Len(array) - (k + 1) + 1 : b[j] = array[k + 1 + j - 1]
      BY <1>0, <2>6, <3>1, SubSeqProperties
    <3> HIDE DEF b
    <3>3. Len(b) = Len(array) - k
      <4>1. Len(b) = IF k + 1 <= Len(array) THEN Len(array) - (k + 1) + 1 ELSE 0
        BY <3>2
      <4>2. k \in 1..Len(array) /\ Len(array) \in Nat
        BY <1>0, <2>6
      <4>3. k <= Len(array) /\ k \in Int /\ Len(array) \in Int
        BY <4>2
      <4> QED BY <4>1, <4>3
    <3>4. \A j \in 1..Len(array) - k : b[j] = array[k + j]
      <4> SUFFICES ASSUME NEW j \in 1..Len(array) - k PROVE b[j] = array[k + j]
        OBVIOUS
      <4>1. j \in 1..Len(array) - (k + 1) + 1 /\ k + 1 + j - 1 = k + j
        BY <1>0, <2>6
      <4>2. b[j] = array[k + 1 + j - 1]
        BY <3>2, <4>1
      <4> QED BY <4>1, <4>2
    <3> QED BY <3>2, <3>3, <3>4
  <2> HIDE DEF a, b
  <2>9. /\ a \o b \in Seq(Subs) /\ Len(a \o b) = Len(a) + Len(b)
        /\ \A j \in 1..Len(a) + Len(b) : (a \o b)[j] = IF j <= Len(a) THEN a[j] ELSE b[j - Len(a)]
    BY <2>7, <2>8, ConcatProperties
  <2>10. \A j \in 1..Len(array) - 1 : (a \o b)[j] = IF j < k THEN array[j] ELSE array[j + 1]
    <3> SUFFICES ASSUME NEW j \in 1..Len(array) - 1
                 PROVE  (a \o b)[j] = IF j < k THEN array[j] ELSE array[j + 1]
      OBVIOUS
    <3>0. j \in 1..Len(a) + Len(b)
      BY <1>0, <2>6, <2>7, <2>8
    <3>1. CASE j < k
      BY <1>0, <2>6, <2>7, <2>9, <3>0, <3>1
    <3>2. CASE ~(j < k)
      <4>1. /\ j - Len(a) \in 1..Len(array) - k /\ k + (j - Len(a)) = j + 1
            /\ ~(j <= Len(a))
        BY <1>0, <2>6, <2>7, <3>2
      <4> QED BY <2>8, <2>9, <3>0, <3>2, <4>1
    <3> QED BY <3>1, <3>2
  <2>11. Len(a \o b) = Len(array) - 1
    BY <1>0, <2>6, <2>7, <2>8, <2>9
  <2> QED BY <1>0, <2>5, <2>6, <2>9, <2>10, <2>11, Zenon
<1> QED BY <1>1, <1>2, Zenon

\* A splice of the array takes one listener away and hides at most one other from
\* the loop, whom it counts.
LEMMA SpliceKeeps ==
  ASSUME NEW r \in Run, NEW array \in Seq(Subs), NEW off, NEW s, NEW k \in DOMAIN array,
         Orderly(r, array, off), array[k] = s,
         NEW rest \in Seq(Subs), Len(rest) = Len(array) - 1,
         \A i \in 1..Len(array) - 1 : rest[i] = IF i < k THEN array[i] ELSE array[i + 1]
  PROVE  Orderly(Less(r, s, 1), rest, off)
<1> DEFINE q == Less(r, s, 1)
<1>0. /\ Len(array) \in Nat /\ DOMAIN array = 1..Len(array)
      /\ DOMAIN rest = 1..Len(array) - 1 /\ k \in 1..Len(array)
      /\ r.next \in Nat /\ r.removed \in Nat
  BY DEF Run
<1>1. /\ q.owed = r.owed \ {s} /\ q.removed = r.removed + 1 /\ q.heard = r.heard
      /\ q.next = r.next /\ q.msg = r.msg
  BY Excused
<1>q. q \in Run
  BY Excused
<1> HIDE DEF q
<1>2. IsInjective(rest)
  <2> SUFFICES ASSUME NEW x \in 1..Len(array) - 1, NEW y \in 1..Len(array) - 1, rest[x] = rest[y]
               PROVE  x = y
    BY <1>0 DEF IsInjective
  <2>1. /\ x \in DOMAIN array /\ x + 1 \in DOMAIN array
        /\ y \in DOMAIN array /\ y + 1 \in DOMAIN array
    BY <1>0
  <2>2. \A a, b \in DOMAIN array : array[a] = array[b] => a = b
    BY DEF Orderly, IsInjective
  <2> QED BY <1>0, <2>1, <2>2
<1>3. \A i \in DOMAIN rest : i >= r.next =>
        \E l \in DOMAIN array : l >= r.next /\ rest[i] = array[l]
  <2> SUFFICES ASSUME NEW i \in DOMAIN rest, i >= r.next
               PROVE  \E l \in DOMAIN array : l >= r.next /\ rest[i] = array[l]
    OBVIOUS
  <2>1. i \in DOMAIN array /\ i + 1 \in DOMAIN array /\ i + 1 >= r.next
    BY <1>0
  <2> QED BY <1>0, <2>1
<1>4. \A j \in DOMAIN q.heard : \A i \in DOMAIN rest : i >= q.next => rest[i] # q.heard[j]
  BY <1>1, <1>3 DEF Orderly
<1>5. Behind(q, rest) \subseteq Behind(r, array) \cup {array[r.next]}
  <2> SUFFICES ASSUME NEW x \in Behind(q, rest), x # array[r.next] PROVE x \in Behind(r, array)
    OBVIOUS
  <2>1. x \in r.owed /\ x # s /\ \A j \in DOMAIN r.heard : r.heard[j] # x
    BY <1>1 DEF Behind
  <2>2. \A i \in DOMAIN rest : i >= r.next => rest[i] # x
    BY <1>1 DEF Behind
  <2>3. ASSUME NEW i \in DOMAIN array, i >= r.next, array[i] = x PROVE FALSE
    <3>1. i # k /\ i # r.next
      BY <2>1, <2>3
    <3>2. CASE i < k
      <4>1. i \in 1..Len(array) - 1
        BY <1>0, <3>2
      <4> QED BY <1>0, <2>2, <2>3, <3>2, <4>1
    <3>3. CASE i > k
      <4>1. i - 1 \in 1..Len(array) - 1 /\ i - 1 >= r.next /\ ~(i - 1 < k) /\ (i - 1) + 1 = i
        BY <1>0, <2>3, <3>1, <3>3
      <4>2. rest[i - 1] = array[i]
        BY <4>1
      <4> QED BY <1>0, <2>2, <2>3, <4>1, <4>2
    <3> QED BY <1>0, <3>1, <3>2, <3>3
  <2> QED BY <2>1, <2>3 DEF Behind
<1>6. Behind(q, rest) \in SUBSET Subs /\ Behind(r, array) \in SUBSET Subs
  BY <1>q, BehindAreSubs
<1>7. Cardinality(Behind(q, rest)) <= Cardinality(Behind(r, array)) + 1
  BY <1>5, <1>6, Counted
<1>8. Cardinality(Behind(q, rest)) \in Nat /\ Cardinality(Behind(r, array)) \in Nat
  BY <1>6, Counted
<1>9. Cardinality(Behind(q, rest)) <= q.removed
  BY <1>0, <1>1, <1>7, <1>8 DEF Orderly
<1>10. Orderly(q, rest, off)
  BY <1>1, <1>2, <1>4, <1>9 DEF Orderly
<1> QED BY <1>10 DEF q

\* Who is excused is owed nothing more.
LEMMA ExcuseKeeps ==
  ASSUME NEW r \in Run, NEW array, NEW off, NEW s, NEW more,
         Orderly(r, array, off), more \subseteq off \cup {s}
  PROVE  Orderly(Less(r, s, 0), array, more)
<1> DEFINE q == Less(r, s, 0)
<1>1. /\ q.owed = r.owed \ {s} /\ q.removed = r.removed /\ q.heard = r.heard
      /\ q.next = r.next /\ q.msg = r.msg /\ q \in Run /\ r.removed \in Nat
  BY Excused, RunFields
<1> HIDE DEF q
<1>2. Behind(q, array) \subseteq Behind(r, array)
  BY <1>1 DEF Behind
<1>6. Behind(q, array) \in SUBSET Subs /\ Behind(r, array) \in SUBSET Subs
  BY <1>1, BehindAreSubs
<1>7. /\ Cardinality(Behind(q, array)) <= Cardinality(Behind(r, array))
      /\ Cardinality(Behind(q, array)) \in Nat /\ Cardinality(Behind(r, array)) \in Nat
  BY <1>2, <1>6, Counted
<1>8. Cardinality(Behind(q, array)) <= q.removed
  BY <1>1, <1>7 DEF Orderly
<1>9. Orderly(q, array, more)
  BY <1>1, <1>8 DEF Orderly
<1> QED BY <1>9 DEF q

-----------------------------------------------------------------------------
\* The loop of a dispatch goes on to the next it finds, and passes nobody whom it
\* owes the message; if it finds none, it has missed no more than were hidden.
LEMMA WalkKeeps ==
  ASSUME NEW r \in Run, NEW array \in Seq(Subs), Orderly(r, array, paused)
  PROVE  /\ Walk(r, array) \in Run /\ Walk(r, array).msg = r.msg
         /\ IF Walk(r, array).phase = "done"
            THEN /\ Walk(r, array).heard = <<>>
                 /\ Cardinality(r.owed \ Range(r.heard)) - r.removed <= 0
            ELSE /\ Orderly(Walk(r, array), array, paused)
                 /\ Walk(r, array).frozen = r.frozen /\ Walk(r, array).array = r.array
<1> DEFINE ahead == Ahead(array, r.msg, r.next)
<1>0. /\ Len(array) \in Nat /\ DOMAIN array = 1..Len(array)
      /\ \A i \in 1..Len(array) : array[i] \in Subs
      /\ r.next \in Nat \ {0} /\ r.removed \in Nat /\ r.msg \in Messages
      /\ r.heard \in Seq(Subs) /\ r.owed \in SUBSET Subs
  BY RunFields DEF Orderly
<1>1. ahead \subseteq DOMAIN array /\ ahead \subseteq Nat
  BY <1>0 DEF Ahead
<1>2. \A i \in DOMAIN array : i >= r.next => (i \in ahead <=> array[i] \notin paused /\ r.msg \in Meant[array[i]])
  BY <1>0, MatchersAreMeant DEF Ahead, Hears
<1>3. \A i \in ahead : i >= r.next
  BY <1>0 DEF Ahead
<1>4. CASE ahead = {}
  <2>1. Walk(r, array) = Ended(r.msg)
    BY <1>4 DEF Walk
  <2>2. Ended(r.msg) \in Run /\ Ended(r.msg).msg = r.msg /\ Ended(r.msg).heard = <<>>
        /\ Ended(r.msg).phase = "done"
    BY <1>0 DEF Ended, Run, Phases
  <2>3. r.owed \ Range(r.heard) \subseteq Behind(r, array)
    <3> SUFFICES ASSUME NEW s \in r.owed, s \notin Range(r.heard) PROVE s \in Behind(r, array)
      OBVIOUS
    <3>1. \A j \in DOMAIN r.heard : r.heard[j] # s
      BY DEF Range
    <3>2. \A i \in DOMAIN array : i >= r.next => array[i] # s
      BY <1>2, <1>4 DEF Orderly
    <3> QED BY <3>1, <3>2 DEF Behind
  <2>4. r.owed \ Range(r.heard) \in SUBSET Subs /\ Behind(r, array) \in SUBSET Subs
    BY <1>0, BehindAreSubs
  <2>5. /\ Cardinality(r.owed \ Range(r.heard)) <= Cardinality(Behind(r, array))
        /\ Cardinality(r.owed \ Range(r.heard)) \in Nat
        /\ Cardinality(Behind(r, array)) \in Nat
    BY <2>3, <2>4, Counted
  <2>6. Cardinality(Behind(r, array)) <= r.removed
    BY DEF Orderly
  <2>7. Cardinality(r.owed \ Range(r.heard)) - r.removed <= 0
    BY <1>0, <2>5, <2>6
  <2> QED BY <2>1, <2>2, <2>7
<1>5. CASE ahead # {}
  <2> DEFINE i == CHOOSE j \in ahead : \A k \in ahead : j <= k
             q == Walk(r, array)
             heard == Append(r.heard, array[i])
  <2>1. i \in ahead /\ \A k \in ahead : i <= k
    <3> HIDE DEF ahead
    <3>1. PICK l \in ahead : \A j \in ahead : ~(<<j, l>> \in OpToRel(<, Nat))
      BY <1>1, <1>5, WFMin, NatLessThanWellFounded, Zenon
    <3>2. \A j \in ahead : ~(j < l)
      BY <1>1, <3>1 DEF OpToRel
    <3>3. \A j \in ahead : l <= j
      BY <1>1, <3>2
    <3> QED BY <3>3
  <2>2. q = [r EXCEPT !.phase = "handling", !.nacked = FALSE, !.next = i + 1,
                      !.heard = Append(@, array[i])]
    BY <1>5 DEF Walk
  <2> HIDE DEF i, ahead, q
  <2>3. i \in 1..Len(array) /\ array[i] \in Subs /\ i >= r.next /\ i + 1 \in Nat \ {0}
    BY <1>0, <1>1, <1>3, <2>1
  <2>4. heard \in Seq(Subs)
    BY <1>0, <2>3
  <2>5. /\ q.phase = "handling" /\ q.next = i + 1 /\ q.heard = heard /\ q.msg = r.msg
        /\ q.owed = r.owed /\ q.removed = r.removed /\ q.frozen = r.frozen /\ q.array = r.array
    BY <2>2 DEF Run
  <2>6. q \in Run
    BY <2>2, <2>3, <2>4 DEF Run, Phases
  <2>7. /\ Len(r.heard) \in Nat /\ DOMAIN r.heard = 1..Len(r.heard)
        /\ DOMAIN heard = 1..Len(r.heard) + 1 /\ heard[Len(r.heard) + 1] = array[i]
        /\ \A j \in 1..Len(r.heard) : heard[j] = r.heard[j]
    BY <1>0, <2>3
  <2> HIDE DEF heard
  <2>8. \A j \in 1..Len(r.heard) : r.heard[j] # array[i]
    BY <1>0, <2>3, <2>7 DEF Orderly
  <2>9. IsInjective(heard)
    <3>1. IsInjective(r.heard)
      BY DEF Orderly
    <3>2. \A j, l \in 1..Len(r.heard) : r.heard[j] = r.heard[l] => j = l
      BY <2>7, <3>1, Zenon DEF IsInjective
    <3>3. ASSUME NEW j \in DOMAIN heard, NEW l \in DOMAIN heard, heard[j] = heard[l]
          PROVE  j = l
      <4>1. CASE j \in 1..Len(r.heard) /\ l \in 1..Len(r.heard)
        BY <2>7, <3>2, <3>3, <4>1
      <4>2. CASE j = Len(r.heard) + 1 /\ l \in 1..Len(r.heard)
        BY <2>7, <2>8, <3>3, <4>2
      <4>3. CASE l = Len(r.heard) + 1 /\ j \in 1..Len(r.heard)
        BY <2>7, <2>8, <3>3, <4>3
      <4> QED BY <2>7, <4>1, <4>2, <4>3
    <3> QED BY <3>3 DEF IsInjective
  <2>10. ASSUME NEW j \in DOMAIN heard
         PROVE  /\ r.msg \in Meant[heard[j]]
                /\ \A l \in DOMAIN array : l >= i + 1 => array[l] # heard[j]
    <3>1. CASE j \in 1..Len(r.heard)
      BY <1>0, <2>3, <2>7, <3>1 DEF Orderly
    <3>2. CASE j = Len(r.heard) + 1
      <4>1. r.msg \in Meant[array[i]]
        BY <1>1, <1>2, <1>3, <2>1
      <4>2. \A l \in DOMAIN array : l >= i + 1 => array[l] # array[i]
        BY <1>0, <2>3 DEF Orderly, IsInjective
      <4> QED BY <2>7, <3>2, <4>1, <4>2
    <3> QED BY <2>7, <2>10, <3>1, <3>2
  <2>11. Behind(q, array) \subseteq Behind(r, array)
    <3> SUFFICES ASSUME NEW s \in Behind(q, array) PROVE s \in Behind(r, array)
      OBVIOUS
    <3>1. /\ s \in r.owed /\ \A j \in DOMAIN heard : heard[j] # s
          /\ \A l \in DOMAIN array : l >= i + 1 => array[l] # s
      BY <2>5 DEF Behind
    <3>2. \A j \in DOMAIN r.heard : r.heard[j] # s
      BY <2>7, <3>1
    <3>3. ASSUME NEW l \in DOMAIN array, l >= r.next, array[l] = s PROVE FALSE
      <4>1. l \in ahead
        BY <1>2, <3>1, <3>3 DEF Orderly
      <4>2. i <= l /\ l # i
        <5>1. i <= l
          BY <2>1, <4>1, Zenon
        <5>2. Len(r.heard) + 1 \in DOMAIN heard
          BY <2>7
        <5>3. array[i] # s
          BY <2>7, <3>1, <5>2, Zenon
        <5> QED BY <3>3, <5>1, <5>3, Zenon
      <4>3. l >= i + 1
        <5>1. l \in Nat /\ i \in Nat
          BY <1>0, <2>3, <3>3
        <5> QED BY <4>2, <5>1
      <4> QED BY <3>1, <3>3, <4>3, Zenon
    <3> QED BY <3>1, <3>2, <3>3 DEF Behind
  <2>12. Behind(q, array) \in SUBSET Subs /\ Behind(r, array) \in SUBSET Subs
    BY <2>6, BehindAreSubs
  <2>13. Cardinality(Behind(q, array)) <= Cardinality(Behind(r, array))
         /\ Cardinality(Behind(q, array)) \in Nat /\ Cardinality(Behind(r, array)) \in Nat
    BY <2>11, <2>12, Counted
  <2>14. Cardinality(Behind(q, array)) <= q.removed
    BY <1>0, <2>5, <2>13 DEF Orderly
  <2>15. Orderly(q, array, paused)
    BY <2>3, <2>5, <2>9, <2>10, <2>14 DEF Orderly
  <2>16. /\ q \in Run /\ q.msg = r.msg /\ q.phase # "done"
         /\ q.frozen = r.frozen /\ q.array = r.array
    BY <2>5, <2>6
  <2> QED BY <2>15, <2>16 DEF q
<1> QED BY <1>4, <1>5

\* A dispatch that begins owes nothing that is not ahead of it.
LEMMA FreshIsOrderly ==
  ASSUME NEW m \in Messages, subs \in Seq(Subs), IsInjective(subs)
  PROVE  /\ Fresh(m) \in Run /\ Orderly(Fresh(m), subs, paused)
         /\ Fresh(m).msg = m /\ Fresh(m).owed = Owed(m) /\ Fresh(m).removed = 0
         /\ Fresh(m).heard = <<>> /\ Fresh(m).frozen = FALSE
<1> DEFINE r == Fresh(m)
<1>1. Owed(m) \in SUBSET Subs
  BY DEF Owed, Range
<1>2. /\ r.msg = m /\ r.next = 1 /\ r.owed = Owed(m) /\ r.removed = 0 /\ r.heard = <<>>
      /\ r.frozen = FALSE /\ r.phase = "handling"
  BY DEF Fresh
<1>3. r \in Run
  BY <1>1 DEF Fresh, Run, Phases
<1> HIDE DEF r
<1>4. Behind(r, subs) = {}
  <2> SUFFICES ASSUME NEW s \in Behind(r, subs) PROVE FALSE
    OBVIOUS
  <2>1. s \in Range(subs)
    BY <1>2 DEF Behind, Owed
  <2>2. PICK i \in DOMAIN subs : subs[i] = s
    BY <2>1 DEF Range
  <2> QED BY <1>2, <2>2 DEF Behind
<1>5. Cardinality(Behind(r, subs)) <= r.removed
  BY <1>2, <1>4, FS_EmptySet
<1>6. \A s \in r.owed : s \notin paused /\ r.msg \in Meant[s]
  BY <1>2 DEF Owed
<1>7. IsInjective(<<>>) /\ DOMAIN r.heard = {}
  BY <1>2 DEF IsInjective
<1>8. Orderly(r, subs, paused)
  BY <1>2, <1>5, <1>6, <1>7 DEF Orderly
<1> QED BY <1>2, <1>3, <1>8 DEF r

-----------------------------------------------------------------------------
\* What every step keeps of the array and of the dispatches, and that none ends
\* that has missed more than were hidden from it.
Moved ==
  /\ subs' \in Seq(Subs) /\ IsInjective(subs')
  /\ runs' \in Seq(Run)
  /\ \A d \in DOMAIN runs' : /\ Kept(runs'[d], subs', paused')
                             /\ Ends(d) => Missed(d) <= 0

LEMMA KeptIsTold ==
  ASSUME NEW r \in Run, NEW current, NEW off, Kept(r, current, off)
  PROVE  IsInjective(r.heard) /\ \A s \in Range(r.heard) : r.msg \in Meant[s]
<1>1. CASE r.phase = "done"
  <2>1. r.heard = <<>>
    BY <1>1 DEF Kept
  <2>2. DOMAIN r.heard = {}
    BY <2>1
  <2> QED BY <2>2 DEF IsInjective, Range
<1>2. CASE r.phase # "done"
  BY <1>2 DEF Kept, Orderly, Range
<1> QED BY <1>1, <1>2

LEMMA InvFacts ==
  ASSUME MemoryInv
  PROVE  /\ subs \in Seq(Subs) /\ IsInjective(subs)
         /\ Len(subs) \in Nat /\ DOMAIN subs = 1..Len(subs)
         /\ runs \in Seq(Run) /\ Len(runs) \in Nat /\ DOMAIN runs = 1..Len(runs)
         /\ \A d \in DOMAIN runs : runs[d] \in Run /\ Kept(runs[d], subs, paused)
<1>1. subs \in Seq(Subs) /\ runs \in Seq(Run)
  BY DEF MemoryInv, MemoryTypeOK
<1> QED BY <1>1, LenProperties, ElementOfSeq DEF MemoryInv

LEMMA QuietMoves ==
  ASSUME MemoryInv, UNCHANGED <<subs, paused, runs>>
  PROVE  Moved
BY InvFacts DEF Moved, Ends

LEMMA DispatchMoves ==
  ASSUME MemoryInv, NEW m \in Messages, Dispatch(m), UNCHANGED <<subs, paused>>
  PROVE  Moved /\ Len(runs') = Len(runs) + 1
<1> DEFINE q == Walk(Fresh(m), subs)
<1>0. /\ subs \in Seq(Subs) /\ IsInjective(subs)
      /\ runs \in Seq(Run) /\ Len(runs) \in Nat /\ DOMAIN runs = 1..Len(runs)
      /\ \A d \in DOMAIN runs : Kept(runs[d], subs, paused)
  BY InvFacts
<1>1. /\ Fresh(m) \in Run /\ Orderly(Fresh(m), subs, paused)
      /\ Fresh(m).msg = m /\ Fresh(m).owed = Owed(m) /\ Fresh(m).removed = 0
      /\ Fresh(m).heard = <<>> /\ Fresh(m).frozen = FALSE
  BY <1>0, FreshIsOrderly
<1>2. /\ q \in Run /\ q.msg = m
      /\ IF q.phase = "done"
         THEN /\ q.heard = <<>>
              /\ Cardinality(Fresh(m).owed \ Range(Fresh(m).heard)) - Fresh(m).removed <= 0
         ELSE Orderly(q, subs, paused) /\ q.frozen = FALSE
  BY <1>0, <1>1, WalkKeeps
<1>3. runs' = Append(runs, q)
  BY DEF Dispatch
<1> HIDE DEF q
<1>4. /\ runs' \in Seq(Run) /\ Len(runs') = Len(runs) + 1 /\ DOMAIN runs' = 1..Len(runs) + 1
      /\ \A d \in DOMAIN runs : runs'[d] = runs[d]
      /\ runs'[Len(runs) + 1] = q
  BY <1>0, <1>2, <1>3
<1>5. Kept(q, subs, paused)
  BY <1>2 DEF Kept
<1>6. q.phase = "done" => Cardinality(Owed(m)) <= 0
  <2>1. Owed(m) \ Range(<<>>) = Owed(m)
    BY DEF Range
  <2>2. Owed(m) \in SUBSET Subs
    BY <1>0 DEF Owed, Range
  <2>3. Cardinality(Owed(m)) \in Nat
    BY <2>2, Counted
  <2>4. Fresh(m).owed \ Range(Fresh(m).heard) = Owed(m)
    BY <1>1, <2>1
  <2>5. q.phase = "done" => Cardinality(Owed(m)) - 0 <= 0
    BY <1>1, <1>2, <2>4
  <2> QED BY <2>3, <2>5
<1>7. ASSUME NEW d \in DOMAIN runs'
      PROVE  Kept(runs'[d], subs', paused') /\ (Ends(d) => Missed(d) <= 0)
  <2>1. CASE d \in DOMAIN runs
    BY <1>0, <1>4, <2>1 DEF Ends
  <2>2. CASE d = Len(runs) + 1
    <3>1. d \notin DOMAIN runs
      BY <1>0, <2>2
    <3>2. Ends(d) => Cardinality(Owed(m)) <= 0
      BY <1>4, <1>6, <2>2 DEF Ends
    <3>3. Missed(d) = Cardinality(Owed(m))
      BY <1>2, <1>4, <2>2, <3>1 DEF Missed
    <3> QED BY <1>4, <1>5, <2>2, <3>2, <3>3
  <2> QED BY <1>0, <1>4, <1>7, <2>1, <2>2
<1> QED BY <1>0, <1>4, <1>7 DEF Moved

LEMMA OneMoves ==
  ASSUME MemoryInv, NEW d \in DOMAIN runs, NEW q \in Run,
         runs' = [runs EXCEPT ![d] = q], Kept(q, subs, paused),
         q.phase = "done" /\ runs[d].phase # "done" =>
           Cardinality(runs[d].owed \ Range(runs[d].heard)) - runs[d].removed <= 0,
         UNCHANGED <<subs, paused>>
  PROVE  Moved /\ Len(runs') = Len(runs)
<1>0. /\ subs \in Seq(Subs) /\ IsInjective(subs)
      /\ runs \in Seq(Run) /\ Len(runs) \in Nat /\ DOMAIN runs = 1..Len(runs)
      /\ \A e \in DOMAIN runs : Kept(runs[e], subs, paused)
  BY InvFacts
<1>1. /\ runs' \in Seq(Run) /\ Len(runs') = Len(runs) /\ DOMAIN runs' = DOMAIN runs
      /\ \A e \in DOMAIN runs : runs'[e] = IF e = d THEN q ELSE runs[e]
  BY <1>0, ExceptSeq
<1>2. ASSUME NEW e \in DOMAIN runs'
      PROVE  Kept(runs'[e], subs', paused') /\ (Ends(e) => Missed(e) <= 0)
  <2>1. CASE e = d
    BY <1>1, <2>1 DEF Ends, Missed
  <2>2. CASE e # d
    BY <1>0, <1>1, <2>2 DEF Ends
  <2> QED BY <2>1, <2>2
<1> QED BY <1>0, <1>1, <1>2 DEF Moved

\* A sequence renewed element by element.
LEMMA Renewed ==
  ASSUME NEW n \in Nat, NEW f \in [1..n -> Run]
  PROVE  f \in Seq(Run) /\ Len(f) = n /\ DOMAIN f = 1..n
<1>1. f \in Seq(Run)
  BY SeqDef
<1> QED BY <1>1, LenProperties

\* Every dispatch is renewed and none changes its phase.
LEMMA AllMove ==
  ASSUME MemoryInv, NEW f \in [DOMAIN runs -> Run], runs' = f,
         subs' \in Seq(Subs), IsInjective(subs'),
         \A d \in DOMAIN runs : f[d].phase = runs[d].phase /\ Kept(f[d], subs', paused')
  PROVE  Moved /\ Len(runs') = Len(runs)
<1>0. /\ runs \in Seq(Run) /\ Len(runs) \in Nat /\ DOMAIN runs = 1..Len(runs)
  BY InvFacts
<1>1. runs' \in Seq(Run) /\ Len(runs') = Len(runs) /\ DOMAIN runs' = DOMAIN runs
  BY <1>0, Renewed
<1> QED BY <1>0, <1>1 DEF Moved, Ends

LEMMA SubscribeMoves ==
  ASSUME MemoryInv, NEW s \in Subs, s \notin Known, subs' = Append(subs, s),
         UNCHANGED <<paused, runs>>
  PROVE  Moved
<1>0. /\ subs \in Seq(Subs) /\ IsInjective(subs)
      /\ Len(subs) \in Nat /\ DOMAIN subs = 1..Len(subs)
      /\ runs \in Seq(Run) /\ Len(runs) \in Nat /\ DOMAIN runs = 1..Len(runs)
      /\ \A d \in DOMAIN runs : runs[d] \in Run /\ Kept(runs[d], subs, paused)
  BY InvFacts
<1>1. /\ subs' \in Seq(Subs) /\ DOMAIN subs' = 1..Len(subs) + 1
      /\ \A i \in 1..Len(subs) : subs'[i] = subs[i]
      /\ subs'[Len(subs) + 1] = s
  BY <1>0
<1>2. \A i \in DOMAIN subs : subs[i] # s
  BY DEF Known, Range
<1>3. IsInjective(subs')
  BY <1>0, <1>1, <1>2 DEF IsInjective
<1>4. ASSUME NEW d \in DOMAIN runs PROVE Kept(runs[d], subs', paused)
  <2>1. \A j \in DOMAIN runs[d].heard : runs[d].heard[j] # s
    BY DEF Known, Range
  <2>2. CASE runs[d].phase = "done"
    BY <1>0, <2>2 DEF Kept
  <2>3. CASE runs[d].phase # "done" /\ runs[d].frozen
    BY <1>0, <2>3 DEF Kept
  <2>4. CASE runs[d].phase # "done" /\ ~runs[d].frozen
    <3>1. Orderly(runs[d], subs, paused) /\ runs[d] \in Run
      BY <1>0, <2>4 DEF Kept
    <3>2. Orderly(runs[d], Append(subs, s), paused)
      BY <1>0, <1>2, <2>1, <3>1, JoinKeeps
    <3> QED BY <2>4, <3>2 DEF Kept
  <2> QED BY <2>2, <2>3, <2>4
<1> QED BY <1>0, <1>1, <1>3, <1>4 DEF Moved, Ends

LEMMA ExcuseIsRun ==
  ASSUME MemoryInv, NEW s, NEW spliced \in BOOLEAN
  PROVE  /\ Excuse(s, spliced) \in [DOMAIN runs -> Run]
         /\ \A d \in DOMAIN runs :
              Excuse(s, spliced)[d] =
                IF runs[d].phase = "done" THEN runs[d]
                ELSE Less(runs[d], s, IF spliced /\ ~runs[d].frozen THEN 1 ELSE 0)
         /\ \A d \in DOMAIN runs : Excuse(s, spliced)[d].phase = runs[d].phase
<1> DEFINE n(d) == IF spliced /\ ~runs[d].frozen THEN 1 ELSE 0
<1>1. \A d \in DOMAIN runs : runs[d] \in Run
  BY InvFacts
<1>2. ASSUME NEW d \in DOMAIN runs
      PROVE  /\ Excuse(s, spliced)[d] = IF runs[d].phase = "done" THEN runs[d] ELSE Less(runs[d], s, n(d))
             /\ Excuse(s, spliced)[d] \in Run
             /\ Excuse(s, spliced)[d].phase = runs[d].phase
  <2>1. Excuse(s, spliced)[d] = IF runs[d].phase = "done" THEN runs[d] ELSE Less(runs[d], s, n(d))
    BY DEF Excuse, Less
  <2>2. n(d) \in Nat
    OBVIOUS
  <2> HIDE DEF n
  <2>3. Less(runs[d], s, n(d)) \in Run /\ Less(runs[d], s, n(d)).phase = runs[d].phase
    BY <1>1, <2>2, Excused
  <2> QED BY <1>1, <2>1, <2>3
<1>3. DOMAIN Excuse(s, spliced) = DOMAIN runs
  BY DEF Excuse
<1>4. Excuse(s, spliced) \in [DOMAIN runs -> Run]
  <2>1. Excuse(s, spliced) = [d \in DOMAIN runs |-> Excuse(s, spliced)[d]]
    BY DEF Excuse
  <2> QED BY <1>2, <2>1
<1> QED BY <1>2, <1>4

LEMMA PauseMoves ==
  ASSUME MemoryInv, NEW s \in Subs, runs' = Excuse(s, FALSE),
         paused' = paused \cup {s}, UNCHANGED subs
  PROVE  Moved /\ Len(runs') = Len(runs)
<1>0. /\ subs \in Seq(Subs) /\ IsInjective(subs)
      /\ \A d \in DOMAIN runs : runs[d] \in Run /\ Kept(runs[d], subs, paused)
  BY InvFacts
<1>1. /\ Excuse(s, FALSE) \in [DOMAIN runs -> Run]
      /\ \A d \in DOMAIN runs :
           Excuse(s, FALSE)[d] = IF runs[d].phase = "done" THEN runs[d] ELSE Less(runs[d], s, 0)
      /\ \A d \in DOMAIN runs : Excuse(s, FALSE)[d].phase = runs[d].phase
  BY ExcuseIsRun
<1>2. ASSUME NEW d \in DOMAIN runs PROVE Kept(Excuse(s, FALSE)[d], subs, paused \cup {s})
  <2>1. CASE runs[d].phase = "done"
    BY <1>0, <1>1, <2>1 DEF Kept
  <2>2. CASE runs[d].phase # "done"
    <3> DEFINE array == IF runs[d].frozen THEN runs[d].array ELSE subs
    <3>1. Orderly(runs[d], array, paused) /\ runs[d] \in Run
      BY <1>0, <2>2 DEF Kept
    <3> HIDE DEF array
    <3>2. Orderly(Less(runs[d], s, 0), array, paused \cup {s})
      BY <3>1, ExcuseKeeps
    <3>3. Less(runs[d], s, 0).frozen = runs[d].frozen /\ Less(runs[d], s, 0).array = runs[d].array
      BY <3>1, Excused
    <3>4. Kept(Less(runs[d], s, 0), subs, paused \cup {s})
      BY <1>1, <2>2, <3>2, <3>3 DEF Kept, array
    <3> QED BY <1>1, <2>2, <3>4
  <2> QED BY <2>1, <2>2
<1> QED BY <1>0, <1>1, <1>2, AllMove

LEMMA SpliceMoves ==
  ASSUME MemoryInv, NEW s, Splice(s), UNCHANGED paused
  PROVE  Moved /\ Len(runs') = Len(runs)
<1>0. /\ subs \in Seq(Subs) /\ IsInjective(subs)
      /\ Len(subs) \in Nat /\ DOMAIN subs = 1..Len(subs)
      /\ \A d \in DOMAIN runs : runs[d] \in Run /\ Kept(runs[d], subs, paused)
  BY InvFacts
<1>1. subs' = RemoveFirst(subs, s) /\ runs' = Excuse(s, s \in Range(subs))
  BY DEF Splice
<1> DEFINE spliced == s \in Range(subs)
           n(d) == IF spliced /\ ~runs[d].frozen THEN 1 ELSE 0
<1>2. spliced \in BOOLEAN
  OBVIOUS
<1>3. /\ Excuse(s, spliced) \in [DOMAIN runs -> Run]
      /\ \A d \in DOMAIN runs :
           Excuse(s, spliced)[d] = IF runs[d].phase = "done" THEN runs[d] ELSE Less(runs[d], s, n(d))
      /\ \A d \in DOMAIN runs : Excuse(s, spliced)[d].phase = runs[d].phase
  <2> HIDE DEF spliced
  <2> QED BY <1>2, ExcuseIsRun
\* A dispatch that walks another array, or none that has changed.
<1>4. ASSUME NEW d \in DOMAIN runs, runs[d].phase = "done" \/ runs[d].frozen \/ subs' = subs,
             runs[d].phase # "done" => n(d) = 0
      PROVE  Kept(Excuse(s, spliced)[d], subs', paused)
  <2>1. CASE runs[d].phase = "done"
    BY <1>0, <1>3, <2>1 DEF Kept
  <2>2. CASE runs[d].phase # "done"
    <3> DEFINE array == IF runs[d].frozen THEN runs[d].array ELSE subs
    <3>1. Orderly(runs[d], array, paused) /\ runs[d] \in Run
      BY <1>0, <2>2 DEF Kept
    <3>0. array = IF runs[d].frozen THEN runs[d].array ELSE subs'
      BY <1>4, <2>2
    <3> HIDE DEF array
    <3>2. Orderly(Less(runs[d], s, 0), array, paused)
      <4>1. paused \subseteq paused \cup {s}
        OBVIOUS
      <4> QED BY <3>1, <4>1, ExcuseKeeps
    <3>3. /\ Less(runs[d], s, 0).frozen = runs[d].frozen
          /\ Less(runs[d], s, 0).array = runs[d].array
          /\ Less(runs[d], s, 0).phase = runs[d].phase
      BY <3>1, Excused
    <3>4. Kept(Less(runs[d], s, 0), subs', paused)
      BY <2>2, <3>0, <3>2, <3>3 DEF Kept
    <3>5. Excuse(s, spliced)[d] = Less(runs[d], s, n(d)) /\ n(d) = 0
      BY <1>3, <1>4, <2>2
    <3> QED BY <3>4, <3>5
  <2> QED BY <2>1, <2>2
<1>5. CASE subs' = subs /\ \A i \in DOMAIN subs : subs[i] # s
  <2>1. \A d \in DOMAIN runs : n(d) = 0
    BY <1>5 DEF Range
  <2>2. \A d \in DOMAIN runs : Kept(Excuse(s, spliced)[d], subs', paused)
    BY <1>4, <1>5, <2>1
  <2> HIDE DEF spliced
  <2> QED BY <1>0, <1>1, <1>3, <1>5, <2>2, AllMove DEF spliced
<1>6. ASSUME NEW k \in DOMAIN subs, subs[k] = s, subs' \in Seq(Subs), Len(subs') = Len(subs) - 1,
             \A i \in 1..Len(subs) - 1 : subs'[i] = IF i < k THEN subs[i] ELSE subs[i + 1]
      PROVE  Moved /\ Len(runs') = Len(runs)
  <2>0. spliced
    BY <1>6 DEF Range
  <2>1. DOMAIN subs' = 1..Len(subs) - 1
    BY <1>0, <1>6
  <2>2. IsInjective(subs')
    <3> SUFFICES ASSUME NEW x \in DOMAIN subs', NEW y \in DOMAIN subs', subs'[x] = subs'[y]
                 PROVE  x = y
      BY DEF IsInjective
    <3>1. /\ x \in DOMAIN subs /\ x + 1 \in DOMAIN subs
          /\ y \in DOMAIN subs /\ y + 1 \in DOMAIN subs
      BY <1>0, <2>1
    <3>2. \A a, b \in DOMAIN subs : subs[a] = subs[b] => a = b
      BY <1>0 DEF IsInjective
    <3> QED BY <1>0, <1>6, <2>1, <3>1, <3>2
  <2>3. ASSUME NEW d \in DOMAIN runs PROVE Kept(Excuse(s, spliced)[d], subs', paused)
    <3>1. CASE runs[d].phase = "done" \/ runs[d].frozen
      BY <1>4, <3>1
    <3>2. CASE runs[d].phase # "done" /\ ~runs[d].frozen
      <4>1. Orderly(runs[d], subs, paused) /\ runs[d] \in Run
        BY <1>0, <3>2 DEF Kept
      <4>2. Orderly(Less(runs[d], s, 1), subs', paused)
        BY <1>0, <1>6, <4>1, SpliceKeeps
      <4>3. /\ Less(runs[d], s, 1).frozen = runs[d].frozen
            /\ Less(runs[d], s, 1).phase = runs[d].phase
        BY <4>1, Excused
      <4>4. Kept(Less(runs[d], s, 1), subs', paused)
        BY <3>2, <4>2, <4>3 DEF Kept
      <4>5. n(d) = 1
        BY <2>0, <3>2
      <4>6. Excuse(s, spliced)[d] = Less(runs[d], s, n(d))
        BY <1>3, <3>2, Zenon
      <4> QED BY <4>4, <4>5, <4>6, Zenon
    <3> QED BY <3>1, <3>2
  <2> HIDE DEF spliced
  <2> QED BY <1>0, <1>1, <1>3, <1>6, <2>2, <2>3, AllMove DEF spliced
<1>7. \/ /\ RemoveFirst(subs, s) = subs
         /\ \A i \in DOMAIN subs : subs[i] # s
      \/ \E k \in DOMAIN subs :
           /\ subs[k] = s
           /\ RemoveFirst(subs, s) \in Seq(Subs)
           /\ Len(RemoveFirst(subs, s)) = Len(subs) - 1
           /\ \A i \in 1..Len(subs) - 1 :
                RemoveFirst(subs, s)[i] = IF i < k THEN subs[i] ELSE subs[i + 1]
  BY <1>0, Spliced, Zenon
<1> QED BY <1>1, <1>5, <1>6, <1>7, Zenon

LEMMA ResumeMoves ==
  ASSUME MemoryInv, paused' \subseteq paused, UNCHANGED <<subs, runs>>
  PROVE  Moved
<1>0. /\ subs \in Seq(Subs) /\ IsInjective(subs) /\ runs \in Seq(Run)
      /\ \A d \in DOMAIN runs : runs[d] \in Run /\ Kept(runs[d], subs, paused)
  BY InvFacts
<1>1. ASSUME NEW d \in DOMAIN runs PROVE Kept(runs[d], subs, paused')
  BY <1>0 DEF Kept, Orderly
<1> QED BY <1>0, <1>1 DEF Moved, Ends

\* disconnect() puts a new array in the place of the one every loop walks.
LEMMA DisconnectMoves ==
  ASSUME MemoryInv, Disconnect, UNCHANGED paused
  PROVE  Moved /\ Len(runs') = Len(runs)
<1> DEFINE f == [d \in DOMAIN runs |->
                  IF runs[d].phase = "done" \/ runs[d].frozen THEN runs[d]
                  ELSE [runs[d] EXCEPT !.frozen = TRUE, !.array = subs]]
<1>0. /\ subs \in Seq(Subs) /\ IsInjective(subs)
      /\ \A d \in DOMAIN runs : runs[d] \in Run /\ Kept(runs[d], subs, paused)
  BY InvFacts
<1>1. /\ subs' = <<>> /\ runs' = f
  BY DEF Disconnect
<1>2. subs' \in Seq(Subs) /\ IsInjective(subs')
  <2>1. <<>> \in Seq(Subs) /\ DOMAIN <<>> = {}
    OBVIOUS
  <2> QED BY <1>1, <2>1 DEF IsInjective
<1>3. ASSUME NEW d \in DOMAIN runs
      PROVE  f[d] \in Run /\ f[d].phase = runs[d].phase /\ Kept(f[d], subs', paused')
  <2>1. CASE runs[d].phase = "done"
    BY <1>0, <2>1 DEF Kept
  <2>2. CASE runs[d].phase # "done" /\ runs[d].frozen
    BY <1>0, <2>2 DEF Kept
  <2>3. CASE runs[d].phase # "done" /\ ~runs[d].frozen
    <3> DEFINE r == runs[d]
               q == [r EXCEPT !.frozen = TRUE, !.array = subs]
    <3>1. f[d] = q
      BY <2>3
    <3>2. r \in Run /\ Orderly(r, subs, paused)
      BY <1>0, <2>3 DEF Kept
    <3> HIDE DEF r
    <3>3. /\ q.phase = r.phase /\ q.frozen = TRUE /\ q.array = subs /\ q.heard = r.heard
          /\ q.next = r.next /\ q.msg = r.msg /\ q.owed = r.owed /\ q.removed = r.removed
      BY <3>2 DEF Run
    <3>4. q \in Run
      BY <1>0, <3>2 DEF Run
    <3> HIDE DEF q
    <3>5. Behind(q, subs) = Behind(r, subs)
      BY <3>3 DEF Behind
    <3>6. Orderly(q, subs, paused)
      BY <3>2, <3>3, <3>5 DEF Orderly
    <3>7. q.phase # "done"
      BY <2>3, <3>3 DEF r
    <3>8. Kept(q, subs', paused')
      BY <3>3, <3>6, <3>7 DEF Kept
    <3> HIDE DEF f
    <3> QED BY <3>1, <3>3, <3>4, <3>8 DEF r
  <2> QED BY <2>1, <2>2, <2>3
<1>4. f \in [DOMAIN runs -> Run]
  BY <1>3
<1> HIDE DEF f
<1> QED BY <1>1, <1>2, <1>3, <1>4, AllMove

-----------------------------------------------------------------------------
\* The rest of the state: everything but the array and the dispatches.
RestOK ==
  /\ connected \in BOOLEAN /\ started \in BOOLEAN /\ wired \in BOOLEAN
  /\ starting \in BOOLEAN /\ stopping \in Nat
  /\ mine \in Seq(Subs) /\ paused \subseteq Subs
  /\ delayed \in Seq(Messages) /\ due \subseteq Range(delayed)
  /\ requeued \in Seq(Messages) /\ requeues \in 0..MaxRequeues
  /\ batch \in [rest : Seq(Messages), awaits : Nat] /\ batch.awaits <= Len(runs)
  /\ sessions \in 1..MaxSessions /\ ready \in Nat /\ dropped \subseteq Messages

LEMMA InvHasRest == MemoryInv => RestOK
BY DEF MemoryInv, MemoryTypeOK, RestOK

LEMMA InvFromParts == Moved /\ RestOK' => MemoryInv'
<1> SUFFICES ASSUME Moved, RestOK' PROVE MemoryInv'
  OBVIOUS
<1>1. \A d \in DOMAIN runs' : runs'[d] \in Run
  BY LenProperties, ElementOfSeq DEF Moved
<1>2. \A d \in DOMAIN runs' : runs'[d].msg \in Messages /\ runs'[d].phase \in Phases
  BY <1>1, RunFields
<1>3. MemoryTypeOK'
  BY <1>2 DEF MemoryTypeOK, RestOK, Moved
<1> QED BY <1>3 DEF MemoryInv, Moved

\* Every dispatch of a step is still there after it.
LEMMA AwaitsStays ==
  ASSUME MemoryInv, Moved, Len(runs') \in {Len(runs), Len(runs) + 1}
  PROVE  batch.awaits <= Len(runs') /\ Len(runs') \in Nat
<1>1. Len(runs) \in Nat /\ batch.awaits \in Nat /\ batch.awaits <= Len(runs)
  BY InvFacts, InvHasRest DEF RestOK
<1> QED BY <1>1

LEMMA DelayTypes ==
  ASSUME MemoryInv, NEW m \in Messages, Delay(m)
  PROVE  delayed' \in Seq(Messages) /\ due \subseteq Range(delayed')
<1>1. delayed \in Seq(Messages) /\ due \subseteq Range(delayed) /\ Len(delayed) \in Nat
      /\ DOMAIN delayed = 1..Len(delayed)
  BY InvHasRest, LenProperties DEF RestOK
<1>2. PICK i \in 1..Len(delayed) + 1 : delayed' = InsertAt(delayed, i, m)
  BY DEF Delay
<1> DEFINE a == SubSeq(delayed, 1, i - 1)
           b == SubSeq(delayed, i, Len(delayed))
<1>3. delayed' = (a \o <<m>>) \o b
  BY <1>2 DEF InsertAt
<1>4. /\ a \in Seq(Messages) /\ Len(a) = i - 1
      /\ \A j \in 1..i - 1 : a[j] = delayed[j]
  <2>1. \A j \in 1..i - 1 : delayed[j] \in Messages
    BY <1>1
  <2> QED BY <1>1, <2>1, SubSeqProperties
<1>5. /\ b \in Seq(Messages) /\ Len(b) = Len(delayed) - i + 1
      /\ \A j \in 1..Len(delayed) - i + 1 : b[j] = delayed[i + j - 1]
  <2>1. \A j \in i..Len(delayed) : delayed[j] \in Messages
    BY <1>1
  <2> QED BY <1>1, <2>1, SubSeqProperties
<1> HIDE DEF a, b
<1>6. /\ a \o <<m>> \in Seq(Messages) /\ Len(a \o <<m>>) = i
      /\ \A j \in 1..i - 1 : (a \o <<m>>)[j] = a[j]
  BY <1>4
<1>7. /\ delayed' \in Seq(Messages) /\ Len(delayed') = i + Len(b)
      /\ \A j \in 1..i + Len(b) : delayed'[j] = IF j <= i THEN (a \o <<m>>)[j] ELSE b[j - i]
  <2> DEFINE c == a \o <<m>>
  <2>1. c \in Seq(Messages) /\ Len(c) = i /\ delayed' = c \o b
    BY <1>3, <1>6
  <2>2. b \in Seq(Messages) /\ Len(b) \in Nat
    BY <1>1, <1>5
  <2> HIDE DEF c
  <2>3. /\ c \o b \in Seq(Messages) /\ Len(c \o b) = Len(c) + Len(b)
        /\ \A j \in 1..Len(c) + Len(b) : (c \o b)[j] = IF j <= Len(c) THEN c[j] ELSE b[j - Len(c)]
    BY <2>1, <2>2, ConcatProperties, Zenon
  <2>4. /\ delayed' \in Seq(Messages) /\ Len(delayed') = i + Len(b)
        /\ \A j \in 1..i + Len(b) : delayed'[j] = IF j <= i THEN c[j] ELSE b[j - i]
    BY <2>1, <2>3, Zenon
  <2> QED BY <2>4 DEF c
<1>8. DOMAIN delayed' = 1..Len(delayed) + 1
  BY <1>1, <1>5, <1>7
<1>9. ASSUME NEW j \in DOMAIN delayed PROVE \E k \in DOMAIN delayed' : delayed'[k] = delayed[j]
  <2>1. CASE j < i
    <3>1. j \in 1..i - 1 /\ j \in 1..i + Len(b) /\ j <= i /\ j \in 1..Len(delayed) + 1
      BY <1>1, <1>5, <2>1
    <3>2. delayed'[j] = (a \o <<m>>)[j]
      BY <1>7, <3>1
    <3>3. (a \o <<m>>)[j] = a[j] /\ a[j] = delayed[j]
      BY <1>4, <1>6, <3>1
    <3>4. j \in DOMAIN delayed'
      BY <1>8, <3>1
    <3> QED BY <3>2, <3>3, <3>4
  <2>2. CASE j >= i
    <3>0. PICK k : k = j + 1
      OBVIOUS
    <3>1. PICK l : l = k - i
      OBVIOUS
    <3>2. /\ k \in 1..i + Len(b) /\ ~(k <= i) /\ l \in 1..Len(delayed) - i + 1
          /\ i + l - 1 = j /\ k \in 1..Len(delayed) + 1
      BY <1>1, <1>5, <2>2, <3>0, <3>1
    <3>3. delayed'[k] = b[l]
      BY <1>7, <3>1, <3>2
    <3>4. b[l] = delayed[j]
      BY <1>5, <3>2
    <3>5. k \in DOMAIN delayed'
      BY <1>8, <3>2
    <3> QED BY <3>3, <3>4, <3>5
  <2>3. j < i \/ j >= i
    BY <1>1
  <2> QED BY <2>1, <2>2, <2>3, Zenon
<1> QED BY <1>1, <1>7, <1>9 DEF Range

LEMMA ShiftTypes ==
  ASSUME MemoryInv, delayed # <<>>
  PROVE  /\ Head(delayed) \in Messages /\ Tail(delayed) \in Seq(Messages)
         /\ due \ {Head(delayed)} \subseteq Range(Tail(delayed))
<1>1. delayed \in Seq(Messages) /\ due \subseteq Range(delayed) /\ Len(delayed) \in Nat
      /\ DOMAIN delayed = 1..Len(delayed)
  BY InvHasRest, LenProperties DEF RestOK
<1>2. /\ Head(delayed) \in Messages /\ Head(delayed) = delayed[1] /\ Tail(delayed) \in Seq(Messages)
      /\ Len(Tail(delayed)) = Len(delayed) - 1
      /\ \A i \in 1..Len(Tail(delayed)) : Tail(delayed)[i] = delayed[i + 1]
  BY <1>1, HeadTailProperties
<1>3. ASSUME NEW x \in due, x # Head(delayed) PROVE x \in Range(Tail(delayed))
  <2>1. PICK i \in DOMAIN delayed : delayed[i] = x
    BY <1>1 DEF Range
  <2>2. i # 1
    BY <1>2, <1>3, <2>1
  <2>3. i - 1 \in 1..Len(Tail(delayed)) /\ (i - 1) + 1 = i
    BY <1>1, <1>2, <2>1, <2>2
  <2>4. Tail(delayed)[i - 1] = x /\ DOMAIN Tail(delayed) = 1..Len(Tail(delayed))
    BY <1>2, <2>1, <2>3
  <2> QED BY <2>3, <2>4 DEF Range
<1> QED BY <1>2, <1>3

\* send(): later, or at once.
LEMMA SendMoves ==
  ASSUME MemoryInv, NEW m \in Messages, Send(m), UNCHANGED <<subs, paused>>
  PROVE  /\ Moved /\ Len(runs') \in {Len(runs), Len(runs) + 1}
         /\ delayed' \in Seq(Messages) /\ due \subseteq Range(delayed')
<1>1. CASE Delay(m)
  <2>1. UNCHANGED runs
    BY <1>1 DEF Delay
  <2>2. Moved
    BY <2>1, QuietMoves
  <2> QED BY <1>1, <2>1, <2>2, DelayTypes
<1>2. CASE Dispatch(m) /\ UNCHANGED delayed
  <2>1. Moved /\ Len(runs') = Len(runs) + 1
    BY <1>2, DispatchMoves
  <2> QED BY <1>2, <2>1, InvHasRest DEF RestOK
<1> QED BY <1>1, <1>2 DEF Send

LEMMA DisconnectTypes ==
  ASSUME MemoryInv, Disconnect, UNCHANGED paused
  PROVE  /\ Moved /\ Len(runs') = Len(runs)
         /\ connected' \in BOOLEAN /\ delayed' \in Seq(Messages)
         /\ due' \subseteq Range(delayed') /\ dropped' \subseteq Messages
<1>1. Moved /\ Len(runs') = Len(runs)
  BY DisconnectMoves
<1>2. delayed \in Seq(Messages) /\ dropped \subseteq Messages
  BY InvHasRest DEF RestOK
<1>3. Range(delayed) \subseteq Messages
  BY <1>2, LenProperties, ElementOfSeq DEF Range
<1>4. /\ connected' = FALSE /\ delayed' = <<>> /\ due' = {}
      /\ dropped' = dropped \cup Range(delayed)
  BY DEF Disconnect
<1>5. delayed' \in Seq(Messages) /\ connected' \in BOOLEAN
  BY <1>4, EmptySeq, Zenon
<1>6. due' \subseteq Range(delayed') /\ dropped' \subseteq Messages
  BY <1>2, <1>3, <1>4
<1> QED BY <1>1, <1>5, <1>6

-----------------------------------------------------------------------------
MayMove == Moved /\ Len(runs') \in {Len(runs), Len(runs) + 1} /\ RestOK'

LEMMA DispatchingMoves ==
  ASSUME MemoryInv, Dispatching PROVE MayMove
<1>0. /\ runs \in Seq(Run) /\ Len(runs) \in Nat
      /\ \A d \in DOMAIN runs : runs[d] \in Run /\ Kept(runs[d], subs, paused)
  BY InvFacts
<1>1. RestOK
  BY InvHasRest
<1>2. PICK d \in DOMAIN runs : Nacks(d) \/ HandlerEnds(d) \/ Continues(d)
  BY DEF Dispatching
<1> DEFINE r == runs[d]
<1>3. r \in Run /\ Kept(r, subs, paused) /\ r.msg \in Messages
  BY <1>0, RunFields
<1>4. CASE Nacks(d)
  <2> DEFINE q == [r EXCEPT !.nacked = TRUE]
  <2>1. runs' = [runs EXCEPT ![d] = q] /\ UNCHANGED <<subs, paused>>
    BY <1>4 DEF Nacks
  <2>2. r.phase = "handling"
    BY <1>4 DEF Nacks
  <2> HIDE DEF r
  <2>3. q \in Run /\ q.phase = r.phase /\ q.frozen = r.frozen /\ q.array = r.array
        /\ q.heard = r.heard /\ q.next = r.next /\ q.msg = r.msg /\ q.owed = r.owed
        /\ q.removed = r.removed
    BY <1>3 DEF Run
  <2> HIDE DEF q
  <2>4. Kept(q, subs, paused)
    BY <1>3, <2>3 DEF Kept, Orderly, Behind
  <2>5. q.phase # "done"
    BY <2>2, <2>3
  <2>6. Moved /\ Len(runs') = Len(runs)
    BY <2>1, <2>3, <2>4, <2>5, OneMoves
  <2>7. RestOK'
    <3>1. requeued' = Append(requeued, r.msg) /\ requeues' = requeues + 1 /\ requeues < MaxRequeues
      BY <1>4 DEF Nacks, r
    <3>2. requeued' \in Seq(Messages) /\ requeues' \in 0..MaxRequeues
      BY <1>1, <1>3, <3>1, MemoryBoundsAssumption DEF RestOK
    <3>3. UNCHANGED <<connected, paused, queue, batch, service, sessions, ready, dropped>>
      BY <1>4 DEF Nacks
    <3> QED BY <1>1, <2>6, <3>2, <3>3 DEF RestOK, queue, service
  <2> QED BY <2>6, <2>7 DEF MayMove
<1>5. CASE HandlerEnds(d)
  <2> DEFINE q == [r EXCEPT !.phase = "settling"]
  <2>1. runs' = [runs EXCEPT ![d] = q] /\ UNCHANGED <<subs, paused>>
    BY <1>5 DEF HandlerEnds
  <2>2. r.phase = "handling"
    BY <1>5 DEF HandlerEnds
  <2> HIDE DEF r
  <2>3. q \in Run /\ q.phase = "settling" /\ q.frozen = r.frozen /\ q.array = r.array
        /\ q.heard = r.heard /\ q.next = r.next /\ q.msg = r.msg /\ q.owed = r.owed
        /\ q.removed = r.removed
    BY <1>3 DEF Run, Phases
  <2> HIDE DEF q
  <2>4. Kept(q, subs, paused)
    BY <1>3, <2>2, <2>3 DEF Kept, Orderly, Behind
  <2>6. Moved /\ Len(runs') = Len(runs)
    BY <2>1, <2>3, <2>4, OneMoves
  <2>7. RestOK'
    <3>3. UNCHANGED <<connected, paused, queue, immediate, batch, service, sessions, ready, dropped>>
      BY <1>5 DEF HandlerEnds
    <3> QED BY <1>1, <2>6, <3>3 DEF RestOK, queue, service, immediate
  <2> QED BY <2>6, <2>7 DEF MayMove
<1>6. CASE Continues(d)
  <2> DEFINE q == Walk(r, Walked(r))
  <2>1. runs' = [runs EXCEPT ![d] = q] /\ UNCHANGED <<subs, paused>>
    BY <1>6 DEF Continues
  <2>2. r.phase = "settling"
    BY <1>6 DEF Continues
  <2>s. subs \in Seq(Subs)
    BY InvFacts
  <2>3. Walked(r) \in Seq(Subs) /\ Orderly(r, Walked(r), paused)
        /\ Walked(r) = IF r.frozen THEN r.array ELSE subs
    BY <1>3, <2>2, <2>s, RunFields DEF Kept, Walked
  <2> HIDE DEF r
  <2>4. /\ q \in Run
        /\ IF q.phase = "done"
           THEN q.heard = <<>> /\ Cardinality(r.owed \ Range(r.heard)) - r.removed <= 0
           ELSE Orderly(q, Walked(r), paused) /\ q.frozen = r.frozen /\ q.array = r.array
    BY <1>3, <2>3, WalkKeeps
  <2> HIDE DEF q
  <2>5. Kept(q, subs, paused)
    BY <2>3, <2>4 DEF Kept
  <2>6. Moved /\ Len(runs') = Len(runs)
    BY <2>1, <2>4, <2>5, OneMoves DEF r
  <2>7. RestOK'
    <3>3. UNCHANGED <<connected, paused, queue, immediate, batch, service, sessions, ready, dropped>>
      BY <1>6 DEF Continues
    <3> QED BY <1>1, <2>6, <3>3 DEF RestOK, queue, service, immediate
  <2> QED BY <2>6, <2>7 DEF MayMove
<1> QED BY <1>2, <1>4, <1>5, <1>6

LEMMA PublishingMoves ==
  ASSUME MemoryInv, Publishing PROVE MayMove
<1>0. RestOK /\ Len(runs) \in Nat
  BY InvHasRest, InvFacts
<1>1. ASSUME NEW m \in Messages, Publish(m) PROVE MayMove
  <2>1. Send(m) /\ UNCHANGED <<connected, subs, paused, due, immediate, batch, service, sessions, ready, dropped>>
    BY <1>1 DEF Publish
  <2>2. /\ Moved /\ Len(runs') \in {Len(runs), Len(runs) + 1}
        /\ delayed' \in Seq(Messages) /\ due \subseteq Range(delayed')
    BY <2>1, SendMoves
  <2>3. batch.awaits <= Len(runs')
    BY <2>2, AwaitsStays
  <2>4. RestOK'
    BY <1>0, <2>1, <2>2, <2>3 DEF RestOK, service, immediate
  <2> QED BY <2>2, <2>4 DEF MayMove
<1>2. ASSUME NEW m \in Messages, BecomesDue(m) PROVE MayMove
  <2>1. UNCHANGED <<connected, subs, paused, delayed, runs, immediate, batch, service, sessions, ready, dropped>>
        /\ due' = due \cup {m} /\ \E i \in 1..Len(delayed) : delayed[i] = m
    BY <1>2 DEF BecomesDue
  <2>2. Moved
    BY <2>1, QuietMoves
  <2>3. m \in Range(delayed)
    <3>1. DOMAIN delayed = 1..Len(delayed)
      BY <1>0, LenProperties DEF RestOK
    <3> QED BY <2>1, <3>1 DEF Range
  <2>4. RestOK'
    BY <1>0, <2>1, <2>3 DEF RestOK, service, immediate
  <2> QED BY <2>1, <2>2, <2>4 DEF MayMove
<1>3. ASSUME NEW two \in Messages \X Messages, PublishBatch(two) PROVE MayMove
  <2>1. UNCHANGED <<connected, subs, paused, queue, runs, immediate, service, sessions, ready, dropped>>
        /\ batch' = [rest |-> two, awaits |-> 0]
    BY <1>3 DEF PublishBatch
  <2>2. Moved
    BY <2>1, QuietMoves
  <2>3. two \in Seq(Messages)
    <3>1. PICK a \in Messages, b \in Messages : two = <<a, b>>
      OBVIOUS
    <3>2. <<a, b>> \in Seq(Messages)
      OBVIOUS
    <3> QED BY <3>1, <3>2
  <2>4. batch' \in [rest : Seq(Messages), awaits : Nat] /\ batch'.awaits = 0
    BY <2>1, <2>3
  <2>5. RestOK'
    BY <1>0, <2>1, <2>4 DEF RestOK, queue, service, immediate
  <2> QED BY <2>1, <2>2, <2>5 DEF MayMove
<1>4. ASSUME BatchContinues PROVE MayMove
  <2> DEFINE m == Head(batch.rest)
  <2>1. /\ batch.rest # <<>> /\ batch.rest \in Seq(Messages)
        /\ UNCHANGED <<connected, subs, paused, due, immediate, service, sessions, ready, dropped>>
    BY <1>0, <1>4 DEF BatchContinues, RestOK
  <2>2. m \in Messages /\ Tail(batch.rest) \in Seq(Messages)
    BY <2>1, HeadTailProperties
  <2>3. \/ /\ Send(m)
           /\ batch' = [rest |-> Tail(batch.rest),
                        awaits |-> IF Len(runs') > Len(runs) THEN Len(runs') ELSE 0]
        \/ batch' = NoBatch /\ UNCHANGED <<runs, delayed>>
    BY <1>4 DEF BatchContinues
  <2> HIDE DEF m
  <2>4. CASE /\ Send(m)
             /\ batch' = [rest |-> Tail(batch.rest),
                          awaits |-> IF Len(runs') > Len(runs) THEN Len(runs') ELSE 0]
    <3>1. /\ Moved /\ Len(runs') \in {Len(runs), Len(runs) + 1}
          /\ delayed' \in Seq(Messages) /\ due \subseteq Range(delayed')
      BY <2>1, <2>2, <2>4, SendMoves
    <3>2. batch' \in [rest : Seq(Messages), awaits : Nat] /\ batch'.awaits <= Len(runs')
      BY <1>0, <2>2, <2>4, <3>1
    <3>3. RestOK'
      BY <1>0, <2>1, <3>1, <3>2 DEF RestOK, service, immediate
    <3> QED BY <3>1, <3>3 DEF MayMove
  <2>5. CASE batch' = NoBatch /\ UNCHANGED <<runs, delayed>>
    <3>1. Moved
      BY <2>1, <2>5, QuietMoves
    <3>2. batch' \in [rest : Seq(Messages), awaits : Nat] /\ batch'.awaits = 0
      BY <2>5 DEF NoBatch
    <3>3. RestOK'
      BY <1>0, <2>1, <2>5, <3>2 DEF RestOK, service, immediate
    <3> QED BY <2>5, <3>1, <3>3 DEF MayMove
  <2> QED BY <2>3, <2>4, <2>5
<1>5. ASSUME Redispatch PROVE MayMove
  <2>1. /\ requeued # <<>> /\ requeued \in Seq(Messages) /\ requeued' = Tail(requeued)
        /\ UNCHANGED <<connected, subs, paused, queue, requeues, batch, service, sessions, ready, dropped>>
        /\ Dispatch(Head(requeued))
    BY <1>0, <1>5 DEF Redispatch, RestOK
  <2>2. Head(requeued) \in Messages /\ requeued' \in Seq(Messages)
    BY <2>1, HeadTailProperties
  <2>3. Moved /\ Len(runs') = Len(runs) + 1
    BY <2>1, <2>2, DispatchMoves
  <2>4. batch.awaits <= Len(runs')
    BY <2>3, AwaitsStays
  <2>5. RestOK'
    BY <1>0, <2>1, <2>2, <2>4 DEF RestOK, queue, service
  <2> QED BY <2>3, <2>5 DEF MayMove
<1>6. ASSUME Tick PROVE MayMove
  <2>1. /\ delayed # <<>> /\ delayed' = Tail(delayed) /\ due' = due \ {Head(delayed)}
        /\ UNCHANGED <<connected, subs, paused, immediate, batch, service, sessions, ready, dropped>>
        /\ Dispatch(Head(delayed))
    BY <1>6 DEF Tick
  <2>2. /\ Head(delayed) \in Messages /\ delayed' \in Seq(Messages)
        /\ due' \subseteq Range(delayed')
    BY <2>1, ShiftTypes
  <2>3. Moved /\ Len(runs') = Len(runs) + 1
    BY <2>1, <2>2, DispatchMoves
  <2>4. batch.awaits <= Len(runs')
    BY <2>3, AwaitsStays
  <2>5. RestOK'
    BY <1>0, <2>1, <2>2, <2>4 DEF RestOK, service, immediate
  <2> QED BY <2>3, <2>5 DEF MayMove
<1> QED BY <1>1, <1>2, <1>3, <1>4, <1>5, <1>6 DEF Publishing

LEMMA SubscribingMoves ==
  ASSUME MemoryInv, Subscribing PROVE MayMove
<1>0. RestOK /\ Len(runs) \in Nat
  BY InvHasRest, InvFacts
<1>1. PICK s \in Subs : Subscribe(s) \/ Unsubscribe(s) \/ Pause(s) \/ Resume(s)
  BY DEF Subscribing
<1>2. CASE Subscribe(s)
  <2>1. /\ Registering(s) /\ subs' = Append(subs, s) /\ mine' = Append(mine, s)
        /\ UNCHANGED <<connected, paused, queue, runs, immediate, batch, started, wired,
                       starting, stopping, sessions, ready, dropped>>
    BY <1>2 DEF Subscribe
  <2>2. s \notin Known
    <3>1. PICK i \in DOMAIN Declared :
            s = Declared[i] /\ {j \in DOMAIN Declared : Declared[j] \in Known} = 1..i - 1
      BY <2>1 DEF Registering
    <3>2. i \in Nat
      BY DeclaredAssumption
    <3>3. i \notin 1..i - 1
      BY <3>2
    <3> QED BY <3>1, <3>3
  <2>3. Moved
    BY <2>1, <2>2, SubscribeMoves
  <2>4. mine' \in Seq(Subs)
    BY <1>0, <2>1 DEF RestOK
  <2>5. RestOK'
    BY <1>0, <2>1, <2>4 DEF RestOK, queue, immediate
  <2> QED BY <2>1, <2>3, <2>5 DEF MayMove
<1>3. CASE Unsubscribe(s)
  <2>1. /\ Splice(s)
        /\ UNCHANGED <<connected, paused, queue, immediate, batch, service, sessions, ready, dropped>>
    BY <1>3 DEF Unsubscribe
  <2>2. Moved /\ Len(runs') = Len(runs)
    BY <2>1, SpliceMoves
  <2>3. RestOK'
    BY <1>0, <2>1, <2>2 DEF RestOK, queue, immediate, service
  <2> QED BY <2>2, <2>3 DEF MayMove
<1>4. CASE Pause(s)
  <2>1. /\ paused' = paused \cup {s} /\ runs' = Excuse(s, FALSE)
        /\ UNCHANGED <<connected, subs, queue, immediate, batch, service, sessions, ready, dropped>>
    BY <1>4 DEF Pause
  <2>2. Moved /\ Len(runs') = Len(runs)
    BY <2>1, PauseMoves
  <2>3. RestOK'
    BY <1>0, <2>1, <2>2 DEF RestOK, queue, immediate, service
  <2> QED BY <2>2, <2>3 DEF MayMove
<1>5. CASE Resume(s)
  <2>1. /\ paused' = paused \ {s}
        /\ UNCHANGED <<connected, subs, queue, runs, immediate, batch, service, sessions, ready, dropped>>
    BY <1>5 DEF Resume
  <2>2. Moved
    BY <2>1, ResumeMoves
  <2>3. RestOK'
    BY <1>0, <2>1, <2>2 DEF RestOK, queue, immediate, service
  <2> QED BY <2>1, <2>2, <2>3 DEF MayMove
<1> QED BY <1>1, <1>2, <1>3, <1>4, <1>5

LEMMA LivingMoves ==
  ASSUME MemoryInv, Living PROVE MayMove
<1>0. RestOK /\ Len(runs) \in Nat
  BY InvHasRest, InvFacts
<1>c. ASSUME Connect
      PROVE  connected' \in BOOLEAN /\ sessions' \in 1..MaxSessions /\ ready' \in Nat
  <2>1. /\ connected' = TRUE /\ sessions' = sessions + 1 /\ sessions < MaxSessions
        /\ ready' = IF wired /\ started THEN ready + 1 ELSE ready
    BY <1>c DEF Connect, AnnounceReady
  <2> QED BY <1>0, <2>1, MemoryBoundsAssumption DEF RestOK
<1>1. CASE AdapterConnect
  <2>1. /\ Connect
        /\ UNCHANGED <<subs, paused, queue, runs, immediate, batch, service, dropped>>
    BY <1>1 DEF AdapterConnect
  <2>2. Moved
    BY <2>1, QuietMoves
  <2>3. RestOK'
    BY <1>0, <1>c, <2>1 DEF RestOK, queue, immediate, service
  <2> QED BY <2>1, <2>2, <2>3 DEF MayMove
<1>2. CASE AdapterDisconnect
  <2>1. /\ Disconnect
        /\ UNCHANGED <<paused, immediate, batch, service, sessions, ready>>
    BY <1>2 DEF AdapterDisconnect
  <2>2. /\ Moved /\ Len(runs') = Len(runs)
        /\ connected' \in BOOLEAN /\ delayed' \in Seq(Messages)
        /\ due' \subseteq Range(delayed') /\ dropped' \subseteq Messages
    BY <2>1, DisconnectTypes
  <2>3. RestOK'
    BY <1>0, <2>1, <2>2 DEF RestOK, immediate, service
  <2> QED BY <2>2, <2>3 DEF MayMove
<1>3. CASE Start \/ StartContinues
  <2>1. /\ wired' = TRUE /\ started' = TRUE /\ starting' = FALSE /\ ready' = ready + 1
        /\ UNCHANGED <<connected, subs, paused, queue, runs, immediate, batch, stopping,
                       mine, sessions, dropped>>
    BY <1>3 DEF Start, StartContinues, Ready
  <2>2. Moved
    BY <2>1, QuietMoves
  <2>b. wired' \in BOOLEAN /\ started' \in BOOLEAN /\ starting' \in BOOLEAN
    BY <2>1
  <2>c. ready' \in Nat
    BY <1>0, <2>1 DEF RestOK
  <2>d. UNCHANGED <<connected, paused, queue, runs, immediate, batch, stopping,
                    mine, sessions, dropped>>
    BY <2>1
  <2>3. RestOK'
    BY <1>0, <2>b, <2>c, <2>d DEF RestOK, queue, immediate
  <2> QED BY <2>1, <2>2, <2>3 DEF MayMove
<1>4. CASE StartConnects
  <2>1. /\ Connect /\ starting' = TRUE
        /\ UNCHANGED <<subs, paused, queue, runs, immediate, batch, started, wired,
                       stopping, mine, dropped>>
    BY <1>4 DEF StartConnects
  <2>2. Moved
    BY <2>1, QuietMoves
  <2>3. RestOK'
    BY <1>0, <1>c, <2>1 DEF RestOK, queue, immediate
  <2> QED BY <2>1, <2>2, <2>3 DEF MayMove
<1>5. CASE StopUnsubscribes
  <2> DEFINE i == IF stopping = 0 THEN 1 ELSE stopping
  <2>1. /\ Splice(mine[i]) /\ stopping' = i + 1
        /\ UNCHANGED <<connected, paused, queue, immediate, batch, started, wired, starting,
                       mine, sessions, ready, dropped>>
    BY <1>5 DEF StopUnsubscribes
  <2>2. i \in Nat
    BY <1>0 DEF RestOK
  <2> HIDE DEF i
  <2>3. Moved /\ Len(runs') = Len(runs)
    BY <2>1, SpliceMoves
  <2>4. RestOK'
    BY <1>0, <2>1, <2>2, <2>3 DEF RestOK, queue, immediate
  <2> QED BY <2>3, <2>4 DEF MayMove
<1>6. CASE StopEnds
  <2>1. /\ mine' = <<>> /\ started' = FALSE /\ stopping' = 0
        /\ UNCHANGED <<paused, immediate, batch, wired, starting, sessions, ready>>
        /\ Disconnect \/ UNCHANGED <<connected, subs, queue, runs, dropped>>
    BY <1>6 DEF StopEnds
  <2>2. CASE Disconnect
    <3>2. /\ Moved /\ Len(runs') = Len(runs)
          /\ connected' \in BOOLEAN /\ delayed' \in Seq(Messages)
          /\ due' \subseteq Range(delayed') /\ dropped' \subseteq Messages
      BY <2>1, <2>2, DisconnectTypes
    <3>3. mine' \in Seq(Subs)
      BY <2>1, EmptySeq, Zenon
    <3>4. RestOK'
      BY <1>0, <2>1, <3>2, <3>3 DEF RestOK, immediate
    <3> QED BY <3>2, <3>4 DEF MayMove
  <2>3. CASE UNCHANGED <<connected, subs, queue, runs, dropped>>
    <3>2. Moved
      BY <2>1, <2>3, QuietMoves
    <3>3. mine' \in Seq(Subs)
      BY <2>1, EmptySeq, Zenon
    <3>4. RestOK'
      BY <1>0, <2>1, <2>3, <3>3 DEF RestOK, queue, immediate
    <3> QED BY <2>3, <3>2, <3>4 DEF MayMove
  <2> QED BY <2>1, <2>2, <2>3
<1> QED BY <1>1, <1>2, <1>3, <1>4, <1>5, <1>6 DEF Living

-----------------------------------------------------------------------------
LEMMA MemoryStarts == MemoryInit => MemoryInv
<1> SUFFICES ASSUME MemoryInit PROVE MemoryInv
  OBVIOUS
<1>1. <<>> \in Seq(Subs) /\ <<>> \in Seq(Messages) /\ <<>> \in Seq(Run)
  BY EmptySeq, Zenon
<1>2. DOMAIN <<>> = {} /\ Len(<<>>) = 0
  OBVIOUS
<1>3. IsInjective(<<>>) /\ {} \subseteq Range(<<>>)
  BY <1>2 DEF IsInjective
<1>4. batch \in [rest : Seq(Messages), awaits : Nat] /\ batch.awaits = 0
  BY <1>1 DEF MemoryInit, NoBatch
<1>5. sessions \in 1..MaxSessions /\ requeues \in 0..MaxRequeues
  BY MemoryBoundsAssumption DEF MemoryInit
<1>b. /\ connected \in BOOLEAN /\ started \in BOOLEAN /\ wired \in BOOLEAN
      /\ starting \in BOOLEAN
  BY DEF MemoryInit
<1>l. /\ subs = <<>> /\ mine = <<>> /\ delayed = <<>> /\ requeued = <<>> /\ runs = <<>>
      /\ paused = {} /\ due = {} /\ dropped = {} /\ stopping = 0 /\ ready = 0
  BY DEF MemoryInit
<1>6. MemoryTypeOK
  BY <1>1, <1>2, <1>4, <1>5, <1>b, <1>l DEF MemoryTypeOK
<1> QED BY <1>1, <1>2, <1>3, <1>6 DEF MemoryInv, MemoryInit

LEMMA MemorySteps ==
  ASSUME MemoryInv, [MemoryNext]_memoryVars PROVE Moved /\ MemoryInv'
<1>1. ASSUME MayMove PROVE Moved /\ MemoryInv'
  BY <1>1, InvFromParts DEF MayMove
<1>2. CASE UNCHANGED memoryVars
  <2>1. UNCHANGED <<subs, paused, runs>> /\ RestOK'
    BY <1>2, InvHasRest DEF memoryVars, RestOK, queue, immediate, service
  <2> QED BY <2>1, QuietMoves, InvFromParts
<1>3. CASE MemoryNext
  BY <1>1, <1>3, DispatchingMoves, PublishingMoves, SubscribingMoves, LivingMoves DEF MemoryNext
<1> QED BY <1>2, <1>3

\* The type invariant, with the length of every dispatch's array and its history.
THEOREM MemoryInvariance == MemorySpec => []MemoryInv
<1>1. MemoryInv /\ [MemoryNext]_memoryVars => MemoryInv'
  BY MemorySteps
<1> QED BY <1>1, MemoryStarts, PTL DEF MemorySpec

\* Every dispatch reaches whom it is for, but for the shift of a splice, and calls
\* nobody twice or in vain.
THEOREM NoListenerIsPassedOver == MemorySpec => EveryListenerHears
<1>1. MemoryInv /\ [MemoryNext]_memoryVars =>
        [\A d \in DOMAIN runs' :
           /\ Ends(d) => Missed(d) <= 0
           /\ IsInjective(runs'[d].heard)
           /\ \A s \in Range(runs'[d].heard) : runs'[d].msg \in Meant[s]]_memoryVars
  <2> SUFFICES ASSUME MemoryInv, [MemoryNext]_memoryVars, NEW d \in DOMAIN runs'
               PROVE  /\ Ends(d) => Missed(d) <= 0
                      /\ IsInjective(runs'[d].heard)
                      /\ \A s \in Range(runs'[d].heard) : runs'[d].msg \in Meant[s]
    OBVIOUS
  <2>1. Moved
    BY MemorySteps
  <2>2. Kept(runs'[d], subs', paused') /\ (Ends(d) => Missed(d) <= 0) /\ runs'[d] \in Run
    BY <2>1, LenProperties, ElementOfSeq DEF Moved
  <2> QED BY <2>2, KeptIsTold
<1> QED BY <1>1, MemoryInvariance, PTL DEF MemorySpec, EveryListenerHears
=============================================================================
