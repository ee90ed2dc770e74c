--------------------------- MODULE MCQueueScheduler ---------------------------
(* Two job objects under one or two names, for TLC (the names are alike, so *)
(* the first object has the first of them); or a search for the next run of *)
(* a cron expression, with two months a year, the second longer in every    *)
(* second year, two days a week, and days of three short hours.  One field  *)
(* of an expression is anything the parser knows, the others are * or their *)
(* least value.                                                             *)
EXTENDS QueueScheduler, CronSchedule

VARIABLE searching \* what is looked at: a search, or the scheduler

MCFirstDay == <<0, 3, 4, 7, 9, 12, 13, 16, 18, 21, 22, 25, 27>>
MCSkipped == [month |-> 0, date |-> 2, hour |-> 1]
MCTwice == [month |-> 1, date |-> 1, hour |-> 1]

Part(kind, first, last, step) == [kind |-> kind, first |-> first, last |-> last, step |-> step]
Star == {Part("star", 0, 0, 1)}
Single(n) == {Part("value", n, n, 1)}
Rich(min, max) ==
  {{p} : p \in {Part("range", max - 1, max, 1), Part("range", max, min, 1), Part("star/", 0, 0, 2),
                Part("star/", 0, 0, 0), Part("range/", min, max + 1, 2), Part("range/", min, max + 2, 1),
                Part("range/", max, min, 1), Part("from/", max, 0, 1), Part("from/", max + 1, 0, 1)}}
  \cup {Single(min) \cup Single(max), Single(max), Single(max + 1)}
Plain(f, narrow) == IF narrow THEN Single(Bounds[f][1]) ELSE Star
Narrowed == {fields \in SUBSET DOMAIN Bounds : Cardinality(fields) \in {0, 1, 6}}
MCExpressions ==
  UNION {{[g \in DOMAIN Bounds |-> IF g = f THEN field ELSE Plain(g, g \in fields)] :
            field \in {Star} \cup Rich(Bounds[f][1], Bounds[f][2]), fields \in Narrowed} :
         f \in DOMAIN Bounds}

AnExpression == CHOOSE e \in Expressions : Parses(e)
NoSearch ==
  /\ phase = "parse" /\ schedule = Parsed(AnExpression)
  /\ from = (CHOOSE t \in Starts : TRUE) /\ current = from

SchedulerStep == ~searching /\ Next /\ UNCHANGED <<searching, cronVars>>
SearchStep == searching /\ CronNext /\ UNCHANGED <<searching, vars>>

SchedulingInit ==
  \/ searching = TRUE /\ CronInit /\ decl = (CHOOSE d \in [Job -> Decl] : TRUE) /\ Init
  \/ searching = FALSE /\ NoSearch /\ Init /\ decl[1].name = (CHOOSE n \in Names : TRUE)
SchedulingSpec ==
  /\ SchedulingInit /\ [][SchedulerStep \/ SearchStep]_<<searching, vars, cronVars>>
  /\ WF_<<searching, vars, cronVars>>(SearchStep)
=============================================================================
