--------------------------- MODULE RequestPipeline ---------------------------
(***************************************************************************)
(* One HTTP request through the layers of its route, from                   *)
(* packages/core/src/application/application.ts: middleware, then guards,   *)
(* then interceptors, then the handler, with the exception filters beside   *)
(* it and the metrics, the trace and the catch-all around everything.       *)
(*                                                                          *)
(* Position 1 .. Bottom - 1 is a middleware or an interceptor, Bottom the   *)
(* handler, 0 the code around the chain; the guards are asked between the   *)
(* last middleware and what follows it. A strand is one awaited chain of    *)
(* calls. A TimeoutInterceptor whose timer wins goes on without the strand  *)
(* it awaited, and that strand runs on, with a floor: what it gives to the  *)
(* layer at its floor is dropped by Promise.race.                           *)
(***************************************************************************)
EXTENDS Integers, Sequences, FiniteSets

CONSTANTS
  MaxMiddleware,    \* bound: middleware of the route, all levels together
  MaxGuards,        \* bound: guards of the route
  MaxInterceptors,  \* bound: interceptors of the route
  MaxAgain,         \* bound: second and later calls of a next(), by any layer
  Signatures        \* the parameters a handler may declare, and what is sent for them

ASSUME BoundsAssumption ==
  /\ MaxMiddleware \in Nat
  /\ MaxGuards \in Nat
  /\ MaxInterceptors \in Nat
  /\ MaxAgain \in Nat

VARIABLES
  route,    \* the route, its levels merged
  strands,  \* the chains of calls in progress
  body,     \* the request's body: it can be read once
  calls,    \* calls of the handler: what each was given for its parameters
  again,    \* calls of a next() that was called before
  span,     \* traceSpan
  answer,   \* the response returned to Bun: who made it
  records   \* calls of recordHttpRequest: the response each was about

input == <<body, calls>>
vars == <<route, strands, input, again, span, answer, records>>

Levels == {"global", "controller", "route"}

\* Merged exception filters, a later one having priority over an earlier one.
FiltersAt(r, level) == IF level \in r.filters THEN <<level>> ELSE <<>>
MergedFilters(r) ==
  FiltersAt(r, "global") \o FiltersAt(r, "controller") \o FiltersAt(r, "route")

\* A layer's kind: its own code, or the built-in TimeoutInterceptor.
Kinds == {"plain", "timeout"}

\* Who made a response, and who threw an error.
Makers == Levels \cup {"handler", "layer", "forbidden", "default", "fallback"}
Throwers == {"params", "handler", "result", "layer", "guard", "timeout", "filter"}

Response(m) == [ok |-> TRUE, by |-> m]
Error(t) == [ok |-> FALSE, by |-> t]
Pending == [ok |-> FALSE, by |-> "pending"]
Outcomes == {Response(m) : m \in Makers \ {"fallback"}}
              \cup {Error(t) : t \in Throwers} \cup {Pending}

-----------------------------------------------------------------------------
(* The parameters of a handler, with what this request has for each. A value  *)
(* that is sent and is not as its schema, or its file options, want it is     *)
(* "invalid"; a "lax" schema accepts undefined.                               *)

Sources == {"path", "query", "body", "header", "cookie", "request", "response",
            "file", "files", "field"}
Schemas == {"none", "strict", "lax"}
Values == {"absent", "valid", "invalid"}
Parameters ==
  [from : Sources, required : {"said", "denied", "unsaid"}, schema : Schemas, sent : Values]

ASSUME SignaturesAssumption == Signatures \subseteq Seq(Parameters)

Uploads == {"file", "files"}
FormData == Uploads \cup {"field"}

\* determineIsRequired(): what a decorator makes of its arguments. A file is
\* required unless it is said not to be.
Required(p) ==
  \/ p.from = "path"
  \/ p.required = "said"
  \/ p.required = "unsaid" /\ (p.from \in Uploads \/ (p.from = "body" /\ p.schema = "strict"))

\* The form is parsed once, before any parameter, and not beside a @Body().
TakesForm(params) == \E k \in DOMAIN params : params[k].from \in FormData
Conflict(params) == TakesForm(params) /\ \E k \in DOMAIN params : params[k].from = "body"

\* What the parameter at k is given. A body that was read before, by another
\* @Body() or for an earlier call of the handler, is undefined.
Value(params, k, whole) ==
  IF \/ params[k].from = "response"
     \/ params[k].from \in FormData \cup {"body"} /\ ~whole
     \/ params[k].from = "body" /\ \E j \in 1..k - 1 : params[j].from = "body"
  THEN "absent" ELSE params[k].sent

\* validateFile(): a file, or their number, that the options do not allow.
FileInvalid(p, value) == p.from \in Uploads /\ p.schema # "none" /\ value = "invalid"

\* validateOrThrow(): a header that is missing is null, which its schema is asked
\* about, as it is not about undefined.
SchemaInvalid(p, value) ==
  /\ p.from \notin Uploads /\ p.schema # "none"
  /\ value = "invalid" \/ (value = "absent" /\ p.from = "header")

\* Whether the parameter at k refuses the request.
Refuses(params, k, whole) ==
  LET value == Value(params, k, whole)
  IN \/ Required(params[k]) /\ value = "absent"
     \/ FileInvalid(params[k], value) \/ SchemaInvalid(params[k], value)

Refused(params, whole) ==
  Conflict(params) \/ \E k \in DOMAIN params : Refuses(params, k, whole)

\* One parameter after the other, until one refuses.
Reads(params, whole) ==
  /\ ~Conflict(params)
  /\ \/ TakesForm(params)
     \/ \E k \in DOMAIN params :
          params[k].from = "body" /\ \A j \in 1..k - 1 : ~Refuses(params, j, whole)

-----------------------------------------------------------------------------
Routes ==
  {r \in [fast : BOOLEAN,   \* no parameters and no response schemas
          params : Signatures,
          middleware : 0..MaxMiddleware,
          guards : 0..MaxGuards,
          interceptors : UNION {[1..n -> Kinds] : n \in 0..MaxInterceptors},
          filters : SUBSET Levels] : r.fast => r.params = <<>>}

Bottom == route.middleware + Len(route.interceptors) + 1

IsTimeout(p) ==
  p \in (route.middleware + 1)..(Bottom - 1)
    /\ route.interceptors[p - route.middleware] = "timeout"

\* A strand at `at`: about to call the layer there ("down"), asking the guards
\* ("guards"), in the handler ("busy"), in a filter ("catch"), or back with the
\* outcome of what the layer there awaits ("up").
Strands ==
  [at : 0..Bottom,
   mode : {"down", "guards", "busy", "catch", "up"},
   out : Outcomes,
   allowed : SUBSET (1..MaxGuards),  \* guards that said yes on the way down
   floor : 0..Bottom]

Init ==
  /\ route \in Routes
  /\ strands = {}
  /\ body = "whole" /\ calls = <<>>
  /\ again = 0
  /\ span = "unset"
  /\ answer = "none"
  /\ records = <<>>

-----------------------------------------------------------------------------
\* The same strand, further on.
At(s, p, mode, out, allowed) ==
  [at |-> p, mode |-> mode, out |-> out, allowed |-> allowed, floor |-> s.floor]

\* next() called by the layer at p: the guards come after the last middleware.
Descend(s, p) ==
  IF p = route.middleware
  THEN At(s, p, "guards", Pending, s.allowed)
  ELSE At(s, p + 1, "down", Pending, s.allowed)

\* What the layer at p returned or threw reaches the one that called it.
\* Above the guards their answers are forgotten.
Ascend(s, p, out) ==
  At(s, p - 1, "up", out, IF p - 1 > route.middleware THEN s.allowed ELSE {})

Replace(s, t) ==
  /\ strands' = (strands \ {s}) \cup {t}
  /\ UNCHANGED <<route, span, answer, records>>

First == [at |-> 0, mode |-> "down", out |-> Pending, allowed |-> {}, floor |-> 0]

\* The wrapped handler: trace setup, which may be off or fail, and the first
\* call.
Begin ==
  /\ span = "unset"
  /\ span' \in {"none", "open"}
  /\ strands' = {Descend(First, 0)}
  /\ UNCHANGED <<route, input, again, answer, records>>

\* executeHttpGuards, one guard: yes, no, or an error.
AskGuard(s) ==
  /\ s.mode = "guards"
  /\ s.allowed # 1..route.guards
  /\ \/ Replace(s, At(s, s.at, "guards", Pending,
                        s.allowed \cup {Cardinality(s.allowed) + 1}))
     \/ \E out \in {Response("forbidden"), Error("guard")} :
          Replace(s, Ascend(s, s.at + 1, out))
  /\ UNCHANGED <<again, input>>

Admitted(s) == s.allowed = 1..route.guards

\* Mutant: one guard that allows is enough.
PassGuardsAny(s) ==
  /\ s.mode = "guards"
  /\ route.guards > 0 => s.allowed # {}
  /\ Replace(s, At(s, s.at + 1, "down", Pending, s.allowed))
  /\ UNCHANGED <<again, input>>

\* All guards allowed: interceptedHandler().
PassGuards(s) ==
  /\ s.mode = "guards"
  /\ Admitted(s)
  /\ Replace(s, At(s, s.at + 1, "down", Pending, s.allowed))
  /\ UNCHANGED <<again, input>>

\* A layer is entered: it awaits next(), or answers or throws without it.
EnterLayer(s) ==
  /\ s.mode = "down"
  /\ s.at < Bottom
  /\ \/ Replace(s, Descend(s, s.at))
     \/ /\ ~IsTimeout(s.at)
        /\ \E out \in {Response("layer"), Error("layer")} :
             Replace(s, Ascend(s, s.at, out))
  /\ UNCHANGED <<again, input>>

\* A layer has the outcome of its next(): it passes it on, puts its own in its
\* place, or calls next() again.
LeaveLayer(s) ==
  /\ s.mode = "up"
  /\ s.at > s.floor
  /\ \/ Replace(s, Ascend(s, s.at, s.out)) /\ UNCHANGED <<again, input>>
     \/ /\ ~IsTimeout(s.at)
        /\ \E out \in {Response("layer"), Error("layer")} :
             Replace(s, Ascend(s, s.at, out))
        /\ UNCHANGED <<again, input>>
     \/ /\ ~IsTimeout(s.at)
        /\ again < MaxAgain
        /\ again' = again + 1 /\ UNCHANGED input
        /\ Replace(s, Descend(s, s.at))

\* An error inside executeHandler goes to a filter; the fast path has no catch.
Fail(s, t) ==
  IF route.fast THEN Ascend(s, s.at, Error(t))
  ELSE At(s, s.at, "catch", Error(t), s.allowed)

\* Mutant: the body is kept, and each call of the handler is given it.
CallHandlerKept(s) ==
  /\ s.mode = "down" /\ s.at = Bottom
  /\ IF Refused(route.params, TRUE) THEN Replace(s, Fail(s, "params")) /\ UNCHANGED calls
     ELSE /\ Replace(s, At(s, s.at, "busy", Pending, s.allowed))
          /\ calls' = Append(calls, [k \in DOMAIN route.params |-> Value(route.params, k, TRUE)])
  /\ UNCHANGED <<again, body>>

\* Parameters are extracted and validated, and the handler is called; on the fast
\* path there are none.
CallHandler(s) ==
  LET params == route.params
      whole == body = "whole"
  IN /\ s.mode = "down" /\ s.at = Bottom
     /\ body' = IF Reads(params, whole) THEN "read" ELSE body
     /\ IF Refused(params, whole) THEN Replace(s, Fail(s, "params")) /\ UNCHANGED calls
        ELSE /\ Replace(s, At(s, s.at, "busy", Pending, s.allowed))
             /\ calls' = Append(calls, [k \in DOMAIN params |-> Value(params, k, whole)])
     /\ UNCHANGED again

\* The handler settles: it returned what becomes a response, it threw, or what
\* it returned is refused by the response schema, by SSE or by JSON.stringify.
HandlerSettles(s) ==
  /\ s.mode = "busy"
  /\ \/ Replace(s, Ascend(s, s.at, Response("handler")))
     \/ \E t \in {"handler", "result"} : Replace(s, Fail(s, t))
  /\ UNCHANGED <<again, input>>

\* The filter executeHandler picks.
ChosenFilter(r) ==
  LET merged == MergedFilters(r)
  IN IF merged = <<>> THEN "default" ELSE merged[Len(merged)]

\* That filter answers or throws; the default filter throws as well, when the
\* `code` of the error it is given is not an HTTP status.
Catch(s) ==
  /\ s.mode = "catch"
  /\ \E out \in {Response(ChosenFilter(route)), Error("filter")} :
       Replace(s, Ascend(s, s.at, out))
  /\ UNCHANGED <<again, input>>

\* Mutant: the race does not silence the strand that lost it.
ExpireUnsettled(s, p) ==
  /\ IsTimeout(p)
  /\ s.floor < p
  /\ p < s.at
  /\ strands' = strands \cup {Ascend(s, p, Error("timeout"))}
  /\ UNCHANGED <<route, input, again, span, answer, records>>

\* Mutant: the timer is cleared when the handler is called.
ExpireBeforeHandler(s, p) ==
  /\ IsTimeout(p)
  /\ s.floor < p
  /\ p < s.at
  /\ s.mode # "busy"
  /\ strands' = (strands \ {s}) \cup {Ascend(s, p, Error("timeout")),
                                      [s EXCEPT !.floor = p]}
  /\ UNCHANGED <<route, input, again, span, answer, records>>

\* The timer of the TimeoutInterceptor at p wins the race against the strand it
\* awaits: the request goes on above it, and the strand goes on below it.
Expire(s, p) ==
  /\ IsTimeout(p)
  /\ s.floor < p
  /\ p < s.at
  /\ strands' = (strands \ {s}) \cup {Ascend(s, p, Error("timeout")),
                                      [s EXCEPT !.floor = p]}
  /\ UNCHANGED <<route, input, again, span, answer, records>>

\* The outcome of an abandoned strand: the race it was in is over.
Drop(s) ==
  /\ s.mode = "up"
  /\ s.at = s.floor
  /\ s.floor > 0
  /\ strands' = strands \ {s}
  /\ UNCHANGED <<route, input, again, span, answer, records>>

\* Back in the wrapped handler, in the try or in its catch: metrics, the end of
\* the span, which may fail, and the response.
Answer(s) ==
  LET sent == IF s.out.ok THEN s.out.by ELSE "fallback"
  IN /\ s.mode = "up"
     /\ s.at = s.floor
     /\ s.floor = 0
     /\ answer' = sent
     /\ records' = Append(records, sent)
     /\ span' \in IF span = "open" THEN {"closed", "lost"} ELSE {span}
     /\ strands' = strands \ {s}
     /\ UNCHANGED <<route, input, again>>

LayerStep(s) == EnterLayer(s) \/ LeaveLayer(s) \/ AskGuard(s) \/ PassGuards(s)

Next ==
  \/ Begin
  \/ \E s \in strands : AskGuard(s)
  \/ \E s \in strands : PassGuards(s)
  \/ \E s \in strands : EnterLayer(s)
  \/ \E s \in strands : LeaveLayer(s)
  \/ \E s \in strands : CallHandler(s)
  \/ \E s \in strands : HandlerSettles(s)
  \/ \E s \in strands : Catch(s)
  \/ \E s \in strands, p \in 1..Bottom : Expire(s, p)
  \/ \E s \in strands : Drop(s)
  \/ \E s \in strands : Answer(s)

\* Guards and layers settle and timers fire; a handler or a filter may not.
Fairness ==
  /\ WF_vars(Begin)
  /\ WF_vars(\E s \in strands : s.floor = 0 /\ LayerStep(s))
  /\ WF_vars(\E s \in strands : s.floor = 0 /\ CallHandler(s))
  /\ WF_vars(\E s \in strands, p \in 1..Bottom : s.floor = 0 /\ Expire(s, p))
  /\ WF_vars(\E s \in strands : Answer(s))

Spec == Init /\ [][Next]_vars

FairSpec == Spec /\ Fairness

-----------------------------------------------------------------------------
InputTypeOK ==
  /\ body \in {"whole", "read"}
  /\ calls \in Seq([DOMAIN route.params -> Values])

RequestTypeOK ==
  /\ route \in Routes
  /\ strands \subseteq Strands
  /\ again \in 0..MaxAgain
  /\ span \in {"unset", "none", "open", "closed", "lost"}
  /\ answer \in Makers \cup {"none"}
  /\ records \in {<<>>} \cup {<<m>> : m \in Makers}

\* Types: of the request, and of what its handler is given.
TypeOK == RequestTypeOK /\ InputTypeOK

\* No layer can bring a request to its handler past a guard: parameters are
\* read and the handler runs only in a strand in which every guard of the route
\* has said yes since the last middleware called next(), also when a layer
\* calls next() again after a guard refused.
AdmittedByGuards ==
  \A s \in strands :
    s.at > route.middleware /\ s.mode # "guards" => Admitted(s)

\* Nor past its own parameters: what the handler requires it is given, at each
\* call; and however often next() is called, and with a strand that a timeout
\* has abandoned still running, what the body held reaches one call and no other.
FromBody(k) == route.params[k].from \in FormData \cup {"body"}
Holds(n) == \E k \in DOMAIN route.params : FromBody(k) /\ calls[n][k] # "absent"
AdmittedByParameters ==
  \A n \in DOMAIN calls :
    /\ \A k \in DOMAIN route.params :
         Required(route.params[k]) => calls[n][k] # "absent"
    /\ Holds(n) => \A m \in DOMAIN calls : Holds(m) => m = n

\* A handler runs only for a request that both have let through, so that one that
\* requires something of the body runs at most once for a request.
HandlerOnlyAdmitted == AdmittedByGuards /\ AdmittedByParameters

\* Of the filters declared for the application, the controller and the route,
\* the most specific one answers, and no other.
MostSpecificFilter ==
  \A m \in {answer} \cup {s.out.by : s \in strands} :
    m \in Levels \cup {"default"} =>
      m = IF "route" \in route.filters THEN "route"
          ELSE IF "controller" \in route.filters THEN "controller"
          ELSE IF "global" \in route.filters THEN "global" ELSE "default"

\* On a route with parameters or response schemas the layers around the handler
\* never see its error, nor that of a parameter or of the response: a filter
\* stands in between, and only its own error gets through.
ErrorsStayInside ==
  \A s \in strands :
    ~route.fast /\ s.mode = "up" /\ ~s.out.ok =>
      s.out.by \notin {"params", "handler", "result"}

\* One answer per request, recorded once and with its own status, and one end
\* of its span, whatever is retried, abandoned by a timeout or still running.
E == INSTANCE Exchange WITH Answers <- Makers
OneAnswer == E!Spec

\* With a TimeoutInterceptor on the route the request is answered although the
\* handler or a filter never settles.
TimedRoutesAnswered ==
  (\E p \in 1..Bottom : IsTimeout(p)) ~> answer # "none"
=============================================================================
