------------------------------- MODULE Tracing -------------------------------
(***************************************************************************)
(* Tracing (packages/trace/src) in a process of several applications: the   *)
(* tracer provider each constructor makes and the one of them that is the    *)
(* process's; the spans of traced methods and of requests; their export in   *)
(* batches; and the shutdown in an application's stop().                     *)
(*                                                                          *)
(* OpenTelemetry is modelled from how src/ uses it.  No context manager is   *)
(* registered, so that no span is ever the active one outside the call of    *)
(* startActiveSpan that made it.                                            *)
(***************************************************************************)
EXTENDS Naturals, Sequences, FiniteSets

CONSTANTS Applications, \* number of applications, made one after the other
          Methods,      \* what a traced class and its method may be like
          BatchSize,    \* spans in one export
          MaxSpans      \* bound: spans made

ASSUME TracingAssumption == Applications \in Nat /\ BatchSize \in Nat \ {0} /\ MaxSpans \in Nat

VARIABLES
  method,     \* the traced method, and what the options say of it
  option,     \* of each application: tracing off, local, or exported
  life,       \* of each application: planned, up, stopping, down, or its stop() rejected
  registered, \* whose provider the process's tracers come from
  tracer,     \* whose provider each trace service's own tracer came from
  spans,      \* every span: whose provider made it, and how far it has come
  buffer,     \* the ended spans each provider has still to export, in order
  exports,    \* the exports under way
  unflushed   \* the applications an export of whose shutdown has failed

tracingSettings == <<method, option>>
tracingVars == <<tracingSettings, life, registered, tracer, spans, buffer, exports, unflushed>>

Apps == 1..Applications

\* The provider that the module makes, without an endpoint, as it is imported:
\* its traceServiceLive is a service of the default options.
Imported == 0
Nobody == Applications + 1

Options == [Apps -> {"off", "local", "exported"}]

TracingStart ==
  /\ life = [a \in Apps |-> "planned"]
  /\ registered = Imported /\ tracer = [a \in Apps |-> Nobody]
  /\ spans = <<>> /\ buffer = [a \in Apps |-> <<>>] /\ exports = {} /\ unflushed = {}
TracingInit == method \in Methods /\ option \in Options /\ TracingStart

-----------------------------------------------------------------------------
(* Which methods are traced: a decorator of the method's own, or auto-trace   *)
(* when an instance of the class is made.  method has: async, decorated (by   *)
(* @Traced or @Span), covered (by a decorator above that one which returns a *)
(* plain function), noTrace, excluded (by name), and of its class traceAll,  *)
(* classNoTrace and matched (by the include and exclude patterns); and the   *)
(* options' allClasses and asyncOnly.                                       *)

\* shouldAutoTrace(): the module asks only if the application traces all.
AutoTraces ==
  /\ method.allClasses /\ ~method.classNoTrace
  /\ method.traceAll \/ method.allClasses
  /\ method.matched

\* applyAutoTrace() passes over what says that it is traced already, and what a
\* decorator has made a function that does not look asynchronous.
Wraps ==
  /\ AutoTraces /\ ~method.excluded /\ ~method.noTrace
  /\ ~(method.decorated /\ ~method.covered)
  /\ method.asyncOnly => method.async /\ ~method.covered

\* The spans one call of the method makes, one around the other.
SpansPerCall == (IF method.decorated THEN 1 ELSE 0) + (IF Wraps THEN 1 ELSE 0)

-----------------------------------------------------------------------------
(* The constructor of an application: initTracerProvider() registers the      *)
(* provider, which succeeds when none is, and then takes a tracer.           *)

Register(a) == IF registered = Nobody THEN a ELSE registered

StartTracing(a) ==
  /\ life[a] = "planned" /\ \A b \in 1..a - 1 : life[b] # "planned"
  /\ life' = [life EXCEPT ![a] = "up"]
  /\ IF option[a] = "off" THEN UNCHANGED <<registered, tracer>>
     ELSE /\ registered' = Register(a)
          /\ tracer' = [tracer EXCEPT ![a] = Register(a)]
  /\ UNCHANGED <<tracingSettings, spans, buffer, exports, unflushed>>

-----------------------------------------------------------------------------
(* Spans.  A span is idle when nothing records it, open, ended but not yet     *)
(* answered for, posted or lost, or left without an end for good.            *)

NewSpan(provider, kind, call) ==
  [of |-> provider, kind |-> kind, call |-> call,
   state |-> IF provider = Nobody THEN "idle" ELSE "open"]

\* A traced method asks for a tracer at each call, and its arguments become
\* attributes before the try: one that cannot be written ends the call there,
\* and its span stays open.
CallBegins ==
  /\ SpansPerCall > 0 /\ Len(spans) + SpansPerCall <= MaxSpans
  /\ \E a \in Apps : life[a] # "planned"
  /\ LET call == Len(spans) + 1
         made == NewSpan(registered, "method", call)
     IN \/ spans' = spans \o [i \in 1..SpansPerCall |-> made]
        \/ spans' = Append(spans, [made EXCEPT !.state = "left"])
  /\ UNCHANGED <<tracingSettings, life, registered, tracer, buffer, exports, unflushed>>

\* The processor of a provider that is being shut down takes no more, and one
\* without an endpoint has no processor.
Takes(a) == a \in Apps /\ option[a] = "exported" /\ life[a] = "up"
SpanEnds(i) ==
  IF Takes(spans[i].of)
  THEN /\ spans' = [spans EXCEPT ![i].state = "ended"]
       /\ buffer' = [buffer EXCEPT ![spans[i].of] = Append(@, i)]
  ELSE spans' = [spans EXCEPT ![i].state = "lost"] /\ UNCHANGED buffer

\* In the finally of the wrapper, whether the method returned or threw; the inner
\* span ends first.
CallEnds(i) ==
  /\ spans[i].kind = "method" /\ spans[i].state = "open"
  /\ \A j \in i + 1..Len(spans) : spans[j].call = spans[i].call => spans[j].state # "open"
  /\ SpanEnds(i)
  /\ UNCHANGED <<tracingSettings, life, registered, tracer, exports, unflushed>>

\* startSpan(): the service's own tracer makes the span; a service that is off only
\* makes up what looks like one.
StartSpan(a) ==
  /\ option[a] # "off" /\ Len(spans) < MaxSpans
  /\ spans' = Append(spans, NewSpan(tracer[a], "http", Len(spans) + 1))

\* A request under TraceMiddleware makes one with every service that is on; a
\* request of an application's own route only if there is somewhere to export to.
TraceBegins(a) ==
  /\ life[a] = "up" /\ StartSpan(a)
  /\ UNCHANGED <<tracingSettings, life, registered, tracer, buffer, exports, unflushed>>
StartHttpTrace(a) == option[a] = "exported" /\ TraceBegins(a)

\* endSpan() ends the active span if it is the one it is given; none is.
ActiveSpan == 0
EndSpan(i) ==
  IF i = ActiveSpan THEN SpanEnds(i)
  ELSE spans' = [spans EXCEPT ![i].state = "left"] /\ UNCHANGED buffer

\* The response of the request, or its error.
EndHttpTrace(i) ==
  /\ spans[i].kind = "http" /\ spans[i].state = "open"
  /\ EndSpan(i)
  /\ UNCHANGED <<tracingSettings, life, registered, tracer, exports, unflushed>>

-----------------------------------------------------------------------------
(* Export.                                                                  *)

Least(a, b) == IF a < b THEN a ELSE b
Batches(queue) ==
  {SubSeq(queue, first, Least(first + BatchSize - 1, Len(queue))) :
     first \in {i \in 1..Len(queue) : (i - 1) % BatchSize = 0}}
Export(a, batch, awaited) == [of |-> a, batch |-> batch, awaited |-> awaited]

\* The processor's own export, at its delay or for a full batch: one at a time.
Flush(a) ==
  /\ life[a] = "up" /\ buffer[a] # <<>> /\ ~\E e \in exports : e.of = a
  /\ LET size == Least(BatchSize, Len(buffer[a]))
     IN /\ exports' = exports \cup {Export(a, SubSeq(buffer[a], 1, size), FALSE)}
        /\ buffer' = [buffer EXCEPT ![a] = SubSeq(@, size + 1, Len(@))]
  /\ UNCHANGED <<tracingSettings, life, registered, tracer, spans, unflushed>>

\* An export is posted, or has failed or passed its timeout: there is no retry, and
\* one that the shutdown waits for makes it reject.
Answer(e) ==
  /\ \E outcome \in {"posted", "lost"} :
       /\ spans' = [i \in DOMAIN spans |->
                      IF \E k \in DOMAIN e.batch : e.batch[k] = i THEN [spans[i] EXCEPT !.state = outcome] ELSE spans[i]]
       /\ unflushed' = IF e.awaited /\ outcome = "lost" THEN unflushed \cup {e.of} ELSE unflushed
  /\ exports' = exports \ {e}
  /\ UNCHANGED <<tracingSettings, life, registered, tracer, buffer>>

\* Mutant: the provider is disabled, but not shut down.
OnShutdownNothing(a) == UNCHANGED <<buffer, exports>>

\* provider.shutdown(): what is buffered goes out in batches at once, and these
\* are waited for; an export that was under way is not.
OnShutdown(a) ==
  /\ exports' = exports \cup {Export(a, batch, TRUE) : batch \in Batches(buffer[a])}
  /\ buffer' = [buffer EXCEPT ![a] = <<>>]

\* The trace service's part of an application's stop().
Stop(a) ==
  /\ life[a] = "up" /\ option[a] # "off"
  /\ life' = [life EXCEPT ![a] = "stopping"]
  /\ OnShutdown(a)
  /\ UNCHANGED <<tracingSettings, registered, tracer, spans, unflushed>>

Flushed(a) == ~\E e \in exports : e.of = a /\ e.awaited

\* trace.disable() frees the process's place, whosever provider has it; another stop()
\* of the application finds its provider shut down, and disables again.
StopEnds(a) ==
  /\ life[a] \in {"stopping", "down"} /\ Flushed(a) /\ a \notin unflushed
  /\ life' = [life EXCEPT ![a] = "down"]
  /\ registered' = Nobody
  /\ UNCHANGED <<tracingSettings, tracer, spans, buffer, exports, unflushed>>

\* The first failure rejects the provider's shutdown, and with it stop(), at once: the
\* other batches may still be under way, and the provider stays the process's.
StopFails(a) ==
  /\ life[a] = "stopping" /\ a \in unflushed
  /\ life' = [life EXCEPT ![a] = "rejected"]
  /\ UNCHANGED <<tracingSettings, registered, tracer, spans, buffer, exports, unflushed>>

TracingNext ==
  \/ CallBegins
  \/ \E i \in DOMAIN spans : CallEnds(i) \/ EndHttpTrace(i)
  \/ \E a \in Apps : StartTracing(a) \/ TraceBegins(a) \/ StartHttpTrace(a) \/ Flush(a)
                      \/ Stop(a) \/ StopEnds(a) \/ StopFails(a)
  \/ \E e \in exports : Answer(e)

TracingSpec == TracingInit /\ [][TracingNext]_tracingVars

-----------------------------------------------------------------------------
(* Properties.                                                              *)

\* Types: of the spans, buffers and exports.
TracingTypeOK ==
  /\ registered \in {Imported, Nobody} \cup Apps
  /\ tracer \in [Apps -> {Imported, Nobody} \cup Apps]
  /\ \A a \in Apps : \A k \in DOMAIN buffer[a] :
       spans[buffer[a][k]].of = a /\ spans[buffer[a][k]].state = "ended"
  /\ \A e \in exports : \A k \in DOMAIN e.batch : spans[e.batch[k]].state = "ended"

\* When an application's stop() has got past the trace service, every span that its
\* provider took has been posted or given up, but for those of the one export
\* that the processor had begun itself (trace.service.ts: "Shutdown the trace
\* service, flushing pending spans").  A stop() that rejects there is never past it.
FlushedWhenStopped ==
  \A a \in Apps : life[a] = "down" =>
    \A i \in DOMAIN spans :
      spans[i].of = a /\ spans[i].state = "ended" =>
        \E e \in exports : e.of = a /\ ~e.awaited /\ \E k \in DOMAIN e.batch : e.batch[k] = i
=============================================================================
