------------------------------- MODULE HttpClient -------------------------------
(***************************************************************************)
(* The HTTP client of packages/requests/src/client.ts calling a server      *)
(* behind the rate limiter of RateLimit: calls with timeouts and retries,   *)
(* over a network that delays and loses requests and answers.               *)
(*                                                                          *)
(* Every attempt of a call is a request of the rate limiter.  An attempt    *)
(* that timed out is abandoned by the client only: the server may count it, *)
(* serve it and answer it later, while the next attempts are made.          *)
(***************************************************************************)
EXTENDS RateLimit, HttpCalls

CONSTANTS Calls,       \* calls of executeRequest
          Forms,       \* the ways each call may be made: surface, method, arguments
          NewOptions,  \* what updateConfig may be called with
          MostRetries, \* bound: retries.max
          Handled,     \* what the server's handler may answer
          LastStart    \* bound: no call begins, and no option changes, later

\* What an attempt ends in: a success code, a 429, a 500 (of the server, or the
\* FETCH_ERROR of an attempt without an answer), another 4xx, or an answer that
\* could not be read, which has the code it came with.
Failures == {"limited", "failing", "wrong", "unread"}

\* Bound: updateConfig is called once.
Configured == {DefaultOptions} \cup {new @@ DefaultOptions : new \in NewOptions}

ASSUME MostRetriesAssumption == MostRetries \in Nat
ASSUME AttemptsAreRequests == Requests = Calls \X (1..MostRetries + 1)
ASSUME HandledAssumption == Handled \subseteq {"ok", "failing", "wrong", "odd"}
ASSUME SettingsAssumption ==
  \A c \in Calls : \A form \in Forms[c], given \in Configured :
    LET settings == Settings(form, given)
    IN /\ settings.timeout \in Nat
       /\ settings.retries.max \in 0..MostRetries
       /\ settings.retries.delay \in Nat
       /\ settings.retries.on \subseteq Failures
       /\ settings.metrics \in BOOLEAN

VARIABLES
  options,  \* serviceOptions of the RequestsService
  call,     \* each call: phase, attempt, when its timer fires, result, metrics
            \* recorded, and the settings it was made with
  sent,     \* requests on their way to the server
  answers   \* answers on their way to the client

clientVars == <<options, call, sent, answers>>
allVars == <<vars, clientVars>>

NoSettings == [via |-> "none", method |-> "GET", retries |-> BuiltInRetries,
               timeout |-> 0, metrics |-> FALSE, auth |-> "none"]
Idle == [phase |-> "idle", attempt |-> 0, until |-> 0, result |-> "none",
         recorded |-> 0, with |-> NoSettings]

ClientInit ==
  /\ Init
  /\ options = DefaultOptions
  /\ call = [c \in Calls |-> Idle]
  /\ sent = {} /\ answers = {}

\* The options of RequestsService; those of the other surfaces never change.
OptionsOf(via) == IF via = "service" THEN options ELSE DefaultOptions

\* calculateRetryDelay(attempt, config), with a factor of 2
RetryDelay(retries, n) ==
  CASE retries.backoff = "linear" -> retries.delay * n
    [] retries.backoff = "exponential" -> retries.delay * 2 ^ (n - 1)
    [] OTHER -> retries.delay

\* updateConfig(newConfig)
UpdateConfig(new) ==
  /\ options = DefaultOptions /\ now <= LastStart
  /\ options' = new @@ options
  /\ UNCHANGED <<vars, call, sent, answers>>

\* executeSingleRequest: fetch, under AbortSignal.timeout.
Attempt(c, made, n) ==
  /\ call' = [call EXCEPT ![c] = [made EXCEPT !.phase = "sent", !.attempt = n,
                                              !.until = now + made.with.timeout]]
  /\ sent' = sent \cup {<<c, n>>}
  /\ UNCHANGED <<vars, options, answers>>

Made(c, settings) == [call[c] EXCEPT !.with = settings]

\* executeRequest
Begin(c, settings) ==
  /\ call[c].phase = "idle" /\ now <= LastStart
  /\ Attempt(c, Made(c, settings), 1)

\* applyAuth, once for all the attempts, fails: nothing is sent.
AuthFails(c, settings) ==
  /\ call[c].phase = "idle" /\ now <= LastStart
  /\ AuthMayFail(settings.auth)
  /\ call' = [call EXCEPT ![c] = [Made(c, settings) EXCEPT !.phase = "rejected",
                                                           !.result = "auth"]]
  /\ UNCHANGED <<vars, options, sent, answers>>

Settled(ended, result) ==
  [ended EXCEPT !.phase = IF result = "ok" THEN "resolved" ELSE "rejected",
                !.until = 0, !.result = result]

\* Mutant: the last retry is not made.
AfterLosingOne(ended, result) ==
  IF result \in ended.with.retries.on /\ ended.attempt < ended.with.retries.max
  THEN {[ended EXCEPT !.phase = "pausing",
                      !.until = now + RetryDelay(ended.with.retries, ended.attempt)]}
  ELSE {Settled(ended, result)}

\* executeWithRetry when the attempt has ended: what the call may become.  The
\* onRetry callback may itself reject, and ends the call.
After(ended, result) ==
  IF result \in ended.with.retries.on /\ ended.attempt <= ended.with.retries.max
  THEN {[ended EXCEPT !.phase = "pausing",
                      !.until = now + RetryDelay(ended.with.retries, ended.attempt)],
        Settled(ended, "callback")}
  ELSE {Settled(ended, result)}

\* recordRequestMetrics, once per attempt
Recorded(c) ==
  [call[c] EXCEPT !.recorded = IF call[c].with.metrics THEN @ + 1 ELSE @]

AttemptEnds(c, result) ==
  \E next \in After(Recorded(c), result) : call' = [call EXCEPT ![c] = next]

Last(c) == <<c, call[c].attempt>>

\* The pause is over.
Retry(c) ==
  /\ call[c].phase = "pausing" /\ now >= call[c].until
  /\ Attempt(c, call[c], call[c].attempt + 1)

\* The connection is refused or breaks ...
ConnectionFails(c) ==
  /\ call[c].phase = "sent"
  /\ AttemptEnds(c, "failing")
  /\ answers' = {a \in answers : a.to # Last(c)}
  /\ UNCHANGED <<vars, options, sent>>

\* Mutant: only the first attempt is aborted.
TimesOutFirstOnly(c) ==
  /\ call[c].phase = "sent" /\ now >= call[c].until
  /\ call[c].attempt = 1
  /\ AttemptEnds(c, "failing")
  /\ answers' = {a \in answers : a.to # Last(c)}
  /\ UNCHANGED <<vars, options, sent>>

\* ... or the attempt takes too long and is aborted.
TimesOut(c) ==
  /\ call[c].phase = "sent" /\ now >= call[c].until
  /\ AttemptEnds(c, "failing")
  /\ answers' = {a \in answers : a.to # Last(c)}
  /\ UNCHANGED <<vars, options, sent>>

WaitsFor(r) == call[r[1]].phase = "sent" /\ r[2] = call[r[1]].attempt

\* An answer arrives, unless its attempt was abandoned meanwhile.
Deliver(a) ==
  /\ a \in answers /\ WaitsFor(a.to)
  /\ answers' = answers \ {a}
  /\ AttemptEnds(a.to[1], Parsed(call[a.to[1]].with.method, a.says))
  /\ UNCHANGED <<vars, options, sent>>

\* Its head arrives, and the connection breaks or the time is up before its body
\* does.
BodyBreaks(a) ==
  /\ a \in answers /\ WaitsFor(a.to)
  /\ answers' = answers \ {a}
  /\ AttemptEnds(a.to[1], Unread(a.says))
  /\ UNCHANGED <<vars, options, sent>>

-----------------------------------------------------------------------------
(* The server                                                               *)

\* A request reaches the middleware.  One that never does is lost.
Arrive(r) ==
  /\ r \in sent
  /\ Increment(r)
  /\ sent' = sent \ {r}
  /\ UNCHANGED <<options, call, answers>>

\* The middleware goes on: a 429, or the handler and what it answers, over a
\* connection that is gone when the attempt was abandoned.
Answer(r) ==
  /\ Respond(r)
  /\ IF WaitsFor(r)
     THEN \E says \in IF Admitted(r) THEN Handled ELSE {"limited"} :
            answers' = answers \cup {[to |-> r, says |-> says]}
     ELSE UNCHANGED answers
  /\ UNCHANGED <<options, call, sent>>

\* Bound: timers are punctual.
Due(c) == call[c].phase \in {"sent", "pausing"} /\ now >= call[c].until

Elapse ==
  /\ \A c \in Calls : ~Due(c)
  /\ Tick
  /\ UNCHANGED clientVars

-----------------------------------------------------------------------------
ClientNext ==
  \/ \E new \in NewOptions : UpdateConfig(new)
  \/ \E c \in Calls : \E form \in Forms[c] :
       LET settings == Settings(form, OptionsOf(form.via))
       IN Begin(c, settings) \/ AuthFails(c, settings)
  \/ \E c \in Calls : Retry(c) \/ ConnectionFails(c) \/ TimesOut(c)
  \/ \E a \in answers : Deliver(a) \/ BodyBreaks(a)
  \/ \E r \in Requests : Arrive(r) \/ Answer(r)
  \/ Elapse

\* Time passes and timers fire; nothing is assumed of the network or the server.
ClientFairness ==
  /\ WF_allVars(Elapse)
  /\ \A c \in Calls : WF_allVars(Retry(c) \/ TimesOut(c))

ClientSpec == ClientInit /\ [][ClientNext]_allVars /\ ClientFairness

-----------------------------------------------------------------------------
(* Properties                                                               *)

\* The result of a call is that of its last attempt and never of one it abandoned:
\* it resolves only when the server admitted that attempt, it rejects with a failure
\* it may retry only when every retry of its settings was spent on it, and what its
\* surface makes of a failure tells of a refusal only after one.  Every attempt is in
\* the metrics once.
ResultEarned ==
  \A c \in Calls :
    LET made == call[c].with
        caught == Caught(made.via, call[c].result)
    IN /\ call[c].phase = "resolved" => req[Last(c)].phase = "served"
       /\ call[c].phase = "rejected" =>
            /\ call[c].result \in made.retries.on => call[c].attempt = made.retries.max + 1
            /\ caught = "limited" => req[Last(c)].phase = "refused"
            /\ caught = "wrong" => req[Last(c)].phase = "served"
       /\ call[c].phase \in {"resolved", "rejected"} =>
            call[c].recorded = IF made.metrics THEN call[c].attempt ELSE 0

\* Every call settles, whatever the network loses and the rate limiter refuses.
CallSettles ==
  \A c \in Calls :
    call[c].phase \in {"sent", "pausing"} ~> call[c].phase \in {"resolved", "rejected"}
=============================================================================
