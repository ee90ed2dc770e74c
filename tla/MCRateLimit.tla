------------------------------ MODULE MCRateLimit ------------------------------
(* Two calls of the HTTP client to one server, with at most one retry each.    *)
EXTENDS HttpClient

CONSTANTS c1, c2

Attempts == Calls \X (1..MostRetries + 1)

Retries == [max |-> 1, delay |-> 1, backoff |-> "exponential", on |-> {"limited", "failing"}]

MCDefaultOptions == [timeout |-> 1, metrics |-> TRUE, retries |-> Retries]
MCBuiltInRetries == [Retries EXCEPT !.on = {"failing"}]
Updates == {[retries |-> [max |-> 0, delay |-> 1, backoff |-> "fixed"]]}

\* Retries that do not count, for want of a query; an interceptor; a configuration
\* taken for one; no retry.
Unheeded == [via |-> "client", method |-> "GET", second |-> {},
             third |-> {[retries |-> [max |-> 0]]}]
Served == [via |-> "service", method |-> "POST", second |-> {[a |-> 1]},
           third |-> {[auth |-> "custom"]}]
Head == [via |-> "client", method |-> "HEAD",
         second |-> {[timeout |-> 1, auth |-> "bearer"]}, third |-> {}]
Once == [via |-> "req", method |-> "DELETE", second |-> {[q |-> 1]},
         third |-> {[retries |-> [max |-> 0], metrics |-> FALSE]}]
Ways == [c \in Calls |-> IF c = c1 THEN {Served, Head} ELSE {Once, Unheeded}]
=============================================================================
