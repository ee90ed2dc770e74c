------------------------------- MODULE HttpCalls -------------------------------
(***************************************************************************)
(* The surfaces of packages/requests: how HttpClient, RequestsService and   *)
(* the requestsService utility turn the arguments of a call into a request  *)
(* configuration, which settings apply to it, and what the caller gets.     *)
(*                                                                          *)
(* An object is a function from its keys; an argument that may be left out  *)
(* is a set of at most one object.                                          *)
(***************************************************************************)
EXTENDS Integers, TLC

CONSTANTS DefaultOptions,  \* DEFAULT_REQUESTS_OPTIONS: timeout, retries, metrics
          BuiltInRetries   \* what executeWithRetry falls back on

Spread(arg) == IF arg = {} THEN <<>> ELSE CHOOSE object \in arg : TRUE
Has(object, key) == key \in DOMAIN object

\* Objects with one of these keys are taken for a RequestConfig.
ConfigFields == {"method", "headers", "timeout", "auth"}
LooksLikeConfig(second) == ConfigFields \cap DOMAIN Spread(second) # {}

\* get, delete, head and options of HttpClient and RequestsService: the second
\* argument is the query, or the configuration when it looks like one; a third
\* counts only after a second.
ByQuery(method, second, third) ==
  CASE second = {} -> [method |-> method]
    [] second # {} /\ third # {} ->
         Spread(third) @@ [method |-> method, query |-> Spread(second)]
    [] second # {} /\ third = {} ->
         IF LooksLikeConfig(second)
         THEN Spread(second) @@ [method |-> method]
         ELSE [method |-> method, query |-> Spread(second)]

\* post, put and patch.
ByData(method, second, third) ==
  Spread(third) @@ [method |-> method, data |-> Spread(second)]

\* Where nothing is guessed.
ByPlainQuery(method, second, third) ==
  Spread(third) @@ [method |-> method, query |-> Spread(second)]

\* The same methods of the requestsService utility.
OfUtility(method, second, third) ==
  IF method \in {"POST", "PUT", "PATCH"}
  THEN ByData(method, second, third)
  ELSE ByPlainQuery(method, second, third)

\* req, reqRaw and reqEffect
OfReq(method, second, third) ==
  IF method \in {"GET", "DELETE"}
  THEN ByPlainQuery(method, second, third)
  ELSE ByData(method, second, third)

\* The configuration of a call [via, method, second, third].
ConfigOf(form) ==
  CASE form.via = "utility" -> OfUtility(form.method, form.second, form.third)
    [] form.via = "req" -> OfReq(form.method, form.second, form.third)
    [] form.via \in {"client", "service"} ->
         IF form.method \in {"POST", "PUT", "PATCH"}
         THEN ByData(form.method, form.second, form.third)
         ELSE ByQuery(form.method, form.second, form.third)

\* executeRequest and executeWithRetry: retries are merged key by key, and those of
\* the options replace the default ones as a whole.
Merged(options) == options @@ DefaultOptions

Settings(form, options) ==
  LET config  == ConfigOf(form)
      merged  == Merged(options)
      retries == (IF Has(config, "retries") THEN config.retries ELSE <<>>)
                   @@ merged.retries @@ BuiltInRetries
  IN [via     |-> form.via,
      method  |-> config.method,
      retries |-> retries,
      timeout |-> IF Has(config, "timeout") THEN config.timeout ELSE merged.timeout,
      metrics |-> merged.metrics /\ (Has(config, "metrics") => config.metrics),
      auth    |-> CASE Has(config, "auth") -> config.auth
                    [] ~Has(config, "auth") /\ Has(merged, "auth") -> merged.auth
                    [] OTHER -> "none"]

\* applyAuth: an interceptor may throw, a signature may not be made; tokens, keys
\* and passwords are only copied.
AuthMayFail(auth) == auth \in {"custom", "onebun"}

\* An answer whose body cannot be read has its own code: a success is a failure
\* that is never retried.
Unread(says) ==
  CASE says = "ok" -> "unread"
    [] says = "odd" -> "wrong"
    [] OTHER -> says

\* parseResponseData: a JSON answer to a HEAD has no text, and the error in a JSON
\* body goes through the class of its code: a code with no class becomes a 500.
Parsed(method, says) ==
  CASE method = "HEAD" -> Unread(says)
    [] method # "HEAD" /\ says = "odd" -> "failing"
    [] OTHER -> says

\* OneBunBaseError.fromErrorResponse: the class of a code, which is a 500's for the
\* codes that have none.
ErrorOf(failure) == IF failure \in {"unread", "callback"} THEN "failing" ELSE failure

\* What the caller catches: HttpClient rejects with the failure, RequestsService
\* with the error of its code, req() always with an InternalServerError.
Caught(via, failure) ==
  CASE via = "service" -> ErrorOf(failure)
    [] via = "req" -> "failing"
    [] OTHER -> failure
=============================================================================
