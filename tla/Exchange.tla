------------------------------- MODULE Exchange -------------------------------
(***************************************************************************)
(* What a OneBun HTTP route promises of one request, whatever middleware,   *)
(* guards, interceptors, handler and filters do: one answer, measured once, *)
(* with the status that is sent, and a span that ends with it.              *)
(***************************************************************************)
EXTENDS Sequences

CONSTANT Answers  \* the responses a request can get, by who made them

VARIABLES
  span,     \* the request's trace span: "unset" until the request begins
  answer,   \* the response sent, or "none"
  records   \* what the metrics service was given

vars == <<span, answer, records>>

Init ==
  /\ span = "unset"
  /\ answer = "none"
  /\ records = <<>>

\* The request begins, with a span or without.
Begin ==
  /\ span = "unset"
  /\ span' \in {"none", "open"}
  /\ UNCHANGED <<answer, records>>

\* Measure, end the span (the trace service may fail to) and answer, at once.
Reply(a) ==
  /\ span \in {"none", "open"}
  /\ answer = "none"
  /\ answer' = a
  /\ records' = <<a>>
  /\ span' \in IF span = "open" THEN {"closed", "lost"} ELSE {span}

Next == Begin \/ \E a \in Answers : Reply(a)

Spec == Init /\ [][Next]_vars
=============================================================================
