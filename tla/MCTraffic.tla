------------------------------ MODULE MCTraffic ------------------------------
(***************************************************************************)
(* RequestPipeline and WsClient for TLC.                                    *)
(*                                                                          *)
(* The request: handlers whose parameters are of each source, required or    *)
(* not, and requests that have all of them, or not all; filters, of which    *)
(* the parameters know nothing, on the routes of the handlers without        *)
(* parameters; of one level, or of several.                                 *)
(*                                                                          *)
(* The client: a few sockets and one request, once a plain HTTP request has   *)
(* been answered, so that the runs of the two are one after the other.       *)
(***************************************************************************)
EXTENDS RequestPipeline, WsClient

MCParameter(from, required, schema, sent) ==
  [from |-> from, required |-> required, schema |-> schema, sent |-> sent]

MCTakesBody == <<MCParameter("body", "unsaid", "strict", "valid")>>
MCMayTakeBody ==
  <<MCParameter("path", "unsaid", "none", "valid"), MCParameter("query", "unsaid", "lax", "absent"),
    MCParameter("body", "unsaid", "lax", "valid"), MCParameter("request", "unsaid", "none", "valid")>>
MCTakesForm ==
  <<MCParameter("field", "unsaid", "none", "valid"), MCParameter("files", "denied", "strict", "absent"),
    MCParameter("cookie", "said", "none", "valid"), MCParameter("file", "unsaid", "strict", "valid")>>
MCTakesBoth ==
  <<MCParameter("body", "denied", "none", "valid"), MCParameter("field", "unsaid", "none", "valid")>>
MCLacksHeader ==
  <<MCParameter("response", "unsaid", "none", "absent"), MCParameter("header", "unsaid", "strict", "absent")>>
MCBadFile == <<MCParameter("file", "denied", "strict", "invalid"), MCParameter("path", "unsaid", "strict", "valid")>>
MCSignatures ==
  {<<>>, MCTakesBody, MCMayTakeBody, MCTakesForm, MCTakesBoth, MCBadFile, MCLacksHeader}

MCFilters(params) == IF params = <<>> THEN {{}, {"global"}, {"controller", "route"}} ELSE {{}}

PlainRoute ==
  [fast |-> TRUE, params |-> <<>>, middleware |-> 0, guards |-> 0, interceptors |-> <<>>, filters |-> {}]
Served == route = PlainRoute /\ strands = {} /\ answer = "handler" /\ span = "none"

TrafficInit ==
  /\ Init /\ route.filters \in MCFilters(route.params)
  /\ ClientInit /\ (route = PlainRoute \/ protocol = "native")

TrafficNext ==
  \/ Next /\ UNCHANGED clientVars
  \/ Served /\ ClientNext /\ UNCHANGED vars

TrafficSpec ==
  TrafficInit /\ [][TrafficNext]_<<vars, clientVars>> /\ Fairness /\ ClientFairness
=============================================================================
