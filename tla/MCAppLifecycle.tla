---------------------------- MODULE MCAppLifecycle ----------------------------
(* One application with a chain of modules (the application imports users,   *)
(* users imports auth) and two signals; or two services of one module each   *)
(* and a signal, or the same two and a stopAll().                            *)
EXTENDS Services

CONSTANTS app, users, auth, orders, billing, sigterm, sigint, userCall

Trees == (app :> <<users>>) @@ (users :> <<auth>>) @@ (auth :> <<>>)
           @@ (orders :> <<>>) @@ (billing :> <<>>)

SingleApp ==
  [services |-> <<app>>, multi |-> FALSE, causes |-> {sigterm, sigint}]

TwoServices(causes) ==
  [services |-> <<orders, billing>>, multi |-> TRUE, causes |-> causes]

AnyDeployment == {SingleApp, TwoServices({sigterm}), TwoServices({userCall})}
=============================================================================
