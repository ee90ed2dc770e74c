---------------------------- MODULE WebSocketProofs ----------------------------
(***************************************************************************)
(* Proofs about WsClient for every number of sockets, requests and attempts, *)
(* and about WsServer for every number of clients, rooms and processes.     *)
(*                                                                          *)
(* WaitingOnlyConnected is inductive on its own.  ConnectedHasSocket and    *)
(* StaysOff are not: they need that an orderly application's client is, in  *)
(* every reachable state, in one of few situations (OneConnection), which   *)
(* is why the handlers may ignore which socket they belong to, and that no  *)
(* handler is in the middle of rearming a timer when disconnect() is called. *)
(*                                                                          *)
(* None of the server's properties is inductive, since each speaks of what  *)
(* is true when the handlers are done.  ServerInv says what holds while     *)
(* they are under way, one command at a time (ClientInv), and which process *)
(* an emission must still get to for those whom it is owed (OwedIsThere).   *)
(***************************************************************************)
EXTENDS WsClient, WsServer, FiniteSetTheorems, TLAPS

Past == {"unused", "closed"}
OnTheWayOut == {"closing", "aborting"}

\* The current socket is opening or open, as the state says, or it has failed and a
\* handler is still to report it closed; the others are past, or on their way there
\* after a disconnect().
SocketMatchesState ==
  /\ ws # NoSocket => \/ sock[ws] = "opening" /\ state = "CONNECTING"
                      \/ sock[ws] = "open" /\ state = "CONNECTED"
                      \/ sock[ws] = "closed" /\ handler.of = ws /\ state # "CONNECTED"
  /\ state \in {"CONNECTING", "CONNECTED"} => ws # NoSocket
  /\ \A s \in Socket : s # ws => sock[s] \in Past \cup OnTheWayOut

\* A reconnect timer is armed only where there is no connection to lose and no other
\* is about to be.
TimerMatchesState ==
  /\ strays = 0
  /\ handle => /\ off # "yes" /\ handler.at \in {"none", "closing"}
               /\ ws # NoSocket => sock[ws] = "closed"

\* A disconnected client has neither; only then is a socket on its way out.
OffMatchesState ==
  /\ off = "yes" => ws = NoSocket /\ handler.at \notin Rearming
  /\ \A s \in Socket : sock[s] \in OnTheWayOut => off = "yes"

\* A handler that is not done has lost its connection.
HandlerMatchesState ==
  handler # NoHandler =>
    /\ ws # NoSocket => sock[ws] = "closed"
    /\ handler.at # "none"

OneConnection ==
  SocketMatchesState /\ TimerMatchesState /\ OffMatchesState /\ HandlerMatchesState

\* Of every client: a handler that will arm a timer runs while it is not CONNECTED.
RearmsUnconnected == handler.at \in Rearming => state # "CONNECTED"

Unborn == \A s \in Socket : s > created => sock[s] = "unused"

IInv == /\ ClientTypeOK /\ Unborn /\ WaitingOnlyConnected /\ RearmsUnconnected
        /\ Orderly => OneConnection

-----------------------------------------------------------------------------
\* Nothing is connected at first.
LEMMA InitIInv == ClientInit => IInv
<1> SUFFICES ASSUME ClientInit PROVE IInv
  OBVIOUS
<1>1. ClientTypeOK
  <2>1. 0 \in 0..MaxSockets /\ ws \in 0..created /\ 0 \in 0..MaxAttempts /\ created = 0
    BY MaxSocketsAssumption, MaxAttemptsAssumption DEF ClientInit, NoSocket
  <2>2. /\ sock \in [Socket -> {"unused", "opening", "aborting", "open", "closing", "closed"}]
        /\ owner \in [Socket -> {"user", "timer"}]
        /\ request \in [Requests -> {"unused", "waiting", "cleared", "settled"}]
    BY DEF ClientInit
  <2>3. /\ off \in {"no", "late", "yes"} /\ {gaveUp, fresh} \subseteq BOOLEAN
        /\ handle \in BOOLEAN /\ state \in States /\ protocol \in {"native", "socketio"}
    BY DEF ClientInit, States
  <2>4. handler \in [at : Stages, of : 0..MaxSockets]
    BY <2>1 DEF ClientInit, NoHandler, Stages, NoSocket
  <2> QED BY <2>1, <2>2, <2>3, <2>4 DEF ClientInit, ClientTypeOK
<1>2. Unborn /\ WaitingOnlyConnected /\ RearmsUnconnected
  BY DEF ClientInit, Unborn, WaitingOnlyConnected, RearmsUnconnected
<1>3. OneConnection
  BY DEF ClientInit, OneConnection, SocketMatchesState, TimerMatchesState, OffMatchesState,
         HandlerMatchesState, NoHandler, Rearming, Past, OnTheWayOut
<1> QED BY <1>1, <1>2, <1>3 DEF IInv

\* What connect() does to the sockets.
LEMMA OpenSocketEffect ==
  ASSUME ClientTypeOK, NEW who \in {"user", "timer"}, OpenSocket(who)
  PROVE  /\ created' \in 0..MaxSockets /\ created' > created
         /\ created' \in Socket /\ ws' = created' /\ ws' # NoSocket /\ ws' \in 0..created'
         /\ state' = "CONNECTING" /\ state' \in States
         /\ sock' \in [Socket -> {"unused", "opening", "aborting", "open", "closing", "closed"}]
         /\ owner' \in [Socket -> {"user", "timer"}]
         /\ sock'[ws'] = "opening"
         /\ \A s \in Socket : s # ws' => sock'[s] = sock[s]
  BY MaxSocketsAssumption DEF ClientTypeOK, OpenSocket, Socket, NoSocket, States

\* What is left when no more than onclose is.
LEMMA ThenCloseIs ==
  ASSUME NEW s \in 0..MaxSockets
  PROVE  /\ ThenClose(s) \in [at : Stages, of : 0..MaxSockets]
         /\ ThenClose(s).of = s /\ ThenClose(s).at \in {"none", "closing"}
         /\ ThenClose(s).at = "none" => ThenClose(s) = NoHandler
  BY DEF ThenClose, NoHandler, NoSocket, Stages

\* What scheduleReconnect() does before its listeners run.
LEMMA ScheduleReconnectEffect ==
  ASSUME ClientTypeOK, NEW s \in 0..MaxSockets, ScheduleReconnect(s)
  PROVE  /\ attempts' \in 0..MaxAttempts /\ gaveUp' \in BOOLEAN
         /\ state' \in {state, "RECONNECTING"}
         /\ handler' \in [at : Stages, of : 0..MaxSockets] /\ handler'.of = s
         /\ handler'.at \in {"none", "closing", "attempt"}
         /\ handler'.at = "none" => handler' = NoHandler
         /\ handler'.at = "attempt" => state' = "RECONNECTING"
<1> USE MaxAttemptsAssumption
<1>1. CASE attempts >= MaxAttempts
  BY <1>1, ThenCloseIs DEF ClientTypeOK, ScheduleReconnect
<1>2. CASE ~(attempts >= MaxAttempts)
  <2>1. /\ attempts' = attempts + 1 /\ gaveUp' = gaveUp /\ state' = "RECONNECTING"
        /\ handler' = [at |-> "attempt", of |-> s]
    BY <1>2 DEF ScheduleReconnect
  <2>2. attempts' \in 0..MaxAttempts
    BY <1>2, <2>1 DEF ClientTypeOK
  <2> QED BY <2>1, <2>2 DEF ClientTypeOK, Stages
<1> QED BY <1>1, <1>2

\* What handleClose() does before its listeners run.
LEMMA HandleCloseEffect ==
  ASSUME ClientTypeOK, HandleClose
  PROVE  /\ ws' = NoSocket /\ state' = "DISCONNECTED"
         /\ handler' \in [at : Stages, of : 0..MaxSockets]
         /\ handler' = NoHandler \/ handler'.at = "disconnect"
         /\ state # "CONNECTED" => handler' = NoHandler
         /\ request' \in [Requests -> {"unused", "waiting", "cleared", "settled"}]
         /\ \A r \in Requests : request'[r] # "waiting"
         /\ UNCHANGED <<protocol, created, owner, attempts, handle, strays, off, gaveUp, fresh>>
<1>1. 0 \in 0..MaxSockets
  BY MaxSocketsAssumption
<1>2. /\ handler' \in [at : Stages, of : 0..MaxSockets]
      /\ handler' = NoHandler \/ handler'.at = "disconnect"
      /\ state # "CONNECTED" => handler' = NoHandler
  BY <1>1 DEF HandleClose, Stages, NoHandler, NoSocket
<1> QED BY <1>2 DEF HandleClose, ClientTypeOK, retry, clientHistory

-----------------------------------------------------------------------------
\* connect(), called by the application.
LEMMA ConnectIInv == IInv /\ Connect => IInv'
<1> SUFFICES ASSUME IInv, Connect PROVE IInv'
  OBVIOUS
<1>1. /\ ClientTypeOK /\ OpenSocket("user") /\ state # "CONNECTED"
      /\ UNCHANGED <<protocol, handler, attempts, handle, strays, request>>
      /\ off' = "no" /\ gaveUp' = FALSE
      /\ fresh' = (fresh /\ NothingUnderWay)
  BY DEF IInv, Connect, retry
<1>2. ClientTypeOK'
  <2>1. {gaveUp', fresh'} \subseteq BOOLEAN
    <3>1. fresh' \in BOOLEAN /\ gaveUp' \in BOOLEAN
      BY <1>1, Zenon
    <3> QED BY <3>1
  <2> QED BY <1>1, <2>1, OpenSocketEffect DEF ClientTypeOK
<1>3. Unborn'
  BY <1>1, OpenSocketEffect DEF IInv, Unborn, ClientTypeOK, Socket
<1>4. WaitingOnlyConnected' /\ RearmsUnconnected'
  BY <1>1, OpenSocketEffect DEF IInv, WaitingOnlyConnected, RearmsUnconnected
<1>5. ASSUME Orderly' PROVE OneConnection'
  <2>1. Orderly /\ NothingUnderWay
    BY <1>1, <1>5 DEF Orderly
  <2>2. /\ ~handle /\ strays = 0 /\ handler = NoHandler
        /\ \A s \in Socket : sock[s] \in Past
    BY <2>1 DEF NothingUnderWay, Returned, Past
  <2>3. SocketMatchesState'
    BY <1>1, <2>2, OpenSocketEffect DEF SocketMatchesState
  <2>4. TimerMatchesState'
    BY <1>1, <2>2 DEF TimerMatchesState
  <2>5. OffMatchesState'
    BY <1>1, <2>2, OpenSocketEffect DEF OffMatchesState, Past, OnTheWayOut
  <2>6. HandlerMatchesState'
    BY <1>1, <2>2 DEF HandlerMatchesState
  <2> QED BY <2>3, <2>4, <2>5, <2>6 DEF OneConnection
<1> QED BY <1>2, <1>3, <1>4, <1>5 DEF IInv

\* A reconnect timer fires.
LEMMA TimerFiresIInv == IInv /\ ReconnectTimerFires => IInv'
<1> SUFFICES ASSUME IInv, ReconnectTimerFires PROVE IInv'
  OBVIOUS
<1>1. /\ ClientTypeOK /\ handler = NoHandler
      /\ \/ handle /\ handle' = FALSE /\ strays' = strays
         \/ strays > 0 /\ strays' = strays - 1 /\ handle' = handle
      /\ UNCHANGED <<protocol, handler, attempts, request, off, gaveUp, fresh>>
  BY DEF IInv, ReconnectTimerFires, Returned, clientHistory
<1>2. strays' \in Nat /\ handle' \in BOOLEAN
  <2>1. strays \in Nat /\ handle \in BOOLEAN
    BY <1>1 DEF ClientTypeOK
  <2>2. CASE handle /\ handle' = FALSE /\ strays' = strays
    BY <2>1, <2>2
  <2>3. CASE strays > 0 /\ strays' = strays - 1 /\ handle' = handle
    <3>1. strays' \in Nat
      BY <2>1, <2>3
    <3> QED BY <2>1, <2>3, <3>1
  <2> QED BY <1>1, <2>2, <2>3
<1>3. CASE state = "CONNECTED"
  <2>1. UNCHANGED <<state, ws, created, sock, owner>>
    BY <1>3 DEF ReconnectTimerFires, link
  <2>2. ClientTypeOK' /\ Unborn' /\ WaitingOnlyConnected' /\ RearmsUnconnected'
    BY <1>1, <1>2, <2>1 DEF IInv, ClientTypeOK, Unborn, WaitingOnlyConnected, RearmsUnconnected
  <2>3. ASSUME Orderly' PROVE OneConnection'
    <3>1. OneConnection
      BY <1>1, <2>3 DEF IInv, Orderly
    <3>2. ws # NoSocket /\ sock[ws] # "closed"
      BY <1>3, <3>1 DEF OneConnection, SocketMatchesState
    <3>3. FALSE
      BY <1>1, <3>1, <3>2 DEF OneConnection, TimerMatchesState
    <3> QED BY <3>3
  <2> QED BY <2>2, <2>3 DEF IInv
<1>4. CASE state # "CONNECTED"
  <2>1. OpenSocket("timer")
    BY <1>4 DEF ReconnectTimerFires
  <2>2. ClientTypeOK'
    BY <1>1, <1>2, <2>1, OpenSocketEffect DEF ClientTypeOK
  <2>3. Unborn'
    BY <1>1, <2>1, OpenSocketEffect DEF IInv, Unborn, ClientTypeOK, Socket
  <2>4. WaitingOnlyConnected' /\ RearmsUnconnected'
    BY <1>1, <1>4, <2>1, OpenSocketEffect DEF IInv, WaitingOnlyConnected, RearmsUnconnected
  <2>5. ASSUME Orderly' PROVE OneConnection'
    <3>1. OneConnection
      BY <1>1, <2>5 DEF IInv, Orderly
    <3>2. handle /\ ~handle' /\ strays' = 0 /\ off' # "yes" /\ ws = NoSocket
      <4>1. /\ handle /\ ~handle' /\ strays' = 0 /\ off' # "yes"
            /\ ws # NoSocket => sock[ws] = "closed"
        BY <1>1, <3>1 DEF OneConnection, TimerMatchesState
      <4>2. ws # NoSocket /\ sock[ws] = "closed" => handler.of = ws
        BY <3>1 DEF OneConnection, SocketMatchesState
      <4>3. handler.of = NoSocket
        BY <1>1 DEF NoHandler
      <4>4. ws = NoSocket
        BY <4>1, <4>2, <4>3
      <4> QED BY <4>1, <4>4
    <3>3. \A s \in Socket : sock[s] \in Past
      <4>1. \A s \in Socket : s # NoSocket
        BY DEF Socket, NoSocket
      <4> QED BY <1>1, <3>1, <3>2, <4>1
              DEF OneConnection, SocketMatchesState, OffMatchesState
    <3>4. SocketMatchesState'
      BY <1>1, <2>1, <3>3, OpenSocketEffect DEF SocketMatchesState
    <3>5. TimerMatchesState' /\ OffMatchesState'
      BY <1>1, <2>1, <3>2, <3>3, OpenSocketEffect
      DEF TimerMatchesState, OffMatchesState, Past, OnTheWayOut
    <3>6. HandlerMatchesState'
      BY <1>1 DEF HandlerMatchesState
    <3> QED BY <3>4, <3>5, <3>6 DEF OneConnection
  <2> QED BY <2>2, <2>3, <2>4, <2>5 DEF IInv
<1> QED BY <1>3, <1>4

\* onopen of the current socket: an orderly client has no other that could open.
LEMMA SocketOpensIInv == ASSUME NEW s \in Socket PROVE IInv /\ SocketOpens(s) => IInv'
<1> SUFFICES ASSUME IInv, SocketOpens(s) PROVE IInv'
  OBVIOUS
<1>1. /\ ClientTypeOK /\ handler = NoHandler
      /\ sock[s] = "opening" /\ sock' = [sock EXCEPT ![s] = "open"]
      /\ state' = "CONNECTED" /\ attempts' = 0
      /\ UNCHANGED <<protocol, ws, created, owner, handler, handle, strays, request,
                     off, gaveUp, fresh>>
  BY DEF IInv, SocketOpens, Returned, clientHistory
<1>2. ClientTypeOK'
  BY <1>1, MaxAttemptsAssumption DEF ClientTypeOK, States
<1>3. Unborn' /\ WaitingOnlyConnected' /\ RearmsUnconnected'
  BY <1>1 DEF IInv, ClientTypeOK, Unborn, WaitingOnlyConnected, RearmsUnconnected, Rearming,
              NoHandler
<1>4. ASSUME Orderly' PROVE OneConnection'
  <2>1. OneConnection
    BY <1>1, <1>4 DEF IInv, Orderly
  <2>2. s = ws /\ ws # NoSocket
    BY <1>1, <2>1 DEF OneConnection, SocketMatchesState, Past, OnTheWayOut, Socket, NoSocket
  <2>3. SocketMatchesState'
    BY <1>1, <2>1, <2>2 DEF OneConnection, SocketMatchesState, ClientTypeOK
  <2>4. TimerMatchesState' /\ OffMatchesState'
    BY <1>1, <2>1, <2>2
    DEF OneConnection, TimerMatchesState, OffMatchesState, ClientTypeOK, OnTheWayOut
  <2>5. HandlerMatchesState'
    BY <1>1 DEF HandlerMatchesState
  <2> QED BY <2>3, <2>4, <2>5 DEF OneConnection
<1> QED BY <1>2, <1>3, <1>4 DEF IInv

\* handleClose(): the current socket, if any, is past; only a client that was CONNECTED
\* has anything left to do, and that one had no timer.
LEMMA CloseIInv ==
  ASSUME IInv, HandleClose,
         sock' \in [Socket -> {"unused", "opening", "aborting", "open", "closing", "closed"}],
         \A t \in Socket : sock'[t] = sock[t] \/ (sock'[t] = "closed" /\ sock[t] # "unused"),
         Orderly /\ ws # NoSocket => sock'[ws] \in Past
  PROVE  IInv'
<1>1. ClientTypeOK
  BY DEF IInv
<1>2. ClientTypeOK'
  BY <1>1, HandleCloseEffect DEF ClientTypeOK, States, NoSocket
<1>3. Unborn' /\ WaitingOnlyConnected' /\ RearmsUnconnected'
  BY <1>1, HandleCloseEffect DEF IInv, Unborn, WaitingOnlyConnected, RearmsUnconnected
<1>4. ASSUME Orderly' PROVE OneConnection'
  <2>1. Orderly /\ OneConnection
    BY <1>1, <1>4, HandleCloseEffect DEF IInv, Orderly
  <2>2. \A s \in Socket : sock'[s] \in Past \cup OnTheWayOut
    BY <2>1 DEF OneConnection, SocketMatchesState, Past, OnTheWayOut, NoSocket, Socket
  <2>3. SocketMatchesState'
    BY <1>1, <2>2, HandleCloseEffect DEF SocketMatchesState
  <2>4. handle \/ off = "yes" => handler' = NoHandler
    <3>1. handle \/ off = "yes" => state # "CONNECTED"
      BY <2>1 DEF OneConnection, SocketMatchesState, TimerMatchesState, OffMatchesState
    <3> QED BY <1>1, <3>1, HandleCloseEffect
  <2>5. TimerMatchesState'
    <3>1. strays' = 0 /\ handle' = handle /\ off' = off /\ ws' = NoSocket
          /\ (handle => off # "yes")
      BY <1>1, <2>1, HandleCloseEffect DEF OneConnection, TimerMatchesState
    <3> QED BY <2>4, <3>1 DEF TimerMatchesState, NoHandler
  <2>6. OffMatchesState'
    <3>1. off' = off /\ ws' = NoSocket
      BY <1>1, HandleCloseEffect
    <3>2. \A s \in Socket : sock'[s] \in OnTheWayOut => off = "yes"
      BY <2>1 DEF OneConnection, OffMatchesState, OnTheWayOut
    <3> QED BY <2>4, <3>1, <3>2 DEF OffMatchesState, NoHandler, Rearming
  <2>7. HandlerMatchesState'
    BY <1>1, HandleCloseEffect DEF HandlerMatchesState
  <2> QED BY <2>3, <2>5, <2>6, <2>7 DEF OneConnection
<1> QED BY <1>2, <1>3, <1>4 DEF IInv

\* onclose, of the current socket or of one on its way out, and the CLOSE packet,
\* which no plain WebSocket receives.
LEMMA SocketClosesIInv ==
  ASSUME NEW s \in Socket
  PROVE  IInv /\ (SocketCloses(s) \/ ClosePacket(s)) => IInv'
<1>1. ASSUME IInv, SocketCloses(s) PROVE IInv'
  <2>1. /\ ClientTypeOK /\ HandleClose /\ sock[s] \in {"open", "closing", "aborting"}
        /\ sock' = [sock EXCEPT ![s] = "closed"]
    BY <1>1 DEF IInv, SocketCloses
  <2>2. /\ sock' \in [Socket -> {"unused", "opening", "aborting", "open", "closing", "closed"}]
        /\ sock'[s] = "closed" /\ \A t \in Socket : t # s => sock'[t] = sock[t]
    BY <2>1 DEF ClientTypeOK
  <2>3. ASSUME Orderly, ws # NoSocket PROVE sock'[ws] \in Past
    <3>1. OneConnection
      BY <1>1, <2>3 DEF IInv
    <3>2. s = ws
      BY <2>1, <2>3, <3>1 DEF OneConnection, SocketMatchesState, OffMatchesState, Past, OnTheWayOut
    <3> QED BY <2>2, <3>2 DEF Past
  <2> QED BY <1>1, <2>1, <2>2, <2>3, CloseIInv
<1>2. ASSUME IInv, ClosePacket(s) PROVE IInv'
  <2>1. ClientTypeOK /\ HandleClose /\ sock' = sock /\ ~Orderly
    BY <1>2 DEF IInv, ClosePacket, Orderly
  <2> QED BY <1>2, <2>1, CloseIInv DEF ClientTypeOK
<1> QED BY <1>1, <1>2

\* onclose of a socket that has failed.
LEMMA FailedClosesIInv == IInv /\ FailedCloses => IInv'
<1> SUFFICES ASSUME IInv, FailedCloses PROVE IInv'
  OBVIOUS
<1>1. ClientTypeOK /\ HandleClose /\ sock' = sock /\ handler.at = "closing"
  BY DEF IInv, FailedCloses
<1>2. ASSUME Orderly, ws # NoSocket PROVE sock'[ws] \in Past
  <2>1. handler # NoHandler
    BY <1>1 DEF NoHandler
  <2> QED BY <1>1, <1>2, <2>1 DEF IInv, OneConnection, HandlerMatchesState, Past
<1> QED BY <1>1, <1>2, CloseIInv DEF ClientTypeOK

\* onerror: the socket is the current one, or one that disconnect() has closed.
LEMMA SocketFailsIInv == ASSUME NEW s \in Socket PROVE IInv /\ SocketFails(s) => IInv'
<1> SUFFICES ASSUME IInv, SocketFails(s) PROVE IInv'
  OBVIOUS
<1>1. /\ ClientTypeOK /\ handler = NoHandler /\ sock[s] \in {"opening", "aborting"}
      /\ sock' = [sock EXCEPT ![s] = "closed"]
      /\ handler' = [at |-> "error", of |-> s]
      /\ UNCHANGED <<protocol, state, ws, created, owner, attempts, handle, strays, request,
                     off, gaveUp, fresh>>
  BY DEF IInv, SocketFails, Returned, retry, clientHistory
<1>2. /\ sock' \in [Socket -> {"unused", "opening", "aborting", "open", "closing", "closed"}]
      /\ sock'[s] = "closed" /\ \A t \in Socket : t # s => sock'[t] = sock[t]
  BY <1>1 DEF ClientTypeOK
<1>3. ClientTypeOK'
  <2>1. handler' \in [at : Stages, of : 0..MaxSockets]
    BY <1>1, MaxSocketsAssumption DEF Stages, Socket
  <2> QED BY <1>1, <1>2, <2>1 DEF ClientTypeOK
<1>4. Unborn' /\ WaitingOnlyConnected' /\ RearmsUnconnected'
  BY <1>1, <1>2 DEF IInv, Unborn, WaitingOnlyConnected, RearmsUnconnected, Rearming
<1>5. ASSUME Orderly' PROVE OneConnection'
  <2>1. OneConnection
    BY <1>1, <1>5 DEF IInv, Orderly
  <2>2. s # NoSocket
    BY DEF Socket, NoSocket
  <2>3. ws # NoSocket => s = ws /\ state # "CONNECTED"
    BY <1>1, <2>1 DEF OneConnection, SocketMatchesState, OffMatchesState, Past, OnTheWayOut
  <2>4. ~handle
    BY <1>1, <2>1, <2>2 DEF OneConnection, SocketMatchesState, TimerMatchesState,
                            OffMatchesState, Past, OnTheWayOut
  <2>5. SocketMatchesState'
    BY <1>1, <1>2, <2>1, <2>3 DEF OneConnection, SocketMatchesState, Past
  <2>6. TimerMatchesState' /\ HandlerMatchesState'
    BY <1>1, <1>2, <2>1, <2>3, <2>4 DEF OneConnection, TimerMatchesState, HandlerMatchesState
  <2>7. OffMatchesState'
    BY <1>1, <1>2, <2>1 DEF OneConnection, OffMatchesState, OnTheWayOut, Rearming
  <2> QED BY <2>5, <2>6, <2>7 DEF OneConnection
<1> QED BY <1>3, <1>4, <1>5 DEF IInv

\* The listeners of 'error' have returned: only a client that is still CONNECTING is
\* going to arm a timer.
LEMMA ErrorHeardIInv == IInv /\ ErrorHeard => IInv'
<1> SUFFICES ASSUME IInv, ErrorHeard PROVE IInv'
  OBVIOUS
<1>1. /\ ClientTypeOK /\ handler.at = "error"
      /\ UNCHANGED <<protocol, state, ws, created, sock, owner, attempts, handle, strays,
                     request, off, gaveUp, fresh>>
  BY DEF IInv, ErrorHeard, link, retry, clientHistory
<1>2. /\ handler' \in [at : Stages, of : 0..MaxSockets] /\ handler'.of = handler.of
      /\ handler'.at \in {"none", "closing", "rejected"}
      /\ handler'.at = "none" => handler' = NoHandler
      /\ handler'.at = "rejected" => state = "CONNECTING"
  <2>1. handler.of \in 0..MaxSockets /\ handler \in [at : Stages, of : 0..MaxSockets]
    BY <1>1 DEF ClientTypeOK
  <2>2. CASE state = "CONNECTING" /\ owner[handler.of] = "timer"
    BY <2>1, <2>2 DEF ErrorHeard, Stages
  <2>3. CASE ~(state = "CONNECTING" /\ owner[handler.of] = "timer")
    <3>1. handler' = ThenClose(handler.of)
      BY <2>3 DEF ErrorHeard
    <3> QED BY <2>1, <3>1, ThenCloseIs
  <2> QED BY <2>2, <2>3
<1>3. ClientTypeOK' /\ Unborn' /\ WaitingOnlyConnected' /\ RearmsUnconnected'
  BY <1>1, <1>2 DEF IInv, ClientTypeOK, Unborn, WaitingOnlyConnected, RearmsUnconnected, Rearming
<1>4. ASSUME Orderly' PROVE OneConnection'
  <2>1. OneConnection /\ handler # NoHandler
    BY <1>1, <1>4 DEF IInv, Orderly, NoHandler
  <2>2. SocketMatchesState' /\ HandlerMatchesState'
    BY <1>1, <1>2, <2>1 DEF OneConnection, SocketMatchesState, HandlerMatchesState
  <2>3. TimerMatchesState'
    BY <1>1, <1>2, <2>1 DEF OneConnection, TimerMatchesState
  <2>4. OffMatchesState'
    BY <1>1, <1>2, <2>1 DEF OneConnection, SocketMatchesState, OffMatchesState, Rearming
  <2> QED BY <2>2, <2>3, <2>4 DEF OneConnection
<1> QED BY <1>3, <1>4 DEF IInv

\* The reconnection is scheduled, up to its listeners.
LEMMA RescheduleIInv == IInv /\ (Rejected \/ DisconnectHeard) => IInv'
<1> SUFFICES ASSUME IInv, Rejected \/ DisconnectHeard PROVE IInv'
  OBVIOUS
<1>1. /\ ClientTypeOK /\ handler.at \in {"rejected", "disconnect"} /\ ScheduleReconnect(handler.of)
      /\ UNCHANGED <<protocol, ws, created, sock, owner, handle, strays, request, off, fresh>>
  BY DEF IInv, Rejected, DisconnectHeard
<1>2. handler.of \in 0..MaxSockets /\ state # "CONNECTED"
  BY <1>1 DEF IInv, ClientTypeOK, RearmsUnconnected, Rearming
<1>3. /\ attempts' \in 0..MaxAttempts /\ gaveUp' \in BOOLEAN
      /\ state' \in {state, "RECONNECTING"}
      /\ handler' \in [at : Stages, of : 0..MaxSockets] /\ handler'.of = handler.of
      /\ handler'.at \in {"none", "closing", "attempt"}
      /\ handler'.at = "none" => handler' = NoHandler
      /\ handler'.at = "attempt" => state' = "RECONNECTING"
  BY <1>1, <1>2, ScheduleReconnectEffect
<1>4. ClientTypeOK'
  BY <1>1, <1>3 DEF ClientTypeOK, States
<1>5. Unborn' /\ WaitingOnlyConnected' /\ RearmsUnconnected'
  BY <1>1, <1>2, <1>3 DEF IInv, Unborn, WaitingOnlyConnected, RearmsUnconnected, Rearming
<1>6. ASSUME Orderly' PROVE OneConnection'
  <2>1. OneConnection /\ handler # NoHandler
    BY <1>1, <1>6 DEF IInv, Orderly, NoHandler
  <2>2. ~handle /\ off # "yes"
    BY <1>1, <2>1 DEF OneConnection, TimerMatchesState, OffMatchesState, Rearming
  <2>3. SocketMatchesState' /\ HandlerMatchesState'
    BY <1>1, <1>2, <1>3, <2>1 DEF OneConnection, SocketMatchesState, HandlerMatchesState
  <2>4. TimerMatchesState' /\ OffMatchesState'
    BY <1>1, <2>1, <2>2 DEF OneConnection, TimerMatchesState, OffMatchesState
  <2> QED BY <2>3, <2>4 DEF OneConnection
<1> QED BY <1>4, <1>5, <1>6 DEF IInv

\* The timer is armed.
LEMMA AttemptHeardIInv == IInv /\ AttemptHeard => IInv'
<1> SUFFICES ASSUME IInv, AttemptHeard PROVE IInv'
  OBVIOUS
<1>1. /\ ClientTypeOK /\ handler.at = "attempt" /\ handler' = ThenClose(handler.of) /\ handle'
      /\ strays' = IF handle THEN strays + 1 ELSE strays
      /\ UNCHANGED <<protocol, state, ws, created, sock, owner, attempts, request,
                     off, gaveUp, fresh>>
  BY DEF IInv, AttemptHeard, link, clientHistory
<1>2. /\ handler' \in [at : Stages, of : 0..MaxSockets] /\ handler'.of = handler.of
      /\ handler'.at \in {"none", "closing"}
      /\ handler'.at = "none" => handler' = NoHandler
  BY <1>1, ThenCloseIs DEF ClientTypeOK
<1>3. ClientTypeOK'
  <2>1. strays' \in Nat /\ handle' \in BOOLEAN
    BY <1>1 DEF ClientTypeOK, AttemptHeard
  <2> QED BY <1>1, <1>2, <2>1 DEF ClientTypeOK
<1>4. Unborn' /\ WaitingOnlyConnected' /\ RearmsUnconnected'
  BY <1>1, <1>2 DEF IInv, Unborn, WaitingOnlyConnected, RearmsUnconnected, Rearming
<1>5. ASSUME Orderly' PROVE OneConnection'
  <2>1. OneConnection /\ handler # NoHandler
    BY <1>1, <1>5 DEF IInv, Orderly, NoHandler
  <2>2. ~handle /\ strays = 0 /\ off # "yes" /\ (ws # NoSocket => sock[ws] = "closed")
    BY <1>1, <2>1 DEF OneConnection, TimerMatchesState, OffMatchesState,
                      HandlerMatchesState, Rearming
  <2>3. SocketMatchesState' /\ HandlerMatchesState'
    BY <1>1, <1>2, <2>1 DEF OneConnection, SocketMatchesState, HandlerMatchesState
  <2>4. TimerMatchesState' /\ OffMatchesState'
    BY <1>1, <1>2, <2>1, <2>2 DEF OneConnection, TimerMatchesState, OffMatchesState
  <2> QED BY <2>3, <2>4 DEF OneConnection
<1> QED BY <1>3, <1>4, <1>5 DEF IInv

\* disconnect()
LEMMA DisconnectIInv == IInv /\ Disconnect => IInv'
<1> SUFFICES ASSUME IInv, Disconnect PROVE IInv'
  OBVIOUS
<1>1. /\ ClientTypeOK /\ ~handle' /\ ws' = NoSocket /\ state' = "DISCONNECTED"
      /\ off' = IF handler.at \in Rearming THEN "late" ELSE "yes"
      /\ sock' = IF ws = NoSocket THEN sock ELSE [sock EXCEPT ![ws] = Closed(ws)]
      /\ UNCHANGED <<protocol, created, owner, handler, attempts, strays, gaveUp, fresh>>
  BY DEF IInv, Disconnect
<1>2. /\ sock' \in [Socket -> {"unused", "opening", "aborting", "open", "closing", "closed"}]
      /\ \A s \in Socket : IF s = ws /\ sock[s] \in {"opening", "open"}
                           THEN sock'[s] \in OnTheWayOut ELSE sock'[s] = sock[s]
  <2>1. CASE ws = NoSocket
    <3>1. \A s \in Socket : s # ws
      BY <2>1 DEF Socket, NoSocket
    <3>2. sock' = sock
      BY <1>1, <2>1
    <3> QED BY <1>1, <3>1, <3>2 DEF ClientTypeOK
  <2>2. CASE ws # NoSocket
    <3>1. ws \in Socket
      BY <1>1, <2>2, MaxSocketsAssumption DEF ClientTypeOK, Socket, NoSocket
    <3>2. /\ sock[ws] \in {"unused", "opening", "aborting", "open", "closing", "closed"}
          /\ Closed(ws) = CASE sock[ws] = "opening" -> "aborting"
                            [] sock[ws] = "open" -> "closing"
                            [] OTHER -> sock[ws]
      BY <1>1, <3>1 DEF ClientTypeOK, Closed
    <3>3. IF sock[ws] \in {"opening", "open"}
          THEN Closed(ws) \in OnTheWayOut ELSE Closed(ws) = sock[ws]
      BY <3>2 DEF OnTheWayOut
    <3>4. sock' = [sock EXCEPT ![ws] = Closed(ws)]
      BY <1>1, <2>2
    <3>5. Closed(ws) \in {"unused", "opening", "aborting", "open", "closing", "closed"}
      BY <3>2, <3>3 DEF OnTheWayOut
    <3> QED BY <1>1, <3>1, <3>3, <3>4, <3>5 DEF ClientTypeOK
  <2> QED BY <2>1, <2>2
<1>3. ClientTypeOK'
  <2>1. request' \in [Requests -> {"unused", "waiting", "cleared", "settled"}]
    BY <1>1 DEF Disconnect, ClientTypeOK
  <2>2. /\ off' \in {"no", "late", "yes"} /\ {gaveUp', fresh'} \subseteq BOOLEAN
        /\ handle' \in BOOLEAN
    BY <1>1 DEF Disconnect, ClientTypeOK
  <2> QED BY <1>1, <1>2, <2>1, <2>2 DEF ClientTypeOK, States, NoSocket
<1>4. Unborn'
  BY <1>1, <1>2 DEF IInv, Unborn
<1>5. WaitingOnlyConnected' /\ RearmsUnconnected'
  BY <1>1 DEF Disconnect, WaitingOnlyConnected, RearmsUnconnected
<1>6. ASSUME Orderly' PROVE OneConnection'
  <2>1. OneConnection
    BY <1>1, <1>6 DEF IInv, Orderly
  <2>2. \A s \in Socket : sock'[s] \in Past \cup OnTheWayOut
    BY <1>2, <2>1 DEF OneConnection, SocketMatchesState, Past, OnTheWayOut, NoSocket, Socket
  <2>3. SocketMatchesState'
    BY <1>1, <2>2 DEF SocketMatchesState
  <2>4. TimerMatchesState' /\ HandlerMatchesState'
    BY <1>1, <2>1 DEF OneConnection, TimerMatchesState, HandlerMatchesState
  <2>5. ASSUME NEW s \in Socket, sock'[s] \in OnTheWayOut PROVE off' = "yes"
    <3>1. CASE sock[s] \in OnTheWayOut
      BY <1>1, <2>1, <3>1 DEF OneConnection, OffMatchesState
    <3>2. CASE s = ws /\ sock[s] \in {"opening", "open"}
      <4>1. handler = NoHandler
        BY <2>1, <3>2 DEF OneConnection, HandlerMatchesState, NoSocket, Socket
      <4> QED BY <1>1, <4>1 DEF NoHandler, Rearming
    <3> QED BY <1>2, <2>5, <3>1, <3>2
  <2>6. OffMatchesState'
    BY <1>1, <2>5 DEF OffMatchesState
  <2> QED BY <2>3, <2>4, <2>6 DEF OneConnection
<1> QED BY <1>3, <1>4, <1>5, <1>6 DEF IInv

\* emit(), its acknowledgement and its timeout touch nothing but the request, which
\* waits only if the client is CONNECTED.
LEMMA RequestIInv ==
  ASSUME IInv, NEW r \in Requests, NEW v \in {"waiting", "settled"},
         v = "waiting" => state = "CONNECTED",
         request' = [request EXCEPT ![r] = v],
         UNCHANGED <<protocol, link, handler, retry, clientHistory>>
  PROVE  IInv'
<1>1. UNCHANGED <<protocol, state, ws, created, sock, owner, handler, attempts, handle, strays,
                  off, gaveUp, fresh>>
  BY DEF link, retry, clientHistory
<1>2. ClientTypeOK' /\ Unborn' /\ WaitingOnlyConnected' /\ RearmsUnconnected'
  BY <1>1 DEF IInv, ClientTypeOK, Unborn, WaitingOnlyConnected, RearmsUnconnected
<1>3. Orderly' => OneConnection'
  BY <1>1 DEF IInv, Orderly, OneConnection, SocketMatchesState, TimerMatchesState,
              OffMatchesState, HandlerMatchesState
<1> QED BY <1>2, <1>3 DEF IInv

\* emit()
LEMMA EmitIInv == ASSUME NEW r \in Requests PROVE IInv /\ Emit(r) => IInv'
  BY RequestIInv DEF Emit, CanSend

\* An acknowledgement.
LEMMA AckIInv ==
  ASSUME NEW r \in Requests, NEW s \in Socket PROVE IInv /\ Ack(s, r) => IInv'
  BY RequestIInv DEF Ack

\* The timeout of a request.
LEMMA TimeoutIInv == ASSUME NEW r \in Requests PROVE IInv /\ Timeout(r) => IInv'
  BY RequestIInv DEF Timeout

-----------------------------------------------------------------------------
\* No step of the client breaks the invariant.
LEMMA NextIInv == IInv /\ [ClientNext]_clientVars => IInv'
<1> SUFFICES ASSUME IInv, [ClientNext]_clientVars PROVE IInv'
  OBVIOUS
<1>1. CASE Connect
  BY <1>1, ConnectIInv
<1>2. CASE Disconnect
  BY <1>2, DisconnectIInv
<1>3. CASE ReconnectTimerFires
  BY <1>3, TimerFiresIInv
<1>4. CASE \E s \in Socket : SocketOpens(s)
  BY <1>4, SocketOpensIInv
<1>5. CASE \E s \in Socket : SocketFails(s)
  BY <1>5, SocketFailsIInv
<1>6. CASE \E s \in Socket : SocketCloses(s) \/ ClosePacket(s)
  BY <1>6, SocketClosesIInv
<1>7. CASE \E r \in Requests : Emit(r) \/ Timeout(r)
  BY <1>7, EmitIInv, TimeoutIInv
<1>8. CASE \E s \in Socket, r \in Requests : Ack(s, r)
  BY <1>8, AckIInv
<1>9. CASE ErrorHeard \/ Rejected \/ DisconnectHeard \/ AttemptHeard \/ FailedCloses
  BY <1>9, ErrorHeardIInv, RescheduleIInv, AttemptHeardIInv, FailedClosesIInv
<1>10. CASE UNCHANGED clientVars
  <2>1. UNCHANGED <<protocol, state, ws, created, sock, owner, handler, attempts, handle,
                    strays, request, off, gaveUp, fresh>>
    BY <1>10 DEF clientVars, link, retry, clientHistory
  <2>2. ClientTypeOK' /\ Unborn' /\ WaitingOnlyConnected' /\ RearmsUnconnected'
    BY <2>1 DEF IInv, ClientTypeOK, Unborn, WaitingOnlyConnected, RearmsUnconnected
  <2>3. Orderly' => OneConnection'
    BY <2>1 DEF IInv, Orderly, OneConnection, SocketMatchesState, TimerMatchesState,
                OffMatchesState, HandlerMatchesState
  <2> QED BY <2>2, <2>3 DEF IInv
<1> QED BY <1>1, <1>2, <1>3, <1>4, <1>5, <1>6, <1>7, <1>8, <1>9, <1>10 DEF ClientNext

\* The invariant holds in every reachable state.
THEOREM Invariance == ClientSpec => []IInv
<1> QED BY InitIInv, NextIInv, PTL DEF ClientSpec

\* Every variable keeps its type; the attempts stay within maxReconnectAttempts.
THEOREM TypeCorrect == ClientSpec => []ClientTypeOK
<1>1. IInv => ClientTypeOK
  BY DEF IInv
<1> QED BY <1>1, Invariance, PTL

\* No request waits for an acknowledgement on a client that is not CONNECTED.
THEOREM NoRequestOutlivesItsConnection == ClientSpec => []WaitingOnlyConnected
<1>1. IInv => WaitingOnlyConnected
  BY DEF IInv
<1> QED BY <1>1, Invariance, PTL

\* isConnected() of an orderly application's client means an open socket.
THEOREM ConnectedIsConnected == ClientSpec => []ConnectedHasSocket
<1>1. IInv => ConnectedHasSocket
  BY DEF IInv, ConnectedHasSocket, OneConnection, SocketMatchesState
<1> QED BY <1>1, Invariance, PTL

\* An orderly application's client that was disconnected stays so.
THEOREM DisconnectedStaysOff == ClientSpec => []StaysOff
<1>1. IInv => StaysOff
  <2> SUFFICES ASSUME OneConnection, off = "yes" PROVE Unconnected
    BY DEF IInv, StaysOff
  <2>1. ws = NoSocket /\ \A s \in Socket : s # ws
    BY DEF OneConnection, OffMatchesState, Socket, NoSocket
  <2> QED BY <2>1 DEF OneConnection, SocketMatchesState, Unconnected, Past, OnTheWayOut
<1> QED BY <1>1, Invariance, PTL

-----------------------------------------------------------------------------
(* The server.                                                              *)

JoinSteps == {"getRoom", "setRoom", "addMember", "addRoom",
              "getClient", "getAgain", "setClient", "finish"}
RemoveSteps == {"removeMember", "removeRoom", "getClient", "getAgain", "setClient",
                "count", "deleteRoom", "deleteMembers"}

\* What the handlers of a client may be at.
OpenTask(t) == t = NoTask \/ (t.op = "open" /\ t.step \in {"addClient", "register"})
JoinTask(t) == t.op = "join" /\ t.step \in JoinSteps /\ t.room \in Rooms
LeaveTask(t) == t.op = "leave" /\ t.step \in RemoveSteps \cup {"finish"} /\ t.room \in Rooms
MessageTask(t) == t = NoTask \/ JoinTask(t) \/ LeaveTask(t)
CloseTask(t) ==
  \/ t = NoTask
  \/ /\ t.op = "close"
     /\ \/ t.step \in {"unregister", "listRooms", "nextRoom"}
        \/ t.step = "deleteClient" /\ t.rest = {}
        \/ t.step \in RemoveSteps /\ t.room \in Rooms

Shaped(c) ==
  /\ OpenTask(task[c]["open"])
  /\ \A m \in Messages : MessageTask(task[c][m])
  /\ CloseTask(task[c]["close"])
  /\ storage = "memory" =>
       /\ \A m \in Messages : task[c][m] = NoTask
       /\ task[c]["close"].step \in {"none", "unregister", "listRooms"}

\* Before its socket opens a client is nowhere; a client has a closing handler only
\* when its socket is closed, and then no other one unless it was cut.
NotYetThere(c) ==
  socket[c] = "none" =>
    /\ Idle(c) /\ joined[c] = {} /\ c \notin sockets \cup pings
    /\ \A r \in Rooms : c \notin members[r]
Present(c) ==
  /\ socket[c] = "open" =>
       /\ task[c]["close"] = NoTask
       /\ task[c]["open"] = NoTask => c \in sockets
  /\ At(c, "open", "addClient") =>
       /\ socket[c] = "open" /\ joined[c] = {}
       /\ \A m \in Messages : task[c][m] = NoTask
       /\ \A r \in Rooms : c \notin members[r]
Gone(c) ==
  socket[c] = "closed" /\ c \notin cut =>
    /\ task[c]["open"] = NoTask /\ c \notin pings
    /\ \A m \in Messages : task[c][m] = NoTask
    /\ c \in sockets => At(c, "close", "unregister")

\* What the application was told agrees with the members of the room, but for a room
\* that a join or a leave is at; those of one room are all joins or all leaves, unless
\* they crossed.
Agrees(c, r) == (r \in joined[c] <=> c \in members[r]) \/ <<c, r>> \in evicted
JoinsBy(c, m, r) == task[c][m].op = "join" /\ task[c][m].room = r
LeavesBy(c, m, r) == task[c][m].op = "leave" /\ task[c][m].room = r
Joins(c, r) == \E m \in Messages : JoinsBy(c, m, r)
Leaves(c, r) == \E m \in Messages : LeavesBy(c, m, r)
Decided(c, m) == task[c][m].step \notin {"getRoom", "setRoom", "addMember", "removeMember"}
Membership(c, r) ==
  socket[c] = "open" /\ <<c, r>> \notin crossed =>
    /\ ~(Joins(c, r) /\ Leaves(c, r))
    /\ Joins(c, r) \/ Leaves(c, r) \/ Agrees(c, r)
    /\ \A m \in Messages : /\ JoinsBy(c, m, r) /\ Decided(c, m)
                                => c \in members[r] \/ <<c, r>> \in evicted
                           /\ LeavesBy(c, m, r) /\ Decided(c, m) => c \notin members[r]

\* A closing handler finds the rooms that its client is a member of: so does one that
\* begins when the joins and the leaves under way are through with the set of rooms.
Tracks(c, m, r) ==
  /\ task[c][m].room = r
  /\ task[c][m].step \in {"getRoom", "setRoom", "addMember", "addRoom", "removeMember"}
TrackedInRedis(c, r) ==
  c \in members[r] /\ c \notin cut \cup wiped /\ <<c, r>> \notin crossed =>
    /\ socket[c] = "open" => r \in clientRooms[c] \/ \E m \in Messages : Tracks(c, m, r)
    /\ socket[c] = "closed" =>
         IF task[c]["close"].step \in {"unregister", "listRooms"} THEN r \in clientRooms[c]
         ELSE \/ r \in task[c]["close"].rest
              \/ At(c, "close", "removeMember") /\ task[c]["close"].room = r
TrackedInMemory(c, r) ==
  c \in members[r] /\ c \notin cut /\ home[c] \notin stopped =>
    record[c] # NoRecord /\ r \in record[c]
Tracked(c, r) ==
  IF storage = "redis" THEN TrackedInRedis(c, r) ELSE TrackedInMemory(c, r)

\* The record is there from addClient() to deleteClient().
Recorded(c) ==
  /\ socket[c] = "closed" /\ c \notin cut /\ task[c]["close"] = NoTask => record[c] = NoRecord
  /\ storage = "memory" /\ home[c] \notin stopped /\ socket[c] = "open"
     /\ ~At(c, "open", "addClient") => record[c] # NoRecord

ClientInv(c) ==
  /\ Shaped(c) /\ NotYetThere(c) /\ Present(c) /\ Gone(c) /\ Recorded(c)
  /\ \A r \in Rooms : Membership(c, r) /\ Tracked(c, r)

\* In memory there is one process, nobody is evicted before it stops, and no join and
\* leave are ever handled at a time.
OneProcess ==
  storage = "memory" =>
    /\ crossed = {}
    /\ \A p, q \in Processes \ stopped : p = q
    /\ \A p \in Processes \ stopped : \A c \in Clients : home[c] = p
    /\ stopping # {} \/ evicted # {} => stopped = Processes

\* Whoever is still owed a message is where its process will find it.
OwedIsThere ==
  /\ emission.kind = "none" => emission = NoEmission
  /\ emission.kind = "room" => emission.room \in Rooms
  /\ emission.twice = {}
  /\ \A c \in emission.once : home[c] \notin emission.inbox
  /\ \A c \in emission.owed :
       /\ c \in emission.once \/ home[c] \in emission.inbox
       /\ socket[c] = "open" /\ c \in sockets
       /\ emission.kind = "room" =>
            c \in members[emission.room] /\ \A m \in Messages : task[c][m].op # "leave"

ServerInv == /\ ServerTypeOK /\ OneProcess /\ OwedIsThere
             /\ \A c \in Clients : ClientInv(c)

-----------------------------------------------------------------------------
\* The slots of a client's handlers are told apart.
SlotsDiffer ==
  /\ "open" \in Slots /\ "close" \in Slots /\ Messages \subseteq Slots
  /\ "open" \notin Messages /\ "close" \notin Messages
  /\ \A s \in Slots : s = "open" \/ s = "close" \/ s \in Messages

LEMMA SlotsAre == SlotsDiffer
BY MessagesAssumption DEF SlotsDiffer, Slots

\* A handler that goes on, and one that ends.
LEMMA GoDoes ==
  ASSUME task \in [Clients -> [Slots -> Tasks]],
         NEW c \in Clients, NEW s \in Slots, NEW step, Go(c, s, step),
         \E t \in Tasks : t.step = step
  PROVE  /\ task' \in [Clients -> [Slots -> Tasks]]
         /\ \A d \in Clients \ {c} : task'[d] = task[d]
         /\ \A u \in Slots \ {s} : task'[c][u] = task[c][u]
         /\ task'[c][s].step = step
         /\ task'[c][s].op = task[c][s].op
         /\ task'[c][s].room = task[c][s].room
         /\ task'[c][s].seen = task[c][s].seen
         /\ task'[c][s].rest = task[c][s].rest
<1>1. task[c] \in [Slots -> Tasks] /\ task[c][s] \in Tasks
  OBVIOUS
<1>2. PICK now : now = [task[c][s] EXCEPT !.step = step]
  OBVIOUS
<1>3. /\ now \in Tasks /\ now.step = step /\ now.op = task[c][s].op
      /\ now.room = task[c][s].room /\ now.seen = task[c][s].seen
      /\ now.rest = task[c][s].rest
  BY <1>1, <1>2 DEF Tasks
<1>4. task' = [task EXCEPT ![c] = [task[c] EXCEPT ![s] = now]]
  BY <1>1, <1>2 DEF Go
<1>5. PICK mine : mine = [task[c] EXCEPT ![s] = now]
  OBVIOUS
<1>6. mine \in [Slots -> Tasks] /\ mine[s] = now
      /\ \A u \in Slots \ {s} : mine[u] = task[c][u]
  BY <1>1, <1>3, <1>5
<1>7. task' \in [Clients -> [Slots -> Tasks]] /\ task'[c] = mine
      /\ \A d \in Clients \ {c} : task'[d] = task[d]
  BY <1>4, <1>5, <1>6
<1> QED BY <1>3, <1>6, <1>7

LEMMA TaskIs ==
  ASSUME task \in [Clients -> [Slots -> Tasks]],
         NEW c \in Clients, NEW s \in Slots, NEW t \in Tasks,
         task' = [task EXCEPT ![c][s] = t]
  PROVE  /\ task' \in [Clients -> [Slots -> Tasks]]
         /\ \A d \in Clients \ {c} : task'[d] = task[d]
         /\ \A u \in Slots \ {s} : task'[c][u] = task[c][u]
         /\ task'[c][s] = t
<1>1. task[c] \in [Slots -> Tasks]
  OBVIOUS
<1>2. PICK mine : mine = [task[c] EXCEPT ![s] = t]
  OBVIOUS
<1>3. mine \in [Slots -> Tasks] /\ mine[s] = t
      /\ \A u \in Slots \ {s} : mine[u] = task[c][u]
  BY <1>1, <1>2
<1>4. task' \in [Clients -> [Slots -> Tasks]] /\ task'[c] = mine
      /\ \A d \in Clients \ {c} : task'[d] = task[d]
  BY <1>2, <1>3
<1> QED BY <1>3, <1>4

LEMMA NoTaskIsTask == NoTask \in Tasks /\ NoTask.step = "none" /\ NoTask.op = "none"
                      /\ NoTask.room = NoRecord /\ NoTask.rest = {} /\ NoTask.seen = {}
BY DEF NoTask, Tasks

\* Nothing changes of what is said of client d.
Untouched(d) ==
  /\ task'[d] = task[d] /\ socket'[d] = socket[d] /\ joined'[d] = joined[d]
  /\ record'[d] = record[d] /\ clientRooms'[d] = clientRooms[d]
  /\ d \in sockets' <=> d \in sockets
  /\ d \in pings' <=> d \in pings
  /\ d \in cut' <=> d \in cut
  /\ d \in wiped' <=> d \in wiped
  /\ \A r \in Rooms : /\ d \in members'[r] <=> d \in members[r]
                      /\ <<d, r>> \in evicted' <=> <<d, r>> \in evicted
                      /\ <<d, r>> \in crossed' <=> <<d, r>> \in crossed

LEMMA UntouchedKeeps ==
  ASSUME NEW d \in Clients, ClientInv(d), Untouched(d), UNCHANGED <<place, stopped>>
  PROVE  ClientInv(d)'
<1>1. Shaped(d)' /\ Recorded(d)'
  BY DEF ClientInv, Shaped, Recorded, Untouched, place, At
<1>2. NotYetThere(d)'
  BY DEF ClientInv, NotYetThere, Untouched, Idle, place
<1>3. Present(d)' /\ Gone(d)'
  BY DEF ClientInv, Present, Gone, Untouched, At, place
<1>4. \A r \in Rooms : Membership(d, r)'
  <2> SUFFICES ASSUME NEW r \in Rooms PROVE Membership(d, r)'
    OBVIOUS
  <2>1. \A m \in Messages : /\ JoinsBy(d, m, r)' <=> JoinsBy(d, m, r)
                            /\ LeavesBy(d, m, r)' <=> LeavesBy(d, m, r)
                            /\ Decided(d, m)' <=> Decided(d, m)
    BY DEF Untouched, JoinsBy, LeavesBy, Decided
  <2>2. (Joins(d, r)' <=> Joins(d, r)) /\ (Leaves(d, r)' <=> Leaves(d, r))
    BY <2>1 DEF Joins, Leaves
  <2>3. Agrees(d, r)' <=> Agrees(d, r)
    BY DEF Agrees, Untouched
  <2>4. Membership(d, r)
    BY DEF ClientInv
  <2> QED BY <2>1, <2>2, <2>3, <2>4 DEF Membership, Untouched
<1>5. \A r \in Rooms : Tracked(d, r)'
  BY DEF ClientInv, Tracked, TrackedInRedis, TrackedInMemory, Untouched, Tracks, At, place
<1> QED BY <1>1, <1>2, <1>3, <1>4, <1>5 DEF ClientInv

\* A step of one client: what is to be shown of the others is that it leaves them alone.
LEMMA OneClientMoves ==
  ASSUME ServerInv, NEW c \in Clients, UNCHANGED <<place, stopped, stopping>>,
         \A d \in Clients \ {c} : Untouched(d),
         evicted' \subseteq evicted, storage = "memory" => crossed' = {},
         ServerTypeOK', OwedIsThere', ClientInv(c)'
  PROVE  ServerInv'
<1>1. \A d \in Clients : ClientInv(d)'
  BY UntouchedKeeps DEF ServerInv
<1>2. OneProcess'
  BY DEF ServerInv, OneProcess, place
<1> QED BY <1>1, <1>2 DEF ServerInv

\* It may not take itself away from what it is owed.
LEMMA OwedStays ==
  ASSUME ServerInv, NEW c \in Clients, UNCHANGED <<emission, place>>,
         \A d \in Clients \ {c} : Untouched(d),
         c \in emission.owed =>
           /\ socket'[c] = "open" /\ c \in sockets'
           /\ emission.kind = "room" =>
                c \in members'[emission.room] /\ \A m \in Messages : task'[c][m].op # "leave"
  PROVE  OwedIsThere'
<1>1. OwedIsThere /\ emission.owed \subseteq Clients
  BY DEF ServerInv, ServerTypeOK
<1>2. \A d \in emission.owed :
        /\ socket'[d] = "open" /\ d \in sockets'
        /\ emission.kind = "room" =>
             d \in members'[emission.room] /\ \A m \in Messages : task'[d][m].op # "leave"
  <2> SUFFICES ASSUME NEW d \in emission.owed
               PROVE  /\ socket'[d] = "open" /\ d \in sockets'
                      /\ emission.kind = "room" =>
                           /\ d \in members'[emission.room]
                           /\ \A m \in Messages : task'[d][m].op # "leave"
    OBVIOUS
  <2>1. /\ socket[d] = "open" /\ d \in sockets
        /\ emission.kind = "room" =>
             /\ d \in members[emission.room] /\ emission.room \in Rooms
             /\ \A m \in Messages : task[d][m].op # "leave"
    BY <1>1 DEF OwedIsThere
  <2>2. d # c => Untouched(d)
    BY <1>1
  <2> QED BY <2>1, <2>2 DEF Untouched
<1> QED BY <1>1, <1>2 DEF OwedIsThere, place

\* Only the handler of client c in slot s moves.
HandlerStep(c, s) ==
  /\ task' \in [Clients -> [Slots -> Tasks]]
  /\ \A d \in Clients \ {c} : task'[d] = task[d]
  /\ \A u \in Slots \ {s} : task'[c][u] = task[c][u]

\* A handler of a message or of the close that goes on, leaving its socket alone.
LEMMA HandlerGoesOn ==
  ASSUME ServerInv, NEW c \in Clients, NEW s \in Messages \cup {"close"}, storage = "redis",
         task[c][s] # NoTask, HandlerStep(c, s), task'[c][s] # NoTask,
         s \in Messages => MessageTask(task'[c][s]),
         s = "close" => CloseTask(task'[c][s]) /\ ~At(c, s, "unregister"),
         UNCHANGED <<place, socket, sockets, pings, joined, cut>>
  PROVE  /\ Shaped(c)' /\ NotYetThere(c)' /\ Present(c)' /\ Gone(c)'
         /\ s \in Messages => socket[c] = "open" \/ c \in cut
         /\ s = "close" => socket[c] = "closed" /\ c \notin emission.owed
<1>1. ClientInv(c) /\ s \in Slots /\ SlotsDiffer
      /\ socket[c] \in {"none", "open", "closed"}
  BY SlotsAre DEF ServerInv, ServerTypeOK, SlotsDiffer
<1>2. socket[c] # "none"
  BY <1>1 DEF ClientInv, NotYetThere, Idle
<1>3. ~At(c, "open", "addClient") \/ s = "close"
  BY <1>1 DEF ClientInv, Present
<1>4. s \in Messages => socket[c] = "open" \/ c \in cut
  BY <1>1, <1>2 DEF ClientInv, Gone
<1>5. s = "close" => socket[c] = "closed" /\ c \notin emission.owed
  BY <1>1, <1>2 DEF ClientInv, Present, ServerInv, OwedIsThere
<1>6. /\ task'[c]["open"] = task[c]["open"]
      /\ s \in Messages => task'[c]["close"] = task[c]["close"]
      /\ \A m \in Messages \ {s} : task'[c][m] = task[c][m]
  BY <1>1 DEF HandlerStep, SlotsDiffer
<1>7. Shaped(c)'
  BY <1>1, <1>6 DEF ClientInv, Shaped, place, SlotsDiffer
<1>8. NotYetThere(c)' /\ Present(c)'
  <2>1. ~At(c, "open", "addClient")
    BY <1>1, <1>3, <1>5 DEF ClientInv, Present
  <2> QED BY <1>1, <1>2, <1>5, <1>6, <2>1 DEF ClientInv, NotYetThere, Present, At, SlotsDiffer
<1>9. Gone(c)'
  BY <1>1, <1>4, <1>6 DEF ClientInv, Gone, At, SlotsDiffer
<1> QED BY <1>4, <1>5, <1>7, <1>8, <1>9

\* A Redis command of a join or a leave: what it does to the rooms of an open client.
LEMMA MessageCommand ==
  ASSUME ServerInv, ServerTypeOK', NEW c \in Clients, NEW m \in Messages, storage = "redis",
         HandlerStep(c, m), task[c][m] # NoTask,
         task'[c][m] # NoTask, MessageTask(task'[c][m]),
         UNCHANGED <<place, local, stopping, emission, cut, crossed, wiped, stopped>>,
         \A d \in Clients \ {c} : Untouched(d), evicted' \subseteq evicted,
         socket[c] = "open" => \A r \in Rooms : Membership(c, r)',
         socket[c] = "open" => \A r \in Rooms : TrackedInRedis(c, r)',
         emission.kind = "room" /\ c \in emission.owed =>
           c \in members'[emission.room] /\ task'[c][m].op # "leave"
  PROVE  ServerInv'
<1>1. /\ Shaped(c)' /\ NotYetThere(c)' /\ Present(c)' /\ Gone(c)'
      /\ socket[c] = "open" \/ c \in cut
  <2>1. UNCHANGED <<place, socket, sockets, pings, joined, cut>> /\ m # "close"
    BY SlotsAre DEF local, SlotsDiffer
  <2> QED BY <2>1, HandlerGoesOn
<1>2. Recorded(c)'
  BY <1>1 DEF Recorded, place, local
<1>3. \A r \in Rooms : Membership(c, r)' /\ Tracked(c, r)'
  <2>1. CASE socket[c] = "open"
    BY <2>1 DEF Tracked, place
  <2>2. CASE socket[c] # "open"
    BY <1>1, <2>2 DEF Membership, Tracked, TrackedInRedis, place, local
  <2> QED BY <2>1, <2>2
<1>4. OwedIsThere'
  <2>1. c \in emission.owed => socket'[c] = "open" /\ c \in sockets'
    BY DEF ServerInv, OwedIsThere, local
  <2>2. emission.kind = "room" /\ c \in emission.owed =>
          \A n \in Messages : task'[c][n].op # "leave"
    BY SlotsAre DEF ServerInv, OwedIsThere, HandlerStep, SlotsDiffer
  <2> QED BY <2>1, <2>2, OwedStays
<1>5. storage = "memory" => crossed' = {}
  OBVIOUS
<1> QED BY <1>1, <1>2, <1>3, <1>4, <1>5, OneClientMoves DEF ClientInv

\* A Redis command of a close: what it leaves to be done about the rooms.
LEMMA CloseCommand ==
  ASSUME ServerInv, ServerTypeOK', NEW c \in Clients, storage = "redis",
         HandlerStep(c, "close"), task[c]["close"] # NoTask, ~At(c, "close", "unregister"),
         task'[c]["close"] # NoTask, CloseTask(task'[c]["close"]),
         UNCHANGED <<place, local, stopping, emission, cut, crossed, wiped, stopped>>,
         \A d \in Clients \ {c} : Untouched(d), evicted' \subseteq evicted,
         socket[c] = "closed" => \A r \in Rooms : TrackedInRedis(c, r)'
  PROVE  ServerInv'
<1>1. /\ Shaped(c)' /\ NotYetThere(c)' /\ Present(c)' /\ Gone(c)'
      /\ socket[c] = "closed" /\ c \notin emission.owed
  <2>1. UNCHANGED <<place, socket, sockets, pings, joined, cut>> /\ "close" \notin Messages
    BY SlotsAre DEF local, SlotsDiffer
  <2> QED BY <2>1, HandlerGoesOn
<1>2. Recorded(c)'
  BY <1>1 DEF Recorded, place, local
<1>3. \A r \in Rooms : Membership(c, r)' /\ Tracked(c, r)'
  BY <1>1 DEF Membership, Tracked, place, local
<1>4. OwedIsThere'
  BY <1>1, OwedStays
<1> QED BY <1>1, <1>2, <1>3, <1>4, OneClientMoves DEF ClientInv

\* A command leaves alone what the handlers of a client's messages are about.
LEMMA SameOps ==
  ASSUME NEW c \in Clients, NEW m \in Messages, HandlerStep(c, m),
         task'[c][m].op = task[c][m].op, task'[c][m].room = task[c][m].room, NEW r
  PROVE  /\ Joins(c, r)' <=> Joins(c, r)
         /\ Leaves(c, r)' <=> Leaves(c, r)
         /\ \A n \in Messages : /\ JoinsBy(c, n, r)' <=> JoinsBy(c, n, r)
                                /\ LeavesBy(c, n, r)' <=> LeavesBy(c, n, r)
         /\ \A n \in Messages \ {m} : /\ Decided(c, n)' <=> Decided(c, n)
                                      /\ Tracks(c, n, r)' <=> Tracks(c, n, r)
<1>1. \A n \in Messages \ {m} : task'[c][n] = task[c][n]
  BY SlotsAre DEF HandlerStep, SlotsDiffer
<1>2. \A n \in Messages : /\ JoinsBy(c, n, r)' <=> JoinsBy(c, n, r)
                          /\ LeavesBy(c, n, r)' <=> LeavesBy(c, n, r)
  BY <1>1 DEF JoinsBy, LeavesBy
<1>3. \A n \in Messages \ {m} : /\ Decided(c, n)' <=> Decided(c, n)
                                /\ Tracks(c, n, r)' <=> Tracks(c, n, r)
  BY <1>1 DEF Decided, Tracks
<1> QED BY <1>2, <1>3 DEF Joins, Leaves

-----------------------------------------------------------------------------
(* The commands of RedisWsStorage.                                          *)

\* Which handler is at a command.
LEMMA AtCommand ==
  ASSUME ServerInv, NEW c \in Clients, NEW s \in Slots,
         task[c][s].step \in (JoinSteps \cup RemoveSteps) \ {"finish"}
  PROVE  /\ s \in Messages \cup {"close"} /\ task[c][s] # NoTask
         /\ task[c][s] \in Tasks /\ task[c][s].room \in Rooms
         /\ task[c][s].step \notin RemoveSteps =>
              s \in Messages /\ task[c][s].op = "join"
         /\ task[c][s].step \notin JoinSteps => task[c][s].op # "join"
         /\ s \in Messages => JoinTask(task[c][s]) \/ LeaveTask(task[c][s])
         /\ s = "close" => task[c][s].op = "close" /\ task[c][s].step \in RemoveSteps
<1>1. Shaped(c) /\ task \in [Clients -> [Slots -> Tasks]]
  BY DEF ServerInv, ClientInv, ServerTypeOK
<1>2. task[c][s] # NoTask /\ task[c][s] \in Tasks
  BY <1>1, NoTaskIsTask DEF JoinSteps, RemoveSteps
<1>3. s \in Messages \cup {"close"}
  BY <1>1, <1>2, SlotsAre DEF Shaped, OpenTask, SlotsDiffer, JoinSteps, RemoveSteps
<1>4. CASE s \in Messages
  <2>1. JoinTask(task[c][s]) \/ LeaveTask(task[c][s])
    BY <1>1, <1>2, <1>4 DEF Shaped, MessageTask
  <2>2. s # "close"
    BY <1>4, SlotsAre DEF SlotsDiffer
  <2> QED BY <1>2, <1>4, <2>1, <2>2 DEF JoinTask, LeaveTask, JoinSteps, RemoveSteps
<1>5. CASE s = "close"
  BY <1>1, <1>2, <1>5, SlotsAre DEF Shaped, CloseTask, JoinSteps, RemoveSteps, SlotsDiffer
<1> QED BY <1>3, <1>4, <1>5

\* Commands that read, or write the client's record or the room's key: neither the
\* members nor the client's set of rooms change.
QuietFrom == {"getRoom", "setRoom", "getClient", "getAgain", "setClient", "count", "deleteRoom"}
QuietStep(c, s) ==
  /\ task[c][s].step \in QuietFrom
  /\ HandlerStep(c, s)
  /\ task'[c][s].op = task[c][s].op
  /\ task'[c][s].room = task[c][s].room
  /\ task'[c][s].rest = task[c][s].rest
  /\ IF task[c][s].step \in {"getRoom", "setRoom"}
     THEN task'[c][s].step \in {"setRoom", "addMember"}
     ELSE \/ task'[c][s].step \in {"getAgain", "setClient"}
          \/ task[c][s].op # "join" /\ task'[c][s].step \in {"count", "deleteRoom", "deleteMembers"}
          \/ task[c][s].op # "close" /\ task'[c][s].step = "finish"
          \/ task[c][s].op = "close" /\ task'[c][s].step = "nextRoom"

LEMMA QuietCommand ==
  ASSUME ServerInv, ServerTypeOK', NEW c \in Clients, NEW s \in Slots, storage = "redis",
         QuietStep(c, s), \A d \in Clients \ {c} : record'[d] = record[d],
         UNCHANGED <<place, members, clientRooms, local, stopping, emission,
                     cut, crossed, evicted, wiped, stopped>>
  PROVE  ServerInv'
<1>1. /\ s \in Messages \cup {"close"} /\ task[c][s] # NoTask
      /\ task[c][s] \in Tasks /\ task[c][s].room \in Rooms
      /\ task[c][s].step \notin RemoveSteps => s \in Messages /\ task[c][s].op = "join"
      /\ task[c][s].step \notin JoinSteps => task[c][s].op # "join"
      /\ s \in Messages => JoinTask(task[c][s]) \/ LeaveTask(task[c][s])
      /\ s = "close" => task[c][s].op = "close" /\ task[c][s].step \in RemoveSteps
  <2>1. task[c][s].step \in (JoinSteps \cup RemoveSteps) \ {"finish"}
    BY DEF QuietStep, QuietFrom, JoinSteps, RemoveSteps
  <2> QED BY <2>1, AtCommand
<1>2. \A d \in Clients \ {c} : Untouched(d)
  BY DEF QuietStep, HandlerStep, Untouched, local
<1>3. s = "close" => task'[c][s] # NoTask /\ ~At(c, "close", "unregister")
  BY <1>1, NoTaskIsTask DEF QuietStep, QuietFrom, At, RemoveSteps
<1>4. ClientInv(c)
  BY DEF ServerInv
<1>5. CASE s \in Messages
  <2>1. MessageTask(task'[c][s]) /\ task'[c][s] # NoTask
    BY <1>1, <1>5, NoTaskIsTask
       DEF QuietStep, QuietFrom, MessageTask, JoinTask, LeaveTask, JoinSteps, RemoveSteps
  <2>2. ASSUME NEW r \in Rooms
        PROVE  /\ Joins(c, r)' <=> Joins(c, r)
               /\ Leaves(c, r)' <=> Leaves(c, r)
               /\ \A n \in Messages : /\ JoinsBy(c, n, r)' <=> JoinsBy(c, n, r)
                                      /\ LeavesBy(c, n, r)' <=> LeavesBy(c, n, r)
                                      /\ Decided(c, n)' <=> Decided(c, n)
                                      /\ Tracks(c, n, r)' <=> Tracks(c, n, r)
    <3>1. /\ Joins(c, r)' <=> Joins(c, r)
          /\ Leaves(c, r)' <=> Leaves(c, r)
          /\ \A n \in Messages : /\ JoinsBy(c, n, r)' <=> JoinsBy(c, n, r)
                                 /\ LeavesBy(c, n, r)' <=> LeavesBy(c, n, r)
          /\ \A n \in Messages \ {s} : /\ Decided(c, n)' <=> Decided(c, n)
                                       /\ Tracks(c, n, r)' <=> Tracks(c, n, r)
      BY <1>5, SameOps DEF QuietStep
    <3>2. (Decided(c, s)' <=> Decided(c, s)) /\ (Tracks(c, s, r)' <=> Tracks(c, s, r))
      BY DEF QuietStep, QuietFrom, Decided, Tracks
    <3> QED BY <3>1, <3>2
  <2>3. \A r \in Rooms : Agrees(c, r)' <=> Agrees(c, r)
    BY DEF Agrees, local
  <2>4. \A r \in Rooms : Membership(c, r)'
    BY <1>4, <2>2, <2>3 DEF ClientInv, Membership, local
  <2>5. \A r \in Rooms : TrackedInRedis(c, r)'
    BY <1>4, <1>5, <2>2, SlotsAre
       DEF ClientInv, Tracked, TrackedInRedis, local, At, QuietStep, HandlerStep, SlotsDiffer
  <2>6. emission.kind = "room" /\ c \in emission.owed =>
          c \in members'[emission.room] /\ task'[c][s].op # "leave"
    BY <1>5 DEF ServerInv, OwedIsThere, QuietStep
  <2> QED BY <1>2, <1>5, <1>1, <2>1, <2>4, <2>5, <2>6, MessageCommand DEF QuietStep
<1>6. CASE s = "close"
  <2>1. CloseTask(task'[c]["close"]) /\ task'[c]["close"] # NoTask
    BY <1>1, <1>6, NoTaskIsTask
       DEF QuietStep, QuietFrom, CloseTask, RemoveSteps
  <2>2. socket[c] = "closed" => \A r \in Rooms : TrackedInRedis(c, r)'
    BY <1>4, <1>6 DEF ClientInv, Tracked, TrackedInRedis, local, QuietStep, QuietFrom, At
  <2> QED BY <1>1, <1>2, <1>3, <1>6, <2>1, <2>2, CloseCommand DEF QuietStep
<1> QED BY <1>1, <1>5, <1>6

LEMMA QuietCommands ==
  ASSUME ServerInv, NEW c \in Clients, NEW s \in Slots,
         \/ GetRoom(c, s) \/ SetRoom(c, s) \/ GetClient(c, s) \/ GetAgain(c, s)
         \/ SetClient(c, s) \/ Count(c, s) \/ DeleteRoom(c, s)
  PROVE  ServerInv'
<1>1. /\ task \in [Clients -> [Slots -> Tasks]] /\ task[c][s] \in Tasks
      /\ storage = "redis" /\ task[c][s].step \in QuietFrom
  BY DEF ServerInv, ServerTypeOK, GetRoom, SetRoom, GetClient, GetAgain, SetClient,
         Count, DeleteRoom, Redis, At, QuietFrom
<1>2. /\ task[c][s].room \in Rooms
      /\ task[c][s].step \notin RemoveSteps => task[c][s].op = "join"
      /\ task[c][s].step \notin JoinSteps => task[c][s].op # "join"
      /\ task[c][s].op \in {"join", "leave", "close"}
  <2>1. task[c][s].step \in (JoinSteps \cup RemoveSteps) \ {"finish"}
    BY <1>1 DEF QuietFrom, JoinSteps, RemoveSteps
  <2> QED BY <2>1, AtCommand DEF JoinTask, LeaveTask
<1>3. ASSUME NEW step, Go(c, s, step), \E t \in Tasks : t.step = step
      PROVE  /\ HandlerStep(c, s)
             /\ task'[c][s].op = task[c][s].op
             /\ task'[c][s].room = task[c][s].room
             /\ task'[c][s].rest = task[c][s].rest
             /\ task'[c][s].step = step
  BY <1>1, <1>3, GoDoes DEF HandlerStep
<1>4. ASSUME NEW step \in {"setRoom", "addMember", "getAgain", "setClient", "finish", "count",
                          "deleteRoom", "deleteMembers", "nextRoom"}
      PROVE  \E t \in Tasks : t.step = step
  <2>1. [NoTask EXCEPT !.step = step] \in Tasks
    BY NoTaskIsTask DEF Tasks, NoTask
  <2>2. [NoTask EXCEPT !.step = step].step = step
    BY DEF NoTask
  <2> QED BY <2>1, <2>2
<1>5. ASSUME NEW step, NEW rooms \in SUBSET Rooms,
             \E t \in Tasks : t.step = step,
             task' = [task EXCEPT ![c][s] = [task[c][s] EXCEPT !.step = step, !.seen = rooms]]
      PROVE  /\ HandlerStep(c, s)
             /\ task'[c][s].op = task[c][s].op
             /\ task'[c][s].room = task[c][s].room
             /\ task'[c][s].rest = task[c][s].rest
             /\ task'[c][s].step = step
  <2>1. PICK now : now = [task[c][s] EXCEPT !.step = step, !.seen = rooms]
    OBVIOUS
  <2>2. /\ now \in Tasks /\ now.step = step /\ now.op = task[c][s].op
        /\ now.room = task[c][s].room /\ now.rest = task[c][s].rest
    BY <1>1, <1>5, <2>1 DEF Tasks
  <2>3. task' = [task EXCEPT ![c][s] = now]
    BY <1>1, <1>5, <2>1
  <2> QED BY <1>1, <2>2, <2>3, TaskIs DEF HandlerStep
<1>6. QuietStep(c, s)
  <2>1. CASE GetRoom(c, s) \/ SetRoom(c, s)
    <3>1. PICK step \in {"setRoom", "addMember"} : Go(c, s, step)
      BY <2>1 DEF GetRoom, SetRoom
    <3>2. task[c][s].step \in {"getRoom", "setRoom"}
      BY <2>1 DEF GetRoom, SetRoom, Redis, At
    <3> QED BY <1>1, <1>3, <1>4, <3>1, <3>2 DEF QuietStep
  <2>2. CASE \/ GetClient(c, s) /\ Go(c, s, AfterRecord(task[c][s].op))
             \/ GetAgain(c, s) \/ Count(c, s) \/ DeleteRoom(c, s)
    <3>1. PICK step \in {"setClient", "count", "deleteRoom", "deleteMembers",
                         "finish", "nextRoom"} :
            /\ Go(c, s, step)
            /\ \/ step = "setClient"
               \/ task[c][s].op # "join" /\ step \in {"count", "deleteRoom", "deleteMembers"}
               \/ task[c][s].op # "close" /\ step = "finish"
               \/ task[c][s].op = "close" /\ step = "nextRoom"
      BY <1>2, <2>2 DEF GetClient, GetAgain, Count, DeleteRoom, AfterRecord, AfterRoom,
                        Redis, At, JoinSteps
    <3>2. task[c][s].step \notin {"getRoom", "setRoom"}
      BY <2>2 DEF GetClient, GetAgain, Count, DeleteRoom, Redis, At
    <3> QED BY <1>1, <1>3, <1>4, <3>1, <3>2 DEF QuietStep
  <2>3. CASE \/ GetClient(c, s) /\ ~Go(c, s, AfterRecord(task[c][s].op))
             \/ SetClient(c, s)
    <3>1. /\ record[c] = NoRecord \/ record[c] \in SUBSET Rooms
          /\ task[c][s].room \in Rooms
      BY <1>2 DEF ServerInv, ServerTypeOK
    <3>2. PICK step \in {"getAgain", "finish", "count"}, rooms \in SUBSET Rooms :
            /\ task' = [task EXCEPT ![c][s] = [task[c][s] EXCEPT !.step = step, !.seen = rooms]]
            /\ \/ step = "getAgain"
               \/ task[c][s].op = "join" /\ step = "finish"
               \/ task[c][s].op # "join" /\ step = "count"
      <4>1. CASE SetClient(c, s)
        <5>1. PICK step : step = AfterRecord(task[c][s].op)
          OBVIOUS
        <5>2. task' = [task EXCEPT ![c][s] =
                        [task[c][s] EXCEPT !.step = step, !.seen = {}]]
          BY <4>1, <5>1 DEF SetClient
        <5>3. {} \in SUBSET Rooms
          OBVIOUS
        <5> QED BY <5>1, <5>2, <5>3 DEF AfterRecord
      <4>2. CASE GetClient(c, s) /\ ~Go(c, s, AfterRecord(task[c][s].op))
        <5>1. PICK rooms : rooms = IF task[c][s].op = "join" THEN record[c] \cup {task[c][s].room}
                                   ELSE record[c] \ {task[c][s].room}
          OBVIOUS
        <5>2. /\ record[c] # NoRecord
              /\ task' = [task EXCEPT ![c][s] =
                           [task[c][s] EXCEPT !.step = "getAgain", !.seen = rooms]]
          BY <4>2, <5>1 DEF GetClient
        <5>3. rooms \in SUBSET Rooms
          BY <3>1, <5>1, <5>2
        <5> QED BY <5>2, <5>3
      <4> QED BY <2>3, <4>1, <4>2
    <3>3. /\ task[c][s].step \notin {"getRoom", "setRoom"}
          /\ task[c][s].op = "join" => task[c][s].op # "close"
      BY <2>3 DEF GetClient, SetClient, Redis, At
    <3>4. \E t \in Tasks : t.step = step
      BY <1>4, <3>2
    <3> QED BY <1>1, <1>5, <3>2, <3>3, <3>4 DEF QuietStep
  <2> QED BY <2>1, <2>2, <2>3
<1>7. ServerTypeOK' /\ \A d \in Clients \ {c} : record'[d] = record[d]
  <2>1. task' \in [Clients -> [Slots -> Tasks]]
    BY <1>6 DEF QuietStep, HandlerStep
  <2>2. roomKeys' \subseteq Rooms
    BY <1>2 DEF ServerInv, ServerTypeOK, GetRoom, SetRoom, GetClient, GetAgain, SetClient,
                Count, DeleteRoom, stored
  <2>3. /\ record' \in [Clients -> {NoRecord} \cup SUBSET Rooms]
        /\ \A d \in Clients \ {c} : record'[d] = record[d]
    BY <1>1 DEF ServerInv, ServerTypeOK, GetRoom, SetRoom, GetClient, GetAgain, SetClient,
                Count, DeleteRoom, stored, Tasks
  <2> QED BY <2>1, <2>2, <2>3
    DEF ServerInv, ServerTypeOK, GetRoom, SetRoom, GetClient, GetAgain, SetClient,
        Count, DeleteRoom, stored, place, local, emitted, Unkept
<1> QED BY <1>1, <1>6, <1>7, QuietCommand
     DEF GetRoom, SetRoom, GetClient, GetAgain, SetClient, Count, DeleteRoom,
         stored, emitted, Unkept

Steps == {"addClient", "register", "unregister", "listRooms", "nextRoom", "deleteClient"}
           \cup JoinSteps \cup RemoveSteps

\* A handler that goes on to its next command keeps everything else.
LEMMA Goes ==
  ASSUME ServerInv, NEW c \in Clients, NEW s \in Slots, NEW step \in Steps, Go(c, s, step)
  PROVE  /\ HandlerStep(c, s)
         /\ task'[c][s].op = task[c][s].op
         /\ task'[c][s].room = task[c][s].room
         /\ task'[c][s].rest = task[c][s].rest
         /\ task'[c][s].step = step
         /\ task'[c][s] # NoTask
<1>1. task \in [Clients -> [Slots -> Tasks]]
  BY DEF ServerInv, ServerTypeOK
<1>2. \E t \in Tasks : t.step = step
  <2>1. PICK t : t = [NoTask EXCEPT !.step = step]
    OBVIOUS
  <2>2. t \in Tasks /\ t.step = step
    BY <2>1, NoTaskIsTask DEF Tasks, NoTask, Steps, JoinSteps, RemoveSteps
  <2> QED BY <2>2
<1>3. step # "none"
  BY DEF Steps, JoinSteps, RemoveSteps
<1> QED BY <1>1, <1>2, <1>3, GoDoes, NoTaskIsTask DEF HandlerStep

\* SADD of the client to the members of the room, in a join.
LEMMA StepAddMember ==
  ASSUME ServerInv, NEW c \in Clients, NEW s \in Slots, AddMember(c, s)
  PROVE  ServerInv'
<1>1. /\ s \in Messages /\ task[c][s] # NoTask /\ task[c][s].room \in Rooms
      /\ task[c][s].op = "join" /\ task[c][s].step = "addMember" /\ storage = "redis"
  <2>1. task[c][s].step = "addMember" /\ storage = "redis"
    BY DEF AddMember, Redis, At
  <2> QED BY <2>1, AtCommand DEF JoinSteps, RemoveSteps
<1>2. PICK room \in Rooms : room = task[c][s].room
  BY <1>1
<1>3. /\ HandlerStep(c, s) /\ task'[c][s].op = "join" /\ task'[c][s].room = room
      /\ task'[c][s].step = "addRoom" /\ task'[c][s] # NoTask
  BY <1>1, <1>2, Goes DEF AddMember, Steps, JoinSteps
<1>4. /\ members' \in [Rooms -> SUBSET Clients]
      /\ c \in members'[room] /\ \A r \in Rooms \ {room} : members'[r] = members[r]
      /\ \A d \in Clients \ {c} : \A r \in Rooms : d \in members'[r] <=> d \in members[r]
      /\ evicted' = evicted \ {<<c, room>>}
  BY <1>2 DEF AddMember, ServerInv, ServerTypeOK
<1>5. ServerTypeOK'
  BY <1>3, <1>4 DEF HandlerStep, AddMember, ServerInv, ServerTypeOK, place, local, emitted
<1>6. \A d \in Clients \ {c} : Untouched(d)
  BY <1>3, <1>4 DEF HandlerStep, Untouched, AddMember, local
<1>7. MessageTask(task'[c][s])
  BY <1>3 DEF MessageTask, JoinTask, JoinSteps
<1>8. ASSUME socket[c] = "open", NEW r \in Rooms PROVE Membership(c, r)' /\ TrackedInRedis(c, r)'
  <2>1. /\ Joins(c, r)' <=> Joins(c, r)
        /\ Leaves(c, r)' <=> Leaves(c, r)
        /\ \A n \in Messages : /\ JoinsBy(c, n, r)' <=> JoinsBy(c, n, r)
                               /\ LeavesBy(c, n, r)' <=> LeavesBy(c, n, r)
        /\ \A n \in Messages \ {s} : /\ Decided(c, n)' <=> Decided(c, n)
                                     /\ Tracks(c, n, r)' <=> Tracks(c, n, r)
    BY <1>1, <1>2, <1>3, SameOps
  <2>2. Membership(c, r) /\ TrackedInRedis(c, r)
    BY <1>1 DEF ServerInv, ClientInv, Tracked
  <2>3. CASE r = room
    <3>1. JoinsBy(c, s, room) /\ Tracks(c, s, room)'
      BY <1>1, <1>2, <1>3 DEF JoinsBy, Tracks
    <3>2. Joins(c, r) /\ \E n \in Messages : Tracks(c, n, r)'
      BY <1>1, <2>3, <3>1 DEF Joins
    <3>3. Membership(c, r)'
      <4>1. Leaves(c, r)' \/ \A n \in Messages : ~LeavesBy(c, n, r)'
        BY DEF Leaves
      <4> QED BY <1>4, <2>1, <2>2, <2>3, <3>2, <4>1 DEF Membership, AddMember, local
    <3> QED BY <1>8, <3>2, <3>3 DEF TrackedInRedis, AddMember, local
  <2>4. CASE r # room
    <3>1. /\ ~JoinsBy(c, s, r) /\ ~LeavesBy(c, s, r)
          /\ ~Tracks(c, s, r) /\ ~Tracks(c, s, r)'
      BY <1>2, <1>3, <2>4 DEF JoinsBy, LeavesBy, Tracks
    <3>2. Agrees(c, r)' <=> Agrees(c, r)
      BY <1>4, <2>4 DEF Agrees, AddMember, local
    <3>3. Membership(c, r)'
      BY <1>4, <2>1, <2>2, <2>4, <3>1, <3>2 DEF Membership, AddMember, local
    <3>4. TrackedInRedis(c, r)'
      BY <1>4, <1>8, <2>1, <2>2, <2>4, <3>1 DEF TrackedInRedis, AddMember, local
    <3> QED BY <3>3, <3>4
  <2> QED BY <2>3, <2>4
<1>9. emission.kind = "room" /\ c \in emission.owed =>
        c \in members'[emission.room] /\ task'[c][s].op # "leave"
  BY <1>1, <1>3, <1>4 DEF ServerInv, OwedIsThere
<1> QED BY <1>1, <1>3, <1>4, <1>5, <1>6, <1>7, <1>8, <1>9, MessageCommand
        DEF AddMember, emitted

\* SADD of the room to the client's own set.
LEMMA StepAddRoom ==
  ASSUME ServerInv, NEW c \in Clients, NEW s \in Slots, AddRoom(c, s)
  PROVE  ServerInv'
<1>1. /\ s \in Messages /\ task[c][s] # NoTask /\ task[c][s].room \in Rooms
      /\ task[c][s].op = "join" /\ task[c][s].step = "addRoom" /\ storage = "redis"
  <2>1. task[c][s].step = "addRoom" /\ storage = "redis"
    BY DEF AddRoom, Redis, At
  <2> QED BY <2>1, AtCommand DEF JoinSteps, RemoveSteps
<1>2. PICK room \in Rooms : room = task[c][s].room
  BY <1>1
<1>3. /\ HandlerStep(c, s) /\ task'[c][s].op = "join" /\ task'[c][s].room = room
      /\ task'[c][s].step = "getClient" /\ task'[c][s] # NoTask
  BY <1>1, <1>2, Goes DEF AddRoom, Steps, JoinSteps
<1>4. /\ clientRooms' \in [Clients -> SUBSET Rooms]
      /\ clientRooms'[c] = clientRooms[c] \cup {room}
      /\ \A d \in Clients \ {c} : clientRooms'[d] = clientRooms[d]
  BY <1>2 DEF AddRoom, ServerInv, ServerTypeOK
<1>5. ServerTypeOK'
  BY <1>3, <1>4
     DEF HandlerStep, AddRoom, ServerInv, ServerTypeOK, place, local, emitted, Unkept
<1>6. \A d \in Clients \ {c} : Untouched(d)
  BY <1>3, <1>4 DEF HandlerStep, Untouched, AddRoom, local, Unkept
<1>7. MessageTask(task'[c][s])
  BY <1>3 DEF MessageTask, JoinTask, JoinSteps
<1>8. ASSUME socket[c] = "open", NEW r \in Rooms PROVE Membership(c, r)' /\ TrackedInRedis(c, r)'
  <2>1. /\ Joins(c, r)' <=> Joins(c, r)
        /\ Leaves(c, r)' <=> Leaves(c, r)
        /\ \A n \in Messages : /\ JoinsBy(c, n, r)' <=> JoinsBy(c, n, r)
                               /\ LeavesBy(c, n, r)' <=> LeavesBy(c, n, r)
        /\ \A n \in Messages \ {s} : /\ Decided(c, n)' <=> Decided(c, n)
                                     /\ Tracks(c, n, r)' <=> Tracks(c, n, r)
    BY <1>1, <1>2, <1>3, SameOps
  <2>2. Membership(c, r) /\ TrackedInRedis(c, r)
    BY <1>1 DEF ServerInv, ClientInv, Tracked
  <2>3. Decided(c, s)' <=> Decided(c, s)
    BY <1>1, <1>3 DEF Decided
  <2>4. Agrees(c, r)' <=> Agrees(c, r)
    BY DEF Agrees, AddRoom, local, Unkept
  <2>5. Membership(c, r)'
    BY <2>1, <2>2, <2>3, <2>4 DEF Membership, AddRoom, local, Unkept
  <2>6. r = room \/ ~Tracks(c, s, r)
    BY <1>2 DEF Tracks
  <2>7. TrackedInRedis(c, r)'
    BY <1>4, <1>8, <2>1, <2>2, <2>6 DEF TrackedInRedis, AddRoom, local, Unkept
  <2> QED BY <2>5, <2>7
<1>9. emission.kind = "room" /\ c \in emission.owed =>
        c \in members'[emission.room] /\ task'[c][s].op # "leave"
  BY <1>1, <1>3 DEF ServerInv, OwedIsThere, AddRoom
<1> QED BY <1>1, <1>3, <1>5, <1>6, <1>7, <1>8, <1>9, MessageCommand
        DEF AddRoom, emitted, Unkept

\* SREM of the client from the members of the room, in a leave or a close.
LEMMA StepRemoveMember ==
  ASSUME ServerInv, NEW c \in Clients, NEW s \in Slots, RemoveMember(c, s)
  PROVE  ServerInv'
<1>1. /\ s \in Messages \cup {"close"} /\ task[c][s] # NoTask /\ task[c][s].room \in Rooms
      /\ task[c][s].step = "removeMember" /\ storage = "redis"
      /\ s \in Messages => LeaveTask(task[c][s])
      /\ s = "close" => task[c][s].op = "close"
  <2>1. task[c][s].step = "removeMember" /\ storage = "redis"
    BY DEF RemoveMember, Redis, At
  <2> QED BY <2>1, AtCommand DEF JoinTask, JoinSteps, RemoveSteps
<1>2. PICK room \in Rooms : room = task[c][s].room
  BY <1>1
<1>3. /\ HandlerStep(c, s) /\ task'[c][s].op = task[c][s].op /\ task'[c][s].room = room
      /\ task'[c][s].rest = task[c][s].rest
      /\ task'[c][s].step = "removeRoom" /\ task'[c][s] # NoTask
  BY <1>1, <1>2, Goes DEF RemoveMember, Steps, RemoveSteps
<1>4. /\ members' \in [Rooms -> SUBSET Clients]
      /\ c \notin members'[room] /\ \A r \in Rooms \ {room} : members'[r] = members[r]
      /\ \A d \in Clients \ {c} : \A r \in Rooms : d \in members'[r] <=> d \in members[r]
  BY <1>2 DEF RemoveMember, ServerInv, ServerTypeOK
<1>5. ServerTypeOK'
  BY <1>3, <1>4
     DEF HandlerStep, RemoveMember, ServerInv, ServerTypeOK, place, local, emitted, Unkept
<1>6. \A d \in Clients \ {c} : Untouched(d)
  BY <1>3, <1>4 DEF HandlerStep, Untouched, RemoveMember, local, Unkept
<1>7. ClientInv(c)
  BY DEF ServerInv
<1>8. CASE s \in Messages
  <2>1. MessageTask(task'[c][s]) /\ task[c][s].op = "leave"
    BY <1>1, <1>3, <1>8 DEF MessageTask, LeaveTask, RemoveSteps
  <2>2. ASSUME socket[c] = "open", NEW r \in Rooms
        PROVE  Membership(c, r)' /\ TrackedInRedis(c, r)'
    <3>1. /\ Joins(c, r)' <=> Joins(c, r)
          /\ Leaves(c, r)' <=> Leaves(c, r)
          /\ \A n \in Messages : /\ JoinsBy(c, n, r)' <=> JoinsBy(c, n, r)
                                 /\ LeavesBy(c, n, r)' <=> LeavesBy(c, n, r)
          /\ \A n \in Messages \ {s} : /\ Decided(c, n)' <=> Decided(c, n)
                                       /\ Tracks(c, n, r)' <=> Tracks(c, n, r)
      BY <1>2, <1>3, <1>8, SameOps
    <3>2. Membership(c, r) /\ TrackedInRedis(c, r)
      BY <1>1, <1>7 DEF ClientInv, Tracked
    <3>3. CASE r = room
      <4>1. Leaves(c, r)
        BY <1>2, <1>8, <2>1, <3>3 DEF Leaves, LeavesBy
      <4>2. Joins(c, r)' \/ \A n \in Messages : ~JoinsBy(c, n, r)'
        BY DEF Joins
      <4>3. Membership(c, r)'
        BY <1>4, <3>1, <3>2, <3>3, <4>1, <4>2 DEF Membership, RemoveMember, local, Unkept
      <4> QED BY <1>4, <3>3, <4>3 DEF TrackedInRedis
    <3>4. CASE r # room
      <4>1. /\ ~JoinsBy(c, s, r) /\ ~LeavesBy(c, s, r)
            /\ ~Tracks(c, s, r) /\ ~Tracks(c, s, r)'
        BY <1>2, <1>3, <3>4 DEF JoinsBy, LeavesBy, Tracks
      <4>2. Agrees(c, r)' <=> Agrees(c, r)
        BY <1>4, <3>4 DEF Agrees, RemoveMember, local, Unkept
      <4>3. Membership(c, r)'
        BY <1>4, <3>1, <3>2, <3>4, <4>1, <4>2 DEF Membership, RemoveMember, local, Unkept
      <4>4. TrackedInRedis(c, r)'
        BY <1>4, <2>2, <3>1, <3>2, <3>4, <4>1 DEF TrackedInRedis, RemoveMember, local, Unkept
      <4> QED BY <4>3, <4>4
    <3> QED BY <3>3, <3>4
  <2>3. ~(emission.kind = "room" /\ c \in emission.owed)
    BY <1>8, <2>1 DEF ServerInv, OwedIsThere
  <2> QED BY <1>1, <1>3, <1>5, <1>6, <1>8, <2>1, <2>2, <2>3, MessageCommand
          DEF RemoveMember, emitted, Unkept
<1>9. CASE s = "close"
  <2>1. CloseTask(task'[c]["close"]) /\ ~At(c, "close", "unregister")
    BY <1>1, <1>3, <1>9 DEF CloseTask, RemoveSteps, At
  <2>2. ASSUME socket[c] = "closed", NEW r \in Rooms PROVE TrackedInRedis(c, r)'
    <3>1. TrackedInRedis(c, r)
      BY <1>1, <1>7 DEF ClientInv, Tracked
    <3>2. c \in members'[r] => r # room /\ c \in members[r]
      BY <1>4
    <3> QED BY <1>1, <1>2, <1>3, <1>9, <2>2, <3>1, <3>2
            DEF TrackedInRedis, At, RemoveMember, local, Unkept
  <2> QED BY <1>1, <1>3, <1>5, <1>6, <1>9, <2>1, <2>2, CloseCommand
          DEF RemoveMember, emitted, Unkept
<1> QED BY <1>1, <1>8, <1>9

\* SREM of the room from the client's own set.
LEMMA StepRemoveRoom ==
  ASSUME ServerInv, NEW c \in Clients, NEW s \in Slots, RemoveRoom(c, s)
  PROVE  ServerInv'
<1>1. /\ s \in Messages \cup {"close"} /\ task[c][s] # NoTask /\ task[c][s].room \in Rooms
      /\ task[c][s].step = "removeRoom" /\ storage = "redis"
      /\ s \in Messages => LeaveTask(task[c][s])
      /\ s = "close" => task[c][s].op = "close"
  <2>1. task[c][s].step = "removeRoom" /\ storage = "redis"
    BY DEF RemoveRoom, Redis, At
  <2> QED BY <2>1, AtCommand DEF JoinTask, JoinSteps, RemoveSteps
<1>2. PICK room \in Rooms : room = task[c][s].room
  BY <1>1
<1>3. /\ HandlerStep(c, s) /\ task'[c][s].op = task[c][s].op /\ task'[c][s].room = room
      /\ task'[c][s].rest = task[c][s].rest
      /\ task'[c][s].step = "getClient" /\ task'[c][s] # NoTask
  BY <1>1, <1>2, Goes DEF RemoveRoom, Steps, RemoveSteps
<1>4. /\ clientRooms' \in [Clients -> SUBSET Rooms]
      /\ clientRooms'[c] = clientRooms[c] \ {room}
      /\ \A d \in Clients \ {c} : clientRooms'[d] = clientRooms[d]
  BY <1>2 DEF RemoveRoom, ServerInv, ServerTypeOK
<1>5. ServerTypeOK'
  BY <1>3, <1>4
     DEF HandlerStep, RemoveRoom, ServerInv, ServerTypeOK, place, local, emitted, Unkept
<1>6. \A d \in Clients \ {c} : Untouched(d)
  BY <1>3, <1>4 DEF HandlerStep, Untouched, RemoveRoom, local, Unkept
<1>7. ClientInv(c)
  BY DEF ServerInv
<1>8. CASE s \in Messages
  <2>1. MessageTask(task'[c][s]) /\ task[c][s].op = "leave"
    BY <1>1, <1>3, <1>8 DEF MessageTask, LeaveTask, RemoveSteps
  <2>2. ASSUME socket[c] = "open", NEW r \in Rooms
        PROVE  Membership(c, r)' /\ TrackedInRedis(c, r)'
    <3>1. /\ Joins(c, r)' <=> Joins(c, r)
          /\ Leaves(c, r)' <=> Leaves(c, r)
          /\ \A n \in Messages : /\ JoinsBy(c, n, r)' <=> JoinsBy(c, n, r)
                                 /\ LeavesBy(c, n, r)' <=> LeavesBy(c, n, r)
          /\ \A n \in Messages \ {s} : /\ Decided(c, n)' <=> Decided(c, n)
                                       /\ Tracks(c, n, r)' <=> Tracks(c, n, r)
      BY <1>2, <1>3, <1>8, SameOps
    <3>2. Membership(c, r) /\ TrackedInRedis(c, r)
      BY <1>1, <1>7 DEF ClientInv, Tracked
    <3>3. Decided(c, s)' /\ Decided(c, s) /\ ~Tracks(c, s, r)
      BY <1>1, <1>3 DEF Decided, Tracks
    <3>4. Agrees(c, r)' <=> Agrees(c, r)
      BY DEF Agrees, RemoveRoom, local, Unkept
    <3>5. Membership(c, r)'
      BY <3>1, <3>2, <3>3, <3>4 DEF Membership, RemoveRoom, local, Unkept
    <3>6. c \in members[r] /\ <<c, r>> \notin crossed => r # room
      <4>1. r = room => LeavesBy(c, s, r)
        BY <1>2, <2>1 DEF LeavesBy
      <4> QED BY <1>8, <2>2, <3>2, <3>3, <4>1 DEF Membership
    <3>7. TrackedInRedis(c, r)'
      BY <1>4, <2>2, <3>1, <3>2, <3>3, <3>6 DEF TrackedInRedis, RemoveRoom, local, Unkept
    <3> QED BY <3>5, <3>7
  <2>3. ~(emission.kind = "room" /\ c \in emission.owed)
    BY <1>8, <2>1 DEF ServerInv, OwedIsThere
  <2> QED BY <1>1, <1>3, <1>5, <1>6, <1>8, <2>1, <2>2, <2>3, MessageCommand
          DEF RemoveRoom, emitted, Unkept
<1>9. CASE s = "close"
  <2>1. CloseTask(task'[c]["close"]) /\ ~At(c, "close", "unregister")
    BY <1>1, <1>3, <1>9 DEF CloseTask, RemoveSteps, At
  <2>2. ASSUME socket[c] = "closed", NEW r \in Rooms PROVE TrackedInRedis(c, r)'
    <3>1. TrackedInRedis(c, r)
      BY <1>1, <1>7 DEF ClientInv, Tracked
    <3> QED BY <1>1, <1>2, <1>3, <1>9, <2>2, <3>1
            DEF TrackedInRedis, At, RemoveRoom, local, Unkept
  <2> QED BY <1>1, <1>3, <1>5, <1>6, <1>9, <2>1, <2>2, CloseCommand
          DEF RemoveRoom, emitted, Unkept
<1> QED BY <1>1, <1>8, <1>9

-----------------------------------------------------------------------------
(* Evictions: the members key of a room is deleted.                         *)

\* All that changes for client d is that it may be evicted from a room.
OnlyEvicted(d, room) ==
  /\ task'[d] = task[d] /\ socket'[d] = socket[d] /\ joined'[d] = joined[d]
  /\ record'[d] = record[d] /\ clientRooms'[d] = clientRooms[d]
  /\ UNCHANGED <<sockets, pings, cut, crossed, wiped>>
  /\ d \notin members'[room]
  /\ <<d, room>> \in evicted' <=> d \in members[room] \/ <<d, room>> \in evicted
  /\ \A r \in Rooms \ {room} : /\ members'[r] = members[r]
                               /\ <<d, r>> \in evicted' <=> <<d, r>> \in evicted

LEMMA EvictedKeeps ==
  ASSUME NEW d \in Clients, NEW room \in Rooms, ClientInv(d), OnlyEvicted(d, room),
         UNCHANGED <<place, stopped>>
  PROVE  ClientInv(d)'
<1>1. \A r \in Rooms : d \in members'[r] => d \in members[r]
  BY DEF OnlyEvicted
<1>2. Shaped(d)' /\ Recorded(d)'
  BY DEF ClientInv, Shaped, Recorded, OnlyEvicted, place, At
<1>3. NotYetThere(d)'
  BY <1>1 DEF ClientInv, NotYetThere, OnlyEvicted, Idle
<1>4. Present(d)' /\ Gone(d)'
  BY <1>1 DEF ClientInv, Present, Gone, OnlyEvicted, At
<1>5. ASSUME NEW r \in Rooms PROVE Membership(d, r)'
  <2>1. /\ Membership(d, r)
        /\ Joins(d, r)' <=> Joins(d, r)
        /\ Leaves(d, r)' <=> Leaves(d, r)
        /\ \A m \in Messages : /\ JoinsBy(d, m, r)' <=> JoinsBy(d, m, r)
                               /\ LeavesBy(d, m, r)' <=> LeavesBy(d, m, r)
                               /\ Decided(d, m)' <=> Decided(d, m)
    BY DEF ClientInv, Joins, Leaves, JoinsBy, LeavesBy, Decided, OnlyEvicted
  <2>2. Agrees(d, r) => Agrees(d, r)'
    BY DEF Agrees, OnlyEvicted
  <2>3. d \in members[r] \/ <<d, r>> \in evicted => d \in members'[r] \/ <<d, r>> \in evicted'
    BY DEF OnlyEvicted
  <2> QED BY <1>1, <2>1, <2>2, <2>3 DEF Membership, OnlyEvicted
<1>6. \A r \in Rooms : Tracked(d, r)'
  BY <1>1 DEF ClientInv, Tracked, TrackedInRedis, TrackedInMemory, OnlyEvicted, Tracks, At, place
<1> QED BY <1>2, <1>3, <1>4, <1>5, <1>6 DEF ClientInv

\* What an eviction does to the room, and what it leaves owed.
LEMMA Evicts ==
  ASSUME ServerInv, NEW room \in Rooms, Evict(room)
  PROVE  /\ members' \in [Rooms -> SUBSET Clients]
         /\ members'[room] = {}
         /\ \A r \in Rooms \ {room} : members'[r] = members[r]
         /\ evicted' \subseteq Clients \X Rooms
         /\ \A d \in Clients, r \in Rooms :
              <<d, r>> \in evicted' <=> (d \in members[r] /\ r = room) \/ <<d, r>> \in evicted
<1>1. members \in [Rooms -> SUBSET Clients] /\ evicted \subseteq Clients \X Rooms
  BY DEF ServerInv, ServerTypeOK
<1>2. /\ members' \in [Rooms -> SUBSET Clients]
      /\ members'[room] = {}
      /\ \A r \in Rooms \ {room} : members'[r] = members[r]
  BY <1>1 DEF Evict
<1>3. evicted' = evicted \cup (members[room] \X {room})
  BY DEF Evict
<1>4. evicted' \subseteq Clients \X Rooms
  BY <1>1, <1>3
<1> QED BY <1>2, <1>3, <1>4

Emissions == [kind : {"none", "room", "all"}, room : Rooms \cup {NoRecord},
              inbox : SUBSET Processes, owed : SUBSET Clients,
              once : SUBSET Clients, twice : SUBSET Clients]

\* An emission that owes fewer clients.
LEMMA OwesLess ==
  ASSUME ServerInv, NEW fewer \in SUBSET Clients,
         emission' = [emission EXCEPT !.owed = @ \ fewer]
  PROVE  /\ emission' \in Emissions
         /\ emission'.owed = emission.owed \ fewer
         /\ emission'.kind = emission.kind /\ emission'.room = emission.room
         /\ emission'.inbox = emission.inbox /\ emission'.once = emission.once
         /\ emission'.twice = emission.twice
         /\ emission.kind = "none" => emission' = NoEmission
<1>1. emission \in Emissions
  BY DEF ServerInv, ServerTypeOK, Emissions
<1>2. PICK after : after = [emission EXCEPT !.owed = @ \ fewer]
  OBVIOUS
<1>3. /\ after \in Emissions
      /\ after.owed = emission.owed \ fewer
      /\ after.kind = emission.kind /\ after.room = emission.room
      /\ after.inbox = emission.inbox /\ after.once = emission.once
      /\ after.twice = emission.twice
  BY <1>1, <1>2 DEF Emissions
<1>4. emission.kind = "none" => after = NoEmission
  <2> SUFFICES ASSUME emission.kind = "none" PROVE after = NoEmission
    OBVIOUS
  <2>1. emission = NoEmission
    BY DEF ServerInv, OwedIsThere
  <2>2. NoEmission.owed = {} /\ {} \ fewer = {}
    BY DEF NoEmission
  <2>3. after = [NoEmission EXCEPT !.owed = {}]
    BY <1>2, <2>1, <2>2
  <2> QED BY <2>3 DEF NoEmission
<1> QED BY <1>2, <1>3, <1>4

LEMMA EvictionOwes ==
  ASSUME ServerInv, NEW room \in Rooms, Evict(room),
         UNCHANGED <<place, socket, sockets>>,
         \A d \in Clients, m \in Messages : task'[d][m].op = task[d][m].op
  PROVE  OwedIsThere' /\ emission' \in Emissions
<1>1. members[room] \in SUBSET Clients /\ emission.owed \subseteq Clients
  BY DEF ServerInv, ServerTypeOK
<1>2. /\ emission' \in Emissions
      /\ emission'.owed = emission.owed \ members[room]
      /\ emission'.kind = emission.kind /\ emission'.room = emission.room
      /\ emission'.inbox = emission.inbox /\ emission'.once = emission.once
      /\ emission'.twice = emission.twice
      /\ emission.kind = "none" => emission' = NoEmission
  BY <1>1, OwesLess DEF Evict
<1>3. \A r \in Rooms \ {room} : members'[r] = members[r]
  BY Evicts
<1>4. OwedIsThere
  BY DEF ServerInv
<1>5. \A d \in emission'.owed :
        /\ d \in emission'.once \/ home'[d] \in emission'.inbox
        /\ socket'[d] = "open" /\ d \in sockets'
        /\ emission'.kind = "room" =>
             d \in members'[emission'.room] /\ \A m \in Messages : task'[d][m].op # "leave"
  BY <1>1, <1>2, <1>3, <1>4 DEF OwedIsThere, place
<1> QED BY <1>2, <1>4, <1>5 DEF OwedIsThere, place

\* DEL of the members key, in the leave or the close that counted none.
LEMMA StepDeleteMembers ==
  ASSUME ServerInv, NEW c \in Clients, NEW s \in Slots, DeleteMembers(c, s)
  PROVE  ServerInv'
<1>1. /\ s \in Messages \cup {"close"} /\ task[c][s] # NoTask /\ task[c][s].room \in Rooms
      /\ task[c][s].step = "deleteMembers" /\ storage = "redis"
      /\ s \in Messages => LeaveTask(task[c][s])
      /\ s = "close" => task[c][s].op = "close"
  <2>1. task[c][s].step = "deleteMembers" /\ storage = "redis"
    BY DEF DeleteMembers, Redis, At
  <2> QED BY <2>1, AtCommand DEF JoinTask, JoinSteps, RemoveSteps
<1>2. PICK room \in Rooms : room = task[c][s].room
  BY <1>1
<1>3. /\ HandlerStep(c, s) /\ task'[c][s].op = task[c][s].op /\ task'[c][s].room = room
      /\ task'[c][s].step = IF s = "close" THEN "nextRoom" ELSE "finish"
      /\ task'[c][s].rest = task[c][s].rest
      /\ task'[c][s] # NoTask
  <2>1. Go(c, s, IF s = "close" THEN "nextRoom" ELSE "finish")
    BY <1>1, SlotsAre DEF DeleteMembers, AfterRoom, LeaveTask, SlotsDiffer
  <2>2. (IF s = "close" THEN "nextRoom" ELSE "finish") \in Steps
    BY DEF Steps, JoinSteps
  <2> QED BY <1>1, <1>2, <2>1, <2>2, Goes
<1>4. /\ members' \in [Rooms -> SUBSET Clients]
      /\ members'[room] = {}
      /\ \A r \in Rooms \ {room} : members'[r] = members[r]
      /\ evicted' \subseteq Clients \X Rooms
      /\ \A d \in Clients, r \in Rooms :
           <<d, r>> \in evicted' <=> (d \in members[r] /\ r = room) \/ <<d, r>> \in evicted
  BY <1>2, Evicts DEF DeleteMembers
<1>5. OwedIsThere' /\ emission' \in Emissions
  <2>1. \A d \in Clients, m \in Messages : task'[d][m].op = task[d][m].op
    BY <1>1, <1>3, SlotsAre DEF HandlerStep, SlotsDiffer
  <2> QED BY <1>2, <2>1, EvictionOwes DEF DeleteMembers, local
<1>6. ServerTypeOK'
  BY <1>3, <1>4, <1>5
     DEF HandlerStep, DeleteMembers, ServerInv, ServerTypeOK, place, local, Emissions
<1>7. ASSUME NEW d \in Clients \ {c} PROVE ClientInv(d)'
  <2>1. OnlyEvicted(d, room)
    BY <1>3, <1>4 DEF OnlyEvicted, HandlerStep, DeleteMembers, local
  <2> QED BY <2>1, EvictedKeeps DEF ServerInv, DeleteMembers
<1>8. ClientInv(c)'
  <2>1. ClientInv(c)
    BY DEF ServerInv
  <2>2. /\ Shaped(c)' /\ NotYetThere(c)' /\ Present(c)' /\ Gone(c)'
        /\ s \in Messages => socket[c] = "open" \/ c \in cut
        /\ s = "close" => socket[c] = "closed"
    <3>1. s \in Messages => MessageTask(task'[c][s])
      BY <1>1, <1>3, SlotsAre DEF MessageTask, LeaveTask, SlotsDiffer
    <3>2. s = "close" => CloseTask(task'[c][s]) /\ ~At(c, s, "unregister")
      BY <1>1, <1>3 DEF CloseTask, At
    <3> QED BY <1>1, <1>3, <3>1, <3>2, HandlerGoesOn DEF DeleteMembers, local, place
  <2>3. Recorded(c)'
    BY <1>1, <1>3, <2>2 DEF Recorded, DeleteMembers, place, local
  <2>4. ASSUME NEW r \in Rooms PROVE Membership(c, r)' /\ Tracked(c, r)'
    <3>1. Membership(c, r) /\ TrackedInRedis(c, r) /\ (c \in members'[r] => c \in members[r])
      BY <1>1, <1>4, <2>1 DEF ClientInv, Tracked
    <3>2. CASE s \in Messages
      <4>1. /\ Joins(c, r)' <=> Joins(c, r)
            /\ Leaves(c, r)' <=> Leaves(c, r)
            /\ \A n \in Messages : /\ JoinsBy(c, n, r)' <=> JoinsBy(c, n, r)
                                   /\ LeavesBy(c, n, r)' <=> LeavesBy(c, n, r)
            /\ \A n \in Messages \ {s} : /\ Decided(c, n)' <=> Decided(c, n)
                                         /\ Tracks(c, n, r)' <=> Tracks(c, n, r)
        BY <1>2, <1>3, <3>2, SameOps
      <4>2. Agrees(c, r) => Agrees(c, r)'
        BY <1>4 DEF Agrees, DeleteMembers, local
      <4>3. Decided(c, s)' /\ Decided(c, s) /\ ~Tracks(c, s, r)
        BY <1>1, <1>3 DEF Decided, Tracks
      <4>4. <<c, r>> \in evicted \/ c \in members[r] => <<c, r>> \in evicted' \/ c \in members'[r]
        BY <1>4
      <4>5. Membership(c, r)'
        BY <3>1, <4>1, <4>2, <4>3, <4>4 DEF Membership, DeleteMembers, local
      <4>6. Tracked(c, r)'
        BY <1>1, <2>2, <3>1, <3>2, <4>1, <4>3
           DEF Tracked, TrackedInRedis, DeleteMembers, place, local
      <4> QED BY <4>5, <4>6
    <3>3. CASE s = "close"
      BY <1>1, <1>3, <2>2, <3>1, <3>3
         DEF Membership, Tracked, TrackedInRedis, At, DeleteMembers, place, local
    <3> QED BY <1>1, <3>2, <3>3
  <2> QED BY <2>2, <2>3, <2>4 DEF ClientInv
<1>9. OneProcess'
  BY <1>1 DEF OneProcess, DeleteMembers, place
<1> QED BY <1>5, <1>6, <1>7, <1>8, <1>9 DEF ServerInv

\* One key of those that a stopping process deletes.
LEMMA StepClear ==
  ASSUME ServerInv, NEW key \in stopping, Clear(key)
  PROVE  ServerInv'
<1>1. /\ stopping \subseteq ({"client", "rooms"} \X Clients) \cup ({"room", "members"} \X Rooms)
      /\ stopping' = stopping \ {key}
      /\ UNCHANGED <<place, local, task, extras, requests, cut, crossed, stopped>>
  BY DEF Clear, ServerInv, ServerTypeOK
<1>2. OneProcess' \/ evicted' = evicted
  <2>1. storage = "memory" => stopped = Processes
    BY DEF ServerInv, OneProcess
  <2> QED BY <1>1, <2>1 DEF ServerInv, OneProcess, place
<1>3. OneProcess'
  BY <1>1, <1>2 DEF ServerInv, OneProcess, place
<1>4. CASE key[1] = "members"
  <2>1. PICK room \in Rooms : room = key[2]
    BY <1>1, <1>4
  <2>2. Evict(room) /\ UNCHANGED <<record, roomKeys, clientRooms, wiped>>
    BY <1>4, <2>1 DEF Clear
  <2>3. /\ members' \in [Rooms -> SUBSET Clients]
        /\ members'[room] = {}
        /\ \A r \in Rooms \ {room} : members'[r] = members[r]
        /\ evicted' \subseteq Clients \X Rooms
        /\ \A d \in Clients, r \in Rooms :
             <<d, r>> \in evicted' <=> (d \in members[r] /\ r = room) \/ <<d, r>> \in evicted
    BY <2>2, Evicts
  <2>4. OwedIsThere' /\ emission' \in Emissions
    BY <1>1, <2>2, EvictionOwes DEF local
  <2>5. ServerTypeOK'
    BY <1>1, <2>2, <2>3, <2>4 DEF ServerInv, ServerTypeOK, place, local, Emissions
  <2>6. \A d \in Clients : ClientInv(d)'
    <3>1. \A d \in Clients : OnlyEvicted(d, room)
      BY <1>1, <2>2, <2>3 DEF OnlyEvicted, local
    <3> QED BY <1>1, <3>1, EvictedKeeps DEF ServerInv
  <2> QED BY <1>3, <2>4, <2>5, <2>6 DEF ServerInv
<1>5. CASE key[1] # "members"
  <2>1. UNCHANGED <<members, evicted, emission>>
    BY <1>5 DEF Clear
  <2>2. /\ record' \in [Clients -> {NoRecord} \cup SUBSET Rooms]
        /\ clientRooms' \in [Clients -> SUBSET Rooms]
        /\ wiped' \subseteq Clients /\ wiped \subseteq wiped' /\ roomKeys' \subseteq Rooms
        /\ \A d \in Clients : record'[d] = record[d] \/ record'[d] = NoRecord
        /\ \A d \in Clients : clientRooms'[d] = clientRooms[d] \/ d \in wiped'
        /\ storage = "memory" => stopped = Processes
    <3>1. key[1] \in {"client", "rooms"} => key[2] \in Clients
      BY <1>1
    <3>2. record \in [Clients -> {NoRecord} \cup SUBSET Rooms]
          /\ clientRooms \in [Clients -> SUBSET Rooms]
          /\ wiped \subseteq Clients /\ roomKeys \subseteq Rooms
      BY DEF ServerInv, ServerTypeOK
    <3>3. storage = "memory" => stopped = Processes
      BY DEF ServerInv, OneProcess
    <3> QED BY <3>1, <3>2, <3>3 DEF Clear
  <2>3. ServerTypeOK'
    BY <1>1, <2>1, <2>2 DEF ServerInv, ServerTypeOK, place, local
  <2>4. OwedIsThere'
    BY <1>1, <2>1 DEF ServerInv, OwedIsThere, place, local
  <2>5. ASSUME NEW d \in Clients PROVE ClientInv(d)'
    <3>1. ClientInv(d) /\ home[d] \in Processes /\ storage \in {"memory", "redis"}
      BY DEF ServerInv, ServerTypeOK
    <3>2. Shaped(d)'
      BY <1>1, <3>1 DEF ClientInv, Shaped, place
    <3>3. NotYetThere(d)' /\ Present(d)' /\ Gone(d)'
      BY <1>1, <2>1, <3>1 DEF ClientInv, NotYetThere, Present, Gone, Idle, At, local
    <3>4. Recorded(d)'
      BY <1>1, <2>2, <3>1 DEF ClientInv, Recorded, At, place, local
    <3>5. \A r \in Rooms : Membership(d, r)'
      BY <1>1, <2>1, <3>1
         DEF ClientInv, Membership, Agrees, Joins, Leaves, JoinsBy, LeavesBy, Decided, local
    <3>6. \A r \in Rooms : Tracked(d, r)'
      BY <1>1, <2>1, <2>2, <3>1
         DEF ClientInv, Tracked, TrackedInRedis, TrackedInMemory, Tracks, At, place, local
    <3> QED BY <3>2, <3>3, <3>4, <3>5, <3>6 DEF ClientInv
  <2> QED BY <1>3, <2>3, <2>4, <2>5 DEF ServerInv
<1> QED BY <1>4, <1>5

-----------------------------------------------------------------------------
(* The open of a client.                                                    *)

\* A handler that ends.
LEMMA Ends ==
  ASSUME ServerInv, NEW c \in Clients, NEW s \in Slots, Done(c, s)
  PROVE  HandlerStep(c, s) /\ task'[c][s] = NoTask
<1>1. task \in [Clients -> [Slots -> Tasks]]
  BY DEF ServerInv, ServerTypeOK
<1> QED BY <1>1, NoTaskIsTask, TaskIs DEF Done, HandlerStep

\* Memberships cross in Redis only, and by requests only.
LEMMA CrossedStays ==
  ASSUME ServerInv, UNCHANGED <<place, crossed>>
  PROVE  storage = "memory" => crossed' = {}
BY DEF ServerInv, OneProcess

LEMMA StepUpgrade ==
  ASSUME ServerInv, NEW c \in Clients, Upgrade(c)
  PROVE  ServerInv'
<1>1. /\ task \in [Clients -> [Slots -> Tasks]] /\ ClientInv(c)
      /\ socket \in [Clients -> {"none", "open", "closed"}]
      /\ SlotsDiffer
  BY SlotsAre DEF ServerInv, ServerTypeOK
<1>2. PICK t : t = [NoTask EXCEPT !.op = "open", !.step = "addClient"]
  OBVIOUS
<1>3. t \in Tasks /\ t.op = "open" /\ t.step = "addClient" /\ t # NoTask
  BY <1>2, NoTaskIsTask DEF Tasks, NoTask
<1>4. HandlerStep(c, "open") /\ task'[c]["open"] = t
  <2>1. task' = [task EXCEPT ![c]["open"] = t]
    BY <1>2 DEF Upgrade
  <2> QED BY <1>1, <1>3, <2>1, TaskIs DEF HandlerStep, SlotsDiffer
<1>5. /\ \A s \in Slots \ {"open"} : task'[c][s] = NoTask
      /\ joined[c] = {} /\ c \notin sockets \cup pings
      /\ \A r \in Rooms : c \notin members[r]
  BY <1>1, <1>4 DEF ClientInv, NotYetThere, Idle, Upgrade, HandlerStep
<1>6. socket' \in [Clients -> {"none", "open", "closed"}] /\ socket'[c] = "open"
      /\ \A d \in Clients \ {c} : socket'[d] = socket[d]
  BY <1>1 DEF Upgrade
<1>7. ServerTypeOK'
  BY <1>4, <1>6
     DEF HandlerStep, Upgrade, ServerInv, ServerTypeOK, place, stored, emitted, Unkept
<1>8. \A d \in Clients \ {c} : Untouched(d)
  BY <1>4, <1>6 DEF HandlerStep, Untouched, Upgrade, stored, Unkept
<1>9. OwedIsThere'
  <2>1. c \notin emission.owed
    BY DEF ServerInv, OwedIsThere, Upgrade
  <2> QED BY <1>8, <2>1, OwedStays DEF Upgrade, emitted
<1>10. ClientInv(c)'
  <2>1. UNCHANGED <<joined, sockets, pings, members, storage>>
    BY DEF Upgrade, stored, place
  <2>2. (\A m \in Messages : task'[c][m] = NoTask) /\ task'[c]["close"] = NoTask
    BY <1>1, <1>5 DEF SlotsDiffer
  <2>3. Shaped(c)'
    BY <1>3, <1>4, <2>2, NoTaskIsTask DEF Shaped, OpenTask, MessageTask, CloseTask
  <2>4. NotYetThere(c)' /\ Gone(c)' /\ Recorded(c)'
    BY <1>3, <1>4, <1>6 DEF NotYetThere, Gone, Recorded, At
  <2>5. Present(c)'
    BY <1>3, <1>4, <1>5, <1>6, <2>1, <2>2 DEF Present, At
  <2>6. \A r \in Rooms : Membership(c, r)' /\ Tracked(c, r)'
    BY <1>5, <2>1, <2>2, NoTaskIsTask
       DEF Membership, Agrees, Joins, Leaves, JoinsBy, LeavesBy, Tracked, TrackedInRedis,
           TrackedInMemory
  <2> QED BY <2>3, <2>4, <2>5, <2>6 DEF ClientInv
<1> QED BY <1>7, <1>8, <1>9, <1>10, CrossedStays, OneClientMoves DEF Upgrade, Unkept

LEMMA StepAddClient ==
  ASSUME ServerInv, NEW c \in Clients, AddClient(c)
  PROVE  ServerInv'
<1>1. ClientInv(c) /\ SlotsDiffer
  BY SlotsAre DEF ServerInv
<1>2. /\ HandlerStep(c, "open") /\ task'[c]["open"].step = "register"
      /\ task'[c]["open"].op = task[c]["open"].op
      /\ task'[c]["open"] # NoTask
  BY <1>1, Goes DEF AddClient, Steps, SlotsDiffer
<1>3. /\ socket[c] = "open" /\ (\A m \in Messages : task[c][m] = NoTask) /\ joined[c] = {}
      /\ \A r \in Rooms : c \notin members[r]
      /\ task[c]["open"].op = "open"
  BY <1>1, NoTaskIsTask DEF ClientInv, Present, AddClient, Shaped, OpenTask, At
<1>4. /\ record' \in [Clients -> {NoRecord} \cup SUBSET Rooms]
      /\ record'[c] = {} /\ {} # NoRecord
      /\ \A d \in Clients \ {c} : record'[d] = record[d]
  BY <1>3, NoRecordAssumption DEF AddClient, ServerInv, ServerTypeOK
<1>5. ServerTypeOK'
  BY <1>2, <1>4
     DEF HandlerStep, AddClient, ServerInv, ServerTypeOK, place, local, emitted, Unkept
<1>6. \A d \in Clients \ {c} : Untouched(d)
  BY <1>2, <1>4 DEF HandlerStep, Untouched, AddClient, local, Unkept
<1>7. (\A m \in Messages : task'[c][m] = NoTask) /\ task'[c]["close"] = task[c]["close"]
  BY <1>1, <1>2, <1>3 DEF HandlerStep, SlotsDiffer
<1>8. OwedIsThere'
  <2>1. c \in emission.owed =>
          /\ socket'[c] = "open" /\ c \in sockets'
          /\ emission.kind = "room" =>
               c \in members'[emission.room] /\ \A m \in Messages : task'[c][m].op # "leave"
    BY <1>3, <1>7, NoTaskIsTask DEF ServerInv, OwedIsThere, AddClient, local
  <2> QED BY <1>6, <2>1, OwedStays DEF AddClient, emitted
<1>9. ClientInv(c)'
  <2>1. Shaped(c)'
    BY <1>1, <1>2, <1>3, <1>7 DEF ClientInv, Shaped, OpenTask, AddClient, place
  <2>2. NotYetThere(c)' /\ Present(c)' /\ Gone(c)'
    BY <1>1, <1>2, <1>3, <1>7
       DEF ClientInv, NotYetThere, Present, Gone, At, AddClient, local
  <2>3. Recorded(c)'
    BY <1>3, <1>4 DEF Recorded, AddClient, local
  <2>4. \A r \in Rooms : Membership(c, r)' /\ Tracked(c, r)'
    BY <1>3, <1>7, NoTaskIsTask
       DEF Membership, Agrees, Joins, Leaves, JoinsBy, LeavesBy, Tracked, TrackedInRedis,
           TrackedInMemory,
           AddClient, local
  <2> QED BY <2>1, <2>2, <2>3, <2>4 DEF ClientInv
<1> QED BY <1>5, <1>6, <1>8, <1>9, CrossedStays, OneClientMoves DEF AddClient, Unkept

LEMMA StepRegisters ==
  ASSUME ServerInv, NEW c \in Clients, Registers(c)
  PROVE  ServerInv'
<1>1. ClientInv(c) /\ SlotsDiffer
      /\ socket[c] \in {"none", "open", "closed"}
  BY SlotsAre DEF ServerInv, ServerTypeOK
<1>2. HandlerStep(c, "open") /\ task'[c]["open"] = NoTask
  BY <1>1, Ends DEF Registers, SlotsDiffer
<1>3. (\A m \in Messages : task'[c][m] = task[c][m]) /\ task'[c]["close"] = task[c]["close"]
  BY <1>1, <1>2 DEF HandlerStep, SlotsDiffer
<1>4. task[c]["open"] # NoTask /\ socket[c] # "none"
      /\ (socket[c] = "closed" => c \in cut)
  BY <1>1, NoTaskIsTask
     DEF Registers, At, ClientInv, NotYetThere, Gone, Idle, SlotsDiffer
<1>5. ServerTypeOK'
  BY <1>2 DEF HandlerStep, Registers, ServerInv, ServerTypeOK, place, stored, emitted, Unkept
<1>6. \A d \in Clients \ {c} : Untouched(d)
  BY <1>2 DEF HandlerStep, Untouched, Registers, stored, Unkept
<1>7. OwedIsThere'
  <2>1. c \in emission.owed =>
          /\ socket'[c] = "open" /\ c \in sockets'
          /\ emission.kind = "room" =>
               c \in members'[emission.room] /\ \A m \in Messages : task'[c][m].op # "leave"
    BY <1>3 DEF ServerInv, OwedIsThere, Registers, stored
  <2> QED BY <1>6, <2>1, OwedStays DEF Registers, emitted
<1>8. ClientInv(c)'
  <2>1. Shaped(c)'
    BY <1>1, <1>2, <1>3 DEF ClientInv, Shaped, OpenTask, Registers, place
  <2>2. NotYetThere(c)' /\ Present(c)' /\ Gone(c)'
    BY <1>1, <1>2, <1>3, <1>4, NoTaskIsTask, SlotsAre
       DEF ClientInv, NotYetThere, Present, Gone, At, Registers, stored, Unkept
  <2>3. Recorded(c)'
    BY <1>1, <1>3, <1>4 DEF ClientInv, Recorded, Registers, stored, place, Unkept, At
  <2>4. ASSUME NEW r \in Rooms PROVE Membership(c, r)' /\ Tracked(c, r)'
    <3>1. \A m \in Messages : /\ JoinsBy(c, m, r)' <=> JoinsBy(c, m, r)
                              /\ LeavesBy(c, m, r)' <=> LeavesBy(c, m, r)
                              /\ Decided(c, m)' <=> Decided(c, m)
                              /\ Tracks(c, m, r)' <=> Tracks(c, m, r)
      BY <1>3 DEF JoinsBy, LeavesBy, Decided, Tracks
    <3>2. (Joins(c, r)' <=> Joins(c, r)) /\ (Leaves(c, r)' <=> Leaves(c, r))
      BY <3>1 DEF Joins, Leaves
    <3>3. Agrees(c, r)' <=> Agrees(c, r)
      BY DEF Agrees, Registers, stored, Unkept
    <3>4. Membership(c, r)'
      BY <1>1, <3>1, <3>2, <3>3 DEF ClientInv, Membership, Registers, stored, Unkept
    <3>5. Tracked(c, r)'
      BY <1>1, <1>3, <3>1
         DEF ClientInv, Tracked, TrackedInRedis, TrackedInMemory, Registers, stored, place,
             Unkept, At
    <3> QED BY <3>4, <3>5
  <2> QED BY <2>1, <2>2, <2>3, <2>4 DEF ClientInv
<1> QED BY <1>5, <1>6, <1>7, <1>8, CrossedStays, OneClientMoves DEF Registers, Unkept

-----------------------------------------------------------------------------
(* Requests, and their handlers over the memory storage.                    *)

\* Clients that are no longer owed anything.
LEMMA OwedMinus ==
  ASSUME ServerInv, NEW fewer \in SUBSET Clients, UNCHANGED place,
         emission' = [emission EXCEPT !.owed = @ \ fewer],
         \A d \in Clients \ fewer : Untouched(d)
  PROVE  OwedIsThere' /\ emission' \in Emissions
<1>1. /\ emission' \in Emissions
      /\ emission'.owed = emission.owed \ fewer
      /\ emission'.kind = emission.kind /\ emission'.room = emission.room
      /\ emission'.inbox = emission.inbox /\ emission'.once = emission.once
      /\ emission'.twice = emission.twice
      /\ emission.kind = "none" => emission' = NoEmission
  BY OwesLess
<1>2. OwedIsThere /\ emission.owed \subseteq Clients
  BY DEF ServerInv, ServerTypeOK
<1>3. ASSUME NEW d \in emission'.owed
      PROVE  /\ d \in emission'.once \/ home'[d] \in emission'.inbox
             /\ socket'[d] = "open" /\ d \in sockets'
             /\ emission'.kind = "room" =>
                  d \in members'[emission'.room] /\ \A m \in Messages : task'[d][m].op # "leave"
  <2>1. d \in emission.owed /\ d \in Clients /\ Untouched(d)
    BY <1>1, <1>2, <1>3
  <2>2. /\ d \in emission.once \/ home[d] \in emission.inbox
        /\ socket[d] = "open" /\ d \in sockets
        /\ emission.kind = "room" =>
             d \in members[emission.room] /\ \A m \in Messages : task[d][m].op # "leave"
    BY <1>2, <2>1 DEF OwedIsThere
  <2>3. emission.kind = "room" => emission.room \in Rooms
    BY <1>2 DEF OwedIsThere
  <2> QED BY <1>1, <2>1, <2>2, <2>3 DEF Untouched, place
<1> QED BY <1>1, <1>2, <1>3 DEF OwedIsThere, place

LEMMA StepRequest ==
  ASSUME ServerInv, NEW c \in Clients, NEW m \in Messages, NEW r \in Rooms,
         NEW op \in {"join", "leave"}, Request(c, m, op, r)
  PROVE  ServerInv'
<1>1. /\ task \in [Clients -> [Slots -> Tasks]] /\ ClientInv(c) /\ SlotsDiffer /\ m \in Slots
      /\ socket[c] = "open" /\ ~At(c, "open", "addClient") /\ task[c][m] = NoTask
      /\ storage = "redis"
  BY SlotsAre DEF ServerInv, ServerTypeOK, SlotsDiffer, Request, Asks, Stays
<1>2. PICK step : step = IF op = "join" THEN "getRoom" ELSE "removeMember"
  OBVIOUS
<1>3. PICK t : t = [NoTask EXCEPT !.op = op, !.room = r, !.step = step]
  OBVIOUS
<1>4. t \in Tasks /\ t.op = op /\ t.room = r /\ t.step = step /\ t # NoTask
  BY <1>2, <1>3, NoTaskIsTask DEF Tasks, NoTask
<1>5. HandlerStep(c, m) /\ task'[c][m] = t
  <2>1. task' = [task EXCEPT ![c][m] = t]
    BY <1>2, <1>3 DEF Request
  <2> QED BY <1>1, <1>4, <2>1, TaskIs DEF HandlerStep
<1>6. /\ crossed' \subseteq Clients \X Rooms
      /\ \A d \in Clients, q \in Rooms : d # c \/ q # r =>
           (<<d, q>> \in crossed' <=> <<d, q>> \in crossed)
      /\ <<c, r>> \notin crossed' =>
           /\ <<c, r>> \in crossed => Ops(c, r) = {}
           /\ Ops(c, r) \subseteq {op}
  BY DEF Request, ServerInv, ServerTypeOK
<1>7. \A d \in Clients \ {c} : Untouched(d)
  BY <1>5, <1>6 DEF HandlerStep, Untouched, Request, stored, local
<1>8. OwedIsThere' /\ emission' \in Emissions
  <2>1. CASE op = "leave"
    <3>1. emission' = [emission EXCEPT !.owed = @ \ {c}]
      BY <2>1 DEF Request
    <3>2. PICK fewer \in SUBSET Clients : fewer = {c}
      OBVIOUS
    <3>3. \A d \in Clients \ fewer : Untouched(d)
      BY <1>7, <3>2
    <3>4. emission' = [emission EXCEPT !.owed = @ \ fewer] /\ UNCHANGED place
      BY <3>1, <3>2 DEF Request
    <3> QED BY <3>3, <3>4, OwedMinus
  <2>2. CASE op = "join"
    <3>1. emission' = emission
      BY <2>2 DEF Request
    <3>2. c \in emission.owed =>
            /\ socket'[c] = "open" /\ c \in sockets'
            /\ emission.kind = "room" =>
                 c \in members'[emission.room] /\ \A n \in Messages : task'[c][n].op # "leave"
      BY <1>1, <1>4, <1>5, <2>2
         DEF ServerInv, OwedIsThere, Request, stored, local, HandlerStep, SlotsDiffer
    <3>3. OwedIsThere'
      BY <1>7, <3>1, <3>2, OwedStays DEF Request
    <3> QED BY <3>1, <3>3 DEF ServerInv, ServerTypeOK, Emissions
  <2> QED BY <2>1, <2>2
<1>9. ServerTypeOK'
  <2>1. requests' \in 0..MaxRequests
    BY BoundsAssumption DEF Request, Asks, ServerInv, ServerTypeOK
  <2> QED BY <1>5, <1>6, <1>8, <2>1
    DEF HandlerStep, Request, ServerInv, ServerTypeOK, place, stored, local, Emissions
<1>10. ClientInv(c)'
  <2>1. /\ task'[c]["open"] = task[c]["open"] /\ task'[c]["close"] = task[c]["close"]
        /\ \A n \in Messages \ {m} : task'[c][n] = task[c][n]
    BY <1>1, <1>5 DEF HandlerStep, SlotsDiffer
  <2>2. Shaped(c)'
    BY <1>1, <1>2, <1>4, <1>5, <2>1
       DEF ClientInv, Shaped, MessageTask, JoinTask, LeaveTask, JoinSteps, RemoveSteps,
           Request, place
  <2>3. NotYetThere(c)' /\ Present(c)' /\ Gone(c)' /\ Recorded(c)'
    BY <1>1, <2>1
       DEF ClientInv, NotYetThere, Present, Gone, Recorded, At, Request, local, stored, place
  <2>4. ASSUME NEW q \in Rooms PROVE Membership(c, q)' /\ Tracked(c, q)'
    <3>1. /\ ~JoinsBy(c, m, q) /\ ~LeavesBy(c, m, q) /\ ~Tracks(c, m, q)
          /\ JoinsBy(c, m, q)' <=> op = "join" /\ q = r
          /\ LeavesBy(c, m, q)' <=> op = "leave" /\ q = r
          /\ ~Decided(c, m)'
          /\ Tracks(c, m, q)' <=> q = r
      BY <1>1, <1>2, <1>4, <1>5, NoTaskIsTask DEF JoinsBy, LeavesBy, Decided, Tracks
    <3>2. \A n \in Messages \ {m} : /\ JoinsBy(c, n, q)' <=> JoinsBy(c, n, q)
                                    /\ LeavesBy(c, n, q)' <=> LeavesBy(c, n, q)
                                    /\ Decided(c, n)' <=> Decided(c, n)
                                    /\ Tracks(c, n, q)' <=> Tracks(c, n, q)
      BY <2>1 DEF JoinsBy, LeavesBy, Decided, Tracks
    <3>3. Agrees(c, q)' <=> Agrees(c, q)
      BY DEF Agrees, Request, stored, local
    <3>4. Membership(c, q) /\ TrackedInRedis(c, q)
      BY <1>1 DEF ClientInv, Tracked
    <3>5. CASE q = r
      <4>1. ASSUME <<c, r>> \notin crossed'
            PROVE  /\ \A n \in Messages : JoinsBy(c, n, r) => op = "join"
                   /\ \A n \in Messages : LeavesBy(c, n, r) => op = "leave"
                   /\ \A n \in Messages : JoinsBy(c, n, r) \/ LeavesBy(c, n, r)
                        => <<c, r>> \notin crossed
        <5>1. \A n \in Messages : task[c][n].room = r => task[c][n].op \in Ops(c, r)
          BY DEF Ops
        <5> QED BY <1>6, <4>1, <5>1 DEF JoinsBy, LeavesBy
      <4>2. Membership(c, q)'
        <5> SUFFICES ASSUME <<c, r>> \notin crossed' PROVE Membership(c, q)'
          BY <3>5 DEF Membership
        <5>1. ~(Joins(c, q)' /\ Leaves(c, q)') /\ (Joins(c, q)' \/ Leaves(c, q)')
          BY <3>1, <3>2, <3>5, <4>1 DEF Joins, Leaves
        <5>2. ASSUME NEW n \in Messages
              PROVE  /\ JoinsBy(c, n, q)' /\ Decided(c, n)'
                          => c \in members[q] \/ <<c, q>> \in evicted
                     /\ LeavesBy(c, n, q)' /\ Decided(c, n)' => c \notin members[q]
          BY <1>1, <3>1, <3>2, <3>4, <3>5, <4>1 DEF Membership
        <5>3. members' = members /\ evicted' = evicted
          BY DEF Request, stored
        <5> QED BY <5>1, <5>2, <5>3 DEF Membership
      <4>3. Tracked(c, q)'
        BY <1>1, <3>1, <3>5 DEF Tracked, TrackedInRedis, Request, place, local
      <4> QED BY <4>2, <4>3
    <3>6. CASE q # r
      <4>1. (Joins(c, q)' <=> Joins(c, q)) /\ (Leaves(c, q)' <=> Leaves(c, q))
        BY <3>1, <3>2, <3>6 DEF Joins, Leaves
      <4>2. Membership(c, q)'
        BY <1>6, <3>1, <3>2, <3>3, <3>4, <3>6, <4>1 DEF Membership, Request, stored, local
      <4>3. Tracked(c, q)'
        BY <1>1, <1>6, <3>1, <3>2, <3>4, <3>6
           DEF Tracked, TrackedInRedis, Request, stored, place, local
      <4> QED BY <4>2, <4>3
    <3> QED BY <3>5, <3>6
  <2> QED BY <2>2, <2>3, <2>4 DEF ClientInv
<1>11. storage = "memory" => crossed' = {}
  BY <1>1
<1> QED BY <1>7, <1>8, <1>9, <1>10, <1>11, OneClientMoves DEF Request

\* The application is told: what it was told agrees with the members again.
LEMMA StepFinish ==
  ASSUME ServerInv, NEW c \in Clients, NEW m \in Messages, Finish(c, m)
  PROVE  ServerInv'
<1>1. /\ ClientInv(c) /\ SlotsDiffer /\ m \in Slots
      /\ task[c][m] # NoTask /\ task[c][m].step = "finish"
      /\ socket[c] \in {"none", "open", "closed"} /\ storage \in {"memory", "redis"}
  BY NoTaskIsTask, SlotsAre DEF ServerInv, ServerTypeOK, SlotsDiffer, Finish, At
<1>2. (JoinTask(task[c][m]) \/ LeaveTask(task[c][m])) /\ storage = "redis"
  BY <1>1 DEF ClientInv, Shaped, MessageTask
<1>3. PICK room \in Rooms : room = task[c][m].room
  BY <1>2 DEF JoinTask, LeaveTask
<1>4. HandlerStep(c, m) /\ task'[c][m] = NoTask
  BY <1>1, Ends DEF Finish
<1>5. /\ task'[c]["open"] = task[c]["open"] /\ task'[c]["close"] = task[c]["close"]
      /\ \A n \in Messages \ {m} : task'[c][n] = task[c][n]
  BY <1>1, <1>4 DEF HandlerStep, SlotsDiffer
<1>6. socket[c] # "none" /\ ~At(c, "open", "addClient")
      /\ (socket[c] = "closed" => c \in cut)
  BY <1>1 DEF ClientInv, NotYetThere, Present, Gone, Idle
<1>7. /\ joined' \in [Clients -> SUBSET Rooms]
      /\ \A d \in Clients \ {c} : joined'[d] = joined[d]
      /\ joined'[c] = IF task[c][m].op = "join" THEN joined[c] \cup {room}
                      ELSE joined[c] \ {room}
  BY <1>3 DEF Finish, ServerInv, ServerTypeOK
<1>8. ServerTypeOK'
  BY <1>4, <1>7 DEF HandlerStep, Finish, ServerInv, ServerTypeOK, place, stored, emitted, Unkept
<1>9. \A d \in Clients \ {c} : Untouched(d)
  BY <1>4, <1>7 DEF HandlerStep, Untouched, Finish, stored, Unkept
<1>10. OwedIsThere'
  <2>1. c \in emission.owed =>
          /\ socket'[c] = "open" /\ c \in sockets'
          /\ emission.kind = "room" =>
               c \in members'[emission.room] /\ \A n \in Messages : task'[c][n].op # "leave"
    BY <1>4, <1>5, NoTaskIsTask DEF ServerInv, OwedIsThere, Finish, stored
  <2> QED BY <1>9, <2>1, OwedStays DEF Finish, emitted
<1>11. ClientInv(c)'
  <2>1. Shaped(c)'
    BY <1>1, <1>2, <1>4, <1>5, NoTaskIsTask DEF ClientInv, Shaped, MessageTask, Finish, place
  <2>2. NotYetThere(c)' /\ Present(c)' /\ Gone(c)' /\ Recorded(c)'
    BY <1>1, <1>4, <1>5, <1>6
       DEF ClientInv, NotYetThere, Present, Gone, Recorded, At, Finish, stored, place, Unkept
  <2>3. ASSUME NEW r \in Rooms PROVE Membership(c, r)' /\ Tracked(c, r)'
    <3>1. Membership(c, r) /\ TrackedInRedis(c, r)
      BY <1>1, <1>2 DEF ClientInv, Tracked
    <3>2. /\ ~JoinsBy(c, m, r)' /\ ~LeavesBy(c, m, r)' /\ ~Tracks(c, m, r)
          /\ Decided(c, m)
          /\ JoinsBy(c, m, r) <=> r = room /\ task[c][m].op = "join"
          /\ LeavesBy(c, m, r) <=> r = room /\ task[c][m].op # "join"
      BY <1>1, <1>2, <1>3, <1>4, NoTaskIsTask
         DEF JoinsBy, LeavesBy, Tracks, Decided, JoinTask, LeaveTask
    <3>3. \A n \in Messages \ {m} : /\ JoinsBy(c, n, r)' <=> JoinsBy(c, n, r)
                                    /\ LeavesBy(c, n, r)' <=> LeavesBy(c, n, r)
                                    /\ Decided(c, n)' <=> Decided(c, n)
                                    /\ Tracks(c, n, r)' <=> Tracks(c, n, r)
      BY <1>5 DEF JoinsBy, LeavesBy, Decided, Tracks
    <3>4. /\ Joins(c, r) <=> Joins(c, r)' \/ JoinsBy(c, m, r)
          /\ Leaves(c, r) <=> Leaves(c, r)' \/ LeavesBy(c, m, r)
      BY <3>2, <3>3 DEF Joins, Leaves
    <3>5. socket[c] = "open" /\ <<c, r>> \notin crossed =>
            Joins(c, r)' \/ Leaves(c, r)' \/ Agrees(c, r)'
      <4>1. CASE r = room
        BY <1>7, <3>1, <3>2, <3>4, <4>1 DEF Membership, Agrees, Finish, stored, Unkept
      <4>2. CASE r # room
        BY <1>7, <3>1, <3>2, <3>4, <4>2 DEF Membership, Agrees, Finish, stored, Unkept
      <4> QED BY <4>1, <4>2
    <3>6. Membership(c, r)'
      BY <3>1, <3>2, <3>3, <3>4, <3>5 DEF Membership, Finish, stored, Unkept
    <3>7. Tracked(c, r)'
      BY <1>2, <1>5, <1>6, <3>1, <3>2, <3>3
         DEF Tracked, TrackedInRedis, At, Finish, stored, place, Unkept
    <3> QED BY <3>6, <3>7
  <2> QED BY <2>1, <2>2, <2>3 DEF ClientInv
<1> QED BY <1>8, <1>9, <1>10, <1>11, CrossedStays, OneClientMoves DEF Finish, Unkept

\* Over the memory storage a join or a leave is one step: the members, the rooms of
\* the client's record and what it was told then agree.
MemoryStep(c, r, in) ==
  /\ storage = "memory" /\ Asks(c) /\ UNCHANGED task
  /\ \A d \in Clients : record'[d] = NoRecord <=> record[d] = NoRecord
  /\ \A d \in Clients \ {c} : record'[d] = record[d] /\ joined'[d] = joined[d]
  /\ \A q \in Rooms, d \in Clients : d # c \/ q # r =>
       (d \in members'[q] <=> d \in members[q])
  /\ \A q \in Rooms \ {r} : q \in joined'[c] <=> q \in joined[c]
  /\ record[c] # NoRecord => \A q \in Rooms \ {r} : q \in record[c] => q \in record'[c]
  /\ (c \in members'[r] <=> in) /\ (r \in joined'[c] <=> in)
  /\ record[c] # NoRecord /\ in => r \in record'[c]
  /\ UNCHANGED <<place, clientRooms, socket, sockets, pings, stopping,
                 extras, cut, crossed, evicted, wiped, stopped>>

LEMMA MemoryMoves ==
  ASSUME ServerInv, ServerTypeOK', NEW c \in Clients, NEW r \in Rooms, NEW in \in BOOLEAN,
         MemoryStep(c, r, in), OwedIsThere'
  PROVE  ServerInv'
<1>1. /\ ClientInv(c) /\ socket[c] = "open" /\ ~At(c, "open", "addClient")
      /\ home[c] \notin stopped
  BY DEF ServerInv, MemoryStep, Asks, Stays
<1>2. \A d \in Clients \ {c} : Untouched(d)
  BY DEF MemoryStep, Untouched
<1>3. ClientInv(c)'
  <2>1. Shaped(c)'
    BY <1>1 DEF ClientInv, Shaped, MemoryStep, place
  <2>2. NotYetThere(c)' /\ Present(c)' /\ Gone(c)' /\ Recorded(c)'
    BY <1>1 DEF ClientInv, NotYetThere, Present, Gone, Recorded, At, MemoryStep, place
  <2>3. ASSUME NEW q \in Rooms PROVE Membership(c, q)' /\ Tracked(c, q)'
    <3>1. \A m \in Messages : /\ ~JoinsBy(c, m, q) /\ ~JoinsBy(c, m, q)'
                              /\ ~LeavesBy(c, m, q) /\ ~LeavesBy(c, m, q)'
      BY <1>1, NoTaskIsTask DEF ClientInv, Shaped, MemoryStep, JoinsBy, LeavesBy
    <3>2. /\ ~Joins(c, q) /\ ~Leaves(c, q) /\ ~Joins(c, q)' /\ ~Leaves(c, q)'
          /\ <<c, q>> \notin crossed
      BY <3>1 DEF Joins, Leaves, ServerInv, OneProcess, MemoryStep
    <3>3. Agrees(c, q)
      BY <1>1, <3>2 DEF ClientInv, Membership
    <3>4. Agrees(c, q)'
      BY <3>3 DEF Agrees, MemoryStep
    <3>5. Membership(c, q)'
      BY <3>1, <3>2, <3>4 DEF Membership
    <3>6. TrackedInMemory(c, q)'
      <4> SUFFICES ASSUME c \in members'[q], c \notin cut
                   PROVE  record'[c] # NoRecord /\ q \in record'[c]
        BY DEF TrackedInMemory, MemoryStep, place
      <4>1. record[c] # NoRecord
        BY <1>1 DEF ClientInv, Recorded, MemoryStep
      <4>2. q # r => q \in record[c]
        BY <1>1 DEF ClientInv, Tracked, TrackedInMemory, MemoryStep
      <4> QED BY <4>1, <4>2 DEF MemoryStep
    <3> QED BY <3>5, <3>6 DEF Tracked, MemoryStep, place
  <2> QED BY <2>1, <2>2, <2>3 DEF ClientInv
<1> QED BY <1>2, <1>3, CrossedStays, OneClientMoves DEF MemoryStep

LEMMA StepMemoryJoins ==
  ASSUME ServerInv, NEW c \in Clients, NEW r \in Rooms, MemoryJoins(c, r)
  PROVE  ServerInv'
<1>1. /\ members \in [Rooms -> SUBSET Clients] /\ joined \in [Clients -> SUBSET Rooms]
      /\ record \in [Clients -> {NoRecord} \cup SUBSET Rooms]
      /\ record[c] # NoRecord => record[c] \cup {r} \in SUBSET Rooms
                                 /\ record[c] \cup {r} # NoRecord
  BY NoRecordAssumption DEF ServerInv, ServerTypeOK
<1>2. MemoryStep(c, r, TRUE)
  BY <1>1 DEF MemoryStep, MemoryJoins, emitted
<1>3. ServerTypeOK'
  <2>1. requests' \in 0..MaxRequests
    BY BoundsAssumption DEF MemoryJoins, Asks, ServerInv, ServerTypeOK
  <2> QED BY <1>1, <2>1 DEF MemoryJoins, ServerInv, ServerTypeOK, place, emitted
<1>4. OwedIsThere'
  <2>1. \A d \in Clients \ {c} : Untouched(d)
    BY <1>2 DEF MemoryStep, Untouched
  <2>2. c \in emission.owed =>
          /\ socket'[c] = "open" /\ c \in sockets'
          /\ emission.kind = "room" =>
               c \in members'[emission.room] /\ \A m \in Messages : task'[c][m].op # "leave"
    BY <1>2 DEF ServerInv, OwedIsThere, MemoryStep
  <2> QED BY <2>1, <2>2, OwedStays DEF MemoryJoins, emitted
<1> QED BY <1>2, <1>3, <1>4, MemoryMoves

\* The rooms that a client is taken out of.
LEMMA OutTakes ==
  ASSUME ServerInv, NEW c \in Clients, NEW rooms \in SUBSET Rooms, Out(c, rooms)
  PROVE  /\ members' \in [Rooms -> SUBSET Clients] /\ roomKeys' \subseteq Rooms
         /\ \A q \in Rooms, d \in Clients :
              d \in members'[q] <=> d \in members[q] /\ (d = c => q \notin rooms)
BY DEF ServerInv, ServerTypeOK, Out

LEMMA StepMemoryLeaves ==
  ASSUME ServerInv, NEW c \in Clients, NEW r \in Rooms, MemoryLeaves(c, r)
  PROVE  ServerInv'
<1>1. /\ members' \in [Rooms -> SUBSET Clients] /\ roomKeys' \subseteq Rooms
      /\ \A q \in Rooms, d \in Clients :
           d \in members'[q] <=> d \in members[q] /\ (d = c => q \notin {r})
  BY OutTakes DEF MemoryLeaves
<1>2. /\ joined \in [Clients -> SUBSET Rooms]
      /\ record \in [Clients -> {NoRecord} \cup SUBSET Rooms]
      /\ record[c] # NoRecord => record[c] \ {r} \in SUBSET Rooms
                                 /\ record[c] \ {r} # NoRecord
  BY NoRecordAssumption DEF ServerInv, ServerTypeOK
<1>3. MemoryStep(c, r, FALSE)
  BY <1>1, <1>2 DEF MemoryStep, MemoryLeaves
<1>4. OwedIsThere' /\ emission' \in Emissions
  <2>1. \A d \in Clients \ {c} : Untouched(d)
    BY <1>3 DEF MemoryStep, Untouched
  <2>2. PICK fewer \in SUBSET Clients : fewer = {c}
    OBVIOUS
  <2>3. \A d \in Clients \ fewer : Untouched(d)
    BY <2>1, <2>2
  <2>4. emission' = [emission EXCEPT !.owed = @ \ fewer] /\ UNCHANGED place
    BY <2>2 DEF MemoryLeaves
  <2> QED BY <2>3, <2>4, OwedMinus
<1>5. ServerTypeOK'
  <2>1. requests' \in 0..MaxRequests
    BY BoundsAssumption DEF MemoryLeaves, Asks, ServerInv, ServerTypeOK
  <2> QED BY <1>1, <1>2, <1>4, <2>1
    DEF MemoryLeaves, ServerInv, ServerTypeOK, Emissions, place
<1> QED BY <1>3, <1>4, <1>5, MemoryMoves

-----------------------------------------------------------------------------
(* The close of a client.                                                   *)

\* The closing handler of client c is under way.
LEMMA Closes ==
  ASSUME ServerInv, NEW c \in Clients, task[c]["close"].step # "none"
  PROVE  /\ ClientInv(c) /\ SlotsDiffer
         /\ task[c]["close"] \in Tasks /\ task[c]["close"] # NoTask
         /\ CloseTask(task[c]["close"]) /\ task[c]["close"].op = "close"
         /\ socket[c] = "closed" /\ c \notin emission.owed
<1>1. /\ ClientInv(c) /\ SlotsDiffer
      /\ socket[c] \in {"none", "open", "closed"}
      /\ task[c]["close"] \in Tasks /\ OwedIsThere
  BY SlotsAre DEF ServerInv, ServerTypeOK, SlotsDiffer
<1>2. task[c]["close"] # NoTask
  BY NoTaskIsTask
<1>3. socket[c] = "closed" /\ c \notin emission.owed
  BY <1>1, <1>2 DEF ClientInv, NotYetThere, Present, Idle, OwedIsThere, SlotsDiffer
<1>4. CloseTask(task[c]["close"])
  BY <1>1 DEF ClientInv, Shaped
<1> QED BY <1>1, <1>2, <1>3, <1>4 DEF CloseTask

LEMMA StepUnregister ==
  ASSUME ServerInv, NEW c \in Clients, Unregister(c)
  PROVE  ServerInv'
<1>1. /\ ClientInv(c) /\ SlotsDiffer
      /\ task[c]["close"].step = "unregister" /\ task[c]["close"].op = "close"
      /\ socket[c] = "closed" /\ c \notin emission.owed
  <2>1. task[c]["close"].step = "unregister"
    BY DEF Unregister, At
  <2> QED BY <2>1, Closes
<1>2. /\ HandlerStep(c, "close") /\ task'[c]["close"].step = "listRooms"
      /\ task'[c]["close"].op = "close"
  BY <1>1, Goes DEF Unregister, Steps, SlotsDiffer
<1>3. task'[c]["open"] = task[c]["open"] /\ \A m \in Messages : task'[c][m] = task[c][m]
  BY <1>1, <1>2 DEF HandlerStep, SlotsDiffer
<1>4. ServerTypeOK'
  BY <1>2 DEF HandlerStep, Unregister, ServerInv, ServerTypeOK, place, stored, emitted, Unkept
<1>5. \A d \in Clients \ {c} : Untouched(d)
  BY <1>2 DEF HandlerStep, Untouched, Unregister, stored, Unkept
<1>6. OwedIsThere'
  BY <1>1, <1>5, OwedStays DEF Unregister, emitted
<1>7. ClientInv(c)'
  <2>1. Shaped(c)'
    BY <1>1, <1>2, <1>3 DEF ClientInv, Shaped, CloseTask, Unregister, place
  <2>2. NotYetThere(c)' /\ Present(c)' /\ Gone(c)' /\ Recorded(c)'
    BY <1>1, <1>2, <1>3, NoTaskIsTask
       DEF ClientInv, NotYetThere, Present, Gone, Recorded, At, Unregister, stored, Unkept
  <2>3. \A r \in Rooms : Membership(c, r)' /\ Tracked(c, r)'
    BY <1>1, <1>2
       DEF ClientInv, Membership, Tracked, TrackedInRedis, TrackedInMemory,
           Unregister, stored, place, Unkept
  <2> QED BY <2>1, <2>2, <2>3 DEF ClientInv
<1> QED BY <1>4, <1>5, <1>6, <1>7, CrossedStays, OneClientMoves DEF Unregister, Unkept

\* SMEMBERS lists every room that the client is a member of.
LEMMA StepListRooms ==
  ASSUME ServerInv, NEW c \in Clients, ListRooms(c)
  PROVE  ServerInv'
<1>1. /\ task[c]["close"].step = "listRooms" /\ storage = "redis"
      /\ task \in [Clients -> [Slots -> Tasks]] /\ clientRooms[c] \in SUBSET Rooms
  BY DEF ListRooms, Redis, At, ServerInv, ServerTypeOK
<1>2. /\ ClientInv(c) /\ SlotsDiffer
      /\ task[c]["close"] \in Tasks /\ task[c]["close"] # NoTask
      /\ task[c]["close"].op = "close" /\ socket[c] = "closed"
  BY <1>1, Closes
<1>3. PICK t : t = [task[c]["close"] EXCEPT !.step = "nextRoom", !.rest = clientRooms[c]]
  OBVIOUS
<1>4. t \in Tasks /\ t.step = "nextRoom" /\ t.rest = clientRooms[c] /\ t.op = "close"
  BY <1>1, <1>2, <1>3 DEF Tasks
<1>5. task' = [task EXCEPT ![c]["close"] = t]
  BY <1>3 DEF ListRooms
<1>6. HandlerStep(c, "close") /\ task'[c]["close"] = t
  BY <1>1, <1>2, <1>4, <1>5, TaskIs DEF HandlerStep, SlotsDiffer
<1>7. ServerTypeOK'
  BY <1>6 DEF HandlerStep, ListRooms, ServerInv, ServerTypeOK, place, stored, local,
              emitted, Unkept
<1>8. \A d \in Clients \ {c} : Untouched(d)
  BY <1>6 DEF HandlerStep, Untouched, ListRooms, stored, local, Unkept
<1>9. \A r \in Rooms : TrackedInRedis(c, r)'
  BY <1>1, <1>2, <1>4, <1>6
     DEF ClientInv, Tracked, TrackedInRedis, ListRooms, stored, local, Unkept
<1>10. CloseTask(t) /\ t # NoTask /\ ~At(c, "close", "unregister")
  BY <1>1, <1>4, NoTaskIsTask DEF CloseTask, At
<1> QED BY <1>1, <1>2, <1>6, <1>7, <1>8, <1>9, <1>10, CloseCommand
        DEF ListRooms, stored, emitted, Unkept

LEMMA StepNextRoom ==
  ASSUME ServerInv, NEW c \in Clients, NextRoom(c)
  PROVE  ServerInv'
<1>1. /\ task[c]["close"].step = "nextRoom" /\ storage = "redis"
      /\ task \in [Clients -> [Slots -> Tasks]]
  BY DEF NextRoom, Redis, At, ServerInv, ServerTypeOK
<1>2. /\ ClientInv(c) /\ SlotsDiffer
      /\ task[c]["close"] \in Tasks /\ task[c]["close"] # NoTask
      /\ task[c]["close"].op = "close" /\ socket[c] = "closed"
  BY <1>1, Closes
<1>3. /\ HandlerStep(c, "close") /\ CloseTask(task'[c]["close"]) /\ task'[c]["close"] # NoTask
      /\ \A r \in task[c]["close"].rest :
           \/ r \in task'[c]["close"].rest
           \/ At(c, "close", "removeMember")' /\ task'[c]["close"].room = r
      /\ task'[c]["close"].step \notin {"unregister", "listRooms"}
  <2>1. CASE task[c]["close"].rest = {} /\ Go(c, "close", "deleteClient")
    <3>1. /\ HandlerStep(c, "close") /\ task'[c]["close"].step = "deleteClient"
          /\ task'[c]["close"].op = "close" /\ task'[c]["close"].rest = {}
          /\ task'[c]["close"] # NoTask
      BY <1>2, <2>1, Goes DEF Steps, SlotsDiffer
    <3> QED BY <2>1, <3>1 DEF CloseTask
  <2>2. ASSUME NEW r \in task[c]["close"].rest,
               task' = [task EXCEPT ![c]["close"] =
                          [@ EXCEPT !.step = "removeMember", !.room = r,
                                    !.rest = task[c]["close"].rest \ {r}]]
        PROVE  /\ HandlerStep(c, "close") /\ CloseTask(task'[c]["close"])
               /\ task'[c]["close"] # NoTask
               /\ \A q \in task[c]["close"].rest :
                    \/ q \in task'[c]["close"].rest
                    \/ At(c, "close", "removeMember")' /\ task'[c]["close"].room = q
               /\ task'[c]["close"].step \notin {"unregister", "listRooms"}
    <3>1. PICK t : t = [task[c]["close"] EXCEPT !.step = "removeMember", !.room = r,
                                                !.rest = task[c]["close"].rest \ {r}]
      OBVIOUS
    <3>2. task[c]["close"].rest \in SUBSET Rooms
      BY <1>2 DEF Tasks
    <3>3. /\ t \in Tasks /\ t.step = "removeMember" /\ t.room = r /\ t.op = "close"
          /\ t.rest = task[c]["close"].rest \ {r}
      BY <1>2, <3>1, <3>2 DEF Tasks
    <3>4. task' = [task EXCEPT ![c]["close"] = t]
      BY <2>2, <3>1
    <3>5. HandlerStep(c, "close") /\ task'[c]["close"] = t
      BY <1>1, <1>2, <3>3, <3>4, TaskIs DEF HandlerStep, SlotsDiffer
    <3> QED BY <3>2, <3>3, <3>5, NoTaskIsTask DEF CloseTask, RemoveSteps, At
  <2> QED BY <2>1, <2>2 DEF NextRoom
<1>4. ServerTypeOK'
  BY <1>3 DEF HandlerStep, NextRoom, ServerInv, ServerTypeOK, place, stored, local,
              emitted, Unkept
<1>5. \A d \in Clients \ {c} : Untouched(d)
  BY <1>3 DEF HandlerStep, Untouched, NextRoom, stored, local, Unkept
<1>6. \A r \in Rooms : TrackedInRedis(c, r)'
  BY <1>1, <1>2, <1>3
     DEF ClientInv, Tracked, TrackedInRedis, NextRoom, stored, local, Unkept, At
<1>7. ~At(c, "close", "unregister")
  BY <1>1 DEF At
<1> QED BY <1>1, <1>2, <1>3, <1>4, <1>5, <1>6, <1>7, CloseCommand
        DEF NextRoom, stored, emitted, Unkept

\* The client is out of every room when its record is deleted.
ClosedFor(c) ==
  /\ HandlerStep(c, "close") /\ task'[c]["close"] = NoTask
  /\ task[c]["close"].step \notin {"none", "unregister"}
  /\ record'[c] = NoRecord /\ \A d \in Clients \ {c} : record'[d] = record[d]
  /\ \A d \in Clients \ {c}, r \in Rooms : d \in members'[r] <=> d \in members[r]
  /\ \A r \in Rooms : c \in members'[r] => c \in members[r]
  /\ \A r \in Rooms :
       IF storage = "redis" THEN c \in members'[r] => c \in cut \cup wiped \/ <<c, r>> \in crossed
       ELSE c \in members'[r] => c \in cut \/ home[c] \in stopped
  /\ UNCHANGED <<place, clientRooms, local, stopping, emitted, Unkept>>

LEMMA ClosesForGood ==
  ASSUME ServerInv, ServerTypeOK', NEW c \in Clients, ClosedFor(c)
  PROVE  ServerInv'
<1>1. /\ ClientInv(c) /\ SlotsDiffer
      /\ socket[c] = "closed" /\ c \notin emission.owed
  BY Closes DEF ClosedFor
<1>2. task'[c]["open"] = task[c]["open"]
      /\ (\A m \in Messages : task'[c][m] = task[c][m])
      /\ task'[c]["close"] = NoTask
  BY <1>1 DEF ClosedFor, HandlerStep, SlotsDiffer
<1>3. \A d \in Clients \ {c} : Untouched(d)
  BY DEF ClosedFor, HandlerStep, Untouched, local, Unkept
<1>4. OwedIsThere'
  BY <1>1, <1>3, OwedStays DEF ClosedFor, emitted
<1>5. ClientInv(c)'
  <2>1. Shaped(c)'
    BY <1>1, <1>2, NoTaskIsTask DEF ClientInv, Shaped, CloseTask, ClosedFor, place
  <2>2. NotYetThere(c)' /\ Present(c)' /\ Gone(c)' /\ Recorded(c)'
    BY <1>1, <1>2
       DEF ClientInv, NotYetThere, Present, Gone, Recorded, At, ClosedFor, local, Unkept
  <2>3. \A r \in Rooms : Membership(c, r)' /\ Tracked(c, r)'
    BY <1>1, <1>2
       DEF Membership, Tracked, TrackedInRedis, TrackedInMemory, ClosedFor, local, place, Unkept
  <2> QED BY <2>1, <2>2, <2>3 DEF ClientInv
<1> QED BY <1>3, <1>4, <1>5, CrossedStays, OneClientMoves DEF ClosedFor, Unkept

LEMMA StepDeleteClient ==
  ASSUME ServerInv, NEW c \in Clients, DeleteClient(c)
  PROVE  ServerInv'
<1>1. task[c]["close"].step = "deleteClient" /\ storage = "redis"
  BY DEF DeleteClient, Redis, At
<1>2. /\ ClientInv(c) /\ SlotsDiffer
      /\ CloseTask(task[c]["close"]) /\ socket[c] = "closed"
  BY <1>1, Closes
<1>3. HandlerStep(c, "close") /\ task'[c]["close"] = NoTask
  BY <1>2, Ends DEF DeleteClient, SlotsDiffer
<1>4. task[c]["close"].rest = {}
  BY <1>1, <1>2, NoTaskIsTask DEF CloseTask, RemoveSteps
<1>5. /\ record' \in [Clients -> {NoRecord} \cup SUBSET Rooms] /\ record'[c] = NoRecord
      /\ \A d \in Clients \ {c} : record'[d] = record[d]
  BY DEF DeleteClient, ServerInv, ServerTypeOK
<1>6. ServerTypeOK'
  BY <1>3, <1>5
     DEF HandlerStep, DeleteClient, ServerInv, ServerTypeOK, place, local, emitted, Unkept
<1>7. \A r \in Rooms : c \in members[r] => c \in cut \cup wiped \/ <<c, r>> \in crossed
  BY <1>1, <1>2, <1>4 DEF ClientInv, Tracked, TrackedInRedis, At
<1>8. ClosedFor(c)
  BY <1>1, <1>3, <1>5, <1>7 DEF ClosedFor, DeleteClient
<1> QED BY <1>6, <1>8, ClosesForGood

LEMMA StepMemoryRemovesClient ==
  ASSUME ServerInv, NEW c \in Clients, MemoryRemovesClient(c)
  PROVE  ServerInv'
<1>1. task[c]["close"].step = "listRooms" /\ storage = "memory"
  BY DEF MemoryRemovesClient, Memory, At
<1>2. /\ ClientInv(c) /\ SlotsDiffer
      /\ socket[c] = "closed"
  BY <1>1, Closes
<1>3. HandlerStep(c, "close") /\ task'[c]["close"] = NoTask
  BY <1>2, Ends DEF MemoryRemovesClient, SlotsDiffer
<1>4. PICK rooms : rooms = IF record[c] = NoRecord THEN {} ELSE record[c]
  OBVIOUS
<1>5. rooms \in SUBSET Rooms /\ Out(c, rooms)
  BY <1>4 DEF MemoryRemovesClient, ServerInv, ServerTypeOK
<1>6. /\ members' \in [Rooms -> SUBSET Clients] /\ roomKeys' \subseteq Rooms
      /\ \A q \in Rooms, d \in Clients :
           d \in members'[q] <=> d \in members[q] /\ (d = c => q \notin rooms)
  BY <1>5, OutTakes
<1>7. /\ record' \in [Clients -> {NoRecord} \cup SUBSET Rooms] /\ record'[c] = NoRecord
      /\ \A d \in Clients \ {c} : record'[d] = record[d]
  BY DEF MemoryRemovesClient, ServerInv, ServerTypeOK
<1>8. ServerTypeOK'
  BY <1>3, <1>6, <1>7
     DEF HandlerStep, MemoryRemovesClient, ServerInv, ServerTypeOK, place, local,
         emitted, Unkept
<1>9. ASSUME NEW r \in Rooms, c \in members'[r]
      PROVE  c \in cut \/ home[c] \in stopped
  <2>1. c \in members[r] /\ r \notin rooms
    BY <1>6, <1>9
  <2> QED BY <1>1, <1>2, <1>4, <2>1 DEF ClientInv, Tracked, TrackedInMemory
<1>10. ClosedFor(c)
  BY <1>1, <1>3, <1>6, <1>7, <1>9 DEF ClosedFor, MemoryRemovesClient
<1> QED BY <1>8, <1>10, ClosesForGood

LEMMA StepClose ==
  ASSUME ServerInv, NEW c \in Clients, Close(c)
  PROVE  ServerInv'
<1>1. /\ task \in [Clients -> [Slots -> Tasks]] /\ ClientInv(c)
      /\ socket \in [Clients -> {"none", "open", "closed"}]
      /\ SlotsDiffer
      /\ socket[c] = "open" /\ home[c] \notin stopped /\ ~At(c, "open", "addClient")
      /\ emission' = [emission EXCEPT !.owed = @ \ {c}]
      /\ UNCHANGED <<place, stored, sockets, joined, stopping, requests, crossed, evicted, wiped, stopped>>
  BY SlotsAre DEF ServerInv, ServerTypeOK, Close, Stays
<1>2. PICK t : t = [NoTask EXCEPT !.op = "close", !.step = "unregister"]
  OBVIOUS
<1>3. t \in Tasks /\ t.op = "close" /\ t.step = "unregister" /\ t # NoTask
  BY <1>2, NoTaskIsTask DEF Tasks, NoTask
<1>4. HandlerStep(c, "close") /\ task'[c]["close"] = t
  <2>1. task' = [task EXCEPT ![c]["close"] = t]
    BY <1>2 DEF Close
  <2> QED BY <1>1, <1>3, <2>1, TaskIs DEF HandlerStep, SlotsDiffer
<1>5. task'[c]["open"] = task[c]["open"] /\ \A m \in Messages : task'[c][m] = task[c][m]
  BY <1>1, <1>4 DEF HandlerStep, SlotsDiffer
<1>6. /\ socket' \in [Clients -> {"none", "open", "closed"}] /\ socket'[c] = "closed"
      /\ \A d \in Clients \ {c} : socket'[d] = socket[d]
      /\ pings' = pings \ {c}
  BY <1>1 DEF Close
<1>7. /\ cut' \subseteq Clients /\ extras' \in 0..MaxExtras
      /\ cut \subseteq cut' /\ \A d \in cut' : d \in cut \/ d = c
      /\ c \in cut' \/ Idle(c)
  <2>1. cut \subseteq Clients /\ extras \in 0..MaxExtras
    BY DEF ServerInv, ServerTypeOK
  <2>2. CASE Idle(c)
    BY <2>1, <2>2 DEF Close
  <2>3. CASE ~Idle(c)
    <3>1. cut' = cut \cup {c} /\ Extra
      BY <2>3 DEF Close
    <3>2. extras' \in 0..MaxExtras
      BY <2>1, <3>1, BoundsAssumption DEF Extra
    <3> QED BY <2>1, <3>1, <3>2
  <2> QED BY <2>2, <2>3
<1>8. \A d \in Clients \ {c} : Untouched(d)
  BY <1>1, <1>4, <1>6, <1>7 DEF HandlerStep, Untouched, stored
<1>9. OwedIsThere' /\ emission' \in Emissions
  <2>1. PICK fewer \in SUBSET Clients : fewer = {c}
    OBVIOUS
  <2>2. \A d \in Clients \ fewer : Untouched(d)
    BY <1>8, <2>1
  <2>3. emission' = [emission EXCEPT !.owed = @ \ fewer]
    BY <1>1, <2>1
  <2> QED BY <1>1, <2>2, <2>3, OwedMinus
<1>10. ServerTypeOK'
  BY <1>1, <1>4, <1>6, <1>7, <1>9
     DEF HandlerStep, ServerInv, ServerTypeOK, place, stored, Emissions
<1>11. ClientInv(c)'
  <2>1. Shaped(c)'
    BY <1>1, <1>3, <1>4, <1>5 DEF ClientInv, Shaped, CloseTask, place
  <2>2. NotYetThere(c)' /\ Present(c)' /\ Recorded(c)'
    BY <1>1, <1>3, <1>4, <1>5, <1>6 DEF NotYetThere, Present, Recorded, At
  <2>3. Gone(c)'
    <3>1. Idle(c) => task[c]["open"] = NoTask /\ \A m \in Messages : task[c][m] = NoTask
      BY <1>1 DEF Idle, SlotsDiffer
    <3> QED BY <1>3, <1>4, <1>5, <1>6, <1>7, <3>1 DEF Gone, At
  <2>4. ASSUME NEW r \in Rooms PROVE Membership(c, r)' /\ Tracked(c, r)'
    <3>1. Membership(c, r)'
      BY <1>6 DEF Membership
    <3>2. TrackedInMemory(c, r) => TrackedInMemory(c, r)'
      BY <1>1, <1>7 DEF TrackedInMemory, stored, place
    <3>3. TrackedInRedis(c, r) => TrackedInRedis(c, r)'
      <4>1. Idle(c) => \A m \in Messages : ~Tracks(c, m, r)
        BY <1>1, NoTaskIsTask DEF Idle, Tracks, SlotsDiffer
      <4> QED BY <1>1, <1>3, <1>4, <1>6, <1>7, <4>1 DEF TrackedInRedis, stored
    <3>4. Tracked(c, r)
      BY <1>1 DEF ClientInv
    <3> QED BY <1>1, <3>1, <3>2, <3>3, <3>4 DEF Tracked, place
  <2> QED BY <2>1, <2>2, <2>3, <2>4 DEF ClientInv
<1> QED BY <1>1, <1>8, <1>9, <1>10, <1>11, CrossedStays, OneClientMoves

-----------------------------------------------------------------------------
(* Emissions.                                                               *)

LEMMA NoEmissionIs ==
  /\ NoEmission \in Emissions /\ NoEmission.kind = "none"
  /\ NoEmission.owed = {} /\ NoEmission.once = {} /\ NoEmission.twice = {}
BY DEF NoEmission, Emissions

\* A step of an emission: nothing else changes.
LEMMA EmissionMoves ==
  ASSUME ServerInv, emission' \in Emissions, OwedIsThere', extras' \in 0..MaxExtras,
         UNCHANGED <<place, stored, local, task, stopping, Unkept>>
  PROVE  ServerInv'
<1>1. \A d \in Clients : Untouched(d)
  BY DEF Untouched, stored, local, Unkept
<1>2. \A d \in Clients : ClientInv(d)'
  BY <1>1, UntouchedKeeps DEF ServerInv, Unkept
<1>3. OneProcess'
  BY DEF ServerInv, OneProcess, place, Unkept
<1>4. ServerTypeOK'
  BY DEF ServerInv, ServerTypeOK, Emissions, place, stored, local, Unkept
<1> QED BY <1>2, <1>3, <1>4 DEF ServerInv

LEMMA Delivers ==
  ASSUME NEW e \in Emissions, NEW to \in SUBSET Clients
  PROVE  /\ Deliver(e, to) \in Emissions
         /\ Deliver(e, to).kind = e.kind /\ Deliver(e, to).room = e.room
         /\ Deliver(e, to).inbox = e.inbox /\ Deliver(e, to).owed = e.owed
         /\ Deliver(e, to).once = e.once \cup to
         /\ Deliver(e, to).twice = e.twice \cup (e.once \cap to)
<1>1. PICK after : after = Deliver(e, to)
  OBVIOUS
<1>2. after = [e EXCEPT !.once = @ \cup to, !.twice = @ \cup (e.once \cap to)]
  BY <1>1 DEF Deliver
<1>3. /\ after \in Emissions /\ after.kind = e.kind /\ after.room = e.room
      /\ after.inbox = e.inbox /\ after.owed = e.owed
      /\ after.once = e.once \cup to /\ after.twice = e.twice \cup (e.once \cap to)
  BY <1>2 DEF Emissions
<1> QED BY <1>1, <1>3

\* The processes that an emission is still to get to are the others that go on, those of
\* whose clients are owed it among them.
LEMMA InboxIs ==
  ASSUME ServerInv, NEW p \in Processes, p \notin stopped,
         NEW defined \in BOOLEAN, NEW ready \in SUBSET Processes
  PROVE  /\ Inbox(p, defined, ready) \in SUBSET Processes /\ p \notin Inbox(p, defined, ready)
         /\ \A c \in Clients : home[c] \notin stopped /\ home[c] \in Owing(p, defined, ready)
              => home[c] = p \/ home[c] \in Inbox(p, defined, ready)
<1>1. \A c \in Clients : home[c] \in Processes
  BY DEF ServerInv, ServerTypeOK
<1>2. CASE storage = "redis"
  BY <1>1, <1>2 DEF Inbox, Audience, Owing
<1>3. CASE storage = "memory"
  <2>1. \A q \in Processes \ stopped : q = p
    BY <1>3 DEF ServerInv, OneProcess
  <2> QED BY <1>1, <1>3, <2>1 DEF Inbox
<1> QED BY <1>2, <1>3 DEF ServerInv, ServerTypeOK

LEMMA StepEmitToRoom ==
  ASSUME ServerInv, NEW p \in Processes, NEW r \in Rooms, NEW defined \in BOOLEAN,
         NEW ready \in SUBSET Processes, EmitToRoom(p, r, defined, ready)
  PROVE  ServerInv'
<1>1. /\ p \notin stopped /\ emission = NoEmission
      /\ UNCHANGED <<place, stored, local, task, stopping, Unkept>>
  BY DEF EmitToRoom
<1>2. extras' \in 0..MaxExtras
  BY BoundsAssumption DEF EmitToRoom, Extra, ServerInv, ServerTypeOK
<1>3. PICK owed \in SUBSET Clients :
        owed = {c \in Clients : SettledIn(c, r) /\ home[c] \in Owing(p, defined, ready)}
  OBVIOUS
<1>4. PICK e : e = [NoEmission EXCEPT !.kind = "room", !.room = r,
                                      !.inbox = Inbox(p, defined, ready) \cup {p}, !.owed = owed]
  OBVIOUS
<1>5. Inbox(p, defined, ready) \cup {p} \in SUBSET Processes
  BY <1>1, InboxIs
<1>6. /\ e \in Emissions /\ e.kind = "room" /\ e.room = r /\ e.owed = owed
      /\ e.inbox = Inbox(p, defined, ready) \cup {p} /\ e.once = {} /\ e.twice = {}
  BY <1>4, <1>5, NoEmissionIs DEF Emissions
<1>7. emission' = e
  BY <1>3, <1>4 DEF EmitToRoom
<1>8. ASSUME NEW c \in owed
      PROVE  /\ home[c] \in e.inbox /\ socket[c] = "open" /\ c \in sockets
             /\ c \in members[r] /\ \A m \in Messages : task[c][m].op # "leave"
  <2>1. /\ c \in Clients /\ SettledIn(c, r) /\ home[c] \in Owing(p, defined, ready)
        /\ SlotsDiffer
    BY <1>3, SlotsAre
  <2>2. task[c]["open"] = NoTask /\ \A m \in Messages : task[c][m] = NoTask
    BY <2>1 DEF SettledIn, Idle, SlotsDiffer
  <2>3. socket[c] = "open" /\ home[c] \notin stopped /\ c \in members[r]
    BY <2>1 DEF SettledIn, Stays
  <2>4. c \in sockets
    BY <2>1, <2>2, <2>3 DEF ServerInv, ClientInv, Present
  <2>5. home[c] \in e.inbox
    BY <1>1, <1>6, <2>1, <2>3, InboxIs
  <2> QED BY <2>2, <2>3, <2>4, <2>5, NoTaskIsTask
<1>9. OwedIsThere'
  BY <1>1, <1>6, <1>7, <1>8 DEF OwedIsThere, place, stored, local
<1> QED BY <1>1, <1>2, <1>6, <1>7, <1>9, EmissionMoves

LEMMA StepBroadcast ==
  ASSUME ServerInv, NEW p \in Processes, NEW defined \in BOOLEAN,
         NEW ready \in SUBSET Processes, Broadcast(p, defined, ready)
  PROVE  ServerInv'
<1>1. /\ p \notin stopped /\ emission = NoEmission
      /\ UNCHANGED <<place, stored, local, task, stopping, Unkept>>
  BY DEF Broadcast
<1>2. extras' \in 0..MaxExtras
  BY BoundsAssumption DEF Broadcast, Extra, ServerInv, ServerTypeOK
<1>3. sockets \subseteq Clients
  BY DEF ServerInv, ServerTypeOK
<1>4. PICK owed \in SUBSET Clients : 
        owed = {c \in sockets : Stays(c) /\ home[c] \in Owing(p, defined, ready)}
  BY <1>3
<1>5. PICK e : e = [NoEmission EXCEPT !.kind = "all", !.inbox = Inbox(p, defined, ready),
                                      !.owed = owed]
  OBVIOUS
<1>6. Inbox(p, defined, ready) \in SUBSET Processes /\ p \notin Inbox(p, defined, ready)
  BY <1>1, InboxIs
<1>7. /\ e \in Emissions /\ e.kind = "all" /\ e.owed = owed
      /\ e.inbox = Inbox(p, defined, ready) /\ e.once = {} /\ e.twice = {}
  BY <1>5, <1>6, NoEmissionIs DEF Emissions
<1>8. emission' = Deliver(e, Here(p)) /\ Here(p) \in SUBSET Clients
  BY <1>3, <1>4, <1>5 DEF Broadcast, Here
<1>9. /\ emission' \in Emissions /\ emission'.kind = "all" /\ emission'.owed = owed
      /\ emission'.inbox = Inbox(p, defined, ready) /\ emission'.once = Here(p) /\ emission'.twice = {}
  <2>1. /\ Deliver(e, Here(p)) \in Emissions
        /\ Deliver(e, Here(p)).kind = e.kind /\ Deliver(e, Here(p)).room = e.room
        /\ Deliver(e, Here(p)).inbox = e.inbox /\ Deliver(e, Here(p)).owed = e.owed
        /\ Deliver(e, Here(p)).once = e.once \cup Here(p)
        /\ Deliver(e, Here(p)).twice = e.twice \cup (e.once \cap Here(p))
    BY <1>7, <1>8, Delivers, Zenon
  <2> QED BY <1>7, <1>8, <2>1
<1>10. ASSUME NEW c \in owed
       PROVE  /\ c \in Here(p) \/ home[c] \in Inbox(p, defined, ready)
              /\ socket[c] = "open" /\ c \in sockets
  BY <1>1, <1>4, <1>10, InboxIs DEF Stays, Here
<1>11. OwedIsThere'
  BY <1>1, <1>6, <1>9, <1>10 DEF OwedIsThere, Here, place, local
<1> QED BY <1>1, <1>2, <1>9, <1>11, EmissionMoves

\* A message gets to one more process, and there to some clients: those it is owed to.
LEMMA GetsTo ==
  ASSUME ServerInv, NEW p \in Processes, NEW to \in SUBSET Clients, p \in emission.inbox,
         emission' = Deliver([emission EXCEPT !.inbox = @ \ {p}], to),
         \A c \in to : home[c] = p,
         \A c \in emission.owed : home[c] = p => c \in to \/ c \in emission.once,
         UNCHANGED <<place, stored, local, task, stopping, extras, Unkept>>
  PROVE  ServerInv'
<1>1. emission \in Emissions /\ OwedIsThere /\ extras \in 0..MaxExtras
  BY DEF ServerInv, ServerTypeOK, Emissions
<1>2. PICK e : e = [emission EXCEPT !.inbox = @ \ {p}]
  OBVIOUS
<1>3. /\ e \in Emissions /\ e.kind = emission.kind /\ e.room = emission.room
      /\ e.inbox = emission.inbox \ {p} /\ e.owed = emission.owed
      /\ e.once = emission.once /\ e.twice = emission.twice
  BY <1>1, <1>2 DEF Emissions
<1>4. /\ emission' \in Emissions
      /\ emission'.kind = emission.kind /\ emission'.room = emission.room
      /\ emission'.inbox = emission.inbox \ {p} /\ emission'.owed = emission.owed
      /\ emission'.once = emission.once \cup to
      /\ emission'.twice = emission.twice \cup (emission.once \cap to)
  <2>1. emission' = Deliver(e, to)
    BY <1>2
  <2>2. /\ Deliver(e, to) \in Emissions
        /\ Deliver(e, to).kind = e.kind /\ Deliver(e, to).room = e.room
        /\ Deliver(e, to).inbox = e.inbox /\ Deliver(e, to).owed = e.owed
        /\ Deliver(e, to).once = e.once \cup to
        /\ Deliver(e, to).twice = e.twice \cup (e.once \cap to)
    BY <1>3, Delivers, Zenon
  <2> QED BY <1>3, <2>1, <2>2
<1>5. emission.once \cap to = {} /\ emission.twice = {}
  BY <1>1 DEF OwedIsThere
<1>6. emission.kind # "none"
  BY <1>1 DEF OwedIsThere, NoEmission
<1>7. \A c \in emission'.once : home[c] \notin emission'.inbox
  BY <1>1, <1>4 DEF OwedIsThere
<1>8. \A c \in emission'.owed : c \in emission'.once \/ home[c] \in emission'.inbox
  BY <1>1, <1>4 DEF OwedIsThere
<1>9. OwedIsThere'
  BY <1>1, <1>4, <1>5, <1>6, <1>7, <1>8 DEF OwedIsThere, place, stored, local
<1> QED BY <1>1, <1>4, <1>9, EmissionMoves

LEMMA StepReceive ==
  ASSUME ServerInv, NEW p \in Processes, Receive(p)
  PROVE  ServerInv'
<1>1. PICK to \in SUBSET Clients : to = Here(p)
  BY DEF ServerInv, ServerTypeOK, Here
<1>2. emission' = Deliver([emission EXCEPT !.inbox = @ \ {p}], to)
  BY <1>1 DEF Receive
<1>3. \A c \in to : home[c] = p
  BY <1>1 DEF Here
<1>4. \A c \in emission.owed : home[c] = p => c \in to
  BY <1>1 DEF ServerInv, OwedIsThere, Here
<1> QED BY <1>2, <1>3, <1>4, GetsTo DEF Receive

LEMMA StepReads ==
  ASSUME ServerInv, NEW p \in Processes, Reads(p)
  PROVE  ServerInv'
<1>1. PICK to \in SUBSET Clients : to = Here(p) \cap members[emission.room]
  BY DEF ServerInv, ServerTypeOK, Here
<1>2. emission' = Deliver([emission EXCEPT !.inbox = @ \ {p}], to)
  BY <1>1 DEF Reads
<1>3. \A c \in to : home[c] = p
  BY <1>1 DEF Here
<1>4. \A c \in emission.owed : home[c] = p => c \in to
  BY <1>1 DEF ServerInv, OwedIsThere, Here, Reads
<1> QED BY <1>2, <1>3, <1>4, GetsTo DEF Reads

LEMMA StepEmissionEnds ==
  ASSUME ServerInv, EmissionEnds
  PROVE  ServerInv'
<1>1. /\ emission' = NoEmission
      /\ UNCHANGED <<place, stored, local, task, stopping, extras, Unkept>>
  BY DEF EmissionEnds
<1>2. extras' \in 0..MaxExtras
  BY <1>1 DEF ServerInv, ServerTypeOK
<1>3. OwedIsThere'
  BY <1>1, NoEmissionIs DEF OwedIsThere
<1> QED BY <1>1, <1>2, <1>3, NoEmissionIs, EmissionMoves

-----------------------------------------------------------------------------
\* A process stops: nobody there is owed anything any more.
LEMMA StepCleanup ==
  ASSUME ServerInv, NEW p \in Processes, Cleanup(p)
  PROVE  ServerInv'
<1>1. /\ p \notin stopped /\ stopped' = stopped \cup {p}
      /\ pings' = {c \in pings : home[c] # p} /\ stopping' = Keys
      /\ UNCHANGED <<place, stored, socket, sockets, joined, task, requests, cut, crossed,
                     evicted, wiped>>
  BY DEF Cleanup
<1>2. extras' \in 0..MaxExtras
  BY BoundsAssumption DEF Cleanup, Extra, ServerInv, ServerTypeOK
<1>3. Keys \subseteq ({"client", "rooms"} \X Clients) \cup ({"room", "members"} \X Rooms)
  BY DEF Keys, ServerInv, ServerTypeOK
<1>4. OneProcess'
  BY <1>1 DEF ServerInv, ServerTypeOK, OneProcess, place
<1>5. PICK after : after = [emission EXCEPT !.inbox = @ \ {p},
                                            !.owed = @ \ {c \in Clients : home[c] = p}]
  OBVIOUS
<1>6. emission \in Emissions /\ OwedIsThere
  BY DEF ServerInv, ServerTypeOK, Emissions
<1>7. /\ emission' = after /\ after \in Emissions
      /\ after.kind = emission.kind /\ after.room = emission.room
      /\ after.inbox = emission.inbox \ {p}
      /\ after.owed = emission.owed \ {c \in Clients : home[c] = p}
      /\ after.once = emission.once /\ after.twice = emission.twice
  BY <1>5, <1>6 DEF Emissions, Cleanup
<1>8. emission.kind = "none" => after = NoEmission
  <2> SUFFICES ASSUME emission.kind = "none" PROVE after = NoEmission
    OBVIOUS
  <2>1. emission = NoEmission
    BY <1>6 DEF OwedIsThere
  <2>2. /\ NoEmission.inbox \ {p} = {}
        /\ NoEmission.owed \ {c \in Clients : home[c] = p} = {}
    BY DEF NoEmission
  <2>3. after = [NoEmission EXCEPT !.inbox = {}, !.owed = {}]
    BY <1>5, <2>1, <2>2
  <2> QED BY <2>3 DEF NoEmission
<1>9. OwedIsThere'
  <2>1. ASSUME NEW c \in after.owed
        PROVE  /\ c \in after.once \/ home[c] \in after.inbox
               /\ socket[c] = "open" /\ c \in sockets
               /\ after.kind = "room" =>
                    c \in members[after.room] /\ \A m \in Messages : task[c][m].op # "leave"
    <3>1. c \in emission.owed /\ c \in Clients /\ home[c] # p
      BY <1>6, <1>7, <2>1 DEF Emissions
    <3> QED BY <1>6, <1>7, <3>1 DEF OwedIsThere
  <2> QED BY <1>1, <1>6, <1>7, <1>8, <2>1 DEF OwedIsThere, place, stored
<1>10. ASSUME NEW d \in Clients PROVE ClientInv(d)'
  <2>1. ClientInv(d) /\ pings' \subseteq pings
    BY <1>1 DEF ServerInv
  <2>2. Shaped(d)' /\ Recorded(d)'
    BY <1>1, <2>1 DEF ClientInv, Shaped, Recorded, At, place, stored
  <2>3. NotYetThere(d)' /\ Present(d)' /\ Gone(d)'
    BY <1>1, <2>1 DEF ClientInv, NotYetThere, Present, Gone, Idle, At, stored
  <2>4. \A r \in Rooms : Membership(d, r)'
    BY <1>1, <2>1 DEF ClientInv, Membership, Agrees, Joins, Leaves, JoinsBy, LeavesBy, Decided, stored
  <2>5. \A r \in Rooms : Tracked(d, r)'
    BY <1>1, <2>1
       DEF ClientInv, Tracked, TrackedInRedis, TrackedInMemory, Tracks, At, place, stored
  <2> QED BY <2>2, <2>3, <2>4, <2>5 DEF ClientInv
<1>11. ServerTypeOK'
  BY <1>1, <1>2, <1>3, <1>7 DEF ServerInv, ServerTypeOK, Emissions, place, stored
<1> QED BY <1>4, <1>9, <1>10, <1>11 DEF ServerInv

\* In memory the clients of the initial state are all of one process.
LEMMA InitOneProcess == ServerInit => OneProcess
<1> SUFFICES ASSUME ServerInit, storage = "memory" PROVE OneProcess
  BY DEF OneProcess
<1>1. PICK T \in SUBSET Processes : T = {home[c] : c \in Clients}
  BY DEF ServerInit
<1>2. home \in Surjection(Clients, T)
  BY <1>1 DEF ServerInit, Surjection
<1>3. IsFiniteSet(T)
  BY <1>2, ClientsAssumption, FS_Surjection
<1>4. Cardinality(T) = 1 /\ stopped = Processes \ T /\ stopping = {} /\ evicted = {} /\ crossed = {}
  BY <1>1 DEF ServerInit
<1>5. PICK x : T = {x}
  BY <1>3, <1>4, FS_Singleton
<1> QED BY <1>1, <1>4, <1>5 DEF OneProcess

LEMMA InitServerInv == ServerInit => ServerInv
<1> SUFFICES ASSUME ServerInit PROVE ServerInv
  OBVIOUS
<1>1. OwedIsThere
  BY NoEmissionIs DEF ServerInit, OwedIsThere
<1>2. ServerTypeOK
  BY BoundsAssumption, NoTaskIsTask, NoEmissionIs
     DEF ServerInit, ServerTypeOK, Emissions
<1>3. ASSUME NEW c \in Clients PROVE ClientInv(c)
  <2>1. \A s \in Slots : task[c][s] = NoTask
    BY DEF ServerInit
  <2>2. /\ task[c]["open"] = NoTask /\ task[c]["close"] = NoTask
        /\ \A m \in Messages : task[c][m] = NoTask
        /\ socket[c] = "none" /\ joined[c] = {} /\ sockets = {} /\ pings = {}
        /\ \A r \in Rooms : c \notin members[r]
    BY <2>1, SlotsAre DEF ServerInit, SlotsDiffer
  <2>3. Shaped(c) /\ NotYetThere(c) /\ Present(c) /\ Gone(c) /\ Recorded(c)
    BY <2>1, <2>2, NoTaskIsTask
       DEF Shaped, OpenTask, MessageTask, CloseTask, NotYetThere, Idle, Present, Gone,
           Recorded, At
  <2>4. \A r \in Rooms : Membership(c, r) /\ Tracked(c, r)
    BY <2>2 DEF Membership, Tracked, TrackedInRedis, TrackedInMemory
  <2> QED BY <2>3, <2>4 DEF ClientInv
<1> QED BY <1>1, <1>2, <1>3, InitOneProcess DEF ServerInv

LEMMA StutterServerInv == ASSUME ServerInv, UNCHANGED serverVars PROVE ServerInv'
<1>1. UNCHANGED <<place, stored, local, task, stopping, extras, Unkept>> /\ emission' = emission
  BY DEF serverVars, emitted, Unkept
<1>2. OwedIsThere' /\ emission' \in Emissions /\ extras' \in 0..MaxExtras
  BY <1>1 DEF ServerInv, ServerTypeOK, OwedIsThere, Emissions, place, stored, local
<1> QED BY <1>1, <1>2, EmissionMoves

LEMMA StepServerInv == ServerInv /\ [ServerNext]_serverVars => ServerInv'
<1> SUFFICES ASSUME ServerInv, [ServerNext]_serverVars PROVE ServerInv'
  OBVIOUS
<1>1. CASE Opening
  BY <1>1, StepUpgrade, StepAddClient, StepRegisters DEF Opening
<1>2. CASE Requesting
  BY <1>2, StepRequest, StepMemoryJoins, StepMemoryLeaves, StepFinish DEF Requesting
<1>3. CASE Commands
  <2> SUFFICES ASSUME NEW c \in Clients, NEW s \in Slots,
                      \/ GetRoom(c, s) \/ SetRoom(c, s) \/ AddMember(c, s) \/ AddRoom(c, s)
                      \/ GetClient(c, s) \/ GetAgain(c, s) \/ SetClient(c, s)
                      \/ RemoveMember(c, s) \/ RemoveRoom(c, s)
                      \/ Count(c, s) \/ DeleteRoom(c, s) \/ DeleteMembers(c, s)
               PROVE  ServerInv'
    BY <1>3 DEF Commands
  <2> QED BY QuietCommands, StepAddMember, StepAddRoom, StepRemoveMember, StepRemoveRoom,
             StepDeleteMembers
<1>4. CASE Closing
  BY <1>4, StepClose, StepUnregister, StepMemoryRemovesClient, StepListRooms, StepNextRoom,
     StepDeleteClient DEF Closing
<1>5. CASE Emitting
  BY <1>5, StepBroadcast, StepReceive, StepReads, StepEmitToRoom, StepEmissionEnds DEF Emitting
<1>6. CASE Stopping
  BY <1>6, StepCleanup, StepClear DEF Stopping
<1>7. CASE UNCHANGED serverVars
  BY <1>7, StutterServerInv
<1> QED BY <1>1, <1>2, <1>3, <1>4, <1>5, <1>6, <1>7 DEF ServerNext

\* The induction over the behaviours of the server: every state of it satisfies the
\* inductive invariant, whatever the clients, the rooms and the processes.
THEOREM ServerInvariance == ServerSpec => []ServerInv
<1> QED BY InitServerInv, StepServerInv, PTL DEF ServerSpec

\* Every variable of the WebSocket server keeps its type: a handler is at one of the
\* commands that its kind sends, and a stopping process deletes keys of known rooms
\* and clients only.
THEOREM ServerTypes == ServerSpec => []ServerTypeOK
<1>1. ServerInv => ServerTypeOK
  BY DEF ServerInv
<1> QED BY <1>1, ServerInvariance, PTL

\* A client whose handlers are done has been told of the rooms that it is a member of,
\* unless somebody else took a membership away or a join and a leave of its own for the
\* room crossed, and in memory without exception: addClientToRoom() and
\* removeClientFromRoom() against each other, the close and the cleanup.
THEOREM MembersAreToldSo == ServerSpec => []JoinedIsMember
<1>1. ServerInv => JoinedIsMember
  <2> SUFFICES ASSUME ServerInv, NEW c \in Clients, NEW r \in Rooms,
                      socket[c] = "open", Idle(c), home[c] \notin stopped
               PROVE  \/ r \in joined[c] <=> c \in members[r]
                      \/ <<c, r>> \in evicted \cup crossed /\ storage = "redis"
    BY DEF JoinedIsMember
  <2>1. ~Joins(c, r) /\ ~Leaves(c, r)
    BY NoTaskIsTask, SlotsAre DEF Idle, SlotsDiffer, Joins, Leaves, JoinsBy, LeavesBy
  <2>2. Agrees(c, r) \/ <<c, r>> \in crossed
    BY <2>1 DEF ServerInv, ClientInv, Membership
  <2>3. storage = "memory" => evicted = {} /\ crossed = {}
    BY DEF ServerInv, ServerTypeOK, OneProcess
  <2>4. storage \in {"memory", "redis"}
    BY DEF ServerInv, ServerTypeOK
  <2> QED BY <2>2, <2>3, <2>4 DEF Agrees
<1> QED BY <1>1, ServerInvariance, PTL

\* A client whose close has been handled is gone from its process and from the storage:
\* removeClientFromAllRooms() finds every room of it, unless a handler of it was under
\* way, a stopping process deleted the set of its rooms, or a join and a leave of its
\* own for the room crossed.
THEOREM NothingIsLeft == ServerSpec => []CloseLeavesNothing
<1>1. ServerInv => CloseLeavesNothing
  <2> SUFFICES ASSUME ServerInv, NEW c \in Clients,
                      socket[c] = "closed", Idle(c), c \notin cut, home[c] \notin stopped
               PROVE  /\ c \notin sockets \cup pings
                      /\ record[c] = NoRecord
                      /\ c \notin wiped =>
                           \A r \in Rooms : c \notin members[r] \/ <<c, r>> \in crossed
    BY DEF CloseLeavesNothing
  <2>1. task[c]["close"] = NoTask /\ ClientInv(c) /\ storage \in {"memory", "redis"}
    BY SlotsAre DEF Idle, SlotsDiffer, ServerInv, ServerTypeOK
  <2>2. record[c] = NoRecord
    BY <2>1 DEF ClientInv, Recorded
  <2>3. c \notin sockets \cup pings
    BY <2>1, NoTaskIsTask DEF ClientInv, Gone, At
  <2>4. \A r \in Rooms : Tracked(c, r)
    BY <2>1 DEF ClientInv
  <2>5. c \notin wiped => \A r \in Rooms : c \notin members[r] \/ <<c, r>> \in crossed
    BY <2>1, <2>2, <2>4, NoTaskIsTask DEF Tracked, TrackedInRedis, TrackedInMemory, At
  <2> QED BY <2>2, <2>3, <2>5
<1> QED BY <1>1, ServerInvariance, PTL

\* An emission reaches everybody that it is owed to once it is over, and nobody twice,
\* whichever processes have subscribed and relay it: emitToRoom() and broadcast(), of a
\* message that may be undefined, with their publication, while clients join, leave and
\* close and processes stop.
THEOREM NobodyIsMissedOrToldTwice == ServerSpec => []EmittedOnce
<1>1. ServerInv => EmittedOnce
  BY DEF ServerInv, OwedIsThere, EmittedOnce, Quiet
<1> QED BY <1>1, ServerInvariance, PTL
=============================================================================
