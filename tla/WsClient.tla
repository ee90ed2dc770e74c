------------------------------- MODULE WsClient -------------------------------
(***************************************************************************)
(* WsClientImpl of packages/core/src/websocket/ws-client.ts: the connection *)
(* state machine of the WebSocket client, its automatic reconnection and    *)
(* the requests that wait for an acknowledgement.                           *)
(*                                                                          *)
(* Every connect() makes a new socket and installs handlers that refer to   *)
(* the CLIENT, not to the socket: an event of an old socket acts on the     *)
(* client as an event of the current one does.  Sockets are the numbers     *)
(* 1..MaxSockets in order of creation.                                      *)
(*                                                                          *)
(* emitClientEvent() runs the application's listeners in the middle of these *)
(* handlers, and a listener may call connect(), disconnect() or emit().  So  *)
(* a handler is cut where it emits an event with work still to do, or where  *)
(* it leaves that work to a microtask: `handler` says what is left, and until *)
(* it is done no timer and no other socket has its turn.                    *)
(* options.reconnect is on, its default, and the URL is valid; pings change *)
(* nothing here and are left out.                                           *)
(***************************************************************************)
EXTENDS Integers, FiniteSets

CONSTANTS Requests,     \* calls of emit(), each made at most once
          MaxAttempts,  \* options.maxReconnectAttempts
          MaxSockets    \* bound: sockets ever created

ASSUME MaxAttemptsAssumption == MaxAttempts \in Nat \ {0}
ASSUME MaxSocketsAssumption == MaxSockets \in Nat

Socket == 1..MaxSockets
NoSocket == 0

VARIABLES
  protocol,   \* options.protocol (fixed)
  state,      \* the client's WsConnectionState
  ws,         \* the current socket, NoSocket for null
  created,    \* how many sockets exist
  sock,       \* each socket: opening, open, closing, closed, or aborting (closed
              \* by the client before it was open)
  owner,      \* who called connect(): the application or a reconnect timer
  attempts,   \* reconnectAttempts
  handler,    \* what the handler that is running has yet to do (at), and the socket
              \* that has failed and is still to be reported closed (of)
  handle,     \* reconnectTimer refers to an armed timer
  strays,     \* armed reconnect timers that reconnectTimer no longer refers to
  request,    \* each emit(): unused, waiting (in pendingRequests, its timeout armed),
              \* cleared (only its timeout is left), or settled
  \* history
  off,        \* the application has called disconnect() and not connect() since:
              \* no; late, from a listener of a handler that goes on to arm a
              \* timer all the same; or yes
  gaveUp,     \* 'reconnect_failed' was emitted since the last connect()
  fresh       \* connect() was only called with no socket, and no timer, left over

link == <<state, ws, created, sock, owner>>
retry == <<attempts, handle, strays>>
clientHistory == <<off, gaveUp, fresh>>
clientVars == <<protocol, link, handler, retry, request, clientHistory>>

States == {"DISCONNECTED", "CONNECTING", "CONNECTED", "RECONNECTING"}

\* Where a handler may be: onerror has emitted 'error'; the catch of a reconnect
\* timer, whose connect() was rejected, is to come; scheduleReconnect() has emitted
\* 'reconnect_attempt'; onclose is to come; handleClose() has emitted 'disconnect'.
Stages == {"none", "error", "rejected", "attempt", "closing", "disconnect"}
Rearming == {"rejected", "attempt", "disconnect"}
NoHandler == [at |-> "none", of |-> NoSocket]
Returned == handler = NoHandler

\* What is left when no more than onclose of socket s, if any, is.
ThenClose(s) == IF s = NoSocket THEN NoHandler ELSE [at |-> "closing", of |-> s]

ClientInit ==
  /\ protocol \in {"native", "socketio"}
  /\ state = "DISCONNECTED"
  /\ ws = NoSocket
  /\ created = 0
  /\ sock = [s \in Socket |-> "unused"]
  /\ owner = [s \in Socket |-> "user"]
  /\ handler = NoHandler
  /\ attempts = 0 /\ handle = FALSE /\ strays = 0
  /\ request = [r \in Requests |-> "unused"]
  /\ off = "yes" /\ gaveUp = FALSE /\ fresh = TRUE

-----------------------------------------------------------------------------
\* connect() on a client that is not CONNECTED; what it was doing goes on.
OpenSocket(who) ==
  LET s == created + 1
  IN /\ created < MaxSockets
     /\ created' = s
     /\ state' = "CONNECTING"
     /\ ws' = s
     /\ sock' = [sock EXCEPT ![s] = "opening"]
     /\ owner' = [owner EXCEPT ![s] = who]

NothingUnderWay ==
  /\ state = "DISCONNECTED" /\ ~handle /\ strays = 0 /\ Returned
  /\ \A s \in Socket : sock[s] \in {"unused", "closed"}

\* The application calls connect(), from a listener or not.
Connect ==
  /\ state # "CONNECTED"
  /\ OpenSocket("user")
  /\ off' = "no"
  /\ gaveUp' = FALSE
  /\ fresh' = (fresh /\ NothingUnderWay)
  /\ UNCHANGED <<protocol, handler, retry, request>>

\* scheduleReconnect(), up to the listeners of 'reconnect_attempt'; s is the socket
\* whose onclose is to come after it, if any.
ScheduleReconnect(s) ==
  IF attempts >= MaxAttempts
  THEN /\ gaveUp' = TRUE
       /\ handler' = ThenClose(s)
       /\ UNCHANGED <<state, attempts>>
  ELSE /\ state' = "RECONNECTING"
       /\ attempts' = attempts + 1
       /\ handler' = [at |-> "attempt", of |-> s]
       /\ UNCHANGED gaveUp

\* The rest of scheduleReconnect(): the timer is armed, whatever the listeners did;
\* its handle replaces that of a timer that may still be armed.
AttemptHeard ==
  /\ handler.at = "attempt"
  /\ handler' = ThenClose(handler.of)
  /\ strays' = IF handle THEN strays + 1 ELSE strays
  /\ handle' = TRUE
  /\ UNCHANGED <<protocol, link, attempts, request, clientHistory>>

\* A reconnect timer fires, the current one or a stray one: connect(), which
\* does nothing when some other connection is already open.
ReconnectTimerFires ==
  /\ Returned
  /\ \/ handle /\ handle' = FALSE /\ UNCHANGED strays
     \/ strays > 0 /\ strays' = strays - 1 /\ UNCHANGED handle
  /\ IF state = "CONNECTED" THEN UNCHANGED link ELSE OpenSocket("timer")
  /\ UNCHANGED <<protocol, handler, attempts, request, clientHistory>>

-----------------------------------------------------------------------------
\* onopen; nothing is left to do when the listeners of 'connect' run.
SocketOpens(s) ==
  /\ Returned
  /\ sock[s] = "opening"
  /\ sock' = [sock EXCEPT ![s] = "open"]
  /\ state' = "CONNECTED"
  /\ attempts' = 0
  /\ UNCHANGED <<protocol, ws, created, owner, handler, handle, strays, request, clientHistory>>

\* handleClose(), up to the listeners of 'disconnect': every waiting request is
\* rejected; a client that was CONNECTED, through whichever socket, goes on.
HandleClose ==
  /\ ws' = NoSocket
  /\ request' = [r \in Requests |-> IF request[r] = "waiting" THEN "settled" ELSE request[r]]
  /\ state' = "DISCONNECTED"
  /\ handler' = IF state = "CONNECTED"
                THEN [at |-> "disconnect", of |-> NoSocket] ELSE NoHandler
  /\ UNCHANGED <<protocol, created, owner, retry, clientHistory>>

\* The rest of handleClose(): the reconnection is scheduled, whatever the listeners
\* did.
DisconnectHeard ==
  /\ handler.at = "disconnect"
  /\ ScheduleReconnect(handler.of)
  /\ UNCHANGED <<protocol, ws, created, sock, owner, handle, strays, request, off, fresh>>

\* A socket fails to open: onerror emits 'error' ...
SocketFails(s) ==
  /\ Returned
  /\ sock[s] \in {"opening", "aborting"}
  /\ sock' = [sock EXCEPT ![s] = "closed"]
  /\ handler' = [at |-> "error", of |-> s]
  /\ UNCHANGED <<protocol, state, ws, created, owner, retry, request, clientHistory>>

\* Mutant: the catch of the reconnect timer does nothing.
ErrorHeardOnly ==
  /\ handler.at = "error"
  /\ handler' = ThenClose(handler.of)
  /\ UNCHANGED <<protocol, link, retry, request, clientHistory>>

\* ... and rejects connect() only if the client is CONNECTING; it is the
\* application's connect() or that of a reconnect timer.
ErrorHeard ==
  /\ handler.at = "error"
  /\ handler' = IF state = "CONNECTING" /\ owner[handler.of] = "timer"
                THEN [handler EXCEPT !.at = "rejected"] ELSE ThenClose(handler.of)
  /\ UNCHANGED <<protocol, link, retry, request, clientHistory>>

\* The catch of the reconnect timer, in a microtask.
Rejected ==
  /\ handler.at = "rejected"
  /\ ScheduleReconnect(handler.of)
  /\ UNCHANGED <<protocol, ws, created, sock, owner, handle, strays, request, off, fresh>>

\* onclose of the socket that has failed.
FailedCloses ==
  /\ handler.at = "closing"
  /\ HandleClose
  /\ UNCHANGED sock

\* onclose of a socket that was open or that the client has closed.
SocketCloses(s) ==
  /\ Returned
  /\ sock[s] \in {"open", "closing", "aborting"}
  /\ sock' = [sock EXCEPT ![s] = "closed"]
  /\ HandleClose

\* A Socket.IO server sends the CLOSE packet: the socket itself stays open.
ClosePacket(s) ==
  /\ Returned
  /\ protocol = "socketio" /\ sock[s] = "open"
  /\ HandleClose
  /\ UNCHANGED sock

Closed(s) ==
  CASE sock[s] = "opening" -> "aborting"
    [] sock[s] = "open" -> "closing"
    [] OTHER -> sock[s]

\* Mutant: the reconnect timer is not cleared.
DisconnectKeepsTimer ==
  /\ ws' = NoSocket
  /\ sock' = IF ws = NoSocket THEN sock ELSE [sock EXCEPT ![ws] = Closed(ws)]
  /\ state' = "DISCONNECTED"
  /\ request' = [r \in Requests |-> IF request[r] = "waiting" THEN "cleared" ELSE request[r]]
  /\ off' = IF handler.at \in Rearming THEN "late" ELSE "yes"
  /\ UNCHANGED <<protocol, created, owner, handler, retry, gaveUp, fresh>>

\* Mutant: the timeouts of the requests are cleared as well.
DisconnectForgetsRequests ==
  /\ handle' = FALSE
  /\ ws' = NoSocket
  /\ sock' = IF ws = NoSocket THEN sock ELSE [sock EXCEPT ![ws] = Closed(ws)]
  /\ state' = "DISCONNECTED"
  /\ request' = [r \in Requests |-> IF request[r] = "waiting" THEN "forgotten" ELSE request[r]]
  /\ off' = IF handler.at \in Rearming THEN "late" ELSE "yes"
  /\ UNCHANGED <<protocol, created, owner, handler, attempts, strays, gaveUp, fresh>>

\* The application calls disconnect(), from a listener or not: only the current
\* socket is closed and only the current timer cleared; pendingRequests is emptied,
\* its timeouts stay armed.
Disconnect ==
  /\ handle' = FALSE
  /\ ws' = NoSocket
  /\ sock' = IF ws = NoSocket THEN sock ELSE [sock EXCEPT ![ws] = Closed(ws)]
  /\ state' = "DISCONNECTED"
  /\ request' = [r \in Requests |-> IF request[r] = "waiting" THEN "cleared" ELSE request[r]]
  /\ off' = IF handler.at \in Rearming THEN "late" ELSE "yes"
  /\ UNCHANGED <<protocol, created, owner, handler, attempts, strays, gaveUp, fresh>>

-----------------------------------------------------------------------------
\* emit(): without a socket, or not CONNECTED, it is rejected at once, and so it is
\* when the socket's own send() throws because it is still opening.
CanSend == ws # NoSocket /\ state = "CONNECTED" /\ sock[ws] # "opening"

Emit(r) ==
  /\ request[r] = "unused"
  /\ request' = [request EXCEPT ![r] =
       IF CanSend THEN "waiting" ELSE "settled"]
  /\ UNCHANGED <<protocol, link, handler, retry, clientHistory>>

\* An acknowledgement arrives, on any socket that is still open.
Ack(s, r) ==
  /\ Returned
  /\ sock[s] = "open" /\ request[r] = "waiting"
  /\ request' = [request EXCEPT ![r] = "settled"]
  /\ UNCHANGED <<protocol, link, handler, retry, clientHistory>>

\* The timeout of a request fires.
Timeout(r) ==
  /\ Returned
  /\ request[r] \in {"waiting", "cleared"}
  /\ request' = [request EXCEPT ![r] = "settled"]
  /\ UNCHANGED <<protocol, link, handler, retry, clientHistory>>

GoesOn == ErrorHeard \/ Rejected \/ AttemptHeard \/ FailedCloses \/ DisconnectHeard
SocketEvent(s) == SocketOpens(s) \/ SocketFails(s) \/ SocketCloses(s)

ClientNext ==
  \/ Connect
  \/ Disconnect
  \/ ReconnectTimerFires
  \/ ErrorHeard
  \/ Rejected
  \/ AttemptHeard
  \/ FailedCloses
  \/ DisconnectHeard
  \/ \E s \in Socket : SocketOpens(s)
  \/ \E s \in Socket : SocketFails(s)
  \/ \E s \in Socket : SocketCloses(s)
  \/ \E s \in Socket : ClosePacket(s)
  \/ \E r \in Requests : Emit(r)
  \/ \E s \in Socket, r \in Requests : Ack(s, r)
  \/ \E r \in Requests : Timeout(r)

\* Listeners return; a socket that is opening opens or fails, a closing one closes;
\* timers fire.
ClientFairness ==
  /\ WF_clientVars(GoesOn)
  /\ WF_clientVars(ReconnectTimerFires)
  /\ \A s \in Socket : WF_clientVars(sock[s] # "open" /\ SocketEvent(s))
  /\ \A r \in Requests : WF_clientVars(Timeout(r))

ClientSpec == ClientInit /\ [][ClientNext]_clientVars /\ ClientFairness

-----------------------------------------------------------------------------
\* Every variable holds a value of its type: reconnectAttempts in particular
\* never exceeds maxReconnectAttempts.
ClientTypeOK ==
  /\ protocol \in {"native", "socketio"}
  /\ state \in States
  /\ created \in 0..MaxSockets /\ ws \in 0..created
  /\ sock \in [Socket -> {"unused", "opening", "aborting", "open", "closing", "closed"}]
  /\ owner \in [Socket -> {"user", "timer"}]
  /\ handler \in [at : Stages, of : 0..MaxSockets]
  /\ attempts \in 0..MaxAttempts /\ handle \in BOOLEAN /\ strays \in Nat
  /\ request \in [Requests -> {"unused", "waiting", "cleared", "settled"}]
  /\ off \in {"no", "late", "yes"} /\ {gaveUp, fresh} \subseteq BOOLEAN

\* A request waits for its acknowledgement only while the client is CONNECTED:
\* no loss of the connection, of whichever socket, leaves one waiting.
WaitingOnlyConnected ==
  \A r \in Requests : request[r] = "waiting" => state = "CONNECTED"

\* A plain WebSocket client whose application never starts a second connection
\* over a first one: isConnected() means that there is a socket to send on.
Orderly == protocol = "native" /\ fresh

ConnectedHasSocket ==
  Orderly /\ state = "CONNECTED" => ws # NoSocket /\ sock[ws] = "open"

\* The same client stays off once the application has called disconnect(): no
\* timer, failed attempt or late event of a socket opens a connection.  The one
\* exception is a disconnect() that a listener of 'disconnect' or 'reconnect_attempt'
\* calls: the handler that called the listener goes on to arm a timer, and the client
\* connects again.
Unconnected == state # "CONNECTED" /\ \A s \in Socket : sock[s] \notin {"opening", "open"}

StaysOff == Orderly /\ off = "yes" => Unconnected

\* Every emit() settles: through an acknowledgement, a loss of the connection or
\* its timeout, also when disconnect() drops it from pendingRequests.
EmitSettles ==
  \A r \in Requests : (request[r] # "unused") ~> (request[r] = "settled")

\* The same client, when it has lost its connection, goes on trying until it is
\* CONNECTED again, has given up, or is told to disconnect.
Settled == state = "CONNECTED" \/ gaveUp \/ off # "no"
\* At the bound: a timer for which there is no socket left.
Stopped == created = MaxSockets /\ (handle \/ strays > 0)

ReconnectsOrGivesUp ==
  (Orderly /\ state = "RECONNECTING") ~> (Settled \/ Stopped \/ ~fresh)
=============================================================================
