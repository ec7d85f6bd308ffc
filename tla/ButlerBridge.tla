---------------------------- MODULE ButlerBridge ----------------------------
(***************************************************************************)
(* The butler backend between browsers and butler-server: requests that    *)
(* are proxied with the token of AuthManager, and terminals, WebSockets    *)
(* relayed to one that the backend opens with it. A relay has two sockets  *)
(* and registers its handlers only when it has a token; handlers look at   *)
(* readyState, so a close that comes too early finds nothing to close.     *)
(***************************************************************************)
EXTENDS AuthManager

CONSTANTS
  Request,        \* proxied requests that may be in flight together
  Relay,          \* WebSocket relays
  Travel,         \* the longest from getToken to the arrival of a request
  MaxRevocations  \* bound: how often butler-server forgets its sessions

ASSUME ButlerBridgeAssumption ==
  /\ Travel \in Nat /\ MaxRevocations \in Nat
  /\ Request \cap Relay = {}

Caller == Request \cup Relay

VARIABLES
  call,        \* getToken and what is done with the token, per caller
  answer,      \* how a request ended last
  client,      \* per relay: the socket of the browser
  server,      \* per relay: the socket to butler-server
  pinging,     \* per relay: is pingInterval set
  alive,       \* per relay: has the last ping been answered
  joined,      \* history: both sockets of the relay were open together
  revocations  \* so far (only to bound them)

relayVars == <<client, server, pinging, alive, joined>>
vars == <<authVars, call, answer, relayVars, revocations>>

Idle == [pc |-> "idle", token |-> None, left |-> 0]
CallType == [pc : {"idle", "login", "sent"}, token : Token \cup {None},
             left : 0 .. Lag + Travel]

----------------------------------------------------------------------------
(* getToken, for both kinds of callers.                                    *)

\* What is left of a token matters as far as the way it has to go.
OnItsWay(t) == [t EXCEPT !.left = IF @ > Travel THEN Travel + 1 ELSE @]

Send(c, t) ==
  call' = [call EXCEPT ![c] =
    [pc |-> "sent", token |-> OnItsWay(t), left |-> Travel]]

\* The token at hand, or a login of its own.
GetToken(c) ==
  /\ Started /\ call[c].pc = "idle"
  /\ IF HasToken THEN Send(c, token)
     ELSE call' = [call EXCEPT ![c].pc = "login", ![c].left = Lag]

LoggedIn(c) ==
  /\ call[c].pc = "login" /\ up
  /\ Login(timer)
  /\ Send(c, token')

LoginFails(c) ==
  /\ call[c].pc = "login" /\ ~up
  /\ call' = [call EXCEPT ![c] = Idle]

\* butler-server takes a token that is neither expired nor forgotten.
Valid(c) == call[c].token.left > 0 /\ call[c].token.good

----------------------------------------------------------------------------
(* Proxied requests.                                                       *)

ProxyRequest(q) ==
  /\ GetToken(q)
  /\ UNCHANGED <<authVars, answer, relayVars, revocations>>

ProxyAfterLogin(q) ==
  /\ LoggedIn(q)
  /\ UNCHANGED <<up, outages, answer, relayVars, revocations>>

\* 502, without a second try.
ProxyFails(q) ==
  /\ LoginFails(q)
  /\ answer' = [answer EXCEPT ![q] = "failed"]
  /\ UNCHANGED <<authVars, relayVars, revocations>>

\* butler-server's answer is passed on, a 401 too: the token is kept.
ProxyAnswer(q) ==
  /\ call[q].pc = "sent"
  /\ answer' = [answer EXCEPT ![q] =
       IF ~up THEN "failed" ELSE IF Valid(q) THEN "served" ELSE "refused"]
  /\ call' = [call EXCEPT ![q] = Idle]
  /\ UNCHANGED <<authVars, relayVars, revocations>>

----------------------------------------------------------------------------
(* WebSocket relays.                                                       *)

\* readyState OPEN: the backend does not know that a browser is gone.
ClientIsOpen(r) == client[r] \in {"open", "gone"}

\* clientWs.close(...)
CloseClient(r) ==
  client' = [client EXCEPT ![r] = IF ClientIsOpen(r) THEN "closing" ELSE @]

\* The browser connects and its relay asks for a token.
HandleWsRelay(r) ==
  /\ client[r] = "none"
  /\ client' = [client EXCEPT ![r] = "open"]
  /\ GetToken(r)
  /\ server' = [server EXCEPT ![r] = IF HasToken THEN "connecting" ELSE @]
  /\ UNCHANGED <<authVars, answer, pinging, alive, joined, revocations>>

RelayAfterLogin(r) ==
  /\ LoggedIn(r)
  /\ server' = [server EXCEPT ![r] = "connecting"]
  /\ UNCHANGED <<up, outages, answer, client, pinging, alive, joined, revocations>>

RelayFails(r) ==
  /\ LoginFails(r) /\ CloseClient(r)
  /\ UNCHANGED <<authVars, answer, server, pinging, alive, joined, revocations>>

\* The socket to butler-server opens, and the browser is pinged from now on.
ServerOpens(r) ==
  /\ call[r].pc = "sent" /\ up /\ Valid(r)
  /\ call' = [call EXCEPT ![r] = Idle]
  /\ server' = [server EXCEPT ![r] = "open"]
  /\ pinging' = [pinging EXCEPT ![r] = TRUE]
  /\ joined' = [joined EXCEPT ![r] = ClientIsOpen(r)]
  /\ UNCHANGED <<authVars, answer, client, alive, revocations>>

\* Its close and error handlers.
ServerClosed(r) ==
  /\ server' = [server EXCEPT ![r] = "closed"]
  /\ pinging' = [pinging EXCEPT ![r] = FALSE]
  /\ CloseClient(r)

ServerRefuses(r) ==
  /\ call[r].pc = "sent" /\ ~(up /\ Valid(r))
  /\ call' = [call EXCEPT ![r] = Idle]
  /\ ServerClosed(r)
  /\ UNCHANGED <<authVars, answer, alive, joined, revocations>>

\* butler-server ends the session, or the connection is lost.
ServerEnds(r) ==
  /\ server[r] = "open" /\ ServerClosed(r)
  /\ UNCHANGED <<authVars, call, answer, alive, joined, revocations>>

\* serverWs.close(...) is answered.
ServerCloses(r) ==
  /\ server[r] = "closing" /\ ServerClosed(r)
  /\ UNCHANGED <<authVars, call, answer, alive, joined, revocations>>

\* The close and error handlers of the browser's socket. Before they are
\* registered there is nothing to close either.
ClientClosed(r) ==
  /\ client' = [client EXCEPT ![r] = "closed"]
  /\ pinging' = [pinging EXCEPT ![r] = FALSE]
  /\ server' = [server EXCEPT ![r] = IF @ = "open" THEN "closing" ELSE @]

\* The user closes the terminal.
ClientEnds(r) ==
  /\ client[r] = "open" /\ ClientClosed(r)
  /\ UNCHANGED <<authVars, call, answer, alive, joined, revocations>>

\* clientWs.close(...) is answered, or times out.
ClientCloses(r) ==
  /\ client[r] = "closing" /\ ClientClosed(r)
  /\ UNCHANGED <<authVars, call, answer, alive, joined, revocations>>

\* The browser vanishes without a close.
ClientGone(r) ==
  /\ client[r] = "open"
  /\ client' = [client EXCEPT ![r] = "gone"]
  /\ UNCHANGED <<authVars, call, answer, server, pinging, alive, joined, revocations>>

\* Mutant of Ping: pings keep the connection alive, answers are not awaited.
PingOnly(r) ==
  /\ pinging[r] /\ ClientIsOpen(r) /\ alive[r]
  /\ alive' = [alive EXCEPT ![r] = FALSE]
  /\ UNCHANGED <<authVars, call, answer, client, server, pinging, joined, revocations>>

\* Every 20 seconds: a browser that has not answered the last ping is dropped.
Ping(r) ==
  /\ pinging[r] /\ ClientIsOpen(r)
  /\ \/ ~alive[r] /\ ClientClosed(r) /\ UNCHANGED alive
     \/ /\ alive[r] /\ alive' = [alive EXCEPT ![r] = FALSE]
        /\ UNCHANGED <<client, server, pinging>>
  /\ UNCHANGED <<authVars, call, answer, joined, revocations>>

Pong(r) ==
  /\ client[r] = "open" /\ ~alive[r]
  /\ alive' = [alive EXCEPT ![r] = TRUE]
  /\ UNCHANGED <<authVars, call, answer, client, server, pinging, joined, revocations>>

----------------------------------------------------------------------------

Forget(t) == IF t = None THEN None ELSE [t EXCEPT !.good = FALSE]

\* butler-server forgets its sessions: every token issued so far is refused.
Revoke ==
  /\ revocations < MaxRevocations
  /\ revocations' = revocations + 1
  /\ token' = Forget(token)
  /\ call' = [c \in Caller |-> [call[c] EXCEPT !.token = Forget(@)]]
  /\ UNCHANGED <<timer, refreshTimer, up, outages, answer, relayVars>>

\* A unit of time passes for every token, timer and message, none of which
\* is late.
Tick ==
  /\ \A c \in Caller : call[c].pc # "idle" => call[c].left > 0
  /\ AuthTick
  /\ call' = [c \in Caller |->
       [call[c] EXCEPT !.left = Less(@), !.token = Aged(@)]]
  /\ UNCHANGED <<answer, relayVars, revocations>>

Init ==
  /\ AuthInit
  /\ call = [c \in Caller |-> Idle]
  /\ answer = [q \in Request |-> "none"]
  /\ client = [r \in Relay |-> "none"]
  /\ server = [r \in Relay |-> "none"]
  /\ pinging = [r \in Relay |-> FALSE]
  /\ alive = [r \in Relay |-> TRUE]
  /\ joined = [r \in Relay |-> FALSE]
  /\ revocations = 0

OnTimer(t) ==
  TimerStep(t) /\ UNCHANGED <<call, answer, relayVars, revocations>>

Proxy(q) ==
  ProxyRequest(q) \/ ProxyAfterLogin(q) \/ ProxyFails(q) \/ ProxyAnswer(q)

\* What a relay does once a browser has connected, but for what either side
\* does of its own accord.
RelayStep(r) ==
  \/ RelayAfterLogin(r) \/ RelayFails(r) \/ ServerOpens(r) \/ ServerRefuses(r)
  \/ ServerCloses(r) \/ ClientCloses(r)

Next ==
  \/ \E t \in Timer : OnTimer(t)
  \/ (GoDown \/ ComeUp) /\ UNCHANGED <<call, answer, relayVars, revocations>>
  \/ \E q \in Request : Proxy(q)
  \/ \E r \in Relay : \/ HandleWsRelay(r) \/ RelayStep(r) \/ Ping(r) \/ Pong(r)
                      \/ ServerEnds(r) \/ ClientEnds(r) \/ ClientGone(r)
  \/ Revoke \/ Tick

\* Time passes, timers fire, logins and requests are answered, browsers ask
\* again and again, and a closed socket is closed.
Fairness ==
  /\ \A t \in Timer : WF_vars(OnTimer(t))
  /\ \A q \in Request : WF_vars(Proxy(q))
  /\ \A r \in Relay : WF_vars(RelayStep(r)) /\ WF_vars(Ping(r))
  /\ WF_vars(Tick)

Spec == Init /\ [][Next]_vars /\ Fairness

----------------------------------------------------------------------------
(* Properties.                                                             *)

\* Every variable keeps its type.
TypeOK ==
  /\ AuthTypeOK
  /\ call \in [Caller -> CallType]
  /\ answer \in [Request -> {"none", "failed", "served", "refused"}]
  /\ client \in [Relay -> {"none", "open", "gone", "closing", "closed"}]
  /\ server \in [Relay -> {"none", "connecting", "open", "closing", "closed"}]
  /\ pinging \in [Relay -> BOOLEAN]
  /\ alive \in [Relay -> BOOLEAN]
  /\ joined \in [Relay -> BOOLEAN]
  /\ revocations \in 0 .. MaxRevocations

\* Once butler-server stays up, requests come to be served and stay so:
\* after any outage, with refreshes given up or doubled meanwhile, after its
\* sessions were forgotten, and although a token ages between the check and
\* the arrival.
SessionComesBack ==
  <>[]up => <>[](\A q \in Request : answer[q] \in {"none", "served"})

\* A relay whose two sockets were open together ends as a whole: when either
\* side closes, or the browser vanishes, both sockets come to be closed and
\* the pings stop. (A browser that closes before butler-server has accepted
\* leaves the other socket open.)
RelayEndsTogether ==
  \A r \in Relay :
    joined[r] /\ (client[r] # "open" \/ server[r] # "open")
      ~> client[r] = "closed" /\ server[r] = "closed" /\ ~pinging[r]
=============================================================================
