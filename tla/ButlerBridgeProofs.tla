------------------------- MODULE ButlerBridgeProofs -------------------------
(***************************************************************************)
(* Theorems about ButlerBridge for any number of timers, requests and      *)
(* relays, and any durations that the assumptions allow.                   *)
(***************************************************************************)
EXTENDS ButlerBridge, TLAPS

----------------------------------------------------------------------------
(* Tokens and timers.                                                      *)

LEMMA DurationsAreNumbers ==
  /\ Lifetime \in Nat /\ Early \in Nat /\ Margin \in Nat /\ Soon \in Nat
  /\ Lag \in Nat /\ Lag < Lifetime /\ Soon <= Lifetime
  /\ MaxOutages \in Nat /\ Travel \in Nat /\ MaxRevocations \in Nat
BY AuthManagerAssumption, ButlerBridgeAssumption

LEMMA LessIsLess ==
  ASSUME NEW n \in Nat, NEW k \in 0 .. n
  PROVE  Less(k) \in 0 .. n
BY DEF Less

LEMMA OffType == Off \in TimerType
BY DurationsAreNumbers DEF Off, TimerType

\* Whichever timer is taken, it is set within the life of a token.
LEMMA SetTimerType ==
  ASSUME NEW timers \in [Timer -> TimerType], NEW t \in Timer,
         NEW kind \in {"refresh", "retry"}, NEW left \in 0 .. Lifetime,
         SetTimer(timers, t, kind, left)
  PROVE  timer' \in [Timer -> TimerType] /\ refreshTimer' \in Timer
<1>1. [pc |-> "set", kind |-> kind, left |-> left] \in TimerType
  BY DEF TimerType
<1> QED BY <1>1 DEF SetTimer

\* The answer to a login, however old the token is by then.
LEMMA LoginType ==
  ASSUME NEW timers \in [Timer -> TimerType], Login(timers)
  PROVE  /\ token' \in Token
         /\ timer' \in [Timer -> TimerType] /\ refreshTimer' \in Timer
<1>1. PICK age \in 0 .. Lag :
        /\ token' = [left |-> Lifetime - age, good |-> TRUE]
        /\ ScheduleRefresh(timers, Lifetime - age)
  BY DEF Login
<1>2. Lifetime - age \in 0 .. Lifetime /\ RefreshIn(Lifetime - age) \in 0 .. Lifetime
  BY DurationsAreNumbers DEF RefreshIn
<1>3. Cleared(timers) \in [Timer -> TimerType]
  BY OffType DEF Cleared
<1>4. PICK t \in Timer :
        SetTimer(Cleared(timers), t, "refresh", RefreshIn(Lifetime - age))
  BY <1>1 DEF ScheduleRefresh
<1>5. timer' \in [Timer -> TimerType] /\ refreshTimer' \in Timer
  BY <1>2, <1>3, <1>4, SetTimerType
<1> QED BY <1>1, <1>2, <1>5 DEF Token

LEMMA TimerStepType ==
  ASSUME AuthTypeOK, NEW t \in Timer, TimerStep(t)
  PROVE  AuthTypeOK'
<1>0. timer[t] \in TimerType
  BY DEF AuthTypeOK
<1>1. CASE Fire(t)
  <2>1. [timer[t] EXCEPT !.pc = "login", !.left = Lag] \in TimerType
    <3>1. Lag \in 0 .. Lifetime
      BY DurationsAreNumbers
    <3> QED BY <1>0, <3>1 DEF TimerType
  <2>2. timer' = [timer EXCEPT ![t] = [timer[t] EXCEPT !.pc = "login", !.left = Lag]]
    BY <1>1 DEF Fire, AuthTypeOK
  <2> QED BY <1>1, <2>1, <2>2 DEF Fire, AuthTypeOK
<1>2. CASE Refresh(t)
  <2>1. [timer EXCEPT ![t] = Off] \in [Timer -> TimerType]
    BY OffType DEF AuthTypeOK
  <2> QED BY <1>2, <2>1, LoginType DEF Refresh, AuthTypeOK
<1>3. CASE RetryRefresh(t)
  <2>1. Soon \in 0 .. Lifetime
    BY DurationsAreNumbers
  <2>2. timer' \in [Timer -> TimerType] /\ refreshTimer' \in Timer
    BY <1>3, <2>1, SetTimerType DEF RetryRefresh, AuthTypeOK
  <2> QED BY <1>3, <2>2 DEF RetryRefresh, AuthTypeOK
<1>4. CASE GiveUp(t)
  BY <1>4, OffType DEF GiveUp, AuthTypeOK
<1> QED BY <1>1, <1>2, <1>3, <1>4 DEF TimerStep

LEMMA AuthTickType ==
  ASSUME AuthTypeOK, AuthTick
  PROVE  AuthTypeOK'
<1>1. token' \in Token \cup {None}
  <2>1. CASE token = None
    BY <2>1 DEF AuthTick, Aged
  <2>2. CASE token # None
    <3>1. token \in Token /\ token' = [token EXCEPT !.left = Less(token.left)]
      BY <2>2 DEF AuthTick, Aged, AuthTypeOK
    <3>2. Less(token.left) \in 0 .. Lifetime
      BY <3>1, DurationsAreNumbers, LessIsLess DEF Token
    <3> QED BY <3>1, <3>2 DEF Token
  <2> QED BY <2>1, <2>2
<1>2. timer' \in [Timer -> TimerType]
  <2>1. timer' = [t \in Timer |-> [timer[t] EXCEPT !.left = Less(timer[t].left)]]
    BY DEF AuthTick
  <2>2. ASSUME NEW t \in Timer
        PROVE  [timer[t] EXCEPT !.left = Less(timer[t].left)] \in TimerType
    <3>1. timer[t] \in TimerType
      BY DEF AuthTypeOK
    <3>2. Less(timer[t].left) \in 0 .. Lifetime
      BY <3>1, DurationsAreNumbers, LessIsLess DEF TimerType
    <3> QED BY <3>1, <3>2 DEF TimerType
  <2> QED BY <2>1, <2>2
<1> QED BY <1>1, <1>2 DEF AuthTick, AuthTypeOK

----------------------------------------------------------------------------
(* Callers.                                                                *)

CallsTypeOK == call \in [Caller -> CallType]

LEMMA IdleCall == Idle \in CallType
BY DurationsAreNumbers DEF Idle, CallType

LEMMA SendType ==
  ASSUME CallsTypeOK, NEW c \in Caller, NEW t \in Token, Send(c, t)
  PROVE  /\ CallsTypeOK' /\ call'[c].pc = "sent"
         /\ \A d \in Caller \ {c} : call'[d] = call[d]
<1>1. OnItsWay(t) \in Token
  BY DurationsAreNumbers DEF OnItsWay, Token
<1>2. [pc |-> "sent", token |-> OnItsWay(t), left |-> Travel] \in CallType
  BY <1>1, DurationsAreNumbers DEF CallType
<1> QED BY <1>2 DEF Send, CallsTypeOK

LEMMA GetTokenType ==
  ASSUME AuthTypeOK, CallsTypeOK, NEW c \in Caller, GetToken(c)
  PROVE  CallsTypeOK' /\ \A d \in Caller \ {c} : call'[d] = call[d]
<1>1. CASE HasToken
  BY <1>1, SendType DEF GetToken, HasToken, AuthTypeOK
<1>2. CASE ~HasToken
  <2>1. call' = [call EXCEPT ![c] = [call[c] EXCEPT !.pc = "login", !.left = Lag]]
    BY <1>2 DEF GetToken, CallsTypeOK
  <2>2. [call[c] EXCEPT !.pc = "login", !.left = Lag] \in CallType
    <3>1. call[c] \in CallType /\ Lag \in 0 .. Lag + Travel
      BY DurationsAreNumbers DEF CallsTypeOK
    <3> QED BY <3>1 DEF CallType
  <2> QED BY <2>1, <2>2 DEF CallsTypeOK
<1> QED BY <1>1, <1>2

LEMMA LoggedInType ==
  ASSUME AuthTypeOK, CallsTypeOK, NEW c \in Caller, LoggedIn(c),
         UNCHANGED <<up, outages>>
  PROVE  AuthTypeOK' /\ CallsTypeOK' /\ \A d \in Caller \ {c} : call'[d] = call[d]
<1>1. /\ token' \in Token
      /\ timer' \in [Timer -> TimerType] /\ refreshTimer' \in Timer
  BY LoginType DEF LoggedIn, AuthTypeOK
<1>2. CallsTypeOK' /\ \A d \in Caller \ {c} : call'[d] = call[d]
  BY <1>1, SendType DEF LoggedIn
<1> QED BY <1>1, <1>2 DEF AuthTypeOK

\* An answer leaves the other callers alone.
LEMMA EndsCall ==
  ASSUME CallsTypeOK, NEW c \in Caller, call' = [call EXCEPT ![c] = Idle]
  PROVE  CallsTypeOK' /\ call'[c].pc = "idle" /\ \A d \in Caller \ {c} : call'[d] = call[d]
BY IdleCall DEF CallsTypeOK, Idle

\* The token a caller holds ages or is forgotten, and stays a token.
LEMMA HeldTokens ==
  ASSUME NEW t \in Token \cup {None}
  PROVE  Forget(t) \in Token \cup {None} /\ Aged(t) \in Token \cup {None}
<1>1. CASE t = None
  BY <1>1 DEF Forget, Aged
<1>2. CASE t # None
  <2>1. t \in Token /\ Less(t.left) \in 0 .. Lifetime
    BY <1>2, DurationsAreNumbers, LessIsLess DEF Token
  <2> QED BY <1>2, <2>1 DEF Forget, Aged, Token
<1> QED BY <1>1, <1>2

LEMMA OlderCall ==
  ASSUME NEW k \in CallType, NEW n \in 0 .. Lag + Travel, NEW t \in Token \cup {None}
  PROVE  /\ [k EXCEPT !.left = n, !.token = t] \in CallType
         /\ [k EXCEPT !.left = n, !.token = t].pc = k.pc
BY DEF CallType

LEMMA TickCalls ==
  ASSUME CallsTypeOK, Tick
  PROVE  CallsTypeOK' /\ \A c \in Caller : call'[c].pc = call[c].pc
<1> DEFINE later(c) == [call[c] EXCEPT !.left = Less(@), !.token = Aged(@)]
<1>1. call' = [c \in Caller |-> later(c)]
  BY DEF Tick
<1>2. ASSUME NEW c \in Caller
      PROVE  later(c) \in CallType /\ later(c).pc = call[c].pc
  <2>1. call[c] \in CallType /\ Lag + Travel \in Nat
    BY DurationsAreNumbers DEF CallsTypeOK
  <2>2. Aged(call[c].token) \in Token \cup {None}
    BY <2>1, HeldTokens DEF CallType
  <2>3. Less(call[c].left) \in 0 .. Lag + Travel
    BY <2>1, LessIsLess DEF CallType
  <2> QED BY <2>1, <2>2, <2>3, OlderCall
<1> QED BY <1>1, <1>2 DEF CallsTypeOK

LEMMA RevokeCalls ==
  ASSUME CallsTypeOK, Revoke
  PROVE  CallsTypeOK' /\ \A c \in Caller : call'[c].pc = call[c].pc
<1>1. call' = [c \in Caller |-> [call[c] EXCEPT !.token = Forget(call[c].token)]]
  BY DEF Revoke
<1>2. ASSUME NEW c \in Caller
      PROVE  [call[c] EXCEPT !.token = Forget(call[c].token)] \in CallType
  BY HeldTokens DEF CallsTypeOK, CallType
<1> QED BY <1>1, <1>2 DEF CallsTypeOK, CallType

----------------------------------------------------------------------------
(* Every step keeps the types.                                             *)

RelaysTypeOK ==
  /\ client \in [Relay -> {"none", "open", "gone", "closing", "closed"}]
  /\ server \in [Relay -> {"none", "connecting", "open", "closing", "closed"}]
  /\ pinging \in [Relay -> BOOLEAN]
  /\ alive \in [Relay -> BOOLEAN]
  /\ joined \in [Relay -> BOOLEAN]

RestTypeOK ==
  /\ answer \in [Request -> {"none", "failed", "served", "refused"}]
  /\ revocations \in 0 .. MaxRevocations

LEMMA TypeParts ==
  /\ TypeOK <=> AuthTypeOK /\ CallsTypeOK /\ RelaysTypeOK /\ RestTypeOK
  /\ TypeOK' <=> AuthTypeOK' /\ CallsTypeOK' /\ RelaysTypeOK' /\ RestTypeOK'
BY DEF TypeOK, CallsTypeOK, RelaysTypeOK, RestTypeOK

LEMMA CallersAreCallers == Request \subseteq Caller /\ Relay \subseteq Caller
BY DEF Caller

LEMMA ProxyType ==
  ASSUME TypeOK, NEW q \in Request, Proxy(q)
  PROVE  TypeOK' /\ \A c \in Caller \ {q} : call'[c] = call[c]
<1> USE TypeParts, CallersAreCallers
<1>1. CASE ProxyRequest(q)
  BY <1>1, GetTokenType
     DEF ProxyRequest, authVars, relayVars, AuthTypeOK, RelaysTypeOK, RestTypeOK
<1>2. CASE ProxyAfterLogin(q)
  BY <1>2, LoggedInType DEF ProxyAfterLogin, relayVars, RelaysTypeOK, RestTypeOK
<1>3. CASE ProxyFails(q)
  BY <1>3, EndsCall
     DEF ProxyFails, LoginFails, authVars, relayVars, AuthTypeOK, RelaysTypeOK, RestTypeOK
<1>4. CASE ProxyAnswer(q)
  BY <1>4, EndsCall
     DEF ProxyAnswer, authVars, relayVars, AuthTypeOK, RelaysTypeOK, RestTypeOK
<1> QED BY <1>1, <1>2, <1>3, <1>4 DEF Proxy

\* Steps of a relay that ask for a token or end with one.
LEMMA RelayCallType ==
  ASSUME TypeOK, NEW r \in Relay,
         \/ HandleWsRelay(r) \/ RelayAfterLogin(r) \/ RelayFails(r)
         \/ ServerOpens(r) \/ ServerRefuses(r)
  PROVE  TypeOK' /\ \A c \in Caller \ {r} : call'[c] = call[c]
<1> USE TypeParts, CallersAreCallers
<1>1. CASE HandleWsRelay(r)
  BY <1>1, GetTokenType DEF HandleWsRelay, authVars, AuthTypeOK, RelaysTypeOK, RestTypeOK
<1>2. CASE RelayAfterLogin(r)
  BY <1>2, LoggedInType DEF RelayAfterLogin, RelaysTypeOK, RestTypeOK
<1>3. CASE RelayFails(r)
  BY <1>3, EndsCall
     DEF RelayFails, LoginFails, CloseClient, authVars, AuthTypeOK, RelaysTypeOK, RestTypeOK
<1>4. CASE ServerOpens(r)
  <2>1. /\ client' \in [Relay -> {"none", "open", "gone", "closing", "closed"}]
        /\ server' \in [Relay -> {"none", "connecting", "open", "closing", "closed"}]
        /\ pinging' \in [Relay -> BOOLEAN]
        /\ alive' \in [Relay -> BOOLEAN]
    BY <1>4 DEF ServerOpens, RelaysTypeOK
  <2>2. joined' \in [Relay -> BOOLEAN]
    <3>1. ClientIsOpen(r) \in BOOLEAN
      BY DEF ClientIsOpen
    <3> QED BY <1>4, <3>1 DEF ServerOpens, RelaysTypeOK
  <2>3. CallsTypeOK' /\ \A c \in Caller \ {r} : call'[c] = call[c]
    BY <1>4, EndsCall DEF ServerOpens
  <2>4. AuthTypeOK' /\ RestTypeOK'
    BY <1>4 DEF ServerOpens, authVars, AuthTypeOK, RestTypeOK
  <2> QED BY <2>1, <2>2, <2>3, <2>4 DEF RelaysTypeOK
<1>5. CASE ServerRefuses(r)
  BY <1>5, EndsCall
     DEF ServerRefuses, ServerClosed, CloseClient, authVars, AuthTypeOK, RelaysTypeOK, RestTypeOK
<1> QED BY <1>1, <1>2, <1>3, <1>4, <1>5

\* Steps of its sockets.
SocketStep(r) ==
  \/ ServerEnds(r) \/ ServerCloses(r) \/ ClientEnds(r) \/ ClientCloses(r)
  \/ ClientGone(r) \/ Ping(r) \/ Pong(r)

LEMMA SocketType ==
  ASSUME TypeOK, NEW r \in Relay, SocketStep(r)
  PROVE  TypeOK' /\ UNCHANGED call
BY TypeParts DEF SocketStep, ServerEnds, ServerCloses, ClientEnds, ClientCloses, ClientGone,
   Ping, Pong, ServerClosed, ClientClosed, CloseClient, authVars, AuthTypeOK, CallsTypeOK,
   RelaysTypeOK, RestTypeOK

LEMMA WorldType ==
  ASSUME TypeOK,
         \/ \E t \in Timer : OnTimer(t)
         \/ (GoDown \/ ComeUp) /\ UNCHANGED <<call, answer, relayVars, revocations>>
         \/ Revoke \/ Tick
  PROVE  TypeOK' /\ UNCHANGED relayVars /\ \A c \in Caller : call'[c].pc = call[c].pc
<1> USE TypeParts
<1>1. ASSUME NEW t \in Timer, OnTimer(t)
      PROVE  TypeOK' /\ UNCHANGED <<relayVars, call>>
  BY <1>1, TimerStepType DEF OnTimer, relayVars, RelaysTypeOK, RestTypeOK, CallsTypeOK
<1>2. CASE (GoDown \/ ComeUp) /\ UNCHANGED <<call, answer, relayVars, revocations>>
  <2>1. outages' \in 0 .. MaxOutages
    BY <1>2, DurationsAreNumbers DEF GoDown, ComeUp, AuthTypeOK
  <2>2. up' \in BOOLEAN /\ UNCHANGED <<token, timer, refreshTimer>>
    BY <1>2 DEF GoDown, ComeUp
  <2>3. AuthTypeOK'
    BY <2>1, <2>2 DEF AuthTypeOK
  <2> QED BY <1>2, <2>3 DEF relayVars, RelaysTypeOK, RestTypeOK, CallsTypeOK
<1>3. CASE Revoke
  <2>1. token' \in Token \cup {None}
    BY <1>3, HeldTokens DEF Revoke, AuthTypeOK
  <2>2. revocations' \in 0 .. MaxRevocations
    BY <1>3, DurationsAreNumbers DEF Revoke, RestTypeOK
  <2> QED BY <1>3, <2>1, <2>2, RevokeCalls DEF Revoke, AuthTypeOK, relayVars, RelaysTypeOK, RestTypeOK
<1>4. CASE Tick
  BY <1>4, TickCalls, AuthTickType DEF Tick, relayVars, RelaysTypeOK, RestTypeOK
<1> QED BY <1>1, <1>2, <1>3, <1>4

LEMMA InitType == Init => TypeOK
<1>1. Init => CallsTypeOK
  BY IdleCall DEF Init, CallsTypeOK
<1>2. Init => AuthTypeOK
  <2> SUFFICES ASSUME AuthInit PROVE AuthTypeOK
    BY DEF Init
  <2>1. [pc |-> "login", kind |-> "start", left |-> Lag] \in TimerType
    BY DurationsAreNumbers DEF TimerType
  <2>2. timer \in [Timer -> TimerType]
    BY <2>1, OffType DEF AuthInit
  <2>3. outages \in 0 .. MaxOutages
    <3>1. outages = 0
      BY DEF AuthInit
    <3> QED BY <3>1, DurationsAreNumbers
  <2>4. token = None /\ refreshTimer = None /\ up \in BOOLEAN
    BY DEF AuthInit
  <2> QED BY <2>2, <2>3, <2>4 DEF AuthTypeOK
<1> QED BY <1>1, <1>2, TypeParts, DurationsAreNumbers DEF Init, RelaysTypeOK, RestTypeOK

LEMMA NextType == TypeOK /\ [Next]_vars => TypeOK'
<1> SUFFICES ASSUME TypeOK, [Next]_vars PROVE TypeOK'
  OBVIOUS
<1>1. CASE UNCHANGED vars
  BY <1>1 DEF vars, authVars, relayVars, TypeOK, AuthTypeOK
<1>2. CASE Next
  BY <1>2, ProxyType, RelayCallType, SocketType, WorldType
     DEF Next, RelayStep, SocketStep
<1> QED BY <1>1, <1>2

\* Every variable keeps its type, for any number of callers and timers.
THEOREM TypeCorrect == Spec => []TypeOK
<1> QED BY InitType, NextType, PTL DEF Spec

----------------------------------------------------------------------------
(* The two sockets of a relay.                                             *)

\* Once both sockets of a relay were open together, neither is left open when
\* the other has closed, and pings go to nobody but an open pair.
NeitherSideIsLeft ==
  \A r \in Relay : joined[r] =>
    /\ client[r] = "closed" => server[r] \in {"closing", "closed"}
    /\ server[r] = "closed" => client[r] \in {"closing", "closed"}
    /\ pinging[r] <=> ClientIsOpen(r) /\ server[r] = "open"

\* A joined relay is connected once and for all, and open only on both sides.
Pair(r) ==
  joined[r] =>
    /\ call[r].pc = "idle"
    /\ client[r] # "none" /\ server[r] \in {"open", "closing", "closed"}
    /\ server[r] = "open" <=> ClientIsOpen(r)
    /\ pinging[r] <=> server[r] = "open"

Pairs == \A r \in Relay : Pair(r)

\* What leaves the sockets and the call of a relay alone.
LEMMA PairKept ==
  ASSUME NEW r \in Relay, Pair(r), call'[r].pc = call[r].pc,
         client'[r] = client[r], server'[r] = server[r],
         pinging'[r] = pinging[r], joined'[r] = joined[r]
  PROVE  Pair(r)'
BY DEF Pair, ClientIsOpen

LEMMA PairStep ==
  ASSUME TypeOK, NEW r \in Relay, Pair(r),
         HandleWsRelay(r) \/ RelayStep(r) \/ SocketStep(r)
  PROVE  Pair(r)'
<1> USE TypeParts, CallersAreCallers DEF RelaysTypeOK, Pair, ClientIsOpen
<1>1. CASE HandleWsRelay(r)
  BY <1>1 DEF HandleWsRelay
<1>2. CASE RelayAfterLogin(r)
  BY <1>2 DEF RelayAfterLogin, LoggedIn
<1>3. CASE RelayFails(r)
  BY <1>3 DEF RelayFails, LoginFails
<1>4. CASE ServerOpens(r)
  BY <1>4, EndsCall DEF ServerOpens
<1>5. CASE ServerRefuses(r)
  BY <1>5 DEF ServerRefuses
<1>6. CASE SocketStep(r)
  BY <1>6 DEF SocketStep, ServerEnds, ServerCloses, ClientEnds, ClientCloses, ClientGone,
     Ping, Pong, ServerClosed, ClientClosed, CloseClient
<1> QED BY <1>1, <1>2, <1>3, <1>4, <1>5, <1>6 DEF RelayStep, SocketStep

\* Steps of a relay touch no other one.
LEMMA OtherRelays ==
  ASSUME TypeOK, NEW r \in Relay, NEW s \in Relay \ {r},
         HandleWsRelay(r) \/ RelayStep(r) \/ SocketStep(r)
  PROVE  /\ client'[s] = client[s] /\ server'[s] = server[s]
         /\ pinging'[s] = pinging[s] /\ joined'[s] = joined[s]
         /\ call'[s] = call[s]
<1>1. call'[s] = call[s]
  BY RelayCallType, SocketType, CallersAreCallers DEF RelayStep, SocketStep
<1>2. /\ client'[s] = client[s] /\ server'[s] = server[s]
      /\ pinging'[s] = pinging[s] /\ joined'[s] = joined[s]
  BY TypeParts DEF RelaysTypeOK, HandleWsRelay, RelayStep, SocketStep, RelayAfterLogin,
     RelayFails, ServerOpens, ServerRefuses, ServerEnds, ServerCloses, ClientEnds,
     ClientCloses, ClientGone, Ping, Pong, ServerClosed, ClientClosed, CloseClient
<1> QED BY <1>1, <1>2

\* No interleaving of closes, pings, refusals and lost browsers leaves one
\* socket of a joined relay open besides a closed one.
THEOREM RelaysEndOnBothSides == Spec => []NeitherSideIsLeft
<1>1. Init => Pairs
  BY DEF Init, Pairs, Pair
<1>2. TypeOK /\ Pairs /\ [Next]_vars => Pairs'
  <2> SUFFICES ASSUME TypeOK, Pairs, [Next]_vars, NEW s \in Relay PROVE Pair(s)'
    BY DEF Pairs
  <2>1. Pair(s) /\ s \in Caller /\ s \notin Request
    BY CallersAreCallers, ButlerBridgeAssumption DEF Pairs
  <2>2. CASE UNCHANGED vars
    BY <2>1, <2>2, PairKept DEF vars, relayVars
  <2>3. ASSUME NEW q \in Request, Proxy(q) PROVE Pair(s)'
    <3>1. call'[s] = call[s]
      BY <2>1, <2>3, ProxyType
    <3>2. UNCHANGED relayVars
      BY <2>3 DEF Proxy, ProxyRequest, ProxyAfterLogin, ProxyFails, ProxyAnswer
    <3> QED BY <2>1, <3>1, <3>2, PairKept DEF relayVars
  <2>4. ASSUME NEW r \in Relay, HandleWsRelay(r) \/ RelayStep(r) \/ SocketStep(r)
        PROVE  Pair(s)'
    <3>1. CASE r = s
      BY <2>1, <2>4, <3>1, PairStep
    <3>2. CASE r # s
      BY <2>1, <2>4, <3>2, OtherRelays, PairKept
    <3> QED BY <3>1, <3>2
  <2>5. CASE \/ \E t \in Timer : OnTimer(t)
             \/ (GoDown \/ ComeUp) /\ UNCHANGED <<call, answer, relayVars, revocations>>
             \/ Revoke \/ Tick
    BY <2>1, <2>5, WorldType, PairKept DEF relayVars
  <2> QED BY <2>2, <2>3, <2>4, <2>5 DEF Next, SocketStep
<1>3. TypeOK /\ Pairs => NeitherSideIsLeft
  BY TypeParts DEF RelaysTypeOK, Pairs, Pair, NeitherSideIsLeft, ClientIsOpen
<1> QED BY <1>1, <1>2, <1>3, TypeCorrect, PTL DEF Spec

----------------------------------------------------------------------------
(* Tokens on their way.                                                    *)

\* Unless butler-server forgets it, a token that was taken for a request is
\* valid when the request arrives, however long it was at hand and whoever
\* replaced it meanwhile: it never expires between the check of getToken
\* and the arrival. (Valid is looked at whenever a call is sent.)
OnlyForgottenIsRefused ==
  \A c \in Caller : call[c].pc = "sent" => (Valid(c) <=> call[c].token.good)

\* A token is sent with more of its life left than the way takes.
Outlives(c) ==
  call[c].pc = "sent" =>
    call[c].token # None /\ call[c].token.left > call[c].left

LEMMA SendOutlives ==
  ASSUME CallsTypeOK, NEW c \in Caller, NEW t \in Token, Send(c, t), t.left > Travel
  PROVE  Outlives(c)'
<1>1. OnItsWay(t).left = Travel + 1 /\ OnItsWay(t) \in Token
  BY DurationsAreNumbers DEF OnItsWay, Token
<1>2. call'[c] = [pc |-> "sent", token |-> OnItsWay(t), left |-> Travel]
  BY DEF Send, CallsTypeOK
<1>3. OnItsWay(t) # None
  BY <1>1, NoTokenAssumption
<1> QED BY <1>1, <1>2, <1>3, DurationsAreNumbers DEF Outlives

\* The token at hand is taken with more than the margin left, a new one after
\* the time that its login took.
LEMMA TakenOutlives ==
  ASSUME TypeOK, Travel <= Margin, Lag + Travel < Lifetime, NEW c \in Caller,
         GetToken(c) \/ LoggedIn(c)
  PROVE  Outlives(c)'
<1> USE TypeParts, DurationsAreNumbers
<1>1. CASE GetToken(c) /\ HasToken
  <2>1. token \in Token /\ token.left > Travel /\ Send(c, token)
    BY <1>1 DEF GetToken, HasToken, IsTokenExpired, AuthTypeOK, Token
  <2> QED BY <2>1, SendOutlives
<1>2. CASE GetToken(c) /\ ~HasToken
  <2>1. call' = [call EXCEPT ![c] = [call[c] EXCEPT !.pc = "login", !.left = Lag]]
    BY <1>2 DEF GetToken, CallsTypeOK
  <2>2. call'[c].pc = "login"
    BY <2>1 DEF CallsTypeOK, CallType
  <2> QED BY <2>2 DEF Outlives
<1>3. CASE LoggedIn(c)
  <2>1. PICK age \in 0 .. Lag : token' = [left |-> Lifetime - age, good |-> TRUE]
    BY <1>3 DEF LoggedIn, Login
  <2>2. token' \in Token /\ token'.left > Travel
    BY <2>1 DEF Token
  <2> QED BY <1>3, <2>2, SendOutlives DEF LoggedIn
<1> QED BY <1>1, <1>2, <1>3

\* A unit of time takes the same from both.
LEMMA TickOutlives ==
  ASSUME TypeOK, Tick, NEW c \in Caller, Outlives(c)
  PROVE  Outlives(c)'
<1>1. call[c] \in CallType /\ CallsTypeOK
  BY TypeParts DEF CallsTypeOK
<1>2. /\ call'[c] = [call[c] EXCEPT !.left = Less(call[c].left),
                                    !.token = Aged(call[c].token)]
      /\ call[c].pc # "idle" => call[c].left > 0
  BY DEF Tick
<1>3. /\ call'[c].pc = call[c].pc
      /\ call'[c].left = Less(call[c].left) /\ call'[c].token = Aged(call[c].token)
  BY <1>1, <1>2 DEF CallType
<1>4. ASSUME call[c].pc = "sent" PROVE call'[c].token # None /\ call'[c].token.left > call'[c].left
  <2>1. /\ call[c].token \in Token /\ call[c].token.left > call[c].left
        /\ call[c].left \in Nat \ {0}
    BY <1>1, <1>2, <1>4, DurationsAreNumbers DEF Outlives, CallType
  <2>2. /\ call'[c].token = [call[c].token EXCEPT !.left = Less(call[c].token.left)]
        /\ call[c].token.left \in 0 .. Lifetime
    BY <1>3, <2>1, NoTokenAssumption DEF Aged, Token
  <2>3. call'[c].token \in Token /\ call'[c].token.left = Less(call[c].token.left)
    BY <2>1, <2>2, DurationsAreNumbers, LessIsLess DEF Token
  <2>4. Less(call[c].token.left) > Less(call[c].left)
    BY <2>1, <2>2, DurationsAreNumbers DEF Less
  <2> QED BY <1>3, <2>3, <2>4, NoTokenAssumption
<1> QED BY <1>3, <1>4 DEF Outlives

\* Forgetting a token takes nothing from its life.
LEMMA RevokeOutlives ==
  ASSUME TypeOK, Revoke, NEW c \in Caller, Outlives(c)
  PROVE  Outlives(c)'
<1>1. call[c] \in CallType
  BY TypeParts DEF CallsTypeOK
<1>2. call'[c] = [call[c] EXCEPT !.token = Forget(call[c].token)]
  BY DEF Revoke
<1>3. /\ call'[c].pc = call[c].pc /\ call'[c].left = call[c].left
      /\ call'[c].token = Forget(call[c].token)
  BY <1>1, <1>2 DEF CallType
<1>4. call[c].token # None =>
        Forget(call[c].token) \in Token /\ Forget(call[c].token).left = call[c].token.left
  BY <1>1 DEF Forget, CallType, Token
<1> QED BY <1>3, <1>4, NoTokenAssumption DEF Outlives

\* A call that is not sent, or one left alone, needs no argument.
LEMMA NothingSent ==
  ASSUME NEW c \in Caller, Outlives(c), call'[c] = call[c] \/ call'[c].pc # "sent"
  PROVE  Outlives(c)'
BY DEF Outlives

LEMMA StepOutlives ==
  ASSUME TypeOK, [Next]_vars, Travel <= Margin, Lag + Travel < Lifetime,
         NEW c \in Caller, Outlives(c)
  PROVE  Outlives(c)'
<1> USE TypeParts, CallersAreCallers
<1>1. CASE UNCHANGED vars
  BY <1>1, NothingSent DEF vars
<1>2. ASSUME NEW q \in Request, Proxy(q) PROVE Outlives(c)'
  <2>1. CASE c # q
    BY <1>2, <2>1, ProxyType, NothingSent
  <2>2. CASE c = q /\ (ProxyRequest(q) \/ ProxyAfterLogin(q))
    BY <2>2, TakenOutlives DEF ProxyRequest, ProxyAfterLogin
  <2>3. CASE c = q /\ (ProxyFails(q) \/ ProxyAnswer(q))
    BY <2>3, EndsCall, NothingSent DEF ProxyFails, ProxyAnswer, LoginFails
  <2> QED BY <1>2, <2>1, <2>2, <2>3 DEF Proxy
<1>3. ASSUME NEW r \in Relay,
             \/ HandleWsRelay(r) \/ RelayAfterLogin(r) \/ RelayFails(r)
             \/ ServerOpens(r) \/ ServerRefuses(r)
      PROVE  Outlives(c)'
  <2>1. CASE c # r
    BY <1>3, <2>1, RelayCallType, NothingSent
  <2>2. CASE c = r /\ (HandleWsRelay(r) \/ RelayAfterLogin(r))
    BY <2>2, TakenOutlives DEF HandleWsRelay, RelayAfterLogin
  <2>3. CASE c = r /\ (RelayFails(r) \/ ServerOpens(r) \/ ServerRefuses(r))
    BY <2>3, EndsCall, NothingSent DEF RelayFails, LoginFails, ServerOpens, ServerRefuses
  <2> QED BY <1>3, <2>1, <2>2, <2>3
<1>4. ASSUME NEW r \in Relay, SocketStep(r) PROVE Outlives(c)'
  BY <1>4, SocketType, NothingSent
<1>5. CASE \/ \E t \in Timer : OnTimer(t)
           \/ (GoDown \/ ComeUp) /\ UNCHANGED <<call, answer, relayVars, revocations>>
  BY <1>5, NothingSent DEF OnTimer
<1> QED BY <1>1, <1>2, <1>3, <1>4, <1>5, TickOutlives, RevokeOutlives
        DEF Next, RelayStep, SocketStep

\* With a margin not shorter than the longest way and a login that leaves
\* enough of a token's life, no token expires between check and arrival.
THEOREM NoTokenExpiresOnItsWay ==
  ASSUME Travel <= Margin, Lag + Travel < Lifetime
  PROVE  Spec => []OnlyForgottenIsRefused
<1> DEFINE Inv == \A c \in Caller : Outlives(c)
<1>1. Init => Inv
  BY DEF Init, Idle, Outlives
<1>2. TypeOK /\ Inv /\ [Next]_vars => Inv'
  BY StepOutlives
<1>3. TypeOK /\ Inv => OnlyForgottenIsRefused
  <2> SUFFICES ASSUME TypeOK, NEW c \in Caller, Outlives(c), call[c].pc = "sent"
               PROVE  Valid(c) <=> call[c].token.good
    BY DEF OnlyForgottenIsRefused
  <2>1. call[c] \in CallType
    BY TypeParts DEF CallsTypeOK
  <2>2. call[c].token \in Token /\ call[c].left \in Nat
        /\ call[c].token.left > call[c].left
    BY <2>1, DurationsAreNumbers DEF CallType, Outlives
  <2>3. call[c].token.left > 0
    BY <2>2, DurationsAreNumbers DEF Token
  <2> QED BY <2>3 DEF Valid
<1> QED BY <1>1, <1>2, <1>3, TypeCorrect, PTL DEF Spec

=============================================================================
