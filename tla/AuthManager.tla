---------------------------- MODULE AuthManager ----------------------------
(***************************************************************************)
(* AuthManager of the butler backend: the token of its session with        *)
(* butler-server, the logins that replace it and the timers that refresh   *)
(* it. Time passes in units of 30 seconds. Whatever calls getToken adds     *)
(* logins of its own: see ButlerBridge.                                    *)
(*                                                                         *)
(* A timer that has fired stays on record until its login is answered,     *)
(* since it may set a new timer then. refreshTimer only holds the newest   *)
(* one: an older one may be pending besides it. Tokens carry their expiry, *)
(* so token and tokenExpiry are one.                                       *)
(***************************************************************************)
EXTENDS Integers

CONSTANTS
  Timer,     \* timers pending or waiting for the answer of their login
  Lifetime,  \* of a token, as the exp claim says
  Early,     \* a refresh comes this long before the expiry
  Margin,    \* a token this close to its expiry counts as expired
  Soon,      \* the shortest delay of a refresh and the delay of the retry
  Lag,       \* the longest a login takes
  MaxOutages, \* bound: how often butler-server goes away
  None

ASSUME AuthManagerAssumption ==
  /\ {Lifetime, Early, Margin, Soon, Lag, MaxOutages} \subseteq Nat
  /\ Lag < Lifetime /\ Soon <= Lifetime /\ None \notin Timer

VARIABLES
  token,         \* the token: what is left of its life, and is it still good
  timer,         \* every timer's callback
  refreshTimer,  \* the handle kept: the timer that clearTimeout would clear
  up,            \* butler-server answers
  outages        \* so far (only to bound them)

authVars == <<token, timer, refreshTimer, up, outages>>

Token == [left : 0 .. Lifetime, good : BOOLEAN]
ASSUME NoTokenAssumption == None \notin Token

\* A refresh tries once more when its login fails; a retry does not, nor does
\* the login of the start. left is until the timer fires, or until its login
\* is answered.
Off == [pc |-> "off", kind |-> "retry", left |-> 0]
TimerType == [pc : {"off", "set", "login"},
              kind : {"start", "refresh", "retry"}, left : 0 .. Lifetime]

AuthTypeOK ==
  /\ token \in Token \cup {None}
  /\ timer \in [Timer -> TimerType]
  /\ refreshTimer \in Timer \cup {None}
  /\ up \in BOOLEAN
  /\ outages \in 0 .. MaxOutages

\* Mutant of IsTokenExpired: the refresh timer is relied on.
NeverExpired == FALSE

IsTokenExpired == token.left <= Margin

\* getToken returns the token it has, or logs in first.
HasToken == token # None /\ ~IsTokenExpired

\* Mutant of RefreshIn: the conversion to milliseconds made twice.
RefreshInTwice(left) == 1000 * left

RefreshIn(left) == IF left - Early > Soon THEN left - Early ELSE Soon

\* clearTimeout(refreshTimer): without effect on a timer that has fired.
Cleared(timers) ==
  [t \in Timer |->
     IF t = refreshTimer /\ timers[t].pc = "set" THEN Off ELSE timers[t]]

SetTimer(timers, t, kind, left) ==
  /\ timer' = [timers EXCEPT ![t] =
       [pc |-> "set", kind |-> kind, left |-> left]]
  /\ refreshTimer' = t

ScheduleRefresh(timers, left) ==
  LET free == {t \in Timer : Cleared(timers)[t].pc = "off"}
  IN /\ free # {}
     /\ SetTimer(Cleared(timers), CHOOSE t \in free : TRUE, "refresh",
                 RefreshIn(left))

\* login is answered with a token; answers may overtake each other.
Login(timers) ==
  \E age \in 0 .. Lag :
    /\ token' = [left |-> Lifetime - age, good |-> TRUE]
    /\ ScheduleRefresh(timers, Lifetime - age)

Fire(t) ==
  /\ timer[t].pc = "set" /\ timer[t].left = 0
  /\ timer' = [timer EXCEPT ![t].pc = "login", ![t].left = Lag]
  /\ UNCHANGED <<token, refreshTimer, up, outages>>

Refresh(t) ==
  /\ timer[t].pc = "login" /\ up
  /\ Login([timer EXCEPT ![t] = Off])
  /\ UNCHANGED <<up, outages>>

RetryRefresh(t) ==
  /\ timer[t].pc = "login" /\ timer[t].kind = "refresh" /\ ~up
  /\ SetTimer(timer, t, "retry", Soon)
  /\ UNCHANGED <<token, up, outages>>

GiveUp(t) ==
  /\ timer[t].pc = "login" /\ timer[t].kind # "refresh" /\ ~up
  /\ timer' = [timer EXCEPT ![t] = Off]
  /\ UNCHANGED <<token, refreshTimer, up, outages>>

Started == \A t \in Timer : timer[t].kind # "start"

TimerStep(t) == Fire(t) \/ Refresh(t) \/ RetryRefresh(t) \/ GiveUp(t)

\* butler-server goes away and comes back.
GoDown ==
  /\ up /\ outages < MaxOutages
  /\ up' = FALSE /\ outages' = outages + 1
  /\ UNCHANGED <<token, timer, refreshTimer>>

ComeUp ==
  /\ ~up /\ up' = TRUE
  /\ UNCHANGED <<token, timer, refreshTimer, outages>>

Less(n) == IF n = 0 THEN 0 ELSE n - 1
Aged(t) == IF t = None THEN None ELSE [t EXCEPT !.left = Less(@)]

\* A unit of time: no timer and no answer is late.
AuthTick ==
  /\ \A t \in Timer : timer[t].pc # "off" => timer[t].left > 0
  /\ token' = Aged(token)
  /\ timer' = [t \in Timer |-> [timer[t] EXCEPT !.left = Less(@)]]
  /\ UNCHANGED <<refreshTimer, up, outages>>

\* The start logs in first and waits for the answer.
AuthInit ==
  /\ token = None
  /\ refreshTimer = None
  /\ up \in BOOLEAN /\ outages = 0
  /\ LET first == CHOOSE t \in Timer : TRUE
     IN timer = [t \in Timer |->
          IF t = first THEN [pc |-> "login", kind |-> "start", left |-> Lag]
          ELSE Off]
=============================================================================
