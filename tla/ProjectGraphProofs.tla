-------------------------- MODULE ProjectGraphProofs --------------------------
(***************************************************************************)
(* Theorems about ProjectGraph for every value of its constants.           *)
(***************************************************************************)
EXTENDS ProjectGraph, FiniteSetTheorems, TLAPS

----------------------------------------------------------------------------
(* Sequences *)

\* What SetToSeqs returns has every element of S once.
LEMMA OrdersOfSet ==
  ASSUME NEW S, IsFiniteSet(S), NEW s \in SetToSeqs(S)
  PROVE  /\ s \in Seq(S) /\ ToSet(s) = S
         /\ \A i, j \in 1 .. Len(s) : s[i] = s[j] => i = j
<1> DEFINE n == Cardinality(S)
<1>1. n \in Nat BY FS_CardinalityType
<1>2. s \in [1 .. n -> S] /\ \A i, j \in 1 .. n : i # j => s[i] # s[j]
  BY DEF SetToSeqs
<1>3. s \in Seq(S) /\ Len(s) = n
  BY <1>1, <1>2
<1>4. s \in Injection(1 .. n, S)
  BY <1>2 DEF Injection, IsInjective
<1>5. Cardinality(1 .. n) = n
  BY <1>1, FS_Interval
<1>6. s \in Surjection(1 .. n, S)
  BY <1>4, <1>5, FS_Injection
<1>7. ToSet(s) = S
  BY <1>2, <1>6 DEF Surjection, ToSet
<1> QED BY <1>2, <1>3, <1>7

LEMMA SeqOfSubset ==
  ASSUME NEW S, NEW T, S \subseteq T, NEW s \in Seq(S)
  PROVE  s \in Seq(T)
OBVIOUS

LEMMA ToSetOfAppend ==
  ASSUME NEW S, NEW s \in Seq(S), NEW x \in S
  PROVE  /\ Append(s, x) \in Seq(S)
         /\ ToSet(Append(s, x)) = ToSet(s) \cup {x}
<1>1. Len(Append(s, x)) = Len(s) + 1 /\ Len(s) \in Nat
  OBVIOUS
<1>2. \A i \in 1 .. Len(s) + 1 : Append(s, x)[i] = IF i <= Len(s) THEN s[i] ELSE x
  OBVIOUS
<1> QED BY <1>1, <1>2 DEF ToSet

LEMMA ToSetOfTail ==
  ASSUME NEW S, NEW s \in Seq(S), s # <<>>,
         \A i, j \in 1 .. Len(s) : s[i] = s[j] => i = j
  PROVE  /\ Tail(s) \in Seq(S) /\ Head(s) \in S
         /\ ToSet(Tail(s)) = ToSet(s) \ {Head(s)}
         /\ \A i, j \in 1 .. Len(Tail(s)) : Tail(s)[i] = Tail(s)[j] => i = j
<1>1. Len(Tail(s)) = Len(s) - 1 /\ Len(s) \in Nat \ {0} /\ Head(s) = s[1] /\ Tail(s) \in Seq(S)
  OBVIOUS
<1>2. \A i \in 1 .. Len(s) - 1 : Tail(s)[i] = s[i + 1]
  OBVIOUS
<1>3. ToSet(Tail(s)) \subseteq ToSet(s) \ {Head(s)}
  BY <1>1, <1>2 DEF ToSet
<1>4. ASSUME NEW x \in ToSet(s) \ {Head(s)} PROVE x \in ToSet(Tail(s))
  <2>1. PICK i \in 1 .. Len(s) : x = s[i] BY DEF ToSet
  <2>2. i # 1 BY <2>1, <1>1
  <2>3. PICK k \in 1 .. Len(s) - 1 : k + 1 = i BY <2>2, <1>1
  <2>4. Tail(s)[k] = x BY <2>1, <2>3, <1>2
  <2>5. k \in DOMAIN Tail(s) BY <1>1
  <2> QED BY <2>4, <2>5 DEF ToSet
<1>5. Head(s) \in S
  BY <1>1
<1> QED BY <1>1, <1>2, <1>3, <1>4, <1>5

LEMMA ToSetOfConcat ==
  ASSUME NEW S, NEW s \in Seq(S), NEW t \in Seq(S)
  PROVE  /\ s \o t \in Seq(S)
         /\ ToSet(s \o t) = ToSet(s) \cup ToSet(t)
<1>1. Len(s \o t) = Len(s) + Len(t) /\ Len(s) \in Nat /\ Len(t) \in Nat
  OBVIOUS
<1>2. \A i \in 1 .. Len(s) + Len(t) :
        (s \o t)[i] = IF i <= Len(s) THEN s[i] ELSE t[i - Len(s)]
  OBVIOUS
<1>3. ToSet(s \o t) \subseteq ToSet(s) \cup ToSet(t)
  BY <1>1, <1>2 DEF ToSet
<1>4. ASSUME NEW x \in ToSet(t) PROVE x \in ToSet(s \o t)
  <2>1. PICK i \in 1 .. Len(t) : x = t[i] BY DEF ToSet
  <2>2. Len(s) + i \in 1 .. Len(s) + Len(t) /\ (s \o t)[Len(s) + i] = x
    BY <2>1, <1>1, <1>2
  <2> QED BY <2>2, <1>1 DEF ToSet
<1>5. ToSet(s) \subseteq ToSet(s \o t)
  BY <1>1, <1>2 DEF ToSet
<1> QED BY <1>3, <1>4, <1>5

\* Two sequences without repetitions and without common elements.
LEMMA ConcatIsInjective ==
  ASSUME NEW S, NEW s \in Seq(S), NEW t \in Seq(S), ToSet(s) \cap ToSet(t) = {},
         \A i, j \in 1 .. Len(s) : s[i] = s[j] => i = j,
         \A i, j \in 1 .. Len(t) : t[i] = t[j] => i = j
  PROVE  \A i, j \in 1 .. Len(s \o t) : (s \o t)[i] = (s \o t)[j] => i = j
<1>1. Len(s \o t) = Len(s) + Len(t) /\ Len(s) \in Nat /\ Len(t) \in Nat
  OBVIOUS
<1>2. \A i \in 1 .. Len(s) + Len(t) :
        (s \o t)[i] = IF i <= Len(s) THEN s[i] ELSE t[i - Len(s)]
  OBVIOUS
<1> SUFFICES ASSUME NEW i \in 1 .. Len(s \o t), NEW j \in 1 .. Len(s \o t),
                    (s \o t)[i] = (s \o t)[j]
             PROVE  i = j
  OBVIOUS
<1>3. CASE i <= Len(s) /\ j <= Len(s)
  BY <1>1, <1>2, <1>3
<1>4. CASE i > Len(s) /\ j > Len(s)
  <2>1. i - Len(s) \in 1 .. Len(t) /\ j - Len(s) \in 1 .. Len(t) BY <1>1, <1>4
  <2>2. t[i - Len(s)] = t[j - Len(s)] BY <1>1, <1>2, <1>4
  <2>3. i - Len(s) = j - Len(s) BY <2>1, <2>2
  <2> QED BY <2>3, <1>1
<1>5. CASE i <= Len(s) /\ j > Len(s)
  <2>1. s[i] = t[j - Len(s)] BY <1>1, <1>2, <1>5
  <2>2. s[i] \in ToSet(s) BY <1>1, <1>5 DEF ToSet
  <2>3. j - Len(s) \in 1 .. Len(t) BY <1>1, <1>5
  <2>4. t[j - Len(s)] \in ToSet(t) BY <2>3 DEF ToSet
  <2> QED BY <2>1, <2>2, <2>4
<1>6. CASE i > Len(s) /\ j <= Len(s)
  <2>1. s[j] = t[i - Len(s)] BY <1>1, <1>2, <1>6
  <2>2. s[j] \in ToSet(s) BY <1>1, <1>6 DEF ToSet
  <2>3. i - Len(s) \in 1 .. Len(t) BY <1>1, <1>6
  <2>4. t[i - Len(s)] \in ToSet(t) BY <2>3 DEF ToSet
  <2> QED BY <2>1, <2>2, <2>4
<1> QED BY <1>1, <1>3, <1>4, <1>5, <1>6

----------------------------------------------------------------------------
(* Types *)

LEMMA IdleType == Idle \in Req
<1>1. <<>> \in Seq(Module) OBVIOUS
<1> QED BY <1>1 DEF Idle, Req

LEMMA InitType == ProjectGraphAssumption /\ Init => TypeOK
<1> SUFFICES ASSUME ProjectGraphAssumption, Init PROVE TypeOK OBVIOUS
<1>1. Cardinality(Existing) \in Int
  BY FS_Subset, FS_CardinalityType DEF ProjectGraphAssumption
<1>2. \A r \in Request : req[r].at = "idle"
  BY DEF Init, Idle
<1>3. req \in [Request -> Req]
  BY IdleType DEF Init
<1>4. restarts \in 0 .. MaxRestarts
  BY DEF Init, ProjectGraphAssumption
<1> QED BY <1>1, <1>2, <1>3, <1>4 DEF Init, TypeOK, ProjectGraphAssumption

\* A request as TypeOK wants it.
Sound(q) ==
  /\ q \in Req
  /\ q.at \in {"targets", "graph", "search", "delete", "insert", "drop"} => q.mod \in Module

\* Steps that change one request and no table.
LEMMA ReqStepType ==
  ASSUME TypeOK, NEW r \in Request, NEW q, Sound(q), req' = [req EXCEPT ![r] = q],
         UNCHANGED <<rows, fresh, deps>>, moduleCount' \in Int, restarts' = restarts,
         overlapped' \in BOOLEAN, doubled' \in BOOLEAN
  PROVE  TypeOK'
BY DEF TypeOK, Sound

LEMMA AnswerType ==
  ASSUME TypeOK, NEW r \in Request, Answer(r), UNCHANGED <<rows, fresh, deps>>,
         moduleCount' \in Int, restarts' = restarts,
         overlapped' \in BOOLEAN, doubled' \in BOOLEAN
  PROVE  TypeOK'
<1>1. Sound(Idle) BY IdleType DEF Sound, Idle
<1> QED BY <1>1, ReqStepType DEF Answer

LEMMA ReplaceType ==
  ASSUME ProjectGraphAssumption, TypeOK, NEW r \in Request, Replace(r)
  PROVE  TypeOK'
<1>0. req[r] \in Req /\ req \in [Request -> Req]
  BY DEF TypeOK
<1>1. ASSUME NEW m \in Module, NEW ids \in Asked, AskDependencies(r, m, ids)
      PROVE  TypeOK'
  <2> DEFINE q == [Idle EXCEPT !.at = "targets", !.mod = m, !.ids = ids, !.todo = ids]
  <2>1. ids \in Seq(Module) BY DEF ProjectGraphAssumption
  <2>2. Sound(q) BY <2>1, IdleType DEF Sound, Req
  <2> QED BY <1>1, <2>2, ReqStepType DEF AskDependencies, TypeOK
<1>2. CASE LookUpTarget(r)
  <2>1. CASE Answer(r)
    BY <1>2, <2>1, AnswerType DEF LookUpTarget, TypeOK
  <2>2. CASE req' = [req EXCEPT ![r].todo = Tail(@)]
    <3> DEFINE q == [req[r] EXCEPT !.todo = Tail(@)]
    <3>1. Tail(req[r].todo) \in Seq(Module) BY <1>0, <1>2 DEF Req, LookUpTarget
    <3>2. Sound(q) BY <1>0, <1>2, <3>1 DEF LookUpTarget, TypeOK, Sound, Req
    <3>3. req' = [req EXCEPT ![r] = q] BY <2>2
    <3> HIDE DEF q
    <3> QED BY <1>2, <3>2, <3>3, ReqStepType DEF LookUpTarget, TypeOK
  <2> QED BY <1>2, <2>1, <2>2 DEF LookUpTarget
<1>3. CASE ListModules(r)
  <2> DEFINE q == [req[r] EXCEPT !.at = "graph", !.listed = rows]
  <2>1. Sound(q) BY <1>0, <1>3 DEF ListModules, TypeOK, Sound, Req
  <2>2. req' = [req EXCEPT ![r] = q] BY <1>3 DEF ListModules
  <2> HIDE DEF q
  <2> QED BY <1>3, <2>1, <2>2, ReqStepType DEF ListModules, TypeOK
<1>4. CASE DetectCycle(r)
  <2> DEFINE graph == {e \in deps : e[1] \in req[r].listed}
             q == [req[r] EXCEPT !.at = "search", !.todo = req[r].ids, !.graph = graph]
  <2>1. graph \subseteq Module \X Module BY DEF TypeOK
  <2>2. Sound(q) BY <1>0, <1>4, <2>1 DEF DetectCycle, TypeOK, Sound, Req
  <2>3. req' = [req EXCEPT ![r] = q] BY <1>4 DEF DetectCycle
  <2> HIDE DEF q
  <2> QED BY <1>4, <2>2, <2>3, ReqStepType DEF DetectCycle, TypeOK
<1>5. CASE DeleteDependencies(r)
  <2>1. req' \in [Request -> Req] /\ deps' \subseteq rows \X rows
    <3>1. Idle \in Req /\ [req[r] EXCEPT !.at = "insert"] \in Req
      BY <1>0, IdleType DEF Req
    <3> QED BY <1>0, <1>5, <3>1 DEF DeleteDependencies, Goto, Answer, TypeOK
  <2>2. ASSUME NEW q \in Request PROVE req'[q].at \in {"targets", "graph", "search", "delete", "insert", "drop"}
                                       => req'[q].mod \in Module
    <3>1. CASE q = r
      <4>1. req[r].mod \in Module BY <1>5 DEF DeleteDependencies, TypeOK
      <4>2. req'[r].mod = req[r].mod \/ req'[r].at = "idle"
        BY <1>0, <1>5 DEF DeleteDependencies, Goto, Answer, Idle, Req
      <4> QED BY <3>1, <4>1, <4>2
    <3>2. CASE q # r
      BY <1>0, <1>5, <3>2 DEF DeleteDependencies, Goto, Answer, TypeOK
    <3> QED BY <3>1, <3>2
  <2> QED BY <1>5, <2>1, <2>2 DEF DeleteDependencies, TypeOK
<1>6. CASE InsertDependencies(r)
  <2>1. deps' \subseteq rows \X rows
    BY <1>6 DEF InsertDependencies, TypeOK
  <2>2. req' \in [Request -> Req]
    BY <1>0, <1>6, IdleType DEF InsertDependencies, Answer
  <2>3. ASSUME NEW q \in Request PROVE req'[q].at \in {"targets", "graph", "search", "delete", "insert", "drop"}
                                       => req'[q].mod \in Module
    BY <1>0, <1>6 DEF InsertDependencies, Answer, TypeOK, Idle
  <2> QED BY <1>6, <2>1, <2>2, <2>3 DEF InsertDependencies, TypeOK
<1> QED BY <1>1, <1>2, <1>3, <1>4, <1>5, <1>6 DEF Replace

LEMMA ManageType ==
  ASSUME TypeOK, NEW r \in Request, Manage(r)
  PROVE  TypeOK'
<1>0. req[r] \in Req /\ req \in [Request -> Req]
  BY DEF TypeOK
<1>1. ASSUME NEW m \in Module, AddModule(r, m) PROVE TypeOK'
  <2>1. [req[r] EXCEPT !.at = "increment"] \in Req
    BY <1>0 DEF Req
  <2>2. req' \in [Request -> Req] /\ req'[r].at = "increment"
    BY <1>0, <1>1, <2>1 DEF AddModule, Goto, Req
  <2>3. \A q \in Request \ {r} : req'[q] = req[q]
    BY <1>0, <1>1 DEF AddModule, Goto
  <2> QED BY <1>1, <2>2, <2>3 DEF AddModule, TypeOK
<1>2. ASSUME NEW m \in Module, AskRemoval(r, m) PROVE TypeOK'
  <2> DEFINE q == [Idle EXCEPT !.at = "drop", !.mod = m]
  <2>1. Sound(q) BY IdleType DEF Sound, Req
  <2> QED BY <1>2, <2>1, ReqStepType DEF AskRemoval, TypeOK
<1>3. CASE IncrementCount(r)
  BY <1>3, AnswerType DEF IncrementCount, TypeOK
<1>4. CASE DropModule(r)
  <2>1. deps' \subseteq rows' \X rows'
    BY <1>4 DEF DropModule, TypeOK
  <2>2. [Idle EXCEPT !.at = "decrement"] \in Req
    BY IdleType DEF Req
  <2>3. req' \in [Request -> Req] /\ req'[r].at = "decrement"
    BY <1>0, <1>4, <2>2 DEF DropModule, Idle
  <2>4. \A q \in Request \ {r} : req'[q] = req[q]
    BY <1>0, <1>4 DEF DropModule
  <2> QED BY <1>4, <2>1, <2>3, <2>4 DEF DropModule, TypeOK
<1>5. CASE DecrementCount(r)
  BY <1>5, AnswerType DEF DecrementCount, TypeOK
<1>6. CASE RefuseRemoval(r)
  BY <1>6, AnswerType DEF RefuseRemoval, TypeOK
<1> QED BY <1>1, <1>2, <1>3, <1>4, <1>5, <1>6 DEF Manage

\* A step of the search changes what it has come to, and nothing else until
\* it is done.
LEMMA SearchStep ==
  ASSUME TypeOK, NEW r \in Request, Search(r)
  PROVE  /\ req[r] \in Req /\ req[r].at = "search" /\ req[r].mod \in Module
         /\ \A q \in Request \ {r} : req'[q] = req[q]
         /\ req' = [req EXCEPT ![r] = req'[r]] /\ Sound(req'[r])
         /\ UNCHANGED <<rows, fresh, deps, moduleCount, restarts, overlapped, doubled>>
         /\ \/ Answer(r) /\ req'[r] = Idle
            \/ /\ req'[r].at = "search" /\ ~NoCycle(r)
               /\ req'[r].mod = req[r].mod /\ req'[r].ids = req[r].ids
               /\ req'[r].graph = req[r].graph /\ req'[r].order = req[r].order
            \/ /\ req'[r].at = "delete" /\ NoCycle(r)
               /\ req'[r].mod = req[r].mod /\ req'[r].ids = req[r].ids
               /\ req'[r].order = req[r].order
<1>0. req[r] \in Req /\ req \in [Request -> Req]
  BY DEF TypeOK
<1>1. /\ req[r].at = "search"
      /\ UNCHANGED <<rows, fresh, deps, moduleCount, restarts, overlapped, doubled>>
  BY DEF Search, SearchFrom, Visit, Return, NoCycle
<1>2. req[r].mod \in Module BY <1>1 DEF TypeOK
<1>3. CASE Answer(r)
  <2>1. req'[r] = Idle /\ req' = [req EXCEPT ![r] = req'[r]] BY <1>0, <1>3 DEF Answer
  <2>2. Sound(Idle) BY IdleType DEF Sound, Idle
  <2>3. \A q \in Request \ {r} : req'[q] = req[q] BY <1>0, <1>3 DEF Answer
  <2> QED BY <1>0, <1>1, <1>2, <1>3, <2>1, <2>2, <2>3
<1>4. CASE SearchFrom(r)
  <2> DEFINE q == [req[r] EXCEPT !.todo = Tail(@), !.visited = {req[r].mod},
                                 !.frames = <<{Head(req[r].todo)}>>]
  <2>1. req[r].todo \in Seq(Module) /\ req[r].todo # <<>> BY <1>0, <1>4 DEF SearchFrom, Req
  <2>2. Tail(req[r].todo) \in Seq(Module) /\ Head(req[r].todo) \in Module BY <2>1
  <2>3. <<{Head(req[r].todo)}>> \in Seq(SUBSET Module) BY <2>2
  <2>4. q \in Req /\ q.at = "search" /\ q.mod = req[r].mod /\ q.ids = req[r].ids
        /\ q.graph = req[r].graph /\ q.order = req[r].order
    BY <1>0, <1>1, <1>2, <2>2, <2>3 DEF Req
  <2>5. req' = [req EXCEPT ![r] = q] BY <1>4 DEF SearchFrom
  <2>6. ~NoCycle(r) BY <1>4 DEF SearchFrom, NoCycle
  <2> HIDE DEF q
  <2>7. req'[r] = q /\ req' = [req EXCEPT ![r] = req'[r]] BY <1>0, <2>5
  <2>8. \A p \in Request \ {r} : req'[p] = req[p] BY <1>0, <2>5
  <2>9. Sound(q) BY <1>2, <2>4 DEF Sound
  <2> QED BY <1>0, <1>1, <1>2, <2>4, <2>6, <2>7, <2>8, <2>9
<1>5. CASE (Visit(r) \/ Return(r)) /\ ~Answer(r)
  <2>1. PICK frames \in Seq(SUBSET Module), visited \in SUBSET Module :
               req' = [req EXCEPT ![r].frames = frames, ![r].visited = visited]
    <3> DEFINE n == Len(req[r].frames)
    <3>1. req[r].frames \in Seq(SUBSET Module) /\ n \in Nat \ {0} /\ req[r].visited \in SUBSET Module
      BY <1>0, <1>5 DEF Visit, Return, Req
    <3>2. CASE Visit(r)
      <4>1. PICK d \in req[r].frames[n] :
              LET rest == [req[r].frames EXCEPT ![n] = @ \ {d}]
                  next == {c \in Module : <<d, c>> \in req[r].graph}
              IN  \/ d = req[r].mod /\ Answer(r)
                  \/ /\ d # req[r].mod /\ d \in req[r].visited
                     /\ req' = [req EXCEPT ![r].frames = rest]
                  \/ /\ d # req[r].mod /\ d \notin req[r].visited
                     /\ req' = [req EXCEPT ![r].frames = Append(rest, next),
                                           ![r].visited = @ \cup {d}]
        BY <3>2 DEF Visit
      <4> DEFINE rest == [req[r].frames EXCEPT ![n] = @ \ {d}]
                 next == {c \in Module : <<d, c>> \in req[r].graph}
      <4>2. req[r].frames[n] \in SUBSET Module BY <3>1
      <4>3. rest \in Seq(SUBSET Module) BY <3>1, <4>2
      <4>4. Append(rest, next) \in Seq(SUBSET Module)
        <5>1. next \in SUBSET Module OBVIOUS
        <5> HIDE DEF rest, next
        <5> QED BY <4>3, <5>1
      <4>5. req[r].visited \cup {d} \in SUBSET Module BY <3>1, <4>2
      <4> HIDE DEF rest, next
      <4>6. CASE req' = [req EXCEPT ![r].frames = rest]
        <5>1. [req[r] EXCEPT !.frames = rest]
               = [req[r] EXCEPT !.frames = rest, !.visited = req[r].visited]
          BY <1>0 DEF Req
        <5>2. req' = [req EXCEPT ![r].frames = rest, ![r].visited = req[r].visited]
          BY <4>6, <5>1
        <5> QED BY <3>1, <4>3, <5>2
      <4>7. CASE req' = [req EXCEPT ![r].frames = Append(rest, next), ![r].visited = @ \cup {d}]
        BY <4>4, <4>5, <4>7
      <4> QED BY <1>5, <4>1, <4>6, <4>7 DEF rest, next
    <3>3. CASE Return(r)
      <4> DEFINE rest == SubSeq(req[r].frames, 1, n - 1)
      <4>1. rest \in Seq(SUBSET Module) BY <3>1
      <4>2. req' = [req EXCEPT ![r].frames = rest] BY <3>3 DEF Return
      <4> HIDE DEF rest
      <4>3. [req[r] EXCEPT !.frames = rest]
             = [req[r] EXCEPT !.frames = rest, !.visited = req[r].visited]
        BY <1>0 DEF Req
      <4>4. req' = [req EXCEPT ![r].frames = rest, ![r].visited = req[r].visited]
        BY <4>2, <4>3
      <4> QED BY <3>1, <4>1, <4>4
    <3> QED BY <1>5, <3>2, <3>3
  <2> DEFINE q == [req[r] EXCEPT !.frames = frames, !.visited = visited]
  <2>2. q \in Req /\ q.at = "search" /\ q.mod = req[r].mod /\ q.ids = req[r].ids
        /\ q.graph = req[r].graph /\ q.order = req[r].order
    BY <1>0, <1>1, <1>2 DEF Req
  <2>3. req' = [req EXCEPT ![r] = q] BY <2>1
  <2>4. ~NoCycle(r)
    <3>1. Len(req[r].frames) > 0 BY <1>5 DEF Visit, Return
    <3> QED BY <3>1 DEF NoCycle
  <2> HIDE DEF q
  <2>5. req'[r] = q /\ req' = [req EXCEPT ![r] = req'[r]] BY <1>0, <2>3
  <2>6. \A p \in Request \ {r} : req'[p] = req[p] BY <1>0, <2>3
  <2>7. Sound(q) BY <1>2, <2>2 DEF Sound
  <2> QED BY <1>0, <1>1, <1>2, <2>2, <2>4, <2>5, <2>6, <2>7
<1>6. CASE NoCycle(r)
  <2> DEFINE q == [req[r] EXCEPT !.at = "delete", !.listed = {}, !.graph = {}, !.visited = {}]
  <2>1. q \in Req /\ q.at = "delete" /\ q.mod = req[r].mod /\ q.ids = req[r].ids
        /\ q.order = req[r].order
    BY <1>0, <1>2 DEF Req
  <2>2. req' = [req EXCEPT ![r] = q] BY <1>6 DEF NoCycle
  <2> HIDE DEF q
  <2>3. req'[r] = q /\ req' = [req EXCEPT ![r] = req'[r]] BY <1>0, <2>2
  <2>4. \A p \in Request \ {r} : req'[p] = req[p] BY <1>0, <2>2
  <2>5. Sound(q) BY <1>2, <2>1 DEF Sound
  <2> QED BY <1>0, <1>1, <1>2, <1>6, <2>1, <2>3, <2>4, <2>5
<1> QED BY <1>3, <1>4, <1>5, <1>6 DEF Search

LEMMA SearchType ==
  ASSUME TypeOK, NEW r \in Request, Search(r)
  PROVE  TypeOK'
<1>1. moduleCount' \in Int /\ overlapped' \in BOOLEAN /\ doubled' \in BOOLEAN
  BY SearchStep DEF TypeOK
<1> DEFINE q == req'[r]
<1>2. req' = [req EXCEPT ![r] = q] /\ Sound(q) BY SearchStep
<1> HIDE DEF q
<1> QED BY <1>1, <1>2, SearchStep, ReqStepType

LEMMA RunType ==
  ASSUME ProjectGraphAssumption, TypeOK, NEW r \in Request, Run(r) \/ Sort(r)
  PROVE  TypeOK'
<1>0. req[r] \in Req /\ req \in [Request -> Req]
  BY DEF TypeOK
<1>1. CASE ListForRun(r)
  <2> DEFINE q == [Idle EXCEPT !.at = "read", !.listed = rows]
  <2>1. Sound(q) BY IdleType DEF Sound, Req, TypeOK
  <2> QED BY <1>1, <2>1, ReqStepType DEF ListForRun, TypeOK
<1>2. CASE ReadDependencies(r)
  <2> DEFINE graph == {e \in deps : e[1] \in req[r].listed}
             first == {m \in req[r].listed : Unmet(m, graph, {}) = {}}
  <2>1. first \subseteq Module /\ IsFiniteSet(first)
    BY <1>0, FS_Subset DEF Req, ProjectGraphAssumption
  <2>2. PICK roots \in SetToSeqs(first) :
               req' = [req EXCEPT ![r].at = "sort", ![r].graph = graph, ![r].queue = roots]
    BY <1>2 DEF ReadDependencies
  <2>3. roots \in Seq(Module)
    <3>1. roots \in Seq(first) BY <2>1, OrdersOfSet
    <3> QED BY <2>1, <3>1
  <2> DEFINE q == [req[r] EXCEPT !.at = "sort", !.graph = graph, !.queue = roots]
  <2>4. graph \subseteq Module \X Module BY DEF TypeOK
  <2>5. Sound(q) BY <1>0, <2>3, <2>4 DEF Sound, Req
  <2>6. req' = [req EXCEPT ![r] = q] BY <2>2
  <2> HIDE DEF q
  <2> QED BY <1>2, <2>5, <2>6, ReqStepType DEF ReadDependencies, TypeOK
<1>3. CASE TakeModule(r)
  <2> DEFINE order == Append(req[r].order, Head(req[r].queue))
             ready == {m \in Module : /\ <<m, Head(req[r].queue)>> \in req[r].graph
                                      /\ Unmet(m, req[r].graph, ToSet(order)) = {}}
  <2>1. IsFiniteSet(ready)
    BY FS_Subset DEF ProjectGraphAssumption
  <2>2. PICK next \in SetToSeqs(ready) :
               req' = [req EXCEPT ![r].queue = Tail(@) \o next, ![r].order = order]
    BY <1>3 DEF TakeModule
  <2>3. next \in Seq(Module)
    <3>1. next \in Seq(ready) BY <2>1, OrdersOfSet
    <3>2. ready \subseteq Module OBVIOUS
    <3> HIDE DEF ready
    <3> QED BY <3>1, <3>2
  <2>4. req[r].queue \in Seq(Module) /\ req[r].queue # <<>> /\ req[r].order \in Seq(Module)
    BY <1>0, <1>3 DEF TakeModule, Req
  <2>5. order \in Seq(Module) /\ Tail(req[r].queue) \o next \in Seq(Module)
    BY <2>3, <2>4
  <2> DEFINE q == [req[r] EXCEPT !.queue = Tail(@) \o next, !.order = order]
  <2> HIDE DEF order
  <2>6. Sound(q) BY <1>0, <2>5, <1>3 DEF Sound, Req, TakeModule
  <2>7. req' = [req EXCEPT ![r] = q] BY <2>2
  <2> HIDE DEF q
  <2> QED BY <1>3, <2>6, <2>7, ReqStepType DEF TakeModule, TypeOK
<1>4. CASE FinishSort(r)
  BY <1>4, AnswerType DEF FinishSort, TypeOK
<1> QED BY <1>1, <1>2, <1>3, <1>4 DEF Run, Sort

LEMMA NextType == ProjectGraphAssumption /\ TypeOK /\ [Next]_vars => TypeOK'
<1> SUFFICES ASSUME ProjectGraphAssumption, TypeOK, [Next]_vars PROVE TypeOK' OBVIOUS
<1>1. CASE Restart
  <2>1. req' \in [Request -> Req] /\ \A r \in Request : req'[r].at = "idle"
    BY <1>1, IdleType DEF Restart, Idle
  <2>2. restarts' \in 0 .. MaxRestarts
    BY <1>1 DEF Restart, TypeOK, ProjectGraphAssumption
  <2> QED BY <1>1, <2>1, <2>2 DEF Restart, TypeOK
<1>2. CASE UNCHANGED vars
  BY <1>2 DEF vars, TypeOK
<1> QED BY <1>1, <1>2, ReplaceType, ManageType, RunType, SearchType DEF Next

\* Every variable keeps its type: dependencies only join modules that exist.
THEOREM TypeCorrect == Spec => []TypeOK
<1>1. Init => TypeOK BY InitType, ProjectGraphAssumption
<1>2. TypeOK /\ [Next]_vars => TypeOK' BY NextType, ProjectGraphAssumption
<1> QED BY <1>1, <1>2, PTL DEF Spec

----------------------------------------------------------------------------
(* Graphs *)

\* What can be reached from d does not lead to m.
Misses(m, d, graph) ==
  \E visited \in SUBSET Module :
    /\ d \in visited /\ m \notin visited
    /\ \A e \in graph : e[1] \in visited => e[2] \in visited

\* What one of ids needs, directly or not, is m.
Found(m, ids, graph) == \E d \in ids : ~Misses(m, d, graph)

LEMMA AcyclicSubset ==
  ASSUME NEW graph, NEW part \in SUBSET graph, Acyclic(graph)
  PROVE  Acyclic(part)
BY DEF Acyclic

LEMMA FoundInSubset ==
  ASSUME NEW m, NEW ids, NEW graph, NEW part \in SUBSET graph, ~Found(m, ids, graph)
  PROVE  ~Found(m, ids, part)
<1> SUFFICES ASSUME NEW d \in ids
             PROVE  \E visited \in SUBSET Module :
                      /\ d \in visited /\ m \notin visited
                      /\ \A e \in part : e[1] \in visited => e[2] \in visited
  BY DEF Found, Misses
<1>1. PICK visited \in SUBSET Module :
             /\ d \in visited /\ m \notin visited
             /\ \A e \in graph : e[1] \in visited => e[2] \in visited
  BY DEF Found, Misses
<1> QED BY <1>1

\* A replacement that is not found closes no cycle: in a set that m is in,
\* what can be visited from m's new dependency has a module that needs none
\* of the others, as it had before.
LEMMA StaysAcyclic ==
  ASSUME NEW m \in Module, NEW ids \in SUBSET Module, NEW graph,
         Acyclic(graph), ~Found(m, ids, graph)
  PROVE  Acyclic(graph \cup ({m} \X ids))
<1> DEFINE new == graph \cup ({m} \X ids)
<1> SUFFICES ASSUME NEW S \in (SUBSET Module) \ {{}}
             PROVE  \E k \in S : \A d \in S : <<k, d>> \notin new
  BY DEF Acyclic
<1>1. PICK k \in S : \A d \in S : <<k, d>> \notin graph
  BY DEF Acyclic
<1>2. CASE \A d \in S : <<k, d>> \notin new
  BY <1>2
<1>3. CASE \E d \in S : <<k, d>> \in new
  <2>1. PICK d \in S : k = m /\ d \in ids
    BY <1>1, <1>3
  <2>2. PICK visited \in SUBSET Module :
               /\ d \in visited /\ m \notin visited
               /\ \A e \in graph : e[1] \in visited => e[2] \in visited
    BY <2>1 DEF Found, Misses
  <2>3. S \cap visited \in (SUBSET Module) \ {{}}
    BY <2>1, <2>2
  <2>4. PICK c \in S \cap visited : \A e \in S \cap visited : <<c, e>> \notin graph
    BY <2>3 DEF Acyclic
  <2>5. ASSUME NEW e \in S PROVE <<c, e>> \notin graph
    <3>1. SUFFICES ASSUME <<c, e>> \in graph PROVE FALSE OBVIOUS
    <3>2. e \in visited
      <4>1. <<c, e>>[1] = c /\ <<c, e>>[2] = e OBVIOUS
      <4> QED BY <2>2, <2>4, <3>1, <4>1
    <3> QED BY <2>4, <3>1, <3>2
  <2>6. c # m BY <2>2, <2>4
  <2>7. \A e \in S : <<c, e>> \notin new BY <2>5, <2>6
  <2> QED BY <2>4, <2>7
<1> QED BY <1>2, <1>3

\* If whatever holds ids, and all that its modules but m need, holds m, then
\* ids close a cycle. What m cannot be reached from is closed too: every
\* module outside needs another one outside.
LEMMA ClosesCycle ==
  ASSUME NEW m \in Module, NEW ids \in SUBSET Module,
         NEW graph \in SUBSET (Module \X Module),
         \A e \in graph : e[1] # m,
         \A W \in SUBSET Module :
           ids \subseteq W /\ (\A e \in graph : e[1] \in W => e[2] \in W) => m \in W
  PROVE  ~Acyclic(graph \cup {m} \X ids)
<1> DEFINE Closed(W) == m \notin W /\ \A e \in graph : e[1] \in W => e[2] \in W
           away == UNION {W \in SUBSET Module : Closed(W)}
           replaced == graph \cup {m} \X ids
           S == Module \ away
<1>1. away \in SUBSET Module /\ Closed(away) OBVIOUS
<1>2. PICK first \in ids : first \notin away BY <1>1
<1>3. ASSUME NEW v \in S PROVE \E d \in S : <<v, d>> \in replaced
  <2>1. CASE v = m
    <3>1. first \in S BY <1>2
    <3>2. <<v, first>> \in replaced BY <2>1
    <3> QED BY <3>1, <3>2
  <2>2. CASE v # m
    <3>1. PICK d \in Module \ away : <<v, d>> \in graph
      <4> SUFFICES ASSUME \A d \in Module \ away : <<v, d>> \notin graph PROVE FALSE
        OBVIOUS
      <4> DEFINE more == away \cup {v}
      <4>1. more \in SUBSET Module BY <1>1
      <4>2. \A e \in graph : e[1] \in more => e[2] \in more
        <5> SUFFICES ASSUME NEW e \in graph, e[1] \in more PROVE e[2] \in more OBVIOUS
        <5>1. e = <<e[1], e[2]>> /\ e[2] \in Module OBVIOUS
        <5>2. CASE e[1] = v BY <5>1, <5>2
        <5>3. CASE e[1] \in away BY <1>1, <5>3
        <5> QED BY <5>2, <5>3
      <4>3. Closed(more) BY <1>1, <2>2, <4>2
      <4>4. more \subseteq away BY <4>1, <4>3
      <4> QED BY <4>4
    <3> QED BY <3>1
  <2> QED BY <2>1, <2>2
<1>4. m \in S BY <1>1
<1>5. S \in (SUBSET Module) \ {{}} BY <1>4
<1> HIDE DEF S, replaced
<1>6. ~Acyclic(replaced) BY <1>3, <1>5 DEF Acyclic
<1> QED BY <1>6 DEF replaced

----------------------------------------------------------------------------
(* The search *)

\* The dependencies that calls of dfs have not come to.
Pending(frames) == {d \in Module : \E i \in DOMAIN frames : d \in frames[i]}

\* What the search from one id was in, or will come to.
Seen(q) == (q.visited \ {q.mod}) \cup Pending(q.frames)

\* Between two calls of dfs: every id is left to search from, misses the
\* module, or is seen; what a visited module needs is seen; and nothing is
\* seen that cannot be reached from ids without passing the module.
Searching(q) ==
  /\ q.at # "search" => q.visited = {} /\ q.frames = <<>>
  /\ q.at = "search" =>
       /\ \A d \in ToSet(q.ids) :
            d \in ToSet(q.todo) \/ Misses(q.mod, d, q.graph) \/ d \in Seen(q)
       /\ ToSet(q.todo) \subseteq ToSet(q.ids)
       /\ \A e \in q.graph : e[1] \in q.visited \ {q.mod} => e[2] \in Seen(q)
       /\ \A W \in SUBSET Module :
            /\ ToSet(q.ids) \subseteq W
            /\ \A e \in q.graph : e[1] \in W /\ e[1] # q.mod => e[2] \in W
            => Seen(q) \subseteq W

SearchInv == \A r \in Request : Searching(req[r])

LEMMA ToSetOfHeadAndTail ==
  ASSUME NEW S, NEW s \in Seq(S), s # <<>>
  PROVE  ToSet(s) = {Head(s)} \cup ToSet(Tail(s))
<1>1. Len(Tail(s)) = Len(s) - 1 /\ Len(s) \in Nat \ {0} /\ Head(s) = s[1] /\ Tail(s) \in Seq(S)
  OBVIOUS
<1>2. \A i \in 1 .. Len(s) - 1 : Tail(s)[i] = s[i + 1]
  OBVIOUS
<1>3. ToSet(Tail(s)) \subseteq ToSet(s) /\ Head(s) \in ToSet(s)
  BY <1>1, <1>2 DEF ToSet
<1>4. ASSUME NEW x \in ToSet(s) \ {Head(s)} PROVE x \in ToSet(Tail(s))
  <2>1. PICK i \in 1 .. Len(s) : x = s[i] BY DEF ToSet
  <2>2. i # 1 BY <2>1, <1>1
  <2>3. PICK k \in 1 .. Len(s) - 1 : k + 1 = i BY <2>2, <1>1
  <2>4. Tail(s)[k] = x BY <2>1, <2>3, <1>2
  <2>5. k \in DOMAIN Tail(s) BY <1>1
  <2> QED BY <2>4, <2>5 DEF ToSet
<1> QED BY <1>3, <1>4

LEMMA PendingOfOne ==
  ASSUME NEW d \in Module
  PROVE  Pending(<<{d}>>) = {d} /\ Pending(<<>>) = {}
BY DEF Pending

LEMMA PendingWithout ==
  ASSUME NEW frames \in Seq(SUBSET Module), NEW n \in DOMAIN frames, NEW d \in frames[n]
  PROVE  /\ [frames EXCEPT ![n] = @ \ {d}] \in Seq(SUBSET Module)
         /\ Pending(frames) = Pending([frames EXCEPT ![n] = @ \ {d}]) \cup {d}
<1> DEFINE rest == [frames EXCEPT ![n] = @ \ {d}]
<1>1. DOMAIN rest = DOMAIN frames /\ DOMAIN frames = 1 .. Len(frames) OBVIOUS
<1>2. /\ rest[n] = frames[n] \ {d}
      /\ \A i \in DOMAIN frames \ {n} : rest[i] = frames[i]
  OBVIOUS
<1>3. d \in Module /\ frames[n] \in SUBSET Module BY <1>1
<1>4. rest \in Seq(SUBSET Module) BY <1>3
<1> HIDE DEF rest
<1>5. Pending(frames) \subseteq Pending(rest) \cup {d}
  BY <1>1, <1>2 DEF Pending
<1>6. Pending(rest) \cup {d} \subseteq Pending(frames)
  BY <1>1, <1>2, <1>3 DEF Pending
<1> QED BY <1>4, <1>5, <1>6 DEF rest

LEMMA PendingOfAppend ==
  ASSUME NEW frames \in Seq(SUBSET Module), NEW next \in SUBSET Module
  PROVE  Pending(Append(frames, next)) = Pending(frames) \cup next
<1> DEFINE more == Append(frames, next)
           n == Len(frames)
<1>1. n \in Nat /\ DOMAIN frames = 1 .. n /\ DOMAIN more = 1 .. n + 1 OBVIOUS
<1>2. more[n + 1] = next /\ \A i \in 1 .. n : more[i] = frames[i] OBVIOUS
<1> HIDE DEF more, n
<1>3. Pending(more) \subseteq Pending(frames) \cup next
  <2> SUFFICES ASSUME NEW i \in 1 .. n + 1, NEW d \in more[i], d \in Module
               PROVE  d \in Pending(frames) \cup next
    BY <1>1 DEF Pending
  <2>1. CASE i = n + 1 BY <1>2, <2>1
  <2>2. CASE i \in 1 .. n BY <1>1, <1>2, <2>2 DEF Pending
  <2> QED BY <1>1, <2>1, <2>2
<1>4. Pending(frames) \subseteq Pending(more)
  <2>1. 1 .. n \subseteq 1 .. n + 1 BY <1>1
  <2> QED BY <1>1, <1>2, <2>1 DEF Pending
<1>5. next \subseteq Pending(more)
  <2>1. n + 1 \in DOMAIN more BY <1>1
  <2> QED BY <1>2, <2>1 DEF Pending
<1> QED BY <1>3, <1>4, <1>5 DEF more

LEMMA PendingOfFront ==
  ASSUME NEW frames \in Seq(SUBSET Module), Len(frames) > 0, frames[Len(frames)] = {}
  PROVE  Pending(SubSeq(frames, 1, Len(frames) - 1)) = Pending(frames)
<1> DEFINE n == Len(frames)
           front == SubSeq(frames, 1, n - 1)
<1>1. n \in Nat \ {0} /\ DOMAIN frames = 1 .. n /\ DOMAIN front = 1 .. n - 1 OBVIOUS
<1>2. \A i \in 1 .. n - 1 : front[i] = frames[i] OBVIOUS
<1>3. frames[n] = {} OBVIOUS
<1> HIDE DEF front, n
<1>4. Pending(front) \subseteq Pending(frames)
  <2>1. 1 .. n - 1 \subseteq 1 .. n BY <1>1
  <2> QED BY <1>1, <1>2, <2>1 DEF Pending
<1>5. Pending(frames) \subseteq Pending(front)
  <2> SUFFICES ASSUME NEW i \in 1 .. n, NEW d \in frames[i], d \in Module
               PROVE  d \in Pending(front)
    BY <1>1 DEF Pending
  <2>1. i # n BY <1>3
  <2>2. i \in 1 .. n - 1 BY <1>1, <2>1
  <2> QED BY <1>1, <1>2, <2>2 DEF Pending
<1> QED BY <1>4, <1>5 DEF front, n

\* Between two searches, what was seen misses the module.
LEMMA SeenMisses ==
  ASSUME NEW q \in Req, q.at = "search", Searching(q), q.frames = <<>>
  PROVE  \A d \in Seen(q) : Misses(q.mod, d, q.graph)
<1>1. Pending(<<>>) = {} BY DEF Pending
<1>2. Seen(q) = q.visited \ {q.mod} BY <1>1 DEF Seen
<1>3. Seen(q) \in SUBSET Module BY <1>2 DEF Req
<1>4. \A e \in q.graph : e[1] \in Seen(q) => e[2] \in Seen(q) BY <1>2 DEF Searching
<1> QED BY <1>2, <1>3, <1>4 DEF Misses

LEMMA Passes ==
  ASSUME NEW q \in Req, q.at = "search", Searching(q), q.frames = <<>>, q.todo = <<>>
  PROVE  ~Found(q.mod, ToSet(q.ids), q.graph)
<1>1. ToSet(<<>>) = {} BY DEF ToSet
<1>2. \A d \in ToSet(q.ids) : Misses(q.mod, d, q.graph)
  BY <1>1, SeenMisses DEF Searching
<1> QED BY <1>2 DEF Found

LEMMA IdleSearching == Searching(Idle)
BY DEF Searching, Idle

LEMMA InitSearch == Init => SearchInv
BY IdleSearching DEF Init, SearchInv

\* The other steps search nothing, but detectCycle begins to.
LEMMA ReplaceSearch ==
  ASSUME TypeOK, SearchInv, NEW r \in Request, Replace(r)
  PROVE  SearchInv'
<1>0. req[r] \in Req /\ req \in [Request -> Req] /\ Searching(req[r])
  BY DEF TypeOK, SearchInv
<1>1. \A q \in Request \ {r} : req'[q] = req[q]
  BY <1>0 DEF Replace, AskDependencies, LookUpTarget, ListModules, DetectCycle,
     DeleteDependencies, InsertDependencies, Goto, Answer
<1>2. CASE DetectCycle(r)
  <2>1. /\ req[r].at = "graph" /\ req'[r].at = "search"
        /\ req'[r].ids = req[r].ids /\ req'[r].todo = req[r].ids
        /\ req'[r].visited = req[r].visited /\ req'[r].frames = req[r].frames
    BY <1>0, <1>2 DEF DetectCycle, Req
  <2>2. req'[r].visited = {} /\ req'[r].frames = <<>> BY <1>0, <2>1 DEF Searching
  <2>3. Seen(req'[r]) = {} BY <2>2 DEF Seen, Pending
  <2>4. Searching(req'[r]) BY <2>1, <2>2, <2>3 DEF Searching
  <2> QED BY <1>1, <2>4 DEF SearchInv
<1>3. CASE ~DetectCycle(r)
  <2>1. CASE Answer(r)
    <3>1. req'[r] = Idle BY <1>0, <2>1 DEF Answer
    <3> QED BY <1>1, <3>1, IdleSearching DEF SearchInv
  <2>2. CASE ~Answer(r)
    <3>1. ASSUME NEW m \in Module, NEW ids \in Asked, AskDependencies(r, m, ids)
          PROVE  req'[r].at = "targets" /\ req'[r].visited = {} /\ req'[r].frames = <<>>
      BY <1>0, <3>1 DEF AskDependencies, Idle
    <3> DEFINE Kept == req'[r].visited = req[r].visited /\ req'[r].frames = req[r].frames
    <3>2. LookUpTarget(r) => req[r].at = "targets" /\ req'[r].at = "targets" /\ Kept
      BY <1>0, <2>2 DEF LookUpTarget, Req
    <3>3. ListModules(r) => req[r].at = "targets" /\ req'[r].at = "graph" /\ Kept
      BY <1>0 DEF ListModules, Req
    <3>4. DeleteDependencies(r) => req[r].at = "delete" /\ req'[r].at = "insert" /\ Kept
      BY <1>0, <2>2 DEF DeleteDependencies, Goto, Req
    <3>5. ~InsertDependencies(r) BY <2>2 DEF InsertDependencies
    <3>6. Searching(req'[r])
      BY <1>0, <1>3, <3>1, <3>2, <3>3, <3>4, <3>5 DEF Replace, Searching
    <3> QED BY <1>1, <3>6 DEF SearchInv
  <2> QED BY <2>1, <2>2
<1> QED BY <1>2, <1>3

LEMMA OtherSearch ==
  ASSUME TypeOK, SearchInv, NEW r \in Request, Manage(r) \/ Run(r) \/ Sort(r)
  PROVE  SearchInv'
<1>0. req[r] \in Req /\ req \in [Request -> Req] /\ Searching(req[r])
  BY DEF TypeOK, SearchInv
<1>1. \A q \in Request \ {r} : req'[q] = req[q]
  BY <1>0 DEF Manage, Run, Sort, AddModule, AskRemoval, IncrementCount, DropModule,
     RefuseRemoval, DecrementCount, ListForRun, ReadDependencies, TakeModule, FinishSort, Goto, Answer
<1> DEFINE Kept == /\ req'[r].visited \in {{}, req[r].visited}
                   /\ req'[r].frames \in {<<>>, req[r].frames}
<1>2. Idle.at = "idle" /\ Idle.visited = {} /\ Idle.frames = <<>> BY DEF Idle
<1>3. req[r].at # "search"
  <2>1. Manage(r) => req[r].at \in {"idle", "increment", "drop", "decrement"}
    BY <1>2 DEF Manage, AddModule, AskRemoval, IncrementCount, DropModule, RefuseRemoval, DecrementCount
  <2>2. Run(r) \/ Sort(r) => req[r].at \in {"idle", "read", "sort"}
    BY <1>2 DEF Run, Sort, ListForRun, ReadDependencies, TakeModule, FinishSort
  <2> QED BY <2>1, <2>2
<1>4. req'[r].at # "search" /\ Kept
  <2>1. ASSUME NEW m \in Module, AddModule(r, m) PROVE req'[r].at = "increment" /\ Kept
    BY <1>0, <2>1 DEF AddModule, Goto, Req
  <2>2. ASSUME NEW m \in Module, AskRemoval(r, m) PROVE req'[r].at = "drop" /\ Kept
    BY <1>0, <2>2 DEF AskRemoval, Idle
  <2>3. DropModule(r) => req'[r].at = "decrement" /\ Kept
    BY <1>0 DEF DropModule, Idle
  <2>4. Answer(r) => req'[r].at = "idle" /\ Kept BY <1>0, <1>2 DEF Answer
  <2>5. IncrementCount(r) \/ DecrementCount(r) \/ RefuseRemoval(r) \/ FinishSort(r) => Answer(r)
    BY DEF IncrementCount, DecrementCount, RefuseRemoval, FinishSort
  <2>6. ListForRun(r) => req'[r].at = "read" /\ Kept BY <1>0 DEF ListForRun, Idle
  <2>7. ASSUME ReadDependencies(r) PROVE req'[r].at = "sort" /\ Kept
    <3>1. PICK graph, roots :
            req' = [req EXCEPT ![r].at = "sort", ![r].graph = graph, ![r].queue = roots]
      BY <2>7 DEF ReadDependencies
    <3> QED BY <1>0, <3>1 DEF Req
  <2>8. ASSUME TakeModule(r) PROVE req'[r].at = "sort" /\ Kept
    <3>1. PICK next, order :
            req' = [req EXCEPT ![r].queue = Tail(@) \o next, ![r].order = order]
      BY <2>8 DEF TakeModule
    <3> QED BY <1>0, <2>8, <3>1 DEF Req, TakeModule
  <2> HIDE DEF Kept
  <2> QED BY <2>1, <2>2, <2>3, <2>4, <2>5, <2>6, <2>7, <2>8 DEF Manage, Run, Sort
<1>5. Searching(req'[r]) BY <1>0, <1>3, <1>4 DEF Searching
<1> QED BY <1>1, <1>5 DEF SearchInv

LEMMA SearchSearch ==
  ASSUME TypeOK, SearchInv, NEW r \in Request, Search(r)
  PROVE  SearchInv'
<1> DEFINE q == req[r]
           n == Len(q.frames)
<1>0. /\ q \in Req /\ req \in [Request -> Req] /\ Searching(q) /\ q.at = "search"
      /\ q.mod \in Module /\ q.todo \in Seq(Module) /\ q.frames \in Seq(SUBSET Module)
      /\ q.visited \in SUBSET Module /\ q.graph \in SUBSET (Module \X Module)
  BY SearchStep DEF TypeOK, SearchInv, Req
<1>1. SUFFICES Searching(req'[r])
  BY SearchStep DEF SearchInv
<1>2. CASE Answer(r) /\ req'[r] = Idle
  BY <1>2, IdleSearching
<1>3. CASE NoCycle(r)
  <2>1. req'[r].at = "delete" /\ req'[r].visited = {} /\ req'[r].frames = <<>>
    BY <1>0, <1>3 DEF NoCycle, Req
  <2> QED BY <2>1 DEF Searching
\* The search from the first id that is left begins: what the searches before
\* have seen misses the module.
<1>4. CASE SearchFrom(r)
  <2> DEFINE h == Head(q.todo)
  <2>1. /\ req'[r].at = "search" /\ req'[r].mod = q.mod /\ req'[r].ids = q.ids
        /\ req'[r].graph = q.graph /\ req'[r].todo = Tail(q.todo)
        /\ req'[r].visited = {q.mod} /\ req'[r].frames = <<{h}>>
    BY <1>0, <1>4 DEF SearchFrom, Req
  <2>2. q.todo # <<>> /\ q.frames = <<>> BY <1>4 DEF SearchFrom
  <2>3. h \in Module BY <1>0, <2>2
  <2>4. ToSet(q.todo) = {h} \cup ToSet(Tail(q.todo)) BY <1>0, <2>2, ToSetOfHeadAndTail
  <2>5. Seen(req'[r]) = {h} BY <2>1, <2>3, PendingOfOne DEF Seen
  <2>6. \A d \in Seen(q) : Misses(q.mod, d, q.graph) BY <1>0, <2>2, SeenMisses
  <2>7. h \in ToSet(q.ids) BY <1>0, <2>4 DEF Searching
  <2> HIDE DEF q, h
  <2>8. \A d \in ToSet(q.ids) :
          d \in ToSet(Tail(q.todo)) \/ Misses(q.mod, d, q.graph) \/ d \in {h}
    BY <1>0, <2>4, <2>6 DEF Searching
  <2>9. ToSet(Tail(q.todo)) \subseteq ToSet(q.ids) BY <1>0, <2>4 DEF Searching
  <2> QED BY <2>1, <2>5, <2>7, <2>8, <2>9 DEF Searching
\* What is seen stays what is in the frames or visited.
<1>5. ASSUME req'[r].at = "search", req'[r].mod = q.mod, req'[r].ids = q.ids,
             req'[r].graph = q.graph, req'[r].todo = q.todo,
             req'[r].visited = q.visited, Seen(req'[r]) = Seen(q)
      PROVE  Searching(req'[r])
  BY <1>0, <1>5 DEF Searching
<1>6. CASE Visit(r) /\ ~Answer(r)
  <2>1. PICK d \in q.frames[n] :
          LET rest == [q.frames EXCEPT ![n] = @ \ {d}]
              next == {c \in Module : <<d, c>> \in q.graph}
          IN  \/ d = q.mod /\ Answer(r)
              \/ /\ d # q.mod /\ d \in q.visited
                 /\ req' = [req EXCEPT ![r].frames = rest]
              \/ /\ d # q.mod /\ d \notin q.visited
                 /\ req' = [req EXCEPT ![r].frames = Append(rest, next),
                                       ![r].visited = @ \cup {d}]
    BY <1>6 DEF Visit
  <2> DEFINE rest == [q.frames EXCEPT ![n] = @ \ {d}]
             next == {c \in Module : <<d, c>> \in q.graph}
  <2>2. n \in DOMAIN q.frames /\ d # q.mod /\ d \in Module BY <1>0, <1>6, <2>1 DEF Visit
  <2>3. rest \in Seq(SUBSET Module) /\ Pending(q.frames) = Pending(rest) \cup {d}
    BY <1>0, <2>2, PendingWithout
  <2>4. CASE d \in q.visited
    <3>1. req' = [req EXCEPT ![r].frames = rest] BY <1>6, <2>1, <2>4
    <3> HIDE DEF rest
    <3>2. /\ req'[r].at = "search" /\ req'[r].mod = q.mod /\ req'[r].ids = q.ids
          /\ req'[r].graph = q.graph /\ req'[r].todo = q.todo
          /\ req'[r].visited = q.visited /\ req'[r].frames = rest
      BY <1>0, <3>1 DEF Req
    <3>3. Seen(req'[r]) = Seen(q) BY <2>2, <2>3, <2>4, <3>2 DEF Seen
    <3> QED BY <1>5, <3>2, <3>3
  <2>5. CASE d \notin q.visited
    <3>1. req' = [req EXCEPT ![r].frames = Append(rest, next), ![r].visited = @ \cup {d}]
      BY <1>6, <2>1, <2>5
    <3>2. next \in SUBSET Module OBVIOUS
    <3> HIDE DEF rest, next
    <3>3. /\ req'[r].at = "search" /\ req'[r].mod = q.mod /\ req'[r].ids = q.ids
          /\ req'[r].graph = q.graph /\ req'[r].todo = q.todo
          /\ req'[r].visited = q.visited \cup {d} /\ req'[r].frames = Append(rest, next)
      BY <1>0, <3>1 DEF Req
    <3>4. Pending(req'[r].frames) = Pending(rest) \cup next
      BY <2>3, <3>2, <3>3, PendingOfAppend
    <3>5. Seen(req'[r]) = Seen(q) \cup next BY <2>2, <2>3, <3>3, <3>4 DEF Seen
    <3>6. d \in Seen(q) BY <2>3 DEF Seen
    <3> HIDE DEF q
    <3>7. \A e \in q.graph : e[1] = d => e[2] \in next
      <4> SUFFICES ASSUME NEW e \in q.graph, e[1] = d PROVE e[2] \in next OBVIOUS
      <4>1. e = <<e[1], e[2]>> /\ e[2] \in Module BY <1>0
      <4> QED BY <4>1 DEF next
    <3>8. \A e \in q.graph : e[1] \in (q.visited \cup {d}) \ {q.mod} => e[2] \in Seen(q) \cup next
      BY <1>0, <3>7 DEF Searching
    <3>9. ASSUME NEW W \in SUBSET Module, ToSet(q.ids) \subseteq W,
                 \A e \in q.graph : e[1] \in W /\ e[1] # q.mod => e[2] \in W
          PROVE  Seen(q) \cup next \subseteq W
      <4>1. Seen(q) \subseteq W BY <1>0, <3>9 DEF Searching
      <4>2. ASSUME NEW c \in next PROVE c \in W
        <5>1. <<d, c>> \in q.graph BY DEF next
        <5>2. <<d, c>>[1] = d /\ <<d, c>>[2] = c OBVIOUS
        <5> QED BY <2>2, <3>6, <3>9, <4>1, <5>1, <5>2
      <4> QED BY <4>1, <4>2
    <3>10. /\ \A c \in ToSet(q.ids) :
                c \in ToSet(q.todo) \/ Misses(q.mod, c, q.graph) \/ c \in Seen(q) \cup next
           /\ ToSet(q.todo) \subseteq ToSet(q.ids)
      BY <1>0 DEF Searching
    <3> QED BY <3>3, <3>5, <3>8, <3>9, <3>10 DEF Searching
  <2> QED BY <2>4, <2>5
<1>7. CASE Return(r)
  <2> DEFINE front == SubSeq(q.frames, 1, n - 1)
  <2>1. Pending(front) = Pending(q.frames) BY <1>0, <1>7, PendingOfFront DEF Return
  <2>2. req' = [req EXCEPT ![r].frames = front] BY <1>7 DEF Return
  <2> HIDE DEF front
  <2>3. /\ req'[r].at = "search" /\ req'[r].mod = q.mod /\ req'[r].ids = q.ids
        /\ req'[r].graph = q.graph /\ req'[r].todo = q.todo
        /\ req'[r].visited = q.visited /\ req'[r].frames = front
    BY <1>0, <2>2 DEF Req
  <2>4. Seen(req'[r]) = Seen(q) BY <2>1, <2>3 DEF Seen
  <2> QED BY <1>5, <2>3, <2>4
<1>8. CASE Answer(r)
  <2>1. req'[r] = Idle BY <1>0, <1>8 DEF Answer
  <2> QED BY <2>1, IdleSearching
<1> QED BY <1>3, <1>4, <1>6, <1>7, <1>8 DEF Search

LEMMA NextSearch == TypeOK /\ SearchInv /\ [Next]_vars => SearchInv'
<1> SUFFICES ASSUME TypeOK, SearchInv, [Next]_vars PROVE SearchInv'
  OBVIOUS
<1>1. CASE Restart
  <2>1. \A r \in Request : req'[r] = Idle BY <1>1 DEF Restart
  <2> QED BY <2>1, IdleSearching DEF SearchInv
<1>2. CASE UNCHANGED vars
  BY <1>2 DEF vars, SearchInv
<1> QED BY <1>1, <1>2, ReplaceSearch, OtherSearch, SearchSearch DEF Next

LEMMA SearchCorrect == Spec => [](TypeOK /\ SearchInv)
<1>1. Init => TypeOK /\ SearchInv
  BY InitType, InitSearch, ProjectGraphAssumption
<1>2. TypeOK /\ SearchInv /\ [Next]_vars => (TypeOK /\ SearchInv)'
  BY NextType, NextSearch, ProjectGraphAssumption
<1> QED BY <1>1, <1>2, PTL DEF Spec

\* Whatever the graph and the order it is searched in: the search comes to the
\* module only if the replacement closes a cycle, and passes only if it closes
\* none that was not there.
THEOREM SearchesExactly == Spec => []SearchIsExact
<1>1. TypeOK /\ SearchInv => SearchIsExact
  <2> SUFFICES ASSUME TypeOK, SearchInv, NEW r \in Request, req[r].at = "search"
               PROVE  LET m    == req[r].mod
                          n    == Len(req[r].frames)
                          kept == {e \in req[r].graph : e[1] # m}
                          replaced == kept \cup {m} \X ToSet(req[r].ids)
                      IN  /\ n > 0 => (m \in req[r].frames[n] => ~Acyclic(replaced))
                          /\ n = 0 /\ req[r].todo = <<>> /\ Acyclic(kept) => Acyclic(replaced)
    BY DEF SearchIsExact
  <2> DEFINE q == req[r]
             m == q.mod
             n == Len(q.frames)
             ids == ToSet(q.ids)
             kept == {e \in q.graph : e[1] # m}
             replaced == kept \cup {m} \X ids
  <2>1. q \in Req /\ Searching(q) /\ m \in Module BY DEF TypeOK, SearchInv
  <2>2. /\ q.frames \in Seq(SUBSET Module) /\ q.graph \in SUBSET (Module \X Module)
        /\ q.ids \in Seq(Module)
    BY <2>1 DEF Req
  <2>3. ids \in SUBSET Module BY <2>2 DEF ToSet
  <2>4. ASSUME n > 0, m \in q.frames[n] PROVE ~Acyclic(replaced)
    <3>1. n \in DOMAIN q.frames BY <2>2, <2>4
    <3>2. m \in Seen(q) BY <2>1, <2>4, <3>1 DEF Seen, Pending
    <3>3. \A W \in SUBSET Module :
            ids \subseteq W /\ (\A e \in kept : e[1] \in W => e[2] \in W) => m \in W
      BY <2>1, <3>2 DEF Searching
    <3>4. kept \in SUBSET (Module \X Module) /\ \A e \in kept : e[1] # m BY <2>2
    <3> HIDE DEF kept, ids, m
    <3> QED BY <2>1, <2>3, <3>3, <3>4, ClosesCycle
  <2>5. ASSUME n = 0, q.todo = <<>>, Acyclic(kept) PROVE Acyclic(replaced)
    <3>1. q.frames = <<>> BY <2>2, <2>5
    <3>2. ~Found(m, ids, q.graph) BY <2>1, <2>5, <3>1, Passes
    <3>3. kept \in SUBSET q.graph OBVIOUS
    <3> HIDE DEF kept, ids, m
    <3>4. ~Found(m, ids, kept) BY <3>2, <3>3, FoundInSubset
    <3> QED BY <2>1, <2>3, <2>5, <3>4, StaysAcyclic
  <2> QED BY <2>4, <2>5
<1> QED BY <1>1, SearchCorrect, PTL

----------------------------------------------------------------------------
(* Cycles *)

\* While replacements do not overlap, the one in flight has listed whatever
\* has dependencies, searches all that are left, and what it asks for is not
\* found in them.
Searched(r) ==
  /\ req[r].at = "graph" => \A e \in deps : e[1] \in req[r].listed
  /\ req[r].at = "search" => deps \subseteq req[r].graph
  /\ req[r].at \in {"delete", "insert"} => ~Found(req[r].mod, ToSet(req[r].ids), deps)
  /\ req[r].at = "insert" => \A e \in deps : e[1] # req[r].mod

GraphInv ==
  ~overlapped =>
    /\ Acyclic(deps)
    /\ \A q, r \in Request : Replacing(q) /\ Replacing(r) => q = r
    /\ \A r \in Request : Searched(r)

LEMMA InitGraph == Init => GraphInv
<1> SUFFICES ASSUME Init PROVE GraphInv OBVIOUS
<1>1. \A r \in Request : req[r].at = "idle"
  BY DEF Init, Idle
<1>2. Acyclic({})
  <2>1. \A S \in (SUBSET Module) \ {{}} : \E m \in S : TRUE OBVIOUS
  <2> QED BY <2>1 DEF Acyclic
<1> QED BY <1>1, <1>2 DEF GraphInv, Searched, Replacing, Init

\* A step that only takes dependencies away, and only takes one request from
\* one step of a replacement to another or to its end.
LEMMA GraphStep ==
  ASSUME TypeOK, GraphInv, NEW r \in Request, deps' \subseteq deps,
         overlapped' = overlapped,
         \A q \in Request \ {r} : req'[q] = req[q],
         \/ req'[r].at \notin {"graph", "search", "delete", "insert"}
         \/ ~overlapped => Replacing(r) /\ Searched(r)'
  PROVE  GraphInv'
<1> SUFFICES ASSUME ~overlapped
             PROVE  /\ Acyclic(deps')
                    /\ \A q, s \in Request : Replacing(q)' /\ Replacing(s)' => q = s
                    /\ \A q \in Request : Searched(q)'
  BY DEF GraphInv
<1>1. Acyclic(deps') BY AcyclicSubset DEF GraphInv
<1>2. \A q \in Request : Replacing(q)' => Replacing(q)
  BY DEF Replacing
<1>3. ASSUME NEW q \in Request \ {r} PROVE Searched(q)'
  <2>1. req'[q] = req[q] /\ Searched(q) BY DEF GraphInv
  <2>2. ~Found(req[q].mod, ToSet(req[q].ids), deps) =>
        ~Found(req[q].mod, ToSet(req[q].ids), deps')
    BY FoundInSubset
  <2> QED BY <2>1, <2>2 DEF Searched
<1>4. Searched(r)' BY DEF Searched
<1> QED BY <1>1, <1>2, <1>3, <1>4 DEF GraphInv

LEMMA ReplaceGraph ==
  ASSUME TypeOK, GraphInv, NEW r \in Request, Replace(r)
  PROVE  GraphInv'
<1>0. req[r] \in Req /\ req \in [Request -> Req]
  BY DEF TypeOK
<1>1. ASSUME NEW m \in Module, NEW ids \in Asked, AskDependencies(r, m, ids)
      PROVE  GraphInv'
  <2>1. req'[r].at = "targets" BY <1>0, <1>1 DEF AskDependencies, Idle
  <2> QED BY <1>0, <1>1, <2>1, GraphStep DEF AskDependencies
<1>2. CASE LookUpTarget(r)
  <2>1. req'[r].at \in {"targets", "idle"}
    BY <1>0, <1>2 DEF LookUpTarget, Answer, Idle, Req
  <2>2. \A q \in Request \ {r} : req'[q] = req[q]
    BY <1>0, <1>2 DEF LookUpTarget, Answer
  <2> QED BY <1>2, <2>1, <2>2, GraphStep DEF LookUpTarget
<1>3. CASE ListModules(r)
  <2> SUFFICES ASSUME ~overlapped' PROVE GraphInv' BY DEF GraphInv
  <2>1. ~overlapped /\ \A q \in Request : ~Replacing(q)
    BY <1>3 DEF ListModules, TypeOK
  <2>2. \A q \in Request \ {r} : req'[q] = req[q]
    BY <1>0, <1>3 DEF ListModules
  <2>3. req'[r].at = "graph" /\ req'[r].listed = rows
    BY <1>0, <1>3 DEF ListModules, Req
  <2>4. deps' = deps BY <1>3 DEF ListModules
  <2>5. \A e \in deps : e[1] \in rows BY DEF TypeOK
  <2>6. \A q \in Request \ {r} : ~Replacing(q)' BY <2>1, <2>2 DEF Replacing
  <2>7. \A q \in Request : Searched(q)'
    <3>1. Searched(r)' BY <2>3, <2>4, <2>5 DEF Searched
    <3>2. ASSUME NEW q \in Request \ {r} PROVE Searched(q)'
      BY <2>6 DEF Searched, Replacing
    <3> QED BY <3>1, <3>2
  <2>8. Acyclic(deps') BY <2>1, <2>4 DEF GraphInv
  <2> QED BY <2>6, <2>7, <2>8 DEF GraphInv
<1>4. CASE DetectCycle(r)
  <2>1. \A q \in Request \ {r} : req'[q] = req[q]
    BY <1>0, <1>4 DEF DetectCycle
  <2>2. /\ req'[r].at = "search"
        /\ req'[r].graph = {e \in deps : e[1] \in req[r].listed}
    BY <1>0, <1>4 DEF DetectCycle, Req
  <2>3. ~overlapped => Searched(r)'
    BY <1>4, <2>2 DEF DetectCycle, GraphInv, Searched
  <2>4. Replacing(r) BY <1>4 DEF DetectCycle, Replacing
  <2> QED BY <1>4, <2>1, <2>3, <2>4, GraphStep DEF DetectCycle
<1>5. CASE DeleteDependencies(r)
  <2>1. \A q \in Request \ {r} : req'[q] = req[q]
    BY <1>0, <1>5 DEF DeleteDependencies, Goto, Answer
  <2>2. deps' \in SUBSET deps /\ \A e \in deps' : e[1] # req[r].mod
    BY <1>5 DEF DeleteDependencies
  <2>3. CASE Answer(r)
    <3>1. req'[r].at = "idle" BY <1>0, <2>3 DEF Answer, Idle
    <3> QED BY <1>5, <2>1, <2>2, <3>1, GraphStep DEF DeleteDependencies
  <2>4. CASE Goto(r, "insert")
    <3>1. req'[r].at = "insert" /\ req'[r].mod = req[r].mod /\ req'[r].ids = req[r].ids
      BY <1>0, <2>4 DEF Goto, Req
    <3>2. ~overlapped => ~Found(req[r].mod, ToSet(req[r].ids), deps)
      BY <1>5 DEF DeleteDependencies, GraphInv, Searched
    <3>3. ~overlapped => Searched(r)'
      BY <2>2, <3>1, <3>2, FoundInSubset DEF Searched
    <3>4. Replacing(r) BY <1>5 DEF DeleteDependencies, Replacing
    <3> QED BY <1>5, <2>1, <2>2, <3>3, <3>4, GraphStep DEF DeleteDependencies
  <2> QED BY <1>5, <2>3, <2>4 DEF DeleteDependencies
<1>6. CASE InsertDependencies(r)
  <2>1. (\A q \in Request \ {r} : req'[q] = req[q]) /\ req'[r].at = "idle"
    BY <1>0, <1>6 DEF InsertDependencies, Answer, Idle
  <2>2. CASE deps' = deps
    BY <1>6, <2>1, <2>2, GraphStep DEF InsertDependencies
  <2>3. CASE deps' = deps \cup ({req[r].mod} \X ToSet(req[r].ids))
    <3> SUFFICES ASSUME ~overlapped PROVE GraphInv'
      BY <1>6 DEF GraphInv, InsertDependencies
    <3>1. Replacing(r) BY <1>6 DEF InsertDependencies, Replacing
    <3>2. \A q \in Request : ~Replacing(q)'
      BY <2>1, <3>1 DEF GraphInv, Replacing
    <3>3. \A q \in Request : Searched(q)'
      BY <3>2 DEF Searched, Replacing
    <3>4. ~Found(req[r].mod, ToSet(req[r].ids), deps)
      BY <1>6 DEF InsertDependencies, GraphInv, Searched
    <3>5. req[r].mod \in Module /\ ToSet(req[r].ids) \subseteq Module
      <4>1. req[r].mod \in Module BY <1>6 DEF InsertDependencies, TypeOK
      <4>2. req[r].ids \in Seq(Module) BY <1>0 DEF Req
      <4> QED BY <4>1, <4>2 DEF ToSet
    <3>6. Acyclic(deps')
      BY <2>3, <3>4, <3>5, StaysAcyclic DEF GraphInv
    <3> QED BY <3>2, <3>3, <3>6 DEF GraphInv
  <2> QED BY <1>6, <2>2, <2>3 DEF InsertDependencies
<1> QED BY <1>1, <1>2, <1>3, <1>4, <1>5, <1>6 DEF Replace

\* What the search passes is not found in all that it read, and so neither in
\* what is left of it.
LEMMA SearchGraph ==
  ASSUME TypeOK, SearchInv, GraphInv, NEW r \in Request, Search(r)
  PROVE  GraphInv'
<1>1. Replacing(r) BY SearchStep DEF Replacing
<1>2. CASE Answer(r) /\ req'[r] = Idle
  <2>1. req'[r].at = "idle" BY <1>2 DEF Idle
  <2> QED BY <2>1, SearchStep, GraphStep
<1>3. CASE req'[r].at = "search" /\ req'[r].graph = req[r].graph
  <2>1. ~overlapped => Searched(r)' BY <1>3, SearchStep DEF GraphInv, Searched
  <2> QED BY <1>1, <2>1, SearchStep, GraphStep
<1>4. CASE /\ req'[r].at = "delete" /\ NoCycle(r)
           /\ req'[r].mod = req[r].mod /\ req'[r].ids = req[r].ids
  <2>1. ~Found(req[r].mod, ToSet(req[r].ids), req[r].graph)
    <3>1. req[r] \in Req /\ Searching(req[r]) BY SearchStep DEF SearchInv
    <3> QED BY <1>4, <3>1, Passes DEF NoCycle
  <2>2. ~overlapped => deps \subseteq req[r].graph BY SearchStep DEF GraphInv, Searched
  <2>3. ~overlapped => ~Found(req[r].mod, ToSet(req[r].ids), deps)
    BY <2>1, <2>2, FoundInSubset
  <2>4. ~overlapped => Searched(r)' BY <1>4, <2>3, SearchStep DEF Searched
  <2> QED BY <1>1, <2>4, SearchStep, GraphStep
<1> QED BY <1>2, <1>3, <1>4, SearchStep

\* No other request is, or comes to be, replacing anything.
LEMMA OtherGraph ==
  ASSUME ProjectGraphAssumption, TypeOK, GraphInv, NEW r \in Request,
         Manage(r) \/ Run(r) \/ Sort(r)
  PROVE  GraphInv'
<1>0. req[r] \in Req /\ req \in [Request -> Req]
  BY DEF TypeOK
<1>1. \A q \in Request \ {r} : req'[q] = req[q]
  BY <1>0 DEF Manage, Run, Sort, AddModule, AskRemoval, IncrementCount, DropModule, RefuseRemoval, DecrementCount,
     ListForRun, ReadDependencies, TakeModule, FinishSort, Goto, Answer
<1>2. deps' \subseteq deps /\ overlapped' = overlapped
  BY DEF Manage, Run, Sort, AddModule, AskRemoval, IncrementCount, DropModule, RefuseRemoval, DecrementCount,
     ListForRun, ReadDependencies, TakeModule, FinishSort
<1>3. req'[r].at \notin {"graph", "search", "delete", "insert"}
  <2>1. CASE Manage(r)
    <3>1. ASSUME NEW m \in Module, AddModule(r, m) PROVE req'[r].at = "increment"
      BY <1>0, <3>1 DEF AddModule, Goto, Req
    <3>2. ASSUME NEW m \in Module, AskRemoval(r, m) PROVE req'[r].at = "drop"
      BY <1>0, <3>2 DEF AskRemoval, Idle
    <3>3. DropModule(r) => req'[r].at = "decrement"
      BY <1>0 DEF DropModule, Idle
    <3>4. IncrementCount(r) \/ DecrementCount(r) \/ RefuseRemoval(r) => req'[r].at = "idle"
      BY <1>0 DEF IncrementCount, DecrementCount, RefuseRemoval, Answer, Idle
    <3> QED BY <2>1, <3>1, <3>2, <3>3, <3>4 DEF Manage
  <2>2. CASE Run(r) \/ Sort(r)
    <3>1. ListForRun(r) => req'[r].at = "read"
      BY <1>0 DEF ListForRun, Idle
    <3>2. ASSUME ReadDependencies(r) PROVE req'[r].at = "sort"
      <4>1. PICK graph, roots :
              req' = [req EXCEPT ![r].at = "sort", ![r].graph = graph, ![r].queue = roots]
        BY <3>2 DEF ReadDependencies
      <4> QED BY <1>0, <4>1 DEF Req
    <3>3. ASSUME TakeModule(r) PROVE req'[r].at = "sort"
      <4>1. PICK next, order :
              req' = [req EXCEPT ![r].queue = Tail(@) \o next, ![r].order = order]
        BY <3>3 DEF TakeModule
      <4> QED BY <1>0, <3>3, <4>1 DEF Req, TakeModule
    <3>4. FinishSort(r) => req'[r].at = "idle"
      BY <1>0 DEF FinishSort, Answer, Idle
    <3> QED BY <2>2, <3>1, <3>2, <3>3, <3>4 DEF Run, Sort
  <2> QED BY <2>1, <2>2
<1> QED BY <1>1, <1>2, <1>3, GraphStep

LEMMA NextGraph ==
  ProjectGraphAssumption /\ TypeOK /\ SearchInv /\ GraphInv /\ [Next]_vars => GraphInv'
<1> SUFFICES ASSUME ProjectGraphAssumption, TypeOK, SearchInv, GraphInv, [Next]_vars
             PROVE  GraphInv'
  OBVIOUS
<1>1. CASE Restart
  <2>1. \A r \in Request : req'[r].at = "idle"
    BY <1>1 DEF Restart, Idle
  <2>2. \A r \in Request : ~Replacing(r)' /\ Searched(r)'
    BY <2>1 DEF Replacing, Searched
  <2> QED BY <1>1, <2>2 DEF Restart, GraphInv
<1>2. CASE UNCHANGED vars
  BY <1>2 DEF vars, GraphInv, Searched, Replacing
<1> QED BY <1>1, <1>2, ReplaceGraph, SearchGraph, OtherGraph DEF Next

LEMMA GraphCorrect == Spec => [](TypeOK /\ SearchInv /\ GraphInv)
<1>1. Init => TypeOK /\ SearchInv /\ GraphInv
  BY InitType, InitSearch, InitGraph, ProjectGraphAssumption
<1>2. TypeOK /\ SearchInv /\ GraphInv /\ [Next]_vars => (TypeOK /\ SearchInv /\ GraphInv)'
  BY NextType, NextSearch, NextGraph, ProjectGraphAssumption
<1> QED BY <1>1, <1>2, PTL DEF Spec

\* As long as replacements do not overlap the dependencies have no cycle,
\* whatever is added, removed or started meanwhile.
THEOREM StaysWithoutCycles == Spec => []AcyclicDependencies
<1>1. GraphInv => AcyclicDependencies
  BY DEF GraphInv, AcyclicDependencies
<1> QED BY <1>1, GraphCorrect, PTL

\* As long as replacements do not overlap, the dependencies of a module only
\* grow to become exactly what one request asked for.
THEOREM ReplacedAsAWhole == Spec => NeverMixed
<1>1. TypeOK /\ GraphInv /\ [Next]_vars =>
        [~overlapped' => \A m \in Module :
           \/ DependenciesOf(m)' \subseteq DependenciesOf(m)
           \/ \E r \in Request : req[r].mod = m /\ DependenciesOf(m)' = ToSet(req[r].ids)]_vars
  <2> SUFFICES ASSUME TypeOK, GraphInv, [Next]_vars, ~overlapped', NEW m \in Module
               PROVE  \/ DependenciesOf(m)' \subseteq DependenciesOf(m)
                      \/ \E r \in Request :
                           req[r].mod = m /\ DependenciesOf(m)' = ToSet(req[r].ids)
    OBVIOUS
  <2>1. CASE deps' \subseteq deps
    BY <2>1 DEF DependenciesOf
  <2>2. CASE ~(deps' \subseteq deps)
    <3>1. PICK r \in Request : InsertDependencies(r)
      BY <2>2 DEF Next, vars, Restart, Replace, Manage, Run, AskDependencies, LookUpTarget,
         ListModules, DetectCycle, DeleteDependencies, AddModule, AskRemoval, IncrementCount,
         DropModule, RefuseRemoval, DecrementCount, ListForRun, ReadDependencies, Search, SearchFrom, Visit,
         Return, NoCycle, Sort, TakeModule, FinishSort
    <3>2. deps' = deps \cup ({req[r].mod} \X ToSet(req[r].ids))
      BY <2>2, <3>1 DEF InsertDependencies
    <3>3. ~overlapped /\ \A e \in deps : e[1] # req[r].mod
      BY <3>1 DEF InsertDependencies, GraphInv, Searched
    <3>4. ToSet(req[r].ids) \subseteq Module
      BY DEF TypeOK, Req, ToSet
    <3>5. CASE m = req[r].mod
      <4>1. \A d \in Module : <<m, d>> \notin deps
        <5> SUFFICES ASSUME NEW d \in Module, <<m, d>> \in deps PROVE FALSE OBVIOUS
        <5>1. <<m, d>>[1] = m OBVIOUS
        <5> QED BY <3>3, <3>5, <5>1
      <4> QED BY <3>2, <3>4, <3>5, <4>1 DEF DependenciesOf
    <3>6. CASE m # req[r].mod
      BY <3>2, <3>6 DEF DependenciesOf
    <3> QED BY <3>5, <3>6
  <2> QED BY <2>1, <2>2
<1> QED BY <1>1, GraphCorrect, PTL DEF Spec, NeverMixed

----------------------------------------------------------------------------
(* The sort *)

Once(s) == \A i, j \in 1 .. Len(s) : s[i] = s[j] => i = j

\* Between two rounds, what needs no module that is not sorted is sorted or
\* in the queue, once, and nothing else is.
Kahn(listed, graph, queue, order) ==
  /\ \A m, d \in Module : <<m, d>> \in graph => m \in listed
  /\ ToSet(queue) \cap ToSet(order) = {}
  /\ Once(queue) /\ Once(order)
  /\ \A m \in Module : m \in ToSet(queue) \cup ToSet(order) <=>
                       m \in listed /\ Unmet(m, graph, ToSet(order)) = {}
  /\ \A i, j \in 1 .. Len(order) : <<order[i], order[j]>> \in graph => j < i

LEMMA KahnBegins ==
  ASSUME ProjectGraphAssumption, NEW listed \in SUBSET Module, NEW graph,
         \A m, d \in Module : <<m, d>> \in graph => m \in listed,
         NEW roots \in SetToSeqs({m \in listed : Unmet(m, graph, {}) = {}})
  PROVE  Kahn(listed, graph, roots, <<>>)
<1> DEFINE first == {m \in listed : Unmet(m, graph, {}) = {}}
<1>1. IsFiniteSet(first) BY FS_Subset DEF ProjectGraphAssumption
<1>2. ToSet(roots) = first /\ Once(roots) BY <1>1, OrdersOfSet DEF Once
<1>3. ToSet(<<>>) = {} /\ Len(<<>>) = 0 BY DEF ToSet
<1>4. Once(<<>>) BY <1>3 DEF Once
<1>5. \A m \in Module : m \in first <=> m \in listed /\ Unmet(m, graph, {}) = {}
  OBVIOUS
<1>6. \A i, j \in 1 .. Len(<<>>) : <<<<>>[i], <<>>[j]>> \in graph => j < i
  BY <1>3
<1> HIDE DEF first
<1> QED BY <1>2, <1>3, <1>4, <1>5, <1>6 DEF Kahn

LEMMA KahnContinues ==
  ASSUME ProjectGraphAssumption, NEW listed, NEW graph,
         NEW queue \in Seq(Module), NEW order \in Seq(Module), queue # <<>>,
         Kahn(listed, graph, queue, order),
         NEW new, new = Append(order, Head(queue)),
         NEW ready, ready = {m \in Module : /\ <<m, Head(queue)>> \in graph
                                            /\ Unmet(m, graph, ToSet(new)) = {}},
         NEW next \in SetToSeqs(ready)
  PROVE  Kahn(listed, graph, Tail(queue) \o next, new)
<1> DEFINE c == Head(queue)
           rest == Tail(queue) \o next
           done == ToSet(order)
<1>1. /\ Tail(queue) \in Seq(Module) /\ c \in Module /\ Once(Tail(queue))
      /\ ToSet(Tail(queue)) = ToSet(queue) \ {c}
  BY ToSetOfTail DEF Kahn, Once
<1>2. next \in Seq(Module) /\ ToSet(next) = ready /\ Once(next)
  <2>1. ready \subseteq Module /\ IsFiniteSet(ready) BY FS_Subset DEF ProjectGraphAssumption
  <2>2. next \in Seq(ready) /\ ToSet(next) = ready /\ Once(next)
    BY <2>1, OrdersOfSet DEF Once
  <2> QED BY <2>1, <2>2, SeqOfSubset
<1>3. ToSet(new) = done \cup {c} BY <1>1, ToSetOfAppend
<1>4. ToSet(rest) = (ToSet(queue) \ {c}) \cup ready
  <2>1. ToSet(rest) = ToSet(Tail(queue)) \cup ToSet(next) BY <1>1, <1>2, ToSetOfConcat
  <2> QED BY <1>1, <1>2, <2>1
<1>5. c \in ToSet(queue) /\ c \notin done /\ Unmet(c, graph, done) = {} /\ c \in listed
  <2>1. c \in ToSet(queue)
    <3>1. Len(queue) \in Nat \ {0} /\ c = queue[1] OBVIOUS
    <3> QED BY <3>1 DEF ToSet
  <2> QED BY <1>1, <2>1 DEF Kahn
\* What becomes ready now was waiting for c.
<1>6. \A m \in ready : m \in listed /\ m \notin ToSet(queue) \cup done
  <2> SUFFICES ASSUME NEW m \in ready PROVE m \in listed /\ m \notin ToSet(queue) \cup done
    OBVIOUS
  <2>1. <<m, c>> \in graph /\ m \in Module OBVIOUS
  <2>2. c \in Unmet(m, graph, done) BY <1>1, <1>5, <2>1 DEF Unmet
  <2> QED BY <1>1, <2>1, <2>2 DEF Kahn
<1>7. \A m \in Module : Unmet(m, graph, done \cup {c}) = Unmet(m, graph, done) \ {c}
  BY DEF Unmet
<1>8. ToSet(rest) \cap ToSet(new) = {}
  <2>1. c \notin ready BY <1>5, <1>6
  <2> QED BY <1>3, <1>4, <1>6, <2>1 DEF Kahn
<1>9. Once(rest)
  <2>1. ToSet(Tail(queue)) \cap ToSet(next) = {} BY <1>1, <1>2, <1>6
  <2> QED BY <1>1, <1>2, <2>1, ConcatIsInjective DEF Once
<1>10. /\ Len(new) = Len(order) + 1 /\ Len(order) \in Nat
       /\ \A i \in 1 .. Len(order) : new[i] = order[i]
       /\ new[Len(order) + 1] = c
  BY <1>1
<1>11. \A i \in 1 .. Len(order) : order[i] \in done /\ order[i] \in Module
  BY DEF ToSet
<1>12. Once(new)
  <2> SUFFICES ASSUME NEW i \in 1 .. Len(new), NEW j \in 1 .. Len(new), new[i] = new[j]
               PROVE  i = j
    BY DEF Once
  <2>1. CASE i <= Len(order) /\ j <= Len(order)
    BY <1>10, <2>1 DEF Kahn, Once
  <2>2. CASE i <= Len(order) /\ j = Len(order) + 1
    BY <1>5, <1>10, <1>11, <2>2
  <2>3. CASE i = Len(order) + 1 /\ j <= Len(order)
    BY <1>5, <1>10, <1>11, <2>3
  <2> QED BY <1>10, <2>1, <2>2, <2>3
<1>13. ASSUME NEW m \in Module
       PROVE  m \in ToSet(rest) \cup ToSet(new) <=>
              m \in listed /\ Unmet(m, graph, ToSet(new)) = {}
  <2>1. m \in ToSet(rest) \cup ToSet(new) <=> m \in ToSet(queue) \cup done \cup ready
    BY <1>3, <1>4, <1>5
  <2>2. m \in ToSet(queue) \cup done <=> m \in listed /\ Unmet(m, graph, done) = {}
    BY DEF Kahn
  <2>3. Unmet(m, graph, ToSet(new)) = Unmet(m, graph, done) \ {c} BY <1>3, <1>7
  <2>4. c \in Unmet(m, graph, done) => <<m, c>> \in graph BY DEF Unmet
  <2>5. CASE m \in ready BY <1>6, <2>1, <2>5
  <2>6. CASE m \notin ready
    <3>1. Unmet(m, graph, ToSet(new)) = {} => Unmet(m, graph, done) = {}
      BY <2>3, <2>4, <2>6
    <3> QED BY <2>1, <2>2, <2>3, <2>6, <3>1
  <2> QED BY <2>5, <2>6
<1>14. ASSUME NEW i \in 1 .. Len(new), NEW j \in 1 .. Len(new), <<new[i], new[j]>> \in graph
       PROVE  j < i
  <2>1. CASE i <= Len(order) /\ j <= Len(order)
    BY <1>10, <1>14, <2>1 DEF Kahn
  <2>2. CASE i = Len(order) + 1 /\ j <= Len(order)
    BY <1>10, <2>2
  <2>3. CASE j = Len(order) + 1
    <3>1. new[j] = c /\ new[i] \in Module BY <1>1, <1>10, <1>11, <2>3
    <3>2. c \in Unmet(new[i], graph, done) BY <1>1, <1>5, <1>14, <3>1 DEF Unmet
    <3>3. new[i] \in ToSet(queue) \cup done
      BY <1>5, <1>10, <1>11
    <3> QED BY <3>1, <3>2, <3>3 DEF Kahn
  <2> QED BY <1>10, <2>1, <2>2, <2>3
<1>15. \A m, d \in Module : <<m, d>> \in graph => m \in listed
  BY DEF Kahn
<1> HIDE DEF rest
<1>16. Kahn(listed, graph, rest, new)
  BY <1>8, <1>9, <1>12, <1>13, <1>14, <1>15 DEF Kahn
<1> QED BY <1>16 DEF rest

Sorting(q) ==
  /\ q.at # "sort" => q.order = <<>>
  /\ q.at = "sort" => Kahn(q.listed, q.graph, q.queue, q.order)

SortInv == \A r \in Request : Sorting(req[r])

LEMMA IdleSorting == Sorting(Idle)
BY DEF Sorting, Idle

LEMMA InitSort == Init => SortInv
BY IdleSorting DEF Init, SortInv

\* The requests that sort nothing.
LEMMA ReplaceSort ==
  ASSUME TypeOK, SortInv, NEW r \in Request, Replace(r) \/ Manage(r)
  PROVE  SortInv'
<1>0. req[r] \in Req /\ req \in [Request -> Req]
  BY DEF TypeOK
<1>1. \A q \in Request \ {r} : req'[q] = req[q]
  BY <1>0 DEF Replace, Manage, AskDependencies, LookUpTarget, ListModules, DetectCycle,
     DeleteDependencies, InsertDependencies, AddModule, AskRemoval, IncrementCount, DropModule,
     RefuseRemoval, DecrementCount, Goto, Answer
<1>2. req[r].at # "sort" /\ req'[r].at # "sort" /\ req'[r].order \in {<<>>, req[r].order}
  <2>1. CASE Answer(r)
    <3>1. req'[r] = Idle BY <1>0, <2>1 DEF Answer
    <3>2. req[r].at # "sort"
      <4>1. Idle.at = "idle" BY DEF Idle
      <4>2. Replace(r) => req[r] = Idle \/ req[r].at \in {"targets", "graph", "delete", "insert"}
        BY DEF Replace, AskDependencies, LookUpTarget, ListModules, DetectCycle,
           DeleteDependencies, InsertDependencies
      <4>3. Manage(r) => req[r] = Idle \/ req[r].at \in {"increment", "drop", "decrement"}
        BY DEF Manage, AddModule, AskRemoval, IncrementCount, DropModule, RefuseRemoval, DecrementCount
      <4> QED BY <4>1, <4>2, <4>3
    <3> QED BY <3>1, <3>2 DEF Idle
  <2>2. ASSUME NEW m \in Module, NEW ids \in Asked, AskDependencies(r, m, ids)
        PROVE  /\ req[r].at = "idle" /\ req'[r].at = "targets" /\ req'[r].order = <<>>
    BY <1>0, <2>2 DEF AskDependencies, Idle
  <2>3. LookUpTarget(r) /\ ~Answer(r) =>
          req[r].at = "targets" /\ req'[r].at = "targets" /\ req'[r].order = req[r].order
    BY <1>0 DEF LookUpTarget, Req
  <2>4. ListModules(r) =>
          req[r].at = "targets" /\ req'[r].at = "graph" /\ req'[r].order = req[r].order
    BY <1>0 DEF ListModules, Req
  <2>5. DetectCycle(r) =>
          req[r].at = "graph" /\ req'[r].at = "search" /\ req'[r].order = req[r].order
    BY <1>0 DEF DetectCycle, Req
  <2>6. DeleteDependencies(r) /\ ~Answer(r) =>
          req[r].at = "delete" /\ req'[r].at = "insert" /\ req'[r].order = req[r].order
    BY <1>0 DEF DeleteDependencies, Goto, Req
  <2>7. ASSUME NEW m \in Module, AddModule(r, m)
        PROVE  req[r].at = "idle" /\ req'[r].at = "increment" /\ req'[r].order = req[r].order
    BY <1>0, <2>7 DEF AddModule, Goto, Idle, Req
  <2>8. ASSUME NEW m \in Module, AskRemoval(r, m)
        PROVE  req[r].at = "idle" /\ req'[r].at = "drop" /\ req'[r].order = <<>>
    BY <1>0, <2>8 DEF AskRemoval, Idle
  <2>9. DropModule(r) =>
          req[r].at = "drop" /\ req'[r].at = "decrement" /\ req'[r].order = <<>>
    BY <1>0 DEF DropModule, Idle
  <2>10. InsertDependencies(r) \/ IncrementCount(r) \/ DecrementCount(r) \/ RefuseRemoval(r)
           => Answer(r)
    BY DEF InsertDependencies, IncrementCount, DecrementCount, RefuseRemoval
  <2> QED BY <2>1, <2>2, <2>3, <2>4, <2>5, <2>6, <2>7, <2>8, <2>9, <2>10 DEF Replace, Manage
<1>3. Sorting(req'[r]) BY <1>2 DEF SortInv, Sorting
<1> QED BY <1>1, <1>3 DEF SortInv

LEMMA SearchSort ==
  ASSUME TypeOK, SortInv, NEW r \in Request, Search(r)
  PROVE  SortInv'
<1>1. req[r].order = <<>> BY SearchStep DEF SortInv, Sorting
<1>2. req'[r].at # "sort" /\ req'[r].order = <<>> BY <1>1, SearchStep DEF Idle
<1>3. Sorting(req'[r]) BY <1>2 DEF Sorting
<1> QED BY <1>3, SearchStep DEF SortInv

LEMMA RunSort ==
  ASSUME ProjectGraphAssumption, TypeOK, SortInv, NEW r \in Request, Run(r) \/ Sort(r)
  PROVE  SortInv'
<1>0. req[r] \in Req /\ req \in [Request -> Req] /\ Sorting(req[r])
  BY DEF TypeOK, SortInv
<1>1. \A q \in Request \ {r} : req'[q] = req[q]
  BY <1>0 DEF Run, Sort, ListForRun, ReadDependencies, TakeModule, FinishSort, Answer
<1>2. CASE ListForRun(r)
  <2>1. req'[r].at = "read" /\ req'[r].order = <<>>
    BY <1>0, <1>2 DEF ListForRun, Idle
  <2> QED BY <1>1, <2>1 DEF SortInv, Sorting
<1>3. CASE ReadDependencies(r)
  <2> DEFINE graph == {e \in deps : e[1] \in req[r].listed}
  <2>1. PICK roots \in SetToSeqs({m \in req[r].listed : Unmet(m, graph, {}) = {}}) :
               req' = [req EXCEPT ![r].at = "sort", ![r].graph = graph, ![r].queue = roots]
    BY <1>3 DEF ReadDependencies
  <2>2. \A m, d \in Module : <<m, d>> \in graph => m \in req[r].listed
    OBVIOUS
  <2>3. req[r].listed \in SUBSET Module BY <1>0 DEF Req
  <2> HIDE DEF graph
  <2>4. Kahn(req[r].listed, graph, roots, <<>>) BY <2>1, <2>2, <2>3, KahnBegins
  <2>5. req[r].order = <<>> BY <1>0, <1>3 DEF ReadDependencies, Sorting
  <2>6. /\ req'[r].at = "sort" /\ req'[r].listed = req[r].listed /\ req'[r].graph = graph
        /\ req'[r].queue = roots /\ req'[r].order = req[r].order
    BY <1>0, <2>1 DEF Req
  <2>7. Sorting(req'[r]) BY <2>4, <2>5, <2>6 DEF Sorting
  <2> QED BY <1>1, <2>7 DEF SortInv
<1>4. CASE TakeModule(r)
  <2> DEFINE order == Append(req[r].order, Head(req[r].queue))
             ready == {m \in Module : /\ <<m, Head(req[r].queue)>> \in req[r].graph
                                      /\ Unmet(m, req[r].graph, ToSet(order)) = {}}
  <2>1. PICK next \in SetToSeqs(ready) :
               req' = [req EXCEPT ![r].queue = Tail(@) \o next, ![r].order = order]
    BY <1>4 DEF TakeModule
  <2>2. /\ req[r].at = "sort" /\ req[r].queue # <<>>
        /\ req[r].queue \in Seq(Module) /\ req[r].order \in Seq(Module)
    BY <1>0, <1>4 DEF TakeModule, Req
  <2>3. Kahn(req[r].listed, req[r].graph, req[r].queue, req[r].order)
    BY <1>0, <2>2 DEF Sorting
  <2>4. Kahn(req[r].listed, req[r].graph, Tail(req[r].queue) \o next, order)
    BY <2>1, <2>2, <2>3, KahnContinues
  <2> HIDE DEF order
  <2>5. /\ req'[r].at = "sort" /\ req'[r].listed = req[r].listed
        /\ req'[r].graph = req[r].graph
        /\ req'[r].queue = Tail(req[r].queue) \o next /\ req'[r].order = order
    BY <1>0, <2>1, <2>2 DEF Req
  <2>6. Sorting(req'[r]) BY <2>4, <2>5 DEF Sorting
  <2> QED BY <1>1, <2>6 DEF SortInv
<1>5. CASE FinishSort(r)
  <2>1. req'[r] = Idle BY <1>0, <1>5 DEF FinishSort, Answer
  <2> QED BY <1>1, <2>1, IdleSorting DEF SortInv
<1> QED BY <1>2, <1>3, <1>4, <1>5 DEF Run, Sort

LEMMA SortCorrect == Spec => [](TypeOK /\ SortInv)
<1>1. Init => TypeOK /\ SortInv
  BY InitType, InitSort, ProjectGraphAssumption
<1>2. TypeOK /\ SortInv /\ [Next]_vars => (TypeOK /\ SortInv)'
  <2> SUFFICES ASSUME TypeOK, SortInv, [Next]_vars PROVE SortInv'
    BY NextType, ProjectGraphAssumption
  <2>1. CASE Restart
    <3>1. \A r \in Request : req'[r] = Idle BY <2>1 DEF Restart
    <3> QED BY <3>1, IdleSorting DEF SortInv
  <2>2. CASE UNCHANGED vars
    BY <2>2 DEF vars, SortInv
  <2> QED BY <2>1, <2>2, ReplaceSort, SearchSort, RunSort, ProjectGraphAssumption DEF Next
<1> QED BY <1>1, <1>2, PTL DEF Spec

\* Whatever the graph, no module comes before one it needs, or twice.
THEOREM SortsByDependencies == Spec => []OrderFollowsDependencies
<1>1. TypeOK /\ SortInv => OrderFollowsDependencies
  <2> SUFFICES ASSUME TypeOK, SortInv, NEW r \in Request,
                      NEW i \in DOMAIN req[r].order, NEW j \in DOMAIN req[r].order
               PROVE  /\ i # j => req[r].order[i] # req[r].order[j]
                      /\ <<req[r].order[i], req[r].order[j]>> \in req[r].graph => j < i
    BY DEF OrderFollowsDependencies
  <2>1. req[r].order \in Seq(Module) BY DEF TypeOK, Req
  <2>2. DOMAIN req[r].order = 1 .. Len(req[r].order) BY <2>1
  <2>3. Sorting(req[r]) BY DEF SortInv
  <2>4. CASE req[r].at # "sort"
    <3>1. Len(req[r].order) = 0 BY <2>3, <2>4 DEF Sorting
    <3> QED BY <2>2, <3>1
  <2>5. CASE req[r].at = "sort"
    BY <2>2, <2>3, <2>5 DEF Sorting, Kahn, Once
  <2> QED BY <2>4, <2>5
<1> QED BY <1>1, SortCorrect, PTL

\* The sort misses a module only if the graph it read has a cycle or leads
\* to a module it did not list: else some module that is left needs no other
\* of them, so it would have been queued.
THEOREM SortsEverything == Spec => []SortCompletes
<1>1. TypeOK /\ SortInv => SortCompletes
  <2> SUFFICES ASSUME TypeOK, SortInv, NEW r \in Request,
                      req[r].at = "sort", req[r].queue = <<>>, Acyclic(req[r].graph),
                      \A e \in req[r].graph : e[2] \in req[r].listed
               PROVE  ToSet(req[r].order) = req[r].listed
    BY DEF SortCompletes
  <2> DEFINE graph == req[r].graph
             done == ToSet(req[r].order)
             left == req[r].listed \ done
  <2>1. req[r] \in Req BY DEF TypeOK
  <2>2. Kahn(req[r].listed, graph, <<>>, req[r].order) BY DEF SortInv, Sorting
  <2>3. ToSet(<<>>) = {} BY DEF ToSet
  <2>4. \A m \in Module : m \in done <=> m \in req[r].listed /\ Unmet(m, graph, done) = {}
    BY <2>2, <2>3 DEF Kahn
  <2>5. done \subseteq req[r].listed
    <3>1. done \subseteq Module BY <2>1 DEF Req, ToSet
    <3> QED BY <2>4, <3>1
  <2>6. left = {}
    <3> SUFFICES ASSUME left # {} PROVE FALSE OBVIOUS
    <3>1. left \in (SUBSET Module) \ {{}} BY <2>1 DEF Req
    <3>2. PICK m \in left : \A d \in left : <<m, d>> \notin graph
      BY <3>1 DEF Acyclic
    <3>3. m \in Module BY <3>1
    <3>4. PICK d \in Unmet(m, graph, done) : TRUE BY <2>4, <3>2, <3>3
    <3>5. d \in Module /\ <<m, d>> \in graph /\ d \notin done BY <3>4 DEF Unmet
    <3>6. d \in req[r].listed
      <4>1. <<m, d>>[2] = d OBVIOUS
      <4> QED BY <3>5, <4>1
    <3> QED BY <3>2, <3>5, <3>6
  <2> QED BY <2>5, <2>6
<1> QED BY <1>1, SortCorrect, PTL

\* Both together: topologicalSort sorts whatever graph it reads.
THEOREM SortsTopologically == Spec => []TopologicalSort
<1>1. OrderFollowsDependencies /\ SortCompletes => TopologicalSort
  BY DEF TopologicalSort
<1> QED BY <1>1, SortsByDependencies, SortsEverything, PTL

----------------------------------------------------------------------------
(* The count of modules *)

At(step) == {r \in Request : req[r].at = step}

\* The count lags behind the rows by what requests still have to add and to
\* take away.
CountInv ==
  restarts = 0 /\ ~doubled =>
    moduleCount + Cardinality(At("increment")) = Cardinality(rows) + Cardinality(At("decrement"))

LEMMA AtIsFinite ==
  ASSUME ProjectGraphAssumption, NEW step
  PROVE  IsFiniteSet(At(step)) /\ Cardinality(At(step)) \in Nat
BY FS_Subset, FS_CardinalityType DEF At, ProjectGraphAssumption

LEMMA OneMoves ==
  ASSUME ProjectGraphAssumption, NEW r \in Request, NEW step,
         \A q \in Request \ {r} : req'[q] = req[q]
  PROVE  /\ req[r].at = step /\ req'[r].at # step =>
              Cardinality(At(step)') = Cardinality(At(step)) - 1
         /\ req[r].at # step /\ req'[r].at = step =>
              Cardinality(At(step)') = Cardinality(At(step)) + 1
         /\ (req[r].at = step <=> req'[r].at = step) => At(step)' = At(step)
<1>1. IsFiniteSet(At(step)) /\ Cardinality(At(step)) \in Nat BY AtIsFinite
<1>2. ASSUME req[r].at = step, req'[r].at # step
      PROVE  Cardinality(At(step)') = Cardinality(At(step)) - 1
  <2>1. At(step)' = At(step) \ {r} /\ r \in At(step) BY <1>2 DEF At
  <2> QED BY <1>1, <2>1, FS_RemoveElement
<1>3. ASSUME req[r].at # step, req'[r].at = step
      PROVE  Cardinality(At(step)') = Cardinality(At(step)) + 1
  <2>1. At(step)' = At(step) \cup {r} /\ r \notin At(step) BY <1>3 DEF At
  <2> QED BY <1>1, <2>1, FS_AddElement
<1>4. ASSUME req[r].at = step <=> req'[r].at = step PROVE At(step)' = At(step)
  BY <1>4 DEF At
<1> QED BY <1>2, <1>3, <1>4

LEMMA InitCount == ProjectGraphAssumption /\ Init => CountInv
<1> SUFFICES ASSUME ProjectGraphAssumption, Init PROVE CountInv OBVIOUS
<1>1. At("increment") = {} /\ At("decrement") = {} BY DEF At, Init, Idle
<1>2. Cardinality(rows) = moduleCount /\ moduleCount \in Nat
  BY FS_Subset, FS_CardinalityType DEF Init, ProjectGraphAssumption
<1> QED BY <1>1, <1>2, FS_EmptySet DEF CountInv

LEMMA ManageCount ==
  ASSUME ProjectGraphAssumption, TypeOK, CountInv, NEW r \in Request, Manage(r)
  PROVE  CountInv'
<1>0. req[r] \in Req /\ req \in [Request -> Req]
  BY DEF TypeOK
<1>1. \A q \in Request \ {r} : req'[q] = req[q]
  BY <1>0 DEF Manage, AddModule, AskRemoval, IncrementCount, DropModule, RefuseRemoval, DecrementCount, Goto,
     Answer
<1>2. /\ IsFiniteSet(rows) /\ Cardinality(rows) \in Nat
      /\ Cardinality(At("increment")) \in Nat /\ Cardinality(At("decrement")) \in Nat
      /\ moduleCount \in Int
  BY AtIsFinite, FS_Subset, FS_CardinalityType DEF TypeOK, ProjectGraphAssumption
<1>3. Idle.at = "idle" BY DEF Idle
<1>4. ASSUME NEW m \in Module, AddModule(r, m) PROVE CountInv'
  <2>1. req[r].at = "idle" /\ req'[r].at = "increment"
    BY <1>0, <1>3, <1>4 DEF AddModule, Goto, Req
  <2>2. Cardinality(rows') = Cardinality(rows) + 1
    <3>1. m \notin rows BY <1>4 DEF AddModule, TypeOK
    <3> QED BY <1>2, <1>4, <3>1, FS_AddElement DEF AddModule
  <2>3. /\ Cardinality(At("increment")') = Cardinality(At("increment")) + 1
        /\ At("decrement")' = At("decrement")
    BY <1>1, <2>1, OneMoves
  <2> QED BY <1>2, <1>4, <2>2, <2>3 DEF CountInv, AddModule
<1>5. ASSUME NEW m \in Module, AskRemoval(r, m) PROVE CountInv'
  <2>1. req[r].at = "idle" /\ req'[r].at = "drop"
    BY <1>0, <1>3, <1>5 DEF AskRemoval, Idle
  <2>2. At("increment")' = At("increment") /\ At("decrement")' = At("decrement")
    BY <1>1, <2>1, OneMoves
  <2> QED BY <1>5, <2>2 DEF CountInv, AskRemoval
<1>6. CASE IncrementCount(r)
  <2>1. req[r].at = "increment" /\ req'[r].at = "idle"
    BY <1>0, <1>3, <1>6 DEF IncrementCount, Answer
  <2>2. /\ Cardinality(At("increment")') = Cardinality(At("increment")) - 1
        /\ At("decrement")' = At("decrement")
    BY <1>1, <2>1, OneMoves
  <2> QED BY <1>2, <1>6, <2>2 DEF CountInv, IncrementCount
<1>7. CASE DropModule(r)
  <2>1. req[r].at = "drop" /\ req'[r].at = "decrement"
    BY <1>0, <1>7 DEF DropModule, Idle
  <2>2. ~doubled' => Cardinality(rows') = Cardinality(rows) - 1
    BY <1>2, <1>7, FS_RemoveElement DEF DropModule
  <2>3. /\ Cardinality(At("decrement")') = Cardinality(At("decrement")) + 1
        /\ At("increment")' = At("increment")
    BY <1>1, <2>1, OneMoves
  <2>4. ~doubled' => ~doubled BY <1>7 DEF DropModule
  <2> QED BY <1>2, <1>7, <2>2, <2>3, <2>4 DEF CountInv, DropModule
<1>8. CASE DecrementCount(r)
  <2>1. req[r].at = "decrement" /\ req'[r].at = "idle"
    BY <1>0, <1>3, <1>8 DEF DecrementCount, Answer
  <2>2. /\ Cardinality(At("decrement")') = Cardinality(At("decrement")) - 1
        /\ At("increment")' = At("increment")
    BY <1>1, <2>1, OneMoves
  <2> QED BY <1>2, <1>8, <2>2 DEF CountInv, DecrementCount
<1>9. CASE RefuseRemoval(r)
  <2>1. req[r].at = "drop" /\ req'[r].at = "idle"
    BY <1>0, <1>3, <1>9 DEF RefuseRemoval, Answer
  <2>2. At("increment")' = At("increment") /\ At("decrement")' = At("decrement")
    BY <1>1, <2>1, OneMoves
  <2> QED BY <1>9, <2>2 DEF CountInv, RefuseRemoval
<1> QED BY <1>4, <1>5, <1>6, <1>7, <1>8, <1>9 DEF Manage

\* Replacements, runs, searches and sorts neither add modules nor count them.
LEMMA OtherCount ==
  ASSUME ProjectGraphAssumption, TypeOK, CountInv, NEW r \in Request,
         Replace(r) \/ Run(r) \/ Sort(r)
  PROVE  CountInv'
<1>0. req[r] \in Req /\ req \in [Request -> Req]
  BY DEF TypeOK
<1>1. \A q \in Request \ {r} : req'[q] = req[q]
  BY <1>0 DEF Replace, Run, Sort, AskDependencies, LookUpTarget, ListModules, DetectCycle,
     DeleteDependencies, InsertDependencies, ListForRun, ReadDependencies, TakeModule,
     FinishSort, Goto, Answer
<1>2. UNCHANGED <<rows, moduleCount, restarts, doubled>>
  BY DEF Replace, Run, Sort, AskDependencies, LookUpTarget, ListModules, DetectCycle,
     DeleteDependencies, InsertDependencies, ListForRun, ReadDependencies, TakeModule,
     FinishSort
<1> DEFINE Elsewhere == {"idle", "targets", "graph", "search", "delete", "insert", "read", "sort"}
<1>3. Idle.at = "idle" BY DEF Idle
<1>4. req[r].at \in Elsewhere
  BY <1>3 DEF Replace, Run, Sort, AskDependencies, LookUpTarget, ListModules, DetectCycle,
     DeleteDependencies, InsertDependencies, ListForRun, ReadDependencies, TakeModule,
     FinishSort
<1>5. req'[r].at \in Elsewhere
  <2>1. CASE Answer(r) BY <1>0, <1>3, <2>1 DEF Answer
  <2>2. ASSUME NEW m \in Module, NEW ids \in Asked, AskDependencies(r, m, ids)
        PROVE  req'[r].at = "targets"
    BY <1>0, <2>2 DEF AskDependencies, Idle
  <2>3. LookUpTarget(r) /\ ~Answer(r) => req'[r].at = "targets"
    BY <1>0 DEF LookUpTarget, Req
  <2>4. ListModules(r) => req'[r].at = "graph" BY <1>0 DEF ListModules, Req
  <2>5. DetectCycle(r) => req'[r].at = "search" BY <1>0 DEF DetectCycle, Req
  <2>6. DeleteDependencies(r) /\ ~Answer(r) => req'[r].at = "insert"
    BY <1>0 DEF DeleteDependencies, Goto, Req
  <2>7. InsertDependencies(r) \/ FinishSort(r) => Answer(r)
    BY DEF InsertDependencies, FinishSort
  <2>8. ListForRun(r) => req'[r].at = "read" BY <1>0 DEF ListForRun, Idle
  <2>9. ASSUME ReadDependencies(r) PROVE req'[r].at = "sort"
    <3>1. PICK graph, roots :
            req' = [req EXCEPT ![r].at = "sort", ![r].graph = graph, ![r].queue = roots]
      BY <2>9 DEF ReadDependencies
    <3> QED BY <1>0, <3>1 DEF Req
  <2>10. ASSUME TakeModule(r) PROVE req'[r].at = "sort"
    <3>1. PICK next, order :
            req' = [req EXCEPT ![r].queue = Tail(@) \o next, ![r].order = order]
      BY <2>10 DEF TakeModule
    <3> QED BY <1>0, <2>10, <3>1 DEF Req, TakeModule
  <2> HIDE DEF Elsewhere
  <2>11. {"idle", "targets", "graph", "search", "delete", "insert", "read", "sort"} \subseteq Elsewhere
    BY DEF Elsewhere
  <2> QED BY <2>1, <2>2, <2>3, <2>4, <2>5, <2>6, <2>7, <2>8, <2>9, <2>10, <2>11
     DEF Replace, Run, Sort
<1>6. At("increment")' = At("increment") /\ At("decrement")' = At("decrement")
  BY <1>1, <1>4, <1>5, OneMoves
<1> QED BY <1>2, <1>6 DEF CountInv

LEMMA SearchCount ==
  ASSUME ProjectGraphAssumption, TypeOK, CountInv, NEW r \in Request, Search(r)
  PROVE  CountInv'
<1>1. req[r].at = "search" /\ req'[r].at \in {"idle", "search", "delete"}
  BY SearchStep DEF Idle
<1>2. At("increment")' = At("increment") /\ At("decrement")' = At("decrement")
  BY <1>1, SearchStep, OneMoves
<1> QED BY <1>2, SearchStep DEF CountInv

\* Without restarts and double removals, the count is right whenever nothing
\* is in flight.
THEOREM CountsEveryModule == Spec => []CountIsRight
<1>1. Init => TypeOK /\ CountInv
  BY InitType, InitCount, ProjectGraphAssumption
<1>2. TypeOK /\ CountInv /\ [Next]_vars => (TypeOK /\ CountInv)'
  <2> SUFFICES ASSUME TypeOK, CountInv, [Next]_vars PROVE CountInv'
    BY NextType, ProjectGraphAssumption
  <2>1. CASE Restart
    <3>1. restarts' # 0 BY <2>1 DEF Restart, TypeOK, ProjectGraphAssumption
    <3> QED BY <3>1 DEF CountInv
  <2>2. CASE UNCHANGED vars
    BY <2>2 DEF vars, CountInv, At
  <2> QED BY <2>1, <2>2, ManageCount, OtherCount, SearchCount, ProjectGraphAssumption DEF Next
<1>3. TypeOK /\ CountInv => CountIsRight
  <2> SUFFICES ASSUME TypeOK, CountInv, restarts = 0, ~doubled,
                      \A r \in Request : req[r] = Idle
               PROVE  moduleCount = Cardinality(rows)
    BY DEF CountIsRight
  <2>1. At("increment") = {} /\ At("decrement") = {} BY DEF At, Idle
  <2>2. moduleCount \in Int /\ Cardinality(rows) \in Nat
    BY ProjectGraphAssumption, FS_Subset, FS_CardinalityType DEF TypeOK, ProjectGraphAssumption
  <2> QED BY <2>1, <2>2, FS_EmptySet DEF CountInv
<1> QED BY <1>1, <1>2, <1>3, PTL DEF Spec
=============================================================================
