------------------------ MODULE FleetDeploymentProofs ------------------------
(***************************************************************************)
(* Theorems about FleetDeployment for every value of its constants.        *)
(***************************************************************************)
EXTENDS FleetDeployment, TLAPS

\* The first rows of the table are filled, the others are not.
RowsKnown ==
  \A r \in Deployment :
    /\ r <= created => /\ rows[r].pipe \in Pipeline
                       /\ rows[r].target \in Target
                       /\ rows[r].config \in Configs
                       /\ rows[r].status \in {"active", "superseded"}
    /\ r > created => rows[r] = NoRow

InTarget == {"direct", "groups", "list", "write"}

\* A deploy or rollback knows its pipeline, what it deploys and where, and
\* will only supersede rows of that pipeline and target.
ReqsKnown ==
  \A w \in Worker :
    /\ req[w].pc \in InTarget \cup {"target"} =>
         req[w].pipe \in Pipeline /\ req[w].config \in Configs
    /\ req[w].pc \in InTarget => req[w].target \in Target
    /\ req[w].pc = "groups" => req[w].agent \in Agent
    /\ \A r \in req[w].stale : /\ req[w].pc \in InTarget /\ r <= created
                               /\ rows[r].pipe = req[w].pipe
                               /\ rows[r].target = req[w].target

Known == TypeOK /\ RowsKnown /\ ReqsKnown

----------------------------------------------------------------------------
(* Parts of configurations.                                                *)

\* A row that is not empty is one of the first.
LEMMA FilledRows ==
  ASSUME TypeOK, RowsKnown, NEW r \in Deployment
  PROVE  /\ rows[r].status # "absent" <=> r <= created
         /\ rows[r] # NoRow <=> r <= created
<1>1. r \in Nat /\ created \in Nat
  BY FleetAssumption DEF Deployment, TypeOK
<1>2. None \notin Pipeline BY FleetAssumption
<1> QED BY <1>1, <1>2 DEF RowsKnown, NoRow

LEMMA PartsType ==
  ASSUME TypeOK, RowsKnown, NEW T
  PROVE  PartsAt(T) \in SUBSET Part
<1> SUFFICES ASSUME NEW r \in Deployment, rows[r].status = "active"
             PROVE  [name |-> rows[r].pipe, config |-> rows[r].config] \in Part
  BY DEF PartsAt
<1>1. r <= created BY FilledRows
<1>2. rows[r].pipe \in Pipeline /\ rows[r].config \in Configs
  BY <1>1 DEF RowsKnown
<1> QED BY <1>2 DEF Part

LEMMA ManagedType ==
  ASSUME TypeOK, NEW a \in Agent
  PROVE  ManagedFor(a) \in SUBSET Part
<1>1. ASSUME NEW S \in SUBSET Target PROVE ManagedParts(S) \in SUBSET Part
  <2> SUFFICES ASSUME NEW s \in S, managed[s] # None
               PROVE  [name |-> s, config |-> managed[s]] \in Part
    BY DEF ManagedParts
  <2>1. managed[s] \in Configs BY DEF TypeOK
  <2> QED BY <2>1 DEF Part
<1>2. {a} \in SUBSET Target BY DEF Target
<1>3. GroupsMatchingAgent(a) \in SUBSET Target
  BY DEF GroupsMatchingAgent, TypeOK, Target
<1> QED BY <1>1, <1>2, <1>3 DEF ManagedFor

LEMMA IdleType == Idle \in Req
BY DEF Idle, Req, Type

----------------------------------------------------------------------------
(* Every step keeps the types and what requests know.                      *)

LEMMA ChangeKnown == ASSUME Known, Change PROVE Known'
<1>1. ASSUME NEW p \in Pipeline, NEW c \in Configs, CreateVersion(p, c) PROVE Known'
  BY <1>1 DEF Known, TypeOK, RowsKnown, ReqsKnown, CreateVersion
<1>2. ASSUME NEW a \in Agent, NEW G \in SUBSET Group, UpdateLabels(a, G) PROVE Known'
  BY <1>2 DEF Known, TypeOK, RowsKnown, ReqsKnown, UpdateLabels
<1>3. ASSUME NEW g \in Group, NEW A \in SUBSET Agent, UpdateGroup(g, A) PROVE Known'
  BY <1>3 DEF Known, TypeOK, RowsKnown, ReqsKnown, UpdateGroup
<1>4. ASSUME NEW s \in Target, NEW c \in Configs \cup {None}, SetManagedConfig(s, c)
      PROVE  Known'
  BY <1>4 DEF Known, TypeOK, RowsKnown, ReqsKnown, SetManagedConfig
<1> QED BY <1>1, <1>2, <1>3, <1>4 DEF Change

\* A step that writes one request and no table.
LEMMA ReqStepKnown ==
  ASSUME Known, NEW w \in Worker, NEW q \in Req,
         req' = [req EXCEPT ![w] = q],
         UNCHANGED <<saved, groups, member, managed, rows, created, clock, fetch,
                     running, cut, changes, restarts>>,
         q.pc \in InTarget \cup {"target"} => q.pipe \in Pipeline /\ q.config \in Configs,
         q.pc \in InTarget => q.target \in Target,
         q.pc = "groups" => q.agent \in Agent,
         \A r \in q.stale : /\ q.pc \in InTarget /\ r <= created
                            /\ rows[r].pipe = q.pipe /\ rows[r].target = q.target
  PROVE  Known'
<1>1. TypeOK' BY DEF Known, TypeOK
<1>2. RowsKnown' BY DEF Known, RowsKnown
<1>3. ReqsKnown' BY DEF Known, ReqsKnown, TypeOK
<1> QED BY <1>1, <1>2, <1>3 DEF Known

LEMMA RequestKnown ==
  ASSUME Known, NEW w \in Worker, Request(w) PROVE Known'
<1>1. ASSUME NEW p \in Pipeline, NEW c \in Configs, NEW T \in SUBSET Target,
             Deploy(w, p, c, T)
      PROVE  Known'
  <2> DEFINE q == [Idle EXCEPT !.pc = "target", !.pipe = p, !.config = c,
                             !.type = "deploy", !.targets = T]
  <2>1. q \in Req /\ q.pc = "target" /\ q.pipe = p /\ q.config = c /\ q.stale = {}
    BY DEF Idle, Req, Type
  <2>2. req' = [req EXCEPT ![w] = q] BY <1>1 DEF Deploy
  <2> HIDE DEF q
  <2> QED BY <1>1, <2>1, <2>2, ReqStepKnown DEF Deploy, InTarget
<1>2. ASSUME NEW r \in Deployment, NEW s \in Deployment, Revert(w, r, s)
      PROVE  Known'
  <2> DEFINE t == rows[r].target
             q == [Idle EXCEPT !.pipe = rows[r].pipe, !.config = rows[s].config,
                     !.type = "rollback", !.targets = {t}, !.target = t, !.stale = {r},
                     !.agents = {t} \cap Agent,
                     !.pc = IF t \in Agent THEN "direct" ELSE "write"]
  <2>1. rows[r].status # "absent" /\ rows[s].status # "absent"
    BY <1>2, FleetAssumption DEF Revert, MostRecent, Superseded
  <2>2. r <= created /\ s <= created BY <2>1, FilledRows DEF Known
  <2>3. rows[r].pipe \in Pipeline /\ t \in Target /\ rows[s].config \in Configs
    BY <2>2 DEF Known, RowsKnown
  <2>4. /\ q \in Req /\ q.pc \in {"direct", "write"} /\ q.pipe = rows[r].pipe
        /\ q.config = rows[s].config /\ q.target = t /\ q.stale = {r}
    BY <2>3 DEF Idle, Req, Type
  <2>5. req' = [req EXCEPT ![w] = q] BY <1>2 DEF Revert
  <2> HIDE DEF q
  <2>6. UNCHANGED <<saved, groups, member, managed, rows, created, clock, fetch,
                      running, cut, changes, restarts>>
    BY <1>2 DEF Revert
  <2> QED BY <2>2, <2>3, <2>4, <2>5, <2>6, ReqStepKnown DEF InTarget
<1>3. ASSUME NEW g \in Group, DeleteGroup(w, g) PROVE Known'
  <2> DEFINE q == [Idle EXCEPT !.pc = "delete", !.target = g]
  <2>1. q \in Req /\ q.pc = "delete" /\ q.stale = {} BY DEF Idle, Req, Target, Type
  <2>2. req' = [req EXCEPT ![w] = q] BY <1>3 DEF DeleteGroup
  <2> HIDE DEF q
  <2> QED BY <1>3, <2>1, <2>2, ReqStepKnown DEF DeleteGroup, InTarget
<1> QED BY <1>1, <1>2, <1>3 DEF Request

LEMMA ProceedKnown ==
  ASSUME Known, NEW w \in Worker, Proceed(w) PROVE Known'
<1> DEFINE k == req[w]
<1>0. /\ k \in Req
      /\ k.pc \in InTarget \cup {"target"} => k.pipe \in Pipeline /\ k.config \in Configs
      /\ k.pc \in InTarget => k.target \in Target
      /\ \A r \in k.stale : /\ k.pc \in InTarget /\ r <= created
                            /\ rows[r].pipe = k.pipe /\ rows[r].target = k.target
  BY DEF Known, TypeOK, ReqsKnown
<1>i. Idle.pc = "idle" /\ Idle.stale = {} BY DEF Idle
<1>1. ASSUME NEW t \in Target, NextTarget(w, t) PROVE Known'
  <2> DEFINE A == IF t \in Agent THEN {t} ELSE {a \in Listed : t \in member[a]}
             q == [k EXCEPT !.target = t, !.agents = A,
                            !.pc = IF A = {} THEN "list" ELSE "direct"]
  <2>1. A \in SUBSET Agent BY FleetAssumption
  <2> HIDE DEF A
  <2>2. /\ q \in Req /\ q.pc \in {"list", "direct"} /\ q.pipe = k.pipe
        /\ q.config = k.config /\ q.target = t /\ q.stale = k.stale
    BY <1>0, <2>1 DEF Req
  <2>3. k.pc = "target" /\ k.stale = {} BY <1>0, <1>1 DEF NextTarget, InTarget
  <2>4. req' = [req EXCEPT ![w] = Idle] \/ req' = [req EXCEPT ![w] = q]
    BY <1>1 DEF NextTarget, A
  <2> HIDE DEF q
  <2> QED BY <1>0, <1>i, <1>1, <2>2, <2>3, <2>4, IdleType, ReqStepKnown
          DEF NextTarget, InTarget
<1>2. ASSUME NEW a \in Agent, ReadDirect(w, a) PROVE Known'
  <2> DEFINE q == [k EXCEPT !.pc = "groups", !.agent = a, !.seen = PartsAt({a})]
  <2>1. PartsAt({a}) \in SUBSET Part BY PartsType DEF Known
  <2>2. /\ q \in Req /\ q.pc = "groups" /\ q.pipe = k.pipe /\ q.config = k.config
        /\ q.target = k.target /\ q.stale = k.stale /\ q.agent = a
    BY <1>0, <2>1 DEF Req
  <2>3. req' = [req EXCEPT ![w] = q] BY <1>2 DEF ReadDirect, Known, TypeOK
  <2>4. k.pc = "direct" BY <1>2 DEF ReadDirect
  <2> HIDE DEF q
  <2>5. UNCHANGED <<saved, groups, member, managed, rows, created, clock, fetch,
                      running, cut, changes, restarts>>
    BY <1>2 DEF ReadDirect
  <2> HIDE DEF k
  <2> QED BY <1>0, <2>2, <2>3, <2>4, <2>5, ReqStepKnown DEF InTarget
<1>3. CASE ReadGroups(w)
  <2> DEFINE A == k.agents \ {k.agent}
             pc == IF A # {} THEN "direct" ELSE IF k.stale # {} THEN "write" ELSE "list"
             q == [k EXCEPT !.agents = A, !.agent = None, !.seen = {}, !.pc = pc]
  <2>1. A \in SUBSET Agent /\ pc \in {"direct", "write", "list"} BY <1>0 DEF Req
  <2> HIDE DEF A, pc
  <2>2. /\ q \in Req /\ q.pc = pc /\ q.pipe = k.pipe /\ q.config = k.config
        /\ q.target = k.target /\ q.stale = k.stale
    BY <1>0, <2>1 DEF Req
  <2>3. req' = [req EXCEPT ![w] = Idle] \/ req' = [req EXCEPT ![w] = q]
    BY <1>3 DEF ReadGroups, A, pc
  <2>4. k.pc = "groups" BY <1>3 DEF ReadGroups
  <2> HIDE DEF q
  <2>5. UNCHANGED <<saved, groups, member, managed, rows, created, clock, fetch,
                      running, cut, changes, restarts>>
    BY <1>3 DEF ReadGroups
  <2> HIDE DEF k
  <2> QED BY <1>0, <1>i, <2>1, <2>2, <2>3, <2>4, <2>5, IdleType, ReqStepKnown
          DEF InTarget
<1>4. CASE ListActive(w)
  <2> DEFINE q == [k EXCEPT !.pc = "write", !.stale = ActiveDeployments(k.pipe, k.target)]
  <2>1. ASSUME NEW r \in ActiveDeployments(k.pipe, k.target)
        PROVE  r \in Deployment /\ r <= created
               /\ rows[r].pipe = k.pipe /\ rows[r].target = k.target
    BY FilledRows DEF ActiveDeployments, Known
  <2>2. /\ q \in Req /\ q.pc = "write" /\ q.pipe = k.pipe /\ q.config = k.config
        /\ q.target = k.target /\ q.stale = ActiveDeployments(k.pipe, k.target)
    BY <1>0 DEF Req, ActiveDeployments
  <2>3. req' = [req EXCEPT ![w] = q] BY <1>4 DEF ListActive, Known, TypeOK
  <2>4. k.pc = "list" BY <1>4 DEF ListActive
  <2> HIDE DEF q
  <2>5. UNCHANGED <<saved, groups, member, managed, rows, created, clock, fetch,
                      running, cut, changes, restarts>>
    BY <1>4 DEF ListActive
  <2> HIDE DEF k
  <2> QED BY <1>0, <2>1, <2>2, <2>3, <2>4, <2>5, ReqStepKnown DEF InTarget
<1>5. ASSUME NEW r \in Deployment, SupersedeDeployment(w, r) PROVE Known'
  <2>1. r <= created /\ k.pc = "write" BY <1>0, <1>5 DEF SupersedeDeployment
  <2>2. rows' \in [Deployment -> Row]
    <3>1. rows[r] \in Row /\ clock + 1 \in Nat BY DEF Known, TypeOK
    <3>2. [rows[r] EXCEPT !.status = "superseded", !.at = clock + 1] \in Row
      BY <3>1 DEF Row
    <3>3. rows' = [rows EXCEPT ![r] =
                     [rows[r] EXCEPT !.status = "superseded", !.at = clock + 1]]
      BY <1>5 DEF SupersedeDeployment, Known, TypeOK
    <3> QED BY <3>2, <3>3 DEF Known, TypeOK
  <2>3. req' \in [Worker -> Req]
    BY <1>0, <1>5 DEF SupersedeDeployment, Known, TypeOK, Req
  <2>4. TypeOK' BY <1>5, <2>2, <2>3 DEF SupersedeDeployment, Known, TypeOK
  <2>5. \A s \in Deployment :
          /\ rows'[s].pipe = rows[s].pipe /\ rows'[s].target = rows[s].target
          /\ rows'[s].config = rows[s].config
          /\ s # r => rows'[s] = rows[s]
    BY <1>5 DEF SupersedeDeployment, Known, TypeOK, Row
  <2>6. rows'[r].status = "superseded"
    BY <1>5 DEF SupersedeDeployment, Known, TypeOK, Row
  <2>7. RowsKnown'
    BY <1>5, <2>1, <2>5, <2>6, FleetAssumption
    DEF SupersedeDeployment, Known, TypeOK, RowsKnown, Deployment
  <2>8. ASSUME NEW v \in Worker
        PROVE  /\ req'[v].pc = req[v].pc /\ req'[v].pipe = req[v].pipe
               /\ req'[v].config = req[v].config /\ req'[v].target = req[v].target
               /\ req'[v].agent = req[v].agent
               /\ req'[v].stale \subseteq req[v].stale
               /\ req[v].stale \subseteq Deployment
    BY <1>5 DEF SupersedeDeployment, Known, TypeOK, Req
  <2>9. created' = created BY <1>5 DEF SupersedeDeployment
  <2>10. ReqsKnown'
    BY <2>5, <2>8, <2>9 DEF Known, ReqsKnown
  <2> QED BY <2>4, <2>7, <2>10 DEF Known
<1>6. CASE CreateDeployment(w)
  <2> DEFINE n == created + 1
             new == [pipe |-> k.pipe, target |-> k.target, config |-> k.config,
                     type |-> k.type, status |-> "active", at |-> 0]
             T == k.targets \ {k.target}
             q == [k EXCEPT !.pc = "target", !.targets = T, !.target = None]
  <2>1. k.pc = "write" /\ k.stale = {} /\ created < MaxRows
    BY <1>6 DEF CreateDeployment
  <2>2. n \in Deployment /\ created' = n /\ created \in Nat
    BY <1>6, <2>1, FleetAssumption DEF CreateDeployment, Deployment, Known, TypeOK
  <2>3. k.pipe \in Pipeline /\ k.config \in Configs /\ k.target \in Target
    BY <1>0, <2>1 DEF InTarget
  <2>4. new \in Row BY <1>0, <2>3 DEF Row, Req
  <2>5. rows' = [rows EXCEPT ![n] = new] BY <1>6 DEF CreateDeployment
  <2>6. /\ q \in Req /\ q.pc = "target" /\ q.pipe = k.pipe /\ q.config = k.config
        /\ q.stale = {}
    BY <1>0, <2>1 DEF Req
  <2>7. req' = [req EXCEPT ![w] = Idle] \/ req' = [req EXCEPT ![w] = q]
    BY <1>6 DEF CreateDeployment
  <2> HIDE DEF q, new
  <2>8. cut' \in SUBSET (Pipeline \X Target)
    BY <1>6 DEF CreateDeployment, Known, TypeOK
  <2>9. TypeOK'
    BY <1>6, <2>2, <2>4, <2>5, <2>6, <2>7, <2>8, IdleType, FleetAssumption
    DEF CreateDeployment, Known, TypeOK, Deployment
  <2>10. new.pipe = k.pipe /\ new.target = k.target /\ new.config = k.config
         /\ new.status = "active"
    BY DEF new
  <2>11. RowsKnown'
    BY <2>2, <2>3, <2>5, <2>10 DEF Known, TypeOK, RowsKnown, Deployment
  <2>12. ASSUME NEW v \in Worker, NEW r \in req[v].stale
         PROVE  r # n /\ rows'[r] = rows[r] /\ r <= created
    <3>1. r \in Deployment /\ r <= created BY DEF Known, TypeOK, Req, ReqsKnown
    <3> QED BY <3>1, <2>2, <2>5 DEF Known, TypeOK, Deployment
  <2>13. ASSUME NEW v \in Worker, v # w PROVE req'[v] = req[v]
    BY <2>7, <2>13 DEF Known, TypeOK
  <2>14. ASSUME NEW v \in Worker
         PROVE  /\ req'[v].pc \in InTarget \cup {"target"} =>
                     req'[v].pipe \in Pipeline /\ req'[v].config \in Configs
                /\ req'[v].pc \in InTarget => req'[v].target \in Target
                /\ req'[v].pc = "groups" => req'[v].agent \in Agent
                /\ \A r \in req'[v].stale :
                     /\ req'[v].pc \in InTarget /\ r <= created'
                     /\ rows'[r].pipe = req'[v].pipe
                     /\ rows'[r].target = req'[v].target
    <3>1. CASE v # w
      <4>1. \A r \in req[v].stale : r \in Nat
        BY DEF Known, TypeOK, Req, Deployment
      <4> QED BY <3>1, <2>2, <2>12, <2>13, <4>1 DEF Known, ReqsKnown
    <3>2. CASE v = w
      <4>1. req'[v] = Idle \/ req'[v] = q BY <3>2, <2>7 DEF Known, TypeOK
      <4> QED BY <4>1, <1>i, <2>3, <2>6 DEF InTarget
    <3> QED BY <3>1, <3>2
  <2>15. ReqsKnown' BY <2>14 DEF ReqsKnown
  <2> QED BY <2>9, <2>11, <2>15 DEF Known
<1>7. CASE RemoveGroup(w)
  <2>1. req' = [req EXCEPT ![w] = Idle] BY <1>7 DEF RemoveGroup
  <2>2. TypeOK' BY <1>7, IdleType DEF RemoveGroup, Known, TypeOK
  <2>3. RowsKnown' BY <1>7 DEF RemoveGroup, Known, RowsKnown
  <2>4. ReqsKnown'
    BY <1>7, <1>i, <2>1 DEF RemoveGroup, Known, TypeOK, ReqsKnown, InTarget
  <2> QED BY <2>2, <2>3, <2>4 DEF Known
<1> QED BY <1>1, <1>2, <1>3, <1>4, <1>5, <1>6, <1>7 DEF Proceed

LEMMA FetchKnown ==
  ASSUME Known, NEW a \in Agent, Fetch(a) PROVE Known'
<1>1. PartsAt({a}) \in SUBSET Part /\ PartsAt(GroupsMatchingAgent(a)) \in SUBSET Part
  BY PartsType DEF Known
<1>2. ManagedFor(a) \in SUBSET Part BY ManagedType DEF Known
<1>3. fetch[a].parts \in SUBSET Part /\ running[a] \in SUBSET Part
  BY DEF Known, TypeOK
<1>4. RowsKnown' /\ ReqsKnown'
  BY DEF Fetch, FetchManaged, FetchDirect, FetchGroups, Known, RowsKnown, ReqsKnown
<1>5. CASE FetchManaged(a)
  BY <1>2, <1>4, <1>5 DEF FetchManaged, Known, TypeOK
<1>6. CASE FetchDirect(a)
  BY <1>1, <1>3, <1>4, <1>6 DEF FetchDirect, Known, TypeOK
<1>7. CASE FetchGroups(a)
  <2>1. Answer(running[a], fetch[a].parts \cup PartsAt(GroupsMatchingAgent(a)))
          \in SUBSET Part
    BY <1>1, <1>3 DEF Answer
  <2> QED BY <2>1, <1>4, <1>7 DEF FetchGroups, Known, TypeOK, NoFetch
<1> QED BY <1>5, <1>6, <1>7 DEF Fetch

LEMMA RestartKnown == ASSUME Known, Restart PROVE Known'
<1>1. Idle.pc = "idle" /\ Idle.stale = {} BY DEF Idle
<1>2. TypeOK' BY IdleType DEF Restart, Known, TypeOK, NoFetch
<1>3. RowsKnown' BY DEF Restart, Known, RowsKnown
<1>4. ReqsKnown' BY <1>1 DEF Restart, ReqsKnown, InTarget
<1> QED BY <1>2, <1>3, <1>4 DEF Known

LEMMA InitKnown == ASSUME Init PROVE Known
<1>1. NoRow \in Row BY DEF NoRow, Row, Type
<1>2. Idle.pc = "idle" /\ Idle.stale = {} BY DEF Idle
<1>3. TypeOK BY <1>1, IdleType, FleetAssumption DEF Init, TypeOK, NoFetch
<1>4. RowsKnown BY FleetAssumption DEF Init, RowsKnown, Deployment
<1>5. ReqsKnown BY <1>2 DEF Init, ReqsKnown, InTarget
<1> QED BY <1>3, <1>4, <1>5 DEF Known

LEMMA NextKnown == ASSUME Known, [Next]_vars PROVE Known'
<1>1. CASE UNCHANGED vars BY <1>1 DEF vars, Known, TypeOK, RowsKnown, ReqsKnown
<1>2. CASE Next
  BY <1>2, ChangeKnown, RequestKnown, ProceedKnown, FetchKnown, RestartKnown,
     FleetAssumption
  DEF Next
<1> QED BY <1>1, <1>2

LEMMA KnownInvariance == Spec => []Known
BY InitKnown, NextKnown, PTL DEF Spec

\* Every row, request and configuration of an agent is well formed, however
\* many requests overlap (deploymentRoutes, fleetRoutes).
THEOREM TypeCorrect == Spec => []TypeOK
<1>1. Known => TypeOK BY DEF Known
<1> QED BY <1>1, KnownInvariance, PTL

----------------------------------------------------------------------------
(* No pipeline is lost by concurrent requests.                             *)

\* Steps that leave the deployments and whatever is being written alone.
LEMMA NothingKept ==
  ASSUME NothingIsUndeployed, rows' = rows, cut' = cut,
         \A v \in Worker : req[v].pc = "write" =>
           /\ req'[v].pc = "write" /\ req'[v].pipe = req[v].pipe
           /\ req'[v].target = req[v].target
  PROVE  NothingIsUndeployed'
BY DEF NothingIsUndeployed, ActiveDeployments, Writing

LEMMA ProceedNothing ==
  ASSUME Known, NothingIsUndeployed, NEW w \in Worker, Proceed(w)
  PROVE  NothingIsUndeployed'
<1>0. req \in [Worker -> Req] /\ req[w] \in Req BY DEF Known, TypeOK
<1>1. ASSUME NEW t \in Target, NextTarget(w, t) PROVE NothingIsUndeployed'
  <2>1. \A v \in Worker : req[v].pc = "write" => req'[v] = req[v]
    BY <1>0, <1>1 DEF NextTarget
  <2> QED BY <1>1, <2>1, NothingKept DEF NextTarget
<1>2. ASSUME NEW a \in Agent, ReadDirect(w, a) PROVE NothingIsUndeployed'
  <2>1. \A v \in Worker : req[v].pc = "write" => req'[v] = req[v]
    BY <1>0, <1>2 DEF ReadDirect
  <2> QED BY <1>2, <2>1, NothingKept DEF ReadDirect
<1>3. CASE ReadGroups(w)
  <2>1. \A v \in Worker : req[v].pc = "write" => req'[v] = req[v]
    BY <1>0, <1>3 DEF ReadGroups
  <2> QED BY <1>3, <2>1, NothingKept DEF ReadGroups
<1>4. CASE ListActive(w)
  <2>1. \A v \in Worker : req[v].pc = "write" => req'[v] = req[v]
    BY <1>0, <1>4 DEF ListActive
  <2> QED BY <1>4, <2>1, NothingKept DEF ListActive
<1>5. ASSUME NEW r \in Deployment, SupersedeDeployment(w, r)
      PROVE  NothingIsUndeployed'
  <2> SUFFICES ASSUME NEW s \in Deployment, rows'[s] # NoRow,
                      NEW p, p = rows'[s].pipe, NEW t, t = rows'[s].target
               PROVE  \/ ActiveDeployments(p, t)' # {}
                      \/ \E v \in Worker : Writing(v, p, t)'
                      \/ <<p, t>> \in cut'
    BY DEF NothingIsUndeployed
  <2>1. \A q \in Deployment :
          /\ rows'[q].pipe = rows[q].pipe /\ rows'[q].target = rows[q].target
          /\ q # r => rows'[q] = rows[q]
    BY <1>5 DEF SupersedeDeployment, Known, TypeOK, Row
  <2>2. \A v \in Worker : Writing(v, p, t) => Writing(v, p, t)'
    BY <1>0, <1>5 DEF SupersedeDeployment, Writing, Req
  <2>3. /\ rows[r].pipe = req[w].pipe /\ rows[r].target = req[w].target
        /\ r <= created /\ req[w].pc = "write"
    BY <1>5 DEF SupersedeDeployment, Known, ReqsKnown
  <2>4. rows[s] # NoRow
    BY <2>1, <2>3, FilledRows DEF Known
  <2>5. CASE p = req[w].pipe /\ t = req[w].target
    BY <2>2, <2>3, <2>5 DEF Writing
  <2>6. CASE ~(p = req[w].pipe /\ t = req[w].target)
    <3>1. ActiveDeployments(p, t)' = ActiveDeployments(p, t)
      BY <2>1, <2>3, <2>6 DEF ActiveDeployments
    <3>2. \/ ActiveDeployments(p, t) # {}
          \/ \E v \in Worker : Writing(v, p, t)
          \/ <<p, t>> \in cut
      BY <2>1, <2>4 DEF NothingIsUndeployed
    <3> QED BY <1>5, <2>2, <3>1, <3>2 DEF SupersedeDeployment
  <2> QED BY <2>5, <2>6
<1>6. CASE CreateDeployment(w)
  <2> SUFFICES ASSUME NEW s \in Deployment, rows'[s] # NoRow,
                      NEW p, p = rows'[s].pipe, NEW t, t = rows'[s].target
               PROVE  \/ ActiveDeployments(p, t)' # {}
                      \/ \E v \in Worker : Writing(v, p, t)'
                      \/ <<p, t>> \in cut'
    BY DEF NothingIsUndeployed
  <2> DEFINE n == created + 1
  <2>1. n \in Deployment
    BY <1>6, FleetAssumption DEF CreateDeployment, Deployment, Known, TypeOK
  <2>2. rows[n] = NoRow
    BY <2>1, FilledRows DEF Known, TypeOK
  <2>3. /\ rows'[n].pipe = req[w].pipe /\ rows'[n].target = req[w].target
        /\ rows'[n].status = "active"
        /\ \A q \in Deployment : q # n => rows'[q] = rows[q]
    BY <1>6, <2>1 DEF CreateDeployment, Known, TypeOK
  <2>4. CASE p = req[w].pipe /\ t = req[w].target
    <3>1. n \in ActiveDeployments(p, t)'
      BY <2>1, <2>3, <2>4 DEF ActiveDeployments
    <3> QED BY <3>1
  <2>5. CASE ~(p = req[w].pipe /\ t = req[w].target)
    <3>1. s # n /\ rows[s] = rows'[s] BY <2>3, <2>5
    <3>2. \/ ActiveDeployments(p, t) # {}
          \/ \E v \in Worker : Writing(v, p, t)
          \/ <<p, t>> \in cut
      BY <3>1 DEF NothingIsUndeployed
    <3>3. ActiveDeployments(p, t) \subseteq ActiveDeployments(p, t)'
      <4> SUFFICES ASSUME NEW q \in ActiveDeployments(p, t)
                   PROVE  q \in ActiveDeployments(p, t)'
        OBVIOUS
      <4>1. q # n BY <2>2 DEF ActiveDeployments, NoRow
      <4> QED BY <4>1, <2>3 DEF ActiveDeployments
    <3>4. \A v \in Worker : Writing(v, p, t) => Writing(v, p, t)'
      BY <1>0, <1>6, <2>5 DEF CreateDeployment, Writing
    <3>5. <<p, t>> \in cut => <<p, t>> \in cut'
      BY <1>6, <2>5 DEF CreateDeployment
    <3> QED BY <3>2, <3>3, <3>4, <3>5
  <2> QED BY <2>4, <2>5
<1>7. CASE RemoveGroup(w)
  <2>1. \A v \in Worker : req[v].pc = "write" => req'[v] = req[v]
    BY <1>0, <1>7 DEF RemoveGroup
  <2> QED BY <1>7, <2>1, NothingKept DEF RemoveGroup
<1> QED BY <1>1, <1>2, <1>3, <1>4, <1>5, <1>6, <1>7 DEF Proceed

LEMMA NextNothing ==
  ASSUME Known, NothingIsUndeployed, [Next]_vars
  PROVE  NothingIsUndeployed'
<1>0. req \in [Worker -> Req] BY DEF Known, TypeOK
<1>1. CASE UNCHANGED vars BY <1>1, NothingKept DEF vars
<1>2. CASE Change
  <2>1. rows' = rows /\ cut' = cut /\ req' = req
    BY <1>2 DEF Change, CreateVersion, UpdateLabels, UpdateGroup, SetManagedConfig
  <2> QED BY <2>1, NothingKept
<1>3. ASSUME NEW w \in Worker, Request(w) PROVE NothingIsUndeployed'
  <2>1. rows' = rows /\ cut' = cut
    BY <1>3 DEF Request, Deploy, Revert, DeleteGroup
  <2>2. \A v \in Worker : req[v].pc = "write" => req'[v] = req[v]
    BY <1>0, <1>3 DEF Request, Deploy, Revert, DeleteGroup
  <2> QED BY <2>1, <2>2, NothingKept
<1>4. ASSUME NEW a \in Agent, Fetch(a) PROVE NothingIsUndeployed'
  <2>1. rows' = rows /\ cut' = cut /\ req' = req
    BY <1>4 DEF Fetch, FetchManaged, FetchDirect, FetchGroups
  <2> QED BY <2>1, NothingKept
<1>5. CASE Restart
  <2> SUFFICES ASSUME NEW s \in Deployment, rows[s] # NoRow,
                      NEW p, p = rows[s].pipe, NEW t, t = rows[s].target
               PROVE  ActiveDeployments(p, t)' # {} \/ <<p, t>> \in cut'
    BY <1>5 DEF NothingIsUndeployed, Restart
  <2>1. p \in Pipeline /\ t \in Target
    BY FilledRows DEF Known, RowsKnown
  <2>2. ActiveDeployments(p, t)' = ActiveDeployments(p, t)
    BY <1>5 DEF Restart, ActiveDeployments
  <2>3. \/ ActiveDeployments(p, t) # {}
        \/ \E v \in Worker : Writing(v, p, t)
        \/ <<p, t>> \in cut
    BY DEF NothingIsUndeployed
  <2> QED BY <1>5, <2>1, <2>2, <2>3 DEF Restart
<1> QED BY <1>1, <1>2, <1>3, <1>4, <1>5, ProceedNothing, FleetAssumption DEF Next

\* Whatever requests overlap and whenever the backend restarts: a pipeline
\* deployed to a target keeps an active deployment there, except while a
\* request replaces it and where a restart cut one short.
THEOREM PipelinesStayDeployed == Spec => []NothingIsUndeployed
<1>1. ASSUME Init PROVE NothingIsUndeployed
  BY <1>1 DEF Init, NothingIsUndeployed
<1> QED BY <1>1, NextNothing, KnownInvariance, PTL DEF Spec

----------------------------------------------------------------------------
(* What FleetDeployment guarantees when requests do not overlap.           *)

\* One request at a time.
Serial == \A v, w \in Worker : v = w

\* What is about to be replaced covers all there is to replace.
AllStale ==
  \A w \in Worker :
    req[w].pc = "write" \/ req[w].stale # {} =>
      ActiveDeployments(req[w].pipe, req[w].target) \subseteq req[w].stale

\* A request works on a group that exists; one that deletes a group has seen
\* that no active deployment targets it.
TargetsSeen ==
  \A w \in Worker :
    /\ req[w].pc \in InTarget /\ req[w].target \in Group => req[w].target \in groups
    /\ req[w].pc = "delete" =>
         \A r \in Deployment :
           rows[r].status = "active" => rows[r].target # req[w].target

\* Configuration c of pipeline p collides with nothing that reaches a.
Fits(a, p, c) ==
  \A r \in Deployment :
    rows[r].status = "active" /\ Reaches(rows[r].target, a) /\ rows[r].pipe # p
      => rows[r].config \cap c = {}

\* Agent a is among those the request checks.
Sees(w, a) ==
  req[w].target = a \/ (a \in Listed /\ req[w].type = "deploy")

\* Agents a request has checked, and what it has read of the one it checks.
Checked ==
  \A w \in Worker : req[w].pc \in InTarget =>
    /\ \A a \in Agent \ req[w].agents :
         Reaches(req[w].target, a) /\ Sees(w, a)
           => Fits(a, req[w].pipe, req[w].config)
    /\ req[w].pc \in {"list", "write"} => req[w].agents = {}
    /\ req[w].pc = "groups" => req[w].seen = PartsAt({req[w].agent})

----------------------------------------------------------------------------
(* What the two writes of a request do.                                    *)

LEMMA SupersedeEffect ==
  ASSUME Known, NEW w \in Worker, NEW r \in Deployment, SupersedeDeployment(w, r)
  PROVE  /\ \A q \in Deployment :
              /\ rows'[q].pipe = rows[q].pipe /\ rows'[q].target = rows[q].target
              /\ rows'[q].config = rows[q].config /\ rows'[q].type = rows[q].type
              /\ q # r => rows'[q] = rows[q]
         /\ rows'[r].status = "superseded"
         /\ req[w].pc = "write" /\ req'[w].pc = "write"
         /\ req'[w].pipe = req[w].pipe /\ req'[w].target = req[w].target
         /\ req'[w].config = req[w].config /\ req'[w].agents = req[w].agents
         /\ req'[w].type = req[w].type /\ req'[w].stale = req[w].stale \ {r}
         /\ groups' = groups /\ member' = member
BY DEF SupersedeDeployment, Known, TypeOK, Row, Req

LEMMA CreateEffect ==
  ASSUME Known, NEW w \in Worker, CreateDeployment(w)
  PROVE  /\ created + 1 \in Deployment /\ rows[created + 1].status # "active"
         /\ rows'[created + 1].pipe = req[w].pipe
         /\ rows'[created + 1].target = req[w].target
         /\ rows'[created + 1].config = req[w].config
         /\ rows'[created + 1].type = req[w].type
         /\ rows'[created + 1].status = "active"
         /\ \A q \in Deployment : q # created + 1 => rows'[q] = rows[q]
         /\ req[w].pc = "write" /\ req[w].stale = {}
         /\ req'[w].pc \in {"idle", "target"} /\ req'[w].stale = {}
         /\ groups' = groups /\ member' = member
<1>1. created + 1 \in Deployment
  BY FleetAssumption DEF CreateDeployment, Deployment, Known, TypeOK
<1>2. rows[created + 1] = NoRow BY <1>1, FilledRows DEF Known, TypeOK
<1>3. req'[w].pc \in {"idle", "target"} /\ req'[w].stale = {}
  BY DEF CreateDeployment, Known, TypeOK, Req, Idle
<1> QED BY <1>1, <1>2, <1>3 DEF CreateDeployment, Known, TypeOK, NoRow

\* What a rollback begins with.
LEMMA RevertEffect ==
  ASSUME Known, NEW w \in Worker, NEW r \in Deployment, NEW q \in Deployment,
         Revert(w, r, q)
  PROVE  /\ req'[w].pipe = rows[r].pipe /\ req'[w].target = rows[r].target
         /\ req'[w].stale = {r} /\ req'[w].config = rows[q].config
         /\ req'[w].type = "rollback"
         /\ req'[w].agents = {rows[r].target} \cap Agent
         /\ req'[w].pc = IF rows[r].target \in Agent THEN "direct" ELSE "write"
         /\ rows[r].status \in Revertible
         /\ rows' = rows /\ groups' = groups /\ member' = member
BY DEF Revert, Known, TypeOK, Idle

\* What a request keeps between its writes.
LEMMA ReadEffect ==
  ASSUME Known, NEW w \in Worker,
         \/ \E a \in Agent : ReadDirect(w, a)
         \/ ReadGroups(w)
  PROVE  /\ rows' = rows /\ groups' = groups /\ member' = member
         /\ req[w].pc \in {"direct", "groups"}
         /\ \/ req'[w].pc = "idle" /\ req'[w].stale = {}
            \/ /\ req'[w].pipe = req[w].pipe /\ req'[w].target = req[w].target
               /\ req'[w].config = req[w].config /\ req'[w].stale = req[w].stale
               /\ req'[w].pc \in InTarget
               /\ req'[w].pc = "write" => req[w].stale # {}
<1> DEFINE Goal == /\ rows' = rows /\ groups' = groups /\ member' = member
                   /\ req[w].pc = "direct" /\ req'[w].pc = "groups"
                   /\ req'[w].pipe = req[w].pipe /\ req'[w].target = req[w].target
                   /\ req'[w].config = req[w].config /\ req'[w].stale = req[w].stale
<1>0. req \in [Worker -> Req] BY DEF Known, TypeOK
<1>1. ASSUME NEW a \in Agent, ReadDirect(w, a) PROVE Goal
  BY <1>0, <1>1 DEF ReadDirect, Req
<1>2. CASE ReadGroups(w)
  BY <1>0, <1>2 DEF ReadGroups, Req, InTarget, Idle
<1> QED BY <1>1, <1>2 DEF InTarget

----------------------------------------------------------------------------
(* One active deployment.                                                  *)

OneInv == OneActive /\ AllStale

LEMMA RequestOne ==
  ASSUME Known, OneInv, Serial, Revertible \subseteq {"active"},
         NEW w \in Worker, Request(w)
  PROVE  OneInv'
<1>0. req \in [Worker -> Req] /\ \A v \in Worker : v = w BY DEF Known, TypeOK, Serial
<1>1. ASSUME NEW p \in Pipeline, NEW c \in Configs, NEW T \in SUBSET Target,
             Deploy(w, p, c, T)
      PROVE  OneInv'
  <2>1. req'[w].pc = "target" /\ req'[w].stale = {} /\ rows' = rows
    BY <1>0, <1>1 DEF Deploy, Idle
  <2> QED BY <1>0, <2>1 DEF OneInv, OneActive, AllStale
<1>2. ASSUME NEW r \in Deployment, NEW q \in Deployment, Revert(w, r, q)
      PROVE  OneInv'
  <2>1. rows' = rows /\ rows[r].status = "active"
    BY <1>2, RevertEffect
  <2>2. ActiveDeployments(rows[r].pipe, rows[r].target) \subseteq {r}
    BY <2>1 DEF OneInv, OneActive, ActiveDeployments
  <2>3. ActiveDeployments(req[w].pipe, req[w].target)' \subseteq req'[w].stale
    BY <1>2, <2>1, <2>2, RevertEffect DEF ActiveDeployments
  <2>4. AllStale' BY <1>0, <2>3 DEF AllStale, ActiveDeployments
  <2> QED BY <2>1, <2>4 DEF OneInv, OneActive
<1>3. ASSUME NEW g \in Group, DeleteGroup(w, g) PROVE OneInv'
  <2>1. req'[w].pc = "delete" /\ req'[w].stale = {} /\ rows' = rows
    BY <1>0, <1>3 DEF DeleteGroup, Idle
  <2> QED BY <1>0, <2>1 DEF OneInv, OneActive, AllStale
<1> QED BY <1>1, <1>2, <1>3 DEF Request

LEMMA ProceedOne ==
  ASSUME Known, OneInv, Serial, NEW w \in Worker, Proceed(w)
  PROVE  OneInv'
<1>0. req \in [Worker -> Req] /\ \A v \in Worker : v = w BY DEF Known, TypeOK, Serial
<1>1. ASSUME NEW t \in Target, NextTarget(w, t) PROVE OneInv'
  <2>1. req[w].pc = "target" /\ req[w].stale = {}
    BY <1>1 DEF NextTarget, Known, ReqsKnown, InTarget
  <2>2. req'[w].pc # "write" /\ req'[w].stale = {} /\ rows' = rows
    BY <1>0, <1>1, <2>1 DEF NextTarget, Idle, Req
  <2> QED BY <1>0, <2>2 DEF OneInv, OneActive, AllStale
<1>2. CASE (\E a \in Agent : ReadDirect(w, a)) \/ ReadGroups(w)
  <2>1. rows' = rows BY <1>2, ReadEffect
  <2>2. AllStale'
    BY <1>0, <1>2, <2>1, ReadEffect DEF OneInv, AllStale, ActiveDeployments
  <2> QED BY <2>1, <2>2 DEF OneInv, OneActive
<1>3. CASE ListActive(w)
  <2>1. /\ rows' = rows /\ req'[w].pipe = req[w].pipe /\ req'[w].target = req[w].target
        /\ req'[w].stale = ActiveDeployments(req[w].pipe, req[w].target)
    BY <1>0, <1>3 DEF ListActive, Req
  <2>2. AllStale' BY <1>0, <2>1 DEF AllStale, ActiveDeployments
  <2> QED BY <2>1, <2>2 DEF OneInv, OneActive
<1>4. ASSUME NEW r \in Deployment, SupersedeDeployment(w, r) PROVE OneInv'
  <2>1. \A q \in Deployment : rows'[q].status = "active" =>
          q # r /\ rows[q].status = "active"
    BY <1>4, SupersedeEffect
  <2>2. OneActive'
    BY <1>4, <2>1, SupersedeEffect DEF OneInv, OneActive
  <2>3. ActiveDeployments(req[w].pipe, req[w].target) \subseteq req[w].stale
    BY <1>4, SupersedeEffect DEF OneInv, AllStale
  <2>4. ActiveDeployments(req[w].pipe, req[w].target)' \subseteq req'[w].stale
    BY <1>4, <2>1, <2>3, SupersedeEffect DEF ActiveDeployments
  <2>5. AllStale' BY <1>0, <2>4 DEF AllStale, ActiveDeployments
  <2> QED BY <2>2, <2>5 DEF OneInv
<1>5. CASE CreateDeployment(w)
  <2>1. ActiveDeployments(req[w].pipe, req[w].target) = {}
    BY <1>5, CreateEffect DEF OneInv, AllStale
  <2>2. OneActive'
    BY <1>5, <2>1, CreateEffect DEF OneInv, OneActive, ActiveDeployments
  <2>3. AllStale' BY <1>0, <1>5, CreateEffect DEF AllStale
  <2> QED BY <2>2, <2>3 DEF OneInv
<1>6. CASE RemoveGroup(w)
  <2>1. req'[w].pc = "idle" /\ req'[w].stale = {} /\ rows' = rows
    BY <1>0, <1>6 DEF RemoveGroup, Idle
  <2> QED BY <1>0, <2>1 DEF OneInv, OneActive, AllStale
<1> QED BY <1>1, <1>2, <1>3, <1>4, <1>5, <1>6 DEF Proceed

LEMMA NextOne ==
  ASSUME Known, OneInv, Serial, Revertible \subseteq {"active"}, [Next]_vars
  PROVE  OneInv'
<1>1. CASE UNCHANGED <<rows, req>>
  BY <1>1 DEF OneInv, OneActive, AllStale, ActiveDeployments
<1>2. CASE Restart
  <2>1. rows' = rows /\ \A v \in Worker : req'[v] = Idle BY <1>2 DEF Restart
  <2>2. Idle.pc = "idle" /\ Idle.stale = {} BY DEF Idle
  <2> QED BY <2>1, <2>2 DEF OneInv, OneActive, AllStale
<1>3. Change \/ (\E a \in Agent : Fetch(a)) \/ UNCHANGED vars =>
        UNCHANGED <<rows, req>>
  BY DEF vars, Change, CreateVersion, UpdateLabels, UpdateGroup, SetManagedConfig,
         Fetch, FetchManaged, FetchDirect, FetchGroups
<1> QED BY <1>1, <1>2, <1>3, RequestOne, ProceedOne, FleetAssumption DEF Next

\* Without overlapping requests, and if only active deployments are rolled
\* back, as the UI offers it, a pipeline has at most one active deployment per
\* target, whatever partial deploys and restarts there have been.
THEOREM OneActivePerTarget ==
  ASSUME Serial, Revertible \subseteq {"active"}
  PROVE  Spec => []OneActive
<1>1. ASSUME Init PROVE OneInv
  <2>1. Idle.pc = "idle" /\ Idle.stale = {} BY DEF Idle
  <2> QED BY <1>1, <2>1 DEF Init, OneInv, OneActive, AllStale, NoRow
<1>2. ASSUME Known, OneInv, [Next]_vars PROVE OneInv' BY <1>2, NextOne
<1>3. OneInv => OneActive BY DEF OneInv
<1> QED BY <1>1, <1>2, <1>3, KnownInvariance, PTL DEF Spec

----------------------------------------------------------------------------
(* Groups with active deployments are not deleted.                         *)

TargetInv == TargetsExist /\ TargetsSeen

LEMMA RequestTargets ==
  ASSUME Known, TargetInv, Serial, Revertible \subseteq {"active"},
         NEW w \in Worker, Request(w)
  PROVE  TargetInv'
<1>0. req \in [Worker -> Req] /\ \A v \in Worker : v = w BY DEF Known, TypeOK, Serial
<1>1. ASSUME NEW p \in Pipeline, NEW c \in Configs, NEW T \in SUBSET Target,
             Deploy(w, p, c, T)
      PROVE  TargetInv'
  <2>1. req'[w].pc = "target" /\ rows' = rows /\ groups' = groups
    BY <1>0, <1>1 DEF Deploy, Idle
  <2> QED BY <1>0, <2>1 DEF TargetInv, TargetsExist, TargetsSeen, InTarget
<1>2. ASSUME NEW r \in Deployment, NEW q \in Deployment, Revert(w, r, q)
      PROVE  TargetInv'
  <2>1. /\ rows' = rows /\ groups' = groups /\ rows[r].status = "active"
        /\ req'[w].target = rows[r].target /\ req'[w].pc # "delete"
    BY <1>2, RevertEffect
  <2> QED BY <1>0, <2>1 DEF TargetInv, TargetsExist, TargetsSeen
<1>3. ASSUME NEW g \in Group, DeleteGroup(w, g) PROVE TargetInv'
  <2>1. /\ req'[w].pc = "delete" /\ req'[w].target = g
        /\ rows' = rows /\ groups' = groups
    BY <1>0, <1>3 DEF DeleteGroup, Idle
  <2>2. ASSUME NEW r \in Deployment, rows[r].status = "active"
        PROVE  rows[r].target # g
    <3>1. rows[r].pipe \in Pipeline BY <2>2, FilledRows DEF Known, RowsKnown
    <3> QED BY <1>3, <2>2, <3>1 DEF DeleteGroup, ActiveDeployments
  <2> QED BY <1>0, <2>1, <2>2 DEF TargetInv, TargetsExist, TargetsSeen, InTarget
<1> QED BY <1>1, <1>2, <1>3 DEF Request

LEMMA ProceedTargets ==
  ASSUME Known, TargetInv, Serial, NEW w \in Worker, Proceed(w)
  PROVE  TargetInv'
<1>0. req \in [Worker -> Req] /\ \A v \in Worker : v = w BY DEF Known, TypeOK, Serial
<1>1. ASSUME NEW t \in Target, NextTarget(w, t) PROVE TargetInv'
  <2>1. /\ rows' = rows /\ groups' = groups
        /\ \/ req'[w].pc = "idle"
           \/ /\ req'[w].pc \in {"list", "direct"} /\ req'[w].target = t
              /\ t \notin Group \ groups
    BY <1>0, <1>1 DEF NextTarget, Idle, Req
  <2> QED BY <1>0, <2>1 DEF TargetInv, TargetsExist, TargetsSeen, InTarget
<1>2. CASE (\E a \in Agent : ReadDirect(w, a)) \/ ReadGroups(w)
  <2>1. /\ rows' = rows /\ groups' = groups /\ req[w].pc \in InTarget
        /\ \/ req'[w].pc = "idle"
           \/ req'[w].pc \in InTarget /\ req'[w].target = req[w].target
    BY <1>2, ReadEffect DEF InTarget
  <2> QED BY <1>0, <2>1 DEF TargetInv, TargetsExist, TargetsSeen, InTarget
<1>3. CASE ListActive(w)
  <2>1. /\ rows' = rows /\ groups' = groups /\ req'[w].target = req[w].target
        /\ req[w].pc = "list" /\ req'[w].pc = "write"
    BY <1>0, <1>3 DEF ListActive, Req
  <2> QED BY <1>0, <2>1 DEF TargetInv, TargetsExist, TargetsSeen, InTarget
<1>4. ASSUME NEW r \in Deployment, SupersedeDeployment(w, r) PROVE TargetInv'
  <2>1. \A q \in Deployment : rows'[q].status = "active" =>
          rows[q].status = "active" /\ rows'[q].target = rows[q].target
    BY <1>4, SupersedeEffect
  <2>2. TargetsExist'
    BY <1>4, <2>1, SupersedeEffect DEF TargetInv, TargetsExist
  <2>3. TargetsSeen'
    BY <1>0, <1>4, SupersedeEffect DEF TargetInv, TargetsSeen, InTarget
  <2> QED BY <2>2, <2>3 DEF TargetInv
<1>5. CASE CreateDeployment(w)
  <2>1. TargetsExist'
    BY <1>5, CreateEffect DEF TargetInv, TargetsExist, TargetsSeen, InTarget
  <2>2. TargetsSeen'
    BY <1>0, <1>5, CreateEffect DEF TargetsSeen, InTarget
  <2> QED BY <2>1, <2>2 DEF TargetInv
<1>6. CASE RemoveGroup(w)
  <2>1. /\ req'[w].pc = "idle" /\ rows' = rows /\ groups' = groups \ {req[w].target}
        /\ req[w].pc = "delete"
    BY <1>0, <1>6 DEF RemoveGroup, Idle
  <2> QED BY <1>0, <2>1 DEF TargetInv, TargetsExist, TargetsSeen, InTarget
<1> QED BY <1>1, <1>2, <1>3, <1>4, <1>5, <1>6 DEF Proceed

LEMMA NextTargets ==
  ASSUME Known, TargetInv, Serial, Revertible \subseteq {"active"}, [Next]_vars
  PROVE  TargetInv'
<1>1. CASE UNCHANGED <<rows, req, groups>>
  BY <1>1 DEF TargetInv, TargetsExist, TargetsSeen
<1>2. CASE Restart
  <2>1. rows' = rows /\ groups' = groups /\ \A v \in Worker : req'[v] = Idle
    BY <1>2 DEF Restart
  <2>2. Idle.pc = "idle" BY DEF Idle
  <2> QED BY <2>1, <2>2 DEF TargetInv, TargetsExist, TargetsSeen, InTarget
<1>3. Change \/ (\E a \in Agent : Fetch(a)) \/ UNCHANGED vars =>
        UNCHANGED <<rows, req, groups>>
  BY DEF vars, Change, CreateVersion, UpdateLabels, UpdateGroup, SetManagedConfig,
         Fetch, FetchManaged, FetchDirect, FetchGroups
<1> QED BY <1>1, <1>2, <1>3, RequestTargets, ProceedTargets, FleetAssumption DEF Next

\* Without overlapping requests the check of DELETE group does what it is for:
\* no active deployment is left without its group (groupRoutes.ts).
THEOREM DeployedGroupsExist ==
  ASSUME Serial, Revertible \subseteq {"active"}
  PROVE  Spec => []TargetsExist
<1>1. ASSUME Init PROVE TargetInv
  <2>1. Idle.pc = "idle" BY DEF Idle
  <2> QED BY <1>1, <2>1 DEF Init, TargetInv, TargetsExist, TargetsSeen, NoRow, InTarget
<1>2. ASSUME Known, TargetInv, [Next]_vars PROVE TargetInv' BY <1>2, NextTargets
<1>3. TargetInv => TargetsExist BY DEF TargetInv
<1> QED BY <1>1, <1>2, <1>3, KnownInvariance, PTL DEF Spec

----------------------------------------------------------------------------
(* No collision reaches an agent.                                          *)

CollisionInv == CollisionFree /\ Checked

\* What matters of a step that begins no write: fewer rows reach an agent.
LEMMA FewerRows ==
  ASSUME CollisionFree,
         \A r \in Deployment : rows'[r].status = "active" =>
           /\ rows[r].status = "active" /\ rows'[r].pipe = rows[r].pipe
           /\ rows'[r].target = rows[r].target /\ rows'[r].config = rows[r].config
           /\ rows'[r].type = rows[r].type,
         groups' \subseteq groups, member' = member
  PROVE  /\ CollisionFree'
         /\ \A a \in Agent, t \in Target : Reaches(t, a)' => Reaches(t, a)
         /\ \A a \in Agent : \A p, c : Fits(a, p, c) => Fits(a, p, c)'
<1>1. \A a, t : Reaches(t, a)' => Reaches(t, a)
  BY DEF Reaches, GroupsMatchingAgent
<1>2. \A a \in Agent : \A p, c : Fits(a, p, c) => Fits(a, p, c)'
  BY <1>1 DEF Fits
<1>3. CollisionFree'
  <2> SUFFICES ASSUME NEW a \in Agent, NEW q \in Deployment, NEW r \in 1..(q - 1),
                      rows'[r].status = "active", Reaches(rows[r].target, a)',
                      rows'[q].status = "active", Reaches(rows[q].target, a)',
                      rows'[r].pipe # rows'[q].pipe, Vetted(q, a)'
               PROVE  rows'[r].config \cap rows'[q].config = {}
    BY DEF CollisionFree
  <2>1. r \in Deployment BY FleetAssumption DEF Deployment
  <2>2. rows[q].target = rows'[q].target /\ rows[q].type = rows'[q].type
    OBVIOUS
  <2>4. Vetted(q, a) BY <2>2 DEF Vetted
  <2>3. Reaches(rows[r].target, a) /\ Reaches(rows[q].target, a) BY <1>1, <2>1
  <2> QED BY <2>1, <2>3, <2>4 DEF CollisionFree
<1> QED BY <1>1, <1>2, <1>3

LEMMA FewerFits ==
  ASSUME Known, CollisionInv, NEW w \in Worker,
         req[w].pc \in InTarget, req'[w].pc \in InTarget,
         \A a \in Agent, t \in Target : Reaches(t, a)' => Reaches(t, a),
         \A a \in Agent : \A p, c : Fits(a, p, c) => Fits(a, p, c)',
         req'[w].pipe = req[w].pipe, req'[w].target = req[w].target,
         req'[w].config = req[w].config, req'[w].type = req[w].type
  PROVE  \A a \in Agent \ req[w].agents :
           Reaches(req[w].target, a)' /\ Sees(w, a)'
             => Fits(a, req[w].pipe, req[w].config)'
<1>1. req[w].target \in Target BY DEF Known, ReqsKnown
<1>2. \A a : Sees(w, a)' => Sees(w, a) BY DEF Sees
<1> QED BY <1>1, <1>2 DEF CollisionInv, Checked

LEMMA RequestCollision ==
  ASSUME Known, CollisionInv, Serial,
         NEW w \in Worker, Request(w)
  PROVE  CollisionInv'
<1>0. req \in [Worker -> Req] /\ \A v \in Worker : v = w BY DEF Known, TypeOK, Serial
<1>1. rows' = rows /\ groups' = groups /\ member' = member
  BY DEF Request, Deploy, Revert, DeleteGroup
<1>2. CollisionFree' BY <1>1, FewerRows DEF CollisionInv
<1>3. ASSUME req'[w].pc \notin InTarget PROVE CollisionInv'
  BY <1>0, <1>2, <1>3 DEF CollisionInv, Checked
<1>4. ASSUME NEW p \in Pipeline, NEW c \in Configs, NEW T \in SUBSET Target,
             Deploy(w, p, c, T)
      PROVE  CollisionInv'
  <2>1. req'[w].pc = "target" BY <1>0, <1>4 DEF Deploy, Idle
  <2> QED BY <1>3, <2>1 DEF InTarget
<1>5. ASSUME NEW r \in Deployment, NEW q \in Deployment, Revert(w, r, q)
      PROVE  CollisionInv'
  <2>1. /\ req'[w].agents = {req'[w].target} \cap Agent /\ req'[w].type = "rollback"
        /\ req'[w].pc = IF req'[w].target \in Agent THEN "direct" ELSE "write"
    BY <1>5, RevertEffect
  <2>2. ASSUME NEW a \in Agent, Sees(w, a)' PROVE a \in req'[w].agents
    BY <2>1, <2>2 DEF Sees
  <2>3. Checked' BY <1>0, <2>1, <2>2 DEF Checked
  <2> QED BY <1>2, <2>3 DEF CollisionInv
<1>6. ASSUME NEW g \in Group, DeleteGroup(w, g) PROVE CollisionInv'
  <2>1. req'[w].pc = "delete" BY <1>0, <1>6 DEF DeleteGroup, Idle
  <2> QED BY <1>3, <2>1 DEF InTarget
<1> QED BY <1>4, <1>5, <1>6 DEF Request

\* The check of one agent: what passes it fits everything that reaches it.
LEMMA CheckedAgentFits ==
  ASSUME NEW a \in Agent, NEW p \in Pipeline, NEW c \in Configs,
         ~DetectCollisions(Candidate(a, p, c, PartsAt({a})))
  PROVE  Fits(a, p, c)
<1> SUFFICES ASSUME NEW r \in Deployment, rows[r].status = "active",
                    Reaches(rows[r].target, a), rows[r].pipe # p
             PROVE  rows[r].config \cap c = {}
  BY DEF Fits
<1> DEFINE x == [name |-> rows[r].pipe, config |-> rows[r].config]
           y == [name |-> p, config |-> c]
<1>1. x \in PartsAt({a}) \cup PartsAt(GroupsMatchingAgent(a))
  BY DEF Reaches, PartsAt
<1>2. x.name = rows[r].pipe /\ x.config = rows[r].config /\ y.name = p /\ y.config = c
  OBVIOUS
<1> HIDE DEF x
<1>3. x \in Candidate(a, p, c, PartsAt({a})) /\ y \in Candidate(a, p, c, PartsAt({a}))
  BY <1>1, <1>2 DEF Candidate
<1> HIDE DEF y
<1> QED BY <1>2, <1>3 DEF DetectCollisions

LEMMA ProceedCollision ==
  ASSUME Known, CollisionInv, Serial, NEW w \in Worker, Proceed(w)
  PROVE  CollisionInv'
<1>0. req \in [Worker -> Req] /\ \A v \in Worker : v = w BY DEF Known, TypeOK, Serial
<1>1. ASSUME CollisionFree', req'[w].pc \notin InTarget PROVE CollisionInv'
  BY <1>0, <1>1 DEF CollisionInv, Checked
<1>2. ASSUME NEW t \in Target, NextTarget(w, t) PROVE CollisionInv'
  <2> DEFINE A == IF t \in Agent THEN {t} ELSE {a \in Listed : t \in member[a]}
  <2>1. rows' = rows /\ groups' = groups /\ member' = member BY <1>2 DEF NextTarget
  <2>2. CollisionFree' BY <2>1, FewerRows DEF CollisionInv
  <2>3. \/ req'[w].pc = "idle"
        \/ /\ req'[w].target = t /\ req'[w].agents = A
           /\ req'[w].pc = IF A = {} THEN "list" ELSE "direct"
    BY <1>0, <1>2 DEF NextTarget, Idle, Req
  <2>4. ASSUME NEW a \in Agent, Reaches(t, a)', t = a \/ a \in Listed PROVE a \in A
    BY <2>1, <2>4, FleetAssumption
    DEF Reaches, GroupsMatchingAgent, Known, TypeOK, Target
  <2> HIDE DEF A
  <2>5. CASE req'[w].pc = "idle" BY <1>1, <2>2, <2>5 DEF InTarget
  <2>6. CASE req'[w].pc # "idle"
    BY <1>0, <2>2, <2>3, <2>4, <2>6 DEF CollisionInv, Checked, Sees
  <2> QED BY <2>5, <2>6
<1>3. ASSUME NEW a \in Agent, ReadDirect(w, a) PROVE CollisionInv'
  <2>1. rows' = rows /\ groups' = groups /\ member' = member BY <1>3 DEF ReadDirect
  <2>2. /\ CollisionFree'
        /\ \A b \in Agent, t \in Target : Reaches(t, b)' => Reaches(t, b)
        /\ \A b \in Agent : \A p, c : Fits(b, p, c) => Fits(b, p, c)'
    BY <2>1, FewerRows DEF CollisionInv
  <2>3. /\ req[w].pc = "direct" /\ req'[w].pc = "groups" /\ req'[w].agent = a
        /\ req'[w].pipe = req[w].pipe /\ req'[w].target = req[w].target
        /\ req'[w].config = req[w].config /\ req'[w].agents = req[w].agents
        /\ req'[w].type = req[w].type /\ req'[w].seen = PartsAt({a})
    BY <1>0, <1>3 DEF ReadDirect, Req
  <2>4. \A b \in Agent \ req[w].agents :
          Reaches(req[w].target, b)' /\ Sees(w, b)'
            => Fits(b, req[w].pipe, req[w].config)'
    BY <2>2, <2>3, FewerFits DEF InTarget
  <2>5. PartsAt({a})' = PartsAt({a}) BY <2>1 DEF PartsAt
  <2>6. Checked' BY <1>0, <2>3, <2>4, <2>5 DEF Checked, Reaches, Fits, PartsAt
  <2> QED BY <2>2, <2>6 DEF CollisionInv
<1>4. CASE ReadGroups(w)
  <2> DEFINE k == req[w]
             A == k.agents \ {k.agent}
  <2>1. rows' = rows /\ groups' = groups /\ member' = member BY <1>4 DEF ReadGroups
  <2>2. /\ CollisionFree'
        /\ \A b \in Agent, t \in Target : Reaches(t, b)' => Reaches(t, b)
        /\ \A b \in Agent : \A p, c : Fits(b, p, c) => Fits(b, p, c)'
    BY <2>1, FewerRows DEF CollisionInv
  <2>3. /\ k.pc = "groups" /\ k.agent \in Agent /\ k.pipe \in Pipeline
        /\ k.config \in Configs /\ k.target \in Target /\ k.seen = PartsAt({k.agent})
    BY <1>4 DEF ReadGroups, Known, ReqsKnown, CollisionInv, Checked, InTarget
  <2>4. CASE DetectCollisions(Candidate(k.agent, k.pipe, k.config, k.seen))
    <3>1. req'[w].pc = "idle" BY <1>0, <1>4, <2>4 DEF ReadGroups, Idle
    <3> QED BY <1>1, <2>2, <3>1 DEF InTarget
  <2>5. CASE ~DetectCollisions(Candidate(k.agent, k.pipe, k.config, k.seen))
    <3>1. Fits(k.agent, k.pipe, k.config) BY <2>3, <2>5, CheckedAgentFits
    <3>2. /\ req'[w].pipe = k.pipe /\ req'[w].target = k.target
          /\ req'[w].config = k.config /\ req'[w].agents = A
          /\ req'[w].type = k.type
          /\ req'[w].pc \in {"direct", "write", "list"}
          /\ req'[w].pc # "direct" => A = {}
      BY <1>0, <1>4, <2>5 DEF ReadGroups, Req
    <3>3. \A b \in Agent \ k.agents :
            Reaches(k.target, b)' /\ Sees(w, b)' => Fits(b, k.pipe, k.config)'
      BY <2>2, <2>3, <3>2, FewerFits DEF InTarget
    <3>4. ASSUME NEW b \in Agent, b = k.agent PROVE Fits(b, k.pipe, k.config)'
      BY <2>1, <3>1, <3>2, <3>4 DEF Fits, Reaches, GroupsMatchingAgent
    <3>5. ASSUME NEW b \in Agent \ A, Reaches(k.target, b)', Sees(w, b)'
          PROVE  Fits(b, k.pipe, k.config)'
      BY <3>3, <3>4, <3>5 DEF A
    <3> HIDE DEF A
    <3>6. Checked' BY <1>0, <3>2, <3>5 DEF Checked
    <3> QED BY <2>2, <3>6 DEF CollisionInv
  <2> QED BY <2>4, <2>5
<1>5. CASE ListActive(w)
  <2>1. rows' = rows /\ groups' = groups /\ member' = member BY <1>5 DEF ListActive
  <2>2. /\ CollisionFree'
        /\ \A b \in Agent, t \in Target : Reaches(t, b)' => Reaches(t, b)
        /\ \A b \in Agent : \A p, c : Fits(b, p, c) => Fits(b, p, c)'
    BY <2>1, FewerRows DEF CollisionInv
  <2>3. /\ req[w].pc = "list" /\ req'[w].pc = "write"
        /\ req'[w].pipe = req[w].pipe /\ req'[w].target = req[w].target
        /\ req'[w].config = req[w].config /\ req'[w].agents = req[w].agents
        /\ req'[w].type = req[w].type
    BY <1>0, <1>5 DEF ListActive, Req
  <2>4. \A b \in Agent \ req[w].agents :
          Reaches(req[w].target, b)' /\ Sees(w, b)'
            => Fits(b, req[w].pipe, req[w].config)'
    BY <2>2, <2>3, FewerFits DEF InTarget
  <2>5. Checked'
    BY <1>0, <2>3, <2>4 DEF CollisionInv, Checked, InTarget, Reaches, Fits
  <2> QED BY <2>2, <2>5 DEF CollisionInv
<1>6. ASSUME NEW r \in Deployment, SupersedeDeployment(w, r) PROVE CollisionInv'
  <2>1. /\ groups' \subseteq groups /\ member' = member
        /\ \A q \in Deployment : rows'[q].status = "active" =>
             /\ rows[q].status = "active" /\ rows'[q].pipe = rows[q].pipe
             /\ rows'[q].target = rows[q].target /\ rows'[q].config = rows[q].config
             /\ rows'[q].type = rows[q].type
    BY <1>6, SupersedeEffect
  <2>2. /\ CollisionFree'
        /\ \A b \in Agent, t \in Target : Reaches(t, b)' => Reaches(t, b)
        /\ \A b \in Agent : \A p, c : Fits(b, p, c) => Fits(b, p, c)'
    BY <2>1, FewerRows DEF CollisionInv
  <2>3. /\ req[w].pc = "write" /\ req'[w].pc = "write"
        /\ req'[w].pipe = req[w].pipe /\ req'[w].target = req[w].target
        /\ req'[w].config = req[w].config /\ req'[w].agents = req[w].agents
        /\ req'[w].type = req[w].type
    BY <1>6, SupersedeEffect
  <2>4. \A b \in Agent \ req[w].agents :
          Reaches(req[w].target, b)' /\ Sees(w, b)'
            => Fits(b, req[w].pipe, req[w].config)'
    BY <2>2, <2>3, FewerFits DEF InTarget
  <2>5. Checked'
    BY <1>0, <2>3, <2>4 DEF CollisionInv, Checked, InTarget, Reaches, Fits
  <2> QED BY <2>2, <2>5 DEF CollisionInv
<1>7. CASE CreateDeployment(w)
  <2> DEFINE n == created + 1
             t == req[w].target
  <2>1. \A a, s : Reaches(s, a)' <=> Reaches(s, a)
    BY <1>7, CreateEffect DEF Reaches, GroupsMatchingAgent
  <2>2. \A a \in Agent :
          Reaches(t, a) /\ Sees(w, a) => Fits(a, req[w].pipe, req[w].config)
    BY <1>7, CreateEffect DEF CollisionInv, Checked, InTarget
  <2>3. n \in Deployment /\ created \in Nat
        /\ \A q \in Deployment : q > created => rows[q].status # "active"
    BY <1>7, CreateEffect, FilledRows DEF Known, TypeOK, RowsKnown, NoRow
  <2>4. CollisionFree'
    <3> SUFFICES ASSUME NEW a \in Agent, NEW q \in Deployment, NEW r \in 1..(q - 1),
                        rows'[r].status = "active", Reaches(rows'[r].target, a),
                        rows'[q].status = "active", Reaches(rows'[q].target, a),
                        rows'[r].pipe # rows'[q].pipe, Vetted(q, a)'
                 PROVE  rows'[r].config \cap rows'[q].config = {}
      BY <2>1 DEF CollisionFree
    <3>0. r \in Deployment /\ q \in Nat /\ r \in Nat /\ r < q
      BY FleetAssumption DEF Deployment
    <3>1. CASE r # n /\ q # n
      <4>1. rows'[r] = rows[r] /\ rows'[q] = rows[q] BY <1>7, <3>0, <3>1, CreateEffect
      <4> QED BY <4>1 DEF CollisionInv, CollisionFree, Vetted
    <3>2. CASE r = n
      <4>1. q > created /\ q # n BY <2>3, <3>0, <3>2
      <4>2. rows'[q] = rows[q] BY <1>7, <4>1, CreateEffect
      <4> QED BY <2>3, <4>1, <4>2
    <3>3. CASE q = n
      <4>1. r # n BY <3>0, <3>3
      <4>2. rows'[r] = rows[r] BY <1>7, <3>0, <4>1, CreateEffect
      <4>3. /\ rows'[q].target = t /\ rows'[q].pipe = req[w].pipe
            /\ rows'[q].config = req[w].config /\ rows'[q].type = req[w].type
        BY <1>7, <3>3, CreateEffect
      <4>4. Sees(w, a) BY <4>3 DEF Sees, Vetted
      <4> QED BY <2>2, <3>0, <4>2, <4>3, <4>4 DEF Fits
    <3> QED BY <3>1, <3>2, <3>3
  <2> QED BY <1>1, <1>7, <2>4, CreateEffect DEF InTarget
<1>8. CASE RemoveGroup(w)
  <2>1. rows' = rows /\ groups' \subseteq groups /\ member' = member
    BY <1>8 DEF RemoveGroup
  <2>2. CollisionFree' BY <2>1, FewerRows DEF CollisionInv
  <2>3. req'[w].pc = "idle" BY <1>0, <1>8 DEF RemoveGroup, Idle
  <2> QED BY <1>1, <2>2, <2>3 DEF InTarget
<1> QED BY <1>2, <1>3, <1>4, <1>5, <1>6, <1>7, <1>8 DEF Proceed

LEMMA NextCollision ==
  ASSUME Known, CollisionInv, Serial, MaxChanges = 0,
         [Next]_vars
  PROVE  CollisionInv'
<1>1. CASE UNCHANGED <<rows, req, groups, member>>
  <2>1. CollisionFree' BY <1>1, FewerRows DEF CollisionInv
  <2>2. Checked'
    BY <1>1 DEF CollisionInv, Checked, Reaches, Fits, GroupsMatchingAgent, PartsAt, Sees
  <2> QED BY <2>1, <2>2 DEF CollisionInv
<1>2. CASE Restart
  <2>1. /\ rows' = rows /\ groups' = groups /\ member' = member
        /\ \A v \in Worker : req'[v] = Idle
    BY <1>2 DEF Restart
  <2>2. Idle.pc = "idle" BY DEF Idle
  <2>3. CollisionFree' BY <2>1, FewerRows DEF CollisionInv
  <2> QED BY <2>1, <2>2, <2>3 DEF CollisionInv, Checked, InTarget
<1>3. ~(changes < MaxChanges) BY DEF Known, TypeOK
<1>4. Change => UNCHANGED <<rows, req, groups, member>>
  BY <1>3 DEF Change, CreateVersion, UpdateLabels, UpdateGroup, SetManagedConfig
<1>5. (\E a \in Agent : Fetch(a)) \/ UNCHANGED vars =>
        UNCHANGED <<rows, req, groups, member>>
  BY DEF vars, Fetch, FetchManaged, FetchDirect, FetchGroups
<1> QED BY <1>1, <1>2, <1>4, <1>5, RequestCollision, ProceedCollision, FleetAssumption
        DEF Next

\* Without overlapping requests and changes of membership, no sequence of
\* deploys, partial deploys and rollbacks brings an agent a deployment vetted
\* for it that its GET config would refuse to merge with an older one
\* (configMerger.ts), for any number of agents on the page of the check and
\* off it.
THEOREM AgentsStayCollisionFree ==
  ASSUME Serial, MaxChanges = 0
  PROVE  Spec => []CollisionFree
<1>1. ASSUME Init PROVE CollisionInv
  <2>1. Idle.pc = "idle" BY DEF Idle
  <2>2. \A r \in Deployment : rows[r].status = "absent" BY <1>1 DEF Init, NoRow
  <2>3. CollisionFree BY <2>2 DEF CollisionFree
  <2> QED BY <1>1, <2>1, <2>3 DEF Init, CollisionInv, Checked, InTarget
<1>2. ASSUME Known, CollisionInv, [Next]_vars PROVE CollisionInv'
  BY <1>2, NextCollision
<1>3. CollisionInv => CollisionFree BY DEF CollisionInv
<1> QED BY <1>1, <1>2, <1>3, KnownInvariance, PTL DEF Spec

----------------------------------------------------------------------------
(* Agents come to run what they are to run: the safety half of             *)
(* AgentsConverge.                                                         *)

\* What agent a has been told so far is what the tables hold now.
ToldTheTables(a) ==
  /\ fetch[a].pc = "direct" => fetch[a].parts = ManagedFor(a)
  /\ fetch[a].pc = "groups" => fetch[a].parts = ManagedFor(a) \cup PartsAt({a})

\* Agent a runs what it is to run, unless that is nothing or has a collision.
Current(a) ==
  \/ ConfigOf(a) = {} \/ DetectCollisions(ConfigOf(a))
  \/ running[a] = ConfigOf(a)

\* The parts of a configuration come from the rows of agents and groups apart.
LEMMA PartsTogether ==
  ASSUME NEW S, NEW T
  PROVE  PartsAt(S \cup T) = PartsAt(S) \cup PartsAt(T)
BY DEF PartsAt

LEMMA ConfigTogether ==
  ASSUME NEW a \in Agent
  PROVE  ConfigOf(a) = ManagedFor(a) \cup PartsAt({a})
                         \cup PartsAt(GroupsMatchingAgent(a))
BY PartsTogether DEF ConfigOf, DeployedTo

\* What an agent is to run is a matter of the tables alone.
LEMMA SameTables ==
  ASSUME NEW a \in Agent, UNCHANGED tables
  PROVE  /\ ManagedFor(a)' = ManagedFor(a)
         /\ PartsAt({a})' = PartsAt({a})
         /\ ConfigOf(a)' = ConfigOf(a)
         /\ DetectCollisions(ConfigOf(a))' <=> DetectCollisions(ConfigOf(a))
<1>1. rows' = rows /\ managed' = managed /\ groups' = groups /\ member' = member
  BY DEF tables
<1>2. GroupsMatchingAgent(a)' = GroupsMatchingAgent(a)
  BY <1>1 DEF GroupsMatchingAgent
<1>3. ManagedFor(a)' = ManagedFor(a)
  BY <1>1, <1>2 DEF ManagedFor, ManagedParts
<1>4. PartsAt({a})' = PartsAt({a}) BY <1>1 DEF PartsAt
<1>5. DeployedTo(a)' = DeployedTo(a) BY <1>1, <1>2 DEF DeployedTo, PartsAt
<1>6. ConfigOf(a)' = ConfigOf(a) BY <1>3, <1>5 DEF ConfigOf
<1> QED BY <1>3, <1>4, <1>6 DEF DetectCollisions

\* While the tables stay, a fetch keeps its account of them, what it ends with
\* is current, and nobody else's request disturbs the agent.
LEMMA StepFollows ==
  ASSUME Known, NEW a \in Agent, [Next]_vars, UNCHANGED tables, ToldTheTables(a)
  PROVE  /\ ToldTheTables(a)'
         /\ FetchGroups(a) => Current(a)'
         /\ Current(a) => Current(a)'
<1>0. fetch \in [Agent -> [pc : {"idle", "direct", "groups"}, parts : SUBSET Part]]
      /\ running \in [Agent -> SUBSET Part]
  BY DEF Known, TypeOK
<1>1. CASE fetch'[a] = fetch[a] /\ running'[a] = running[a]
  <2>1. ~FetchGroups(a)
    <3> SUFFICES ASSUME FetchGroups(a) PROVE FALSE OBVIOUS
    <3>1. fetch[a].pc = "groups" /\ fetch'[a] = NoFetch
      BY <1>0 DEF FetchGroups
    <3> QED BY <1>1, <3>1 DEF NoFetch
  <2> QED BY <1>1, <2>1, SameTables DEF ToldTheTables, Current
<1>2. CASE FetchManaged(a)
  <2>1. fetch'[a] = [pc |-> "direct", parts |-> ManagedFor(a)] /\ running' = running
    BY <1>0, <1>2 DEF FetchManaged
  <2>2. ~FetchGroups(a) BY <1>2 DEF FetchManaged, FetchGroups
  <2> QED BY <2>1, <2>2, SameTables DEF ToldTheTables, Current
<1>3. CASE FetchDirect(a)
  <2>1. /\ fetch[a].pc = "direct" /\ fetch'[a].pc = "groups"
        /\ fetch'[a].parts = fetch[a].parts \cup PartsAt({a}) /\ running' = running
    BY <1>0, <1>3 DEF FetchDirect
  <2>2. ~FetchGroups(a) BY <1>3 DEF FetchDirect, FetchGroups
  <2> QED BY <2>1, <2>2, SameTables DEF ToldTheTables, Current
<1>4. CASE FetchGroups(a)
  <2>1. /\ fetch[a].pc = "groups" /\ fetch'[a].pc = "idle"
        /\ running'[a] = Answer(running[a],
                           fetch[a].parts \cup PartsAt(GroupsMatchingAgent(a)))
    BY <1>0, <1>4 DEF FetchGroups, NoFetch
  <2>2. running'[a] = Answer(running[a], ConfigOf(a))
    BY <2>1, ConfigTogether DEF ToldTheTables
  <2>3. \/ ConfigOf(a) = {} \/ DetectCollisions(ConfigOf(a))
        \/ running'[a] = ConfigOf(a)
    BY <2>2 DEF Answer
  <2> QED BY <2>1, <2>3, SameTables DEF ToldTheTables, Current
<1>5. CASE Restart
  <2>1. fetch'[a].pc = "idle" /\ running' = running
    BY <1>5 DEF Restart, NoFetch
  <2>2. ~FetchGroups(a)
    BY <1>5 DEF Restart, FetchGroups, Known, TypeOK
  <2> QED BY <2>1, <2>2, SameTables DEF ToldTheTables, Current
<1>6. ASSUME NEW b \in Agent, b # a, Fetch(b)
      PROVE  fetch'[a] = fetch[a] /\ running'[a] = running[a]
  BY <1>0, <1>6 DEF Fetch, FetchManaged, FetchDirect, FetchGroups
<1>7. Change \/ UNCHANGED vars => fetch' = fetch /\ running' = running
  BY DEF vars, Change, CreateVersion, UpdateLabels, UpdateGroup, SetManagedConfig
<1>8. ASSUME NEW w \in Worker, Request(w) \/ Proceed(w)
      PROVE  fetch' = fetch /\ running' = running
  BY <1>8 DEF Request, Deploy, Revert, DeleteGroup, Proceed, NextTarget, ReadDirect,
              ReadGroups, ListActive, SupersedeDeployment, CreateDeployment, RemoveGroup
<1> QED
  BY <1>1, <1>2, <1>3, <1>4, <1>5, <1>6, <1>7, <1>8, FleetAssumption DEF Next, Fetch

\* From the moment the tables stay as they are, whatever requests, restarts and
\* other agents do meanwhile, the first configuration an agent asks for from
\* then on is the one it is to run, and so is every later one (fleetRoutes.ts,
\* GET config).
THEOREM AgentsReceiveTheTables ==
  ASSUME NEW a \in Agent
  PROVE  Spec => [](fetch[a].pc = "idle" /\ [][FALSE]_tables
                      => [][FetchGroups(a) => Current(a)']_vars)
<1>1. ASSUME Known, [Next]_vars, ToldTheTables(a), UNCHANGED tables
      PROVE  ToldTheTables(a)' /\ (FetchGroups(a) => Current(a)')
  BY <1>1, StepFollows
<1>2. fetch[a].pc = "idle" => ToldTheTables(a) BY DEF ToldTheTables
<1> QED BY <1>1, <1>2, KnownInvariance, PTL DEF Spec

\* And an agent that runs what it is to run goes on doing so while the tables
\* stay, unless a configuration it asked for before is still on its way.
THEOREM AgentsStayCurrent ==
  ASSUME NEW a \in Agent
  PROVE  Spec => [](ToldTheTables(a) /\ Current(a) /\ [][FALSE]_tables
                      => []Current(a))
<1>1. ASSUME Known, [Next]_vars, ToldTheTables(a), Current(a), UNCHANGED tables
      PROVE  ToldTheTables(a)' /\ Current(a)'
  BY <1>1, StepFollows
<1> QED BY <1>1, KnownInvariance, PTL DEF Spec

=============================================================================
