--------------------------- MODULE FleetDeployment ---------------------------
(***************************************************************************)
(* Herald's deployments: pipelines deployed to agents and to groups of     *)
(* agents, rolled back, and fetched by the agents as one merged            *)
(* configuration (deploymentRoutes, fleetRoutes, groupRoutes and           *)
(* managedConfigRoutes of the pipeline backend).                           *)
(*                                                                         *)
(* No handler is a transaction. A deploy or a rollback looks for           *)
(* collisions, supersedes the active rows of its target one by one and     *)
(* inserts the new row, with other requests and agents in between at every *)
(* await. Of a version only its content matters: the set of component ids  *)
(* it defines, which must be disjoint from those of the other pipelines    *)
(* an agent gets. Of labels and selectors only which groups an agent       *)
(* matches.                                                                *)
(***************************************************************************)
EXTENDS Integers, FiniteSets

CONSTANTS
  Pipeline,        \* the pipelines of one team
  Agent, Group,    \* its agents and the ids of its groups
  Component,       \* component ids
  Online,          \* agents that ask for their configuration
  Configs,         \* what a version or a managed config may define
  Worker,          \* requests of users that may be in flight together
  Revertible,      \* statuses of the deployments that are rolled back
  Listed,          \* the agents on the first page of 200 of the team's list
  MaxRows,         \* bound: deployments ever created
  MaxChanges,      \* bound: label, selector and managed config changes
  MaxRestarts,     \* bound: restarts of the backend
  None             \* SQL NULL

Target == Agent \cup Group

ASSUME FleetAssumption ==
  /\ MaxRows \in Nat /\ MaxChanges \in Nat /\ MaxRestarts \in Nat
  /\ Configs \subseteq SUBSET Component /\ None \notin Configs
  /\ Revertible \subseteq {"active", "superseded"}
  /\ Listed \subseteq Agent /\ Online \subseteq Agent
  /\ Agent \cap Group = {}
  /\ Pipeline \cap Target = {}
  /\ None \notin Pipeline /\ None \notin Target

Deployment == 1..MaxRows     \* row ids, in the order of creation

VARIABLES
  saved,     \* per pipeline: the contents of its versions
  groups,    \* the groups that exist
  member,    \* per agent: the groups whose selector its labels match
  managed,   \* per agent and group: the latest managed config
  rows,      \* the pipeline_deployments table
  created,   \* how many rows have been inserted
  clock,     \* how many times a row has been superseded
  req,       \* requests of users in flight
  fetch,     \* per agent: its configuration request in flight
  running,   \* per agent: the parts of the configuration it has received
  cut,       \* <<pipeline, target>> a restart left between two rows
  changes, restarts

tables == <<groups, member, managed, rows>>

vars == <<saved, groups, member, managed, rows, created, clock, req, fetch,
          running, cut, changes, restarts>>

----------------------------------------------------------------------------
(* The tables.                                                             *)

NoRow == [pipe |-> None, target |-> None, config |-> None, type |-> None,
          status |-> "absent", at |-> 0]

\* getActiveDeploymentsForTarget, of one pipeline.
ActiveDeployments(p, t) ==
  {r \in Deployment : rows[r].pipe = p /\ rows[r].target = t
                      /\ rows[r].status = "active"}

Superseded(p, t) ==
  {r \in Deployment : rows[r].pipe = p /\ rows[r].target = t
                      /\ rows[r].status = "superseded"}

\* ORDER BY superseded_at DESC of getMostRecentSupersededDeployment.
MostRecent(p, t) ==
  {r \in Superseded(p, t) : \A q \in Superseded(p, t) : rows[q].at <= rows[r].at}

GroupsMatchingAgent(a) == member[a] \cap groups

\* Active deployments to one of the targets, as parts of a configuration.
PartsAt(T) ==
  {[name |-> rows[r].pipe, config |-> rows[r].config] :
     r \in {q \in Deployment : rows[q].target \in T /\ rows[q].status = "active"}}

ManagedParts(S) ==
  {[name |-> s, config |-> managed[s]] : s \in {x \in S : managed[x] # None}}

\* The agent's own managed config, else those of its groups.
ManagedFor(a) == IF managed[a] # None THEN ManagedParts({a})
                 ELSE ManagedParts(GroupsMatchingAgent(a))

DeployedTo(a) == PartsAt({a} \cup GroupsMatchingAgent(a))

\* What the agent would be given now.
ConfigOf(a) == ManagedFor(a) \cup DeployedTo(a)

\* One component id under two names; under one name it is no collision.
DetectCollisions(parts) ==
  \E x, y \in parts : x.name # y.name /\ x.config \cap y.config # {}

----------------------------------------------------------------------------
(* Versions, labels, selectors and managed configs: one statement each.    *)

\* The unique index on the version number makes this one step.
CreateVersion(p, c) ==
  /\ c \notin saved[p]
  /\ saved' = [saved EXCEPT ![p] = @ \cup {c}]
  /\ UNCHANGED <<groups, member, managed, rows, created, clock, req, fetch,
                 running, cut, changes, restarts>>

\* Registration, heartbeat and PATCH of an agent replace its labels.
UpdateLabels(a, G) ==
  /\ changes < MaxChanges
  /\ member' = [member EXCEPT ![a] = G]
  /\ changes' = changes + 1
  /\ UNCHANGED <<saved, groups, managed, rows, created, clock, req, fetch,
                 running, cut, restarts>>

\* PATCH of a group: its new selector matches the agents of A.
UpdateGroup(g, A) ==
  /\ changes < MaxChanges /\ g \in groups
  /\ member' = [a \in Agent |->
                  IF a \in A THEN member[a] \cup {g} ELSE member[a] \ {g}]
  /\ changes' = changes + 1
  /\ UNCHANGED <<saved, groups, managed, rows, created, clock, req, fetch,
                 running, cut, restarts>>

\* Saved, imported or promoted (c), or all versions deleted (None).
SetManagedConfig(s, c) ==
  /\ changes < MaxChanges /\ s \in Agent \cup groups
  /\ managed' = [managed EXCEPT ![s] = c]
  /\ changes' = changes + 1
  /\ UNCHANGED <<saved, groups, member, rows, created, clock, req, fetch,
                 running, cut, restarts>>

----------------------------------------------------------------------------
(* Requests on deployments and groups.                                     *)

Idle == [pc |-> "idle", pipe |-> None, config |-> None, type |-> None,
         targets |-> {}, target |-> None, agents |-> {}, agent |-> None, seen |-> {},
         stale |-> {}]

\* Rows the requests in flight may still create.
Owed == {x \in Worker \X Target : x[2] \in req[x[1]].targets}

\* POST deploy: the version, latest or named, is read once for all targets.
Deploy(w, p, c, T) ==
  /\ req[w].pc = "idle" /\ c \in saved[p] /\ T # {}
  /\ created + Cardinality(Owed) + Cardinality(T) <= MaxRows
  /\ req' = [req EXCEPT ![w] =
       [Idle EXCEPT !.pc = "target", !.pipe = p, !.config = c,
                    !.type = "deploy", !.targets = T]]
  /\ UNCHANGED <<saved, groups, member, managed, rows, created, clock, fetch,
                 running, cut, changes, restarts>>

\* The next target of the list: 404, or the agents to be checked. Of a
\* group only the members that the first page of the team's agents lists.
NextTarget(w, t) ==
  /\ req[w].pc = "target" /\ t \in req[w].targets
  /\ LET A == IF t \in Agent THEN {t} ELSE {a \in Listed : t \in member[a]}
     IN req' = [req EXCEPT ![w] =
          IF t \in Group \ groups THEN Idle
          ELSE [@ EXCEPT !.target = t, !.agents = A,
                         !.pc = IF A = {} THEN "list" ELSE "direct"]]
  /\ UNCHANGED <<saved, groups, member, managed, rows, created, clock, fetch,
                 running, cut, changes, restarts>>

\* getActiveDeploymentsForAgent, first half: the rows of the agent itself.
ReadDirect(w, a) ==
  /\ req[w].pc = "direct" /\ a \in req[w].agents
  /\ req' = [req EXCEPT ![w].pc = "groups", ![w].agent = a,
                        ![w].seen = PartsAt({a})]
  /\ UNCHANGED <<saved, groups, member, managed, rows, created, clock, fetch,
                 running, cut, changes, restarts>>

\* Mutant of Candidate: what reaches the agent through groups is forgotten.
DirectCandidate(a, p, c, seen) ==
  {x \in seen : x.name # p} \cup {[name |-> p, config |-> c]}

\* What the check of an agent compares: its rows of other pipelines and c.
Candidate(a, p, c, seen) ==
  {x \in seen \cup PartsAt(GroupsMatchingAgent(a)) : x.name # p}
    \cup {[name |-> p, config |-> c]}

\* Second half: the rows of its groups; then 409 or the next agent.
ReadGroups(w) ==
  /\ req[w].pc = "groups"
  /\ LET q == req[w]
         A == q.agents \ {q.agent}
     IN req' = [req EXCEPT ![w] =
          IF DetectCollisions(Candidate(q.agent, q.pipe, q.config, q.seen))
            THEN Idle
          ELSE [q EXCEPT !.agents = A, !.agent = None, !.seen = {},
                 !.pc = IF A # {} THEN "direct"
                        ELSE IF q.stale # {} THEN "write" ELSE "list"]]
  /\ UNCHANGED <<saved, groups, member, managed, rows, created, clock, fetch,
                 running, cut, changes, restarts>>

\* Mutant of ListActive: the rows of every pipeline at the target.
ListTarget(w) ==
  /\ req[w].pc = "list"
  /\ req' = [req EXCEPT ![w].pc = "write", ![w].stale =
       {r \in Deployment : rows[r].target = req[w].target
                           /\ rows[r].status = "active"}]
  /\ UNCHANGED <<saved, groups, member, managed, rows, created, clock, fetch,
                 running, cut, changes, restarts>>

\* The active rows of the pipeline at the target, to be superseded.
ListActive(w) ==
  /\ req[w].pc = "list"
  /\ req' = [req EXCEPT ![w].pc = "write",
                        ![w].stale = ActiveDeployments(req[w].pipe, req[w].target)]
  /\ UNCHANGED <<saved, groups, member, managed, rows, created, clock, fetch,
                 running, cut, changes, restarts>>

\* Mutant of Revert: the previous deployment is superseded again instead.
RevertPrevious(w, r, q) ==
  /\ req[w].pc = "idle"
  /\ rows[r].status \in Revertible
  /\ q \in MostRecent(rows[r].pipe, rows[r].target)
  /\ created + Cardinality(Owed) < MaxRows
  /\ req' = [req EXCEPT ![w] =
       [Idle EXCEPT !.pipe = rows[r].pipe, !.config = rows[q].config,
          !.type = "rollback", !.targets = {rows[r].target}, !.target = rows[r].target,
          !.stale = {q},
          !.agents = {rows[r].target} \cap Agent,
          !.pc = IF rows[r].target \in Agent THEN "direct" ELSE "write"]]
  /\ UNCHANGED <<saved, groups, member, managed, rows, created, clock, fetch,
                 running, cut, changes, restarts>>

\* POST rollback of deployment r to the one superseded last, q, of the same
\* pipeline and target. Collisions are looked for at an agent only.
Revert(w, r, q) ==
  /\ req[w].pc = "idle"
  /\ rows[r].status \in Revertible
  /\ q \in MostRecent(rows[r].pipe, rows[r].target)
  /\ created + Cardinality(Owed) < MaxRows
  /\ req' = [req EXCEPT ![w] =
       [Idle EXCEPT !.pipe = rows[r].pipe, !.config = rows[q].config,
          !.type = "rollback", !.targets = {rows[r].target}, !.target = rows[r].target,
          !.stale = {r},
          !.agents = {rows[r].target} \cap Agent,
          !.pc = IF rows[r].target \in Agent THEN "direct" ELSE "write"]]
  /\ UNCHANGED <<saved, groups, member, managed, rows, created, clock, fetch,
                 running, cut, changes, restarts>>

\* Mutant of SupersedeDeployment: a status of its own for superseded rows.
RetireDeployment(w, r) ==
  /\ req[w].pc = "write" /\ r \in req[w].stale
  /\ rows' = [rows EXCEPT ![r].status = "retired", ![r].at = clock + 1]
  /\ clock' = clock + 1
  /\ req' = [req EXCEPT ![w].stale = @ \ {r}]
  /\ UNCHANGED <<saved, groups, member, managed, created, fetch, running, cut,
                 changes, restarts>>

\* By id, whatever has become of the row: superseded_at is written anew.
SupersedeDeployment(w, r) ==
  /\ req[w].pc = "write" /\ r \in req[w].stale
  /\ rows' = [rows EXCEPT ![r].status = "superseded", ![r].at = clock + 1]
  /\ clock' = clock + 1
  /\ req' = [req EXCEPT ![w].stale = @ \ {r}]
  /\ UNCHANGED <<saved, groups, member, managed, created, fetch, running, cut,
                 changes, restarts>>

\* The new row; then the next target, or the answer.
CreateDeployment(w) ==
  /\ req[w].pc = "write" /\ req[w].stale = {} /\ created < MaxRows
  /\ LET q == req[w]
         T == q.targets \ {q.target}
     IN /\ rows' = [rows EXCEPT ![created + 1] =
             [pipe |-> q.pipe, target |-> q.target, config |-> q.config,
              type |-> q.type, status |-> "active", at |-> 0]]
        /\ cut' = cut \ {<<q.pipe, q.target>>}
        /\ req' = [req EXCEPT ![w] =
             IF T = {} THEN Idle
             ELSE [q EXCEPT !.pc = "target", !.targets = T, !.target = None]]
  /\ created' = created + 1
  /\ UNCHANGED <<saved, groups, member, managed, clock, fetch, running,
                 changes, restarts>>

\* Mutant of DeleteGroup: nobody looks for active deployments.
DeleteAnyGroup(w, g) ==
  /\ req[w].pc = "idle" /\ g \in groups
  /\ req' = [req EXCEPT ![w] = [Idle EXCEPT !.pc = "delete", !.target = g]]
  /\ UNCHANGED <<saved, groups, member, managed, rows, created, clock, fetch,
                 running, cut, changes, restarts>>

\* DELETE of a group: 409 while active deployments target it.
DeleteGroup(w, g) ==
  /\ req[w].pc = "idle" /\ g \in groups
  /\ \A p \in Pipeline : ActiveDeployments(p, g) = {}
  /\ req' = [req EXCEPT ![w] = [Idle EXCEPT !.pc = "delete", !.target = g]]
  /\ UNCHANGED <<saved, groups, member, managed, rows, created, clock, fetch,
                 running, cut, changes, restarts>>

RemoveGroup(w) ==
  /\ req[w].pc = "delete"
  /\ groups' = groups \ {req[w].target}
  /\ req' = [req EXCEPT ![w] = Idle]
  /\ UNCHANGED <<saved, member, managed, rows, created, clock, fetch, running,
                 cut, changes, restarts>>

----------------------------------------------------------------------------
(* GET config: an agent asks for its configuration again and again.        *)

NoFetch == [pc |-> "idle", parts |-> {}]

FetchManaged(a) ==
  /\ fetch[a].pc = "idle"
  /\ fetch' = [fetch EXCEPT ![a] = [pc |-> "direct", parts |-> ManagedFor(a)]]
  /\ UNCHANGED <<saved, groups, member, managed, rows, created, clock, req,
                 running, cut, changes, restarts>>

FetchDirect(a) ==
  /\ fetch[a].pc = "direct"
  /\ fetch' = [fetch EXCEPT ![a].pc = "groups", ![a].parts = @ \cup PartsAt({a})]
  /\ UNCHANGED <<saved, groups, member, managed, rows, created, clock, req,
                 running, cut, changes, restarts>>

\* Mutant of Answer: what the agent runs already is not sent again.
AnswerNews(old, parts) ==
  IF parts \subseteq old \/ DetectCollisions(parts) THEN old ELSE parts

\* 204 for no part at all, 409 for a collision: the agent keeps what it has.
\* 304 says that the new configuration is the one the agent has.
Answer(old, parts) ==
  IF parts = {} \/ DetectCollisions(parts) THEN old ELSE parts

FetchGroups(a) ==
  /\ fetch[a].pc = "groups"
  /\ running' = [running EXCEPT ![a] =
       Answer(@, fetch[a].parts \cup PartsAt(GroupsMatchingAgent(a)))]
  /\ fetch' = [fetch EXCEPT ![a] = NoFetch]
  /\ UNCHANGED <<saved, groups, member, managed, rows, created, clock, req,
                 cut, changes, restarts>>

Fetch(a) == FetchManaged(a) \/ FetchDirect(a) \/ FetchGroups(a)

----------------------------------------------------------------------------

\* Supersession has begun, or will with the next statement.
Writing(w, p, t) ==
  req[w].pc = "write" /\ req[w].pipe = p /\ req[w].target = t

\* Every request in flight is lost.
Restart ==
  /\ restarts < MaxRestarts
  /\ restarts' = restarts + 1
  /\ cut' = cut \cup {x \in Pipeline \X Target :
                        \E w \in Worker : Writing(w, x[1], x[2])}
  /\ req' = [w \in Worker |-> Idle]
  /\ fetch' = [a \in Agent |-> NoFetch]
  /\ UNCHANGED <<saved, groups, member, managed, rows, created, clock, running,
                 changes>>

Init ==
  /\ saved = [p \in Pipeline |-> {}]
  /\ groups = Group
  /\ member \in [Agent -> SUBSET Group]
  /\ managed = [s \in Target |-> None]
  /\ rows = [r \in Deployment |-> NoRow]
  /\ created = 0 /\ clock = 0
  /\ req = [w \in Worker |-> Idle]
  /\ fetch = [a \in Agent |-> NoFetch]
  /\ running = [a \in Agent |-> {}]
  /\ cut = {}
  /\ changes = 0 /\ restarts = 0

\* A request in flight goes on.
Proceed(w) ==
  \/ \E t \in Target : NextTarget(w, t)
  \/ \E a \in Agent : ReadDirect(w, a)
  \/ ReadGroups(w)
  \/ ListActive(w)
  \/ \E r \in Deployment : SupersedeDeployment(w, r)
  \/ CreateDeployment(w)
  \/ RemoveGroup(w)

Request(w) ==
  \/ \E p \in Pipeline, c \in Configs, T \in SUBSET Target : Deploy(w, p, c, T)
  \/ \E r, q \in Deployment : Revert(w, r, q)
  \/ \E g \in Group : DeleteGroup(w, g)

Change ==
  \/ \E p \in Pipeline, c \in Configs : CreateVersion(p, c)
  \/ \E a \in Agent, G \in SUBSET Group : UpdateLabels(a, G)
  \/ \E g \in Group, A \in SUBSET Agent : UpdateGroup(g, A)
  \/ \E s \in Target, c \in Configs \cup {None} : SetManagedConfig(s, c)

Next ==
  \/ Change
  \/ \E w \in Worker : Request(w) \/ Proceed(w)
  \/ \E a \in Online : Fetch(a)
  \/ Restart

Spec == Init /\ [][Next]_vars

\* Handlers go on after an await and agents poll; users are owed nothing.
Fairness == /\ \A w \in Worker : WF_vars(Proceed(w))
            /\ \A a \in Online : WF_vars(Fetch(a))

FairSpec == Spec /\ Fairness

----------------------------------------------------------------------------
(* Properties.                                                             *)

Part == [name : Pipeline \cup Target, config : Configs]

Type == {"deploy", "rollback"} \cup {None}

Row == [pipe : Pipeline \cup {None}, target : Target \cup {None},
        config : Configs \cup {None}, type : Type,
        status : {"absent", "active", "superseded"}, at : Nat]

Req == [pc : {"idle", "target", "direct", "groups", "list", "write", "delete"},
        pipe : Pipeline \cup {None}, config : Configs \cup {None}, type : Type,
        targets : SUBSET Target, target : Target \cup {None},
        agents : SUBSET Agent, agent : Agent \cup {None},
        seen : SUBSET Part, stale : SUBSET Deployment]

\* The type invariant: every row, request and configuration is well formed.
TypeOK ==
  /\ saved \in [Pipeline -> SUBSET Configs]
  /\ groups \in SUBSET Group
  /\ member \in [Agent -> SUBSET Group]
  /\ managed \in [Target -> Configs \cup {None}]
  /\ rows \in [Deployment -> Row]
  /\ created \in 0..MaxRows /\ clock \in Nat
  /\ req \in [Worker -> Req]
  /\ fetch \in [Agent -> [pc : {"idle", "direct", "groups"}, parts : SUBSET Part]]
  /\ running \in [Agent -> SUBSET Part]
  /\ cut \in SUBSET (Pipeline \X Target)
  /\ changes \in Nat /\ restarts \in Nat

\* A pipeline that was ever deployed to a target stays deployed there: it has
\* an active deployment, or a request is just replacing it, or a restart came
\* between the two statements (deploymentRoutes.ts, supersede then create).
NothingIsUndeployed ==
  \A r \in Deployment : rows[r] # NoRow =>
    LET p == rows[r].pipe
        t == rows[r].target
    IN \/ ActiveDeployments(p, t) # {}
       \/ \E w \in Worker : Writing(w, p, t)
       \/ <<p, t>> \in cut

\* A pipeline has one active deployment per target, so that rolling back and
\* replacing it replaces all of it (one request at a time).
OneActive ==
  \A r, q \in Deployment :
    /\ rows[r].status = "active" /\ rows[q].status = "active"
    /\ rows[r].pipe = rows[q].pipe /\ rows[r].target = rows[q].target
    => r = q

Reaches(t, a) == t = a \/ t \in GroupsMatchingAgent(a)

\* The request that created deployment r looked for collisions at agent a:
\* not a rollback of a group, and not a deploy to a group unless the page of
\* agents lists a.
Vetted(r, a) ==
  rows[r].target = a \/ (a \in Listed /\ rows[r].type = "deploy")

\* After any sequence of deploys, partial deploys and rollbacks, one request
\* at a time, a pipeline whose deployment was vetted for an agent is merged at
\* its next GET config with all that was deployed to the agent before. (Of
\* what a rollback of a group brings, or a deploy to an agent off the page,
\* the code checks nothing and this says nothing.)
CollisionFree ==
  \A a \in Agent, q \in Deployment : \A r \in 1..(q - 1) :
    /\ rows[r].status = "active" /\ Reaches(rows[r].target, a)
    /\ rows[q].status = "active" /\ Reaches(rows[q].target, a)
    /\ rows[r].pipe # rows[q].pipe /\ Vetted(q, a)
    => rows[r].config \cap rows[q].config = {}

\* The check of DELETE group: no active deployment is left without its group.
TargetsExist ==
  \A r \in Deployment :
    rows[r].status = "active" /\ rows[r].target \in Group
      => rows[r].target \in groups

\* Once the tables no longer change, every agent comes to run what it is to
\* run, unless that is nothing at all or has a collision.
AgentsConverge ==
  <>[][FALSE]_tables =>
    \A a \in Online :
      <>[](\/ ConfigOf(a) = {} \/ DetectCollisions(ConfigOf(a))
           \/ running[a] = ConfigOf(a))

=============================================================================
