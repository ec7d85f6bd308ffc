# Butler Portal: a TLA+ model of its backends

Butler Portal is a set of Backstage plugins. Three of them have a backend with
state of its own: **Keeper** (`src/plugins/registry-backend`: artifacts,
environments and the Terraform runs on them), **Herald**
(`src/plugins/pipeline-backend`: telemetry pipelines deployed to a fleet of
agents) and the bridge to butler-server (`src/plugins/butler-backend`). The rest
is user interface. This directory models the core of each: in Keeper the life of
a Terraform run from its creation to its end, alone and inside the run of a whole
environment, the dependency graph such a run follows, and the versions of an
artifact with their approval, evidence and download; in Herald the way from the
deployment of a pipeline to the configuration its agents receive; and the session
that everything sent to butler-server depends on. Every safety property that a
passing run checks on a small instance is proved for all of them, and of most
liveness properties the half that is a safety property.

## The system

All backends are single Node processes over a SQL database. A handler runs
without interruption between two `await`s and interleaves with all other
handlers at them. Nearly every handler *reads a row, decides, and writes by id
later without looking again*; hardly anything is a transaction. That one habit
is what makes this code hard: nothing a handler has read needs to hold when it
writes.

| Component | State | Operations | Interacts through | What makes it correct |
|---|---|---|---|---|
| Module run queue | `module_runs`: status, queue position, token, per (module, environment) lane | create, confirm, discard, cancel, dequeue, expire | rows | positions stay in order; latest cascade wins; user runs first, nobody overtaken; a waiting run is never launched |
| Run dispatcher | nothing but rows; a 5 s timer | poll queued runs, launch by `repository_dispatch`, recover after a restart, sweep | rows, GitHub | no run taken up twice or for ever; a slot is given back |
| Runner callbacks | token hash per run | status, outputs, logs | HTTP from runners that may repeat themselves | late posts do no harm |
| DAG executor | `environment_runs` and the module runs of each | start, progress, propagate failure, count, confirm, cancel, expire | called by callbacks and by the dispatcher, from several handlers at once | dependency order; nothing skipped without a cause; every module settles; a verdict that is right and stays |
| Dependency graph | `project_modules`, `project_module_dependencies`, `module_count` | add and remove a module, replace dependencies after a search for cycles, topological sort | read by the DAG executor | stays acyclic; a replacement is never mixed; the sort is one, and fails only on a cycle |
| Cascade manager | none | on a new version create a cascade run per affected module | createModuleRun | one run per module, latest version |
| Artifact runs, PeaaS executor | `iac_runs` | create, cancel, confirm, report, expire | rows, CI jobs with a token | what counts as evidence was reported by a CI job |
| Versions, approval, policies, webhooks | `artifact_versions`, `version_approvals`, scan results, policies and their bindings | publish, approve, reject, yank, push a tag, download, resolve policies | routes and webhooks write the same rows; an approval starts cascades | decisions stand; one latest version, and it is approved; enough different approvers; approved and served only on the evidence the policy demands |
| Terraform state backend | a table that nothing but an administrator's unlock touches | unlock | | |
| Storage, cache, rate limiter, tokens, bindings, catalog | small tables or memory | CRUD, time windows | | |
| Herald deployments and fleet | pipelines, versions, deployments, agents, groups, managed configs | deploy, rollback, register, heartbeat, fetch configuration | rows, agents that poll | an agent's merged configuration has no collision; one active deployment per pipeline and target |
| Config compiler, merger, VRL | none | text | | collisions are found |
| Session with butler-server | token, its expiry, one handle for the refresh timer; two sockets per terminal | login, refresh, retry; proxy a request; relay a WebSocket | timers, proxied requests and relays share the token and each may log in | requests are served again after an outage; both sockets of a terminal end |
| Frontends | | | | |

`PROJECT.json` lists the same components with their files under `components`,
and under `hazards` the places of this code that are hard to test, each with
the properties that cover it or the reason why none does.

## The modules

| Module | What it is |
|---|---|
| `RunQueue` | `module_runs` and everything that writes it while no dependency graph is involved |
| `LaneQueue` | what a lane promises: the abstract queue, after the `RunQueue` class of the repository's own test `environments.test.ts` |
| `MCRunQueue` | instances of `RunQueue` |
| `RunQueueProofs`, `RunQueueOrderProofs` | theorems about it |
| `EnvironmentRun` | one environment run: DAG executor, dispatcher, callbacks, users and the sweep over the rows of one environment run |
| `MCEnvironmentRun` | instances: small dependency graphs |
| `EnvironmentRunProofs` | theorems about it, for any dependency relation |
| `FleetDeployment` | Herald's deployments, rollbacks, groups and configuration fetches |
| `MCFleetDeployment` | instances of it |
| `FleetDeploymentProofs` | theorems: for any requests, then for requests that do not overlap |
| `VersionGovernance` | the versions of one artifact from publication to download, and the cascades of an approval |
| `ArtifactRuns`, `PolicyResolver` | what it is composed of: the runs that are its evidence, and the merge of policies |
| `MCVersionGovernance` | instances of it |
| `VersionGovernanceProofs`, `VersionEvidenceProofs` | theorems: about versions, and about evidence and downloads |
| `ProjectGraph` | modules and dependencies of one project, cycle search and topological sort |
| `MCProjectGraph`, `ProjectGraphProofs` | an instance, and theorems for every graph |
| `AuthManager` | the token of the session with butler-server and the timers that refresh it |
| `ButlerBridge` | requests and terminals that use it, composed with it |
| `MCButlerBridge`, `ButlerBridgeProofs` | an instance, and theorems for any number of timers, requests and terminals |

### RunQueue

A row is a record of its lane, kind (what created it: a user, a cascade, a root
of an environment run), status, queue position and the newest callback token.
Row ids are numbers in the order of creation. A request in flight is a record
of what it has decided so far, so that every `await` is a step:

| Variable | Code | Actions |
|---|---|---|
| `make` | `createModuleRun` between its statements | `CreateModuleRun` (is a run active?), `EvictCascades`, `TakePosition` (max + 1), `InsertRun` |
| `job` | confirm, discard, cancel, status and outputs handlers | `Confirm`, `Discard`, `Cancel`, `StatusCallback`, `SubmitOutputs` read and decide; `WriteStatus` writes; `Dequeue` is the transaction `dequeueNextModuleRun` |
| `poll` | `pollQueuedRuns` and `dispatchRun`; several may overlap, the timer does not wait | `CountRunning`, `ListQueued`, `DispatchRun`, `Launch`, `FailDispatch`, `ReleaseLane` |
| `boot` | crash recovery before the first poll | `ListRunning`, `RecoverRun`, `RecoverDequeue` |
| `runner` | outside: what the holder of each token has posted last | |

`Restart` throws away everything in flight; runners go on. A launch may be
accepted, be refused, or be accepted and have its answer lost. Tokens are
numbers; a new one replaces the old, and a callback with an old one is refused.
Payloads, logs, plan texts, permissions and the CI files are left out.

### LaneQueue

A set of waiting entries per lane, the set released so far and a counter. A run
either starts at once, joins its lane (a cascade supersedes the waiting one) or
is served: the oldest user run, else the oldest cascade. `RunQueue` implements it
(`ServesLanesInOrder == Lanes!Spec`) with the rows that have a position as the
waiting entries: positions, decrements, evictions and stale writes disappear.

### EnvironmentRun

The rows of an environment run are one per module. Each lies in a lane of its
own, so of the queue only this remains: a row waits while a run from outside
occupies its lane (`busy`), and that run's end queues it (`DequeueNextModuleRun`).
`createModuleRun` looks for such a run and inserts its row several awaits later, so
that a row may be left waiting for an end that is past (`Stranded`). Slots, dispatch
targets, tokens and lost answers stay with `RunQueue`; here a poll takes every
queued row and a new launch silences the old runner.

| Variable | Code | Actions |
|---|---|---|
| `start` | `startEnvironmentRun`, one row after the other | `CreateModuleRun` (is a run active?), `InsertRun`, `FinishStart` |
| `hand` | a callback, a failed launch or a timed-out run, up to the end of `onModuleRunComplete` | `StatusCallback`, `WriteStatus`, `Notify` (re-read), `Look` (snapshot of all rows: queue dependents or propagate failure), `Mark` (one row at a time), `Count`, `ReadEnvironmentRun`, `UpdateCounters` |
| `poll`, `boot` | dispatcher | `ListQueued`, `DispatchRun`, `Launch`, `EndPoll`, `ListRunning`, `RecoverRun`, `FinishRecovery` |
| `user` | cancel and confirm of the environment run; cancel, discard and confirm of one module run | a request action that reads and decides, then `WriteRow` per row and `CloseRequest`, which for a cancelled or discarded module run dequeues its lane |

`Dep` is the effective dependency relation: reversed for destroy-all, as both
`startEnvironmentRun` and `onModuleRunComplete` do. `reached` and `fallen` are
history variables for the properties. Two paths of `ConfirmEnvironmentRun`'s code
that write the same rows, and the permission, lock and role checks in front of
every handler, are one step. A row reached by two paths of a failure is written
once. The outputs endpoint is only in `RunQueue`. `DagExecutor` has its own
`confirmEnvironmentRun` and `cancelEnvironmentRun`, which no route calls and which
do what the routes do.

### FleetDeployment

A version is the set of component ids it defines, an agent's labels are the
groups they match, and a configuration is a set of parts, each the name of a
pipeline (or of the owner of a managed config) with what it defines. Parts of
different names that share a component id cannot be merged.

| Variable | Code | Actions |
|---|---|---|
| `saved`, `member`, `managed` | versions, labels and selectors, managed configs | `CreateVersion`, `UpdateLabels`, `UpdateGroup`, `SetManagedConfig`, one statement each |
| `rows`, `created`, `clock` | `pipeline_deployments`; `clock` orders `superseded_at` | written by `SupersedeDeployment` and `CreateDeployment` |
| `req` | deploy, rollback and deletion of a group | `Deploy`, per target `NextTarget`, per agent `ReadDirect` and `ReadGroups` (the two halves of `getActiveDeploymentsForAgent`, then the collision check), `ListActive`, `SupersedeDeployment` per row, `CreateDeployment`; `Revert` enters at the check of its agent or, for a group, at the writes; `DeleteGroup`, `RemoveGroup` |
| `fetch`, `running` | an agent's GET config and what it received last | `FetchManaged`, `FetchDirect`, `FetchGroups` |
| `cut` | history: what a restart left superseded and not replaced | `Restart` |

The list of targets is a set: they come in any order. Reading an agent's managed
configs, its labels and the group rows are single steps of several reads. The
unique indexes on version numbers make saving a version one step. A deploy to
a group looks for collisions at the group's agents among the first 200 of the team
(`Listed`), a rollback of a group nowhere. Agents are not deregistered. What the
agent does with a configuration (local validation) is outside.

### VersionGovernance, ArtifactRuns, PolicyResolver

| Variable | Code | Actions |
|---|---|---|
| `ver`, `approvals` | `artifact_versions`, `version_approvals` | `Publish`, `Reject`, `Yank`, one statement each |
| `req` | approvals, tag webhooks and downloads in flight | approve: `RequestApproval`, `CheckRuns`, `CheckScans`, `RecordApproval`, `CountApprovals`; webhook: `TagPushed`, `UpsertVersion`, `ReadLatest`; both then `LockVersion`, `ClearLatest`, `CommitApproval` (the transaction of `approveVersion`), `CascadeTargets`, `CreateCascadeRun` per module; download: `Download`, `ReadScope` per scope, `EvaluateDownload`, `LogDownload` |
| `scans`, `policy`, `bound` | scan results, the inline policy, templates bound to scopes | `PostScan`, `UpdateArtifact`, `CreatePolicyBinding`, `DeletePolicyBinding` |
| `iacRuns`, `hand` | `iac_runs`; the routes that read a run, decide and write it by id later | actions of `ArtifactRuns` |
| `passed`, `graded`, `under`, `overlapped` | history: what CI jobs and scanners reported, the policy an approver had read, two approving transactions at once; in a request also what was bound, and how many edits there had been, when a download began | |

`approveVersion` is the one real transaction of this code, at PostgreSQL's READ
COMMITTED: it holds its version row, clears `is_latest` on the rows its statement
saw, and shows what it wrote when it commits. A policy is a function from rules to
values or None; `EffectivePolicy` is `resolveEffectivePolicy` and `mergeWithinScope`
rule by rule. The artifact and the version are read in one step in front of an
approval. Scan results carry a grade only. Templates are consulted by downloads and
not by approvals, as in the code. A cascade lists the environments of a project once
and gets the newest 20 (`Newer`, `EnvironmentPage`); whether a module's version
constraint takes the new version is the relation `Tracks`.
`governance/approvalEngine.ts` is called by no route and has no part in it.

### ProjectGraph

A request stands at the database statement it executes next: the targets are looked
up one by one, the modules are listed, the dependencies read and searched, the old
ones deleted, the new ones inserted. Constraints of the tables (unique pairs,
foreign keys) decide what an insert does, what a removal takes along, and that a
module with runs is not removed (`RefuseRemoval`). The recursive search is a stack
of frames and a set of seen modules, one call or return of `dfs` per step; so is
each round of the topological sort. Nothing awaits inside either, so no other action
comes between their steps (`Computing`). The order of roots, of the edges of a
module and of modules that become ready together is any order. `module_count`
changes by a statement after the row. The list and count that archived modules have
of their own are left out.

### AuthManager, ButlerBridge

Time passes in units of 30 seconds, in which the code's delays (30 seconds, 60
seconds, two minutes) are 1, 2 and 4. A token is what is left of its life, and
whether butler-server still knows it.

| Variable | Code | Actions |
|---|---|---|
| `token`, `timer`, `refreshTimer` | `AuthManager`; all pending callbacks besides the one handle it keeps | `Fire`, `Refresh`, `RetryRefresh`, `GiveUp` per timer; `Login` and `ScheduleRefresh` wherever a login is answered |
| `call`, `answer` | a caller of `getToken` and what became of its request | `ProxyRequest`, `ProxyAfterLogin`, `ProxyFails`, `ProxyAnswer`, and for relays `HandleWsRelay`, `RelayAfterLogin`, `RelayFails` |
| `client`, `server`, `pinging`, `alive` | `handleWsRelay`: its two sockets, its ping timer and flag | `ServerOpens`, `ServerRefuses`, `ServerEnds`, `ServerCloses`, `ClientEnds`, `ClientCloses`, `ClientGone`, `Ping`, `Pong` |
| `up` | outside: butler-server, which goes and comes, and forgets its sessions | `GoDown`, `ComeUp`, `Revoke` |

A timer that fired stays on record until its login is answered, because it may
set the next one then; the handle may name another timer by that time, and
`clearTimeout` on a fired one does nothing. A token is checked when it is taken
and again when the request arrives, up to `Travel` later. Messages passed between
the two sockets, the identity lookup and `stop` on shutdown are left out.

## What the runs check

| Run | Instance | Properties | States |
|---|---|---|---|
| `MCRunQueueOrder` | one lane, four rows, cascades and user runs, cancellations | `TypeOK`, `PositionsInOrder`, `OneWaitingCascade`, refinement `ServesLanesInOrder` | 1.5 million: all orders of four creations with everything that may come between their halves |
| `MCRunQueueLaunch` | two lanes (one byoc without a target), two overlapping polls, refused and lost launches, one restart, impatient runners, discards and confirmations | `WaitingNeverLaunched`, `LaneIsHandedOn` | 5.2 million |
| `MCRunQueueLive` | one lane, two rows for one slot, two requests in flight, cancellations, late outputs, failing launches | `ReadyIsDispatched`, `RunningComesToAnEnd` | 150 thousand |
| `MCRunQueueExclusion` | two runs of a lane, nothing else | refutes `OneActiveRunPerLane` | |
| `MCEnvironmentRunOrder` | two roots and a join, plans that succeed or fail, any one user request, expiry, failing launches, one restart, polls while rows are still inserted | `TypeOK`, `DependencyOrder`, `SkippedHasCause` | 6.6 million |
| `MCEnvironmentRunLive` | the diamond of the class comment, two callbacks in flight, progress posts, failures, failing launches, an outside run in the lane of the root that ends at any time, expiry | `SuccessIsComplete`, `EveryModuleSettles`, `VerdictIsReached` | 480 thousand |
| `MCFleetDeploymentSerial` | two pipelines with two versions that collide across pipelines, two agents of which the page lists one, a group, four deployments, rollbacks of agents and of the group, one restart, one request at a time, agents offline | `TypeOK`, `OneActive`, `CollisionFree`, `TargetsExist`, `NothingIsUndeployed` | 4.6 million |
| `MCFleetDeploymentLive` | one pipeline, an agent and its group, three deployments, two requests that overlap, one change of labels, selector or managed config, any rollback | `AgentsConverge` | 2.3 million |
| `MCVersionGovernanceReview` | two versions, one a patch of the other, two people, two requests, a policy with two approvers and automatic patches, one restart, three modules to cascade to of which one lies off a page of two; or two runs and two requests about them | `TypeOK`, `EnoughApprovers`, `OneLatest`, `LatestIsApproved`, `AutoApprovedIsPatch`, `CascadesAreDecided`, `DecisionsStand`, `ApprovedIsCascaded` | 3.2 million |
| `MCVersionGovernanceEvidence` | two interchangeable versions and one request, a tag, an approval or a download, in three mixes: with runs; with scan results, yanks and an inline policy that changes; with scan results, an inline policy that changes, and three templates bound to and unbound from three scopes, up to three edits | `TestedBeforeApproval`, `ServedIsVetted`, `NeverWeaker` | 3.0 million |
| `MCProjectGraph` | three modules, one of them added later, two requests of any kind, one restart | `TypeOK`, `AcyclicDependencies`, `NeverMixed`, `TopologicalSort`, `CountIsRight`, `SearchIsExact` | 4.6 million |
| `MCButlerBridge` | a token of three minutes, one outage, sessions forgotten once, one proxied request and one terminal | `TypeOK`, `SessionComesBack`, `RelayEndsTogether` | 142 thousand |

Why the bounds are enough: a lane with four rows has every relative order of two
cascades and two user runs, which is what the eviction and the tie-break
distinguish, and one creation in flight meets every other action. Two pollers, two
tokens and one restart give every overlap of an old and a new launch of a row. For
environment runs three modules with a join, and four with a diamond, have everything
propagation distinguishes: a direct and an indirect dependent, one and several
dependencies, two that finish together. Four deployments are enough for a deploy,
its replacement, a rollback and the deployment of another pipeline that meets it,
directly and through a group. Two versions and two requests give every overlap of
two approvals, of an approval and a webhook, and of either with a rejection; the
kinds of requests that occur together in one behaviour are bounded by the sets
`Mixes`. In the last mix of the evidence run versions are approved under a policy
that asks for nothing, so that downloads come to be decided by the templates bound
meanwhile, one of which demands a scan grade and another a test run that is never
there; runs are not mixed with bindings, nor with edits of the inline policy, which
the proofs cover. Three modules have cycles of every length that two replacements
can close, and a join. A token of six units passes refresh, margin and expiry one
after the other; a login or a message takes up to one unit, so that it can be
overtaken by a timer and expire on its way; with one outage, also from the start,
three timers are enough for all that overlap (the model stops a login that finds
none free, and `TypeOK` with liveness shows it does not come to that). Deadlock
checking is off: a system whose bounded runs have all ended stops.

### Restrictions the passing runs carry

- One `createModuleRun` at a time (one `Creator`) for the order of a lane. With
  two, both evict before either inserts and both take the same position; latest
  wins then fails.
- `LaneIsHandedOn` names the four steps that leave waiting rows behind in a lane
  nobody will serve: a creation that found the lane active, a plan that is
  confirmed, an expired plan and a restart. No other step does.
- `DependencyOrder` with outside runs in the lanes of roots only: the end of an
  outside run queues a dependent whose dependencies are unfinished.
- `SuccessIsComplete` without restarts: a timed-out module is counted nowhere, and
  a start that is cut off leaves modules without a row. Liveness also without user
  requests: the code does not notify the DAG executor of a cancelled module run
  and resumes nothing after a restart. `EveryModuleSettles` and `VerdictIsReached` exempt a
  row whose outside run ended while `createModuleRun` made it, and what is below it.
- `OneActive`, `CollisionFree` and `TargetsExist` with one request at a time; for
  the first and the last only active deployments are rolled back, as the UI
  offers it. `CollisionFree` with fixed labels and selectors and without managed
  configs, which the code does not check; of a deployment it says something only at
  the agents its request checked (`Vetted`), which leaves out rollbacks of groups and
  agents off the page of 200.
- `OneLatest` while no two approving transactions overlap.
- `ApprovedIsCascaded` without restarts, which lose what a cascade has left to do,
  and for modules in the environments on the first page of their project.
- `ServedIsVetted` for downloads that at most one edit of policies or bindings
  overlaps; with two edits the policy a download puts together need not be one that
  was ever in force.
- `AcyclicDependencies` and `NeverMixed` while no two replacements overlap;
  `CountIsRight` without a restart and without a module removed twice.
- `RelayEndsTogether` once both sockets were open together.
- `Prompt` (liveness and success of environment runs): rows are inserted, and callbacks
  in flight finish, faster than the next poll of the dispatcher five seconds
  later. Without it a late post after a stale re-queue leaves a row running.

### Disagreements between the code and what it says

`MCRunQueueExclusion` refutes what the comment at `shared.ts:59` says of a lane.
Others were reproduced with the same modules while they were written and have no
run of their own:

- an outside run that ends queues a dependent before its dependencies are done
  (`dagExecutor.ts:17-19` says they come first);
- a module below an archived and an active one is started without a dependency
  or never settles (`dagExecutor.ts:21-22`);
- two modules that finish together write back the status of the environment run
  they read, and a verdict is taken back (`dagExecutor.ts:404`, `:486`);
- two polls overlap and launch a run twice (`runDispatcher.ts:163` says the
  transition prevents it);
- a run cancelled after a poll listed it is written `running`;
- a cancelled waiting run keeps its position, and cancelling it is what queues it;
- a run that ends between `createModuleRun`'s look and its insert leaves the new
  row waiting for a dequeue that nobody calls (`RegistryDatabase.ts:1891`, `:1920`);
  if it is of an environment run, that run never ends;
- a run written `running` whose launch a restart interrupted is never looked at
  again once it was within its timeout at the start;
- a manual PeaaS run is created `pending` without a position and nothing moves it;
- queue positions may become 0 (the migration says 1, 2, 3);
- PeaaS cascades are dispatched before byoc user runs, whatever their priority;
- Herald, each seen by lifting one of the restrictions above: two deploys at once
  leave two active deployments, or two pipelines that collide; a group is deleted
  under a deployment made meanwhile; a rollback of a group is not "pre-validated"
  (`deploymentRoutes.ts:345`) and its agents are refused their configuration; so
  are agents off the page of 200 of which the group's agents are picked
  (`deploymentRoutes.ts:142`), and agents that match a second group or get a managed
  config;
- a rollback takes the deployment superseded last, so repeating it goes to and fro
  between two versions where `usage.md:266` speaks of the previous one;
- an archived pipeline can be deployed (`concepts.md:20-21` says it cannot);
- a poll's batch may consist of unroutable rows only, so a routable one starves;
- two replacements of dependencies at once, each searched before the other is
  written, store a cycle, which the search at `moduleRoutes.ts:208` is there to
  prevent, and every later environment run fails; a repeated id deletes the old dependencies
  and inserts none;
- two approvals at once leave two latest versions; approving an older version
  later makes it the latest; a yanked version stays the latest;
- the webhook starts the cascades of a version although somebody else decided it
  meanwhile, also if it was rejected; its automatic approvals look neither at the
  scan grade nor at the number of approvers;
- a restart after an approval loses its cascades;
- a cascade reaches the 20 newest environments of a project, of any status, where
  `cascadeManager.ts:17` says it finds "all active unlocked environments"
  (`RegistryDatabase.ts:1333`);
- of several policies of one scope, a flag that is set to false everywhere counts
  as unset, so a less specific scope may set it (`policyResolver.ts:215`);
- a template moved from a scope not read yet to one already read is missed by a
  download in between;
- the sweep expires every succeeded plan of an artifact after its time, also one
  that was confirmed;
- a browser that closes its terminal before butler-server has accepted the other
  socket leaves that one open, with its ping timer running.

## Fairness

Timers fire and handlers go on after an `await` (weak fairness of every handler,
poll and recovery step). A runner that is alive and whose posts are accepted
again and again posts a result: strong fairness of its first result, because a
post may find no free request slot of the model for a while; GitHub ends every
job. Outside runs end. In Herald agents poll (`concepts.md:140`: about every 15
seconds) and requests go on after an `await` (weak fairness of both). Users,
cancellations and restarts are owed nothing.

`AgentsConverge` says what is owed once the tables no longer change, so it does
not depend on the bounds that stop them. It exempts an agent whose configuration
is empty (204: it keeps the old one for ever) or has a collision (409).

Requests about versions go on after an `await` (weak fairness of `Serve`); nobody
has to approve anything. For `ButlerBridge` time passes, timers fire, a login or
a request is answered within its time, closed sockets are closed (the library
ends a close handshake after 30 seconds), pings are sent, and proxied requests
come again and again; butler-server may be down for ever, and browsers never have
to close.

## What is proved

TLAPS proves for every value of the constants, under the named `ASSUME`s of the
modules and what the second column adds:

| Theorem | Statement | Argument |
|---|---|---|
| `TypeCorrect` (`RunQueueProofs`) | `[]TypeOK` | inductive with what each handler in flight knows of its run |
| `NeverLaunchedWhileWaiting` | `[]WaitingNeverLaunched` | `IInv`: a row with a position is in no poll, was issued no token; a row in a poll, with a token or a live runner has lost its position and never gets one back |
| `LanesAreHandedOn` | `LaneIsHandedOn`, without output posts | `LaneInv`: a request knows the lane of its run and dequeues it unless it leaves the row active or confirms it; a launch in flight is of a row that keeps its lane occupied; a cascade that waits is not active |
| `NoSlotIsLost` | a run is *running* only while its launch, its runner or a post that ends it is at work: the safety half of `RunningComesToAnEnd`; without restarts, with one poll at a time and runners that await their answers | `SlotInv`: a row is launched once, so it has one token and one runner; a runner has one post in flight; what users write is never *running*, and a post that writes *running* belongs to a runner that lives |
| `PositionsStayInOrder`, `AtMostOneCascade` | with one creator | `OrderInv`: the position a creation has taken is above all others of its lane, and after the eviction no other cascade waits there |
| `LanesAreServedInOrder` | `Spec => LaneQueue!Spec` with one creator | every step maps to a step of `LaneQueue` or leaves its variables alone |
| `EnvTypeCorrect` | `EnvironmentRun`: `[]TypeOK` | `Known`: a handler's module and the status it will write |
| `ModulesStartInOrder` | `[]DependencyOrder` if outside runs are in lanes of roots | `InOrder`: whatever may lead to a launch (a queued row, a poll's list, a handler's list, a waiting row) is about a module whose dependencies have all been planned or applied at some time; that set only grows, so old snapshots do no harm |
| `SkippedModulesHaveACause` | `[]SkippedHasCause` | `Causes`: the same for what may be skipped; the least set of `Doomed` lies below the failed module because the modules below it are closed under the propagation |
| `SucceededRunsAreComplete` | `[]SuccessIsComplete` for finitely many modules, without restarts, polls after the last row; any requests of users | `Complete`: before the last row is there nothing counts, afterwards no row is absent or timed out, so that "nothing open, failed or skipped" leaves only rows whose modules are in `reached`; that set only grows, so a verdict counted, read or written back late is still right |
| `NoModuleIsForgotten` | an environment run rests only with every active module run or skipped, but for rows that wait for an outside run that ended while they were made and what is below them: the safety half of `EveryModuleSettles`; for finite acyclic graphs, without restarts and requests, polls after the last row, active modules that depend on active ones | `Tended`: a row that is not settled is queued, is running with somebody to report its end, waits in an occupied lane, is about to be marked by a handler, or has a dependency that is not settled or is just being reported. At rest only a stranded row or an unsettled dependency is left, and dependencies do not go on for ever |
| `NoRunIsLeftOpen` | it does not rest before it was given a verdict, unless with such a row: the safety half of `VerdictIsReached`; under the same assumptions, some module active | `Concluding`: when no row is open, a handler has still to count, or has counted a verdict it will write |
| `TypeCorrect` (`FleetDeploymentProofs`) | `[]TypeOK` | `Known`: the first rows are filled, and a request will only supersede rows of its own pipeline and target |
| `PipelinesStayDeployed` | `[]NothingIsUndeployed`, any number of overlapping requests | a row is superseded only by a request that will create one for the same pipeline and target, or is cut by a restart |
| `OneActivePerTarget`, `DeployedGroupsExist` | with one request at a time, rollbacks of active rows | what a request is about to supersede covers all active rows of its pipeline and target; the group of a request in flight exists |
| `AgentsStayCollisionFree` | with one request at a time and fixed membership; any page of agents, any rollbacks | `Checked`: what a request deploys fits every agent it has checked, and all it had to check when it writes; deployments that were not checked only add to what the next check finds |
| `AgentsReceiveTheTables`, `AgentsStayCurrent` | from when the tables stay, what an idle agent next asks for and receives is what it is to run, and stays so: the safety half of `AgentsConverge`; any requests, restarts and other agents | `ToldTheTables`: a fetch in flight has read, part by part, what the tables say |
| `TypeCorrect` (`VersionGovernanceProofs`) | `[]TypeOK` | inductive with what each request knows |
| `DecisionsAreFinal`, `CascadesFollowDecisions`, `WebhookApprovesPatches` | any overlapping requests | `Locks`: between its lock and its commit a transaction is the only one at its version, which exists and is pending; every other write is conditional on *pending*. A cascade comes after the decision it follows, and what a webhook has compared with stays approved |
| `LatestIsUnique`, `LatestStaysApproved` | the first without overlapping approving transactions | `Marks`: a transaction that commits has seen every row that is the latest, and takes the mark from all of them |
| `ApprovalsAreTested`, `ApprovalsAreEnough`, `TokenlessRunsWait` | any overlapping requests, policies that change | what a request has established holds for the policy it has read, and grows: reports, scans and approvals are not taken back. A run nobody was given a token for is never written by a job |
| `DownloadsAreVetted` | `ServedIsVetted`: any templates and overlapping requests, at most one edit during the download | `Fresh`: without an edit a download has read what is bound; with one, either all it has read and is still to read is as it was when it began, or all is as it is now. Reports and grades are not taken back |
| `PoliciesHold` | `[]NeverWeaker` for finitely many templates | what is merged within a scope is the maximum, or the disjunction, of finitely many values, and the merge takes each rule from the most specific scope that defines it |
| `NoCascadeIsForgotten` | until a restart, a module that tracks an approved version in an environment on the first page has its cascade, or a request is on its way to create it; any page: the safety half of `ApprovedIsCascaded` | `CascadesAreOwed` is inductive: versions are approved only by a commit, which goes on to the cascade, and a request drops a target only when it has created its run |
| `TypeCorrect` (`ProjectGraphProofs`) | `[]TypeOK`, dependencies join modules that exist | inductive |
| `StaysWithoutCycles`, `ReplacedAsAWhole` | without overlapping replacements | `GraphInv`: the request has listed every module with dependencies, and what it asks for is not found in the dependencies that are left, which only become fewer; so what it inserts closes no cycle |
| `SearchesExactly` | `[]SearchIsExact`, every graph | `SearchInv`: every id asked for is left to search from, does not lead to the module, or is seen (visited, or in a frame); what a visited module needs is seen; nothing is seen but what a path that does not pass the module reaches from an id |
| `SortsTopologically` | every graph | `Kahn`: sorted or in the queue, once, are exactly the listed modules all of whose dependencies are sorted; when the queue is empty, every module left over needs another one left over |
| `CountsEveryModule` | without restarts and double removals | the count is off by exactly the requests between their two statements |
| `TypeCorrect` (`ButlerBridgeProofs`) | `[]TypeOK`, for any durations | a timer is set, and a token and a call are left, no longer than a token lives |
| `RelaysEndOnBothSides` | once both sockets of a terminal were open together, none is open when the other has closed, and it is pinged exactly while both are open: the safety part of `RelayEndsTogether` | `Pair`: such a relay waits for no token any more, so its call connects no second socket, and it is open on one side exactly when it is on the other |
| `NoTokenExpiresOnItsWay` | butler-server refuses only tokens it has forgotten, never one that expired between its check and its arrival: a part of the safety of `SessionComesBack`; if a message takes no longer than the margin, and a login and a message less than a lifetime | `Outlives`: the token of a message in flight lives longer than the message |

The invariants are not inductive by themselves: `DependencyOrder` speaks of
runners, and a runner starts several steps after the stale snapshot that caused
it; `SuccessIsComplete` speaks of a status that is written several steps after
the count.

The safety halves of liveness say that a system which has stopped has not stopped
too early: what is owed is done, or somebody is at work who owes it. They hold
without any fairness, under the restrictions of the runs that check the liveness and
for any values of the other constants. `ReadyIsDispatched` has no such half: a
queued row owes its start to the next poll alone. That somebody gets to it in the
end is fairness, and only model-checked.

Constants are assumed to be what their declarations say (numbers, subsets, a
null value outside what it stands beside: `NoTokenAssumption`), and the templates
of `PolicyAssumption` to be finitely many, as rows of a table are.

Only model-checked: liveness itself (`ReadyIsDispatched`, `RunningComesToAnEnd`,
`EveryModuleSettles`, `VerdictIsReached`, `AgentsConverge`, `ApprovedIsCascaded`,
`SessionComesBack`, `RelayEndsTogether`), which is out of the prover's reach; that
the search and the sort terminate, which has no run of its own; and the
refutation.

## Plan

Done, in the order of importance: the run queue, environment runs, deployments,
versions with their evidence and policies, the graph of a project, the session with
butler-server. Left:

1. Herald: registration with the pipeline it creates or joins. Two aggregators of
   one pipeline that register together both find none; the second insert fails on
   the unique name and the failure is only logged. Archiving, deregistration.
2. Composition of both Keeper modules for what an expired or finished plan-all run
   leaves in its lanes: planned rows that nothing expires.
3. An abstract ledger of versions that `VersionGovernance` implements, in the way
   `RunQueue` implements `LaneQueue`.
4. The output resolver and the resolution of variables, the index cache.

## Not modelled

About 60 of the 85 thousand lines are user interface (`butler`, `workspaces` and
the front ends of Keeper and Herald): forms and tables over the backends, with no
state of the system. Of the backends:

- Herald: the pipeline an aggregator creates when it registers, deregistration,
  archiving, reported status and hashes.
- Terraform state: the repository has the table and an unlock, but no handler that
  reads, writes or locks a state, so there is no protocol to model.
- `PeaasExecutor.startRun`: it starts from a status that no code sets.
- `governance/approvalEngine.ts` and `moduleRunExecutor.ts`: called by nothing.
- The session: the lookup of identities, stopping on shutdown, tokens without a
  readable expiry.
- Failures of the database itself: a statement that throws ends the handler, which
  the models cover only where a restart may come.
- Text generation (CI files, Vector YAML, job specs), storage and VRL processes,
  cryptography, permissions, CRUD of single rows, audit logs.

The components and the reason for each are in `PROJECT.json`.
