-------------------------- MODULE VersionGovernance --------------------------
(***************************************************************************)
(* The versions of one artifact: published by people or by the tag         *)
(* webhook, approved under the artifact's policy, rejected, yanked,        *)
(* downloaded; and the plan runs an approval fans out to the project       *)
(* modules that use the artifact.                                          *)
(*                                                                         *)
(* A request is a row of control states, one per database statement;       *)
(* requests interleave between statements. approveVersion is a             *)
(* transaction of PostgreSQL at READ COMMITTED: it locks the version row,  *)
(* its clearing UPDATE sees the latest rows that were committed when the   *)
(* statement began, and what it wrote becomes visible at the commit. The   *)
(* rows it clears are approved, so no other transaction holds them.        *)
(***************************************************************************)
EXTENDS ArtifactRuns, PolicyResolver

CONSTANTS
  User,        \* people who publish and approve
  Request,     \* approvals, webhooks and downloads that may be in flight
  PatchBump,   \* pairs <<w, v>>: v is a patch release of w's minor version
  Target,      \* active modules in the active unlocked environments
  Tracks,      \* pairs <<t, v>>: the constraint of t admits v
  Newer,       \* environments of its project, of any status, newer than the target's
  EnvironmentPage,  \* environments listEnvironments returns (20)
  Policies,    \* inline policies the artifact may be given
  Bindings,    \* pairs <<s, t>>: templates that may be bound to a scope
  Mixes,       \* bound: the kinds of requests that occur in one behaviour
  MaxEdits,    \* bound: edits of policy, bindings and scan results
  MaxRestarts  \* bound: restarts of the backend

ASSUME VersionGovernanceAssumption ==
  /\ PatchBump \subseteq {p \in Version \X Version : p[1] # p[2]}
  /\ Tracks \subseteq Target \X Version
  /\ Newer \in [Target -> Nat] /\ EnvironmentPage \in Nat
  /\ Policies \subseteq Policy /\ Bindings \subseteq Scope \X Template
  /\ Mixes \subseteq SUBSET {"publish", "approve", "reject", "yank", "tag", "run",
                             "scan", "edit", "bind", "download"}
  /\ IsFiniteSet(User) /\ "webhook" \notin User /\ "system" \notin User
  /\ None \notin User \cup Version \cup {"webhook", "system"}
  /\ MaxEdits \in Nat /\ MaxRestarts \in Nat

VARIABLES
  ver,        \* the version rows
  approvals,  \* version_approvals: who approved each version
  scans,      \* security scan results of each version
  policy,     \* the artifact's inline approval policy
  bound,      \* policy templates bound to each scope
  req,        \* requests in flight
  plans,      \* <<target, version>> of the plan runs a cascade created
  edits,      \* edits so far (only to bound them)
  restarts,   \* restarts so far (only to bound them)
  mix,        \* the kinds of requests of this behaviour, one of Mixes
  graded,     \* history: <<version, grade>> a scanner reported
  under,      \* history: per version the policy its approver had read
  overlapped  \* history: two approving transactions ran at once

verVars == <<ver, approvals, under, overlapped>>
vars == <<runVars, verVars, scans, policy, bound, req, plans, edits, restarts, mix, graded>>

----------------------------------------------------------------------------

VersionRow == [status : {"absent", "pending", "approved", "rejected"},
               bad : BOOLEAN, latest : BOOLEAN,
               publisher : User \cup {"webhook", None},
               by : User \cup {"system", None}]

Absent == [status |-> "absent", bad |-> FALSE, latest |-> FALSE,
           publisher |-> None, by |-> None]

Steps == {"runs", "scans", "record", "count",               \* POST approve
          "upsert", "latest",                               \* tag webhook
          "lock", "clear", "commit",                        \* approveVersion
          "cascade", "plan",                                \* triggerCascade
          "artifact", "namespace", "team", "global",          \* download
          "evidence", "log"}

\* rows: the latest rows an approval found; todo: targets left to plan;
\* seen: templates a download has read; any: whether anything was approved
\* when the webhook came. History: what was bound (was) and how many edits
\* there had been (since) when a download began.
Req == [at : Steps \cup {"idle"}, ver : Version \cup {None},
        by : User \cup {"system", None}, policy : Policy,
        rows : SUBSET Version, todo : SUBSET Target,
        seen : [Scope -> SUBSET Template], any : BOOLEAN,
        was : [Scope -> SUBSET Template], since : 0 .. MaxEdits]

Idle == [at |-> "idle", ver |-> None, by |-> None, policy |-> NoPolicy,
         rows |-> {}, todo |-> {}, seen |-> [s \in Scope |-> {}], any |-> FALSE,
         was |-> [s \in Scope |-> {}], since |-> 0]

Approved == {v \in Version : ver[v].status = "approved"}
Latest   == {v \in Version : ver[v].latest}

\* The transaction of r holds its version row.
Holds(r) == req[r].at \in {"clear", "commit"}
Locked(v) == \E r \in Request : Holds(r) /\ req[r].ver = v

Goto(r, step) == req' = [req EXCEPT ![r].at = step]
Answer(r)     == req' = [req EXCEPT ![r] = Idle]

\* A step of a request that changes nothing else.
Others == UNCHANGED <<runVars, verVars, scans, policy, bound, plans, edits, restarts, mix,
                      graded>>

Requires(p, rule) == p.rules[rule] = TRUE
MinApprovers(p) == IF p.rules["minApprovers"] = None THEN 0 ELSE p.rules["minApprovers"]

Grades(v) == {s[2] : s \in scans[v]} \ {None}
MeetsGrade(p, v) ==
  p.rules["requiredScanGrade"] = None
    \/ \E g \in Grades(v) : g <= p.rules["requiredScanGrade"]
MeetsRuns(p, v) ==
  /\ Requires(p, "requirePassingTests") => HasPassing("test", v)
  /\ Requires(p, "requirePassingValidate") => HasPassing("validate", v)

TypeOK ==
  /\ RunsTypeOK
  /\ ver \in [Version -> VersionRow]
  /\ approvals \in [Version -> SUBSET User]
  /\ scans \in [Version -> SUBSET ({"named", "anonymous"} \X ((0 .. 4) \cup {None}))]
  /\ policy \in Policies \cup {NoPolicy}
  /\ bound \in [Scope -> SUBSET Template]
  /\ req \in [Request -> Req]
  /\ \A r \in Request :
       /\ req[r].at # "idle" => req[r].ver \in Version
       /\ req[r].at \in {"runs", "scans", "record", "count"} => req[r].by \in User
  /\ plans \subseteq Target \X Version
  /\ mix \in Mixes /\ edits \in 0 .. MaxEdits /\ restarts \in 0 .. MaxRestarts
  /\ graded \subseteq Version \X (0 .. 4)
  /\ under \in [Version -> Policy]
  /\ overlapped \in BOOLEAN

Init ==
  /\ RunsInit
  /\ ver = [v \in Version |-> Absent]
  /\ approvals = [v \in Version |-> {}]
  /\ scans = [v \in Version |-> {}]
  /\ policy \in Policies
  /\ bound = [s \in Scope |-> {}]
  /\ req = [r \in Request |-> Idle]
  /\ mix \in Mixes
  /\ plans = {} /\ edits = 0 /\ restarts = 0 /\ graded = {}
  /\ under = [v \in Version |-> NoPolicy]
  /\ overlapped = FALSE

----------------------------------------------------------------------------
(* Publishing, rejecting, yanking *)

\* createVersion: a version that exists is a conflict.
Publish(u, v) ==
  /\ "publish" \in mix /\ ver[v].status = "absent"
  /\ ver' = [ver EXCEPT ![v] = [Absent EXCEPT !.status = "pending", !.publisher = u]]
  /\ UNCHANGED <<runVars, approvals, under, overlapped, scans, policy, bound, req, plans,
                 edits, restarts, mix, graded>>

\* rejectVersion: one conditional UPDATE, which waits for the row lock.
Reject(v) ==
  /\ "reject" \in mix /\ ver[v].status = "pending" /\ ~Locked(v)
  /\ ver' = [ver EXCEPT ![v].status = "rejected"]
  /\ UNCHANGED <<runVars, approvals, under, overlapped, scans, policy, bound, req, plans,
                 edits, restarts, mix, graded>>

Yank(v) ==
  /\ "yank" \in mix /\ ver[v].status # "absent" /\ ~Locked(v)
  /\ ver' = [ver EXCEPT ![v].bad = TRUE]
  /\ UNCHANGED <<runVars, approvals, under, overlapped, scans, policy, bound, req, plans,
                 edits, restarts, mix, graded>>

----------------------------------------------------------------------------
(* POST approve *)

\* The artifact (with its policy) and the version are read first.
RequestApproval(r, u, v) ==
  /\ "approve" \in mix /\ req[r] = Idle /\ ver[v].status # "absent"
  /\ req' = [req EXCEPT ![r] = [Idle EXCEPT !.at = "runs", !.ver = v, !.by = u,
                                            !.policy = policy]]
  /\ Others

CheckRuns(r) ==
  /\ req[r].at = "runs"
  /\ IF MeetsRuns(req[r].policy, req[r].ver) THEN Goto(r, "scans") ELSE Answer(r)
  /\ Others

\* The scan grade, then self-approval (forbidden unless switched off), then
\* whether one approver is enough.
CheckScans(r) ==
  LET p == req[r].policy
      v == req[r].ver
      self == ver[v].publisher = req[r].by /\ p.rules["preventSelfApproval"] # FALSE
  IN
  /\ req[r].at = "scans"
  /\ IF ~MeetsGrade(p, v) \/ self THEN Answer(r)
     ELSE Goto(r, IF MinApprovers(p) > 1 THEN "record" ELSE "lock")
  /\ Others

\* addVersionApproval: at most one row per person.
RecordApproval(r) ==
  /\ req[r].at = "record"
  /\ approvals' = [approvals EXCEPT ![req[r].ver] = @ \cup {req[r].by}]
  /\ Goto(r, "count")
  /\ UNCHANGED <<runVars, ver, under, overlapped, scans, policy, bound, plans, edits,
                 restarts, mix, graded>>

\* Mutant of CountApprovals: one approval too few is enough.
CountApprovalsOffByOne(r) ==
  /\ req[r].at = "count"
  /\ IF Cardinality(approvals[req[r].ver]) < MinApprovers(req[r].policy) - 1
     THEN Answer(r) ELSE Goto(r, "lock")
  /\ Others

\* Mutant of CountApprovals: the cascade does not wait for the others.
CountAndCascade(r) ==
  /\ req[r].at = "count"
  /\ IF Cardinality(approvals[req[r].ver]) < MinApprovers(req[r].policy)
     THEN Goto(r, "cascade") ELSE Goto(r, "lock")
  /\ Others

CountApprovals(r) ==
  /\ req[r].at = "count"
  /\ IF Cardinality(approvals[req[r].ver]) < MinApprovers(req[r].policy)
     THEN Answer(r) ELSE Goto(r, "lock")
  /\ Others

----------------------------------------------------------------------------
(* approveVersion *)

\* Mutant of LockVersion: any version is approved.
LockAnyVersion(r) ==
  /\ req[r].at = "lock" /\ ~Locked(req[r].ver)
  /\ Goto(r, "clear")
  /\ Others

\* SELECT ... FOR UPDATE, then give up unless pending. A person's request
\* ends there; the webhook does not look at the result.
LockVersion(r) ==
  /\ req[r].at = "lock" /\ ~Locked(req[r].ver)
  /\ IF ver[req[r].ver].status = "pending" THEN Goto(r, "clear")
     ELSE IF req[r].by = "system" THEN Goto(r, "cascade")
     ELSE Answer(r)
  /\ Others

\* Mutant of ClearLatest: nothing is cleared.
ClearNothing(r) ==
  /\ req[r].at = "clear"
  /\ Goto(r, "commit")
  /\ overlapped' = (overlapped \/ \E q \in Request : req[q].at = "commit")
  /\ UNCHANGED <<runVars, ver, approvals, under, scans, policy, bound, plans, edits,
                 restarts, mix, graded>>

\* The snapshot of UPDATE ... SET is_latest = false WHERE is_latest.
ClearLatest(r) ==
  /\ req[r].at = "clear"
  /\ req' = [req EXCEPT ![r].at = "commit", ![r].rows = Latest]
  /\ overlapped' = (overlapped \/ \E q \in Request : req[q].at = "commit")
  /\ UNCHANGED <<runVars, ver, approvals, under, scans, policy, bound, plans, edits,
                 restarts, mix, graded>>

\* Mutant of CommitApproval: only the webhook cascades.
CommitWithoutCascade(r) ==
  LET v == req[r].ver IN
  /\ req[r].at = "commit"
  /\ ver' = [w \in Version |->
       IF w = v THEN [ver[w] EXCEPT !.status = "approved", !.by = req[r].by,
                                    !.latest = TRUE]
       ELSE [ver[w] EXCEPT !.latest = @ /\ w \notin req[r].rows]]
  /\ under' = [under EXCEPT ![v] = req[r].policy]
  /\ IF req[r].by = "system" THEN Goto(r, "cascade") ELSE Answer(r)
  /\ UNCHANGED <<runVars, approvals, overlapped, scans, policy, bound, plans, edits,
                 restarts, mix, graded>>

CommitApproval(r) ==
  LET v == req[r].ver IN
  /\ req[r].at = "commit"
  /\ ver' = [w \in Version |->
       IF w = v THEN [ver[w] EXCEPT !.status = "approved", !.by = req[r].by,
                                    !.latest = TRUE]
       ELSE [ver[w] EXCEPT !.latest = @ /\ w \notin req[r].rows]]
  /\ under' = [under EXCEPT ![v] = req[r].policy]
  /\ Goto(r, "cascade")
  /\ UNCHANGED <<runVars, approvals, overlapped, scans, policy, bound, plans, edits,
                 restarts, mix, graded>>

----------------------------------------------------------------------------
(* The tag webhook *)

\* findArtifactsBySourceRepo reads the artifact with its policy.
TagPushed(r, v) ==
  /\ "tag" \in mix /\ req[r] = Idle
  /\ req' = [req EXCEPT ![r] = [Idle EXCEPT !.at = "upsert", !.ver = v, !.by = "system",
                                            !.policy = policy, !.any = Approved # {}]]
  /\ Others

\* Mutant of UpsertVersion: the approver is taken for the publisher.
UpsertBySystem(r) ==
  LET v == req[r].ver IN
  /\ req[r].at = "upsert" /\ ~Locked(v)
  /\ ver' = IF ver[v].status = "absent"
            THEN [ver EXCEPT ![v] = [Absent EXCEPT !.status = "pending",
                                                   !.publisher = "system"]]
            ELSE ver
  /\ Goto(r, "latest")
  /\ UNCHANGED <<runVars, approvals, under, overlapped, scans, policy, bound, plans,
                 edits, restarts, mix, graded>>

\* Mutant of UpsertVersion: what was pushed last is the latest.
UpsertLatest(r) ==
  LET v == req[r].ver IN
  /\ req[r].at = "upsert" /\ ~Locked(v)
  /\ ver' = IF ver[v].status = "absent"
            THEN [ver EXCEPT ![v] = [Absent EXCEPT !.status = "pending", !.latest = TRUE,
                                                   !.publisher = "webhook"]]
            ELSE ver
  /\ Goto(r, "latest")
  /\ UNCHANGED <<runVars, approvals, under, overlapped, scans, policy, bound, plans,
                 edits, restarts, mix, graded>>

\* An existing row keeps all but its timestamp.
UpsertVersion(r) ==
  LET v == req[r].ver
      pending == ver[v].status \in {"absent", "pending"}
  IN
  /\ req[r].at = "upsert" /\ ~Locked(v)
  /\ ver' = IF ver[v].status = "absent"
            THEN [ver EXCEPT ![v] = [Absent EXCEPT !.status = "pending",
                                                   !.publisher = "webhook"]]
            ELSE ver
  /\ IF Requires(req[r].policy, "autoApprovePatches") /\ pending
     THEN Goto(r, "latest") ELSE Answer(r)
  /\ UNCHANGED <<runVars, approvals, under, overlapped, scans, policy, bound, plans, edits,
                 restarts, mix, graded>>

\* Mutant of ReadLatest: the arguments of isPatchBump are swapped.
ReadLatestSwapped(r) ==
  /\ req[r].at = "latest"
  /\ \/ /\ Latest = {} \/ \E w \in Latest : <<req[r].ver, w>> \in PatchBump
        /\ Goto(r, "lock")
     \/ Answer(r)
  /\ Others

\* A patch of the latest version, or the first version, is approved unless
\* runs are required. With several latest rows, one of them is looked at.
ReadLatest(r) ==
  LET p == req[r].policy
      runsFirst == Requires(p, "requirePassingTests") \/ Requires(p, "requirePassingValidate")
      patch == {w \in Latest : <<w, req[r].ver>> \in PatchBump}
      Skip    == Answer(r)
      Approve == IF runsFirst THEN Skip ELSE Goto(r, "lock")
  IN
  /\ req[r].at = "latest"
  /\ \/ (Latest = {} \/ patch # {}) /\ Approve
     \/ Latest \ patch # {} /\ Skip
  /\ Others

----------------------------------------------------------------------------
(* triggerCascade, after the answer *)

\* listEnvironments gives one page, the newest environments first.
Listed == {t \in Target : Newer[t] < EnvironmentPage}

CascadeTargets(r) ==
  LET todo == {t \in Listed : <<t, req[r].ver>> \in Tracks} IN
  /\ req[r].at = "cascade"
  /\ IF todo = {} THEN Answer(r)
     ELSE req' = [req EXCEPT ![r].at = "plan", ![r].todo = todo]
  /\ Others

CreateCascadeRun(r, t) ==
  /\ req[r].at = "plan" /\ t \in req[r].todo
  /\ plans' = plans \cup {<<t, req[r].ver>>}
  /\ IF req[r].todo = {t} THEN Answer(r)
     ELSE req' = [req EXCEPT ![r].todo = @ \ {t}]
  /\ UNCHANGED <<runVars, verVars, scans, policy, bound, edits, restarts, mix, graded>>

----------------------------------------------------------------------------
(* Download *)

Download(r, v) ==
  /\ "download" \in mix /\ req[r] = Idle
  /\ ver[v].status = "approved" /\ ~ver[v].bad
  /\ req' = [req EXCEPT ![r] = [Idle EXCEPT !.at = "artifact", !.ver = v,
                                            !.policy = policy, !.was = bound,
                                            !.since = edits]]
  /\ Others

\* Mutant of After: the bindings of the team are not read.
AfterWithoutTeam == [artifact |-> "namespace", namespace |-> "global", team |-> "global",
                     global |-> "evidence"]

After == [artifact |-> "namespace", namespace |-> "team", team |-> "global",
          global |-> "evidence"]

\* getPoliciesForScope, one scope after the other.
ReadScope(r) ==
  /\ req[r].at \in Scope
  /\ req' = [req EXCEPT ![r].at = After[req[r].at],
                        ![r].seen[req[r].at] = bound[req[r].at]]
  /\ Others

\* A failed rule denies the download only at level block.
EvaluateDownload(r) ==
  LET p == EffectivePolicy(req[r].policy, req[r].seen)
      v == req[r].ver
      fail == ~MeetsRuns(p, v) \/ ~MeetsGrade(p, v)
  IN
  /\ req[r].at = "evidence"
  /\ IF fail /\ p.level = "block" THEN Answer(r) ELSE Goto(r, "log")
  /\ Others

\* The download is answered before it is logged and counted.
LogDownload(r) ==
  /\ req[r].at = "log" /\ Answer(r)
  /\ Others

----------------------------------------------------------------------------
(* Runs, scans, administration *)

RunStep ==
  /\ "run" \in mix /\ RunsNext
  /\ UNCHANGED <<verVars, scans, policy, bound, req, plans, edits, restarts, mix, graded>>

Edit(kind) == kind \in mix /\ edits < MaxEdits /\ edits' = edits + 1

\* upsertCiResult: a named scanner replaces its result, results without a
\* scanner accumulate (NULLs are distinct in a unique index).
PostScan(v, k, g) ==
  /\ Edit("scan") /\ ver[v].status # "absent"
  /\ scans' = [scans EXCEPT ![v] =
       {s \in @ : ~(k = "named" /\ s[1] = "named")} \cup {<<k, g>>}]
  /\ graded' = graded \cup {v} \X ({g} \ {None})
  /\ UNCHANGED <<runVars, verVars, policy, bound, req, plans, restarts, mix>>

UpdateArtifact(p) ==
  /\ Edit("edit") /\ policy' = p
  /\ UNCHANGED <<runVars, verVars, scans, bound, req, plans, restarts, mix, graded>>

CreatePolicyBinding(s, t) ==
  /\ Edit("bind") /\ t \notin bound[s]
  /\ bound' = [bound EXCEPT ![s] = @ \cup {t}]
  /\ UNCHANGED <<runVars, verVars, scans, policy, req, plans, restarts, mix, graded>>

DeletePolicyBinding(s, t) ==
  /\ Edit("bind") /\ t \in bound[s]
  /\ bound' = [bound EXCEPT ![s] = @ \ {t}]
  /\ UNCHANGED <<runVars, verVars, scans, policy, req, plans, restarts, mix, graded>>

\* Requests, open transactions and cascades are lost.
Restart ==
  /\ restarts < MaxRestarts /\ restarts' = restarts + 1
  /\ req' = [r \in Request |-> Idle]
  /\ DropRunRequests
  /\ UNCHANGED <<verVars, scans, policy, bound, plans, edits, mix, graded>>

----------------------------------------------------------------------------

\* What the server does by itself for a request in flight.
Serve(r) ==
  \/ CheckRuns(r) \/ CheckScans(r) \/ RecordApproval(r) \/ CountApprovals(r)
  \/ LockVersion(r) \/ ClearLatest(r) \/ CommitApproval(r)
  \/ UpsertVersion(r) \/ ReadLatest(r)
  \/ CascadeTargets(r) \/ \E t \in Target : CreateCascadeRun(r, t)
  \/ ReadScope(r) \/ EvaluateDownload(r) \/ LogDownload(r)

Next ==
  \/ \E u \in User, v \in Version : Publish(u, v)
  \/ \E v \in Version : Reject(v) \/ Yank(v)
  \/ \E r \in Request, u \in User, v \in Version : RequestApproval(r, u, v)
  \/ \E r \in Request, v \in Version : TagPushed(r, v) \/ Download(r, v)
  \/ \E r \in Request : Serve(r)
  \/ RunStep
  \/ \E v \in Version, k \in {"named", "anonymous"}, g \in {0, 3, None} : PostScan(v, k, g)
  \/ \E p \in Policies : UpdateArtifact(p)
  \/ \E b \in Bindings : CreatePolicyBinding(b[1], b[2]) \/ DeletePolicyBinding(b[1], b[2])
  \/ Restart

Fairness == \A r \in Request : WF_vars(Serve(r))

Spec == Init /\ [][Next]_vars /\ Fairness

----------------------------------------------------------------------------
(* Properties *)

\* A version a person approved has the approvals its policy asked for, all
\* of different people, and while every policy there ever was forbids
\* self-approval the publisher is not one of them (the webhook that pushes
\* the tag again does not become the publisher).
EnoughApprovers ==
  \A v \in Approved :
    LET p == under[v] IN
    ver[v].by \in User =>
      /\ MinApprovers(p) > 1 => /\ ver[v].by \in approvals[v]
                                /\ Cardinality(approvals[v]) >= MinApprovers(p)
      /\ (\A q \in Policies : q.rules["preventSelfApproval"] # FALSE) =>
           ver[v].publisher \notin {ver[v].by} \cup approvals[v]

\* The registry has one latest version at most, unless two approving
\* transactions overlapped: is_latest is cleared from a snapshot.
OneLatest == ~overlapped => \A v, w \in Latest : v = w

\* There is a latest version from the first approval on, and it is approved.
LatestIsApproved ==
  /\ Latest \subseteq Approved
  /\ Approved # {} => Latest # {}

\* A decision is never undone or made a second time, whatever approvals,
\* rejections and webhooks are in flight.
DecisionsStand ==
  [][\A v \in Version :
       ver[v].status \in {"approved", "rejected"} =>
         ver'[v].status = ver[v].status /\ ver'[v].by = ver[v].by]_vars

\* What the webhook approves by itself is a patch of an approved version,
\* or came when nothing was approved yet.
AutoApprovedIsPatch ==
  \A r \in Request : req[r].at \in {"lock", "clear", "commit"} /\ req[r].by = "system" =>
    \/ ~req[r].any
    \/ \E w \in Approved : <<w, req[r].ver>> \in PatchBump

\* A plan run is only cascaded for a version somebody decided on.
CascadesAreDecided ==
  \A c \in plans : ver[c[2]].status \in {"approved", "rejected"}

\* Every approved version reaches every module that tracks it in an
\* environment on the first page of its project, unless the backend restarts:
\* the cascade is not stored anywhere. The environments after that page get
\* no cascade, although CascadeManager promises all.
ApprovedIsCascaded ==
  []<>(restarts > 0 \/
       \A c \in Tracks : c[1] \in Listed /\ c[2] \in Approved => c \in plans)

\* A person's approval rests on runs of that very version which a CI job
\* reported as succeeded.
TestedBeforeApproval ==
  \A v \in Approved : ver[v].by \in User =>
    /\ Requires(under[v], "requirePassingTests") => <<"test", v>> \in passed
    /\ Requires(under[v], "requirePassingValidate") => <<"validate", v>> \in passed

\* What the jobs and scanners reported of v is what p demands.
Attested(p, v) ==
  /\ Requires(p, "requirePassingTests") => <<"test", v>> \in passed
  /\ Requires(p, "requirePassingValidate") => <<"validate", v>> \in passed
  /\ p.rules["requiredScanGrade"] # None =>
       \E s \in graded : s[1] = v /\ s[2] <= p.rules["requiredScanGrade"]

\* A download is only answered for an approved version with the evidence that
\* a policy in force meanwhile demands at level block, although the scopes are
\* read one after the other. Of two edits in that time a download may see the
\* later and miss the earlier: it then meets no policy that ever was in force.
InForce(r) == {EffectivePolicy(req[r].policy, req[r].was), EffectivePolicy(policy, bound)}
ServedIsVetted ==
  [][\A r \in Request : req[r].at = "evidence" /\ req'[r].at = "log" =>
       /\ req[r].ver \in Approved
       /\ edits - req[r].since <= 1 =>
            \E p \in InForce(r) : p.level = "block" => Attested(p, req[r].ver)]_vars

----------------------------------------------------------------------------

\* resolveEffectivePolicy as its comment has it: the most specific scope that
\* defines a rule decides, and within the scope the strictest value.
DefinedAt(s, r) == Values(r, PoliciesAt(policy, bound, s))
Documented(r) ==
  LET defining == {s \in Scope : DefinedAt(s, r) # {}} IN
  IF defining = {} THEN {} ELSE DefinedAt(FirstOf(Scopes, defining), r)

\* The effective policy is never weaker than documented: numbers are the
\* strictest of that scope, a demanded requirement is demanded, a demand
\* comes from some policy, and block anywhere is block.
NeverWeaker ==
  LET e == EffectivePolicy(policy, bound)
      all == UNION {PoliciesAt(policy, bound, s) : s \in Scope}
  IN
  /\ \A n \in Documented("minApprovers") : n <= e.rules["minApprovers"]
  /\ \A g \in Documented("requiredScanGrade") : e.rules["requiredScanGrade"] <= g
  /\ FALSE \in Documented("autoApprovePatches") => e.rules["autoApprovePatches"] = FALSE
  /\ \A r \in Flag \ {"autoApprovePatches"} :
       /\ TRUE \in Documented(r) => e.rules[r] = TRUE
       /\ e.rules[r] = TRUE => TRUE \in Values(r, all)
  /\ "block" \in {LevelOf(p) : p \in all} => e.level = "block"
=============================================================================
