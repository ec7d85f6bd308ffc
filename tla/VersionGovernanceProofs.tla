----------------------- MODULE VersionGovernanceProofs -----------------------
(***************************************************************************)
(* Theorems about VersionGovernance for every value of its constants: its  *)
(* types and its decisions. What the latter rest on is how a step may      *)
(* change one request (Moved) and one version row (Evolves).               *)
(***************************************************************************)
EXTENDS VersionGovernance, FiniteSetTheorems, TLAPS

----------------------------------------------------------------------------
(* Types                                                                   *)

LEMMA NoPolicyType == NoPolicy \in Policy
BY DEF NoPolicy, Policy, Switch, Rule, Flag

LEMMA IdleType == Idle \in Req
BY NoPolicyType, VersionGovernanceAssumption DEF Idle, Req

\* The steps of an approval that only people ask for.
Human == {"runs", "scans", "record", "count"}

\* A request knows its version, an approval its approver.
Knows(q) ==
  /\ q \in Req
  /\ q.at # "idle" => q.ver \in Version
  /\ q.at \in Human => q.by \in User

\* Steps that change one request and no table.
LEMMA ReqStepType ==
  ASSUME TypeOK, NEW r \in Request, NEW q, Knows(q),
         req' = [req EXCEPT ![r] = q], Others
  PROVE  TypeOK'
BY DEF TypeOK, RunsTypeOK, Knows, Human, Others, runVars, verVars

LEMMA GotoType ==
  ASSUME TypeOK, NEW r \in Request, NEW step \in Steps, req[r].at # "idle",
         step \in Human => req[r].by \in User
  PROVE  Knows([req[r] EXCEPT !.at = step])
BY DEF TypeOK, Req, Knows, Human

LEMMA GotoKnows ==
  ASSUME TypeOK, NEW r \in Request, NEW step \in Steps, req[r].at # "idle", Goto(r, step),
         step \in Human => req[r].by \in User
  PROVE  /\ req' = [req EXCEPT ![r] = [req[r] EXCEPT !.at = step]]
         /\ Knows([req[r] EXCEPT !.at = step])
BY GotoType DEF Goto, TypeOK

LEMMA AnswerKnows ==
  ASSUME NEW r \in Request, Answer(r)
  PROVE  req' = [req EXCEPT ![r] = Idle] /\ Knows(Idle)
BY IdleType DEF Answer, Knows, Idle, Human

\* Every step of a request either answers it, or moves it on.
LEMMA MoveType ==
  ASSUME TypeOK, NEW r \in Request, NEW step \in Steps, req[r].at # "idle",
         step \in Human => req[r].by \in User,
         Goto(r, step) \/ Answer(r), Others
  PROVE  TypeOK'
BY GotoKnows, AnswerKnows, ReqStepType

\* The request rows stay well typed whenever one of them is well replaced.
LEMMA ReqType ==
  ASSUME TypeOK, NEW r \in Request, NEW step \in Steps, req[r].at # "idle",
         step \in Human => req[r].by \in User,
         Goto(r, step) \/ Answer(r)
  PROVE  req' \in [Request -> Req] /\ \A q \in Request : Knows(req'[q])
<1>1. CASE Goto(r, step) BY <1>1, GotoKnows DEF Knows, TypeOK, Human
<1>2. CASE Answer(r) BY <1>2, AnswerKnows DEF Knows, TypeOK, Human
<1> QED BY <1>1, <1>2

\* Every step of a request that changes no table.
QuietStep(r) ==
  \/ \E u \in User, v \in Version : RequestApproval(r, u, v)
  \/ \E v \in Version : TagPushed(r, v) \/ Download(r, v)
  \/ CheckRuns(r) \/ CheckScans(r) \/ CountApprovals(r) \/ LockVersion(r)
  \/ ReadLatest(r) \/ CascadeTargets(r) \/ ReadScope(r) \/ EvaluateDownload(r)
  \/ LogDownload(r)

LEMMA QuietType ==
  ASSUME TypeOK, NEW r \in Request, QuietStep(r) PROVE TypeOK'
<1>0. NoPolicy \in Policy /\ policy \in Policy /\ None \notin Version
  BY NoPolicyType, VersionGovernanceAssumption DEF TypeOK
<1>1. ASSUME NEW u \in User, NEW v \in Version, RequestApproval(r, u, v) PROVE TypeOK'
  <2> DEFINE q == [Idle EXCEPT !.at = "runs", !.ver = v, !.by = u, !.policy = policy]
  <2>1. Knows(q) BY <1>0, IdleType DEF Knows, Human, Idle, Req, Steps
  <2> QED BY <1>1, <2>1, ReqStepType DEF RequestApproval
<1>2. ASSUME NEW v \in Version, TagPushed(r, v) PROVE TypeOK'
  <2> DEFINE q == [Idle EXCEPT !.at = "upsert", !.ver = v, !.by = "system",
                               !.policy = policy, !.any = Approved # {}]
  <2>1. Knows(q) BY <1>0, IdleType DEF Knows, Human, Idle, Req, Steps
  <2> QED BY <1>2, <2>1, ReqStepType DEF TagPushed
<1>3. ASSUME NEW v \in Version, Download(r, v) PROVE TypeOK'
  <2> DEFINE q == [Idle EXCEPT !.at = "artifact", !.ver = v, !.policy = policy, !.was = bound,
                               !.since = edits]
  <2>1. bound \in [Scope -> SUBSET Template] /\ edits \in 0 .. MaxEdits BY DEF TypeOK
  <2>2. Knows(q) BY <1>0, <2>1, IdleType DEF Knows, Human, Idle, Req, Steps
  <2> QED BY <1>3, <2>2, ReqStepType DEF Download
<1>4. CASE CheckRuns(r) BY <1>4, MoveType DEF CheckRuns, Steps, Human, TypeOK
<1>5. CASE CheckScans(r) BY <1>5, MoveType DEF CheckScans, Steps, Human, TypeOK
<1>6. CASE CountApprovals(r) BY <1>6, MoveType DEF CountApprovals, Steps, Human, TypeOK
<1>7. CASE LockVersion(r)
  <2>1. Goto(r, "clear") \/ Goto(r, "cascade") \/ Answer(r) BY <1>7 DEF LockVersion
  <2> QED BY <1>7, <2>1, MoveType DEF LockVersion, Steps, Human, TypeOK
<1>8. CASE ReadLatest(r) BY <1>8, MoveType DEF ReadLatest, Steps, Human, TypeOK
<1>9. CASE CascadeTargets(r)
  <2>1. CASE Answer(r) BY <1>9, <2>1, AnswerKnows, ReqStepType DEF CascadeTargets
  <2>2. CASE ~Answer(r)
    <3> DEFINE todo == {t \in Listed : <<t, req[r].ver>> \in Tracks}
               q == [req[r] EXCEPT !.at = "plan", !.todo = todo]
    <3>1. req' = [req EXCEPT ![r] = q] BY <1>9, <2>2 DEF CascadeTargets, TypeOK
    <3>2. req[r] \in Req /\ req[r].ver \in Version
      BY <1>9 DEF CascadeTargets, TypeOK
    <3>3. Knows(q) BY <3>2 DEF Knows, Human, Req, Steps, Listed
    <3> QED BY <1>9, <3>1, <3>3, ReqStepType DEF CascadeTargets
  <2> QED BY <2>1, <2>2
<1>10. CASE ReadScope(r)
  <2> DEFINE at == req[r].at
             q == [req[r] EXCEPT !.at = After[at], !.seen[at] = bound[at]]
  <2>1. req[r] \in Req /\ req[r].ver \in Version /\ at \in Scope
    BY <1>10 DEF ReadScope, TypeOK, Scope, Scopes
  <2>2. Scope = {"artifact", "namespace", "team", "global"}
    BY DEF Scope, Scopes
  <2>3. After[at] \in {"namespace", "team", "global", "evidence"}
    BY <2>1, <2>2 DEF After
  <2>4. req' = [req EXCEPT ![r] = q] BY <1>10, <2>1 DEF ReadScope, TypeOK
  <2>5. bound[at] \in SUBSET Template BY <2>1 DEF TypeOK
  <2>6. q \in Req /\ q.ver = req[r].ver /\ q.at = After[at]
    BY <2>1, <2>3, <2>5 DEF Req, Steps
  <2>7. Knows(q) BY <2>1, <2>3, <2>6 DEF Knows, Human
  <2> QED BY <1>10, <2>4, <2>7, ReqStepType DEF ReadScope
<1>11. CASE EvaluateDownload(r)
  <2>1. (Goto(r, "log") \/ Answer(r)) /\ req[r].at = "evidence" /\ Others
    BY <1>11 DEF EvaluateDownload
  <2> QED BY <2>1, MoveType DEF Steps, Human
<1>12. CASE LogDownload(r)
  BY <1>12, AnswerKnows, ReqStepType DEF LogDownload
<1> QED
  BY <1>1, <1>2, <1>3, <1>4, <1>5, <1>6, <1>7, <1>8, <1>9, <1>10, <1>11, <1>12 DEF QuietStep

LEMMA RowType ==
  ASSUME RunsTypeOK, NEW i \in DOMAIN iacRuns PROVE iacRuns[i] \in IacRun
BY DEF RunsTypeOK

\* The rows of runs keep their types, whatever request writes them.
LEMMA RunStepType == ASSUME TypeOK, RunStep PROVE TypeOK'
<1>0. RunsTypeOK /\ iacRuns \in Seq(IacRun) /\ MaxRuns \in Nat
  BY ArtifactRunsAssumption DEF TypeOK, RunsTypeOK
<1>1. Free \in Hand BY <1>0 DEF Free, Hand, RunStatus
<1>2. ASSUME NEW h \in RunHandler, NEW o \in Operations, NEW v \in Version,
             NEW m \in Modes, CreateRun(h, o, v, m)
      PROVE  RunsTypeOK'
  <2> DEFINE row == NewRow(o, v, m, IF m = "byoc" THEN "queued" ELSE "pending", m = "byoc")
  <2>1. row \in IacRun
    BY ArtifactRunsAssumption DEF NewRow, IacRun, RunStatus
  <2>2. iacRuns' = Append(iacRuns, row) /\ Len(iacRuns) < MaxRuns /\ UNCHANGED passed
    BY <1>2 DEF CreateRun
  <2>3. hand' = hand \/
        hand' = [hand EXCEPT ![h] = [does |-> "store", run |-> Len(iacRuns) + 1,
                                     status |-> "queued"]]
    BY <1>2 DEF CreateRun
  <2>4. [does |-> "store", run |-> Len(iacRuns) + 1, status |-> "queued"] \in Hand
    BY <1>0, <2>2 DEF Hand, RunStatus
  <2> HIDE DEF row
  <2>5. /\ iacRuns' \in Seq(IacRun) /\ Len(iacRuns') = Len(iacRuns) + 1
        /\ DOMAIN iacRuns' = 1 .. Len(iacRuns) + 1 /\ DOMAIN iacRuns = 1 .. Len(iacRuns)
    BY <1>0, <2>1, <2>2
  <2>6. hand' \in [RunHandler -> Hand] BY <1>0, <2>3, <2>4 DEF RunsTypeOK
  <2>7. \A g \in RunHandler :
          hand'[g].does # "nothing" => hand'[g].run \in DOMAIN iacRuns'
    BY <1>0, <2>2, <2>3, <2>5 DEF RunsTypeOK
  <2>8. Len(iacRuns') <= MaxRuns BY <1>0, <2>2, <2>5
  <2> QED BY <1>0, <2>2, <2>5, <2>6, <2>7, <2>8 DEF RunsTypeOK
<1>3. ASSUME NEW h \in RunHandler, NEW i \in DOMAIN iacRuns, NEW s \in Posts,
             StatusCallback(h, i, s)
      PROVE  RunsTypeOK'
  <2>1. [does |-> "write", run |-> i, status |-> s] \in Hand
    BY <1>0, ArtifactRunsAssumption DEF Hand, RunStatus, RunsTypeOK
  <2>2. iacRuns[i].operation \in {"test", "validate", "plan", "apply"}
        /\ iacRuns[i].version \in Version
    BY <1>0, RowType DEF IacRun
  <2> QED BY <1>0, <1>3, <2>1, <2>2 DEF StatusCallback, RunsTypeOK
<1>4. ASSUME NEW h \in RunHandler, NEW i \in DOMAIN iacRuns,
             CancelRun(h, i) \/ ConfirmApply(h, i)
      PROVE  RunsTypeOK'
  <2> DEFINE to == IF CancelRun(h, i) THEN [does |-> "write", run |-> i, status |-> "cancelled"]
                   ELSE [does |-> "apply", run |-> i, status |-> "pending"]
  <2>1. to \in Hand /\ to.run = i BY <1>0 DEF Hand, RunStatus, RunsTypeOK
  <2>2. hand' = [hand EXCEPT ![h] = to] /\ UNCHANGED <<iacRuns, passed>>
    BY <1>4 DEF CancelRun, ConfirmApply
  <2> HIDE DEF to
  <2> QED BY <1>0, <2>1, <2>2 DEF RunsTypeOK
<1>5. ASSUME NEW h \in RunHandler, InsertApply(h) PROVE RunsTypeOK'
  <2>1. hand[h].run \in DOMAIN iacRuns /\ hand[h] \in Hand
    BY <1>0, <1>5 DEF InsertApply, RunsTypeOK
  <2> DEFINE plan == iacRuns[hand[h].run]
             row == NewRow("apply", plan.version, plan.mode, hand[h].status, FALSE)
  <2>0. plan \in IacRun BY <1>0, <2>1, RowType
  <2>2. row \in IacRun BY <2>0, <2>1 DEF NewRow, IacRun, Hand
  <2>3. /\ iacRuns' = Append(iacRuns, row) /\ Len(iacRuns) < MaxRuns
        /\ hand' = [hand EXCEPT ![h] = Free] /\ UNCHANGED passed
    BY <1>5 DEF InsertApply
  <2> HIDE DEF row, plan
  <2>5. /\ iacRuns' \in Seq(IacRun) /\ Len(iacRuns') = Len(iacRuns) + 1
        /\ DOMAIN iacRuns' = 1 .. Len(iacRuns) + 1 /\ DOMAIN iacRuns = 1 .. Len(iacRuns)
    BY <1>0, <2>2, <2>3
  <2> QED BY <1>0, <1>1, <2>3, <2>5 DEF RunsTypeOK, Free
<1>6. ASSUME NEW h \in RunHandler, UpdateRunStatus(h) PROVE RunsTypeOK'
  <2>1. /\ hand[h].run \in DOMAIN iacRuns /\ hand[h].status \in RunStatus
    BY <1>0, <1>6 DEF UpdateRunStatus, RunsTypeOK, Hand
  <2>2. [iacRuns[hand[h].run] EXCEPT !.status = hand[h].status] \in IacRun
    BY <1>0, <2>1, RowType DEF IacRun
  <2>3. iacRuns' = [iacRuns EXCEPT ![hand[h].run] =
                      [iacRuns[hand[h].run] EXCEPT !.status = hand[h].status]]
    BY <1>6 DEF UpdateRunStatus
  <2>4. iacRuns' \in Seq(IacRun) /\ Len(iacRuns') = Len(iacRuns)
        /\ DOMAIN iacRuns' = DOMAIN iacRuns
    BY <1>0, <2>1, <2>2, <2>3
  <2> QED BY <1>0, <1>1, <1>6, <2>4 DEF UpdateRunStatus, RunsTypeOK, Free
<1>7. ASSUME ExpireTimedOutPlans PROVE RunsTypeOK'
  <2> PICK old \in SUBSET DOMAIN iacRuns :
        iacRuns' = [i \in DOMAIN iacRuns |->
                      IF i \in old THEN [iacRuns[i] EXCEPT !.status = "expired"]
                      ELSE iacRuns[i]]
    BY <1>7 DEF ExpireTimedOutPlans
  <2>1. \A i \in DOMAIN iacRuns : iacRuns'[i] \in IacRun
    BY <1>0, RowType DEF IacRun, RunStatus
  <2>2. DOMAIN iacRuns' = 1 .. Len(iacRuns) /\ DOMAIN iacRuns = 1 .. Len(iacRuns)
    BY <1>0
  <2>3. iacRuns' \in Seq(IacRun) /\ Len(iacRuns') = Len(iacRuns)
    BY <1>0, <2>1, <2>2
  <2> QED BY <1>0, <1>7, <2>2, <2>3 DEF ExpireTimedOutPlans, RunsTypeOK
<1>8. RunsTypeOK'
  BY <1>2, <1>3, <1>4, <1>5, <1>6, <1>7 DEF RunStep, RunsNext
<1> QED BY <1>8 DEF RunStep, TypeOK, verVars

LEMMA TableStepType ==
  ASSUME TypeOK, NEW r \in Request,
         \/ RecordApproval(r) \/ ClearLatest(r) \/ CommitApproval(r) \/ UpsertVersion(r)
         \/ \E t \in Target : CreateCascadeRun(r, t)
  PROVE  TypeOK'
<1>0. /\ None \notin Version /\ "system" # None
      /\ req[r] \in Req /\ (req[r].at # "idle" => req[r].ver \in Version)
      /\ (req[r].at \in Human => req[r].by \in User)
  BY VersionGovernanceAssumption DEF TypeOK, Human
<1>1. CASE RecordApproval(r)
  <2>1. req[r].by \in User
    BY <1>0, <1>1 DEF RecordApproval, Human
  <2> QED BY <1>0, <1>1, <2>1, ReqType DEF RecordApproval, TypeOK, RunsTypeOK, runVars, Steps, Knows, Human
<1>2. CASE ClearLatest(r)
  <2> DEFINE q == [req[r] EXCEPT !.at = "commit", !.rows = Latest]
  <2>1. req' = [req EXCEPT ![r] = q] BY <1>2 DEF ClearLatest, TypeOK
  <2>2. Knows(q) BY <1>0, <1>2 DEF ClearLatest, Knows, Human, Req, Steps, Latest
  <2>3. overlapped' \in BOOLEAN BY <1>2 DEF ClearLatest, TypeOK
  <2> HIDE DEF q
  <2> QED BY <1>2, <2>1, <2>2, <2>3 DEF ClearLatest, TypeOK, RunsTypeOK, runVars, Knows, Human
<1>3. CASE CommitApproval(r)
  <2>1. req[r].by \in User \cup {"system", None} /\ req[r].policy \in Policy
    BY <1>0 DEF Req
  <2>2. ver' \in [Version -> VersionRow]
    <3>1. ASSUME NEW w \in Version PROVE ver'[w] \in VersionRow
      <4>1. ver[w] \in VersionRow BY DEF TypeOK
      <4>2. CASE w = req[r].ver
        BY <1>3, <2>1, <4>1, <4>2 DEF CommitApproval, VersionRow
      <4>3. CASE w # req[r].ver
        <5>1. ver'[w] = [ver[w] EXCEPT !.latest = ver[w].latest /\ w \notin req[r].rows]
          BY <1>3, <4>3 DEF CommitApproval
        <5>2. (ver[w].latest /\ w \notin req[r].rows) \in BOOLEAN OBVIOUS
        <5> QED BY <4>1, <5>1, <5>2 DEF VersionRow
      <4> QED BY <4>2, <4>3
    <3>2. ver' = [w \in Version |-> ver'[w]] BY <1>3 DEF CommitApproval
    <3> QED BY <3>1, <3>2
  <2>3. under' \in [Version -> Policy] BY <1>0, <1>3, <2>1 DEF CommitApproval, TypeOK
  <2> QED
    BY <1>0, <1>3, <2>2, <2>3, ReqType DEF CommitApproval, TypeOK, RunsTypeOK, runVars, Steps, Knows, Human
<1>4. CASE UpsertVersion(r)
  <2>1. ver' \in [Version -> VersionRow]
    BY <1>0, <1>4 DEF UpsertVersion, TypeOK, VersionRow, Absent
  <2> QED BY <1>0, <1>4, <2>1, ReqType DEF UpsertVersion, TypeOK, RunsTypeOK, runVars, Steps, Knows, Human
<1>5. ASSUME NEW t \in Target, CreateCascadeRun(r, t) PROVE TypeOK'
  <2>1. plans' \subseteq Target \X Version
    BY <1>0, <1>5 DEF CreateCascadeRun, TypeOK
  <2>2. CASE Answer(r)
    BY <1>5, <2>1, <2>2, AnswerKnows
    DEF CreateCascadeRun, TypeOK, RunsTypeOK, runVars, verVars, Knows, Human
  <2>3. CASE ~Answer(r)
    <3> DEFINE q == [req[r] EXCEPT !.todo = req[r].todo \ {t}]
    <3>1. req' = [req EXCEPT ![r] = q] BY <1>5, <2>3 DEF CreateCascadeRun, TypeOK
    <3>2. Knows(q) BY <1>0 DEF Knows, Human, Req
    <3> HIDE DEF q
    <3> QED BY <1>5, <2>1, <3>1, <3>2
        DEF CreateCascadeRun, TypeOK, RunsTypeOK, runVars, verVars, Knows, Human
  <2> QED BY <2>2, <2>3
<1> QED BY <1>1, <1>2, <1>3, <1>4, <1>5

\* Publishing, decisions and administration.
Administration ==
  \/ \E u \in User, v \in Version : Publish(u, v)
  \/ \E v \in Version : Reject(v) \/ Yank(v)
  \/ \E v \in Version, k \in {"named", "anonymous"}, g \in {0, 3, None} : PostScan(v, k, g)
  \/ \E p \in Policies : UpdateArtifact(p)
  \/ \E b \in Bindings : CreatePolicyBinding(b[1], b[2]) \/ DeletePolicyBinding(b[1], b[2])
  \/ Restart

LEMMA AdministrationType == ASSUME TypeOK, Administration PROVE TypeOK'
<1>0. /\ MaxEdits \in Nat /\ MaxRestarts \in Nat /\ Bindings \subseteq Scope \X Template
      /\ MaxRuns \in Nat
  BY VersionGovernanceAssumption, ArtifactRunsAssumption
<1>1. ASSUME NEW u \in User, NEW v \in Version, Publish(u, v) PROVE TypeOK'
  <2>1. ver' \in [Version -> VersionRow] BY <1>1 DEF Publish, TypeOK, VersionRow, Absent
  <2> QED BY <1>1, <2>1 DEF Publish, TypeOK, RunsTypeOK, runVars
<1>2. ASSUME NEW v \in Version, Reject(v) \/ Yank(v) PROVE TypeOK'
  <2>1. ver' \in [Version -> VersionRow]
    <3>1. CASE Reject(v) BY <3>1 DEF Reject, TypeOK, VersionRow
    <3>2. CASE Yank(v) BY <3>2 DEF Yank, TypeOK, VersionRow
    <3> QED BY <1>2, <3>1, <3>2
  <2>2. UNCHANGED <<runVars, approvals, under, overlapped, scans, policy, bound, req, plans,
                    edits, restarts, mix, graded>>
    BY <1>2 DEF Reject, Yank
  <2> QED BY <2>1, <2>2 DEF TypeOK, RunsTypeOK, runVars
<1>3. ASSUME NEW v \in Version, NEW k \in {"named", "anonymous"}, NEW g \in {0, 3, None},
             PostScan(v, k, g)
      PROVE  TypeOK'
  <2>1. /\ scans' \in [Version -> SUBSET ({"named", "anonymous"} \X ((0 .. 4) \cup {None}))]
        /\ edits' \in 0 .. MaxEdits /\ graded' \subseteq Version \X (0 .. 4)
    BY <1>0, <1>3 DEF PostScan, Edit, TypeOK
  <2> QED BY <1>3, <2>1 DEF PostScan, TypeOK, RunsTypeOK, runVars, verVars
<1>4. ASSUME NEW p \in Policies, UpdateArtifact(p) PROVE TypeOK'
  <2>1. edits' \in 0 .. MaxEdits BY <1>0, <1>4 DEF UpdateArtifact, Edit, TypeOK
  <2> QED BY <1>4, <2>1 DEF UpdateArtifact, TypeOK, RunsTypeOK, runVars, verVars
<1>5. ASSUME NEW b \in Bindings,
             CreatePolicyBinding(b[1], b[2]) \/ DeletePolicyBinding(b[1], b[2])
      PROVE  TypeOK'
  <2>1. b[1] \in Scope /\ b[2] \in Template BY <1>0
  <2>2. /\ bound' \in [Scope -> SUBSET Template] /\ edits' \in 0 .. MaxEdits
        /\ UNCHANGED <<runVars, verVars, scans, policy, req, plans, restarts, mix, graded>>
    BY <1>0, <1>5, <2>1 DEF CreatePolicyBinding, DeletePolicyBinding, Edit, TypeOK
  <2> QED BY <2>2 DEF TypeOK, RunsTypeOK, runVars, verVars
<1>6. CASE Restart
  <2>1. restarts' \in 0 .. MaxRestarts BY <1>0, <1>6 DEF Restart, TypeOK
  <2>2. Free \in Hand /\ Free.does = "nothing" BY <1>0 DEF Free, Hand, RunStatus
  <2>3. RunsTypeOK' BY <1>6, <2>2 DEF Restart, DropRunRequests, TypeOK, RunsTypeOK
  <2>4. req' \in [Request -> Req] /\ \A r \in Request : req'[r].at = "idle"
    BY <1>6, IdleType DEF Restart, Idle
  <2> QED BY <1>6, <2>1, <2>3, <2>4 DEF Restart, TypeOK, verVars
<1> QED BY <1>1, <1>2, <1>3, <1>4, <1>5, <1>6 DEF Administration

LEMMA NextCases ==
  ASSUME [Next]_vars
  PROVE  \/ \E r \in Request : QuietStep(r)
         \/ \E r \in Request : \/ RecordApproval(r) \/ ClearLatest(r) \/ CommitApproval(r)
                              \/ UpsertVersion(r) \/ \E t \in Target : CreateCascadeRun(r, t)
         \/ RunStep \/ Administration \/ UNCHANGED vars
BY DEF Next, Serve, QuietStep, Administration

LEMMA InitType == ASSUME Init PROVE TypeOK
<1>1. Free \in Hand /\ Free.does = "nothing"
  BY ArtifactRunsAssumption DEF Free, Hand, RunStatus
<1>2. RunsTypeOK BY <1>1, ArtifactRunsAssumption DEF Init, RunsInit, RunsTypeOK
<1>3. ver \in [Version -> VersionRow] BY DEF Init, VersionRow, Absent
<1>4. req \in [Request -> Req] /\ \A r \in Request : req[r].at = "idle"
  BY IdleType DEF Init, Idle
<1>5. edits \in 0 .. MaxEdits /\ restarts \in 0 .. MaxRestarts
  BY VersionGovernanceAssumption DEF Init
<1>6. bound \in [Scope -> SUBSET Template] BY DEF Init
<1>7. under \in [Version -> Policy] /\ approvals \in [Version -> SUBSET User]
  BY NoPolicyType DEF Init
<1>8. scans \in [Version -> SUBSET ({"named", "anonymous"} \X ((0 .. 4) \cup {None}))]
  BY DEF Init
<1> QED BY <1>2, <1>3, <1>4, <1>5, <1>6, <1>7, <1>8 DEF Init, TypeOK

LEMMA NextType == ASSUME TypeOK, [Next]_vars PROVE TypeOK'
<1>1. CASE UNCHANGED vars
  BY <1>1 DEF vars, verVars, runVars, TypeOK, RunsTypeOK
<1> QED BY <1>1, NextCases, QuietType, TableStepType, RunStepType, AdministrationType

\* The state of the registry is well typed.
THEOREM TypeCorrect == Spec => []TypeOK
<1>1. Init => TypeOK BY InitType
<1>2. TypeOK /\ [Next]_vars => TypeOK' BY NextType
<1> QED BY <1>1, <1>2, PTL DEF Spec

----------------------------------------------------------------------------
(* One request                                                             *)

\* The request keeps what it was made for and goes from one step to another.
From(q, here, there) ==
  /\ req[q].at = here /\ req'[q].at = there
  /\ req'[q].ver = req[q].ver /\ req'[q].by = req[q].by
  /\ req'[q].policy = req[q].policy /\ req'[q].any = req[q].any
  /\ req'[q].rows = IF there = "commit" THEN Latest ELSE req[q].rows

\* The request is new, asked by a person, the webhook or a reader.
Begins(q) ==
  /\ req[q].at = "idle"
  /\ req'[q].ver \in Version
  /\ ver[req'[q].ver].status # "absent" \/ req'[q].by = "system"
  /\ \/ req'[q].at = "runs" /\ req'[q].by \in User /\ req'[q].policy = policy
     \/ /\ req'[q].at = "upsert" /\ req'[q].by = "system"
        /\ req'[q].any => Approved # {}
     \/ /\ req'[q].at = "artifact" /\ ver[req'[q].ver].status = "approved"
        /\ req'[q].policy = policy /\ req'[q].was = bound /\ req'[q].since = edits
        /\ UNCHANGED <<policy, bound, edits>>

Moved(q) ==
  \/ From(q, "runs", "scans") /\ MeetsRuns(req[q].policy, req[q].ver)
  \/ /\ From(q, "scans", "record") \/ From(q, "scans", "lock")
     /\ req'[q].at = "lock" => ~(MinApprovers(req[q].policy) > 1)
     /\ ~(/\ ver[req[q].ver].publisher = req[q].by
          /\ req[q].policy.rules["preventSelfApproval"] # FALSE)
  \/ From(q, "record", "count") /\ RecordApproval(q)
  \/ /\ From(q, "count", "lock")
     /\ ~(Cardinality(approvals[req[q].ver]) < MinApprovers(req[q].policy))
  \/ /\ From(q, "lock", "clear")
     /\ ver[req[q].ver].status = "pending" /\ ~Locked(req[q].ver)
  \/ /\ From(q, "lock", "cascade")
     /\ ver[req[q].ver].status # "pending" /\ req[q].by = "system"
  \/ From(q, "clear", "commit") /\ ClearLatest(q)
  \/ From(q, "commit", "cascade") /\ CommitApproval(q)
  \/ From(q, "upsert", "latest") /\ UpsertVersion(q)
  \/ /\ From(q, "latest", "lock")
     /\ Latest = {} \/ \E w \in Latest : <<w, req[q].ver>> \in PatchBump
  \/ From(q, "cascade", "plan") \/ From(q, "plan", "plan")
  \/ /\ \E s \in Scope, t \in {"namespace", "team", "global", "evidence"} : From(q, s, t)
     /\ ReadScope(q)
  \/ From(q, "evidence", "log") /\ EvaluateDownload(q)

\* A step leaves a request alone, drops it, starts it, or moves it on.
Handled(q) ==
  req'[q] = req[q] \/ req'[q].at = "idle" \/ Begins(q) \/ Moved(q)

LEMMA GotoFrom ==
  ASSUME TypeOK, NEW q \in Request, NEW there \in Steps \ {"commit"}, Goto(q, there)
  PROVE  From(q, req[q].at, there)
<1>1. req' = [req EXCEPT ![q] = [req[q] EXCEPT !.at = there]] BY DEF Goto, TypeOK
<1>2. req[q] \in Req BY DEF TypeOK
<1>3. req'[q] = [req[q] EXCEPT !.at = there] BY <1>1 DEF TypeOK
<1> QED BY <1>2, <1>3 DEF From, Req

LEMMA AnswerIdle ==
  ASSUME TypeOK, NEW q \in Request, Answer(q) PROVE req'[q].at = "idle"
BY DEF Answer, TypeOK, Idle

LEMMA ServeHandles ==
  ASSUME TypeOK, NEW q \in Request, Serve(q) PROVE Handled(q)
<1>0. req[q] \in Req BY DEF TypeOK
<1> USE DEF Handled
<1>1. CASE CheckRuns(q)
  BY <1>1, GotoFrom, AnswerIdle DEF CheckRuns, Moved, Steps
<1>2. CASE CheckScans(q)
  BY <1>2, GotoFrom, AnswerIdle DEF CheckScans, Moved, Steps, From
<1>3. CASE RecordApproval(q)
  <2>1. Goto(q, "count") /\ req[q].at = "record" BY <1>3 DEF RecordApproval
  <2> QED BY <1>3, <2>1, GotoFrom DEF Moved, Steps
<1>4. CASE CountApprovals(q)
  BY <1>4, GotoFrom, AnswerIdle DEF CountApprovals, Moved, Steps
<1>5. CASE LockVersion(q)
  BY <1>5, GotoFrom, AnswerIdle DEF LockVersion, Moved, Steps
<1>6. CASE ClearLatest(q)
  <2>1. req[q].at = "clear" /\ req' = [req EXCEPT ![q].at = "commit", ![q].rows = Latest]
    BY <1>6 DEF ClearLatest
  <2>2. From(q, "clear", "commit")
    BY <1>0, <2>1 DEF From, TypeOK, Req
  <2> QED BY <1>6, <2>2 DEF Moved
<1>7. CASE CommitApproval(q)
  <2>1. Goto(q, "cascade") /\ req[q].at = "commit" BY <1>7 DEF CommitApproval
  <2> QED BY <1>7, <2>1, GotoFrom DEF Moved, Steps
<1>8. CASE UpsertVersion(q)
  <2>1. req[q].at = "upsert" /\ (Goto(q, "latest") \/ Answer(q)) BY <1>8 DEF UpsertVersion
  <2> QED BY <1>8, <2>1, GotoFrom, AnswerIdle DEF Moved, Steps
<1>9. CASE ReadLatest(q)
  <2>1. \/ Answer(q)
        \/ /\ Goto(q, "lock") /\ req[q].at = "latest"
           /\ Latest = {} \/ \E w \in Latest : <<w, req[q].ver>> \in PatchBump
    BY <1>9 DEF ReadLatest
  <2> QED BY <2>1, GotoFrom, AnswerIdle DEF Moved, Steps
<1>10. CASE CascadeTargets(q)
  <2>1. \/ Answer(q)
        \/ /\ req[q].at = "cascade"
           /\ req' = [req EXCEPT ![q].at = "plan",
                                 ![q].todo = {t \in Listed : <<t, req[q].ver>> \in Tracks}]
    BY <1>10 DEF CascadeTargets
  <2>2. Answer(q) \/ From(q, "cascade", "plan") BY <1>0, <2>1 DEF From, TypeOK, Req
  <2> QED BY <2>2, AnswerIdle DEF Moved
<1>11. ASSUME NEW t \in Target, CreateCascadeRun(q, t) PROVE Handled(q)
  <2>1. \/ Answer(q)
        \/ req[q].at = "plan" /\ req' = [req EXCEPT ![q].todo = @ \ {t}]
    BY <1>11 DEF CreateCascadeRun
  <2>2. Answer(q) \/ From(q, "plan", "plan") BY <1>0, <2>1 DEF From, TypeOK, Req
  <2> QED BY <2>2, AnswerIdle DEF Moved
<1>12. CASE ReadScope(q)
  <2> DEFINE s == req[q].at
  <2>1. s \in Scope /\ Scope = {"artifact", "namespace", "team", "global"}
    BY <1>12 DEF ReadScope, Scope, Scopes
  <2>2. After[s] \in {"namespace", "team", "global", "evidence"} BY <2>1 DEF After
  <2>3. req' = [req EXCEPT ![q].at = After[s], ![q].seen[s] = bound[s]]
    BY <1>12 DEF ReadScope
  <2>4. From(q, s, After[s]) BY <1>0, <2>1, <2>2, <2>3 DEF From, TypeOK, Req
  <2> QED BY <1>12, <2>1, <2>2, <2>4 DEF Moved
<1>13. CASE EvaluateDownload(q)
  <2>1. (Goto(q, "log") \/ Answer(q)) /\ req[q].at = "evidence" BY <1>13 DEF EvaluateDownload
  <2> QED BY <1>13, <2>1, GotoFrom, AnswerIdle DEF Moved, Steps
<1>14. CASE LogDownload(q) BY <1>14, AnswerIdle DEF LogDownload
<1> QED
  BY <1>1, <1>2, <1>3, <1>4, <1>5, <1>6, <1>7, <1>8, <1>9, <1>10, <1>11, <1>12, <1>13,
     <1>14
  DEF Serve

\* Serving one request leaves the others alone.
LEMMA OthersKept ==
  ASSUME TypeOK, NEW r \in Request, NEW q \in Request, q # r, Serve(r)
  PROVE  req'[q] = req[q]
<1>1. \/ \E q2 : req' = [req EXCEPT ![r] = q2]
      \/ \E step \in Steps : Goto(r, step)
  <2> USE DEF Steps
  <2>1. CASE CheckRuns(r) BY <2>1 DEF CheckRuns, Answer
  <2>2. CASE CheckScans(r) BY <2>2 DEF CheckScans, Answer
  <2>3. CASE RecordApproval(r) BY <2>3 DEF RecordApproval
  <2>4. CASE CountApprovals(r) BY <2>4 DEF CountApprovals, Answer
  <2>5. CASE LockVersion(r) BY <2>5 DEF LockVersion, Answer
  <2>6. CASE ClearLatest(r)
    <3>1. req' = [req EXCEPT ![r] = [req[r] EXCEPT !.at = "commit", !.rows = Latest]]
      BY <2>6 DEF ClearLatest, TypeOK
    <3> QED BY <3>1
  <2>7. CASE CommitApproval(r) BY <2>7 DEF CommitApproval
  <2>8. CASE UpsertVersion(r) BY <2>8 DEF UpsertVersion, Answer
  <2>9. CASE ReadLatest(r) BY <2>9 DEF ReadLatest, Answer
  <2>10. CASE CascadeTargets(r)
    <3> DEFINE todo == {t \in Listed : <<t, req[r].ver>> \in Tracks}
    <3>1. Answer(r) \/ req' = [req EXCEPT ![r] = [req[r] EXCEPT !.at = "plan", !.todo = todo]]
      BY <2>10 DEF CascadeTargets, TypeOK
    <3> QED BY <3>1 DEF Answer
  <2>11. ASSUME NEW t \in Target, CreateCascadeRun(r, t)
         PROVE  \E q2 : req' = [req EXCEPT ![r] = q2]
    <3>1. Answer(r) \/ req' = [req EXCEPT ![r] = [req[r] EXCEPT !.todo = req[r].todo \ {t}]]
      BY <2>11 DEF CreateCascadeRun, TypeOK
    <3> QED BY <3>1 DEF Answer
  <2>12. CASE ReadScope(r)
    <3> DEFINE s == req[r].at
    <3>1. req' = [req EXCEPT ![r] = [req[r] EXCEPT !.at = After[s], !.seen[s] = bound[s]]]
      BY <2>12 DEF ReadScope, TypeOK
    <3> QED BY <3>1
  <2>13. CASE EvaluateDownload(r) BY <2>13 DEF EvaluateDownload, Answer
  <2>14. CASE LogDownload(r) BY <2>14 DEF LogDownload, Answer
  <2> QED
    BY <2>1, <2>2, <2>3, <2>4, <2>5, <2>6, <2>7, <2>8, <2>9, <2>10, <2>11, <2>12, <2>13,
       <2>14
    DEF Serve
<1> QED BY <1>1 DEF Goto, TypeOK

LEMMA BeginHandles ==
  ASSUME TypeOK, NEW q \in Request, NEW v \in Version,
         TagPushed(q, v) \/ Download(q, v) \/ \E u \in User : RequestApproval(q, u, v)
  PROVE  Begins(q)
<1>0. Idle \in Req /\ Idle.at = "idle" /\ policy \in Policy
  BY IdleType, NoPolicyType, VersionGovernanceAssumption DEF Idle, TypeOK
<1>1. CASE TagPushed(q, v)
  BY <1>0, <1>1 DEF TagPushed, Begins, TypeOK, Req
<1>2. CASE Download(q, v)
  BY <1>0, <1>2 DEF Download, Begins, TypeOK, Req, Others
<1>3. ASSUME NEW u \in User, RequestApproval(q, u, v) PROVE Begins(q)
  BY <1>0, <1>3 DEF RequestApproval, Begins, TypeOK, Req
<1> QED BY <1>1, <1>2, <1>3

LEMMA EveryRequestIsHandled ==
  ASSUME TypeOK, [Next]_vars, NEW q \in Request PROVE Handled(q)
<1>1. CASE UNCHANGED req BY <1>1 DEF Handled
<1>2. ASSUME NEW r \in Request, NEW v \in Version,
             TagPushed(r, v) \/ Download(r, v) \/ \E u \in User : RequestApproval(r, u, v)
      PROVE  Handled(q)
  <2>1. CASE q = r BY <1>2, <2>1, BeginHandles DEF Handled
  <2>2. CASE q # r
    BY <1>2, <2>2 DEF TagPushed, Download, RequestApproval, Handled, TypeOK
  <2> QED BY <2>1, <2>2
<1>3. ASSUME NEW r \in Request, Serve(r) PROVE Handled(q)
  <2>1. CASE q = r BY <1>3, <2>1, ServeHandles
  <2>2. CASE q # r
    <3>1. req'[q] = req[q] BY <1>3, <2>2, OthersKept
    <3> QED BY <3>1 DEF Handled
  <2> QED BY <2>1, <2>2
<1>4. CASE Restart BY <1>4 DEF Restart, Handled, Idle
<1>5. CASE RunStep \/ (Administration /\ ~Restart)
  <2>1. UNCHANGED req
    BY <1>5 DEF RunStep, Administration, Publish, Reject, Yank, PostScan, UpdateArtifact,
       CreatePolicyBinding, DeletePolicyBinding
  <2> QED BY <2>1, <1>1
<1> QED
  BY <1>1, <1>2, <1>3, <1>4, <1>5 DEF Next, vars, Administration

----------------------------------------------------------------------------
(* One version                                                             *)

\* r approves its version: everything it changes.
Commits(r) ==
  /\ req[r].at = "commit" /\ req[r].ver \in Version
  /\ ver'[req[r].ver].status = "approved" /\ ver'[req[r].ver].by = req[r].by
  /\ ver'[req[r].ver].publisher = ver[req[r].ver].publisher
  /\ ver'[req[r].ver].latest = TRUE
  /\ \A w \in Version \ {req[r].ver} :
       /\ ver'[w].status = ver[w].status /\ ver'[w].by = ver[w].by
       /\ ver'[w].publisher = ver[w].publisher
       /\ ver'[w].latest = (ver[w].latest /\ w \notin req[r].rows)
  /\ under' = [under EXCEPT ![req[r].ver] = req[r].policy]
  /\ UNCHANGED <<approvals, overlapped>>
  /\ req'[r].at = "cascade"
  /\ \A q \in Request \ {r} : req'[q] = req[q]

\* Any other step: each row is kept, published or rejected.
Evolves(v) ==
  /\ ver[v].status # "absent" =>
       /\ ver'[v].latest = ver[v].latest /\ ver'[v].by = ver[v].by
       /\ ver'[v].publisher = ver[v].publisher
  /\ \/ ver'[v].status = ver[v].status /\ ver'[v].latest = ver[v].latest
     \/ ver[v].status = "absent" /\ ver'[v].status = "pending" /\ ver'[v].latest = FALSE
     \/ ver[v].status = "pending" /\ ver'[v].status = "rejected" /\ ~Locked(v)

LEMMA CommitCommits ==
  ASSUME TypeOK, NEW r \in Request, CommitApproval(r) PROVE Commits(r)
<1>1. req[r].ver \in Version /\ req[r].at = "commit"
  BY DEF CommitApproval, TypeOK
<1>2. ver[req[r].ver] \in VersionRow BY <1>1 DEF TypeOK
<1>3. /\ ver'[req[r].ver].status = "approved" /\ ver'[req[r].ver].by = req[r].by
      /\ ver'[req[r].ver].publisher = ver[req[r].ver].publisher
      /\ ver'[req[r].ver].latest = TRUE
  BY <1>1, <1>2 DEF CommitApproval, VersionRow
<1>4. ASSUME NEW w \in Version, w # req[r].ver
      PROVE  /\ ver'[w].status = ver[w].status /\ ver'[w].by = ver[w].by
             /\ ver'[w].publisher = ver[w].publisher
             /\ ver'[w].latest = (ver[w].latest /\ w \notin req[r].rows)
  <2>1. ver[w] \in VersionRow BY DEF TypeOK
  <2>2. ver'[w] = [ver[w] EXCEPT !.latest = ver[w].latest /\ w \notin req[r].rows]
    BY <1>4 DEF CommitApproval
  <2> QED BY <2>1, <2>2 DEF VersionRow
<1>5. req'[r].at = "cascade" /\ \A q \in Request \ {r} : req'[q] = req[q]
  <2>1. req[r] \in Req BY DEF TypeOK
  <2> QED BY <2>1 DEF CommitApproval, Goto, TypeOK, Req
<1> QED BY <1>1, <1>3, <1>4, <1>5 DEF Commits, CommitApproval

\* Whatever happens, some request commits, or no row leaves its course.
LEMMA EveryVersionEvolves ==
  ASSUME TypeOK, [Next]_vars
  PROVE  (\E r \in Request : Commits(r)) \/ \A v \in Version : Evolves(v)
<1>0. ver \in [Version -> VersionRow] BY DEF TypeOK
<1>1. CASE UNCHANGED ver BY <1>1 DEF Evolves
<1>2. ASSUME NEW r \in Request, CommitApproval(r) PROVE \E q \in Request : Commits(q)
  BY <1>2, CommitCommits
<1>3. ASSUME NEW u \in User, NEW w \in Version, Publish(u, w)
      PROVE  \A v \in Version : Evolves(v)
  BY <1>0, <1>3 DEF Publish, Evolves, Absent, VersionRow
<1>4. ASSUME NEW r \in Request, UpsertVersion(r) PROVE \A v \in Version : Evolves(v)
  BY <1>0, <1>4 DEF UpsertVersion, Evolves, Absent, VersionRow
<1>5. ASSUME NEW w \in Version, Reject(w) PROVE \A v \in Version : Evolves(v)
  BY <1>0, <1>5 DEF Reject, Evolves, VersionRow
<1>6. ASSUME NEW w \in Version, Yank(w) PROVE \A v \in Version : Evolves(v)
  BY <1>0, <1>6 DEF Yank, Evolves, VersionRow
<1>7. \/ UNCHANGED ver \/ \E r \in Request : CommitApproval(r) \/ UpsertVersion(r)
      \/ \E u \in User, w \in Version : Publish(u, w)
      \/ \E w \in Version : Reject(w) \/ Yank(w)
  <2>1. CASE UNCHANGED vars \/ RunStep BY <2>1 DEF vars, verVars, RunStep
  <2>2. CASE Administration
    BY <2>2 DEF Administration, PostScan, UpdateArtifact, CreatePolicyBinding,
       DeletePolicyBinding, Restart, verVars
  <2>3. ASSUME NEW r \in Request, QuietStep(r) PROVE UNCHANGED ver
    BY <2>3 DEF QuietStep, RequestApproval, TagPushed, Download, CheckRuns, CheckScans,
       CountApprovals, LockVersion, ReadLatest, CascadeTargets, ReadScope, EvaluateDownload,
       LogDownload, Others, verVars
  <2>4. ASSUME NEW r \in Request,
               RecordApproval(r) \/ ClearLatest(r)
                 \/ \E t \in Target : CreateCascadeRun(r, t)
        PROVE  UNCHANGED ver
    BY <2>4 DEF RecordApproval, ClearLatest, CreateCascadeRun, verVars
  <2> QED BY <2>1, <2>2, <2>3, <2>4, NextCases
<1> QED BY <1>1, <1>2, <1>3, <1>4, <1>5, <1>6, <1>7

----------------------------------------------------------------------------
(* Decisions stand                                                         *)

\* The version of a request, from its first look at it on, exists; it is
\* pending while locked, and locked by one request.
Existing == \A r \in Request : req[r].at \notin {"idle", "upsert"} =>
              ver[req[r].ver].status # "absent"
Pending  == \A r \in Request : Holds(r) => ver[req[r].ver].status = "pending"
Alone    == \A r, q \in Request : Holds(r) /\ Holds(q) /\ req[r].ver = req[q].ver => r = q
Locks    == TypeOK /\ Existing /\ Pending /\ Alone

LEMMA InitIdle == ASSUME Init PROVE \A r \in Request : req[r].at = "idle"
BY DEF Init, Idle

LEMMA LocksInit == ASSUME Init PROVE Locks
BY InitType DEF Init, Locks, Existing, Pending, Alone, Holds, Idle

\* The version of a request that goes on is the one it had.
LEMMA HoldsBefore ==
  ASSUME TypeOK, [Next]_vars, NEW r \in Request, Holds(r)'
  PROVE  /\ req'[r].ver = req[r].ver
         /\ \/ Holds(r)
            \/ /\ req[r].at = "lock" /\ ver[req[r].ver].status = "pending"
               /\ ~Locked(req[r].ver)
<1>1. Handled(r) BY EveryRequestIsHandled
<1>2. Scope = {"artifact", "namespace", "team", "global"} BY DEF Scope, Scopes
<1>3. req'[r].at \in {"clear", "commit"} BY DEF Holds
<1> QED BY <1>1, <1>2, <1>3 DEF Handled, Begins, Moved, From, Holds

\* A step takes one lock at most, and none that is held.
LEMMA AloneKept == ASSUME Locks, [Next]_vars PROVE Alone'
<1> SUFFICES ASSUME NEW r \in Request, NEW q \in Request, Holds(r)', Holds(q)',
                    req'[r].ver = req'[q].ver, r # q
             PROVE  FALSE
  BY DEF Alone, Holds
<1>1. req'[r].ver = req[r].ver /\ req'[q].ver = req[q].ver
  BY HoldsBefore DEF Locks
<1>2. ~(Holds(r) /\ Holds(q)) BY <1>1 DEF Locks, Alone
<1>3. ~(Holds(r) /\ ~Holds(q)) BY <1>1, HoldsBefore DEF Locks, Locked
<1>4. ~(Holds(q) /\ ~Holds(r)) BY <1>1, HoldsBefore DEF Locks, Locked
<1>5. CASE ~Holds(r) /\ ~Holds(q)
  <2>1. req'[r] # req[r] /\ req'[q] # req[q] BY <1>5 DEF Holds
  <2>2. ~\E p \in Request : Serve(p) BY <2>1, OthersKept DEF Locks
  <2>3. \A p \in Request, v \in Version :
          TagPushed(p, v) \/ Download(p, v) \/ (\E u \in User : RequestApproval(p, u, v))
            => \A p2 \in Request \ {p} : req'[p2] = req[p2]
    BY DEF TagPushed, Download, RequestApproval, Locks, TypeOK
  <2>4. ~Restart BY DEF Restart, Holds, Idle
  <2>5. UNCHANGED req
    BY <2>1, <2>2, <2>3, <2>4
    DEF Next, vars, RunStep, Publish, Reject, Yank, PostScan, UpdateArtifact,
        CreatePolicyBinding, DeletePolicyBinding
  <2> QED BY <2>1, <2>5
<1> QED BY <1>2, <1>3, <1>4, <1>5

\* A version becomes rejected by the request that rejects it.
LEMMA RejectedBy ==
  ASSUME TypeOK, [Next]_vars, NEW v \in Version, ver[v].status = "pending",
         ver'[v].status = "rejected"
  PROVE  UNCHANGED req
<1>1. ver[v] \in VersionRow BY DEF TypeOK
<1>2. ~\E r \in Request : CommitApproval(r)
  <2> SUFFICES ASSUME NEW r \in Request, CommitApproval(r) PROVE FALSE OBVIOUS
  <2>1. Commits(r) BY CommitCommits
  <2> QED BY <2>1 DEF Commits
<1>3. ~\E r \in Request : UpsertVersion(r) BY <1>1 DEF UpsertVersion, TypeOK
<1>4. ASSUME UNCHANGED ver PROVE FALSE BY <1>4
<1>5. ~\E r \in Request : QuietStep(r)
  BY <1>4 DEF QuietStep, RequestApproval, TagPushed, Download, CheckRuns, CheckScans,
     CountApprovals, LockVersion, ReadLatest, CascadeTargets, ReadScope, EvaluateDownload,
     LogDownload, Others, verVars
<1>6. ~\E r \in Request :
        RecordApproval(r) \/ ClearLatest(r)
          \/ \E t \in Target : CreateCascadeRun(r, t)
  BY <1>4 DEF RecordApproval, ClearLatest, CreateCascadeRun, verVars
<1>7. ~Restart BY <1>4 DEF Restart, verVars
<1>8. RunStep \/ Administration \/ UNCHANGED vars
  BY <1>2, <1>3, <1>5, <1>6, NextCases
<1> QED
  BY <1>7, <1>8 DEF RunStep, Administration, vars, Publish, Reject, Yank, PostScan,
     UpdateArtifact, CreatePolicyBinding, DeletePolicyBinding

\* The status of a version only goes forward.
Forward(v) ==
  /\ ver[v].status # "absent" =>
       ver'[v].status # "absent" /\ ver'[v].publisher = ver[v].publisher
  /\ ver[v].status \in {"approved", "rejected"} =>
       ver'[v].status = ver[v].status /\ ver'[v].by = ver[v].by

LEMMA StatusForward ==
  ASSUME Locks, [Next]_vars, NEW v \in Version PROVE Forward(v)
<1>1. ver \in [Version -> VersionRow] BY DEF Locks, TypeOK
<1>2. CASE \A w \in Version : Evolves(w) BY <1>1, <1>2 DEF Evolves, Forward
<1>3. ASSUME NEW r \in Request, Commits(r) PROVE Forward(v)
  <2>1. ver[req[r].ver].status = "pending" BY <1>3 DEF Locks, Pending, Holds, Commits
  <2> QED BY <1>3, <2>1 DEF Commits, Forward
<1> QED BY <1>2, <1>3, EveryVersionEvolves DEF Locks

LEMMA PendingKept == ASSUME Locks, [Next]_vars PROVE Pending'
<1> SUFFICES ASSUME NEW r \in Request, Holds(r)'
             PROVE  ver'[req'[r].ver].status = "pending"
  BY DEF Pending, Holds
<1> DEFINE v == req[r].ver
<1>1. req'[r].ver = v /\ ver[v].status = "pending" /\ v \in Version
  BY HoldsBefore DEF Locks, Pending, Holds, TypeOK
<1>2. ASSUME \A w \in Version : Evolves(w) PROVE ver'[v].status = "pending"
  <2>1. CASE Holds(r) BY <1>1, <1>2, <2>1 DEF Evolves, Locked
  <2>2. CASE ~Holds(r)
    <3>1. req'[r] # req[r] BY <2>2 DEF Holds
    <3>2. ver'[v].status # "rejected" BY <1>1, <3>1, RejectedBy DEF Locks
    <3> QED BY <1>1, <1>2, <3>2 DEF Evolves
  <2> QED BY <2>1, <2>2
<1>3. ASSUME NEW q \in Request, Commits(q) PROVE ver'[v].status = "pending"
  <2>1. q # r BY <1>3 DEF Commits, Holds
  <2>2. req'[r] = req[r] /\ Holds(r) BY <1>3, <2>1 DEF Commits, Holds
  <2>3. req[q].ver # v BY <1>3, <2>1, <2>2 DEF Locks, Alone, Holds, Commits
  <2> QED BY <1>1, <1>3, <2>3 DEF Commits
<1> QED BY <1>1, <1>2, <1>3, EveryVersionEvolves DEF Locks

LEMMA ExistingKept == ASSUME Locks, [Next]_vars PROVE Existing'
<1> SUFFICES ASSUME NEW r \in Request, req'[r].at \notin {"idle", "upsert"}
             PROVE  ver'[req'[r].ver].status # "absent"
  BY DEF Existing
<1> DEFINE v == req[r].ver
<1>1. Handled(r) BY EveryRequestIsHandled DEF Locks
<1>2. CASE req'[r].ver = v /\ req[r].at \notin {"idle", "upsert"}
  <2>1. v \in Version BY <1>2 DEF Locks, TypeOK
  <2> QED BY <1>2, <2>1, StatusForward DEF Locks, Existing, Forward
<1>3. CASE Begins(r)
  <2>1. req'[r].ver \in Version /\ ver[req'[r].ver].status # "absent"
    BY <1>3, VersionGovernanceAssumption DEF Begins
  <2> QED BY <2>1, StatusForward DEF Forward
<1>4. CASE From(r, "upsert", "latest") /\ UpsertVersion(r)
  <2>1. v \in Version /\ ver[v] \in VersionRow BY <1>4 DEF From, Locks, TypeOK
  <2>2. ver'[v].status # "absent"
    BY <1>4, <2>1 DEF UpsertVersion, Locks, TypeOK, Absent
  <2> QED BY <1>4, <2>2 DEF From
<1>5. Scope = {"artifact", "namespace", "team", "global"} BY DEF Scope, Scopes
<1>6. CASE Moved(r) /\ ~From(r, "upsert", "latest")
  <2>1. req'[r].ver = v /\ req[r].at \notin {"idle", "upsert"}
    BY <1>5, <1>6 DEF Moved, From
  <2> QED BY <2>1, <1>2
<1>7. CASE Moved(r) /\ From(r, "upsert", "latest")
  <2>1. UpsertVersion(r) BY <1>5, <1>7 DEF Moved, From
  <2> QED BY <1>4, <1>7, <2>1
<1> QED BY <1>1, <1>2, <1>3, <1>6, <1>7 DEF Handled

LEMMA LocksKept == ASSUME Locks, [Next]_vars PROVE Locks'
BY NextType, AloneKept, PendingKept, ExistingKept DEF Locks

LEMMA AlwaysLocks == Spec => []Locks
<1>1. Init => Locks BY LocksInit
<1>2. Locks /\ [Next]_vars => Locks' BY LocksKept
<1> QED BY <1>1, <1>2, PTL DEF Spec

\* A decision is never undone or made a second time: the row lock of
\* approveVersion and its look at the status make the decisions of a version
\* exclude each other.
THEOREM DecisionsAreFinal == Spec => DecisionsStand
<1> DEFINE A == \A v \in Version :
       ver[v].status \in {"approved", "rejected"} =>
         ver'[v].status = ver[v].status /\ ver'[v].by = ver[v].by
<1>1. Locks /\ [Next]_vars => A BY StatusForward DEF Forward
<1>2. Locks /\ [Next]_vars => [A]_vars BY <1>1
<1> QED BY <1>2, AlwaysLocks, PTL DEF Spec, DecisionsStand

----------------------------------------------------------------------------
(* The latest version                                                      *)

\* Who is about to commit read the latest rows as they are.
Snapshot ==
  ~overlapped => \A r \in Request : req[r].at = "commit" =>
                   /\ req[r].rows = Latest
                   /\ \A q \in Request : req[q].at = "commit" => q = r
Marks == Locks /\ LatestIsApproved /\ Snapshot /\ OneLatest

LEMMA MarksInit == ASSUME Init PROVE Marks
BY LocksInit DEF Init, Marks, LatestIsApproved, Snapshot, OneLatest, Latest, Approved,
   Idle, Absent

\* Without a commit the set of latest versions stays.
LEMMA LatestKept ==
  ASSUME Locks, LatestIsApproved, \A v \in Version : Evolves(v)
  PROVE  Latest' = Latest
<1>1. ver \in [Version -> VersionRow] BY DEF Locks, TypeOK
<1>2. ASSUME NEW v \in Version PROVE ver'[v].latest = ver[v].latest
  <2>1. ver[v].latest \in BOOLEAN BY <1>1 DEF VersionRow
  <2>2. ver[v].status = "absent" => ~ver[v].latest
    BY DEF LatestIsApproved, Latest, Approved
  <2> QED BY <2>1, <2>2 DEF Evolves
<1> QED BY <1>2 DEF Latest

LEMMA ApprovedStay == ASSUME Locks, [Next]_vars PROVE Approved \subseteq Approved'
BY StatusForward DEF Forward, Approved

LEMMA LatestIsApprovedKept ==
  ASSUME Locks, LatestIsApproved, [Next]_vars PROVE LatestIsApproved'
<1>1. Approved \subseteq Approved' BY ApprovedStay
<1>2. CASE \A v \in Version : Evolves(v)
  <2>1. Latest' = Latest BY <1>2, LatestKept
  <2>2. Approved' \subseteq Approved
    <3>1. \A v \in Version : ver'[v].status = "approved" => ver[v].status = "approved"
      BY <1>2 DEF Evolves
    <3> QED BY <3>1 DEF Approved
  <2> QED BY <1>1, <2>1, <2>2 DEF LatestIsApproved
<1>3. ASSUME NEW r \in Request, Commits(r) PROVE LatestIsApproved'
  <2>1. req[r].ver \in Latest' /\ req[r].ver \in Approved'
    BY <1>3 DEF Commits, Latest, Approved
  <2>2. Latest' \subseteq Latest \cup {req[r].ver} BY <1>3 DEF Commits, Latest
  <2> QED BY <1>1, <2>1, <2>2 DEF LatestIsApproved
<1> QED BY <1>2, <1>3, EveryVersionEvolves DEF Locks

\* An overlap is only noticed by a clearing UPDATE, and not forgotten.
LEMMA OverlapNoticed ==
  ASSUME [Next]_vars
  PROVE  /\ overlapped => overlapped'
         /\ \A r \in Request : ClearLatest(r) /\ ~overlapped' =>
              \A q \in Request : req[q].at # "commit"
<1>1. \A r \in Request : ClearLatest(r) /\ ~overlapped' =>
              \A q \in Request : req[q].at # "commit"
  BY DEF ClearLatest
<1>2. (\E r \in Request : ClearLatest(r)) => (overlapped => overlapped')
  BY DEF ClearLatest
<1>3. ~(\E r \in Request : ClearLatest(r)) => UNCHANGED overlapped
  <2>1. CASE UNCHANGED vars \/ RunStep BY <2>1 DEF vars, verVars, RunStep
  <2>2. CASE Administration
    BY <2>2 DEF Administration, Publish, Reject, Yank, PostScan, UpdateArtifact,
       CreatePolicyBinding, DeletePolicyBinding, Restart, verVars
  <2>3. ASSUME NEW r \in Request, QuietStep(r) PROVE UNCHANGED overlapped
    BY <2>3 DEF QuietStep, RequestApproval, TagPushed, Download, CheckRuns, CheckScans,
       CountApprovals, LockVersion, ReadLatest, CascadeTargets, ReadScope, EvaluateDownload,
       LogDownload, Others, verVars
  <2>4. ASSUME NEW r \in Request,
               RecordApproval(r) \/ CommitApproval(r)
                 \/ UpsertVersion(r) \/ \E t \in Target : CreateCascadeRun(r, t)
        PROVE  UNCHANGED overlapped
    BY <2>4 DEF RecordApproval, CommitApproval, UpsertVersion,
       CreateCascadeRun, verVars
  <2> QED BY <2>1, <2>2, <2>3, <2>4, NextCases
<1> QED BY <1>1, <1>2, <1>3

LEMMA ClearKeepsRows == ASSUME NEW r \in Request, ClearLatest(r) PROVE UNCHANGED ver
BY DEF ClearLatest

\* Who stands before its commit stood there, or has just cleared.
LEMMA AtCommit ==
  ASSUME TypeOK, [Next]_vars, NEW r \in Request, req'[r].at = "commit"
  PROVE  req'[r] = req[r] \/ (ClearLatest(r) /\ req'[r].rows = Latest)
<1>1. Handled(r) BY EveryRequestIsHandled
<1>2. Scope = {"artifact", "namespace", "team", "global"} BY DEF Scope, Scopes
<1> QED BY <1>1, <1>2 DEF Handled, Begins, Moved, From

LEMMA SnapshotKept == ASSUME Marks, [Next]_vars PROVE Snapshot'
<1>0. TypeOK /\ Locks BY DEF Marks, Locks
<1> SUFFICES ASSUME ~overlapped', NEW r \in Request, req'[r].at = "commit"
             PROVE  /\ req'[r].rows = Latest'
                    /\ \A q \in Request : req'[q].at = "commit" => q = r
  BY DEF Snapshot
<1>1. ~overlapped BY OverlapNoticed
<1>2. CASE ClearLatest(r)
  <2>1. \A q \in Request : req[q].at # "commit" BY <1>2, OverlapNoticed
  <2>2. \A q \in Request : q # r => req'[q] = req[q]
    BY <1>0, <1>2, OthersKept DEF Serve
  <2>3. Latest' = Latest BY <1>2, ClearKeepsRows DEF Latest
  <2>4. req'[r].rows = Latest BY <1>0, <2>1, AtCommit
  <2> QED BY <2>1, <2>2, <2>3, <2>4
<1>3. CASE req'[r] = req[r]
  <2>1. req[r].rows = Latest /\ \A q \in Request : req[q].at = "commit" => q = r
    BY <1>1, <1>3 DEF Marks, Snapshot
  <2>2. ~\E q \in Request : Commits(q) BY <1>3, <2>1 DEF Commits
  <2>3. Latest' = Latest
    BY <1>0, <2>2, EveryVersionEvolves, LatestKept DEF Marks
  <2>4. ASSUME NEW q \in Request, req'[q].at = "commit" PROVE q = r
    BY <1>0, <1>3, <2>1, <2>4, AtCommit, OverlapNoticed
  <2> QED BY <1>3, <2>1, <2>3, <2>4
<1> QED BY <1>0, <1>2, <1>3, AtCommit

LEMMA OneLatestKept == ASSUME Marks, [Next]_vars PROVE OneLatest'
<1>0. TypeOK /\ Locks BY DEF Marks, Locks
<1> SUFFICES ASSUME ~overlapped', NEW v \in Latest', NEW w \in Latest' PROVE v = w
  BY DEF OneLatest
<1>1. ~overlapped BY OverlapNoticed
<1>2. CASE \A x \in Version : Evolves(x)
  <2>1. Latest' = Latest BY <1>0, <1>2, LatestKept DEF Marks
  <2> QED BY <1>1, <2>1 DEF Marks, OneLatest
<1>3. ASSUME NEW r \in Request, Commits(r) PROVE v = w
  <2>1. req[r].rows = Latest BY <1>1, <1>3 DEF Marks, Snapshot, Commits
  <2>2. Latest' \subseteq {req[r].ver} BY <1>3, <2>1 DEF Commits, Latest
  <2> QED BY <2>2
<1> QED BY <1>0, <1>2, <1>3, EveryVersionEvolves

LEMMA AlwaysMarks == Spec => []Marks
<1>1. Init => Marks BY MarksInit
<1>2. Marks /\ [Next]_vars => Marks'
  BY LocksKept, LatestIsApprovedKept, SnapshotKept, OneLatestKept DEF Marks
<1> QED BY <1>1, <1>2, PTL DEF Spec

\* The latest version is unique as long as no two approvals overlap: the
\* clearing UPDATE of one sees what the other committed.
THEOREM LatestIsUnique == Spec => []OneLatest
<1>1. Marks => OneLatest BY DEF Marks
<1> QED BY <1>1, AlwaysMarks, PTL

\* Only approved versions are the latest, and from the first approval on
\* there is one, whatever overlaps: who clears, sets.
THEOREM LatestStaysApproved == Spec => []LatestIsApproved
<1>1. Marks => LatestIsApproved BY DEF Marks
<1> QED BY <1>1, AlwaysMarks, PTL

----------------------------------------------------------------------------
(* The webhook and the cascade                                             *)

\* What the webhook noticed is still so: something is approved.
Noticed ==
  \A r \in Request : req[r].at \in {"upsert", "latest"} /\ req[r].any => Approved # {}
Webhooks == Marks /\ Noticed /\ AutoApprovedIsPatch

\* Only a person's approval is checked and counted.
LEMMA PeopleAreNotSystem ==
  ASSUME TypeOK, NEW r \in Request, req[r].at \in {"scans", "count"}
  PROVE  req[r].by # "system"
BY VersionGovernanceAssumption DEF TypeOK

LEMMA WebhooksKept == ASSUME Webhooks, [Next]_vars PROVE Webhooks'
<1>0. TypeOK /\ Locks /\ LatestIsApproved BY DEF Webhooks, Marks, Locks
<1>1. Approved \subseteq Approved' BY <1>0, ApprovedStay
<1>2. Scope = {"artifact", "namespace", "team", "global"} BY DEF Scope, Scopes
<1>3. Noticed'
  <2> SUFFICES ASSUME NEW r \in Request, req'[r].at \in {"upsert", "latest"}, req'[r].any
               PROVE  Approved' # {}
    BY DEF Noticed
  <2>1. Handled(r) BY <1>0, EveryRequestIsHandled
  <2>2. Approved # {}
    BY <1>2, <2>1 DEF Handled, Begins, Moved, From, Webhooks, Noticed
  <2> QED BY <1>1, <2>2
<1>4. AutoApprovedIsPatch'
  <2> SUFFICES ASSUME NEW r \in Request, req'[r].at \in {"lock", "clear", "commit"},
                      req'[r].by = "system"
               PROVE  \/ ~req'[r].any
                      \/ \E w \in Approved' : <<w, req'[r].ver>> \in PatchBump
    BY DEF AutoApprovedIsPatch
  <2>1. Handled(r) BY <1>0, EveryRequestIsHandled
  <2>2. CASE req'[r].ver = req[r].ver /\ req'[r].any = req[r].any /\ req[r].by = "system"
             /\ req[r].at \in {"lock", "clear", "commit"}
    BY <1>1, <2>2 DEF Webhooks, AutoApprovedIsPatch
  <2>3. CASE From(r, "latest", "lock")
    <3>1. Latest = {} \/ \E w \in Latest : <<w, req[r].ver>> \in PatchBump
      BY <1>2, <2>1, <2>3 DEF Handled, Begins, Moved, From
    <3>2. CASE Latest = {}
      <4>1. Approved = {} BY <1>0, <3>2 DEF LatestIsApproved
      <4> QED BY <2>3, <4>1 DEF From, Webhooks, Noticed
    <3> QED BY <1>0, <1>1, <2>3, <3>1, <3>2 DEF From, LatestIsApproved
  <2>4. CASE From(r, "scans", "lock") \/ From(r, "count", "lock")
    BY <1>0, <2>4, PeopleAreNotSystem DEF From
  <2> QED BY <1>2, <2>1, <2>2, <2>3, <2>4 DEF Handled, Begins, Moved, From
<1> QED
  BY <1>3, <1>4, LocksKept, LatestIsApprovedKept, SnapshotKept, OneLatestKept
  DEF Webhooks, Marks

\* A version the webhook approves is a patch of an approved one, or came
\* when there was none: what findArtifactsBySourceRepo and the latest row
\* showed is still true when approveVersion runs.
THEOREM WebhookApprovesPatches == Spec => []AutoApprovedIsPatch
<1>1. Init => Webhooks
  BY MarksInit, InitIdle DEF Webhooks, Noticed, AutoApprovedIsPatch
<1>2. Webhooks /\ [Next]_vars => Webhooks' BY WebhooksKept
<1>3. Webhooks => AutoApprovedIsPatch BY DEF Webhooks
<1> QED BY <1>1, <1>2, <1>3, PTL DEF Spec

\* A request that cascades has seen a decision.
CascadeDecided ==
  \A r \in Request : req[r].at \in {"cascade", "plan"} =>
    ver[req[r].ver].status \in {"approved", "rejected"}
Cascades == Locks /\ CascadeDecided /\ CascadesAreDecided

LEMMA PlanSteps ==
  ASSUME [Next]_vars
  PROVE  UNCHANGED plans \/ \E r \in Request, t \in Target : CreateCascadeRun(r, t)
<1>1. CASE UNCHANGED vars \/ RunStep BY <1>1 DEF vars, RunStep
<1>2. CASE Administration
  BY <1>2 DEF Administration, Publish, Reject, Yank, PostScan, UpdateArtifact,
     CreatePolicyBinding, DeletePolicyBinding, Restart
<1>3. ASSUME NEW r \in Request, QuietStep(r) PROVE UNCHANGED plans
  BY <1>3 DEF QuietStep, RequestApproval, TagPushed, Download, CheckRuns, CheckScans,
     CountApprovals, LockVersion, ReadLatest, CascadeTargets, ReadScope, EvaluateDownload,
     LogDownload, Others
<1>4. ASSUME NEW r \in Request,
             \/ RecordApproval(r) \/ ClearLatest(r) \/ CommitApproval(r)
             \/ UpsertVersion(r)
      PROVE  UNCHANGED plans
  BY <1>4 DEF RecordApproval, ClearLatest, CommitApproval, UpsertVersion
<1> QED BY <1>1, <1>2, <1>3, <1>4, NextCases

LEMMA PlansFromCascade ==
  ASSUME [Next]_vars, NEW c \in plans', c \notin plans
  PROVE  \E r \in Request : req[r].at = "plan" /\ c[2] = req[r].ver
<1>1. PICK r \in Request, t \in Target : CreateCascadeRun(r, t) BY PlanSteps
<1>2. c = <<t, req[r].ver>> /\ req[r].at = "plan" BY <1>1 DEF CreateCascadeRun
<1> QED BY <1>2

LEMMA CascadesKept == ASSUME Cascades, [Next]_vars PROVE Cascades'
<1>0. TypeOK /\ Locks BY DEF Cascades, Locks
<1>1. Scope = {"artifact", "namespace", "team", "global"} BY DEF Scope, Scopes
<1>2. \A v \in Version : Forward(v) BY <1>0, StatusForward
<1>3. CascadeDecided'
  <2> SUFFICES ASSUME NEW r \in Request, req'[r].at \in {"cascade", "plan"}
               PROVE  ver'[req'[r].ver].status \in {"approved", "rejected"}
    BY DEF CascadeDecided
  <2> DEFINE v == req[r].ver
  <2>1. Handled(r) BY <1>0, EveryRequestIsHandled
  <2>2. req'[r].ver = v /\ req[r].at # "idle"
    BY <1>1, <2>1 DEF Handled, Begins, Moved, From
  <2>3. v \in Version BY <1>0, <2>2 DEF TypeOK
  <2>4. CASE req[r].at \in {"cascade", "plan"}
    BY <1>2, <2>2, <2>3, <2>4 DEF Cascades, CascadeDecided, Forward
  <2>5. CASE From(r, "lock", "cascade") /\ ver[v].status # "pending"
    <3>1. ver[v].status \in {"approved", "rejected"}
      BY <1>0, <2>3, <2>5 DEF From, Locks, Existing, TypeOK, VersionRow
    <3> QED BY <1>2, <2>2, <2>3, <3>1 DEF Forward
  <2>6. CASE From(r, "commit", "cascade") /\ CommitApproval(r)
    BY <1>0, <2>2, <2>6, CommitCommits DEF Commits
  <2> QED BY <1>1, <2>1, <2>2, <2>4, <2>5, <2>6 DEF Handled, Begins, Moved, From
<1>4. CascadesAreDecided'
  <2> SUFFICES ASSUME NEW c \in plans'
               PROVE  ver'[c[2]].status \in {"approved", "rejected"}
    BY DEF CascadesAreDecided
  <2>1. CASE c \in plans
    BY <1>0, <1>2, <2>1 DEF Cascades, CascadesAreDecided, Forward, TypeOK
  <2>2. CASE c \notin plans
    <3> PICK r \in Request : req[r].at = "plan" /\ c[2] = req[r].ver
      BY <2>2, PlansFromCascade
    <3>1. c[2] \in Version BY <1>0 DEF TypeOK
    <3> QED BY <1>2, <3>1 DEF Cascades, CascadeDecided, Forward
  <2> QED BY <2>1, <2>2
<1> QED BY <1>0, <1>3, <1>4, LocksKept DEF Cascades

\* Plan runs are cascaded for decided versions only, although the webhook
\* cascades without looking at the result of approveVersion.
THEOREM CascadesFollowDecisions == Spec => []CascadesAreDecided
<1>1. Init => Cascades
  <2>1. Init => plans = {} BY DEF Init
  <2> QED BY <2>1, LocksInit, InitIdle DEF Cascades, CascadeDecided, CascadesAreDecided
<1>2. Cascades /\ [Next]_vars => Cascades' BY CascadesKept
<1>3. Cascades => CascadesAreDecided BY DEF Cascades
<1> QED BY <1>1, <1>2, <1>3, PTL DEF Spec

----------------------------------------------------------------------------
(* No cascade is forgotten                                                 *)

\* r still has to create the plan run of the module c[1] for the version c[2].
Owes(r, c) ==
  /\ req[r].ver = c[2]
  /\ req[r].at = "cascade" \/ (req[r].at = "plan" /\ c[1] \in req[r].todo)

\* The safety part of ApprovedIsCascaded: as long as the backend does not
\* restart, a module that tracks an approved version in an environment on the
\* first page of its project has its plan run, or a request is on its way to
\* create it.
CascadesAreOwed ==
  restarts = 0 =>
    \A c \in Tracks : c[1] \in Listed /\ c[2] \in Approved =>
      c \in plans \/ \E r \in Request : Owes(r, c)

LEMMA PlansStay == ASSUME [Next]_vars PROVE plans \subseteq plans'
BY PlanSteps DEF CreateCascadeRun

\* Only a restart drops a cascade: a request that has one keeps it, lists its
\* modules, or creates the run of one of them.
LEMMA CascadeMoves ==
  ASSUME TypeOK, [Next]_vars, UNCHANGED restarts, NEW r \in Request,
         req[r].at \in {"cascade", "plan"}
  PROVE  \/ req'[r] = req[r] \/ CascadeTargets(r) \/ \E t \in Target : CreateCascadeRun(r, t)
<1>1. CASE UNCHANGED req BY <1>1
<1>2. ASSUME NEW q \in Request, NEW v \in Version,
             TagPushed(q, v) \/ Download(q, v) \/ \E u \in User : RequestApproval(q, u, v)
      PROVE  req'[r] = req[r]
  <2>1. Idle.at = "idle" BY DEF Idle
  <2>2. req[q] = Idle BY <1>2 DEF TagPushed, Download, RequestApproval
  <2>3. q # r BY <2>1, <2>2
  <2> QED BY <1>2, <2>3 DEF TagPushed, Download, RequestApproval, TypeOK
<1>3. ASSUME NEW q \in Request, Serve(q), q # r PROVE req'[r] = req[r]
  BY <1>3, OthersKept
<1>4. CASE Serve(r)
  <2>1. "cascade" \notin Scope /\ "plan" \notin Scope BY DEF Scope, Scopes
  <2> QED BY <1>4, <2>1 DEF Serve, CheckRuns, CheckScans, RecordApproval, CountApprovals,
       LockVersion, ClearLatest, CommitApproval, UpsertVersion, ReadLatest, ReadScope,
       EvaluateDownload, LogDownload
<1>5. ~Restart
  <2>1. restarts \in Nat BY VersionGovernanceAssumption DEF TypeOK
  <2> QED BY <2>1 DEF Restart
<1>6. CASE RunStep \/ (Administration /\ ~Restart)
  <2>1. UNCHANGED req
    BY <1>6 DEF RunStep, Administration, Publish, Reject, Yank, PostScan, UpdateArtifact,
       CreatePolicyBinding, DeletePolicyBinding
  <2> QED BY <2>1
<1>7. \/ \E q \in Request, v \in Version :
            TagPushed(q, v) \/ Download(q, v) \/ \E u \in User : RequestApproval(q, u, v)
      \/ \E q \in Request : Serve(q)
      \/ RunStep \/ (Administration /\ ~Restart) \/ UNCHANGED req
  BY <1>5 DEF Next, vars, Administration
<1> QED BY <1>1, <1>2, <1>3, <1>4, <1>6, <1>7

LEMMA OwedKept ==
  ASSUME TypeOK, [Next]_vars, UNCHANGED restarts, NEW r \in Request, NEW c \in Tracks,
         c[1] \in Listed, Owes(r, c)
  PROVE  c \in plans' \/ Owes(r, c)'
<1>0. /\ c[1] \in Target /\ c[2] \in Version /\ c = <<c[1], c[2]>>
      /\ req[r] \in Req /\ req \in [Request -> Req] /\ r \in DOMAIN req
  BY VersionGovernanceAssumption DEF TypeOK
<1>1. CASE req'[r] = req[r] BY <1>1 DEF Owes
<1>2. CASE CascadeTargets(r)
  <2> DEFINE todo == {t \in Listed : <<t, req[r].ver>> \in Tracks}
  <2>1. c[1] \in todo BY <1>0 DEF Owes
  <2>2. req' = [req EXCEPT ![r] = [req[r] EXCEPT !.at = "plan", !.todo = todo]]
    BY <1>2, <1>0, <2>1 DEF CascadeTargets
  <2>3. /\ req'[r].at = "plan" /\ req'[r].ver = req[r].ver /\ req'[r].todo = todo
    BY <1>0, <2>2 DEF Req
  <2> QED BY <2>1, <2>3 DEF Owes
<1>3. ASSUME NEW t \in Target, CreateCascadeRun(r, t) PROVE c \in plans' \/ Owes(r, c)'
  <2>1. req[r].at = "plan" /\ c[1] \in req[r].todo /\ req[r].ver = c[2]
    BY <1>3 DEF CreateCascadeRun, Owes
  <2>2. CASE t = c[1] BY <1>0, <1>3, <2>1, <2>2 DEF CreateCascadeRun
  <2>3. CASE t # c[1]
    <3>1. req[r].todo # {t} BY <2>1, <2>3
    <3>2. req' = [req EXCEPT ![r] = [req[r] EXCEPT !.todo = req[r].todo \ {t}]]
      BY <1>0, <1>3, <3>1 DEF CreateCascadeRun
    <3>3. req'[r].at = "plan" /\ req'[r].ver = req[r].ver /\ req'[r].todo = req[r].todo \ {t}
      BY <1>0, <2>1, <3>2 DEF Req
    <3> QED BY <2>1, <2>3, <3>3 DEF Owes
  <2> QED BY <2>2, <2>3
<1>4. req[r].at \in {"cascade", "plan"} BY DEF Owes
<1> QED BY <1>1, <1>2, <1>3, <1>4, CascadeMoves

LEMMA OwedCascadesKept ==
  ASSUME TypeOK, CascadesAreOwed, [Next]_vars PROVE CascadesAreOwed'
<1> SUFFICES ASSUME restarts' = 0, NEW c \in Tracks, c[1] \in Listed, (c[2] \in Approved)'
             PROVE  c \in plans' \/ \E r \in Request : Owes(r, c)'
  BY DEF CascadesAreOwed, Listed
<1>0. c[2] \in Version BY VersionGovernanceAssumption
<1>1. restarts = 0
  <2>1. restarts \in Nat BY VersionGovernanceAssumption DEF TypeOK
  <2>2. restarts' = restarts \/ restarts' = restarts + 1
    <3>1. CASE UNCHANGED vars \/ RunStep BY <3>1 DEF vars, RunStep
    <3>2. CASE Administration
      BY <3>2 DEF Administration, Publish, Reject, Yank, PostScan, UpdateArtifact,
         CreatePolicyBinding, DeletePolicyBinding, Restart
    <3>3. ASSUME NEW r \in Request, QuietStep(r) PROVE UNCHANGED restarts
      BY <3>3 DEF QuietStep, RequestApproval, TagPushed, Download, CheckRuns, CheckScans,
         CountApprovals, LockVersion, ReadLatest, CascadeTargets, ReadScope, EvaluateDownload,
         LogDownload, Others
    <3>4. ASSUME NEW r \in Request,
                 \/ RecordApproval(r) \/ ClearLatest(r) \/ CommitApproval(r)
                 \/ UpsertVersion(r)
                 \/ \E t \in Target : CreateCascadeRun(r, t)
          PROVE  UNCHANGED restarts
      BY <3>4 DEF RecordApproval, ClearLatest, CommitApproval, UpsertVersion, CreateCascadeRun
    <3> QED BY <3>1, <3>2, <3>3, <3>4, NextCases
  <2> QED BY <2>1, <2>2
<1>2. CASE c[2] \in Approved
  <2>1. c \in plans \/ \E r \in Request : Owes(r, c)
    BY <1>1, <1>2 DEF CascadesAreOwed
  <2> QED BY <1>1, <2>1, PlansStay, OwedKept
<1>3. CASE c[2] \notin Approved
  <2>1. PICK r \in Request : Commits(r)
    BY <1>0, <1>3, EveryVersionEvolves DEF Evolves, Approved
  <2>2. req[r].ver = c[2] BY <1>0, <1>3, <2>1 DEF Commits, Approved
  <2>3. req'[r].ver = req[r].ver
    <3>1. Handled(r) BY EveryRequestIsHandled
    <3>2. req[r].at = "commit" /\ req'[r].at = "cascade" BY <2>1 DEF Commits
    <3> QED BY <3>1, <3>2 DEF Handled, Begins, Moved, From
  <2>4. Owes(r, c)' BY <2>1, <2>2, <2>3 DEF Commits, Owes
  <2> QED BY <2>4
<1> QED BY <1>2, <1>3

\* Whatever approvals, webhooks and rejections overlap, no approval is without
\* its cascade unless a restart comes between: every module in one of the
\* newest environments of its project, as many as a page holds, is planned.
THEOREM NoCascadeIsForgotten == Spec => []CascadesAreOwed
<1>1. Init => TypeOK /\ CascadesAreOwed
  <2>1. Init => Approved = {} BY DEF Init, Approved, Absent
  <2> QED BY <2>1, InitType DEF CascadesAreOwed
<1>2. TypeOK /\ CascadesAreOwed /\ [Next]_vars => (TypeOK /\ CascadesAreOwed)'
  BY NextType, OwedCascadesKept
<1> QED BY <1>1, <1>2, PTL DEF Spec
=============================================================================
