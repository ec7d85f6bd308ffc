------------------------ MODULE VersionEvidenceProofs ------------------------
(***************************************************************************)
(* What the runs of VersionGovernance are evidence of: which rows can be   *)
(* succeeded at all, and what an approval and a download rest on.          *)
(***************************************************************************)
EXTENDS VersionGovernanceProofs

----------------------------------------------------------------------------
(* Runs                                                                    *)

Job(i) == <<iacRuns[i].operation, iacRuns[i].version>>

\* A pending write is one the row allows: the job's only with a token, a
\* success only if the job reported it.
Writes(h) ==
  /\ hand[h].does = "write" =>
       /\ iacRuns[hand[h].run].token \/ hand[h].status = "cancelled"
       /\ hand[h].status = "succeeded" => Job(hand[h].run) \in passed
  /\ hand[h].does = "store" => iacRuns[hand[h].run].token /\ hand[h].status = "queued"
  /\ hand[h].does = "apply" => hand[h].status = "pending"
Reported == \A i \in DOMAIN iacRuns : iacRuns[i].status = "succeeded" => Job(i) \in passed
RunsInv == RunsTypeOK /\ TokenlessNeverStarts /\ Reported /\ \A h \in RunHandler : Writes(h)

\* Nothing but the status of a run changes.
SameRun(i) ==
  /\ i \in DOMAIN iacRuns'
  /\ iacRuns'[i].operation = iacRuns[i].operation
  /\ iacRuns'[i].version = iacRuns[i].version
  /\ iacRuns'[i].token = iacRuns[i].token

LEMMA RunsTypeKept == ASSUME TypeOK, RunStep PROVE RunsTypeOK'
BY RunStepType DEF TypeOK

\* One handler writes a row it may write.
LEMMA WriteKeepsRuns ==
  ASSUME RunsInv, RunsTypeOK', NEW h \in RunHandler, UpdateRunStatus(h) PROVE RunsInv'
<1> DEFINE w == hand[h].run
<1>1. /\ hand[h].does \in {"write", "store"} /\ w \in DOMAIN iacRuns
      /\ iacRuns \in Seq(IacRun) /\ UNCHANGED passed
  BY DEF UpdateRunStatus, RunsInv, RunsTypeOK
<1>2. iacRuns' = [iacRuns EXCEPT ![w] = [iacRuns[w] EXCEPT !.status = hand[h].status]]
  BY DEF UpdateRunStatus
<1>3. DOMAIN iacRuns' = DOMAIN iacRuns BY <1>2
<1>4. /\ \A i \in DOMAIN iacRuns : SameRun(i)
      /\ iacRuns'[w].status = hand[h].status
      /\ \A i \in DOMAIN iacRuns : i # w => iacRuns'[i] = iacRuns[i]
  BY <1>1, <1>2, RowType DEF SameRun, IacRun, RunsInv
<1>5. hand' = [hand EXCEPT ![h] = Free] /\ hand \in [RunHandler -> Hand]
  BY DEF UpdateRunStatus, RunsInv, RunsTypeOK
<1>6. TokenlessNeverStarts'
  BY <1>1, <1>3, <1>4 DEF TokenlessNeverStarts, SameRun, RunsInv, Writes
<1>7. Reported'
  BY <1>1, <1>3, <1>4 DEF Reported, Job, SameRun, RunsInv, Writes
<1>8. ASSUME NEW g \in RunHandler PROVE Writes(g)'
  <2>1. CASE g = h BY <1>5, <2>1 DEF Writes, Free
  <2>2. CASE g # h
    <3>1. hand'[g] = hand[g] BY <1>5, <2>2
    <3>2. hand[g].does # "nothing" => hand[g].run \in DOMAIN iacRuns
      BY DEF RunsInv, RunsTypeOK
    <3> QED BY <1>1, <1>4, <3>1, <3>2 DEF Writes, Job, SameRun, RunsInv
  <2> QED BY <2>1, <2>2
<1> QED BY <1>6, <1>7, <1>8 DEF RunsInv

\* A row is added, and at most one handler gets something to do.
LEMMA AppendKeepsRuns ==
  ASSUME RunsInv, RunsTypeOK', NEW h \in RunHandler, NEW row \in IacRun,
         iacRuns' = Append(iacRuns, row), UNCHANGED passed,
         row.status \in {"pending", "queued"}, ~row.token => row.status = "pending",
         NEW to, hand' = [hand EXCEPT ![h] = to],
         \/ to = Free \/ to = hand[h]
         \/ /\ row.token
            /\ to = [does |-> "store", run |-> Len(iacRuns) + 1, status |-> "queued"]
  PROVE  RunsInv'
<1>1. /\ iacRuns \in Seq(IacRun) /\ DOMAIN iacRuns = 1 .. Len(iacRuns)
      /\ hand \in [RunHandler -> Hand] /\ Len(iacRuns) \in Nat
  BY DEF RunsInv, RunsTypeOK
<1>2. /\ DOMAIN iacRuns' = 1 .. Len(iacRuns) + 1
      /\ \A i \in DOMAIN iacRuns : iacRuns'[i] = iacRuns[i]
      /\ iacRuns'[Len(iacRuns) + 1] = row
  BY <1>1
<1>3. \A i \in DOMAIN iacRuns' : i \in DOMAIN iacRuns \/ i = Len(iacRuns) + 1
  BY <1>1, <1>2
<1>4. TokenlessNeverStarts'
  BY <1>2, <1>3 DEF TokenlessNeverStarts, RunsInv
<1>5. Reported' BY <1>2, <1>3 DEF Reported, Job, RunsInv
<1>6. ASSUME NEW g \in RunHandler PROVE Writes(g)'
  <2>1. hand[g].does # "nothing" => hand[g].run \in DOMAIN iacRuns
    BY DEF RunsInv, RunsTypeOK
  <2>2. CASE hand'[g] = hand[g]
    BY <1>2, <2>1, <2>2 DEF Writes, Job, RunsInv
  <2>3. CASE g = h /\ to = Free BY <1>1, <2>3 DEF Writes, Free
  <2>4. CASE g = h /\ row.token
             /\ to = [does |-> "store", run |-> Len(iacRuns) + 1, status |-> "queued"]
    BY <1>1, <1>2, <2>4 DEF Writes
  <2> QED BY <1>1, <2>2, <2>3, <2>4
<1> QED BY <1>4, <1>5, <1>6 DEF RunsInv

LEMMA RunsInvKept ==
  ASSUME RunsInv, RunsTypeOK', RunsNext PROVE RunsInv'
<1>0. /\ iacRuns \in Seq(IacRun) /\ hand \in [RunHandler -> Hand]
      /\ \A h \in RunHandler : hand[h].does # "nothing" => hand[h].run \in DOMAIN iacRuns
  BY DEF RunsInv, RunsTypeOK
<1>1. ASSUME NEW h \in RunHandler, NEW o \in Operations, NEW v \in Version,
             NEW m \in Modes, CreateRun(h, o, v, m)
      PROVE  RunsInv'
  <2> DEFINE row == NewRow(o, v, m, IF m = "byoc" THEN "queued" ELSE "pending", m = "byoc")
             store == [does |-> "store", run |-> Len(iacRuns) + 1, status |-> "queued"]
  <2>1. /\ row \in IacRun /\ row.status \in {"pending", "queued"}
        /\ ~row.token => row.status = "pending"
        /\ row.token = (m = "byoc")
    BY ArtifactRunsAssumption DEF NewRow, IacRun, RunStatus
  <2>2. /\ iacRuns' = Append(iacRuns, row) /\ UNCHANGED passed
        /\ \/ m = "byoc" /\ hand' = [hand EXCEPT ![h] = store]
           \/ hand' = [hand EXCEPT ![h] = hand[h]]
    BY <1>0, <1>1 DEF CreateRun
  <2> HIDE DEF row
  <2>3. CASE m = "byoc" /\ hand' = [hand EXCEPT ![h] = store]
    BY <2>1, <2>2, <2>3, AppendKeepsRuns
  <2>4. CASE hand' = [hand EXCEPT ![h] = hand[h]]
    BY <2>1, <2>2, <2>4, AppendKeepsRuns
  <2> QED BY <2>2, <2>3, <2>4
<1>2. ASSUME NEW h \in RunHandler, InsertApply(h) PROVE RunsInv'
  <2> DEFINE plan == iacRuns[hand[h].run]
             row == NewRow("apply", plan.version, plan.mode, hand[h].status, FALSE)
  <2>1. plan \in IacRun /\ hand[h].status = "pending"
    BY <1>0, <1>2, RowType DEF InsertApply, RunsInv, Writes
  <2>2. row \in IacRun /\ row.status = "pending" /\ ~row.token
    BY <2>1 DEF NewRow, IacRun, RunStatus
  <2>3. /\ iacRuns' = Append(iacRuns, row) /\ UNCHANGED passed
        /\ hand' = [hand EXCEPT ![h] = Free]
    BY <1>2 DEF InsertApply
  <2> HIDE DEF row
  <2> QED BY <2>2, <2>3, AppendKeepsRuns
<1>3. ASSUME NEW h \in RunHandler, UpdateRunStatus(h) PROVE RunsInv'
  BY <1>3, WriteKeepsRuns
<1>4. ASSUME NEW h \in RunHandler, NEW i \in DOMAIN iacRuns,
             \/ CancelRun(h, i) \/ ConfirmApply(h, i)
             \/ \E s \in Posts : StatusCallback(h, i, s)
      PROVE  RunsInv'
  <2> DEFINE todo(does, s) == [does |-> does, run |-> i, status |-> s]
  <2>1. iacRuns' = iacRuns /\ passed \subseteq passed'
    BY <1>4 DEF CancelRun, ConfirmApply, StatusCallback
  <2>2. \/ hand' = [hand EXCEPT ![h] = todo("write", "cancelled")]
        \/ hand' = [hand EXCEPT ![h] = todo("apply", "pending")]
        \/ \E s \in Posts : /\ hand' = [hand EXCEPT ![h] = todo("write", s)]
                            /\ iacRuns[i].token
                            /\ s = "succeeded" => Job(i) \in passed'
    BY <1>4 DEF CancelRun, ConfirmApply, StatusCallback, Job
  <2>3. TokenlessNeverStarts' /\ Reported'
    BY <2>1 DEF TokenlessNeverStarts, Reported, Job, RunsInv
  <2>4. ASSUME NEW g \in RunHandler, g # h PROVE Writes(g)'
    <3>1. hand'[g] = hand[g] BY <1>0, <2>2, <2>4
    <3> QED BY <2>1, <3>1 DEF Writes, Job, RunsInv
  <2>5. Writes(h)' BY <1>0, <2>1, <2>2 DEF Writes, Job
  <2> QED BY <2>3, <2>4, <2>5 DEF RunsInv
<1>5. ASSUME ExpireTimedOutPlans PROVE RunsInv'
  <2> PICK old \in SUBSET {i \in DOMAIN iacRuns :
                       iacRuns[i].operation = "plan" /\ iacRuns[i].status = "succeeded"} :
        /\ iacRuns' = [i \in DOMAIN iacRuns |->
                        IF i \in old THEN [iacRuns[i] EXCEPT !.status = "expired"]
                        ELSE iacRuns[i]]
        /\ UNCHANGED <<hand, passed>>
    BY <1>5 DEF ExpireTimedOutPlans
  <2>1. DOMAIN iacRuns' = DOMAIN iacRuns OBVIOUS
  <2>2. \A i \in DOMAIN iacRuns :
          SameRun(i) /\ iacRuns'[i].status \in {iacRuns[i].status, "expired"}
    BY <1>0, RowType DEF SameRun, IacRun, RunsInv
  <2>3. \A i \in old : iacRuns[i].token
    BY DEF RunsInv, TokenlessNeverStarts
  <2>4. \A i \in DOMAIN iacRuns : iacRuns[i].token \/ iacRuns'[i] = iacRuns[i]
    BY <2>3
  <2>5. TokenlessNeverStarts'
    BY <2>1, <2>2, <2>4 DEF TokenlessNeverStarts, SameRun, RunsInv
  <2>6. Reported' BY <2>1, <2>2 DEF Reported, Job, SameRun, RunsInv
  <2>7. \A g \in RunHandler : Writes(g)'
    BY <1>0, <2>2 DEF Writes, Job, SameRun, RunsInv
  <2> QED BY <2>5, <2>6, <2>7 DEF RunsInv
<1> QED BY <1>1, <1>2, <1>3, <1>4, <1>5 DEF RunsNext

\* Outside RunStep the runs stay, or a restart drops what is in hand.
LEMMA RunsInvKeptBySpec ==
  ASSUME TypeOK, RunsInv, [Next]_vars PROVE RunsInv'
<1>1. RunsTypeOK' BY NextType DEF TypeOK
<1>2. CASE UNCHANGED runVars
  BY <1>1, <1>2 DEF runVars, RunsInv, TokenlessNeverStarts, Reported, Job, Writes
<1>3. CASE RunStep BY <1>1, <1>3, RunsInvKept DEF RunStep
<1>4. CASE Restart
  <2>1. /\ UNCHANGED <<iacRuns, passed>> /\ hand' = [h \in RunHandler |-> Free]
    BY <1>4 DEF Restart, DropRunRequests
  <2>2. \A h \in RunHandler : hand'[h].does = "nothing" BY <2>1 DEF Free
  <2> QED BY <1>1, <2>1, <2>2 DEF RunsInv, TokenlessNeverStarts, Reported, Job, Writes
<1>5. RunStep \/ Restart \/ UNCHANGED runVars
  <2>1. CASE UNCHANGED vars BY <2>1 DEF vars
  <2>2. CASE Administration
    BY <2>2 DEF Administration, Publish, Reject, Yank, PostScan, UpdateArtifact,
       CreatePolicyBinding, DeletePolicyBinding
  <2>3. ASSUME NEW r \in Request, QuietStep(r) PROVE UNCHANGED runVars
    BY <2>3 DEF QuietStep, RequestApproval, TagPushed, Download, CheckRuns, CheckScans,
       CountApprovals, LockVersion, ReadLatest, CascadeTargets, ReadScope, EvaluateDownload,
       LogDownload, Others
  <2>4. ASSUME NEW r \in Request,
               RecordApproval(r) \/ ClearLatest(r) \/ CommitApproval(r) \/ UpsertVersion(r)
                 \/ \E t \in Target : CreateCascadeRun(r, t)
        PROVE  UNCHANGED runVars
    BY <2>4 DEF RecordApproval, ClearLatest, CommitApproval, UpsertVersion,
       CreateCascadeRun
  <2> QED BY <2>1, <2>2, <2>3, <2>4, NextCases
<1> QED BY <1>2, <1>3, <1>4, <1>5

LEMMA RunsInvInit == ASSUME Init PROVE RunsInv
<1>1. iacRuns = <<>> /\ \A h \in RunHandler : hand[h].does = "nothing"
  BY DEF Init, RunsInit, Free
<1> QED BY <1>1, InitType DEF TypeOK, RunsInv, TokenlessNeverStarts, Reported, Writes

LEMMA AlwaysRunsInv == Spec => [](TypeOK /\ RunsInv)
<1>1. Init => TypeOK /\ RunsInv BY InitType, RunsInvInit
<1>2. TypeOK /\ RunsInv /\ [Next]_vars => (TypeOK /\ RunsInv)'
  BY NextType, RunsInvKeptBySpec
<1> QED BY <1>1, <1>2, PTL DEF Spec

\* A run without a callback token waits until it is cancelled: no handler
\* holds a write that could start, finish or expire it.
THEOREM TokenlessRunsWait == Spec => []TokenlessNeverStarts
<1>1. TypeOK /\ RunsInv => TokenlessNeverStarts BY DEF RunsInv
<1> QED BY <1>1, AlwaysRunsInv, PTL

----------------------------------------------------------------------------
(* What an approval rests on                                               *)

Passes(p, v) ==
  /\ Requires(p, "requirePassingTests") => <<"test", v>> \in passed
  /\ Requires(p, "requirePassingValidate") => <<"validate", v>> \in passed

LEMMA RunsPass ==
  ASSUME RunsInv, NEW p, NEW v, MeetsRuns(p, v) PROVE Passes(p, v)
<1>1. ASSUME NEW o, HasPassing(o, v) PROVE <<o, v>> \in passed
  BY <1>1 DEF HasPassing, ListedSucceeded, RunsInv, Reported, Job
<1> QED BY <1>1 DEF MeetsRuns, Passes

\* A grade a version has is one a scanner reported.
ScansReported == \A v \in Version : \A g \in Grades(v) : <<v, g>> \in graded

\* Reports are not taken back.
LEMMA EvidenceGrows ==
  ASSUME TypeOK, [Next]_vars
  PROVE  passed \subseteq passed' /\ (ScansReported => ScansReported')
<1>1. CASE UNCHANGED <<passed, scans, graded>> BY <1>1 DEF ScansReported, Grades
<1>2. CASE RunStep
  <2>1. UNCHANGED <<scans, graded>> BY <1>2 DEF RunStep
  <2>2. passed \subseteq passed'
    BY <1>2 DEF RunStep, RunsNext, CreateRun, StatusCallback, CancelRun, ConfirmApply,
       InsertApply, UpdateRunStatus, ExpireTimedOutPlans
  <2> QED BY <2>1, <2>2 DEF ScansReported, Grades
<1>3. ASSUME NEW v \in Version, NEW k \in {"named", "anonymous"}, NEW g \in {0, 3, None},
             PostScan(v, k, g)
      PROVE  UNCHANGED passed /\ (ScansReported => ScansReported')
  <2>1. /\ UNCHANGED passed /\ graded' = graded \cup {v} \X ({g} \ {None})
        /\ \A w \in Version : scans'[w] \subseteq scans[w] \cup
                                 IF w = v THEN {<<k, g>>} ELSE {}
    BY <1>3 DEF PostScan, runVars, TypeOK
  <2> SUFFICES ASSUME ScansReported, NEW w \in Version, NEW s \in scans'[w], s[2] # None
               PROVE  <<w, s[2]>> \in graded'
    BY <2>1 DEF ScansReported, Grades
  <2>2. CASE s \in scans[w] BY <2>1, <2>2 DEF ScansReported, Grades
  <2>3. CASE w = v /\ s = <<k, g>> BY <2>1, <2>3
  <2> QED BY <2>1, <2>2, <2>3
<1>4. \/ UNCHANGED <<passed, scans, graded>> \/ RunStep
      \/ \E v \in Version, k \in {"named", "anonymous"}, g \in {0, 3, None} : PostScan(v, k, g)
  <2>1. CASE UNCHANGED vars BY <2>1 DEF vars, runVars
  <2>2. CASE Administration
    BY <2>2 DEF Administration, Publish, Reject, Yank, UpdateArtifact, CreatePolicyBinding,
       DeletePolicyBinding, Restart, DropRunRequests, runVars
  <2>3. ASSUME NEW r \in Request, QuietStep(r) PROVE UNCHANGED <<passed, scans, graded>>
    BY <2>3 DEF QuietStep, RequestApproval, TagPushed, Download, CheckRuns, CheckScans,
       CountApprovals, LockVersion, ReadLatest, CascadeTargets, ReadScope, EvaluateDownload,
       LogDownload, Others, runVars
  <2>4. ASSUME NEW r \in Request,
               RecordApproval(r) \/ ClearLatest(r) \/ CommitApproval(r) \/ UpsertVersion(r)
                 \/ \E t \in Target : CreateCascadeRun(r, t)
        PROVE  UNCHANGED <<passed, scans, graded>>
    BY <2>4 DEF RecordApproval, ClearLatest, CommitApproval, UpsertVersion,
       CreateCascadeRun, runVars
  <2> QED BY <2>1, <2>2, <2>3, <2>4, NextCases
<1> QED BY <1>1, <1>2, <1>3, <1>4

\* Approvals grow by the one a request records, and only an approving
\* transaction says under which policy it approved.
LEMMA TablesGrow ==
  ASSUME TypeOK, [Next]_vars
  PROVE  /\ (\E r \in Request : Commits(r)) \/ ((\A v \in Version : Evolves(v)) /\ UNCHANGED under)
         /\ \/ UNCHANGED approvals
            \/ \E r \in Request : RecordApproval(r) /\ UNCHANGED ver
<1>1. (\E r \in Request : CommitApproval(r)) => \E r \in Request : Commits(r)
  BY CommitCommits
<1>2. /\ UNCHANGED under \/ \E r \in Request : CommitApproval(r)
      /\ \/ UNCHANGED approvals
         \/ \E r \in Request : RecordApproval(r) /\ UNCHANGED ver
  <2>1. CASE UNCHANGED vars \/ RunStep BY <2>1 DEF vars, verVars, RunStep
  <2>2. CASE Administration
    BY <2>2 DEF Administration, Publish, Reject, Yank, PostScan, UpdateArtifact,
       CreatePolicyBinding, DeletePolicyBinding, Restart, verVars
  <2>3. ASSUME NEW r \in Request, QuietStep(r) PROVE UNCHANGED <<under, approvals>>
    BY <2>3 DEF QuietStep, RequestApproval, TagPushed, Download, CheckRuns, CheckScans,
       CountApprovals, LockVersion, ReadLatest, CascadeTargets, ReadScope, EvaluateDownload,
       LogDownload, Others, verVars
  <2>4. ASSUME NEW r \in Request,
               ClearLatest(r) \/ UpsertVersion(r)
                 \/ \E t \in Target : CreateCascadeRun(r, t)
        PROVE  UNCHANGED <<under, approvals>>
    BY <2>4 DEF ClearLatest, UpsertVersion, CreateCascadeRun, verVars
  <2>5. ASSUME NEW r \in Request, RecordApproval(r) PROVE UNCHANGED <<under, ver>>
    BY <2>5 DEF RecordApproval
  <2>6. ASSUME NEW r \in Request, CommitApproval(r) PROVE UNCHANGED approvals
    BY <2>6 DEF CommitApproval
  <2> QED BY <2>1, <2>2, <2>3, <2>4, <2>5, <2>6, NextCases
<1> QED BY <1>1, <1>2, EveryVersionEvolves

\* The steps of a person's approval after the look at the runs.
Approving == {"scans", "record", "count", "lock", "clear", "commit"}
Tested ==
  \A r \in Request : req[r].at \in Approving /\ req[r].by \in User =>
    Passes(req[r].policy, req[r].ver)
\* A pushed tag is the system's.
Pushed == \A r \in Request : req[r].at \in {"upsert", "latest"} => req[r].by = "system"
Evidence == Locks /\ RunsInv /\ Pushed /\ Tested /\ TestedBeforeApproval

LEMMA PushedKept == ASSUME TypeOK, Pushed, [Next]_vars PROVE Pushed'
<1> SUFFICES ASSUME NEW r \in Request, req'[r].at \in {"upsert", "latest"}
             PROVE  req'[r].by = "system"
  BY DEF Pushed
<1>1. Handled(r) BY EveryRequestIsHandled
<1>2. Scope = {"artifact", "namespace", "team", "global"} BY DEF Scope, Scopes
<1> QED BY <1>1, <1>2 DEF Handled, Begins, Moved, From, Pushed

LEMMA EvidenceKept == ASSUME Evidence, [Next]_vars PROVE Evidence'
<1>0. TypeOK /\ Locks /\ RunsInv BY DEF Evidence, Locks
<1>1. passed \subseteq passed' BY <1>0, EvidenceGrows
<1>2. Scope = {"artifact", "namespace", "team", "global"} /\ "system" \notin User
  BY VersionGovernanceAssumption DEF Scope, Scopes
<1>3. Tested'
  <2> SUFFICES ASSUME NEW r \in Request, req'[r].at \in Approving, req'[r].by \in User
               PROVE  Passes(req[r].policy, req[r].ver)'
    BY DEF Tested, Passes
  <2>1. Handled(r) BY <1>0, EveryRequestIsHandled
  <2>2. Passes(req'[r].policy, req'[r].ver)
    <3>1. CASE req[r].at \in Approving /\ req'[r].by = req[r].by
               /\ req'[r].policy = req[r].policy /\ req'[r].ver = req[r].ver
      BY <3>1 DEF Evidence, Tested
    <3>2. CASE From(r, "runs", "scans")
      <4>1. MeetsRuns(req[r].policy, req[r].ver)
        BY <1>2, <2>1, <3>2 DEF Handled, Begins, Moved, From
      <4> QED BY <1>0, <3>2, <4>1, RunsPass DEF From
    <3>3. CASE From(r, "latest", "lock")
      <4>1. req[r].by = "system" BY <3>3 DEF From, Evidence, Pushed
      <4> QED BY <1>2, <3>3, <4>1 DEF From
    <3> QED BY <1>2, <2>1, <3>1, <3>2, <3>3 DEF Handled, Begins, Moved, From, Approving
  <2> QED BY <1>1, <2>2 DEF Passes
<1>4. TestedBeforeApproval'
  <2> SUFFICES ASSUME NEW v \in Version, ver'[v].status = "approved", ver'[v].by \in User
               PROVE  Passes(under[v], v)'
    BY DEF TestedBeforeApproval, Approved, Passes
  <2>1. CASE ver[v].status = "approved" /\ ver'[v].by = ver[v].by /\ under'[v] = under[v]
    BY <1>1, <2>1 DEF Evidence, TestedBeforeApproval, Approved, Passes
  <2>2. CASE (\A w \in Version : Evolves(w)) /\ UNCHANGED under
    <3>1. ver[v].status = "approved" BY <2>2 DEF Evolves
    <3>2. ver'[v].by = ver[v].by BY <1>0, <3>1, StatusForward DEF Forward
    <3> QED BY <2>1, <2>2, <3>1, <3>2
  <2>3. ASSUME NEW r \in Request, Commits(r) PROVE Passes(under[v], v)'
    <3>1. CASE v = req[r].ver
      <4>1. under'[v] = req[r].policy /\ req[r].by \in User /\ req[r].at = "commit"
        BY <1>0, <2>3, <3>1 DEF Commits, TypeOK
      <4>2. Passes(req[r].policy, req[r].ver)
        BY <4>1 DEF Evidence, Tested, Approving
      <4> QED BY <1>1, <3>1, <4>1, <4>2 DEF Passes
    <3>2. CASE v # req[r].ver
      BY <1>0, <2>1, <2>3, <3>2 DEF Commits, TypeOK
    <3> QED BY <3>1, <3>2
  <2> QED BY <1>0, <2>2, <2>3, TablesGrow
<1> QED BY <1>0, <1>3, <1>4, LocksKept, RunsInvKeptBySpec, PushedKept DEF Evidence

LEMMA EvidenceInit == ASSUME Init PROVE Evidence
<1>1. \A v \in Version : ver[v].status # "approved" BY DEF Init, Absent
<1> QED BY <1>1, LocksInit, RunsInvInit, InitIdle
    DEF Evidence, Pushed, Tested, Approving, TestedBeforeApproval, Approved

LEMMA AlwaysEvidence == Spec => []Evidence
<1>1. Init => Evidence BY EvidenceInit
<1>2. Evidence /\ [Next]_vars => Evidence' BY EvidenceKept
<1> QED BY <1>1, <1>2, PTL DEF Spec

\* An approval by a person under a policy that asks for runs rests on runs
\* of that version that a CI job reported as succeeded, although the runs
\* were looked at several statements before the approval.
THEOREM ApprovalsAreTested == Spec => []TestedBeforeApproval
<1>1. Evidence => TestedBeforeApproval BY DEF Evidence
<1> QED BY <1>1, AlwaysEvidence, PTL

----------------------------------------------------------------------------
(* What a download rests on                                                *)

\* A download in flight is of an approved version.
Fetching == Scope \cup {"evidence"}
Fetched  == \A r \in Request : req[r].at \in Fetching => req[r].ver \in Approved

\* The scopes whose bindings a download has read.
Read(r) ==
  CASE req[r].at = "artifact"  -> {}
    [] req[r].at = "namespace" -> {"artifact"}
    [] req[r].at = "team"      -> {"artifact", "namespace"}
    [] req[r].at = "global"    -> {"artifact", "namespace", "team"}
    [] OTHER -> Scope

\* It will see everything as it was when it began, or as it is now.
AsBefore(r) == /\ \A s \in Read(r) : req[r].seen[s] = req[r].was[s]
               /\ \A s \in Scope \ Read(r) : bound[s] = req[r].was[s]
AsNow(r)    == policy = req[r].policy /\ \A s \in Read(r) : req[r].seen[s] = bound[s]

\* Nothing has changed since, or one edit has.
Fresh(r) ==
  /\ req[r].since <= edits
  /\ edits = req[r].since => AsNow(r) /\ bound = req[r].was
  /\ edits = req[r].since + 1 => AsBefore(r) \/ AsNow(r)
Resolving == \A r \in Request : req[r].at \in Fetching => Fresh(r)
Vetted    == Evidence /\ ScansReported /\ Fetched /\ Resolving

\* Policy and bindings change by one edit at a time, the bindings of one scope.
LEMMA EditSteps ==
  ASSUME TypeOK, [Next]_vars
  PROVE  \/ UNCHANGED <<policy, bound, edits>>
         \/ /\ edits' = edits + 1 /\ UNCHANGED req
            /\ \/ UNCHANGED bound
               \/ /\ UNCHANGED policy
                  /\ \E s \in Scope : \A c \in Scope \ {s} : bound'[c] = bound[c]
<1>1. CASE UNCHANGED vars \/ RunStep BY <1>1 DEF vars, RunStep
<1>2. CASE Administration
  <2>1. ASSUME NEW b \in Bindings,
               CreatePolicyBinding(b[1], b[2]) \/ DeletePolicyBinding(b[1], b[2])
        PROVE  /\ edits' = edits + 1 /\ UNCHANGED <<req, policy>>
               /\ \E s \in Scope : \A c \in Scope \ {s} : bound'[c] = bound[c]
    <3>1. b[1] \in Scope BY VersionGovernanceAssumption
    <3>2. \A c \in Scope \ {b[1]} : bound'[c] = bound[c]
      BY <2>1, <3>1 DEF CreatePolicyBinding, DeletePolicyBinding, TypeOK
    <3> QED BY <2>1, <3>1, <3>2 DEF CreatePolicyBinding, DeletePolicyBinding, Edit
  <2>2. ASSUME ~\E b \in Bindings :
                  CreatePolicyBinding(b[1], b[2]) \/ DeletePolicyBinding(b[1], b[2])
        PROVE  \/ UNCHANGED <<policy, bound, edits>>
               \/ edits' = edits + 1 /\ UNCHANGED <<req, bound>>
    BY <1>2, <2>2 DEF Administration, Publish, Reject, Yank, PostScan, UpdateArtifact, Edit,
       Restart
  <2> QED BY <2>1, <2>2
<1>3. ASSUME NEW r \in Request, QuietStep(r) PROVE UNCHANGED <<policy, bound, edits>>
  BY <1>3 DEF QuietStep, RequestApproval, TagPushed, Download, CheckRuns, CheckScans,
     CountApprovals, LockVersion, ReadLatest, CascadeTargets, ReadScope, EvaluateDownload,
     LogDownload, Others
<1>4. ASSUME NEW r \in Request,
             RecordApproval(r) \/ ClearLatest(r) \/ CommitApproval(r) \/ UpsertVersion(r)
               \/ \E t \in Target : CreateCascadeRun(r, t)
      PROVE  UNCHANGED <<policy, bound, edits>>
  BY <1>4 DEF RecordApproval, ClearLatest, CommitApproval, UpsertVersion, CreateCascadeRun
<1> QED BY <1>1, <1>2, <1>3, <1>4, NextCases

\* A download in flight stood where it is, has begun, or has read a scope.
LEMMA Fetches ==
  ASSUME TypeOK, [Next]_vars, NEW r \in Request, req'[r].at \in Fetching
  PROVE  \/ req'[r] = req[r]
         \/ Begins(r) /\ req'[r].at = "artifact"
         \/ ReadScope(r)
<1>1. Scope = {"artifact", "namespace", "team", "global"} BY DEF Scope, Scopes
<1>2. Handled(r) BY EveryRequestIsHandled
<1> QED BY <1>1, <1>2 DEF Handled, Begins, Moved, From, Fetching

LEMMA FreshWhenBegun ==
  ASSUME TypeOK, NEW r \in Request, Begins(r), req'[r].at = "artifact" PROVE Fresh(r)'
<1>1. /\ req'[r].policy = policy /\ req'[r].was = bound /\ req'[r].since = edits
      /\ UNCHANGED <<policy, bound, edits>> /\ edits \in Nat
  BY VersionGovernanceAssumption DEF Begins, TypeOK
<1>2. Read(r)' = {} BY DEF Read
<1> QED BY <1>1, <1>2 DEF Fresh, AsNow

LEMMA FreshAfterRead ==
  ASSUME TypeOK, NEW r \in Request, ReadScope(r), Fresh(r) PROVE Fresh(r)'
<1> DEFINE s == req[r].at
<1>1. s \in Scope /\ Scope = {"artifact", "namespace", "team", "global"}
  BY DEF ReadScope, Scope, Scopes
<1>2. /\ req' = [req EXCEPT ![r].at = After[s], ![r].seen[s] = bound[s]]
      /\ UNCHANGED <<policy, bound, edits>> /\ req[r] \in Req
  BY DEF ReadScope, Others, TypeOK
<1>3. /\ req'[r].at = After[s] /\ req'[r].policy = req[r].policy
      /\ req'[r].was = req[r].was /\ req'[r].since = req[r].since
      /\ req'[r].seen = [req[r].seen EXCEPT ![s] = bound[s]]
  BY <1>2 DEF TypeOK, Req
<1>4. req[r].seen \in [Scope -> SUBSET Template] BY <1>2 DEF Req
<1>5. Read(r)' = Read(r) \cup {s} /\ s \notin Read(r) /\ Read(r) \subseteq Scope
  BY <1>1, <1>3 DEF Read, After
<1>6. \A c \in Scope : req'[r].seen[c] = IF c = s THEN bound[s] ELSE req[r].seen[c]
  BY <1>3, <1>4
<1>7. ASSUME AsBefore(r) PROVE AsBefore(r)'
  <2>1. bound[s] = req[r].was[s] BY <1>1, <1>5, <1>7 DEF AsBefore
  <2>2. \A c \in Read(r)' : req'[r].seen[c] = req'[r].was[c]
    <3> SUFFICES ASSUME NEW c \in Read(r)' PROVE req'[r].seen[c] = req[r].was[c]
      BY <1>3
    <3>1. CASE c = s BY <1>1, <1>6, <2>1, <3>1
    <3>2. CASE c # s
      <4>1. c \in Read(r) /\ c \in Scope BY <1>5, <3>2
      <4>2. req'[r].seen[c] = req[r].seen[c] BY <1>6, <3>2, <4>1
      <4> QED BY <1>7, <4>1, <4>2 DEF AsBefore
    <3> QED BY <3>1, <3>2
  <2>3. \A c \in Scope \ Read(r)' : bound'[c] = req'[r].was[c]
    BY <1>2, <1>3, <1>5, <1>7 DEF AsBefore
  <2> QED BY <2>2, <2>3 DEF AsBefore
<1>8. AsNow(r) => AsNow(r)'
  BY <1>1, <1>2, <1>3, <1>5, <1>6 DEF AsNow
<1> QED BY <1>2, <1>3, <1>7, <1>8 DEF Fresh

\* The first edit leaves what was read as it was, or what is read as it is.
LEMMA FreshAfterEdit ==
  ASSUME TypeOK, NEW r \in Request, Fresh(r), req'[r] = req[r], edits' = edits + 1,
         \/ UNCHANGED bound
         \/ /\ UNCHANGED policy
            /\ \E s \in Scope : \A c \in Scope \ {s} : bound'[c] = bound[c]
  PROVE  Fresh(r)'
<1>1. edits \in Nat /\ req[r].since \in Nat
  BY VersionGovernanceAssumption DEF TypeOK, Req
<1>2. Read(r)' = Read(r) /\ Read(r) \subseteq Scope BY DEF Read, Scope, Scopes
<1>3. ASSUME edits' = req'[r].since + 1 PROVE AsBefore(r)' \/ AsNow(r)'
  <2>1. AsNow(r) /\ bound = req[r].was BY <1>1, <1>3 DEF Fresh
  <2>2. CASE UNCHANGED bound BY <1>2, <2>1, <2>2 DEF AsBefore, AsNow
  <2>3. ASSUME UNCHANGED policy, NEW s \in Scope,
               \A c \in Scope \ {s} : bound'[c] = bound[c]
        PROVE  AsBefore(r)' \/ AsNow(r)'
    <3>1. CASE s \in Read(r) BY <1>2, <2>1, <2>3, <3>1 DEF AsBefore, AsNow
    <3>2. CASE s \notin Read(r) BY <1>2, <2>1, <2>3, <3>2 DEF AsNow
    <3> QED BY <3>1, <3>2
  <2> QED BY <2>2, <2>3
<1>4. req'[r].since <= edits' /\ edits' # req'[r].since BY <1>1 DEF Fresh
<1> QED BY <1>3, <1>4 DEF Fresh

LEMMA ResolvingKept == ASSUME TypeOK, Resolving, [Next]_vars PROVE Resolving'
<1> SUFFICES ASSUME NEW r \in Request, req'[r].at \in Fetching PROVE Fresh(r)'
  BY DEF Resolving, Fetching, Scope, Scopes
<1>1. CASE req'[r] = req[r]
  <2>1. Fresh(r) BY <1>1 DEF Resolving
  <2>2. CASE UNCHANGED <<policy, bound, edits>>
    <3>1. Read(r)' = Read(r) BY <1>1 DEF Read, Scope, Scopes
    <3> QED BY <1>1, <2>1, <2>2, <3>1 DEF Fresh, AsBefore, AsNow, Scope, Scopes
  <2> QED BY <1>1, <2>1, <2>2, EditSteps, FreshAfterEdit
<1>2. CASE Begins(r) /\ req'[r].at = "artifact" BY <1>2, FreshWhenBegun
<1>3. CASE ReadScope(r)
  <2>1. req[r].at \in Fetching BY <1>3 DEF ReadScope, Fetching
  <2> QED BY <1>3, <2>1, FreshAfterRead DEF Resolving
<1> QED BY <1>1, <1>2, <1>3, Fetches

LEMMA FetchedKept == ASSUME Locks, Fetched, [Next]_vars PROVE Fetched'
<1>0. TypeOK BY DEF Locks
<1>1. Approved \subseteq Approved' BY ApprovedStay
<1>2. Scope = {"artifact", "namespace", "team", "global"} BY DEF Scope, Scopes
<1> SUFFICES ASSUME NEW r \in Request, req'[r].at \in Fetching PROVE req'[r].ver \in Approved
  BY <1>1 DEF Fetched, Fetching, Scope, Scopes
<1>3. Handled(r) BY <1>0, EveryRequestIsHandled
<1>4. CASE Begins(r) BY <1>2, <1>4 DEF Begins, Fetching, Approved
<1>5. CASE ~Begins(r)
  <2>1. req'[r].ver = req[r].ver /\ req[r].at \in Fetching
    BY <1>2, <1>3, <1>5 DEF Handled, Moved, From, Fetching
  <2> QED BY <2>1 DEF Fetched
<1> QED BY <1>4, <1>5

LEMMA VettedKept == ASSUME Vetted, [Next]_vars PROVE Vetted'
<1>1. TypeOK /\ Locks BY DEF Vetted, Evidence, Locks
<1> QED BY <1>1, EvidenceKept, EvidenceGrows, FetchedKept, ResolvingKept DEF Vetted

\* What has been read of the scopes is what one policy in force resolved to.
LEMMA SeenInForce ==
  ASSUME TypeOK, NEW r \in Request, req[r].at = "evidence", Fresh(r),
         edits - req[r].since <= 1
  PROVE  EffectivePolicy(req[r].policy, req[r].seen) \in InForce(r)
<1>1. /\ edits \in Nat /\ req[r].since \in Nat /\ req[r] \in Req
      /\ bound \in [Scope -> SUBSET Template]
  BY VersionGovernanceAssumption DEF TypeOK, Req
<1>2. req[r].seen \in [Scope -> SUBSET Template] /\ req[r].was \in [Scope -> SUBSET Template]
  BY <1>1 DEF Req
<1>3. Read(r) = Scope BY DEF Read
<1>4. edits = req[r].since \/ edits = req[r].since + 1 BY <1>1 DEF Fresh
<1>5. AsBefore(r) \/ AsNow(r) BY <1>4 DEF Fresh
<1>6. CASE AsBefore(r)
  <2>1. req[r].seen = req[r].was BY <1>2, <1>3, <1>6 DEF AsBefore
  <2> QED BY <2>1 DEF InForce
<1>7. CASE AsNow(r)
  <2>1. req[r].seen = bound /\ req[r].policy = policy BY <1>1, <1>2, <1>3, <1>7 DEF AsNow
  <2> QED BY <2>1 DEF InForce
<1> QED BY <1>5, <1>6, <1>7

\* What an evaluation let through has what the policy demands at level block.
LEMMA EvaluatedIsAttested ==
  ASSUME RunsInv, ScansReported, NEW p, NEW v \in Version, MeetsRuns(p, v), MeetsGrade(p, v)
  PROVE  Attested(p, v)
<1>1. Passes(p, v) BY RunsPass
<1>2. p.rules["requiredScanGrade"] # None =>
        \E s \in graded : s[1] = v /\ s[2] <= p.rules["requiredScanGrade"]
  <2> SUFFICES ASSUME p.rules["requiredScanGrade"] # None
               PROVE  \E s \in graded : s[1] = v /\ s[2] <= p.rules["requiredScanGrade"]
    OBVIOUS
  <2>1. PICK g \in Grades(v) : g <= p.rules["requiredScanGrade"] BY DEF MeetsGrade
  <2>2. <<v, g>> \in graded BY DEF ScansReported
  <2> QED BY <2>1, <2>2
<1> QED BY <1>1, <1>2 DEF Attested, Passes

LEMMA EvaluationsVet ==
  ASSUME Vetted, [Next]_vars, NEW r \in Request, req[r].at = "evidence", req'[r].at = "log"
  PROVE  /\ req[r].ver \in Approved
         /\ edits - req[r].since <= 1 =>
              \E p \in InForce(r) : p.level = "block" => Attested(p, req[r].ver)
<1> DEFINE p == EffectivePolicy(req[r].policy, req[r].seen)
           v == req[r].ver
<1>0. TypeOK /\ RunsInv /\ ScansReported BY DEF Vetted, Evidence, Locks
<1>1. v \in Approved /\ v \in Version BY DEF Vetted, Fetched, Fetching, Approved
<1>2. EvaluateDownload(r)
  <2>1. Handled(r) BY <1>0, EveryRequestIsHandled
  <2> QED BY <2>1 DEF Handled, Begins, Moved, From
<1>3. p.level = "block" => MeetsRuns(p, v) /\ MeetsGrade(p, v)
  <2>1. ~Answer(r) BY <1>0, AnswerIdle
  <2> QED BY <1>2, <2>1 DEF EvaluateDownload
<1>4. Fresh(r) BY DEF Vetted, Resolving, Fetching
<1> HIDE DEF p
<1>5. p.level = "block" => Attested(p, v) BY <1>0, <1>1, <1>3, EvaluatedIsAttested
<1>6. edits - req[r].since <= 1 => p \in InForce(r)
  BY <1>0, <1>4, SeenInForce DEF p
<1> QED BY <1>1, <1>5, <1>6

\* What is downloaded is approved and has the runs and the scan grade that a
\* policy in force during the download demands at level block, although
\* version, bindings and evidence are read in statements of their own, as
\* long as no more than one edit comes between.
THEOREM DownloadsAreVetted == Spec => ServedIsVetted
<1> DEFINE A == \A r \in Request : req[r].at = "evidence" /\ req'[r].at = "log" =>
       /\ req[r].ver \in Approved
       /\ edits - req[r].since <= 1 =>
            \E p \in InForce(r) : p.level = "block" => Attested(p, req[r].ver)
<1>1. Init => Vetted
  <2>1. Init => Evidence BY EvidenceInit
  <2>2. Init => ScansReported BY DEF Init, ScansReported, Grades
  <2>3. "idle" \notin Fetching BY DEF Fetching, Scope, Scopes
  <2> QED BY <2>1, <2>2, <2>3, InitIdle DEF Vetted, Fetched, Resolving
<1>2. Vetted /\ [Next]_vars => Vetted' BY VettedKept
<1>3. Vetted /\ [Next]_vars => A BY EvaluationsVet
<1>4. Vetted /\ [Next]_vars => [A]_vars BY <1>3
<1> QED BY <1>1, <1>2, <1>4, PTL DEF Spec, ServedIsVetted

----------------------------------------------------------------------------
(* Who approved                                                            *)

\* Every policy there can be forbids approving one's own version.
NoSelf == \A q \in Policies : q.rules["preventSelfApproval"] # FALSE

\* What a person's request has established at each of its steps.
Established(r) ==
  LET p == req[r].policy
      v == req[r].ver
  IN
  /\ req[r].at \in Approving \cup {"runs"} => p \in Policies \cup {NoPolicy}
  /\ req[r].at \in Approving \ {"scans"} /\ NoSelf => ver[v].publisher # req[r].by
  /\ req[r].at = "count" => req[r].by \in approvals[v]
  /\ req[r].at \in {"lock", "clear", "commit"} /\ MinApprovers(p) > 1 =>
       req[r].by \in approvals[v] /\ Cardinality(approvals[v]) >= MinApprovers(p)
Counted == \A r \in Request : req[r].by \in User => Established(r)

\* The publisher does not sign, and nobody signs what is not there.
Signed ==
  \A v \in Version : /\ NoSelf => ver[v].publisher \notin approvals[v]
                     /\ ver[v].status = "absent" => approvals[v] = {}
Approvals == Locks /\ Pushed /\ Counted /\ Signed /\ EnoughApprovers

LEMMA MinApproversType ==
  ASSUME NEW p \in Policy PROVE MinApprovers(p) \in Nat
BY DEF MinApprovers, Policy

LEMMA ApprovalsFinite ==
  ASSUME TypeOK, NEW v \in Version PROVE Cardinality(approvals[v]) \in Nat
<1>1. IsFiniteSet(approvals[v])
  BY FS_Subset, VersionGovernanceAssumption DEF TypeOK
<1> QED BY <1>1, FS_CardinalityType

\* Approvals are only added, so their number does not fall.
LEMMA ApprovalsGrow ==
  ASSUME TypeOK, [Next]_vars, NEW v \in Version
  PROVE  /\ approvals[v] \subseteq approvals'[v]
         /\ Cardinality(approvals[v]) \in Nat /\ Cardinality(approvals'[v]) \in Nat
         /\ Cardinality(approvals[v]) <= Cardinality(approvals'[v])
<1>1. approvals[v] \subseteq approvals'[v]
  BY TablesGrow DEF RecordApproval, TypeOK
<1>2. TypeOK' BY NextType
<1>3. IsFiniteSet(approvals'[v])
  <2>1. approvals'[v] \subseteq User BY <1>2 DEF TypeOK
  <2> QED BY <2>1, FS_Subset, VersionGovernanceAssumption
<1>4. Cardinality(approvals[v]) \in Nat BY ApprovalsFinite
<1>5. Cardinality(approvals'[v]) \in Nat BY <1>3, FS_CardinalityType
<1>6. Cardinality(approvals[v]) <= Cardinality(approvals'[v])
  BY <1>1, <1>3, FS_Subset
<1> QED BY <1>1, <1>4, <1>5, <1>6

LEMMA ForbidsSelf ==
  ASSUME NoSelf, NEW p \in Policies \cup {NoPolicy}
  PROVE  p.rules["preventSelfApproval"] # FALSE
<1>1. CASE p \in Policies BY <1>1 DEF NoSelf
<1>2. CASE p = NoPolicy
  <2>1. p.rules["preventSelfApproval"] = None BY <1>2 DEF NoPolicy, Rule, Flag
  <2> QED BY <2>1, PolicyAssumption
<1> QED BY <1>1, <1>2

\* A request records its own approver under its own version.
LEMMA RecordAdds ==
  ASSUME TypeOK, NEW r \in Request, RecordApproval(r)
  PROVE  /\ req[r].at = "record" /\ req[r].by \in User /\ req[r].ver \in Version
         /\ approvals' = [approvals EXCEPT
                            ![req[r].ver] = approvals[req[r].ver] \cup {req[r].by}]
         /\ UNCHANGED ver
BY DEF RecordApproval, TypeOK

LEMMA SignedKept == ASSUME Approvals, [Next]_vars PROVE Signed'
<1>0. TypeOK /\ Locks BY DEF Approvals, Locks
<1> SUFFICES ASSUME NEW v \in Version
             PROVE  /\ NoSelf => ver'[v].publisher \notin approvals'[v]
                    /\ ver'[v].status = "absent" => approvals'[v] = {}
  BY DEF Signed, NoSelf
<1>1. Signed BY DEF Approvals
<1>2. ASSUME NEW r \in Request, RecordApproval(r)
      PROVE  /\ NoSelf => ver'[v].publisher \notin approvals'[v]
             /\ ver'[v].status = "absent" => approvals'[v] = {}
  <2>1. /\ req[r].at = "record" /\ req[r].by \in User /\ req[r].ver \in Version
        /\ approvals' = [approvals EXCEPT
                            ![req[r].ver] = approvals[req[r].ver] \cup {req[r].by}]
        /\ UNCHANGED ver
    BY <1>0, <1>2, RecordAdds
  <2>2. CASE v # req[r].ver
    <3>1. approvals'[v] = approvals[v] BY <1>0, <2>1, <2>2 DEF TypeOK
    <3> QED BY <1>1, <2>1, <3>1 DEF Signed
  <2>3. CASE v = req[r].ver
    <3>1. approvals'[v] = approvals[v] \cup {req[r].by}
      BY <1>0, <2>1, <2>3 DEF TypeOK
    <3>2. NoSelf => ver[v].publisher # req[r].by
      BY <2>1, <2>3 DEF Approvals, Counted, Established, Approving
    <3>3. ver[v].status # "absent" BY <1>0, <2>1, <2>3 DEF Locks, Existing
    <3> QED BY <1>1, <2>1, <3>1, <3>2, <3>3 DEF Signed
  <2> QED BY <2>2, <2>3
<1>3. CASE UNCHANGED approvals
  <2>1. CASE ver[v].status = "absent"
    BY <1>1, <1>3, <2>1 DEF Signed
  <2>2. CASE ver[v].status # "absent"
    BY <1>0, <1>1, <1>3, <2>2, StatusForward DEF Forward, Signed
  <2> QED BY <2>1, <2>2
<1> QED BY <1>0, <1>2, <1>3, TablesGrow

LEMMA CountedKept == ASSUME Approvals, [Next]_vars PROVE Counted'
<1>0. TypeOK /\ Locks /\ Pushed BY DEF Approvals, Locks
<1>1. Scope = {"artifact", "namespace", "team", "global"} /\ "system" \notin User
  BY VersionGovernanceAssumption DEF Scope, Scopes
<1> SUFFICES ASSUME NEW r \in Request, req'[r].by \in User PROVE Established(r)'
  BY DEF Counted
<1> DEFINE p == req'[r].policy
           v == req'[r].ver
<1>2. Handled(r) BY <1>0, EveryRequestIsHandled
<1>3. TypeOK' BY <1>0, NextType
<1>4. CASE req'[r].at \notin Approving \cup {"runs"}
  BY <1>4 DEF Established, Approving
<1>5. CASE Begins(r)
  <2>1. policy \in Policies \cup {NoPolicy} BY <1>0 DEF TypeOK
  <2> QED BY <1>5, <2>1 DEF Begins, Established, Approving
<1>6. CASE req'[r].at \in Approving \cup {"runs"} /\ ~Begins(r)
  <2>1. /\ req[r].ver = v /\ req[r].by = req'[r].by /\ req[r].policy = p
        /\ req[r].at \in Approving \cup {"runs", "latest"}
    BY <1>1, <1>2, <1>6 DEF Handled, Moved, From, Approving
  <2>2. req[r].at # "latest" BY <1>0, <1>1, <2>1 DEF Pushed
  <2>3. v \in Version /\ Established(r) /\ p \in Policy
    BY <1>0, <2>1, <2>2 DEF TypeOK, Approvals, Counted, Req, Approving
  <2>4. MinApprovers(p) \in Nat BY <2>3, MinApproversType
  <2>5. /\ approvals[v] \subseteq approvals'[v]
        /\ Cardinality(approvals[v]) \in Nat /\ Cardinality(approvals'[v]) \in Nat
        /\ Cardinality(approvals[v]) <= Cardinality(approvals'[v])
    BY <1>0, <2>3, ApprovalsGrow
  <2>6. p \in Policies \cup {NoPolicy}
    BY <2>1, <2>2, <2>3 DEF Established, Approving
  <2>7. ver'[v].publisher = ver[v].publisher
    <3>1. ver[v].status # "absent"
      BY <1>0, <2>1, <2>2 DEF Locks, Existing, Approving
    <3> QED BY <1>0, <2>3, <3>1, StatusForward DEF Forward
  <2>8. req'[r].at \in Approving \ {"scans"} /\ NoSelf => ver'[v].publisher # req'[r].by
    <3>1. CASE req[r].at \in Approving \ {"scans"}
      BY <2>1, <2>3, <2>7, <3>1 DEF Established
    <3>2. CASE From(r, "scans", "record") \/ From(r, "scans", "lock")
      <4>1. ~(ver[v].publisher = req[r].by /\ p.rules["preventSelfApproval"] # FALSE)
        BY <1>1, <1>2, <1>6, <2>1, <3>2 DEF Handled, Moved, From
      <4> QED BY <2>1, <2>6, <2>7, <4>1, ForbidsSelf
    <3> QED BY <1>1, <1>2, <1>6, <2>1, <2>2, <3>1, <3>2 DEF Handled, Moved, From, Approving
  <2>9. req'[r].at = "count" => req'[r].by \in approvals'[v]
    <3>1. CASE req[r].at = "count" BY <2>1, <2>3, <2>5, <3>1 DEF Established
    <3>2. CASE RecordApproval(r)
      BY <1>0, <2>1, <2>3, <3>2, RecordAdds DEF TypeOK
    <3> QED BY <1>1, <1>2, <1>6, <2>1, <3>1, <3>2 DEF Handled, Moved, From
  <2>10. req'[r].at \in {"lock", "clear", "commit"} /\ MinApprovers(p) > 1 =>
           req'[r].by \in approvals'[v] /\ Cardinality(approvals'[v]) >= MinApprovers(p)
    <3>1. CASE req[r].at \in {"lock", "clear", "commit"}
      BY <2>1, <2>3, <2>4, <2>5, <3>1 DEF Established
    <3>2. CASE From(r, "scans", "lock")
      BY <1>1, <1>2, <2>1, <3>2 DEF Handled, Moved, From, Begins
    <3>3. CASE From(r, "count", "lock")
      <4>1. ~(Cardinality(approvals[v]) < MinApprovers(p))
        BY <1>1, <1>2, <2>1, <3>3 DEF Handled, Moved, From, Begins
      <4>2. req[r].by \in approvals[v] BY <2>1, <2>3, <3>3 DEF Established, From
      <4> QED BY <2>1, <2>4, <2>5, <4>1, <4>2
    <3> QED
      BY <1>1, <1>2, <1>6, <2>1, <2>2, <3>1, <3>2, <3>3 DEF Handled, Moved, From, Approving
  <2> QED BY <2>6, <2>8, <2>9, <2>10 DEF Established
<1> QED BY <1>4, <1>5, <1>6

LEMMA EnoughKept == ASSUME Approvals, [Next]_vars PROVE EnoughApprovers'
<1>0. TypeOK /\ Locks BY DEF Approvals, Locks
<1> SUFFICES ASSUME NEW v \in Version, ver'[v].status = "approved", ver'[v].by \in User
             PROVE  /\ MinApprovers(under'[v]) > 1 =>
                         /\ ver'[v].by \in approvals'[v]
                         /\ Cardinality(approvals'[v]) >= MinApprovers(under'[v])
                    /\ NoSelf => ver'[v].publisher \notin {ver'[v].by} \cup approvals'[v]
  BY DEF EnoughApprovers, Approved, NoSelf, MinApprovers
<1>1. Signed' BY SignedKept
<1>2. NoSelf => ver'[v].publisher \notin approvals'[v] BY <1>1 DEF Signed, NoSelf
<1>3. /\ approvals[v] \subseteq approvals'[v]
      /\ Cardinality(approvals[v]) \in Nat /\ Cardinality(approvals'[v]) \in Nat
      /\ Cardinality(approvals[v]) <= Cardinality(approvals'[v])
  BY <1>0, ApprovalsGrow
<1>4. CASE ver[v].status = "approved" /\ under'[v] = under[v]
  <2>1. ver'[v].by = ver[v].by /\ ver'[v].publisher = ver[v].publisher
    BY <1>0, <1>4, StatusForward DEF Forward
  <2>2. MinApprovers(under[v]) \in Nat
    <3>1. under[v] \in Policy BY <1>0 DEF TypeOK
    <3> QED BY <3>1, MinApproversType
  <2>3. /\ MinApprovers(under[v]) > 1 =>
             ver[v].by \in approvals[v] /\ Cardinality(approvals[v]) >= MinApprovers(under[v])
        /\ NoSelf => ver[v].publisher # ver[v].by
    BY <1>4, <2>1 DEF Approvals, EnoughApprovers, Approved, NoSelf
  <2> QED BY <1>2, <1>3, <1>4, <2>1, <2>2, <2>3
<1>5. CASE (\A w \in Version : Evolves(w)) /\ UNCHANGED under
  <2>1. ver[v].status = "approved" BY <1>5 DEF Evolves
  <2> QED BY <1>4, <1>5, <2>1
<1>6. ASSUME NEW r \in Request, Commits(r), v = req[r].ver
      PROVE  /\ MinApprovers(under'[v]) > 1 =>
                         /\ ver'[v].by \in approvals'[v]
                         /\ Cardinality(approvals'[v]) >= MinApprovers(under'[v])
             /\ NoSelf => ver'[v].publisher # ver'[v].by
  <2>1. /\ under'[v] = req[r].policy /\ req[r].by = ver'[v].by /\ req[r].at = "commit"
        /\ ver'[v].publisher = ver[v].publisher /\ approvals' = approvals
    BY <1>0, <1>6 DEF Commits, TypeOK
  <2>2. Established(r) BY <2>1 DEF Approvals, Counted
  <2> QED BY <1>6, <2>1, <2>2 DEF Established, Approving
<1>7. ASSUME NEW r \in Request, Commits(r), v # req[r].ver
      PROVE  ver[v].status = "approved" /\ under'[v] = under[v]
  BY <1>0, <1>7 DEF Commits, TypeOK
<1> QED BY <1>0, <1>2, <1>4, <1>5, <1>6, <1>7, TablesGrow

\* A version a person approved has as many different approvers as its policy
\* asks for, the last of them included, and never its publisher where no
\* policy allows it, however approvals and pushed tags interleave.
THEOREM ApprovalsAreEnough == Spec => []EnoughApprovers
<1>1. Init => Approvals
  <2>1. Init => \A v \in Version : ver[v].status = "absent" /\ approvals[v] = {}
    BY DEF Init, Absent
  <2>2. Init => \A r \in Request : Established(r)
    BY InitIdle DEF Established, Approving
  <2> QED BY <2>1, <2>2, LocksInit, InitIdle
      DEF Approvals, Pushed, Counted, Signed, EnoughApprovers, Approved
<1>2. Approvals /\ [Next]_vars => Approvals'
  BY LocksKept, PushedKept, CountedKept, SignedKept, EnoughKept DEF Approvals, Locks
<1>3. Approvals => EnoughApprovers BY DEF Approvals
<1> QED BY <1>1, <1>2, <1>3, PTL DEF Spec

----------------------------------------------------------------------------
(* What policies come to                                                   *)

\* A finite set of integers has a greatest element: a smallest subset without
\* one would have one as soon as any element is taken away.
LEMMA MaxIsGreatest ==
  ASSUME NEW S \in SUBSET Int, IsFiniteSet(S), S # {}
  PROVE  Max(S) \in S /\ \A y \in S : y <= Max(S)
<1> DEFINE Tops(T) == {x \in T : \A y \in T : x >= y}
           topless == {T \in SUBSET S : T # {} /\ Tops(T) = {}}
<1>1. topless = {}
  <2> SUFFICES ASSUME topless # {} PROVE FALSE OBVIOUS
  <2>1. IsWellFoundedOn(StrictSubsetOrdering(S), SUBSET S)
    BY FS_StrictSubsetOrderingWellFounded, FS_FiniteSubsetsOfFinite
  <2>2. topless \subseteq SUBSET S OBVIOUS
  <2>3. PICK T \in topless : \A U \in topless : <<U, T>> \notin StrictSubsetOrdering(S)
    <3> HIDE DEF topless
    <3> QED BY <2>1, <2>2, WFMin
  <2>4. T \in SUBSET S /\ T # {} /\ Tops(T) = {} BY <2>3
  <2>5. PICK x \in T : TRUE BY <2>4
  <2> DEFINE U == T \ {x}
  <2>6. U # {}
    <3> SUFFICES ASSUME T = {x} PROVE FALSE BY <2>5
    <3>1. x \in Tops(T) BY <2>4
    <3> QED BY <2>4, <3>1
  <2>7. U \notin topless
    <3>1. <<U, T>> \in StrictSubsetOrdering(S) BY <2>4, <2>5 DEF StrictSubsetOrdering
    <3> QED BY <2>3, <3>1
  <2>8. PICK m \in U : \A y \in U : m >= y BY <2>4, <2>6, <2>7
  <2>9. m \in Tops(T) \/ x \in Tops(T)
    <3>1. m \in Int /\ x \in Int /\ T \subseteq Int BY <2>4, <2>5, <2>8
    <3>2. CASE m >= x BY <2>5, <2>8, <3>1, <3>2
    <3>3. CASE x > m
      <4>1. \A y \in T : x >= y BY <2>8, <3>1, <3>3
      <4> QED BY <2>5, <4>1
    <3> QED BY <3>1, <3>2, <3>3
  <2> QED BY <2>4, <2>9
<1>2. \E x \in S : \A y \in S : x >= y BY <1>1
<1> QED BY <1>2 DEF Max

LEMMA MinIsLeast ==
  ASSUME NEW S \in SUBSET (0 .. 4), S # {}
  PROVE  Min(S) \in S /\ \A y \in S : Min(S) <= y
<1>1. \A y \in S : y \in {0, 1, 2, 3, 4} OBVIOUS
<1>2. \E x \in S : \A y \in S : x <= y
  <2>1. CASE 0 \in S BY <1>1, <2>1
  <2>2. CASE 0 \notin S /\ 1 \in S BY <1>1, <2>2
  <2>3. CASE 0 \notin S /\ 1 \notin S /\ 2 \in S BY <1>1, <2>3
  <2>4. CASE 0 \notin S /\ 1 \notin S /\ 2 \notin S /\ 3 \in S BY <1>1, <2>4
  <2>5. CASE 0 \notin S /\ 1 \notin S /\ 2 \notin S /\ 3 \notin S
    <3>1. \A y \in S : y = 4 BY <1>1, <2>5
    <3>2. 4 \in S BY <3>1
    <3> QED BY <3>1, <3>2
  <2> QED BY <2>1, <2>2, <2>3, <2>4, <2>5
<1> QED BY <1>2 DEF Min

\* No scope before the first one that is chosen is.
LEMMA FirstScope ==
  ASSUME NEW chosen \in SUBSET Scope, chosen # {}
  PROVE  \E i \in 1 .. 4 : /\ FirstOf(Scopes, chosen) = Scopes[i] /\ Scopes[i] \in chosen
                           /\ \A j \in 1 .. 4 : j < i => Scopes[j] \notin chosen
<1> DEFINE I == {i \in DOMAIN Scopes : Scopes[i] \in chosen}
<1>1. DOMAIN Scopes = 1 .. 4 BY DEF Scopes
<1>2. I \in SUBSET (0 .. 4) /\ I # {} BY <1>1 DEF Scope
<1>3. Min(I) \in I /\ \A j \in I : Min(I) <= j
  <2> HIDE DEF I
  <2> QED BY <1>2, MinIsLeast
<1>4. FirstOf(Scopes, chosen) = Scopes[Min(I)] BY DEF FirstOf
<1>5. \A j \in 1 .. 4 : j < Min(I) => Scopes[j] \notin chosen BY <1>1, <1>2, <1>3
<1> QED BY <1>1, <1>3, <1>4, <1>5

LEMMA BlockIsFirst ==
  ASSUME NEW levels, "block" \in levels
  PROVE  FirstOf(Levels, levels) = "block"
<1> DEFINE I == {i \in DOMAIN Levels : Levels[i] \in levels}
<1>1. DOMAIN Levels = 1 .. 3 /\ Levels[1] = "block" BY DEF Levels
<1>2. I \in SUBSET (0 .. 4) /\ 1 \in I /\ 0 \notin I BY <1>1
<1>3. Min(I) \in I /\ Min(I) <= 1
  <2> HIDE DEF I
  <2> QED BY <1>2, MinIsLeast
<1>4. Min(I) = 1 BY <1>2, <1>3
<1> QED BY <1>1, <1>4 DEF FirstOf

\* Policies as they can be bound.
Configured(inline, binding) == inline \in Policy /\ binding \in [Scope -> SUBSET Template]

ValuesAt(inline, binding, s, r) == Values(r, PoliciesAt(inline, binding, s))
RuleAt(inline, binding, s, r) == MergeWithinScope(inline, binding, s)[r]

LEMMA PoliciesType ==
  ASSUME NEW inline, NEW binding, Configured(inline, binding), NEW s \in Scope
  PROVE  /\ PoliciesAt(inline, binding, s) \subseteq Policy
         /\ IsFiniteSet(Members(inline, binding, s))
         /\ IsFiniteSet(PoliciesAt(inline, binding, s))
<1> DEFINE members == Members(inline, binding, s)
           Of == [m \in members |-> PolicyOfMember(inline, m)]
<1>1. members \subseteq Template \cup {None} BY DEF Configured, Members
<1>2. IsFiniteSet(members)
  <2>1. IsFiniteSet(Template \cup {None})
    BY PolicyAssumption, FS_Singleton, FS_Union DEF PolicyAssumption
  <2> QED BY <1>1, <2>1, FS_Subset
<1>3. PoliciesAt(inline, binding, s) = {Of[m] : m \in members} BY DEF PoliciesAt
<1>4. \A m \in members : PolicyOfMember(inline, m) \in Policy
  BY <1>1, PolicyAssumption DEF Configured, PolicyOfMember, PolicyAssumption
<1>5. Of \in Surjection(members, {Of[m] : m \in members})
  <2> HIDE DEF members
  <2> QED BY DEF Surjection
<1>6. IsFiniteSet({Of[m] : m \in members})
  <2> HIDE DEF members, Of
  <2> QED BY <1>2, <1>5, FS_Surjection
<1> QED BY <1>2, <1>3, <1>4, <1>6

\* What one scope makes of the values its policies have for a rule: a single
\* policy is one that is the strictest, and several are merged to it.
LEMMA ScopeMerges ==
  ASSUME NEW inline, NEW binding, Configured(inline, binding), NEW s \in Scope, NEW r \in Rule
  PROVE  \/ ValuesAt(inline, binding, s, r) = {RuleAt(inline, binding, s, r)}
         \/ RuleAt(inline, binding, s, r) = Strictest(r, ValuesAt(inline, binding, s, r))
<1> DEFINE policies == PoliciesAt(inline, binding, s)
           members == Members(inline, binding, s)
           V == ValuesAt(inline, binding, s, r)
           R == RuleAt(inline, binding, s, r)
<1>1. V = {p.rules[r] : p \in policies} \ {None} BY DEF ValuesAt, Values
<1>2. CASE Cardinality(members) = 1
  <2>1. IsFiniteSet(members) BY PoliciesType
  <2>2. PICK m : members = {m}
    <3> HIDE DEF members
    <3> QED BY <1>2, <2>1, FS_Singleton
  <2> DEFINE p == PolicyOfMember(inline, m)
  <2>3. policies = {p} BY <2>2 DEF PoliciesAt
  <2>4. MergeWithinScope(inline, binding, s) = p.rules
    <3>1. MergeWithinScope(inline, binding, s) = (CHOOSE c \in policies : TRUE).rules
      BY <1>2 DEF MergeWithinScope
    <3>2. (CHOOSE c \in policies : TRUE) = p BY <2>3
    <3> QED BY <3>1, <3>2
  <2>5. R = p.rules[r] BY <2>4 DEF RuleAt
  <2>6. V = {R} \ {None} BY <1>1, <2>3, <2>5
  <2>7. V = {} => Strictest(r, V) = None BY DEF Strictest
  <2>8. R = None => R = Strictest(r, V)
    <3> HIDE DEF V, R
    <3> QED BY <2>6, <2>7
  <2>9. R # None => V = {R}
    <3> HIDE DEF V, R
    <3> QED BY <2>6
  <2> QED BY <2>8, <2>9
<1>3. CASE Cardinality(members) # 1
  <2>1. MergeWithinScope(inline, binding, s)
          = [c \in Rule |-> Strictest(c, Values(c, policies))]
    BY <1>3 DEF MergeWithinScope
  <2>2. R = Strictest(r, V) BY <2>1 DEF RuleAt, ValuesAt
  <2> QED BY <2>2
<1> QED BY <1>2, <1>3

LEMMA ValuesType ==
  ASSUME NEW inline, NEW binding, Configured(inline, binding), NEW s \in Scope
  PROVE  /\ \A r \in Rule : None \notin ValuesAt(inline, binding, s, r)
         /\ ValuesAt(inline, binding, s, "minApprovers") \subseteq Nat
         /\ \A r \in Rule : IsFiniteSet(ValuesAt(inline, binding, s, r))
         /\ ValuesAt(inline, binding, s, "requiredScanGrade") \subseteq 0 .. 4
<1> DEFINE policies == PoliciesAt(inline, binding, s)
<1>1. policies \subseteq Policy /\ IsFiniteSet(policies) BY PoliciesType
<1>2. \A r \in Rule : IsFiniteSet(ValuesAt(inline, binding, s, r))
  <2> SUFFICES ASSUME NEW r \in Rule PROVE IsFiniteSet(ValuesAt(inline, binding, s, r))
    OBVIOUS
  <2> DEFINE Of == [p \in policies |-> p.rules[r]]
             image == {p.rules[r] : p \in policies}
  <2>1. Of \in Surjection(policies, image)
    <3> HIDE DEF policies
    <3> QED BY DEF Surjection
  <2>2. IsFiniteSet(image)
    <3> HIDE DEF policies, Of, image
    <3> QED BY <1>1, <2>1, FS_Surjection
  <2>3. ValuesAt(inline, binding, s, r) \subseteq image BY DEF ValuesAt, Values
  <2> HIDE DEF image
  <2> QED BY <2>2, <2>3, FS_Subset
<1>3. \A p \in Policy : /\ p.rules["minApprovers"] \in Nat \cup {None}
                        /\ p.rules["requiredScanGrade"] \in (0 .. 4) \cup {None}
  BY DEF Policy
<1> HIDE DEF policies
<1>4. \A r \in Rule : ValuesAt(inline, binding, s, r) = {p.rules[r] : p \in policies} \ {None}
  BY DEF ValuesAt, Values, policies
<1>5. "minApprovers" \in Rule /\ "requiredScanGrade" \in Rule BY DEF Rule
<1> QED BY <1>1, <1>2, <1>3, <1>4, <1>5

\* Within a scope the value is the strictest. A flag that is only switched
\* off may be lost.
LEMMA StrictestWithinScope ==
  ASSUME NEW inline, NEW binding, Configured(inline, binding), NEW s \in Scope
  PROVE  /\ \A r \in Rule :
              ValuesAt(inline, binding, s, r) = {} => RuleAt(inline, binding, s, r) = None
         /\ \A n \in ValuesAt(inline, binding, s, "minApprovers") :
              /\ RuleAt(inline, binding, s, "minApprovers") \in Nat
              /\ n <= RuleAt(inline, binding, s, "minApprovers")
         /\ \A g \in ValuesAt(inline, binding, s, "requiredScanGrade") :
              /\ RuleAt(inline, binding, s, "requiredScanGrade") \in 0 .. 4
              /\ RuleAt(inline, binding, s, "requiredScanGrade") <= g
         /\ FALSE \in ValuesAt(inline, binding, s, "autoApprovePatches") =>
              RuleAt(inline, binding, s, "autoApprovePatches") = FALSE
         /\ \A r \in Flag \ {"autoApprovePatches"} :
              TRUE \in ValuesAt(inline, binding, s, r) <=> RuleAt(inline, binding, s, r) = TRUE
<1> DEFINE V(r) == ValuesAt(inline, binding, s, r)
           R(r) == RuleAt(inline, binding, s, r)
<1>0. None # TRUE /\ None # FALSE BY PolicyAssumption DEF PolicyAssumption
<1>1. \A r \in Rule : V(r) = {R(r)} \/ R(r) = Strictest(r, V(r)) BY ScopeMerges
<1>2. /\ \A r \in Rule : None \notin V(r) /\ IsFiniteSet(V(r))
      /\ V("minApprovers") \subseteq Nat /\ V("requiredScanGrade") \subseteq 0 .. 4
  BY ValuesType
<1>3. /\ "minApprovers" \in Rule /\ "requiredScanGrade" \in Rule
      /\ "autoApprovePatches" \in Rule /\ Flag \subseteq Rule
  BY DEF Rule, Flag
<1> HIDE DEF V, R
<1>4. ASSUME NEW r \in Rule, V(r) = {} PROVE R(r) = None
  BY <1>1, <1>4 DEF Strictest
<1>5. ASSUME NEW n \in V("minApprovers") PROVE R("minApprovers") \in Nat /\ n <= R("minApprovers")
  <2>1. CASE V("minApprovers") = {R("minApprovers")} BY <1>2, <2>1
  <2>2. CASE R("minApprovers") = Strictest("minApprovers", V("minApprovers"))
    <3>1. R("minApprovers") = Max(V("minApprovers")) BY <1>5, <2>2 DEF Strictest
    <3>2. V("minApprovers") \in SUBSET Int /\ IsFiniteSet(V("minApprovers")) /\ V("minApprovers") # {}
      BY <1>2, <1>3, <1>5
    <3>3. /\ Max(V("minApprovers")) \in V("minApprovers")
          /\ \A y \in V("minApprovers") : y <= Max(V("minApprovers"))
      BY <3>2, MaxIsGreatest
    <3> QED BY <1>2, <1>5, <3>1, <3>3
  <2> QED BY <1>1, <1>3, <2>1, <2>2
<1>6. ASSUME NEW g \in V("requiredScanGrade")
      PROVE  R("requiredScanGrade") \in 0 .. 4 /\ R("requiredScanGrade") <= g
  <2>1. CASE V("requiredScanGrade") = {R("requiredScanGrade")} BY <1>2, <1>6, <2>1
  <2>2. CASE R("requiredScanGrade") = Strictest("requiredScanGrade", V("requiredScanGrade"))
    <3>1. R("requiredScanGrade") = Min(V("requiredScanGrade")) BY <1>6, <2>2 DEF Strictest
    <3>2. V("requiredScanGrade") \in SUBSET (0 .. 4) /\ V("requiredScanGrade") # {}
      BY <1>2, <1>6
    <3>3. /\ Min(V("requiredScanGrade")) \in V("requiredScanGrade")
          /\ \A y \in V("requiredScanGrade") : Min(V("requiredScanGrade")) <= y
      BY <3>2, MinIsLeast
    <3> QED BY <1>2, <1>6, <3>1, <3>3
  <2> QED BY <1>1, <1>3, <2>1, <2>2
<1>7. ASSUME FALSE \in V("autoApprovePatches") PROVE R("autoApprovePatches") = FALSE
  <2>1. CASE V("autoApprovePatches") = {R("autoApprovePatches")} BY <1>7, <2>1
  <2>2. CASE R("autoApprovePatches") = Strictest("autoApprovePatches", V("autoApprovePatches"))
    <3>1. Strictest("autoApprovePatches", V("autoApprovePatches"))
            = (FALSE \notin V("autoApprovePatches"))
      BY <1>7 DEF Strictest
    <3> QED BY <1>7, <2>2, <3>1
  <2> QED BY <1>1, <1>3, <2>1, <2>2
<1>8. ASSUME NEW r \in Flag \ {"autoApprovePatches"} PROVE TRUE \in V(r) <=> R(r) = TRUE
  <2>1. CASE V(r) = {R(r)} BY <2>1
  <2>2. CASE R(r) = Strictest(r, V(r))
    <3>1. CASE V(r) = {} BY <1>0, <2>2, <3>1 DEF Strictest
    <3>2. CASE V(r) # {}
      <4>1. r # "minApprovers" /\ r # "requiredScanGrade" /\ r # "autoApprovePatches"
        BY DEF Flag
      <4>2. R(r) = IF TRUE \in V(r) THEN TRUE ELSE None
        BY <2>2, <3>2, <4>1 DEF Strictest
      <4> QED BY <1>0, <4>2
    <3> QED BY <3>1, <3>2
  <2> QED BY <1>1, <1>3, <2>1, <2>2
<1> QED BY <1>4, <1>5, <1>6, <1>7, <1>8 DEF V, R

\* The most specific scope that sets a rule decides.
LEMMA MostSpecificDecides ==
  ASSUME NEW inline, NEW binding, NEW r \in Rule, NEW i \in 1 .. 4,
         RuleAt(inline, binding, Scopes[i], r) # None,
         \A j \in 1 .. 4 : j < i => RuleAt(inline, binding, Scopes[j], r) = None
  PROVE  EffectivePolicy(inline, binding).rules[r] = RuleAt(inline, binding, Scopes[i], r)
<1> DEFINE merged == [s \in Scope |-> MergeWithinScope(inline, binding, s)]
           setting == {s \in Scope : merged[s][r] # None}
<1>1. \A s \in Scope : merged[s][r] = RuleAt(inline, binding, s, r) BY DEF RuleAt
<1>2. \A j \in 1 .. 4 : Scopes[j] \in Scope BY DEF Scope, Scopes
<1>3. EffectivePolicy(inline, binding).rules[r] =
        IF setting = {} THEN None ELSE merged[FirstOf(Scopes, setting)][r]
  BY DEF EffectivePolicy
<1>4. Scopes[i] \in setting BY <1>1, <1>2
<1> HIDE DEF merged
<1>5. PICK k \in 1 .. 4 : /\ FirstOf(Scopes, setting) = Scopes[k] /\ Scopes[k] \in setting
                          /\ \A j \in 1 .. 4 : j < k => Scopes[j] \notin setting
  <2>1. setting \in SUBSET Scope /\ setting # {} BY <1>4
  <2> HIDE DEF setting
  <2> QED BY <2>1, FirstScope
<1>6. ~(k < i) BY <1>1, <1>2, <1>5
<1>7. ~(i < k) BY <1>4, <1>5
<1>8. k = i BY <1>6, <1>7
<1> QED BY <1>1, <1>2, <1>3, <1>4, <1>5, <1>8

\* If that scope is also the most specific that defines the rule, what it
\* makes of its values is in force.
LEMMA DocumentedDecides ==
  ASSUME Configured(policy, bound), NEW r \in Rule, Documented(r) # {}
  PROVE  \E s \in Scope :
           /\ Documented(r) = ValuesAt(policy, bound, s, r)
           /\ RuleAt(policy, bound, s, r) # None =>
                EffectivePolicy(policy, bound).rules[r] = RuleAt(policy, bound, s, r)
<1> DEFINE defining == {s \in Scope : DefinedAt(s, r) # {}}
<1>1. \A s \in Scope : DefinedAt(s, r) = ValuesAt(policy, bound, s, r)
  BY DEF DefinedAt, ValuesAt
<1>2. defining # {} /\ Documented(r) = DefinedAt(FirstOf(Scopes, defining), r)
  BY DEF Documented
<1>3. PICK i \in 1 .. 4 : /\ FirstOf(Scopes, defining) = Scopes[i] /\ Scopes[i] \in defining
                          /\ \A j \in 1 .. 4 : j < i => Scopes[j] \notin defining
  <2>1. defining \in SUBSET Scope BY DEF defining
  <2> HIDE DEF defining
  <2> QED BY <1>2, <2>1, FirstScope
<1>4. \A j \in 1 .. 4 : Scopes[j] \in Scope BY DEF Scope, Scopes
<1>5. ASSUME NEW j \in 1 .. 4, j < i PROVE RuleAt(policy, bound, Scopes[j], r) = None
  <2>1. ValuesAt(policy, bound, Scopes[j], r) = {} BY <1>1, <1>3, <1>4, <1>5
  <2> QED BY <1>4, <2>1, StrictestWithinScope
<1>6. RuleAt(policy, bound, Scopes[i], r) # None =>
        EffectivePolicy(policy, bound).rules[r] = RuleAt(policy, bound, Scopes[i], r)
  BY <1>5, MostSpecificDecides
<1> QED BY <1>1, <1>2, <1>3, <1>4, <1>6

\* A requirement that is in force is one of some scope.
LEMMA InForceSomewhere ==
  ASSUME NEW inline, NEW binding, NEW r \in Rule,
         EffectivePolicy(inline, binding).rules[r] = TRUE
  PROVE  \E s \in Scope : RuleAt(inline, binding, s, r) = TRUE
<1> DEFINE merged == [s \in Scope |-> MergeWithinScope(inline, binding, s)]
           setting == {s \in Scope : merged[s][r] # None}
<1>1. \A s \in Scope : merged[s][r] = RuleAt(inline, binding, s, r) BY DEF RuleAt
<1>2. EffectivePolicy(inline, binding).rules[r] =
        IF setting = {} THEN None ELSE merged[FirstOf(Scopes, setting)][r]
  BY DEF EffectivePolicy
<1>3. None # TRUE BY PolicyAssumption DEF PolicyAssumption
<1>4. setting # {} BY <1>2, <1>3
<1>5. FirstOf(Scopes, setting) \in setting
  <2>1. setting \in SUBSET Scope OBVIOUS
  <2> HIDE DEF setting
  <2> QED BY <1>4, <2>1, FirstScope
<1> HIDE DEF merged
<1>6. FirstOf(Scopes, setting) \in Scope BY <1>5
<1> QED BY <1>1, <1>2, <1>4, <1>6

\* Whatever policies are bound to the four scopes, what they come to is never
\* weaker than the most specific scope that defines a rule has it, and blocks
\* if one of them does.
THEOREM PoliciesHold == Spec => []NeverWeaker
<1>1. TypeOK => NeverWeaker
  <2> SUFFICES ASSUME TypeOK PROVE NeverWeaker OBVIOUS
  <2> DEFINE e == EffectivePolicy(policy, bound)
             all == UNION {PoliciesAt(policy, bound, s) : s \in Scope}
  <2>1. Configured(policy, bound)
    BY NoPolicyType, VersionGovernanceAssumption
    DEF TypeOK, Configured, VersionGovernanceAssumption
  <2>2. /\ "minApprovers" \in Rule /\ "requiredScanGrade" \in Rule
        /\ "autoApprovePatches" \in Rule /\ Flag \subseteq Rule
    BY DEF Rule, Flag
  <2>3. None \notin Int /\ None # TRUE /\ None # FALSE
    BY PolicyAssumption DEF PolicyAssumption
  <2>4. ASSUME NEW n \in Documented("minApprovers") PROVE n <= e.rules["minApprovers"]
    <3>1. PICK s \in Scope :
            /\ Documented("minApprovers") = ValuesAt(policy, bound, s, "minApprovers")
            /\ RuleAt(policy, bound, s, "minApprovers") # None =>
                 e.rules["minApprovers"] = RuleAt(policy, bound, s, "minApprovers")
      BY <2>1, <2>2, <2>4, DocumentedDecides
    <3>2. /\ RuleAt(policy, bound, s, "minApprovers") \in Nat
          /\ n <= RuleAt(policy, bound, s, "minApprovers")
      BY <2>1, <2>4, <3>1, StrictestWithinScope
    <3> HIDE DEF e
    <3> QED BY <2>3, <3>1, <3>2
  <2>5. ASSUME NEW g \in Documented("requiredScanGrade")
        PROVE  e.rules["requiredScanGrade"] <= g
    <3>1. PICK s \in Scope :
            /\ Documented("requiredScanGrade") = ValuesAt(policy, bound, s, "requiredScanGrade")
            /\ RuleAt(policy, bound, s, "requiredScanGrade") # None =>
                 e.rules["requiredScanGrade"] = RuleAt(policy, bound, s, "requiredScanGrade")
      BY <2>1, <2>2, <2>5, DocumentedDecides
    <3>2. /\ RuleAt(policy, bound, s, "requiredScanGrade") \in 0 .. 4
          /\ RuleAt(policy, bound, s, "requiredScanGrade") <= g
      BY <2>1, <2>5, <3>1, StrictestWithinScope
    <3> HIDE DEF e
    <3> QED BY <2>3, <3>1, <3>2
  <2>6. ASSUME FALSE \in Documented("autoApprovePatches")
        PROVE  e.rules["autoApprovePatches"] = FALSE
    <3>1. PICK s \in Scope :
            /\ Documented("autoApprovePatches") = ValuesAt(policy, bound, s, "autoApprovePatches")
            /\ RuleAt(policy, bound, s, "autoApprovePatches") # None =>
                 e.rules["autoApprovePatches"] = RuleAt(policy, bound, s, "autoApprovePatches")
      BY <2>1, <2>2, <2>6, DocumentedDecides
    <3>2. RuleAt(policy, bound, s, "autoApprovePatches") = FALSE
      BY <2>1, <2>6, <3>1, StrictestWithinScope
    <3> HIDE DEF e
    <3> QED BY <2>3, <3>1, <3>2
  <2>7. ASSUME NEW r \in Flag \ {"autoApprovePatches"}, TRUE \in Documented(r)
        PROVE  e.rules[r] = TRUE
    <3>1. PICK s \in Scope :
            /\ Documented(r) = ValuesAt(policy, bound, s, r)
            /\ RuleAt(policy, bound, s, r) # None => e.rules[r] = RuleAt(policy, bound, s, r)
      BY <2>1, <2>2, <2>7, DocumentedDecides
    <3>2. RuleAt(policy, bound, s, r) = TRUE
      BY <2>1, <2>7, <3>1, StrictestWithinScope
    <3> HIDE DEF e
    <3> QED BY <2>3, <3>1, <3>2
  <2>8. ASSUME NEW r \in Flag \ {"autoApprovePatches"}, e.rules[r] = TRUE
        PROVE  TRUE \in Values(r, all)
    <3>1. PICK s \in Scope : RuleAt(policy, bound, s, r) = TRUE
      BY <2>2, <2>8, InForceSomewhere
    <3>2. TRUE \in ValuesAt(policy, bound, s, r) BY <2>1, <3>1, StrictestWithinScope
    <3>3. PoliciesAt(policy, bound, s) \subseteq all OBVIOUS
    <3> HIDE DEF all
    <3> QED BY <3>2, <3>3 DEF ValuesAt, Values
  <2>9. ASSUME "block" \in {LevelOf(p) : p \in all} PROVE e.level = "block"
    BY <2>9, BlockIsFirst DEF EffectivePolicy
  <2> QED BY <2>4, <2>5, <2>6, <2>7, <2>8, <2>9 DEF NeverWeaker
<1> QED BY <1>1, TypeCorrect, PTL
=============================================================================
