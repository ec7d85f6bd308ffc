---------------------------- MODULE ArtifactRuns ----------------------------
(***************************************************************************)
(* The test, validate, plan and apply runs of one registry artifact        *)
(* (iac_runs). A byoc run is created queued with a callback token that the *)
(* CI job uses to report; a peaas run is created pending.                  *)
(*                                                                         *)
(* Every route reads the row, decides, and writes it in a later statement  *)
(* without looking again (updateRunStatus), so handlers interleave between *)
(* the two. The version of a run is the name the client gave.              *)
(***************************************************************************)
EXTENDS Integers, Sequences, FiniteSets

CONSTANTS
  Version,    \* versions of the artifact
  RunHandler, \* run requests that may be in flight together
  Operations, \* what runs are created for
  Modes,      \* "byoc", "peaas"
  Posts,      \* the statuses CI jobs post
  Page,       \* how many succeeded runs listRuns returns (50)
  MaxRuns     \* bound: runs ever created

ASSUME ArtifactRunsAssumption ==
  /\ Operations \subseteq {"test", "validate", "plan", "apply"}
  /\ Modes \subseteq {"byoc", "peaas"}
  /\ Posts \subseteq {"running", "succeeded", "failed"}
  /\ Page \in Nat \ {0} /\ MaxRuns \in Nat

VARIABLES
  iacRuns,  \* the rows, oldest first
  hand,     \* run requests between their read and their write
  passed    \* history: <<operation, version>> a CI job reported succeeded

runVars == <<iacRuns, hand, passed>>

RunStatus == {"pending", "queued", "running", "succeeded", "failed",
              "cancelled", "expired", "timed_out"}

IacRun == [operation : {"test", "validate", "plan", "apply"}, version : Version,
           mode : {"byoc", "peaas"}, status : RunStatus, token : BOOLEAN]

\* write: the row and the status to write; apply: the plan to apply.
Free == [does |-> "nothing", run |-> 0, status |-> "pending"]
Hand == [does : {"nothing", "write", "store", "apply"}, run : 0 .. MaxRuns,
         status : RunStatus]

RunsTypeOK ==
  /\ iacRuns \in Seq(IacRun) /\ Len(iacRuns) <= MaxRuns
  /\ hand \in [RunHandler -> Hand]
  /\ \A h \in RunHandler :
       hand[h].does # "nothing" => hand[h].run \in DOMAIN iacRuns
  /\ passed \subseteq {"test", "validate", "plan", "apply"} \X Version

RunsInit ==
  /\ iacRuns = <<>>
  /\ hand = [h \in RunHandler |-> Free]
  /\ passed = {}

----------------------------------------------------------------------------
(* Evidence *)

\* listRuns with status succeeded: one page, the newest runs first.
ListedSucceeded ==
  LET succeeded == {i \in DOMAIN iacRuns : iacRuns[i].status = "succeeded"} IN
  {i \in succeeded : Cardinality({j \in succeeded : j > i}) < Page}

\* Mutant of HasPassing: any version of the artifact will do.
HasPassingAny(operation, v) ==
  \E i \in ListedSucceeded : iacRuns[i].operation = operation

HasPassing(operation, v) ==
  \E i \in ListedSucceeded :
    iacRuns[i].operation = operation /\ iacRuns[i].version = v

----------------------------------------------------------------------------
(* Requests *)

NewRow(operation, v, mode, status, token) ==
  [operation |-> operation, version |-> v, mode |-> mode,
   status |-> status, token |-> token]

\* POST runs: insert the row; a byoc run of a repository then has its
\* pipeline generated and its row written once more.
CreateRun(h, operation, v, mode) ==
  /\ hand[h] = Free /\ Len(iacRuns) < MaxRuns
  /\ LET byoc == mode = "byoc" IN
     /\ iacRuns' = Append(iacRuns,
          NewRow(operation, v, mode, IF byoc THEN "queued" ELSE "pending", byoc))
     /\ hand' = IF byoc
                THEN [hand EXCEPT ![h] = [does |-> "store", run |-> Len(iacRuns) + 1,
                                          status |-> "queued"]]
                ELSE hand
  /\ UNCHANGED passed

\* The CI job knows the token once the creating request has answered.
Known(i) == \A h \in RunHandler : ~(hand[h].does = "store" /\ hand[h].run = i)

\* POST ci/runs/:runId/status: verifyCallbackToken, then write.
StatusCallback(h, i, status) ==
  /\ hand[h] = Free
  /\ iacRuns[i].token /\ Known(i)
  /\ iacRuns[i].status \notin {"cancelled", "expired", "timed_out"}
  /\ hand' = [hand EXCEPT ![h] = [does |-> "write", run |-> i, status |-> status]]
  /\ passed' = IF status = "succeeded"
               THEN passed \cup {<<iacRuns[i].operation, iacRuns[i].version>>}
               ELSE passed
  /\ UNCHANGED iacRuns

CancelRun(h, i) ==
  /\ hand[h] = Free
  /\ iacRuns[i].status \in {"pending", "queued", "running"}
  /\ hand' = [hand EXCEPT ![h] = [does |-> "write", run |-> i, status |-> "cancelled"]]
  /\ UNCHANGED <<iacRuns, passed>>

\* POST confirm: a succeeded plan gets an apply run, as often as asked.
ConfirmApply(h, i) ==
  /\ hand[h] = Free
  /\ iacRuns[i].operation = "plan" /\ iacRuns[i].status = "succeeded"
  /\ hand' = [hand EXCEPT ![h] = [does |-> "apply", run |-> i, status |-> "pending"]]
  /\ UNCHANGED <<iacRuns, passed>>

\* The apply run has the mode of its plan, but no token.
InsertApply(h) ==
  /\ hand[h].does = "apply" /\ Len(iacRuns) < MaxRuns
  /\ LET plan == iacRuns[hand[h].run] IN
     iacRuns' = Append(iacRuns,
                  NewRow("apply", plan.version, plan.mode, hand[h].status, FALSE))
  /\ hand' = [hand EXCEPT ![h] = Free]
  /\ UNCHANGED passed

UpdateRunStatus(h) ==
  /\ hand[h].does \in {"write", "store"}
  /\ iacRuns' = [iacRuns EXCEPT ![hand[h].run].status = hand[h].status]
  /\ hand' = [hand EXCEPT ![h] = Free]
  /\ UNCHANGED passed

\* The sweep: some of the succeeded plans are older than the timeout.
ExpireTimedOutPlans ==
  \E old \in SUBSET {i \in DOMAIN iacRuns :
                       iacRuns[i].operation = "plan" /\ iacRuns[i].status = "succeeded"} :
    /\ old # {}
    /\ iacRuns' = [i \in DOMAIN iacRuns |->
                     IF i \in old THEN [iacRuns[i] EXCEPT !.status = "expired"]
                     ELSE iacRuns[i]]
    /\ UNCHANGED <<hand, passed>>

DropRunRequests == hand' = [h \in RunHandler |-> Free] /\ UNCHANGED <<iacRuns, passed>>

RunsNext ==
  \/ \E h \in RunHandler :
       \/ \E o \in Operations, v \in Version, m \in Modes : CreateRun(h, o, v, m)
       \/ \E i \in DOMAIN iacRuns :
            \/ \E s \in Posts : StatusCallback(h, i, s)
            \/ CancelRun(h, i)
            \/ ConfirmApply(h, i)
       \/ InsertApply(h)
       \/ UpdateRunStatus(h)
  \/ ExpireTimedOutPlans

----------------------------------------------------------------------------
(* Properties *)

\* A run without a callback token never gets going: no peaas run and no
\* apply run of a confirmed plan leaves pending but to be cancelled, whatever
\* the requests in flight write.
TokenlessNeverStarts ==
  \A i \in DOMAIN iacRuns :
    ~iacRuns[i].token => iacRuns[i].status \in {"pending", "cancelled"}
=============================================================================
