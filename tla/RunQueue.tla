------------------------------ MODULE RunQueue ------------------------------
(***************************************************************************)
(* The module_runs table of the registry backend and everything that       *)
(* writes it while no dependency graph is involved: createModuleRun, the   *)
(* confirm / discard / cancel endpoints, the runners' callbacks, the       *)
(* RunDispatcher (poll, launch, crash recovery, sweep) and                 *)
(* dequeueNextModuleRun.                                                   *)
(*                                                                         *)
(* The backend is one Node process: a handler runs without interruption    *)
(* between two awaits and interleaves with every other handler at them.    *)
(* Every handler reads the row first, decides, and writes by id later      *)
(* without looking again, so a request in flight is modelled by what it    *)
(* has decided (job, make, poll, boot) and by the step it takes next.      *)
(* Only dequeueNextModuleRun is a transaction, hence one step.             *)
(*                                                                         *)
(* A lane is the (module, environment) pair the queue is scoped to.        *)
(***************************************************************************)
EXTENDS Integers, FiniteSets

CONSTANTS
  Lane,          \* the (module, environment) pairs
  Byoc,          \* lanes of projects whose execution_mode is byoc
  Routable,      \* lanes whose dispatch target resolves to a repository
  Creator,       \* createModuleRun calls that may be in flight together
  Worker,        \* HTTP requests that may be in flight together
  Poller,        \* polls of the dispatcher that may overlap
  Kinds,         \* the triggers of runs: manual, cascade, envroot
  Requests,      \* the requests on a run besides the status callback
  Faults,        \* how a repository_dispatch call may fail: refused, lost
  Patient,       \* runners await the answer of one post before the next
  MaxRuns,       \* bound: rows ever created
  MaxTokens,     \* bound: callback tokens ever issued for a run
  MaxConcurrent, \* config.maxConcurrentRuns
  MaxRestarts,   \* bound: restarts of the backend
  None           \* SQL NULL

ASSUME RunQueueAssumption ==
  /\ MaxRuns \in Nat /\ MaxTokens \in Nat /\ MaxConcurrent \in Nat
  /\ MaxRestarts \in Nat
  /\ Byoc \subseteq Lane /\ Routable \subseteq Lane
  /\ Kinds \subseteq {"manual", "cascade", "envroot"}
  /\ Requests \subseteq {"confirm", "discard", "cancel", "outputs"}
  /\ Faults \subseteq {"refused", "lost"}
  /\ Patient \in BOOLEAN
  /\ None \notin Int /\ None \notin Lane

Run   == 1..MaxRuns      \* row ids, in the order of created_at
Token == 1..MaxTokens

VARIABLES
  runs,      \* the module_runs table
  created,   \* how many rows have been inserted so far
  make,      \* createModuleRun calls in flight
  job,       \* HTTP requests in flight
  poll,      \* polls in flight
  boot,      \* RunDispatcher.start: crash recovery, then polling
  runner,    \* per token issued: the last status its holder posted
  restarts   \* restarts so far (only to bound them)

vars == <<runs, created, make, job, poll, boot, runner, restarts>>

----------------------------------------------------------------------------
(* The table.                                                              *)

Status == {"absent", "pending", "queued", "running", "planned", "confirmed",
           "succeeded", "failed", "cancelled", "timed_out", "discarded"}

\* getActiveModuleRun's statuses; 'applying' is never written by this code.
Active == {"running", "planned"}

\* Statuses on which verifyModuleRunCallbackToken rejects a callback.
Rejected == {"cancelled", "timed_out", "discarded"}

\* Statuses on which the cancel endpoint answers 400.
Finished == Rejected \cup {"succeeded", "failed"}

\* What a runner, or a CI job with a manual run's token, posts as a status.
Posted == {"running", "planned", "succeeded", "failed"}

NoRow == [lane |-> None, kind |-> None, status |-> "absent", pos |-> None,
          token |-> 0]

IsUser(r) == runs[r].kind # "cascade"

\* The rows of a lane with a queue position, whatever their status.
Waiting(l) == {r \in Run : runs[r].lane = l /\ runs[r].pos # None}

ActiveModuleRuns(l) == {r \in Run : runs[r].lane = l /\ runs[r].status \in Active}

\* listPendingModuleRuns, of both modes.
PendingModuleRuns(s) == {r \in Run : runs[r].status = s /\ runs[r].pos = None}

\* Mutant of UpdateModuleRunStatus: an upsert instead of an update.
UpsertModuleRunStatus(r, s) == [runs EXCEPT ![r].status = s]

\* UPDATE ... WHERE id: nothing happens to a row that was deleted.
UpdateModuleRunStatus(r, s) ==
  IF runs[r] = NoRow THEN runs ELSE [runs EXCEPT ![r].status = s]

\* Mutant of NotAfter: by position alone.
NotAfterByPosition(r, q) == runs[r].pos <= runs[q].pos

\* The ORDER BY of dequeueNextModuleRun.
NotAfter(r, q) ==
  \/ IsUser(r) /\ ~IsUser(q)
  \/ (IsUser(r) <=> IsUser(q)) /\ runs[r].pos <= runs[q].pos

Heads(l) == {r \in Waiting(l) : \A q \in Waiting(l) : NotAfter(r, q)}

\* The head becomes 'queued' whatever its status was; the others move up.
Promote(l, r) ==
  [q \in Run |->
     IF q = r THEN [runs[r] EXCEPT !.status = "queued", !.pos = None]
     ELSE IF q \in Waiting(l) THEN [runs[q] EXCEPT !.pos = @ - 1]
     ELSE runs[q]]

DequeueNextModuleRun(l) ==
  IF Waiting(l) = {} THEN UNCHANGED runs
  ELSE \E r \in Heads(l) : runs' = Promote(l, r)

----------------------------------------------------------------------------
(* createModuleRun: not a transaction, an await before each statement.     *)

IdleMake == [pc |-> "idle", lane |-> None, kind |-> None, pos |-> None]

\* Is a run of the lane active? Then this one will wait.
CreateModuleRun(c, l, k) ==
  /\ make[c].pc = "idle" /\ created < MaxRuns
  /\ make' = [make EXCEPT ![c] =
       [pc |-> IF ActiveModuleRuns(l) = {} THEN "insert"
               ELSE IF k = "cascade" THEN "evict" ELSE "position",
        lane |-> l, kind |-> k, pos |-> None]]
  /\ UNCHANGED <<runs, created, job, poll, boot, runner, restarts>>

\* Mutant of EvictCascades: the superseded cascades stay.
EvictNothing(c) ==
  /\ make[c].pc = "evict"
  /\ make' = [make EXCEPT ![c].pc = "position"]
  /\ UNCHANGED <<runs, created, job, poll, boot, runner, restarts>>

\* Latest wins: a cascade deletes the cascades that still wait.
EvictCascades(c) ==
  /\ make[c].pc = "evict"
  /\ runs' = [r \in Run |->
       IF r \in Waiting(make[c].lane) /\ ~IsUser(r) THEN NoRow ELSE runs[r]]
  /\ make' = [make EXCEPT ![c].pc = "position"]
  /\ UNCHANGED <<created, job, poll, boot, runner, restarts>>

\* Mutant of IsLastPosition: MIN instead of MAX.
IsFirstPosition(l, m) ==
  \/ Waiting(l) = {} /\ m = 0
  \/ \E r \in Waiting(l) :
       m = runs[r].pos /\ \A q \in Waiting(l) : m <= runs[q].pos

\* SELECT MAX(queue_position), NULL counting as 0.
IsLastPosition(l, m) ==
  \/ Waiting(l) = {} /\ m = 0
  \/ \E r \in Waiting(l) :
       m = runs[r].pos /\ \A q \in Waiting(l) : runs[q].pos <= m

TakePosition(c) ==
  /\ make[c].pc = "position"
  /\ \E m \in {0} \cup ({runs[r].pos : r \in Run} \ {None}) :
       /\ IsLastPosition(make[c].lane, m)
       /\ make' = [make EXCEPT ![c].pc = "insert", ![c].pos = m + 1]
  /\ UNCHANGED <<runs, created, job, poll, boot, runner, restarts>>

\* Only the DAG executor asks for 'queued', for the roots of its graph.
InitialStatus(m) ==
  IF m.pos = None /\ m.kind = "envroot" THEN "queued" ELSE "pending"

\* Mutant of OwnToken: every manual run gets a token of its own.
AnyManualToken(m) == IF m.kind = "manual" THEN 1 ELSE 0

\* The caller of the create endpoint gets a callback token in byoc projects;
\* 0 stands for a hash whose token nobody holds.
OwnToken(m) == IF m.kind = "manual" /\ m.lane \in Byoc THEN 1 ELSE 0

InsertRun(c) ==
  LET m == make[c]  r == created + 1
  IN /\ m.pc = "insert" /\ created < MaxRuns
     /\ OwnToken(m) <= MaxTokens
     /\ runs' = [runs EXCEPT ![r] =
          [lane |-> m.lane, kind |-> m.kind, status |-> InitialStatus(m),
           pos |-> m.pos, token |-> OwnToken(m)]]
     /\ runner' = [runner EXCEPT ![r] =
          [t \in Token |-> IF t = OwnToken(m) THEN "idle" ELSE @[t]]]
     /\ created' = r
     /\ make' = [make EXCEPT ![c] = IdleMake]
     /\ UNCHANGED <<job, poll, boot, restarts>>

----------------------------------------------------------------------------
(* Requests on one run: read the row and decide, then write the status,    *)
(* then, if it is an outcome, dequeue the lane.                            *)

IdleJob == [pc |-> "idle", run |-> None, lane |-> None, to |-> None,
            deq |-> FALSE, by |-> 0]

\* A request by the holder of token t (0: a user) will write status s.
Admit(w, r, s, deq, t) ==
  /\ job[w].pc = "idle" /\ runs[r] # NoRow
  /\ job' = [job EXCEPT ![w] = [pc |-> "write", run |-> r,
                                lane |-> runs[r].lane, to |-> s, deq |-> deq,
                                by |-> t]]
  /\ UNCHANGED <<runs, created, make, poll, boot, restarts>>

Confirm(w, r) ==
  /\ "confirm" \in Requests /\ runs[r].status = "planned"
  /\ Admit(w, r, "confirmed", FALSE, 0) /\ UNCHANGED runner

Discard(w, r) ==
  /\ "discard" \in Requests /\ runs[r].status = "planned"
  /\ Admit(w, r, "discarded", TRUE, 0) /\ UNCHANGED runner

Cancel(w, r) ==
  /\ "cancel" \in Requests /\ runs[r].status \notin Finished
  /\ Admit(w, r, "cancelled", TRUE, 0) /\ UNCHANGED runner

VerifyCallbackToken(r, t) ==
  runs[r].token = t /\ runs[r].status \notin Rejected

\* What a runner may post after what it posted last: progress, an outcome, a
\* retry of the same post, or more after a plan that was confirmed.
MayPost(r, t, s) ==
  /\ \/ runner[r][t] \in {"idle", "running", s}
     \/ runner[r][t] = "planned" /\ runs[r].status = "confirmed"
  /\ Patient => \A w \in Worker : ~(job[w].run = r /\ job[w].by = t)

StatusCallback(w, r, t, s) ==
  /\ runner[r][t] # "none" /\ VerifyCallbackToken(r, t) /\ MayPost(r, t, s)
  /\ Admit(w, r, s, s \in {"succeeded", "failed"}, t)
  /\ runner' = [runner EXCEPT ![r][t] = s]

\* The outputs endpoint writes back the status it has read.
SubmitOutputs(w, r, t) ==
  /\ "outputs" \in Requests
  /\ runner[r][t] # "none" /\ VerifyCallbackToken(r, t)
  /\ Patient => \A v \in Worker : ~(job[v].run = r /\ job[v].by = t)
  /\ Admit(w, r, runs[r].status, FALSE, t) /\ UNCHANGED runner

\* The status is written by id, with no condition on what it is now.
WriteStatus(w) ==
  /\ job[w].pc = "write"
  /\ runs' = UpdateModuleRunStatus(job[w].run, job[w].to)
  /\ job' = [job EXCEPT ![w] = IF @.deq THEN [@ EXCEPT !.pc = "dequeue"]
                               ELSE IdleJob]
  /\ UNCHANGED <<created, make, poll, boot, runner, restarts>>

Dequeue(w) ==
  /\ job[w].pc = "dequeue"
  /\ DequeueNextModuleRun(job[w].lane)
  /\ job' = [job EXCEPT ![w] = IdleJob]
  /\ UNCHANGED <<created, make, poll, boot, runner, restarts>>

----------------------------------------------------------------------------
(* RunDispatcher.pollQueuedRuns and dispatchRun. setInterval does not wait *)
(* for the previous poll, so polls overlap.                                *)

IdlePoll == [pc |-> "idle", avail |-> 0, batch |-> {}, run |-> None, token |-> 0]

\* The order of a poll's list: peaas first, then user runs, then the oldest.
Before(r, q) ==
  LET byoc(x) == IF runs[x].lane \in Byoc THEN 1 ELSE 0
      late(x) == IF IsUser(x) THEN 0 ELSE 1
  IN \/ byoc(r) < byoc(q)
     \/ byoc(r) = byoc(q) /\ late(r) < late(q)
     \/ byoc(r) = byoc(q) /\ late(r) = late(q) /\ r < q

CountRunning(p) ==
  LET available == MaxConcurrent - Cardinality(PendingModuleRuns("running"))
  IN /\ boot.pc = "up" /\ poll[p].pc = "idle" /\ available > 0
     /\ poll' = [poll EXCEPT ![p].pc = "list", ![p].avail = available]
     /\ UNCHANGED <<runs, created, make, job, boot, runner, restarts>>

\* Mutant of Proceed: the loop does not stop after its last run.
ProceedForever(p, b) ==
  poll' = [poll EXCEPT ![p] = [IdlePoll EXCEPT !.pc = "dispatch", !.batch = b]]

\* The loop goes on with the runs b of its batch that are left.
Proceed(p, b) ==
  poll' = [poll EXCEPT ![p] =
    IF b = {} THEN IdlePoll
    ELSE [IdlePoll EXCEPT !.pc = "dispatch", !.batch = b]]

\* The first avail queued runs become the batch.
ListQueued(p) ==
  LET queued == PendingModuleRuns("queued")
  IN /\ poll[p].pc = "list"
     /\ \E b \in SUBSET queued :
          /\ \A r \in b, q \in queued \ b : Before(r, q)
          /\ \/ Cardinality(b) = poll[p].avail
             \/ b = queued /\ Cardinality(b) <= poll[p].avail
          /\ Proceed(p, b)
     /\ UNCHANGED <<runs, created, make, job, boot, runner, restarts>>

\* The next run of the batch: without a target it is left alone, otherwise
\* it is written 'running' with a fresh token, whatever it is by now.
DispatchRun(p) ==
  /\ poll[p].pc = "dispatch"
  /\ \E r \in poll[p].batch :
       /\ \A q \in poll[p].batch \ {r} : Before(r, q)
       /\ LET rest == poll[p].batch \ {r}
          IN \/ /\ runs[r].lane \notin Routable
                /\ Proceed(p, rest) /\ UNCHANGED runs
             \/ /\ runs[r].lane \in Routable /\ runs[r].token < MaxTokens
                /\ runs' = [runs EXCEPT ![r].status = "running",
                                        ![r].token = @ + 1]
                /\ poll' = [poll EXCEPT ![p].pc = "launch", ![p].run = r,
                              ![p].batch = rest,
                              ![p].token = runs[r].token + 1]
  /\ UNCHANGED <<created, make, job, boot, runner, restarts>>

\* The runner starts with the token of this dispatch.
Launched(p) == [runner EXCEPT ![poll[p].run][poll[p].token] = "idle"]

\* Mutant of Launch: a refused launch is not noticed.
LaunchUnchecked(p) ==
  /\ poll[p].pc = "launch"
  /\ \/ runner' = Launched(p)
     \/ "refused" \in Faults /\ UNCHANGED runner
  /\ Proceed(p, poll[p].batch)
  /\ UNCHANGED <<runs, created, make, job, boot, restarts>>

\* repository_dispatch is accepted; or refused; or accepted, but the answer
\* is lost and the dispatcher takes it for a failure.
Launch(p) ==
  /\ poll[p].pc = "launch"
  /\ \/ runner' = Launched(p) /\ Proceed(p, poll[p].batch)
     \/ /\ "refused" \in Faults /\ UNCHANGED runner
        /\ poll' = [poll EXCEPT ![p].pc = "fail"]
     \/ /\ "lost" \in Faults /\ runner' = Launched(p)
        /\ poll' = [poll EXCEPT ![p].pc = "fail"]
  /\ UNCHANGED <<runs, created, make, job, boot, restarts>>

\* Mutant of FailDispatch: the lane is not released.
FailAndProceed(p) ==
  /\ poll[p].pc = "fail"
  /\ runs' = UpdateModuleRunStatus(poll[p].run, "failed")
  /\ Proceed(p, poll[p].batch)
  /\ UNCHANGED <<created, make, job, boot, runner, restarts>>

FailDispatch(p) ==
  /\ poll[p].pc = "fail"
  /\ runs' = UpdateModuleRunStatus(poll[p].run, "failed")
  /\ poll' = [poll EXCEPT ![p].pc = "release"]
  /\ UNCHANGED <<created, make, job, boot, runner, restarts>>

ReleaseLane(p) ==
  /\ poll[p].pc = "release"
  /\ DequeueNextModuleRun(runs[poll[p].run].lane)
  /\ Proceed(p, poll[p].batch)
  /\ UNCHANGED <<created, make, job, boot, runner, restarts>>

----------------------------------------------------------------------------
(* A restart of the backend loses every request in flight; start recovers  *)
(* the rows it finds 'running' before it polls again. Requests are served  *)
(* meanwhile.                                                              *)

Up == [pc |-> "up", todo |-> {}, lane |-> None]

Restart ==
  /\ restarts < MaxRestarts
  /\ restarts' = restarts + 1
  /\ make' = [c \in Creator |-> IdleMake]
  /\ job' = [w \in Worker |-> IdleJob]
  /\ poll' = [p \in Poller |-> IdlePoll]
  /\ boot' = [Up EXCEPT !.pc = "list"]
  /\ UNCHANGED <<runs, created, runner>>

\* The loop of recoverRunningRuns goes on with the runs that are left.
Resume(todo) ==
  boot' = IF todo = {} THEN Up ELSE [Up EXCEPT !.pc = "recover", !.todo = todo]

ListRunning ==
  /\ boot.pc = "list"
  /\ Resume(PendingModuleRuns("running"))
  /\ UNCHANGED <<runs, created, make, job, poll, runner, restarts>>

\* A run younger than the timeout is only waited for; an older one is
\* written 'timed_out'. The age is any: time is not modelled.
RecoverRun(r) ==
  /\ boot.pc = "recover" /\ r \in boot.todo
  /\ \/ Resume(boot.todo \ {r}) /\ UNCHANGED runs
     \/ /\ runs' = UpdateModuleRunStatus(r, "timed_out")
        /\ boot' = [pc |-> "dequeue", todo |-> boot.todo \ {r},
                    lane |-> runs[r].lane]
  /\ UNCHANGED <<created, make, job, poll, runner, restarts>>

RecoverDequeue ==
  /\ boot.pc = "dequeue"
  /\ DequeueNextModuleRun(boot.lane)
  /\ Resume(boot.todo)
  /\ UNCHANGED <<created, make, job, poll, runner, restarts>>

\* The sweep, every minute: one UPDATE of the plans past the confirmation
\* timeout, any set of them, that belong to no environment run.
ExpireTimedOutModuleRuns(S) ==
  /\ boot.pc = "up" /\ S # {}
  /\ \A r \in S : runs[r].status = "planned" /\ runs[r].kind # "envroot"
  /\ runs' = [r \in Run |->
       IF r \in S THEN [runs[r] EXCEPT !.status = "timed_out"] ELSE runs[r]]
  /\ UNCHANGED <<created, make, job, poll, boot, runner, restarts>>

----------------------------------------------------------------------------

Init ==
  /\ runs = [r \in Run |-> NoRow]
  /\ created = 0
  /\ make = [c \in Creator |-> IdleMake]
  /\ job = [w \in Worker |-> IdleJob]
  /\ poll = [p \in Poller |-> IdlePoll]
  /\ boot = Up
  /\ runner = [r \in Run |-> [t \in Token |-> "none"]]
  /\ restarts = 0

CreatorStep(c) == EvictCascades(c) \/ TakePosition(c) \/ InsertRun(c)

RequestStep(w) ==
  \E r \in Run :
    \/ Confirm(w, r) \/ Discard(w, r) \/ Cancel(w, r)
    \/ \E t \in Token :
         SubmitOutputs(w, r, t) \/ \E s \in Posted : StatusCallback(w, r, t, s)

WorkerStep(w) == WriteStatus(w) \/ Dequeue(w)

PollerStep(p) ==
  \/ CountRunning(p) \/ ListQueued(p) \/ DispatchRun(p) \/ Launch(p)
  \/ FailDispatch(p) \/ ReleaseLane(p)

RecoveryStep ==
  ListRunning \/ (\E r \in Run : RecoverRun(r)) \/ RecoverDequeue

Sweep == \E S \in SUBSET Run : ExpireTimedOutModuleRuns(S)

Next ==
  \/ \E c \in Creator, l \in Lane, k \in Kinds : CreateModuleRun(c, l, k)
  \/ \E c \in Creator : CreatorStep(c)
  \/ \E w \in Worker : RequestStep(w) \/ WorkerStep(w)
  \/ \E p \in Poller : PollerStep(p)
  \/ RecoveryStep
  \/ Restart
  \/ Sweep

Spec == Init /\ [][Next]_vars

\* The first result a runner posts. Runners end: GitHub Actions has a limit
\* for every job.
FirstResult(r, t) ==
  /\ runner[r][t] \in {"idle", "running"}
  /\ \E w \in Worker, s \in Posted \ {"running"} : StatusCallback(w, r, t, s)

\* Handlers go on after an await, the timers of the dispatcher fire, and a
\* runner whose posts are accepted again and again reports its result. Users
\* owe nothing.
Fairness ==
  /\ \A c \in Creator : WF_vars(CreatorStep(c))
  /\ \A w \in Worker : WF_vars(WorkerStep(w))
  /\ \A p \in Poller : WF_vars(PollerStep(p))
  /\ WF_vars(RecoveryStep)
  /\ \A r \in Run, t \in Token : SF_vars(FirstResult(r, t))

FairSpec == Spec /\ Fairness

----------------------------------------------------------------------------
(* Properties.                                                             *)

Row == [lane : Lane, kind : {"manual", "cascade", "envroot"},
        status : Status \ {"absent"}, pos : Int \cup {None}, token : Nat]

MakeType == [pc : {"idle", "evict", "position", "insert"},
             lane : Lane \cup {None},
             kind : {"manual", "cascade", "envroot", None},
             pos : Int \cup {None}]

JobType == [pc : {"idle", "write", "dequeue"}, run : Run \cup {None},
            lane : Lane \cup {None}, to : Status \cup {None}, deq : BOOLEAN,
            by : Nat]

PollType == [pc : {"idle", "list", "dispatch", "launch", "fail", "release"},
             avail : Nat, batch : SUBSET Run, run : Run \cup {None},
             token : Nat]

BootType == [pc : {"up", "list", "recover", "dequeue"}, todo : SUBSET Run,
             lane : Lane \cup {None}]

\* Every variable keeps its type: in particular no late write brings back a
\* row that a newer cascade has deleted.
TypeOK ==
  /\ runs \in [Run -> Row \cup {NoRow}]
  /\ created \in 0..MaxRuns
  /\ make \in [Creator -> MakeType]
  /\ job \in [Worker -> JobType]
  /\ poll \in [Poller -> PollType]
  /\ boot \in BootType
  /\ runner \in [Run -> [Token -> {"none", "idle"} \cup Posted]]
  /\ restarts \in 0..MaxRestarts

\* Within a lane the queue positions grow strictly in the order the rows
\* were created, whatever was dequeued, evicted or cancelled in between and
\* although a position is taken one await before the row is inserted. So no
\* two rows share a position and the head of the queue is unique. (One
\* createModuleRun at a time: two may take the same position.)
PositionsInOrder ==
  \A r, q \in Run :
    /\ runs[r].pos # None /\ runs[q].pos # None
    /\ runs[r].lane = runs[q].lane /\ r < q
    => runs[r].pos < runs[q].pos

\* Latest wins: at most one cascade run waits in a lane.
OneWaitingCascade ==
  \A r, q \in Run :
    /\ runs[r].pos # None /\ runs[q].pos # None
    /\ runs[r].kind = "cascade" /\ runs[q].kind = "cascade"
    /\ runs[r].lane = runs[q].lane
    => r = q

\* A PeaaS row that still holds a queue position has never been handed to a
\* runner: no poll has it in hand, no token was issued for it, and no
\* runner can report on it, across restarts and stale polls.
WaitingNeverLaunched ==
  \A r \in Run :
    runs[r].pos # None /\ runs[r].lane \notin Byoc =>
      /\ runs[r].token = 0
      /\ \A t \in Token : runner[r][t] = "none"
      /\ \A p \in Poller : r \notin poll[p].batch /\ poll[p].run # r

\* A lane is attended while one of its runs is active or queued, or something
\* in flight is going to dequeue it.
Attended(l) ==
  \/ ActiveModuleRuns(l) # {}
  \/ \E r \in PendingModuleRuns("queued") : runs[r].lane = l
  \/ \E w \in Worker : job[w].lane = l /\ job[w].deq
  \/ \E p \in Poller : /\ poll[p].pc \in {"fail", "release"}
                      /\ runs[poll[p].run].lane = l
  \/ boot.pc = "dequeue" /\ boot.lane = l

Forgotten(l) == Waiting(l) # {} /\ ~Attended(l)

\* Whoever ends the last run of a lane, a callback, a discard, a failed launch
\* or the crash recovery, hands the lane on, through every overlap. Only four
\* steps leave waiting rows that nobody will ever release: a row inserted
\* after the run it was to wait for has ended, a confirmation, the sweep and
\* a restart. (Without output posts, which write back what they have read.)
LaneIsHandedOn ==
  [][\A l \in Lane : Forgotten(l)' =>
       \/ Forgotten(l)
       \/ \E c \in Creator : InsertRun(c)
       \/ \E w \in Worker : WriteStatus(w) /\ job[w].to = "confirmed"
       \/ Sweep
       \/ Restart]_vars

\* The lanes serve their waiting rows as LaneQueue says: user runs before
\* cascades, the oldest first among equals, nobody overtaken by a later row,
\* only superseded cascades dropped and nothing released out of turn.
Lanes == INSTANCE LaneQueue WITH
  waiting  <- [l \in Lane |-> {<<r, IsUser(r)>> : r \in Waiting(l)}],
  released <- {r \in Run : runs[r] # NoRow /\ runs[r].pos = None},
  newest   <- created

ServesLanesInOrder == Lanes!Spec

\* Liveness, without restarts: a run that is ready and has a target is
\* taken up by the dispatcher, however many runs compete for the slots and
\* however their launches fail.
Ready(r) == /\ runs[r].status = "queued" /\ runs[r].pos = None
            /\ runs[r].lane \in Routable

ReadyIsDispatched == \A r \in Run : Ready(r) ~> ~Ready(r)

\* Liveness, without restarts and with runners that await their answers: no
\* race between the dispatcher, a cancellation and the runner's posts leaves
\* a run 'running' after its runner is done, so no slot is lost.
RunningComesToAnEnd ==
  \A r \in Run : (runs[r].status = "running") ~> (runs[r].status # "running")

----------------------------------------------------------------------------
(* What a comment says of this code and it does not do.                    *)

\* runs/shared.ts:59: only one run in these states per module.
OneActiveRunPerLane == \A l \in Lane : Cardinality(ActiveModuleRuns(l)) <= 1

=============================================================================
