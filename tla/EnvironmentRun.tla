--------------------------- MODULE EnvironmentRun ---------------------------
(***************************************************************************)
(* One run of a whole environment: DagExecutor creates a module run for    *)
(* every active module of the project, the dispatcher launches the ones    *)
(* that are queued, and the callback of a finished one queues or skips the *)
(* modules below it and counts the outcome.                                *)
(*                                                                         *)
(* The rows of one environment run lie in different lanes of the run queue *)
(* (see RunQueue), so of the queue only this remains: a row waits while a  *)
(* run from outside occupies its lane, and the end of that run queues it.  *)
(* Slots, targets, tokens and lost answers of the dispatcher are the       *)
(* subject of RunQueue: a poll takes every queued row, and a launch        *)
(* replaces the runner of the row.                                         *)
(*                                                                         *)
(* Handlers interleave at every await that reads or writes a row. The      *)
(* dependencies do not change while the run lasts.                         *)
(***************************************************************************)
EXTENDS Integers, FiniteSets

CONSTANTS
  Module,      \* the modules of the project
  Dep,         \* pairs <<u, m>>: m comes after u (reversed for destroy-all)
  Archived,    \* modules that are not active
  Busy,        \* modules in whose lane an outside run is active at first
  Worker,      \* callback requests that may be in flight together
  Dispatcher,  \* the handler of failed launches and of crash recovery
  Posts,       \* the statuses runners post
  Requests,    \* what users and the sweep may do
  Prompt,      \* requests are served faster than the dispatcher polls
  MaxRestarts, \* bound: restarts of the backend
  MaxRequests, \* bound: user requests
  None

ASSUME EnvironmentRunAssumption ==
  /\ Dep \subseteq Module \X Module
  /\ Archived \subseteq Module /\ Busy \subseteq Module
  /\ Dispatcher \notin Worker
  /\ Posts \subseteq {"running", "planned", "succeeded", "failed"}
  /\ Requests \subseteq
       {"cancel", "confirm", "expire", "runcancel", "rundiscard", "runconfirm"}
  /\ Prompt \in BOOLEAN /\ MaxRestarts \in Nat /\ MaxRequests \in Nat
  /\ None \notin Module \cup {"pending", "running", "succeeded",
                  "partial_failure", "failed", "cancelled", "expired"}

Handler == Worker \cup {Dispatcher}

Active == Module \ Archived

Upstream(m)   == {u \in Module : <<u, m>> \in Dep}
Downstream(m) == {d \in Module : <<m, d>> \in Dep}

VARIABLES
  env,       \* environment_runs.status
  runs,      \* the module run of each module
  busy,      \* lanes whose outside run is still active
  start,     \* startEnvironmentRun: the modules without a row yet, and what
             \* createModuleRun has found for the one it is at
  hand,      \* callbacks and dispatcher failures in flight
  poll,      \* the poll in flight
  boot,      \* crash recovery
  runner,    \* per module: the last status its runner posted
  user,      \* the user request in flight
  restarts,  \* restarts so far (only to bound them)
  asked,     \* user requests so far (only to bound them)
  reached,   \* history: modules ever written planned or succeeded
  fallen     \* history: modules ever failed, cancelled or excluded

vars == <<env, runs, busy, start, hand, poll, boot, runner, user, restarts,
          asked, reached, fallen>>

----------------------------------------------------------------------------

Status == {"absent", "pending", "queued", "running", "planned", "confirmed",
           "succeeded", "failed", "cancelled", "timed_out", "discarded",
           "skipped"}

\* Statuses that satisfy a dependency.
Satisfied == {"succeeded", "planned"}

\* Statuses from which a module run does not go on by itself.
Settled == Status \ {"absent", "pending", "queued", "running"}

Verdicts == {"succeeded", "partial_failure", "failed"}

\* Statuses of an environment run that cannot be cancelled.
Final == Verdicts \cup {"cancelled", "expired"}

NoRow == [status |-> "absent", waits |-> FALSE]

Rows == {m \in Module : runs[m].status # "absent"}

With(s) == {m \in Module : runs[m].status \in s}

\* updateModuleRunStatus of the rows M, with what it leaves in history.
WriteRuns(M, s) ==
  /\ runs' = [m \in Module |->
       IF m \in M THEN [runs[m] EXCEPT !.status = s] ELSE runs[m]]
  /\ reached' = IF s \in Satisfied THEN reached \cup M ELSE reached
  /\ fallen' = IF s \in {"failed", "cancelled"} THEN fallen \cup M ELSE fallen

KeepRuns == UNCHANGED <<runs, reached, fallen>>

----------------------------------------------------------------------------
(* startEnvironmentRun.                                                    *)

\* In-degree zero in the graph of the active modules.
Root(m) == Upstream(m) \cap Active = {}

\* createModuleRun looks for an active run of the lane.
CreateModuleRun(m) ==
  /\ start.pc = "rows" /\ start.run = None /\ m \in start.todo
  /\ start' = [start EXCEPT !.run = m, !.waits = m \in busy]
  /\ KeepRuns
  /\ UNCHANGED <<env, busy, hand, poll, boot, runner, user, restarts, asked>>

\* And inserts the row by what it has seen: behind an active run it waits,
\* root or not, even if that run has ended by now.
InsertRun(m) ==
  /\ start.pc = "rows" /\ start.run = m
  /\ runs' = [runs EXCEPT ![m] =
       [status |-> IF Root(m) /\ ~start.waits THEN "queued" ELSE "pending",
        waits  |-> start.waits]]
  /\ start' = [start EXCEPT !.todo = @ \ {m}, !.run = None]
  /\ UNCHANGED <<env, busy, hand, poll, boot, runner, user, restarts, asked,
                 reached, fallen>>

FinishStart ==
  /\ start.pc = "rows" /\ start.run = None /\ start.todo = {}
  /\ env' = "running"
  /\ start' = [start EXCEPT !.pc = "done"]
  /\ KeepRuns
  /\ UNCHANGED <<busy, hand, poll, boot, runner, user, restarts, asked>>

\* What dequeueNextModuleRun makes of the lane of m: the row that waits there
\* is queued, whatever its status was.
Dequeued(m) ==
  IF runs[m].waits
  THEN [runs EXCEPT ![m] = [status |-> "queued", waits |-> FALSE]] ELSE runs

\* The outside run of a lane ends and dequeues it.
DequeueNextModuleRun(m) ==
  /\ m \in busy
  /\ busy' = busy \ {m}
  /\ runs' = Dequeued(m)
  /\ UNCHANGED <<env, start, hand, poll, boot, runner, user, restarts, asked,
                 reached, fallen>>

----------------------------------------------------------------------------
(* Callbacks, launches that failed and runs that timed out: write the      *)
(* status, then onModuleRunComplete.                                       *)

IdleHand == [pc |-> "idle", run |-> None, to |-> None, todo |-> {},
             env |-> None]

Begin(h, m, s) ==
  hand' = [hand EXCEPT ![h] = [IdleHand EXCEPT !.pc = "write", !.run = m,
                                               !.to = s]]

\* A runner reports progress or its result, or repeats the post when the
\* answer got lost. It awaits the answer to one post before the next.
StatusCallback(w, m, s) ==
  /\ hand[w].pc = "idle"
  /\ runner[m] \in {"idle", "running", s}
  /\ \A v \in Worker : hand[v].run # m
  /\ runs[m].status \notin {"cancelled", "timed_out", "discarded", "skipped"}
  /\ Begin(w, m, s)
  /\ runner' = [runner EXCEPT ![m] = s]
  /\ KeepRuns
  /\ UNCHANGED <<env, busy, start, poll, boot, user, restarts, asked>>

\* By id, with no condition on what the row is by now. Progress ends here;
\* the dequeue that follows a result finds no row of this environment run.
WriteStatus(h) ==
  /\ hand[h].pc = "write"
  /\ WriteRuns({hand[h].run}, hand[h].to)
  /\ hand' = [hand EXCEPT ![h] = IF @.to = "running" THEN IdleHand
                                 ELSE [@ EXCEPT !.pc = "notify"]]
  /\ UNCHANGED <<env, busy, start, poll, boot, runner, user, restarts, asked>>

\* The row is read again and onModuleRunComplete goes by what it says now.
Notify(h) ==
  /\ hand[h].pc = "notify"
  /\ hand' = [hand EXCEPT ![h].to = runs[hand[h].run].status, ![h].pc = "look"]
  /\ KeepRuns
  /\ UNCHANGED <<env, busy, start, poll, boot, runner, user, restarts, asked>>

\* Mutant of Ready: one satisfied dependency is enough.
ReadyByAny(d) ==
  runs[d].status = "pending" /\ Upstream(d) \cap With(Satisfied) # {}

\* A dependent with every dependency satisfied. An archived module has no
\* row and is never satisfied.
Ready(d) == runs[d].status = "pending" /\ Upstream(d) \subseteq With(Satisfied)

\* Mutant of Doomed: everything not launched, whatever it depends on.
DoomedAll(f) == With({"pending", "queued"})

\* Mutant of Doomed: the direct dependents only.
DoomedDirectly(f) == Downstream(f) \cap With({"pending", "queued"})

\* The dependents of f reachable through rows that have not been launched:
\* the least set closed under Downstream within them.
Doomed(f) ==
  LET open == With({"pending", "queued"})
      closed(S) == \A u \in S \cup {f} : Downstream(u) \cap open \subseteq S
  IN {m \in open : \A S \in SUBSET open : closed(S) => m \in S}

\* The snapshot of all rows decides what is to be written.
Look(h) ==
  LET m == hand[h].run  s == hand[h].to
  IN /\ hand[h].pc = "look"
     /\ \/ /\ s \in Satisfied
           /\ hand' = [hand EXCEPT ![h].pc = "mark", ![h].to = "queued",
                         ![h].todo = {d \in Downstream(m) : Ready(d)}]
        \/ /\ s \in {"failed", "cancelled"}
           /\ hand' = [hand EXCEPT ![h].pc = "mark", ![h].to = "skipped",
                                   ![h].todo = Doomed(m)]
        \/ /\ s \notin Satisfied \cup {"failed", "cancelled"}
           /\ hand' = [hand EXCEPT ![h].pc = "count"]
     /\ KeepRuns
     /\ UNCHANGED <<env, busy, start, poll, boot, runner, user, restarts, asked>>

\* One row after the other, by id.
Mark(h) ==
  /\ hand[h].pc = "mark"
  /\ \/ \E d \in hand[h].todo :
          /\ WriteRuns({d}, hand[h].to)
          /\ hand' = [hand EXCEPT ![h].todo = @ \ {d}]
     \/ /\ hand[h].todo = {}
        /\ hand' = [hand EXCEPT ![h].pc = "count"]
        /\ KeepRuns
  /\ UNCHANGED <<env, busy, start, poll, boot, runner, user, restarts, asked>>

\* Mutant of Verdict: failed modules are not looked at.
VerdictOfTheRest ==
  IF With({"pending", "queued", "running", "confirmed"}) # {} THEN None
  ELSE IF With({"skipped", "discarded"}) = {} THEN "succeeded"
  ELSE "failed"

\* updateEnvironmentRunCounters: timed_out rows are counted nowhere, and a
\* cancelled one is failed but not completed.
Verdict ==
  LET completed == Cardinality(With(Satisfied \cup {"failed"}))
      failed    == Cardinality(With({"failed", "cancelled"}))
      skipped   == Cardinality(With({"skipped", "discarded"}))
  IN IF With({"pending", "queued", "running", "confirmed"}) # {} THEN None
     ELSE IF failed = 0 /\ skipped = 0 THEN "succeeded"
     ELSE IF completed > failed THEN "partial_failure"
     ELSE "failed"

\* Mutant of Count: a skipped module is not done.
CountSkipped(h) ==
  /\ hand[h].pc = "count"
  /\ hand' = [hand EXCEPT
       ![h].env = IF With({"skipped"}) # {} THEN None ELSE Verdict,
       ![h].pc = "env"]
  /\ KeepRuns
  /\ UNCHANGED <<env, busy, start, poll, boot, runner, user, restarts, asked>>

Count(h) ==
  /\ hand[h].pc = "count"
  /\ hand' = [hand EXCEPT ![h].env = Verdict, ![h].pc = "env"]
  /\ KeepRuns
  /\ UNCHANGED <<env, busy, start, poll, boot, runner, user, restarts, asked>>

\* Mutant of ReadEnvironmentRun: nothing is read.
ReadNothing(h) ==
  /\ hand[h].pc = "env"
  /\ hand' = [hand EXCEPT ![h].pc = "close"]
  /\ KeepRuns
  /\ UNCHANGED <<env, busy, start, poll, boot, runner, user, restarts, asked>>

\* Without a verdict the status read here is written back.
ReadEnvironmentRun(h) ==
  /\ hand[h].pc = "env"
  /\ hand' = [hand EXCEPT ![h].env = IF @ = None THEN env ELSE @,
                          ![h].pc = "close"]
  /\ KeepRuns
  /\ UNCHANGED <<env, busy, start, poll, boot, runner, user, restarts, asked>>

UpdateCounters(h) ==
  /\ hand[h].pc = "close"
  /\ env' = hand[h].env
  /\ hand' = [hand EXCEPT ![h] = IdleHand]
  /\ KeepRuns
  /\ UNCHANGED <<busy, start, poll, boot, runner, user, restarts, asked>>

----------------------------------------------------------------------------
(* The dispatcher: a poll, and the recovery that precedes the first one.   *)

IdleUser == [pc |-> "idle", todo |-> {}, to |-> None, env |-> None, lane |-> None]

IdlePoll == [pc |-> "idle", batch |-> {}, run |-> None]

ListQueued ==
  /\ poll.pc = "idle" /\ boot.pc = "up"
  /\ Prompt => start.pc = "done"
  /\ \E m \in Module : runs[m].status = "queued" /\ ~runs[m].waits
  /\ poll' = [IdlePoll EXCEPT !.pc = "dispatch",
       !.batch = {m \in Module : runs[m].status = "queued" /\ ~runs[m].waits}]
  /\ KeepRuns
  /\ UNCHANGED <<env, busy, start, hand, boot, runner, user, restarts, asked>>

EndPoll ==
  /\ poll.pc = "dispatch" /\ poll.batch = {} /\ hand[Dispatcher].pc = "idle"
  /\ poll' = IdlePoll
  /\ KeepRuns
  /\ UNCHANGED <<env, busy, start, hand, boot, runner, user, restarts, asked>>

\* The next run of the list is written 'running', whatever it is by now; its
\* new token silences a runner launched before.
DispatchRun(m) ==
  /\ poll.pc = "dispatch" /\ m \in poll.batch /\ hand[Dispatcher].pc = "idle"
  /\ Prompt => \A w \in Worker : hand[w].run # m
  /\ WriteRuns({m}, "running")
  /\ poll' = [pc |-> "launch", batch |-> poll.batch \ {m}, run |-> m]
  /\ runner' = [runner EXCEPT ![m] = "none"]
  /\ UNCHANGED <<env, busy, start, hand, boot, user, restarts, asked>>

\* The launch is accepted or refused.
Launch ==
  /\ poll.pc = "launch"
  /\ \/ /\ runner' = [runner EXCEPT ![poll.run] = "idle"]
        /\ UNCHANGED hand
     \/ Begin(Dispatcher, poll.run, "failed") /\ UNCHANGED runner
  /\ poll' = [poll EXCEPT !.pc = "dispatch", !.run = None]
  /\ KeepRuns
  /\ UNCHANGED <<env, busy, start, boot, user, restarts, asked>>

Restart ==
  /\ restarts < MaxRestarts
  /\ restarts' = restarts + 1
  /\ start' = [start EXCEPT !.pc = "done", !.run = None]
  /\ hand' = [h \in Handler |-> IdleHand]
  /\ poll' = IdlePoll
  /\ user' = IdleUser
  /\ boot' = [pc |-> "list", todo |-> {}]
  /\ KeepRuns
  /\ UNCHANGED <<env, busy, runner, asked>>

ListRunning ==
  /\ boot.pc = "list"
  /\ boot' = [pc |-> "recover", todo |-> With({"running"})]
  /\ KeepRuns
  /\ UNCHANGED <<env, busy, start, hand, poll, runner, user, restarts, asked>>

\* Within the timeout a run is only waited for; past it, it is timed out.
RecoverRun(m) ==
  /\ boot.pc = "recover" /\ m \in boot.todo /\ hand[Dispatcher].pc = "idle"
  /\ boot' = [boot EXCEPT !.todo = @ \ {m}]
  /\ UNCHANGED hand \/ Begin(Dispatcher, m, "timed_out")
  /\ KeepRuns
  /\ UNCHANGED <<env, busy, start, poll, runner, user, restarts, asked>>

FinishRecovery ==
  /\ boot.pc = "recover" /\ boot.todo = {} /\ hand[Dispatcher].pc = "idle"
  /\ boot' = [boot EXCEPT !.pc = "up"]
  /\ KeepRuns
  /\ UNCHANGED <<env, busy, start, hand, poll, runner, user, restarts, asked>>

----------------------------------------------------------------------------
(* Users and the sweep.                                                    *)

\* A request will write s to the rows M, then e, if any, to the run, and
\* dequeue the lane l, if any.
Ask(r, M, s, e, l) ==
  /\ r \in Requests /\ user.pc = "idle" /\ asked < MaxRequests
  /\ asked' = asked + 1
  /\ user' = [pc |-> "rows", todo |-> M, to |-> s, env |-> e, lane |-> l]
  /\ UNCHANGED <<env, runs, busy, start, hand, poll, boot, runner, restarts,
                 reached>>

\* Cancel the environment run: the rows that have not been launched.
CancelEnvironmentRun ==
  /\ env \notin Final
  /\ Ask("cancel", With({"pending", "queued", "planned"}), "cancelled",
         "cancelled", None)
  /\ UNCHANGED fallen

\* Confirm a plan-all run, without the modules X and what depends on them.
ConfirmEnvironmentRun(X) ==
  LET closed(S) == \A u \in S : Downstream(u) \subseteq S
      out == {m \in Module : \A S \in SUBSET Module :
                X \subseteq S /\ closed(S) => m \in S}
  IN /\ "planned" \in Posts /\ env # "expired"
     /\ Rows \subseteq With({"planned", "skipped", "failed", "cancelled"})
     /\ Ask("confirm", out \cap With({"planned"}), "skipped", "running", None)
     /\ fallen' = fallen \cup X

\* Cancel, discard or confirm the run of one module: the graph is not told.
\* The first two dequeue the lane, where the row itself may still wait.
CancelRun(m) ==
  /\ runs[m].status \in {"pending", "queued", "running", "planned", "confirmed"}
  /\ Ask("runcancel", {m}, "cancelled", None, m) /\ UNCHANGED fallen

DiscardRun(m) ==
  /\ runs[m].status = "planned"
  /\ Ask("rundiscard", {m}, "discarded", None, m) /\ UNCHANGED fallen

ConfirmRun(m) ==
  /\ runs[m].status = "planned"
  /\ Ask("runconfirm", {m}, "confirmed", None, None) /\ UNCHANGED fallen

WriteRow(m) ==
  /\ user.pc = "rows" /\ m \in user.todo
  /\ WriteRuns({m}, user.to)
  /\ user' = [user EXCEPT !.todo = @ \ {m}]
  /\ UNCHANGED <<env, busy, start, hand, poll, boot, runner, restarts, asked>>

CloseRequest ==
  /\ user.pc = "rows" /\ user.todo = {}
  /\ env' = IF user.env = None THEN env ELSE user.env
  /\ runs' = IF user.lane = None THEN runs ELSE Dequeued(user.lane)
  /\ user' = IdleUser
  /\ UNCHANGED <<busy, start, hand, poll, boot, runner, restarts, asked,
                 reached, fallen>>

\* The sweep: an environment run untouched for the confirmation timeout.
ExpireEnvironmentRun ==
  /\ "expire" \in Requests /\ boot.pc = "up"
  /\ env = "running"
  /\ env' = "expired"
  /\ KeepRuns
  /\ UNCHANGED <<busy, start, hand, poll, boot, runner, user, restarts, asked>>

----------------------------------------------------------------------------

Init ==
  /\ env = "pending"
  /\ runs = [m \in Module |-> NoRow]
  /\ busy = Busy
  /\ start = [pc |-> "rows", todo |-> Active, run |-> None, waits |-> FALSE]
  /\ hand = [h \in Handler |-> IdleHand]
  /\ poll = IdlePoll
  /\ boot = [pc |-> "up", todo |-> {}]
  /\ runner = [m \in Module |-> "none"]
  /\ user = IdleUser
  /\ restarts = 0 /\ asked = 0
  /\ reached = {} /\ fallen = {}

StartStep ==
  (\E m \in Module : CreateModuleRun(m) \/ InsertRun(m)) \/ FinishStart

HandlerStep(h) ==
  \/ WriteStatus(h) \/ Notify(h) \/ Look(h) \/ Mark(h) \/ Count(h)
  \/ ReadEnvironmentRun(h) \/ UpdateCounters(h)

PollStep ==
  ListQueued \/ EndPoll \/ (\E m \in Module : DispatchRun(m)) \/ Launch

RecoveryStep ==
  ListRunning \/ (\E m \in Module : RecoverRun(m)) \/ FinishRecovery

Request ==
  \/ CancelEnvironmentRun \/ ExpireEnvironmentRun
  \/ \E X \in SUBSET Module : ConfirmEnvironmentRun(X)
  \/ \E m \in Module : CancelRun(m) \/ DiscardRun(m) \/ ConfirmRun(m)

UserStep == (\E m \in Module : WriteRow(m)) \/ CloseRequest

Next ==
  \/ StartStep
  \/ \E m \in Module : DequeueNextModuleRun(m)
  \/ \E w \in Worker, m \in Module, s \in Posts : StatusCallback(w, m, s)
  \/ \E h \in Handler : HandlerStep(h)
  \/ PollStep
  \/ Restart
  \/ RecoveryStep
  \/ Request
  \/ UserStep

Spec == Init /\ [][Next]_vars

FirstResult(m) ==
  /\ runner[m] \in {"idle", "running"}
  /\ \E w \in Worker, s \in Posts \ {"running"} : StatusCallback(w, m, s)

\* Handlers go on after an await, the dispatcher's timers fire, outside runs
\* end, and a runner whose posts are accepted again and again reports.
\* Users and restarts are owed nothing.
Fairness ==
  /\ WF_vars(StartStep) /\ WF_vars(PollStep) /\ WF_vars(RecoveryStep)
  /\ WF_vars(UserStep)
  /\ \A h \in Handler : WF_vars(HandlerStep(h))
  /\ \A m \in Module : WF_vars(DequeueNextModuleRun(m)) /\ SF_vars(FirstResult(m))

FairSpec == Spec /\ Fairness

----------------------------------------------------------------------------
(* Properties.                                                             *)

RowType == [status : Status, waits : BOOLEAN]

HandType == [pc : {"idle", "write", "notify", "look", "mark", "count", "env",
                   "close"},
             run : Module \cup {None}, to : Status \cup {None},
             todo : SUBSET Module, env : Final \cup {"pending", "running", None}]

\* Every variable keeps its type.
TypeOK ==
  /\ env \in Final \cup {"pending", "running"}
  /\ runs \in [Module -> RowType]
  /\ busy \subseteq Busy
  /\ start \in [pc : {"rows", "done"}, todo : SUBSET Active,
                run : Active \cup {None}, waits : BOOLEAN]
  /\ hand \in [Handler -> HandType]
  /\ poll \in [pc : {"idle", "dispatch", "launch"}, batch : SUBSET Module,
                run : Module \cup {None}]
  /\ boot \in [pc : {"up", "list", "recover"}, todo : SUBSET Module]
  /\ runner \in [Module -> {"none", "idle"} \cup Posts]
  /\ user \in [pc : {"idle", "rows"}, todo : SUBSET Module,
                to : {None, "cancelled", "skipped", "discarded", "confirmed"},
                env : {None, "cancelled", "running"}, lane : Module \cup {None}]
  /\ restarts \in 0..MaxRestarts /\ asked \in 0..MaxRequests
  /\ reached \subseteq Module /\ fallen \subseteq Module

\* No module is launched before every active module it depends on has been
\* planned or applied: not from a stale poll, not by a handler whose
\* snapshot is old, not after a cancellation, a confirmation or a restart.
\* (If outside runs occupy lanes of roots only: the end of such a run queues
\* the row that waits for it, whatever it depends on.)
DependencyOrder ==
  \A m \in Module :
    runner[m] # "none" => Upstream(m) \cap Active \subseteq reached

\* The modules above m, m included.
Above(m) ==
  {a \in Module : \A S \in SUBSET Module :
     m \in S /\ (\A d \in S : Upstream(d) \subseteq S) => a \in S}

\* A module is skipped only for a cause: it, or a module it transitively
\* depends on, failed, was cancelled or was excluded by the user.
SkippedHasCause ==
  \A m \in With({"skipped"}) : Above(m) \cap fallen # {}

\* Without restarts: the environment run is called succeeded only when every
\* active module has been planned or applied, whichever of the overlapping
\* handlers counts last.
SuccessIsComplete == env = "succeeded" => Active \subseteq reached

\* The row of m waits for the end of an outside run that has ended: nobody
\* will dequeue its lane.
Stranded(m) ==
  runs[m].waits /\ m \notin busy /\ runs[m].status \in {"pending", "queued"}

\* Liveness, without users and restarts: no module is forgotten, however the
\* handlers of modules that finish together interleave: each one ends up
\* run or skipped and stays so, unless it or a module above it is stranded,
\* because an outside run ended while createModuleRun made its row.
EveryModuleSettles ==
  \A m \in Active :
    <>[](runs[m].status \in Settled \/ \E a \in Above(m) : Stranded(a))

\* And some handler concludes the environment run, unless a row is stranded.
VerdictIsReached == <>(env \in Verdicts) \/ <>[](\E m \in Active : Stranded(m))

=============================================================================
