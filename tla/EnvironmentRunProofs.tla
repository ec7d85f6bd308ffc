------------------------ MODULE EnvironmentRunProofs ------------------------
(***************************************************************************)
(* Theorems about EnvironmentRun for every value of its constants, every   *)
(* dependency relation among them.                                         *)
(***************************************************************************)
EXTENDS EnvironmentRun, FiniteSetTheorems, TLAPS

\* A handler knows its module and what it may write; only a handler that
\* marks rows has rows left to write.
HandsKnow ==
  \A h \in Handler :
    /\ hand[h].pc # "idle" => hand[h].run \in Module
    /\ hand[h].pc \in {"write", "look", "mark"} => hand[h].to \in Status
    /\ hand[h].pc = "write" =>
         hand[h].to \in {"running", "planned", "succeeded", "failed", "timed_out"}
    /\ hand[h].pc = "mark" => hand[h].to \in {"queued", "skipped"}
    /\ hand[h].pc # "mark" => hand[h].todo = {}
    /\ hand[h].pc = "close" => hand[h].env # None

\* A poll about to launch knows the run, a user request the status.
OthersKnow ==
  /\ poll.pc = "launch" => poll.run \in Module
  /\ user.pc = "rows" =>
       user.to \in {"cancelled", "skipped", "discarded", "confirmed"}

\* Every active module above m has been planned or applied.
Clear(m) == Upstream(m) \cap Active \subseteq reached

\* Whatever may make a runner start, now or after any number of steps, is
\* about a module that is clear.
InOrder ==
  /\ \A m \in Module :
       /\ runs[m].status = "queued" => Clear(m)
       /\ runs[m].status \in Satisfied => m \in reached
       /\ runs[m].waits => m \in Busy
       /\ m \in poll.batch \/ m = poll.run => Clear(m)
       /\ runner[m] # "none" => Clear(m)
  /\ \A h \in Handler : hand[h].pc = "mark" /\ hand[h].to = "queued" =>
       \A m \in hand[h].todo : Clear(m)
  /\ start.waits => start.run \in Busy \cup {None}

\* m or a module above it failed, was cancelled or was excluded.
Caused(m) == Above(m) \cap fallen # {}

\* Whatever may skip a module has a cause.
Causes ==
  /\ \A m \in Module :
       /\ runs[m].status \in {"failed", "cancelled"} => m \in fallen
       /\ runs[m].status = "skipped" => Caused(m)
  /\ \A h \in Handler :
       /\ hand[h].pc = "look" /\ hand[h].to \in {"failed", "cancelled"} =>
            hand[h].run \in fallen
       /\ hand[h].pc = "mark" /\ hand[h].to = "skipped" =>
            \A m \in hand[h].todo : Caused(m)
  /\ user.pc = "rows" /\ user.to = "skipped" => \A m \in user.todo : Caused(m)

Known == TypeOK /\ HandsKnow /\ OthersKnow

----------------------------------------------------------------------------
(* What a write does.                                                      *)

LEMMA WriteEffect ==
  ASSUME TypeOK, NEW M \in SUBSET Module, NEW s \in Status, WriteRuns(M, s)
  PROVE  /\ runs' \in [Module -> RowType]
         /\ reached' \in SUBSET Module /\ fallen' \in SUBSET Module
         /\ reached \subseteq reached' /\ fallen \subseteq fallen'
         /\ s \in Satisfied => M \subseteq reached'
         /\ s \in {"failed", "cancelled"} => M \subseteq fallen'
         /\ \A m \in Module :
              /\ m \in M => runs'[m].status = s
              /\ m \notin M => runs'[m].status = runs[m].status
              /\ runs'[m].waits = runs[m].waits
BY DEF WriteRuns, TypeOK, RowType, Satisfied

\* A handler that begins leaves the other handlers alone.
LEMMA BeginEffect ==
  ASSUME TypeOK, NEW h \in Handler, NEW m \in Module,
         NEW s \in {"running", "planned", "succeeded", "failed", "timed_out"},
         Begin(h, m, s)
  PROVE  /\ hand' \in [Handler -> HandType]
         /\ hand'[h].pc = "write" /\ hand'[h].run = m /\ hand'[h].to = s
         /\ hand'[h].todo = {}
         /\ \A g \in Handler \ {h} : hand'[g] = hand[g]
<1>1. [IdleHand EXCEPT !.pc = "write", !.run = m, !.to = s] \in HandType
  BY DEF IdleHand, HandType, Status
<1> QED BY <1>1 DEF Begin, TypeOK, IdleHand

----------------------------------------------------------------------------
(* Every step keeps the types and what the processes know.                 *)

LEMMA StartKnown ==
  ASSUME Known, StartStep \/ \E m \in Module : DequeueNextModuleRun(m)
  PROVE  Known'
<1>1. ASSUME NEW m \in Module, CreateModuleRun(m) PROVE Known'
  <2>1. start' \in [pc : {"rows", "done"}, todo : SUBSET Active,
                    run : Active \cup {None}, waits : BOOLEAN]
    <3>1. m \in Active /\ (m \in busy) \in BOOLEAN
      BY <1>1 DEF CreateModuleRun, Known, TypeOK
    <3> QED BY <1>1, <3>1 DEF CreateModuleRun, Known, TypeOK
  <2> QED BY <1>1, <2>1
          DEF Known, TypeOK, HandsKnow, OthersKnow, CreateModuleRun, KeepRuns
<1>4. ASSUME NEW m \in Module, InsertRun(m) PROVE Known'
  <2>1. runs' \in [Module -> RowType]
    BY <1>4 DEF InsertRun, Known, TypeOK, RowType, Status
  <2>2. start' \in [pc : {"rows", "done"}, todo : SUBSET Active,
                    run : Active \cup {None}, waits : BOOLEAN]
    BY <1>4 DEF InsertRun, Known, TypeOK
  <2> QED BY <1>4, <2>1, <2>2
          DEF Known, TypeOK, HandsKnow, OthersKnow, InsertRun
<1>2. CASE FinishStart
  BY <1>2 DEF Known, TypeOK, HandsKnow, OthersKnow, FinishStart, KeepRuns
<1>3. ASSUME NEW m \in Module, DequeueNextModuleRun(m) PROVE Known'
  BY <1>3 DEF Known, TypeOK, RowType, HandsKnow, OthersKnow, DequeueNextModuleRun, Dequeued, Status
<1> QED BY <1>1, <1>2, <1>3, <1>4 DEF StartStep

LEMMA VerdictType == Verdict \in Verdicts \cup {None}
BY DEF Verdict, Verdicts

LEMMA HandlerKnown ==
  ASSUME Known, NEW h \in Handler, HandlerStep(h)
  PROVE  Known'
<1>1. CASE WriteStatus(h)
  BY <1>1, WriteEffect DEF Known, TypeOK, HandType, HandsKnow, OthersKnow, WriteStatus, Status, IdleHand
<1>2. CASE Notify(h)
  BY <1>2 DEF Known, TypeOK, HandType, RowType, HandsKnow, OthersKnow, Notify, KeepRuns
<1>3. CASE Look(h)
  BY <1>3 DEF Known, TypeOK, HandType, HandsKnow, OthersKnow, Look, KeepRuns, Status, Doomed, Downstream, With
<1>4. ASSUME Mark(h), NEW d \in hand[h].todo, WriteRuns({d}, hand[h].to),
             hand' = [hand EXCEPT ![h].todo = @ \ {d}]
      PROVE  Known'
  <2>1. hand[h] \in HandType /\ hand[h].pc = "mark"
    BY <1>4 DEF Known, TypeOK, Mark
  <2>2. d \in Module /\ {d} \in SUBSET Module /\ hand[h].to \in Status
    BY <2>1 DEF HandType, Known, HandsKnow
  <2>3. /\ runs' \in [Module -> RowType]
        /\ reached' \in SUBSET Module /\ fallen' \in SUBSET Module
    BY <1>4, <2>2, WriteEffect DEF Known
  <2>4. hand' \in [Handler -> HandType]
    BY <1>4, <2>1 DEF Known, TypeOK, HandType
  <2>5. TypeOK'
    BY <1>4, <2>3, <2>4 DEF Known, TypeOK, Mark
  <2>6. HandsKnow' /\ OthersKnow'
    BY <1>4, <2>1 DEF Known, TypeOK, HandsKnow, OthersKnow, Mark
  <2> QED BY <2>5, <2>6 DEF Known
<1>5. ASSUME Mark(h), hand[h].todo = {},
             hand' = [hand EXCEPT ![h].pc = "count"], KeepRuns
      PROVE  Known'
  BY <1>5 DEF Known, TypeOK, HandType, HandsKnow, OthersKnow, Mark, KeepRuns
<1>6. CASE Count(h)
  <2>1. hand[h] \in HandType BY DEF Known, TypeOK
  <2>2. hand' \in [Handler -> HandType]
    BY <1>6, <2>1, VerdictType DEF Known, TypeOK, HandType, Count, Final
  <2> QED BY <1>6, <2>2 DEF Known, TypeOK, HandsKnow, OthersKnow, Count, KeepRuns
<1>7. CASE ReadEnvironmentRun(h)
  BY <1>7, EnvironmentRunAssumption DEF Known, TypeOK, HandType, HandsKnow, OthersKnow, ReadEnvironmentRun, KeepRuns, Final, Verdicts
<1>8. CASE UpdateCounters(h)
  BY <1>8 DEF Known, TypeOK, HandType, HandsKnow, OthersKnow, UpdateCounters, KeepRuns, IdleHand
<1>9. CASE Mark(h)
  BY <1>4, <1>5, <1>9 DEF Mark
<1> QED BY <1>1, <1>2, <1>3, <1>6, <1>7, <1>8, <1>9 DEF HandlerStep

LEMMA CallbackKnown ==
  ASSUME Known, NEW w \in Worker, NEW m \in Module, NEW s \in Posts,
         StatusCallback(w, m, s)
  PROVE  Known'
<1>1. w \in Handler /\ s \in {"running", "planned", "succeeded", "failed", "timed_out"}
  BY EnvironmentRunAssumption DEF Handler
<1>2. /\ hand' \in [Handler -> HandType]
      /\ hand'[w].pc = "write" /\ hand'[w].run = m /\ hand'[w].to = s
      /\ hand'[w].todo = {}
      /\ \A g \in Handler \ {w} : hand'[g] = hand[g]
  BY <1>1, BeginEffect DEF StatusCallback, Known
<1>3. TypeOK'
  BY <1>2 DEF Known, TypeOK, StatusCallback, KeepRuns
<1>4. HandsKnow'
  BY <1>1, <1>2 DEF Known, HandsKnow, Status
<1>5. OthersKnow'
  BY DEF Known, OthersKnow, StatusCallback
<1> QED BY <1>3, <1>4, <1>5 DEF Known

\* What is left of a step that begins a dispatcher handler, or none.
LEMMA DispatcherBegins ==
  ASSUME Known, NEW m \in Module,
         Begin(Dispatcher, m, "failed") \/ Begin(Dispatcher, m, "timed_out")
  PROVE  hand' \in [Handler -> HandType] /\ HandsKnow'
<1>1. PICK s \in {"failed", "timed_out"} : Begin(Dispatcher, m, s)
  OBVIOUS
<1>2. Dispatcher \in Handler
  BY DEF Handler
<1>3. /\ hand' \in [Handler -> HandType]
      /\ hand'[Dispatcher].pc = "write" /\ hand'[Dispatcher].run = m
      /\ hand'[Dispatcher].to = s /\ hand'[Dispatcher].todo = {}
      /\ \A g \in Handler \ {Dispatcher} : hand'[g] = hand[g]
  BY <1>1, <1>2, BeginEffect DEF Known
<1>4. HandsKnow'
  BY <1>2, <1>3 DEF Known, HandsKnow, Status
<1> QED BY <1>3, <1>4

LEMMA PollKnown ==
  ASSUME Known, PollStep
  PROVE  Known'
<1>1. CASE ListQueued
  BY <1>1 DEF Known, TypeOK, HandsKnow, OthersKnow, ListQueued, KeepRuns, IdlePoll
<1>2. CASE EndPoll
  BY <1>2 DEF Known, TypeOK, HandsKnow, OthersKnow, EndPoll, KeepRuns, IdlePoll
<1>3. ASSUME NEW m \in Module, DispatchRun(m)
      PROVE  Known'
  <2>1. {m} \in SUBSET Module /\ "running" \in Status
    BY DEF Status
  <2>2. /\ runs' \in [Module -> RowType]
        /\ reached' \in SUBSET Module /\ fallen' \in SUBSET Module
    BY <1>3, <2>1, WriteEffect DEF Known, DispatchRun
  <2>3. TypeOK'
    BY <1>3, <2>2 DEF Known, TypeOK, DispatchRun
  <2>4. HandsKnow' /\ OthersKnow'
    BY <1>3 DEF Known, HandsKnow, OthersKnow, DispatchRun
  <2> QED BY <2>3, <2>4 DEF Known
<1>4. CASE Launch
  <2>1. poll.run \in Module /\ poll.pc = "launch"
    BY <1>4 DEF Launch, Known, OthersKnow
  <2>2. hand' \in [Handler -> HandType] /\ HandsKnow'
    <3>1. CASE UNCHANGED hand
      BY <3>1 DEF Known, TypeOK, HandsKnow
    <3> QED BY <1>4, <2>1, <3>1, DispatcherBegins DEF Launch
  <2>3. runner' \in [Module -> {"none", "idle"} \cup Posts]
    BY <1>4 DEF Launch, Known, TypeOK
  <2>4. TypeOK' /\ OthersKnow'
    BY <1>4, <2>2, <2>3 DEF Launch, Known, TypeOK, OthersKnow, KeepRuns
  <2> QED BY <2>2, <2>4 DEF Known
<1> QED BY <1>1, <1>2, <1>3, <1>4 DEF PollStep

LEMMA RecoveryKnown ==
  ASSUME Known, RecoveryStep \/ Restart
  PROVE  Known'
<1>1. CASE ListRunning
  BY <1>1 DEF Known, TypeOK, HandsKnow, OthersKnow, ListRunning, KeepRuns, With
<1>2. ASSUME NEW m \in Module, RecoverRun(m)
      PROVE  Known'
  <2>1. hand' \in [Handler -> HandType] /\ HandsKnow'
    <3>1. CASE UNCHANGED hand
      BY <3>1 DEF Known, TypeOK, HandsKnow
    <3> QED BY <1>2, <3>1, DispatcherBegins DEF RecoverRun
  <2>2. TypeOK' /\ OthersKnow'
    BY <1>2, <2>1 DEF RecoverRun, Known, TypeOK, OthersKnow, KeepRuns
  <2> QED BY <2>1, <2>2 DEF Known
<1>3. CASE FinishRecovery
  BY <1>3 DEF Known, TypeOK, HandsKnow, OthersKnow, FinishRecovery, KeepRuns
<1>4. CASE Restart
  <2>1. IdleHand \in HandType
    BY DEF IdleHand, HandType
  <2>2. restarts' \in 0..MaxRestarts
    BY <1>4, EnvironmentRunAssumption DEF Restart, Known, TypeOK
  <2>3. TypeOK'
    BY <1>4, <2>1, <2>2 DEF Restart, Known, TypeOK, KeepRuns, IdlePoll, IdleUser
  <2>4. HandsKnow' /\ OthersKnow'
    BY <1>4 DEF Restart, HandsKnow, OthersKnow, IdleHand, IdlePoll, IdleUser
  <2> QED BY <2>3, <2>4 DEF Known
<1> QED BY <1>1, <1>2, <1>3, <1>4 DEF RecoveryStep

\* A request leaves a well-formed user request behind.
LEMMA AskEffect ==
  ASSUME Known, NEW r \in Requests, NEW M \in SUBSET Module,
         NEW s \in {"cancelled", "skipped", "discarded", "confirmed"},
         NEW e \in {None, "cancelled", "running"}, NEW l \in Module \cup {None},
         Ask(r, M, s, e, l), fallen' \in SUBSET Module
  PROVE  Known'
<1>1. asked' \in 0..MaxRequests
  BY EnvironmentRunAssumption DEF Ask, Known, TypeOK
<1>2. TypeOK'
  BY <1>1 DEF Ask, Known, TypeOK
<1>3. HandsKnow' /\ OthersKnow'
  BY DEF Ask, Known, HandsKnow, OthersKnow
<1> QED BY <1>2, <1>3 DEF Known

LEMMA RequestKnown ==
  ASSUME Known, Request
  PROVE  Known'
<1>1. CASE CancelEnvironmentRun
  BY <1>1, AskEffect DEF CancelEnvironmentRun, Ask, With, Known, TypeOK
<1>2. CASE ExpireEnvironmentRun
  BY <1>2 DEF ExpireEnvironmentRun, Known, TypeOK, HandsKnow, OthersKnow, KeepRuns, Final
<1>3. ASSUME NEW X \in SUBSET Module, ConfirmEnvironmentRun(X)
      PROVE  Known'
  <2> DEFINE out == {m \in Module : \A S \in SUBSET Module :
                       X \subseteq S /\ (\A u \in S : Downstream(u) \subseteq S)
                         => m \in S}
  <2>1. Ask("confirm", out \cap With({"planned"}), "skipped", "running", None)
        /\ fallen' = fallen \cup X
    BY <1>3 DEF ConfirmEnvironmentRun
  <2>2. "confirm" \in Requests /\ fallen' \in SUBSET Module
    BY <2>1 DEF Ask, Known, TypeOK
  <2>3. out \cap With({"planned"}) \in SUBSET Module
    BY DEF With
  <2> QED BY <2>1, <2>2, <2>3, AskEffect
<1>4. ASSUME NEW m \in Module, CancelRun(m) \/ DiscardRun(m) \/ ConfirmRun(m)
      PROVE  Known'
  <2>1. {m} \in SUBSET Module /\ fallen' \in SUBSET Module
    BY <1>4 DEF CancelRun, DiscardRun, ConfirmRun, Known, TypeOK
  <2>2. CASE CancelRun(m)
    BY <2>1, <2>2, AskEffect DEF CancelRun, Ask
  <2>3. CASE DiscardRun(m)
    BY <2>1, <2>3, AskEffect DEF DiscardRun, Ask
  <2>4. CASE ConfirmRun(m)
    BY <2>1, <2>4, AskEffect DEF ConfirmRun, Ask
  <2> QED BY <1>4, <2>2, <2>3, <2>4
<1> QED BY <1>1, <1>2, <1>3, <1>4 DEF Request

LEMMA UserKnown ==
  ASSUME Known, UserStep
  PROVE  Known'
<1>1. ASSUME NEW m \in Module, WriteRow(m)
      PROVE  Known'
  <2>1. {m} \in SUBSET Module /\ user.to \in Status
    BY <1>1 DEF WriteRow, Known, OthersKnow, Status
  <2>2. /\ runs' \in [Module -> RowType]
        /\ reached' \in SUBSET Module /\ fallen' \in SUBSET Module
    BY <1>1, <2>1, WriteEffect DEF Known, WriteRow
  <2>3. TypeOK'
    BY <1>1, <2>2 DEF Known, TypeOK, WriteRow
  <2>4. HandsKnow' /\ OthersKnow'
    BY <1>1 DEF Known, TypeOK, HandsKnow, OthersKnow, WriteRow
  <2> QED BY <2>3, <2>4 DEF Known
<1>2. CASE CloseRequest
  <2>1. runs' \in [Module -> RowType]
    BY <1>2 DEF CloseRequest, Dequeued, Known, TypeOK, RowType, Status
  <2> QED BY <1>2, <2>1
          DEF CloseRequest, Known, TypeOK, HandsKnow, OthersKnow, IdleUser, Final
<1> QED BY <1>1, <1>2 DEF UserStep

THEOREM KnownInvariance == Spec => []Known
<1>1. Init => Known
  BY EnvironmentRunAssumption DEF Init, Known, TypeOK, HandsKnow, OthersKnow, HandType,
     RowType, NoRow, IdleHand, IdlePoll, IdleUser, Status, Final, Active
<1>2. Known /\ [Next]_vars => Known'
  <2> SUFFICES ASSUME Known, [Next]_vars PROVE Known'
    OBVIOUS
  <2>1. CASE UNCHANGED vars
    BY <2>1 DEF vars, Known, TypeOK, HandsKnow, OthersKnow
  <2> QED BY <2>1, StartKnown, HandlerKnown, CallbackKnown, PollKnown, RecoveryKnown,
             RequestKnown, UserKnown DEF Next
<1> QED BY <1>1, <1>2, PTL DEF Spec

\* Every variable keeps its type, with any number of modules, handlers and
\* restarts.
THEOREM EnvTypeCorrect == Spec => []TypeOK
<1>1. Known => TypeOK
  BY DEF Known
<1> QED BY <1>1, KnownInvariance, PTL

----------------------------------------------------------------------------
(* Modules are launched in the order of their dependencies.                *)

LEMMA ClearStays ==
  ASSUME reached \subseteq reached', NEW m \in Module, Clear(m)
  PROVE  Clear(m)'
BY DEF Clear

\* A step that writes no row keeps the order if neither polls nor runners
\* nor marking handlers come to hold a module that is not clear.
LEMMA SameRowsInOrder ==
  ASSUME Known, InOrder, KeepRuns,
         \A m \in Module :
           /\ m \in poll'.batch \/ m = poll'.run => Clear(m)
           /\ runner'[m] # "none" => Clear(m),
         \A h \in Handler : hand'[h].pc = "mark" /\ hand'[h].to = "queued" =>
           \A m \in hand'[h].todo : m \in Module /\ Clear(m),
         start'.waits => start'.run \in Busy \cup {None}
  PROVE  InOrder'
BY DEF InOrder, KeepRuns, Clear

\* So does a step that writes rows with a status that starts nothing.
LEMMA WriteInOrder ==
  ASSUME Known, InOrder, NEW M \in SUBSET Module, NEW s \in Status, WriteRuns(M, s),
         s = "queued" => \A m \in M : Clear(m),
         \A m \in Module :
           /\ m \in poll'.batch \/ m = poll'.run => Clear(m)
           /\ runner'[m] # "none" => Clear(m),
         \A h \in Handler : hand'[h].pc = "mark" /\ hand'[h].to = "queued" =>
           \A m \in hand'[h].todo : m \in Module /\ Clear(m),
         UNCHANGED start
  PROVE  InOrder'
<1>1. /\ reached \subseteq reached'
      /\ s \in Satisfied => M \subseteq reached'
      /\ \A m \in Module :
           /\ m \in M => runs'[m].status = s
           /\ m \notin M => runs'[m].status = runs[m].status
           /\ runs'[m].waits = runs[m].waits
  BY WriteEffect DEF Known
<1>2. \A m \in Module : Clear(m) => Clear(m)'
  BY <1>1, ClearStays
<1>3. \A m \in Module :
        /\ runs'[m].status = "queued" => Clear(m)
        /\ runs'[m].status \in Satisfied => m \in reached'
        /\ runs'[m].waits => m \in Busy
  BY <1>1 DEF InOrder, Satisfied
<1> QED BY <1>2, <1>3 DEF InOrder

LEMMA HandsAtWork ==
  ASSUME Known, NEW h \in Handler
  PROVE  hand[h] \in HandType /\ hand[h].todo \subseteq Module
BY DEF Known, TypeOK, HandType

\* The row that waits in a lane is of a root, so it may be queued.
LEMMA DequeuedInOrder ==
  ASSUME Known, InOrder, \A m \in Busy : Root(m), NEW m \in Module,
         runs' = Dequeued(m), UNCHANGED <<start, hand, poll, runner, reached>>
  PROVE  InOrder'
<1>1. runs[m].waits => Clear(m)
  BY DEF InOrder, Root, Clear
<1>2. \A d \in Module :
        \/ runs'[d] = runs[d]
        \/ /\ d = m /\ runs[m].waits
           /\ runs'[d].status = "queued" /\ runs'[d].waits = FALSE
  BY DEF Dequeued, Known, TypeOK, RowType
<1> QED BY <1>1, <1>2 DEF InOrder, Clear, Satisfied

LEMMA StartInOrder ==
  ASSUME Known, InOrder, \A m \in Busy : Root(m),
         StartStep \/ \E m \in Module : DequeueNextModuleRun(m)
  PROVE  InOrder'
<1>1. ASSUME NEW m \in Module, CreateModuleRun(m) PROVE InOrder'
  <2>1. start'.waits => start'.run \in Busy
    BY <1>1 DEF CreateModuleRun, Known, TypeOK
  <2> QED BY <1>1, <2>1, HandsAtWork, SameRowsInOrder DEF CreateModuleRun, InOrder
<1>2. ASSUME NEW m \in Module, InsertRun(m) PROVE InOrder'
  <2>1. /\ runs'[m].status = "queued" => Clear(m)
        /\ runs'[m].status \notin Satisfied
        /\ runs'[m].waits => m \in Busy
    BY <1>2, EnvironmentRunAssumption
       DEF InsertRun, InOrder, Known, TypeOK, Root, Clear, Satisfied
  <2>2. \A d \in Module \ {m} : runs'[d] = runs[d]
    BY <1>2 DEF InsertRun, Known, TypeOK
  <2>3. start'.run = None
    BY <1>2 DEF InsertRun, Known, TypeOK
  <2> QED BY <1>2, <2>1, <2>2, <2>3 DEF InsertRun, InOrder, Clear
<1>3. CASE FinishStart
  BY <1>3 DEF InOrder, FinishStart, KeepRuns, Clear, Known, TypeOK
<1>4. ASSUME NEW m \in Module, DequeueNextModuleRun(m) PROVE InOrder'
  BY <1>4, DequeuedInOrder DEF DequeueNextModuleRun
<1> QED BY <1>1, <1>2, <1>3, <1>4 DEF StartStep

LEMMA HandlerInOrder ==
  ASSUME Known, InOrder, NEW h \in Handler, HandlerStep(h)
  PROVE  InOrder'
<1> USE HandsAtWork
<1>1. CASE WriteStatus(h)
  <2>1. hand[h].run \in Module /\ hand[h].to \in Status \ {"queued"}
    BY <1>1 DEF Known, HandsKnow, WriteStatus, Status
  <2>2. \A g \in Handler : hand'[g].pc = "mark" => hand'[g] = hand[g]
    BY <1>1 DEF Known, TypeOK, HandType, WriteStatus, IdleHand
  <2> QED BY <1>1, <2>1, <2>2, WriteInOrder DEF WriteStatus, InOrder
<1>2. CASE Notify(h)
  <2>1. \A g \in Handler : hand'[g].pc = "mark" => hand'[g] = hand[g]
    BY <1>2 DEF Known, TypeOK, HandType, Notify
  <2> QED BY <1>2, <2>1, SameRowsInOrder DEF Notify, InOrder
<1>3. CASE Look(h)
  <2>1. \A d \in Module : Ready(d) => Clear(d)
    BY DEF Ready, Clear, InOrder, With
  <2>2. \A g \in Handler : hand'[g].pc = "mark" /\ hand'[g].to = "queued" =>
          \/ hand'[g] = hand[g]
          \/ hand'[g].todo = {d \in Downstream(hand[h].run) : Ready(d)}
    BY <1>3 DEF Known, TypeOK, HandType, Look
  <2>3. \A d \in Downstream(hand[h].run) : d \in Module
    BY DEF Downstream
  <2> QED BY <1>3, <2>1, <2>2, <2>3, SameRowsInOrder DEF Look, InOrder
<1>4. CASE Mark(h)
  <2>1. hand[h].to \in Status /\ hand[h].pc = "mark"
    BY <1>4 DEF Known, HandsKnow, Mark
  <2>2. \A g \in Handler : hand'[g].pc = "mark" =>
          hand'[g].to = hand[g].to /\ hand[g].pc = "mark" /\ hand'[g].todo \subseteq hand[g].todo
    <3>1. \/ \E d \in hand[h].todo : hand' = [hand EXCEPT ![h].todo = @ \ {d}]
          \/ hand' = [hand EXCEPT ![h].pc = "count"]
      BY <1>4 DEF Mark
    <3>2. hand \in [Handler -> HandType]
      BY DEF Known, TypeOK
    <3> QED BY <2>1, <3>1, <3>2 DEF HandType
  <2>3. ASSUME NEW d \in hand[h].todo, WriteRuns({d}, hand[h].to) PROVE InOrder'
    <3>1. {d} \in SUBSET Module
      OBVIOUS
    <3>2. hand[h].to = "queued" => \A m \in {d} : Clear(m)
      BY <2>1 DEF InOrder
    <3> QED BY <1>4, <2>1, <2>2, <2>3, <3>1, <3>2, WriteInOrder DEF Mark, InOrder
  <2>4. CASE KeepRuns
    BY <1>4, <2>2, <2>4, SameRowsInOrder DEF Mark, InOrder
  <2> QED BY <1>4, <2>3, <2>4 DEF Mark
<1>5. CASE Count(h) \/ ReadEnvironmentRun(h) \/ UpdateCounters(h)
  <2>1. \A g \in Handler : hand'[g].pc = "mark" => hand'[g] = hand[g]
    BY <1>5 DEF Known, TypeOK, HandType, Count, ReadEnvironmentRun, UpdateCounters, IdleHand
  <2> QED BY <1>5, <2>1, SameRowsInOrder
          DEF Count, ReadEnvironmentRun, UpdateCounters, InOrder
<1> QED BY <1>1, <1>2, <1>3, <1>4, <1>5 DEF HandlerStep

LEMMA CallbackInOrder ==
  ASSUME Known, InOrder, NEW w \in Worker, NEW m \in Module, NEW s \in Posts,
         StatusCallback(w, m, s)
  PROVE  InOrder'
<1>1. w \in Handler /\ s \in {"running", "planned", "succeeded", "failed", "timed_out"}
  BY EnvironmentRunAssumption DEF Handler
<1>2. \A g \in Handler : hand'[g].pc = "mark" => hand'[g] = hand[g]
  BY <1>1, BeginEffect DEF StatusCallback, Known
<1>3. s # "none" /\ \A d \in Module : runner'[d] # "none" => runner[d] # "none"
  BY <1>1, EnvironmentRunAssumption DEF StatusCallback, Known, TypeOK
<1> QED BY <1>2, <1>3, HandsAtWork, SameRowsInOrder DEF StatusCallback, InOrder

\* Hands that only the dispatcher may have begun with.
LEMMA DispatcherMarksNothing ==
  ASSUME Known, NEW m \in Module,
         \/ UNCHANGED hand
         \/ Begin(Dispatcher, m, "failed") \/ Begin(Dispatcher, m, "timed_out")
  PROVE  \A g \in Handler : hand'[g].pc = "mark" => hand'[g] = hand[g]
<1>1. Dispatcher \in Handler
  BY DEF Handler
<1>2. CASE UNCHANGED hand
  BY <1>2
<1>3. ASSUME NEW s \in {"failed", "timed_out"}, Begin(Dispatcher, m, s)
      PROVE  \A g \in Handler : hand'[g].pc = "mark" => hand'[g] = hand[g]
  BY <1>1, <1>3, BeginEffect DEF Known
<1> QED BY <1>2, <1>3

LEMMA PollInOrder ==
  ASSUME Known, InOrder, PollStep
  PROVE  InOrder'
<1> USE HandsAtWork
<1>1. CASE ListQueued
  BY <1>1, EnvironmentRunAssumption, SameRowsInOrder DEF ListQueued, IdlePoll, InOrder
<1>2. CASE EndPoll
  BY <1>2, EnvironmentRunAssumption, SameRowsInOrder DEF EndPoll, IdlePoll, InOrder
<1>3. ASSUME NEW m \in Module, DispatchRun(m)
      PROVE  InOrder'
  <2>1. \A d \in Module : d \in poll'.batch \/ d = poll'.run => Clear(d)
    BY <1>3 DEF DispatchRun, InOrder
  <2>2. \A d \in Module : runner'[d] # "none" => Clear(d)
    BY <1>3 DEF DispatchRun, InOrder, Known, TypeOK
  <2> QED BY <1>3, <2>1, <2>2, WriteInOrder DEF DispatchRun, InOrder, Status
<1>4. CASE Launch
  <2>1. poll.run \in Module /\ Clear(poll.run)
    BY <1>4 DEF Launch, Known, OthersKnow, InOrder
  <2>2. \A g \in Handler : hand'[g].pc = "mark" => hand'[g] = hand[g]
    BY <1>4, <2>1, DispatcherMarksNothing DEF Launch
  <2>3. \A d \in Module : d \in poll'.batch \/ d = poll'.run => Clear(d)
    BY <1>4, EnvironmentRunAssumption DEF Launch, InOrder, Known, TypeOK
  <2>4. \A d \in Module : runner'[d] # "none" => Clear(d)
    BY <1>4, <2>1 DEF Launch, InOrder, Known, TypeOK
  <2> QED BY <1>4, <2>2, <2>3, <2>4, SameRowsInOrder DEF Launch, InOrder
<1> QED BY <1>1, <1>2, <1>3, <1>4 DEF PollStep

LEMMA RecoveryInOrder ==
  ASSUME Known, InOrder, RecoveryStep \/ Restart
  PROVE  InOrder'
<1> USE HandsAtWork
<1>1. CASE ListRunning \/ FinishRecovery
  BY <1>1, SameRowsInOrder DEF ListRunning, FinishRecovery, InOrder
<1>2. ASSUME NEW m \in Module, RecoverRun(m)
      PROVE  InOrder'
  <2>1. \A g \in Handler : hand'[g].pc = "mark" => hand'[g] = hand[g]
    BY <1>2, DispatcherMarksNothing DEF RecoverRun
  <2> QED BY <1>2, <2>1, SameRowsInOrder DEF RecoverRun, InOrder
<1>3. CASE Restart
  <2>1. start'.run = None
    BY <1>3 DEF Restart, Known, TypeOK
  <2> QED BY <1>3, <2>1, EnvironmentRunAssumption, SameRowsInOrder
          DEF Restart, IdleHand, IdlePoll, InOrder
<1> QED BY <1>1, <1>2, <1>3 DEF RecoveryStep

LEMMA UserInOrder ==
  ASSUME Known, InOrder, \A m \in Busy : Root(m), Request \/ UserStep
  PROVE  InOrder'
<1> USE HandsAtWork
<1>1. CASE Request
  <2>1. UNCHANGED <<runs, reached, hand, poll, runner, start>>
    BY <1>1 DEF Request, CancelEnvironmentRun, ExpireEnvironmentRun, KeepRuns,
       ConfirmEnvironmentRun, CancelRun, DiscardRun, ConfirmRun, Ask
  <2> QED BY <2>1 DEF InOrder, Clear
<1>2. ASSUME NEW m \in Module, WriteRow(m)
      PROVE  InOrder'
  <2>1. user.to \in Status \ {"queued"}
    BY <1>2 DEF WriteRow, Known, OthersKnow, Status
  <2> QED BY <1>2, <2>1, WriteInOrder DEF WriteRow, InOrder
<1>3. CASE CloseRequest
  <2>1. CASE user.lane = None
    BY <1>3, <2>1 DEF CloseRequest, InOrder, Clear
  <2>2. CASE user.lane # None
    <3>1. user.lane \in Module
      BY <2>2 DEF Known, TypeOK
    <3> QED BY <1>3, <2>2, <3>1, DequeuedInOrder DEF CloseRequest
  <2> QED BY <2>1, <2>2
<1> QED BY <1>1, <1>2, <1>3 DEF UserStep

\* No runner starts a module above which something has not been planned or
\* applied, with any dependencies, any interleaving of handlers, cancelled,
\* confirmed and discarded runs and restarts, if outside runs only occupy
\* the lanes of roots.
THEOREM ModulesStartInOrder ==
  ASSUME \A m \in Busy : Root(m)
  PROVE  Spec => []DependencyOrder
<1>1. Init => InOrder
  BY EnvironmentRunAssumption DEF Init, InOrder, NoRow, IdleHand, IdlePoll, Satisfied
<1>2. Known /\ InOrder /\ [Next]_vars => InOrder'
  <2> SUFFICES ASSUME Known, InOrder, [Next]_vars PROVE InOrder'
    OBVIOUS
  <2>1. CASE UNCHANGED vars
    BY <2>1 DEF vars, InOrder, Clear
  <2> QED BY <2>1, StartInOrder, HandlerInOrder, CallbackInOrder, PollInOrder,
             RecoveryInOrder, UserInOrder DEF Next
<1>3. InOrder => DependencyOrder
  BY DEF InOrder, DependencyOrder, Clear
<1> QED BY <1>1, <1>2, <1>3, KnownInvariance, PTL DEF Spec

----------------------------------------------------------------------------
(* What is skipped has a cause.                                            *)

LEMMA AboveReflexive == ASSUME NEW m \in Module PROVE m \in Above(m)
BY DEF Above

LEMMA AboveGrows ==
  ASSUME NEW d \in Module, NEW u \in Upstream(d)
  PROVE  Above(u) \subseteq Above(d)
BY DEF Above

\* Only rows below f are doomed by it.
LEMMA DoomedIsBelow ==
  ASSUME NEW f \in Module, NEW m \in Doomed(f)
  PROVE  m \in Module /\ f \in Above(m)
<1> DEFINE open == With({"pending", "queued"})
           S == {d \in open : f \in Above(d)}
<1>1. open \subseteq Module
  BY DEF With
<1>2. \A u \in S \cup {f} : Downstream(u) \cap open \subseteq S
  <2> SUFFICES ASSUME NEW u \in S \cup {f}, NEW d \in Downstream(u) \cap open
               PROVE  f \in Above(d)
    OBVIOUS
  <2>1. d \in Module /\ u \in Upstream(d) /\ u \in Module
    BY <1>1 DEF Downstream, Upstream
  <2>2. f \in Above(u)
    BY AboveReflexive
  <2> QED BY <2>1, <2>2, AboveGrows
<1>3. S \in SUBSET open
  OBVIOUS
<1>4. m \in open /\ m \in S
  BY <1>2, <1>3 DEF Doomed
<1> QED BY <1>1, <1>4

\* What a confirmation without X leaves out is below a module of X.
LEMMA ExcludedIsBelow ==
  ASSUME NEW X \in SUBSET Module, NEW m \in Module,
         \A S \in SUBSET Module :
           X \subseteq S /\ (\A u \in S : Downstream(u) \subseteq S) => m \in S
  PROVE  Above(m) \cap X # {}
<1> DEFINE S == {d \in Module : Above(d) \cap X # {}}
<1>1. X \subseteq S
  BY AboveReflexive
<1>2. \A u \in S : Downstream(u) \subseteq S
  <2> SUFFICES ASSUME NEW u \in S, NEW d \in Downstream(u) PROVE d \in S
    OBVIOUS
  <2>1. d \in Module /\ u \in Upstream(d)
    BY DEF Downstream, Upstream
  <2> QED BY <2>1, AboveGrows
<1>3. S \in SUBSET Module
  OBVIOUS
<1> HIDE DEF S
<1>4. m \in S
  BY <1>1, <1>2, <1>3
<1> QED BY <1>4 DEF S

LEMMA CausedStays ==
  ASSUME fallen \subseteq fallen', NEW m \in Module, Caused(m)
  PROVE  Caused(m)'
BY DEF Caused, Above, Upstream

\* A step that writes rows keeps the causes if it skips only what has one
\* and handlers and the user come to hold nothing else.
LEMMA WriteCaused ==
  ASSUME Known, Causes, NEW M \in SUBSET Module, NEW s \in Status, WriteRuns(M, s),
         s = "skipped" => \A m \in M : Caused(m),
         \A h \in Handler :
           /\ hand'[h].pc = "look" => hand'[h] = hand[h]
           /\ hand'[h].pc = "mark" /\ hand'[h].to = "skipped" =>
                \A m \in hand'[h].todo : m \in Module /\ Caused(m),
         user'.pc = "rows" /\ user'.to = "skipped" =>
           \A m \in user'.todo : m \in Module /\ Caused(m)
  PROVE  Causes'
<1>1. /\ fallen \subseteq fallen'
      /\ s \in {"failed", "cancelled"} => M \subseteq fallen'
      /\ \A m \in Module :
           /\ m \in M => runs'[m].status = s
           /\ m \notin M => runs'[m].status = runs[m].status
  BY WriteEffect DEF Known
<1>2. \A m \in Module : Caused(m) => Caused(m)'
  BY <1>1, CausedStays
<1>3. \A m \in Module :
        /\ runs'[m].status \in {"failed", "cancelled"} => m \in fallen'
        /\ runs'[m].status = "skipped" => Caused(m)
  BY <1>1 DEF Causes
<1>4. \A h \in Handler : hand'[h].pc = "look" /\ hand'[h].to \in {"failed", "cancelled"} =>
        hand'[h].run \in fallen'
  BY <1>1 DEF Causes
<1> QED BY <1>2, <1>3, <1>4 DEF Causes

\* So does a step that writes none.
LEMMA SameRowsCaused ==
  ASSUME Known, Causes, KeepRuns,
         \A h \in Handler :
           /\ hand'[h].pc = "look" /\ hand'[h].to \in {"failed", "cancelled"} =>
                hand'[h].run \in fallen
           /\ hand'[h].pc = "mark" /\ hand'[h].to = "skipped" =>
                \A m \in hand'[h].todo : m \in Module /\ Caused(m),
         user'.pc = "rows" /\ user'.to = "skipped" =>
           \A m \in user'.todo : m \in Module /\ Caused(m)
  PROVE  Causes'
<1>1. \A m \in Module : Caused(m) => Caused(m)'
  BY CausedStays DEF KeepRuns
<1> QED BY <1>1 DEF Causes, KeepRuns

LEMMA UserAtWork ==
  ASSUME Known PROVE user.todo \subseteq Module
BY DEF Known, TypeOK

\* A row that becomes pending or queued needs no cause.
LEMMA QueuedCaused ==
  ASSUME Known, Causes, UNCHANGED <<hand, fallen>>,
         UNCHANGED user \/ user' = IdleUser,
         \A m \in Module :
           runs'[m] = runs[m] \/ runs'[m].status \in {"queued", "pending"}
  PROVE  Causes'
<1>1. \A m \in Module : Caused(m) => Caused(m)'
  BY CausedStays
<1> QED BY <1>1, HandsAtWork, UserAtWork DEF Causes, IdleUser

LEMMA StartCaused ==
  ASSUME Known, Causes, StartStep \/ \E m \in Module : DequeueNextModuleRun(m)
  PROVE  Causes'
<1>1. ASSUME NEW m \in Module, InsertRun(m) \/ DequeueNextModuleRun(m)
      PROVE  Causes'
  <2>1. \A d \in Module :
          runs'[d] = runs[d] \/ runs'[d].status \in {"queued", "pending"}
    BY <1>1 DEF InsertRun, DequeueNextModuleRun, Dequeued, Known, TypeOK, RowType
  <2>2. UNCHANGED <<hand, user, fallen>>
    BY <1>1 DEF InsertRun, DequeueNextModuleRun
  <2> QED BY <2>1, <2>2, QueuedCaused
<1>2. ASSUME NEW m \in Module, CreateModuleRun(m) PROVE Causes'
  BY <1>2, HandsAtWork, UserAtWork, SameRowsCaused DEF CreateModuleRun, Causes
<1>3. CASE FinishStart
  BY <1>3, HandsAtWork, UserAtWork, SameRowsCaused DEF FinishStart, Causes
<1> QED BY <1>1, <1>2, <1>3 DEF StartStep

LEMMA HandlerCaused ==
  ASSUME Known, Causes, NEW h \in Handler, HandlerStep(h)
  PROVE  Causes'
<1> USE HandsAtWork, UserAtWork
<1>1. CASE WriteStatus(h)
  <2>1. hand[h].run \in Module /\ hand[h].to \in Status \ {"skipped"}
    BY <1>1 DEF Known, HandsKnow, WriteStatus, Status
  <2>2. \A g \in Handler : hand'[g].pc \in {"look", "mark"} => hand'[g] = hand[g]
    BY <1>1 DEF Known, TypeOK, HandType, WriteStatus, IdleHand
  <2> QED BY <1>1, <2>1, <2>2, WriteCaused DEF WriteStatus, Causes
<1>2. CASE Notify(h)
  <2>1. hand[h].run \in Module
    BY <1>2 DEF Known, HandsKnow, Notify
  <2>2. \A g \in Handler :
          \/ hand'[g] = hand[g]
          \/ /\ hand'[g].pc = "look" /\ hand'[g].run = hand[h].run
             /\ hand'[g].to = runs[hand[h].run].status
    BY <1>2 DEF Known, TypeOK, HandType, Notify
  <2> QED BY <1>2, <2>1, <2>2, SameRowsCaused DEF Notify, Causes
<1>3. CASE Look(h)
  <2>1. \A g \in Handler :
          \/ hand'[g] = hand[g]
          \/ hand'[g].pc = "mark" /\ hand'[g].to = "queued"
          \/ hand'[g].pc = "count"
          \/ /\ hand[h].to \in {"failed", "cancelled"}
             /\ hand'[g].pc = "mark" /\ hand'[g].todo = Doomed(hand[h].run)
    BY <1>3 DEF Known, TypeOK, HandType, Look
  <2>2. hand[h].run \in Module /\ hand[h].pc = "look"
    BY <1>3 DEF Known, HandsKnow, Look
  <2>3. hand[h].to \in {"failed", "cancelled"} =>
          \A m \in Doomed(hand[h].run) : m \in Module /\ Caused(m)
    BY <2>2, DoomedIsBelow DEF Caused, Causes
  <2> QED BY <1>3, <2>1, <2>3, SameRowsCaused DEF Look, Causes
<1>4. CASE Mark(h)
  <2>1. hand[h].to \in Status /\ hand[h].pc = "mark"
    BY <1>4 DEF Known, HandsKnow, Mark
  <2>2. \A g \in Handler :
          /\ hand'[g].pc = "look" => hand'[g] = hand[g]
          /\ hand'[g].pc = "mark" =>
               hand'[g].to = hand[g].to /\ hand[g].pc = "mark" /\ hand'[g].todo \subseteq hand[g].todo
    <3>1. \/ \E d \in hand[h].todo : hand' = [hand EXCEPT ![h].todo = @ \ {d}]
          \/ hand' = [hand EXCEPT ![h].pc = "count"]
      BY <1>4 DEF Mark
    <3>2. hand \in [Handler -> HandType]
      BY DEF Known, TypeOK
    <3> QED BY <2>1, <3>1, <3>2 DEF HandType
  <2>3. ASSUME NEW d \in hand[h].todo, WriteRuns({d}, hand[h].to) PROVE Causes'
    <3>1. {d} \in SUBSET Module
      OBVIOUS
    <3>2. hand[h].to = "skipped" => \A m \in {d} : Caused(m)
      BY <2>1 DEF Causes
    <3>3. UNCHANGED user
      BY <1>4 DEF Mark
    <3> QED BY <2>1, <2>2, <2>3, <3>1, <3>2, <3>3, WriteCaused DEF Causes
  <2>4. CASE KeepRuns
    BY <1>4, <2>2, <2>4, SameRowsCaused DEF Mark, Causes
  <2> QED BY <1>4, <2>3, <2>4 DEF Mark
<1>5. CASE Count(h) \/ ReadEnvironmentRun(h) \/ UpdateCounters(h)
  <2>1. \A g \in Handler : hand'[g].pc \in {"look", "mark"} => hand'[g] = hand[g]
    BY <1>5 DEF Known, TypeOK, HandType, Count, ReadEnvironmentRun, UpdateCounters, IdleHand
  <2> QED BY <1>5, <2>1, SameRowsCaused
          DEF Count, ReadEnvironmentRun, UpdateCounters, Causes
<1> QED BY <1>1, <1>2, <1>3, <1>4, <1>5 DEF HandlerStep

LEMMA CallbackCaused ==
  ASSUME Known, Causes, NEW w \in Worker, NEW m \in Module, NEW s \in Posts,
         StatusCallback(w, m, s)
  PROVE  Causes'
<1>1. w \in Handler /\ s \in {"running", "planned", "succeeded", "failed", "timed_out"}
  BY EnvironmentRunAssumption DEF Handler
<1>2. \A g \in Handler : hand'[g].pc \in {"look", "mark"} => hand'[g] = hand[g]
  BY <1>1, BeginEffect DEF StatusCallback, Known
<1> QED BY <1>2, HandsAtWork, UserAtWork, SameRowsCaused DEF StatusCallback, Causes

LEMMA DispatcherLooksAtNothing ==
  ASSUME Known, NEW m \in Module,
         \/ UNCHANGED hand
         \/ Begin(Dispatcher, m, "failed") \/ Begin(Dispatcher, m, "timed_out")
  PROVE  \A g \in Handler : hand'[g].pc \in {"look", "mark"} => hand'[g] = hand[g]
<1>1. Dispatcher \in Handler
  BY DEF Handler
<1>2. CASE UNCHANGED hand
  BY <1>2
<1>3. ASSUME NEW s \in {"failed", "timed_out"}, Begin(Dispatcher, m, s)
      PROVE  \A g \in Handler : hand'[g].pc \in {"look", "mark"} => hand'[g] = hand[g]
  BY <1>1, <1>3, BeginEffect DEF Known
<1> QED BY <1>2, <1>3

LEMMA DispatcherCaused ==
  ASSUME Known, Causes, PollStep \/ RecoveryStep \/ Restart
  PROVE  Causes'
<1> USE HandsAtWork, UserAtWork
<1>1. CASE ListQueued \/ EndPoll \/ ListRunning \/ FinishRecovery
  BY <1>1, SameRowsCaused DEF ListQueued, EndPoll, ListRunning, FinishRecovery, Causes
<1>2. ASSUME NEW m \in Module, DispatchRun(m) PROVE Causes'
  BY <1>2, WriteCaused DEF DispatchRun, Causes, Status
<1>3. CASE Launch
  <2>1. poll.run \in Module
    BY <1>3 DEF Launch, Known, OthersKnow
  <2>2. \A g \in Handler : hand'[g].pc \in {"look", "mark"} => hand'[g] = hand[g]
    BY <1>3, <2>1, DispatcherLooksAtNothing DEF Launch
  <2> QED BY <1>3, <2>2, SameRowsCaused DEF Launch, Causes
<1>4. ASSUME NEW m \in Module, RecoverRun(m) PROVE Causes'
  <2>1. \A g \in Handler : hand'[g].pc \in {"look", "mark"} => hand'[g] = hand[g]
    BY <1>4, DispatcherLooksAtNothing DEF RecoverRun
  <2> QED BY <1>4, <2>1, SameRowsCaused DEF RecoverRun, Causes
<1>5. CASE Restart
  BY <1>5, SameRowsCaused DEF Restart, IdleHand, IdleUser
<1> QED BY <1>1, <1>2, <1>3, <1>4, <1>5 DEF PollStep, RecoveryStep

LEMMA RequestCaused ==
  ASSUME Known, Causes, Request \/ UserStep
  PROVE  Causes'
<1> USE HandsAtWork, UserAtWork
<1>1. ASSUME NEW X \in SUBSET Module, ConfirmEnvironmentRun(X) PROVE Causes'
  <2> DEFINE out == {m \in Module : \A S \in SUBSET Module :
                       X \subseteq S /\ (\A u \in S : Downstream(u) \subseteq S)
                         => m \in S}
  <2>1. /\ user'.todo = out \cap With({"planned"})
        /\ fallen' = fallen \cup X /\ UNCHANGED <<runs, hand>>
    BY <1>1 DEF ConfirmEnvironmentRun, Ask
  <2>2. \A m \in out : Caused(m)'
    <3> SUFFICES ASSUME NEW m \in out PROVE Caused(m)'
      OBVIOUS
    <3>1. Above(m) \cap X # {}
      BY ExcludedIsBelow
    <3> QED BY <2>1, <3>1 DEF Caused, Above, Upstream
  <2>3. \A m \in Module : Caused(m) => Caused(m)'
    BY <2>1, CausedStays
  <2> HIDE DEF out
  <2> QED BY <2>1, <2>2, <2>3 DEF Causes
<1>2. ASSUME CancelEnvironmentRun \/ \E m \in Module :
               CancelRun(m) \/ DiscardRun(m) \/ ConfirmRun(m)
      PROVE  Causes'
  <2>1. UNCHANGED <<runs, hand, reached, fallen>> /\ user'.to # "skipped"
    BY <1>2 DEF CancelEnvironmentRun, CancelRun, DiscardRun, ConfirmRun, Ask
  <2> QED BY <2>1, SameRowsCaused DEF Causes, KeepRuns
<1>3. CASE ExpireEnvironmentRun
  BY <1>3, SameRowsCaused DEF ExpireEnvironmentRun, Causes
<1>5. CASE CloseRequest
  <2>1. \A m \in Module :
          runs'[m] = runs[m] \/ runs'[m].status \in {"queued", "pending"}
    BY <1>5 DEF CloseRequest, Dequeued, Known, TypeOK, RowType
  <2> QED BY <1>5, <2>1, QueuedCaused DEF CloseRequest
<1>4. ASSUME NEW m \in Module, WriteRow(m) PROVE Causes'
  <2>1. user.to \in Status /\ user.pc = "rows"
    BY <1>4 DEF WriteRow, Known, OthersKnow, Status
  <2>2. user'.to = user.to /\ user'.todo \subseteq user.todo /\ UNCHANGED hand
    BY <1>4 DEF WriteRow, Known, TypeOK
  <2>3. user.to = "skipped" => \A d \in {m} : Caused(d)
    BY <1>4, <2>1 DEF WriteRow, Causes
  <2>4. WriteRuns({m}, user.to) /\ {m} \in SUBSET Module
    BY <1>4 DEF WriteRow
  <2> QED BY <2>1, <2>2, <2>3, <2>4, WriteCaused DEF Causes
<1> QED BY <1>1, <1>2, <1>3, <1>4, <1>5 DEF Request, UserStep

\* A module is only ever skipped because of one it depends on, or itself,
\* whatever handlers read before the rows changed under them.
THEOREM SkippedModulesHaveACause == Spec => []SkippedHasCause
<1>1. Init => Causes
  BY DEF Init, Causes, NoRow, IdleHand, IdleUser
<1>2. Known /\ Causes /\ [Next]_vars => Causes'
  <2> SUFFICES ASSUME Known, Causes, [Next]_vars PROVE Causes'
    OBVIOUS
  <2>1. CASE UNCHANGED vars
    BY <2>1, SameRowsCaused, HandsAtWork, UserAtWork DEF vars, KeepRuns, Causes
  <2> QED BY <2>1, StartCaused, HandlerCaused, CallbackCaused, DispatcherCaused,
             RequestCaused DEF Next
<1>3. Causes => SkippedHasCause
  BY DEF Causes, Caused, SkippedHasCause, With
<1> QED BY <1>1, <1>2, <1>3, KnownInvariance, PTL DEF Spec

----------------------------------------------------------------------------
(* An environment run that is called succeeded is complete.                *)

\* Nothing happens to the rows before all of them are there.
Quiet ==
  /\ poll.pc = "idle"
  /\ \A h \in Handler : hand[h].pc = "idle"
  /\ \A m \in Module : runner[m] = "none"

\* The outcome a handler has counted, or read, or the run itself says.
OutcomesAreComplete ==
  /\ env = "succeeded" => Active \subseteq reached
  /\ \A h \in Handler : hand[h].env = "succeeded" => Active \subseteq reached

\* No row has a status that no counter counts, or is missing when one counts.
Complete ==
  /\ boot.pc = "up"
  /\ start.pc = "rows" => Quiet
  /\ \A m \in Active :
       runs[m].status = "absent" => start.pc = "rows" /\ m \in start.todo
  /\ \A m \in Module :
       /\ runs[m].status # "timed_out"
       /\ runs[m].status \in Satisfied => m \in reached
  /\ \A h \in Handler : hand[h].pc = "write" => hand[h].to # "timed_out"
  /\ OutcomesAreComplete

LEMMA NoneIsNoOutcome == None # "succeeded"
BY EnvironmentRunAssumption

\* The counters tell success from anything else that is settled.
LEMMA SuccessCountsNothingElse ==
  ASSUME IsFiniteSet(Module), Verdict = "succeeded"
  PROVE  With(Status \ (Satisfied \cup {"absent", "timed_out"})) = {}
<1>1. /\ IsFiniteSet(With({"failed", "cancelled"}))
      /\ IsFiniteSet(With({"skipped", "discarded"}))
  BY FS_Subset DEF With
<1>2. /\ With({"pending", "queued", "running", "confirmed"}) = {}
      /\ Cardinality(With({"failed", "cancelled"})) = 0
      /\ Cardinality(With({"skipped", "discarded"})) = 0
  BY NoneIsNoOutcome DEF Verdict
<1>3. With({"failed", "cancelled"}) = {} /\ With({"skipped", "discarded"}) = {}
  BY <1>1, <1>2, FS_EmptySet
<1> QED BY <1>2, <1>3 DEF With, Status, Satisfied

LEMMA SuccessIsCountedComplete ==
  ASSUME IsFiniteSet(Module), Known, Complete, start.pc # "rows",
         Verdict = "succeeded"
  PROVE  Active \subseteq reached
<1> SUFFICES ASSUME NEW m \in Active PROVE m \in reached
  OBVIOUS
<1>1. m \in Module /\ runs[m].status \in Status \ {"absent", "timed_out"}
  BY DEF Active, Complete, Known, TypeOK, RowType
<1>2. runs[m].status \in Satisfied
  BY <1>1, SuccessCountsNothingElse DEF With
<1> QED BY <1>1, <1>2 DEF Complete

\* A step of the processes that read and write rows once they are all there:
\* the rows M get the status s, or none does.
LEMMA StepComplete ==
  ASSUME Known, Complete, UNCHANGED <<start, boot>>,
         \/ KeepRuns
         \/ \E M \in SUBSET Module, s \in Status \ {"absent", "timed_out"} :
              WriteRuns(M, s),
         start.pc = "rows" => Quiet',
         \A h \in Handler : hand'[h].pc = "write" => hand'[h].to # "timed_out",
         env' = "succeeded" => Active \subseteq reached,
         \A h \in Handler : hand'[h].env = "succeeded" => Active \subseteq reached
  PROVE  Complete'
<1>1. /\ reached \subseteq reached'
      /\ \A m \in Module :
           /\ runs'[m].status = "absent" => runs[m].status = "absent"
           /\ runs'[m].status # "timed_out"
           /\ runs'[m].status \in Satisfied => m \in reached'
  <2>1. CASE KeepRuns
    BY <2>1 DEF KeepRuns, Complete
  <2>2. ASSUME NEW M \in SUBSET Module, NEW s \in Status \ {"absent", "timed_out"},
               WriteRuns(M, s)
        PROVE  /\ reached \subseteq reached'
               /\ \A m \in Module :
                    /\ runs'[m].status = "absent" => runs[m].status = "absent"
                    /\ runs'[m].status # "timed_out"
                    /\ runs'[m].status \in Satisfied => m \in reached'
    <3>1. /\ reached \subseteq reached'
          /\ s \in Satisfied => M \subseteq reached'
          /\ \A m \in Module :
               /\ m \in M => runs'[m].status = s
               /\ m \notin M => runs'[m].status = runs[m].status
      BY <2>2, WriteEffect DEF Known
    <3> QED BY <3>1 DEF Complete
  <2> QED BY <2>1, <2>2
<1>2. Active \subseteq Module
  BY DEF Active
<1> QED BY <1>1, <1>2 DEF Complete, OutcomesAreComplete, Active

LEMMA StartComplete ==
  ASSUME Known, Complete, StartStep \/ \E m \in Module : DequeueNextModuleRun(m)
  PROVE  Complete'
<1>1. ASSUME NEW m \in Module, InsertRun(m) \/ DequeueNextModuleRun(m)
      PROVE  Complete'
  <2>1. \A d \in Module :
          \/ runs'[d] = runs[d]
          \/ d = m /\ runs'[d].status \in {"queued", "pending"}
    BY <1>1 DEF InsertRun, DequeueNextModuleRun, Dequeued, Known, TypeOK, RowType
  <2>2. /\ UNCHANGED <<env, hand, poll, boot, runner, reached>>
        /\ start'.pc = start.pc
        /\ \A d \in Active : d \in start.todo => d \in start'.todo \/ d = m
    <3>1. CASE InsertRun(m) BY <3>1 DEF InsertRun, Known, TypeOK
    <3>2. CASE DequeueNextModuleRun(m) BY <3>2 DEF DequeueNextModuleRun
    <3> QED BY <1>1, <3>1, <3>2
  <2>3. runs'[m].status # "absent" \/ UNCHANGED <<runs, start>>
    BY <1>1 DEF InsertRun, DequeueNextModuleRun, Dequeued, Known, TypeOK, RowType
  <2>4. \A d \in Active : d \in Module
    BY DEF Active
  <2> QED BY <2>1, <2>2, <2>3, <2>4
          DEF Complete, Quiet, OutcomesAreComplete, Active, Satisfied
<1>2. CASE FinishStart
  <2>1. start'.pc = "done" /\ \A m \in Active : runs[m].status # "absent"
    BY <1>2 DEF FinishStart, Complete, Known, TypeOK
  <2>2. env' # "succeeded" /\ UNCHANGED <<runs, reached, hand, boot>>
    BY <1>2 DEF FinishStart, KeepRuns
  <2> QED BY <2>1, <2>2 DEF Complete, OutcomesAreComplete, Active
<1>3. ASSUME NEW m \in Module, CreateModuleRun(m) PROVE Complete'
  <2>1. /\ UNCHANGED <<runs, reached, env, hand, poll, boot, runner>>
        /\ start'.pc = start.pc /\ start'.todo = start.todo
    BY <1>3 DEF CreateModuleRun, KeepRuns, Known, TypeOK
  <2> QED BY <2>1 DEF Complete, Quiet, OutcomesAreComplete, Active
<1> QED BY <1>1, <1>2, <1>3 DEF StartStep

LEMMA HandlerComplete ==
  ASSUME IsFiniteSet(Module), Known, Complete, NEW h \in Handler, HandlerStep(h)
  PROVE  Complete'
<1>1. hand[h] \in HandType /\ hand[h].pc # "idle" /\ start.pc # "rows"
  BY HandsAtWork DEF HandlerStep, WriteStatus, Notify, Look, Mark, Count,
     ReadEnvironmentRun, UpdateCounters, Complete, Quiet
<1>2. /\ UNCHANGED <<start, boot>>
      /\ UNCHANGED env \/ UpdateCounters(h)
  BY DEF HandlerStep, WriteStatus, Notify, Look, Mark, Count, ReadEnvironmentRun,
     UpdateCounters
<1>3. \/ KeepRuns
      \/ \E M \in SUBSET Module, s \in Status \ {"absent", "timed_out"} : WriteRuns(M, s)
  <2>1. CASE WriteStatus(h)
    <3>1. {hand[h].run} \in SUBSET Module /\ hand[h].to \in Status \ {"absent", "timed_out"}
      BY <2>1 DEF WriteStatus, Known, HandsKnow, Complete, Status
    <3> QED BY <2>1, <3>1 DEF WriteStatus
  <2>2. CASE Mark(h)
    <3>1. hand[h].todo \subseteq Module /\ hand[h].to \in Status \ {"absent", "timed_out"}
      BY <1>1, <2>2 DEF Mark, Known, HandsKnow, HandType, Status
    <3> QED BY <2>2, <3>1 DEF Mark
  <2> QED BY <2>1, <2>2
          DEF HandlerStep, Notify, Look, Count, ReadEnvironmentRun, UpdateCounters
<1>4. env' = "succeeded" => Active \subseteq reached
  BY <1>2 DEF UpdateCounters, Complete, OutcomesAreComplete
<1>5. \A g \in Handler \ {h} : hand'[g] = hand[g]
  BY DEF Known, TypeOK, HandlerStep, WriteStatus, Notify, Look, Mark, Count,
     ReadEnvironmentRun, UpdateCounters
<1>6. /\ hand'[h].pc # "write"
      /\ hand'[h].env \in {hand[h].env, None, env, Verdict}
  <2>1. hand \in [Handler -> HandType]
    BY DEF Known, TypeOK
  <2>2. CASE WriteStatus(h) \/ Notify(h)
    BY <2>1, <2>2 DEF HandType, IdleHand, WriteStatus, Notify
  <2>3. CASE Look(h)
    BY <2>1, <2>3 DEF HandType, Look
  <2>4. CASE Mark(h)
    <3>1. \/ \E d \in hand[h].todo : hand' = [hand EXCEPT ![h].todo = @ \ {d}]
          \/ hand' = [hand EXCEPT ![h].pc = "count"]
      BY <2>4 DEF Mark
    <3>2. hand[h].pc = "mark"
      BY <2>4 DEF Mark
    <3> QED BY <2>1, <3>1, <3>2 DEF HandType
  <2>5. CASE Count(h)
    BY <2>1, <2>5 DEF HandType, Count
  <2>6. CASE ReadEnvironmentRun(h) \/ UpdateCounters(h)
    BY <2>1, <2>6 DEF HandType, IdleHand, ReadEnvironmentRun, UpdateCounters
  <2> QED BY <2>2, <2>3, <2>4, <2>5, <2>6 DEF HandlerStep
<1>7. \A g \in Handler : hand'[g].env = "succeeded" => Active \subseteq reached
  <2>1. None # "succeeded"
    BY NoneIsNoOutcome
  <2>2. Verdict = "succeeded" => Active \subseteq reached
    BY <1>1, SuccessIsCountedComplete
  <2> QED BY <1>5, <1>6, <2>1, <2>2 DEF Complete, OutcomesAreComplete
<1>8. \A g \in Handler : hand'[g].pc = "write" => hand'[g].to # "timed_out"
  BY <1>5, <1>6 DEF Complete
<1> QED BY <1>1, <1>2, <1>3, <1>4, <1>7, <1>8, StepComplete

LEMMA CallbackComplete ==
  ASSUME Known, Complete, NEW w \in Worker, NEW m \in Module, NEW s \in Posts,
         StatusCallback(w, m, s)
  PROVE  Complete'
<1>1. /\ w \in Handler
      /\ s \in {"running", "planned", "succeeded", "failed"}
  BY EnvironmentRunAssumption DEF Handler
<1>2. start.pc # "rows"
  BY <1>1 DEF StatusCallback, Complete, Quiet
<1>3. \A g \in Handler :
        \/ hand'[g] = hand[g]
        \/ hand'[g].to = s /\ hand'[g].env = None
  BY <1>1 DEF StatusCallback, Begin, IdleHand, Known, TypeOK
<1>4. None # "succeeded"
  BY NoneIsNoOutcome
<1>5. UNCHANGED <<start, boot, env>> /\ KeepRuns
  BY DEF StatusCallback
<1>6. \A g \in Handler :
        /\ hand'[g].pc = "write" => hand'[g].to # "timed_out"
        /\ hand'[g].env = "succeeded" => Active \subseteq reached
  BY <1>1, <1>3, <1>4 DEF Complete, OutcomesAreComplete
<1>7. env' = "succeeded" => Active \subseteq reached
  BY <1>5 DEF Complete, OutcomesAreComplete
<1> QED BY <1>2, <1>5, <1>6, <1>7, StepComplete

LEMMA PollComplete ==
  ASSUME Prompt, Known, Complete, PollStep
  PROVE  Complete'
<1>1. UNCHANGED <<start, boot, env>> /\ start.pc # "rows"
  BY DEF PollStep, ListQueued, EndPoll, DispatchRun, Launch, Complete, Quiet, Known, TypeOK
<1>2. KeepRuns \/ \E m \in Module : WriteRuns({m}, "running")
  BY DEF PollStep, ListQueued, EndPoll, DispatchRun, Launch
<1>3. UNCHANGED hand \/ Begin(Dispatcher, poll.run, "failed")
  BY DEF PollStep, ListQueued, EndPoll, DispatchRun, Launch
<1>4. \A g \in Handler :
        \/ hand'[g] = hand[g]
        \/ hand'[g].to = "failed" /\ hand'[g].env = None
  <2>1. hand \in [Handler -> HandType]
    BY DEF Known, TypeOK
  <2>2. CASE UNCHANGED hand
    BY <2>2
  <2>3. CASE Begin(Dispatcher, poll.run, "failed")
    <3>1. hand' = [hand EXCEPT ![Dispatcher] =
                    [IdleHand EXCEPT !.pc = "write", !.run = poll.run, !.to = "failed"]]
      BY <2>3 DEF Begin
    <3> QED BY <2>1, <3>1 DEF IdleHand
  <2> QED BY <1>3, <2>2, <2>3
<1>5. None # "succeeded"
  BY NoneIsNoOutcome
<1>6. \A g \in Handler :
        /\ hand'[g].pc = "write" => hand'[g].to # "timed_out"
        /\ hand'[g].env = "succeeded" => Active \subseteq reached
  BY <1>4, <1>5 DEF Complete, OutcomesAreComplete
<1>7. \/ KeepRuns
      \/ \E M \in SUBSET Module, s \in Status \ {"absent", "timed_out"} : WriteRuns(M, s)
  BY <1>2 DEF Status
<1>8. env' = "succeeded" => Active \subseteq reached
  BY <1>1 DEF Complete, OutcomesAreComplete
<1> QED BY <1>1, <1>6, <1>7, <1>8, StepComplete

LEMMA RequestComplete ==
  ASSUME Known, Complete, Request \/ UserStep
  PROVE  Complete'
<1>1. UNCHANGED <<start, boot, hand, poll, runner>>
  BY DEF Request, UserStep, Ask, CancelEnvironmentRun, ExpireEnvironmentRun,
     ConfirmEnvironmentRun, CancelRun, DiscardRun, ConfirmRun, WriteRow, CloseRequest
<1>2. env' = "succeeded" => env = "succeeded"
  BY EnvironmentRunAssumption
     DEF Request, UserStep, Ask, CancelEnvironmentRun, ExpireEnvironmentRun,
     ConfirmEnvironmentRun, CancelRun, DiscardRun, ConfirmRun, WriteRow, CloseRequest,
     Known, TypeOK
<1>3. \/ /\ UNCHANGED reached
         /\ \A m \in Module : runs'[m] = runs[m] \/ runs'[m].status = "queued"
      \/ \E m \in Module : WriteRow(m)
  <2>1. CASE Request
    BY <2>1 DEF Request, Ask, CancelEnvironmentRun, ExpireEnvironmentRun, KeepRuns,
       ConfirmEnvironmentRun, CancelRun, DiscardRun, ConfirmRun
  <2>2. CASE CloseRequest
    BY <2>2 DEF CloseRequest, Dequeued, Known, TypeOK
  <2> QED BY <2>1, <2>2 DEF UserStep
<1>4. CASE /\ UNCHANGED reached
           /\ \A m \in Module : runs'[m] = runs[m] \/ runs'[m].status = "queued"
  BY <1>1, <1>2, <1>4 DEF Complete, Quiet, OutcomesAreComplete, Active, Satisfied
<1>5. ASSUME NEW m \in Module, WriteRow(m) PROVE Complete'
  <2>1. user.to \in Status \ {"absent", "timed_out"} /\ WriteRuns({m}, user.to)
    BY <1>5 DEF WriteRow, Known, OthersKnow, Status
  <2>2. \E M \in SUBSET Module, s \in Status \ {"absent", "timed_out"} : WriteRuns(M, s)
    BY <2>1
  <2>3. /\ start.pc = "rows" => Quiet'
        /\ env' = "succeeded" => Active \subseteq reached
        /\ \A h \in Handler :
             /\ hand'[h].pc = "write" => hand'[h].to # "timed_out"
             /\ hand'[h].env = "succeeded" => Active \subseteq reached
    BY <1>1, <1>2 DEF Complete, Quiet, OutcomesAreComplete
  <2> QED BY <1>1, <2>2, <2>3, StepComplete
<1> QED BY <1>3, <1>4, <1>5

\* An environment run is only ever called succeeded when every active module
\* has been planned or applied, with any modules, handlers and requests of
\* users, if the backend does not restart and the first poll comes after the
\* last row.
THEOREM SucceededRunsAreComplete ==
  ASSUME IsFiniteSet(Module), Prompt, MaxRestarts = 0
  PROVE  Spec => []SuccessIsComplete
<1>1. Init => Complete
  BY NoneIsNoOutcome
     DEF Init, Complete, Quiet, OutcomesAreComplete, NoRow, IdleHand, IdlePoll,
         Satisfied, Active
<1>2. Known /\ Complete /\ [Next]_vars => Complete'
  <2> SUFFICES ASSUME Known, Complete, [Next]_vars PROVE Complete'
    OBVIOUS
  <2>1. CASE UNCHANGED vars
    BY <2>1 DEF vars, Complete, Quiet, OutcomesAreComplete
  <2>2. ~Restart
    BY DEF Restart, Known, TypeOK
  <2>3. ~RecoveryStep
    BY DEF RecoveryStep, ListRunning, RecoverRun, FinishRecovery, Complete
  <2> QED BY <2>1, <2>2, <2>3, StartComplete, HandlerComplete, CallbackComplete,
             PollComplete, RequestComplete DEF Next
<1>3. Complete => SuccessIsComplete
  BY DEF Complete, OutcomesAreComplete, SuccessIsComplete
<1> QED BY <1>1, <1>2, <1>3, KnownInvariance, PTL DEF Spec

----------------------------------------------------------------------------
(* No module is forgotten: the safety part of EveryModuleSettles.          *)

\* A handler is about to queue or skip m.
Listed(m) == \E h \in Handler : hand[h].pc = "mark" /\ m \in hand[h].todo

\* A handler is about to look below u, whose outcome it may find in S.
Reporting(u, S) ==
  \E h \in Handler :
    /\ hand[h].run = u
    /\ hand[h].pc = "notify" \/ (hand[h].pc = "look" /\ hand[h].to \in S)

\* The outcome of some module above m is still to come: when all of them
\* are satisfied, one is about to be reported, and so is one that failed.
Awaits(m) ==
  /\ Upstream(m) \subseteq With(Satisfied) =>
       \E u \in Upstream(m) : Reporting(u, Satisfied)
  /\ \A u \in Upstream(m) :
       /\ runs[u].status = "failed" => Reporting(u, {"failed"})
       /\ runs[u].status # "skipped"

\* Somebody reports how m ends.
Reported(m) ==
  \/ poll.pc = "launch" /\ poll.run = m
  \/ runner[m] \in {"idle", "running"}
  \/ \E h \in Handler :
       hand[h].run = m /\ hand[h].pc = "write" /\ hand[h].to # "running"

\* Every row that is not settled has somebody who settles it.
RowTended(m) ==
  /\ runs[m].status \in Status \ {"confirmed", "cancelled", "timed_out", "discarded"}
  /\ runs[m].status = "pending" /\ ~runs[m].waits /\ ~Listed(m) => Awaits(m)
  /\ runs[m].status = "running" => Reported(m)

\* A progress post is of a live runner, and whoever skips a module skips what
\* is pending below it too.
HandTended(h) ==
  /\ hand[h].pc = "write" /\ hand[h].to = "running" =>
       h # Dispatcher /\ runner[hand[h].run] \in {"idle", "running"}
  /\ hand[h].pc = "mark" /\ hand[h].to = "skipped" =>
       \A d \in hand[h].todo : Downstream(d) \cap With({"pending"}) \subseteq hand[h].todo

Tended ==
  /\ user.pc = "idle"
  /\ start.pc = "rows" => \A m \in Active : runs[m].status \in {"absent", "pending", "queued"}
  /\ poll.pc = "launch" => hand[Dispatcher].pc = "idle"
  /\ \A m \in Active : RowTended(m)
  /\ \A h \in Handler : HandTended(h)

\* Modules that take part depend on such modules only.
ActiveBelowActive == \A m \in Active : Upstream(m) \subseteq Active

LEMMA TakesPart ==
  ASSUME ActiveBelowActive, NEW m \in Active
  PROVE  m \in Module /\ Upstream(m) \subseteq Active /\ Upstream(m) \subseteq Module
BY DEF ActiveBelowActive, Active, Upstream

\* A step that writes no row, and after which whoever looked still looks.
LEMMA RowsLeftAlone ==
  ASSUME ActiveBelowActive, NEW m \in Active, RowTended(m), UNCHANGED <<runs, busy>>,
         Listed(m) => Listed(m)',
         \A u \in Module :
           /\ runs[u].status \in Satisfied /\ Reporting(u, Satisfied) =>
                Reporting(u, Satisfied)'
           /\ runs[u].status = "failed" /\ Reporting(u, {"failed"}) =>
                Reporting(u, {"failed"})',
         runs[m].status = "running" => Reported(m)'
  PROVE  RowTended(m)'
<1>1. m \in Module /\ Upstream(m) \subseteq Module BY TakesPart
<1>2. Awaits(m) => Awaits(m)'
  <2>1. UNCHANGED <<Upstream(m), With(Satisfied)>> BY DEF Upstream, With
  <2>2. \A u \in Upstream(m) : u \in With(Satisfied) => runs[u].status \in Satisfied BY DEF With
  <2> QED BY <1>1, <2>1, <2>2 DEF Awaits
<1> QED BY <1>2 DEF RowTended

LEMMA StartTended ==
  ASSUME ActiveBelowActive, Known, Complete, Tended,
         StartStep \/ \E m \in Module : DequeueNextModuleRun(m)
  PROVE  Tended'
<1>1. ASSUME NEW m \in Module, InsertRun(m) PROVE Tended'
  <2>1. /\ start.pc = "rows" /\ m \in Active
        /\ runs' = [runs EXCEPT ![m] =
             [status |-> IF Root(m) /\ ~start.waits THEN "queued" ELSE "pending",
              waits  |-> start.waits]]
        /\ start'.pc = "rows"
        /\ UNCHANGED <<busy, hand, poll, runner, user>>
    BY <1>1, EnvironmentRunAssumption DEF InsertRun, Known, TypeOK
  <2>2. Quiet BY <2>1 DEF Complete
  <2>3. \A d \in Active : runs'[d].status \in {"absent", "pending", "queued"}
    BY <2>1 DEF Tended, Known, TypeOK, RowType
  <2>4. \A d \in Active : ~Listed(d) /\ ~Listed(d)'
    BY <2>1, <2>2 DEF Quiet, Listed
  <2>5. \A u : ~Reporting(u, Satisfied)
    BY <2>2 DEF Quiet, Reporting
  <2>6. ASSUME NEW d \in Active PROVE RowTended(d)'
    <3>1. d \in Module /\ Upstream(d) \subseteq Active BY TakesPart
    <3>3. ASSUME runs'[d].status = "pending", ~runs'[d].waits PROVE Awaits(d)'
      <4>1. Upstream(d) # {}
        <5>1. CASE d = m
          BY <2>1, <3>3, <5>1 DEF Root, Known, TypeOK
        <5>2. CASE d # m
          <6>1. Awaits(d)
            BY <2>1, <2>4, <3>1, <3>3, <5>2 DEF Tended, RowTended, Known, TypeOK
          <6> QED BY <2>5, <6>1 DEF Awaits
        <5> QED BY <5>1, <5>2
      <4>2. \A u \in Upstream(d) : runs'[u].status \in {"pending", "queued", "absent"}
        BY <2>3, <3>1
      <4> QED BY <4>1, <4>2 DEF Awaits, With, Satisfied, Upstream
    <3> QED BY <2>3, <3>1, <3>3 DEF RowTended, Status
  <2>7. ASSUME NEW h \in Handler PROVE HandTended(h)'
    BY <2>1, <2>2 DEF Quiet, HandTended
  <2> QED BY <2>1, <2>3, <2>6, <2>7 DEF Tended
<1>2. CASE FinishStart
  <2>1. UNCHANGED <<runs, busy, hand, poll, runner, user>> /\ start'.pc # "rows"
    BY <1>2 DEF FinishStart, KeepRuns, Known, TypeOK
  <2>2. \A m \in Active : RowTended(m)'
    BY <2>1 DEF Tended, RowTended, Listed, Awaits, Reporting, Reported, With
  <2>3. \A h \in Handler : HandTended(h)'
    BY <2>1 DEF Tended, HandTended, With
  <2> QED BY <2>1, <2>2, <2>3 DEF Tended
<1>4. ASSUME NEW m \in Module, CreateModuleRun(m) PROVE Tended'
  <2>1. UNCHANGED <<runs, busy, hand, poll, runner, user>> /\ start'.pc = start.pc
    BY <1>4 DEF CreateModuleRun, KeepRuns, Known, TypeOK
  <2>2. \A d \in Active : RowTended(d)'
    BY <2>1 DEF Tended, RowTended, Listed, Awaits, Reporting, Reported, With
  <2>3. \A h \in Handler : HandTended(h)'
    BY <2>1 DEF Tended, HandTended, With
  <2> QED BY <2>1, <2>2, <2>3 DEF Tended
<1>3. ASSUME NEW m \in Module, DequeueNextModuleRun(m) PROVE Tended'
  <2>1. /\ UNCHANGED <<hand, poll, runner, user, start>>
        /\ busy' = busy \ {m}
        /\ \A d \in Module \ {m} : runs'[d] = runs[d]
        /\ ~runs'[m].waits
        /\ runs'[m].status = "queued" \/ runs'[m] = runs[m]
    BY <1>3 DEF DequeueNextModuleRun, Dequeued, Known, TypeOK, RowType
  <2>2. ASSUME NEW d \in Active PROVE RowTended(d)'
    <3>1. d \in Module /\ Upstream(d) \subseteq Module /\ RowTended(d) BY TakesPart DEF Tended
    <3>3. ASSUME runs'[d].status = "pending", ~runs'[d].waits, ~Listed(d)' PROVE Awaits(d)'
      <4>1. runs'[d] = runs[d] /\ ~Listed(d) /\ Awaits(d)
        BY <2>1, <3>1, <3>3 DEF RowTended, Listed
      <4>2. /\ Upstream(d) \subseteq With(Satisfied)' => Upstream(d) \subseteq With(Satisfied)
            /\ \A u \in Upstream(d) : runs'[u].status \in {"queued", runs[u].status}
        BY <2>1, <3>1 DEF With, Satisfied
      <4>3. \A u, S : Reporting(u, S) => Reporting(u, S)' BY <2>1 DEF Reporting
      <4> QED BY <4>1, <4>2, <4>3 DEF Awaits, Upstream
    <3>4. runs'[d].status = "running" => Reported(d)'
      BY <2>1, <3>1 DEF RowTended, Reported
    <3> QED BY <2>1, <3>1, <3>3, <3>4 DEF RowTended, Status
  <2>3. ASSUME NEW h \in Handler PROVE HandTended(h)'
    <3>1. With({"pending"})' \subseteq With({"pending"}) BY <2>1 DEF With
    <3> QED BY <2>1, <3>1 DEF Tended, HandTended, Downstream
  <2>4. \A d \in Active : d \in Module BY DEF Active
  <2> QED BY <2>1, <2>2, <2>3, <2>4 DEF Tended
<1> QED BY <1>1, <1>2, <1>3, <1>4 DEF StartStep

LEMMA CallbackTended ==
  ASSUME ActiveBelowActive, Known, Tended,
         NEW w \in Worker, NEW m \in Module, NEW s \in Posts, StatusCallback(w, m, s)
  PROVE  Tended'
<1>1. /\ w \in Handler /\ w # Dispatcher
      /\ s \in {"running", "planned", "succeeded", "failed", "timed_out"}
  BY EnvironmentRunAssumption DEF Handler
<1>2. /\ hand[w].pc = "idle" /\ hand'[w].pc = "write" /\ hand'[w].run = m /\ hand'[w].to = s
      /\ \A g \in Handler \ {w} : hand'[g] = hand[g]
  BY <1>1, BeginEffect DEF StatusCallback, Known
<1>3. /\ UNCHANGED <<runs, busy, poll, start, user>>
      /\ runner' = [runner EXCEPT ![m] = s]
      /\ \A v \in Worker : hand[v].run # m
  BY DEF StatusCallback, KeepRuns
<1>4. ASSUME NEW d \in Active PROVE RowTended(d)'
  <2>1. RowTended(d) BY DEF Tended
  <2>2. Listed(d) => Listed(d)' BY <1>2 DEF Listed
  <2>3. \A u, S : Reporting(u, S) => Reporting(u, S)' BY <1>2 DEF Reporting
  <2>4. ASSUME runs[d].status = "running" PROVE Reported(d)'
    <3>0. d \in Module BY DEF Active
    <3>1. Reported(d) BY <2>1, <2>4 DEF RowTended
    <3>2. CASE d = m BY <1>1, <1>2, <1>3, <3>2 DEF Reported, Known, TypeOK
    <3>3. CASE d # m BY <1>2, <1>3, <3>0, <3>1, <3>3 DEF Reported, Known, TypeOK
    <3> QED BY <3>2, <3>3
  <2> QED BY <1>3, <2>1, <2>2, <2>3, <2>4, RowsLeftAlone
<1>5. ASSUME NEW h \in Handler PROVE HandTended(h)'
  <2>1. CASE h = w BY <1>1, <1>2, <1>3, <2>1 DEF HandTended, Known, TypeOK
  <2>2. CASE h # w
    <3>1. HandTended(h) /\ hand'[h] = hand[h] BY <1>2, <2>2 DEF Tended
    <3>2. With({"pending"})' = With({"pending"}) BY <1>3 DEF With
    <3>3. hand[h].pc = "write" => hand[h].run \in Module BY DEF Known, HandsKnow
    <3>4. h # Dispatcher => h \in Worker BY DEF Handler
    <3> QED BY <1>3, <3>1, <3>2, <3>3, <3>4 DEF HandTended, Known, TypeOK
  <2> QED BY <2>1, <2>2
<1>6. poll.pc = "launch" => hand'[Dispatcher].pc = "idle"
  BY <1>1, <1>2 DEF Tended, Handler
<1> QED BY <1>3, <1>4, <1>5, <1>6 DEF Tended

\* What is below a module that is to be skipped is to be skipped too.
LEMMA DoomedClosed ==
  ASSUME NEW f \in Module, NEW d \in Doomed(f) \cup {f}
  PROVE  Downstream(d) \cap With({"pending"}) \subseteq Doomed(f)
<1> SUFFICES ASSUME NEW x \in Downstream(d) \cap With({"pending"}) PROVE x \in Doomed(f)
  OBVIOUS
<1> DEFINE open == With({"pending", "queued"})
           closed(S) == \A u \in S \cup {f} : Downstream(u) \cap open \subseteq S
<1>1. x \in open BY DEF With
<1>2. ASSUME NEW S \in SUBSET open, closed(S) PROVE x \in S
  <2>1. d \in S \cup {f} BY <1>2 DEF Doomed
  <2> QED BY <1>1, <1>2, <2>1
<1> QED BY <1>1, <1>2 DEF Doomed

\* A handler at work leaves the others alone.
LEMMA OneHand ==
  ASSUME Known, NEW h \in Handler, HandlerStep(h)
  PROVE  /\ \A g \in Handler \ {h} : hand'[g] = hand[g]
         /\ hand[h].pc # "idle"
         /\ UNCHANGED <<busy, start, poll, boot, runner, user>>
BY DEF Known, TypeOK, HandlerStep, WriteStatus, Notify, Look, Mark, Count,
   ReadEnvironmentRun, UpdateCounters

LEMMA WriteTended ==
  ASSUME ActiveBelowActive, Known, Complete, Tended, NEW h \in Handler, WriteStatus(h)
  PROVE  Tended'
<1> DEFINE s == hand[h].to
<1> PICK m \in Module : m = hand[h].run
  BY DEF WriteStatus, Known, HandsKnow
<1>1. /\ m \in Module /\ s \in {"running", "planned", "succeeded", "failed"}
      /\ hand[h].pc = "write" /\ start.pc # "rows"
  BY DEF WriteStatus, Known, HandsKnow, Complete, Quiet
<1>2. /\ \A g \in Handler \ {h} : hand'[g] = hand[g]
      /\ UNCHANGED <<busy, start, poll, runner, user>>
      /\ poll.pc = "launch" => h # Dispatcher
  BY <1>1, OneHand DEF HandlerStep, Tended
<1>3. /\ runs'[m].status = s /\ runs'[m].waits = runs[m].waits
      /\ \A d \in Module \ {m} : runs'[d] = runs[d]
  BY <1>1 DEF WriteStatus, WriteRuns, Known, TypeOK, RowType
<1>4. /\ s = "running" => hand'[h].pc = "idle"
      /\ s # "running" => hand'[h].pc = "notify" /\ hand'[h].run = m
  BY <1>1 DEF WriteStatus, IdleHand, Known, TypeOK, HandType
<1>5. ASSUME NEW d \in Active PROVE RowTended(d)'
  <2>1. RowTended(d) /\ d \in Module /\ Upstream(d) \subseteq Module BY TakesPart DEF Tended
  <2>2. ASSUME runs'[d].status = "pending", ~runs'[d].waits, ~Listed(d)' PROVE Awaits(d)'
    <3>1. d # m BY <1>1, <1>3, <2>2
    <3>2. ~Listed(d) BY <1>1, <1>2, <2>2 DEF Listed
    <3>3. Awaits(d) BY <1>3, <2>1, <2>2, <3>1, <3>2 DEF RowTended
    <3>4. \A u, S : Reporting(u, S) => Reporting(u, S)' BY <1>1, <1>2 DEF Reporting
    <3>5. s # "running" => \A S : Reporting(m, S)' BY <1>4 DEF Reporting
    <3>6. ASSUME Upstream(d) \subseteq With(Satisfied)'
          PROVE  \E u \in Upstream(d) : Reporting(u, Satisfied)'
      <4>1. CASE m \in Upstream(d)
        <5>1. s # "running" BY <1>1, <1>3, <3>6, <4>1 DEF With, Satisfied
        <5> QED BY <3>5, <4>1, <5>1
      <4>2. CASE m \notin Upstream(d)
        <5>1. Upstream(d) \subseteq With(Satisfied) BY <1>3, <2>1, <3>6, <4>2 DEF With
        <5> QED BY <3>3, <3>4, <5>1 DEF Awaits
      <4> QED BY <4>1, <4>2
    <3>7. ASSUME NEW u \in Upstream(d)
          PROVE  /\ runs'[u].status = "failed" => Reporting(u, {"failed"})'
                 /\ runs'[u].status # "skipped"
      <4>1. CASE u = m BY <1>1, <1>3, <3>5, <4>1
      <4>2. CASE u # m BY <1>3, <2>1, <3>3, <3>4, <4>2 DEF Awaits
      <4> QED BY <4>1, <4>2
    <3> QED BY <3>6, <3>7 DEF Awaits, Upstream
  <2>3. ASSUME runs'[d].status = "running" PROVE Reported(d)'
    <3>1. CASE d = m
      BY <1>1, <1>2, <1>3, <2>3, <3>1 DEF Tended, HandTended, Reported
    <3>2. CASE d # m
      <4>1. Reported(d) BY <1>3, <2>1, <2>3, <3>2 DEF RowTended
      <4> QED BY <1>2, <3>2, <4>1 DEF Reported
    <3> QED BY <3>1, <3>2
  <2>4. runs'[d].status \in Status \ {"confirmed", "cancelled", "timed_out", "discarded"}
    BY <1>1, <1>3, <2>1 DEF RowTended, Status
  <2> QED BY <2>2, <2>3, <2>4 DEF RowTended
<1>6. ASSUME NEW g \in Handler PROVE HandTended(g)'
  <2>1. With({"pending"})' \subseteq With({"pending"}) BY <1>1, <1>3 DEF With
  <2>2. CASE g = h BY <1>1, <1>4, <2>2 DEF HandTended
  <2>3. CASE g # h BY <1>2, <2>1, <2>3 DEF Tended, HandTended, Downstream
  <2> QED BY <2>2, <2>3
<1>7. poll.pc = "launch" => hand'[Dispatcher].pc = "idle"
  BY <1>2 DEF Tended, Handler
<1> QED BY <1>1, <1>2, <1>5, <1>6, <1>7 DEF Tended

\* Steps of a handler that write no row.
LEMMA HandlerReadsTended ==
  ASSUME ActiveBelowActive, Known, Complete, Tended, NEW h \in Handler,
         Notify(h) \/ Count(h) \/ ReadEnvironmentRun(h) \/ UpdateCounters(h)
  PROVE  Tended'
<1>1. /\ \A g \in Handler \ {h} : hand'[g] = hand[g]
      /\ UNCHANGED <<busy, start, poll, runner, user>>
      /\ poll.pc = "launch" => h # Dispatcher
      /\ start.pc # "rows"
  BY OneHand DEF HandlerStep, Tended, Complete, Quiet
<1>2. UNCHANGED runs /\ hand[h].pc \in {"notify", "count", "env", "close"}
  BY DEF Notify, Count, ReadEnvironmentRun, UpdateCounters, KeepRuns
<1>3. /\ hand'[h].pc \notin {"write", "mark"}
      /\ hand[h].pc = "notify" =>
           /\ hand'[h].pc = "look" /\ hand'[h].run = hand[h].run
           /\ hand'[h].to = runs[hand[h].run].status
  BY DEF Notify, Count, ReadEnvironmentRun, UpdateCounters, IdleHand, Known, TypeOK, HandType
<1>4. ASSUME NEW u, NEW S, Reporting(u, S), runs[u].status \in S PROVE Reporting(u, S)'
  <2>1. PICK g \in Handler :
          hand[g].run = u /\ (hand[g].pc = "notify" \/ (hand[g].pc = "look" /\ hand[g].to \in S))
    BY <1>4 DEF Reporting
  <2>2. CASE g = h BY <1>2, <1>3, <1>4, <2>1, <2>2 DEF Reporting
  <2>3. CASE g # h BY <1>1, <2>1, <2>3 DEF Reporting
  <2> QED BY <2>2, <2>3
<1>5. ASSUME NEW d \in Active PROVE RowTended(d)'
  <2>1. RowTended(d) BY DEF Tended
  <2>2. Listed(d) => Listed(d)' BY <1>1, <1>2 DEF Listed
  <2>3. runs[d].status = "running" => Reported(d)'
    BY <1>1, <1>2, <2>1 DEF RowTended, Reported
  <2>4. \A u \in Module :
          /\ runs[u].status \in Satisfied /\ Reporting(u, Satisfied) => Reporting(u, Satisfied)'
          /\ runs[u].status = "failed" /\ Reporting(u, {"failed"}) => Reporting(u, {"failed"})'
    BY <1>4
  <2> QED BY <1>1, <1>2, <2>1, <2>2, <2>3, <2>4, RowsLeftAlone
<1>6. ASSUME NEW g \in Handler PROVE HandTended(g)'
  <2>1. With({"pending"})' = With({"pending"}) BY <1>2 DEF With
  <2>2. CASE g = h BY <1>3, <2>2 DEF HandTended
  <2>3. CASE g # h BY <1>1, <2>1, <2>3 DEF Tended, HandTended
  <2> QED BY <2>2, <2>3
<1>7. poll.pc = "launch" => hand'[Dispatcher].pc = "idle"
  BY <1>1 DEF Tended, Handler
<1> QED BY <1>1, <1>5, <1>6, <1>7 DEF Tended

LEMMA LookTended ==
  ASSUME ActiveBelowActive, Known, Complete, Tended, NEW h \in Handler, Look(h)
  PROVE  Tended'
<1> PICK m \in Module : m = hand[h].run
  BY DEF Look, Known, HandsKnow
<1>1. /\ \A g \in Handler \ {h} : hand'[g] = hand[g]
      /\ UNCHANGED <<busy, start, poll, runner, user, runs>>
      /\ poll.pc = "launch" => h # Dispatcher
      /\ start.pc # "rows" /\ hand[h].pc = "look"
  BY OneHand DEF HandlerStep, Tended, Complete, Quiet, Look, KeepRuns
<1>2. /\ hand[h].to \in Satisfied =>
           /\ hand'[h].pc = "mark" /\ hand'[h].to = "queued"
           /\ hand'[h].todo = {d \in Downstream(m) : Ready(d)}
      /\ hand[h].to = "failed" =>
           hand'[h].pc = "mark" /\ hand'[h].todo = Doomed(m)
      /\ hand'[h].pc = "mark" /\ hand'[h].to = "skipped" => hand'[h].todo = Doomed(m)
      /\ hand'[h].pc # "write"
  BY DEF Look, Satisfied, Known, TypeOK, HandType
<1>3. With({"pending"})' = With({"pending"}) BY <1>1 DEF With
<1>4. ASSUME NEW d \in Active PROVE RowTended(d)'
  <2>1. RowTended(d) /\ d \in Module /\ Upstream(d) \subseteq Module BY TakesPart DEF Tended
  <2>2. ASSUME runs[d].status = "pending", ~runs[d].waits, ~Listed(d)' PROVE Awaits(d)'
    <3>1. ~Listed(d) BY <1>1, <2>2 DEF Listed
    <3>2. Awaits(d) BY <2>1, <2>2, <3>1 DEF RowTended
    <3>3. ~(hand'[h].pc = "mark" /\ d \in hand'[h].todo) BY <2>2 DEF Listed
    <3>4. ASSUME Upstream(d) \subseteq With(Satisfied)
          PROVE  \E u \in Upstream(d) : Reporting(u, Satisfied)'
      <4>1. PICK u \in Upstream(d) : Reporting(u, Satisfied) BY <3>2, <3>4 DEF Awaits
      <4>2. PICK g \in Handler :
              /\ hand[g].run = u
              /\ hand[g].pc = "notify" \/ (hand[g].pc = "look" /\ hand[g].to \in Satisfied)
        BY <4>1 DEF Reporting
      <4>3. g # h
        <5>1. CASE g = h
          <6>1. Ready(d) BY <2>2, <3>4 DEF Ready
          <6>2. d \in Downstream(m) BY <2>1, <4>2, <5>1 DEF Upstream, Downstream
          <6> QED BY <1>1, <1>2, <3>3, <4>2, <5>1, <6>1, <6>2
        <5> QED BY <5>1
      <4> QED BY <1>1, <4>2, <4>3 DEF Reporting
    <3>5. ASSUME NEW u \in Upstream(d)
          PROVE  /\ runs[u].status = "failed" => Reporting(u, {"failed"})'
                 /\ runs[u].status # "skipped"
      <4>1. ASSUME runs[u].status = "failed" PROVE Reporting(u, {"failed"})'
        <5>1. PICK g \in Handler :
                /\ hand[g].run = u
                /\ hand[g].pc = "notify" \/ (hand[g].pc = "look" /\ hand[g].to = "failed")
          BY <3>2, <4>1 DEF Awaits, Reporting
        <5>2. g # h
          <6>1. CASE g = h
            <7>1. d \in Downstream(m) BY <2>1, <5>1, <6>1 DEF Upstream, Downstream
            <7>2. d \in Doomed(m) BY <2>1, <2>2, <7>1, DoomedClosed DEF With
            <7> QED BY <1>1, <1>2, <3>3, <5>1, <6>1, <7>2
          <6> QED BY <6>1
        <5> QED BY <1>1, <5>1, <5>2 DEF Reporting
      <4> QED BY <3>2, <4>1 DEF Awaits
    <3>6. With(Satisfied)' = With(Satisfied) /\ Upstream(d)' = Upstream(d)
      BY <1>1 DEF With, Upstream
    <3> QED BY <1>1, <3>4, <3>5, <3>6 DEF Awaits
  <2>3. ASSUME runs[d].status = "running" PROVE Reported(d)'
    BY <1>1, <2>1, <2>3 DEF RowTended, Reported
  <2> QED BY <1>1, <2>1, <2>2, <2>3 DEF RowTended
<1>5. ASSUME NEW g \in Handler PROVE HandTended(g)'
  <2>1. CASE g = h
    <3>1. \A d \in Doomed(m) : Downstream(d) \cap With({"pending"}) \subseteq Doomed(m)
      BY DoomedClosed
    <3>2. Doomed(m) \subseteq Module BY DEF Doomed, With
    <3> QED BY <1>2, <1>3, <2>1, <3>1, <3>2 DEF HandTended, Downstream
  <2>2. CASE g # h BY <1>1, <1>3, <2>2 DEF Tended, HandTended, Downstream
  <2> QED BY <2>1, <2>2
<1>6. poll.pc = "launch" => hand'[Dispatcher].pc = "idle"
  BY <1>1 DEF Tended, Handler
<1> QED BY <1>1, <1>4, <1>5, <1>6 DEF Tended

LEMMA MarkTended ==
  ASSUME ActiveBelowActive, Known, Complete, Tended, NEW h \in Handler, Mark(h)
  PROVE  Tended'
<1>1. /\ \A g \in Handler \ {h} : hand'[g] = hand[g]
      /\ UNCHANGED <<busy, start, poll, runner, user>>
      /\ poll.pc = "launch" => h # Dispatcher
      /\ start.pc # "rows" /\ hand[h].pc = "mark"
      /\ hand[h].to \in {"queued", "skipped"}
  BY OneHand DEF HandlerStep, Tended, Complete, Quiet, Mark, Known, HandsKnow
<1>2. poll.pc = "launch" => hand'[Dispatcher].pc = "idle"
  BY <1>1 DEF Tended, Handler
<1>3. \A u, S : Reporting(u, S) => Reporting(u, S)' BY <1>1 DEF Reporting
<1>4. ASSUME NEW x \in hand[h].todo, WriteRuns({x}, hand[h].to),
             hand' = [hand EXCEPT ![h].todo = @ \ {x}]
      PROVE  Tended'
  <2>1. /\ hand'[h].pc = "mark" /\ hand'[h].to = hand[h].to
        /\ hand'[h].todo = hand[h].todo \ {x}
    BY <1>1, <1>4 DEF Known, TypeOK, HandType
  <2>2. /\ x \in Module /\ runs'[x].status = hand[h].to /\ runs'[x].waits = runs[x].waits
        /\ \A d \in Module \ {x} : runs'[d] = runs[d]
    BY <1>1, <1>4, HandsAtWork DEF WriteRuns, Known, TypeOK, RowType
  <2>3. ASSUME NEW d \in Active PROVE RowTended(d)'
    <3>1. RowTended(d) /\ d \in Module /\ Upstream(d) \subseteq Module BY TakesPart DEF Tended
    <3>2. ASSUME runs'[d].status = "pending", ~runs'[d].waits, ~Listed(d)' PROVE Awaits(d)'
      <4>1. d # x /\ runs[d] = runs'[d] BY <1>1, <2>2, <3>1, <3>2
      <4>2. ~Listed(d) BY <1>1, <2>1, <3>2, <4>1 DEF Listed
      <4>3. Awaits(d) BY <3>1, <3>2, <4>1, <4>2 DEF RowTended
      <4>4. hand[h].to = "skipped" => x \notin Upstream(d)
        <5>1. d \in With({"pending"}) /\ d \notin hand[h].todo
          BY <1>1, <3>1, <3>2, <4>1, <4>2 DEF With, Listed
        <5>2. x \in Upstream(d) => d \in Downstream(x) BY <3>1 DEF Upstream, Downstream
        <5> QED BY <1>1, <5>1, <5>2 DEF Tended, HandTended
      <4>5. Upstream(d) \subseteq With(Satisfied)' => Upstream(d) \subseteq With(Satisfied)
        BY <1>1, <2>2, <3>1 DEF With, Satisfied
      <4>6. \A u \in Upstream(d) :
              runs'[u].status = runs[u].status \/ runs'[u].status = "queued"
        BY <1>1, <2>2, <3>1, <4>4
      <4> QED BY <1>3, <4>3, <4>5, <4>6 DEF Awaits, Upstream
    <3>3. runs'[d].status = "running" => Reported(d)'
      BY <1>1, <2>2, <3>1 DEF RowTended, Reported
    <3> QED BY <1>1, <2>2, <3>1, <3>2, <3>3 DEF RowTended, Status
  <2>4. ASSUME NEW g \in Handler PROVE HandTended(g)'
    <3>1. With({"pending"})' \subseteq With({"pending"}) \ {x} BY <1>1, <2>2 DEF With
    <3>2. CASE g = h BY <1>1, <2>1, <3>1, <3>2 DEF Tended, HandTended, Downstream
    <3>3. CASE g # h BY <1>1, <3>1, <3>3 DEF Tended, HandTended, Downstream
    <3> QED BY <3>2, <3>3
  <2> QED BY <1>1, <1>2, <2>3, <2>4 DEF Tended
<1>5. CASE hand[h].todo = {} /\ hand' = [hand EXCEPT ![h].pc = "count"] /\ KeepRuns
  <2>1. hand'[h].pc = "count" /\ UNCHANGED runs
    BY <1>5 DEF Known, TypeOK, KeepRuns
  <2>2. ASSUME NEW d \in Active PROVE RowTended(d)'
    <3>1. RowTended(d) BY DEF Tended
    <3>2. Listed(d) => Listed(d)' BY <1>1, <1>5 DEF Listed
    <3>3. runs[d].status = "running" => Reported(d)'
      BY <1>1, <3>1 DEF RowTended, Reported
    <3> QED BY <1>1, <1>3, <2>1, <3>1, <3>2, <3>3, RowsLeftAlone
  <2>3. ASSUME NEW g \in Handler PROVE HandTended(g)'
    <3>1. With({"pending"})' = With({"pending"}) BY <2>1 DEF With
    <3>2. CASE g = h BY <2>1, <3>2 DEF HandTended
    <3>3. CASE g # h BY <1>1, <3>1, <3>3 DEF Tended, HandTended, Downstream
    <3> QED BY <3>2, <3>3
  <2> QED BY <1>1, <1>2, <2>2, <2>3 DEF Tended
<1> QED BY <1>4, <1>5 DEF Mark

LEMMA PollTended ==
  ASSUME ActiveBelowActive, Prompt, Known, Complete, Tended, PollStep
  PROVE  Tended'
<1>1. UNCHANGED <<start, busy, user>> /\ start.pc # "rows"
  BY DEF PollStep, ListQueued, EndPoll, DispatchRun, Launch, Complete, Quiet, Known, TypeOK
<1>2. CASE ListQueued \/ EndPoll
  <2>1. /\ UNCHANGED <<runs, hand, runner>>
        /\ poll.pc # "launch" /\ poll'.pc # "launch"
    <3>1. CASE ListQueued BY <3>1 DEF ListQueued, IdlePoll, KeepRuns
    <3>2. CASE EndPoll BY <3>2 DEF EndPoll, IdlePoll, KeepRuns
    <3> QED BY <1>2, <3>1, <3>2
  <2>2. ASSUME NEW d \in Active PROVE RowTended(d)'
    <3>1. RowTended(d) BY DEF Tended
    <3>2. Listed(d) => Listed(d)' BY <2>1 DEF Listed
    <3>3. \A u, S : Reporting(u, S) => Reporting(u, S)' BY <2>1 DEF Reporting
    <3>4. runs[d].status = "running" => Reported(d)'
      BY <2>1, <3>1 DEF RowTended, Reported
    <3> QED BY <1>1, <2>1, <3>1, <3>2, <3>3, <3>4, RowsLeftAlone
  <2>3. \A g \in Handler : HandTended(g)' BY <2>1 DEF Tended, HandTended, With
  <2> QED BY <1>1, <2>1, <2>2, <2>3 DEF Tended
<1>3. ASSUME NEW m \in Module, DispatchRun(m) PROVE Tended'
  <2>1. /\ UNCHANGED hand /\ poll.pc = "dispatch" /\ hand[Dispatcher].pc = "idle"
        /\ \A w \in Worker : hand[w].run # m
        /\ poll'.pc = "launch" /\ poll'.run = m
        /\ runner' = [runner EXCEPT ![m] = "none"]
    BY <1>3 DEF DispatchRun
  <2>2. /\ runs'[m].status = "running" /\ runs'[m].waits = runs[m].waits
        /\ \A d \in Module \ {m} : runs'[d] = runs[d]
    BY <1>3 DEF DispatchRun, WriteRuns, Known, TypeOK, RowType
  <2>3. ASSUME NEW d \in Active PROVE RowTended(d)'
    <3>1. RowTended(d) /\ d \in Module /\ Upstream(d) \subseteq Module BY TakesPart DEF Tended
    <3>2. ASSUME runs'[d].status = "pending", ~runs'[d].waits, ~Listed(d)' PROVE Awaits(d)'
      <4>1. Awaits(d) BY <2>1, <2>2, <3>1, <3>2 DEF RowTended, Listed
      <4>2. Upstream(d) \subseteq With(Satisfied)' => Upstream(d) \subseteq With(Satisfied)
        BY <2>2, <3>1 DEF With, Satisfied
      <4>3. \A u \in Upstream(d) :
              runs'[u].status = runs[u].status \/ runs'[u].status = "running"
        BY <2>2, <3>1
      <4>4. \A u, S : Reporting(u, S) => Reporting(u, S)' BY <2>1 DEF Reporting
      <4> QED BY <4>1, <4>2, <4>3, <4>4 DEF Awaits, Upstream
    <3>3. ASSUME runs'[d].status = "running" PROVE Reported(d)'
      <4>1. CASE d = m BY <2>1, <4>1 DEF Reported
      <4>2. CASE d # m
        <5>1. Reported(d) BY <2>2, <3>1, <3>3, <4>2 DEF RowTended
        <5> QED BY <2>1, <3>1, <4>2, <5>1 DEF Reported, Known, TypeOK
      <4> QED BY <4>1, <4>2
    <3> QED BY <1>1, <2>2, <3>1, <3>2, <3>3 DEF RowTended, Status
  <2>4. ASSUME NEW g \in Handler PROVE HandTended(g)'
    <3>1. With({"pending"})' \subseteq With({"pending"}) BY <2>2 DEF With
    <3>2. HandTended(g) /\ hand'[g] = hand[g] /\ (g # Dispatcher => g \in Worker)
      BY <2>1 DEF Tended, Handler
    <3>3. hand[g].pc = "write" => hand[g].run \in Module /\ g # Dispatcher
      BY <2>1 DEF Known, HandsKnow
    <3> QED BY <2>1, <3>1, <3>2, <3>3 DEF HandTended, Downstream, Known, TypeOK
  <2> QED BY <1>1, <2>1, <2>3, <2>4 DEF Tended
<1>4. CASE Launch
  <2>1. /\ UNCHANGED runs /\ poll.pc = "launch" /\ poll'.pc = "dispatch"
        /\ poll.run \in Module /\ hand[Dispatcher].pc = "idle" /\ Dispatcher \in Handler
    BY <1>4 DEF Launch, KeepRuns, Known, TypeOK, OthersKnow, Tended, Handler
  <2>2. \/ runner' = [runner EXCEPT ![poll.run] = "idle"] /\ UNCHANGED hand
        \/ /\ UNCHANGED runner
           /\ hand'[Dispatcher].pc = "write" /\ hand'[Dispatcher].run = poll.run
           /\ hand'[Dispatcher].to = "failed"
           /\ \A g \in Handler \ {Dispatcher} : hand'[g] = hand[g]
    BY <1>4, <2>1, BeginEffect DEF Launch, Known
  <2>3. ASSUME NEW d \in Active PROVE RowTended(d)'
    <3>1. RowTended(d) /\ d \in Module BY DEF Tended, Active
    <3>2. Listed(d) => Listed(d)' BY <2>1, <2>2 DEF Listed
    <3>3. \A u, S : Reporting(u, S) => Reporting(u, S)' BY <2>1, <2>2 DEF Reporting
    <3>4. ASSUME runs[d].status = "running" PROVE Reported(d)'
      <4>1. Reported(d) BY <3>1, <3>4 DEF RowTended
      <4>2. CASE d = poll.run
        BY <2>1, <2>2, <4>2 DEF Reported, Known, TypeOK
      <4>3. CASE d # poll.run
        BY <2>1, <2>2, <3>1, <4>1, <4>3 DEF Reported, Known, TypeOK
      <4> QED BY <4>2, <4>3
    <3> QED BY <1>1, <2>1, <3>1, <3>2, <3>3, <3>4, RowsLeftAlone
  <2>4. ASSUME NEW g \in Handler PROVE HandTended(g)'
    <3>1. With({"pending"})' = With({"pending"}) BY <2>1 DEF With
    <3>2. hand[g].pc = "write" => hand[g].run \in Module BY DEF Known, HandsKnow
    <3> QED BY <2>1, <2>2, <3>1, <3>2 DEF Tended, HandTended, Known, TypeOK
  <2> QED BY <1>1, <2>1, <2>3, <2>4 DEF Tended
<1> QED BY <1>2, <1>3, <1>4 DEF PollStep

\* Nothing but users, runners that repeat a post and the sweep may act.
AtRest ==
  /\ start.pc = "done" /\ poll.pc = "idle" /\ busy = {}
  /\ \A h \in Handler : hand[h].pc = "idle"
  /\ \A m \in Module :
       /\ runs[m].status = "queued" => runs[m].waits
       /\ runner[m] \notin {"idle", "running"}

\* The safety part of EveryModuleSettles: an environment run only comes to
\* rest with every module run or skipped, but for those stranded, because
\* their lane's outside run ended before their row was inserted behind it,
\* and what is below them.
RestsSettled ==
  AtRest => \A m \in Active :
    runs[m].status \in Settled \/ \E a \in Above(m) : Stranded(a)

LEMMA TendedRestsSettled ==
  ASSUME ActiveBelowActive,
         \A S \in SUBSET Module : S # {} => \E m \in S : Upstream(m) \cap S = {},
         Complete, Tended
  PROVE  RestsSettled
<1> DEFINE Held(m) == \E a \in Above(m) : Stranded(a)
           open == {m \in Active : runs[m].status \notin Settled /\ ~Held(m)}
<1> SUFFICES ASSUME AtRest, open # {} PROVE FALSE
  BY DEF RestsSettled
<1>1. \A m : ~Listed(m) /\ \A S : ~Reporting(m, S)
  BY DEF AtRest, Listed, Reporting
<1>2. ASSUME NEW m \in open PROVE Awaits(m)
  <2>1. m \in Module /\ RowTended(m) BY DEF Active, Tended
  <2>2. ~Reported(m) BY <2>1 DEF AtRest, Reported
  <2>3. runs[m].status # "absent" BY DEF AtRest, Complete
  <2>4. ~Stranded(m) BY <2>1, AboveReflexive
  <2>5. runs[m].status = "pending" /\ ~runs[m].waits
    BY <2>1, <2>2, <2>3, <2>4 DEF AtRest, RowTended, Settled, Status, Stranded
  <2> QED BY <1>1, <2>1, <2>5 DEF RowTended
<1>3. open \in SUBSET Module BY DEF Active
<1>4. PICK m \in open : Upstream(m) \cap open = {} BY <1>3
<1>5. m \in Module /\ Upstream(m) \subseteq Active /\ Awaits(m) BY <1>2, TakesPart
<1>6. PICK u \in Upstream(m) : u \notin With(Satisfied) BY <1>1, <1>5 DEF Awaits
<1>7. runs[u].status \notin {"failed", "skipped"} BY <1>1, <1>5 DEF Awaits
<1>8. u \in Active /\ u \in Module /\ RowTended(u) BY <1>5 DEF Active, Tended
<1>9. ~Held(u) BY <1>5, AboveGrows
<1>10. runs[u].status \in Settled BY <1>4, <1>8, <1>9
<1> QED BY <1>6, <1>7, <1>8, <1>10 DEF RowTended, Settled, Status, Satisfied, With

LEMMA InitTended == ASSUME Init PROVE Complete /\ Tended
<1>1. Complete
  BY NoneIsNoOutcome
     DEF Init, Complete, Quiet, OutcomesAreComplete, NoRow, IdleHand, IdlePoll,
         Satisfied, Active
<1>2. Tended
  BY DEF Init, Tended, RowTended, HandTended, NoRow, IdleHand, IdlePoll, IdleUser,
     Active, Status
<1> QED BY <1>1, <1>2

LEMMA NextTended ==
  ASSUME IsFiniteSet(Module), Prompt, MaxRestarts = 0, MaxRequests = 0,
         ActiveBelowActive, Known, Complete, Tended, [Next]_vars
  PROVE  Complete' /\ Tended'
<1>1. CASE UNCHANGED vars
  <2>1. Complete' BY <1>1 DEF vars, Complete, Quiet, OutcomesAreComplete
  <2>2. Tended'
    BY <1>1 DEF vars, Tended, RowTended, HandTended, Listed, Awaits, Reporting, Reported, With
  <2> QED BY <2>1, <2>2
<1>2. ~Restart BY DEF Restart, Known, TypeOK
<1>3. ~RecoveryStep
  BY DEF RecoveryStep, ListRunning, RecoverRun, FinishRecovery, Complete
<1>4. ~UserStep BY DEF UserStep, WriteRow, CloseRequest, Tended
<1>5. ASSUME Request PROVE Tended'
  <2>1. ExpireEnvironmentRun
    BY <1>5 DEF Request, CancelEnvironmentRun, ConfirmEnvironmentRun, CancelRun, DiscardRun,
       ConfirmRun, Ask, Known, TypeOK
  <2> QED BY <2>1 DEF ExpireEnvironmentRun, KeepRuns, Tended, RowTended, HandTended, Listed,
      Awaits, Reporting, Reported, With
<1>6. ASSUME NEW h \in Handler, HandlerStep(h) PROVE Tended'
  BY <1>6, WriteTended, HandlerReadsTended, LookTended, MarkTended DEF HandlerStep
<1> QED
  BY <1>1, <1>2, <1>3, <1>4, <1>5, <1>6, StartComplete, HandlerComplete,
     CallbackComplete, PollComplete, RequestComplete, StartTended, CallbackTended,
     PollTended DEF Next

\* When an environment run has come to rest, every module has been run or
\* skipped: no interleaving of handlers, stale snapshots, failed launches and
\* polls leaves one waiting for an outcome that nobody will report. The one
\* exception is the row of createModuleRun inserted behind an outside run
\* that has ended since it was looked for (RegistryDatabase.ts), and what
\* depends on it.
THEOREM NoModuleIsForgotten ==
  ASSUME IsFiniteSet(Module), Prompt, MaxRestarts = 0, MaxRequests = 0,
         \A m \in Active : Upstream(m) \subseteq Active,
         \A S \in SUBSET Module : S # {} => \E m \in S : Upstream(m) \cap S = {}
  PROVE  Spec => []RestsSettled
<1>1. ActiveBelowActive BY DEF ActiveBelowActive
<1>2. Init => Complete /\ Tended BY InitTended
<1>3. Known /\ Complete /\ Tended /\ [Next]_vars => (Complete /\ Tended)'
  BY <1>1, NextTended
<1>4. Complete /\ Tended => RestsSettled BY <1>1, TendedRestsSettled
<1> QED BY <1>2, <1>3, <1>4, KnownInvariance, PTL DEF Spec

----------------------------------------------------------------------------
(* A run comes to a verdict: the safety half of VerdictIsReached.          *)

\* Modules that take no part have no row, no runner and no handler.
OnlyActive ==
  /\ \A m \in Module \ Active : runs[m] = NoRow
  /\ poll.batch \subseteq Active
  /\ poll.pc = "launch" => poll.run \in Active
  /\ \A h \in Handler : /\ hand[h].pc # "idle" => hand[h].run \in Active
                        /\ hand[h].todo \subseteq Active
  /\ \A m \in Module \ Active : runner[m] = "none"

\* The handler will count, or has counted and found everything settled.
Concludes(h) ==
  \/ hand[h].pc \in {"notify", "look", "mark", "count"}
  \/ hand[h].pc \in {"env", "close"} /\ hand[h].env \in Verdicts

NothingOpen == With({"pending", "queued", "running", "confirmed"}) = {}

\* When every row is settled, somebody is about to conclude the run.
Concluding ==
  start.pc # "rows" /\ NothingOpen => \E h \in Handler : Concludes(h)

LEMMA MarkEffect ==
  ASSUME Known, NEW h \in Handler, Mark(h)
  PROVE  /\ hand'[h].pc \in {"mark", "count"} /\ hand'[h].run = hand[h].run
         /\ hand'[h].todo \subseteq hand[h].todo
<1>1. hand[h] \in HandType /\ hand[h].pc = "mark" BY HandsAtWork DEF Mark
<1>2. ASSUME NEW d, hand' = [hand EXCEPT ![h].todo = hand[h].todo \ {d}]
      PROVE  /\ hand'[h].pc = "mark" /\ hand'[h].run = hand[h].run
             /\ hand'[h].todo \subseteq hand[h].todo
  BY <1>1, <1>2 DEF Known, TypeOK, HandType
<1>3. ASSUME hand' = [hand EXCEPT ![h].pc = "count"]
      PROVE  /\ hand'[h].pc = "count" /\ hand'[h].run = hand[h].run
             /\ hand'[h].todo = hand[h].todo
  BY <1>1, <1>3 DEF Known, TypeOK, HandType
<1> QED BY <1>2, <1>3 DEF Mark

LEMMA StepOnlyActive ==
  ASSUME ActiveBelowActive, Known, Complete, Tended, OnlyActive, MaxRestarts = 0,
         MaxRequests = 0, [Next]_vars
  PROVE  OnlyActive'
<1> USE DEF OnlyActive
<1>0. Active \subseteq Module BY DEF Active
<1>1. \A m \in Module : runs[m].status # "absent" \/ runs[m].waits \/ runner[m] # "none" =>
                          m \in Active
  BY DEF NoRow
<1>2. ASSUME NEW m \in Module, InsertRun(m) PROVE OnlyActive'
  <2>1. m \in Active BY <1>2, EnvironmentRunAssumption DEF InsertRun, Known, TypeOK
  <2> QED BY <1>2, <2>1 DEF InsertRun, Known, TypeOK
<1>3. CASE \/ FinishStart \/ UNCHANGED vars \/ Request
           \/ \E m \in Module : CreateModuleRun(m)
  <2>1. UNCHANGED <<runs, poll, hand, runner>>
    <3>1. CASE Request
      BY <3>1 DEF Request, CancelEnvironmentRun, ConfirmEnvironmentRun, CancelRun,
         DiscardRun, ConfirmRun, Ask, ExpireEnvironmentRun, KeepRuns
    <3>2. CASE FinishStart \/ UNCHANGED vars BY <3>2 DEF FinishStart, KeepRuns, vars
    <3>3. CASE \E m \in Module : CreateModuleRun(m) BY <3>3 DEF CreateModuleRun, KeepRuns
    <3> QED BY <1>3, <3>1, <3>2, <3>3
  <2> QED BY <2>1
<1>4. ASSUME NEW m \in Module, DequeueNextModuleRun(m) PROVE OnlyActive'
  BY <1>1, <1>4 DEF DequeueNextModuleRun, Dequeued, Known, TypeOK
<1>5. ASSUME NEW w \in Worker, NEW m \in Module, NEW s \in Posts, StatusCallback(w, m, s)
      PROVE  OnlyActive'
  <2>1. m \in Active /\ w \in Handler
        /\ s \in {"running", "planned", "succeeded", "failed", "timed_out"}
    BY <1>1, <1>5, EnvironmentRunAssumption DEF StatusCallback, Handler
  <2>2. /\ hand'[w].run = m /\ hand'[w].todo = {}
        /\ \A g \in Handler \ {w} : hand'[g] = hand[g]
    BY <1>5, <2>1, BeginEffect DEF StatusCallback, Known
  <2>3. UNCHANGED <<runs, poll>> /\ \A d \in Module \ {m} : runner'[d] = runner[d]
    BY <1>5 DEF StatusCallback, KeepRuns, Known, TypeOK
  <2> QED BY <2>1, <2>2, <2>3
<1>6. ASSUME NEW h \in Handler, HandlerStep(h) PROVE OnlyActive'
  <2>1. /\ \A g \in Handler \ {h} : hand'[g] = hand[g]
        /\ UNCHANGED <<poll, runner>> /\ hand[h].run \in Active /\ hand[h].todo \subseteq Active
    BY <1>6, OneHand
  <2>2. CASE WriteStatus(h)
    <3>1. \A d \in Module \ Active : runs'[d] = runs[d]
      BY <2>1, <2>2 DEF WriteStatus, WriteRuns
    <3>2. /\ hand'[h].pc # "idle" => hand'[h].run = hand[h].run
          /\ hand'[h].todo \subseteq hand[h].todo
      BY <2>2 DEF WriteStatus, IdleHand, Known, TypeOK, HandType
    <3> QED BY <2>1, <3>1, <3>2
  <2>3. CASE Mark(h)
    <3>1. \A d \in Module \ Active : runs'[d] = runs[d]
      BY <2>1, <2>3 DEF Mark, WriteRuns, KeepRuns
    <3>2. hand'[h].run = hand[h].run /\ hand'[h].todo \subseteq hand[h].todo
      BY <2>3, MarkEffect
    <3> QED BY <2>1, <3>1, <3>2
  <2>4. CASE Look(h)
    <3>1. \A d \in Downstream(hand[h].run) : d \in Module /\ (Ready(d) => d \in Active)
      BY <1>1 DEF Ready, Downstream
    <3>2. Doomed(hand[h].run) \subseteq Active BY <1>1 DEF Doomed, With
    <3>3. hand'[h].run = hand[h].run /\ hand'[h].todo \subseteq Active
      BY <2>1, <2>4, <3>1, <3>2 DEF Look, Known, TypeOK, HandType
    <3> QED BY <2>1, <2>4, <3>3 DEF Look, KeepRuns
  <2>5. CASE Notify(h) \/ Count(h) \/ ReadEnvironmentRun(h) \/ UpdateCounters(h)
    <3>1. UNCHANGED runs
      BY <2>5 DEF Notify, Count, ReadEnvironmentRun, UpdateCounters, KeepRuns
    <3>2. /\ hand'[h].pc # "idle" => hand'[h].run = hand[h].run
          /\ hand'[h].todo \subseteq hand[h].todo
      BY <2>5 DEF Notify, Count, ReadEnvironmentRun, UpdateCounters, IdleHand, Known,
         TypeOK, HandType
    <3> QED BY <2>1, <3>1, <3>2
  <2> QED BY <1>6, <2>2, <2>3, <2>4, <2>5 DEF HandlerStep
<1>7. CASE ListQueued \/ EndPoll
  <2>1. UNCHANGED <<runs, hand, runner>> BY <1>7 DEF ListQueued, EndPoll, KeepRuns
  <2>2. poll'.batch \subseteq Active /\ poll'.pc # "launch"
    <3>1. CASE ListQueued BY <1>1, <3>1 DEF ListQueued, IdlePoll
    <3>2. CASE EndPoll BY <3>2 DEF EndPoll, IdlePoll
    <3> QED BY <1>7, <3>1, <3>2
  <2> QED BY <2>1, <2>2
<1>8. ASSUME NEW m \in Module, DispatchRun(m) PROVE OnlyActive'
  BY <1>8 DEF DispatchRun, WriteRuns, Known, TypeOK
<1>9. CASE Launch
  <2>1. /\ UNCHANGED runs /\ poll.run \in Active /\ poll'.batch = poll.batch
        /\ poll'.pc = "dispatch" /\ Dispatcher \in Handler
    BY <1>9 DEF Launch, KeepRuns, Known, TypeOK, Handler
  <2>2. \/ runner' = [runner EXCEPT ![poll.run] = "idle"] /\ UNCHANGED hand
        \/ /\ UNCHANGED runner
           /\ hand'[Dispatcher].run = poll.run /\ hand'[Dispatcher].todo = {}
           /\ \A g \in Handler \ {Dispatcher} : hand'[g] = hand[g]
    BY <1>0, <1>9, <2>1, BeginEffect DEF Launch, Known
  <2>3. \A d \in Module \ Active : runner'[d] = runner[d]
    BY <2>1, <2>2 DEF Known, TypeOK
  <2> QED BY <2>1, <2>2, <2>3
<1>10. ~Restart /\ ~RecoveryStep /\ ~UserStep
  BY DEF Restart, Known, TypeOK, RecoveryStep, ListRunning, RecoverRun, FinishRecovery,
     Complete, UserStep, WriteRow, CloseRequest, Tended
<1> QED
  BY <1>2, <1>3, <1>4, <1>5, <1>6, <1>7, <1>8, <1>9, <1>10 DEF Next, StartStep, PollStep

\* No row is settled, and whoever was to conclude the run still is.
LEMMA StillConcluding ==
  ASSUME Concluding, start'.pc = "rows" \/ start'.pc = start.pc, NothingOpen' => NothingOpen,
         \A h \in Handler : Concludes(h) => Concludes(h)'
  PROVE  Concluding'
BY DEF Concluding

LEMMA CountFindsVerdict == NothingOpen => Verdict \in Verdicts
BY DEF NothingOpen, Verdict, Verdicts

\* A handler concludes the run, unless it does so by writing the verdict.
LEMMA HandlerConcludes ==
  ASSUME Known, Complete, Concluding, NEW h \in Handler, HandlerStep(h), env' \notin Verdicts
  PROVE  Concluding'
<1>1. /\ \A g \in Handler \ {h} : hand'[g] = hand[g]
      /\ start' = start /\ hand[h] \in HandType
  BY OneHand, HandsAtWork
<1>2. ASSUME Concludes(h)' PROVE Concluding'
  BY <1>2 DEF Concluding
<1>3. CASE WriteStatus(h)
  <2>1. CASE hand[h].to # "running"
    <3>1. hand'[h].pc = "notify"
      BY <1>1, <1>3, <2>1 DEF WriteStatus, Known, TypeOK, HandType
    <3> QED BY <1>2, <3>1 DEF Concludes
  <2>2. CASE hand[h].to = "running"
    <3>1. hand[h].run \in Module /\ runs'[hand[h].run].status = "running"
      BY <1>3, <2>2 DEF WriteStatus, WriteRuns, Known, HandsKnow, TypeOK, RowType
    <3>2. ~NothingOpen' BY <3>1 DEF NothingOpen, With
    <3> QED BY <3>2 DEF Concluding
  <2> QED BY <2>1, <2>2
<1>4. CASE Notify(h)
  <2>1. hand'[h].pc = "look" BY <1>1, <1>4 DEF Notify, Known, TypeOK, HandType
  <2> QED BY <1>2, <2>1 DEF Concludes
<1>5. CASE Look(h)
  <2>1. hand'[h].pc \in {"mark", "count"} BY <1>1, <1>5 DEF Look, Known, TypeOK, HandType
  <2> QED BY <1>2, <2>1 DEF Concludes
<1>6. CASE Mark(h)
  <2>1. hand'[h].pc \in {"mark", "count"} BY <1>6, MarkEffect
  <2> QED BY <1>2, <2>1 DEF Concludes
<1>7. CASE Count(h)
  <2>1. /\ hand'[h].pc = "env" /\ hand'[h].env = Verdict /\ UNCHANGED runs
    BY <1>1, <1>7 DEF Count, KeepRuns, Known, TypeOK, HandType
  <2>2. NothingOpen' <=> NothingOpen BY <2>1 DEF NothingOpen, With
  <2>3. CASE NothingOpen
    BY <1>2, <2>1, <2>3, CountFindsVerdict DEF Concludes
  <2>4. CASE ~NothingOpen
    BY <2>2, <2>4 DEF Concluding
  <2> QED BY <2>3, <2>4
<1>8. CASE ReadEnvironmentRun(h)
  <2>1. /\ hand[h].pc = "env" /\ hand'[h].pc = "close" /\ UNCHANGED runs
        /\ hand[h].env # None => hand'[h].env = hand[h].env
    BY <1>1, <1>8 DEF ReadEnvironmentRun, KeepRuns, Known, TypeOK, HandType
  <2>2. Concludes(h) => Concludes(h)'
    BY <2>1, EnvironmentRunAssumption DEF Concludes, Verdicts
  <2>3. NothingOpen' => NothingOpen BY <2>1 DEF NothingOpen, With
  <2>4. \A g \in Handler \ {h} : Concludes(g) => Concludes(g)' BY <1>1 DEF Concludes
  <2> QED BY <1>1, <2>2, <2>3, <2>4, StillConcluding
<1>9. CASE UpdateCounters(h)
  <2>1. hand[h].pc = "close" /\ env' = hand[h].env /\ UNCHANGED runs
    BY <1>9 DEF UpdateCounters, KeepRuns
  <2>2. ~Concludes(h) BY <2>1 DEF Concludes
  <2>3. NothingOpen' => NothingOpen BY <2>1 DEF NothingOpen, With
  <2>4. \A g \in Handler \ {h} : Concludes(g) => Concludes(g)' BY <1>1 DEF Concludes
  <2> QED BY <1>1, <2>2, <2>3, <2>4, StillConcluding
<1> QED BY <1>3, <1>4, <1>5, <1>6, <1>7, <1>8, <1>9 DEF HandlerStep

LEMMA StepConcludes ==
  ASSUME ActiveBelowActive, Active # {}, MaxRestarts = 0, MaxRequests = 0, Known,
         Complete, Tended, Concluding, env' \notin Verdicts, [Next]_vars
  PROVE  Concluding'
<1>1. ASSUME NEW m \in Module, CreateModuleRun(m) \/ InsertRun(m) PROVE Concluding'
  BY <1>1 DEF CreateModuleRun, InsertRun, Concluding, Known, TypeOK
<1>2. CASE FinishStart
  <2>1. PICK m \in Active : TRUE OBVIOUS
  <2>2. runs[m].status \in {"pending", "queued"} /\ m \in Module
    BY <1>2, <2>1 DEF FinishStart, Tended, Complete, Active
  <2>3. UNCHANGED runs BY <1>2 DEF FinishStart, KeepRuns
  <2> QED BY <2>2, <2>3 DEF Concluding, NothingOpen, With
<1>3. ASSUME NEW m \in Module, DequeueNextModuleRun(m) PROVE Concluding'
  <2>1. /\ UNCHANGED <<hand, start>>
        /\ \A d \in Module : runs'[d] = runs[d] \/ runs'[d].status = "queued"
    BY <1>3 DEF DequeueNextModuleRun, Dequeued, Known, TypeOK
  <2>2. NothingOpen' => NothingOpen BY <2>1 DEF NothingOpen, With
  <2> QED BY <2>1, <2>2, StillConcluding DEF Concludes
<1>4. ASSUME NEW w \in Worker, NEW m \in Module, NEW s \in Posts, StatusCallback(w, m, s)
      PROVE  Concluding'
  <2>1. /\ UNCHANGED <<runs, start>> /\ hand[w].pc = "idle"
        /\ \A g \in Handler \ {w} : hand'[g] = hand[g]
    BY <1>4 DEF StatusCallback, KeepRuns, Begin, Known, TypeOK
  <2>2. \A g \in Handler : Concludes(g) => Concludes(g)' BY <2>1 DEF Concludes
  <2>3. NothingOpen' => NothingOpen BY <2>1 DEF NothingOpen, With
  <2> QED BY <2>1, <2>2, <2>3, StillConcluding
<1>5. ASSUME NEW h \in Handler, HandlerStep(h) PROVE Concluding'
  BY <1>5, HandlerConcludes
<1>6. CASE ListQueued \/ EndPoll \/ Request \/ UNCHANGED vars
  <2>1. UNCHANGED <<runs, hand, start>>
    <3>1. CASE Request
      BY <3>1 DEF Request, CancelEnvironmentRun, ConfirmEnvironmentRun, CancelRun,
         DiscardRun, ConfirmRun, Ask, ExpireEnvironmentRun, KeepRuns
    <3>2. CASE ListQueued \/ EndPoll \/ UNCHANGED vars
      BY <3>2 DEF ListQueued, EndPoll, KeepRuns, vars
    <3> QED BY <1>6, <3>1, <3>2
  <2>2. NothingOpen' => NothingOpen BY <2>1 DEF NothingOpen, With
  <2> QED BY <2>1, <2>2, StillConcluding DEF Concludes
<1>7. ASSUME NEW m \in Module, DispatchRun(m) PROVE Concluding'
  <2>1. runs'[m].status = "running"
    BY <1>7 DEF DispatchRun, WriteRuns, Known, TypeOK, RowType
  <2> QED BY <2>1 DEF Concluding, NothingOpen, With
<1>8. CASE Launch
  <2>1. /\ UNCHANGED <<runs, start>> /\ hand[Dispatcher].pc = "idle"
        /\ \A g \in Handler \ {Dispatcher} : hand'[g] = hand[g]
    BY <1>8 DEF Launch, KeepRuns, Begin, Known, TypeOK, Tended
  <2>2. \A g \in Handler : Concludes(g) => Concludes(g)' BY <2>1 DEF Concludes
  <2>3. NothingOpen' => NothingOpen BY <2>1 DEF NothingOpen, With
  <2> QED BY <2>1, <2>2, <2>3, StillConcluding
<1>9. ~Restart /\ ~RecoveryStep /\ ~UserStep
  BY DEF Restart, Known, TypeOK, RecoveryStep, ListRunning, RecoverRun, FinishRecovery,
     Complete, UserStep, WriteRow, CloseRequest, Tended
<1> QED
  BY <1>1, <1>2, <1>3, <1>4, <1>5, <1>6, <1>7, <1>8, <1>9 DEF Next, StartStep, PollStep

\* Until it was given a verdict, an environment run does not come to rest,
\* unless with a stranded row (see RestsSettled):
\* whichever of the handlers of modules that finish together counts last finds
\* every row settled, and is not yet done (dagExecutor.ts,
\* updateEnvironmentRunCounters).
THEOREM NoRunIsLeftOpen ==
  ASSUME IsFiniteSet(Module), Prompt, MaxRestarts = 0, MaxRequests = 0, Active # {},
         \A m \in Active : Upstream(m) \subseteq Active,
         \A S \in SUBSET Module : S # {} => \E m \in S : Upstream(m) \cap S = {}
  PROVE  Spec => ([](env \notin Verdicts)
                    => [](AtRest => \E m \in Active : Stranded(m)))
<1>1. ActiveBelowActive BY DEF ActiveBelowActive
<1> DEFINE Inv == Complete /\ Tended /\ OnlyActive /\ Concluding
<1>2. Init => Inv
  <2>1. Init => OnlyActive /\ Concluding
    BY DEF Init, OnlyActive, Concluding, IdlePoll, IdleHand
  <2> QED BY <2>1, InitTended
<1>3. Known /\ Inv /\ (env \notin Verdicts)' /\ [Next]_vars => Inv'
  BY <1>1, NextTended, StepOnlyActive, StepConcludes
<1>4. Inv => (AtRest => \E m \in Active : Stranded(m))
  <2> SUFFICES ASSUME Inv, AtRest, \A m \in Active : ~Stranded(m) PROVE FALSE OBVIOUS
  <2>0. \A m \in Module : ~Stranded(m)
    BY DEF OnlyActive, NoRow, Stranded
  <2>1. \A m \in Active : runs[m].status \in Settled
    BY <1>1, <2>0, TendedRestsSettled DEF RestsSettled, Above
  <2>2. \A m \in Module : runs[m].status \notin {"pending", "queued", "running", "confirmed"}
    BY <2>1 DEF OnlyActive, NoRow, Settled, Tended, RowTended
  <2>3. NothingOpen BY <2>2 DEF NothingOpen, With
  <2> QED BY <2>3 DEF Concluding, AtRest, Concludes
<1> HIDE DEF Inv
<1> QED BY <1>2, <1>3, <1>4, KnownInvariance, PTL DEF Spec

=============================================================================
