--------------------------- MODULE RunQueueProofs ---------------------------
(***************************************************************************)
(* Theorems about RunQueue for every value of its constants.               *)
(***************************************************************************)
EXTENDS RunQueue, FiniteSetTheorems, TLAPS

\* Rows are inserted in the order of their ids.
FreshRows ==
  \A r \in Run : r > created =>
    runs[r] = NoRow /\ \A t \in Token : runner[r][t] = "none"

\* A creator in flight knows its lane and kind, and has a position only when
\* it is about to insert.
MakesKnow ==
  \A c \in Creator : make[c].pc # "idle" =>
    /\ make[c].lane \in Lane /\ make[c].kind \in Kinds
    /\ make[c].pos # None => make[c].pc = "insert"

\* A request in flight knows the row and the status it will write.
JobsKnow ==
  \A w \in Worker : job[w].pc # "idle" =>
    job[w].run \in Run /\ job[w].to \in Status \ {"absent"}

\* What a poll has in hand exists and does not wait.
InHandReady ==
  \A p \in Poller, r \in Run :
    r \in poll[p].batch \/ r = poll[p].run =>
      runs[r] # NoRow /\ runs[r].pos = None

IInv == TypeOK /\ FreshRows /\ MakesKnow /\ JobsKnow /\ InHandReady

----------------------------------------------------------------------------
(* What the two writes that every handler makes do to the table.           *)

RowsType == runs \in [Run -> Row \cup {NoRow}]

\* The part of the table the queue is about does not change.
SameQueue ==
  \A r \in Run :
    /\ runs'[r].lane = runs[r].lane /\ runs'[r].kind = runs[r].kind
    /\ runs'[r].pos = runs[r].pos
    /\ runs'[r] = NoRow <=> runs[r] = NoRow

\* A row with a queue position, or with a status, is a row.
LEMMA RowFields ==
  ASSUME RowsType, NEW r \in Run
  PROVE  /\ runs[r] # NoRow => runs[r] \in Row
         /\ NoRow \notin Row
         /\ runs[r].pos # None => runs[r] \in Row
         /\ runs[r].status # "absent" => runs[r] \in Row
         /\ runs[r] \in [lane : Lane \cup {None},
                         kind : {"manual", "cascade", "envroot", None},
                         status : Status, pos : Int \cup {None}, token : Nat]
BY RunQueueAssumption DEF RowsType, Row, NoRow, Status

\* updateModuleRunStatus changes the status of at most one row, and neither
\* brings a row back nor moves one in the queue.
LEMMA UpdateEffect ==
  ASSUME RowsType, NEW r \in Run, NEW s \in Status \ {"absent"},
         runs' = UpdateModuleRunStatus(r, s)
  PROVE  /\ RowsType' /\ SameQueue
         /\ \A q \in Run : runs'[q].token = runs[q].token
<1>1. CASE runs[r] = NoRow
  BY <1>1 DEF UpdateModuleRunStatus, RowsType, SameQueue
<1>2. CASE runs[r] # NoRow
  <2>1. runs' = [runs EXCEPT ![r].status = s]
    BY <1>2 DEF UpdateModuleRunStatus
  <2>2. runs[r] \in Row
    BY <1>2, RowFields
  <2>3. [runs[r] EXCEPT !.status = s] \in Row
    BY <2>2 DEF Row
  <2>4. RowsType'
    BY <2>1, <2>3 DEF RowsType
  <2>5. NoRow \notin Row
    BY RowFields
  <2>6. \A q \in Run : runs'[q] = IF q = r THEN [runs[r] EXCEPT !.status = s]
                                  ELSE runs[q]
    BY <2>1 DEF RowsType
  <2>7. SameQueue
    BY <1>2, <2>2, <2>3, <2>5, <2>6 DEF SameQueue, Row
  <2>8. \A q \in Run : runs'[q].token = runs[q].token
    BY <2>2, <2>6 DEF Row
  <2> QED BY <2>4, <2>7, <2>8
<1> QED BY <1>1, <1>2

\* dequeueNextModuleRun leaves an empty lane alone; otherwise one head loses
\* its position and the others of the lane move up by one.
LEMMA DequeueEffect ==
  ASSUME RowsType, NEW l, DequeueNextModuleRun(l)
  PROVE  /\ RowsType'
         /\ \A q \in Run :
              /\ runs'[q] = NoRow <=> runs[q] = NoRow
              /\ runs'[q].lane = runs[q].lane /\ runs'[q].kind = runs[q].kind
              /\ runs'[q].token = runs[q].token
              /\ runs[q].pos = None => runs'[q] = runs[q]
         /\ \/ Waiting(l) = {} /\ runs' = runs
            \/ \E h \in Heads(l) :
                 /\ runs'[h].pos = None
                 /\ \A q \in Run \ {h} :
                      runs'[q].pos = IF q \in Waiting(l) THEN runs[q].pos - 1
                                     ELSE runs[q].pos
<1>1. CASE Waiting(l) = {}
  BY <1>1 DEF DequeueNextModuleRun, RowsType
<1>2. CASE Waiting(l) # {}
  <2>1. PICK h \in Heads(l) : runs' = Promote(l, h)
    BY <1>2 DEF DequeueNextModuleRun
  <2>2. h \in Run /\ runs[h].pos # None
    BY DEF Heads, Waiting
  <2>3. \A q \in Run : q \in Waiting(l) => runs[q] \in Row /\ runs[q].pos \in Int
    BY RowFields DEF Waiting, Row
  <2>4. runs[h] \in Row /\ NoRow \notin Row
    BY <2>2, RowFields
  <2>5. /\ runs'[h] = [runs[h] EXCEPT !.status = "queued", !.pos = None]
        /\ \A q \in Waiting(l) \ {h} :
             runs'[q] = [runs[q] EXCEPT !.pos = runs[q].pos - 1]
        /\ \A q \in Run : q # h /\ q \notin Waiting(l) => runs'[q] = runs[q]
    BY <2>1, <2>2 DEF Promote, Waiting
  <2>6. /\ runs'[h] \in Row /\ runs'[h].lane = runs[h].lane
        /\ runs'[h].kind = runs[h].kind /\ runs'[h].token = runs[h].token
        /\ runs'[h].pos = None
    BY <2>4, <2>5 DEF Row, Status
  <2>7. ASSUME NEW q \in Waiting(l) \ {h}
         PROVE  /\ runs[q] \in Row /\ runs'[q] \in Row
                /\ runs'[q].lane = runs[q].lane /\ runs'[q].kind = runs[q].kind
                /\ runs'[q].token = runs[q].token
                /\ runs'[q].pos = runs[q].pos - 1
    <3>1. runs[q] \in Row /\ runs[q].pos \in Int
      BY <2>3 DEF Waiting
    <3>2. runs'[q] = [runs[q] EXCEPT !.pos = runs[q].pos - 1]
      BY <2>5
    <3> QED BY <3>1, <3>2 DEF Row
  <2>8. RowsType'
    <3>1. runs' = [q \in Run |-> runs'[q]]
      BY <2>1 DEF Promote
    <3>2. \A q \in Run : runs'[q] \in Row \cup {NoRow}
      BY <2>5, <2>6, <2>7 DEF RowsType
    <3> QED BY <3>1, <3>2 DEF RowsType
  <2>9. \A q \in Run :
              /\ runs'[q] = NoRow <=> runs[q] = NoRow
              /\ runs'[q].lane = runs[q].lane /\ runs'[q].kind = runs[q].kind
              /\ runs'[q].token = runs[q].token
    <3> TAKE q \in Run
    <3>1. CASE q = h
      BY <3>1, <2>4, <2>6
    <3>2. CASE q \in Waiting(l) \ {h}
      BY <3>2, <2>4, <2>7
    <3>3. CASE q # h /\ q \notin Waiting(l)
      BY <3>3, <2>5
    <3> QED BY <3>1, <3>2, <3>3
  <2>10. \A q \in Run : runs[q].pos = None => runs'[q] = runs[q]
    BY <2>2, <2>5 DEF Waiting
  <2>11. /\ runs'[h].pos = None
         /\ \A q \in Run \ {h} :
              runs'[q].pos = IF q \in Waiting(l) THEN runs[q].pos - 1
                             ELSE runs[q].pos
    BY <2>5, <2>6, <2>7
  <2> QED BY <2>8, <2>9, <2>10, <2>11
<1> QED BY <1>1, <1>2

----------------------------------------------------------------------------
(* The inductive invariant.                                                *)

\* Nothing appears, and a run that is ready to be dispatched stays so.
Steady ==
  \A r \in Run :
    /\ runs[r] = NoRow => runs'[r] = NoRow
    /\ runs[r] # NoRow /\ runs[r].pos = None =>
         runs'[r] # NoRow /\ runs'[r].pos = None

\* The two writes are steady.
LEMMA WritesAreSteady ==
  ASSUME RowsType, NEW r \in Run, NEW s \in Status \ {"absent"}, NEW l,
         \/ runs' = UpdateModuleRunStatus(r, s)
         \/ DequeueNextModuleRun(l)
         \/ UNCHANGED runs
  PROVE  RowsType' /\ Steady
<1>1. CASE runs' = UpdateModuleRunStatus(r, s)
  BY <1>1, UpdateEffect DEF Steady, SameQueue
<1>2. CASE DequeueNextModuleRun(l)
  BY <1>2, DequeueEffect DEF Steady
<1>3. CASE UNCHANGED runs
  BY <1>3 DEF Steady, RowsType
<1> QED BY <1>1, <1>2, <1>3

\* A steady step that takes nothing new in hand keeps what rows are known.
LEMMA SteadyKeeps ==
  ASSUME FreshRows, InHandReady, Steady, UNCHANGED created,
         UNCHANGED runner \/ \E r \in Run, t \in Token : \E s :
           runner[r][t] # "none" /\ runner' = [runner EXCEPT ![r][t] = s],
         runner \in [Run -> [Token -> {"none", "idle"} \cup Posted]]
  PROVE  /\ FreshRows'
         /\ (\A p \in Poller : /\ poll'[p].batch \subseteq poll[p].batch
                               /\ poll'[p].run \in {None, poll[p].run} \cup poll[p].batch)
            => InHandReady'
<1>1. FreshRows'
  BY DEF FreshRows, Steady
<1>2. ASSUME \A p \in Poller :
               /\ poll'[p].batch \subseteq poll[p].batch
               /\ poll'[p].run \in {None, poll[p].run} \cup poll[p].batch
      PROVE  InHandReady'
  BY <1>2, RunQueueAssumption DEF InHandReady, Steady, Run
<1> QED BY <1>1, <1>2

LEMMA InitIInv == Init => IInv
<1> SUFFICES ASSUME Init PROVE IInv
  OBVIOUS
<1> USE RunQueueAssumption
<1>1. TypeOK
  BY DEF Init, TypeOK, MakeType, JobType, PollType, BootType, IdleMake, IdleJob,
         IdlePoll, Up, Posted
<1>2. FreshRows /\ MakesKnow /\ JobsKnow
  BY DEF Init, FreshRows, MakesKnow, JobsKnow, IdleMake, IdleJob
<1>3. InHandReady
  BY DEF Init, InHandReady, IdlePoll, Run
<1> QED BY <1>1, <1>2, <1>3 DEF IInv

\* createModuleRun's steps keep the invariant.
LEMMA MakeKeepsIInv ==
  ASSUME IInv, NEW c \in Creator,
         \/ \E l \in Lane, k \in Kinds : CreateModuleRun(c, l, k)
         \/ CreatorStep(c)
  PROVE  IInv'
<1> USE RunQueueAssumption DEF IInv
<1>1. ASSUME NEW l \in Lane, NEW k \in Kinds, CreateModuleRun(c, l, k)
      PROVE  IInv'
  <2> USE <1>1 DEF CreateModuleRun
  <2>1. TypeOK'
    BY DEF TypeOK, MakeType
  <2>2. FreshRows' /\ JobsKnow' /\ InHandReady'
    BY DEF FreshRows, JobsKnow, InHandReady
  <2>3. MakesKnow'
    BY DEF MakesKnow, TypeOK, MakeType
  <2> QED BY <2>1, <2>2, <2>3
<1>2. ASSUME EvictCascades(c) PROVE IInv'
  <2> USE <1>2 DEF EvictCascades
  <2>1. TypeOK'
    BY DEF TypeOK, MakeType
  <2>2. Steady
    BY DEF Steady, Waiting, NoRow
  <2>3. FreshRows' /\ InHandReady'
    BY <2>2, SteadyKeeps DEF TypeOK
  <2>4. JobsKnow' /\ MakesKnow'
    BY DEF JobsKnow, MakesKnow, TypeOK, MakeType
  <2> QED BY <2>1, <2>3, <2>4
<1>3. ASSUME TakePosition(c) PROVE IInv'
  <2>1. PICK m \in {0} \cup ({runs[r].pos : r \in Run} \ {None}) :
          make' = [make EXCEPT ![c].pc = "insert", ![c].pos = m + 1]
    BY <1>3 DEF TakePosition
  <2>2. m \in Int
    BY <2>1, RowFields DEF TypeOK, RowsType
  <2>3. UNCHANGED <<runs, created, job, poll, boot, runner, restarts>>
    BY <1>3 DEF TakePosition
  <2>4. TypeOK'
    <3>1. make[c] \in MakeType /\ m + 1 \in Int
      BY <2>2 DEF TypeOK
    <3>2. [make[c] EXCEPT !.pc = "insert", !.pos = m + 1] \in MakeType
      BY <3>1 DEF MakeType
    <3>3. make' \in [Creator -> MakeType]
      BY <2>1, <3>2 DEF TypeOK
    <3> QED BY <2>3, <3>3 DEF TypeOK
  <2>5. FreshRows' /\ JobsKnow' /\ InHandReady'
    BY <2>3 DEF FreshRows, JobsKnow, InHandReady
  <2>6. MakesKnow'
    BY <1>3, <2>1, <2>2 DEF TakePosition, MakesKnow, TypeOK, MakeType
  <2> QED BY <2>4, <2>5, <2>6
<1>4. ASSUME InsertRun(c) PROVE IInv'
  <2> DEFINE m == make[c]
             n == created + 1
             row == [lane |-> m.lane, kind |-> m.kind, status |-> InitialStatus(m),
                     pos |-> m.pos, token |-> OwnToken(m)]
  <2>1. /\ m.pc = "insert" /\ created < MaxRuns /\ n \in Run
        /\ runs' = [runs EXCEPT ![n] = row]
        /\ runner' = [runner EXCEPT ![n] =
             [t \in Token |-> IF t = OwnToken(m) THEN "idle" ELSE runner[n][t]]]
        /\ created' = n
        /\ make' = [make EXCEPT ![c] = IdleMake]
        /\ UNCHANGED <<job, poll, boot, restarts>>
    BY <1>4 DEF InsertRun, TypeOK, Run
  <2>2. row \in Row
    <3>1. m \in MakeType /\ m.lane \in Lane /\ m.kind \in Kinds
      BY <2>1 DEF TypeOK, MakesKnow
    <3>2. InitialStatus(m) \in Status \ {"absent"} /\ OwnToken(m) \in Nat
      BY DEF InitialStatus, OwnToken, Status
    <3> QED BY <3>1, <3>2 DEF Row, MakeType
  <2>3. TypeOK'
    <3>1. runs' \in [Run -> Row \cup {NoRow}]
      BY <2>1, <2>2 DEF TypeOK
    <3>2. runner' \in [Run -> [Token -> {"none", "idle"} \cup Posted]]
      BY <2>1 DEF TypeOK
    <3>3. created' \in 0..MaxRuns /\ make' \in [Creator -> MakeType]
      BY <2>1 DEF TypeOK, MakeType, IdleMake
    <3> QED BY <2>1, <3>1, <3>2, <3>3 DEF TypeOK
  <2>4. FreshRows'
    BY <2>1 DEF FreshRows, TypeOK, Run
  <2>5. MakesKnow' /\ JobsKnow'
    BY <2>1 DEF MakesKnow, JobsKnow, TypeOK, IdleMake
  <2>6. InHandReady'
    <3>1. runs[n] = NoRow
      BY <2>1 DEF FreshRows, TypeOK, Run
    <3> QED BY <2>1, <3>1 DEF InHandReady, TypeOK
  <2> QED BY <2>3, <2>4, <2>5, <2>6
<1> QED BY <1>1, <1>2, <1>3, <1>4 DEF CreatorStep

\* The handlers of requests keep it: they take up only what exists.
LEMMA RequestKeepsIInv ==
  ASSUME IInv, NEW w \in Worker, RequestStep(w)
  PROVE  IInv'
<1> USE RunQueueAssumption DEF IInv
<1> DEFINE Posts(r) ==
      \E k \in Token, p \in Posted :
        runner[r][k] # "none" /\ runner' = [runner EXCEPT ![r][k] = p]
     Admitted ==
      \E r \in Run, s \in Status \ {"absent"}, deq \in BOOLEAN, t \in Nat :
        Admit(w, r, s, deq, t) /\ (UNCHANGED runner \/ Posts(r))
<1>0. Admitted
  <2>1. PICK r \in Run :
          \/ Confirm(w, r) \/ Discard(w, r) \/ Cancel(w, r)
          \/ \E t \in Token :
               SubmitOutputs(w, r, t) \/ \E s \in Posted : StatusCallback(w, r, t, s)
    BY DEF RequestStep
  <2>2. CASE Confirm(w, r)
    <3>1. Admit(w, r, "confirmed", FALSE, 0) /\ UNCHANGED runner
      BY <2>2 DEF Confirm
    <3> QED BY <3>1 DEF Status
  <2>3. CASE Discard(w, r)
    <3>1. Admit(w, r, "discarded", TRUE, 0) /\ UNCHANGED runner
      BY <2>3 DEF Discard
    <3> QED BY <3>1 DEF Status
  <2>4. CASE Cancel(w, r)
    <3>1. Admit(w, r, "cancelled", TRUE, 0) /\ UNCHANGED runner
      BY <2>4 DEF Cancel
    <3> QED BY <3>1 DEF Status
  <2>5. ASSUME NEW t \in Token, SubmitOutputs(w, r, t)
        PROVE  Admitted
    <3>1. Admit(w, r, runs[r].status, FALSE, t) /\ UNCHANGED runner
      BY <2>5 DEF SubmitOutputs
    <3>2. runs[r].status \in Status \ {"absent"} /\ t \in Nat
      BY <2>5, <3>1, RowFields DEF Admit, TypeOK, RowsType, Row, Token
    <3> QED BY <3>1, <3>2
  <2>6. ASSUME NEW t \in Token, NEW s \in Posted, StatusCallback(w, r, t, s)
        PROVE  Admitted
    <3>1. Admit(w, r, s, s \in {"succeeded", "failed"}, t)
      BY <2>6 DEF StatusCallback
    <3>2. Posts(r)
      BY <2>6 DEF StatusCallback
    <3>3. s \in Status \ {"absent"} /\ t \in Nat
      BY DEF Posted, Status, Token
    <3> DEFINE deq == s \in {"succeeded", "failed"}
    <3>4. deq \in BOOLEAN
      OBVIOUS
    <3> HIDE DEF deq, Posts
    <3>5. Admit(w, r, s, deq, t)
      BY <3>1 DEF deq
    <3> QED BY <3>2, <3>3, <3>4, <3>5
  <2> QED BY <2>1, <2>2, <2>3, <2>4, <2>5, <2>6
<1>1. PICK r \in Run, s \in Status \ {"absent"}, deq \in BOOLEAN, t \in Nat :
        Admit(w, r, s, deq, t) /\ (UNCHANGED runner \/ Posts(r))
  BY <1>0
<1>2. /\ job' = [job EXCEPT ![w] = [pc |-> "write", run |-> r,
                                    lane |-> runs[r].lane, to |-> s, deq |-> deq,
                                    by |-> t]]
      /\ UNCHANGED <<runs, created, make, poll, boot, restarts>>
  BY <1>1 DEF Admit
<1>3. TypeOK'
  <2>1. runs[r].lane \in Lane \cup {None}
    BY RowFields DEF TypeOK, RowsType
  <2>2. job' \in [Worker -> JobType]
    BY <1>2, <2>1 DEF TypeOK, JobType
  <2>3. runner' \in [Run -> [Token -> {"none", "idle"} \cup Posted]]
    <3>1. CASE UNCHANGED runner
      BY <3>1 DEF TypeOK
    <3>2. ASSUME NEW k \in Token, NEW p \in Posted,
                 runner' = [runner EXCEPT ![r][k] = p]
          PROVE  runner' \in [Run -> [Token -> {"none", "idle"} \cup Posted]]
      BY <3>2 DEF TypeOK
    <3> QED BY <1>1, <3>1, <3>2
  <2> QED BY <1>2, <2>2, <2>3 DEF TypeOK
<1>4. JobsKnow'
  BY <1>2 DEF JobsKnow, TypeOK
<1>5. FreshRows'
  BY <1>1, <1>2 DEF FreshRows, TypeOK
<1>6. InHandReady' /\ MakesKnow'
  BY <1>2 DEF InHandReady, MakesKnow
<1> QED BY <1>3, <1>4, <1>5, <1>6

\* What a handler writes later keeps it, however stale its decision is.
LEMMA WorkerKeepsIInv ==
  ASSUME IInv, NEW w \in Worker, WorkerStep(w)
  PROVE  IInv'
<1> USE RunQueueAssumption DEF IInv
<1>1. /\ UNCHANGED <<created, make, poll, boot, runner, restarts>>
      /\ job' \in [Worker -> JobType] /\ JobsKnow'
  <2>1. IdleJob \in JobType /\ IdleJob.pc = "idle" /\ job[w] \in JobType
    BY DEF TypeOK, JobType, IdleJob
  <2>2. CASE Dequeue(w)
    BY <2>1, <2>2 DEF Dequeue, TypeOK, JobsKnow
  <2>3. CASE WriteStatus(w)
    <3>1. [job[w] EXCEPT !.pc = "dequeue"] \in JobType
      BY <2>1 DEF JobType
    <3>2. /\ job' = [job EXCEPT ![w] = IF job[w].deq
                          THEN [job[w] EXCEPT !.pc = "dequeue"] ELSE IdleJob]
          /\ job[w].pc = "write"
          /\ UNCHANGED <<created, make, poll, boot, runner, restarts>>
      BY <2>3 DEF WriteStatus
    <3> QED BY <2>1, <3>1, <3>2 DEF TypeOK, JobsKnow, JobType
  <2> QED BY <2>2, <2>3 DEF WorkerStep
<1>2. RowsType' /\ Steady
  <2>1. RowsType
    BY DEF TypeOK, RowsType
  <2>2. CASE WriteStatus(w)
    BY <2>1, <2>2, UpdateEffect DEF WriteStatus, JobsKnow, Steady, SameQueue
  <2>3. CASE Dequeue(w)
    BY <2>1, <2>3, DequeueEffect DEF Dequeue, Steady
  <2> QED BY <2>2, <2>3 DEF WorkerStep
<1>3. FreshRows' /\ InHandReady'
  BY <1>1, <1>2, SteadyKeeps DEF TypeOK
<1>4. TypeOK' /\ MakesKnow'
  BY <1>1, <1>2 DEF TypeOK, RowsType, MakesKnow
<1> QED BY <1>1, <1>3, <1>4

\* What is left of a batch is still ready, so the loop may go on with it.
LEMMA ProceedKeeps ==
  ASSUME IInv, NEW p \in Poller, NEW b \in SUBSET Run, Proceed(p, b),
         \A r \in b : runs[r] # NoRow /\ runs[r].pos = None,
         Steady
  PROVE  poll' \in [Poller -> PollType] /\ InHandReady'
<1> USE RunQueueAssumption DEF IInv
<1>1. PICK q \in PollType :
        poll' = [poll EXCEPT ![p] = q] /\ q.batch \subseteq b /\ q.run = None
  <2>1. IdlePoll \in PollType /\ IdlePoll.batch = {} /\ IdlePoll.run = None
    BY DEF IdlePoll, PollType
  <2>2. [IdlePoll EXCEPT !.pc = "dispatch", !.batch = b] \in PollType
    BY <2>1 DEF PollType
  <2> QED BY <2>1, <2>2 DEF Proceed, IdlePoll
<1>2. poll' \in [Poller -> PollType]
  BY <1>1 DEF TypeOK
<1>3. InHandReady'
  BY <1>1 DEF InHandReady, Steady, TypeOK, Run
<1> QED BY <1>2, <1>3

\* The steps of a poll keep it.
LEMMA PollerKeepsIInv ==
  ASSUME IInv, NEW p \in Poller, PollerStep(p)
  PROVE  IInv'
<1> USE RunQueueAssumption DEF IInv
<1>0. poll[p] \in PollType /\ RowsType
  BY DEF TypeOK, RowsType
<1>1. ASSUME CountRunning(p) PROVE IInv'
  <2> DEFINE R == PendingModuleRuns("running")
             available == MaxConcurrent - Cardinality(R)
  <2>1. R \subseteq Run /\ IsFiniteSet(Run)
    BY FS_Interval DEF PendingModuleRuns, Run
  <2>2. Cardinality(R) \in Nat
    BY <2>1, FS_Subset, FS_CardinalityType
  <2>3. available > 0
        /\ poll' = [poll EXCEPT ![p].pc = "list", ![p].avail = available]
        /\ UNCHANGED <<runs, created, make, job, boot, runner, restarts>>
    BY <1>1 DEF CountRunning
  <2> HIDE DEF R
  <2>4. available \in Nat
    BY <2>2, <2>3
  <2> HIDE DEF available
  <2>5. [poll[p] EXCEPT !.pc = "list", !.avail = available] \in PollType
    BY <1>0, <2>4 DEF PollType
  <2>6. TypeOK'
    BY <2>3, <2>5 DEF TypeOK
  <2>7. FreshRows' /\ MakesKnow' /\ JobsKnow'
    BY <2>3 DEF FreshRows, MakesKnow, JobsKnow
  <2>8. InHandReady'
    BY <1>0, <2>3 DEF InHandReady, TypeOK, PollType
  <2> QED BY <2>6, <2>7, <2>8
<1>2. ASSUME ListQueued(p) PROVE IInv'
  <2>1. PICK b \in SUBSET PendingModuleRuns("queued") : Proceed(p, b)
    BY <1>2 DEF ListQueued
  <2>2. UNCHANGED <<runs, created, make, job, boot, runner, restarts>>
    BY <1>2 DEF ListQueued
  <2>3. b \in SUBSET Run /\ \A r \in b : runs[r] # NoRow /\ runs[r].pos = None
    BY DEF PendingModuleRuns, NoRow
  <2>4. Steady
    BY <2>2 DEF Steady
  <2>5. poll' \in [Poller -> PollType] /\ InHandReady'
    BY <2>1, <2>3, <2>4, ProceedKeeps
  <2>6. TypeOK' /\ FreshRows' /\ MakesKnow' /\ JobsKnow'
    BY <2>2, <2>5 DEF TypeOK, FreshRows, MakesKnow, JobsKnow
  <2> QED BY <2>5, <2>6
<1>3. ASSUME DispatchRun(p) PROVE IInv'
  <2> DEFINE rest(r) == poll[p].batch \ {r}
  <2>1. PICK r \in poll[p].batch :
          \/ Proceed(p, rest(r)) /\ UNCHANGED runs
          \/ /\ runs' = [runs EXCEPT ![r].status = "running",
                                     ![r].token = runs[r].token + 1]
             /\ poll' = [poll EXCEPT ![p].pc = "launch", ![p].run = r,
                           ![p].batch = rest(r),
                           ![p].token = runs[r].token + 1]
    BY <1>3 DEF DispatchRun
  <2>2. UNCHANGED <<created, make, job, boot, runner, restarts>>
    BY <1>3 DEF DispatchRun
  <2>3. /\ r \in Run /\ rest(r) \in SUBSET Run
        /\ \A q \in rest(r) \cup {r} : runs[q] # NoRow /\ runs[q].pos = None
    BY <1>0 DEF PollType, InHandReady
  <2>4. CASE Proceed(p, rest(r)) /\ UNCHANGED runs
    <3>1. Steady
      BY <2>4 DEF Steady
    <3>2. poll' \in [Poller -> PollType] /\ InHandReady'
      BY <2>3, <2>4, <3>1, ProceedKeeps
    <3>3. TypeOK' /\ FreshRows' /\ MakesKnow' /\ JobsKnow'
      BY <2>2, <2>4, <3>2 DEF TypeOK, FreshRows, MakesKnow, JobsKnow
    <3> QED BY <3>2, <3>3
  <2>5. CASE /\ runs' = [runs EXCEPT ![r].status = "running",
                                     ![r].token = runs[r].token + 1]
             /\ poll' = [poll EXCEPT ![p].pc = "launch", ![p].run = r,
                           ![p].batch = rest(r),
                           ![p].token = runs[r].token + 1]
    <3> DEFINE row == [runs[r] EXCEPT !.status = "running",
                                      !.token = runs[r].token + 1]
               todo == [poll[p] EXCEPT !.pc = "launch", !.run = r,
                          !.batch = rest(r), !.token = runs[r].token + 1]
    <3>1. runs[r] \in Row /\ NoRow \notin Row
      BY <1>0, <2>3, RowFields
    <3>0. runs[r].token + 1 \in Nat /\ runs[r].pos = None
      BY <2>3, <3>1 DEF Row
    <3>2. row \in Row /\ row.pos = None
      BY <3>0, <3>1 DEF Row, Status
    <3>3. todo \in PollType /\ todo.run = r /\ todo.batch \subseteq poll[p].batch
      <4>1. rest(r) \in SUBSET Run /\ rest(r) \subseteq poll[p].batch /\ r \in Run
        BY <2>3
      <4> HIDE DEF rest
      <4> QED BY <1>0, <3>0, <4>1 DEF PollType
    <3>4. runs' = [runs EXCEPT ![r] = row] /\ poll' = [poll EXCEPT ![p] = todo]
      BY <2>5
    <3> HIDE DEF row, todo
    <3>5. Steady
      BY <2>3, <3>1, <3>2, <3>4 DEF Steady, TypeOK
    <3>6. TypeOK'
      BY <2>2, <3>2, <3>3, <3>4 DEF TypeOK
    <3>7. FreshRows' /\ MakesKnow' /\ JobsKnow'
      BY <2>2, <3>5 DEF FreshRows, MakesKnow, JobsKnow, Steady
    <3>8. InHandReady'
      BY <2>3, <3>3, <3>4, <3>5 DEF InHandReady, Steady, TypeOK
    <3> QED BY <3>6, <3>7, <3>8
  <2> QED BY <2>1, <2>4, <2>5
<1>4. ASSUME Launch(p) PROVE IInv'
  <2>1. UNCHANGED <<runs, created, make, job, boot, restarts>>
    BY <1>4 DEF Launch
  <2>2. Steady
    BY <2>1 DEF Steady
  <2>3. poll' \in [Poller -> PollType] /\ InHandReady'
    <3>1. CASE Proceed(p, poll[p].batch)
      BY <1>0, <2>2, <3>1, ProceedKeeps DEF InHandReady, PollType
    <3>2. CASE poll' = [poll EXCEPT ![p].pc = "fail"]
      <4>1. [poll[p] EXCEPT !.pc = "fail"] \in PollType
        BY <1>0 DEF PollType
      <4>2. poll' \in [Poller -> PollType]
        BY <3>2, <4>1 DEF TypeOK
      <4>3. InHandReady'
        BY <1>0, <2>1, <3>2 DEF InHandReady, TypeOK, PollType
      <4> QED BY <4>2, <4>3
    <3> QED BY <1>4, <3>1, <3>2 DEF Launch
  <2>4. /\ runner' \in [Run -> [Token -> {"none", "idle"} \cup Posted]]
        /\ \A r \in Run : runs[r] = NoRow => runner'[r] = runner[r]
    <3>1. CASE UNCHANGED runner
      BY <3>1 DEF TypeOK
    <3>2. CASE runner' = Launched(p)
      <4>1. \A r \in Run : r = poll[p].run => runs[r] # NoRow
        BY DEF InHandReady
      <4> QED BY <3>2, <4>1 DEF Launched, TypeOK
    <3> QED BY <1>4, <3>1, <3>2 DEF Launch
  <2>5. TypeOK' /\ FreshRows' /\ MakesKnow' /\ JobsKnow'
    BY <2>1, <2>3, <2>4 DEF TypeOK, FreshRows, MakesKnow, JobsKnow
  <2> QED BY <2>3, <2>5
<1>5. ASSUME FailDispatch(p) PROVE IInv'
  <2>1. /\ poll' = [poll EXCEPT ![p].pc = "release"]
        /\ runs' = UpdateModuleRunStatus(poll[p].run, "failed")
        /\ UNCHANGED <<created, make, job, boot, runner, restarts>>
    BY <1>5 DEF FailDispatch
  <2>2. RowsType' /\ Steady
    <3>1. CASE poll[p].run \in Run
      BY <1>0, <2>1, <3>1, UpdateEffect DEF Steady, SameQueue, Status
    <3>2. CASE poll[p].run \notin Run
      <4>1. runs' = runs
        BY <1>0, <2>1, <3>2 DEF UpdateModuleRunStatus, RowsType
      <4> QED BY <1>0, <4>1 DEF Steady, RowsType
    <3> QED BY <3>1, <3>2
  <2>3. [poll[p] EXCEPT !.pc = "release"] \in PollType
    BY <1>0 DEF PollType
  <2>4. TypeOK'
    BY <2>1, <2>2, <2>3 DEF TypeOK, RowsType
  <2>5. \A q \in Poller : poll'[q].batch = poll[q].batch /\ poll'[q].run = poll[q].run
    BY <1>0, <2>1 DEF TypeOK, PollType
  <2>6. FreshRows' /\ InHandReady'
    BY <2>1, <2>2, <2>5, SteadyKeeps DEF TypeOK
  <2>7. MakesKnow' /\ JobsKnow'
    BY <2>1 DEF MakesKnow, JobsKnow
  <2> QED BY <2>4, <2>6, <2>7
<1>6. ASSUME ReleaseLane(p) PROVE IInv'
  <2>1. /\ DequeueNextModuleRun(runs[poll[p].run].lane)
        /\ Proceed(p, poll[p].batch)
        /\ UNCHANGED <<created, make, job, boot, runner, restarts>>
    BY <1>6 DEF ReleaseLane
  <2>2. RowsType' /\ Steady
    BY <1>0, <2>1, DequeueEffect DEF Steady
  <2>3. poll' \in [Poller -> PollType] /\ InHandReady'
    BY <1>0, <2>1, <2>2, ProceedKeeps DEF InHandReady, PollType
  <2>4. TypeOK' /\ FreshRows' /\ MakesKnow' /\ JobsKnow'
    BY <2>1, <2>2, <2>3 DEF TypeOK, RowsType, FreshRows, MakesKnow, JobsKnow, Steady
  <2> QED BY <2>3, <2>4
<1> QED BY <1>1, <1>2, <1>3, <1>4, <1>5, <1>6 DEF PollerStep

\* So do a restart, the recovery after it, and the sweep.
LEMMA RecoveryKeepsIInv ==
  ASSUME IInv, RecoveryStep \/ Restart \/ Sweep
  PROVE  IInv'
<1> USE RunQueueAssumption DEF IInv
<1>0. RowsType
  BY DEF TypeOK, RowsType
<1>1. ASSUME Restart PROVE IInv'
  <2>1. TypeOK'
    <3>1. IdleMake \in MakeType /\ IdleJob \in JobType /\ IdlePoll \in PollType
      BY DEF MakeType, JobType, PollType, IdleMake, IdleJob, IdlePoll
    <3>2. [Up EXCEPT !.pc = "list"] \in BootType
      BY DEF BootType, Up
    <3>3. restarts + 1 \in 0..MaxRestarts
      BY <1>1 DEF Restart, TypeOK
    <3> QED BY <1>1, <3>1, <3>2, <3>3 DEF Restart, TypeOK
  <2>2. FreshRows' /\ MakesKnow' /\ JobsKnow'
    BY <1>1 DEF Restart, FreshRows, MakesKnow, JobsKnow, IdleMake, IdleJob
  <2>3. InHandReady'
    BY <1>1 DEF Restart, InHandReady, IdlePoll, Run
  <2> QED BY <2>1, <2>2, <2>3
<1>2. ASSUME RecoveryStep \/ Sweep PROVE IInv'
  <2>1. /\ UNCHANGED <<created, make, job, poll, runner, restarts>>
        /\ boot' \in BootType /\ RowsType' /\ Steady
    <3>1. ASSUME ListRunning PROVE <2>1
      BY <1>0, <3>1 DEF ListRunning, Resume, Up, BootType, PendingModuleRuns,
                        Steady, RowsType
    <3>2. ASSUME NEW r \in Run, RecoverRun(r) PROVE <2>1
      <4>1. /\ RowsType' /\ Steady
        BY <1>0, <3>2, UpdateEffect DEF RecoverRun, Steady, SameQueue, RowsType, Status
      <4>2. boot \in BootType /\ runs[r].lane \in Lane \cup {None}
        BY <1>0, RowFields DEF TypeOK
      <4>3. boot' \in BootType
        <5>1. boot.todo \ {r} \in SUBSET Run
          BY <4>2 DEF BootType
        <5>2. CASE Resume(boot.todo \ {r})
          BY <5>1, <5>2 DEF Resume, Up, BootType
        <5>3. CASE boot' = [pc |-> "dequeue", todo |-> boot.todo \ {r},
                            lane |-> runs[r].lane]
          BY <4>2, <5>1, <5>3 DEF BootType
        <5> QED BY <3>2, <5>2, <5>3 DEF RecoverRun
      <4> QED BY <3>2, <4>1, <4>3 DEF RecoverRun
    <3>3. ASSUME RecoverDequeue PROVE <2>1
      <4>1. RowsType' /\ Steady
        BY <1>0, <3>3, DequeueEffect DEF RecoverDequeue, Steady
      <4>2. boot' \in BootType
        BY <3>3 DEF RecoverDequeue, Resume, Up, BootType, TypeOK
      <4> QED BY <3>3, <4>1, <4>2 DEF RecoverDequeue
    <3>4. ASSUME NEW S \in SUBSET Run, ExpireTimedOutModuleRuns(S) PROVE <2>1
      <4>1. \A r \in S : runs[r] \in Row
        BY <1>0, <3>4, RowFields DEF ExpireTimedOutModuleRuns
      <4>2. \A r \in S : [runs[r] EXCEPT !.status = "timed_out"] \in Row
        BY <4>1 DEF Row, Status
      <4>3. NoRow \notin Row
        BY <1>0, RowFields DEF Row, NoRow, Status
      <4>4. RowsType'
        BY <1>0, <3>4, <4>2 DEF ExpireTimedOutModuleRuns, RowsType
      <4>5. Steady
        BY <3>4, <4>1, <4>2, <4>3 DEF ExpireTimedOutModuleRuns, Steady, Row
      <4> QED BY <3>4, <4>4, <4>5 DEF ExpireTimedOutModuleRuns, TypeOK
    <3> QED BY <1>2, <3>1, <3>2, <3>3, <3>4 DEF RecoveryStep, Sweep
  <2>2. FreshRows' /\ InHandReady'
    BY <2>1, SteadyKeeps DEF TypeOK
  <2>3. TypeOK' /\ MakesKnow' /\ JobsKnow'
    BY <2>1 DEF TypeOK, RowsType, MakesKnow, JobsKnow
  <2> QED BY <2>2, <2>3
<1> QED BY <1>1, <1>2

\* The invariant is inductive.
LEMMA NextIInv == IInv /\ [Next]_vars => IInv'
<1> SUFFICES ASSUME IInv, [Next]_vars PROVE IInv'
  OBVIOUS
<1>1. CASE UNCHANGED vars
  BY <1>1 DEF vars, IInv, TypeOK, FreshRows, MakesKnow, JobsKnow, InHandReady
<1>2. CASE Next
  BY <1>2, MakeKeepsIInv, RequestKeepsIInv, WorkerKeepsIInv, PollerKeepsIInv,
     RecoveryKeepsIInv DEF Next
<1> QED BY <1>1, <1>2

THEOREM Invariance == Spec => []IInv
BY InitIInv, NextIInv, PTL DEF Spec

\* Every variable keeps its type under every interleaving: no write that
\* comes late revives a deleted row or leaves one half written.
THEOREM TypeCorrect == Spec => []TypeOK
<1>1. IInv => TypeOK
  BY DEF IInv
<1> QED BY <1>1, Invariance, PTL

----------------------------------------------------------------------------
(* Waiting PeaaS rows have never been launched.                            *)

TokenFree ==
  \A r \in Run : runs[r].pos # None /\ runs[r].lane \notin Byoc =>
    runs[r].token = 0 /\ \A t \in Token : runner[r][t] = "none"

\* What waits after the step waited before it, in the same lane and with the
\* same token, and nobody was started for it.
KeepsWaiting ==
  \A r \in Run : runs'[r].pos # None =>
    /\ runs[r].pos # None
    /\ runs'[r].lane = runs[r].lane /\ runs'[r].token = runs[r].token
    /\ (\A t \in Token : runner[r][t] = "none") =>
         \A t \in Token : runner'[r][t] = "none"

LEMMA KeepsTokenFree == TokenFree /\ KeepsWaiting => TokenFree'
BY DEF TokenFree, KeepsWaiting

LEMMA PollerKeepsWaiting ==
  ASSUME IInv, NEW p \in Poller, PollerStep(p)
  PROVE  KeepsWaiting
<1> USE DEF IInv
<1>0. RowsType
  BY DEF TypeOK, RowsType
<1>1. CASE CountRunning(p) \/ ListQueued(p)
  BY <1>1 DEF CountRunning, ListQueued, KeepsWaiting
<1>2. CASE DispatchRun(p)
  <2>1. PICK r \in poll[p].batch :
          \/ runs' = runs
          \/ runs' = [runs EXCEPT ![r].status = "running",
                                  ![r].token = runs[r].token + 1]
    BY <1>2 DEF DispatchRun
  <2>2. r \in Run /\ runs[r] # NoRow /\ runs[r].pos = None
    BY DEF InHandReady, TypeOK, PollType
  <2>3. runs[r] \in Row
    BY <1>0, <2>2, RowFields
  <2>4. runs'[r].pos = None /\ \A q \in Run \ {r} : runs'[q] = runs[q]
    BY <2>1, <2>2, <2>3 DEF TypeOK, Row
  <2>5. UNCHANGED runner
    BY <1>2 DEF DispatchRun
  <2> QED BY <2>4, <2>5 DEF KeepsWaiting
<1>3. CASE Launch(p)
  <2>1. UNCHANGED runs /\ (UNCHANGED runner \/ runner' = Launched(p))
    BY <1>3 DEF Launch
  <2>2. \A r \in Run : r = poll[p].run => runs[r].pos = None
    BY DEF InHandReady
  <2> QED BY <2>1, <2>2 DEF KeepsWaiting, Launched, TypeOK
<1>4. CASE FailDispatch(p)
  <2>1. runs' = UpdateModuleRunStatus(poll[p].run, "failed") /\ UNCHANGED runner
    BY <1>4 DEF FailDispatch
  <2>2. CASE poll[p].run \in Run
    BY <1>0, <2>1, <2>2, UpdateEffect DEF KeepsWaiting, SameQueue, Status
  <2>3. CASE poll[p].run \notin Run
    BY <2>1, <2>3 DEF UpdateModuleRunStatus, KeepsWaiting, TypeOK
  <2> QED BY <2>2, <2>3
<1>5. CASE ReleaseLane(p)
  BY <1>0, <1>5, DequeueEffect DEF ReleaseLane, KeepsWaiting
<1> QED BY <1>1, <1>2, <1>3, <1>4, <1>5 DEF PollerStep

LEMMA OthersKeepWaiting ==
  ASSUME IInv,
         \/ \E w \in Worker : RequestStep(w) \/ WorkerStep(w)
         \/ RecoveryStep \/ Restart \/ Sweep
  PROVE  KeepsWaiting
<1> USE DEF IInv
<1>0. RowsType
  BY DEF TypeOK, RowsType
<1>1. ASSUME NEW w \in Worker, RequestStep(w) PROVE KeepsWaiting
  <2>1. UNCHANGED runs
    BY <1>1 DEF RequestStep, Confirm, Discard, Cancel, SubmitOutputs,
                StatusCallback, Admit
  <2>2. \/ UNCHANGED runner
        \/ \E r \in Run, t \in Token, s \in Posted :
             runner[r][t] # "none" /\ runner' = [runner EXCEPT ![r][t] = s]
    BY <1>1 DEF RequestStep, Confirm, Discard, Cancel, SubmitOutputs, StatusCallback
  <2> QED BY <2>1, <2>2 DEF KeepsWaiting, TypeOK
<1>2. ASSUME NEW w \in Worker, WriteStatus(w) PROVE KeepsWaiting
  BY <1>0, <1>2, UpdateEffect DEF WriteStatus, JobsKnow, KeepsWaiting, SameQueue
<1>3. ASSUME NEW w \in Worker, Dequeue(w) PROVE KeepsWaiting
  BY <1>0, <1>3, DequeueEffect DEF Dequeue, KeepsWaiting
<1>4. CASE Restart \/ ListRunning
  BY <1>4 DEF Restart, ListRunning, KeepsWaiting
<1>5. ASSUME NEW r \in Run, RecoverRun(r) PROVE KeepsWaiting
  <2>1. /\ UNCHANGED runs \/ runs' = UpdateModuleRunStatus(r, "timed_out")
        /\ UNCHANGED runner
    BY <1>5 DEF RecoverRun
  <2> QED BY <1>0, <2>1, UpdateEffect DEF KeepsWaiting, SameQueue, Status
<1>6. ASSUME RecoverDequeue PROVE KeepsWaiting
  BY <1>0, <1>6, DequeueEffect DEF RecoverDequeue, KeepsWaiting
<1>7. ASSUME NEW S \in SUBSET Run, ExpireTimedOutModuleRuns(S) PROVE KeepsWaiting
  <2>1. \A r \in S : runs[r] \in Row
    BY <1>0, <1>7, RowFields DEF ExpireTimedOutModuleRuns
  <2>2. \A r \in S : LET row == [runs[r] EXCEPT !.status = "timed_out"]
                     IN row.lane = runs[r].lane /\ row.token = runs[r].token
                        /\ row.pos = runs[r].pos
    BY <2>1 DEF Row
  <2> QED BY <1>7, <2>2 DEF ExpireTimedOutModuleRuns, KeepsWaiting
<1> QED BY <1>1, <1>2, <1>3, <1>4, <1>5, <1>6, <1>7
        DEF WorkerStep, RecoveryStep, Sweep

LEMMA MakeKeepsTokenFree ==
  ASSUME IInv, TokenFree, NEW c \in Creator,
         \/ \E l \in Lane, k \in Kinds : CreateModuleRun(c, l, k)
         \/ CreatorStep(c)
  PROVE  TokenFree'
<1> USE DEF IInv
<1>1. ASSUME NEW l \in Lane, NEW k \in Kinds, CreateModuleRun(c, l, k)
      PROVE  TokenFree'
  BY <1>1 DEF CreateModuleRun, TokenFree
<1>2. CASE EvictCascades(c)
  BY <1>2 DEF EvictCascades, TokenFree, NoRow
<1>3. CASE TakePosition(c)
  BY <1>3 DEF TakePosition, TokenFree
<1>4. CASE InsertRun(c)
  <2> DEFINE n == created + 1
  <2>1. /\ n \in Run /\ n > created
        /\ runs' = [runs EXCEPT ![n] =
             [lane |-> make[c].lane, kind |-> make[c].kind,
              status |-> InitialStatus(make[c]), pos |-> make[c].pos,
              token |-> OwnToken(make[c])]]
        /\ runner' = [runner EXCEPT ![n] =
             [t \in Token |-> IF t = OwnToken(make[c]) THEN "idle"
                              ELSE runner[n][t]]]
    BY <1>4, RunQueueAssumption DEF InsertRun, TypeOK, Run
  <2>2. \A t \in Token : runner[n][t] = "none" /\ t # 0
    BY <2>1 DEF FreshRows, Token
  <2>3. make[c].lane \notin Byoc => OwnToken(make[c]) = 0
    BY DEF OwnToken
  <2> HIDE DEF n
  <2>4. runs'[n].lane \notin Byoc =>
          runs'[n].token = 0 /\ \A t \in Token : runner'[n][t] = "none"
    BY <2>1, <2>2, <2>3 DEF TypeOK
  <2>5. \A r \in Run \ {n} : runs'[r] = runs[r] /\ runner'[r] = runner[r]
    BY <2>1 DEF TypeOK
  <2> QED BY <2>4, <2>5 DEF TokenFree
<1> QED BY <1>1, <1>2, <1>3, <1>4 DEF CreatorStep

LEMMA NextTokenFree == IInv /\ TokenFree /\ [Next]_vars => TokenFree'
<1> SUFFICES ASSUME IInv, TokenFree, [Next]_vars PROVE TokenFree'
  OBVIOUS
<1>1. CASE UNCHANGED vars
  BY <1>1 DEF vars, TokenFree
<1>2. CASE Next
  BY <1>2, MakeKeepsTokenFree, PollerKeepsWaiting, OthersKeepWaiting,
     KeepsTokenFree DEF Next
<1> QED BY <1>1, <1>2

\* No PeaaS row is handed to a runner while it waits: the dispatcher, a
\* restart and any number of stale polls respect the queue position.
THEOREM NeverLaunchedWhileWaiting == Spec => []WaitingNeverLaunched
<1>1. Init => TokenFree
  BY DEF Init, TokenFree, NoRow
<1>2. IInv /\ TokenFree => WaitingNeverLaunched
  BY DEF IInv, InHandReady, TokenFree, WaitingNeverLaunched
<1> QED BY <1>1, <1>2, NextTokenFree, Invariance, PTL DEF Spec

----------------------------------------------------------------------------
(* Lanes are handed on.                                                    *)

\* A request in flight knows the lane of its row. It dequeues the lane unless
\* what it writes leaves the row active or confirms it.
JobsKnowLane ==
  \A w \in Worker :
    /\ job[w].pc = "idle" => ~job[w].deq
    /\ job[w].pc # "idle" =>
         /\ job[w].run <= created
         /\ runs[job[w].run] # NoRow => job[w].lane = runs[job[w].run].lane
    /\ job[w].pc = "write" /\ ~job[w].deq => job[w].to \in Active \cup {"confirmed"}
    /\ job[w].pc = "dequeue" => job[w].deq

\* A poll that has written a row 'running' has that row.
LaunchesKnow ==
  \A p \in Poller : poll[p].pc \in {"launch", "fail", "release"} => poll[p].run \in Run

\* A cascade that waits is not active and nobody is about to make it so: it
\* may be deleted without ending what its lane waits for.
CascadesRest ==
  \A r \in Run : runs[r].pos # None /\ runs[r].kind = "cascade" =>
    /\ runs[r].status \notin Active
    /\ \A t \in Token : runner[r][t] = "none"
    /\ \A w \in Worker : job[w].pc = "write" /\ job[w].run = r => job[w].to \notin Active

LaneInv == JobsKnowLane /\ LaunchesKnow /\ CascadesRest

\* The row keeps its lane from being forgotten.
Holds(r) == runs[r].status \in Active \/ (runs[r].status = "queued" /\ runs[r].pos = None)

\* Somebody in flight will dequeue the lane.
Promised(l) ==
  \/ \E w \in Worker : job[w].lane = l /\ job[w].deq
  \/ \E p \in Poller : /\ poll[p].pc \in {"fail", "release"}
                      /\ runs[poll[p].run].lane = l
  \/ boot.pc = "dequeue" /\ boot.lane = l

LEMMA AttendedMeans ==
  ASSUME NEW l
  PROVE  Attended(l) <=> (\E r \in Run : runs[r].lane = l /\ Holds(r)) \/ Promised(l)
BY DEF Attended, Holds, Promised, ActiveModuleRuns, PendingModuleRuns

LEMMA AttendedMeansNext ==
  ASSUME NEW l
  PROVE  Attended(l)' <=> (\E r \in Run : runs'[r].lane = l /\ Holds(r)') \/ Promised(l)'
BY DEF Attended, Holds, Promised, ActiveModuleRuns, PendingModuleRuns

\* A step that hands on: what attended a lane goes on to, or leaves the lane
\* to somebody else.
HandsOn == \A l \in Lane : Waiting(l)' # {} /\ Attended(l) => Attended(l)'

\* Rows that hold their lane do so after the step, in their lane.
HoldersStay == \A r \in Run : Holds(r) => Holds(r)' /\ runs'[r].lane = runs[r].lane

\* Nobody's promise to dequeue is lost.
PromisesStay ==
  /\ \A w \in Worker : job[w].deq => job'[w].deq /\ job'[w].lane = job[w].lane
  /\ \A p \in Poller : poll[p].pc \in {"fail", "release"} =>
       /\ poll'[p].pc \in {"fail", "release"} /\ poll'[p].run = poll[p].run
       /\ runs'[poll[p].run].lane = runs[poll[p].run].lane
  /\ boot.pc = "dequeue" => UNCHANGED boot

LEMMA PromisesKeptFor ==
  ASSUME PromisesStay, NEW l, Promised(l)
  PROVE  Promised(l)'
BY DEF PromisesStay, Promised

LEMMA StayersHandOn ==
  ASSUME HoldersStay, PromisesStay
  PROVE  HandsOn
<1> SUFFICES ASSUME NEW l \in Lane, Attended(l) PROVE Attended(l)'
  BY DEF HandsOn
<1>1. CASE Promised(l)
  BY <1>1, PromisesKeptFor, AttendedMeansNext
<1>2. CASE \E r \in Run : runs[r].lane = l /\ Holds(r)
  BY <1>2, AttendedMeansNext DEF HoldersStay
<1> QED BY <1>1, <1>2, AttendedMeans

\* dequeueNextModuleRun serves its lane if anything waits there, and touches
\* no holder of any lane.
LEMMA DequeueServes ==
  ASSUME RowsType, NEW m, DequeueNextModuleRun(m)
  PROVE  /\ HoldersStay
         /\ \A r \in Run : runs'[r].status # runs[r].status =>
              runs'[r].status = "queued" /\ runs'[r].pos = None
         /\ Waiting(m)' # {} => \E r \in Run : runs'[r].lane = m /\ Holds(r)'
<1>1. CASE Waiting(m) = {}
  BY <1>1 DEF DequeueNextModuleRun, HoldersStay, Holds, Waiting
<1>2. CASE Waiting(m) # {}
  <2>1. PICK h \in Heads(m) : runs' = Promote(m, h)
    BY <1>2 DEF DequeueNextModuleRun
  <2>2. h \in Run /\ runs[h].pos # None /\ runs[h].lane = m /\ runs[h] \in Row
    BY RowFields DEF Heads, Waiting
  <2>3. /\ runs'[h].status = "queued" /\ runs'[h].pos = None /\ runs'[h].lane = m
    BY <2>1, <2>2 DEF Promote, Row
  <2>4. ASSUME NEW q \in Run \ {h}
        PROVE  /\ runs'[q].status = runs[q].status /\ runs'[q].lane = runs[q].lane
               /\ runs[q].pos = None => runs'[q].pos = None
    <3>1. CASE q \in Waiting(m)
      <4>1. runs[q] \in Row /\ runs[q].pos # None
        BY <3>1, RowFields DEF Waiting
      <4>2. runs'[q] = [runs[q] EXCEPT !.pos = runs[q].pos - 1]
        BY <2>1, <3>1 DEF Promote
      <4> QED BY <4>1, <4>2 DEF Row
    <3>2. CASE q \notin Waiting(m)
      BY <2>1, <3>2 DEF Promote
    <3> QED BY <3>1, <3>2
  <2> QED BY <2>2, <2>3, <2>4 DEF HoldersStay, Holds
<1> QED BY <1>1, <1>2

\* updateModuleRunStatus: no other row is touched, and the row only loses its
\* lane if it is written something else than active.
LEMMA UpdateHolds ==
  ASSUME RowsType, NEW r \in Run, NEW s \in Status \ {"absent"},
         runs' = UpdateModuleRunStatus(r, s)
  PROVE  /\ \A q \in Run \ {r} : runs'[q] = runs[q]
         /\ runs'[r].lane = runs[r].lane /\ runs'[r].pos = runs[r].pos
         /\ runs'[r].status \in {runs[r].status, s}
         /\ runs[r] # NoRow => runs'[r].status = s
         /\ s \in Active => HoldersStay
<1>1. CASE runs[r] = NoRow
  BY <1>1 DEF UpdateModuleRunStatus, HoldersStay, Holds, Active, NoRow
<1>2. CASE runs[r] # NoRow
  <2>1. runs[r] \in Row /\ runs' = [runs EXCEPT ![r].status = s]
    BY <1>2, RowFields DEF UpdateModuleRunStatus
  <2>2. /\ runs'[r].lane = runs[r].lane /\ runs'[r].pos = runs[r].pos
        /\ runs'[r].status = s
        /\ \A q \in Run \ {r} : runs'[q] = runs[q]
    BY <2>1 DEF Row, RowsType
  <2> QED BY <2>2 DEF HoldersStay, Holds
<1> QED BY <1>1, <1>2

\* createModuleRun before its insert only deletes cascades, which rest.
LEMMA MakeHandsOn ==
  ASSUME IInv, LaneInv, NEW c \in Creator,
         \/ \E l \in Lane, k \in Kinds : CreateModuleRun(c, l, k)
         \/ EvictCascades(c) \/ TakePosition(c)
  PROVE  LaneInv' /\ KeepsWaiting /\ HandsOn
<1> USE DEF IInv
<1>1. /\ UNCHANGED <<created, job, poll, boot, runner>>
      /\ \A r \in Run : \/ runs'[r] = runs[r]
                        \/ /\ runs[r].pos # None /\ ~IsUser(r)
                           /\ runs'[r] = NoRow
  BY DEF CreateModuleRun, EvictCascades, TakePosition, Waiting, TypeOK
<1>2. KeepsWaiting
  BY <1>1 DEF KeepsWaiting, NoRow
<1>3. HoldersStay
  BY <1>1 DEF HoldersStay, Holds, IsUser, LaneInv, CascadesRest
<1>4. \A p \in Poller : poll[p].pc \in {"fail", "release"} =>
        runs'[poll[p].run] = runs[poll[p].run]
  BY <1>1 DEF LaneInv, LaunchesKnow, InHandReady
<1>5. PromisesStay
  BY <1>1, <1>4 DEF PromisesStay
<1>6. LaneInv'
  BY <1>1 DEF LaneInv, JobsKnowLane, LaunchesKnow, CascadesRest, JobsKnow, NoRow
<1> QED BY <1>2, <1>3, <1>5, <1>6, StayersHandOn

\* A row inserted waits without a token, or does not wait.
LEMMA InsertKeepsLaneInv ==
  ASSUME IInv, LaneInv, NEW c \in Creator, InsertRun(c)
  PROVE  LaneInv'
<1> USE DEF IInv
<1> DEFINE n == created + 1
<1>1. /\ n \in Run /\ n > created
      /\ runs' = [runs EXCEPT ![n] =
           [lane |-> make[c].lane, kind |-> make[c].kind,
            status |-> InitialStatus(make[c]), pos |-> make[c].pos,
            token |-> OwnToken(make[c])]]
      /\ runner' = [runner EXCEPT ![n] =
           [t \in Token |-> IF t = OwnToken(make[c]) THEN "idle"
                            ELSE runner[n][t]]]
      /\ created' = n /\ UNCHANGED <<job, poll>>
  BY RunQueueAssumption DEF InsertRun, TypeOK, Run
<1>2. \A t \in Token : runner[n][t] = "none" /\ t # 0
  BY <1>1 DEF FreshRows, Token
<1>3. \A w \in Worker : job[w].pc # "idle" => job[w].run # n /\ job[w].run <= n
  BY <1>1 DEF LaneInv, JobsKnowLane, JobsKnow, Run, TypeOK
<1> HIDE DEF n
<1>4. \A r \in Run \ {n} : runs'[r] = runs[r] /\ runner'[r] = runner[r]
  BY <1>1 DEF TypeOK
<1>5. JobsKnowLane'
  BY <1>1, <1>3, <1>4 DEF LaneInv, JobsKnowLane, JobsKnow
<1>6. CascadesRest'
  <2>1. runs'[n].kind = "cascade" /\ runs'[n].pos # None =>
          runs'[n].status \notin Active /\ \A t \in Token : runner'[n][t] = "none"
    BY <1>1, <1>2 DEF TypeOK, InitialStatus, OwnToken, Active
  <2>2. \A w \in Worker : job'[w].pc = "write" => job'[w].run # n
    BY <1>1, <1>3
  <2> QED BY <1>1, <1>4, <2>1, <2>2 DEF LaneInv, CascadesRest
<1>7. LaunchesKnow'
  BY <1>1 DEF LaneInv, LaunchesKnow
<1> QED BY <1>5, <1>6, <1>7 DEF LaneInv

\* A request is taken up with the lane of its row, and what it will write
\* follows from what it is, unless outputs may write back what was read.
LEMMA RequestHandsOn ==
  ASSUME IInv, LaneInv, "outputs" \notin Requests, NEW w \in Worker, RequestStep(w)
  PROVE  LaneInv' /\ HandsOn
<1> USE DEF IInv
<1>1. PICK r \in Run :
        \/ Confirm(w, r) \/ Discard(w, r) \/ Cancel(w, r)
        \/ \E t \in Token, s \in Posted : StatusCallback(w, r, t, s)
  BY DEF RequestStep, SubmitOutputs
<1> DEFINE Taken(to, deq, by) ==
      /\ job[w].pc = "idle" /\ runs[r] # NoRow
      /\ job' = [job EXCEPT ![w] = [pc |-> "write", run |-> r,
                                    lane |-> runs[r].lane, to |-> to, deq |-> deq,
                                    by |-> by]]
      /\ deq \/ to \in Active \cup {"confirmed"}
      /\ to \in Active => \E t \in Token : runner[r][t] # "none"
      /\ \/ UNCHANGED runner
         \/ \E t \in Token, s \in Posted :
              runner[r][t] # "none" /\ runner' = [runner EXCEPT ![r][t] = s]
      /\ UNCHANGED <<runs, created, poll, boot>>
<1>2. \E to, deq, by : Taken(to, deq, by)
  <2>1. CASE Confirm(w, r)
    <3>1. Taken("confirmed", FALSE, 0)
      BY <2>1 DEF Confirm, Admit, Active
    <3> QED BY <3>1
  <2>2. CASE Discard(w, r)
    <3>1. Taken("discarded", TRUE, 0)
      BY <2>2 DEF Discard, Admit, Active
    <3> QED BY <3>1
  <2>3. CASE Cancel(w, r)
    <3>1. Taken("cancelled", TRUE, 0)
      BY <2>3 DEF Cancel, Admit, Active
    <3> QED BY <3>1
  <2>4. ASSUME NEW t \in Token, NEW s \in Posted, StatusCallback(w, r, t, s)
        PROVE  \E to, deq, by : Taken(to, deq, by)
    <3>1. s \in {"succeeded", "failed"} \/ s \in Active
      BY DEF Posted, Active
    <3>2. Taken(s, s \in {"succeeded", "failed"}, t)
      BY <2>4, <3>1 DEF StatusCallback, Admit
    <3> QED BY <3>2
  <2> QED BY <1>1, <2>1, <2>2, <2>3, <2>4
<1>3. PICK to, deq, by : Taken(to, deq, by)
  BY <1>2
<1>4. /\ \A v \in Worker \ {w} : job'[v] = job[v]
      /\ job'[w] = [pc |-> "write", run |-> r, lane |-> runs[r].lane, to |-> to,
                    deq |-> deq, by |-> by]
  BY <1>3 DEF TypeOK
<1>5. JobsKnowLane'
  <2>1. r <= created
    BY <1>3 DEF FreshRows, TypeOK, Run
  <2> QED BY <1>3, <1>4, <2>1 DEF LaneInv, JobsKnowLane
<1>6. CascadesRest'
  <2> SUFFICES ASSUME NEW q \in Run, runs[q].pos # None, runs[q].kind = "cascade"
               PROVE  /\ \A t \in Token : runner'[q][t] = "none"
                      /\ \A v \in Worker : job'[v].pc = "write" /\ job'[v].run = q =>
                           job'[v].to \notin Active
    BY <1>3 DEF LaneInv, CascadesRest
  <2>1. \A t \in Token : runner[q][t] = "none"
    BY DEF LaneInv, CascadesRest
  <2>2. \A t \in Token : runner'[q][t] = "none"
    BY <1>3, <2>1 DEF TypeOK
  <2> QED BY <1>3, <1>4, <2>1, <2>2 DEF LaneInv, CascadesRest
<1>7. LaunchesKnow'
  BY <1>3 DEF LaneInv, LaunchesKnow
<1>8. HoldersStay /\ PromisesStay
  BY <1>3, <1>4 DEF HoldersStay, Holds, PromisesStay, LaneInv, JobsKnowLane
<1> QED BY <1>5, <1>6, <1>7, <1>8, StayersHandOn DEF LaneInv

\* Requests stay as they are, go on to dequeue, or end.
JobsGoOn ==
  \A w \in Worker :
    \/ job'[w] = job[w]
    \/ job'[w] = IdleJob
    \/ /\ job[w].pc = "write" /\ job[w].deq /\ job'[w].pc = "dequeue" /\ job'[w].deq
       /\ job'[w].run = job[w].run /\ job'[w].lane = job[w].lane

\* Rows keep what they are about, and one that waits is only written what a
\* request has decided.
WaitersStay ==
  \A r \in Run :
    /\ runs[r] # NoRow => runs'[r].lane = runs[r].lane /\ runs'[r].kind = runs[r].kind
    /\ runs'[r].pos # None =>
         /\ \A t \in Token : runner'[r][t] = runner[r][t]
         /\ \/ runs'[r].status = runs[r].status
            \/ runs'[r].status \notin Active
            \/ \E w \in Worker : /\ job[w].pc = "write" /\ job[w].run = r
                                 /\ runs'[r].status = job[w].to

\* Steps that change no row but in one of the two writes, take up no request
\* and start no runner for a row that waits, keep what is known.
LEMMA WritesKeepLaneInv ==
  ASSUME IInv, LaneInv, Steady, UNCHANGED created, JobsGoOn, WaitersStay,
         LaunchesKnow'
  PROVE  LaneInv'
<1> USE DEF IInv
<1>1. ASSUME NEW w \in Worker
      PROVE  /\ job'[w].pc = "idle" => ~job'[w].deq
             /\ job'[w].pc # "idle" => /\ job[w].pc # "idle" /\ job'[w].run = job[w].run
                                       /\ job'[w].lane = job[w].lane
             /\ job'[w].pc = "write" => job'[w] = job[w]
             /\ job'[w].pc = "dequeue" => job'[w].deq
  BY DEF LaneInv, JobsKnowLane, JobsGoOn, IdleJob
<1>2. JobsKnowLane'
  <2> SUFFICES ASSUME NEW w \in Worker, job'[w].pc # "idle"
               PROVE  /\ job'[w].run <= created
                      /\ runs'[job'[w].run] # NoRow => job'[w].lane = runs'[job'[w].run].lane
                      /\ job'[w].pc = "write" /\ ~job'[w].deq =>
                           job'[w].to \in Active \cup {"confirmed"}
    BY <1>1 DEF JobsKnowLane
  <2>1. job[w].run \in Run /\ job[w].run = job'[w].run
    BY <1>1 DEF JobsKnow
  <2>2. runs'[job[w].run] # NoRow => runs[job[w].run] # NoRow
    BY <2>1 DEF Steady
  <2> QED BY <1>1, <2>1, <2>2 DEF LaneInv, JobsKnowLane, WaitersStay
<1>3. CascadesRest'
  <2> SUFFICES ASSUME NEW r \in Run, runs'[r].pos # None, runs'[r].kind = "cascade"
               PROVE  /\ runs'[r].status \notin Active
                      /\ \A t \in Token : runner'[r][t] = "none"
                      /\ \A w \in Worker : job'[w].pc = "write" /\ job'[w].run = r =>
                           job'[w].to \notin Active
    BY DEF CascadesRest
  <2>1. runs[r] # NoRow
    BY DEF Steady, NoRow
  <2>2. runs[r].pos # None /\ runs[r].kind = "cascade"
    BY <2>1 DEF Steady, WaitersStay
  <2> QED BY <1>1, <2>2 DEF LaneInv, CascadesRest, WaitersStay
<1> QED BY <1>2, <1>3 DEF LaneInv

\* A write ends a run only if its request goes on to dequeue the lane.
LEMMA WorkerHandsOn ==
  ASSUME IInv, LaneInv, NEW w \in Worker, WorkerStep(w)
  PROVE  LaneInv' /\ (HandsOn \/ (WriteStatus(w) /\ job[w].to = "confirmed"))
<1> USE DEF IInv
<1>0. RowsType /\ RowsType' /\ IInv'
  BY WorkerKeepsIInv DEF TypeOK, RowsType
<1>1. CASE WriteStatus(w)
  <2> DEFINE r == job[w].run
             s == job[w].to
  <2>1. /\ job[w].pc = "write" /\ runs' = UpdateModuleRunStatus(r, s)
        /\ \A v \in Worker \ {w} : job'[v] = job[v]
        /\ job'[w] = IF job[w].deq THEN [job[w] EXCEPT !.pc = "dequeue"] ELSE IdleJob
        /\ UNCHANGED <<created, poll, boot, runner>>
    BY <1>1 DEF WriteStatus, TypeOK
  <2>2. r \in Run /\ s \in Status \ {"absent"}
    BY <2>1 DEF JobsKnow
  <2>3. /\ \A q \in Run \ {r} : runs'[q] = runs[q]
        /\ runs'[r].lane = runs[r].lane /\ runs'[r].pos = runs[r].pos
        /\ runs'[r].status \in {runs[r].status, s}
        /\ runs[r] # NoRow => runs'[r].status = s
        /\ s \in Active => HoldersStay
        /\ SameQueue
    <3> HIDE DEF r, s
    <3> QED BY <1>0, <2>1, <2>2, UpdateHolds, UpdateEffect
  <2>4. Steady
    BY <2>3 DEF Steady, SameQueue
  <2>5. LaneInv'
    <3>1. LaunchesKnow'
      BY <2>1 DEF LaneInv, LaunchesKnow
    <3>2. \A q \in Run : runs'[q].status = runs[q].status \/ (q = r /\ runs'[q].status = s)
      BY <2>3
    <3>3. WaitersStay
      BY <2>1, <2>3, <3>2 DEF WaitersStay, SameQueue
    <3>4. JobsGoOn
      <4>1. job[w] \in JobType
        BY DEF TypeOK
      <4> QED BY <2>1, <4>1 DEF JobsGoOn, JobType
    <3> QED BY <2>1, <2>4, <3>1, <3>3, <3>4, WritesKeepLaneInv
  <2>6. \A v \in Worker : job[v].deq => job'[v].deq /\ job'[v].lane = job[v].lane
    <3>1. job[w] \in JobType
      BY DEF TypeOK
    <3> QED BY <2>1, <3>1 DEF JobType
  <2>7. PromisesStay
    BY <2>1, <2>3, <2>6 DEF PromisesStay, LaneInv, LaunchesKnow
  <2>8. CASE s \in Active
    BY <2>3, <2>5, <2>7, <2>8, StayersHandOn
  <2>9. CASE job[w].deq
    <3> SUFFICES ASSUME NEW l \in Lane, Attended(l) PROVE Attended(l)'
      BY <2>5 DEF HandsOn
    <3>1. CASE Promised(l)
      BY <2>7, <3>1, PromisesKeptFor, AttendedMeansNext
    <3>2. ASSUME NEW q \in Run, runs[q].lane = l, Holds(q) PROVE Attended(l)'
      <4>1. CASE q # r
        BY <2>3, <3>2, <4>1, AttendedMeansNext DEF Holds
      <4>2. CASE q = r
        <5>1. runs[r] # NoRow
          BY <3>2, <4>2 DEF Holds, NoRow, Active
        <5>2. job[w].lane = l
          BY <2>1, <3>2, <4>2, <5>1 DEF LaneInv, JobsKnowLane
        <5>3. Promised(l)
          BY <2>9, <5>2 DEF Promised
        <5> QED BY <2>7, <5>3, PromisesKeptFor, AttendedMeansNext
      <4> QED BY <4>1, <4>2
    <3> QED BY <3>1, <3>2, AttendedMeans
  <2> QED BY <1>1, <2>1, <2>5, <2>8, <2>9 DEF LaneInv, JobsKnowLane
<1>2. CASE Dequeue(w)
  <2>0. PICK m : m = job[w].lane
    OBVIOUS
  <2>1. /\ job[w].pc = "dequeue" /\ DequeueNextModuleRun(m)
        /\ \A v \in Worker \ {w} : job'[v] = job[v]
        /\ job'[w] = IdleJob
        /\ UNCHANGED <<created, poll, boot, runner>>
    BY <1>2, <2>0 DEF Dequeue, TypeOK
  <2>2. /\ HoldersStay
        /\ \A r \in Run : runs'[r].status # runs[r].status => runs'[r].pos = None
        /\ Waiting(m)' # {} => \E r \in Run : runs'[r].lane = m /\ Holds(r)'
    BY <1>0, <2>1, DequeueServes
  <2>3. /\ Steady
        /\ \A r \in Run : runs'[r].lane = runs[r].lane /\ runs'[r].kind = runs[r].kind
    BY <1>0, <2>1, DequeueEffect DEF Steady
  <2>4. LaneInv'
    <3>1. LaunchesKnow'
      BY <2>1 DEF LaneInv, LaunchesKnow
    <3>2. WaitersStay
      BY <2>1, <2>2, <2>3 DEF WaitersStay
    <3>3. JobsGoOn
      BY <2>1 DEF JobsGoOn
    <3> QED BY <2>1, <2>3, <3>1, <3>2, <3>3, WritesKeepLaneInv
  <2>5. ASSUME NEW l \in Lane, Attended(l), Waiting(l)' # {} PROVE Attended(l)'
    <3>1. CASE l = m
      BY <2>2, <2>5, <3>1, AttendedMeansNext
    <3>2. CASE l # m
      <4>1. Promised(l) => Promised(l)'
        BY <2>0, <2>1, <2>3, <3>2 DEF Promised, LaneInv, LaunchesKnow
      <4> QED BY <2>2, <2>5, <4>1, AttendedMeans, AttendedMeansNext DEF HoldersStay
    <3> QED BY <3>1, <3>2
  <2> QED BY <2>4, <2>5 DEF HandsOn
<1> QED BY <1>1, <1>2 DEF WorkerStep

\* A launch that fails releases the lane of its row, by way of two awaits.
LEMMA PollerHandsOn ==
  ASSUME IInv, LaneInv, NEW p \in Poller, PollerStep(p)
  PROVE  LaneInv' /\ HandsOn
<1> USE DEF IInv
<1>0. /\ RowsType /\ IInv' /\ poll[p] \in PollType /\ KeepsWaiting
      /\ UNCHANGED <<created, job, boot>>
  BY PollerKeepsIInv, PollerKeepsWaiting
     DEF TypeOK, RowsType, PollerStep, CountRunning, ListQueued, DispatchRun, Launch,
         FailDispatch, ReleaseLane
<1>1. JobsGoOn
  BY <1>0 DEF JobsGoOn
<1>2. ASSUME NEW b, Proceed(p, b)
      PROVE  poll'[p].pc \in {"idle", "dispatch"}
  BY <1>2 DEF Proceed, IdlePoll, TypeOK
<1>3. \A q \in Poller \ {p} : poll'[q] = poll[q]
  BY DEF PollerStep, CountRunning, ListQueued, DispatchRun, Launch, FailDispatch,
         ReleaseLane, Proceed, TypeOK
<1>4. ASSUME poll'[p].pc \in {"launch", "fail", "release"} => poll'[p].run \in Run
      PROVE  LaunchesKnow'
  BY <1>3, <1>4 DEF LaneInv, LaunchesKnow
<1>5. CASE CountRunning(p) \/ ListQueued(p) \/ Launch(p)
  <2>1. UNCHANGED runs
    BY <1>5 DEF CountRunning, ListQueued, Launch
  <2>2. /\ poll[p].pc \notin {"fail", "release"}
        /\ poll'[p].pc \in {"launch", "fail", "release"} => poll'[p].run \in Run
    <3>1. CASE CountRunning(p)
      BY <1>0, <3>1 DEF CountRunning, TypeOK, PollType
    <3>2. CASE ListQueued(p)
      BY <1>2, <3>2 DEF ListQueued
    <3>3. CASE Launch(p)
      <4>1. poll[p].pc = "launch" /\ poll[p].run \in Run
        BY <3>3 DEF Launch, LaneInv, LaunchesKnow
      <4>2. Proceed(p, poll[p].batch) \/ poll' = [poll EXCEPT ![p].pc = "fail"]
        BY <3>3 DEF Launch
      <4>3. CASE Proceed(p, poll[p].batch)
        BY <1>2, <4>1, <4>3
      <4>4. CASE poll' = [poll EXCEPT ![p].pc = "fail"]
        BY <1>0, <4>1, <4>4 DEF TypeOK, PollType
      <4> QED BY <4>2, <4>3, <4>4
    <3> QED BY <1>5, <3>1, <3>2, <3>3
  <2>3. \A r \in Run : runs[r].pos # None => \A t \in Token : runner'[r][t] = runner[r][t]
    <3>1. UNCHANGED runner \/ (Launch(p) /\ runner' = Launched(p))
      BY <1>5 DEF CountRunning, ListQueued, Launch
    <3>2. \A r \in Run : r = poll[p].run => runs[r].pos = None
      BY DEF InHandReady
    <3> QED BY <3>1, <3>2 DEF Launched, TypeOK
  <2>4. Steady /\ WaitersStay
    BY <2>1, <2>3 DEF Steady, WaitersStay
  <2>5. HoldersStay /\ PromisesStay
    BY <1>0, <1>3, <2>1, <2>2 DEF HoldersStay, Holds, PromisesStay
  <2> QED BY <1>0, <1>1, <1>4, <2>2, <2>4, <2>5, WritesKeepLaneInv, StayersHandOn
<1>6. CASE DispatchRun(p)
  <2>1. PICK r \in poll[p].batch :
          \/ UNCHANGED runs /\ \E b : Proceed(p, b)
          \/ /\ runs' = [runs EXCEPT ![r].status = "running",
                                     ![r].token = runs[r].token + 1]
             /\ poll'[p].run = r
    <3>1. PICK r \in poll[p].batch :
            \/ UNCHANGED runs /\ Proceed(p, poll[p].batch \ {r})
            \/ /\ runs' = [runs EXCEPT ![r].status = "running",
                                       ![r].token = runs[r].token + 1]
               /\ poll' = [poll EXCEPT ![p].pc = "launch", ![p].run = r,
                             ![p].batch = poll[p].batch \ {r},
                             ![p].token = runs[r].token + 1]
      BY <1>6 DEF DispatchRun
    <3>2. CASE UNCHANGED runs /\ Proceed(p, poll[p].batch \ {r})
      BY <3>2
    <3>3. CASE /\ runs' = [runs EXCEPT ![r].status = "running",
                                       ![r].token = runs[r].token + 1]
               /\ poll' = [poll EXCEPT ![p].pc = "launch", ![p].run = r,
                             ![p].batch = poll[p].batch \ {r},
                             ![p].token = runs[r].token + 1]
      <4>1. poll'[p].run = r
        BY <1>0, <3>3 DEF TypeOK, PollType
      <4> QED BY <3>3, <4>1
    <3> QED BY <3>1, <3>2, <3>3
  <2>2. r \in Run /\ runs[r].pos = None /\ runs[r] \in Row /\ NoRow \notin Row
    BY <1>0, RowFields DEF InHandReady, PollType
  <2>3. /\ \A q \in Run \ {r} : runs'[q] = runs[q]
        /\ runs'[r].lane = runs[r].lane /\ runs'[r].kind = runs[r].kind
        /\ runs'[r].pos = None
        /\ runs'[r].status \in {runs[r].status, "running"}
        /\ runs'[r] # NoRow
    BY <2>1, <2>2 DEF TypeOK, Row, NoRow
  <2>4. UNCHANGED runner /\ poll[p].pc = "dispatch"
    BY <1>6 DEF DispatchRun
  <2>5. Steady /\ WaitersStay
    BY <1>0, <2>2, <2>3, <2>4 DEF Steady, WaitersStay
  <2>6. HoldersStay
    BY <2>2, <2>3 DEF HoldersStay, Holds, Active
  <2>7. PromisesStay
    BY <1>0, <1>3, <2>3, <2>4 DEF PromisesStay, LaneInv, LaunchesKnow
  <2>8. LaunchesKnow'
    BY <1>2, <1>4, <2>1, <2>2
  <2> QED BY <1>0, <1>1, <2>5, <2>6, <2>7, <2>8, WritesKeepLaneInv, StayersHandOn
<1>7. CASE FailDispatch(p)
  <2> DEFINE r == poll[p].run
  <2>1. /\ poll[p].pc = "fail" /\ runs' = UpdateModuleRunStatus(r, "failed")
        /\ poll'[p].pc = "release" /\ poll'[p].run = r
        /\ UNCHANGED runner
    BY <1>0, <1>7 DEF FailDispatch, TypeOK, PollType
  <2>2. r \in Run
    BY <2>1 DEF LaneInv, LaunchesKnow
  <2>3. /\ \A q \in Run \ {r} : runs'[q] = runs[q]
        /\ runs'[r].lane = runs[r].lane
        /\ runs'[r].status \in {runs[r].status, "failed"}
        /\ SameQueue
    <3> HIDE DEF r
    <3> QED BY <1>0, <2>1, <2>2, UpdateHolds, UpdateEffect DEF Status
  <2>4. Steady /\ WaitersStay
    BY <2>1, <2>3 DEF Steady, WaitersStay, SameQueue, Active
  <2>5. LaunchesKnow'
    BY <1>4, <2>1, <2>2
  <2>6. PromisesStay
    BY <1>0, <1>3, <2>1, <2>2, <2>3 DEF PromisesStay, LaneInv, LaunchesKnow
  <2>7. ASSUME NEW l \in Lane, Attended(l) PROVE Attended(l)'
    <3>1. CASE Promised(l)
      BY <2>6, <3>1, PromisesKeptFor, AttendedMeansNext
    <3>2. ASSUME NEW q \in Run, runs[q].lane = l, Holds(q) PROVE Attended(l)'
      <4>1. CASE q # r
        BY <2>3, <3>2, <4>1, AttendedMeansNext DEF Holds
      <4>2. CASE q = r
        <5>1. Promised(l)
          BY <2>1, <3>2, <4>2 DEF Promised
        <5> QED BY <2>6, <5>1, PromisesKeptFor, AttendedMeansNext
      <4> QED BY <4>1, <4>2
    <3> QED BY <2>7, <3>1, <3>2, AttendedMeans
  <2> QED BY <1>0, <1>1, <2>4, <2>5, <2>7, WritesKeepLaneInv DEF HandsOn
<1>8. CASE ReleaseLane(p)
  <2>0. PICK m : m = runs[poll[p].run].lane
    OBVIOUS
  <2>1. /\ poll[p].pc = "release" /\ DequeueNextModuleRun(m)
        /\ Proceed(p, poll[p].batch) /\ UNCHANGED runner
    BY <1>8, <2>0 DEF ReleaseLane
  <2>2. /\ HoldersStay
        /\ \A q \in Run : runs'[q].status # runs[q].status => runs'[q].pos = None
        /\ Waiting(m)' # {} => \E q \in Run : runs'[q].lane = m /\ Holds(q)'
    BY <1>0, <2>1, DequeueServes
  <2>3. /\ Steady
        /\ \A q \in Run : runs'[q].lane = runs[q].lane /\ runs'[q].kind = runs[q].kind
    BY <1>0, <2>1, DequeueEffect DEF Steady
  <2>4. WaitersStay /\ LaunchesKnow'
    BY <1>2, <1>4, <2>1, <2>2, <2>3 DEF WaitersStay
  <2>5. ASSUME NEW l \in Lane, Attended(l), Waiting(l)' # {} PROVE Attended(l)'
    <3>1. CASE l = m
      BY <2>2, <2>5, <3>1, AttendedMeansNext
    <3>2. CASE l # m
      <4>1. Promised(l) => Promised(l)'
        BY <1>0, <1>3, <2>0, <2>1, <2>3, <3>2 DEF Promised, LaneInv, LaunchesKnow
      <4> QED BY <2>2, <2>5, <4>1, AttendedMeans, AttendedMeansNext DEF HoldersStay
    <3> QED BY <3>1, <3>2
  <2> QED BY <1>0, <1>1, <2>3, <2>4, <2>5, WritesKeepLaneInv DEF HandsOn
<1> QED BY <1>5, <1>6, <1>7, <1>8 DEF PollerStep

\* So does the crash recovery with a run it writes 'timed_out'.
LEMMA RecoveryHandsOn ==
  ASSUME IInv, LaneInv, RecoveryStep
  PROVE  LaneInv' /\ HandsOn
<1> USE DEF IInv
<1>0. RowsType /\ UNCHANGED <<created, job, poll, runner>>
  BY DEF TypeOK, RowsType, RecoveryStep, ListRunning, RecoverRun, RecoverDequeue
<1>1. JobsGoOn /\ LaunchesKnow'
  BY <1>0 DEF JobsGoOn, LaneInv, LaunchesKnow
<1>2. CASE ListRunning
  <2>1. UNCHANGED runs /\ boot.pc # "dequeue"
    BY <1>2 DEF ListRunning
  <2>2. Steady /\ WaitersStay /\ HoldersStay /\ PromisesStay
    BY <1>0, <2>1 DEF Steady, WaitersStay, HoldersStay, Holds, PromisesStay
  <2> QED BY <1>0, <1>1, <2>2, WritesKeepLaneInv, StayersHandOn
<1>3. ASSUME NEW r \in Run, RecoverRun(r)
      PROVE  LaneInv' /\ HandsOn
  <2>1. boot.pc = "recover"
    BY <1>3 DEF RecoverRun
  <2>2. CASE UNCHANGED runs
    <3>1. Steady /\ WaitersStay /\ HoldersStay /\ PromisesStay
      BY <1>0, <2>1, <2>2 DEF Steady, WaitersStay, HoldersStay, Holds, PromisesStay
    <3> QED BY <1>0, <1>1, <3>1, WritesKeepLaneInv, StayersHandOn
  <2>3. CASE /\ runs' = UpdateModuleRunStatus(r, "timed_out")
             /\ boot' = [pc |-> "dequeue", todo |-> boot.todo \ {r},
                         lane |-> runs[r].lane]
    <3>1. /\ \A q \in Run \ {r} : runs'[q] = runs[q]
          /\ runs'[r].lane = runs[r].lane
          /\ runs'[r].status \in {runs[r].status, "timed_out"}
          /\ SameQueue
      BY <1>0, <2>3, UpdateHolds, UpdateEffect DEF Status
    <3>2. Steady /\ WaitersStay
      BY <1>0, <3>1 DEF Steady, WaitersStay, SameQueue, Active
    <3>3. PromisesStay
      BY <1>0, <2>1, <3>1 DEF PromisesStay, LaneInv, LaunchesKnow
    <3>4. ASSUME NEW l \in Lane, Attended(l) PROVE Attended(l)'
      <4>1. CASE Promised(l)
        BY <3>3, <4>1, PromisesKeptFor, AttendedMeansNext
      <4>2. ASSUME NEW q \in Run, runs[q].lane = l, Holds(q) PROVE Attended(l)'
        <5>1. CASE q # r
          BY <3>1, <4>2, <5>1, AttendedMeansNext DEF Holds
        <5>2. CASE q = r
          BY <2>3, <4>2, <5>2, AttendedMeansNext DEF Promised
        <5> QED BY <5>1, <5>2
      <4> QED BY <3>4, <4>1, <4>2, AttendedMeans
    <3> QED BY <1>0, <1>1, <3>2, <3>4, WritesKeepLaneInv DEF HandsOn
  <2> QED BY <1>3, <2>2, <2>3 DEF RecoverRun
<1>4. CASE RecoverDequeue
  <2>0. PICK m : m = boot.lane
    OBVIOUS
  <2>1. boot.pc = "dequeue" /\ DequeueNextModuleRun(m)
    BY <1>4, <2>0 DEF RecoverDequeue
  <2>2. /\ HoldersStay
        /\ \A q \in Run : runs'[q].status # runs[q].status => runs'[q].pos = None
        /\ Waiting(m)' # {} => \E q \in Run : runs'[q].lane = m /\ Holds(q)'
    BY <1>0, <2>1, DequeueServes
  <2>3. /\ Steady
        /\ \A q \in Run : runs'[q].lane = runs[q].lane /\ runs'[q].kind = runs[q].kind
    BY <1>0, <2>1, DequeueEffect DEF Steady
  <2>4. WaitersStay
    BY <1>0, <2>2, <2>3 DEF WaitersStay
  <2>5. ASSUME NEW l \in Lane, Attended(l), Waiting(l)' # {} PROVE Attended(l)'
    <3>1. CASE l = m
      BY <2>2, <2>5, <3>1, AttendedMeansNext
    <3>2. CASE l # m
      <4>1. Promised(l) => Promised(l)'
        BY <1>0, <2>0, <2>3, <3>2 DEF Promised, LaneInv, LaunchesKnow
      <4> QED BY <2>2, <2>5, <4>1, AttendedMeans, AttendedMeansNext DEF HoldersStay
    <3> QED BY <3>1, <3>2
  <2> QED BY <1>0, <1>1, <2>3, <2>4, <2>5, WritesKeepLaneInv DEF HandsOn
<1> QED BY <1>2, <1>3, <1>4 DEF RecoveryStep

\* A restart forgets every request; the sweep only ends plans.
LEMMA RestartSweepKeepLaneInv ==
  ASSUME IInv, LaneInv, Restart \/ Sweep
  PROVE  LaneInv'
<1> USE DEF IInv
<1>1. CASE Restart
  BY <1>1 DEF Restart, LaneInv, JobsKnowLane, LaunchesKnow, CascadesRest, IdleJob, IdlePoll
<1>2. ASSUME NEW S \in SUBSET Run, ExpireTimedOutModuleRuns(S) PROVE LaneInv'
  <2>1. RowsType /\ UNCHANGED <<created, job, poll, runner>>
    BY <1>2 DEF ExpireTimedOutModuleRuns, TypeOK, RowsType
  <2>2. \A r \in S : runs[r] \in Row
    BY <1>2, <2>1, RowFields DEF ExpireTimedOutModuleRuns
  <2>3. \A r \in Run : \/ runs'[r] = runs[r]
                       \/ /\ runs[r] \in Row
                          /\ runs'[r] = [runs[r] EXCEPT !.status = "timed_out"]
    BY <1>2, <2>2 DEF ExpireTimedOutModuleRuns
  <2>4. \A r \in Run : /\ runs'[r].lane = runs[r].lane /\ runs'[r].kind = runs[r].kind
                       /\ runs'[r].pos = runs[r].pos
                       /\ runs'[r].status \in {runs[r].status, "timed_out"}
                       /\ runs'[r] # NoRow => runs[r] # NoRow
    BY <2>1, <2>3, RowFields DEF Row
  <2> QED BY <2>1, <2>4 DEF LaneInv, JobsKnowLane, LaunchesKnow, CascadesRest, JobsKnow, Active
<1> QED BY <1>1, <1>2 DEF Sweep

\* Without output posts, a lane with waiting rows is only ever forgotten by
\* an insert, a confirmation, the sweep or a restart.
THEOREM LanesAreHandedOn ==
  ASSUME "outputs" \notin Requests
  PROVE  Spec => LaneIsHandedOn
<1> DEFINE Excused ==
      \/ \E c \in Creator : InsertRun(c)
      \/ \E w \in Worker : WriteStatus(w) /\ job[w].to = "confirmed"
      \/ Sweep
      \/ Restart
<1>1. Init => LaneInv
  BY DEF Init, LaneInv, JobsKnowLane, LaunchesKnow, CascadesRest, IdleJob, IdlePoll, NoRow
<1>2. IInv /\ LaneInv /\ Next => LaneInv' /\ (Excused \/ (KeepsWaiting /\ HandsOn))
  <2> SUFFICES ASSUME IInv, LaneInv, Next
               PROVE  LaneInv' /\ (Excused \/ (KeepsWaiting /\ HandsOn))
    OBVIOUS
  <2>1. ASSUME NEW c \in Creator,
               \/ \E l \in Lane, k \in Kinds : CreateModuleRun(c, l, k)
               \/ EvictCascades(c) \/ TakePosition(c)
        PROVE  LaneInv' /\ KeepsWaiting /\ HandsOn
    BY <2>1, MakeHandsOn
  <2>2. ASSUME NEW c \in Creator, InsertRun(c) PROVE LaneInv' /\ Excused
    BY <2>2, InsertKeepsLaneInv
  <2>3. ASSUME NEW w \in Worker, RequestStep(w)
        PROVE  LaneInv' /\ KeepsWaiting /\ HandsOn
    BY <2>3, RequestHandsOn, OthersKeepWaiting
  <2>4. ASSUME NEW w \in Worker, WorkerStep(w)
        PROVE  LaneInv' /\ (Excused \/ (KeepsWaiting /\ HandsOn))
    BY <2>4, WorkerHandsOn, OthersKeepWaiting
  <2>5. ASSUME NEW p \in Poller, PollerStep(p)
        PROVE  LaneInv' /\ KeepsWaiting /\ HandsOn
    BY <2>5, PollerHandsOn, PollerKeepsWaiting
  <2>6. CASE RecoveryStep
    BY <2>6, RecoveryHandsOn, OthersKeepWaiting
  <2>7. CASE Restart \/ Sweep
    BY <2>7, RestartSweepKeepLaneInv
  <2> HIDE DEF Excused
  <2> QED BY <2>1, <2>2, <2>3, <2>4, <2>5, <2>6, <2>7 DEF Next, CreatorStep, Excused
<1>3. LaneInv /\ UNCHANGED vars => LaneInv'
  BY DEF LaneInv, JobsKnowLane, LaunchesKnow, CascadesRest, vars
<1>4. KeepsWaiting /\ HandsOn => \A l \in Lane : Forgotten(l)' => Forgotten(l)
  BY DEF KeepsWaiting, HandsOn, Forgotten, Waiting
<1>5. IInv /\ LaneInv /\ [Next]_vars =>
        /\ LaneInv'
        /\ [\A l \in Lane : Forgotten(l)' =>
              \/ Forgotten(l)
              \/ \E c \in Creator : InsertRun(c)
              \/ \E w \in Worker : WriteStatus(w) /\ job[w].to = "confirmed"
              \/ Sweep
              \/ Restart]_vars
  BY <1>2, <1>3, <1>4
<1> QED BY <1>1, <1>5, Invariance, PTL DEF Spec, LaneIsHandedOn

----------------------------------------------------------------------------
(* No slot is lost: the safety half of RunningComesToAnEnd.                *)

\* Nobody was ever given a token for the row.
Untouched(r) == runs[r].token = 0 /\ \A t \in Token : runner[r][t] = "none"

\* A row that waits, or is ready, or that a poll is about to launch.
Unlaunched(r) ==
  \/ runs[r].status \in {"absent", "pending", "queued"} \/ runs[r].pos # None
  \/ \E p \in Poller : r \in poll[p].batch

\* The holder of the row's token has not reported a result yet.
Alive(r) == \E t \in Token : runner[r][t] \in {"idle", "running"}

\* A row is launched at most once, so it has one token at most.
LaunchedOnce ==
  \A r \in Run :
    /\ Unlaunched(r) => Untouched(r)
    /\ runs[r].token \in {0, 1}
    /\ \A t \in Token : runner[r][t] # "none" => t = 1 /\ runs[r].token = 1

\* A post in flight is the only one of its runner; progress is reported of a
\* runner that is alive; users end or confirm runs.
PostsKnow ==
  \A w \in Worker :
    /\ job[w].by # 0 =>
         /\ job[w].by = 1 /\ job[w].run \in Run
         /\ \E t \in Token : runner[job[w].run][t] # "none"
         /\ \A v \in Worker : job[v].by # 0 /\ job[v].run = job[w].run => v = w
    /\ job[w].pc = "write" =>
         /\ job[w].to \notin {"absent", "pending", "queued"}
         /\ job[w].to = "running" => job[w].by # 0 /\ Alive(job[w].run)

\* The token of a launch in flight is the row's first.
LaunchesFirst ==
  \A p \in Poller : poll[p].pc = "launch" =>
    /\ 1 \in Token /\ poll[p].run \in Run /\ poll[p].token = 1 /\ runs[poll[p].run].token = 1
    /\ \A t \in Token : runner[poll[p].run][t] = "none"

\* The row is being launched, or its runner has yet to report, or what it
\* reported is on its way to the table.
Owned(r) ==
  \/ Alive(r)
  \/ \E p \in Poller : /\ poll[p].pc \in {"launch", "fail"} /\ poll[p].run = r
                       /\ \A t \in Token : runner[r][t] = "none"
  \/ \E w \in Worker : /\ job[w].pc = "write" /\ job[w].run = r
                       /\ job[w].by # 0 /\ job[w].to # "running"

RunningIsOwned == \A r \in Run : runs[r].status = "running" => Owned(r)

SlotInv == boot.pc = "up" /\ LaunchedOnce /\ PostsKnow /\ LaunchesFirst /\ RunningIsOwned

\* Polls that do not overlap, and no tokens but those of launches.
LaunchesAlone ==
  /\ \A p, q \in Poller : p = q
  /\ "manual" \notin Kinds \/ Byoc = {}

\* No row becomes ready, waits or is launched that did not before.
RowsMild ==
  \A q \in Run :
    /\ runs'[q].token = runs[q].token
    /\ runs'[q].status \in {"absent", "pending", "queued"} \/ runs'[q].pos # None =>
         runs[q].status \in {"absent", "pending", "queued"} \/ runs[q].pos # None

LEMMA UpdateMild ==
  ASSUME RowsType, NEW r \in Run, NEW s \in Status \ {"absent", "pending", "queued"},
         runs' = UpdateModuleRunStatus(r, s)
  PROVE  /\ RowsMild
         /\ \A q \in Run \ {r} : runs'[q] = runs[q]
         /\ runs'[r].status \in {s, "absent"}
<1>1. CASE runs[r] = NoRow
  BY <1>1 DEF UpdateModuleRunStatus, RowsMild, NoRow
<1>2. CASE runs[r] # NoRow
  <2>1. runs[r] \in Row BY <1>2, RowFields
  <2>2. runs' = [runs EXCEPT ![r].status = s] BY <1>2 DEF UpdateModuleRunStatus
  <2>3. /\ runs'[r].status = s /\ runs'[r].token = runs[r].token
        /\ runs'[r].pos = runs[r].pos
        /\ \A q \in Run \ {r} : runs'[q] = runs[q]
    BY <2>1, <2>2 DEF RowsType, Row
  <2> QED BY <2>3 DEF RowsMild
<1> QED BY <1>1, <1>2

LEMMA DequeueMild ==
  ASSUME RowsType, NEW l, DequeueNextModuleRun(l)
  PROVE  /\ RowsMild
         /\ \A q \in Run : runs'[q].status = "running" => runs[q].status = "running"
<1>1. RowsMild BY DequeueEffect DEF RowsMild
<1>2. CASE Waiting(l) = {} BY <1>1, <1>2 DEF DequeueNextModuleRun
<1>3. CASE Waiting(l) # {}
  <2>1. PICK h \in Heads(l) : runs' = Promote(l, h) BY <1>3 DEF DequeueNextModuleRun
  <2>2. \A q \in Waiting(l) : runs[q] \in Row BY RowFields DEF Waiting
  <2>3. h \in Waiting(l) BY DEF Heads
  <2>4. ASSUME NEW q \in Run PROVE runs'[q].status \in {"queued", runs[q].status}
    <3>1. CASE q = h BY <2>1, <2>2, <2>3, <3>1 DEF Promote, Row
    <3>2. CASE q # h /\ q \in Waiting(l) BY <2>1, <2>2, <3>2 DEF Promote, Row
    <3>3. CASE q # h /\ q \notin Waiting(l) BY <2>1, <3>3 DEF Promote
    <3> QED BY <3>1, <3>2, <3>3
  <2> QED BY <1>1, <2>4
<1> QED BY <1>2, <1>3

\* A step that starts no runner and takes nothing new in hand, and after which
\* whatever let go of a row leaves it not running, or its runner alive.
LEMMA RowsKeepSlots ==
  ASSUME SlotInv, TypeOK, RowsMild, UNCHANGED <<boot, runner>>,
         \A q \in Run : runs'[q].status = "running" => runs[q].status = "running" \/ Alive(q),
         \A w \in Worker :
           \/ job'[w] = job[w]
           \/ /\ job'[w] \in {IdleJob, [job[w] EXCEPT !.pc = "dequeue"]}
              /\ job[w].pc = "write" /\ job[w].run \in Run =>
                   runs'[job[w].run].status # "running" \/ Alive(job[w].run),
         \A p \in Poller :
           \/ poll'[p] = poll[p]
           \/ /\ poll'[p].batch \subseteq poll[p].batch /\ poll'[p].pc # "launch"
              /\ poll[p].pc \in {"launch", "fail"} /\ poll[p].run \in Run =>
                   runs'[poll[p].run].status # "running"
  PROVE  SlotInv'
<1> USE DEF SlotInv
<1>1. LaunchedOnce'
  <2>1. \A r \in Run : Unlaunched(r)' => Unlaunched(r) BY DEF RowsMild, Unlaunched
  <2>2. \A r \in Run : Untouched(r) => Untouched(r)' BY DEF RowsMild, Untouched
  <2>3. \A r \in Run : runs'[r].token = runs[r].token BY DEF RowsMild
  <2> QED BY <2>1, <2>2, <2>3 DEF LaunchedOnce
<1>2. \A r : Alive(r)' <=> Alive(r) BY DEF Alive
<1>3. ASSUME NEW w \in Worker
      PROVE  \/ job'[w] = job[w]
             \/ job'[w].pc # "write" /\ job'[w].by = 0
             \/ /\ job'[w].pc # "write" /\ job'[w].by = job[w].by
                /\ job'[w].run = job[w].run
  BY DEF IdleJob, TypeOK, JobType
<1>4. PostsKnow'
  <2>1. ASSUME NEW w \in Worker, job'[w].by # 0
        PROVE  job'[w].by = job[w].by /\ job'[w].run = job[w].run
    BY <1>3, <2>1
  <2>2. ASSUME NEW w \in Worker, job'[w].pc = "write" PROVE job'[w] = job[w]
    BY <1>3, <2>2
  <2> QED BY <1>2, <2>1, <2>2 DEF PostsKnow
<1>5. LaunchesFirst' BY DEF LaunchesFirst, RowsMild
<1>6. ASSUME NEW r \in Run, runs'[r].status = "running" PROVE Owned(r)'
  <2>1. CASE Alive(r) BY <1>2, <2>1 DEF Owned
  <2>2. CASE ~Alive(r)
    <3>1. Owned(r) BY <1>6, <2>2 DEF RunningIsOwned
    <3>2. CASE \E p \in Poller : /\ poll[p].pc \in {"launch", "fail"} /\ poll[p].run = r
                                 /\ \A t \in Token : runner[r][t] = "none"
      BY <1>6, <3>2 DEF Owned
    <3>3. CASE \E w \in Worker : /\ job[w].pc = "write" /\ job[w].run = r
                                 /\ job[w].by # 0 /\ job[w].to # "running"
      BY <1>6, <2>2, <3>3 DEF Owned
    <3> QED BY <2>2, <3>1, <3>2, <3>3 DEF Owned
  <2> QED BY <2>1, <2>2
<1> QED BY <1>1, <1>4, <1>5, <1>6 DEF RunningIsOwned

LEMMA MakeKeepsSlots ==
  ASSUME IInv, SlotInv, LaunchesAlone, NEW c \in Creator,
         \/ \E l \in Lane, k \in Kinds : CreateModuleRun(c, l, k)
         \/ CreatorStep(c)
  PROVE  SlotInv'
<1> USE DEF IInv
<1>1. CASE \/ \E l \in Lane, k \in Kinds : CreateModuleRun(c, l, k)
           \/ TakePosition(c)
  <2>1. UNCHANGED <<runs, job, poll, boot, runner>>
    BY <1>1 DEF CreateModuleRun, TakePosition
  <2> QED BY <2>1, RowsKeepSlots DEF RowsMild
<1>2. CASE EvictCascades(c)
  <2>1. /\ UNCHANGED <<job, poll, boot, runner>>
        /\ \A r \in Run : runs'[r] = runs[r] \/ (runs[r].pos # None /\ runs'[r] = NoRow)
    BY <1>2 DEF EvictCascades, Waiting
  <2>2. \A r \in Run : runs[r].pos # None => runs[r].token = 0
    BY DEF SlotInv, LaunchedOnce, Unlaunched, Untouched
  <2>3. RowsMild BY <2>1, <2>2 DEF RowsMild, NoRow
  <2>4. \A r \in Run : runs'[r].status = "running" => runs[r].status = "running"
    BY <2>1 DEF NoRow
  <2> QED BY <2>1, <2>3, <2>4, RowsKeepSlots
<1>3. CASE InsertRun(c)
  <2> DEFINE n == created + 1
  <2>0. make[c].kind \in Kinds BY <1>3 DEF InsertRun, MakesKnow
  <2>1. OwnToken(make[c]) = 0 BY <2>0, RunQueueAssumption DEF OwnToken, LaunchesAlone, TypeOK, MakeType
  <2>2. /\ n \in Run /\ n > created
        /\ runs' = [runs EXCEPT ![n] =
             [lane |-> make[c].lane, kind |-> make[c].kind,
              status |-> InitialStatus(make[c]), pos |-> make[c].pos, token |-> 0]]
        /\ runner' = [runner EXCEPT ![n] =
             [t \in Token |-> IF t = 0 THEN "idle" ELSE runner[n][t]]]
        /\ UNCHANGED <<job, poll, boot>>
    BY <1>3, <2>1, RunQueueAssumption DEF InsertRun, TypeOK, Run
  <2> HIDE DEF n
  <2>3. runs[n] = NoRow /\ \A t \in Token : runner[n][t] = "none" /\ t # 0
    BY <2>2 DEF FreshRows, Token
  <2>4. \A r \in Run : /\ runner'[r] = [t \in Token |-> runner[r][t]]
                       /\ runner[r] = [t \in Token |-> runner[r][t]]
    BY <2>2, <2>3 DEF TypeOK
  <2>5. runner' = runner BY <2>2, <2>4 DEF TypeOK
  <2>6. /\ runs'[n].token = 0 /\ runs'[n].status \in {"pending", "queued"}
        /\ \A r \in Run \ {n} : runs'[r] = runs[r]
    BY <2>2 DEF TypeOK, InitialStatus
  <2>7. \A p \in Poller : n \notin poll[p].batch /\ poll[p].run # n
    BY <2>2, <2>3 DEF InHandReady
  <2>8. LaunchedOnce'
    <3>1. ASSUME NEW r \in Run PROVE /\ Unlaunched(r)' => Untouched(r)'
                                     /\ runs'[r].token \in {0, 1}
                                     /\ \A t \in Token : runner'[r][t] # "none" =>
                                          t = 1 /\ runs'[r].token = 1
      <4>1. CASE r = n BY <2>3, <2>5, <2>6, <4>1 DEF Untouched
      <4>2. CASE r # n
        BY <2>2, <2>5, <2>6, <4>2 DEF SlotInv, LaunchedOnce, Unlaunched, Untouched
      <4> QED BY <4>1, <4>2
    <3> QED BY <3>1 DEF LaunchedOnce
  <2>9. PostsKnow' BY <2>2, <2>5 DEF SlotInv, PostsKnow, Alive
  <2>10. LaunchesFirst' BY <2>2, <2>5, <2>6, <2>7 DEF SlotInv, LaunchesFirst
  <2>11. RunningIsOwned'
    BY <2>2, <2>5, <2>6 DEF SlotInv, RunningIsOwned, Owned, Alive
  <2> QED BY <2>2, <2>8, <2>9, <2>10, <2>11 DEF SlotInv
<1> QED BY <1>1, <1>2, <1>3 DEF CreatorStep


\* A request of a user.
LEMMA UsersKeepSlots ==
  ASSUME IInv, SlotInv, NEW w \in Worker, NEW r \in Run,
         NEW s \in {"confirmed", "discarded", "cancelled"}, NEW d,
         Admit(w, r, s, d, 0), UNCHANGED runner
  PROVE  SlotInv'
<1> USE DEF IInv, SlotInv
<1>1. /\ UNCHANGED <<runs, poll, boot>> /\ job[w].pc = "idle"
      /\ job'[w].pc = "write" /\ job'[w].by = 0 /\ job'[w].to = s
      /\ \A v \in Worker \ {w} : job'[v] = job[v]
  BY DEF Admit, TypeOK
<1>2. LaunchedOnce' BY <1>1 DEF LaunchedOnce, Unlaunched, Untouched
<1>3. PostsKnow' BY <1>1 DEF PostsKnow, Alive
<1>4. LaunchesFirst' BY <1>1 DEF LaunchesFirst
<1>5. RunningIsOwned' BY <1>1 DEF RunningIsOwned, Owned, Alive
<1> QED BY <1>1, <1>2, <1>3, <1>4, <1>5

\* A request of a runner: nothing else of its is in flight.
LEMMA PostsKeepSlots ==
  ASSUME IInv, SlotInv, NEW w \in Worker, NEW r \in Run, NEW t \in Token, NEW s, NEW d,
         Admit(w, r, s, d, t), runner[r][t] # "none",
         \A v \in Worker : ~(job[v].run = r /\ job[v].by = t),
         \/ s \in Posted /\ runner' = [runner EXCEPT ![r][t] = s]
         \/ s = runs[r].status /\ UNCHANGED runner
  PROVE  SlotInv'
<1> USE DEF IInv, SlotInv
<1>1. /\ UNCHANGED <<runs, poll, boot>> /\ job[w].pc = "idle"
      /\ job'[w].pc = "write" /\ job'[w].by = t /\ job'[w].to = s /\ job'[w].run = r
      /\ \A v \in Worker \ {w} : job'[v] = job[v]
  BY DEF Admit, TypeOK
<1>2. t = 1 /\ runs[r].token = 1 /\ \A x \in Token : runner[r][x] # "none" => x = t
  BY DEF LaunchedOnce
<1>3. \A v \in Worker : job[v].by # 0 => job[v].run # r
  BY <1>2 DEF PostsKnow
<1>4. /\ \A q \in Run \ {r} : runner'[q] = runner[q]
      /\ \A x \in Token : runner'[r][x] # "none" <=> runner[r][x] # "none"
  BY <1>2 DEF TypeOK, Posted
<1>5. runs[r].status \notin {"absent", "pending", "queued"}
  BY <1>2 DEF LaunchedOnce, Unlaunched, Untouched
<1>6. LaunchedOnce'
  <2>1. \A q \in Run : Untouched(q) => Untouched(q)' BY <1>1, <1>4 DEF Untouched
  <2>2. \A q \in Run : Unlaunched(q)' => Unlaunched(q) BY <1>1 DEF Unlaunched
  <2>3. \A q \in Run, x \in Token : runner'[q][x] # "none" => runner[q][x] # "none"
    BY <1>4
  <2> QED BY <1>1, <2>1, <2>2, <2>3 DEF LaunchedOnce
<1>7. \A p \in Poller : poll[p].pc = "launch" => poll[p].run # r
  BY DEF LaunchesFirst
<1>8. LaunchesFirst' BY <1>1, <1>4, <1>7 DEF LaunchesFirst
<1>9. runs[r].status = "running" => Alive(r)
  <2> SUFFICES ASSUME runs[r].status = "running" PROVE Alive(r) OBVIOUS
  <2>1. Owned(r) BY DEF RunningIsOwned
  <2>2. \A v \in Worker : ~(job[v].run = r /\ job[v].by # 0) BY <1>3
  <2> QED BY <2>1, <2>2 DEF Owned
<1>10. s = "running" => Alive(r)'
  BY <1>2, <1>9 DEF Alive, TypeOK
<1>11. \A q \in Run \ {r} : Alive(q)' <=> Alive(q) BY <1>4 DEF Alive
<1>12. s \notin {"absent", "pending", "queued"} BY <1>5 DEF Posted
<1>13. PostsKnow'
  <2>1. ASSUME NEW v \in Worker, v # w, job[v].by # 0
        PROVE  /\ job[v].by = 1 /\ job[v].run \in Run /\ job[v].run # r
               /\ \E x \in Token : runner'[job[v].run][x] # "none"
               /\ \A u \in Worker : job'[u].by # 0 /\ job'[u].run = job[v].run => u = v
    <3>1. job[v].by = 1 /\ job[v].run \in Run /\ job[v].run # r
      BY <1>3, <2>1 DEF PostsKnow
    <3>2. \E x \in Token : runner'[job[v].run][x] # "none"
      BY <1>4, <2>1, <3>1 DEF PostsKnow
    <3>3. ASSUME NEW u \in Worker, job'[u].by # 0, job'[u].run = job[v].run PROVE u = v
      BY <1>1, <2>1, <3>1, <3>3 DEF PostsKnow
    <3> QED BY <3>1, <3>2, <3>3
  <2>2. ASSUME NEW v \in Worker, v # w, job[v].pc = "write"
        PROVE  /\ job[v].to \notin {"absent", "pending", "queued"}
               /\ job[v].to = "running" => job[v].by # 0 /\ Alive(job[v].run)'
    <3>1. /\ job[v].to \notin {"absent", "pending", "queued"}
          /\ job[v].to = "running" => job[v].by # 0 /\ Alive(job[v].run)
      BY <2>2 DEF PostsKnow
    <3>2. job[v].by # 0 => job[v].run \in Run \ {r} BY <2>1, <2>2
    <3>3. job'[v] = job[v] BY <1>1, <2>2
    <3> QED BY <1>11, <3>1, <3>2, <3>3
  <2>3. /\ job'[w].by = 1 /\ job'[w].run \in Run
        /\ \E x \in Token : runner'[r][x] # "none"
        /\ \A u \in Worker : job'[u].by # 0 /\ job'[u].run = r => u = w
    BY <1>1, <1>2, <1>3, <1>4
  <2>4. /\ job'[w].to \notin {"absent", "pending", "queued"}
        /\ job'[w].to = "running" => job'[w].by # 0 /\ Alive(r)'
    BY <1>1, <1>2, <1>10, <1>12
  <2> QED BY <1>1, <2>1, <2>2, <2>3, <2>4 DEF PostsKnow
<1>14. ASSUME NEW q \in Run, runs[q].status = "running" PROVE Owned(q)'
  <2>1. CASE q = r
    <3>1. Alive(r)' \/ s # "running" BY <1>10
    <3> QED BY <1>1, <1>2, <2>1, <3>1 DEF Owned
  <2>2. CASE q # r
    <3>1. Owned(q) BY <1>14 DEF RunningIsOwned
    <3>2. \A v \in Worker : job[v].pc = "write" => job'[v] = job[v] BY <1>1
    <3> QED BY <1>1, <1>4, <1>11, <2>2, <3>1, <3>2 DEF Owned
  <2> QED BY <2>1, <2>2
<1> QED BY <1>1, <1>6, <1>8, <1>13, <1>14 DEF RunningIsOwned

LEMMA RequestKeepsSlots ==
  ASSUME IInv, SlotInv, Patient, NEW w \in Worker, RequestStep(w)
  PROVE  SlotInv'
<1>1. ASSUME NEW r \in Run, Confirm(w, r) \/ Discard(w, r) \/ Cancel(w, r) PROVE SlotInv'
  BY <1>1, UsersKeepSlots DEF Confirm, Discard, Cancel
<1>2. ASSUME NEW r \in Run, NEW t \in Token, SubmitOutputs(w, r, t) PROVE SlotInv'
  BY <1>2, PostsKeepSlots DEF SubmitOutputs
<1>3. ASSUME NEW r \in Run, NEW t \in Token, NEW s \in Posted, StatusCallback(w, r, t, s)
      PROVE  SlotInv'
  <2>1. /\ runner[r][t] # "none" /\ Admit(w, r, s, s \in {"succeeded", "failed"}, t)
        /\ runner' = [runner EXCEPT ![r][t] = s]
        /\ \A v \in Worker : ~(job[v].run = r /\ job[v].by = t)
    BY <1>3 DEF StatusCallback, MayPost
  <2> QED BY <2>1, PostsKeepSlots
<1> QED BY <1>1, <1>2, <1>3 DEF RequestStep

LEMMA WorkerKeepsSlots ==
  ASSUME IInv, SlotInv, NEW w \in Worker, WorkerStep(w)
  PROVE  SlotInv'
<1> USE DEF IInv
<1>0. RowsType BY DEF TypeOK, RowsType
<1>1. CASE WriteStatus(w)
  <2>1. /\ job[w].pc = "write" /\ UNCHANGED <<boot, runner, poll>>
        /\ runs' = UpdateModuleRunStatus(job[w].run, job[w].to)
        /\ job'[w] \in {IdleJob, [job[w] EXCEPT !.pc = "dequeue"]}
        /\ \A v \in Worker \ {w} : job'[v] = job[v]
    BY <1>1 DEF WriteStatus, TypeOK
  <2>2. /\ job[w].run \in Run
        /\ job[w].to \in Status \ {"absent", "pending", "queued"}
        /\ job[w].to = "running" => Alive(job[w].run)
    BY <2>1 DEF JobsKnow, SlotInv, PostsKnow
  <2>3. /\ RowsMild
        /\ \A q \in Run \ {job[w].run} : runs'[q] = runs[q]
        /\ runs'[job[w].run].status \in {job[w].to, "absent"}
    BY <1>0, <2>1, <2>2, UpdateMild
  <2>4. \A q \in Run : runs'[q].status = "running" => runs[q].status = "running" \/ Alive(q)
    BY <2>2, <2>3
  <2>5. runs'[job[w].run].status # "running" \/ Alive(job[w].run) BY <2>2, <2>3
  <2> QED BY <2>1, <2>3, <2>4, <2>5, RowsKeepSlots
<1>2. CASE Dequeue(w)
  <2>1. /\ job[w].pc = "dequeue" /\ UNCHANGED <<boot, runner, poll>>
        /\ DequeueNextModuleRun(job[w].lane)
        /\ job'[w] = IdleJob
        /\ \A v \in Worker \ {w} : job'[v] = job[v]
    BY <1>2 DEF Dequeue, TypeOK
  <2>2. /\ RowsMild
        /\ \A q \in Run : runs'[q].status = "running" => runs[q].status = "running"
    BY <1>0, <2>1, DequeueMild
  <2> QED BY <2>1, <2>2, RowsKeepSlots
<1> QED BY <1>1, <1>2 DEF WorkerStep

\* The loop of a poll goes on.
LEMMA ProceedEffect ==
  ASSUME TypeOK, NEW p \in Poller, NEW b, Proceed(p, b)
  PROVE  /\ poll'[p].pc \in {"idle", "dispatch"} /\ poll'[p].batch = b
         /\ \A q \in Poller \ {p} : poll'[q] = poll[q]
BY DEF Proceed, IdlePoll, TypeOK

LEMMA PollerKeepsSlots ==
  ASSUME IInv, SlotInv, LaunchesAlone, NEW p \in Poller, PollerStep(p)
  PROVE  SlotInv'
<1> USE DEF IInv
<1>0. RowsType /\ poll[p] \in PollType BY DEF TypeOK, RowsType
<1>1. CASE CountRunning(p)
  <2>1. /\ UNCHANGED <<runs, boot, runner, job>> /\ poll[p].pc = "idle"
        /\ poll'[p].pc = "list" /\ poll'[p].batch = poll[p].batch
        /\ \A q \in Poller \ {p} : poll'[q] = poll[q]
    BY <1>1 DEF CountRunning, TypeOK, PollType
  <2> QED BY <2>1, RowsKeepSlots DEF RowsMild
<1>2. CASE ListQueued(p)
  <2>1. /\ UNCHANGED <<runs, boot, runner, job>> /\ poll[p].pc = "list"
        /\ poll'[p].batch \subseteq PendingModuleRuns("queued")
        /\ poll'[p].pc \in {"idle", "dispatch"}
        /\ \A q \in Poller \ {p} : poll'[q] = poll[q]
    BY <1>2, ProceedEffect DEF ListQueued
  <2>2. \A r \in Run : Unlaunched(r)' => Unlaunched(r)
    BY <2>1 DEF Unlaunched, PendingModuleRuns
  <2>3. LaunchedOnce' BY <2>1, <2>2 DEF SlotInv, LaunchedOnce, Untouched
  <2>4. PostsKnow' BY <2>1 DEF SlotInv, PostsKnow, Alive
  <2>5. LaunchesFirst' BY <2>1 DEF SlotInv, LaunchesFirst
  <2>6. RunningIsOwned' BY <2>1 DEF SlotInv, RunningIsOwned, Owned, Alive
  <2> QED BY <2>1, <2>3, <2>4, <2>5, <2>6 DEF SlotInv
<1>3. ASSUME NEW r \in poll[p].batch, poll[p].pc = "dispatch",
             Proceed(p, poll[p].batch \ {r}), UNCHANGED <<runs, boot, runner, job>>
      PROVE  SlotInv'
  <2>1. /\ poll'[p].pc \in {"idle", "dispatch"} /\ poll'[p].batch \subseteq poll[p].batch
        /\ \A q \in Poller \ {p} : poll'[q] = poll[q]
    BY <1>3, ProceedEffect
  <2> QED BY <1>3, <2>1, RowsKeepSlots DEF RowsMild
<1>4. ASSUME NEW r \in poll[p].batch, poll[p].pc = "dispatch", runs[r].token < MaxTokens,
             runs' = [runs EXCEPT ![r].status = "running", ![r].token = runs[r].token + 1],
             poll' = [poll EXCEPT ![p].pc = "launch", ![p].run = r,
                        ![p].batch = poll[p].batch \ {r}, ![p].token = runs[r].token + 1],
             UNCHANGED <<boot, runner, job>>
      PROVE  SlotInv'
  <2>1. r \in Run /\ runs[r] # NoRow /\ runs[r].pos = None /\ Untouched(r)
    BY <1>0 DEF InHandReady, PollType, SlotInv, LaunchedOnce, Unlaunched
  <2>11. 1 \in Token
    BY <1>4, <2>1, RunQueueAssumption DEF Token, Untouched
  <2>2. /\ poll'[p].pc = "launch" /\ poll'[p].run = r /\ poll'[p].token = 1
        /\ poll'[p].batch = poll[p].batch \ {r}
        /\ \A q \in Poller : q = p
    BY <1>0, <1>4, <2>1 DEF PollType, TypeOK, LaunchesAlone, Untouched
  <2>3. runs[r] \in Row BY <1>0, <2>1, RowFields
  <2>4. /\ runs'[r].status = "running" /\ runs'[r].token = 1 /\ runs'[r].pos = None
        /\ \A q \in Run \ {r} : runs'[q] = runs[q]
    BY <1>4, <2>1, <2>3 DEF TypeOK, Row, Untouched
  <2>5. ~Unlaunched(r)' BY <2>2, <2>4 DEF Unlaunched
  <2>6. \A q \in Run : Unlaunched(q)' => q # r /\ Unlaunched(q)
    BY <2>2, <2>4, <2>5 DEF Unlaunched
  <2>7. LaunchedOnce'
    <3>1. ASSUME NEW q \in Run PROVE /\ Unlaunched(q)' => Untouched(q)'
                                     /\ runs'[q].token \in {0, 1}
                                     /\ \A t \in Token : runner'[q][t] # "none" =>
                                          t = 1 /\ runs'[q].token = 1
      BY <1>4, <2>1, <2>4, <2>6 DEF SlotInv, LaunchedOnce, Untouched
    <3> QED BY <3>1 DEF LaunchedOnce
  <2>0. UNCHANGED <<runner, job>> BY <1>4
  <2>8. PostsKnow' BY <2>0 DEF SlotInv, PostsKnow, Alive
  <2>9. LaunchesFirst' BY <2>0, <2>11, <2>1, <2>2, <2>4 DEF LaunchesFirst, Untouched
  <2>10. ASSUME NEW q \in Run, runs'[q].status = "running" PROVE Owned(q)'
    <3>1. CASE q = r BY <1>4, <2>1, <2>2, <3>1 DEF Owned, Untouched
    <3>2. CASE q # r
      <4>1. Owned(q) BY <2>4, <2>10, <3>2 DEF SlotInv, RunningIsOwned
      <4>2. \A x \in Poller : poll[x].pc \notin {"launch", "fail"} BY <1>4, <2>2
      <4> QED BY <1>4, <4>1, <4>2 DEF Owned, Alive
    <3> QED BY <3>1, <3>2
  <2> QED BY <1>4, <2>7, <2>8, <2>9, <2>10 DEF SlotInv, RunningIsOwned
<1>5. CASE DispatchRun(p) BY <1>3, <1>4, <1>5 DEF DispatchRun
<1>6. CASE Launch(p)
  <2> PICK r \in Run : r = poll[p].run
    BY <1>6 DEF Launch, SlotInv, LaunchesFirst
  <2>1. /\ poll[p].pc = "launch" /\ poll[p].token = 1 /\ runs[r].token = 1
        /\ UNCHANGED <<runs, boot, job>> /\ \A t \in Token : runner[r][t] = "none"
        /\ \A q \in Poller : q = p
    BY <1>6 DEF Launch, SlotInv, LaunchesFirst, LaunchesAlone
  <2>2. /\ poll'[p].batch = poll[p].batch
        /\ \/ poll'[p].pc \in {"idle", "dispatch"} /\ runner' = Launched(p)
           \/ /\ poll'[p].pc = "fail" /\ poll'[p].run = r
              /\ UNCHANGED runner \/ runner' = Launched(p)
    <3>1. CASE Proceed(p, poll[p].batch) /\ runner' = Launched(p)
      BY <3>1, ProceedEffect
    <3>2. CASE poll' = [poll EXCEPT ![p].pc = "fail"] /\ (UNCHANGED runner \/ runner' = Launched(p))
      BY <1>0, <3>2 DEF TypeOK, PollType
    <3> QED BY <1>6, <3>1, <3>2 DEF Launch
  <2>3. /\ \A q \in Run \ {r} : runner'[q] = runner[q]
        /\ \A t \in Token : runner'[r][t] # "none" => t = 1 /\ runner'[r][t] = "idle"
    BY <2>1, <2>2 DEF Launched, TypeOK
  <2>4. ~Unlaunched(r) BY <2>1 DEF SlotInv, LaunchedOnce, Untouched
  <2>5. \A q \in Run : Unlaunched(q)' => q # r /\ Unlaunched(q)
    BY <2>1, <2>2, <2>4 DEF Unlaunched
  <2>6. LaunchedOnce'
    <3>1. ASSUME NEW q \in Run PROVE /\ Unlaunched(q)' => Untouched(q)'
                                     /\ runs'[q].token \in {0, 1}
                                     /\ \A t \in Token : runner'[q][t] # "none" =>
                                          t = 1 /\ runs'[q].token = 1
      BY <2>1, <2>3, <2>5 DEF SlotInv, LaunchedOnce, Untouched
    <3> QED BY <3>1 DEF LaunchedOnce
  <2>7. \A w \in Worker : job[w].by # 0 => job[w].run \in Run \ {r}
    BY <2>1 DEF SlotInv, PostsKnow
  <2>8. PostsKnow'
    <3>1. \A q \in Run \ {r} : Alive(q)' <=> Alive(q) BY <2>3 DEF Alive
    <3> QED BY <2>1, <2>3, <2>7, <3>1 DEF SlotInv, PostsKnow
  <2>9. LaunchesFirst' BY <2>1, <2>2 DEF LaunchesFirst
  <2>10. ASSUME NEW q \in Run, runs[q].status = "running" PROVE Owned(q)'
    <3>1. Owned(q) BY <2>10 DEF SlotInv, RunningIsOwned
    <3>2. CASE q # r
      <4>1. ~(\E x \in Poller : poll[x].run = q) BY <2>1, <3>2
      <4> QED BY <2>1, <2>3, <3>1, <3>2, <4>1 DEF Owned, Alive
    <3>3. CASE q = r /\ poll'[p].pc = "fail" /\ poll'[p].run = r /\ runner' = runner
      BY <2>1, <3>3 DEF Owned
    <3>4. CASE q = r /\ runner' = Launched(p)
      <4>1. 1 \in Token BY <1>6 DEF Launch, SlotInv, LaunchesFirst
      <4>2. runner'[r][1] = "idle" BY <2>1, <3>4, <4>1 DEF Launched, TypeOK
      <4> QED BY <3>4, <4>1, <4>2 DEF Owned, Alive
    <3> QED BY <2>2, <3>2, <3>3, <3>4
  <2> QED BY <2>1, <2>6, <2>8, <2>9, <2>10 DEF SlotInv, RunningIsOwned
<1>7. CASE FailDispatch(p)
  <2>1. /\ poll[p].pc = "fail" /\ UNCHANGED <<boot, runner, job>>
        /\ runs' = UpdateModuleRunStatus(poll[p].run, "failed")
        /\ poll'[p].pc = "release" /\ poll'[p].batch = poll[p].batch
        /\ \A q \in Poller \ {p} : poll'[q] = poll[q]
    BY <1>0, <1>7 DEF FailDispatch, TypeOK, PollType
  <2>2. CASE poll[p].run \in Run
    <3>1. /\ RowsMild
          /\ \A q \in Run \ {poll[p].run} : runs'[q] = runs[q]
          /\ runs'[poll[p].run].status \in {"failed", "absent"}
      BY <1>0, <2>1, <2>2, UpdateMild DEF Status
    <3>2. \A q \in Run : runs'[q].status = "running" => runs[q].status = "running"
      BY <3>1
    <3> QED BY <2>1, <2>2, <3>1, <3>2, RowsKeepSlots
  <2>3. CASE poll[p].run \notin Run
    <3>1. UNCHANGED runs BY <2>1, <2>3 DEF UpdateModuleRunStatus, TypeOK
    <3> QED BY <2>1, <2>3, <3>1, RowsKeepSlots DEF RowsMild
  <2> QED BY <2>2, <2>3
<1>8. CASE ReleaseLane(p)
  <2>1. /\ poll[p].pc = "release" /\ UNCHANGED <<boot, runner, job>>
        /\ DequeueNextModuleRun(runs[poll[p].run].lane)
        /\ poll'[p].pc \in {"idle", "dispatch"} /\ poll'[p].batch = poll[p].batch
        /\ \A q \in Poller \ {p} : poll'[q] = poll[q]
    BY <1>8, ProceedEffect DEF ReleaseLane
  <2>2. /\ RowsMild
        /\ \A q \in Run : runs'[q].status = "running" => runs[q].status = "running"
    BY <1>0, <2>1, DequeueMild
  <2> QED BY <2>1, <2>2, RowsKeepSlots
<1> QED BY <1>1, <1>2, <1>5, <1>6, <1>7, <1>8 DEF PollerStep

LEMMA SweepKeepsSlots ==
  ASSUME IInv, SlotInv, Sweep
  PROVE  SlotInv'
<1> USE DEF IInv
<1>1. PICK S \in SUBSET Run : ExpireTimedOutModuleRuns(S) BY DEF Sweep
<1>2. /\ UNCHANGED <<boot, runner, job, poll>>
      /\ \A r \in S : runs[r].status = "planned"
      /\ \A r \in Run : runs'[r] = IF r \in S THEN [runs[r] EXCEPT !.status = "timed_out"]
                                   ELSE runs[r]
  BY <1>1 DEF ExpireTimedOutModuleRuns
<1>3. \A r \in S : runs[r] \in Row BY <1>2, RowFields DEF TypeOK, RowsType
<1>4. \A r \in S : /\ runs'[r].status = "timed_out" /\ runs'[r].token = runs[r].token
                   /\ runs'[r].pos = runs[r].pos
  BY <1>2, <1>3 DEF Row
<1>5. /\ RowsMild
      /\ \A r \in Run : runs'[r].status = "running" => runs[r].status = "running"
  BY <1>2, <1>4 DEF RowsMild
<1> QED BY <1>2, <1>5, RowsKeepSlots

\* Without restarts, with polls that do not overlap and runners that await the
\* answer of a post before the next, no slot is lost: a run is 'running' only
\* while somebody will end it or may, whatever races between a launch that
\* fails or seems to, cancellations, repeated posts and outputs that write
\* back the status they have read (runDispatcher.ts, callbackRoutes.ts).
THEOREM NoSlotIsLost ==
  ASSUME Patient, MaxRestarts = 0, LaunchesAlone
  PROVE  Spec => []RunningIsOwned
<1>1. Init => SlotInv
  <2> SUFFICES ASSUME Init PROVE SlotInv OBVIOUS
  <2>1. \A r \in Run : /\ runs[r].token = 0 /\ runs[r].status = "absent"
                       /\ \A t \in Token : runner[r][t] = "none"
    BY DEF Init, NoRow
  <2> QED BY <2>1 DEF Init, SlotInv, LaunchedOnce, Untouched, PostsKnow, LaunchesFirst,
             RunningIsOwned, Up, IdleJob, IdlePoll
<1>2. IInv /\ SlotInv /\ [Next]_vars => SlotInv'
  <2> SUFFICES ASSUME IInv, SlotInv, [Next]_vars PROVE SlotInv' OBVIOUS
  <2>1. CASE UNCHANGED vars
    BY <2>1, RowsKeepSlots DEF vars, RowsMild, IInv
  <2>2. ~Restart BY DEF Restart, IInv, TypeOK
  <2>3. ~RecoveryStep
    BY DEF RecoveryStep, ListRunning, RecoverRun, RecoverDequeue, SlotInv
  <2> QED BY <2>1, <2>2, <2>3, MakeKeepsSlots, RequestKeepsSlots, WorkerKeepsSlots,
             PollerKeepsSlots, SweepKeepsSlots DEF Next
<1>3. SlotInv => RunningIsOwned BY DEF SlotInv
<1> QED BY <1>1, <1>2, <1>3, Invariance, PTL DEF Spec

=============================================================================
