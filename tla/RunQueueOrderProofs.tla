------------------------ MODULE RunQueueOrderProofs ------------------------
(***************************************************************************)
(* The queue of a lane, when at most one createModuleRun is in flight at a *)
(* time: positions in order, one waiting cascade, and the refinement of    *)
(* LaneQueue. Everything else interleaves freely.                          *)
(***************************************************************************)
EXTENDS RunQueueProofs

OneCreator == \A c, d \in Creator : c = d

----------------------------------------------------------------------------
(* What a step does to the queue.                                          *)

\* A step that does not touch the queue may still move a creator on.
MakeStep ==
  \/ UNCHANGED make
  \/ make' = [c \in Creator |-> IdleMake]
  \/ \E c \in Creator, l \in Lane, k \in Kinds : CreateModuleRun(c, l, k)
  \/ \E c \in Creator : TakePosition(c)

\* Every step leaves the queue alone, dequeues a lane, evicts the cascades
\* of a lane or inserts a row.
Effect ==
  \/ SameQueue /\ UNCHANGED created /\ MakeStep
  \/ (\E l : DequeueNextModuleRun(l)) /\ UNCHANGED <<created, make>>
  \/ \E c \in Creator : EvictCascades(c)
  \/ \E c \in Creator : InsertRun(c)

LEMMA UnchangedQueue == runs' = runs => SameQueue
BY DEF SameQueue

\* A poll changes the queue by releasing a lane only.
LEMMA PollerEffect ==
  ASSUME IInv, NEW p \in Poller, PollerStep(p)
  PROVE  Effect
<1> USE DEF IInv
<1>1. UNCHANGED <<created, make>>
  BY DEF PollerStep, CountRunning, ListQueued, DispatchRun, Launch, FailDispatch,
         ReleaseLane
<1>2. CASE CountRunning(p) \/ ListQueued(p) \/ Launch(p)
  <2>1. runs' = runs
    BY <1>2 DEF CountRunning, ListQueued, Launch
  <2> QED BY <1>1, <2>1, UnchangedQueue DEF Effect, MakeStep
<1>3. CASE DispatchRun(p)
  <2>1. PICK r \in poll[p].batch :
          \/ runs' = runs
          \/ runs' = [runs EXCEPT ![r].status = "running",
                                  ![r].token = runs[r].token + 1]
    BY <1>3 DEF DispatchRun
  <2>2. r \in Run /\ runs[r] # NoRow
    BY DEF InHandReady, TypeOK, PollType
  <2>3. runs[r] \in Row /\ NoRow \notin Row
    BY <2>2, RowFields DEF TypeOK, RowsType
  <2>4. SameQueue
    <3>1. CASE runs' = runs
      BY <3>1, UnchangedQueue
    <3>2. CASE runs' = [runs EXCEPT ![r].status = "running",
                                    ![r].token = runs[r].token + 1]
      <4>1. runs'[r] = [runs[r] EXCEPT !.status = "running",
                                       !.token = runs[r].token + 1]
        BY <2>2, <3>2 DEF TypeOK
      <4>2. \A q \in Run \ {r} : runs'[q] = runs[q]
        BY <3>2 DEF TypeOK
      <4>3. runs'[r].status = "running" /\ NoRow.status = "absent"
        BY <2>3, <4>1 DEF Row, NoRow
      <4>4. runs'[r] # NoRow
        BY <4>3
      <4>5. /\ runs'[r].lane = runs[r].lane /\ runs'[r].kind = runs[r].kind
            /\ runs'[r].pos = runs[r].pos
        BY <2>3, <4>1 DEF Row
      <4> QED BY <2>2, <4>2, <4>4, <4>5 DEF SameQueue
    <3> QED BY <2>1, <3>1, <3>2
  <2> QED BY <1>1, <2>4 DEF Effect, MakeStep
<1>4. CASE FailDispatch(p)
  <2>1. runs' = UpdateModuleRunStatus(poll[p].run, "failed")
    BY <1>4 DEF FailDispatch
  <2>2. SameQueue
    <3>1. CASE poll[p].run \in Run
      BY <2>1, <3>1, UpdateEffect DEF TypeOK, RowsType, Status
    <3>2. CASE poll[p].run \notin Run
      <4>1. runs' = runs
        BY <2>1, <3>2 DEF UpdateModuleRunStatus, TypeOK
      <4> QED BY <4>1, UnchangedQueue
    <3> QED BY <3>1, <3>2
  <2> QED BY <1>1, <2>2 DEF Effect, MakeStep
<1>5. CASE ReleaseLane(p)
  BY <1>1, <1>5 DEF ReleaseLane, Effect
<1> QED BY <1>2, <1>3, <1>4, <1>5 DEF PollerStep

\* So do a request in flight, the recovery and the sweep.
LEMMA OtherEffect ==
  ASSUME IInv,
         \/ \E w \in Worker : RequestStep(w) \/ WorkerStep(w)
         \/ RecoveryStep \/ Restart \/ Sweep
  PROVE  Effect
<1> USE DEF IInv
<1>0. RowsType
  BY DEF TypeOK, RowsType
<1>1. ASSUME NEW w \in Worker, RequestStep(w) PROVE Effect
  <2>1. runs' = runs /\ UNCHANGED <<created, make>>
    BY <1>1 DEF RequestStep, Confirm, Discard, Cancel, SubmitOutputs,
                StatusCallback, Admit
  <2> QED BY <2>1, UnchangedQueue DEF Effect, MakeStep
<1>2. ASSUME NEW w \in Worker, WriteStatus(w) PROVE Effect
  <2>1. SameQueue /\ UNCHANGED <<created, make>>
    BY <1>0, <1>2, UpdateEffect DEF WriteStatus, JobsKnow
  <2> QED BY <2>1 DEF Effect, MakeStep
<1>3. ASSUME NEW w \in Worker, Dequeue(w) PROVE Effect
  BY <1>3 DEF Dequeue, Effect
<1>4. ASSUME Restart PROVE Effect
  <2>1. /\ runs' = runs /\ UNCHANGED created
        /\ make' = [c \in Creator |-> IdleMake]
    BY <1>4 DEF Restart
  <2> QED BY <2>1, UnchangedQueue DEF Effect, MakeStep
<1>5. ASSUME ListRunning PROVE Effect
  <2>1. runs' = runs /\ UNCHANGED <<created, make>>
    BY <1>5 DEF ListRunning
  <2> QED BY <2>1, UnchangedQueue DEF Effect, MakeStep
<1>6. ASSUME NEW r \in Run, RecoverRun(r) PROVE Effect
  <2>1. /\ runs' = runs \/ runs' = UpdateModuleRunStatus(r, "timed_out")
        /\ UNCHANGED <<created, make>>
    BY <1>6 DEF RecoverRun
  <2>2. SameQueue
    BY <1>0, <2>1, UpdateEffect, UnchangedQueue DEF Status
  <2> QED BY <2>1, <2>2 DEF Effect, MakeStep
<1>7. ASSUME RecoverDequeue PROVE Effect
  BY <1>7 DEF RecoverDequeue, Effect
<1>8. ASSUME NEW S \in SUBSET Run, ExpireTimedOutModuleRuns(S) PROVE Effect
  <2>1. \A r \in S : runs[r] \in Row
    BY <1>0, <1>8, RowFields DEF ExpireTimedOutModuleRuns
  <2>2. \A r \in S : LET row == [runs[r] EXCEPT !.status = "timed_out"]
                     IN row \in Row /\ row.lane = runs[r].lane
                        /\ row.kind = runs[r].kind /\ row.pos = runs[r].pos
    BY <2>1 DEF Row, Status
  <2>3. NoRow \notin Row
    BY DEF Row, NoRow, Status
  <2>4. SameQueue
    BY <1>8, <2>1, <2>2, <2>3 DEF ExpireTimedOutModuleRuns, SameQueue
  <2> QED BY <1>8, <2>4 DEF ExpireTimedOutModuleRuns, Effect, MakeStep
<1> QED BY <1>1, <1>2, <1>3, <1>4, <1>5, <1>6, <1>7, <1>8
        DEF WorkerStep, RecoveryStep, Sweep

LEMMA StepEffect == IInv /\ Next => Effect
<1> SUFFICES ASSUME IInv, Next PROVE Effect
  OBVIOUS
<1>1. ASSUME NEW c \in Creator, NEW l \in Lane, NEW k \in Kinds,
             CreateModuleRun(c, l, k)
      PROVE  Effect
  <2>1. runs' = runs /\ UNCHANGED created
    BY <1>1 DEF CreateModuleRun
  <2> QED BY <1>1, <2>1, UnchangedQueue DEF Effect, MakeStep
<1>2. ASSUME NEW c \in Creator, CreatorStep(c) PROVE Effect
  <2>1. CASE TakePosition(c)
    <3>1. runs' = runs /\ UNCHANGED created
      BY <2>1 DEF TakePosition
    <3> QED BY <2>1, <3>1, UnchangedQueue DEF Effect, MakeStep
  <2> QED BY <1>2, <2>1 DEF CreatorStep, Effect
<1> QED BY <1>1, <1>2, PollerEffect, OtherEffect DEF Next

----------------------------------------------------------------------------
(* The order of a lane.                                                    *)

\* The position a creator has taken is behind everyone who waits.
LastPosition ==
  \A c \in Creator : make[c].pos # None =>
    \A r \in Waiting(make[c].lane) : runs[r].pos < make[c].pos

\* A cascade that has evicted finds no cascade waiting when it is inserted.
LaneCleared ==
  \A c \in Creator :
    make[c].kind = "cascade" /\ (make[c].pc = "position" \/ make[c].pos # None) =>
      \A r \in Waiting(make[c].lane) : IsUser(r)

OrderInv == PositionsInOrder /\ OneWaitingCascade /\ LastPosition /\ LaneCleared

LEMMA WaitingFacts ==
  ASSUME IInv, NEW r \in Run, runs[r].pos # None
  PROVE  runs[r] \in Row /\ runs[r].pos \in Int /\ r <= created
BY RowFields DEF IInv, TypeOK, RowsType, Row, FreshRows, NoRow, Run

LEMMA InitOrderInv == Init => OrderInv
BY RunQueueAssumption DEF Init, OrderInv, PositionsInOrder, OneWaitingCascade,
   LastPosition, LaneCleared, NoRow, IdleMake

\* While the queue is left alone only the creators' own knowledge changes.
LEMMA QuietKeepsOrder ==
  ASSUME IInv, IInv', OrderInv, SameQueue, MakeStep
  PROVE  OrderInv'
<1>1. /\ \A l : Waiting(l)' = Waiting(l)
      /\ \A r \in Run : IsUser(r)' <=> IsUser(r)
  BY DEF SameQueue, Waiting, IsUser
<1>2. PositionsInOrder' /\ OneWaitingCascade'
  BY DEF OrderInv, SameQueue, PositionsInOrder, OneWaitingCascade
<1>3. LastPosition' /\ LaneCleared'
  <2>1. CASE UNCHANGED make
    <3>1. \A l : \A r \in Waiting(l) : r \in Run
      BY DEF Waiting
    <3> QED BY <1>1, <2>1, <3>1 DEF OrderInv, SameQueue, LastPosition, LaneCleared
  <2>2. CASE make' = [c \in Creator |-> IdleMake]
    BY <2>2 DEF LastPosition, LaneCleared, IdleMake
  <2>3. ASSUME NEW c \in Creator, NEW l \in Lane, NEW k \in Kinds,
               CreateModuleRun(c, l, k)
        PROVE  LastPosition' /\ LaneCleared'
    <3>1. /\ make'[c].pos = None /\ (k = "cascade" => make'[c].pc # "position")
          /\ make'[c].kind = k
          /\ \A d \in Creator \ {c} : make'[d] = make[d]
      BY <2>3 DEF CreateModuleRun, IInv, TypeOK
    <3>2. runs' = runs
      BY <2>3 DEF CreateModuleRun
    <3> QED BY <3>1, <3>2 DEF OrderInv, LastPosition, LaneCleared, Waiting, IsUser
  <2>4. ASSUME NEW c \in Creator, TakePosition(c)
        PROVE  LastPosition' /\ LaneCleared'
    <3>1. PICK m \in {0} \cup ({runs[r].pos : r \in Run} \ {None}) :
            /\ IsLastPosition(make[c].lane, m)
            /\ make' = [make EXCEPT ![c].pc = "insert", ![c].pos = m + 1]
      BY <2>4 DEF TakePosition
    <3>2. /\ make'[c].pos = m + 1 /\ make'[c].lane = make[c].lane
          /\ make'[c].kind = make[c].kind /\ make[c].pc = "position"
          /\ \A d \in Creator \ {c} : make'[d] = make[d]
      BY <2>4, <3>1 DEF TakePosition, IInv, TypeOK, MakeType
    <3>3. runs' = runs
      BY <2>4 DEF TakePosition
    <3>4. m \in Int
      BY <3>1, WaitingFacts
    <3>5. \A r \in Waiting(make[c].lane) : runs[r].pos \in Int /\ runs[r].pos < m + 1
      BY <3>1, <3>4, WaitingFacts DEF IsLastPosition, Waiting
    <3>6. LastPosition'
      BY <3>2, <3>3, <3>5 DEF OrderInv, LastPosition, Waiting
    <3>7. LaneCleared'
      BY <3>2, <3>3 DEF OrderInv, LaneCleared, Waiting, IsUser
    <3> QED BY <3>6, <3>7
  <2> QED BY <2>1, <2>2, <2>3, <2>4 DEF MakeStep
<1> QED BY <1>2, <1>3 DEF OrderInv

\* A dequeue removes one row and moves the whole rest of its lane.
LEMMA DequeueKeepsOrder ==
  ASSUME IInv, OrderInv, NEW l, DequeueNextModuleRun(l), UNCHANGED make
  PROVE  OrderInv'
<1>1. \A q \in Run : runs'[q].lane = runs[q].lane /\ runs'[q].kind = runs[q].kind
  BY DequeueEffect DEF IInv, TypeOK, RowsType
<1>2. CASE runs' = runs
  BY <1>2 DEF OrderInv, PositionsInOrder, OneWaitingCascade, LastPosition,
              LaneCleared, Waiting, IsUser
<1>3. ASSUME NEW h \in Heads(l), runs'[h].pos = None,
             \A q \in Run \ {h} :
               runs'[q].pos = IF q \in Waiting(l) THEN runs[q].pos - 1
                              ELSE runs[q].pos
      PROVE  OrderInv'
  <2>1. \A q \in Run : runs'[q].pos # None =>
          /\ q # h /\ runs[q].pos # None /\ runs[q].pos \in Int
          /\ runs[q].lane = l => runs'[q].pos = runs[q].pos - 1
          /\ runs[q].lane # l => runs'[q].pos = runs[q].pos
    BY <1>3, WaitingFacts DEF Waiting
  <2>2. PositionsInOrder'
    <3> SUFFICES ASSUME NEW r \in Run, NEW q \in Run,
                        runs'[r].pos # None, runs'[q].pos # None,
                        runs'[r].lane = runs'[q].lane, r < q
                 PROVE  runs'[r].pos < runs'[q].pos
      BY DEF PositionsInOrder
    <3>1. runs[r].lane = runs[q].lane /\ runs[r].pos # None /\ runs[q].pos # None
      BY <1>1, <2>1
    <3>2. runs[r].pos < runs[q].pos
      BY <3>1 DEF OrderInv, PositionsInOrder
    <3> QED BY <2>1, <3>1, <3>2
  <2>3. OneWaitingCascade'
    BY <1>1, <2>1 DEF OrderInv, OneWaitingCascade
  <2>4. LastPosition'
    <3> SUFFICES ASSUME NEW c \in Creator, make[c].pos # None,
                        NEW r \in Run, runs'[r].lane = make[c].lane,
                        runs'[r].pos # None
                 PROVE  runs'[r].pos < make[c].pos
      BY DEF LastPosition, Waiting
    <3>1. r \in Waiting(make[c].lane)
      BY <1>1, <2>1 DEF Waiting
    <3>2. runs[r].pos < make[c].pos /\ make[c].pos \in Int
      BY <3>1 DEF OrderInv, LastPosition, IInv, TypeOK, MakeType
    <3> QED BY <2>1, <3>2
  <2>5. LaneCleared'
    BY <1>1, <2>1 DEF OrderInv, LaneCleared, Waiting, IsUser
  <2> QED BY <2>2, <2>3, <2>4, <2>5 DEF OrderInv
<1> QED BY <1>2, <1>3, DequeueEffect DEF IInv, TypeOK, RowsType

LEMMA EvictKeepsOrder ==
  ASSUME IInv, OrderInv, NEW c \in Creator, EvictCascades(c)
  PROVE  OrderInv'
<1>1. \A r \in Run : runs'[r] = IF r \in Waiting(make[c].lane) /\ ~IsUser(r)
                                THEN NoRow ELSE runs[r]
  BY DEF EvictCascades
<1>2. \A r \in Run : runs'[r].pos # None =>
        runs'[r] = runs[r] /\ (runs[r].lane = make[c].lane => IsUser(r))
  BY <1>1 DEF NoRow, Waiting
<1>3. /\ make'[c].lane = make[c].lane /\ make'[c].kind = make[c].kind
      /\ make'[c].pos = make[c].pos
      /\ \A d \in Creator \ {c} : make'[d] = make[d]
  BY DEF EvictCascades, IInv, TypeOK, MakeType
<1>4. PositionsInOrder' /\ OneWaitingCascade'
  BY <1>2 DEF OrderInv, PositionsInOrder, OneWaitingCascade
<1>5. LastPosition'
  BY <1>2, <1>3 DEF OrderInv, LastPosition, Waiting
<1>6. LaneCleared'
  BY <1>2, <1>3 DEF OrderInv, LaneCleared, Waiting, IsUser
<1> QED BY <1>4, <1>5, <1>6 DEF OrderInv

\* What an insertion adds to the table.
LEMMA InsertEffect ==
  ASSUME IInv, NEW c \in Creator, InsertRun(c)
  PROVE  /\ created + 1 \in Run /\ runs[created + 1] = NoRow
         /\ created' = created + 1
         /\ runs'[created + 1].lane = make[c].lane
         /\ runs'[created + 1].kind = make[c].kind
         /\ runs'[created + 1].pos = make[c].pos
         /\ runs'[created + 1] # NoRow
         /\ make[c].lane \in Lane
         /\ \A r \in Run \ {created + 1} : runs'[r] = runs[r]
         /\ make' = [make EXCEPT ![c] = IdleMake]
<1>1. created + 1 \in Run /\ runs[created + 1] = NoRow
  <2>1. created < MaxRuns /\ created \in 0..MaxRuns
    BY DEF InsertRun, IInv, TypeOK
  <2>2. created + 1 \in Run /\ created + 1 > created
    BY <2>1, RunQueueAssumption DEF Run
  <2> QED BY <2>2 DEF IInv, FreshRows
<1>2. make[c].lane \in Lane
  BY DEF InsertRun, IInv, MakesKnow
<1>3. /\ runs' = [runs EXCEPT ![created + 1] =
            [lane |-> make[c].lane, kind |-> make[c].kind,
             status |-> InitialStatus(make[c]), pos |-> make[c].pos,
             token |-> OwnToken(make[c])]]
      /\ created' = created + 1 /\ make' = [make EXCEPT ![c] = IdleMake]
  BY DEF InsertRun
<1> QED BY <1>1, <1>2, <1>3, RunQueueAssumption DEF IInv, TypeOK, NoRow

LEMMA InsertKeepsOrder ==
  ASSUME IInv, OrderInv, OneCreator, NEW c \in Creator, InsertRun(c)
  PROVE  OrderInv'
<1> DEFINE n == created + 1
<1>1. /\ n \in Run /\ runs[n] = NoRow /\ runs'[n].lane = make[c].lane
      /\ runs'[n].kind = make[c].kind /\ runs'[n].pos = make[c].pos
      /\ \A r \in Run \ {n} : runs'[r] = runs[r]
      /\ make' = [make EXCEPT ![c] = IdleMake]
  BY InsertEffect
<1>2. \A r \in Run \ {n} : runs[r].pos # None => r < n
  BY WaitingFacts DEF IInv, TypeOK, Run
<1> HIDE DEF n
<1>3. PositionsInOrder'
  BY <1>1, <1>2 DEF OrderInv, PositionsInOrder, LastPosition, Waiting, Run
<1>4. OneWaitingCascade'
  BY <1>1 DEF OrderInv, OneWaitingCascade, LaneCleared, Waiting, IsUser
<1>5. \A d \in Creator : make'[d] = IdleMake
  BY <1>1 DEF OneCreator, IInv, TypeOK
<1>6. LastPosition' /\ LaneCleared'
  BY <1>5 DEF LastPosition, LaneCleared, IdleMake
<1> QED BY <1>3, <1>4, <1>6 DEF OrderInv

LEMMA NextOrderInv ==
  ASSUME OneCreator PROVE IInv /\ IInv' /\ OrderInv /\ [Next]_vars => OrderInv'
<1> SUFFICES ASSUME IInv, IInv', OrderInv, [Next]_vars PROVE OrderInv'
  OBVIOUS
<1>1. CASE UNCHANGED vars
  BY <1>1 DEF vars, OrderInv, PositionsInOrder, OneWaitingCascade, LastPosition,
              LaneCleared, Waiting, IsUser
<1>2. CASE Next
  <2>1. Effect
    BY <1>2, StepEffect
  <2> QED BY <2>1, QuietKeepsOrder, DequeueKeepsOrder, EvictKeepsOrder,
          InsertKeepsOrder DEF Effect
<1> QED BY <1>1, <1>2

THEOREM OrderInvariance == ASSUME OneCreator PROVE Spec => []OrderInv
BY InitOrderInv, NextOrderInv, Invariance, PTL DEF Spec

\* The rows of a lane are in the order of their creation, whatever is
\* dequeued, evicted or cancelled between the two halves of createModuleRun.
THEOREM PositionsStayInOrder == ASSUME OneCreator PROVE Spec => []PositionsInOrder
<1>1. OrderInv => PositionsInOrder
  BY DEF OrderInv
<1> QED BY <1>1, OrderInvariance, PTL

\* Latest wins: never do two cascades wait in one lane.
THEOREM AtMostOneCascade == ASSUME OneCreator PROVE Spec => []OneWaitingCascade
<1>1. OrderInv => OneWaitingCascade
  BY DEF OrderInv
<1> QED BY <1>1, OrderInvariance, PTL

----------------------------------------------------------------------------
(* The lanes implement LaneQueue.                                          *)

Entry(r) == <<r, IsUser(r)>>
Entries(l) == {Entry(r) : r \in Waiting(l)}
Released == {r \in Run : runs[r] # NoRow /\ runs[r].pos = None}

\* What a step of the abstract queue is, in the terms of this one.
LEMMA LanesStep ==
  ASSUME \/ (\A l \in Lane : Entries(l)' = Entries(l))
            /\ Released' = Released /\ created' = created
         \/ (\A l \in Lane : Entries(l)' = Entries(l))
            /\ created' = created + 1 /\ Released' = Released \cup {created'}
         \/ \E l \in Lane, u \in BOOLEAN :
              /\ u \/ \A e \in Entries(l) : e[2]
              /\ Entries(l)' = Entries(l) \cup {<<created', u>>}
              /\ \A k \in Lane \ {l} : Entries(k)' = Entries(k)
              /\ created' = created + 1 /\ Released' = Released
         \/ \E l \in Lane :
              /\ Entries(l)' = {e \in Entries(l) : e[2]}
              /\ \A k \in Lane \ {l} : Entries(k)' = Entries(k)
              /\ created' = created /\ Released' = Released
         \/ \E l \in Lane : \E e \in Entries(l) :
              /\ \A f \in Entries(l) : Lanes!Precedes(e, f)
              /\ Entries(l)' = Entries(l) \ {e}
              /\ \A k \in Lane \ {l} : Entries(k)' = Entries(k)
              /\ created' = created /\ Released' = Released \cup {e[1]}
  PROVE  [Lanes!Next]_(Lanes!vars)
<1> DEFINE waiting == [l \in Lane |-> Entries(l)]
           waiting_ == [l \in Lane |-> Entries(l)']
<1>1. /\ waiting = [l \in Lane |-> {<<r, IsUser(r)>> : r \in Waiting(l)}]
      /\ waiting' = [l \in Lane |-> {<<r, IsUser(r)>> : r \in Waiting(l)}]'
      /\ waiting' = [l \in Lane |-> Entries(l)']
  BY DEF Entries, Entry
<1>2. CASE (\A l \in Lane : Entries(l)' = Entries(l))
            /\ Released' = Released /\ created' = created
  BY <1>1, <1>2 DEF Lanes!vars, Released
<1>3. CASE (\A l \in Lane : Entries(l)' = Entries(l))
            /\ created' = created + 1 /\ Released' = Released \cup {created'}
  <2>1. waiting' = waiting
    BY <1>1, <1>3
  <2> HIDE DEF waiting
  <2> QED BY <1>1, <1>3, <2>1 DEF Lanes!Next, Lanes!Start, Released
<1>4. ASSUME NEW l \in Lane, NEW u \in BOOLEAN,
             u \/ \A e \in Entries(l) : e[2],
             Entries(l)' = Entries(l) \cup {<<created', u>>},
             \A k \in Lane \ {l} : Entries(k)' = Entries(k),
             created' = created + 1, Released' = Released
      PROVE  Lanes!Join(l, u)
  <2>1. waiting' = [waiting EXCEPT ![l] = @ \cup {<<created', u>>}]
    BY <1>1, <1>4
  <2>2. waiting[l] = Entries(l)
    OBVIOUS
  <2> HIDE DEF waiting
  <2> QED BY <1>1, <1>4, <2>1, <2>2 DEF Lanes!Join, Released
<1>5. ASSUME NEW l \in Lane, Entries(l)' = {e \in Entries(l) : e[2]},
             \A k \in Lane \ {l} : Entries(k)' = Entries(k),
             created' = created, Released' = Released
      PROVE  Lanes!Supersede(l)
  <2>1. waiting' = [waiting EXCEPT ![l] = {e \in @ : e[2]}]
    BY <1>1, <1>5
  <2> HIDE DEF waiting
  <2> QED BY <1>1, <1>5, <2>1 DEF Lanes!Supersede, Released
<1>6. ASSUME NEW l \in Lane, NEW e \in Entries(l),
             \A f \in Entries(l) : Lanes!Precedes(e, f),
             Entries(l)' = Entries(l) \ {e},
             \A k \in Lane \ {l} : Entries(k)' = Entries(k),
             created' = created, Released' = Released \cup {e[1]}
      PROVE  Lanes!Serve(l)
  <2>1. waiting' = [waiting EXCEPT ![l] = @ \ {e}]
    BY <1>1, <1>6
  <2>2. waiting[l] = Entries(l)
    OBVIOUS
  <2> HIDE DEF waiting
  <2> QED BY <1>1, <1>6, <2>1, <2>2 DEF Lanes!Serve, Released
<1> QED BY <1>2, <1>3, <1>4, <1>5, <1>6 DEF Lanes!Next

\* A step that leaves the queue alone is a stutter.
LEMMA QuietRefines ==
  ASSUME SameQueue, UNCHANGED created
  PROVE  [Lanes!Next]_(Lanes!vars)
<1>1. \A l \in Lane : Entries(l)' = Entries(l)
  BY DEF SameQueue, Entries, Entry, IsUser, Waiting
<1>2. Released' = Released
  BY DEF SameQueue, Released
<1> QED BY <1>1, <1>2, LanesStep

\* A dequeue serves the oldest of the most urgent kind.
LEMMA DequeueRefines ==
  ASSUME IInv, PositionsInOrder, NEW l, DequeueNextModuleRun(l), UNCHANGED created
  PROVE  [Lanes!Next]_(Lanes!vars)
<1>0. RowsType
  BY DEF IInv, TypeOK, RowsType
<1>1. \A q \in Run :
        /\ runs'[q] = NoRow <=> runs[q] = NoRow
        /\ runs'[q].lane = runs[q].lane /\ runs'[q].kind = runs[q].kind
        /\ runs[q].pos = None => runs'[q] = runs[q]
  BY <1>0, DequeueEffect
<1>2. CASE runs' = runs
  BY <1>2, UnchangedQueue, QuietRefines
<1>3. ASSUME NEW h \in Heads(l), runs'[h].pos = None,
             \A q \in Run \ {h} :
               runs'[q].pos = IF q \in Waiting(l) THEN runs[q].pos - 1
                              ELSE runs[q].pos
      PROVE  [Lanes!Next]_(Lanes!vars)
  <2>1. /\ h \in Run /\ runs[h].lane = l /\ runs[h].pos # None
        /\ h \in Waiting(l) /\ \A q \in Waiting(l) : NotAfter(h, q)
    BY DEF Heads, Waiting
  <2>2. runs[h] \in Row /\ runs[h].pos \in Int /\ l \in Lane
    BY <2>1, WaitingFacts DEF Row
  <2>3. \A q \in Run \ {h} : runs'[q].pos = None <=> runs[q].pos = None
    BY <1>3, WaitingFacts, RunQueueAssumption DEF Waiting
  <2>4. \A k \in Lane : Waiting(k)' = Waiting(k) \ {h}
    BY <1>1, <1>3, <2>3 DEF Waiting
  <2>5. \A q \in Run : Entry(q)' = Entry(q)
    BY <1>1 DEF Entry, IsUser
  <2>6. \A k \in Lane : Entries(k)' = {Entry(q) : q \in Waiting(k) \ {h}}
    BY <2>4, <2>5 DEF Entries, Waiting
  <2>7. \A k \in Lane \ {l} : Entries(k)' = Entries(k)
    BY <2>1, <2>6 DEF Entries, Waiting
  <2>8. Entries(l)' = Entries(l) \ {Entry(h)} /\ Entry(h) \in Entries(l)
    BY <2>1, <2>2, <2>6 DEF Entries, Entry
  <2>9. ASSUME NEW q \in Waiting(l) PROVE Lanes!Precedes(Entry(h), Entry(q))
    <3>1. q \in Run /\ runs[q].pos \in Int /\ runs[q].lane = l /\ runs[q].pos # None
      BY WaitingFacts DEF Waiting
    <3>2. runs[h].pos <= runs[q].pos => h <= q
      BY <2>1, <2>2, <3>1 DEF PositionsInOrder, Run
    <3>3. (IsUser(h) /\ ~IsUser(q)) \/ ((IsUser(h) <=> IsUser(q)) /\ h <= q)
      BY <2>1, <3>2 DEF NotAfter
    <3> QED BY <3>3 DEF Lanes!Precedes, Entry
  <2>10. \A f \in Entries(l) : Lanes!Precedes(Entry(h), f)
    BY <2>9 DEF Entries
  <2>11. Released' = Released \cup {Entry(h)[1]}
    <3>1. runs[h] # NoRow
      BY <2>1 DEF NoRow
    <3> QED BY <1>1, <1>3, <2>1, <2>3, <3>1 DEF Released, Entry
  <2> QED BY <2>2, <2>7, <2>8, <2>10, <2>11, LanesStep
<1> QED BY <1>0, <1>2, <1>3, DequeueEffect

\* An eviction supersedes the waiting cascades of its lane.
LEMMA EvictRefines ==
  ASSUME IInv, NEW c \in Creator, EvictCascades(c)
  PROVE  [Lanes!Next]_(Lanes!vars)
<1>0. PICK l \in Lane : l = make[c].lane
  BY DEF EvictCascades, IInv, MakesKnow
<1>1. \A r \in Run : runs'[r] = IF r \in Waiting(l) /\ ~IsUser(r)
                                THEN NoRow ELSE runs[r]
  BY <1>0 DEF EvictCascades
<1>2. l \in Lane /\ created' = created
  BY DEF EvictCascades
<1>3. \A k \in Lane \ {l} : Waiting(k)' = Waiting(k)
  BY <1>1 DEF Waiting, NoRow
<1>4. Waiting(l)' = {r \in Waiting(l) : IsUser(r)}
  BY <1>1 DEF Waiting, NoRow
<1>5. /\ \A k \in Lane \ {l} : \A r \in Waiting(k) : Entry(r)' = Entry(r)
      /\ \A r \in Waiting(l) : IsUser(r) => Entry(r)' = Entry(r)
  BY <1>1 DEF Entry, IsUser, Waiting
<1>6. \A k \in Lane \ {l} : Entries(k)' = Entries(k)
  BY <1>3, <1>5 DEF Entries
<1>7. Entries(l)' = {e \in Entries(l) : e[2]}
  <2>1. Entries(l)' = {Entry(r) : r \in {q \in Waiting(l) : IsUser(q)}}
    BY <1>4, <1>5 DEF Entries
  <2> QED BY <2>1 DEF Entries, Entry
<1>8. Released' = Released
  BY <1>1 DEF Released, Waiting, NoRow
<1> QED BY <1>2, <1>6, <1>7, <1>8, LanesStep

\* An insertion starts a run or makes it join its lane.
LEMMA InsertRefines ==
  ASSUME IInv, LaneCleared, NEW c \in Creator, InsertRun(c)
  PROVE  [Lanes!Next]_(Lanes!vars)
<1>0. PICK n \in Run, l \in Lane : n = created + 1 /\ l = make[c].lane
  BY InsertEffect
<1>1. /\ n \in Run /\ runs[n] = NoRow /\ created' = n /\ l \in Lane
      /\ runs'[n].lane = l /\ runs'[n].kind = make[c].kind
      /\ runs'[n].pos = make[c].pos /\ runs'[n] # NoRow
      /\ \A r \in Run \ {n} : runs'[r] = runs[r]
  BY <1>0, InsertEffect
<1>2. created' = created + 1
  BY <1>0, <1>1
<1>3. \A r \in Run \ {n} : Entry(r)' = Entry(r)
  BY <1>1 DEF Entry, IsUser
<1>4. \A k : n \notin Waiting(k)
  BY <1>1 DEF Waiting, NoRow
<1>5. CASE make[c].pos = None
  <2>1. \A k \in Lane : Waiting(k)' = Waiting(k)
    BY <1>1, <1>4, <1>5 DEF Waiting
  <2>2. \A k \in Lane : Entries(k)' = Entries(k)
    BY <1>3, <1>4, <2>1 DEF Entries, Waiting
  <2>3. Released' = Released \cup {created'}
    BY <1>1, <1>5 DEF Released
  <2> QED BY <1>2, <2>2, <2>3, LanesStep
<1>6. CASE make[c].pos # None
  <2>0. PICK u \in BOOLEAN : u = (make[c].kind # "cascade")
    OBVIOUS
  <2>1. Entry(n)' = <<created', u>>
    BY <1>1, <2>0 DEF Entry, IsUser
  <2>2. /\ Waiting(l)' = Waiting(l) \cup {n}
        /\ \A k \in Lane \ {l} : Waiting(k)' = Waiting(k)
    BY <1>1, <1>4, <1>6 DEF Waiting
  <2>3. \A k \in Lane \ {l} : Entries(k)' = Entries(k)
    BY <1>3, <1>4, <2>2 DEF Entries, Waiting
  <2>4. Entries(l)' = Entries(l) \cup {<<created', u>>}
    BY <1>3, <1>4, <2>1, <2>2 DEF Entries, Waiting
  <2>5. u \/ \A e \in Entries(l) : e[2]
    <3>1. ~u => \A r \in Waiting(l) : IsUser(r)
      BY <1>0, <1>6, <2>0 DEF LaneCleared
    <3>2. \A e \in Entries(l) : \E r \in Waiting(l) : e = <<r, IsUser(r)>>
      BY DEF Entries, Entry
    <3>3. (\A r \in Waiting(l) : IsUser(r)) => \A e \in Entries(l) : e[2]
      BY <3>2
    <3> QED BY <3>1, <3>3
  <2>6. Released' = Released
    BY <1>1, <1>6 DEF Released
  <2> QED BY <1>1, <1>2, <2>3, <2>4, <2>5, <2>6, LanesStep
<1> QED BY <1>5, <1>6

LEMMA NextRefines ==
  IInv /\ OrderInv /\ [Next]_vars => [Lanes!Next]_(Lanes!vars)
<1> SUFFICES ASSUME IInv, OrderInv, [Next]_vars PROVE [Lanes!Next]_(Lanes!vars)
  OBVIOUS
<1>1. CASE UNCHANGED vars
  BY <1>1, UnchangedQueue, QuietRefines DEF vars
<1>2. CASE Next
  <2>1. Effect
    BY <1>2, StepEffect
  <2> QED BY <2>1, QuietRefines, DequeueRefines, EvictRefines, InsertRefines
          DEF Effect, OrderInv
<1> QED BY <1>1, <1>2

LEMMA InitRefines == Init => Lanes!Init
<1> SUFFICES ASSUME Init PROVE Lanes!Init
  OBVIOUS
<1>1. \A l \in Lane : Waiting(l) = {}
  BY DEF Init, Waiting, NoRow
<1>2. {r \in Run : runs[r] # NoRow /\ runs[r].pos = None} = {}
  BY DEF Init
<1> QED BY <1>1, <1>2 DEF Init, Lanes!Init

\* The module_runs table with its positions, stale writes and restarts
\* serves every lane exactly as the abstract queue does.
THEOREM LanesAreServedInOrder ==
  ASSUME OneCreator PROVE Spec => ServesLanesInOrder
<1>1. Spec => Lanes!Spec
  BY InitRefines, NextRefines, Invariance, OrderInvariance, PTL DEF Spec, Lanes!Spec
<1> QED BY <1>1 DEF ServesLanesInOrder

=============================================================================
