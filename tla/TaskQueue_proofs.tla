--------------------------- MODULE TaskQueue_proofs ---------------------------
(***************************************************************************)
(* Proofs about TaskQueue: type correctness for any number of workers, the *)
(* safety of the queue when there is one worker and, when the endpoints    *)
(* serve one request at a time, in what order tasks are claimed and that   *)
(* TaskQueue implements TaskLifecycle if no error follows a commit.        *)
(***************************************************************************)
EXTENDS TaskQueue, TLAPS

-----------------------------------------------------------------------------
(* The row writes keep the types of the row columns. *)

RowTypes ==
  /\ status \in [Tasks -> Status]
  /\ attempts \in [Tasks -> Nat]
  /\ stale \subseteq Tasks
  /\ ahead \in [Tasks -> SUBSET Tasks]
  /\ older \in [Workers -> SUBSET Tasks]
  /\ cursor \in [Jobs -> Nat]

WorkerTypes ==
  /\ owner \in Workers \cup {Nobody}
  /\ pc \in [Workers -> Steps]
  /\ task \in [Workers -> Tasks \cup {Nobody}]
  /\ seen \in [Workers -> [Tasks -> Row]]
  /\ superseded \in [Workers -> BOOLEAN]
  /\ stop \in [Workers -> BOOLEAN]

RestTypes ==
  /\ faults \in 0..MaxFaults
  /\ retries \in 0..MaxRetries
  /\ request \in [Requests -> Submission]
  /\ resent \in [Imports -> Nat]
  /\ waiting \in [Workers -> SUBSET Tasks]
  /\ commits \in [Tasks -> Nat]
  /\ asked \subseteq Tasks
  /\ demoted \subseteq Tasks

\* TypeOK is the conjunction of its three parts.
LEMMA TypeParts == TypeOK <=> RowTypes /\ WorkerTypes /\ RestTypes
BY DEF TypeOK, RowTypes, WorkerTypes, RestTypes

\* The queue order relates tasks to sets of tasks.
LEMMA QueueOrderType ==
  ASSUME NEW st, NEW sn, NEW now
  PROVE  QueueOrder(InLine(st, sn), now) \in [Tasks -> SUBSET Tasks]
BY DEF QueueOrder, InLine

\* Writing a status keeps the row types.
LEMMA SetStatusType ==
  ASSUME RowTypes, NEW t \in Tasks, NEW s \in Status, SetStatus(t, s)
  PROVE  RowTypes'
BY QueueOrderType DEF RowTypes, SetStatus

\* Queueing a row keeps the row types.
LEMMA RequeueType ==
  ASSUME RowTypes, NEW t \in Tasks, NEW n \in Nat, Requeue(t, n), cursor' \in [Jobs -> Nat]
  PROVE  RowTypes'
<1>1. "queued" \in Status
  BY DEF Status
<1>2. QED
  BY <1>1, QueueOrderType DEF RowTypes, Requeue, Stamp

\* Handing a claim back keeps the row types.
LEMMA GiveBackType ==
  ASSUME RowTypes, NEW w \in Workers, task[w] \in Tasks, GiveBack(w)
  PROVE  RowTypes'
<1>1. CASE status[task[w]] = "processing"
  <2>1. (IF attempts[task[w]] > 0 THEN attempts[task[w]] - 1 ELSE 0) \in Nat
    BY DEF RowTypes
  <2>2. QED
    BY <1>1, <2>1, RequeueType DEF GiveBack, RowTypes
<1>2. CASE status[task[w]] # "processing"
  BY <1>2 DEF GiveBack, RowTypes, rows
<1>3. QED
  BY <1>1, <1>2

-----------------------------------------------------------------------------
(* The worker columns. *)

WorkerOK == WorkerTypes /\ HoldsTask

\* A worker that holds something holds a task.
LEMMA HeldIsTask ==
  ASSUME WorkerOK, NEW w \in Workers, pc[w] \notin Free
  PROVE  task[w] \in Tasks
BY DEF WorkerOK, WorkerTypes, HoldsTask

\* Ending a turn keeps the worker columns in order.
LEMMA EndTurnOK ==
  ASSUME WorkerOK, NEW w \in Workers, EndTurn(w)
  PROVE  WorkerOK'
BY DEF WorkerOK, WorkerTypes, HoldsTask, EndTurn, Goto, Steps, Free, Looking, Picking

\* So does going on with the task.
LEMMA GoOnOK ==
  ASSUME WorkerOK, NEW w \in Workers, pc[w] \notin Free,
         NEW step \in Steps \ Free, GoOn(w, step)
  PROVE  WorkerOK'
BY DEF WorkerOK, WorkerTypes, HoldsTask, GoOn, Goto

\* What recovery writes is a status.
LEMMA RecoveredType ==
  ASSUME RowTypes, NEW w \in Workers
  PROVE  Recovered(w) \in [Tasks -> Status]
BY DEF RowTypes, Recovered, Found, Verdict, Status

\* A claim counts from a natural number.
LEMMA ClaimCountType ==
  ASSUME RowTypes, WorkerTypes, NEW w \in Workers, NEW t \in Tasks
  PROVE  ClaimCount(w, t) \in Nat
BY DEF RowTypes, WorkerTypes, ClaimCount, Row

\* A worker that has chosen wants tasks that it finds queued.
LEMMA WantedQueued ==
  ASSUME NEW w \in Workers, NEW t \in Wanted(w)
  PROVE  t \in Tasks /\ Found(w, t) = "queued"
BY TasksAssumption DEF Wanted, Queued, Tasks

-----------------------------------------------------------------------------
(* Type correctness. *)

Typed == RowTypes /\ WorkerOK /\ RestTypes

\* The initial state is typed.
LEMMA TypedInit == Init => Typed
<1> SUFFICES ASSUME Init PROVE Typed
  OBVIOUS
<1>1. RowTypes
  BY DEF Init, RowTypes, Status
<1>2. NotLoaded \in Row
  BY DEF NotLoaded, Row, Status
<1>3. WorkerOK
  BY <1>2 DEF Init, WorkerOK, WorkerTypes, HoldsTask, Steps, Free, Looking, Picking
<1>4. RestTypes
  BY BoundsAssumption DEF Init, RestTypes, Submission
<1>5. QED
  BY <1>1, <1>3, <1>4 DEF Typed

\* The steps of the users and of the clock are typed.
LEMMA TypedUsers ==
  ASSUME Typed, NEW t \in Tasks,
         Admit(t) \/ Cancel(t) \/ Retry(t) \/ Age(t) \/ \E r \in Requests : Open(r, t)
  PROVE  Typed'
<1> USE DEF Typed
<1>1. CASE Admit(t)
  <2>1. RowTypes'
    BY <1>1, RequeueType DEF Admit, RowTypes
  <2>2. WorkerOK' /\ RestTypes'
    BY <1>1 DEF Admit, worker, outside, history, WorkerOK, WorkerTypes, HoldsTask, RestTypes
  <2>3. QED
    BY <2>1, <2>2
<1>2. CASE Cancel(t)
  <2>1. RowTypes'
    <3>1. "cancelled" \in Status /\ "cancelling" \in Status
      BY DEF Status
    <3>2. QED
      BY <1>2, <3>1, SetStatusType DEF Cancel
  <2>2. WorkerOK' /\ RestTypes'
    BY <1>2 DEF Cancel, worker, outside, WorkerOK, WorkerTypes, HoldsTask, RestTypes
  <2>3. QED
    BY <2>1, <2>2
<1>3. CASE Retry(t)
  <2>1. RowTypes'
    BY <1>3, RequeueType DEF Retry, RowTypes
  <2>2. WorkerOK'
    BY <1>3 DEF Retry, worker, WorkerOK, WorkerTypes, HoldsTask
  <2>3. RestTypes'
    BY <1>3, BoundsAssumption DEF Retry, RestTypes
  <2>4. QED
    BY <2>1, <2>2, <2>3
<1>4. CASE Age(t)
  BY <1>4 DEF Age, worker, outside, history, RowTypes, WorkerOK, WorkerTypes, HoldsTask, RestTypes
<1>5. CASE \E r \in Requests : Open(r, t)
  <2>1. PICK r \in Requests : Open(r, t)
    BY <1>5
  <2>2. request' \in [Requests -> Submission]
    BY <2>1 DEF Open, RestTypes, Submission
  <2>3. QED
    BY <2>1, <2>2, BoundsAssumption
       DEF Open, rows, worker, history, RowTypes, WorkerOK, WorkerTypes, HoldsTask, RestTypes
<1>6. QED
  BY <1>1, <1>2, <1>3, <1>4, <1>5

\* A pending submission is for an import.
LEMMA PendingIsImport ==
  ASSUME Typed, NEW r \in Requests, request[r] # NoRequest
  PROVE  /\ request[r].on \in Imports /\ request[r].on \in Tasks
         /\ request[r].kind \in {"commit", "retry"}
BY DEF Typed, RestTypes, Submission, Tasks

\* Submitting an import is typed.
LEMMA TypedSubmit ==
  ASSUME Typed, NEW r \in Requests, Submit(r)
  PROVE  Typed'
<1> USE DEF Typed
<1> DEFINE t == request[r].on
           n == IF request[r].kind = "retry" THEN 0 ELSE attempts[t]
<1>1. t \in Tasks /\ t \in Imports
  BY PendingIsImport DEF Submit
<1>2. n \in Nat
  BY <1>1 DEF RowTypes
<1>3. Requeue(t, n) /\ cursor' = cursor
  BY DEF Submit
<1>4. RowTypes'
  <2> HIDE DEF n
  <2> QED
    BY <1>1, <1>2, <1>3, RequeueType DEF RowTypes
<1>5. WorkerOK'
  BY DEF Submit, worker, WorkerOK, WorkerTypes, HoldsTask
<1>6. RestTypes'
  <2>1. resent' \in [Imports -> Nat]
    BY <1>1 DEF Submit, RestTypes
  <2>2. request' \in [Requests -> Submission]
    BY DEF Submit, RestTypes, Submission
  <2>3. demoted' \subseteq Tasks
    BY <1>1 DEF Submit, RestTypes
  <2>4. QED
    BY <2>1, <2>2, <2>3 DEF Submit, RestTypes
<1>7. QED
  BY <1>4, <1>5, <1>6

\* So are the steps that start, stop and crash a worker, and its pulse.
LEMMA TypedProcess ==
  ASSUME Typed, NEW w \in Workers,
         Start(w) \/ RequestStop(w) \/ Exit(w) \/ Crash(w) \/ Pulse(w)
  PROVE  Typed'
<1> USE DEF Typed
<1>0. [t \in Tasks |-> NotLoaded] \in [Tasks -> Row]
  BY DEF NotLoaded, Row, Status
<1>1. CASE Start(w)
  BY <1>1 DEF Start, Goto, rows, outside, history, RowTypes, WorkerOK, WorkerTypes, HoldsTask,
              RestTypes, Steps, Free, Looking, Picking
<1>2. CASE RequestStop(w)
  BY <1>2, BoundsAssumption DEF RequestStop, rows, history, RowTypes, WorkerOK, WorkerTypes,
              HoldsTask, RestTypes
<1>3. CASE Exit(w)
  BY <1>3 DEF Exit, Goto, rows, outside, history, RowTypes, WorkerOK, WorkerTypes, HoldsTask,
              RestTypes, Steps, Free, Looking, Picking
<1>4. CASE Crash(w)
  <2>1. WorkerOK'
    BY <1>0, <1>4 DEF Crash, Forget, Goto, WorkerOK, WorkerTypes, HoldsTask, Steps, Free, Looking, Picking
  <2>2. RowTypes' /\ RestTypes'
    BY <1>4, QueueOrderType, BoundsAssumption DEF Crash, Forget, RowTypes, RestTypes
  <2>3. QED
    BY <2>1, <2>2
<1>5. CASE Pulse(w)
  BY <1>5 DEF Pulse, outside, history, RowTypes, WorkerOK, WorkerTypes, HoldsTask, RestTypes
<1>6. QED
  BY <1>1, <1>2, <1>3, <1>4, <1>5

\* Loading the stale rows is typed.
LEMMA TypedScan ==
  ASSUME Typed, NEW w \in Workers, Scan(w)
  PROVE  Typed'
<1> USE DEF Typed
<1>1. WorkerOK'
  <2>1. [t \in Tasks |-> IF t \in Stranded THEN RowOf(t) ELSE NotLoaded] \in [Tasks -> Row]
    BY DEF RowTypes, Row, RowOf, NotLoaded, Status
  <2>2. QED
    BY <2>1 DEF Scan, Goto, WorkerOK, WorkerTypes, HoldsTask, Steps, Free, Looking, Picking
<1>2. RowTypes'
  BY QueueOrderType DEF Scan, Stamp, RowTypes
<1>3. RestTypes'
  BY DEF Scan, outside, history, RestTypes
<1>4. QED
  BY <1>1, <1>2, <1>3

\* So are the three questions after the oldest task.
LEMMA TypedLook ==
  ASSUME Typed, NEW w \in Workers, LookAtImports(w) \/ LookAtJobs(w) \/ LookAtNoise(w)
  PROVE  Typed'
<1> USE DEF Typed
<1>1. WorkerOK'
  <2>1. /\ pc[w] \in Free /\ \E step \in Looking : Goto(w, step)
        /\ UNCHANGED <<owner, task, seen, superseded, stop>>
    BY DEF LookAtImports, LookAtJobs, LookAtNoise, Free, Looking, Picking
  <2>2. QED
    BY <2>1 DEF Goto, WorkerOK, WorkerTypes, HoldsTask, Steps, Free, Looking, Picking
<1>2. CASE LookAtImports(w)
  <2>1. older' \in [Workers -> SUBSET Tasks]
    BY <1>2 DEF LookAtImports, RowTypes, Oldest, Queued, Tasks
  <2>2. waiting' \in [Workers -> SUBSET Tasks]
    BY <1>2 DEF LookAtImports, RestTypes, Queued
  <2>3. QED
    BY <1>1, <1>2, <2>1, <2>2 DEF LookAtImports, outside, RowTypes, RestTypes
<1>3. CASE LookAtJobs(w) \/ LookAtNoise(w)
  BY <1>1, <1>3 DEF LookAtJobs, LookAtNoise, rows, outside, history, RowTypes, RestTypes
<1>4. QED
  BY <1>2, <1>3

\* Passing over a locked row uses up a fault.
LEMMA PassOverFaults ==
  ASSUME RestTypes, NEW w, NEW S, PassOver(w, S)
  PROVE  faults' \in 0..MaxFaults
BY BoundsAssumption DEF RestTypes, PassOver

\* Recovery and claim are typed.
LEMMA TypedClaim ==
  ASSUME Typed, NEW w \in Workers, ClaimTask(w) \/ ClaimNothing(w)
  PROVE  Typed'
<1> USE DEF Typed
<1>0. [t \in Tasks |-> NotLoaded] \in [Tasks -> Row]
  BY DEF NotLoaded, Row, Status
<1>1. CASE ClaimTask(w)
  <2>1. PICK t \in Wanted(w) :
          /\ PassOver(w, ahead[t] \cap Wanted(w))
          /\ status' = [Recovered(w) EXCEPT ![t] = "processing"]
          /\ attempts' = [attempts EXCEPT ![t] = ClaimCount(w, t)]
          /\ task' = [task EXCEPT ![w] = t]
          /\ stale' = (stale \ Loaded(w)) \ {t}
    BY <1>1 DEF ClaimTask
  <2>2. t \in Tasks
    BY WantedQueued
  <2>3. ClaimCount(w, t) \in Nat
    BY <2>2, ClaimCountType DEF WorkerOK
  <2>4. RowTypes'
    <3>1. status' \in [Tasks -> Status]
      BY <2>1, <2>2, RecoveredType DEF Status
    <3>2. ahead' \in [Tasks -> SUBSET Tasks] /\ older' \in [Workers -> SUBSET Tasks]
      BY <1>1, QueueOrderType DEF ClaimTask, Forget, RowTypes
    <3>3. QED
      BY <1>1, <2>1, <2>2, <2>3, <3>1, <3>2 DEF ClaimTask, RowTypes
  <2>5. WorkerOK'
    BY <1>0, <1>1, <2>1, <2>2, TasksAssumption
       DEF ClaimTask, Forget, Goto, WorkerOK, WorkerTypes, HoldsTask, Steps, Free, Looking, Picking
  <2>6. RestTypes'
    BY <1>1, <2>1, PassOverFaults DEF ClaimTask, Forget, RestTypes
  <2>7. QED
    BY <2>4, <2>5, <2>6
<1>2. CASE ClaimNothing(w)
  <2>1. RowTypes'
    BY <1>2, RecoveredType, QueueOrderType DEF ClaimNothing, Forget, RowTypes
  <2>2. WorkerOK'
    BY <1>0, <1>2
       DEF ClaimNothing, Forget, Goto, WorkerOK, WorkerTypes, HoldsTask, Steps, Free, Looking
  <2>3. RestTypes'
    <3>1. faults' \in 0..MaxFaults
      BY <1>2, PassOverFaults DEF ClaimNothing, RestTypes
    <3>2. QED
      BY <1>2, <3>1 DEF ClaimNothing, Forget, RestTypes
  <2>4. QED
    BY <2>1, <2>2, <2>3
<1>3. QED
  BY <1>1, <1>2

\* Publishing "busy" or handing the claim back is typed.
LEMMA TypedHandOver ==
  ASSUME Typed, NEW w \in Workers, SetBusy(w) \/ ReturnClaimed(w) \/ ReturnBusy(w)
  PROVE  Typed'
<1> USE DEF Typed
<1>1. CASE SetBusy(w)
  BY <1>1 DEF SetBusy, Goto, outside, history, RowTypes, WorkerOK, WorkerTypes, HoldsTask,
              RestTypes, Steps, Free, Looking, Picking
<1>2. CASE ReturnClaimed(w)
  <2>1. RowTypes'
    BY <1>2, HeldIsTask, GiveBackType DEF ReturnClaimed, Free, Looking, Picking
  <2>2. WorkerOK'
    BY <1>2 DEF ReturnClaimed, Goto, WorkerOK, WorkerTypes, HoldsTask, Steps, Free, Looking, Picking
  <2>3. RestTypes'
    BY <1>2, BoundsAssumption DEF ReturnClaimed, history, RestTypes
  <2>4. QED
    BY <2>1, <2>2, <2>3
<1>3. CASE ReturnBusy(w)
  <2>1. RowTypes'
    BY <1>3, HeldIsTask, GiveBackType DEF ReturnBusy, Free, Looking, Picking
  <2>2. WorkerOK'
    BY <1>3, EndTurnOK DEF ReturnBusy
  <2>3. RestTypes'
    BY <1>3 DEF ReturnBusy, outside, history, RestTypes
  <2>4. QED
    BY <2>1, <2>2, <2>3
<1>4. QED
  BY <1>1, <1>2, <1>3

\* Starting the work and reporting on it is typed.
LEMMA TypedRun ==
  ASSUME Typed, NEW w \in Workers,
         BeginJob(w) \/ BeginImport(w) \/ ReportJob(w) \/ ReportImport(w) \/ WorkFails(w)
  PROVE  Typed'
<1> USE DEF Typed
<1>0. pc[w] \notin Free /\ task[w] \in Tasks
  BY HeldIsTask DEF BeginJob, BeginImport, ReportJob, ReportImport, WorkFails,
                    Free, Looking, Picking
<1>1. RestTypes'
  BY DEF BeginJob, BeginImport, ReportJob, ReportImport, WorkFails, outside, history, RestTypes
<1>2. CASE BeginJob(w)
  <2>1. RowTypes'
    <3>1. "cancelled" \in Status
      BY DEF Status
    <3>2. QED
      BY <1>0, <1>2, <3>1, SetStatusType DEF BeginJob, rows, RowTypes
  <2>2. WorkerOK'
    BY <1>0, <1>2, EndTurnOK, GoOnOK DEF BeginJob, Steps, Free, Looking, Picking
  <2>3. QED
    BY <1>1, <2>1, <2>2
<1>3. CASE BeginImport(w)
  <2>1. WorkerOK'
    BY <1>0, <1>3, GoOnOK DEF BeginImport, Steps, Free, Looking, Picking
  <2>2. QED
    BY <1>1, <1>3, <2>1 DEF BeginImport, rows, RowTypes
<1>4. CASE ReportJob(w)
  <2>1. WorkerOK'
    BY <1>0, <1>4, GoOnOK DEF ReportJob, Steps, Free, Looking, Picking
  <2>2. QED
    BY <1>1, <1>4, <2>1 DEF ReportJob, RowTypes
<1>5. CASE ReportImport(w)
  BY <1>1, <1>5 DEF ReportImport, worker, RowTypes, WorkerOK, WorkerTypes, HoldsTask
<1>6. CASE WorkFails(w)
  <2>1. WorkerOK'
    BY <1>0, <1>6, GoOnOK DEF WorkFails, Steps, Free, Looking, Picking
  <2>2. QED
    BY <1>1, <1>6, <2>1 DEF WorkFails, rows, RowTypes
<1>7. QED
  BY <1>2, <1>3, <1>4, <1>5, <1>6

\* Ending the work, publishing it and handling what it raised is typed.
LEMMA TypedEnd ==
  ASSUME Typed, NEW w \in Workers,
         \/ EndChunk(w) \/ CommitJob(w) \/ CommitImport(w) \/ AfterCommit(w)
         \/ HandleCancelled(w) \/ HandleError(w) \/ HandlerWrites(w)
  PROVE  Typed'
<1> USE DEF Typed
<1>0. pc[w] \notin Free /\ task[w] \in Tasks
  BY HeldIsTask DEF EndChunk, CommitJob, CommitImport, AfterCommit, HandleCancelled,
                    HandleError, HandlerWrites, Free, Looking, Picking
<1>s. {"cancelled", "committed", "failed"} \subseteq Status
  BY DEF Status
<1>1. CASE EndChunk(w)
  <2>1. RowTypes'
    <3>1. CASE status[task[w]] = "processing"
      <4>1. cursor' \in [Jobs -> Nat]
        BY <1>1, <3>1 DEF EndChunk, RowTypes
      <4>2. Requeue(task[w], 0)
        BY <1>1, <3>1 DEF EndChunk
      <4>3. QED
        BY <1>0, <4>1, <4>2, RequeueType
    <3>2. CASE status[task[w]] # "processing"
      <4>1. SetStatus(task[w], "cancelled") \/ UNCHANGED rows
        BY <1>1, <3>2 DEF EndChunk
      <4>2. QED
        BY <1>0, <1>s, <4>1, SetStatusType DEF rows, RowTypes
    <3>3. QED
      BY <3>1, <3>2
  <2>2. WorkerOK'
    BY <1>0, <1>1, EndTurnOK, GoOnOK DEF EndChunk, Steps, Free, Looking, Picking
  <2>3. QED
    BY <1>1, <2>1, <2>2 DEF EndChunk, outside, history, RestTypes
<1>2. CASE CommitJob(w)
  <2>1. RowTypes'
    BY <1>0, <1>2, <1>s, SetStatusType DEF CommitJob, rows, RowTypes
  <2>2. WorkerOK'
    BY <1>0, <1>2, GoOnOK DEF CommitJob, Steps, Free, Looking, Picking
  <2>3. QED
    BY <1>2, <2>1, <2>2 DEF CommitJob, outside, RestTypes
<1>3. CASE CommitImport(w)
  <2>1. RowTypes'
    BY <1>0, <1>3, <1>s, SetStatusType DEF CommitImport
  <2>2. WorkerOK'
    BY <1>0, <1>3, GoOnOK DEF CommitImport, Steps, Free, Looking, Picking
  <2>3. QED
    BY <1>0, <1>3, <2>1, <2>2 DEF CommitImport, outside, RestTypes
<1>4. CASE AfterCommit(w)
  <2>1. WorkerOK'
    BY <1>0, <1>4, EndTurnOK, GoOnOK DEF AfterCommit, Steps, Free, Looking, Picking
  <2>2. QED
    BY <1>4, <2>1 DEF AfterCommit, rows, outside, history, RowTypes, RestTypes
<1>5. CASE HandleCancelled(w)
  <2>1. WorkerOK'
    BY <1>0, <1>5, EndTurnOK, GoOnOK DEF HandleCancelled, Steps, Free, Looking, Picking
  <2>2. QED
    BY <1>5, <2>1 DEF HandleCancelled, rows, outside, history, RowTypes, RestTypes
<1>6. CASE HandleError(w)
  <2>1. WorkerOK'
    BY <1>0, <1>6, EndTurnOK, GoOnOK DEF HandleError, Steps, Free, Looking, Picking
  <2>2. QED
    BY <1>6, <2>1 DEF HandleError, rows, outside, history, RowTypes, RestTypes
<1>7. CASE HandlerWrites(w)
  <2>1. RowTypes'
    BY <1>0, <1>7, <1>s, SetStatusType DEF HandlerWrites
  <2>2. WorkerOK'
    BY <1>7, EndTurnOK DEF HandlerWrites
  <2>3. RestTypes'
    BY <1>0, <1>7 DEF HandlerWrites, outside, RestTypes
  <2>4. QED
    BY <2>1, <2>2, <2>3
<1>8. QED
  BY <1>1, <1>2, <1>3, <1>4, <1>5, <1>6, <1>7

\* Every step is one of those.
LEMMA StepCases ==
  ASSUME Next
  PROVE  \/ \E t \in Tasks :
              Admit(t) \/ Cancel(t) \/ Retry(t) \/ Age(t) \/ \E r \in Requests : Open(r, t)
         \/ \E r \in Requests : Submit(r)
         \/ \E w \in Workers :
              \/ Start(w) \/ RequestStop(w) \/ Exit(w) \/ Crash(w) \/ Pulse(w)
              \/ Scan(w) \/ LookAtImports(w) \/ LookAtJobs(w) \/ LookAtNoise(w)
              \/ ClaimTask(w) \/ ClaimNothing(w)
              \/ SetBusy(w) \/ ReturnClaimed(w) \/ ReturnBusy(w)
              \/ BeginJob(w) \/ BeginImport(w) \/ ReportJob(w) \/ ReportImport(w)
              \/ WorkFails(w) \/ EndChunk(w) \/ CommitJob(w) \/ CommitImport(w)
              \/ AfterCommit(w) \/ HandleCancelled(w) \/ HandleError(w) \/ HandlerWrites(w)
BY DEF Next, Users, Advance

LEMMA TypedNext == Typed /\ [Next]_vars => Typed'
<1> SUFFICES ASSUME Typed, [Next]_vars PROVE Typed'
  OBVIOUS
<1>1. CASE Next
  BY <1>1, StepCases, TypedUsers, TypedSubmit, TypedProcess, TypedScan, TypedLook, TypedClaim,
     TypedHandOver, TypedRun, TypedEnd
<1>2. CASE UNCHANGED vars
  BY <1>2 DEF vars, rows, worker, outside, history, Typed, RowTypes, WorkerOK, WorkerTypes,
              HoldsTask, RestTypes
<1>3. QED
  BY <1>1, <1>2

\* The columns and the worker variables keep their types, and a worker holds
\* a task exactly from its claim to the end of the turn, however many
\* processes run.
THEOREM TypeCorrect == Spec => [](TypeOK /\ HoldsTask)
<1>1. Typed => TypeOK /\ HoldsTask
  BY TypeParts DEF Typed, WorkerOK
<1>2. QED
  BY <1>1, TypedInit, TypedNext, PTL DEF Spec
-----------------------------------------------------------------------------
(* The safety of the queue with one worker. *)

Safe == StaleAreActive /\ ScanStillTrue /\ HeldRow /\ ImportsRun /\ AttemptsLeft /\ CommitsMatch

LEMMA InductiveParts == Inductive <=> Typed /\ Safe
BY TypeParts DEF Inductive, Typed, WorkerOK, Safe

\* A task has at least MaxAttempts attempts.
LEMMA AllowanceType ==
  ASSUME RestTypes, NEW t \in Tasks
  PROVE  /\ MaxAttempts \in Nat /\ MaxAttempts > 0
         /\ Allowance(t) \in Nat /\ Allowance(t) >= MaxAttempts
BY BoundsAssumption DEF RestTypes, Allowance

\* The allowance changes only with resent.
LEMMA AllowanceKept ==
  ASSUME resent' = resent
  PROVE  \A t \in Tasks : Allowance(t)' = Allowance(t)
BY DEF Allowance

LEMMA SafeInit == Init => Safe
<1> SUFFICES ASSUME Init PROVE Safe
  OBVIOUS
<1>1. StaleAreActive /\ ScanStillTrue /\ HeldRow /\ ImportsRun
  BY DEF Init, StaleAreActive, ScanStillTrue, HeldRow, ImportsRun, Loaded, Tasks
<1>2. AttemptsLeft
  <2>1. RestTypes
    BY TypedInit DEF Typed
  <2>2. QED
    BY <2>1, AllowanceType DEF Init, AttemptsLeft
<1>3. CommitsMatch
  BY DEF Init, CommitsMatch, Tasks
<1>4. QED
  BY <1>1, <1>2, <1>3 DEF Safe

\* What SetStatus does to the rows, column by column.
LEMMA SetStatusEffect ==
  ASSUME RowTypes, NEW t \in Tasks, NEW s, SetStatus(t, s)
  PROVE  /\ \A u \in Tasks : status'[u] = IF u = t THEN s ELSE status[u]
         /\ attempts' = attempts
         /\ stale' = stale \ {t}
BY DEF RowTypes, SetStatus

\* And Requeue.
LEMMA RequeueEffect ==
  ASSUME RowTypes, NEW t \in Tasks, NEW n, Requeue(t, n)
  PROVE  /\ \A u \in Tasks : status'[u] = IF u = t THEN "queued" ELSE status[u]
         /\ \A u \in Tasks : attempts'[u] = IF u = t THEN n ELSE attempts[u]
         /\ stale' = stale \ {t}
BY DEF RowTypes, Requeue

\* A user or the clock cannot break it.
LEMMA SafeUsers ==
  ASSUME Typed, Safe, NEW t \in Tasks,
         Admit(t) \/ Cancel(t) \/ Retry(t) \/ Age(t) \/ \E r \in Requests : Open(r, t)
  PROVE  Safe'
<1> USE DEF Typed, Safe
<1>0. \A u \in Tasks : Allowance(u)' = Allowance(u)
  BY AllowanceKept DEF Admit, Cancel, Retry, Age, Open, outside
<1>1. CASE Admit(t) \/ Retry(t)
  <2>1. /\ t \in Jobs /\ t \notin Imports
        /\ status[t] \in {"absent", "failed"}
        /\ Requeue(t, 0)
        /\ UNCHANGED <<worker, commits, demoted>>
    BY <1>1, TasksAssumption DEF Admit, Retry, history
  <2>2. /\ \A u \in Tasks : status'[u] = IF u = t THEN "queued" ELSE status[u]
        /\ \A u \in Tasks : attempts'[u] = IF u = t THEN 0 ELSE attempts[u]
        /\ stale' = stale \ {t}
    BY <2>1, RequeueEffect
  <2>3. StaleAreActive'
    BY <2>1, <2>2 DEF StaleAreActive, RowTypes, Active
  <2>4. ScanStillTrue'
    BY <2>1, <2>2 DEF ScanStillTrue, worker, Loaded, Active
  <2>5. HeldRow' /\ ImportsRun'
    BY <2>1, <2>2 DEF HeldRow, ImportsRun, worker, Active, Tasks
  <2>6. AttemptsLeft'
    BY <1>0, <2>2, AllowanceType DEF AttemptsLeft
  <2>7. CommitsMatch'
    BY <2>1, <2>2 DEF CommitsMatch, worker
  <2>8. QED
    BY <2>3, <2>4, <2>5, <2>6, <2>7
<1>2. CASE Cancel(t)
  <2>1. PICK s \in {"cancelled", "cancelling"} :
          /\ SetStatus(t, s)
          /\ s = "cancelled" => status[t] = "queued"
          /\ s = "cancelling" => status[t] = "processing"
          /\ t \in Jobs /\ t \notin Imports
          /\ UNCHANGED <<worker, commits, demoted>>
    BY <1>2, TasksAssumption DEF Cancel
  <2>2. /\ \A u \in Tasks : status'[u] = IF u = t THEN s ELSE status[u]
        /\ attempts' = attempts
        /\ stale' = stale \ {t}
    BY <2>1, SetStatusEffect
  <2>3. StaleAreActive'
    BY <2>1, <2>2 DEF StaleAreActive, RowTypes, Active
  <2>4. ScanStillTrue'
    BY <2>1, <2>2 DEF ScanStillTrue, worker, Loaded, Active
  <2>5. HeldRow' /\ ImportsRun'
    BY <2>1, <2>2 DEF HeldRow, ImportsRun, worker, Active, Tasks
  <2>6. AttemptsLeft'
    BY <1>0, <2>1, <2>2 DEF AttemptsLeft
  <2>7. CommitsMatch'
    BY <2>1, <2>2 DEF CommitsMatch, worker
  <2>8. QED
    BY <2>3, <2>4, <2>5, <2>6, <2>7
<1>3. CASE Age(t) \/ \E r \in Requests : Open(r, t)
  BY <1>0, <1>3 DEF Age, Open, rows, worker, history, StaleAreActive, ScanStillTrue, HeldRow,
     ImportsRun, AttemptsLeft, CommitsMatch, Loaded
<1>4. QED
  BY <1>1, <1>2, <1>3

\* Nor can a request that submits an import, however late it comes.
LEMMA SafeSubmit ==
  ASSUME Typed, Safe, NEW r \in Requests, Submit(r)
  PROVE  Safe'
<1> USE DEF Typed, Safe
<1>0. PICK t \in Imports : t = request[r].on
  BY PendingIsImport DEF Submit
<1> DEFINE again == request[r].kind = "commit" /\ status[t] # "absent"
           n == IF request[r].kind = "retry" THEN 0 ELSE attempts[t]
<1>1. t \in Tasks /\ t \in Imports /\ t \notin Jobs /\ request[r].kind \in {"commit", "retry"}
  BY <1>0, PendingIsImport, TasksAssumption DEF Submit
<1>2. Requeue(t, n) /\ UNCHANGED <<worker, commits>>
  BY <1>0 DEF Submit
<1>3. /\ \A u \in Tasks : status'[u] = IF u = t THEN "queued" ELSE status[u]
      /\ \A u \in Tasks : attempts'[u] = IF u = t THEN n ELSE attempts[u]
      /\ stale' = stale \ {t}
  <2> HIDE DEF n
  <2> QED
    BY <1>1, <1>2, RequeueEffect
<1>4. demoted' = IF status[t] = "committed" THEN demoted \cup {t} ELSE demoted
  BY <1>0 DEF Submit
<1>5. StaleAreActive'
  BY <1>3 DEF StaleAreActive, RowTypes
<1>6. ScanStillTrue'
  <2>1. \A u \in Tasks : attempts'[u] <= attempts[u] /\ attempts[u] \in Nat /\ attempts'[u] \in Nat
    BY <1>1, <1>3 DEF RowTypes
  <2>2. ASSUME NEW w \in Workers, NEW u \in Tasks, u \in Loaded(w)
        PROVE  /\ status'[u] \in (IF u \in Jobs THEN Active ELSE {"processing", "queued"})
               /\ seen[w][u].status = "cancelling" => status'[u] = "cancelling"
               /\ attempts'[u] <= seen[w][u].attempts
    <3>1. seen[w][u].attempts \in Nat
      BY DEF WorkerOK, WorkerTypes, Row
    <3>2. attempts[u] <= seen[w][u].attempts
      BY <2>2 DEF ScanStillTrue
    <3>3. attempts'[u] <= seen[w][u].attempts
      <4> HIDE DEF n
      <4> QED
        BY <2>1, <3>1, <3>2
    <3>4. QED
      BY <1>1, <1>3, <2>2, <3>3 DEF ScanStillTrue
  <2>3. QED
    BY <1>2, <2>2 DEF ScanStillTrue, worker, Loaded
<1>7. HeldRow' /\ ImportsRun'
  BY <1>1, <1>2, <1>3 DEF HeldRow, ImportsRun, worker, Tasks
<1>8. AttemptsLeft'
  <2>1. \A u \in Tasks : u # t => Allowance(u)' = Allowance(u)
    BY <1>0, <1>1 DEF Submit, Allowance, RestTypes
  <2>0. /\ attempts[t] <= Allowance(t)
        /\ status[t] \in {"absent", "queued"} => attempts[t] < Allowance(t)
    BY <1>1 DEF AttemptsLeft
  <2>2. n < Allowance(t)'
    <3>1. CASE request[r].kind = "retry"
      BY <1>0, <1>1, <3>1, BoundsAssumption DEF Submit, Allowance, RestTypes
    <3>2. CASE again
      <4>1. resent'[t] = resent[t] + 1 /\ n = attempts[t]
        BY <1>0, <1>1, <3>2 DEF Submit, RestTypes
      <4>2. attempts[t] <= MaxAttempts + resent[t]
        BY <1>1, <2>0, BoundsAssumption DEF Allowance, RestTypes, RowTypes
      <4>3. QED
        BY <1>1, <4>1, <4>2, BoundsAssumption DEF Allowance, RestTypes, RowTypes
    <3>3. CASE request[r].kind # "retry" /\ ~again
      <4>1. status[t] = "absent" /\ resent' = resent /\ n = attempts[t]
        BY <1>0, <1>1, <3>3 DEF Submit
      <4>2. n < MaxAttempts + resent[t]
        BY <1>1, <2>0, <4>1, BoundsAssumption DEF Allowance, RestTypes, RowTypes
      <4>3. QED
        BY <1>1, <4>1, <4>2 DEF Allowance
    <3>4. QED
      BY <3>1, <3>2, <3>3
  <2>3. n \in Nat /\ Allowance(t)' \in Nat
    BY <1>0, <1>1, TypedSubmit, BoundsAssumption DEF RowTypes, Allowance, RestTypes
  <2>4. ASSUME NEW u \in Tasks
        PROVE  /\ attempts'[u] <= Allowance(u)'
               /\ status'[u] \in {"absent", "queued"} => attempts'[u] < Allowance(u)'
    <3> HIDE DEF n
    <3>1. CASE u = t
      <4>1. attempts'[u] = n /\ Allowance(u)' = Allowance(t)'
        BY <1>3, <3>1
      <4>2. QED
        BY <2>2, <2>3, <4>1
    <3>2. CASE u # t
      BY <1>3, <2>1, <3>2 DEF AttemptsLeft
    <3>3. QED
      BY <3>1, <3>2
  <2>5. QED
    BY <2>4 DEF AttemptsLeft
<1>9. CommitsMatch'
  BY <1>1, <1>2, <1>3, <1>4 DEF CommitsMatch, worker
<1>10. QED
  BY <1>5, <1>6, <1>7, <1>8, <1>9

\* Processes start, stop, crash and pulse without touching what it says.
LEMMA SafeProcess ==
  ASSUME Typed, Safe, NEW w \in Workers,
         Start(w) \/ RequestStop(w) \/ Exit(w) \/ Crash(w) \/ Pulse(w)
  PROVE  Safe'
<1> USE DEF Typed, Safe, WorkerOK, WorkerTypes
<1>1. /\ status' = status /\ attempts' = attempts /\ stale' \subseteq stale
      /\ commits' = commits /\ demoted' = demoted /\ resent' = resent
  BY DEF Start, RequestStop, Exit, Crash, Forget, Pulse, rows, outside, history
<1>2. StaleAreActive' /\ AttemptsLeft'
  BY <1>1, AllowanceKept DEF StaleAreActive, AttemptsLeft
<1>3. \A v \in Workers : \/ pc'[v] = pc[v] /\ task'[v] = task[v] /\ seen'[v] = seen[v]
                         \/ /\ pc'[v] \in {"down", "idle"}
                            /\ \A t \in Tasks : seen'[v][t] = NotLoaded
  <2>1. CASE Start(w) \/ Exit(w)
    BY <2>1 DEF Start, Exit, Goto, ScanStillTrue, Loaded, Looking, Picking
  <2>2. CASE RequestStop(w) \/ Pulse(w)
    BY <2>2 DEF RequestStop, Pulse
  <2>3. CASE Crash(w)
    BY <2>3 DEF Crash, Forget, Goto
  <2>4. QED
    BY <2>1, <2>2, <2>3
<1>4. ScanStillTrue'
  BY <1>1, <1>3 DEF ScanStillTrue, Loaded
<1>5. HeldRow' /\ ImportsRun'
  BY <1>1, <1>3 DEF HeldRow, ImportsRun
<1>6. CommitsMatch'
  BY <1>1, <1>3 DEF CommitsMatch
<1>7. QED
  BY <1>2, <1>4, <1>5, <1>6

\* The allowances do not change, and every number is one.
LEMMA Countable ==
  ASSUME Typed, resent' = resent
  PROVE  /\ \A u \in Tasks : /\ Allowance(u)' = Allowance(u)
                            /\ Allowance(u) \in Nat /\ Allowance(u) >= MaxAttempts
                            /\ attempts[u] \in Nat
         /\ MaxAttempts \in Nat
BY AllowanceKept, AllowanceType, BoundsAssumption DEF Typed, RowTypes

\* What a scan has just loaded is true.
LEMMA SafeScan ==
  ASSUME OneWorker, Typed, Safe, NEW w \in Workers, Scan(w)
  PROVE  Safe'
<1> USE DEF Typed, Safe
<1>0. Workers = {w}
  BY DEF OneWorker
<1>a. \A u \in Tasks : Allowance(u)' = Allowance(u) /\ attempts[u] \in Nat
  BY Countable DEF Scan, outside
<1>1. \A t \in Tasks : seen'[w][t] = IF t \in Stranded THEN RowOf(t) ELSE NotLoaded
  BY DEF Scan, WorkerOK, WorkerTypes
<1>2. pc'[w] = "scanned" /\ UNCHANGED <<status, attempts, stale, history, task>>
  BY DEF Scan, Goto, WorkerOK, WorkerTypes
<1>3. ScanStillTrue'
  <2>1. ASSUME NEW t \in Tasks, seen'[w][t] # NotLoaded
        PROVE  /\ status'[t] \in (IF t \in Jobs THEN Active ELSE {"processing"})
               /\ seen'[w][t].status = status'[t]
               /\ seen'[w][t].attempts = attempts'[t]
    <3>1. t \in Stranded /\ seen'[w][t] = RowOf(t)
      BY <1>1, <2>1
    <3>2. status[t] \in (IF t \in Jobs THEN Active ELSE {"processing"})
      BY <3>1, TasksAssumption DEF Stranded, Active
    <3>3. QED
      BY <1>2, <3>1, <3>2 DEF RowOf
  <2>2. \A t \in Tasks : attempts'[t] <= attempts'[t]
    BY <1>a, <1>2
  <2>3. QED
    BY <1>0, <1>2, <2>1, <2>2 DEF ScanStillTrue, Loaded
<1>4. QED
  BY <1>0, <1>a, <1>2, <1>3
     DEF StaleAreActive, HeldRow, ImportsRun, AttemptsLeft, CommitsMatch, history

\* Looking for the oldest task only reads.
LEMMA SafeLook ==
  ASSUME Typed, Safe, NEW w \in Workers,
         LookAtImports(w) \/ LookAtJobs(w) \/ LookAtNoise(w)
  PROVE  Safe'
<1> USE DEF Typed, Safe
<1>1. /\ UNCHANGED <<status, attempts, stale, task, seen, outside, commits, demoted>>
      /\ pc[w] \in {"scanned"} \cup Looking /\ \E step \in Looking : Goto(w, step)
  BY DEF LookAtImports, LookAtJobs, LookAtNoise, rows, history, Looking, Picking
<1>2. \A v \in Workers : pc'[v] = pc[v] \/ pc'[v] \in Looking
  BY <1>1 DEF Goto, WorkerOK, WorkerTypes
<1>3. StaleAreActive' /\ AttemptsLeft'
  BY <1>1, AllowanceKept DEF StaleAreActive, AttemptsLeft, outside
<1>4. ScanStillTrue'
  BY <1>1, <1>2 DEF ScanStillTrue, Loaded
<1>5. HeldRow' /\ ImportsRun'
  BY <1>1, <1>2 DEF HeldRow, ImportsRun, Looking, Picking
<1>6. CommitsMatch'
  BY <1>1, <1>2 DEF CommitsMatch, Looking, Picking
<1>7. QED
  BY <1>3, <1>4, <1>5, <1>6

\* Recovery and claim: what was loaded is still true, so the write-back
\* revives only rows that are active and have an attempt left.
LEMMA SafeClaim ==
  ASSUME OneWorker, Typed, Safe, NEW w \in Workers, ClaimTask(w) \/ ClaimNothing(w)
  PROVE  Safe'
<1> USE DEF Typed, Safe
<1>0. Workers = {w}
  BY DEF OneWorker
<1>a. /\ \A u \in Tasks : /\ Allowance(u)' = Allowance(u)
                          /\ Allowance(u) \in Nat /\ Allowance(u) >= MaxAttempts
                          /\ attempts[u] \in Nat
      /\ MaxAttempts \in Nat
  BY Countable DEF ClaimTask, ClaimNothing
<1>2. ASSUME NEW t \in Tasks, t \in Loaded(w)
      PROVE  /\ status[t] # "committed"
             /\ Recovered(w)[t] \in {"cancelled", "failed", "queued"}
             /\ Recovered(w)[t] = "cancelled" => t \in Jobs
             /\ Recovered(w)[t] = "queued" => seen[w][t].attempts < MaxAttempts
             /\ seen[w][t].attempts \in Nat /\ attempts[t] <= seen[w][t].attempts
  <2>1. /\ status[t] \in (IF t \in Jobs THEN Active ELSE {"processing", "queued"})
        /\ seen[w][t].status \in (IF t \in Jobs THEN Active ELSE {"processing"})
        /\ attempts[t] <= seen[w][t].attempts
    BY <1>2 DEF ScanStillTrue
  <2>2. seen[w][t] \in Row
    BY DEF WorkerOK, WorkerTypes
  <2>3. Recovered(w)[t] = Verdict(seen[w][t])
    BY <1>2 DEF Recovered, Found
  <2>4. QED
    BY <1>a, <2>1, <2>2, <2>3 DEF Row, Verdict, Active
<1>3. \A t \in Tasks : t \notin Loaded(w) => Recovered(w)[t] = status[t]
  BY DEF Recovered, Found
<1>4. CASE ClaimNothing(w)
  <2>1. /\ status' = Recovered(w) /\ attempts' = attempts /\ stale' = stale \ Loaded(w)
        /\ pc'[w] = "idle" /\ UNCHANGED <<commits, demoted>>
        /\ \A t \in Tasks : seen'[w][t] = NotLoaded
    BY <1>4 DEF ClaimNothing, Forget, Goto, WorkerOK, WorkerTypes
  <2>2. StaleAreActive'
    BY <1>3, <2>1 DEF StaleAreActive, RowTypes
  <2>3. ScanStillTrue' /\ HeldRow'
    BY <1>0, <2>1 DEF ScanStillTrue, HeldRow, Loaded
  <2>4. ImportsRun'
    BY <1>0, <1>2, <1>3, <2>1, TasksAssumption DEF ImportsRun, Tasks
  <2>5. AttemptsLeft'
    <3>1. ASSUME NEW u \in Tasks
          PROVE  /\ attempts'[u] <= Allowance(u)'
                 /\ status'[u] \in {"absent", "queued"} => attempts'[u] < Allowance(u)'
      <4>1. CASE u \in Loaded(w)
        BY <1>a, <1>2, <2>1, <4>1 DEF AttemptsLeft
      <4>2. CASE u \notin Loaded(w)
        BY <1>a, <1>3, <2>1, <4>2 DEF AttemptsLeft
      <4>3. QED
        BY <4>1, <4>2
    <3>2. QED
      BY <3>1 DEF AttemptsLeft
  <2>6. CommitsMatch'
    BY <1>0, <1>2, <1>3, <2>1 DEF CommitsMatch
  <2>7. QED
    BY <2>2, <2>3, <2>4, <2>5, <2>6
<1>5. CASE ClaimTask(w)
  <2>1. PICK t \in Wanted(w) :
          /\ status' = [Recovered(w) EXCEPT ![t] = "processing"]
          /\ attempts' = [attempts EXCEPT ![t] = ClaimCount(w, t)]
          /\ task' = [task EXCEPT ![w] = t]
          /\ stale' = (stale \ Loaded(w)) \ {t}
    BY <1>5 DEF ClaimTask
  <2>2. t \in Tasks /\ Recovered(w)[t] = "queued"
    BY WantedQueued DEF Recovered
  <2>3. /\ \A u \in Tasks : status'[u] = IF u = t THEN "processing" ELSE Recovered(w)[u]
        /\ \A u \in Tasks : attempts'[u] = IF u = t THEN ClaimCount(w, t) ELSE attempts[u]
        /\ task'[w] = t
    BY <2>1, <2>2, RecoveredType DEF RowTypes, WorkerOK, WorkerTypes
  <2>4. /\ pc'[w] = "claimed" /\ UNCHANGED <<commits, demoted>>
        /\ \A u \in Tasks : seen'[w][u] = NotLoaded
    BY <1>5 DEF ClaimTask, Forget, Goto, WorkerOK, WorkerTypes
  <2>5. ClaimCount(w, t) <= Allowance(t)
    <3>1. CASE t \in Loaded(w)
      BY <1>a, <1>2, <2>2, <3>1 DEF ClaimCount
    <3>2. CASE t \notin Loaded(w)
      BY <1>a, <1>3, <2>2, <3>2 DEF AttemptsLeft, ClaimCount
    <3>3. QED
      BY <3>1, <3>2
  <2>6. StaleAreActive'
    BY <1>3, <2>1, <2>3 DEF StaleAreActive, RowTypes
  <2>7. ScanStillTrue' /\ HeldRow'
    BY <1>0, <2>3, <2>4, <2>2 DEF ScanStillTrue, HeldRow, Loaded, Active
  <2>8. ImportsRun'
    BY <1>0, <1>2, <1>3, <2>3, <2>4, TasksAssumption DEF ImportsRun, Tasks
  <2>9. AttemptsLeft'
    <3>1. ASSUME NEW u \in Tasks
          PROVE  /\ attempts'[u] <= Allowance(u)'
                 /\ status'[u] \in {"absent", "queued"} => attempts'[u] < Allowance(u)'
      <4>1. CASE u = t
        BY <1>a, <2>3, <2>5, <4>1
      <4>2. CASE u # t /\ u \in Loaded(w)
        BY <1>a, <1>2, <2>3, <4>2 DEF AttemptsLeft
      <4>3. CASE u # t /\ u \notin Loaded(w)
        BY <1>a, <1>3, <2>3, <4>3 DEF AttemptsLeft
      <4>4. QED
        BY <4>1, <4>2, <4>3
    <3>2. QED
      BY <3>1 DEF AttemptsLeft
  <2>10. CommitsMatch'
    BY <1>0, <1>2, <1>3, <2>2, <2>3, <2>4 DEF CommitsMatch
  <2>11. QED
    BY <2>6, <2>7, <2>8, <2>9, <2>10
<1>6. QED
  BY <1>4, <1>5

-----------------------------------------------------------------------------
(* The turn of a task, in four kinds of steps. *)

\* What must be true of the row and the history for the worker to be at step.
Fits(w, step) ==
  LET t == task[w] IN
  /\ t \in Jobs =>
       /\ step \in {"claimed", "busy", "running", "cancel_raised", "write_cancelled"}
            => status[t] \in Active
       /\ step = "published" => status[t] = "committed"
       /\ step \in {"error_raised", "write_failed"}
            => status[t] \in Active \cup {"committed"}
  /\ step \in {"cancel_raised", "write_cancelled"} => t \in Jobs
  /\ step = "running" /\ t \in Imports => commits[t] = 0

\* The invariant says that the worker is where it fits.
LEMMA FitsNow ==
  ASSUME Safe, NEW w \in Workers
  PROVE  Fits(w, pc[w])
BY DEF Safe, HeldRow, ImportsRun, CommitsMatch, Fits

\* The worker w is in the middle of a turn.
InTurn(w) == pc[w] \notin Free /\ seen' = seen /\ resent' = resent

\* While its worker holds a task, no scan is pending.
LEMMA NoScanPending ==
  ASSUME OneWorker, Safe, NEW w \in Workers, InTurn(w)
  PROVE  ScanStillTrue'
<1>1. Workers = {w}
  BY DEF OneWorker
<1>2. \A t \in Tasks : seen[w][t] = NotLoaded
  BY DEF Safe, ScanStillTrue, Loaded, InTurn, Free
<1>3. QED
  BY <1>1, <1>2 DEF ScanStillTrue, Loaded, InTurn

\* A step that writes no status: the turn ends or goes on where it fits.
LEMMA QuietStep ==
  ASSUME OneWorker, Typed, Safe, NEW w \in Workers, InTurn(w),
         status' = status, attempts' = attempts, stale' \subseteq stale,
         commits' = commits, demoted' = demoted,
         \/ pc'[w] = "idle"
         \/ task' = task /\ Fits(w, pc'[w])
  PROVE  Safe'
<1>1. Workers = {w}
  BY DEF OneWorker
<1>2. StaleAreActive' /\ AttemptsLeft'
  BY AllowanceKept DEF Safe, StaleAreActive, AttemptsLeft, InTurn
<1>3. HeldRow' /\ ImportsRun' /\ CommitsMatch'
  BY <1>1 DEF Safe, HeldRow, ImportsRun, CommitsMatch, Fits
<1>4. QED
  BY <1>2, <1>3, NoScanPending DEF Safe

\* A step that puts the task back into the queue.
LEMMA RequeueStep ==
  ASSUME OneWorker, Typed, Safe, NEW w \in Workers, InTurn(w), task[w] \in Tasks,
         NEW n \in Nat, n < Allowance(task[w]), Requeue(task[w], n),
         status[task[w]] = "processing", pc'[w] = "idle",
         commits' = commits, demoted' = demoted
  PROVE  Safe'
<1> DEFINE t == task[w]
<1>1. Workers = {w}
  BY DEF OneWorker
<1>2. /\ \A u \in Tasks : status'[u] = IF u = t THEN "queued" ELSE status[u]
      /\ \A u \in Tasks : attempts'[u] = IF u = t THEN n ELSE attempts[u]
      /\ stale' = stale \ {t}
  BY RequeueEffect DEF Typed
<1>3. AttemptsLeft'
  BY <1>2, AllowanceKept, AllowanceType DEF Typed, Safe, AttemptsLeft, InTurn
<1>4. StaleAreActive'
  BY <1>2 DEF Typed, RowTypes, Safe, StaleAreActive
<1>5. HeldRow' /\ ImportsRun' /\ CommitsMatch'
  BY <1>1, <1>2 DEF Safe, HeldRow, ImportsRun, CommitsMatch, Tasks
<1>6. QED
  BY <1>3, <1>4, <1>5, NoScanPending DEF Safe

\* A step that settles the task as cancelled or failed.
LEMMA SettleStep ==
  ASSUME OneWorker, Typed, Safe, NEW w \in Workers, InTurn(w), task[w] \in Tasks,
         NEW s \in {"cancelled", "failed"}, SetStatus(task[w], s),
         s = "cancelled" => task[w] \in Jobs,
         pc'[w] = "idle", commits' = commits,
         demoted' = IF status[task[w]] = "committed" THEN demoted \cup {task[w]} ELSE demoted
  PROVE  Safe'
<1> DEFINE t == task[w]
<1>1. Workers = {w}
  BY DEF OneWorker
<1>2. /\ \A u \in Tasks : status'[u] = IF u = t THEN s ELSE status[u]
      /\ attempts' = attempts /\ stale' = stale \ {t}
  BY SetStatusEffect DEF Typed
<1>3. AttemptsLeft'
  BY <1>2, AllowanceKept DEF Safe, AttemptsLeft, InTurn
<1>4. StaleAreActive'
  BY <1>2 DEF Typed, RowTypes, Safe, StaleAreActive
<1>5. HeldRow' /\ ImportsRun' /\ CommitsMatch'
  BY <1>1, <1>2, TasksAssumption DEF Safe, HeldRow, ImportsRun, CommitsMatch, Tasks
<1>6. QED
  BY <1>3, <1>4, <1>5, NoScanPending DEF Safe

\* A step that publishes the results of the task.
LEMMA CommitStep ==
  ASSUME OneWorker, Typed, Safe, NEW w \in Workers, InTurn(w), task[w] \in Tasks,
         SetStatus(task[w], "committed"),
         commits' = [commits EXCEPT ![task[w]] = @ + 1], demoted' = demoted,
         pc'[w] = "published", task' = task,
         task[w] \in Jobs => status[task[w]] # "committed",
         task[w] \in Imports => commits[task[w]] = 0
  PROVE  Safe'
<1> DEFINE t == task[w]
<1>1. Workers = {w}
  BY DEF OneWorker
<1>2. /\ \A u \in Tasks : status'[u] = IF u = t THEN "committed" ELSE status[u]
      /\ attempts' = attempts /\ stale' = stale \ {t}
  BY SetStatusEffect DEF Typed
<1>3. \A u \in Tasks : commits'[u] = IF u = t THEN commits[t] + 1 ELSE commits[u]
  BY DEF Typed, RestTypes
<1>4. t \notin demoted => commits[t] = 0
  BY DEF Safe, CommitsMatch, Tasks
<1>5. CommitsMatch'
  <2>1. \A u \in Tasks \ demoted :
          commits'[u] = IF status'[u] = "committed" THEN 1 ELSE 0
    BY <1>2, <1>3, <1>4 DEF Safe, CommitsMatch
  <2>2. \A u \in Imports : commits'[u] <= 1
    BY <1>3 DEF Safe, CommitsMatch, Tasks
  <2>3. QED
    BY <1>1, <2>1, <2>2 DEF CommitsMatch
<1>6. AttemptsLeft'
  BY <1>2, AllowanceKept DEF Safe, AttemptsLeft, InTurn
<1>7. StaleAreActive'
  BY <1>2 DEF Typed, RowTypes, Safe, StaleAreActive
<1>8. HeldRow' /\ ImportsRun'
  BY <1>1, <1>2 DEF Safe, HeldRow, ImportsRun, Tasks
<1>9. QED
  BY <1>5, <1>6, <1>7, <1>8, NoScanPending DEF Safe

\* Publishing "busy" keeps the invariant, and so does handing the claim back.
LEMMA SafeHandOver ==
  ASSUME OneWorker, Typed, Safe, NEW w \in Workers,
         SetBusy(w) \/ ReturnClaimed(w) \/ ReturnBusy(w)
  PROVE  Safe'
<1> DEFINE t == task[w]
           n == IF attempts[t] > 0 THEN attempts[t] - 1 ELSE 0
<1>1. InTurn(w)
  BY DEF InTurn, SetBusy, ReturnClaimed, ReturnBusy, EndTurn, outside, Free, Looking, Picking
<1>2. CASE SetBusy(w)
  <2>1. pc'[w] = "busy" /\ Fits(w, "busy")
    BY <1>2, FitsNow DEF SetBusy, Goto, Typed, WorkerOK, WorkerTypes, Fits
  <2>2. QED
    BY <1>1, <1>2, <2>1, QuietStep DEF SetBusy, history
<1>3. CASE ReturnClaimed(w) \/ ReturnBusy(w)
  <2>1. /\ pc'[w] = "idle" /\ commits' = commits /\ demoted' = demoted
        /\ GiveBack(w) /\ t \in Tasks
    BY <1>3, HeldIsTask
       DEF ReturnClaimed, ReturnBusy, EndTurn, Goto, history, Typed, WorkerOK, WorkerTypes,
           Free, Looking, Picking
  <2>2. CASE status[t] = "processing"
    <3>1. Requeue(t, n)
      BY <2>1, <2>2 DEF GiveBack
    <3>2. n \in Nat /\ n < Allowance(t)
      BY <2>1, AllowanceType DEF Typed, RowTypes, Safe, AttemptsLeft
    <3>3. QED
      <4> HIDE DEF n
      <4> QED
        BY <1>1, <2>1, <2>2, <3>1, <3>2, RequeueStep
  <2>3. CASE status[t] # "processing"
    <3>1. UNCHANGED rows
      BY <2>1, <2>3 DEF GiveBack
    <3>2. QED
      BY <1>1, <2>1, <3>1, QuietStep DEF rows
  <2>4. QED
    BY <2>2, <2>3
<1>4. QED
  BY <1>2, <1>3

\* Starting the work, reporting on it and failing at it.
LEMMA SafeRun ==
  ASSUME OneWorker, Typed, Safe, NEW w \in Workers,
         BeginJob(w) \/ BeginImport(w) \/ ReportJob(w) \/ ReportImport(w) \/ WorkFails(w)
  PROVE  Safe'
<1> DEFINE t == task[w]
<1>1. InTurn(w) /\ t \in Tasks
  BY HeldIsTask DEF Typed, InTurn, BeginJob, BeginImport, ReportJob, ReportImport, WorkFails,
                    GoOn, EndTurn, outside, worker, Free, Looking, Picking
<1>2. commits' = commits /\ demoted' = demoted
  BY DEF BeginJob, BeginImport, ReportJob, ReportImport, WorkFails, history
<1>3. Fits(w, pc[w])
  BY FitsNow
<1>4. CASE BeginJob(w) /\ status[t] = "cancelling"
  <2>1. pc'[w] = "idle" /\ SetStatus(t, "cancelled") /\ t \in Jobs
    BY <1>4 DEF BeginJob, EndTurn, Goto, Typed, WorkerOK, WorkerTypes, Active
  <2>2. QED
    BY <1>1, <1>2, <1>4, <2>1, SettleStep
<1>5. CASE BeginJob(w) /\ status[t] # "cancelling"
  <2>1. UNCHANGED rows
    BY <1>5 DEF BeginJob
  <2>2. pc'[w] = "idle" \/ (task' = task /\ Fits(w, pc'[w]))
    BY <1>3, <1>5, TasksAssumption
       DEF BeginJob, GoOn, EndTurn, Goto, Typed, WorkerOK, WorkerTypes, Fits, Active
  <2>3. QED
    BY <1>1, <1>2, <2>1, <2>2, QuietStep DEF rows
<1>6. CASE BeginImport(w)
  <2>1. task' = task /\ Fits(w, pc'[w]) /\ UNCHANGED rows
    BY <1>1, <1>6, TasksAssumption
       DEF BeginImport, GoOn, Goto, Typed, WorkerOK, WorkerTypes, RestTypes, Fits
  <2>2. QED
    BY <1>1, <1>2, <2>1, QuietStep DEF rows
<1>7. CASE ReportJob(w) \/ ReportImport(w) \/ WorkFails(w)
  <2>1. status' = status /\ attempts' = attempts /\ stale' \subseteq stale
    BY <1>7 DEF ReportJob, ReportImport, WorkFails, rows
  <2>2. task' = task /\ Fits(w, pc'[w])
    <3>1. task' = task /\ pc[w] = "running"
      BY <1>7 DEF ReportJob, ReportImport, WorkFails, GoOn, worker
    <3>2. \/ pc'[w] \in {"running", "error_raised"}
          \/ pc'[w] = "cancel_raised" /\ t \in Jobs
      BY <1>7, <3>1 DEF ReportJob, ReportImport, WorkFails, GoOn, Goto, worker,
                        Typed, WorkerOK, WorkerTypes
    <3>3. QED
      BY <1>3, <3>1, <3>2 DEF Fits
  <2>3. QED
    BY <1>1, <1>2, <2>1, <2>2, QuietStep
<1>8. QED
  BY <1>4, <1>5, <1>6, <1>7

\* Ending the work, publishing it and handling what it raised.
LEMMA SafeEnd ==
  ASSUME OneWorker, Typed, Safe, NEW w \in Workers,
         \/ EndChunk(w) \/ CommitJob(w) \/ CommitImport(w) \/ AfterCommit(w)
         \/ HandleCancelled(w) \/ HandleError(w) \/ HandlerWrites(w)
  PROVE  Safe'
<1> USE DEF Typed
<1> DEFINE t == task[w]
<1>1. InTurn(w) /\ t \in Tasks
  BY HeldIsTask DEF InTurn, EndChunk, CommitJob, CommitImport, AfterCommit, HandleCancelled,
                    HandleError, HandlerWrites, GoOn, EndTurn, outside, Free, Looking, Picking
<1>2. Fits(w, pc[w])
  BY FitsNow
<1>3. CASE EndChunk(w) /\ status[t] = "processing"
  <2>1. pc'[w] = "idle" /\ Requeue(t, 0) /\ commits' = commits /\ demoted' = demoted
    BY <1>3 DEF EndChunk, EndTurn, Goto, WorkerOK, WorkerTypes, history
  <2>2. 0 < Allowance(t)
    BY <1>1, AllowanceType
  <2>3. QED
    BY <1>1, <1>3, <2>1, <2>2, RequeueStep
<1>4. CASE EndChunk(w) /\ status[t] # "processing"
  <2>1. status[t] \in Active /\ t \in Jobs /\ commits' = commits /\ demoted' = demoted
    BY <1>2, <1>4 DEF EndChunk, Fits, history
  <2>2. \/ pc'[w] = "idle" /\ SetStatus(t, "cancelled")
        \/ pc'[w] = "cancel_raised" /\ task' = task /\ UNCHANGED rows
    BY <1>4 DEF EndChunk, GoOn, EndTurn, Goto, WorkerOK, WorkerTypes
  <2>3. CASE pc'[w] = "idle" /\ SetStatus(t, "cancelled")
    BY <1>1, <2>1, <2>3, SettleStep DEF Active
  <2>4. CASE pc'[w] = "cancel_raised" /\ task' = task /\ UNCHANGED rows
    <3>1. Fits(w, "cancel_raised")
      BY <2>1, TasksAssumption DEF Fits
    <3>2. QED
      BY <1>1, <2>1, <2>4, <3>1, QuietStep DEF rows
  <2>5. QED
    BY <2>2, <2>3, <2>4
<1>5. CASE CommitJob(w)
  <2>1. status[t] \in Active /\ t \in Jobs /\ demoted' = demoted
    BY <1>2, <1>5 DEF CommitJob, Fits
  <2>2. CASE status[t] = "processing"
    <3>1. /\ SetStatus(t, "committed") /\ commits' = [commits EXCEPT ![t] = @ + 1]
          /\ pc'[w] = "published" /\ task' = task
      BY <1>5, <2>2 DEF CommitJob, GoOn, Goto, WorkerOK, WorkerTypes
    <3>2. QED
      BY <1>1, <2>1, <2>2, <3>1, TasksAssumption, CommitStep
  <2>3. CASE status[t] # "processing"
    <3>1. UNCHANGED rows /\ commits' = commits /\ pc'[w] = "cancel_raised" /\ task' = task
      BY <1>5, <2>3 DEF CommitJob, GoOn, Goto, WorkerOK, WorkerTypes
    <3>2. Fits(w, "cancel_raised")
      BY <2>1, TasksAssumption DEF Fits
    <3>3. QED
      BY <1>1, <2>1, <3>1, <3>2, QuietStep DEF rows
  <2>4. QED
    BY <2>2, <2>3
<1>6. CASE CommitImport(w)
  <2>1. /\ SetStatus(t, "committed") /\ commits' = [commits EXCEPT ![t] = @ + 1]
        /\ pc'[w] = "published" /\ task' = task /\ demoted' = demoted
        /\ t \in Imports /\ pc[w] = "running"
    BY <1>6 DEF CommitImport, GoOn, Goto, WorkerOK, WorkerTypes
  <2>2. QED
    BY <1>1, <1>2, <2>1, TasksAssumption, CommitStep DEF Fits
<1>7. CASE AfterCommit(w) \/ HandleCancelled(w) \/ HandleError(w)
  <2>1. UNCHANGED rows /\ commits' = commits /\ demoted' = demoted
    BY <1>7 DEF AfterCommit, HandleCancelled, HandleError, history
  <2>2. pc'[w] = "idle" \/ (task' = task /\ Fits(w, pc'[w]))
    <3>1. CASE AfterCommit(w)
      BY <1>2, <3>1 DEF AfterCommit, GoOn, EndTurn, Goto, WorkerOK, WorkerTypes, Fits
    <3>2. CASE HandleCancelled(w)
      BY <1>2, <3>2 DEF HandleCancelled, GoOn, EndTurn, Goto, WorkerOK, WorkerTypes, Fits
    <3>3. CASE HandleError(w)
      <4>1. status[t] = "cancelling" => t \in Jobs
        BY <1>1 DEF Safe, ImportsRun, Tasks
      <4>2. QED
        BY <1>2, <3>3, <4>1
           DEF HandleError, GoOn, EndTurn, Goto, WorkerOK, WorkerTypes, Fits, Active
    <3>4. QED
      BY <1>7, <3>1, <3>2, <3>3
  <2>3. QED
    BY <1>1, <2>1, <2>2, QuietStep DEF rows
<1>8. CASE HandlerWrites(w)
  <2>1. PICK s \in {"cancelled", "failed"} :
          SetStatus(t, s) /\ (s = "cancelled" => pc[w] = "write_cancelled")
    BY <1>8 DEF HandlerWrites
  <2>2. pc'[w] = "idle" /\ commits' = commits
    BY <1>8 DEF HandlerWrites, EndTurn, Goto, WorkerOK, WorkerTypes
  <2>3. demoted' = IF status[t] = "committed" THEN demoted \cup {t} ELSE demoted
    BY <1>8 DEF HandlerWrites
  <2>4. s = "cancelled" => t \in Jobs
    BY <1>2, <2>1 DEF Fits
  <2>5. QED
    BY <1>1, <2>1, <2>2, <2>3, <2>4, SettleStep
<1>9. QED
  BY <1>3, <1>4, <1>5, <1>6, <1>7, <1>8

LEMMA InductiveNext ==
  ASSUME OneWorker
  PROVE  Inductive /\ [Next]_vars => Inductive'
<1> SUFFICES ASSUME Typed, Safe, [Next]_vars PROVE Typed' /\ Safe'
  BY InductiveParts, PTL
<1>1. Typed'
  BY TypedNext
<1>2. CASE Next
  BY <1>1, <1>2, StepCases, SafeUsers, SafeSubmit, SafeProcess, SafeScan, SafeLook, SafeClaim,
     SafeHandOver, SafeRun, SafeEnd
<1>3. CASE UNCHANGED vars
  BY <1>1, <1>3, AllowanceKept
     DEF vars, rows, worker, outside, history, Safe, StaleAreActive, ScanStillTrue, HeldRow,
         ImportsRun, AttemptsLeft, CommitsMatch, Loaded
<1>4. QED
  BY <1>1, <1>2, <1>3

\* With one worker process at a time (the production deployment) the queue
\* never leaves the inductive invariant, whatever the tasks, the bounds and
\* the errors: scan and write-back, claim, return, run, commit and the error
\* handlers agree with each other through crashes and restarts.
THEOREM QueueIsSafe ==
  ASSUME OneWorker
  PROVE  Spec => []Inductive
<1>1. Init => Inductive
  BY TypedInit, SafeInit, InductiveParts
<1>2. QED
  BY <1>1, InductiveNext, PTL DEF Spec

\* The invariant answers for the safety properties of the module.
LEMMA InductiveImplies ==
  Inductive => AttemptsBounded /\ RunningIsOwned /\ CommitOnce /\ ImportsCommitOnce
<1> SUFFICES ASSUME Inductive
             PROVE  AttemptsBounded /\ RunningIsOwned /\ CommitOnce /\ ImportsCommitOnce
  OBVIOUS
<1> USE DEF Inductive
<1>1. AttemptsBounded
  BY DEF AttemptsLeft, AttemptsBounded
<1>2. RunningIsOwned
  BY DEF HeldRow, RunningIsOwned
<1>3. CommitOnce
  BY DEF CommitsMatch, CommitOnce
<1>4. ImportsCommitOnce
  BY DEF CommitsMatch, ImportsCommitOnce
<1>5. QED
  BY <1>1, <1>2, <1>3, <1>4

\* Automatic recovery never grants an attempt beyond MaxAttempts, although
\* the count a claim writes may come from the stale scan and a claim that is
\* handed back takes its attempt back.
THEOREM AttemptsStayBounded ==
  ASSUME OneWorker
  PROVE  Spec => []AttemptsBounded
BY QueueIsSafe, InductiveImplies, PTL

\* The row of a job under execution stays processing or cancelling.
THEOREM RunningStaysOwned ==
  ASSUME OneWorker
  PROVE  Spec => []RunningIsOwned
BY QueueIsSafe, InductiveImplies, PTL

\* Results are published once, except by a task whose committed row an
\* exception handler wrote over; an import not even then.
THEOREM PublishedOnce ==
  ASSUME OneWorker
  PROVE  Spec => [](CommitOnce /\ ImportsCommitOnce)
BY QueueIsSafe, InductiveImplies, PTL

\* An import is published once even when a handler or a late request wrote
\* over its committed row (commit_import_preview).
THEOREM ImportsPublishedOnce ==
  ASSUME OneWorker
  PROVE  Spec => []ImportsCommitOnce
BY PublishedOnce, PTL

\* No step writes a row that is cancelled: recovery wrote only what it
\* loaded, a handler only what its worker holds, and neither is cancelled.
LEMMA CancelledKept ==
  ASSUME OneWorker, Inductive, [Next]_vars, NEW t \in Tasks, status[t] = "cancelled"
  PROVE  status'[t] = "cancelled"
<1>0. Typed /\ Safe
  BY InductiveParts
<1> USE <1>0 DEF Typed
<1>j. t \in Jobs /\ t \notin Imports
  BY DEF Safe, ImportsRun, Tasks
<1>1. ASSUME NEW u \in Tasks,
             Admit(u) \/ Cancel(u) \/ Retry(u) \/ Age(u) \/ \E r \in Requests : Open(r, u)
      PROVE  status'[t] = "cancelled"
  BY <1>1 DEF Admit, Cancel, Retry, Age, Open, SetStatus, Requeue, RowTypes, rows
<1>s. ASSUME NEW r \in Requests, Submit(r)
      PROVE  status'[t] = "cancelled"
  <2>1. request[r].on # t
    BY <1>j, <1>s, PendingIsImport DEF Submit
  <2>2. QED
    BY <1>s, <2>1 DEF Submit, Requeue, RowTypes
<1>2. ASSUME NEW w \in Workers,
             \/ Start(w) \/ RequestStop(w) \/ Exit(w) \/ Crash(w) \/ Pulse(w)
             \/ Scan(w) \/ LookAtImports(w) \/ LookAtJobs(w) \/ LookAtNoise(w)
             \/ SetBusy(w) \/ BeginImport(w) \/ ReportJob(w) \/ ReportImport(w)
             \/ WorkFails(w) \/ AfterCommit(w) \/ HandleCancelled(w) \/ HandleError(w)
      PROVE  status'[t] = "cancelled"
  BY <1>2 DEF Start, RequestStop, Exit, Crash, Pulse, Scan, LookAtImports, LookAtJobs,
     LookAtNoise, SetBusy, BeginImport, ReportJob, ReportImport, WorkFails, AfterCommit, HandleCancelled, HandleError, rows
<1>3. ASSUME NEW w \in Workers, ClaimTask(w) \/ ClaimNothing(w)
      PROVE  status'[t] = "cancelled"
  <2>1. Recovered(w)[t] = "cancelled"
    BY <1>j DEF Safe, ScanStillTrue, Active, Recovered, Found
  <2>2. CASE ClaimNothing(w)
    BY <2>1, <2>2 DEF ClaimNothing
  <2>3. CASE ClaimTask(w)
    <3>1. PICK u \in Wanted(w) : status' = [Recovered(w) EXCEPT ![u] = "processing"]
      BY <2>3 DEF ClaimTask
    <3>2. u # t
      BY <2>1, WantedQueued DEF Recovered
    <3>3. QED
      BY <2>1, <3>1, <3>2, RecoveredType
  <2>4. QED
    BY <1>3, <2>2, <2>3
<1>4. ASSUME NEW w \in Workers,
             \/ ReturnClaimed(w) \/ ReturnBusy(w) \/ BeginJob(w) \/ EndChunk(w)
             \/ CommitJob(w) \/ CommitImport(w) \/ HandlerWrites(w)
      PROVE  status'[t] = "cancelled"
  <2>1. /\ \/ UNCHANGED rows
           \/ \E n : Requeue(task[w], n)
           \/ \E s : SetStatus(task[w], s)
        /\ task[w] # t
    <3>1. pc[w] \in {"claimed", "busy", "running", "write_cancelled", "write_failed"}
      BY <1>4 DEF ReturnClaimed, ReturnBusy, BeginJob, EndChunk, CommitJob, CommitImport,
                  HandlerWrites
    <3>2. task[w] # t
      BY <1>j, <3>1 DEF Safe, HeldRow, Active
    <3>3. QED
      BY <1>4, <3>2 DEF ReturnClaimed, ReturnBusy, GiveBack, BeginJob, EndChunk, CommitJob,
                        CommitImport, HandlerWrites
  <2>2. QED
    BY <2>1 DEF SetStatus, Requeue, RowTypes, rows
<1>5. CASE Next
  BY <1>1, <1>s, <1>2, <1>3, <1>4, <1>5, StepCases
<1>6. CASE UNCHANGED vars
  BY <1>6 DEF vars, rows
<1>7. QED
  BY <1>5, <1>6

\* With one worker no recovery, handler, returned claim or retry revives a
\* cancelled task.
THEOREM CancelledStays ==
  ASSUME OneWorker
  PROVE  Spec => CancelledIsFinal
<1>1. Inductive /\ [Next]_vars =>
        [\A t \in Tasks : status[t] = "cancelled" => status'[t] = "cancelled"]_vars
  BY CancelledKept
<1>2. QED
  BY <1>1, QueueIsSafe, PTL DEF Spec, CancelledIsFinal
-----------------------------------------------------------------------------
(* One request at a time: the order of the queue, and the refinement of    *)
(* the abstract life cycle.                                                *)

OneRequest == \A q, r \in Requests : q = r

\* An import that a request is about to queue is still absent or failed, what
\* a scan has loaded is still active, and nobody but its worker writes the
\* row of an import that runs.
RequestsInTurn ==
  \A r \in Requests : request[r] # NoRequest => status[request[r].on] \in {"absent", "failed"}
ScanInTurn ==
  \A w \in Workers : \A t \in Loaded(w) : status[t] \in Active
ImportHeld ==
  \A w \in Workers : task[w] \in Imports => status[task[w]] \in {"processing", "committed"}

OneAtATime == RequestsInTurn /\ ScanInTurn /\ ImportHeld

\* The only row that one step of the worker, a user or the clock writes, when it
\* recovers nothing.
Writes(t) == \A u \in Tasks \ {t} : status'[u] = status[u]

LEMMA SetStatusWrites ==
  ASSUME RowTypes, NEW t \in Tasks, NEW s, SetStatus(t, s)
  PROVE  Writes(t) /\ status'[t] = s
BY SetStatusEffect DEF Writes

LEMMA RequeueWrites ==
  ASSUME RowTypes, NEW t \in Tasks, NEW n, Requeue(t, n)
  PROVE  Writes(t) /\ status'[t] = "queued"
BY RequeueEffect DEF Writes

LEMMA RowsWrite ==
  ASSUME UNCHANGED rows, NEW t
  PROVE  Writes(t) /\ \A u \in Tasks : status'[u] = status[u]
BY DEF rows, Writes

-----------------------------------------------------------------------------
(* What the steps do to the rows. *)

Keeps(t) == status'[t] = status[t]
Ends(w) == task' = [task EXCEPT ![w] = Nobody]

\* The endpoints of jobs and the loading of an import: rows of jobs change, in
\* three ways.
LEMMA UserStep ==
  ASSUME Typed, NEW t \in Tasks,
         Admit(t) \/ Cancel(t) \/ Retry(t) \/ Age(t) \/ \E r \in Requests : Open(r, t)
  PROVE  /\ UNCHANGED <<pc, task, seen, commits, demoted>>
         /\ Writes(t)
         /\ \/ Keeps(t)
            \/ t \in Jobs /\ status[t] \in {"absent", "failed"} /\ status'[t] = "queued"
            \/ t \in Jobs /\ status[t] = "queued" /\ status'[t] = "cancelled"
            \/ t \in Jobs /\ status[t] = "processing" /\ status'[t] = "cancelling"
         /\ request' = request \/ \E r \in Requests : Open(r, t)
<1>1. CASE Admit(t)
  BY <1>1, RequeueWrites DEF Admit, worker, outside, history, Typed
<1>2. CASE Cancel(t)
  BY <1>2, SetStatusWrites, TasksAssumption DEF Cancel, worker, outside, Typed
<1>3. CASE Retry(t)
  BY <1>3, RequeueWrites DEF Retry, worker, Typed
<1>4. CASE Age(t)
  BY <1>4 DEF Age, worker, outside, history, Writes, Keeps
<1>5. CASE \E r \in Requests : Open(r, t)
  BY <1>5, RowsWrite DEF Open, worker, history, Keeps
<1>. QED BY <1>1, <1>2, <1>3, <1>4, <1>5

\* A request queues its import, which nobody has touched since it was loaded.
LEMMA SubmitStep ==
  ASSUME Typed, RequestsInTurn, NEW r \in Requests, Submit(r)
  PROVE  LET t == request[r].on
         IN  /\ UNCHANGED <<pc, task, seen, commits, demoted>>
             /\ t \in Imports /\ t \in Tasks /\ Writes(t)
             /\ status[t] \in {"absent", "failed"} /\ status'[t] = "queued"
             /\ request' = [request EXCEPT ![r] = NoRequest]
<1> DEFINE t == request[r].on
<1>1. t \in Imports /\ t \in Tasks
  BY PendingIsImport DEF Submit
<1>2. status[t] \in {"absent", "failed"}
  BY DEF RequestsInTurn, Submit
<1>3. PICK n : Requeue(t, n)
  BY DEF Submit
<1>4. Writes(t) /\ status'[t] = "queued"
  BY <1>1, <1>3, RequeueWrites DEF Typed
<1>. QED BY <1>1, <1>2, <1>4 DEF Submit, worker

\* Starts, stops, crashes, scans and choices write no status.
ProcessAction(w) ==
  \/ Start(w) \/ RequestStop(w) \/ Exit(w) \/ Crash(w) \/ Pulse(w)
  \/ Scan(w) \/ LookAtImports(w) \/ LookAtJobs(w) \/ LookAtNoise(w)

LEMMA ProcessStep ==
  ASSUME Typed, NEW w \in Workers, ProcessAction(w)
  PROVE  /\ UNCHANGED <<status, commits, demoted, request>>
         /\ task' = task \/ Ends(w)
         /\ Scan(w) \/ UNCHANGED seen
            \/ seen' = [seen EXCEPT ![w] = [t \in Tasks |-> NotLoaded]]
         /\ \/ pc'[w] \in Free /\ pc[w] \in Free
            \/ Ends(w)
            \/ pc' = pc
<1> USE DEF rows, outside, history, Ends, Typed, WorkerOK, WorkerTypes, Goto, Free, Looking, Picking
<1>1. CASE Start(w) \/ RequestStop(w) \/ Exit(w) \/ Pulse(w)
  BY <1>1 DEF Start, RequestStop, Exit, Pulse
<1>2. CASE Crash(w)
  BY <1>2 DEF Crash, Forget
<1>3. CASE Scan(w)
  BY <1>3 DEF Scan
<1>4. CASE LookAtImports(w)
  BY <1>4 DEF LookAtImports
<1>5. CASE LookAtJobs(w)
  BY <1>5 DEF LookAtJobs
<1>6. CASE LookAtNoise(w)
  BY <1>6 DEF LookAtNoise
<1>. QED BY <1>1, <1>2, <1>3, <1>4, <1>5, <1>6 DEF ProcessAction

\* What a worker does during a turn writes the row of its task and no other.
TurnAction(w) ==
  \/ SetBusy(w) \/ ReturnClaimed(w) \/ ReturnBusy(w)
  \/ BeginJob(w) \/ BeginImport(w) \/ ReportJob(w) \/ ReportImport(w)
  \/ WorkFails(w) \/ EndChunk(w) \/ CommitJob(w) \/ CommitImport(w)
  \/ AfterCommit(w) \/ HandleCancelled(w) \/ HandleError(w) \/ HandlerWrites(w)

LEMMA TurnStep ==
  ASSUME Typed, Safe, NEW w \in Workers, TurnAction(w)
  PROVE  LET t == task[w]
         IN  /\ t \in Tasks /\ Writes(t) /\ request' = request /\ seen' = seen
             /\ \/ /\ Keeps(t)
                   /\ UNCHANGED <<commits, demoted>>
                   /\ \/ Ends(w)
                      \/ task' = task /\ (pc[w] = "published" => t \in LateErrors)
                                      /\ pc'[w] # "published"
                      \/ task' = task /\ pc' = pc
                \/ /\ status[t] = "processing" /\ status'[t] = "queued"
                   /\ Ends(w) /\ UNCHANGED <<commits, demoted>>
                \/ /\ status[t] = "cancelling" /\ status'[t] = "cancelled"
                   /\ Ends(w) /\ UNCHANGED <<commits, demoted>>
                \/ /\ pc[w] \in {"write_cancelled", "write_failed"}
                   /\ status'[t] \in {"cancelled", "failed"}
                   /\ Ends(w) /\ commits' = commits
                   /\ demoted' = IF status[t] = "committed" THEN demoted \cup {t} ELSE demoted
                \/ /\ pc[w] = "running" /\ status'[t] = "committed"
                   /\ t \in Jobs => status[t] = "processing"
                   /\ commits' = [commits EXCEPT ![t] = @ + 1]
                   /\ task' = task /\ pc'[w] = "published" /\ demoted' = demoted
<1> USE DEF Typed
<1> DEFINE t == task[w]
<1>1. pc[w] \notin Free
  BY DEF Free, Looking, Picking, TurnAction, SetBusy, ReturnClaimed, ReturnBusy, BeginJob,
         BeginImport, ReportJob, ReportImport, WorkFails, EndChunk, CommitJob, CommitImport, AfterCommit, HandleCancelled,
         HandleError, HandlerWrites
<1>2. t \in Tasks
  BY <1>1, HeldIsTask
<1>3. ASSUME NEW step, GoOn(w, step)
      PROVE  task' = task /\ pc'[w] = step /\ seen' = seen
  BY <1>3 DEF GoOn, Goto, WorkerOK, WorkerTypes
<1>4. ASSUME EndTurn(w) PROVE Ends(w) /\ seen' = seen
  BY <1>4 DEF EndTurn, Ends
<1>5. ASSUME GiveBack(w)
      PROVE  Writes(t) /\ \/ Keeps(t)
                          \/ status[t] = "processing" /\ status'[t] = "queued"
  BY <1>2, <1>5, RequeueWrites, RowsWrite DEF GiveBack, Keeps
<1>6. CASE SetBusy(w)
  BY <1>2, <1>6 DEF SetBusy, Writes, Keeps, outside, history, Goto, WorkerOK, WorkerTypes
<1>7. CASE ReturnClaimed(w)
  BY <1>2, <1>5, <1>7 DEF ReturnClaimed, history, Ends
<1>8. CASE ReturnBusy(w)
  BY <1>2, <1>4, <1>5, <1>8 DEF ReturnBusy, outside, history
<1>9. CASE BeginJob(w)
  <2>1. UNCHANGED <<request, commits, demoted>> /\ pc[w] = "busy"
    BY <1>9 DEF BeginJob, outside, history
  <2>2. CASE status[t] = "processing" /\ GoOn(w, "running") /\ UNCHANGED rows
    BY <1>2, <1>3, <2>1, <2>2, RowsWrite DEF Keeps
  <2>3. CASE status[t] = "cancelling" /\ EndTurn(w) /\ SetStatus(t, "cancelled")
    BY <1>2, <1>4, <2>1, <2>3, SetStatusWrites
  <2>4. CASE EndTurn(w) /\ UNCHANGED rows
    BY <1>2, <1>4, <2>1, <2>4, RowsWrite DEF Keeps
  <2>. QED BY <1>9, <2>2, <2>3, <2>4 DEF BeginJob
<1>10. CASE BeginImport(w) \/ WorkFails(w) \/ HandleCancelled(w) \/ HandleError(w) \/ AfterCommit(w)
  <2>1. UNCHANGED rows /\ UNCHANGED <<request, commits, demoted>>
    BY <1>10 DEF BeginImport, WorkFails, HandleCancelled, HandleError, AfterCommit, outside, history
  <2>2. \/ EndTurn(w)
        \/ \E step \in {"running", "error_raised", "write_cancelled", "write_failed"} :
             GoOn(w, step) /\ (pc[w] = "published" => t \in LateErrors)
    BY <1>10 DEF BeginImport, WorkFails, HandleCancelled, HandleError, AfterCommit
  <2>3. Writes(t) /\ Keeps(t)
    BY <1>2, <2>1, RowsWrite DEF Keeps
  <2>. QED BY <1>2, <1>3, <1>4, <2>1, <2>2, <2>3
<1>11. CASE ReportJob(w)
  <2>1. UNCHANGED <<status, request, commits, demoted>> /\ pc[w] = "running"
    BY <1>11 DEF ReportJob, outside, history
  <2>2. \E step \in {"running", "cancel_raised", "error_raised"} : GoOn(w, step)
    BY <1>11 DEF ReportJob
  <2>. QED BY <1>2, <1>3, <2>1, <2>2 DEF Writes, Keeps
<1>12. CASE ReportImport(w)
  BY <1>2, <1>12 DEF ReportImport, worker, outside, history, Writes, Keeps
<1>13. CASE EndChunk(w)
  <2>1. UNCHANGED <<request, commits, demoted>> /\ pc[w] = "running" /\ t \in Jobs
    BY <1>13 DEF EndChunk, outside, history
  <2>2. CASE status[t] = "processing" /\ Requeue(t, 0) /\ EndTurn(w)
    BY <1>2, <1>4, <2>1, <2>2, RequeueWrites
  <2>3. CASE status[t] \in {"cancelling", "cancelled"} /\ SetStatus(t, "cancelled") /\ EndTurn(w)
    <3>1. status[t] = "cancelling"
      BY <2>1, <2>3 DEF Safe, HeldRow, Active
    <3>. QED BY <1>2, <1>4, <2>1, <2>3, <3>1, SetStatusWrites
  <2>4. CASE GoOn(w, "cancel_raised") /\ UNCHANGED rows
    BY <1>2, <1>3, <2>1, <2>4, RowsWrite DEF Keeps
  <2>. QED BY <1>13, <2>2, <2>3, <2>4 DEF EndChunk
<1>14. CASE CommitJob(w)
  <2>1. UNCHANGED <<request, demoted>> /\ pc[w] = "running" /\ t \in Jobs
    BY <1>14 DEF CommitJob, outside
  <2>2. CASE /\ status[t] = "processing" /\ SetStatus(t, "committed") /\ GoOn(w, "published")
             /\ commits' = [commits EXCEPT ![t] = @ + 1]
    BY <1>2, <1>3, <2>1, <2>2, SetStatusWrites
  <2>3. CASE GoOn(w, "cancel_raised") /\ UNCHANGED <<rows, commits>>
    BY <1>2, <1>3, <2>1, <2>3, RowsWrite DEF Keeps
  <2>. QED BY <1>14, <2>2, <2>3 DEF CommitJob
<1>15. CASE CommitImport(w)
  BY <1>2, <1>3, <1>15, SetStatusWrites, TasksAssumption DEF CommitImport, outside
<1>16. CASE HandlerWrites(w)
  BY <1>2, <1>4, <1>16, SetStatusWrites DEF HandlerWrites, outside
<1>. QED
  BY <1>6, <1>7, <1>8, <1>9, <1>10, <1>11, <1>12, <1>13, <1>14, <1>15, <1>16 DEF TurnAction

\* Recovery settles what it has loaded, and a claim takes a task that is queued
\* or has just been recovered.
LEMMA RecoveryStep ==
  ASSUME Typed, Safe, ScanInTurn, NEW w \in Workers, ClaimTask(w) \/ ClaimNothing(w)
  PROVE  /\ pc[w] \in Picking
         /\ UNCHANGED <<commits, demoted, request>>
         /\ seen' = [seen EXCEPT ![w] = [t \in Tasks |-> NotLoaded]]
         /\ \A t \in Tasks : status[t] \notin Active => t \notin Loaded(w) /\ Recovered(w)[t] = status[t]
         /\ \A t \in Tasks : status[t] \in Active =>
              Recovered(w)[t] \in {"queued", "processing", "cancelling", "cancelled", "failed"}
         /\ \/ /\ status' = Recovered(w)
               /\ task' = task
            \/ \E u \in Wanted(w) :
                 /\ u \in Tasks /\ Recovered(w)[u] = "queued"
                 /\ status' = [Recovered(w) EXCEPT ![u] = "processing"]
                 /\ task' = [task EXCEPT ![w] = u] /\ pc'[w] = "claimed"
<1>1. \A t \in Tasks : status[t] \notin Active => t \notin Loaded(w) /\ Recovered(w)[t] = status[t]
  BY DEF ScanInTurn, Recovered, Found
<1>2. \A t \in Tasks : status[t] \in Active =>
        Recovered(w)[t] \in {"queued", "processing", "cancelling", "cancelled", "failed"}
  BY DEF Recovered, Found, Verdict, Active
<1>3. CASE ClaimNothing(w)
  BY <1>1, <1>2, <1>3 DEF ClaimNothing, Forget
<1>4. CASE ClaimTask(w)
  <2>1. PICK u \in Wanted(w) : /\ status' = [Recovered(w) EXCEPT ![u] = "processing"]
                               /\ task' = [task EXCEPT ![w] = u]
    BY <1>4 DEF ClaimTask
  <2>2. u \in Tasks /\ Recovered(w)[u] = "queued"
    BY WantedQueued DEF Recovered
  <2>. QED BY <1>1, <1>2, <1>4, <2>1, <2>2 DEF ClaimTask, Forget, Goto, Typed, WorkerOK, WorkerTypes
<1>. QED BY <1>3, <1>4

-----------------------------------------------------------------------------
(* With one request at a time rows change hands in turn. *)

\* Every step is a user's, a request's, a process's, a turn's or a recovery.
LEMMA ActorCases ==
  ASSUME Next
  PROVE  \/ \E t \in Tasks :
              Admit(t) \/ Cancel(t) \/ Retry(t) \/ Age(t) \/ \E r \in Requests : Open(r, t)
         \/ \E r \in Requests : Submit(r)
         \/ \E w \in Workers :
              ProcessAction(w) \/ ClaimTask(w) \/ ClaimNothing(w) \/ TurnAction(w)
BY StepCases DEF ProcessAction, TurnAction

LEMMA RequestsStayInTurn ==
  ASSUME OneWorker, OneRequest, Inductive, OneAtATime, Next
  PROVE  RequestsInTurn'
<1> SUFFICES ASSUME NEW r \in Requests, request'[r] # NoRequest
             PROVE  status'[request'[r].on] \in {"absent", "failed"}
  BY DEF RequestsInTurn
<1>0. Typed /\ Safe
  BY InductiveParts
<1>1. request[r] # NoRequest => /\ status[request[r].on] \in {"absent", "failed"}
                               /\ request[r].on \in Imports /\ request[r].on \in Tasks
  BY <1>0, PendingIsImport DEF OneAtATime, RequestsInTurn
<1>2. ASSUME NEW t \in Tasks,
             Admit(t) \/ Cancel(t) \/ Retry(t) \/ Age(t) \/ \E q \in Requests : Open(q, t)
      PROVE  status'[request'[r].on] \in {"absent", "failed"}
  <2>1. \A u \in Imports : status'[u] = status[u]
    BY <1>0, <1>2, UserStep, TasksAssumption DEF Writes, Keeps, Tasks
  <2>2. CASE request' = request
    BY <1>1, <2>1, <2>2
  <2>3. CASE \E q \in Requests : Open(q, t)
    <3>1. PICK q \in Requests : Open(q, t)
      BY <2>3
    <3>2. q = r
      BY DEF OneRequest
    <3>3. t \in Imports /\ status[t] \in {"absent", "failed"} /\ request'[r].on = t
      BY <1>0, <3>1, <3>2 DEF Open, Typed, RestTypes
    <3>. QED BY <2>1, <3>3
  <2>. QED BY <1>0, <1>2, <2>2, <2>3, UserStep
<1>3. ASSUME NEW q \in Requests, Submit(q)
      PROVE  FALSE
  <2>1. q = r
    BY DEF OneRequest
  <2>. QED BY <1>0, <1>3, <2>1, SubmitStep DEF OneAtATime, Typed, RestTypes
<1>4. ASSUME NEW w \in Workers, ProcessAction(w)
      PROVE  status'[request'[r].on] \in {"absent", "failed"}
  BY <1>0, <1>1, <1>4, ProcessStep
<1>5. ASSUME NEW w \in Workers, TurnAction(w)
      PROVE  status'[request'[r].on] \in {"absent", "failed"}
  <2>1. request'[r] = request[r] /\ Writes(task[w])
    BY <1>0, <1>5, TurnStep
  <2>2. task[w] # request[r].on
    BY <1>1, <2>1 DEF OneAtATime, ImportHeld
  <2>. QED BY <1>1, <2>1, <2>2 DEF Writes
<1>6. ASSUME NEW w \in Workers, ClaimTask(w) \/ ClaimNothing(w)
      PROVE  status'[request'[r].on] \in {"absent", "failed"}
  <2>1. request'[r] = request[r]
    BY <1>0, <1>6, RecoveryStep DEF OneAtATime
  <2>2. Recovered(w)[request[r].on] = status[request[r].on]
    BY <1>0, <1>1, <1>6, <2>1, RecoveryStep DEF OneAtATime, Active
  <2>3. CASE status' = Recovered(w)
    BY <1>1, <2>1, <2>2, <2>3
  <2>4. CASE \E u \in Tasks : /\ Recovered(w)[u] = "queued"
                              /\ status' = [Recovered(w) EXCEPT ![u] = "processing"]
    BY <1>1, <2>1, <2>2, <2>4 DEF Recovered
  <2>. QED BY <1>0, <1>6, <2>3, <2>4, RecoveryStep DEF OneAtATime
<1>. QED BY <1>2, <1>3, <1>4, <1>5, <1>6, ActorCases

LEMMA ScansStayInTurn ==
  ASSUME OneWorker, Inductive, OneAtATime, Next
  PROVE  ScanInTurn'
<1> SUFFICES ASSUME NEW v \in Workers, NEW t \in Tasks, seen'[v][t] # NotLoaded
             PROVE  status'[t] \in Active
  BY DEF ScanInTurn, Loaded
<1>0. Typed /\ Safe
  BY InductiveParts
<1>1. seen' = seen =>
             /\ status[t] \in Active /\ t \in Loaded(v)
             /\ pc[v] \in {"scanned"} \cup Looking
  BY <1>0 DEF OneAtATime, ScanInTurn, ScanStillTrue, Loaded, Safe
<1>2. ASSUME NEW u \in Tasks,
             Admit(u) \/ Cancel(u) \/ Retry(u) \/ Age(u) \/ \E q \in Requests : Open(q, u)
      PROVE  status'[t] \in Active
  BY <1>0, <1>1, <1>2, UserStep DEF Writes, Keeps, Active
<1>3. ASSUME NEW q \in Requests, Submit(q)
      PROVE  status'[t] \in Active
  BY <1>0, <1>1, <1>3, SubmitStep DEF OneAtATime, Writes, Active
<1>4. ASSUME NEW w \in Workers, ProcessAction(w)
      PROVE  status'[t] \in Active
  <2>1. v = w /\ status' = status
    BY <1>0, <1>4, ProcessStep DEF OneWorker
  <2>2. CASE Scan(w)
    <3>1. seen'[w][t] = IF t \in Stranded THEN RowOf(t) ELSE NotLoaded
      BY <1>0, <2>2 DEF Scan, Typed, WorkerOK, WorkerTypes
    <3>. QED BY <2>1, <3>1 DEF Stranded, Active
  <2>3. CASE seen' = [seen EXCEPT ![w] = [u \in Tasks |-> NotLoaded]]
    BY <1>0, <2>1, <2>3 DEF Typed, WorkerOK, WorkerTypes
  <2>4. CASE UNCHANGED seen
    BY <1>1, <2>1, <2>4
  <2>. QED BY <1>0, <1>4, <2>2, <2>3, <2>4, ProcessStep
<1>5. ASSUME NEW w \in Workers, TurnAction(w)
      PROVE  FALSE
  <2>1. v = w /\ seen' = seen
    BY <1>0, <1>5, TurnStep DEF OneWorker
  <2>2. pc[w] \notin {"scanned"} \cup Looking
    BY <1>5 DEF Looking, Picking, TurnAction, SetBusy, ReturnClaimed, ReturnBusy, BeginJob, BeginImport, ReportJob,
           ReportImport, WorkFails, EndChunk, CommitJob, CommitImport, AfterCommit,
           HandleCancelled, HandleError, HandlerWrites
  <2>. QED BY <1>1, <2>1, <2>2
<1>6. ASSUME NEW w \in Workers, ClaimTask(w) \/ ClaimNothing(w)
      PROVE  FALSE
  <2>1. v = w /\ seen' = [seen EXCEPT ![w] = [u \in Tasks |-> NotLoaded]]
    BY <1>0, <1>6, RecoveryStep DEF OneWorker, OneAtATime
  <2>. QED BY <1>0, <2>1 DEF Typed, WorkerOK, WorkerTypes
<1>. QED BY <1>2, <1>3, <1>4, <1>5, <1>6, ActorCases

LEMMA ImportsStayHeld ==
  ASSUME OneWorker, Inductive, OneAtATime, Next
  PROVE  ImportHeld'
<1> SUFFICES ASSUME NEW v \in Workers, task'[v] \in Imports
             PROVE  status'[task'[v]] \in {"processing", "committed"}
  BY DEF ImportHeld
<1>0. Typed /\ Safe /\ Nobody \notin Imports
  BY InductiveParts, TasksAssumption DEF Tasks
<1>1. task'[v] = task[v] => /\ status[task[v]] \in {"processing", "committed"}
                           /\ task[v] \in Tasks /\ task[v] \notin Jobs
  BY TasksAssumption DEF OneAtATime, ImportHeld, Tasks
<1>2. ASSUME NEW u \in Tasks,
             Admit(u) \/ Cancel(u) \/ Retry(u) \/ Age(u) \/ \E q \in Requests : Open(q, u)
      PROVE  status'[task'[v]] \in {"processing", "committed"}
  BY <1>0, <1>1, <1>2, UserStep DEF Writes, Keeps
<1>3. ASSUME NEW q \in Requests, Submit(q)
      PROVE  status'[task'[v]] \in {"processing", "committed"}
  BY <1>0, <1>1, <1>3, SubmitStep DEF OneAtATime, Writes
<1>4. ASSUME NEW w \in Workers, ProcessAction(w)
      PROVE  status'[task'[v]] \in {"processing", "committed"}
  <2>1. v = w /\ status' = status /\ (task' = task \/ Ends(w))
    BY <1>0, <1>4, ProcessStep DEF OneWorker
  <2>. QED BY <1>0, <1>1, <2>1 DEF Ends, Typed, WorkerOK, WorkerTypes
<1>5. ASSUME NEW w \in Workers, TurnAction(w)
      PROVE  status'[task'[v]] \in {"processing", "committed"}
  <2>1. v = w
    BY DEF OneWorker
  <2>2. ~ Ends(w)
    BY <1>0, <2>1 DEF Ends, Typed, WorkerOK, WorkerTypes
  <2>3. task' = task
    BY <1>0, <1>5, <2>2, TurnStep
  <2>. QED BY <1>0, <1>1, <1>5, <2>1, <2>2, <2>3, TurnStep DEF Keeps
<1>6. ASSUME NEW w \in Workers, ClaimTask(w) \/ ClaimNothing(w)
      PROVE  status'[task'[v]] \in {"processing", "committed"}
  <2>1. v = w
    BY DEF OneWorker
  <2>2. task[v] \notin Imports
    <3>1. pc[v] \in Free
      BY <1>0, <1>6, <2>1, RecoveryStep DEF OneAtATime, Free, Looking
    <3>. QED BY <1>0, <3>1 DEF Typed, WorkerOK, HoldsTask
  <2>3. PICK u \in Tasks : /\ status' = [Recovered(w) EXCEPT ![u] = "processing"]
                           /\ task' = [task EXCEPT ![w] = u]
    BY <1>0, <1>6, <2>2, RecoveryStep DEF OneAtATime
  <2>. QED BY <1>0, <2>1, <2>3 DEF Typed, WorkerOK, WorkerTypes, Recovered
<1>. QED BY <1>2, <1>3, <1>4, <1>5, <1>6, ActorCases

LEMMA OneAtATimeNext ==
  ASSUME OneWorker, OneRequest, Inductive, OneAtATime, [Next]_vars
  PROVE  OneAtATime'
<1>1. CASE Next
  BY <1>1, RequestsStayInTurn, ScansStayInTurn, ImportsStayHeld DEF OneAtATime
<1>2. CASE UNCHANGED vars
  BY <1>2 DEF vars, rows, worker, outside, history, OneAtATime, RequestsInTurn, ScanInTurn,
              ImportHeld, Loaded
<1>. QED BY <1>1, <1>2

LEMMA OneAtATimeAlways ==
  ASSUME OneWorker, OneRequest
  PROVE  Spec => [](Inductive /\ OneAtATime)
<1>1. Init => OneAtATime
  BY TasksAssumption DEF Init, OneAtATime, RequestsInTurn, ScanInTurn, ImportHeld, Loaded, Tasks
<1>. QED BY <1>1, OneAtATimeNext, QueueIsSafe, PTL DEF Spec

-----------------------------------------------------------------------------
(* The order of the line. *)

Line == InLine(status, seen)

\* Queued tasks, and those a recovery is about to queue, are ordered by their
\* queued_at, up to ties.
InOrder ==
  /\ \A t \in Tasks : ahead[t] \subseteq Line /\ (t \notin Line => ahead[t] = {})
  /\ \A x, y \in Line : x \in ahead[y] => y \notin ahead[x]
  /\ \A x, y, z \in Line : x \in ahead[z] => x \in ahead[y] \/ y \in ahead[z]

\* Whoever joins the line joins it at the end.
Moves(now) ==
  /\ now \cap Line = {} /\ Line' \subseteq Line \cup now
  /\ \A t \in now : status[t] # "cancelled"
  /\ ahead' = QueueOrder(Line', now)

LEMMA MovesKeepOrder ==
  ASSUME InOrder, NEW now, Moves(now)
  PROVE  InOrder'
<1> DEFINE L == Line'
<1>0. L \subseteq Tasks
  BY DEF Line, InLine
<1>1. \A t, u \in Tasks : u \in ahead'[t] <=> /\ u \in L /\ u \notin now
                                            /\ t \in L /\ (t \in now \/ u \in ahead[t])
  BY DEF Moves, QueueOrder
<1>2. \A t \in Tasks : ahead'[t] \subseteq L /\ (t \notin L => ahead'[t] = {})
  BY <1>0 DEF Moves, QueueOrder
<1>3. \A u \in L : u \in now \/ u \in Line
  BY DEF Moves
<1> HIDE DEF L
<1>4. ASSUME NEW x \in L, NEW y \in L, x \in ahead'[y]
      PROVE  y \notin ahead'[x]
  BY <1>0, <1>1, <1>3, <1>4 DEF InOrder
<1>5. ASSUME NEW x \in L, NEW y \in L, NEW z \in L, x \in ahead'[z]
      PROVE  x \in ahead'[y] \/ y \in ahead'[z]
  BY <1>0, <1>1, <1>3, <1>5 DEF InOrder
<1>. QED BY <1>2, <1>4, <1>5 DEF InOrder, L

LEMMA StandStill ==
  ASSUME RowTypes, InOrder, UNCHANGED <<status, ahead, seen>>
  PROVE  Moves({})
<1>1. Line' = Line
  BY DEF Line, InLine
<1>2. \A t \in Tasks : ahead[t] = QueueOrder(Line, {})[t]
  <2> TAKE t \in Tasks
  <2>1. ahead[t] \subseteq Line /\ (t \notin Line => ahead[t] = {})
    BY DEF InOrder
  <2>. QED BY <2>1 DEF QueueOrder
<1>3. ahead = QueueOrder(Line, {})
  BY <1>2 DEF RowTypes, QueueOrder
<1>. QED BY <1>1, <1>3 DEF Moves

LEMMA SetStatusMoves ==
  ASSUME RowTypes, NEW t \in Tasks, NEW s, s # "queued", SetStatus(t, s), seen' = seen
  PROVE  Moves({}) /\ older' = older
<1>1. \A u \in Tasks : status'[u] = IF u = t THEN s ELSE status[u]
  BY SetStatusEffect
<1>2. Line' \subseteq Line
  BY <1>1 DEF Line, InLine
<1>3. ahead' = QueueOrder(Line', {})
  BY DEF SetStatus, Line
<1>. QED BY <1>2, <1>3 DEF Moves, SetStatus

LEMMA RequeueMoves ==
  ASSUME RowTypes, NEW t \in Tasks, t \notin Line, status[t] # "cancelled",
         NEW n, Requeue(t, n), seen' = seen
  PROVE  Moves({t}) /\ older' = [w \in Workers |-> older[w] \ {t}]
<1>1. \A u \in Tasks : status'[u] = IF u = t THEN "queued" ELSE status[u]
  BY RequeueEffect
<1>2. Line' \subseteq Line \cup {t}
  BY <1>1 DEF Line, InLine
<1>3. ahead' = QueueOrder(Line', {t}) /\ older' = [w \in Workers |-> older[w] \ {t}]
  BY DEF Requeue, Stamp, Line
<1>. QED BY <1>2, <1>3 DEF Moves

\* A task that is neither queued nor loaded is not in line.
LEMMA OutOfLine ==
  ASSUME ScanInTurn, NEW t \in Tasks, status[t] \notin Active \cup {"queued"}
  PROVE  t \notin Line
BY DEF Line, InLine, ScanInTurn, Loaded

\* Neither is one a worker holds, when there is one worker.
LEMMA HeldOutOfLine ==
  ASSUME OneWorker, Typed, Safe, NEW w \in Workers, pc[w] \notin {"scanned"} \cup Looking,
         NEW t \in Tasks, status[t] # "queued"
  PROVE  t \notin Line
BY DEF Line, InLine, OneWorker, Safe, ScanStillTrue, Loaded

\* What one worker finds queued is the line.
LEMMA FoundIsInLine ==
  ASSUME OneWorker, ScanInTurn, NEW w \in Workers, NEW t \in Tasks
  PROVE  Found(w, t) = "queued" <=> t \in Line
<1>1. Line = {u \in Tasks : \/ status[u] = "queued"
                            \/ u \in Loaded(w) /\ Verdict(seen[w][u]) = "queued"}
  BY DEF Line, InLine, Loaded, OneWorker
<1>. QED BY <1>1 DEF Found, ScanInTurn, Active

\* The workers go on looking while somebody else moves.
Meanwhile(now) ==
  /\ Moves(now)
  /\ \A w \in Workers : older'[w] = older[w] \ now
  /\ UNCHANGED <<pc, waiting, task>>
  /\ \A u \in Line \ Line' : status'[u] = "cancelled"

LEMMA OthersMove ==
  ASSUME OneWorker, Inductive, OneAtATime, InOrder,
         \/ \E t \in Tasks :
              Admit(t) \/ Cancel(t) \/ Retry(t) \/ Age(t) \/ \E r \in Requests : Open(r, t)
         \/ \E r \in Requests : Submit(r)
         \/ \E w \in Workers : RequestStop(w) \/ Pulse(w)
  PROVE  \E now : Meanwhile(now)
<1>0. Typed /\ Safe
  BY InductiveParts
<1> USE <1>0 DEF Typed
<1>1. ASSUME UNCHANGED <<status, ahead, older, seen, pc, waiting, task>>
      PROVE  Meanwhile({})
  <2>1. Line' = Line
    BY <1>1 DEF Line, InLine
  <2>. QED BY <1>1, <2>1, StandStill DEF Meanwhile
<1>2. ASSUME NEW t \in Tasks, NEW n, Requeue(t, n), UNCHANGED <<seen, pc, waiting, task>>,
             status[t] \in {"absent", "failed"}
      PROVE  Meanwhile({t})
  <2>1. t \notin Line
    BY <1>2, OutOfLine DEF OneAtATime, Active
  <2>2. Moves({t}) /\ older' = [w \in Workers |-> older[w] \ {t}]
    BY <1>2, <2>1, RequeueMoves
  <2>3. Line \subseteq Line'
    BY <1>2, RequeueEffect DEF Line, InLine
  <2>. QED BY <1>2, <2>2, <2>3 DEF Meanwhile
<1>3. ASSUME NEW t \in Tasks, Cancel(t)
      PROVE  Meanwhile({})
  <2>1. UNCHANGED <<seen, pc, waiting, task>>
    BY <1>3 DEF Cancel, worker
  <2>2. PICK s \in {"cancelled", "cancelling"} :
          SetStatus(t, s) /\ (s = "cancelled" \/ status[t] = "processing")
    BY <1>3 DEF Cancel
  <2>3. Moves({}) /\ older' = older
    BY <2>1, <2>2, SetStatusMoves
  <2>4. ASSUME NEW u \in Line \ Line'
        PROVE  status'[u] = "cancelled"
    <3>1. u \in Tasks /\ status[u] = "queued" /\ status'[u] # "queued"
      BY <2>1, <2>4 DEF Line, InLine
    <3>2. u = t
      BY <2>2, <3>1, SetStatusEffect
    <3>. QED BY <2>2, <3>1, <3>2, SetStatusEffect
  <2>. QED BY <2>1, <2>3, <2>4 DEF Meanwhile
<1>4. ASSUME NEW t \in Tasks, Admit(t) \/ Retry(t)
      PROVE  Meanwhile({t})
  <2>1. UNCHANGED <<seen, pc, waiting, task>> /\ status[t] \in {"absent", "failed"}
    BY <1>4 DEF Admit, Retry, worker, history
  <2>2. Requeue(t, 0)
    BY <1>4 DEF Admit, Retry
  <2>. QED BY <1>2, <2>1, <2>2
<1>5. ASSUME NEW t \in Tasks, Age(t) \/ \E r \in Requests : Open(r, t)
      PROVE  Meanwhile({})
  BY <1>1, <1>5 DEF Age, Open, rows, worker, outside, history
<1>6. ASSUME NEW r \in Requests, Submit(r)
      PROVE  Meanwhile({request[r].on})
  <2>1. UNCHANGED <<seen, pc, waiting, task>> /\ \E n : Requeue(request[r].on, n)
    BY <1>6 DEF Submit, worker
  <2>2. request[r].on \in Tasks /\ status[request[r].on] \in {"absent", "failed"}
    BY <1>6, SubmitStep DEF OneAtATime
  <2>. QED BY <1>2, <2>1, <2>2
<1>7. ASSUME NEW w \in Workers, RequestStop(w) \/ Pulse(w)
      PROVE  Meanwhile({})
  BY <1>1, <1>7 DEF RequestStop, Pulse, rows, history
<1>. QED BY <1>3, <1>4, <1>5, <1>6, <1>7

\* Scans, crashes and claims move the line as well.
LEMMA WorkersMove ==
  ASSUME OneWorker, Inductive, OneAtATime, InOrder, NEW w \in Workers,
         ProcessAction(w) \/ ClaimTask(w) \/ ClaimNothing(w) \/ TurnAction(w)
  PROVE  \E now : Moves(now)
<1>0. Typed /\ Safe
  BY InductiveParts
<1> USE <1>0 DEF Typed
<1>1. CASE UNCHANGED <<status, ahead, seen>>
  BY <1>1, StandStill
<1>2. CASE Scan(w)
  <2> DEFINE now == {t \in Stranded : Verdict(RowOf(t)) = "queued"}
  <2>1. status' = status /\ ahead' = QueueOrder(Line', now)
    BY <1>2 DEF Scan, Stamp, Line
  <2>2. \A t \in Tasks : seen'[w][t] = IF t \in Stranded THEN RowOf(t) ELSE NotLoaded
    BY <1>2 DEF Scan, WorkerOK, WorkerTypes
  <2>3. Line' = {t \in Tasks : \/ status[t] = "queued"
                               \/ seen'[w][t] # NotLoaded /\ Verdict(seen'[w][t]) = "queued"}
    BY <2>1 DEF Line, InLine, OneWorker, NotLoaded
  <2>4. Line' \subseteq {t \in Tasks : status[t] = "queued"} \cup now
    BY <2>2, <2>3
  <2>5. {t \in Tasks : status[t] = "queued"} \subseteq Line
    BY DEF Line, InLine
  <2>6. ASSUME NEW t \in now
        PROVE  t \notin Line /\ status[t] # "cancelled"
    <3>1. t \in Tasks /\ status[t] \in Active
      BY <2>6 DEF Stranded, RowTypes, Active
    <3>2. pc[w] \notin {"scanned"} \cup Looking
      BY <1>2 DEF Scan, Looking, Picking
    <3>. QED BY <3>1, <3>2, HeldOutOfLine DEF Active
  <2>. QED BY <2>1, <2>4, <2>5, <2>6 DEF Moves
<1>3. CASE Crash(w)
  <2>1. status' = status /\ ahead' = QueueOrder(Line', {})
    BY <1>3 DEF Crash, Forget, Line
  <2>2. \A v \in Workers : \A t \in Tasks : seen'[v][t] = NotLoaded
    BY <1>3 DEF Crash, Forget, WorkerOK, WorkerTypes, OneWorker
  <2>3. Line' \subseteq Line
    BY <2>1, <2>2 DEF Line, InLine
  <2>. QED BY <2>1, <2>3 DEF Moves
<1>4. CASE ClaimTask(w) \/ ClaimNothing(w)
  <2>1. ahead' = QueueOrder(Line', {})
    BY <1>4 DEF ClaimTask, ClaimNothing, Forget, Line
  <2>2. \A v \in Workers : \A t \in Tasks : seen'[v][t] = NotLoaded
    BY <1>4, RecoveryStep DEF OneAtATime, WorkerOK, WorkerTypes, OneWorker
  <2>3. \A t \in Tasks : status'[t] = "queued" => Recovered(w)[t] = "queued"
    BY <1>4, RecoveryStep, RecoveredType DEF OneAtATime
  <2>4. \A t \in Line' : t \in Tasks /\ Found(w, t) = "queued"
    BY <2>2, <2>3 DEF Line, InLine, Recovered
  <2>5. Line' \subseteq Line
    BY <2>4, FoundIsInLine DEF OneAtATime
  <2>. QED BY <2>1, <2>5 DEF Moves
<1>5. CASE ProcessAction(w) /\ ~Scan(w) /\ ~Crash(w)
  BY <1>1, <1>5 DEF ProcessAction, Start, RequestStop, Exit, Pulse, LookAtImports, LookAtJobs,
                    LookAtNoise, rows
<1>6. CASE TurnAction(w)
  <2>1. seen' = seen /\ task[w] \in Tasks
    BY <1>6, TurnStep
  <2>2. pc[w] \notin {"scanned"} \cup Looking
    BY <1>6 DEF Looking, Picking, TurnAction, SetBusy, ReturnClaimed, ReturnBusy, BeginJob,
       BeginImport, ReportJob, ReportImport, WorkFails, EndChunk, CommitJob, CommitImport,
       AfterCommit, HandleCancelled, HandleError, HandlerWrites
  <2>3. \/ UNCHANGED <<status, ahead>>
        \/ \E s : s # "queued" /\ SetStatus(task[w], s)
        \/ status[task[w]] = "processing" /\ \E n : Requeue(task[w], n)
    BY <1>6 DEF rows, TurnAction, SetBusy, ReturnClaimed, ReturnBusy, GiveBack, BeginJob,
       BeginImport, ReportJob, ReportImport, WorkFails, EndChunk, CommitJob, CommitImport,
       AfterCommit, HandleCancelled, HandleError, HandlerWrites
  <2>. QED BY <1>1, <2>1, <2>2, <2>3, SetStatusMoves, RequeueMoves, HeldOutOfLine
<1>. QED BY <1>2, <1>3, <1>4, <1>5, <1>6

LEMMA LineMoves ==
  ASSUME OneWorker, Inductive, OneAtATime, InOrder, Next
  PROVE  \E now : Moves(now)
BY OthersMove, WorkersMove, ActorCases DEF Meanwhile

-----------------------------------------------------------------------------
(* What a worker that looks for a task knows about the ones it found waiting. *)

\* They still wait, unless they were cancelled.
StillThere(w) == \A t \in waiting[w] : t \in Line \/ status[t] = "cancelled"

\* The import that was read is the oldest one: what was queued before it was
\* queued before every import, and waited too.
ImportNoted(w) ==
  /\ \E i \in Imports \cap waiting[w] : ahead[i] \subseteq older[w]
  /\ older[w] \cap Line \subseteq waiting[w]
  /\ \A i \in Imports \cap waiting[w] : older[w] \cap Line \subseteq ahead[i]

\* Some import has no waiting job before it ...
ImportFirst(w) ==
  \E i \in Imports \cap waiting[w] : (Jobs \ Noise) \cap waiting[w] \cap ahead[i] = {}

\* ... or every import has one, or had one that was cancelled.
JobFirst(w) ==
  \A i \in Imports \cap waiting[w] :
    \E j \in (Jobs \ Noise) \cap waiting[w] \cap older[w] :
      status[j] = "cancelled" \/ j \in ahead[i]

NoUserTask(w) == (waiting[w] \ Noise) \cap Line = {}

Watch(w) ==
  /\ StillThere(w)
  /\ pc[w] = "import_found" => ImportNoted(w)
  /\ pc[w] = "no_import" => Imports \cap waiting[w] = {}
  /\ pc[w] = "pick_import" => ImportFirst(w)
  /\ pc[w] = "pick_job" => JobFirst(w)
  /\ pc[w] \in {"no_user_task", "pick_noise"} => NoUserTask(w)

Watching == \A w \in Workers : pc[w] \in Looking => Watch(w)

\* Nothing that others do meanwhile changes it.
LEMMA WatchKept ==
  ASSUME OneWorker, Inductive, InOrder, [Next]_vars, NEW now, Meanwhile(now),
         NEW w \in Workers, Watch(w)
  PROVE  Watch(w)'
<1>0. Typed /\ Safe
  BY InductiveParts
<1> DEFINE W == waiting[w]
           L == Line
           M == Line'
           old == older[w]
           neu == older'[w]
<1>1. pc'[w] = pc[w] /\ waiting'[w] = W /\ neu = old \ now
  BY DEF Meanwhile
<1>2. W \subseteq Tasks /\ L \subseteq Tasks /\ M \subseteq Tasks
  BY <1>0 DEF Typed, RestTypes, Line, InLine
<1>3. \A t \in W : t \notin now
  BY DEF Watch, StillThere, Meanwhile, Moves
<1>4. \A t \in W \cap M : t \in L
  BY <1>3 DEF Meanwhile, Moves
<1>5. \A t \in Tasks : status[t] = "cancelled" => status'[t] = "cancelled"
  BY CancelledKept
<1>6. \A t \in L : t \in M \/ status'[t] = "cancelled"
  BY DEF Meanwhile
<1>7. \A t \in Imports \cap W : t \in L /\ t \in M
  <2>1. TypeOK' /\ ImportsRun /\ ImportsRun'
    BY InductiveNext DEF Inductive
  <2>. QED BY <1>6, <2>1 DEF ImportsRun, Watch, StillThere
<1>8. \A t, u \in Tasks : u \in ahead'[t] <=> /\ u \in M /\ u \notin now
                                            /\ t \in M /\ (t \in now \/ u \in ahead[t])
  BY DEF Meanwhile, Moves, QueueOrder
<1>9. M \subseteq L \cup now /\ ahead'  \in [Tasks -> SUBSET M]
  BY DEF Meanwhile, Moves, QueueOrder
<1>t. Imports \subseteq Tasks /\ Jobs \subseteq Tasks
  BY DEF Tasks
<1> HIDE DEF W, L, M, old, neu
<1>10. StillThere(w)'
  BY <1>1, <1>2, <1>5, <1>6 DEF Watch, StillThere, L, M, W
<1>11. ASSUME ImportNoted(w) PROVE ImportNoted(w)'
  <2>1. PICK i \in Imports \cap W : ahead[i] \subseteq old
    BY <1>11 DEF ImportNoted, W, old
  <2>2. ahead'[i] \subseteq neu
    BY <1>1, <1>2, <1>3, <1>8, <1>9, <1>t, <2>1
  <2>3. neu \cap M \subseteq W
    BY <1>1, <1>9, <1>11 DEF ImportNoted, W, old, L
  <2>4. ASSUME NEW t \in Imports \cap W PROVE neu \cap M \subseteq ahead'[t]
    <3>1. old \cap L \subseteq ahead[t]
      BY <1>11, <2>4 DEF ImportNoted, W, old, L
    <3>2. t \in M
      BY <1>7, <2>4
    <3>. QED BY <1>1, <1>2, <1>8, <1>9, <1>t, <2>4, <3>1, <3>2
  <2>. QED BY <1>1, <2>2, <2>3, <2>4 DEF ImportNoted, neu, M
<1>12. ASSUME ImportFirst(w) PROVE ImportFirst(w)'
  <2>1. PICK i \in Imports \cap W : (Jobs \ Noise) \cap W \cap ahead[i] = {}
    BY <1>12 DEF ImportFirst, W
  <2>2. (Jobs \ Noise) \cap W \cap ahead'[i] = {}
    BY <1>2, <1>3, <1>8, <1>t, <2>1
  <2>. QED BY <1>1, <2>1, <2>2 DEF ImportFirst
<1>13. ASSUME JobFirst(w) PROVE JobFirst(w)'
  <2>1. ASSUME NEW i \in Imports \cap W
        PROVE  \E j \in (Jobs \ Noise) \cap W \cap neu : status'[j] = "cancelled" \/ j \in ahead'[i]
    <3>1. PICK j \in (Jobs \ Noise) \cap W \cap old : status[j] = "cancelled" \/ j \in ahead[i]
      BY <1>13, <2>1 DEF JobFirst, W, old
    <3>2. j \in Tasks /\ i \in Tasks /\ j \notin now /\ j \in neu /\ i \in M
      BY <1>1, <1>3, <1>7, <1>t, <2>1, <3>1
    <3>3. j \in ahead[i] => j \in L
      BY <3>2 DEF InOrder, L
    <3>4. status'[j] = "cancelled" \/ j \in ahead'[i]
      BY <1>5, <1>6, <1>8, <3>1, <3>2, <3>3
    <3>. QED BY <3>1, <3>2, <3>4
  <2>. QED BY <1>1, <2>1 DEF JobFirst, neu
<1>14. ASSUME NoUserTask(w) PROVE NoUserTask(w)'
  BY <1>1, <1>4, <1>14 DEF NoUserTask, W, L, M
<1>. QED BY <1>1, <1>10, <1>11, <1>12, <1>13, <1>14 DEF Watch, W

\* What is read is what is in line.
LEMMA QueuedIsInLine ==
  ASSUME OneWorker, ScanInTurn, NEW w \in Workers, NEW S, S \subseteq Tasks
  PROVE  Queued(w, S) = S \cap Line
BY FoundIsInLine DEF Queued

\* The worker reads the oldest import ...
LEMMA ImportsRead ==
  ASSUME OneWorker, Inductive, OneAtATime, InOrder, NEW w \in Workers, LookAtImports(w)
  PROVE  Watch(w)'
<1>0. Typed /\ Safe
  BY InductiveParts
<1>1. Line' = Line /\ ahead' = ahead
  BY DEF LookAtImports, Line, InLine
<1>2. waiting'[w] = Line
  <2>1. Queued(w, Tasks) = Line
    BY QueuedIsInLine DEF OneAtATime, Line, InLine
  <2>. QED BY <1>0, <2>1 DEF LookAtImports, Typed, RestTypes
<1>3. Queued(w, Imports) = Imports \cap Line
  BY QueuedIsInLine DEF OneAtATime, Tasks
<1>4. StillThere(w)'
  BY <1>1, <1>2 DEF StillThere
<1>5. ASSUME NEW i \in Oldest(Queued(w, Imports)), older' = [older EXCEPT ![w] = ahead[i]]
      PROVE  ImportNoted(w)'
  <2>1. i \in Imports \cap Line /\ \A u \in Imports \cap Line : u \notin ahead[i]
    BY <1>3, <1>5 DEF Oldest
  <2>2. older'[w] = ahead[i] /\ ahead[i] \subseteq Line
    BY <1>0, <1>5, <2>1 DEF Typed, RowTypes, InOrder, Tasks
  <2>3. ASSUME NEW t \in Imports \cap Line, NEW u \in ahead[i]
        PROVE  u \in ahead[t]
    BY <2>1, <2>2, <2>3 DEF InOrder
  <2>. QED BY <1>1, <1>2, <2>1, <2>2, <2>3 DEF ImportNoted
<1>6. \/ pc'[w] = "import_found" /\ ImportNoted(w)'
      \/ pc'[w] = "no_import" /\ Imports \cap waiting'[w] = {}
  BY <1>0, <1>2, <1>3, <1>5 DEF LookAtImports, Goto, Typed, WorkerOK, WorkerTypes
<1>. QED BY <1>4, <1>6 DEF Watch

\* ... then the oldest job, and chooses ...
LEMMA JobsRead ==
  ASSUME OneWorker, Inductive, OneAtATime, InOrder, NEW w \in Workers, Watch(w), LookAtJobs(w)
  PROVE  Watch(w)'
<1>0. Typed /\ Safe
  BY InductiveParts
<1> DEFINE J == (Jobs \ Noise) \cap Line
<1>1. Queued(w, Jobs \ Noise) = J /\ J \subseteq Line
  BY QueuedIsInLine DEF OneAtATime, Tasks
<1>2. Line' = Line /\ ahead' = ahead /\ status' = status /\ waiting' = waiting /\ older' = older
  BY DEF LookAtJobs, Line, InLine, rows, history
<1>3. StillThere(w)'
  BY <1>2 DEF Watch, StillThere
<1>4. pc[w] \in {"import_found", "no_import"}
  BY DEF LookAtJobs
<1>5. \A i \in Imports \cap waiting[w] : i \in Line
  BY <1>0 DEF Watch, StillThere, Safe, ImportsRun
<1>6. CASE pc[w] = "import_found" /\ Oldest(J) \cap older[w] # {} /\ Goto(w, "pick_job")
  <2>1. PICK j \in Oldest(J) : j \in older[w]
    BY <1>6
  <2>2. j \in (Jobs \ Noise) \cap Line
    BY <2>1 DEF Oldest
  <2>3. j \in waiting[w] /\ \A i \in Imports \cap waiting[w] : j \in ahead[i]
    BY <1>6, <2>1, <2>2 DEF Watch, ImportNoted
  <2>4. JobFirst(w)'
    BY <1>2, <2>1, <2>2, <2>3 DEF JobFirst
  <2>5. pc'[w] = "pick_job"
    BY <1>0, <1>6 DEF Goto, Typed, WorkerOK, WorkerTypes
  <2>. QED BY <1>3, <2>4, <2>5 DEF Watch
<1>7. CASE pc[w] = "import_found" /\ (Oldest(J) \ older[w] # {} \/ J = {}) /\ Goto(w, "pick_import")
  <2>1. PICK i \in Imports \cap waiting[w] : ahead[i] \subseteq older[w]
    BY <1>7 DEF Watch, ImportNoted
  <2>2. i \in Line
    BY <1>5
  <2>3. ASSUME NEW t \in (Jobs \ Noise) \cap ahead[i]
        PROVE  FALSE
    <3>1. t \in J
      BY <2>2, <2>3 DEF InOrder, Line, InLine
    <3>2. PICK o \in Oldest(J) : o \notin older[w]
      BY <1>7, <3>1
    <3>3. o \in J /\ t \notin ahead[o] /\ o \notin ahead[i]
      BY <2>1, <3>1, <3>2 DEF Oldest
    <3>. QED BY <2>2, <2>3, <3>1, <3>3 DEF InOrder
  <2>4. ImportFirst(w)'
    BY <1>2, <2>1, <2>3 DEF ImportFirst
  <2>5. pc'[w] = "pick_import"
    BY <1>0, <1>7 DEF Goto, Typed, WorkerOK, WorkerTypes
  <2>. QED BY <1>3, <2>4, <2>5 DEF Watch
<1>8. CASE pc[w] = "no_import" /\ J # {} /\ Goto(w, "pick_job")
  <2>1. JobFirst(w)'
    BY <1>2, <1>8 DEF Watch, JobFirst
  <2>2. pc'[w] = "pick_job"
    BY <1>0, <1>8 DEF Goto, Typed, WorkerOK, WorkerTypes
  <2>. QED BY <1>3, <2>1, <2>2 DEF Watch
<1>9. CASE pc[w] = "no_import" /\ J = {} /\ Goto(w, "no_user_task")
  <2>1. waiting[w] \subseteq Tasks
    BY <1>0 DEF Typed, RestTypes
  <2>2. NoUserTask(w)'
    BY <1>2, <1>9, <2>1 DEF Watch, NoUserTask, Tasks
  <2>3. pc'[w] = "no_user_task"
    BY <1>0, <1>9 DEF Goto, Typed, WorkerOK, WorkerTypes
  <2>. QED BY <1>3, <2>2, <2>3 DEF Watch
<1>. QED BY <1>1, <1>6, <1>7, <1>8, <1>9 DEF LookAtJobs

\* ... and asks for a noise scan only when neither is there.
LEMMA NoiseRead ==
  ASSUME Inductive, NEW w \in Workers, Watch(w), LookAtNoise(w)
  PROVE  Watch(w)'
<1>0. Typed
  BY InductiveParts
<1>1. Line' = Line /\ status' = status /\ waiting' = waiting
  BY DEF LookAtNoise, Line, InLine, rows, history
<1>2. pc[w] = "no_user_task" /\ pc'[w] \in {"pick_noise", "pick_none"}
  BY <1>0 DEF LookAtNoise, Goto, Typed, WorkerOK, WorkerTypes
<1>. QED BY <1>1, <1>2 DEF Watch, StillThere, NoUserTask

LEMMA WatchingNext ==
  ASSUME OneWorker, Inductive, OneAtATime, InOrder, Watching, Next
  PROVE  Watching'
<1>0. Typed /\ Safe
  BY InductiveParts
<1> SUFFICES ASSUME NEW w \in Workers, pc'[w] \in Looking
             PROVE  Watch(w)'
  BY DEF Watching
<1>1. CASE \/ \E t \in Tasks :
                Admit(t) \/ Cancel(t) \/ Retry(t) \/ Age(t) \/ \E r \in Requests : Open(r, t)
           \/ \E r \in Requests : Submit(r)
           \/ \E v \in Workers : RequestStop(v) \/ Pulse(v)
  <2>1. PICK now : Meanwhile(now)
    BY <1>1, OthersMove
  <2>2. Watch(w)
    BY <2>1 DEF Meanwhile, Watching
  <2>. QED BY <2>1, <2>2, WatchKept
<1>2. ASSUME NEW v \in Workers,
             Start(v) \/ Exit(v) \/ Crash(v) \/ Scan(v) \/ ClaimTask(v) \/ ClaimNothing(v)
      PROVE  FALSE
  <2>1. v = w
    BY DEF OneWorker
  <2>. QED BY <1>0, <1>2, <2>1 DEF Start, Exit, Crash, Scan, ClaimTask, ClaimNothing, Goto, Typed,
           WorkerOK, WorkerTypes, Looking, Picking
<1>3. ASSUME NEW v \in Workers, LookAtImports(v) \/ LookAtJobs(v) \/ LookAtNoise(v)
      PROVE  Watch(w)'
  <2>1. v = w
    BY DEF OneWorker
  <2>2. LookAtJobs(w) \/ LookAtNoise(w) => Watch(w)
    BY DEF LookAtJobs, LookAtNoise, Watching, Looking
  <2>. QED BY <1>3, <2>1, <2>2, ImportsRead, JobsRead, NoiseRead
<1>4. ASSUME NEW v \in Workers, TurnAction(v)
      PROVE  FALSE
  <2>1. v = w /\ pc[v] \notin Looking
    BY <1>4 DEF OneWorker, Looking, Picking, TurnAction, SetBusy, ReturnClaimed, ReturnBusy,
       BeginJob, BeginImport, ReportJob, ReportImport, WorkFails, EndChunk, CommitJob,
       CommitImport, AfterCommit, HandleCancelled, HandleError, HandlerWrites
  <2>2. \/ pc' = pc
        \/ \E step \in Steps \ Looking : Goto(v, step)
    BY <1>4 DEF worker, TurnAction, SetBusy, ReturnClaimed, ReturnBusy, BeginJob, BeginImport,
       ReportJob, ReportImport, WorkFails, EndChunk, CommitJob, CommitImport, AfterCommit,
       HandleCancelled, HandleError, HandlerWrites, EndTurn, GoOn, Steps, Free, Looking, Picking
  <2>. QED BY <1>0, <2>1, <2>2 DEF Goto, Typed, WorkerOK, WorkerTypes
<1>5. CASE \E v \in Workers : ProcessAction(v)
  BY <1>1, <1>2, <1>3, <1>5 DEF ProcessAction
<1>. QED BY <1>1, <1>2, <1>3, <1>4, <1>5, ActorCases

-----------------------------------------------------------------------------
(* Nobody overtakes. *)

\* A claim takes no noise scan while a task that was found waiting is there,
\* and what it takes has no such task before it that it may not pass.
LEMMA ClaimInTurn ==
  ASSUME OneWorker, Inductive, OneAtATime, InOrder, Watching, NEW w \in Workers, ClaimTask(w),
         NEW t \in Tasks \ Noise, status[t] = "queued", t \in waiting[w]
  PROVE  task'[w] \notin Noise /\ (t \in ahead[task'[w]] => MayPass(w, t))
<1>0. Typed /\ Safe
  BY InductiveParts
<1>1. pc[w] \in Picking /\ Watch(w)
  BY DEF ClaimTask, Watching, Looking
<1>2. PICK x \in Wanted(w) : PassOver(w, ahead[x] \cap Wanted(w)) /\ task' = [task EXCEPT ![w] = x]
  BY DEF ClaimTask
<1>3. task'[w] = x
  BY <1>0, <1>2 DEF Typed, WorkerOK, WorkerTypes
<1>4. t \in Line /\ x \in Line /\ Line \subseteq Tasks
  BY <1>2, WantedQueued, FoundIsInLine DEF OneAtATime, Line, InLine
<1>5. /\ pc[w] = "pick_import" => Wanted(w) = Imports \cap Line
      /\ pc[w] = "pick_job" => Wanted(w) = (Jobs \ Noise) \cap Line
  BY QueuedIsInLine DEF OneAtATime, Wanted, Tasks
<1>6. pc[w] \in {"pick_import", "pick_job"}
  BY <1>1, <1>2, <1>4 DEF Picking, Wanted, Watch, NoUserTask
<1>7. x \notin Noise
  BY <1>2, <1>5, <1>6, TasksAssumption
<1>8. ASSUME t \in ahead[x], ahead[x] \cap Wanted(w) = {}
      PROVE  MayPass(w, t)
  <2>1. t \in Imports \/ t \in Jobs \ Noise
    BY DEF Tasks
  <2>2. CASE pc[w] = "pick_import"
    <3>1. t \in Jobs \ Noise
      BY <1>4, <1>5, <1>8, <2>1, <2>2
    <3>2. PICK i \in Imports \cap waiting[w] : t \notin ahead[i]
      BY <1>1, <2>2, <3>1 DEF Watch, ImportFirst
    <3>3. i \in Line
      BY <1>0, <1>1 DEF Watch, StillThere, Safe, ImportsRun
    <3>4. i \in ahead[x]
      BY <1>4, <1>8, <3>2, <3>3 DEF InOrder
    <3>. QED BY <1>5, <1>8, <2>2, <3>3, <3>4
  <2>3. CASE pc[w] = "pick_job"
    <3>1. t \in Imports
      BY <1>4, <1>5, <1>8, <2>1, <2>3
    <3>2. PICK j \in (Jobs \ Noise) \cap waiting[w] \cap older[w] :
            status[j] = "cancelled" \/ j \in ahead[t]
      BY <1>1, <2>3, <3>1 DEF Watch, JobFirst
    <3>3. ASSUME j \in ahead[t] PROVE FALSE
      <4>1. j \in Line /\ j \in Wanted(w)
        BY <1>4, <1>5, <2>3, <3>3 DEF InOrder
      <4>2. j \in ahead[x] \/ x \in ahead[t]
        BY <1>4, <3>3, <4>1 DEF InOrder
      <4>. QED BY <1>4, <1>8, <4>1, <4>2 DEF InOrder
    <3>. QED BY <3>1, <3>2, <3>3 DEF MayPass
  <2>. QED BY <1>6, <2>2, <2>3
<1>9. faults' < faults \/ ahead[x] \cap Wanted(w) = {}
  BY <1>0, <1>2, PassOverFaults DEF PassOver, Typed, RestTypes
<1>. QED BY <1>3, <1>7, <1>8, <1>9 DEF MayPass

LEMMA QueuedStaysAhead ==
  ASSUME OneWorker, Inductive, OneAtATime, InOrder, Watching, Next,
         NEW t \in Tasks \ Noise, status[t] = "queued", status'[t] = "queued"
  PROVE  /\ ahead'[t] \subseteq ahead[t]
         /\ \A w \in Workers : task[w] = Nobody /\ task'[w] # Nobody /\ t \in waiting[w] =>
              task'[w] \notin Noise /\ (t \in ahead[task'[w]] => MayPass(w, t))
<1>0. Typed /\ Safe
  BY InductiveParts
<1>1. ahead'[t] \subseteq ahead[t]
  <2>1. PICK now : Moves(now)
    BY LineMoves
  <2>2. t \in Line
    BY DEF Line, InLine
  <2>. QED BY <2>1, <2>2 DEF Moves, QueueOrder
<1>2. ASSUME NEW w \in Workers, task[w] = Nobody, task'[w] # Nobody
      PROVE  ClaimTask(w)
  <2>1. ASSUME NEW v \in Workers, task' = task \/ Ends(v) PROVE FALSE
    BY <1>0, <1>2, <2>1 DEF Ends, Typed, WorkerOK, WorkerTypes
  <2>2. ASSUME NEW u \in Tasks,
               Admit(u) \/ Cancel(u) \/ Retry(u) \/ Age(u) \/ \E q \in Requests : Open(q, u)
        PROVE  FALSE
    BY <1>0, <1>2, <2>2, UserStep
  <2>3. ASSUME NEW q \in Requests, Submit(q) PROVE FALSE
    BY <1>0, <1>2, <2>3, SubmitStep DEF OneAtATime
  <2>4. ASSUME NEW v \in Workers, ProcessAction(v) \/ TurnAction(v) PROVE FALSE
    BY <1>0, <2>1, <2>4, ProcessStep, TurnStep
  <2>5. ASSUME NEW v \in Workers, ClaimNothing(v) PROVE FALSE
    BY <2>1, <2>5 DEF ClaimNothing
  <2>6. PICK v \in Workers : ClaimTask(v)
    BY <2>2, <2>3, <2>4, <2>5, ActorCases
  <2>. QED BY <2>6 DEF OneWorker
<1>. QED BY <1>1, <1>2, ClaimInTurn

\* While a user task waits, nothing gets ahead of it; and a worker that found
\* it waiting takes no noise scan, and nothing that was queued after it unless
\* a row was locked, or a job before the import it read was cancelled, between
\* its choice of a kind and its claim (_oldest_task_kind, claim_next_job,
\* claim_next_import, _requeue_unstarted_task) -- whatever is retried,
\* recovered, handed back or crashes.
THEOREM NobodyEverOvertakes ==
  ASSUME OneWorker, OneRequest
  PROVE  Spec => NobodyOvertakes
<1>1. Init => InOrder /\ Watching
  BY DEF Init, InOrder, Watching, Line, InLine, Looking, Picking
<1>2. Inductive /\ OneAtATime /\ InOrder /\ Watching /\ [Next]_vars => (InOrder /\ Watching)'
  <2>1. ASSUME Inductive, OneAtATime, InOrder, Watching, Next PROVE InOrder' /\ Watching'
    BY <2>1, LineMoves, MovesKeepOrder, WatchingNext
  <2>2. ASSUME InOrder, Watching, UNCHANGED vars PROVE InOrder' /\ Watching'
    <3>1. UNCHANGED <<status, seen, ahead, older, waiting, pc>> /\ Line' = Line
      BY <2>2 DEF vars, rows, worker, history, Line, InLine
    <3>2. InOrder'
      BY <2>2, <3>1 DEF InOrder
    <3>3. \A w \in Workers : Watch(w) => Watch(w)'
      BY <3>1 DEF Watch, StillThere, ImportNoted, ImportFirst, JobFirst, NoUserTask
    <3>. QED BY <2>2, <3>1, <3>2, <3>3 DEF Watching
  <2>. QED BY <2>1, <2>2
<1>3. Inductive /\ OneAtATime /\ InOrder /\ Watching /\ [Next]_vars =>
        [\A t \in Tasks \ Noise :
           status[t] = "queued" /\ status'[t] = "queued" /\ ~Submitted(t) =>
             /\ ahead'[t] \subseteq ahead[t]
             /\ \A w \in Workers :
                  task[w] = Nobody /\ task'[w] # Nobody /\ t \in waiting[w] =>
                    /\ task'[w] \notin Noise
                    /\ t \in ahead[task'[w]] => MayPass(w, t)]_vars
  BY QueuedStaysAhead
<1>. QED BY <1>1, <1>2, <1>3, OneAtATimeAlways, PTL DEF Spec, NobodyOvertakes

-----------------------------------------------------------------------------
(* The refinement. *)

\* Without errors after a commit no handler meets a committed row.
Quiet ==
  /\ demoted = {}
  /\ \A w \in Workers : task[w] # Nobody =>
       IF pc[w] = "published" THEN status[task[w]] = "committed"
       ELSE status[task[w]] \in Active

LEMMA QuietNext ==
  ASSUME OneWorker, LateErrors = {}, Inductive, OneAtATime, Quiet, Next
  PROVE  Quiet'
<1>0. Typed /\ Safe
  BY InductiveParts
<1>1. ASSUME NEW v \in Workers, task[v] # Nobody, task' = task, pc' = pc,
             NEW t \in Tasks, Writes(t),
             \/ Keeps(t)
             \/ status[t] \in {"absent", "failed"}
             \/ status[t] = "queued"
             \/ status[t] = "processing" /\ status'[t] = "cancelling"
      PROVE  IF pc'[v] = "published" THEN status'[task'[v]] = "committed"
             ELSE status'[task'[v]] \in Active
  <2>1. task[v] \in Tasks
    BY <1>0, <1>1 DEF Typed, WorkerOK, WorkerTypes
  <2>. QED BY <1>1, <2>1 DEF Quiet, Writes, Keeps, Active
<1>2. ASSUME NEW u \in Tasks,
             Admit(u) \/ Cancel(u) \/ Retry(u) \/ Age(u) \/ \E q \in Requests : Open(q, u)
      PROVE  Quiet'
  <2>1. demoted' = {} /\ task' = task /\ pc' = pc
    BY <1>0, <1>2, UserStep DEF Quiet
  <2>2. \/ Keeps(u)
        \/ status[u] \in {"absent", "failed"}
        \/ status[u] = "queued"
        \/ status[u] = "processing" /\ status'[u] = "cancelling"
    BY <1>0, <1>2, UserStep
  <2>3. Writes(u)
    BY <1>0, <1>2, UserStep
  <2>. QED BY <1>1, <2>1, <2>2, <2>3 DEF Quiet
<1>3. ASSUME NEW q \in Requests, Submit(q)
      PROVE  Quiet'
  BY <1>0, <1>1, <1>3, SubmitStep DEF Quiet, OneAtATime
<1>4. ASSUME NEW w \in Workers, ProcessAction(w)
      PROVE  Quiet'
  <2>1. demoted' = {} /\ status' = status /\ Workers = {w}
    BY <1>0, <1>4, ProcessStep DEF Quiet, OneWorker
  <2>2. CASE Ends(w)
    BY <1>0, <2>1, <2>2 DEF Quiet, Ends, Typed, WorkerOK, WorkerTypes
  <2>3. CASE task' = task /\ pc' = pc
    BY <2>1, <2>3 DEF Quiet
  <2>4. CASE task' = task /\ pc'[w] \in Free /\ pc[w] \in Free
    BY <1>0, <2>1, <2>4 DEF Quiet, Typed, WorkerOK, HoldsTask
  <2>. QED BY <1>0, <1>4, <2>2, <2>3, <2>4, ProcessStep
<1>5. ASSUME NEW w \in Workers, TurnAction(w)
      PROVE  Quiet'
  <2> DEFINE t == task[w]
  <2>1. t \in Tasks /\ t # Nobody /\ Workers = {w}
    BY <1>0, <1>5, TurnStep, TasksAssumption DEF OneWorker
  <2>2. CASE Ends(w)
    <3>1. task'[w] = Nobody
      BY <1>0, <2>2 DEF Ends, Typed, WorkerOK, WorkerTypes
    <3>2. pc[w] \in {"write_cancelled", "write_failed"} => status[t] # "committed"
      BY <2>1 DEF Quiet, Active
    <3>3. demoted' = demoted
      BY <1>0, <1>5, <2>2, <3>2, TurnStep
    <3>. QED BY <2>1, <3>1, <3>3 DEF Quiet
  <2>3. CASE task' = task /\ Keeps(t) /\ demoted' = demoted /\
             (pc' = pc \/ (pc[w] # "published" /\ pc'[w] # "published"))
    BY <2>1, <2>3 DEF Quiet, Keeps
  <2>4. CASE task' = task /\ status'[t] = "committed" /\ pc'[w] = "published" /\ demoted' = demoted
    BY <2>1, <2>4 DEF Quiet
  <2>. QED BY <1>0, <1>5, <2>2, <2>3, <2>4, TurnStep
<1>6. ASSUME NEW w \in Workers, ClaimTask(w) \/ ClaimNothing(w)
      PROVE  Quiet'
  <2>1. Workers = {w} /\ task[w] = Nobody /\ demoted' = {}
    <3>1. pc[w] \in Free
      BY <1>0, <1>6, RecoveryStep DEF OneAtATime, Free, Looking
    <3>. QED BY <1>0, <1>6, <3>1, RecoveryStep DEF OneWorker, Typed, WorkerOK, HoldsTask, OneAtATime, Quiet
  <2>2. CASE task' = task
    BY <2>1, <2>2 DEF Quiet
  <2>3. CASE \E u \in Tasks : /\ status' = [Recovered(w) EXCEPT ![u] = "processing"]
                              /\ task' = [task EXCEPT ![w] = u] /\ pc'[w] = "claimed"
    BY <1>0, <2>1, <2>3 DEF Quiet, Typed, WorkerOK, WorkerTypes, Recovered, Active
  <2>. QED BY <1>0, <1>6, <2>2, <2>3, RecoveryStep DEF OneAtATime
<1>. QED BY <1>2, <1>3, <1>4, <1>5, <1>6, ActorCases

\* One row is written, and what is shown of it changes as the lifecycle says.
LEMMA RowImplements ==
  ASSUME Typed, NEW t \in Tasks, Writes(t), status' \in [Tasks -> Status],
         \/ /\ commits' = commits
            /\ \/ Shown(status'[t]) = Shown(status[t])
               \/ status[t] \in {"absent", "failed"} /\ status'[t] = "queued"
               \/ /\ status[t] \in {"queued", "processing", "cancelling"}
                  /\ status'[t] \in {"cancelled", "failed"}
         \/ /\ commits' = [commits EXCEPT ![t] = @ + 1]
            /\ status[t] \in {"queued", "processing", "cancelling"} /\ status'[t] = "committed"
  PROVE  [Lifecycle!Next]_(Lifecycle!vars)
<1> DEFINE o == [u \in Tasks |-> Shown(status[u])]
           n == [u \in Tasks |-> Shown(status'[u])]
<1>1. \A u \in Tasks \ {t} : n[u] = o[u]
  BY DEF Writes
<1>2. CASE commits' = commits /\ Shown(status'[t]) = Shown(status[t])
  <2>1. n = o
    BY <1>1, <1>2
  <2>. QED BY <1>2, <2>1 DEF Lifecycle!vars
<1>3. CASE commits' = commits /\ status[t] = "absent" /\ status'[t] = "queued"
  <2>1. o[t] = "none" /\ n = [o EXCEPT ![t] = "pending"]
    BY <1>1, <1>3 DEF Shown
  <2>2. Lifecycle!Submit(t)
    BY <1>3, <2>1 DEF Lifecycle!Submit, Lifecycle!Move
  <2>. QED BY <2>2 DEF Lifecycle!Next
<1>4. CASE commits' = commits /\ status[t] = "failed" /\ status'[t] = "queued"
  <2>1. o[t] = "failed" /\ n = [o EXCEPT ![t] = "pending"]
    BY <1>1, <1>4 DEF Shown
  <2>2. Lifecycle!Resume(t)
    BY <1>4, <2>1 DEF Lifecycle!Resume, Lifecycle!Move
  <2>. QED BY <2>2 DEF Lifecycle!Next
<1>5. CASE /\ commits' = commits /\ status[t] \in {"queued", "processing", "cancelling"}
           /\ status'[t] = "failed"
  <2>1. o[t] = "pending" /\ n = [u \in Tasks |-> IF u \in {t} THEN "failed"
                                               ELSE IF u \in {} THEN "cancelled" ELSE o[u]]
    BY <1>1, <1>5 DEF Shown
  <2>2. Lifecycle!GiveUp({t}, {})
    BY <1>5, <2>1 DEF Lifecycle!GiveUp
  <2>. QED BY <2>2 DEF Lifecycle!Next
<1>6. CASE /\ commits' = commits /\ status[t] \in {"queued", "processing", "cancelling"}
           /\ status'[t] = "cancelled"
  <2>1. o[t] = "pending" /\ n = [u \in Tasks |-> IF u \in {} THEN "failed"
                                               ELSE IF u \in {t} THEN "cancelled" ELSE o[u]]
    BY <1>1, <1>6 DEF Shown
  <2>2. Lifecycle!GiveUp({}, {t})
    BY <1>6, <2>1 DEF Lifecycle!GiveUp
  <2>. QED BY <2>2 DEF Lifecycle!Next
<1>7. CASE /\ commits' = [commits EXCEPT ![t] = @ + 1]
           /\ status[t] \in {"queued", "processing", "cancelling"} /\ status'[t] = "committed"
  <2>1. o[t] = "pending" /\ n = [o EXCEPT ![t] = "done"]
    BY <1>1, <1>7 DEF Shown
  <2>2. Lifecycle!Publish(t)
    BY <1>7, <2>1 DEF Lifecycle!Publish, Lifecycle!Move
  <2>. QED BY <2>2 DEF Lifecycle!Next
<1>. QED BY <1>2, <1>3, <1>4, <1>5, <1>6, <1>7

\* Recovery gives up, in one transaction, on what has no attempt left or was
\* being cancelled; the rest of what it loads stays pending, and so does the
\* task that is claimed.
LEMMA RecoveryImplements ==
  ASSUME Typed, Safe, ScanInTurn, NEW w \in Workers, ClaimTask(w) \/ ClaimNothing(w)
  PROVE  Lifecycle!Next
<1> DEFINE S == {t \in Tasks : status[t] \in Active /\ Recovered(w)[t] = "failed"}
           C == {t \in Tasks : status[t] \in Active /\ Recovered(w)[t] = "cancelled"}
           o == [t \in Tasks |-> Shown(status[t])]
           n == [t \in Tasks |-> Shown(status'[t])]
<1>0. \/ status' = Recovered(w)
      \/ \E u \in Tasks : Recovered(w)[u] = "queued" /\ status' = [Recovered(w) EXCEPT ![u] = "processing"]
  BY RecoveryStep
<1>1. ASSUME NEW t \in Tasks
      PROVE  n[t] = IF t \in S THEN "failed" ELSE IF t \in C THEN "cancelled" ELSE o[t]
  <2>0. \/ status'[t] = Recovered(w)[t]
        \/ Recovered(w)[t] = "queued" /\ status'[t] = "processing"
    BY <1>0 DEF Recovered
  <2>1. CASE status[t] \notin Active
    <3>1. Recovered(w)[t] = status[t] /\ t \notin S /\ t \notin C
      BY <2>1, RecoveryStep
    <3>2. status'[t] = status[t] \/ (status[t] = "queued" /\ status'[t] = "processing")
      BY <2>0, <3>1
    <3>. QED BY <3>1, <3>2 DEF Shown
  <2>2. CASE status[t] \in Active
    <3>1. Recovered(w)[t] \in {"queued", "processing", "cancelling", "cancelled", "failed"}
      BY <2>2, RecoveryStep
    <3>2. o[t] = "pending"
      BY <2>2 DEF Shown, Active
    <3>4. CASE Recovered(w)[t] \in {"cancelled", "failed"}
      BY <2>0, <2>2, <3>4 DEF Shown
    <3>5. CASE Recovered(w)[t] \in {"queued", "processing", "cancelling"}
      BY <2>0, <3>2, <3>5 DEF Shown
    <3>. QED BY <3>1, <3>4, <3>5
  <2>. QED BY <2>1, <2>2
<1>2. \A t \in S \cup C : o[t] = "pending"
  BY DEF Shown, Active
<1>3. n = [t \in Tasks |-> IF t \in S THEN "failed" ELSE IF t \in C THEN "cancelled" ELSE o[t]]
  BY <1>1
<1>4. commits' = commits
  BY RecoveryStep
<1>5. Lifecycle!GiveUp(S, C)
  BY <1>2, <1>3, <1>4 DEF Lifecycle!GiveUp
<1>. QED BY <1>5 DEF Lifecycle!Next

LEMMA StepImplements ==
  ASSUME Inductive, Inductive', OneAtATime, Quiet, [Next]_vars
  PROVE  [Lifecycle!Next]_(Lifecycle!vars)
<1>0. Typed /\ Safe /\ status' \in [Tasks -> Status]
  BY InductiveParts DEF Inductive, TypeOK
<1>1. ASSUME NEW t \in Tasks,
             Admit(t) \/ Cancel(t) \/ Retry(t) \/ Age(t) \/ \E r \in Requests : Open(r, t)
      PROVE  [Lifecycle!Next]_(Lifecycle!vars)
  <2>1. \/ Shown(status'[t]) = Shown(status[t])
        \/ status[t] \in {"absent", "failed"} /\ status'[t] = "queued"
        \/ /\ status[t] \in {"queued", "processing", "cancelling"}
           /\ status'[t] \in {"cancelled", "failed"}
    BY <1>0, <1>1, UserStep DEF Keeps, Shown
  <2>. QED BY <1>0, <1>1, <2>1, UserStep, RowImplements
<1>2. ASSUME NEW r \in Requests, Submit(r)
      PROVE  [Lifecycle!Next]_(Lifecycle!vars)
  BY <1>0, <1>2, SubmitStep, RowImplements DEF OneAtATime
<1>3. ASSUME UNCHANGED <<status, commits>>
      PROVE  [Lifecycle!Next]_(Lifecycle!vars)
  BY <1>3 DEF Lifecycle!vars
<1>4. ASSUME NEW w \in Workers, ProcessAction(w)
      PROVE  [Lifecycle!Next]_(Lifecycle!vars)
  BY <1>0, <1>3, <1>4, ProcessStep
<1>5. ASSUME NEW w \in Workers, TurnAction(w)
      PROVE  [Lifecycle!Next]_(Lifecycle!vars)
  <2> DEFINE t == task[w]
  <2>1. t \in Tasks /\ t # Nobody /\ Writes(t)
    BY <1>0, <1>5, TurnStep, TasksAssumption
  <2>2. pc[w] # "published" => status[t] \in Active
    BY <2>1 DEF Quiet
  <2>3. pc[w] = "running" /\ t \in Imports => status[t] = "processing"
    BY <2>2 DEF OneAtATime, ImportHeld, Active
  <2>4. \/ /\ commits' = commits
           /\ \/ Shown(status'[t]) = Shown(status[t])
              \/ status[t] \in Active /\ status'[t] \in {"cancelled", "failed"}
        \/ /\ commits' = [commits EXCEPT ![t] = @ + 1]
           /\ status[t] = "processing" /\ status'[t] = "committed"
    BY <1>0, <1>5, <2>1, <2>2, <2>3, TurnStep DEF Keeps, Shown, Active, Tasks
  <2>. QED BY <1>0, <2>1, <2>4, RowImplements DEF Active
<1>6. ASSUME NEW w \in Workers, ClaimTask(w) \/ ClaimNothing(w)
      PROVE  [Lifecycle!Next]_(Lifecycle!vars)
  BY <1>0, <1>6, RecoveryImplements DEF OneAtATime
<1>7. CASE UNCHANGED vars
  BY <1>3, <1>7 DEF vars, rows, history
<1>8. CASE Next
  BY <1>1, <1>2, <1>4, <1>5, <1>6, <1>8, ActorCases
<1>. QED BY <1>7, <1>8

\* What the task list shows is a lifecycle: a task that was admitted stays
\* pending until it is done, failed or cancelled, its results appear exactly
\* when it becomes done, and only a user revives a failed one -- through every
\* crash, recovery, handed-back claim, cancellation and retry of the code.
THEOREM QueueImplementsLifecycle ==
  ASSUME OneWorker, OneRequest, LateErrors = {}
  PROVE  Spec => ImplementsLifecycle
<1>1. Init => Lifecycle!Init
  BY DEF Init, Lifecycle!Init, Shown
<1>2. Init => Quiet
  BY DEF Init, Quiet
<1>3. Inductive /\ OneAtATime /\ Quiet /\ [Next]_vars => Quiet'
  <2>1. ASSUME UNCHANGED vars, Quiet PROVE Quiet'
    BY <2>1 DEF vars, rows, worker, history, Quiet
  <2>. QED BY <2>1, QuietNext
<1>4. Inductive /\ Inductive' /\ OneAtATime /\ Quiet /\ [Next]_vars
        => [Lifecycle!Next]_(Lifecycle!vars)
  BY StepImplements
<1>. QED
  BY <1>1, <1>2, <1>3, <1>4, OneAtATimeAlways, PTL DEF Spec, ImplementsLifecycle, Lifecycle!Spec
=============================================================================
