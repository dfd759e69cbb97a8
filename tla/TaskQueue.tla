------------------------------ MODULE TaskQueue ------------------------------
(***************************************************************************)
(* The durable task queue of the API: rows of background_jobs and          *)
(* import_records, the worker loop that recovers, claims, runs and settles *)
(* them, and the task endpoints that admit, cancel and retry them.         *)
(*                                                                         *)
(* PostgreSQL runs at READ COMMITTED and a session writes a row it has     *)
(* loaded without comparing it again (UPDATE ... WHERE id = ...), so a     *)
(* read and the write that follows it are two steps here wherever another  *)
(* session can commit between them: the stale scan and its write-back, the *)
(* reads that choose a kind of task and the claim, the read and the write  *)
(* of the exception handlers, and the endpoints that queue an import.      *)
(* Statements guarded in SQL (WHERE status = 'processing') and the FOR     *)
(* UPDATE endpoints of jobs are one step.                                  *)
(*                                                                         *)
(* With one element in Workers the module is the production deployment:    *)
(* one worker process at a time, which may crash and be started again.     *)
(* With two, a second process may start while the first still runs, which  *)
(* is what worker_liveness.py guards against.                              *)
(*                                                                         *)
(* Left out: job types with a row protocol of their own                    *)
(* (support_notification, user_account_delete), the import record that an  *)
(* adaptive_import_analysis job carries along, and commits of imports      *)
(* inside the request (IMPORT_COMMIT_INLINE, off by default).              *)
(***************************************************************************)
EXTENDS Naturals, FiniteSets

CONSTANTS
  Jobs,          \* rows of background_jobs
  Imports,       \* rows of import_records
  Noise,         \* jobs of type content_noise_scan
  BatchDeletes,  \* jobs of type conversation_batch_delete
  Cancellable,   \* jobs, of a type in CANCELLABLE_JOB_TYPES, that users cancel
  Turns,         \* Turns[j]: worker turns job j takes (1, or one per chunk)
  Workers,       \* worker process slots
  Requests,      \* API threads that may be submitting an import
  Nobody,        \* no worker instance, no task
  MaxAttempts,   \* retry_policy.MAX_AUTOMATIC_ATTEMPTS
  MaxFaults,     \* bound: crashes, stop signals, failed database calls and
                 \* claims that meet rows locked by others
  MaxRetries,    \* bound: retries of tasks and repeated commits of imports
  LateErrors     \* environment: tasks that may meet a database error after
                 \* their results are committed

Tasks == Jobs \cup Imports

ASSUME TasksAssumption ==
  /\ Jobs \cap Imports = {}
  /\ Noise \subseteq Jobs
  /\ BatchDeletes \subseteq Jobs
  /\ Cancellable \subseteq Jobs
  /\ Turns \in [Jobs -> Nat \ {0}]
  /\ LateErrors \subseteq Tasks
  /\ Nobody \notin Workers \cup Tasks

ASSUME BoundsAssumption ==
  /\ MaxAttempts \in Nat \ {0}
  /\ MaxFaults \in Nat
  /\ MaxRetries \in Nat

VARIABLES
  status,      \* status column of each row
  attempts,    \* attempt_count column
  stale,       \* active rows whose heartbeat_at is before the cutoff
  ahead,       \* ahead[t]: tasks in line with an earlier queued_at than t
  older,       \* older[w]: tasks queued before the import w has found
  cursor,      \* turns of job t already handed over (payload.next_index)
  owner,       \* instance_id of the "primary" worker_runtime_states row
  pc,          \* what each worker process does next
  task,        \* the task it has claimed
  seen,        \* rows its stale scan loaded, as they were when loaded
  superseded,  \* reporter.superseded
  stop,        \* shutdown.requested
  faults,      \* faults the environment may still inject
  retries,     \* retries the user may still ask for
  request,     \* the import each API thread has loaded and will submit
  resent,      \* history: repeated commits, which keep the attempt count
  waiting,     \* history: the tasks w found queued when it began to look
  commits,     \* history: how often the results of t were published
  asked,       \* history: tasks whose cancellation was acknowledged
  demoted      \* history: committed tasks a handler or a late request rewrote

rows == <<status, attempts, stale, ahead, older, cursor>>
worker == <<owner, pc, task, seen, superseded, stop>>
outside == <<faults, retries, request, resent>>
history == <<waiting, commits, asked, demoted>>
vars == <<rows, worker, outside, history>>

Status == {"absent", "queued", "processing", "cancelling",
           "cancelled", "committed", "failed"}
Active == {"processing", "cancelling"}
Terminal == {"cancelled", "committed", "failed"}
Row == [status : Status, attempts : Nat]
NoRequest == [kind |-> "none", on |-> Nobody]
Submission == {NoRequest} \cup [kind : {"commit", "retry"}, on : Imports]
NotLoaded == [status |-> "absent", attempts |-> 0]
\* The transaction that claims has written back what it recovered and is
\* choosing: the kind it goes for is part of the step.
Picking == {"pick_import", "pick_job", "pick_noise", "pick_none"}
Looking == {"import_found", "no_import", "no_user_task"} \cup Picking
Free == {"down", "idle", "scanned"} \cup Looking     \* no task is claimed
Steps == Free \cup {"claimed", "busy", "running", "published", "cancel_raised",
                    "error_raised", "write_cancelled", "write_failed"}

TypeOK ==
  /\ status \in [Tasks -> Status]
  /\ attempts \in [Tasks -> Nat]
  /\ stale \subseteq Tasks
  /\ ahead \in [Tasks -> SUBSET Tasks]
  /\ older \in [Workers -> SUBSET Tasks]
  /\ cursor \in [Jobs -> Nat]
  /\ owner \in Workers \cup {Nobody}
  /\ pc \in [Workers -> Steps]
  /\ task \in [Workers -> Tasks \cup {Nobody}]
  /\ seen \in [Workers -> [Tasks -> Row]]
  /\ superseded \in [Workers -> BOOLEAN]
  /\ stop \in [Workers -> BOOLEAN]
  /\ faults \in 0..MaxFaults
  /\ retries \in 0..MaxRetries
  /\ request \in [Requests -> Submission]
  /\ resent \in [Imports -> Nat]
  /\ waiting \in [Workers -> SUBSET Tasks]
  /\ commits \in [Tasks -> Nat]
  /\ asked \subseteq Tasks
  /\ demoted \subseteq Tasks

Init ==
  /\ status = [t \in Tasks |-> "absent"]
  /\ attempts = [t \in Tasks |-> 0]
  /\ stale = {}
  /\ ahead = [t \in Tasks |-> {}]
  /\ older = [w \in Workers |-> {}]
  /\ cursor = [j \in Jobs |-> 0]
  /\ owner = Nobody
  /\ pc = [w \in Workers |-> "down"]
  /\ task = [w \in Workers |-> Nobody]
  /\ seen = [w \in Workers |-> [t \in Tasks |-> NotLoaded]]
  /\ superseded = [w \in Workers |-> FALSE]
  /\ stop = [w \in Workers |-> FALSE]
  /\ faults = MaxFaults
  /\ retries = MaxRetries
  /\ request = [r \in Requests |-> NoRequest]
  /\ resent = [t \in Imports |-> 0]
  /\ waiting = [w \in Workers |-> {}]
  /\ commits = [t \in Tasks |-> 0]
  /\ asked = {}
  /\ demoted = {}

-----------------------------------------------------------------------------
(* Row writes. *)

\* The rows a worker's stale scan has loaded.  Once they are written back
\* they stay locked until the transaction ends.
Loaded(w) == {t \in Tasks : seen[w][t] # NotLoaded}
Locked(t) == \E w \in Workers : pc[w] \in Looking /\ t \in Loaded(w)

\* What the recovery loops write for a row, from the row they loaded.
VerdictForever(row) == IF row.status = "cancelling" THEN "cancelled" ELSE "queued"  \* mutant
Verdict(row) ==
  IF row.status = "cancelling" THEN "cancelled"
  ELSE IF row.attempts >= MaxAttempts THEN "failed" ELSE "queued"

\* The rows whose queued_at matters: queued ones, and loaded ones that will be
\* queued again with the time their scan noted.  Every other row gets a new
\* queued_at before it is queued.
InLine(st, sn) ==
  {t \in Tasks : \/ st[t] = "queued"
                 \/ \E w \in Workers : sn[w][t] # NotLoaded /\ Verdict(sn[w][t]) = "queued"}

\* The order of the rows in line when those in now have just got their
\* queued_at.  Rows stamped together are not ordered (created_at breaks the
\* tie; the model leaves it open).
QueueOrder(line, now) ==
  [t \in Tasks |-> {u \in line \ now : t \in line /\ (t \in now \/ u \in ahead[t])}]

\* A new queued_at is also behind whatever time a worker has read.
Stamp(line, now) ==
  /\ ahead' = QueueOrder(line, now)
  /\ older' = [w \in Workers |-> older[w] \ now]

\* A row is written with a status and nothing about its place in the queue
\* or its attempts.  A task that is not active has no heartbeat to miss.
SetStatus(t, s) ==
  /\ ~Locked(t)
  /\ status' = [status EXCEPT ![t] = s]
  /\ ahead' = QueueOrder(InLine(status', seen), {})
  /\ stale' = stale \ {t}
  /\ UNCHANGED <<attempts, older, cursor>>

\* A row is put at the end of the queue with a new attempt count.
Requeue(t, n) ==
  /\ ~Locked(t)
  /\ status' = [status EXCEPT ![t] = "queued"]
  /\ Stamp(InLine(status', seen), {t})
  /\ stale' = stale \ {t}
  /\ attempts' = [attempts EXCEPT ![t] = n]

-----------------------------------------------------------------------------
(* The task endpoints. *)

\* A queue_* function inserts a job as queued.
Admit(j) ==
  /\ j \in Jobs
  /\ status[j] = "absent"
  /\ Requeue(j, 0)
  /\ UNCHANGED <<cursor, worker, outside, history>>

\* Mutant: a running task is cancelled at once, like a queued one.
CancelAtOnce(t) ==
  /\ t \in Cancellable
  /\ status[t] \in {"queued", "processing"}
  /\ SetStatus(t, "cancelled")
  /\ asked' = asked \cup {t}
  /\ UNCHANGED <<worker, outside, waiting, commits, demoted>>

\* Mutant: a failed task can be cancelled as well.
CancelFailed(t) ==
  /\ t \in Cancellable
  /\ \/ /\ status[t] \in {"queued", "failed"}
        /\ SetStatus(t, "cancelled")
     \/ /\ status[t] = "processing"
        /\ SetStatus(t, "cancelling")
  /\ asked' = asked \cup {t}
  /\ UNCHANGED <<worker, outside, waiting, commits, demoted>>

\* cancel_task: the row is locked, so read and write are one step.
Cancel(t) ==
  /\ t \in Cancellable
  /\ \/ /\ status[t] = "queued"
        /\ SetStatus(t, "cancelled")
     \/ /\ status[t] = "processing"
        /\ SetStatus(t, "cancelling")
  /\ asked' = asked \cup {t}
  /\ UNCHANGED <<worker, outside, waiting, commits, demoted>>

\* Mutant: any settled task can be started again.
RetrySettled(t) ==
  /\ retries > 0
  /\ t \in Jobs /\ status[t] \in Terminal
  /\ Requeue(t, 0)
  /\ retries' = retries - 1
  /\ asked' = asked \ {t}
  /\ UNCHANGED <<cursor, worker, faults, request, resent, waiting, commits, demoted>>

\* retry_task for a job: only a failed row, under its lock, starts again,
\* with a fresh attempt count; the job keeps its payload and with it the
\* turns already handed over.
Retry(t) ==
  /\ retries > 0
  /\ t \in Jobs /\ status[t] = "failed"
  /\ Requeue(t, 0)
  /\ retries' = retries - 1
  /\ asked' = asked \ {t}
  /\ UNCHANGED <<cursor, worker, faults, request, resent, waiting, commits, demoted>>

\* commit_import and retry_task load the import without a lock and decide to
\* queue it: the first commit, another commit of a failed import, or its
\* retry.  (commit_import locks the row of an adaptive import; retry_task
\* does not.)
Open(r, t) ==
  /\ request[r] = NoRequest
  /\ t \in Imports
  /\ \/ /\ status[t] = "absent"
        /\ request' = [request EXCEPT ![r] = [kind |-> "commit", on |-> t]]
        /\ UNCHANGED retries
     \/ /\ status[t] = "failed"
        /\ retries > 0 /\ retries' = retries - 1
        /\ \E kind \in {"commit", "retry"} :
             request' = [request EXCEPT ![r] = [kind |-> kind, on |-> t]]
  /\ UNCHANGED <<rows, worker, faults, resent, history>>

\* ... and queue it, over whatever the row holds by then.  Only a retry
\* starts the attempts over.
Submit(r) ==
  LET t == request[r].on
      again == request[r].kind = "commit" /\ status[t] # "absent"
  IN
  /\ request[r] # NoRequest
  /\ Requeue(t, IF request[r].kind = "retry" THEN 0 ELSE attempts[t])
  /\ resent' = IF again THEN [resent EXCEPT ![t] = @ + 1] ELSE resent
  /\ demoted' = IF status[t] = "committed" THEN demoted \cup {t} ELSE demoted
  /\ request' = [request EXCEPT ![r] = NoRequest]
  /\ UNCHANGED <<cursor, worker, faults, retries, waiting, commits, asked>>

\* heartbeat_at of an active row falls behind the cutoff: nobody refreshes
\* it, or the refreshes fail (the reporter swallows database errors).
Age(t) ==
  /\ status[t] \in Active
  /\ t \notin stale
  /\ stale' = stale \cup {t}
  /\ UNCHANGED <<status, attempts, ahead, older, cursor, worker, outside, history>>

-----------------------------------------------------------------------------
(* Worker processes: start, stop, crash and the liveness row. *)

Goto(w, step) == pc' = [pc EXCEPT ![w] = step]

\* The transaction of w ends: what it has read is forgotten.
Forget(w) ==
  /\ seen' = [seen EXCEPT ![w] = [t \in Tasks |-> NotLoaded]]
  /\ ahead' = QueueOrder(InLine(status', seen'), {})
  /\ older' = [older EXCEPT ![w] = {}]
  /\ waiting' = [waiting EXCEPT ![w] = {}]

\* reporter.start(): register_worker overwrites whoever owned the row.
Start(w) ==
  /\ pc[w] = "down"
  /\ Goto(w, "idle")
  /\ owner' = w
  /\ superseded' = [superseded EXCEPT ![w] = FALSE]
  /\ stop' = [stop EXCEPT ![w] = FALSE]
  /\ UNCHANGED <<rows, task, seen, outside, history>>

\* SIGTERM / SIGINT sets a flag and nothing else.
RequestStop(w) ==
  /\ pc[w] # "down" /\ ~stop[w]
  /\ faults > 0
  /\ faults' = faults - 1
  /\ stop' = [stop EXCEPT ![w] = TRUE]
  /\ UNCHANGED <<rows, owner, pc, task, seen, superseded, retries, request, resent, history>>

\* Mutant: the loop ends for a stop signal only.
ExitOnStop(w) ==
  /\ pc[w] = "idle" /\ stop[w]
  /\ Goto(w, "down")
  /\ UNCHANGED <<rows, owner, task, seen, superseded, stop, outside, history>>

\* The loop of run_task_worker_forever ends.
Exit(w) ==
  /\ pc[w] = "idle"
  /\ stop[w] \/ superseded[w]
  /\ Goto(w, "down")
  /\ UNCHANGED <<rows, owner, task, seen, superseded, stop, outside, history>>

\* SIGKILL, OOM: what the process has not committed is gone.
Crash(w) ==
  /\ pc[w] # "down"
  /\ faults > 0
  /\ faults' = faults - 1
  /\ Goto(w, "down")
  /\ task' = [task EXCEPT ![w] = Nobody]
  /\ UNCHANGED status /\ Forget(w)
  /\ UNCHANGED <<attempts, stale, cursor, owner, superseded, stop, retries, request,
                 resent, commits, asked, demoted>>

\* The heartbeat thread: pulse_worker is guarded by the instance id, the
\* task's heartbeat by its status only.
Pulse(w) ==
  /\ pc[w] # "down" /\ ~superseded[w]
  /\ IF owner = w
     THEN /\ task[w] \in stale
          /\ stale' = stale \ {task[w]}
          /\ UNCHANGED superseded
     ELSE /\ superseded' = [superseded EXCEPT ![w] = TRUE]
          /\ UNCHANGED stale
  /\ UNCHANGED <<status, attempts, ahead, older, cursor, owner, pc, task, seen, stop,
                 outside, history>>

-----------------------------------------------------------------------------
(* Recovery and claim: one transaction of run_task_worker_iteration, whose   *)
(* statements each see what others have committed before it.                *)

\* Mutant: the scan forgets jobs stranded while they were being cancelled.
StrandedProcessing == {t \in stale : status[t] = "processing"}

\* The rows recover_stale_imports and recover_stale_jobs select.
Stranded == {t \in stale : \/ t \in Jobs /\ status[t] \in Active
                           \/ t \in Imports /\ status[t] = "processing"}

RowOf(t) == [status |-> status[t], attempts |-> attempts[t]]

\* The scan loads the stranded rows and notes the time; the rows it will
\* queue again get it as their queued_at.
Scan(w) ==
  /\ pc[w] = "idle" /\ ~stop[w] /\ ~superseded[w]
  /\ Goto(w, "scanned")
  /\ seen' = [seen EXCEPT ![w] =
                [t \in Tasks |-> IF t \in Stranded THEN RowOf(t) ELSE NotLoaded]]
  /\ Stamp(InLine(status, seen'), {t \in Stranded : Verdict(RowOf(t)) = "queued"})
  /\ UNCHANGED <<status, attempts, stale, cursor, owner, task, superseded, stop,
                 outside, history>>

\* The statuses as the transaction of w sees them, and the rows of S it finds
\* queued.
Found(w, t) == IF t \in Loaded(w) THEN Verdict(seen[w][t]) ELSE status[t]
Recovered(w) == [t \in Tasks |-> Found(w, t)]
Queued(w, S) == {t \in S : Found(w, t) = "queued"}
Oldest(S) == {t \in S : ahead[t] \cap S = {}}

\* _oldest_task_kind asks three times.  The rows are written back (a row that
\* another transaction has locked makes it wait) and the oldest import is
\* read, with its queued_at ...
LookAtImports(w) ==
  /\ pc[w] = "scanned"
  /\ \A t \in Loaded(w) : ~Locked(t)
  /\ \/ \E i \in Oldest(Queued(w, Imports)) :
          /\ older' = [older EXCEPT ![w] = ahead[i]]
          /\ Goto(w, "import_found")
     \/ /\ Queued(w, Imports) = {}
        /\ Goto(w, "no_import")
        /\ UNCHANGED older
  /\ waiting' = [waiting EXCEPT ![w] = Queued(w, Tasks)]
  /\ UNCHANGED <<status, attempts, stale, ahead, cursor, owner, task, seen,
                 superseded, stop, outside, commits, asked, demoted>>

\* Mutant: a job is preferred to an import, however long that has waited.
LookAtJobsFirst(w) ==
  /\ pc[w] \in {"import_found", "no_import"}
  /\ IF Queued(w, Jobs \ Noise) # {} THEN Goto(w, "pick_job")
     ELSE Goto(w, IF pc[w] = "import_found" THEN "pick_import" ELSE "no_user_task")
  /\ UNCHANGED <<rows, owner, task, seen, superseded, stop, outside, history>>

\* ... then the oldest job that is no noise scan: the import has precedence
\* unless the job was queued before it ...
LookAtJobs(w) ==
  LET jobs == Queued(w, Jobs \ Noise) IN
  /\ \/ /\ pc[w] = "import_found"
        /\ \/ Oldest(jobs) \cap older[w] # {} /\ Goto(w, "pick_job")
           \/ Oldest(jobs) \ older[w] # {} /\ Goto(w, "pick_import")
           \/ jobs = {} /\ Goto(w, "pick_import")
     \/ /\ pc[w] = "no_import"
        /\ Goto(w, IF jobs # {} THEN "pick_job" ELSE "no_user_task")
  /\ UNCHANGED <<rows, owner, task, seen, superseded, stop, outside, history>>

\* ... and, for a worker that has found neither, a noise scan.
LookAtNoise(w) ==
  /\ pc[w] = "no_user_task"
  /\ Goto(w, IF Queued(w, Noise) # {} THEN "pick_noise" ELSE "pick_none")
  /\ UNCHANGED <<rows, owner, task, seen, superseded, stop, outside, history>>

\* The queued rows of the chosen kind, whichever are there by now.
Wanted(w) ==
  CASE pc[w] = "pick_import" -> Queued(w, Imports)
    [] pc[w] = "pick_job"    -> Queued(w, Jobs \ Noise)
    [] pc[w] = "pick_noise"  -> Queued(w, Noise)
    [] OTHER                 -> {}

\* SKIP LOCKED: the claim passes over the rows in S, which other transactions
\* have locked at the moment and may leave as they are (a refused retry or
\* cancellation).
PassOver(w, S) ==
  \/ S = {} /\ UNCHANGED faults
  \/ /\ S # {} /\ S \cap Loaded(w) = {}
     /\ faults > 0
     /\ faults' = faults - 1

\* The attempt count a claim writes: the loaded one when the same session
\* recovered the row, the current one otherwise.
ClaimCount(w, t) ==
  (IF t \in Loaded(w) THEN seen[w][t].attempts ELSE attempts[t]) + 1

\* claim_next_import, claim_next_job: the oldest row of the kind that is not
\* locked; the recovered rows are committed with it.
ClaimTask(w) ==
  /\ pc[w] \in Picking /\ ~stop[w]
  /\ \E t \in Wanted(w) :
       /\ PassOver(w, ahead[t] \cap Wanted(w))
       /\ status' = [Recovered(w) EXCEPT ![t] = "processing"]
       /\ attempts' = [attempts EXCEPT ![t] = ClaimCount(w, t)]
       /\ task' = [task EXCEPT ![w] = t]
       /\ stale' = (stale \ Loaded(w)) \ {t}
  /\ Forget(w)
  /\ Goto(w, "claimed")
  /\ UNCHANGED <<cursor, owner, superseded, stop, retries, request, resent,
                 commits, asked, demoted>>

\* Nothing of the kind is free, or the stop flag is seen before the claim.
ClaimNothing(w) ==
  /\ pc[w] \in Picking
  /\ IF stop[w] THEN UNCHANGED faults ELSE PassOver(w, Wanted(w))
  /\ status' = Recovered(w)
  /\ stale' = stale \ Loaded(w)
  /\ Forget(w)
  /\ Goto(w, "idle")
  /\ UNCHANGED <<attempts, cursor, owner, task, superseded, stop, retries, request,
                 resent, commits, asked, demoted>>

\* _requeue_unstarted_task: only a row that is still processing goes back,
\* without having consumed an attempt.
GiveBack(w) ==
  LET t == task[w] IN
  IF status[t] = "processing"
  THEN /\ Requeue(t, IF attempts[t] > 0 THEN attempts[t] - 1 ELSE 0)
       /\ UNCHANGED cursor
  ELSE UNCHANGED rows

\* set_busy: publishes "busy" if the instance still owns the row and then
\* refreshes the task's heartbeat.
SetBusy(w) ==
  /\ pc[w] = "claimed" /\ ~stop[w] /\ ~superseded[w] /\ owner = w
  /\ Goto(w, "busy")
  /\ stale' = stale \ {task[w]}
  /\ UNCHANGED <<status, attempts, ahead, older, cursor, owner, task, seen, superseded,
                 stop, outside, history>>

\* The claim is handed back before set_busy published it: a stop was seen,
\* the instance was replaced, or the database failed.
ReturnClaimed(w) ==
  /\ pc[w] = "claimed"
  /\ GiveBack(w)
  /\ task' = [task EXCEPT ![w] = Nobody]
  /\ Goto(w, "idle")
  /\ \/ stop[w] /\ UNCHANGED <<superseded, faults>>
     \/ /\ ~stop[w] /\ (superseded[w] \/ owner # w)
        /\ superseded' = [superseded EXCEPT ![w] = TRUE]
        /\ UNCHANGED faults
     \/ /\ ~stop[w] /\ faults > 0
        /\ faults' = faults - 1
        /\ UNCHANGED superseded
  /\ UNCHANGED <<owner, seen, stop, retries, request, resent, history>>

\* The turn of a task ends: set_idle pulses once more and may find that the
\* instance was replaced.
EndTurn(w) ==
  /\ Goto(w, "idle")
  /\ task' = [task EXCEPT ![w] = Nobody]
  /\ superseded' = [superseded EXCEPT ![w] = @ \/ owner # w]
  /\ UNCHANGED <<owner, seen, stop>>

\* A stop seen after set_busy.
ReturnBusy(w) ==
  /\ pc[w] = "busy" /\ stop[w]
  /\ GiveBack(w)
  /\ EndTurn(w)
  /\ UNCHANGED <<outside, history>>

-----------------------------------------------------------------------------
(* Running a task: process_background_job and process_import. *)

\* The turn goes on to another step.
GoOn(w, step) ==
  /\ Goto(w, step)
  /\ UNCHANGED <<owner, task, seen, superseded, stop>>

BeginJob(w) ==
  LET t == task[w] IN
  /\ pc[w] = "busy" /\ ~stop[w] /\ t \in Jobs
  /\ \/ status[t] = "processing" /\ GoOn(w, "running") /\ UNCHANGED rows
     \/ status[t] = "cancelling" /\ EndTurn(w) /\ SetStatus(t, "cancelled")
     \/ status[t] \notin Active /\ EndTurn(w) /\ UNCHANGED rows
  /\ UNCHANGED <<outside, history>>

\* Mutant: committed_at is not checked.
BeginImportAgain(w) ==
  /\ pc[w] = "busy" /\ ~stop[w] /\ task[w] \in Imports
  /\ GoOn(w, "running")
  /\ UNCHANGED <<rows, outside, history>>

\* commit_import_preview refuses an import whose committed_at is set.
BeginImport(w) ==
  LET t == task[w] IN
  /\ pc[w] = "busy" /\ ~stop[w] /\ t \in Imports
  /\ GoOn(w, IF commits[t] > 0 THEN "error_raised" ELSE "running")
  /\ UNCHANGED <<rows, outside, history>>

\* persist_report: the only place a running job looks at its own row.
ReportJob(w) ==
  LET t == task[w] IN
  /\ pc[w] = "running" /\ t \in Jobs
  /\ \/ /\ status[t] = "processing"
        /\ stale' = stale \ {t}
        /\ GoOn(w, "running")
     \/ /\ status[t] \in {"cancelling", "cancelled"}
        /\ GoOn(w, "cancel_raised")
        /\ UNCHANGED stale
     \/ /\ status[t] \notin {"processing", "cancelling", "cancelled"}
        /\ GoOn(w, "error_raised")
        /\ UNCHANGED stale
  /\ UNCHANGED <<status, attempts, ahead, older, cursor, outside, history>>

\* An import's report ignores a row that is no longer processing.
ReportImport(w) ==
  LET t == task[w] IN
  /\ pc[w] = "running" /\ t \in Imports
  /\ status[t] = "processing"
  /\ stale' = stale \ {t}
  /\ UNCHANGED <<status, attempts, ahead, older, cursor, worker, outside, history>>

\* The work itself raises.
WorkFails(w) ==
  /\ pc[w] = "running"
  /\ GoOn(w, "error_raised")
  /\ UNCHANGED <<rows, outside, history>>

\* One turn of a chunked job is done and more remain: hand the job back to
\* the queue if it is still processing.  A batch delete that lost the race
\* records its progress; a scan rolls the whole turn back.
EndChunk(w) ==
  LET t == task[w] IN
  /\ pc[w] = "running" /\ t \in Jobs /\ cursor[t] + 1 < Turns[t]
  /\ \/ /\ status[t] = "processing"
        /\ Requeue(t, 0)
        /\ cursor' = [cursor EXCEPT ![t] = @ + 1]
        /\ EndTurn(w)
     \/ /\ status[t] \in {"cancelling", "cancelled"} /\ t \in BatchDeletes
        /\ SetStatus(t, "cancelled")
        /\ EndTurn(w)
     \/ /\ status[t] # "processing"
        /\ t \in BatchDeletes => status[t] \notin {"cancelling", "cancelled"}
        /\ GoOn(w, "cancel_raised")
        /\ UNCHANGED rows
  /\ UNCHANGED <<outside, history>>

\* The guarded final UPDATE; a row that is no longer processing takes the
\* whole transaction, results included, down with it.
CommitJob(w) ==
  LET t == task[w] IN
  /\ pc[w] = "running" /\ t \in Jobs /\ cursor[t] + 1 >= Turns[t]
  /\ \/ /\ status[t] = "processing"
        /\ SetStatus(t, "committed")
        /\ commits' = [commits EXCEPT ![t] = @ + 1]
        /\ GoOn(w, "published")
     \/ /\ status[t] # "processing"
        /\ GoOn(w, "cancel_raised")
        /\ UNCHANGED <<rows, commits>>
  /\ UNCHANGED <<outside, waiting, asked, demoted>>

\* commit_import_preview writes the row it loaded, whatever it is by now.
CommitImport(w) ==
  LET t == task[w] IN
  /\ pc[w] = "running" /\ t \in Imports
  /\ SetStatus(t, "committed")
  /\ commits' = [commits EXCEPT ![t] = @ + 1]
  /\ GoOn(w, "published")
  /\ UNCHANGED <<outside, waiting, asked, demoted>>

\* What follows the commit inside the same try: the log line reloads the
\* expired row, file cleanup asks for leases, an import commits its queued
\* scan.  A database error there reaches the handler of the task.
AfterCommit(w) ==
  /\ pc[w] = "published"
  /\ \/ EndTurn(w)
     \/ task[w] \in LateErrors /\ GoOn(w, "error_raised")
  /\ UNCHANGED <<rows, outside, history>>

\* except BackgroundJobCancelled: load the row ...
HandleCancelled(w) ==
  /\ pc[w] = "cancel_raised"
  /\ IF status[task[w]] \in Active THEN GoOn(w, "write_cancelled") ELSE EndTurn(w)
  /\ UNCHANGED <<rows, outside, history>>

\* except Exception: load the row.  Assigning the status a row already has
\* writes nothing.
HandleError(w) ==
  LET t == task[w] IN
  /\ pc[w] = "error_raised"
  /\ \/ status[t] \in {"cancelled", "failed"} /\ EndTurn(w)
     \/ status[t] = "cancelling" /\ GoOn(w, "write_cancelled")
     \/ status[t] \notin {"cancelled", "failed", "cancelling"} /\ GoOn(w, "write_failed")
  /\ UNCHANGED <<rows, outside, history>>

\* ... and commit the verdict over whatever the row holds by then.
HandlerWrites(w) ==
  LET t == task[w] IN
  /\ pc[w] \in {"write_cancelled", "write_failed"}
  /\ SetStatus(t, IF pc[w] = "write_failed" THEN "failed" ELSE "cancelled")
  /\ demoted' = IF status[t] = "committed" THEN demoted \cup {t} ELSE demoted
  /\ EndTurn(w)
  /\ UNCHANGED <<outside, waiting, commits, asked>>

-----------------------------------------------------------------------------
Users ==
  \/ \E t \in Tasks : Admit(t) \/ Cancel(t) \/ Retry(t)
  \/ \E r \in Requests : Submit(r) \/ \E t \in Tasks : Open(r, t)

\* What a worker process does of its own accord.  Reports repeat at will;
\* everything else in Advance moves the process on.
Advance(w) ==
  \/ Exit(w)
  \/ Scan(w) \/ LookAtImports(w) \/ LookAtJobs(w) \/ LookAtNoise(w)
  \/ ClaimTask(w) \/ ClaimNothing(w)
  \/ SetBusy(w) \/ ReturnClaimed(w) \/ ReturnBusy(w)
  \/ BeginJob(w) \/ BeginImport(w)
  \/ WorkFails(w) \/ EndChunk(w) \/ CommitJob(w) \/ CommitImport(w)
  \/ AfterCommit(w)
  \/ HandleCancelled(w) \/ HandleError(w) \/ HandlerWrites(w)

Next ==
  \/ Users
  \/ \E t \in Tasks : Age(t)
  \/ \E w \in Workers : Start(w) \/ RequestStop(w) \/ Crash(w) \/ Pulse(w)
                       \/ ReportJob(w) \/ ReportImport(w) \/ Advance(w)

Spec == Init /\ [][Next]_vars
\* What the code's scheduling gives: a supervised worker process is started
\* again when it is down (compose restart policy), its loop goes on, the work
\* of a turn ends, and the clock passes the stale cutoff of a row that nobody
\* refreshes.  Nothing is assumed of users, reports, stop signals or crashes.
Fairness ==
  /\ \A w \in Workers : WF_vars(Start(w)) /\ WF_vars(Advance(w))
  /\ \A t \in Tasks : WF_vars(Age(t))

FairSpec == Spec /\ Fairness

\* The heartbeat thread pulses every interval and goes on after an error.
PulsingSpec == FairSpec /\ \A w \in Workers : WF_vars(Pulse(w))

-----------------------------------------------------------------------------
(* Properties. *)

\* The attempts of a task a user left alone, and one more for each time a
\* failed import was committed again instead of retried.
Allowance(t) == MaxAttempts + (IF t \in Imports THEN resent[t] ELSE 0)

\* Automatic recovery gives a task at most MaxAttempts tries between two
\* retries, whatever crashes and returned claims come in between; only a
\* user who commits a failed import again, which keeps the count, is owed
\* one more (recover_stale_jobs, recover_stale_imports,
\* _requeue_unstarted_task, commit_import).
AttemptsBounded == \A t \in Tasks : attempts[t] <= Allowance(t)

\* A job under execution is never taken away from its worker: until it ends,
\* its row is processing or cancelling, so neither a claim nor a retry nor a
\* finished cancellation can meet it (claim_next_job, cancel_task).
RunningIsOwned ==
  \A w \in Workers :
    pc[w] \in {"running", "cancel_raised"} /\ task[w] \in Jobs
      => status[task[w]] \in Active

\* The results of a task are published once, through crashes, recovery and
\* retries, unless a handler or a late request wrote over the committed row.
CommitOnce == \A t \in Tasks : t \notin demoted => commits[t] <= 1

\* An import is published once even then: committed_at outlives the status.
ImportsCommitOnce == \A t \in Imports : commits[t] <= 1

\* No recovery, handler or retry ever revives a cancelled task.
CancelledIsFinal ==
  [][\A t \in Tasks : status[t] = "cancelled" => status'[t] = "cancelled"]_vars

\* A request writes the row of t in this step.
Submitted(t) == \E r \in Requests : request[r].on = t /\ request'[r] = NoRequest

\* A claim may take x although t, which already waited when w began to look,
\* was queued earlier: a locked row was passed over, or t is an import and a
\* job that was queued before the import w had found has been cancelled since.
MayPass(w, t) ==
  \/ faults' < faults
  \/ /\ t \in Imports
     /\ \E j \in (Jobs \ Noise) \cap waiting[w] \cap older[w] : status[j] = "cancelled"

\* While a user task waits, nobody gets ahead of it: not a job that goes
\* back to the queue between two turns, not a recovered or retried one; and a
\* worker that found it waiting claims no noise scan, and nothing that was
\* queued after it but for a locked row or a cancellation between its choice
\* and its claim.  (Tasks that one transaction recovers are not ordered.)
NobodyOvertakes ==
  [][\A t \in Tasks \ Noise :
       status[t] = "queued" /\ status'[t] = "queued" /\ ~Submitted(t) =>
         /\ ahead'[t] \subseteq ahead[t]
         /\ \A w \in Workers :
              task[w] = Nobody /\ task'[w] # Nobody /\ t \in waiting[w] =>
                /\ task'[w] \notin Noise
                /\ t \in ahead[task'[w]] => MayPass(w, t)]_vars

\* A worker process that another one has replaced as owner of the liveness row
\* finds out, by a pulse, by a claim it may not publish or at the end of its
\* turn, and exits (worker_liveness.py, run_task_worker_forever).
ReplacedExits ==
  \A v, w \in Workers : v # w /\ owner = v /\ pc[w] # "down" ~> pc[w] = "down"

\* A cancellation that was acknowledged is honoured: the task publishes
\* nothing from then on, unless the user retries it.
CancelHonoured ==
  [][\A t \in asked : commits'[t] = commits[t]]_vars

-----------------------------------------------------------------------------
(* Why these hold with one worker: the inductive invariant. *)

OneWorker == \A v, w \in Workers : v = w

\* Only active rows can miss a heartbeat.
StaleAreActive == \A t \in stale : status[t] \in Active

\* Between the stale scan and its write-back a loaded job stays active: a
\* cancellation may have arrived, none is gone.  A loaded import may have been
\* queued by a late request.  No row has more attempts than were read.
ScanStillTrue ==
  \A w \in Workers : \A t \in Loaded(w) :
    /\ pc[w] \in {"scanned"} \cup Looking
    /\ seen[w][t].status \in (IF t \in Jobs THEN Active ELSE {"processing"})
    /\ status[t] \in (IF t \in Jobs THEN Active ELSE {"processing", "queued"})
    /\ seen[w][t].status = "cancelling" => status[t] = "cancelling"
    /\ attempts[t] <= seen[w][t].attempts

\* A worker holds a task from its claim to the end of the turn.
HoldsTask ==
  \A w \in Workers : task[w] = Nobody <=> pc[w] \in Free

\* The row of the job a worker holds, by what the worker does next.
HeldRow ==
  \A w \in Workers : task[w] \in Jobs =>
    /\ pc[w] \in {"claimed", "busy", "running", "cancel_raised", "write_cancelled"}
         => status[task[w]] \in Active
    /\ pc[w] = "published" => status[task[w]] = "committed"
    /\ pc[w] \in {"error_raised", "write_failed"}
         => status[task[w]] \in Active \cup {"committed"}

\* Nobody cancels an import.
ImportsRun ==
  /\ \A t \in Imports : status[t] \notin {"cancelling", "cancelled"}
  /\ \A w \in Workers : pc[w] \in {"cancel_raised", "write_cancelled"} => task[w] \in Jobs

\* A task that is queued, or not submitted yet, has an attempt left.
AttemptsLeft ==
  \A t \in Tasks :
    /\ attempts[t] <= Allowance(t)
    /\ status[t] \in {"absent", "queued"} => attempts[t] < Allowance(t)

\* Results and status agree, except where the row was written over; an
\* import that runs has never been published.
CommitsMatch ==
  /\ \A t \in Tasks \ demoted : commits[t] = IF status[t] = "committed" THEN 1 ELSE 0
  /\ \A t \in Imports : commits[t] <= 1
  /\ \A w \in Workers : pc[w] = "running" /\ task[w] \in Imports => commits[task[w]] = 0

\* Every step of a single worker, of the users and of the clock keeps this.
Inductive ==
  /\ TypeOK
  /\ HoldsTask
  /\ StaleAreActive
  /\ ScanStillTrue
  /\ HeldRow
  /\ ImportsRun
  /\ AttemptsLeft
  /\ CommitsMatch

-----------------------------------------------------------------------------
(* What the endpoints promise, seen through the rows. *)

Shown(s) ==
  CASE s = "absent" -> "none"
    [] s \in {"queued", "processing", "cancelling"} -> "pending"
    [] s = "committed" -> "done"
    [] OTHER -> s

Lifecycle == INSTANCE TaskLifecycle
  WITH outcome <- [t \in Tasks |-> Shown(status[t])], results <- commits

\* With one worker, one request at a time and no error after a commit, the
\* queue implements the lifecycle.
ImplementsLifecycle == Lifecycle!Spec

\* Every admitted task is settled in the end: a claim that is returned, a
\* worker that crashes, a turn that requeues, a scan that waits for everyone
\* else and a cancellation that finds no worker all come to an end.
EveryTaskSettles == Lifecycle!Settles
=============================================================================
