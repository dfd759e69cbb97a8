---------------------------- MODULE ExportRetention ----------------------------
(***************************************************************************)
(* Finished exports: a file and a row with a deadline, lease rows that the *)
(* pages and the downloads of its owner renew, and a reclaimer, run by the *)
(* worker's heartbeat, that removes files nobody may use any more.         *)
(*                                                                         *)
(* Endpoints lock the artifact's row first, so each of them is one step;   *)
(* a reclaimer run is a scan and two transactions per artifact, all with   *)
(* the timestamp of its start.  Two reclaimers run when a worker has been  *)
(* replaced and does not know it yet.  Files and rows do not commit        *)
(* together: the process may die after an unlink.                          *)
(*                                                                         *)
(* Times are relative: `left' is a timestamp minus now, in ticks, and is   *)
(* not counted below -MaxRun, before the start of any run under way.       *)
(*                                                                         *)
(* Left out: the files a job leaves when it dies before its commit, and    *)
(* rows that go away with their conversation or account (managed orphans,  *)
(* cleaned by hand), and regeneration, which queues a new job.             *)
(***************************************************************************)
EXTENDS Integers, FiniteSets

CONSTANTS
  Artifacts,
  Viewers,      \* sessions of pages that show the export (ExportUsage)
  Claims,       \* download claims
  Responses,    \* transfers the server may run at a time
  Reclaimers,   \* worker processes
  None,
  Retention,    \* export_retention_minutes, in ticks, as the others
  ViewerTime,   \* VIEWER_SECONDS
  ClaimTime,    \* 15 seconds
  DownloadTime, \* DOWNLOAD_SECONDS
  Backoff,      \* retry_at - timestamp
  Limit,        \* artifacts per run
  MaxRun,       \* bound: ticks a run of the reclaimer takes
  MaxFailures   \* bound: unlinks of an artifact that fail

LeaseIds == Viewers \cup Claims \cup Responses
Forever == - MaxRun - 1
Times == Forever .. Retention + DownloadTime + ViewerTime + ClaimTime + Backoff
Leases == [kind : {"viewer", "claim", "download"}, left : Times]

ASSUME ExportAssumption ==
  /\ Viewers \cap Claims = {} /\ Viewers \cap Responses = {} /\ Claims \cap Responses = {}
  /\ None \notin Leases /\ None \notin Artifacts /\ None \notin LeaseIds
  /\ {Retention, ViewerTime, ClaimTime, DownloadTime, Backoff, Limit} \subseteq Nat \ {0}
  /\ MaxRun \in Nat /\ MaxFailures \in Nat

VARIABLES
  state,     \* lifecycle_state, "none" before the export's job commits
  left,      \* expires_at
  onClose,   \* release_on_close
  released,  \* artifacts with a release_requested_at
  retry,     \* retry_at, long past if there is none
  failures,  \* failure_count
  leases,    \* leases[a][l]: the row of lease l
  file,      \* artifacts whose file exists
  response,  \* response[d]: what transfer d does
  run        \* run[r]: what reclaimer r does

row == <<state, left, onClose, released, retry, failures>>
vars == <<row, leases, file, response, run>>

Unused == [stage |-> "idle", artifact |-> None, lease |-> None, left |-> 0]
Resting == [stage |-> "idle", batch |-> {}, current |-> None, lag |-> 0]

Earlier(x, y) == IF x < y THEN x ELSE y

\* Is the lease valid at a moment `lag' ticks ago?
Live(a, l, lag) == leases[a][l] # None /\ leases[a][l].left > - lag

\* require_available
Available(a) == state[a] = "active" /\ left[a] > 0

Lease(a, l, kind, time) ==
  leases' = [leases EXCEPT ![a][l] = [kind |-> kind, left |-> time]]
NoLease(a, l) == leases' = [leases EXCEPT ![a][l] = None]

\* Transfer d gets to a stage with its lease; run r, with what is left of it.
Turns(d, stage, time) ==
  response' = [response EXCEPT ![d] =
    [stage |-> stage, artifact |-> @.artifact, lease |-> @.lease, left |-> time]]
Goes(r, stage, batch, current) ==
  run' = [run EXCEPT ![r] =
    [stage |-> stage, batch |-> batch, current |-> current, lag |-> @.lag]]

-----------------------------------------------------------------------------
(* The clock. *)

Later(time) == IF time > Forever THEN time - 1 ELSE time

\* A tick; no run of the reclaimer takes longer than MaxRun.
Tick ==
  /\ \A r \in Reclaimers : run[r].stage = "idle" \/ run[r].lag < MaxRun
  /\ left' = [a \in Artifacts |-> Later(left[a])]
  /\ retry' = [a \in Artifacts |-> Later(retry[a])]
  /\ leases' = [a \in Artifacts |-> [l \in LeaseIds |->
       IF leases[a][l] = None THEN None
       ELSE [leases[a][l] EXCEPT !.left = Later(@)]]]
  /\ response' = [d \in Responses |->
       [response[d] EXCEPT !.left = IF @ > 0 THEN @ - 1 ELSE 0]]
  /\ run' = [r \in Reclaimers |->
       [run[r] EXCEPT !.lag = IF run[r].stage = "idle" THEN 0 ELSE @ + 1]]
  /\ UNCHANGED <<state, onClose, released, failures, file>>

-----------------------------------------------------------------------------
(* The worker publishes, the owner's pages view, claim and close. *)

\* finalize_export_lifetime: the policy of this moment is pinned.
Publish(a, close) ==
  /\ state[a] = "none"
  /\ state' = [state EXCEPT ![a] = "active"]
  /\ left' = [left EXCEPT ![a] = Retention]
  /\ onClose' = [onClose EXCEPT ![a] = close]
  /\ file' = file \cup {a}
  /\ UNCHANGED <<released, retry, failures, leases, response, run>>

\* use_export: a page renews its lease, never past the deadline.
View(a, v) ==
  /\ Available(a)
  /\ Lease(a, v, "viewer", Earlier(left[a], ViewerTime))
  /\ UNCHANGED <<row, file, response, run>>

\* close_export
Close(a, v) ==
  /\ leases[a][v] # None
  /\ NoLease(a, v)
  /\ released' = IF onClose[a] /\ state[a] = "active" THEN released \cup {a} ELSE released
  /\ UNCHANGED <<state, left, onClose, retry, failures, file, response, run>>

\* reserve_download: a claim that exists is not renewed.
Claim(a, c) ==
  /\ Available(a)
  /\ leases[a][c] = None
  /\ Lease(a, c, "claim", Earlier(left[a], ClaimTime))
  /\ UNCHANGED <<row, file, response, run>>

-----------------------------------------------------------------------------
(* Downloads. *)

\* Mutant: a claim is a ticket for any number of downloads.
UsableAgain(a, c) == Live(a, c, 0)

\* A claim turns into a transfer once, while it is valid.
Usable(a, c) == Live(a, c, 0) /\ leases[a][c].kind = "claim"

\* download_archive, with a claim or with a lease of its own.
Download(a, d, l) ==
  /\ response[d] = Unused
  /\ Available(a)
  /\ a \in file
  /\ \/ l \in Claims /\ Usable(a, l)
     \/ l = d /\ leases[a][d] = None
  /\ Lease(a, l, "download", DownloadTime)
  /\ response' = [response EXCEPT ![d] =
       [stage |-> "prepared", artifact |-> a, lease |-> l, left |-> 0]]
  /\ UNCHANGED <<row, file, run>>

\* Mutant: whatever has become of the artifact, its lease is renewed.
RenewableEver(a, l) == leases[a][l] # None /\ leases[a][l].kind = "download"

\* renew_download
Renewable(a, l) ==
  /\ state[a] = "active"
  /\ Live(a, l, 0)
  /\ leases[a][l].kind = "download"

\* The response starts or goes on to send, or gives up.
Renew(d) ==
  /\ response[d].stage \in {"prepared", "sending"}
  /\ LET a == response[d].artifact
         l == response[d].lease
     IN IF Renewable(a, l)
        THEN /\ Lease(a, l, "download", DownloadTime)
             /\ Turns(d, "sending", DownloadTime)
        ELSE /\ Turns(d, "ending", 0)
             /\ UNCHANGED leases
  /\ UNCHANGED <<row, file, run>>

\* Everything has been sent, or the client has gone.
Sent(d) ==
  /\ response[d].stage = "sending"
  /\ Turns(d, "ending", 0)
  /\ UNCHANGED <<row, leases, file, run>>

\* release_download, in the finally clause.
ReleaseDownload(d) ==
  /\ response[d].stage = "ending"
  /\ LET a == response[d].artifact
         l == response[d].lease
     IN IF leases[a][l] # None /\ leases[a][l].kind = "download"
        THEN NoLease(a, l)
        ELSE UNCHANGED leases
  /\ response' = [response EXCEPT ![d] = Unused]
  /\ UNCHANGED <<row, file, run>>

\* The database does not answer, or the process dies: the lease stays.
Lost(d) ==
  /\ response[d].stage # "idle"
  /\ response' = [response EXCEPT ![d] = Unused]
  /\ UNCHANGED <<row, leases, file, run>>

-----------------------------------------------------------------------------
(* The reclaimer. *)

\* Mutant: views and claims do not defer the removal of a closed export.
DeferringTransfers(a, lag) ==
  {l \in LeaseIds : Live(a, l, lag) /\ leases[a][l].kind = "download"}

\* Past the deadline only transfers defer the removal.
Deferring(a, lag) ==
  {l \in LeaseIds : /\ Live(a, l, lag)
                    /\ left[a] <= - lag => leases[a][l].kind = "download"}

\* _eligible, at the start of the run
Eligible(a, lag) ==
  /\ state[a] \notin {"none", "reclaimed"}
  /\ retry[a] <= - lag
  /\ left[a] <= - lag \/ a \in released \/ state[a] # "active"
  /\ Deferring(a, lag) = {}

\* Mutant: artifacts in use take places in the batch.
ScannedAny == {a \in Artifacts :
  /\ state[a] \notin {"none", "reclaimed"}
  /\ left[a] <= 0 \/ a \in released \/ state[a] # "active"
  /\ retry[a] <= 0}

\* The rows the first query of a run selects.
Scanned == {a \in Artifacts :
  /\ state[a] \notin {"none", "reclaimed"}
  /\ left[a] <= 0 \/ a \in released \/ state[a] # "active"
  /\ retry[a] <= 0
  /\ ~ \E l \in LeaseIds : Live(a, l, 0) /\ leases[a][l].kind = "download"}

\* The first rows by deadline.
Batches ==
  {batch \in SUBSET Scanned :
     /\ Cardinality(batch) = Earlier(Limit, Cardinality(Scanned))
     /\ \A a \in batch, b \in Scanned \ batch : left[a] <= left[b]}

Scan(r) ==
  /\ run[r] = Resting
  /\ Scanned # {}
  /\ \E batch \in Batches : Goes(r, "mark", batch, None)
  /\ UNCHANGED <<row, leases, file, response>>

\* The rest of the batch, without artifact a.
Onward(r, a) ==
  IF run[r].batch \ {a} = {}
  THEN run' = [run EXCEPT ![r] = Resting]
  ELSE Goes(r, "mark", run[r].batch \ {a}, None)

\* Mutant: the row is left as it is until the file has gone.
MarkQuietly(r, a) ==
  /\ run[r].stage = "mark" /\ a \in run[r].batch
  /\ Eligible(a, run[r].lag)
  /\ Goes(r, "remove", run[r].batch, a)
  /\ UNCHANGED <<row, leases, file, response>>

\* The first transaction for an artifact of the batch.
Mark(r, a) ==
  /\ run[r].stage = "mark" /\ a \in run[r].batch
  /\ Eligible(a, run[r].lag)
  /\ state' = [state EXCEPT ![a] = "reclaiming"]
  /\ Goes(r, "remove", run[r].batch, a)
  /\ UNCHANGED <<left, onClose, released, retry, failures, leases, file, response>>

\* In either transaction: not eligible any more, or locked (SKIP LOCKED).
Defer(r, a) ==
  /\ run[r].stage \in {"mark", "remove"} /\ a \in run[r].batch
  /\ run[r].stage = "remove" => a = run[r].current
  /\ Onward(r, a)
  /\ UNCHANGED <<row, leases, file, response>>

\* The second transaction: the file goes, then the row says so.
Remove(r, a) ==
  /\ run[r].stage = "remove" /\ a = run[r].current
  /\ Eligible(a, run[r].lag)
  /\ file' = file \ {a}
  /\ state' = [state EXCEPT ![a] = "reclaimed"]
  /\ retry' = [retry EXCEPT ![a] = Forever]
  /\ leases' = [leases EXCEPT ![a] = [l \in LeaseIds |-> None]]
  /\ Onward(r, a)
  /\ UNCHANGED <<left, onClose, released, failures, response>>

\* The unlink fails, or the file is not what the row says (_safe_file).
RemoveFails(r, a) ==
  /\ run[r].stage = "remove" /\ a = run[r].current
  /\ Eligible(a, run[r].lag)
  /\ failures[a] < MaxFailures
  /\ failures' = [failures EXCEPT ![a] = @ + 1]
  /\ state' = [state EXCEPT ![a] = "retry"]
  /\ retry' = [retry EXCEPT ![a] = Backoff - run[r].lag]
  /\ Onward(r, a)
  /\ UNCHANGED <<left, onClose, released, leases, file, response>>

\* The process dies between transactions, or between unlink and commit.
Crash(r) ==
  /\ run[r] # Resting
  /\ \/ UNCHANGED file
     \/ /\ run[r].stage = "remove" /\ Eligible(run[r].current, run[r].lag)
        /\ file' = file \ {run[r].current}
  /\ run' = [run EXCEPT ![r] = Resting]
  /\ UNCHANGED <<row, leases, response>>

-----------------------------------------------------------------------------
Init ==
  /\ state = [a \in Artifacts |-> "none"]
  /\ left = [a \in Artifacts |-> 0]
  /\ onClose = [a \in Artifacts |-> FALSE]
  /\ released = {}
  /\ retry = [a \in Artifacts |-> Forever]
  /\ failures = [a \in Artifacts |-> 0]
  /\ leases = [a \in Artifacts |-> [l \in LeaseIds |-> None]]
  /\ file = {}
  /\ response = [d \in Responses |-> Unused]
  /\ run = [r \in Reclaimers |-> Resting]

Pages(a) ==
  \/ \E close \in BOOLEAN : Publish(a, close)
  \/ \E v \in Viewers : View(a, v) \/ Close(a, v)
  \/ \E c \in Claims : Claim(a, c)

Transfer(d) ==
  \/ \E a \in Artifacts, l \in Claims \cup {d} : Download(a, d, l)
  \/ Renew(d) \/ Sent(d) \/ ReleaseDownload(d) \/ Lost(d)

Reclaim(r) ==
  \/ Scan(r) \/ Crash(r)
  \/ \E a \in Artifacts :
       Mark(r, a) \/ Defer(r, a) \/ Remove(r, a) \/ RemoveFails(r, a)

Next ==
  \/ Tick
  \/ \E a \in Artifacts : Pages(a)
  \/ \E d \in Responses : Transfer(d)
  \/ \E r \in Reclaimers : Reclaim(r)

Spec == Init /\ [][Next]_vars

-----------------------------------------------------------------------------
(* Properties. *)

Transfers ==
  [stage : {"idle", "prepared", "sending", "ending"}, artifact : Artifacts \cup {None},
   lease : LeaseIds \cup {None}, left : 0 .. DownloadTime]
Runs ==
  [stage : {"idle", "mark", "remove"}, batch : SUBSET Artifacts,
   current : Artifacts \cup {None}, lag : 0 .. MaxRun]

\* The types of rows, files, transfers and runs.
TypeOK ==
  /\ state \in [Artifacts -> {"none", "active", "reclaiming", "retry", "reclaimed"}]
  /\ left \in [Artifacts -> Times]
  /\ onClose \in [Artifacts -> BOOLEAN]
  /\ released \in SUBSET Artifacts
  /\ retry \in [Artifacts -> Times]
  /\ failures \in [Artifacts -> 0 .. MaxFailures]
  /\ leases \in [Artifacts -> [LeaseIds -> Leases \cup {None}]]
  /\ file \in SUBSET Artifacts
  /\ response \in [Responses -> Transfers]
  /\ run \in [Reclaimers -> Runs]

\* A lease that is valid keeps its artifact: it is available, and its file
\* is there, although reclaimers judge leases by the time of their start and
\* between transactions nobody holds the row (_eligible).
LeasesHold ==
  \A a \in Artifacts, l \in LeaseIds :
    Live(a, l, 0) => state[a] = "active" /\ a \in file

\* A transfer that was allowed to go on less than DownloadTime ago still finds
\* its file: no other transfer releases its lease, and no reclaimer outruns
\* its renewal (ExportFileResponse, renew_download).
TransferKeepsFile ==
  \A d \in Responses : response[d].left > 0 => response[d].artifact \in file

\* What the row says is true of the file: an available export can be
\* downloaded, a reclaimed one takes no space and has no users, and the
\* states between say neither (artifact_status, reclaim_exports).
StatusIsTrue ==
  \A a \in Artifacts :
    /\ state[a] = "active" => a \in file
    /\ state[a] = "reclaimed" => a \notin file /\ \A l \in LeaseIds : leases[a][l] = None

\* A file is removed only past its deadline or after its owner closed it, and
\* never while anybody holds a valid lease (reclaim_exports).
RemovedInTurn ==
  [][\A a \in file \ file' :
       /\ left[a] <= 0 \/ a \in released
       /\ \A l \in LeaseIds : ~ Live(a, l, 0)]_vars

\* Only transfers outlive the deadline.
ShortLeases ==
  \A a \in Artifacts, l \in LeaseIds :
    leases[a][l] # None /\ leases[a][l].kind # "download" =>
      leases[a][l].left <= left[a]

\* A transfer has a lease row of its own until its artifact is reclaimed,
\* which cannot happen while it may rely on it.
Held ==
  /\ \A d \in Responses :
       IF response[d].stage = "idle" THEN response[d] = Unused
       ELSE LET a == response[d].artifact
                l == response[d].lease
            IN /\ a \in Artifacts /\ l \in Claims \cup {d}
               /\ \/ /\ leases[a][l] # None /\ leases[a][l].kind = "download"
                     /\ response[d].left > 0 => leases[a][l].left >= response[d].left
                  \/ state[a] = "reclaimed" /\ response[d].left = 0
  /\ \A d, e \in Responses :
       response[d].lease # None /\ response[d].lease = response[e].lease
         /\ response[d].artifact = response[e].artifact => d = e

\* What a run is about to remove, or was, is no longer on offer, and for a
\* reason.
Marked ==
  /\ \A r \in Reclaimers : run[r].stage = "remove" =>
       /\ run[r].current \in Artifacts
       /\ state[run[r].current] \notin {"none", "active"}
  /\ \A a \in Artifacts : state[a] \in {"reclaiming", "retry"} =>
       left[a] <= 0 \/ a \in released

\* Before its job commits, an export has no leases.
Unpublished ==
  \A a \in Artifacts : state[a] = "none" =>
    \A l \in LeaseIds : leases[a][l] = None

\* Why the properties hold: every step keeps this.
Inductive ==
  /\ TypeOK /\ LeasesHold /\ StatusIsTrue
  /\ ShortLeases /\ Held /\ Marked /\ Unpublished

\* Fairness: time passes, the heartbeat runs maintenance, a run goes on, and a
\* row that other sessions lock now and then, or whose run dies, is reached in
\* the end.  A transfer is not assumed to end.
Fairness ==
  /\ WF_vars(Tick)
  /\ \A r \in Reclaimers :
       /\ WF_vars(Scan(r))
       /\ WF_vars(\E a \in Artifacts : Mark(r, a) \/ Defer(r, a) \/ Remove(r, a))
       /\ \A a \in Artifacts : SF_vars(Mark(r, a)) /\ SF_vars(Remove(r, a))

LiveSpec == Spec /\ Fairness

Transferring(a) == \E d \in Responses : response[d].artifact = a

\* An export whose transfers end is reclaimed, however long the transfers of
\* other exports take (the comment at export_retention.py:261).
EveryExportReclaimed ==
  \A a \in Artifacts :
    <>[]~Transferring(a) => (state[a] # "none" ~> state[a] = "reclaimed")
=============================================================================
