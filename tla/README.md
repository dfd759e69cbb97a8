# Chat Reader: TLA+ models and proofs

Chat Reader imports chat transcripts, stores them as canonical conversations in
PostgreSQL and serves them to a reader that also works offline. Its API
(`src/apps/api/app`) runs one worker process beside the web process; everything
slow or destructive (imports, merges, deletions, exports, offline packages,
scans) is a row of a durable queue that the worker claims and runs. This
directory models the parts of the program whose correctness depends on the order
of steps of several actors, checks them with TLC and proves the central
invariants with TLAPS.

## 1. Inventory

| Component | State | Operations | Hard because |
| --- | --- | --- | --- |
| Durable queue and worker (`services/background_jobs.py`, `services/import_queue.py`, `services/task_worker.py`, `services/worker_liveness.py`, `workers/`) | `background_jobs`, `import_records`, the `primary` row of `worker_runtime_states`, the worker's stop and superseded flags | admit, claim, report, requeue, commit, recover stale, cancel, retry, pulse | crashes, stale heartbeats, unguarded write-backs, errors after a commit, a second worker |
| Task endpoints (`routes/tasks.py`) | the same rows | cancel, retry, list | race the worker; jobs under a row lock, imports not |
| Import commit (`routes/imports.py`, `canonical/persistence.py`) | `import_records`, canonical tables | preview, commit, publish | unlocked queueing, publish without comparing the row again |
| Conversation deletion (`conversations/conversation_deletion.py`) | conversation tombstone, cleanup job | three transactions, then the files go | crash between them, two deletions of one conversation, uploads into it and beside it |
| Uploads and assets (`routes/attachments.py`, `assets/`) | upload items, staged files, objects by content hash and their bytes, attachments | stage, scan, finalize, attach, release, collect | bytes and rows do not commit together; a reference check against a reuse of the object |
| Export retention (`export_retention.py`) | artifact row, lease rows, file | finalize, view, claim, download, renew, close, reclaim, regenerate | a reclaimer that judges by an old time, files against rows, claims used twice |
| Artifact files (`artifact_lifecycle.py`, `offline_download.py`, `offline_packages.py`) | staged and final files, lease rows | stage, publish, commit, clean up, download | file system and database do not commit together |
| Adaptive imports (`adaptive_import/`) | session state, draft, memory slots | upload, analyse, resolve, commit | session state and job row change together |
| Editing and revisions (`conversation_revision.py`, `editing/`) | conversation revision, messages, pending uploads | edit, merge, delete, rebuild | optimistic concurrency |
| Sharing (`sharing/`) | shares, frozen snapshots | create, revoke, expire, reclaim | expiry against reads |
| Accounts (`auth.py`, `user_deletion.py`) | users, sessions, deletion requests | sign in, rotate, revoke, delete | deletion spans database and files |
| Content cleanup (`content_cleanup.py`) | scans, findings, rules | scan in chunks, apply, undo | chunks interleave with edits |
| Offline annotations (`apps/web/lib/annotation-sync.ts`, `offline-conflicts.ts`, `annotation-repository.ts`, `offline-db.ts`) | IndexedDB working copies, outbox, conflict markers with stored resolutions | edit, download, flush, acknowledge, compare, prepare, resolve, retry | lost answers, edits beside a request, several tabs and devices |
| Annotations and notebooks (`services/annotations.py`) | revisioned rows, conflict copies, receipts | sync batch, resolve, online edits, lazy notebook | predicted revisions, replays, stale comparisons |
| Account preferences (`apps/web/lib/preference-sync.ts`, `services/preferences.py`) | per field a revision on the server; in IndexedDB a copy, pending choices, conflicts, one request in flight | initialize, choose, resolve, flush, refresh, sync, patch | lost answers, choices beside a request, tabs without `navigator.locks` |
| Reading positions, downloads (`apps/web/lib`) | IndexedDB | queue, flush | as preferences |
| Support, search, parsers, archives, user interface, migrations | | | data transformation or presentation |

What makes the parts correct:

* Queue: a task is settled exactly once and publishes at most once; attempts are
  bounded; a cancellation is honoured and final; user work is served in order; a
  crash at any point leaves rows that the next worker settles.
* Offline editing and preferences: no edit or choice is lost, none is applied
  twice, no version is replaced by one whose author had not seen it, and every
  conflict is real and can be resolved.
* Exports: a valid lease keeps its file, a file goes only when it may, and goes.
* Objects: what is committed has its bytes, what is shared survives the deletion
  of one of its users, and an announced deletion is carried out.

`PROJECT.json` lists the hazards with their lines.

## 2. Plan

Done, in this order:

1. `TaskQueue` (queue, worker, endpoints), `TaskLifecycle` (the abstract
   promise), `TaskQueue_proofs`.
2. `OfflineSync`, `OfflineSync_proofs`, `OfflineConflicts_proofs`,
   `OfflineEdits_proofs`, `OfflineFields_proofs`: the browser's outbox and
   conflicts with the server's receipts and revisions.
3. `PreferenceSync`, `PreferenceSync_proofs`.
4. `ExportRetention`, `ExportRetention_proofs`.
5. `AttachmentObjects` (uploads and conversation deletion), with its proofs.

Left, in the order of what they would add: `OfflineArtifacts` (package files,
leases and their clean-up); `NoEditLost` and `NoBlindOverwrite` for notebooks,
whose rows both sides may create, and with them the run `batch`; `JobAdmission`
(idempotent submission with and without the advisory lock); `AdaptiveSession`;
shares and account deletion. The modules are written alike: parameters as
CONSTANTS, one action per operation, invariants as named conjuncts and no
RECURSIVE operator.

## 3. Modules

Each `MC` module only names the model values, the functions over them and the
symmetries of its component's runs.

### `TaskQueue`

Rows: `status`, `attempts` (`attempt_count`), `stale` (whether `heartbeat_at` is
before the cutoff), `ahead` (the order of `queued_at`), `cursor`
(`payload.next_index`: turns already taken by a chunked job). Worker: `owner` (the
liveness row), and per process `pc`, `task`, `seen` (rows its stale scan has loaded
and not committed), `older` (what was queued before the import it has read, that is,
that import's `queued_at`), `superseded`, `stop`. `request` holds what an API thread
has loaded of an import and not yet written. `waiting` (the tasks a worker found
queued), `commits`, `asked`, `demoted` and `resent` are history.

A read and the write that follows it are two steps wherever another session may
commit between them, because PostgreSQL runs at READ COMMITTED and SQLAlchemy
writes `UPDATE ... WHERE id = ...`:

| Action | Code |
| --- | --- |
| `Admit`, `Cancel`, `Retry` | `queue_*`; `cancel_task`, `retry_task` under `FOR UPDATE` |
| `Open`, `Submit` | `commit_import` and `retry_task` of an import: load, then queue |
| `Start`, `Exit`, `RequestStop`, `Crash`, `Pulse`, `Age` | `run_task_worker_forever`, `WorkerShutdown`, the reporter thread, the clock |
| `Scan` | `recover_stale_imports`, `recover_stale_jobs`: stale rows are loaded, and what will be queued again takes the time of the scan |
| `LookAtImports`, `LookAtJobs`, `LookAtNoise` | the flush of the recovered rows, which locks them until the transaction ends (`Locked`), and the statements of `_oldest_task_kind`, each on what others have committed by then; the kind is chosen |
| `ClaimTask`, `ClaimNothing` | `claim_next_import`, `claim_next_job`: the oldest row of the chosen kind by now, past rows that others have locked (`PassOver`); the recovered rows are committed with it |
| `SetBusy`, `ReturnClaimed`, `ReturnBusy` | `set_busy`, `_requeue_unstarted_task` |
| `BeginJob`, `BeginImport`, `ReportJob`, `ReportImport`, `WorkFails`, `EndChunk`, `CommitJob`, `CommitImport`, `AfterCommit` | `process_background_job`, `process_import` |
| `HandleCancelled`, `HandleError`, `HandlerWrites` | the exception handlers: load, then write |

Abstractions. Time is an order (`ahead`) and one bit (`stale`). The work of a job
type is invisible until `CommitJob`; a job takes `Turns[j]` turns. Rows stamped
in one transaction are not ordered against each other, `queued_at` is taken in the
order of the commits, and the order is kept only of rows that are queued or about
to be (`InLine`): every other row gets a new time first. The two kinds of stale row
are loaded in one step, and written back in the step that reads the oldest import.
A row that another transaction holds and then leaves as it was (a refused retry or
cancellation) appears only where a claim passes it over. The final pulse of
`set_idle` succeeds. `support_notification`, `user_account_delete`, the import
record of an `adaptive_import_analysis` and `IMPORT_COMMIT_INLINE` are left out.

### `TaskLifecycle`

What a user of the endpoints sees: none, pending, done, failed or cancelled, and
how often results were published. `TaskQueue` implements it under the mapping
`Shown` (queued, processing and cancelling are pending).

### `OfflineSync`

The annotations and the notebook of one conversation of one account. Server:
`history` (all versions of each row; the revision is its length), `copies`
(conflict copies), `receipts`. Device: `outbox` (the operation of each edit that
waits), `local` (working copies), `marker` (`sync-conflict:` settings), `preview` (the comparison on the screen),
`listed` (conflict copies of the notebook it has stored), `sync` (the flush or
resolution under way: sent, refused or answered, snapshot read, with the attempts
its operations had when it was made, from which a failure counts on). `late` holds
requests whose sender has given up and which still arrive. `decided`, `overlaid`
are history.

| Action | Code |
| --- | --- |
| `LocalEdit`, `Download`, `RetrySync` | `offlineAnnotationRepository`, `importOfflinePackage`, the "Retry sync" button |
| `Flush`, `Serve`, `Fetch`, `Acknowledge` | `flushBatch`: request, transaction of `sync_annotations`, snapshot reads, Dexie transaction |
| `Compare`, `Prepare`, `SendResolution`, `Serve`, `Fetch`, `FinishResolution` | `loadOfflineConflict`, `prepareOfflineResolution`, `retryOfflineResolution` |
| `Refused`, `NetworkFailure`, `CloseTab`, `ServeLate` | the two error handlers, a tab that goes away, a delayed request |
| `EnsureConflict` | `ensureNotebookConflict` |
| `OnlineEdit`, `EditCopy`, `OpenOnline` | online writes and the lazily created notebook |

Abstractions. A content is the set of edits its author had in view, so that "who
knew what" is set inclusion; every edit changes one field of its note, and
`RebasedContent` is the field-wise rebase of `retryOfflineResolution`. The outbox
is ordered by `queued_at` in the code, by `base` in the model: within an entity,
where alone the order matters, the two agree (`Ordered`), and so the rebase, which
walks through the newer edits one after the other, has a closed form. A deletion is
an edit. One endpoint call is a step: `_lock_subject` serializes them. The reads of
`Compare` and of `Fetch` are one step each; the code's several reads may straddle
a commit, which the revision checks of the resolution turn into a refusal, and
which in a snapshot mixes only entities, whose rows are independent. A flush and
a resolution of one device exclude each other (`navigator.locks`); edits,
comparisons and downloads do not wait for either. A download may carry any
revision the server ever had, because its package may be old. Left out: sessions
and account switches, more than 50 operations, several conversations, offline
edits of an annotation's conflict copy, the revision that a resolution gives a
notebook which cites the removed copy.

### `PreferenceSync`

Server: `history` (the values of each field; the revision is the length) and
`receipts` (one per request id). Browser: `cache` (the revision of the server's
value it has), `changes` (choices the server has not confirmed), `conflicts`,
`flight` (the request being sent, stored before it is), `sequence`, `attempts`,
`error`; `sync` is what each tab's flush is at. `wish`, `accepted` and `shown`
are history: the user's last choice, the choices the server has applied, the
revisions the user has seen.

| Action | Code |
| --- | --- |
| `Initialize`, `Choose`, `Resolve` | `initializePreferenceState`, `queuePreferenceChanges`, `resolvePreferenceConflict` |
| `Start`, `Fetch`, `Merge`, `Depart`, `Acknowledge`, `Fail`, `CloseTab` | `flushPreferenceSync`: the check, the two requests and the Dexie transactions around them, the error handler, a tab that goes away |
| `Serve` | `sync_preferences`: receipts, per-field comparison of revisions |
| `Patch` | `PATCH /api/preferences`, by any other client |

Abstractions. An endpoint call and a Dexie transaction are a step each. A request
that arrives again meets its receipt, and one that has none is still stored as
the flight: the server may process the flight at any time, which stands for
delays and repetitions. Left out: the delay between retries, rejections (requests
built from validated values get none), an IndexedDB that fails.

### `ExportRetention`

Rows: `state`, `left` (`expires_at`), `onClose`, `released`, `retry`, `failures`,
`leases`. `file` is the file system, `response` what each transfer is doing, `run`
where each reclaimer is. Times are relative to now, in ticks, and not counted
below the start of any run that may be under way.

| Action | Code |
| --- | --- |
| `Tick`, `Publish` | the clock; `finalize_export_lifetime` in the job's commit |
| `View`, `Close`, `Claim` | `use_export`, `close_export`, `reserve_download` |
| `Download`, `Renew`, `Sent`, `ReleaseDownload`, `Lost` | `download_archive`, `renew_download` at the start and then about every 15 seconds, the end, the abort and the death of `ExportFileResponse` |
| `Scan`, `Mark`, `Defer`, `Remove`, `RemoveFails`, `Crash` | `reclaim_exports`: the list, and per artifact a transaction that marks it and one that removes the file and settles the row; a worker that dies between unlink and commit |

Abstractions. An endpoint locks its artifact's row and is one step. A run judges
by the time of its start. `SKIP LOCKED` may pass a row over. Left out: the
regeneration of an export, the validation of a ZIP's sources, files whose job died
before its commit or whose rows went with their account (the documents call these
managed orphans and clean them by hand).

### `AttachmentObjects`

Rows: `conv` (active, tombstone, gone), `attachment`, `rows` (`asset_objects`),
`job` and `attempts` of the cleanup jobs. File store: `staged`, `files`.
Processes: `upload[u]`, the request that finalizes an item, and `deleter[p]`, a
`DELETE` request or the worker inside `delete_conversation_record`. An object is
named for the upload whose file it was. `raced` (attachments that were added
between the check and the commit of a deletion) and `undone` (objects whose bytes
an error after the commit deleted) are history: they name exactly the two ways
in which the code breaks its promises.

| Action | Code |
| --- | --- |
| `BeginUpload`, `InsertUpload`, `RejectUpload`, `FailUpload`, `CommitUpload`, `Reply`, `ReplyFails`, `CrashUpload` | `create_conversation_attachments`, `finalize_upload_items`: file, flush, commit, the answer, and the except clauses that take the file back |
| `OpenRequest`, `Tombstone`, `Find`, `Lock`, `Check`, `CommitDeletion`, `ReadJob`, `MarkJob`, `Unlink`, `EndDeletion`, `Late` | `delete_conversation_record`: its three transactions and the unlinking after them; a second deletion that finds nothing left |
| `Deadlock` | an upload that holds its item and wants the conversation, a deletion that holds the conversation and cascades to the item |
| `Claim`, `OpenClaimed`, `Finish`, `FailDeletion`, `CrashDeletion`, `Recover`, `Retry` | `process_background_job` of `conversation_delete_cleanup`, `recover_stale_jobs`, `retry_background_job` |

The guards of `InsertUpload`, `Lock`, `Check` and `CommitDeletion` are PostgreSQL's
locks: `FOR UPDATE` on the conversation and the key-share locks that a foreign key
takes on the rows it refers to. `BeginUpload` is one step for the check that the
conversation is active and the start of the finalization that follows it, so an
upload that has passed the check is not begun on a conversation announced deleted
in between; after it, every order of the two is explored. Detaching an attachment releases no object in this
code and is no action. Left out: derivatives and leases of objects (further
references of the same check), imports, splits and merges (which refer to objects
as uploads do), the expiry of upload sessions, what else goes with a conversation,
and the batch job's own cursor.

### `TaskQueue_proofs`, `OfflineSync_proofs`, `OfflineConflicts_proofs`, `OfflineEdits_proofs`, `OfflineFields_proofs`, `PreferenceSync_proofs`, `ExportRetention_proofs`, `AttachmentObjects_proofs`

The theorems of section 5. The four modules about offline editing build on each
other in the order given.

## 4. Runs

| Run | Instance | Shows |
| --- | --- | --- |
| `one_worker` | two-turn delete, import, two API threads; 2 faults, 2 retries or resubmissions, late errors | the inductive invariant and five safety properties, racing submissions included |
| `lifecycle` | two-turn delete that may be cancelled, merge, noise scan, import; one API thread, 1 fault, no retries, no late errors, fairness | `TaskQueue` implements `TaskLifecycle`; nobody overtakes a waiting user task but for a lock or a cancellation between choice and claim; every admitted task is settled |
| `two_workers` | one job that may be cancelled, two processes, 1 fault, fairness | a replaced process exits |
| `conflicts` | one device, an annotation, 4 edits with a field each, 2 resolutions, closed tabs | no edit lost, overwritten unseen or applied twice; conflicts pause, and can be compared |
| `batch` | annotation and notebook in one request, one edit the server rejects, fairness | the inductive invariant; working copies are versions of the server, a resolution keeps its request, no edit is lost or overwrites unseen; every edit is acknowledged |
| `preferences` | one browser without `navigator.locks`, two tabs, one field, two values, 2 choices, another client up to revision 3, fairness | no choice is lost, overwrites what its user had not seen or conflicts with itself; the copy never goes back; every choice is settled or waits as a conflict |
| `exports` | one artifact, a page, a claim, two transfers, two reclaimers that may be a tick late | a valid lease and a transfer keep their file; status and file agree; nothing is removed early |
| `reclaiming` | two artifacts, a transfer, one reclaimer that takes one artifact per run, fairness | an export nobody downloads is reclaimed however long the transfers of the other last |
| `attachments` | two uploads of the same bytes into conversations of two accounts, one `DELETE` request, the worker, 2 faults, fairness | committed objects have their bytes, shared ones survive, a tombstone always has a job; an announced deletion finishes or shows as failed |
| `lost_cancel`, `stale_base`, `shared_object` | the smallest instance of each | disagreements between the code and its documents (below) |

Bounds of `TaskQueue`. `MaxAttempts` is 2 (3 in the code): one success after a
failure and one exhaustion fit. `MaxFaults` counts crashes, stops, failed
database calls and claims that pass over locked rows; `MaxRetries` counts what a
user repeats: nothing in `lifecycle`, where the theorems cover retries. Two faults allow a crash
during the recovery of a crash, or of a stopped claim; two tasks and an import
give every pair of kinds an order in the queue, two turns every kind of requeue. In
`lifecycle` an import may wait between two jobs of which the first is cancelled,
before the worker's choice, between choice and claim, or never; users cancel only
the delete there, though merges and scans may be cancelled as well. No run has an
endless stream of user tasks, under which a noise scan would wait for ever.
Nothing else is bounded: attempts, commits and turns are finite because of these.

In `OfflineSync` every edit and every resolution is made at most once (`fresh`),
which bounds histories and outboxes: three edits suffice for a conflict (one on
the device, one elsewhere) and an edit beside its resolution, four for a second
conflict on top. `MaxAttempts` is 1 (5 in the code), so that the limit is
reached at once and left by the retry; `MaxLate` bounds delayed requests; `Mishaps` says
whether requests fail and tabs close. Symmetry of devices and of edits is used in
the safety runs only; the fields of the edits respect it.

In `PreferenceSync` the fields are independent but for the request they share, so
that one field and two values give every order of choice, answer and foreign
write; two choices allow one beside a request, and `MaxRevision` 3 a foreign write
before and after it. Two failures (`MaxAttempts` 2, 5 in the code) reach the state
that waits for the user. A second browser is the other client of `Patch`.

In `ExportRetention` the times are the smallest that differ: a lease of a page or
a claim is one tick, a download and the retention two, and a run of the reclaimer
may take one, so that it can be later than what was renewed during it. A row is
independent of the others but for `Limit`, which `reclaiming` is about; there no
page and no claim is needed and `MaxRun` is 0.

In `AttachmentObjects` two uploads of equal bytes make an object that is shared,
raced for or deleted; two faults let a worker die while it repeats a deletion
whose request died. A second request, which would delete the same conversation
beside the first and make its job the loser of the race, was checked with one
fault outside the listed runs (2.4 million states, no error) and is covered by
the theorems.

Fairness. `TaskQueue` (`FairSpec`): a worker that is down is started again (the
container's restart policy), its loop goes on and a turn ends, and the clock
passes the stale cutoff of a row that nobody refreshes. Nothing is assumed of
users, stop signals, crashes or reports. `PulsingSpec` adds the heartbeat thread,
which pulses at an interval whatever happened before, and only `two_workers` uses
it. `OfflineSync` (`LiveSpec`): the user goes on pressing retry (weak), and of
requests, answers and storage transactions that are tried again and again one
succeeds (strong fairness of `Flush`, `Serve`, `Fetch`, `Acknowledge`,
`FinishResolution`, `Refused`), since a failure may disable each of them at any
time. `PreferenceSync` assumes the same: the page starts flushes (its interval,
`online` and `visibilitychange`), and of the requests and transactions repeated for
ever one succeeds. In `ExportRetention` time passes, the heartbeat runs
maintenance and a run goes on; strong fairness of `Mark` and `Remove` per artifact,
because a row that is locked now and then, or whose run dies, is met unlocked in
the end. That a transfer ends is not assumed: it is the premise of the property.
In `AttachmentObjects` threads and the worker go on (weak); nobody has to upload,
delete or retry anything. Edits, downloads and decisions of users are assumed
nowhere.

Disagreements found, each with a run:

* `lost_cancel`: a cancellation between the stale scan and its write-back is lost.
* `stale_base`: a resolution is prepared while a flush of another note is being
  acknowledged; the flush refreshes the working copy, the next edit (say, of the
  title) differs from the stored base in the blocks as well, and the rebase puts
  the old blocks over the resolved ones.
* `shared_object`: an upload that reuses a stored object commits between a
  deletion's reference check and its commit; the deletion waits for nothing, and
  the other conversation's attachment loses its object (`ON DELETE SET NULL`) and
  its bytes. The account deletion takes the row lock that would prevent it
  (`user_deletion.py:158`).

Met while modelling, and covered by history variables or left out of the
instances, so that the properties say what holds beside them:

* A database error after the commit turns a committed job into a failed one; its
  retry publishes again (`background_jobs.py:1512`).
* Two worker processes that hold the same import both publish it
  (`canonical/persistence.py:302`); two requests that retry one failed import
  queue it twice (`routes/tasks.py:139`).
* With two devices, one may resolve a notebook conflict that belongs to the
  other, too, whose marker then names a copy that is gone (`offline-conflicts.ts:48`);
  a conflict taken up from the list does not pause edits already queued, whose
  own conflict then replaces its marker (`:26`).
* An error after the commit of an upload, in the same `try`, deletes the bytes of
  a committed object (`routes/attachments.py:214`). An upload that fails leaves
  its item ready although the staged file is gone.
* A second deletion of a conversation that is being deleted makes the cleanup job
  fail although the deletion succeeds; "Duplicate wakeups are harmless"
  (`conversation_deletion.py:76`) holds of the data only.
* Bytes may stay without a row after a crash, and an object's row without a
  reference: the comment at `conversation_deletion.py:146` leaves them to a
  periodic collection.

## 5. Proofs

All theorems hold for every value of the constants that satisfies the assumption
named in the module. Each module has one inductive invariant, its conjuncts named
for what they say, a lemma per action or group of actions, and the properties of
the runs as corollaries.

**`TaskQueue_proofs`**: any jobs, imports, requests, turns, attempts, faults and
retries. `TypeCorrect` (any number of workers); `QueueIsSafe`: `Spec =>
[]Inductive`, if there is one worker (`OneWorker`, the production deployment);
`AttemptsStayBounded`, `RunningStaysOwned`, `PublishedOnce`, `ImportsPublishedOnce`,
`CancelledStays` from it. `Inductive` is needed because none of the properties is
preserved on its own. Attempts stay bounded because a queued row has an attempt
left (`AttemptsLeft`) and because what the stale scan loaded is not less than what
the row holds when the verdict is written (`ScanStillTrue`). A running job is owned
because the worker's control state says what its row may be (`HeldRow`), which no
endpoint can change beyond `cancelling`. Results match status (`CommitsMatch`)
except for rows that were written over. With two workers the invariant fails: a
second scan may take a running job away.

The second part of `TaskQueue_proofs`: `QueueImplementsLifecycle`, the refinement, step by step:
every action of `TaskQueue` is an action of `TaskLifecycle` under `Shown` or leaves
what the user sees alone; and `NobodyEverOvertakes`. Both assume one worker and
one API thread with an import in its hands at a time (`OneWorker`, `OneRequest`),
the refinement also that no error follows a commit (`LateErrors = {}`): the
disagreements below the runs are what happens otherwise. What they need
beyond `Inductive` (`OneAtATime`): while a request holds an import nobody runs it,
the rows a stale scan has loaded are still active, and the import a worker holds is
being processed or done.

`NobodyOvertakes` says what the code keeps of the order of the queue, which is less
than first come, first served: a worker chooses a kind in one statement and claims in
another. With J1, an import and J2 queued in this order, it may choose a job because
of J1, J1 is cancelled, and J2 is claimed before the import (`MayPass`). The proof
needs that `ahead` is a strict weak order of the rows in line (`InOrder`), which every
step keeps because whoever joins the line joins it at the end (`Moves`), and what a
worker knows at each of its statements about the tasks it found waiting (`Watch`):
that what was older than the import it read is older than every waiting import; after
it chose imports, that some import has no waiting job before it; after it chose jobs,
that every import has one, or had one that was cancelled; after it chose noise, that
no user task is left. The steps of others keep each of these (`WatchKept`), because
of waiting tasks they only cancel jobs.

**`OfflineSync_proofs`**: any devices, entities, fields and late requests, any
outcome of every request. `SyncIsInductive`, `WorkingCopiesAreTrue`,
`ResolutionsKeepRequests`, `PausedEditsHaveConflicts`. The assumptions are
`OfflineAssumption` (identifiers of edits and resolutions differ, there are
finitely many edits) and `NoneAssumption` (`None` is no record and no error).
The invariant is split into what is true of one device (`Holds`), which the steps
of the others leave alone, and the little that is `Shared`. Its heart: an operation
waits in one outbox, in the very form in which it is or was requested
(`OperationsHold`), or else its retry would be refused by its own receipt
(`Refusal`'s first case) and the edit stuck. A rebase renumbers operations, and may
do so because what a stored resolution does not supersede has been paused since
it was queued, and so was never sent (`ResolutionsHold`). `RequestsHold` ties a
snapshot to the history, by which working copies are true again after every
acknowledgement, and the answers to their request.

**`OfflineConflicts_proofs`**: conflicts of annotations, again for any devices and
outcomes. `QueueIsRuled` (what may have been sent is the first of its entity's
queue, what a marker has paused was never sent) gives `AnnotationEditsPause`
and, without notebooks, `ConflictsPauseEdits`. `ConflictsAreRuled` follows the
conflict copy: it belongs to one answered operation, a marker names the copy of
an operation of that very device, and a copy goes only with the decision that
its own marker holds. So a shown conflict can be compared
(`AnnotationsComparable`, `ConflictsStayComparable`). The theorems about the
runs' properties assume `Notebooks = {}` because of notebooks they are false:
`ensureNotebookConflict` may record a conflict beside edits that were queued
before, and takes up a listed copy that another device may have resolved since.

**`OfflineEdits_proofs`**: where an edit may be. For an entity, `Apart(e)` is the
set of edits that are not made yet, wait for an answer, or have a conflict copy;
no step adds to it. `EditRules` says that no version contains such an edit, and
neither does anything that could become a version (an outbox, a working copy, a
marker, a comparison, a decision, a request on its way) without taking the waiting
operation or the copy along. `EditsAreApart` proves it inductive on top of the
two modules before, and `CopiesAreNotApplied`, `EditsAppliedOrCopied` follow: a
retried operation does not conflict with itself.

**`OfflineFields_proofs`**: what a content knows. A rebase may replace an edit by
a later one of the same field, so contents are compared by the fields they set:
`Below(S, T)`, whatever S sets T sets. `FieldRules` says of everything that may
become a version that it covers what it will be put on: an operation knows
the version its base names and the operations it waits behind (`QueueCovers`,
`Consecutive`), a prepared, sent or delayed decision knows the version and the
copy that were compared (`Weighs`), and a request holds one operation per entity,
so that its predicted revisions come true (`RequestsSingle`). `FieldsAreKept` is
its inductiveness, whichever edits change the same field. From it, again whichever
they are: `NoVersionForgetsAField`; `DecisionsKeepFields` (the end of a conflict
leaves no field of the server's version out of the working copy); and
`NoFieldIsLost`: a field that was edited waits in an outbox for its first answer,
is set by a current version or a conflict copy, or was in view when its user kept
the server's version. Where every edit has a field of its own, as in `conflicts`,
fields are edits, and `NoVersionIsOverwritten`, `NoEditIsLost` and
`OnlyChangedFieldsAreRebased` say so of the runs' properties. Without that
hypothesis the three are false of the code: `stale_base` is the counterexample to
`OnlyEditedFields`, and an edit of a field that is edited again may be replaced,
which is what the author wants. Without `Notebooks = {}` the proof does not go
through as it stands, because of `FieldRules`, which is about annotations (`Notes`).

**`PreferenceSync_proofs`**: any browsers, tabs, fields and values, with or without
locks. `StateIsTyped`, `StateIsLinked` (the invariant), `ChoicesAreKept`,
`ConflictsAreReal`, `OverwritesAreSeen`, `CacheMovesForward`. The invariant is
about one browser and one field at a time (`Linked`): what has been sent is still
pending (`SentIsPending`), the numbers of choices, request and answers are in
order (`Numbered`), the base of a choice has been on the screen (`BasesSeen`) and
an answer names revisions the server really had (`AnswerIsTrue`). Losing any of
the four, a late answer of one tab could confirm what another has replaced.

**`ExportRetention_proofs`**: any artifacts, sessions, transfers, reclaimers and
times. `RetentionIsInductive`, `LeasesAreHonoured`, `TransfersKeepTheirFiles`,
`StatusStaysTrue`, `RemovalsAreInTurn`. The heart is that a run judges by an older
time than now, which errs on the safe side only: a lease valid now was valid then
or has been taken since on a row that is still active (`Live` with the run's lag).
`Held` gives every transfer a lease row of its own that is valid as long as the
transfer relies on it; `Marked` says that what a run is about to remove is no
longer on offer, and for a reason that nobody can take back.

**`AttachmentObjects_proofs`**: any conversations, uploads, contents, requests and
faults, one worker. `ObjectsAreInductive`, `ObjectsKeepBytes`, `SharedObjectsStay`,
`DeletionsAreResumable`. An object that is `Published` stays so: nobody promotes
or takes back its bytes any more, so that an upload which found it may rely on it.
While a deletion holds the conversation's lock no upload into it is between insert
and commit, and therefore what the check found unreferenced is referred to by
`raced` attachments only. A job is committed only when its conversation is gone,
which makes the tombstone's job resumable.

Only model-checked: liveness (`EveryTaskSettles`, `ReplacedExits`, `EditsDrain`,
`ChoicesSettle`, `EveryExportReclaimed`, `DeletionFinishes`), which is out of the
prover's reach with `ENABLED`; and, of `OfflineSync`, what `NoEditLost`,
`NoBlindOverwrite`, `ConflictPauses`, `AppliedOrCopied` and `ComparisonAvailable`
say of notebooks. Nothing here is proved by induction over data.

## 6. Not modelled

Most of the repository's lines are the reader's user interface, rendering,
parsers of chat exports, archives, search and their scripts: transformations of
data and presentation, without state that several actors share. They are left
out on purpose, and so the map covers a small part of the lines; what it covers
is where two actors, a crash or a lost answer can spoil data. Of the protocols,
these remain: the package files of offline downloads (`offline_download.py` checks
leases in one transaction and unlinks after another), the session states and the
memory slots of adaptive imports, revisions of edited conversations, shares,
account deletion, the findings of the content cleanup, idempotent submission of
jobs, and what a batch deletion remembers across a retry. They are not modelled
yet; the plan orders them.
