--------------------------- MODULE AttachmentObjects ---------------------------
(***************************************************************************)
(* Attachments of conversations and the stored objects they share.  An     *)
(* upload is finalized by one transaction: it promotes its staged file to  *)
(* an object of its own, or refers to the object that already has its      *)
(* content.  A conversation is deleted in three transactions: the          *)
(* tombstone with a durable cleanup job, the rows with the objects nobody  *)
(* refers to any more, and the end of the job; then the files go.          *)
(*                                                                         *)
(* PostgreSQL at READ COMMITTED: a statement sees what is committed.       *)
(* Inserting an attachment takes a key-share lock on its conversation and  *)
(* on its object, which the foreign keys check; SELECT ... FOR UPDATE and  *)
(* DELETE wait for these locks and the other way round.                    *)
(*                                                                         *)
(* An object is named for the upload whose file became its bytes.          *)
(*                                                                         *)
(* Left out: derivatives and leases of objects (further references of the  *)
(* same check), imports and copies of conversations (which refer to        *)
(* objects like uploads do), the expiry of upload sessions, the tags,      *)
(* reading lists and context objects that go with a conversation.          *)
(***************************************************************************)
EXTENDS Naturals, FiniteSets

CONSTANTS
  Conversations,
  Uploads,      \* upload items that have been staged and scanned
  Requests,     \* DELETE requests and turns of batch deletions
  Worker,       \* the worker process, which runs the cleanup jobs
  Owner,        \* Owner[c]: the account of conversation c
  Home,         \* Home[u]: the conversation of upload u
  Content,      \* Content[u]: hash and size of its bytes
  Target,       \* Target[r]: the conversation that request r deletes
  None,
  Null,         \* asset_object_id of an attachment whose object was deleted
  MaxAttempts,  \* of a job, by stale recovery
  MaxFaults     \* bound: crashes and failing statements

\* status of a background job, of those a cleanup job can have
Statuses == {"queued", "processing", "committed", "failed"}

ASSUME AttachmentAssumption ==
  /\ Home \in [Uploads -> Conversations]
  /\ Target \in [Requests -> Conversations]
  /\ DOMAIN Content = Uploads
  /\ DOMAIN Owner = Conversations
  /\ Worker \notin Requests
  /\ None \notin Uploads \cup Requests \cup Conversations \cup Statuses
  /\ Null \notin Uploads \cup {None}
  /\ MaxAttempts \in Nat \ {0}
  /\ MaxFaults \in Nat

Deleters == Requests \cup {Worker}

VARIABLES
  conv,        \* conversations: "active", "deleted" (tombstone) or "gone"
  attachment,  \* attachment[u]: the object of u's attachment, if there is one
  rows,        \* asset_objects: the objects that have a row
  files,       \* the objects whose bytes are stored
  staged,      \* uploads whose staged file still exists
  upload,      \* upload[u]: the transaction that finalizes u
  deleter,     \* deleter[p]: where process p is in delete_conversation_record
  job,         \* cleanup jobs, named for the request that created them
  attempts,    \* attempt_count of the jobs
  faults,      \* bound
  raced,       \* history: attachments added to an object after its check
  undone       \* history: objects deleted by an error after their commit

store == <<rows, files, staged>>
jobs == <<job, attempts>>
ghost == <<raced, undone>>
vars == <<conv, attachment, store, upload, deleter, jobs, faults, ghost>>

NoUpload == [pc |-> "idle", object |-> None]
Nowhere(pc) ==
  [pc |-> pc, c |-> None, scope |-> {}, run |-> None, cleanup |-> None, keys |-> {}]

\* FOR UPDATE on the conversation, from its lock to the end of the deletion.
Locked(c) == \E p \in Deleters : deleter[p].pc \in {"locked", "checked"} /\ deleter[p].c = c

\* lock_feature_collection: deletions of one account take turns.
CollectionsHeld(o) ==
  \E p \in Deleters : deleter[p].pc \in {"locked", "checked"} /\ Owner[deleter[p].c] = o

Inserted(u) == upload[u].pc = "inserted"

Fault == faults < MaxFaults /\ faults' = faults + 1

-----------------------------------------------------------------------------
(* Finalizing an upload. *)

Stored(k) == {o \in rows : Content[o] = k}

\* The endpoint finds the conversation active, and finalize_upload_items goes
\* on up to the file system: the item is locked, and its file becomes an
\* object, or goes because the bytes are stored already.  One step: an upload
\* that has passed the check is not begun on a conversation deleted since.
BeginUpload(u) ==
  /\ upload[u].pc = "idle"
  /\ conv[Home[u]] = "active"
  /\ attachment[u] = None
  /\ u \in staged
  /\ staged' = staged \ {u}
  /\ IF Stored(Content[u]) = {}
     THEN /\ files' = files \cup {u}
          /\ upload' = [upload EXCEPT ![u] = [pc |-> "looked", object |-> u]]
     ELSE /\ UNCHANGED files
          /\ upload' = [upload EXCEPT ![u] =
               [pc |-> "looked", object |-> CHOOSE o \in Stored(Content[u]) : TRUE]]
  /\ UNCHANGED <<conv, attachment, rows, deleter, jobs, faults, ghost>>

\* Do the constraints hold: one row per content, the object's foreign key?
\* The conversation cannot be gone, whose items are locked.
Insertable(u) ==
  IF upload[u].object = u THEN Stored(Content[u]) = {} ELSE upload[u].object \in rows

\* db.flush(): waits for whoever has the conversation locked or is about to
\* insert a row of the same content.
InsertUpload(u) ==
  /\ upload[u].pc = "looked"
  /\ ~Locked(Home[u])
  /\ upload[u].object = u =>
       \A v \in Uploads \ {u} :
         Inserted(v) /\ upload[v].object = v => Content[v] # Content[u]
  /\ Insertable(u)
  /\ upload' = [upload EXCEPT ![u] = [pc |-> "inserted", object |-> @.object]]
  /\ UNCHANGED <<conv, attachment, store, deleter, jobs, faults, ghost>>

\* Mutant: an upload that fails leaves the object it has found without bytes.
GiveUpFound(u) ==
  /\ upload' = [upload EXCEPT ![u] = NoUpload]
  /\ files' = files \ {upload[u].object}
  /\ UNCHANGED <<conv, attachment, rows, staged, deleter, jobs, ghost>>

\* The except clauses: the transaction is rolled back, what it has promoted
\* is deleted.
GiveUp(u) ==
  /\ upload' = [upload EXCEPT ![u] = NoUpload]
  /\ files' = IF upload[u].object = u THEN files \ {u} ELSE files
  /\ UNCHANGED <<conv, attachment, rows, staged, deleter, jobs, ghost>>

RejectUpload(u) ==
  /\ upload[u].pc = "looked"
  /\ ~Locked(Home[u])
  /\ ~Insertable(u)
  /\ GiveUp(u)
  /\ UNCHANGED faults

FailUpload(u) ==
  /\ upload[u].pc \in {"looked", "inserted"}
  /\ Fault
  /\ GiveUp(u)

\* The process dies: the database forgets the transaction, the store does not.
CrashUpload(u) ==
  /\ upload[u].pc # "idle"
  /\ Fault
  /\ upload' = [upload EXCEPT ![u] = NoUpload]
  /\ UNCHANGED <<conv, attachment, store, deleter, jobs, ghost>>

CommitUpload(u) ==
  /\ Inserted(u)
  /\ attachment' = [attachment EXCEPT ![u] = upload[u].object]
  /\ rows' = rows \cup {upload[u].object}
  /\ upload' = [upload EXCEPT ![u] = [pc |-> "replying", object |-> @.object]]
  /\ raced' = IF \E p \in Deleters :
                   deleter[p].pc = "checked" /\ upload[u].object \in deleter[p].keys
              THEN raced \cup {u} ELSE raced
  /\ UNCHANGED <<conv, files, staged, deleter, jobs, faults, undone>>

\* attachment_read reads the committed attachment again.
Reply(u) ==
  /\ upload[u].pc = "replying"
  /\ attachment[u] # None
  /\ upload' = [upload EXCEPT ![u] = NoUpload]
  /\ UNCHANGED <<conv, attachment, store, deleter, jobs, faults, ghost>>

\* An error after the commit, in the same try: what has been promoted is
\* deleted.  The attachment may be gone with its conversation.
ReplyFails(u) ==
  /\ upload[u].pc = "replying"
  /\ IF attachment[u] = None THEN UNCHANGED faults ELSE Fault
  /\ upload' = [upload EXCEPT ![u] = NoUpload]
  /\ IF upload[u].object = u
     THEN files' = files \ {u} /\ undone' = undone \cup {u}
     ELSE UNCHANGED <<files, undone>>
  /\ UNCHANGED <<conv, attachment, rows, staged, deleter, jobs, raced>>

-----------------------------------------------------------------------------
(* Deleting a conversation. *)

\* The next step of process p, which has found a cleanup job and objects.
GoTo(p, pc, cleanup, keys) ==
  deleter' = [deleter EXCEPT ![p] =
    [pc |-> pc, c |-> @.c, scope |-> @.scope, run |-> @.run,
     cleanup |-> cleanup, keys |-> keys]]

Step(p, pc) == GoTo(p, pc, deleter[p].cleanup, deleter[p].keys)

\* delete_conversation_record returns.
Return(p) ==
  IF p = Worker THEN Step(p, "finishing")
  ELSE deleter' = [deleter EXCEPT ![p] = Nowhere("done")]

\* A pending cleanup job of c: waiting or running.
PendingJobs(c) == {r \in Requests : Target[r] = c /\ job[r] \in {"queued", "processing"}}

\* The committed objects that attachments of c refer to.
ObjectsOf(c) == {attachment[u] : u \in {v \in Uploads : Home[v] = c}} \cap Uploads

\* What the first transaction reads.
Open(p, c, run) ==
  /\ conv[c] # "gone"
  /\ \E r \in IF PendingJobs(c) = {} THEN {None} ELSE PendingJobs(c) :
       deleter' = [deleter EXCEPT ![p] =
         [pc |-> "opened", c |-> c, scope |-> ObjectsOf(c), run |-> run,
          cleanup |-> r, keys |-> {}]]
  /\ UNCHANGED <<conv, attachment, store, upload, jobs, faults, ghost>>

\* A request for a conversation that is gone is answered 404.
OpenRequest(r) == deleter[r].pc = "idle" /\ Open(r, Target[r], None)

\* An exception ends a request; the worker records a failed job.
Raise(p) ==
  /\ deleter' = [deleter EXCEPT ![p] = Nowhere(IF p = Worker THEN "idle" ELSE "done")]
  /\ job' = IF p = Worker THEN [job EXCEPT ![deleter[p].run] = "failed"] ELSE job
  /\ UNCHANGED <<conv, attachment, store, upload, attempts, ghost>>

\* Mutant: the tombstone is committed without the job.
TombstoneAlone(p) ==
  /\ deleter[p].pc = "opened"
  /\ ~Locked(deleter[p].c)
  /\ conv[deleter[p].c] # "gone"
  /\ conv' = [conv EXCEPT ![deleter[p].c] = "deleted"]
  /\ Step(p, "tombstoned")
  /\ UNCHANGED <<attachment, store, upload, jobs, faults, ghost>>

\* The tombstone and, unless one is pending, the cleanup job.
Tombstone(p) ==
  /\ deleter[p].pc = "opened"
  /\ ~Locked(deleter[p].c)
  /\ conv[deleter[p].c] # "gone"
  /\ conv' = [conv EXCEPT ![deleter[p].c] = "deleted"]
  /\ IF deleter[p].cleanup = None
     THEN /\ GoTo(p, "tombstoned", p, {})
          /\ job' = [job EXCEPT ![p] = "queued"]
     ELSE /\ Step(p, "tombstoned")
          /\ UNCHANGED job
  /\ UNCHANGED <<attachment, store, upload, attempts, faults, ghost>>

\* The second transaction finds the conversation, or there is nothing to do.
Find(p) ==
  /\ deleter[p].pc = "tombstoned"
  /\ IF conv[deleter[p].c] = "gone" THEN Return(p) ELSE Step(p, "found")
  /\ UNCHANGED <<conv, attachment, store, upload, jobs, faults, ghost>>

\* lock_feature_collection and the row lock.
Lock(p) ==
  /\ deleter[p].pc = "found"
  /\ ~CollectionsHeld(Owner[deleter[p].c])
  /\ ~Locked(deleter[p].c)
  /\ \A u \in Uploads : Inserted(u) => Home[u] # deleter[p].c
  /\ conv[deleter[p].c] # "gone"
  /\ Step(p, "locked")
  /\ UNCHANGED <<conv, attachment, store, upload, jobs, faults, ghost>>

\* Somebody else has deleted it meanwhile: the UPDATE or the refresh finds no
\* row and raises.
Late(p) ==
  /\ deleter[p].pc \in {"opened", "found"}
  /\ conv[deleter[p].c] = "gone"
  /\ Raise(p)
  /\ UNCHANGED faults

\* Mutant: the references are asked for within the account.
ReferredByOwner(o, c) ==
  \E u \in Uploads : attachment[u] = o /\ Home[u] # c /\ Owner[Home[u]] = Owner[c]

\* asset_object_has_live_references, when the attachments of c are deleted.
Referred(o, c) == \E u \in Uploads : attachment[u] = o /\ Home[u] # c

\* The cascade waits for the items that uploads of the conversation hold;
\* then the objects are checked, without a lock on their rows.
Check(p) ==
  /\ deleter[p].pc = "locked"
  /\ \A u \in Uploads : upload[u].pc = "looked" => Home[u] # deleter[p].c
  /\ GoTo(p, "checked", deleter[p].cleanup,
          {o \in deleter[p].scope \cap rows : ~Referred(o, deleter[p].c)})
  /\ UNCHANGED <<conv, attachment, store, upload, jobs, faults, ghost>>

\* An upload holds its item and needs the conversation, the deletion holds the
\* conversation and needs the item: PostgreSQL ends one of them.
Deadlock(p, u) ==
  /\ deleter[p].pc = "locked"
  /\ upload[u].pc = "looked"
  /\ Home[u] = deleter[p].c
  /\ \/ Raise(p)
     \/ GiveUp(u)
  /\ UNCHANGED faults

\* The second commit: conversation and objects go, and attachments that refer
\* to these objects by now lose them (ON DELETE SET NULL).
CommitDeletion(p) ==
  /\ deleter[p].pc = "checked"
  /\ \A u \in Uploads : Inserted(u) => upload[u].object \notin deleter[p].keys
  /\ conv' = [conv EXCEPT ![deleter[p].c] = "gone"]
  /\ attachment' = [u \in Uploads |->
       IF Home[u] = deleter[p].c THEN None
       ELSE IF attachment[u] \in deleter[p].keys THEN Null ELSE attachment[u]]
  /\ rows' = rows \ deleter[p].keys
  /\ Step(p, "settling")
  /\ UNCHANGED <<files, staged, upload, jobs, faults, ghost>>

\* The third transaction: a job that nobody has claimed is not needed.
ReadJob(p) ==
  /\ deleter[p].pc = "settling"
  /\ Step(p, IF job[deleter[p].cleanup] = "queued" THEN "marking" ELSE "unlinking")
  /\ UNCHANGED <<conv, attachment, store, upload, jobs, faults, ghost>>

MarkJob(p) ==
  /\ deleter[p].pc = "marking"
  /\ job' = [job EXCEPT ![deleter[p].cleanup] = "committed"]
  /\ Step(p, "unlinking")
  /\ UNCHANGED <<conv, attachment, store, upload, attempts, faults, ghost>>

\* Errors of the store are ignored.
Unlink(p, o) ==
  /\ deleter[p].pc = "unlinking"
  /\ o \in deleter[p].keys
  /\ GoTo(p, "unlinking", deleter[p].cleanup, deleter[p].keys \ {o})
  /\ \/ files' = files \ {o} /\ UNCHANGED faults
     \/ Fault /\ UNCHANGED files
  /\ UNCHANGED <<conv, attachment, rows, staged, upload, jobs, ghost>>

EndDeletion(p) ==
  /\ deleter[p].pc = "unlinking"
  /\ deleter[p].keys = {}
  /\ Return(p)
  /\ UNCHANGED <<conv, attachment, store, upload, jobs, faults, ghost>>

Busy(p) == deleter[p].pc \notin {"idle", "done"}

FailDeletion(p) == Busy(p) /\ Fault /\ Raise(p)

CrashDeletion(p) ==
  /\ Busy(p)
  /\ Fault
  /\ deleter' = [deleter EXCEPT ![p] = Nowhere(IF p = Worker THEN "idle" ELSE "done")]
  /\ UNCHANGED <<conv, attachment, store, upload, jobs, ghost>>

-----------------------------------------------------------------------------
(* The worker and the cleanup jobs. *)

Claim(r) ==
  /\ deleter[Worker].pc = "idle"
  /\ job[r] = "queued"
  /\ job' = [job EXCEPT ![r] = "processing"]
  /\ attempts' = [attempts EXCEPT ![r] = @ + 1]
  /\ deleter' = [deleter EXCEPT ![Worker] =
       [pc |-> "claimed", c |-> Target[r], scope |-> {}, run |-> r,
        cleanup |-> None, keys |-> {}]]
  /\ UNCHANGED <<conv, attachment, store, upload, faults, ghost>>

OpenClaimed ==
  /\ deleter[Worker].pc = "claimed"
  /\ \/ Open(Worker, deleter[Worker].c, deleter[Worker].run)
     \/ /\ conv[deleter[Worker].c] = "gone"
        /\ Step(Worker, "finishing")
        /\ UNCHANGED <<conv, attachment, store, upload, jobs, faults, ghost>>

\* The commit of a job is guarded by its status.
Finish ==
  /\ deleter[Worker].pc = "finishing"
  /\ job' = [job EXCEPT ![deleter[Worker].run] =
       IF @ = "processing" THEN "committed" ELSE @]
  /\ deleter' = [deleter EXCEPT ![Worker] = Nowhere("idle")]
  /\ UNCHANGED <<conv, attachment, store, upload, attempts, faults, ghost>>

\* Mutant: a job that has used its attempts is left alone.
RecoverUnlessUsed(r) ==
  /\ job[r] = "processing"
  /\ deleter[Worker].run # r
  /\ attempts[r] < MaxAttempts
  /\ job' = [job EXCEPT ![r] = "queued"]
  /\ UNCHANGED <<conv, attachment, store, upload, deleter, attempts, faults, ghost>>

\* recover_stale_jobs: a job whose worker has died.
Recover(r) ==
  /\ job[r] = "processing"
  /\ deleter[Worker].run # r
  /\ job' = [job EXCEPT ![r] = IF attempts[r] < MaxAttempts THEN "queued" ELSE "failed"]
  /\ UNCHANGED <<conv, attachment, store, upload, deleter, attempts, faults, ghost>>

\* retry_background_job: the user tries a failed job again.
Retry(r) ==
  /\ job[r] = "failed"
  /\ job' = [job EXCEPT ![r] = "queued"]
  /\ attempts' = [attempts EXCEPT ![r] = 0]
  /\ UNCHANGED <<conv, attachment, store, upload, deleter, faults, ghost>>

-----------------------------------------------------------------------------
Init ==
  /\ conv = [c \in Conversations |-> "active"]
  /\ attachment = [u \in Uploads |-> None]
  /\ rows = {} /\ files = {} /\ staged = Uploads
  /\ upload = [u \in Uploads |-> NoUpload]
  /\ deleter = [p \in Deleters |-> Nowhere("idle")]
  /\ job = [r \in Requests |-> None]
  /\ attempts = [r \in Requests |-> 0]
  /\ faults = 0
  /\ raced = {} /\ undone = {}

Finalize(u) ==
  InsertUpload(u) \/ RejectUpload(u) \/ CommitUpload(u) \/ Reply(u) \/ ReplyFails(u)

Delete(p) ==
  \/ Tombstone(p) \/ Find(p) \/ Lock(p) \/ Late(p) \/ Check(p) \/ CommitDeletion(p)
  \/ ReadJob(p) \/ MarkJob(p) \/ EndDeletion(p)
  \/ \E u \in Uploads : Deadlock(p, u) \/ Unlink(p, u)

Work == OpenClaimed \/ Finish \/ \E r \in Requests : Claim(r) \/ Recover(r)

Next ==
  \/ \E u \in Uploads : BeginUpload(u) \/ Finalize(u) \/ FailUpload(u) \/ CrashUpload(u)
  \/ \E r \in Requests : OpenRequest(r) \/ Retry(r)
  \/ \E p \in Deleters : Delete(p) \/ FailDeletion(p) \/ CrashDeletion(p)
  \/ Work

Spec == Init /\ [][Next]_vars

\* Threads and the worker go on; nobody has to upload or delete anything.
LiveSpec ==
  /\ Spec
  /\ \A u \in Uploads : WF_vars(Finalize(u))
  /\ \A p \in Deleters : WF_vars(Delete(p))
  /\ WF_vars(Work)

-----------------------------------------------------------------------------
(* Properties. *)

Stages == {"idle", "done", "claimed", "opened", "tombstoned", "found", "locked",
           "checked", "settling", "marking", "unlinking", "finishing"}

\* The types of the rows and of the processes' local states.
TypeOK ==
  /\ conv \in [Conversations -> {"active", "deleted", "gone"}]
  /\ attachment \in [Uploads -> Uploads \cup {None, Null}]
  /\ rows \subseteq Uploads /\ files \subseteq Uploads /\ staged \subseteq Uploads
  /\ upload \in [Uploads -> [pc : {"idle", "looked", "inserted", "replying"},
                             object : Uploads \cup {None}]]
  /\ deleter \in [Deleters ->
       [pc : Stages, c : Conversations \cup {None}, scope : SUBSET Uploads,
        run : Requests \cup {None}, cleanup : Requests \cup {None}, keys : SUBSET Uploads]]
  /\ job \in [Requests -> Statuses \cup {None}]
  /\ attempts \in [Requests -> 0 .. MaxAttempts]
  /\ faults \in 0 .. MaxFaults
  /\ raced \subseteq Uploads /\ undone \subseteq Uploads

Uncommitted(u) == upload[u].pc \in {"looked", "inserted"}

\* An object is published when it can no longer be promoted again.
Published(o) == o \notin staged /\ (Uncommitted(o) => upload[o].object # o)

\* What an upload under way may rely on.
UploadsHold ==
  \A u \in Uploads :
    /\ upload[u].pc # "idle" => upload[u].object \in Uploads /\ u \notin staged
    /\ Uncommitted(u) => conv[Home[u]] # "gone" /\ attachment[u] = None
    /\ Uncommitted(u) /\ upload[u].object = u => u \in files
    /\ upload[u].object \in Uploads \ {u} => Published(upload[u].object)
    /\ Inserted(u) /\ upload[u].object # u => upload[u].object \in rows

\* Only published objects are referred to, and none is referred to blindly.
ReferencesHold ==
  /\ \A o \in rows : Published(o)
  /\ \A u \in Uploads : attachment[u] \in Uploads => Published(attachment[u])
  /\ \A p \in Deleters : \A o \in deleter[p].scope \cup deleter[p].keys : Published(o)

\* Who is deleting what, and what nobody else can do to it meanwhile.
DeletionsHold ==
  \A p \in Deleters :
    LET d == deleter[p]
    IN /\ d.pc \notin {"idle", "done"} => d.c \in Conversations
       /\ d.pc \in {"tombstoned", "found"} => conv[d.c] # "active"
       /\ d.pc \in {"locked", "checked"} =>
            /\ conv[d.c] = "deleted"
            /\ \A q \in Deleters \ {p} :
                 deleter[q].pc \in {"locked", "checked"} => deleter[q].c # d.c
            /\ \A u \in Uploads : Home[u] = d.c => ~Inserted(u)
       /\ d.pc = "checked" => \A u \in Uploads :
            /\ Home[u] = d.c => ~Uncommitted(u)
            /\ attachment[u] \in d.keys => Home[u] = d.c \/ u \in raced
       /\ d.pc \in {"settling", "marking", "unlinking", "finishing"} => conv[d.c] = "gone"
       /\ d.pc \in {"settling", "marking", "unlinking"} => d.keys \cap rows = {}

\* Which job stands for which deletion.
JobsHold ==
  /\ \A p \in Deleters :
       LET d == deleter[p]
       IN /\ p \in Requests => d.pc \notin {"claimed", "finishing"} /\ d.run = None
          /\ p \in Requests /\ d.pc \notin {"idle", "done"} => d.c = Target[p]
          /\ d.cleanup # None => Target[d.cleanup] = d.c /\ job[d.cleanup] # None
          /\ d.pc \in {"tombstoned", "found", "locked", "checked", "settling", "marking"} =>
               d.cleanup # None
          /\ d.pc = "opened" /\ d.cleanup = None => p \in Requests
  /\ deleter[Worker].pc # "idle" =>
       /\ deleter[Worker].run \in Requests
       /\ deleter[Worker].c = Target[deleter[Worker].run]
       /\ job[deleter[Worker].run] = "processing" \/ conv[deleter[Worker].c] = "gone"
       /\ job[deleter[Worker].run] # None
  /\ deleter[Worker].pc # "done"
  /\ \A r \in Requests :
       /\ deleter[r].pc \in {"idle", "opened"} => job[r] = None
       /\ job[r] = None => attempts[r] = 0
       /\ job[r] = "queued" => attempts[r] < MaxAttempts
       /\ job[r] = "committed" => conv[Target[r]] = "gone"

\* A committed object has its bytes, although neither promotion nor removal is
\* atomic with the commit, whatever fails or dies in between - unless the
\* request that stored it met an error after its own commit.
ObjectsHaveBytes == rows \ undone \subseteq files

\* Deleting a conversation preserves the objects that others share: a visible
\* attachment has its object, unless it was added between the check and the
\* commit of a deletion.
AttachmentsKeepObjects ==
  \A u \in Uploads \ raced : attachment[u] # None => attachment[u] \in rows

\* A tombstone leaves resumable work, whoever dies: a job that is pending or
\* that the user may retry.
TombstoneHasJob ==
  \A c \in Conversations : conv[c] = "deleted" =>
    \E r \in Requests : Target[r] = c /\ job[r] \in {"queued", "processing", "failed"}

\* The inductive invariant: what no interleaving of uploads, requests, worker
\* and faults disturbs.
Inductive ==
  /\ TypeOK /\ UploadsHold /\ ReferencesHold /\ DeletionsHold /\ JobsHold
  /\ ObjectsHaveBytes /\ AttachmentsKeepObjects /\ TombstoneHasJob

\* Every deletion that has been announced is carried out, unless its job has
\* failed, which the user sees.
DeletionFinishes ==
  \A c \in Conversations :
    conv[c] = "deleted" ~>
      \/ conv[c] = "gone"
      \/ \E r \in Requests : Target[r] = c /\ job[r] = "failed"

\* "only when there is no real reference": an object whose row goes is one
\* that no attachment refers to.
OnlyUnreferenced ==
  [][\A o \in rows \ rows' : \A u \in Uploads :
       attachment[u] = o => attachment'[u] = None]_vars
=============================================================================
