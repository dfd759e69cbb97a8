----------------------- MODULE AttachmentObjects_proofs -----------------------
(***************************************************************************)
(* The safety properties of AttachmentObjects, for any number of           *)
(* conversations, accounts, uploads and deletion requests and any bounds.  *)
(*                                                                         *)
(* The invariant that every step keeps is Inductive.  The bytes of a       *)
(* committed object are safe because a published object is never promoted  *)
(* again (UploadsHold, ReferencesHold) and a deletion unlinks only what    *)
(* has lost its row (DeletionsHold); an attachment keeps its object        *)
(* because the check and the commit of a deletion are done under the lock  *)
(* of its conversation, but for the uploads that slip in between; and a    *)
(* tombstone keeps its job because a job is committed only once the        *)
(* conversation is gone (JobsHold).                                        *)
(*                                                                         *)
(* DeletionFinishes rests on fairness and is left to TLC.                  *)
(***************************************************************************)
EXTENDS AttachmentObjects, TLAPS

\* What TypeOK says of single rows and processes.
LEMMA Typed ==
  ASSUME TypeOK
  PROVE  /\ \A u \in Uploads :
              /\ upload[u].pc \in {"idle", "looked", "inserted", "replying"}
              /\ upload[u].object \in Uploads \cup {None}
              /\ attachment[u] \in Uploads \cup {None, Null}
         /\ \A p \in Deleters :
              /\ deleter[p].pc \in Stages
              /\ deleter[p].c \in Conversations \cup {None}
              /\ deleter[p].scope \in SUBSET Uploads /\ deleter[p].keys \in SUBSET Uploads
              /\ deleter[p].run \in Requests \cup {None}
              /\ deleter[p].cleanup \in Requests \cup {None}
BY DEF TypeOK

\* The parts about jobs read neither uploads nor objects.
LEMMA JobsUntouched ==
  ASSUME JobsHold, TombstoneHasJob, UNCHANGED <<conv, deleter, jobs>>
  PROVE  JobsHold' /\ TombstoneHasJob'
BY DEF JobsHold, TombstoneHasJob, jobs

-----------------------------------------------------------------------------
(* Steps of uploads. *)

LEMMA BeginUploadKeeps ==
  ASSUME Inductive, NEW u \in Uploads, BeginUpload(u)
  PROVE  Inductive'
<1>0. TypeOK /\ UploadsHold /\ ReferencesHold /\ DeletionsHold /\ JobsHold
      /\ ObjectsHaveBytes /\ AttachmentsKeepObjects /\ TombstoneHasJob
  BY DEF Inductive
<1>1. /\ u \in staged /\ staged' = staged \ {u} /\ upload[u].pc = "idle"
      /\ conv[Home[u]] = "active" /\ attachment[u] = None
      /\ UNCHANGED <<conv, attachment, rows, deleter, job, attempts, faults, raced, undone>>
  BY DEF BeginUpload, jobs, ghost
<1>2. PICK o \in Uploads :
        /\ upload' = [upload EXCEPT ![u] = [pc |-> "looked", object |-> o]]
        /\ \/ o = u /\ files' = files \cup {u}
           \/ o \in rows /\ files' = files
  <2>1. CASE Stored(Content[u]) = {}
    BY <2>1 DEF BeginUpload
  <2>2. CASE Stored(Content[u]) # {}
    <3>1. (CHOOSE o \in Stored(Content[u]) : TRUE) \in rows
      BY <2>2 DEF Stored
    <3>. QED BY <1>0, <2>2, <3>1 DEF BeginUpload, TypeOK
  <2>. QED BY <2>1, <2>2
<1>3. TypeOK'
  BY <1>0, <1>1, <1>2 DEF TypeOK
<1>4. upload'[u] = [pc |-> "looked", object |-> o] /\ \A v \in Uploads \ {u} : upload'[v] = upload[v]
  BY <1>0, <1>2 DEF TypeOK
<1>5. ASSUME NEW k, Published(k)
      PROVE  Published(k)'
  BY <1>0, <1>1, <1>2, <1>5 DEF Published, Uncommitted, TypeOK
<1>6. UploadsHold'
  BY <1>0, <1>1, <1>2, <1>4 DEF UploadsHold, ReferencesHold, Published, Uncommitted, Inserted
<1>7. ReferencesHold'
  BY <1>0, <1>1, <1>5 DEF ReferencesHold
<1>8. DeletionsHold'
  BY <1>0, <1>1, <1>4 DEF DeletionsHold, Uncommitted, Inserted
<1>9. ObjectsHaveBytes' /\ AttachmentsKeepObjects'
  BY <1>0, <1>1, <1>2 DEF ObjectsHaveBytes, AttachmentsKeepObjects
<1>10. JobsHold' /\ TombstoneHasJob'
  BY <1>0, <1>1, JobsUntouched DEF jobs
<1>. QED BY <1>3, <1>6, <1>7, <1>8, <1>9, <1>10 DEF Inductive

LEMMA InsertUploadKeeps ==
  ASSUME Inductive, NEW u \in Uploads, InsertUpload(u)
  PROVE  Inductive'
<1>0. TypeOK /\ UploadsHold /\ ReferencesHold /\ DeletionsHold /\ JobsHold
      /\ ObjectsHaveBytes /\ AttachmentsKeepObjects /\ TombstoneHasJob
  BY DEF Inductive
<1>1. /\ upload[u].pc = "looked" /\ ~ Locked(Home[u])
      /\ UNCHANGED <<conv, attachment, rows, files, staged, deleter, job, attempts, faults,
                    raced, undone>>
  BY DEF InsertUpload, store, jobs, ghost
<1>2. /\ upload' = [upload EXCEPT ![u] = [pc |-> "inserted", object |-> upload[u].object]]
      /\ upload[u].object # u => upload[u].object \in rows
  BY DEF InsertUpload, Insertable
<1>3. TypeOK'
  BY <1>0, <1>1, <1>2, Typed DEF TypeOK
<1>4. /\ upload'[u] = [pc |-> "inserted", object |-> upload[u].object]
      /\ \A v \in Uploads \ {u} : upload'[v] = upload[v]
  BY <1>0, <1>2 DEF TypeOK
<1>5. ASSUME NEW k, Published(k)
      PROVE  Published(k)'
  BY <1>0, <1>1, <1>2, <1>5 DEF Published, Uncommitted, TypeOK
<1>6. UploadsHold'
  BY <1>0, <1>1, <1>2, <1>4 DEF UploadsHold, Published, Uncommitted, Inserted
<1>7. ReferencesHold'
  BY <1>0, <1>1, <1>5 DEF ReferencesHold
<1>8. DeletionsHold'
  BY <1>0, <1>1, <1>4 DEF DeletionsHold, Uncommitted, Inserted, Locked
<1>9. ObjectsHaveBytes' /\ AttachmentsKeepObjects'
  BY <1>0, <1>1 DEF ObjectsHaveBytes, AttachmentsKeepObjects
<1>10. JobsHold' /\ TombstoneHasJob'
  BY <1>0, <1>1, JobsUntouched DEF jobs
<1>. QED BY <1>3, <1>6, <1>7, <1>8, <1>9, <1>10 DEF Inductive

LEMMA CommitUploadKeeps ==
  ASSUME Inductive, NEW u \in Uploads, CommitUpload(u)
  PROVE  Inductive'
<1>0. TypeOK /\ UploadsHold /\ ReferencesHold /\ DeletionsHold /\ JobsHold
      /\ ObjectsHaveBytes /\ AttachmentsKeepObjects /\ TombstoneHasJob
  BY DEF Inductive
<1> DEFINE o == upload[u].object
<1>1. /\ upload[u].pc = "inserted"
      /\ attachment' = [attachment EXCEPT ![u] = o]
      /\ rows' = rows \cup {o}
      /\ upload' = [upload EXCEPT ![u] = [pc |-> "replying", object |-> o]]
      /\ UNCHANGED <<conv, files, staged, deleter, job, attempts, faults, undone>>
  BY DEF CommitUpload, Inserted, jobs
<1>2. /\ raced \subseteq raced' /\ raced' \subseteq raced \cup {u}
      /\ \A p \in Deleters : deleter[p].pc = "checked" /\ o \in deleter[p].keys => u \in raced'
  BY DEF CommitUpload
<1>3. /\ o \in Uploads /\ u \notin staged
      /\ o = u => u \in files
      /\ o # u => o \in rows /\ Published(o)
  BY <1>0, <1>1 DEF UploadsHold, Uncommitted, Inserted
<1>4. TypeOK'
  BY <1>0, <1>1, <1>2, <1>3 DEF TypeOK
<1>5. /\ upload'[u] = [pc |-> "replying", object |-> o]
      /\ \A v \in Uploads \ {u} : upload'[v] = upload[v]
      /\ attachment'[u] = o /\ \A v \in Uploads \ {u} : attachment'[v] = attachment[v]
  BY <1>0, <1>1 DEF TypeOK
<1>6. ASSUME NEW k, Published(k)
      PROVE  Published(k)'
  BY <1>0, <1>1, <1>6 DEF Published, Uncommitted, TypeOK
<1>7. Published(o)'
  BY <1>1, <1>3, <1>5 DEF Published, Uncommitted
<1>8. UploadsHold'
  BY <1>0, <1>1, <1>3, <1>5 DEF UploadsHold, Published, Uncommitted, Inserted
<1>9. ReferencesHold'
  <2>1. \A k \in rows' : Published(k)'
    BY <1>0, <1>1, <1>3, <1>5, <1>6 DEF ReferencesHold, Published, Uncommitted
  <2>2. \A v \in Uploads : attachment'[v] \in rows' \/ attachment'[v] = attachment[v]
    BY <1>1, <1>5
  <2>3. \A v \in Uploads : attachment'[v] \in Uploads => Published(attachment[v])' 
    BY <1>0, <1>1, <1>3, <1>5 DEF ReferencesHold, Published, Uncommitted
  <2>4. \A p \in Deleters : \A k \in deleter[p].scope \cup deleter[p].keys : Published(k)'
    BY <1>0, <1>6 DEF ReferencesHold
  <2>. QED BY <1>1, <2>1, <2>3, <2>4 DEF ReferencesHold
<1>10. DeletionsHold'
  <2>1. \A p \in Deleters : u \in deleter[p].keys => o # u
    BY <1>0, <1>1 DEF ReferencesHold, Published, Uncommitted
  <2>2. \A p \in Deleters : deleter[p].keys \cap rows = {} => deleter[p].keys \cap rows' = {}
    BY <1>1, <1>3, <2>1
  <2>. QED BY <1>0, <1>1, <1>2, <1>3, <1>5, <2>2, AttachmentAssumption
           DEF DeletionsHold, Uncommitted, Inserted
<1>11. ObjectsHaveBytes'
  BY <1>0, <1>1, <1>3 DEF ObjectsHaveBytes
<1>12. AttachmentsKeepObjects'
  BY <1>0, <1>1, <1>2, <1>5 DEF AttachmentsKeepObjects
<1>13. JobsHold' /\ TombstoneHasJob'
  BY <1>0, <1>1, JobsUntouched DEF jobs
<1>. QED BY <1>4, <1>8, <1>9, <1>10, <1>11, <1>12, <1>13 DEF Inductive

\* An upload that ends: what it takes from the store is its own file, which
\* has no row unless the upload has been undone after its commit.
LEMMA UploadEnds ==
  ASSUME Inductive, NEW u \in Uploads,
         upload' = [upload EXCEPT ![u] = NoUpload],
         UNCHANGED <<conv, attachment, rows, staged, deleter, jobs, raced>>,
         faults' \in 0 .. MaxFaults, files' \subseteq files,
         undone \subseteq undone', undone' \subseteq undone \cup {u},
         \A k \in files \ files' :
           k = u /\ upload[u].object = u /\ (Uncommitted(u) \/ u \in undone')
  PROVE  Inductive'
<1>0. TypeOK /\ UploadsHold /\ ReferencesHold /\ DeletionsHold /\ JobsHold
      /\ ObjectsHaveBytes /\ AttachmentsKeepObjects /\ TombstoneHasJob
  BY DEF Inductive
<1>1. upload'[u] = NoUpload /\ \A v \in Uploads \ {u} : upload'[v] = upload[v]
  BY <1>0 DEF TypeOK
<1>2. TypeOK'
  BY <1>0 DEF TypeOK, NoUpload, jobs
<1>3. ASSUME NEW k, Published(k)
      PROVE  Published(k)'
  BY <1>0, <1>1, <1>3 DEF Published, Uncommitted, TypeOK, NoUpload
<1>4. UploadsHold'
  BY <1>0, <1>1, AttachmentAssumption
     DEF UploadsHold, Published, Uncommitted, Inserted, NoUpload
<1>5. ReferencesHold'
  BY <1>0, <1>3 DEF ReferencesHold
<1>6. DeletionsHold'
  BY <1>0, <1>1 DEF DeletionsHold, Uncommitted, Inserted, NoUpload
<1>7. ObjectsHaveBytes'
  BY <1>0 DEF ObjectsHaveBytes, ReferencesHold, Published, Uncommitted
<1>8. AttachmentsKeepObjects' /\ JobsHold' /\ TombstoneHasJob'
  BY <1>0, JobsUntouched DEF AttachmentsKeepObjects
<1>. QED BY <1>2, <1>4, <1>5, <1>6, <1>7, <1>8 DEF Inductive

LEMMA GiveUpKeeps ==
  ASSUME Inductive, NEW u \in Uploads, Uncommitted(u), GiveUp(u), faults' \in 0 .. MaxFaults
  PROVE  Inductive'
BY UploadEnds DEF GiveUp, ghost

LEMMA FaultIsBounded ==
  ASSUME Inductive, Fault \/ faults' = faults
  PROVE  faults' \in 0 .. MaxFaults
BY AttachmentAssumption DEF Fault, Inductive, TypeOK

LEMMA UploadKeeps ==
  ASSUME Inductive, NEW u \in Uploads,
         BeginUpload(u) \/ Finalize(u) \/ FailUpload(u) \/ CrashUpload(u)
  PROVE  Inductive'
<1>1. CASE BeginUpload(u)
  BY <1>1, BeginUploadKeeps
<1>2. CASE InsertUpload(u)
  BY <1>2, InsertUploadKeeps
<1>3. CASE RejectUpload(u) \/ FailUpload(u)
  BY <1>3, GiveUpKeeps, FaultIsBounded DEF RejectUpload, FailUpload, Uncommitted
<1>4. CASE CommitUpload(u)
  BY <1>4, CommitUploadKeeps
<1>5. CASE CrashUpload(u)
  BY <1>5, UploadEnds, FaultIsBounded DEF CrashUpload, store, ghost
<1>6. CASE Reply(u)
  BY <1>6, UploadEnds, FaultIsBounded DEF Reply, store, ghost
<1>7. CASE ReplyFails(u)
  BY <1>7, UploadEnds, FaultIsBounded DEF ReplyFails
<1>. QED BY <1>1, <1>2, <1>3, <1>4, <1>5, <1>6, <1>7 DEF Finalize

-----------------------------------------------------------------------------
(* Steps of deletions that change nothing but the process. *)

Places == [pc : Stages, c : Conversations \cup {None}, scope : SUBSET Uploads,
           run : Requests \cup {None}, cleanup : Requests \cup {None}, keys : SUBSET Uploads]

\* What reads neither processes nor jobs.
LEMMA ObjectsUntouched ==
  ASSUME UploadsHold, ObjectsHaveBytes, AttachmentsKeepObjects,
         UNCHANGED <<conv, attachment, rows, files, staged, upload, raced, undone>>
  PROVE  UploadsHold' /\ ObjectsHaveBytes' /\ AttachmentsKeepObjects'
BY DEF UploadsHold, ObjectsHaveBytes, AttachmentsKeepObjects, Published, Uncommitted, Inserted

\* The part about references reads the objects in the hands of processes.
LEMMA ReferencesUntouched ==
  ASSUME ReferencesHold, TypeOK, NEW p \in Deleters, NEW d,
         deleter' = [deleter EXCEPT ![p] = d],
         \A k \in d.scope \cup d.keys : Published(k),
         UNCHANGED <<attachment, rows, staged, upload>>
  PROVE  ReferencesHold'
<1>1. deleter'[p] = d /\ \A q \in Deleters \ {p} : deleter'[q] = deleter[q]
  BY DEF TypeOK
<1>. QED BY <1>1 DEF ReferencesHold, Published, Uncommitted

\* A process moves and nothing else changes.
LEMMA MoveKeeps ==
  ASSUME Inductive, NEW p \in Deleters, NEW d \in Places,
         deleter' = [deleter EXCEPT ![p] = d],
         \A k \in d.scope \cup d.keys : Published(k),
         UNCHANGED <<conv, attachment, store, upload, jobs, ghost>>,
         faults' \in 0 .. MaxFaults,
         DeletionsHold', JobsHold'
  PROVE  Inductive'
<1>0. TypeOK /\ UploadsHold /\ ReferencesHold
      /\ ObjectsHaveBytes /\ AttachmentsKeepObjects /\ TombstoneHasJob
  BY DEF Inductive
<1>1. UNCHANGED <<conv, attachment, rows, files, staged, upload, job, attempts, raced, undone>>
  BY DEF store, jobs, ghost
<1>2. TypeOK'
  BY <1>0, <1>1 DEF TypeOK, Places
<1>3. UploadsHold' /\ ObjectsHaveBytes' /\ AttachmentsKeepObjects' /\ TombstoneHasJob'
  BY <1>0, <1>1, ObjectsUntouched DEF TombstoneHasJob
<1>. QED BY <1>0, <1>1, <1>2, <1>3, ReferencesUntouched DEF Inductive

\* Nowhere is a place, and Step and GoTo lead to one.
LEMMA PlacesAre ==
  ASSUME TypeOK
  PROVE  /\ \A pc \in Stages : Nowhere(pc) \in Places
         /\ \A p \in Deleters : deleter[p] \in Places
         /\ \A p \in Deleters, pc \in Stages, r \in Requests \cup {None}, keys \in SUBSET Uploads :
              [pc |-> pc, c |-> deleter[p].c, scope |-> deleter[p].scope, run |-> deleter[p].run,
               cleanup |-> r, keys |-> keys] \in Places
BY DEF TypeOK, Places, Nowhere

\* A process that stops where it may rest keeps the other parts.
LEMMA RestKeeps ==
  ASSUME Inductive, NEW p \in Deleters, NEW pc,
         pc = IF p = Worker THEN "idle" ELSE "done",
         deleter' = [deleter EXCEPT ![p] = Nowhere(pc)],
         deleter[p].pc # "idle",
         UNCHANGED <<conv, attachment, store, upload, jobs, ghost>>,
         faults' \in 0 .. MaxFaults
  PROVE  Inductive'
<1>0. TypeOK /\ DeletionsHold /\ JobsHold
  BY DEF Inductive
<1>1. deleter'[p] = Nowhere(pc) /\ \A q \in Deleters \ {p} : deleter'[q] = deleter[q]
  BY <1>0 DEF TypeOK
<1>2. UNCHANGED <<conv, attachment, rows, upload, job, attempts, raced>>
  BY DEF store, jobs, ghost
<1>3. DeletionsHold'
  BY <1>0, <1>1, <1>2 DEF DeletionsHold, Nowhere, Uncommitted, Inserted
<1>4. JobsHold'
  BY <1>0, <1>1, <1>2, AttachmentAssumption DEF JobsHold, Nowhere, Deleters
<1>5. Nowhere(pc) \in Places
  BY <1>0, PlacesAre DEF Stages
<1>6. Nowhere(pc).scope \cup Nowhere(pc).keys = {}
  BY DEF Nowhere
<1>. QED BY <1>3, <1>4, <1>5, <1>6, MoveKeeps

\* A process goes on with the conversation it has opened.
LEMMA StepKeeps ==
  ASSUME Inductive, NEW p \in Deleters, NEW pc \in Stages, NEW keys \in SUBSET Uploads,
         GoTo(p, pc, deleter[p].cleanup, keys),
         \A k \in keys : Published(k),
         UNCHANGED <<conv, attachment, store, upload, jobs, faults, ghost>>,
         DeletionsHold', JobsHold'
  PROVE  Inductive'
<1> DEFINE d == [pc |-> pc, c |-> deleter[p].c, scope |-> deleter[p].scope,
                 run |-> deleter[p].run, cleanup |-> deleter[p].cleanup, keys |-> keys]
<1>0. TypeOK /\ ReferencesHold
  BY DEF Inductive
<1>1. d \in Places
  BY <1>0, Typed, PlacesAre
<1>2. \A k \in d.scope \cup d.keys : Published(k)
  BY <1>0 DEF ReferencesHold
<1>3. deleter' = [deleter EXCEPT ![p] = d]
  BY DEF GoTo
<1>4. faults' \in 0 .. MaxFaults
  BY <1>0 DEF TypeOK
<1> HIDE DEF d
<1>. QED BY <1>1, <1>2, <1>3, <1>4, MoveKeeps

\* GoTo, by what it changes.
LEMMA GoToMeans ==
  ASSUME TypeOK, NEW p \in Deleters, NEW pc, NEW r, NEW keys, GoTo(p, pc, r, keys)
  PROVE  /\ deleter'[p] = [pc |-> pc, c |-> deleter[p].c, scope |-> deleter[p].scope,
                           run |-> deleter[p].run, cleanup |-> r, keys |-> keys]
         /\ \A q \in Deleters \ {p} : deleter'[q] = deleter[q]
BY DEF GoTo, TypeOK

LEMMA OpenKeeps ==
  ASSUME Inductive, NEW p \in Deleters, NEW c \in Conversations, NEW run,
         Open(p, c, run),
         \/ p \in Requests /\ deleter[p].pc = "idle" /\ c = Target[p] /\ run = None
         \/ /\ p = Worker /\ deleter[p].pc = "claimed"
            /\ c = deleter[p].c /\ run = deleter[p].run
  PROVE  Inductive'
<1>0. TypeOK /\ ReferencesHold /\ DeletionsHold /\ JobsHold
  BY DEF Inductive
<1>1. /\ conv[c] # "gone"
      /\ UNCHANGED <<conv, attachment, store, upload, jobs, faults, ghost>>
  BY DEF Open
<1>2. PICK r \in IF PendingJobs(c) = {} THEN {None} ELSE PendingJobs(c) :
        deleter' = [deleter EXCEPT ![p] =
          [pc |-> "opened", c |-> c, scope |-> ObjectsOf(c), run |-> run,
           cleanup |-> r, keys |-> {}]]
  BY DEF Open
<1> DEFINE d == [pc |-> "opened", c |-> c, scope |-> ObjectsOf(c), run |-> run,
                 cleanup |-> r, keys |-> {}]
<1>3. run \in Requests \cup {None} /\ r \in Requests \cup {None}
  BY <1>0, Typed DEF PendingJobs
<1>4. d \in Places
  BY <1>3 DEF Places, Stages, ObjectsOf
<1>5. \A k \in d.scope \cup d.keys : Published(k)
  BY <1>0 DEF ObjectsOf, ReferencesHold
<1>6. deleter'[p] = d /\ \A q \in Deleters \ {p} : deleter'[q] = deleter[q]
  BY <1>0, <1>2 DEF TypeOK
<1>7. DeletionsHold'
  BY <1>0, <1>1, <1>6 DEF DeletionsHold, Uncommitted, Inserted, store, ghost
<1>8. r # None => r \in Requests /\ Target[r] = c /\ job[r] # None
  BY AttachmentAssumption DEF PendingJobs, Statuses
<1>9. r = None => p \in Requests
  <2>. SUFFICES ASSUME p = Worker, deleter[p].pc = "claimed", c = deleter[p].c, run = deleter[p].run
       PROVE  r # None
    OBVIOUS
  <2>1. run \in Requests /\ c = Target[run] /\ job[run] = "processing"
    BY <1>0, <1>1 DEF JobsHold
  <2>2. run \in PendingJobs(c)
    BY <2>1 DEF PendingJobs
  <2>. QED BY <2>2, AttachmentAssumption DEF PendingJobs
<1>10. JobsHold'
  BY <1>0, <1>1, <1>6, <1>8, <1>9, AttachmentAssumption DEF JobsHold, Deleters, jobs
<1>11. faults' \in 0 .. MaxFaults
  BY <1>0, <1>1 DEF TypeOK
<1>12. deleter' = [deleter EXCEPT ![p] = d]
  BY <1>2
<1> HIDE DEF d
<1>. QED BY <1>1, <1>4, <1>5, <1>7, <1>10, <1>11, <1>12, MoveKeeps

LEMMA ReturnKeeps ==
  ASSUME Inductive, NEW p \in Deleters, Return(p), conv[deleter[p].c] = "gone",
         deleter[p].pc \in {"tombstoned", "unlinking", "claimed"},
         UNCHANGED <<conv, attachment, store, upload, jobs, faults, ghost>>
  PROVE  Inductive'
<1>0. TypeOK /\ ReferencesHold /\ DeletionsHold /\ JobsHold
  BY DEF Inductive
<1>1. CASE p = Worker
  <2>1. GoTo(p, "finishing", deleter[p].cleanup, deleter[p].keys)
    BY <1>1 DEF Return, Step
  <2>2. /\ deleter'[p] = [pc |-> "finishing", c |-> deleter[p].c, scope |-> deleter[p].scope,
                          run |-> deleter[p].run, cleanup |-> deleter[p].cleanup,
                          keys |-> deleter[p].keys]
        /\ \A q \in Deleters \ {p} : deleter'[q] = deleter[q]
    BY <1>0, <2>1, GoToMeans
  <2>3. DeletionsHold'
    BY <1>0, <2>2 DEF DeletionsHold, Uncommitted, Inserted, store, ghost
  <2>5. JobsHold'
    BY <1>0, <1>1, <2>2, AttachmentAssumption DEF JobsHold, Deleters, jobs
  <2>4. /\ "finishing" \in Stages /\ deleter[p].keys \in SUBSET Uploads
        /\ \A k \in deleter[p].keys : Published(k)
    BY <1>0, Typed DEF Stages, ReferencesHold
  <2>. QED BY <2>1, <2>3, <2>4, <2>5, StepKeeps
<1>2. CASE p # Worker
  <2>1. deleter' = [deleter EXCEPT ![p] = Nowhere("done")]
    BY <1>2 DEF Return
  <2>. QED BY <1>0, <1>2, <2>1, RestKeeps DEF TypeOK
<1>. QED BY <1>1, <1>2

LEMMA FindKeeps ==
  ASSUME Inductive, NEW p \in Deleters, Find(p)
  PROVE  Inductive'
<1>0. TypeOK /\ ReferencesHold /\ DeletionsHold /\ JobsHold
  BY DEF Inductive
<1>1. CASE conv[deleter[p].c] = "gone"
  BY <1>1, ReturnKeeps DEF Find
<1>2. CASE conv[deleter[p].c] # "gone"
  <2>1. /\ GoTo(p, "found", deleter[p].cleanup, deleter[p].keys)
        /\ deleter[p].pc = "tombstoned"
        /\ UNCHANGED <<conv, attachment, store, upload, jobs, faults, ghost>>
    BY <1>2 DEF Find, Step
  <2>2. /\ deleter'[p] = [pc |-> "found", c |-> deleter[p].c, scope |-> deleter[p].scope,
                          run |-> deleter[p].run, cleanup |-> deleter[p].cleanup,
                          keys |-> deleter[p].keys]
        /\ \A q \in Deleters \ {p} : deleter'[q] = deleter[q]
    BY <1>0, <2>1, GoToMeans
  <2>3. DeletionsHold'
    BY <1>0, <1>2, <2>1, <2>2 DEF DeletionsHold, Uncommitted, Inserted, store, ghost
  <2>4. JobsHold'
    BY <1>0, <2>1, <2>2, AttachmentAssumption DEF JobsHold, Deleters, jobs
  <2>5. /\ "found" \in Stages /\ deleter[p].keys \in SUBSET Uploads
        /\ \A k \in deleter[p].keys : Published(k)
    BY <1>0, Typed DEF Stages, ReferencesHold
  <2>. QED BY <2>1, <2>3, <2>4, <2>5, StepKeeps
<1>. QED BY <1>1, <1>2

LEMMA LockKeeps ==
  ASSUME Inductive, NEW p \in Deleters, Lock(p)
  PROVE  Inductive'
<1>0. TypeOK /\ ReferencesHold /\ DeletionsHold /\ JobsHold
  BY DEF Inductive
<1>1. /\ GoTo(p, "locked", deleter[p].cleanup, deleter[p].keys)
      /\ deleter[p].pc = "found" /\ ~ Locked(deleter[p].c) /\ conv[deleter[p].c] # "gone"
      /\ \A u \in Uploads : Inserted(u) => Home[u] # deleter[p].c
      /\ UNCHANGED <<conv, attachment, store, upload, jobs, faults, ghost>>
  BY DEF Lock, Step
<1>2. deleter[p].c \in Conversations /\ conv[deleter[p].c] = "deleted"
  BY <1>0, <1>1 DEF DeletionsHold, TypeOK
<1>3. /\ deleter'[p] = [pc |-> "locked", c |-> deleter[p].c, scope |-> deleter[p].scope,
                        run |-> deleter[p].run, cleanup |-> deleter[p].cleanup,
                        keys |-> deleter[p].keys]
      /\ \A q \in Deleters \ {p} : deleter'[q] = deleter[q]
  BY <1>0, <1>1, GoToMeans
<1>4. DeletionsHold'
  BY <1>0, <1>1, <1>2, <1>3 DEF DeletionsHold, Uncommitted, Inserted, Locked, store, ghost
<1>5. JobsHold'
  BY <1>0, <1>1, <1>3, AttachmentAssumption DEF JobsHold, Deleters, jobs
<1>6. /\ "locked" \in Stages /\ deleter[p].keys \in SUBSET Uploads
      /\ \A k \in deleter[p].keys : Published(k)
  BY <1>0, Typed DEF Stages, ReferencesHold
<1>. QED BY <1>1, <1>4, <1>5, <1>6, StepKeeps

LEMMA CheckKeeps ==
  ASSUME Inductive, NEW p \in Deleters, Check(p)
  PROVE  Inductive'
<1>0. TypeOK /\ ReferencesHold /\ DeletionsHold /\ JobsHold
  BY DEF Inductive
<1> DEFINE keys == {o \in deleter[p].scope \cap rows : ~ Referred(o, deleter[p].c)}
<1>1. /\ GoTo(p, "checked", deleter[p].cleanup, keys)
      /\ deleter[p].pc = "locked"
      /\ \A u \in Uploads : upload[u].pc = "looked" => Home[u] # deleter[p].c
      /\ UNCHANGED <<conv, attachment, store, upload, jobs, faults, ghost>>
  BY DEF Check
<1>2. \A u \in Uploads : attachment[u] \in keys => Home[u] = deleter[p].c
  BY DEF Referred
<1>3. /\ "checked" \in Stages /\ keys \in SUBSET Uploads
      /\ \A k \in keys : Published(k)
  BY <1>0, Typed DEF Stages, ReferencesHold
<1> HIDE DEF keys
<1>4. /\ deleter'[p] = [pc |-> "checked", c |-> deleter[p].c, scope |-> deleter[p].scope,
                        run |-> deleter[p].run, cleanup |-> deleter[p].cleanup,
                        keys |-> keys]
      /\ \A q \in Deleters \ {p} : deleter'[q] = deleter[q]
  BY <1>0, <1>1, GoToMeans
<1>5. DeletionsHold'
  BY <1>0, <1>1, <1>2, <1>4 DEF DeletionsHold, Uncommitted, Inserted, store, ghost
<1>6. JobsHold'
  BY <1>0, <1>1, <1>4, AttachmentAssumption DEF JobsHold, Deleters, jobs
<1>. QED BY <1>1, <1>3, <1>5, <1>6, StepKeeps

LEMMA ReadJobKeeps ==
  ASSUME Inductive, NEW p \in Deleters, ReadJob(p)
  PROVE  Inductive'
<1>0. TypeOK /\ ReferencesHold /\ DeletionsHold /\ JobsHold
  BY DEF Inductive
<1>1. PICK pc \in {"marking", "unlinking"} :
        GoTo(p, pc, deleter[p].cleanup, deleter[p].keys)
  BY DEF ReadJob, Step
<1>2. /\ deleter[p].pc = "settling"
      /\ UNCHANGED <<conv, attachment, store, upload, jobs, faults, ghost>>
  BY DEF ReadJob
<1>3. /\ deleter'[p] = [pc |-> pc, c |-> deleter[p].c, scope |-> deleter[p].scope,
                        run |-> deleter[p].run, cleanup |-> deleter[p].cleanup,
                        keys |-> deleter[p].keys]
      /\ \A q \in Deleters \ {p} : deleter'[q] = deleter[q]
  BY <1>0, <1>1, GoToMeans
<1>4. DeletionsHold'
  BY <1>0, <1>1, <1>2, <1>3 DEF DeletionsHold, Uncommitted, Inserted, store, ghost
<1>5. JobsHold'
  BY <1>0, <1>1, <1>2, <1>3, AttachmentAssumption DEF JobsHold, Deleters, jobs
<1>6. /\ pc \in Stages /\ deleter[p].keys \in SUBSET Uploads
      /\ \A k \in deleter[p].keys : Published(k)
  BY <1>0, <1>1, Typed DEF Stages, ReferencesHold
<1>. QED BY <1>1, <1>2, <1>4, <1>5, <1>6, StepKeeps

-----------------------------------------------------------------------------
(* Steps of deletions and of the worker that change rows, files or jobs. *)

\* The tombstone: its job is new, or one that is not committed, because the
\* conversation is not gone.
LEMMA TombstoneKeeps ==
  ASSUME Inductive, NEW p \in Deleters, Tombstone(p)
  PROVE  Inductive'
<1>0. TypeOK /\ UploadsHold /\ ReferencesHold /\ DeletionsHold /\ JobsHold
      /\ ObjectsHaveBytes /\ AttachmentsKeepObjects /\ TombstoneHasJob
  BY DEF Inductive
<1> DEFINE c == deleter[p].c
<1>1. /\ deleter[p].pc = "opened" /\ ~ Locked(c) /\ conv[c] # "gone"
      /\ conv' = [conv EXCEPT ![c] = "deleted"]
      /\ UNCHANGED <<attachment, rows, files, staged, upload, attempts, faults, raced, undone>>
  BY DEF Tombstone, store, ghost
<1>2. c \in Conversations
  BY <1>0, <1>1 DEF DeletionsHold
<1>3. PICK r \in Requests, keys \in SUBSET Uploads :
        /\ GoTo(p, "tombstoned", r, keys)
        /\ keys \subseteq deleter[p].keys
        /\ Target[r] = c
        /\ \/ r = p /\ job[p] = None /\ job' = [job EXCEPT ![p] = "queued"]
           \/ job[r] # None /\ job' = job
  <2>1. CASE deleter[p].cleanup = None
    <3>1. p \in Requests /\ Target[p] = c /\ job[p] = None
      BY <1>0, <1>1, <2>1 DEF JobsHold
    <3>. QED BY <2>1, <3>1 DEF Tombstone
  <2>2. CASE deleter[p].cleanup # None
    <3>1. deleter[p].cleanup \in Requests /\ deleter[p].keys \in SUBSET Uploads
      BY <1>0, <2>2, Typed
    <3>2. Target[deleter[p].cleanup] = c /\ job[deleter[p].cleanup] # None
      BY <1>0, <2>2 DEF JobsHold
    <3>3. GoTo(p, "tombstoned", deleter[p].cleanup, deleter[p].keys) /\ job' = job
      BY <2>2 DEF Tombstone, Step
    <3>. QED BY <3>1, <3>2, <3>3
  <2>. QED BY <2>1, <2>2
<1> DEFINE d == [pc |-> "tombstoned", c |-> c, scope |-> deleter[p].scope,
                 run |-> deleter[p].run, cleanup |-> r, keys |-> keys]
<1>4. deleter' = [deleter EXCEPT ![p] = d]
  BY <1>3 DEF GoTo
<1>5. deleter'[p] = d /\ \A q \in Deleters \ {p} : deleter'[q] = deleter[q]
  BY <1>0, <1>4 DEF TypeOK
<1>6. /\ conv'[c] = "deleted" /\ \A e \in Conversations \ {c} : conv'[e] = conv[e]
      /\ job'[r] # None
      /\ \A s \in Requests : job'[s] = job[s] \/ (s = p /\ s = r /\ job[s] = None /\ job'[s] = "queued")
  BY <1>0, <1>1, <1>2, <1>3, AttachmentAssumption DEF TypeOK, Statuses
<1>7. d \in Places
  BY <1>0, <1>2, <1>3, PlacesAre DEF Stages
<1>8. TypeOK'
  BY <1>0, <1>1, <1>3, <1>4, <1>7 DEF TypeOK, Places, Statuses
<1>9. UploadsHold'
  BY <1>0, <1>1, <1>6, AttachmentAssumption DEF UploadsHold, Published, Uncommitted, Inserted
<1>10. ReferencesHold'
  <2>1. \A k \in d.scope \cup d.keys : Published(k)
    BY <1>0, <1>3 DEF ReferencesHold
  <2> HIDE DEF d
  <2>. QED BY <1>0, <1>1, <1>4, <2>1, ReferencesUntouched
<1>11. DeletionsHold'
  BY <1>0, <1>1, <1>2, <1>5, <1>6 DEF DeletionsHold, Uncommitted, Inserted, Locked
<1>12. JobsHold'
  <2>1. \A s \in Requests : job'[s] # None <=> (job[s] # None \/ s = r)
    BY <1>0, <1>3, <1>6, AttachmentAssumption DEF Statuses
  <2>2. ASSUME NEW q \in Deleters
        PROVE  LET e == deleter'[q]
               IN /\ q \in Requests => e.pc \notin {"claimed", "finishing"} /\ e.run = None
                  /\ q \in Requests /\ e.pc \notin {"idle", "done"} => e.c = Target[q]
                  /\ e.cleanup # None => Target[e.cleanup] = e.c /\ job'[e.cleanup] # None
                  /\ e.pc \in {"tombstoned", "found", "locked", "checked", "settling", "marking"} =>
                       e.cleanup # None
                  /\ e.pc = "opened" /\ e.cleanup = None => q \in Requests
    <3>1. CASE q = p
      BY <1>0, <1>1, <1>3, <1>5, <1>6, <3>1, AttachmentAssumption DEF JobsHold
    <3>2. CASE q # p
      <4>1. deleter'[q] = deleter[q] /\ deleter[q].cleanup \in Requests \cup {None}
        BY <1>0, <1>5, <3>2, Typed
      <4>. QED BY <1>0, <2>1, <4>1 DEF JobsHold
    <3>. QED BY <3>1, <3>2
  <2>3. deleter'[Worker].pc # "idle" =>
          /\ deleter'[Worker].run \in Requests
          /\ deleter'[Worker].c = Target[deleter'[Worker].run]
          /\ job'[deleter'[Worker].run] = "processing" \/ conv'[deleter'[Worker].c] = "gone"
          /\ job'[deleter'[Worker].run] # None
    <3>1. /\ deleter'[Worker].run = deleter[Worker].run
          /\ deleter'[Worker].c = deleter[Worker].c
          /\ deleter'[Worker].pc # "idle" => deleter[Worker].pc # "idle"
      BY <1>1, <1>5 DEF Deleters
    <3>. QED BY <1>0, <1>1, <1>6, <2>1, <3>1, AttachmentAssumption DEF JobsHold
  <2>4. deleter'[Worker].pc # "done"
    BY <1>0, <1>5 DEF JobsHold, Deleters
  <2>5. ASSUME NEW s \in Requests
        PROVE  /\ deleter'[s].pc \in {"idle", "opened"} => job'[s] = None
               /\ job'[s] = None => attempts'[s] = 0
               /\ job'[s] = "queued" => attempts'[s] < MaxAttempts
               /\ job'[s] = "committed" => conv'[Target[s]] = "gone"
    <3>1. s \in Deleters /\ Target[s] \in Conversations
      BY AttachmentAssumption DEF Deleters
    <3>2. deleter'[s].pc \in {"idle", "opened"} => s # p /\ deleter'[s] = deleter[s]
      BY <1>5, <3>1
    <3>3. CASE job'[s] = job[s]
      BY <1>0, <1>1, <1>6, <3>1, <3>2, <3>3 DEF JobsHold
    <3>4. CASE s = p /\ job[s] = None /\ job'[s] = "queued"
      BY <1>0, <1>1, <3>2, <3>4, AttachmentAssumption DEF JobsHold, Statuses
    <3>. QED BY <1>6, <3>3, <3>4
  <2>. QED BY <2>2, <2>3, <2>4, <2>5 DEF JobsHold
<1>13. TombstoneHasJob'
  <2>1. job'[r] \in {"queued", "processing", "failed"}
    BY <1>0, <1>1, <1>3, <1>6 DEF JobsHold, TypeOK, Statuses
  <2>2. \A s \in Requests :
          job[s] \in {"queued", "processing", "failed"} => job'[s] = job[s]
    BY <1>6, AttachmentAssumption DEF Statuses
  <2>. QED BY <1>0, <1>3, <1>6, <2>1, <2>2 DEF TombstoneHasJob
<1>14. ObjectsHaveBytes' /\ AttachmentsKeepObjects'
  BY <1>0, <1>1 DEF ObjectsHaveBytes, AttachmentsKeepObjects
<1>. QED BY <1>8, <1>9, <1>10, <1>11, <1>12, <1>13, <1>14 DEF Inductive

\* The rows go: no other deletion has this conversation, no upload that is
\* under way relies on them.
LEMMA CommitDeletionKeeps ==
  ASSUME Inductive, NEW p \in Deleters, CommitDeletion(p)
  PROVE  Inductive'
<1>0. TypeOK /\ UploadsHold /\ ReferencesHold /\ DeletionsHold /\ JobsHold
      /\ ObjectsHaveBytes /\ AttachmentsKeepObjects /\ TombstoneHasJob
  BY DEF Inductive
<1> DEFINE c == deleter[p].c
           keys == deleter[p].keys
           d == [pc |-> "settling", c |-> c, scope |-> deleter[p].scope,
                 run |-> deleter[p].run, cleanup |-> deleter[p].cleanup, keys |-> keys]
<1>1. /\ deleter[p].pc = "checked"
      /\ \A u \in Uploads : Inserted(u) => upload[u].object \notin keys
      /\ conv' = [conv EXCEPT ![c] = "gone"]
      /\ attachment' = [u \in Uploads |-> IF Home[u] = c THEN None
                        ELSE IF attachment[u] \in keys THEN Null ELSE attachment[u]]
      /\ rows' = rows \ keys
      /\ deleter' = [deleter EXCEPT ![p] = d]
      /\ UNCHANGED <<files, staged, upload, job, attempts, faults, raced, undone>>
  BY DEF CommitDeletion, Step, GoTo, jobs, ghost
<1>2. /\ c \in Conversations /\ conv[c] = "deleted"
      /\ \A u \in Uploads : Home[u] = c => ~ Uncommitted(u)
      /\ \A u \in Uploads : attachment[u] \in keys => Home[u] = c \/ u \in raced
      /\ \A q \in Deleters \ {p} : deleter[q].pc \in {"locked", "checked"} => deleter[q].c # c
  BY <1>0, <1>1 DEF DeletionsHold
<1>3. deleter'[p] = d /\ \A q \in Deleters \ {p} : deleter'[q] = deleter[q]
  BY <1>0, <1>1 DEF TypeOK
<1>4. conv'[c] = "gone" /\ \A e \in Conversations \ {c} : conv'[e] = conv[e]
  BY <1>0, <1>1, <1>2 DEF TypeOK
<1>5. d \in Places
  BY <1>0, Typed, PlacesAre DEF Stages
<1>6. keys \subseteq Uploads
  BY <1>0, Typed
<1>7. \A u \in Uploads : attachment'[u] \in {None, Null, attachment[u]}
  BY <1>1
<1>8. TypeOK'
  BY <1>0, <1>1, <1>2, <1>5, <1>7 DEF TypeOK, Places
<1>9. UploadsHold'
  BY <1>0, <1>1, <1>2, <1>4, <1>6, AttachmentAssumption
     DEF UploadsHold, Published, Uncommitted, Inserted
<1>10. ReferencesHold'
  BY <1>0, <1>1, <1>3, <1>7, AttachmentAssumption
     DEF ReferencesHold, Published, Uncommitted
<1>11. DeletionsHold'
  BY <1>0, <1>1, <1>2, <1>3, <1>4, <1>6, <1>7, Typed, AttachmentAssumption
     DEF DeletionsHold, Uncommitted, Inserted
<1>12. JobsHold'
  BY <1>0, <1>1, <1>3, <1>4, AttachmentAssumption DEF JobsHold, Deleters
<1>13. ObjectsHaveBytes'
  BY <1>0, <1>1 DEF ObjectsHaveBytes
<1>14. AttachmentsKeepObjects'
  BY <1>0, <1>1, <1>2 DEF AttachmentsKeepObjects
<1>15. TombstoneHasJob'
  BY <1>0, <1>1, <1>4 DEF TombstoneHasJob
<1>. QED BY <1>8, <1>9, <1>10, <1>11, <1>12, <1>13, <1>14, <1>15 DEF Inductive

\* A job changes its status, and a process moves: a tombstone has its job as
\* long as no job is committed before its conversation is gone.
LEMMA JobStepKeeps ==
  ASSUME Inductive, NEW p \in Deleters, NEW d \in Places,
         deleter' = [deleter EXCEPT ![p] = d],
         \A k \in d.scope \cup d.keys : Published(k),
         NEW r \in Requests, NEW status \in Statuses,
         job' = [job EXCEPT ![r] = status],
         status = "committed" => conv[Target[r]] = "gone",
         attempts' \in [Requests -> 0 .. MaxAttempts],
         UNCHANGED <<conv, attachment, store, upload, ghost>>,
         faults' \in 0 .. MaxFaults,
         DeletionsHold', JobsHold'
  PROVE  Inductive'
<1>0. TypeOK /\ UploadsHold /\ ReferencesHold
      /\ ObjectsHaveBytes /\ AttachmentsKeepObjects /\ TombstoneHasJob
  BY DEF Inductive
<1>1. UNCHANGED <<conv, attachment, rows, files, staged, upload, raced, undone>>
  BY DEF store, ghost
<1>2. TypeOK'
  BY <1>0, <1>1 DEF TypeOK, Places
<1>3. UploadsHold' /\ ObjectsHaveBytes' /\ AttachmentsKeepObjects'
  BY <1>0, <1>1, ObjectsUntouched
<1>4. TombstoneHasJob'
  <2>. SUFFICES ASSUME NEW c \in Conversations, conv[c] = "deleted"
       PROVE  \E s \in Requests :
                Target[s] = c /\ job'[s] \in {"queued", "processing", "failed"}
    BY <1>1 DEF TombstoneHasJob
  <2>1. PICK s \in Requests :
          Target[s] = c /\ job[s] \in {"queued", "processing", "failed"}
    BY <1>0 DEF TombstoneHasJob
  <2>2. s = r => job'[s] = status /\ status # "committed"
    BY <1>0, <2>1 DEF TypeOK
  <2>3. s # r => job'[s] = job[s]
    BY <1>0 DEF TypeOK
  <2>. QED BY <2>1, <2>2, <2>3 DEF Statuses
<1>. QED BY <1>0, <1>1, <1>2, <1>3, <1>4, ReferencesUntouched DEF Inductive

\* No process moves when a job is recovered or retried.
LEMMA Unmoved ==
  ASSUME Inductive, deleter' = deleter
  PROVE  /\ deleter' = [deleter EXCEPT ![Worker] = deleter[Worker]]
         /\ deleter[Worker] \in Places
         /\ \A k \in deleter[Worker].scope \cup deleter[Worker].keys : Published(k)
BY PlacesAre DEF Inductive, TypeOK, ReferencesHold, Deleters

LEMMA ClaimKeeps ==
  ASSUME Inductive, NEW r \in Requests, Claim(r)
  PROVE  Inductive'
<1>0. TypeOK /\ DeletionsHold /\ JobsHold
  BY DEF Inductive
<1> DEFINE d == [pc |-> "claimed", c |-> Target[r], scope |-> {}, run |-> r,
                 cleanup |-> None, keys |-> {}]
<1>1. /\ deleter[Worker].pc = "idle" /\ job[r] = "queued"
      /\ job' = [job EXCEPT ![r] = "processing"]
      /\ attempts' = [attempts EXCEPT ![r] = attempts[r] + 1]
      /\ deleter' = [deleter EXCEPT ![Worker] = d]
      /\ UNCHANGED <<conv, attachment, store, upload, faults, ghost>>
  BY DEF Claim
<1>2. d \in Places /\ d.scope \cup d.keys = {} /\ Target[r] \in Conversations
  BY AttachmentAssumption DEF Places, Stages
<1>3. attempts[r] \in Nat /\ attempts[r] < MaxAttempts
  BY <1>0, <1>1, AttachmentAssumption DEF JobsHold, TypeOK
<1>4. attempts' \in [Requests -> 0 .. MaxAttempts] /\ faults' \in 0 .. MaxFaults
  BY <1>0, <1>1, <1>3, AttachmentAssumption DEF TypeOK
<1>5. /\ deleter'[Worker] = d /\ \A q \in Requests : deleter'[q] = deleter[q]
      /\ Worker \in Deleters
  BY <1>0, <1>1, AttachmentAssumption DEF TypeOK, Deleters
<1>6. /\ job'[r] = "processing"
      /\ \A s \in Requests \ {r} : job'[s] = job[s] /\ attempts'[s] = attempts[s]
      /\ \A s \in Requests : job'[s] = None <=> job[s] = None
  BY <1>0, <1>1, AttachmentAssumption DEF TypeOK, Statuses
<1>7. DeletionsHold'
  BY <1>0, <1>1, <1>2, <1>5 DEF DeletionsHold, Uncommitted, Inserted, Deleters, store, ghost
<1>8. JobsHold'
  BY <1>0, <1>1, <1>5, <1>6, Typed, AttachmentAssumption DEF JobsHold, Deleters, Statuses
<1> HIDE DEF d
<1>. QED BY <1>1, <1>2, <1>4, <1>5, <1>7, <1>8, JobStepKeeps DEF Statuses

LEMMA RecoverKeeps ==
  ASSUME Inductive, NEW r \in Requests, Recover(r) \/ Retry(r)
  PROVE  Inductive'
<1>0. TypeOK /\ DeletionsHold /\ JobsHold
  BY DEF Inductive
<1>1. PICK status \in {"queued", "failed"} :
        /\ job' = [job EXCEPT ![r] = status]
        /\ status = "queued" => attempts'[r] < MaxAttempts
  BY <1>0, AttachmentAssumption DEF Recover, Retry, TypeOK
<1>2. /\ \/ job[r] = "processing" /\ deleter[Worker].run # r
         \/ job[r] = "failed"
      /\ UNCHANGED <<conv, attachment, store, upload, deleter, faults, ghost>>
  BY DEF Recover, Retry
<1>3. /\ attempts' \in [Requests -> 0 .. MaxAttempts] /\ faults' \in 0 .. MaxFaults
      /\ \A s \in Requests \ {r} : attempts'[s] = attempts[s]
  BY <1>0, AttachmentAssumption DEF Recover, Retry, TypeOK
<1>4. /\ job'[r] = status /\ \A s \in Requests \ {r} : job'[s] = job[s]
      /\ \A s \in Requests : job'[s] = None <=> job[s] = None
  BY <1>0, <1>1, <1>2, AttachmentAssumption DEF TypeOK, Statuses
<1>5. DeletionsHold'
  BY <1>0, <1>2 DEF DeletionsHold, Uncommitted, Inserted, store, ghost
<1>6. JobsHold'
  BY <1>0, <1>1, <1>2, <1>3, <1>4, Typed, AttachmentAssumption DEF JobsHold, Deleters, Statuses
<1>7. Worker \in Deleters /\ status \in Statuses /\ status # "committed"
  BY <1>1 DEF Deleters, Statuses
<1>. QED BY <1>1, <1>2, <1>3, <1>5, <1>6, <1>7, Unmoved, JobStepKeeps

\* The worker ends its turn: its job is committed if the conversation is gone
\* and fails otherwise.
LEMMA TurnEnds ==
  ASSUME Inductive, NEW status \in Statuses,
         deleter[Worker].pc # "idle",
         deleter' = [deleter EXCEPT ![Worker] = Nowhere("idle")],
         job' = [job EXCEPT ![deleter[Worker].run] = status],
         status \in {"failed", "committed", job[deleter[Worker].run]},
         status # "failed" => conv[deleter[Worker].c] = "gone",
         UNCHANGED <<conv, attachment, store, upload, attempts, ghost>>,
         faults' \in 0 .. MaxFaults
  PROVE  Inductive'
<1>0. TypeOK /\ DeletionsHold /\ JobsHold
  BY DEF Inductive
<1> DEFINE r == deleter[Worker].run
<1>1. Worker \in Deleters /\ r \in Requests /\ job[r] # None /\ deleter[Worker].c = Target[r]
  BY <1>0 DEF JobsHold, Deleters
<1>2. /\ deleter'[Worker] = Nowhere("idle")
      /\ \A q \in Requests : deleter'[q] = deleter[q]
  BY <1>0, <1>1, AttachmentAssumption DEF TypeOK, Deleters
<1>3. /\ job'[r] = status /\ \A s \in Requests \ {r} : job'[s] = job[s]
      /\ \A s \in Requests : job'[s] = None <=> job[s] = None
  BY <1>0, <1>1, AttachmentAssumption DEF TypeOK, Statuses
<1>4. DeletionsHold'
  BY <1>0, <1>2 DEF DeletionsHold, Nowhere, Uncommitted, Inserted, Deleters, store, ghost
<1>5. JobsHold'
  BY <1>0, <1>1, <1>2, <1>3, Typed, AttachmentAssumption
     DEF JobsHold, Nowhere, Deleters, Statuses
<1>6. Nowhere("idle") \in Places /\ Nowhere("idle").scope \cup Nowhere("idle").keys = {}
  BY <1>0, PlacesAre DEF Stages, Nowhere
<1>7. attempts' \in [Requests -> 0 .. MaxAttempts]
  BY <1>0 DEF TypeOK
<1>8. status = "committed" => conv[Target[r]] = "gone"
  BY <1>1
<1>. QED BY <1>1, <1>4, <1>5, <1>6, <1>7, <1>8, JobStepKeeps

LEMMA RaiseKeeps ==
  ASSUME Inductive, NEW p \in Deleters, Raise(p), Busy(p), faults' \in 0 .. MaxFaults
  PROVE  Inductive'
<1>1. CASE p = Worker
  <2>1. deleter[Worker].pc # "idle" /\ "failed" \in Statuses
    BY <1>1 DEF Busy, Statuses
  <2>2. /\ deleter' = [deleter EXCEPT ![Worker] = Nowhere("idle")]
        /\ job' = [job EXCEPT ![deleter[Worker].run] = "failed"]
        /\ UNCHANGED <<conv, attachment, store, upload, attempts, ghost>>
    BY <1>1 DEF Raise
  <2>. QED BY <2>1, <2>2, TurnEnds
<1>2. CASE p # Worker
  <2>1. /\ deleter' = [deleter EXCEPT ![p] = Nowhere("done")]
        /\ UNCHANGED <<conv, attachment, store, upload, jobs, ghost>>
    BY <1>2 DEF Raise, jobs
  <2>2. deleter[p].pc # "idle"
    BY DEF Busy
  <2>. QED BY <1>2, <2>1, <2>2, RestKeeps
<1>. QED BY <1>1, <1>2

LEMMA FinishKeeps ==
  ASSUME Inductive, Finish
  PROVE  Inductive'
<1> DEFINE r == deleter[Worker].run
           status == IF job[r] = "processing" THEN "committed" ELSE job[r]
<1>0. TypeOK /\ DeletionsHold /\ JobsHold
  BY DEF Inductive
<1>1. /\ deleter[Worker].pc = "finishing"
      /\ job' = [job EXCEPT ![r] = status]
      /\ deleter' = [deleter EXCEPT ![Worker] = Nowhere("idle")]
      /\ UNCHANGED <<conv, attachment, store, upload, attempts, faults, ghost>>
  BY DEF Finish
<1>2. Worker \in Deleters /\ conv[deleter[Worker].c] = "gone"
  BY <1>0, <1>1 DEF DeletionsHold, Deleters
<1>3. r \in Requests /\ job[r] # None
  BY <1>0, <1>1 DEF JobsHold
<1>4. status \in Statuses
  BY <1>0, <1>3 DEF TypeOK, Statuses
<1>5. faults' \in 0 .. MaxFaults
  BY <1>0, <1>1 DEF TypeOK
<1>6. deleter[Worker].pc # "idle" /\ status \in {"committed", job[r]}
  BY <1>1
<1> HIDE DEF status
<1>. QED BY <1>1, <1>2, <1>4, <1>5, <1>6, TurnEnds

LEMMA MarkJobKeeps ==
  ASSUME Inductive, NEW p \in Deleters, MarkJob(p)
  PROVE  Inductive'
<1>0. TypeOK /\ ReferencesHold /\ DeletionsHold /\ JobsHold
  BY DEF Inductive
<1> DEFINE r == deleter[p].cleanup
           d == [pc |-> "unlinking", c |-> deleter[p].c, scope |-> deleter[p].scope,
                 run |-> deleter[p].run, cleanup |-> r, keys |-> deleter[p].keys]
<1>1. /\ deleter[p].pc = "marking"
      /\ job' = [job EXCEPT ![r] = "committed"]
      /\ deleter' = [deleter EXCEPT ![p] = d]
      /\ UNCHANGED <<conv, attachment, store, upload, attempts, faults, ghost>>
  BY DEF MarkJob, Step, GoTo
<1>2. r \in Requests /\ Target[r] = deleter[p].c /\ job[r] # None
  BY <1>0, <1>1, Typed DEF JobsHold
<1>3. conv[Target[r]] = "gone"
  BY <1>0, <1>1, <1>2 DEF DeletionsHold
<1>4. deleter'[p] = d /\ \A q \in Deleters \ {p} : deleter'[q] = deleter[q]
  BY <1>0, <1>1 DEF TypeOK
<1>5. /\ job'[r] = "committed" /\ \A s \in Requests \ {r} : job'[s] = job[s]
      /\ \A s \in Requests : job'[s] = None <=> job[s] = None
  BY <1>0, <1>1, <1>2, AttachmentAssumption DEF TypeOK, Statuses
<1>6. DeletionsHold'
  BY <1>0, <1>1, <1>4 DEF DeletionsHold, Uncommitted, Inserted, store, ghost
<1>7. JobsHold'
  BY <1>0, <1>1, <1>2, <1>3, <1>4, <1>5, Typed, AttachmentAssumption DEF JobsHold, Deleters
<1>8. d \in Places /\ \A k \in d.scope \cup d.keys : Published(k)
  BY <1>0, <1>2, Typed, PlacesAre DEF Stages, ReferencesHold
<1>9. attempts' \in [Requests -> 0 .. MaxAttempts] /\ faults' \in 0 .. MaxFaults
  BY <1>0, <1>1 DEF TypeOK
<1> HIDE DEF d
<1>. QED BY <1>1, <1>2, <1>3, <1>6, <1>7, <1>8, <1>9, JobStepKeeps DEF Statuses

LEMMA UnlinkKeeps ==
  ASSUME Inductive, NEW p \in Deleters, NEW o \in Uploads, Unlink(p, o)
  PROVE  Inductive'
<1>0. TypeOK /\ UploadsHold /\ ReferencesHold /\ DeletionsHold /\ JobsHold
      /\ ObjectsHaveBytes /\ AttachmentsKeepObjects /\ TombstoneHasJob
  BY DEF Inductive
<1> DEFINE d == [pc |-> "unlinking", c |-> deleter[p].c, scope |-> deleter[p].scope,
                 run |-> deleter[p].run, cleanup |-> deleter[p].cleanup,
                 keys |-> deleter[p].keys \ {o}]
<1>1. /\ deleter[p].pc = "unlinking" /\ o \in deleter[p].keys
      /\ deleter' = [deleter EXCEPT ![p] = d]
      /\ files' \subseteq files /\ files \ files' \subseteq {o}
      /\ UNCHANGED <<conv, attachment, rows, staged, upload, job, attempts, raced, undone>>
  BY DEF Unlink, GoTo, jobs, ghost
<1>2. Published(o) /\ o \notin rows
  BY <1>0, <1>1 DEF ReferencesHold, DeletionsHold
<1>3. deleter'[p] = d /\ \A q \in Deleters \ {p} : deleter'[q] = deleter[q]
  BY <1>0, <1>1 DEF TypeOK
<1>4. d \in Places /\ \A k \in d.scope \cup d.keys : Published(k)
  BY <1>0, Typed, PlacesAre DEF Stages, ReferencesHold
<1>5. faults' \in 0 .. MaxFaults
  BY FaultIsBounded DEF Unlink
<1>6. TypeOK'
  BY <1>0, <1>1, <1>4, <1>5 DEF TypeOK, Places
<1>7. UploadsHold'
  BY <1>0, <1>1, <1>2 DEF UploadsHold, Published, Uncommitted, Inserted
<1>8. DeletionsHold'
  BY <1>0, <1>1, <1>3 DEF DeletionsHold, Uncommitted, Inserted
<1>9. JobsHold'
  BY <1>0, <1>1, <1>3, AttachmentAssumption DEF JobsHold, Deleters
<1>10. ObjectsHaveBytes' /\ AttachmentsKeepObjects' /\ TombstoneHasJob'
  BY <1>0, <1>1, <1>2 DEF ObjectsHaveBytes, AttachmentsKeepObjects, TombstoneHasJob
<1>11. ReferencesHold'
  <2> HIDE DEF d
  <2>. QED BY <1>0, <1>1, <1>4, ReferencesUntouched
<1>. QED BY <1>6, <1>7, <1>8, <1>9, <1>10, <1>11 DEF Inductive

LEMMA DeleteKeeps ==
  ASSUME Inductive, NEW p \in Deleters, Delete(p) \/ FailDeletion(p) \/ CrashDeletion(p)
  PROVE  Inductive'
<1>0. TypeOK /\ DeletionsHold
  BY DEF Inductive
<1>1. CASE Tombstone(p)
  BY <1>1, TombstoneKeeps
<1>2. CASE Find(p) \/ Lock(p) \/ Check(p) \/ ReadJob(p)
  BY <1>2, FindKeeps, LockKeeps, CheckKeeps, ReadJobKeeps
<1>3. CASE CommitDeletion(p)
  BY <1>3, CommitDeletionKeeps
<1>4. CASE MarkJob(p)
  BY <1>4, MarkJobKeeps
<1>5. CASE EndDeletion(p)
  BY <1>0, <1>5, ReturnKeeps DEF EndDeletion, DeletionsHold
<1>6. CASE Late(p) \/ FailDeletion(p)
  BY <1>6, RaiseKeeps, FaultIsBounded DEF Late, FailDeletion, Busy
<1>7. CASE CrashDeletion(p)
  BY <1>7, RestKeeps, FaultIsBounded DEF CrashDeletion, Busy
<1>8. ASSUME NEW u \in Uploads, Deadlock(p, u)
      PROVE  Inductive'
  <2>1. Busy(p) /\ Uncommitted(u) /\ faults' \in 0 .. MaxFaults
    BY <1>8, FaultIsBounded DEF Deadlock, Busy, Uncommitted
  <2>. QED BY <1>8, <2>1, RaiseKeeps, GiveUpKeeps DEF Deadlock
<1>9. ASSUME NEW o \in Uploads, Unlink(p, o)
      PROVE  Inductive'
  BY <1>9, UnlinkKeeps
<1>. QED BY <1>1, <1>2, <1>3, <1>4, <1>5, <1>6, <1>7, <1>8, <1>9 DEF Delete

LEMMA WorkKeeps ==
  ASSUME Inductive, Work
  PROVE  Inductive'
<1>0. TypeOK /\ DeletionsHold /\ JobsHold
  BY DEF Inductive
<1>1. CASE OpenClaimed
  <2>1. Worker \in Deleters /\ deleter[Worker].pc = "claimed"
    BY <1>1 DEF OpenClaimed, Deleters
  <2>2. deleter[Worker].c \in Conversations
    BY <1>0, <2>1 DEF DeletionsHold
  <2>3. CASE Open(Worker, deleter[Worker].c, deleter[Worker].run)
    BY <2>1, <2>2, <2>3, OpenKeeps
  <2>4. CASE /\ conv[deleter[Worker].c] = "gone"
             /\ Step(Worker, "finishing")
             /\ UNCHANGED <<conv, attachment, store, upload, jobs, faults, ghost>>
    BY <2>1, <2>4, ReturnKeeps DEF Return
  <2>. QED BY <1>1, <2>3, <2>4 DEF OpenClaimed
<1>2. CASE Finish
  BY <1>2, FinishKeeps
<1>3. CASE \E r \in Requests : Claim(r) \/ Recover(r)
  BY <1>3, ClaimKeeps, RecoverKeeps
<1>. QED BY <1>1, <1>2, <1>3 DEF Work

-----------------------------------------------------------------------------
(* The theorems. *)

LEMMA InitIsInductive ==
  ASSUME Init
  PROVE  Inductive
<1>1. TypeOK
  BY AttachmentAssumption DEF Init, TypeOK, NoUpload, Nowhere, Stages
<1>2. UploadsHold /\ ReferencesHold
  BY AttachmentAssumption
     DEF Init, UploadsHold, ReferencesHold, NoUpload, Nowhere, Uncommitted, Inserted
<1>3. DeletionsHold
  BY DEF Init, DeletionsHold, Nowhere
<1>4. JobsHold
  BY AttachmentAssumption DEF Init, JobsHold, Nowhere, Deleters, Statuses
<1>5. ObjectsHaveBytes /\ AttachmentsKeepObjects /\ TombstoneHasJob
  BY DEF Init, ObjectsHaveBytes, AttachmentsKeepObjects, TombstoneHasJob
<1>. QED BY <1>1, <1>2, <1>3, <1>4, <1>5 DEF Inductive

LEMMA StepIsInductive ==
  ASSUME Inductive, [Next]_vars
  PROVE  Inductive'
<1>1. CASE \E u \in Uploads : BeginUpload(u) \/ Finalize(u) \/ FailUpload(u) \/ CrashUpload(u)
  BY <1>1, UploadKeeps
<1>2. ASSUME NEW r \in Requests, OpenRequest(r)
      PROVE  Inductive'
  <2>1. r \in Deleters /\ Target[r] \in Conversations
    BY AttachmentAssumption DEF Deleters
  <2>. QED BY <1>2, <2>1, OpenKeeps DEF OpenRequest
<1>3. CASE \E r \in Requests : Retry(r)
  BY <1>3, RecoverKeeps
<1>4. CASE \E p \in Deleters : Delete(p) \/ FailDeletion(p) \/ CrashDeletion(p)
  BY <1>4, DeleteKeeps
<1>5. CASE Work
  BY <1>5, WorkKeeps
<1>6. CASE UNCHANGED vars
  <2>1. UNCHANGED <<conv, attachment, rows, files, staged, upload, deleter, job, attempts,
                    faults, raced, undone>>
    BY <1>6 DEF vars, store, jobs, ghost
  <2>. QED BY <2>1 DEF Inductive, TypeOK, UploadsHold, ReferencesHold, DeletionsHold, JobsHold,
             ObjectsHaveBytes, AttachmentsKeepObjects, TombstoneHasJob, Published,
             Uncommitted, Inserted
<1>. QED BY <1>1, <1>2, <1>3, <1>4, <1>5, <1>6 DEF Next

\* The inductive invariant holds of every reachable state: whatever uploads,
\* delete_conversation_record and the worker do, and whoever dies.
THEOREM ObjectsAreInductive == Spec => []Inductive
BY InitIsInductive, StepIsInductive, PTL DEF Spec

\* ObjectsHaveBytes: the row of an object names bytes that are there
\* (finalize_upload_items, delete_conversation_record).
THEOREM ObjectsKeepBytes == Spec => []ObjectsHaveBytes
<1>1. Inductive => ObjectsHaveBytes
  BY DEF Inductive
<1>. QED BY <1>1, ObjectsAreInductive, PTL

\* AttachmentsKeepObjects: an attachment keeps its object, but for the uploads
\* that come between the check of asset_object_has_live_references and the
\* commit.
THEOREM SharedObjectsStay == Spec => []AttachmentsKeepObjects
<1>1. Inductive => AttachmentsKeepObjects
  BY DEF Inductive
<1>. QED BY <1>1, ObjectsAreInductive, PTL

\* TombstoneHasJob: what a tombstone announces can be resumed
\* (delete_conversation_record, process_background_job).
THEOREM DeletionsAreResumable == Spec => []TombstoneHasJob
<1>1. Inductive => TombstoneHasJob
  BY DEF Inductive
<1>. QED BY <1>1, ObjectsAreInductive, PTL
=============================================================================
