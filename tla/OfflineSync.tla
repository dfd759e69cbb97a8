----------------------------- MODULE OfflineSync -----------------------------
(***************************************************************************)
(* Annotations and notebooks edited on devices that may be offline: each   *)
(* device keeps a working copy, an outbox of operations and the conflicts  *)
(* it has been told of; the server keeps one revisioned row per entity,    *)
(* the conflict copies, and one receipt per operation it has answered.     *)
(*                                                                         *)
(* The entities are the notes of one conversation of one account.  A       *)
(* content is the set of edits its author had in view when writing it, so  *)
(* S \subseteq T says that T was written knowing S.  A deletion is one     *)
(* more edit.  The revision of an entity is the length of its history.     *)
(*                                                                         *)
(* One endpoint call is one step: sync_annotations holds the advisory lock *)
(* of the account until it commits.  On a device one Dexie transaction is  *)
(* one step; a flush and the sending of a resolution exclude each other    *)
(* (navigator.locks), local edits and downloads run beside them.           *)
(*                                                                         *)
(* Left out: reading positions, the account session (401) and the switch   *)
(* of accounts, the limit of 50 operations per request, several            *)
(* conversations (their requests are independent), the revision a          *)
(* resolution adds to a notebook that cites the removed copy, deletion of  *)
(* the downloaded conversation.                                            *)
(***************************************************************************)
EXTENDS Naturals, Sequences, FiniteSets

CONSTANTS
  Devices,      \* browsers of the account that hold an offline copy
  Entities,     \* annotations and notebooks of the conversation
  Notebooks,    \* the notebook of the conversation, if it is modelled
  Edits,        \* edits that may be made, each at most once
  Resolutions,  \* identifiers of resolve operations
  Field,        \* Field[x]: the field of the note that edit x changes
  Invalid,      \* edits the server rejects (422): their anchor is gone
  None,
  MaxAttempts,  \* OFFLINE_SYNC_MAX_ATTEMPTS
  MaxLate,      \* bound: abandoned requests on their way to the server
  Mishaps       \* environment: requests may fail, tabs may be closed

ASSUME OfflineAssumption ==
  /\ Notebooks \subseteq Entities
  /\ DOMAIN Field = Edits
  /\ Invalid \subseteq Edits
  /\ Edits \cap Resolutions = {}
  /\ MaxAttempts \in Nat \ {0}
  /\ MaxLate \in Nat
  /\ Mishaps \subseteq {"failure", "close"}
  /\ IsFiniteSet(Edits)
  /\ None \notin Edits \cup Resolutions \cup Entities

VARIABLES
  history,   \* history[e]: the contents of the row of e, by revision
  copies,    \* conflict copies
  receipts,  \* receipts[i]: the answer recorded for operation i
  late,      \* requests their sender no longer waits for
  outbox,    \* outbox[d][x]: the operation of edit x waiting on device d
  local,     \* working copies
  marker,    \* conflicts a device has recorded (sync-conflict:...)
  preview,   \* the comparison on the screen of a device
  listed,    \* conflict copies of the notebook a device has stored
  sync,      \* the flush or resolution a device is running
  fresh,     \* bound: identifiers not used yet
  decided,   \* history: edits in view of an applied "keep server"
  overlaid   \* history: edits whose field was edited beside a resolution

server == <<history, copies, receipts>>
device == <<outbox, local, marker, preview, listed>>
ghost == <<decided, overlaid>>
vars == <<server, late, device, sync, fresh, ghost>>

Revision(e) == Len(history[e])
Content(e) == IF history[e] = <<>> THEN {} ELSE history[e][Revision(e)]

\* Mutant: the base is the revision before the working copy's.
OperationBehind(i, e, base, content) ==
  [id |-> i, e |-> e, base |-> base - 1, content |-> content,
   copy |-> None, seenCopy |-> 0, keep |-> FALSE]

\* What a request carries.  A resolve operation also names the compared copy
\* and its revision, and whether the server's version is kept.
Operation(i, e, base, content) ==
  [id |-> i, e |-> e, base |-> base, content |-> content,
   copy |-> None, seenCopy |-> 0, keep |-> FALSE]

Row(rev, content) == [rev |-> rev, content |-> content]
NoRow == Row(0, {})

\* A request and the attempts its operations had when it was made.
Request(stage, ops, tries, refusal, answers, snapshot) ==
  [stage |-> stage, ops |-> ops, tries |-> tries, refusal |-> refusal,
   answers |-> answers, snapshot |-> snapshot]
Untried == [x \in Edits |-> 0]
Idle == Request("idle", {}, Untried, None, {}, None)

-----------------------------------------------------------------------------
(* The device's queue.  Operations wait in order of queued_at, which matters *)
(* within an entity only, where every operation has a greater base than the *)
(* one before it (Ordered).                                                 *)

\* The edits of e that wait in a device's outbox q.
Pending(q, e) == {x \in Edits : q[x] # None /\ q[x].op.e = e}
Earlier(q, x) == {y \in Pending(q, q[x].op.e) : q[y].op.base < q[x].op.base}

\* The content of the last of the operations S.
LatestContent(q, S) ==
  UNION {q[x].op.content : x \in {y \in S : \A z \in S : q[z].op.base <= q[y].op.base}}

\* Mutant: operations paused by a conflict are sent.
SendableAnyway(q) ==
  {x \in Edits :
     /\ q[x] # None
     /\ Earlier(q, x) = {}
     /\ q[x].error # "INVALID"
     /\ q[x].attempts < MaxAttempts}

\* Only the first operation of an entity may be sent, and only while it is
\* not paused by a conflict, a rejection or the retry limit.
Sendable(q) ==
  {x \in Edits :
     /\ q[x] # None
     /\ Earlier(q, x) = {}
     /\ q[x].error \notin {"CONFLICT", "INVALID"}
     /\ q[x].attempts < MaxAttempts}

\* A new uuid: an annotation no device and no row has yet.
Unknown(e) ==
  /\ history[e] = <<>>
  /\ \A d \in Devices : local[d][e] = NoRow /\ Pending(outbox[d], e) = {}

\* Mutant: the operation is queued as if there were no conflict.
UnpausedError(d, e) == None

\* queueOfflineOperation: an edit of an entity in conflict waits.
FirstError(d, e) == IF marker[d][e] = None THEN None ELSE "CONFLICT"

\* create, update, delete and saveNotebook of the offline repository.  The
\* base is the revision of the working copy, which counts the pending edits.
LocalEdit(d, e, x) ==
  /\ x \in fresh
  /\ local[d][e] = NoRow => e \in Notebooks \/ Unknown(e)
  /\ LET row == local[d][e]
         next == Row(row.rev + 1, row.content \cup {x})
     IN /\ local' = [local EXCEPT ![d][e] = next]
        /\ outbox' = [outbox EXCEPT ![d][x] =
             [op |-> Operation(x, e, row.rev, next.content), attempts |-> 0,
              error |-> FirstError(d, e)]]
  /\ fresh' = fresh \ {x}
  /\ UNCHANGED <<server, late, marker, preview, listed, sync, ghost>>

\* Importing a package replaces working copies that have neither a pending
\* operation nor a conflict; the package may have been made at any revision.
Download(d) ==
  \E rev \in [Entities -> 0 .. Cardinality(Edits \cup Resolutions) + 1] :
    /\ \A e \in Entities : rev[e] \in 0 .. Revision(e)
    /\ local' = [local EXCEPT ![d] = [e \in Entities |->
         IF Pending(outbox[d], e) # {} \/ marker[d][e] # None
         THEN @[e]
         ELSE IF rev[e] = 0 THEN NoRow ELSE Row(rev[e], history[e][rev[e]])]]
    /\ listed' = [listed EXCEPT ![d] =
         {c \in @ : marker[d][c.e] # None /\ marker[d][c.e].copy = c.id}]
    /\ UNCHANGED <<server, late, outbox, marker, preview, sync, fresh, ghost>>

Stopped(q) == {x \in Edits : q[x] # None /\ q[x].error \notin {None, "CONFLICT"}}

\* Mutant: the attempts are not reset.
RetryKeepsAttempts(d) ==
  /\ Stopped(outbox[d]) # {}
  /\ outbox' = [outbox EXCEPT ![d] = [x \in Edits |->
       IF x \in Stopped(@) THEN [@[x] EXCEPT !.error = None] ELSE @[x]]]
  /\ UNCHANGED <<server, late, local, marker, preview, listed, sync, fresh, ghost>>

\* "Retry sync": every operation but the conflicting ones starts over.
RetrySync(d) ==
  /\ Stopped(outbox[d]) # {}
  /\ outbox' = [outbox EXCEPT ![d] = [x \in Edits |->
       IF x \in Stopped(@) THEN [op |-> @[x].op, attempts |-> 0, error |-> None] ELSE @[x]]]
  /\ UNCHANGED <<server, late, local, marker, preview, listed, sync, fresh, ghost>>

-----------------------------------------------------------------------------
(* The server. *)

\* A session that is online writes with a base revision the endpoint
\* compares; a write that passes has seen the row it replaces.  Left out: the
\* relocation of anchors when a message is edited, which adds one to the
\* revision it has loaded, under no lock and without a comparison.
OnlineEdit(e, x) ==
  /\ x \in fresh \ Invalid
  /\ history[e] = <<>> => e \in Notebooks \/ Unknown(e)
  /\ history' = [history EXCEPT ![e] =
       IF e \in Notebooks /\ @ = <<>> THEN <<{}, {x}>>
       ELSE Append(@, Content(e) \cup {x})]
  /\ fresh' = fresh \ {x}
  /\ UNCHANGED <<copies, receipts, late, device, sync, ghost>>

\* The copy of an annotation is an annotation, and may be edited as one.
EditCopy(c, x) ==
  /\ x \in fresh \ Invalid
  /\ c.e \notin Notebooks
  /\ copies' = (copies \ {c})
       \cup {[id |-> c.id, e |-> c.e, content |-> c.content \cup {x}, rev |-> c.rev + 1]}
  /\ fresh' = fresh \ {x}
  /\ UNCHANGED <<history, receipts, late, device, sync, ghost>>

\* Reading the notebook creates the canonical empty one.
WithNotebooks(h) ==
  [e \in Entities |-> IF e \in Notebooks /\ h[e] = <<>> THEN <<{}>> ELSE h[e]]

OpenOnline ==
  /\ history # WithNotebooks(history)
  /\ history' = WithNotebooks(history)
  /\ UNCHANGED <<copies, receipts, late, device, sync, fresh, ghost>>

\* Mutant: receipts are not looked up.
KnownNever(op) == FALSE

Known(op) == receipts[op.id] # None
Compared(op) == {c \in copies : c.id = op.copy}

\* Mutant: a resolution does not compare the revision.
RefusalUncompared(ops) ==
  IF \E op \in ops : ~Known(op) /\ op.id \in Invalid THEN "INVALID"
  ELSE IF \E op \in ops :
            /\ ~Known(op)
            /\ op.id \in Resolutions
            /\ ~\E c \in Compared(op) : c.e = op.e /\ c.rev = op.seenCopy
       THEN "STALE"
  ELSE None

\* Mutant: a resolution is validated before its receipt is looked up.
RefusalFirst(ops) ==
  IF \E op \in ops : ~Known(op) /\ op.id \in Invalid THEN "INVALID"
  ELSE IF \E op \in ops :
            /\ op.id \in Resolutions
            /\ ~\E c \in Compared(op) :
                   c.e = op.e /\ c.rev = op.seenCopy /\ Revision(op.e) = op.base
       THEN "STALE"
  ELSE None

\* The error of the transaction that answers a request, or None.
Refusal(ops) ==
  IF \E op \in ops : Known(op) /\ receipts[op.id].op # op THEN "CONFLICT"
  ELSE IF \E op \in ops : ~Known(op) /\ op.id \in Invalid THEN "INVALID"
  ELSE IF \E op \in ops :
            /\ ~Known(op)
            /\ op.id \in Resolutions
            /\ ~\E c \in Compared(op) :
                   c.e = op.e /\ c.rev = op.seenCopy /\ Revision(op.e) = op.base
       THEN "STALE"
  ELSE None

\* Mutant: a zero base overwrites whatever is there.
ConflictsUnlessZero(op) ==
  /\ ~Known(op)
  /\ op.id \notin Resolutions
  /\ op.base # 0
  /\ Revision(op.e) # op.base

\* An operation on the current revision is applied, another one becomes a
\* conflict copy; a missing row is created whatever the base.
Conflicts(op) ==
  /\ ~Known(op)
  /\ op.id \notin Resolutions
  /\ history[op.e] # <<>>
  /\ Revision(op.e) # op.base

Writes(op) == ~Known(op) /\ ~Conflicts(op) /\ ~op.keep

Answered(op) ==
  IF Known(op) THEN receipts[op.id]
  ELSE [op |-> op, copied |-> Conflicts(op),
        rev |-> Revision(op.e) + (IF Writes(op) THEN 1 ELSE 0)]

\* sync_annotations: receipts first, then each new operation; one
\* transaction, which a refusal rolls back.
Apply(ops) ==
  /\ history' = [e \in Entities |->
       LET own == {op \in ops : op.e = e /\ Writes(op)}
       IN IF own = {} THEN history[e]
          ELSE Append(history[e], (CHOOSE op \in own : TRUE).content)]
  /\ copies' =
       {c \in copies : \A op \in ops : Known(op) \/ c.id # op.copy}
       \cup {[id |-> op.id, e |-> op.e, content |-> op.content, rev |-> 1] :
               op \in {o \in ops : Conflicts(o)}}
  /\ receipts' = [i \in DOMAIN receipts |->
       IF \E op \in ops : op.id = i
       THEN Answered(CHOOSE op \in ops : op.id = i)
       ELSE receipts[i]]
  /\ decided' = decided \cup
       UNION {op.content : op \in {o \in ops : o.keep /\ ~Known(o)}}

-----------------------------------------------------------------------------
(* A request from the device to the server and back. *)

Wait(d, ops, tries) ==
  sync' = [sync EXCEPT ![d] = Request("sent", ops, tries, None, {}, None)]

Flush(d) ==
  /\ sync[d] = Idle
  /\ Sendable(outbox[d]) # {}
  /\ Wait(d, {outbox[d][x].op : x \in Sendable(outbox[d])},
          [x \in Edits |-> IF x \in Sendable(outbox[d]) THEN outbox[d][x].attempts ELSE 0])
  /\ UNCHANGED <<server, late, device, fresh, ghost>>

\* retryOfflineResolution; the screen offers it until the server has called
\* the comparison stale.
SendResolution(d, e) ==
  /\ sync[d] = Idle
  /\ marker[d][e] # None
  /\ marker[d][e].resolution # None
  /\ ~marker[d][e].resolution.stale
  /\ Wait(d, {marker[d][e].resolution.op}, Untried)
  /\ UNCHANGED <<server, late, device, fresh, ghost>>

Serve(d) ==
  /\ sync[d].stage = "sent"
  /\ IF Refusal(sync[d].ops) # None
     THEN /\ sync' = [sync EXCEPT ![d] =
                Request("refused", @.ops, @.tries, Refusal(@.ops), {}, None)]
          /\ UNCHANGED <<server, decided>>
     ELSE /\ Apply(sync[d].ops)
          /\ sync' = [sync EXCEPT ![d] =
                Request("answered", @.ops, @.tries, None, {Answered(op) : op \in @.ops}, None)]
  /\ UNCHANGED <<late, device, fresh, overlaid>>

\* A request nobody waits for any more still reaches the server.
ServeLate(ops) ==
  /\ late' = late \ {ops}
  /\ IF Refusal(ops) # None THEN UNCHANGED <<server, decided>> ELSE Apply(ops)
  /\ UNCHANGED <<device, sync, fresh, overlaid>>

\* The snapshot is read before anything is acknowledged.
Fetch(d) ==
  /\ sync[d].stage = "answered"
  /\ history' = WithNotebooks(history)
  /\ LET rows == [e \in Entities |->
                    IF history'[e] = <<>> THEN NoRow
                    ELSE Row(Len(history'[e]), history'[e][Len(history'[e])])]
         snapshot == [rows |-> rows, copies |-> {c \in copies : c.e \in Notebooks}]
     IN sync' = [sync EXCEPT ![d] = Request("read", @.ops, @.tries, None, @.answers, snapshot)]
  /\ UNCHANGED <<copies, receipts, late, device, fresh, ghost>>

Resolving(d) == \E op \in sync[d].ops : op.id \in Resolutions
Resolution(d) == CHOOSE op \in sync[d].ops : op.id \in Resolutions

\* Is the resolution the device is sending still the one of its marker?
Current(d) ==
  LET m == marker[d][Resolution(d).e]
  IN m # None /\ m.resolution # None /\ m.resolution.op = Resolution(d)

\* Mutant: any pending edit of the conversation keeps every working copy.
UntouchedConversation(q, e) == \E x \in Edits : q[x] # None

\* Entities whose working copy the snapshot q leaves alone.
Untouched(q, e) == Pending(q, e) # {}

\* outbox.bulkDelete
Without(q, ids) == [x \in Edits |-> IF x \in ids THEN None ELSE q[x]]

\* The transaction that acknowledges a flush.
Acknowledge(d) ==
  /\ sync[d].stage = "read"
  /\ ~Resolving(d)
  /\ LET done == {op.id : op \in sync[d].ops}
         lost == {r.op : r \in {a \in sync[d].answers : a.copied}}
         clashes(e) == {op \in lost : op.e = e}
         rest == Without(outbox[d], done)
         snap == sync[d].snapshot
     IN /\ outbox' = [outbox EXCEPT ![d] = [x \in Edits |->
             IF \E op \in lost : x \in Pending(rest, op.e)
             THEN [rest[x] EXCEPT !.error = "CONFLICT"]
             ELSE rest[x]]]
        /\ marker' = [marker EXCEPT ![d] = [e \in Entities |->
             IF clashes(e) = {} THEN @[e]
             ELSE LET op == CHOOSE o \in clashes(e) : TRUE
                  IN [copy |-> op.id, content |-> op.content, resolution |-> None]]]
        /\ local' = [local EXCEPT ![d] = [e \in Entities |->
             IF Untouched(rest, e) THEN @[e] ELSE snap.rows[e]]]
        /\ listed' = [listed EXCEPT ![d] =
             snap.copies \cup {c \in @ : Untouched(rest, c.e)}]
  /\ sync' = [sync EXCEPT ![d] = Idle]
  /\ UNCHANGED <<server, late, preview, fresh, ghost>>

Bump(item, tried, code) == [op |-> item.op, attempts |-> tried + 1, error |-> code]

\* The error handlers: a flush counts the attempt, a resolution keeps its
\* request and notes whether the comparison must be made again.
Failed(d, code) ==
  /\ IF Resolving(d)
     THEN /\ marker' = IF Current(d)
               THEN [marker EXCEPT ![d][Resolution(d).e].resolution.stale =
                       code \in {"STALE", "CONFLICT"}]
               ELSE marker
          /\ UNCHANGED outbox
     ELSE /\ outbox' = [outbox EXCEPT ![d] = [x \in Edits |->
               IF @[x] # None /\ x \in {op.id : op \in sync[d].ops}
               THEN Bump(@[x], sync[d].tries[x], code) ELSE @[x]]]
          /\ UNCHANGED marker
  /\ sync' = [sync EXCEPT ![d] = Idle]
  /\ UNCHANGED <<server, local, preview, listed, fresh, ghost>>

Refused(d) ==
  /\ sync[d].stage = "refused"
  /\ Failed(d, sync[d].refusal)
  /\ UNCHANGED late

\* A request or an answer that does not arrive leaves its request in flight.
Abandoned(d) ==
  \/ UNCHANGED late
  \/ /\ sync[d].stage = "sent"
     /\ Cardinality(late) < MaxLate
     /\ late' = late \cup {sync[d].ops}

\* The network or the device's storage fails.
NetworkFailure(d) ==
  /\ "failure" \in Mishaps
  /\ sync[d] # Idle
  /\ Abandoned(d)
  /\ Failed(d, "NETWORK")

\* The tab is closed: no handler runs, what is stored stays.
CloseTab(d) ==
  /\ "close" \in Mishaps
  /\ sync[d] # Idle \/ preview[d] # None
  /\ Abandoned(d)
  /\ sync' = [sync EXCEPT ![d] = Idle]
  /\ preview' = [preview EXCEPT ![d] = None]
  /\ UNCHANGED <<server, outbox, local, marker, listed, fresh, ghost>>

-----------------------------------------------------------------------------
(* Resolving a conflict. *)

\* Mutant: a recorded conflict is written over.
EnsureAgain(d, c) ==
  /\ marker' = [marker EXCEPT ![d][c.e] =
       [copy |-> c.id, content |-> c.content, resolution |-> None]]
  /\ UNCHANGED <<server, late, outbox, local, preview, listed, sync, fresh, ghost>>

\* ensureNotebookConflict: a device takes up a copy it has only listed.
EnsureConflict(d, c) ==
  /\ marker[d][c.e] = None
  /\ marker' = [marker EXCEPT ![d][c.e] =
       [copy |-> c.id, content |-> c.content, resolution |-> None]]
  /\ UNCHANGED <<server, late, outbox, local, preview, listed, sync, fresh, ghost>>

Undecided(m) == IF m.resolution = None THEN TRUE ELSE m.resolution.stale

\* loadOfflineConflict: the latest pending edit stands for the local side.
Compare(d, e) ==
  /\ marker[d][e] # None
  /\ Undecided(marker[d][e])
  /\ \E c \in copies :
       /\ c.id = marker[d][e].copy
       /\ LET mine == Pending(outbox[d], e)
              shown == IF mine = {} THEN marker[d][e].content
                       ELSE LatestContent(outbox[d], mine)
          IN preview' = [preview EXCEPT ![d] =
               [e |-> e, marker |-> marker[d][e], pending |-> mine,
                base |-> Revision(e), seenCopy |-> c.rev,
                content |-> Content(e) \cup c.content \cup shown]]
  /\ UNCHANGED <<server, late, outbox, local, marker, listed, sync, fresh, ghost>>

\* prepareOfflineResolution stores the request, with the operations the
\* comparison included, unless the device changed since.
Prepare(d, r, keep) ==
  /\ r \in fresh
  /\ preview[d] # None
  /\ LET p == preview[d]
     IN /\ marker[d][p.e] = p.marker
        /\ Pending(outbox[d], p.e) = p.pending
        /\ marker' = [marker EXCEPT ![d][p.e].resolution =
             [op |-> [id |-> r, e |-> p.e, base |-> p.base, content |-> p.content,
                      copy |-> p.marker.copy, seenCopy |-> p.seenCopy, keep |-> keep],
              supersedes |-> p.pending, prior |-> local[d][p.e].content,
              stale |-> FALSE]]
  /\ preview' = [preview EXCEPT ![d] = None]
  /\ fresh' = fresh \ {r}
  /\ UNCHANGED <<server, late, outbox, local, listed, sync, ghost>>

\* The content an operation was queued on, if the device had prior before.
Previous(q, x, prior) ==
  IF Earlier(q, x) = {} THEN prior ELSE LatestContent(q, Earlier(q, x))

\* The fields in which operations S differ from what they were queued on.
Changed(q, S, prior) ==
  {Field[z] : z \in UNION
     {(q[x].op.content \ Previous(q, x, prior)) \cup (Previous(q, x, prior) \ q[x].op.content) :
        x \in S}}

\* Edits newer than the comparison are moved onto the resolved version: the
\* fields they have changed replace its own, the later the edit the better.
RebasedContent(q, S, prior, canonical) ==
  {z \in canonical : Field[z] \notin Changed(q, S, prior)}
  \cup {z \in LatestContent(q, S) : Field[z] \in Changed(q, S, prior)}

\* Mutant: every pending edit of the entity is deleted.
RebaseDrops(q, e, prior, canonical, rev) == Without(q, Pending(q, e))

\* Mutant: rebased edits stay paused.
RebasePaused(q, e, prior, canonical, rev) ==
  [x \in Edits |-> IF x \in Pending(q, e) THEN [q[x] EXCEPT !.attempts = 0] ELSE q[x]]

Rebase(q, e, prior, canonical, rev) ==
  [x \in Edits |->
     IF x \in Pending(q, e)
     THEN [attempts |-> 0, error |-> None,
           op |-> Operation(x, e, rev + Cardinality(Earlier(q, x)),
                    RebasedContent(q, Earlier(q, x) \cup {x}, prior, canonical))]
     ELSE q[x]]

\* The transaction that acknowledges a resolution.  It gives up when the
\* marker holds another request by now, which RequestKept excludes.
FinishResolution(d) ==
  /\ sync[d].stage = "read"
  /\ Resolving(d)
  /\ Current(d)
  /\ LET op == Resolution(d)
         e == op.e
         resolution == marker[d][e].resolution
         rev == (CHOOSE a \in sync[d].answers : TRUE).rev
         snap == sync[d].snapshot
         rest == Without(outbox[d], resolution.supersedes)
         newer == Pending(rest, e)
         rows == [n \in Entities |->
           IF n = e
           THEN IF newer = {} THEN snap.rows[e]
                ELSE Row(rev + Cardinality(newer),
                         RebasedContent(rest, newer, resolution.prior, snap.rows[e].content))
           ELSE IF e \notin Notebooks /\ n \in Notebooks /\ ~Untouched(rest, n)
           THEN snap.rows[n] ELSE local[d][n]]
     IN /\ outbox' = [outbox EXCEPT ![d] =
             Rebase(rest, e, resolution.prior, snap.rows[e].content, rev)]
        /\ local' = [local EXCEPT ![d] = rows]
        /\ listed' = [listed EXCEPT ![d] =
             IF e \in Notebooks THEN {c \in @ : c.id # op.copy}
             ELSE {c \in snap.copies : ~Untouched(rest, c.e)}
                  \cup {c \in @ : Untouched(rest, c.e)}]
        /\ marker' = [marker EXCEPT ![d][e] = None]
        /\ overlaid' = overlaid \cup {x \in snap.rows[e].content :
             \E y \in newer : Field[y] = Field[x] /\ x \notin rest[y].op.content}
  /\ sync' = [sync EXCEPT ![d] = Idle]
  /\ UNCHANGED <<server, late, preview, fresh, decided>>

-----------------------------------------------------------------------------
Init ==
  /\ \E there \in SUBSET Entities :
       /\ history = [e \in Entities |-> IF e \in there THEN <<{}>> ELSE <<>>]
       /\ \E here \in [Devices -> SUBSET there] :
            local = [d \in Devices |-> [e \in Entities |->
                       IF e \in here[d] THEN Row(1, {}) ELSE NoRow]]
  /\ copies = {}
  /\ receipts = [i \in Edits \cup Resolutions |-> None]
  /\ late = {}
  /\ outbox = [d \in Devices |-> [x \in Edits |-> None]]
  /\ marker = [d \in Devices |-> [e \in Entities |-> None]]
  /\ preview = [d \in Devices |-> None]
  /\ listed = [d \in Devices |-> {}]
  /\ sync = [d \in Devices |-> Idle]
  /\ fresh = Edits \cup Resolutions
  /\ decided = {}
  /\ overlaid = {}

Edit(d) == \E e \in Entities, x \in Edits : LocalEdit(d, e, x)

Synchronize(d) ==
  \/ Flush(d)
  \/ \E e \in Entities : SendResolution(d, e)
  \/ Serve(d)
  \/ Fetch(d)
  \/ Acknowledge(d)
  \/ Refused(d)
  \/ FinishResolution(d)

Disturb(d) == NetworkFailure(d) \/ CloseTab(d)

Resolve(d) ==
  \/ \E c \in listed[d] : EnsureConflict(d, c)
  \/ \E e \in Entities : Compare(d, e)
  \/ \E r \in Resolutions, keep \in BOOLEAN : Prepare(d, r, keep)

Elsewhere ==
  \/ \E e \in Entities, x \in Edits : OnlineEdit(e, x)
  \/ \E c \in copies, x \in Edits : EditCopy(c, x)
  \/ OpenOnline
  \/ \E ops \in late : ServeLate(ops)

Next ==
  \/ Elsewhere
  \/ \E d \in Devices :
       Edit(d) \/ Download(d) \/ RetrySync(d) \/ Synchronize(d) \/ Disturb(d) \/ Resolve(d)

Spec == Init /\ [][Next]_vars

-----------------------------------------------------------------------------
(* Properties. *)

Operations ==
  [id : Edits \cup Resolutions, e : Entities, base : Nat, content : SUBSET Edits,
   copy : Edits \cup {None}, seenCopy : Nat, keep : BOOLEAN]
Rows == [rev : Nat, content : SUBSET Edits]
Copies == [id : Edits, e : Entities, content : SUBSET Edits, rev : Nat]
Answers == {a \in [op : Operations, copied : BOOLEAN, rev : Nat] : a.copied => a.op.id \in Edits}
Refusals == {"CONFLICT", "INVALID", "STALE"}
Errors == {None, "NETWORK"} \cup Refusals
Queued == [op : Operations, attempts : Nat, error : Errors]
ResolutionRecords ==
  [op : Operations, supersedes : SUBSET Edits, prior : SUBSET Edits, stale : BOOLEAN]
Markers ==
  [copy : Edits, content : SUBSET Edits, resolution : ResolutionRecords \cup {None}]
Previews ==
  [e : Entities, marker : Markers, pending : SUBSET Edits, base : Nat, seenCopy : Nat,
   content : SUBSET Edits]
Snapshots == [rows : [Entities -> Rows], copies : SUBSET Copies]
Syncs ==
  [stage : {"idle", "sent", "refused", "answered", "read"}, ops : SUBSET Operations,
   tries : [Edits -> Nat], refusal : Refusals \cup {None}, answers : SUBSET Answers,
   snapshot : Snapshots \cup {None}]

ASSUME NoneAssumption ==
  /\ None \notin Refusals \cup {"NETWORK"}
  /\ None \notin Operations /\ None \notin Queued /\ None \notin Answers
  /\ None \notin ResolutionRecords /\ None \notin Markers
  /\ None \notin Previews /\ None \notin Snapshots

\* The types of the server's rows and of each device's tables.
TypeOK ==
  /\ history \in [Entities -> Seq(SUBSET Edits)]
  /\ copies \subseteq Copies
  /\ receipts \in [Edits \cup Resolutions -> Answers \cup {None}]
  /\ late \subseteq SUBSET Operations
  /\ outbox \in [Devices -> [Edits -> Queued \cup {None}]]
  /\ local \in [Devices -> [Entities -> Rows]]
  /\ marker \in [Devices -> [Entities -> Markers \cup {None}]]
  /\ preview \in [Devices -> Previews \cup {None}]
  /\ listed \in [Devices -> SUBSET Copies]
  /\ sync \in [Devices -> Syncs]
  /\ fresh \subseteq Edits \cup Resolutions
  /\ decided \subseteq Edits
  /\ overlaid \subseteq Edits

\* No edit is lost: whatever is lost on the way, retried, rejected, copied or
\* superseded, an edit that was made waits in an outbox, is known to the
\* current version, is in a conflict copy, was in view of the user when a
\* "keep server" was applied, or gave way to an edit of the same field made
\* beside a resolution (annotation-sync.ts, offline-conflicts.ts).
NoEditLost ==
  \A x \in Edits \ fresh :
    \/ \E d \in Devices : outbox[d][x] # None
    \/ \E e \in Entities : x \in Content(e)
    \/ \E c \in copies : x \in c.content
    \/ x \in decided \cup overlaid

\* No blind overwrite: a version is only ever replaced by one whose author
\* had it in view, although a device numbers its pending edits itself and a
\* base it predicted may be the revision somebody else has just made.  Only a
\* field that is edited beside a resolution replaces what the resolution says.
NoBlindOverwrite ==
  \A e \in Entities : \A i, j \in DOMAIN history[e] :
    i < j => history[e][i] \ overlaid \subseteq history[e][j]

\* A working copy without pending edits or conflict is a version the server
\* really had at that revision, so that the next edit's base is not a lie.
RevisionNamesContent ==
  \A d \in Devices, e \in Entities :
    Pending(outbox[d], e) = {} /\ local[d][e].rev > 0 =>
      /\ local[d][e].rev <= Revision(e)
      /\ local[d][e].content = history[e][local[d][e].rev]

\* An edit is paused as conflicting only while the device has a conflict to
\* show for it: otherwise nothing would ever send it again.
PausedHasConflict ==
  \A d \in Devices, e \in Entities : \A x \in Pending(outbox[d], e) :
    outbox[d][x].error = "CONFLICT" => marker[d][e] # None

\* A retried operation does not conflict with itself: an edit is applied or
\* put into a conflict copy, however often its request is processed.
AppliedOrCopied ==
  \A c \in copies : c.id \notin Content(c.e)

\* The conflict a device shows can be compared: its copy is still there,
\* unless this device's own request to resolve it has been applied
\* ("Changed versions require a fresh comparison").
ComparisonAvailable ==
  \A d \in Devices, e \in Entities :
    LET m == marker[d][e]
    IN m # None =>
         \/ \E c \in copies : c.id = m.copy
         \/ m.resolution # None /\ ~m.resolution.stale /\ Known(m.resolution.op)

\* "Conflicts pause descendant edits": while a device records a conflict on
\* an entity it sends no edit of it.
ConflictPauses ==
  [][\A d \in Devices : \A op \in sync'[d].ops \ sync[d].ops :
       op.id \in Edits => marker[d][op.e] = None]_vars

\* "Only fields changed by those edits are rebased onto the selected
\* resolution": once a resolution is acknowledged the working copy lacks
\* nothing of it but fields that were edited beside it.
OnlyEditedFields ==
  [][\A d \in Devices, e \in Entities :
       marker[d][e] # None /\ marker'[d][e] = None =>
         sync[d].snapshot.rows[e].content
           \subseteq local'[d][e].content \cup overlaid']_vars

\* While a device sends a resolution its marker keeps that very request, so
\* that the answer is not taken for the answer to another comparison.
RequestKept ==
  \A d \in Devices : Resolving(d) => Current(d)

\* Within an entity the bases number the operations in the order in which
\* they were queued, and the working copy counts them all.
Ordered ==
  \A d \in Devices, e \in Entities : \A x \in Pending(outbox[d], e) :
    /\ outbox[d][x].op.base < local[d][e].rev
    /\ \A y \in Pending(outbox[d], e) \ {x} : outbox[d][y].op.base # outbox[d][x].op.base

\* Whatever a request carries, has carried or may still carry.
Requested ==
  (UNION {sync[d].ops : d \in Devices}) \cup (UNION late)
  \cup {receipts[i].op : i \in {j \in DOMAIN receipts : receipts[j] # None}}

\* An edit waits on the device it was made on, and in the form in which it
\* has been requested.
OperationsHold ==
  /\ \A d \in Devices, x \in Edits : outbox[d][x] # None =>
       /\ outbox[d][x].op.id = x
       /\ x \notin fresh
       /\ \A other \in Devices \ {d} : outbox[other][x] = None
  /\ \A op \in Requested : op.id \in Edits =>
       /\ op.id \notin fresh
       /\ \A d \in Devices : outbox[d][op.id] # None => outbox[d][op.id].op = op
  /\ \A i \in DOMAIN receipts : receipts[i] # None => receipts[i].op.id = i

\* An answer belongs to the request, and the snapshot read for it is true.
RequestsHold ==
  \A d \in Devices :
    /\ ~Resolving(d) =>
         /\ sync[d].refusal # "CONFLICT"
         /\ \A op \in sync[d].ops : outbox[d][op.id] # None
    /\ Resolving(d) => sync[d].ops = {Resolution(d)} /\ Resolution(d).id \in Resolutions
    /\ sync[d].stage = "refused" => sync[d].refusal # None
    /\ sync[d].stage \in {"answered", "read"} /\ Resolving(d) => sync[d].answers # {}
    /\ sync[d].stage = "read" =>
         /\ sync[d].snapshot # None
         /\ \A e \in Entities :
              LET row == sync[d].snapshot.rows[e]
              IN row.rev > 0 => row.rev <= Revision(e) /\ row.content = history[e][row.rev]

\* A stored resolution accounts for what waits behind it: what it does not
\* supersede came after it, and has not been requested.
ResolutionsHold ==
  \A d \in Devices :
    /\ preview[d] # None => Undecided(preview[d].marker)
    /\ Resolving(d) => ~ marker[d][Resolution(d).e].resolution.stale
    /\ \A e \in Entities :
         marker[d][e] # None /\ marker[d][e].resolution # None =>
           LET r == marker[d][e].resolution
           IN /\ r.op.e = e /\ r.op.id \in Resolutions
              /\ \A x \in Pending(outbox[d], e) \ r.supersedes :
                   outbox[d][x].error = "CONFLICT" /\ \A op \in Requested : op.id # x
              /\ \A x \in r.supersedes :
                   x \notin fresh /\ (outbox[d][x] # None => outbox[d][x].op.e = e)

\* What every step of any number of devices keeps.
Inductive ==
  /\ TypeOK /\ Ordered /\ OperationsHold /\ RequestsHold /\ ResolutionsHold
  /\ RequestKept /\ PausedHasConflict /\ RevisionNamesContent

\* Fairness: the lock is granted in turn, the user presses retry, and of
\* requests and answers that are sent again and again some get through.
\* Nothing is assumed of edits, downloads and decisions.
Fairness ==
  \A d \in Devices :
    /\ SF_vars(Flush(d)) /\ SF_vars(Serve(d)) /\ SF_vars(Fetch(d))
    /\ SF_vars(Acknowledge(d)) /\ SF_vars(FinishResolution(d))
    /\ SF_vars(Refused(d)) /\ WF_vars(RetrySync(d))

LiveSpec == Spec /\ Fairness

\* Every edit is eventually acknowledged, unless a conflict waits for the
\* user or the server rejects an edit of its batch.
EditsDrain ==
  \A d \in Devices, e \in Entities, x \in Edits \ Invalid :
    x \in Pending(outbox[d], e) ~>
      \/ x \notin Pending(outbox[d], e)
      \/ marker[d][e] # None
      \/ \E y \in Invalid : outbox[d][y] # None
=============================================================================
