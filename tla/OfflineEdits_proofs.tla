-------------------------- MODULE OfflineEdits_proofs --------------------------
(***************************************************************************)
(* An edit of an annotation is applied or copied, never both.              *)
(*                                                                         *)
(* Apart(e) are the edits that no version of e may know: those not made    *)
(* yet, those that wait unanswered, and those that have a conflict copy.   *)
(* No step adds to it (each ...KeepsApart lemma has a step that says so),  *)
(* and what could carry such an edit into a version - a working copy, a    *)
(* queued operation, a conflict, a comparison, a decision - either is the  *)
(* edit's own, or takes its copy away, or deletes it from the outbox.      *)
(***************************************************************************)
EXTENDS OfflineConflicts_proofs

\* The row a snapshot does not have is empty.
SnapshotsTrue ==
  \A d \in Devices : sync[d].snapshot # None =>
    \A e \in Notes : sync[d].snapshot.rows[e].rev = 0 => sync[d].snapshot.rows[e].content = {}

\* The copy of a decision that was applied does not come back.
DecidedGone ==
  \A op \in Requested : op.id \in Resolutions /\ op.e \in Notes /\ Known(op) =>
    \A c \in copies : c.id # op.copy

\* A decision has been applied, which deletes x once its device knows.
Superseded(d, e, x) ==
  /\ Decides(d, e) /\ x \in marker[d][e].resolution.supersedes
  /\ receipts[Chosen(d, e).id] # None

Waits(e, x) ==
  receipts[x] = None /\ \E d \in Devices : x \in Pending(outbox[d], e) /\ ~Superseded(d, e, x)
Lives(e, x) == \E c \in copies : c.id = x /\ c.e = e
Apart(e) == {x \in Edits : x \in fresh \/ Waits(e, x) \/ Lives(e, x)}

\* Device d has a conflict about the copy of x.
Behind(d, e, x) == marker[d][e] # None /\ marker[d][e].copy = x

ServerApart(e, x) ==
  /\ \A i \in DOMAIN history[e] : x \notin history[e][i]
  /\ \A c \in copies : c.e = e /\ x \in c.content => c.id = x

RequestsApart(e, x) ==
  \A op \in Requested :
    op.id \in Resolutions /\ op.e = e /\ ~Known(op) /\ Timely(op) /\ x \in op.content =>
      op.copy = x \/ \E d \in Devices : Keeps(d, op) /\ x \in marker[d][e].resolution.supersedes

LocalApart(d, e, x) == x \in local[d][e].content => outbox[d][x] # None \/ Behind(d, e, x)

QueueApart(d, e, x) ==
  \A y \in Pending(outbox[d], e) : x \in outbox[d][y].op.content =>
    \/ x \in Pending(outbox[d], e) /\ outbox[d][x].op.base <= outbox[d][y].op.base
    \/ Behind(d, e, x)

MarkerApart(d, e, x) == marker[d][e] # None /\ x \in marker[d][e].content => Behind(d, e, x)

DecisionApart(d, e, x) ==
  Decides(d, e) /\ receipts[Chosen(d, e).id] = None /\ x \in Chosen(d, e).content =>
    Behind(d, e, x) \/ x \in marker[d][e].resolution.supersedes

PreviewApart(d, e, x) ==
  preview[d] # None /\ preview[d].e = e /\ x \in preview[d].content =>
    preview[d].marker.copy = x \/ x \in preview[d].pending

DeviceApart(d, e, x) ==
  /\ LocalApart(d, e, x) /\ QueueApart(d, e, x) /\ MarkerApart(d, e, x)
  /\ DecisionApart(d, e, x) /\ PreviewApart(d, e, x)

EditsApart ==
  \A e \in Notes : \A x \in Apart(e) :
    ServerApart(e, x) /\ RequestsApart(e, x) /\ \A d \in Devices : DeviceApart(d, e, x)

EditRules == SnapshotsTrue /\ DecidedGone /\ EditsApart

-----------------------------------------------------------------------------
(* What is apart. *)

\* What waits or has an answer has been made.
LEMMA ApartMade ==
  ASSUME Inductive, NEW x \in Edits
  PROVE  /\ receipts[x] # None => x \notin fresh
         /\ \A d \in Devices : outbox[d][x] # None => x \notin fresh
<1>1. TypeOK /\ Shared /\ \A d \in Devices : OperationsOn(d)
  BY Parts DEF Holds
<1>2. ASSUME receipts[x] # None PROVE x \notin fresh
  <2>1. x \in DOMAIN receipts
    BY <1>1 DEF TypeOK
  <2>2. receipts[x].op.id = x /\ receipts[x].op \in Requested
    BY <1>1, <1>2, <2>1 DEF Shared, Requested
  <2>. QED BY <1>1, <2>2 DEF Shared
<1>. QED BY <1>1, <1>2 DEF OperationsOn

\* An edit that waits and was answered is waited for by that answer.
LEMMA AnsweredAsQueued ==
  ASSUME Inductive, NEW d \in Devices, NEW x \in Edits, outbox[d][x] # None, receipts[x] # None
  PROVE  receipts[x].op = outbox[d][x].op /\ receipts[x].op \in Requested /\ receipts[x].op.id = x
<1>1. TypeOK /\ Shared /\ OperationsOn(d) /\ x \in DOMAIN receipts
  BY Parts DEF Holds, TypeOK
<1>2. receipts[x].op.id = x /\ receipts[x].op \in Requested
  BY <1>1 DEF Shared, Requested
<1>. QED BY <1>1, <1>2 DEF OperationsOn

\* What of e is apart and waits, waits as an edit of e.
LEMMA ApartPending ==
  ASSUME Inductive, ConflictRules, NEW e \in Notes, NEW x \in Apart(e), NEW d \in Devices,
         outbox[d][x] # None
  PROVE  x \in Pending(outbox[d], e)
<1>0. Shared /\ TypeOK
  BY Parts
<1>1. x \in Edits /\ x \notin fresh
  BY ApartMade DEF Apart
<1>2. CASE Waits(e, x)
  <2>1. PICK o \in Devices : x \in Pending(outbox[o], e)
    BY <1>2 DEF Waits
  <2>2. o = d
    BY <1>0, <1>1, <2>1 DEF Shared, Pending
  <2>. QED BY <2>1, <2>2
<1>3. CASE Lives(e, x)
  <2>1. receipts[x] # None /\ receipts[x].op.e = e
    BY <1>3 DEF Lives, ConflictRules, CopiesHold
  <2>. QED BY <1>1, <2>1, AnsweredAsQueued DEF Pending
<1>. QED BY <1>1, <1>2, <1>3 DEF Apart

\* A decision that is known has been requested.
LEMMA KnownRequested ==
  ASSUME Inductive, QueueRules, NEW d \in Devices, NEW e \in Entities, Decides(d, e),
         receipts[Chosen(d, e).id] # None
  PROVE  Chosen(d, e) \in Requested /\ Known(Chosen(d, e))
<1>1. TypeOK /\ Shared /\ ResolutionsOn(d)
  BY Parts DEF Holds
<1>2. Chosen(d, e).id \in DOMAIN receipts
  BY <1>1 DEF ResolutionsOn, Decides, Chosen, TypeOK
<1>3. receipts[Chosen(d, e).id].op \in Requested /\ receipts[Chosen(d, e).id].op.id = Chosen(d, e).id
  BY <1>1, <1>2 DEF Shared, Requested
<1>. QED BY <1>3 DEF QueueRules, DecisionIds, Known

\* What is answered stays so; what is applied takes what waits with it.
LEMMA ApartShrinks ==
  ASSUME NEW e, UNCHANGED <<copies, receipts>>, fresh' \subseteq fresh,
         \A d \in Devices : \A x \in Pending(outbox'[d], e) :
           x \in Pending(outbox[d], e) /\ (Superseded(d, e, x) => Superseded(d, e, x)')
  PROVE  Apart(e)' \subseteq Apart(e)
BY DEF Apart, Waits, Lives

-----------------------------------------------------------------------------
(* The rules of edits, one by one. *)

LEMMA SnapshotsStay ==
  ASSUME EditRules, \A d \in Devices : sync'[d] = sync[d] \/ sync'[d].snapshot = None
  PROVE  SnapshotsTrue'
BY DEF EditRules, SnapshotsTrue

\* A device whose tables stay.
LEMMA DeviceStays ==
  ASSUME NEW d \in Devices, NEW e \in Entities, NEW x \in Edits, DeviceApart(d, e, x), SameQueue(d),
         local'[d][e] = local[d][e], marker'[d][e] = marker[d][e],
         preview'[d] = preview[d] \/ preview'[d] = None,
         Decides(d, e) /\ receipts[Chosen(d, e).id] # None => receipts'[Chosen(d, e).id] # None
  PROVE  DeviceApart(d, e, x)'
<1>1. Pending(outbox'[d], e) = Pending(outbox[d], e)
  BY SamePending
<1>2. LocalApart(d, e, x)' /\ MarkerApart(d, e, x)' /\ PreviewApart(d, e, x)'
  BY DEF DeviceApart, LocalApart, MarkerApart, PreviewApart, Behind, SameQueue
<1>3. QueueApart(d, e, x)'
  BY <1>1 DEF DeviceApart, QueueApart, Behind, SameQueue, Pending
<1>4. DecisionApart(d, e, x)'
  BY DEF DeviceApart, DecisionApart, Behind, Decides, Chosen
<1>. QED BY <1>2, <1>3, <1>4 DEF DeviceApart

\* A decision that can still be applied was so before, or is kept.
LEMMA RequestsStayApart ==
  ASSUME ConflictRules, NEW e \in Notes, NEW x \in Edits, RequestsApart(e, x),
         \A d \in Devices : DeviceApart(d, e, x),
         \A op \in Requested' : op.id \in Resolutions /\ op.e = e /\ ~(Known(op)') /\ Timely(op)' =>
           /\ ~Known(op) /\ Timely(op)
           /\ op \in Requested \/ \E d \in Devices : Keeps(d, op),
         \A d \in Devices, op \in Requested' :
           op.id \in Resolutions /\ op.e = e /\ ~Known(op) /\ Timely(op) /\ Keeps(d, op) =>
             /\ Keeps(d, op)'
             /\ marker'[d][e].resolution.supersedes = marker[d][e].resolution.supersedes
  PROVE  RequestsApart(e, x)'
<1> SUFFICES ASSUME NEW op \in Requested', op.id \in Resolutions, op.e = e, ~(Known(op)'), Timely(op)',
                    x \in op.content
             PROVE  op.copy = x \/ \E d \in Devices :
                      Keeps(d, op)' /\ x \in marker'[d][e].resolution.supersedes
  BY DEF RequestsApart
<1>1. ~Known(op) /\ Timely(op)
  OBVIOUS
<1>2. CASE op \in Requested
  BY <1>1, <1>2 DEF RequestsApart
<1>3. ASSUME NEW d \in Devices, Keeps(d, op)
      PROVE  op.copy = x \/ \E o \in Devices :
               Keeps(o, op)' /\ x \in marker'[o][e].resolution.supersedes
  <2>1. Decides(d, e) /\ Chosen(d, e) = op /\ receipts[Chosen(d, e).id] = None
    BY <1>1, <1>3 DEF Keeps, Known
  <2>2. Behind(d, e, x) \/ x \in marker[d][e].resolution.supersedes
    BY <2>1 DEF DeviceApart, DecisionApart
  <2>3. Behind(d, e, x) => op.copy = x
    BY <2>1 DEF Behind, ConflictRules, NoteMarkers, Decides
  <2>. QED BY <1>1, <1>3, <2>2, <2>3
<1>. QED BY <1>2, <1>3

LEMMA GoneStay ==
  ASSUME EditRules, UNCHANGED copies,
         \A op \in Requested' : op.id \in Resolutions /\ op.e \in Notes /\ Known(op)' =>
           op \in Requested /\ Known(op)
  PROVE  DecidedGone'
BY DEF EditRules, DecidedGone

-----------------------------------------------------------------------------
(* Steps that answer nothing. *)

\* A step of device d that may change its tables.
LEMMA DeviceFrame ==
  ASSUME Inductive, QueueRules, ConflictRules, EditRules, SnapshotsTrue',
         NEW d \in Devices, Alone(d), UNCHANGED <<copies, receipts>>,
         \A e \in Notes : history'[e] = history[e] /\ Apart(e)' \subseteq Apart(e),
         \A op \in Requested' : op.id \in Resolutions /\ op.e \in Notes =>
           op \in Requested \/ \E o \in Devices : Keeps(o, op),
         \A o \in Devices, op \in Requested' :
           op.id \in Resolutions /\ op.e \in Notes /\ ~Known(op) /\ Timely(op) /\ Keeps(o, op) =>
             /\ Keeps(o, op)'
             /\ marker'[o][op.e].resolution.supersedes = marker[o][op.e].resolution.supersedes,
         \A e \in Notes : \A x \in Apart(e) :
           x \in Apart(e)' /\ DeviceApart(d, e, x) => DeviceApart(d, e, x)'
  PROVE  EditRules'
<1>1. DecidedGone'
  <2>1. ASSUME NEW op \in Requested', op.id \in Resolutions, op.e \in Notes, Known(op)'
        PROVE  op \in Requested /\ Known(op)
    <3>1. Known(op)
      BY <2>1 DEF Known
    <3>2. ASSUME NEW o \in Devices, Keeps(o, op) PROVE op \in Requested
      <4>1. Decides(o, op.e) /\ Chosen(o, op.e) = op /\ op.e \in Entities
        BY <2>1, <3>2 DEF Keeps, Notes
      <4>2. receipts[Chosen(o, op.e).id] # None
        BY <3>1, <4>1 DEF Known
      <4>3. Chosen(o, op.e) \in Requested
        BY <4>1, <4>2, KnownRequested
      <4>. QED BY <4>1, <4>3
    <3>. QED BY <2>1, <3>1, <3>2
  <2>. QED BY <2>1, GoneStay
<1>2. ASSUME NEW e \in Notes, NEW x \in Apart(e)'
      PROVE  ServerApart(e, x)' /\ RequestsApart(e, x)' /\ \A o \in Devices : DeviceApart(o, e, x)'
  <2>1. x \in Apart(e) /\ x \in Edits /\ e \in Entities
    BY DEF Apart, Notes
  <2>2. ServerApart(e, x) /\ RequestsApart(e, x) /\ \A o \in Devices : DeviceApart(o, e, x)
    BY <2>1 DEF EditRules, EditsApart
  <2>3. ServerApart(e, x)'
    BY <2>2 DEF ServerApart
  <2>4. RequestsApart(e, x)'
    <3>1. ASSUME NEW op \in Requested', op.id \in Resolutions, op.e = e, ~(Known(op)'), Timely(op)'
          PROVE  /\ ~Known(op) /\ Timely(op)
                 /\ op \in Requested \/ \E o \in Devices : Keeps(o, op)
      BY <3>1 DEF Known, Timely, Revision
    <3>. QED BY <2>1, <2>2, <3>1, RequestsStayApart
  <2>5. ASSUME NEW o \in Devices PROVE DeviceApart(o, e, x)'
    <3>1. CASE o = d
      BY <2>1, <2>2, <3>1
    <3>2. CASE o # d
      <4>1. SameQueue(o) /\ local'[o][e] = local[o][e] /\ marker'[o][e] = marker[o][e]
            /\ preview'[o] = preview[o]
        BY <3>2 DEF Alone, SameQueue
      <4>. QED BY <2>1, <2>2, <4>1, DeviceStays
    <3>. QED BY <3>1, <3>2
  <2>. QED BY <2>3, <2>4, <2>5
<1>. QED BY <1>1, <1>2 DEF EditRules, EditsApart


\* ... and one that changes none of them.
LEMMA StillApart ==
  ASSUME Inductive, QueueRules, ConflictRules, EditRules, SnapshotsTrue',
         NEW d \in Devices, Alone(d), SameQueue(d), UNCHANGED <<copies, receipts>>, fresh' \subseteq fresh,
         \A e \in Notes :
           history'[e] = history[e] /\ marker'[d][e] = marker[d][e] /\ local'[d][e] = local[d][e],
         preview'[d] = preview[d] \/ preview'[d] = None,
         \A op \in Requested' : op.id \in Resolutions /\ op.e \in Notes =>
           op \in Requested \/ \E o \in Devices : Keeps(o, op)
  PROVE  EditRules'
<1>1. \A o \in Devices : SameQueue(o)
  BY DEF Alone, SameQueue
<1>2. \A o \in Devices, e \in Notes : marker'[o][e] = marker[o][e]
  BY DEF Alone
<1>3. \A o \in Devices : \A e : Pending(outbox'[o], e) = Pending(outbox[o], e)
  BY <1>1, SamePending
<1>4. \A e \in Notes : Apart(e)' \subseteq Apart(e)
  BY <1>2, <1>3, ApartShrinks DEF Superseded, Decides, Chosen
<1>5. \A o \in Devices, op \in Requested' :
        op.id \in Resolutions /\ op.e \in Notes /\ ~Known(op) /\ Timely(op) /\ Keeps(o, op) =>
          /\ Keeps(o, op)'
          /\ marker'[o][op.e].resolution.supersedes = marker[o][op.e].resolution.supersedes
  BY <1>2 DEF Keeps, Decides, Chosen
<1>6. \A e \in Notes : \A x \in Apart(e) : DeviceApart(d, e, x) => DeviceApart(d, e, x)'
  BY DeviceStays DEF Apart, Notes
<1>. QED BY <1>4, <1>5, <1>6, DeviceFrame

LEMMA RetrySyncKeepsApart ==
  ASSUME Inductive, QueueRules, ConflictRules, EditRules, NEW d \in Devices, RetrySync(d)
  PROVE  EditRules'
<1>1. TypeOK
  BY Parts
<1>2. /\ SameQueue(d) /\ Alone(d)
      /\ UNCHANGED <<history, copies, receipts, late, local, marker, preview, sync, fresh>>
  BY <1>1, RetrySyncEffect
<1>3. Requested' \subseteq Requested
  BY <1>2, NothingRequested
<1>4. SnapshotsTrue'
  BY <1>2, SnapshotsStay
<1>. QED BY <1>2, <1>3, <1>4, StillApart

LEMMA CloseTabKeepsApart ==
  ASSUME Inductive, QueueRules, ConflictRules, EditRules, NEW d \in Devices, CloseTab(d)
  PROVE  EditRules'
<1>1. TypeOK
  BY Parts
<1>2. /\ Alone(d) /\ sync'[d] = Idle /\ preview'[d] = None
      /\ late' = late \/ late' = late \cup {sync[d].ops}
      /\ UNCHANGED <<history, copies, receipts, outbox, local, marker, fresh>>
  BY <1>1, CloseTabEffect
<1>3. Idle.ops = {} /\ Idle.snapshot = None
  BY DEF Idle, Request
<1>4. \A o \in Devices : sync'[o].ops \subseteq sync[o].ops /\ (sync'[o] = sync[o] \/ sync'[o].snapshot = None)
  BY <1>2, <1>3 DEF Alone
<1>5. Requested' \subseteq Requested
  BY <1>2, <1>4, NothingRequested
<1>6. SnapshotsTrue'
  BY <1>4, SnapshotsStay
<1>. QED BY <1>2, <1>5, <1>6, StillApart DEF SameQueue

LEMMA FlushKeepsApart ==
  ASSUME Inductive, QueueRules, ConflictRules, EditRules, NEW d \in Devices, Flush(d)
  PROVE  EditRules'
<1> DEFINE ops == {outbox[d][x].op : x \in Sendable(outbox[d])}
<1>0. TypeOK /\ Holds(d)
  BY Parts
<1>1. /\ Alone(d) /\ sync'[d].ops = ops /\ sync'[d].snapshot = None
      /\ UNCHANGED <<history, copies, receipts, late, outbox, local, marker, preview, fresh>>
  BY <1>0, FlushEffect
<1>2. \A op \in ops : op.id \in Edits
  BY <1>0 DEF Sendable, Holds, OperationsOn
<1> HIDE DEF ops
<1>3. \A o \in Devices : /\ sync'[o].ops \subseteq sync[o].ops \cup ops
                         /\ sync'[o] = sync[o] \/ sync'[o].snapshot = None
  BY <1>1 DEF Alone
<1>4. Requested' \subseteq Requested \cup ops
  BY <1>1, <1>3, RequestedBound
<1>5. SnapshotsTrue'
  BY <1>3, SnapshotsStay
<1>. QED BY <1>1, <1>2, <1>4, <1>5, OfflineAssumption, StillApart DEF SameQueue

LEMMA SendResolutionKeepsApart ==
  ASSUME Inductive, QueueRules, ConflictRules, EditRules, NEW d \in Devices, NEW e \in Entities,
         SendResolution(d, e)
  PROVE  EditRules'
<1>0. TypeOK /\ ResolutionsOn(d)
  BY Parts DEF Holds
<1>1. /\ Alone(d) /\ Decides(d, e) /\ ~marker[d][e].resolution.stale
      /\ sync'[d].ops = {Chosen(d, e)} /\ sync'[d].snapshot = None
      /\ UNCHANGED <<history, copies, receipts, late, outbox, local, marker, preview, fresh>>
  BY <1>0, SendResolutionEffect
<1>2. Keeps(d, Chosen(d, e))
  BY <1>0, <1>1 DEF ResolutionsOn, Decides, Chosen, Keeps
<1>3. \A o \in Devices : /\ sync'[o].ops \subseteq sync[o].ops \cup {Chosen(d, e)}
                         /\ sync'[o] = sync[o] \/ sync'[o].snapshot = None
  BY <1>1 DEF Alone
<1>4. Requested' \subseteq Requested \cup {Chosen(d, e)}
  BY <1>1, <1>3, RequestedBound
<1>5. SnapshotsTrue'
  BY <1>3, SnapshotsStay
<1>. QED BY <1>1, <1>2, <1>4, <1>5, StillApart DEF SameQueue

\* Reading notes creates nothing.
LEMMA NotesStay ==
  ASSUME TypeOK, history' = WithNotebooks(history)
  PROVE  \A e \in Notes : history'[e] = history[e]
BY DEF WithNotebooks, Notes

LEMMA FetchKeepsApart ==
  ASSUME Inductive, QueueRules, ConflictRules, EditRules, NEW d \in Devices, Fetch(d)
  PROVE  EditRules'
<1>0. TypeOK
  BY Parts
<1>1. /\ Alone(d) /\ sync'[d].ops = sync[d].ops
      /\ \A e \in Entities : sync'[d].snapshot.rows[e] =
           IF history'[e] = <<>> THEN NoRow
           ELSE Row(Len(history'[e]), history'[e][Len(history'[e])])
      /\ history' = WithNotebooks(history)
      /\ UNCHANGED <<copies, receipts, late, outbox, local, marker, preview, fresh>>
  BY <1>0, FetchEffect
<1>2. \A o \in Devices : sync'[o].ops \subseteq sync[o].ops
  BY <1>1 DEF Alone
<1>3. Requested' \subseteq Requested
  BY <1>1, <1>2, NothingRequested
<1>4. SnapshotsTrue'
  <2> SUFFICES ASSUME NEW o \in Devices, sync'[o].snapshot # None, NEW e \in Notes,
                      sync'[o].snapshot.rows[e].rev = 0
               PROVE  sync'[o].snapshot.rows[e].content = {}
    BY DEF SnapshotsTrue
  <2>1. CASE o = d
    <3>1. history'[e] = history[e] /\ history[e] \in Seq(SUBSET Edits) /\ e \in Entities
      BY <1>0, <1>1, NotesStay DEF TypeOK, Notes
    <3>2. CASE history[e] = <<>>
      <4>1. sync'[o].snapshot.rows[e] = NoRow
        BY <1>1, <2>1, <3>1, <3>2
      <4>. QED BY <4>1 DEF NoRow, Row
    <3>3. CASE history[e] # <<>>
      <4>1. sync'[o].snapshot.rows[e] = Row(Len(history[e]), history[e][Len(history[e])])
        BY <1>1, <2>1, <3>1, <3>3
      <4>2. sync'[o].snapshot.rows[e].rev = Len(history[e])
        BY <4>1 DEF Row
      <4>3. Len(history[e]) # 0
        BY <3>1, <3>3
      <4>. QED BY <4>2, <4>3
    <3>. QED BY <3>2, <3>3
  <2>2. CASE o # d
    BY <1>1, <2>2 DEF Alone, EditRules, SnapshotsTrue
  <2>. QED BY <2>1, <2>2
<1>. QED BY <1>0, <1>1, <1>3, <1>4, NotesStay, StillApart DEF SameQueue

LEMMA EnsureConflictKeepsApart ==
  ASSUME Inductive, QueueRules, ConflictRules, EditRules, NEW d \in Devices, NEW c \in listed[d],
         EnsureConflict(d, c)
  PROVE  EditRules'
<1>0. TypeOK
  BY Parts
<1>1. /\ c.e \in Entities /\ Alone(d)
      /\ \A n \in Entities \ {c.e} : marker'[d][n] = marker[d][n]
      /\ UNCHANGED <<history, copies, receipts, late, outbox, local, preview, sync, fresh>>
  BY <1>0, EnsureConflictEffect
<1>2. \A n \in Notes : marker'[d][n] = marker[d][n]
  BY <1>1 DEF QueueRules, NotebooksListed, Notes
<1>3. Requested' \subseteq Requested
  BY <1>1, NothingRequested
<1>4. SnapshotsTrue'
  BY <1>1, SnapshotsStay
<1>. QED BY <1>1, <1>2, <1>3, <1>4, StillApart DEF SameQueue


-----------------------------------------------------------------------------
(* Steps of the server. *)

\* A step that leaves the devices' tables.
LEMMA ServerFrame ==
  ASSUME Inductive, TypeOK', QueueRules, ConflictRules, EditRules, Steady, DecidedGone',
         UNCHANGED <<outbox, local, marker, preview>>, Requested' \subseteq Requested,
         \A d \in Devices : sync'[d] = sync[d] \/ sync'[d].snapshot = None,
         \A e \in Notes : Apart(e)' \subseteq Apart(e),
         \A e \in Notes : \A x \in Apart(e)' : ServerApart(e, x)'
  PROVE  EditRules'
<1>0. TypeOK
  BY Parts
<1>1. SnapshotsTrue'
  BY SnapshotsStay
<1>2. ASSUME NEW e \in Notes, NEW x \in Apart(e)'
      PROVE  RequestsApart(e, x)' /\ \A d \in Devices : DeviceApart(d, e, x)'
  <2>1. x \in Apart(e) /\ x \in Edits /\ e \in Entities
    BY DEF Apart, Notes
  <2>2. RequestsApart(e, x) /\ \A d \in Devices : DeviceApart(d, e, x)
    BY <2>1 DEF EditRules, EditsApart
  <2>3. ASSUME NEW op \in Requested', op.id \in Resolutions, op.e = e, ~(Known(op)'), Timely(op)'
        PROVE  ~Known(op) /\ Timely(op) /\ op \in Requested
    <3>1. op \in Requested /\ op \in Operations /\ op.id \in Edits \cup Resolutions
      BY <1>0, RequestedTyped DEF Operations
    <3>2. ~Known(op)
      BY <2>3, <3>1 DEF Steady, Known
    <3>3. SeenBy(op)
      BY <2>3, <3>1 DEF ConflictRules, NoteDecisions
    <3>4. Timely(op)
      BY <1>0, <2>3, <3>1, <3>3, LateStays
    <3>. QED BY <3>1, <3>2, <3>4
  <2>4. RequestsApart(e, x)'
    <3>1. \A d \in Devices, op \in Requested' :
            op.id \in Resolutions /\ op.e = e /\ ~Known(op) /\ Timely(op) /\ Keeps(d, op) =>
              /\ Keeps(d, op)'
              /\ marker'[d][e].resolution.supersedes = marker[d][e].resolution.supersedes
      BY DEF Keeps, Decides, Chosen
    <3>. QED BY <2>1, <2>2, <2>3, <3>1, RequestsStayApart
  <2>5. ASSUME NEW d \in Devices PROVE DeviceApart(d, e, x)'
    <3>1. SameQueue(d)
      BY DEF SameQueue
    <3>2. Decides(d, e) => Chosen(d, e).id \in Edits \cup Resolutions
      BY <1>0, <2>1, Typed DEF Decides, Chosen, Markers, ResolutionRecords, Operations
    <3>3. Decides(d, e) /\ receipts[Chosen(d, e).id] # None => receipts'[Chosen(d, e).id] # None
      BY <3>2 DEF Steady
    <3>. QED BY <2>1, <2>2, <3>1, <3>3, DeviceStays
  <2>. QED BY <2>4, <2>5
<1>. QED BY <1>1, <1>2 DEF EditRules, EditsApart

\* A step that answers nothing.
LEMMA NothingAnswered ==
  ASSUME EditRules, UNCHANGED <<receipts, outbox, marker>>, fresh' \subseteq fresh,
         Requested' \subseteq Requested,
         \A c \in copies' : \E b \in copies : b.id = c.id /\ b.e = c.e
  PROVE  DecidedGone' /\ \A e \in Notes : Apart(e)' \subseteq Apart(e)
<1>1. DecidedGone'
  BY DEF EditRules, DecidedGone, Known
<1>2. \A e \in Notes : Apart(e)' \subseteq Apart(e)
  BY DEF Apart, Waits, Lives, Superseded, Decides, Chosen
<1>. QED BY <1>1, <1>2

\* An edit is no longer apart once it is made online.
LEMMA MadeOnline ==
  ASSUME Inductive, ConflictRules, NEW x \in Edits, x \in fresh, fresh' = fresh \ {x},
         UNCHANGED <<receipts, outbox, marker>>, NEW e \in Notes,
         \A c \in copies' : \E b \in copies : b.id = c.id /\ b.e = c.e
  PROVE  x \notin Apart(e)'
<1>1. receipts[x] = None /\ \A d \in Devices : outbox[d][x] = None
  BY ApartMade
<1>2. \A c \in copies : c.id # x
  BY <1>1 DEF ConflictRules, CopiesHold
<1>. QED BY <1>1, <1>2 DEF Apart, Waits, Lives, Pending

LEMMA OnlineEditKeepsApart ==
  ASSUME Inductive, TypeOK', QueueRules, ConflictRules, EditRules, NEW e \in Entities, NEW x \in Edits,
         OnlineEdit(e, x)
  PROVE  EditRules'
<1>0. TypeOK
  BY Parts
<1>1. /\ x \in fresh /\ fresh' = fresh \ {x}
      /\ UNCHANGED <<copies, receipts, late, outbox, local, marker, preview, sync>>
  BY DEF OnlineEdit, device
<1>2. ASSUME NEW n \in Entities
      PROVE  \/ history'[n] = history[n]
             \/ history'[n] = <<{}, {x}>>
             \/ history'[n] = Append(history[n], Content(n) \cup {x})
  BY <1>0 DEF OnlineEdit, TypeOK
<1>3. Requested' \subseteq Requested
  BY <1>1, NothingRequested
<1>4. DecidedGone' /\ \A n \in Notes : Apart(n)' \subseteq Apart(n)
  BY <1>1, <1>3, NothingAnswered
<1>5. Steady
  <2>1. ASSUME NEW n \in Entities PROVE Revision(n) <= Revision(n)'
    <3>1. \/ history'[n] = history[n]
          \/ history[n] = <<>> /\ history'[n] = <<{}, {x}>>
          \/ history'[n] = Append(history[n], Content(n) \cup {x})
      BY <1>0 DEF OnlineEdit, TypeOK
    <3>2. history[n] \in Seq(SUBSET Edits) /\ Content(n) \cup {x} \in SUBSET Edits
      BY <1>0, ContentTyped DEF TypeOK
    <3>. QED BY <3>1, <3>2 DEF Revision
  <2>. QED BY <1>0, <1>1, <2>1, StillSteady DEF StillServer, OldQueue
<1>6. ASSUME NEW n \in Notes, NEW z \in Apart(n)' PROVE ServerApart(n, z)'
  <2>1. z \in Apart(n) /\ z # x /\ n \in Entities
    BY <1>1, <1>4, MadeOnline DEF Notes
  <2>2. ServerApart(n, z)
    BY <2>1 DEF EditRules, EditsApart
  <2>3. history[n] \in Seq(SUBSET Edits)
    BY <1>0, <2>1 DEF TypeOK
  <2>4. z \notin Content(n)
    BY <2>2, <2>3 DEF ServerApart, Content, Revision
  <2>5. \A i \in DOMAIN history'[n] : z \notin history'[n][i]
    <3>1. CASE history'[n] = history[n]
      BY <2>2, <3>1 DEF ServerApart
    <3>2. CASE history'[n] = <<{}, {x}>>
      BY <2>1, <3>2
    <3>3. CASE history'[n] = Append(history[n], Content(n) \cup {x})
      BY <2>1, <2>2, <2>3, <2>4, <3>3 DEF ServerApart
    <3>. QED BY <1>2, <2>1, <3>1, <3>2, <3>3
  <2>. QED BY <1>1, <2>2, <2>5 DEF ServerApart
<1>. QED BY <1>1, <1>3, <1>4, <1>5, <1>6, ServerFrame

LEMMA EditCopyKeepsApart ==
  ASSUME Inductive, TypeOK', QueueRules, ConflictRules, EditRules, NEW c \in copies, NEW x \in Edits,
         EditCopy(c, x)
  PROVE  EditRules'
<1> DEFINE b == [id |-> c.id, e |-> c.e, content |-> c.content \cup {x}, rev |-> c.rev + 1]
<1>0. TypeOK
  BY Parts
<1>1. /\ x \in fresh /\ fresh' = fresh \ {x} /\ copies' = (copies \ {c}) \cup {b}
      /\ UNCHANGED <<history, receipts, late, outbox, local, marker, preview, sync>>
  BY DEF EditCopy, device
<1>2. b.id = c.id /\ b.e = c.e /\ b.content = c.content \cup {x}
  OBVIOUS
<1> HIDE DEF b
<1>3. \A a \in copies' : \E o \in copies : o.id = a.id /\ o.e = a.e
  BY <1>1, <1>2
<1>4. Requested' \subseteq Requested
  BY <1>1, NothingRequested
<1>5. DecidedGone' /\ \A n \in Notes : Apart(n)' \subseteq Apart(n)
  BY <1>1, <1>3, <1>4, NothingAnswered
<1>6. ASSUME NEW n \in Notes, NEW z \in Apart(n)' PROVE ServerApart(n, z)'
  <2>1. z \in Apart(n) /\ z # x
    BY <1>1, <1>3, <1>5, MadeOnline
  <2>2. ServerApart(n, z)
    BY <2>1 DEF EditRules, EditsApart
  <2>3. \A a \in copies' : a.e = n /\ z \in a.content => a.id = z
    BY <1>1, <1>2, <2>1, <2>2 DEF ServerApart
  <2>. QED BY <1>1, <2>2, <2>3 DEF ServerApart
<1>. QED BY <1>0, <1>1, <1>4, <1>5, <1>6, EditCopySteady, ServerFrame

LEMMA ElsewhereKeepsApart ==
  ASSUME Inductive, TypeOK', QueueRules, ConflictRules, EditRules, StillServer, fresh' \subseteq fresh,
         \A e \in Notes : history'[e] = history[e],
         UNCHANGED <<outbox, local, marker, preview, sync, late>>
  PROVE  EditRules'
<1>0. TypeOK
  BY Parts
<1>1. Requested' \subseteq Requested
  BY NothingRequested DEF StillServer
<1>2. DecidedGone' /\ \A e \in Notes : Apart(e)' \subseteq Apart(e)
  BY <1>1, NothingAnswered DEF StillServer
<1>3. \A e \in Notes : \A x \in Apart(e)' : ServerApart(e, x)'
  BY <1>2 DEF EditRules, EditsApart, ServerApart, StillServer
<1>4. Steady
  BY <1>0, StillSteady DEF OldQueue
<1>. QED BY <1>1, <1>2, <1>3, <1>4, ServerFrame

LEMMA OpenOnlineKeepsApart ==
  ASSUME Inductive, TypeOK', QueueRules, ConflictRules, EditRules, OpenOnline
  PROVE  EditRules'
<1>0. TypeOK
  BY Parts
<1>1. /\ history' = WithNotebooks(history)
      /\ UNCHANGED <<copies, receipts, late, outbox, local, marker, preview, sync, fresh>>
  BY DEF OpenOnline, device
<1>2. StillServer
  BY <1>0, <1>1, NotebooksGrow, GrowsStill
<1>. QED BY <1>0, <1>1, <1>2, NotesStay, ElsewhereKeepsApart


\* A requested edit without an answer waits, and is the first of its note.
LEMMA RequestedFirst ==
  ASSUME Inductive, QueueRules, NEW op \in Requested, op.id \in Edits, op.e \in Notes, ~Known(op)
  PROVE  \E d \in Devices :
           /\ op.id \in Pending(outbox[d], op.e) /\ outbox[d][op.id].op = op
           /\ Earlier(outbox[d], op.id) = {} /\ marker[d][op.e] = None
<1>1. PICK d \in Devices : outbox[d][op.id] # None
  BY DEF QueueRules, UnansweredWait
<1>2. outbox[d][op.id].op = op
  BY <1>1, Parts DEF Holds, OperationsOn
<1>3. Earlier(outbox[d], op.id) = {} /\ marker[d][op.e] = None
  BY <1>1 DEF QueueRules, OnlyFirstRequested
<1>. QED BY <1>1, <1>2, <1>3 DEF Pending

\* The first of what waits knows nothing else that is apart.
LEMMA FirstKnows ==
  ASSUME Inductive, NEW d \in Devices, NEW e \in Notes, NEW y \in Pending(outbox[d], e),
         Earlier(outbox[d], y) = {}, marker[d][e] = None,
         NEW x \in Edits, QueueApart(d, e, x), x \in outbox[d][y].op.content
  PROVE  x = y
<1>1. x \in Pending(outbox[d], e) /\ outbox[d][x].op.base <= outbox[d][y].op.base
  BY DEF QueueApart, Behind
<1>2. ~(outbox[d][x].op.base < outbox[d][y].op.base)
  BY <1>1 DEF Earlier, Pending
<1>3. outbox[d][x].op.base \in Nat /\ outbox[d][y].op.base \in Nat
  BY <1>1, Parts, Typed DEF Pending, Queued, Operations
<1>4. outbox[d][x].op.base = outbox[d][y].op.base
  BY <1>1, <1>2, <1>3
<1>5. OrderedOn(d) /\ e \in Entities
  BY Parts DEF Holds, Notes
<1>. QED BY <1>1, <1>4, <1>5 DEF OrderedOn

LEMMA RequestedKnows ==
  ASSUME Inductive, QueueRules, ConflictRules, EditRules, NEW op \in Requested, op.id \in Edits,
         op.e \in Notes, ~Known(op), NEW x \in Apart(op.e), x \in op.content
  PROVE  x = op.id
<1>1. PICK d \in Devices :
        /\ op.id \in Pending(outbox[d], op.e) /\ outbox[d][op.id].op = op
        /\ Earlier(outbox[d], op.id) = {} /\ marker[d][op.e] = None
  BY RequestedFirst
<1>2. QueueApart(d, op.e, x) /\ x \in Edits
  BY DEF EditRules, EditsApart, DeviceApart, Apart
<1>. QED BY <1>1, <1>2, FirstKnows

\* What waits behind a conflict has not been requested.
LEMMA BehindUnrequested ==
  ASSUME Inductive, QueueRules, NEW d \in Devices, NEW e \in Notes, marker[d][e] # None,
         NEW x \in Pending(outbox[d], e), NEW op \in Requested
  PROVE  op.id # x
<1> SUFFICES ASSUME op.id = x PROVE FALSE
  OBVIOUS
<1>1. x \in Edits /\ outbox[d][x] # None /\ outbox[d][x].op.e = e
  BY DEF Pending
<1>2. outbox[d][x].op = op
  BY <1>1, Parts DEF Holds, OperationsOn
<1>. QED BY <1>1, <1>2 DEF QueueRules, OnlyFirstRequested

\* An edit that is applied stops being apart, as does one whose copy a
\* decision takes, or that waits behind it.
LEMMA AppliedKeepsApart ==
  ASSUME Inductive, TypeOK', QueueRules, ConflictRules, EditRules,
         NEW ops, ops \subseteq Requested, ops \subseteq Operations, Refusal(ops) = None, Apply(ops),
         UNCHANGED <<outbox, local, marker, preview, fresh>>, \A s \in late' : s \in late,
         \A d \in Devices :
           /\ sync'[d].ops = sync[d].ops
           /\ sync'[d] = sync[d] \/ sync'[d].snapshot = None
  PROVE  EditRules'
<1> DEFINE Copy(op) == [id |-> op.id, e |-> op.e, content |-> op.content, rev |-> 1]
<1>0. TypeOK /\ Shared
  BY Parts
<1>1. /\ \A op \in ops : receipts'[op.id] # None
      /\ \A i \in Edits \cup Resolutions :
           /\ receipts[i] # None => receipts'[i] = receipts[i]
           /\ receipts'[i] # None => receipts[i] # None \/ \E op \in ops : op.id = i
      /\ \A e \in Entities :
           \/ history'[e] = history[e]
           \/ \E op \in ops : op.e = e /\ Writes(op) /\ history'[e] = Append(history[e], op.content)
      /\ copies' = {c \in copies : \A op \in ops : Known(op) \/ c.id # op.copy}
           \cup {Copy(op) : op \in {o \in ops : Conflicts(o)}}
  BY <1>0, ApplyEffect DEF QueueRules
<1>2. \A op \in ops : op.id \in Edits \cup Resolutions /\ op.e \in Entities
  BY DEF Operations
<1>3. \A op \in ops : ~Known(op) /\ op.id \in Resolutions => Timely(op)
  BY NoneAssumption DEF Refusal, Refusals, Timely, Compared
<1>4. \A op : Copy(op).id = op.id /\ Copy(op).e = op.e /\ Copy(op).content = op.content
  OBVIOUS
<1>5. ASSUME NEW c \in copies'
      PROVE  \/ c \in copies /\ \A op \in ops : Known(op) \/ c.id # op.copy
             \/ \E op \in ops : Conflicts(op) /\ c = Copy(op)
  BY <1>1, <1>5
<1> HIDE DEF Copy
<1>6. \A op \in ops : Conflicts(op) => op.id \in Edits /\ ~Known(op)
  BY <1>2 DEF Conflicts
<1>7. Requested' \subseteq Requested
  BY <1>0, AppliedRequests
<1>8. Steady
  BY <1>0, AppliedSteady DEF QueueRules
<1>9. \A c \in copies : c.id \in Edits /\ receipts[c.id] # None
  BY <1>0 DEF ConflictRules, CopiesHold, TypeOK, Copies
\* A copy that is there cannot be of an answered edit and be new.
<1>10. ASSUME NEW c \in copies', receipts[c.id] # None
       PROVE  c \in copies /\ \A op \in ops : Known(op) \/ c.id # op.copy
  BY <1>4, <1>5, <1>6, <1>10 DEF Known
<1>11. DecidedGone'
  <2> SUFFICES ASSUME NEW op \in Requested, op.id \in Resolutions, op.e \in Notes, Known(op)',
                      NEW c \in copies', c.id = op.copy
               PROVE  FALSE
    BY <1>7 DEF DecidedGone
  <2>1. receipts[c.id] # None
    BY DEF ConflictRules, NoteDecisions, SeenBy, Seen, Settled
  <2>2. c \in copies /\ \A o \in ops : Known(o) \/ c.id # o.copy
    BY <1>10, <2>1
  <2>3. ~Known(op)
    BY <2>2 DEF EditRules, DecidedGone
  <2>4. PICK o \in ops : o.id = op.id
    BY <1>1, <2>3 DEF Known
  <2>5. o = op
    BY <2>4 DEF QueueRules, RequestsAgree
  <2>. QED BY <2>2, <2>3, <2>4, <2>5
<1>12. ASSUME NEW e \in Notes PROVE Apart(e)' \subseteq Apart(e)
  <2> SUFFICES ASSUME NEW x \in Apart(e)' PROVE x \in Apart(e)
    OBVIOUS
  <2>1. x \in Edits
    BY DEF Apart
  <2>2. CASE x \in fresh
    BY <2>1, <2>2 DEF Apart
  <2>3. CASE Waits(e, x)'
    <3>1. PICK d \in Devices : x \in Pending(outbox[d], e) /\ ~(Superseded(d, e, x)')
      BY <2>3 DEF Waits
    <3>2. Decides(d, e) => Chosen(d, e).id \in Edits \cup Resolutions
      BY <1>0, Typed DEF Decides, Chosen, Markers, ResolutionRecords, Operations, Notes
    <3>3. ~Superseded(d, e, x)
      BY <1>1, <3>1, <3>2 DEF Superseded, Decides, Chosen
    <3>4. receipts[x] = None
      BY <1>1, <2>1, <2>3 DEF Waits
    <3>. QED BY <2>1, <3>1, <3>3, <3>4 DEF Apart, Waits
  <2>4. CASE Lives(e, x)'
    <3>1. PICK c \in copies' : c.id = x /\ c.e = e
      BY <2>4 DEF Lives
    <3>2. CASE c \in copies
      BY <2>1, <3>1, <3>2 DEF Apart, Lives
    <3>3. ASSUME NEW op \in ops, Conflicts(op), c = Copy(op) PROVE x \in Apart(e)
      <4>1. op.id = x /\ op.e = e /\ ~Known(op) /\ op \in Requested
        BY <1>4, <1>6, <3>1, <3>3
      <4>2. PICK d \in Devices : x \in Pending(outbox[d], e) /\ marker[d][e] = None
        BY <2>1, <4>1, RequestedFirst
      <4>. QED BY <2>1, <4>1, <4>2 DEF Apart, Waits, Superseded, Decides, Known
    <3>. QED BY <1>5, <3>2, <3>3
  <2>. QED BY <2>2, <2>3, <2>4 DEF Apart
\* What is still apart is not in what is applied ...
<1>13. ASSUME NEW e \in Notes, NEW x \in Apart(e)', NEW op \in ops, op.e = e, Writes(op)
       PROVE  x \notin op.content
  <2> SUFFICES ASSUME x \in op.content PROVE FALSE
    OBVIOUS
  <2>1. x \in Apart(e) /\ x \in Edits /\ op \in Requested /\ ~Known(op) /\ ~Conflicts(op)
    BY <1>12, <1>13 DEF Apart, Writes
  <2>2. CASE op.id \in Edits
    <3>1. x = op.id
      BY <1>13, <2>1, <2>2, RequestedKnows
    <3>2. receipts'[x] # None /\ receipts[x] = None /\ x \notin fresh
      BY <1>0, <1>1, <2>1, <2>2, <3>1 DEF Known, Shared
    <3>3. PICK c \in copies' : c.id = x
      BY <3>2 DEF Apart, Waits, Lives
    <3>4. PICK o \in ops : Conflicts(o) /\ c = Copy(o)
      BY <1>5, <1>9, <3>2, <3>3
    <3>5. o = op
      BY <1>4, <3>1, <3>3, <3>4 DEF QueueRules, RequestsAgree
    <3>. QED BY <2>1, <3>4, <3>5
  <2>3. CASE op.id \in Resolutions
    <3>1. Timely(op)
      BY <1>3, <2>1, <2>3
    <3>2. RequestsApart(e, x)
      BY <2>1 DEF EditRules, EditsApart
    <3>3. CASE op.copy = x
      <4>1. receipts[x] # None
        BY <1>13, <2>1, <2>3, <3>3 DEF ConflictRules, NoteDecisions, SeenBy, Seen, Settled
      <4>2. x \notin fresh /\ receipts'[x] # None
        BY <1>1, <2>1, <4>1, ApartMade
      <4>3. PICK c \in copies' : c.id = x
        BY <4>2 DEF Apart, Waits, Lives
      <4>. QED BY <1>10, <2>1, <3>3, <4>1, <4>3
    <3>4. ASSUME NEW d \in Devices, Keeps(d, op), x \in marker[d][e].resolution.supersedes PROVE FALSE
      <4>1. Decides(d, e) /\ Chosen(d, e) = op /\ x \in Pending(outbox[d], e)
        BY <1>13, <3>4 DEF ConflictRules, NoteMarkers, Keeps, Decides
      <4>2. \A o \in Requested : o.id # x
        BY <4>1, BehindUnrequested DEF Decides
      <4>3. receipts[x] = None
        BY <2>1, <4>1, <4>2, AnsweredAsQueued DEF Pending
      <4>4. receipts'[x] = None /\ x \notin fresh
        BY <1>1, <2>1, <4>1, <4>2, <4>3, ApartMade DEF Pending
      <4>5. \A c \in copies' : c.id # x
        <5>1. \A o \in ops : o.id # x
          BY <4>2
        <5>. QED BY <1>4, <1>5, <1>9, <4>3, <5>1
      <4>6. PICK o \in Devices : x \in Pending(outbox[o], e) /\ ~(Superseded(o, e, x)')
        BY <4>4, <4>5 DEF Apart, Waits, Lives
      <4>7. o = d
        BY <1>0, <4>1, <4>6 DEF Shared, Pending
      <4>8. receipts'[op.id] # None
        BY <1>1
      <4>. QED BY <3>4, <4>1, <4>6, <4>7, <4>8 DEF Superseded, Decides, Chosen
    <3>. QED BY <1>13, <2>1, <2>3, <3>1, <3>2, <3>3, <3>4 DEF RequestsApart
  <2>. QED BY <1>2, <2>2, <2>3
\* ... and not in what is copied but for itself.
<1>14. ASSUME NEW e \in Notes, NEW x \in Apart(e)' PROVE ServerApart(e, x)'
  <2>1. x \in Apart(e) /\ e \in Entities
    BY <1>12 DEF Notes
  <2>2. ServerApart(e, x)
    BY <2>1 DEF EditRules, EditsApart
  <2>3. \A i \in DOMAIN history'[e] : x \notin history'[e][i]
    <3>1. CASE history'[e] = history[e]
      BY <2>2, <3>1 DEF ServerApart
    <3>2. ASSUME NEW op \in ops, op.e = e, Writes(op), history'[e] = Append(history[e], op.content)
          PROVE  \A i \in DOMAIN history'[e] : x \notin history'[e][i]
      <4>1. x \notin op.content
        BY <1>13, <3>2
      <4>2. history[e] \in Seq(SUBSET Edits)
        BY <1>0, <2>1 DEF TypeOK
      <4>. QED BY <2>2, <3>2, <4>1, <4>2 DEF ServerApart
    <3>. QED BY <1>1, <2>1, <3>1, <3>2
  <2>4. ASSUME NEW c \in copies', c.e = e, x \in c.content PROVE c.id = x
    <3>1. CASE c \in copies
      BY <2>2, <2>4, <3>1 DEF ServerApart
    <3>2. ASSUME NEW op \in ops, Conflicts(op), c = Copy(op) PROVE c.id = x
      BY <1>4, <1>6, <2>1, <2>4, <3>2, RequestedKnows
    <3>. QED BY <1>5, <3>1, <3>2
  <2>. QED BY <2>3, <2>4 DEF ServerApart
<1>. QED BY <1>7, <1>8, <1>11, <1>12, <1>14, ServerFrame

LEMMA ServeKeepsApart ==
  ASSUME Inductive, TypeOK', QueueRules, ConflictRules, EditRules, NEW d \in Devices, Serve(d)
  PROVE  EditRules'
<1>0. TypeOK
  BY Parts
<1>1. /\ Alone(d) /\ sync'[d].ops = sync[d].ops /\ sync'[d].snapshot = None
      /\ UNCHANGED <<late, outbox, local, marker, preview, fresh>>
      /\ \/ UNCHANGED <<history, copies, receipts>>
         \/ Refusal(sync[d].ops) = None /\ Apply(sync[d].ops)
  BY <1>0, ServeEffect
<1>2. \A o \in Devices : sync'[o].ops = sync[o].ops /\ (sync'[o] = sync[o] \/ sync'[o].snapshot = None)
  BY <1>1 DEF Alone
<1>3. CASE UNCHANGED <<history, copies, receipts>>
  <2>1. Requested' \subseteq Requested
    BY <1>1, <1>2, <1>3, NothingRequested
  <2>2. SnapshotsTrue'
    BY <1>2, SnapshotsStay
  <2>. QED BY <1>1, <1>3, <2>1, <2>2, StillApart DEF SameQueue
<1>4. CASE Refusal(sync[d].ops) = None /\ Apply(sync[d].ops)
  <2>1. sync[d].ops \subseteq Requested /\ sync[d].ops \subseteq Operations
    BY <1>0, Typed DEF Requested, Syncs
  <2>. QED BY <1>1, <1>2, <1>4, <2>1, AppliedKeepsApart
<1>. QED BY <1>1, <1>3, <1>4

LEMMA ServeLateKeepsApart ==
  ASSUME Inductive, TypeOK', QueueRules, ConflictRules, EditRules, NEW ops \in late, ServeLate(ops)
  PROVE  EditRules'
<1>0. TypeOK
  BY Parts
<1>1. /\ late' = late \ {ops} /\ UNCHANGED <<outbox, local, marker, preview, sync, fresh>>
      /\ UNCHANGED <<history, copies, receipts>> \/ (Refusal(ops) = None /\ Apply(ops))
  BY DEF ServeLate, device, server
<1>2. CASE UNCHANGED <<history, copies, receipts>>
  <2>1. Requested' \subseteq Requested
    BY <1>1, <1>2, NothingRequested
  <2>2. DecidedGone' /\ \A e \in Notes : Apart(e)' \subseteq Apart(e)
    BY <1>1, <1>2, <2>1, NothingAnswered
  <2>3. \A e \in Notes : \A x \in Apart(e)' : ServerApart(e, x)'
    BY <1>2, <2>2 DEF EditRules, EditsApart, ServerApart
  <2>4. StillServer
    BY <1>0, <1>2, HistoryStays, GrowsStill
  <2>5. Steady
    BY <1>0, <1>1, <2>4, StillSteady DEF OldQueue
  <2>. QED BY <1>1, <2>1, <2>2, <2>3, <2>5, ServerFrame
<1>3. CASE Refusal(ops) = None /\ Apply(ops)
  <2>1. ops \subseteq Requested
    BY DEF Requested
  <2>2. ops \subseteq Operations
    BY <1>0 DEF TypeOK
  <2>. QED BY <1>1, <1>3, <2>1, <2>2, AppliedKeepsApart
<1>. QED BY <1>1, <1>2, <1>3


-----------------------------------------------------------------------------
(* Steps of a device that change its tables. *)

\* A step that leaves queue, conflicts and requests.
LEMMA LeavesConflicts ==
  ASSUME EditRules, NEW d \in Devices, Alone(d), UNCHANGED <<copies, receipts, outbox, marker>>,
         fresh' \subseteq fresh
  PROVE  /\ \A e \in Notes : Apart(e)' \subseteq Apart(e)
         /\ \A o \in Devices, op \in Requested' :
              op.id \in Resolutions /\ op.e \in Notes /\ ~Known(op) /\ Timely(op) /\ Keeps(o, op) =>
                /\ Keeps(o, op)'
                /\ marker'[o][op.e].resolution.supersedes = marker[o][op.e].resolution.supersedes
<1>1. \A e \in Notes : Apart(e)' \subseteq Apart(e)
  BY ApartShrinks DEF Superseded, Decides, Chosen
<1>2. \A o \in Devices, op \in Requested' :
        op.id \in Resolutions /\ op.e \in Notes /\ ~Known(op) /\ Timely(op) /\ Keeps(o, op) =>
          /\ Keeps(o, op)'
          /\ marker'[o][op.e].resolution.supersedes = marker[o][op.e].resolution.supersedes
  BY DEF Keeps, Decides, Chosen
<1>. QED BY <1>1, <1>2

\* A downloaded version knows nothing that is apart.
LEMMA DownloadKeepsApart ==
  ASSUME Inductive, QueueRules, ConflictRules, EditRules, NEW d \in Devices, Download(d)
  PROVE  EditRules'
<1>0. TypeOK
  BY Parts
<1>1. /\ Alone(d) /\ UNCHANGED <<history, copies, receipts, late, outbox, marker, preview, sync, fresh>>
      /\ \A e \in Entities :
           \/ local'[d][e] = local[d][e]
           \/ local'[d][e] = NoRow
           \/ \E i \in DOMAIN history[e] : local'[d][e].content = history[e][i]
  BY <1>0, DownloadEffect
<1>2. Requested' \subseteq Requested
  BY <1>1, NothingRequested
<1>3. SnapshotsTrue'
  BY <1>1, SnapshotsStay
<1>4. ASSUME NEW e \in Notes, NEW x \in Apart(e), DeviceApart(d, e, x) PROVE DeviceApart(d, e, x)'
  <2>1. ServerApart(e, x) /\ e \in Entities
    BY DEF EditRules, EditsApart, Notes
  <2>2. LocalApart(d, e, x)'
    BY <1>1, <1>4, <2>1 DEF ServerApart, LocalApart, DeviceApart, Behind, NoRow, Row
  <2>. QED BY <1>1, <1>4, <2>2
           DEF DeviceApart, QueueApart, MarkerApart, DecisionApart, PreviewApart, Behind, Decides, Chosen,
               Pending
<1>. QED BY <1>1, <1>2, <1>3, <1>4, LeavesConflicts, DeviceFrame

\* A comparison shows the copy of the conflict, and edits that wait.
LEMMA CompareKeepsApart ==
  ASSUME Inductive, QueueRules, ConflictRules, EditRules, NEW d \in Devices, NEW n \in Entities,
         Compare(d, n)
  PROVE  EditRules'
<1>0. TypeOK
  BY Parts
<1>1. /\ Alone(d) /\ marker[d][n] # None
      /\ UNCHANGED <<history, copies, receipts, late, outbox, local, marker, sync, fresh>>
  BY <1>0, CompareEffect
<1>2. PICK c \in copies :
        /\ c.id = marker[d][n].copy
        /\ preview'[d].e = n /\ preview'[d].marker = marker[d][n]
        /\ preview'[d].pending = Pending(outbox[d], n)
        /\ preview'[d].content = Content(n) \cup c.content \cup
             (IF Pending(outbox[d], n) = {} THEN marker[d][n].content
              ELSE LatestContent(outbox[d], Pending(outbox[d], n)))
  BY <1>0, CompareEffect
<1>3. Requested' \subseteq Requested
  BY <1>1, NothingRequested
<1>4. SnapshotsTrue'
  BY <1>1, SnapshotsStay
<1>5. ASSUME NEW e \in Notes, NEW x \in Apart(e), DeviceApart(d, e, x) PROVE DeviceApart(d, e, x)'
  <2>1. ServerApart(e, x) /\ e \in Entities /\ history[e] \in Seq(SUBSET Edits)
    BY <1>0 DEF EditRules, EditsApart, Notes, TypeOK
  <2>2. ASSUME e = n, x \in preview'[d].content
        PROVE  preview'[d].marker.copy = x \/ x \in preview'[d].pending
    <3>1. CASE x \in Content(n)
      BY <2>1, <2>2, <3>1 DEF ServerApart, Content, Revision
    <3>2. CASE x \in c.content
      <4>1. c.e = n
        BY <1>1, <1>2, <2>2 DEF ConflictRules, CopiesHold, NoteMarkers, Settled
      <4>. QED BY <1>2, <2>1, <2>2, <3>2, <4>1 DEF ServerApart
    <3>3. CASE Pending(outbox[d], n) = {} /\ x \in marker[d][n].content
      BY <1>1, <1>2, <1>5, <2>2, <3>3 DEF DeviceApart, MarkerApart, Behind
    <3>4. CASE x \in LatestContent(outbox[d], Pending(outbox[d], n))
      <4>1. PICK y \in Pending(outbox[d], n) : x \in outbox[d][y].op.content
        BY <3>4 DEF LatestContent
      <4>. QED BY <1>1, <1>2, <1>5, <2>2, <4>1 DEF DeviceApart, QueueApart, Behind
    <3>. QED BY <1>2, <2>2, <3>1, <3>2, <3>3, <3>4
  <2>3. PreviewApart(d, e, x)'
    BY <1>2, <2>2 DEF PreviewApart
  <2>. QED BY <1>1, <1>5, <2>3
           DEF DeviceApart, LocalApart, QueueApart, MarkerApart, DecisionApart, Behind, Decides, Chosen,
               Pending
<1>. QED BY <1>1, <1>3, <1>4, <1>5, LeavesConflicts, DeviceFrame

\* A new edit waits; the working copy it is made in knows edits that wait.
LEMMA LocalEditKeepsApart ==
  ASSUME Inductive, QueueRules, ConflictRules, EditRules, NEW d \in Devices, NEW n \in Entities,
         NEW z \in Edits, LocalEdit(d, n, z)
  PROVE  EditRules'
<1>0. TypeOK /\ OrderedOn(d) /\ ResolutionsOn(d)
  BY Parts DEF Holds
<1>1. /\ z \in fresh /\ fresh' = fresh \ {z} /\ Alone(d)
      /\ UNCHANGED <<history, copies, receipts, late, marker, preview, sync>>
      /\ \A m \in Entities \ {n} : local'[d][m] = local[d][m]
      /\ local'[d][n].content = local[d][n].content \cup {z}
      /\ \A y \in Edits \ {z} : outbox'[d][y] = outbox[d][y]
      /\ outbox'[d][z] # None /\ outbox'[d][z].op.e = n
      /\ outbox'[d][z].op.base = local[d][n].rev
      /\ outbox'[d][z].op.content = local[d][n].content \cup {z}
  BY <1>0, LocalEditEffect
<1>2. outbox[d][z] = None
  BY <1>1, ApartMade
<1>3. \A e : Pending(outbox'[d], e) = IF e = n THEN Pending(outbox[d], e) \cup {z} ELSE Pending(outbox[d], e)
  BY <1>1, <1>2 DEF Pending
<1>4. \A o \in Devices : o # d => outbox'[o] = outbox[o]
  BY <1>1 DEF Alone
<1>5. Requested' \subseteq Requested
  BY <1>1, NothingRequested
<1>6. SnapshotsTrue'
  BY <1>1, SnapshotsStay
<1>7. ASSUME NEW e \in Notes PROVE Apart(e)' \subseteq Apart(e)
  <2> SUFFICES ASSUME NEW x \in Apart(e)', x # z PROVE x \in Apart(e)
    BY <1>1 DEF Apart
  <2>1. \A o \in Devices : x \in Pending(outbox'[o], e) <=> x \in Pending(outbox[o], e)
    BY <1>3, <1>4
  <2>2. \A o \in Devices : Superseded(o, e, x)' <=> Superseded(o, e, x)
    BY <1>1 DEF Superseded, Decides, Chosen
  <2>3. Waits(e, x)' <=> Waits(e, x)
    BY <1>1, <2>1, <2>2 DEF Waits
  <2>. QED BY <1>1, <2>3 DEF Apart, Lives
<1>8. ASSUME NEW e \in Notes, NEW x \in Apart(e), DeviceApart(d, e, x) PROVE DeviceApart(d, e, x)'
  <2>1. e \in Entities /\ x \in Edits
    BY DEF Notes, Apart
  <2>2. LocalApart(d, e, x)'
    BY <1>1, <1>8, <2>1 DEF DeviceApart, LocalApart, Behind
  <2>3. QueueApart(d, e, x)'
    <3> SUFFICES ASSUME NEW y \in Pending(outbox'[d], e), x \in outbox'[d][y].op.content,
                        ~Behind(d, e, x)
                 PROVE  x \in Pending(outbox'[d], e) /\ outbox'[d][x].op.base <= outbox'[d][y].op.base
      BY <1>1 DEF QueueApart, Behind
    <3>1. CASE y # z
      <4>1. y \in Pending(outbox[d], e) /\ outbox'[d][y] = outbox[d][y]
        BY <1>1, <1>3, <3>1 DEF Pending
      <4>2. x \in Pending(outbox[d], e) /\ outbox[d][x].op.base <= outbox[d][y].op.base
        BY <1>8, <4>1 DEF DeviceApart, QueueApart
      <4>3. x # z
        BY <1>2, <4>2 DEF Pending
      <4>. QED BY <1>1, <1>3, <2>1, <4>1, <4>2, <4>3
    <3>2. CASE y = z
      <4>1. e = n
        BY <1>1, <3>2 DEF Pending
      <4>2. CASE x = z
        <5>1. local[d][n].rev \in Nat
          BY <1>0, Typed DEF Rows
        <5>. QED BY <1>1, <3>2, <4>2, <5>1
      <4>3. CASE x # z
        <5>1. x \in local[d][n].content
          BY <1>1, <3>2, <4>3
        <5>2. outbox[d][x] # None
          BY <1>8, <4>1, <5>1 DEF DeviceApart, LocalApart
        <5>3. x \in Pending(outbox[d], e)
          BY <5>2, ApartPending
        <5>4. outbox[d][x].op.base < local[d][n].rev /\ outbox[d][x].op.base \in Nat
              /\ local[d][n].rev \in Nat
          BY <1>0, <2>1, <4>1, <5>3, Typed DEF OrderedOn, Pending, Queued, Operations, Rows
        <5>5. outbox'[d][x] = outbox[d][x] /\ x \in Pending(outbox'[d], e)
          BY <1>1, <1>3, <2>1, <4>3, <5>3
        <5>6. outbox'[d][y].op.base = local[d][n].rev
          BY <1>1, <3>2
        <5>. QED BY <5>4, <5>5, <5>6
      <4>. QED BY <4>2, <4>3
    <3>. QED BY <3>1, <3>2
  <2>. QED BY <1>1, <1>8, <2>2, <2>3
           DEF DeviceApart, MarkerApart, DecisionApart, PreviewApart, Behind, Decides, Chosen
<1>9. \A o \in Devices, op \in Requested' :
        op.id \in Resolutions /\ op.e \in Notes /\ ~Known(op) /\ Timely(op) /\ Keeps(o, op) =>
          /\ Keeps(o, op)'
          /\ marker'[o][op.e].resolution.supersedes = marker[o][op.e].resolution.supersedes
  BY <1>1 DEF Keeps, Decides, Chosen
<1>. QED BY <1>1, <1>5, <1>6, <1>7, <1>8, <1>9, DeviceFrame


\* A decision is stored with what the comparison showed; it replaces none
\* that was applied, as an applied one is never called stale.
LEMMA PrepareKeepsApart ==
  ASSUME Inductive, QueueRules, ConflictRules, EditRules, NEW d \in Devices, NEW r \in Resolutions,
         NEW keep \in BOOLEAN, Prepare(d, r, keep)
  PROVE  EditRules'
<1> DEFINE p == preview[d]
<1>0. TypeOK /\ Shared /\ ResolutionsOn(d)
  BY Parts DEF Holds
<1>1. /\ r \in fresh /\ fresh' = fresh \ {r} /\ Alone(d)
      /\ p # None /\ p \in Previews /\ preview'[d] = None
      /\ marker[d][p.e] = p.marker /\ Pending(outbox[d], p.e) = p.pending
      /\ \A n \in Entities \ {p.e} : marker'[d][n] = marker[d][n]
      /\ marker'[d][p.e] # None /\ marker'[d][p.e].resolution # None
      /\ marker'[d][p.e].copy = p.marker.copy
      /\ marker'[d][p.e].content = p.marker.content
      /\ marker'[d][p.e].resolution.supersedes = p.pending
      /\ marker'[d][p.e].resolution.op.id = r
      /\ marker'[d][p.e].resolution.op.content = p.content
      /\ UNCHANGED <<history, copies, receipts, late, outbox, local, sync>>
  BY <1>0, PrepareEffect
<1>2. p = preview[d] /\ p.e \in Entities /\ p.marker \in Markers
  BY <1>1 DEF Previews
<1> HIDE DEF p
\* What the decision replaces has not been applied.
<1>3. /\ marker[d][p.e] # None
      /\ Decides(d, p.e) => marker[d][p.e].resolution.stale
  BY <1>0, <1>1, <1>2, NoneAssumption DEF ResolutionsOn, Undecided, Decides
<1>4. Decides(d, p.e) /\ p.e \in Notes => receipts[Chosen(d, p.e).id] = None
  <2> SUFFICES ASSUME Decides(d, p.e), p.e \in Notes, receipts[Chosen(d, p.e).id] # None PROVE FALSE
    OBVIOUS
  <2>1. Chosen(d, p.e) \in Requested /\ Known(Chosen(d, p.e))
    BY <1>2, KnownRequested
  <2>2. Chosen(d, p.e).id \in Resolutions /\ Chosen(d, p.e).e = p.e
    BY <1>0, <1>2 DEF ResolutionsOn, Decides, Chosen
  <2>3. Chosen(d, p.e).copy = marker[d][p.e].copy
    BY DEF ConflictRules, NoteMarkers, Decides
  <2>4. Keeps(d, Chosen(d, p.e))
    BY <1>3, <2>1, <2>2, <2>3 DEF ConflictRules, DecisionsSettle
  <2>. QED BY <1>3, <2>2, <2>4 DEF Keeps
<1>5. \A o \in Devices, n \in Notes : marker'[o][n] # marker[o][n] => o = d /\ n = p.e
  BY <1>1 DEF Alone, Notes
<1>6. ASSUME NEW e \in Notes PROVE Apart(e)' \subseteq Apart(e)
  <2>1. ASSUME NEW o \in Devices, NEW x, Superseded(o, e, x)
        PROVE  Superseded(o, e, x)'
    <3>1. marker'[o][e] = marker[o][e]
      BY <1>4, <1>5, <2>1 DEF Superseded
    <3>. QED BY <1>1, <2>1, <3>1 DEF Superseded, Decides, Chosen
  <2>2. fresh' \subseteq fresh
    BY <1>1
  <2>. QED BY <1>1, <2>1, <2>2, ApartShrinks
<1>7. Requested' \subseteq Requested
  BY <1>1, NothingRequested
<1>8. SnapshotsTrue'
  BY <1>1, SnapshotsStay
<1>9. \A o \in Devices, op \in Requested' :
        op.id \in Resolutions /\ op.e \in Notes /\ ~Known(op) /\ Timely(op) /\ Keeps(o, op) =>
          /\ Keeps(o, op)'
          /\ marker'[o][op.e].resolution.supersedes = marker[o][op.e].resolution.supersedes
  BY <1>3, <1>5 DEF Keeps, Decides, Chosen
<1>10. ASSUME NEW e \in Notes, NEW x \in Apart(e), DeviceApart(d, e, x) PROVE DeviceApart(d, e, x)'
  <2>1. CASE e # p.e
    <3>1. marker'[d][e] = marker[d][e] /\ e \in Entities /\ x \in Edits
      BY <1>5, <2>1 DEF Notes, Apart
    <3>. QED BY <1>1, <1>10, <3>1, DeviceStays DEF SameQueue
  <2>2. CASE e = p.e
    <3>1. Behind(d, e, x)' <=> Behind(d, e, x)
      BY <1>1, <1>3, <2>2 DEF Behind
    <3>2. LocalApart(d, e, x)' /\ QueueApart(d, e, x)' /\ PreviewApart(d, e, x)'
      BY <1>1, <1>10, <3>1 DEF DeviceApart, LocalApart, QueueApart, PreviewApart
    <3>3. MarkerApart(d, e, x)'
      BY <1>1, <1>3, <1>10, <2>2, <3>1 DEF DeviceApart, MarkerApart
    <3>4. DecisionApart(d, e, x)'
      <4>1. Chosen(d, e)'.content = p.content
        BY <1>1, <2>2 DEF Chosen
      <4>2. x \in p.content => p.marker.copy = x \/ x \in p.pending
        BY <1>1, <1>2, <1>10, <2>2 DEF DeviceApart, PreviewApart
      <4>. QED BY <1>1, <2>2, <4>1, <4>2 DEF DecisionApart, Behind
    <3>. QED BY <3>2, <3>3, <3>4 DEF DeviceApart
  <2>. QED BY <2>1, <2>2
<1>. QED BY <1>1, <1>6, <1>7, <1>8, <1>9, <1>10, DeviceFrame

\* A decision that is called stale cannot be applied any more.
LEMMA FailedKeepsApart ==
  ASSUME Inductive, QueueRules, ConflictRules, EditRules, NEW d \in Devices, NEW code \in Errors,
         Failed(d, code), late' = late \/ late' = late \cup {sync[d].ops},
         code \in {"STALE", "CONFLICT"} => sync[d].stage = "refused"
  PROVE  EditRules'
<1>0. TypeOK /\ Holds(d)
  BY Parts
<1>1. /\ SameQueue(d) /\ Alone(d) /\ sync'[d] = Idle
      /\ UNCHANGED <<history, copies, receipts, local, preview, fresh>>
      /\ \A e \in Entities :
           \/ marker'[d][e] = marker[d][e]
           \/ /\ Resolving(d) /\ e = Resolution(d).e
              /\ Decides(d, e) /\ Decides(d, e)'
              /\ Chosen(d, e) = Resolution(d) /\ Chosen(d, e)' = Resolution(d)
              /\ marker'[d][e].copy = marker[d][e].copy
              /\ marker'[d][e].content = marker[d][e].content
              /\ marker'[d][e].resolution.supersedes = marker[d][e].resolution.supersedes
              /\ marker'[d][e].resolution.stale = (code \in {"STALE", "CONFLICT"})
  BY <1>0, FailedEffect DEF Holds
<1>2. Idle.ops = {} /\ Idle.snapshot = None
  BY DEF Idle, Request
<1>3. \A o \in Devices : /\ sync'[o].ops \subseteq sync[o].ops
                         /\ sync'[o] = sync[o] \/ sync'[o].snapshot = None
  BY <1>1, <1>2 DEF Alone
<1>4. Requested' \subseteq Requested
  BY <1>1, <1>3, NothingRequested
<1>5. SnapshotsTrue'
  BY <1>3, SnapshotsStay
\* But for being stale conflicts and decisions stay.
<1>6. ASSUME NEW o \in Devices, NEW e \in Notes
      PROVE  /\ marker'[o][e] # None <=> marker[o][e] # None
             /\ marker[o][e] # None =>
                  marker'[o][e].copy = marker[o][e].copy /\ marker'[o][e].content = marker[o][e].content
             /\ Decides(o, e)' <=> Decides(o, e)
             /\ Decides(o, e) =>
                  /\ Chosen(o, e)' = Chosen(o, e)
                  /\ marker'[o][e].resolution.supersedes = marker[o][e].resolution.supersedes
  <2>1. CASE marker'[o][e] = marker[o][e]
    BY <2>1 DEF Decides, Chosen
  <2>2. CASE marker'[o][e] # marker[o][e]
    <3>1. o = d
      BY <1>1, <2>2 DEF Alone
    <3>. QED BY <1>1, <2>2, <3>1 DEF Decides, Notes
  <2>. QED BY <2>1, <2>2
<1>7. ASSUME NEW e \in Notes PROVE Apart(e)' \subseteq Apart(e)
  <2>1. \A o \in Devices : SameQueue(o)
    BY <1>1 DEF Alone, SameQueue
  <2>2. \A o \in Devices : Pending(outbox'[o], e) = Pending(outbox[o], e)
    BY <2>1, SamePending
  <2>3. \A o \in Devices, x \in Edits : Superseded(o, e, x) => Superseded(o, e, x)'
    BY <1>1, <1>6 DEF Superseded
  <2>. QED BY <1>1, <2>2, <2>3, ApartShrinks DEF Pending
<1>8. ASSUME NEW o \in Devices, NEW op \in Requested', op.id \in Resolutions, op.e \in Notes,
             ~Known(op), Timely(op), Keeps(o, op)
      PROVE  /\ Keeps(o, op)'
             /\ marker'[o][op.e].resolution.supersedes = marker[o][op.e].resolution.supersedes
  <2>1. CASE marker'[o][op.e] = marker[o][op.e]
    BY <1>8, <2>1 DEF Keeps, Decides, Chosen
  <2>2. CASE marker'[o][op.e] # marker[o][op.e]
    <3>1. /\ o = d /\ Resolving(d) /\ op = Resolution(d)
          /\ marker'[d][op.e].resolution.stale = (code \in {"STALE", "CONFLICT"})
      BY <1>1, <1>8, <2>2 DEF Alone, Keeps, Notes
    <3>2. op \in sync[d].ops
      BY <3>1 DEF Resolving, Resolution
    <3>3. code \notin {"STALE", "CONFLICT"}
      BY <1>8, <3>2 DEF ConflictRules, RefusedLate
    <3>. QED BY <1>6, <1>8, <3>1, <3>3 DEF Keeps
  <2>. QED BY <2>1, <2>2
<1>9. ASSUME NEW e \in Notes, NEW x \in Apart(e), DeviceApart(d, e, x) PROVE DeviceApart(d, e, x)'
  <2>1. Behind(d, e, x)' <=> Behind(d, e, x)
    BY <1>6 DEF Behind
  <2>2. Pending(outbox'[d], e) = Pending(outbox[d], e) /\ x \in Edits /\ e \in Entities
    BY <1>1, SamePending DEF Apart, Notes
  <2>3. LocalApart(d, e, x)' /\ PreviewApart(d, e, x)'
    BY <1>1, <1>9, <2>1, <2>2 DEF DeviceApart, LocalApart, PreviewApart, SameQueue
  <2>4. QueueApart(d, e, x)'
    BY <1>1, <1>9, <2>1, <2>2 DEF DeviceApart, QueueApart, SameQueue, Pending
  <2>5. MarkerApart(d, e, x)' /\ DecisionApart(d, e, x)'
    BY <1>1, <1>6, <1>9, <2>1 DEF DeviceApart, MarkerApart, DecisionApart
  <2>. QED BY <2>3, <2>4, <2>5 DEF DeviceApart
<1>. QED BY <1>1, <1>4, <1>5, <1>7, <1>8, <1>9, DeviceFrame


\* The version that a device reads for its answer knows nothing that is apart.
LEMMA SnapshotKnows ==
  ASSUME Inductive, EditRules, NEW d \in Devices, sync[d].stage = "read",
         NEW e \in Notes, NEW x \in Apart(e)
  PROVE  x \notin sync[d].snapshot.rows[e].content
<1> DEFINE row == sync[d].snapshot.rows[e]
<1>1. TypeOK /\ RequestOn(d) /\ e \in Entities
  BY Parts DEF Holds, Notes
<1>2. sync[d].snapshot # None /\ True(row, e)
  BY <1>1 DEF RequestOn
<1>3. row.rev \in Nat
  BY <1>1, <1>2, Typed DEF Syncs, Snapshots, Rows
<1>4. CASE row.rev = 0
  BY <1>2, <1>4 DEF EditRules, SnapshotsTrue
<1>5. CASE row.rev > 0
  <2>1. row.rev <= Len(history[e]) /\ row.content = history[e][row.rev]
    BY <1>2, <1>5 DEF True, Revision
  <2>2. history[e] \in Seq(SUBSET Edits)
    BY <1>1 DEF TypeOK
  <2>3. row.rev \in DOMAIN history[e]
    BY <1>3, <1>5, <2>1, <2>2
  <2>. QED BY <2>1, <2>3 DEF EditRules, EditsApart, ServerApart
<1>. QED BY <1>3, <1>4, <1>5

\* An answered edit leaves the outbox: it is in the row, or its copy becomes
\* the conflict of its device.
LEMMA AcknowledgeKeepsApart ==
  ASSUME Inductive, QueueRules, ConflictRules, EditRules, NEW d \in Devices, Acknowledge(d)
  PROVE  EditRules'
<1> DEFINE done == {op.id : op \in sync[d].ops}
           lost == {a.op : a \in {b \in sync[d].answers : b.copied}}
<1>0. TypeOK /\ Shared /\ Holds(d) /\ OrderedOn(d) /\ OperationsOn(d) /\ RequestOn(d)
  BY Parts DEF Holds
<1>1. /\ Alone(d) /\ sync[d].stage = "read" /\ ~Resolving(d) /\ sync'[d] = Idle
      /\ UNCHANGED <<history, copies, receipts, late, preview, fresh>>
      /\ \A x \in Edits :
           /\ outbox'[d][x] # None <=> outbox[d][x] # None /\ x \notin done
           /\ outbox'[d][x] # None => outbox'[d][x].op = outbox[d][x].op
      /\ \A e \in Entities :
           local'[d][e] = IF Pending(outbox'[d], e) # {} THEN local[d][e]
                          ELSE sync[d].snapshot.rows[e]
  BY <1>0, AcknowledgeEffect
<1>2. \A n \in Entities :
        \/ marker'[d][n] = marker[d][n] /\ ~ \E op \in lost : op.e = n
        \/ \E op \in lost : /\ op.e = n /\ marker'[d][n] # None /\ marker'[d][n].copy = op.id
                            /\ marker'[d][n].content = op.content /\ marker'[d][n].resolution = None
  BY <1>0, AcknowledgeEffect
<1>3. \A op \in sync[d].ops : op \in Requested /\ op.id \in Edits /\ outbox[d][op.id] # None
                              /\ outbox[d][op.id].op = op
  <2>1. \A op \in sync[d].ops : op.id \in Edits \cup Resolutions /\ op.id \notin Resolutions
    BY <1>0, <1>1, Typed DEF Syncs, Operations, Resolving
  <2>. QED BY <1>0, <1>1, <2>1 DEF Requested, RequestOn, OperationsOn
<1>4. \A op \in lost : op \in sync[d].ops
  <2> SUFFICES ASSUME NEW a \in sync[d].answers, a.copied PROVE a.op \in sync[d].ops
    OBVIOUS
  <2>. QED BY <1>0, <1>1, LostRequested
<1>5. \A op \in sync[d].ops : receipts[op.id] # None /\ receipts[op.id] \in sync[d].answers
  BY <1>1 DEF QueueRules, AnswersHold, Known
<1>6. \A op \in sync[d].ops : receipts[op.id].copied /\ receipts[op.id].op = op => op \in lost
  BY <1>5
<1>7. \A x \in Edits : outbox[d][x] # None /\ outbox'[d][x] = None =>
        \E op \in sync[d].ops : op.id = x
  BY <1>1
<1> HIDE DEF lost, done
<1>8. Idle.ops = {} /\ Idle.snapshot = None
  BY DEF Idle, Request
<1>9. \A o \in Devices : /\ sync'[o].ops \subseteq sync[o].ops
                         /\ sync'[o] = sync[o] \/ sync'[o].snapshot = None
  BY <1>1, <1>8 DEF Alone
<1>10. Requested' \subseteq Requested
  BY <1>1, <1>9, NothingRequested
<1>11. SnapshotsTrue'
  BY <1>9, SnapshotsStay
\* A conflict is new, or as it was.
<1>12. ASSUME NEW o \in Devices, NEW n \in Notes, marker'[o][n] # marker[o][n]
       PROVE  /\ o = d /\ marker[d][n] = None
              /\ \E op \in lost : /\ op.e = n /\ marker'[d][n].copy = op.id
                                  /\ marker'[d][n].content = op.content
                                  /\ marker'[d][n].resolution = None
  <2>1. o = d
    BY <1>1, <1>12 DEF Alone
  <2>2. PICK op \in lost : /\ op.e = n /\ marker'[d][n].copy = op.id
                           /\ marker'[d][n].content = op.content
                           /\ marker'[d][n].resolution = None
    BY <1>2, <1>12, <2>1 DEF Notes
  <2>3. marker[d][n] = None
    BY <1>3, <1>4, <2>2 DEF QueueRules, OnlyFirstRequested
  <2>. QED BY <2>1, <2>2, <2>3
<1>13. ASSUME NEW e \in Notes PROVE Apart(e)' \subseteq Apart(e)
  <2>1. ASSUME NEW o \in Devices, NEW x \in Pending(outbox'[o], e)
        PROVE  x \in Pending(outbox[o], e)
    <3>1. CASE o = d
      BY <1>1, <2>1, <3>1 DEF Pending
    <3>2. CASE o # d
      BY <1>1, <2>1, <3>2 DEF Alone
    <3>. QED BY <3>1, <3>2
  <2>2. ASSUME NEW o \in Devices, NEW x, Superseded(o, e, x)
        PROVE  Superseded(o, e, x)'
    <3>1. marker'[o][e] = marker[o][e]
      BY <1>12, <2>2 DEF Superseded, Decides
    <3>. QED BY <1>1, <2>2, <3>1 DEF Superseded, Decides, Chosen
  <2>3. fresh' \subseteq fresh
    BY <1>1
  <2>. QED BY <1>1, <2>1, <2>2, <2>3, ApartShrinks
<1>14. \A o \in Devices, op \in Requested' :
         op.id \in Resolutions /\ op.e \in Notes /\ ~Known(op) /\ Timely(op) /\ Keeps(o, op) =>
           /\ Keeps(o, op)'
           /\ marker'[o][op.e].resolution.supersedes = marker[o][op.e].resolution.supersedes
  BY <1>12 DEF Keeps, Decides, Chosen
<1>15. ASSUME NEW e \in Notes, NEW x \in Apart(e), x \in Apart(e)', DeviceApart(d, e, x)
       PROVE  DeviceApart(d, e, x)'
  <2>0. e \in Entities /\ x \in Edits
    BY DEF Notes, Apart
\* What is still apart and no longer waits is the new conflict.
  <2>1. ASSUME outbox[d][x] # None, outbox'[d][x] = None PROVE Behind(d, e, x)'
    <3>1. PICK op \in sync[d].ops : op.id = x
      BY <1>7, <2>0, <2>1
    <3>2. receipts[x] # None /\ outbox[d][x].op = op
      BY <1>3, <1>5, <3>1
    <3>3. x \notin fresh
      BY <2>0, <3>2, ApartMade
    <3>4. Lives(e, x)
      BY <1>1, <1>15, <3>2, <3>3 DEF Apart, Waits, Lives
    <3>5. receipts[x].copied /\ receipts[x].op.e = e
      BY <3>4 DEF Lives, ConflictRules, CopiesHold
    <3>6. receipts[x].op = op
      BY <2>0, <2>1, <3>2, AnsweredAsQueued
    <3>7. op \in lost /\ op.e = e
      BY <1>6, <3>1, <3>5, <3>6
    <3>8. PICK o \in lost : o.e = e /\ marker'[d][e] # None /\ marker'[d][e].copy = o.id
      BY <1>2, <2>0, <3>7
    <3>9. /\ op \in Requested /\ op.id \in Edits /\ outbox[d][op.id] # None
          /\ o \in Requested /\ o.id \in Edits /\ outbox[d][o.id] # None
      BY <1>3, <1>4, <3>7, <3>8
    <3>10. o = op
      BY <1>0, <3>7, <3>8, <3>9, FirstIsOne
    <3>. QED BY <3>1, <3>8, <3>10 DEF Behind
  <2>2. Behind(d, e, x) => Behind(d, e, x)'
    BY <1>12 DEF Behind
  <2>3. LocalApart(d, e, x)'
    <3>1. x \notin sync[d].snapshot.rows[e].content
      BY <1>1, SnapshotKnows
    <3>2. x \in local'[d][e].content => x \in local[d][e].content
      BY <1>1, <2>0, <3>1
    <3>. QED BY <1>15, <2>1, <2>2, <3>2 DEF DeviceApart, LocalApart
  <2>4. QueueApart(d, e, x)'
    <3> SUFFICES ASSUME NEW y \in Pending(outbox'[d], e), x \in outbox'[d][y].op.content,
                        ~(Behind(d, e, x)')
                 PROVE  x \in Pending(outbox'[d], e) /\ outbox'[d][x].op.base <= outbox'[d][y].op.base
      BY DEF QueueApart
    <3>1. y \in Pending(outbox[d], e) /\ outbox'[d][y].op = outbox[d][y].op
      BY <1>1 DEF Pending
    <3>2. x \in Pending(outbox[d], e) /\ outbox[d][x].op.base <= outbox[d][y].op.base
      BY <1>15, <2>2, <3>1 DEF DeviceApart, QueueApart
    <3>3. outbox'[d][x] # None
      BY <2>1, <3>2 DEF Pending
    <3>. QED BY <1>1, <2>0, <3>1, <3>2, <3>3 DEF Pending
  <2>5. MarkerApart(d, e, x)'
    <3>1. CASE marker'[d][e] = marker[d][e]
      BY <1>15, <3>1 DEF DeviceApart, MarkerApart, Behind
    <3>2. CASE marker'[d][e] # marker[d][e]
      <4> SUFFICES ASSUME marker'[d][e] # None, x \in marker'[d][e].content
                   PROVE  Behind(d, e, x)'
        BY DEF MarkerApart
      <4>1. PICK op \in lost : /\ op.e = e /\ marker'[d][e].copy = op.id
                               /\ marker'[d][e].content = op.content
        BY <1>12, <3>2
      <4>2. op \in Requested /\ op.id \in Pending(outbox[d], e) /\ outbox[d][op.id].op = op
        BY <1>3, <1>4, <4>1 DEF Pending
      <4>3. Earlier(outbox[d], op.id) = {} /\ marker[d][e] = None
        BY <4>1, <4>2 DEF QueueRules, OnlyFirstRequested, Pending
      <4>4. QueueApart(d, e, x)
        BY <1>15 DEF DeviceApart
      <4>5. x = op.id
        BY <2>0, <4>1, <4>2, <4>3, <4>4, FirstKnows
      <4>. QED BY <4>1, <4>5 DEF Behind
    <3>. QED BY <3>1, <3>2
  <2>6. DecisionApart(d, e, x)'
    <3>1. Decides(d, e)' => marker'[d][e] = marker[d][e]
      BY <1>12 DEF Decides
    <3>. QED BY <1>1, <1>15, <3>1 DEF DeviceApart, DecisionApart, Behind, Decides, Chosen
  <2>7. PreviewApart(d, e, x)'
    BY <1>1, <1>15 DEF DeviceApart, PreviewApart
  <2>. QED BY <2>3, <2>4, <2>5, <2>6, <2>7 DEF DeviceApart
<1>. QED BY <1>1, <1>10, <1>11, <1>13, <1>14, <1>15, DeviceFrame

\* Once the answer of a decision is known, its copy is gone and what it takes
\* leaves the outbox; what is moved onto its version knows that version, and
\* what newer edits knew.
LEMMA FinishResolutionKeepsApart ==
  ASSUME Inductive, TypeOK', QueueRules, ConflictRules, EditRules, NEW d \in Devices,
         FinishResolution(d)
  PROVE  EditRules'
<1> DEFINE e == Resolution(d).e
           gone == marker[d][e].resolution.supersedes
           newer == Pending(outbox[d], e) \ gone
<1>0. TypeOK /\ Shared /\ OrderedOn(d) /\ OperationsOn(d) /\ ResolutionsOn(d) /\ RequestOn(d)
  BY Parts DEF Holds
<1>1. /\ Alone(d) /\ sync[d].stage = "read" /\ sync'[d] = Idle /\ e \in Entities
      /\ Resolution(d) \in sync[d].ops /\ Resolution(d).id \in Resolutions
      /\ Decides(d, e) /\ Chosen(d, e) = Resolution(d)
      /\ marker'[d][e] = None
      /\ UNCHANGED <<history, copies, receipts, late, preview, fresh>>
      /\ \A n \in Entities \ {e} : marker'[d][n] = marker[d][n]
      /\ \A n \in Entities \ {e} : local'[d][n] = local[d][n] \/ n \in Notebooks
  BY <1>0, FinishResolutionEffect
<1>2. \A x \in Edits :
        /\ x \in gone => outbox'[d][x] = None
        /\ x \notin gone =>
             /\ x \notin newer => outbox'[d][x] = outbox[d][x]
             /\ outbox'[d][x] # None <=> outbox[d][x] # None
  BY <1>0, FinishResolutionEffect
<1>3. \A x \in newer :
        /\ outbox'[d][x] # None /\ outbox'[d][x].op.e = e
        /\ \A z \in outbox'[d][x].op.content :
             \/ z \in sync[d].snapshot.rows[e].content
             \/ \E y \in newer : outbox[d][y].op.base <= outbox[d][x].op.base
                                 /\ z \in outbox[d][y].op.content
  BY <1>0, FinishResolutionEffect
<1>4. \A x, y \in newer : outbox[d][x].op.base < outbox[d][y].op.base =>
        outbox'[d][x].op.base < outbox'[d][y].op.base
  BY <1>0, FinishResolutionEffect
<1>5. \A z \in local'[d][e].content :
        \/ z \in sync[d].snapshot.rows[e].content
        \/ \E y \in newer : z \in outbox[d][y].op.content
  BY <1>0, FinishResolutionEffect
<1>6. \A x \in Edits : x \in gone /\ outbox[d][x] # None => outbox[d][x].op.e = e
  BY <1>0, <1>1 DEF ResolutionsOn, Decides
<1>7. e = Resolution(d).e /\ gone = marker[d][e].resolution.supersedes
      /\ newer = Pending(outbox[d], e) \ gone
  OBVIOUS
<1> HIDE DEF e, gone, newer
<1>8. ASSUME NEW x \in Edits, outbox[d][x] # None, outbox[d][x].op.e # e
      PROVE  outbox'[d][x] = outbox[d][x]
  <2>1. x \notin gone /\ x \notin newer
    BY <1>6, <1>7, <1>8 DEF Pending
  <2>. QED BY <1>2, <2>1
<1>9. ASSUME NEW n, NEW x \in Pending(outbox'[d], n)
      PROVE  /\ x \in Pending(outbox[d], n) /\ x \notin gone
             /\ n = e => x \in newer
             /\ n # e => outbox'[d][x] = outbox[d][x]
  <2>1. x \in Edits /\ outbox'[d][x] # None /\ outbox'[d][x].op.e = n
    BY <1>9 DEF Pending
  <2>2. x \notin gone
    BY <1>2, <2>1
  <2>3. CASE x \in newer
    BY <1>3, <1>7, <2>1, <2>2, <2>3 DEF Pending
  <2>4. CASE x \notin newer
    <3>1. outbox'[d][x] = outbox[d][x]
      BY <1>2, <2>1, <2>2, <2>4
    <3>2. x \in Pending(outbox[d], n)
      BY <2>1, <3>1 DEF Pending
    <3>. QED BY <1>7, <2>2, <2>4, <3>1, <3>2
  <2>. QED BY <2>3, <2>4
<1>10. Idle.ops = {} /\ Idle.snapshot = None
  BY DEF Idle, Request
<1>11. \A o \in Devices : /\ sync'[o].ops \subseteq sync[o].ops
                          /\ sync'[o] = sync[o] \/ sync'[o].snapshot = None
  BY <1>1, <1>10 DEF Alone
<1>12. Requested' \subseteq Requested
  BY <1>1, <1>11, NothingRequested
<1>13. SnapshotsTrue'
  BY <1>11, SnapshotsStay
<1>14. Known(Resolution(d)) /\ Resolution(d) \in Requested
  BY <1>1 DEF QueueRules, AnswersHold, Requested
\* Only the conflict of the decision ends.
<1>15. \A o \in Devices, n \in Notes :
         IF o = d /\ n = e THEN marker'[o][n] = None ELSE marker'[o][n] = marker[o][n]
  BY <1>1 DEF Alone, Notes
<1>16. ASSUME NEW n \in Notes PROVE Apart(n)' \subseteq Apart(n)
  <2>1. ASSUME NEW o \in Devices, NEW x \in Pending(outbox'[o], n)
        PROVE  x \in Pending(outbox[o], n) /\ (Superseded(o, n, x) => Superseded(o, n, x)')
    <3>1. CASE o = d /\ n = e
      BY <1>7, <1>9, <2>1, <3>1 DEF Superseded
    <3>2. CASE ~(o = d /\ n = e)
      <4>1. marker'[o][n] = marker[o][n]
        BY <1>15, <3>2
      <4>2. x \in Pending(outbox[o], n)
        BY <1>1, <1>9, <2>1 DEF Alone
      <4>. QED BY <1>1, <4>1, <4>2 DEF Superseded, Decides, Chosen
    <3>. QED BY <3>1, <3>2
  <2>2. fresh' \subseteq fresh
    BY <1>1
  <2>. QED BY <1>1, <2>1, <2>2, ApartShrinks
<1>17. ASSUME NEW o \in Devices, NEW op \in Requested', op.id \in Resolutions, op.e \in Notes,
              ~Known(op), Keeps(o, op)
       PROVE  /\ Keeps(o, op)'
              /\ marker'[o][op.e].resolution.supersedes = marker[o][op.e].resolution.supersedes
  <2>1. ~(o = d /\ op.e = e)
    BY <1>1, <1>14, <1>17 DEF Keeps
  <2>2. marker'[o][op.e] = marker[o][op.e]
    BY <1>15, <1>17, <2>1
  <2>. QED BY <1>17, <2>2 DEF Keeps, Decides, Chosen
<1>18. ASSUME NEW n \in Notes, NEW x \in Apart(n), DeviceApart(d, n, x) PROVE DeviceApart(d, n, x)'
  <2>0. n \in Entities /\ x \in Edits /\ n \notin Notebooks
    BY DEF Notes, Apart
  <2>1. PreviewApart(d, n, x)'
    BY <1>1, <1>18 DEF DeviceApart, PreviewApart
  <2>2. CASE n # e
    <3>1. marker'[d][n] = marker[d][n] /\ local'[d][n] = local[d][n]
      BY <1>1, <2>0, <2>2
    <3>2. outbox[d][x] # None => x \in Pending(outbox[d], n) /\ outbox'[d][x] = outbox[d][x]
      <4>1. outbox[d][x] # None => x \in Pending(outbox[d], n)
        BY ApartPending
      <4>. QED BY <1>8, <2>0, <2>2, <4>1 DEF Pending
    <3>3. LocalApart(d, n, x)'
      BY <1>18, <3>1, <3>2 DEF DeviceApart, LocalApart, Behind
    <3>4. QueueApart(d, n, x)'
      <4> SUFFICES ASSUME NEW y \in Pending(outbox'[d], n), x \in outbox'[d][y].op.content,
                          ~Behind(d, n, x)
                   PROVE  /\ x \in Pending(outbox'[d], n)
                          /\ outbox'[d][x].op.base <= outbox'[d][y].op.base
        BY <3>1 DEF QueueApart, Behind
      <4>1. y \in Pending(outbox[d], n) /\ outbox'[d][y] = outbox[d][y]
        BY <1>9, <2>2
      <4>2. x \in Pending(outbox[d], n) /\ outbox[d][x].op.base <= outbox[d][y].op.base
        BY <1>18, <4>1 DEF DeviceApart, QueueApart
      <4>. QED BY <3>2, <4>1, <4>2 DEF Pending
    <3>5. MarkerApart(d, n, x)' /\ DecisionApart(d, n, x)'
      BY <1>1, <1>18, <3>1 DEF DeviceApart, MarkerApart, DecisionApart, Behind, Decides, Chosen
    <3>. QED BY <2>1, <3>3, <3>4, <3>5 DEF DeviceApart
  <2>3. CASE n = e
    <3>1. ~Behind(d, e, x)
      <4> SUFFICES ASSUME Behind(d, e, x) PROVE FALSE
        OBVIOUS
      <4>1. Resolution(d).copy = x /\ receipts[x] # None
        BY <1>1, <2>3 DEF Behind, Decides, ConflictRules, NoteMarkers, Settled
      <4>2. x \notin fresh
        BY <2>0, <4>1, ApartMade
      <4>3. PICK c \in copies : c.id = x
        BY <4>1, <4>2 DEF Apart, Waits, Lives
      <4>. QED BY <1>1, <1>7, <1>14, <2>3, <4>1, <4>3 DEF EditRules, DecidedGone
    <3>2. x \notin gone
      <4> SUFFICES ASSUME x \in gone PROVE FALSE
        OBVIOUS
      <4>1. x \in Pending(outbox[d], e) /\ marker[d][e] # None
        BY <1>1, <1>7, <2>3 DEF Decides, ConflictRules, NoteMarkers
      <4>2. \A op \in Requested : op.id # x
        BY <2>3, <4>1, BehindUnrequested
      <4>3. receipts[x] = None
        BY <2>0, <4>1, <4>2, AnsweredAsQueued DEF Pending
      <4>4. x \notin fresh
        BY <2>0, <4>1, ApartMade DEF Pending
      <4>5. ~Lives(e, x)
        BY <4>3 DEF Lives, ConflictRules, CopiesHold
      <4>6. PICK o \in Devices : x \in Pending(outbox[o], e) /\ ~Superseded(o, e, x)
        BY <2>3, <4>4, <4>5 DEF Apart, Waits
      <4>7. o = d
        BY <1>0, <2>0, <4>1, <4>6 DEF Shared, Pending
      <4>. QED BY <1>1, <1>7, <1>14, <4>6, <4>7 DEF Superseded, Known
    <3>3. x \notin sync[d].snapshot.rows[e].content
      BY <1>1, <2>3, SnapshotKnows
    <3>4. ASSUME NEW y \in newer, x \in outbox[d][y].op.content
          PROVE  x \in newer /\ outbox[d][x].op.base <= outbox[d][y].op.base
      <4>1. y \in Pending(outbox[d], e)
        BY <1>7
      <4>2. x \in Pending(outbox[d], e) /\ outbox[d][x].op.base <= outbox[d][y].op.base
        BY <1>18, <2>3, <3>1, <3>4, <4>1 DEF DeviceApart, QueueApart
      <4>. QED BY <1>7, <3>2, <4>2
    <3>5. LocalApart(d, n, x)'
      BY <1>3, <1>5, <2>3, <3>3, <3>4 DEF LocalApart
    <3>6. QueueApart(d, n, x)'
      <4> SUFFICES ASSUME NEW y \in Pending(outbox'[d], e), x \in outbox'[d][y].op.content
                   PROVE  /\ x \in Pending(outbox'[d], e)
                          /\ outbox'[d][x].op.base <= outbox'[d][y].op.base
        BY <2>3 DEF QueueApart
      <4>1. y \in newer
        BY <1>9
      <4>2. PICK w \in newer : /\ outbox[d][w].op.base <= outbox[d][y].op.base
                               /\ x \in outbox[d][w].op.content
        BY <1>3, <3>3, <4>1
      <4>3. x \in newer /\ outbox[d][x].op.base <= outbox[d][w].op.base
        BY <3>4, <4>2
      <4>4. x \in Pending(outbox'[d], e)
        BY <1>3, <2>0, <4>3 DEF Pending
      <4>5. \A z \in newer : z \in Pending(outbox[d], e) /\ z \in Edits /\ outbox[d][z] # None
        BY <1>7 DEF Pending
      <4>6. \A z \in newer : outbox[d][z].op.base \in Nat
        BY <1>0, <4>5, Typed DEF Queued, Operations
      <4>7. outbox[d][x].op.base <= outbox[d][y].op.base
        BY <4>1, <4>2, <4>3, <4>6
      <4>8. \A z \in Pending(outbox'[d], e) : outbox'[d][z].op.base \in Nat
        <5>1. \A z \in Edits : outbox'[d][z] \in Queued \cup {None}
          BY DEF TypeOK
        <5>. QED BY <5>1 DEF Pending, Queued, Operations
      <4>9. CASE x = y
        BY <4>4, <4>8, <4>9
      <4>10. CASE x # y
        <5>1. outbox[d][x].op.base # outbox[d][y].op.base
          BY <1>0, <1>1, <4>1, <4>3, <4>5, <4>10 DEF OrderedOn
        <5>2. outbox[d][x].op.base < outbox[d][y].op.base
          BY <4>1, <4>3, <4>6, <4>7, <5>1
        <5>3. outbox'[d][x].op.base < outbox'[d][y].op.base
          BY <1>4, <4>1, <4>3, <5>2
        <5>. QED BY <4>4, <4>8, <5>3
      <4>. QED BY <4>9, <4>10
    <3>7. MarkerApart(d, n, x)' /\ DecisionApart(d, n, x)'
      BY <1>1, <2>3 DEF MarkerApart, DecisionApart, Decides
    <3>. QED BY <2>1, <3>5, <3>6, <3>7 DEF DeviceApart
  <2>. QED BY <2>2, <2>3
<1>. QED BY <1>1, <1>12, <1>13, <1>16, <1>17, <1>18, DeviceFrame

-----------------------------------------------------------------------------
(* The rules hold, and what follows from them. *)

LEMMA InitObeysEdits ==
  Init => EditRules
<1> SUFFICES ASSUME Init PROVE EditRules
  OBVIOUS
<1>1. Requested = {} /\ \A d \in Devices : sync[d].snapshot = None
  <2>1. Idle.ops = {} /\ Idle.snapshot = None
    BY DEF Idle, Request
  <2>. QED BY <2>1 DEF Init, Requested
<1>2. /\ \A d \in Devices, x \in Edits : outbox[d][x] = None
      /\ \A d \in Devices, e \in Entities : marker[d][e] = None
      /\ \A d \in Devices : preview[d] = None
      /\ copies = {}
  BY DEF Init
<1>3. \A d \in Devices, e \in Entities : local[d][e].content = {}
  BY DEF Init, Row, NoRow
<1>4. \A e \in Entities : \A i \in DOMAIN history[e] : history[e][i] = {}
  BY DEF Init
<1>5. SnapshotsTrue /\ DecidedGone
  BY <1>1, <1>2 DEF SnapshotsTrue, DecidedGone
<1>6. ASSUME NEW e \in Notes, NEW x \in Edits
      PROVE  ServerApart(e, x) /\ RequestsApart(e, x) /\ \A d \in Devices : DeviceApart(d, e, x)
  <2>1. e \in Entities
    BY DEF Notes
  <2>2. ServerApart(e, x) /\ RequestsApart(e, x)
    BY <1>1, <1>2, <1>4, <2>1 DEF ServerApart, RequestsApart
  <2>3. ASSUME NEW d \in Devices PROVE DeviceApart(d, e, x)
    <3>1. Pending(outbox[d], e) = {}
      BY <1>2 DEF Pending
    <3>. QED BY <1>2, <1>3, <2>1, <3>1 DEF DeviceApart, LocalApart, QueueApart, MarkerApart,
                DecisionApart, PreviewApart, Decides
  <2>. QED BY <2>2, <2>3
<1>. QED BY <1>5, <1>6 DEF EditRules, EditsApart, Apart

LEMMA StepObeysEdits ==
  Inductive /\ TypeOK' /\ QueueRules /\ ConflictRules /\ EditRules /\ [Next]_vars => EditRules'
<1> SUFFICES ASSUME Inductive, TypeOK', QueueRules, ConflictRules, EditRules, [Next]_vars
             PROVE  EditRules'
  OBVIOUS
<1>0. TypeOK
  BY Parts
<1>1. CASE UNCHANGED vars
  <2>1. UNCHANGED <<history, copies, receipts, outbox, local, marker, preview, sync, late, fresh>>
    BY <1>1 DEF vars, server, device
  <2>2. StillServer
    BY <1>0, <2>1, HistoryStays, GrowsStill
  <2>. QED BY <2>1, <2>2, ElsewhereKeepsApart
<1>2. CASE Elsewhere
  BY <1>2, OnlineEditKeepsApart, EditCopyKeepsApart, OpenOnlineKeepsApart,
     ServeLateKeepsApart DEF Elsewhere
<1>3. ASSUME NEW d \in Devices,
             Edit(d) \/ Download(d) \/ RetrySync(d) \/ Synchronize(d) \/ Disturb(d) \/ Resolve(d)
      PROVE  EditRules'
  <2>1. CASE Edit(d)
    BY <2>1, LocalEditKeepsApart DEF Edit
  <2>2. CASE Download(d)
    BY <2>2, DownloadKeepsApart
  <2>3. CASE RetrySync(d)
    BY <2>3, RetrySyncKeepsApart
  <2>4. CASE Synchronize(d)
    <3>1. CASE Refused(d)
      <4>1. sync[d].refusal \in Errors /\ sync[d].stage = "refused"
        BY <1>0, <3>1, Typed, Parts DEF Refused, Syncs, Errors, Holds, RequestOn
      <4>. QED BY <3>1, <4>1, FailedKeepsApart DEF Refused
    <3>. QED BY <2>4, <3>1, FlushKeepsApart, SendResolutionKeepsApart,
                ServeKeepsApart, FetchKeepsApart, AcknowledgeKeepsApart,
                FinishResolutionKeepsApart DEF Synchronize
  <2>5. CASE Disturb(d)
    <3>1. CASE NetworkFailure(d)
      <4>1. "NETWORK" \in Errors
        BY DEF Errors
      <4>. QED BY <3>1, <4>1, FailedKeepsApart DEF NetworkFailure, Abandoned
    <3>. QED BY <2>5, <3>1, CloseTabKeepsApart DEF Disturb
  <2>6. CASE Resolve(d)
    BY <2>6, EnsureConflictKeepsApart, CompareKeepsApart, PrepareKeepsApart DEF Resolve
  <2>. QED BY <1>3, <2>1, <2>2, <2>3, <2>4, <2>5, <2>6
<1>. QED BY <1>1, <1>2, <1>3 DEF Next

\* For any number of devices, notes, edits and decisions: an edit of an
\* annotation that is not made yet, waits for its answer or has a conflict
\* copy is known to no version of its annotation, and to nothing that could
\* become one without taking the copy or the waiting edit along
\* (services/annotations.py answers an operation once, by its receipt;
\* offline-conflicts.ts deletes what a decision supersedes).
THEOREM EditsAreApart == Spec => []EditRules
<1>1. Inductive /\ Inductive' /\ QueueRules /\ ConflictRules /\ EditRules /\ [Next]_vars => EditRules'
  BY StepObeysEdits, PartsAfter
<1>. QED BY <1>1, InitObeysEdits, ConflictsAreRuled, QueueIsRuled, SyncIsInductive, PTL DEF Spec

\* An edit of an annotation that has a conflict copy is in no version of it,
\* current or old, so that an operation that is retried, or answered twice
\* through a request that was given up, is never both applied and copied.
CopiedNeverApplied ==
  \A c \in copies : c.e \in Notes => \A i \in DOMAIN history[c.e] : c.id \notin history[c.e][i]

THEOREM CopiesAreNotApplied == Spec => []CopiedNeverApplied
<1>1. TypeOK /\ EditRules => CopiedNeverApplied
  BY DEF EditRules, EditsApart, ServerApart, Apart, Lives, CopiedNeverApplied, TypeOK, Copies
<1>2. Inductive => TypeOK
  BY Parts
<1>. QED BY <1>1, <1>2, EditsAreApart, SyncIsInductive, PTL

\* ... of which the runs check the current version.
THEOREM EditsAppliedOrCopied ==
  ASSUME Notebooks = {}
  PROVE  Spec => []AppliedOrCopied
<1>1. TypeOK /\ CopiedNeverApplied => AppliedOrCopied
  <2> SUFFICES ASSUME TypeOK, CopiedNeverApplied, NEW c \in copies PROVE c.id \notin Content(c.e)
    BY DEF AppliedOrCopied
  <2>1. c.e \in Entities /\ c.e \in Notes /\ history[c.e] \in Seq(SUBSET Edits)
    BY DEF TypeOK, Copies, Notes
  <2>. QED BY <2>1 DEF CopiedNeverApplied, Content, Revision
<1>2. Inductive => TypeOK
  BY Parts
<1>. QED BY <1>1, <1>2, CopiesAreNotApplied, SyncIsInductive, PTL
=============================================================================
