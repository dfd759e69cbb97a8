-------------------------- MODULE OfflineSync_proofs --------------------------
(***************************************************************************)
(* The safety properties of OfflineSync that hold for any number of        *)
(* devices, entities, edits and resolutions and any bounds.                *)
(*                                                                         *)
(* The invariant that every step keeps is Inductive.  It is proved one     *)
(* device at a time (Holds): a step changes the tables of one device, and  *)
(* the others only see rows that grow and requests that carry nothing of   *)
(* theirs (OthersKeep).  What makes it inductive is that an operation      *)
(* waits in one outbox in the form in which it was requested, so that a    *)
(* receipt is never the answer to something else, and that what a stored   *)
(* resolution does not supersede has not been requested, so that it may    *)
(* still be renumbered.                                                    *)
(*                                                                         *)
(* Finite sets are needed to count: a rebased operation is numbered by the *)
(* operations before it.                                                   *)
(***************************************************************************)
EXTENDS OfflineSync, TLAPS, FiniteSetTheorems

(* The parts of Inductive, for one device. *)

OrderedOn(d) ==
  \A e \in Entities : \A x \in Pending(outbox[d], e) :
    /\ outbox[d][x].op.base < local[d][e].rev
    /\ \A y \in Pending(outbox[d], e) \ {x} : outbox[d][y].op.base # outbox[d][x].op.base

OperationsOn(d) ==
  \A x \in Edits : outbox[d][x] # None =>
    /\ outbox[d][x].op.id = x
    /\ x \notin fresh
    /\ \A op \in Requested : op.id = x => outbox[d][x].op = op

True(row, e) == row.rev > 0 => row.rev <= Revision(e) /\ row.content = history[e][row.rev]

RequestOn(d) ==
  /\ ~Resolving(d) =>
       /\ sync[d].refusal # "CONFLICT"
       /\ \A op \in sync[d].ops : outbox[d][op.id] # None
  /\ Resolving(d) => sync[d].ops = {Resolution(d)} /\ Resolution(d).id \in Resolutions
  /\ sync[d].stage = "refused" => sync[d].refusal # None
  /\ sync[d].stage \in {"answered", "read"} /\ Resolving(d) => sync[d].answers # {}
  /\ sync[d].stage = "read" =>
       /\ sync[d].snapshot # None
       /\ \A e \in Entities : True(sync[d].snapshot.rows[e], e)

\* The request under way is the one the marker keeps, and not given up.
KeptOn(d) ==
  Resolving(d) => Current(d) /\ ~ marker[d][Resolution(d).e].resolution.stale

ResolutionsOn(d) ==
  /\ preview[d] # None => Undecided(preview[d].marker)
  /\ \A e \in Entities :
       marker[d][e] # None /\ marker[d][e].resolution # None =>
         /\ marker[d][e].resolution.op.e = e
         /\ marker[d][e].resolution.op.id \in Resolutions
         /\ \A x \in Pending(outbox[d], e) \ marker[d][e].resolution.supersedes :
              outbox[d][x].error = "CONFLICT" /\ \A op \in Requested : op.id # x
         /\ \A x \in marker[d][e].resolution.supersedes :
              x \notin fresh /\ (outbox[d][x] # None => outbox[d][x].op.e = e)

PausedOn(d) ==
  \A e \in Entities : \A x \in Pending(outbox[d], e) :
    outbox[d][x].error = "CONFLICT" => marker[d][e] # None

RowsOn(d) ==
  \A e \in Entities : Pending(outbox[d], e) = {} => True(local[d][e], e)

Holds(d) ==
  /\ OrderedOn(d) /\ OperationsOn(d) /\ RequestOn(d) /\ KeptOn(d)
  /\ ResolutionsOn(d) /\ PausedOn(d) /\ RowsOn(d)

\* What no single device can tell.
Shared ==
  /\ \A d \in Devices, x \in Edits : outbox[d][x] # None =>
       \A other \in Devices \ {d} : outbox[other][x] = None
  /\ \A op \in Requested : op.id \in Edits => op.id \notin fresh
  /\ \A i \in DOMAIN receipts : receipts[i] # None => receipts[i].op.id = i

LEMMA Parts ==
  Inductive <=> TypeOK /\ Shared /\ \A d \in Devices : Holds(d)
<1> SUFFICES ASSUME TypeOK
             PROVE  Inductive <=> Shared /\ \A d \in Devices : Holds(d)
  BY DEF Inductive
<1>1. Ordered <=> \A d \in Devices : OrderedOn(d)
  BY DEF Ordered, OrderedOn
<1>2. OperationsHold <=> Shared /\ \A d \in Devices : OperationsOn(d)
  <2>1. ASSUME OperationsHold PROVE Shared /\ \A d \in Devices : OperationsOn(d)
    BY <2>1 DEF OperationsHold, OperationsOn, Shared
  <2>2. ASSUME Shared, \A d \in Devices : OperationsOn(d) PROVE OperationsHold
    BY <2>2 DEF OperationsHold, OperationsOn, Shared
  <2>. QED BY <2>1, <2>2
<1>3. RequestsHold <=> \A d \in Devices : RequestOn(d)
  BY DEF RequestsHold, RequestOn, True
<1>4. RequestKept /\ ResolutionsHold <=> \A d \in Devices : KeptOn(d) /\ ResolutionsOn(d)
  BY DEF RequestKept, ResolutionsHold, KeptOn, ResolutionsOn
<1>5. PausedHasConflict <=> \A d \in Devices : PausedOn(d)
  BY DEF PausedHasConflict, PausedOn
<1>6. RevisionNamesContent <=> \A d \in Devices : RowsOn(d)
  BY DEF RevisionNamesContent, RowsOn, True
<1>. QED BY <1>1, <1>2, <1>3, <1>4, <1>5, <1>6 DEF Inductive, Holds

LEMMA PartsAfter ==
  Inductive' <=> TypeOK' /\ Shared' /\ \A d \in Devices : Holds(d)'
<1>1. Inductive' <=> (TypeOK /\ Shared /\ \A d \in Devices : Holds(d))'
  BY Parts, PTL
<1>. QED BY <1>1

-----------------------------------------------------------------------------
(* What a step leaves alone. *)

\* What TypeOK says of the tables of one device.
LEMMA Typed ==
  ASSUME TypeOK, NEW d \in Devices
  PROVE  /\ \A x \in Edits : outbox[d][x] \in Queued \cup {None}
         /\ \A e \in Entities : local[d][e] \in Rows /\ marker[d][e] \in Markers \cup {None}
         /\ preview[d] \in Previews \cup {None}
         /\ sync[d] \in Syncs
BY DEF TypeOK

\* Rows are appended to.
Grows ==
  \A e \in Entities :
    /\ Len(history[e]) <= Len(history'[e])
    /\ \A i \in 1 .. Len(history[e]) : history'[e][i] = history[e][i]

\* Nothing is requested anew of what waits on device d.
Spares(d) ==
  \A op \in Requested' : op \in Requested \/ op.id \notin Edits \/ outbox[d][op.id] = None

LEMMA Frame ==
  ASSUME TypeOK, NEW d \in Devices, Holds(d), fresh' \subseteq fresh, Grows
  PROVE  /\ outbox'[d] = outbox[d] /\ local'[d] = local[d] => OrderedOn(d)' /\ RowsOn(d)'
         /\ outbox'[d] = outbox[d] /\ Spares(d) => OperationsOn(d)'
         /\ outbox'[d] = outbox[d] /\ sync'[d] = sync[d] => RequestOn(d)'
         /\ sync'[d] = sync[d] /\ marker'[d] = marker[d] => KeptOn(d)'
         /\ outbox'[d] = outbox[d] /\ marker'[d] = marker[d] => PausedOn(d)'
         /\ /\ outbox'[d] = outbox[d] /\ marker'[d] = marker[d] /\ preview'[d] = preview[d]
            /\ Spares(d)
            => ResolutionsOn(d)'
<1>1. OrderedOn(d) /\ OperationsOn(d) /\ RequestOn(d) /\ KeptOn(d) /\ ResolutionsOn(d) /\ PausedOn(d) /\ RowsOn(d)
  BY DEF Holds
<1>2. ASSUME NEW e \in Entities, NEW row \in Rows, True(row, e)
      PROVE  row.rev > 0 => row.rev <= Revision(e)' /\ row.content = history'[e][row.rev]
  <2> SUFFICES ASSUME row.rev > 0
               PROVE  row.rev <= Len(history'[e]) /\ row.content = history'[e][row.rev]
    BY DEF Revision
  <2>1. row.rev \in Nat /\ Len(history[e]) \in Nat
    BY DEF Rows, TypeOK
  <2>2. row.rev <= Len(history[e]) /\ row.content = history[e][row.rev]
    BY <1>2 DEF True, Revision
  <2>3. row.rev \in 1 .. Len(history[e])
    BY <2>1, <2>2
  <2>4. Len(history[e]) <= Len(history'[e]) /\ history'[e][row.rev] = history[e][row.rev]
    BY <2>3 DEF Grows
  <2>5. row.rev <= Len(history'[e])
    BY <2>1, <2>2, <2>4
  <2>. QED BY <2>2, <2>4, <2>5
<1>3. ASSUME outbox'[d] = outbox[d], local'[d] = local[d]
      PROVE  OrderedOn(d)' /\ RowsOn(d)'
  <2>1. OrderedOn(d)'
    BY <1>1, <1>3 DEF OrderedOn, Pending
  <2>2. RowsOn(d)'
    BY <1>1, <1>2, <1>3, Typed DEF RowsOn, Pending, True
  <2>. QED BY <2>1, <2>2
<1>4. ASSUME outbox'[d] = outbox[d], Spares(d)
      PROVE  OperationsOn(d)'
  BY <1>1, <1>4 DEF OperationsOn, Spares
<1>5. ASSUME outbox'[d] = outbox[d], sync'[d] = sync[d]
      PROVE  RequestOn(d)'
  <2>1. /\ Resolving(d)' <=> Resolving(d)
        /\ Resolution(d)' = Resolution(d)
    BY <1>5 DEF Resolving, Resolution
  <2>2. ASSUME sync[d].stage = "read", NEW e \in Entities
        PROVE  True(sync[d].snapshot.rows[e], e)'
    <3>1. sync[d].snapshot.rows[e] \in Rows
      BY <1>1, <2>2, Typed DEF RequestOn, Syncs, Snapshots
    <3>2. True(sync[d].snapshot.rows[e], e)
      BY <1>1, <2>2 DEF RequestOn
    <3>. QED BY <1>2, <1>5, <3>1, <3>2 DEF True
  <2>. QED BY <1>1, <1>5, <2>1, <2>2 DEF RequestOn
<1>6. ASSUME sync'[d] = sync[d], marker'[d] = marker[d]
      PROVE  KeptOn(d)'
  BY <1>1, <1>6 DEF KeptOn, Resolving, Resolution, Current
<1>7. ASSUME outbox'[d] = outbox[d], marker'[d] = marker[d]
      PROVE  PausedOn(d)'
  BY <1>1, <1>7 DEF PausedOn, Pending
<1>8. ASSUME outbox'[d] = outbox[d], marker'[d] = marker[d], preview'[d] = preview[d], Spares(d)
      PROVE  ResolutionsOn(d)'
  BY <1>1, <1>8 DEF ResolutionsOn, Pending, Spares, Undecided
<1>. QED BY <1>3, <1>4, <1>5, <1>6, <1>7, <1>8

\* The devices a step is not about keep their part.
LEMMA OthersKeep ==
  ASSUME TypeOK, NEW d \in Devices, Holds(d), fresh' \subseteq fresh, Grows, Spares(d),
         outbox'[d] = outbox[d], local'[d] = local[d], marker'[d] = marker[d],
         preview'[d] = preview[d], sync'[d] = sync[d]
  PROVE  Holds(d)'
<1>1. /\ OrderedOn(d)' /\ RowsOn(d)' /\ OperationsOn(d)' /\ RequestOn(d)'
      /\ KeptOn(d)' /\ PausedOn(d)' /\ ResolutionsOn(d)'
  BY Frame
<1>. QED BY <1>1 DEF Holds

\* A device that runs no request.
LEMMA IdleHolds ==
  ASSUME NEW d \in Devices, sync'[d] = Idle
  PROVE  RequestOn(d)' /\ KeptOn(d)'
<1>1. ~ Resolving(d)' /\ sync'[d].ops = {} /\ sync'[d].stage = "idle" /\ sync'[d].refusal = None
  BY DEF Idle, Request, Resolving
<1>. QED BY <1>1, NoneAssumption DEF RequestOn, KeptOn, Refusals

\* What may be requested after a step.
LEMMA RequestedBound ==
  ASSUME NEW ops,
         \A o \in Devices : sync'[o].ops \subseteq sync[o].ops \cup ops,
         \A s \in late' : s \in late \/ \E o \in Devices : s = sync[o].ops,
         \A i \in DOMAIN receipts' : receipts'[i] # None =>
           \/ i \in DOMAIN receipts /\ receipts'[i] = receipts[i]
           \/ receipts'[i].op \in Requested
  PROVE  Requested' \subseteq Requested \cup ops
BY DEF Requested

LEMMA HistoryStays ==
  ASSUME TypeOK, UNCHANGED history
  PROVE  Grows
BY DEF Grows, TypeOK

-----------------------------------------------------------------------------
(* Steps elsewhere: the account edits online, an abandoned request arrives. *)

\* The server's rows grow and nothing else that Holds reads changes.
LEMMA ServerKeeps ==
  ASSUME Inductive, TypeOK', UNCHANGED <<receipts, late, device, sync>>,
         fresh' \subseteq fresh, Grows
  PROVE  Inductive'
<1>0. TypeOK /\ Shared /\ \A d \in Devices : Holds(d)
  BY Parts
<1>1. UNCHANGED <<receipts, late, outbox, local, marker, preview, listed, sync>>
  BY DEF device
<1>2. Requested' = Requested
  BY <1>1 DEF Requested
<1>3. Shared'
  BY <1>0, <1>1, <1>2 DEF Shared
<1>4. ASSUME NEW d \in Devices PROVE Holds(d)'
  BY <1>0, <1>1, <1>2, OthersKeep DEF Spares
<1>. QED BY <1>3, <1>4, PartsAfter

LEMMA AppendGrows ==
  ASSUME TypeOK, NEW h,
         \A e \in Entities : \/ h[e] = history[e]
                             \/ \E c \in SUBSET Edits : h[e] = Append(history[e], c)
                             \/ history[e] = <<>> /\ h[e] \in Seq(SUBSET Edits),
         h = [e \in Entities |-> h[e]]
  PROVE  /\ h \in [Entities -> Seq(SUBSET Edits)]
         /\ history' = h => Grows
<1>1. ASSUME NEW e \in Entities
      PROVE  /\ h[e] \in Seq(SUBSET Edits)
             /\ Len(history[e]) <= Len(h[e])
             /\ \A i \in 1 .. Len(history[e]) : h[e][i] = history[e][i]
  <2>1. history[e] \in Seq(SUBSET Edits)
    BY DEF TypeOK
  <2>. QED BY <2>1
<1>. QED BY <1>1 DEF Grows

LEMMA ContentTyped ==
  ASSUME TypeOK, NEW e \in Entities
  PROVE  Content(e) \in SUBSET Edits /\ Revision(e) \in Nat
<1>1. history[e] \in Seq(SUBSET Edits)
  BY DEF TypeOK
<1>. QED BY <1>1 DEF Content, Revision

LEMMA OnlineEditKeeps ==
  ASSUME Inductive, NEW e \in Entities, NEW x \in Edits, OnlineEdit(e, x)
  PROVE  Inductive'
<1>0. TypeOK
  BY DEF Inductive
<1>1. /\ x \in fresh /\ fresh' = fresh \ {x}
      /\ UNCHANGED <<copies, receipts, late, outbox, local, marker, preview, listed, sync,
                    decided, overlaid>>
  BY DEF OnlineEdit, device, ghost
<1>2. /\ history' = [history EXCEPT ![e] = history'[e]]
      /\ \/ history[e] = <<>> /\ history'[e] = <<{}, {x}>>
         \/ history'[e] = Append(history[e], Content(e) \cup {x})
  BY <1>0 DEF OnlineEdit, TypeOK
<1>3. <<{}, {x}>> \in Seq(SUBSET Edits) /\ Content(e) \cup {x} \in SUBSET Edits
  BY <1>0, ContentTyped
<1>4. /\ history' = [n \in Entities |-> history'[n]]
      /\ \A n \in Entities : n # e => history'[n] = history[n]
  BY <1>0, <1>2 DEF TypeOK
<1>5. history' \in [Entities -> Seq(SUBSET Edits)] /\ Grows
  BY <1>0, <1>2, <1>3, <1>4, AppendGrows
<1>6. TypeOK'
  BY <1>0, <1>1, <1>5 DEF TypeOK
<1>. QED BY <1>1, <1>5, <1>6, ServerKeeps DEF device

LEMMA EditCopyKeeps ==
  ASSUME Inductive, NEW c \in copies, NEW x \in Edits, EditCopy(c, x)
  PROVE  Inductive'
<1>0. TypeOK
  BY DEF Inductive
<1>1. /\ fresh' = fresh \ {x}
      /\ UNCHANGED <<history, receipts, late, outbox, local, marker, preview, listed, sync,
                    decided, overlaid>>
  BY DEF EditCopy, device, ghost
<1>2. c \in Copies /\ copies' = (copies \ {c})
        \cup {[id |-> c.id, e |-> c.e, content |-> c.content \cup {x}, rev |-> c.rev + 1]}
  BY <1>0 DEF EditCopy, TypeOK
<1>3. [id |-> c.id, e |-> c.e, content |-> c.content \cup {x}, rev |-> c.rev + 1] \in Copies
  BY <1>2 DEF Copies
<1>4. TypeOK'
  BY <1>0, <1>1, <1>2, <1>3 DEF TypeOK
<1>5. Grows
  BY <1>0, <1>1, HistoryStays
<1>. QED BY <1>1, <1>4, <1>5, ServerKeeps DEF device

LEMMA NotebooksGrow ==
  ASSUME TypeOK, history' = WithNotebooks(history)
  PROVE  history' \in [Entities -> Seq(SUBSET Edits)] /\ Grows
<1>1. <<{}>> \in Seq(SUBSET Edits)
  OBVIOUS
<1>2. history' = [e \in Entities |-> history'[e]]
  BY DEF WithNotebooks
<1>3. \A e \in Entities : \/ history'[e] = history[e]
                          \/ history[e] = <<>> /\ history'[e] \in Seq(SUBSET Edits)
  BY <1>1 DEF WithNotebooks
<1>. QED BY <1>2, <1>3, AppendGrows

LEMMA OpenOnlineKeeps ==
  ASSUME Inductive, OpenOnline
  PROVE  Inductive'
<1>0. TypeOK
  BY DEF Inductive
<1>1. /\ history' = WithNotebooks(history)
      /\ UNCHANGED <<copies, receipts, late, outbox, local, marker, preview, listed, sync, fresh,
                    decided, overlaid>>
  BY DEF OpenOnline, device, ghost
<1>2. history' \in [Entities -> Seq(SUBSET Edits)] /\ Grows
  BY <1>0, <1>1, NotebooksGrow
<1>3. TypeOK'
  BY <1>0, <1>1, <1>2 DEF TypeOK
<1>. QED BY <1>1, <1>2, <1>3, ServerKeeps DEF device

-----------------------------------------------------------------------------
(* Steps of a device that request nothing. *)

LEMMA DeviceKeeps ==
  ASSUME Inductive, NEW d \in Devices, TypeOK', Shared', Holds(d)', Grows,
         fresh' \subseteq fresh,
         \A o \in Devices \ {d} :
           /\ outbox'[o] = outbox[o] /\ local'[o] = local[o] /\ marker'[o] = marker[o]
           /\ preview'[o] = preview[o] /\ sync'[o] = sync[o]
           /\ Spares(o)
  PROVE  Inductive'
<1>1. TypeOK /\ Shared /\ \A o \in Devices : Holds(o)
  BY Parts
<1>2. ASSUME NEW o \in Devices PROVE Holds(o)'
  BY <1>1, OthersKeep
<1>. QED BY <1>2, PartsAfter

\* A step that sends nothing and takes no receipt.
LEMMA NothingRequested ==
  ASSUME UNCHANGED receipts,
         \A o \in Devices : sync'[o].ops \subseteq sync[o].ops,
         \A s \in late' : s \in late \/ \E o \in Devices : s = sync[o].ops
  PROVE  Requested' \subseteq Requested /\ \A o : Spares(o)
<1>1. Requested' \subseteq Requested \cup {}
  BY RequestedBound
<1>. QED BY <1>1 DEF Spares

LEMMA LocalEditKeeps ==
  ASSUME Inductive, NEW d \in Devices, NEW e \in Entities, NEW x \in Edits, LocalEdit(d, e, x)
  PROVE  Inductive'
<1>0. TypeOK /\ Shared /\ \A o \in Devices : Holds(o)
  BY Parts
<1> DEFINE row == local[d][e]
           next == Row(row.rev + 1, row.content \cup {x})
           item == [op |-> Operation(x, e, row.rev, next.content), attempts |-> 0,
                    error |-> FirstError(d, e)]
<1>1. /\ x \in fresh /\ fresh' = fresh \ {x}
      /\ local' = [local EXCEPT ![d][e] = next]
      /\ outbox' = [outbox EXCEPT ![d][x] = item]
      /\ UNCHANGED <<history, copies, receipts, late, marker, preview, listed, sync, decided,
                    overlaid>>
  BY DEF LocalEdit, server, ghost
<1>2. /\ row \in Rows /\ next \in Rows /\ next.rev = row.rev + 1
      /\ item \in Queued /\ item # None
      /\ item.op.id = x /\ item.op.e = e /\ item.op.base = row.rev
      /\ item.error = FirstError(d, e)
  <2>1. row \in Rows
    BY <1>0, Typed
  <2>2. next \in Rows /\ next.rev = row.rev + 1
    BY <2>1 DEF Row, Rows
  <2>3. Operation(x, e, row.rev, next.content) \in Operations
    BY <2>1, <2>2 DEF Operation, Operations, Rows
  <2>4. item \in Queued
    BY <2>3 DEF Queued, FirstError, Errors, Refusals
  <2>. QED BY <2>1, <2>2, <2>4, NoneAssumption DEF Operation
<1> HIDE DEF next, item
<1>3. /\ local'[d][e] = next /\ \A n \in Entities : n # e => local'[d][n] = local[d][n]
      /\ outbox'[d][x] = item /\ \A y \in Edits : y # x => outbox'[d][y] = outbox[d][y]
      /\ \A o \in Devices : o # d => outbox'[o] = outbox[o] /\ local'[o] = local[o]
  BY <1>0, <1>1 DEF TypeOK
<1>4. TypeOK'
  <2>1. local' \in [Devices -> [Entities -> Rows]]
    BY <1>0, <1>1, <1>2 DEF TypeOK
  <2>2. outbox' \in [Devices -> [Edits -> Queued \cup {None}]]
    BY <1>0, <1>1, <1>2 DEF TypeOK
  <2>. QED BY <1>0, <1>1, <2>1, <2>2 DEF TypeOK
<1>5. /\ \A o \in Devices : outbox[o][x] = None
      /\ \A op \in Requested : op.id # x
      /\ \A n \in Entities : marker[d][n] # None /\ marker[d][n].resolution # None =>
           x \notin marker[d][n].resolution.supersedes
  BY <1>0, <1>1 DEF Holds, OperationsOn, ResolutionsOn, Shared
<1>6. /\ Requested' = Requested
      /\ Grows
      /\ \A o : Spares(o)
  BY <1>0, <1>1, HistoryStays DEF Requested, Spares
<1>7. /\ Pending(outbox'[d], e) = Pending(outbox[d], e) \cup {x}
      /\ \A n \in Entities : n # e => Pending(outbox'[d], n) = Pending(outbox[d], n)
  BY <1>2, <1>3, <1>5 DEF Pending
<1>7a. \A n \in Entities : \A y \in Pending(outbox[d], n) : outbox'[d][y] = outbox[d][y]
  BY <1>3, <1>5 DEF Pending
<1>8. Shared'
  BY <1>0, <1>1, <1>3, <1>5, <1>6 DEF Shared
<1>9. OrderedOn(d)'
  <2>2. OrderedOn(d)
    BY <1>0 DEF Holds
  <2>3. \A y \in Pending(outbox[d], e) : outbox[d][y].op.base \in Nat
    BY <1>0, Typed DEF Pending, Queued, Operations
  <2>4. ASSUME NEW y \in Pending(outbox[d], e) \cup {x}
        PROVE  /\ outbox'[d][y].op.base < local'[d][e].rev
               /\ \A z \in (Pending(outbox[d], e) \cup {x}) \ {y} :
                    outbox'[d][z].op.base # outbox'[d][y].op.base
    BY <1>2, <1>3, <1>7a, <2>2, <2>3 DEF OrderedOn, Rows
  <2>5. ASSUME NEW n \in Entities, n # e, NEW y \in Pending(outbox[d], n)
        PROVE  /\ outbox'[d][y].op.base < local'[d][n].rev
               /\ \A z \in Pending(outbox[d], n) \ {y} :
                    outbox'[d][z].op.base # outbox'[d][y].op.base
    BY <1>3, <1>7a, <2>2, <2>5 DEF OrderedOn
  <2>. QED BY <1>7, <2>4, <2>5 DEF OrderedOn
<1>10. OperationsOn(d)'
  BY <1>0, <1>1, <1>2, <1>3, <1>5, <1>6 DEF Holds, OperationsOn
<1>11. RequestOn(d)'
  <2>1. RequestOn(d)
    BY <1>0 DEF Holds
  <2>2. \A y \in Edits \cup Resolutions : outbox[d][y] # None /\ y \in Edits => outbox'[d][y] # None
    BY <1>2, <1>3
  <2>3. ASSUME ~Resolving(d), NEW op \in sync[d].ops PROVE outbox'[d][op.id] # None
    <3>1. op.id \in Edits
      BY <1>0, <2>3, Typed DEF Resolving, Syncs, Operations
    <3>. QED BY <2>1, <2>2, <2>3, <3>1 DEF RequestOn
  <2>. QED BY <1>1, <2>1, <2>3 DEF RequestOn, Resolving, Resolution, True, Revision
<1>12. KeptOn(d)'
  BY <1>0, <1>1, <1>6, Frame DEF Holds
<1>13. PausedOn(d)'
  <2>1. item.error = "CONFLICT" => marker[d][e] # None
    BY <1>2, NoneAssumption DEF FirstError, Refusals
  <2>2. PausedOn(d)
    BY <1>0 DEF Holds
  <2>3. ASSUME NEW n \in Entities, NEW y \in Pending(outbox'[d], n),
               outbox'[d][y].error = "CONFLICT"
        PROVE  marker[d][n] # None
    BY <1>3, <1>7, <1>7a, <2>1, <2>2, <2>3 DEF PausedOn
  <2>. QED BY <1>1, <2>3 DEF PausedOn
<1>14. RowsOn(d)'
  <2>1. RowsOn(d)
    BY <1>0 DEF Holds
  <2>2. ASSUME NEW n \in Entities, Pending(outbox'[d], n) = {}
        PROVE  True(local'[d][n], n)
    BY <1>3, <1>7, <2>1, <2>2 DEF RowsOn
  <2>. QED BY <1>1, <2>2 DEF RowsOn, True, Revision
<1>15. ResolutionsOn(d)'
  <2>1. ResolutionsOn(d)
    BY <1>0 DEF Holds
  <2>2. ASSUME NEW n \in Entities, marker[d][n] # None, marker[d][n].resolution # None
        PROVE  /\ \A y \in Pending(outbox'[d], n) \ marker[d][n].resolution.supersedes :
                    outbox'[d][y].error = "CONFLICT" /\ \A op \in Requested : op.id # y
               /\ \A y \in marker[d][n].resolution.supersedes :
                    y \notin fresh' /\ (outbox'[d][y] # None => outbox'[d][y].op.e = n)
    <3>1. marker[d][n].resolution.supersedes \subseteq Edits
      BY <1>0, <2>2, Typed DEF Markers, ResolutionRecords
    <3>. QED BY <1>1, <1>2, <1>3, <1>5, <1>7, <2>1, <2>2, <3>1 DEF ResolutionsOn, FirstError, Pending
  <2>3. preview'[d] # None => Undecided(preview'[d].marker)
    BY <1>1, <2>1 DEF ResolutionsOn
  <2>4. marker' = marker /\ preview' = preview /\ Requested' = Requested
    BY <1>1, <1>6
  <2>5. ASSUME NEW n \in Entities, marker[d][n] # None, marker[d][n].resolution # None
        PROVE  marker[d][n].resolution.op.e = n /\ marker[d][n].resolution.op.id \in Resolutions
    BY <2>1, <2>5 DEF ResolutionsOn
  <2>. QED BY <2>2, <2>3, <2>4, <2>5 DEF ResolutionsOn
<1>16. Holds(d)'
  BY <1>9, <1>10, <1>11, <1>12, <1>13, <1>14, <1>15 DEF Holds
<1>17. fresh' \subseteq fresh
  BY <1>1
<1>18. \A o \in Devices \ {d} :
         /\ outbox'[o] = outbox[o] /\ local'[o] = local[o] /\ marker'[o] = marker[o]
         /\ preview'[o] = preview[o] /\ sync'[o] = sync[o]
         /\ Spares(o)
  BY <1>1, <1>3, <1>6
<1>. QED BY <1>4, <1>6, <1>8, <1>16, <1>17, <1>18, DeviceKeeps

LEMMA DownloadKeeps ==
  ASSUME Inductive, NEW d \in Devices, Download(d)
  PROVE  Inductive'
<1>0. TypeOK /\ Shared /\ \A o \in Devices : Holds(o)
  BY Parts
<1>1. PICK rev \in [Entities -> 0 .. Cardinality(Edits \cup Resolutions) + 1] :
        /\ \A e \in Entities : rev[e] \in 0 .. Revision(e)
        /\ local' = [local EXCEPT ![d] = [e \in Entities |->
             IF Pending(outbox[d], e) # {} \/ marker[d][e] # None
             THEN local[d][e]
             ELSE IF rev[e] = 0 THEN NoRow ELSE Row(rev[e], history[e][rev[e]])]]
        /\ listed' = [listed EXCEPT ![d] =
             {c \in listed[d] : marker[d][c.e] # None /\ marker[d][c.e].copy = c.id}]
  BY DEF Download
<1>2. UNCHANGED <<history, copies, receipts, late, outbox, marker, preview, sync, fresh, decided,
                 overlaid>>
  BY DEF Download, server, ghost
<1>3. ASSUME NEW e \in Entities
      PROVE  /\ local'[d][e] \in Rows
             /\ local'[d][e] # local[d][e] => Pending(outbox[d], e) = {} /\ True(local'[d][e], e)
  <2>1. history[e] \in Seq(SUBSET Edits) /\ rev[e] \in 0 .. Len(history[e])
    BY <1>0, <1>1 DEF TypeOK, Revision
  <2>2. rev[e] > 0 => history[e][rev[e]] \in SUBSET Edits
    BY <2>1
  <2>3. local[d][e] \in Rows
    BY <1>0, Typed
  <2>4. local'[d][e] =
          IF Pending(outbox[d], e) # {} \/ marker[d][e] # None THEN local[d][e]
          ELSE IF rev[e] = 0 THEN NoRow ELSE Row(rev[e], history[e][rev[e]])
    BY <1>0, <1>1 DEF TypeOK
  <2>5. CASE Pending(outbox[d], e) # {} \/ marker[d][e] # None
    BY <2>3, <2>4, <2>5
  <2>6. CASE ~(Pending(outbox[d], e) # {} \/ marker[d][e] # None) /\ rev[e] = 0
    BY <2>4, <2>6 DEF NoRow, Row, Rows, True
  <2>7. CASE ~(Pending(outbox[d], e) # {} \/ marker[d][e] # None) /\ rev[e] # 0
    BY <2>1, <2>2, <2>4, <2>7 DEF Row, Rows, True, Revision
  <2>. QED BY <2>5, <2>6, <2>7
<1>4. TypeOK'
  <2>1. local' \in [Devices -> [Entities -> Rows]]
    BY <1>0, <1>1, <1>3 DEF TypeOK
  <2>2. listed' \in [Devices -> SUBSET Copies]
    BY <1>0, <1>1 DEF TypeOK
  <2>. QED BY <1>0, <1>2, <2>1, <2>2 DEF TypeOK
<1>5. Requested' = Requested /\ Grows /\ \A o : Spares(o)
  BY <1>0, <1>2, HistoryStays DEF Requested, Spares
<1>6. Shared'
  BY <1>0, <1>2, <1>5 DEF Shared
<1>7. OperationsOn(d)' /\ RequestOn(d)' /\ KeptOn(d)' /\ PausedOn(d)' /\ ResolutionsOn(d)'
  BY <1>0, <1>2, <1>5, Frame
<1>8. OrderedOn(d)'
  <2>1. OrderedOn(d)
    BY <1>0 DEF Holds
  <2>2. ASSUME NEW e \in Entities, NEW x \in Pending(outbox[d], e)
        PROVE  local'[d][e] = local[d][e]
    BY <1>3
  <2>. QED BY <1>2, <2>1, <2>2 DEF OrderedOn
<1>9. RowsOn(d)'
  <2>1. RowsOn(d)
    BY <1>0 DEF Holds
  <2>2. ASSUME NEW e \in Entities, Pending(outbox[d], e) = {}
        PROVE  True(local'[d][e], e)
    BY <1>3, <2>1, <2>2 DEF RowsOn
  <2>. QED BY <1>2, <2>2 DEF RowsOn, True, Revision
<1>10. Holds(d)'
  BY <1>7, <1>8, <1>9 DEF Holds
<1>11. \A o \in Devices \ {d} :
         /\ outbox'[o] = outbox[o] /\ local'[o] = local[o] /\ marker'[o] = marker[o]
         /\ preview'[o] = preview[o] /\ sync'[o] = sync[o]
         /\ Spares(o)
  BY <1>0, <1>1, <1>2, <1>5 DEF TypeOK
<1>. QED BY <1>2, <1>4, <1>5, <1>6, <1>10, <1>11, DeviceKeeps

LEMMA RetrySyncKeeps ==
  ASSUME Inductive, NEW d \in Devices, RetrySync(d)
  PROVE  Inductive'
<1>0. TypeOK /\ Shared /\ \A o \in Devices : Holds(o)
  BY Parts
<1> DEFINE again(x) == [op |-> outbox[d][x].op, attempts |-> 0, error |-> None]
<1>1. /\ outbox' = [outbox EXCEPT ![d] = [x \in Edits |->
             IF x \in Stopped(outbox[d]) THEN again(x) ELSE outbox[d][x]]]
      /\ UNCHANGED <<history, copies, receipts, late, local, marker, preview, listed, sync, fresh,
                    decided, overlaid>>
  BY DEF RetrySync, server, ghost
<1>2. \A x \in Edits : outbox[d][x] \in Queued \cup {None}
  BY <1>0, Typed
<1>3. ASSUME NEW x \in Edits
      PROVE  /\ outbox'[d][x] \in Queued \cup {None}
             /\ outbox'[d][x] # None <=> outbox[d][x] # None
             /\ outbox'[d][x] # None => outbox'[d][x].op = outbox[d][x].op
             /\ \/ outbox'[d][x] = outbox[d][x]
                \/ outbox'[d][x].error = None /\ outbox[d][x].error # "CONFLICT"
  <2>1. outbox'[d][x] = IF x \in Stopped(outbox[d]) THEN again(x) ELSE outbox[d][x]
    BY <1>0, <1>1 DEF TypeOK
  <2>2. CASE x \in Stopped(outbox[d])
    <3>1. outbox[d][x] \in Queued /\ outbox[d][x].error # "CONFLICT" /\ outbox[d][x] # None
      BY <1>2, <2>2 DEF Stopped
    <3>2. again(x) \in Queued
      BY <3>1 DEF Queued, Errors
    <3>. QED BY <2>1, <2>2, <3>1, <3>2, NoneAssumption
  <2>. QED BY <1>2, <2>1, <2>2
<1>4. /\ \A e \in Entities : Pending(outbox'[d], e) = Pending(outbox[d], e)
      /\ \A o \in Devices \ {d} : outbox'[o] = outbox[o]
  BY <1>0, <1>1, <1>3 DEF Pending, TypeOK
<1>5. TypeOK'
  <2>1. outbox' \in [Devices -> [Edits -> Queued \cup {None}]]
    BY <1>0, <1>1, <1>3 DEF TypeOK
  <2>. QED BY <1>0, <1>1, <2>1 DEF TypeOK
<1>6. Requested' = Requested /\ Grows /\ \A o : Spares(o)
  BY <1>0, <1>1, HistoryStays DEF Requested, Spares
<1>7. Shared'
  BY <1>0, <1>1, <1>3, <1>4, <1>6 DEF Shared
<1>8. OrderedOn(d) /\ OperationsOn(d) /\ RequestOn(d) /\ PausedOn(d) /\ RowsOn(d) /\ ResolutionsOn(d)
  BY <1>0 DEF Holds
<1>9. \A e \in Entities : \A x \in Pending(outbox[d], e) : outbox'[d][x].op = outbox[d][x].op
  BY <1>3 DEF Pending
<1>10. OrderedOn(d)'
  BY <1>1, <1>4, <1>8, <1>9 DEF OrderedOn
<1>11. OperationsOn(d)'
  BY <1>1, <1>3, <1>6, <1>8 DEF OperationsOn
<1>12. RequestOn(d)'
  <2>1. ASSUME ~Resolving(d), NEW op \in sync[d].ops PROVE outbox'[d][op.id] # None
    <3>1. op.id \in Edits
      BY <1>0, <2>1, Typed DEF Resolving, Syncs, Operations
    <3>. QED BY <1>3, <1>8, <2>1, <3>1 DEF RequestOn
  <2>. QED BY <1>1, <1>8, <2>1 DEF RequestOn, Resolving, Resolution, True, Revision
<1>13. KeptOn(d)'
  BY <1>0, <1>1, <1>6, Frame
<1>14. PausedOn(d)'
  <2>1. ASSUME NEW e \in Entities, NEW x \in Pending(outbox[d], e), outbox'[d][x].error = "CONFLICT"
        PROVE  marker[d][e] # None
    BY <1>3, <1>8, <2>1, NoneAssumption DEF PausedOn, Pending, Refusals
  <2>. QED BY <1>1, <1>4, <2>1 DEF PausedOn
<1>15. RowsOn(d)'
  BY <1>1, <1>4, <1>8 DEF RowsOn, True, Revision
<1>16. ResolutionsOn(d)'
  <2>1. ASSUME NEW n \in Entities, marker[d][n] # None, marker[d][n].resolution # None
        PROVE  /\ \A x \in Pending(outbox'[d], n) \ marker[d][n].resolution.supersedes :
                    outbox'[d][x].error = "CONFLICT" /\ \A op \in Requested : op.id # x
               /\ \A x \in marker[d][n].resolution.supersedes :
                    x \notin fresh /\ (outbox'[d][x] # None => outbox'[d][x].op.e = n)
    <3>1. marker[d][n].resolution.supersedes \subseteq Edits
      BY <1>0, <2>1, Typed DEF Markers, ResolutionRecords
    <3>2. \A x \in Pending(outbox[d], n) : x \in Edits
      BY DEF Pending
    <3>. QED BY <1>3, <1>4, <1>8, <2>1, <3>1, <3>2 DEF ResolutionsOn
  <2>2. ASSUME NEW n \in Entities, marker[d][n] # None, marker[d][n].resolution # None
        PROVE  marker[d][n].resolution.op.e = n /\ marker[d][n].resolution.op.id \in Resolutions
    BY <1>8, <2>2 DEF ResolutionsOn
  <2>3. preview[d] # None => Undecided(preview[d].marker)
    BY <1>8 DEF ResolutionsOn
  <2>. QED BY <1>1, <1>6, <2>1, <2>2, <2>3 DEF ResolutionsOn, Undecided
<1>17. Holds(d)'
  BY <1>10, <1>11, <1>12, <1>13, <1>14, <1>15, <1>16 DEF Holds
<1>18. \A o \in Devices \ {d} :
         /\ outbox'[o] = outbox[o] /\ local'[o] = local[o] /\ marker'[o] = marker[o]
         /\ preview'[o] = preview[o] /\ sync'[o] = sync[o]
         /\ Spares(o)
  BY <1>1, <1>4, <1>6
<1>. QED BY <1>1, <1>5, <1>6, <1>7, <1>17, <1>18, DeviceKeeps

-----------------------------------------------------------------------------
(* Steps that touch the conflicts of a device. *)

LEMMA CloseTabKeeps ==
  ASSUME Inductive, NEW d \in Devices, CloseTab(d)
  PROVE  Inductive'
<1>0. TypeOK /\ Shared /\ \A o \in Devices : Holds(o)
  BY Parts
<1>1. /\ sync' = [sync EXCEPT ![d] = Idle]
      /\ preview' = [preview EXCEPT ![d] = None]
      /\ late' = late \/ late' = late \cup {sync[d].ops}
      /\ UNCHANGED <<history, copies, receipts, outbox, local, marker, listed, fresh, decided,
                    overlaid>>
  BY DEF CloseTab, Abandoned, server, ghost
<1>2. /\ sync'[d] = Idle /\ preview'[d] = None
      /\ \A o \in Devices \ {d} : sync'[o] = sync[o] /\ preview'[o] = preview[o]
  BY <1>0, <1>1 DEF TypeOK
<1>3. TypeOK'
  <2>1. Idle \in Syncs
    BY DEF Idle, Untried, Request, Syncs
  <2>2. sync[d].ops \in SUBSET Operations
    BY <1>0, Typed DEF Syncs
  <2>. QED BY <1>0, <1>1, <2>1, <2>2 DEF TypeOK
<1>4. Requested' \subseteq Requested /\ \A o : Spares(o)
  <2>1. \A o \in Devices : sync'[o].ops \subseteq sync[o].ops
    BY <1>2 DEF Idle, Request
  <2>. QED BY <1>1, <2>1, NothingRequested
<1>5. Grows
  BY <1>0, <1>1, HistoryStays
<1>6. Shared'
  BY <1>0, <1>1, <1>4 DEF Shared
<1>7. OrderedOn(d)' /\ RowsOn(d)' /\ OperationsOn(d)' /\ PausedOn(d)'
  BY <1>0, <1>1, <1>4, <1>5, Frame
<1>8. RequestOn(d)' /\ KeptOn(d)'
  BY <1>2, IdleHolds
<1>9. ResolutionsOn(d)'
  <2>1. ResolutionsOn(d)
    BY <1>0 DEF Holds
  <2>. QED BY <1>1, <1>2, <1>4, <2>1 DEF ResolutionsOn
<1>10. Holds(d)'
  BY <1>7, <1>8, <1>9 DEF Holds
<1>. QED BY <1>1, <1>2, <1>3, <1>4, <1>5, <1>6, <1>10, DeviceKeeps

\* A marker that is set anew has no resolution yet.
LEMMA EnsureConflictKeeps ==
  ASSUME Inductive, NEW d \in Devices, NEW c \in listed[d], EnsureConflict(d, c)
  PROVE  Inductive'
<1>0. TypeOK /\ Shared /\ \A o \in Devices : Holds(o)
  BY Parts
<1> DEFINE m == [copy |-> c.id, content |-> c.content, resolution |-> None]
<1>1. /\ marker[d][c.e] = None
      /\ marker' = [marker EXCEPT ![d][c.e] = m]
      /\ UNCHANGED <<history, copies, receipts, late, outbox, local, preview, listed, sync, fresh,
                    decided, overlaid>>
  BY DEF EnsureConflict, server, ghost
<1>2. c.e \in Entities /\ m \in Markers /\ m # None /\ m.resolution = None
  <2>1. c \in Copies
    BY <1>0 DEF TypeOK
  <2>2. m \in Markers
    BY <2>1 DEF Copies, Markers
  <2>. QED BY <2>1, <2>2, NoneAssumption DEF Copies
<1>3. /\ marker'[d][c.e] = m
      /\ \A e \in Entities : e # c.e => marker'[d][e] = marker[d][e]
      /\ \A o \in Devices \ {d} : marker'[o] = marker[o]
  BY <1>0, <1>1, <1>2 DEF TypeOK
<1>4. TypeOK'
  <2>1. marker' \in [Devices -> [Entities -> Markers \cup {None}]]
    BY <1>0, <1>1, <1>2 DEF TypeOK
  <2>. QED BY <1>0, <1>1, <2>1 DEF TypeOK
<1>5. Requested' = Requested /\ Grows /\ \A o : Spares(o)
  BY <1>0, <1>1, HistoryStays DEF Requested, Spares
<1>6. Shared'
  BY <1>0, <1>1, <1>5 DEF Shared
<1>7. OrderedOn(d)' /\ RowsOn(d)' /\ OperationsOn(d)' /\ RequestOn(d)'
  BY <1>0, <1>1, <1>5, Frame
<1>8. KeptOn(d)'
  <2>1. KeptOn(d)
    BY <1>0 DEF Holds
  <2>2. ASSUME Resolving(d)
        PROVE  /\ marker'[d][Resolution(d).e] = marker[d][Resolution(d).e]
    <3>1. Resolution(d).e # c.e
      BY <1>1, <2>1, <2>2 DEF KeptOn, Current
    <3>2. Resolution(d).e \in Entities
      <4>1. Resolution(d) \in sync[d].ops
        BY <2>2 DEF Resolving, Resolution
      <4>. QED BY <1>0, <4>1, Typed DEF Syncs, Operations
    <3>. QED BY <1>3, <3>1, <3>2
  <2>3. (Resolving(d)' <=> Resolving(d)) /\ Resolution(d)' = Resolution(d)
    BY <1>1 DEF Resolving, Resolution
  <2>. QED BY <2>1, <2>2, <2>3 DEF KeptOn, Current
<1>9. PausedOn(d)'
  <2>1. PausedOn(d)
    BY <1>0 DEF Holds
  <2>. QED BY <1>1, <1>2, <1>3, <2>1 DEF PausedOn
<1>10. ResolutionsOn(d)'
  <2>1. ResolutionsOn(d)
    BY <1>0 DEF Holds
  <2>2. \A e \in Entities : marker'[d][e] # None /\ marker'[d][e].resolution # None =>
          marker'[d][e] = marker[d][e]
    BY <1>2, <1>3
  <2>3. preview'[d] # None => Undecided(preview'[d].marker)
    BY <1>1, <2>1 DEF ResolutionsOn
  <2>. QED BY <1>1, <1>5, <2>1, <2>2, <2>3 DEF ResolutionsOn
<1>11. Holds(d)'
  BY <1>7, <1>8, <1>9, <1>10 DEF Holds
<1>. QED BY <1>1, <1>3, <1>4, <1>5, <1>6, <1>11, DeviceKeeps

LEMMA CompareKeeps ==
  ASSUME Inductive, NEW d \in Devices, NEW e \in Entities, Compare(d, e)
  PROVE  Inductive'
<1>0. TypeOK /\ Shared /\ \A o \in Devices : Holds(o)
  BY Parts
<1>1. /\ marker[d][e] # None /\ Undecided(marker[d][e])
      /\ UNCHANGED <<history, copies, receipts, late, outbox, local, marker, listed, sync, fresh,
                    decided, overlaid>>
  BY DEF Compare, server, ghost
<1>2. PICK p :
        /\ preview' = [preview EXCEPT ![d] = p]
        /\ p \in Previews /\ p.marker = marker[d][e]
  <2>1. PICK c \in copies :
          LET mine == Pending(outbox[d], e)
              shown == IF mine = {} THEN marker[d][e].content
                       ELSE LatestContent(outbox[d], mine)
          IN preview' = [preview EXCEPT ![d] =
               [e |-> e, marker |-> marker[d][e], pending |-> mine,
                base |-> Revision(e), seenCopy |-> c.rev,
                content |-> Content(e) \cup c.content \cup shown]]
    BY DEF Compare
  <2> DEFINE mine == Pending(outbox[d], e)
             shown == IF mine = {} THEN marker[d][e].content
                      ELSE LatestContent(outbox[d], mine)
             p == [e |-> e, marker |-> marker[d][e], pending |-> mine,
                   base |-> Revision(e), seenCopy |-> c.rev,
                   content |-> Content(e) \cup c.content \cup shown]
  <2>2. marker[d][e] \in Markers /\ c \in Copies
    BY <1>0, <1>1, Typed DEF TypeOK
  <2>3. mine \in SUBSET Edits /\ \A x \in mine : outbox[d][x].op.content \in SUBSET Edits
    BY <1>0, Typed DEF Pending, Queued, Operations
  <2>4. shown \in SUBSET Edits
    BY <2>2, <2>3 DEF LatestContent, Markers
  <2>5. Content(e) \in SUBSET Edits /\ Revision(e) \in Nat
    BY <1>0, ContentTyped
  <2> HIDE DEF mine, shown
  <2>6. p \in Previews
    BY <2>2, <2>3, <2>4, <2>5 DEF Previews, Copies
  <2>7. preview' = [preview EXCEPT ![d] = p]
    BY <2>1 DEF mine, shown
  <2>8. p.marker = marker[d][e]
    OBVIOUS
  <2> HIDE DEF p
  <2>. QED BY <2>6, <2>7, <2>8
<1>3. preview'[d] = p /\ \A o \in Devices \ {d} : preview'[o] = preview[o]
  BY <1>0, <1>2 DEF TypeOK
<1>4. TypeOK'
  BY <1>0, <1>1, <1>2 DEF TypeOK
<1>5. Requested' = Requested /\ Grows /\ \A o : Spares(o)
  BY <1>0, <1>1, HistoryStays DEF Requested, Spares
<1>6. Shared'
  BY <1>0, <1>1, <1>5 DEF Shared
<1>7. /\ OrderedOn(d)' /\ RowsOn(d)' /\ OperationsOn(d)' /\ RequestOn(d)' /\ KeptOn(d)'
      /\ PausedOn(d)'
  BY <1>0, <1>1, <1>5, Frame
<1>8. ResolutionsOn(d)'
  <2>1. ResolutionsOn(d)
    BY <1>0 DEF Holds
  <2>2. preview'[d] # None => Undecided(preview'[d].marker)
    BY <1>1, <1>2, <1>3
  <2>. QED BY <1>1, <1>5, <2>1, <2>2 DEF ResolutionsOn
<1>9. Holds(d)'
  BY <1>7, <1>8 DEF Holds
<1>. QED BY <1>1, <1>3, <1>4, <1>5, <1>6, <1>9, DeviceKeeps

\* What the resolution does not supersede is nothing, at first; and none is
\* under way whose request it could replace.
LEMMA PrepareKeeps ==
  ASSUME Inductive, NEW d \in Devices, NEW r \in Resolutions, NEW keep \in BOOLEAN,
         Prepare(d, r, keep)
  PROVE  Inductive'
<1>0. TypeOK /\ Shared /\ \A o \in Devices : Holds(o)
  BY Parts
<1> DEFINE p == preview[d]
           e == p.e
           op == [id |-> r, e |-> p.e, base |-> p.base, content |-> p.content,
                  copy |-> p.marker.copy, seenCopy |-> p.seenCopy, keep |-> keep]
           record == [op |-> op, supersedes |-> p.pending, prior |-> local[d][p.e].content,
                      stale |-> FALSE]
           m == [p.marker EXCEPT !.resolution = record]
<1>1. /\ p # None /\ marker[d][e] = p.marker /\ Pending(outbox[d], e) = p.pending
      /\ marker' = [marker EXCEPT ![d][e].resolution = record]
      /\ preview' = [preview EXCEPT ![d] = None]
      /\ fresh' = fresh \ {r}
      /\ UNCHANGED <<history, copies, receipts, late, outbox, local, listed, sync, decided,
                    overlaid>>
  BY DEF Prepare, server, ghost
<1>2. /\ p \in Previews /\ e \in Entities /\ p.marker \in Markers /\ Undecided(p.marker)
  BY <1>0, <1>1, Typed DEF Previews, Holds, ResolutionsOn
<1>3. record \in ResolutionRecords /\ record # None
  <2>1. local[d][e] \in Rows
    BY <1>0, <1>2, Typed
  <2>2. op \in Operations
    BY <1>2 DEF Previews, Operations, Markers
  <2>3. record \in ResolutionRecords
    BY <1>2, <2>1, <2>2 DEF Previews, ResolutionRecords, Rows
  <2>. QED BY <2>3, NoneAssumption
<1>4. m \in Markers /\ m # None /\ m.resolution = record
  <2>1. m \in Markers /\ m.resolution = record
    BY <1>2, <1>3 DEF Markers
  <2>. QED BY <2>1, NoneAssumption
<1>5. record.op.e = e /\ record.op.id = r /\ record.supersedes = Pending(outbox[d], e)
  BY <1>1
<1> HIDE DEF record, m
<1>6. /\ marker'[d][e] = m
      /\ \A n \in Entities : n # e => marker'[d][n] = marker[d][n]
      /\ \A o \in Devices \ {d} : marker'[o] = marker[o]
      /\ preview'[d] = None /\ \A o \in Devices \ {d} : preview'[o] = preview[o]
  BY <1>0, <1>1, <1>2 DEF TypeOK, m
<1>7. TypeOK'
  <2>1. marker' \in [Devices -> [Entities -> Markers \cup {None}]]
    <3>1. marker' = [marker EXCEPT ![d] = [marker[d] EXCEPT ![e] = m]]
      BY <1>0, <1>1, <1>2 DEF TypeOK, m
    <3>. QED BY <1>0, <1>2, <1>4, <3>1 DEF TypeOK
  <2>. QED BY <1>0, <1>1, <2>1 DEF TypeOK
<1>8. Requested' = Requested /\ Grows /\ \A o : Spares(o)
  BY <1>0, <1>1, HistoryStays DEF Requested, Spares
<1>9. Shared'
  BY <1>0, <1>1, <1>8 DEF Shared
<1>10. fresh' \subseteq fresh
  BY <1>1
<1>11. OrderedOn(d)' /\ RowsOn(d)' /\ OperationsOn(d)' /\ RequestOn(d)'
  BY <1>0, <1>1, <1>8, <1>10, Frame
<1>12. KeptOn(d)'
  <2>1. KeptOn(d)
    BY <1>0 DEF Holds
  <2>2. ASSUME Resolving(d)
        PROVE  marker'[d][Resolution(d).e] = marker[d][Resolution(d).e]
    <3>1. Resolution(d).e # e
      BY <1>1, <1>2, <2>1, <2>2 DEF KeptOn, Current, Undecided
    <3>2. Resolution(d).e \in Entities
      <4>1. Resolution(d) \in sync[d].ops
        BY <2>2 DEF Resolving, Resolution
      <4>. QED BY <1>0, <4>1, Typed DEF Syncs, Operations
    <3>. QED BY <1>6, <3>1, <3>2
  <2>3. (Resolving(d)' <=> Resolving(d)) /\ Resolution(d)' = Resolution(d)
    BY <1>1 DEF Resolving, Resolution
  <2>. QED BY <2>1, <2>2, <2>3 DEF KeptOn, Current
<1>13. PausedOn(d)'
  <2>1. PausedOn(d)
    BY <1>0 DEF Holds
  <2>. QED BY <1>1, <1>4, <1>6, <2>1 DEF PausedOn
<1>14. ResolutionsOn(d)'
  <2>1. ResolutionsOn(d) /\ OperationsOn(d)
    BY <1>0 DEF Holds
  <2>2. \A x \in Pending(outbox[d], e) : x \notin fresh /\ outbox[d][x].op.e = e
    BY <2>1 DEF OperationsOn, Pending
  <2>3. ASSUME NEW n \in Entities, marker'[d][n] # None, marker'[d][n].resolution # None
        PROVE  /\ marker'[d][n].resolution.op.e = n
               /\ marker'[d][n].resolution.op.id \in Resolutions
               /\ \A x \in Pending(outbox[d], n) \ marker'[d][n].resolution.supersedes :
                    outbox[d][x].error = "CONFLICT" /\ \A o \in Requested : o.id # x
               /\ \A x \in marker'[d][n].resolution.supersedes :
                    x \notin fresh' /\ (outbox[d][x] # None => outbox[d][x].op.e = n)
    <3>1. CASE n = e
      BY <1>4, <1>5, <1>6, <1>10, <2>2, <3>1
    <3>2. CASE n # e
      BY <1>6, <1>10, <2>1, <2>3, <3>2 DEF ResolutionsOn
    <3>. QED BY <3>1, <3>2
  <2>. QED BY <1>1, <1>6, <1>8, <2>3 DEF ResolutionsOn
<1>15. Holds(d)'
  BY <1>11, <1>12, <1>13, <1>14 DEF Holds
<1>16. \A o \in Devices \ {d} :
         /\ outbox'[o] = outbox[o] /\ local'[o] = local[o] /\ marker'[o] = marker[o]
         /\ preview'[o] = preview[o] /\ sync'[o] = sync[o]
         /\ Spares(o)
  BY <1>1, <1>6, <1>8
<1>. QED BY <1>7, <1>8, <1>9, <1>10, <1>15, <1>16, DeviceKeeps

-----------------------------------------------------------------------------
(* Requests are sent. *)

\* A step of device d that only starts a request for ops.
LEMMA WaitKeeps ==
  ASSUME Inductive, NEW d \in Devices, NEW ops \in SUBSET Operations,
         NEW tries \in [Edits -> Nat],
         sync' = [sync EXCEPT ![d] = Request("sent", ops, tries, None, {}, None)],
         UNCHANGED <<history, copies, receipts, late, outbox, local, marker, preview, listed,
                    fresh, decided, overlaid>>,
         \A op \in ops : op.id \in Edits =>
           /\ outbox[d][op.id] # None /\ outbox[d][op.id].op = op
           /\ outbox[d][op.id].error # "CONFLICT",
         RequestOn(d)', KeptOn(d)'
  PROVE  Inductive'
<1>0. TypeOK /\ Shared /\ \A o \in Devices : Holds(o)
  BY Parts
<1>1. /\ sync'[d] = Request("sent", ops, tries, None, {}, None) /\ sync'[d].ops = ops
      /\ \A o \in Devices \ {d} : sync'[o] = sync[o]
  BY <1>0 DEF TypeOK, Request
<1>2. TypeOK'
  <2>1. Request("sent", ops, tries, None, {}, None) \in Syncs
    BY DEF Request, Syncs
  <2>. QED BY <1>0, <2>1 DEF TypeOK
<1>3. Requested' \subseteq Requested \cup ops
  BY <1>1, RequestedBound
<1>4. Grows
  BY <1>0, HistoryStays
<1>5. OrderedOn(d) /\ OperationsOn(d) /\ ResolutionsOn(d)
  BY <1>0 DEF Holds
<1>6. \A o \in Devices \ {d} : Spares(o)
  BY <1>0, <1>3 DEF Spares, Shared
<1>7. Shared'
  <2>1. \A op \in Requested' : op.id \in Edits => op.id \notin fresh
    BY <1>0, <1>3, <1>5 DEF Shared, OperationsOn
  <2>. QED BY <1>0, <2>1 DEF Shared
<1>8. OrderedOn(d)' /\ RowsOn(d)' /\ PausedOn(d)'
  BY <1>0, <1>4, Frame
<1>9. OperationsOn(d)'
  BY <1>3, <1>5 DEF OperationsOn
<1>10. ResolutionsOn(d)'
  <2>1. ASSUME NEW n \in Entities, marker[d][n] # None, marker[d][n].resolution # None,
               NEW x \in Pending(outbox[d], n) \ marker[d][n].resolution.supersedes,
               NEW op \in Requested'
        PROVE  op.id # x
    <3>1. x \in Edits /\ outbox[d][x].error = "CONFLICT" /\ \A o \in Requested : o.id # x
      BY <1>5, <2>1 DEF ResolutionsOn, Pending
    <3>. QED BY <1>3, <3>1
  <2>2. preview[d] # None => Undecided(preview[d].marker)
    BY <1>5 DEF ResolutionsOn
  <2>. QED BY <1>5, <2>1, <2>2 DEF ResolutionsOn, Undecided
<1>11. Holds(d)'
  BY <1>8, <1>9, <1>10 DEF Holds
<1>. QED BY <1>1, <1>2, <1>4, <1>6, <1>7, <1>11, DeviceKeeps

LEMMA FlushKeeps ==
  ASSUME Inductive, NEW d \in Devices, Flush(d)
  PROVE  Inductive'
<1>0. TypeOK /\ Shared /\ \A o \in Devices : Holds(o)
  BY Parts
<1> DEFINE ops == {outbox[d][x].op : x \in Sendable(outbox[d])}
           tries == [x \in Edits |-> IF x \in Sendable(outbox[d]) THEN outbox[d][x].attempts ELSE 0]
<1>1. /\ sync' = [sync EXCEPT ![d] = Request("sent", ops, tries, None, {}, None)]
      /\ UNCHANGED <<history, copies, receipts, late, outbox, local, marker, preview, listed,
                    fresh, decided, overlaid>>
  BY DEF Flush, Wait, server, device, ghost
<1>2. ASSUME NEW op \in ops
      PROVE  /\ op \in Operations /\ op.id \in Edits /\ op.id \notin Resolutions
             /\ outbox[d][op.id] # None /\ outbox[d][op.id].op = op
             /\ outbox[d][op.id].error # "CONFLICT"
  <2>1. PICK x \in Sendable(outbox[d]) : op = outbox[d][x].op
    OBVIOUS
  <2>2. x \in Edits /\ outbox[d][x] # None /\ outbox[d][x].error # "CONFLICT"
    BY DEF Sendable
  <2>3. outbox[d][x].op \in Operations /\ outbox[d][x].op.id = x
    BY <1>0, <2>2, Typed DEF Queued, Holds, OperationsOn
  <2>. QED BY <2>1, <2>2, <2>3, OfflineAssumption
<1>2a. tries \in [Edits -> Nat]
  <2>1. \A x \in Sendable(outbox[d]) : outbox[d][x].attempts \in Nat
    BY <1>0, Typed DEF Sendable, Queued
  <2>. QED BY <2>1
<1> HIDE DEF ops, tries
<1>3. /\ sync'[d] = Request("sent", ops, tries, None, {}, None)
  BY <1>0, <1>1 DEF TypeOK
<1>4. /\ sync'[d].ops = ops /\ sync'[d].stage = "sent" /\ sync'[d].refusal = None
      /\ ~ Resolving(d)'
  BY <1>2, <1>3 DEF Request, Resolving
<1>5. RequestOn(d)' /\ KeptOn(d)'
  BY <1>1, <1>2, <1>4, NoneAssumption DEF RequestOn, KeptOn, Refusals
<1>6. ops \in SUBSET Operations
  BY <1>2
<1>. QED BY <1>1, <1>2, <1>2a, <1>5, <1>6, WaitKeeps

LEMMA SendResolutionKeeps ==
  ASSUME Inductive, NEW d \in Devices, NEW e \in Entities, SendResolution(d, e)
  PROVE  Inductive'
<1>0. TypeOK /\ Shared /\ \A o \in Devices : Holds(o)
  BY Parts
<1> DEFINE op == marker[d][e].resolution.op
<1>1. /\ marker[d][e] # None /\ marker[d][e].resolution # None
      /\ ~ marker[d][e].resolution.stale
      /\ sync' = [sync EXCEPT ![d] = Request("sent", {op}, Untried, None, {}, None)]
      /\ UNCHANGED <<history, copies, receipts, late, outbox, local, marker, preview, listed,
                    fresh, decided, overlaid>>
  BY DEF SendResolution, Wait, server, device, ghost
<1>2. op \in Operations /\ op.e = e /\ op.id \in Resolutions /\ op.id \notin Edits
  BY <1>0, <1>1, Typed, OfflineAssumption
  DEF Markers, ResolutionRecords, Holds, ResolutionsOn
<1> HIDE DEF op
<1>3. sync'[d] = Request("sent", {op}, Untried, None, {}, None)
  BY <1>0, <1>1 DEF TypeOK
<1>4. /\ sync'[d].ops = {op} /\ sync'[d].stage = "sent"
      /\ Resolving(d)' /\ Resolution(d)' = op
  BY <1>2, <1>3 DEF Request, Resolving, Resolution
<1>5. RequestOn(d)' /\ KeptOn(d)'
  BY <1>1, <1>2, <1>4 DEF RequestOn, KeptOn, Current, op
<1>6. /\ {op} \in SUBSET Operations /\ \A o \in {op} : o.id \notin Edits
      /\ Untried \in [Edits -> Nat]
  BY <1>2 DEF Untried
<1>. QED BY <1>1, <1>5, <1>6, WaitKeeps

-----------------------------------------------------------------------------
(* Requests are answered. *)

\* What applying requested operations does to the server.
LEMMA Applied ==
  ASSUME TypeOK, Shared, NEW ops \in SUBSET Operations, ops \subseteq Requested, Apply(ops)
  PROVE  /\ history' \in [Entities -> Seq(SUBSET Edits)] /\ Grows
         /\ copies' \subseteq Copies
         /\ receipts' \in [Edits \cup Resolutions -> Answers \cup {None}]
         /\ decided' \subseteq Edits
         /\ {Answered(op) : op \in ops} \subseteq Answers
         /\ \A i \in DOMAIN receipts' : receipts'[i] # None =>
              /\ receipts'[i] = receipts[i] \/ receipts'[i].op \in Requested
              /\ receipts'[i].op.id = i
<1>1. \A op \in ops : op.content \in SUBSET Edits /\ op.id \in Edits \cup Resolutions /\ op.e \in Entities
  BY DEF Operations
<1>2. history' \in [Entities -> Seq(SUBSET Edits)] /\ Grows
  <2>1. ASSUME NEW e \in Entities
        PROVE  \/ history'[e] = history[e]
               \/ \E c \in SUBSET Edits : history'[e] = Append(history[e], c)
    <3> DEFINE own == {op \in ops : op.e = e /\ Writes(op)}
    <3>1. history'[e] = IF own = {} THEN history[e]
                        ELSE Append(history[e], (CHOOSE op \in own : TRUE).content)
      BY DEF Apply
    <3>2. own # {} => (CHOOSE op \in own : TRUE) \in ops
      OBVIOUS
    <3>. QED BY <1>1, <3>1, <3>2
  <2>2. history' = [e \in Entities |-> history'[e]]
    BY DEF Apply
  <2>. QED BY <2>1, <2>2, AppendGrows
<1>3. copies' \subseteq Copies
  <2>1. ASSUME NEW op \in ops, Conflicts(op)
        PROVE  [id |-> op.id, e |-> op.e, content |-> op.content, rev |-> 1] \in Copies
    BY <1>1, <2>1 DEF Conflicts, Copies
  <2>. QED BY <2>1 DEF Apply, TypeOK
<1>4. ASSUME NEW op \in ops
      PROVE  /\ Answered(op) \in Answers
             /\ Answered(op).op.id = op.id
             /\ Answered(op).op \in Requested
  <2>1. CASE Known(op)
    <3>1. receipts[op.id] # None /\ Answered(op) = receipts[op.id] /\ op.id \in DOMAIN receipts
      BY <1>1, <2>1 DEF Known, Answered, TypeOK
    <3>2. receipts[op.id] \in Answers /\ receipts[op.id].op.id = op.id
      BY <1>1, <3>1 DEF TypeOK, Shared
    <3>3. receipts[op.id].op \in Requested
      BY <3>1 DEF Requested
    <3>. QED BY <3>1, <3>2, <3>3
  <2>2. CASE ~ Known(op)
    <3>1. Answered(op) = [op |-> op, copied |-> Conflicts(op),
                          rev |-> Revision(op.e) + (IF Writes(op) THEN 1 ELSE 0)]
      BY <2>2 DEF Answered
    <3>2. Revision(op.e) \in Nat
      BY <1>1, ContentTyped
    <3>3. Conflicts(op) \in BOOLEAN /\ (Conflicts(op) => op.id \in Edits)
      BY <1>1 DEF Conflicts
    <3>4. Revision(op.e) + (IF Writes(op) THEN 1 ELSE 0) \in Nat
      BY <3>2
    <3>. QED BY <3>1, <3>3, <3>4 DEF Answers
  <2>. QED BY <2>1, <2>2
<1>5. ASSUME NEW i \in Edits \cup Resolutions
      PROVE  /\ receipts'[i] \in Answers \cup {None}
             /\ receipts'[i] # None =>
                  /\ receipts'[i] = receipts[i] \/ receipts'[i].op \in Requested
                  /\ receipts'[i].op.id = i
  <2>1. receipts'[i] = IF \E op \in ops : op.id = i
                       THEN Answered(CHOOSE op \in ops : op.id = i) ELSE receipts[i]
    BY DEF Apply, TypeOK
  <2>2. CASE \E op \in ops : op.id = i
    <3>1. (CHOOSE op \in ops : op.id = i) \in ops /\ (CHOOSE op \in ops : op.id = i).id = i
      BY <2>2
    <3>. QED BY <1>4, <2>1, <2>2, <3>1
  <2>3. CASE ~ \E op \in ops : op.id = i
    BY <2>1, <2>3 DEF TypeOK, Shared
  <2>. QED BY <2>2, <2>3
<1>6. receipts' = [i \in Edits \cup Resolutions |-> receipts'[i]]
  BY DEF Apply, TypeOK
<1>7. decided' \subseteq Edits
  BY <1>1 DEF Apply, TypeOK
<1>8. DOMAIN receipts' = Edits \cup Resolutions
  BY <1>6
<1>9. receipts' \in [Edits \cup Resolutions -> Answers \cup {None}]
  BY <1>5, <1>6
<1>. QED BY <1>2, <1>3, <1>4, <1>5, <1>7, <1>8, <1>9

\* An edit that has been requested meets no receipt but its own.
LEMMA FlushIsNoConflict ==
  ASSUME TypeOK, Shared, NEW d \in Devices, OperationsOn(d), RequestOn(d), ~ Resolving(d)
  PROVE  Refusal(sync[d].ops) # "CONFLICT"
<1>1. ASSUME NEW op \in sync[d].ops, Known(op)
      PROVE  receipts[op.id].op = op
  <2>1. op.id \in Edits /\ op \in Requested
    BY Typed DEF Resolving, Syncs, Operations, Requested
  <2>2. outbox[d][op.id] # None /\ outbox[d][op.id].op = op
    BY <2>1 DEF RequestOn, OperationsOn
  <2>3. op.id \in DOMAIN receipts /\ receipts[op.id] # None
    BY <1>1, <2>1 DEF TypeOK, Known
  <2>4. receipts[op.id].op \in Requested /\ receipts[op.id].op.id = op.id
    BY <2>3 DEF Requested, Shared
  <2>. QED BY <2>1, <2>2, <2>4 DEF OperationsOn
<1>. QED BY <1>1, NoneAssumption DEF Refusal, Refusals

LEMMA ServeKeeps ==
  ASSUME Inductive, NEW d \in Devices, Serve(d)
  PROVE  Inductive'
<1>0. TypeOK /\ Shared /\ \A o \in Devices : Holds(o)
  BY Parts
<1> DEFINE ops == sync[d].ops
           tries == sync[d].tries
<1>1. /\ sync[d].stage = "sent"
      /\ UNCHANGED <<late, outbox, local, marker, preview, listed, fresh, overlaid>>
  BY DEF Serve, device
<1>2. sync[d] \in Syncs /\ ops \in SUBSET Operations /\ ops \subseteq Requested
  BY <1>0, Typed DEF Syncs, Requested
<1>3. PICK refusal \in Refusals \cup {None}, stage \in {"refused", "answered"},
           answers \in SUBSET Answers :
        /\ sync' = [sync EXCEPT ![d] = Request(stage, ops, tries, refusal, answers, None)]
        /\ stage = "refused" => refusal # None
        /\ ~ Resolving(d) => refusal # "CONFLICT"
        /\ stage = "answered" => (ops # {} => answers # {})
        /\ history' \in [Entities -> Seq(SUBSET Edits)] /\ Grows
        /\ copies' \subseteq Copies
        /\ receipts' \in [Edits \cup Resolutions -> Answers \cup {None}]
        /\ decided' \subseteq Edits
        /\ \A i \in DOMAIN receipts' : receipts'[i] # None =>
              /\ receipts'[i] = receipts[i] \/ receipts'[i].op \in Requested
              /\ receipts'[i].op.id = i
  <2>1. CASE Refusal(ops) # None
    <3>1. /\ sync' = [sync EXCEPT ![d] = Request("refused", ops, tries, Refusal(ops), {}, None)]
          /\ UNCHANGED <<history, copies, receipts, decided>>
      BY <2>1 DEF Serve, server
    <3>2. Refusal(ops) \in Refusals
      BY <2>1 DEF Refusal, Refusals
    <3>3. ~ Resolving(d) => Refusal(ops) # "CONFLICT"
      BY <1>0, FlushIsNoConflict DEF Holds
    <3>4. /\ history' \in [Entities -> Seq(SUBSET Edits)] /\ Grows
          /\ copies' \subseteq Copies
          /\ receipts' \in [Edits \cup Resolutions -> Answers \cup {None}]
          /\ decided' \subseteq Edits
      BY <1>0, <3>1, HistoryStays DEF TypeOK
    <3>5. \A i \in DOMAIN receipts' : receipts'[i] # None =>
              receipts'[i] = receipts[i] /\ receipts'[i].op.id = i
      BY <1>0, <3>1 DEF Shared
    <3>6. {} \in SUBSET Answers /\ "refused" # "answered" /\ Refusal(ops) \in Refusals \cup {None}
      BY <3>2
    <3> DEFINE f == Refusal(ops)
    <3>7. /\ f \in Refusals \cup {None} /\ f # None /\ (~ Resolving(d) => f # "CONFLICT")
          /\ sync' = [sync EXCEPT ![d] = Request("refused", ops, tries, f, {}, None)]
      BY <2>1, <3>1, <3>3, <3>6
    <3> HIDE DEF f, ops, tries
    <3>. QED BY <3>4, <3>5, <3>6, <3>7
  <2>2. CASE Refusal(ops) = None
    <3> DEFINE answers == {Answered(op) : op \in ops}
    <3>1. /\ Apply(ops)
          /\ sync' = [sync EXCEPT ![d] = Request("answered", ops, tries, None, answers, None)]
      BY <2>2 DEF Serve
    <3>2. answers \in SUBSET Answers /\ (ops # {} => answers # {})
      BY <1>0, <1>2, <3>1, Applied
    <3>3. None # "CONFLICT"
      BY NoneAssumption DEF Refusals
    <3>4. /\ history' \in [Entities -> Seq(SUBSET Edits)] /\ Grows
          /\ copies' \subseteq Copies
          /\ receipts' \in [Edits \cup Resolutions -> Answers \cup {None}]
          /\ decided' \subseteq Edits
          /\ \A i \in DOMAIN receipts' : receipts'[i] # None =>
                /\ receipts'[i] = receipts[i] \/ receipts'[i].op \in Requested
                /\ receipts'[i].op.id = i
      BY <1>0, <1>2, <3>1, Applied
    <3> HIDE DEF answers, ops, tries
    <3>. QED BY <3>1, <3>2, <3>3, <3>4
  <2>. QED BY <2>1, <2>2
<1>4. /\ sync'[d] = Request(stage, ops, tries, refusal, answers, None)
      /\ \A o \in Devices \ {d} : sync'[o] = sync[o]
  BY <1>0, <1>3 DEF TypeOK
<1>5. TypeOK'
  <2>1. Request(stage, ops, tries, refusal, answers, None) \in Syncs
    BY <1>2, <1>3 DEF Request, Syncs
  <2>. QED BY <1>0, <1>1, <1>3, <2>1 DEF TypeOK
<1>6. Requested' \subseteq Requested
  <2>1. \A o \in Devices : sync'[o].ops \subseteq sync[o].ops \cup {}
    BY <1>4 DEF Request
  <2>2. DOMAIN receipts' = DOMAIN receipts
    BY <1>0, <1>3 DEF TypeOK
  <2>3. Requested' \subseteq Requested \cup {}
    BY <1>1, <1>3, <2>1, <2>2, RequestedBound
  <2>. QED BY <2>3
<1>7. \A o : Spares(o)
  BY <1>6 DEF Spares
<1>8. Shared'
  BY <1>0, <1>1, <1>3, <1>6 DEF Shared
<1>9. OrderedOn(d)' /\ RowsOn(d)' /\ OperationsOn(d)' /\ PausedOn(d)' /\ ResolutionsOn(d)'
  BY <1>0, <1>1, <1>3, <1>7, Frame
<1>10. /\ (Resolving(d)' <=> Resolving(d)) /\ Resolution(d)' = Resolution(d)
       /\ sync'[d].ops = ops /\ sync'[d].stage = stage /\ sync'[d].refusal = refusal
       /\ sync'[d].answers = answers
  BY <1>4 DEF Request, Resolving, Resolution
<1>11. RequestOn(d)'
  <2>1. RequestOn(d)
    BY <1>0 DEF Holds
  <2>. QED BY <1>1, <1>3, <1>10, <2>1 DEF RequestOn
<1>12. KeptOn(d)'
  <2>1. KeptOn(d)
    BY <1>0 DEF Holds
  <2>. QED BY <1>1, <1>10, <2>1 DEF KeptOn, Current
<1>13. Holds(d)'
  BY <1>9, <1>11, <1>12 DEF Holds
<1>. QED BY <1>1, <1>3, <1>4, <1>5, <1>7, <1>8, <1>13, DeviceKeeps

LEMMA ServeLateKeeps ==
  ASSUME Inductive, NEW ops \in late, ServeLate(ops)
  PROVE  Inductive'
<1>0. TypeOK /\ Shared /\ \A o \in Devices : Holds(o)
  BY Parts
<1>1. /\ late' = late \ {ops}
      /\ UNCHANGED <<outbox, local, marker, preview, listed, sync, fresh, overlaid>>
  BY DEF ServeLate, device
<1>2. ops \in SUBSET Operations /\ ops \subseteq Requested
  BY <1>0 DEF TypeOK, Requested
<1>3. /\ history' \in [Entities -> Seq(SUBSET Edits)] /\ Grows
      /\ copies' \subseteq Copies
      /\ receipts' \in [Edits \cup Resolutions -> Answers \cup {None}]
      /\ decided' \subseteq Edits
      /\ \A i \in DOMAIN receipts' : receipts'[i] # None =>
            /\ receipts'[i] = receipts[i] \/ receipts'[i].op \in Requested
            /\ receipts'[i].op.id = i
  <2>1. CASE Refusal(ops) # None
    <3>1. UNCHANGED <<history, copies, receipts, decided>>
      BY <2>1 DEF ServeLate, server
    <3>. QED BY <1>0, <3>1, HistoryStays DEF TypeOK, Shared
  <2>2. CASE Refusal(ops) = None
    <3>1. Apply(ops)
      BY <2>2 DEF ServeLate
    <3>. QED BY <1>0, <1>2, <3>1, Applied
  <2>. QED BY <2>1, <2>2
<1>4. TypeOK'
  BY <1>0, <1>1, <1>3 DEF TypeOK
<1>5. Requested' \subseteq Requested
  <2>1. DOMAIN receipts' = DOMAIN receipts
    BY <1>0, <1>3 DEF TypeOK
  <2>2. Requested' \subseteq Requested \cup {}
    BY <1>1, <1>3, <2>1, RequestedBound
  <2>. QED BY <2>2
<1>6. \A o : Spares(o)
  BY <1>5 DEF Spares
<1>7. Shared'
  BY <1>0, <1>1, <1>3, <1>5 DEF Shared
<1>8. ASSUME NEW o \in Devices PROVE Holds(o)'
  BY <1>0, <1>1, <1>3, <1>6, OthersKeep
<1>. QED BY <1>4, <1>7, <1>8, PartsAfter

\* What is read for the answer is true.
LEMMA FetchKeeps ==
  ASSUME Inductive, NEW d \in Devices, Fetch(d)
  PROVE  Inductive'
<1>0. TypeOK /\ Shared /\ \A o \in Devices : Holds(o)
  BY Parts
<1> DEFINE rows == [e \in Entities |->
                      IF history'[e] = <<>> THEN NoRow
                      ELSE Row(Len(history'[e]), history'[e][Len(history'[e])])]
           snapshot == [rows |-> rows, copies |-> {c \in copies : c.e \in Notebooks}]
           read == Request("read", sync[d].ops, sync[d].tries, None, sync[d].answers, snapshot)
<1>1. /\ sync[d].stage = "answered"
      /\ history' = WithNotebooks(history)
      /\ sync' = [sync EXCEPT ![d] = read]
      /\ UNCHANGED <<copies, receipts, late, outbox, local, marker, preview, listed, fresh,
                    decided, overlaid>>
  BY DEF Fetch, device, ghost
<1>2. history' \in [Entities -> Seq(SUBSET Edits)] /\ Grows
  BY <1>0, <1>1, NotebooksGrow
<1>3. ASSUME NEW e \in Entities
      PROVE  rows[e] \in Rows /\ (rows[e].rev > 0 =>
               rows[e].rev <= Len(history'[e]) /\ rows[e].content = history'[e][rows[e].rev])
  <2>1. history'[e] \in Seq(SUBSET Edits)
    BY <1>2
  <2>2. CASE history'[e] = <<>>
    BY <2>2 DEF NoRow, Row, Rows
  <2>3. CASE history'[e] # <<>>
    <3>1. Len(history'[e]) \in Nat \ {0} /\ history'[e][Len(history'[e])] \in SUBSET Edits
      BY <2>1, <2>3
    <3>2. rows[e] = Row(Len(history'[e]), history'[e][Len(history'[e])])
      BY <2>3
    <3>. QED BY <3>1, <3>2 DEF Row, Rows
  <2>. QED BY <2>2, <2>3
<1>4. snapshot \in Snapshots /\ snapshot # None /\ snapshot.rows = rows
  <2>1. rows \in [Entities -> Rows]
    BY <1>3
  <2>2. snapshot \in Snapshots
    BY <1>0, <2>1 DEF Snapshots, TypeOK
  <2>. QED BY <2>2, NoneAssumption
<1> HIDE DEF snapshot, rows
<1>5. read \in Syncs
  BY <1>0, <1>4, Typed DEF Request, Syncs
<1>6. /\ read.stage = "read" /\ read.ops = sync[d].ops /\ read.refusal = None
      /\ read.answers = sync[d].answers /\ read.snapshot = snapshot
  BY DEF Request
<1> HIDE DEF read
<1>7. sync'[d] = read /\ \A o \in Devices \ {d} : sync'[o] = sync[o]
  BY <1>0, <1>1 DEF TypeOK
<1>8. TypeOK'
  BY <1>0, <1>1, <1>2, <1>5 DEF TypeOK
<1>9. Requested' \subseteq Requested /\ \A o : Spares(o)
  BY <1>1, <1>6, <1>7, NothingRequested
<1>10. Shared'
  BY <1>0, <1>1, <1>9 DEF Shared
<1>11. OrderedOn(d)' /\ RowsOn(d)' /\ OperationsOn(d)' /\ PausedOn(d)' /\ ResolutionsOn(d)'
  BY <1>0, <1>1, <1>2, <1>9, Frame
<1>12. (Resolving(d)' <=> Resolving(d)) /\ Resolution(d)' = Resolution(d)
  BY <1>6, <1>7 DEF Resolving, Resolution
<1>13. RequestOn(d)'
  <2>1. RequestOn(d)
    BY <1>0 DEF Holds
  <2>2. None # "CONFLICT"
    BY NoneAssumption DEF Refusals
  <2>3. ASSUME NEW e \in Entities PROVE True(sync[d].snapshot.rows[e], e)'
    BY <1>3, <1>4, <1>6, <1>7 DEF True, Revision
  <2>. QED BY <1>1, <1>4, <1>6, <1>7, <1>12, <2>1, <2>2, <2>3 DEF RequestOn
<1>14. KeptOn(d)'
  <2>1. KeptOn(d)
    BY <1>0 DEF Holds
  <2>. QED BY <1>1, <1>12, <2>1 DEF KeptOn, Current
<1>15. Holds(d)'
  BY <1>11, <1>13, <1>14 DEF Holds
<1>. QED BY <1>1, <1>2, <1>7, <1>8, <1>9, <1>10, <1>15, DeviceKeeps

-----------------------------------------------------------------------------
(* Requests end. *)

\* A resolution that fails keeps its request; what is under way has been
\* requested, and what a stored resolution leaves behind has not.
LEMMA FailedKeeps ==
  ASSUME Inductive, NEW d \in Devices, NEW code \in Errors, Failed(d, code),
         ~ Resolving(d) => code # "CONFLICT",
         late' = late \/ late' = late \cup {sync[d].ops}
  PROVE  Inductive'
<1>0. TypeOK /\ Shared /\ \A o \in Devices : Holds(o)
  BY Parts
<1>1. /\ sync' = [sync EXCEPT ![d] = Idle]
      /\ UNCHANGED <<history, copies, receipts, local, preview, listed, fresh, decided, overlaid>>
  BY DEF Failed, server, ghost
<1>2. sync'[d] = Idle /\ \A o \in Devices \ {d} : sync'[o] = sync[o]
  BY <1>0, <1>1 DEF TypeOK
<1>3. sync[d] \in Syncs /\ sync[d].ops \in SUBSET Operations /\ sync[d].ops \subseteq Requested
  BY <1>0, Typed DEF Syncs, Requested
<1>4. Requested' \subseteq Requested /\ \A o : Spares(o)
  <2>1. \A o \in Devices : sync'[o].ops \subseteq sync[o].ops
    BY <1>2 DEF Idle, Request
  <2>. QED BY <1>1, <2>1, NothingRequested
<1>5. Grows
  BY <1>0, <1>1, HistoryStays
<1>6. RequestOn(d)' /\ KeptOn(d)'
  BY <1>2, IdleHolds
<1>7. Idle \in Syncs
  BY DEF Idle, Untried, Request, Syncs
<1>8. OrderedOn(d) /\ OperationsOn(d) /\ ResolutionsOn(d) /\ PausedOn(d) /\ RowsOn(d) /\ KeptOn(d)
  BY <1>0 DEF Holds
<1>9. CASE Resolving(d)
  <2> DEFINE e == Resolution(d).e
             was == marker[d][e].resolution
  <2>1. Current(d) /\ e \in Entities
    <3>1. Resolution(d) \in sync[d].ops
      BY <1>9 DEF Resolving, Resolution
    <3>. QED BY <1>3, <1>8, <1>9, <3>1 DEF KeptOn, Operations
  <2>2. PICK stale \in BOOLEAN :
          /\ marker' = [marker EXCEPT ![d][e].resolution.stale = stale]
          /\ outbox' = outbox
    <3>1. (code \in {"STALE", "CONFLICT"}) \in BOOLEAN
      OBVIOUS
    <3>. QED BY <1>9, <2>1, <3>1, Zenon DEF Failed
  <2> DEFINE now == [was EXCEPT !.stale = stale]
             m == [marker[d][e] EXCEPT !.resolution = now]
  <2>3. marker[d][e] # None /\ was # None /\ marker[d][e] \in Markers /\ was \in ResolutionRecords
    BY <1>0, <2>1, Typed DEF Current, Markers
  <2>4. /\ now \in ResolutionRecords /\ now.op = was.op /\ now.supersedes = was.supersedes
    BY <2>3 DEF ResolutionRecords
  <2>5. marker' = [marker EXCEPT ![d] = [marker[d] EXCEPT ![e] = m]]
    BY <1>0, <2>1, <2>2 DEF TypeOK
  <2> HIDE DEF now
  <2>6. m \in Markers /\ m.resolution = now /\ m # None
    <3>1. m \in Markers /\ m.resolution = now
      BY <2>3, <2>4 DEF Markers
    <3>. QED BY <3>1, NoneAssumption
  <2> HIDE DEF m
  <2>7. /\ marker'[d][e] = m
        /\ \A n \in Entities : n # e => marker'[d][n] = marker[d][n]
        /\ \A o \in Devices \ {d} : marker'[o] = marker[o]
    BY <1>0, <2>1, <2>5 DEF TypeOK
  <2>8. TypeOK'
    <3>1. marker' \in [Devices -> [Entities -> Markers \cup {None}]]
      BY <1>0, <2>1, <2>5, <2>6 DEF TypeOK
    <3>. QED BY <1>0, <1>1, <1>3, <1>7, <2>2, <3>1 DEF TypeOK
  <2>9. Shared'
    BY <1>0, <1>1, <1>4, <2>2 DEF Shared
  <2>10. OrderedOn(d)' /\ RowsOn(d)' /\ OperationsOn(d)'
    BY <1>0, <1>1, <1>4, <1>5, <2>2, Frame
  <2>11. PausedOn(d)'
    BY <1>8, <2>2, <2>6, <2>7 DEF PausedOn
  <2>12. ResolutionsOn(d)'
    <3>1. \A n \in Entities : marker'[d][n] # None /\ marker'[d][n].resolution # None =>
            /\ marker[d][n] # None /\ marker[d][n].resolution # None
            /\ marker'[d][n].resolution.op = marker[d][n].resolution.op
            /\ marker'[d][n].resolution.supersedes = marker[d][n].resolution.supersedes
      BY <2>3, <2>4, <2>6, <2>7
    <3>2. preview'[d] # None => Undecided(preview'[d].marker)
      BY <1>1, <1>8 DEF ResolutionsOn
    <3>. QED BY <1>1, <1>4, <1>8, <2>2, <3>1, <3>2 DEF ResolutionsOn
  <2>13. Holds(d)'
    BY <1>6, <2>10, <2>11, <2>12 DEF Holds
  <2>. QED BY <1>1, <1>2, <1>4, <1>5, <2>2, <2>7, <2>8, <2>9, <2>13, DeviceKeeps
<1>10. CASE ~ Resolving(d)
  <2> DEFINE ids == {op.id : op \in sync[d].ops}
  <2>1. /\ outbox' = [outbox EXCEPT ![d] = [x \in Edits |->
             IF outbox[d][x] # None /\ x \in ids THEN Bump(outbox[d][x], sync[d].tries[x], code) ELSE outbox[d][x]]]
        /\ marker' = marker
    BY <1>10 DEF Failed
  <2>2. ASSUME NEW x \in Edits
        PROVE  /\ outbox'[d][x] \in Queued \cup {None}
               /\ outbox'[d][x] # None <=> outbox[d][x] # None
               /\ outbox'[d][x] # None => outbox'[d][x].op = outbox[d][x].op
               /\ \/ outbox'[d][x] = outbox[d][x]
                  \/ x \in ids /\ outbox'[d][x].error # "CONFLICT"
    <3>1. outbox[d][x] \in Queued \cup {None}
      BY <1>0, Typed
    <3>2. outbox'[d][x] = IF outbox[d][x] # None /\ x \in ids THEN Bump(outbox[d][x], sync[d].tries[x], code)
                          ELSE outbox[d][x]
      BY <1>0, <2>1 DEF TypeOK
    <3>3. CASE outbox[d][x] # None /\ x \in ids
      <4>1. /\ outbox'[d][x] \in Queued /\ outbox'[d][x].op = outbox[d][x].op
            /\ outbox'[d][x].error = code
        BY <1>3, <3>1, <3>2, <3>3 DEF Bump, Queued, Syncs
      <4>. QED BY <1>10, <3>3, <4>1, NoneAssumption
    <3>. QED BY <3>1, <3>2, <3>3
  <2> HIDE DEF ids
  <2>3. \A o \in Devices \ {d} : outbox'[o] = outbox[o]
    BY <1>0, <2>1 DEF TypeOK
  <2>4. /\ \A e \in Entities : Pending(outbox'[d], e) = Pending(outbox[d], e)
        /\ \A e \in Entities : \A x \in Pending(outbox[d], e) :
             x \in Edits /\ outbox'[d][x].op = outbox[d][x].op
    BY <2>2 DEF Pending
  <2>5. TypeOK'
    <3>1. outbox' \in [Devices -> [Edits -> Queued \cup {None}]]
      BY <1>0, <2>1, <2>2 DEF TypeOK
    <3>. QED BY <1>0, <1>1, <1>3, <1>7, <2>1, <3>1 DEF TypeOK
  <2>6. Shared'
    BY <1>0, <1>1, <1>4, <2>2, <2>3 DEF Shared
  <2>7. OrderedOn(d)'
    BY <1>1, <1>8, <2>4 DEF OrderedOn
  <2>8. OperationsOn(d)'
    BY <1>1, <1>4, <1>8, <2>2 DEF OperationsOn
  <2>9. PausedOn(d)'
    <3>1. ASSUME NEW e \in Entities, NEW x \in Pending(outbox[d], e), outbox'[d][x].error = "CONFLICT"
          PROVE  marker[d][e] # None
      BY <1>8, <2>2, <2>4, <3>1 DEF PausedOn
    <3>. QED BY <2>1, <2>4, <3>1 DEF PausedOn
  <2>10. RowsOn(d)'
    BY <1>1, <1>8, <2>4 DEF RowsOn, True, Revision
  <2>11. ResolutionsOn(d)'
    <3>1. ASSUME NEW n \in Entities, marker[d][n] # None, marker[d][n].resolution # None
          PROVE  /\ \A x \in Pending(outbox'[d], n) \ marker[d][n].resolution.supersedes :
                      outbox'[d][x].error = "CONFLICT" /\ \A op \in Requested : op.id # x
                 /\ \A x \in marker[d][n].resolution.supersedes :
                      x \notin fresh /\ (outbox'[d][x] # None => outbox'[d][x].op.e = n)
      <4>1. marker[d][n].resolution.supersedes \subseteq Edits
        BY <1>0, <3>1, Typed DEF Markers, ResolutionRecords
      <4>2. \A x \in ids : \E op \in Requested : op.id = x
        BY <1>3 DEF ids
      <4>. QED BY <1>8, <2>2, <2>4, <3>1, <4>1, <4>2 DEF ResolutionsOn
    <3>2. ASSUME NEW n \in Entities, marker[d][n] # None, marker[d][n].resolution # None
          PROVE  marker[d][n].resolution.op.e = n /\ marker[d][n].resolution.op.id \in Resolutions
      BY <1>8, <3>2 DEF ResolutionsOn
    <3>3. preview[d] # None => Undecided(preview[d].marker)
      BY <1>8 DEF ResolutionsOn
    <3>4. preview'[d] # None => Undecided(preview'[d].marker)
      BY <1>1, <3>3
    <3>5. \A n \in Entities : \A x \in Pending(outbox'[d], n) \ marker[d][n].resolution.supersedes :
            marker[d][n] # None /\ marker[d][n].resolution # None =>
              outbox'[d][x].error = "CONFLICT" /\ \A op \in Requested' : op.id # x
      BY <1>4, <3>1
    <3>6. \A n \in Entities : marker[d][n] # None /\ marker[d][n].resolution # None =>
            \A x \in marker[d][n].resolution.supersedes :
              x \notin fresh' /\ (outbox'[d][x] # None => outbox'[d][x].op.e = n)
      BY <1>1, <3>1
    <3>. QED BY <2>1, <3>2, <3>4, <3>5, <3>6 DEF ResolutionsOn, Undecided
  <2>12. Holds(d)'
    BY <1>6, <2>7, <2>8, <2>9, <2>10, <2>11 DEF Holds
  <2>. QED BY <1>1, <1>2, <1>4, <1>5, <2>1, <2>3, <2>5, <2>6, <2>12, DeviceKeeps
<1>. QED BY <1>9, <1>10

LEMMA RefusedKeeps ==
  ASSUME Inductive, NEW d \in Devices, Refused(d)
  PROVE  Inductive'
<1>1. sync[d] \in Syncs /\ RequestOn(d)
  BY Parts, Typed DEF Holds
<1>2. sync[d].refusal \in Errors /\ (~ Resolving(d) => sync[d].refusal # "CONFLICT")
  BY <1>1 DEF Syncs, Errors, RequestOn
<1>. QED BY <1>2, FailedKeeps DEF Refused

LEMMA NetworkFailureKeeps ==
  ASSUME Inductive, NEW d \in Devices, NetworkFailure(d)
  PROVE  Inductive'
BY FailedKeeps DEF NetworkFailure, Abandoned, Errors

\* What an answer takes away has been sent; what it pauses gets a marker; and
\* a working copy is replaced only by a row that is true.
LEMMA AcknowledgeKeeps ==
  ASSUME Inductive, NEW d \in Devices, Acknowledge(d)
  PROVE  Inductive'
<1>0. TypeOK /\ Shared /\ \A o \in Devices : Holds(o)
  BY Parts
<1> DEFINE done == {op.id : op \in sync[d].ops}
           lost == {r.op : r \in {a \in sync[d].answers : a.copied}}
           clashes(e) == {op \in lost : op.e = e}
           rest == Without(outbox[d], done)
           snap == sync[d].snapshot
           pausing(x) == \E op \in lost : x \in Pending(rest, op.e)
           new(e) == [copy |-> (CHOOSE o \in clashes(e) : TRUE).id,
                      content |-> (CHOOSE o \in clashes(e) : TRUE).content,
                      resolution |-> None]
<1>1. /\ sync[d].stage = "read" /\ ~ Resolving(d)
      /\ outbox' = [outbox EXCEPT ![d] = [x \in Edits |->
           IF pausing(x) THEN [rest[x] EXCEPT !.error = "CONFLICT"] ELSE rest[x]]]
      /\ marker' = [marker EXCEPT ![d] = [e \in Entities |->
           IF clashes(e) = {} THEN marker[d][e] ELSE new(e)]]
      /\ local' = [local EXCEPT ![d] = [e \in Entities |->
           IF Untouched(rest, e) THEN local[d][e] ELSE snap.rows[e]]]
      /\ listed' = [listed EXCEPT ![d] =
           snap.copies \cup {c \in listed[d] : Untouched(rest, c.e)}]
      /\ sync' = [sync EXCEPT ![d] = Idle]
      /\ UNCHANGED <<history, copies, receipts, late, preview, fresh, decided, overlaid>>
  BY DEF Acknowledge, server, ghost
<1>2. /\ sync[d] \in Syncs /\ snap \in Snapshots /\ RequestOn(d)
      /\ \A e \in Entities : snap.rows[e] \in Rows /\ True(snap.rows[e], e)
      /\ sync[d].ops \subseteq Requested
  <2>1. sync[d] \in Syncs /\ RequestOn(d) /\ snap # None
    BY <1>0, <1>1, Typed DEF Holds, RequestOn
  <2>2. snap \in Snapshots
    BY <2>1 DEF Syncs
  <2>. QED BY <1>1, <2>1, <2>2 DEF Snapshots, RequestOn, Requested
<1>3. /\ sync'[d] = Idle
      /\ \A o \in Devices \ {d} : /\ sync'[o] = sync[o] /\ outbox'[o] = outbox[o]
                                  /\ marker'[o] = marker[o] /\ local'[o] = local[o]
  BY <1>0, <1>1 DEF TypeOK
<1>4. ASSUME NEW x \in Edits
      PROVE  /\ rest[x] # None => x \notin done /\ outbox[d][x] # None /\ rest[x] = outbox[d][x]
             /\ outbox'[d][x] \in Queued \cup {None}
             /\ outbox'[d][x] # None <=> rest[x] # None
             /\ outbox'[d][x] # None =>
                  /\ outbox'[d][x].op = outbox[d][x].op
                  /\ outbox'[d][x].error =
                       IF pausing(x) THEN "CONFLICT" ELSE outbox[d][x].error
  <2>1. rest[x] = IF x \in done THEN None ELSE outbox[d][x]
    BY DEF Without
  <2>2. outbox[d][x] \in Queued \cup {None}
    BY <1>0, Typed
  <2>3. outbox'[d][x] = IF pausing(x) THEN [rest[x] EXCEPT !.error = "CONFLICT"] ELSE rest[x]
    BY <1>0, <1>1 DEF TypeOK
  <2>4. pausing(x) => rest[x] # None
    <3> HIDE DEF rest, lost
    <3>. QED BY DEF Pending
  <2> HIDE DEF rest, done, pausing
  <2>5. CASE pausing(x)
    <3>1. rest[x] \in Queued
      BY <2>1, <2>2, <2>4, <2>5
    <3>2. [rest[x] EXCEPT !.error = "CONFLICT"] \in Queued
      BY <3>1 DEF Queued, Errors, Refusals
    <3>3. /\ [rest[x] EXCEPT !.error = "CONFLICT"].op = rest[x].op
          /\ [rest[x] EXCEPT !.error = "CONFLICT"].error = "CONFLICT"
      BY <3>1 DEF Queued
    <3>. QED BY <2>1, <2>3, <2>4, <2>5, <3>2, <3>3, NoneAssumption
  <2>6. CASE ~ pausing(x)
    BY <2>1, <2>2, <2>3, <2>6
  <2>. QED BY <2>5, <2>6
<1>5. /\ \A e \in Entities : Pending(outbox'[d], e) = Pending(rest, e)
      /\ \A e \in Entities : \A x \in Pending(rest, e) :
           x \in Edits /\ x \in Pending(outbox[d], e) /\ outbox'[d][x].op = outbox[d][x].op
  <2>1. \A x \in Edits : rest[x] # None => rest[x].op = outbox'[d][x].op
    BY <1>4
  <2> HIDE DEF rest
  <2>. QED BY <1>4, <2>1 DEF Pending
<1>6. ASSUME NEW e \in Entities
      PROVE  /\ marker'[d][e] \in Markers \cup {None}
             /\ clashes(e) = {} => marker'[d][e] = marker[d][e]
             /\ clashes(e) # {} => marker'[d][e] # None /\ marker'[d][e].resolution = None
  <2>1. marker'[d][e] = IF clashes(e) = {} THEN marker[d][e] ELSE new(e)
    BY <1>0, <1>1 DEF TypeOK
  <2>2. CASE clashes(e) = {}
    BY <1>0, <2>1, <2>2, Typed
  <2>3. CASE clashes(e) # {}
    <3>1. PICK a \in sync[d].answers : a.copied /\ a.op = (CHOOSE o \in clashes(e) : TRUE)
      BY <2>3
    <3>2. a \in Answers
      BY <1>2 DEF Syncs
    <3>3. a.op.id \in Edits /\ a.op.content \in SUBSET Edits
      BY <3>1, <3>2 DEF Answers, Operations
    <3>4. new(e) \in Markers /\ new(e).resolution = None
      BY <3>1, <3>3 DEF Markers
    <3>. QED BY <2>1, <2>3, <3>4, NoneAssumption
  <2>. QED BY <2>2, <2>3
<1>7. ASSUME NEW e \in Entities
      PROVE  /\ local'[d][e] \in Rows
             /\ Pending(rest, e) # {} => local'[d][e] = local[d][e]
             /\ Pending(rest, e) = {} => local'[d][e] = snap.rows[e]
  <2>1. local'[d][e] = IF Untouched(rest, e) THEN local[d][e] ELSE snap.rows[e]
    BY <1>0, <1>1 DEF TypeOK
  <2>. QED BY <1>0, <1>2, <2>1, Typed DEF Untouched
<1>8. TypeOK'
  <2>1. outbox' \in [Devices -> [Edits -> Queued \cup {None}]]
    BY <1>0, <1>1, <1>4 DEF TypeOK
  <2>2. marker' \in [Devices -> [Entities -> Markers \cup {None}]]
    BY <1>0, <1>1, <1>6 DEF TypeOK
  <2>3. local' \in [Devices -> [Entities -> Rows]]
    BY <1>0, <1>1, <1>7 DEF TypeOK
  <2>4. listed' \in [Devices -> SUBSET Copies]
    BY <1>0, <1>1, <1>2 DEF TypeOK, Snapshots
  <2>5. Idle \in Syncs
    BY DEF Idle, Untried, Request, Syncs
  <2>. QED BY <1>0, <1>1, <2>1, <2>2, <2>3, <2>4, <2>5 DEF TypeOK
<1>9. Requested' \subseteq Requested /\ \A o : Spares(o)
  <2>1. \A o \in Devices : sync'[o].ops \subseteq sync[o].ops
    BY <1>3 DEF Idle, Request
  <2>. QED BY <1>1, <2>1, NothingRequested
<1>10. Grows
  BY <1>0, <1>1, HistoryStays
<1>11. \A x \in Edits : outbox'[d][x] # None =>
         outbox[d][x] # None /\ outbox'[d][x].op = outbox[d][x].op
  BY <1>4
<1>12. \A e \in Entities : \A x \in Pending(rest, e) :
         outbox'[d][x].error = "CONFLICT" => outbox[d][x].error = "CONFLICT" \/ clashes(e) # {}
  <2>1. ASSUME NEW e \in Entities, NEW x \in Pending(rest, e), pausing(x)
        PROVE  clashes(e) # {}
    <3>1. PICK op \in lost : x \in Pending(rest, op.e)
      BY <2>1
    <3>2. op.e = e
      BY <3>1 DEF Pending
    <3>. QED BY <3>1, <3>2
  <2>2. \A e \in Entities : \A x \in Pending(rest, e) : x \in Edits /\ rest[x] # None
    BY DEF Pending
  <2> HIDE DEF rest, lost, pausing, clashes
  <2>. QED BY <1>4, <2>1, <2>2
<1>12a. \A e \in Entities : \A x \in Pending(rest, e) :
         outbox[d][x].error = "CONFLICT" => outbox'[d][x].error = "CONFLICT"
  <2>2. \A e \in Entities : \A x \in Pending(rest, e) : x \in Edits /\ rest[x] # None
    BY DEF Pending
  <2> HIDE DEF rest, lost, pausing, clashes
  <2>. QED BY <1>4, <2>2
<1> HIDE DEF done, lost, clashes, rest, snap, pausing, new
<1>13. OrderedOn(d) /\ OperationsOn(d) /\ ResolutionsOn(d) /\ PausedOn(d) /\ RowsOn(d)
  BY <1>0 DEF Holds
<1>14. Shared'
  <2>1. ASSUME NEW x \in Edits, NEW a \in Devices, outbox'[a][x] # None, NEW o \in Devices \ {a}
        PROVE  outbox'[o][x] = None
    <3>1. outbox[a][x] # None
      BY <1>3, <1>11, <2>1
    <3>2. outbox[o][x] = None
      BY <1>0, <3>1 DEF Shared
    <3>. QED BY <1>3, <1>11, <3>2
  <2>. QED BY <1>0, <1>1, <1>9, <2>1 DEF Shared
<1>15. OrderedOn(d)'
  <2>1. ASSUME NEW e \in Entities, NEW x \in Pending(rest, e)
        PROVE  /\ outbox'[d][x].op.base < local'[d][e].rev
               /\ \A y \in Pending(rest, e) \ {x} : outbox'[d][y].op.base # outbox'[d][x].op.base
    BY <1>5, <1>7, <1>13 DEF OrderedOn
  <2>. QED BY <1>5, <2>1 DEF OrderedOn
<1>16. OperationsOn(d)'
  BY <1>1, <1>9, <1>11, <1>13 DEF OperationsOn
<1>17. RequestOn(d)' /\ KeptOn(d)'
  BY <1>3, IdleHolds
<1>18. PausedOn(d)'
  <2>1. ASSUME NEW e \in Entities, NEW x \in Pending(rest, e), outbox'[d][x].error = "CONFLICT"
        PROVE  marker'[d][e] # None
    BY <1>5, <1>6, <1>12, <1>13, <2>1 DEF PausedOn
  <2>. QED BY <1>5, <2>1 DEF PausedOn
<1>19. RowsOn(d)'
  <2>1. ASSUME NEW e \in Entities, Pending(rest, e) = {}
        PROVE  True(local'[d][e], e)
    BY <1>2, <1>7, <2>1
  <2>. QED BY <1>1, <1>5, <2>1 DEF RowsOn, True, Revision
<1>20. ResolutionsOn(d)'
  <2>1. ASSUME NEW n \in Entities, marker'[d][n] # None, marker'[d][n].resolution # None
        PROVE  marker'[d][n] = marker[d][n]
    BY <1>6, <2>1
  <2>2. ASSUME NEW n \in Entities, marker[d][n] # None, marker[d][n].resolution # None
        PROVE  /\ marker[d][n].resolution.op.e = n /\ marker[d][n].resolution.op.id \in Resolutions
               /\ \A x \in Pending(outbox'[d], n) \ marker[d][n].resolution.supersedes :
                    outbox'[d][x].error = "CONFLICT" /\ \A op \in Requested : op.id # x
               /\ \A x \in marker[d][n].resolution.supersedes :
                    x \notin fresh /\ (outbox'[d][x] # None => outbox'[d][x].op.e = n)
    <3>1. marker[d][n].resolution.supersedes \subseteq Edits
      BY <1>0, <2>2, Typed DEF Markers, ResolutionRecords
    <3>. QED BY <1>5, <1>11, <1>12a, <1>13, <2>2, <3>1 DEF ResolutionsOn
  <2>3. preview'[d] # None => Undecided(preview'[d].marker)
    BY <1>1, <1>13 DEF ResolutionsOn
  <2>4. ASSUME NEW n \in Entities, marker'[d][n] # None, marker'[d][n].resolution # None
        PROVE  /\ marker'[d][n].resolution.op.e = n /\ marker'[d][n].resolution.op.id \in Resolutions
               /\ \A x \in Pending(outbox'[d], n) \ marker'[d][n].resolution.supersedes :
                    outbox'[d][x].error = "CONFLICT" /\ \A op \in Requested' : op.id # x
               /\ \A x \in marker'[d][n].resolution.supersedes :
                    x \notin fresh' /\ (outbox'[d][x] # None => outbox'[d][x].op.e = n)
    <3> DEFINE m == marker[d][n]
    <3>1. marker'[d][n] = m /\ m # None /\ m.resolution # None
      BY <2>1, <2>4
    <3>2. /\ m.resolution.op.e = n /\ m.resolution.op.id \in Resolutions
          /\ \A x \in Pending(outbox'[d], n) \ m.resolution.supersedes :
               outbox'[d][x].error = "CONFLICT" /\ \A op \in Requested : op.id # x
          /\ \A x \in m.resolution.supersedes :
               x \notin fresh /\ (outbox'[d][x] # None => outbox'[d][x].op.e = n)
      BY <2>2, <3>1
    <3>3. fresh' = fresh /\ Requested' \subseteq Requested
      BY <1>1, <1>9
    <3> HIDE DEF m
    <3>. QED BY <3>1, <3>2, <3>3
  <2>. QED BY <2>3, <2>4 DEF ResolutionsOn
<1>21. Holds(d)'
  BY <1>15, <1>16, <1>17, <1>18, <1>19, <1>20 DEF Holds
<1>. QED BY <1>1, <1>3, <1>8, <1>9, <1>10, <1>14, <1>21, DeviceKeeps

\* Numbering operations by the operations before them keeps their order.
LEMMA Numbered ==
  ASSUME NEW q, NEW e \in Entities, \A z \in Pending(q, e) : q[z].op.base \in Nat
  PROVE  /\ Cardinality(Pending(q, e)) \in Nat
         /\ \A x \in Pending(q, e) :
              /\ Earlier(q, x) \in SUBSET Pending(q, e)
              /\ Cardinality(Earlier(q, x)) \in Nat
              /\ Cardinality(Earlier(q, x)) < Cardinality(Pending(q, e))
         /\ \A x, y \in Pending(q, e) : q[x].op.base < q[y].op.base =>
              Cardinality(Earlier(q, x)) < Cardinality(Earlier(q, y))
<1> DEFINE P == Pending(q, e)
<1>1. IsFiniteSet(P) /\ Cardinality(P) \in Nat
  <2>1. P \in SUBSET Edits
    BY DEF Pending
  <2>2. IsFiniteSet(P)
    BY <2>1, OfflineAssumption, FS_Subset
  <2>. QED BY <2>2, FS_CardinalityType
<1>2. \A x \in P : Earlier(q, x) = {y \in P : q[y].op.base < q[x].op.base}
  BY DEF Earlier, Pending
<1> HIDE DEF P
<1>3. ASSUME NEW T \in SUBSET P, NEW S \in SUBSET T, S # T
      PROVE  Cardinality(S) \in Nat /\ Cardinality(S) < Cardinality(T)
  <2>1. IsFiniteSet(T) /\ IsFiniteSet(S)
    BY <1>1, FS_Subset
  <2>2. Cardinality(T) \in Nat /\ Cardinality(S) \in Nat
    BY <2>1, FS_CardinalityType
  <2>3. Cardinality(S) <= Cardinality(T) /\ Cardinality(S) # Cardinality(T)
    BY <1>3, <2>1, FS_Subset
  <2>. QED BY <2>2, <2>3
<1>4. ASSUME NEW x \in P
      PROVE  /\ Earlier(q, x) \in SUBSET P /\ Cardinality(Earlier(q, x)) \in Nat
             /\ Cardinality(Earlier(q, x)) < Cardinality(P)
  <2>1. Earlier(q, x) \in SUBSET P /\ x \notin Earlier(q, x)
    BY <1>2 DEF P
  <2>. QED BY <1>3, <2>1
<1>5. ASSUME NEW x \in P, NEW y \in P, q[x].op.base < q[y].op.base
      PROVE  Cardinality(Earlier(q, x)) < Cardinality(Earlier(q, y))
  <2>1. \A z \in P : q[z].op.base \in Nat
    BY DEF P
  <2>2. /\ Earlier(q, x) \in SUBSET Earlier(q, y)
        /\ x \in Earlier(q, y) /\ x \notin Earlier(q, x)
    BY <1>2, <1>5, <2>1
  <2>3. Earlier(q, y) \in SUBSET P
    BY <1>4
  <2>. QED BY <1>3, <2>2, <2>3
<1>. QED BY <1>1, <1>4, <1>5 DEF P

LEMMA RebasedTyped ==
  ASSUME NEW q, NEW S, \A x \in S : q[x].op.content \in SUBSET Edits,
         NEW prior, NEW canonical \in SUBSET Edits
  PROVE  RebasedContent(q, S, prior, canonical) \in SUBSET Edits
<1>1. LatestContent(q, S) \in SUBSET Edits
  BY DEF LatestContent
<1>. QED BY <1>1 DEF RebasedContent

\* What is renumbered has never been requested, and is numbered in its order.
LEMMA FinishResolutionKeeps ==
  ASSUME Inductive, NEW d \in Devices, FinishResolution(d)
  PROVE  Inductive'
<1>0. TypeOK /\ Shared /\ \A o \in Devices : Holds(o)
  BY Parts
<1> DEFINE op == Resolution(d)
           e == op.e
           resolution == marker[d][e].resolution
           rev == (CHOOSE a \in sync[d].answers : TRUE).rev
           snap == sync[d].snapshot
           canonical == snap.rows[e].content
           prior == resolution.prior
           rest == Without(outbox[d], resolution.supersedes)
           newer == Pending(rest, e)
           row(n) == IF n = e
             THEN IF newer = {} THEN snap.rows[e]
                  ELSE Row(rev + Cardinality(newer), RebasedContent(rest, newer, prior, canonical))
             ELSE IF e \notin Notebooks /\ n \in Notebooks /\ ~Untouched(rest, n)
             THEN snap.rows[n] ELSE local[d][n]
<1>1. /\ sync[d].stage = "read" /\ Resolving(d) /\ Current(d)
      /\ outbox' = [outbox EXCEPT ![d] = Rebase(rest, e, prior, canonical, rev)]
      /\ local' = [local EXCEPT ![d] = [n \in Entities |-> row(n)]]
      /\ listed' = [listed EXCEPT ![d] =
             IF e \in Notebooks THEN {c \in listed[d] : c.id # op.copy}
             ELSE {c \in snap.copies : ~Untouched(rest, c.e)}
                  \cup {c \in listed[d] : Untouched(rest, c.e)}]
      /\ marker' = [marker EXCEPT ![d][e] = None]
      /\ overlaid' = overlaid \cup {x \in canonical :
             \E y \in newer : Field[y] = Field[x] /\ x \notin rest[y].op.content}
      /\ sync' = [sync EXCEPT ![d] = Idle]
      /\ UNCHANGED <<history, copies, receipts, late, preview, fresh, decided>>
  BY DEF FinishResolution, server
<1>2. /\ sync[d] \in Syncs /\ RequestOn(d) /\ OrderedOn(d) /\ OperationsOn(d)
      /\ ResolutionsOn(d) /\ PausedOn(d) /\ RowsOn(d)
  BY <1>0, Typed DEF Holds
<1>3. /\ op \in sync[d].ops /\ e \in Entities
  <2>1. op \in sync[d].ops
    BY <1>1 DEF Resolving, Resolution
  <2>. QED BY <1>2, <2>1 DEF Syncs, Operations
<1>4. /\ snap \in Snapshots /\ rev \in Nat
      /\ \A n \in Entities : snap.rows[n] \in Rows /\ True(snap.rows[n], n)
  <2>1. snap # None /\ sync[d].answers # {} /\ \A n \in Entities : True(snap.rows[n], n)
    BY <1>1, <1>2 DEF RequestOn
  <2>2. snap \in Snapshots
    BY <1>2, <2>1 DEF Syncs
  <2>3. (CHOOSE a \in sync[d].answers : TRUE) \in Answers
    BY <1>2, <2>1 DEF Syncs
  <2>. QED BY <2>1, <2>2, <2>3 DEF Snapshots, Answers
<1>5. /\ marker[d][e] # None /\ resolution # None /\ resolution \in ResolutionRecords
      /\ canonical \in SUBSET Edits
  <2>1. marker[d][e] # None /\ resolution # None /\ marker[d][e] \in Markers
    BY <1>0, <1>1, <1>3, Typed DEF Current
  <2>. QED BY <1>3, <1>4, <2>1 DEF Markers, Rows
<1>6. \A x \in Edits : rest[x] = IF x \in resolution.supersedes THEN None ELSE outbox[d][x]
  BY DEF Without
<1>7. /\ \A x \in Edits : rest[x] # None => rest[x] = outbox[d][x] /\ rest[x] \in Queued
      /\ \A x \in Edits : x \in newer <=> rest[x] # None /\ rest[x].op.e = e
      /\ newer \in SUBSET Edits
      /\ newer = Pending(outbox[d], e) \ resolution.supersedes
  <2>1. \A x \in Edits : outbox[d][x] \in Queued \cup {None}
    BY <1>0, Typed
  <2> HIDE DEF rest, resolution
  <2>. QED BY <1>6, <2>1 DEF Pending
<1>8. \A x \in newer : /\ rest[x] = outbox[d][x]
                       /\ rest[x].op.base \in Nat /\ rest[x].op.content \in SUBSET Edits
                       /\ \A o \in Requested : o.id # x
  <2>1. \A x \in newer : \A o \in Requested : o.id # x
    BY <1>2, <1>3, <1>5, <1>7 DEF ResolutionsOn
  <2> HIDE DEF rest, newer, resolution, e
  <2>2. \A x \in newer : x \in Edits /\ rest[x] = outbox[d][x] /\ rest[x] \in Queued
    BY <1>7
  <2>. QED BY <2>1, <2>2 DEF Queued, Operations
<1> HIDE DEF op, e, resolution, rev, snap, canonical, prior, rest, newer
<1> DEFINE item(x) == [attempts |-> 0, error |-> None,
             op |-> Operation(x, e, rev + Cardinality(Earlier(rest, x)),
                      RebasedContent(rest, Earlier(rest, x) \cup {x}, prior, canonical))]
<1>9. /\ Cardinality(newer) \in Nat
      /\ \A x \in newer :
           /\ Earlier(rest, x) \in SUBSET newer
           /\ Cardinality(Earlier(rest, x)) \in Nat
           /\ Cardinality(Earlier(rest, x)) < Cardinality(newer)
      /\ \A x, y \in newer : rest[x].op.base < rest[y].op.base =>
           Cardinality(Earlier(rest, x)) < Cardinality(Earlier(rest, y))
  <2>1. \A z \in newer : rest[z].op.base \in Nat
    BY <1>8
  <2>. QED BY <1>3, <2>1, Numbered DEF newer
<1>10. ASSUME NEW x \in newer
       PROVE  /\ item(x) \in Queued /\ item(x) # None /\ item(x).error = None
              /\ item(x).op.id = x /\ item(x).op.e = e
              /\ item(x).op.base = rev + Cardinality(Earlier(rest, x))
  <2> DEFINE n == rev + Cardinality(Earlier(rest, x))
             c == RebasedContent(rest, Earlier(rest, x) \cup {x}, prior, canonical)
  <2>1. n \in Nat
    BY <1>4, <1>9
  <2>2. c \in SUBSET Edits
    <3>1. \A y \in Earlier(rest, x) \cup {x} : rest[y].op.content \in SUBSET Edits
      BY <1>8, <1>9
    <3>. QED BY <1>5, <3>1, RebasedTyped
  <2>3. x \in Edits
    BY <1>7
  <2> HIDE DEF n, c
  <2>4. Operation(x, e, n, c) \in Operations
    BY <1>3, <2>1, <2>2, <2>3 DEF Operation, Operations
  <2>5. item(x) = [attempts |-> 0, error |-> None, op |-> Operation(x, e, n, c)]
    BY DEF n, c
  <2>6. item(x) \in Queued /\ item(x).error = None /\ item(x).op = Operation(x, e, n, c)
    BY <2>4, <2>5 DEF Queued, Errors
  <2>7. /\ Operation(x, e, n, c).id = x /\ Operation(x, e, n, c).e = e
        /\ Operation(x, e, n, c).base = n
    BY DEF Operation
  <2>. QED BY <2>6, <2>7, NoneAssumption DEF n
<1>11. /\ sync'[d] = Idle
       /\ \A o \in Devices \ {d} : /\ sync'[o] = sync[o] /\ outbox'[o] = outbox[o]
                                   /\ marker'[o] = marker[o] /\ local'[o] = local[o]
       /\ marker'[d][e] = None
       /\ \A n \in Entities : n # e => marker'[d][n] = marker[d][n]
  BY <1>0, <1>1, <1>3 DEF TypeOK
<1>12. \A x \in Edits : outbox'[d][x] = IF x \in newer THEN item(x) ELSE rest[x]
  BY <1>0, <1>1 DEF TypeOK, Rebase, newer
<1> HIDE DEF item
<1>13. /\ \A x \in Edits : outbox'[d][x] \in Queued \cup {None}
       /\ \A x \in Edits : outbox'[d][x] # None =>
            /\ outbox[d][x] # None /\ outbox'[d][x].op.e = outbox[d][x].op.e
            /\ outbox'[d][x].op.id = x
            /\ x \notin newer => outbox'[d][x] = outbox[d][x]
  <2>1. \A x \in Edits : outbox[d][x] # None => outbox[d][x].op.id = x
    BY <1>2 DEF OperationsOn
  <2>2. ASSUME NEW x \in newer
        PROVE  /\ x \in Edits /\ outbox'[d][x] \in Queued /\ outbox[d][x] # None
               /\ outbox'[d][x].op.e = outbox[d][x].op.e /\ outbox'[d][x].op.id = x
    <3>1. /\ x \in Edits /\ outbox'[d][x] = item(x)
          /\ outbox[d][x] # None /\ outbox[d][x].op.e = e
      BY <1>7, <1>8, <1>12
    <3>. QED BY <1>10, <3>1
  <2>3. ASSUME NEW x \in Edits \ newer
        PROVE  /\ outbox'[d][x] \in Queued \cup {None}
               /\ outbox'[d][x] # None =>
                    /\ outbox'[d][x] = outbox[d][x] /\ outbox'[d][x].op.id = x
    BY <1>7, <1>12, <2>1
  <2>. QED BY <2>2, <2>3
<1>14. /\ Pending(outbox'[d], e) = newer
       /\ \A n \in Entities : n # e => Pending(outbox'[d], n) = Pending(outbox[d], n)
  <2>1. \A x \in Edits : outbox[d][x] # None /\ outbox[d][x].op.e # e => x \notin resolution.supersedes
    BY <1>2, <1>3, <1>5 DEF ResolutionsOn, resolution
  <2>2. \A x \in Edits : outbox'[d][x] # None /\ outbox'[d][x].op.e = e <=> x \in newer
    BY <1>7, <1>10, <1>12
  <2>3. \A x \in Edits : \A n \in Entities : n # e =>
          (outbox'[d][x] # None /\ outbox'[d][x].op.e = n <=>
             outbox[d][x] # None /\ outbox[d][x].op.e = n)
    BY <1>6, <1>7, <1>10, <1>12, <2>1
  <2>4. newer \in SUBSET Edits
    BY <1>7
  <2>. QED BY <2>2, <2>3, <2>4 DEF Pending
<1>15. \A n \in Entities : local'[d][n] = row(n)
  BY <1>0, <1>1 DEF TypeOK
<1>16. /\ newer # {} => /\ local'[d][e].rev = rev + Cardinality(newer)
                        /\ local'[d][e] \in Rows
       /\ newer = {} => local'[d][e] = snap.rows[e]
       /\ \A n \in Entities : n # e =>
            \/ local'[d][n] = local[d][n]
            \/ local'[d][n] = snap.rows[n] /\ Pending(outbox[d], n) = {}
  <2> DEFINE c == RebasedContent(rest, newer, prior, canonical)
  <2>1. c \in SUBSET Edits
    <3>1. \A y \in newer : rest[y].op.content \in SUBSET Edits
      BY <1>8
    <3>. QED BY <1>5, <3>1, RebasedTyped
  <2>2. newer # {} => local'[d][e] = Row(rev + Cardinality(newer), c)
    BY <1>3, <1>15
  <2>3. newer = {} => local'[d][e] = snap.rows[e]
    BY <1>3, <1>15
  <2>4. ASSUME NEW n \in Entities, n # e
        PROVE  \/ local'[d][n] = local[d][n]
               \/ local'[d][n] = snap.rows[n] /\ Pending(rest, n) = {}
    BY <1>15, <2>4 DEF Untouched
  <2>5. ASSUME NEW n \in Entities, n # e, Pending(rest, n) = {}
        PROVE  Pending(outbox[d], n) = {}
    <3>1. \A x \in Edits : outbox[d][x] # None /\ outbox[d][x].op.e = n => x \notin resolution.supersedes
      BY <1>2, <1>3, <1>5, <2>5 DEF ResolutionsOn, resolution
    <3>. QED BY <1>6, <2>5, <3>1 DEF Pending
  <2> HIDE DEF c
  <2>6. newer # {} => local'[d][e] \in Rows /\ local'[d][e].rev = rev + Cardinality(newer)
    BY <1>4, <1>9, <2>1, <2>2 DEF Row, Rows
  <2>. QED BY <2>3, <2>4, <2>5, <2>6
<1> HIDE DEF row
<1>17. TypeOK'
  <2>1. outbox' \in [Devices -> [Edits -> Queued \cup {None}]]
    <3> DEFINE F == Rebase(rest, e, prior, canonical, rev)
    <3>1. outbox' = [outbox EXCEPT ![d] = F] /\ F = [x \in Edits |-> F[x]]
      BY <1>1 DEF Rebase
    <3> HIDE DEF F
    <3>2. outbox'[d] = F
      BY <1>0, <3>1 DEF TypeOK
    <3>3. F \in [Edits -> Queued \cup {None}]
      BY <1>13, <3>1, <3>2
    <3>. QED BY <1>0, <3>1, <3>3 DEF TypeOK
  <2>2. local' \in [Devices -> [Entities -> Rows]]
    <3>1. ASSUME NEW n \in Entities PROVE local'[d][n] \in Rows
      <4>1. local[d][n] \in Rows /\ snap.rows[n] \in Rows
        BY <1>0, <1>4, Typed
      <4>. QED BY <1>4, <1>16, <4>1
    <3>2. /\ local' = [local EXCEPT ![d] = [n \in Entities |-> row(n)]]
          /\ \A n \in Entities : row(n) \in Rows
      BY <1>1, <1>15, <3>1
    <3>. QED BY <1>0, <3>2 DEF TypeOK
  <2>3. marker' \in [Devices -> [Entities -> Markers \cup {None}]]
    BY <1>0, <1>1, <1>3 DEF TypeOK
  <2>4. listed' \in [Devices -> SUBSET Copies]
    BY <1>0, <1>1, <1>4 DEF TypeOK, Snapshots
  <2>5. Idle \in Syncs
    BY DEF Idle, Untried, Request, Syncs
  <2>6. overlaid' \subseteq Edits
    BY <1>0, <1>1, <1>5 DEF TypeOK
  <2>. QED BY <1>0, <1>1, <2>1, <2>2, <2>3, <2>4, <2>5, <2>6 DEF TypeOK
<1>18. Requested' \subseteq Requested /\ \A o : Spares(o)
  <2>1. \A o \in Devices : sync'[o].ops \subseteq sync[o].ops
    BY <1>11 DEF Idle, Request
  <2>. QED BY <1>1, <2>1, NothingRequested
<1>19. Grows
  BY <1>0, <1>1, HistoryStays
<1>20. UNCHANGED <<history, receipts, preview, fresh>>
  BY <1>1
<1>21. Shared'
  <2>1. ASSUME NEW x \in Edits, NEW a \in Devices, outbox'[a][x] # None, NEW o \in Devices \ {a}
        PROVE  outbox'[o][x] = None
    <3>1. outbox[a][x] # None
      BY <1>11, <1>13, <2>1
    <3>2. outbox[o][x] = None
      BY <1>0, <3>1 DEF Shared
    <3>. QED BY <1>11, <1>13, <3>2
  <2>. QED BY <1>0, <1>18, <1>20, <2>1 DEF Shared
<1>22. OrderedOn(d)'
  <2>1. ASSUME NEW x \in newer
        PROVE  /\ outbox'[d][x].op.base < local'[d][e].rev
               /\ \A y \in newer \ {x} : outbox'[d][y].op.base # outbox'[d][x].op.base
    <3>1. \A y \in newer : y \in Edits /\ outbox'[d][y].op.base = rev + Cardinality(Earlier(rest, y))
      BY <1>7, <1>10, <1>12
    <3>2. outbox'[d][x].op.base < local'[d][e].rev
      BY <1>4, <1>9, <1>16, <3>1
    <3>3. ASSUME NEW y \in newer \ {x}
          PROVE  outbox'[d][y].op.base # outbox'[d][x].op.base
      <4>1. x \in Pending(outbox[d], e) /\ y \in Pending(outbox[d], e) \ {x}
        BY <1>7
      <4>2. rest[x].op.base # rest[y].op.base
        BY <1>2, <1>3, <1>8, <4>1 DEF OrderedOn
      <4>3. rest[x].op.base \in Nat /\ rest[y].op.base \in Nat
        BY <1>8
      <4>4. rest[x].op.base < rest[y].op.base \/ rest[y].op.base < rest[x].op.base
        BY <4>2, <4>3
      <4>. QED BY <1>4, <1>9, <3>1, <4>4
    <3>. QED BY <3>2, <3>3
  <2>2. ASSUME NEW n \in Entities, n # e, NEW x \in Pending(outbox[d], n)
        PROVE  /\ outbox'[d][x].op.base < local'[d][n].rev
               /\ \A y \in Pending(outbox[d], n) \ {x} :
                    outbox'[d][y].op.base # outbox'[d][x].op.base
    <3>1. \A y \in Pending(outbox[d], n) : y \in Edits /\ outbox'[d][y] = outbox[d][y]
      <4>1. ASSUME NEW y \in Pending(outbox[d], n)
            PROVE  y \in Edits /\ outbox[d][y].op.e # e /\ y \in Pending(outbox'[d], n)
        BY <1>14, <2>2 DEF Pending
      <4>2. ASSUME NEW y \in Pending(outbox[d], n)
            PROVE  y \in Edits /\ y \notin newer /\ outbox'[d][y] # None
        BY <1>7, <1>8, <4>1 DEF Pending
      <4>. QED BY <1>13, <4>2
    <3>2. local'[d][n] = local[d][n]
      BY <1>16, <2>2
    <3>. QED BY <1>2, <2>2, <3>1, <3>2 DEF OrderedOn
  <2>. QED BY <1>14, <2>1, <2>2 DEF OrderedOn
<1>23. OperationsOn(d)'
  <2>1. ASSUME NEW x \in Edits, outbox'[d][x] # None
        PROVE  /\ outbox'[d][x].op.id = x /\ x \notin fresh
               /\ \A o \in Requested : o.id = x => outbox'[d][x].op = o
    BY <1>2, <1>8, <1>13, <2>1 DEF OperationsOn
  <2>. QED BY <1>18, <1>20, <2>1 DEF OperationsOn
<1>24. RequestOn(d)' /\ KeptOn(d)'
  BY <1>11, IdleHolds
<1>25. PausedOn(d)'
  <2>1. ASSUME NEW x \in newer PROVE outbox'[d][x].error # "CONFLICT"
    BY <1>7, <1>10, <1>12, NoneAssumption DEF Refusals
  <2>2. ASSUME NEW n \in Entities, n # e, NEW x \in Pending(outbox'[d], n),
               outbox'[d][x].error = "CONFLICT"
        PROVE  marker'[d][n] # None
    <3>1. x \in Edits /\ outbox'[d][x] # None /\ x \in Pending(outbox[d], n)
      BY <1>14, <2>2 DEF Pending
    <3>2. outbox'[d][x] = outbox[d][x]
      BY <1>13, <2>1, <2>2, <3>1
    <3>. QED BY <1>2, <1>11, <2>2, <3>1, <3>2 DEF PausedOn
  <2>. QED BY <1>14, <2>1, <2>2 DEF PausedOn
<1>26. RowsOn(d)'
  <2>1. ASSUME NEW n \in Entities, Pending(outbox'[d], n) = {}
        PROVE  True(local'[d][n], n)
    <3>1. CASE n = e
      BY <1>4, <1>14, <1>16, <2>1, <3>1
    <3>2. CASE n # e
      BY <1>2, <1>4, <1>14, <1>16, <2>1, <3>2 DEF RowsOn
    <3>. QED BY <3>1, <3>2
  <2>. QED BY <1>20, <2>1 DEF RowsOn, True, Revision
<1>27. ResolutionsOn(d)'
  <2>1. ASSUME NEW n \in Entities, marker'[d][n] # None, marker'[d][n].resolution # None
        PROVE  /\ marker'[d][n].resolution.op.e = n /\ marker'[d][n].resolution.op.id \in Resolutions
               /\ \A x \in Pending(outbox'[d], n) \ marker'[d][n].resolution.supersedes :
                    outbox'[d][x].error = "CONFLICT" /\ \A o \in Requested' : o.id # x
               /\ \A x \in marker'[d][n].resolution.supersedes :
                    x \notin fresh' /\ (outbox'[d][x] # None => outbox'[d][x].op.e = n)
    <3> DEFINE m == marker[d][n]
    <3>1. n # e /\ marker'[d][n] = m /\ m # None /\ m.resolution # None
      BY <1>11, <2>1
    <3>2. /\ m.resolution.op.e = n /\ m.resolution.op.id \in Resolutions
          /\ \A x \in Pending(outbox[d], n) \ m.resolution.supersedes :
               outbox[d][x].error = "CONFLICT" /\ \A o \in Requested : o.id # x
          /\ \A x \in m.resolution.supersedes :
               x \notin fresh /\ (outbox[d][x] # None => outbox[d][x].op.e = n)
          /\ m.resolution.supersedes \subseteq Edits
      BY <1>0, <1>2, <3>1, Typed DEF ResolutionsOn, Markers, ResolutionRecords
    <3> HIDE DEF m
    <3>3. \A x \in Pending(outbox[d], n) : outbox'[d][x] = outbox[d][x]
      <4>1. ASSUME NEW y \in Pending(outbox[d], n)
            PROVE  y \in Edits /\ outbox[d][y].op.e # e /\ outbox'[d][y] # None
        BY <1>14, <3>1 DEF Pending
      <4>2. ASSUME NEW y \in Pending(outbox[d], n) PROVE y \notin newer
        BY <1>7, <1>8, <4>1 DEF Pending
      <4>. QED BY <1>13, <4>1, <4>2
    <3>4. Pending(outbox'[d], n) = Pending(outbox[d], n)
      BY <1>14, <3>1
    <3>5. \A x \in m.resolution.supersedes : outbox'[d][x] # None => outbox'[d][x].op.e = n
      BY <1>13, <3>2
    <3>. QED BY <1>18, <1>20, <3>1, <3>2, <3>3, <3>4, <3>5
  <2>2. preview'[d] # None => Undecided(preview'[d].marker)
    BY <1>2, <1>20 DEF ResolutionsOn
  <2>. QED BY <2>1, <2>2 DEF ResolutionsOn
<1>28. Holds(d)'
  BY <1>22, <1>23, <1>24, <1>25, <1>26, <1>27 DEF Holds
<1>. QED BY <1>11, <1>17, <1>18, <1>19, <1>20, <1>21, <1>28, DeviceKeeps

-----------------------------------------------------------------------------
(* The theorems. *)

LEMMA InitIsInductive ==
  Init => Inductive
<1> SUFFICES ASSUME Init
             PROVE  TypeOK /\ Shared /\ \A d \in Devices : Holds(d)
  BY Parts
<1>0. PICK there \in SUBSET Entities :
        /\ history = [e \in Entities |-> IF e \in there THEN <<{}>> ELSE <<>>]
        /\ \E here \in [Devices -> SUBSET there] :
             local = [d \in Devices |-> [e \in Entities |->
                        IF e \in here[d] THEN Row(1, {}) ELSE NoRow]]
  BY DEF Init
<1>1. PICK here \in [Devices -> SUBSET there] :
        local = [d \in Devices |-> [e \in Entities |->
                   IF e \in here[d] THEN Row(1, {}) ELSE NoRow]]
  BY <1>0
<1>2. /\ copies = {} /\ late = {} /\ decided = {} /\ overlaid = {}
      /\ receipts = [i \in Edits \cup Resolutions |-> None]
      /\ outbox = [d \in Devices |-> [x \in Edits |-> None]]
      /\ marker = [d \in Devices |-> [e \in Entities |-> None]]
      /\ preview = [d \in Devices |-> None]
      /\ listed = [d \in Devices |-> {}]
      /\ sync = [d \in Devices |-> Idle]
      /\ fresh = Edits \cup Resolutions
  BY DEF Init
<1>3. /\ Idle \in Syncs /\ Idle.ops = {} /\ Idle.stage = "idle" /\ Idle.refusal = None
  BY DEF Idle, Untried, Request, Syncs
<1>4. ASSUME NEW d \in Devices, NEW e \in Entities
      PROVE  local[d][e] \in Rows /\ True(local[d][e], e)
  <2>1. CASE e \in here[d]
    <3>1. history[e] = <<{}>> /\ local[d][e] = Row(1, {})
      BY <1>0, <1>1, <2>1
    <3>2. Len(<<{}>>) = 1 /\ <<{}>>[1] = {}
      OBVIOUS
    <3>. QED BY <3>1, <3>2 DEF Row, Rows, True, Revision
  <2>2. CASE e \notin here[d]
    BY <1>1, <2>2 DEF NoRow, Row, Rows, True
  <2>. QED BY <2>1, <2>2
<1>5. TypeOK
  <2>1. <<{}>> \in Seq(SUBSET Edits) /\ <<>> \in Seq(SUBSET Edits)
    OBVIOUS
  <2>2. history \in [Entities -> Seq(SUBSET Edits)]
    BY <1>0, <2>1
  <2>3. local \in [Devices -> [Entities -> Rows]]
    BY <1>1, <1>4
  <2>. QED BY <1>2, <1>3, <2>2, <2>3 DEF TypeOK
<1>6. Requested = {}
  BY <1>2, <1>3 DEF Requested
<1>7. Shared
  BY <1>2, <1>6 DEF Shared
<1>8. ASSUME NEW d \in Devices PROVE Holds(d)
  <2>1. /\ sync[d] = Idle /\ preview[d] = None /\ ~ Resolving(d)
        /\ \A x \in Edits : outbox[d][x] = None
        /\ \A e \in Entities : marker[d][e] = None /\ Pending(outbox[d], e) = {}
    BY <1>2, <1>3 DEF Pending, Resolving
  <2>2. OrderedOn(d) /\ OperationsOn(d) /\ ResolutionsOn(d) /\ PausedOn(d) /\ KeptOn(d)
    BY <2>1 DEF OrderedOn, OperationsOn, ResolutionsOn, PausedOn, KeptOn
  <2>3. RequestOn(d)
    BY <1>3, <2>1, NoneAssumption DEF RequestOn, Refusals
  <2>4. RowsOn(d)
    BY <1>4 DEF RowsOn
  <2>. QED BY <2>2, <2>3, <2>4 DEF Holds
<1>. QED BY <1>5, <1>7, <1>8

LEMMA StepIsInductive ==
  Inductive /\ [Next]_vars => Inductive'
<1> SUFFICES ASSUME Inductive, [Next]_vars
             PROVE  Inductive'
  OBVIOUS
<1>1. CASE Elsewhere
  BY <1>1, OnlineEditKeeps, EditCopyKeeps, OpenOnlineKeeps, ServeLateKeeps DEF Elsewhere
<1>2. ASSUME NEW d \in Devices, Edit(d) \/ Download(d) \/ RetrySync(d)
      PROVE  Inductive'
  BY <1>2, LocalEditKeeps, DownloadKeeps, RetrySyncKeeps DEF Edit
<1>3. ASSUME NEW d \in Devices, Synchronize(d)
      PROVE  Inductive'
  BY <1>3, FlushKeeps, SendResolutionKeeps, ServeKeeps, FetchKeeps, AcknowledgeKeeps, RefusedKeeps,
     FinishResolutionKeeps DEF Synchronize
<1>4. ASSUME NEW d \in Devices, Disturb(d)
      PROVE  Inductive'
  BY <1>4, NetworkFailureKeeps, CloseTabKeeps DEF Disturb
<1>5. ASSUME NEW d \in Devices, Resolve(d)
      PROVE  Inductive'
  BY <1>5, EnsureConflictKeeps, CompareKeeps, PrepareKeeps DEF Resolve
<1>6. CASE UNCHANGED vars
  <2>1. UNCHANGED <<history, copies, receipts, late, outbox, local, marker, preview, listed, sync,
                    fresh, decided, overlaid>>
    BY <1>6 DEF vars, server, device, ghost
  <2>2. TypeOK' /\ Grows
    BY <2>1, HistoryStays DEF Inductive, TypeOK
  <2>. QED BY <2>1, <2>2, ServerKeeps DEF device
<1>. QED BY <1>1, <1>2, <1>3, <1>4, <1>5, <1>6 DEF Next

\* The inductive invariant holds of every reachable state: whatever is edited,
\* sent, lost, answered, compared or resolved, on any number of devices.
THEOREM SyncIsInductive == Spec => []Inductive
BY InitIsInductive, StepIsInductive, PTL DEF Spec

\* RevisionNamesContent: the working copy a next edit is based on is a version
\* the server had at that revision (flushConversationBatch,
\* retryOfflineResolution, importOfflinePackage).
THEOREM WorkingCopiesAreTrue == Spec => []RevisionNamesContent
<1>1. Inductive => RevisionNamesContent
  BY DEF Inductive
<1>. QED BY <1>1, SyncIsInductive, PTL

\* RequestKept: the answer to a resolution meets the request it answers
\* (prepareOfflineResolution, ensureNotebookConflict, retryOfflineResolution).
THEOREM ResolutionsKeepRequests == Spec => []RequestKept
<1>1. Inductive => RequestKept
  BY DEF Inductive
<1>. QED BY <1>1, SyncIsInductive, PTL

\* PausedHasConflict: no edit is paused for ever by a conflict that the device
\* has forgotten (queueOfflineOperation, retryOfflineResolution).
THEOREM PausedEditsHaveConflicts == Spec => []PausedHasConflict
<1>1. Inductive => PausedHasConflict
  BY DEF Inductive
<1>. QED BY <1>1, SyncIsInductive, PTL

=============================================================================
