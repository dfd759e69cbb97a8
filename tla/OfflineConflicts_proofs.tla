----------------------- MODULE OfflineConflicts_proofs -----------------------
(***************************************************************************)
(* Conflicts of annotations: what OfflineSync says of the conflicts that a *)
(* device meets itself.  (A notebook's conflict may be taken up from a     *)
(* list, by any device and at any time, and may be gone by then.)          *)
(***************************************************************************)
EXTENDS OfflineSync_proofs

Notes == Entities \ Notebooks

\* A decision of the user that device d has stored for e.
Decides(d, e) == marker[d][e] # None /\ marker[d][e].resolution # None
Chosen(d, e) == marker[d][e].resolution.op

-----------------------------------------------------------------------------
(* What waits and what is requested. *)

\* While a note is in conflict every edit of it waits, paused.
NotesPause ==
  \A d \in Devices, e \in Notes : marker[d][e] # None =>
    \A x \in Pending(outbox[d], e) : outbox[d][x].error = "CONFLICT"

\* Of what waits only the first edit of a note has been requested, and only
\* without a conflict.
OnlyFirstRequested ==
  \A d \in Devices : \A op \in Requested :
    op.id \in Edits /\ op.e \in Notes /\ outbox[d][op.id] # None =>
      Earlier(outbox[d], op.id) = {} /\ marker[d][op.e] = None

\* A requested edit waits until it is answered.
UnansweredWait ==
  \A op \in Requested : op.id \in Edits /\ op.e \in Notes /\ ~Known(op) =>
    \E d \in Devices : outbox[d][op.id] # None

\* Only resolutions name a copy, or keep the server's version.
Plain(op) == op.copy = None /\ ~op.keep
EditsPlain ==
  /\ \A d \in Devices, x \in Edits : outbox[d][x] # None => Plain(outbox[d][x].op)
  /\ \A op \in Requested : op.id \in Edits => Plain(op)

\* An identifier stands for one request ...
RequestsAgree == \A op, o \in Requested : op.id = o.id => op = o

\* ... and for one decision.
DecisionIds ==
  /\ \A op \in Requested : op.id \in Resolutions => op.id \notin fresh
  /\ \A d \in Devices, e \in Entities : Decides(d, e) =>
       /\ Chosen(d, e).id \notin fresh
       /\ \A op \in Requested : op.id = Chosen(d, e).id => op = Chosen(d, e)
       /\ \A o \in Devices, n \in Entities :
            Decides(o, n) /\ Chosen(o, n).id = Chosen(d, e).id => o = d /\ n = e

\* The answers a device has are the receipts of its request.
AnswersHold ==
  \A d \in Devices : sync[d].stage \in {"answered", "read"} =>
    /\ \A op \in sync[d].ops : Known(op)
    /\ sync[d].answers = {receipts[op.id] : op \in sync[d].ops}

\* Only copies of notebooks are listed.
NotebooksListed ==
  \A d \in Devices :
    /\ \A c \in listed[d] : c.e \in Notebooks
    /\ sync[d].snapshot # None => \A c \in sync[d].snapshot.copies : c.e \in Notebooks

QueueRules ==
  /\ NotesPause /\ OnlyFirstRequested /\ UnansweredWait /\ EditsPlain
  /\ RequestsAgree /\ DecisionIds /\ AnswersHold /\ NotebooksListed

-----------------------------------------------------------------------------
(* What the steps change. *)

\* The other devices are left alone.
Alone(d) ==
  \A o \in Devices \ {d} :
    /\ outbox'[o] = outbox[o] /\ local'[o] = local[o] /\ marker'[o] = marker[o]
    /\ preview'[o] = preview[o] /\ listed'[o] = listed[o] /\ sync'[o] = sync[o]

\* The operations of an outbox stay as they are.
SameQueue(d) ==
  \A x \in Edits : /\ outbox'[d][x] = None <=> outbox[d][x] = None
                   /\ outbox[d][x] # None => outbox'[d][x].op = outbox[d][x].op

LEMMA SamePending ==
  ASSUME NEW d, SameQueue(d)
  PROVE  /\ \A e : Pending(outbox'[d], e) = Pending(outbox[d], e)
         /\ \A x \in Edits : outbox[d][x] # None => Earlier(outbox'[d], x) = Earlier(outbox[d], x)
BY DEF SameQueue, Pending, Earlier

LEMMA LocalEditEffect ==
  ASSUME TypeOK, NEW d \in Devices, NEW e \in Entities, NEW x \in Edits, LocalEdit(d, e, x)
  PROVE  /\ x \in fresh /\ fresh' = fresh \ {x} /\ Alone(d)
         /\ UNCHANGED <<history, copies, receipts, late, marker, preview, listed, sync, decided, overlaid>>
         /\ \A n \in Entities \ {e} : local'[d][n] = local[d][n]
         /\ local'[d][e].content = local[d][e].content \cup {x}
         /\ \A y \in Edits \ {x} : outbox'[d][y] = outbox[d][y]
         /\ outbox'[d][x] # None /\ Plain(outbox'[d][x].op)
         /\ outbox'[d][x].op.id = x /\ outbox'[d][x].op.e = e
         /\ outbox'[d][x].op.base = local[d][e].rev
         /\ outbox'[d][x].op.content = local[d][e].content \cup {x}
         /\ outbox'[d][x].error = FirstError(d, e)
<1> DEFINE row == local[d][e]
           next == Row(row.rev + 1, row.content \cup {x})
           item == [op |-> Operation(x, e, row.rev, next.content), attempts |-> 0,
                    error |-> FirstError(d, e)]
<1>1. /\ x \in fresh /\ fresh' = fresh \ {x}
      /\ local' = [local EXCEPT ![d][e] = next]
      /\ outbox' = [outbox EXCEPT ![d][x] = item]
      /\ UNCHANGED <<history, copies, receipts, late, marker, preview, listed, sync, decided,
                    overlaid>>
  BY DEF LocalEdit, server, ghost
<1>2. item \in Queued /\ next.content = row.content \cup {x}
  <2>1. row \in Rows /\ next.content = row.content \cup {x}
    BY Typed DEF Row
  <2>2. Operation(x, e, row.rev, next.content) \in Operations
    BY <2>1 DEF Operation, Operations, Rows
  <2>. QED BY <2>1, <2>2 DEF Queued, FirstError, Errors, Refusals
<1>3. /\ Plain(item.op) /\ item.op.id = x /\ item.op.e = e /\ item.op.base = row.rev
      /\ item.op.content = row.content \cup {x} /\ item.error = FirstError(d, e)
  BY <1>2 DEF Operation, Plain
<1> HIDE DEF next, item
<1>4. /\ local'[d][e] = next /\ \A n \in Entities \ {e} : local'[d][n] = local[d][n]
      /\ outbox'[d][x] = item /\ \A y \in Edits \ {x} : outbox'[d][y] = outbox[d][y]
      /\ \A o \in Devices \ {d} : outbox'[o] = outbox[o] /\ local'[o] = local[o]
  BY <1>1 DEF TypeOK
<1>. QED BY <1>1, <1>2, <1>3, <1>4, NoneAssumption DEF Alone

LEMMA RetrySyncEffect ==
  ASSUME TypeOK, NEW d \in Devices, RetrySync(d)
  PROVE  /\ SameQueue(d) /\ Alone(d)
         /\ UNCHANGED <<history, copies, receipts, late, local, marker, preview, listed, sync, fresh,
                        decided, overlaid>>
         /\ \A x \in Edits : outbox[d][x] # None /\ outbox[d][x].error = "CONFLICT" =>
              outbox'[d][x].error = "CONFLICT"
<1>1. UNCHANGED <<history, copies, receipts, late, local, marker, preview, listed, sync, fresh,
                  decided, overlaid>>
  BY DEF RetrySync, server, ghost
<1>2. \A o \in Devices \ {d} : outbox'[o] = outbox[o]
  BY DEF RetrySync, TypeOK
<1>3. \A x \in Edits : outbox'[d][x] =
        IF x \in Stopped(outbox[d])
        THEN [op |-> outbox[d][x].op, attempts |-> 0, error |-> None] ELSE outbox[d][x]
  BY DEF RetrySync, TypeOK
<1>4. ASSUME NEW x \in Edits
      PROVE  /\ outbox'[d][x] = None <=> outbox[d][x] = None
             /\ outbox[d][x] # None => outbox'[d][x].op = outbox[d][x].op
             /\ outbox[d][x] # None /\ outbox[d][x].error = "CONFLICT" =>
                  outbox'[d][x].error = "CONFLICT"
  <2>1. CASE x \in Stopped(outbox[d])
    <3> DEFINE item == [op |-> outbox[d][x].op, attempts |-> 0, error |-> None]
    <3>1. outbox[d][x] \in Queued /\ outbox[d][x].error # "CONFLICT"
      BY <2>1, Typed DEF Stopped
    <3>2. item \in Queued /\ item.op = outbox[d][x].op
      BY <3>1 DEF Queued, Errors
    <3>. QED BY <1>3, <2>1, <3>1, <3>2, NoneAssumption
  <2>2. CASE x \notin Stopped(outbox[d])
    BY <1>3, <2>2
  <2>. QED BY <2>1, <2>2
<1>. QED BY <1>1, <1>2, <1>4 DEF SameQueue, Alone

LEMMA DownloadEffect ==
  ASSUME TypeOK, NEW d \in Devices, Download(d)
  PROVE  /\ Alone(d)
         /\ UNCHANGED <<history, copies, receipts, late, outbox, marker, preview, sync, fresh,
                        decided, overlaid>>
         /\ listed'[d] \subseteq listed[d]
         /\ \A e \in Entities :
              \/ local'[d][e] = local[d][e]
              \/ local'[d][e] = NoRow
              \/ \E i \in DOMAIN history[e] : local'[d][e].content = history[e][i]
<1>1. PICK rev \in [Entities -> 0 .. Cardinality(Edits \cup Resolutions) + 1] :
        /\ \A e \in Entities : rev[e] \in 0 .. Revision(e)
        /\ local' = [local EXCEPT ![d] = [e \in Entities |->
             IF Pending(outbox[d], e) # {} \/ marker[d][e] # None
             THEN local[d][e]
             ELSE IF rev[e] = 0 THEN NoRow ELSE Row(rev[e], history[e][rev[e]])]]
        /\ listed' = [listed EXCEPT ![d] =
             {c \in listed[d] : marker[d][c.e] # None /\ marker[d][c.e].copy = c.id}]
        /\ UNCHANGED <<history, copies, receipts, late, outbox, marker, preview, sync, fresh,
                       decided, overlaid>>
  BY DEF Download, server, ghost
<1>2. Alone(d) /\ listed'[d] \subseteq listed[d]
  BY <1>1 DEF TypeOK, Alone
<1>3. ASSUME NEW e \in Entities
      PROVE  \/ local'[d][e] = local[d][e]
             \/ local'[d][e] = NoRow
             \/ \E i \in DOMAIN history[e] : local'[d][e].content = history[e][i]
  <2>1. \/ local'[d][e] = local[d][e] \/ local'[d][e] = NoRow
        \/ rev[e] # 0 /\ local'[d][e] = Row(rev[e], history[e][rev[e]])
    BY <1>1 DEF TypeOK
  <2>2. rev[e] # 0 => rev[e] \in DOMAIN history[e]
    <3>1. history[e] \in Seq(SUBSET Edits)
      BY DEF TypeOK
    <3>2. rev[e] \in 0 .. Len(history[e])
      BY <1>1 DEF Revision
    <3>. QED BY <3>1, <3>2
  <2>. QED BY <2>1, <2>2 DEF Row
<1>. QED BY <1>1, <1>2, <1>3

LEMMA FlushEffect ==
  ASSUME TypeOK, NEW d \in Devices, Flush(d)
  PROVE  LET ops == {outbox[d][x].op : x \in Sendable(outbox[d])}
         IN  /\ Alone(d) /\ sync[d] = Idle
             /\ sync'[d].stage = "sent" /\ sync'[d].ops = ops /\ sync'[d].snapshot = None
             /\ UNCHANGED <<history, copies, receipts, late, outbox, local, marker, preview, listed,
                            fresh, decided, overlaid>>
<1>1. UNCHANGED <<history, copies, receipts, late, outbox, local, marker, preview, listed, fresh,
                  decided, overlaid>>
  BY DEF Flush, server, device, ghost
<1>. QED BY <1>1 DEF Flush, Wait, Request, TypeOK, Alone

LEMMA SendResolutionEffect ==
  ASSUME TypeOK, NEW d \in Devices, NEW e \in Entities, SendResolution(d, e)
  PROVE  /\ Alone(d) /\ sync[d] = Idle
         /\ Decides(d, e) /\ ~marker[d][e].resolution.stale
         /\ sync'[d].stage = "sent" /\ sync'[d].ops = {Chosen(d, e)} /\ sync'[d].snapshot = None
         /\ UNCHANGED <<history, copies, receipts, late, outbox, local, marker, preview, listed,
                        fresh, decided, overlaid>>
<1>1. UNCHANGED <<history, copies, receipts, late, outbox, local, marker, preview, listed, fresh,
                  decided, overlaid>>
  BY DEF SendResolution, server, device, ghost
<1>. QED BY <1>1 DEF SendResolution, Wait, Request, TypeOK, Alone, Decides, Chosen

\* What a request that is applied leaves on the server.
LEMMA ApplyEffect ==
  ASSUME TypeOK, Shared, RequestsAgree, NEW ops, ops \subseteq Requested, ops \subseteq Operations,
         Apply(ops)
  PROVE  /\ Grows
         /\ \A op \in ops : receipts'[op.id] = Answered(op) /\ receipts'[op.id] # None
                            /\ receipts'[op.id].op = op
         /\ \A i \in Edits \cup Resolutions :
              /\ receipts[i] # None => receipts'[i] = receipts[i]
              /\ receipts'[i] # None => receipts[i] # None \/ \E op \in ops : op.id = i
         /\ \A e \in Entities :
              \/ history'[e] = history[e]
              \/ \E op \in ops : op.e = e /\ Writes(op) /\ history'[e] = Append(history[e], op.content)
         /\ copies' = {c \in copies : \A op \in ops : Known(op) \/ c.id # op.copy}
              \cup {[id |-> op.id, e |-> op.e, content |-> op.content, rev |-> 1] :
                      op \in {o \in ops : Conflicts(o)}}
<1>1. Grows
  <2>1. ops \in SUBSET Operations
    OBVIOUS
  <2>. QED BY <2>1, Applied
<1>2. ASSUME NEW op \in ops
      PROVE  op.id \in Edits \cup Resolutions /\ (CHOOSE o \in ops : o.id = op.id) = op
  BY DEF RequestsAgree, Operations
<1>3. ASSUME NEW op \in ops
      PROVE  Answered(op) # None /\ Answered(op).op = op
  <2>1. CASE Known(op)
    <3>1. receipts[op.id] # None /\ receipts[op.id].op.id = op.id
      BY <1>2, <2>1 DEF Known, Shared, TypeOK
    <3>2. receipts[op.id].op \in Requested
      BY <1>2, <3>1 DEF Requested, TypeOK
    <3>3. receipts[op.id].op = op
      BY <3>1, <3>2 DEF RequestsAgree
    <3>. QED BY <2>1, <3>1, <3>3 DEF Answered
  <2>2. CASE ~Known(op)
    <3>1. Answered(op) \in Answers
      <4>1. ops \in SUBSET Operations
        OBVIOUS
      <4>. QED BY <4>1, Applied
    <3>. QED BY <2>2, <3>1, NoneAssumption DEF Answered
  <2>. QED BY <2>1, <2>2
<1>4. \A i \in Edits \cup Resolutions :
        receipts'[i] = IF \E op \in ops : op.id = i
                       THEN Answered(CHOOSE op \in ops : op.id = i) ELSE receipts[i]
  BY DEF Apply, TypeOK
<1>5. \A op \in ops : receipts'[op.id] = Answered(op)
  BY <1>2, <1>4
<1>6. ASSUME NEW i \in Edits \cup Resolutions
      PROVE  /\ receipts[i] # None => receipts'[i] = receipts[i]
             /\ receipts'[i] # None => receipts[i] # None \/ \E op \in ops : op.id = i
  <2>1. CASE \E op \in ops : op.id = i
    <3>1. PICK op \in ops : op.id = i
      BY <2>1
    <3>. QED BY <1>5, <3>1 DEF Answered, Known
  <2>2. CASE ~ \E op \in ops : op.id = i
    BY <1>4, <2>2
  <2>. QED BY <2>1, <2>2
<1>7. ASSUME NEW e \in Entities
      PROVE  \/ history'[e] = history[e]
             \/ \E op \in ops : op.e = e /\ Writes(op) /\ history'[e] = Append(history[e], op.content)
  <2> DEFINE own == {op \in ops : op.e = e /\ Writes(op)}
  <2>1. history'[e] = IF own = {} THEN history[e]
                      ELSE Append(history[e], (CHOOSE op \in own : TRUE).content)
    BY DEF Apply
  <2>2. own # {} => (CHOOSE op \in own : TRUE) \in own
    OBVIOUS
  <2>. QED BY <2>1, <2>2
<1>8. copies' = {c \in copies : \A op \in ops : Known(op) \/ c.id # op.copy}
         \cup {[id |-> op.id, e |-> op.e, content |-> op.content, rev |-> 1] :
                 op \in {o \in ops : Conflicts(o)}}
  BY DEF Apply
<1>. QED BY <1>1, <1>3, <1>5, <1>6, <1>7, <1>8

LEMMA ServeEffect ==
  ASSUME TypeOK, NEW d \in Devices, Serve(d)
  PROVE  /\ Alone(d) /\ sync[d].stage = "sent"
         /\ sync'[d].ops = sync[d].ops /\ sync'[d].snapshot = None
         /\ UNCHANGED <<late, outbox, local, marker, preview, listed, fresh, overlaid>>
         /\ \/ /\ Refusal(sync[d].ops) # None
               /\ sync'[d].stage = "refused" /\ sync'[d].refusal = Refusal(sync[d].ops)
               /\ UNCHANGED <<history, copies, receipts, decided>>
            \/ /\ Refusal(sync[d].ops) = None
               /\ sync'[d].stage = "answered"
               /\ sync'[d].answers = {Answered(op) : op \in sync[d].ops}
               /\ Apply(sync[d].ops)
<1>1. sync[d].stage = "sent" /\ UNCHANGED <<late, outbox, local, marker, preview, listed, fresh, overlaid>>
  BY DEF Serve, device
<1>2. CASE Refusal(sync[d].ops) # None
  <2>1. /\ sync' = [sync EXCEPT ![d] =
                Request("refused", @.ops, @.tries, Refusal(@.ops), {}, None)]
        /\ UNCHANGED <<history, copies, receipts, decided>>
    BY <1>2 DEF Serve, server
  <2>. QED BY <1>1, <1>2, <2>1 DEF TypeOK, Alone, Request
<1>3. CASE Refusal(sync[d].ops) = None
  <2> DEFINE answers == {Answered(op) : op \in sync[d].ops}
  <2>1. /\ sync' = [sync EXCEPT ![d] =
                Request("answered", sync[d].ops, sync[d].tries, None, answers, None)]
        /\ Apply(sync[d].ops)
    BY <1>3 DEF Serve
  <2> HIDE DEF answers
  <2>2. /\ sync'[d].ops = sync[d].ops /\ sync'[d].stage = "answered"
        /\ sync'[d].answers = answers /\ sync'[d].snapshot = None
        /\ \A o \in Devices \ {d} : sync'[o] = sync[o]
    BY <2>1 DEF TypeOK, Request
  <2>. QED BY <1>1, <1>3, <2>1, <2>2 DEF Alone, answers
<1>. QED BY <1>2, <1>3

LEMMA FetchEffect ==
  ASSUME TypeOK, NEW d \in Devices, Fetch(d)
  PROVE  /\ Alone(d) /\ sync[d].stage = "answered" /\ sync'[d].stage = "read"
         /\ sync'[d].ops = sync[d].ops /\ sync'[d].answers = sync[d].answers
         /\ sync'[d].snapshot.copies = {c \in copies : c.e \in Notebooks}
         /\ \A e \in Entities : sync'[d].snapshot.rows[e] =
              IF history'[e] = <<>> THEN NoRow
              ELSE Row(Len(history'[e]), history'[e][Len(history'[e])])
         /\ history' = WithNotebooks(history)
         /\ UNCHANGED <<copies, receipts, late, outbox, local, marker, preview, listed, fresh,
                        decided, overlaid>>
<1> DEFINE rows == [e \in Entities |->
                      IF history'[e] = <<>> THEN NoRow
                      ELSE Row(Len(history'[e]), history'[e][Len(history'[e])])]
           snapshot == [rows |-> rows, copies |-> {c \in copies : c.e \in Notebooks}]
<1>1. /\ sync[d].stage = "answered" /\ history' = WithNotebooks(history)
      /\ sync' = [sync EXCEPT ![d] = Request("read", @.ops, @.tries, None, @.answers, snapshot)]
      /\ UNCHANGED <<copies, receipts, late, outbox, local, marker, preview, listed, fresh,
                     decided, overlaid>>
  BY DEF Fetch, device, ghost
<1>2. /\ \A e \in Entities : rows[e] = IF history'[e] = <<>> THEN NoRow
                                ELSE Row(Len(history'[e]), history'[e][Len(history'[e])])
      /\ snapshot.rows = rows /\ snapshot.copies = {c \in copies : c.e \in Notebooks}
  OBVIOUS
<1> HIDE DEF rows, snapshot
<1>. QED BY <1>1, <1>2 DEF TypeOK, Request, Alone

LEMMA AcknowledgeEffect ==
  ASSUME TypeOK, NEW d \in Devices, RequestOn(d), Acknowledge(d)
  PROVE  LET done == {op.id : op \in sync[d].ops}
             lost == {a.op : a \in {b \in sync[d].answers : b.copied}}
         IN  /\ Alone(d) /\ sync[d].stage = "read" /\ ~Resolving(d) /\ sync'[d] = Idle
             /\ UNCHANGED <<history, copies, receipts, late, preview, fresh, decided, overlaid>>
             /\ \A x \in Edits :
                  /\ outbox'[d][x] # None <=> outbox[d][x] # None /\ x \notin done
                  /\ outbox'[d][x] # None =>
                       /\ outbox'[d][x].op = outbox[d][x].op
                       /\ outbox'[d][x].error \in {outbox[d][x].error, "CONFLICT"}
                       /\ (\E op \in lost : op.e = outbox[d][x].op.e) => outbox'[d][x].error = "CONFLICT"
             /\ \A e \in Entities :
                  \/ marker'[d][e] = marker[d][e] /\ ~ \E op \in lost : op.e = e
                  \/ \E op \in lost :
                       /\ op.e = e /\ marker'[d][e] # None /\ marker'[d][e].copy = op.id
                       /\ marker'[d][e].content = op.content /\ marker'[d][e].resolution = None
             /\ \A e \in Entities :
                  local'[d][e] = IF Pending(outbox'[d], e) # {} THEN local[d][e]
                                 ELSE sync[d].snapshot.rows[e]
             /\ listed'[d] \subseteq listed[d] \cup sync[d].snapshot.copies
<1> DEFINE done == {op.id : op \in sync[d].ops}
           lost == {r.op : r \in {a \in sync[d].answers : a.copied}}
           clashes(e) == {op \in lost : op.e = e}
           rest == Without(outbox[d], done)
           snap == sync[d].snapshot
           pausing(x) == \E op \in lost : x \in Pending(rest, op.e)
           new(e) == [copy |-> (CHOOSE o \in clashes(e) : TRUE).id,
                      content |-> (CHOOSE o \in clashes(e) : TRUE).content,
                      resolution |-> None]
<1>1. /\ sync[d].stage = "read" /\ ~ Resolving(d)
      /\ outbox' = [outbox EXCEPT ![d] = [x \in Edits |->
           IF pausing(x) THEN [rest[x] EXCEPT !.error = "CONFLICT"] ELSE rest[x]]]
      /\ marker' = [marker EXCEPT ![d] = [e \in Entities |->
           IF clashes(e) = {} THEN marker[d][e] ELSE new(e)]]
      /\ local' = [local EXCEPT ![d] = [e \in Entities |->
           IF Untouched(rest, e) THEN local[d][e] ELSE snap.rows[e]]]
      /\ listed' = [listed EXCEPT ![d] =
           snap.copies \cup {c \in listed[d] : Untouched(rest, c.e)}]
      /\ sync' = [sync EXCEPT ![d] = Idle]
      /\ UNCHANGED <<history, copies, receipts, late, preview, fresh, decided, overlaid>>
  BY DEF Acknowledge, server, ghost
<1>2. Alone(d) /\ sync'[d] = Idle
  BY <1>1 DEF TypeOK, Alone
<1>3. \A op \in lost : op \in Operations
  BY Typed DEF Syncs, Answers
<1>4. ASSUME NEW x \in Edits
      PROVE  /\ rest[x] = IF x \in done THEN None ELSE outbox[d][x]
             /\ outbox'[d][x] # None <=> rest[x] # None
             /\ outbox'[d][x] # None =>
                  /\ outbox'[d][x].op = outbox[d][x].op
                  /\ outbox'[d][x].error = IF pausing(x) THEN "CONFLICT" ELSE outbox[d][x].error
  <2>1. rest[x] = IF x \in done THEN None ELSE outbox[d][x]
    BY DEF Without
  <2>2. outbox[d][x] \in Queued \cup {None}
    BY Typed
  <2>3. outbox'[d][x] = IF pausing(x) THEN [rest[x] EXCEPT !.error = "CONFLICT"] ELSE rest[x]
    BY <1>1 DEF TypeOK
  <2>4. pausing(x) => rest[x] # None
    <3> HIDE DEF rest, lost
    <3>. QED BY DEF Pending
  <2> HIDE DEF rest, done, pausing
  <2>5. CASE pausing(x)
    <3>1. rest[x] \in Queued
      BY <2>1, <2>2, <2>4, <2>5
    <3>2. [rest[x] EXCEPT !.error = "CONFLICT"] \in Queued
      BY <3>1 DEF Queued, Errors, Refusals
    <3>3. /\ [rest[x] EXCEPT !.error = "CONFLICT"].op = rest[x].op
          /\ [rest[x] EXCEPT !.error = "CONFLICT"].error = "CONFLICT"
      BY <3>1 DEF Queued
    <3>. QED BY <2>1, <2>3, <2>4, <2>5, <3>2, <3>3, NoneAssumption
  <2>6. CASE ~ pausing(x)
    BY <2>1, <2>2, <2>3, <2>6
  <2>. QED BY <2>5, <2>6
<1>5. ASSUME NEW x \in Edits, outbox'[d][x] # None, NEW op \in lost, op.e = outbox[d][x].op.e
      PROVE  pausing(x)
  <2>1. rest[x] # None /\ rest[x].op.e = op.e
    BY <1>4, <1>5
  <2> HIDE DEF rest, lost
  <2>2. x \in Pending(rest, op.e)
    BY <2>1 DEF Pending
  <2>. QED BY <2>2
<1>6. \A e \in Entities : Pending(outbox'[d], e) = Pending(rest, e)
  <2>1. \A x \in Edits : rest[x] # None => rest[x].op = outbox'[d][x].op
    BY <1>4
  <2> HIDE DEF rest
  <2>. QED BY <1>4, <2>1 DEF Pending
<1>7. ASSUME NEW e \in Entities
      PROVE  \/ marker'[d][e] = marker[d][e] /\ ~ \E op \in lost : op.e = e
             \/ \E op \in lost :
                  /\ op.e = e /\ marker'[d][e] # None /\ marker'[d][e].copy = op.id
                  /\ marker'[d][e].content = op.content /\ marker'[d][e].resolution = None
  <2>1. marker'[d][e] = IF clashes(e) = {} THEN marker[d][e] ELSE new(e)
    BY <1>1 DEF TypeOK
  <2>2. CASE clashes(e) = {}
    BY <2>1, <2>2
  <2>3. CASE clashes(e) # {}
    <3> DEFINE op == CHOOSE o \in clashes(e) : TRUE
    <3>1. op \in clashes(e)
      BY <2>3
    <3>2. op \in lost /\ op.e = e
      BY <3>1
    <3>3. op.id \in Edits /\ op.content \in SUBSET Edits
      BY <3>2, Typed DEF Syncs, Answers, Operations
    <3>4. marker'[d][e] = [copy |-> op.id, content |-> op.content, resolution |-> None]
      BY <2>1, <2>3
    <3> HIDE DEF op, lost
    <3>5. marker'[d][e] \in Markers
      BY <3>3, <3>4 DEF Markers
    <3>. QED BY <3>2, <3>4, <3>5, NoneAssumption
  <2>. QED BY <2>2, <2>3
<1>8. \A e \in Entities :
        local'[d][e] = IF Pending(outbox'[d], e) # {} THEN local[d][e] ELSE snap.rows[e]
  BY <1>1, <1>6 DEF TypeOK, Untouched
<1>9. listed'[d] \subseteq listed[d] \cup snap.copies
  BY <1>1 DEF TypeOK
<1> HIDE DEF rest, snap, lost, done, pausing
<1>10. \A x \in Edits :
         /\ outbox'[d][x] # None <=> outbox[d][x] # None /\ x \notin done
         /\ outbox'[d][x] # None =>
              /\ outbox'[d][x].op = outbox[d][x].op
              /\ outbox'[d][x].error \in {outbox[d][x].error, "CONFLICT"}
              /\ (\E op \in lost : op.e = outbox[d][x].op.e) => outbox'[d][x].error = "CONFLICT"
  BY <1>4, <1>5
<1>. QED BY <1>1, <1>2, <1>7, <1>8, <1>9, <1>10 DEF snap, lost, done

LEMMA FailedEffect ==
  ASSUME TypeOK, NEW d \in Devices, KeptOn(d), NEW code \in Errors, Failed(d, code)
  PROVE  /\ SameQueue(d) /\ Alone(d) /\ sync'[d] = Idle
         /\ UNCHANGED <<history, copies, receipts, local, preview, listed, fresh, decided, overlaid>>
         /\ \A x \in Edits : outbox'[d][x] # outbox[d][x] =>
              ~Resolving(d) /\ x \in {op.id : op \in sync[d].ops}
         /\ \A e \in Entities :
              \/ /\ marker'[d][e] = marker[d][e]
                 /\ Resolving(d) => e # Resolution(d).e
              \/ /\ Resolving(d) /\ e = Resolution(d).e
                 /\ Decides(d, e) /\ Decides(d, e)'
                 /\ Chosen(d, e) = Resolution(d) /\ Chosen(d, e)' = Resolution(d)
                 /\ marker'[d][e].copy = marker[d][e].copy
                 /\ marker'[d][e].content = marker[d][e].content
                 /\ marker'[d][e].resolution.supersedes = marker[d][e].resolution.supersedes
                 /\ marker'[d][e].resolution.prior = marker[d][e].resolution.prior
                 /\ marker'[d][e].resolution.stale = (code \in {"STALE", "CONFLICT"})
<1>1. /\ sync' = [sync EXCEPT ![d] = Idle]
      /\ UNCHANGED <<history, copies, receipts, local, preview, listed, fresh, decided, overlaid>>
  BY DEF Failed, server, ghost
<1>2. sync'[d] = Idle /\ \A o \in Devices \ {d} : sync'[o] = sync[o]
  BY <1>1 DEF TypeOK
<1>3. CASE Resolving(d)
  <2> DEFINE e == Resolution(d).e
             was == marker[d][e].resolution
             stale == code \in {"STALE", "CONFLICT"}
  <2>1. Current(d) /\ e \in Entities
    <3>1. Resolution(d) \in sync[d].ops
      BY <1>3 DEF Resolving, Resolution
    <3>. QED BY <1>3, <3>1, Typed DEF KeptOn, Operations, Syncs
  <2>2. /\ marker' = [marker EXCEPT ![d][e].resolution.stale = stale]
        /\ outbox' = outbox
    BY <1>3, <2>1, Zenon DEF Failed
  <2>0. stale \in BOOLEAN
    OBVIOUS
  <2> HIDE DEF stale
  <2> DEFINE now == [was EXCEPT !.stale = stale]
             m == [marker[d][e] EXCEPT !.resolution = now]
  <2>3. marker[d][e] # None /\ was # None /\ marker[d][e] \in Markers /\ was \in ResolutionRecords
    BY <2>1, Typed DEF Current, Markers
  <2>4. /\ now \in ResolutionRecords /\ now.op = was.op /\ now.supersedes = was.supersedes
        /\ now.prior = was.prior /\ now.stale = stale
    BY <2>0, <2>3 DEF ResolutionRecords
  <2>5. marker' = [marker EXCEPT ![d] = [marker[d] EXCEPT ![e] = m]]
    BY <2>1, <2>2 DEF TypeOK
  <2> HIDE DEF now
  <2>6. /\ m \in Markers /\ m.resolution = now /\ m.copy = marker[d][e].copy
        /\ m.content = marker[d][e].content
    BY <2>3, <2>4 DEF Markers
  <2> HIDE DEF m
  <2>7. /\ marker'[d][e] = m /\ m # None /\ now # None
        /\ \A n \in Entities : n # e => marker'[d][n] = marker[d][n]
        /\ \A o \in Devices \ {d} : marker'[o] = marker[o]
    BY <2>1, <2>4, <2>5, <2>6, NoneAssumption DEF TypeOK
  <2>8. was.op = Resolution(d)
    BY <2>1 DEF Current
  <2>9. Alone(d) /\ SameQueue(d)
    BY <1>1, <1>2, <2>2, <2>7 DEF Alone, SameQueue
  <2>. QED BY <1>1, <1>2, <1>3, <2>2, <2>3, <2>4, <2>6, <2>7, <2>8, <2>9 DEF Decides, Chosen, stale
<1>4. CASE ~ Resolving(d)
  <2> DEFINE ids == {op.id : op \in sync[d].ops}
  <2>1. /\ outbox' = [outbox EXCEPT ![d] = [x \in Edits |->
             IF outbox[d][x] # None /\ x \in ids THEN Bump(outbox[d][x], sync[d].tries[x], code) ELSE outbox[d][x]]]
        /\ marker' = marker
    BY <1>4 DEF Failed
  <2>2. ASSUME NEW x \in Edits
        PROVE  /\ outbox'[d][x] = None <=> outbox[d][x] = None
               /\ outbox[d][x] # None => outbox'[d][x].op = outbox[d][x].op
               /\ outbox'[d][x] = outbox[d][x] \/ x \in ids
    <3>1. outbox[d][x] \in Queued \cup {None}
      BY Typed
    <3>2. outbox'[d][x] = IF outbox[d][x] # None /\ x \in ids THEN Bump(outbox[d][x], sync[d].tries[x], code)
                          ELSE outbox[d][x]
      BY <2>1 DEF TypeOK
    <3>3. sync[d].tries[x] \in Nat
      BY Typed DEF Syncs
    <3>4. outbox[d][x] # None => /\ Bump(outbox[d][x], sync[d].tries[x], code) \in Queued
                                 /\ Bump(outbox[d][x], sync[d].tries[x], code).op = outbox[d][x].op
      BY <3>1, <3>3 DEF Bump, Queued
    <3>. QED BY <3>2, <3>4, NoneAssumption
  <2>3. Alone(d) /\ SameQueue(d)
    BY <1>1, <1>2, <2>1, <2>2 DEF TypeOK, Alone, SameQueue
  <2>. QED BY <1>1, <1>2, <1>4, <2>1, <2>2, <2>3
<1>. QED BY <1>3, <1>4

LEMMA CloseTabEffect ==
  ASSUME TypeOK, NEW d \in Devices, CloseTab(d)
  PROVE  /\ Alone(d) /\ sync'[d] = Idle /\ preview'[d] = None
         /\ late' = late \/ late' = late \cup {sync[d].ops}
         /\ UNCHANGED <<history, copies, receipts, outbox, local, marker, listed, fresh, decided, overlaid>>
<1>1. UNCHANGED <<history, copies, receipts, outbox, local, marker, listed, fresh, decided, overlaid>>
  BY DEF CloseTab, server, ghost
<1>. QED BY <1>1 DEF CloseTab, Abandoned, TypeOK, Alone

LEMMA EnsureConflictEffect ==
  ASSUME TypeOK, NEW d \in Devices, NEW c \in listed[d], EnsureConflict(d, c)
  PROVE  /\ c.e \in Entities /\ marker[d][c.e] = None /\ Alone(d)
         /\ \A n \in Entities \ {c.e} : marker'[d][n] = marker[d][n]
         /\ marker'[d][c.e] # None /\ marker'[d][c.e].copy = c.id
         /\ marker'[d][c.e].content = c.content /\ marker'[d][c.e].resolution = None
         /\ UNCHANGED <<history, copies, receipts, late, outbox, local, preview, listed, sync, fresh,
                        decided, overlaid>>
<1> DEFINE m == [copy |-> c.id, content |-> c.content, resolution |-> None]
<1>1. /\ marker[d][c.e] = None /\ marker' = [marker EXCEPT ![d][c.e] = m]
      /\ UNCHANGED <<history, copies, receipts, late, outbox, local, preview, listed, sync, fresh,
                     decided, overlaid>>
  BY DEF EnsureConflict, server, ghost
<1>2. c.e \in Entities /\ m \in Markers
  BY DEF TypeOK, Copies, Markers
<1>3. m # None /\ m.copy = c.id /\ m.content = c.content /\ m.resolution = None
  BY <1>2, NoneAssumption
<1> HIDE DEF m
<1>. QED BY <1>1, <1>2, <1>3 DEF TypeOK, Alone

\* A comparison shows what the row, the copy and the device have.
LEMMA CompareEffect ==
  ASSUME TypeOK, NEW d \in Devices, NEW e \in Entities, Compare(d, e)
  PROVE  /\ Alone(d) /\ marker[d][e] # None /\ Undecided(marker[d][e])
         /\ \E c \in copies :
              /\ c.id = marker[d][e].copy
              /\ preview'[d].e = e /\ preview'[d].marker = marker[d][e]
              /\ preview'[d].pending = Pending(outbox[d], e)
              /\ preview'[d].base = Revision(e) /\ preview'[d].seenCopy = c.rev
              /\ preview'[d].content = Content(e) \cup c.content \cup
                   (IF Pending(outbox[d], e) = {} THEN marker[d][e].content
                    ELSE LatestContent(outbox[d], Pending(outbox[d], e)))
         /\ UNCHANGED <<history, copies, receipts, late, outbox, local, marker, listed, sync, fresh,
                        decided, overlaid>>
<1>1. UNCHANGED <<history, copies, receipts, late, outbox, local, marker, listed, sync, fresh,
                  decided, overlaid>>
  BY DEF Compare, server, ghost
<1> DEFINE mine == Pending(outbox[d], e)
           shown == IF mine = {} THEN marker[d][e].content ELSE LatestContent(outbox[d], mine)
           p(c) == [e |-> e, marker |-> marker[d][e], pending |-> mine,
                    base |-> Revision(e), seenCopy |-> c.rev,
                    content |-> Content(e) \cup c.content \cup shown]
<1>2. PICK c \in copies : c.id = marker[d][e].copy /\ preview' = [preview EXCEPT ![d] = p(c)]
  BY DEF Compare
<1>3. preview'[d] = p(c) /\ \A o \in Devices \ {d} : preview'[o] = preview[o]
  BY <1>2 DEF TypeOK
<1>4. /\ p(c).e = e /\ p(c).marker = marker[d][e] /\ p(c).pending = mine
      /\ p(c).base = Revision(e) /\ p(c).seenCopy = c.rev
      /\ p(c).content = Content(e) \cup c.content \cup shown
  OBVIOUS
<1>5. marker[d][e] # None /\ Undecided(marker[d][e])
  BY DEF Compare
<1> HIDE DEF p
<1>6. Alone(d)
  BY <1>1, <1>3 DEF Alone
<1>. QED BY <1>1, <1>2, <1>3, <1>4, <1>5, <1>6

LEMMA PrepareEffect ==
  ASSUME TypeOK, NEW d \in Devices, NEW r \in Resolutions, NEW keep \in BOOLEAN, Prepare(d, r, keep)
  PROVE  LET p == preview[d] IN
         /\ r \in fresh /\ fresh' = fresh \ {r} /\ Alone(d)
         /\ p # None /\ p \in Previews /\ preview'[d] = None
         /\ marker[d][p.e] = p.marker /\ Pending(outbox[d], p.e) = p.pending
         /\ \A n \in Entities \ {p.e} : marker'[d][n] = marker[d][n]
         /\ marker'[d][p.e] # None /\ marker'[d][p.e].resolution # None
         /\ marker'[d][p.e].copy = p.marker.copy
         /\ marker'[d][p.e].content = p.marker.content
         /\ marker'[d][p.e].resolution.supersedes = p.pending
         /\ marker'[d][p.e].resolution.prior = local[d][p.e].content
         /\ ~marker'[d][p.e].resolution.stale
         /\ marker'[d][p.e].resolution.op \in Operations
         /\ marker'[d][p.e].resolution.op.id = r /\ marker'[d][p.e].resolution.op.e = p.e
         /\ marker'[d][p.e].resolution.op.base = p.base
         /\ marker'[d][p.e].resolution.op.content = p.content
         /\ marker'[d][p.e].resolution.op.copy = p.marker.copy
         /\ marker'[d][p.e].resolution.op.seenCopy = p.seenCopy
         /\ marker'[d][p.e].resolution.op.keep = keep
         /\ UNCHANGED <<history, copies, receipts, late, outbox, local, listed, sync,
                        decided, overlaid>>
<1> DEFINE p == preview[d]
           op == [id |-> r, e |-> p.e, base |-> p.base, content |-> p.content,
                  copy |-> p.marker.copy, seenCopy |-> p.seenCopy, keep |-> keep]
           now == [op |-> op, supersedes |-> p.pending, prior |-> local[d][p.e].content,
                   stale |-> FALSE]
           m == [marker[d][p.e] EXCEPT !.resolution = now]
<1>1. /\ r \in fresh /\ fresh' = fresh \ {r}
      /\ p # None /\ marker[d][p.e] = p.marker /\ Pending(outbox[d], p.e) = p.pending
      /\ marker' = [marker EXCEPT ![d][p.e].resolution = now]
      /\ preview' = [preview EXCEPT ![d] = None]
      /\ UNCHANGED <<history, copies, receipts, late, outbox, local, listed, sync, decided, overlaid>>
  BY DEF Prepare, server, ghost
<1>2. p \in Previews /\ p.marker \in Markers /\ p.e \in Entities
  BY <1>1, Typed DEF Previews
<1>3. op \in Operations /\ now \in ResolutionRecords
  <2>1. op \in Operations
    BY <1>2 DEF Operations, Previews, Markers
  <2> HIDE DEF op
  <2>2. local[d][p.e].content \in SUBSET Edits
    BY <1>2, Typed DEF Rows
  <2>. QED BY <1>2, <2>1, <2>2 DEF ResolutionRecords, Previews
<1>4. /\ now.op = op /\ now.supersedes = p.pending /\ now.prior = local[d][p.e].content
      /\ ~now.stale
  OBVIOUS
<1> HIDE DEF op, now
<1>5. m \in Markers /\ m.resolution = now /\ m.copy = p.marker.copy /\ m.content = p.marker.content
  BY <1>1, <1>2, <1>3 DEF Markers
<1>6. marker' = [marker EXCEPT ![d] = [marker[d] EXCEPT ![p.e] = m]]
  BY <1>1, <1>2 DEF TypeOK
<1> HIDE DEF m, p
<1>7. /\ marker'[d][p.e] = m /\ m # None /\ now # None
      /\ \A n \in Entities \ {p.e} : marker'[d][n] = marker[d][n]
      /\ \A o \in Devices \ {d} : marker'[o] = marker[o]
  BY <1>2, <1>3, <1>5, <1>6, NoneAssumption DEF TypeOK
<1>8. preview'[d] = None /\ \A o \in Devices \ {d} : preview'[o] = preview[o]
  BY <1>1 DEF TypeOK
<1>9. Alone(d)
  BY <1>1, <1>7, <1>8 DEF Alone
<1>10. /\ marker'[d][p.e].resolution # None /\ marker'[d][p.e].resolution.op = op
       /\ marker'[d][p.e].copy = p.marker.copy /\ marker'[d][p.e].content = p.marker.content
       /\ marker'[d][p.e].resolution.supersedes = p.pending
       /\ marker'[d][p.e].resolution.prior = local[d][p.e].content
       /\ ~marker'[d][p.e].resolution.stale
  BY <1>4, <1>5, <1>7
<1>11. /\ op.id = r /\ op.e = p.e /\ op.base = p.base /\ op.content = p.content
       /\ op.copy = p.marker.copy /\ op.seenCopy = p.seenCopy /\ op.keep = keep
  BY DEF op
<1>. QED BY <1>1, <1>2, <1>3, <1>7, <1>8, <1>9, <1>10, <1>11 DEF p

\* What is moved onto the resolved version says nothing that neither it nor
\* an operation up to then said.
LEMMA RebasedBound ==
  ASSUME NEW q, NEW S, NEW prior, NEW canonical, NEW z \in RebasedContent(q, S, prior, canonical)
  PROVE  z \in canonical \/ \E y \in S : z \in q[y].op.content
BY DEF RebasedContent, LatestContent

LEMMA FinishResolutionEffect ==
  ASSUME TypeOK, NEW d \in Devices, FinishResolution(d),
         OperationsOn(d), ResolutionsOn(d), RequestOn(d)
  PROVE  LET op == Resolution(d)
             e == op.e
             r == marker[d][e].resolution
             newer == Pending(outbox[d], e) \ r.supersedes
             snap == sync[d].snapshot
         IN  /\ Alone(d) /\ sync[d].stage = "read" /\ Resolving(d) /\ sync'[d] = Idle
             /\ op \in sync[d].ops /\ op.id \in Resolutions /\ e \in Entities
             /\ Decides(d, e) /\ Chosen(d, e) = op
             /\ UNCHANGED <<history, copies, receipts, late, preview, fresh, decided>>
             /\ marker'[d][e] = None
             /\ \A n \in Entities \ {e} : marker'[d][n] = marker[d][n]
             /\ \A x \in Edits :
                  /\ x \in r.supersedes => outbox'[d][x] = None
                  /\ x \notin r.supersedes =>
                       /\ x \notin newer => outbox'[d][x] = outbox[d][x]
                       /\ outbox'[d][x] # None <=> outbox[d][x] # None
             /\ \A x \in newer :
                  /\ x \in Edits /\ outbox'[d][x] # None /\ outbox'[d][x].error = None
                  /\ outbox'[d][x].op.id = x /\ outbox'[d][x].op.e = e /\ Plain(outbox'[d][x].op)
                  /\ \A z \in outbox'[d][x].op.content :
                       \/ z \in snap.rows[e].content
                       \/ \E y \in newer : outbox[d][y].op.base <= outbox[d][x].op.base
                                           /\ z \in outbox[d][y].op.content
             /\ \A x, y \in newer : outbox[d][x].op.base < outbox[d][y].op.base =>
                  outbox'[d][x].op.base < outbox'[d][y].op.base
             /\ \A n \in Entities \ {e} :
                  local'[d][n] = local[d][n] \/ n \in Notebooks
             /\ newer = {} => local'[d][e] = snap.rows[e]
             /\ \A z \in local'[d][e].content :
                  z \in snap.rows[e].content \/ \E y \in newer : z \in outbox[d][y].op.content
             /\ listed'[d] \subseteq listed[d] \cup snap.copies
<1> DEFINE op == Resolution(d)
           e == op.e
           resolution == marker[d][e].resolution
           rev == (CHOOSE a \in sync[d].answers : TRUE).rev
           snap == sync[d].snapshot
           canonical == snap.rows[e].content
           prior == resolution.prior
           rest == Without(outbox[d], resolution.supersedes)
           newer == Pending(rest, e)
           row(n) == IF n = e
             THEN IF newer = {} THEN snap.rows[e]
                  ELSE Row(rev + Cardinality(newer), RebasedContent(rest, newer, prior, canonical))
             ELSE IF e \notin Notebooks /\ n \in Notebooks /\ ~Untouched(rest, n)
             THEN snap.rows[n] ELSE local[d][n]
<1>1. /\ sync[d].stage = "read" /\ Resolving(d) /\ Current(d)
      /\ outbox' = [outbox EXCEPT ![d] = Rebase(rest, e, prior, canonical, rev)]
      /\ local' = [local EXCEPT ![d] = [n \in Entities |-> row(n)]]
      /\ listed' = [listed EXCEPT ![d] =
             IF e \in Notebooks THEN {c \in listed[d] : c.id # op.copy}
             ELSE {c \in snap.copies : ~Untouched(rest, c.e)}
                  \cup {c \in listed[d] : Untouched(rest, c.e)}]
      /\ marker' = [marker EXCEPT ![d][e] = None]
      /\ sync' = [sync EXCEPT ![d] = Idle]
      /\ UNCHANGED <<history, copies, receipts, late, preview, fresh, decided>>
  BY DEF FinishResolution, server
<1>2. op \in sync[d].ops /\ op.id \in Resolutions /\ e \in Entities
  <2>1. op \in sync[d].ops /\ op.id \in Resolutions
    BY <1>1 DEF Resolving, Resolution
  <2>. QED BY <2>1, Typed DEF Syncs, Operations
<1>3. Decides(d, e) /\ Chosen(d, e) = op
  BY <1>1 DEF Current, Decides, Chosen
<1>4. \A x \in Edits : rest[x] = IF x \in resolution.supersedes THEN None ELSE outbox[d][x]
  BY DEF Without
<1>5. /\ \A x \in Edits : rest[x] # None => rest[x] = outbox[d][x] /\ rest[x] \in Queued
      /\ \A x \in Edits : x \in newer <=> rest[x] # None /\ rest[x].op.e = e
      /\ newer \in SUBSET Edits
      /\ newer = Pending(outbox[d], e) \ resolution.supersedes
  <2>1. \A x \in Edits : outbox[d][x] \in Queued \cup {None}
    BY Typed
  <2> HIDE DEF rest, resolution
  <2>. QED BY <1>4, <2>1 DEF Pending
<1>6. rev \in Nat
  <2>1. (CHOOSE a \in sync[d].answers : TRUE) \in Answers
    BY <1>1, Typed DEF Syncs, RequestOn
  <2>. QED BY <2>1 DEF Answers
<1>7. /\ Alone(d) /\ sync'[d] = Idle /\ marker'[d][e] = None
      /\ \A n \in Entities \ {e} : marker'[d][n] = marker[d][n]
  BY <1>1, <1>2 DEF TypeOK, Alone
<1>8. /\ \A n \in Entities : local'[d][n] = row(n)
      /\ listed'[d] \subseteq listed[d] \cup snap.copies
  BY <1>1 DEF TypeOK
<1> DEFINE item(x) == [attempts |-> 0, error |-> None,
             op |-> Operation(x, e, rev + Cardinality(Earlier(rest, x)),
                      RebasedContent(rest, Earlier(rest, x) \cup {x}, prior, canonical))]
<1>9. \A x \in Edits : outbox'[d][x] = IF x \in newer THEN item(x) ELSE rest[x]
  BY <1>1 DEF TypeOK, Rebase
<1> HIDE DEF op, e, resolution, rev, snap, canonical, prior, rest, newer
<1>10. /\ \A z \in newer : z \in Edits /\ rest[z] = outbox[d][z] /\ rest[z].op.base \in Nat
       /\ \A x \in newer : Earlier(rest, x) \in SUBSET newer /\ Cardinality(Earlier(rest, x)) \in Nat
       /\ \A x, y \in newer : rest[x].op.base < rest[y].op.base =>
            Cardinality(Earlier(rest, x)) < Cardinality(Earlier(rest, y))
  <2>1. \A z \in newer : z \in Edits /\ rest[z] = outbox[d][z] /\ rest[z].op.base \in Nat
    BY <1>5 DEF Queued, Operations
  <2>. QED BY <1>2, <2>1, Numbered DEF newer
<1>11. ASSUME NEW x \in newer
       PROVE  /\ item(x) # None /\ item(x).error = None
              /\ item(x).op.id = x /\ item(x).op.e = e /\ Plain(item(x).op)
              /\ item(x).op.base = rev + Cardinality(Earlier(rest, x))
              /\ item(x).op.content = RebasedContent(rest, Earlier(rest, x) \cup {x}, prior, canonical)
  <2> DEFINE n == rev + Cardinality(Earlier(rest, x))
             c == RebasedContent(rest, Earlier(rest, x) \cup {x}, prior, canonical)
  <2>1. n \in Nat
    BY <1>6, <1>10
  <2>2. c \in SUBSET Edits
    <3>1. \A y \in Earlier(rest, x) \cup {x} : rest[y].op.content \in SUBSET Edits
      BY <1>5, <1>10 DEF Queued, Operations
    <3>2. canonical \in SUBSET Edits
      <4>1. snap \in Snapshots
        BY <1>1, Typed DEF RequestOn, Syncs, snap
      <4>. QED BY <1>2, <4>1 DEF canonical, Snapshots, Rows
    <3>. QED BY <3>1, <3>2, RebasedTyped
  <2> HIDE DEF n, c
  <2>3. Operation(x, e, n, c) \in Operations
    BY <1>2, <1>10, <2>1, <2>2 DEF Operation, Operations
  <2>4. item(x) = [attempts |-> 0, error |-> None, op |-> Operation(x, e, n, c)]
    BY DEF n, c
  <2>5. item(x) \in Queued /\ item(x).error = None /\ item(x).op = Operation(x, e, n, c)
    BY <2>3, <2>4 DEF Queued, Errors
  <2>6. /\ Operation(x, e, n, c).id = x /\ Operation(x, e, n, c).e = e
        /\ Operation(x, e, n, c).base = n /\ Operation(x, e, n, c).content = c
        /\ Plain(Operation(x, e, n, c))
    BY DEF Operation, Plain
  <2>. QED BY <2>5, <2>6, NoneAssumption DEF n, c
<1> HIDE DEF item
<1>12. ASSUME NEW x \in newer
       PROVE  /\ x \in Edits /\ outbox'[d][x] # None /\ outbox'[d][x].error = None
              /\ outbox'[d][x].op.id = x /\ outbox'[d][x].op.e = e /\ Plain(outbox'[d][x].op)
              /\ outbox'[d][x].op.base = rev + Cardinality(Earlier(rest, x))
              /\ \A z \in outbox'[d][x].op.content :
                   \/ z \in canonical
                   \/ \E y \in newer : outbox[d][y].op.base <= outbox[d][x].op.base
                                       /\ z \in outbox[d][y].op.content
  <2>1. x \in Edits /\ outbox'[d][x] = item(x)
    BY <1>9, <1>10
  <2>2. ASSUME NEW z \in item(x).op.content, z \notin canonical
        PROVE  \E y \in newer : outbox[d][y].op.base <= outbox[d][x].op.base
                                /\ z \in outbox[d][y].op.content
    <3>0. z \in RebasedContent(rest, Earlier(rest, x) \cup {x}, prior, canonical)
      BY <1>11, <2>2
    <3>1. PICK y \in Earlier(rest, x) \cup {x} : z \in rest[y].op.content
      BY <2>2, <3>0, RebasedBound
    <3>2. y \in newer /\ (y = x \/ rest[y].op.base < rest[x].op.base)
      BY <1>10, <3>1 DEF Earlier
    <3>3. rest[y].op.base <= rest[x].op.base
      BY <1>10, <3>2
    <3>. QED BY <1>10, <3>1, <3>2, <3>3
  <2>. QED BY <1>11, <2>1, <2>2
<1>13. \A x, y \in newer : outbox[d][x].op.base < outbox[d][y].op.base =>
         outbox'[d][x].op.base < outbox'[d][y].op.base
  BY <1>6, <1>10, <1>12
<1>14. \A x \in Edits :
         /\ x \in resolution.supersedes => outbox'[d][x] = None
         /\ x \notin resolution.supersedes =>
              /\ x \notin newer => outbox'[d][x] = outbox[d][x]
              /\ outbox'[d][x] # None <=> outbox[d][x] # None
  <2>1. \A x \in newer : outbox[d][x] # None /\ x \notin resolution.supersedes
    BY <1>5 DEF Pending
  <2>. QED BY <1>4, <1>9, <1>12, <2>1
<1>15. /\ \A n \in Entities \ {e} : local'[d][n] = local[d][n] \/ n \in Notebooks
       /\ newer = {} => local'[d][e] = snap.rows[e]
  BY <1>2, <1>8
<1>16. ASSUME NEW z \in local'[d][e].content
       PROVE  z \in canonical \/ \E y \in newer : z \in outbox[d][y].op.content
  <2>1. CASE newer = {}
    BY <1>15, <1>16, <2>1 DEF canonical
  <2>2. CASE newer # {}
    <3>1. local'[d][e].content = RebasedContent(rest, newer, prior, canonical)
      BY <1>2, <1>8, <2>2 DEF Row
    <3>. QED BY <1>10, <1>16, <3>1, RebasedBound
  <2>. QED BY <2>1, <2>2
<1>. QED
  BY <1>1, <1>2, <1>3, <1>5, <1>7, <1>8, <1>12, <1>13, <1>14, <1>15, <1>16
     DEF op, e, resolution, snap, canonical

-----------------------------------------------------------------------------
(* The rules of the queue are kept. *)

SameDecisions(d) ==
  \A e \in Entities : (Decides(d, e))' => Decides(d, e) /\ Chosen(d, e)' = Chosen(d, e)

\* A request of device d that has an answer keeps it.
SameAnswers(d) ==
  /\ sync'[d] = sync[d] \/ sync'[d].stage \notin {"answered", "read"}
  /\ sync'[d] = sync[d] \/ sync'[d].snapshot = None
  /\ listed'[d] \subseteq listed[d]

LEMMA RequestedTyped ==
  ASSUME TypeOK
  PROVE  Requested \subseteq Operations
BY DEF Requested, TypeOK, Syncs, Answers

LEMMA RequestedTypedAfter ==
  ASSUME TypeOK'
  PROVE  Requested' \subseteq Operations
BY DEF Requested, TypeOK, Syncs, Answers

\* A step that requests nothing leaves what is said of requests.
LEMMA RequestsStay ==
  ASSUME QueueRules, Requested' \subseteq Requested, fresh' \subseteq fresh,
         \A d \in Devices : SameDecisions(d)
  PROVE  RequestsAgree' /\ DecisionIds'
<1>1. RequestsAgree'
  BY DEF QueueRules, RequestsAgree
<1>2. DecisionIds'
  BY DEF QueueRules, DecisionIds, SameDecisions
<1>. QED BY <1>1, <1>2

LEMMA AnswersStay ==
  ASSUME AnswersHold, NotebooksListed, UNCHANGED receipts, \A d \in Devices : SameAnswers(d)
  PROVE  AnswersHold' /\ NotebooksListed'
<1>1. AnswersHold'
  BY DEF AnswersHold, SameAnswers, Known
<1>2. NotebooksListed'
  BY DEF NotebooksListed, SameAnswers
<1>. QED BY <1>1, <1>2

\* A step that leaves the queues as they are, and answers nothing.
LEMMA QueueFrame ==
  ASSUME TypeOK, QueueRules, UNCHANGED receipts, Requested' \subseteq Requested, fresh' \subseteq fresh,
         \A d \in Devices :
           /\ SameQueue(d) /\ SameDecisions(d) /\ SameAnswers(d)
           /\ \A e \in Notes : marker'[d][e] = None <=> marker[d][e] = None
           /\ \A x \in Edits :
                /\ outbox[d][x] # None /\ outbox[d][x].error = "CONFLICT"
                /\ outbox[d][x].op.e \in Notes /\ marker[d][outbox[d][x].op.e] # None
                => outbox'[d][x].error = "CONFLICT"
  PROVE  QueueRules'
<1>1. RequestsAgree' /\ DecisionIds' /\ AnswersHold' /\ NotebooksListed'
  BY RequestsStay, AnswersStay DEF QueueRules
<1>2. NotesPause'
  <2> SUFFICES ASSUME NEW d \in Devices, NEW e \in Notes, marker'[d][e] # None,
                      NEW x \in Pending(outbox'[d], e)
               PROVE  outbox'[d][x].error = "CONFLICT"
    BY DEF NotesPause
  <2>1. x \in Pending(outbox[d], e) /\ marker[d][e] # None
    BY SamePending
  <2>2. x \in Edits /\ outbox[d][x] # None /\ outbox[d][x].op.e = e
    BY <2>1 DEF Pending
  <2>3. outbox[d][x].error = "CONFLICT"
    BY <2>1 DEF QueueRules, NotesPause
  <2>. QED BY <2>1, <2>2, <2>3
<1>3. OnlyFirstRequested'
  <2> SUFFICES ASSUME NEW d \in Devices, NEW op \in Requested', op.id \in Edits, op.e \in Notes,
                      outbox'[d][op.id] # None
               PROVE  Earlier(outbox'[d], op.id) = {} /\ marker'[d][op.e] = None
    BY DEF OnlyFirstRequested
  <2>1. op \in Requested /\ outbox[d][op.id] # None
    BY DEF SameQueue
  <2>2. Earlier(outbox[d], op.id) = {} /\ marker[d][op.e] = None
    BY <2>1 DEF QueueRules, OnlyFirstRequested
  <2>. QED BY <2>1, <2>2, SamePending
<1>4. UnansweredWait'
  BY DEF QueueRules, UnansweredWait, Known, SameQueue
<1>5. EditsPlain'
  BY DEF QueueRules, EditsPlain, SameQueue
<1>. QED BY <1>1, <1>2, <1>3, <1>4, <1>5 DEF QueueRules

LEMMA ElsewhereKeepsQueue ==
  ASSUME TypeOK, QueueRules, fresh' \subseteq fresh, UNCHANGED <<receipts, late, device, sync>>
  PROVE  QueueRules'
<1>1. UNCHANGED <<outbox, local, marker, preview, listed, sync>>
  BY DEF device
<1>2. Requested' \subseteq Requested
  BY <1>1 DEF Requested
<1>. QED BY <1>1, <1>2, QueueFrame DEF SameQueue, SameDecisions, SameAnswers, Decides, Chosen

LEMMA RetrySyncKeepsQueue ==
  ASSUME TypeOK, QueueRules, NEW d \in Devices, RetrySync(d)
  PROVE  QueueRules'
<1>1. /\ SameQueue(d) /\ Alone(d)
      /\ UNCHANGED <<receipts, late, marker, listed, sync, fresh>>
      /\ \A x \in Edits : outbox[d][x] # None /\ outbox[d][x].error = "CONFLICT" =>
           outbox'[d][x].error = "CONFLICT"
  BY RetrySyncEffect
<1>2. Requested' \subseteq Requested
  BY <1>1, NothingRequested
<1>3. \A o \in Devices : o # d => outbox'[o] = outbox[o]
  BY <1>1 DEF Alone
<1>4. \A o \in Devices : SameQueue(o)
  BY <1>1, <1>3 DEF SameQueue
<1>. QED BY <1>1, <1>2, <1>3, <1>4, QueueFrame DEF SameDecisions, SameAnswers, Decides, Chosen

LEMMA DownloadKeepsQueue ==
  ASSUME TypeOK, QueueRules, NEW d \in Devices, Download(d)
  PROVE  QueueRules'
<1>1. Alone(d) /\ UNCHANGED <<receipts, late, outbox, marker, sync, fresh>> /\ listed'[d] \subseteq listed[d]
  BY DownloadEffect
<1>2. Requested' \subseteq Requested
  BY <1>1, NothingRequested
<1>3. \A o \in Devices : listed'[o] \subseteq listed[o]
  BY <1>1 DEF Alone
<1>. QED BY <1>1, <1>2, <1>3, QueueFrame DEF SameQueue, SameDecisions, SameAnswers, Decides, Chosen

LEMMA CompareKeepsQueue ==
  ASSUME TypeOK, QueueRules, NEW d \in Devices, NEW e \in Entities, Compare(d, e)
  PROVE  QueueRules'
<1>1. UNCHANGED <<receipts, late, outbox, marker, listed, sync, fresh>>
  BY CompareEffect
<1>2. Requested' \subseteq Requested
  BY <1>1, NothingRequested
<1>. QED BY <1>1, <1>2, QueueFrame DEF SameQueue, SameDecisions, SameAnswers, Decides, Chosen

LEMMA CloseTabKeepsQueue ==
  ASSUME TypeOK, QueueRules, NEW d \in Devices, CloseTab(d)
  PROVE  QueueRules'
<1>1. /\ Alone(d) /\ sync'[d] = Idle
      /\ late' = late \/ late' = late \cup {sync[d].ops}
      /\ UNCHANGED <<receipts, outbox, marker, listed, fresh>>
  BY CloseTabEffect
<1>2. Idle.ops = {} /\ Idle.stage = "idle" /\ Idle.snapshot = None
  BY DEF Idle, Request
<1>3. \A o \in Devices : o # d => sync'[o] = sync[o]
  BY <1>1 DEF Alone
<1>4. Requested' \subseteq Requested
  BY <1>1, <1>2, <1>3, NothingRequested
<1>5. \A o \in Devices : SameAnswers(o)
  BY <1>1, <1>2, <1>3 DEF SameAnswers
<1>. QED BY <1>1, <1>4, <1>5, QueueFrame DEF SameQueue, SameDecisions, Decides, Chosen

LEMMA EnsureConflictKeepsQueue ==
  ASSUME TypeOK, QueueRules, NEW d \in Devices, NEW c \in listed[d], EnsureConflict(d, c)
  PROVE  QueueRules'
<1>1. /\ c.e \in Entities /\ Alone(d)
      /\ \A n \in Entities \ {c.e} : marker'[d][n] = marker[d][n]
      /\ marker'[d][c.e].resolution = None
      /\ UNCHANGED <<receipts, late, outbox, listed, sync, fresh>>
  BY EnsureConflictEffect
<1>2. c.e \notin Notes
  BY DEF QueueRules, NotebooksListed, Notes
<1>3. Requested' \subseteq Requested
  BY <1>1, NothingRequested
<1>4. \A o \in Devices : o # d => marker'[o] = marker[o]
  BY <1>1 DEF Alone
<1>5. \A o \in Devices : SameDecisions(o)
  BY <1>1, <1>4 DEF SameDecisions, Decides, Chosen
<1>6. \A o \in Devices, n \in Notes : marker'[o][n] = marker[o][n]
  BY <1>1, <1>2, <1>4 DEF Notes
<1>. QED BY <1>1, <1>3, <1>5, <1>6, QueueFrame DEF SameQueue, SameAnswers

LEMMA LocalEditKeepsQueue ==
  ASSUME Inductive, QueueRules, NEW d \in Devices, NEW e \in Entities, NEW x \in Edits,
         LocalEdit(d, e, x)
  PROVE  QueueRules'
<1>0. TypeOK /\ Shared /\ Holds(d)
  BY Parts
<1>1. /\ x \in fresh /\ fresh' = fresh \ {x} /\ Alone(d)
      /\ UNCHANGED <<receipts, late, marker, listed, sync>>
      /\ \A y \in Edits \ {x} : outbox'[d][y] = outbox[d][y]
      /\ outbox'[d][x] # None /\ Plain(outbox'[d][x].op)
      /\ outbox'[d][x].op.e = e /\ outbox'[d][x].op.base = local[d][e].rev
      /\ outbox'[d][x].error = FirstError(d, e)
  BY <1>0, LocalEditEffect
<1>2. Requested' \subseteq Requested
  BY <1>1, NothingRequested
<1>3. \A o \in Devices : o # d => outbox'[o] = outbox[o]
  BY <1>1 DEF Alone
<1>4. \A op \in Requested : op.id # x
  BY <1>0, <1>1 DEF Shared
<1>5. RequestsAgree' /\ DecisionIds' /\ AnswersHold' /\ NotebooksListed'
  BY <1>1, <1>2, RequestsStay, AnswersStay DEF QueueRules, SameDecisions, SameAnswers, Decides, Chosen
<1>6. NotesPause'
  <2> SUFFICES ASSUME NEW o \in Devices, NEW n \in Notes, marker'[o][n] # None,
                      NEW y \in Pending(outbox'[o], n)
               PROVE  outbox'[o][y].error = "CONFLICT"
    BY DEF NotesPause
  <2>1. CASE o = d /\ y = x
    <3>1. n = e
      BY <1>1, <2>1 DEF Pending
    <3>. QED BY <1>1, <2>1, <3>1 DEF FirstError
  <2>2. CASE ~ (o = d /\ y = x)
    <3>1. outbox'[o][y] = outbox[o][y]
      BY <1>1, <1>3, <2>2 DEF Pending
    <3>. QED BY <1>1, <3>1 DEF Pending, QueueRules, NotesPause
  <2>. QED BY <2>1, <2>2
<1>7. OnlyFirstRequested'
  <2> SUFFICES ASSUME NEW o \in Devices, NEW op \in Requested', op.id \in Edits, op.e \in Notes,
                      outbox'[o][op.id] # None
               PROVE  Earlier(outbox'[o], op.id) = {} /\ marker'[o][op.e] = None
    BY DEF OnlyFirstRequested
  <2>1. op \in Requested /\ op.id # x /\ outbox'[o][op.id] = outbox[o][op.id]
    BY <1>1, <1>2, <1>3, <1>4
  <2>2. Earlier(outbox[o], op.id) = {} /\ marker[o][op.e] = None
    BY <2>1 DEF QueueRules, OnlyFirstRequested
  <2>3. Earlier(outbox'[o], op.id) = {}
    <3>1. CASE o # d
      BY <1>3, <2>2, <3>1
    <3>2. CASE o = d
      <4> SUFFICES ASSUME NEW y \in Earlier(outbox'[d], op.id) PROVE FALSE
        BY <3>2
      <4>1. /\ y \in Edits /\ outbox'[d][y] # None
            /\ outbox'[d][y].op.e = outbox[d][op.id].op.e
            /\ outbox'[d][y].op.base < outbox[d][op.id].op.base
        BY <2>1, <3>2 DEF Earlier, Pending
      <4>2. y = x
        BY <1>1, <2>1, <2>2, <3>2, <4>1 DEF Earlier, Pending
      <4>3. op.id \in Pending(outbox[d], e)
        BY <1>1, <2>1, <3>2, <4>1, <4>2 DEF Pending
      <4>4. outbox[d][op.id].op.base < local[d][e].rev
        BY <1>0, <4>3 DEF Holds, OrderedOn
      <4>5. local[d][e].rev \in Nat /\ outbox[d][op.id].op.base \in Nat
        BY <1>0, <4>3, Typed DEF Rows, Queued, Operations, Pending
      <4>. QED BY <1>1, <4>1, <4>2, <4>4, <4>5
    <3>. QED BY <3>1, <3>2
  <2>. QED BY <1>1, <2>2, <2>3
<1>8. UnansweredWait'
  <2> SUFFICES ASSUME NEW op \in Requested', op.id \in Edits, op.e \in Notes, ~Known(op)'
               PROVE  \E o \in Devices : outbox'[o][op.id] # None
    BY DEF UnansweredWait
  <2>1. op \in Requested /\ ~Known(op)
    BY <1>1, <1>2 DEF Known
  <2>2. PICK o \in Devices : outbox[o][op.id] # None
    BY <2>1 DEF QueueRules, UnansweredWait
  <2>. QED BY <1>1, <1>3, <1>4, <2>1, <2>2
<1>9. EditsPlain'
  BY <1>1, <1>2, <1>3 DEF QueueRules, EditsPlain
<1>. QED BY <1>5, <1>6, <1>7, <1>8, <1>9 DEF QueueRules

\* A request that is sent holds first edits, in the form in which they wait,
\* or the decision that is stored.
LEMMA SentKeepsQueue ==
  ASSUME Inductive, QueueRules, NEW d \in Devices, NEW ops, Alone(d),
         sync'[d].ops = ops, sync'[d].stage = "sent", sync'[d].snapshot = None,
         UNCHANGED <<receipts, late, outbox, marker, listed, fresh>>,
         \A op \in ops :
           \/ /\ op.id \in Edits /\ outbox[d][op.id] # None /\ outbox[d][op.id].op = op
              /\ Earlier(outbox[d], op.id) = {}
              /\ op.e \in Notes => marker[d][op.e] = None
           \/ \E e \in Entities : Decides(d, e) /\ op = Chosen(d, e)
  PROVE  QueueRules'
<1>0. TypeOK /\ Shared /\ \A o \in Devices : Holds(o)
  BY Parts
<1>1. Requested' \subseteq Requested \cup ops
  <2>1. \A o \in Devices : sync'[o].ops \subseteq sync[o].ops \cup ops
    BY DEF Alone
  <2>. QED BY <2>1, RequestedBound
<1>2. \A o \in Devices, e \in Entities : Decides(o, e) => Chosen(o, e).id \in Resolutions
  BY <1>0 DEF Holds, ResolutionsOn, Decides, Chosen
<1>3. Edits \cap Resolutions = {}
  BY OfflineAssumption
<1>4. ASSUME NEW op \in ops, NEW o \in Requested \cup ops, op.id = o.id
      PROVE  op = o
  <2>1. CASE \E e \in Entities : Decides(d, e) /\ op = Chosen(d, e)
    <3>1. PICK e \in Entities : Decides(d, e) /\ op = Chosen(d, e)
      BY <2>1
    <3>2. CASE o \in Requested
      BY <1>4, <3>1, <3>2 DEF QueueRules, DecisionIds
    <3>3. CASE o \in ops
      <4>1. PICK n \in Entities : Decides(d, n) /\ o = Chosen(d, n)
        BY <1>2, <1>3, <1>4, <3>1, <3>3
      <4>. QED BY <1>4, <3>1, <4>1 DEF QueueRules, DecisionIds
    <3>. QED BY <3>2, <3>3
  <2>2. CASE op.id \in Edits /\ outbox[d][op.id] # None /\ outbox[d][op.id].op = op
    <3>1. CASE o \in Requested
      BY <1>0, <1>4, <2>2, <3>1 DEF Holds, OperationsOn
    <3>2. CASE o \in ops
      BY <1>2, <1>3, <1>4, <2>2, <3>2
    <3>. QED BY <3>1, <3>2
  <2>. QED BY <2>1, <2>2
<1>5. RequestsAgree'
  BY <1>1, <1>4 DEF QueueRules, RequestsAgree
<1>6. DecisionIds'
  <2>1. ASSUME NEW op \in ops, op.id \in Resolutions PROVE op.id \notin fresh
    BY <1>3, <2>1 DEF QueueRules, DecisionIds
  <2>2. ASSUME NEW op \in ops, NEW o \in Devices, NEW e \in Entities, Decides(o, e),
               op.id = Chosen(o, e).id
        PROVE  op = Chosen(o, e)
    <3>1. PICK n \in Entities : Decides(d, n) /\ op = Chosen(d, n)
      BY <1>2, <1>3, <2>2
    <3>. QED BY <2>2, <3>1 DEF QueueRules, DecisionIds
  <2>. QED BY <1>1, <2>1, <2>2 DEF QueueRules, DecisionIds, Decides, Chosen
<1>7. AnswersHold' /\ NotebooksListed'
  <2>1. \A o \in Devices : SameAnswers(o)
    BY DEF SameAnswers, Alone
  <2>. QED BY <2>1, AnswersStay DEF QueueRules
<1>8. NotesPause'
  BY DEF QueueRules, NotesPause
<1>9. OnlyFirstRequested'
  <2> SUFFICES ASSUME NEW o \in Devices, NEW op \in ops, op.id \in Edits, op.e \in Notes,
                      outbox[o][op.id] # None
               PROVE  Earlier(outbox[o], op.id) = {} /\ marker[o][op.e] = None
    BY <1>1 DEF QueueRules, OnlyFirstRequested
  <2>1. outbox[d][op.id] # None /\ Earlier(outbox[d], op.id) = {} /\ marker[d][op.e] = None
    BY <1>2, <1>3
  <2>2. o = d
    BY <1>0, <2>1 DEF Shared
  <2>. QED BY <2>1, <2>2
<1>10. UnansweredWait'
  BY <1>1, <1>2, <1>3 DEF QueueRules, UnansweredWait, Known
<1>11. EditsPlain'
  BY <1>1, <1>2, <1>3 DEF QueueRules, EditsPlain
<1>. QED BY <1>5, <1>6, <1>7, <1>8, <1>9, <1>10, <1>11 DEF QueueRules

LEMMA FlushKeepsQueue ==
  ASSUME Inductive, QueueRules, NEW d \in Devices, Flush(d)
  PROVE  QueueRules'
<1> DEFINE ops == {outbox[d][x].op : x \in Sendable(outbox[d])}
<1>0. TypeOK /\ Holds(d)
  BY Parts
<1>1. /\ Alone(d) /\ sync'[d].stage = "sent" /\ sync'[d].ops = ops /\ sync'[d].snapshot = None
      /\ UNCHANGED <<receipts, late, outbox, marker, listed, fresh>>
  BY <1>0, FlushEffect
<1>2. ASSUME NEW op \in ops
      PROVE  /\ op.id \in Edits /\ outbox[d][op.id] # None /\ outbox[d][op.id].op = op
             /\ Earlier(outbox[d], op.id) = {}
             /\ op.e \in Notes => marker[d][op.e] = None
  <2>1. PICK x \in Sendable(outbox[d]) : op = outbox[d][x].op
    OBVIOUS
  <2>2. /\ x \in Edits /\ outbox[d][x] # None /\ Earlier(outbox[d], x) = {}
        /\ outbox[d][x].error # "CONFLICT"
    BY DEF Sendable
  <2>3. op.id = x
    BY <1>0, <2>1, <2>2 DEF Holds, OperationsOn
  <2>4. x \in Pending(outbox[d], op.e)
    BY <2>1, <2>2 DEF Pending
  <2>. QED BY <2>1, <2>2, <2>3, <2>4 DEF QueueRules, NotesPause
<1> HIDE DEF ops
<1>. QED BY <1>1, <1>2, SentKeepsQueue

LEMMA SendResolutionKeepsQueue ==
  ASSUME Inductive, QueueRules, NEW d \in Devices, NEW e \in Entities, SendResolution(d, e)
  PROVE  QueueRules'
<1>0. TypeOK
  BY Parts
<1>1. /\ Alone(d) /\ Decides(d, e)
      /\ sync'[d].stage = "sent" /\ sync'[d].ops = {Chosen(d, e)} /\ sync'[d].snapshot = None
      /\ UNCHANGED <<receipts, late, outbox, marker, listed, fresh>>
  BY <1>0, SendResolutionEffect
<1>. QED BY <1>1, SentKeepsQueue

LEMMA FailedKeepsQueue ==
  ASSUME Inductive, QueueRules, NEW d \in Devices, NEW code \in Errors, Failed(d, code),
         late' = late \/ late' = late \cup {sync[d].ops}
  PROVE  QueueRules'
<1>0. TypeOK /\ Holds(d)
  BY Parts
<1>1. /\ SameQueue(d) /\ Alone(d) /\ sync'[d] = Idle /\ UNCHANGED <<receipts, listed, fresh>>
      /\ \A x \in Edits : outbox'[d][x] # outbox[d][x] =>
           ~Resolving(d) /\ x \in {op.id : op \in sync[d].ops}
      /\ \A e \in Entities :
           \/ marker'[d][e] = marker[d][e]
           \/ /\ Decides(d, e) /\ Decides(d, e)'
              /\ Chosen(d, e) = Resolution(d) /\ Chosen(d, e)' = Resolution(d)
  BY <1>0, FailedEffect DEF Holds
<1>2. Idle.ops = {} /\ Idle.stage = "idle" /\ Idle.snapshot = None
  BY DEF Idle, Request
<1>3. \A o \in Devices : o # d => sync'[o] = sync[o] /\ outbox'[o] = outbox[o] /\ marker'[o] = marker[o]
  BY <1>1 DEF Alone
<1>4. Requested' \subseteq Requested
  BY <1>1, <1>2, <1>3, NothingRequested
<1>5. \A o \in Devices : SameAnswers(o) /\ SameQueue(o) /\ SameDecisions(o)
  BY <1>1, <1>2, <1>3 DEF SameAnswers, SameQueue, SameDecisions, Decides, Chosen
<1>6. \A o \in Devices, e \in Notes : marker'[o][e] = None <=> marker[o][e] = None
  BY <1>1, <1>3 DEF Decides, Notes
<1>7. ASSUME NEW x \in Edits, outbox[d][x] # None, outbox[d][x].op.e \in Notes,
             marker[d][outbox[d][x].op.e] # None
      PROVE  outbox'[d][x] = outbox[d][x]
  <2> SUFFICES ASSUME NEW op \in sync[d].ops, x = op.id PROVE FALSE
    BY <1>1
  <2>1. op \in Requested
    BY DEF Requested
  <2>2. outbox[d][x].op = op
    BY <1>0, <1>7, <2>1 DEF Holds, OperationsOn
  <2>. QED BY <1>7, <2>1, <2>2 DEF QueueRules, OnlyFirstRequested
<1>. QED BY <1>0, <1>1, <1>3, <1>4, <1>5, <1>6, <1>7, QueueFrame

LEMMA AppliedRequests ==
  ASSUME TypeOK, Shared, NEW ops, ops \subseteq Requested, ops \subseteq Operations, Apply(ops),
         \A s \in late' : s \in late, \A d \in Devices : sync'[d].ops = sync[d].ops
  PROVE  Requested' \subseteq Requested
<1>1. \A i \in DOMAIN receipts' : receipts'[i] # None =>
        receipts'[i] = receipts[i] \/ receipts'[i].op \in Requested
  <2>1. ops \in SUBSET Operations
    OBVIOUS
  <2>. QED BY <2>1, Applied
<1>2. DOMAIN receipts' = DOMAIN receipts
  BY DEF Apply
<1>3. \A o \in Devices : sync'[o].ops \subseteq sync[o].ops \cup {}
  OBVIOUS
<1>4. Requested' \subseteq Requested \cup {}
  BY <1>1, <1>2, <1>3, RequestedBound
<1>. QED BY <1>4

\* A request that is applied is answered by its receipts.
LEMMA AppliedKeepsQueue ==
  ASSUME Inductive, QueueRules, NEW ops, ops \subseteq Requested, ops \subseteq Operations, Apply(ops),
         UNCHANGED <<outbox, marker, listed, fresh>>,
         \A s \in late' : s \in late,
         \A d \in Devices :
           \/ sync'[d] = sync[d]
           \/ /\ sync[d].ops = ops /\ sync'[d].ops = ops /\ sync'[d].snapshot = None
              /\ sync'[d].answers = {Answered(op) : op \in ops}
  PROVE  QueueRules'
<1>0. TypeOK /\ Shared
  BY Parts
<1>1. /\ \A op \in ops : receipts'[op.id] = Answered(op) /\ receipts'[op.id] # None
      /\ \A i \in Edits \cup Resolutions : receipts[i] # None => receipts'[i] = receipts[i]
  BY <1>0, ApplyEffect DEF QueueRules
<1>2. \A op \in Requested : Known(op) => Known(op)' /\ receipts'[op.id] = receipts[op.id]
  <2>1. ASSUME NEW op \in Requested PROVE op.id \in Edits \cup Resolutions
    BY <1>0, RequestedTyped DEF Operations
  <2>. QED BY <1>1, <2>1 DEF Known
<1>3. Requested' \subseteq Requested
  BY <1>0, AppliedRequests
<1>4. RequestsAgree' /\ DecisionIds'
  BY <1>3, RequestsStay DEF SameDecisions, Decides, Chosen
<1>5. AnswersHold'
  <2> SUFFICES ASSUME NEW d \in Devices, sync'[d].stage \in {"answered", "read"}
               PROVE  /\ \A op \in sync'[d].ops : Known(op)'
                      /\ sync'[d].answers = {receipts'[op.id] : op \in sync'[d].ops}
    BY DEF AnswersHold
  <2>1. CASE sync'[d] = sync[d]
    <3>1. \A op \in sync[d].ops : op \in Requested
      BY DEF Requested
    <3>2. /\ \A op \in sync[d].ops : Known(op)
          /\ sync[d].answers = {receipts[op.id] : op \in sync[d].ops}
      BY <2>1 DEF QueueRules, AnswersHold
    <3>3. \A op \in sync[d].ops : Known(op)' /\ receipts'[op.id] = receipts[op.id]
      BY <1>2, <3>1, <3>2
    <3>. QED BY <2>1, <3>2, <3>3
  <2>2. CASE /\ sync'[d].ops = ops
             /\ sync'[d].answers = {Answered(op) : op \in ops}
    BY <1>1, <2>2 DEF Known
  <2>. QED BY <2>1, <2>2
<1>6. NotebooksListed'
  BY DEF QueueRules, NotebooksListed
<1>7. NotesPause' /\ OnlyFirstRequested' /\ EditsPlain'
  BY <1>3 DEF QueueRules, NotesPause, OnlyFirstRequested, EditsPlain
<1>8. UnansweredWait'
  BY <1>2, <1>3 DEF QueueRules, UnansweredWait
<1>. QED BY <1>4, <1>5, <1>6, <1>7, <1>8 DEF QueueRules

LEMMA ServeKeepsQueue ==
  ASSUME Inductive, QueueRules, NEW d \in Devices, Serve(d)
  PROVE  QueueRules'
<1>0. TypeOK
  BY Parts
<1>1. /\ Alone(d) /\ sync[d].stage = "sent"
      /\ sync'[d].ops = sync[d].ops /\ sync'[d].snapshot = None
      /\ UNCHANGED <<late, outbox, marker, listed, fresh>>
      /\ \/ sync'[d].stage = "refused" /\ UNCHANGED receipts
         \/ /\ sync'[d].answers = {Answered(op) : op \in sync[d].ops}
            /\ Apply(sync[d].ops)
  BY <1>0, ServeEffect
<1>2. \A o \in Devices : o # d => sync'[o] = sync[o]
  BY <1>1 DEF Alone
<1>3. CASE sync'[d].stage = "refused" /\ UNCHANGED receipts
  <2>1. Requested' \subseteq Requested
    BY <1>1, <1>2, <1>3, NothingRequested
  <2>. QED BY <1>0, <1>1, <1>2, <1>3, <2>1, QueueFrame
           DEF SameQueue, SameDecisions, SameAnswers, Decides, Chosen
<1>4. CASE /\ sync'[d].answers = {Answered(op) : op \in sync[d].ops}
           /\ Apply(sync[d].ops)
  <2>1. sync[d].ops \subseteq Requested
    BY DEF Requested
  <2>2. sync[d].ops \subseteq Operations
    BY <1>0, Typed DEF Syncs
  <2>. QED BY <1>1, <1>2, <1>4, <2>1, <2>2, AppliedKeepsQueue
<1>. QED BY <1>1, <1>3, <1>4

LEMMA ServeLateKeepsQueue ==
  ASSUME Inductive, QueueRules, NEW ops \in late, ServeLate(ops)
  PROVE  QueueRules'
<1>0. TypeOK
  BY Parts
<1>1. /\ late' = late \ {ops} /\ UNCHANGED <<outbox, marker, listed, sync, fresh>>
      /\ UNCHANGED receipts \/ Apply(ops)
  BY DEF ServeLate, device, server
<1>2. CASE UNCHANGED receipts
  <2>1. Requested' \subseteq Requested
    BY <1>1, <1>2, NothingRequested
  <2>. QED BY <1>0, <1>1, <1>2, <2>1, QueueFrame
           DEF SameQueue, SameDecisions, SameAnswers, Decides, Chosen
<1>3. CASE Apply(ops)
  <2>1. ops \subseteq Requested
    BY DEF Requested
  <2>2. ops \subseteq Operations
    BY <1>0 DEF TypeOK
  <2>. QED BY <1>1, <1>3, <2>1, <2>2, AppliedKeepsQueue
<1>. QED BY <1>1, <1>2, <1>3

LEMMA FetchKeepsQueue ==
  ASSUME Inductive, QueueRules, NEW d \in Devices, Fetch(d)
  PROVE  QueueRules'
<1>0. TypeOK
  BY Parts
<1>1. /\ Alone(d) /\ sync[d].stage = "answered"
      /\ sync'[d].ops = sync[d].ops /\ sync'[d].answers = sync[d].answers
      /\ sync'[d].snapshot.copies = {c \in copies : c.e \in Notebooks}
      /\ UNCHANGED <<receipts, late, outbox, marker, listed, fresh>>
  BY <1>0, FetchEffect
<1>2. \A o \in Devices : o # d => sync'[o] = sync[o]
  BY <1>1 DEF Alone
<1>3. Requested' \subseteq Requested
  BY <1>1, <1>2, NothingRequested
<1>4. RequestsAgree' /\ DecisionIds'
  BY <1>1, <1>3, RequestsStay DEF SameDecisions, Decides, Chosen
<1>5. AnswersHold'
  BY <1>1, <1>2 DEF QueueRules, AnswersHold, Known
<1>6. NotebooksListed'
  BY <1>1, <1>2 DEF QueueRules, NotebooksListed
<1>7. NotesPause' /\ OnlyFirstRequested' /\ EditsPlain' /\ UnansweredWait'
  BY <1>1, <1>3 DEF QueueRules, NotesPause, OnlyFirstRequested, EditsPlain, UnansweredWait, Known
<1>. QED BY <1>4, <1>5, <1>6, <1>7 DEF QueueRules

LEMMA PrepareKeepsQueue ==
  ASSUME Inductive, QueueRules, NEW d \in Devices, NEW r \in Resolutions, NEW keep \in BOOLEAN,
         Prepare(d, r, keep)
  PROVE  QueueRules'
<1> DEFINE p == preview[d]
<1>0. TypeOK /\ Holds(d)
  BY Parts
<1>1. /\ r \in fresh /\ fresh' = fresh \ {r} /\ Alone(d)
      /\ p # None /\ p \in Previews /\ marker[d][p.e] = p.marker
      /\ \A n \in Entities \ {p.e} : marker'[d][n] = marker[d][n]
      /\ marker'[d][p.e] # None /\ marker'[d][p.e].resolution.op.id = r
      /\ UNCHANGED <<receipts, late, outbox, listed, sync>>
  BY <1>0, PrepareEffect
<1>2. p.e \in Entities /\ marker[d][p.e] # None
  BY <1>1, NoneAssumption DEF Previews
<1>3. \A o \in Devices : o # d => marker'[o] = marker[o]
  BY <1>1 DEF Alone
<1> HIDE DEF p
<1>4. Requested' \subseteq Requested
  BY <1>1, NothingRequested
<1>5. \A op \in Requested : op.id # r
  <2>1. Edits \cap Resolutions = {}
    BY OfflineAssumption
  <2>. QED BY <1>1, <2>1 DEF QueueRules, DecisionIds
<1>6. DecisionIds'
  <2> SUFFICES
        /\ \A o \in Devices, e \in Entities : (Decides(o, e))' =>
             /\ (Chosen(o, e))'.id \notin fresh'
             /\ \A op \in Requested : op.id = (Chosen(o, e))'.id => op = (Chosen(o, e))'
             /\ \A q \in Devices, n \in Entities :
                  (Decides(q, n))' /\ (Chosen(q, n))'.id = (Chosen(o, e))'.id => q = o /\ n = e
    BY <1>1, <1>4 DEF QueueRules, DecisionIds
  <2>1. ASSUME NEW o \in Devices, NEW e \in Entities, (Decides(o, e))', ~ (o = d /\ e = p.e)
        PROVE  Decides(o, e) /\ Chosen(o, e)' = Chosen(o, e)
    BY <1>1, <1>3, <2>1 DEF Decides, Chosen
  <2>2. \A o \in Devices, e \in Entities : o = d /\ e = p.e => (Chosen(o, e))'.id = r
    BY <1>1 DEF Chosen
  <2>3. \A o \in Devices, e \in Entities : Decides(o, e) =>
          /\ Chosen(o, e).id \notin fresh
          /\ \A op \in Requested : op.id = Chosen(o, e).id => op = Chosen(o, e)
          /\ \A q \in Devices, n \in Entities :
               Decides(q, n) /\ Chosen(q, n).id = Chosen(o, e).id => q = o /\ n = e
    BY DEF QueueRules, DecisionIds
  <2>. QED BY <1>1, <1>5, <2>1, <2>2, <2>3
<1>7. RequestsAgree' /\ AnswersHold' /\ NotebooksListed'
  BY <1>1, <1>4 DEF QueueRules, RequestsAgree, AnswersHold, NotebooksListed, Known
<1>8. \A o \in Devices, e \in Entities : marker'[o][e] = None <=> marker[o][e] = None
  BY <1>1, <1>2, <1>3
<1>9. NotesPause' /\ OnlyFirstRequested' /\ EditsPlain' /\ UnansweredWait'
  BY <1>1, <1>4, <1>8
     DEF QueueRules, NotesPause, OnlyFirstRequested, EditsPlain, UnansweredWait, Known, Notes
<1>. QED BY <1>6, <1>7, <1>9 DEF QueueRules

\* What an answer says was copied are operations of the request.
LEMMA LostRequested ==
  ASSUME TypeOK, Shared, QueueRules, NEW d \in Devices, sync[d].stage = "read",
         NEW a \in sync[d].answers
  PROVE  a.op \in sync[d].ops /\ a = receipts[a.op.id] /\ a.op \in Requested
<1>1. PICK op \in sync[d].ops : a = receipts[op.id] /\ receipts[op.id] # None
  BY DEF QueueRules, AnswersHold, Known
<1>2. op \in Requested
  BY DEF Requested
<1>3. op.id \in Edits \cup Resolutions
  BY <1>2, RequestedTyped DEF Operations
<1>4. receipts[op.id].op.id = op.id /\ receipts[op.id].op \in Requested
  BY <1>1, <1>3 DEF Shared, TypeOK, Requested
<1>5. a.op = op
  BY <1>1, <1>2, <1>4 DEF QueueRules, RequestsAgree
<1>. QED BY <1>1, <1>2, <1>5

\* Only one edit of a note is in a request.
LEMMA FirstIsOne ==
  ASSUME TypeOK, QueueRules, NEW d \in Devices, OrderedOn(d), OperationsOn(d),
         NEW op \in Requested, op.id \in Edits, op.e \in Notes, outbox[d][op.id] # None,
         NEW o \in Requested, o.id \in Edits, o.e = op.e, outbox[d][o.id] # None
  PROVE  op = o
<1>1. outbox[d][op.id].op = op /\ outbox[d][o.id].op = o
  BY DEF OperationsOn
<1>2. Earlier(outbox[d], op.id) = {} /\ Earlier(outbox[d], o.id) = {}
  BY DEF QueueRules, OnlyFirstRequested
<1>3. op.id \in Pending(outbox[d], op.e) /\ o.id \in Pending(outbox[d], op.e)
  BY <1>1 DEF Pending
<1>4. ~ (op.base < o.base) /\ ~ (o.base < op.base)
  BY <1>1, <1>2, <1>3 DEF Earlier
<1>5. op.base \in Nat /\ o.base \in Nat /\ op.e \in Entities
  BY RequestedTyped DEF Operations
<1>6. op.base = o.base
  BY <1>4, <1>5
<1>7. op.id = o.id
  BY <1>1, <1>3, <1>5, <1>6 DEF OrderedOn
<1>. QED BY <1>7 DEF QueueRules, RequestsAgree

LEMMA AcknowledgeKeepsQueue ==
  ASSUME Inductive, QueueRules, NEW d \in Devices, Acknowledge(d)
  PROVE  QueueRules'
<1> DEFINE done == {op.id : op \in sync[d].ops}
           lost == {a.op : a \in {b \in sync[d].answers : b.copied}}
<1>0. TypeOK /\ Shared /\ Holds(d)
  BY Parts
<1>1. /\ Alone(d) /\ sync[d].stage = "read" /\ ~Resolving(d) /\ sync'[d] = Idle
      /\ UNCHANGED <<receipts, late, fresh>>
      /\ \A x \in Edits :
           /\ outbox'[d][x] # None <=> outbox[d][x] # None /\ x \notin done
           /\ outbox'[d][x] # None =>
                /\ outbox'[d][x].op = outbox[d][x].op
                /\ outbox'[d][x].error \in {outbox[d][x].error, "CONFLICT"}
                /\ (\E op \in lost : op.e = outbox[d][x].op.e) => outbox'[d][x].error = "CONFLICT"
      /\ \A e \in Entities :
           \/ marker'[d][e] = marker[d][e] /\ ~ \E op \in lost : op.e = e
           \/ \E op \in lost : op.e = e /\ marker'[d][e] # None /\ marker'[d][e].resolution = None
      /\ listed'[d] \subseteq listed[d] \cup sync[d].snapshot.copies
  BY <1>0, AcknowledgeEffect DEF Holds
<1>2. lost \subseteq sync[d].ops
  BY <1>0, <1>1, LostRequested
<1>3. Idle.ops = {} /\ Idle.stage = "idle" /\ Idle.snapshot = None
  BY DEF Idle, Request
<1>4. sync[d].ops \subseteq Requested
  BY DEF Requested
<1>5. \A o \in Devices : o # d =>
        sync'[o] = sync[o] /\ outbox'[o] = outbox[o] /\ marker'[o] = marker[o] /\ listed'[o] = listed[o]
  BY <1>1 DEF Alone
<1>6. \A op \in sync[d].ops : /\ op \in Requested /\ op.id \in Edits /\ outbox[d][op.id] # None
                              /\ Known(op)
  <2>1. \A op \in sync[d].ops : op.id \in Edits \cup Resolutions /\ op.id \notin Resolutions
    BY <1>0, <1>1, Typed DEF Syncs, Operations, Resolving
  <2>. QED BY <1>0, <1>1, <1>4, <2>1 DEF Holds, RequestOn, QueueRules, AnswersHold
<1> HIDE DEF lost
<1>7. Requested' \subseteq Requested
  <2>1. \A o \in Devices : sync'[o].ops \subseteq sync[o].ops
    BY <1>1, <1>3, <1>5
  <2>. QED BY <1>1, <2>1, NothingRequested
<1>8. RequestsAgree' /\ DecisionIds'
  <2>1. \A o \in Devices : SameDecisions(o)
    BY <1>1, <1>5 DEF SameDecisions, Decides, Chosen
  <2>. QED BY <1>1, <1>7, <2>1, RequestsStay
<1>9. AnswersHold'
  BY <1>1, <1>3, <1>5 DEF QueueRules, AnswersHold, Known
<1>10. NotebooksListed'
  <2>1. sync[d].snapshot # None
    BY <1>0, <1>1 DEF Holds, RequestOn
  <2>. QED BY <1>1, <1>3, <1>5, <2>1 DEF QueueRules, NotebooksListed
<1>11. NotesPause'
  <2> SUFFICES ASSUME NEW o \in Devices, NEW e \in Notes, marker'[o][e] # None,
                      NEW x \in Pending(outbox'[o], e)
               PROVE  outbox'[o][x].error = "CONFLICT"
    BY DEF NotesPause
  <2>1. CASE o # d
    BY <1>5, <2>1 DEF QueueRules, NotesPause
  <2>2. CASE o = d
    <3>1. /\ x \in Edits /\ outbox'[d][x] # None /\ outbox[d][x] # None
          /\ outbox'[d][x].op = outbox[d][x].op /\ outbox[d][x].op.e = e /\ e \in Entities
      BY <1>1, <2>2 DEF Pending, Notes
    <3>2. CASE \E op \in lost : op.e = e
      BY <1>1, <2>2, <3>1, <3>2
    <3>3. CASE ~ \E op \in lost : op.e = e
      <4>1. marker[d][e] # None /\ x \in Pending(outbox[d], e)
        BY <1>1, <2>2, <3>1, <3>3 DEF Pending
      <4>2. outbox[d][x].error = "CONFLICT"
        BY <4>1 DEF QueueRules, NotesPause
      <4>. QED BY <1>1, <2>2, <3>1, <4>2
    <3>. QED BY <3>2, <3>3
  <2>. QED BY <2>1, <2>2
<1>12. OnlyFirstRequested'
  <2> SUFFICES ASSUME NEW o \in Devices, NEW op \in Requested, op.id \in Edits, op.e \in Notes,
                      outbox'[o][op.id] # None
               PROVE  Earlier(outbox'[o], op.id) = {} /\ marker'[o][op.e] = None
    BY <1>7 DEF OnlyFirstRequested
  <2>1. CASE o # d
    BY <1>5, <2>1 DEF QueueRules, OnlyFirstRequested
  <2>2. CASE o = d
    <3>1. outbox[d][op.id] # None /\ op.id \notin done
      BY <1>1, <2>2
    <3>2. Earlier(outbox[d], op.id) = {} /\ marker[d][op.e] = None
      BY <3>1 DEF QueueRules, OnlyFirstRequested
    <3>3. ASSUME NEW y \in Earlier(outbox'[d], op.id) PROVE FALSE
      <4>1. /\ y \in Edits /\ outbox'[d][y] # None /\ outbox'[d][y].op.e = outbox'[d][op.id].op.e
            /\ outbox'[d][y].op.base < outbox'[d][op.id].op.base
        BY <3>3 DEF Earlier, Pending
      <4>2. /\ outbox'[d][op.id].op = outbox[d][op.id].op
            /\ outbox[d][y] # None /\ outbox'[d][y].op = outbox[d][y].op
        BY <1>1, <2>2, <4>1
      <4>. QED BY <3>2, <4>1, <4>2 DEF Earlier, Pending
    <3>4. ASSUME NEW l \in lost, l.e = op.e PROVE FALSE
      <4>1. l = op
        BY <1>0, <1>2, <1>6, <3>1, <3>4, FirstIsOne DEF Holds
      <4>. QED BY <1>2, <3>1, <3>4, <4>1
    <3>5. marker'[d][op.e] = marker[d][op.e]
      BY <1>1, <3>4 DEF Notes
    <3>. QED BY <2>2, <3>2, <3>3, <3>5
  <2>. QED BY <2>1, <2>2
<1>13. UnansweredWait'
  <2> SUFFICES ASSUME NEW op \in Requested, op.id \in Edits, op.e \in Notes, ~Known(op)
               PROVE  \E o \in Devices : outbox'[o][op.id] # None
    BY <1>1, <1>7 DEF UnansweredWait, Known
  <2>1. PICK o \in Devices : outbox[o][op.id] # None
    BY DEF QueueRules, UnansweredWait
  <2>2. op.id \notin done
    BY <1>6 DEF Known
  <2>. QED BY <1>1, <1>5, <2>1, <2>2
<1>14. EditsPlain'
  BY <1>1, <1>5, <1>7 DEF QueueRules, EditsPlain
<1>. QED BY <1>8, <1>9, <1>10, <1>11, <1>12, <1>13, <1>14 DEF QueueRules

LEMMA FinishResolutionKeepsQueue ==
  ASSUME Inductive, QueueRules, NEW d \in Devices, FinishResolution(d)
  PROVE  QueueRules'
<1> DEFINE e == Resolution(d).e
           gone == marker[d][e].resolution.supersedes
           newer == Pending(outbox[d], e) \ gone
<1>0. TypeOK /\ Shared /\ Holds(d) /\ OperationsOn(d) /\ ResolutionsOn(d) /\ RequestOn(d)
  BY Parts DEF Holds
<1>1. /\ Alone(d) /\ sync[d].stage = "read" /\ sync'[d] = Idle /\ e \in Entities
      /\ Decides(d, e) /\ marker'[d][e] = None
      /\ UNCHANGED <<receipts, late, fresh>>
      /\ \A n \in Entities \ {e} : marker'[d][n] = marker[d][n]
      /\ listed'[d] \subseteq listed[d] \cup sync[d].snapshot.copies
  BY <1>0, FinishResolutionEffect
<1>2. \A x \in Edits :
        /\ x \in gone => outbox'[d][x] = None
        /\ x \notin gone =>
             /\ x \notin newer => outbox'[d][x] = outbox[d][x]
             /\ outbox'[d][x] # None <=> outbox[d][x] # None
  BY <1>0, FinishResolutionEffect
<1>3. \A x \in newer : outbox'[d][x] # None /\ outbox'[d][x].op.e = e /\ Plain(outbox'[d][x].op)
  BY <1>0, FinishResolutionEffect
<1>4. Idle.ops = {} /\ Idle.stage = "idle" /\ Idle.snapshot = None
  BY DEF Idle, Request
<1>5. \A o \in Devices : o # d =>
        sync'[o] = sync[o] /\ outbox'[o] = outbox[o] /\ marker'[o] = marker[o] /\ listed'[o] = listed[o]
  BY <1>1 DEF Alone
<1>6. \A x \in Edits : x \in gone /\ outbox[d][x] # None => outbox[d][x].op.e = e
  BY <1>0, <1>1 DEF ResolutionsOn, Decides
<1> HIDE DEF e, gone
<1>7. ASSUME NEW x \in Edits, outbox'[d][x] # None, outbox'[d][x].op.e # e
      PROVE  outbox'[d][x] = outbox[d][x]
  <2>1. x \notin gone /\ x \notin newer
    BY <1>2, <1>3, <1>7
  <2>. QED BY <1>2, <2>1
<1>8. ASSUME NEW x \in Edits, outbox[d][x] # None, outbox[d][x].op.e # e
      PROVE  outbox'[d][x] = outbox[d][x]
  <2>1. x \notin gone /\ x \notin newer
    BY <1>6, <1>8 DEF Pending
  <2>. QED BY <1>2, <2>1
<1>9. Requested' \subseteq Requested
  <2>1. \A o \in Devices : sync'[o].ops \subseteq sync[o].ops
    BY <1>1, <1>4, <1>5
  <2>. QED BY <1>1, <2>1, NothingRequested
<1>10. RequestsAgree' /\ DecisionIds'
  <2>1. \A o \in Devices : SameDecisions(o)
    BY <1>1, <1>5 DEF SameDecisions, Decides, Chosen
  <2>. QED BY <1>1, <1>9, <2>1, RequestsStay
<1>11. AnswersHold'
  BY <1>1, <1>4, <1>5 DEF QueueRules, AnswersHold, Known
<1>12. NotebooksListed'
  <2>1. sync[d].snapshot # None
    BY <1>0, <1>1 DEF RequestOn
  <2>. QED BY <1>1, <1>4, <1>5, <2>1 DEF QueueRules, NotebooksListed
<1>13. NotesPause'
  <2> SUFFICES ASSUME NEW o \in Devices, NEW n \in Notes, marker'[o][n] # None,
                      NEW x \in Pending(outbox'[o], n)
               PROVE  outbox'[o][x].error = "CONFLICT"
    BY DEF NotesPause
  <2>1. CASE o # d
    BY <1>5, <2>1 DEF QueueRules, NotesPause
  <2>2. CASE o = d
    <3>1. n # e /\ marker[d][n] # None
      BY <1>1, <2>2 DEF Notes
    <3>2. x \in Edits /\ outbox'[d][x] # None /\ outbox'[d][x].op.e = n
      BY <2>2 DEF Pending
    <3>3. outbox'[d][x] = outbox[d][x]
      BY <1>7, <3>1, <3>2
    <3>. QED BY <2>2, <3>1, <3>2, <3>3 DEF QueueRules, NotesPause, Pending
  <2>. QED BY <2>1, <2>2
<1>14. OnlyFirstRequested'
  <2> SUFFICES ASSUME NEW o \in Devices, NEW op \in Requested, op.id \in Edits, op.e \in Notes,
                      outbox'[o][op.id] # None
               PROVE  Earlier(outbox'[o], op.id) = {} /\ marker'[o][op.e] = None
    BY <1>9 DEF OnlyFirstRequested
  <2>1. CASE o # d
    BY <1>5, <2>1 DEF QueueRules, OnlyFirstRequested
  <2>2. CASE o = d
    <3>1. outbox[d][op.id] # None
      BY <1>2, <2>2
    <3>2. Earlier(outbox[d], op.id) = {} /\ marker[d][op.e] = None /\ outbox[d][op.id].op = op
      BY <1>0, <3>1 DEF QueueRules, OnlyFirstRequested, OperationsOn
    <3>3. op.e # e
      BY <1>1, <3>2 DEF Decides
    <3>4. outbox'[d][op.id] = outbox[d][op.id]
      BY <1>8, <3>1, <3>2, <3>3
    <3>5. ASSUME NEW y \in Earlier(outbox'[d], op.id) PROVE FALSE
      <4>1. y \in Edits /\ outbox'[d][y] # None /\ outbox'[d][y].op.e = op.e
        BY <3>2, <3>4, <3>5 DEF Earlier, Pending
      <4>2. outbox'[d][y] = outbox[d][y]
        BY <1>7, <3>3, <4>1
      <4>. QED BY <3>2, <3>4, <3>5, <4>1, <4>2 DEF Earlier, Pending
    <3>6. marker'[d][op.e] = marker[d][op.e]
      BY <1>1, <3>3 DEF Notes
    <3>. QED BY <2>2, <3>2, <3>5, <3>6
  <2>. QED BY <2>1, <2>2
<1>15. UnansweredWait'
  <2> SUFFICES ASSUME NEW op \in Requested, op.id \in Edits, op.e \in Notes, ~Known(op)
               PROVE  \E o \in Devices : outbox'[o][op.id] # None
    BY <1>1, <1>9 DEF UnansweredWait, Known
  <2>1. PICK o \in Devices : outbox[o][op.id] # None
    BY DEF QueueRules, UnansweredWait
  <2>2. CASE o = d
    <3>1. marker[d][op.e] = None /\ outbox[d][op.id].op = op
      BY <1>0, <2>1, <2>2 DEF QueueRules, OnlyFirstRequested, OperationsOn
    <3>2. op.e # e
      BY <1>1, <3>1 DEF Decides
    <3>. QED BY <1>8, <2>1, <2>2, <3>1, <3>2
  <2>. QED BY <1>5, <2>1, <2>2
<1>16. EditsPlain'
  <2>1. \A x \in Edits : outbox'[d][x] # None => Plain(outbox'[d][x].op)
    BY <1>2, <1>3 DEF QueueRules, EditsPlain
  <2>. QED BY <1>5, <1>9, <2>1 DEF QueueRules, EditsPlain
<1>. QED BY <1>10, <1>11, <1>12, <1>13, <1>14, <1>15, <1>16 DEF QueueRules

LEMMA InitObeysQueue ==
  Init => QueueRules
<1> SUFFICES ASSUME Init PROVE QueueRules
  OBVIOUS
<1>1. Requested = {}
  <2>1. Idle.ops = {}
    BY DEF Idle, Request
  <2>. QED BY <2>1 DEF Init, Requested
<1>2. /\ \A d \in Devices, x \in Edits : outbox[d][x] = None
      /\ \A d \in Devices, e \in Entities : marker[d][e] = None
      /\ \A d \in Devices : listed[d] = {} /\ sync[d].stage = "idle" /\ sync[d].snapshot = None
  BY DEF Init, Idle, Request
<1>. QED BY <1>1, <1>2 DEF QueueRules, NotesPause, OnlyFirstRequested, UnansweredWait, EditsPlain,
           RequestsAgree, DecisionIds, AnswersHold, NotebooksListed, Pending, Decides, Notes

LEMMA StepObeysQueue ==
  Inductive /\ QueueRules /\ [Next]_vars => QueueRules'
<1> SUFFICES ASSUME Inductive, QueueRules, [Next]_vars PROVE QueueRules'
  OBVIOUS
<1>0. TypeOK
  BY Parts
<1>1. CASE UNCHANGED vars
  <2>1. UNCHANGED <<receipts, late, device, sync>> /\ fresh' \subseteq fresh
    BY <1>1 DEF vars, server
  <2>. QED BY <1>0, <2>1, ElsewhereKeepsQueue
<1>2. CASE Elsewhere
  <2>1. CASE \E e \in Entities, x \in Edits : OnlineEdit(e, x)
    BY <1>0, <2>1, ElsewhereKeepsQueue DEF OnlineEdit
  <2>2. CASE \E c \in copies, x \in Edits : EditCopy(c, x)
    BY <1>0, <2>2, ElsewhereKeepsQueue DEF EditCopy
  <2>3. CASE OpenOnline
    BY <1>0, <2>3, ElsewhereKeepsQueue DEF OpenOnline
  <2>4. CASE \E ops \in late : ServeLate(ops)
    BY <2>4, ServeLateKeepsQueue
  <2>. QED BY <1>2, <2>1, <2>2, <2>3, <2>4 DEF Elsewhere
<1>3. ASSUME NEW d \in Devices,
             Edit(d) \/ Download(d) \/ RetrySync(d) \/ Synchronize(d) \/ Disturb(d) \/ Resolve(d)
      PROVE  QueueRules'
  <2>1. CASE Edit(d)
    BY <2>1, LocalEditKeepsQueue DEF Edit
  <2>2. CASE Download(d)
    BY <1>0, <2>2, DownloadKeepsQueue
  <2>3. CASE RetrySync(d)
    BY <1>0, <2>3, RetrySyncKeepsQueue
  <2>4. CASE Synchronize(d)
    <3>1. CASE Refused(d)
      <4>1. sync[d].refusal \in Errors
        BY <1>0, <3>1, Typed, Parts DEF Refused, Syncs, Errors, Holds, RequestOn
      <4>. QED BY <3>1, <4>1, FailedKeepsQueue DEF Refused
    <3>. QED BY <2>4, <3>1, FlushKeepsQueue, SendResolutionKeepsQueue, ServeKeepsQueue,
                FetchKeepsQueue, AcknowledgeKeepsQueue, FinishResolutionKeepsQueue DEF Synchronize
  <2>5. CASE Disturb(d)
    <3>1. CASE NetworkFailure(d)
      <4>1. "NETWORK" \in Errors
        BY DEF Errors
      <4>. QED BY <3>1, <4>1, FailedKeepsQueue DEF NetworkFailure, Abandoned
    <3>. QED BY <1>0, <2>5, <3>1, CloseTabKeepsQueue DEF Disturb
  <2>6. CASE Resolve(d)
    BY <1>0, <2>6, EnsureConflictKeepsQueue, CompareKeepsQueue, PrepareKeepsQueue DEF Resolve
  <2>. QED BY <1>3, <2>1, <2>2, <2>3, <2>4, <2>5, <2>6
<1>. QED BY <1>1, <1>2, <1>3 DEF Next

\* The rules of the queue hold of every reachable state, whether or not the
\* conversation has a notebook.
THEOREM QueueIsRuled == Spec => []QueueRules
<1>1. Inductive /\ Inductive' /\ QueueRules /\ [Next]_vars => QueueRules'
  BY StepObeysQueue
<1>. QED BY <1>1, InitObeysQueue, SyncIsInductive, PTL DEF Spec

-----------------------------------------------------------------------------
(* No edit of an annotation is sent beside a conflict. *)

\* What is sent of a note is sent while the device has no conflict of it.
NotesWait ==
  \A d \in Devices : \A op \in sync'[d].ops \ sync[d].ops :
    op.id \in Edits /\ op.e \in Notes => marker[d][op.e] = None

LEMMA StepPauses ==
  ASSUME Inductive, QueueRules, [Next]_vars
  PROVE  NotesWait
<1> SUFFICES ASSUME NEW d \in Devices, NEW op \in sync'[d].ops, op \notin sync[d].ops,
                    op.id \in Edits, op.e \in Notes
             PROVE  marker[d][op.e] = None
  BY DEF NotesWait
<1>0. TypeOK /\ Holds(d)
  BY Parts
<1>1. Idle.ops = {}
  BY DEF Idle, Request
<1>2. CASE UNCHANGED vars
  BY <1>2 DEF vars
<1>3. CASE Elsewhere
  BY <1>3 DEF Elsewhere, OnlineEdit, EditCopy, OpenOnline, ServeLate
<1>4. ASSUME NEW o \in Devices,
             Edit(o) \/ Download(o) \/ RetrySync(o) \/ Synchronize(o) \/ Disturb(o) \/ Resolve(o)
      PROVE  marker[d][op.e] = None
  <2>1. CASE Flush(o)
    <3>1. Alone(o) /\ sync'[o].ops = {outbox[o][x].op : x \in Sendable(outbox[o])}
      BY <1>0, <2>1, FlushEffect
    <3>2. o = d
      BY <3>1 DEF Alone
    <3>3. PICK x \in Sendable(outbox[d]) : op = outbox[d][x].op
      BY <3>1, <3>2
    <3>4. x \in Pending(outbox[d], op.e) /\ outbox[d][x].error # "CONFLICT"
      BY <3>3 DEF Sendable, Pending
    <3>. QED BY <3>4 DEF QueueRules, NotesPause
  <2>2. CASE \E e \in Entities : SendResolution(o, e)
    <3>1. PICK e \in Entities : Alone(o) /\ Decides(o, e) /\ sync'[o].ops = {Chosen(o, e)}
      BY <1>0, <2>2, SendResolutionEffect
    <3>2. op.id \in Resolutions
      <4>1. o = d
        BY <3>1 DEF Alone
      <4>. QED BY <1>0, <3>1, <4>1 DEF Holds, ResolutionsOn, Decides, Chosen
    <3>. QED BY <3>2, OfflineAssumption
  <2>3. CASE Serve(o) \/ Fetch(o)
    BY <1>0, <2>3, ServeEffect, FetchEffect DEF Alone
  <2>4. CASE Acknowledge(o) \/ Refused(o) \/ FinishResolution(o) \/ NetworkFailure(o) \/ CloseTab(o)
    <3>1. sync' = [sync EXCEPT ![o] = Idle]
      BY <2>4 DEF Acknowledge, Refused, FinishResolution, NetworkFailure, CloseTab, Failed
    <3>. QED BY <1>0, <1>1, <3>1 DEF TypeOK
  <2>5. CASE UNCHANGED sync
    BY <2>5
  <2>. QED BY <1>4, <2>1, <2>2, <2>3, <2>4, <2>5
           DEF Edit, LocalEdit, Download, RetrySync, Synchronize, Disturb, Resolve, EnsureConflict,
               Compare, Prepare
<1>. QED BY <1>2, <1>3, <1>4 DEF Next

\* "Conflicts pause descendant edits": a device sends no edit of an
\* annotation while it records a conflict on it (flushConversationBatch,
\* queueOfflineOperation), whatever else the conversation holds.
THEOREM AnnotationEditsPause == Spec => [][NotesWait]_vars
<1>1. Inductive /\ QueueRules /\ [Next]_vars => [NotesWait]_vars
  BY StepPauses
<1>. QED BY <1>1, QueueIsRuled, SyncIsInductive, PTL DEF Spec

\* ConflictPauses, where every entity is an annotation: the conflict of a
\* notebook may be recorded (ensureNotebookConflict) beside edits that were
\* queued before.
THEOREM ConflictsPauseEdits ==
  ASSUME Notebooks = {}
  PROVE  Spec => ConflictPauses
<1>1. Inductive /\ QueueRules /\ [Next]_vars =>
        [\A d \in Devices : \A op \in sync'[d].ops \ sync[d].ops :
           op.id \in Edits => marker[d][op.e] = None]_vars
  <2> SUFFICES ASSUME Inductive, QueueRules, [Next]_vars,
                      NEW d \in Devices, NEW op \in sync'[d].ops \ sync[d].ops, op.id \in Edits
               PROVE  marker[d][op.e] = None
    OBVIOUS
  <2>1. TypeOK'
    BY StepIsInductive, PartsAfter
  <2>2. op.e \in Notes
    <3>1. sync'[d] \in Syncs
      BY <2>1 DEF TypeOK
    <3>. QED BY <3>1 DEF Syncs, Operations, Notes
  <2>. QED BY <2>2, StepPauses DEF NotesWait
<1>. QED BY <1>1, QueueIsRuled, SyncIsInductive, PTL DEF Spec, ConflictPauses

-----------------------------------------------------------------------------
(* Conflict copies and the decisions about them. *)

\* No device waits for the answer to edit x any more.
Gone(x) == \A d \in Devices : outbox[d][x] = None

\* Every copy is that of one answered edit.
CopiesHold ==
  \A c \in copies :
    /\ receipts[c.id] # None /\ receipts[c.id].copied /\ receipts[c.id].op.e = c.e
    /\ \A o \in copies : o.id = c.id => o = c

\* The copy of an edit is there until its device knows of it.
CopyThere ==
  \A d \in Devices, x \in Edits :
    outbox[d][x] # None /\ outbox[d][x].op.e \in Notes /\ receipts[x] # None /\ receipts[x].copied
      => \E c \in copies : c.id = x

\* Edit x of e has been answered, and its device has had the answer.
Settled(e, x) ==
  x \in Edits /\ receipts[x] # None /\ receipts[x].op.e = e /\ Gone(x)

\* A conflict is about an edit the device has sent; a decision is about the
\* copy and takes edits that wait.
NoteMarkers ==
  \A d \in Devices, e \in Notes : marker[d][e] # None =>
    /\ Settled(e, marker[d][e].copy)
    /\ marker[d][e].resolution # None =>
         /\ Chosen(d, e).copy = marker[d][e].copy
         /\ marker[d][e].resolution.supersedes \subseteq Pending(outbox[d], e)

\* No two devices have a conflict about one copy of a note.
OneHolder ==
  \A d, o \in Devices, e \in Notes :
    marker[d][e] # None /\ marker[o][e] # None /\ marker[d][e].copy = marker[o][e].copy => d = o

\* What was compared is not newer than what is there.
Seen(e, x, base, rev) ==
  /\ Settled(e, x)
  /\ base <= Revision(e)
  /\ \A c \in copies : c.id = x => rev <= c.rev
SeenBy(op) == Seen(op.e, op.copy, op.base, op.seenCopy)
Shown(p) == Seen(p.e, p.marker.copy, p.base, p.seenCopy)

NoteDecisions ==
  /\ \A op \in Requested : op.id \in Resolutions /\ op.e \in Notes => SeenBy(op)
  /\ \A d \in Devices, e \in Notes : Decides(d, e) => SeenBy(Chosen(d, e))
  /\ \A d \in Devices : preview[d] # None /\ preview[d].e \in Notes => Shown(preview[d])

\* A decision that can still be applied: nothing changed since.
Timely(op) ==
  Revision(op.e) = op.base /\ \E c \in copies : c.id = op.copy /\ c.rev = op.seenCopy

\* The device stores that decision, and has not been told that it is stale.
Keeps(d, op) ==
  Decides(d, op.e) /\ Chosen(d, op.e) = op /\ ~marker[d][op.e].resolution.stale

\* A decision that was requested is known, too late, or kept by its device;
\* and while a known one's copy is in conflict, its device keeps it.
DecisionsSettle ==
  \A op \in Requested : op.id \in Resolutions /\ op.e \in Notes =>
    /\ Known(op) \/ ~Timely(op) \/ \E d \in Devices : Keeps(d, op)
    /\ Known(op) => \A d \in Devices :
         marker[d][op.e] # None /\ marker[d][op.e].copy = op.copy => Keeps(d, op)

\* A decision that was refused can never be applied.
RefusedLate ==
  \A d \in Devices : sync[d].stage = "refused" =>
    \A op \in sync[d].ops : op.id \in Resolutions /\ op.e \in Notes => ~Known(op) /\ ~Timely(op)

\* ComparisonAvailable, for annotations.
Comparable ==
  \A d \in Devices, e \in Notes : marker[d][e] # None =>
    \/ \E c \in copies : c.id = marker[d][e].copy
    \/ Decides(d, e) /\ ~marker[d][e].resolution.stale /\ Known(Chosen(d, e))

ConflictRules ==
  /\ CopiesHold /\ CopyThere /\ NoteMarkers /\ OneHolder /\ NoteDecisions
  /\ DecisionsSettle /\ RefusedLate /\ Comparable

-----------------------------------------------------------------------------
(* What every step does to rows, copies and receipts. *)

Steady ==
  /\ \A i \in Edits \cup Resolutions : receipts[i] # None => receipts'[i] = receipts[i]
  /\ \A e \in Entities : Revision(e) <= Revision(e)'
  /\ \A c \in copies' :
       \/ \E b \in copies : b.id = c.id /\ b.e = c.e /\ b.rev <= c.rev
       \/ c.id \in Edits /\ receipts[c.id] = None
  /\ \A x \in Edits : receipts[x] # None /\ Gone(x) => Gone(x)'

LEMMA SettledStays ==
  ASSUME Steady, NEW e, NEW x, Settled(e, x)
  PROVE  Settled(e, x)'
BY DEF Steady, Settled

LEMMA SeenStays ==
  ASSUME TypeOK, TypeOK', Steady, NEW e \in Entities, NEW x, NEW base \in Nat, NEW rev \in Nat,
         Seen(e, x, base, rev)
  PROVE  Seen(e, x, base, rev)'
<1>1. Settled(e, x)' /\ x \in Edits /\ receipts[x] # None
  BY SettledStays DEF Seen, Settled
<1>2. base <= Revision(e)'
  <2>1. Revision(e) \in Nat /\ Revision(e)' \in Nat
    BY DEF Revision, TypeOK
  <2>. QED BY <2>1 DEF Seen, Steady
<1>3. ASSUME NEW c \in copies', c.id = x PROVE rev <= c.rev
  <2>1. PICK b \in copies : b.id = x /\ b.rev <= c.rev
    BY <1>1, <1>3 DEF Steady
  <2>2. b.rev \in Nat /\ c.rev \in Nat
    BY DEF TypeOK, Copies
  <2>. QED BY <2>1, <2>2 DEF Seen
<1>. QED BY <1>1, <1>2, <1>3 DEF Seen

\* A decision whose time has passed stays so.
LEMMA LateStays ==
  ASSUME TypeOK, TypeOK', Steady, NEW op \in Operations, SeenBy(op), ~Timely(op)
  PROVE  ~(Timely(op)')
<1> SUFFICES ASSUME Timely(op)' PROVE FALSE
  OBVIOUS
<1>1. op.e \in Entities /\ op.base \in Nat /\ op.seenCopy \in Nat
  BY DEF Operations
<1>2. Revision(op.e)' = op.base /\ Revision(op.e) \in Nat
  BY <1>1 DEF Timely, Revision, TypeOK
<1>3. Revision(op.e) = op.base
  BY <1>1, <1>2 DEF Steady, SeenBy, Seen
<1>4. PICK c \in copies' : c.id = op.copy /\ c.rev = op.seenCopy
  BY DEF Timely
<1>5. PICK b \in copies : b.id = op.copy /\ b.rev <= c.rev
  BY <1>4 DEF Steady, SeenBy, Seen, Settled
<1>6. b.rev \in Nat
  BY DEF TypeOK, Copies
<1>7. b.rev = op.seenCopy
  BY <1>1, <1>4, <1>5, <1>6 DEF SeenBy, Seen
<1>. QED BY <1>3, <1>5, <1>7 DEF Timely

-----------------------------------------------------------------------------
(* The rules of conflicts, one by one. *)

\* Copies and receipts stay, and rows do not shrink.
StillServer == UNCHANGED <<copies, receipts>> /\ \A e \in Entities : Revision(e) <= Revision(e)'

\* Nothing waits for an answered edit that did not wait before.
OldQueue(d) ==
  \A x \in Edits : receipts[x] # None /\ outbox'[d][x] # None =>
    outbox[d][x] # None /\ outbox'[d][x].op.e = outbox[d][x].op.e

\* A conflict stays or goes; a decision about it changes nothing but stale.
OldMarker(d, e) ==
  marker'[d][e] # None =>
    /\ marker[d][e] # None /\ marker'[d][e].copy = marker[d][e].copy
    /\ marker'[d][e].resolution # None =>
         /\ marker[d][e].resolution # None
         /\ marker'[d][e].resolution.op = marker[d][e].resolution.op
         /\ marker'[d][e].resolution.supersedes = marker[d][e].resolution.supersedes

\* The edits that a decision takes still wait.
StillWait(d, e) ==
  marker'[d][e] # None /\ marker'[d][e].resolution # None =>
    marker'[d][e].resolution.supersedes \subseteq Pending(outbox'[d], e)

\* Decisions are requested again, or as they are stored.
OldDecisions ==
  \A op \in Requested' : op.id \in Resolutions /\ op.e \in Notes =>
    op \in Requested \/ \E d \in Devices : Decides(d, op.e) /\ Chosen(d, op.e) = op

LEMMA StillSteady ==
  ASSUME TypeOK, StillServer, \A d \in Devices : OldQueue(d)
  PROVE  Steady
<1>1. \A c \in copies' : \E b \in copies : b.id = c.id /\ b.e = c.e /\ b.rev <= c.rev
  BY DEF StillServer, TypeOK, Copies
<1>2. \A x \in Edits : receipts[x] # None /\ Gone(x) => Gone(x)'
  BY DEF Gone, OldQueue
<1>. QED BY <1>1, <1>2 DEF Steady, StillServer

LEMMA CopiesStay ==
  ASSUME CopiesHold, CopyThere, UNCHANGED <<copies, receipts>>, \A d \in Devices : OldQueue(d)
  PROVE  CopiesHold' /\ CopyThere'
<1>1. CopiesHold'
  BY DEF CopiesHold
<1>2. CopyThere'
  BY DEF CopyThere, OldQueue
<1>. QED BY <1>1, <1>2

LEMMA MarkersStay ==
  ASSUME Steady, NoteMarkers, OneHolder,
         \A d \in Devices, e \in Notes : OldMarker(d, e) /\ StillWait(d, e)
  PROVE  NoteMarkers' /\ OneHolder'
<1>1. NoteMarkers'
  <2> SUFFICES ASSUME NEW d \in Devices, NEW e \in Notes, marker'[d][e] # None
               PROVE  /\ Settled(e, marker[d][e].copy)'
                      /\ marker'[d][e].resolution # None =>
                           /\ Chosen(d, e)'.copy = marker'[d][e].copy
                           /\ marker'[d][e].resolution.supersedes \subseteq Pending(outbox'[d], e)
    BY DEF NoteMarkers
  <2>1. marker[d][e] # None /\ marker'[d][e].copy = marker[d][e].copy
    BY DEF OldMarker
  <2>2. PICK x : x = marker[d][e].copy
    OBVIOUS
  <2>3. Settled(e, x)
    BY <2>1, <2>2 DEF NoteMarkers
  <2>4. Settled(e, x)'
    BY <2>3, SettledStays
  <2>5. Settled(e, marker[d][e].copy)'
    BY <2>1, <2>2, <2>4 DEF Settled
  <2>6. marker'[d][e].resolution # None => Chosen(d, e)'.copy = marker'[d][e].copy
    BY <2>1 DEF OldMarker, NoteMarkers, Chosen
  <2>. QED BY <2>5, <2>6 DEF StillWait
<1>2. OneHolder'
  BY DEF OneHolder, OldMarker
<1>. QED BY <1>1, <1>2

LEMMA DecisionsStay ==
  ASSUME TypeOK, TypeOK', Steady, NoteDecisions, OldDecisions,
         \A d \in Devices, e \in Notes :
           Decides(d, e)' => Decides(d, e) /\ Chosen(d, e)' = Chosen(d, e),
         \A d \in Devices : preview'[d] = preview[d] \/ preview'[d] = None
  PROVE  NoteDecisions'
<1>1. ASSUME NEW op \in Operations, SeenBy(op)
      PROVE  SeenBy(op)'
  <2>1. op.e \in Entities /\ op.base \in Nat /\ op.seenCopy \in Nat
    BY DEF Operations
  <2>2. Seen(op.e, op.copy, op.base, op.seenCopy)
    BY <1>1 DEF SeenBy
  <2>3. Seen(op.e, op.copy, op.base, op.seenCopy)'
    BY <2>1, <2>2, SeenStays
  <2>. QED BY <2>3 DEF SeenBy
<1>2. ASSUME NEW op \in Requested', op.id \in Resolutions, op.e \in Notes
      PROVE  SeenBy(op)'
  <2>1. SeenBy(op)
    BY <1>2 DEF OldDecisions, NoteDecisions
  <2>2. op \in Operations
    BY <1>2, RequestedTyped, RequestedTypedAfter
  <2>. QED BY <1>1, <1>2, <2>1, <2>2
<1>3. ASSUME NEW d \in Devices, NEW e \in Notes, Decides(d, e)'
      PROVE  SeenBy(Chosen(d, e))'
  <2>1. Decides(d, e) /\ Chosen(d, e)' = Chosen(d, e)
    BY <1>3
  <2>2. PICK op : op = Chosen(d, e)
    OBVIOUS
  <2>3. op \in Operations
    BY <2>1, <2>2, Typed DEF Decides, Chosen, Markers, ResolutionRecords, Notes
  <2>4. SeenBy(op)
    BY <2>1, <2>2 DEF NoteDecisions
  <2>5. SeenBy(op)'
    BY <1>1, <2>3, <2>4
  <2>6. Chosen(d, e)' = op
    BY <2>1, <2>2
  <2>. QED BY <2>5, <2>6 DEF SeenBy, Seen, Settled
<1>4. ASSUME NEW d \in Devices, preview'[d] # None, preview'[d].e \in Notes
      PROVE  Shown(preview[d])'
  <2>1. PICK p : p = preview[d]
    OBVIOUS
  <2>2. preview'[d] = p /\ p # None /\ p \in Previews
    BY <1>4, <2>1, Typed
  <2>3. /\ p.e \in Entities /\ p.base \in Nat /\ p.seenCopy \in Nat
    BY <2>2 DEF Previews
  <2>4. Seen(p.e, p.marker.copy, p.base, p.seenCopy)
    BY <1>4, <2>1, <2>2 DEF NoteDecisions, Shown
  <2>5. Seen(p.e, p.marker.copy, p.base, p.seenCopy)'
    BY <2>3, <2>4, SeenStays
  <2>. QED BY <2>2, <2>5 DEF Shown, Seen, Settled
<1>. QED BY <1>2, <1>3, <1>4 DEF NoteDecisions

\* A decision that is kept as it was, and not answered meanwhile, is settled
\* as it was.
LEMMA SettleStays ==
  ASSUME TypeOK, TypeOK', Steady, NoteDecisions, DecisionsSettle,
         NEW op \in Requested, op.id \in Resolutions, op.e \in Notes, Known(op)' => Known(op),
         \A d \in Devices : marker'[d][op.e] = marker[d][op.e]
  PROVE  /\ Known(op)' \/ ~(Timely(op)') \/ \E d \in Devices : Keeps(d, op)'
         /\ Known(op)' => \A d \in Devices :
              marker'[d][op.e] # None /\ marker'[d][op.e].copy = op.copy => Keeps(d, op)'
<1>1. op \in Operations /\ SeenBy(op) /\ op.id \in Edits \cup Resolutions
  BY RequestedTyped DEF NoteDecisions
<1>2. Known(op) => Known(op)'
  BY <1>1 DEF Steady, Known
<1>3. ~Timely(op) => ~(Timely(op)')
  BY <1>1, LateStays
<1>4. \A d \in Devices : Keeps(d, op)' <=> Keeps(d, op)
  BY DEF Keeps, Decides, Chosen
<1>. QED BY <1>2, <1>3, <1>4 DEF DecisionsSettle

LEMMA RefusedStays ==
  ASSUME TypeOK, TypeOK', Steady, NoteDecisions, RefusedLate,
         \A op \in Requested : op.id \in Resolutions /\ Known(op)' /\ ~Timely(op) => Known(op),
         \A d \in Devices : sync'[d] = sync[d] \/ sync'[d].stage # "refused"
  PROVE  RefusedLate'
<1> SUFFICES ASSUME NEW d \in Devices, sync'[d] = sync[d], sync[d].stage = "refused",
                    NEW op \in sync[d].ops, op.id \in Resolutions, op.e \in Notes
             PROVE  ~(Known(op)') /\ ~(Timely(op)')
  BY DEF RefusedLate
<1>1. op \in Requested
  BY DEF Requested
<1>2. op \in Operations /\ SeenBy(op)
  BY <1>1, RequestedTyped DEF NoteDecisions
<1>3. ~Known(op) /\ ~Timely(op)
  BY DEF RefusedLate
<1>. QED BY <1>1, <1>2, <1>3, LateStays

\* A conflict that stays may be compared as before.
LEMMA ComparableStays ==
  ASSUME TypeOK, Steady, Comparable, NEW d \in Devices, NEW e \in Notes,
         marker'[d][e] # None, marker'[d][e] = marker[d][e],
         \A c \in copies : c.id = marker[d][e].copy => \E b \in copies' : b.id = c.id
  PROVE  \/ \E c \in copies' : c.id = marker'[d][e].copy
         \/ Decides(d, e)' /\ ~marker'[d][e].resolution.stale /\ Known(Chosen(d, e))'
<1>1. CASE \E c \in copies : c.id = marker[d][e].copy
  BY <1>1
<1>2. CASE Decides(d, e) /\ ~marker[d][e].resolution.stale /\ Known(Chosen(d, e))
  <2>1. Chosen(d, e)' = Chosen(d, e) /\ Decides(d, e)'
    BY <1>2 DEF Chosen, Decides
  <2>2. Chosen(d, e).id \in Edits \cup Resolutions
    BY <1>2, Typed DEF Decides, Chosen, Markers, ResolutionRecords, Operations, Notes
  <2>3. receipts[Chosen(d, e).id] # None /\ receipts'[Chosen(d, e).id] # None
    BY <1>2, <2>2 DEF Steady, Known
  <2>. QED BY <1>2, <2>1, <2>3 DEF Known
<1>. QED BY <1>1, <1>2 DEF Comparable

\* A step that applies nothing and decides nothing.
LEMMA ConflictFrame ==
  ASSUME TypeOK, TypeOK', ConflictRules, Steady, CopiesHold', CopyThere', UNCHANGED receipts,
         \A c \in copies : \E b \in copies' : b.id = c.id,
         \A d \in Devices, e \in Notes :
           /\ marker'[d][e] = marker[d][e]
           /\ marker[d][e] # None => Pending(outbox[d], e) \subseteq Pending(outbox'[d], e),
         \A d \in Devices :
           /\ preview'[d] = preview[d] \/ preview'[d] = None
           /\ sync'[d] = sync[d] \/ sync'[d].stage # "refused",
         \A op \in Requested' : op.id \in Resolutions => op \in Requested
  PROVE  ConflictRules'
<1>1. \A d \in Devices, e \in Notes : OldMarker(d, e)
  BY DEF OldMarker
<1>2. \A d \in Devices, e \in Notes : StillWait(d, e)
  BY DEF StillWait, ConflictRules, NoteMarkers
<1>3. NoteMarkers' /\ OneHolder'
  BY <1>1, <1>2, MarkersStay DEF ConflictRules
<1>4. NoteDecisions'
  BY <1>1, DecisionsStay DEF ConflictRules, OldDecisions, OldMarker, Decides, Chosen
<1>5. DecisionsSettle'
  <2> SUFFICES ASSUME NEW op \in Requested', op.id \in Resolutions, op.e \in Notes
               PROVE  /\ Known(op)' \/ ~(Timely(op)') \/ \E d \in Devices : Keeps(d, op)'
                      /\ Known(op)' => \A d \in Devices :
                           marker'[d][op.e] # None /\ marker'[d][op.e].copy = op.copy => Keeps(d, op)'
    BY DEF DecisionsSettle
  <2>1. Known(op)' => Known(op)
    BY DEF Known
  <2>. QED BY <2>1, SettleStays DEF ConflictRules
<1>6. RefusedLate'
  BY RefusedStays DEF ConflictRules, Known
<1>7. Comparable'
  <2> SUFFICES ASSUME NEW d \in Devices, NEW e \in Notes, marker'[d][e] # None
               PROVE  \/ \E c \in copies' : c.id = marker'[d][e].copy
                      \/ Decides(d, e)' /\ ~marker'[d][e].resolution.stale /\ Known(Chosen(d, e))'
    BY DEF Comparable
  <2>. QED BY ComparableStays DEF ConflictRules
<1>. QED BY <1>3, <1>4, <1>5, <1>6, <1>7 DEF ConflictRules

\* ... and leaves the copies.
LEMMA StillFrame ==
  ASSUME TypeOK, TypeOK', ConflictRules, StillServer, \A d \in Devices : OldQueue(d),
         \A d \in Devices, e \in Notes :
           /\ marker'[d][e] = marker[d][e]
           /\ marker[d][e] # None => Pending(outbox[d], e) \subseteq Pending(outbox'[d], e),
         \A d \in Devices :
           /\ preview'[d] = preview[d] \/ preview'[d] = None
           /\ sync'[d] = sync[d] \/ sync'[d].stage # "refused",
         \A op \in Requested' : op.id \in Resolutions => op \in Requested
  PROVE  ConflictRules'
<1>1. UNCHANGED <<copies, receipts>>
  BY DEF StillServer
<1>2. Steady
  BY StillSteady
<1>3. CopiesHold' /\ CopyThere'
  BY <1>1, CopiesStay DEF ConflictRules
<1>. QED BY <1>1, <1>2, <1>3, ConflictFrame

-----------------------------------------------------------------------------
(* Steps that apply nothing and decide nothing. *)

\* Rows that grow do not lose revisions.
LEMMA GrowsStill ==
  ASSUME Grows, UNCHANGED <<copies, receipts>>
  PROVE  StillServer
BY DEF Grows, StillServer, Revision

\* A step that touches no device, and only adds revisions.
LEMMA ElsewhereKeepsConflicts ==
  ASSUME TypeOK, TypeOK', ConflictRules, StillServer, UNCHANGED <<outbox, marker, preview, sync, late>>
  PROVE  ConflictRules'
<1>1. Requested' \subseteq Requested
  BY NothingRequested DEF StillServer
<1>. QED BY <1>1, StillFrame DEF OldQueue, Pending

LEMMA OnlineEditKeepsConflicts ==
  ASSUME TypeOK, TypeOK', ConflictRules, NEW e \in Entities, NEW x \in Edits, OnlineEdit(e, x)
  PROVE  ConflictRules'
<1>1. UNCHANGED <<copies, receipts, late, outbox, marker, preview, sync>>
  BY DEF OnlineEdit, device
<1>2. ASSUME NEW n \in Entities PROVE Revision(n) <= Revision(n)'
  <2>1. \/ history'[n] = history[n]
        \/ history[n] = <<>> /\ history'[n] = <<{}, {x}>>
        \/ history'[n] = Append(history[n], Content(n) \cup {x})
    BY DEF OnlineEdit, TypeOK
  <2>2. history[n] \in Seq(SUBSET Edits) /\ Content(n) \cup {x} \in SUBSET Edits
    BY ContentTyped DEF TypeOK
  <2>. QED BY <2>1, <2>2 DEF Revision
<1>. QED BY <1>1, <1>2, ElsewhereKeepsConflicts DEF StillServer

LEMMA OpenOnlineKeepsConflicts ==
  ASSUME TypeOK, TypeOK', ConflictRules, OpenOnline
  PROVE  ConflictRules'
<1>1. UNCHANGED <<copies, receipts, late, outbox, marker, preview, sync>>
  BY DEF OpenOnline, device
<1>2. Grows
  BY NotebooksGrow DEF OpenOnline
<1>. QED BY <1>1, <1>2, GrowsStill, ElsewhereKeepsConflicts

LEMMA LocalEditKeepsConflicts ==
  ASSUME Inductive, TypeOK', ConflictRules, NEW d \in Devices, NEW e \in Entities, NEW x \in Edits,
         LocalEdit(d, e, x)
  PROVE  ConflictRules'
<1>0. TypeOK /\ Shared
  BY Parts
<1>1. /\ x \in fresh /\ Alone(d)
      /\ UNCHANGED <<history, copies, receipts, late, marker, preview, listed, sync>>
      /\ \A y \in Edits \ {x} : outbox'[d][y] = outbox[d][y]
  BY <1>0, LocalEditEffect
<1>2. \A o \in Devices : o # d => outbox'[o] = outbox[o]
  BY <1>1 DEF Alone
<1>3. receipts[x] = None
  <2> SUFFICES ASSUME receipts[x] # None PROVE FALSE
    OBVIOUS
  <2>1. receipts[x].op \in Requested /\ receipts[x].op.id = x
    BY <1>0 DEF TypeOK, Requested, Shared
  <2>. QED BY <1>0, <1>1, <2>1 DEF Shared
<1>4. \A o \in Devices : OldQueue(o)
  BY <1>1, <1>2, <1>3 DEF OldQueue
<1>5. outbox[d][x] = None
  BY <1>0, <1>1, Parts DEF Holds, OperationsOn
<1>6. \A o \in Devices, n \in Notes : Pending(outbox[o], n) \subseteq Pending(outbox'[o], n)
  BY <1>1, <1>2, <1>5 DEF Pending
<1>7. Requested' \subseteq Requested
  BY <1>1, NothingRequested
<1>8. StillServer
  BY <1>0, <1>1, HistoryStays, GrowsStill
<1>. QED BY <1>0, <1>1, <1>4, <1>6, <1>7, <1>8, StillFrame

\* A step of device d that leaves its queue and its conflicts of notes.
LEMMA DeviceKeepsConflicts ==
  ASSUME TypeOK, TypeOK', ConflictRules, NEW d \in Devices, Alone(d), SameQueue(d), StillServer,
         \A e \in Notes : marker'[d][e] = marker[d][e],
         preview'[d] = preview[d] \/ preview'[d] = None,
         sync'[d] = sync[d] \/ sync'[d].stage # "refused",
         \A op \in Requested' : op.id \in Resolutions => op \in Requested
  PROVE  ConflictRules'
<1>1. \A o \in Devices : SameQueue(o)
  BY DEF Alone, SameQueue
<1>2. \A o \in Devices : OldQueue(o)
  BY <1>1 DEF OldQueue, SameQueue
<1>3. \A o \in Devices, e \in Notes : Pending(outbox'[o], e) = Pending(outbox[o], e)
  BY <1>1, SamePending
<1>4. \A o \in Devices :
        /\ \A e \in Notes : marker'[o][e] = marker[o][e]
        /\ preview'[o] = preview[o] \/ preview'[o] = None
        /\ sync'[o] = sync[o] \/ sync'[o].stage # "refused"
  BY DEF Alone
<1>. QED BY <1>2, <1>3, <1>4, StillFrame

LEMMA DownloadKeepsConflicts ==
  ASSUME TypeOK, TypeOK', ConflictRules, NEW d \in Devices, Download(d)
  PROVE  ConflictRules'
<1>1. Alone(d) /\ UNCHANGED <<history, copies, receipts, late, outbox, marker, preview, sync>>
  BY DownloadEffect DEF Download
<1>2. preview' = preview
  BY DEF Download
<1>3. Requested' \subseteq Requested
  BY <1>1, NothingRequested
<1>4. StillServer
  BY <1>1, HistoryStays, GrowsStill
<1>. QED BY <1>1, <1>2, <1>3, <1>4, DeviceKeepsConflicts DEF SameQueue

LEMMA RetrySyncKeepsConflicts ==
  ASSUME TypeOK, TypeOK', ConflictRules, NEW d \in Devices, RetrySync(d)
  PROVE  ConflictRules'
<1>1. /\ SameQueue(d) /\ Alone(d)
      /\ UNCHANGED <<history, copies, receipts, late, marker, preview, sync>>
  BY RetrySyncEffect
<1>2. Requested' \subseteq Requested
  BY <1>1, NothingRequested
<1>3. StillServer
  BY <1>1, HistoryStays, GrowsStill
<1>. QED BY <1>1, <1>2, <1>3, DeviceKeepsConflicts

LEMMA CloseTabKeepsConflicts ==
  ASSUME TypeOK, TypeOK', ConflictRules, NEW d \in Devices, CloseTab(d)
  PROVE  ConflictRules'
<1>1. /\ Alone(d) /\ sync'[d] = Idle /\ preview'[d] = None
      /\ late' = late \/ late' = late \cup {sync[d].ops}
      /\ UNCHANGED <<history, copies, receipts, outbox, marker>>
  BY CloseTabEffect
<1>2. Idle.ops = {} /\ Idle.stage = "idle"
  BY DEF Idle, Request
<1>3. \A o \in Devices : sync'[o].ops \subseteq sync[o].ops
  BY <1>1, <1>2 DEF Alone
<1>4. Requested' \subseteq Requested
  BY <1>1, <1>3, NothingRequested
<1>5. StillServer
  BY <1>1, HistoryStays, GrowsStill
<1>. QED BY <1>1, <1>2, <1>4, <1>5, DeviceKeepsConflicts DEF SameQueue

LEMMA EnsureConflictKeepsConflicts ==
  ASSUME TypeOK, TypeOK', QueueRules, ConflictRules, NEW d \in Devices, NEW c \in listed[d],
         EnsureConflict(d, c)
  PROVE  ConflictRules'
<1>1. /\ c.e \in Entities /\ Alone(d)
      /\ \A n \in Entities \ {c.e} : marker'[d][n] = marker[d][n]
      /\ UNCHANGED <<history, copies, receipts, late, outbox, preview, sync>>
  BY EnsureConflictEffect
<1>2. \A n \in Notes : marker'[d][n] = marker[d][n]
  BY <1>1 DEF QueueRules, NotebooksListed, Notes
<1>3. Requested' \subseteq Requested
  BY <1>1, NothingRequested
<1>4. StillServer
  BY <1>1, HistoryStays, GrowsStill
<1>. QED BY <1>1, <1>2, <1>3, <1>4, DeviceKeepsConflicts DEF SameQueue

LEMMA FlushKeepsConflicts ==
  ASSUME Inductive, TypeOK', ConflictRules, NEW d \in Devices, Flush(d)
  PROVE  ConflictRules'
<1> DEFINE ops == {outbox[d][x].op : x \in Sendable(outbox[d])}
<1>0. TypeOK /\ Holds(d)
  BY Parts
<1>1. /\ Alone(d) /\ sync'[d].stage = "sent" /\ sync'[d].ops = ops
      /\ UNCHANGED <<history, copies, receipts, late, outbox, marker, preview>>
  BY <1>0, FlushEffect
<1>2. \A op \in ops : op.id \in Edits
  BY <1>0 DEF Sendable, Holds, OperationsOn
<1> HIDE DEF ops
<1>3. Requested' \subseteq Requested \cup ops
  <2>1. \A o \in Devices : sync'[o].ops \subseteq sync[o].ops \cup ops
    BY <1>1 DEF Alone
  <2>. QED BY <1>1, <2>1, RequestedBound
<1>4. \A op \in Requested' : op.id \in Resolutions => op \in Requested
  BY <1>2, <1>3, OfflineAssumption
<1>5. StillServer
  BY <1>0, <1>1, HistoryStays, GrowsStill
<1>. QED BY <1>0, <1>1, <1>4, <1>5, DeviceKeepsConflicts DEF SameQueue

LEMMA FetchKeepsConflicts ==
  ASSUME TypeOK, TypeOK', ConflictRules, NEW d \in Devices, Fetch(d)
  PROVE  ConflictRules'
<1>1. /\ Alone(d) /\ sync'[d].stage = "read" /\ sync'[d].ops = sync[d].ops
      /\ history' = WithNotebooks(history)
      /\ UNCHANGED <<copies, receipts, late, outbox, marker, preview>>
  BY FetchEffect
<1>2. \A o \in Devices : sync'[o].ops \subseteq sync[o].ops
  BY <1>1 DEF Alone
<1>3. Requested' \subseteq Requested
  BY <1>1, <1>2, NothingRequested
<1>4. StillServer
  BY <1>1, NotebooksGrow, GrowsStill
<1>. QED BY <1>1, <1>3, <1>4, DeviceKeepsConflicts DEF SameQueue

LEMMA EditCopySteady ==
  ASSUME TypeOK, NEW c \in copies, NEW x \in Edits, EditCopy(c, x)
  PROVE  Steady
<1> DEFINE b == [id |-> c.id, e |-> c.e, content |-> c.content \cup {x}, rev |-> c.rev + 1]
<1>1. copies' = (copies \ {c}) \cup {b} /\ UNCHANGED <<history, receipts, outbox>>
  BY DEF EditCopy, device
<1>2. b.id = c.id /\ b.e = c.e /\ c.rev <= b.rev
  BY DEF TypeOK, Copies
<1> HIDE DEF b
<1>3. \A o \in copies : o.rev <= o.rev
  BY DEF TypeOK, Copies
<1>4. \A a \in copies' : \E o \in copies : o.id = a.id /\ o.e = a.e /\ o.rev <= a.rev
  BY <1>1, <1>2, <1>3
<1>5. \A e \in Entities : Revision(e) <= Revision(e)'
  BY <1>1 DEF TypeOK, Revision
<1>. QED BY <1>1, <1>4, <1>5 DEF Steady, Gone

LEMMA EditCopyKeepsConflicts ==
  ASSUME TypeOK, TypeOK', ConflictRules, NEW c \in copies, NEW x \in Edits, EditCopy(c, x)
  PROVE  ConflictRules'
<1> DEFINE b == [id |-> c.id, e |-> c.e, content |-> c.content \cup {x}, rev |-> c.rev + 1]
<1>1. /\ copies' = (copies \ {c}) \cup {b}
      /\ UNCHANGED <<history, receipts, late, outbox, marker, preview, sync>>
  BY DEF EditCopy, device
<1>2. b.id = c.id /\ b.e = c.e /\ c.rev <= b.rev
  BY DEF TypeOK, Copies
<1> HIDE DEF b
<1>3. \A a \in copies' : a \in copies \/ a = b
  BY <1>1
<1>4. Steady
  BY EditCopySteady
<1>5. CopiesHold'
  <2> SUFFICES ASSUME NEW a \in copies'
               PROVE  /\ receipts[a.id] # None /\ receipts[a.id].copied /\ receipts[a.id].op.e = a.e
                      /\ \A o \in copies' : o.id = a.id => o = a
    BY <1>1 DEF CopiesHold
  <2>1. /\ receipts[a.id] # None /\ receipts[a.id].copied /\ receipts[a.id].op.e = a.e
    BY <1>2, <1>3 DEF ConflictRules, CopiesHold
  <2>2. ASSUME NEW o \in copies', o.id = a.id PROVE o = a
    BY <1>1, <1>2, <2>2 DEF ConflictRules, CopiesHold
  <2>. QED BY <2>1, <2>2
<1>6. \A o \in copies : \E a \in copies' : a.id = o.id
  BY <1>1, <1>2
<1>7. CopyThere'
  BY <1>1, <1>6 DEF ConflictRules, CopyThere
<1>8. Requested' \subseteq Requested
  BY <1>1, NothingRequested
<1>. QED BY <1>1, <1>4, <1>5, <1>6, <1>7, <1>8, ConflictFrame

\* What a comparison shows is there.
LEMMA CompareKeepsConflicts ==
  ASSUME Inductive, TypeOK', ConflictRules, NEW d \in Devices, NEW e \in Entities, Compare(d, e)
  PROVE  ConflictRules'
<1>0. TypeOK
  BY Parts
<1>1. PICK c \in copies :
        /\ c.id = marker[d][e].copy
        /\ preview'[d].e = e /\ preview'[d].marker = marker[d][e]
        /\ preview'[d].base = Revision(e) /\ preview'[d].seenCopy = c.rev
  BY <1>0, CompareEffect
<1>2. /\ Alone(d) /\ marker[d][e] # None
      /\ UNCHANGED <<history, copies, receipts, late, outbox, marker, sync>>
  BY <1>0, CompareEffect
<1>3. Requested' \subseteq Requested
  BY <1>2, NothingRequested
<1>4. StillServer /\ Steady
  <2>1. StillServer
    BY <1>0, <1>2, HistoryStays, GrowsStill
  <2>. QED BY <1>0, <1>2, <2>1, StillSteady DEF OldQueue
<1>5. CopiesHold' /\ CopyThere'
  BY <1>2, CopiesStay DEF ConflictRules, OldQueue
<1>6. NoteMarkers' /\ OneHolder'
  BY <1>2 DEF ConflictRules, NoteMarkers, OneHolder, Settled, Gone, Chosen
<1>7. NoteDecisions'
  <2>1. /\ \A op \in Requested' : op.id \in Resolutions /\ op.e \in Notes => SeenBy(op)'
        /\ \A o \in Devices, n \in Notes : Decides(o, n)' => SeenBy(Chosen(o, n))'
    BY <1>2, <1>3 DEF ConflictRules, NoteDecisions, SeenBy, Seen, Settled, Gone, Chosen, Decides, Revision
  <2>2. ASSUME NEW o \in Devices, preview'[o] # None, preview'[o].e \in Notes PROVE Shown(preview[o])'
    <3>1. CASE o # d
      <4>1. preview'[o] = preview[o]
        BY <1>2, <3>1 DEF Alone
      <4>. QED BY <1>2, <2>2, <4>1
               DEF ConflictRules, NoteDecisions, Shown, Seen, Settled, Gone, Revision
    <3>2. CASE o = d
      <4>1. Settled(e, c.id) /\ c.rev \in Nat /\ Revision(e) \in Nat
        BY <1>0, <1>1, <1>2, <2>2, <3>2 DEF ConflictRules, NoteMarkers, TypeOK, Copies, Revision
      <4>2. \A b \in copies : b.id = c.id => b = c
        BY DEF ConflictRules, CopiesHold
      <4>3. Seen(e, c.id, Revision(e), c.rev)
        BY <4>1, <4>2 DEF Seen
      <4>. QED BY <1>1, <1>2, <3>2, <4>3 DEF Shown, Seen, Settled, Gone, Revision
    <3>. QED BY <3>1, <3>2
  <2>. QED BY <2>1, <2>2 DEF NoteDecisions
<1>8. DecisionsSettle'
  BY <1>2, <1>3 DEF ConflictRules, DecisionsSettle, Known, Timely, Keeps, Decides, Chosen, Revision
<1>9. RefusedLate' /\ Comparable'
  BY <1>2 DEF ConflictRules, RefusedLate, Comparable, Known, Timely, Decides, Chosen, Revision
<1>. QED BY <1>5, <1>6, <1>7, <1>8, <1>9 DEF ConflictRules

\* The stored decision is requested.
LEMMA SendResolutionKeepsConflicts ==
  ASSUME Inductive, TypeOK', QueueRules, ConflictRules, NEW d \in Devices, NEW e \in Entities,
         SendResolution(d, e)
  PROVE  ConflictRules'
<1>0. TypeOK /\ Holds(d)
  BY Parts
<1>1. /\ Alone(d) /\ Decides(d, e) /\ ~marker[d][e].resolution.stale
      /\ sync'[d].stage = "sent" /\ sync'[d].ops = {Chosen(d, e)}
      /\ UNCHANGED <<history, copies, receipts, late, outbox, marker, preview>>
  BY <1>0, SendResolutionEffect
<1>2. Requested' \subseteq Requested \cup {Chosen(d, e)}
  <2>1. \A o \in Devices : sync'[o].ops \subseteq sync[o].ops \cup {Chosen(d, e)}
    BY <1>1 DEF Alone
  <2>. QED BY <1>1, <2>1, RequestedBound
<1>3. Chosen(d, e).e = e
  BY <1>0, <1>1 DEF Holds, ResolutionsOn, Decides, Chosen
<1>4. StillServer /\ Steady
  <2>1. StillServer
    BY <1>0, <1>1, HistoryStays, GrowsStill
  <2>. QED BY <1>0, <1>1, <2>1, StillSteady DEF OldQueue
<1>5. CopiesHold' /\ CopyThere'
  BY <1>1, CopiesStay DEF ConflictRules, OldQueue
<1>6. NoteMarkers' /\ OneHolder' /\ Comparable'
  BY <1>1 DEF ConflictRules, NoteMarkers, OneHolder, Settled, Gone, Chosen, Comparable, Decides, Known
<1>7. NoteDecisions'
  <2>1. OldDecisions
    BY <1>1, <1>2, <1>3 DEF OldDecisions
  <2>. QED BY <1>0, <1>1, <1>4, <2>1, DecisionsStay DEF ConflictRules, Decides, Chosen
<1>8. DecisionsSettle'
  <2> SUFFICES ASSUME NEW op \in Requested', op.id \in Resolutions, op.e \in Notes
               PROVE  /\ Known(op) \/ ~Timely(op) \/ \E o \in Devices : Keeps(o, op)
                      /\ Known(op) => \A o \in Devices :
                           marker[o][op.e] # None /\ marker[o][op.e].copy = op.copy => Keeps(o, op)
    BY <1>1 DEF DecisionsSettle, Known, Timely, Keeps, Decides, Chosen, Revision
  <2>1. CASE op \in Requested
    BY <2>1 DEF ConflictRules, DecisionsSettle
  <2>2. CASE op = Chosen(d, e)
    <3>1. Keeps(d, op)
      BY <1>1, <1>3, <2>2 DEF Keeps
    <3>2. op.copy = marker[d][e].copy /\ op.e = e /\ marker[d][e] # None
      BY <1>1, <1>3, <2>2 DEF ConflictRules, NoteMarkers, Decides
    <3>. QED BY <3>1, <3>2 DEF ConflictRules, OneHolder
  <2>. QED BY <1>2, <2>1, <2>2
<1>9. RefusedLate'
  <2>1. \A o \in Devices : o # d => sync'[o] = sync[o]
    BY <1>1 DEF Alone
  <2>. QED BY <1>1, <2>1 DEF ConflictRules, RefusedLate, Known, Timely, Revision
<1>. QED BY <1>5, <1>6, <1>7, <1>8, <1>9 DEF ConflictRules

-----------------------------------------------------------------------------
(* Steps that decide. *)

\* A decision is made on a conflict that can be compared, and takes what
\* waits.
LEMMA PrepareKeepsConflicts ==
  ASSUME Inductive, TypeOK', QueueRules, ConflictRules, NEW d \in Devices, NEW r \in Resolutions,
         NEW keep \in BOOLEAN, Prepare(d, r, keep)
  PROVE  ConflictRules'
<1>0. TypeOK /\ Holds(d)
  BY Parts
<1> DEFINE p == preview[d]
           now == marker'[d][p.e].resolution.op
<1>1. /\ r \in fresh /\ Alone(d)
      /\ p # None /\ p \in Previews /\ preview'[d] = None
      /\ marker[d][p.e] = p.marker /\ Pending(outbox[d], p.e) = p.pending
      /\ \A n \in Entities \ {p.e} : marker'[d][n] = marker[d][n]
      /\ marker'[d][p.e] # None /\ marker'[d][p.e].resolution # None
      /\ marker'[d][p.e].copy = p.marker.copy
      /\ marker'[d][p.e].resolution.supersedes = p.pending
      /\ UNCHANGED <<history, copies, receipts, late, outbox, sync>>
  BY <1>0, PrepareEffect
<1>2. /\ ~marker'[d][p.e].resolution.stale
      /\ now \in Operations /\ now.id = r /\ now.e = p.e /\ now.base = p.base
      /\ now.copy = p.marker.copy /\ now.seenCopy = p.seenCopy
  <2>1. ~marker'[d][p.e].resolution.stale
    BY <1>0, PrepareEffect
  <2>2. now.id = r
    BY <1>0, PrepareEffect
  <2>3. now.e = p.e
    BY <1>0, PrepareEffect
  <2>4. now.base = p.base
    BY <1>0, PrepareEffect
  <2>5. now.copy = p.marker.copy
    BY <1>0, PrepareEffect
  <2>6. now.seenCopy = p.seenCopy
    BY <1>0, PrepareEffect
  <2>7. now \in Operations
    BY <1>0, PrepareEffect
  <2>. QED BY <2>1, <2>2, <2>3, <2>4, <2>5, <2>6, <2>7
<1>3. PICK e : e = p.e
  OBVIOUS
<1>4. /\ e \in Entities /\ marker[d][e] # None /\ Undecided(marker[d][e])
      /\ Pending(outbox[d], e) = p.pending
  BY <1>0, <1>1, <1>3, NoneAssumption DEF Previews, Holds, ResolutionsOn
<1>5. /\ marker'[d][e] # None /\ marker'[d][e].resolution # None
      /\ marker'[d][e].copy = marker[d][e].copy
      /\ marker'[d][e].resolution.supersedes = Pending(outbox[d], e)
      /\ marker'[d][e].resolution.op = now
      /\ \A n \in Entities \ {e} : marker'[d][n] = marker[d][n]
      /\ now.e = e /\ now.copy = marker[d][e].copy
  BY <1>1, <1>2, <1>3, <1>4
<1>6. \A o \in Devices : o # d => marker'[o] = marker[o] /\ preview'[o] = preview[o]
  BY <1>1 DEF Alone
<1> HIDE DEF now
<1>7. Requested' \subseteq Requested
  BY <1>1, NothingRequested
<1>8. StillServer /\ Steady
  <2>1. StillServer
    BY <1>0, <1>1, HistoryStays, GrowsStill
  <2>. QED BY <1>0, <1>1, <2>1, StillSteady DEF OldQueue
<1>9. CopiesHold' /\ CopyThere'
  BY <1>1, CopiesStay DEF ConflictRules, OldQueue
<1>10. NoteMarkers'
  <2> SUFFICES ASSUME NEW o \in Devices, NEW n \in Notes, marker'[o][n] # None
               PROVE  /\ Settled(n, marker[o][n].copy)'
                      /\ marker'[o][n].resolution # None =>
                           /\ marker'[o][n].resolution.op.copy = marker'[o][n].copy
                           /\ marker'[o][n].resolution.supersedes \subseteq Pending(outbox'[o], n)
    BY DEF NoteMarkers, Chosen
  <2>1. marker[o][n] # None /\ marker'[o][n].copy = marker[o][n].copy
    BY <1>4, <1>5, <1>6 DEF Notes
  <2>2. Settled(n, marker[o][n].copy)'
    BY <1>1, <2>1 DEF ConflictRules, NoteMarkers, Settled, Gone
  <2>3. CASE o = d /\ n = e
    BY <1>1, <1>5, <2>2, <2>3
  <2>4. CASE ~ (o = d /\ n = e)
    <3>1. marker'[o][n] = marker[o][n]
      BY <1>5, <1>6, <2>4 DEF Notes
    <3>. QED BY <1>1, <2>1, <2>2, <3>1 DEF ConflictRules, NoteMarkers, Chosen
  <2>. QED BY <2>3, <2>4
<1>11. OneHolder'
  <2>1. \A o \in Devices, n \in Notes : marker'[o][n] # None =>
          marker[o][n] # None /\ marker'[o][n].copy = marker[o][n].copy
    BY <1>4, <1>5, <1>6 DEF Notes
  <2>. QED BY <2>1 DEF ConflictRules, OneHolder
<1>12. NoteDecisions'
  <2>1. \A op \in Requested' : op.id \in Resolutions /\ op.e \in Notes => SeenBy(op)'
    BY <1>1, <1>7 DEF ConflictRules, NoteDecisions, SeenBy, Seen, Settled, Gone, Revision
  <2>2. ASSUME NEW o \in Devices, preview'[o] # None, preview'[o].e \in Notes PROVE Shown(preview[o])'
    <3>1. preview'[o] = preview[o]
      BY <1>1, <1>6, <2>2
    <3>. QED BY <1>1, <2>2, <3>1
             DEF ConflictRules, NoteDecisions, Shown, Seen, Settled, Gone, Revision
  <2>3. ASSUME NEW o \in Devices, NEW n \in Notes, Decides(o, n)'
        PROVE  SeenBy(Chosen(o, n))'
    <3>1. CASE o = d /\ n = e
      <4>1. Chosen(o, n)' = now
        BY <1>5, <3>1 DEF Chosen
      <4>2. Shown(p)
        BY <1>1, <1>3, <3>1 DEF ConflictRules, NoteDecisions
      <4>3. Seen(now.e, now.copy, now.base, now.seenCopy)
        BY <1>2, <4>2 DEF Shown
      <4>. QED BY <1>1, <4>1, <4>3 DEF SeenBy, Seen, Settled, Gone, Revision
    <3>2. CASE ~ (o = d /\ n = e)
      <4>1. marker'[o][n] = marker[o][n]
        BY <1>5, <1>6, <3>2 DEF Notes
      <4>2. Decides(o, n) /\ Chosen(o, n)' = Chosen(o, n)
        BY <2>3, <4>1 DEF Decides, Chosen
      <4>3. SeenBy(Chosen(o, n))
        BY <4>2 DEF ConflictRules, NoteDecisions
      <4>. QED BY <1>1, <4>2, <4>3 DEF SeenBy, Seen, Settled, Gone, Revision
    <3>. QED BY <3>1, <3>2
  <2>. QED BY <2>1, <2>2, <2>3 DEF NoteDecisions
<1>13. ASSUME NEW op \in Requested, op.id \in Resolutions, op.e \in Notes, NEW o \in Devices
       PROVE  Keeps(o, op) => Keeps(o, op)'
  <2>1. CASE o = d /\ op.e = e
    BY <1>4, <2>1 DEF Keeps, Decides, Undecided
  <2>2. CASE ~ (o = d /\ op.e = e)
    <3>1. marker'[o][op.e] = marker[o][op.e]
      BY <1>5, <1>6, <1>13, <2>2 DEF Notes
    <3>. QED BY <3>1 DEF Keeps, Decides, Chosen
  <2>. QED BY <2>1, <2>2
<1>14. DecisionsSettle'
  <2> SUFFICES ASSUME NEW op \in Requested, op.id \in Resolutions, op.e \in Notes
               PROVE  /\ Known(op) \/ ~Timely(op) \/ \E o \in Devices : Keeps(o, op)'
                      /\ Known(op) => \A o \in Devices :
                           marker'[o][op.e] # None /\ marker'[o][op.e].copy = op.copy => Keeps(o, op)'
    BY <1>1, <1>7 DEF DecisionsSettle, Known, Timely, Revision
  <2>1. \A o \in Devices : marker'[o][op.e] # None =>
          marker[o][op.e] # None /\ marker'[o][op.e].copy = marker[o][op.e].copy
    BY <1>4, <1>5, <1>6 DEF Notes
  <2>. QED BY <1>13, <2>1 DEF ConflictRules, DecisionsSettle
<1>15. RefusedLate'
  BY <1>1 DEF ConflictRules, RefusedLate, Known, Timely, Revision
<1>16. Comparable'
  <2> SUFFICES ASSUME NEW o \in Devices, NEW n \in Notes, marker'[o][n] # None
               PROVE  \/ \E c \in copies : c.id = marker'[o][n].copy
                      \/ Decides(o, n)' /\ ~marker'[o][n].resolution.stale /\ Known(Chosen(o, n))'
    BY <1>1 DEF Comparable
  <2>1. CASE o = d /\ n = e
    <3>1. ~ (Decides(d, e) /\ ~marker[d][e].resolution.stale)
      BY <1>4 DEF Decides, Undecided
    <3>. QED BY <1>4, <1>5, <2>1, <3>1 DEF ConflictRules, Comparable
  <2>2. CASE ~ (o = d /\ n = e)
    <3>1. marker'[o][n] = marker[o][n]
      BY <1>5, <1>6, <2>2 DEF Notes
    <3>. QED BY <1>1, <3>1 DEF ConflictRules, Comparable, Decides, Chosen, Known
  <2>. QED BY <2>1, <2>2
<1>. QED BY <1>9, <1>10, <1>11, <1>12, <1>14, <1>15, <1>16 DEF ConflictRules

\* A resolution that fails is called stale only when it has been refused, and
\* then it can never be applied.
LEMMA FailedKeepsConflicts ==
  ASSUME Inductive, TypeOK', QueueRules, ConflictRules, NEW d \in Devices, NEW code \in Errors,
         Failed(d, code), late' = late \/ late' = late \cup {sync[d].ops},
         code \in {"STALE", "CONFLICT"} => sync[d].stage = "refused"
  PROVE  ConflictRules'
<1>0. TypeOK /\ Holds(d)
  BY Parts
<1>1. /\ SameQueue(d) /\ Alone(d) /\ sync'[d] = Idle
      /\ UNCHANGED <<history, copies, receipts, preview>>
  BY <1>0, FailedEffect DEF Holds
<1>2. Idle.ops = {} /\ Idle.stage = "idle"
  BY DEF Idle, Request
<1>3. Requested' \subseteq Requested
  <2>1. \A o \in Devices : sync'[o].ops \subseteq sync[o].ops
    BY <1>1, <1>2 DEF Alone
  <2>. QED BY <1>1, <2>1, NothingRequested
<1>4. StillServer /\ \A o \in Devices : SameQueue(o)
  <2>1. StillServer
    BY <1>0, <1>1, HistoryStays, GrowsStill
  <2>. QED BY <1>1, <2>1 DEF Alone, SameQueue
<1>5. Steady
  BY <1>0, <1>4, StillSteady DEF OldQueue, SameQueue
<1>6. CopiesHold' /\ CopyThere'
  BY <1>1, <1>4, CopiesStay DEF ConflictRules, OldQueue, SameQueue
<1>7. \A o \in Devices : o # d => marker'[o] = marker[o] /\ sync'[o] = sync[o]
  BY <1>1 DEF Alone
<1>8. ASSUME NEW o \in Devices, NEW n \in Entities
      PROVE  \/ marker'[o][n] = marker[o][n]
             \/ /\ o = d /\ Resolving(d) /\ n = Resolution(d).e
                /\ Decides(d, n) /\ Decides(d, n)'
                /\ Chosen(d, n) = Resolution(d) /\ Chosen(d, n)' = Resolution(d)
                /\ marker'[d][n].copy = marker[d][n].copy
                /\ marker'[d][n].resolution.supersedes = marker[d][n].resolution.supersedes
                /\ marker'[d][n].resolution.stale = (code \in {"STALE", "CONFLICT"})
  <2>1. CASE o = d
    BY <1>0, <2>1, FailedEffect DEF Holds
  <2>. QED BY <1>7, <2>1
<1>9. \A o \in Devices, n \in Notes : OldMarker(o, n)
  BY <1>8 DEF OldMarker, Decides, Chosen, Notes
<1>10. \A o \in Devices, n \in Notes : StillWait(o, n)
  <2> SUFFICES ASSUME NEW o \in Devices, NEW n \in Notes, marker'[o][n] # None,
                      marker'[o][n].resolution # None
               PROVE  marker'[o][n].resolution.supersedes \subseteq Pending(outbox'[o], n)
    BY DEF StillWait
  <2>1. marker[o][n].resolution.supersedes \subseteq Pending(outbox[o], n)
    BY <1>9 DEF ConflictRules, NoteMarkers, OldMarker
  <2>. QED BY <1>4, <1>9, <2>1, SamePending DEF OldMarker
<1>11. NoteMarkers' /\ OneHolder'
  BY <1>5, <1>9, <1>10, MarkersStay DEF ConflictRules
<1>12. NoteDecisions'
  <2>1. OldDecisions
    BY <1>3 DEF OldDecisions
  <2>. QED BY <1>0, <1>1, <1>5, <1>9, <2>1, DecisionsStay DEF ConflictRules, OldMarker, Decides, Chosen
<1>13. Resolving(d) /\ Resolution(d).e \in Notes /\ code \in {"STALE", "CONFLICT"} =>
         /\ Resolution(d) \in Requested
         /\ ~Known(Resolution(d)) /\ ~Timely(Resolution(d))
  <2> SUFFICES ASSUME Resolving(d), Resolution(d).e \in Notes, code \in {"STALE", "CONFLICT"}
               PROVE  /\ Resolution(d) \in Requested
                      /\ ~Known(Resolution(d)) /\ ~Timely(Resolution(d))
    OBVIOUS
  <2>1. Resolution(d) \in sync[d].ops /\ Resolution(d).id \in Resolutions
    BY DEF Resolving, Resolution
  <2>. QED BY <2>1 DEF ConflictRules, RefusedLate, Requested
<1>14. ASSUME NEW op \in Requested, op.e \in Notes, NEW o \in Devices, Keeps(o, op)
       PROVE  Keeps(o, op)' \/ (~Known(op) /\ ~Timely(op))
  <2>0. op.e \in Entities
    BY <1>14 DEF Notes
  <2>1. CASE marker'[o][op.e] = marker[o][op.e]
    BY <1>14, <2>1 DEF Keeps, Decides, Chosen
  <2>2. CASE /\ o = d /\ Resolving(d) /\ op.e = Resolution(d).e
             /\ Decides(d, op.e)'
             /\ Chosen(d, op.e) = Resolution(d) /\ Chosen(d, op.e)' = Resolution(d)
             /\ marker'[d][op.e].resolution.stale = (code \in {"STALE", "CONFLICT"})
    <3>1. op = Resolution(d)
      BY <1>14, <2>2 DEF Keeps
    <3>. QED BY <1>13, <1>14, <2>2, <3>1 DEF Keeps
  <2>. QED BY <1>8, <2>0, <2>1, <2>2
<1>15. DecisionsSettle'
  <2> SUFFICES ASSUME NEW op \in Requested, op.id \in Resolutions, op.e \in Notes
               PROVE  /\ Known(op) \/ ~Timely(op) \/ \E o \in Devices : Keeps(o, op)'
                      /\ Known(op) => \A o \in Devices :
                           marker'[o][op.e] # None /\ marker'[o][op.e].copy = op.copy => Keeps(o, op)'
    BY <1>1, <1>3 DEF DecisionsSettle, Known, Timely, Revision
  <2>1. \A o \in Devices : marker'[o][op.e] # None =>
          marker[o][op.e] # None /\ marker'[o][op.e].copy = marker[o][op.e].copy
    BY <1>9 DEF OldMarker
  <2>. QED BY <1>14, <2>1 DEF ConflictRules, DecisionsSettle
<1>16. RefusedLate'
  BY <1>1, <1>2, <1>7 DEF ConflictRules, RefusedLate, Known, Timely, Revision
<1>17. Comparable'
  <2> SUFFICES ASSUME NEW o \in Devices, NEW n \in Notes, marker'[o][n] # None
               PROVE  \/ \E c \in copies : c.id = marker'[o][n].copy
                      \/ Decides(o, n)' /\ ~marker'[o][n].resolution.stale /\ Known(Chosen(o, n))'
    BY <1>1 DEF Comparable
  <2>1. CASE marker'[o][n] = marker[o][n]
    BY <1>1, <2>1 DEF ConflictRules, Comparable, Decides, Chosen, Known
  <2>2. CASE /\ o = d /\ Resolving(d) /\ n = Resolution(d).e
             /\ Decides(d, n) /\ Decides(d, n)'
             /\ Chosen(d, n) = Resolution(d) /\ Chosen(d, n)' = Resolution(d)
             /\ marker'[d][n].copy = marker[d][n].copy
             /\ marker'[d][n].resolution.stale = (code \in {"STALE", "CONFLICT"})
    <3>1. CASE code \in {"STALE", "CONFLICT"}
      <4>1. ~Known(Chosen(d, n))
        BY <1>13, <2>2, <3>1
      <4>. QED BY <2>2, <4>1 DEF ConflictRules, Comparable, Decides
    <3>2. CASE code \notin {"STALE", "CONFLICT"}
      <4>1. Known(Chosen(d, n)) => Known(Chosen(d, n))'
        BY <1>1, <2>2 DEF Known
      <4>. QED BY <2>2, <3>2, <4>1 DEF ConflictRules, Comparable, Decides
    <3>. QED BY <3>1, <3>2
  <2>. QED BY <1>8, <2>1, <2>2 DEF Notes
<1>. QED BY <1>6, <1>11, <1>12, <1>15, <1>16, <1>17 DEF ConflictRules

-----------------------------------------------------------------------------
(* Steps that end a request. *)

\* A device learns of a conflict by the answer to its edit: the copy is there,
\* and nobody else has the conflict.
LEMMA AcknowledgeKeepsConflicts ==
  ASSUME Inductive, TypeOK', QueueRules, ConflictRules, NEW d \in Devices, Acknowledge(d)
  PROVE  ConflictRules'
<1> DEFINE done == {op.id : op \in sync[d].ops}
           lost == {a.op : a \in {b \in sync[d].answers : b.copied}}
<1>0. TypeOK /\ Shared /\ Holds(d)
  BY Parts
<1>1. /\ Alone(d) /\ sync[d].stage = "read" /\ ~Resolving(d) /\ sync'[d] = Idle
      /\ UNCHANGED <<history, copies, receipts, late, preview>>
      /\ \A x \in Edits :
           /\ outbox'[d][x] # None <=> outbox[d][x] # None /\ x \notin done
           /\ outbox'[d][x] # None => outbox'[d][x].op = outbox[d][x].op
  BY <1>0, AcknowledgeEffect DEF Holds
<1>2. \A n \in Entities :
        \/ marker'[d][n] = marker[d][n]
        \/ \E op \in lost : /\ op.e = n /\ marker'[d][n] # None /\ marker'[d][n].copy = op.id
                            /\ marker'[d][n].resolution = None
  BY <1>0, AcknowledgeEffect DEF Holds
<1>3. \A op \in sync[d].ops : op \in Requested /\ op.id \in Edits /\ outbox[d][op.id] # None
                              /\ outbox[d][op.id].op = op
  <2>1. \A op \in sync[d].ops : op.id \in Edits \cup Resolutions /\ op.id \notin Resolutions
    BY <1>0, <1>1, Typed DEF Syncs, Operations, Resolving
  <2>. QED BY <1>0, <1>1, <2>1 DEF Requested, Holds, RequestOn, OperationsOn
<1>4. \A op \in lost : op \in sync[d].ops /\ receipts[op.id] # None /\ receipts[op.id].copied
                       /\ receipts[op.id].op = op
  <2> SUFFICES ASSUME NEW a \in sync[d].answers, a.copied
               PROVE  /\ a.op \in sync[d].ops /\ receipts[a.op.id] # None
                      /\ receipts[a.op.id].copied /\ receipts[a.op.id].op = a.op
    OBVIOUS
  <2>1. a.op \in sync[d].ops /\ a = receipts[a.op.id]
    BY <1>0, <1>1, LostRequested
  <2>. QED BY <1>0, <2>1, Typed, NoneAssumption DEF Syncs
<1>5. \A o \in Devices : o # d =>
        outbox'[o] = outbox[o] /\ marker'[o] = marker[o] /\ sync'[o] = sync[o]
  BY <1>1 DEF Alone
<1>6. Idle.ops = {} /\ Idle.stage = "idle"
  BY DEF Idle, Request
<1> HIDE DEF lost
<1>7. Requested' \subseteq Requested
  <2>1. \A o \in Devices : sync'[o].ops \subseteq sync[o].ops
    BY <1>1, <1>5, <1>6
  <2>. QED BY <1>1, <2>1, NothingRequested
<1>8. \A o \in Devices : OldQueue(o)
  BY <1>1, <1>5 DEF OldQueue
<1>9. StillServer /\ Steady
  <2>1. StillServer
    BY <1>0, <1>1, HistoryStays, GrowsStill
  <2>. QED BY <1>0, <1>8, <2>1, StillSteady
<1>10. CopiesHold' /\ CopyThere'
  BY <1>1, <1>8, CopiesStay DEF ConflictRules
\* A conflict is new, or as it was.
<1>11. ASSUME NEW o \in Devices, NEW n \in Notes, marker'[o][n] # marker[o][n]
       PROVE  /\ o = d /\ marker[d][n] = None
              /\ \E op \in lost : /\ op.e = n /\ marker'[d][n] # None /\ marker'[d][n].copy = op.id
                                  /\ marker'[d][n].resolution = None
  <2>1. o = d
    BY <1>5, <1>11
  <2>2. PICK op \in lost : /\ op.e = n /\ marker'[d][n] # None /\ marker'[d][n].copy = op.id
                           /\ marker'[d][n].resolution = None
    BY <1>2, <1>11, <2>1 DEF Notes
  <2>3. marker[d][n] = None
    BY <1>3, <1>4, <2>2 DEF QueueRules, OnlyFirstRequested
  <2>. QED BY <2>1, <2>2, <2>3
<1>12. ASSUME NEW op \in lost
       PROVE  /\ Settled(op.e, op.id)' /\ ~Gone(op.id)
  <2>1. Gone(op.id)'
    BY <1>0, <1>1, <1>3, <1>4, <1>5 DEF Gone, Shared
  <2>. QED BY <1>1, <1>3, <1>4, <2>1 DEF Settled, Gone
<1>13. NoteMarkers'
  <2> SUFFICES ASSUME NEW o \in Devices, NEW n \in Notes, marker'[o][n] # None
               PROVE  /\ Settled(n, marker[o][n].copy)'
                      /\ marker'[o][n].resolution # None =>
                           /\ marker'[o][n].resolution.op.copy = marker'[o][n].copy
                           /\ marker'[o][n].resolution.supersedes \subseteq Pending(outbox'[o], n)
    BY DEF NoteMarkers, Chosen
  <2>1. CASE marker'[o][n] # marker[o][n]
    <3>1. PICK op \in lost : /\ op.e = n /\ marker'[o][n].copy = op.id
                             /\ marker'[o][n].resolution = None
      BY <1>11, <2>1
    <3>2. Settled(n, op.id)'
      BY <1>12, <3>1
    <3>. QED BY <3>1, <3>2 DEF Settled
  <2>2. CASE marker'[o][n] = marker[o][n]
    <3>1. PICK x : x = marker[o][n].copy
      OBVIOUS
    <3>2. Settled(n, x)'
      BY <1>9, <2>2, <3>1, SettledStays DEF ConflictRules, NoteMarkers
    <3>3. Settled(n, marker[o][n].copy)'
      BY <2>2, <3>1, <3>2 DEF Settled
    <3>4. ASSUME marker[o][n].resolution # None,
                 NEW y \in marker[o][n].resolution.supersedes
          PROVE  y \in Pending(outbox'[o], n)
      <4>1. y \in Pending(outbox[o], n)
        BY <2>2, <3>4 DEF ConflictRules, NoteMarkers
      <4>2. y \in Edits /\ outbox[o][y] # None /\ outbox[o][y].op.e = n
        BY <4>1 DEF Pending
      <4>3. CASE o = d
        <5>1. y \notin done
          BY <1>3, <2>2, <4>2, <4>3 DEF QueueRules, OnlyFirstRequested
        <5>. QED BY <1>1, <4>2, <4>3, <5>1 DEF Pending
      <4>4. CASE o # d
        BY <1>5, <4>1, <4>4
      <4>. QED BY <4>3, <4>4
    <3>. QED BY <2>2, <3>3, <3>4 DEF ConflictRules, NoteMarkers, Chosen
  <2>. QED BY <2>1, <2>2
<1>14. OneHolder'
  <2> SUFFICES ASSUME NEW o \in Devices, NEW u \in Devices, NEW n \in Notes,
                      marker'[o][n] # None, marker'[u][n] # None,
                      marker'[o][n].copy = marker'[u][n].copy, o # u
               PROVE  FALSE
    BY DEF OneHolder
  <2>1. ASSUME NEW v \in Devices, NEW w \in Devices, marker'[v][n] # marker[v][n], v # w,
               marker'[w][n] # None, marker'[w][n].copy = marker'[v][n].copy
        PROVE  FALSE
    <3>1. PICK op \in lost : op.e = n /\ marker'[v][n].copy = op.id
      BY <1>11, <2>1
    <3>2. marker'[w][n] = marker[w][n]
      BY <1>11, <2>1
    <3>3. Gone(op.id)
      BY <2>1, <3>1, <3>2 DEF ConflictRules, NoteMarkers, Settled
    <3>. QED BY <1>12, <3>3
  <2>2. marker'[o][n] = marker[o][n] /\ marker'[u][n] = marker[u][n]
    BY <2>1
  <2>. QED BY <2>2 DEF ConflictRules, OneHolder
<1>15. NoteDecisions'
  <2>1. OldDecisions
    BY <1>7 DEF OldDecisions
  <2>2. \A o \in Devices, n \in Notes :
          Decides(o, n)' => Decides(o, n) /\ Chosen(o, n)' = Chosen(o, n)
    BY <1>11 DEF Decides, Chosen
  <2>. QED BY <1>0, <1>1, <1>9, <2>1, <2>2, DecisionsStay DEF ConflictRules
<1>16. DecisionsSettle'
  <2> SUFFICES ASSUME NEW op \in Requested, op.id \in Resolutions, op.e \in Notes
               PROVE  /\ Known(op) \/ ~Timely(op) \/ \E o \in Devices : Keeps(o, op)'
                      /\ Known(op) => \A o \in Devices :
                           marker'[o][op.e] # None /\ marker'[o][op.e].copy = op.copy => Keeps(o, op)'
    BY <1>1, <1>7 DEF DecisionsSettle, Known, Timely, Revision
  <2>1. \A o \in Devices : Keeps(o, op) => Keeps(o, op)'
    BY <1>11 DEF Keeps, Decides, Chosen
  <2>2. \A o \in Devices : marker'[o][op.e] # marker[o][op.e] => marker'[o][op.e].copy # op.copy
    BY <1>11, <1>12 DEF ConflictRules, NoteDecisions, SeenBy, Seen, Settled
  <2>. QED BY <2>1, <2>2 DEF ConflictRules, DecisionsSettle
<1>17. RefusedLate'
  BY <1>1, <1>5, <1>6 DEF ConflictRules, RefusedLate, Known, Timely, Revision
<1>18. Comparable'
  <2> SUFFICES ASSUME NEW o \in Devices, NEW n \in Notes, marker'[o][n] # None
               PROVE  \/ \E c \in copies : c.id = marker'[o][n].copy
                      \/ Decides(o, n)' /\ ~marker'[o][n].resolution.stale /\ Known(Chosen(o, n))'
    BY <1>1 DEF Comparable
  <2>1. CASE marker'[o][n] # marker[o][n]
    <3>1. PICK op \in lost : op.e = n /\ marker'[o][n].copy = op.id
      BY <1>11, <2>1
    <3>. QED BY <1>3, <1>4, <3>1 DEF ConflictRules, CopyThere
  <2>2. CASE marker'[o][n] = marker[o][n]
    BY <1>1, <2>2 DEF ConflictRules, Comparable, Decides, Chosen, Known
  <2>. QED BY <2>1, <2>2
<1>. QED BY <1>10, <1>13, <1>14, <1>15, <1>16, <1>17, <1>18 DEF ConflictRules

\* A device ends a conflict once its decision is known.
LEMMA FinishResolutionKeepsConflicts ==
  ASSUME Inductive, TypeOK', QueueRules, ConflictRules, NEW d \in Devices, FinishResolution(d)
  PROVE  ConflictRules'
<1> DEFINE e == Resolution(d).e
           gone == marker[d][e].resolution.supersedes
           newer == Pending(outbox[d], e) \ gone
<1>0. TypeOK /\ Shared /\ Holds(d) /\ OperationsOn(d) /\ ResolutionsOn(d) /\ RequestOn(d)
  BY Parts DEF Holds
<1>1. /\ Alone(d) /\ sync[d].stage = "read" /\ sync'[d] = Idle /\ e \in Entities
      /\ Resolution(d) \in sync[d].ops /\ Decides(d, e) /\ Chosen(d, e) = Resolution(d)
      /\ marker'[d][e] = None
      /\ UNCHANGED <<history, copies, receipts, late, preview>>
      /\ \A n \in Entities \ {e} : marker'[d][n] = marker[d][n]
  BY <1>0, FinishResolutionEffect
<1>2. \A x \in Edits :
        /\ x \in gone => outbox'[d][x] = None
        /\ x \notin gone =>
             /\ x \notin newer => outbox'[d][x] = outbox[d][x]
             /\ outbox'[d][x] # None <=> outbox[d][x] # None
  BY <1>0, FinishResolutionEffect
<1>3. \A x \in newer : outbox'[d][x] # None /\ outbox'[d][x].op.e = e
  BY <1>0, FinishResolutionEffect
<1>4. Idle.ops = {} /\ Idle.stage = "idle"
  BY DEF Idle, Request
<1>5. \A o \in Devices : o # d =>
        sync'[o] = sync[o] /\ outbox'[o] = outbox[o] /\ marker'[o] = marker[o]
  BY <1>1 DEF Alone
<1>6. \A x \in Edits : x \in gone /\ outbox[d][x] # None => outbox[d][x].op.e = e
  BY <1>0, <1>1 DEF ResolutionsOn, Decides
<1>7. e = Resolution(d).e /\ \A x \in newer : x \in Pending(outbox[d], e)
  OBVIOUS
<1>8. ASSUME NEW x \in Edits, outbox[d][x] # None, outbox[d][x].op.e # e
      PROVE  outbox'[d][x] = outbox[d][x]
  <2>1. x \notin gone /\ x \notin newer
    BY <1>6, <1>8 DEF Pending
  <2>. QED BY <1>2, <2>1
<1>9. \A o \in Devices : OldQueue(o)
  <2>1. ASSUME NEW x \in Edits, outbox'[d][x] # None
        PROVE  outbox[d][x] # None /\ outbox'[d][x].op.e = outbox[d][x].op.e
    <3>1. CASE x \in newer
      BY <1>3, <1>7, <3>1 DEF Pending
    <3>2. CASE x \notin newer
      BY <1>2, <2>1, <3>2
    <3>. QED BY <3>1, <3>2
  <2>. QED BY <1>5, <2>1 DEF OldQueue
<1> HIDE DEF e, gone, newer
<1>10. Requested' \subseteq Requested
  <2>1. \A o \in Devices : sync'[o].ops \subseteq sync[o].ops
    BY <1>1, <1>4, <1>5
  <2>. QED BY <1>1, <2>1, NothingRequested
<1>11. StillServer /\ Steady
  <2>1. StillServer
    BY <1>0, <1>1, HistoryStays, GrowsStill
  <2>. QED BY <1>0, <1>9, <2>1, StillSteady
<1>12. CopiesHold' /\ CopyThere'
  BY <1>1, <1>9, CopiesStay DEF ConflictRules
\* Only the conflict of the decision ends.
<1>13. \A o \in Devices, n \in Notes :
         IF o = d /\ n = e THEN marker'[o][n] = None ELSE marker'[o][n] = marker[o][n]
  BY <1>1, <1>5 DEF Notes
<1>14. \A o \in Devices, n \in Notes : OldMarker(o, n)
  BY <1>13 DEF OldMarker
<1>15. \A o \in Devices, n \in Notes : StillWait(o, n)
  <2> SUFFICES ASSUME NEW o \in Devices, NEW n \in Notes, marker'[o][n] # None,
                      marker'[o][n].resolution # None, NEW x \in marker'[o][n].resolution.supersedes
               PROVE  x \in Pending(outbox'[o], n)
    BY DEF StillWait
  <2>1. marker'[o][n] = marker[o][n] /\ ~(o = d /\ n = e)
    BY <1>13
  <2>2. x \in Pending(outbox[o], n)
    BY <2>1 DEF ConflictRules, NoteMarkers
  <2>3. outbox'[o][x] = outbox[o][x]
    BY <1>5, <1>8, <2>1, <2>2 DEF Pending
  <2>. QED BY <2>2, <2>3 DEF Pending
<1>16. NoteMarkers' /\ OneHolder'
  BY <1>11, <1>14, <1>15, MarkersStay DEF ConflictRules
<1>17. NoteDecisions'
  <2>1. OldDecisions
    BY <1>10 DEF OldDecisions
  <2>2. \A o \in Devices, n \in Notes :
          Decides(o, n)' => Decides(o, n) /\ Chosen(o, n)' = Chosen(o, n)
    BY <1>13 DEF Decides, Chosen
  <2>. QED BY <1>0, <1>1, <1>11, <2>1, <2>2, DecisionsStay DEF ConflictRules
<1>18. DecisionsSettle'
  <2> SUFFICES ASSUME NEW op \in Requested, op.id \in Resolutions, op.e \in Notes
               PROVE  /\ Known(op) \/ ~Timely(op) \/ \E o \in Devices : Keeps(o, op)'
                      /\ Known(op) => \A o \in Devices :
                           marker'[o][op.e] # None /\ marker'[o][op.e].copy = op.copy => Keeps(o, op)'
    BY <1>1, <1>10 DEF DecisionsSettle, Known, Timely, Revision
  <2>1. ASSUME NEW o \in Devices, Keeps(o, op) PROVE Keeps(o, op)' \/ Known(op)
    <3>1. CASE o = d /\ op.e = e
      <4>1. op \in sync[d].ops
        BY <1>1, <2>1, <3>1 DEF Keeps
      <4>. QED BY <1>1, <4>1 DEF QueueRules, AnswersHold
    <3>2. CASE marker'[o][op.e] = marker[o][op.e]
      BY <2>1, <3>2 DEF Keeps, Decides, Chosen
    <3>. QED BY <1>13, <3>1, <3>2
  <2>2. \A o \in Devices : marker'[o][op.e] # None => marker'[o][op.e] = marker[o][op.e]
    BY <1>13
  <2>. QED BY <2>1, <2>2 DEF ConflictRules, DecisionsSettle, Keeps, Decides, Chosen
<1>19. RefusedLate'
  BY <1>1, <1>4, <1>5 DEF ConflictRules, RefusedLate, Known, Timely, Revision
<1>20. Comparable'
  BY <1>1, <1>13 DEF ConflictRules, Comparable, Decides, Chosen, Known
<1>. QED BY <1>12, <1>16, <1>17, <1>18, <1>19, <1>20 DEF ConflictRules

-----------------------------------------------------------------------------
(* Steps of the server. *)

LEMMA AppliedSteady ==
  ASSUME TypeOK, Shared, RequestsAgree, NEW ops, ops \subseteq Requested, ops \subseteq Operations,
         Apply(ops), UNCHANGED outbox
  PROVE  Steady
<1>1. /\ Grows
      /\ \A i \in Edits \cup Resolutions : receipts[i] # None => receipts'[i] = receipts[i]
      /\ copies' = {c \in copies : \A op \in ops : Known(op) \/ c.id # op.copy}
           \cup {[id |-> op.id, e |-> op.e, content |-> op.content, rev |-> 1] :
                   op \in {o \in ops : Conflicts(o)}}
  BY ApplyEffect
<1>2. \A e \in Entities : Revision(e) <= Revision(e)'
  BY <1>1 DEF Grows, Revision
<1>3. \A c \in copies : c.rev <= c.rev
  BY DEF TypeOK, Copies
<1>4. \A op \in ops : Conflicts(op) => op.id \in Edits /\ receipts[op.id] = None
  BY DEF Conflicts, Known, Operations
<1>5. ASSUME NEW c \in copies'
      PROVE  \/ \E b \in copies : b.id = c.id /\ b.e = c.e /\ b.rev <= c.rev
             \/ c.id \in Edits /\ receipts[c.id] = None
  BY <1>1, <1>3, <1>4
<1>6. \A x \in Edits : receipts[x] # None /\ Gone(x) => Gone(x)'
  BY DEF Gone
<1>. QED BY <1>1, <1>2, <1>5, <1>6 DEF Steady

\* A request that is applied: a decision in it was timely, so its device
\* keeps it, and the copy that goes is the one whose conflict it decides.
LEMMA AppliedKeepsConflicts ==
  ASSUME Inductive, TypeOK', QueueRules, ConflictRules,
         NEW ops, ops \subseteq Requested, ops \subseteq Operations, Refusal(ops) = None, Apply(ops),
         UNCHANGED <<outbox, marker, preview>>, \A s \in late' : s \in late,
         \A d \in Devices :
           /\ sync'[d].ops = sync[d].ops
           /\ sync'[d] = sync[d] \/ sync'[d].stage # "refused"
  PROVE  ConflictRules'
<1> DEFINE Copy(op) == [id |-> op.id, e |-> op.e, content |-> op.content, rev |-> 1]
<1>0. TypeOK /\ Shared /\ \A d \in Devices : OperationsOn(d)
  BY Parts DEF Holds
<1>1. /\ Grows
      /\ \A op \in ops : receipts'[op.id] = Answered(op) /\ receipts'[op.id] # None
                         /\ receipts'[op.id].op = op
      /\ \A i \in Edits \cup Resolutions :
           /\ receipts[i] # None => receipts'[i] = receipts[i]
           /\ receipts'[i] # None => receipts[i] # None \/ \E op \in ops : op.id = i
      /\ copies' = {c \in copies : \A op \in ops : Known(op) \/ c.id # op.copy}
           \cup {Copy(op) : op \in {o \in ops : Conflicts(o)}}
  BY <1>0, ApplyEffect DEF QueueRules
<1>2. \A op \in ops : op.id \in Edits \cup Resolutions /\ op.e \in Entities
  BY DEF Operations
<1>3. ASSUME NEW op \in ops, ~Known(op), op.id \in Resolutions
      PROVE  Timely(op) /\ \E c \in copies : c.id = op.copy /\ c.e = op.e
  BY <1>3, NoneAssumption DEF Refusal, Refusals, Timely, Compared
<1>4. ASSUME NEW op \in ops, Conflicts(op)
      PROVE  /\ op.id \in Edits /\ receipts[op.id] = None
             /\ receipts'[op.id] # None /\ receipts'[op.id].copied /\ receipts'[op.id].op = op
  <2>1. ~Known(op) /\ op.id \in Edits
    BY <1>2, <1>4 DEF Conflicts
  <2>2. Answered(op).copied
    BY <1>4, <2>1 DEF Answered
  <2>. QED BY <1>1, <2>1, <2>2 DEF Known
<1>5. ASSUME NEW c \in copies' PROVE c \in copies \/ \E op \in ops : Conflicts(op) /\ c = Copy(op)
  BY <1>1, <1>5
<1>6. \A op : Copy(op).id = op.id /\ Copy(op).e = op.e
  OBVIOUS
<1>7. \A op \in ops : Conflicts(op) => Copy(op) \in copies'
  BY <1>1
\* A copy goes by a timely decision about it.
<1>8. ASSUME NEW c \in copies, c \notin copies'
      PROVE  \E op \in ops : /\ ~Known(op) /\ op.id \in Resolutions /\ Timely(op)
                             /\ op.copy = c.id /\ op.e = c.e
  <2>1. PICK op \in ops : ~Known(op) /\ c.id = op.copy
    BY <1>1, <1>8
  <2>2. c.id # None
    BY <1>0, OfflineAssumption DEF TypeOK, Copies
  <2>3. op.id \notin Edits
    BY <2>1, <2>2 DEF QueueRules, EditsPlain, Plain
  <2>4. op.id \in Resolutions
    BY <1>2, <2>3
  <2>5. Timely(op) /\ \E b \in copies : b.id = op.copy /\ b.e = op.e
    BY <1>3, <2>1, <2>4
  <2>6. op.e = c.e
    BY <2>1, <2>5 DEF ConflictRules, CopiesHold
  <2>. QED BY <2>1, <2>4, <2>5, <2>6
<1> HIDE DEF Copy
<1>9. Steady
  BY <1>0, AppliedSteady DEF QueueRules
<1>10. CopiesHold'
  <2>1. ASSUME NEW c \in copies
        PROVE  /\ receipts[c.id] # None /\ receipts'[c.id] # None
               /\ receipts'[c.id].copied /\ receipts'[c.id].op.e = c.e
    <3>1. c.id \in Edits
      BY <1>0 DEF TypeOK, Copies
    <3>. QED BY <1>1, <3>1 DEF ConflictRules, CopiesHold
  <2>2. ASSUME NEW c \in copies'
        PROVE  receipts'[c.id] # None /\ receipts'[c.id].copied /\ receipts'[c.id].op.e = c.e
    BY <1>4, <1>5, <1>6, <2>1
  <2>3. ASSUME NEW c \in copies', NEW o \in copies', o.id = c.id PROVE o = c
    <3>1. CASE c \in copies /\ o \in copies
      BY <2>3, <3>1 DEF ConflictRules, CopiesHold
    <3>2. ASSUME NEW op \in ops, Conflicts(op), c = Copy(op) PROVE o = c
      <4>1. o \notin copies
        BY <1>4, <1>6, <2>1, <2>3, <3>2
      <4>2. PICK u \in ops : Conflicts(u) /\ o = Copy(u)
        BY <1>5, <4>1
      <4>3. u = op
        BY <1>6, <2>3, <3>2, <4>2 DEF QueueRules, RequestsAgree
      <4>. QED BY <3>2, <4>2, <4>3
    <3>3. ASSUME NEW op \in ops, Conflicts(op), o = Copy(op), c \in copies PROVE o = c
      BY <1>4, <1>6, <2>1, <2>3, <3>3
    <3>. QED BY <1>5, <3>1, <3>2, <3>3
  <2>. QED BY <2>2, <2>3 DEF CopiesHold
<1>11. CopyThere'
  <2> SUFFICES ASSUME NEW d \in Devices, NEW x \in Edits, outbox[d][x] # None,
                      outbox[d][x].op.e \in Notes, receipts'[x] # None, receipts'[x].copied
               PROVE  \E c \in copies' : c.id = x
    BY DEF CopyThere
  <2>1. CASE receipts[x] = None
    <3>1. PICK op \in ops : op.id = x
      BY <1>1, <2>1
    <3>2. ~Known(op) /\ receipts'[x] = Answered(op)
      BY <1>1, <2>1, <3>1 DEF Known
    <3>3. Conflicts(op)
      BY <3>2 DEF Answered
    <3>. QED BY <1>6, <1>7, <3>1, <3>3
  <2>2. CASE receipts[x] # None
    <3>1. receipts'[x] = receipts[x]
      BY <1>1, <2>2
    <3>2. PICK c \in copies : c.id = x
      BY <2>2, <3>1 DEF ConflictRules, CopyThere
    <3>3. receipts[x].op = outbox[d][x].op
      <4>1. x \in DOMAIN receipts
        BY <1>0 DEF TypeOK
      <4>2. receipts[x].op.id = x /\ receipts[x].op \in Requested
        BY <2>2, <4>1, <1>0 DEF Shared, Requested
      <4>. QED BY <1>0, <4>2 DEF OperationsOn
    <3>4. c.e \in Notes
      BY <3>2, <3>3 DEF ConflictRules, CopiesHold
    <3>5. ASSUME c \notin copies' PROVE FALSE
      <4>1. PICK op \in ops : op.id \in Resolutions /\ op.copy = x /\ op.e = c.e
        BY <1>8, <3>2, <3>5
      <4>2. Gone(x)
        BY <3>4, <4>1 DEF ConflictRules, NoteDecisions, SeenBy, Seen, Settled
      <4>. QED BY <4>2 DEF Gone
    <3>. QED BY <3>2, <3>5
  <2>. QED BY <2>1, <2>2
<1>12. NoteMarkers' /\ OneHolder'
  <2>1. \A d \in Devices, e \in Notes : OldMarker(d, e)
    BY DEF OldMarker
  <2>2. \A d \in Devices, e \in Notes : StillWait(d, e)
    BY DEF StillWait, ConflictRules, NoteMarkers
  <2>. QED BY <1>9, <2>1, <2>2, MarkersStay DEF ConflictRules
<1>13. Requested' \subseteq Requested
  BY <1>0, AppliedRequests
<1>14. NoteDecisions'
  <2>1. OldDecisions
    BY <1>13 DEF OldDecisions
  <2>2. \A d \in Devices, e \in Notes :
          Decides(d, e)' => Decides(d, e) /\ Chosen(d, e)' = Chosen(d, e)
    BY DEF Decides, Chosen
  <2>. QED BY <1>0, <1>9, <2>1, <2>2, DecisionsStay DEF ConflictRules
\* A decision that is answered now was timely, and its device keeps it.
<1>15. ASSUME NEW op \in Requested, op.id \in Resolutions, Known(op)', ~Known(op)
       PROVE  op \in ops /\ Timely(op)
  <2>1. op.id \in Edits \cup Resolutions /\ receipts[op.id] = None /\ receipts'[op.id] # None
    BY <1>15 DEF Known
  <2>2. PICK o \in ops : o.id = op.id
    BY <1>1, <2>1
  <2>3. o = op
    BY <2>2 DEF QueueRules, RequestsAgree
  <2>. QED BY <1>3, <1>15, <2>3
<1>16. ASSUME NEW op \in Requested, op.id \in Resolutions, op.e \in Notes, ~Known(op), Timely(op),
              NEW d \in Devices, marker[d][op.e] # None, marker[d][op.e].copy = op.copy
       PROVE  Keeps(d, op)
  <2>1. PICK o \in Devices : Keeps(o, op)
    BY <1>16 DEF ConflictRules, DecisionsSettle
  <2>2. marker[o][op.e] # None /\ marker[o][op.e].copy = op.copy
    BY <1>16, <2>1 DEF ConflictRules, NoteMarkers, Keeps, Decides
  <2>3. o = d
    BY <1>16, <2>2 DEF ConflictRules, OneHolder
  <2>. QED BY <2>1, <2>3
<1>17. DecisionsSettle'
  <2> SUFFICES ASSUME NEW op \in Requested, op.id \in Resolutions, op.e \in Notes
               PROVE  /\ Known(op)' \/ ~(Timely(op)') \/ \E d \in Devices : Keeps(d, op)'
                      /\ Known(op)' => \A d \in Devices :
                           marker'[d][op.e] # None /\ marker'[d][op.e].copy = op.copy => Keeps(d, op)'
    BY <1>13 DEF DecisionsSettle
  <2>1. CASE Known(op)' => Known(op)
    BY <1>0, <1>9, <2>1, SettleStays DEF ConflictRules
  <2>2. CASE Known(op)' /\ ~Known(op)
    <3>1. Timely(op)
      BY <1>15, <2>2
    <3>2. ASSUME NEW d \in Devices, marker[d][op.e] # None, marker[d][op.e].copy = op.copy
          PROVE  Keeps(d, op)'
      <4>1. Keeps(d, op)
        BY <1>16, <2>2, <3>1, <3>2
      <4>. QED BY <4>1 DEF Keeps, Decides, Chosen
    <3>. QED BY <2>2, <3>2
  <2>. QED BY <2>1, <2>2
<1>18. RefusedLate'
  BY <1>0, <1>9, <1>15, RefusedStays DEF ConflictRules
<1>19. Comparable'
  <2> SUFFICES ASSUME NEW d \in Devices, NEW e \in Notes, marker[d][e] # None
               PROVE  \/ \E c \in copies' : c.id = marker'[d][e].copy
                      \/ Decides(d, e)' /\ ~marker'[d][e].resolution.stale /\ Known(Chosen(d, e))'
    BY DEF Comparable
  <2>1. CASE \A c \in copies : c.id = marker[d][e].copy => c \in copies'
    <3>1. \A c \in copies : c.id = marker[d][e].copy => \E b \in copies' : b.id = c.id
      BY <2>1
    <3>. QED BY <1>0, <1>9, <3>1, ComparableStays DEF ConflictRules
  <2>2. ASSUME NEW c \in copies, c.id = marker[d][e].copy, c \notin copies'
        PROVE  Decides(d, e)' /\ ~marker'[d][e].resolution.stale /\ Known(Chosen(d, e))'
    <3>1. PICK op \in ops : /\ ~Known(op) /\ op.id \in Resolutions /\ Timely(op)
                            /\ op.copy = c.id /\ op.e = c.e
      BY <1>8, <2>2
    <3>2. c.e = e
      BY <2>2 DEF ConflictRules, CopiesHold, NoteMarkers, Settled
    <3>3. Keeps(d, op)
      BY <1>16, <2>2, <3>1, <3>2
    <3>4. receipts'[op.id] # None
      BY <1>1, <3>1
    <3>5. Chosen(d, e)' = op /\ Decides(d, e)' /\ ~marker'[d][e].resolution.stale
      BY <3>1, <3>2, <3>3 DEF Keeps, Decides, Chosen
    <3>. QED BY <3>4, <3>5 DEF Known
  <2>. QED BY <2>1, <2>2
<1>. QED BY <1>10, <1>11, <1>12, <1>14, <1>17, <1>18, <1>19 DEF ConflictRules

\* A decision is refused only when it comes too late.
LEMMA ServeKeepsConflicts ==
  ASSUME Inductive, TypeOK', QueueRules, ConflictRules, NEW d \in Devices, Serve(d)
  PROVE  ConflictRules'
<1>0. TypeOK /\ Shared
  BY Parts
<1>1. /\ Alone(d) /\ sync[d].stage = "sent" /\ sync'[d].ops = sync[d].ops
      /\ UNCHANGED <<late, outbox, marker, preview>>
      /\ \/ /\ Refusal(sync[d].ops) # None
            /\ UNCHANGED <<history, copies, receipts>>
         \/ /\ Refusal(sync[d].ops) = None /\ sync'[d].stage = "answered"
            /\ Apply(sync[d].ops)
  BY <1>0, ServeEffect
<1>2. \A o \in Devices : sync'[o].ops = sync[o].ops
  BY <1>1 DEF Alone
<1>3. sync[d].ops \subseteq Requested /\ sync[d].ops \subseteq Operations
  BY <1>0, Typed DEF Requested, Syncs
<1>4. CASE Refusal(sync[d].ops) = None /\ sync'[d].stage = "answered" /\ Apply(sync[d].ops)
  <2>1. \A o \in Devices : sync'[o] = sync[o] \/ sync'[o].stage # "refused"
    BY <1>1, <1>4 DEF Alone
  <2>. QED BY <1>1, <1>2, <1>3, <1>4, <2>1, AppliedKeepsConflicts
<1>5. CASE Refusal(sync[d].ops) # None /\ UNCHANGED <<history, copies, receipts>>
  <2>1. Requested' \subseteq Requested
    BY <1>1, <1>2, <1>5, NothingRequested
  <2>2. ASSUME NEW op \in sync[d].ops, op.id \in Resolutions, op.e \in Notes
        PROVE  ~Known(op) /\ ~Timely(op)
    <3>1. sync[d].ops = {op} /\ op \in Requested /\ op.id \notin Edits
      BY <1>0, <1>3, <2>2, Parts, OfflineAssumption DEF Holds, RequestOn, Resolving, Resolution
    <3>2. Known(op) => receipts[op.id].op = op
      <4>1. op.id \in DOMAIN receipts
        BY <1>0, <2>2 DEF TypeOK
      <4>2. Known(op) => receipts[op.id].op.id = op.id /\ receipts[op.id].op \in Requested
        BY <1>0, <4>1 DEF Known, Shared, Requested
      <4>. QED BY <3>1, <4>2 DEF QueueRules, RequestsAgree
    <3>3. ~Known(op) /\ ~\E c \in Compared(op) :
             c.e = op.e /\ c.rev = op.seenCopy /\ Revision(op.e) = op.base
      BY <1>5, <3>1, <3>2, OfflineAssumption DEF Refusal
    <3>4. \A c \in copies : c.id = op.copy => c.e = op.e
      BY <2>2, <3>1 DEF ConflictRules, NoteDecisions, SeenBy, Seen, Settled, CopiesHold
    <3>. QED BY <3>3, <3>4 DEF Timely, Compared
  <2>3. RefusedLate'
    <3> SUFFICES ASSUME NEW o \in Devices, sync'[o].stage = "refused",
                        NEW op \in sync'[o].ops, op.id \in Resolutions, op.e \in Notes
                 PROVE  ~Known(op) /\ ~Timely(op)
      BY <1>5 DEF RefusedLate, Known, Timely, Revision
    <3>1. CASE o = d
      BY <1>1, <2>2, <3>1
    <3>2. CASE o # d
      BY <1>1, <3>2 DEF Alone, ConflictRules, RefusedLate
    <3>. QED BY <3>1, <3>2
  <2>4. CopiesHold' /\ CopyThere' /\ NoteMarkers' /\ OneHolder'
    BY <1>1, <1>5 DEF ConflictRules, CopiesHold, CopyThere, NoteMarkers, OneHolder, Settled, Gone, Chosen
  <2>5. NoteDecisions'
    BY <1>1, <1>5, <2>1 DEF ConflictRules, NoteDecisions, SeenBy, Shown, Seen, Settled, Gone, Decides,
                            Chosen, Revision
  <2>6. DecisionsSettle'
    BY <1>1, <1>5, <2>1 DEF ConflictRules, DecisionsSettle, Known, Timely, Keeps, Decides, Chosen, Revision
  <2>7. Comparable'
    BY <1>1, <1>5 DEF ConflictRules, Comparable, Decides, Chosen, Known
  <2>. QED BY <2>3, <2>4, <2>5, <2>6, <2>7 DEF ConflictRules
<1>. QED BY <1>1, <1>4, <1>5

LEMMA ServeLateKeepsConflicts ==
  ASSUME Inductive, TypeOK', QueueRules, ConflictRules, NEW ops \in late, ServeLate(ops)
  PROVE  ConflictRules'
<1>0. TypeOK
  BY Parts
<1>1. /\ late' = late \ {ops} /\ UNCHANGED <<outbox, marker, preview, sync>>
      /\ UNCHANGED <<history, copies, receipts>> \/ (Refusal(ops) = None /\ Apply(ops))
  BY DEF ServeLate, device, server
<1>2. CASE UNCHANGED <<history, copies, receipts>>
  <2>1. Requested' \subseteq Requested
    BY <1>1, <1>2, NothingRequested
  <2>2. StillServer
    BY <1>0, <1>2, HistoryStays, GrowsStill
  <2>. QED BY <1>0, <1>1, <2>1, <2>2, StillFrame DEF OldQueue, Pending
<1>3. CASE Refusal(ops) = None /\ Apply(ops)
  <2>1. ops \subseteq Requested
    BY DEF Requested
  <2>2. ops \subseteq Operations
    BY <1>0 DEF TypeOK
  <2>. QED BY <1>1, <1>3, <2>1, <2>2, AppliedKeepsConflicts
<1>. QED BY <1>1, <1>2, <1>3

-----------------------------------------------------------------------------
(* The rules hold, and what follows from them. *)

LEMMA InitObeysConflicts ==
  Init => ConflictRules
<1> SUFFICES ASSUME Init PROVE ConflictRules
  OBVIOUS
<1>1. Requested = {}
  <2>1. Idle.ops = {}
    BY DEF Idle, Request
  <2>. QED BY <2>1 DEF Init, Requested
<1>2. /\ \A d \in Devices, x \in Edits : outbox[d][x] = None
      /\ \A d \in Devices, e \in Entities : marker[d][e] = None
      /\ \A d \in Devices : preview[d] = None /\ sync[d].stage = "idle"
      /\ copies = {}
  BY DEF Init, Idle, Request
<1>. QED BY <1>1, <1>2 DEF ConflictRules, CopiesHold, CopyThere, NoteMarkers, OneHolder, NoteDecisions,
           DecisionsSettle, RefusedLate, Comparable, Decides, Notes

LEMMA StepObeysConflicts ==
  Inductive /\ TypeOK' /\ QueueRules /\ ConflictRules /\ [Next]_vars => ConflictRules'
<1> SUFFICES ASSUME Inductive, TypeOK', QueueRules, ConflictRules, [Next]_vars PROVE ConflictRules'
  OBVIOUS
<1>0. TypeOK
  BY Parts
<1>1. CASE UNCHANGED vars
  <2>1. UNCHANGED <<history, copies, receipts, outbox, marker, preview, sync, late>>
    BY <1>1 DEF vars, server, device
  <2>2. StillServer
    BY <1>0, <2>1, HistoryStays, GrowsStill
  <2>. QED BY <1>0, <2>1, <2>2, ElsewhereKeepsConflicts
<1>2. CASE Elsewhere
  BY <1>0, <1>2, OnlineEditKeepsConflicts, EditCopyKeepsConflicts, OpenOnlineKeepsConflicts,
     ServeLateKeepsConflicts DEF Elsewhere
<1>3. ASSUME NEW d \in Devices,
             Edit(d) \/ Download(d) \/ RetrySync(d) \/ Synchronize(d) \/ Disturb(d) \/ Resolve(d)
      PROVE  ConflictRules'
  <2>1. CASE Edit(d)
    BY <2>1, LocalEditKeepsConflicts DEF Edit
  <2>2. CASE Download(d)
    BY <1>0, <2>2, DownloadKeepsConflicts
  <2>3. CASE RetrySync(d)
    BY <1>0, <2>3, RetrySyncKeepsConflicts
  <2>4. CASE Synchronize(d)
    <3>1. CASE Refused(d)
      <4>1. sync[d].refusal \in Errors
        BY <1>0, <3>1, Typed, Parts DEF Refused, Syncs, Errors, Holds, RequestOn
      <4>. QED BY <3>1, <4>1, FailedKeepsConflicts DEF Refused
    <3>. QED BY <1>0, <2>4, <3>1, FlushKeepsConflicts, SendResolutionKeepsConflicts,
                ServeKeepsConflicts, FetchKeepsConflicts, AcknowledgeKeepsConflicts,
                FinishResolutionKeepsConflicts DEF Synchronize
  <2>5. CASE Disturb(d)
    <3>1. CASE NetworkFailure(d)
      <4>1. "NETWORK" \in Errors
        BY DEF Errors
      <4>. QED BY <3>1, <4>1, FailedKeepsConflicts DEF NetworkFailure, Abandoned
    <3>. QED BY <1>0, <2>5, <3>1, CloseTabKeepsConflicts DEF Disturb
  <2>6. CASE Resolve(d)
    BY <1>0, <2>6, EnsureConflictKeepsConflicts, CompareKeepsConflicts, PrepareKeepsConflicts DEF Resolve
  <2>. QED BY <1>3, <2>1, <2>2, <2>3, <2>4, <2>5, <2>6
<1>. QED BY <1>1, <1>2, <1>3 DEF Next

\* The rules of conflicts hold of every reachable state, for any number of
\* devices, notes, edits and decisions: a copy belongs to one answered edit
\* and to the conflict of one device, and a decision about it that can still
\* be applied is kept by that device (services/annotations.py resolves under the
\* receipt and the compared revisions; offline-conflicts.ts keeps the request).
THEOREM ConflictsAreRuled == Spec => []ConflictRules
<1>1. Inductive /\ Inductive' /\ QueueRules /\ ConflictRules /\ [Next]_vars => ConflictRules'
  BY StepObeysConflicts, PartsAfter
<1>. QED BY <1>1, InitObeysConflicts, QueueIsRuled, SyncIsInductive, PTL DEF Spec

\* A conflict about an annotation can be compared on the device that shows
\* it, whatever other devices do and whatever is lost on the way, unless the
\* device's own decision has been applied ("Changed versions require a fresh
\* comparison", offline-conflicts.ts).  For a notebook this is not so: a copy
\* that a device took up from its list may have been resolved by another one.
THEOREM AnnotationsComparable == Spec => []Comparable
<1>1. ConflictRules => Comparable
  BY DEF ConflictRules
<1>. QED BY <1>1, ConflictsAreRuled, PTL

\* ... which is what the runs check of annotations.
THEOREM ConflictsStayComparable ==
  ASSUME Notebooks = {}
  PROVE  Spec => []ComparisonAvailable
<1>1. Comparable => ComparisonAvailable
  BY DEF Comparable, ComparisonAvailable, Notes, Decides, Chosen
<1>. QED BY <1>1, AnnotationsComparable, PTL
=============================================================================
