------------------------- MODULE OfflineFields_proofs -------------------------
(***************************************************************************)
(* No version of an annotation forgets a field that an earlier one had,    *)
(* and no edit of a field is lost.                                         *)
(*                                                                         *)
(* A rebase may replace an edit by a later one of the same field, so that  *)
(* contents are compared by the fields they cover: Below(S, T) says that   *)
(* whatever S sets T sets, too.  Whatever may become a version is Below    *)
(* what it will be appended to: an operation covers the version it names   *)
(* as its base (FirstFits), by the operations it was queued behind         *)
(* (QueueCovers, Consecutive), and a decision covers what was compared     *)
(* (Weighs).                                                               *)
(***************************************************************************)
EXTENDS OfflineEdits_proofs

Cover(S) == {Field[z] : z \in S}
Below(S, T) == Cover(S) \subseteq Cover(T)

\* What a revision has, its successors have.
VersionsCover ==
  \A e \in Notes : \A i, j \in DOMAIN history[e] : i <= j => Below(history[e][i], history[e][j])

\* An applied operation is the version after its base; what "keep server"
\* gives up has been decided.
AnswerTrue(a) ==
  /\ a.rev <= Revision(a.op.e)
  /\ a.op.id \in Edits => a.op.id \in a.op.content
  /\ ~a.copied /\ a.op.keep => a.op.content \subseteq decided
  /\ ~a.copied /\ ~a.op.keep => a.rev = a.op.base + 1 /\ history[a.op.e][a.rev] = a.op.content

AnswersTrue ==
  \A i \in DOMAIN receipts : receipts[i] # None /\ receipts[i].op.e \in Notes => AnswerTrue(receipts[i])

CopiesKnow == \A c \in copies : receipts[c.id].op.content \subseteq c.content

\* A request has one operation per entity.
Single(ops) == \A op, o \in ops : op.e = o.e => op = o
RequestsSingle == (\A d \in Devices : Single(sync[d].ops)) /\ \A ops \in late : Single(ops)

\* What is written on revision base covers it.
Had(e, base, S) == base > 0 => base <= Revision(e) /\ Below(history[e][base], S)

\* A decision covers the version and the copy it was compared with.
Weighs(e, base, copy, seen, S) ==
  /\ Had(e, base, S)
  /\ \A c \in copies : c.id = copy /\ c.rev = seen => Below(c.content, S)
WeighsFor(op) == Weighs(op.e, op.base, op.copy, op.seenCopy, op.content)

RequestsWeigh ==
  \A op \in Requested : op.id \in Resolutions /\ op.e \in Notes => WeighsFor(op)

Base(d, x) == outbox[d][x].op.base
Written(d, x) == outbox[d][x].op.content
Mine(d, e) == Pending(outbox[d], e)

\* What waits was written knowing what waits before it.
QueueCovers(d, e) ==
  /\ local[d][e].rev = 0 => local[d][e].content = {}
  /\ \A x \in Mine(d, e) :
       /\ x \in Written(d, x) /\ Below(Written(d, x), local[d][e].content)
       /\ \A y \in Mine(d, e) : Base(d, x) <= Base(d, y) => Below(Written(d, x), Written(d, y))

\* The bases of what waits follow each other up to the working copy.
Consecutive(d, e) ==
  /\ Mine(d, e) # {} => \E y \in Mine(d, e) : Base(d, y) + 1 = local[d][e].rev
  /\ \A x \in Mine(d, e) : Earlier(outbox[d], x) # {} =>
       \E y \in Mine(d, e) : Base(d, y) + 1 = Base(d, x)

FirstFits(d, e) ==
  marker[d][e] = None => \A x \in Mine(d, e) :
    Earlier(outbox[d], x) = {} /\ receipts[x] = None => Had(e, Base(d, x), Written(d, x))

\* A decision covers what it supersedes; what it does not supersede came
\* later and covers the working copy that the decision was made with.
DecisionCovers(d, e) ==
  Decides(d, e) =>
    LET r == marker[d][e].resolution
    IN /\ WeighsFor(r.op)
       /\ \A s \in Mine(d, e) \cap r.supersedes : Below(Written(d, s), r.op.content)
       /\ \A x \in Mine(d, e) \ r.supersedes :
            /\ \A s \in Mine(d, e) \cap r.supersedes : Base(d, s) < Base(d, x)
            /\ x \notin r.prior /\ Below(r.prior, Written(d, x))
       /\ r.prior \cap fresh = {}
       /\ Below(r.prior, local[d][e].content)

\* A comparison covers what it shows, as long as its conflict lasts.
PreviewCovers(d) ==
  preview[d] # None /\ preview[d].e \in Notes =>
    LET p == preview[d]
    IN /\ Weighs(p.e, p.base, p.marker.copy, p.seenCopy, p.content)
       /\ p.pending \cap fresh = {}
       /\ marker[d][p.e] # None /\ marker[d][p.e].copy = p.marker.copy =>
            \A x \in p.pending \cap Mine(d, p.e) : Below(Written(d, x), p.content)

\* A snapshot is not older than the answers, nor than the working copy of a
\* note in conflict.
SnapshotNew(d, e) ==
  sync[d].stage = "read" =>
    /\ \A op \in sync[d].ops : op.e = e => receipts[op.id].rev <= sync[d].snapshot.rows[e].rev
    /\ marker[d][e] # None /\ Mine(d, e) = {} =>
         Below(local[d][e].content, sync[d].snapshot.rows[e].content)

DeviceCovers(d, e) ==
  /\ QueueCovers(d, e) /\ Consecutive(d, e) /\ FirstFits(d, e)
  /\ DecisionCovers(d, e) /\ SnapshotNew(d, e)

ServerCovers == VersionsCover /\ AnswersTrue /\ CopiesKnow

FieldRules ==
  /\ ServerCovers /\ RequestsSingle /\ RequestsWeigh
  /\ \A d \in Devices : PreviewCovers(d) /\ \A e \in Notes : DeviceCovers(d, e)

-----------------------------------------------------------------------------
(* What covers what. *)

LEMMA BelowSubset ==
  ASSUME NEW S, NEW T, S \subseteq T
  PROVE  Below(S, T)
BY DEF Below, Cover

LEMMA BelowUnion ==
  ASSUME NEW S, NEW R, NEW T, Below(S, T), Below(R, T)
  PROVE  Below(S \cup R, T)
BY DEF Below, Cover

LEMMA BelowTrans ==
  ASSUME NEW S, NEW R, NEW T, Below(S, R), Below(R, T)
  PROVE  Below(S, T)
BY DEF Below

LEMMA RevisionIn ==
  ASSUME TypeOK, NEW e \in Entities, NEW i \in Nat, i > 0, i <= Revision(e)
  PROVE  i \in DOMAIN history[e] /\ history[e][i] \in SUBSET Edits
<1>1. history[e] \in Seq(SUBSET Edits)
  BY DEF TypeOK
<1>. QED BY <1>1 DEF Revision

\* Versions stay where they are.
LEMMA VersionStays ==
  ASSUME TypeOK, TypeOK', Grows, NEW e \in Entities, NEW i \in Nat, i > 0, i <= Revision(e)
  PROVE  /\ i <= Revision(e)' /\ Revision(e) <= Revision(e)'
         /\ i \in DOMAIN history[e] /\ history'[e][i] = history[e][i]
<1>1. history[e] \in Seq(SUBSET Edits) /\ history'[e] \in Seq(SUBSET Edits)
  BY DEF TypeOK
<1>. QED BY <1>1 DEF Revision, Grows

LEMMA HadStays ==
  ASSUME TypeOK, TypeOK', Grows, NEW e \in Entities, NEW base \in Nat, NEW S, Had(e, base, S)
  PROVE  Had(e, base, S)'
<1>1. base > 0 => /\ base <= Revision(e) /\ base <= Revision(e)'
                  /\ history'[e][base] = history[e][base]
  BY VersionStays DEF Had
<1>. QED BY <1>1 DEF Had, Below, Cover

\* Copies get newer, or are those of new answers.
CopiesAge ==
  \A c \in copies' :
    \/ c \in copies
    \/ \E b \in copies : b.id = c.id /\ b.rev < c.rev
    \/ c.id \in Edits /\ receipts[c.id] = None

ReceiptsStay == \A i \in Edits \cup Resolutions : receipts[i] # None => receipts'[i] = receipts[i]

LEMMA WeighsStays ==
  ASSUME TypeOK, TypeOK', Grows, CopiesAge, NEW e \in Entities, NEW base \in Nat, NEW copy,
         NEW seen \in Nat, NEW S, Seen(e, copy, base, seen), Weighs(e, base, copy, seen, S)
  PROVE  Weighs(e, base, copy, seen, S)'
<1>1. Had(e, base, S)'
  BY HadStays DEF Weighs
<1>2. ASSUME NEW c \in copies', c.id = copy, c.rev = seen PROVE Below(c.content, S)
  <2>1. c \in Copies /\ copies \subseteq Copies
    BY DEF TypeOK
  <2>2. ~ \E b \in copies : b.id = c.id /\ b.rev < c.rev
    BY <1>2, <2>1 DEF Seen, Copies
  <2>3. receipts[c.id] # None
    BY <1>2 DEF Seen, Settled
  <2>. QED BY <1>2, <2>2, <2>3 DEF CopiesAge, Weighs
<1>. QED BY <1>1, <1>2 DEF Weighs, Below, Cover

\* The snapshot's row is above every version not newer than it.
LEMMA SnapshotCovers ==
  ASSUME Inductive, EditRules, VersionsCover, NEW d \in Devices, sync[d].stage = "read",
         NEW e \in Notes, NEW i \in Nat, i > 0, i <= sync[d].snapshot.rows[e].rev
  PROVE  i <= Revision(e) /\ Below(history[e][i], sync[d].snapshot.rows[e].content)
<1>1. TypeOK /\ RequestOn(d) /\ e \in Entities
  BY Parts DEF Holds, Notes
<1>2. sync[d].snapshot \in Snapshots
  BY <1>1, Typed DEF RequestOn, Syncs
<1> DEFINE row == sync[d].snapshot.rows[e]
<1>3. row.rev \in Nat /\ True(row, e)
  BY <1>1, <1>2 DEF RequestOn, Snapshots, Rows
<1>4. row.rev > 0 /\ row.rev <= Revision(e) /\ row.content = history[e][row.rev]
  BY <1>3 DEF True
<1> HIDE DEF row
<1>5. i <= Revision(e) /\ i \in DOMAIN history[e] /\ row.rev \in DOMAIN history[e]
  <2>1. Revision(e) \in Nat
    BY <1>1, ContentTyped
  <2>2. i <= row.rev
    BY DEF row
  <2>. QED BY <1>1, <1>3, <1>4, <2>1, <2>2, RevisionIn
<1>6. Below(history[e][i], history[e][row.rev])
  BY <1>5 DEF VersionsCover, row
<1>. QED BY <1>4, <1>5, <1>6 DEF row

-----------------------------------------------------------------------------
(* What a step leaves alone. *)

\* A conflict stays, and a decision about it says what it said.
SameConflict(d, e) ==
  /\ marker'[d][e] = None <=> marker[d][e] = None
  /\ marker[d][e] # None => marker'[d][e].copy = marker[d][e].copy
  /\ Decides(d, e)' =>
       /\ Decides(d, e) /\ Chosen(d, e)' = Chosen(d, e)
       /\ marker'[d][e].resolution.supersedes = marker[d][e].resolution.supersedes
       /\ marker'[d][e].resolution.prior = marker[d][e].resolution.prior

\* What waits of e stays as it is.
SameMine(d, e) ==
  /\ Mine(d, e)' = Mine(d, e)
  /\ \A x \in Mine(d, e) : outbox'[d][x].op = outbox[d][x].op

LEMMA SameQueueMine ==
  ASSUME NEW d \in Devices, SameQueue(d)
  PROVE  \A e \in Entities : SameMine(d, e)
BY SamePending DEF SameMine, Mine, SameQueue, Pending

LEMMA MineSame ==
  ASSUME NEW d \in Devices, NEW e \in Entities, SameMine(d, e)
  PROVE  /\ Mine(d, e)' = Mine(d, e)
         /\ \A x \in Mine(d, e) : /\ Base(d, x)' = Base(d, x) /\ Written(d, x)' = Written(d, x)
                                  /\ Earlier(outbox'[d], x) = Earlier(outbox[d], x)
<1>1. \A x \in Mine(d, e) : outbox[d][x].op.e = e /\ outbox'[d][x].op.e = e
  BY DEF SameMine, Mine, Pending
<1>2. Pending(outbox'[d], e) = Pending(outbox[d], e)
  BY DEF SameMine, Mine
<1>3. \A x \in Mine(d, e) : Earlier(outbox'[d], x) = Earlier(outbox[d], x)
  BY <1>1, <1>2 DEF SameMine, Mine, Earlier
<1>. QED BY <1>3 DEF SameMine, Base, Written

LEMMA MineTyped ==
  ASSUME TypeOK, NEW d \in Devices, NEW e \in Entities
  PROVE  \A x \in Mine(d, e) :
           /\ x \in Edits /\ outbox[d][x] # None /\ outbox[d][x].op.e = e
           /\ Base(d, x) \in Nat /\ Written(d, x) \in SUBSET Edits
           /\ outbox[d][x].op \in Operations
BY Typed DEF Mine, Pending, Base, Written, Queued, Operations

LEMMA QueueStands ==
  ASSUME NEW d \in Devices, NEW e \in Entities, SameMine(d, e), local'[d][e] = local[d][e]
  PROVE  /\ QueueCovers(d, e) => QueueCovers(d, e)'
         /\ Consecutive(d, e) => Consecutive(d, e)'
<1>1. /\ Mine(d, e)' = Mine(d, e)
      /\ \A x \in Mine(d, e) : /\ Base(d, x)' = Base(d, x) /\ Written(d, x)' = Written(d, x)
                               /\ Earlier(outbox'[d], x) = Earlier(outbox[d], x)
  BY MineSame
<1>2. ASSUME QueueCovers(d, e) PROVE QueueCovers(d, e)'
  <2>1. \A x \in Mine(d, e)' :
          x \in Written(d, x)' /\ Below(Written(d, x), local[d][e].content)'
    BY <1>1, <1>2 DEF QueueCovers, Below, Cover
  <2>2. \A x, y \in Mine(d, e)' : Base(d, x)' <= Base(d, y)' => Below(Written(d, x), Written(d, y))'
    BY <1>1, <1>2 DEF QueueCovers, Below, Cover
  <2>. QED BY <1>2, <2>1, <2>2 DEF QueueCovers
<1>3. Consecutive(d, e) => Consecutive(d, e)'
  BY <1>1 DEF Consecutive
<1>. QED BY <1>2, <1>3

LEMMA FirstStands ==
  ASSUME TypeOK, TypeOK', Grows, ReceiptsStay, NEW d \in Devices, NEW e \in Entities,
         SameMine(d, e), marker'[d][e] = None => marker[d][e] = None, FirstFits(d, e)
  PROVE  FirstFits(d, e)'
<1> SUFFICES ASSUME marker'[d][e] = None, NEW x \in Mine(d, e)', Earlier(outbox'[d], x) = {},
                    receipts'[x] = None
             PROVE  Had(e, Base(d, x), Written(d, x))'
  BY DEF FirstFits
<1>1. /\ x \in Mine(d, e) /\ Base(d, x)' = Base(d, x) /\ Written(d, x)' = Written(d, x)
      /\ Earlier(outbox[d], x) = {}
  BY MineSame
<1>2. x \in Edits /\ Base(d, x) \in Nat
  BY <1>1, MineTyped
<1>3. receipts[x] = None
  BY <1>2 DEF ReceiptsStay
<1>4. Had(e, Base(d, x), Written(d, x))
  BY <1>1, <1>3 DEF FirstFits
<1>5. PICK base : base = Base(d, x)
  OBVIOUS
<1>6. PICK S : S = Written(d, x)
  OBVIOUS
<1>7. Had(e, base, S)'
  BY <1>2, <1>4, <1>5, <1>6, HadStays
<1>. QED BY <1>1, <1>5, <1>6, <1>7 DEF Had, Below, Cover

LEMMA WeighsForStays ==
  ASSUME TypeOK, TypeOK', Grows, CopiesAge, NEW op \in Operations, SeenBy(op), WeighsFor(op)
  PROVE  WeighsFor(op)'
<1>0. op.base \in Nat /\ op.seenCopy \in Nat /\ op.e \in Entities
  BY DEF Operations
<1>1. Weighs(op.e, op.base, op.copy, op.seenCopy, op.content)'
  BY <1>0, WeighsStays DEF SeenBy, WeighsFor
<1>. QED BY <1>1 DEF WeighsFor

LEMMA DecisionStands ==
  ASSUME TypeOK, TypeOK', Grows, CopiesAge, NoteDecisions, fresh' \subseteq fresh,
         NEW d \in Devices, NEW e \in Notes, SameMine(d, e), local'[d][e] = local[d][e],
         SameConflict(d, e), DecisionCovers(d, e)
  PROVE  DecisionCovers(d, e)'
<1> SUFFICES ASSUME Decides(d, e)' PROVE DecisionCovers(d, e)'
  BY DEF DecisionCovers
<1>0. e \in Entities
  BY DEF Notes
<1>1. /\ Decides(d, e) /\ Chosen(d, e)' = Chosen(d, e)
      /\ marker'[d][e].resolution.supersedes = marker[d][e].resolution.supersedes
      /\ marker'[d][e].resolution.prior = marker[d][e].resolution.prior
  BY DEF SameConflict
<1>2. PICK op : op = Chosen(d, e)
  OBVIOUS
<1>3. SeenBy(op) /\ WeighsFor(op)
  BY <1>1, <1>2 DEF NoteDecisions, DecisionCovers, Chosen
<1>4. op \in Operations /\ op.e \in Entities
  <2>1. marker[d][e] \in Markers
    BY <1>0, <1>1, Typed DEF Decides
  <2>2. marker[d][e].resolution \in ResolutionRecords
    BY <1>1, <2>1 DEF Decides, Markers
  <2>. QED BY <1>2, <2>2 DEF Chosen, ResolutionRecords, Operations
<1>5. WeighsFor(op)'
  BY <1>3, <1>4, WeighsForStays
<1>6. /\ Mine(d, e)' = Mine(d, e)
      /\ \A x \in Mine(d, e) : Base(d, x)' = Base(d, x) /\ Written(d, x)' = Written(d, x)
  BY <1>0, MineSame
<1>7. /\ \A s \in Mine(d, e) \cap marker[d][e].resolution.supersedes :
           Below(Written(d, s), op.content)
      /\ \A x \in Mine(d, e) \ marker[d][e].resolution.supersedes :
           /\ \A s \in Mine(d, e) \cap marker[d][e].resolution.supersedes : Base(d, s) < Base(d, x)
           /\ x \notin marker[d][e].resolution.prior
           /\ Below(marker[d][e].resolution.prior, Written(d, x))
      /\ marker[d][e].resolution.prior \cap fresh = {}
      /\ Below(marker[d][e].resolution.prior, local[d][e].content)
  BY <1>1, <1>2 DEF DecisionCovers, Chosen
<1>8. marker'[d][e].resolution.op = op /\ marker'[d][e].resolution.prior \cap fresh' = {}
  BY <1>1, <1>2, <1>7 DEF Chosen
<1>9. Below(marker[d][e].resolution.prior, local[d][e].content)'
  BY <1>1, <1>7 DEF Below, Cover
<1>10. \A s \in Mine(d, e)' \cap marker'[d][e].resolution.supersedes :
         Below(Written(d, s), marker[d][e].resolution.op.content)'
  BY <1>1, <1>6, <1>7, <1>8 DEF Below, Cover
<1>11. \A x \in Mine(d, e)' \ marker'[d][e].resolution.supersedes :
         /\ \A s \in Mine(d, e)' \cap marker'[d][e].resolution.supersedes :
              Base(d, s)' < Base(d, x)'
         /\ x \notin marker'[d][e].resolution.prior
         /\ Below(marker[d][e].resolution.prior, Written(d, x))'
  <2>1. \A x \in Mine(d, e) : Below(marker[d][e].resolution.prior, Written(d, x)) =>
          Below(marker[d][e].resolution.prior, Written(d, x))'
    BY <1>1, <1>6 DEF Below, Cover
  <2>. QED BY <1>1, <1>6, <1>7, <2>1
<1>. QED BY <1>5, <1>8, <1>9, <1>10, <1>11 DEF DecisionCovers, WeighsFor

LEMMA SnapshotStands ==
  ASSUME Inductive, QueueRules, ReceiptsStay, NEW d \in Devices, NEW e \in Entities, SameMine(d, e),
         local'[d][e] = local[d][e], marker'[d][e] # None => marker[d][e] # None,
         sync'[d] = sync[d] \/ sync'[d].stage # "read", SnapshotNew(d, e)
  PROVE  SnapshotNew(d, e)'
<1> SUFFICES ASSUME sync[d].stage = "read", sync'[d] = sync[d] PROVE SnapshotNew(d, e)'
  BY DEF SnapshotNew
<1>0. TypeOK
  BY Parts
<1>1. \A op \in sync[d].ops : receipts'[op.id] = receipts[op.id]
  <2>1. \A op \in sync[d].ops : op.id \in Edits \cup Resolutions /\ receipts[op.id] # None
    BY <1>0, Typed DEF QueueRules, AnswersHold, Known, Syncs, Operations
  <2>. QED BY <2>1 DEF ReceiptsStay
<1>2. Mine(d, e)' = Mine(d, e)
  BY DEF SameMine
<1>. QED BY <1>1, <1>2 DEF SnapshotNew, Below, Cover

LEMMA PreviewStands ==
  ASSUME TypeOK, TypeOK', Grows, CopiesAge, NoteDecisions, fresh' \subseteq fresh,
         NEW d \in Devices, PreviewCovers(d), preview'[d] = preview[d] \/ preview'[d] = None,
         NEW e, preview[d] # None => e = preview[d].e,
         preview[d] # None /\ e \in Notes /\ marker'[d][e] # None
           /\ marker'[d][e].copy = preview[d].marker.copy =>
           /\ marker[d][e] # None /\ marker[d][e].copy = preview[d].marker.copy
           /\ \A x \in Mine(d, e)' \ fresh : x \in Mine(d, e) /\ Written(d, x)' = Written(d, x)
  PROVE  PreviewCovers(d)'
<1> SUFFICES ASSUME preview[d] # None, preview'[d] = preview[d], e = preview[d].e, e \in Notes
             PROVE  PreviewCovers(d)'
  BY DEF PreviewCovers
<1>0. e \in Entities /\ preview[d] \in Previews
  BY Typed DEF Notes
<1>1. PICK p : p = preview[d]
  OBVIOUS
<1>2. /\ Weighs(p.e, p.base, p.marker.copy, p.seenCopy, p.content)
      /\ p.pending \cap fresh = {}
      /\ marker[d][e] # None /\ marker[d][e].copy = p.marker.copy =>
           \A x \in p.pending \cap Mine(d, e) : Below(Written(d, x), p.content)
  BY <1>1 DEF PreviewCovers
<1>3. Weighs(p.e, p.base, p.marker.copy, p.seenCopy, p.content)'
  <2>0. p.base \in Nat /\ p.seenCopy \in Nat /\ p.e = e
    BY <1>0, <1>1 DEF Previews
  <2>1. Seen(p.e, p.marker.copy, p.base, p.seenCopy)
    BY <1>1 DEF NoteDecisions, Shown
  <2>2. Weighs(p.e, p.base, p.marker.copy, p.seenCopy, p.content)'
    BY <1>0, <1>2, <2>0, <2>1, WeighsStays
  <2>. QED BY <2>2
<1>4. ASSUME marker'[d][e] # None, marker'[d][e].copy = p.marker.copy,
             NEW x \in p.pending \cap Mine(d, e)'
      PROVE  Below(Written(d, x), p.content)'
  <2>1. x \notin fresh
    BY <1>2
  <2>2. x \in Mine(d, e) /\ Written(d, x)' = Written(d, x) /\ Below(Written(d, x), p.content)
    BY <1>1, <1>2, <1>4, <2>1
  <2>. QED BY <2>2 DEF Below, Cover
<1>5. preview'[d] = p /\ p.e = e /\ p.pending \cap fresh' = {}
  BY <1>1, <1>2
<1>6. Weighs(p.e, p.base, p.marker.copy, p.seenCopy, p.content)' =>
        Weighs(preview[d].e, preview[d].base, preview[d].marker.copy, preview[d].seenCopy, preview[d].content)'
  BY <1>5
<1>7. \A x \in p.pending \cap Mine(d, e)' : Below(Written(d, x), p.content)' =>
        Below(Written(d, x), preview[d].content)'
  BY <1>5
<1>. QED BY <1>3, <1>4, <1>5, <1>6, <1>7 DEF PreviewCovers

\* A note that a step leaves alone on device d ...
NoteRests(d, e) == SameMine(d, e) /\ local'[d][e] = local[d][e] /\ SameConflict(d, e)

LEMMA NoteStands ==
  ASSUME Inductive, TypeOK', QueueRules, ConflictRules, FieldRules, Grows, CopiesAge, ReceiptsStay,
         fresh' \subseteq fresh, NEW d \in Devices, NEW e \in Notes, NoteRests(d, e)
  PROVE  /\ QueueCovers(d, e)' /\ Consecutive(d, e)' /\ FirstFits(d, e)' /\ DecisionCovers(d, e)'
         /\ sync'[d] = sync[d] \/ sync'[d].stage # "read" => SnapshotNew(d, e)'
<1>0. TypeOK /\ NoteDecisions
  BY Parts DEF ConflictRules
<1>1. e \in Entities /\ DeviceCovers(d, e) /\ SameConflict(d, e) /\ SameMine(d, e)
      /\ local'[d][e] = local[d][e]
  BY DEF Notes, FieldRules, NoteRests
<1>2. QueueCovers(d, e)' /\ Consecutive(d, e)'
  BY <1>1, QueueStands DEF DeviceCovers
<1>3. FirstFits(d, e)'
  BY <1>0, <1>1, FirstStands DEF DeviceCovers, SameConflict
<1>4. DecisionCovers(d, e)'
  BY <1>0, <1>1, DecisionStands DEF DeviceCovers
<1>5. sync'[d] = sync[d] \/ sync'[d].stage # "read" => SnapshotNew(d, e)'
  BY <1>1, SnapshotStands DEF DeviceCovers, SameConflict
<1>. QED BY <1>2, <1>3, <1>4, <1>5

LEMMA PreviewRests ==
  ASSUME Inductive, TypeOK', ConflictRules, FieldRules, Grows, CopiesAge, fresh' \subseteq fresh,
         NEW d \in Devices, preview'[d] = preview[d] \/ preview'[d] = None,
         \A e \in Notes : NoteRests(d, e)
  PROVE  PreviewCovers(d)'
<1>0. TypeOK /\ NoteDecisions
  BY Parts DEF ConflictRules
<1>1. PICK n : n = preview[d].e
  OBVIOUS
<1>2. n \in Notes => /\ SameConflict(d, n) /\ Mine(d, n)' = Mine(d, n)
                     /\ \A x \in Mine(d, n) : Written(d, x)' = Written(d, x)
  BY MineSame DEF NoteRests, Notes
<1>. QED BY <1>0, <1>1, <1>2, PreviewStands DEF SameConflict, FieldRules

\* ... and a device, but for its retries and requests.
Rests(d) ==
  /\ preview'[d] = preview[d] \/ preview'[d] = None
  /\ sync'[d] = sync[d] \/ sync'[d].stage # "read"
  /\ \A e \in Notes : NoteRests(d, e)

LEMMA RestsCovers ==
  ASSUME Inductive, TypeOK', QueueRules, ConflictRules, FieldRules, Grows, CopiesAge, ReceiptsStay,
         fresh' \subseteq fresh, NEW d \in Devices, Rests(d)
  PROVE  PreviewCovers(d)' /\ \A e \in Notes : DeviceCovers(d, e)'
<1>1. PreviewCovers(d)'
  BY PreviewRests DEF Rests
<1>2. ASSUME NEW e \in Notes PROVE DeviceCovers(d, e)'
  BY NoteStands DEF Rests, DeviceCovers
<1>. QED BY <1>1, <1>2

\* A queue that stays, or only what is told of it changes.
LEMMA SameRests ==
  ASSUME NEW d \in Devices, SameQueue(d), \A e \in Notes : local'[d][e] = local[d][e],
         \A e \in Notes : marker'[d][e] = marker[d][e] \/ SameConflict(d, e)
  PROVE  \A e \in Notes : NoteRests(d, e)
BY SameQueueMine DEF NoteRests, SameConflict, Decides, Chosen, Notes

LEMMA ServerStands ==
  ASSUME ServerCovers, UNCHANGED <<copies, receipts, decided>>,
         \A e \in Notes : history'[e] = history[e]
  PROVE  ServerCovers'
<1>1. VersionsCover'
  BY DEF ServerCovers, VersionsCover, Below, Cover
<1>2. AnswersTrue'
  BY DEF ServerCovers, AnswersTrue, AnswerTrue, Revision
<1>3. CopiesKnow'
  BY DEF ServerCovers, CopiesKnow
<1>. QED BY <1>1, <1>2, <1>3 DEF ServerCovers

\* Decisions are requested again, or as they are stored.
Redecides ==
  \A op \in Requested' : op.id \in Resolutions /\ op.e \in Notes =>
    op \in Requested \/ \E d \in Devices : Decides(d, op.e) /\ Chosen(d, op.e) = op

LEMMA RequestsStillWeigh ==
  ASSUME Inductive, TypeOK', ConflictRules, FieldRules, Grows, CopiesAge, Redecides
  PROVE  RequestsWeigh'
<1> SUFFICES ASSUME NEW op \in Requested', op.id \in Resolutions, op.e \in Notes
             PROVE  WeighsFor(op)'
  BY DEF RequestsWeigh
<1>0. TypeOK
  BY Parts
<1>1. op \in Operations
  BY RequestedTypedAfter
<1>2. WeighsFor(op) /\ SeenBy(op)
  <2>1. CASE op \in Requested
    BY <2>1 DEF FieldRules, RequestsWeigh, ConflictRules, NoteDecisions
  <2>2. ASSUME NEW d \in Devices, Decides(d, op.e), Chosen(d, op.e) = op
        PROVE  WeighsFor(op) /\ SeenBy(op)
    <3>1. DecisionCovers(d, op.e)
      BY DEF FieldRules, DeviceCovers
    <3>2. WeighsFor(op)
      BY <2>2, <3>1 DEF DecisionCovers, Chosen
    <3>3. SeenBy(op)
      BY <2>2 DEF ConflictRules, NoteDecisions
    <3>. QED BY <3>2, <3>3
  <2>. QED BY <2>1, <2>2 DEF Redecides
<1>. QED BY <1>0, <1>1, <1>2, WeighsForStays

LEMMA SingleStays ==
  ASSUME RequestsSingle, \A d \in Devices : sync'[d].ops \subseteq sync[d].ops,
         \A s \in late' : s \in late \/ \E d \in Devices : s = sync[d].ops
  PROVE  RequestsSingle'
BY DEF RequestsSingle, Single

\* What a step leaves to show.
LEMMA FieldFrame ==
  ASSUME Inductive, TypeOK', QueueRules, ConflictRules, FieldRules, Grows, CopiesAge, ReceiptsStay,
         fresh' \subseteq fresh, Redecides, RequestsSingle', ServerCovers',
         \A d \in Devices : Rests(d) \/ (PreviewCovers(d)' /\ \A e \in Notes : DeviceCovers(d, e)')
  PROVE  FieldRules'
<1>1. \A d \in Devices : PreviewCovers(d)' /\ \A e \in Notes : DeviceCovers(d, e)'
  BY RestsCovers
<1>2. RequestsWeigh'
  BY RequestsStillWeigh
<1>. QED BY <1>1, <1>2 DEF FieldRules

\* ... when the step is one of device d.
LEMMA FieldDevice ==
  ASSUME Inductive, TypeOK', QueueRules, ConflictRules, FieldRules, NEW d \in Devices, Alone(d),
         UNCHANGED <<copies, receipts, decided>>, Grows, \A e \in Notes : history'[e] = history[e],
         fresh' \subseteq fresh, Redecides, RequestsSingle',
         Rests(d) \/ (PreviewCovers(d)' /\ \A e \in Notes : DeviceCovers(d, e)')
  PROVE  FieldRules'
<1>1. CopiesAge /\ ReceiptsStay
  BY DEF CopiesAge, ReceiptsStay
<1>2. ServerCovers'
  BY ServerStands DEF FieldRules
<1>3. \A o \in Devices \ {d} : Rests(o)
  BY SameRests DEF Alone, Rests, SameQueue
<1>4. \A o \in Devices : Rests(o) \/ (PreviewCovers(o)' /\ \A e \in Notes : DeviceCovers(o, e)')
  <2>1. ASSUME NEW o \in Devices
        PROVE  Rests(o) \/ (PreviewCovers(o)' /\ \A e \in Notes : DeviceCovers(o, e)')
    <3>1. CASE o = d
      BY <3>1
    <3>2. CASE o # d
      BY <1>3, <3>2
    <3>. QED BY <3>1, <3>2
  <2>. QED BY <2>1
<1>. QED BY <1>1, <1>2, <1>4, FieldFrame

-----------------------------------------------------------------------------
(* Steps of a device that leave what waits, and their conflicts. *)

LEMMA RetrySyncKeepsFields ==
  ASSUME Inductive, TypeOK', QueueRules, ConflictRules, FieldRules, NEW d \in Devices, RetrySync(d)
  PROVE  FieldRules'
<1>0. TypeOK
  BY Parts
<1>1. /\ SameQueue(d) /\ Alone(d)
      /\ UNCHANGED <<history, copies, receipts, late, local, marker, preview, sync, fresh, decided>>
  BY <1>0, RetrySyncEffect
<1>2. Requested' \subseteq Requested
  BY <1>1, NothingRequested
<1>3. RequestsSingle'
  BY <1>1, SingleStays DEF FieldRules
<1>4. Rests(d)
  BY <1>1, SameRests DEF Rests
<1>. QED BY <1>0, <1>1, <1>2, <1>3, <1>4, HistoryStays, FieldDevice DEF Redecides

LEMMA CloseTabKeepsFields ==
  ASSUME Inductive, TypeOK', QueueRules, ConflictRules, FieldRules, NEW d \in Devices, CloseTab(d)
  PROVE  FieldRules'
<1>0. TypeOK
  BY Parts
<1>1. /\ Alone(d) /\ sync'[d] = Idle /\ preview'[d] = None
      /\ late' = late \/ late' = late \cup {sync[d].ops}
      /\ UNCHANGED <<history, copies, receipts, outbox, local, marker, fresh, decided>>
  BY <1>0, CloseTabEffect
<1>2. Idle.ops = {} /\ Idle.stage = "idle"
  BY DEF Idle, Request
<1>3. \A o \in Devices : sync'[o].ops \subseteq sync[o].ops
  BY <1>1, <1>2 DEF Alone
<1>4. Requested' \subseteq Requested
  BY <1>1, <1>3, NothingRequested
<1>5. RequestsSingle'
  BY <1>1, <1>3, SingleStays DEF FieldRules
<1>6. Rests(d)
  BY <1>1, <1>2, SameRests DEF Rests, SameQueue
<1>. QED BY <1>0, <1>1, <1>4, <1>5, <1>6, HistoryStays, FieldDevice DEF Redecides

\* A request of a device that is on its way.
LEMMA SentKeepsFields ==
  ASSUME Inductive, TypeOK', QueueRules, ConflictRules, FieldRules, NEW d \in Devices, Alone(d),
         NEW ops, Single(ops), sync'[d].ops = ops, sync'[d].stage = "sent",
         \A op \in ops : op.id \in Edits \/ \E e \in Entities : Decides(d, e) /\ Chosen(d, e) = op,
         UNCHANGED <<history, copies, receipts, late, outbox, local, marker, preview, fresh, decided>>
  PROVE  FieldRules'
<1>0. TypeOK /\ ResolutionsOn(d)
  BY Parts DEF Holds
<1>1. \A o \in Devices : sync'[o].ops \subseteq sync[o].ops \cup ops
  BY DEF Alone
<1>2. Requested' \subseteq Requested \cup ops
  BY <1>1, RequestedBound
<1>3. Redecides
  <2>1. \A op \in ops : op.id \in Resolutions => Decides(d, op.e) /\ Chosen(d, op.e) = op
    BY <1>0, OfflineAssumption DEF ResolutionsOn, Decides, Chosen
  <2>. QED BY <1>2, <2>1 DEF Redecides
<1>4. RequestsSingle'
  <2>1. \A o \in Devices : Single(sync'[o].ops)
    BY DEF Alone, FieldRules, RequestsSingle
  <2>. QED BY <2>1 DEF FieldRules, RequestsSingle, Single
<1>5. Rests(d)
  BY SameRests DEF Rests, SameQueue
<1>. QED BY <1>0, <1>3, <1>4, <1>5, HistoryStays, FieldDevice

LEMMA FlushKeepsFields ==
  ASSUME Inductive, TypeOK', QueueRules, ConflictRules, FieldRules, NEW d \in Devices, Flush(d)
  PROVE  FieldRules'
<1> DEFINE ops == {outbox[d][x].op : x \in Sendable(outbox[d])}
<1>0. TypeOK /\ OrderedOn(d) /\ OperationsOn(d)
  BY Parts DEF Holds
<1>1. /\ Alone(d) /\ sync'[d].ops = ops /\ sync'[d].stage = "sent"
      /\ UNCHANGED <<history, copies, receipts, late, outbox, local, marker, preview, fresh, decided>>
  BY <1>0, FlushEffect
<1>2. \A op \in ops : op.id \in Edits
  BY <1>0 DEF Sendable, OperationsOn
<1>3. ASSUME NEW x \in Sendable(outbox[d]), NEW y \in Sendable(outbox[d]),
             outbox[d][x].op.e = outbox[d][y].op.e
      PROVE  x = y
  <2>1. PICK e : e = outbox[d][x].op.e
    OBVIOUS
  <2>2. x \in Pending(outbox[d], e) /\ y \in Pending(outbox[d], e)
    BY <1>3, <2>1 DEF Sendable, Pending
  <2>3. Earlier(outbox[d], x) = {} /\ Earlier(outbox[d], y) = {}
    BY DEF Sendable
  <2>4. outbox[d][x] \in Queued /\ outbox[d][y] \in Queued
    BY <1>0, <2>2, Typed DEF Pending
  <2>5. outbox[d][x].op.base \in Nat /\ outbox[d][y].op.base \in Nat /\ e \in Entities
    BY <2>1, <2>4 DEF Queued, Operations
  <2>6. ~(outbox[d][x].op.base < outbox[d][y].op.base) /\ ~(outbox[d][y].op.base < outbox[d][x].op.base)
    BY <1>3, <2>1, <2>2, <2>3 DEF Earlier
  <2>7. outbox[d][x].op.base = outbox[d][y].op.base
    BY <2>5, <2>6
  <2>. QED BY <1>0, <2>2, <2>5, <2>7 DEF OrderedOn
<1>4. Single(ops)
  BY <1>3 DEF Single
<1> HIDE DEF ops
<1>. QED BY <1>1, <1>2, <1>4, SentKeepsFields

LEMMA SendResolutionKeepsFields ==
  ASSUME Inductive, TypeOK', QueueRules, ConflictRules, FieldRules, NEW d \in Devices,
         NEW e \in Entities, SendResolution(d, e)
  PROVE  FieldRules'
<1>0. TypeOK
  BY Parts
<1>1. /\ Alone(d) /\ Decides(d, e) /\ sync'[d].ops = {Chosen(d, e)} /\ sync'[d].stage = "sent"
      /\ UNCHANGED <<history, copies, receipts, late, outbox, local, marker, preview, fresh, decided>>
  BY <1>0, SendResolutionEffect
<1>2. PICK ops : ops = {Chosen(d, e)}
  OBVIOUS
<1>3. Single(ops) /\ sync'[d].ops = ops
  BY <1>1, <1>2 DEF Single
<1>. QED BY <1>1, <1>2, <1>3, SentKeepsFields

LEMMA EnsureConflictKeepsFields ==
  ASSUME Inductive, TypeOK', QueueRules, ConflictRules, FieldRules, NEW d \in Devices,
         NEW c \in listed[d], EnsureConflict(d, c)
  PROVE  FieldRules'
<1>0. TypeOK
  BY Parts
<1>1. /\ c.e \in Entities /\ Alone(d)
      /\ \A n \in Entities \ {c.e} : marker'[d][n] = marker[d][n]
      /\ UNCHANGED <<history, copies, receipts, late, outbox, local, preview, sync, fresh, decided>>
  BY <1>0, EnsureConflictEffect
<1>2. \A n \in Notes : marker'[d][n] = marker[d][n]
  BY <1>1 DEF QueueRules, NotebooksListed, Notes
<1>3. Requested' \subseteq Requested
  BY <1>1, NothingRequested
<1>4. RequestsSingle'
  BY <1>1, SingleStays DEF FieldRules
<1>5. Rests(d)
  BY <1>1, <1>2, SameRests DEF Rests, SameQueue
<1>. QED BY <1>0, <1>1, <1>3, <1>4, <1>5, HistoryStays, FieldDevice DEF Redecides

LEMMA FailedKeepsFields ==
  ASSUME Inductive, TypeOK', QueueRules, ConflictRules, FieldRules, NEW d \in Devices,
         NEW code \in Errors, Failed(d, code), late' = late \/ late' = late \cup {sync[d].ops}
  PROVE  FieldRules'
<1>0. TypeOK /\ Holds(d)
  BY Parts
<1>1. /\ SameQueue(d) /\ Alone(d) /\ sync'[d] = Idle
      /\ UNCHANGED <<history, copies, receipts, local, preview, fresh, decided>>
  BY <1>0, FailedEffect DEF Holds
<1>2. Idle.ops = {} /\ Idle.stage = "idle"
  BY DEF Idle, Request
<1>3. \A o \in Devices : sync'[o].ops \subseteq sync[o].ops
  BY <1>1, <1>2 DEF Alone
<1>4. Requested' \subseteq Requested
  BY <1>1, <1>3, NothingRequested
<1>5. RequestsSingle'
  BY <1>3, SingleStays DEF FieldRules
<1>6. ASSUME NEW e \in Notes PROVE SameConflict(d, e)
  <2>1. \/ marker'[d][e] = marker[d][e]
        \/ /\ Decides(d, e) /\ Decides(d, e)' /\ Chosen(d, e)' = Chosen(d, e)
           /\ marker'[d][e].copy = marker[d][e].copy
           /\ marker'[d][e].resolution.supersedes = marker[d][e].resolution.supersedes
           /\ marker'[d][e].resolution.prior = marker[d][e].resolution.prior
    BY <1>0, FailedEffect DEF Holds, Notes
  <2>. QED BY <2>1 DEF SameConflict, Decides, Chosen
<1>7. Rests(d)
  BY <1>1, <1>2, <1>6, SameRests DEF Rests
<1>. QED BY <1>0, <1>1, <1>4, <1>5, <1>7, HistoryStays, FieldDevice DEF Redecides

-----------------------------------------------------------------------------
(* An answer is read. *)

LEMMA FetchKeepsFields ==
  ASSUME Inductive, TypeOK', QueueRules, ConflictRules, FieldRules, NEW d \in Devices, Fetch(d)
  PROVE  FieldRules'
<1>0. TypeOK /\ Shared /\ Holds(d)
  BY Parts
<1>1. /\ Alone(d) /\ sync[d].stage = "answered" /\ sync'[d].ops = sync[d].ops
      /\ \A e \in Entities : sync'[d].snapshot.rows[e] =
           IF history'[e] = <<>> THEN NoRow
           ELSE Row(Len(history'[e]), history'[e][Len(history'[e])])
      /\ history' = WithNotebooks(history)
      /\ UNCHANGED <<copies, receipts, late, outbox, local, marker, preview, fresh, decided>>
  BY <1>0, FetchEffect
<1>2. \A o \in Devices : sync'[o].ops \subseteq sync[o].ops
  BY <1>1 DEF Alone
<1>3. Requested' \subseteq Requested
  BY <1>1, <1>2, NothingRequested
<1>4. RequestsSingle'
  BY <1>1, <1>2, SingleStays DEF FieldRules
<1>5. \A e \in Notes : NoteRests(d, e)
  BY <1>1, SameRests DEF SameQueue
<1>6. Grows /\ CopiesAge /\ ReceiptsStay
  BY <1>0, <1>1, NotebooksGrow DEF CopiesAge, ReceiptsStay
<1>7. PreviewCovers(d)'
  BY <1>1, <1>5, <1>6, PreviewRests
<1>8. ASSUME NEW e \in Notes PROVE DeviceCovers(d, e)'
  <2>0. e \in Entities /\ history'[e] = history[e] /\ history[e] \in Seq(SUBSET Edits)
    BY <1>0, <1>1, NotesStay DEF Notes, TypeOK
  <2>1. QueueCovers(d, e)' /\ Consecutive(d, e)' /\ FirstFits(d, e)' /\ DecisionCovers(d, e)'
    BY <1>1, <1>5, <1>6, NoteStands
  <2>2. PICK row : row = sync'[d].snapshot.rows[e]
    OBVIOUS
  <2>3. row.rev = Revision(e) /\ (row.rev > 0 => row.content = history[e][row.rev])
    <3>1. CASE history[e] = <<>>
      <4>1. row = NoRow
        BY <1>1, <2>0, <2>2, <3>1
      <4>. QED BY <3>1, <4>1 DEF NoRow, Row, Revision
    <3>2. CASE history[e] # <<>>
      <4>1. row = Row(Len(history[e]), history[e][Len(history[e])])
        BY <1>1, <2>0, <2>2, <3>2
      <4>. QED BY <4>1 DEF Row, Revision
    <3>. QED BY <3>1, <3>2
  <2>4. ASSUME NEW op \in sync[d].ops, op.e = e PROVE receipts[op.id].rev <= Revision(e)
    <3>1. op \in Requested /\ Known(op) /\ op \in Operations
      BY <1>0, <1>1, Typed DEF Requested, QueueRules, AnswersHold, Syncs
    <3>2. op.id \in DOMAIN receipts /\ receipts[op.id] # None
      BY <1>0, <3>1 DEF Known, Operations, TypeOK
    <3>3. receipts[op.id].op \in Requested /\ receipts[op.id].op.id = op.id
      BY <1>0, <3>2 DEF Shared, Requested
    <3>4. receipts[op.id].op = op
      BY <3>1, <3>3 DEF QueueRules, RequestsAgree
    <3>. QED BY <2>4, <3>2, <3>4 DEF FieldRules, ServerCovers, AnswersTrue, AnswerTrue
  <2>5. ASSUME marker[d][e] # None, Mine(d, e) = {} PROVE Below(local[d][e].content, row.content)
    <3>1. True(local[d][e], e) /\ local[d][e].rev \in Nat
      BY <1>0, <2>0, <2>5, Typed DEF Holds, RowsOn, Mine, Rows
    <3>2. CASE local[d][e].rev = 0
      BY <3>2 DEF FieldRules, DeviceCovers, QueueCovers, Below, Cover
    <3>3. CASE local[d][e].rev > 0
      <4>1. local[d][e].rev <= Revision(e) /\ local[d][e].content = history[e][local[d][e].rev]
        BY <3>1, <3>3 DEF True
      <4>2. Revision(e) \in DOMAIN history[e] /\ local[d][e].rev \in DOMAIN history[e] /\ Revision(e) > 0
        BY <2>0, <3>1, <3>3, <4>1 DEF Revision
      <4>3. Below(history[e][local[d][e].rev], history[e][Revision(e)])
        BY <4>1, <4>2 DEF FieldRules, ServerCovers, VersionsCover
      <4>. QED BY <2>3, <4>1, <4>2, <4>3
    <3>. QED BY <3>1, <3>2, <3>3
  <2>6. SnapshotNew(d, e)'
    <3>1. \A op \in sync'[d].ops : op.e = e => receipts'[op.id].rev <= sync'[d].snapshot.rows[e].rev
      BY <1>1, <2>2, <2>3, <2>4
    <3>2. marker'[d][e] # None /\ Mine(d, e)' = {} =>
            Below(local[d][e].content, sync[d].snapshot.rows[e].content)'
      BY <1>1, <2>2, <2>5 DEF Mine, Below, Cover
    <3>. QED BY <3>1, <3>2 DEF SnapshotNew
  <2>. QED BY <2>1, <2>6 DEF DeviceCovers
<1>. QED BY <1>0, <1>1, <1>3, <1>4, <1>6, <1>7, <1>8, NotesStay, FieldDevice DEF Redecides

-----------------------------------------------------------------------------
(* An edit is queued. *)

\* What the notes of the device, and a comparison, have to do with edit z of n.
LEMMA LocalEditMine ==
  ASSUME Inductive, NEW d \in Devices, NEW n \in Entities, NEW z \in Edits, LocalEdit(d, n, z)
  PROVE  /\ \A e \in Entities \ {n} : SameMine(d, e)
         /\ z \notin Mine(d, n) /\ Mine(d, n)' = Mine(d, n) \cup {z}
         /\ \A x \in Mine(d, n) :
              /\ Base(d, x)' = Base(d, x) /\ Written(d, x)' = Written(d, x)
              /\ Base(d, x) \in Nat /\ Base(d, x) < local[d][n].rev
              /\ Earlier(outbox'[d], x) = Earlier(outbox[d], x)
         /\ Base(d, z)' = local[d][n].rev /\ local[d][n].rev \in Nat
         /\ Written(d, z)' = local[d][n].content \cup {z}
         /\ local'[d][n].rev = local[d][n].rev + 1
         /\ local'[d][n].content = local[d][n].content \cup {z}
         /\ Earlier(outbox'[d], z) = Mine(d, n)
<1>0. TypeOK /\ OrderedOn(d)
  BY Parts DEF Holds
<1>1. /\ z \in fresh
      /\ \A y \in Edits \ {z} : outbox'[d][y] = outbox[d][y]
      /\ outbox'[d][z] # None /\ outbox'[d][z].op.e = n
      /\ outbox'[d][z].op.base = local[d][n].rev
      /\ outbox'[d][z].op.content = local[d][n].content \cup {z}
      /\ local'[d][n].content = local[d][n].content \cup {z}
  BY <1>0, LocalEditEffect
<1>2. outbox[d][z] = None
  BY <1>1, ApartMade
<1>3. \A e : Pending(outbox'[d], e) = IF e = n THEN Pending(outbox[d], e) \cup {z} ELSE Pending(outbox[d], e)
  BY <1>1, <1>2 DEF Pending
<1>4. \A e : \A x \in Pending(outbox[d], e) : x \in Edits /\ x # z /\ outbox'[d][x] = outbox[d][x]
                                            /\ outbox[d][x].op.e = e
  BY <1>1, <1>2 DEF Pending
<1>5. \A e \in Entities \ {n} : SameMine(d, e)
  BY <1>3, <1>4 DEF SameMine, Mine
<1>6. z \notin Mine(d, n) /\ Mine(d, n)' = Mine(d, n) \cup {z}
  BY <1>3, <1>4 DEF Mine
<1>7. local[d][n].rev \in Nat
  BY <1>0, Typed DEF Rows
<1>8. \A x \in Mine(d, n) :
         /\ Base(d, x)' = Base(d, x) /\ Written(d, x)' = Written(d, x)
         /\ Base(d, x) \in Nat /\ Base(d, x) < local[d][n].rev
  BY <1>0, <1>4, MineTyped DEF Mine, Base, Written, OrderedOn
<1>9. local'[d][n].rev = local[d][n].rev + 1
  BY <1>0 DEF LocalEdit, TypeOK, Row
<1>10. \A x \in Mine(d, n) : Earlier(outbox'[d], x) = Earlier(outbox[d], x)
  <2> SUFFICES ASSUME NEW x \in Mine(d, n)
               PROVE  Earlier(outbox'[d], x) = Earlier(outbox[d], x)
    OBVIOUS
  <2>1. outbox'[d][x].op.e = n /\ outbox[d][x].op.e = n /\ outbox'[d][x].op.base = outbox[d][x].op.base
    BY <1>4 DEF Mine
  <2>2. ~(local[d][n].rev < outbox[d][x].op.base)
    BY <1>7, <1>8 DEF Base
  <2>3. \A y \in Pending(outbox[d], n) : outbox'[d][y].op.base = outbox[d][y].op.base
    BY <1>4
  <2>. QED BY <1>1, <1>3, <2>1, <2>2, <2>3 DEF Earlier
<1>11. Earlier(outbox'[d], z) = Mine(d, n)
  <2>1. \A y \in Pending(outbox[d], n) : outbox'[d][y].op.base < local[d][n].rev
    BY <1>8 DEF Mine, Base
  <2>2. ~(local[d][n].rev < local[d][n].rev)
    BY <1>7
  <2>. QED BY <1>1, <1>3, <2>1, <2>2 DEF Earlier, Mine
<1>12. Base(d, z)' = local[d][n].rev /\ Written(d, z)' = local[d][n].content \cup {z}
  BY <1>1 DEF Base, Written
<1>. QED BY <1>1, <1>5, <1>6, <1>7, <1>8, <1>9, <1>10, <1>11, <1>12

LEMMA LocalEditKeepsFields ==
  ASSUME Inductive, TypeOK', QueueRules, ConflictRules, FieldRules, NEW d \in Devices,
         NEW n \in Entities, NEW z \in Edits, LocalEdit(d, n, z)
  PROVE  FieldRules'
<1>0. TypeOK /\ Holds(d)
  BY Parts
<1>1. /\ z \in fresh /\ fresh' = fresh \ {z} /\ Alone(d)
      /\ UNCHANGED <<history, copies, receipts, late, marker, preview, sync, decided>>
      /\ \A m \in Entities \ {n} : local'[d][m] = local[d][m]
  BY <1>0, LocalEditEffect
<1>2. Requested' \subseteq Requested
  BY <1>1, NothingRequested
<1>3. RequestsSingle'
  BY <1>1, SingleStays DEF FieldRules
<1>4. Grows /\ CopiesAge /\ ReceiptsStay
  BY <1>0, <1>1, HistoryStays DEF CopiesAge, ReceiptsStay
<1>5. PICK c : c = local[d][n].content
  OBVIOUS
<1>6. PICK r : r = local[d][n].rev
  OBVIOUS
<1>7. /\ \A e \in Entities \ {n} : SameMine(d, e)
      /\ z \notin Mine(d, n) /\ Mine(d, n)' = Mine(d, n) \cup {z}
      /\ \A x \in Mine(d, n) :
           /\ Base(d, x)' = Base(d, x) /\ Written(d, x)' = Written(d, x)
           /\ Base(d, x) \in Nat /\ Base(d, x) < r
           /\ Earlier(outbox'[d], x) = Earlier(outbox[d], x)
      /\ Base(d, z)' = r /\ r \in Nat /\ Written(d, z)' = c \cup {z}
      /\ local'[d][n].rev = r + 1 /\ local'[d][n].content = c \cup {z}
      /\ Earlier(outbox'[d], z) = Mine(d, n)
  BY <1>5, <1>6, LocalEditMine
<1>8. ASSUME NEW e \in Notes, e # n PROVE NoteRests(d, e)
  BY <1>1, <1>7, <1>8 DEF NoteRests, SameConflict, Decides, Chosen, Notes
<1>9. PreviewCovers(d)'
  <2>1. PICK e : e = preview[d].e
    OBVIOUS
  <2>2. e \in Notes => \A x \in Mine(d, e)' \ fresh : x \in Mine(d, e) /\ Written(d, x)' = Written(d, x)
    <3>1. CASE e = n
      BY <1>1, <1>7, <3>1
    <3>2. CASE e # n
      BY <1>7, <3>2, MineSame DEF Notes
    <3>. QED BY <3>1, <3>2
  <2>. QED BY <1>0, <1>1, <1>4, <2>1, <2>2, PreviewStands DEF FieldRules, ConflictRules
<1>10. ASSUME n \in Notes PROVE QueueCovers(d, n)' /\ Consecutive(d, n)'
  <2>0. QueueCovers(d, n) /\ Consecutive(d, n)
    BY <1>10 DEF FieldRules, DeviceCovers
  <2>1. ASSUME NEW x \in Mine(d, n)'
        PROVE  x \in Written(d, x)' /\ Below(Written(d, x), local[d][n].content)'
    <3>1. CASE x = z
      BY <1>7, <3>1 DEF Below
    <3>2. CASE x # z
      <4>1. x \in Written(d, x) /\ Below(Written(d, x), c) /\ Written(d, x)' = Written(d, x)
        BY <1>5, <1>7, <2>0, <3>2 DEF QueueCovers
      <4>. QED BY <1>7, <4>1 DEF Below, Cover
    <3>. QED BY <3>1, <3>2
  <2>2. ASSUME NEW x \in Mine(d, n)', NEW y \in Mine(d, n)', Base(d, x)' <= Base(d, y)'
        PROVE  Below(Written(d, x), Written(d, y))'
    <3>1. CASE y = z
      <4>1. Below(Written(d, x), local[d][n].content)'
        BY <2>1
      <4>. QED BY <1>7, <3>1, <4>1 DEF Below, Cover
    <3>2. CASE y # z
      <4>1. y \in Mine(d, n) /\ x \in Mine(d, n)
        BY <1>7, <2>2, <3>2
      <4>2. Below(Written(d, x), Written(d, y))
        BY <1>7, <2>0, <2>2, <4>1 DEF QueueCovers
      <4>. QED BY <1>7, <4>1, <4>2 DEF Below, Cover
    <3>. QED BY <3>1, <3>2
  <2>3. QueueCovers(d, n)'
    <3>1. local'[d][n].rev # 0
      BY <1>7
    <3>. QED BY <2>1, <2>2, <3>1 DEF QueueCovers
  <2>4. Consecutive(d, n)'
    <3>1. z \in Mine(d, n)' /\ Base(d, z)' + 1 = local'[d][n].rev
      BY <1>7
    <3>2. ASSUME NEW x \in Mine(d, n)', Earlier(outbox'[d], x) # {}
          PROVE  \E y \in Mine(d, n)' : Base(d, y)' + 1 = Base(d, x)'
      BY <1>6, <1>7, <2>0, <3>2 DEF Consecutive
    <3>. QED BY <3>1, <3>2 DEF Consecutive
  <2>. QED BY <2>3, <2>4
<1>11. ASSUME n \in Notes PROVE FirstFits(d, n)'
  <2> SUFFICES ASSUME marker'[d][n] = None, NEW x \in Mine(d, n)', Earlier(outbox'[d], x) = {},
                      receipts'[x] = None
               PROVE  Had(n, Base(d, x), Written(d, x))'
    BY DEF FirstFits
  <2>1. CASE x = z
    <3>1. True(local[d][n], n)
      BY <1>0, <1>7, <2>1 DEF Holds, RowsOn, Mine
    <3>2. r > 0 => r <= Revision(n) /\ c = history[n][r]
      BY <1>5, <1>6, <3>1 DEF True
    <3>. QED BY <1>1, <1>7, <2>1, <3>2 DEF Had, Below, Cover, Revision
  <2>2. CASE x # z
    <3>1. Had(n, Base(d, x), Written(d, x))
      BY <1>1, <1>7, <1>11, <2>2 DEF FieldRules, DeviceCovers, FirstFits
    <3>. QED BY <1>1, <1>7, <2>2, <3>1 DEF Had, Below, Cover, Revision
  <2>. QED BY <2>1, <2>2
<1>12. ASSUME n \in Notes PROVE DecisionCovers(d, n)'
  <2> SUFFICES ASSUME Decides(d, n)' PROVE DecisionCovers(d, n)'
    BY DEF DecisionCovers
  <2>1. Decides(d, n) /\ marker'[d][n] = marker[d][n]
    BY <1>1 DEF Decides
  <2>2. PICK rec : rec = marker[d][n].resolution
    OBVIOUS
  <2>3. /\ WeighsFor(rec.op)
        /\ \A s \in Mine(d, n) \cap rec.supersedes : Below(Written(d, s), rec.op.content)
        /\ \A x \in Mine(d, n) \ rec.supersedes :
             /\ \A s \in Mine(d, n) \cap rec.supersedes : Base(d, s) < Base(d, x)
             /\ x \notin rec.prior /\ Below(rec.prior, Written(d, x))
        /\ rec.prior \cap fresh = {} /\ Below(rec.prior, c)
    BY <1>5, <1>12, <2>1, <2>2 DEF FieldRules, DeviceCovers, DecisionCovers
  <2>4. z \notin rec.supersedes
    BY <1>0, <1>1, <2>1, <2>2 DEF Holds, ResolutionsOn, Decides
  <2>5. Mine(d, n)' \cap rec.supersedes = Mine(d, n) \cap rec.supersedes
    BY <1>7, <2>4
  <2>6. WeighsFor(rec.op)'
    BY <1>1, <2>3 DEF WeighsFor, Weighs, Had, Below, Cover, Revision
  <2>7. \A s \in Mine(d, n)' \cap rec.supersedes : Below(Written(d, s), rec.op.content)'
    BY <1>7, <2>3, <2>5 DEF Below, Cover
  <2>8. ASSUME NEW x \in Mine(d, n)' \ rec.supersedes
        PROVE  /\ \A s \in Mine(d, n)' \cap rec.supersedes : Base(d, s)' < Base(d, x)'
               /\ x \notin rec.prior /\ Below(rec.prior, Written(d, x))'
    <3>1. CASE x = z
      <4>1. x \notin rec.prior
        BY <1>1, <2>3, <3>1
      <4>2. Below(rec.prior, Written(d, x))'
        BY <1>7, <2>3, <3>1 DEF Below, Cover
      <4>. QED BY <1>7, <2>5, <3>1, <4>1, <4>2
    <3>2. CASE x # z
      <4>1. x \in Mine(d, n)
        BY <1>7, <3>2
      <4>2. Below(rec.prior, Written(d, x))'
        BY <1>7, <2>3, <4>1 DEF Below, Cover
      <4>. QED BY <1>7, <2>3, <2>5, <4>1, <4>2
    <3>. QED BY <3>1, <3>2
  <2>9. rec.prior \cap fresh' = {} /\ Below(rec.prior, local[d][n].content)'
    BY <1>1, <1>7, <2>3 DEF Below, Cover
  <2>10. marker'[d][n].resolution = rec
    BY <2>1, <2>2
  <2>. QED BY <2>6, <2>7, <2>8, <2>9, <2>10 DEF DecisionCovers
<1>13. ASSUME n \in Notes PROVE SnapshotNew(d, n)'
  <2>1. SnapshotNew(d, n)
    BY <1>13 DEF FieldRules, DeviceCovers
  <2>2. Mine(d, n)' # {}
    BY <1>7
  <2>. QED BY <1>1, <2>1, <2>2 DEF SnapshotNew
<1>14. ASSUME NEW e \in Notes PROVE DeviceCovers(d, e)'
  <2>1. CASE e = n
    BY <1>10, <1>11, <1>12, <1>13, <2>1 DEF DeviceCovers
  <2>2. CASE e # n
    BY <1>1, <1>4, <1>8, <2>2, NoteStands DEF DeviceCovers
  <2>. QED BY <2>1, <2>2
<1>. QED BY <1>1, <1>2, <1>3, <1>4, <1>9, <1>14, FieldDevice DEF Redecides

-----------------------------------------------------------------------------
(* Steps that replace working copies, or compare and decide. *)

\* A download replaces only what nothing depends on.
LEMMA DownloadedRow ==
  ASSUME TypeOK, NEW d \in Devices, Download(d), NEW e \in Entities
  PROVE  \/ local'[d][e] = local[d][e]
         \/ /\ Mine(d, e) = {} /\ marker[d][e] = None
            /\ local'[d][e].rev = 0 => local'[d][e].content = {}
<1>1. PICK rev \in [Entities -> 0 .. Cardinality(Edits \cup Resolutions) + 1] :
        local' = [local EXCEPT ![d] = [n \in Entities |->
             IF Pending(outbox[d], n) # {} \/ marker[d][n] # None
             THEN local[d][n]
             ELSE IF rev[n] = 0 THEN NoRow ELSE Row(rev[n], history[n][rev[n]])]]
  BY DEF Download
<1>2. \/ local'[d][e] = local[d][e]
      \/ /\ Pending(outbox[d], e) = {} /\ marker[d][e] = None
         /\ \/ local'[d][e] = NoRow
            \/ rev[e] # 0 /\ local'[d][e] = Row(rev[e], history[e][rev[e]])
  BY <1>1 DEF TypeOK
<1>3. NoRow.content = {} /\ \A n, c : Row(n, c).rev = n
  BY DEF NoRow, Row
<1>. QED BY <1>2, <1>3 DEF Mine

LEMMA DownloadKeepsFields ==
  ASSUME Inductive, TypeOK', QueueRules, ConflictRules, FieldRules, NEW d \in Devices, Download(d)
  PROVE  FieldRules'
<1>0. TypeOK
  BY Parts
<1>1. /\ Alone(d)
      /\ UNCHANGED <<history, copies, receipts, late, outbox, marker, preview, sync, fresh, decided>>
  BY <1>0, DownloadEffect
<1>2. Requested' \subseteq Requested
  BY <1>1, NothingRequested
<1>3. RequestsSingle'
  BY <1>1, SingleStays DEF FieldRules
<1>4. Grows /\ CopiesAge /\ ReceiptsStay
  BY <1>0, <1>1, HistoryStays DEF CopiesAge, ReceiptsStay
<1>5. \A e \in Entities : SameMine(d, e)
  BY <1>1, SameQueueMine DEF SameQueue
<1>6. PreviewCovers(d)'
  <2>1. PICK e : e = preview[d].e
    OBVIOUS
  <2>2. e \in Notes => \A x \in Mine(d, e)' : x \in Mine(d, e) /\ Written(d, x)' = Written(d, x)
    BY <1>5, MineSame DEF Notes
  <2>. QED BY <1>0, <1>1, <1>4, <2>1, <2>2, PreviewStands DEF FieldRules, ConflictRules
<1>7. ASSUME NEW e \in Notes PROVE DeviceCovers(d, e)'
  <2>0. e \in Entities
    BY DEF Notes
  <2>1. CASE local'[d][e] = local[d][e]
    <3>1. NoteRests(d, e)
      BY <1>1, <1>5, <2>0, <2>1 DEF NoteRests, SameConflict, Decides, Chosen
    <3>. QED BY <1>1, <1>4, <3>1, NoteStands DEF DeviceCovers
  <2>2. CASE local'[d][e] # local[d][e]
    <3>1. /\ Mine(d, e)' = {} /\ marker'[d][e] = None
          /\ local'[d][e].rev = 0 => local'[d][e].content = {}
      BY <1>0, <1>1, <1>5, <2>0, <2>2, DownloadedRow DEF SameMine
    <3>2. SnapshotNew(d, e)
      BY DEF FieldRules, DeviceCovers
    <3>3. SnapshotNew(d, e)'
      BY <1>1, <3>1, <3>2 DEF SnapshotNew
    <3>. QED BY <3>1, <3>3 DEF DeviceCovers, QueueCovers, Consecutive, FirstFits, DecisionCovers, Decides
  <2>. QED BY <2>1, <2>2
<1>. QED BY <1>1, <1>2, <1>3, <1>4, <1>6, <1>7, FieldDevice DEF Redecides

\* The last of what waits covers the rest.
LEMMA LatestCovers ==
  ASSUME Inductive, FieldRules, NEW d \in Devices, NEW e \in Notes, NEW x \in Mine(d, e)
  PROVE  Below(Written(d, x), LatestContent(outbox[d], Mine(d, e)))
<1>1. TypeOK /\ OrderedOn(d) /\ e \in Entities /\ QueueCovers(d, e) /\ Consecutive(d, e)
  BY Parts DEF Holds, FieldRules, DeviceCovers, Notes
<1>2. PICK y \in Mine(d, e) : Base(d, y) + 1 = local[d][e].rev
  BY <1>1 DEF Consecutive
<1>3. \A z \in Mine(d, e) : Base(d, z) \in Nat /\ Base(d, z) < local[d][e].rev
  BY <1>1, MineTyped DEF OrderedOn, Mine, Base
<1>4. \A z \in Mine(d, e) : Base(d, z) <= Base(d, y)
  BY <1>2, <1>3
<1>5. Written(d, y) \subseteq LatestContent(outbox[d], Mine(d, e))
  BY <1>4 DEF LatestContent, Base, Written
<1>6. Below(Written(d, x), Written(d, y))
  BY <1>1, <1>4 DEF QueueCovers
<1>. QED BY <1>5, <1>6 DEF Below, Cover

LEMMA CompareKeepsFields ==
  ASSUME Inductive, TypeOK', QueueRules, ConflictRules, FieldRules, NEW d \in Devices,
         NEW n \in Entities, Compare(d, n)
  PROVE  FieldRules'
<1>0. TypeOK
  BY Parts
<1>1. PICK c \in copies :
        /\ Alone(d) /\ marker[d][n] # None /\ c.id = marker[d][n].copy
        /\ preview'[d].e = n /\ preview'[d].marker = marker[d][n]
        /\ preview'[d].pending = Pending(outbox[d], n)
        /\ preview'[d].base = Revision(n) /\ preview'[d].seenCopy = c.rev
        /\ preview'[d].content = Content(n) \cup c.content \cup
             (IF Pending(outbox[d], n) = {} THEN marker[d][n].content
              ELSE LatestContent(outbox[d], Pending(outbox[d], n)))
        /\ UNCHANGED <<history, copies, receipts, late, outbox, local, marker, sync, fresh, decided>>
  BY <1>0, CompareEffect
<1>2. Requested' \subseteq Requested
  BY <1>1, NothingRequested
<1>3. RequestsSingle'
  BY <1>1, SingleStays DEF FieldRules
<1>4. Grows /\ CopiesAge /\ ReceiptsStay
  BY <1>0, <1>1, HistoryStays DEF CopiesAge, ReceiptsStay
<1>5. \A e \in Notes : NoteRests(d, e)
  BY <1>1, SameRests DEF SameQueue
<1>6. \A e \in Notes : DeviceCovers(d, e)'
  BY <1>1, <1>4, <1>5, NoteStands DEF DeviceCovers
<1>7. PreviewCovers(d)'
  <2> SUFFICES ASSUME n \in Notes PROVE PreviewCovers(d)'
    BY <1>1 DEF PreviewCovers
  <2>1. PICK S : S = preview'[d].content
    OBVIOUS
  <2>2. Had(n, Revision(n), S)
    <3>1. history[n] \in Seq(SUBSET Edits) /\ Content(n) \subseteq S
      BY <1>0, <1>1, <2>1 DEF TypeOK
    <3>2. Revision(n) > 0 => history[n][Revision(n)] = Content(n)
      BY <3>1 DEF Content, Revision
    <3>3. Revision(n) <= Revision(n)
      BY <3>1 DEF Revision
    <3>. QED BY <3>1, <3>2, <3>3, BelowSubset DEF Had
  <2>3. \A b \in copies : b.id = marker[d][n].copy => b.content \subseteq S
    BY <1>1, <2>1 DEF ConflictRules, CopiesHold
  <2>4. Weighs(n, Revision(n), marker[d][n].copy, c.rev, S)
    BY <2>2, <2>3, BelowSubset DEF Weighs
  <2>5. \A x \in Mine(d, n) : x \notin fresh
    BY ApartMade DEF Mine, Pending
  <2>6. ASSUME NEW x \in Mine(d, n) PROVE Below(Written(d, x), S)
    <3>1. LatestContent(outbox[d], Mine(d, n)) \subseteq S
      BY <1>1, <2>1 DEF Mine
    <3>. QED BY <3>1, LatestCovers DEF Below, Cover
  <2>7. Weighs(preview[d].e, preview[d].base, preview[d].marker.copy, preview[d].seenCopy,
               preview[d].content)'
    BY <1>1, <2>1, <2>4 DEF Weighs, Had, Below, Cover, Revision
  <2>8. preview'[d].pending \cap fresh' = {}
    BY <1>1, <2>5 DEF Mine
  <2>9. \A x \in preview'[d].pending \cap Mine(d, n)' : Below(Written(d, x), preview[d].content)'
    BY <1>1, <2>1, <2>6 DEF Below, Cover, Written, Mine
  <2>. QED BY <1>1, <2>7, <2>8, <2>9 DEF PreviewCovers
<1>. QED BY <1>1, <1>2, <1>3, <1>4, <1>6, <1>7, FieldDevice DEF Redecides

LEMMA PrepareKeepsFields ==
  ASSUME Inductive, TypeOK', QueueRules, ConflictRules, EditRules, FieldRules, NEW d \in Devices,
         NEW r \in Resolutions, NEW keep \in BOOLEAN, Prepare(d, r, keep)
  PROVE  FieldRules'
<1>0. TypeOK
  BY Parts
<1>1. PICK p : p = preview[d]
  OBVIOUS
<1>2. PICK e : e = p.e
  OBVIOUS
<1>3. /\ fresh' = fresh \ {r} /\ Alone(d)
      /\ p # None /\ p \in Previews /\ preview'[d] = None
      /\ marker[d][e] = p.marker /\ Pending(outbox[d], e) = p.pending
      /\ \A n \in Entities \ {e} : marker'[d][n] = marker[d][n]
      /\ UNCHANGED <<history, copies, receipts, late, outbox, local, sync, decided>>
  BY <1>0, <1>1, <1>2, PrepareEffect
<1>4. /\ marker'[d][e] # None /\ marker'[d][e].resolution # None
      /\ marker'[d][e].resolution.supersedes = p.pending
      /\ marker'[d][e].resolution.prior = local[d][e].content
  BY <1>0, <1>1, <1>2, PrepareEffect
<1>5. PICK op : op = marker'[d][e].resolution.op
  OBVIOUS
<1>6. op.e = p.e /\ op.base = p.base
  BY <1>0, <1>1, <1>2, <1>5, PrepareEffect
<1>7. op.copy = p.marker.copy /\ op.seenCopy = p.seenCopy
  BY <1>0, <1>1, <1>2, <1>5, PrepareEffect
<1>8. op.content = p.content
  BY <1>0, <1>1, <1>2, <1>5, PrepareEffect
<1>9. Requested' \subseteq Requested
  BY <1>3, NothingRequested
<1>10. RequestsSingle'
  BY <1>3, SingleStays DEF FieldRules
<1>11. Grows /\ CopiesAge /\ ReceiptsStay
  BY <1>0, <1>3, HistoryStays DEF CopiesAge, ReceiptsStay
<1>12. PreviewCovers(d)'
  BY <1>3 DEF PreviewCovers
<1>13. \A n \in Entities : SameMine(d, n)
  BY <1>3, SameQueueMine DEF SameQueue
<1>14. e \in Entities /\ marker[d][e] # None
  BY <1>2, <1>3, NoneAssumption DEF Previews
<1>15. ASSUME e \in Notes PROVE DecisionCovers(d, e)'
  <2>1. /\ Weighs(p.e, p.base, p.marker.copy, p.seenCopy, p.content)
        /\ \A x \in p.pending \cap Mine(d, e) : Below(Written(d, x), p.content)
    BY <1>1, <1>2, <1>3, <1>14, <1>15 DEF FieldRules, PreviewCovers
  <2>2. WeighsFor(op)
    BY <1>6, <1>7, <1>8, <2>1 DEF WeighsFor
  <2>3. WeighsFor(op)'
    BY <1>3, <2>2 DEF WeighsFor, Weighs, Had, Below, Cover, Revision
  <2>4. Mine(d, e)' = p.pending /\ Mine(d, e) = p.pending
    BY <1>3 DEF Mine
  <2>5. \A s \in Mine(d, e)' : Below(Written(d, s), op.content)'
    BY <1>3, <1>8, <2>1, <2>4 DEF Below, Cover, Written
  <2>6. ASSUME NEW x \in fresh PROVE x \notin local[d][e].content
    <3> SUFFICES ASSUME x \in local[d][e].content PROVE FALSE
      OBVIOUS
    <3>1. x \in Edits
      BY <1>0, <1>14, Typed DEF Rows
    <3>2. x \in Apart(e)
      BY <3>1 DEF Apart
    <3>3. outbox[d][x] # None \/ marker[d][e].copy = x
      BY <1>15, <3>2 DEF EditRules, EditsApart, DeviceApart, LocalApart, Behind
    <3>4. marker[d][e].copy = x => receipts[x] # None
      BY <1>14, <1>15 DEF ConflictRules, NoteMarkers, Settled
    <3>. QED BY <3>1, <3>3, <3>4, ApartMade
  <2>7. local[d][e].content \cap fresh' = {}
    BY <1>3, <2>6
  <2>8. Below(local[d][e].content, local[d][e].content)'
    BY DEF Below
  <2>9. WeighsFor(marker[d][e].resolution.op)' /\ \A s \in Mine(d, e)' :
          Below(Written(d, s), marker[d][e].resolution.op.content)'
    BY <1>5, <2>3, <2>5
  <2>10. Below(marker[d][e].resolution.prior, local[d][e].content)'
    BY <1>3, <1>4 DEF Below
  <2>. QED BY <1>4, <2>4, <2>7, <2>9, <2>10 DEF DecisionCovers
<1>16. ASSUME NEW n \in Notes PROVE DeviceCovers(d, n)'
  <2>0. n \in Entities /\ SameMine(d, n) /\ local'[d][n] = local[d][n] /\ DeviceCovers(d, n)
    BY <1>3, <1>13 DEF Notes, FieldRules
  <2>1. CASE n # e
    <3>1. NoteRests(d, n)
      BY <1>3, <2>0, <2>1 DEF NoteRests, SameConflict, Decides, Chosen
    <3>. QED BY <1>3, <1>11, <3>1, NoteStands DEF DeviceCovers
  <2>2. CASE n = e
    <3>1. QueueCovers(d, n)' /\ Consecutive(d, n)'
      BY <2>0, QueueStands DEF DeviceCovers
    <3>2. FirstFits(d, n)'
      BY <1>4, <2>2 DEF FirstFits
    <3>3. SnapshotNew(d, n)'
      BY <1>3, <1>11, <1>14, <2>0, <2>2, SnapshotStands DEF DeviceCovers
    <3>. QED BY <1>15, <2>2, <3>1, <3>2, <3>3 DEF DeviceCovers
  <2>. QED BY <2>1, <2>2
<1>17. fresh' \subseteq fresh
  BY <1>3
<1>. QED BY <1>3, <1>9, <1>10, <1>11, <1>12, <1>16, <1>17, FieldDevice DEF Redecides


-----------------------------------------------------------------------------
(* An answer is acknowledged. *)

\* What waits of note e stays, with its conflict, or its first edit leaves.
Leaves(d, e, w) ==
  /\ w \in Mine(d, e) /\ Earlier(outbox[d], w) = {} /\ marker[d][e] = None
  /\ Mine(d, e)' = Mine(d, e) \ {w}
  /\ \A x \in Mine(d, e) \ {w} : outbox'[d][x].op = outbox[d][x].op
  /\ receipts[w] # None /\ receipts[w].op = outbox[d][w].op
  /\ receipts[w].copied => marker'[d][e] # None
  /\ marker'[d][e] # None =>
       marker'[d][e].resolution = None /\ outbox[d][marker'[d][e].copy] # None
                                       /\ marker'[d][e].copy \in Edits

LEMMA AcknowledgeLeaves ==
  ASSUME Inductive, QueueRules, FieldRules, NEW d \in Devices, Acknowledge(d), NEW e \in Notes
  PROVE  \/ SameMine(d, e) /\ marker'[d][e] = marker[d][e]
         \/ \E w \in Edits : Leaves(d, e, w)
<1> DEFINE done == {op.id : op \in sync[d].ops}
           lost == {a.op : a \in {b \in sync[d].answers : b.copied}}
<1>0. /\ TypeOK /\ Shared /\ Holds(d) /\ OrderedOn(d) /\ OperationsOn(d) /\ RequestOn(d)
      /\ e \in Entities /\ Single(sync[d].ops)
  BY Parts DEF Holds, Notes, FieldRules, RequestsSingle
<1>1. /\ sync[d].stage = "read" /\ ~Resolving(d)
      /\ \A x \in Edits :
           /\ outbox'[d][x] # None <=> outbox[d][x] # None /\ x \notin done
           /\ outbox'[d][x] # None => outbox'[d][x].op = outbox[d][x].op
  BY <1>0, AcknowledgeEffect
<1>2. \/ marker'[d][e] = marker[d][e] /\ ~ \E op \in lost : op.e = e
      \/ \E op \in lost : /\ op.e = e /\ marker'[d][e].copy = op.id
                          /\ marker'[d][e] # None /\ marker'[d][e].resolution = None
  BY <1>0, AcknowledgeEffect
<1>3. \A op \in sync[d].ops : op \in Requested /\ op.id \in Edits /\ outbox[d][op.id] # None
                              /\ outbox[d][op.id].op = op
  <2>1. \A op \in sync[d].ops : op.id \in Edits \cup Resolutions /\ op.id \notin Resolutions
    BY <1>0, <1>1, Typed DEF Syncs, Operations, Resolving
  <2>. QED BY <1>0, <1>1, <2>1 DEF Requested, RequestOn, OperationsOn
<1>4. \A op \in lost : op \in sync[d].ops
  <2> SUFFICES ASSUME NEW a \in sync[d].answers, a.copied PROVE a.op \in sync[d].ops
    OBVIOUS
  <2>. QED BY <1>0, <1>1, LostRequested
<1>5. \A op \in sync[d].ops : receipts[op.id] # None /\ receipts[op.id] \in sync[d].answers
  BY <1>1 DEF QueueRules, AnswersHold, Known
<1>6. \A op \in sync[d].ops : receipts[op.id].copied /\ receipts[op.id].op = op => op \in lost
  BY <1>5
<1>7. \A x \in Mine(d, e) : x \in done => \E op \in sync[d].ops : op.id = x /\ op.e = e
  BY <1>3 DEF Mine, Pending
<1>8. Mine(d, e)' = {x \in Mine(d, e) : x \notin done}
  BY <1>1 DEF Mine, Pending
<1>9. \A x \in Mine(d, e)' : outbox'[d][x].op = outbox[d][x].op
  BY <1>1 DEF Mine, Pending
<1>10. CASE ~ \E op \in sync[d].ops : op.e = e
  <2>1. Mine(d, e)' = Mine(d, e)
    BY <1>7, <1>8, <1>10
  <2>. QED BY <1>2, <1>4, <1>9, <1>10, <2>1 DEF SameMine
<1>11. ASSUME NEW op \in sync[d].ops, op.e = e PROVE \E w \in Edits : Leaves(d, e, w)
  <2> HIDE DEF lost
  <2>0. PICK w \in Edits : w = op.id
    BY <1>3
  <2>1. /\ outbox[d][w] # None /\ outbox[d][w].op = op /\ w \in Mine(d, e) /\ op \in Requested
    BY <1>3, <1>11, <2>0 DEF Mine, Pending
  <2>2. Earlier(outbox[d], w) = {} /\ marker[d][e] = None
    BY <1>11, <2>0, <2>1 DEF QueueRules, OnlyFirstRequested
  <2>3. Mine(d, e)' = Mine(d, e) \ {w}
    BY <1>0, <1>7, <1>8, <1>11, <2>0 DEF Single
  <2>4. receipts[w] # None /\ receipts[w].op = op
    BY <1>5, <1>11, <2>0, <2>1, AnsweredAsQueued
  <2>5. receipts[w].copied => marker'[d][e] # None
    BY <1>2, <1>6, <1>11, <2>0, <2>4
  <2>6. marker'[d][e] # None => /\ marker'[d][e].resolution = None
                                /\ outbox[d][marker'[d][e].copy] # None
                                /\ marker'[d][e].copy \in Edits
    BY <1>2, <1>3, <1>4, <2>2
  <2>. QED BY <1>9, <2>1, <2>2, <2>3, <2>4, <2>5, <2>6 DEF Leaves
<1>. QED BY <1>10, <1>11

\* What is left when the first edit of a note leaves.
LEMMA LeavesRest ==
  ASSUME Inductive, NEW d \in Devices, NEW e \in Notes, NEW w \in Edits, Leaves(d, e, w)
  PROVE  /\ \A x \in Mine(d, e)' : x \in Mine(d, e) /\ x # w
         /\ \A x \in Mine(d, e) \ {w} :
              /\ x \in Mine(d, e)' /\ Base(d, x)' = Base(d, x) /\ Written(d, x)' = Written(d, x)
              /\ Base(d, x) \in Nat /\ Base(d, w) \in Nat /\ Base(d, w) < Base(d, x)
              /\ Base(d, x) < local[d][e].rev /\ local[d][e].rev \in Nat
              /\ \A y \in Mine(d, e) \ {w} :
                   y \in Earlier(outbox'[d], x) <=> Base(d, y) < Base(d, x)
              /\ Earlier(outbox[d], x) # {}
<1>0. TypeOK /\ OrderedOn(d) /\ e \in Entities
  BY Parts DEF Holds, Notes
<1>1. /\ w \in Mine(d, e) /\ Earlier(outbox[d], w) = {}
      /\ Mine(d, e)' = Mine(d, e) \ {w}
      /\ \A x \in Mine(d, e) \ {w} : outbox'[d][x].op = outbox[d][x].op
  BY DEF Leaves
<1>2. \A x \in Mine(d, e) : /\ outbox[d][x].op.e = e /\ Base(d, x) \in Nat
                            /\ Base(d, x) < local[d][e].rev
  BY <1>0, MineTyped DEF OrderedOn, Mine, Base
<1>3. local[d][e].rev \in Nat
  BY <1>0, Typed DEF Rows
<1>4. \A x \in Mine(d, e) \ {w} : Base(d, x) # Base(d, w)
  BY <1>0, <1>1 DEF OrderedOn, Mine, Base
<1>5. \A x \in Mine(d, e) : ~(Base(d, x) < Base(d, w))
  BY <1>1, <1>2 DEF Earlier, Mine, Base
<1>6. ASSUME NEW x \in Mine(d, e) \ {w}
      PROVE  /\ Base(d, x)' = Base(d, x) /\ Written(d, x)' = Written(d, x)
             /\ Base(d, w) < Base(d, x) /\ Earlier(outbox[d], x) # {}
  <2>1. Base(d, x)' = Base(d, x) /\ Written(d, x)' = Written(d, x)
    BY <1>1 DEF Base, Written
  <2>2. Base(d, w) < Base(d, x)
    BY <1>1, <1>2, <1>4, <1>5
  <2>3. w \in Earlier(outbox[d], x)
    BY <1>1, <1>2, <2>2 DEF Earlier, Mine, Base
  <2>. QED BY <2>1, <2>2, <2>3
<1>7. ASSUME NEW x \in Mine(d, e) \ {w}, NEW y \in Mine(d, e) \ {w}
      PROVE  y \in Earlier(outbox'[d], x) <=> Base(d, y) < Base(d, x)
  BY <1>1, <1>2 DEF Earlier, Mine, Base
<1>. QED BY <1>1, <1>2, <1>3, <1>6, <1>7


LEMMA AcknowledgeKeepsNote ==
  ASSUME Inductive, TypeOK', QueueRules, ConflictRules, EditRules, FieldRules, Grows, CopiesAge,
         ReceiptsStay, NEW d \in Devices, NEW e \in Notes,
         UNCHANGED <<history, copies, receipts, fresh>>, sync[d].stage = "read",
         SameMine(d, e), marker'[d][e] = marker[d][e], sync'[d] = Idle,
         local'[d][e] = IF Pending(outbox'[d], e) # {} THEN local[d][e]
                        ELSE sync[d].snapshot.rows[e]
  PROVE  DeviceCovers(d, e)'
<1>0. TypeOK /\ RequestOn(d) /\ e \in Entities
  BY Parts DEF Holds, Notes
<1>1. SnapshotNew(d, e)'
  BY DEF SnapshotNew, Idle, Request
<1>2. CASE local'[d][e] = local[d][e]
  <2>1. NoteRests(d, e)
    BY <1>2 DEF NoteRests, SameConflict, Decides, Chosen
  <2>. QED BY <1>1, <2>1, NoteStands DEF DeviceCovers
<1>3. CASE local'[d][e] # local[d][e]
  <2>1. Mine(d, e) = {} /\ Mine(d, e)' = {} /\ local'[d][e] = sync[d].snapshot.rows[e]
    BY <1>3 DEF SameMine, Mine
  <2>2. QueueCovers(d, e)' /\ Consecutive(d, e)' /\ FirstFits(d, e)'
    <3>1. local'[d][e].rev = 0 => local'[d][e].content = {}
      BY <1>0, <2>1 DEF EditRules, SnapshotsTrue, RequestOn
    <3>. QED BY <2>1, <3>1 DEF QueueCovers, Consecutive, FirstFits
  <2>3. DecisionCovers(d, e)'
    <3> SUFFICES ASSUME Decides(d, e)' PROVE DecisionCovers(d, e)'
      BY DEF DecisionCovers
    <3>1. Decides(d, e)
      BY DEF Decides
    <3>2. PICK rec : rec = marker[d][e].resolution
      OBVIOUS
    <3>3. WeighsFor(rec.op) /\ rec.prior \cap fresh = {} /\ Below(rec.prior, local[d][e].content)
      BY <3>1, <3>2 DEF FieldRules, DeviceCovers, DecisionCovers
    <3>4. Below(local[d][e].content, sync[d].snapshot.rows[e].content)
      BY <2>1, <3>1 DEF FieldRules, DeviceCovers, SnapshotNew, Decides
    <3>5. Below(rec.prior, local[d][e].content)'
      BY <2>1, <3>3, <3>4 DEF Below, Cover
    <3>6. WeighsFor(rec.op)'
      BY <3>3 DEF WeighsFor, Weighs, Had, Below, Cover, Revision
    <3>. QED BY <2>1, <3>2, <3>3, <3>5, <3>6 DEF DecisionCovers
  <2>. QED BY <1>1, <2>2, <2>3 DEF DeviceCovers
<1>. QED BY <1>2, <1>3

\* The next edit of the note fits, if the first was applied.
LEMMA NextFits ==
  ASSUME Inductive, TypeOK', QueueRules, FieldRules, NEW d \in Devices, NEW e \in Notes,
         NEW w \in Edits, Leaves(d, e, w), UNCHANGED <<history, receipts>>
  PROVE  FirstFits(d, e)'
<1> SUFFICES ASSUME marker'[d][e] = None, NEW x \in Mine(d, e)', Earlier(outbox'[d], x) = {},
                    receipts'[x] = None
             PROVE  Had(e, Base(d, x), Written(d, x))'
  BY DEF FirstFits
<1>0. TypeOK /\ QueueCovers(d, e) /\ Consecutive(d, e) /\ w \in Mine(d, e)
  BY Parts DEF FieldRules, DeviceCovers, Leaves
<1>1. /\ x \in Mine(d, e) /\ x # w /\ Earlier(outbox[d], x) # {}
      /\ Base(d, x)' = Base(d, x) /\ Written(d, x)' = Written(d, x)
      /\ Base(d, x) \in Nat /\ Base(d, w) \in Nat /\ Base(d, w) < Base(d, x)
      /\ \A y \in Mine(d, e) \ {w} : ~(Base(d, y) < Base(d, x))
  BY LeavesRest
<1>2. PICK y \in Mine(d, e) : Base(d, y) + 1 = Base(d, x)
  BY <1>0, <1>1 DEF Consecutive
<1>3. Base(d, y) \in Nat
  BY <1>0, MineTyped DEF Notes
<1>4. y = w
  BY <1>1, <1>2, <1>3
<1>5. receipts[w] # None /\ receipts[w].op = outbox[d][w].op /\ ~receipts[w].copied
  BY DEF Leaves
<1>6. outbox[d][w] # None /\ outbox[d][w].op.e = e /\ Plain(outbox[d][w].op) /\ w \in DOMAIN receipts
  BY <1>0 DEF Mine, Pending, QueueRules, EditsPlain, TypeOK
<1>7. AnswerTrue(receipts[w])
  BY <1>5, <1>6 DEF FieldRules, ServerCovers, AnswersTrue
<1>8. /\ receipts[w].rev = Base(d, x) /\ Base(d, x) <= Revision(e)
      /\ history[e][Base(d, x)] = Written(d, w)
  BY <1>2, <1>4, <1>5, <1>6, <1>7 DEF AnswerTrue, Plain, Base, Written
<1>9. Below(Written(d, w), Written(d, x))
  BY <1>0, <1>1 DEF QueueCovers
<1>10. Had(e, Base(d, x), Written(d, x))
  BY <1>8, <1>9 DEF Had
<1>. QED BY <1>1, <1>10 DEF Had, Below, Cover, Revision

LEMMA LeavesKeepsNote ==
  ASSUME Inductive, TypeOK', QueueRules, EditRules, FieldRules, NEW d \in Devices, NEW e \in Notes,
         NEW w \in Edits, Leaves(d, e, w), UNCHANGED <<history, receipts>>,
         sync[d].stage = "read", sync'[d] = Idle,
         local'[d][e] = IF Pending(outbox'[d], e) # {} THEN local[d][e]
                        ELSE sync[d].snapshot.rows[e]
  PROVE  DeviceCovers(d, e)'
<1>0. /\ TypeOK /\ RequestOn(d) /\ e \in Entities /\ w \in Mine(d, e)
      /\ QueueCovers(d, e) /\ Consecutive(d, e)
  BY Parts DEF Holds, Notes, FieldRules, DeviceCovers, Leaves
<1>1. SnapshotNew(d, e)'
  BY DEF SnapshotNew, Idle, Request
<1>2. DecisionCovers(d, e)'
  BY DEF DecisionCovers, Decides, Leaves
<1>3. FirstFits(d, e)'
  BY NextFits
<1>4. /\ \A x \in Mine(d, e)' : x \in Mine(d, e) /\ x # w
      /\ \A x \in Mine(d, e) \ {w} :
              /\ x \in Mine(d, e)' /\ Base(d, x)' = Base(d, x) /\ Written(d, x)' = Written(d, x)
              /\ Base(d, x) \in Nat /\ Base(d, w) \in Nat /\ Base(d, w) < Base(d, x)
              /\ Base(d, x) < local[d][e].rev /\ local[d][e].rev \in Nat
              /\ Earlier(outbox[d], x) # {}
              /\ \A y \in Mine(d, e) \ {w} :
                   y \in Earlier(outbox'[d], x) <=> Base(d, y) < Base(d, x)
  BY LeavesRest
<1>5. Mine(d, e)' # {} => local'[d][e] = local[d][e]
  BY DEF Mine
<1>6. QueueCovers(d, e)'
  <2>1. local'[d][e].rev = 0 => local'[d][e].content = {}
    <3>1. sync[d].snapshot.rows[e].rev = 0 => sync[d].snapshot.rows[e].content = {}
      BY <1>0 DEF EditRules, SnapshotsTrue, RequestOn
    <3>. QED BY <1>0, <3>1 DEF QueueCovers
  <2>2. ASSUME NEW x \in Mine(d, e)'
        PROVE  x \in Written(d, x)' /\ Below(Written(d, x), local[d][e].content)'
    <3>1. x \in Written(d, x) /\ Below(Written(d, x), local[d][e].content)
      BY <1>0, <1>4 DEF QueueCovers
    <3>. QED BY <1>4, <1>5, <3>1 DEF Below, Cover
  <2>3. ASSUME NEW x \in Mine(d, e)', NEW y \in Mine(d, e)', Base(d, x)' <= Base(d, y)'
        PROVE  Below(Written(d, x), Written(d, y))'
    <3>1. Below(Written(d, x), Written(d, y))
      BY <1>0, <1>4, <2>3 DEF QueueCovers
    <3>. QED BY <1>4, <3>1 DEF Below, Cover
  <2>. QED BY <2>1, <2>2, <2>3 DEF QueueCovers
<1>7. Consecutive(d, e)'
  <2>1. ASSUME Mine(d, e)' # {} PROVE \E y \in Mine(d, e)' : Base(d, y)' + 1 = local'[d][e].rev
    <3>1. PICK x \in Mine(d, e)' : TRUE
      BY <2>1
    <3>2. PICK y \in Mine(d, e) : Base(d, y) + 1 = local[d][e].rev
      BY <1>0 DEF Consecutive
    <3>3. y # w
      BY <1>4, <3>1, <3>2
    <3>. QED BY <1>4, <1>5, <2>1, <3>2, <3>3
  <2>2. ASSUME NEW x \in Mine(d, e)', Earlier(outbox'[d], x) # {}
        PROVE  \E y \in Mine(d, e)' : Base(d, y)' + 1 = Base(d, x)'
    <3>1. x \in Mine(d, e) /\ x # w /\ Earlier(outbox[d], x) # {}
      BY <1>4
    <3>2. PICK y \in Mine(d, e) : Base(d, y) + 1 = Base(d, x)
      BY <1>0, <3>1 DEF Consecutive
    <3>3. PICK v \in Earlier(outbox'[d], x) : TRUE
      BY <2>2
    <3>4. v \in Mine(d, e)'
      <4>1. outbox'[d][x].op.e = e
        BY <2>2 DEF Mine, Pending
      <4>. QED BY <3>3, <4>1 DEF Earlier, Mine
    <3>5. v \in Mine(d, e) /\ v # w /\ Base(d, v) < Base(d, x)
      BY <1>4, <3>1, <3>3, <3>4
    <3>6. y # w
      BY <1>4, <3>1, <3>2, <3>5
    <3>. QED BY <1>4, <3>1, <3>2, <3>6
  <2>. QED BY <2>1, <2>2 DEF Consecutive
<1>. QED BY <1>1, <1>2, <1>3, <1>6, <1>7 DEF DeviceCovers

LEMMA AcknowledgeKeepsFields ==
  ASSUME Inductive, TypeOK', QueueRules, ConflictRules, EditRules, FieldRules, NEW d \in Devices,
         Acknowledge(d)
  PROVE  FieldRules'
<1>0. TypeOK /\ RequestOn(d)
  BY Parts DEF Holds
<1>1. /\ Alone(d) /\ sync[d].stage = "read" /\ sync'[d] = Idle
      /\ UNCHANGED <<history, copies, receipts, late, preview, fresh, decided>>
      /\ \A e \in Entities :
           local'[d][e] = IF Pending(outbox'[d], e) # {} THEN local[d][e]
                          ELSE sync[d].snapshot.rows[e]
  BY <1>0, AcknowledgeEffect
<1>2. Idle.ops = {}
  BY DEF Idle, Request
<1>3. \A o \in Devices : sync'[o].ops \subseteq sync[o].ops
  BY <1>1, <1>2 DEF Alone
<1>4. Requested' \subseteq Requested
  BY <1>1, <1>3, NothingRequested
<1>5. RequestsSingle'
  BY <1>1, <1>3, SingleStays DEF FieldRules
<1>6. Grows /\ CopiesAge /\ ReceiptsStay
  BY <1>0, <1>1, HistoryStays DEF CopiesAge, ReceiptsStay
<1>7. ASSUME NEW e \in Notes PROVE DeviceCovers(d, e)'
  <2>1. CASE SameMine(d, e) /\ marker'[d][e] = marker[d][e]
    BY <1>1, <1>6, <2>1, AcknowledgeKeepsNote DEF Notes
  <2>2. ASSUME NEW w \in Edits, Leaves(d, e, w) PROVE DeviceCovers(d, e)'
    BY <1>1, <2>2, LeavesKeepsNote DEF Notes
  <2>. QED BY <2>1, <2>2, AcknowledgeLeaves
<1>8. PreviewCovers(d)'
  <2>1. PICK e : e = preview[d].e
    OBVIOUS
  <2>2. ASSUME preview[d] # None, e \in Notes, marker'[d][e] # None,
               marker'[d][e].copy = preview[d].marker.copy
        PROVE  /\ marker[d][e] # None /\ marker[d][e].copy = preview[d].marker.copy
               /\ \A x \in Mine(d, e)' : x \in Mine(d, e) /\ Written(d, x)' = Written(d, x)
    <3>1. CASE SameMine(d, e) /\ marker'[d][e] = marker[d][e]
      BY <2>2, <3>1, MineSame DEF Notes
    <3>2. ASSUME NEW w \in Edits, Leaves(d, e, w) PROVE FALSE
      <4>1. Gone(preview[d].marker.copy)
        BY <2>1, <2>2 DEF ConflictRules, NoteDecisions, Shown, Seen, Settled
      <4>. QED BY <2>2, <3>2, <4>1 DEF Leaves, Gone
    <3>. QED BY <2>2, <3>1, <3>2, AcknowledgeLeaves
  <2>. QED BY <1>0, <1>1, <1>6, <2>1, <2>2, PreviewStands DEF FieldRules, ConflictRules
<1>. QED BY <1>1, <1>4, <1>5, <1>6, <1>7, <1>8, FieldDevice DEF Redecides


-----------------------------------------------------------------------------
(* A decision is acknowledged: newer edits are moved onto its version. *)

LEMMA ChangedMore ==
  ASSUME NEW q, NEW prior, NEW S, NEW T, S \subseteq T
  PROVE  Changed(q, S, prior) \subseteq Changed(q, T, prior)
BY DEF Changed

\* What is moved sets what the version sets and what has been changed.
LEMMA RebasedCover ==
  ASSUME NEW q, NEW prior, NEW canonical, NEW S, NEW m \in S,
         \A z \in S : q[z].op.base <= q[m].op.base,
         \A x \in S : /\ Below(Previous(q, x, prior), q[x].op.content)
                      /\ Below(q[x].op.content, q[m].op.content)
  PROVE  Cover(RebasedContent(q, S, prior, canonical)) = Cover(canonical) \cup Changed(q, S, prior)
<1> DEFINE R == RebasedContent(q, S, prior, canonical)
           C == Changed(q, S, prior)
           L == LatestContent(q, S)
<1>1. q[m].op.content \subseteq L
  BY DEF LatestContent
<1>2. ASSUME NEW f \in C PROVE f \in Cover(L)
  <2>1. PICK x \in S : \E z : /\ f = Field[z]
                              /\ \/ z \in q[x].op.content
                                 \/ z \in Previous(q, x, prior)
    BY <1>2 DEF Changed
  <2>2. f \in Cover(q[x].op.content)
    BY <2>1 DEF Below, Cover
  <2>3. f \in Cover(q[m].op.content)
    BY <2>2 DEF Below
  <2>. QED BY <1>1, <2>3 DEF Cover
<1>3. R = {z \in canonical : Field[z] \notin C} \cup {z \in L : Field[z] \in C}
  BY DEF RebasedContent
<1> HIDE DEF R, C, L
<1>4. C \subseteq Cover(R)
  BY <1>2, <1>3 DEF Cover
<1>5. Cover(canonical) \subseteq Cover(R)
  <2> SUFFICES ASSUME NEW z \in canonical PROVE Field[z] \in Cover(R)
    BY DEF Cover
  <2>1. CASE Field[z] \in C
    BY <1>4, <2>1
  <2>2. CASE Field[z] \notin C
    BY <1>3, <2>2 DEF Cover
  <2>. QED BY <2>1, <2>2
<1>6. Cover(R) \subseteq Cover(canonical) \cup C
  BY <1>3 DEF Cover
<1>. QED BY <1>4, <1>5, <1>6 DEF R, C

\* What a decision on e that is acknowledged leaves in the queue of device d,
\* and what it is moved onto.
Moving(d, e, q, prior, canonical, rev, newer) ==
  /\ e = Resolution(d).e
  /\ q = Without(outbox[d], marker[d][e].resolution.supersedes)
  /\ prior = marker[d][e].resolution.prior
  /\ canonical = sync[d].snapshot.rows[e].content
  /\ rev = (CHOOSE a \in sync[d].answers : TRUE).rev
  /\ newer = Mine(d, e) \ marker[d][e].resolution.supersedes

Moved(d, e, q, prior, canonical, rev, newer) ==
  /\ rev \in Nat /\ Mine(d, e)' = newer
  /\ \A x \in newer :
       /\ q[x] = outbox[d][x] /\ Base(d, x) \in Nat
       /\ Earlier(q, x) = {y \in newer : Base(d, y) < Base(d, x)}
       /\ Base(d, x)' = rev + Cardinality(Earlier(q, x))
       /\ Written(d, x)' = RebasedContent(q, Earlier(q, x) \cup {x}, prior, canonical)
  /\ newer # {} =>
       /\ local'[d][e].rev = rev + Cardinality(newer)
       /\ local'[d][e].content = RebasedContent(q, newer, prior, canonical)

LEMMA FinishResolutionMoves ==
  ASSUME TypeOK, TypeOK', NEW d \in Devices, FinishResolution(d), RequestOn(d), ResolutionsOn(d),
         OperationsOn(d), NEW e \in Entities, NEW q, NEW prior, NEW canonical, NEW rev, NEW newer,
         Moving(d, e, q, prior, canonical, rev, newer)
  PROVE  Moved(d, e, q, prior, canonical, rev, newer)
<1>0. /\ e = Resolution(d).e
      /\ q = Without(outbox[d], marker[d][e].resolution.supersedes)
      /\ prior = marker[d][e].resolution.prior
      /\ canonical = sync[d].snapshot.rows[e].content
      /\ rev = (CHOOSE a \in sync[d].answers : TRUE).rev
      /\ newer = Mine(d, e) \ marker[d][e].resolution.supersedes
  BY DEF Moving
<1>1. /\ Resolving(d) /\ sync[d].stage = "read"
      /\ outbox'[d] = Rebase(q, e, prior, canonical, rev)
      /\ local'[d][e] = IF Pending(q, e) = {} THEN sync[d].snapshot.rows[e]
           ELSE Row(rev + Cardinality(Pending(q, e)),
                    RebasedContent(q, Pending(q, e), prior, canonical))
  <2> DEFINE n == Resolution(d).e
             left == Without(outbox[d], marker[d][n].resolution.supersedes)
             before == marker[d][n].resolution.prior
             row == sync[d].snapshot.rows[n]
             at == (CHOOSE a \in sync[d].answers : TRUE).rev
  <2>1. Resolving(d) /\ sync[d].stage = "read"
    BY DEF FinishResolution
  <2>2. outbox' = [outbox EXCEPT ![d] = Rebase(left, n, before, row.content, at)]
    BY DEF FinishResolution
  <2>3. local'[d][n] = IF Pending(left, n) = {} THEN row
           ELSE Row(at + Cardinality(Pending(left, n)),
                    RebasedContent(left, Pending(left, n), before, row.content))
    BY <1>0 DEF FinishResolution, TypeOK
  <2>4. e = n /\ q = left /\ prior = before /\ canonical = row.content /\ rev = at
    BY <1>0
  <2>5. row = sync[d].snapshot.rows[e]
    BY <1>0
  <2> HIDE DEF n, left, before, row, at
  <2>6. outbox'[d] = Rebase(q, e, prior, canonical, rev)
    BY <2>2, <2>4 DEF TypeOK
  <2>. QED BY <2>1, <2>3, <2>4, <2>5, <2>6
<1>2. rev \in Nat
  <2>1. (CHOOSE a \in sync[d].answers : TRUE) \in Answers
    BY <1>1, Typed DEF Syncs, RequestOn
  <2>. QED BY <1>0, <2>1 DEF Answers
<1>3. \A x \in Edits : q[x] = IF x \in marker[d][e].resolution.supersedes THEN None ELSE outbox[d][x]
  BY <1>0 DEF Without
<1>4. Pending(q, e) = newer /\ \A x \in newer : x \in Edits /\ q[x] = outbox[d][x]
  BY <1>0, <1>3 DEF Pending, Mine
<1>5. \A x \in newer : Base(d, x) \in Nat /\ q[x].op.e = e
  <2>1. \A x \in newer : x \in Mine(d, e)
    BY <1>0
  <2>2. \A x \in Mine(d, e) : Base(d, x) \in Nat /\ outbox[d][x].op.e = e
    BY MineTyped
  <2>. QED BY <1>4, <2>1, <2>2
<1>6. \A x \in newer : Earlier(q, x) = {y \in newer : Base(d, y) < Base(d, x)}
  BY <1>4, <1>5 DEF Earlier, Base
<1> DEFINE item(x) == [attempts |-> 0, error |-> None,
             op |-> Operation(x, e, rev + Cardinality(Earlier(q, x)),
                      RebasedContent(q, Earlier(q, x) \cup {x}, prior, canonical))]
<1>7. \A x \in Edits : outbox'[d][x] = IF x \in newer THEN item(x) ELSE q[x]
  BY <1>1, <1>4 DEF Rebase
<1>8. \A x \in newer : /\ item(x).op.e = e
                       /\ item(x).op.base = rev + Cardinality(Earlier(q, x))
                       /\ item(x).op.content = RebasedContent(q, Earlier(q, x) \cup {x}, prior, canonical)
  BY DEF Operation
<1> HIDE DEF item
<1>9. \A x \in newer : outbox'[d][x] # None
  <2>1. \A x \in Edits : x \notin marker[d][Resolution(d).e].resolution.supersedes =>
          (outbox'[d][x] # None <=> outbox[d][x] # None)
    BY FinishResolutionEffect
  <2>2. \A x \in newer : x \notin marker[d][e].resolution.supersedes /\ outbox[d][x] # None
    BY <1>0 DEF Mine, Pending
  <2>. QED BY <1>0, <1>4, <2>1, <2>2
<1>10. Mine(d, e)' = newer
  <2>1. \A x \in Edits : x \in Pending(outbox'[d], e) <=> outbox'[d][x] # None /\ outbox'[d][x].op.e = e
    BY DEF Pending
  <2>2. \A x \in Edits : x \in newer <=> q[x] # None /\ q[x].op.e = e
    BY <1>4 DEF Pending
  <2>3. ASSUME NEW x \in Edits PROVE x \in Pending(outbox'[d], e) <=> x \in newer
    <3>1. CASE x \in newer
      BY <1>7, <1>8, <1>9, <2>1, <3>1
    <3>2. CASE x \notin newer
      BY <1>7, <2>1, <2>2, <3>2
    <3>. QED BY <3>1, <3>2
  <2>. QED BY <1>4, <2>3 DEF Mine, Pending
<1>11. \A x \in newer : /\ Base(d, x)' = rev + Cardinality(Earlier(q, x))
                        /\ Written(d, x)' = RebasedContent(q, Earlier(q, x) \cup {x}, prior, canonical)
  BY <1>4, <1>7, <1>8 DEF Base, Written
<1>12. newer # {} =>
         /\ local'[d][e].rev = rev + Cardinality(newer)
         /\ local'[d][e].content = RebasedContent(q, newer, prior, canonical)
  <2>1. newer # {} => local'[d][e] = Row(rev + Cardinality(newer), RebasedContent(q, newer, prior, canonical))
    BY <1>1, <1>4
  <2>2. \A n, c : Row(n, c).rev = n /\ Row(n, c).content = c
    BY DEF Row
  <2>. QED BY <2>1, <2>2
<1>. QED BY <1>2, <1>4, <1>5, <1>6, <1>10, <1>11, <1>12 DEF Moved


\* Elements numbered by f are counted by what is before them.
LEMMA Counted ==
  ASSUME NEW N, IsFiniteSet(N), NEW f, \A x \in N : f[x] \in Nat,
         \A x, y \in N : f[x] = f[y] => x = y,
         NEW before, \A x \in N : before[x] = {y \in N : f[y] < f[x]}
  PROVE  /\ \A x \in N : /\ Cardinality(before[x]) \in Nat
                         /\ Cardinality(before[x]) = 0 <=> before[x] = {}
         /\ \A x, y \in N : f[x] < f[y] => Cardinality(before[x]) < Cardinality(before[y])
         /\ \A x, y \in N : f[y] + 1 = f[x] => Cardinality(before[x]) = Cardinality(before[y]) + 1
         /\ \A y \in N : (\A z \in N : f[z] <= f[y]) => Cardinality(N) = Cardinality(before[y]) + 1
<1>1. \A x \in N : before[x] \in SUBSET N /\ IsFiniteSet(before[x]) /\ x \notin before[x]
  <2>1. \A x \in N : before[x] \in SUBSET N /\ x \notin before[x]
    OBVIOUS
  <2>. QED BY <2>1, FS_Subset
<1>2. \A x \in N : /\ Cardinality(before[x]) \in Nat
                   /\ Cardinality(before[x]) = 0 <=> before[x] = {}
  BY <1>1, FS_CardinalityType, FS_EmptySet
<1>3. \A y \in N : Cardinality(before[y] \cup {y}) = Cardinality(before[y]) + 1
  BY <1>1, FS_AddElement
<1>4. ASSUME NEW x \in N, NEW y \in N, f[x] < f[y]
      PROVE  Cardinality(before[x]) < Cardinality(before[y])
  <2>1. before[x] \cup {x} \subseteq before[y]
    <3>1. ASSUME NEW z \in before[x] PROVE z \in before[y]
      BY <1>4
    <3>. QED BY <1>4, <3>1
  <2>2. Cardinality(before[x] \cup {x}) <= Cardinality(before[y])
    BY <1>1, <2>1, FS_Subset
  <2>. QED BY <1>2, <1>3, <2>2
<1>5. ASSUME NEW x \in N, NEW y \in N, f[y] + 1 = f[x]
      PROVE  Cardinality(before[x]) = Cardinality(before[y]) + 1
  <2>1. \A z \in N : f[z] < f[x] <=> f[z] < f[y] \/ z = y
    BY <1>5
  <2>2. before[x] = before[y] \cup {y}
    BY <2>1
  <2>. QED BY <1>3, <2>2
<1>6. ASSUME NEW y \in N, \A z \in N : f[z] <= f[y]
      PROVE  Cardinality(N) = Cardinality(before[y]) + 1
  <2>1. \A z \in N : f[z] < f[y] \/ z = y
    BY <1>6
  <2>2. N = before[y] \cup {y}
    BY <2>1
  <2>. QED BY <1>3, <2>2
<1>. QED BY <1>2, <1>4, <1>5, <1>6


\* A decided edit came before every one that the decision did not know.
LEMMA NewerLater ==
  ASSUME Inductive, FieldRules, NEW d \in Devices, NEW e \in Notes, Decides(d, e),
         NEW q, NEW prior, NEW canonical, NEW rev, NEW newer,
         Moving(d, e, q, prior, canonical, rev, newer)
  PROVE  /\ \A x \in newer : \A y \in Mine(d, e) : Base(d, x) <= Base(d, y) => y \in newer
         /\ \A x, y \in newer : Base(d, x) = Base(d, y) => x = y
         /\ \A x \in newer : \A y \in newer : Base(d, y) < Base(d, x) =>
              \E z \in newer : Base(d, z) + 1 = Base(d, x)
         /\ newer # {} => \E t \in newer : \A z \in newer : Base(d, z) <= Base(d, t)
<1>0. TypeOK /\ OrderedOn(d) /\ e \in Entities /\ Consecutive(d, e) /\ DecisionCovers(d, e)
  BY Parts DEF Holds, Notes, FieldRules, DeviceCovers
<1>1. \A x \in Mine(d, e) : /\ Base(d, x) \in Nat /\ outbox[d][x].op.e = e
                            /\ Base(d, x) < local[d][e].rev /\ local[d][e].rev \in Nat
  BY <1>0, MineTyped, Typed DEF OrderedOn, Mine, Base, Rows
<1> DEFINE gone == marker[d][e].resolution.supersedes
<1>n. newer = Mine(d, e) \ gone
  BY DEF Moving
<1>2. \A x \in newer : \A s \in Mine(d, e) : s \in gone => Base(d, s) < Base(d, x)
  BY <1>0, <1>n DEF DecisionCovers
<1> HIDE DEF gone
<1>3. \A x \in newer : \A y \in Mine(d, e) : Base(d, x) <= Base(d, y) => y \in newer
  BY <1>1, <1>2, <1>n
<1>4. \A x, y \in newer : Base(d, x) = Base(d, y) => x = y
  BY <1>0, <1>n DEF OrderedOn, Mine, Base
<1>5. ASSUME NEW x \in newer, NEW y \in newer, Base(d, y) < Base(d, x)
      PROVE  \E z \in newer : Base(d, z) + 1 = Base(d, x)
  <2>1. y \in Earlier(outbox[d], x)
    BY <1>1, <1>5, <1>n DEF Earlier, Mine, Base
  <2>2. PICK z \in Mine(d, e) : Base(d, z) + 1 = Base(d, x)
    BY <1>0, <1>n, <2>1 DEF Consecutive
  <2>3. Base(d, y) <= Base(d, z)
    BY <1>1, <1>5, <1>n, <2>2
  <2>. QED BY <1>3, <2>2, <2>3
<1>6. ASSUME newer # {} PROVE \E t \in newer : \A z \in newer : Base(d, z) <= Base(d, t)
  <2>1. PICK x \in newer : TRUE
    BY <1>6
  <2>2. PICK t \in Mine(d, e) : Base(d, t) + 1 = local[d][e].rev
    BY <1>0, <1>n, <2>1 DEF Consecutive
  <2>3. \A z \in Mine(d, e) : Base(d, z) <= Base(d, t)
    BY <1>1, <2>2
  <2>. QED BY <1>3, <1>n, <2>1, <2>3
<1>. QED BY <1>3, <1>4, <1>5, <1>6

\* What a newer edit was queued on is covered by it, and does not have it.
LEMMA NewerKnows ==
  ASSUME Inductive, QueueRules, ConflictRules, EditRules, FieldRules, NEW d \in Devices, NEW e \in Notes,
         Decides(d, e), NEW q, NEW prior, NEW canonical, NEW rev, NEW newer,
         Moving(d, e, q, prior, canonical, rev, newer), Moved(d, e, q, prior, canonical, rev, newer),
         NEW x \in newer
  PROVE  /\ Below(Previous(q, x, prior), q[x].op.content)
         /\ x \in q[x].op.content /\ x \notin Previous(q, x, prior)
<1>0. /\ TypeOK /\ Shared /\ OperationsOn(d) /\ ResolutionsOn(d) /\ e \in Entities
      /\ QueueCovers(d, e) /\ DecisionCovers(d, e)
  BY Parts DEF Holds, Notes, FieldRules, DeviceCovers
<1> DEFINE gone == marker[d][e].resolution.supersedes
<1>n. newer = Mine(d, e) \ gone /\ prior = marker[d][e].resolution.prior
  BY DEF Moving
<1>q. \A y \in newer : /\ q[y] = outbox[d][y]
                       /\ Earlier(q, y) = {z \in newer : Base(d, z) < Base(d, y)}
  BY DEF Moved
<1>1. \A y \in newer : Base(d, y) \in Nat /\ y \in Edits /\ outbox[d][y] # None /\ y \in Mine(d, e)
                       /\ q[y].op.content = Written(d, y)
  BY <1>0, <1>n, <1>q, MineTyped DEF Written
<1>2. x \notin prior /\ Below(prior, Written(d, x))
  BY <1>0, <1>n DEF DecisionCovers
<1>3. x \in Written(d, x) /\ \A y \in newer : Base(d, y) < Base(d, x) => Below(Written(d, y), Written(d, x))
  BY <1>0, <1>1 DEF QueueCovers
<1>4. receipts[x] = None
  <2>1. \A op \in Requested : op.id # x
    BY <1>0, <1>1, <1>n DEF ResolutionsOn, Decides, Mine
  <2>. QED BY <1>1, <2>1, AnsweredAsQueued
<1>5. x \in Apart(e)
  BY <1>1, <1>4, <1>n DEF Apart, Waits, Mine, Superseded
<1>6. ~Behind(d, e, x)
  BY <1>1 DEF Behind, ConflictRules, NoteMarkers, Settled, Gone
<1>7. \A y \in newer : Base(d, y) < Base(d, x) => x \notin Written(d, y)
  BY <1>1, <1>5, <1>6 DEF EditRules, EditsApart, DeviceApart, QueueApart, Base, Written, Mine
<1>8. CASE Earlier(q, x) = {}
  BY <1>1, <1>2, <1>3, <1>8 DEF Previous
<1>9. CASE Earlier(q, x) # {}
  <2>1. Previous(q, x, prior) = LatestContent(q, Earlier(q, x))
    BY <1>9 DEF Previous
  <2>2. \A z \in LatestContent(q, Earlier(q, x)) : \E y \in Earlier(q, x) : z \in q[y].op.content
    BY DEF LatestContent
  <2>3. \A z \in Previous(q, x, prior) :
          \E y \in newer : Base(d, y) < Base(d, x) /\ z \in Written(d, y)
    BY <1>1, <1>q, <2>1, <2>2
  <2>4. x \notin Previous(q, x, prior)
    BY <1>7, <2>3
  <2>5. Below(Previous(q, x, prior), Written(d, x))
    BY <1>3, <2>3 DEF Below, Cover
  <2>. QED BY <1>1, <1>3, <2>4, <2>5
<1>. QED BY <1>8, <1>9


\* The answer to a decision numbers what is moved onto it.
LEMMA ResolutionAnswer ==
  ASSUME Inductive, QueueRules, EditRules, FieldRules, NEW d \in Devices,
         sync[d].stage = "read", Resolving(d), NEW e \in Notes, e = Resolution(d).e,
         NEW rev \in Nat, rev = (CHOOSE a \in sync[d].answers : TRUE).rev
  PROVE  rev > 0 => rev <= Revision(e) /\ Below(history[e][rev], sync[d].snapshot.rows[e].content)
<1>0. RequestOn(d)
  BY Parts DEF Holds
<1>1. PICK op : op = Resolution(d)
  OBVIOUS
<1>2. sync[d].ops = {op} /\ op.e = e
  BY <1>0, <1>1 DEF RequestOn
<1>3. sync[d].answers = {receipts[o.id] : o \in sync[d].ops}
  BY DEF QueueRules, AnswersHold
<1>4. sync[d].answers = {receipts[op.id]}
  BY <1>2, <1>3
<1>5. rev = receipts[op.id].rev
  BY <1>4
<1>6. receipts[op.id].rev <= sync[d].snapshot.rows[e].rev
  BY <1>2 DEF FieldRules, DeviceCovers, SnapshotNew
<1>. QED BY <1>5, <1>6, SnapshotCovers DEF FieldRules, ServerCovers

LEMMA MovedKeepsNote ==
  ASSUME Inductive, TypeOK', QueueRules, ConflictRules, EditRules, FieldRules, NEW d \in Devices,
         FinishResolution(d), NEW e \in Notes, e = Resolution(d).e
  PROVE  /\ DeviceCovers(d, e)'
         /\ Below(sync[d].snapshot.rows[e].content, local'[d][e].content)
<1>0. TypeOK /\ OperationsOn(d) /\ ResolutionsOn(d) /\ RequestOn(d) /\ e \in Entities
  BY Parts DEF Holds, Notes
<1>1. PICK prior : prior = marker[d][e].resolution.prior
  OBVIOUS
<1>2. PICK canonical : canonical = sync[d].snapshot.rows[e].content
  OBVIOUS
<1>3. PICK rev : rev = (CHOOSE a \in sync[d].answers : TRUE).rev
  OBVIOUS
<1>4. PICK newer : newer = Mine(d, e) \ marker[d][e].resolution.supersedes
  OBVIOUS
<1>5. PICK q : q = Without(outbox[d], marker[d][e].resolution.supersedes)
  OBVIOUS
<1>6. Moving(d, e, q, prior, canonical, rev, newer)
  BY <1>1, <1>2, <1>3, <1>4, <1>5 DEF Moving
<1>7. Moved(d, e, q, prior, canonical, rev, newer)
  BY <1>0, <1>6, FinishResolutionMoves
<1>8. /\ Decides(d, e) /\ sync[d].stage = "read" /\ Resolving(d) /\ sync'[d] = Idle
      /\ marker'[d][e] = None /\ UNCHANGED <<history, receipts>>
  BY <1>0, FinishResolutionEffect
<1>9. newer = {} => local'[d][e] = sync[d].snapshot.rows[e]
  BY <1>0, <1>4, FinishResolutionEffect DEF Mine
<1>10. /\ \A x, y \in newer : Base(d, x) = Base(d, y) => x = y
       /\ \A x \in newer : \A y \in newer : Base(d, y) < Base(d, x) =>
            \E z \in newer : Base(d, z) + 1 = Base(d, x)
       /\ newer # {} => \E t \in newer : \A z \in newer : Base(d, z) <= Base(d, t)
  BY <1>6, <1>8, NewerLater
<1>11. ASSUME NEW x \in newer
       PROVE  /\ Below(Previous(q, x, prior), q[x].op.content)
              /\ x \in q[x].op.content /\ x \notin Previous(q, x, prior)
  BY <1>6, <1>7, <1>8, NewerKnows
<1>12. PICK f : f = [x \in newer |-> Base(d, x)]
  OBVIOUS
<1>13. PICK before : before = [x \in newer |-> Earlier(q, x)]
  OBVIOUS
<1>14. PICK n : n = [x \in newer |-> Cardinality(before[x])]
  OBVIOUS
<1>15. \A x \in newer : /\ f[x] = Base(d, x) /\ before[x] = Earlier(q, x)
                        /\ n[x] = Cardinality(before[x])
  BY <1>12, <1>13, <1>14
<1>16. /\ rev \in Nat /\ Mine(d, e)' = newer
       /\ \A x \in newer : /\ q[x].op.base = f[x] /\ f[x] \in Nat
                           /\ before[x] = {y \in newer : f[y] < f[x]}
  <2>1. rev \in Nat /\ Mine(d, e)' = newer
    BY <1>7 DEF Moved
  <2>2. \A x \in newer : q[x].op.base = f[x] /\ f[x] \in Nat
    BY <1>7, <1>15 DEF Moved, Base
  <2>3. \A x \in newer : Earlier(q, x) = {y \in newer : Base(d, y) < Base(d, x)}
    BY <1>7 DEF Moved
  <2>4. \A x \in newer : before[x] = {y \in newer : f[y] < f[x]}
    BY <1>15, <2>3
  <2>. QED BY <2>1, <2>2, <2>4
<1>17. /\ \A x, y \in newer : f[x] = f[y] => x = y
       /\ \A x \in newer : \A y \in newer : f[y] < f[x] => \E z \in newer : f[z] + 1 = f[x]
       /\ newer # {} => \E t \in newer : \A z \in newer : f[z] <= f[t]
  BY <1>10, <1>15
<1>18. IsFiniteSet(newer)
  <2>1. newer \in SUBSET Edits
    BY <1>4 DEF Mine, Pending
  <2>. QED BY <2>1, OfflineAssumption, FS_Subset
<1>19. /\ \A x \in newer : n[x] \in Nat /\ (n[x] = 0 <=> before[x] = {})
       /\ \A x, y \in newer : f[x] < f[y] => n[x] < n[y]
       /\ \A x, y \in newer : f[y] + 1 = f[x] => n[x] = n[y] + 1
       /\ \A y \in newer : (\A z \in newer : f[z] <= f[y]) => Cardinality(newer) = n[y] + 1
  <2>1. \A x \in newer : f[x] \in Nat
    BY <1>16
  <2>2. \A x \in newer : before[x] = {y \in newer : f[y] < f[x]}
    BY <1>16
  <2>3. \A x, y \in newer : f[x] = f[y] => x = y
    BY <1>17
  <2>4. /\ \A x \in newer : /\ Cardinality(before[x]) \in Nat
                            /\ Cardinality(before[x]) = 0 <=> before[x] = {}
        /\ \A x, y \in newer : f[x] < f[y] => Cardinality(before[x]) < Cardinality(before[y])
        /\ \A x, y \in newer : f[y] + 1 = f[x] => Cardinality(before[x]) = Cardinality(before[y]) + 1
        /\ \A y \in newer : (\A z \in newer : f[z] <= f[y]) =>
             Cardinality(newer) = Cardinality(before[y]) + 1
    BY <1>18, <2>1, <2>2, <2>3, Counted
  <2>. QED BY <1>15, <2>4
<1>20. \A x \in newer :
         /\ Base(d, x)' = rev + n[x]
         /\ Written(d, x)' = RebasedContent(q, before[x] \cup {x}, prior, canonical)
  BY <1>7, <1>15 DEF Moved
<1>21. newer # {} =>
         /\ local'[d][e].rev = rev + Cardinality(newer)
         /\ local'[d][e].content = RebasedContent(q, newer, prior, canonical)
  BY <1>7 DEF Moved
<1>22. ASSUME NEW x \in newer, NEW y \in newer, f[x] <= f[y]
       PROVE  Below(q[x].op.content, q[y].op.content)
  <2>1. QueueCovers(d, e) /\ Base(d, x) <= Base(d, y) /\ x \in Mine(d, e) /\ y \in Mine(d, e)
    BY <1>4, <1>15, <1>22 DEF FieldRules, DeviceCovers
  <2>2. Below(Written(d, x), Written(d, y))
    BY <2>1 DEF QueueCovers
  <2>. QED BY <1>7, <2>2 DEF Moved, Written
\* What an operation that is moved covers.
<1>23. ASSUME NEW x \in newer
       PROVE  /\ Cover(RebasedContent(q, before[x] \cup {x}, prior, canonical))
                   = Cover(canonical) \cup Changed(q, before[x] \cup {x}, prior)
              /\ x \in RebasedContent(q, before[x] \cup {x}, prior, canonical)
  <2>1. PICK S : S = before[x] \cup {x}
    OBVIOUS
  <2>2. \A z \in S : z \in newer /\ f[z] <= f[x]
    BY <1>16, <2>1
  <2>3. \A z \in S : q[z].op.base <= q[x].op.base
    BY <1>16, <2>2
  <2>4. \A z \in S : /\ Below(Previous(q, z, prior), q[z].op.content)
                     /\ Below(q[z].op.content, q[x].op.content)
    BY <1>11, <1>22, <2>2
  <2>5. Cover(RebasedContent(q, S, prior, canonical)) = Cover(canonical) \cup Changed(q, S, prior)
    BY <2>1, <2>3, <2>4, RebasedCover
  <2>6. Field[x] \in Changed(q, S, prior)
    BY <1>11, <2>1 DEF Changed
  <2>7. x \in LatestContent(q, S)
    BY <1>11, <2>1, <2>3 DEF LatestContent
  <2>8. x \in RebasedContent(q, S, prior, canonical)
    BY <2>6, <2>7 DEF RebasedContent
  <2>. QED BY <2>1, <2>5, <2>8
<1>24. ASSUME NEW t \in newer, \A z \in newer : f[z] <= f[t]
       PROVE  Cover(RebasedContent(q, newer, prior, canonical))
                = Cover(canonical) \cup Changed(q, newer, prior)
  <2>1. \A z \in newer : q[z].op.base <= q[t].op.base
    BY <1>16, <1>24
  <2>2. \A z \in newer : /\ Below(Previous(q, z, prior), q[z].op.content)
                         /\ Below(q[z].op.content, q[t].op.content)
    BY <1>11, <1>22, <1>24
  <2>. QED BY <2>1, <2>2, RebasedCover
<1>25. QueueCovers(d, e)'
  <2>1. local'[d][e].rev = 0 => local'[d][e].content = {}
    <3>1. CASE newer = {}
      BY <1>0, <1>8, <1>9, <3>1 DEF EditRules, SnapshotsTrue, RequestOn
    <3>2. CASE newer # {}
      <4>1. PICK t \in newer : Cardinality(newer) = n[t] + 1
        BY <1>17, <1>19, <3>2
      <4>2. local'[d][e].rev = rev + Cardinality(newer) /\ n[t] \in Nat
        BY <1>19, <1>21, <3>2
      <4>. QED BY <1>16, <4>1, <4>2
    <3>. QED BY <3>1, <3>2
  <2>2. ASSUME NEW x \in newer
        PROVE  x \in Written(d, x)' /\ Below(Written(d, x), local[d][e].content)'
    <3>1. PICK t \in newer : \A z \in newer : f[z] <= f[t]
      BY <1>17, <2>2
    <3>2. before[x] \cup {x} \subseteq newer
      BY <1>16
    <3>3. Below(RebasedContent(q, before[x] \cup {x}, prior, canonical),
                RebasedContent(q, newer, prior, canonical))
      BY <1>23, <1>24, <3>1, <3>2, ChangedMore DEF Below
    <3>4. local'[d][e].content = RebasedContent(q, newer, prior, canonical)
      BY <1>21, <2>2
    <3>. QED BY <1>20, <1>23, <3>3, <3>4 DEF Below, Cover
  <2>3. ASSUME NEW x \in newer, NEW y \in newer, Base(d, x)' <= Base(d, y)'
        PROVE  Below(Written(d, x), Written(d, y))'
    <3>4. Base(d, x)' = rev + n[x] /\ Base(d, y)' = rev + n[y] /\ n[x] \in Nat /\ n[y] \in Nat
      BY <1>19, <1>20
    <3>5. rev \in Nat
      BY <1>16
    <3>0. n[x] <= n[y] /\ n[x] \in Nat /\ n[y] \in Nat
      BY <2>3, <3>4, <3>5
    <3>1. ~(f[y] < f[x])
      BY <1>19, <3>0
    <3>2. before[x] \cup {x} \subseteq before[y] \cup {y}
      <4>1. CASE f[x] = f[y]
        BY <1>17, <4>1
      <4>2. CASE f[x] # f[y]
        <5>1. f[x] < f[y] /\ f[x] \in Nat /\ f[y] \in Nat
          BY <1>16, <3>1, <4>2
        <5>. QED BY <1>16, <5>1
      <4>. QED BY <4>1, <4>2
    <3>3. Below(RebasedContent(q, before[x] \cup {x}, prior, canonical),
                RebasedContent(q, before[y] \cup {y}, prior, canonical))
      BY <1>23, <3>2, ChangedMore DEF Below
    <3>. QED BY <1>20, <3>3 DEF Below, Cover
  <2>. QED BY <1>16, <2>1, <2>2, <2>3 DEF QueueCovers
<1>26. ASSUME NEW x \in newer PROVE Earlier(outbox'[d], x) # {} <=> before[x] # {}
  <2>1. Earlier(outbox'[d], x) = {y \in newer : Base(d, y)' < Base(d, x)'}
    BY <1>16 DEF Earlier, Mine, Base, Pending
  <2>2. ASSUME NEW y \in newer PROVE Base(d, y)' < Base(d, x)' <=> n[y] < n[x]
    <3>1. Base(d, x)' = rev + n[x] /\ Base(d, y)' = rev + n[y] /\ n[x] \in Nat /\ n[y] \in Nat
      BY <1>19, <1>20
    <3>2. rev \in Nat
      BY <1>16
    <3>. QED BY <3>1, <3>2
  <2>3. ASSUME NEW y \in newer, n[y] < n[x] PROVE before[x] # {}
    BY <1>19, <2>3
  <2>4. ASSUME NEW y \in before[x] PROVE y \in newer /\ n[y] < n[x]
    BY <1>16, <1>19
  <2>. QED BY <2>1, <2>2, <2>3, <2>4
<1>27. Consecutive(d, e)'
  <2>1. ASSUME newer # {} PROVE \E y \in newer : Base(d, y)' + 1 = local'[d][e].rev
    <3>1. PICK t \in newer : Cardinality(newer) = n[t] + 1
      BY <1>17, <1>19, <2>1
    <3>2. Base(d, t)' = rev + n[t] /\ local'[d][e].rev = rev + Cardinality(newer) /\ n[t] \in Nat
      BY <1>19, <1>20, <1>21
    <3>3. Base(d, t)' + 1 = local'[d][e].rev
      BY <1>16, <3>1, <3>2
    <3>. QED BY <3>3
  <2>2. ASSUME NEW x \in newer, before[x] # {}
        PROVE  \E y \in newer : Base(d, y)' + 1 = Base(d, x)'
    <3>1. PICK y \in newer : f[y] + 1 = f[x]
      BY <1>16, <1>17, <2>2
    <3>2. n[x] = n[y] + 1 /\ n[y] \in Nat
      BY <1>19, <3>1
    <3>3. Base(d, y)' = rev + n[y] /\ Base(d, x)' = rev + n[x]
      BY <1>20
    <3>4. Base(d, y)' + 1 = Base(d, x)'
      BY <1>16, <3>2, <3>3
    <3>. QED BY <3>4
  <2>. QED BY <1>16, <1>26, <2>1, <2>2 DEF Consecutive
<1>28. FirstFits(d, e)'
  <2> SUFFICES ASSUME NEW x \in newer, Earlier(outbox'[d], x) = {}
               PROVE  Had(e, Base(d, x), Written(d, x))'
    BY <1>16 DEF FirstFits
  <2>1. n[x] = 0
    BY <1>19, <1>26
  <2>2. Base(d, x)' = rev
    <3>1. Base(d, x)' = rev + n[x]
      BY <1>20
    <3>2. rev \in Nat
      BY <1>16
    <3>. QED BY <2>1, <3>1, <3>2
  <2>3. Cover(canonical) \subseteq Cover(Written(d, x)')
    BY <1>20, <1>23
  <2>4. rev > 0 => rev <= Revision(e) /\ Below(history[e][rev], canonical)
    BY <1>2, <1>3, <1>8, <1>16, ResolutionAnswer
  <2>5. rev > 0 => rev <= Revision(e) /\ Cover(history[e][rev]) \subseteq Cover(Written(d, x)')
    BY <2>3, <2>4 DEF Below
  <2>. QED BY <1>8, <2>2, <2>5 DEF Had, Below, Cover, Revision
<1>29. DecisionCovers(d, e)' /\ SnapshotNew(d, e)'
  BY <1>8 DEF DecisionCovers, Decides, SnapshotNew, Idle, Request
<1>30. Below(canonical, local'[d][e].content)
  <2>1. CASE newer = {}
    BY <1>2, <1>9, <2>1 DEF Below
  <2>2. CASE newer # {}
    <3>1. PICK t \in newer : \A z \in newer : f[z] <= f[t]
      BY <1>17, <2>2
    <3>2. Cover(canonical) \subseteq Cover(RebasedContent(q, newer, prior, canonical))
      BY <1>24, <3>1
    <3>. QED BY <1>21, <2>2, <3>2 DEF Below
  <2>. QED BY <2>1, <2>2
<1>. QED BY <1>2, <1>25, <1>27, <1>28, <1>29, <1>30 DEF DeviceCovers


\* Of the device that acknowledges a decision only its note changes.
LEMMA FinishResolutionRests ==
  ASSUME Inductive, NEW d \in Devices, FinishResolution(d), NEW n \in Notes, n # Resolution(d).e
  PROVE  NoteRests(d, n)
<1>0. TypeOK /\ OperationsOn(d) /\ ResolutionsOn(d) /\ RequestOn(d) /\ n \in Entities /\ n \notin Notebooks
  BY Parts DEF Holds, Notes
<1>1. PICK e : e = Resolution(d).e
  OBVIOUS
<1>2. PICK gone : gone = marker[d][e].resolution.supersedes
  OBVIOUS
<1>3. PICK newer : newer = Pending(outbox[d], e) \ gone
  OBVIOUS
<1>4. /\ Decides(d, e) /\ e \in Entities /\ marker'[d][n] = marker[d][n]
      /\ local'[d][n] = local[d][n]
  BY <1>0, <1>1, FinishResolutionEffect
<1>5. \A x \in Edits :
        /\ x \in gone => outbox'[d][x] = None
        /\ x \notin gone /\ x \notin newer => outbox'[d][x] = outbox[d][x]
  BY <1>0, <1>1, <1>2, <1>3, FinishResolutionEffect
<1>6. \A x \in newer : outbox'[d][x] # None /\ outbox'[d][x].op.e = e
  BY <1>0, <1>1, <1>2, <1>3, FinishResolutionEffect
<1>7. \A x \in Edits : x \in gone /\ outbox[d][x] # None => outbox[d][x].op.e = e
  BY <1>0, <1>2, <1>4 DEF ResolutionsOn, Decides
<1>8. n # e /\ \A x \in newer : outbox[d][x].op.e = e
  BY <1>1, <1>3 DEF Pending
<1>9. \A x \in Mine(d, n) : outbox'[d][x] = outbox[d][x]
  BY <1>5, <1>7, <1>8 DEF Mine, Pending
<1>10. \A x \in Edits : x \in Mine(d, n)' => x \in Mine(d, n)
  BY <1>5, <1>6, <1>8 DEF Mine, Pending
<1>11. Mine(d, n)' = Mine(d, n)
  <2>1. \A x \in Edits : x \in Mine(d, n)' <=> x \in Mine(d, n)
    BY <1>9, <1>10 DEF Mine, Pending
  <2>. QED BY <2>1 DEF Mine, Pending
<1>12. SameMine(d, n)
  BY <1>9, <1>11 DEF SameMine
<1>13. SameConflict(d, n)
  BY <1>4 DEF SameConflict, Decides, Chosen
<1>. QED BY <1>4, <1>12, <1>13 DEF NoteRests

LEMMA FinishResolutionKeepsFields ==
  ASSUME Inductive, TypeOK', QueueRules, ConflictRules, EditRules, FieldRules, NEW d \in Devices,
         FinishResolution(d)
  PROVE  FieldRules'
<1>0. TypeOK /\ OperationsOn(d) /\ ResolutionsOn(d) /\ RequestOn(d)
  BY Parts DEF Holds
<1>1. PICK e : e = Resolution(d).e
  OBVIOUS
<1>2. /\ Alone(d) /\ sync[d].stage = "read" /\ sync'[d] = Idle /\ marker'[d][e] = None
      /\ UNCHANGED <<history, copies, receipts, late, preview, fresh, decided>>
  BY <1>0, <1>1, FinishResolutionEffect DEF FinishResolution
<1>3. Idle.ops = {} /\ Idle.stage # "read"
  BY DEF Idle, Request
<1>4. \A o \in Devices : sync'[o].ops \subseteq sync[o].ops
  BY <1>2, <1>3 DEF Alone
<1>5. Requested' \subseteq Requested
  BY <1>2, <1>4, NothingRequested
<1>6. RequestsSingle'
  BY <1>2, <1>4, SingleStays DEF FieldRules
<1>7. Grows /\ CopiesAge /\ ReceiptsStay
  BY <1>0, <1>2, HistoryStays DEF CopiesAge, ReceiptsStay
<1>8. ASSUME NEW n \in Notes PROVE DeviceCovers(d, n)'
  <2>1. CASE n = e
    BY <1>1, <2>1, MovedKeepsNote
  <2>2. CASE n # e
    <3>1. NoteRests(d, n)
      BY <1>1, <2>2, FinishResolutionRests
    <3>. QED BY <1>2, <1>3, <1>7, <3>1, NoteStands DEF DeviceCovers
  <2>. QED BY <2>1, <2>2
<1>9. PreviewCovers(d)'
  <2>1. PICK n : n = preview[d].e
    OBVIOUS
  <2>2. ASSUME preview[d] # None, n \in Notes, marker'[d][n] # None,
               marker'[d][n].copy = preview[d].marker.copy
        PROVE  /\ marker[d][n] # None /\ marker[d][n].copy = preview[d].marker.copy
               /\ \A x \in Mine(d, n)' : x \in Mine(d, n) /\ Written(d, x)' = Written(d, x)
    <3>1. NoteRests(d, n) /\ n \in Entities
      BY <1>1, <1>2, <2>2, FinishResolutionRests DEF Notes
    <3>. QED BY <2>2, <3>1, MineSame DEF NoteRests, SameConflict
  <2>. QED BY <1>0, <1>2, <1>7, <2>1, <2>2, PreviewStands DEF FieldRules, ConflictRules
<1>. QED BY <1>2, <1>5, <1>6, <1>7, <1>8, <1>9, FieldDevice DEF Redecides

-----------------------------------------------------------------------------
(* Steps of the server. *)

LEMMA VersionsGrow ==
  ASSUME TypeOK, VersionsCover,
         \A e \in Notes :
           \/ history'[e] = history[e]
           \/ \E S \in SUBSET Edits : history'[e] = Append(history[e], S) /\ Below(Content(e), S)
  PROVE  VersionsCover'
<1> SUFFICES ASSUME NEW e \in Notes, NEW i \in DOMAIN history'[e], NEW j \in DOMAIN history'[e], i <= j
             PROVE  Below(history'[e][i], history'[e][j])
  BY DEF VersionsCover, Below, Cover
<1>1. history[e] \in Seq(SUBSET Edits)
  BY DEF TypeOK, Notes
<1>2. CASE history'[e] = history[e]
  BY <1>2 DEF VersionsCover
<1>3. ASSUME NEW S \in SUBSET Edits, history'[e] = Append(history[e], S), Below(Content(e), S)
      PROVE  Below(history'[e][i], history'[e][j])
  <2>1. PICK n \in Nat : n = Len(history[e]) /\ DOMAIN history[e] = 1 .. n
    BY <1>1
  <2>2. /\ i \in 1 .. n + 1 /\ j \in 1 .. n + 1
        /\ history'[e][n + 1] = S /\ \A k \in 1 .. n : history'[e][k] = history[e][k]
    BY <1>1, <1>3, <2>1
  <2>3. CASE j \in 1 .. n
    <3>1. i \in 1 .. n
      BY <2>2, <2>3
    <3>. QED BY <2>1, <2>2, <2>3, <3>1 DEF VersionsCover
  <2>4. CASE j = n + 1 /\ i \in 1 .. n
    <3>1. Content(e) = history[e][n] /\ n \in 1 .. n /\ i <= n
      BY <1>1, <2>1, <2>4 DEF Content, Revision
    <3>2. Below(history[e][i], Content(e))
      BY <2>1, <2>4, <3>1 DEF VersionsCover
    <3>3. Below(history[e][i], S)
      BY <1>3, <3>2, BelowTrans
    <3>. QED BY <2>2, <2>4, <3>3
  <2>5. CASE j = n + 1 /\ i = n + 1
    BY <2>2, <2>5 DEF Below
  <2>. QED BY <2>2, <2>3, <2>4, <2>5
<1>. QED BY <1>2, <1>3

LEMMA AnswerStands ==
  ASSUME TypeOK, TypeOK', Grows, decided \subseteq decided', NEW a \in Answers, a.op.e \in Notes,
         AnswerTrue(a)
  PROVE  AnswerTrue(a)'
<1>1. a.op.e \in Entities /\ a.op.base \in Nat /\ a.rev \in Nat
  BY DEF Answers, Operations
<1>2. PICK e \in Entities : e = a.op.e
  BY <1>1
<1>3. a.rev <= Revision(e) /\ Revision(e) \in Nat
  BY <1>2, ContentTyped DEF AnswerTrue
<1>4. Revision(e) <= Revision(e)' /\ Revision(e)' \in Nat
  <2>1. history[e] \in Seq(SUBSET Edits) /\ history'[e] \in Seq(SUBSET Edits)
    BY DEF TypeOK
  <2>. QED BY <2>1 DEF Grows, Revision
<1>5. a.rev > 0 => history'[e][a.rev] = history[e][a.rev]
  BY <1>1, <1>3, VersionStays
<1>6. a.rev <= Revision(e)'
  BY <1>1, <1>3, <1>4
<1>7. ~a.copied /\ ~a.op.keep => a.rev = a.op.base + 1 /\ history'[e][a.rev] = a.op.content
  BY <1>1, <1>2, <1>5 DEF AnswerTrue
<1>. QED BY <1>2, <1>6, <1>7 DEF AnswerTrue, Revision

\* A step that leaves the devices' tables.
LEMMA FieldServer ==
  ASSUME Inductive, TypeOK', QueueRules, ConflictRules, FieldRules, Grows, CopiesAge, ReceiptsStay,
         fresh' \subseteq fresh, UNCHANGED <<outbox, local, marker, preview>>,
         \A d \in Devices : /\ sync'[d].ops = sync[d].ops
                            /\ sync'[d] = sync[d] \/ sync'[d].stage # "read",
         \A s \in late' : s \in late, Requested' \subseteq Requested, ServerCovers'
  PROVE  FieldRules'
<1>1. RequestsSingle'
  BY SingleStays DEF FieldRules
<1>2. \A d \in Devices : Rests(d)
  BY SameRests DEF Rests, SameQueue
<1>. QED BY <1>1, <1>2, FieldFrame DEF Redecides

LEMMA OnlineEditKeepsFields ==
  ASSUME Inductive, TypeOK', QueueRules, ConflictRules, FieldRules, NEW e \in Entities, NEW x \in Edits,
         OnlineEdit(e, x)
  PROVE  FieldRules'
<1>0. TypeOK
  BY Parts
<1>1. /\ fresh' = fresh \ {x}
      /\ UNCHANGED <<copies, receipts, late, outbox, local, marker, preview, sync, decided>>
  BY DEF OnlineEdit, device, ghost
<1>2. /\ history' = [history EXCEPT ![e] = history'[e]]
      /\ \/ history[e] = <<>> /\ history'[e] = <<{}, {x}>> /\ e \in Notebooks
         \/ history'[e] = Append(history[e], Content(e) \cup {x})
  BY <1>0 DEF OnlineEdit, TypeOK
<1>3. <<{}, {x}>> \in Seq(SUBSET Edits) /\ Content(e) \cup {x} \in SUBSET Edits
  BY <1>0, ContentTyped
<1>4. /\ history' = [n \in Entities |-> history'[n]]
      /\ \A n \in Entities : n # e => history'[n] = history[n]
  BY <1>0, <1>2 DEF TypeOK
<1>5. Grows
  BY <1>0, <1>2, <1>3, <1>4, AppendGrows
<1>6. VersionsCover'
  <2>1. Below(Content(e), Content(e) \cup {x})
    BY BelowSubset
  <2>2. \A n \in Notes :
          \/ history'[n] = history[n]
          \/ \E S \in SUBSET Edits : history'[n] = Append(history[n], S) /\ Below(Content(n), S)
    BY <1>2, <1>3, <1>4, <2>1 DEF Notes
  <2>. QED BY <1>0, <2>2, VersionsGrow DEF FieldRules, ServerCovers
<1>7. AnswersTrue'
  BY <1>0, <1>1, <1>5, AnswerStands DEF FieldRules, ServerCovers, AnswersTrue, TypeOK
<1>8. CopiesKnow'
  BY <1>1 DEF FieldRules, ServerCovers, CopiesKnow
<1>9. Requested' \subseteq Requested
  BY <1>1, NothingRequested
<1>10. CopiesAge /\ ReceiptsStay
  BY <1>1 DEF CopiesAge, ReceiptsStay
<1>. QED BY <1>1, <1>5, <1>6, <1>7, <1>8, <1>9, <1>10, FieldServer DEF ServerCovers

LEMMA EditCopyKeepsFields ==
  ASSUME Inductive, TypeOK', QueueRules, ConflictRules, FieldRules, NEW c \in copies, NEW x \in Edits,
         EditCopy(c, x)
  PROVE  FieldRules'
<1> DEFINE b == [id |-> c.id, e |-> c.e, content |-> c.content \cup {x}, rev |-> c.rev + 1]
<1>0. TypeOK
  BY Parts
<1>1. /\ fresh' = fresh \ {x} /\ copies' = (copies \ {c}) \cup {b}
      /\ UNCHANGED <<history, receipts, late, outbox, local, marker, preview, sync, decided>>
  BY DEF EditCopy, device, ghost
<1>2. b.id = c.id /\ b.content = c.content \cup {x} /\ b.rev = c.rev + 1
  OBVIOUS
<1> HIDE DEF b
<1>3. c.rev \in Nat
  BY <1>0 DEF TypeOK, Copies
<1>4. CopiesAge
  <2>1. c.rev < b.rev
    BY <1>2, <1>3
  <2>. QED BY <1>1, <1>2, <2>1 DEF CopiesAge
<1>5. Grows /\ ReceiptsStay
  BY <1>0, <1>1, HistoryStays DEF ReceiptsStay
<1>6. VersionsCover'
  BY <1>1 DEF FieldRules, ServerCovers, VersionsCover, Below, Cover
<1>7. AnswersTrue'
  BY <1>1 DEF FieldRules, ServerCovers, AnswersTrue, AnswerTrue, Revision
<1>8. CopiesKnow'
  BY <1>1, <1>2 DEF FieldRules, ServerCovers, CopiesKnow
<1>9. Requested' \subseteq Requested
  BY <1>1, NothingRequested
<1>. QED BY <1>1, <1>4, <1>5, <1>6, <1>7, <1>8, <1>9, FieldServer DEF ServerCovers

LEMMA OpenOnlineKeepsFields ==
  ASSUME Inductive, TypeOK', QueueRules, ConflictRules, FieldRules, OpenOnline
  PROVE  FieldRules'
<1>0. TypeOK
  BY Parts
<1>1. /\ history' = WithNotebooks(history)
      /\ UNCHANGED <<copies, receipts, late, outbox, local, marker, preview, sync, fresh, decided>>
  BY DEF OpenOnline, device, ghost
<1>2. Grows /\ CopiesAge /\ ReceiptsStay
  BY <1>0, <1>1, NotebooksGrow DEF CopiesAge, ReceiptsStay
<1>3. ServerCovers'
  BY <1>0, <1>1, NotesStay, ServerStands DEF FieldRules
<1>4. Requested' \subseteq Requested
  BY <1>1, NothingRequested
<1>. QED BY <1>1, <1>2, <1>3, <1>4, FieldServer

\* What is applied covers the version that it replaces.
LEMMA WritesCover ==
  ASSUME Inductive, QueueRules, FieldRules, NEW ops, ops \subseteq Requested, ops \subseteq Operations,
         Refusal(ops) = None, NEW op \in ops, op.e \in Notes, Writes(op)
  PROVE  /\ Revision(op.e) = op.base /\ Below(Content(op.e), op.content)
         /\ op.id \in Edits => op.id \in op.content
<1>0. TypeOK
  BY Parts
<1>1. /\ ~Known(op) /\ ~Conflicts(op) /\ ~op.keep /\ op \in Requested
      /\ op.id \in Edits \cup Resolutions /\ op.e \in Entities /\ op.base \in Nat
  BY DEF Writes, Operations
<1>2. history[op.e] \in Seq(SUBSET Edits)
  BY <1>0, <1>1 DEF TypeOK
<1>3. Had(op.e, op.base, op.content) /\ (op.id \in Edits => op.id \in op.content)
  <2>1. CASE op.id \in Edits
    <3>1. PICK d \in Devices :
            /\ op.id \in Pending(outbox[d], op.e) /\ outbox[d][op.id].op = op
            /\ Earlier(outbox[d], op.id) = {} /\ marker[d][op.e] = None
      BY <1>1, <2>1, RequestedFirst
    <3>2. op.id \in Mine(d, op.e) /\ Base(d, op.id) = op.base /\ Written(d, op.id) = op.content
      BY <3>1 DEF Mine, Base, Written
    <3>3. FirstFits(d, op.e) /\ QueueCovers(d, op.e)
      BY DEF FieldRules, DeviceCovers
    <3>. QED BY <1>1, <3>1, <3>2, <3>3 DEF FirstFits, QueueCovers, Known
  <2>2. CASE op.id \in Resolutions
    <3>1. WeighsFor(op)
      BY <1>1, <2>2 DEF FieldRules, RequestsWeigh
    <3>2. op.id \notin Edits
      BY <2>2, OfflineAssumption
    <3>. QED BY <3>1, <3>2 DEF WeighsFor, Weighs
  <2>. QED BY <1>1, <2>1, <2>2
<1>4. Revision(op.e) = op.base
  <2>1. CASE op.id \in Resolutions
    BY <1>1, <2>1, NoneAssumption DEF Refusal, Refusals
  <2>2. CASE op.id \notin Resolutions /\ history[op.e] = <<>>
    BY <1>1, <1>3, <2>2 DEF Had, Revision
  <2>3. CASE op.id \notin Resolutions /\ history[op.e] # <<>>
    BY <1>1, <2>3 DEF Conflicts
  <2>. QED BY <2>1, <2>2, <2>3
<1>5. Below(Content(op.e), op.content)
  <2>1. CASE history[op.e] = <<>>
    BY <2>1 DEF Content, Below, Cover
  <2>2. CASE history[op.e] # <<>>
    BY <1>2, <1>3, <1>4, <2>2 DEF Had, Content, Revision
  <2>. QED BY <2>1, <2>2
<1>. QED BY <1>3, <1>4, <1>5

LEMMA AppliedKeepsFields ==
  ASSUME Inductive, TypeOK', QueueRules, ConflictRules, FieldRules, NEW ops, ops \subseteq Requested,
         ops \subseteq Operations, Single(ops), Refusal(ops) = None, Apply(ops),
         UNCHANGED <<outbox, local, marker, preview, fresh>>, \A s \in late' : s \in late,
         \A d \in Devices : /\ sync'[d].ops = sync[d].ops
                            /\ sync'[d] = sync[d] \/ sync'[d].stage # "read"
  PROVE  FieldRules'
<1> DEFINE Copy(op) == [id |-> op.id, e |-> op.e, content |-> op.content, rev |-> 1]
<1>0. TypeOK /\ Shared
  BY Parts
<1>1. /\ Grows
      /\ \A op \in ops : receipts'[op.id] = Answered(op) /\ receipts'[op.id] # None
                         /\ receipts'[op.id].op = op
      /\ \A i \in Edits \cup Resolutions :
           /\ receipts[i] # None => receipts'[i] = receipts[i]
           /\ receipts'[i] # None => receipts[i] # None \/ \E op \in ops : op.id = i
      /\ \A e \in Entities :
           \/ history'[e] = history[e]
           \/ \E op \in ops : op.e = e /\ Writes(op) /\ history'[e] = Append(history[e], op.content)
      /\ copies' = {c \in copies : \A op \in ops : Known(op) \/ c.id # op.copy}
           \cup {Copy(op) : op \in {o \in ops : Conflicts(o)}}
  BY <1>0, ApplyEffect DEF QueueRules
<1>2. \A op \in ops : op.id \in Edits \cup Resolutions /\ op.e \in Entities /\ op.content \in SUBSET Edits
  BY DEF Operations
<1>3. \A op : Copy(op).id = op.id /\ Copy(op).content = op.content
  OBVIOUS
<1>4. ASSUME NEW c \in copies'
      PROVE  c \in copies \/ \E op \in ops : Conflicts(op) /\ c = Copy(op)
  BY <1>1, <1>4
<1> HIDE DEF Copy
<1>5. decided' = decided \cup UNION {op.content : op \in {o \in ops : o.keep /\ ~Known(o)}}
  BY DEF Apply
<1>6. Requested' \subseteq Requested
  BY <1>0, AppliedRequests
<1>7. ReceiptsStay /\ \A op \in ops : Conflicts(op) => op.id \in Edits /\ receipts[op.id] = None
  BY <1>1, <1>2 DEF ReceiptsStay, Conflicts, Known
<1>8. CopiesAge
  BY <1>3, <1>4, <1>7 DEF CopiesAge
<1>9. VersionsCover'
  <2>1. ASSUME NEW e \in Notes
        PROVE  \/ history'[e] = history[e]
               \/ \E S \in SUBSET Edits : history'[e] = Append(history[e], S) /\ Below(Content(e), S)
    <3>1. \A op \in ops : op.e = e /\ Writes(op) => Below(Content(e), op.content)
      BY WritesCover
    <3>. QED BY <1>1, <1>2, <3>1 DEF Notes
  <2>. QED BY <1>0, <2>1, VersionsGrow DEF FieldRules, ServerCovers
<1>10. ASSUME NEW op \in ops, op.e \in Notes, Writes(op)
       PROVE  history'[op.e] = Append(history[op.e], op.content)
  <2> DEFINE own == {o \in ops : o.e = op.e /\ Writes(o)}
  <2>1. history'[op.e] = IF own = {} THEN history[op.e]
                         ELSE Append(history[op.e], (CHOOSE o \in own : TRUE).content)
    BY <1>2 DEF Apply
  <2>2. own = {op}
    BY <1>10 DEF Single
  <2>. QED BY <2>1, <2>2
<1>11. AnswersTrue'
  <2> SUFFICES ASSUME NEW i \in Edits \cup Resolutions, receipts'[i] # None, receipts'[i].op.e \in Notes
               PROVE  AnswerTrue(receipts[i])'
    BY DEF AnswersTrue, TypeOK
  <2>1. CASE receipts[i] # None
    <3>1. PICK a : a = receipts[i]
      OBVIOUS
    <3>2. a \in Answers /\ receipts'[i] = a /\ i \in DOMAIN receipts
      BY <1>0, <1>1, <2>1, <3>1 DEF TypeOK
    <3>3. AnswerTrue(a)
      BY <2>1, <3>1, <3>2 DEF FieldRules, ServerCovers, AnswersTrue
    <3>4. AnswerTrue(a)'
      BY <1>0, <1>1, <1>5, <3>2, <3>3, AnswerStands
    <3>. QED BY <3>2, <3>4
  <2>2. CASE receipts[i] = None
    <3>1. PICK op \in ops : op.id = i
      BY <1>1, <2>2
    <3>2. ~Known(op) /\ receipts'[i] = Answered(op) /\ receipts'[i].op = op /\ op.e \in Notes
      BY <1>1, <2>2, <3>1 DEF Known
    <3>3. /\ receipts'[i].copied = Conflicts(op)
          /\ receipts'[i].rev = Revision(op.e) + (IF Writes(op) THEN 1 ELSE 0)
      BY <3>2 DEF Answered
    <3>4. PICK a : a = receipts'[i]
      OBVIOUS
    <3>5. PICK e \in Notes : e = op.e
      BY <3>2
    <3>6. history[e] \in Seq(SUBSET Edits) /\ history'[e] \in Seq(SUBSET Edits) /\ Revision(e) = Len(history[e])
      BY <1>0, <1>2, <3>5 DEF TypeOK, Revision
    <3>7. a.rev <= Len(history'[e])
      <4>1. CASE Writes(op)
        <5>1. history'[e] = Append(history[e], op.content) /\ a.rev = Len(history[e]) + 1
          BY <1>10, <3>2, <3>3, <3>4, <3>5, <3>6, <4>1
        <5>. QED BY <1>2, <3>6, <5>1
      <4>2. CASE ~Writes(op)
        <5>1. a.rev = Len(history[e]) + 0
          BY <3>3, <3>4, <3>5, <3>6, <4>2
        <5>2. Len(history[e]) <= Len(history'[e])
          BY <1>1, <1>2, <3>5 DEF Grows
        <5>. QED BY <3>6, <5>1, <5>2
      <4>. QED BY <4>1, <4>2
    <3>8. op.id \in Edits => op.id \in op.content
      <4> SUFFICES ASSUME op.id \in Edits PROVE op.id \in op.content
        OBVIOUS
      <4>1. op \in Requested
        OBVIOUS
      <4>2. PICK d \in Devices : op.id \in Pending(outbox[d], op.e) /\ outbox[d][op.id].op = op
        BY <3>2, <4>1, RequestedFirst
      <4>3. QueueCovers(d, op.e)
        BY <3>2 DEF FieldRules, DeviceCovers
      <4>. QED BY <4>2, <4>3 DEF QueueCovers, Mine, Written
    <3>9. ~a.copied /\ op.keep => op.content \subseteq decided'
      BY <1>5, <3>2
    <3>10. ASSUME ~a.copied, ~op.keep PROVE a.rev = op.base + 1 /\ history'[e][a.rev] = op.content
      <4>1. Writes(op)
        BY <3>2, <3>3, <3>4, <3>10 DEF Writes
      <4>2. Revision(e) = op.base
        BY <3>2, <3>5, <4>1, WritesCover
      <4>3. history'[e] = Append(history[e], op.content) /\ a.rev = Len(history[e]) + 1
        BY <1>10, <3>2, <3>3, <3>4, <3>5, <3>6, <4>1
      <4>4. a.rev = op.base + 1
        BY <3>6, <4>2, <4>3
      <4>5. op.content \in SUBSET Edits
        BY <1>2
      <4>6. history'[e][Len(history[e]) + 1] = op.content
        BY <3>6, <4>3, <4>5
      <4>. QED BY <4>3, <4>4, <4>6
    <3>11. a.op = op /\ op.e = e
      BY <3>2, <3>4, <3>5
    <3>12. AnswerTrue(a)'
      BY <3>7, <3>8, <3>9, <3>10, <3>11 DEF AnswerTrue, Revision
    <3>. QED BY <3>4, <3>12
  <2>. QED BY <2>1, <2>2
<1>12. CopiesKnow'
  <2> SUFFICES ASSUME NEW c \in copies' PROVE receipts'[c.id].op.content \subseteq c.content
    BY DEF CopiesKnow
  <2>1. CASE c \in copies
    <3>1. c.id \in Edits /\ receipts[c.id] # None
      BY <1>0, <2>1 DEF ConflictRules, CopiesHold, TypeOK, Copies
    <3>2. receipts'[c.id] = receipts[c.id]
      BY <1>1, <3>1
    <3>. QED BY <2>1, <3>2 DEF FieldRules, ServerCovers, CopiesKnow
  <2>2. ASSUME NEW op \in ops, c = Copy(op) PROVE receipts'[c.id].op.content \subseteq c.content
    BY <1>1, <1>3, <2>2
  <2>. QED BY <1>4, <2>1, <2>2
<1>. QED BY <1>1, <1>6, <1>7, <1>8, <1>9, <1>11, <1>12, FieldServer DEF ServerCovers

LEMMA ServeKeepsFields ==
  ASSUME Inductive, TypeOK', QueueRules, ConflictRules, FieldRules, NEW d \in Devices, Serve(d)
  PROVE  FieldRules'
<1>0. TypeOK
  BY Parts
<1>1. /\ Alone(d) /\ sync'[d].ops = sync[d].ops /\ sync'[d].stage # "read"
      /\ UNCHANGED <<late, outbox, local, marker, preview, fresh>>
      /\ \/ UNCHANGED <<history, copies, receipts, decided>>
         \/ Refusal(sync[d].ops) = None /\ Apply(sync[d].ops)
  BY <1>0, ServeEffect
<1>2. \A o \in Devices : /\ sync'[o].ops = sync[o].ops
                         /\ sync'[o] = sync[o] \/ sync'[o].stage # "read"
  BY <1>1 DEF Alone
<1>3. CASE UNCHANGED <<history, copies, receipts, decided>>
  <2>1. Requested' \subseteq Requested
    BY <1>1, <1>2, <1>3, NothingRequested
  <2>2. Grows /\ CopiesAge /\ ReceiptsStay
    BY <1>0, <1>3, HistoryStays DEF CopiesAge, ReceiptsStay
  <2>3. ServerCovers'
    BY <1>3, ServerStands DEF FieldRules
  <2>. QED BY <1>1, <1>2, <2>1, <2>2, <2>3, FieldServer
<1>4. CASE Refusal(sync[d].ops) = None /\ Apply(sync[d].ops)
  <2>1. sync[d].ops \subseteq Requested /\ sync[d].ops \subseteq Operations /\ Single(sync[d].ops)
    BY <1>0, Typed DEF Requested, Syncs, FieldRules, RequestsSingle
  <2>. QED BY <1>1, <1>2, <1>4, <2>1, AppliedKeepsFields
<1>. QED BY <1>1, <1>3, <1>4

LEMMA ServeLateKeepsFields ==
  ASSUME Inductive, TypeOK', QueueRules, ConflictRules, FieldRules, NEW ops \in late, ServeLate(ops)
  PROVE  FieldRules'
<1>0. TypeOK
  BY Parts
<1>1. /\ late' = late \ {ops} /\ UNCHANGED <<outbox, local, marker, preview, sync, fresh>>
      /\ UNCHANGED <<history, copies, receipts, decided>> \/ (Refusal(ops) = None /\ Apply(ops))
  BY DEF ServeLate, device, server
<1>2. CASE UNCHANGED <<history, copies, receipts, decided>>
  <2>1. Requested' \subseteq Requested
    BY <1>1, <1>2, NothingRequested
  <2>2. Grows /\ CopiesAge /\ ReceiptsStay
    BY <1>0, <1>2, HistoryStays DEF CopiesAge, ReceiptsStay
  <2>3. ServerCovers'
    BY <1>2, ServerStands DEF FieldRules
  <2>. QED BY <1>1, <2>1, <2>2, <2>3, FieldServer
<1>3. CASE Refusal(ops) = None /\ Apply(ops)
  <2>1. ops \subseteq Requested /\ Single(ops)
    BY DEF Requested, FieldRules, RequestsSingle
  <2>2. ops \subseteq Operations
    BY <1>0 DEF TypeOK
  <2>. QED BY <1>1, <1>3, <2>1, <2>2, AppliedKeepsFields
<1>. QED BY <1>1, <1>2, <1>3

-----------------------------------------------------------------------------
(* The rules hold. *)

LEMMA InitObeysFields ==
  Init => FieldRules
<1> SUFFICES ASSUME Init PROVE FieldRules
  OBVIOUS
<1>1. Idle.ops = {} /\ Idle.stage # "read"
  BY DEF Idle, Request
<1>2. /\ \A d \in Devices, x \in Edits : outbox[d][x] = None
      /\ \A d \in Devices, e \in Entities : marker[d][e] = None
      /\ \A d \in Devices : preview[d] = None /\ sync[d] = Idle
      /\ copies = {} /\ late = {} /\ \A i \in DOMAIN receipts : receipts[i] = None
  BY DEF Init
<1>3. Requested = {}
  BY <1>1, <1>2 DEF Requested
<1>4. \A e \in Entities : \A i \in DOMAIN history[e] : history[e][i] = {}
  BY DEF Init
<1>5. ServerCovers
  BY <1>2, <1>4 DEF ServerCovers, VersionsCover, AnswersTrue, CopiesKnow, Notes, Below
<1>6. RequestsSingle /\ RequestsWeigh
  BY <1>1, <1>2, <1>3 DEF RequestsSingle, Single, RequestsWeigh
<1>7. ASSUME NEW d \in Devices, NEW e \in Notes PROVE DeviceCovers(d, e)
  <2>1. e \in Entities /\ Mine(d, e) = {}
    BY <1>2 DEF Notes, Mine, Pending
  <2>2. local[d][e].content = {}
    BY <2>1 DEF Init, Row, NoRow
  <2>. QED BY <1>1, <1>2, <2>1, <2>2 DEF DeviceCovers, QueueCovers, Consecutive, FirstFits,
              DecisionCovers, Decides, SnapshotNew
<1>. QED BY <1>2, <1>5, <1>6, <1>7 DEF FieldRules, PreviewCovers

LEMMA StepObeysFields ==
  Inductive /\ TypeOK' /\ QueueRules /\ ConflictRules /\ EditRules /\ FieldRules /\ [Next]_vars =>
    FieldRules'
<1> SUFFICES ASSUME Inductive, TypeOK', QueueRules, ConflictRules, EditRules, FieldRules, [Next]_vars
             PROVE  FieldRules'
  OBVIOUS
<1>0. TypeOK
  BY Parts
<1>1. CASE UNCHANGED vars
  <2>1. UNCHANGED <<history, copies, receipts, outbox, local, marker, preview, sync, late, fresh, decided>>
    BY <1>1 DEF vars, server, device, ghost
  <2>2. Requested' \subseteq Requested
    BY <2>1, NothingRequested
  <2>3. Grows /\ CopiesAge /\ ReceiptsStay
    BY <1>0, <2>1, HistoryStays DEF CopiesAge, ReceiptsStay
  <2>4. ServerCovers'
    BY <2>1, ServerStands DEF FieldRules
  <2>. QED BY <2>1, <2>2, <2>3, <2>4, FieldServer
<1>2. CASE Elsewhere
  BY <1>2, OnlineEditKeepsFields, EditCopyKeepsFields, OpenOnlineKeepsFields,
     ServeLateKeepsFields DEF Elsewhere
<1>3. ASSUME NEW d \in Devices,
             Edit(d) \/ Download(d) \/ RetrySync(d) \/ Synchronize(d) \/ Disturb(d) \/ Resolve(d)
      PROVE  FieldRules'
  <2>1. CASE Edit(d)
    BY <2>1, LocalEditKeepsFields DEF Edit
  <2>2. CASE Download(d)
    BY <2>2, DownloadKeepsFields
  <2>3. CASE RetrySync(d)
    BY <2>3, RetrySyncKeepsFields
  <2>4. CASE Synchronize(d)
    <3>1. CASE Refused(d)
      <4>1. sync[d].refusal \in Errors /\ sync[d].stage = "refused"
        BY <1>0, <3>1, Typed, Parts DEF Refused, Syncs, Errors, Holds, RequestOn
      <4>. QED BY <3>1, <4>1, FailedKeepsFields DEF Refused
    <3>. QED BY <2>4, <3>1, FlushKeepsFields, SendResolutionKeepsFields,
                ServeKeepsFields, FetchKeepsFields, AcknowledgeKeepsFields,
                FinishResolutionKeepsFields DEF Synchronize
  <2>5. CASE Disturb(d)
    <3>1. CASE NetworkFailure(d)
      <4>1. "NETWORK" \in Errors
        BY DEF Errors
      <4>. QED BY <3>1, <4>1, FailedKeepsFields DEF NetworkFailure, Abandoned
    <3>. QED BY <2>5, <3>1, CloseTabKeepsFields DEF Disturb
  <2>6. CASE Resolve(d)
    BY <2>6, EnsureConflictKeepsFields, CompareKeepsFields, PrepareKeepsFields DEF Resolve
  <2>. QED BY <1>3, <2>1, <2>2, <2>3, <2>4, <2>5, <2>6
<1>. QED BY <1>1, <1>2, <1>3 DEF Next

\* For any number of devices, notes, edits and decisions, and whichever edits
\* change the same field: a version of an annotation covers its earlier
\* versions, and so does whatever may become one, as an edit was queued on
\* the version its base names and a decision was made in view of it
\* (offline-repository.ts, queueOfflineOperation; offline-conflicts.ts;
\* services/annotations.py, sync_annotations).
THEOREM FieldsAreKept == Spec => []FieldRules
<1>1. Inductive /\ Inductive' /\ QueueRules /\ ConflictRules /\ EditRules /\ FieldRules /\ [Next]_vars =>
        FieldRules'
  BY StepObeysFields, PartsAfter
<1>. QED BY <1>1, InitObeysFields, EditsAreApart, ConflictsAreRuled, QueueIsRuled, SyncIsInductive, PTL DEF Spec

\* A later version of an annotation sets every field that an earlier one
\* set: what was set on one device is not forgotten through another.
THEOREM NoVersionForgetsAField == Spec => []VersionsCover
<1>1. FieldRules => VersionsCover
  BY DEF FieldRules, ServerCovers
<1>. QED BY <1>1, FieldsAreKept, PTL

LEMMA OwnFields ==
  ASSUME \A x, y \in Edits : Field[x] = Field[y] => x = y,
         NEW S \in SUBSET Edits, NEW x \in Edits, Field[x] \in Cover(S)
  PROVE  x \in S
BY DEF Cover

\* A version is only replaced by one that knows all of its edits, when every
\* edit has a field of its own (the revision checks of sync_annotations).  (Of a field that is edited again
\* beside a resolution the later edit stays, which the runs allow for.)
THEOREM NoVersionIsOverwritten ==
  ASSUME Notebooks = {}, \A x, y \in Edits : Field[x] = Field[y] => x = y
  PROVE  Spec => []NoBlindOverwrite
<1>1. TypeOK /\ VersionsCover => NoBlindOverwrite
  <2> SUFFICES ASSUME TypeOK, VersionsCover, NEW e \in Entities,
                      NEW i \in DOMAIN history[e], NEW j \in DOMAIN history[e], i < j,
                      NEW x \in history[e][i]
               PROVE  x \in history[e][j]
    BY DEF NoBlindOverwrite
  <2>1. history[e] \in Seq(SUBSET Edits) /\ e \in Notes
    BY DEF TypeOK, Notes
  <2>2. history[e][i] \in SUBSET Edits /\ history[e][j] \in SUBSET Edits /\ i <= j
    BY <2>1
  <2>3. Below(history[e][i], history[e][j])
    BY <2>1, <2>2 DEF VersionsCover
  <2>4. Field[x] \in Cover(history[e][j])
    BY <2>3 DEF Below, Cover
  <2>. QED BY <2>2, <2>4, OwnFields
<1>2. Inductive => TypeOK
  BY Parts
<1>. QED BY <1>1, <1>2, NoVersionForgetsAField, SyncIsInductive, PTL


\* Where a conflict ends the working copy covers the version in the snapshot.
DecisionsKept ==
  [][\A d \in Devices, e \in Notes :
       marker[d][e] # None /\ marker'[d][e] = None =>
         Below(sync[d].snapshot.rows[e].content, local'[d][e].content)]_vars

\* Nothing else ends a conflict.
LEMMA ConflictEnds ==
  ASSUME Inductive, [Next]_vars, NEW o \in Devices, NEW e \in Entities,
         marker[o][e] # None, marker'[o][e] = None
  PROVE  FinishResolution(o) /\ e = Resolution(o).e
<1>0. TypeOK
  BY Parts
<1>1. CASE UNCHANGED vars
  BY <1>1 DEF vars, device
<1>2. CASE Elsewhere
  BY <1>2 DEF Elsewhere, OnlineEdit, EditCopy, OpenOnline, ServeLate, device
<1>3. ASSUME NEW d \in Devices,
             Edit(d) \/ Download(d) \/ RetrySync(d) \/ Synchronize(d) \/ Disturb(d) \/ Resolve(d)
      PROVE  FinishResolution(o) /\ e = Resolution(o).e
  <2>0. Holds(d) /\ OperationsOn(d) /\ ResolutionsOn(d) /\ RequestOn(d) /\ KeptOn(d)
    BY Parts DEF Holds
  <2>1. CASE Edit(d) \/ Download(d) \/ RetrySync(d) \/ CloseTab(d)
    BY <2>1 DEF Edit, LocalEdit, Download, RetrySync, CloseTab
  <2>2. CASE \/ Flush(d) \/ Serve(d) \/ Fetch(d) \/ \E n \in Entities : SendResolution(d, n) \/ Compare(d, n)
    BY <2>2 DEF Flush, Serve, Fetch, SendResolution, Compare, device
  <2>3. CASE Acknowledge(d)
    <3>1. /\ \A q \in Devices \ {d} : marker'[q] = marker[q]
          /\ marker'[d][e] = marker[d][e] \/ marker'[d][e] # None
      BY <1>0, <2>0, <2>3, AcknowledgeEffect DEF Alone
    <3>. QED BY <3>1
  <2>4. ASSUME NEW code \in Errors, Failed(d, code) PROVE FALSE
    <3>1. /\ \A q \in Devices \ {d} : marker'[q] = marker[q]
          /\ marker'[d][e] = marker[d][e] \/ Decides(d, e)'
      BY <1>0, <2>0, <2>4, FailedEffect DEF Alone
    <3>. QED BY <3>1 DEF Decides
  <2>5. CASE Refused(d)
    <3>1. sync[d].refusal \in Errors
      BY <1>0, <2>0, <2>5, Typed DEF Refused, Syncs, Errors, RequestOn
    <3>. QED BY <2>4, <2>5, <3>1 DEF Refused
  <2>6. CASE NetworkFailure(d)
    BY <2>4, <2>6 DEF NetworkFailure, Errors
  <2>7. CASE FinishResolution(d)
    <3>1. PICK n : n = Resolution(d).e
      OBVIOUS
    <3>2. /\ \A q \in Devices \ {d} : marker'[q] = marker[q]
          /\ \A z \in Entities \ {n} : marker'[d][z] = marker[d][z]
      BY <1>0, <2>0, <2>7, <3>1, FinishResolutionEffect DEF Alone
    <3>. QED BY <2>7, <3>1, <3>2
  <2>8. ASSUME NEW c \in listed[d], EnsureConflict(d, c) PROVE FALSE
    <3>1. /\ \A q \in Devices \ {d} : marker'[q] = marker[q]
          /\ \A n \in Entities \ {c.e} : marker'[d][n] = marker[d][n]
          /\ marker'[d][c.e] # None
      BY <1>0, <2>8, EnsureConflictEffect DEF Alone
    <3>. QED BY <3>1
  <2>9. ASSUME NEW r \in Resolutions, NEW keep \in BOOLEAN, Prepare(d, r, keep) PROVE FALSE
    <3>1. PICK n : n = preview[d].e
      OBVIOUS
    <3>2. /\ \A q \in Devices \ {d} : marker'[q] = marker[q]
          /\ \A z \in Entities \ {n} : marker'[d][z] = marker[d][z]
          /\ marker'[d][n] # None
      BY <1>0, <2>9, <3>1, PrepareEffect DEF Alone
    <3>. QED BY <3>2
  <2>. QED BY <1>3, <2>1, <2>2, <2>3, <2>5, <2>6, <2>7, <2>8, <2>9 DEF Synchronize, Disturb, Resolve
<1>. QED BY <1>1, <1>2, <1>3 DEF Next

\* Ending a conflict (finishResolution rebases what waits onto what the server
\* answered) leaves a working copy that sets every field of the version it
\* names as its base, whichever edits change the same field.
THEOREM DecisionsKeepFields == Spec => DecisionsKept
<1>1. Inductive /\ Inductive' /\ QueueRules /\ ConflictRules /\ EditRules /\ FieldRules /\ [Next]_vars =>
        [\A d \in Devices, e \in Notes :
           marker[d][e] # None /\ marker'[d][e] = None =>
             Below(sync[d].snapshot.rows[e].content, local'[d][e].content)]_vars
  <2> SUFFICES ASSUME Inductive, Inductive', QueueRules, ConflictRules, EditRules, FieldRules, [Next]_vars,
                      NEW d \in Devices, NEW e \in Notes, marker[d][e] # None, marker'[d][e] = None
               PROVE  Below(sync[d].snapshot.rows[e].content, local'[d][e].content)
    OBVIOUS
  <2>1. FinishResolution(d) /\ e = Resolution(d).e
    BY ConflictEnds DEF Notes
  <2>. QED BY <2>1, MovedKeepsNote, PartsAfter
<1>. QED BY <1>1, FieldsAreKept, EditsAreApart, ConflictsAreRuled, QueueIsRuled, SyncIsInductive, PTL
         DEF Spec, DecisionsKept

\* "Only fields changed by those edits are rebased onto the selected
\* resolution": where every edit has a field of its own the working copy
\* knows every edit of the version.
THEOREM OnlyChangedFieldsAreRebased ==
  ASSUME Notebooks = {}, \A x, y \in Edits : Field[x] = Field[y] => x = y
  PROVE  Spec => OnlyEditedFields
<1> DEFINE Kept == \A d \in Devices, e \in Notes :
             marker[d][e] # None /\ marker'[d][e] = None =>
               Below(sync[d].snapshot.rows[e].content, local'[d][e].content)
           Rebased == \A d \in Devices, e \in Entities :
             marker[d][e] # None /\ marker'[d][e] = None =>
               sync[d].snapshot.rows[e].content \subseteq local'[d][e].content \cup overlaid'
<1>1. Inductive /\ Inductive' /\ [Next]_vars /\ [Kept]_vars => [Rebased]_vars
  <2> SUFFICES ASSUME Inductive, Inductive', [Next]_vars, Kept, NEW d \in Devices, NEW e \in Entities,
                      marker[d][e] # None, marker'[d][e] = None,
                      NEW x \in sync[d].snapshot.rows[e].content
               PROVE  x \in local'[d][e].content
    BY DEF vars, device
  <2>0. TypeOK /\ TypeOK' /\ RequestOn(d)
    BY Parts, PartsAfter DEF Holds
  <2>1. e \in Notes /\ FinishResolution(d)
    BY ConflictEnds DEF Notes
  <2>2. sync[d].stage = "read"
    BY <2>1 DEF FinishResolution
  <2>3. sync[d].snapshot \in Snapshots
    BY <2>0, <2>2, Typed DEF RequestOn, Syncs
  <2>4. sync[d].snapshot.rows[e].content \in SUBSET Edits
    BY <2>3 DEF Snapshots, Rows
  <2>5. local'[d][e].content \in SUBSET Edits
    BY <2>0 DEF TypeOK, Rows
  <2>6. Below(sync[d].snapshot.rows[e].content, local'[d][e].content)
    BY <2>1
  <2>7. Field[x] \in Cover(local'[d][e].content)
    BY <2>6 DEF Below, Cover
  <2>. QED BY <2>4, <2>5, <2>7, OwnFields
<1>. QED BY <1>1, DecisionsKeepFields, SyncIsInductive, PTL DEF Spec, DecisionsKept, OnlyEditedFields

-----------------------------------------------------------------------------
(* No field that was edited is lost. *)

\* The field of x is set by a current version or by a conflict copy, or what
\* set it was in view when the user kept the server's version.
Safe(x) ==
  \/ \E e \in Entities : Field[x] \in Cover(Content(e))
  \/ \E c \in copies : Field[x] \in Cover(c.content)
  \/ Field[x] \in Cover(decided)

Awaits(x) == receipts[x] = None /\ \E d \in Devices : outbox[d][x] # None

FieldsLast == \A x \in Edits \ fresh : Awaits(x) \/ Safe(x)

LEMMA ContentCovers ==
  ASSUME TypeOK, VersionsCover, NEW e \in Notes, NEW i \in DOMAIN history[e]
  PROVE  Below(history[e][i], Content(e))
<1>1. history[e] \in Seq(SUBSET Edits)
  BY DEF TypeOK, Notes
<1>2. i \in Nat /\ i <= Len(history[e]) /\ Len(history[e]) \in DOMAIN history[e] /\ history[e] # <<>>
  BY <1>1
<1>. QED BY <1>2 DEF VersionsCover, Content, Revision

LEMMA ContentStays ==
  ASSUME TypeOK, TypeOK', VersionsCover', Grows, NEW e \in Notes
  PROVE  Below(Content(e), Content(e)')
<1>0. history[e] \in Seq(SUBSET Edits) /\ history'[e] \in Seq(SUBSET Edits)
  BY DEF TypeOK, Notes
<1>1. CASE history[e] = <<>>
  BY <1>1 DEF Content, Below, Cover
<1>2. CASE history[e] # <<>>
  <2>1. PICK n : n = Len(history[e])
    OBVIOUS
  <2>2. n \in Nat /\ n > 0 /\ n <= Len(history'[e]) /\ Content(e) = history[e][n]
        /\ history'[e][n] = history[e][n]
    BY <1>0, <1>2, <2>1 DEF Grows, Notes, Content, Revision
  <2>3. n \in DOMAIN history'[e] /\ Len(history'[e]) \in DOMAIN history'[e] /\ history'[e] # <<>>
    BY <1>0, <2>2
  <2>4. Below(history'[e][n], history'[e][Len(history'[e])])
    BY <2>2, <2>3 DEF VersionsCover, Below, Cover
  <2>. QED BY <2>2, <2>3, <2>4 DEF Content, Revision
<1>. QED BY <1>1, <1>2

\* Copies stay or go with a decision that covers them.
CopiesPass ==
  \A c \in copies :
    \/ \E b \in copies' : c.content \subseteq b.content
    \/ \E e \in Entities : Below(c.content, Content(e)')
    \/ Below(c.content, decided')

LEMMA SafeStays ==
  ASSUME TypeOK, TypeOK', VersionsCover', Grows, Notes = Entities, decided \subseteq decided', CopiesPass,
         NEW x \in Edits, Safe(x)
  PROVE  Safe(x)'
<1>1. ASSUME NEW e \in Entities, Field[x] \in Cover(Content(e)) PROVE Safe(x)'
  <2>1. Below(Content(e), Content(e)')
    BY ContentStays
  <2>. QED BY <1>1, <2>1 DEF Safe, Below, Cover
<1>2. ASSUME NEW c \in copies, Field[x] \in Cover(c.content) PROVE Safe(x)'
  <2>1. ASSUME NEW b \in copies', c.content \subseteq b.content PROVE Safe(x)'
    BY <1>2, <2>1 DEF Safe, Cover
  <2>2. ASSUME NEW e \in Entities, Below(c.content, Content(e)') PROVE Safe(x)'
    BY <1>2, <2>2 DEF Safe, Below, Cover
  <2>3. CASE Below(c.content, decided')
    BY <1>2, <2>3 DEF Safe, Below, Cover
  <2>. QED BY <2>1, <2>2, <2>3 DEF CopiesPass
<1>3. CASE Field[x] \in Cover(decided)
  BY <1>3 DEF Safe, Cover
<1>. QED BY <1>1, <1>2, <1>3 DEF Safe

\* What a step leaves to show: what is made waits or is safe, and what waited.
LEMMA LastFrame ==
  ASSUME TypeOK, TypeOK', FieldRules', Grows, Notes = Entities, decided \subseteq decided', CopiesPass,
         FieldsLast,
         \A x \in Edits \ fresh' : (x \notin fresh /\ ~Awaits(x)) \/ Awaits(x)' \/ Safe(x)'
  PROVE  FieldsLast'
<1>1. VersionsCover'
  BY DEF FieldRules, ServerCovers
<1>2. ASSUME NEW x \in Edits, x \notin fresh', x \notin fresh, ~Awaits(x) PROVE Safe(x)'
  <2>1. Safe(x)
    BY <1>2 DEF FieldsLast
  <2>. QED BY <1>1, <2>1, SafeStays
<1>. QED BY <1>2 DEF FieldsLast

\* A step of a device removes from its outbox only what is safe.
LEMMA DeviceLasts ==
  ASSUME Inductive, TypeOK', FieldRules', Notes = Entities, FieldsLast, Grows,
         UNCHANGED <<copies, receipts, decided>>, NEW d \in Devices, Alone(d),
         \A x \in Edits \ fresh' : x \notin fresh \/ (outbox'[d][x] # None /\ receipts[x] = None),
         \A x \in Edits : outbox[d][x] # None /\ receipts[x] = None => outbox'[d][x] # None \/ Safe(x)
  PROVE  FieldsLast'
<1>0. TypeOK
  BY Parts
<1>1. CopiesPass
  BY DEF CopiesPass
<1>2. ASSUME NEW x \in Edits, Awaits(x) PROVE Awaits(x)' \/ Safe(x)'
  <2>1. PICK o \in Devices : outbox[o][x] # None /\ receipts[x] = None
    BY <1>2 DEF Awaits
  <2>2. CASE o # d
    BY <2>1, <2>2 DEF Alone, Awaits
  <2>3. CASE o = d /\ outbox'[d][x] # None
    BY <2>1, <2>3 DEF Awaits
  <2>4. CASE o = d /\ Safe(x)
    <3>1. VersionsCover'
      BY DEF FieldRules, ServerCovers
    <3>. QED BY <1>0, <1>1, <2>4, <3>1, SafeStays
  <2>. QED BY <2>1, <2>2, <2>3, <2>4
<1>3. ASSUME NEW x \in Edits, x \notin fresh', x \in fresh PROVE Awaits(x)'
  BY <1>3 DEF Awaits
<1>. QED BY <1>0, <1>1, <1>2, <1>3, LastFrame

\* An applied operation is in a version, or was decided.
LEMMA AnswerSafe ==
  ASSUME TypeOK, VersionsCover, AnswersTrue, NEW i \in Edits \cup Resolutions, receipts[i] # None,
         receipts[i].op.e \in Notes, ~receipts[i].copied
  PROVE  \/ Below(receipts[i].op.content, Content(receipts[i].op.e))
         \/ Below(receipts[i].op.content, decided)
<1>1. PICK a \in Answers : a = receipts[i]
  BY DEF TypeOK
<1>2. AnswerTrue(a) /\ a.op.base \in Nat /\ a.rev \in Nat
  <2>1. i \in DOMAIN receipts
    BY DEF TypeOK
  <2>. QED BY <1>1, <2>1 DEF AnswersTrue, Answers, Operations
<1>3. CASE a.op.keep
  BY <1>1, <1>2, <1>3, BelowSubset DEF AnswerTrue
<1>4. CASE ~a.op.keep
  <2>1. PICK e \in Notes : e = a.op.e
    BY <1>1
  <2>2. a.rev > 0 /\ a.rev <= Revision(e) /\ history[e][a.rev] = a.op.content
    BY <1>1, <1>2, <1>4, <2>1 DEF AnswerTrue
  <2>3. a.rev \in DOMAIN history[e]
    BY <1>2, <2>2, RevisionIn DEF Notes
  <2>4. Below(history[e][a.rev], Content(e))
    BY <2>3, ContentCovers
  <2>. QED BY <1>1, <2>1, <2>2, <2>4
<1>. QED BY <1>3, <1>4

\* What a decision deletes from the outbox is covered by what it decided.
LEMMA SupersededSafe ==
  ASSUME Inductive, QueueRules, FieldRules, Notes = Entities, NEW d \in Devices, FinishResolution(d),
         NEW x \in Mine(d, Resolution(d).e), x \in marker[d][Resolution(d).e].resolution.supersedes
  PROVE  Safe(x)
<1>0. TypeOK /\ Shared /\ OperationsOn(d) /\ ResolutionsOn(d) /\ RequestOn(d)
  BY Parts DEF Holds
<1>1. PICK op : op = Resolution(d)
  OBVIOUS
<1>2. PICK e : e = op.e
  OBVIOUS
<1>3. /\ op \in sync[d].ops /\ op.id \in Resolutions /\ e \in Notes /\ sync[d].stage = "read"
      /\ Decides(d, e) /\ Chosen(d, e) = op
  BY <1>0, <1>1, <1>2, FinishResolutionEffect
<1>4. receipts[op.id] # None /\ receipts[op.id].op = op
  <2>1. Known(op) /\ op \in Requested
    BY <1>3 DEF QueueRules, AnswersHold, Requested
  <2>2. receipts[op.id].op.id = op.id /\ receipts[op.id].op \in Requested
    BY <1>0, <1>3, <2>1 DEF Shared, TypeOK, Known, Requested
  <2>. QED BY <2>1, <2>2 DEF QueueRules, RequestsAgree, Known
<1>5. ~receipts[op.id].copied
  <2>1. receipts[op.id] \in Answers /\ op.id \notin Edits
    BY <1>0, <1>3, <1>4, OfflineAssumption DEF TypeOK
  <2>. QED BY <1>4, <2>1 DEF Answers
<1>6. Below(op.content, Content(e)) \/ Below(op.content, decided)
  <2>1. VersionsCover /\ AnswersTrue
    BY DEF FieldRules, ServerCovers
  <2>2. receipts[op.id].op.e \in Notes /\ receipts[op.id].op.e = e /\ op.id \in Edits \cup Resolutions
    BY <1>2, <1>3, <1>4
  <2>. QED BY <1>0, <1>4, <1>5, <2>1, <2>2, AnswerSafe
<1>7. Field[x] \in Cover(op.content)
  <2>1. DeviceCovers(d, e) /\ x \in Mine(d, e) /\ x \in marker[d][e].resolution.supersedes
    BY <1>1, <1>2, <1>3 DEF FieldRules
  <2>2. x \in Written(d, x)
    BY <2>1 DEF DeviceCovers, QueueCovers
  <2>3. Below(Written(d, x), op.content)
    BY <1>3, <2>1 DEF DeviceCovers, DecisionCovers, Chosen
  <2>. QED BY <2>2, <2>3 DEF Below, Cover
<1>. QED BY <1>3, <1>6, <1>7 DEF Safe, Below, Notes

\* What is applied is current at once, what is copied has its copy, and a
\* decision that takes a copy covers it.
LEMMA AppliedLasts ==
  ASSUME Inductive, TypeOK', QueueRules, ConflictRules, FieldRules, FieldRules', Notes = Entities,
         FieldsLast, NEW ops, ops \subseteq Requested, ops \subseteq Operations, Single(ops),
         Refusal(ops) = None, Apply(ops), UNCHANGED <<outbox, fresh>>
  PROVE  FieldsLast'
<1> DEFINE Copy(op) == [id |-> op.id, e |-> op.e, content |-> op.content, rev |-> 1]
<1>0. TypeOK /\ Shared
  BY Parts
<1>1. /\ Grows
      /\ \A i \in Edits \cup Resolutions :
           receipts'[i] # None => receipts[i] # None \/ \E op \in ops : op.id = i
      /\ copies' = {c \in copies : \A op \in ops : Known(op) \/ c.id # op.copy}
           \cup {Copy(op) : op \in {o \in ops : Conflicts(o)}}
  BY <1>0, ApplyEffect DEF QueueRules
<1>2. \A op \in ops : /\ op.id \in Edits \cup Resolutions /\ op.e \in Entities
                      /\ op.content \in SUBSET Edits /\ op \in Requested
  BY DEF Operations
<1>3. \A op \in ops : Conflicts(op) => Copy(op) \in copies' /\ Copy(op).content = op.content
  BY <1>1
<1> HIDE DEF Copy
<1>4. decided' = decided \cup UNION {op.content : op \in {o \in ops : o.keep /\ ~Known(o)}}
  BY DEF Apply
<1>5. ASSUME NEW op \in ops, Writes(op)
      PROVE  Content(op.e)' = op.content
  <2> DEFINE own == {o \in ops : o.e = op.e /\ Writes(o)}
  <2>1. history'[op.e] = IF own = {} THEN history[op.e]
                         ELSE Append(history[op.e], (CHOOSE o \in own : TRUE).content)
    BY <1>2 DEF Apply
  <2>2. own = {op}
    BY <1>5 DEF Single
  <2>3. history'[op.e] = Append(history[op.e], op.content)
    BY <2>1, <2>2
  <2>4. history[op.e] \in Seq(SUBSET Edits) /\ op.content \in SUBSET Edits
    BY <1>0, <1>2 DEF TypeOK
  <2>5. /\ history'[op.e] # <<>> /\ Len(history'[op.e]) = Len(history[op.e]) + 1
        /\ history'[op.e][Len(history[op.e]) + 1] = op.content
    BY <2>3, <2>4
  <2>. QED BY <2>5 DEF Content, Revision
<1>6. CopiesPass
  <2> SUFFICES ASSUME NEW c \in copies, NEW op \in ops, ~Known(op), c.id = op.copy
               PROVE  \/ \E e \in Entities : Below(c.content, Content(e)')
                      \/ Below(c.content, decided')
    BY <1>1 DEF CopiesPass
  <2>1. c.id \in Edits /\ c.id # None /\ op.id \in Edits \cup Resolutions /\ op \in Requested
    BY <1>0, <1>2, OfflineAssumption DEF TypeOK, Copies
  <2>2. op.id \in Resolutions /\ op.id \notin Edits
    BY <2>1, OfflineAssumption DEF QueueRules, EditsPlain, Plain
  <2>3. \E o \in copies : o.id = op.copy /\ o.rev = op.seenCopy
    BY <2>2, NoneAssumption DEF Refusal, Refusals, Compared
  <2>4. c.rev = op.seenCopy
    BY <2>3 DEF ConflictRules, CopiesHold
  <2>5. WeighsFor(op)
    BY <1>2, <2>1, <2>2 DEF FieldRules, RequestsWeigh
  <2>6. Below(c.content, op.content)
    BY <2>4, <2>5 DEF WeighsFor, Weighs
  <2>7. CASE op.keep
    <3>1. op.content \subseteq decided'
      BY <1>4, <2>7
    <3>. QED BY <2>6, <3>1, BelowSubset, BelowTrans
  <2>8. CASE ~op.keep
    <3>1. Writes(op)
      BY <2>2, <2>8 DEF Writes, Conflicts
    <3>. QED BY <1>2, <1>5, <2>6, <3>1
  <2>. QED BY <2>7, <2>8
<1>7. ASSUME NEW x \in Edits, x \notin fresh, Awaits(x), ~(Awaits(x)') PROVE Safe(x)'
  <2>1. receipts[x] = None /\ receipts'[x] # None
    BY <1>7 DEF Awaits
  <2>2. PICK op \in ops : op.id = x
    BY <1>1, <2>1
  <2>3. op \in Requested /\ ~Known(op) /\ op.e \in Notes /\ ~op.keep
    BY <1>2, <2>1, <2>2 DEF Known, QueueRules, EditsPlain, Plain
  <2>4. PICK d \in Devices : x \in Pending(outbox[d], op.e) /\ outbox[d][x].op = op
    BY <2>2, <2>3, RequestedFirst
  <2>5. QueueCovers(d, op.e)
    BY <2>3 DEF FieldRules, DeviceCovers
  <2>6. Field[x] \in Cover(op.content)
    BY <2>4, <2>5 DEF QueueCovers, Mine, Written, Cover
  <2>7. CASE Conflicts(op)
    BY <1>3, <2>6, <2>7 DEF Safe
  <2>8. CASE ~Conflicts(op)
    <3>1. Writes(op) /\ op.e \in Entities
      BY <1>2, <2>3, <2>8 DEF Writes
    <3>2. Content(op.e)' = op.content
      BY <1>5, <3>1
    <3>. QED BY <2>6, <3>1, <3>2 DEF Safe
  <2>. QED BY <2>7, <2>8
<1>8. decided \subseteq decided'
  BY <1>4
<1>. QED BY <1>0, <1>1, <1>6, <1>7, <1>8, LastFrame

LEMMA ElsewhereLasts ==
  ASSUME Inductive, TypeOK', QueueRules, ConflictRules, FieldRules, FieldRules', Notes = Entities,
         FieldsLast, Elsewhere
  PROVE  FieldsLast'
<1>0. TypeOK
  BY Parts
<1>1. ASSUME NEW e \in Entities, NEW x \in Edits, OnlineEdit(e, x) PROVE FieldsLast'
  <2>1. fresh' = fresh \ {x} /\ UNCHANGED <<copies, receipts, outbox, decided>>
    BY <1>1 DEF OnlineEdit, device, ghost
  <2>2. /\ history' = [history EXCEPT ![e] = history'[e]]
        /\ \/ history[e] = <<>> /\ history'[e] = <<{}, {x}>>
           \/ history'[e] = Append(history[e], Content(e) \cup {x})
    BY <1>0, <1>1 DEF OnlineEdit, TypeOK
  <2>3. <<{}, {x}>> \in Seq(SUBSET Edits) /\ Content(e) \cup {x} \in SUBSET Edits
    BY <1>0, ContentTyped
  <2>4. /\ history' = [n \in Entities |-> history'[n]]
        /\ \A n \in Entities : n # e => history'[n] = history[n]
    BY <1>0, <2>2 DEF TypeOK
  <2>5. Grows
    BY <1>0, <2>2, <2>3, <2>4, AppendGrows
  <2>6. x \in Content(e)'
    <3>1. history[e] \in Seq(SUBSET Edits)
      BY <1>0 DEF TypeOK
    <3>2. CASE history'[e] = <<{}, {x}>>
      BY <3>2 DEF Content, Revision
    <3>3. CASE history'[e] = Append(history[e], Content(e) \cup {x})
      <4>1. /\ history'[e] # <<>> /\ Len(history'[e]) = Len(history[e]) + 1
            /\ history'[e][Len(history[e]) + 1] = Content(e) \cup {x}
        BY <2>3, <3>1, <3>3
      <4>. QED BY <4>1 DEF Content, Revision
    <3>. QED BY <2>2, <3>2, <3>3
  <2>7. Safe(x)'
    BY <2>6 DEF Safe, Cover
  <2>8. CopiesPass /\ \A y \in Edits \ fresh' : y = x \/ (y \notin fresh /\ (Awaits(y) => Awaits(y)'))
    BY <2>1 DEF CopiesPass, Awaits
  <2>. QED BY <1>0, <2>1, <2>5, <2>7, <2>8, LastFrame
<1>2. ASSUME NEW c \in copies, NEW x \in Edits, EditCopy(c, x) PROVE FieldsLast'
  <2> DEFINE b == [id |-> c.id, e |-> c.e, content |-> c.content \cup {x}, rev |-> c.rev + 1]
  <2>1. /\ fresh' = fresh \ {x} /\ copies' = (copies \ {c}) \cup {b}
        /\ UNCHANGED <<history, receipts, outbox, decided>>
    BY <1>2 DEF EditCopy, device, ghost
  <2>2. b.content = c.content \cup {x} /\ b \in copies'
    BY <2>1
  <2> HIDE DEF b
  <2>3. CopiesPass
    BY <2>1, <2>2 DEF CopiesPass
  <2>4. Safe(x)'
    BY <2>2 DEF Safe, Cover
  <2>5. Grows
    BY <1>0, <2>1, HistoryStays
  <2>6. \A y \in Edits \ fresh' : y = x \/ (y \notin fresh /\ (Awaits(y) => Awaits(y)'))
    BY <2>1 DEF Awaits
  <2>. QED BY <1>0, <2>1, <2>3, <2>4, <2>5, <2>6, LastFrame
<1>3. CASE OpenOnline
  <2>1. history' = WithNotebooks(history) /\ UNCHANGED <<copies, receipts, outbox, fresh, decided>>
    BY <1>3 DEF OpenOnline, device, ghost
  <2>2. Grows /\ CopiesPass /\ \A y \in Edits : Awaits(y) => Awaits(y)'
    BY <1>0, <2>1, NotebooksGrow DEF CopiesPass, Awaits
  <2>. QED BY <1>0, <2>1, <2>2, LastFrame
<1>4. ASSUME NEW ops \in late, ServeLate(ops) PROVE FieldsLast'
  <2>1. /\ UNCHANGED <<outbox, fresh>>
        /\ UNCHANGED <<history, copies, receipts, decided>> \/ (Refusal(ops) = None /\ Apply(ops))
    BY <1>4 DEF ServeLate, device, server
  <2>2. CASE UNCHANGED <<history, copies, receipts, decided>>
    <3>1. Grows /\ CopiesPass /\ \A y \in Edits : Awaits(y) => Awaits(y)'
      BY <1>0, <2>1, <2>2, HistoryStays DEF CopiesPass, Awaits
    <3>. QED BY <1>0, <2>1, <2>2, <3>1, LastFrame
  <2>3. CASE Refusal(ops) = None /\ Apply(ops)
    <3>1. ops \subseteq Requested /\ Single(ops)
      BY DEF Requested, FieldRules, RequestsSingle
    <3>2. ops \subseteq Operations
      BY <1>0 DEF TypeOK
    <3>. QED BY <2>1, <2>3, <3>1, <3>2, AppliedLasts
  <2>. QED BY <2>1, <2>2, <2>3
<1>. QED BY <1>1, <1>2, <1>3, <1>4 DEF Elsewhere

\* A step that leaves the server and what is in the outbox of its device.
LEMMA NothingLeaves ==
  ASSUME Inductive, TypeOK', FieldRules', Notes = Entities, FieldsLast, NEW d \in Devices, Alone(d),
         UNCHANGED <<history, copies, receipts, decided>>, Edits \ fresh' \subseteq Edits \ fresh,
         \A x \in Edits : outbox[d][x] # None => outbox'[d][x] # None
  PROVE  FieldsLast'
<1>1. TypeOK
  BY Parts
<1>2. Grows
  BY <1>1, HistoryStays
<1>. QED BY <1>2, DeviceLasts

LEMMA SynchronizeLasts ==
  ASSUME Inductive, TypeOK', QueueRules, ConflictRules, FieldRules, FieldRules', Notes = Entities,
         FieldsLast, NEW d \in Devices, Synchronize(d)
  PROVE  FieldsLast'
<1>0. TypeOK /\ Holds(d) /\ OperationsOn(d) /\ ResolutionsOn(d) /\ RequestOn(d) /\ KeptOn(d)
  BY Parts DEF Holds
<1>1. CASE Flush(d)
  <2>1. /\ Alone(d)
        /\ UNCHANGED <<history, copies, receipts, outbox, fresh, decided>>
    BY <1>0, <1>1, FlushEffect
  <2>. QED BY <2>1, NothingLeaves
<1>2. ASSUME NEW e \in Entities, SendResolution(d, e) PROVE FieldsLast'
  <2>1. /\ Alone(d)
        /\ UNCHANGED <<history, copies, receipts, outbox, fresh, decided>>
    BY <1>0, <1>2, SendResolutionEffect
  <2>. QED BY <2>1, NothingLeaves
<1>3. CASE Serve(d)
  <2>1. /\ Alone(d) /\ UNCHANGED <<outbox, fresh>>
        /\ \/ UNCHANGED <<history, copies, receipts, decided>>
           \/ Refusal(sync[d].ops) = None /\ Apply(sync[d].ops)
    BY <1>0, <1>3, ServeEffect
  <2>2. CASE UNCHANGED <<history, copies, receipts, decided>>
    BY <2>1, <2>2, NothingLeaves
  <2>3. CASE Refusal(sync[d].ops) = None /\ Apply(sync[d].ops)
    <3>1. sync[d].ops \subseteq Requested /\ sync[d].ops \subseteq Operations /\ Single(sync[d].ops)
      BY <1>0, Typed DEF Requested, Syncs, FieldRules, RequestsSingle
    <3>. QED BY <2>1, <2>3, <3>1, AppliedLasts
  <2>. QED BY <2>1, <2>2, <2>3
<1>4. CASE Fetch(d)
  <2>1. /\ Alone(d) /\ history' = WithNotebooks(history)
        /\ UNCHANGED <<copies, receipts, outbox, fresh, decided>>
    BY <1>0, <1>4, FetchEffect
  <2>2. Grows
    BY <1>0, <2>1, NotebooksGrow
  <2>. QED BY <2>1, <2>2, DeviceLasts
<1>5. CASE Acknowledge(d)
  <2>1. PICK done : done = {op.id : op \in sync[d].ops}
    OBVIOUS
  <2>2. /\ Alone(d) /\ sync[d].stage = "read"
        /\ UNCHANGED <<history, copies, receipts, fresh, decided>>
        /\ \A x \in Edits : outbox'[d][x] # None <=> outbox[d][x] # None /\ x \notin done
    BY <1>0, <1>5, <2>1, AcknowledgeEffect
  <2>3. \A x \in done : receipts[x] # None
    BY <2>1, <2>2 DEF QueueRules, AnswersHold, Known
  <2>4. Grows
    BY <1>0, <2>2, HistoryStays
  <2>. QED BY <2>2, <2>3, <2>4, DeviceLasts
<1>6. CASE Refused(d)
  <2>1. sync[d].refusal \in Errors
    BY <1>0, <1>6, Typed DEF Refused, Syncs, Errors, RequestOn
  <2>2. /\ SameQueue(d) /\ Alone(d)
        /\ UNCHANGED <<history, copies, receipts, fresh, decided>>
    BY <1>0, <1>6, <2>1, FailedEffect DEF Refused
  <2>. QED BY <2>2, NothingLeaves DEF SameQueue
<1>7. CASE FinishResolution(d)
  <2>1. PICK e : e = Resolution(d).e
    OBVIOUS
  <2>2. PICK gone : gone = marker[d][e].resolution.supersedes
    OBVIOUS
  <2>3. /\ Alone(d) /\ Decides(d, e) /\ e \in Entities
        /\ UNCHANGED <<history, copies, receipts, fresh, decided>>
        /\ \A x \in Edits : x \notin gone => (outbox'[d][x] # None <=> outbox[d][x] # None)
    BY <1>0, <1>7, <2>1, <2>2, FinishResolutionEffect
  <2>4. ASSUME NEW x \in Edits, x \in gone, outbox[d][x] # None PROVE Safe(x)
    <3>1. outbox[d][x].op.e = e
      BY <1>0, <2>2, <2>3, <2>4 DEF ResolutionsOn, Decides
    <3>2. x \in Mine(d, e)
      BY <2>4, <3>1 DEF Mine, Pending
    <3>. QED BY <1>7, <2>1, <2>2, <2>4, <3>2, SupersededSafe
  <2>5. Grows
    BY <1>0, <2>3, HistoryStays
  <2>. QED BY <2>3, <2>4, <2>5, DeviceLasts
<1>. QED BY <1>1, <1>2, <1>3, <1>4, <1>5, <1>6, <1>7 DEF Synchronize

LEMMA StepLasts ==
  ASSUME Inductive, TypeOK', QueueRules, ConflictRules, FieldRules, FieldRules', Notes = Entities,
         FieldsLast, [Next]_vars
  PROVE  FieldsLast'
<1>0. TypeOK
  BY Parts
<1>1. CASE UNCHANGED vars
  BY <1>1 DEF vars, server, device, ghost, FieldsLast, Awaits, Safe, Content, Revision
<1>2. CASE Elsewhere
  BY <1>2, ElsewhereLasts
<1>3. ASSUME NEW d \in Devices,
             Edit(d) \/ Download(d) \/ RetrySync(d) \/ Synchronize(d) \/ Disturb(d) \/ Resolve(d)
      PROVE  FieldsLast'
  <2>0. Holds(d) /\ KeptOn(d)
    BY Parts DEF Holds
  <2>1. ASSUME NEW e \in Entities, NEW x \in Edits, LocalEdit(d, e, x) PROVE FieldsLast'
    <3>1. /\ x \in fresh /\ fresh' = fresh \ {x} /\ Alone(d) /\ outbox'[d][x] # None
          /\ UNCHANGED <<history, copies, receipts, decided>>
          /\ \A y \in Edits \ {x} : outbox'[d][y] = outbox[d][y]
      BY <1>0, <2>1, LocalEditEffect
    <3>2. receipts[x] = None /\ Grows
      BY <1>0, <3>1, ApartMade, HistoryStays
    <3>3. \A y \in Edits \ fresh' : y \notin fresh \/ (outbox'[d][y] # None /\ receipts[y] = None)
      BY <3>1, <3>2
    <3>4. \A y \in Edits : outbox[d][y] # None => outbox'[d][y] # None
      BY <3>1
    <3>. QED BY <3>1, <3>2, <3>3, <3>4, DeviceLasts
  <2>2. CASE Download(d)
    <3>1. Alone(d) /\ UNCHANGED <<history, copies, receipts, outbox, fresh, decided>>
      BY <1>0, <2>2, DownloadEffect
    <3>. QED BY <3>1, NothingLeaves
  <2>3. CASE RetrySync(d)
    <3>1. SameQueue(d) /\ Alone(d) /\ UNCHANGED <<history, copies, receipts, fresh, decided>>
      BY <1>0, <2>3, RetrySyncEffect
    <3>. QED BY <3>1, NothingLeaves DEF SameQueue
  <2>4. CASE NetworkFailure(d)
    <3>1. "NETWORK" \in Errors
      BY DEF Errors
    <3>2. SameQueue(d) /\ Alone(d) /\ UNCHANGED <<history, copies, receipts, fresh, decided>>
      BY <1>0, <2>0, <2>4, <3>1, FailedEffect DEF NetworkFailure
    <3>. QED BY <3>2, NothingLeaves DEF SameQueue
  <2>5. CASE CloseTab(d)
    <3>1. Alone(d) /\ UNCHANGED <<history, copies, receipts, outbox, fresh, decided>>
      BY <1>0, <2>5, CloseTabEffect
    <3>. QED BY <3>1, NothingLeaves
  <2>6. ASSUME NEW c \in listed[d], EnsureConflict(d, c) PROVE FieldsLast'
    <3>1. Alone(d) /\ UNCHANGED <<history, copies, receipts, outbox, fresh, decided>>
      BY <1>0, <2>6, EnsureConflictEffect
    <3>. QED BY <3>1, NothingLeaves
  <2>7. ASSUME NEW e \in Entities, Compare(d, e) PROVE FieldsLast'
    <3>1. Alone(d) /\ UNCHANGED <<history, copies, receipts, outbox, fresh, decided>>
      BY <1>0, <2>7, CompareEffect
    <3>. QED BY <3>1, NothingLeaves
  <2>8. ASSUME NEW r \in Resolutions, NEW keep \in BOOLEAN, Prepare(d, r, keep) PROVE FieldsLast'
    <3>1. /\ Alone(d) /\ fresh' = fresh \ {r}
          /\ UNCHANGED <<history, copies, receipts, outbox, decided>>
      BY <1>0, <2>8, PrepareEffect
    <3>2. r \notin Edits
      BY OfflineAssumption
    <3>. QED BY <3>1, <3>2, NothingLeaves
  <2>. QED BY <1>3, <2>1, <2>2, <2>3, <2>4, <2>5, <2>6, <2>7, <2>8, SynchronizeLasts
           DEF Edit, Disturb, Resolve
<1>. QED BY <1>1, <1>2, <1>3 DEF Next

\* Whatever happens to its request, a field that was edited waits in an
\* outbox, is set by the current version or a conflict copy, or was in view
\* when the user kept the server's version: for any number of devices,
\* annotations, edits and decisions (annotation-sync.ts deletes what is
\* acknowledged, offline-conflicts.ts what a decision supersedes).
THEOREM NoFieldIsLost ==
  ASSUME Notebooks = {}
  PROVE  Spec => []FieldsLast
<1>1. Notes = Entities
  BY DEF Notes
<1>2. Init => FieldsLast
  BY DEF Init, FieldsLast
<1>3. Inductive /\ Inductive' /\ QueueRules /\ ConflictRules /\ FieldRules /\ FieldRules' /\ FieldsLast
        /\ [Next]_vars => FieldsLast'
  BY <1>1, StepLasts, PartsAfter
<1>. QED BY <1>2, <1>3, FieldsAreKept, ConflictsAreRuled, QueueIsRuled, SyncIsInductive, PTL DEF Spec

\* No edit is lost, where every edit has a field of its own: it waits in an
\* outbox, is in the current version or in a conflict copy, or was decided
\* against.
THEOREM NoEditIsLost ==
  ASSUME Notebooks = {}, \A x, y \in Edits : Field[x] = Field[y] => x = y
  PROVE  Spec => []NoEditLost
<1>1. TypeOK /\ FieldsLast => NoEditLost
  <2> SUFFICES ASSUME TypeOK, FieldsLast, NEW x \in Edits \ fresh,
                      ~ \E d \in Devices : outbox[d][x] # None
               PROVE  \/ \E e \in Entities : x \in Content(e)
                      \/ \E c \in copies : x \in c.content
                      \/ x \in decided
    BY DEF NoEditLost
  <2>1. Safe(x)
    BY DEF FieldsLast, Awaits
  <2>2. /\ \A e \in Entities : Content(e) \in SUBSET Edits
        /\ \A c \in copies : c.content \in SUBSET Edits
        /\ decided \in SUBSET Edits
    BY ContentTyped DEF TypeOK, Copies
  <2>. QED BY <2>1, <2>2, OwnFields DEF Safe
<1>2. Inductive => TypeOK
  BY Parts
<1>. QED BY <1>1, <1>2, NoFieldIsLost, SyncIsInductive, PTL
=============================================================================
