------------------------ MODULE PreferenceSync_proofs ------------------------
(***************************************************************************)
(* Theorems about PreferenceSync, for every set of browsers, tabs, fields  *)
(* and values and every bound.                                             *)
(*                                                                         *)
(* Inductive is preserved by every action.  Its heart is Linked: the       *)
(* user's last choice for a field is pending under its own number or has   *)
(* been applied; a number that is pending and applied belongs to a flight  *)
(* whose answer is on its way; and every base is a revision the user has   *)
(* seen.  NoBlindOverwrite speaks of the whole history of a field and is   *)
(* proved beside it.                                                       *)
(***************************************************************************)
EXTENDS PreferenceSync, TLAPS

\* What ties a field of a browser to the server's answers survives a step
\* that leaves the field alone, provided the screen keeps up with the copy.
LEMMA LinkKeeps ==
  ASSUME Inductive, NEW e \in Devices, NEW g \in Fields,
         changes'[e][g] = changes[e][g], wish'[e][g] = wish[e][g],
         accepted'[e][g] = accepted[e][g],
         sequence'[e] \in Nat, sequence'[e] >= sequence[e],
         flight'[e] = flight[e], receipts'[e] = receipts[e],
         g \in conflicts'[e] <=> g \in conflicts[e],
         shown[e][g] \subseteq shown'[e][g],
         Ready(e)' /\ (changes'[e][g] = None \/ g \in conflicts'[e]) =>
           cache'[e][g] \in shown'[e][g]
  PROVE  Linked(e, g)'
<1>1. Linked(e, g)
  BY DEF Inductive
<1>2. sequence[e] \in Nat
  BY DEF Inductive, TypeOK
<1>. QED BY <1>1, <1>2 DEF Linked, Tracked, Numbered, SentIsPending, AnswerIsTrue, BasesSeen, Sent, Known

\* The same for a browser whose copy does not change.
LEMMA FrameKeeps ==
  ASSUME Inductive, NEW e \in Devices, NEW g \in Fields,
         changes'[e][g] = changes[e][g], wish'[e][g] = wish[e][g],
         accepted'[e][g] = accepted[e][g],
         sequence'[e] \in Nat, sequence'[e] >= sequence[e],
         flight'[e] = flight[e], receipts'[e] = receipts[e],
         g \in conflicts'[e] <=> g \in conflicts[e],
         shown[e][g] \subseteq shown'[e][g], cache'[e] = cache[e]
  PROVE  Linked(e, g)'
<1>1. Ready(e)' /\ (changes'[e][g] = None \/ g \in conflicts'[e]) =>
        cache'[e][g] \in shown'[e][g]
  BY DEF Inductive, Linked, BasesSeen, Ready
<1>. QED BY <1>1, LinkKeeps

\* A step that changes none of what Linked speaks of keeps it.
LEMMA NothingLinkedChanges ==
  ASSUME Inductive, UNCHANGED <<accepted, receipts, cache, changes, conflicts,
                                flight, sequence, wish, shown>>
  PROVE  \A e \in Devices, g \in Fields : Linked(e, g)'
BY DEF Inductive, Linked, Tracked, Numbered, SentIsPending, AnswerIsTrue, BasesSeen, Sent, Known, Ready

\* mergeServer takes no field back to an older revision.
LEMMA NewestIsNewer ==
  ASSUME NEW known \in [Fields -> Nat], NEW fresh \in [Fields -> Nat]
  PROVE  /\ Newest(known, fresh) \in [Fields -> Nat]
         /\ \A f \in Fields : Newest(known, fresh)[f] >= known[f]
BY DEF Newest

\* _apply keeps the history of a field a history.
LEMMA WrittenIsHistory ==
  ASSUME TypeOK, NEW f \in Fields, NEW v \in Values, NEW by \in Devices \cup {None}
  PROVE  Written(f, v, by) \in Seq([value : Values, by : Devices \cup {None}]) \ {<<>>}
<1>1. history[f] \in Seq([value : Values, by : Devices \cup {None}]) \ {<<>>}
  BY DEF TypeOK
<1>. QED BY <1>1 DEF Written

\* A flush stays a flush when only its stage changes.
LEMMA StageChanges ==
  ASSUME NEW s \in Syncs, NEW stage \in {"idle", "refresh", "merge", "depart", "send"}
  PROVE  [s EXCEPT !.stage = stage] \in Syncs
BY DEF Syncs

\* A sequence over S has its members in S.
LEMMA MembersOfSequences ==
  ASSUME NEW S, NEW s \in Seq(S), NEW i \in DOMAIN s
  PROVE  s[i] \in S
OBVIOUS

\* queuePreferenceChanges: a fresh number has not been applied, and what is
\* withdrawn is not under way.
LEMMA ChooseKeeps ==
  ASSUME Inductive, NEW d \in Devices, NEW input \in Inputs, Choose(d, input)
  PROVE  Inductive'
<1>0. TypeOK
  BY DEF Inductive
<1> DEFINE back == {f \in DOMAIN input : Withdrawn(d, f, input[f])}
           new == DOMAIN input \ back
<1>1. \A f \in Fields : changes'[d][f] =
        IF f \in back THEN None
        ELSE IF f \in new
        THEN [value |-> input[f], seq |-> sequence[d] + 1, base |->
                IF changes[d][f] = None THEN cache[d][f] ELSE changes[d][f].base]
        ELSE changes[d][f]
  BY <1>0 DEF Choose, TypeOK
<1>2. \A f \in Fields : wish'[d][f] =
        IF f \in back THEN 0 ELSE IF f \in new THEN sequence[d] + 1 ELSE wish[d][f]
  BY <1>0 DEF Choose, TypeOK
<1>3. conflicts'[d] = conflicts[d] \ back
  BY <1>0 DEF Choose, TypeOK
<1>4. sequence'[d] = IF new = {} THEN sequence[d] ELSE sequence[d] + 1
  BY <1>0 DEF Choose, TypeOK
<1>5. \A f \in Fields : shown'[d][f] = shown[d][f] \cup
        (IF changes'[d][f] = None \/ f \in conflicts'[d] THEN {cache'[d][f]} ELSE {})
  BY <1>0 DEF Choose, See, NothingMore, TypeOK
<1>6. ASSUME NEW e \in Devices \ {d}
      PROVE  /\ changes'[e] = changes[e] /\ wish'[e] = wish[e]
             /\ conflicts'[e] = conflicts[e] /\ sequence'[e] = sequence[e]
             /\ shown'[e] = shown[e]
  BY <1>0 DEF Choose, See, TypeOK
<1>7. UNCHANGED <<history, receipts, accepted, cache, flight, sync>>
  BY DEF Choose, server
<1>8. /\ DOMAIN input \subseteq Fields /\ \A f \in DOMAIN input : input[f] \in Values
      /\ back \subseteq Fields /\ new \subseteq DOMAIN input /\ new \cap back = {}
      /\ \A f \in back : ~Sent(d, f)
  BY DEF Inputs, Withdrawn
<1>9. Ready(d) /\ cache[d] \in [Fields -> Nat] /\ sequence[d] \in Nat
  BY <1>0 DEF Choose, Ready, TypeOK
<1>10. ASSUME NEW f \in Fields
       PROVE  /\ changes'[d][f] \in Changes \cup {None}
              /\ f \in new => changes'[d][f] \in Changes
  <2>. HIDE DEF back, new
  <2>1. CASE f \in back
    BY <2>1, <1>1, <1>8
  <2>2. CASE f \in new
    <3>1. changes[d][f] # None => changes[d][f].base \in Nat
      BY <1>0 DEF TypeOK, Changes
    <3>2. input[f] \in Values
      BY <2>2, <1>8
    <3>3. f \notin back
      BY <2>2, <1>8
    <3>4. cache[d][f] \in Nat /\ sequence[d] + 1 \in Nat
      BY <1>9
    <3> DEFINE base == IF changes[d][f] = None THEN cache[d][f] ELSE changes[d][f].base
    <3>5. base \in Nat
      BY <3>1, <3>4
    <3>6. changes'[d][f] = [value |-> input[f], seq |-> sequence[d] + 1, base |-> base]
      BY <3>3, <2>2, <1>1
    <3>. HIDE DEF base
    <3>. QED BY <3>2, <3>4, <3>5, <3>6 DEF Changes
  <2>3. CASE f \notin back \cup new
    <3>1. changes'[d][f] = changes[d][f]
      BY <2>3, <1>1
    <3>. QED BY <2>3, <3>1, <1>0 DEF TypeOK
  <2>. QED BY <2>1, <2>2, <2>3
<1>11. TypeOK'
  <2>1. changes' \in [Devices -> [Fields -> Changes \cup {None}]]
    <3>1. changes' = [changes EXCEPT ![d] = changes'[d]]
      BY <1>0 DEF TypeOK, Choose
    <3>2. changes'[d] = [f \in Fields |-> changes'[d][f]]
      BY <1>0 DEF TypeOK, Choose
    <3>3. changes'[d] \in [Fields -> Changes \cup {None}]
      <4>. HIDE DEF back, new
      <4>1. \A f \in Fields : changes'[d][f] \in Changes \cup {None}
        BY <1>10
      <4>. QED BY <3>2, <4>1, Zenon
    <3>. QED BY <3>1, <3>3, <1>0 DEF TypeOK
  <2>2. conflicts' \in [Devices -> SUBSET Fields] /\ sequence' \in [Devices -> Nat]
    BY <1>0 DEF TypeOK, Choose
  <2>3. attempts' \in [Devices -> 0 .. MaxAttempts]
    BY <1>0, PreferenceAssumption DEF TypeOK, Choose
  <2>4. error' \in [Devices -> {None, "NETWORK", "AUTH"}]
    BY <1>0 DEF TypeOK, Choose
  <2>5. wish' \in [Devices -> [Fields -> Nat]]
    BY <1>0 DEF TypeOK, Choose
  <2>6. shown' \in [Devices -> [Fields -> SUBSET Nat]]
    BY <1>0, <1>7, <1>9 DEF TypeOK, Choose, See, NothingMore
  <2>. QED BY <1>0, <1>7, <2>1, <2>2, <2>3, <2>4, <2>5, <2>6 DEF TypeOK
<1>12. Untouched'
  BY <1>0, <1>6, <1>7, <1>9 DEF Inductive, Untouched, Ready
<1>13. Stages'
  BY <1>7 DEF Inductive, Stages, Ready
<1>14. ASSUME NEW f \in Fields
       PROVE  Linked(d, f)'
  <2>. HIDE DEF back, new
  <2>1. Linked(d, f)
    BY DEF Inductive
  <2>2. changes[d][f] # None => changes[d][f] \in Changes
    BY <1>0 DEF TypeOK
  <2>3. accepted[d][f] \subseteq Nat /\ wish[d][f] \in Nat /\ sequence[d] \in Nat
    BY <1>0 DEF TypeOK
  <2>4. UNCHANGED <<Sent(d, f), Known(d), Ready(d)>>
    BY <1>7 DEF Sent, Known, Ready
  <2>5. CASE f \in back
    <3>1. changes'[d][f] = None /\ wish'[d][f] = 0 /\ f \notin conflicts'[d]
      BY <2>5, <1>1, <1>2, <1>3
    <3>2. ~Sent(d, f)
      BY <2>5, <1>8
    <3>3. Numbered(d, f)'
      BY <3>1, <3>2, <2>1, <2>3, <2>4, <1>4, <1>7 DEF Linked, Numbered
    <3>4. cache'[d][f] \in shown'[d][f]
      BY <3>1, <1>5
    <3>. QED BY <3>1, <3>2, <3>3, <3>4, <2>4, <1>7 DEF Linked, Tracked, SentIsPending, AnswerIsTrue, BasesSeen
  <2>6. CASE f \in new
    <3>1. f \notin back
      BY <2>6, <1>8
    <3> DEFINE base == IF changes[d][f] = None THEN cache[d][f] ELSE changes[d][f].base
    <3>2. /\ changes'[d][f] = [value |-> input[f], seq |-> sequence[d] + 1, base |-> base]
          /\ wish'[d][f] = sequence[d] + 1 /\ sequence'[d] = sequence[d] + 1
      BY <3>1, <2>6, <1>1, <1>2, <1>4
    <3>3. changes'[d][f] # None
      BY <2>6, <1>10, PreferenceAssumption
    <3>4. f \in conflicts'[d] <=> f \in conflicts[d]
      BY <3>1, <1>3
    <3>5. Tracked(d, f)' /\ Numbered(d, f)' /\ SentIsPending(d, f)'
      BY <3>2, <3>3, <3>4, <2>1, <2>3, <2>4, <1>7 DEF Linked, Tracked, Numbered, SentIsPending
    <3>6. AnswerIsTrue(d, f)'
      BY <3>2, <3>3, <2>1, <2>3, <2>4, <1>7 DEF Linked, Numbered, AnswerIsTrue
    <3>7. BasesSeen(d, f)'
      BY <3>2, <3>3, <3>4, <2>1, <2>4, <1>5, <1>7, <1>9 DEF Linked, BasesSeen
    <3>. QED BY <3>5, <3>6, <3>7 DEF Linked
  <2>7. CASE f \notin back \cup new
    <3>1. /\ changes'[d][f] = changes[d][f] /\ wish'[d][f] = wish[d][f]
          /\ f \in conflicts'[d] <=> f \in conflicts[d]
          /\ shown[d][f] \subseteq shown'[d][f]
      BY <2>7, <1>1, <1>2, <1>3, <1>5
    <3>2. sequence'[d] >= sequence[d] /\ sequence'[d] \in Nat
      BY <2>3, <1>4
    <3>. QED BY <3>1, <3>2, <1>7, FrameKeeps
  <2>. QED BY <2>5, <2>6, <2>7
<1>15. ASSUME NEW e \in Devices \ {d}, NEW f \in Fields
       PROVE  Linked(e, f)'
  <2>1. sequence[e] \in Nat
    BY <1>0 DEF TypeOK
  <2>. QED BY <2>1, <1>6, <1>7, FrameKeeps
<1>. QED BY <1>11, <1>12, <1>13, <1>14, <1>15 DEF Inductive
----------------------------------------------------------------
\* Another client writes fields through PATCH.
LEMMA PatchKeeps ==
  ASSUME Inductive, NEW input \in Inputs, Patch(input)
  PROVE  Inductive'
<1>0. TypeOK
  BY DEF Inductive
<1>1. UNCHANGED <<receipts, accepted, stored, sync, wish, shown>>
  BY DEF Patch
<1>2. \A f \in DOMAIN input : input[f] \in Values
  BY DEF Inputs
<1>3. history' \in [Fields -> Seq([value : Values, by : Devices \cup {None}]) \ {<<>>}]
  <2>1. \A f \in Fields : f \in DOMAIN input =>
          Written(f, input[f], None) \in Seq([value : Values, by : Devices \cup {None}]) \ {<<>>}
    BY <1>0, <1>2, WrittenIsHistory
  <2>. QED BY <2>1, <1>0 DEF Patch, TypeOK
<1>4. TypeOK'
  BY <1>0, <1>1, <1>3 DEF TypeOK, stored
<1>5. Untouched' /\ Stages'
  BY <1>1 DEF Inductive, Untouched, Stages, Ready, stored
<1>6. \A e \in Devices, g \in Fields : Linked(e, g)'
  BY <1>1, NothingLinkedChanges DEF stored
<1>. QED BY <1>4, <1>5, <1>6 DEF Inductive

\* A flush starts in a tab.
LEMMA StartKeeps ==
  ASSUME Inductive, NEW d \in Devices, NEW t \in Tabs,
         NEW refresh \in BOOLEAN, NEW retry \in BOOLEAN, Start(d, t, refresh, retry)
  PROVE  Inductive'
<1>0. TypeOK
  BY DEF Inductive
<1>1. UNCHANGED <<server, cache, changes, conflicts, flight, sequence, wish, shown>>
  BY DEF Start
<1>2. attempts' \in [Devices -> 0 .. MaxAttempts]
  BY <1>0, PreferenceAssumption DEF Start, TypeOK
<1>3. error' \in [Devices -> {None, "NETWORK", "AUTH"}]
  BY <1>0 DEF Start, TypeOK
<1> DEFINE stage == IF refresh /\ flight[d] = None THEN "refresh" ELSE "depart"
<1>4. sync' = [sync EXCEPT ![d][t] = [@ EXCEPT !.stage = stage]]
  BY DEF Start, Stage
<1>5. stage \in {"refresh", "depart"}
  OBVIOUS
<1>. HIDE DEF stage
<1>6. sync' \in [Devices -> [Tabs -> Syncs]]
  <2>1. sync \in [Devices -> [Tabs -> Syncs]] /\ sync[d][t] \in Syncs
    BY <1>0 DEF TypeOK
  <2>2. [sync[d][t] EXCEPT !.stage = stage] \in Syncs
    BY <2>1, <1>5, StageChanges
  <2>. QED BY <2>1, <2>2, <1>4
<1>7. TypeOK'
  BY <1>0, <1>1, <1>2, <1>3, <1>6 DEF TypeOK, server
<1>8. Untouched'
  BY <1>1 DEF Inductive, Untouched, Ready
<1>9. Stages'
  <2>1. Ready(d)
    BY DEF Start
  <2>2. Stages
    BY DEF Inductive
  <2>3. ASSUME NEW e \in Devices, NEW u \in Tabs
        PROVE  /\ sync'[e][u].stage # "idle" => Ready(e)
               /\ sync'[e][u].stage = "merge" => sync'[e][u].fresh # None
               /\ sync'[e][u].stage = "send" => sync'[e][u].request # None
    <3>1. CASE e = d /\ u = t
      <4>1. sync'[e][u].stage = stage
        BY <3>1, <1>0, <1>4 DEF TypeOK, Syncs
      <4>. QED BY <4>1, <3>1, <2>1, <1>5
    <3>2. CASE ~(e = d /\ u = t)
      <4>1. sync'[e][u] = sync[e][u]
        BY <3>2, <1>0, <1>4 DEF TypeOK
      <4>. QED BY <4>1, <2>2 DEF Stages
    <3>. QED BY <3>1, <3>2
  <2>. QED BY <2>2, <2>3, <1>1 DEF Stages, Ready, server
<1>10. \A e \in Devices, g \in Fields : Linked(e, g)'
  BY <1>1, NothingLinkedChanges DEF server
<1>. QED BY <1>7, <1>8, <1>9, <1>10 DEF Inductive

\* A tab that reaches a stage with what that stage needs.
LEMMA TabKeeps ==
  ASSUME Inductive, NEW d \in Devices, NEW t \in Tabs, NEW now \in Syncs,
         sync' = [sync EXCEPT ![d][t] = now], Ready(d),
         now.stage = "merge" => now.fresh # None,
         now.stage = "send" => now.request # None,
         \A e \in Devices : Ready(e) => Ready(e)'
  PROVE  /\ sync' \in [Devices -> [Tabs -> Syncs]]
         /\ \A e \in Devices, u \in Tabs :
              /\ sync'[e][u].stage # "idle" => Ready(e)'
              /\ sync'[e][u].stage = "merge" => sync'[e][u].fresh # None
              /\ sync'[e][u].stage = "send" => sync'[e][u].request # None
<1>0. sync \in [Devices -> [Tabs -> Syncs]] /\ Stages
  BY DEF Inductive, TypeOK
<1>1. sync' \in [Devices -> [Tabs -> Syncs]]
  BY <1>0
<1>2. ASSUME NEW e \in Devices, NEW u \in Tabs
      PROVE  /\ sync'[e][u].stage # "idle" => Ready(e)'
             /\ sync'[e][u].stage = "merge" => sync'[e][u].fresh # None
             /\ sync'[e][u].stage = "send" => sync'[e][u].request # None
  <2>1. CASE e = d /\ u = t
    BY <2>1, <1>0
  <2>2. CASE ~(e = d /\ u = t)
    <3>1. sync'[e][u] = sync[e][u]
      BY <2>2, <1>0
    <3>. QED BY <3>1, <1>0 DEF Stages
  <2>. QED BY <2>1, <2>2
<1>. QED BY <1>1, <1>2

\* GET /api/preferences.
LEMMA FetchKeeps ==
  ASSUME Inductive, NEW d \in Devices, NEW t \in Tabs, Fetch(d, t)
  PROVE  Inductive'
<1>0. TypeOK
  BY DEF Inductive
<1>1. UNCHANGED <<server, stored, wish, shown>>
  BY DEF Fetch
<1> DEFINE now == [Idle EXCEPT !.stage = "merge", !.fresh = Revisions]
<1>2. Revisions \in [Fields -> Nat]
  BY <1>0 DEF TypeOK, Revisions, Revision
<1>3. now \in Syncs /\ now.stage = "merge" /\ now.fresh # None
  BY <1>2, PreferenceAssumption DEF Syncs, Idle
<1>4. sync' = [sync EXCEPT ![d][t] = now]
  BY DEF Fetch
<1>5. Ready(d) /\ \A e \in Devices : Ready(e)' <=> Ready(e)
  BY <1>1 DEF Fetch, Inductive, Stages, Ready, stored
<1>. HIDE DEF now
<1>6. /\ sync' \in [Devices -> [Tabs -> Syncs]]
      /\ \A e \in Devices, u \in Tabs :
           /\ sync'[e][u].stage # "idle" => Ready(e)'
           /\ sync'[e][u].stage = "merge" => sync'[e][u].fresh # None
           /\ sync'[e][u].stage = "send" => sync'[e][u].request # None
  BY <1>3, <1>4, <1>5, TabKeeps
<1>7. TypeOK'
  BY <1>0, <1>1, <1>6 DEF TypeOK, server, stored
<1>8. Untouched' /\ Stages'
  BY <1>1, <1>6 DEF Inductive, Untouched, Stages, Ready, server, stored
<1>9. \A e \in Devices, g \in Fields : Linked(e, g)'
  BY <1>1, NothingLinkedChanges DEF server, stored
<1>. QED BY <1>7, <1>8, <1>9 DEF Inductive

\* A flush fails: the flight stays.
LEMMA FailKeeps ==
  ASSUME Inductive, NEW d \in Devices, NEW t \in Tabs,
         NEW why \in {"NETWORK", "AUTH"}, Fail(d, t, why)
  PROVE  Inductive'
<1>0. TypeOK
  BY DEF Inductive
<1>1. UNCHANGED <<server, cache, changes, conflicts, flight, sequence, wish, shown>>
  BY DEF Fail
<1>2. attempts' \in [Devices -> 0 .. MaxAttempts] /\ error' \in [Devices -> {None, "NETWORK", "AUTH"}]
  BY <1>0, PreferenceAssumption DEF Fail, TypeOK
<1>3. Idle \in Syncs /\ Idle.stage = "idle"
  BY DEF Syncs, Idle
<1>4. sync' = [sync EXCEPT ![d][t] = Idle]
  BY DEF Fail
<1>5. Ready(d) /\ \A e \in Devices : Ready(e)' <=> Ready(e)
  BY <1>1 DEF Fail, Inductive, Stages, Ready
<1>6. /\ sync' \in [Devices -> [Tabs -> Syncs]]
      /\ \A e \in Devices, u \in Tabs :
           /\ sync'[e][u].stage # "idle" => Ready(e)'
           /\ sync'[e][u].stage = "merge" => sync'[e][u].fresh # None
           /\ sync'[e][u].stage = "send" => sync'[e][u].request # None
  BY <1>3, <1>4, <1>5, TabKeeps
<1>7. TypeOK'
  BY <1>0, <1>1, <1>2, <1>6 DEF TypeOK, server
<1>8. Untouched' /\ Stages'
  BY <1>1, <1>6 DEF Inductive, Untouched, Stages, Ready, server
<1>9. \A e \in Devices, g \in Fields : Linked(e, g)'
  BY <1>1, NothingLinkedChanges DEF server
<1>. QED BY <1>7, <1>8, <1>9 DEF Inductive

\* A tab closes: the database stays.
LEMMA CloseKeeps ==
  ASSUME Inductive, NEW d \in Devices, NEW t \in Tabs, CloseTab(d, t)
  PROVE  Inductive'
<1>0. TypeOK
  BY DEF Inductive
<1>1. UNCHANGED <<server, stored, wish, shown>>
  BY DEF CloseTab
<1>2. sync' = [sync EXCEPT ![d][t] = Idle] /\ sync' \in [Devices -> [Tabs -> Syncs]]
  BY <1>0 DEF CloseTab, TypeOK, Idle, Syncs
<1>3. TypeOK'
  BY <1>0, <1>1, <1>2 DEF TypeOK, server, stored
<1>4. Stages'
  BY <1>0, <1>1, <1>2 DEF Inductive, TypeOK, Stages, Ready, Idle, server, stored
<1>5. Untouched'
  BY <1>1 DEF Inductive, Untouched, Ready, stored
<1>6. \A e \in Devices, g \in Fields : Linked(e, g)'
  BY <1>1, NothingLinkedChanges DEF server, stored
<1>. QED BY <1>3, <1>4, <1>5, <1>6 DEF Inductive

\* mergeServer moves the copy and none of the pending choices.
LEMMA MergeKeeps ==
  ASSUME Inductive, NEW d \in Devices, NEW t \in Tabs, Merge(d, t)
  PROVE  Inductive'
<1>0. TypeOK
  BY DEF Inductive
<1>1. UNCHANGED <<server, conflicts, flight, sequence, wish>>
  BY DEF Merge
<1>2. /\ Ready(d) /\ cache[d] \in [Fields -> Nat]
      /\ sync[d][t].fresh \in [Fields -> Nat]
  BY <1>0 DEF Merge, Inductive, Stages, TypeOK, Ready, Syncs
<1>3. /\ cache' = [cache EXCEPT ![d] = Newest(cache[d], sync[d][t].fresh)]
      /\ Newest(cache[d], sync[d][t].fresh) \in [Fields -> Nat]
  BY <1>2, NewestIsNewer DEF Merge
<1>4. cache' \in [Devices -> [Fields -> Nat] \cup {None}] /\ cache'[d] \in [Fields -> Nat]
  BY <1>0, <1>3 DEF TypeOK
<1>5. changes' = changes
  <2>1. changes' = [changes EXCEPT ![d] = [f \in Fields |-> changes[d][f]]]
    BY <1>0 DEF Merge, Rebased, TypeOK
  <2>. QED BY <2>1, <1>0 DEF TypeOK
<1>6. \A e \in Devices : Ready(e)' <=> Ready(e)
  BY <1>0, <1>2, <1>3, <1>4, PreferenceAssumption DEF Ready, TypeOK
<1>7. attempts' \in [Devices -> 0 .. MaxAttempts] /\ error' \in [Devices -> {None, "NETWORK", "AUTH"}]
  BY <1>0, PreferenceAssumption DEF Merge, TypeOK
<1> DEFINE now == [Idle EXCEPT !.stage = "depart"]
<1>8. now \in Syncs /\ now.stage = "depart" /\ sync' = [sync EXCEPT ![d][t] = now]
  BY DEF Syncs, Idle, Merge
<1>. HIDE DEF now
<1>9. /\ sync' \in [Devices -> [Tabs -> Syncs]]
      /\ \A e \in Devices, u \in Tabs :
           /\ sync'[e][u].stage # "idle" => Ready(e)'
           /\ sync'[e][u].stage = "merge" => sync'[e][u].fresh # None
           /\ sync'[e][u].stage = "send" => sync'[e][u].request # None
  BY <1>2, <1>6, <1>8, TabKeeps
<1>10. /\ \A f \in Fields : shown'[d][f] = shown[d][f] \cup
            (IF changes'[d][f] = None \/ f \in conflicts'[d] THEN {cache'[d][f]} ELSE {})
       /\ \A e \in Devices \ {d} : shown'[e] = shown[e] /\ cache'[e] = cache[e]
  BY <1>0 DEF Merge, See, NothingMore, TypeOK
<1>11. shown' \in [Devices -> [Fields -> SUBSET Nat]]
  BY <1>0, <1>4 DEF Merge, See, NothingMore, TypeOK
<1>12. TypeOK'
  BY <1>0, <1>1, <1>4, <1>5, <1>7, <1>9, <1>11 DEF TypeOK, server
<1>13. Untouched' /\ Stages'
  BY <1>1, <1>6, <1>9 DEF Inductive, Untouched, Stages, server
<1>14. ASSUME NEW e \in Devices, NEW g \in Fields
       PROVE  Linked(e, g)'
  <2>1. sequence[e] \in Nat
    BY <1>0 DEF TypeOK
  <2>2. CASE e = d
    BY <2>1, <2>2, <1>1, <1>5, <1>10, LinkKeeps DEF server
  <2>3. CASE e # d
    BY <2>1, <2>3, <1>1, <1>5, <1>10, FrameKeeps DEF server
  <2>. QED BY <2>2, <2>3
<1>. QED BY <1>12, <1>13, <1>14 DEF Inductive

\* A request departs, with what is pending and not in conflict, or once more
\* as it was.
LEMMA DepartKeeps ==
  ASSUME Inductive, NEW d \in Devices, NEW t \in Tabs, Depart(d, t)
  PROVE  Inductive'
<1>0. TypeOK
  BY DEF Inductive
<1>1. UNCHANGED <<server, cache, changes, conflicts, sequence, attempts, error, wish, shown>>
  BY DEF Depart
<1>2. Ready(d) /\ \A e \in Devices : Ready(e)' <=> Ready(e)
  BY <1>1 DEF Depart, Inductive, Stages, Ready
<1>3. Request(d) \in Flights
  <2>1. CASE flight[d] # None
    BY <2>1, <1>0 DEF Request, TypeOK
  <2>2. CASE flight[d] = None
    <3>1. Len(receipts[d]) \in Nat
      BY <1>0 DEF TypeOK
    <3>2. \A f \in Fields : (IF f \in conflicts[d] THEN None ELSE changes[d][f]) \in Changes \cup {None}
      BY <1>0 DEF TypeOK
    <3>. QED BY <2>2, <3>1, <3>2 DEF Request, NewRequest, NewId, Flights
  <2>. QED BY <2>1, <2>2
<1>4. Request(d) # None
  BY <1>3, PreferenceAssumption
<1>5. CASE flight' = flight /\ sync' = [sync EXCEPT ![d][t] = Idle]
  <2>1. Idle \in Syncs /\ Idle.stage = "idle"
    BY DEF Syncs, Idle
  <2>2. /\ sync' \in [Devices -> [Tabs -> Syncs]]
        /\ \A e \in Devices, u \in Tabs :
             /\ sync'[e][u].stage # "idle" => Ready(e)'
             /\ sync'[e][u].stage = "merge" => sync'[e][u].fresh # None
             /\ sync'[e][u].stage = "send" => sync'[e][u].request # None
    BY <2>1, <1>2, <1>5, TabKeeps
  <2>3. TypeOK'
    BY <1>0, <1>1, <1>5, <2>2 DEF TypeOK, server
  <2>4. Untouched' /\ Stages'
    BY <1>1, <1>2, <1>5, <2>2 DEF Inductive, Untouched, Stages, server
  <2>5. \A e \in Devices, g \in Fields : Linked(e, g)'
    BY <1>1, <1>5, NothingLinkedChanges DEF server
  <2>. QED BY <2>3, <2>4, <2>5 DEF Inductive
<1>6. CASE /\ flight' = [flight EXCEPT ![d] = Request(d)]
           /\ sync' = [sync EXCEPT ![d][t] = [Idle EXCEPT !.stage = "send", !.request = Request(d)]]
  <2> DEFINE now == [Idle EXCEPT !.stage = "send", !.request = Request(d)]
  <2>1. now \in Syncs /\ now.stage = "send" /\ now.request # None
    BY <1>3, <1>4 DEF Syncs, Idle
  <2>. HIDE DEF now
  <2>2. sync' = [sync EXCEPT ![d][t] = now]
    BY <1>6 DEF now
  <2>3. /\ sync' \in [Devices -> [Tabs -> Syncs]]
        /\ \A e \in Devices, u \in Tabs :
             /\ sync'[e][u].stage # "idle" => Ready(e)'
             /\ sync'[e][u].stage = "merge" => sync'[e][u].fresh # None
             /\ sync'[e][u].stage = "send" => sync'[e][u].request # None
    BY <2>1, <2>2, <1>2, TabKeeps
  <2>4. flight' \in [Devices -> Flights \cup {None}] /\ flight'[d] = Request(d)
    BY <1>0, <1>3, <1>6 DEF TypeOK
  <2>5. \A e \in Devices \ {d} : flight'[e] = flight[e]
    BY <1>0, <1>6 DEF TypeOK
  <2>6. TypeOK'
    BY <1>0, <1>1, <2>3, <2>4 DEF TypeOK, server
  <2>7. Untouched'
    BY <1>1, <1>2, <2>5 DEF Inductive, Untouched
  <2>8. Stages'
    <3>1. flight'[d].id \in {Len(receipts[d]), Len(receipts[d]) + 1}
      BY <2>4 DEF Inductive, Stages, Request, NewRequest, NewId
    <3>. QED BY <3>1, <1>1, <2>3, <2>5 DEF Inductive, Stages, server
  <2>9. ASSUME NEW g \in Fields
        PROVE  Linked(d, g)'
    <3>1. Linked(d, g) /\ sequence[d] \in Nat
      BY <1>0 DEF Inductive, TypeOK
    <3>2. CASE flight[d] # None
      <4>1. flight'[d] = flight[d]
        BY <3>2, <2>4 DEF Request
      <4>. QED BY <4>1, <3>1, <1>1, FrameKeeps DEF server
    <3>3. CASE flight[d] = None
      <4>1. /\ flight'[d].id = Len(receipts[d]) + 1
            /\ flight'[d].sent[g] = IF g \in conflicts[d] THEN None ELSE changes[d][g]
            /\ flight'[d] # None
        BY <3>3, <2>4, <1>4 DEF Request, NewRequest, NewId
      <4>2. ~Known(d)'
        BY <4>1, <1>0, <1>1 DEF Known, server, TypeOK
      <4>3. ~Sent(d, g)
        BY <3>3 DEF Sent
      <4>4. Tracked(d, g)' /\ Numbered(d, g)' /\ SentIsPending(d, g)'
        BY <4>1, <3>1, <1>1 DEF Linked, Tracked, Numbered, SentIsPending, Sent, server
      <4>5. AnswerIsTrue(d, g)'
        BY <4>2, <4>3, <3>1, <1>1 DEF Linked, AnswerIsTrue, server
      <4>6. BasesSeen(d, g)'
        BY <4>1, <3>1, <1>1, <1>2 DEF Linked, BasesSeen, Sent
      <4>. QED BY <4>4, <4>5, <4>6 DEF Linked
    <3>. QED BY <3>2, <3>3
  <2>10. ASSUME NEW e \in Devices \ {d}, NEW g \in Fields
         PROVE  Linked(e, g)'
    <3>1. sequence[e] \in Nat
      BY <1>0 DEF TypeOK
    <3>. QED BY <3>1, <1>1, <2>5, FrameKeeps DEF server
  <2>. QED BY <2>6, <2>7, <2>8, <2>9, <2>10 DEF Inductive
<1>. QED BY <1>5, <1>6 DEF Depart

\* sync_preferences: with a receipt it changes nothing, without one it
\* applies each field or reports it.
LEMMA ServeKeeps ==
  ASSUME Inductive, NEW d \in Devices, Serve(d)
  PROVE  Inductive'
<1>0. TypeOK
  BY DEF Inductive
<1>1. UNCHANGED <<stored, sync, wish, shown>>
  BY DEF Serve
<1>2. flight[d] # None /\ flight[d] \in Flights
  BY <1>0 DEF Serve, TypeOK
<1>3. CASE UNCHANGED server
  <2>1. TypeOK'
    BY <1>0, <1>1, <1>3 DEF TypeOK, server, stored
  <2>2. Untouched' /\ Stages'
    BY <1>1, <1>3 DEF Inductive, Untouched, Stages, Ready, server, stored
  <2>3. \A e \in Devices, g \in Fields : Linked(e, g)'
    BY <1>1, <1>3, NothingLinkedChanges DEF server, stored
  <2>. QED BY <2>1, <2>2, <2>3 DEF Inductive
<1>4. CASE ~Known(d)
  <2> DEFINE clashes == {f \in Fields : Sent(d, f) /\ Refused(d, f)}
             applied == {f \in Fields : Sent(d, f)} \ clashes
             answer == [revisions |-> [f \in Fields |-> Len(history'[f])], clashes |-> clashes]
  <2>1. /\ history' = [f \in Fields |->
             IF f \in applied THEN Written(f, flight[d].sent[f].value, d) ELSE history[f]]
        /\ receipts' = [receipts EXCEPT ![d] = Append(@, answer)]
        /\ accepted' = [accepted EXCEPT ![d] = [f \in Fields |->
             IF f \in applied THEN @[f] \cup {flight[d].sent[f].seq} ELSE @[f]]]
    BY <1>4 DEF Serve
  <2>2. /\ clashes \subseteq Fields /\ applied \subseteq Fields
        /\ \A f \in Fields : Sent(d, f) => (f \in applied <=> f \notin clashes)
        /\ \A f \in applied : Sent(d, f) /\ flight[d].sent[f] \in Changes
    BY <1>2 DEF Sent, Flights
  <2>. HIDE DEF clashes, applied
  <2>3. history' \in [Fields -> Seq([value : Values, by : Devices \cup {None}]) \ {<<>>}]
    <3>1. \A f \in applied : Written(f, flight[d].sent[f].value, d)
                               \in Seq([value : Values, by : Devices \cup {None}]) \ {<<>>}
      BY <1>0, <2>2, WrittenIsHistory DEF Changes
    <3>. QED BY <3>1, <1>0, <2>1 DEF TypeOK
  <2>4. answer \in Answers
    BY <2>2, <2>3 DEF Answers
  <2>5. answer.clashes = clashes
    OBVIOUS
  <2>. HIDE DEF answer
  <2>6. /\ receipts[d] \in Seq(Answers) /\ receipts' \in [Devices -> Seq(Answers)]
        /\ receipts'[d] = Append(receipts[d], answer)
        /\ \A e \in Devices \ {d} : receipts'[e] = receipts[e] /\ accepted'[e] = accepted[e]
    BY <1>0, <2>1, <2>4 DEF TypeOK
  <2>7. accepted' \in [Devices -> [Fields -> SUBSET Nat]]
    BY <1>0, <2>1, <2>2 DEF TypeOK, Changes
  <2>8. \A f \in Fields : accepted'[d][f] =
          IF f \in applied THEN accepted[d][f] \cup {flight[d].sent[f].seq} ELSE accepted[d][f]
    BY <1>0, <2>1 DEF TypeOK
  <2>9. flight[d].id = Len(receipts[d]) + 1
    <3>1. flight[d].id \in {Len(receipts[d]), Len(receipts[d]) + 1} /\ flight[d].id \in Nat \ {0}
      BY <1>2 DEF Inductive, Stages, Flights
    <3>. QED BY <3>1, <2>6, <1>4 DEF Known
  <2>10. Known(d)' /\ receipts'[d][flight[d].id] = answer /\ Len(receipts'[d]) = flight[d].id
    BY <2>4, <2>6, <2>9, <1>1 DEF Known, stored
  <2>11. TypeOK'
    BY <1>0, <1>1, <2>3, <2>6, <2>7 DEF TypeOK, stored
  <2>12. Untouched' /\ Stages'
    BY <1>1, <2>6, <2>10 DEF Inductive, Untouched, Stages, Ready, stored
  <2>13. ASSUME NEW g \in Fields
         PROVE  Linked(d, g)'
    <3>1. Linked(d, g) /\ accepted[d][g] \subseteq Nat
      BY <1>0 DEF Inductive, TypeOK
    <3>2. UNCHANGED <<Sent(d, g), Ready(d)>>
      BY <1>1 DEF Sent, Ready, stored
    <3>3. Tracked(d, g)' /\ SentIsPending(d, g)' /\ BasesSeen(d, g)'
      BY <3>1, <3>2, <1>1, <2>8 DEF Linked, Tracked, SentIsPending, BasesSeen, stored
    <3>4. Numbered(d, g)'
      BY <3>1, <3>2, <1>1, <2>2, <2>8 DEF Linked, Numbered, stored
    <3>5. changes[d][g] # None => changes[d][g].seq \notin accepted[d][g]
      BY <3>1, <1>4 DEF Linked, AnswerIsTrue
    <3>6. AnswerIsTrue(d, g)'
      BY <3>1, <3>2, <3>5, <1>1, <2>2, <2>5, <2>8, <2>10 DEF AnswerIsTrue, stored
    <3>. QED BY <3>3, <3>4, <3>6 DEF Linked
  <2>14. ASSUME NEW e \in Devices \ {d}, NEW g \in Fields
         PROVE  Linked(e, g)'
    <3>1. sequence[e] \in Nat
      BY <1>0 DEF TypeOK
    <3>. QED BY <3>1, <1>1, <2>6, FrameKeeps DEF stored
  <2>. QED BY <2>11, <2>12, <2>13, <2>14 DEF Inductive
<1>. QED BY <1>3, <1>4 DEF Serve

\* The answer arrives: a choice leaves the browser only if it is the one
\* that was sent.
LEMMA AcknowledgeKeeps ==
  ASSUME Inductive, NEW d \in Devices, NEW t \in Tabs, Acknowledge(d, t)
  PROVE  Inductive'
<1>0. TypeOK
  BY DEF Inductive
<1> DEFINE answer == receipts[d][flight[d].id]
           returned == {f \in Fields : Sent(d, f) /\ changes[d][f] # None}
           done == {f \in returned \ answer.clashes : Confirmed(d, f)}
           moved == returned \ (answer.clashes \cup done)
<1>1. UNCHANGED <<server, sequence, wish>>
  BY DEF Acknowledge
<1>2. /\ flight[d] # None /\ flight[d] \in Flights /\ Known(d)
      /\ sync[d][t].request.id = flight[d].id
  BY <1>0 DEF Acknowledge, Current, Known, TypeOK
<1>3. answer \in Answers /\ receipts[d] \in Seq(Answers)
  BY <1>0, <1>2 DEF Known, TypeOK
<1>4. Ready(d) /\ cache[d] \in [Fields -> Nat]
  BY <1>0 DEF Acknowledge, Inductive, Stages, TypeOK, Ready
<1>5. /\ returned \subseteq Fields /\ done \subseteq returned \ answer.clashes
      /\ \A f \in Fields : Sent(d, f) <=> f \in returned
      /\ \A f \in returned : changes[d][f] \in Changes /\ flight[d].sent[f] \in Changes
      /\ \A f \in returned : f \in done <=> f \notin answer.clashes /\ Confirmed(d, f)
  BY <1>0, <1>2, PreferenceAssumption DEF Inductive, Linked, SentIsPending, Sent, Flights, TypeOK
<1>6. /\ cache' = [cache EXCEPT ![d] = Newest(cache[d], answer.revisions)]
      /\ conflicts' = [conflicts EXCEPT ![d] = (@ \cup (returned \cap answer.clashes)) \ done]
      /\ changes' = [changes EXCEPT ![d] = [f \in Fields |->
           IF f \in done THEN None
           ELSE IF f \in returned \ answer.clashes
           THEN [changes[d][f] EXCEPT !.base = answer.revisions[f]]
           ELSE changes[d][f]]]
      /\ See(d, [f \in Fields |-> IF f \in returned \ answer.clashes
                                  THEN {answer.revisions[f]} ELSE {}])
  BY <1>2 DEF Acknowledge
<1>7. /\ flight' = [flight EXCEPT ![d] = None] /\ error' = [error EXCEPT ![d] = None]
      /\ attempts' = [attempts EXCEPT ![d] = 0] /\ sync' = [sync EXCEPT ![d][t] = Idle]
  BY DEF Acknowledge
<1>. HIDE DEF answer, returned, done
<1>8. answer.revisions \in [Fields -> Nat]
  BY <1>3 DEF Answers
<1>9. Newest(cache[d], answer.revisions) \in [Fields -> Nat]
  BY <1>4, <1>8, NewestIsNewer
<1>10. cache' \in [Devices -> [Fields -> Nat] \cup {None}] /\ cache'[d] \in [Fields -> Nat]
  BY <1>0, <1>6, <1>9 DEF TypeOK
<1>11. \A e \in Devices : Ready(e)' <=> Ready(e)
  BY <1>0, <1>4, <1>6, <1>10, PreferenceAssumption DEF Ready, TypeOK
<1>12. \A f \in Fields :
         /\ f \in done => changes'[d][f] = None
         /\ f \in moved => /\ changes'[d][f] = [changes[d][f] EXCEPT !.base = answer.revisions[f]]
                           /\ changes'[d][f] \in Changes
         /\ f \notin done \cup moved => changes'[d][f] = changes[d][f]
  <2>. TAKE f \in Fields
  <2>1. CASE f \in done
    BY <2>1, <1>0, <1>5, <1>6 DEF TypeOK
  <2>2. CASE f \in moved
    <3>1. changes'[d][f] = [changes[d][f] EXCEPT !.base = answer.revisions[f]]
      BY <2>2, <1>0, <1>6 DEF TypeOK
    <3>2. changes[d][f] \in Changes /\ answer.revisions[f] \in Nat
      BY <2>2, <1>5, <1>8
    <3>. QED BY <2>2, <3>1, <3>2 DEF Changes
  <2>3. CASE f \notin done \cup moved
    BY <2>3, <1>0, <1>6 DEF TypeOK
  <2>. QED BY <2>1, <2>2, <2>3, <1>5
<1>. HIDE DEF moved
<1>13. ASSUME NEW f \in Fields
       PROVE  changes'[d][f] \in Changes \cup {None}
  <2>1. CASE f \in done
    BY <2>1, <1>12
  <2>2. CASE f \in moved
    BY <2>2, <1>12
  <2>3. CASE f \notin done \cup moved
    <3>1. changes'[d][f] = changes[d][f]
      BY <2>3, <1>12
    <3>2. changes[d][f] \in Changes \cup {None}
      BY <1>0 DEF TypeOK
    <3>. QED BY <3>1, <3>2
  <2>. QED BY <2>1, <2>2, <2>3
<1>14. changes' \in [Devices -> [Fields -> Changes \cup {None}]]
  <2>1. /\ changes' = [changes EXCEPT ![d] = changes'[d]]
        /\ changes'[d] = [f \in Fields |-> changes'[d][f]]
    BY <1>0, <1>6 DEF TypeOK
  <2>2. changes'[d] \in [Fields -> Changes \cup {None}]
    BY <1>13, <2>1, Zenon
  <2>. QED BY <1>0, <2>1, <2>2 DEF TypeOK
<1>15. \A e \in Devices \ {d} :
         /\ cache'[e] = cache[e] /\ conflicts'[e] = conflicts[e]
         /\ changes'[e] = changes[e] /\ flight'[e] = flight[e] /\ shown'[e] = shown[e]
  BY <1>0, <1>6, <1>7 DEF TypeOK, See
<1>16. /\ flight'[d] = None
       /\ conflicts'[d] = (conflicts[d] \cup (returned \cap answer.clashes)) \ done
  BY <1>0, <1>6, <1>7 DEF TypeOK
<1>17. \A f \in Fields :
         /\ shown[d][f] \subseteq shown'[d][f]
         /\ f \in moved => answer.revisions[f] \in shown'[d][f]
         /\ changes'[d][f] = None \/ f \in conflicts'[d] => cache'[d][f] \in shown'[d][f]
  BY <1>0, <1>6 DEF TypeOK, See, moved
<1>18. shown' \in [Devices -> [Fields -> SUBSET Nat]]
  BY <1>0, <1>6, <1>8, <1>10 DEF TypeOK, See
<1>19. Idle \in Syncs /\ Idle.stage = "idle"
  BY DEF Syncs, Idle
<1>20. /\ sync' \in [Devices -> [Tabs -> Syncs]]
       /\ \A e \in Devices, u \in Tabs :
            /\ sync'[e][u].stage # "idle" => Ready(e)'
            /\ sync'[e][u].stage = "merge" => sync'[e][u].fresh # None
            /\ sync'[e][u].stage = "send" => sync'[e][u].request # None
  BY <1>4, <1>7, <1>11, <1>19, TabKeeps
<1>21. TypeOK'
  <2>1. conflicts' \in [Devices -> SUBSET Fields]
    BY <1>0, <1>5, <1>6 DEF TypeOK
  <2>2. flight' \in [Devices -> Flights \cup {None}]
    BY <1>0, <1>7 DEF TypeOK
  <2>3. attempts' \in [Devices -> 0 .. MaxAttempts] /\ error' \in [Devices -> {None, "NETWORK", "AUTH"}]
    BY <1>0, <1>7, PreferenceAssumption DEF TypeOK
  <2>. QED BY <1>0, <1>1, <1>10, <1>14, <1>18, <1>20, <2>1, <2>2, <2>3 DEF TypeOK, server
<1>22. Untouched' /\ Stages'
  BY <1>1, <1>4, <1>11, <1>15, <1>16, <1>20 DEF Inductive, Untouched, Stages, server
<1>23. ASSUME NEW f \in Fields
       PROVE  Linked(d, f)'
  <2>1. Linked(d, f) /\ accepted[d][f] \subseteq Nat /\ sequence[d] \in Nat
    BY <1>0 DEF Inductive, TypeOK
  <2>2. ~Sent(d, f)'
    BY <1>16 DEF Sent
  <2>3. CASE f \in done
    <3>1. changes'[d][f] = None /\ f \notin conflicts'[d]
      BY <2>3, <1>12, <1>16
    <3>2. Sent(d, f) /\ f \notin answer.clashes /\ changes[d][f] # None
          /\ changes[d][f].seq = flight[d].sent[f].seq
      BY <2>3, <1>5 DEF Confirmed, returned
    <3>3. wish[d][f] \in accepted[d][f]
      BY <3>2, <2>1, <1>2 DEF Linked, Tracked, AnswerIsTrue, answer
    <3>. QED BY <3>1, <3>3, <2>1, <2>2, <1>1, <1>17 DEF Linked, Tracked, Numbered, SentIsPending, AnswerIsTrue, BasesSeen, server
  <2>4. CASE f \in moved
    <3>1. /\ changes'[d][f].seq = changes[d][f].seq /\ changes'[d][f].base = answer.revisions[f]
          /\ changes'[d][f] # None /\ changes[d][f] # None
      <4>1. changes[d][f] \in Changes
        BY <2>4, <1>5 DEF moved
      <4>. QED BY <2>4, <4>1, <1>12, PreferenceAssumption DEF Changes
    <3>2. changes[d][f].seq # flight[d].sent[f].seq
      BY <2>4, <1>5 DEF moved, Confirmed
    <3>3. changes[d][f].seq \notin accepted[d][f]
      BY <3>1, <3>2, <2>1 DEF Linked, AnswerIsTrue
    <3>. QED BY <2>4, <3>1, <3>3, <2>1, <2>2, <1>1, <1>17 DEF Linked, Tracked, Numbered, SentIsPending, AnswerIsTrue, BasesSeen, server
  <2>5. CASE f \notin done \cup moved
    <3>1. changes'[d][f] = changes[d][f]
      BY <2>5, <1>12
    <3>2. f \in conflicts'[d] => f \in conflicts[d] \/ f \in returned
      BY <1>16
    <3>3. changes[d][f] # None => changes[d][f].seq \notin accepted[d][f]
      BY <2>5, <2>1, <1>5 DEF Linked, AnswerIsTrue, moved, answer
    <3>4. f \in returned => changes[d][f] # None
      BY DEF returned
    <3>. QED BY <3>1, <3>2, <3>3, <3>4, <2>1, <2>2, <1>1, <1>17 DEF Linked, Tracked, Numbered, SentIsPending, AnswerIsTrue, BasesSeen, server
  <2>. QED BY <2>3, <2>4, <2>5
<1>24. ASSUME NEW e \in Devices \ {d}, NEW g \in Fields
       PROVE  Linked(e, g)'
  <2>1. sequence[e] \in Nat
    BY <1>0 DEF TypeOK
  <2>. QED BY <2>1, <1>1, <1>15, FrameKeeps DEF server
<1>. QED BY <1>21, <1>22, <1>23, <1>24 DEF Inductive

\* resolvePreferenceConflict: the server's value, or the choice under a new
\* number and the revision on the screen.
LEMMA ResolveKeeps ==
  ASSUME Inductive, NEW d \in Devices, NEW f \in Fields,
         NEW choice \in {"local", "server"}, Resolve(d, f, choice)
  PROVE  Inductive'
<1>0. TypeOK
  BY DEF Inductive
<1>1. UNCHANGED <<server, cache, flight, sync>>
  BY DEF Resolve
<1>2. flight[d] = None /\ changes[d][f] \in Changes /\ f \in conflicts[d]
  BY <1>0 DEF Resolve, TypeOK
<1>3. Ready(d) /\ cache[d] \in [Fields -> Nat] /\ sequence[d] \in Nat
  BY <1>0, <1>2 DEF Inductive, Untouched, TypeOK, Ready
<1>4. conflicts' = [conflicts EXCEPT ![d] = @ \ {f}]
  BY DEF Resolve
<1> DEFINE kept == [changes[d][f] EXCEPT !.base = cache[d][f], !.seq = sequence[d] + 1]
<1>5. kept \in Changes /\ kept.base = cache[d][f] /\ kept.seq = sequence[d] + 1
  <2>1. cache[d][f] \in Nat /\ sequence[d] + 1 \in Nat
    BY <1>3
  <2>2. kept \in Changes
    BY <1>2, <2>1 DEF Changes
  <2>3. kept.base = cache[d][f]
    BY <1>2, <2>1 DEF Changes
  <2>4. kept.seq = sequence[d] + 1
    BY <1>2, <2>1 DEF Changes
  <2>. QED BY <2>2, <2>3, <2>4
<1>6. \/ /\ changes' = [changes EXCEPT ![d][f] = None]
         /\ wish' = [wish EXCEPT ![d][f] = 0] /\ sequence' = sequence
      \/ /\ changes' = [changes EXCEPT ![d][f] = kept]
         /\ wish' = [wish EXCEPT ![d][f] = sequence[d] + 1]
         /\ sequence' = [sequence EXCEPT ![d] = @ + 1]
  BY <1>0 DEF Resolve, TypeOK
<1>. HIDE DEF kept
<1>7. /\ changes' \in [Devices -> [Fields -> Changes \cup {None}]]
      /\ wish' \in [Devices -> [Fields -> Nat]] /\ sequence' \in [Devices -> Nat]
  <2>1. sequence[d] + 1 \in Nat /\ 0 \in Nat
    BY <1>3
  <2>2. /\ changes \in [Devices -> [Fields -> Changes \cup {None}]]
        /\ wish \in [Devices -> [Fields -> Nat]] /\ sequence \in [Devices -> Nat]
    BY <1>0 DEF TypeOK
  <2>3. None \in Changes \cup {None} /\ kept \in Changes \cup {None}
    BY <1>5
  <2>4. CASE /\ changes' = [changes EXCEPT ![d][f] = None]
             /\ wish' = [wish EXCEPT ![d][f] = 0] /\ sequence' = sequence
    <3>1. changes' \in [Devices -> [Fields -> Changes \cup {None}]]
      BY <2>2, <2>3, <2>4
    <3>2. wish' \in [Devices -> [Fields -> Nat]]
      BY <2>1, <2>2, <2>4
    <3>. QED BY <3>1, <3>2, <2>2, <2>4
  <2>5. CASE /\ changes' = [changes EXCEPT ![d][f] = kept]
             /\ wish' = [wish EXCEPT ![d][f] = sequence[d] + 1]
             /\ sequence' = [sequence EXCEPT ![d] = @ + 1]
    <3>1. changes' \in [Devices -> [Fields -> Changes \cup {None}]]
      BY <2>2, <2>3, <2>5
    <3>2. wish' \in [Devices -> [Fields -> Nat]]
      BY <2>1, <2>2, <2>5
    <3>3. sequence' \in [Devices -> Nat]
      BY <2>1, <2>2, <2>5
    <3>. QED BY <3>1, <3>2, <3>3
  <2>. QED BY <2>4, <2>5, <1>6
<1>8. shown' \in [Devices -> [Fields -> SUBSET Nat]]
  BY <1>0, <1>1, <1>3 DEF TypeOK, Resolve, See, NothingMore
<1>9. TypeOK'
  <2>1. attempts' \in [Devices -> 0 .. MaxAttempts] /\ error' \in [Devices -> {None, "NETWORK", "AUTH"}]
    BY <1>0, PreferenceAssumption DEF TypeOK, Resolve
  <2>2. conflicts' \in [Devices -> SUBSET Fields]
    BY <1>0, <1>4 DEF TypeOK
  <2>. QED BY <1>0, <1>1, <1>7, <1>8, <2>1, <2>2 DEF TypeOK, server
<1>10. /\ \A e \in Devices \ {d} : /\ changes'[e] = changes[e] /\ wish'[e] = wish[e]
                                   /\ sequence'[e] = sequence[e] /\ conflicts'[e] = conflicts[e]
                                   /\ shown'[e] = shown[e]
       /\ \A g \in Fields : /\ g # f => changes'[d][g] = changes[d][g] /\ wish'[d][g] = wish[d][g]
                            /\ g \in conflicts'[d] <=> g \in conflicts[d] /\ g # f
                            /\ shown[d][g] \subseteq shown'[d][g]
                            /\ changes'[d][g] = None => cache[d][g] \in shown'[d][g]
       /\ sequence'[d] >= sequence[d]
  BY <1>0, <1>1, <1>3, <1>4, <1>6 DEF TypeOK, Resolve, See, NothingMore
<1>11. Untouched' /\ Stages'
  BY <1>1, <1>3, <1>10 DEF Inductive, Untouched, Stages, Ready, server
<1>12. Linked(d, f)'
  <2>1. Linked(d, f) /\ accepted[d][f] \subseteq Nat /\ cache[d][f] \in shown[d][f]
    BY <1>0, <1>2, <1>3 DEF Inductive, Linked, BasesSeen, TypeOK
  <2>2. ~Sent(d, f)' /\ f \notin conflicts'[d]
    BY <1>1, <1>2, <1>10 DEF Sent
  <2>3. CASE changes'[d][f] = None /\ wish'[d][f] = 0 /\ sequence'[d] = sequence[d]
    BY <2>1, <2>2, <2>3, <1>1, <1>10 DEF Linked, Tracked, Numbered, SentIsPending, AnswerIsTrue, BasesSeen, Ready, server
  <2>4. CASE changes'[d][f] = kept /\ wish'[d][f] = sequence[d] + 1 /\ sequence'[d] = sequence[d] + 1
    <3>1. kept # None
      BY <1>5, PreferenceAssumption
    <3>2. kept.seq \notin accepted[d][f] /\ kept.base \in shown'[d][f]
      BY <2>1, <1>3, <1>5, <1>10 DEF Linked, Numbered
    <3>. QED BY <2>1, <2>2, <2>4, <3>1, <3>2, <1>1, <1>3, <1>5, <1>10 DEF Linked, Tracked, Numbered, SentIsPending, AnswerIsTrue, BasesSeen, Ready, server
  <2>. QED BY <2>3, <2>4, <1>0, <1>6 DEF TypeOK
<1>13. ASSUME NEW g \in Fields \ {f}
       PROVE  Linked(d, g)'
  BY <1>0, <1>1, <1>3, <1>7, <1>10, FrameKeeps DEF server
<1>14. ASSUME NEW e \in Devices \ {d}, NEW g \in Fields
       PROVE  Linked(e, g)'
  <2>1. sequence[e] \in Nat
    BY <1>0 DEF TypeOK
  <2>. QED BY <2>1, <1>1, <1>10, FrameKeeps DEF server
<1>. QED BY <1>9, <1>11, <1>12, <1>13, <1>14 DEF Inductive

\* initializePreferenceState.
LEMMA InitializeKeeps ==
  ASSUME Inductive, NEW d \in Devices, NEW revisions \in [Fields -> Nat],
         NEW legacy \in Inputs \cup {<<>>}, Initialize(d, revisions, legacy)
  PROVE  Inductive'
<1>0. TypeOK
  BY DEF Inductive
<1> DEFINE moved == {f \in DOMAIN legacy : legacy[f] # history[f][revisions[f]].value}
<1>1. UNCHANGED <<server, conflicts, flight, attempts, error, sync>>
  BY DEF Initialize
<1>2. moved \subseteq Fields /\ \A f \in moved : legacy[f] \in Values
  BY DEF Inputs
<1>3. /\ cache' = [cache EXCEPT ![d] = revisions]
      /\ changes' = [changes EXCEPT ![d] = [f \in Fields |->
           IF f \notin moved THEN None
           ELSE [value |-> legacy[f], base |-> revisions[f], seq |-> 1]]]
      /\ wish' = [wish EXCEPT ![d] = [f \in Fields |-> IF f \in moved THEN 1 ELSE 0]]
      /\ sequence' = [sequence EXCEPT ![d] = IF moved = {} THEN 0 ELSE 1]
      /\ See(d, [f \in Fields |-> {revisions[f]}])
  BY DEF Initialize
<1>4. sequence[d] = 0 /\ flight[d] = None /\ conflicts[d] = {} /\ ~Ready(d)
  BY DEF Initialize, Inductive, Untouched
<1>. HIDE DEF moved
<1>5. \A f \in Fields : changes'[d][f] =
        IF f \notin moved THEN None
        ELSE [value |-> legacy[f], base |-> revisions[f], seq |-> 1]
  BY <1>0, <1>3 DEF TypeOK
<1>6. ASSUME NEW f \in moved
      PROVE  /\ changes'[d][f] \in Changes /\ changes'[d][f] # None
             /\ changes'[d][f].seq = 1 /\ changes'[d][f].base = revisions[f]
  <2>1. f \in Fields /\ legacy[f] \in Values /\ revisions[f] \in Nat
    BY <1>2
  <2>2. changes'[d][f] = [value |-> legacy[f], base |-> revisions[f], seq |-> 1]
    BY <2>1, <1>5
  <2>3. [value |-> legacy[f], base |-> revisions[f], seq |-> 1] \in Changes
    BY <2>1 DEF Changes
  <2>. QED BY <2>2, <2>3, PreferenceAssumption
<1>7. changes' \in [Devices -> [Fields -> Changes \cup {None}]]
  <2>1. /\ changes' = [changes EXCEPT ![d] = changes'[d]]
        /\ changes'[d] = [f \in Fields |-> changes'[d][f]]
    BY <1>0, <1>3 DEF TypeOK
  <2>2. \A f \in Fields : changes'[d][f] \in Changes \cup {None}
    BY <1>5, <1>6
  <2>3. changes'[d] \in [Fields -> Changes \cup {None}]
    BY <2>1, <2>2, Zenon
  <2>. QED BY <1>0, <2>1, <2>3 DEF TypeOK
<1>8. TypeOK'
  <2>1. /\ wish' \in [Devices -> [Fields -> Nat]] /\ sequence' \in [Devices -> Nat]
        /\ cache' \in [Devices -> [Fields -> Nat] \cup {None}] /\ cache'[d] = revisions
    BY <1>0, <1>3 DEF TypeOK
  <2>2. shown' \in [Devices -> [Fields -> SUBSET Nat]]
    BY <1>0, <1>3, <2>1 DEF TypeOK, See
  <2>. QED BY <1>0, <1>1, <1>7, <2>1, <2>2 DEF TypeOK, server
<1>9. /\ \A e \in Devices \ {d} : /\ changes'[e] = changes[e] /\ wish'[e] = wish[e]
                                  /\ sequence'[e] = sequence[e] /\ cache'[e] = cache[e]
                                  /\ shown'[e] = shown[e]
      /\ cache'[d] = revisions
      /\ \A f \in Fields : revisions[f] \in shown'[d][f]
                           /\ wish'[d][f] = IF f \in moved THEN 1 ELSE 0
      /\ sequence'[d] = IF moved = {} THEN 0 ELSE 1
  BY <1>0, <1>3 DEF TypeOK, See
<1>10. Ready(d)' /\ \A e \in Devices : Ready(e) => Ready(e)'
  BY <1>9, PreferenceAssumption DEF Ready
<1>11. Untouched' /\ Stages'
  BY <1>1, <1>9, <1>10 DEF Inductive, Untouched, Stages, Ready, server
<1>12. ASSUME NEW f \in Fields
       PROVE  Linked(d, f)'
  <2>1. accepted[d][f] = {}
    BY <1>0, <1>4 DEF Inductive, Linked, Numbered, TypeOK
  <2>2. ~Sent(d, f)' /\ f \notin conflicts'[d]
    BY <1>1, <1>4 DEF Sent
  <2>3. CASE f \notin moved
    BY <2>1, <2>2, <2>3, <1>1, <1>5, <1>9 DEF Linked, Tracked, Numbered, SentIsPending, AnswerIsTrue, BasesSeen, server
  <2>4. CASE f \in moved
    <3>1. changes'[d][f].seq = 1 /\ changes'[d][f].base = revisions[f] /\ changes'[d][f] # None
      BY <2>4, <1>6
    <3>2. sequence'[d] = 1 /\ wish'[d][f] = 1
      BY <2>4, <1>9
    <3>. QED BY <2>1, <2>2, <3>1, <3>2, <1>1, <1>9 DEF Linked, Tracked, Numbered, SentIsPending, AnswerIsTrue, BasesSeen, server
  <2>. QED BY <2>3, <2>4
<1>13. ASSUME NEW e \in Devices \ {d}, NEW g \in Fields
       PROVE  Linked(e, g)'
  <2>1. sequence[e] \in Nat
    BY <1>0 DEF TypeOK
  <2>. QED BY <2>1, <1>1, <1>9, FrameKeeps DEF server
<1>. QED BY <1>8, <1>11, <1>12, <1>13 DEF Inductive

\* An empty browser beside a server that knows the defaults.
LEMMA InitHolds ==
  ASSUME Init
  PROVE  Inductive
<1>1. TypeOK
  BY PreferenceAssumption DEF Init, TypeOK, Idle, Syncs
<1>2. Untouched /\ Stages
  BY DEF Init, Untouched, Stages, Idle
<1>3. \A d \in Devices, f \in Fields : Linked(d, f)
  BY DEF Init, Linked, Tracked, Numbered, SentIsPending, AnswerIsTrue, BasesSeen, Sent, Ready
<1>. QED BY <1>1, <1>2, <1>3 DEF Inductive

\* Every step of browsers, tabs, server and other clients.
LEMMA NextKeeps ==
  ASSUME Inductive, [Next]_vars
  PROVE  Inductive'
<1>1. CASE UNCHANGED vars
  <2>1. UNCHANGED <<server, stored, sync, wish, shown>>
    BY <1>1 DEF vars
  <2>2. TypeOK' /\ Untouched' /\ Stages'
    BY <2>1 DEF Inductive, TypeOK, Untouched, Stages, Ready, server, stored
  <2>3. \A e \in Devices, g \in Fields : Linked(e, g)'
    BY <2>1, NothingLinkedChanges DEF server, stored
  <2>. QED BY <2>2, <2>3 DEF Inductive
<1>2. ASSUME NEW input \in Inputs, Patch(input)
      PROVE  Inductive'
  BY <1>2, PatchKeeps
<1>3. ASSUME NEW d \in Devices, Serve(d)
      PROVE  Inductive'
  BY <1>3, ServeKeeps
<1>4. ASSUME NEW d \in Devices, User(d)
      PROVE  Inductive'
  <2>1. ASSUME NEW revisions \in [Fields -> UNION {1 .. Revision(f) : f \in Fields}],
               NEW legacy \in Inputs \cup {<<>>}, Initialize(d, revisions, legacy)
        PROVE  Inductive'
    <3>1. \A f \in Fields : revisions[f] \in 1 .. Revision(f) /\ Revision(f) \in Nat
      BY <2>1 DEF Initialize, Inductive, TypeOK, Revision
    <3>2. revisions \in [Fields -> Nat]
      BY <3>1
    <3>. QED BY <2>1, <3>2, InitializeKeeps
  <2>2. ASSUME NEW input \in Inputs, Choose(d, input)
        PROVE  Inductive'
    BY <2>2, ChooseKeeps
  <2>3. ASSUME NEW f \in Fields, NEW choice \in {"local", "server"}, Resolve(d, f, choice)
        PROVE  Inductive'
    BY <2>3, ResolveKeeps
  <2>. QED BY <1>4, <2>1, <2>2, <2>3 DEF User
<1>5. ASSUME NEW d \in Devices, NEW t \in Tabs, Flush(d, t)
      PROVE  Inductive'
  <2>1. CASE \E refresh, retry \in BOOLEAN : Start(d, t, refresh, retry)
    BY <2>1, StartKeeps
  <2>2. CASE Fetch(d, t) \/ Merge(d, t)
    BY <2>2, FetchKeeps, MergeKeeps
  <2>3. CASE Depart(d, t) \/ Acknowledge(d, t)
    BY <2>3, DepartKeeps, AcknowledgeKeeps
  <2>4. CASE \E why \in {"NETWORK", "AUTH"} : Fail(d, t, why)
    BY <2>4, FailKeeps
  <2>5. CASE CloseTab(d, t)
    BY <2>5, CloseKeeps
  <2>. QED BY <1>5, <2>1, <2>2, <2>3, <2>4, <2>5 DEF Flush
<1>. QED BY <1>1, <1>2, <1>3, <1>4, <1>5 DEF Next

\* The invariant the other theorems rest on: the flight, the pending choices
\* and the copy of every browser agree with what the server has answered.
THEOREM StateIsLinked == Spec => []Inductive
<1>1. Init => Inductive
  BY InitHolds
<1>2. Inductive /\ [Next]_vars => Inductive'
  BY NextKeeps
<1>. QED BY <1>1, <1>2, PTL DEF Spec

\* Type correctness of server, databases and flushes.
THEOREM StateIsTyped == Spec => []TypeOK
<1>1. Inductive => TypeOK
  BY DEF Inductive
<1>. QED BY <1>1, StateIsLinked, PTL

\* No choice is lost, for any number of browsers, tabs, fields and choices,
\* with and without locks: the last one is pending or has been applied.
THEOREM ChoicesAreKept == Spec => []NoChoiceLost
<1>1. Inductive => NoChoiceLost
  BY DEF Inductive, Linked, Tracked, NoChoiceLost
<1>. QED BY <1>1, StateIsLinked, PTL

\* What a user is asked to decide has not been applied already.
THEOREM ConflictsAreReal == Spec => []NoFalseConflict
<1>1. Inductive => NoFalseConflict
  <2>. SUFFICES ASSUME Inductive, NEW d \in Devices, NEW f \in conflicts[d]
                PROVE  changes[d][f] # None /\ changes[d][f].seq \notin accepted[d][f]
    BY DEF NoFalseConflict
  <2>1. f \in Fields
    BY DEF Inductive, TypeOK
  <2>. QED BY <2>1 DEF Inductive, Linked, SentIsPending, AnswerIsTrue
<1>. QED BY <1>1, StateIsLinked, PTL

\* The user does not forget what the screen has shown.
LEMMA SeeGrows ==
  ASSUME TypeOK, NEW d \in Devices, NEW more, See(d, more),
         NEW e \in Devices, NEW f \in Fields
  PROVE  shown[e][f] \subseteq shown'[e][f]
<1>1. CASE e = d
  <2>1. shown'[d] = [g \in Fields |-> shown[d][g] \cup more[g] \cup
          (IF changes'[d][g] = None \/ g \in conflicts'[d] THEN {cache'[d][g]} ELSE {})]
    BY DEF See, TypeOK
  <2>. QED BY <1>1, <2>1
<1>2. CASE e # d
  BY <1>2 DEF See, TypeOK
<1>. QED BY <1>1, <1>2

\* Whatever happens, what was seen stays seen.
LEMMA ShownGrows ==
  ASSUME Inductive, [Next]_vars, NEW e \in Devices, NEW f \in Fields
  PROVE  shown[e][f] \subseteq shown'[e][f]
<1>0. TypeOK
  BY DEF Inductive
<1>1. CASE UNCHANGED shown
  BY <1>1
<1>2. ASSUME NEW d \in Devices, NEW more, See(d, more)
      PROVE  shown[e][f] \subseteq shown'[e][f]
  BY <1>0, <1>2, SeeGrows
<1>3. CASE UNCHANGED vars
  BY <1>1, <1>3 DEF vars
<1>4. ASSUME NEW input \in Inputs, Patch(input)
      PROVE  UNCHANGED shown
  BY <1>4 DEF Patch
<1>5. ASSUME NEW d \in Devices, Serve(d)
      PROVE  UNCHANGED shown
  BY <1>5 DEF Serve
<1>6. ASSUME NEW d \in Devices, User(d)
      PROVE  \E more : See(d, more)
  BY <1>6 DEF User, Initialize, Choose, Resolve
<1>7. ASSUME NEW d \in Devices, NEW t \in Tabs, Flush(d, t)
      PROVE  UNCHANGED shown \/ \E more : See(d, more)
  BY <1>7 DEF Flush, Start, Fetch, Merge, Depart, Acknowledge, Fail, CloseTab
<1>. QED BY <1>1, <1>2, <1>3, <1>4, <1>5, <1>6, <1>7 DEF Next

\* A revision that a step adds was written through PATCH, or by a browser
\* whose user had seen the revision before it: its base was the newest one.
LEMMA WritesAreSeen ==
  ASSUME Inductive, [Next]_vars, NEW f \in Fields, NEW i \in DOMAIN history'[f]
  PROVE  \/ i \in DOMAIN history[f] /\ history'[f][i] = history[f][i]
         \/ history'[f][i].by = None
         \/ i - 1 \in shown[history'[f][i].by][f]
<1>0. TypeOK
  BY DEF Inductive
<1>1. history[f] \in Seq([value : Values, by : Devices \cup {None}]) \ {<<>>}
  BY <1>0 DEF TypeOK
<1>2. CASE history'[f] = history[f]
  BY <1>2
<1>3. ASSUME NEW input \in Inputs, Patch(input)
      PROVE  \/ i \in DOMAIN history[f] /\ history'[f][i] = history[f][i]
             \/ history'[f][i].by = None
  <2>1. CASE history'[f] = history[f]
    BY <2>1
  <2>2. CASE history'[f] = Append(history[f], [value |-> input[f], by |-> None])
    BY <2>2, <1>1
  <2>. QED BY <2>1, <2>2, <1>3 DEF Patch, Written
<1>4. ASSUME NEW d \in Devices, Serve(d)
      PROVE  \/ i \in DOMAIN history[f] /\ history'[f][i] = history[f][i]
             \/ i - 1 \in shown[history'[f][i].by][f]
  <2>1. \/ history'[f] = history[f]
        \/ /\ Sent(d, f) /\ ~Refused(d, f) /\ Last(history[f]).value # flight[d].sent[f].value
           /\ history'[f] = Append(history[f], [value |-> flight[d].sent[f].value, by |-> d])
    <3>1. CASE UNCHANGED server
      BY <3>1 DEF server
    <3>2. CASE ~Known(d)
      <4>1. history'[f] = IF Sent(d, f) /\ ~Refused(d, f)
                          THEN Written(f, flight[d].sent[f].value, d) ELSE history[f]
        BY <1>4, <3>2 DEF Serve
      <4>. QED BY <4>1 DEF Written
    <3>. QED BY <1>4, <3>1, <3>2 DEF Serve
  <2>2. CASE history'[f] = history[f]
    BY <2>2
  <2>3. CASE /\ Sent(d, f) /\ ~Refused(d, f) /\ Last(history[f]).value # flight[d].sent[f].value
             /\ history'[f] = Append(history[f], [value |-> flight[d].sent[f].value, by |-> d])
    <3>1. flight[d].sent[f].base = Len(history[f])
      BY <2>3 DEF Refused, Revision
    <3>2. flight[d].sent[f].base \in shown[d][f]
      BY <2>3 DEF Inductive, Linked, BasesSeen
    <3>. QED BY <2>3, <3>1, <3>2, <1>1
  <2>. QED BY <2>1, <2>2, <2>3
<1>5. ASSUME NEW d \in Devices, User(d)
      PROVE  history'[f] = history[f]
  BY <1>5 DEF User, Initialize, Choose, Resolve, server
<1>6. ASSUME NEW d \in Devices, NEW t \in Tabs, Flush(d, t)
      PROVE  history'[f] = history[f]
  BY <1>6 DEF Flush, Start, Fetch, Merge, Depart, Acknowledge, Fail, CloseTab, server
<1>7. CASE UNCHANGED vars
  BY <1>2, <1>7 DEF vars, server
<1>. QED BY <1>2, <1>3, <1>4, <1>5, <1>6, <1>7 DEF Next

\* sync_preferences replaces only revisions the user of the browser has seen.
THEOREM OverwritesAreSeen == Spec => []NoBlindOverwrite
<1>1. Init => NoBlindOverwrite
  BY DEF Init, NoBlindOverwrite
<1>2. ASSUME Inductive, NoBlindOverwrite, [Next]_vars
      PROVE  NoBlindOverwrite'
  <2>. SUFFICES ASSUME NEW f \in Fields, NEW i \in DOMAIN history'[f],
                       history'[f][i].by # None
                PROVE  i - 1 \in shown'[history'[f][i].by][f]
    BY DEF NoBlindOverwrite
  <2>1. Inductive' /\ history'[f][i].by \in Devices
    <3>1. Inductive'
      BY <1>2, NextKeeps
    <3>2. history'[f] \in Seq([value : Values, by : Devices \cup {None}])
      BY <3>1 DEF Inductive, TypeOK
    <3>3. history'[f][i] \in [value : Values, by : Devices \cup {None}]
      BY <3>2, MembersOfSequences
    <3>. QED BY <3>1, <3>3
  <2>2. shown[history'[f][i].by][f] \subseteq shown'[history'[f][i].by][f]
    BY <1>2, <2>1, ShownGrows
  <2>3. i - 1 \in shown[history'[f][i].by][f]
    BY <1>2, WritesAreSeen DEF NoBlindOverwrite
  <2>. QED BY <2>2, <2>3
<1>. QED BY <1>1, <1>2, StateIsLinked, PTL DEF Spec

\* No step takes a browser's copy of a field back to an older revision.
THEOREM CacheMovesForward == Spec => CacheNeverRollsBack
<1>1. ASSUME Inductive, [Next]_vars
      PROVE  [\A d \in Devices, f \in Fields : Ready(d) => cache'[d][f] >= cache[d][f]]_vars
  <2>0. TypeOK
    BY <1>1 DEF Inductive
  <2>. SUFFICES ASSUME NEW d \in Devices, NEW f \in Fields, Ready(d)
                PROVE  cache'[d][f] >= cache[d][f]
    OBVIOUS
  <2>1. cache[d] \in [Fields -> Nat] /\ cache[d][f] \in Nat
    BY <2>0 DEF TypeOK, Ready
  <2>2. CASE cache'[d] = cache[d]
    BY <2>1, <2>2
  <2>3. ASSUME NEW fresh \in [Fields -> Nat], cache'[d] = Newest(cache[d], fresh)
        PROVE  cache'[d][f] >= cache[d][f]
    BY <2>1, <2>3, NewestIsNewer
  <2>4. ASSUME NEW e \in Devices, User(e)
        PROVE  cache'[d] = cache[d]
    BY <2>0, <2>4 DEF User, Initialize, Choose, Resolve, TypeOK
  <2>5. ASSUME NEW e \in Devices, NEW t \in Tabs, Flush(e, t)
        PROVE  cache'[d] = cache[d] \/ \E fresh \in [Fields -> Nat] : cache'[d] = Newest(cache[d], fresh)
    <3>1. CASE Merge(e, t)
      <4>1. sync[e][t].fresh \in [Fields -> Nat]
        BY <1>1, <2>0, <3>1 DEF Merge, Inductive, Stages, TypeOK, Syncs
      <4>2. cache' = [cache EXCEPT ![e] = Newest(cache[e], sync[e][t].fresh)]
        BY <3>1 DEF Merge
      <4>. QED BY <2>0, <4>1, <4>2 DEF TypeOK
    <3>2. CASE Acknowledge(e, t)
      <4> DEFINE answer == receipts[e][sync[e][t].request.id]
      <4>1. answer \in Answers
        <5>1. receipts[e] \in Seq(Answers) /\ sync[e][t].request.id \in DOMAIN receipts[e]
          BY <2>0, <3>2 DEF Acknowledge, TypeOK
        <5>. QED BY <5>1
      <4>2. answer.revisions \in [Fields -> Nat]
        BY <4>1 DEF Answers
      <4>3. cache' = [cache EXCEPT ![e] = Newest(cache[e], answer.revisions)]
        BY <3>2 DEF Acknowledge
      <4>. QED BY <2>0, <4>2, <4>3 DEF TypeOK
    <3>. QED BY <2>5, <3>1, <3>2 DEF Flush, Start, Fetch, Depart, Fail, CloseTab, stored
  <2>6. CASE UNCHANGED vars
    BY <2>2, <2>6 DEF vars, stored
  <2>. QED BY <1>1, <2>2, <2>3, <2>4, <2>5, <2>6 DEF Next, Patch, Serve, stored
<1>. QED BY <1>1, StateIsLinked, PTL DEF Spec, CacheNeverRollsBack
=============================================================================
