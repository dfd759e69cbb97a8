------------------------ MODULE ExportRetention_proofs ------------------------
(***************************************************************************)
(* The safety properties of ExportRetention, for any number of exports,    *)
(* pages, claims, transfers and reclaimers and for every duration.         *)
(*                                                                         *)
(* The invariant that every step keeps is Inductive.  LeasesHold alone is  *)
(* not inductive: a transfer renews the lease it was given, so it must     *)
(* still have it (Held), and a reclaimer that has marked an export removes *)
(* it in a second transaction, so the mark must have a reason and be       *)
(* visible (Marked).  The argument about the clock is in EligibleMeans: a  *)
(* run judges leases by a moment that is past, and then more of them look  *)
(* valid, never fewer.                                                     *)
(*                                                                         *)
(* EveryExportReclaimed rests on fairness and is left to TLC.              *)
(***************************************************************************)
EXTENDS ExportRetention, TLAPS

\* What the assumption says of the durations.
LEMMA Durations ==
  /\ MaxRun \in Nat /\ MaxFailures \in Nat /\ Backoff \in Nat \ {0} /\ Retention \in Nat \ {0}
  /\ ViewerTime \in Nat \ {0} /\ ClaimTime \in Nat \ {0} /\ DownloadTime \in Nat \ {0}
  /\ Forever \in Int /\ Forever < 0 /\ - MaxRun > Forever
BY ExportAssumption DEF Forever

\* Times are integers from Forever up.
LEMMA TimesAreIntegers == \A x \in Times : x \in Int /\ x >= Forever
BY Durations DEF Times

\* A time no longer than one of the durations is a time.
LEMMA ShortTimes ==
  ASSUME NEW x \in Int, Forever <= x,
         x <= Retention \/ x <= DownloadTime \/ x <= ViewerTime \/ x <= ClaimTime \/ x <= Backoff
  PROVE  x \in Times
BY Durations DEF Times

\* TypeOK, by the things it is asked about.
LEMMA Typed ==
  ASSUME TypeOK
  PROVE  /\ \A a \in Artifacts : left[a] \in Times /\ left[a] \in Int
         /\ \A a \in Artifacts : retry[a] \in Times /\ retry[a] \in Int
         /\ \A a \in Artifacts, l \in LeaseIds : leases[a][l] # None =>
              /\ leases[a][l] \in Leases /\ leases[a][l].left \in Times
              /\ leases[a][l].left \in Int
              /\ leases[a][l].kind \in {"viewer", "claim", "download"}
         /\ \A d \in Responses : response[d] \in Transfers /\ response[d].left \in Nat
         /\ \A r \in Reclaimers : run[r] \in Runs /\ run[r].lag \in 0 .. MaxRun /\ run[r].lag \in Int
<1>1. \A a \in Artifacts : left[a] \in Times /\ retry[a] \in Times
  BY DEF TypeOK
<1>2. \A a \in Artifacts, l \in LeaseIds : leases[a][l] # None => leases[a][l] \in Leases
  BY DEF TypeOK
<1>3. \A d \in Responses : response[d] \in Transfers
  BY DEF TypeOK
<1>4. \A r \in Reclaimers : run[r] \in Runs
  BY DEF TypeOK
<1>5. \A x \in Leases : x.left \in Times /\ x.kind \in {"viewer", "claim", "download"}
  BY DEF Leases
<1>6. \A x \in Transfers : x.left \in Nat
  BY DEF Transfers
<1>7. \A x \in Runs : x.lag \in 0 .. MaxRun /\ x.lag \in Int
  BY Durations DEF Runs
<1>. QED BY <1>1, <1>2, <1>3, <1>4, <1>5, <1>6, <1>7, TimesAreIntegers

\* A tick takes at most one from a time.
LEMMA LaterIsBefore ==
  ASSUME NEW x \in Times
  PROVE  /\ Later(x) \in Times /\ Later(x) \in Int /\ x \in Int
         /\ Later(x) <= x /\ Later(x) >= x - 1
BY Durations DEF Later, Times

\* Ticks keep the order of times.
LEMMA LaterIsMonotone ==
  ASSUME NEW x \in Times, NEW y \in Times, x <= y
  PROVE  Later(x) <= Later(y)
BY Durations, TimesAreIntegers DEF Later

\* What a run finds removable has no valid lease now, although the run judges
\* by its start, and is past its deadline or released.
LEMMA EligibleMeans ==
  ASSUME Inductive, NEW a \in Artifacts, NEW lag \in 0 .. MaxRun, Eligible(a, lag)
  PROVE  /\ \A l \in LeaseIds : ~ Live(a, l, 0)
         /\ left[a] <= 0 \/ a \in released
         /\ state[a] \notin {"none", "reclaimed"}
<1>0. TypeOK /\ ShortLeases /\ Marked
  BY DEF Inductive
<1>1. left[a] \in Int /\ lag \in Int /\ lag >= 0
  BY <1>0, Typed, Durations
<1>2. ASSUME NEW l \in LeaseIds, Live(a, l, 0)
      PROVE  FALSE
  <2>1. leases[a][l] \in Leases /\ leases[a][l].left \in Int
    BY <1>0, <1>2, Typed DEF Live
  <2>2. Live(a, l, lag)
    BY <1>1, <1>2, <2>1 DEF Live
  <2>3. leases[a][l].kind # "download" => leases[a][l].left <= left[a]
    BY <1>0, <1>2 DEF ShortLeases, Live
  <2>4. l \in Deferring(a, lag)
    BY <1>1, <1>2, <2>1, <2>2, <2>3 DEF Deferring, Live
  <2>. QED BY <2>4 DEF Eligible
<1>3. left[a] <= 0 \/ a \in released
  BY <1>0, <1>1 DEF Eligible, Marked, TypeOK
<1>. QED BY <1>2, <1>3 DEF Eligible

\* The clock keeps the invariant.
LEMMA TickKeeps ==
  ASSUME Inductive, Tick
  PROVE  Inductive'
<1>0. TypeOK /\ LeasesHold /\ StatusIsTrue /\ ShortLeases /\ Held /\ Marked /\ Unpublished
  BY DEF Inductive
<1>1. UNCHANGED <<state, onClose, released, failures, file>>
  BY DEF Tick
<1>2. ASSUME NEW a \in Artifacts
      PROVE  left'[a] = Later(left[a]) /\ left'[a] \in Times /\ left[a] \in Times
  BY <1>0, LaterIsBefore DEF Tick, TypeOK
<1>3. ASSUME NEW a \in Artifacts, NEW l \in LeaseIds
      PROVE  /\ leases'[a][l] \in Leases \cup {None}
             /\ leases'[a][l] = None <=> leases[a][l] = None
             /\ leases[a][l] # None =>
                  /\ leases[a][l].left \in Times
                  /\ leases'[a][l].kind = leases[a][l].kind
                  /\ leases'[a][l].left = Later(leases[a][l].left)
  <2>1. leases'[a][l] = IF leases[a][l] = None THEN None
                        ELSE [leases[a][l] EXCEPT !.left = Later(@)]
    BY DEF Tick
  <2>2. leases[a][l] \in Leases \cup {None}
    BY <1>0 DEF TypeOK
  <2>3. CASE leases[a][l] = None
    BY <2>1, <2>3
  <2>4. CASE leases[a][l] # None
    <3>1. leases[a][l].left \in Times /\ leases[a][l] \in Leases
      BY <2>2, <2>4 DEF Leases
    <3>2. [leases[a][l] EXCEPT !.left = Later(leases[a][l].left)] \in Leases
      BY <3>1, LaterIsBefore DEF Leases
    <3>3. leases'[a][l] = [leases[a][l] EXCEPT !.left = Later(leases[a][l].left)]
      BY <2>1, <2>4
    <3>4. leases'[a][l].kind = leases[a][l].kind
      BY <3>1, <3>3 DEF Leases
    <3>5. leases'[a][l].left = Later(leases[a][l].left)
      BY <3>1, <3>3 DEF Leases
    <3>. QED BY <2>4, <3>1, <3>2, <3>3, <3>4, <3>5, ExportAssumption
  <2>. QED BY <2>3, <2>4
<1>4. ASSUME NEW d \in Responses
      PROVE  /\ response'[d] \in Transfers
             /\ response'[d].stage = response[d].stage
             /\ response'[d].artifact = response[d].artifact
             /\ response'[d].lease = response[d].lease
             /\ response'[d].left = IF response[d].left > 0 THEN response[d].left - 1 ELSE 0
             /\ response[d].left \in Nat /\ response'[d].left \in Nat
             /\ response'[d] = [response[d] EXCEPT !.left = response'[d].left]
  <2>1. response'[d] = [response[d] EXCEPT !.left = IF @ > 0 THEN @ - 1 ELSE 0]
    BY DEF Tick
  <2>2. response[d] \in Transfers
    BY <1>0, Typed
  <2>. QED BY <2>1, <2>2, Durations DEF Transfers
<1>5. ASSUME NEW r \in Reclaimers
      PROVE  /\ run'[r] \in Runs
             /\ run'[r].stage = run[r].stage /\ run'[r].current = run[r].current
  <2>1. run'[r] = [run[r] EXCEPT !.lag = IF run[r].stage = "idle" THEN 0 ELSE @ + 1]
    BY DEF Tick
  <2>2. run[r] \in Runs /\ (run[r].stage = "idle" \/ run[r].lag < MaxRun)
    BY <1>0, Typed DEF Tick
  <2>. QED BY <2>1, <2>2, Durations DEF Runs
<1>6. TypeOK'
  <2>1. left' \in [Artifacts -> Times] /\ retry' \in [Artifacts -> Times]
    BY <1>0, LaterIsBefore DEF Tick, TypeOK
  <2>2. leases' \in [Artifacts -> [LeaseIds -> Leases \cup {None}]]
    BY <1>3 DEF Tick
  <2>3. response' \in [Responses -> Transfers]
    <3>1. response' = [d \in Responses |-> response'[d]]
      BY DEF Tick
    <3>. QED BY <3>1, <1>4
  <2>4. run' \in [Reclaimers -> Runs]
    <3>1. run' = [r \in Reclaimers |-> run'[r]]
      BY DEF Tick
    <3>. QED BY <3>1, <1>5
  <2>. QED BY <1>0, <1>1, <2>1, <2>2, <2>3, <2>4 DEF TypeOK
<1>7. LeasesHold'
  <2>1. ASSUME NEW a \in Artifacts, NEW l \in LeaseIds, Live(a, l, 0)'
        PROVE  Live(a, l, 0)
    <3>1. leases[a][l] # None /\ leases[a][l].left \in Times
          /\ leases'[a][l].left = Later(leases[a][l].left) /\ leases'[a][l].left > 0
      BY <1>3, <2>1 DEF Live
    <3>2. leases[a][l].left \in Int /\ leases[a][l].left > 0
      BY <3>1, LaterIsBefore
    <3>. QED BY <3>1, <3>2 DEF Live
  <2>. QED BY <1>0, <1>1, <2>1 DEF LeasesHold
<1>8. StatusIsTrue'
  BY <1>0, <1>1, <1>3 DEF StatusIsTrue
<1>9. ShortLeases'
  <2>1. ASSUME NEW a \in Artifacts, NEW l \in LeaseIds,
               leases'[a][l] # None, leases'[a][l].kind # "download"
        PROVE  leases'[a][l].left <= left'[a]
    <3>1. leases[a][l].left <= left[a] /\ leases[a][l].left \in Times
          /\ leases'[a][l].left = Later(leases[a][l].left)
      BY <1>0, <1>3, <2>1 DEF ShortLeases
    <3>. QED BY <3>1, <1>2, LaterIsMonotone
  <2>. QED BY <2>1 DEF ShortLeases
<1>10. Held'
  <2>1. ASSUME NEW d \in Responses, response'[d].stage = "idle"
        PROVE  response'[d] = Unused
    <3>1. response[d] = Unused
      BY <1>0, <1>4, <2>1 DEF Held
    <3>2. response[d].left = 0
      BY <3>1 DEF Unused
    <3>3. response'[d].left = response[d].left
      <4>1. response'[d].left = IF response[d].left > 0 THEN response[d].left - 1 ELSE 0
        BY <1>4
      <4>. QED BY <3>2, <4>1
    <3>4. response'[d] = response[d]
      BY <1>4, <3>3, <1>0, Typed DEF Transfers
    <3>. QED BY <3>1, <3>4
  <2>2. ASSUME NEW d \in Responses, response'[d].stage # "idle"
        PROVE  LET a == response'[d].artifact
                   l == response'[d].lease
               IN /\ a \in Artifacts /\ l \in Claims \cup {d}
                  /\ \/ /\ leases'[a][l] # None /\ leases'[a][l].kind = "download"
                        /\ response'[d].left > 0 => leases'[a][l].left >= response'[d].left
                     \/ state'[a] = "reclaimed" /\ response'[d].left = 0
    <3> DEFINE a == response[d].artifact
               l == response[d].lease
    <3>1. /\ a \in Artifacts /\ l \in Claims \cup {d} /\ l \in LeaseIds
          /\ \/ /\ leases[a][l] # None /\ leases[a][l].kind = "download"
                /\ response[d].left > 0 => leases[a][l].left >= response[d].left
             \/ state[a] = "reclaimed" /\ response[d].left = 0
      BY <1>0, <1>4, <2>2 DEF Held, LeaseIds
    <3>2. response'[d].artifact = a /\ response'[d].lease = l
      BY <1>4
    <3>. HIDE DEF a, l
    <3>3. CASE state[a] = "reclaimed" /\ response[d].left = 0
      <4>1. response'[d].left = IF response[d].left > 0 THEN response[d].left - 1 ELSE 0
        BY <1>4
      <4>2. response'[d].left = 0
        BY <3>3, <4>1
      <4>. QED BY <1>1, <3>1, <3>2, <3>3, <4>2
    <3>4. CASE /\ leases[a][l] # None /\ leases[a][l].kind = "download"
               /\ response[d].left > 0 => leases[a][l].left >= response[d].left
      <4>1. /\ leases'[a][l] # None /\ leases'[a][l].kind = "download"
            /\ leases[a][l].left \in Times /\ leases'[a][l].left = Later(leases[a][l].left)
        BY <1>3, <3>1, <3>4
      <4>2. leases'[a][l].left >= leases[a][l].left - 1 /\ leases'[a][l].left \in Int /\ leases[a][l].left \in Int
        BY <4>1, LaterIsBefore, Durations
      <4>3. response'[d].left > 0 => leases'[a][l].left >= response'[d].left
        <5>1. response[d].left \in Nat
              /\ response'[d].left = IF response[d].left > 0 THEN response[d].left - 1 ELSE 0
          BY <1>4
        <5>. QED BY <3>4, <4>2, <5>1
      <4>. QED BY <3>1, <3>2, <4>1, <4>3
    <3>. QED BY <3>1, <3>3, <3>4
  <2>3. ASSUME NEW d \in Responses, NEW e \in Responses,
               response'[d].lease # None, response'[d].lease = response'[e].lease,
               response'[d].artifact = response'[e].artifact
        PROVE  d = e
    <3>1. /\ response'[d].lease = response[d].lease /\ response'[d].artifact = response[d].artifact
          /\ response'[e].lease = response[e].lease /\ response'[e].artifact = response[e].artifact
      BY <1>4
    <3>. QED BY <1>0, <2>3, <3>1 DEF Held
  <2>. QED BY <2>1, <2>2, <2>3 DEF Held
<1>11. Marked'
  <2>1. ASSUME NEW a \in Artifacts, left[a] <= 0
        PROVE  left'[a] <= 0
    <3>1. Later(left[a]) <= left[a] /\ Later(left[a]) \in Int /\ left[a] \in Int
      BY <1>2, LaterIsBefore
    <3>. QED BY <1>2, <2>1, <3>1
  <2>. QED BY <1>0, <1>1, <1>5, <2>1 DEF Marked
<1>12. Unpublished'
  BY <1>0, <1>1, <1>3 DEF Unpublished
<1>. QED BY <1>6, <1>7, <1>8, <1>9, <1>10, <1>11, <1>12 DEF Inductive

\* What a lease row that is written changes.
LEMMA LeaseWritten ==
  ASSUME TypeOK, NEW a \in Artifacts, NEW l \in LeaseIds,
         NEW kind \in {"viewer", "claim", "download"}, NEW time \in Times,
         Lease(a, l, kind, time)
  PROVE  /\ leases' \in [Artifacts -> [LeaseIds -> Leases \cup {None}]]
         /\ leases'[a][l] # None /\ leases'[a][l].kind = kind /\ leases'[a][l].left = time
         /\ \A b \in Artifacts, m \in LeaseIds :
              b # a \/ m # l => leases'[b][m] = leases[b][m]
<1>1. leases \in [Artifacts -> [LeaseIds -> Leases \cup {None}]]
  BY DEF TypeOK
<1>2. [kind |-> kind, left |-> time] \in Leases
  BY DEF Leases
<1>3. leases' = [leases EXCEPT ![a] = [leases[a] EXCEPT ![l] = [kind |-> kind, left |-> time]]]
  BY DEF Lease
<1>4. [leases[a] EXCEPT ![l] = [kind |-> kind, left |-> time]] \in [LeaseIds -> Leases \cup {None}]
  BY <1>1, <1>2
<1>5. leases' \in [Artifacts -> [LeaseIds -> Leases \cup {None}]]
  BY <1>1, <1>3, <1>4
<1>6. leases'[a][l] = [kind |-> kind, left |-> time]
  BY <1>1, <1>3
<1>7. \A b \in Artifacts, m \in LeaseIds : b # a \/ m # l => leases'[b][m] = leases[b][m]
  BY <1>1, <1>3
<1>. QED BY <1>2, <1>5, <1>6, <1>7, ExportAssumption

\* What a lease row that is deleted changes.
LEMMA LeaseErased ==
  ASSUME TypeOK, NEW a \in Artifacts, NEW l \in LeaseIds, NoLease(a, l)
  PROVE  /\ leases' \in [Artifacts -> [LeaseIds -> Leases \cup {None}]]
         /\ leases'[a][l] = None
         /\ \A b \in Artifacts, m \in LeaseIds :
              b # a \/ m # l => leases'[b][m] = leases[b][m]
<1>1. leases \in [Artifacts -> [LeaseIds -> Leases \cup {None}]]
  BY DEF TypeOK
<1>2. leases' = [leases EXCEPT ![a] = [leases[a] EXCEPT ![l] = None]]
  BY DEF NoLease
<1>3. [leases[a] EXCEPT ![l] = None] \in [LeaseIds -> Leases \cup {None}]
  BY <1>1
<1>4. leases' \in [Artifacts -> [LeaseIds -> Leases \cup {None}]]
  BY <1>1, <1>2, <1>3
<1>. QED BY <1>1, <1>2, <1>4

\* Leases are written for available exports.
LEMMA LeasingKeeps ==
  ASSUME Inductive, NEW a \in Artifacts, NEW l \in LeaseIds,
         NEW kind \in {"viewer", "claim", "download"}, NEW time \in Times,
         Lease(a, l, kind, time), state[a] = "active",
         kind # "download" => time <= left[a],
         UNCHANGED <<row, file, run>>
  PROVE  LeasesHold' /\ StatusIsTrue' /\ ShortLeases' /\ Marked' /\ Unpublished'
<1>0. TypeOK /\ LeasesHold /\ StatusIsTrue /\ ShortLeases /\ Marked /\ Unpublished
  BY DEF Inductive
<1>1. /\ leases'[a][l] # None /\ leases'[a][l].kind = kind /\ leases'[a][l].left = time
      /\ \A b \in Artifacts, m \in LeaseIds :
           b # a \/ m # l => leases'[b][m] = leases[b][m]
  BY <1>0, LeaseWritten
<1>2. /\ state' = state /\ left' = left /\ released' = released /\ file' = file /\ run' = run
  BY DEF row
<1>3. LeasesHold'
  <2>1. a \in file
    BY <1>0 DEF StatusIsTrue
  <2>. QED BY <1>0, <1>1, <1>2, <2>1 DEF LeasesHold, Live
<1>4. StatusIsTrue'
  BY <1>0, <1>1, <1>2 DEF StatusIsTrue
<1>5. ShortLeases'
  BY <1>0, <1>1, <1>2 DEF ShortLeases
<1>6. Marked'
  BY <1>0, <1>2 DEF Marked
<1>7. Unpublished'
  BY <1>0, <1>1, <1>2 DEF Unpublished
<1>. QED BY <1>3, <1>4, <1>5, <1>6, <1>7

\* Leases may go, and exports may be released, at any time.
LEMMA ErasingKeeps ==
  ASSUME Inductive, NEW a \in Artifacts, NEW l \in LeaseIds, NoLease(a, l),
         UNCHANGED <<state, left, file, run>>, released \subseteq released'
  PROVE  LeasesHold' /\ StatusIsTrue' /\ ShortLeases' /\ Marked' /\ Unpublished'
<1>0. TypeOK /\ LeasesHold /\ StatusIsTrue /\ ShortLeases /\ Marked /\ Unpublished
  BY DEF Inductive
<1>1. /\ leases'[a][l] = None
      /\ \A b \in Artifacts, m \in LeaseIds :
           b # a \/ m # l => leases'[b][m] = leases[b][m]
  BY <1>0, LeaseErased
<1>3. LeasesHold'
  BY <1>0, <1>1 DEF LeasesHold, Live
<1>4. StatusIsTrue'
  BY <1>0, <1>1 DEF StatusIsTrue
<1>5. ShortLeases'
  BY <1>0, <1>1 DEF ShortLeases
<1>6. Marked'
  BY <1>0 DEF Marked
<1>7. Unpublished'
  BY <1>0, <1>1 DEF Unpublished
<1>. QED BY <1>3, <1>4, <1>5, <1>6, <1>7

\* What Held says of one transfer.
HasLease(d) ==
  IF response[d].stage = "idle" THEN response[d] = Unused
  ELSE LET a == response[d].artifact
           l == response[d].lease
       IN /\ a \in Artifacts /\ l \in Claims \cup {d}
          /\ \/ /\ leases[a][l] # None /\ leases[a][l].kind = "download"
                /\ response[d].left > 0 => leases[a][l].left >= response[d].left
             \/ state[a] = "reclaimed" /\ response[d].left = 0

\* No two transfers use one lease.
OneTransferEach ==
  \A d, e \in Responses :
    response[d].lease # None /\ response[d].lease = response[e].lease
      /\ response[d].artifact = response[e].artifact => d = e

\* The two parts of Held, in a state.
LEMMA HeldParts == Held <=> (\A d \in Responses : HasLease(d)) /\ OneTransferEach
BY DEF Held, HasLease, OneTransferEach

\* The two parts of Held, in the next state.
LEMMA HeldPartsNext == Held' <=> (\A d \in Responses : HasLease(d)') /\ OneTransferEach'
BY DEF Held, HasLease, OneTransferEach

\* The lease of a transfer, by name.
LEMMA LeaseOf ==
  ASSUME Held, NEW d \in Responses, response[d].stage # "idle"
  PROVE  /\ response[d].artifact \in Artifacts /\ response[d].lease \in LeaseIds
         /\ response[d].lease \in Claims \cup {d}
         /\ \/ /\ leases[response[d].artifact][response[d].lease] # None
               /\ leases[response[d].artifact][response[d].lease].kind = "download"
               /\ response[d].left > 0 =>
                    leases[response[d].artifact][response[d].lease].left >= response[d].left
            \/ state[response[d].artifact] = "reclaimed" /\ response[d].left = 0
BY DEF Held, LeaseIds

\* A transfer that does not move, and whose row does not, keeps its lease.
LEMMA StillHas ==
  ASSUME Held, NEW d \in Responses, response'[d] = response[d],
         response[d].stage # "idle" =>
           /\ leases'[response[d].artifact][response[d].lease]
                = leases[response[d].artifact][response[d].lease]
           /\ state[response[d].artifact] = "reclaimed"
                => state'[response[d].artifact] = "reclaimed"
  PROVE  HasLease(d)'
<1>1. CASE response[d].stage = "idle"
  BY <1>1 DEF Held, HasLease
<1>2. CASE response[d].stage # "idle"
  BY <1>2, LeaseOf DEF HasLease
<1>. QED BY <1>1, <1>2

\* finalize_export_lifetime keeps the invariant.
LEMMA PublishKeeps ==
  ASSUME Inductive, NEW a \in Artifacts, NEW close \in BOOLEAN, Publish(a, close)
  PROVE  Inductive'
<1>0. TypeOK /\ LeasesHold /\ StatusIsTrue /\ ShortLeases /\ Held /\ Marked /\ Unpublished
  BY DEF Inductive
<1>1. /\ state[a] = "none" /\ state' = [state EXCEPT ![a] = "active"]
      /\ left' = [left EXCEPT ![a] = Retention] /\ onClose' = [onClose EXCEPT ![a] = close]
      /\ file' = file \cup {a}
      /\ UNCHANGED <<released, retry, failures, leases, response, run>>
  BY DEF Publish
<1>2. \A l \in LeaseIds : leases[a][l] = None
  BY <1>0, <1>1 DEF Unpublished
<1>3. state'[a] = "active" /\ \A b \in Artifacts : b # a => state'[b] = state[b] /\ left'[b] = left[b]
  BY <1>0, <1>1 DEF TypeOK
<1>4. TypeOK'
  <2>1. Retention \in Times
    BY Durations, ShortTimes
  <2>. QED BY <1>0, <1>1, <2>1 DEF TypeOK
<1>5. LeasesHold'
  BY <1>0, <1>1, <1>2, <1>3 DEF LeasesHold, Live
<1>6. StatusIsTrue'
  BY <1>0, <1>1, <1>2, <1>3 DEF StatusIsTrue
<1>7. ShortLeases'
  BY <1>0, <1>1, <1>2, <1>3 DEF ShortLeases
<1>8. Held'
  <2>1. ASSUME NEW d \in Responses
        PROVE  HasLease(d)'
    <3>1. response[d].stage # "idle" =>
            (state[response[d].artifact] = "reclaimed"
               => state'[response[d].artifact] = "reclaimed")
      BY <1>0, <1>1, <1>3, LeaseOf
    <3>. QED BY <1>0, <1>1, <3>1, StillHas
  <2>2. OneTransferEach'
    BY <1>0, <1>1, HeldParts DEF OneTransferEach
  <2>. QED BY <2>1, <2>2, HeldPartsNext
<1>9. Marked'
  BY <1>0, <1>1, <1>3 DEF Marked
<1>10. Unpublished'
  BY <1>0, <1>1, <1>3 DEF Unpublished
<1>. QED BY <1>4, <1>5, <1>6, <1>7, <1>8, <1>9, <1>10 DEF Inductive

\* acquire_viewer keeps the invariant.
LEMMA ViewKeeps ==
  ASSUME Inductive, NEW a \in Artifacts, NEW v \in Viewers, View(a, v)
  PROVE  Inductive'
<1>0. TypeOK /\ Held
  BY DEF Inductive
<1> DEFINE time == Earlier(left[a], ViewerTime)
<1>1. state[a] = "active" /\ left[a] > 0 /\ Lease(a, v, "viewer", time)
      /\ UNCHANGED <<row, file, response, run>> /\ v \in LeaseIds
  BY DEF View, Available, LeaseIds
<1>2. time \in Times /\ time <= left[a]
  <2>1. left[a] \in Int /\ left[a] \in Times
    BY <1>0, Typed
  <2>. QED BY <1>1, <2>1, Durations, ShortTimes DEF Earlier
<1>. HIDE DEF time
<1>3. /\ leases' \in [Artifacts -> [LeaseIds -> Leases \cup {None}]]
      /\ \A b \in Artifacts, m \in LeaseIds : b # a \/ m # v => leases'[b][m] = leases[b][m]
  BY <1>0, <1>1, <1>2, LeaseWritten
<1>4. LeasesHold' /\ StatusIsTrue' /\ ShortLeases' /\ Marked' /\ Unpublished'
  BY <1>1, <1>2, LeasingKeeps
<1>5. TypeOK'
  BY <1>0, <1>1, <1>3 DEF TypeOK, row
<1>6. Held'
  <2>1. ASSUME NEW d \in Responses
        PROVE  HasLease(d)'
    <3>1. response[d].stage # "idle" => response[d].lease # v
      BY <1>0, LeaseOf, ExportAssumption
    <3>. QED BY <1>0, <1>1, <1>3, <3>1, StillHas, LeaseOf DEF row
  <2>2. OneTransferEach'
    BY <1>0, <1>1, HeldParts DEF OneTransferEach
  <2>. QED BY <2>1, <2>2, HeldPartsNext
<1>. QED BY <1>4, <1>5, <1>6 DEF Inductive

\* release_viewer keeps the invariant.
LEMMA CloseKeeps ==
  ASSUME Inductive, NEW a \in Artifacts, NEW v \in Viewers, Close(a, v)
  PROVE  Inductive'
<1>0. TypeOK /\ Held
  BY DEF Inductive
<1>1. /\ NoLease(a, v) /\ v \in LeaseIds
      /\ UNCHANGED <<state, left, onClose, retry, failures, file, response, run>>
  BY DEF Close, LeaseIds
<1>2. released \subseteq released' /\ released' \in SUBSET Artifacts
  BY <1>0 DEF Close, TypeOK
<1>3. /\ leases' \in [Artifacts -> [LeaseIds -> Leases \cup {None}]]
      /\ \A b \in Artifacts, m \in LeaseIds : b # a \/ m # v => leases'[b][m] = leases[b][m]
  BY <1>0, <1>1, LeaseErased
<1>4. LeasesHold' /\ StatusIsTrue' /\ ShortLeases' /\ Marked' /\ Unpublished'
  BY <1>1, <1>2, ErasingKeeps
<1>5. TypeOK'
  BY <1>0, <1>1, <1>2, <1>3 DEF TypeOK
<1>6. Held'
  <2>1. ASSUME NEW d \in Responses
        PROVE  HasLease(d)'
    <3>1. response[d].stage # "idle" => response[d].lease # v
      BY <1>0, LeaseOf, ExportAssumption
    <3>. QED BY <1>0, <1>1, <1>3, <3>1, StillHas, LeaseOf
  <2>2. OneTransferEach'
    BY <1>0, <1>1, HeldParts DEF OneTransferEach
  <2>. QED BY <2>1, <2>2, HeldPartsNext
<1>. QED BY <1>4, <1>5, <1>6 DEF Inductive

\* claim_download keeps the invariant.
LEMMA ClaimKeeps ==
  ASSUME Inductive, NEW a \in Artifacts, NEW c \in Claims, Claim(a, c)
  PROVE  Inductive'
<1>0. TypeOK /\ Held
  BY DEF Inductive
<1> DEFINE time == Earlier(left[a], ClaimTime)
<1>1. state[a] = "active" /\ left[a] > 0 /\ leases[a][c] = None /\ Lease(a, c, "claim", time)
      /\ UNCHANGED <<row, file, response, run>> /\ c \in LeaseIds
  BY DEF Claim, Available, LeaseIds
<1>2. time \in Times /\ time <= left[a]
  <2>1. left[a] \in Int /\ left[a] \in Times
    BY <1>0, Typed
  <2>. QED BY <1>1, <2>1, Durations, ShortTimes DEF Earlier
<1>. HIDE DEF time
<1>3. /\ leases' \in [Artifacts -> [LeaseIds -> Leases \cup {None}]]
      /\ \A b \in Artifacts, m \in LeaseIds : b # a \/ m # c => leases'[b][m] = leases[b][m]
  BY <1>0, <1>1, <1>2, LeaseWritten
<1>4. LeasesHold' /\ StatusIsTrue' /\ ShortLeases' /\ Marked' /\ Unpublished'
  BY <1>1, <1>2, LeasingKeeps
<1>5. TypeOK'
  BY <1>0, <1>1, <1>3 DEF TypeOK, row
<1>6. Held'
  <2>1. ASSUME NEW d \in Responses
        PROVE  HasLease(d)'
    <3>1. response[d].stage # "idle" => response[d].lease # c \/ response[d].artifact # a
      BY <1>0, <1>1, LeaseOf
    <3>. QED BY <1>0, <1>1, <1>3, <3>1, StillHas, LeaseOf DEF row
  <2>2. OneTransferEach'
    BY <1>0, <1>1, HeldParts DEF OneTransferEach
  <2>. QED BY <2>1, <2>2, HeldPartsNext
<1>. QED BY <1>4, <1>5, <1>6 DEF Inductive

\* acquire_download keeps the invariant: the lease it takes is nobody's.
LEMMA DownloadKeeps ==
  ASSUME Inductive, NEW a \in Artifacts, NEW d \in Responses, NEW l \in Claims \cup {d},
         Download(a, d, l)
  PROVE  Inductive'
<1>0. TypeOK /\ Held
  BY DEF Inductive
<1> DEFINE prepared == [stage |-> "prepared", artifact |-> a, lease |-> l, left |-> 0]
<1>1. /\ state[a] = "active" /\ response[d] = Unused /\ Lease(a, l, "download", DownloadTime)
      /\ response' = [response EXCEPT ![d] = prepared]
      /\ UNCHANGED <<row, file, run>> /\ l \in LeaseIds
  BY DEF Download, Available, LeaseIds
<1>2. DownloadTime \in Times
  BY Durations, ShortTimes
<1>3. leases[a][l] = None \/ leases[a][l].kind # "download"
  BY DEF Download, Usable
<1>4. /\ leases' \in [Artifacts -> [LeaseIds -> Leases \cup {None}]]
      /\ leases'[a][l] # None /\ leases'[a][l].kind = "download" /\ leases'[a][l].left = DownloadTime
      /\ \A b \in Artifacts, m \in LeaseIds : b # a \/ m # l => leases'[b][m] = leases[b][m]
  BY <1>0, <1>1, <1>2, LeaseWritten
<1>5. LeasesHold' /\ StatusIsTrue' /\ ShortLeases' /\ Marked' /\ Unpublished'
  BY <1>1, <1>2, LeasingKeeps
<1>6. /\ response' \in [Responses -> Transfers] /\ response'[d] = prepared
      /\ \A e \in Responses : e # d => response'[e] = response[e]
  <2>1. prepared \in Transfers
    BY <1>1, Durations DEF Transfers
  <2>. QED BY <1>0, <1>1, <2>1 DEF TypeOK
<1>7. TypeOK'
  BY <1>0, <1>1, <1>4, <1>6 DEF TypeOK, row
<1>8. \A e \in Responses : e # d /\ response[e].stage # "idle" =>
        response[e].lease # l \/ response[e].artifact # a
  BY <1>0, <1>1, <1>3, LeaseOf
<1>9. Held'
  <2>1. ASSUME NEW e \in Responses, e # d
        PROVE  HasLease(e)'
    BY <1>0, <1>1, <1>4, <1>6, <1>8, <2>1, StillHas, LeaseOf DEF row
  <2>2. HasLease(d)'
    BY <1>4, <1>6 DEF HasLease
  <2>3. OneTransferEach'
    <3>1. ASSUME NEW e \in Responses, e # d
          PROVE  response'[e].lease # response'[d].lease \/ response'[e].artifact # response'[d].artifact
      <4>1. CASE response[e].stage = "idle"
        <5>1. response[e] = Unused
          BY <1>0, <4>1 DEF Held
        <5>. QED BY <1>1, <1>6, <3>1, <5>1, ExportAssumption DEF Unused
      <4>2. CASE response[e].stage # "idle"
        BY <1>6, <1>8, <3>1, <4>2
      <4>. QED BY <4>1, <4>2
    <3>2. \A e, f \in Responses :
            e # d /\ f # d /\ response'[e].lease # None /\ response'[e].lease = response'[f].lease
              /\ response'[e].artifact = response'[f].artifact => e = f
      BY <1>0, <1>6, HeldParts DEF OneTransferEach
    <3>. QED BY <3>1, <3>2 DEF OneTransferEach
  <2>. QED BY <2>1, <2>2, <2>3, HeldPartsNext
<1>. QED BY <1>5, <1>7, <1>9 DEF Inductive

\* One transfer moves on with the lease it has, or ends.
LEMMA MovesOn ==
  ASSUME Inductive, NEW d \in Responses, NEW x \in Transfers,
         response' = [response EXCEPT ![d] = x],
         \/ x.artifact = response[d].artifact /\ x.lease = response[d].lease
         \/ x = Unused
  PROVE  /\ response' \in [Responses -> Transfers] /\ response'[d] = x
         /\ \A e \in Responses : e # d => response'[e] = response[e]
         /\ OneTransferEach'
<1>1. Held /\ TypeOK
  BY DEF Inductive
<1>2. /\ response' \in [Responses -> Transfers] /\ response'[d] = x
      /\ \A e \in Responses : e # d => response'[e] = response[e]
  BY <1>1 DEF TypeOK
<1>3. \A e \in Responses :
        \/ response'[e].artifact = response[e].artifact /\ response'[e].lease = response[e].lease
        \/ response'[e].lease = None
  BY <1>2 DEF Unused
<1>4. OneTransferEach'
  BY <1>1, <1>3, HeldParts DEF OneTransferEach
<1>. QED BY <1>2, <1>4

\* A transfer that does nothing.
LEMMA UnusedIsATransfer == Unused \in Transfers
BY Durations DEF Unused, Transfers

\* The lease of a transfer is its own.
LEMMA OwnLease ==
  ASSUME Held, NEW d \in Responses, NEW e \in Responses, e # d,
         response[d].stage # "idle", response[e].stage # "idle"
  PROVE  response[e].artifact # response[d].artifact \/ response[e].lease # response[d].lease
<1>1. response[d].lease \in LeaseIds
  BY LeaseOf
<1>2. response[d].lease # None
  BY <1>1, ExportAssumption
<1>. QED BY <1>2 DEF Held

\* A transfer that gives up what it relied on keeps the invariant.
LEMMA OneTransferMoves ==
  ASSUME Inductive, NEW d \in Responses, NEW x \in Transfers,
         response' = [response EXCEPT ![d] = x],
         \/ /\ x.artifact = response[d].artifact /\ x.lease = response[d].lease
            /\ x.stage # "idle" /\ x.left = 0 /\ response[d].stage # "idle"
         \/ x = Unused,
         UNCHANGED <<row, leases, file, run>>
  PROVE  Inductive'
<1>0. TypeOK /\ LeasesHold /\ StatusIsTrue /\ ShortLeases /\ Held /\ Marked /\ Unpublished
  BY DEF Inductive
<1>1. /\ response' \in [Responses -> Transfers] /\ response'[d] = x
      /\ \A e \in Responses : e # d => response'[e] = response[e]
      /\ OneTransferEach'
  BY MovesOn
<1>2. TypeOK'
  BY <1>0, <1>1 DEF TypeOK, row
<1>3. LeasesHold' /\ StatusIsTrue' /\ ShortLeases' /\ Marked' /\ Unpublished'
  BY <1>0 DEF LeasesHold, Live, StatusIsTrue, ShortLeases, Marked, Unpublished, row
<1>4. HasLease(d)'
  <2>1. CASE x = Unused
    BY <1>1, <2>1 DEF HasLease, Unused
  <2>2. CASE /\ x.artifact = response[d].artifact /\ x.lease = response[d].lease
             /\ x.stage # "idle" /\ x.left = 0 /\ response[d].stage # "idle"
    BY <1>0, <1>1, <2>2, LeaseOf DEF HasLease, row
  <2>. QED BY <2>1, <2>2
<1>5. \A e \in Responses : e # d => HasLease(e)'
  BY <1>0, <1>1, StillHas DEF row
<1>6. Held'
  BY <1>1, <1>4, <1>5, HeldPartsNext
<1>. QED BY <1>2, <1>3, <1>6 DEF Inductive

\* A transfer in another stage.
Staged(d, stage, time) ==
  [stage |-> stage, artifact |-> response[d].artifact, lease |-> response[d].lease, left |-> time]

\* What Turns does.
LEMMA TurnsTo ==
  ASSUME TypeOK, NEW d \in Responses, NEW stage \in {"sending", "ending"},
         NEW time \in 0 .. DownloadTime, Turns(d, stage, time)
  PROVE  /\ response' = [response EXCEPT ![d] = Staged(d, stage, time)]
         /\ Staged(d, stage, time) \in Transfers
         /\ Staged(d, stage, time).stage = stage /\ Staged(d, stage, time).left = time
         /\ Staged(d, stage, time).artifact = response[d].artifact
         /\ Staged(d, stage, time).lease = response[d].lease
<1>1. response' = [response EXCEPT ![d] = Staged(d, stage, time)]
  BY DEF Turns, Staged
<1>2. response[d].artifact \in Artifacts \cup {None} /\ response[d].lease \in LeaseIds \cup {None}
  BY Typed DEF Transfers
<1>. QED BY <1>1, <1>2 DEF Staged, Transfers

\* renew_download keeps the invariant.
LEMMA RenewKeeps ==
  ASSUME Inductive, NEW d \in Responses, Renew(d)
  PROVE  Inductive'
<1>0. TypeOK /\ Held
  BY DEF Inductive
<1> DEFINE a == response[d].artifact
           l == response[d].lease
<1>1. /\ response[d].stage # "idle" /\ a \in Artifacts /\ l \in LeaseIds /\ l \in Claims \cup {d}
  BY <1>0, LeaseOf DEF Renew
<1>2. CASE ~ Renewable(a, l)
  <2>1. Turns(d, "ending", 0) /\ UNCHANGED <<row, leases, file, run>>
    BY <1>2 DEF Renew
  <2>2. 0 \in 0 .. DownloadTime
    BY Durations
  <2>3. /\ response' = [response EXCEPT ![d] = Staged(d, "ending", 0)]
        /\ Staged(d, "ending", 0) \in Transfers
        /\ Staged(d, "ending", 0).stage = "ending" /\ Staged(d, "ending", 0).left = 0
        /\ Staged(d, "ending", 0).artifact = response[d].artifact
        /\ Staged(d, "ending", 0).lease = response[d].lease
    BY <1>0, <2>1, <2>2, TurnsTo
  <2>. QED BY <1>1, <2>1, <2>3, OneTransferMoves
<1>3. CASE Renewable(a, l)
  <2> DEFINE sending == Staged(d, "sending", DownloadTime)
  <2>1. /\ Turns(d, "sending", DownloadTime) /\ UNCHANGED <<row, file, run>>
        /\ Lease(a, l, "download", DownloadTime)
    BY <1>3 DEF Renew
  <2>2. /\ response' = [response EXCEPT ![d] = sending] /\ sending \in Transfers
        /\ sending.artifact = a /\ sending.lease = l
        /\ sending.stage = "sending" /\ sending.left = DownloadTime
    <3>1. DownloadTime \in 0 .. DownloadTime
      BY Durations
    <3>. QED BY <1>0, <2>1, <3>1, TurnsTo
  <2>. HIDE DEF sending
  <2>3. state[a] = "active" /\ DownloadTime \in Times
    BY <1>3, Durations, ShortTimes DEF Renewable
  <2>4. /\ response' \in [Responses -> Transfers] /\ response'[d] = sending
        /\ \A e \in Responses : e # d => response'[e] = response[e]
        /\ OneTransferEach'
    BY <2>2, MovesOn
  <2>5. /\ leases' \in [Artifacts -> [LeaseIds -> Leases \cup {None}]]
        /\ leases'[a][l] # None /\ leases'[a][l].kind = "download" /\ leases'[a][l].left = DownloadTime
        /\ \A b \in Artifacts, m \in LeaseIds : b # a \/ m # l => leases'[b][m] = leases[b][m]
    BY <1>0, <1>1, <2>1, <2>3, LeaseWritten
  <2>6. LeasesHold' /\ StatusIsTrue' /\ ShortLeases' /\ Marked' /\ Unpublished'
    BY <1>1, <2>1, <2>3, LeasingKeeps
  <2>7. TypeOK'
    BY <1>0, <2>1, <2>4, <2>5 DEF TypeOK, row
  <2>8. HasLease(d)'
    <3>1. /\ response'[d].stage # "idle" /\ response'[d].artifact = a /\ response'[d].lease = l
          /\ response'[d].left = DownloadTime
      BY <2>2, <2>4
    <3>2. leases'[a][l].left >= response'[d].left
      BY <2>5, <3>1, Durations
    <3>. HIDE DEF a, l
    <3>. QED BY <1>1, <2>5, <3>1, <3>2 DEF HasLease
  <2>9. ASSUME NEW e \in Responses, e # d
        PROVE  HasLease(e)'
    <3>1. response[e].stage # "idle" => response[e].artifact # a \/ response[e].lease # l
      BY <1>0, <1>1, <2>9, OwnLease
    <3>2. response[e].stage # "idle" =>
            leases'[response[e].artifact][response[e].lease]
              = leases[response[e].artifact][response[e].lease]
      BY <1>0, <2>5, <3>1, LeaseOf
    <3>. QED BY <1>0, <2>1, <2>4, <2>9, <3>2, StillHas DEF row
  <2>. QED BY <2>4, <2>6, <2>7, <2>8, <2>9, HeldPartsNext DEF Inductive
<1>. QED BY <1>2, <1>3

\* The end of a transfer keeps the invariant.
LEMMA SentKeeps ==
  ASSUME Inductive, NEW d \in Responses, Sent(d)
  PROVE  Inductive'
<1>1. TypeOK /\ response[d].stage # "idle" /\ 0 \in 0 .. DownloadTime
  BY Durations DEF Sent, Inductive
<1>2. Turns(d, "ending", 0) /\ UNCHANGED <<row, leases, file, run>>
  BY DEF Sent
<1>3. /\ response' = [response EXCEPT ![d] = Staged(d, "ending", 0)]
      /\ Staged(d, "ending", 0) \in Transfers
      /\ Staged(d, "ending", 0).stage = "ending" /\ Staged(d, "ending", 0).left = 0
      /\ Staged(d, "ending", 0).artifact = response[d].artifact
      /\ Staged(d, "ending", 0).lease = response[d].lease
  BY <1>1, <1>2, TurnsTo
<1>. QED BY <1>1, <1>2, <1>3, OneTransferMoves

\* A transfer that dies and leaves its lease keeps the invariant.
LEMMA LostKeeps ==
  ASSUME Inductive, NEW d \in Responses, Lost(d)
  PROVE  Inductive'
BY UnusedIsATransfer, OneTransferMoves DEF Lost

\* release_download keeps the invariant.
LEMMA ReleaseKeeps ==
  ASSUME Inductive, NEW d \in Responses, ReleaseDownload(d)
  PROVE  Inductive'
<1>0. TypeOK /\ Held
  BY DEF Inductive
<1> DEFINE a == response[d].artifact
           l == response[d].lease
<1>1. /\ response[d].stage # "idle" /\ a \in Artifacts /\ l \in LeaseIds
      /\ response' = [response EXCEPT ![d] = Unused] /\ UNCHANGED <<row, file, run>>
  BY <1>0, LeaseOf DEF ReleaseDownload
<1>2. CASE UNCHANGED leases
  BY <1>1, <1>2, UnusedIsATransfer, OneTransferMoves
<1>3. CASE NoLease(a, l)
  <2>1. /\ response' \in [Responses -> Transfers] /\ response'[d] = Unused
        /\ \A e \in Responses : e # d => response'[e] = response[e]
        /\ OneTransferEach'
    BY <1>1, UnusedIsATransfer, MovesOn
  <2>2. /\ leases' \in [Artifacts -> [LeaseIds -> Leases \cup {None}]]
        /\ \A b \in Artifacts, m \in LeaseIds : b # a \/ m # l => leases'[b][m] = leases[b][m]
    BY <1>0, <1>1, <1>3, LeaseErased
  <2>3. UNCHANGED <<state, left, file, run>> /\ released \subseteq released'
    BY <1>1 DEF row
  <2>4. LeasesHold' /\ StatusIsTrue' /\ ShortLeases' /\ Marked' /\ Unpublished'
    BY <1>1, <1>3, <2>3, ErasingKeeps
  <2>5. TypeOK'
    BY <1>0, <1>1, <2>1, <2>2 DEF TypeOK, row
  <2>6. HasLease(d)'
    BY <2>1 DEF HasLease, Unused
  <2>7. ASSUME NEW e \in Responses, e # d
        PROVE  HasLease(e)'
    <3>1. response[e].stage # "idle" => response[e].artifact # a \/ response[e].lease # l
      BY <1>0, <1>1, <2>7, OwnLease
    <3>2. response[e].stage # "idle" =>
            leases'[response[e].artifact][response[e].lease]
              = leases[response[e].artifact][response[e].lease]
      BY <1>0, <2>2, <3>1, LeaseOf
    <3>. QED BY <1>0, <1>1, <2>1, <2>7, <3>2, StillHas DEF row
  <2>. QED BY <2>1, <2>4, <2>5, <2>6, <2>7, HeldPartsNext DEF Inductive
<1>. QED BY <1>2, <1>3 DEF ReleaseDownload

\* What the steps of a reclaimer do to its own state.
LEMMA RunMoves ==
  ASSUME TypeOK, NEW r \in Reclaimers, NEW x \in Runs, run' = [run EXCEPT ![r] = x]
  PROVE  /\ run' \in [Reclaimers -> Runs] /\ run'[r] = x
         /\ \A s \in Reclaimers : s # r => run'[s] = run[s]
BY DEF TypeOK

\* What Goes does.
LEMMA GoesTo ==
  ASSUME TypeOK, NEW r \in Reclaimers, NEW stage \in {"mark", "remove"},
         NEW batch \in SUBSET Artifacts, NEW current \in Artifacts \cup {None},
         Goes(r, stage, batch, current)
  PROVE  /\ run' \in [Reclaimers -> Runs]
         /\ run'[r].stage = stage /\ run'[r].current = current
         /\ \A s \in Reclaimers : s # r => run'[s] = run[s]
<1> DEFINE x == [stage |-> stage, batch |-> batch, current |-> current, lag |-> run[r].lag]
<1>1. x \in Runs /\ x.stage = stage /\ x.current = current
  BY Typed DEF Runs
<1>2. run' = [run EXCEPT ![r] = x]
  BY DEF Goes
<1>. HIDE DEF x
<1>. QED BY <1>1, <1>2, RunMoves

\* A run that rests.
LEMMA RestingIsARun == Resting \in Runs
BY Durations DEF Resting, Runs

\* After an artifact, a run is not about to remove anything.
LEMMA OnwardIs ==
  ASSUME TypeOK, NEW r \in Reclaimers, NEW a \in Artifacts, Onward(r, a)
  PROVE  /\ run' \in [Reclaimers -> Runs] /\ run'[r].stage # "remove"
         /\ \A s \in Reclaimers : s # r => run'[s] = run[s]
<1>1. CASE run[r].batch \ {a} = {}
  <2>1. run' = [run EXCEPT ![r] = Resting]
    BY <1>1 DEF Onward
  <2>. QED BY <2>1, RestingIsARun, RunMoves DEF Resting
<1>2. CASE run[r].batch \ {a} # {}
  <2>1. Goes(r, "mark", run[r].batch \ {a}, None)
    BY <1>2 DEF Onward
  <2>2. run[r].batch \ {a} \in SUBSET Artifacts
    BY Typed DEF Runs
  <2>. QED BY <2>1, <2>2, GoesTo
<1>. QED BY <1>1, <1>2

\* The artifact a step of a run is about.
LEMMA LagOf ==
  ASSUME TypeOK, NEW r \in Reclaimers
  PROVE  run[r].lag \in 0 .. MaxRun /\ run[r] \in Runs
BY Typed

\* A run that goes on without touching rows or files.
LEMMA OnlyRunKeeps ==
  ASSUME Inductive, NEW r \in Reclaimers, UNCHANGED <<row, leases, file, response>>,
         run' \in [Reclaimers -> Runs], run'[r].stage # "remove",
         \A s \in Reclaimers : s # r => run'[s] = run[s]
  PROVE  Inductive'
<1>0. TypeOK /\ LeasesHold /\ StatusIsTrue /\ ShortLeases /\ Held /\ Marked /\ Unpublished
  BY DEF Inductive
<1>1. TypeOK'
  BY <1>0 DEF TypeOK, row
<1>2. LeasesHold' /\ StatusIsTrue' /\ ShortLeases' /\ Unpublished'
  BY <1>0 DEF LeasesHold, Live, StatusIsTrue, ShortLeases, Unpublished, row
<1>3. Held'
  BY <1>0 DEF Held, row
<1>4. Marked'
  BY <1>0 DEF Marked, row
<1>. QED BY <1>1, <1>2, <1>3, <1>4 DEF Inductive

\* The query of a run keeps the invariant.
LEMMA ScanKeeps ==
  ASSUME Inductive, NEW r \in Reclaimers, Scan(r)
  PROVE  Inductive'
<1>0. TypeOK
  BY DEF Inductive
<1>1. PICK batch \in Batches : Goes(r, "mark", batch, None)
  BY DEF Scan
<1>2. batch \in SUBSET Artifacts
  BY DEF Batches, Scanned
<1>3. /\ run' \in [Reclaimers -> Runs] /\ run'[r].stage = "mark"
      /\ \A s \in Reclaimers : s # r => run'[s] = run[s]
  BY <1>0, <1>1, <1>2, GoesTo
<1>. QED BY <1>3, OnlyRunKeeps DEF Scan

\* An artifact that is passed over.
LEMMA DeferKeeps ==
  ASSUME Inductive, NEW r \in Reclaimers, NEW a \in Artifacts, Defer(r, a)
  PROVE  Inductive'
<1>0. TypeOK
  BY DEF Inductive
<1>. QED BY <1>0, OnwardIs, OnlyRunKeeps DEF Defer

\* An artifact nobody uses changes its state but keeps its rows and its file.
LEMMA StateMoves ==
  ASSUME Inductive, NEW r \in Reclaimers, NEW a \in Artifacts, NEW s \in {"reclaiming", "retry"},
         Eligible(a, run[r].lag), state' = [state EXCEPT ![a] = s],
         UNCHANGED <<left, released, leases, file, response>>,
         \A q \in Reclaimers : q # r => run'[q] = run[q],
         run'[r].stage = "remove" => run'[r].current = a
  PROVE  /\ state' \in [Artifacts -> {"none", "active", "reclaiming", "retry", "reclaimed"}]
         /\ LeasesHold' /\ StatusIsTrue' /\ ShortLeases' /\ Held' /\ Marked' /\ Unpublished'
<1>0. TypeOK /\ LeasesHold /\ StatusIsTrue /\ ShortLeases /\ Held /\ Marked /\ Unpublished
  BY DEF Inductive
<1>1. /\ \A l \in LeaseIds : ~ Live(a, l, 0)
      /\ left[a] <= 0 \/ a \in released
      /\ state[a] \notin {"none", "reclaimed"}
  BY <1>0, LagOf, EligibleMeans
<1>2. /\ state'[a] = s /\ \A b \in Artifacts : b # a => state'[b] = state[b]
      /\ state' \in [Artifacts -> {"none", "active", "reclaiming", "retry", "reclaimed"}]
  BY <1>0 DEF TypeOK
<1>3. LeasesHold'
  BY <1>0, <1>1, <1>2 DEF LeasesHold, Live
<1>4. StatusIsTrue'
  BY <1>0, <1>2 DEF StatusIsTrue
<1>5. ShortLeases'
  BY <1>0 DEF ShortLeases
<1>6. Held'
  <2>1. ASSUME NEW d \in Responses
        PROVE  HasLease(d)'
    <3>1. response[d].stage # "idle" =>
            (state[response[d].artifact] = "reclaimed"
               => state'[response[d].artifact] = "reclaimed")
      BY <1>0, <1>1, <1>2, LeaseOf
    <3>. QED BY <1>0, <3>1, StillHas
  <2>2. OneTransferEach'
    BY <1>0, HeldParts DEF OneTransferEach
  <2>. QED BY <2>1, <2>2, HeldPartsNext
<1>7. Marked'
  <2>1. ASSUME NEW q \in Reclaimers, run'[q].stage = "remove"
        PROVE  run'[q].current \in Artifacts /\ state'[run'[q].current] \notin {"none", "active"}
    BY <1>0, <1>2, <2>1 DEF Marked
  <2>2. ASSUME NEW b \in Artifacts, state'[b] \in {"reclaiming", "retry"}
        PROVE  left'[b] <= 0 \/ b \in released'
    BY <1>0, <1>1, <1>2, <2>2 DEF Marked
  <2>. QED BY <2>1, <2>2 DEF Marked
<1>8. Unpublished'
  BY <1>0, <1>2 DEF Unpublished
<1>. QED BY <1>2, <1>3, <1>4, <1>5, <1>6, <1>7, <1>8

\* The first transaction for an artifact keeps the invariant.
LEMMA MarkKeeps ==
  ASSUME Inductive, NEW r \in Reclaimers, NEW a \in Artifacts, Mark(r, a)
  PROVE  Inductive'
<1>0. TypeOK
  BY DEF Inductive
<1>1. run[r].batch \in SUBSET Artifacts
  BY <1>0, LagOf DEF Runs
<1>2. Goes(r, "remove", run[r].batch, a)
  BY DEF Mark
<1>3. /\ run' \in [Reclaimers -> Runs] /\ run'[r].current = a
      /\ \A s \in Reclaimers : s # r => run'[s] = run[s]
  BY <1>0, <1>1, <1>2, GoesTo
<1>4. /\ state' \in [Artifacts -> {"none", "active", "reclaiming", "retry", "reclaimed"}]
      /\ LeasesHold' /\ StatusIsTrue' /\ ShortLeases' /\ Held' /\ Marked' /\ Unpublished'
  BY <1>3, StateMoves DEF Mark
<1>5. TypeOK'
  BY <1>0, <1>3, <1>4 DEF TypeOK, Mark
<1>. QED BY <1>4, <1>5 DEF Inductive

\* An unlink that fails keeps the invariant.
LEMMA RemoveFailsKeeps ==
  ASSUME Inductive, NEW r \in Reclaimers, NEW a \in Artifacts, RemoveFails(r, a)
  PROVE  Inductive'
<1>0. TypeOK
  BY DEF Inductive
<1>1. /\ run' \in [Reclaimers -> Runs] /\ run'[r].stage # "remove"
      /\ \A s \in Reclaimers : s # r => run'[s] = run[s]
  BY <1>0, OnwardIs DEF RemoveFails
<1>2. /\ state' \in [Artifacts -> {"none", "active", "reclaiming", "retry", "reclaimed"}]
      /\ LeasesHold' /\ StatusIsTrue' /\ ShortLeases' /\ Held' /\ Marked' /\ Unpublished'
  BY <1>1, StateMoves DEF RemoveFails
<1>3. Backoff - run[r].lag \in Times
  <2>1. run[r].lag \in Int /\ 0 <= run[r].lag /\ run[r].lag <= MaxRun
    BY <1>0, LagOf, Durations
  <2>2. Backoff - run[r].lag \in Int /\ Forever <= Backoff - run[r].lag
        /\ Backoff - run[r].lag <= Backoff
    BY <2>1, Durations
  <2>. QED BY <2>2, ShortTimes
<1>4. retry' \in [Artifacts -> Times] /\ failures' \in [Artifacts -> 0 .. MaxFailures]
  <2>1. failures[a] + 1 \in 0 .. MaxFailures
    BY <1>0, Durations DEF RemoveFails, TypeOK
  <2>. QED BY <1>0, <1>3, <2>1 DEF RemoveFails, TypeOK
<1>5. TypeOK'
  BY <1>0, <1>1, <1>2, <1>4 DEF TypeOK, RemoveFails
<1>. QED BY <1>2, <1>5 DEF Inductive

\* The second transaction for an artifact keeps the invariant: a transfer
\* whose lease has run out relies on nothing any more.
LEMMA RemoveKeeps ==
  ASSUME Inductive, NEW r \in Reclaimers, NEW a \in Artifacts, Remove(r, a)
  PROVE  Inductive'
<1>0. TypeOK /\ LeasesHold /\ StatusIsTrue /\ ShortLeases /\ Held /\ Marked /\ Unpublished
  BY DEF Inductive
<1>1. \A l \in LeaseIds : ~ Live(a, l, 0)
  BY <1>0, LagOf, EligibleMeans DEF Remove
<1>2. /\ run' \in [Reclaimers -> Runs] /\ run'[r].stage # "remove"
      /\ \A s \in Reclaimers : s # r => run'[s] = run[s]
  BY <1>0, OnwardIs DEF Remove
<1>3. /\ state'[a] = "reclaimed" /\ \A b \in Artifacts : b # a => state'[b] = state[b]
      /\ state' \in [Artifacts -> {"none", "active", "reclaiming", "retry", "reclaimed"}]
  BY <1>0 DEF TypeOK, Remove
<1>4. /\ leases' \in [Artifacts -> [LeaseIds -> Leases \cup {None}]]
      /\ \A l \in LeaseIds : leases'[a][l] = None
      /\ \A b \in Artifacts, l \in LeaseIds : b # a => leases'[b][l] = leases[b][l]
  <2>1. [l \in LeaseIds |-> None] \in [LeaseIds -> Leases \cup {None}]
    OBVIOUS
  <2>. QED BY <1>0, <2>1 DEF TypeOK, Remove
<1>5. file' = file \ {a} /\ UNCHANGED <<left, onClose, released, failures, response>>
  BY DEF Remove
<1>6. TypeOK'
  <2>1. Forever \in Times
    BY Durations, ShortTimes
  <2>2. retry' \in [Artifacts -> Times]
    BY <1>0, <2>1 DEF TypeOK, Remove
  <2>. QED BY <1>0, <1>2, <1>3, <1>4, <1>5, <2>2 DEF TypeOK
<1>7. LeasesHold'
  BY <1>0, <1>3, <1>4, <1>5 DEF LeasesHold, Live
<1>8. StatusIsTrue'
  BY <1>0, <1>3, <1>4, <1>5 DEF StatusIsTrue
<1>9. ShortLeases'
  BY <1>0, <1>4, <1>5 DEF ShortLeases
<1>10. Held'
  <2>1. ASSUME NEW d \in Responses
        PROVE  HasLease(d)'
    <3>1. CASE response[d].stage = "idle"
      BY <1>0, <1>5, <3>1, StillHas
    <3>2. CASE response[d].stage # "idle" /\ response[d].artifact # a
      BY <1>0, <1>3, <1>4, <1>5, <3>2, StillHas, LeaseOf
    <3>3. CASE response[d].stage # "idle" /\ response[d].artifact = a
      <4>1. response[d].left = 0
        <5>1. response[d].left \in Nat
          BY <1>0, Typed
        <5>2. CASE response[d].left > 0
          <6>1. /\ leases[a][response[d].lease] # None /\ response[d].lease \in LeaseIds
                /\ leases[a][response[d].lease].left >= response[d].left
            BY <1>0, <3>3, <5>2, LeaseOf
          <6>2. leases[a][response[d].lease].left \in Int
            BY <1>0, <6>1, Typed
          <6>3. Live(a, response[d].lease, 0)
            BY <5>1, <5>2, <6>1, <6>2 DEF Live
          <6>. QED BY <1>1, <6>1, <6>3
        <5>. QED BY <5>1, <5>2
      <4>. QED BY <1>0, <1>3, <1>5, <3>3, <4>1, LeaseOf DEF HasLease
    <3>. QED BY <3>1, <3>2, <3>3
  <2>2. OneTransferEach'
    BY <1>0, <1>5, HeldParts DEF OneTransferEach
  <2>. QED BY <2>1, <2>2, HeldPartsNext
<1>11. Marked'
  <2>1. ASSUME NEW q \in Reclaimers, run'[q].stage = "remove"
        PROVE  run'[q].current \in Artifacts /\ state'[run'[q].current] \notin {"none", "active"}
    BY <1>0, <1>2, <1>3, <2>1 DEF Marked
  <2>2. ASSUME NEW b \in Artifacts, state'[b] \in {"reclaiming", "retry"}
        PROVE  left'[b] <= 0 \/ b \in released'
    BY <1>0, <1>3, <1>5, <2>2 DEF Marked
  <2>. QED BY <2>1, <2>2 DEF Marked
<1>12. Unpublished'
  BY <1>0, <1>3, <1>4 DEF Unpublished
<1>. QED BY <1>6, <1>7, <1>8, <1>9, <1>10, <1>11, <1>12 DEF Inductive

\* A process that dies, before or after the unlink, keeps the invariant.
LEMMA CrashKeeps ==
  ASSUME Inductive, NEW r \in Reclaimers, Crash(r)
  PROVE  Inductive'
<1>0. TypeOK /\ LeasesHold /\ StatusIsTrue /\ ShortLeases /\ Held /\ Marked /\ Unpublished
  BY DEF Inductive
<1>1. /\ run' \in [Reclaimers -> Runs] /\ run'[r].stage # "remove"
      /\ \A s \in Reclaimers : s # r => run'[s] = run[s]
  BY <1>0, RestingIsARun, RunMoves DEF Crash, Resting
<1>2. CASE UNCHANGED file
  BY <1>1, <1>2, OnlyRunKeeps DEF Crash
<1>3. CASE /\ run[r].stage = "remove" /\ Eligible(run[r].current, run[r].lag)
           /\ file' = file \ {run[r].current}
  <2> DEFINE a == run[r].current
  <2>1. a \in Artifacts /\ state[a] \notin {"none", "active"}
    BY <1>0, <1>3 DEF Marked
  <2>2. \A l \in LeaseIds : ~ Live(a, l, 0)
    BY <1>0, <1>3, <2>1, LagOf, EligibleMeans
  <2>3. file' = file \ {a} /\ UNCHANGED <<row, leases, response>>
    BY <1>3 DEF Crash
  <2>. HIDE DEF a
  <2>4. TypeOK'
    BY <1>0, <1>1, <2>3 DEF TypeOK, row
  <2>5. LeasesHold' /\ StatusIsTrue'
    BY <1>0, <2>1, <2>2, <2>3 DEF LeasesHold, Live, StatusIsTrue, row
  <2>6. ShortLeases' /\ Held' /\ Unpublished'
    BY <1>0, <2>3 DEF ShortLeases, Held, Unpublished, row
  <2>7. Marked'
    BY <1>0, <1>1, <2>3 DEF Marked, row
  <2>. QED BY <2>4, <2>5, <2>6, <2>7 DEF Inductive
<1>. QED BY <1>2, <1>3 DEF Crash

\* The invariant holds at first.
LEMMA InitHolds == Init => Inductive
<1>. SUFFICES ASSUME Init
     PROVE  Inductive
  OBVIOUS
<1>1. 0 \in Times /\ Forever \in Times
  BY Durations, ShortTimes
<1>2. state \in [Artifacts -> {"none", "active", "reclaiming", "retry", "reclaimed"}]
      /\ left \in [Artifacts -> Times] /\ retry \in [Artifacts -> Times]
      /\ onClose \in [Artifacts -> BOOLEAN] /\ released \in SUBSET Artifacts
      /\ failures \in [Artifacts -> 0 .. MaxFailures] /\ file \in SUBSET Artifacts
  BY <1>1, Durations DEF Init
<1>3. leases \in [Artifacts -> [LeaseIds -> Leases \cup {None}]]
  BY DEF Init
<1>4. response \in [Responses -> Transfers] /\ run \in [Reclaimers -> Runs]
  BY UnusedIsATransfer, RestingIsARun DEF Init
<1>5. TypeOK
  BY <1>2, <1>3, <1>4 DEF TypeOK
<1>6. \A a \in Artifacts, l \in LeaseIds : leases[a][l] = None
  BY DEF Init
<1>7. \A a \in Artifacts : state[a] = "none"
  BY DEF Init
<1>8. LeasesHold /\ StatusIsTrue /\ ShortLeases /\ Unpublished
  BY <1>6, <1>7 DEF LeasesHold, Live, StatusIsTrue, ShortLeases, Unpublished
<1>9. Held
  <2>1. \A d \in Responses : response[d] = Unused
    BY DEF Init
  <2>. QED BY <2>1 DEF Held, Unused
<1>10. Marked
  BY <1>7 DEF Marked, Init, Resting
<1>. QED BY <1>5, <1>8, <1>9, <1>10 DEF Inductive

\* Every step keeps the invariant.
LEMMA NextKeeps == Inductive /\ [Next]_vars => Inductive'
<1>. SUFFICES ASSUME Inductive, [Next]_vars
     PROVE  Inductive'
  OBVIOUS
<1>1. CASE Tick
  BY <1>1, TickKeeps
<1>2. CASE \E a \in Artifacts : Pages(a)
  <2>1. PICK a \in Artifacts : Pages(a)
    BY <1>2
  <2>2. CASE \E close \in BOOLEAN : Publish(a, close)
    BY <2>2, PublishKeeps
  <2>3. CASE \E v \in Viewers : View(a, v) \/ Close(a, v)
    BY <2>3, ViewKeeps, CloseKeeps
  <2>4. CASE \E c \in Claims : Claim(a, c)
    BY <2>4, ClaimKeeps
  <2>. QED BY <2>1, <2>2, <2>3, <2>4 DEF Pages
<1>3. CASE \E d \in Responses : Transfer(d)
  <2>1. PICK d \in Responses : Transfer(d)
    BY <1>3
  <2>2. CASE \E a \in Artifacts, l \in Claims \cup {d} : Download(a, d, l)
    BY <2>2, DownloadKeeps
  <2>3. CASE Renew(d)
    BY <2>3, RenewKeeps
  <2>4. CASE Sent(d)
    BY <2>4, SentKeeps
  <2>5. CASE ReleaseDownload(d)
    BY <2>5, ReleaseKeeps
  <2>6. CASE Lost(d)
    BY <2>6, LostKeeps
  <2>. QED BY <2>1, <2>2, <2>3, <2>4, <2>5, <2>6 DEF Transfer
<1>4. CASE \E r \in Reclaimers : Reclaim(r)
  <2>1. PICK r \in Reclaimers : Reclaim(r)
    BY <1>4
  <2>2. CASE Scan(r)
    BY <2>2, ScanKeeps
  <2>3. CASE Crash(r)
    BY <2>3, CrashKeeps
  <2>4. CASE \E a \in Artifacts :
               Mark(r, a) \/ Defer(r, a) \/ Remove(r, a) \/ RemoveFails(r, a)
    BY <2>4, MarkKeeps, DeferKeeps, RemoveKeeps, RemoveFailsKeeps
  <2>. QED BY <2>1, <2>2, <2>3, <2>4 DEF Reclaim
<1>5. CASE UNCHANGED vars
  BY <1>5 DEF vars, row, Inductive, TypeOK, LeasesHold, Live, StatusIsTrue, ShortLeases, Held,
              Marked, Unpublished
<1>. QED BY <1>1, <1>2, <1>3, <1>4, <1>5 DEF Next

\* The invariant always holds, whatever pages, transfers and reclaimers do.
THEOREM RetentionIsInductive == Spec => []Inductive
BY InitHolds, NextKeeps, PTL DEF Spec

\* LeasesHold: a valid lease keeps its export available and its file there
\* (_eligible and the locks of export_retention.py).
THEOREM LeasesAreHonoured == Spec => []LeasesHold
<1>1. Inductive => LeasesHold
  BY DEF Inductive
<1>. QED BY <1>1, RetentionIsInductive, PTL

\* TransferKeepsFile: a transfer finds its file until its last renewal runs
\* out (ExportFileResponse).
THEOREM TransfersKeepTheirFiles == Spec => []TransferKeepsFile
<1>1. Inductive => TransferKeepsFile
  <2>. SUFFICES ASSUME Inductive, NEW d \in Responses, response[d].left > 0
       PROVE  response[d].artifact \in file
    BY DEF TransferKeepsFile
  <2>0. TypeOK /\ LeasesHold /\ Held
    BY DEF Inductive
  <2>1. response[d].stage # "idle"
    BY <2>0 DEF Held, Unused
  <2> DEFINE a == response[d].artifact
             l == response[d].lease
  <2>2. /\ a \in Artifacts /\ l \in LeaseIds /\ leases[a][l] # None
        /\ leases[a][l].left >= response[d].left
    BY <2>0, <2>1, LeaseOf
  <2>3. leases[a][l].left \in Int /\ response[d].left \in Nat
    BY <2>0, <2>2, Typed
  <2>4. Live(a, l, 0)
    BY <2>2, <2>3 DEF Live
  <2>. QED BY <2>0, <2>2, <2>4 DEF LeasesHold
<1>. QED BY <1>1, RetentionIsInductive, PTL

\* StatusIsTrue: the row of an export says what is true of its file, also
\* after a crash (reclaim_exports).
THEOREM StatusStaysTrue == Spec => []StatusIsTrue
<1>1. Inductive => StatusIsTrue
  BY DEF Inductive
<1>. QED BY <1>1, RetentionIsInductive, PTL

\* Only two steps of a reclaimer take a file away.
LEMMA OnlyReclaimersRemove ==
  ASSUME [Next]_vars, NEW a \in file \ file'
  PROVE  \E r \in Reclaimers :
           \/ Remove(r, a)
           \/ /\ Crash(r) /\ run[r].stage = "remove" /\ run[r].current = a
              /\ Eligible(a, run[r].lag)
<1>1. CASE Tick
  BY <1>1 DEF Tick
<1>2. CASE \E b \in Artifacts : Pages(b)
  BY <1>2 DEF Pages, Publish, View, Close, Claim
<1>3. CASE \E d \in Responses : Transfer(d)
  BY <1>3 DEF Transfer, Download, Renew, Sent, ReleaseDownload, Lost
<1>4. CASE \E r \in Reclaimers : Reclaim(r)
  <2>1. PICK r \in Reclaimers : Reclaim(r)
    BY <1>4
  <2>2. CASE Scan(r)
    BY <2>2 DEF Scan
  <2>3. CASE Crash(r)
    BY <2>3 DEF Crash
  <2>4. CASE \E b \in Artifacts : Mark(r, b) \/ Defer(r, b) \/ RemoveFails(r, b)
    BY <2>4 DEF Mark, Defer, RemoveFails
  <2>5. CASE \E b \in Artifacts : Remove(r, b)
    BY <2>5 DEF Remove
  <2>. QED BY <2>1, <2>2, <2>3, <2>4, <2>5 DEF Reclaim
<1>5. CASE UNCHANGED vars
  BY <1>5 DEF vars
<1>. QED BY <1>1, <1>2, <1>3, <1>4, <1>5 DEF Next

\* RemovedInTurn: no file goes early, or under a valid lease
\* (reclaim_exports).
THEOREM RemovalsAreInTurn == Spec => RemovedInTurn
<1> DEFINE InTurn == \A a \in file \ file' :
             /\ left[a] <= 0 \/ a \in released
             /\ \A l \in LeaseIds : ~ Live(a, l, 0)
<1>1. Inductive /\ [Next]_vars => [InTurn]_vars
  <2>. SUFFICES ASSUME Inductive, [Next]_vars, NEW a \in file \ file'
       PROVE  /\ left[a] <= 0 \/ a \in released
              /\ \A l \in LeaseIds : ~ Live(a, l, 0)
    OBVIOUS
  <2>1. PICK r \in Reclaimers : Eligible(a, run[r].lag)
    BY OnlyReclaimersRemove DEF Remove
  <2>2. a \in Artifacts /\ run[r].lag \in 0 .. MaxRun
    BY LagOf DEF Inductive, TypeOK
  <2>. QED BY <2>1, <2>2, EligibleMeans
<1>2. Spec => [][InTurn]_vars
  BY <1>1, RetentionIsInductive, PTL DEF Spec
<1>. QED BY <1>2 DEF RemovedInTurn
=============================================================================
