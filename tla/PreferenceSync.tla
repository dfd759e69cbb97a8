---------------------------- MODULE PreferenceSync ----------------------------
(***************************************************************************)
(* Account preferences: every browser of an account keeps a copy of the    *)
(* server's fields, the choices the user made that the server has not      *)
(* confirmed, and at most one request in flight, all of it in IndexedDB,   *)
(* so that it survives the tab.  The server keeps one revision per field   *)
(* and one receipt per request it has answered.                            *)
(*                                                                         *)
(* One endpoint call is one step (an advisory lock per account), and so is *)
(* one Dexie transaction.  The tabs of a browser share its database; their *)
(* flushes exclude each other only where navigator.locks exists, which it  *)
(* does not when the site is served over plain HTTP.                       *)
(*                                                                         *)
(* A request that arrives when its receipt exists changes nothing, and one *)
(* without a receipt is still the browser's flight: so requests that are   *)
(* delayed or repeated need no channel, the server may process the flight  *)
(* at any time.  What the database holds is on the screen (liveQuery).     *)
(*                                                                         *)
(* Left out: the delay between retries, rejections (400, 409, 422), which  *)
(* requests built from validated values never get, and choices a failing   *)
(* IndexedDB could not store.                                              *)
(***************************************************************************)
EXTENDS Naturals, Sequences, SequencesExt, FiniteSets

CONSTANTS
  Devices,      \* browsers of the account
  Tabs,         \* tabs of each browser
  Locking,      \* browsers that have navigator.locks
  Fields,       \* PREFERENCE_FIELDS
  Values,       \* values of a field
  Default,      \* the value of a field that was never set
  None,
  MaxAttempts,  \* failed attempts after which a flush waits for the user
  MaxChoices,   \* bound: choices and resolutions per browser
  MaxRevision   \* bound: other clients write while a field is below it

\* A pending choice, made against a revision, and a request.
Changes == [value : Values, base : Nat, seq : Nat]
Flights == [id : Nat \ {0}, sent : [Fields -> Changes \cup {None}]]

ASSUME PreferenceAssumption ==
  /\ Locking \subseteq Devices
  /\ Default \in Values
  /\ None \notin Devices
  /\ None \notin Changes /\ None \notin Flights /\ None \notin [Fields -> Nat]
  /\ MaxAttempts \in Nat \ {0}
  /\ MaxChoices \in Nat \ {0}
  /\ MaxRevision \in Nat

VARIABLES
  history,    \* history[f]: the values of field f, by revision
  receipts,   \* receipts[d][n]: the answer to the n-th request of d
  cache,      \* cache[d][f]: revision of the server's value d knows
  changes,    \* choices not confirmed by the server
  conflicts,  \* fields whose choice the server refused
  flight,     \* the request d is sending, until it is answered
  sequence,   \* numbers the choices of d
  attempts,   \* failed flushes in a row
  error,      \* why the last flush failed
  sync,       \* sync[d][t]: the flush tab t is running
  wish,       \* history: the number of the user's last choice, 0 if none
  accepted,   \* history: numbers of the choices the server has applied
  shown       \* history: revisions of a field the user of d has seen

server == <<history, receipts, accepted>>
stored == <<cache, changes, conflicts, flight, sequence, attempts, error>>
vars == <<server, stored, sync, wish, shown>>

Inputs == UNION {[F -> Values] : F \in (SUBSET Fields) \ {{}}}
Idle == [stage |-> "idle", fresh |-> None, request |-> None]

Revision(f) == Len(history[f])
Revisions == [f \in Fields |-> Revision(f)]
Cached(d, f) == history[f][cache[d][f]].value
Ready(d) == cache[d] # None
Sent(d, f) == flight[d] # None /\ flight[d].sent[f] # None

\* What the user of d has on the screen after a step: the server's value of
\* a field without a pending choice, or beside it if they conflict.
See(d, more) ==
  shown' = [shown EXCEPT ![d] = [f \in Fields |-> @[f] \cup more[f] \cup
    (IF changes'[d][f] = None \/ f \in conflicts'[d] THEN {cache'[d][f]} ELSE {})]]
NothingMore == [f \in Fields |-> {}]

-----------------------------------------------------------------------------
(* The user. *)

\* initializePreferenceState: the copy starts from the preferences the page
\* was rendered with, and takes over settings of this device made before
\* there were accounts.
Initialize(d, revisions, legacy) ==
  /\ ~Ready(d)
  /\ \A f \in Fields : revisions[f] \in 1 .. Revision(f)
  /\ LET moved == {f \in DOMAIN legacy :
                     legacy[f] # history[f][revisions[f]].value}
     IN /\ cache' = [cache EXCEPT ![d] = revisions]
        /\ changes' = [changes EXCEPT ![d] = [f \in Fields |->
             IF f \notin moved THEN None
             ELSE [value |-> legacy[f], base |-> revisions[f], seq |-> 1]]]
        /\ wish' = [wish EXCEPT ![d] = [f \in Fields |->
             IF f \in moved THEN 1 ELSE 0]]
        /\ sequence' = [sequence EXCEPT ![d] = IF moved = {} THEN 0 ELSE 1]
  /\ UNCHANGED <<server, conflicts, flight, attempts, error, sync>>
  /\ See(d, [f \in Fields |-> {revisions[f]}])

\* Mutant: a value equal to the cached one withdraws what is being sent.
WithdrawnSent(d, f, v) == v = Cached(d, f)

\* Back to the server's value: there is nothing to send.
Withdrawn(d, f, v) == v = Cached(d, f) /\ ~Sent(d, f)

\* queuePreferenceChanges.  The fields of one call get one number: numbers
\* are only compared within a field.
Choose(d, input) ==
  /\ Ready(d)
  /\ sequence[d] < MaxChoices
  /\ LET back == {f \in DOMAIN input : Withdrawn(d, f, input[f])}
         new == DOMAIN input \ back
         seq == sequence[d] + 1
     IN /\ changes' = [changes EXCEPT ![d] = [f \in Fields |->
             IF f \in back THEN None
             ELSE IF f \in new
             THEN [value |-> input[f], seq |-> seq, base |->
                     IF @[f] = None THEN cache[d][f] ELSE @[f].base]
             ELSE @[f]]]
        /\ wish' = [wish EXCEPT ![d] = [f \in Fields |->
             IF f \in back THEN 0 ELSE IF f \in new THEN seq ELSE @[f]]]
        /\ conflicts' = [conflicts EXCEPT ![d] = @ \ back]
        /\ sequence' = [sequence EXCEPT ![d] = IF new = {} THEN @ ELSE seq]
  /\ attempts' = [attempts EXCEPT ![d] = 0]
  /\ error' = [error EXCEPT ![d] = None]
  /\ UNCHANGED <<server, cache, flight, sync>>
  /\ See(d, NothingMore)

\* resolvePreferenceConflict, for the revision and the choice on the screen.
\* The screen offers it for conflicts only.
Resolve(d, f, choice) ==
  /\ f \in conflicts[d]
  /\ changes[d][f] # None
  /\ flight[d] = None
  /\ choice = "local" => sequence[d] < MaxChoices
  /\ IF choice = "server"
     THEN /\ changes' = [changes EXCEPT ![d][f] = None]
          /\ wish' = [wish EXCEPT ![d][f] = 0]
          /\ UNCHANGED sequence
     ELSE /\ changes' = [changes EXCEPT ![d][f] =
                          [@ EXCEPT !.base = cache[d][f], !.seq = sequence[d] + 1]]
          /\ wish' = [wish EXCEPT ![d][f] = sequence[d] + 1]
          /\ sequence' = [sequence EXCEPT ![d] = @ + 1]
  /\ conflicts' = [conflicts EXCEPT ![d] = @ \ {f}]
  /\ error' = [error EXCEPT ![d] = None]
  /\ attempts' = [attempts EXCEPT ![d] = 0]
  /\ UNCHANGED <<server, cache, flight, sync>>
  /\ See(d, NothingMore)

-----------------------------------------------------------------------------
(* The server. *)

\* _apply: only a new value is a new revision.
Written(f, value, by) ==
  IF Last(history[f]).value = value THEN history[f]
  ELSE Append(history[f], [value |-> value, by |-> by])

\* PATCH /api/preferences, which compares no revision.
Patch(input) ==
  /\ \A f \in DOMAIN input : Revision(f) < MaxRevision
  /\ history' = [f \in Fields |->
       IF f \in DOMAIN input THEN Written(f, input[f], None) ELSE history[f]]
  /\ UNCHANGED <<receipts, accepted, stored, sync, wish, shown>>

Known(d) == flight[d].id \in DOMAIN receipts[d]

\* A choice made against another revision is refused, field by field, unless
\* it is what the field says anyway.
Refused(d, f) ==
  LET change == flight[d].sent[f]
  IN change.base # Revision(f) /\ change.value # Last(history[f]).value

\* sync_preferences
Serve(d) ==
  /\ flight[d] # None
  /\ IF Known(d) THEN UNCHANGED server
     ELSE LET clashes == {f \in Fields : Sent(d, f) /\ Refused(d, f)}
              applied == {f \in Fields : Sent(d, f)} \ clashes
          IN /\ history' = [f \in Fields |->
                  IF f \in applied THEN Written(f, flight[d].sent[f].value, d)
                  ELSE history[f]]
             /\ receipts' = [receipts EXCEPT ![d] = Append(@,
                  [revisions |-> [f \in Fields |-> Len(history'[f])],
                   clashes |-> clashes])]
             /\ accepted' = [accepted EXCEPT ![d] = [f \in Fields |->
                  IF f \in applied THEN @[f] \cup {flight[d].sent[f].seq} ELSE @[f]]]
  /\ UNCHANGED <<stored, sync, wish, shown>>

-----------------------------------------------------------------------------
(* flushPreferenceSync in a tab. *)

Stage(d, t, stage) == sync' = [sync EXCEPT ![d][t] = [@ EXCEPT !.stage = stage]]

Allowed(d, retry) == retry \/ (attempts[d] < MaxAttempts /\ error[d] # "AUTH")

Start(d, t, refresh, retry) ==
  /\ Ready(d)
  /\ sync[d][t] = Idle
  /\ d \in Locking => \A u \in Tabs : sync[d][u] = Idle
  /\ Allowed(d, retry)
  /\ attempts' = [attempts EXCEPT ![d] = IF retry THEN 0 ELSE @]
  /\ error' = [error EXCEPT ![d] = IF retry THEN None ELSE @]
  /\ Stage(d, t, IF refresh /\ flight[d] = None THEN "refresh" ELSE "depart")
  /\ UNCHANGED <<server, cache, changes, conflicts, flight, sequence, wish, shown>>

\* GET /api/preferences
Fetch(d, t) ==
  /\ sync[d][t].stage = "refresh"
  /\ sync' = [sync EXCEPT ![d][t] =
       [Idle EXCEPT !.stage = "merge", !.fresh = Revisions]]
  /\ UNCHANGED <<server, stored, wish, shown>>

\* Mutant: whatever arrives replaces the copy.
NewestLast(known, fresh) == fresh

\* mergeServer: an older answer does not replace a newer one.
Newest(known, fresh) ==
  [f \in Fields |-> IF fresh[f] < known[f] THEN known[f] ELSE fresh[f]]

\* Mutant: pending choices are moved onto the revision that was fetched.
RebasedOnto(change, revision) ==
  IF change = None THEN None ELSE [change EXCEPT !.base = revision]

\* Choices keep the revision they were made against.
Rebased(change, revision) == change

Merge(d, t) ==
  /\ sync[d][t].stage = "merge"
  /\ LET clean == \A f \in Fields : changes[d][f] = None
     IN /\ cache' = [cache EXCEPT ![d] = Newest(@, sync[d][t].fresh)]
        /\ changes' = [changes EXCEPT ![d] =
             [f \in Fields |-> Rebased(@[f], cache'[d][f])]]
        /\ error' = [error EXCEPT ![d] = IF clean THEN None ELSE @]
        /\ attempts' = [attempts EXCEPT ![d] = IF clean THEN 0 ELSE @]
  /\ sync' = [sync EXCEPT ![d][t] = [Idle EXCEPT !.stage = "depart"]]
  /\ UNCHANGED <<server, conflicts, flight, sequence, wish>>
  /\ See(d, NothingMore)

\* Mutant: the identifier of the last request is used again.
NewIdReused(d) == Len(receipts[d])

\* A new uuid.
NewId(d) == Len(receipts[d]) + 1

\* Every choice that is not in conflict.
NewRequest(d) ==
  [id |-> NewId(d),
   sent |-> [f \in Fields |-> IF f \in conflicts[d] THEN None ELSE changes[d][f]]]

\* Mutant: a flight is left to the tab that sent it.
RequestOnce(d) ==
  IF flight[d] # None THEN [flight[d] EXCEPT !.sent = [f \in Fields |-> None]]
  ELSE NewRequest(d)

\* Mutant: a flight is sent again under a new identifier.
RequestAnew(d) ==
  IF flight[d] # None THEN [flight[d] EXCEPT !.id = NewId(d)] ELSE NewRequest(d)

\* The flight of an earlier flush is sent again as it was.
Request(d) == IF flight[d] # None THEN flight[d] ELSE NewRequest(d)

Depart(d, t) ==
  /\ sync[d][t].stage = "depart"
  /\ IF \A f \in Fields : Request(d).sent[f] = None
     THEN /\ sync' = [sync EXCEPT ![d][t] = Idle]
          /\ UNCHANGED flight
     ELSE /\ sync' = [sync EXCEPT ![d][t] =
               [Idle EXCEPT !.stage = "send", !.request = Request(d)]]
          /\ flight' = [flight EXCEPT ![d] = Request(d)]
  /\ UNCHANGED <<server, cache, changes, conflicts, sequence, attempts, error, wish, shown>>

\* Mutant: whatever is pending is deleted with the answered choice.
ConfirmedAlways(d, f) == TRUE

\* The user has not chosen again since the request departed.
Confirmed(d, f) == changes[d][f].seq = flight[d].sent[f].seq

\* Is the request of this tab still the one in flight?
Current(d, t) == flight[d] # None /\ flight[d].id = sync[d][t].request.id

Acknowledge(d, t) ==
  /\ sync[d][t].stage = "send"
  /\ sync[d][t].request.id \in DOMAIN receipts[d]
  /\ Current(d, t)
  /\ LET answer == receipts[d][sync[d][t].request.id]
         returned == {f \in Fields : Sent(d, f) /\ changes[d][f] # None}
         done == {f \in returned \ answer.clashes : Confirmed(d, f)}
     IN /\ cache' = [cache EXCEPT ![d] = Newest(@, answer.revisions)]
        /\ conflicts' = [conflicts EXCEPT ![d] =
             (@ \cup (returned \cap answer.clashes)) \ done]
        /\ changes' = [changes EXCEPT ![d] = [f \in Fields |->
             IF f \in done THEN None
             ELSE IF f \in returned \ answer.clashes
             THEN [@[f] EXCEPT !.base = answer.revisions[f]]
             ELSE @[f]]]
        /\ See(d, [f \in Fields |-> IF f \in returned \ answer.clashes
                                    THEN {answer.revisions[f]} ELSE {}])
  /\ flight' = [flight EXCEPT ![d] = None]
  /\ error' = [error EXCEPT ![d] = None]
  /\ attempts' = [attempts EXCEPT ![d] = 0]
  /\ sync' = [sync EXCEPT ![d][t] = Idle]
  /\ UNCHANGED <<server, sequence, wish>>

\* A timeout, a lost answer, an expired session, or the answer to a request
\* that another tab has already acknowledged.
Fail(d, t, why) ==
  /\ sync[d][t].stage \in {"refresh", "send"}
  /\ attempts' = [attempts EXCEPT ![d] = IF @ < MaxAttempts THEN @ + 1 ELSE @]
  /\ error' = [error EXCEPT ![d] = why]
  /\ sync' = [sync EXCEPT ![d][t] = Idle]
  /\ UNCHANGED <<server, cache, changes, conflicts, flight, sequence, wish, shown>>

\* Everything but the running flush is in the database.
CloseTab(d, t) ==
  /\ sync[d][t] # Idle
  /\ sync' = [sync EXCEPT ![d][t] = Idle]
  /\ UNCHANGED <<server, stored, wish, shown>>

-----------------------------------------------------------------------------
Init ==
  /\ history = [f \in Fields |-> <<[value |-> Default, by |-> None]>>]
  /\ receipts = [d \in Devices |-> <<>>]
  /\ cache = [d \in Devices |-> None]
  /\ changes = [d \in Devices |-> [f \in Fields |-> None]]
  /\ conflicts = [d \in Devices |-> {}]
  /\ flight = [d \in Devices |-> None]
  /\ sequence = [d \in Devices |-> 0]
  /\ attempts = [d \in Devices |-> 0]
  /\ error = [d \in Devices |-> None]
  /\ sync = [d \in Devices |-> [t \in Tabs |-> Idle]]
  /\ wish = [d \in Devices |-> [f \in Fields |-> 0]]
  /\ accepted = [d \in Devices |-> [f \in Fields |-> {}]]
  /\ shown = [d \in Devices |-> [f \in Fields |-> {}]]

User(d) ==
  \/ \E revisions \in [Fields -> UNION {1 .. Revision(f) : f \in Fields}],
        legacy \in Inputs \cup {<<>>} : Initialize(d, revisions, legacy)
  \/ \E input \in Inputs : Choose(d, input)
  \/ \E f \in Fields, choice \in {"local", "server"} : Resolve(d, f, choice)

Flush(d, t) ==
  \/ \E refresh, retry \in BOOLEAN : Start(d, t, refresh, retry)
  \/ Fetch(d, t) \/ Merge(d, t) \/ Depart(d, t) \/ Acknowledge(d, t)
  \/ \E why \in {"NETWORK", "AUTH"} : Fail(d, t, why)
  \/ CloseTab(d, t)

Next ==
  \/ \E d \in Devices : User(d) \/ Serve(d) \/ \E t \in Tabs : Flush(d, t)
  \/ \E input \in Inputs : Patch(input)

Spec == Init /\ [][Next]_vars

-----------------------------------------------------------------------------
(* Properties. *)

Answers == [revisions : [Fields -> Nat], clashes : SUBSET Fields]
Syncs == [stage : {"idle", "refresh", "merge", "depart", "send"},
          fresh : [Fields -> Nat] \cup {None}, request : Flights \cup {None}]

\* The types of the server's rows, of the record a browser stores and of the
\* flushes its tabs run; what a tab knows depends on how far it has got.
TypeOK ==
  /\ history \in [Fields -> Seq([value : Values, by : Devices \cup {None}]) \ {<<>>}]
  /\ receipts \in [Devices -> Seq(Answers)]
  /\ accepted \in [Devices -> [Fields -> SUBSET Nat]]
  /\ cache \in [Devices -> [Fields -> Nat] \cup {None}]
  /\ changes \in [Devices -> [Fields -> Changes \cup {None}]]
  /\ conflicts \in [Devices -> SUBSET Fields]
  /\ flight \in [Devices -> Flights \cup {None}]
  /\ sequence \in [Devices -> Nat]
  /\ attempts \in [Devices -> 0 .. MaxAttempts]
  /\ error \in [Devices -> {None, "NETWORK", "AUTH"}]
  /\ sync \in [Devices -> [Tabs -> Syncs]]
  /\ wish \in [Devices -> [Fields -> Nat]]
  /\ shown \in [Devices -> [Fields -> SUBSET Nat]]

\* A browser without a stored state has sent and decided nothing.
Untouched ==
  \A d \in Devices : ~Ready(d) =>
    sequence[d] = 0 /\ flight[d] = None /\ conflicts[d] = {}

\* What a tab holds at each stage; the request in flight is the one the
\* server answers next, or the one it has answered last.
Stages ==
  /\ \A d \in Devices, t \in Tabs :
       /\ sync[d][t].stage # "idle" => Ready(d)
       /\ sync[d][t].stage = "merge" => sync[d][t].fresh # None
       /\ sync[d][t].stage = "send" => sync[d][t].request # None
  /\ \A d \in Devices : flight[d] # None =>
       flight[d].id \in {Len(receipts[d]), Len(receipts[d]) + 1}

\* The last choice is the pending one, or has been withdrawn or applied.
Tracked(d, f) ==
  IF changes[d][f] = None THEN wish[d][f] \in {0} \cup accepted[d][f]
  ELSE wish[d][f] = changes[d][f].seq

\* Numbers are handed out once.
Numbered(d, f) ==
  /\ accepted[d][f] \subseteq 1 .. sequence[d]
  /\ changes[d][f] # None => changes[d][f].seq \in 1 .. sequence[d]
  /\ Sent(d, f) => flight[d].sent[f].seq \in 1 .. sequence[d]

\* What is sent is still pending, though perhaps chosen anew, and not in
\* conflict.
SentIsPending(d, f) ==
  /\ Sent(d, f) => changes[d][f] # None /\ f \notin conflicts[d]
  /\ f \in conflicts[d] => changes[d][f] # None

\* The answer to the flight says what the server did, and a pending choice
\* has been applied only if that answer is on its way.
AnswerIsTrue(d, f) ==
  /\ Sent(d, f) /\ Known(d) /\ f \notin receipts[d][flight[d].id].clashes =>
       flight[d].sent[f].seq \in accepted[d][f]
  /\ changes[d][f] # None /\ changes[d][f].seq \in accepted[d][f] =>
       /\ Sent(d, f) /\ Known(d)
       /\ flight[d].sent[f].seq = changes[d][f].seq
       /\ f \notin receipts[d][flight[d].id].clashes

\* Bases are revisions the user has seen.
BasesSeen(d, f) ==
  /\ changes[d][f] # None => changes[d][f].base \in shown[d][f]
  /\ Sent(d, f) => flight[d].sent[f].base \in shown[d][f]
  /\ Ready(d) /\ (changes[d][f] = None \/ f \in conflicts[d]) =>
       cache[d][f] \in shown[d][f]

Linked(d, f) ==
  /\ Tracked(d, f) /\ Numbered(d, f) /\ SentIsPending(d, f)
  /\ AnswerIsTrue(d, f) /\ BasesSeen(d, f)

\* What a browser stores is tied to what the server has answered; none of the
\* properties below is inductive without it.
Inductive ==
  /\ TypeOK /\ Untouched /\ Stages
  /\ \A d \in Devices, f \in Fields : Linked(d, f)

\* No choice is lost: the last choice a user made for a field waits in the
\* browser under its own number or has been applied by the server, whatever
\* answers were lost, tabs closed or choices made while a request was under
\* way (queuePreferenceChanges, the acknowledgement of flushPreferenceSync).
NoChoiceLost ==
  \A d \in Devices, f \in Fields : wish[d][f] # 0 =>
    \/ changes[d][f] # None /\ changes[d][f].seq = wish[d][f]
    \/ wish[d][f] \in accepted[d][f]

\* A browser replaces only revisions its user has seen: a value that another
\* client wrote and this screen has not shown is reported as a conflict and
\* never overwritten, although fetched revisions arrive at any time
\* (base_revisions in sync_preferences, mergeServer).
NoBlindOverwrite ==
  \A f \in Fields : \A i \in DOMAIN history[f] :
    history[f][i].by # None => i - 1 \in shown[history[f][i].by][f]

\* A retried choice does not conflict with itself: what the user is asked to
\* decide has not been applied already (the receipts of sync_preferences).
NoFalseConflict ==
  \A d \in Devices : \A f \in conflicts[d] :
    changes[d][f] # None /\ changes[d][f].seq \notin accepted[d][f]

\* The copy of the server's fields never goes back to an older revision,
\* though answers of two tabs may be merged in any order (mergeServer).
CacheNeverRollsBack ==
  [][\A d \in Devices, f \in Fields :
       Ready(d) => cache'[d][f] >= cache[d][f]]_vars

\* Fairness: the page's timer, its focus events and the user's retry start
\* flushes, the server processes requests, and of reads, answers and local
\* transactions that are tried again and again some get through.
Fairness ==
  \A d \in Devices :
    /\ WF_vars(Serve(d))
    /\ \A t \in Tabs :
         /\ WF_vars(\E refresh, retry \in BOOLEAN : Start(d, t, refresh, retry))
         /\ SF_vars(Fetch(d, t)) /\ SF_vars(Merge(d, t))
         /\ SF_vars(Depart(d, t)) /\ SF_vars(Acknowledge(d, t))

LiveSpec == Spec /\ Fairness

\* Every choice is settled in the end: nothing stays in flight, and what is
\* still pending is in conflict and waits for the user.
ChoicesSettle ==
  <>[](\A d \in Devices :
         /\ flight[d] = None
         /\ \A f \in Fields : changes[d][f] # None => f \in conflicts[d])
=============================================================================
