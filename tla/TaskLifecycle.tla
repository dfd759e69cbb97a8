---------------------------- MODULE TaskLifecycle ----------------------------
(***************************************************************************)
(* What the task endpoints promise a user, with the worker hidden: a task  *)
(* that was admitted is pending until it is done, failed or cancelled; its *)
(* results are published exactly when it becomes done; done and cancelled  *)
(* are final and a failed task becomes pending only when the user retries. *)
(***************************************************************************)
EXTENDS Naturals

CONSTANT Tasks

VARIABLES
  outcome,  \* what the task list shows
  results   \* how often the results of a task were published

vars == <<outcome, results>>

Outcome == {"none", "pending", "done", "failed", "cancelled"}

TypeOK ==
  /\ outcome \in [Tasks -> Outcome]
  /\ results \in [Tasks -> Nat]

Init ==
  /\ outcome = [t \in Tasks |-> "none"]
  /\ results = [t \in Tasks |-> 0]

Move(t, from, to) ==
  /\ outcome[t] = from
  /\ outcome' = [outcome EXCEPT ![t] = to]

Submit(t) == Move(t, "none", "pending") /\ UNCHANGED results
Publish(t) ==
  /\ Move(t, "pending", "done")
  /\ results' = [results EXCEPT ![t] = @ + 1]
Resume(t) == Move(t, "failed", "pending") /\ UNCHANGED results

\* Stale recovery settles every stranded task of a scan in one transaction.
GiveUp(S, C) ==
  /\ \A t \in S \cup C : outcome[t] = "pending"
  /\ outcome' = [t \in Tasks |-> IF t \in S THEN "failed"
                                 ELSE IF t \in C THEN "cancelled"
                                 ELSE outcome[t]]
  /\ UNCHANGED results

Next ==
  \/ \E t \in Tasks : Submit(t) \/ Publish(t) \/ Resume(t)
  \/ \E S, C \in SUBSET Tasks : GiveUp(S, C)

\* A pending task does not stay pending for ever.
Settles == \A t \in Tasks : outcome[t] = "pending" ~> outcome[t] # "pending"

Spec == Init /\ [][Next]_vars
=============================================================================
