---------------------------- MODULE MCOfflineSync ----------------------------
(* Instances of OfflineSync for TLC. *)
EXTENDS OfflineSync, TLC

CONSTANTS note, book, a, b, x1, x2, x3, x4, r1, r2

\* Every edit has a field of its own, or there is one field.
OwnField == [x \in Edits |-> x]

\* Two edits change the blocks of the notebook, the others something else.
SharedField == [x \in Edits |-> IF x \in {x1, x2} THEN book ELSE x]

SharedSymmetric == Permutations({x1, x2}) \cup Permutations({x3, x4})
Symmetric == Permutations(Devices) \cup Permutations(Edits \ Invalid)
=============================================================================
