------------------------- MODULE MCAttachmentObjects -------------------------
(* Instances of AttachmentObjects for TLC. *)
EXTENDS AttachmentObjects

CONSTANTS c1, c2, u1, u2, r1, r2, bytes, alice, bob

OwnerOf == [c \in Conversations |-> IF c = c1 THEN alice ELSE bob]
HomeOf == [u \in Uploads |-> IF u = u1 THEN c1 ELSE c2]
SameContent == [u \in Uploads |-> bytes]
TargetOf == [r \in Requests |-> IF r = r1 THEN c1 ELSE c2]
=============================================================================
