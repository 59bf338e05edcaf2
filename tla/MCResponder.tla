----------------------------- MODULE MCResponder -----------------------------
(* Instances of Responder for TLC: requesters r1, r2, sids 101, 102.       *)
EXTENDS Responder, TLC

CONSTANTS p1, p2

OnePath == [o \in Origin |-> p1]
(* Odd rids and sids name p1, even ones p2.                                *)
TwoPaths == [o \in Origin |-> IF o.id % 2 = 1 THEN p1 ELSE p2]
Symmetric == Permutations(Requester)
=============================================================================
