-------------------------- MODULE MCDurableResponder --------------------------
(* Instances of DurableResponder for TLC.                                  *)
EXTENDS DurableResponder, TLC

CONSTANTS p1, p2

OnePath == [o \in Origin |-> p1]
Symmetric == Permutations(Requester)
=============================================================================
