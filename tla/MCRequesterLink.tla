--------------------------- MODULE MCRequesterLink ---------------------------
(* Instances of RequesterLink for TLC.                                     *)
EXTENDS RequesterLink

CONSTANTS me, w1, w2

ToMe == [w \in Socket |-> me]
Mixed == [s \in Sid |-> IF s = 1 THEN Durable ELSE 0]
AllDurable == [s \in Sid |-> Durable]
=============================================================================
