---------------------------- MODULE MCLinkFolder ----------------------------
(* Instance of LinkFolder for TLC: two sockets of one link.                *)
EXTENDS LinkFolder

CONSTANTS n1, w1, w2

OneLink == [w \in Socket |-> n1]
=============================================================================
