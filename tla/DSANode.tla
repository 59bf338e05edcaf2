------------------------------ MODULE DSANode ------------------------------
(***************************************************************************)
(* A node of the broker itself, InMemoryDSANode, as the target of one      *)
(* requester link: it answers the requests of an envelope with one         *)
(* envelope, and reports its changes to those who asked for them.          *)
(***************************************************************************)
EXTENDS Updates, Integers, Sequences, FiniteSets, SequencesExt

CONSTANTS
  Rid,         \* request ids of the link: 1..n
  Answered     \* does its action return a result? (otherwise the call stays open)

ASSUME NodeAssumption == Answered \in BOOLEAN

VARIABLES
  nodeBox,   \* request envelopes on their way to the node
  rids,      \* open LISTs
  sids,      \* subscriptions
  version,   \* current value; 0 is null
  stamp      \* responses other than subscription rows sent so far

nodeVars == <<nodeBox, rids, sids, version, stamp>>

Request ==
  [kind : {"List", "Close", "Invoke"}, rid : Rid, sid : {0}]
  \cup [kind : {"Subscribe", "Unsubscribe"}, rid : Rid, sid : Sid]

(* A DSAResponse: rid 0 is a row for subscription sid; any other is        *)
(* numbered, to tell one from the other.                                   *)
Row(s, v)             == [rid |-> 0, sid |-> s, ver |-> v, closed |-> FALSE, no |-> 0]
Answer(r, closed, no) == [rid |-> r, sid |-> 0, ver |-> 0, closed |-> closed, no |-> no]

NodeTypeOK ==
  /\ nodeBox \in Seq(Seq(Request))
  /\ rids \subseteq Rid
  /\ sids \subseteq Sid
  /\ version \in 0..MaxVersion
  /\ stamp \in Nat

NodeInit ==
  /\ nodeBox = <<>>
  /\ rids = {}
  /\ sids = {}
  /\ version = 0
  /\ stamp = 0

(* handleRequest: the state of the node, and the responses so far.         *)
Handled(was, req) ==
  LET no == was.stamp + 1
      closed == [was EXCEPT !.stamp = no, !.out = Append(@, Answer(req.rid, TRUE, no))]
  IN CASE req.kind = "List" ->
            [was EXCEPT !.rids = @ \cup {req.rid}, !.stamp = no,
                        !.out = Append(@, Answer(req.rid, FALSE, no))]
       [] req.kind = "Close" -> [closed EXCEPT !.rids = @ \ {req.rid}]
       [] req.kind = "Invoke" ->
            [was EXCEPT !.stamp = no, !.out = Append(@, Answer(req.rid, Answered, no))]
       [] req.kind = "Subscribe" ->
            [closed EXCEPT !.sids = @ \cup {req.sid},
                           !.out = IF was.version = 0 THEN @ ELSE Append(@, Row(req.sid, was.version))]
       [] req.kind = "Unsubscribe" -> [closed EXCEPT !.sids = @ \ {req.sid}]

HandledAll(reqs) ==
  FoldLeft(Handled, [rids |-> rids, sids |-> sids, version |-> version, stamp |-> stamp,
                     out |-> <<>>], reqs)

(* onReceive: one envelope in, one envelope out.                           *)
NodeAnswer == HandledAll(Head(nodeBox)).out

NodeReceives ==
  /\ nodeBox # <<>>
  /\ LET after == HandledAll(Head(nodeBox)) IN
       /\ rids' = after.rids
       /\ sids' = after.sids
       /\ stamp' = after.stamp
  /\ nodeBox' = Tail(nodeBox)
  /\ UNCHANGED version

(* A new value, and an envelope with it for each subscription.             *)
ValueRows(v) == [i \in 1..Cardinality(sids) |-> <<Row(SetToSeq(sids)[i], v)>>]

NodeValue ==
  /\ version < MaxVersion
  /\ version' = version + 1
  /\ UNCHANGED <<nodeBox, rids, sids, stamp>>
=============================================================================
