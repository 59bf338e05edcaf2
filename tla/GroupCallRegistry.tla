-------------------------- MODULE GroupCallRegistry --------------------------
(***************************************************************************)
(* Bindings of multi-recipient calls (GroupCallRegistry.scala).  The LIST  *)
(* and the SUBSCRIBE registry are two instances of one class, so the       *)
(* operators take the bindings b, a function from target ids to a          *)
(* GroupCallRecord or Nil.                                                 *)
(***************************************************************************)
EXTENDS Entities

(* What the endpoint streams: the payload is abstracted to its topic and a *)
(* version; closed is stream == Some(Closed).                              *)
Payload == [topic : Topic, ver : 0..MaxVersion, closed : BOOLEAN]

GroupCallRecord == [origins : SUBSET Origin, last : Payload \cup {Nil}]
Bindings == [Id -> GroupCallRecord \cup {Nil}]

(* None is not a record.                                                   *)
ASSUME GroupCallAssumption == Nil \notin GroupCallRecord

EmptyRecord == [origins |-> {}, last |-> Nil]
NoBindings == [k \in Id |-> Nil]

(* getOrInsert, the part that reads *)
RecordAt(b, tgt) == IF b[tgt] = Nil THEN EmptyRecord ELSE b[tgt]

(* getOrigins *)
OriginsAt(b, tgt) == RecordAt(b, tgt).origins

(* _bindings.find(_._2.origins contains origin): map order decides between *)
(* several, so every one of them is possible.                              *)
BindingsOf(b, origin) == {tgt \in Id : origin \in OriginsAt(b, tgt)}

(* Mutant: a new origin takes the record over.                             *)
WithOriginReplacing(b, tgt, origin) ==
  [b EXCEPT ![tgt] = [RecordAt(b, tgt) EXCEPT !.origins = {origin}]]

(* internalAddOrigin *)
WithOrigin(b, tgt, origin) ==
  [b EXCEPT ![tgt] = [RecordAt(b, tgt) EXCEPT !.origins = @ \cup {origin}]]

(* The handler of OriginRemoved: the record loses the origin, and the      *)
(* binding goes if it was found to be the last one when the event was made.*)
WithoutOrigin(b, tgt, origin, theLastOne) ==
  IF theLastOne THEN [b EXCEPT ![tgt] = Nil]
  ELSE IF b[tgt] = Nil THEN b
  ELSE [b EXCEPT ![tgt] = [b[tgt] EXCEPT !.origins = @ \ {origin}]]

(* Mutant: the first response is kept as the last one.                     *)
WithLastOnce(b, tgt, payload) ==
  [b EXCEPT ![tgt] = [RecordAt(b, tgt) EXCEPT !.last = IF @ = Nil THEN payload ELSE @]]

(* setLastResponse *)
WithLast(b, tgt, payload) ==
  [b EXCEPT ![tgt] = [RecordAt(b, tgt) EXCEPT !.last = payload]]

(* internalRemove *)
WithoutRecord(b, tgt) == [b EXCEPT ![tgt] = Nil]
=============================================================================
