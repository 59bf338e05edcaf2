----------------------------- MODULE Durable_proofs -----------------------------
(***************************************************************************)
(* Proofs about DurableResponder: the journal alone tells everything a     *)
(* link actor knows, a restart hands out no SID again, every listener can  *)
(* be found, and subscribers notice nothing of a restart that Multicast    *)
(* would not let them notice.                                              *)
(*                                                                         *)
(* The invariant relates three things: what the journal without the queued *)
(* events tells, the registries in memory, which agree with it, and the    *)
(* queued events, each of which fits what the ones before it lead to.  A   *)
(* step of a persist handler and a step of the replay then go side by      *)
(* side, and a restart jumps to the end.                                   *)
(***************************************************************************)
EXTENDS DurableResponder, Subscribers_proofs

Replay == INSTANCE Folding WITH Op <- Restored

------------------------------------------------------------------------------
(* What is recovered, and what is still to be done to it                   *)

(* What a link actor recovers is one of these.                             *)
Image ==
  [ridCount : Nat \ {0}, byTarget : [Id -> LookupRecord \cup {Nil}],
   byOrigin : [RidOrigin -> LookupRecord \cup {Nil}],
   byPath : [Path -> LookupRecord \cup {Nil}],
   sidCount : Nat \ {0}, sidByPath : [Path -> Id \cup {Nil}],
   pathBySid : [Id -> Path \cup {Nil}],
   list : Bindings, subs : Bindings, ok : BOOLEAN]

(* Both RID maps know a LIST record, by its id and by its path.            *)
RidsMatch(v) ==
  /\ \A k \in Id : v.byTarget[k] # Nil =>
       /\ v.byTarget[k].targetId = k
       /\ v.byTarget[k].path # Nil => v.byPath[v.byTarget[k].path] = v.byTarget[k]
  /\ \A p \in Path : v.byPath[p] # Nil =>
       /\ v.byPath[p].path = p
       /\ v.byTarget[v.byPath[p].targetId] = v.byPath[p]

(* Both SID maps know a path and its SID.                                  *)
SidsMatch(v) ==
  /\ \A s \in Id : v.pathBySid[s] # Nil => v.sidByPath[v.pathBySid[s]] = s
  /\ \A p \in Path : v.sidByPath[p] # Nil => v.pathBySid[v.sidByPath[p]] = p

(* Whoever listens does so under an id that stands for its path.           *)
ListenersMatch(v) ==
  \A k \in Id :
    /\ \A o \in OriginsAt(v.list, k) :
         o \in RidOrigin /\ v.byTarget[k] # Nil /\ v.byTarget[k].path = PathOf[o]
    /\ \A o \in OriginsAt(v.subs, k) : o \in SidOrigin /\ v.pathBySid[k] = PathOf[o]

Sound(v) ==
  /\ v \in Image
  /\ v.ok
  /\ RidsMatch(v)
  /\ SidsMatch(v)
  /\ ListenersMatch(v)

Told(v, reg) == IF reg = "LIST" THEN v.list ELSE v.subs

(* The event e may be next after what v was recovered from.                *)
Expected(v, e) ==
  /\ e \in Event
  /\ e.type = "RidSaved" =>
       /\ v.byTarget[e.record.targetId] = Nil
       /\ e.record.path # Nil => v.byPath[e.record.path] = Nil
  /\ e.type = "RidRemoved" =>
       /\ v.byTarget[e.record.targetId] = e.record
       /\ OriginsAt(v.list, e.record.targetId) = {}
  /\ e.type = "SidSaved" => v.sidByPath[e.path] = Nil /\ v.pathBySid[e.tgt] = Nil
  /\ e.type = "SidRemoved" => v.pathBySid[e.tgt] # Nil /\ OriginsAt(v.subs, e.tgt) = {}
  /\ e.type = "OriginAdded" =>
       IF e.reg = "LIST"
       THEN /\ e.origin \in RidOrigin
            /\ v.byTarget[e.tgt] # Nil /\ v.byTarget[e.tgt].path = PathOf[e.origin]
       ELSE e.origin \in SidOrigin /\ v.pathBySid[e.tgt] = PathOf[e.origin]
  /\ e.type = "OriginRemoved" =>
       /\ e.origin \in OriginsAt(Told(v, e.reg), e.tgt)
       /\ e.theLastOne <=> OriginsAt(Told(v, e.reg), e.tgt) = {e.origin}

(* The events q may be next, one after the other.                          *)
Expecting(v, q) ==
  /\ Len(q) <= 3
  /\ Len(q) >= 1 => Expected(v, q[1])
  /\ Len(q) >= 2 => Expected(Restored(v, q[1]), q[2])
  /\ Len(q) >= 3 => Expected(Restored(Restored(v, q[1]), q[2]), q[3])

(* The registries in memory tell the same as v.                            *)
Agrees(v) ==
  /\ v.byTarget = callsByTargetId
  /\ v.byOrigin = callsByOrigin
  /\ v.byPath = callsByPath
  /\ v.sidByPath = sidByPath
  /\ v.pathBySid = pathBySid
  /\ \A k \in Id : /\ OriginsAt(v.list, k) = OriginsAt(listBindings, k)
                   /\ OriginsAt(v.subs, k) = OriginsAt(subsBindings, k)

(* The target ids that v or q speak of.                                    *)
RidsIn(v, q) ==
  {k \in Id : \/ v.byTarget[k] # Nil
              \/ \E i \in 1..Len(q) : q[i].type = "RidSaved" /\ q[i].record.targetId = k}
SidsIn(v, q) ==
  {s \in Id : \/ v.pathBySid[s] # Nil
              \/ \E i \in 1..Len(q) : q[i].type = "SidSaved" /\ q[i].tgt = s}

(* No counter passes this, in memory or recovered.                         *)
CountBound == MaxId * (MaxId + 1) + 1

(* A counter c and what it would be recovered as.                          *)
Ahead(c, recovered) ==
  /\ c <= CountBound
  /\ recovered <= CountBound
  /\ recovered <= c * c

(* The counters are past every id in use, and would still be if recovered. *)
CountersAhead(v) ==
  /\ Ahead(ridCount, Recovered.ridCount)
  /\ Ahead(sidCount, Recovered.sidCount)
  /\ \A k \in RidsIn(v, events) : k < ridCount /\ k < Recovered.ridCount
  /\ \A s \in SidsIn(v, events) : sidTopic[s] # Nil
  /\ \A s \in Id : sidTopic[s] # Nil => s < sidCount /\ s < Recovered.sidCount

(* v is what the journal without the queued events tells: the registries   *)
(* in memory agree with it, and the queued events fit it.                  *)
Following(v) ==
  /\ Sound(v)
  /\ Agrees(v)
  /\ Expecting(v, events)
  /\ Recovered = Replay!Fold(v, events)
  /\ CountersAhead(v)

DInv ==
  /\ Typed
  /\ OneByOne
  /\ ~failed
  /\ snapshot = Nil
  /\ journal \in Seq(Event)
  /\ ordered # Nil => /\ ordered.upTo \in 0..Len(journal)
                      /\ ordered.list \cup ordered.subs \subseteq Id
  /\ \E v : Following(v)

------------------------------------------------------------------------------
(* The counters                                                            *)

(* MaxId ids do not take a counter round to its start.                     *)
NoWrap == MaxInt \in Nat /\ CountBound <= MaxInt

(* IntCounter.inc(count) without a wrap adds.                              *)
LEMMA IncByAdds ==
  ASSUME MaxInt \in Nat, NEW value \in Nat \ {0}, NEW count \in Nat \ {0}
  PROVE  /\ IncBy(value, count) \in Nat \ {0}
         /\ value + count <= MaxInt => IncBy(value, count) = value + count
  BY DEF IncBy

(* A fresh id, if it is saved, keeps the recovered counter in its bounds   *)
(* and past the id; the counter in memory keeps ahead.                     *)
LEMMA AheadWhenSaved ==
  ASSUME NoWrap, NEW c \in Nat \ {0}, NEW r \in Nat \ {0}, Ahead(c, r), c <= MaxId
  PROVE  /\ Ahead(c + 1, IncBy(r, c))
         /\ IncBy(r, c) > c /\ IncBy(r, c) >= r
         /\ Ahead(c + 1, r)
  <1>1. MaxId \in Nat /\ MaxId >= 1
    BY EntitiesAssumption
  <1>2. c * c \in Nat /\ c * c <= MaxId * MaxId /\ MaxId * MaxId \in Nat
    BY <1>1
  <1>3. (c + 1) * (c + 1) = c * c + 2 * c + 1
    BY <1>1
  <1>4. CountBound = MaxId * MaxId + MaxId + 1
    BY <1>1 DEF CountBound
  <1>5. MaxId <= MaxId * MaxId
    BY <1>1
  <1> HIDE DEF CountBound
  <1>6. r + c <= CountBound /\ r + c <= (c + 1) * (c + 1) /\ c + 1 <= CountBound
    BY <1>1, <1>2, <1>3, <1>4, <1>5 DEF Ahead
  <1>7. IncBy(r, c) = r + c
    BY <1>2, <1>4, <1>6, IncByAdds DEF NoWrap
  <1> QED
    BY <1>2, <1>3, <1>6, <1>7 DEF Ahead

(* A restarted actor's counter is what was recovered.                      *)
LEMMA AheadWhenRestarted ==
  ASSUME NEW c \in Nat \ {0}, NEW r \in Nat \ {0}, Ahead(c, r)
  PROVE  Ahead(r, r)
  <1>1. r <= r * r
    OBVIOUS
  <1> QED
    BY <1>1 DEF Ahead

------------------------------------------------------------------------------
(* What one event of the journal does to what was recovered before it      *)

SameRids(v, w) ==
  /\ w.ridCount = v.ridCount /\ w.byTarget = v.byTarget
  /\ w.byOrigin = v.byOrigin /\ w.byPath = v.byPath
SameSids(v, w) ==
  w.sidCount = v.sidCount /\ w.sidByPath = v.sidByPath /\ w.pathBySid = v.pathBySid
SameListeners(v, w) == w.list = v.list /\ w.subs = v.subs

(* RidSaved enters the record and moves the counter past its id.           *)
LEMMA AfterRidSaved ==
  ASSUME MaxInt \in Nat, NEW v \in Image, v.ok, NEW e \in Event, e.type = "RidSaved"
  PROVE  LET w == Restored(v, e)
             r == e.record
         IN /\ w \in Image /\ w.ok
            /\ w.ridCount = IncBy(v.ridCount, r.targetId)
            /\ w.byTarget = [v.byTarget EXCEPT ![r.targetId] = r]
            /\ w.byOrigin = [o \in RidOrigin |-> IF o = r.origin THEN r ELSE v.byOrigin[o]]
            /\ w.byPath = [p \in Path |-> IF p = r.path THEN r ELSE v.byPath[p]]
            /\ SameSids(v, w) /\ SameListeners(v, w)
  <1> DEFINE w == Restored(v, e)
             r == e.record
  <1>1. r \in LookupRecord /\ r.targetId \in Nat \ {0}
    BY EventTypes, RecordTypes DEF Id
  <1>2. w = RestoredRidSaved(v, r)
    BY DEF Restored
  <1>3. IncBy(v.ridCount, r.targetId) \in Nat \ {0}
    BY <1>1, IncByAdds DEF Image
  <1> HIDE DEF w, r
  <1>4. /\ w.ridCount = IncBy(v.ridCount, r.targetId)
        /\ w.byTarget = [v.byTarget EXCEPT ![r.targetId] = r]
        /\ w.byOrigin = [o \in RidOrigin |-> IF o = r.origin THEN r ELSE v.byOrigin[o]]
        /\ w.byPath = [p \in Path |-> IF p = r.path THEN r ELSE v.byPath[p]]
        /\ SameSids(v, w) /\ SameListeners(v, w) /\ w.ok
    BY <1>2 DEF RestoredRidSaved, Image, SameSids, SameListeners
  <1>5. w \in Image
    BY <1>1, <1>2, <1>3 DEF RestoredRidSaved, Image
  <1> QED
    BY <1>4, <1>5 DEF w, r

(* RidRemoved takes the record's keys away.                                *)
LEMMA AfterRidRemoved ==
  ASSUME NEW v \in Image, v.ok, NEW e \in Event, e.type = "RidRemoved"
  PROVE  LET w == Restored(v, e)
             r == e.record
         IN /\ w \in Image /\ w.ok
            /\ w.ridCount = v.ridCount
            /\ w.byTarget = [v.byTarget EXCEPT ![r.targetId] = Nil]
            /\ w.byOrigin = [o \in RidOrigin |-> IF o = r.origin THEN Nil ELSE v.byOrigin[o]]
            /\ w.byPath = [p \in Path |-> IF p = r.path THEN Nil ELSE v.byPath[p]]
            /\ SameSids(v, w) /\ SameListeners(v, w)
  <1> DEFINE w == Restored(v, e)
             r == e.record
  <1>2. w = RestoredRidRemoved(v, r)
    BY DEF Restored
  <1> HIDE DEF w, r
  <1>4. /\ w.ridCount = v.ridCount
        /\ w.byTarget = [v.byTarget EXCEPT ![r.targetId] = Nil]
        /\ w.byOrigin = [o \in RidOrigin |-> IF o = r.origin THEN Nil ELSE v.byOrigin[o]]
        /\ w.byPath = [p \in Path |-> IF p = r.path THEN Nil ELSE v.byPath[p]]
        /\ SameSids(v, w) /\ SameListeners(v, w) /\ w.ok
    BY <1>2 DEF RestoredRidRemoved, Image, SameSids, SameListeners
  <1>5. w \in Image
    BY <1>2 DEF RestoredRidRemoved, Image
  <1> QED
    BY <1>4, <1>5 DEF w, r

(* SidSaved enters both maps and moves the counter past the SID.           *)
LEMMA AfterSidSaved ==
  ASSUME MaxInt \in Nat, NEW v \in Image, v.ok, NEW e \in Event, e.type = "SidSaved"
  PROVE  LET w == Restored(v, e) IN
         /\ w \in Image /\ w.ok
         /\ w.sidCount = IncBy(v.sidCount, e.tgt)
         /\ w.sidByPath = [v.sidByPath EXCEPT ![e.path] = e.tgt]
         /\ w.pathBySid = [v.pathBySid EXCEPT ![e.tgt] = e.path]
         /\ SameRids(v, w) /\ SameListeners(v, w)
  <1> DEFINE w == Restored(v, e)
  <1>1. e.path \in Path /\ e.tgt \in Id /\ e.tgt \in Nat \ {0}
    BY EventTypes DEF Id
  <1>2. w = RestoredSidSaved(v, e.path, e.tgt)
    BY DEF Restored
  <1>3. IncBy(v.sidCount, e.tgt) \in Nat \ {0}
    BY <1>1, IncByAdds DEF Image
  <1> HIDE DEF w
  <1>4. /\ w.sidCount = IncBy(v.sidCount, e.tgt)
        /\ w.sidByPath = [v.sidByPath EXCEPT ![e.path] = e.tgt]
        /\ w.pathBySid = [v.pathBySid EXCEPT ![e.tgt] = e.path]
        /\ SameRids(v, w) /\ SameListeners(v, w) /\ w.ok
    BY <1>2 DEF RestoredSidSaved, Image, SameRids, SameListeners
  <1>5. w \in Image
    BY <1>1, <1>2, <1>3 DEF RestoredSidSaved, Image
  <1> QED
    BY <1>4, <1>5 DEF w

(* SidRemoved of a SID with a path takes both away.                        *)
LEMMA AfterSidRemoved ==
  ASSUME NEW v \in Image, v.ok, NEW e \in Event, e.type = "SidRemoved",
         v.pathBySid[e.tgt] # Nil
  PROVE  LET w == Restored(v, e) IN
         /\ w \in Image /\ w.ok
         /\ w.sidCount = v.sidCount
         /\ w.sidByPath = [v.sidByPath EXCEPT ![v.pathBySid[e.tgt]] = Nil]
         /\ w.pathBySid = [v.pathBySid EXCEPT ![e.tgt] = Nil]
         /\ SameRids(v, w) /\ SameListeners(v, w)
  <1> DEFINE w == Restored(v, e)
  <1>2. w = [v EXCEPT !.sidByPath[v.pathBySid[e.tgt]] = Nil, !.pathBySid[e.tgt] = Nil]
    BY DEF Restored, RestoredSidRemoved
  <1> HIDE DEF w
  <1>4. /\ w.sidCount = v.sidCount
        /\ w.sidByPath = [v.sidByPath EXCEPT ![v.pathBySid[e.tgt]] = Nil]
        /\ w.pathBySid = [v.pathBySid EXCEPT ![e.tgt] = Nil]
        /\ SameRids(v, w) /\ SameListeners(v, w) /\ w.ok
    BY <1>2 DEF Image, SameRids, SameListeners
  <1>5. w \in Image
    BY <1>2 DEF Image
  <1> QED
    BY <1>4, <1>5 DEF w

(* An origin listens under one id only: the one its path is known by.      *)
LEMMA BoundOnce ==
  ASSUME NEW v, Sound(v), NEW reg \in Registry, NEW k \in Id,
         NEW o \in OriginsAt(Told(v, reg), k)
  PROVE  BindingsOf(Told(v, reg), o) = {k}
  <1> DEFINE b == Told(v, reg)
  <1>1. b \in Bindings /\ o \in Origin
    <2>1. b \in Bindings
      BY DEF Sound, Image, Told, Registry
    <2> HIDE DEF b
    <2> QED
      BY <2>1, BindingTypes DEF b
  <1>2. PathOf[o] \in Path /\ PathOf[o] # Nil
    BY <1>1, EntitiesAssumption
  <1>3. ASSUME NEW t \in Id, o \in OriginsAt(b, t) PROVE t = k
    <2>1. CASE reg = "LIST"
      <3>1. /\ v.byTarget[k] # Nil /\ v.byTarget[k].path = PathOf[o]
            /\ v.byTarget[t] # Nil /\ v.byTarget[t].path = PathOf[o]
        BY <1>3, <2>1 DEF Sound, ListenersMatch, Told
      <3>2. /\ v.byTarget[k] = v.byPath[PathOf[o]] /\ v.byTarget[k].targetId = k
            /\ v.byTarget[t] = v.byPath[PathOf[o]] /\ v.byTarget[t].targetId = t
        BY <1>2, <3>1 DEF Sound, RidsMatch
      <3> QED
        BY <3>2
    <2>2. CASE reg = "SUBS"
      <3>1. v.pathBySid[k] = PathOf[o] /\ v.pathBySid[t] = PathOf[o]
        BY <1>3, <2>2 DEF Sound, ListenersMatch, Told
      <3>2. v.sidByPath[PathOf[o]] = k /\ v.sidByPath[PathOf[o]] = t
        BY <1>2, <3>1 DEF Sound, SidsMatch
      <3> QED
        BY <3>2
    <2> QED
      BY <2>1, <2>2 DEF Registry
  <1> HIDE DEF b
  <1> QED
    BY <1>3 DEF BindingsOf, b

(* An origin taken out by a handler that knows whether it is the last one  *)
(* is gone from its record, and from no other.                             *)
LEMMA OriginOut ==
  ASSUME NEW b \in Bindings, NEW k \in Id, NEW o, NEW last \in BOOLEAN,
         last <=> OriginsAt(b, k) = {o}
  PROVE  \A t \in Id : OriginsAt(WithoutOrigin(b, k, o, last), t) =
                         IF t = k THEN OriginsAt(b, k) \ {o} ELSE OriginsAt(b, t)
  <1>1. CASE last
    <2>1. WithoutOrigin(b, k, o, last) = WithoutRecord(b, k)
      BY <1>1 DEF WithoutOrigin, WithoutRecord
    <2>2. OriginsAt(b, k) \ {o} = {}
      BY <1>1
    <2>3. \A t \in Id : OriginsAt(WithoutRecord(b, k), t) = IF t = k THEN {} ELSE OriginsAt(b, t)
      BY OriginGone
    <2> QED
      BY <2>1, <2>2, <2>3
  <1>2. CASE ~last
    <2>1. WithoutOrigin(b, k, o, last) = Without(b, k, o)
      BY <1>2 DEF WithoutOrigin, Without
    <2> QED
      BY <2>1, OriginGone
  <1> QED
    BY <1>1, <1>2

(* The events of one call registry touch its own bindings only.            *)
LEMMA AfterGroupEvent ==
  ASSUME NEW v \in Image, v.ok, NEW e \in Event,
         e.type \in {"OriginAdded", "OriginRemoved", "RecordRemoved"}
  PROVE  LET w == Restored(v, e)
             b == Told(v, e.reg)
             new == IF e.type = "OriginAdded" THEN WithOrigin(b, e.tgt, e.origin)
                    ELSE IF e.type = "OriginRemoved" THEN WithoutOriginAnywhere(b, e.origin)
                    ELSE WithoutRecord(b, e.tgt)
         IN /\ e.reg \in Registry /\ e.tgt \in Id /\ b \in Bindings
            /\ new \in Bindings
            /\ w \in Image /\ w.ok
            /\ Told(w, e.reg) = new
            /\ \A reg \in Registry \ {e.reg} : Told(w, reg) = Told(v, reg)
            /\ SameRids(v, w) /\ SameSids(v, w)
  <1> DEFINE w == Restored(v, e)
             b == Told(v, e.reg)
             new == IF e.type = "OriginAdded" THEN WithOrigin(b, e.tgt, e.origin)
                    ELSE IF e.type = "OriginRemoved" THEN WithoutOriginAnywhere(b, e.origin)
                    ELSE WithoutRecord(b, e.tgt)
  <1>1. /\ e.reg \in Registry /\ e.tgt \in Id
        /\ e.type \in {"OriginAdded", "OriginRemoved"} => e.origin \in Origin
    BY EventTypes
  <1>2. b \in Bindings
    BY <1>1 DEF Image, Told, Registry
  <1>3. w = IF e.reg = "LIST" THEN [v EXCEPT !.list = new] ELSE [v EXCEPT !.subs = new]
    BY DEF Restored, Told
  <1> HIDE DEF w, b
  <1>4. new \in Bindings
    <2>1. CASE e.type = "OriginAdded"
      BY <1>1, <1>2, <2>1, BindingUpdates
    <2>2. CASE e.type = "OriginRemoved"
      <3>1. ASSUME BindingsOf(b, e.origin) # {}
            PROVE  (CHOOSE k \in Id : k \in BindingsOf(b, e.origin)) \in Id
        BY <3>1 DEF BindingsOf
      <3>2. WithoutOriginAnywhere(b, e.origin) \in Bindings
        BY <1>1, <1>2, <3>1, BindingUpdates DEF WithoutOriginAnywhere
      <3> QED
        BY <2>2, <3>2
    <2>3. CASE e.type = "RecordRemoved"
      BY <1>1, <1>2, <2>3, BindingUpdates
    <2> QED
      BY <2>1, <2>2, <2>3
  <1> HIDE DEF new
  <1>5. w \in Image
    BY <1>3, <1>4 DEF Image
  <1>6. /\ w.ok /\ SameRids(v, w) /\ SameSids(v, w)
        /\ w.list = IF e.reg = "LIST" THEN new ELSE v.list
        /\ w.subs = IF e.reg = "LIST" THEN v.subs ELSE new
    BY <1>3 DEF Image, SameRids, SameSids
  <1>7. /\ Told(w, e.reg) = new
        /\ \A reg \in Registry \ {e.reg} : Told(w, reg) = Told(v, reg)
    BY <1>1, <1>6 DEF Told, Registry
  <1> QED
    BY <1>1, <1>2, <1>4, <1>5, <1>6, <1>7 DEF w, b, new

(* Who listens under k in reg after the event e, if it was S before.       *)
LeftBy(e, reg, k, S) ==
  IF reg # e.reg \/ k # e.tgt THEN S
  ELSE IF e.type = "OriginAdded" THEN S \cup {e.origin}
  ELSE IF e.type = "OriginRemoved" THEN S \ {e.origin}
  ELSE {}

(* Who listens where after an event that was expected.                     *)
LEMMA ListenersAfter ==
  ASSUME NEW v, Sound(v), NEW e, Expected(v, e), NEW reg \in Registry, NEW k \in Id,
         e.type \in {"OriginAdded", "OriginRemoved", "RecordRemoved"}
  PROVE  OriginsAt(Told(Restored(v, e), reg), k) =
           LeftBy(e, reg, k, OriginsAt(Told(v, reg), k))
  <1> DEFINE w == Restored(v, e)
             b == Told(v, e.reg)
             c == Told(w, e.reg)
  <1>1. v \in Image /\ v.ok /\ e \in Event
    BY DEF Sound, Expected
  <1>2. /\ e.reg \in Registry /\ e.tgt \in Id /\ b \in Bindings
        /\ e.type = "OriginAdded" => c = WithOrigin(b, e.tgt, e.origin)
        /\ e.type = "OriginRemoved" => c = WithoutOriginAnywhere(b, e.origin)
        /\ e.type = "RecordRemoved" => c = WithoutRecord(b, e.tgt)
        /\ reg # e.reg => Told(w, reg) = Told(v, reg)
    BY <1>1, AfterGroupEvent
  <1>3. e.type \in {"OriginAdded", "OriginRemoved"} => e.origin \in Origin
    BY <1>1, EventTypes
  <1> HIDE DEF w, b, c, LeftBy
  <1>4. CASE e.type = "OriginAdded"
    <2>1. OriginsAt(c, k) = IF k = e.tgt THEN OriginsAt(b, k) \cup {e.origin} ELSE OriginsAt(b, k)
      BY <1>2, <1>3, <1>4, OriginKept
    <2> QED
      BY <1>2, <1>4, <2>1 DEF w, b, c, LeftBy
  <1>5. CASE e.type = "OriginRemoved"
    <2>1. e.origin \in OriginsAt(b, e.tgt)
      BY <1>5 DEF Expected, b
    <2>2. BindingsOf(b, e.origin) = {e.tgt}
      BY <1>2, <2>1, BoundOnce DEF b
    <2>3. c = WithoutOrigin(b, e.tgt, e.origin, IsLast(b, e.tgt, e.origin))
      <3>1. (CHOOSE t \in Id : t \in BindingsOf(b, e.origin)) = e.tgt
        BY <1>2, <2>2
      <3> QED
        BY <1>2, <1>5, <2>2, <3>1 DEF WithoutOriginAnywhere
    <2>4. OriginsAt(c, k) = IF k = e.tgt THEN OriginsAt(b, k) \ {e.origin} ELSE OriginsAt(b, k)
      <3> DEFINE last == IsLast(b, e.tgt, e.origin)
      <3>1. last \in BOOLEAN /\ (last <=> OriginsAt(b, e.tgt) = {e.origin})
        BY DEF IsLast
      <3>2. c = WithoutOrigin(b, e.tgt, e.origin, last)
        BY <2>3
      <3> HIDE DEF last
      <3>3. \A t \in Id : OriginsAt(c, t) = IF t = e.tgt THEN OriginsAt(b, e.tgt) \ {e.origin}
                                            ELSE OriginsAt(b, t)
        BY <1>2, <3>1, <3>2, OriginOut
      <3> QED
        BY <3>3
    <2> QED
      BY <1>2, <1>5, <2>4 DEF w, b, c, LeftBy
  <1>6. CASE e.type = "RecordRemoved"
    <2>1. OriginsAt(c, k) = IF k = e.tgt THEN {} ELSE OriginsAt(b, k)
      BY <1>2, <1>6, OriginGone
    <2> QED
      BY <1>2, <1>6, <2>1 DEF w, b, c, LeftBy
  <1> QED
    BY <1>4, <1>5, <1>6

(* Every event is of one of the seven types.                               *)
LEMMA EventKinds ==
  ASSUME NEW e \in Event
  PROVE  e.type \in {"RidSaved", "RidRemoved", "SidSaved", "SidRemoved", "OriginAdded",
                     "OriginRemoved", "RecordRemoved"}
  BY DEF Event

(* An expected event leads from a sound image to a sound image.            *)
LEMMA SoundStep ==
  ASSUME MaxInt \in Nat, NEW v, Sound(v), NEW e, Expected(v, e)
  PROVE  Sound(Restored(v, e))
  <1> DEFINE w == Restored(v, e)
             r == e.record
  <1>1. v \in Image /\ v.ok /\ e \in Event /\ RidsMatch(v) /\ SidsMatch(v) /\ ListenersMatch(v)
    BY DEF Sound, Expected
  <1>2. CASE e.type = "RidSaved"
    <2>1. /\ w \in Image /\ w.ok
          /\ w.byTarget = [v.byTarget EXCEPT ![r.targetId] = r]
          /\ w.byPath = [p \in Path |-> IF p = r.path THEN r ELSE v.byPath[p]]
          /\ SameSids(v, w) /\ SameListeners(v, w)
      BY <1>1, <1>2, AfterRidSaved
    <2>2. /\ r \in LookupRecord /\ r.targetId \in Id /\ r.path \in Path \cup {Nil} /\ r # Nil
          /\ v.byTarget[r.targetId] = Nil
          /\ r.path # Nil => v.byPath[r.path] = Nil
      <3>1. r \in LookupRecord
        BY <1>1, <1>2, EventTypes
      <3>2. Nil \notin LookupRecord
        BY RidRegistryAssumption
      <3> QED
        BY <1>2, <3>1, <3>2, RecordTypes DEF Expected
    <2>3. v.byTarget \in [Id -> LookupRecord \cup {Nil}] /\ v.byPath \in [Path -> LookupRecord \cup {Nil}]
      BY <1>1 DEF Image
    <2> HIDE DEF w, r
    <2>4. RidsMatch(w)
      <3>1. ASSUME NEW k \in Id, w.byTarget[k] # Nil
            PROVE  /\ w.byTarget[k].targetId = k
                   /\ w.byTarget[k].path # Nil => w.byPath[w.byTarget[k].path] = w.byTarget[k]
        <4>1. CASE k = r.targetId
          BY <2>1, <2>2, <2>3, <4>1
        <4>2. CASE k # r.targetId
          <5>1. w.byTarget[k] = v.byTarget[k] /\ v.byTarget[k] \in LookupRecord
            BY <2>1, <2>3, <3>1, <4>2
          <5>2. v.byTarget[k].targetId = k
                /\ (v.byTarget[k].path # Nil => v.byPath[v.byTarget[k].path] = v.byTarget[k])
            BY <1>1, <3>1, <5>1 DEF RidsMatch
          <5>3. v.byTarget[k].path \in Path \cup {Nil}
            BY <5>1, RecordTypes
          <5> QED
            BY <2>1, <2>2, <3>1, <5>1, <5>2, <5>3
        <4> QED
          BY <4>1, <4>2
      <3>2. ASSUME NEW p \in Path, w.byPath[p] # Nil
            PROVE  w.byPath[p].path = p /\ w.byTarget[w.byPath[p].targetId] = w.byPath[p]
        <4>1. CASE p = r.path
          BY <2>1, <2>2, <2>3, <4>1
        <4>2. CASE p # r.path
          <5>1. w.byPath[p] = v.byPath[p] /\ v.byPath[p] \in LookupRecord
            BY <2>1, <2>3, <3>2, <4>2
          <5>2. v.byPath[p].path = p /\ v.byTarget[v.byPath[p].targetId] = v.byPath[p]
            BY <1>1, <3>2, <5>1 DEF RidsMatch
          <5>3. v.byPath[p].targetId # r.targetId
            BY <2>2, <3>2, <5>1, <5>2
          <5> QED
            BY <2>1, <2>3, <5>1, <5>2, <5>3
        <4> QED
          BY <4>1, <4>2
      <3> QED
        BY <3>1, <3>2 DEF RidsMatch
    <2>5. SidsMatch(w)
      BY <1>1, <2>1 DEF SidsMatch, SameSids
    <2>6. ListenersMatch(w)
      BY <1>1, <2>1, <2>2, <2>3 DEF ListenersMatch, SameSids, SameListeners
    <2> QED
      BY <2>1, <2>4, <2>5, <2>6 DEF Sound, w
  <1>3. CASE e.type = "RidRemoved"
    <2>1. /\ w \in Image /\ w.ok
          /\ w.byTarget = [v.byTarget EXCEPT ![r.targetId] = Nil]
          /\ w.byPath = [p \in Path |-> IF p = r.path THEN Nil ELSE v.byPath[p]]
          /\ SameSids(v, w) /\ SameListeners(v, w)
      BY <1>1, <1>3, AfterRidRemoved
    <2>2. /\ r \in LookupRecord /\ r.targetId \in Id /\ r # Nil
          /\ v.byTarget[r.targetId] = r /\ OriginsAt(v.list, r.targetId) = {}
      <3>1. r \in LookupRecord
        BY <1>1, <1>3, EventTypes
      <3>2. Nil \notin LookupRecord
        BY RidRegistryAssumption
      <3> QED
        BY <1>3, <3>1, <3>2, RecordTypes DEF Expected
    <2>3. v.byTarget \in [Id -> LookupRecord \cup {Nil}] /\ v.byPath \in [Path -> LookupRecord \cup {Nil}]
      BY <1>1 DEF Image
    <2> HIDE DEF w, r
    <2>4. RidsMatch(w)
      <3>1. ASSUME NEW k \in Id, w.byTarget[k] # Nil
            PROVE  /\ w.byTarget[k].targetId = k
                   /\ w.byTarget[k].path # Nil => w.byPath[w.byTarget[k].path] = w.byTarget[k]
        <4>1. k # r.targetId /\ w.byTarget[k] = v.byTarget[k] /\ v.byTarget[k] \in LookupRecord
          BY <2>1, <2>3, <3>1
        <4>2. v.byTarget[k].targetId = k
              /\ (v.byTarget[k].path # Nil => v.byPath[v.byTarget[k].path] = v.byTarget[k])
          BY <1>1, <3>1, <4>1 DEF RidsMatch
        <4>3. v.byTarget[k].path \in Path \cup {Nil}
          BY <4>1, RecordTypes
        <4>4. ASSUME v.byTarget[k].path # Nil, v.byTarget[k].path = r.path PROVE FALSE
          <5>1. v.byPath[r.path] = r /\ v.byPath[r.path] = v.byTarget[k]
            BY <1>1, <2>2, <4>2, <4>4 DEF RidsMatch
          <5> QED
            BY <1>1, <2>2, <4>1, <4>2, <5>1 DEF RidsMatch
        <4> QED
          BY <2>1, <4>1, <4>2, <4>3, <4>4
      <3>2. ASSUME NEW p \in Path, w.byPath[p] # Nil
            PROVE  w.byPath[p].path = p /\ w.byTarget[w.byPath[p].targetId] = w.byPath[p]
        <4>1. p # r.path /\ w.byPath[p] = v.byPath[p]
          BY <2>1, <3>2
        <4>2. v.byPath[p].path = p /\ v.byTarget[v.byPath[p].targetId] = v.byPath[p]
          BY <1>1, <3>2, <4>1 DEF RidsMatch
        <4>3. v.byPath[p].targetId # r.targetId
          BY <2>2, <4>1, <4>2
        <4> QED
          BY <2>1, <2>3, <4>1, <4>2, <4>3
      <3> QED
        BY <3>1, <3>2 DEF RidsMatch
    <2>5. SidsMatch(w)
      BY <1>1, <2>1 DEF SidsMatch, SameSids
    <2>6. ListenersMatch(w)
      BY <1>1, <2>1, <2>2, <2>3 DEF ListenersMatch, SameSids, SameListeners
    <2> QED
      BY <2>1, <2>4, <2>5, <2>6 DEF Sound, w
  <1>4. CASE e.type = "SidSaved"
    <2>1. /\ w \in Image /\ w.ok
          /\ w.sidByPath = [v.sidByPath EXCEPT ![e.path] = e.tgt]
          /\ w.pathBySid = [v.pathBySid EXCEPT ![e.tgt] = e.path]
          /\ SameRids(v, w) /\ SameListeners(v, w)
      BY <1>1, <1>4, AfterSidSaved
    <2>2. /\ e.path \in Path /\ e.tgt \in Id /\ e.path # Nil /\ e.tgt # Nil
          /\ v.sidByPath[e.path] = Nil /\ v.pathBySid[e.tgt] = Nil
      BY <1>1, <1>4, EventTypes, EntitiesAssumption DEF Expected
    <2>3. v.sidByPath \in [Path -> Id \cup {Nil}] /\ v.pathBySid \in [Id -> Path \cup {Nil}]
      BY <1>1 DEF Image
    <2> HIDE DEF w
    <2>4. SidsMatch(w)
      <3>1. ASSUME NEW s \in Id, w.pathBySid[s] # Nil
            PROVE  w.sidByPath[w.pathBySid[s]] = s
        <4>1. CASE s = e.tgt
          BY <2>1, <2>2, <2>3, <4>1
        <4>2. CASE s # e.tgt
          <5>1. w.pathBySid[s] = v.pathBySid[s] /\ v.sidByPath[v.pathBySid[s]] = s
            BY <1>1, <2>1, <2>3, <3>1, <4>2 DEF SidsMatch
          <5>2. v.pathBySid[s] # e.path
            BY <2>2, <4>2, <5>1, EntitiesAssumption
          <5> QED
            BY <2>1, <2>3, <3>1, <5>1, <5>2
        <4> QED
          BY <4>1, <4>2
      <3>2. ASSUME NEW p \in Path, w.sidByPath[p] # Nil
            PROVE  w.pathBySid[w.sidByPath[p]] = p
        <4>1. CASE p = e.path
          BY <2>1, <2>2, <2>3, <4>1
        <4>2. CASE p # e.path
          <5>1. /\ w.sidByPath[p] = v.sidByPath[p] /\ v.pathBySid[v.sidByPath[p]] = p
                /\ v.sidByPath[p] \in Id
            BY <1>1, <2>1, <2>3, <3>2, <4>2 DEF SidsMatch
          <5>2. v.sidByPath[p] # e.tgt
            BY <2>2, <5>1, EntitiesAssumption
          <5> QED
            BY <2>1, <2>3, <5>1, <5>2
        <4> QED
          BY <4>1, <4>2
      <3> QED
        BY <3>1, <3>2 DEF SidsMatch
    <2>5. RidsMatch(w)
      BY <1>1, <2>1 DEF RidsMatch, SameRids
    <2>6. ListenersMatch(w)
      <3>1. \A o \in OriginsAt(v.subs, e.tgt) : v.pathBySid[e.tgt] = PathOf[o] /\ PathOf[o] \in Path
        BY <1>1, <2>2, EntitiesAssumption DEF ListenersMatch, Origin
      <3>2. OriginsAt(v.subs, e.tgt) = {}
        BY <2>2, <3>1, EntitiesAssumption
      <3> QED
        BY <1>1, <2>1, <2>2, <2>3, <3>2 DEF ListenersMatch, SameRids, SameListeners
    <2> QED
      BY <2>1, <2>4, <2>5, <2>6 DEF Sound, w
  <1>5. CASE e.type = "SidRemoved"
    <2>1. e.tgt \in Id /\ v.pathBySid[e.tgt] # Nil /\ OriginsAt(v.subs, e.tgt) = {}
      BY <1>1, <1>5, EventTypes DEF Expected
    <2>2. /\ w \in Image /\ w.ok
          /\ w.sidByPath = [v.sidByPath EXCEPT ![v.pathBySid[e.tgt]] = Nil]
          /\ w.pathBySid = [v.pathBySid EXCEPT ![e.tgt] = Nil]
          /\ SameRids(v, w) /\ SameListeners(v, w)
      BY <1>1, <1>5, <2>1, AfterSidRemoved
    <2>3. v.sidByPath \in [Path -> Id \cup {Nil}] /\ v.pathBySid \in [Id -> Path \cup {Nil}]
      BY <1>1 DEF Image
    <2> HIDE DEF w
    <2>4. SidsMatch(w)
      <3>1. /\ v.pathBySid[e.tgt] \in Path /\ v.sidByPath[v.pathBySid[e.tgt]] = e.tgt
            /\ \A s \in Id : v.pathBySid[s] # Nil => v.pathBySid[s] \in Path
        BY <1>1, <2>1, <2>3 DEF SidsMatch
      <3>2. ASSUME NEW s \in Id, w.pathBySid[s] # Nil
            PROVE  w.sidByPath[w.pathBySid[s]] = s
        <4>1. s # e.tgt /\ w.pathBySid[s] = v.pathBySid[s] /\ v.sidByPath[v.pathBySid[s]] = s
          BY <1>1, <2>1, <2>2, <2>3, <3>2 DEF SidsMatch
        <4> QED
          BY <2>2, <2>3, <3>1, <3>2, <4>1
      <3>3. ASSUME NEW p \in Path, w.sidByPath[p] # Nil
            PROVE  w.pathBySid[w.sidByPath[p]] = p
        <4>1. p # v.pathBySid[e.tgt] /\ w.sidByPath[p] = v.sidByPath[p]
              /\ v.pathBySid[v.sidByPath[p]] = p /\ v.sidByPath[p] \in Id
          BY <1>1, <2>2, <2>3, <3>1, <3>3 DEF SidsMatch
        <4> QED
          BY <2>1, <2>2, <2>3, <4>1
      <3> QED
        BY <3>2, <3>3 DEF SidsMatch
    <2>5. RidsMatch(w)
      BY <1>1, <2>2 DEF RidsMatch, SameRids
    <2>6. ListenersMatch(w)
      BY <1>1, <2>1, <2>2, <2>3 DEF ListenersMatch, SameRids, SameListeners
    <2> QED
      BY <2>2, <2>4, <2>5, <2>6 DEF Sound, w
  <1>6. CASE e.type \in {"OriginAdded", "OriginRemoved", "RecordRemoved"}
    <2>1. w \in Image /\ w.ok /\ SameRids(v, w) /\ SameSids(v, w) /\ e.reg \in Registry
      BY <1>1, <1>6, AfterGroupEvent
    <2>2. \A reg \in Registry, k \in Id :
            OriginsAt(Told(w, reg), k) =
              IF reg # e.reg \/ k # e.tgt THEN OriginsAt(Told(v, reg), k)
              ELSE IF e.type = "OriginAdded" THEN OriginsAt(Told(v, reg), k) \cup {e.origin}
              ELSE IF e.type = "OriginRemoved" THEN OriginsAt(Told(v, reg), k) \ {e.origin}
              ELSE {}
      BY <1>6, ListenersAfter DEF LeftBy
    <2> HIDE DEF w
    <2>3. \A k \in Id :
            /\ OriginsAt(w.list, k) =
                 IF "LIST" # e.reg \/ k # e.tgt THEN OriginsAt(v.list, k)
                 ELSE IF e.type = "OriginAdded" THEN OriginsAt(v.list, k) \cup {e.origin}
                 ELSE IF e.type = "OriginRemoved" THEN OriginsAt(v.list, k) \ {e.origin}
                 ELSE {}
            /\ OriginsAt(w.subs, k) =
                 IF "SUBS" # e.reg \/ k # e.tgt THEN OriginsAt(v.subs, k)
                 ELSE IF e.type = "OriginAdded" THEN OriginsAt(v.subs, k) \cup {e.origin}
                 ELSE IF e.type = "OriginRemoved" THEN OriginsAt(v.subs, k) \ {e.origin}
                 ELSE {}
      <3>1. Told(v, "LIST") = v.list /\ Told(w, "LIST") = w.list /\ "LIST" \in Registry
            /\ Told(v, "SUBS") = v.subs /\ Told(w, "SUBS") = w.subs /\ "SUBS" \in Registry
        BY DEF Told, Registry
      <3> QED
        BY ONLY <2>2, <3>1
    <2>4. RidsMatch(w) /\ SidsMatch(w)
      BY <1>1, <2>1 DEF RidsMatch, SidsMatch, SameRids, SameSids
    <2>5. ASSUME NEW k \in Id, NEW o \in OriginsAt(w.list, k)
          PROVE  o \in RidOrigin /\ w.byTarget[k] # Nil /\ w.byTarget[k].path = PathOf[o]
      <3>1. \/ o \in OriginsAt(v.list, k)
            \/ "LIST" = e.reg /\ k = e.tgt /\ e.type = "OriginAdded" /\ o = e.origin
        BY <2>3, <2>5
      <3> QED
        BY <1>1, <2>1, <3>1 DEF ListenersMatch, SameRids, Expected
    <2>6. ASSUME NEW k \in Id, NEW o \in OriginsAt(w.subs, k)
          PROVE  o \in SidOrigin /\ w.pathBySid[k] = PathOf[o]
      <3>1. \/ o \in OriginsAt(v.subs, k)
            \/ "SUBS" = e.reg /\ k = e.tgt /\ e.type = "OriginAdded" /\ o = e.origin
        <4>1. CASE "SUBS" # e.reg \/ k # e.tgt
          BY <2>3, <2>6, <4>1
        <4>2. CASE "SUBS" = e.reg /\ k = e.tgt
          <5>1. OriginsAt(w.subs, k) =
                  IF e.type = "OriginAdded" THEN OriginsAt(v.subs, k) \cup {e.origin}
                  ELSE IF e.type = "OriginRemoved" THEN OriginsAt(v.subs, k) \ {e.origin}
                  ELSE {}
            BY <2>3, <4>2
          <5> QED
            BY ONLY <2>6, <4>2, <5>1
        <4> QED
          BY <4>1, <4>2
      <3> QED
        BY <1>1, <2>1, <3>1 DEF ListenersMatch, SameSids, Expected
    <2> QED
      BY <2>1, <2>4, <2>5, <2>6 DEF Sound, w, ListenersMatch
  <1> QED
    BY <1>1, <1>2, <1>3, <1>4, <1>5, <1>6, EventKinds

(* An event leads to no id but its own.                                    *)
LEMMA IdsStep ==
  ASSUME MaxInt \in Nat, NEW v, Sound(v), NEW e, Expected(v, e), NEW k \in Id
  PROVE  LET w == Restored(v, e) IN
         /\ w.byTarget[k] # Nil =>
              v.byTarget[k] # Nil \/ (e.type = "RidSaved" /\ e.record.targetId = k)
         /\ w.pathBySid[k] # Nil =>
              v.pathBySid[k] # Nil \/ (e.type = "SidSaved" /\ e.tgt = k)
  <1> DEFINE w == Restored(v, e)
  <1>1. /\ v \in Image /\ v.ok /\ e \in Event
        /\ v.byTarget \in [Id -> LookupRecord \cup {Nil}] /\ v.pathBySid \in [Id -> Path \cup {Nil}]
    BY DEF Sound, Expected, Image
  <1>2. CASE e.type = "RidSaved"
    BY <1>1, <1>2, AfterRidSaved DEF SameSids
  <1>3. CASE e.type = "RidRemoved"
    BY <1>1, <1>3, AfterRidRemoved DEF SameSids
  <1>4. CASE e.type = "SidSaved"
    BY <1>1, <1>4, AfterSidSaved DEF SameRids
  <1>5. CASE e.type = "SidRemoved"
    <2>1. v.pathBySid[e.tgt] # Nil
      BY <1>5 DEF Expected
    <2> QED
      BY <1>1, <1>5, <2>1, AfterSidRemoved DEF SameRids
  <1>6. CASE e.type \in {"OriginAdded", "OriginRemoved", "RecordRemoved"}
    <2>1. SameRids(v, w) /\ SameSids(v, w)
      BY <1>1, <1>6, AfterGroupEvent
    <2> QED
      BY <2>1 DEF SameRids, SameSids
  <1> QED
    BY <1>1, <1>2, <1>3, <1>4, <1>5, <1>6, EventKinds

(* Of what is expected the first event may be taken, and the rest is still *)
(* expected; it speaks of no more ids.                                     *)
LEMMA ExpectedFirst ==
  ASSUME MaxInt \in Nat, NEW v, Sound(v), NEW q \in Seq(Event), q # <<>>, Expecting(v, q)
  PROVE  LET w == Restored(v, Head(q)) IN
         /\ Expected(v, Head(q)) /\ Head(q) \in Event
         /\ Sound(w)
         /\ Tail(q) \in Seq(Event) /\ Expecting(w, Tail(q))
         /\ Replay!Fold(v, q) = Replay!Fold(w, Tail(q))
         /\ RidsIn(w, Tail(q)) \subseteq RidsIn(v, q)
         /\ SidsIn(w, Tail(q)) \subseteq SidsIn(v, q)
  <1> DEFINE e == Head(q)
             t == Tail(q)
             w == Restored(v, e)
  <1>1. /\ t \in Seq(Event) /\ Len(q) \in Nat /\ Len(q) >= 1 /\ Len(t) = Len(q) - 1
        /\ e = q[1] /\ e \in Event
        /\ \A i \in 1..Len(t) : t[i] = q[i + 1] /\ i + 1 \in 1..Len(q)
    OBVIOUS
  <1>2. Expected(v, e)
    BY <1>1 DEF Expecting
  <1>3. Sound(w)
    BY <1>2, SoundStep
  <1>4. Replay!Fold(v, q) = Replay!Fold(w, t)
    BY Replay!FoldTail
  <1> HIDE DEF t, e
  <1>5. Expecting(w, t)
    <2>1. /\ Len(t) <= 2
          /\ Len(t) >= 1 => t[1] = q[2]
          /\ Len(t) >= 2 => t[2] = q[3]
      BY <1>1 DEF Expecting
    <2> QED
      BY <1>1, <2>1 DEF Expecting
  <1>6. RidsIn(w, t) \subseteq RidsIn(v, q)
    <2> SUFFICES ASSUME NEW k \in RidsIn(w, t) PROVE k \in RidsIn(v, q)
      OBVIOUS
    <2>1. \/ w.byTarget[k] # Nil
          \/ \E i \in 1..Len(t) : t[i].type = "RidSaved" /\ t[i].record.targetId = k
      BY DEF RidsIn
    <2>2. k \in Id
      BY DEF RidsIn
    <2>3. CASE w.byTarget[k] # Nil
      <3>1. v.byTarget[k] # Nil \/ (e.type = "RidSaved" /\ e.record.targetId = k)
        BY <1>2, <2>2, <2>3, IdsStep
      <3>2. 1 \in 1..Len(q)
        BY <1>1
      <3> QED
        BY <1>1, <2>2, <3>1, <3>2 DEF RidsIn
    <2>4. CASE \E i \in 1..Len(t) : t[i].type = "RidSaved" /\ t[i].record.targetId = k
      BY <1>1, <2>2, <2>4 DEF RidsIn
    <2> QED
      BY <2>1, <2>3, <2>4
  <1>7. SidsIn(w, t) \subseteq SidsIn(v, q)
    <2> SUFFICES ASSUME NEW k \in SidsIn(w, t) PROVE k \in SidsIn(v, q)
      OBVIOUS
    <2>1. \/ w.pathBySid[k] # Nil
          \/ \E i \in 1..Len(t) : t[i].type = "SidSaved" /\ t[i].tgt = k
      BY DEF SidsIn
    <2>2. k \in Id
      BY DEF SidsIn
    <2>3. CASE w.pathBySid[k] # Nil
      <3>1. v.pathBySid[k] # Nil \/ (e.type = "SidSaved" /\ e.tgt = k)
        BY <1>2, <2>2, <2>3, IdsStep
      <3>2. 1 \in 1..Len(q)
        BY <1>1
      <3> QED
        BY <1>1, <2>2, <3>1, <3>2 DEF SidsIn
    <2>4. CASE \E i \in 1..Len(t) : t[i].type = "SidSaved" /\ t[i].tgt = k
      BY <1>1, <2>2, <2>4 DEF SidsIn
    <2> QED
      BY <2>1, <2>3, <2>4
  <1> QED
    BY <1>1, <1>2, <1>3, <1>4, <1>5, <1>6, <1>7 DEF e, t

(* Nothing is left to do to v.                                             *)
Settled(v, q) ==
  LET w == Replay!Fold(v, q) IN
  /\ Sound(w)
  /\ RidsIn(w, <<>>) \subseteq RidsIn(v, q)
  /\ SidsIn(w, <<>>) \subseteq SidsIn(v, q)

(* All that is expected may be taken.                                      *)
LEMMA ExpectedAll ==
  ASSUME MaxInt \in Nat, NEW v, Sound(v), NEW q \in Seq(Event), Expecting(v, q)
  PROVE  Settled(v, q)
  <1>1. ASSUME NEW u, Sound(u) PROVE Settled(u, <<>>)
    BY <1>1, Replay!FoldEmpty DEF Settled
  <1>2. ASSUME NEW u, Sound(u), NEW p \in Seq(Event), p # <<>>, Expecting(u, p),
               Settled(Restored(u, Head(p)), Tail(p))
        PROVE  Settled(u, p)
    <2> DEFINE w == Restored(u, Head(p))
    <2>1. /\ Replay!Fold(u, p) = Replay!Fold(w, Tail(p))
          /\ RidsIn(w, Tail(p)) \subseteq RidsIn(u, p)
          /\ SidsIn(w, Tail(p)) \subseteq SidsIn(u, p)
      BY <1>2, ExpectedFirst
    <2> QED
      BY <1>2, <2>1 DEF Settled
  <1>3. ASSUME NEW n \in 0..2,
               \A u, p : /\ Sound(u) /\ p \in Seq(Event) /\ Expecting(u, p) /\ Len(p) <= n
                         => Settled(u, p)
        PROVE  \A u, p : /\ Sound(u) /\ p \in Seq(Event) /\ Expecting(u, p) /\ Len(p) <= n + 1
                         => Settled(u, p)
    <2> SUFFICES ASSUME NEW u, NEW p, Sound(u), p \in Seq(Event), Expecting(u, p),
                        Len(p) <= n + 1
                 PROVE  Settled(u, p)
      OBVIOUS
    <2>1. CASE p = <<>>
      BY <1>1, <2>1
    <2>2. CASE p # <<>>
      <3>1. /\ Sound(Restored(u, Head(p))) /\ Tail(p) \in Seq(Event)
            /\ Expecting(Restored(u, Head(p)), Tail(p))
        BY <2>2, ExpectedFirst
      <3>2. Len(Tail(p)) <= n
        BY <2>2
      <3>3. Settled(Restored(u, Head(p)), Tail(p))
        BY <1>3, <3>1, <3>2
      <3> QED
        BY <1>2, <2>2, <3>3
    <2> QED
      BY <2>1, <2>2
  <1>4. \A u, p : /\ Sound(u) /\ p \in Seq(Event) /\ Expecting(u, p) /\ Len(p) <= 0
                  => Settled(u, p)
    <2> SUFFICES ASSUME NEW u, NEW p, Sound(u), p \in Seq(Event), Len(p) <= 0
                 PROVE  Settled(u, p)
      OBVIOUS
    <2>1. p = <<>>
      OBVIOUS
    <2> QED
      BY <1>1, <2>1
  <1> DEFINE Upto(n) == \A u, p : /\ Sound(u) /\ p \in Seq(Event) /\ Expecting(u, p) /\ Len(p) <= n
                                  => Settled(u, p)
  <1>5. Upto(0) /\ \A n \in 0..2 : Upto(n) => Upto(n + 1)
    BY <1>3, <1>4
  <1>6. Upto(3)
    <2> HIDE DEF Upto
    <2>1. Upto(0 + 1)
      BY <1>5
    <2>2. Upto(1 + 1)
      BY <1>5, <2>1
    <2>3. Upto(2 + 1)
      BY <1>5, <2>2
    <2> QED
      BY <2>3
  <1> QED
    BY <1>6 DEF Expecting

(* One, two or three events are replayed one after the other.              *)
LEMMA Unrolled ==
  ASSUME NEW v
  PROVE  /\ Replay!Fold(v, <<>>) = v
         /\ \A a \in Event : Replay!Fold(v, <<a>>) = Restored(v, a)
         /\ \A a, b \in Event : Replay!Fold(v, <<a, b>>) = Restored(Restored(v, a), b)
         /\ \A a, b, c \in Event :
              Replay!Fold(v, <<a, b, c>>) = Restored(Restored(Restored(v, a), b), c)
  <1>1. \A u : Replay!Fold(u, <<>>) = u
    BY Replay!FoldEmpty
  <1>2. ASSUME NEW u, NEW a \in Event PROVE Replay!Fold(u, <<a>>) = Restored(u, a)
    <2>1. <<a>> \in Seq(Event) /\ <<a>> # <<>> /\ Head(<<a>>) = a /\ Tail(<<a>>) = <<>>
      OBVIOUS
    <2> QED
      BY <1>1, <2>1, Replay!FoldTail
  <1>3. ASSUME NEW u, NEW a \in Event, NEW b \in Event
        PROVE  Replay!Fold(u, <<a, b>>) = Restored(Restored(u, a), b)
    <2>1. <<a, b>> \in Seq(Event) /\ <<a, b>> # <<>> /\ Head(<<a, b>>) = a /\ Tail(<<a, b>>) = <<b>>
      OBVIOUS
    <2> QED
      BY <1>2, <2>1, Replay!FoldTail
  <1>4. ASSUME NEW a \in Event, NEW b \in Event, NEW c \in Event
        PROVE  Replay!Fold(v, <<a, b, c>>) = Restored(Restored(Restored(v, a), b), c)
    <2>1. /\ <<a, b, c>> \in Seq(Event) /\ <<a, b, c>> # <<>> /\ Head(<<a, b, c>>) = a
          /\ Tail(<<a, b, c>>) = <<b, c>>
      OBVIOUS
    <2>2. Replay!Fold(v, <<a, b, c>>) = Replay!Fold(Restored(v, a), <<b, c>>)
      BY <2>1, Replay!FoldTail
    <2> QED
      BY <1>3, <2>2
  <1> QED
    BY <1>1, <1>2, <1>3, <1>4

------------------------------------------------------------------------------
(* A persist handler                                                       *)

(* The handler of a queued event does to the registries what its replay    *)
(* does to what was recovered before it, and it does not throw.            *)
LEMMA HandlerAgrees ==
  ASSUME MaxInt \in Nat, Typed, ~failed, NEW v, Sound(v), Agrees(v), events # <<>>,
         Expected(v, Head(events)), NEW w, w = Restored(v, Head(events)), Apply
  PROVE  /\ Agrees(w)' /\ ~failed'
         /\ events' = Tail(events)
         /\ UNCHANGED <<ridCount, sidCount, sidTopic>>
  <1> DEFINE e == Head(events)
             r == e.record
  <1>1. v \in Image /\ v.ok /\ e \in Event
    BY DEF Sound, Expected
  <1>2. /\ v.byTarget = callsByTargetId /\ v.byOrigin = callsByOrigin /\ v.byPath = callsByPath
        /\ v.sidByPath = sidByPath /\ v.pathBySid = pathBySid
        /\ \A k \in Id : /\ OriginsAt(v.list, k) = OriginsAt(listBindings, k)
                         /\ OriginsAt(v.subs, k) = OriginsAt(subsBindings, k)
    BY DEF Agrees
  <1>3. listBindings \in Bindings /\ subsBindings \in Bindings
    BY DEF Typed
  <1> DEFINE Frame == events' = Tail(events) /\ UNCHANGED <<ridCount, sidCount, sidTopic>>
  <1>4. CASE ApplyRidSaved
    <2>1. /\ e.type = "RidSaved" /\ AddRidLookup(r) /\ Frame
          /\ UNCHANGED <<sidByPath, pathBySid, listBindings, subsBindings, failed>>
      BY <1>4 DEF ApplyRidSaved, Applying, ApplyFrame, historyVars, sidMaps, registryVars
    <2>2. /\ w.byTarget = [v.byTarget EXCEPT ![r.targetId] = r]
          /\ w.byOrigin = [o \in RidOrigin |-> IF o = r.origin THEN r ELSE v.byOrigin[o]]
          /\ w.byPath = [p \in Path |-> IF p = r.path THEN r ELSE v.byPath[p]]
          /\ SameSids(v, w) /\ SameListeners(v, w)
      BY <1>1, <2>1, AfterRidSaved
    <2> HIDE DEF r
    <2>3. Agrees(w)'
      BY <1>2, <2>1, <2>2 DEF Agrees, AddRidLookup, SameSids, SameListeners
    <2> QED
      BY <2>1, <2>3
  <1>5. CASE ApplyRidRemoved
    <2>1. /\ e.type = "RidRemoved" /\ RemoveRidLookup(r) /\ Frame
          /\ UNCHANGED <<sidByPath, pathBySid, listBindings, subsBindings, failed>>
      BY <1>5 DEF ApplyRidRemoved, Applying, ApplyFrame, historyVars, sidMaps, registryVars
    <2>2. /\ w.byTarget = [v.byTarget EXCEPT ![r.targetId] = Nil]
          /\ w.byOrigin = [o \in RidOrigin |-> IF o = r.origin THEN Nil ELSE v.byOrigin[o]]
          /\ w.byPath = [p \in Path |-> IF p = r.path THEN Nil ELSE v.byPath[p]]
          /\ SameSids(v, w) /\ SameListeners(v, w)
      BY <1>1, <2>1, AfterRidRemoved
    <2> HIDE DEF r
    <2>3. Agrees(w)'
      BY <1>2, <2>1, <2>2 DEF Agrees, RemoveRidLookup, SameSids, SameListeners
    <2> QED
      BY <2>1, <2>3
  <1>6. CASE ApplySidSaved
    <2>1. /\ e.type = "SidSaved" /\ AddSidLookup(e.path, e.tgt) /\ Frame
          /\ UNCHANGED <<ridMaps, listBindings, subsBindings, failed>>
      BY <1>6 DEF ApplySidSaved, Applying, ApplyFrame, historyVars, registryVars
    <2>2. /\ w.sidByPath = [v.sidByPath EXCEPT ![e.path] = e.tgt]
          /\ w.pathBySid = [v.pathBySid EXCEPT ![e.tgt] = e.path]
          /\ SameRids(v, w) /\ SameListeners(v, w)
      BY <1>1, <2>1, AfterSidSaved
    <2>3. Agrees(w)'
      BY <1>2, <2>1, <2>2 DEF Agrees, AddSidLookup, SameRids, SameListeners, ridMaps
    <2> QED
      BY <2>1, <2>3
  <1>7. CASE ApplySidRemoved
    <2>1. /\ e.type = "SidRemoved" /\ RemoveSidLookup(e.tgt) /\ Frame
          /\ UNCHANGED <<ridMaps, listBindings, subsBindings, failed>>
      BY <1>7 DEF ApplySidRemoved, Applying, ApplyFrame, historyVars, registryVars
    <2>2. /\ w.sidByPath = [v.sidByPath EXCEPT ![v.pathBySid[e.tgt]] = Nil]
          /\ w.pathBySid = [v.pathBySid EXCEPT ![e.tgt] = Nil]
          /\ SameRids(v, w) /\ SameListeners(v, w)
      <3>1. v.pathBySid[e.tgt] # Nil
        BY <2>1 DEF Expected
      <3> QED
        BY <1>1, <2>1, <3>1, AfterSidRemoved
    <2>3. Agrees(w)'
      BY <1>2, <2>1, <2>2 DEF Agrees, RemoveSidLookup, SameRids, SameListeners, ridMaps
    <2> QED
      BY <2>1, <2>3
  <1>8. CASE ApplySidRemovedThrows
    <2>1. e.type = "SidRemoved" /\ pathBySid[e.tgt] = Nil
      BY <1>8 DEF ApplySidRemovedThrows, Applying
    <2> QED
      BY <1>2, <2>1 DEF Expected
  <1>9. ASSUME e.type \in {"OriginAdded", "OriginRemoved", "RecordRemoved"}, Frame,
               UNCHANGED <<ridMaps, sidMaps, failed>>,
               \A k \in Id :
                 /\ OriginsAt(listBindings', k) = LeftBy(e, "LIST", k, OriginsAt(listBindings, k))
                 /\ OriginsAt(subsBindings', k) = LeftBy(e, "SUBS", k, OriginsAt(subsBindings, k))
        PROVE  /\ Agrees(w)' /\ ~failed' /\ Frame
    <2>1. SameRids(v, w) /\ SameSids(v, w)
      BY <1>1, <1>9, AfterGroupEvent
    <2>2. ASSUME NEW k \in Id
          PROVE  /\ OriginsAt(w.list, k) = OriginsAt(listBindings', k)
                 /\ OriginsAt(w.subs, k) = OriginsAt(subsBindings', k)
      <3>1. /\ Told(w, "LIST") = w.list /\ Told(w, "SUBS") = w.subs
            /\ Told(v, "LIST") = v.list /\ Told(v, "SUBS") = v.subs
            /\ "LIST" \in Registry /\ "SUBS" \in Registry
        BY DEF Told, Registry
      <3>2. \A reg \in Registry :
              OriginsAt(Told(w, reg), k) = LeftBy(e, reg, k, OriginsAt(Told(v, reg), k))
        BY <1>9, ListenersAfter
      <3>3. /\ OriginsAt(w.list, k) = LeftBy(e, "LIST", k, OriginsAt(v.list, k))
            /\ OriginsAt(w.subs, k) = LeftBy(e, "SUBS", k, OriginsAt(v.subs, k))
        BY ONLY <3>1, <3>2
      <3>4. /\ OriginsAt(v.list, k) = OriginsAt(listBindings, k)
            /\ OriginsAt(v.subs, k) = OriginsAt(subsBindings, k)
        BY <1>2
      <3> QED
        BY <1>9, <3>3, <3>4
    <2>3. Agrees(w)'
      BY <1>2, <1>9, <2>1, <2>2 DEF Agrees, SameRids, SameSids, ridMaps, sidMaps
    <2> QED
      BY <1>9, <2>3
  <1>10. CASE ApplyOriginAdded
    <2>1. e.type = "OriginAdded" /\ Frame /\ UNCHANGED <<ridMaps, sidMaps, failed>>
      BY <1>10 DEF ApplyOriginAdded, Applying, ApplyFrame, historyVars
    <2>2. e.reg \in Registry /\ e.tgt \in Id /\ e.origin \in Origin
      BY <1>1, <2>1, EventTypes
    <2>3. /\ e.reg = "LIST" => /\ listBindings' = WithOrigin(listBindings, e.tgt, e.origin)
                               /\ UNCHANGED subsBindings
          /\ e.reg = "SUBS" => /\ subsBindings' = WithOrigin(subsBindings, e.tgt, e.origin)
                               /\ UNCHANGED listBindings
      BY <1>10 DEF ApplyOriginAdded
    <2> HIDE DEF e, Frame
    <2>4. \A k \in Id :
            /\ OriginsAt(listBindings', k) = LeftBy(e, "LIST", k, OriginsAt(listBindings, k))
            /\ OriginsAt(subsBindings', k) = LeftBy(e, "SUBS", k, OriginsAt(subsBindings, k))
      BY <1>3, <2>1, <2>2, <2>3, OriginKept DEF Registry, LeftBy
    <2> QED
      BY <1>9, <2>1, <2>4 DEF Frame
  <1>11. CASE ApplyOriginRemoved
    <2>1. e.type = "OriginRemoved" /\ Frame /\ UNCHANGED <<ridMaps, sidMaps, failed>>
      BY <1>11 DEF ApplyOriginRemoved, Applying, ApplyFrame, historyVars
    <2>2. e.reg \in Registry /\ e.tgt \in Id /\ e.origin \in Origin /\ e.theLastOne \in BOOLEAN
      BY <1>1, <2>1, EventTypes DEF Event
    <2>3. /\ e.reg = "LIST" =>
               /\ listBindings' = WithoutOrigin(listBindings, e.tgt, e.origin, e.theLastOne)
               /\ UNCHANGED subsBindings
          /\ e.reg = "SUBS" =>
               /\ subsBindings' = WithoutOrigin(subsBindings, e.tgt, e.origin, e.theLastOne)
               /\ UNCHANGED listBindings
      BY <1>11 DEF ApplyOriginRemoved
    <2>4. /\ e.reg = "LIST" => (e.theLastOne <=> OriginsAt(listBindings, e.tgt) = {e.origin})
          /\ e.reg = "SUBS" => (e.theLastOne <=> OriginsAt(subsBindings, e.tgt) = {e.origin})
      BY <1>2, <2>1, <2>2 DEF Expected, Told
    <2> HIDE DEF e, Frame
    <2>5. \A k \in Id :
            /\ OriginsAt(listBindings', k) = LeftBy(e, "LIST", k, OriginsAt(listBindings, k))
            /\ OriginsAt(subsBindings', k) = LeftBy(e, "SUBS", k, OriginsAt(subsBindings, k))
      <3>1. CASE e.reg = "LIST"
        <4>1. \A k \in Id : OriginsAt(listBindings', k) =
                IF k = e.tgt THEN OriginsAt(listBindings, e.tgt) \ {e.origin}
                ELSE OriginsAt(listBindings, k)
          BY <1>3, <2>2, <2>3, <2>4, <3>1, OriginOut
        <4> QED
          BY <2>1, <2>3, <3>1, <4>1 DEF LeftBy
      <3>2. CASE e.reg = "SUBS"
        <4>1. \A k \in Id : OriginsAt(subsBindings', k) =
                IF k = e.tgt THEN OriginsAt(subsBindings, e.tgt) \ {e.origin}
                ELSE OriginsAt(subsBindings, k)
          BY <1>3, <2>2, <2>3, <2>4, <3>2, OriginOut
        <4> QED
          BY <2>1, <2>3, <3>2, <4>1 DEF LeftBy
      <3> QED
        BY <2>2, <3>1, <3>2 DEF Registry
    <2> QED
      BY <1>9, <2>1, <2>5 DEF Frame
  <1>12. CASE ApplyRecordRemoved
    <2>1. e.type = "RecordRemoved" /\ Frame /\ UNCHANGED <<ridMaps, sidMaps, failed>>
      BY <1>12 DEF ApplyRecordRemoved, Applying, ApplyFrame, historyVars
    <2>2. e.reg \in Registry /\ e.tgt \in Id
      BY <1>1, <2>1, EventTypes
    <2>3. /\ e.reg = "LIST" => /\ listBindings' = WithoutRecord(listBindings, e.tgt)
                               /\ UNCHANGED subsBindings
          /\ e.reg = "SUBS" => /\ subsBindings' = WithoutRecord(subsBindings, e.tgt)
                               /\ UNCHANGED listBindings
      BY <1>12 DEF ApplyRecordRemoved
    <2> HIDE DEF e, Frame
    <2>4. \A k \in Id :
            /\ OriginsAt(listBindings', k) = LeftBy(e, "LIST", k, OriginsAt(listBindings, k))
            /\ OriginsAt(subsBindings', k) = LeftBy(e, "SUBS", k, OriginsAt(subsBindings, k))
      BY <1>3, <2>1, <2>2, <2>3, OriginGone DEF Registry, LeftBy
    <2> QED
      BY <1>9, <2>1, <2>4 DEF Frame
  <1> QED
    BY <1>4, <1>5, <1>6, <1>7, <1>8, <1>10, <1>11, <1>12 DEF Apply

(* The counters a replayed event moves.                                    *)
LEMMA CountStep ==
  ASSUME MaxInt \in Nat, NEW v, Sound(v), NEW e, Expected(v, e)
  PROVE  LET w == Restored(v, e) IN
         /\ w.ridCount = IF e.type = "RidSaved" THEN IncBy(v.ridCount, e.record.targetId)
                         ELSE v.ridCount
         /\ w.sidCount = IF e.type = "SidSaved" THEN IncBy(v.sidCount, e.tgt) ELSE v.sidCount
  <1> DEFINE w == Restored(v, e)
  <1>1. v \in Image /\ v.ok /\ e \in Event
    BY DEF Sound, Expected
  <1>2. CASE e.type = "RidSaved"
    BY <1>1, <1>2, AfterRidSaved DEF SameSids
  <1>3. CASE e.type = "RidRemoved"
    BY <1>1, <1>3, AfterRidRemoved DEF SameSids
  <1>4. CASE e.type = "SidSaved"
    BY <1>1, <1>4, AfterSidSaved DEF SameRids
  <1>5. CASE e.type = "SidRemoved"
    <2>1. v.pathBySid[e.tgt] # Nil
      BY <1>5 DEF Expected
    <2> QED
      BY <1>1, <1>5, <2>1, AfterSidRemoved DEF SameRids
  <1>6. CASE e.type \in {"OriginAdded", "OriginRemoved", "RecordRemoved"}
    <2>1. SameRids(v, w) /\ SameSids(v, w)
      BY <1>1, <1>6, AfterGroupEvent
    <2> QED
      BY <1>6, <2>1 DEF SameRids, SameSids
  <1> QED
    BY <1>1, <1>2, <1>3, <1>4, <1>5, <1>6, EventKinds

(* The handlers of persisted events keep the invariant.                    *)
LEMMA PersistedFollows ==
  ASSUME NoWrap, DInv, Persisted
  PROVE  DInv'
  <1>1. /\ Typed /\ ~failed /\ snapshot = Nil /\ journal \in Seq(Event) /\ Apply
        /\ UNCHANGED <<journal, snapshot>>
    BY DEF DInv, Persisted
  <1>2. PICK v : Following(v)
    BY DEF DInv
  <1>3. Typed' /\ batch' = Nil /\ events # <<>>
    <2>1. [Next]_vars
      BY <1>1 DEF Next
    <2> QED
      BY <1>1, <2>1, NextTypes DEF Apply, Applying, ApplyRidSaved, ApplyRidRemoved,
           ApplySidSaved, ApplySidRemoved, ApplySidRemovedThrows, ApplyOriginAdded,
           ApplyOriginRemoved, ApplyRecordRemoved
  <1>4. PICK w : w = Restored(v, Head(events))
    OBVIOUS
  <1>5. MaxInt \in Nat /\ Sound(v) /\ Agrees(v) /\ events \in Seq(Event) /\ Expecting(v, events)
    BY <1>1, <1>2 DEF NoWrap, Following, Typed
  <1>6. /\ Expected(v, Head(events)) /\ Sound(w) /\ Expecting(w, Tail(events))
        /\ Replay!Fold(v, events) = Replay!Fold(w, Tail(events))
        /\ RidsIn(w, Tail(events)) \subseteq RidsIn(v, events)
        /\ SidsIn(w, Tail(events)) \subseteq SidsIn(v, events)
    BY <1>3, <1>4, <1>5, ExpectedFirst
  <1>7. /\ Agrees(w)' /\ ~failed' /\ events' = Tail(events)
        /\ UNCHANGED <<ridCount, sidCount, sidTopic>>
    BY <1>1, <1>3, <1>4, <1>5, <1>6, HandlerAgrees
  <1>8. Recovered' = Recovered
    BY <1>1 DEF Recovered
  <1>9. Following(w)'
    <2>1. CountersAhead(v) /\ Recovered = Replay!Fold(v, events)
      BY <1>2 DEF Following
    <2>2. CountersAhead(w)'
      BY <1>6, <1>7, <1>8, <2>1 DEF CountersAhead
    <2>3. (Recovered = Replay!Fold(w, events))'
      BY <1>6, <1>7, <1>8, <2>1
    <2> QED
      BY <1>6, <1>7, <2>2, <2>3 DEF Following
  <1>10. (ordered # Nil => /\ ordered.upTo \in 0..Len(journal)
                           /\ ordered.list \cup ordered.subs \subseteq Id)'
    <2>1. CASE UNCHANGED ordered
      BY <1>1, <2>1 DEF DInv
    <2>2. CASE Order(TRUE)
      <3>1. /\ ordered'.upTo = Len(journal)
            /\ ordered'.list = Keys(listBindings') /\ ordered'.subs = Keys(subsBindings')
        BY <2>2 DEF Order
      <3>2. Len(journal) \in 0..Len(journal)
        BY <1>1
      <3> QED
        BY <1>1, <3>1, <3>2 DEF Keys
    <2> QED
      BY <2>1, <2>2 DEF Persisted
  <1> QED
    BY <1>1, <1>3, <1>7, <1>9, <1>10 DEF DInv, OneByOne

------------------------------------------------------------------------------
(* A command                                                               *)

(* What handing out target ids does to the counters, in memory and in what *)
(* the new events would be recovered to: an id that is handed out without  *)
(* a record of it moves the counter in memory only.                        *)
RidCounts(v, new) ==
  \/ /\ \A i \in 1..Len(new) : new[i].type # "RidSaved"
     /\ Replay!Fold(v, new).ridCount = v.ridCount
     /\ (UNCHANGED ridCount \/ NextRid)
  \/ /\ NextRid
     /\ \A i \in 1..Len(new) : new[i].type = "RidSaved" => new[i].record.targetId = ridCount
     /\ Replay!Fold(v, new).ridCount = IncBy(v.ridCount, ridCount)
SidCounts(v, new) ==
  \/ /\ \A i \in 1..Len(new) : new[i].type # "SidSaved"
     /\ Replay!Fold(v, new).sidCount = v.sidCount
     /\ UNCHANGED <<sidCount, sidTopic>>
  \/ /\ NextSid
     /\ \A i \in 1..Len(new) : new[i].type = "SidSaved" => new[i].tgt = sidCount
     /\ Replay!Fold(v, new).sidCount = IncBy(v.sidCount, sidCount)
     /\ \E p \in Path : sidTopic' = [sidTopic EXCEPT ![sidCount] = p]

(* A command persists the events new.                                      *)
Persists(v, new) ==
  /\ new \in Seq(Event)
  /\ events = <<>>
  /\ events' = new
  /\ Expecting(v, new)
  /\ RidCounts(v, new)
  /\ SidCounts(v, new)

(* The instance folds as the model does.                                   *)
LEMMA SameFold ==
  ASSUME NEW base, NEW s
  PROVE  FoldLeft(Restored, base, s) = Replay!Fold(base, s)
  BY DEF FoldLeft, MapThenFoldSet, Replay!Fold, Replay!FoldLeft, Replay!MapThenFoldSet, Max, Replay!Max

(* With no queued events the journal tells what is in memory, and with the *)
(* new ones what will be.                                                  *)
LEMMA JournalGrows ==
  ASSUME DInv, NEW v, Following(v), events = <<>>, events' \in Seq(Event), Journaled,
         UNCHANGED snapshot
  PROVE  /\ journal' \in Seq(Event) /\ Len(journal) <= Len(journal')
         /\ Recovered = v
         /\ Recovered' = Replay!Fold(v, events')
  <1> DEFINE new == events'
  <1>1. SubSeq(new, Len(events) + 1, Len(new)) = new
    <2>1. Len(events) = 0
      OBVIOUS
    <2>2. SubSeq(new, 1, Len(new)) = new
      OBVIOUS
    <2> QED
      BY <2>1, <2>2
  <1>2. journal' = journal \o new
    BY <1>1 DEF Journaled
  <1>3. journal \in Seq(Event) /\ snapshot = Nil
    BY DEF DInv
  <1>4. Recovered = v
    BY Replay!FoldEmpty DEF Following
  <1>5. Recovered = Replay!Fold(NoImage, journal) /\ Recovered' = Replay!Fold(NoImage, journal')
    BY <1>3, SameFold DEF Recovered
  <1>6. Replay!Fold(NoImage, journal \o new) = Replay!Fold(Replay!Fold(NoImage, journal), new)
    BY <1>3, Replay!FoldConcat
  <1>7. journal \o new \in Seq(Event) /\ Len(journal \o new) = Len(journal) + Len(new)
        /\ Len(new) \in Nat /\ Len(journal) \in Nat
    BY <1>3
  <1> QED
    BY <1>2, <1>4, <1>5, <1>6, <1>7

(* Such a command keeps the target RIDs in order.                          *)
LEMMA RidsGoOn ==
  ASSUME NoWrap, Typed, NEW v, Sound(v), CountersAhead(v), events = <<>>, Recovered = v,
         NEW new, Persists(v, new), Recovered' = Replay!Fold(v, new)
  PROVE  /\ Ahead(ridCount', Recovered'.ridCount)
         /\ \A k \in RidsIn(v, new) : k < ridCount' /\ k < Recovered'.ridCount
  <1> DEFINE c == ridCount
             r == v.ridCount
             x == Replay!Fold(v, new).ridCount
  <1>1. c \in Nat \ {0} /\ r \in Nat \ {0} /\ Ahead(c, r) /\ MaxId \in Nat
    BY EntitiesAssumption DEF Typed, RidTypeOK, Sound, Image, CountersAhead
  <1>2. \A k \in Id : v.byTarget[k] # Nil => k < c /\ k < r
    BY DEF CountersAhead, RidsIn
  <1>3. ASSUME NEW k \in RidsIn(v, new)
        PROVE  /\ k \in Nat
               /\ \/ k < c /\ k < r
                  \/ \E i \in 1..Len(new) : new[i].type = "RidSaved" /\ new[i].record.targetId = k
    BY <1>1, <1>2 DEF RidsIn, Id
  <1>4. /\ x = Recovered'.ridCount
        /\ \/ /\ \A i \in 1..Len(new) : new[i].type # "RidSaved"
              /\ x = r
              /\ (c' = c \/ NextRid)
           \/ /\ NextRid
              /\ \A i \in 1..Len(new) : new[i].type = "RidSaved" => new[i].record.targetId = c
              /\ x = IncBy(r, c)
    BY DEF Persists, RidCounts
  <1>5. ASSUME NextRid
        PROVE  /\ c' = c + 1
               /\ Ahead(c + 1, IncBy(r, c)) /\ IncBy(r, c) > c /\ IncBy(r, c) >= r
               /\ Ahead(c + 1, r)
    <2>1. c <= MaxId /\ c' = c + 1
      BY <1>5 DEF NextRid
    <2> QED
      BY <1>1, <2>1, AheadWhenSaved
  <1>6. IncBy(r, c) \in Nat \ {0}
    BY <1>1, IncByAdds DEF NoWrap
  <1> HIDE DEF c, r, x
  <1>7. Ahead(c', x)
    BY <1>1, <1>4, <1>5
  <1>8. ASSUME NEW k \in RidsIn(v, new) PROVE k < c' /\ k < x
    <2>1. CASE k < c /\ k < r
      BY <1>1, <1>3, <1>4, <1>5, <1>6, <2>1
    <2>2. CASE \E i \in 1..Len(new) : new[i].type = "RidSaved" /\ new[i].record.targetId = k
      <3>1. k = c /\ NextRid /\ x = IncBy(r, c)
        BY <1>4, <2>2
      <3> QED
        BY <1>1, <1>5, <1>6, <3>1
    <2> QED
      BY <1>3, <2>1, <2>2
  <1> QED
    BY <1>4, <1>7, <1>8 DEF c

(* And the target SIDs.                                                    *)
LEMMA SidsGoOn ==
  ASSUME NoWrap, Typed, NEW v, Sound(v), CountersAhead(v), events = <<>>, Recovered = v,
         NEW new, Persists(v, new), Recovered' = Replay!Fold(v, new)
  PROVE  /\ Ahead(sidCount', Recovered'.sidCount)
         /\ \A s \in SidsIn(v, new) : sidTopic'[s] # Nil
         /\ \A s \in Id : sidTopic'[s] # Nil => s < sidCount' /\ s < Recovered'.sidCount
  <1> DEFINE c == sidCount
             r == v.sidCount
             x == Replay!Fold(v, new).sidCount
  <1>1. /\ c \in Nat \ {0} /\ r \in Nat \ {0} /\ Ahead(c, r) /\ MaxId \in Nat
        /\ sidTopic \in [Id -> Path \cup {Nil}]
    BY EntitiesAssumption DEF Typed, SidTypeOK, Sound, Image, CountersAhead
  <1>2. /\ \A s \in Id : v.pathBySid[s] # Nil => sidTopic[s] # Nil
        /\ \A s \in Id : sidTopic[s] # Nil => s < c /\ s < r
    BY DEF CountersAhead, SidsIn
  <1>3. ASSUME NEW s \in SidsIn(v, new)
        PROVE  /\ s \in Id
               /\ \/ sidTopic[s] # Nil
                  \/ \E i \in 1..Len(new) : new[i].type = "SidSaved" /\ new[i].tgt = s
    BY <1>1, <1>2 DEF SidsIn
  <1>4. x = Recovered'.sidCount
    OBVIOUS
  <1>5. CASE /\ \A i \in 1..Len(new) : new[i].type # "SidSaved"
             /\ x = r
             /\ UNCHANGED <<sidCount, sidTopic>>
    BY <1>1, <1>2, <1>3, <1>4, <1>5
  <1>6. CASE /\ NextSid
             /\ \A i \in 1..Len(new) : new[i].type = "SidSaved" => new[i].tgt = sidCount
             /\ x = IncBy(r, c)
             /\ \E p \in Path : sidTopic' = [sidTopic EXCEPT ![sidCount] = p]
    <2>1. c \in Id /\ c <= MaxId /\ c' = c + 1
      BY <1>6, Issued DEF NextSid
    <2>2. /\ Ahead(c + 1, IncBy(r, c)) /\ IncBy(r, c) > c /\ IncBy(r, c) >= r
          /\ IncBy(r, c) \in Nat \ {0}
      BY <1>1, <2>1, AheadWhenSaved, IncByAdds DEF NoWrap
    <2>3. PICK p \in Path : sidTopic' = [sidTopic EXCEPT ![c] = p]
      BY <1>6
    <2>4. p # Nil
      BY EntitiesAssumption
    <2>5. \A s \in Id : sidTopic'[s] = IF s = c THEN p ELSE sidTopic[s]
      BY <1>1, <2>3
    <2> HIDE DEF c, r, x
    <2>6. \A s \in SidsIn(v, new) : sidTopic'[s] # Nil
      BY <1>3, <1>6, <2>4, <2>5 DEF c
    <2>7. ASSUME NEW s \in Id, sidTopic'[s] # Nil PROVE s < c' /\ s < x
      <3>1. s = c \/ (s < c /\ s < r)
        BY <1>2, <2>5, <2>7
      <3>2. s \in Nat
        BY DEF Id
      <3> QED
        BY <1>1, <1>6, <2>1, <2>2, <3>1, <3>2
    <2> QED
      BY <1>4, <1>6, <2>1, <2>2, <2>6, <2>7 DEF c
  <1> QED
    BY <1>5, <1>6 DEF Persists, SidCounts

(* A command whose events fit what is recovered keeps the invariant.       *)
LEMMA CommandFollows ==
  ASSUME NoWrap, DInv, NEW v, Following(v), NEW new, Persists(v, new), Journaled,
         Typed', OneByOne', UNCHANGED <<snapshot, ordered>>, ~failed', Agrees(v)'
  PROVE  DInv'
  <1>1. events = <<>> /\ events' = new /\ new \in Seq(Event) /\ Expecting(v, new)
    BY DEF Persists
  <1>2. /\ journal' \in Seq(Event) /\ Len(journal) <= Len(journal')
        /\ Recovered = v /\ Recovered' = Replay!Fold(v, new)
    BY <1>1, JournalGrows
  <1>3. Sound(v) /\ CountersAhead(v) /\ Typed
    BY DEF Following, DInv
  <1>4. CountersAhead(v)'
    BY <1>1, <1>2, <1>3, RidsGoOn, SidsGoOn DEF CountersAhead
  <1>5. Following(v)'
    BY <1>1, <1>2, <1>3, <1>4 DEF Following
  <1>6. (ordered # Nil => /\ ordered.upTo \in 0..Len(journal)
                          /\ ordered.list \cup ordered.subs \subseteq Id)'
    <2>1. ordered # Nil => /\ ordered.upTo \in 0..Len(journal)
                           /\ ordered.list \cup ordered.subs \subseteq Id
      BY DEF DInv
    <2>2. Len(journal) \in Nat /\ Len(journal') \in Nat
      BY <1>2 DEF DInv
    <2> QED
      BY <1>2, <2>1, <2>2
  <1> QED
    BY <1>2, <1>5, <1>6 DEF DInv

(* A counter of value n after the event e was replayed.                    *)
RidAfter(n, e) == IF e.type = "RidSaved" THEN IncBy(n, e.record.targetId) ELSE n
SidAfter(n, e) == IF e.type = "SidSaved" THEN IncBy(n, e.tgt) ELSE n

(* A command that persists no event.                                       *)
LEMMA NoneExpected ==
  ASSUME NEW v
  PROVE  /\ <<>> \in Seq(Event) /\ Expecting(v, <<>>)
         /\ Replay!Fold(v, <<>>) = v
  BY Unrolled DEF Expecting

(* One event.                                                              *)
LEMMA OneExpected ==
  ASSUME MaxInt \in Nat, NEW v, Sound(v), NEW a, Expected(v, a)
  PROVE  /\ <<a>> \in Seq(Event) /\ Expecting(v, <<a>>)
         /\ Replay!Fold(v, <<a>>).ridCount = RidAfter(v.ridCount, a)
         /\ Replay!Fold(v, <<a>>).sidCount = SidAfter(v.sidCount, a)
  <1>1. a \in Event
    BY DEF Expected
  <1>2. Expecting(v, <<a>>)
    BY DEF Expecting
  <1>3. Replay!Fold(v, <<a>>) = Restored(v, a)
    BY <1>1, Unrolled
  <1> QED
    BY <1>1, <1>2, <1>3, CountStep DEF RidAfter, SidAfter

(* Two events.                                                             *)
LEMMA TwoExpected ==
  ASSUME MaxInt \in Nat, NEW v, Sound(v), NEW a, NEW b, Expected(v, a),
         Expected(Restored(v, a), b)
  PROVE  /\ <<a, b>> \in Seq(Event) /\ Expecting(v, <<a, b>>)
         /\ Replay!Fold(v, <<a, b>>).ridCount = RidAfter(RidAfter(v.ridCount, a), b)
         /\ Replay!Fold(v, <<a, b>>).sidCount = SidAfter(SidAfter(v.sidCount, a), b)
  <1> DEFINE w == Restored(v, a)
  <1>1. a \in Event /\ b \in Event
    BY DEF Expected
  <1>2. Expecting(v, <<a, b>>)
    BY DEF Expecting
  <1>3. Sound(w)
    BY SoundStep
  <1>4. w.ridCount = RidAfter(v.ridCount, a) /\ w.sidCount = SidAfter(v.sidCount, a)
    BY CountStep DEF RidAfter, SidAfter
  <1>5. Replay!Fold(v, <<a, b>>) = Restored(w, b) /\ Expected(w, b)
    <2>1. \A f, g \in Event : Replay!Fold(v, <<f, g>>) = Restored(Restored(v, f), g)
      BY Unrolled
    <2> QED
      BY <1>1, <2>1
  <1> HIDE DEF w
  <1>6. /\ Restored(w, b).ridCount = RidAfter(w.ridCount, b)
        /\ Restored(w, b).sidCount = SidAfter(w.sidCount, b)
    BY <1>3, <1>5, CountStep DEF RidAfter, SidAfter
  <1> QED
    BY <1>1, <1>2, <1>4, <1>5, <1>6

(* Three events.                                                           *)
LEMMA ThreeExpected ==
  ASSUME MaxInt \in Nat, NEW v, Sound(v), NEW a, NEW b, NEW c, Expected(v, a),
         Expected(Restored(v, a), b), Expected(Restored(Restored(v, a), b), c)
  PROVE  /\ <<a, b, c>> \in Seq(Event) /\ Expecting(v, <<a, b, c>>)
         /\ Replay!Fold(v, <<a, b, c>>).ridCount =
              RidAfter(RidAfter(RidAfter(v.ridCount, a), b), c)
         /\ Replay!Fold(v, <<a, b, c>>).sidCount =
              SidAfter(SidAfter(SidAfter(v.sidCount, a), b), c)
  <1> DEFINE w == Restored(v, a)
             x == Restored(w, b)
  <1>1. a \in Event /\ b \in Event /\ c \in Event
    BY DEF Expected
  <1>2. Expecting(v, <<a, b, c>>)
    BY DEF Expecting
  <1>3. Sound(w)
    BY SoundStep
  <1>4. w.ridCount = RidAfter(v.ridCount, a) /\ w.sidCount = SidAfter(v.sidCount, a)
    BY CountStep DEF RidAfter, SidAfter
  <1>5. Replay!Fold(v, <<a, b, c>>) = Restored(x, c) /\ Expected(w, b) /\ Expected(x, c)
    BY <1>1, Unrolled
  <1> HIDE DEF w
  <1>6. Sound(x)
    BY <1>3, <1>5, SoundStep
  <1>7. x.ridCount = RidAfter(w.ridCount, b) /\ x.sidCount = SidAfter(w.sidCount, b)
    BY <1>3, <1>5, CountStep DEF RidAfter, SidAfter
  <1> HIDE DEF x
  <1>8. /\ Restored(x, c).ridCount = RidAfter(x.ridCount, c)
        /\ Restored(x, c).sidCount = SidAfter(x.sidCount, c)
    BY <1>5, <1>6, CountStep DEF RidAfter, SidAfter
  <1> QED
    BY <1>1, <1>2, <1>4, <1>5, <1>7, <1>8

(* What the counters hand out stands for nothing yet.                      *)
LEMMA FreshIds ==
  ASSUME DInv, NEW v, Following(v)
  PROVE  /\ NextRid => ridCount \in Id /\ v.byTarget[ridCount] = Nil
         /\ NextSid => sidCount \in Id /\ v.pathBySid[sidCount] = Nil
  <1>1. Typed /\ CountersAhead(v)
    BY DEF DInv, Following
  <1>2. ridCount \in Nat /\ sidCount \in Nat
    BY <1>1 DEF Typed, RidTypeOK, SidTypeOK
  <1>3. ASSUME ridCount \in Id PROVE v.byTarget[ridCount] = Nil
    <2>1. ridCount \notin RidsIn(v, events)
      BY <1>1, <1>2 DEF CountersAhead
    <2> QED
      BY <1>3, <2>1 DEF RidsIn
  <1>4. ASSUME sidCount \in Id PROVE v.pathBySid[sidCount] = Nil
    <2>1. sidTopic[sidCount] = Nil
      BY <1>1, <1>2, <1>4 DEF CountersAhead
    <2>2. sidCount \notin SidsIn(v, events)
      BY <1>1, <2>1 DEF CountersAhead
    <2> QED
      BY <1>4, <2>2 DEF SidsIn
  <1> QED
    BY <1>1, <1>3, <1>4, Issued

(* A LIST request.                                                         *)
LEMMA ListPersists ==
  ASSUME MaxInt \in Nat, MaxBatch = 1, DInv, NEW v, Following(v), NEW src \in Requester,
         HandleList(src)
  PROVE  Persists(v, events') /\ OneByOne'
  <1> DEFINE o == [source |-> src, id |-> nextRid[src]]
             path == PathOf[o]
  <1>1. Typed /\ OneByOne /\ Sound(v) /\ Agrees(v)
    BY DEF DInv, Following
  <1>2. o \in RidOrigin /\ o \in Origin /\ path \in Path /\ path # Nil
    BY <1>1, FreshRidTypes, EntitiesAssumption DEF HandleList, Origin
  <1>3. InEnvelope(src) /\ UNCHANGED <<sidCount, sidTopic>>
    BY DEF HandleList
  <1>4. CASE callsByPath[path] = Nil
    <2> DEFINE e == RidSaved("List", ridCount, Nil, path)
               added == OriginAdded("LIST", ridCount, o)
               w == Restored(v, e)
    <2>1. NextRid /\ Persisting(src, <<e, added>>)
      BY <1>4 DEF HandleList
    <2>2. ridCount \in Id /\ v.byTarget[ridCount] = Nil
      BY <2>1, FreshIds
    <2>3. /\ e \in Event /\ e.type = "RidSaved" /\ e.record.targetId = ridCount
          /\ e.record.path = path /\ e.record # Nil
          /\ added \in Event /\ added.type = "OriginAdded" /\ added.reg = "LIST"
          /\ added.tgt = ridCount /\ added.origin = o
      <3>1. e \in Event /\ added \in Event
        BY <1>2, <2>2, SavedTypes DEF Registry
      <3>2. e.record \in LookupRecord /\ e.type = "RidSaved"
        BY <3>1, EventTypes DEF RidSaved
      <3>3. e.record # Nil
        BY <3>2, RidRegistryAssumption
      <3> QED
        BY <3>1, <3>2, <3>3 DEF RidSaved, OriginAdded
    <2> HIDE DEF e, added
    <2>4. Expected(v, e)
      BY <1>1, <1>4, <2>2, <2>3 DEF Expected, Agrees
    <2>5. Expected(w, added)
      <3>1. w.byTarget = [v.byTarget EXCEPT ![ridCount] = e.record]
        <4>1. v \in Image /\ v.ok
          BY <1>1 DEF Sound
        <4>2. w.byTarget = [v.byTarget EXCEPT ![e.record.targetId] = e.record]
          BY <2>3, <4>1, AfterRidSaved
        <4> QED
          BY ONLY <2>3, <4>2
      <3>2. w.byTarget[ridCount] = e.record
        BY <1>1, <2>2, <3>1 DEF Sound, Image
      <3> HIDE DEF w
      <3> QED
        BY <1>2, <2>3, <3>2 DEF Expected
    <2>6. /\ <<e, added>> \in Seq(Event) /\ Expecting(v, <<e, added>>)
          /\ Replay!Fold(v, <<e, added>>).ridCount = RidAfter(RidAfter(v.ridCount, e), added)
          /\ Replay!Fold(v, <<e, added>>).sidCount = SidAfter(SidAfter(v.sidCount, e), added)
      BY <1>1, <2>4, <2>5, TwoExpected
    <2>7. events = <<>> /\ events' = <<e, added>> /\ OneByOne'
      BY <1>1, <1>3, <2>1, <2>6, OneAtATime
    <2>8. RidCounts(v, <<e, added>>) /\ SidCounts(v, <<e, added>>)
      BY <1>3, <2>1, <2>3, <2>6 DEF RidCounts, SidCounts, RidAfter, SidAfter
    <2> QED
      BY <2>6, <2>7, <2>8 DEF Persists
  <1>5. CASE callsByPath[path] # Nil
    <2> DEFINE k == callsByPath[path].targetId
               added == OriginAdded("LIST", k, o)
    <2>1. Persisting(src, <<added>>) /\ UNCHANGED ridCount
      BY <1>5 DEF HandleList
    <2>2. k \in Id
      BY <1>1, <1>2, <1>5, RecordTypes DEF Typed, RidTypeOK
    <2>3. /\ added \in Event /\ added.type = "OriginAdded" /\ added.reg = "LIST"
          /\ added.tgt = k /\ added.origin = o
      BY <1>2, <2>2, SavedTypes DEF Registry, OriginAdded
    <2>4. v.byTarget[k] # Nil /\ v.byTarget[k].path = path
      BY <1>1, <1>2, <1>5 DEF Agrees, Sound, RidsMatch
    <2> HIDE DEF k, added
    <2>5. Expected(v, added)
      BY <1>2, <2>3, <2>4 DEF Expected
    <2>6. /\ <<added>> \in Seq(Event) /\ Expecting(v, <<added>>)
          /\ Replay!Fold(v, <<added>>).ridCount = v.ridCount
          /\ Replay!Fold(v, <<added>>).sidCount = v.sidCount
      BY <1>1, <2>3, <2>5, OneExpected DEF RidAfter, SidAfter
    <2>7. events = <<>> /\ events' = <<added>> /\ OneByOne'
      BY <1>1, <1>3, <2>1, <2>6, OneAtATime
    <2>8. RidCounts(v, <<added>>) /\ SidCounts(v, <<added>>)
      BY <1>3, <2>1, <2>3, <2>6 DEF RidCounts, SidCounts
    <2> QED
      BY <2>6, <2>7, <2>8 DEF Persists
  <1> QED
    BY <1>4, <1>5

(* The record of a call fits under an id that is free.                     *)
LEMMA CallExpected ==
  ASSUME NEW v, NEW k \in Id, v.byTarget[k] = Nil, NEW m \in CallMethod, NEW o \in RidOrigin
  PROVE  LET e == RidSaved(m, k, o, Nil) IN
         e.type = "RidSaved" /\ e.record.targetId = k /\ Expected(v, e)
  <1> DEFINE e == RidSaved(m, k, o, Nil)
  <1>1. e \in Event /\ e.type = "RidSaved" /\ e.record.targetId = k /\ e.record.path = Nil
    BY SavedTypes DEF RidSaved
  <1> HIDE DEF e
  <1>2. Expected(v, e)
    BY <1>1 DEF Expected
  <1> QED
    BY <1>1, <1>2 DEF e

(* A SET, REMOVE or INVOKE request.                                        *)
LEMMA CallPersists ==
  ASSUME MaxInt \in Nat, MaxBatch = 1, DInv, NEW v, Following(v), NEW src \in Requester,
         HandleCall(src)
  PROVE  Persists(v, events') /\ OneByOne'
  <1> DEFINE o == [source |-> src, id |-> nextRid[src]]
             e == RidSaved("Call", ridCount, o, Nil)
  <1>1. Typed /\ OneByOne /\ Sound(v)
    BY DEF DInv, Following
  <1>2. /\ InEnvelope(src) /\ NextRid /\ FreshRid(src) /\ Persisting(src, <<e>>)
        /\ UNCHANGED <<sidCount, sidTopic>>
    BY DEF HandleCall
  <1>3. ridCount \in Id /\ v.byTarget[ridCount] = Nil /\ o \in RidOrigin
    BY <1>1, <1>2, FreshIds, FreshRidTypes
  <1>4. e.type = "RidSaved" /\ e.record.targetId = ridCount /\ Expected(v, e)
    BY <1>3, CallExpected DEF CallMethod
  <1> HIDE DEF e
  <1>5. /\ <<e>> \in Seq(Event) /\ Expecting(v, <<e>>)
        /\ Replay!Fold(v, <<e>>).ridCount = IncBy(v.ridCount, ridCount)
        /\ Replay!Fold(v, <<e>>).sidCount = v.sidCount
    BY <1>1, <1>4, OneExpected DEF RidAfter, SidAfter
  <1>6. events = <<>> /\ events' = <<e>> /\ OneByOne'
    BY <1>1, <1>2, <1>5, OneAtATime
  <1>7. RidCounts(v, <<e>>) /\ SidCounts(v, <<e>>)
    BY <1>2, <1>4, <1>5 DEF RidCounts, SidCounts
  <1> QED
    BY <1>5, <1>6, <1>7 DEF Persists

(* A SUBSCRIBE request.                                                    *)
LEMMA SubscribePersists ==
  ASSUME MaxInt \in Nat, MaxBatch = 1, DInv, NEW v, Following(v), NEW src \in Requester,
         NEW sid \in SidNum, HandleSubscribe(src, sid)
  PROVE  Persists(v, events') /\ OneByOne'
  <1> DEFINE o == [source |-> src, id |-> sid]
             asker == [source |-> src, id |-> nextRid[src]]
             path == PathOf[o]
  <1>1. Typed /\ OneByOne /\ Sound(v) /\ Agrees(v) /\ v \in Image /\ v.ok
    BY DEF DInv, Following, Sound
  <1>2. o \in SidOrigin /\ o \in Origin /\ path \in Path /\ path # Nil /\ asker \in RidOrigin
    BY <1>1, FreshRidTypes, EntitiesAssumption DEF HandleSubscribe, Origin, SidOrigin
  <1>3. InEnvelope(src) /\ NextRid
    BY DEF HandleSubscribe
  <1>4. ridCount \in Id /\ v.byTarget[ridCount] = Nil
    BY <1>3, FreshIds
  <1>5. CASE sidByPath[path] = Nil
    <2> DEFINE e == RidSaved("Subscribe", ridCount, asker, Nil)
               saved == SidSaved(path, sidCount)
               added == OriginAdded("SUBS", sidCount, o)
               w == Restored(v, e)
               x == Restored(w, saved)
    <2>1. /\ NextSid /\ Persisting(src, <<e, saved, added>>)
          /\ sidTopic' = [sidTopic EXCEPT ![sidCount] = path]
      BY <1>5 DEF HandleSubscribe
    <2>2. sidCount \in Id /\ v.pathBySid[sidCount] = Nil
      BY <2>1, FreshIds
    <2>3. e.type = "RidSaved" /\ e.record.targetId = ridCount /\ Expected(v, e)
      BY <1>2, <1>4, CallExpected DEF CallMethod
    <2>4. /\ saved \in Event /\ saved.type = "SidSaved" /\ saved.path = path
          /\ saved.tgt = sidCount
          /\ added \in Event /\ added.type = "OriginAdded" /\ added.reg = "SUBS"
          /\ added.tgt = sidCount /\ added.origin = o
      BY <1>2, <2>2, SavedTypes DEF Registry, SidSaved, OriginAdded
    <2> HIDE DEF e, saved, added
    <2>5. Sound(w) /\ w \in Image /\ w.ok /\ SameSids(v, w)
      <3>1. e \in Event
        BY <2>3 DEF Expected
      <3>2. Sound(w)
        BY <1>1, <2>3, SoundStep
      <3>3. SameSids(v, w)
        BY <1>1, <2>3, <3>1, AfterRidSaved
      <3> QED
        BY <3>2, <3>3 DEF Sound
    <2> HIDE DEF w
    <2>6. Expected(w, saved)
      <3>1. w.sidByPath[path] = Nil /\ w.pathBySid[sidCount] = Nil
        BY <1>1, <1>5, <2>2, <2>5 DEF Agrees, SameSids
      <3> QED
        BY <2>4, <3>1 DEF Expected
    <2>7. Expected(x, added)
      <3>1. x.pathBySid = [w.pathBySid EXCEPT ![saved.tgt] = saved.path]
        BY <2>4, <2>5, AfterSidSaved
      <3>2. w.pathBySid \in [Id -> Path \cup {Nil}]
        BY <2>5 DEF Image
      <3>3. x.pathBySid[sidCount] = path
        BY <2>2, <2>4, <3>1, <3>2
      <3> HIDE DEF x
      <3> QED
        BY <1>2, <2>4, <3>3 DEF Expected
    <2> DEFINE new == <<e, saved, added>>
    <2>8. /\ new \in Seq(Event) /\ Expecting(v, new)
          /\ Replay!Fold(v, new).ridCount = RidAfter(RidAfter(RidAfter(v.ridCount, e), saved), added)
          /\ Replay!Fold(v, new).sidCount = SidAfter(SidAfter(SidAfter(v.sidCount, e), saved), added)
      BY <1>1, <2>3, <2>6, <2>7, ThreeExpected DEF w
    <2>9. events = <<>> /\ events' = new /\ OneByOne'
      BY <1>1, <1>3, <2>1, <2>8, OneAtATime
    <2>10. /\ Replay!Fold(v, new).ridCount = IncBy(v.ridCount, ridCount)
           /\ Replay!Fold(v, new).sidCount = IncBy(v.sidCount, sidCount)
      BY <2>3, <2>4, <2>8 DEF RidAfter, SidAfter
    <2>11. RidCounts(v, new)
      BY <1>3, <2>3, <2>4, <2>10 DEF RidCounts
    <2>12. \A i \in 1..Len(new) : new[i].type = "SidSaved" => new[i].tgt = sidCount
      BY <2>3, <2>4
    <2> HIDE DEF new
    <2>13. SidCounts(v, new)
      BY <1>2, <2>1, <2>10, <2>12 DEF SidCounts
    <2> QED
      BY <2>8, <2>9, <2>11, <2>13 DEF Persists
  <1>6. CASE sidByPath[path] # Nil
    <2> DEFINE s == sidByPath[path]
               added == OriginAdded("SUBS", s, o)
    <2>1. Persisting(src, <<added>>) /\ UNCHANGED <<sidCount, sidTopic>>
      BY <1>6 DEF HandleSubscribe
    <2>2. s \in Id /\ v.pathBySid[s] = path
      BY <1>1, <1>2, <1>6 DEF Typed, SidTypeOK, Agrees, Sound, SidsMatch
    <2>3. /\ added \in Event /\ added.type = "OriginAdded" /\ added.reg = "SUBS"
          /\ added.tgt = s /\ added.origin = o
      BY <1>2, <2>2, SavedTypes DEF Registry, OriginAdded
    <2> HIDE DEF s, added
    <2>4. Expected(v, added)
      BY <1>2, <2>2, <2>3 DEF Expected
    <2>5. /\ <<added>> \in Seq(Event) /\ Expecting(v, <<added>>)
          /\ Replay!Fold(v, <<added>>).ridCount = v.ridCount
          /\ Replay!Fold(v, <<added>>).sidCount = v.sidCount
      BY <1>1, <2>3, <2>4, OneExpected DEF RidAfter, SidAfter
    <2>6. events = <<>> /\ events' = <<added>> /\ OneByOne'
      BY <1>1, <1>3, <2>1, <2>5, OneAtATime
    <2>7. RidCounts(v, <<added>>) /\ SidCounts(v, <<added>>)
      BY <1>3, <2>1, <2>3, <2>5 DEF RidCounts, SidCounts
    <2> QED
      BY <2>5, <2>6, <2>7 DEF Persists
  <1> QED
    BY <1>5, <1>6

(* An origin may be taken out where it listens.                            *)
LEMMA OutExpected ==
  ASSUME NEW v, NEW reg \in Registry, NEW k \in Id, NEW o \in Origin,
         o \in OriginsAt(Told(v, reg), k)
  PROVE  /\ OriginsAt(Told(v, reg), k) # {o} => Expected(v, OriginRemoved(reg, k, o, FALSE))
         /\ OriginsAt(Told(v, reg), k) = {o} => Expected(v, OriginRemoved(reg, k, o, TRUE))
  <1> DEFINE e == OriginRemoved(reg, k, o, FALSE)
             f == OriginRemoved(reg, k, o, TRUE)
  <1>1. e \in Event /\ f \in Event
    BY SavedTypes
  <1>2. /\ e.type = "OriginRemoved" /\ e.reg = reg /\ e.tgt = k /\ e.origin = o
        /\ e.theLastOne = FALSE
        /\ f.type = "OriginRemoved" /\ f.reg = reg /\ f.tgt = k /\ f.origin = o
        /\ f.theLastOne = TRUE
    BY DEF OriginRemoved
  <1> HIDE DEF e, f
  <1>3. OriginsAt(Told(v, reg), k) # {o} => Expected(v, e)
    BY <1>1, <1>2 DEF Expected
  <1>4. OriginsAt(Told(v, reg), k) = {o} => Expected(v, f)
    BY <1>1, <1>2 DEF Expected
  <1> QED
    BY <1>3, <1>4 DEF e, f

(* Where the last origin was taken out, nobody listens.                    *)
LEMMA LastOut ==
  ASSUME NEW v, Sound(v), NEW reg \in Registry, NEW k \in Id, NEW o,
         OriginsAt(Told(v, reg), k) = {o}, NEW e, Expected(v, e),
         e.type = "OriginRemoved" /\ e.reg = reg /\ e.tgt = k /\ e.origin = o
  PROVE  LET w == Restored(v, e) IN
         /\ OriginsAt(Told(w, reg), k) = {}
         /\ SameRids(v, w) /\ SameSids(v, w) /\ w \in Image /\ w.ok
  <1>1. OriginsAt(Told(Restored(v, e), reg), k) = LeftBy(e, reg, k, OriginsAt(Told(v, reg), k))
    BY ListenersAfter
  <1>2. v \in Image /\ v.ok /\ e \in Event
    BY DEF Sound, Expected
  <1> QED
    BY <1>1, <1>2, AfterGroupEvent DEF LeftBy

(* An UNSUBSCRIBE request.                                                 *)
LEMMA UnsubscribePersists ==
  ASSUME MaxInt \in Nat, MaxBatch = 1, DInv, NEW v, Following(v), NEW src \in Requester,
         NEW sid \in SidNum, HandleUnsubscribe(src, sid)
  PROVE  Persists(v, events') /\ OneByOne'
  <1> DEFINE o == [source |-> src, id |-> sid]
             asker == [source |-> src, id |-> nextRid[src]]
             bound == BindingsOf(subsBindings, o)
  <1>1. Typed /\ OneByOne /\ Sound(v) /\ Agrees(v) /\ v \in Image /\ v.ok
    BY DEF DInv, Following, Sound
  <1>2. o \in SidOrigin /\ o \in Origin /\ asker \in RidOrigin
    BY <1>1, FreshRidTypes DEF HandleUnsubscribe, Origin, SidOrigin
  <1>3. InEnvelope(src) /\ UNCHANGED <<sidCount, sidTopic>>
    BY DEF HandleUnsubscribe
  <1>4. "SUBS" \in Registry /\ Told(v, "SUBS") = v.subs
    BY DEF Registry, Told
  <1>5. \A s \in Id : OriginsAt(v.subs, s) = OriginsAt(subsBindings, s)
    BY <1>1 DEF Agrees
  <1> HIDE DEF o, asker
  <1>6. CASE Persisting(src, <<>>) /\ UNCHANGED ridCount
    <2>1. events = <<>> /\ events' = <<>> /\ OneByOne'
      BY <1>1, <1>3, <1>6, NoneExpected, OneAtATime
    <2>2. Persists(v, <<>>)
      BY <1>3, <1>6, <2>1, NoneExpected DEF Persists, RidCounts, SidCounts
    <2> QED
      BY <2>1, <2>2
  <1>7. ASSUME NEW s \in bound, ~IsLast(subsBindings, s, o),
               Persisting(src, <<OriginRemoved("SUBS", s, o, FALSE)>>), UNCHANGED ridCount
        PROVE  Persists(v, events') /\ OneByOne'
    <2> DEFINE removed == OriginRemoved("SUBS", s, o, FALSE)
    <2>1. s \in Id /\ o \in OriginsAt(Told(v, "SUBS"), s) /\ OriginsAt(Told(v, "SUBS"), s) # {o}
      BY <1>4, <1>5, <1>7 DEF BindingsOf, IsLast
    <2>2. removed.type = "OriginRemoved" /\ Expected(v, removed)
      <3>1. Expected(v, removed)
        BY <1>2, <1>4, <2>1, OutExpected
      <3> QED
        BY <3>1 DEF OriginRemoved
    <2> HIDE DEF removed
    <2>3. /\ <<removed>> \in Seq(Event) /\ Expecting(v, <<removed>>)
          /\ Replay!Fold(v, <<removed>>).ridCount = v.ridCount
          /\ Replay!Fold(v, <<removed>>).sidCount = v.sidCount
      BY <1>1, <2>2, OneExpected DEF RidAfter, SidAfter
    <2>4. events = <<>> /\ events' = <<removed>> /\ OneByOne'
      <3>1. Persisting(src, <<removed>>)
        BY <1>7 DEF removed
      <3> QED
        BY <1>1, <1>3, <2>3, <3>1, OneAtATime
    <2>5. RidCounts(v, <<removed>>) /\ SidCounts(v, <<removed>>)
      BY <1>3, <1>7, <2>2, <2>3 DEF RidCounts, SidCounts
    <2> QED
      BY <2>3, <2>4, <2>5 DEF Persists
  <1>8. ASSUME NEW s \in bound, IsLast(subsBindings, s, o), NextRid,
               Persisting(src, <<OriginRemoved("SUBS", s, o, TRUE), SidRemoved(s),
                                 RidSaved("Unsubscribe", ridCount, asker, Nil)>>)
        PROVE  Persists(v, events') /\ OneByOne'
    <2> DEFINE removed == OriginRemoved("SUBS", s, o, TRUE)
               gone == SidRemoved(s)
               e == RidSaved("Unsubscribe", ridCount, asker, Nil)
               w == Restored(v, removed)
               x == Restored(w, gone)
               new == <<removed, gone, e>>
    <2>1. /\ s \in Id /\ OriginsAt(Told(v, "SUBS"), s) = {o}
          /\ o \in OriginsAt(Told(v, "SUBS"), s)
      BY <1>4, <1>5, <1>8 DEF BindingsOf, IsLast
    <2>2. /\ removed.type = "OriginRemoved" /\ removed.reg = "SUBS" /\ removed.tgt = s
          /\ removed.origin = o /\ Expected(v, removed)
      <3>1. Expected(v, removed)
        BY <1>2, <1>4, <2>1, OutExpected
      <3> QED
        BY <3>1 DEF OriginRemoved
    <2>3. gone \in Event /\ gone.type = "SidRemoved" /\ gone.tgt = s
      BY <2>1, SavedTypes DEF SidRemoved
    <2>4. Persisting(src, new)
      BY <1>8
    <2>5. ridCount \in Id /\ v.byTarget[ridCount] = Nil
      BY <1>8, FreshIds
    <2> HIDE DEF removed, gone
    <2>6. /\ OriginsAt(Told(w, "SUBS"), s) = {}
          /\ SameRids(v, w) /\ SameSids(v, w) /\ w \in Image /\ w.ok
      BY <1>1, <1>4, <2>1, <2>2, LastOut
    <2>7. Sound(w)
      BY <1>1, <2>2, SoundStep
    <2> HIDE DEF w
    <2>8. Expected(w, gone)
      <3>1. v.pathBySid[s] = PathOf[o] /\ PathOf[o] # Nil
        BY <1>1, <1>2, <1>4, <2>1, EntitiesAssumption DEF Sound, ListenersMatch
      <3>2. w.pathBySid[s] # Nil /\ OriginsAt(w.subs, s) = {}
        BY <2>6, <3>1 DEF SameSids, Told
      <3> QED
        BY <2>3, <3>2 DEF Expected
    <2>9. SameRids(w, x)
      <3>1. w.pathBySid[gone.tgt] # Nil
        BY <2>3, <2>8 DEF Expected
      <3> QED
        BY <2>3, <2>6, <3>1, AfterSidRemoved
    <2> HIDE DEF x
    <2>10. e.type = "RidSaved" /\ e.record.targetId = ridCount /\ Expected(x, e)
      <3>1. x.byTarget[ridCount] = Nil
        BY <2>5, <2>6, <2>9 DEF SameRids
      <3> QED
        BY <1>2, <2>5, <3>1, CallExpected DEF CallMethod
    <2> HIDE DEF e
    <2>11. /\ new \in Seq(Event) /\ Expecting(v, new)
           /\ Replay!Fold(v, new).ridCount = RidAfter(RidAfter(RidAfter(v.ridCount, removed), gone), e)
           /\ Replay!Fold(v, new).sidCount = SidAfter(SidAfter(SidAfter(v.sidCount, removed), gone), e)
      BY <1>1, <2>2, <2>8, <2>10, ThreeExpected DEF w, x
    <2>12. events = <<>> /\ events' = new /\ OneByOne'
      BY <1>1, <1>3, <2>4, <2>11, OneAtATime
    <2>13. /\ Replay!Fold(v, new).ridCount = IncBy(v.ridCount, ridCount)
           /\ Replay!Fold(v, new).sidCount = v.sidCount
      BY <2>2, <2>3, <2>10, <2>11 DEF RidAfter, SidAfter
    <2>14. /\ \A i \in 1..Len(new) : new[i].type = "RidSaved" => new[i].record.targetId = ridCount
           /\ \A i \in 1..Len(new) : new[i].type # "SidSaved"
      BY <2>2, <2>3, <2>10
    <2> HIDE DEF new
    <2>15. RidCounts(v, new) /\ SidCounts(v, new)
      BY <1>3, <1>8, <2>13, <2>14 DEF RidCounts, SidCounts
    <2> QED
      BY <2>11, <2>12, <2>15 DEF Persists
  <1>9. \/ Persisting(src, <<>>) /\ UNCHANGED ridCount
        \/ \E s \in bound :
             /\ ~IsLast(subsBindings, s, o) /\ UNCHANGED ridCount
             /\ Persisting(src, <<OriginRemoved("SUBS", s, o, FALSE)>>)
        \/ \E s \in bound :
             /\ IsLast(subsBindings, s, o) /\ NextRid
             /\ Persisting(src, <<OriginRemoved("SUBS", s, o, TRUE), SidRemoved(s),
                                  RidSaved("Unsubscribe", ridCount, asker, Nil)>>)
    BY DEF HandleUnsubscribe, o, asker
  <1> HIDE DEF bound
  <1> QED
    BY <1>6, <1>7, <1>8, <1>9

(* A CLOSE request.                                                        *)
LEMMA ClosePersists ==
  ASSUME MaxInt \in Nat, MaxBatch = 1, DInv, NEW v, Following(v), NEW src \in Requester,
         NEW rid \in RidNum, HandleClose(src, rid)
  PROVE  Persists(v, events') /\ OneByOne'
  <1> DEFINE o == [source |-> src, id |-> rid]
             bound == BindingsOf(listBindings, o)
  <1>1. Typed /\ OneByOne /\ Sound(v) /\ Agrees(v) /\ v \in Image /\ v.ok
    BY DEF DInv, Following, Sound
  <1>2. o \in RidOrigin /\ o \in Origin
    BY DEF RidOrigin, Origin
  <1>3. InEnvelope(src) /\ UNCHANGED <<ridCount, sidCount, sidTopic>>
    BY DEF HandleClose
  <1>4. "LIST" \in Registry /\ Told(v, "LIST") = v.list
    BY DEF Registry, Told
  <1>5. \A k \in Id : OriginsAt(v.list, k) = OriginsAt(listBindings, k)
    BY <1>1 DEF Agrees
  <1> HIDE DEF o
  <1>6. CASE Persisting(src, <<>>)
    <2>1. events = <<>> /\ events' = <<>> /\ OneByOne'
      BY <1>1, <1>3, <1>6, NoneExpected, OneAtATime
    <2>2. Persists(v, <<>>)
      BY <1>3, <1>6, <2>1, NoneExpected DEF Persists, RidCounts, SidCounts
    <2> QED
      BY <2>1, <2>2
  <1>7. ASSUME NEW k \in bound, ~IsLast(listBindings, k, o),
               Persisting(src, <<OriginRemoved("LIST", k, o, FALSE)>>)
        PROVE  Persists(v, events') /\ OneByOne'
    <2> DEFINE removed == OriginRemoved("LIST", k, o, FALSE)
    <2>1. k \in Id /\ o \in OriginsAt(Told(v, "LIST"), k) /\ OriginsAt(Told(v, "LIST"), k) # {o}
      BY <1>4, <1>5, <1>7 DEF BindingsOf, IsLast
    <2>2. removed.type = "OriginRemoved" /\ Expected(v, removed)
      <3>1. Expected(v, removed)
        BY <1>2, <1>4, <2>1, OutExpected
      <3> QED
        BY <3>1 DEF OriginRemoved
    <2> HIDE DEF removed
    <2>3. /\ <<removed>> \in Seq(Event) /\ Expecting(v, <<removed>>)
          /\ Replay!Fold(v, <<removed>>).ridCount = v.ridCount
          /\ Replay!Fold(v, <<removed>>).sidCount = v.sidCount
      BY <1>1, <2>2, OneExpected DEF RidAfter, SidAfter
    <2>4. events = <<>> /\ events' = <<removed>> /\ OneByOne'
      <3>1. Persisting(src, <<removed>>)
        BY <1>7 DEF removed
      <3> QED
        BY <1>1, <1>3, <2>3, <3>1, OneAtATime
    <2>5. RidCounts(v, <<removed>>) /\ SidCounts(v, <<removed>>)
      BY <1>3, <2>2, <2>3 DEF RidCounts, SidCounts
    <2> QED
      BY <2>3, <2>4, <2>5 DEF Persists
  <1>8. ASSUME NEW k \in bound, IsLast(listBindings, k, o),
               Persisting(src, <<OriginRemoved("LIST", k, o, TRUE)>>
                               \o IF callsByTargetId[k] = Nil THEN <<>>
                                  ELSE <<RidRemoved(callsByTargetId[k])>>)
        PROVE  Persists(v, events') /\ OneByOne'
    <2> DEFINE removed == OriginRemoved("LIST", k, o, TRUE)
               r == callsByTargetId[k]
               gone == RidRemoved(r)
               w == Restored(v, removed)
               new == <<removed, gone>>
    <2>1. /\ k \in Id /\ OriginsAt(Told(v, "LIST"), k) = {o}
          /\ o \in OriginsAt(Told(v, "LIST"), k)
      BY <1>4, <1>5, <1>8 DEF BindingsOf, IsLast
    <2>2. v.byTarget[k] = r /\ r # Nil /\ r \in LookupRecord /\ r.targetId = k
      <3>1. v.byTarget[k] = r /\ r \in LookupRecord \cup {Nil}
        BY <1>1, <2>1 DEF Agrees, Typed, RidTypeOK
      <3>2. r # Nil
        BY <1>1, <1>4, <2>1, <3>1 DEF Sound, ListenersMatch
      <3>3. r.targetId = k
        BY <1>1, <2>1, <3>1, <3>2 DEF Sound, RidsMatch
      <3> QED
        BY <3>1, <3>2, <3>3
    <2>3. /\ removed.type = "OriginRemoved" /\ removed.reg = "LIST" /\ removed.tgt = k
          /\ removed.origin = o /\ Expected(v, removed)
      <3>1. Expected(v, removed)
        BY <1>2, <1>4, <2>1, OutExpected
      <3> QED
        BY <3>1 DEF OriginRemoved
    <2>4. gone \in Event /\ gone.type = "RidRemoved" /\ gone.record = r
      BY <2>2, SavedTypes DEF RidRemoved
    <2>5. Persisting(src, new)
      <3>1. removed \in Event
        BY <2>3 DEF Expected
      <3>2. Persisting(src, <<removed>> \o <<gone>>)
        BY <1>8, <2>2
      <3> HIDE DEF removed, gone
      <3>3. <<removed>> \o <<gone>> = <<removed, gone>>
        BY <2>4, <3>1, Pair
      <3> QED
        BY <3>2, <3>3
    <2> HIDE DEF removed, gone, r
    <2>6. OriginsAt(Told(w, "LIST"), k) = {} /\ SameRids(v, w)
      BY <1>1, <1>4, <2>1, <2>3, LastOut
    <2>7. Sound(w)
      BY <1>1, <2>3, SoundStep
    <2> HIDE DEF w
    <2>8. Expected(w, gone)
      BY <2>2, <2>4, <2>6 DEF Expected, SameRids, Told
    <2>9. /\ new \in Seq(Event) /\ Expecting(v, new)
          /\ Replay!Fold(v, new).ridCount = RidAfter(RidAfter(v.ridCount, removed), gone)
          /\ Replay!Fold(v, new).sidCount = SidAfter(SidAfter(v.sidCount, removed), gone)
      BY <1>1, <2>3, <2>8, TwoExpected DEF w
    <2>10. events = <<>> /\ events' = new /\ OneByOne'
      BY <1>1, <1>3, <2>5, <2>9, OneAtATime
    <2>11. RidCounts(v, new) /\ SidCounts(v, new)
      BY <1>3, <2>3, <2>4, <2>9 DEF RidCounts, SidCounts, RidAfter, SidAfter
    <2> HIDE DEF new
    <2> QED
      BY <2>9, <2>10, <2>11 DEF Persists
  <1>9. \/ Persisting(src, <<>>)
        \/ \E k \in bound : /\ ~IsLast(listBindings, k, o)
                            /\ Persisting(src, <<OriginRemoved("LIST", k, o, FALSE)>>)
        \/ \E k \in bound :
             /\ IsLast(listBindings, k, o)
             /\ Persisting(src, <<OriginRemoved("LIST", k, o, TRUE)>>
                                \o IF callsByTargetId[k] = Nil THEN <<>>
                                   ELSE <<RidRemoved(callsByTargetId[k])>>)
    BY DEF HandleClose, o
  <1> HIDE DEF bound
  <1> QED
    BY <1>6, <1>7, <1>8, <1>9

(* A request changes no registry, it only persists events.                 *)
LEMMA HandleFollows ==
  ASSUME NoWrap, MaxBatch = 1, DInv, NEW v, Following(v), NEW src \in Requester, Handle(src)
  PROVE  Persists(v, events') /\ OneByOne' /\ Agrees(v)' /\ ~failed'
  <1>1. MaxInt \in Nat
    BY DEF NoWrap
  <1>2. Agrees(v) /\ ~failed
    BY DEF DInv, Following
  <1>3. HandlingFrame
    BY DEF Handle, HandleList, HandleCall, HandleSubscribe, HandleUnsubscribe, HandleClose
  <1>4. Agrees(v)' /\ ~failed'
    BY <1>2, <1>3 DEF HandlingFrame, Agrees, ridMaps, sidMaps, registryVars
  <1>5. Persists(v, events') /\ OneByOne'
    BY <1>1, ListPersists, CallPersists, SubscribePersists, UnsubscribePersists, ClosePersists
       DEF Handle
  <1> QED
    BY <1>4, <1>5

(* A response persists the end of a record, if anything.                   *)
LEMMA ReceiveFollows ==
  ASSUME NoWrap, DInv, NEW v, Following(v), Receive
  PROVE  Persists(v, events') /\ OneByOne' /\ Agrees(v)' /\ ~failed'
  <1> DEFINE rsp == Head(fromEndpoint)
             record == callsByTargetId[rsp.rid]
  <1>1. /\ Typed /\ OneByOne /\ Sound(v) /\ Agrees(v) /\ ~failed /\ MaxInt \in Nat
    BY DEF DInv, Following, NoWrap
  <1>2. events = <<>> /\ ReceiveFrame /\ rsp \in Response
    BY <1>1, HeadTailProperties
       DEF Receive, Receiving, SubscribeResponse, ListResponse, CallResponse, UnknownResponse,
           Typed, EndpointTypeOK
  <1>3. UNCHANGED <<ridCount, sidCount, sidTopic, ridMaps, sidMaps, batch, failed>>
    BY <1>2 DEF ReceiveFrame, ridVars, sidVars, historyVars
  <1>4. Agrees(v)'
    BY <1>1, <1>3, OriginsStay DEF Agrees, ridMaps, sidMaps
  <1>5. ASSUME NEW e, Expected(v, e), e.type \notin {"RidSaved", "SidSaved"}, events' = <<e>>
        PROVE  Persists(v, events')
    <2>1. /\ <<e>> \in Seq(Event) /\ Expecting(v, <<e>>)
          /\ Replay!Fold(v, <<e>>).ridCount = v.ridCount
          /\ Replay!Fold(v, <<e>>).sidCount = v.sidCount
      BY <1>1, <1>5, OneExpected DEF RidAfter, SidAfter
    <2>2. RidCounts(v, <<e>>) /\ SidCounts(v, <<e>>)
      BY <1>3, <1>5, <2>1 DEF RidCounts, SidCounts
    <2> QED
      BY <1>2, <1>5, <2>1, <2>2 DEF Persists
  <1>6. ASSUME events' = <<>>
        PROVE  Persists(v, events')
    BY <1>2, <1>3, <1>6, NoneExpected DEF Persists, RidCounts, SidCounts
  <1>7. ASSUME NEW reg \in Registry, NEW k \in Id, events' = <<RecordRemoved(reg, k)>>
        PROVE  Persists(v, events')
    <2> DEFINE e == RecordRemoved(reg, k)
    <2>1. e \in Event /\ e.type = "RecordRemoved"
      BY SavedTypes DEF RecordRemoved
    <2>2. events' = <<e>>
      BY <1>7
    <2> HIDE DEF e
    <2>3. Expected(v, e)
      BY <2>1 DEF Expected
    <2> QED
      BY <1>5, <2>1, <2>2, <2>3
  <1>8. ASSUME SubscribeResponse
        PROVE  Persists(v, events')
    <2>1. rsp.sid \in Id /\ "SUBS" \in Registry
      BY <1>2, <1>8, ResponseTypes DEF SubscribeResponse, Registry
    <2>2. events' = <<>> \/ events' = <<RecordRemoved("SUBS", rsp.sid)>>
      BY <1>8 DEF SubscribeResponse
    <2> QED
      BY <1>6, <1>7, <2>1, <2>2
  <1>9. ASSUME ListResponse
        PROVE  Persists(v, events')
    <2>1. rsp.rid \in Id /\ "LIST" \in Registry
      BY <1>2, <1>9, ResponseTypes DEF ListResponse, Registry
    <2>2. events' = <<>> \/ events' = <<RecordRemoved("LIST", rsp.rid)>>
      BY <1>9 DEF ListResponse
    <2> QED
      BY <1>6, <1>7, <2>1, <2>2
  <1>10. ASSUME CallResponse
        PROVE  Persists(v, events')
    <2> DEFINE e == RidRemoved(record)
    <2>1. /\ rsp.rid \in Id /\ record # Nil /\ record.method # "List"
          /\ events' = <<>> \/ events' = <<e>>
      BY <1>2, <1>10, ResponseTypes DEF CallResponse
    <2>2. record \in LookupRecord /\ v.byTarget[rsp.rid] = record
      BY <1>1, <2>1 DEF Agrees, Typed, RidTypeOK
    <2>3. record.targetId = rsp.rid /\ record.path = Nil
      BY <1>1, <2>1, <2>2, RecordTypes DEF Sound, RidsMatch
    <2>4. OriginsAt(v.list, rsp.rid) = {}
      <3>1. ASSUME NEW o \in OriginsAt(v.list, rsp.rid) PROVE FALSE
        <4>1. o \in RidOrigin /\ v.byTarget[rsp.rid].path = PathOf[o]
          BY <1>1, <2>1 DEF Sound, ListenersMatch
        <4>2. PathOf[o] # Nil
          BY <4>1, EntitiesAssumption DEF Origin
        <4> QED
          BY <2>2, <2>3, <4>1, <4>2
      <3> QED
        BY <3>1
    <2>5. e \in Event /\ e.type = "RidRemoved" /\ e.record = record
      BY <2>2, SavedTypes DEF RidRemoved
    <2> HIDE DEF e
    <2>6. Expected(v, e)
      BY <2>2, <2>3, <2>4, <2>5 DEF Expected
    <2> QED
      BY <1>5, <1>6, <2>1, <2>5, <2>6
  <1>11. ASSUME UnknownResponse
        PROVE  Persists(v, events')
    BY <1>2, <1>6, <1>11 DEF UnknownResponse
  <1>12. Persists(v, events')
    BY <1>8, <1>9, <1>10, <1>11 DEF Receive
  <1> QED
    BY <1>1, <1>3, <1>4, <1>12 DEF OneByOne

(* Commands keep the invariant.                                            *)
LEMMA CommandedFollows ==
  ASSUME NoWrap, MaxBatch = 1, DInv, Commanded
  PROVE  DInv'
  <1>1. PICK v : Following(v)
    BY DEF DInv
  <1>2. Journaled /\ UNCHANGED <<snapshot, ordered>> /\ Typed
    BY DEF Commanded, DInv
  <1>3. Persists(v, events') /\ OneByOne' /\ Agrees(v)' /\ ~failed'
    BY <1>1, HandleFollows, ReceiveFollows DEF Commanded
  <1>4. Typed'
    BY <1>2, NextTypes DEF Commanded, Next
  <1>5. PICK new : new = events'
    OBVIOUS
  <1> QED
    BY <1>1, <1>2, <1>3, <1>4, <1>5, CommandFollows

------------------------------------------------------------------------------
(* A restart                                                               *)

(* The actor that is created anew is as sound as the old one, its counters *)
(* are past every id that it knows or that stood for something, and no     *)
(* event is left to be handled.                                            *)
LEMMA RestartFollows ==
  ASSUME NoWrap, DInv, Restart
  PROVE  DInv'
  <1>1. PICK v : Following(v)
    BY DEF DInv
  <1>2. PICK r : r = Recovered
    OBVIOUS
  <1>3. /\ Typed /\ Sound(v) /\ Expecting(v, events) /\ events \in Seq(Event)
        /\ r = Replay!Fold(v, events) /\ CountersAhead(v) /\ MaxInt \in Nat
        /\ snapshot = Nil /\ journal \in Seq(Event)
    BY <1>1, <1>2 DEF DInv, Following, Typed, NoWrap
  <1>4. /\ Sound(r) /\ RidsIn(r, <<>>) \subseteq RidsIn(v, events)
        /\ SidsIn(r, <<>>) \subseteq SidsIn(v, events)
    BY <1>3, ExpectedAll DEF Settled
  <1>5. /\ ridCount' = r.ridCount /\ callsByTargetId' = r.byTarget
        /\ callsByOrigin' = r.byOrigin /\ callsByPath' = r.byPath
        /\ sidCount' = r.sidCount /\ sidByPath' = r.sidByPath /\ pathBySid' = r.pathBySid
        /\ listBindings' = r.list /\ subsBindings' = r.subs
        /\ failed' = ~r.ok /\ events' = <<>> /\ batch' = Nil /\ ordered' = Nil
        /\ \E lost \in 0..Len(fromEndpoint) :
             fromEndpoint' = SubSeq(fromEndpoint, lost + 1, Len(fromEndpoint))
        /\ Emit({})
        /\ UNCHANGED <<journal, snapshot, nextRid, ridTopic, sidTopic, toEndpoint, epStreams,
                       epSubs, clock>>
    BY <1>2 DEF Restart, historyVars
  <1>6. /\ r \in Image /\ r.ok
        /\ ridCount \in Nat \ {0} /\ sidCount \in Nat \ {0}
    BY <1>3, <1>4 DEF Sound, Typed, RidTypeOK, SidTypeOK
  <1>7. Typed'
    <2>1. RidTypeOK' /\ SidTypeOK' /\ listBindings' \in Bindings /\ subsBindings' \in Bindings
      BY <1>5, <1>6 DEF RidTypeOK, SidTypeOK, Image
    <2>2. EndpointTypeOK'
      <3>1. fromEndpoint' \in Seq(Response)
        <4>1. fromEndpoint \in Seq(Response)
          BY <1>3 DEF Typed, EndpointTypeOK
        <4> QED
          BY <1>5, <4>1
      <3> QED
        BY <1>3, <1>5, <3>1 DEF EndpointTypeOK, Typed
    <2>3. events' \in Seq(Event) /\ batch' \in [source : Requester, size : Nat] \cup {Nil}
      BY <1>5
    <2>4. out' \in SUBSET Delivery /\ seen' \in [Origin -> 0..MaxVersion]
      BY <1>3, <1>5, EmitTypes
    <2>5. failed' \in BOOLEAN
      BY <1>5, <1>6
    <2> QED
      BY <1>3, <1>5, <2>1, <2>2, <2>3, <2>4, <2>5 DEF Typed
  <1>8. Recovered' = r /\ Recovered = r
    BY <1>2, <1>5 DEF Recovered
  <1>9. Agrees(r)'
    BY <1>5 DEF Agrees
  <1>10. CountersAhead(r)'
    <2>1. Ahead(r.ridCount, r.ridCount) /\ Ahead(r.sidCount, r.sidCount)
      BY <1>3, <1>6, <1>8, AheadWhenRestarted DEF CountersAhead, Image
    <2>2. \A k \in RidsIn(r, <<>>) : k < r.ridCount
      BY <1>3, <1>4, <1>8 DEF CountersAhead
    <2>3. \A s \in SidsIn(r, <<>>) : sidTopic[s] # Nil
      BY <1>3, <1>4 DEF CountersAhead
    <2>4. \A s \in Id : sidTopic[s] # Nil => s < r.sidCount
      BY <1>3, <1>8 DEF CountersAhead
    <2> QED
      BY <1>5, <1>8, <2>1, <2>2, <2>3, <2>4 DEF CountersAhead
  <1>11. Following(r)'
    <2>1. Expecting(r, <<>>) /\ Replay!Fold(r, <<>>) = r
      BY NoneExpected
    <2> QED
      BY <1>4, <1>5, <1>8, <1>9, <1>10, <2>1 DEF Following
  <1> QED
    BY <1>3, <1>5, <1>6, <1>7, <1>11 DEF DInv, OneByOne

------------------------------------------------------------------------------
(* The journal tells everything                                            *)

(* The endpoint changes nothing that is recovered.                         *)
LEMMA EndpointFollows ==
  ASSUME DInv, EndpointStep, UNCHANGED durableVars
  PROVE  DInv'
  <1>1. PICK v : Following(v)
    BY DEF DInv
  <1>2. /\ Typed /\ OneByOne /\ ~failed /\ snapshot = Nil /\ journal \in Seq(Event)
        /\ ordered # Nil => /\ ordered.upTo \in 0..Len(journal)
                            /\ ordered.list \cup ordered.subs \subseteq Id
    BY DEF DInv
  <1>3. UNCHANGED <<ridCount, ridMaps, sidCount, sidMaps, listBindings, subsBindings, sidTopic,
                    events, batch, failed, journal, snapshot, ordered>>
    BY DEF EndpointStep, ridVars, sidVars, registryVars, historyVars, durableVars
  <1>4. Typed'
    BY <1>2, EndpointStepTypes
  <1>5. Recovered' = Recovered
    BY <1>3 DEF Recovered
  <1>6. Agrees(v)'
    BY <1>1, <1>3 DEF Following, Agrees, ridMaps, sidMaps
  <1>7. Following(v)'
    BY <1>1, <1>3, <1>5, <1>6 DEF Following, CountersAhead
  <1> QED
    BY <1>2, <1>3, <1>4, <1>7 DEF DInv, OneByOne

(* So does doing nothing.                                                  *)
LEMMA StutterFollows ==
  ASSUME DInv, UNCHANGED allVars
  PROVE  DInv'
  <1>1. PICK v : Following(v)
    BY DEF DInv
  <1>2. /\ Typed /\ OneByOne /\ ~failed /\ snapshot = Nil /\ journal \in Seq(Event)
        /\ ordered # Nil => /\ ordered.upTo \in 0..Len(journal)
                            /\ ordered.list \cup ordered.subs \subseteq Id
    BY DEF DInv
  <1>3. /\ UNCHANGED <<ridCount, ridMaps, sidCount, sidMaps, listBindings, subsBindings,
                       sidTopic, events, batch, failed, journal, snapshot, ordered>>
        /\ UNCHANGED vars
    BY DEF allVars, durableVars, vars, ridVars, sidVars, registryVars, historyVars
  <1>4. Typed'
    BY <1>2, <1>3, NextTypes
  <1>5. Recovered' = Recovered
    BY <1>3 DEF Recovered
  <1>6. Agrees(v)'
    BY <1>1, <1>3 DEF Following, Agrees, ridMaps, sidMaps
  <1>7. Following(v)'
    BY <1>1, <1>3, <1>5, <1>6 DEF Following, CountersAhead
  <1> QED
    BY <1>2, <1>3, <1>4, <1>7 DEF DInv, OneByOne

(* An actor that never ran recovers what it starts with.                   *)
LEMMA InitFollows ==
  ASSUME DurableInit
  PROVE  DInv
  <1>1. Typed /\ Init
    BY InitTypes DEF DurableInit
  <1>2. \A k \in Id : OriginsAt(NoBindings, k) = {}
    BY DEF OriginsAt, RecordAt, EmptyRecord, NoBindings
  <1>3. NoBindings \in Bindings
    BY DEF NoBindings, Bindings
  <1>4. NoImage \in Image
    BY <1>3 DEF NoImage, Image
  <1>5. Sound(NoImage)
    BY <1>2, <1>4 DEF Sound, RidsMatch, SidsMatch, ListenersMatch, NoImage
  <1>6. Agrees(NoImage)
    BY <1>1 DEF Agrees, NoImage, Init, RidInit, SidInit
  <1>7. Recovered = NoImage /\ Expecting(NoImage, events)
        /\ Replay!Fold(NoImage, events) = NoImage
    BY <1>1, SameFold, NoneExpected DEF Recovered, DurableInit, Init
  <1>8. CountersAhead(NoImage)
    <2>1. Ahead(1, 1)
      BY EntitiesAssumption DEF Ahead, CountBound
    <2>2. RidsIn(NoImage, events) = {} /\ SidsIn(NoImage, events) = {}
      BY <1>1 DEF RidsIn, SidsIn, NoImage, Init
    <2>3. /\ ridCount = 1 /\ sidCount = 1 /\ NoImage.ridCount = 1 /\ NoImage.sidCount = 1
          /\ \A s \in Id : sidTopic[s] = Nil
      BY <1>1 DEF Init, RidInit, SidInit, NoImage
    <2> QED
      BY <1>7, <2>1, <2>2, <2>3 DEF CountersAhead
  <1>9. Following(NoImage)
    BY <1>5, <1>6, <1>7, <1>8 DEF Following
  <1>10. journal = <<>> /\ snapshot = Nil /\ ordered = Nil /\ ~failed /\ events = <<>>
         /\ batch = Nil
    BY <1>1 DEF DurableInit, Init
  <1> QED
    BY <1>1, <1>9, <1>10 DEF DInv, OneByOne

(* When requests come one by one and the counters do not wrap, the journal *)
(* without the queued events tells what the registries in memory tell, and *)
(* each queued event fits it, also after a restart in the midst of them.   *)
THEOREM JournalAlwaysFollowed ==
  ASSUME NoWrap, MaxBatch = 1
  PROVE  JournalSpec => []DInv
  <1>1. DurableInit => DInv
    BY InitFollows
  <1>2. DInv /\ [JournalNext]_allVars => DInv'
    BY CommandedFollows, PersistedFollows, EndpointFollows, RestartFollows, StutterFollows
       DEF JournalNext
  <1> QED
    BY <1>1, <1>2, PTL DEF JournalSpec

(* The journal and the state that is recovered from it are well formed, in *)
(* every incarnation of the actor, and its counters stay in their range.   *)
THEOREM DurableTypesCorrect ==
  ASSUME NoWrap, MaxBatch = 1
  PROVE  JournalSpec => []DurableTypeOK
  <1>1. DInv => DurableTypeOK
    <2> SUFFICES ASSUME DInv PROVE DurableTypeOK
      OBVIOUS
    <2>1. PICK v : Following(v)
      BY DEF DInv
    <2>2. ridCount \in Nat \ {0} /\ sidCount \in Nat \ {0}
      BY DEF DInv, Typed, RidTypeOK, SidTypeOK
    <2>3. ridCount <= CountBound /\ sidCount <= CountBound
      BY <2>1 DEF Following, CountersAhead, Ahead
    <2>4. CountBound \in Nat
      BY EntitiesAssumption DEF CountBound
    <2>5. ridCount \in 1..MaxInt /\ sidCount \in 1..MaxInt
      BY <2>2, <2>3, <2>4 DEF NoWrap
    <2> QED
      BY <2>5 DEF DInv, DurableTypeOK, Typed, RidTypeOK, SidTypeOK
  <1> QED
    BY <1>1, JournalAlwaysFollowed, PTL

(* "Recovers DSLink state from the event journal": an actor created anew   *)
(* has the lookups and the listeners of the old one, although the replay   *)
(* finds the record an event is about otherwise than the handler did.      *)
THEOREM JournalAlwaysRestores ==
  ASSUME NoWrap, MaxBatch = 1
  PROVE  JournalSpec => []JournalRestores
  <1>1. DInv => JournalRestores
    <2> SUFFICES ASSUME DInv, events = <<>> PROVE RecoversAll
      BY DEF JournalRestores
    <2>1. PICK v : Following(v)
      BY DEF DInv
    <2>2. Recovered = v
      BY <2>1, NoneExpected DEF Following
    <2> QED
      BY <2>1, <2>2 DEF Following, Sound, Agrees, RecoversAll
  <1> QED
    BY <1>1, JournalAlwaysFollowed, PTL

(* A restart hands out no target SID that stood for something before, nor  *)
(* does one after it: IntCounter.inc(count) takes the counter past each    *)
(* recovered SID.                                                          *)
THEOREM SidsAlwaysFresh ==
  ASSUME NoWrap, MaxBatch = 1
  PROVE  JournalSpec => []FreshSids
  <1>1. DInv => FreshSids
    BY DEF DInv, Following, CountersAhead, FreshSids
  <1> QED
    BY <1>1, JournalAlwaysFollowed, PTL

(* A record with listeners is always found from a response, whatever the   *)
(* old actor had persisted and not yet handled when it stopped.            *)
THEOREM ListenersAlwaysIndexed ==
  ASSUME NoWrap, MaxBatch = 1
  PROVE  JournalSpec => []ListenersAreIndexed
  <1>1. DInv => ListenersAreIndexed
    <2> SUFFICES ASSUME DInv PROVE ListenersAreIndexed
      OBVIOUS
    <2>1. PICK v : Following(v)
      BY DEF DInv
    <2>2. ListenersMatch(v) /\ Agrees(v)
      BY <2>1 DEF Following, Sound
    <2>3. ASSUME NEW s \in Listened(subsBindings) PROVE pathBySid[s] # Nil
      <3>1. s \in Id /\ OriginsAt(subsBindings, s) # {}
        BY <2>3 DEF Listened
      <3>2. PICK o : o \in OriginsAt(v.subs, s)
        BY <2>2, <3>1 DEF Agrees
      <3>3. o \in SidOrigin /\ pathBySid[s] = PathOf[o]
        BY <2>2, <3>1, <3>2 DEF ListenersMatch, Agrees
      <3> QED
        BY <3>3, NotNil DEF Origin
    <2>4. ASSUME NEW k \in Listened(listBindings) PROVE callsByTargetId[k] # Nil
      <3>1. k \in Id /\ OriginsAt(listBindings, k) # {}
        BY <2>4 DEF Listened
      <3>2. PICK o : o \in OriginsAt(v.list, k)
        BY <2>2, <3>1 DEF Agrees
      <3> QED
        BY <2>2, <3>1, <3>2 DEF ListenersMatch, Agrees
    <2> QED
      BY <2>3, <2>4 DEF ListenersAreIndexed
  <1> QED
    BY <1>1, JournalAlwaysFollowed, PTL

------------------------------------------------------------------------------
(* Subscribers notice nothing of a restart                                 *)

(* Events on a SUBSCRIBE record: a listener comes or goes, or all go.      *)
OnSubs(e)    == e.type \in {"OriginAdded", "OriginRemoved"} /\ e.reg = "SUBS"
DropsSubs(e) == e.type = "RecordRemoved" /\ e.reg = "SUBS"
Aside(e)     == ~OnSubs(e) /\ ~DropsSubs(e)

(* One subscriber at most comes or goes with the events q.                 *)
Calm(q) ==
  /\ \A i \in 1..Len(q) : ~DropsSubs(q[i])
  /\ \A i, j \in 1..Len(q) : OnSubs(q[i]) /\ OnSubs(q[j]) => i = j

(* Who is subscribed, if v is recovered.                                   *)
ListenersOf(v) == {o \in SidOrigin : BindingsOf(v.subs, o) # {}}

(* From v to w one subscriber at most has come or gone.                    *)
Moved(v, w) ==
  \/ ListenersOf(w) = ListenersOf(v)
  \/ \E o \in SidOrigin : ListenersOf(w) = ListenersOf(v) \cup {o}
  \/ \E o \in ListenersOf(v) : ListenersOf(w) = ListenersOf(v) \ {o}

(* What a replayed event does to the subscribers.                          *)
LEMMA ListenersMove ==
  ASSUME MaxInt \in Nat, NEW v, Sound(v), NEW e, Expected(v, e), ~DropsSubs(e)
  PROVE  LET w == Restored(v, e) IN
         /\ ~OnSubs(e) => ListenersOf(w) = ListenersOf(v)
         /\ OnSubs(e) /\ e.type = "OriginAdded" =>
              e.origin \in SidOrigin /\ ListenersOf(w) = ListenersOf(v) \cup {e.origin}
         /\ OnSubs(e) /\ e.type = "OriginRemoved" =>
              e.origin \in ListenersOf(v) /\ ListenersOf(w) = ListenersOf(v) \ {e.origin}
  <1> DEFINE w == Restored(v, e)
  <1>1. v \in Image /\ v.ok /\ e \in Event /\ "SUBS" \in Registry
    BY DEF Sound, Expected, Registry
  <1>2. CASE e.type \in {"RidSaved", "RidRemoved", "SidSaved", "SidRemoved"}
    <2>1. e.type = "SidRemoved" => v.pathBySid[e.tgt] # Nil
      BY DEF Expected
    <2>2. SameListeners(v, w)
      BY <1>1, <1>2, <2>1, AfterRidSaved, AfterRidRemoved, AfterSidSaved, AfterSidRemoved
    <2> QED
      BY <1>2, <2>2 DEF SameListeners, ListenersOf, OnSubs
  <1>3. CASE e.type \in {"OriginAdded", "OriginRemoved", "RecordRemoved"}
    <2>1. /\ \A k \in Id : OriginsAt(w.subs, k) = LeftBy(e, "SUBS", k, OriginsAt(v.subs, k))
          /\ e.reg \in Registry /\ e.tgt \in Id
      BY <1>1, <1>3, ListenersAfter, EventTypes DEF Told
    <2>2. CASE ~OnSubs(e)
      <3>1. e.reg # "SUBS"
        BY <1>3, <2>2 DEF OnSubs, DropsSubs
      <3>2. \A k \in Id : OriginsAt(w.subs, k) = OriginsAt(v.subs, k)
        BY <2>1, <3>1 DEF LeftBy
      <3> QED
        BY <2>2, <3>2 DEF ListenersOf, BindingsOf
    <2>3. CASE OnSubs(e) /\ e.type = "OriginAdded"
      <3>1. e.reg = "SUBS" /\ e.origin \in SidOrigin
        BY <2>3 DEF OnSubs, Expected
      <3>2. \A k \in Id : OriginsAt(w.subs, k) =
                            IF k = e.tgt THEN OriginsAt(v.subs, k) \cup {e.origin}
                            ELSE OriginsAt(v.subs, k)
        BY <2>1, <2>3, <3>1 DEF LeftBy
      <3> HIDE DEF w
      <3>3. ListenersOf(w) = ListenersOf(v) \cup {e.origin}
        BY <2>1, <3>1, <3>2 DEF ListenersOf, BindingsOf
      <3> QED
        BY <2>3, <3>1, <3>3 DEF w
    <2>4. CASE OnSubs(e) /\ e.type = "OriginRemoved"
      <3>1. e.reg = "SUBS" /\ e.origin \in OriginsAt(v.subs, e.tgt)
        BY <2>4 DEF OnSubs, Expected, Told
      <3>2. e.origin \in SidOrigin
        BY <2>1, <3>1 DEF Sound, ListenersMatch
      <3>3. BindingsOf(v.subs, e.origin) = {e.tgt}
        <4>1. Told(v, "SUBS") = v.subs
          BY DEF Told
        <4> QED
          BY <1>1, <2>1, <3>1, <4>1, BoundOnce
      <3>4. \A k \in Id : OriginsAt(w.subs, k) =
                            IF k = e.tgt THEN OriginsAt(v.subs, k) \ {e.origin}
                            ELSE OriginsAt(v.subs, k)
        BY <2>1, <2>4, <3>1 DEF LeftBy
      <3> HIDE DEF w
      <3>5. /\ BindingsOf(w.subs, e.origin) = {}
            /\ \A o : o # e.origin => BindingsOf(w.subs, o) = BindingsOf(v.subs, o)
        BY <3>3, <3>4 DEF BindingsOf
      <3>6. e.origin \in ListenersOf(v) /\ ListenersOf(w) = ListenersOf(v) \ {e.origin}
        BY <3>2, <3>3, <3>5 DEF ListenersOf
      <3> QED
        BY <2>4, <3>6 DEF w
    <2> QED
      BY <2>2, <2>3, <2>4 DEF OnSubs
  <1> QED
    BY <1>1, <1>2, <1>3, EventKinds

(* Three events, one after the other.                                      *)
LEMMA ThreeUnrolled ==
  ASSUME NEW v, NEW a \in Event, NEW b \in Event, NEW c \in Event
  PROVE  Replay!Fold(v, <<a, b, c>>) = Restored(Restored(Restored(v, a), b), c)
  BY Unrolled

(* The queue that a restart jumps over moves one subscriber at most.       *)
LEMMA ReplayMoves ==
  ASSUME MaxInt \in Nat, NEW v, Sound(v), NEW q \in Seq(Event), Expecting(v, q), Calm(q)
  PROVE  Moved(v, Replay!Fold(v, q))
  <1>1. ASSUME NEW u, Sound(u), NEW e, Expected(u, e), ~DropsSubs(e)
        PROVE  /\ Sound(Restored(u, e)) /\ e \in Event /\ Moved(u, Restored(u, e))
               /\ ~OnSubs(e) => ListenersOf(Restored(u, e)) = ListenersOf(u)
    <2>1. Sound(Restored(u, e)) /\ e \in Event
      BY <1>1, SoundStep DEF Expected
    <2>2. OnSubs(e) => e.type = "OriginAdded" \/ e.type = "OriginRemoved"
      BY DEF OnSubs
    <2> QED
      BY <1>1, <2>1, <2>2, ListenersMove DEF Moved
  <1>2. Len(q) \in Nat /\ Len(q) <= 3
    BY DEF Expecting
  <1>3. CASE Len(q) = 0
    <2>1. q = <<>>
      BY <1>3
    <2> QED
      BY <2>1, Unrolled DEF Moved
  <1> DEFINE u1 == Restored(v, q[1])
             u2 == Restored(u1, q[2])
             u3 == Restored(u2, q[3])
  <1>4. CASE Len(q) = 1
    <2>1. /\ q = <<q[1]>> /\ 1 \in 1..Len(q)
      BY <1>4
    <2>2. Expected(v, q[1]) /\ ~DropsSubs(q[1])
      BY <1>4, <2>1 DEF Expecting, Calm
    <2>3. Moved(v, u1) /\ q[1] \in Event
      BY <1>1, <2>2
    <2> QED
      BY <2>1, <2>3, Unrolled
  <1>5. CASE Len(q) = 2
    <2>1. q = <<q[1], q[2]>> /\ 1 \in 1..Len(q) /\ 2 \in 1..Len(q)
      BY <1>5
    <2>2. /\ Expected(v, q[1]) /\ Expected(u1, q[2])
          /\ ~DropsSubs(q[1]) /\ ~DropsSubs(q[2])
          /\ ~OnSubs(q[1]) \/ ~OnSubs(q[2])
      BY <1>5, <2>1 DEF Expecting, Calm
    <2> HIDE DEF u1, u2
    <2>3. /\ Sound(u1) /\ q[1] \in Event /\ Moved(v, u1)
          /\ ~OnSubs(q[1]) => ListenersOf(u1) = ListenersOf(v)
      BY <1>1, <2>2 DEF u1
    <2>4. /\ q[2] \in Event /\ Moved(u1, u2)
          /\ ~OnSubs(q[2]) => ListenersOf(u2) = ListenersOf(u1)
      BY <1>1, <2>2, <2>3 DEF u2
    <2>5. Moved(v, u2)
      BY <2>2, <2>3, <2>4 DEF Moved
    <2>6. Replay!Fold(v, <<q[1], q[2]>>) = u2
      BY <2>3, <2>4, Unrolled DEF u1, u2
    <2> QED
      BY <2>1, <2>5, <2>6
  <1>6. CASE Len(q) = 3
    <2>1. q = <<q[1], q[2], q[3]>> /\ 1 \in 1..Len(q) /\ 2 \in 1..Len(q) /\ 3 \in 1..Len(q)
      BY <1>6
    <2>2. /\ Expected(v, q[1]) /\ Expected(u1, q[2]) /\ Expected(u2, q[3])
          /\ ~DropsSubs(q[1]) /\ ~DropsSubs(q[2]) /\ ~DropsSubs(q[3])
          /\ ~OnSubs(q[1]) \/ ~OnSubs(q[2])
          /\ ~OnSubs(q[1]) \/ ~OnSubs(q[3])
          /\ ~OnSubs(q[2]) \/ ~OnSubs(q[3])
      BY <1>6, <2>1 DEF Expecting, Calm
    <2> HIDE DEF u1, u2, u3
    <2>3. /\ Sound(u1) /\ q[1] \in Event /\ Moved(v, u1)
          /\ ~OnSubs(q[1]) => ListenersOf(u1) = ListenersOf(v)
      BY <1>1, <2>2 DEF u1
    <2>4. /\ Sound(u2) /\ q[2] \in Event /\ Moved(u1, u2)
          /\ ~OnSubs(q[2]) => ListenersOf(u2) = ListenersOf(u1)
      BY <1>1, <2>2, <2>3 DEF u2
    <2>5. /\ q[3] \in Event /\ Moved(u2, u3)
          /\ ~OnSubs(q[3]) => ListenersOf(u3) = ListenersOf(u2)
      BY <1>1, <2>2, <2>4 DEF u3
    <2>6. Moved(v, u3)
      BY <2>2, <2>3, <2>4, <2>5 DEF Moved
    <2>7. Replay!Fold(v, <<q[1], q[2], q[3]>>) = u3
      BY <2>3, <2>4, <2>5, ThreeUnrolled DEF u1, u2, u3
    <2> QED
      BY <2>1, <2>6, <2>7
  <1>7. Len(q) = 0 \/ Len(q) = 1 \/ Len(q) = 2 \/ Len(q) = 3
    <2>1. PICK n \in Nat : n = Len(q) /\ n <= 3
      BY <1>2
    <2>2. n = 0 \/ n = 1 \/ n = 2 \/ n = 3
      BY <2>1
    <2> QED
      BY <2>1, <2>2
  <1> QED
    BY <1>3, <1>4, <1>5, <1>6, <1>7

(* Subscribers of the actor are those of what it agrees with.              *)
LEMMA ListenersAgree ==
  ASSUME NEW v, Agrees(v)
  PROVE  BoundListeners = ListenersOf(v)
  BY DEF Agrees, BoundListeners, ListenersOf, BindingsOf

(* One subscriber at most comes or goes, and nobody is served.             *)
LEMMA MovedQuietly ==
  ASSUME NEW v, NEW w, Moved(v, w), BoundListeners = ListenersOf(v),
         BoundListeners' = ListenersOf(w), out' = {}
  PROVE  Promise!MulticastNext
  <1>1. {d.to : d \in out'} \cap SidOrigin = {}
    BY NobodyListening
  <1>2. CASE ListenersOf(w) = ListenersOf(v)
    BY <1>1, <1>2 DEF Promise!MulticastNext, Promise!Quiet
  <1>3. ASSUME NEW o \in SidOrigin, ListenersOf(w) = ListenersOf(v) \cup {o}
        PROVE  Promise!MulticastNext
    <2>1. Promise!Join(o)
      BY <1>1, <1>3 DEF Promise!Join
    <2> QED
      BY <2>1 DEF Promise!MulticastNext, Promise!SidOrigin, SidOrigin
  <1>4. ASSUME NEW o \in ListenersOf(v), ListenersOf(w) = ListenersOf(v) \ {o}
        PROVE  Promise!MulticastNext
    <2>1. Promise!Leave(o) /\ o \in SidOrigin
      BY <1>1, <1>4 DEF Promise!Leave, ListenersOf
    <2> QED
      BY <2>1 DEF Promise!MulticastNext, Promise!SidOrigin, SidOrigin
  <1> QED
    BY <1>2, <1>3, <1>4 DEF Moved

(* A persist handler lets one subscriber come or go, as the journal tells. *)
LEMMA PersistedPromise ==
  ASSUME NoWrap, DInv, Calm(events), Apply
  PROVE  Promise!MulticastNext
  <1> DEFINE e == Head(events)
  <1>1. PICK v : Following(v)
    BY DEF DInv
  <1>2. PICK w : w = Restored(v, e)
    OBVIOUS
  <1>3. /\ Typed /\ ~failed /\ MaxInt \in Nat /\ Sound(v) /\ Agrees(v)
        /\ events \in Seq(Event) /\ Expecting(v, events) /\ events # <<>>
    BY <1>1 DEF DInv, NoWrap, Following, Typed, Apply, ApplyRidSaved, ApplyRidRemoved,
           ApplySidSaved, ApplySidRemoved, ApplySidRemovedThrows, ApplyOriginAdded,
           ApplyOriginRemoved, ApplyRecordRemoved, Applying
  <1>4. Expected(v, e) /\ Sound(w)
    BY <1>2, <1>3, ExpectedFirst
  <1>5. Agrees(w)'
    BY <1>2, <1>3, <1>4, HandlerAgrees
  <1>6. BoundListeners = ListenersOf(v) /\ BoundListeners' = ListenersOf(w)
    BY <1>3, <1>5, ListenersAgree DEF Agrees, BoundListeners, ListenersOf, BindingsOf
  <1>7. ~DropsSubs(e)
    <2>1. 1 \in 1..Len(events) /\ events[1] = e
      BY <1>3
    <2> QED
      BY <2>1 DEF Calm
  <1>8. /\ ~OnSubs(e) => ListenersOf(w) = ListenersOf(v)
        /\ OnSubs(e) /\ e.type = "OriginAdded" =>
             e.origin \in SidOrigin /\ ListenersOf(w) = ListenersOf(v) \cup {e.origin}
        /\ OnSubs(e) /\ e.type = "OriginRemoved" =>
             e.origin \in ListenersOf(v) /\ ListenersOf(w) = ListenersOf(v) \ {e.origin}
    BY <1>2, <1>3, <1>4, <1>7, ListenersMove
  <1>9. Moved(v, w)
    BY <1>8 DEF Moved, OnSubs
  <1>10. CASE out' = {}
    BY <1>6, <1>9, <1>10, MovedQuietly
  <1>11. CASE ApplyOriginAdded
    <2> DEFINE b == IF e.reg = "LIST" THEN listBindings ELSE subsBindings
               last == RecordAt(b, e.tgt).last
    <2>1. /\ e.type = "OriginAdded"
          /\ out' = {} \/ out' = Deliveries({e.origin}, last)
      BY <1>11 DEF ApplyOriginAdded, Applying, Emit
    <2>2. e.reg \in {"LIST", "SUBS"}
      BY <1>3, <2>1, EventTypes DEF Registry
    <2> HIDE DEF e, last
    <2>3. CASE out' = Deliveries({e.origin}, last) /\ e.reg = "LIST"
      <3>1. e.origin \in RidOrigin /\ ListenersOf(w) = ListenersOf(v)
        BY <1>4, <1>8, <2>1, <2>3 DEF Expected, OnSubs
      <3>2. {d.to : d \in out'} \cap SidOrigin = {}
        BY <2>3, <3>1, NobodyListening
      <3> QED
        BY <1>6, <3>1, <3>2 DEF Promise!MulticastNext, Promise!Quiet
    <2>4. CASE out' = Deliveries({e.origin}, last) /\ e.reg = "SUBS"
      <3>1. e.origin \in SidOrigin /\ ListenersOf(w) = ListenersOf(v) \cup {e.origin}
        BY <1>8, <2>1, <2>4 DEF OnSubs
      <3>2. {d.to : d \in out'} \cap SidOrigin = {e.origin}
        <4>1. {d.to : d \in out'} = {e.origin}
          BY <2>4, DeliveredTo
        <4> QED
          BY <3>1, <4>1
      <3>3. PICK o : o = e.origin
        OBVIOUS
      <3>4. o \in SidOrigin /\ Promise!Join(o)
        BY <1>6, <3>1, <3>2, <3>3 DEF Promise!Join
      <3> QED
        BY <3>4 DEF Promise!MulticastNext, Promise!SidOrigin, SidOrigin
    <2> QED
      BY <1>10, <2>1, <2>2, <2>3, <2>4
  <1>12. CASE ~ApplyOriginAdded
    <2>1. out' = {}
      BY <1>12 DEF Apply, ApplyRidSaved, ApplyRidRemoved, ApplySidSaved, ApplySidRemoved,
             ApplySidRemovedThrows, ApplyOriginRemoved, ApplyRecordRemoved, Emit
    <2> QED
      BY <1>10, <2>1
  <1> QED
    BY <1>11, <1>12

(* An update of the endpoint is published to the subscribers of its path.  *)
LEMMA ReceivedPromise ==
  ASSUME DInv, Receive
  PROVE  Promise!MulticastNext
  <1> DEFINE rsp == Head(fromEndpoint)
  <1>1. PICK v : Following(v)
    BY DEF DInv
  <1>2. /\ Typed /\ rsp \in Response /\ Sound(v) /\ Agrees(v)
    BY <1>1, HeadTailProperties
       DEF Receive, Receiving, SubscribeResponse, ListResponse, CallResponse, UnknownResponse,
           DInv, Following, Typed, EndpointTypeOK
  <1>3. \A t \in Id : Subscribers(t)' = Subscribers(t)
    BY <1>2, OriginsStay DEF Subscribers
  <1>4. ASSUME NEW S, NEW p, S \subseteq RidOrigin, out' = Deliveries(S, p)
        PROVE  Promise!MulticastNext
    BY <1>3, <1>4, NobodyListening, StaysQuiet DEF Promise!MulticastNext
  <1>5. ASSUME SubscribeResponse
        PROVE  Promise!MulticastNext
    <2> DEFINE s == rsp.sid
    <2>1. s \in Id /\ {d.to : d \in out'} = Subscribers(s)
      <3>1. s \in Id
        BY <1>2, <1>5, ResponseTypes DEF SubscribeResponse
      <3>2. out' = Deliveries(Subscribers(s), PayloadOf(rsp))
        BY <1>5 DEF SubscribeResponse, Emit, Subscribers
      <3> QED
        BY <3>1, <3>2, DeliveredTo
    <2> HIDE DEF s, rsp
    <2>2. CASE Subscribers(s) = {}
      BY <1>3, <2>1, <2>2, StaysQuiet DEF Promise!MulticastNext
    <2>3. CASE Subscribers(s) # {}
      <3>1. \A t \in Id : \A o \in Subscribers(t) : o \in SidOrigin /\ pathBySid[t] = PathOf[o]
        BY <1>2 DEF Sound, ListenersMatch, Agrees, Subscribers
      <3>2. PICK p : p = pathBySid[s]
        OBVIOUS
      <3>3. p \in Path
        <4>1. PICK o : o \in Subscribers(s)
          BY <2>3
        <4>2. o \in Origin /\ p = PathOf[o]
          BY <2>1, <3>1, <3>2, <4>1 DEF Origin
        <4> QED
          BY <4>2, EntitiesAssumption
      <3>4. \A t \in Id : pathBySid[t] = p => t = s
        <4>1. \A t \in Id : pathBySid[t] # Nil => sidByPath[pathBySid[t]] = t
          BY <1>2 DEF Sound, SidsMatch, Agrees
        <4>2. p # Nil
          BY <3>3, NotNil DEF Topic
        <4> QED
          BY <2>1, <3>2, <4>1, <4>2
      <3>5. Subscribers(s) = {o \in BoundListeners : PathOf[o] = p}
        BY <2>1, <3>1, <3>2, <3>4 DEF BoundListeners, BindingsOf, Subscribers
      <3>6. Subscribers(s) \subseteq SidOrigin
        BY <2>1, <3>1
      <3>7. BoundListeners' = BoundListeners
        BY <1>3 DEF BoundListeners, BindingsOf, Subscribers
      <3>8. Promise!Publish(p)
        BY <2>1, <3>5, <3>6, <3>7 DEF Promise!Publish
      <3> QED
        BY <3>3, <3>8 DEF Promise!MulticastNext
    <2> QED
      BY <2>2, <2>3
  <1>6. ASSUME ListResponse
        PROVE  Promise!MulticastNext
    <2>1. rsp.rid \in Id
      BY <1>2, <1>6, ResponseTypes DEF ListResponse
    <2>2. OriginsAt(listBindings, rsp.rid) \subseteq RidOrigin
      BY <1>2, <2>1 DEF Sound, ListenersMatch, Agrees
    <2> QED
      BY <1>4, <1>6, <2>2 DEF ListResponse, Emit
  <1>7. ASSUME CallResponse
        PROVE  Promise!MulticastNext
    <2> DEFINE r == callsByTargetId[rsp.rid]
    <2>1. rsp.rid \in Id /\ r # Nil /\ r.method # "List"
      BY <1>2, <1>7, ResponseTypes DEF CallResponse
    <2>2. r.origin \in RidOrigin
      BY <1>2, <2>1, RecordTypes DEF Typed, RidTypeOK
    <2>3. out' = Deliveries({r.origin}, PayloadOf(rsp))
      BY <1>7 DEF CallResponse, Emit
    <2> QED
      BY <1>4, <2>2, <2>3
  <1>8. ASSUME UnknownResponse
        PROVE  Promise!MulticastNext
    <2>1. out' = {}
      BY <1>8 DEF UnknownResponse, Emit
    <2> QED
      BY <1>3, <2>1, NobodyListening, StaysQuiet DEF Promise!MulticastNext
  <1> QED
    BY <1>5, <1>6, <1>7, <1>8 DEF Receive

(* A restart lets the subscriber come or go that the old actor had not got *)
(* round to, and serves nobody.                                            *)
LEMMA RestartPromise ==
  ASSUME NoWrap, DInv, Calm(events), Restart
  PROVE  Promise!MulticastNext
  <1>1. PICK v : Following(v)
    BY DEF DInv
  <1>2. PICK r : r = Recovered
    OBVIOUS
  <1>3. /\ MaxInt \in Nat /\ Sound(v) /\ Agrees(v) /\ Expecting(v, events)
        /\ events \in Seq(Event) /\ r = Replay!Fold(v, events)
    BY <1>1, <1>2 DEF DInv, Following, Typed, NoWrap
  <1>4. Moved(v, r)
    BY <1>3, ReplayMoves
  <1>5. subsBindings' = r.subs /\ out' = {}
    BY <1>2 DEF Restart, Emit
  <1>6. BoundListeners = ListenersOf(v) /\ BoundListeners' = ListenersOf(r)
    BY <1>3, <1>5, ListenersAgree DEF BoundListeners, ListenersOf
  <1> QED
    BY <1>4, <1>5, <1>6, MovedQuietly

(* What the promise rests on beyond the journal.                           *)
JInv == DInv /\ NoCloses /\ Calm(events)

(* At most one event on a record, with others that are on none.            *)
LEMMA CalmQueue ==
  ASSUME \/ events' = <<>>
         \/ \E e : events' = <<e>> /\ ~DropsSubs(e)
         \/ \E e, f : events' = <<e, f>> /\ ~DropsSubs(e) /\ ~DropsSubs(f)
                      /\ (~OnSubs(e) \/ ~OnSubs(f))
         \/ \E e, f, g : /\ events' = <<e, f, g>> /\ Aside(f)
                         /\ ~DropsSubs(e) /\ ~DropsSubs(g) /\ (~OnSubs(e) \/ ~OnSubs(g))
  PROVE  Calm(events)'
  <1>1. CASE events' = <<>>
    BY <1>1 DEF Calm
  <1>2. ASSUME NEW e, events' = <<e>>, ~DropsSubs(e)
        PROVE  Calm(events)'
    <2>1. 1..Len(events') = {1} /\ events'[1] = e
      BY <1>2
    <2> QED
      BY <1>2, <2>1 DEF Calm
  <1>3. ASSUME NEW e, NEW f, events' = <<e, f>>, ~DropsSubs(e), ~DropsSubs(f),
               ~OnSubs(e) \/ ~OnSubs(f)
        PROVE  Calm(events)'
    <2>1. 1..Len(events') = {1, 2} /\ events'[1] = e /\ events'[2] = f
      BY <1>3
    <2> QED
      BY <1>3, <2>1 DEF Calm
  <1>4. ASSUME NEW e, NEW f, NEW g, events' = <<e, f, g>>, Aside(f), ~DropsSubs(e),
               ~DropsSubs(g), ~OnSubs(e) \/ ~OnSubs(g)
        PROVE  Calm(events)'
    <2>1. 1..Len(events') = {1, 2, 3} /\ events'[1] = e /\ events'[2] = f /\ events'[3] = g
      BY <1>4
    <2> QED
      BY <1>4, <2>1 DEF Calm, Aside
  <1> QED
    BY <1>1, <1>2, <1>3, <1>4

(* A request lets one subscriber come or go.                               *)
LEMMA HandleCalm ==
  ASSUME MaxBatch = 1, Typed, OneByOne, NEW src \in Requester, Handle(src)
  PROVE  Calm(events)'
  <1>1. \A e : e.type \in {"RidSaved", "RidRemoved", "SidSaved", "SidRemoved"} => Aside(e)
    BY DEF Aside, OnSubs, DropsSubs
  <1>2. /\ \A reg, k, o : ~DropsSubs(OriginAdded(reg, k, o))
        /\ \A reg, k, o : \A last \in BOOLEAN : ~DropsSubs(OriginRemoved(reg, k, o, last))
        /\ \A p, s : Aside(SidSaved(p, s))
        /\ \A s : Aside(SidRemoved(s))
    BY DEF DropsSubs, OnSubs, Aside, OriginAdded, OriginRemoved, SidSaved, SidRemoved
  <1>3. CASE HandleList(src)
    <2>1. PICK k \in Id, o \in RidOrigin :
            \/ events' = <<OriginAdded("LIST", k, o)>>
            \/ \E e \in Event : events' = <<e, OriginAdded("LIST", k, o)>> /\ e.type = "RidSaved"
      BY <1>3, ListQueues
    <2>2. PICK f : f = OriginAdded("LIST", k, o)
      OBVIOUS
    <2>3. /\ ~DropsSubs(f)
          /\ \/ events' = <<f>>
             \/ \E e : events' = <<e, f>> /\ Aside(e)
      BY <1>1, <1>2, <2>1, <2>2
    <2> QED
      BY <2>3, CalmQueue DEF Aside
  <1>4. CASE HandleCall(src)
    <2>1. PICK e \in Event : events' = <<e>> /\ e.type = "RidSaved"
      BY <1>4, CallQueues
    <2>2. Aside(e)
      BY <1>1, <2>1
    <2> QED
      BY <2>1, <2>2, CalmQueue DEF Aside
  <1>5. ASSUME NEW sid \in SidNum, HandleSubscribe(src, sid)
        PROVE  Calm(events)'
    <2> DEFINE o == [source |-> src, id |-> sid]
    <2>1. PICK s \in Id :
            \/ events' = <<OriginAdded("SUBS", s, o)>>
            \/ \E e \in Event :
                 /\ events' = <<e, SidSaved(PathOf[o], s), OriginAdded("SUBS", s, o)>>
                 /\ e.type = "RidSaved"
      BY <1>5, SubscribeQueues
    <2>2. PICK f, g : f = OriginAdded("SUBS", s, o) /\ g = SidSaved(PathOf[o], s)
      OBVIOUS
    <2> HIDE DEF o
    <2>3. /\ ~DropsSubs(f) /\ Aside(g)
          /\ \/ events' = <<f>>
             \/ \E e : events' = <<e, g, f>> /\ Aside(e)
      BY <1>1, <1>2, <2>1, <2>2
    <2> QED
      BY <2>3, CalmQueue DEF Aside
  <1>6. ASSUME NEW sid \in SidNum, HandleUnsubscribe(src, sid)
        PROVE  Calm(events)'
    <2> DEFINE o == [source |-> src, id |-> sid]
    <2>1. \/ events' = <<>>
          \/ \E s \in Id : events' = <<OriginRemoved("SUBS", s, o, FALSE)>>
          \/ \E s \in Id, e \in Event :
               /\ events' = <<OriginRemoved("SUBS", s, o, TRUE), SidRemoved(s), e>>
               /\ e.type = "RidSaved"
      BY <1>6, UnsubscribeQueues
    <2> HIDE DEF o
    <2>2. CASE events' = <<>>
      BY <2>2, CalmQueue
    <2>3. ASSUME NEW s \in Id, events' = <<OriginRemoved("SUBS", s, o, FALSE)>>
          PROVE  Calm(events)'
      <3>1. PICK f : f = OriginRemoved("SUBS", s, o, FALSE)
        OBVIOUS
      <3>2. ~DropsSubs(f) /\ events' = <<f>>
        BY <1>2, <2>3, <3>1
      <3> QED
        BY <3>2, CalmQueue
    <2>4. ASSUME NEW s \in Id, NEW e \in Event, e.type = "RidSaved",
                 events' = <<OriginRemoved("SUBS", s, o, TRUE), SidRemoved(s), e>>
          PROVE  Calm(events)'
      <3>1. PICK f, g : f = OriginRemoved("SUBS", s, o, TRUE) /\ g = SidRemoved(s)
        OBVIOUS
      <3>2. ~DropsSubs(f) /\ Aside(g)
        BY <1>2, <3>1
      <3>3. Aside(e)
        BY <1>1, <2>4
      <3>4. events' = <<f, g, e>>
        BY <2>4, <3>1
      <3> QED
        BY <3>2, <3>3, <3>4, CalmQueue DEF Aside
    <2> QED
      BY <2>1, <2>2, <2>3, <2>4
  <1>7. ASSUME NEW rid \in RidNum, HandleClose(src, rid)
        PROVE  Calm(events)'
    <2> DEFINE o == [source |-> src, id |-> rid]
    <2>1. \/ events' = <<>>
          \/ \E k \in Id : events' = <<OriginRemoved("LIST", k, o, FALSE)>>
          \/ \E k \in Id : events' = <<OriginRemoved("LIST", k, o, TRUE)>>
          \/ \E k \in Id, e \in Event : /\ events' = <<OriginRemoved("LIST", k, o, TRUE), e>>
                                        /\ e.type = "RidRemoved"
      BY <1>7, CloseQueues
    <2> HIDE DEF o
    <2>2. CASE events' = <<>>
      BY <2>2, CalmQueue
    <2>3. ASSUME NEW k \in Id, NEW last \in BOOLEAN,
                 \/ events' = <<OriginRemoved("LIST", k, o, last)>>
                 \/ \E e \in Event : /\ events' = <<OriginRemoved("LIST", k, o, last), e>>
                                      /\ e.type = "RidRemoved"
          PROVE  Calm(events)'
      <3>1. PICK f : f = OriginRemoved("LIST", k, o, last)
        OBVIOUS
      <3>2. ~DropsSubs(f)
        BY <1>2, <3>1
      <3>3. CASE events' = <<f>>
        BY <3>2, <3>3, CalmQueue
      <3>4. ASSUME NEW e \in Event, events' = <<f, e>>, e.type = "RidRemoved"
            PROVE  Calm(events)'
        <4>1. Aside(e)
          BY <1>1, <3>4
        <4> QED
          BY <3>2, <3>4, <4>1, CalmQueue DEF Aside
      <3> QED
        BY <2>3, <3>1, <3>3, <3>4
    <2> QED
      BY <2>1, <2>2, <2>3
  <1> QED
    BY <1>3, <1>4, <1>5, <1>6, <1>7 DEF Handle

(* A persist handler takes its event off the queue.                        *)
LEMMA ApplyCalm ==
  ASSUME Typed, Calm(events), Apply
  PROVE  Calm(events)'
  <1>1. events \in Seq(Event) /\ events # <<>> /\ events' = Tail(events)
    BY DEF Typed, Apply, ApplyRidSaved, ApplyRidRemoved, ApplySidSaved, ApplySidRemoved,
           ApplySidRemovedThrows, ApplyOriginAdded, ApplyOriginRemoved, ApplyRecordRemoved,
           Applying
  <1>2. /\ Len(events) \in Nat /\ Len(events') = Len(events) - 1
        /\ \A i \in 1..Len(events') : events'[i] = events[i + 1] /\ i + 1 \in 1..Len(events)
    BY <1>1
  <1>3. \A i \in 1..Len(events') : ~DropsSubs(events'[i])
    BY <1>2 DEF Calm
  <1>4. ASSUME NEW i \in 1..Len(events'), NEW j \in 1..Len(events'),
               OnSubs(events'[i]), OnSubs(events'[j])
        PROVE  i = j
    <2>1. i + 1 = j + 1
      BY <1>2, <1>4 DEF Calm
    <2> QED
      BY <1>2, <2>1
  <1> QED
    BY <1>3, <1>4 DEF Calm

(* A response ends no subscription.                                        *)
LEMMA ReceiveCalm ==
  ASSUME Typed, NoCloses, Receive
  PROVE  Calm(events)' /\ NoCloses'
  <1> DEFINE rsp == Head(fromEndpoint)
  <1>1. /\ fromEndpoint \in Seq(Response) /\ fromEndpoint # <<>> /\ events = <<>>
        /\ fromEndpoint' = Tail(fromEndpoint)
    BY DEF Receive, Receiving, SubscribeResponse, ListResponse, CallResponse, UnknownResponse,
           Typed, EndpointTypeOK
  <1>2. 1 \in 1..Len(fromEndpoint) /\ rsp = fromEndpoint[1] /\ rsp \in Response
    BY <1>1
  <1>3. NoCloses'
    <2>1. /\ Len(Tail(fromEndpoint)) = Len(fromEndpoint) - 1 /\ Len(fromEndpoint) \in Nat
          /\ \A i \in 1..Len(fromEndpoint) - 1 :
               Tail(fromEndpoint)[i] = fromEndpoint[i + 1] /\ i + 1 \in 1..Len(fromEndpoint)
      BY <1>1
    <2> QED
      BY <1>1, <2>1 DEF NoCloses
  <1>4. ASSUME SubscribeResponse PROVE events' = <<>>
    <2>1. rsp.topic \in Path
      BY <1>2, <1>4, ResponseTypes DEF SubscribeResponse
    <2>2. ~rsp.closed
      BY <1>2, <2>1 DEF NoCloses
    <2> QED
      BY <1>4, <2>2 DEF SubscribeResponse
  <1>5. \/ events' = <<>>
        \/ events' = <<RecordRemoved("LIST", rsp.rid)>>
        \/ \E r : events' = <<RidRemoved(r)>>
    BY <1>1, <1>4 DEF Receive, ListResponse, CallResponse, UnknownResponse
  <1>6. /\ ~DropsSubs(RecordRemoved("LIST", rsp.rid))
        /\ \A r : ~DropsSubs(RidRemoved(r))
    BY DEF DropsSubs, RecordRemoved, RidRemoved
  <1>7. events' = <<>> \/ \E e : events' = <<e>> /\ ~DropsSubs(e)
    BY <1>5, <1>6
  <1> QED
    BY <1>3, <1>7, CalmQueue

(* Mail that is lost ends no subscription.                                 *)
LEMMA RestartCalm ==
  ASSUME Typed, NoCloses, Restart
  PROVE  Calm(events)' /\ NoCloses'
  <1>1. events' = <<>>
    BY DEF Restart
  <1>2. PICK lost \in 0..Len(fromEndpoint) :
          fromEndpoint' = SubSeq(fromEndpoint, lost + 1, Len(fromEndpoint))
    BY DEF Restart
  <1>3. fromEndpoint \in Seq(Response)
    BY DEF Typed, EndpointTypeOK
  <1>4. /\ Len(fromEndpoint) \in Nat /\ lost \in Nat /\ lost <= Len(fromEndpoint)
        /\ Len(fromEndpoint') = Len(fromEndpoint) - lost
        /\ \A i \in 1..Len(fromEndpoint') :
             fromEndpoint'[i] = fromEndpoint[i + lost] /\ i + lost \in 1..Len(fromEndpoint)
    BY <1>2, <1>3
  <1>5. NoCloses'
    BY <1>4 DEF NoCloses
  <1> QED
    BY <1>1, <1>5, CalmQueue

(* Every step, and stuttering, keeps the invariant.                        *)
LEMMA JournalNextFollows ==
  ASSUME NoWrap, MaxBatch = 1, ~EndpointCloses, JInv, [JournalNext]_allVars
  PROVE  JInv'
  <1>1. Typed /\ OneByOne /\ DInv /\ NoCloses /\ Calm(events)
    BY DEF JInv, DInv
  <1>2. DInv'
    BY <1>1, CommandedFollows, PersistedFollows, EndpointFollows, RestartFollows, StutterFollows
       DEF JournalNext
  <1>3. CASE UNCHANGED <<events, fromEndpoint>>
    BY <1>1, <1>2, <1>3 DEF JInv, Calm, NoCloses
  <1>4. ASSUME NEW src \in Requester, Handle(src)
        PROVE  JInv'
    <2>1. UNCHANGED fromEndpoint
      BY <1>4 DEF Handle, HandleList, HandleCall, HandleSubscribe, HandleUnsubscribe,
             HandleClose, HandlingFrame
    <2>2. NoCloses'
      BY <1>1, <2>1 DEF NoCloses
    <2> QED
      BY <1>1, <1>2, <1>4, <2>2, HandleCalm DEF JInv
  <1>5. CASE Receive
    BY <1>1, <1>2, <1>5, ReceiveCalm DEF JInv
  <1>6. CASE Persisted
    <2>1. Apply /\ UNCHANGED fromEndpoint
      BY <1>6 DEF Persisted, Apply, ApplyRidSaved, ApplyRidRemoved, ApplySidSaved,
             ApplySidRemoved, ApplySidRemovedThrows, ApplyOriginAdded, ApplyOriginRemoved,
             ApplyRecordRemoved, ApplyFrame, endpointVars
    <2>2. NoCloses'
      BY <1>1, <2>1 DEF NoCloses
    <2> QED
      BY <1>1, <1>2, <2>1, <2>2, ApplyCalm DEF JInv
  <1>7. CASE EndpointStep
    <2>1. NoCloses' /\ UNCHANGED events
      BY <1>1, <1>7, EndpointKeepsOpen DEF EndpointStep
    <2> QED
      BY <1>1, <1>2, <2>1 DEF JInv
  <1>8. CASE Restart
    BY <1>1, <1>2, <1>8, RestartCalm DEF JInv
  <1>9. CASE UNCHANGED allVars
    BY <1>3, <1>9 DEF allVars, vars, endpointVars
  <1> QED
    BY <1>4, <1>5, <1>6, <1>7, <1>8, <1>9 DEF JournalNext, Commanded

(* As far as subscribers can tell, a link actor that may be restarted at   *)
(* any moment is a plain multicast, as one that runs on: a restart lets    *)
(* the subscriber come or go whose event was written and not handled yet,  *)
(* and is not seen otherwise.  Requests come one by one, the endpoint does *)
(* not end streams itself, and counters do not wrap.                       *)
THEOREM PromiseKeptAcrossRestarts ==
  ASSUME NoWrap, MaxBatch = 1, ~EndpointCloses
  PROVE  JournalSpec => KeepsPromise
  <1> DEFINE view == <<BoundListeners, {d.to : d \in out} \cap SidOrigin>>
  <1>1. DurableInit => JInv /\ Promise!MulticastInit
    <2> SUFFICES ASSUME DurableInit PROVE JInv /\ Promise!MulticastInit
      OBVIOUS
    <2>1. DInv /\ Init
      BY InitFollows DEF DurableInit
    <2>2. events = <<>> /\ fromEndpoint = <<>> /\ out = {} /\ subsBindings = NoBindings
      BY <2>1 DEF Init, EndpointInit
    <2>3. NoCloses /\ Calm(events)
      BY <2>2 DEF NoCloses, Calm
    <2>4. \A o : BindingsOf(subsBindings, o) = {}
      BY <2>2 DEF NoBindings, BindingsOf, OriginsAt, RecordAt, EmptyRecord
    <2> QED
      BY <2>1, <2>2, <2>3, <2>4 DEF JInv, Promise!MulticastInit, BoundListeners
  <1>2. JInv /\ [JournalNext]_allVars => JInv'
    BY JournalNextFollows
  <1>3. JInv /\ [JournalNext]_allVars => [Promise!MulticastNext]_view
    <2> SUFFICES ASSUME JInv, [JournalNext]_allVars PROVE [Promise!MulticastNext]_view
      OBVIOUS
    <2>1. Typed /\ DInv /\ Calm(events)
      BY DEF JInv, DInv
    <2>2. ASSUME NEW src \in Requester, Handle(src)
          PROVE  Promise!MulticastNext
      BY <2>1, <2>2, HandleQuiet DEF Promise!MulticastNext
    <2>3. CASE EndpointStep
      <3>1. out' = {} /\ UNCHANGED subsBindings
        BY <2>3 DEF EndpointStep, Emit, registryVars
      <3> QED
        BY <3>1, NobodyListening, StaysQuiet DEF Subscribers, Promise!MulticastNext
    <2>4. CASE UNCHANGED allVars
      <3>1. UNCHANGED <<out, subsBindings>>
        BY <2>4 DEF allVars, vars, registryVars
      <3> QED
        BY <3>1 DEF BoundListeners, BindingsOf, OriginsAt, RecordAt
    <2> QED
      BY <2>1, <2>2, <2>3, <2>4, PersistedPromise, ReceivedPromise, RestartPromise
         DEF JournalNext, Commanded, Persisted
  <1> QED
    BY <1>1, <1>2, <1>3, PTL DEF JournalSpec, KeepsPromise, Promise!MulticastSpec

------------------------------------------------------------------------------
(* What a restart leaves true of the registries                            *)

(* Paths and target SIDs map to each other one to one in every incarnation *)
(* of the actor (restoreSidRegistry).                                      *)
THEOREM SidMapsMatchAcrossRestarts ==
  ASSUME NoWrap, MaxBatch = 1
  PROVE  JournalSpec => []SidMapsMatch
  <1>1. DInv => SidMapsMatch
    BY DEF DInv, Following, Sound, SidsMatch, Agrees, SidMapsMatch
  <1> QED
    BY <1>1, JournalAlwaysFollowed, PTL

(* A subscriber is in one call record, the one that removeOrigin will find *)
(* for it, whatever events were replayed (internalRemoveOrigin looks the   *)
(* record up by the origin alone).                                         *)
THEOREM OriginsBoundOnceAcrossRestarts ==
  ASSUME NoWrap, MaxBatch = 1
  PROVE  JournalSpec => []OriginBoundOnce
  <1>1. DInv => OriginBoundOnce
    <2> SUFFICES ASSUME DInv, NEW o \in SidOrigin
                 PROVE  Cardinality(BindingsOf(subsBindings, o)) <= 1
      BY DEF OriginBoundOnce
    <2>1. PICK v : Following(v)
      BY DEF DInv
    <2>2. BindingsOf(subsBindings, o) = BindingsOf(v.subs, o)
      BY <2>1 DEF Following, Agrees, BindingsOf
    <2>3. ASSUME NEW k \in BindingsOf(v.subs, o)
          PROVE  BindingsOf(v.subs, o) = {k}
      <3>1. Sound(v) /\ "SUBS" \in Registry /\ Told(v, "SUBS") = v.subs
            /\ k \in Id /\ o \in OriginsAt(v.subs, k)
        BY <2>1, <2>3 DEF Following, Registry, Told, BindingsOf
      <3> QED
        BY <3>1, BoundOnce
    <2>4. CASE BindingsOf(v.subs, o) = {}
      BY <2>2, <2>4, FS_EmptySet
    <2>5. ASSUME NEW k \in BindingsOf(v.subs, o)
          PROVE  Cardinality(BindingsOf(subsBindings, o)) <= 1
      <3>1. Cardinality({k}) = 1
        BY FS_Singleton
      <3> QED
        BY <2>2, <2>3, <2>5, <3>1
    <2> QED
      BY <2>4, <2>5
  <1> QED
    BY <1>1, JournalAlwaysFollowed, PTL

(* Under the SID of a path everybody is found who listens to the path.     *)
LEMMA ListenersUnderSid ==
  ASSUME NEW v, Sound(v), Agrees(v), NEW p \in Path, NEW s \in Id, s = sidByPath[p]
  PROVE  Subscribers(s) = {o \in SidOrigin : PathOf[o] = p /\ BindingsOf(subsBindings, o) # {}}
  <1>1. \A t \in Id : \A o \in Subscribers(t) : o \in SidOrigin /\ pathBySid[t] = PathOf[o]
    BY DEF Sound, ListenersMatch, Agrees, Subscribers
  <1>2. s # Nil /\ p # Nil
    BY EntitiesAssumption, NotNil DEF Topic
  <1>3. pathBySid[s] = p
    BY <1>2 DEF Sound, SidsMatch, Agrees
  <1>4. \A t \in Id : pathBySid[t] = p => t = s
    BY <1>2 DEF Sound, SidsMatch, Agrees
  <1>5. \A o : BindingsOf(subsBindings, o) # {} <=> \E t \in Id : o \in Subscribers(t)
    BY DEF BindingsOf, Subscribers
  <1> QED
    BY <1>1, <1>3, <1>4, <1>5

(* An update of the SID a path is subscribed under reaches everyone bound  *)
(* to the path, whatever actor let them join: what was restored names them *)
(* all (handleSubscribeResponseRow, restoreGroupCallRegistry).             *)
THEOREM ListenersHearAcrossRestarts ==
  ASSUME NoWrap, MaxBatch = 1
  PROVE  JournalSpec => EveryListenerHears
  <1> DEFINE A == \A p \in Path :
                    SubscribeResponse /\ Head(fromEndpoint).sid = sidByPath[p] =>
                      {d.to : d \in out'} = {o \in SidOrigin : /\ PathOf[o] = p
                                                             /\ BindingsOf(subsBindings, o) # {}}
  <1>1. DInv => A
    <2> SUFFICES ASSUME DInv, NEW p \in Path,
                        SubscribeResponse, Head(fromEndpoint).sid = sidByPath[p]
                 PROVE  {d.to : d \in out'} = {o \in SidOrigin : /\ PathOf[o] = p
                                                                /\ BindingsOf(subsBindings, o) # {}}
      OBVIOUS
    <2> DEFINE s == Head(fromEndpoint).sid
    <2>1. PICK v : Sound(v) /\ Agrees(v)
      BY DEF DInv, Following
    <2>2. s \in Id
      BY HeadTailProperties, ResponseTypes
         DEF SubscribeResponse, Receiving, DInv, Typed, EndpointTypeOK
    <2>3. out' = Deliveries(Subscribers(s), PayloadOf(Head(fromEndpoint)))
      BY DEF SubscribeResponse, Emit, Subscribers
    <2> HIDE DEF s
    <2>4. {d.to : d \in out'} = Subscribers(s)
      BY <2>3, DeliveredTo
    <2> QED
      BY <2>1, <2>2, <2>4, ListenersUnderSid DEF s
  <1>2. DInv /\ [JournalNext]_allVars => [A]_vars
    BY <1>1
  <1> QED
    BY <1>2, JournalAlwaysFollowed, PTL DEF JournalSpec, EveryListenerHears
=============================================================================
