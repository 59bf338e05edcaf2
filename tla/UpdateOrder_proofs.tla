-------------------------- MODULE UpdateOrder_proofs --------------------------
(***************************************************************************)
(* A client is not shown an older value of a subscription after a newer    *)
(* one.  The invariant follows every row on its way: what was handed over, *)
(* what the stage is emitting, its queue, the offers to it, the stash and  *)
(* the mailbox of the link, and the value of the node come in ascending    *)
(* order, for every SID whose rows were not overtaken.                     *)
(***************************************************************************)
EXTENDS RequesterLink_proofs

(*------------------------------- sequences -------------------------------*)

(* What x, a sequence of rows or notifications, says of sid s.             *)
Seen(s, x) == {x[i].ver : i \in {k \in 1..Len(x) : x[k].sid = s}}

Below(A, B) == \A a \in A, b \in B : a <= b

Ascends(s, x) ==
  \A i, j \in 1..Len(x) : i <= j /\ x[i].sid = s /\ x[j].sid = s => x[i].ver <= x[j].ver

(* A concatenation says what its parts say.                                *)
LEMMA SeenConcat ==
  ASSUME NEW S, NEW a \in Seq(S), NEW b \in Seq(S), NEW s
  PROVE  Seen(s, a \o b) = Seen(s, a) \cup Seen(s, b)
  <1>1. /\ Len(a \o b) = Len(a) + Len(b) /\ Len(a) \in Nat /\ Len(b) \in Nat
        /\ \A i \in 1..Len(a) : (a \o b)[i] = a[i]
        /\ \A i \in 1..Len(b) : (a \o b)[Len(a) + i] = b[i]
    BY ConcatPoints
  <1> DEFINE c == a \o b
  <1>2. ASSUME NEW v \in Seen(s, c) PROVE v \in Seen(s, a) \cup Seen(s, b)
    <2>1. PICK i \in 1..Len(c) : c[i].sid = s /\ v = c[i].ver
      BY <1>2 DEF Seen
    <2>2. CASE i <= Len(a)
      BY <1>1, <2>1, <2>2 DEF Seen
    <2>3. CASE i > Len(a)
      <3>1. i - Len(a) \in 1..Len(b) /\ c[i] = b[i - Len(a)]
        BY <1>1, <2>1, <2>3
      <3> QED
        BY <2>1, <3>1 DEF Seen
    <2> QED
      BY <1>1, <2>1, <2>2, <2>3
  <1>3. ASSUME NEW v \in Seen(s, a) PROVE v \in Seen(s, c)
    <2>1. PICK i \in 1..Len(a) : a[i].sid = s /\ v = a[i].ver
      BY <1>3 DEF Seen
    <2>2. i \in 1..Len(c) /\ c[i] = a[i]
      BY <1>1
    <2> QED
      BY <2>1, <2>2 DEF Seen
  <1>4. ASSUME NEW v \in Seen(s, b) PROVE v \in Seen(s, c)
    <2>1. PICK i \in 1..Len(b) : b[i].sid = s /\ v = b[i].ver
      BY <1>4 DEF Seen
    <2>2. Len(a) + i \in 1..Len(c) /\ c[Len(a) + i] = b[i]
      BY <1>1
    <2> QED
      BY <2>1, <2>2 DEF Seen
  <1> QED
    BY <1>2, <1>3, <1>4

(* It ascends if its parts do, one below the other.                        *)
LEMMA AscendsConcat ==
  ASSUME NEW S, NEW a \in Seq(S), NEW b \in Seq(S), NEW s
  PROVE  Ascends(s, a \o b) <=> Ascends(s, a) /\ Ascends(s, b) /\ Below(Seen(s, a), Seen(s, b))
  <1>1. /\ Len(a \o b) = Len(a) + Len(b) /\ Len(a) \in Nat /\ Len(b) \in Nat
        /\ \A i \in 1..Len(a) : (a \o b)[i] = a[i]
        /\ \A i \in 1..Len(b) : (a \o b)[Len(a) + i] = b[i]
    BY ConcatPoints
  <1> DEFINE c == a \o b
  <1>2. \A i \in 1..Len(c) : \/ i \in 1..Len(a) /\ c[i] = a[i]
                             \/ i - Len(a) \in 1..Len(b) /\ c[i] = b[i - Len(a)]
    BY <1>1
  <1>3. /\ \A i \in 1..Len(a) : i \in 1..Len(c) /\ c[i] = a[i]
        /\ \A i \in 1..Len(b) : Len(a) + i \in 1..Len(c) /\ c[Len(a) + i] = b[i]
    BY <1>1
  <1>4. ASSUME Ascends(s, c) PROVE Ascends(s, a) /\ Ascends(s, b) /\ Below(Seen(s, a), Seen(s, b))
    <2>1. Ascends(s, a)
      BY <1>3, <1>4 DEF Ascends
    <2>2. Ascends(s, b)
      <3> SUFFICES ASSUME NEW i \in 1..Len(b), NEW j \in 1..Len(b),
                          i <= j, b[i].sid = s, b[j].sid = s
                   PROVE  b[i].ver <= b[j].ver
        BY DEF Ascends
      <3>1. Len(a) + i <= Len(a) + j
        BY <1>1
      <3> QED
        BY <1>3, <1>4, <3>1 DEF Ascends
    <2>3. ASSUME NEW v \in Seen(s, a), NEW w \in Seen(s, b) PROVE v <= w
      <3>1. PICK i \in 1..Len(a) : a[i].sid = s /\ v = a[i].ver
        BY <2>3 DEF Seen
      <3>2. PICK j \in 1..Len(b) : b[j].sid = s /\ w = b[j].ver
        BY <2>3 DEF Seen
      <3>3. i <= Len(a) + j
        BY <1>1
      <3> QED
        BY <1>3, <1>4, <3>1, <3>2, <3>3 DEF Ascends
    <2> QED
      BY <2>1, <2>2, <2>3 DEF Below
  <1>5. ASSUME Ascends(s, a), Ascends(s, b), Below(Seen(s, a), Seen(s, b)),
               NEW i \in 1..Len(c), NEW j \in 1..Len(c), i <= j, c[i].sid = s, c[j].sid = s
        PROVE  c[i].ver <= c[j].ver
    <2> HIDE DEF c
    <2>1. CASE j \in 1..Len(a) /\ c[j] = a[j]
      <3>1. i \in 1..Len(a) /\ c[i] = a[i]
        BY <1>1, <1>3, <1>5, <2>1
      <3> QED
        BY <1>5, <2>1, <3>1 DEF Ascends
    <2>2. CASE j - Len(a) \in 1..Len(b) /\ c[j] = b[j - Len(a)]
      <3>1. CASE i \in 1..Len(a) /\ c[i] = a[i]
        <4>1. c[i].ver \in Seen(s, a) /\ c[j].ver \in Seen(s, b)
          BY <1>5, <2>2, <3>1 DEF Seen
        <4> QED
          BY <1>5, <4>1 DEF Below
      <3>2. CASE i - Len(a) \in 1..Len(b) /\ c[i] = b[i - Len(a)]
        <4>1. i - Len(a) <= j - Len(a)
          BY <1>1, <1>5
        <4> QED
          BY <1>5, <2>2, <3>2, <4>1 DEF Ascends
      <3> QED
        BY <1>2, <3>1, <3>2
    <2> QED
      BY <1>2, <2>1, <2>2
  <1> QED
    BY <1>4, <1>5 DEF Ascends

(* Of nothing, and of one element.                                         *)
LEMMA SeenOne ==
  /\ \A s : Seen(s, <<>>) = {} /\ Ascends(s, <<>>)
  /\ \A s, m : m.ver \in Int =>
       /\ Seen(s, <<m>>) = IF m.sid = s THEN {m.ver} ELSE {}
       /\ Ascends(s, <<m>>)
  BY DEF Seen, Ascends

(* An element more.                                                        *)
LEMMA SeenAppend ==
  ASSUME NEW S, NEW x \in Seq(S), NEW m \in S, NEW s
  PROVE  /\ Seen(s, Append(x, m)) = Seen(s, x) \cup Seen(s, <<m>>)
         /\ Ascends(s, Append(x, m)) <=>
              Ascends(s, x) /\ Ascends(s, <<m>>) /\ Below(Seen(s, x), Seen(s, <<m>>))
  <1> DEFINE one == <<m>>
  <1>1. one \in Seq(S) /\ Append(x, m) = x \o one
    OBVIOUS
  <1> HIDE DEF one
  <1>2. Seen(s, x \o one) = Seen(s, x) \cup Seen(s, one)
    BY <1>1, SeenConcat
  <1>3. Ascends(s, x \o one) <=> Ascends(s, x) /\ Ascends(s, one) /\ Below(Seen(s, x), Seen(s, one))
    BY <1>1, AscendsConcat
  <1> QED
    BY <1>1, <1>2, <1>3 DEF one

(* The first element and the others.                                       *)
LEMMA SeenHead ==
  ASSUME NEW S, NEW x \in Seq(S), x # <<>>, NEW s
  PROVE  /\ Seen(s, x) = Seen(s, <<Head(x)>>) \cup Seen(s, Tail(x))
         /\ Ascends(s, x) => Ascends(s, Tail(x)) /\ Below(Seen(s, <<Head(x)>>), Seen(s, Tail(x)))
  <1> DEFINE h == <<Head(x)>>
             t == Tail(x)
  <1>1. h \in Seq(S) /\ t \in Seq(S) /\ x = h \o t
    OBVIOUS
  <1> HIDE DEF h, t
  <1>2. Seen(s, x) = Seen(s, h) \cup Seen(s, t)
    BY <1>1, SeenConcat
  <1>3. Ascends(s, x) => Ascends(s, t) /\ Below(Seen(s, h), Seen(s, t))
    BY <1>1, AscendsConcat
  <1> QED
    BY <1>2, <1>3 DEF h, t

(* The first k elements and the others.                                    *)
LEMMA SeenSplit ==
  ASSUME NEW S, NEW x \in Seq(S), NEW k \in 1..Len(x), NEW s
  PROVE  LET a == SubSeq(x, 1, k)
             b == SubSeq(x, k + 1, Len(x))
         IN /\ Seen(s, x) = Seen(s, a) \cup Seen(s, b)
            /\ Ascends(s, x) => Ascends(s, a) /\ Ascends(s, b) /\ Below(Seen(s, a), Seen(s, b))
  <1> DEFINE a == SubSeq(x, 1, k)
             b == SubSeq(x, k + 1, Len(x))
  <1>1. a \in Seq(S) /\ b \in Seq(S)
    OBVIOUS
  <1>2. Len(x) = Len(a) + Len(b) /\ Len(a) = k
    OBVIOUS
  <1>3. (\A i \in 1..Len(a) : x[i] = a[i]) /\ (\A i \in 1..Len(b) : x[Len(a) + i] = b[i])
    BY <1>2
  <1> HIDE DEF a, b
  <1>4. x = a \o b
    BY <1>1, <1>2, <1>3, IsConcat
  <1>5. Seen(s, x) = Seen(s, a) \cup Seen(s, b)
    BY <1>1, <1>4, SeenConcat
  <1>6. Ascends(s, x) => Ascends(s, a) /\ Ascends(s, b) /\ Below(Seen(s, a), Seen(s, b))
    BY <1>1, <1>4, AscendsConcat
  <1> QED
    BY <1>5, <1>6 DEF a, b

(* What is said in terms of the elements.                                  *)
LEMMA SeenElems == \A s, x : Seen(s, x) = {e.ver : e \in {y \in Elems(x) : y.sid = s}}
  BY DEF Seen, Elems

(* Of a sid it does not name it says nothing.                              *)
LEMMA NotSeen == \A s, x : s \notin SidsOf(x) => Seen(s, x) = {}
  BY DEF Seen, SidsOf

(* Where all is the same, it ascends.                                      *)
LEMMA SameAscends == \A s, x : Below(Seen(s, x), Seen(s, x)) => Ascends(s, x)
  BY DEF Seen, Ascends, Below

(*-------------------------------- the stage ------------------------------*)

(* A queue holds what is for its sid.                                      *)
Own(q) == \A s \in Sid : \A i \in 1..Len(q[s]) : q[s][i].sid = s

(* The notification m goes to the end of a queue, if it is newer: the      *)
(* queue still ascends and says nothing that it did not or m does not.     *)
LEMMA PutOrder ==
  ASSUME NEW q \in Queues, NEW m \in Notification,
         NEW s \in Sid, Ascends(s, q[s]), Below(Seen(s, q[s]), Seen(s, <<m>>))
  PROVE  /\ Ascends(s, PutMessage(q, m)[s])
         /\ Seen(s, PutMessage(q, m)[s]) \subseteq Seen(s, q[s]) \cup Seen(s, <<m>>)
  <1> DEFINE old == q[m.sid]
             kept == IF Len(old) > Capacity THEN Tail(old) ELSE old
             new == IF m.qos = 0 THEN <<m>> ELSE Append(kept, m)
  <1>1. m.sid \in Sid /\ Capacity \in Nat /\ m.ver \in Int
    BY ChannelAssumption, UpdatesAssumption DEF Notification
  <1>2. old \in Seq(Notification)
    BY <1>1 DEF Queues
  <1>3. PutMessage(q, m) = [q EXCEPT ![m.sid] = new]
    BY DEF PutMessage
  <1>4. q \in [Sid -> Seq(Notification)]
    BY DEF Queues
  <1>5. /\ kept \in Seq(Notification)
        /\ Seen(s, kept) \subseteq Seen(s, old)
        /\ Ascends(s, old) => Ascends(s, kept)
    <2> HIDE DEF old
    <2>1. CASE Len(old) > Capacity
      <3>1. old # <<>>
        BY <1>1, <1>2, <2>1
      <3>2. Tail(old) \in Seq(Notification)
        BY <1>2, <3>1
      <3>3. Seen(s, Tail(old)) \subseteq Seen(s, old) /\ (Ascends(s, old) => Ascends(s, Tail(old)))
        BY <1>2, <3>1, SeenHead
      <3> QED
        BY <1>2, <2>1, <3>2, <3>3
    <2>2. CASE ~(Len(old) > Capacity)
      BY <1>2, <2>2
    <2> QED
      BY <2>1, <2>2
  <1>6. m.sid = s => Ascends(s, new) /\ Seen(s, new) \subseteq Seen(s, q[s]) \cup Seen(s, <<m>>)
    <2> SUFFICES ASSUME m.sid = s
                 PROVE  Ascends(s, new) /\ Seen(s, new) \subseteq Seen(s, q[s]) \cup Seen(s, <<m>>)
      OBVIOUS
    <2>1. Ascends(s, old) /\ Below(Seen(s, old), Seen(s, <<m>>))
      OBVIOUS
    <2>2. Ascends(s, <<m>>)
      BY <1>1, SeenOne
    <2>3. Ascends(s, kept) /\ Below(Seen(s, kept), Seen(s, <<m>>))
      BY <1>5, <2>1 DEF Below
    <2> HIDE DEF kept
    <2>4. /\ Seen(s, Append(kept, m)) = Seen(s, kept) \cup Seen(s, <<m>>)
          /\ Ascends(s, Append(kept, m))
      BY <1>5, <2>2, <2>3, SeenAppend
    <2> QED
      BY <1>5, <2>2, <2>4
  <1> HIDE DEF new, old
  <1> QED
    BY <1>1, <1>3, <1>4, <1>6

(* The same for a batch of them.                                           *)
LEMMA PutAllOrder ==
  ASSUME NEW q \in Queues, NEW ms \in Seq(Notification),
         NEW s \in Sid, Ascends(s, q[s]), Ascends(s, ms), Below(Seen(s, q[s]), Seen(s, ms))
  PROVE  /\ Ascends(s, PutAll(q, ms)[s])
         /\ Seen(s, PutAll(q, ms)[s]) \subseteq Seen(s, q[s]) \cup Seen(s, ms)
  <1> DEFINE after(k) == PutF!Fold(q, Prefix(ms, k))
             T == {k \in 0..Len(ms) : /\ after(k) \in Queues
                                      /\ Ascends(s, after(k)[s])
                                      /\ Seen(s, after(k)[s]) \subseteq
                                           Seen(s, q[s]) \cup Seen(s, Prefix(ms, k))}
  <1>1. 0 \in T
    BY Beginnings, PutF!FoldEmpty
  <1>2. ASSUME NEW k \in 0..Len(ms) - 1, k \in T PROVE k + 1 \in T
    <2> DEFINE p == Prefix(ms, k)
               m == ms[k + 1]
    <2>1. p \in Seq(Notification) /\ m \in Notification /\ Prefix(ms, k + 1) = Append(p, m)
      BY Beginnings
    <2>3. after(k + 1) = PutMessage(after(k), m)
      BY <2>1, PutF!FoldAppend
    <2>4. Prefix(ms, k + 1) = SubSeq(ms, 1, k + 1) /\ k + 1 \in 1..Len(ms)
      BY DEF Prefix
    <2>5. Ascends(s, Prefix(ms, k + 1)) /\ Seen(s, Prefix(ms, k + 1)) \subseteq Seen(s, ms)
      <3>1. LET a == SubSeq(ms, 1, k + 1)
            IN  Seen(s, a) \subseteq Seen(s, ms) /\ Ascends(s, a)
        BY <2>4, SeenSplit
      <3> QED
        BY <2>4, <3>1
    <2> HIDE DEF p, m
    <2>6. Below(Seen(s, p), Seen(s, <<m>>)) /\ Seen(s, Prefix(ms, k + 1)) = Seen(s, p) \cup Seen(s, <<m>>)
      <3>1. /\ Seen(s, Append(p, m)) = Seen(s, p) \cup Seen(s, <<m>>)
            /\ Ascends(s, Append(p, m)) => Below(Seen(s, p), Seen(s, <<m>>))
        BY <2>1, SeenAppend
      <3> QED
        BY <2>1, <2>5, <3>1
    <2>7. Below(Seen(s, after(k)[s]), Seen(s, <<m>>))
      <3>1. Below(Seen(s, q[s]), Seen(s, <<m>>))
        BY <2>5, <2>6 DEF Below
      <3>2. Seen(s, after(k)[s]) \subseteq Seen(s, q[s]) \cup Seen(s, p)
        BY <1>2 DEF p
      <3> QED
        BY <2>6, <3>1, <3>2 DEF Below
    <2>8. after(k) \in Queues /\ Ascends(s, after(k)[s])
          /\ Seen(s, after(k)[s]) \subseteq Seen(s, q[s]) \cup Seen(s, p)
      BY <1>2 DEF p
    <2> HIDE DEF after
    <2>9. /\ PutMessage(after(k), m) \in Queues
          /\ Ascends(s, PutMessage(after(k), m)[s])
          /\ Seen(s, PutMessage(after(k), m)[s]) \subseteq Seen(s, after(k)[s]) \cup Seen(s, <<m>>)
      BY <2>1, <2>7, <2>8, PutOrder, PutTypes
    <2> QED
      BY <2>3, <2>4, <2>6, <2>8, <2>9
  <1>3. Len(ms) \in T
    <2> HIDE DEF T
    <2> QED
      BY <1>1, <1>2, PrefixInduction
  <1>4. after(Len(ms)) = PutAll(q, ms) /\ Prefix(ms, Len(ms)) = ms
    BY Beginnings, PutFold
  <1> QED
    BY <1>3, <1>4

(* Whatever is put goes to the queue of its sid.                           *)
LEMMA PutOwn ==
  ASSUME NEW q \in Queues, NEW m \in Notification, Own(q)
  PROVE  Own(PutMessage(q, m))
  <1> DEFINE old == q[m.sid]
             kept == IF Len(old) > Capacity THEN Tail(old) ELSE old
             new == IF m.qos = 0 THEN <<m>> ELSE Append(kept, m)
  <1>1. m.sid \in Sid /\ Capacity \in Nat
    BY ChannelAssumption DEF Notification
  <1>2. old \in Seq(Notification) /\ \A i \in 1..Len(old) : old[i].sid = m.sid
    BY <1>1 DEF Queues, Own
  <1>3. kept \in Seq(Notification) /\ \A i \in 1..Len(kept) : kept[i].sid = m.sid
    <2> HIDE DEF old
    <2>1. CASE Len(old) > Capacity
      <3>1. /\ Tail(old) \in Seq(Notification) /\ Len(Tail(old)) = Len(old) - 1
            /\ \A i \in 1..Len(Tail(old)) : Tail(old)[i] = old[i + 1] /\ i + 1 \in 1..Len(old)
        BY <1>1, <1>2, <2>1
      <3> QED
        BY <1>2, <2>1, <3>1
    <2> QED
      BY <1>2, <2>1
  <1>4. \A i \in 1..Len(new) : new[i].sid = m.sid
    <2> HIDE DEF kept
    <2>1. \A i \in 1..Len(Append(kept, m)) : Append(kept, m)[i].sid = m.sid
      BY <1>3
    <2>2. \A i \in 1..Len(<<m>>) : <<m>>[i].sid = m.sid
      OBVIOUS
    <2> QED
      BY <2>1, <2>2
  <1>5. PutMessage(q, m) = [q EXCEPT ![m.sid] = new] /\ q \in [Sid -> Seq(Notification)]
    BY DEF PutMessage, Queues
  <1>6. PutMessage(q, m) \in Queues
    BY PutTypes
  <1> HIDE DEF new
  <1> QED
    BY <1>1, <1>4, <1>5, <1>6 DEF Own

(* The same for a batch.                                                   *)
LEMMA PutAllOwn ==
  ASSUME NEW q \in Queues, NEW ms \in Seq(Notification), Own(q)
  PROVE  Own(PutAll(q, ms))
  <1> DEFINE Owned == {r \in Queues : Own(r)}
  <1>1. \A r \in Owned, m \in Notification : PutMessage(r, m) \in Owned
    BY PutOwn, PutTypes
  <1>2. PutF!Fold(q, ms) \in Owned
    <2> HIDE DEF Owned
    <2>1. q \in Owned
      BY DEF Owned
    <2> QED
      BY <1>1, <2>1, PutF!FoldType
  <1> QED
    BY <1>2, PutFold

(* Of a sequence of sequences only the k-th speaks of s: what it says is   *)
(* said by all of them joined.                                             *)
LEMMA FlatSeen ==
  ASSUME NEW S, NEW ss \in Seq(Seq(S)), NEW s, NEW k \in 1..Len(ss),
         \A i \in 1..Len(ss) : i # k => Seen(s, ss[i]) = {},
         \A i \in 1..Len(ss) : Ascends(s, ss[i])
  PROVE  Ascends(s, FlattenSeq(ss)) /\ Seen(s, FlattenSeq(ss)) = Seen(s, ss[k])
  <1> DEFINE flat(i) == FlattenSeq(Prefix(ss, i))
             T == {i \in 0..Len(ss) : /\ flat(i) \in Seq(S)
                                      /\ Ascends(s, flat(i))
                                      /\ Seen(s, flat(i)) = IF i < k THEN {} ELSE Seen(s, ss[k])}
  <1>1. 0 \in T
    BY Beginnings, FlatEmpty, SeenOne
  <1>2. ASSUME NEW i \in 0..Len(ss) - 1, i \in T PROVE i + 1 \in T
    <2> DEFINE p == Prefix(ss, i)
               t == ss[i + 1]
    <2>1. p \in Seq(Seq(S)) /\ t \in Seq(S) /\ Prefix(ss, i + 1) = Append(p, t)
      BY Beginnings
    <2>2. flat(i) \in Seq(S) /\ Ascends(s, flat(i))
          /\ Seen(s, flat(i)) = IF i < k THEN {} ELSE Seen(s, ss[k])
      BY <1>2
    <2>3. Ascends(s, t) /\ (i + 1 # k => Seen(s, t) = {}) /\ i + 1 \in 0..Len(ss)
      <3>1. i + 1 \in 1..Len(ss) /\ i + 1 \in 0..Len(ss)
        OBVIOUS
      <3> QED
        BY <3>1
    <2>4. i + 1 = k => Seen(s, t) = Seen(s, ss[k])
      OBVIOUS
    <2> DEFINE f == FlattenSeq(p)
    <2>5. flat(i + 1) = f \o t /\ flat(i) = f
      <3> HIDE DEF p, t
      <3> QED
        BY <2>1, FlatAppend DEF p
    <2> HIDE DEF flat, f, t, p
    <2>6. Seen(s, f \o t) = Seen(s, f) \cup Seen(s, t) /\ f \o t \in Seq(S)
      BY <2>1, <2>2, <2>5, SeenConcat
    <2>7. Seen(s, f) = {} \/ Seen(s, t) = {}
      BY <2>2, <2>3, <2>5
    <2>8. Below(Seen(s, f), Seen(s, t))
      BY <2>7 DEF Below
    <2>9. Ascends(s, f \o t)
      BY <2>1, <2>2, <2>3, <2>5, <2>8, AscendsConcat
    <2>10. Seen(s, f \o t) = IF i + 1 < k THEN {} ELSE Seen(s, ss[k])
      BY <2>2, <2>3, <2>4, <2>5, <2>6
    <2> QED
      BY <2>3, <2>5, <2>6, <2>9, <2>10
  <1>3. Len(ss) \in T
    <2> HIDE DEF T
    <2> QED
      BY <1>1, <1>2, PrefixInduction
  <1> QED
    BY <1>3, Beginnings

(* All queues, one after the other: of s they say what its queue says.     *)
LEMMA FlattenedOrder ==
  ASSUME NEW q \in Queues, Own(q), NEW s \in Sid, Ascends(s, q[s])
  PROVE  Ascends(s, Flattened(q)) /\ Seen(s, Flattened(q)) = Seen(s, q[s])
  <1> DEFINE n == Cardinality(Sid)
             f == SetToSeq(Sid)
             qs == [i \in 1..n |-> q[f[i]]]
  <1>1. /\ n \in Nat /\ f \in [1..n -> Sid] /\ IsInjective(f)
        /\ \E k \in 1..n : f[k] = s
    BY SetSequence, ChannelAssumption
  <1> HIDE DEF f, n
  <1>2. PICK k \in 1..n : f[k] = s
    BY <1>1
  <1>3. \A i \in 1..n : i # k => f[i] \in Sid \ {s}
    BY <1>1, <1>2 DEF IsInjective
  <1>4. qs \in Seq(Seq(Notification)) /\ Len(qs) = n
    BY <1>1 DEF Queues
  <1>5. Flattened(q) = FlattenSeq(qs)
    BY DEF Flattened, f, n
  <1>6. \A r \in Sid \ {s} : Seen(s, q[r]) = {} /\ Ascends(s, q[r])
    BY DEF Own, Seen, Ascends
  <1>7. /\ k \in 1..Len(qs) /\ qs[k] = q[s]
        /\ \A i \in 1..Len(qs) : (i # k => Seen(s, qs[i]) = {}) /\ Ascends(s, qs[i])
    BY <1>2, <1>3, <1>4, <1>6
  <1> HIDE DEF qs
  <1> QED
    BY <1>4, <1>5, <1>7, FlatSeen

(*------------------------------ the messages -----------------------------*)

(* What a message says of sid s, and what those of a mailbox do.           *)
Shown(s, m) == IF m.kind = "Responses" THEN Seen(s, Rows(m.rs)) ELSE {}

ShownBy(s, ms) == UNION {Shown(s, ms[i]) : i \in 1..Len(ms)}

(* Nothing older comes after something newer; a message has one version.   *)
InTurn(s, ms) == \A i, j \in 1..Len(ms) : i <= j => Below(Shown(s, ms[i]), Shown(s, ms[j]))

(* Messages one after the other say what the ones and the others say.      *)
LEMMA ShownConcat ==
  ASSUME NEW S, NEW a \in Seq(S), NEW b \in Seq(S), NEW s
  PROVE  ShownBy(s, a \o b) = ShownBy(s, a) \cup ShownBy(s, b)
  <1> DEFINE c == a \o b
  <1>1. /\ Len(c) = Len(a) + Len(b) /\ Len(a) \in Nat /\ Len(b) \in Nat
        /\ \A i \in 1..Len(a) : c[i] = a[i]
        /\ \A i \in 1..Len(b) : c[Len(a) + i] = b[i]
    BY ConcatPoints
  <1>2. \A i \in 1..Len(c) : \/ i \in 1..Len(a) /\ c[i] = a[i]
                             \/ i - Len(a) \in 1..Len(b) /\ c[i] = b[i - Len(a)]
    BY <1>1
  <1>3. /\ \A i \in 1..Len(a) : i \in 1..Len(c) /\ c[i] = a[i]
        /\ \A i \in 1..Len(b) : Len(a) + i \in 1..Len(c) /\ c[Len(a) + i] = b[i]
    BY <1>1
  <1> HIDE DEF c
  <1>4. ASSUME NEW v \in ShownBy(s, c) PROVE v \in ShownBy(s, a) \cup ShownBy(s, b)
    <2>1. PICK i \in 1..Len(c) : v \in Shown(s, c[i])
      BY <1>4 DEF ShownBy
    <2> QED
      BY <1>2, <2>1 DEF ShownBy
  <1>5. ASSUME NEW v \in ShownBy(s, a) \cup ShownBy(s, b) PROVE v \in ShownBy(s, c)
    <2>1. \E i \in 1..Len(c) : v \in Shown(s, c[i])
      BY <1>3, <1>5 DEF ShownBy
    <2> QED
      BY <2>1 DEF ShownBy
  <1> QED
    BY <1>4, <1>5 DEF c

(* They come in turn if the ones do, and the others, and nothing of the    *)
(* others is older.                                                        *)
LEMMA InTurnConcat ==
  ASSUME NEW S, NEW a \in Seq(S), NEW b \in Seq(S), NEW s
  PROVE  InTurn(s, a \o b) <=>
           InTurn(s, a) /\ InTurn(s, b) /\ Below(ShownBy(s, a), ShownBy(s, b))
  <1> DEFINE c == a \o b
  <1>1. /\ Len(c) = Len(a) + Len(b) /\ Len(a) \in Nat /\ Len(b) \in Nat
        /\ \A i \in 1..Len(a) : c[i] = a[i]
        /\ \A i \in 1..Len(b) : c[Len(a) + i] = b[i]
    BY ConcatPoints
  <1>2. \A i \in 1..Len(c) : \/ i \in 1..Len(a) /\ c[i] = a[i]
                             \/ i - Len(a) \in 1..Len(b) /\ c[i] = b[i - Len(a)]
    BY <1>1
  <1>3. /\ \A i \in 1..Len(a) : i \in 1..Len(c) /\ c[i] = a[i]
        /\ \A i \in 1..Len(b) : Len(a) + i \in 1..Len(c) /\ c[Len(a) + i] = b[i]
    BY <1>1
  <1> HIDE DEF c
  <1>4. ASSUME InTurn(s, c)
        PROVE  InTurn(s, a) /\ InTurn(s, b) /\ Below(ShownBy(s, a), ShownBy(s, b))
    <2>1. InTurn(s, a)
      BY <1>3, <1>4 DEF InTurn
    <2>2. ASSUME NEW i \in 1..Len(b), NEW j \in 1..Len(b), i <= j
          PROVE  Below(Shown(s, b[i]), Shown(s, b[j]))
      <3>1. Len(a) + i <= Len(a) + j
        BY <1>1, <2>2
      <3> QED
        BY <1>3, <1>4, <3>1 DEF InTurn
    <2>3. ASSUME NEW v \in ShownBy(s, a), NEW w \in ShownBy(s, b) PROVE v <= w
      <3>1. PICK i \in 1..Len(a) : v \in Shown(s, a[i])
        BY <2>3 DEF ShownBy
      <3>2. PICK j \in 1..Len(b) : w \in Shown(s, b[j])
        BY <2>3 DEF ShownBy
      <3>3. i <= Len(a) + j
        BY <1>1
      <3>4. Below(Shown(s, c[i]), Shown(s, c[Len(a) + j]))
        BY <1>3, <1>4, <3>3 DEF InTurn
      <3> QED
        BY <1>3, <3>1, <3>2, <3>4 DEF Below
    <2> QED
      BY <2>1, <2>2, <2>3 DEF Below, InTurn
  <1>5. ASSUME InTurn(s, a), InTurn(s, b), Below(ShownBy(s, a), ShownBy(s, b)),
               NEW i \in 1..Len(c), NEW j \in 1..Len(c), i <= j
        PROVE  Below(Shown(s, c[i]), Shown(s, c[j]))
    <2>1. CASE j \in 1..Len(a) /\ c[j] = a[j]
      <3>1. i \in 1..Len(a) /\ c[i] = a[i]
        BY <1>1, <1>3, <1>5, <2>1
      <3> QED
        BY <1>5, <2>1, <3>1 DEF InTurn
    <2>2. CASE j - Len(a) \in 1..Len(b) /\ c[j] = b[j - Len(a)]
      <3>1. CASE i \in 1..Len(a) /\ c[i] = a[i]
        <4>1. Shown(s, c[i]) \subseteq ShownBy(s, a) /\ Shown(s, c[j]) \subseteq ShownBy(s, b)
          BY <2>2, <3>1 DEF ShownBy
        <4> QED
          BY <1>5, <4>1 DEF Below
      <3>2. CASE i - Len(a) \in 1..Len(b) /\ c[i] = b[i - Len(a)]
        <4>1. i - Len(a) <= j - Len(a)
          BY <1>1, <1>5
        <4> QED
          BY <1>5, <2>2, <3>2, <4>1 DEF InTurn
      <3> QED
        BY <1>2, <3>1, <3>2
    <2> QED
      BY <1>2, <2>1, <2>2
  <1> QED
    BY <1>4, <1>5 DEF InTurn, c

(* No message, and one.                                                    *)
LEMMA ShownOne ==
  /\ \A s : ShownBy(s, <<>>) = {} /\ InTurn(s, <<>>)
  /\ \A s, m : /\ ShownBy(s, <<m>>) = Shown(s, m)
               /\ InTurn(s, <<m>>) <=> Below(Shown(s, m), Shown(s, m))
  BY DEF ShownBy, InTurn

(* The rows of a message are rows, of versions that the node can have.     *)
LEMMA RowsAreRows ==
  ASSUME NEW rs \in Seq(Response)
  PROVE  /\ Rows(rs) \in Seq(RowResponse)
         /\ \A s : Seen(s, Rows(rs)) \subseteq 1..MaxVersion
         /\ \A s : Seen(s, Rows(rs)) = {x.ver : x \in {y \in Elems(rs) \cap RowResponse : y.sid = s}}
  <1>1. Rows(rs) \in Seq(RowResponse)
    <2>1. RowResponse \cap Response = RowResponse
      BY DEF Response
    <2> QED
      BY <2>1, KeptType DEF Rows
  <1>2. \A s : Seen(s, Rows(rs)) \subseteq 1..MaxVersion
    <2>1. \A i \in 1..Len(Rows(rs)) : Rows(rs)[i] \in RowResponse
      BY <1>1, ElementOfSeq
    <2>2. \A r \in RowResponse : r.ver \in 1..MaxVersion
      BY DEF RowResponse
    <2> QED
      BY <2>1, <2>2 DEF Seen
  <1>3. Elems(Rows(rs)) = Elems(rs) \cap RowResponse
    BY KeptElems DEF Rows
  <1> QED
    BY <1>1, <1>2, <1>3, SeenElems

(* Of sid s what goes through the stream says what the rows say; if that   *)
(* is one version it ascends.  Durable rows are those of a durable sid.    *)
LEMMA NotificationsSay ==
  ASSUME TableTypes, NEW rs \in Seq(Response), NEW s \in Sid,
         Below(Seen(s, Rows(rs)), Seen(s, Rows(rs)))
  PROVE  LET ns == Notifications(rs)
             ds == DurableRows(Notifications(rs))
         IN /\ Seen(s, ns) = Seen(s, Rows(rs)) /\ Ascends(s, ns)
            /\ Seen(s, ds) = IF bySid[s] # Nil /\ bySid[s] >= Durable
                             THEN Seen(s, Rows(rs)) ELSE {}
            /\ Ascends(s, ds)
            /\ s \notin {ds[i].sid : i \in 1..Len(ds)} => Seen(s, ds) = {}
  <1> DEFINE rows == Rows(rs)
             ns == Notifications(rs)
             ds == DurableRows(ns)
             level == IF bySid[s] = Nil THEN 0 ELSE bySid[s]
  <1>1. /\ ns \in Seq(Notification) /\ Len(ns) = Len(rows)
        /\ \A i \in 1..Len(ns) : ns[i].sid = rows[i].sid /\ ns[i].ver = rows[i].ver
                                 /\ (ns[i].sid = s => ns[i].qos = level)
    <2>1. ns \in Seq(Notification)
      BY NotificationTypes
    <2>2. rows \in Seq(RowResponse)
      BY RowsAreRows
    <2>3. ns = [i \in 1..Len(rows) |->
                  [sid |-> rows[i].sid, ver |-> rows[i].ver,
                   qos |-> IF bySid[rows[i].sid] = Nil THEN 0 ELSE bySid[rows[i].sid]]]
      BY DEF Notifications
    <2> HIDE DEF ns, rows
    <2> QED
      BY <2>1, <2>2, <2>3
  <1>2. level \in QoS /\ (bySid[s] # Nil /\ bySid[s] >= Durable <=> level >= Durable)
    BY DEF TableTypes, QoS, Durable
  <1> HIDE DEF rows, level
  <1>3. Seen(s, ns) = Seen(s, rows)
    BY <1>1 DEF Seen
  <1>4. Ascends(s, ns)
    BY <1>3, SameAscends DEF rows
  <1>5. Elems(ds) = {e \in Elems(ns) : e.qos >= Durable}
    <2> DEFINE D == [sid : Sid, ver : 1..MaxVersion, qos : {q \in QoS : q \geq Durable}]
    <2>1. Elems(ds) = Elems(ns) \cap D
      BY <1>1, KeptElems DEF DurableRows
    <2>2. \A e \in Elems(ns) : e \in Notification
      BY <1>1 DEF Elems
    <2>3. \A e \in Notification : e \in D <=> e.qos >= Durable
      BY DEF Notification
    <2> HIDE DEF D
    <2> QED
      BY <2>1, <2>2, <2>3
  <1>6. \A e \in Elems(ns) : e.sid = s => e.qos = level
    BY <1>1 DEF Elems
  <1>7. Seen(s, ds) = IF level >= Durable THEN Seen(s, ns) ELSE {}
    <2>1. /\ Seen(s, ds) = {e.ver : e \in {y \in Elems(ds) : y.sid = s}}
          /\ Seen(s, ns) = {e.ver : e \in {y \in Elems(ns) : y.sid = s}}
      BY SeenElems
    <2> HIDE DEF ns, ds
    <2>2. CASE level >= Durable
      <3>1. {y \in Elems(ds) : y.sid = s} = {y \in Elems(ns) : y.sid = s}
        BY <1>5, <1>6, <2>2
      <3> QED
        BY <2>1, <2>2, <3>1
    <2>3. CASE ~(level >= Durable)
      <3>1. {y \in Elems(ds) : y.sid = s} = {}
        BY <1>5, <1>6, <2>3
      <3> QED
        BY <2>1, <2>3, <3>1
    <2> QED
      BY <2>2, <2>3
  <1>8. Seen(s, ds) = IF bySid[s] # Nil /\ bySid[s] >= Durable THEN Seen(s, rows) ELSE {}
    BY <1>2, <1>3, <1>7
  <1>9. Ascends(s, ds)
    <2>1. Below(Seen(s, ds), Seen(s, ds))
      BY <1>8 DEF Below, rows
    <2> QED
      BY <2>1, SameAscends
  <1>10. s \notin {ds[i].sid : i \in 1..Len(ds)} => Seen(s, ds) = {}
    BY DEF Seen
  <1> QED
    BY <1>3, <1>4, <1>8, <1>9, <1>10 DEF rows

(* One request more: a row more that the node says is of its version.      *)
LEMMA HandledRows ==
  ASSUME NEW v \in NodeState, NEW req \in Request,
         NEW x \in Elems(Handled(v, req).out), x \in RowResponse
  PROVE  x \in Elems(v.out) \/ x.ver = v.version
  <1> DEFINE a(c) == Answer(req.rid, c, v.stamp + 1)
             more(c) == Append(v.out, a(c))
             row == Row(req.sid, v.version)
  <1>1. v.out \in Seq(Response) /\ v.stamp \in Nat /\ v.version \in 0..MaxVersion
    BY DEF NodeState
  <1>2. req.rid \in Rid /\ (req.kind = "Subscribe" => req.sid \in Sid)
        /\ req.kind \in {"List", "Close", "Invoke", "Subscribe", "Unsubscribe"}
    BY RequestTypes
  <1>3. ASSUME NEW c \in BOOLEAN
        PROVE  /\ a(c) \in OtherResponse /\ a(c) # x
               /\ more(c) \in Seq(Response) /\ Elems(more(c)) = Elems(v.out) \cup {a(c)}
    <2>1. a(c) \in OtherResponse
      BY <1>1, <1>2, AnswerTypes
    <2>2. a(c) # x
      BY <2>1 DEF RowResponse, OtherResponse
    <2>3. a(c) \in Response
      BY <2>1 DEF Response
    <2> HIDE DEF a
    <2>4. more(c) \in Seq(Response) /\ Elems(more(c)) = Elems(v.out) \cup {a(c)}
      BY <1>1, <2>3, ElemsAppend
    <2> QED
      BY <2>1, <2>2, <2>4
  <1>4. CASE req.kind # "Subscribe"
    <2>1. PICK c \in BOOLEAN : Handled(v, req).out = more(c)
      BY <1>2, <1>4, NodeAssumption DEF Handled, NodeState
    <2> HIDE DEF more, a
    <2> QED
      BY <1>3, <2>1
  <1>5. CASE req.kind = "Subscribe"
    <2>1. Handled(v, req).out = IF v.version = 0 THEN more(TRUE) ELSE Append(more(TRUE), row)
      BY <1>5 DEF Handled, NodeState
    <2>2. v.version # 0 => row \in RowResponse
      BY <1>1, <1>2, <1>5, RowTypes, UpdatesAssumption
    <2>3. row.ver = v.version
      BY DEF Row
    <2> HIDE DEF more, a, row
    <2>4. v.version # 0 => Elems(Append(more(TRUE), row)) = Elems(more(TRUE)) \cup {row}
      <3> SUFFICES ASSUME v.version # 0
                   PROVE  Elems(Append(more(TRUE), row)) = Elems(more(TRUE)) \cup {row}
        OBVIOUS
      <3>1. row \in Response
        BY <2>2 DEF Response
      <3> DEFINE m == more(TRUE)
      <3>2. m \in Seq(Response)
        BY <1>3
      <3> HIDE DEF m
      <3>3. Elems(Append(m, row)) = Elems(m) \cup {row}
        BY <3>1, <3>2, ElemsAppend
      <3> QED
        BY <3>3 DEF m
    <2> QED
      BY <1>3, <2>1, <2>3, <2>4
  <1> QED
    BY <1>4, <1>5

(* The rows in the node's answer are of its version.                       *)
LEMMA AnswerRows ==
  ASSUME TableTypes, nodeBox # <<>>, NEW s
  PROVE  Seen(s, Rows(NodeAnswer)) \subseteq {version}
  <1> DEFINE V == {v \in NodeState : /\ v.version = version
                                     /\ \A x \in Elems(v.out) \cap RowResponse : x.ver = version}
  <1>1. NodeNow \in V
    <2>1. NodeNow \in NodeState /\ NodeNow.version = version /\ NodeNow.out = <<>>
      BY NodeNowType DEF NodeNow
    <2> QED
      BY <2>1, ElemsEmpty
  <1>2. ASSUME NEW v \in V, NEW req \in Request PROVE Handled(v, req) \in V
    BY HandledFields, HandledRows
  <1>3. NodeAfter(NodeNow, Head(nodeBox)) \in V
    <2>1. Head(nodeBox) \in Seq(Request)
      BY AnswerType
    <2> HIDE DEF V
    <2> QED
      BY <1>1, <1>2, <2>1, HandleF!FoldType DEF NodeAfter
  <1>4. NodeAnswer \in Seq(Response) /\ \A x \in Elems(NodeAnswer) \cap RowResponse : x.ver = version
    BY <1>3, AnswerType DEF NodeAnswer
  <1> QED
    BY <1>4, RowsAreRows

(* One message more at the end.                                            *)
LEMMA ShownAppend ==
  ASSUME NEW S, NEW ms \in Seq(S), NEW m \in S, NEW s
  PROVE  /\ ShownBy(s, Append(ms, m)) = ShownBy(s, ms) \cup Shown(s, m)
         /\ InTurn(s, Append(ms, m)) <=>
              /\ InTurn(s, ms)
              /\ Below(Shown(s, m), Shown(s, m))
              /\ Below(ShownBy(s, ms), Shown(s, m))
  <1> DEFINE one == <<m>>
  <1>1. one \in Seq(S) /\ Append(ms, m) = ms \o one
    OBVIOUS
  <1>2. ShownBy(s, one) = Shown(s, m) /\ (InTurn(s, one) <=> Below(Shown(s, m), Shown(s, m)))
    BY ShownOne
  <1> HIDE DEF one
  <1>3. ShownBy(s, ms \o one) = ShownBy(s, ms) \cup ShownBy(s, one)
    BY <1>1, ShownConcat
  <1>4. InTurn(s, ms \o one) <=>
          InTurn(s, ms) /\ InTurn(s, one) /\ Below(ShownBy(s, ms), ShownBy(s, one))
    BY <1>1, InTurnConcat
  <1> QED
    BY <1>1, <1>2, <1>3, <1>4

(* The first message and the others.                                       *)
LEMMA ShownHead ==
  ASSUME NEW S, NEW ms \in Seq(S), ms # <<>>, NEW s
  PROVE  /\ ShownBy(s, ms) = Shown(s, Head(ms)) \cup ShownBy(s, Tail(ms))
         /\ InTurn(s, ms) => /\ InTurn(s, Tail(ms))
                             /\ Below(Shown(s, Head(ms)), Shown(s, Head(ms)))
                             /\ Below(Shown(s, Head(ms)), ShownBy(s, Tail(ms)))
  <1> DEFINE h == Head(ms)
             one == <<h>>
             t == Tail(ms)
  <1>1. one \in Seq(S) /\ t \in Seq(S) /\ ms = one \o t
    OBVIOUS
  <1> HIDE DEF t, h
  <1>2. ShownBy(s, one) = Shown(s, h) /\ (InTurn(s, one) <=> Below(Shown(s, h), Shown(s, h)))
    BY ShownOne
  <1> HIDE DEF one
  <1>3. ShownBy(s, ms) = ShownBy(s, one) \cup ShownBy(s, t)
    BY <1>1, ShownConcat
  <1>4. InTurn(s, ms) => InTurn(s, one) /\ InTurn(s, t) /\ Below(ShownBy(s, one), ShownBy(s, t))
    BY <1>1, InTurnConcat
  <1> QED
    BY <1>2, <1>3, <1>4 DEF h, t

(* The message after the ones in a goes.                                   *)
LEMMA ShownDrop ==
  ASSUME NEW S, NEW a \in Seq(S), NEW ms \in Seq(S), ms # <<>>, NEW s
  PROVE  /\ ShownBy(s, a \o Tail(ms)) \subseteq ShownBy(s, a \o ms)
         /\ InTurn(s, a \o ms) => InTurn(s, a \o Tail(ms))
  <1> DEFINE t == Tail(ms)
  <1>1. t \in Seq(S)
    OBVIOUS
  <1>2. ShownBy(s, t) \subseteq ShownBy(s, ms) /\ (InTurn(s, ms) => InTurn(s, t))
    BY ShownHead
  <1> HIDE DEF t
  <1>3. /\ ShownBy(s, a \o t) = ShownBy(s, a) \cup ShownBy(s, t)
        /\ ShownBy(s, a \o ms) = ShownBy(s, a) \cup ShownBy(s, ms)
    BY <1>1, ShownConcat
  <1>4. InTurn(s, a \o ms) => InTurn(s, a) /\ InTurn(s, ms) /\ Below(ShownBy(s, a), ShownBy(s, ms))
    BY InTurnConcat
  <1>5. InTurn(s, a) /\ InTurn(s, t) /\ Below(ShownBy(s, a), ShownBy(s, t)) => InTurn(s, a \o t)
    BY <1>1, InTurnConcat
  <1>6. Below(ShownBy(s, a), ShownBy(s, ms)) => Below(ShownBy(s, a), ShownBy(s, t))
    BY <1>2 DEF Below
  <1> QED
    BY <1>2, <1>3, <1>4, <1>5, <1>6 DEF t

(* A message of responses says what its rows say, another nothing.         *)
LEMMA ShownRows ==
  ASSUME NEW s
  PROVE  /\ \A m : m.kind # "Responses" => Shown(s, m) = {}
         /\ \A rs : Shown(s, Responses(rs)) = Seen(s, Rows(rs))
  BY DEF Shown, Responses

(*-------------------- what waits in stash and mailbox --------------------*)

Waiting == stash[Me] \o mail[Me]

(* A step that adds no row and changes no order.                           *)
NothingNew ==
  \A s \in Sid : /\ ShownBy(s, Waiting') \subseteq ShownBy(s, Waiting)
                 /\ InTurn(s, Waiting) => InTurn(s, Waiting')

(* Something is sent to the link.                                          *)
LEMMA SentLast ==
  ASSUME LinkTypes, NEW m \in LinkMessage, Send(Me, m), UNCHANGED stash
  PROVE  Waiting' = Append(Waiting, m)
  <1> DEFINE st == stash[Me]
             ml == mail[Me]
  <1>1. mail'[Me] = Append(ml, m) /\ stash'[Me] = st
    BY OnlyMe DEF Send, LinkTypes
  <1>2. st \in Seq(LinkMessage) /\ ml \in Seq(LinkMessage)
    BY HeldOfMe
  <1> HIDE DEF st, ml
  <1>3. st \o Append(ml, m) = Append(st \o ml, m)
    BY <1>2
  <1> QED
    BY <1>1, <1>3 DEF Waiting, st, ml

(* A message without responses is sent to the link.                        *)
LEMMA SentSilently ==
  ASSUME LinkTypes, NEW m \in LinkMessage, m.kind # "Responses", Send(Me, m), UNCHANGED stash
  PROVE  NothingNew
  <1>1. Waiting \in Seq(LinkMessage)
    BY HeldOfMe DEF Waiting
  <1>2. Waiting' = Append(Waiting, m)
    BY SentLast
  <1>3. ASSUME NEW s \in Sid
        PROVE  /\ ShownBy(s, Append(Waiting, m)) \subseteq ShownBy(s, Waiting)
               /\ InTurn(s, Waiting) => InTurn(s, Append(Waiting, m))
    <2>1. Shown(s, m) = {}
      BY ShownRows
    <2>2. Below(Shown(s, m), Shown(s, m)) /\ Below(ShownBy(s, Waiting), Shown(s, m))
      BY <2>1 DEF Below
    <2> HIDE DEF Waiting
    <2> QED
      BY <1>1, <2>1, <2>2, ShownAppend
  <1> QED
    BY <1>2, <1>3 DEF NothingNew

(* The first message is taken.                                             *)
LEMMA FirstTaken ==
  ASSUME LinkTypes, mail[Me] # <<>>, Take(Me), UNCHANGED stash
  PROVE  NothingNew /\ Waiting' = stash[Me] \o Tail(mail[Me])
  <1>1. mail'[Me] = Tail(mail[Me]) /\ stash'[Me] = stash[Me]
    BY OnlyMe DEF Take, LinkTypes
  <1>2. stash[Me] \in Seq(LinkMessage) /\ mail[Me] \in Seq(LinkMessage)
    BY HeldOfMe
  <1>3. Waiting' = stash[Me] \o Tail(mail[Me])
    BY <1>1 DEF Waiting
  <1> QED
    BY <1>2, <1>3, ShownDrop DEF NothingNew, Waiting

(* The first message is put aside: its place is the same.                  *)
LEMMA FirstPutAside ==
  ASSUME LinkTypes, mail[Me] # <<>>, Take(Me),
         stash' = [stash EXCEPT ![Me] = Append(@, Head(mail[Me]))]
  PROVE  /\ Waiting' = Waiting /\ NothingNew
         /\ \A s : ShownBy(s, stash'[Me]) = ShownBy(s, stash[Me]) \cup Shown(s, Head(mail[Me]))
  <1> DEFINE st == stash[Me]
             ml == mail[Me]
             h == Head(ml)
             tl == Tail(ml)
  <1>1. st \in Seq(LinkMessage) /\ ml \in Seq(LinkMessage) /\ ml # <<>>
    BY HeldOfMe
  <1>2. mail'[Me] = tl /\ stash'[Me] = Append(st, h)
    BY OnlyMe DEF Take, LinkTypes
  <1>3. ml = <<h>> \o tl /\ h \in LinkMessage /\ tl \in Seq(LinkMessage)
    BY <1>1
  <1> HIDE DEF st, ml, h, tl
  <1>4. Append(st, h) \o tl = st \o (<<h>> \o tl)
    BY <1>1, <1>3
  <1>5. Waiting' = Waiting
    BY <1>2, <1>3, <1>4 DEF Waiting, st, ml
  <1>6. \A s : ShownBy(s, Append(st, h)) = ShownBy(s, st) \cup Shown(s, h)
    BY <1>1, <1>3, ShownAppend
  <1> QED
    BY <1>2, <1>5, <1>6 DEF NothingNew, st, h, ml

(* A link that connects takes up first what it had put aside.              *)
LEMMA ConnectNothingNew ==
  ASSUME LinkTypes, QuietStash, LinkConnects
  PROVE  NothingNew
  <1> DEFINE st == stash[Me]
             ml == mail[Me]
             w == Head(mail[Me]).ws
             later == st \o Tail(ml)
             next == Watch(w, later)
  <1>1. /\ NewEndpoint(Me) /\ SwitchTo(Me, w)
        /\ mail' = [mail EXCEPT ![Me] = Watch(w, stash[Me] \o Tail(@))]
    BY DEF LinkConnects, ConnectToEndpoint
  <1>2. ml # <<>> /\ w \in Socket
    BY <1>1, HeadTypes DEF NewEndpoint, Holds
  <1>3. st \in Seq(LinkMessage) /\ ml \in Seq(LinkMessage)
    BY HeldOfMe
  <1>4. mail'[Me] = next /\ stash'[Me] = <<>>
    BY <1>1, OnlyMe DEF LinkTypes, SwitchTo
  <1>5. Terminated(w) \in LinkMessage /\ Terminated(w).kind # "Responses"
    BY <1>2 DEF Terminated, ControlMessage, LinkMessage
  <1>6. Waiting = st \o ml
    BY DEF Waiting
  <1> HIDE DEF st, ml, w, next
  <1>7. later \in Seq(LinkMessage)
    BY <1>2, <1>3
  <1>8. \A s \in Sid : /\ ShownBy(s, later) \subseteq ShownBy(s, st \o ml)
                       /\ InTurn(s, st \o ml) => InTurn(s, later)
    BY <1>2, <1>3, ShownDrop
  <1> HIDE DEF later
  <1>9. /\ next \in Seq(LinkMessage)
        /\ \A s \in Sid : /\ ShownBy(s, next) = ShownBy(s, later)
                          /\ InTurn(s, later) => InTurn(s, next)
    <2>1. CASE w \in open
      BY <1>7, <2>1 DEF next, Watch
    <2>2. CASE w \notin open
      <3>1. next = Append(later, Terminated(w))
        BY <2>2 DEF next, Watch
      <3> DEFINE m == Terminated(w)
      <3>2. m \in LinkMessage /\ \A s : Shown(s, m) = {}
        BY <1>5, ShownRows
      <3> HIDE DEF m
      <3>3. next \in Seq(LinkMessage)
        BY <1>7, <3>1, <3>2 DEF m
      <3>4. ASSUME NEW s \in Sid
            PROVE  /\ ShownBy(s, Append(later, m)) = ShownBy(s, later)
                   /\ InTurn(s, later) => InTurn(s, Append(later, m))
        <4>1. Below(Shown(s, m), Shown(s, m)) /\ Below(ShownBy(s, later), Shown(s, m))
          BY <3>2 DEF Below
        <4>2. /\ ShownBy(s, Append(later, m)) = ShownBy(s, later) \cup Shown(s, m)
              /\ InTurn(s, Append(later, m)) <=>
                   /\ InTurn(s, later)
                   /\ Below(Shown(s, m), Shown(s, m))
                   /\ Below(ShownBy(s, later), Shown(s, m))
          BY <1>7, <3>2, ShownAppend
        <4> QED
          BY <3>2, <4>1, <4>2
      <3> QED
        BY <3>1, <3>3, <3>4 DEF m
    <2> QED
      BY <2>1, <2>2
  <1>10. Waiting' = next
    <2>1. <<>> \o next = next
      BY <1>9
    <2> QED
      BY <1>4, <2>1 DEF Waiting
  <1> QED
    BY <1>6, <1>8, <1>9, <1>10 DEF NothingNew

(* Sockets that open and close bring no rows.                              *)
LEMMA SocketsNothingNew ==
  ASSUME LinkTypes, NEW w \in Socket, OpenSocket(w) \/ CloseSocket(w)
  PROVE  NothingNew
  <1>1. CASE OpenSocket(w)
    <2>1. Send(Me, ConnectEndpoint(w)) /\ UNCHANGED stash
      BY <1>1 DEF OpenSocket
    <2>2. ConnectEndpoint(w) \in LinkMessage /\ ConnectEndpoint(w).kind # "Responses"
      BY DEF ConnectEndpoint, ControlMessage, LinkMessage
    <2> QED
      BY <2>1, <2>2, SentSilently
  <1>2. CASE CloseSocket(w)
    <2>1. UNCHANGED stash
      BY <1>2 DEF CloseSocket, SocketCloses
    <2>2. CASE endpoint[Me] = w /\ watching[Me]
      <3>1. Send(Me, Terminated(w))
        BY <1>2, <2>2, OnlyMe DEF Send, CloseSocket, SocketCloses, LinkTypes
      <3>2. Terminated(w) \in LinkMessage /\ Terminated(w).kind # "Responses"
        BY DEF Terminated, ControlMessage, LinkMessage
      <3> QED
        BY <2>1, <3>1, <3>2, SentSilently
    <2>3. CASE ~(endpoint[Me] = w /\ watching[Me])
      <3>1. mail' = mail
        BY <1>2, <2>3, OnlyMe DEF CloseSocket, SocketCloses, LinkTypes
      <3> QED
        BY <2>1, <3>1 DEF NothingNew, Waiting
    <2> QED
      BY <2>2, <2>3
  <1> QED
    BY <1>1, <1>2

(*-------------------------------- the line -------------------------------*)

(* What was handed over, is being emitted, is queued, was offered, waits   *)
(* for the link, and the node's value: nothing newer before an older one.  *)
Line(l, e, q, o, w, n) ==
  /\ Below(l, e \cup q \cup o \cup w \cup n)
  /\ Below(e, q \cup o \cup w \cup n)
  /\ Below(q, o \cup w \cup n)
  /\ Below(o, w \cup n)
  /\ Below(w, n)

(* A part of a line is a line.                                             *)
LEMMA LineFewer ==
  ASSUME NEW l, NEW e, NEW q, NEW o, NEW w, NEW n, Line(l, e, q, o, w, n),
         NEW e2 \in SUBSET e, NEW q2 \in SUBSET q, NEW o2 \in SUBSET o, NEW w2 \in SUBSET w
  PROVE  Line(l, e2, q2, o2, w2, n)
  BY DEF Line, Below

(* The first of those that wait are offered.                               *)
LEMMA LineOffer ==
  ASSUME NEW l, NEW e, NEW q, NEW o, NEW h, NEW t, NEW n,
         Line(l, e, q, o, h \cup t, n), Below(h, t)
  PROVE  Line(l, e, q, o \cup h, t, n)
  BY DEF Line, Below

(* They are queued, when none is on offer.                                 *)
LEMMA LineKeep ==
  ASSUME NEW l, NEW e, NEW q, NEW h, NEW t, NEW n, Line(l, e, q, {}, h \cup t, n), Below(h, t)
  PROVE  Line(l, e, q \cup h, {}, t, n)
  BY DEF Line, Below

(* The first offers are queued.                                            *)
LEMMA LineBatch ==
  ASSUME NEW l, NEW e, NEW q, NEW a, NEW b, NEW w, NEW n,
         Line(l, e, q, a \cup b, w, n), Below(a, b)
  PROVE  Line(l, e, q \cup a, b, w, n)
  BY DEF Line, Below

(* All that is queued is emitted, and the first of it handed over.         *)
LEMMA LineFlush ==
  ASSUME NEW l, NEW h, NEW t, NEW o, NEW w, NEW n,
         Line(l, {}, h \cup t, o, w, n), Below(h, t)
  PROVE  Line(h, t, {}, o, w, n) /\ Line(l, t, {}, o, w, n)
  BY DEF Line, Below

(* The first of what is emitted is handed over.                            *)
LEMMA LineEmit ==
  ASSUME NEW l, NEW h, NEW t, NEW q, NEW o, NEW w, NEW n,
         Line(l, h \cup t, q, o, w, n), Below(h, t)
  PROVE  Line(h, t, q, o, w, n) /\ Line(l, t, q, o, w, n)
  BY DEF Line, Below

(* The node says its value.                                                *)
LEMMA LineAnswer ==
  ASSUME NEW l, NEW e, NEW q, NEW o, NEW w, NEW v \in Int, NEW m \in SUBSET {v},
         Line(l, e, q, o, w, {v})
  PROVE  Line(l, e, q, o, w \cup m, {v}) /\ Below(w, m) /\ Below(m, m)
  <1> DEFINE z == {v}
  <1>1. m \subseteq z /\ Below(m, z) /\ Below(m, m)
    BY DEF Below
  <1>2. Line(l, e, q, o, w, z)
    OBVIOUS
  <1> HIDE DEF z
  <1>3. \A A : Below(A, z) => Below(A, m)
    BY <1>1 DEF Below
  <1>4. /\ Below(l, z) /\ Below(e, z) /\ Below(q, z) /\ Below(o, z) /\ Below(w, z)
        /\ Below(l, e \cup q \cup o \cup w)
        /\ Below(e, q \cup o \cup w) /\ Below(q, o \cup w) /\ Below(o, w)
    BY <1>2 DEF Line, Below
  <1>5. Below(l, m) /\ Below(e, m) /\ Below(q, m) /\ Below(o, m) /\ Below(w, m)
    BY <1>3, <1>4
  <1>6. Line(l, e, q, o, w \cup m, z)
    BY <1>1, <1>4, <1>5 DEF Line, Below
  <1> QED
    BY <1>1, <1>5, <1>6 DEF z

(* It has a newer one.                                                     *)
LEMMA LineNewer ==
  ASSUME NEW l \in SUBSET Int, NEW e \in SUBSET Int, NEW q \in SUBSET Int, NEW o \in SUBSET Int,
         NEW w \in SUBSET Int, NEW v \in Int, NEW m \in SUBSET {v + 1},
         Line(l, e, q, o, w, {v})
  PROVE  Line(l, e, q, o, w \cup m, {v + 1}) /\ Below(w, m) /\ Below(m, m)
  <1>1. Below(l, {v}) /\ Below(e, {v}) /\ Below(q, {v}) /\ Below(o, {v}) /\ Below(w, {v})
    BY DEF Line, Below
  <1>2. \A x \in Int : x <= v => x <= v + 1
    OBVIOUS
  <1>3. /\ Below(l, {v + 1}) /\ Below(e, {v + 1}) /\ Below(q, {v + 1}) /\ Below(o, {v + 1})
        /\ Below(w, {v + 1}) /\ Below({v + 1}, {v + 1})
    BY <1>1, <1>2 DEF Below
  <1>4. \A A : Below(A, {v + 1}) => Below(A, m)
    BY DEF Below
  <1>5. /\ Below(l, m) /\ Below(e, m) /\ Below(q, m) /\ Below(o, m)
        /\ Below(w, m) /\ Below(m, {v + 1}) /\ Below(m, m)
    BY <1>3, <1>4 DEF Below
  <1> DEFINE z == {v + 1}
  <1>6. /\ Below(l, z) /\ Below(e, z) /\ Below(q, z) /\ Below(o, z) /\ Below(w, z)
    BY <1>3
  <1>7. Below(m, z)
    BY <1>5
  <1> HIDE DEF z
  <1>8. Line(l, e, q, o, w \cup m, z)
    <2>1. Below(l, e \cup q \cup o \cup w)
      BY DEF Line, Below
    <2>2. Below(e, q \cup o \cup w) /\ Below(q, o \cup w) /\ Below(o, w)
      BY DEF Line, Below
    <2> QED
      BY <1>5, <1>6, <1>7, <2>1, <2>2 DEF Line, Below
  <1> QED
    BY <1>5, <1>8 DEF z

(*------------------------------ the invariant ----------------------------*)

(* What the stream in use is still emitting.  Former streams are not in    *)
(* the line: a row that one of them queues is overtaken.                   *)
Emission == IF streamTo = Nil THEN <<>> ELSE emitting[streamTo]

(* It and what is on offer are notifications.                              *)
LEMMA CurrentTypes ==
  ASSUME StreamTypes
  PROVE  /\ OnOffer \in Seq(Notification) /\ Emission \in Seq(Notification)
         /\ streamTo # Nil => /\ streamTo \in Socket /\ Emission = emitting[streamTo]
                              /\ OnOffer = offered[streamTo]
  <1>1. streamTo # Nil => streamTo \in Socket
    BY QueuesAre, RequesterAssumption
  <1>2. /\ offered \in [Socket -> Seq(Notification)] /\ emitting \in [Socket -> Seq(Notification)]
        /\ <<>> \in Seq(Notification)
    BY QueuesAre
  <1> QED
    BY <1>1, <1>2 DEF OnOffer, Emission

(* They stay when the streams do.                                          *)
LEMMA CurrentStays ==
  ASSUME UNCHANGED <<offered, emitting, streamTo>>
  PROVE  OnOffer' = OnOffer /\ Emission' = Emission
  BY DEF OnOffer, Emission

(* Rows of sid s come in order through every place that holds them.        *)
InLine(s, l, e, q, o, w, v) ==
  /\ Ascends(s, e) /\ Ascends(s, q) /\ Ascends(s, o) /\ InTurn(s, w)
  /\ Line({l}, Seen(s, e), Seen(s, q), Seen(s, o), ShownBy(s, w), {v})

Ordered(s) == InLine(s, last[s], Emission, queue[s], OnOffer, Waiting, version)

(* A durable sid has no rows in the stash: they would come after later     *)
(* ones, which are queued at once.                                         *)
NoneAside(s) ==
  ~Connected(Me) /\ bySid[s] # Nil /\ bySid[s] >= Durable => ShownBy(s, stash[Me]) = {}

RowsInv ==
  /\ Own(queue)
  /\ \A s \in Sid \ overtaken : Ordered(s) /\ NoneAside(s)

UpdatesInv == Types /\ RowsInv

(* The invariant after a step, part by part.                               *)
LEMMA RowsInvPrime ==
  RowsInv' <=>
    /\ Own(queue')
    /\ \A s \in Sid \ overtaken' :
         /\ InLine(s, last'[s], Emission', queue'[s], OnOffer', Waiting', version')
         /\ ~Connected(Me)' /\ bySid'[s] # Nil /\ bySid'[s] >= Durable =>
              ShownBy(s, stash'[Me]) = {}
  BY DEF RowsInv, Ordered, NoneAside

(* Versions are numbers wherever they are.                                 *)
LEMMA VersionsAreNumbers ==
  ASSUME Types, NEW s \in Sid
  PROVE  /\ version \in Int /\ {last[s]} \subseteq Int
         /\ Seen(s, Emission) \subseteq Int /\ Seen(s, queue[s]) \subseteq Int
         /\ Seen(s, OnOffer) \subseteq Int /\ ShownBy(s, Waiting) \subseteq Int
  <1>1. MaxVersion \in Nat
    BY UpdatesAssumption
  <1>2. ASSUME NEW x \in Seq(Notification) PROVE Seen(s, x) \subseteq Int
    <2>1. \A i \in 1..Len(x) : x[i] \in Notification
      BY ElementOfSeq
    <2>2. \A m \in Notification : m.ver \in Int
      BY <1>1 DEF Notification
    <2> QED
      BY <2>1, <2>2 DEF Seen
  <1>3. ASSUME NEW m \in LinkMessage PROVE Shown(s, m) \subseteq Int
    <2>1. CASE m.kind = "Responses"
      <3>1. m.rs \in Seq(Response)
        BY <2>1 DEF LinkMessage, ControlMessage
      <3>2. Seen(s, Rows(m.rs)) \subseteq 1..MaxVersion
        BY <3>1, RowsAreRows
      <3> QED
        BY <1>1, <2>1, <3>2 DEF Shown
    <2> QED
      BY <2>1 DEF Shown
  <1>4. Waiting \in Seq(LinkMessage)
    BY HeldOfMe DEF Types, Waiting
  <1>5. ShownBy(s, Waiting) \subseteq Int
    <2>1. \A i \in 1..Len(Waiting) : Waiting[i] \in LinkMessage
      BY <1>4, ElementOfSeq
    <2> HIDE DEF Waiting
    <2> QED
      BY <1>3, <2>1 DEF ShownBy
  <1>6. /\ version \in 0..MaxVersion /\ last \in [Sid -> 0..MaxVersion]
        /\ queue[s] \in Seq(Notification)
        /\ Emission \in Seq(Notification) /\ OnOffer \in Seq(Notification)
    BY QueuesAre, CurrentTypes DEF Types, TableTypes, NodeTypeOK, Queues
  <1> QED
    BY <1>1, <1>2, <1>5, <1>6

(* A step that brings no row and leaves the stream alone keeps the order.  *)
LEMMA RowsStay ==
  ASSUME RowsInv, NothingNew, UNCHANGED <<channelVars, version, overtaken>>,
         \A s \in Sid \ overtaken :
           ~Connected(Me)' /\ bySid'[s] # Nil /\ bySid'[s] >= Durable => ShownBy(s, stash'[Me]) = {}
  PROVE  RowsInv'
  <1>1. UNCHANGED <<queue, OnOffer, Emission, last, version, overtaken>>
    BY CurrentStays DEF channelVars
  <1>2. ASSUME NEW s \in Sid \ overtaken
        PROVE  InLine(s, last[s], Emission, queue[s], OnOffer, Waiting', version)
    <2>1. InLine(s, last[s], Emission, queue[s], OnOffer, Waiting, version)
      BY DEF RowsInv, Ordered
    <2>2. ShownBy(s, Waiting') \subseteq ShownBy(s, Waiting)
          /\ (InTurn(s, Waiting) => InTurn(s, Waiting'))
      BY DEF NothingNew
    <2> DEFINE w == Waiting
               w2 == Waiting'
    <2> HIDE DEF w, w2
    <2>3. Line({last[s]}, Seen(s, Emission), Seen(s, queue[s]), Seen(s, OnOffer),
               ShownBy(s, w2), {version})
      BY <2>1, <2>2, LineFewer DEF InLine, w, w2
    <2> QED
      BY <2>1, <2>2, <2>3 DEF InLine, w, w2
  <1> QED
    BY <1>1, <1>2, RowsInvPrime DEF RowsInv

(* It holds too if endpoint, stash and targets stay.                       *)
LEMMA AsideStays ==
  ASSUME RowsInv, NothingNew, UNCHANGED <<channelVars, version, overtaken, endpoint, stash, bySid>>
  PROVE  RowsInv'
  <1>1. Connected(Me)' <=> Connected(Me)
    BY DEF Connected
  <1> QED
    BY <1>1, RowsStay DEF RowsInv, NoneAside

(* Sockets open and close.                                                 *)
LEMMA SocketsKeepOrder ==
  ASSUME UpdatesInv, NEW w \in Socket, OpenSocket(w) \/ CloseSocket(w)
  PROVE  RowsInv'
  <1>1. NothingNew
    BY SocketsNothingNew DEF UpdatesInv, Types
  <1>2. UNCHANGED <<channelVars, version, overtaken, endpoint, stash, bySid>>
    BY DEF OpenSocket, CloseSocket, SocketCloses, nodeVars, behaviorVars
  <1> QED
    BY <1>1, <1>2, AsideStays DEF UpdatesInv

(* A client asks.                                                          *)
LEMMA ClientKeepsOrder ==
  ASSUME UpdatesInv, NEW reqs \in Seq(Request), ClientSends(reqs)
  PROVE  RowsInv'
  <1> DEFINE m == Requests(reqs)
  <1>1. m \in LinkMessage /\ m.kind # "Responses"
    BY DEF Requests, LinkMessage
  <1>2. Send(Me, m) /\ UNCHANGED stash
    BY DEF ClientSends
  <1> HIDE DEF m
  <1>3. NothingNew
    BY <1>1, <1>2, SentSilently DEF UpdatesInv, Types
  <1>4. UNCHANGED <<channelVars, version, overtaken, endpoint, stash, bySid>>
    BY DEF ClientSends, nodeVars, behaviorVars
  <1> QED
    BY <1>3, <1>4, AsideStays DEF UpdatesInv

(* The link passes requests on, or puts them aside.                        *)
LEMMA RequestsKeepOrder ==
  ASSUME UpdatesInv, HandleRequests \/ KeepRequests
  PROVE  RowsInv'
  <1>0. LinkTypes /\ RowsInv
    BY DEF UpdatesInv, Types
  <1>1. CASE HandleRequests
    <2>1. mail[Me] # <<>> /\ Take(Me) /\ Connected(Me)
          /\ UNCHANGED <<stash, endpoint, channelVars, version, overtaken>>
      BY <1>1 DEF HandleRequests, Holds
    <2>2. NothingNew /\ Connected(Me)'
      BY <1>0, <2>1, FirstTaken DEF Connected
    <2> QED
      BY <1>0, <2>1, <2>2, RowsStay
  <1>2. CASE KeepRequests
    <2>1. /\ mail[Me] # <<>> /\ Take(Me) /\ Head(mail[Me]).kind = "Requests"
          /\ stash' = [stash EXCEPT ![Me] = Append(@, Head(mail[Me]))]
          /\ UNCHANGED <<endpoint, channelVars, version, overtaken, bySid>>
      BY <1>2 DEF KeepRequests, Holds, nodeVars, behaviorVars
    <2>2. /\ NothingNew
          /\ \A s : ShownBy(s, stash'[Me]) = ShownBy(s, stash[Me]) \cup Shown(s, Head(mail[Me]))
      BY <1>0, <2>1, FirstPutAside
    <2>3. \A s : Shown(s, Head(mail[Me])) = {}
      BY <2>1, ShownRows
    <2>4. \A s : ShownBy(s, stash'[Me]) = ShownBy(s, stash[Me])
      BY <2>2, <2>3
    <2>5. Connected(Me)' <=> Connected(Me)
      BY <2>1 DEF Connected
    <2> QED
      BY <1>0, <2>1, <2>2, <2>4, <2>5, RowsStay DEF RowsInv, NoneAside
  <1> QED
    BY <1>1, <1>2

(* A session ends: nothing is in the stash.                                *)
LEMMA DisconnectKeepsOrder ==
  ASSUME UpdatesInv, LinkDisconnects
  PROVE  RowsInv'
  <1>0. LinkTypes /\ QuietStash /\ RowsInv
    BY DEF UpdatesInv, Types
  <1>1. mail[Me] # <<>> /\ Take(Me) /\ UNCHANGED <<stash, channelVars, version, overtaken, bySid>>
    BY DEF LinkDisconnects, SessionEnds, ControlIgnored, Holds, DisconnectFromEndpoint, nodeVars,
           behaviorVars
  <1>2. NothingNew
    BY <1>0, <1>1, FirstTaken
  <1>3. CASE Connected(Me)
    <2>1. \A s : ShownBy(s, stash'[Me]) = {}
      BY <1>0, <1>1, <1>3, ShownOne DEF QuietStash
    <2> QED
      BY <1>0, <1>1, <1>2, <2>1, RowsStay
  <1>4. CASE ~Connected(Me)
    <2>1. UNCHANGED endpoint
      BY <1>4 DEF LinkDisconnects, SessionEnds, ControlIgnored
    <2> QED
      BY <1>0, <1>1, <1>2, <2>1, AsideStays
  <1> QED
    BY <1>3, <1>4

(* A session begins: what was offered to the former stream, or is being    *)
(* emitted by it, is not in the line any more.                             *)
LEMMA ConnectKeepsOrder ==
  ASSUME UpdatesInv, LinkConnects
  PROVE  RowsInv'
  <1> DEFINE w == Head(mail[Me]).ws
  <1>0. LinkTypes /\ QuietStash /\ StreamTypes /\ RowsInv
    BY DEF UpdatesInv, Types
  <1>1. /\ NewEndpoint(Me) /\ SwitchTo(Me, w) /\ StartStream(w)
        /\ UNCHANGED <<version, overtaken>>
    BY DEF LinkConnects, ConnectToEndpoint, nodeVars
  <1>2. w \in Socket
    BY <1>0, <1>1, HeadTypes DEF NewEndpoint, Holds
  <1>3. endpoint'[Me] = w
    BY <1>0, <1>1, OnlyMe DEF SwitchTo, LinkTypes
  <1>4. w # NoSocket /\ Connected(Me)'
    BY <1>2, <1>3, ConnectionAssumption, RequesterAssumption DEF Connected
  <1>5. NothingNew
    BY <1>0, ConnectNothingNew
  <1> HIDE DEF w
  <1>6. OnOffer' = <<>> /\ Emission' = <<>> /\ UNCHANGED <<queue, last>>
    <2>1. /\ streamTo' = w /\ UNCHANGED <<queue, last>>
          /\ offered' = [offered EXCEPT ![w] = <<>>] /\ emitting' = [emitting EXCEPT ![w] = <<>>]
      BY <1>1 DEF StartStream
    <2>2. offered'[w] = <<>> /\ emitting'[w] = <<>>
      BY <1>0, <1>2, <2>1, QueuesAre
    <2>3. OnOffer' = <<>> /\ Emission' = <<>>
      BY <2>1, <2>2 DEF OnOffer, Emission
    <2> QED
      BY <2>1, <2>3
  <1>7. ASSUME NEW s \in Sid \ overtaken
        PROVE  InLine(s, last[s], <<>>, queue[s], <<>>, Waiting', version)
    <2>1. InLine(s, last[s], Emission, queue[s], OnOffer, Waiting, version)
      BY <1>0 DEF RowsInv, Ordered
    <2>2. ShownBy(s, Waiting') \subseteq ShownBy(s, Waiting)
          /\ (InTurn(s, Waiting) => InTurn(s, Waiting'))
      BY <1>5 DEF NothingNew
    <2> DEFINE x == Waiting
               y == Waiting'
    <2> HIDE DEF x, y
    <2>3. Line({last[s]}, {}, Seen(s, queue[s]), {}, ShownBy(s, y), {version})
      BY <2>1, <2>2, LineFewer DEF InLine, x, y
    <2> QED
      BY <2>1, <2>2, <2>3, SeenOne DEF InLine, x, y
  <1> QED
    BY <1>0, <1>1, <1>4, <1>6, <1>7, RowsInvPrime DEF RowsInv

(*---------------------------- the node's rows ----------------------------*)

(* The node answers: the rows it sends are of its value.                   *)
LEMMA AnswersKeepOrder ==
  ASSUME UpdatesInv, NodeAnswers
  PROVE  RowsInv'
  <1> DEFINE m == Responses(NodeAnswer)
  <1>0. Types /\ LinkTypes /\ TableTypes /\ RowsInv
    BY DEF UpdatesInv, Types
  <1>1. nodeBox # <<>> /\ Send(Me, m)
        /\ UNCHANGED <<stash, endpoint, channelVars, version, overtaken, bySid>>
    BY DEF NodeAnswers, NodeReceives, behaviorVars
  <1>2. m \in LinkMessage
    BY <1>0, <1>1, AnswerType DEF Responses, LinkMessage
  <1>3. \A s : Shown(s, m) \subseteq {version}
    BY <1>0, <1>1, AnswerRows, ShownRows
  <1> HIDE DEF m
  <1>4. Waiting \in Seq(LinkMessage) /\ Waiting' = Append(Waiting, m)
    BY <1>0, <1>1, <1>2, HeldOfMe, SentLast DEF Waiting
  <1>5. UNCHANGED <<queue, OnOffer, Emission, last>> /\ (Connected(Me)' <=> Connected(Me))
    BY <1>1, CurrentStays DEF channelVars, Connected
  <1>6. ASSUME NEW s \in Sid \ overtaken
        PROVE  InLine(s, last[s], Emission, queue[s], OnOffer, Waiting', version)
    <2>1. InLine(s, last[s], Emission, queue[s], OnOffer, Waiting, version)
      BY <1>0 DEF RowsInv, Ordered
    <2> DEFINE x == Waiting
               y == Waiting'
               b == Shown(s, m)
    <2>2. version \in Int /\ b \in SUBSET {version}
      BY <1>0, <1>3, VersionsAreNumbers
    <2>3. x \in Seq(LinkMessage) /\ y = Append(x, m)
      BY <1>4
    <2> HIDE DEF x, y
    <2>4. /\ ShownBy(s, y) = ShownBy(s, x) \cup b
          /\ InTurn(s, x) /\ Below(b, b) /\ Below(ShownBy(s, x), b) => InTurn(s, y)
      BY <1>2, <2>3, ShownAppend
    <2> HIDE DEF b
    <2>5. /\ Line({last[s]}, Seen(s, Emission), Seen(s, queue[s]), Seen(s, OnOffer),
                  ShownBy(s, x) \cup b, {version})
          /\ Below(ShownBy(s, x), b) /\ Below(b, b)
      BY <2>1, <2>2, LineAnswer DEF InLine, x
    <2> QED
      BY <2>1, <2>4, <2>5 DEF InLine, x, y
  <1> QED
    BY <1>0, <1>1, <1>5, <1>6, RowsInvPrime DEF RowsInv, NoneAside

(* The rows of a new value are of that.                                    *)
LEMMA ValueShown ==
  ASSUME TableTypes, version < MaxVersion, NEW s, NEW i \in 1..Cardinality(sids)
  PROVE  Shown(s, Responses(ValueRows(version + 1)[i])) \subseteq {version + 1}
  <1> DEFINE x == Row(SetToSeq(sids)[i], version + 1)
             rs == ValueRows(version + 1)[i]
  <1>1. rs \in Seq(RowResponse) /\ rs = <<x>> /\ x.ver = version + 1
    BY ValueTypes DEF ValueRows, Row
  <1> HIDE DEF x, rs
  <1>2. rs \in Seq(Response)
    BY <1>1 DEF Response
  <1>3. Elems(rs) = {x}
    BY <1>1 DEF Elems
  <1>4. Seen(s, Rows(rs)) = {e.ver : e \in {y \in Elems(rs) \cap RowResponse : y.sid = s}}
    BY <1>2, RowsAreRows
  <1>5. Seen(s, Rows(rs)) \subseteq {version + 1}
    BY <1>1, <1>3, <1>4
  <1> QED
    BY <1>5, ShownRows DEF rs

(* The node has a new value: its rows come last.                           *)
LEMMA ChangesKeepOrder ==
  ASSUME UpdatesInv, NodeChanges
  PROVE  RowsInv'
  <1> DEFINE n == Cardinality(sids)
             news == [i \in 1..n |-> Responses(ValueRows(version + 1)[i])]
             st == stash[Me]
             ml == mail[Me]
  <1>0. Types /\ LinkTypes /\ TableTypes /\ RowsInv
    BY DEF UpdatesInv, Types
  <1>1. /\ version < MaxVersion /\ version' = version + 1
        /\ mail' = [mail EXCEPT ![Me] = @ \o news]
        /\ UNCHANGED <<stash, endpoint, channelVars, overtaken, bySid>>
    BY DEF NodeChanges, NodeValue, behaviorVars
  <1>2. n \in Nat /\ \A i \in 1..n : Responses(ValueRows(version + 1)[i]) \in LinkMessage
    BY <1>0, <1>1, ValueTypes, RowsSilent
  <1>3. news \in Seq(LinkMessage) /\ Len(news) = n
    <2> HIDE DEF n
    <2> QED
      BY <1>2
  <1>4. \A s : \A i \in 1..Len(news) : Shown(s, news[i]) \subseteq {version + 1}
    <2> TAKE s
    <2> TAKE i \in 1..Len(news)
    <2>1. i \in 1..n /\ news[i] = Responses(ValueRows(version + 1)[i])
      BY <1>3
    <2> HIDE DEF news, n
    <2>2. i \in 1..Cardinality(sids)
      BY <2>1 DEF n
    <2>3. Shown(s, Responses(ValueRows(version + 1)[i])) \subseteq {version + 1}
      BY <1>0, <1>1, <2>2, ValueShown
    <2> QED
      BY <2>1, <2>3
  <1>5. st \in Seq(LinkMessage) /\ ml \in Seq(LinkMessage)
    BY <1>0, HeldOfMe
  <1> HIDE DEF news
  <1>6. stash'[Me] = st /\ mail'[Me] = ml \o news
    BY <1>0, <1>1, OnlyMe DEF LinkTypes
  <1> HIDE DEF st, ml
  <1>7. Waiting' = Waiting \o news /\ Waiting \in Seq(LinkMessage)
    <2>1. st \o (ml \o news) = (st \o ml) \o news /\ st \o ml \in Seq(LinkMessage)
      BY <1>3, <1>5
    <2> QED
      BY <1>6, <2>1 DEF Waiting, st, ml
  <1>8. UNCHANGED <<queue, OnOffer, Emission, last>> /\ (Connected(Me)' <=> Connected(Me))
    BY <1>1, CurrentStays DEF channelVars, Connected
  <1>9. ASSUME NEW s \in Sid \ overtaken
        PROVE  InLine(s, last[s], Emission, queue[s], OnOffer, Waiting', version + 1)
    <2>1. InLine(s, last[s], Emission, queue[s], OnOffer, Waiting, version)
      BY <1>0 DEF RowsInv, Ordered
    <2> DEFINE x == Waiting
               y == Waiting'
               b == ShownBy(s, news)
    <2>2. b \in SUBSET {version + 1}
      <3>1. ASSUME NEW v \in b PROVE v \in {version + 1}
        <4>1. PICK i \in 1..Len(news) : v \in Shown(s, news[i])
          BY <3>1 DEF ShownBy
        <4> QED
          BY <1>4, <4>1
      <3> QED
        BY <3>1
    <2>3. x \in Seq(LinkMessage) /\ y = x \o news
      BY <1>7
    <2> HIDE DEF x, y
    <2>4. /\ ShownBy(s, y) = ShownBy(s, x) \cup b
          /\ InTurn(s, x) /\ InTurn(s, news) /\ Below(ShownBy(s, x), b) => InTurn(s, y)
      BY <1>3, <2>3, ShownConcat, InTurnConcat
    <2> HIDE DEF b
    <2>5. /\ {last[s]} \in SUBSET Int /\ Seen(s, Emission) \in SUBSET Int
          /\ Seen(s, queue[s]) \in SUBSET Int /\ Seen(s, OnOffer) \in SUBSET Int
          /\ ShownBy(s, x) \in SUBSET Int /\ version \in Int
      BY <1>0, VersionsAreNumbers DEF x
    <2>6. Line({last[s]}, Seen(s, Emission), Seen(s, queue[s]), Seen(s, OnOffer),
               ShownBy(s, x), {version})
      BY <2>1 DEF InLine, x
    <2>7. /\ Line({last[s]}, Seen(s, Emission), Seen(s, queue[s]), Seen(s, OnOffer),
                  ShownBy(s, x) \cup b, {version + 1})
          /\ Below(ShownBy(s, x), b)
      <3> HIDE DEF Line, Below
      <3> QED
        BY <2>2, <2>5, <2>6, LineNewer
    <2>8. InTurn(s, news)
      <3> DEFINE z == {version + 1}
      <3>1. Below(z, z)
        BY <2>5 DEF Below
      <3>2. \A i \in 1..Len(news) : Shown(s, news[i]) \subseteq z
        BY <1>4
      <3> HIDE DEF z
      <3>3. ASSUME NEW i \in 1..Len(news), NEW j \in 1..Len(news)
            PROVE  Below(Shown(s, news[i]), Shown(s, news[j]))
        BY <3>1, <3>2 DEF Below
      <3> QED
        BY <3>3 DEF InTurn
    <2> QED
      BY <2>1, <2>4, <2>7, <2>8 DEF InLine, x, y
  <1> QED
    BY <1>0, <1>1, <1>8, <1>9, RowsInvPrime DEF RowsInv, NoneAside

(*--------------------------- rows at the link ----------------------------*)

(* The first message of the mailbox, after what the stash says.            *)
LEMMA FirstOfWaiting ==
  ASSUME LinkTypes, mail[Me] # <<>>, NEW s, InTurn(s, Waiting)
  PROVE  LET st == ShownBy(s, stash[Me])
             h  == Shown(s, Head(mail[Me]))
             t  == ShownBy(s, Tail(mail[Me]))
         IN /\ ShownBy(s, Waiting) = st \cup (h \cup t)
            /\ ShownBy(s, stash[Me] \o Tail(mail[Me])) = st \cup t
            /\ Below(h, h) /\ Below(h, t)
  <1> DEFINE st == stash[Me]
             ml == mail[Me]
             tl == Tail(ml)
  <1>1. st \in Seq(LinkMessage) /\ ml \in Seq(LinkMessage) /\ ml # <<>> /\ tl \in Seq(LinkMessage)
    BY HeldOfMe
  <1>2. InTurn(s, st \o ml) /\ Waiting = st \o ml
    BY DEF Waiting
  <1> HIDE DEF st, ml, tl
  <1>3. InTurn(s, ml) /\ ShownBy(s, st \o ml) = ShownBy(s, st) \cup ShownBy(s, ml)
    BY <1>1, <1>2, InTurnConcat, ShownConcat
  <1>4. /\ ShownBy(s, ml) = Shown(s, Head(ml)) \cup ShownBy(s, tl)
        /\ Below(Shown(s, Head(ml)), Shown(s, Head(ml)))
        /\ Below(Shown(s, Head(ml)), ShownBy(s, tl))
    BY <1>1, <1>3, ShownHead DEF tl
  <1>5. ShownBy(s, st \o tl) = ShownBy(s, st) \cup ShownBy(s, tl)
    BY <1>1, ShownConcat
  <1> QED
    BY <1>2, <1>3, <1>4, <1>5 DEF st, ml, tl

(* The link is connected: rows are offered to the stream, if there is one. *)
LEMMA ResponsesKeepOrder ==
  ASSUME UpdatesInv, HandleResponses
  PROVE  RowsInv'
  <1> DEFINE rs == Head(mail[Me]).rs
             ns == Notifications(rs)
  <1>0. Types /\ LinkTypes /\ TableTypes /\ QuietStash /\ RowsInv
    BY DEF UpdatesInv, Types
  <1>1. /\ mail[Me] # <<>> /\ Take(Me) /\ Connected(Me) /\ Head(mail[Me]).kind = "Responses"
        /\ Offer(ns) /\ UNCHANGED <<stash, endpoint, version, overtaken>>
    BY DEF HandleResponses, Holds, nodeVars
  <1>2. rs \in Seq(Response) /\ ns \in Seq(Notification)
    BY <1>0, HandleResponsesMoves, NotificationTypes
  <1>3. Connected(Me)' /\ NothingNew /\ Waiting' = stash[Me] \o Tail(mail[Me])
    BY <1>0, <1>1, FirstTaken DEF Connected
  <1>4. CASE streamTo = NoSocket
    <2>1. UNCHANGED channelVars
      BY <1>1, <1>4 DEF Offer, channelVars
    <2> QED
      BY <1>0, <1>1, <1>3, <2>1, RowsStay
  <1>5. CASE streamTo # NoSocket
    <2>1. OnOffer' = OnOffer \o ns /\ UNCHANGED <<queue, Emission, last>>
      <3> HIDE DEF ns
      <3>1. /\ offered' = [offered EXCEPT ![streamTo] = @ \o ns]
            /\ UNCHANGED <<queue, emitting, streamTo, last>>
        BY <1>1, <1>5 DEF Offer
      <3>2. streamTo \in Socket /\ offered \in [Socket -> Seq(Notification)]
        BY <1>0, <1>5, QueuesAre DEF Types
      <3>3. offered'[streamTo] = offered[streamTo] \o ns
        BY <3>1, <3>2
      <3> QED
        BY <1>5, <3>1, <3>3, RequesterAssumption DEF OnOffer, Emission
    <2>2. OnOffer \in Seq(Notification)
      BY <1>0, CurrentTypes DEF Types
    <2>3. ASSUME NEW s \in Sid \ overtaken
          PROVE  InLine(s, last[s], Emission, queue[s], OnOffer \o ns, Waiting', version)
      <3> DEFINE h == Shown(s, Head(mail[Me]))
                 t == ShownBy(s, Tail(mail[Me]))
                 x == Waiting
                 y == Waiting'
      <3>1. InLine(s, last[s], Emission, queue[s], OnOffer, x, version)
        BY <1>0 DEF RowsInv, Ordered
      <3>2. ShownBy(s, stash[Me]) = {}
        BY <1>0, <1>1, ShownOne DEF QuietStash
      <3>3. InTurn(s, x) /\ InTurn(s, y)
        BY <1>3, <3>1 DEF InLine, NothingNew
      <3>4. ShownBy(s, x) = h \cup t /\ ShownBy(s, y) = t /\ Below(h, h) /\ Below(h, t)
        BY <1>0, <1>1, <1>3, <3>2, <3>3, FirstOfWaiting
      <3>5. h = Seen(s, Rows(rs))
        BY <1>1 DEF Shown
      <3> HIDE DEF h, t, x, y, ns, rs
      <3>6. Seen(s, ns) = h /\ Ascends(s, ns)
        BY <1>0, <1>2, <3>4, <3>5, NotificationsSay DEF ns
      <3>7. Line({last[s]}, Seen(s, Emission), Seen(s, queue[s]), Seen(s, OnOffer), h \cup t, {version})
        BY <3>1, <3>4 DEF InLine
      <3>8. /\ Line({last[s]}, Seen(s, Emission), Seen(s, queue[s]), Seen(s, OnOffer) \cup h, t, {version})
            /\ Below(Seen(s, OnOffer), h)
        <4>1. Line({last[s]}, Seen(s, Emission), Seen(s, queue[s]), Seen(s, OnOffer) \cup h, t, {version})
          BY <3>4, <3>7, LineOffer
        <4>2. Below(Seen(s, OnOffer), h)
          BY <3>7 DEF Line, Below
        <4> QED
          BY <4>1, <4>2
      <3>9. Seen(s, OnOffer \o ns) = Seen(s, OnOffer) \cup h /\ Ascends(s, OnOffer \o ns)
        <4>1. Ascends(s, OnOffer)
          BY <3>1 DEF InLine
        <4> QED
          BY <1>2, <2>2, <3>6, <3>8, <4>1, SeenConcat, AscendsConcat
      <3> QED
        BY <3>1, <3>3, <3>4, <3>8, <3>9 DEF InLine, y
    <2> QED
      BY <1>0, <1>1, <1>3, <1>5, <2>1, <2>3, RowsInvPrime DEF RowsInv
  <1> QED
    BY <1>4, <1>5

(* The link is not connected: a durable row is queued at once.  Where a    *)
(* row waits in the stash too, or an older one is on offer, they may be    *)
(* overtaken; otherwise the queue is the last place before the mailbox.    *)
LEMMA KeepingKeepsOrder ==
  ASSUME UpdatesInv, KeepResponses
  PROVE  RowsInv'
  <1> DEFINE rs == Head(mail[Me]).rs
             ds == DurableRows(Notifications(rs))
             late == SidsOf(ds)
             again == Others(rs) # <<>>
  <1>0. Types /\ LinkTypes /\ TableTypes /\ RowsInv
    BY DEF UpdatesInv, Types
  <1>1. /\ mail[Me] # <<>> /\ Take(Me) /\ ~Connected(Me) /\ Head(mail[Me]).kind = "Responses"
        /\ queue' = PutAll(queue, ds)
        /\ stash' = IF again THEN [stash EXCEPT ![Me] = Append(@, Head(mail[Me]))] ELSE stash
        /\ overtaken' = overtaken \cup {s \in late : again \/ s \in SidsOf(OnOffer)}
        /\ UNCHANGED <<endpoint, version, bySid, OnOffer, Emission, last>>
    BY CurrentStays DEF KeepResponses, Holds, nodeVars, Cleanup, PutDirectly
  <1>2. rs \in Seq(Response) /\ ds \in Seq(Notification) /\ queue \in Queues
    BY <1>0, <1>1, HeadTypes, NotificationTypes, QueuesAre DEF Types
  <1>3. Own(queue')
    BY <1>0, <1>1, <1>2, PutAllOwn DEF RowsInv
  <1>4. /\ NothingNew
        /\ again => /\ Waiting' = Waiting
                    /\ \A s : ShownBy(s, stash'[Me]) = ShownBy(s, stash[Me]) \cup Shown(s, Head(mail[Me]))
        /\ ~again => Waiting' = stash[Me] \o Tail(mail[Me]) /\ stash' = stash
    BY <1>0, <1>1, FirstPutAside, FirstTaken
  <1>5. ASSUME NEW s \in Sid \ overtaken'
        PROVE  /\ InLine(s, last[s], Emission, queue'[s], OnOffer, Waiting', version)
               /\ bySid[s] # Nil /\ bySid[s] >= Durable => ShownBy(s, stash'[Me]) = {}
    <2> DEFINE h == Shown(s, Head(mail[Me]))
               t == ShownBy(s, Tail(mail[Me]))
               x == Waiting
               y == Waiting'
               q == queue[s]
               q2 == queue'[s]
               lasting == bySid[s] # Nil /\ bySid[s] >= Durable
    <2>1. s \in Sid \ overtaken /\ (again \/ s \in SidsOf(OnOffer) => s \notin late)
      BY <1>1
    <2>2. InLine(s, last[s], Emission, q, OnOffer, x, version)
          /\ (lasting => ShownBy(s, stash[Me]) = {})
      BY <1>0, <1>1, <2>1 DEF RowsInv, Ordered, NoneAside
    <2>3. InTurn(s, x) /\ InTurn(s, y) /\ ShownBy(s, y) \subseteq ShownBy(s, x)
      BY <1>4, <2>1, <2>2 DEF InLine, NothingNew
    <2>4. /\ ShownBy(s, x) = ShownBy(s, stash[Me]) \cup (h \cup t)
          /\ ~again => ShownBy(s, y) = ShownBy(s, stash[Me]) \cup t
          /\ Below(h, h) /\ Below(h, t)
      BY <1>0, <1>1, <1>4, <2>3, FirstOfWaiting
    <2>5. h = Seen(s, Rows(rs))
      BY <1>1 DEF Shown
    <2>6. /\ Seen(s, ds) = IF lasting THEN h ELSE {}
          /\ Ascends(s, ds) /\ (s \notin late => Seen(s, ds) = {})
      BY <1>0, <1>2, <2>1, <2>4, <2>5, NotificationsSay DEF SidsOf
    <2> HIDE DEF h, t, x, y, rs, ds, late, again, lasting
    <2>7. lasting => ShownBy(s, stash'[Me]) = {}
      <3>1. CASE again
        <4>1. lasting => h = {}
          BY <2>1, <2>6, <3>1
        <4> QED
          BY <1>4, <2>2, <3>1, <4>1 DEF h
      <3>2. CASE ~again
        BY <1>4, <2>2, <3>2
      <3> QED
        BY <3>1, <3>2
    <2>8. Ascends(s, q) /\ Ascends(s, Emission) /\ Ascends(s, OnOffer)
          /\ Line({last[s]}, Seen(s, Emission), Seen(s, q), Seen(s, OnOffer), ShownBy(s, x), {version})
      BY <2>2 DEF InLine
    <2>9. Below(Seen(s, q), Seen(s, ds))
      <3>1. Seen(s, ds) \subseteq ShownBy(s, x)
        BY <2>4, <2>6
      <3> QED
        BY <2>8, <3>1 DEF Line, Below
    <2>10. Ascends(s, q2) /\ Seen(s, q2) \subseteq Seen(s, q) \cup Seen(s, ds)
      BY <1>1, <1>2, <2>1, <2>6, <2>8, <2>9, PutAllOrder
    <2> HIDE DEF q, q2
    <2>11. Line({last[s]}, Seen(s, Emission), Seen(s, q2), Seen(s, OnOffer), ShownBy(s, y), {version})
      <3>1. CASE Seen(s, ds) = {}
        <4>1. Seen(s, q2) \subseteq Seen(s, q)
          BY <2>10, <3>1
        <4> QED
          BY <2>3, <2>8, <4>1, LineFewer
      <3>2. CASE Seen(s, ds) # {}
        <4>1. lasting /\ ~again /\ s \notin SidsOf(OnOffer) /\ Seen(s, ds) = h
          BY <2>1, <2>6, <3>2
        <4>2. Seen(s, OnOffer) = {}
          BY <4>1, NotSeen
        <4>3. ShownBy(s, x) = h \cup t /\ ShownBy(s, y) = t
          BY <2>2, <2>4, <4>1
        <4>4. Line({last[s]}, Seen(s, Emission), Seen(s, q), {}, h \cup t, {version})
          BY <2>8, <4>2, <4>3
        <4>5. Line({last[s]}, Seen(s, Emission), Seen(s, q) \cup h, {}, t, {version})
          BY <2>4, <4>4, LineKeep
        <4>6. Seen(s, q2) \subseteq Seen(s, q) \cup h
          BY <2>10, <4>1
        <4>7. Line({last[s]}, Seen(s, Emission), Seen(s, q2), {}, t, {version})
          BY <4>5, <4>6, LineFewer
        <4> QED
          BY <4>2, <4>3, <4>7
      <3> QED
        BY <3>1, <3>2
    <2> QED
      BY <2>3, <2>7, <2>8, <2>10, <2>11 DEF InLine, q2, y, lasting
  <1>6. Connected(Me)' <=> Connected(Me)
    BY <1>1 DEF Connected
  <1> HIDE DEF rs, ds, late, again
  <1> QED
    BY <1>0, <1>1, <1>3, <1>5, <1>6, RowsInvPrime DEF RowsInv

(*-------------------------- rows of the stream ---------------------------*)

(* What a notification says when it is handed over by the stream in use.   *)
LEMMA HandOverLast ==
  ASSUME StreamTypes, NEW m \in Notification, HandOver(streamTo, m), NEW s \in Sid
  PROVE  /\ m.sid = s => last'[s] = m.ver /\ Seen(s, <<m>>) = {last'[s]}
         /\ m.sid # s => last'[s] = last[s] /\ Seen(s, <<m>>) = {}
  <1>1. m.sid \in Sid /\ m.ver \in Int
    BY UpdatesAssumption DEF Notification
  <1>2. last' = [last EXCEPT ![m.sid] = m.ver] /\ last \in [Sid -> 0..MaxVersion]
    BY QueuesAre DEF HandOver
  <1>3. Seen(s, <<m>>) = IF m.sid = s THEN {m.ver} ELSE {}
    BY <1>1, SeenOne
  <1> QED
    BY <1>1, <1>2, <1>3

Forward == \A s \in Sid \ overtaken : last'[s] >= last[s]

(* A step of the streams that hands nothing over and queues no row of a    *)
(* sid that was not overtaken keeps the order.                             *)
LEMMA RowsAround ==
  ASSUME UpdatesInv, UNCHANGED <<connectionVars, version, bySid, last, OnOffer, Emission>>,
         overtaken \subseteq overtaken', Own(queue'),
         \A s \in Sid \ overtaken' :
           Ascends(s, queue[s]) => /\ Ascends(s, queue'[s])
                                   /\ Seen(s, queue'[s]) \subseteq Seen(s, queue[s])
  PROVE  RowsInv' /\ Forward
  <1>0. Types /\ RowsInv
    BY DEF UpdatesInv
  <1>1. UNCHANGED <<mail, stash, endpoint>> /\ Waiting' = Waiting
        /\ (Connected(Me)' <=> Connected(Me))
    BY DEF connectionVars, Connected, Waiting
  <1>2. ASSUME NEW s \in Sid \ overtaken'
        PROVE  /\ InLine(s, last[s], Emission, queue'[s], OnOffer, Waiting, version)
               /\ NoneAside(s)
    <2>1. InLine(s, last[s], Emission, queue[s], OnOffer, Waiting, version) /\ NoneAside(s)
      BY <1>0 DEF RowsInv, Ordered
    <2> DEFINE q == queue[s]
               r == queue'[s]
    <2>2. Ascends(s, r) /\ Seen(s, r) \subseteq Seen(s, q)
      BY <2>1 DEF InLine
    <2> HIDE DEF q, r
    <2>3. Line({last[s]}, Seen(s, Emission), Seen(s, q), Seen(s, OnOffer),
               ShownBy(s, Waiting), {version})
      BY <2>1 DEF InLine, q
    <2>4. Line({last[s]}, Seen(s, Emission), Seen(s, r), Seen(s, OnOffer),
               ShownBy(s, Waiting), {version})
      BY <2>2, <2>3, LineFewer
    <2> QED
      BY <2>1, <2>2, <2>4 DEF InLine, r
  <1>3. Forward
    BY <1>0, VersionsAreNumbers DEF Forward
  <1> QED
    BY <1>1, <1>2, <1>3, RowsInvPrime DEF NoneAside

(* The stage of a former stream is pulled: no other stream notices.        *)
LEMMA FormerPullKeepsOrder ==
  ASSUME UpdatesInv, NEW w \in Socket, StagePull(w), w # streamTo,
         UNCHANGED <<connectionVars, version, bySid, overtaken>>
  PROVE  RowsInv' /\ Forward
  <1>0. Types /\ StreamTypes /\ RowsInv
    BY DEF UpdatesInv, Types
  <1>1. UNCHANGED <<queue, offered, streamTo, last>>
        /\ (emitting' = [emitting EXCEPT ![w] = Tail(@)] \/ UNCHANGED emitting)
    BY DEF StagePull, HandOver
  <1>2. UNCHANGED <<OnOffer, Emission>>
    <2>1. streamTo # Nil => streamTo \in Socket
      BY <1>0, CurrentTypes
    <2>2. streamTo # Nil => emitting'[streamTo] = emitting[streamTo]
      BY <1>0, <1>1, <2>1, QueuesAre
    <2> QED
      BY <1>1, <2>2 DEF OnOffer, Emission
  <1> QED
    BY <1>0, <1>1, <1>2, RowsAround DEF RowsInv

(* That of a former stream is pushed: what it queues is overtaken, and     *)
(* what it takes out of the queues is lost.                                *)
LEMMA FormerPushKeepsOrder ==
  ASSUME UpdatesInv, NEW w \in Socket, NEW k, StagePush(w, k), w # streamTo,
         overtaken' = overtaken \cup SidsOf(SubSeq(offered[w], 1, k)),
         UNCHANGED <<connectionVars, version, bySid>>
  PROVE  RowsInv' /\ Forward
  <1> DEFINE x == offered[w]
             batch == SubSeq(x, 1, k)
  <1>0. Types /\ StreamTypes /\ RowsInv /\ Own(queue)
    BY DEF UpdatesInv, Types, RowsInv
  <1>1. /\ k \in 1..Len(x) /\ UNCHANGED <<streamTo, last>>
        /\ queue' = NoQueues \/ queue' = PutAll(queue, batch)
        /\ offered' = [offered EXCEPT ![w] = SubSeq(@, k + 1, Len(@))]
        /\ emitting' = [emitting EXCEPT ![w] = Tail(Flattened(PutAll(queue, batch)))]
           \/ UNCHANGED emitting
    BY DEF StagePush, HandOver
  <1>2. x \in Seq(Notification) /\ queue \in Queues
    BY <1>0, QueuesAre
  <1>3. batch \in Seq(Notification)
    <2> HIDE DEF x
    <2> QED
      BY <1>1, <1>2
  <1> HIDE DEF batch, x
  <1>4. UNCHANGED <<OnOffer, Emission>>
    <2>1. streamTo # Nil => streamTo \in Socket
      BY <1>0, CurrentTypes
    <2>2. streamTo # Nil => /\ offered'[streamTo] = offered[streamTo]
                            /\ emitting'[streamTo] = emitting[streamTo]
      BY <1>0, <1>1, <2>1, QueuesAre
    <2> QED
      BY <1>1, <2>2 DEF OnOffer, Emission
  <1>5. Own(queue')
    <2>1. Own(NoQueues)
      BY DEF Own, NoQueues
    <2>2. Own(PutAll(queue, batch))
      BY <1>0, <1>2, <1>3, PutAllOwn
    <2> QED
      BY <1>1, <2>1, <2>2
  <1>6. ASSUME NEW s \in Sid \ overtaken', Ascends(s, queue[s])
        PROVE  Ascends(s, queue'[s]) /\ Seen(s, queue'[s]) \subseteq Seen(s, queue[s])
    <2>1. Seen(s, batch) = {}
      BY NotSeen DEF batch, x
    <2>2. Ascends(s, batch) /\ Below(Seen(s, queue[s]), Seen(s, batch))
      BY <2>1, SameAscends DEF Below
    <2>3. /\ Ascends(s, PutAll(queue, batch)[s])
          /\ Seen(s, PutAll(queue, batch)[s]) \subseteq Seen(s, queue[s]) \cup Seen(s, batch)
      BY <1>2, <1>3, <1>6, <2>2, PutAllOrder
    <2>4. NoQueues[s] = <<>> /\ Seen(s, <<>>) = {} /\ Ascends(s, <<>>)
      BY SeenOne DEF NoQueues
    <2>5. CASE queue' = NoQueues
      BY <2>4, <2>5
    <2>6. CASE queue' = PutAll(queue, batch)
      BY <2>1, <2>3, <2>6
    <2> QED
      BY <1>1, <2>5, <2>6
  <1> QED
    BY <1>1, <1>4, <1>5, <1>6, RowsAround

(* The stage of the stream in use takes the next of what it is emitting.   *)
LEMMA PullKeepsOrder ==
  ASSUME UpdatesInv, streamTo # Nil, StagePull(streamTo),
         UNCHANGED <<connectionVars, version, bySid, overtaken>>
  PROVE  RowsInv' /\ Forward
  <1>0. Types /\ StreamTypes /\ RowsInv /\ streamTo \in Socket
    BY CurrentTypes DEF UpdatesInv, Types
  <1>1. UNCHANGED <<queue, OnOffer, streamTo, mail, stash, endpoint>>
        /\ (Connected(Me)' <=> Connected(Me)) /\ Waiting' = Waiting
    BY DEF StagePull, connectionVars, Connected, Waiting, OnOffer
  <1>2. CASE Emission # <<>>
    <2> DEFINE m == Head(Emission)
               e == Tail(Emission)
    <2>1. HandOver(streamTo, m) /\ Emission' = e
      <3>1. HandOver(streamTo, m) /\ emitting' = [emitting EXCEPT ![streamTo] = e]
        BY <1>2 DEF StagePull, Emission
      <3>2. emitting'[streamTo] = e
        BY <1>0, <3>1, QueuesAre
      <3> QED
        BY <1>1, <3>1, <3>2 DEF Emission
    <2>2. Emission \in Seq(Notification) /\ m \in Notification /\ e \in Seq(Notification)
      BY <1>0, <1>2, CurrentTypes
    <2> HIDE DEF m, e
    <2>3. ASSUME NEW s \in Sid \ overtaken
          PROVE  /\ InLine(s, last'[s], e, queue[s], OnOffer, Waiting, version)
                 /\ last'[s] >= last[s]
      <3> DEFINE h == Seen(s, <<m>>)
                 t == Seen(s, e)
                 a == Seen(s, Emission)
      <3>1. InLine(s, last[s], Emission, queue[s], OnOffer, Waiting, version)
        BY <1>0 DEF RowsInv, Ordered
      <3>2. a = h \cup t /\ Ascends(s, e) /\ Below(h, t)
        BY <1>2, <2>2, <3>1, SeenHead DEF InLine, m, e
      <3>3. /\ m.sid = s => h = {last'[s]}
            /\ m.sid # s => last'[s] = last[s]
        BY <1>0, <2>1, <2>2, HandOverLast
      <3>4. Line({last[s]}, a, Seen(s, queue[s]), Seen(s, OnOffer), ShownBy(s, Waiting), {version})
        BY <3>1 DEF InLine
      <3> HIDE DEF h, t, a
      <3>5. /\ Line(h, t, Seen(s, queue[s]), Seen(s, OnOffer), ShownBy(s, Waiting), {version})
            /\ Line({last[s]}, t, Seen(s, queue[s]), Seen(s, OnOffer), ShownBy(s, Waiting), {version})
        BY <3>2, <3>4, LineEmit
      <3>6. Line({last'[s]}, t, Seen(s, queue[s]), Seen(s, OnOffer), ShownBy(s, Waiting), {version})
        BY <3>3, <3>5
      <3>7. last'[s] >= last[s]
        <4>1. last[s] \in Int
          BY <1>0, VersionsAreNumbers
        <4>2. CASE m.sid = s
          <5>1. last'[s] \in a
            BY <3>2, <3>3, <4>2
          <5>2. last[s] <= last'[s]
            BY <3>4, <5>1 DEF Line, Below
          <5> QED
            BY <5>2
        <4>3. CASE m.sid # s
          BY <3>3, <4>1, <4>3
        <4> QED
          BY <4>2, <4>3
      <3> QED
        BY <3>1, <3>2, <3>6, <3>7 DEF InLine, t
    <2> QED
      BY <1>0, <1>1, <2>1, <2>3, RowsInvPrime DEF RowsInv, NoneAside, Forward
  <1>3. CASE Emission = <<>>
    <2>1. UNCHANGED <<last, Emission>>
      BY <1>1, <1>3 DEF StagePull, Emission
    <2> QED
      BY <1>0, <1>1, <2>1, RowsAround DEF RowsInv
  <1> QED
    BY <1>2, <1>3

(* The first k offers of the stream in use go to the queues, and those     *)
(* are emitted if the socket takes more.                                   *)
LEMMA PushKeepsOrder ==
  ASSUME UpdatesInv, streamTo # Nil, NEW k, StagePush(streamTo, k),
         UNCHANGED <<connectionVars, version, bySid, overtaken>>
  PROVE  RowsInv' /\ Forward
  <1> DEFINE batch == SubSeq(OnOffer, 1, k)
             rest == SubSeq(OnOffer, k + 1, Len(OnOffer))
             q == PutAll(queue, batch)
             flat == Flattened(q)
             m == Head(flat)
             e == Tail(flat)
             ready == outPulled[streamTo]
  <1>0. Types /\ StreamTypes /\ RowsInv /\ streamTo \in Socket
    BY CurrentTypes DEF UpdatesInv, Types
  <1>1. /\ k \in 1..Len(OnOffer) /\ OnOffer' = rest /\ UNCHANGED streamTo
        /\ IF ready
           THEN HandOver(streamTo, m) /\ Emission' = e /\ queue' = NoQueues
           ELSE queue' = q /\ UNCHANGED <<last, Emission>>
    <2>1. /\ k \in 1..Len(OnOffer) /\ offered' = [offered EXCEPT ![streamTo] = rest]
          /\ UNCHANGED streamTo
          /\ IF ready
             THEN /\ HandOver(streamTo, m) /\ queue' = NoQueues
                  /\ emitting' = [emitting EXCEPT ![streamTo] = e]
             ELSE queue' = q /\ UNCHANGED <<last, emitting>>
      BY DEF StagePush, OnOffer
    <2> HIDE DEF m, e, q, rest, ready
    <2>2. offered \in [Socket -> Seq(Notification)] /\ emitting \in [Socket -> Seq(Notification)]
      BY <1>0, QueuesAre
    <2>3. OnOffer' = rest
      BY <1>0, <2>1, <2>2 DEF OnOffer
    <2>4. CASE ready
      <3>1. Emission' = e
        BY <1>0, <2>1, <2>2, <2>4 DEF Emission
      <3> QED
        BY <2>1, <2>3, <2>4, <3>1
    <2>5. CASE ~ready
      <3>1. UNCHANGED Emission
        BY <2>1, <2>5 DEF Emission
      <3> QED
        BY <2>1, <2>3, <2>5, <3>1
    <2> QED
      BY <2>4, <2>5
  <1>2. UNCHANGED <<mail, stash, endpoint>> /\ Waiting' = Waiting
        /\ (Connected(Me)' <=> Connected(Me))
    BY DEF connectionVars, Connected, Waiting
  <1>3. OnOffer \in Seq(Notification) /\ queue \in Queues /\ (ready => Emission = <<>>)
    BY <1>0, QueuesAre, CurrentTypes
  <1> HIDE DEF ready
  <1>4. batch \in Seq(Notification) /\ rest \in Seq(Notification) /\ Len(batch) = k
    BY <1>1, <1>3
  <1>5. batch # <<>>
    <2> HIDE DEF batch
    <2> QED
      BY <1>1, <1>4
  <1>6. \A s : /\ Seen(s, OnOffer) = Seen(s, batch) \cup Seen(s, rest)
               /\ Ascends(s, OnOffer) => /\ Ascends(s, batch) /\ Ascends(s, rest)
                                         /\ Below(Seen(s, batch), Seen(s, rest))
    BY <1>1, <1>3, SeenSplit
  <1> HIDE DEF batch, rest
  <1>7. q \in Queues /\ Own(q) /\ \E s \in Sid : q[s] # <<>>
    BY <1>0, <1>3, <1>4, <1>5, PutAllTypes, PutAllLeaves, PutAllOwn DEF RowsInv
  <1>8. ASSUME NEW s \in Sid \ overtaken
        PROVE  /\ Ascends(s, Emission) /\ InTurn(s, Waiting)
               /\ Ascends(s, q[s]) /\ Ascends(s, rest)
               /\ Line({last[s]}, Seen(s, Emission), Seen(s, q[s]), Seen(s, rest),
                       ShownBy(s, Waiting), {version})
    <2> DEFINE a == Seen(s, batch)
               b == Seen(s, rest)
               o == Seen(s, queue[s])
               n == Seen(s, q[s])
    <2>1. InLine(s, last[s], Emission, queue[s], OnOffer, Waiting, version)
      BY <1>0 DEF RowsInv, Ordered
    <2>2. Seen(s, OnOffer) = a \cup b /\ Ascends(s, batch) /\ Ascends(s, rest) /\ Below(a, b)
      BY <1>6, <2>1 DEF InLine
    <2>3. Line({last[s]}, Seen(s, Emission), o, a \cup b, ShownBy(s, Waiting), {version})
      BY <2>1, <2>2 DEF InLine
    <2>4. Below(o, a)
      BY <2>3 DEF Line, Below
    <2>5. Ascends(s, q[s]) /\ n \subseteq o \cup a
      BY <1>3, <1>4, <2>1, <2>2, <2>4, PutAllOrder DEF InLine
    <2> HIDE DEF a, b, o, n
    <2>6. Line({last[s]}, Seen(s, Emission), o \cup a, b, ShownBy(s, Waiting), {version})
      BY <2>2, <2>3, LineBatch
    <2>7. Line({last[s]}, Seen(s, Emission), n, b, ShownBy(s, Waiting), {version})
      BY <2>5, <2>6, LineFewer
    <2> QED
      BY <2>1, <2>2, <2>5, <2>7 DEF InLine, b, n
  <1> HIDE DEF q
  <1>9. CASE ~ready
    <2>1. \A s \in Sid \ overtaken : InLine(s, last[s], Emission, q[s], rest, Waiting, version)
      BY <1>8 DEF InLine
    <2>2. Forward
      BY <1>0, <1>1, <1>9, VersionsAreNumbers DEF Forward
    <2> QED
      BY <1>0, <1>1, <1>2, <1>7, <1>9, <2>1, <2>2, RowsInvPrime DEF RowsInv, NoneAside
  <1>10. CASE ready
    <2>1. flat \in Seq(Notification) /\ flat # <<>>
      BY <1>7, FlattenedTypes
    <2>2. \A s \in Sid \ overtaken : Ascends(s, flat) /\ Seen(s, flat) = Seen(s, q[s])
      BY <1>7, <1>8, FlattenedOrder
    <2>3. HandOver(streamTo, m) /\ Emission' = e /\ queue' = NoQueues /\ Emission = <<>>
      BY <1>1, <1>3, <1>10
    <2> HIDE DEF flat
    <2>4. m \in Notification /\ e \in Seq(Notification)
      BY <2>1
    <2> HIDE DEF m, e
    <2>5. ASSUME NEW s \in Sid \ overtaken
          PROVE  /\ InLine(s, last'[s], e, <<>>, rest, Waiting, version)
                 /\ last'[s] >= last[s]
      <3> DEFINE h == Seen(s, <<m>>)
                 t == Seen(s, e)
                 a == Seen(s, flat)
      <3>1. Ascends(s, flat) /\ InTurn(s, Waiting) /\ Ascends(s, rest)
        BY <1>8, <2>2
      <3>2. a = h \cup t /\ Ascends(s, e) /\ Below(h, t)
        BY <2>1, <3>1, SeenHead DEF m, e
      <3>3. /\ m.sid = s => h = {last'[s]}
            /\ m.sid # s => last'[s] = last[s]
        BY <1>0, <2>3, <2>4, HandOverLast
      <3>4. Line({last[s]}, {}, a, Seen(s, rest), ShownBy(s, Waiting), {version})
        BY <1>8, <2>2, <2>3, SeenOne
      <3> HIDE DEF h, t, a
      <3>5. /\ Line(h, t, {}, Seen(s, rest), ShownBy(s, Waiting), {version})
            /\ Line({last[s]}, t, {}, Seen(s, rest), ShownBy(s, Waiting), {version})
        BY <3>2, <3>4, LineFlush
      <3>6. Line({last'[s]}, t, {}, Seen(s, rest), ShownBy(s, Waiting), {version})
        BY <3>3, <3>5
      <3>7. last'[s] >= last[s]
        <4>1. last[s] \in Int
          BY <1>0, VersionsAreNumbers
        <4>2. CASE m.sid = s
          <5>1. last'[s] \in a
            BY <3>2, <3>3, <4>2
          <5>2. last[s] <= last'[s]
            BY <3>4, <5>1 DEF Line, Below
          <5> QED
            BY <5>2
        <4>3. CASE m.sid # s
          BY <3>3, <4>1, <4>3
        <4> QED
          BY <4>2, <4>3
      <3>8. Seen(s, <<>>) = {} /\ Ascends(s, <<>>)
        BY SeenOne
      <3> QED
        BY <3>1, <3>2, <3>6, <3>7, <3>8 DEF InLine, t
    <2>6. Own(queue') /\ \A s \in Sid : queue'[s] = <<>>
      BY <2>3 DEF Own, NoQueues
    <2>7. Forward
      BY <2>5 DEF Forward
    <2> QED
      BY <1>0, <1>1, <1>2, <2>3, <2>5, <2>6, <2>7, RowsInvPrime DEF RowsInv, NoneAside
  <1> QED
    BY <1>9, <1>10

(* A stream ends, and what was on it is lost.                              *)
LEMMA EndKeepsOrder ==
  ASSUME UpdatesInv, NEW w \in Socket, StreamEnds(w),
         UNCHANGED <<connectionVars, version, bySid, overtaken>>
  PROVE  RowsInv' /\ Forward
  <1>0. Types /\ StreamTypes /\ RowsInv
    BY DEF UpdatesInv, Types
  <1>1. /\ streamTo' = IF streamTo = w THEN NoSocket ELSE streamTo
        /\ offered' = [offered EXCEPT ![w] = <<>>] /\ emitting' = [emitting EXCEPT ![w] = <<>>]
        /\ UNCHANGED <<queue, last>>
    BY DEF StreamEnds
  <1>2. CASE streamTo = w
    <2>1. OnOffer' = <<>> /\ Emission' = <<>>
      BY <1>1, <1>2, RequesterAssumption DEF OnOffer, Emission
    <2>2. UNCHANGED <<mail, stash, endpoint>> /\ Waiting' = Waiting
          /\ (Connected(Me)' <=> Connected(Me))
      BY DEF connectionVars, Connected, Waiting
    <2>3. ASSUME NEW s \in Sid \ overtaken
          PROVE  InLine(s, last[s], <<>>, queue[s], <<>>, Waiting, version)
      <3>1. InLine(s, last[s], Emission, queue[s], OnOffer, Waiting, version)
        BY <1>0 DEF RowsInv, Ordered
      <3>2. Line({last[s]}, {}, Seen(s, queue[s]), {}, ShownBy(s, Waiting), {version})
        BY <3>1, LineFewer DEF InLine
      <3> QED
        BY <3>1, <3>2, SeenOne DEF InLine
    <2>4. Forward
      BY <1>0, <1>1, VersionsAreNumbers DEF Forward
    <2> QED
      BY <1>0, <1>1, <2>1, <2>2, <2>3, <2>4, RowsInvPrime DEF RowsInv, NoneAside
  <1>3. CASE streamTo # w
    <2>1. streamTo # Nil => streamTo \in Socket
      BY <1>0, CurrentTypes
    <2>2. streamTo # Nil => /\ offered'[streamTo] = offered[streamTo]
                            /\ emitting'[streamTo] = emitting[streamTo]
      BY <1>0, <1>1, <1>3, <2>1, QueuesAre
    <2>3. UNCHANGED <<OnOffer, Emission>>
      BY <1>1, <1>3, <2>2 DEF OnOffer, Emission
    <2> QED
      BY <1>0, <1>1, <2>3, RowsAround DEF RowsInv
  <1> QED
    BY <1>2, <1>3

(*------------------------------- the theorem -----------------------------*)

(* At the start there are no rows.                                         *)
LEMMA NoRowsAtFirst == Init => UpdatesInv
  <1> SUFFICES ASSUME Init PROVE UpdatesInv
    OBVIOUS
  <1>1. Types
    BY InitTypes
  <1>2. /\ stash[Me] = <<>> /\ mail[Me] = <<>> /\ version = 0
        /\ OnOffer = <<>> /\ Emission = <<>>
        /\ \A s \in Sid : queue[s] = <<>> /\ last[s] = 0
    BY OnlyMe, RequesterAssumption
    DEF Init, ConnectionInit, ChannelInit, NodeInit, NoQueues, OnOffer, Emission
  <1>3. Waiting = <<>>
    BY <1>2 DEF Waiting
  <1>4. Line({0}, {}, {}, {}, {}, {0})
    BY DEF Line, Below
  <1>5. \A s \in Sid : Ordered(s) /\ NoneAside(s)
    BY <1>2, <1>3, <1>4, SeenOne, ShownOne DEF Ordered, InLine, NoneAside
  <1>6. Own(queue)
    BY <1>2 DEF Own
  <1> QED
    BY <1>1, <1>2, <1>5, <1>6 DEF UpdatesInv, RowsInv

(* A step of a stream moves rows on, in order.                             *)
LEMMA StreamKeepsOrder ==
  ASSUME UpdatesInv, NEW w \in Socket, StreamStep(w)
  PROVE  RowsInv' /\ Forward
  <1>1. UNCHANGED <<connectionVars, version, bySid>> /\ w # Nil
    BY ConnectionAssumption DEF StreamStep, nodeVars, behaviorVars
  <1>2. CASE StreamPushes(w)
    <2>1. PICK k : /\ StagePush(w, k)
                   /\ overtaken' = overtaken \cup
                        IF w = streamTo THEN {} ELSE SidsOf(SubSeq(offered[w], 1, k))
      BY <1>2 DEF StreamPushes
    <2>2. CASE w = streamTo
      <3>1. UNCHANGED overtaken
        BY <2>1, <2>2
      <3> QED
        BY <1>1, <2>1, <2>2, <3>1, PushKeepsOrder
    <2>3. CASE w # streamTo
      BY <1>1, <2>1, <2>3, FormerPushKeepsOrder
    <2> QED
      BY <2>2, <2>3
  <1>3. CASE StagePull(w) /\ UNCHANGED overtaken
    BY <1>1, <1>3, PullKeepsOrder, FormerPullKeepsOrder
  <1>4. CASE StreamEnds(w) /\ UNCHANGED overtaken
    BY <1>1, <1>4, EndKeepsOrder
  <1> QED
    BY <1>2, <1>3, <1>4 DEF StreamStep

(* Every step keeps the invariant.  It shows no client an older value.     *)
LEMMA UpdatesStep ==
  ASSUME UpdatesInv, [Next]_vars
  PROVE  UpdatesInv' /\ Forward
  <1>0. Types /\ LinkTypes /\ TableTypes /\ \A s \in Sid : last[s] \in Int
    BY VersionsAreNumbers DEF UpdatesInv, Types
  <1>1. UNCHANGED last => Forward
    BY <1>0 DEF Forward
  <1>2. ASSUME NEW reqs \in Seq(Request), ClientSends(reqs) PROVE RowsInv' /\ Forward
    <2>1. UNCHANGED last
      BY <1>2 DEF ClientSends, channelVars
    <2> QED
      BY <1>1, <1>2, <2>1, ClientKeepsOrder
  <1>3. ASSUME NEW a \in Asks(client),
               \/ ClientSends(<<a>>)
               \/ \E b \in Asks(HavingAsked(client, a)) : ClientSends(<<a, b>>)
        PROVE  RowsInv' /\ Forward
    <2>1. ASSUME NEW b \in Asks(HavingAsked(client, a)), ClientSends(<<a, b>>)
          PROVE  RowsInv' /\ Forward
      BY <1>0, <1>2, <2>1, OneIsAsked
    <2>2. CASE ClientSends(<<a>>)
      BY <1>0, <1>2, <2>2, OneIsAsked
    <2> QED
      BY <1>3, <2>1, <2>2
  <1>4. ASSUME NEW w \in Socket, OpenSocket(w) \/ CloseSocket(w) PROVE RowsInv' /\ Forward
    <2>1. UNCHANGED last
      BY <1>4 DEF OpenSocket, CloseSocket, channelVars
    <2> QED
      BY <1>1, <1>4, <2>1, SocketsKeepOrder
  <1>5. ASSUME NodeAnswers \/ NodeChanges PROVE RowsInv' /\ Forward
    <2>1. UNCHANGED last
      BY <1>5 DEF NodeAnswers, NodeChanges, channelVars
    <2> QED
      BY <1>1, <1>5, <2>1, AnswersKeepOrder, ChangesKeepOrder
  <1>6. ASSUME LinkStep PROVE RowsInv' /\ Forward
    <2>1. UNCHANGED last
      BY <1>6
      DEF LinkStep, LinkConnects, StartStream, LinkDisconnects, HandleRequests, KeepRequests,
          HandleResponses, Offer, KeepResponses, PutDirectly, channelVars
    <2> QED
      BY <1>1, <1>6, <2>1, ConnectKeepsOrder, DisconnectKeepsOrder, RequestsKeepOrder,
         ResponsesKeepOrder, KeepingKeepsOrder DEF LinkStep
  <1>7. CASE Next
    <2>1. ASSUME NEW w \in Socket, StreamStep(w) PROVE RowsInv' /\ Forward
      BY <2>1, StreamKeepsOrder
    <2>2. RowsInv' /\ Forward
      BY <1>3, <1>4, <1>5, <1>6, <1>7, <2>1 DEF Next
    <2> QED
      BY <1>0, <1>7, <2>2, TypesStep DEF UpdatesInv
  <1>8. CASE UNCHANGED vars
    <2>1. /\ UNCHANGED <<channelVars, version, overtaken, endpoint, stash, bySid, last>>
          /\ Waiting' = Waiting
      BY <1>8 DEF vars, channelVars, connectionVars, nodeVars, behaviorVars, Waiting
    <2>2. NothingNew
      BY <2>1 DEF NothingNew
    <2>3. RowsInv'
      BY <2>1, <2>2, AsideStays DEF UpdatesInv
    <2>4. Types'
      BY <1>0, <1>8, TypesUnchanged
    <2> QED
      BY <1>1, <2>1, <2>3, <2>4 DEF UpdatesInv
  <1> QED
    BY <1>7, <1>8

(* A client never goes back to an older value of a subscription, over any  *)
(* number of sessions, but in the three ways that `overtaken` records: a   *)
(* durable row was queued while its message was stashed as well; it was    *)
(* queued by the link while the stream had an older row of that            *)
(* subscription on offer; or a former stream, which nothing stops, queued  *)
(* a row of it (RequesterBehavior.handleSubscriptions,                     *)
(* getSubscriptionSource, SubscriptionChannel).                            *)
THEOREM NobodyGetsOlder == Spec => NeverOlder
  <1>1. UpdatesInv /\ [Next]_vars => UpdatesInv'
    BY UpdatesStep
  <1>2. UpdatesInv /\ [Next]_vars => [\A s \in Sid \ overtaken : last'[s] \geq last[s]]_vars
    BY UpdatesStep DEF Forward
  <1> QED
    BY <1>1, <1>2, NoRowsAtFirst, PTL DEF Spec, NeverOlder
=============================================================================
