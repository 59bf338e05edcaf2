------------------------ MODULE RequesterLink_proofs ------------------------
(***************************************************************************)
(* For any number of sockets, request ids and versions and any capacity:   *)
(* the responses to a client come once and in order over any number of     *)
(* sessions, the tables of the link and of the node agree, and what a      *)
(* client ends is ended.                                                   *)
(***************************************************************************)
EXTENDS RequesterLink, FiniteSetTheorems, SequenceTheorems, TLAPS

Joined(s, t) == s \o t

KeepF == INSTANCE Folding WITH Op <- KeepIfWanted
JoinF == INSTANCE Folding WITH Op <- Joined

(*------------------------------- sequences -------------------------------*)

(* Induction over the beginnings of a sequence, as a set of positions.     *)
LEMMA PrefixInduction ==
  ASSUME NEW n \in Nat, NEW T, 0 \in T, \A k \in 0..n - 1 : k \in T => k + 1 \in T
  PROVE  n \in T
  <1> DEFINE S == {k \in Nat : k <= n => k \in T}
  <1>1. 0 \in S
    OBVIOUS
  <1>2. \A k \in Nat : k \in S => k + 1 \in S
    OBVIOUS
  <1>3. Nat \subseteq S
    <2> HIDE DEF S
    <2> QED
      BY <1>1, <1>2, KeepF!NatSetInduction
  <1> QED
    BY <1>3

(* A beginning of a sequence, and one element more.                        *)
Prefix(s, k) == SubSeq(s, 1, k)

(* The beginnings of a sequence grow by one element at a time.             *)
LEMMA Beginnings ==
  ASSUME NEW S, NEW s \in Seq(S)
  PROVE  /\ Prefix(s, 0) = <<>>
         /\ Prefix(s, Len(s)) = s
         /\ \A k \in 0..Len(s) : Prefix(s, k) \in Seq(S)
         /\ \A k \in 0..Len(s) - 1 : /\ s[k + 1] \in S /\ k + 1 \in Nat
                                     /\ Prefix(s, k) \in Seq(S)
                                     /\ Prefix(s, k + 1) = Append(Prefix(s, k), s[k + 1])
  <1>1. SubSeq(s, 1, 0) = <<>>
    OBVIOUS
  <1>2. SubSeq(s, 1, Len(s)) = s
    OBVIOUS
  <1>3. \A k \in 0..Len(s) : SubSeq(s, 1, k) \in Seq(S) /\ Len(SubSeq(s, 1, k)) = k
    OBVIOUS
  <1>4. ASSUME NEW k \in 0..Len(s) - 1
        PROVE  /\ s[k + 1] \in S /\ k + 1 \in Nat /\ SubSeq(s, 1, k) \in Seq(S)
               /\ SubSeq(s, 1, k + 1) = Append(SubSeq(s, 1, k), s[k + 1])
    <2>1. k + 1 \in 1..Len(s) /\ k \in 0..Len(s) /\ k + 1 \in 0..Len(s)
      OBVIOUS
    <2>2. s[k + 1] \in S
      BY <2>1
    <2>3. SubSeq(s, 1, k + 1) \in Seq(S) /\ Len(SubSeq(s, 1, k + 1)) = k + 1
      BY <1>3, <2>1
    <2>4. Append(SubSeq(s, 1, k), s[k + 1]) \in Seq(S)
          /\ Len(Append(SubSeq(s, 1, k), s[k + 1])) = k + 1
      BY <1>3, <2>1, <2>2
    <2>5. \A i \in 1..k + 1 : SubSeq(s, 1, k + 1)[i] = Append(SubSeq(s, 1, k), s[k + 1])[i]
      BY <1>3, <2>1, <2>2
    <2>6. SubSeq(s, 1, k + 1) = Append(SubSeq(s, 1, k), s[k + 1])
      BY <2>3, <2>4, <2>5, SeqEqual
    <2> QED
      BY <1>3, <2>1, <2>2, <2>6
  <1> QED
    BY <1>1, <1>2, <1>3, <1>4 DEF Prefix

(* What Kept makes of a sequence.                                          *)
Wanting(s, S) == KeepF!Fold([wanted |-> S, kept |-> <<>>], s)

(* What SelectSeq keeps of a sequence is a fold of KeepIfWanted.           *)
LEMMA KeptFold == \A s, S : Kept(s, S) = Wanting(s, S).kept
  BY Zenon DEF Kept, Wanting, KeepF!Fold, FoldLeft, KeepF!FoldLeft, MapThenFoldSet,
               KeepF!MapThenFoldSet, Max, KeepF!Max

(* Nothing is kept of nothing.                                             *)
LEMMA KeptEmpty == \A S : Kept(<<>>, S) = <<>>
  <1> TAKE S
  <1>1. Wanting(<<>>, S) = [wanted |-> S, kept |-> <<>>]
    BY KeepF!FoldEmpty DEF Wanting
  <1> QED
    BY <1>1, KeptFold

(* What is kept so far are wanted elements of the sequence.                *)
LEMMA KeptKeeps ==
  ASSUME NEW S, NEW T, NEW s \in Seq(T)
  PROVE  Wanting(s, S) \in [wanted : {S}, kept : Seq(S \cap T)]
  <1> DEFINE V == [wanted : {S}, kept : Seq(S \cap T)]
             base == [wanted |-> S, kept |-> <<>>]
  <1>1. base \in V
    OBVIOUS
  <1>2. ASSUME NEW v \in V, NEW x \in T
        PROVE  KeepIfWanted(v, x) \in V
    <2>1. v.wanted = S /\ v.kept \in Seq(S \cap T)
      OBVIOUS
    <2>2. CASE x \in S
      <3>1. Append(v.kept, x) \in Seq(S \cap T)
        BY <2>1, <2>2
      <3>2. KeepIfWanted(v, x) = [v EXCEPT !.kept = Append(@, x)]
        BY <2>1, <2>2 DEF KeepIfWanted
      <3> QED
        BY <3>1, <3>2
    <2>3. CASE x \notin S
      BY <2>1, <2>3 DEF KeepIfWanted
    <2> QED
      BY <2>2, <2>3
  <1> HIDE DEF V, base
  <1>3. KeepF!Fold(base, s) \in V
    BY <1>1, <1>2, KeepF!FoldType
  <1> QED
    BY <1>3 DEF V, base, Wanting

(* The elements that are kept are wanted and are of the sequence.          *)
LEMMA KeptType ==
  ASSUME NEW S, NEW T, NEW s \in Seq(T)
  PROVE  Kept(s, S) \in Seq(S \cap T) /\ Kept(s, S) \in Seq(T)
  <1>1. Kept(s, S) \in Seq(S \cap T)
    BY KeptKeeps, KeptFold
  <1> QED
    BY <1>1

(* An element at the end is kept when it is wanted.                        *)
LEMMA KeptAppend ==
  ASSUME NEW S, NEW T, NEW s \in Seq(T), NEW x \in T
  PROVE  Kept(Append(s, x), S) = IF x \in S THEN Append(Kept(s, S), x) ELSE Kept(s, S)
  <1> DEFINE base == [wanted |-> S, kept |-> <<>>]
  <1>1. Wanting(s, S) \in [wanted : {S}, kept : Seq(S \cap T)]
    BY KeptKeeps
  <1>2. Wanting(Append(s, x), S) = KeepIfWanted(Wanting(s, S), x)
    <2> HIDE DEF base
    <2>1. KeepF!Fold(base, Append(s, x)) = KeepIfWanted(KeepF!Fold(base, s), x)
      BY KeepF!FoldAppend
    <2> QED
      BY <2>1 DEF Wanting, base
  <1>3. Kept(s, S) = Wanting(s, S).kept /\ Kept(Append(s, x), S) = Wanting(Append(s, x), S).kept
    BY KeptFold
  <1> QED
    BY <1>1, <1>2, <1>3 DEF KeepIfWanted

(* The same, as a sequence of at most one element at the end.              *)
One(x, S) == IF x \in S THEN <<x>> ELSE <<>>

(* The same, as a concatenation.                                           *)
LEMMA KeptMore ==
  ASSUME NEW S, NEW T, NEW s \in Seq(T), NEW x \in T
  PROVE  Kept(Append(s, x), S) = Kept(s, S) \o One(x, S) /\ One(x, S) \in Seq(T)
  <1>1. Kept(Append(s, x), S) = IF x \in S THEN Append(Kept(s, S), x) ELSE Kept(s, S)
    BY KeptAppend
  <1>2. Kept(s, S) \in Seq(T)
    BY KeptType
  <1> DEFINE a == Kept(s, S)
  <1> HIDE DEF a
  <1>3. a \in Seq(T)
    BY <1>2 DEF a
  <1>4. a \o <<x>> = Append(a, x) /\ a \o <<>> = a
    BY <1>3
  <1>5. One(x, S) \in Seq(T)
    BY DEF One
  <1>6. (IF x \in S THEN Append(a, x) ELSE a) = a \o One(x, S)
    <2>1. CASE x \in S
      <3>1. One(x, S) = <<x>>
        BY <2>1 DEF One
      <3> QED
        BY <1>4, <2>1, <3>1
    <2>2. CASE x \notin S
      <3>1. One(x, S) = <<>>
        BY <2>2 DEF One
      <3> QED
        BY <1>4, <2>2, <3>1
    <2> QED
      BY <2>1, <2>2
  <1> QED
    BY <1>1, <1>5, <1>6 DEF a

(* Concatenation is associative.                                           *)
LEMMA ConcatAssoc ==
  ASSUME NEW S, NEW s \in Seq(S), NEW t \in Seq(S), NEW u \in Seq(S)
  PROVE  (s \o t) \o u = s \o (t \o u)
  OBVIOUS

(* What is kept of two sequences, one after the other.                     *)
LEMMA KeptConcat ==
  ASSUME NEW S, NEW T, NEW s \in Seq(T), NEW t \in Seq(T)
  PROVE  Kept(s \o t, S) = Kept(s, S) \o Kept(t, S)
  <1> DEFINE G == {k \in Nat : Kept(s \o Prefix(t, k), S) = Kept(s, S) \o Kept(Prefix(t, k), S)}
  <1>1. 0 \in G
    <2>1. Prefix(t, 0) = <<>> /\ s \o <<>> = s
      BY Beginnings
    <2>2. Kept(s, S) \in Seq(S \cap T)
      BY KeptType
    <2>3. Kept(s, S) = Kept(s, S) \o <<>>
      BY <2>2
    <2>4. Kept(<<>>, S) = <<>>
      BY KeptEmpty
    <2>5. Kept(s \o Prefix(t, 0), S) = Kept(s, S) \o Kept(Prefix(t, 0), S)
      BY <2>1, <2>3, <2>4
    <2> QED
      BY <2>5
  <1>2. ASSUME NEW k \in 0..Len(t) - 1, k \in G PROVE k + 1 \in G
    <2> DEFINE u == Prefix(t, k)
               x == t[k + 1]
    <2>1. u \in Seq(T) /\ x \in T /\ k + 1 \in Nat /\ Prefix(t, k + 1) = Append(u, x)
      BY Beginnings
    <2>2. Kept(s \o u, S) = Kept(s, S) \o Kept(u, S)
      BY <1>2
    <2> HIDE DEF u, x
    <2>3. s \o Append(u, x) = Append(s \o u, x) /\ s \o u \in Seq(T)
      BY <2>1
    <2>4. Kept(s, S) \in Seq(S \cap T) /\ Kept(u, S) \in Seq(S \cap T)
      BY <2>1, KeptType
    <2>5. Kept(Append(s \o u, x), S) = Kept(s \o u, S) \o One(x, S)
      <3> DEFINE v == s \o u
      <3>1. v \in Seq(T)
        BY <2>3
      <3> HIDE DEF v
      <3>2. Kept(Append(v, x), S) = Kept(v, S) \o One(x, S)
        BY <2>1, <3>1, KeptMore
      <3> QED
        BY <3>2 DEF v
    <2>6. Kept(Append(u, x), S) = Kept(u, S) \o One(x, S) /\ One(x, S) \in Seq(T)
      BY <2>1, KeptMore
    <2>7. (Kept(s, S) \o Kept(u, S)) \o One(x, S) = Kept(s, S) \o (Kept(u, S) \o One(x, S))
      <3> DEFINE a == Kept(s, S)
                 b == Kept(u, S)
                 c == One(x, S)
      <3>1. a \in Seq(T) /\ b \in Seq(T) /\ c \in Seq(T)
        BY <2>1, <2>6, KeptType
      <3> HIDE DEF a, b, c
      <3>2. (a \o b) \o c = a \o (b \o c)
        BY ONLY <3>1, SMTT(30)
      <3> QED
        BY <3>2 DEF a, b, c
    <2>8. Kept(s \o Append(u, x), S) = Kept(s, S) \o Kept(Append(u, x), S)
      BY <2>2, <2>3, <2>5, <2>6, <2>7
    <2> QED
      BY <2>1, <2>8
  <1>3. Len(t) \in G
    <2> HIDE DEF G
    <2> QED
      BY <1>1, <1>2, PrefixInduction
  <1> QED
    BY <1>3, Beginnings

(* What is kept is what was there and is wanted.                           *)
Elems(s) == {s[i] : i \in 1..Len(s)}

(* The empty sequence has no elements.                                     *)
LEMMA ElemsEmpty == Elems(<<>>) = {}
  BY DEF Elems

(* An appended element is one element more.                                *)
LEMMA ElemsAppend ==
  ASSUME NEW S, NEW s \in Seq(S), NEW x \in S
  PROVE  Elems(Append(s, x)) = Elems(s) \cup {x}
  <1>1. Len(Append(s, x)) = Len(s) + 1 /\ Append(s, x)[Len(s) + 1] = x
    OBVIOUS
  <1>2. \A i \in 1..Len(s) : Append(s, x)[i] = s[i]
    OBVIOUS
  <1>3. 1..Len(s) + 1 = 1..Len(s) \cup {Len(s) + 1}
    OBVIOUS
  <1> QED
    BY <1>1, <1>2, <1>3 DEF Elems

(* The elements of a concatenation are those of both parts.                *)
LEMMA ElemsConcat ==
  ASSUME NEW S, NEW s \in Seq(S), NEW t \in Seq(S)
  PROVE  Elems(s \o t) = Elems(s) \cup Elems(t)
  <1>1. \A i \in 1..Len(s) : (s \o t)[i] = s[i] /\ i \in 1..Len(s \o t)
    OBVIOUS
  <1>2. \A i \in 1..Len(t) : (s \o t)[Len(s) + i] = t[i] /\ Len(s) + i \in 1..Len(s \o t)
    OBVIOUS
  <1>3. Elems(s) \subseteq Elems(s \o t) /\ Elems(t) \subseteq Elems(s \o t)
    BY <1>1, <1>2 DEF Elems
  <1>4. ASSUME NEW i \in 1..Len(s \o t) PROVE (s \o t)[i] \in Elems(s) \cup Elems(t)
    <2>1. CASE i <= Len(s)
      BY <2>1, <1>1 DEF Elems
    <2>2. CASE i > Len(s)
      <3>1. i - Len(s) \in 1..Len(t) /\ Len(s) + (i - Len(s)) = i
        BY <2>2
      <3> QED
        BY <3>1, <1>2 DEF Elems
    <2> QED
      BY <2>1, <2>2
  <1>5. Elems(s \o t) \subseteq Elems(s) \cup Elems(t)
    BY <1>4 DEF Elems
  <1> QED
    BY <1>3, <1>5

(* The elements kept are exactly the wanted ones.                          *)
LEMMA KeptElems ==
  ASSUME NEW S, NEW T, NEW s \in Seq(T)
  PROVE  Elems(Kept(s, S)) = Elems(s) \cap S
  <1> DEFINE G == {k \in Nat : Elems(Kept(Prefix(s, k), S)) = Elems(Prefix(s, k)) \cap S}
  <1>1. 0 \in G
    <2>1. Prefix(s, 0) = <<>>
      BY Beginnings
    <2>2. Elems(Kept(<<>>, S)) = {} /\ Elems(<<>>) \cap S = {}
      BY KeptEmpty, ElemsEmpty
    <2> QED
      BY <2>1, <2>2
  <1>2. ASSUME NEW k \in 0..Len(s) - 1, k \in G PROVE k + 1 \in G
    <2> DEFINE u == Prefix(s, k)
               x == s[k + 1]
    <2>1. u \in Seq(T) /\ x \in T /\ k + 1 \in Nat /\ Prefix(s, k + 1) = Append(u, x)
      BY Beginnings
    <2>2. Elems(Kept(u, S)) = Elems(u) \cap S
      BY <1>2
    <2> HIDE DEF u, x
    <2>3. Kept(u, S) \in Seq(S \cap T)
      BY <2>1, KeptType
    <2>4. Kept(Append(u, x), S) = IF x \in S THEN Append(Kept(u, S), x) ELSE Kept(u, S)
      BY <2>1, KeptAppend
    <2>5. x \in S => Elems(Append(Kept(u, S), x)) = Elems(Kept(u, S)) \cup {x}
      BY <2>1, <2>3, ElemsAppend
    <2>6. Elems(Append(u, x)) = Elems(u) \cup {x}
      BY <2>1, ElemsAppend
    <2>7. Elems(Kept(Append(u, x), S)) = Elems(Append(u, x)) \cap S
      BY <2>2, <2>4, <2>5, <2>6
    <2> QED
      BY <2>1, <2>7
  <1>3. Len(s) \in G
    <2> HIDE DEF G
    <2> QED
      BY <1>1, <1>2, PrefixInduction
  <1> QED
    BY <1>3, Beginnings

(*------------------------------ concatenation ----------------------------*)

(* FlattenSeq joins one sequence after the other.                          *)
LEMMA FlatFold ==
  ASSUME NEW S, NEW ss \in Seq(Seq(S))
  PROVE  FlattenSeq(ss) = JoinF!Fold(<<>>, ss)
  <1> DEFINE n == Len(ss)
             Rec(g) == [i \in 1..n |-> IF i = 1 THEN ss[i] ELSE g[i - 1] \o ss[i]]
             flat == CHOOSE g : g = Rec(g)
  <1>1. n \in Nat /\ \A i \in 1..n : ss[i] \in Seq(S)
    OBVIOUS
  <1>2. PICK h : JoinF!Steps(h, <<>>, ss) /\ JoinF!Fold(<<>>, ss) = h[n]
    BY JoinF!FoldSteps
  <1>3. h[0] = <<>> /\ \A k \in 1..n : h[k] = h[k - 1] \o ss[k]
    BY <1>2 DEF JoinF!Steps, JoinF!Recurs, Joined
  <1>4. CASE n = 0
    <2>1. ss = <<>>
      BY <1>4
    <2>2. FlattenSeq(ss) = ss
      BY <1>4 DEF FlattenSeq
    <2> QED
      BY <1>2, <1>3, <1>4, <2>1, <2>2
  <1>5. CASE n # 0
    <2> DEFINE f == [i \in 1..n |-> h[i]]
    <2>1. f = Rec(f)
      <3>1. \A i \in 1..n : h[i] = IF i = 1 THEN ss[i] ELSE f[i - 1] \o ss[i]
        <4> TAKE i \in 1..n
        <4>1. CASE i = 1
          <5>0. 1 \in 1..n /\ 1 - 1 = 0
            BY <4>1
          <5>1. h[1] = h[1 - 1] \o ss[1] /\ h[1 - 1] = <<>>
            BY <1>3, <5>0
          <5>2. ss[1] \in Seq(S)
            BY <1>1, <4>1
          <5>3. <<>> \o ss[1] = ss[1]
            BY <5>2
          <5> QED
            BY <4>1, <5>1, <5>3
        <4>2. CASE i # 1
          <5>1. i - 1 \in 1..n
            BY <1>1, <4>2
          <5>2. f[i - 1] = h[i - 1]
            BY <5>1
          <5> QED
            BY <1>3, <4>2, <5>2
        <4> QED
          BY <4>1, <4>2
      <3> QED
        BY <3>1
    <2>2. flat = Rec(flat)
      <3>1. \E g : g = Rec(g)
        <4> HIDE DEF f, Rec
        <4> QED
          BY <2>1
      <3> HIDE DEF Rec
      <3> QED
        BY <3>1
    <2>3. FlattenSeq(ss) = flat[n]
      BY <1>5 DEF FlattenSeq
    <2> DEFINE e == [i \in 0..n |-> IF i = 0 THEN <<>> ELSE flat[i]]
    <2> HIDE DEF flat
    <2>4. \A i \in 1..n : flat[i] = IF i = 1 THEN ss[i] ELSE flat[i - 1] \o ss[i]
      BY <2>2
    <2>5. e[0] = h[0] /\ JoinF!Recurs(e, ss, n)
      <3>1. \A k \in 1..n : e[k] = e[k - 1] \o ss[k]
        <4> TAKE k \in 1..n
        <4>1. CASE k = 1
          <5>1. ss[1] \in Seq(S) /\ 1 \in 1..n
            BY <1>1, <4>1
          <5>2. e[1 - 1] = <<>> /\ e[1] = ss[1]
            BY <1>1, <2>4, <5>1
          <5>3. <<>> \o ss[1] = ss[1]
            BY <5>1
          <5> QED
            BY <4>1, <5>2, <5>3
        <4>2. CASE k # 1
          <5>1. k - 1 \in 1..n /\ e[k - 1] = flat[k - 1] /\ e[k] = flat[k]
            BY <1>1, <4>2
          <5> QED
            BY <2>4, <4>2, <5>1
        <4> QED
          BY <4>1, <4>2
      <3>2. e[0] = <<>>
        BY <1>1
      <3> QED
        BY <1>3, <3>1, <3>2 DEF JoinF!Recurs, Joined
    <2>6. JoinF!Recurs(h, ss, n)
      BY <1>2 DEF JoinF!Steps
    <2>7. \A k \in 0..n : e[k] = h[k]
      <3> HIDE DEF e, n
      <3> QED
        BY <1>1, <2>5, <2>6, JoinF!StepsAgree
    <2>8. e[n] = flat[n] /\ n \in 0..n
      BY <1>1, <1>5
    <2> QED
      BY <1>2, <2>3, <2>7, <2>8
  <1> QED
    BY <1>4, <1>5

(* No sequences make the empty sequence.                                   *)
LEMMA FlatEmpty == FlattenSeq(<<>>) = <<>>
  BY DEF FlattenSeq

(* A sequence at the end comes last.                                       *)
LEMMA FlatAppend ==
  ASSUME NEW S, NEW ss \in Seq(Seq(S)), NEW t \in Seq(S)
  PROVE  FlattenSeq(Append(ss, t)) = FlattenSeq(ss) \o t
  <1>1. Append(ss, t) \in Seq(Seq(S))
    OBVIOUS
  <1>2. JoinF!Fold(<<>>, Append(ss, t)) = Joined(JoinF!Fold(<<>>, ss), t)
    BY JoinF!FoldAppend
  <1>3. FlattenSeq(Append(ss, t)) = JoinF!Fold(<<>>, Append(ss, t))
    BY <1>1, FlatFold
  <1>4. FlattenSeq(ss) = JoinF!Fold(<<>>, ss)
    BY FlatFold
  <1> QED
    BY <1>2, <1>3, <1>4 DEF Joined

(* What sequences over S make is a sequence over S.                        *)
LEMMA FlatType ==
  ASSUME NEW S, NEW ss \in Seq(Seq(S))
  PROVE  FlattenSeq(ss) \in Seq(S)
  <1>1. <<>> \in Seq(S)
    OBVIOUS
  <1>2. \A v, e \in Seq(S) : Joined(v, e) \in Seq(S)
    BY DEF Joined
  <1>3. JoinF!Fold(<<>>, ss) \in Seq(S)
    BY <1>1, <1>2, JoinF!FoldType
  <1> QED
    BY <1>3, FlatFold

(* Flattening goes through a concatenation.                                *)
LEMMA FlatConcat ==
  ASSUME NEW S, NEW ss \in Seq(Seq(S)), NEW tt \in Seq(Seq(S))
  PROVE  FlattenSeq(ss \o tt) = FlattenSeq(ss) \o FlattenSeq(tt)
  <1> DEFINE G == {k \in Nat : FlattenSeq(ss \o Prefix(tt, k))
                               = FlattenSeq(ss) \o FlattenSeq(Prefix(tt, k))}
  <1>0. FlattenSeq(ss) \in Seq(S)
    BY FlatType
  <1>1. 0 \in G
    <2>1. Prefix(tt, 0) = <<>> /\ ss \o <<>> = ss
      BY Beginnings
    <2>2. FlattenSeq(ss) \o <<>> = FlattenSeq(ss)
      BY <1>0
    <2> QED
      BY <2>1, <2>2, FlatEmpty
  <1>2. ASSUME NEW k \in 0..Len(tt) - 1, k \in G PROVE k + 1 \in G
    <2> DEFINE u == Prefix(tt, k)
               x == tt[k + 1]
    <2>1. u \in Seq(Seq(S)) /\ x \in Seq(S) /\ k + 1 \in Nat /\ Prefix(tt, k + 1) = Append(u, x)
      BY Beginnings, ZenonT(40)
    <2>2. FlattenSeq(ss \o u) = FlattenSeq(ss) \o FlattenSeq(u)
      BY <1>2
    <2> HIDE DEF u, x
    <2>3. ss \o Append(u, x) = Append(ss \o u, x) /\ ss \o u \in Seq(Seq(S))
      BY <2>1, SMTT(30)
    <2>4. FlattenSeq(u) \in Seq(S)
      BY <2>1, FlatType
    <2>5. /\ FlattenSeq(Append(ss \o u, x)) = FlattenSeq(ss \o u) \o x
          /\ FlattenSeq(Append(u, x)) = FlattenSeq(u) \o x
      BY <2>1, <2>3, FlatAppend
    <2>6. (FlattenSeq(ss) \o FlattenSeq(u)) \o x = FlattenSeq(ss) \o (FlattenSeq(u) \o x)
      <3> DEFINE a == FlattenSeq(ss)
                 b == FlattenSeq(u)
      <3>1. a \in Seq(S) /\ b \in Seq(S) /\ x \in Seq(S)
        BY <1>0, <2>1, <2>4
      <3> HIDE DEF a, b
      <3>2. (a \o b) \o x = a \o (b \o x)
        BY ONLY <3>1, SMTT(30)
      <3> QED
        BY <3>2 DEF a, b
    <2>7. FlattenSeq(ss \o Append(u, x)) = FlattenSeq(ss) \o FlattenSeq(Append(u, x))
      BY <2>2, <2>3, <2>5, <2>6
    <2> QED
      BY <2>1, <2>7
  <1>3. Len(tt) \in G
    <2> HIDE DEF G
    <2> QED
      BY <1>1, <1>2, PrefixInduction
  <1> QED
    BY <1>3, Beginnings

(*----------------------------- what a link holds -------------------------*)

(* The responses but rows, and the requests, that messages hold.           *)
RequestsIn(m) == IF m.kind = "Requests" THEN m.reqs ELSE <<>>

OthersEach(ms)   == [i \in 1..Len(ms) |-> OthersIn(ms[i])]
RequestsEach(ms) == [i \in 1..Len(ms) |-> RequestsIn(ms[i])]

Due(ms)     == FlattenSeq(OthersEach(ms))
Pending(ms) == FlattenSeq(RequestsEach(ms))

(* What a message of the link carries: responses due, and requests.        *)
LEMMA InTypes ==
  ASSUME NEW m \in LinkMessage
  PROVE  OthersIn(m) \in Seq(OtherResponse) /\ RequestsIn(m) \in Seq(Request)
  <1>1. ASSUME m.kind = "Responses" PROVE Others(m.rs) \in Seq(OtherResponse)
    <2>1. m.rs \in Seq(Response)
      BY <1>1 DEF LinkMessage, ControlMessage
    <2>2. OtherResponse \cap Response = OtherResponse
      BY DEF Response
    <2>3. Kept(m.rs, OtherResponse) \in Seq(OtherResponse \cap Response)
      BY <2>1, KeptType
    <2> QED
      BY <2>2, <2>3 DEF Others
  <1>2. ASSUME m.kind = "Requests" PROVE m.reqs \in Seq(Request)
    BY <1>2 DEF LinkMessage, ControlMessage
  <1> QED
    BY <1>1, <1>2 DEF OthersIn, RequestsIn

(* The same for every message of a sequence.                               *)
LEMMA EachTypes ==
  ASSUME NEW ms \in Seq(LinkMessage)
  PROVE  OthersEach(ms) \in Seq(Seq(OtherResponse)) /\ RequestsEach(ms) \in Seq(Seq(Request))
  <1>1. \A i \in 1..Len(ms) : OthersIn(ms[i]) \in Seq(OtherResponse)
                              /\ RequestsIn(ms[i]) \in Seq(Request)
    BY InTypes
  <1> QED
    BY <1>1 DEF OthersEach, RequestsEach

(* The same for all of them together.                                      *)
LEMMA HeldTypes ==
  ASSUME NEW ms \in Seq(LinkMessage)
  PROVE  Due(ms) \in Seq(OtherResponse) /\ Pending(ms) \in Seq(Request)
  BY EachTypes, FlatType DEF Due, Pending

(* What a concatenation is, element by element.                            *)
LEMMA ConcatPoints ==
  ASSUME NEW S, NEW a \in Seq(S), NEW b \in Seq(S)
  PROVE  /\ a \o b \in Seq(S) /\ Len(a \o b) = Len(a) + Len(b)
         /\ \A i \in 1..Len(a) : (a \o b)[i] = a[i]
         /\ \A i \in 1..Len(b) : (a \o b)[Len(a) + i] = b[i]
  OBVIOUS

(* Two sequences one after the other are their concatenation.              *)
LEMMA IsConcat ==
  ASSUME NEW S, NEW a \in Seq(S), NEW b \in Seq(S), NEW c \in Seq(S),
         Len(c) = Len(a) + Len(b),
         \A i \in 1..Len(a) : c[i] = a[i],
         \A i \in 1..Len(b) : c[Len(a) + i] = b[i]
  PROVE  c = a \o b
  <1> DEFINE d == a \o b
  <1>0. Len(a) \in Nat /\ Len(b) \in Nat
    OBVIOUS
  <1>1. /\ d \in Seq(S) /\ Len(d) = Len(a) + Len(b)
        /\ \A i \in 1..Len(a) : d[i] = a[i]
        /\ \A i \in 1..Len(b) : d[Len(a) + i] = b[i]
    BY ConcatPoints
  <1> HIDE DEF d
  <1>2. ASSUME NEW i \in 1..Len(c) PROVE c[i] = d[i]
    <2>1. CASE i <= Len(a)
      BY <1>0, <1>1, <2>1
    <2>2. CASE i > Len(a)
      <3>1. i - Len(a) \in 1..Len(b) /\ Len(a) + (i - Len(a)) = i
        BY <1>0, <2>2
      <3> QED
        BY <1>1, <3>1
    <2> QED
      BY <1>0, <2>1, <2>2
  <1>3. c = d
    BY <1>0, <1>1, <1>2, SeqEqual
  <1> QED
    BY <1>3 DEF d

(* What the messages carry goes through a concatenation of messages.       *)
LEMMA EachConcat ==
  ASSUME NEW ms \in Seq(LinkMessage), NEW ns \in Seq(LinkMessage)
  PROVE  /\ OthersEach(ms \o ns) = OthersEach(ms) \o OthersEach(ns)
         /\ RequestsEach(ms \o ns) = RequestsEach(ms) \o RequestsEach(ns)
  <1> DEFINE u == ms \o ns
  <1>1. /\ u \in Seq(LinkMessage) /\ Len(u) = Len(ms) + Len(ns)
        /\ \A i \in 1..Len(ms) : u[i] = ms[i] /\ i \in 1..Len(u)
        /\ \A i \in 1..Len(ns) : u[Len(ms) + i] = ns[i] /\ Len(ms) + i \in 1..Len(u)
    OBVIOUS
  <1> HIDE DEF u
  <1>2. \A s \in {ms, ns, u} :
          /\ OthersEach(s) \in Seq(Seq(OtherResponse)) /\ Len(OthersEach(s)) = Len(s)
          /\ RequestsEach(s) \in Seq(Seq(Request)) /\ Len(RequestsEach(s)) = Len(s)
          /\ \A i \in 1..Len(s) : /\ OthersEach(s)[i] = OthersIn(s[i])
                                  /\ RequestsEach(s)[i] = RequestsIn(s[i])
    <2> TAKE s \in {ms, ns, u}
    <2>1. s \in Seq(LinkMessage)
      BY <1>1
    <2>2. OthersEach(s) \in Seq(Seq(OtherResponse)) /\ RequestsEach(s) \in Seq(Seq(Request))
      BY <2>1, EachTypes
    <2>3. Len(OthersEach(s)) = Len(s) /\ \A i \in 1..Len(s) : OthersEach(s)[i] = OthersIn(s[i])
      BY <2>1 DEF OthersEach
    <2>4. /\ Len(RequestsEach(s)) = Len(s)
          /\ \A i \in 1..Len(s) : RequestsEach(s)[i] = RequestsIn(s[i])
      BY <2>1 DEF RequestsEach
    <2> QED
      BY <2>2, <2>3, <2>4
  <1>3. OthersEach(u) = OthersEach(ms) \o OthersEach(ns)
    <2> DEFINE a == OthersEach(ms)
               b == OthersEach(ns)
               c == OthersEach(u)
               S == Seq(OtherResponse)
    <2>1. a \in Seq(S) /\ b \in Seq(S) /\ c \in Seq(S) /\ Len(c) = Len(a) + Len(b)
      BY <1>1, <1>2
    <2>2. \A i \in 1..Len(a) : c[i] = a[i]
      BY <1>1, <1>2
    <2>3. \A i \in 1..Len(b) : c[Len(a) + i] = b[i]
      BY <1>1, <1>2
    <2> HIDE DEF a, b, c, S
    <2>4. c = a \o b
      BY <2>1, <2>2, <2>3, IsConcat
    <2> QED
      BY <2>4 DEF a, b, c
  <1>4. RequestsEach(u) = RequestsEach(ms) \o RequestsEach(ns)
    <2> DEFINE a == RequestsEach(ms)
               b == RequestsEach(ns)
               c == RequestsEach(u)
               S == Seq(Request)
    <2>1. a \in Seq(S) /\ b \in Seq(S) /\ c \in Seq(S) /\ Len(c) = Len(a) + Len(b)
      BY <1>1, <1>2
    <2>2. \A i \in 1..Len(a) : c[i] = a[i]
      BY <1>1, <1>2
    <2>3. \A i \in 1..Len(b) : c[Len(a) + i] = b[i]
      BY <1>1, <1>2
    <2> HIDE DEF a, b, c, S
    <2>4. c = a \o b
      BY <2>1, <2>2, <2>3, IsConcat
    <2> QED
      BY <2>4 DEF a, b, c
  <1> QED
    BY <1>3, <1>4 DEF u

(* Of messages one after the other, and of one message.                    *)
LEMMA HeldConcat ==
  ASSUME NEW ms \in Seq(LinkMessage), NEW ns \in Seq(LinkMessage)
  PROVE  /\ Due(ms \o ns) = Due(ms) \o Due(ns)
         /\ Pending(ms \o ns) = Pending(ms) \o Pending(ns)
  <1>1. FlattenSeq(OthersEach(ms) \o OthersEach(ns))
        = FlattenSeq(OthersEach(ms)) \o FlattenSeq(OthersEach(ns))
    BY EachTypes, FlatConcat
  <1>2. FlattenSeq(RequestsEach(ms) \o RequestsEach(ns))
        = FlattenSeq(RequestsEach(ms)) \o FlattenSeq(RequestsEach(ns))
    BY EachTypes, FlatConcat
  <1> QED
    BY <1>1, <1>2, EachConcat DEF Due, Pending

(* One sequence makes itself.                                              *)
LEMMA FlatOne ==
  ASSUME NEW S, NEW t \in Seq(S)
  PROVE  FlattenSeq(<<t>>) = t
  <1>1. <<>> \in Seq(Seq(S)) /\ Append(<<>>, t) = <<t>> /\ <<>> \o t = t
    OBVIOUS
  <1>2. FlattenSeq(Append(<<>>, t)) = FlattenSeq(<<>>) \o t
    BY <1>1, FlatAppend
  <1> QED
    BY <1>1, <1>2, FlatEmpty

(* One message holds what it carries.                                      *)
LEMMA HeldOne ==
  ASSUME NEW m \in LinkMessage
  PROVE  Due(<<m>>) = OthersIn(m) /\ Pending(<<m>>) = RequestsIn(m)
  <1>1. OthersEach(<<m>>) = <<OthersIn(m)>> /\ RequestsEach(<<m>>) = <<RequestsIn(m)>>
    BY DEF OthersEach, RequestsEach
  <1>2. FlattenSeq(<<OthersIn(m)>>) = OthersIn(m)
    BY InTypes, FlatOne
  <1>3. FlattenSeq(<<RequestsIn(m)>>) = RequestsIn(m)
    BY InTypes, FlatOne
  <1> QED
    BY <1>1, <1>2, <1>3 DEF Due, Pending

(* No message holds anything.                                              *)
LEMMA HeldNone == Due(<<>>) = <<>> /\ Pending(<<>>) = <<>>
  <1>1. OthersEach(<<>>) = <<>> /\ RequestsEach(<<>>) = <<>>
    BY DEF OthersEach, RequestsEach
  <1> QED
    BY <1>1, FlatEmpty DEF Due, Pending

(* What is held is what the stash, the next message and the rest hold.     *)
LEMMA HeldSplit ==
  ASSUME NEW st \in Seq(LinkMessage), NEW ml \in Seq(LinkMessage), ml # <<>>
  PROVE  /\ Head(ml) \in LinkMessage /\ Tail(ml) \in Seq(LinkMessage)
         /\ Due(st \o ml) = Due(st) \o (OthersIn(Head(ml)) \o Due(Tail(ml)))
         /\ Pending(st \o ml) = Pending(st) \o (RequestsIn(Head(ml)) \o Pending(Tail(ml)))
  <1> DEFINE h == Head(ml)
             tl == Tail(ml)
             one == <<h>>
  <1>1. h \in LinkMessage /\ tl \in Seq(LinkMessage)
    OBVIOUS
  <1>2. ml = one \o tl
    OBVIOUS
  <1>3. one \in Seq(LinkMessage)
    BY <1>1
  <1>4. Due(one) = OthersIn(h) /\ Pending(one) = RequestsIn(h)
    BY <1>1, HeldOne
  <1> HIDE DEF h, tl, one
  <1>5. Due(ml) = Due(one) \o Due(tl) /\ Pending(ml) = Pending(one) \o Pending(tl)
    BY <1>1, <1>2, <1>3, HeldConcat
  <1>6. Due(st \o ml) = Due(st) \o Due(ml) /\ Pending(st \o ml) = Pending(st) \o Pending(ml)
    BY HeldConcat
  <1> QED
    BY <1>1, <1>4, <1>5, <1>6 DEF h, tl

Silent(m) == OthersIn(m) = <<>> /\ RequestsIn(m) = <<>>

(* A message that holds nothing of the kind may go.                        *)
LEMMA SilentTaken ==
  ASSUME NEW st \in Seq(LinkMessage), NEW ml \in Seq(LinkMessage), ml # <<>>, Silent(Head(ml))
  PROVE  Due(st \o Tail(ml)) = Due(st \o ml) /\ Pending(st \o Tail(ml)) = Pending(st \o ml)
  <1>1. /\ Tail(ml) \in Seq(LinkMessage)
        /\ Due(st \o ml) = Due(st) \o (<<>> \o Due(Tail(ml)))
        /\ Pending(st \o ml) = Pending(st) \o (<<>> \o Pending(Tail(ml)))
    BY HeldSplit, ZenonT(40) DEF Silent
  <1>2. Due(Tail(ml)) \in Seq(OtherResponse) /\ Pending(Tail(ml)) \in Seq(Request)
    BY <1>1, HeldTypes
  <1>3. <<>> \o Due(Tail(ml)) = Due(Tail(ml)) /\ <<>> \o Pending(Tail(ml)) = Pending(Tail(ml))
    <2> DEFINE a == Due(Tail(ml))
               b == Pending(Tail(ml))
    <2>1. a \in Seq(OtherResponse) /\ b \in Seq(Request)
      BY <1>2
    <2> HIDE DEF a, b
    <2>2. <<>> \o a = a /\ <<>> \o b = b
      BY <2>1
    <2> QED
      BY <2>2 DEF a, b
  <1>4. /\ Due(st \o Tail(ml)) = Due(st) \o Due(Tail(ml))
        /\ Pending(st \o Tail(ml)) = Pending(st) \o Pending(Tail(ml))
    BY <1>1, HeldConcat
  <1> QED
    BY <1>1, <1>3, <1>4

(* A message at the end of the mailbox comes after all that is held.       *)
LEMMA HeldAppend ==
  ASSUME NEW ms \in Seq(LinkMessage), NEW m \in LinkMessage
  PROVE  /\ Due(Append(ms, m)) = Due(ms) \o OthersIn(m)
         /\ Pending(Append(ms, m)) = Pending(ms) \o RequestsIn(m)
  <1> DEFINE one == <<m>>
  <1>1. one \in Seq(LinkMessage) /\ Append(ms, m) = ms \o one
    OBVIOUS
  <1>2. Due(one) = OthersIn(m) /\ Pending(one) = RequestsIn(m)
    BY HeldOne
  <1> HIDE DEF one
  <1>3. Due(ms \o one) = Due(ms) \o Due(one) /\ Pending(ms \o one) = Pending(ms) \o Pending(one)
    BY <1>1, HeldConcat
  <1> QED
    BY <1>1, <1>2, <1>3

(* A message that carries nothing of interest changes nothing that is      *)
(* held.                                                                   *)
LEMMA SilentAppended ==
  ASSUME NEW ms \in Seq(LinkMessage), NEW m \in LinkMessage, Silent(m)
  PROVE  Due(Append(ms, m)) = Due(ms) /\ Pending(Append(ms, m)) = Pending(ms)
  <1> DEFINE a == Due(ms)
             b == Pending(ms)
  <1>1. Due(Append(ms, m)) = a \o <<>> /\ Pending(Append(ms, m)) = b \o <<>>
    BY HeldAppend DEF Silent
  <1>2. a \in Seq(OtherResponse) /\ b \in Seq(Request)
    BY HeldTypes
  <1> HIDE DEF a, b
  <1>3. a \o <<>> = a /\ b \o <<>> = b
    BY <1>2
  <1> QED
    BY <1>1, <1>3 DEF a, b

(* Control messages hold nothing of the kind, and neither do rows.         *)
LEMMA ControlSilent ==
  ASSUME NEW m \in ControlMessage
  PROVE  m \in LinkMessage /\ Silent(m) /\ m.kind \notin {"Requests", "Responses"}
  <1>1. m.kind \in {"Connect", "Terminated", "Disconnect", "Stop"}
    BY DEF ControlMessage
  <1> QED
    BY <1>1 DEF LinkMessage, Silent, OthersIn, RequestsIn

(* Rows of values are not among the other responses.                       *)
LEMMA RowsOnly ==
  ASSUME NEW rs \in Seq(RowResponse)
  PROVE  Others(rs) = <<>>
  <1>1. RowResponse \cap OtherResponse = {}
    <2> SUFFICES ASSUME NEW r \in RowResponse, r \in OtherResponse PROVE FALSE
      OBVIOUS
    <2>1. r.no = 0 /\ r.no \in Nat \ {0}
      BY DEF RowResponse, OtherResponse
    <2> QED
      BY <2>1
  <1>2. Kept(rs, OtherResponse) \in Seq(OtherResponse \cap RowResponse)
    BY KeptType
  <1>3. OtherResponse \cap RowResponse = {}
    BY <1>1
  <1>4. Kept(rs, OtherResponse) \in Seq({})
    BY <1>2, <1>3
  <1>5. \A s \in Seq({}) : s = <<>>
    <2> TAKE s \in Seq({})
    <2>1. Len(s) = 0
      <3> SUFFICES ASSUME Len(s) # 0 PROVE FALSE
        OBVIOUS
      <3>1. s[1] \in {}
        BY ElementOfSeq
      <3> QED
        BY <3>1
    <2> QED
      BY <2>1
  <1> QED
    BY <1>4, <1>5 DEF Others

(* So a message of rows carries nothing that is counted.                   *)
LEMMA RowsSilent ==
  ASSUME NEW rs \in Seq(RowResponse)
  PROVE  Responses(rs) \in LinkMessage /\ Silent(Responses(rs))
  <1>1. rs \in Seq(Response)
    BY DEF Response
  <1> QED
    BY <1>1, RowsOnly DEF Responses, LinkMessage, Silent, OthersIn, RequestsIn

(* Many messages that hold nothing of the kind.                            *)
LEMMA FlatNothing ==
  ASSUME NEW ss \in Seq({<<>>})
  PROVE  FlattenSeq(ss) = <<>>
  <1>1. ss \in Seq(Seq({}))
    <2> DEFINE E == Seq({})
    <2>1. \A i \in 1..Len(ss) : ss[i] = <<>> /\ <<>> \in E
      OBVIOUS
    <2> HIDE DEF E
    <2>2. ss \in Seq(E)
      BY <2>1
    <2> QED
      BY <2>2 DEF E
  <1>2. <<>> \in {<<>>} /\ \A v, e \in {<<>>} : Joined(v, e) \in {<<>>}
    BY DEF Joined
  <1>3. JoinF!Fold(<<>>, ss) \in {<<>>}
    BY <1>2, JoinF!FoldType
  <1> QED
    BY <1>1, <1>3, FlatFold

(* Any number of silent messages changes nothing that is held.             *)
LEMMA SilentMessages ==
  ASSUME NEW ms \in Seq(LinkMessage), NEW ns \in Seq(LinkMessage),
         \A i \in 1..Len(ns) : Silent(ns[i])
  PROVE  Due(ms \o ns) = Due(ms) /\ Pending(ms \o ns) = Pending(ms)
  <1>1. OthersEach(ns) \in Seq({<<>>}) /\ RequestsEach(ns) \in Seq({<<>>})
    BY DEF OthersEach, RequestsEach, Silent
  <1>2. Due(ns) = <<>> /\ Pending(ns) = <<>>
    BY <1>1, FlatNothing DEF Due, Pending
  <1> DEFINE a == Due(ms)
             b == Pending(ms)
  <1>3. Due(ms \o ns) = a \o <<>> /\ Pending(ms \o ns) = b \o <<>>
    BY <1>2, HeldConcat
  <1>4. a \in Seq(OtherResponse) /\ b \in Seq(Request)
    BY HeldTypes
  <1> HIDE DEF a, b
  <1>5. a \o <<>> = a /\ b \o <<>> = b
    BY <1>4
  <1> QED
    BY <1>3, <1>5 DEF a, b

(*--------------------------------- the node ------------------------------*)

HandleF == INSTANCE Folding WITH Op <- Handled

(* A node that has gone through some requests.                             *)
NodeState ==
  [rids : SUBSET Rid, sids : SUBSET Sid, version : 0..MaxVersion, stamp : Nat,
   out : Seq(Response)]

Ends(req) == req.kind \in {"Close", "Subscribe", "Unsubscribe"} \/ (req.kind = "Invoke" /\ Answered)

RidsAfter(req, was) ==
  IF req.kind = "List" THEN was \cup {req.rid}
  ELSE IF req.kind = "Close" THEN was \ {req.rid} ELSE was

SidsAfter(req, was) ==
  IF req.kind = "Subscribe" THEN was \cup {req.sid}
  ELSE IF req.kind = "Unsubscribe" THEN was \ {req.sid} ELSE was

(* The fields of a request.                                                *)
LEMMA RequestTypes ==
  ASSUME NEW req \in Request
  PROVE  /\ req.kind \in {"List", "Close", "Invoke", "Subscribe", "Unsubscribe"}
         /\ req.rid \in Rid
         /\ req.kind \in {"Subscribe", "Unsubscribe"} => req.sid \in Sid
  BY DEF Request

(* What the node does with one request.                                    *)
LEMMA AnswerTypes ==
  ASSUME NEW r \in Rid, NEW c \in BOOLEAN, NEW n \in Nat
  PROVE  Answer(r, c, n + 1) \in OtherResponse
  BY DEF Answer, OtherResponse

(* The row of a value is a row.                                            *)
LEMMA RowTypes ==
  ASSUME NEW s \in Sid, NEW v \in 1..MaxVersion
  PROVE  Row(s, v) \in RowResponse
  BY DEF Row, RowResponse

(* A response at the end: only one that is no row is counted.              *)
LEMMA OthersAppend ==
  ASSUME NEW out \in Seq(Response)
  PROVE  /\ \A r \in OtherResponse : /\ Append(out, r) \in Seq(Response)
                                     /\ Others(Append(out, r)) = Append(Others(out), r)
         /\ \A r \in RowResponse : /\ Append(out, r) \in Seq(Response)
                                   /\ Others(Append(out, r)) = Others(out)
  <1>1. ASSUME NEW r \in OtherResponse
        PROVE  Append(out, r) \in Seq(Response) /\ Others(Append(out, r)) = Append(Others(out), r)
    <2>1. r \in Response
      BY DEF Response
    <2>2. Kept(Append(out, r), OtherResponse) = Append(Kept(out, OtherResponse), r)
      BY <2>1, KeptAppend
    <2> QED
      BY <2>1, <2>2 DEF Others
  <1>2. ASSUME NEW r \in RowResponse
        PROVE  Append(out, r) \in Seq(Response) /\ Others(Append(out, r)) = Others(out)
    <2>1. r \in Response /\ r \notin OtherResponse
      BY DEF Response, RowResponse, OtherResponse
    <2>2. Kept(Append(out, r), OtherResponse) = Kept(out, OtherResponse)
      BY <2>1, KeptAppend
    <2> QED
      BY <2>1, <2>2 DEF Others
  <1> QED
    BY <1>1, <1>2

(* The fields of a state of the node.                                      *)
LEMMA StateFields ==
  ASSUME NEW v \in NodeState, NEW R \in SUBSET Rid, NEW S \in SUBSET Sid,
         NEW o \in Seq(Response), NEW w,
         w = [rids |-> R, sids |-> S, version |-> v.version, stamp |-> v.stamp + 1, out |-> o]
  PROVE  /\ w \in NodeState /\ w.version = v.version /\ w.stamp = v.stamp + 1
         /\ w.rids = R /\ w.sids = S /\ w.out = o
  <1>1. v.version \in 0..MaxVersion /\ v.stamp + 1 \in Nat
    BY DEF NodeState
  <1> QED
    BY <1>1 DEF NodeState

(* What handling one request does to the node, field by field.             *)
LEMMA HandledFields ==
  ASSUME NEW v \in NodeState, NEW req \in Request
  PROVE  /\ Handled(v, req) \in NodeState
         /\ Handled(v, req).version = v.version
         /\ Handled(v, req).stamp = v.stamp + 1
         /\ Handled(v, req).rids = RidsAfter(req, v.rids)
         /\ Handled(v, req).sids = SidsAfter(req, v.sids)
         /\ Others(Handled(v, req).out)
            = Append(Others(v.out), Answer(req.rid, Ends(req), v.stamp + 1))
  <1> DEFINE a == Answer(req.rid, Ends(req), v.stamp + 1)
             more == Append(v.out, a)
             w(o) == [rids |-> RidsAfter(req, v.rids), sids |-> SidsAfter(req, v.sids),
                      version |-> v.version, stamp |-> v.stamp + 1, out |-> o]
  <1>1. /\ v.rids \in SUBSET Rid /\ v.sids \in SUBSET Sid /\ v.version \in 0..MaxVersion
        /\ v.stamp \in Nat /\ v.out \in Seq(Response)
        /\ v = [rids |-> v.rids, sids |-> v.sids, version |-> v.version, stamp |-> v.stamp,
                out |-> v.out]
    BY DEF NodeState
  <1>2. /\ req.rid \in Rid /\ (req.kind \in {"Subscribe", "Unsubscribe"} => req.sid \in Sid)
        /\ req.kind \in {"List", "Close", "Invoke", "Subscribe", "Unsubscribe"}
    BY RequestTypes
  <1>3. Ends(req) \in BOOLEAN
    BY NodeAssumption DEF Ends
  <1>4. a \in OtherResponse
    BY <1>1, <1>2, <1>3, AnswerTypes
  <1>5. more \in Seq(Response) /\ Others(more) = Append(Others(v.out), a)
    <2> HIDE DEF a
    <2> QED
      BY <1>1, <1>4, OthersAppend
  <1>6. RidsAfter(req, v.rids) \in SUBSET Rid /\ SidsAfter(req, v.sids) \in SUBSET Sid
    BY <1>1, <1>2 DEF RidsAfter, SidsAfter
  <1>7. \E o \in Seq(Response) : Handled(v, req) = w(o) /\ Others(o) = Others(more)
    <2>1. CASE req.kind = "List"
      <3>1. Ends(req) = FALSE
        BY <2>1, NodeAssumption DEF Ends
      <3>2. Handled(v, req) = w(more)
        BY <1>1, <2>1, <3>1 DEF Handled, RidsAfter, SidsAfter
      <3> QED
        BY <1>5, <3>2
    <2>2. CASE req.kind = "Close"
      <3>1. Ends(req) = TRUE
        BY <2>2, NodeAssumption DEF Ends
      <3>2. Handled(v, req) = w(more)
        BY <1>1, <2>2, <3>1 DEF Handled, RidsAfter, SidsAfter
      <3> QED
        BY <1>5, <3>2
    <2>3. CASE req.kind = "Invoke"
      <3>1. Ends(req) = Answered
        BY <2>3, NodeAssumption DEF Ends
      <3>2. Handled(v, req) = w(more)
        BY <1>1, <2>3, <3>1 DEF Handled, RidsAfter, SidsAfter
      <3> QED
        BY <1>5, <3>2
    <2>4. CASE req.kind = "Unsubscribe"
      <3>1. Ends(req) = TRUE
        BY <2>4, NodeAssumption DEF Ends
      <3>2. Handled(v, req) = w(more)
        BY <1>1, <2>4, <3>1 DEF Handled, RidsAfter, SidsAfter
      <3> QED
        BY <1>5, <3>2
    <2>5. CASE req.kind = "Subscribe"
      <3> DEFINE row == Row(req.sid, v.version)
                 o == IF v.version = 0 THEN more ELSE Append(more, row)
      <3>1. Ends(req) = TRUE
        BY <2>5 DEF Ends
      <3>2. Handled(v, req) = w(o)
        BY <1>1, <2>5, <3>1 DEF Handled, RidsAfter, SidsAfter
      <3>3. v.version # 0 => row \in RowResponse
        BY <1>1, <1>2, <2>5, RowTypes, UpdatesAssumption
      <3>4. o \in Seq(Response) /\ Others(o) = Others(more)
        <4> HIDE DEF more, row
        <4> QED
          BY <1>5, <3>3, OthersAppend
      <3> QED
        BY <3>2, <3>4
    <2> QED
      BY <1>2, <2>1, <2>2, <2>3, <2>4, <2>5
  <1>8. PICK o \in Seq(Response) : Handled(v, req) = w(o) /\ Others(o) = Others(more)
    BY <1>7
  <1> HIDE DEF a, more
  <1>9. /\ Handled(v, req) \in NodeState /\ Handled(v, req).version = v.version
        /\ Handled(v, req).stamp = v.stamp + 1
        /\ Handled(v, req).rids = RidsAfter(req, v.rids)
        /\ Handled(v, req).sids = SidsAfter(req, v.sids) /\ Handled(v, req).out = o
    <2> DEFINE R == RidsAfter(req, v.rids)
               S == SidsAfter(req, v.sids)
               h == Handled(v, req)
    <2>1. h = [rids |-> R, sids |-> S, version |-> v.version, stamp |-> v.stamp + 1, out |-> o]
      BY <1>8
    <2>2. R \in SUBSET Rid /\ S \in SUBSET Sid
      BY <1>6
    <2> HIDE DEF R, S, h
    <2>3. /\ h \in NodeState /\ h.version = v.version /\ h.stamp = v.stamp + 1
          /\ h.rids = R /\ h.sids = S /\ h.out = o
      BY <2>1, <2>2, StateFields
    <2> QED
      BY <2>3 DEF R, S, h
  <1> QED
    BY <1>5, <1>8, <1>9 DEF a

(*------------------------- what the argument rests on --------------------*)

(* The requests and the responses but rows that are on their way, those    *)
(* included that the node will give; and the calls that end with them.     *)
AfterBox == HandledAll(FlattenSeq(nodeBox))
Asked    == Pending(stash[Me] \o mail[Me])
AllDue   == OthersDue \o Others(AfterBox.out)

ClosedIn(s) == {s[i].rid : i \in {j \in 1..Len(s) : s[j].closed}}
Closing     == ClosedIn(AllDue)

(* A request that begins something uses a request id for the first time.   *)
Begin(asked) == {i \in 1..Len(asked) : asked[i].kind # "Close"}

Fresh(asked, used, next) ==
  \A i \in Begin(asked) : /\ asked[i].rid < next /\ asked[i].rid \notin used
                          /\ \A j \in Begin(asked) : i # j => asked[i].rid # asked[j].rid

(* A client closes once what it has begun: the LIST stands at the link, or *)
(* comes before.                                                           *)
Standing(asked, standing, r, j) ==
  r \in standing \/ \E i \in 1..j - 1 : asked[i].kind = "List" /\ asked[i].rid = r

Closable(asked, standing, lists) ==
  /\ \A r \in lists : Standing(asked, standing, r, Len(asked) + 1)
  /\ \A j \in 1..Len(asked) : asked[j].kind = "Close" =>
       /\ asked[j].rid \notin lists
       /\ Standing(asked, standing, asked[j].rid, j)
       /\ \A i \in 1..Len(asked) : asked[i].kind = "Close" /\ i # j => asked[i].rid # asked[j].rid

(* The same for subscriptions, which may begin and end many times.         *)
Unsubscribes(asked, s, k) == asked[k].kind = "Unsubscribe" /\ asked[k].sid = s

Subscribed(asked, subscribed, s, j) ==
  \/ s \in subscribed /\ \A k \in 1..j - 1 : ~Unsubscribes(asked, s, k)
  \/ \E i \in 1..j - 1 : /\ asked[i].kind = "Subscribe" /\ asked[i].sid = s
                         /\ \A k \in i..j - 1 : ~Unsubscribes(asked, s, k)

Unsubscribable(asked, subscribed, wanted) ==
  /\ \A s \in wanted : Subscribed(asked, subscribed, s, Len(asked) + 1)
  /\ \A j \in 1..Len(asked) : asked[j].kind = "Unsubscribe" =>
       Subscribed(asked, subscribed, asked[j].sid, j)

(* The tables of the link and of the node, once the node is done.          *)
Tables(known, subscribed, nodeRids, nodeSids, closing) ==
  /\ subscribed = nodeSids
  /\ nodeRids \subseteq known
  /\ Answered => known \ nodeRids \subseteq closing
  /\ nodeRids \cap closing = {}

Subscriptions == {s \in Sid : bySid[s] # Nil}

TablesInv ==
  /\ Tables(byRid, Subscriptions, AfterBox.rids, AfterBox.sids, Closing)
  /\ Fresh(Asked, byRid \cup Closing, client.next)
  /\ byRid \cup Closing \cup client.lists \subseteq 1..client.next - 1
  /\ Closable(Asked, byRid \ Closing, client.lists)
  /\ Unsubscribable(Asked, Subscriptions, client.sids)

QuietStash == Connected(Me) => stash[Me] = <<>>

(*------------------------- the node and its requests ---------------------*)

NodeNow == [rids |-> rids, sids |-> sids, version |-> version, stamp |-> stamp, out |-> <<>>]

NodeAfter(v, reqs) == HandleF!Fold(v, reqs)

(* HandledAll is the fold of Handled from the node's state.                *)
LEMMA NodeFold == \A reqs : HandledAll(reqs) = NodeAfter(NodeNow, reqs)
  BY Zenon DEF HandledAll, NodeNow, NodeAfter, HandleF!Fold, FoldLeft, HandleF!FoldLeft,
               MapThenFoldSet, HandleF!MapThenFoldSet, Max, HandleF!Max

(* AfterBox is the node after everything that is in its mailbox.           *)
LEMMA BoxFold == AfterBox = NodeAfter(NodeNow, FlattenSeq(nodeBox))
  BY NodeFold DEF AfterBox

(* The same after a step.                                                  *)
LEMMA BoxFoldPrime == AfterBox' = NodeAfter(NodeNow', FlattenSeq(nodeBox'))
  BY Zenon DEF AfterBox, HandledAll, NodeNow, NodeAfter, HandleF!Fold, FoldLeft, HandleF!FoldLeft,
               MapThenFoldSet, HandleF!MapThenFoldSet, Max, HandleF!Max

(* A node stays a node.                                                    *)
LEMMA NodeAfterType ==
  ASSUME NEW v \in NodeState, NEW reqs \in Seq(Request)
  PROVE  NodeAfter(v, reqs) \in NodeState
  <1>1. \A w \in NodeState, req \in Request : Handled(w, req) \in NodeState
    BY HandledFields
  <1> QED
    BY <1>1, HandleF!FoldType DEF NodeAfter

(* No requests leave the node as it is.                                    *)
LEMMA NodeAfterNone ==
  ASSUME NEW v
  PROVE  NodeAfter(v, <<>>) = v
  BY HandleF!FoldEmpty DEF NodeAfter

(* A request at the end is handled last.                                   *)
LEMMA NodeAfterMore ==
  ASSUME NEW v, NEW reqs \in Seq(Request), NEW req \in Request
  PROVE  NodeAfter(v, Append(reqs, req)) = Handled(NodeAfter(v, reqs), req)
  BY HandleF!FoldAppend DEF NodeAfter

(* Handling two runs of requests is handling one after the other.          *)
LEMMA NodeAfterBoth ==
  ASSUME NEW v, NEW reqs \in Seq(Request), NEW more \in Seq(Request)
  PROVE  NodeAfter(v, reqs \o more) = NodeAfter(NodeAfter(v, reqs), more)
  BY HandleF!FoldConcat DEF NodeAfter

(* Its answers are numbered one after the other.                           *)
Numbered(s, n) == \A i \in 1..Len(s) : s[i].no = n + i

(* The next number continues a numbered sequence.                          *)
LEMMA NumberedAppend ==
  ASSUME NEW s \in Seq(OtherResponse), NEW n \in Nat, Numbered(s, n), NEW m \in Nat,
         Len(s) = m - n, NEW a \in OtherResponse, a.no = m + 1
  PROVE  Numbered(Append(s, a), n) /\ Len(Append(s, a)) = (m + 1) - n
  <1>1. Len(Append(s, a)) = Len(s) + 1 /\ Append(s, a)[Len(s) + 1] = a
        /\ \A i \in 1..Len(s) : Append(s, a)[i] = s[i]
    OBVIOUS
  <1> QED
    BY <1>1 DEF Numbered

(* The node numbers its other responses without a gap.                     *)
LEMMA NumberedOut ==
  ASSUME NEW v \in NodeState, v.out = <<>>, NEW reqs \in Seq(Request)
  PROVE  LET w == NodeAfter(v, reqs)
         IN  Numbered(Others(w.out), v.stamp) /\ Len(Others(w.out)) = w.stamp - v.stamp
  <1> DEFINE n == v.stamp
             Good(w) == Numbered(Others(w.out), n) /\ Len(Others(w.out)) = w.stamp - n
             V == {w \in NodeState : Good(w)}
  <1>0. n \in Nat
    BY DEF NodeState
  <1>1. v \in V
    <2>1. Others(v.out) = <<>>
      BY KeptEmpty DEF Others
    <2> QED
      BY <1>0, <2>1 DEF Numbered
  <1>2. ASSUME NEW w \in V, NEW req \in Request PROVE Handled(w, req) \in V
    <2> DEFINE h == Handled(w, req)
               a == Answer(req.rid, Ends(req), w.stamp + 1)
               s == Others(w.out)
               m == w.stamp
    <2>1. w \in NodeState /\ Good(w)
      OBVIOUS
    <2>2. /\ h \in NodeState /\ h.stamp = w.stamp + 1 /\ Others(h.out) = Append(s, a)
      BY <2>1, HandledFields
    <2>3. a \in OtherResponse /\ a.no = m + 1
      <3>1. req.rid \in Rid /\ Ends(req) \in BOOLEAN /\ m \in Nat
        BY <2>1, RequestTypes, NodeAssumption DEF NodeState, Ends
      <3> QED
        BY <3>1, AnswerTypes DEF Answer
    <2>4. s \in Seq(OtherResponse) /\ Numbered(s, n) /\ Len(s) = m - n /\ m \in Nat
      <3>1. w.out \in Seq(Response) /\ OtherResponse \cap Response = OtherResponse
        BY <2>1 DEF NodeState, Response
      <3> QED
        BY <2>1, <3>1, KeptType DEF Others, NodeState
    <2>5. Numbered(Append(s, a), n) /\ Len(Append(s, a)) = (m + 1) - n
      <3> HIDE DEF s, a, m, n
      <3> QED
        BY <1>0, <2>3, <2>4, NumberedAppend
    <2>6. Good(h)
      <3> HIDE DEF h, a, s
      <3> QED
        BY <2>2, <2>5
    <2> HIDE DEF Good, h
    <2>7. h \in V
      BY <2>2, <2>6
    <2> QED
      BY <2>7 DEF h
  <1>3. NodeAfter(v, reqs) \in V
    <2> HIDE DEF V
    <2> QED
      BY <1>1, <1>2, HandleF!FoldType DEF NodeAfter
  <1> QED
    BY <1>3

(* Two nodes that differ in their values only, and in what they have said  *)
(* already, do the same from then on.                                      *)
Alike(v, w, o) ==
  /\ v.rids = w.rids /\ v.sids = w.sids /\ v.stamp = w.stamp
  /\ Others(v.out) = o \o Others(w.out)

(* Two states that differ in their output only keep doing so.              *)
LEMMA AlikeHandled ==
  ASSUME NEW v \in NodeState, NEW w \in NodeState, NEW o \in Seq(OtherResponse),
         Alike(v, w, o), NEW req \in Request
  PROVE  Alike(Handled(v, req), Handled(w, req), o)
  <1> DEFINE a == Answer(req.rid, Ends(req), v.stamp + 1)
             s == Others(w.out)
             hv == Handled(v, req)
             hw == Handled(w, req)
  <1>1. /\ hv.stamp = v.stamp + 1 /\ hv.rids = RidsAfter(req, v.rids)
        /\ hv.sids = SidsAfter(req, v.sids) /\ Others(hv.out) = Append(Others(v.out), a)
    BY HandledFields
  <1>2. /\ hw.stamp = v.stamp + 1 /\ hw.rids = RidsAfter(req, v.rids)
        /\ hw.sids = SidsAfter(req, v.sids) /\ Others(hw.out) = Append(s, a)
    BY HandledFields DEF Alike
  <1>3. s \in Seq(OtherResponse)
    <2>1. w.out \in Seq(Response) /\ OtherResponse \cap Response = OtherResponse
      BY DEF NodeState, Response
    <2> QED
      BY <2>1, KeptType DEF Others
  <1>4. a \in OtherResponse
    <2>1. req.rid \in Rid /\ Ends(req) \in BOOLEAN /\ v.stamp \in Nat
      BY RequestTypes, NodeAssumption DEF NodeState, Ends
    <2> QED
      BY <2>1, AnswerTypes
  <1>5. Others(v.out) = o \o s
    BY DEF Alike
  <1>6. Append(o \o s, a) = o \o Append(s, a)
    <2> HIDE DEF s, a
    <2> QED
      BY <1>3, <1>4
  <1> HIDE DEF hv, hw, a, s
  <1>7. Alike(hv, hw, o)
    BY <1>1, <1>2, <1>5, <1>6 DEF Alike
  <1> QED
    BY <1>7 DEF hv, hw

(* The same over any number of requests.                                   *)
LEMMA AlikeAfter ==
  ASSUME NEW v \in NodeState, NEW w \in NodeState, NEW o \in Seq(OtherResponse),
         Alike(v, w, o), NEW reqs \in Seq(Request)
  PROVE  Alike(NodeAfter(v, reqs), NodeAfter(w, reqs), o)
  <1> DEFINE G == {k \in Nat : Alike(NodeAfter(v, Prefix(reqs, k)), NodeAfter(w, Prefix(reqs, k)), o)}
  <1>1. 0 \in G
    <2>1. Prefix(reqs, 0) = <<>> /\ NodeAfter(v, <<>>) = v /\ NodeAfter(w, <<>>) = w
      BY Beginnings, NodeAfterNone
    <2> QED
      BY <2>1
  <1>2. ASSUME NEW k \in 0..Len(reqs) - 1, k \in G PROVE k + 1 \in G
    <2> DEFINE p == Prefix(reqs, k)
               x == reqs[k + 1]
               a == NodeAfter(v, p)
               b == NodeAfter(w, p)
    <2>1. p \in Seq(Request) /\ x \in Request /\ k + 1 \in Nat /\ Prefix(reqs, k + 1) = Append(p, x)
      BY Beginnings
    <2>2. Alike(a, b, o)
      BY <1>2
    <2> HIDE DEF p, x
    <2>3. /\ NodeAfter(v, Append(p, x)) = Handled(a, x)
          /\ NodeAfter(w, Append(p, x)) = Handled(b, x)
      BY <2>1, NodeAfterMore
    <2>4. a \in NodeState /\ b \in NodeState
      BY <2>1, NodeAfterType
    <2> HIDE DEF a, b
    <2>5. Alike(Handled(a, x), Handled(b, x), o)
      BY <2>1, <2>2, <2>4, AlikeHandled
    <2>6. Alike(NodeAfter(v, Append(p, x)), NodeAfter(w, Append(p, x)), o)
      BY <2>3, <2>5
    <2> QED
      BY <2>1, <2>6
  <1>3. Len(reqs) \in G
    <2> HIDE DEF G
    <2> QED
      BY <1>1, <1>2, PrefixInduction
  <1> QED
    BY <1>3, Beginnings

(*-------------------------------- the stream -----------------------------*)

PutF == INSTANCE Folding WITH Op <- PutMessage

(* A set as a sequence has every element of it, once.                      *)
LEMMA SetSequence ==
  ASSUME NEW S, IsFiniteSet(S)
  PROVE  /\ Cardinality(S) \in Nat
         /\ SetToSeq(S) \in [1..Cardinality(S) -> S]
         /\ IsInjective(SetToSeq(S))
         /\ \A x \in S : \E i \in 1..Cardinality(S) : SetToSeq(S)[i] = x
  <1> DEFINE n == Cardinality(S)
  <1>1. n \in Nat /\ ExistsBijection(1..n, S)
    BY FS_CardinalityType
  <1>2. PICK f : f \in Bijection(1..n, S)
    BY <1>1 DEF ExistsBijection
  <1>3. f \in [1..n -> S] /\ IsInjective(f)
    BY <1>2 DEF Bijection, Injection, IsInjective
  <1>4. SetToSeq(S) \in [1..n -> S] /\ IsInjective(SetToSeq(S))
    BY <1>3 DEF SetToSeq
  <1>5. SetToSeq(S) \in Injection(1..n, S)
    BY <1>4 DEF Injection, IsInjective
  <1>6. IsFiniteSet(1..n) /\ Cardinality(1..n) = n
    BY <1>1, FS_Interval
  <1>7. SetToSeq(S) \in Surjection(1..n, S)
    BY <1>5, <1>6, FS_Injection
  <1> QED
    BY <1>1, <1>4, <1>7 DEF Surjection

Queues == {q \in [Sid -> Seq(Notification)] : \A s \in Sid : Len(q[s]) \leq Capacity + 1}

(* A message put into the queues is in the queue of its SID.               *)
LEMMA PutTypes ==
  ASSUME NEW q \in Queues, NEW m \in Notification
  PROVE  PutMessage(q, m) \in Queues /\ PutMessage(q, m)[m.sid] # <<>> /\ m.sid \in Sid
  <1> DEFINE old == q[m.sid]
             kept == IF Len(old) > Capacity THEN Tail(old) ELSE old
             new == IF m.qos = 0 THEN <<m>> ELSE Append(kept, m)
  <1>1. m.sid \in Sid /\ Capacity \in Nat
    BY ChannelAssumption DEF Notification
  <1>2. old \in Seq(Notification) /\ Len(old) \leq Capacity + 1
    BY <1>1 DEF Queues
  <1>3. kept \in Seq(Notification) /\ Len(kept) \leq Capacity
    <2> HIDE DEF old
    <2>1. CASE Len(old) > Capacity
      <3>1. Len(Tail(old)) = Len(old) - 1 /\ Tail(old) \in Seq(Notification)
        BY <1>1, <1>2, <2>1
      <3> QED
        BY <1>1, <1>2, <2>1, <3>1
    <2>2. CASE ~(Len(old) > Capacity)
      BY <1>1, <1>2, <2>2
    <2> QED
      BY <2>1, <2>2
  <1>4. new \in Seq(Notification) /\ Len(new) \leq Capacity + 1 /\ new # <<>>
    <2> HIDE DEF kept
    <2>1. Append(kept, m) \in Seq(Notification) /\ Len(Append(kept, m)) = Len(kept) + 1
      BY <1>3
    <2>2. <<m>> \in Seq(Notification) /\ Len(<<m>>) = 1
      OBVIOUS
    <2>3. Append(kept, m) # <<>> /\ <<m>> # <<>>
      BY <1>3
    <2> QED
      BY <1>1, <1>3, <2>1, <2>2, <2>3
  <1>5. PutMessage(q, m) = [q EXCEPT ![m.sid] = new]
    BY DEF PutMessage
  <1> HIDE DEF new
  <1> QED
    BY <1>1, <1>4, <1>5 DEF Queues

(* PutAll is the fold of PutMessage.                                       *)
LEMMA PutFold == \A q, ms : PutAll(q, ms) = PutF!Fold(q, ms)
  BY Zenon DEF PutAll, PutF!Fold, FoldLeft, PutF!FoldLeft, MapThenFoldSet, PutF!MapThenFoldSet,
               Max, PutF!Max

(* The queues stay queues.                                                 *)
LEMMA PutAllTypes ==
  ASSUME NEW q \in Queues, NEW ms \in Seq(Notification)
  PROVE  PutAll(q, ms) \in Queues
  <1>1. PutF!Fold(q, ms) \in Queues
    BY PutTypes, PutF!FoldType
  <1> QED
    BY <1>1, PutFold

(* After a batch that is not empty some queue is not empty.                *)
LEMMA PutAllLeaves ==
  ASSUME NEW q \in Queues, NEW ms \in Seq(Notification), ms # <<>>
  PROVE  \E s \in Sid : PutAll(q, ms)[s] # <<>>
  <1> DEFINE k == Len(ms) - 1
             p == Prefix(ms, k)
             m == ms[k + 1]
  <1>1. Len(ms) \in Nat \ {0}
    OBVIOUS
  <1>2. k \in 0..Len(ms) - 1 /\ k + 1 = Len(ms)
    BY <1>1
  <1> HIDE DEF k
  <1>3. p \in Seq(Notification) /\ m \in Notification /\ Prefix(ms, k + 1) = Append(p, m)
        /\ Prefix(ms, Len(ms)) = ms
    BY <1>2, Beginnings
  <1> HIDE DEF p, m
  <1>4. PutF!Fold(q, Append(p, m)) = PutMessage(PutF!Fold(q, p), m)
    BY <1>3, PutF!FoldAppend
  <1>5. PutF!Fold(q, p) \in Queues
    BY <1>3, PutAllTypes, PutFold
  <1>6. PutMessage(PutF!Fold(q, p), m)[m.sid] # <<>> /\ m.sid \in Sid
    BY <1>3, <1>5, PutTypes
  <1>7. ms = Append(p, m)
    BY <1>2, <1>3
  <1> QED
    BY <1>4, <1>6, <1>7, PutFold

(* A part that is not empty makes the whole not empty.                     *)
LEMMA FlatHas ==
  ASSUME NEW S, NEW ss \in Seq(Seq(S)), NEW i \in 1..Len(ss), ss[i] # <<>>
  PROVE  FlattenSeq(ss) # <<>>
  <1> DEFINE G == {k \in Nat : i <= k => FlattenSeq(Prefix(ss, k)) # <<>>}
  <1>1. 0 \in G
    OBVIOUS
  <1>2. ASSUME NEW k \in 0..Len(ss) - 1, k \in G PROVE k + 1 \in G
    <2> DEFINE p == Prefix(ss, k)
               t == ss[k + 1]
    <2>1. p \in Seq(Seq(S)) /\ t \in Seq(S) /\ k + 1 \in Nat /\ Prefix(ss, k + 1) = Append(p, t)
      BY Beginnings, ZenonT(40)
    <2>2. i <= k => FlattenSeq(p) # <<>>
      BY <1>2
    <2>3. i = k + 1 => t # <<>>
      OBVIOUS
    <2> HIDE DEF p, t
    <2>4. FlattenSeq(Append(p, t)) = FlattenSeq(p) \o t /\ FlattenSeq(p) \in Seq(S)
      BY <2>1, FlatAppend, FlatType
    <2> DEFINE f == FlattenSeq(p)
    <2>5. f # <<>> \/ t # <<>> => f \o t # <<>>
      <3>1. f \in Seq(S) /\ t \in Seq(S)
        BY <2>1, <2>4
      <3> HIDE DEF f
      <3>2. Len(f \o t) = Len(f) + Len(t)
        BY <3>1
      <3>3. Len(f) \in Nat /\ Len(t) \in Nat /\ (f # <<>> => Len(f) # 0) /\ (t # <<>> => Len(t) # 0)
        BY <3>1, EmptySeq
      <3>4. f # <<>> \/ t # <<>> => Len(f \o t) # 0
        BY <3>2, <3>3
      <3> QED
        BY <3>4
    <2>6. i <= k + 1 => i <= k \/ i = k + 1
      OBVIOUS
    <2>7. i <= k + 1 => FlattenSeq(Append(p, t)) # <<>>
      BY <2>2, <2>3, <2>4, <2>5, <2>6
    <2> QED
      BY <2>1, <2>7
  <1>3. Len(ss) \in G
    <2> HIDE DEF G
    <2> QED
      BY <1>1, <1>2, PrefixInduction
  <1> QED
    BY <1>3, Beginnings

(* All queues, one after the other: not empty if one of them is not.       *)
LEMMA FlattenedTypes ==
  ASSUME NEW q \in Queues
  PROVE  /\ Flattened(q) \in Seq(Notification)
         /\ (\E s \in Sid : q[s] # <<>>) => Flattened(q) # <<>>
  <1> DEFINE n == Cardinality(Sid)
             f == SetToSeq(Sid)
             qs == [i \in 1..n |-> q[f[i]]]
  <1>1. n \in Nat /\ f \in [1..n -> Sid] /\ \A s \in Sid : \E i \in 1..n : f[i] = s
    BY SetSequence, ChannelAssumption
  <1> HIDE DEF f, n
  <1>2. qs \in Seq(Seq(Notification)) /\ Len(qs) = n
    BY <1>1 DEF Queues
  <1>3. Flattened(q) = FlattenSeq(qs)
    BY DEF Flattened, f, n
  <1>4. ASSUME NEW s \in Sid, q[s] # <<>> PROVE FlattenSeq(qs) # <<>>
    <2>1. PICK i \in 1..n : f[i] = s
      BY <1>1
    <2>2. i \in 1..Len(qs) /\ qs[i] # <<>>
      BY <1>2, <1>4, <2>1
    <2> HIDE DEF qs
    <2> QED
      BY <1>2, <2>2, FlatHas
  <1>5. FlattenSeq(qs) \in Seq(Notification)
    <2> HIDE DEF qs
    <2> QED
      BY <1>2, FlatType
  <1> QED
    BY <1>3, <1>4, <1>5

(*--------------------------------- types ---------------------------------*)

ClientState == [next : 1..Cardinality(Rid) + 1, sids : SUBSET Sid, lists : SUBSET Rid]
Targets     == [byRid : SUBSET Rid, bySid : [Sid -> QoS \cup {Nil}]]

LinkTypes ==
  /\ endpoint \in [Name -> Socket \cup {Nil}]
  /\ watching \in [Name -> BOOLEAN]
  /\ saved \in [Name -> Socket \cup {Nil}]
  /\ mail \in [Name -> Seq(LinkMessage)]
  /\ stash \in [Name -> Seq(LinkMessage)]
  /\ open \subseteq Socket /\ doomed \subseteq Socket
  /\ fresh \subseteq Socket \ open
  /\ watching[Me] = Connected(Me)
  /\ saved[Me] = endpoint[Me]

TableTypes ==
  /\ NodeTypeOK
  /\ byRid \in SUBSET Rid
  /\ bySid \in [Sid -> QoS \cup {Nil}]
  /\ client \in ClientState
  /\ handed \in Nat
  /\ overtaken \subseteq Sid

StreamTypes == ChannelTypeOK

Types == LinkTypes /\ TableTypes /\ StreamTypes /\ QuietStash

(* There is one requester link.                                            *)
LEMMA OnlyMe == Name = {Me} /\ Me \in Name
  BY RequesterAssumption

(* The request ids are the first numbers.                                  *)
LEMMA RidCount == Cardinality(Rid) \in Nat /\ Rid = 1..Cardinality(Rid)
  BY RequesterAssumption, FS_CardinalityType

(* What a client asks, and what it knows then.                             *)
LEMMA AsksTypes ==
  ASSUME NEW c \in ClientState, NEW req \in Asks(c)
  PROVE  req \in Request /\ HavingAsked(c, req) \in ClientState
  <1>1. /\ c.next \in 1..Cardinality(Rid) + 1 /\ c.sids \in SUBSET Sid /\ c.lists \in SUBSET Rid
    BY DEF ClientState
  <1>2. req \in Request
    BY <1>1 DEF Asks, Request
  <1>3. (IF req.rid = c.next THEN c.next + 1 ELSE c.next) \in 1..Cardinality(Rid) + 1
    BY <1>1, <1>2, RequestTypes, RidCount
  <1>4. (CASE req.kind = "Subscribe" -> c.sids \cup {req.sid}
           [] req.kind = "Unsubscribe" -> c.sids \ {req.sid}
           [] OTHER -> c.sids) \in SUBSET Sid
    BY <1>1, <1>2, RequestTypes
  <1>5. (CASE req.kind = "List" -> c.lists \cup {req.rid}
           [] req.kind = "Close" -> c.lists \ {req.rid}
           [] OTHER -> c.lists) \in SUBSET Rid
    BY <1>1, <1>2, RequestTypes
  <1> QED
    BY <1>2, <1>3, <1>4, <1>5 DEF HavingAsked, ClientState

AskF == INSTANCE Folding WITH Op <- HavingAsked

(* What a client has asked is a fold of HavingAsked.                       *)
LEMMA AskFold == \A c, reqs : FoldLeft(HavingAsked, c, reqs) = AskF!Fold(c, reqs)
  BY Zenon DEF AskF!Fold, FoldLeft, AskF!FoldLeft, MapThenFoldSet, AskF!MapThenFoldSet, Max, AskF!Max

(* One request asked.                                                      *)
LEMMA AskedOnce ==
  ASSUME NEW c, NEW a \in Request
  PROVE  FoldLeft(HavingAsked, c, <<a>>) = HavingAsked(c, a)
  <1>1. <<>> \in Seq(Request) /\ <<a>> = Append(<<>>, a)
    OBVIOUS
  <1>2. AskF!Fold(c, Append(<<>>, a)) = HavingAsked(AskF!Fold(c, <<>>), a)
    BY <1>1, AskF!FoldAppend
  <1> QED
    BY <1>1, <1>2, AskFold, AskF!FoldEmpty

(* Two requests asked, in their order.                                     *)
LEMMA AskedTwice ==
  ASSUME NEW c, NEW a \in Request, NEW b \in Request
  PROVE  FoldLeft(HavingAsked, c, <<a, b>>) = HavingAsked(HavingAsked(c, a), b)
  <1>1. <<a>> \in Seq(Request) /\ <<a, b>> = Append(<<a>>, b)
    OBVIOUS
  <1>2. AskF!Fold(c, Append(<<a>>, b)) = HavingAsked(AskF!Fold(c, <<a>>), b)
    BY <1>1, AskF!FoldAppend
  <1> QED
    BY <1>1, <1>2, AskFold, AskedOnce

(* What the link remembers.                                                *)
RememberF == INSTANCE Folding WITH Op <- Remembered

LinkAfter(was, reqs) == RememberF!Fold(was, reqs)

(* The link's tables after a message are a fold of Remembered.             *)
LEMMA LinkFold == \A was, reqs : FoldLeft(Remembered, was, reqs) = LinkAfter(was, reqs)
  BY Zenon DEF LinkAfter, RememberF!Fold, FoldLeft, RememberF!FoldLeft, MapThenFoldSet,
               RememberF!MapThenFoldSet, Max, RememberF!Max

(* What one request does to the link's tables, field by field.             *)
LEMMA RememberedFields ==
  ASSUME NEW was \in Targets, NEW req \in Request
  PROVE  /\ Remembered(was, req) \in Targets
         /\ Remembered(was, req).byRid
            = IF req.kind \in {"List", "Invoke"} THEN was.byRid \cup {req.rid}
              ELSE IF req.kind = "Close" THEN was.byRid \ {req.rid} ELSE was.byRid
         /\ \A s \in Sid : Remembered(was, req).bySid[s]
            = IF req.kind = "Subscribe" /\ req.sid = s THEN Level[s]
              ELSE IF req.kind = "Unsubscribe" /\ req.sid = s THEN Nil ELSE was.bySid[s]
  <1>1. /\ was.byRid \in SUBSET Rid /\ was.bySid \in [Sid -> QoS \cup {Nil}]
        /\ was = [byRid |-> was.byRid, bySid |-> was.bySid]
    BY DEF Targets
  <1>2. /\ req.rid \in Rid /\ (req.kind \in {"Subscribe", "Unsubscribe"} => req.sid \in Sid)
        /\ req.kind \in {"List", "Close", "Invoke", "Subscribe", "Unsubscribe"}
    BY RequestTypes
  <1>3. Level \in [Sid -> QoS]
    BY RequesterAssumption
  <1>4. CASE req.kind \in {"List", "Invoke"}
    BY <1>1, <1>2, <1>4 DEF Remembered, Targets
  <1>5. CASE req.kind = "Close"
    BY <1>1, <1>2, <1>5 DEF Remembered, Targets
  <1>6. CASE req.kind = "Subscribe"
    BY <1>1, <1>2, <1>3, <1>6 DEF Remembered, Targets
  <1>7. CASE req.kind = "Unsubscribe"
    BY <1>1, <1>2, <1>7 DEF Remembered, Targets
  <1> QED
    BY <1>2, <1>4, <1>5, <1>6, <1>7

(* The link's tables stay tables.                                          *)
LEMMA LinkAfterType ==
  ASSUME NEW was \in Targets, NEW reqs \in Seq(Request)
  PROVE  LinkAfter(was, reqs) \in Targets
  <1>1. \A w \in Targets, req \in Request : Remembered(w, req) \in Targets
    BY RememberedFields
  <1> QED
    BY <1>1, RememberF!FoldType DEF LinkAfter

(* No requests leave the link's tables as they are.                        *)
LEMMA LinkAfterNone ==
  ASSUME NEW was
  PROVE  LinkAfter(was, <<>>) = was
  BY RememberF!FoldEmpty DEF LinkAfter

(* A request at the end is remembered last.                                *)
LEMMA LinkAfterMore ==
  ASSUME NEW was, NEW reqs \in Seq(Request), NEW req \in Request
  PROVE  LinkAfter(was, Append(reqs, req)) = Remembered(LinkAfter(was, reqs), req)
  BY RememberF!FoldAppend DEF LinkAfter

(* What goes through the stream.                                           *)
LEMMA NotificationTypes ==
  ASSUME TableTypes, NEW rs \in Seq(Response)
  PROVE  /\ Notifications(rs) \in Seq(Notification)
         /\ DurableRows(Notifications(rs)) \in Seq(Notification)
  <1>1. Rows(rs) \in Seq(RowResponse)
    <2>1. RowResponse \cap Response = RowResponse
      BY DEF Response
    <2> QED
      BY <2>1, KeptType DEF Rows
  <1>2. \A i \in 1..Len(Rows(rs)) :
          [sid |-> Rows(rs)[i].sid, ver |-> Rows(rs)[i].ver,
           qos |-> IF bySid[Rows(rs)[i].sid] = Nil THEN 0 ELSE bySid[Rows(rs)[i].sid]] \in Notification
    <2> TAKE i \in 1..Len(Rows(rs))
    <2> DEFINE r == Rows(rs)[i]
    <2>0. r \in RowResponse
      BY <1>1, ElementOfSeq
    <2>1. r.sid \in Sid /\ r.ver \in 1..MaxVersion
      <3> HIDE DEF r
      <3> QED
        BY <2>0 DEF RowResponse
    <2>2. bySid[r.sid] \in QoS \cup {Nil} /\ 0 \in QoS
      BY <2>1 DEF TableTypes, QoS
    <2> HIDE DEF r
    <2>3. [sid |-> r.sid, ver |-> r.ver, qos |-> IF bySid[r.sid] = Nil THEN 0 ELSE bySid[r.sid]]
          \in Notification
      BY <2>1, <2>2 DEF Notification
    <2> QED
      BY <2>3 DEF r
  <1>3. Notifications(rs) \in Seq(Notification)
    BY <1>1, <1>2 DEF Notifications
  <1>4. DurableRows(Notifications(rs)) \in Seq(Notification)
    BY <1>3, KeptType DEF DurableRows
  <1> QED
    BY <1>3, <1>4

(* The rows the node sends for a new value are rows.                       *)
LEMMA ValueTypes ==
  ASSUME TableTypes, version < MaxVersion
  PROVE  /\ Cardinality(sids) \in Nat
         /\ \A i \in 1..Cardinality(sids) : ValueRows(version + 1)[i] \in Seq(RowResponse)
  <1>1. IsFiniteSet(sids)
    BY FS_Subset, ChannelAssumption DEF TableTypes, NodeTypeOK
  <1>2. Cardinality(sids) \in Nat /\ SetToSeq(sids) \in [1..Cardinality(sids) -> sids]
    BY <1>1, SetSequence
  <1>3. version + 1 \in 1..MaxVersion
    BY UpdatesAssumption DEF TableTypes, NodeTypeOK
  <1>4. ASSUME NEW i \in 1..Cardinality(sids)
        PROVE  ValueRows(version + 1)[i] \in Seq(RowResponse)
    <2>1. SetToSeq(sids)[i] \in Sid
      BY <1>2 DEF TableTypes, NodeTypeOK
    <2>2. Row(SetToSeq(sids)[i], version + 1) \in RowResponse
      BY <1>3, <2>1, RowTypes
    <2> DEFINE x == Row(SetToSeq(sids)[i], version + 1)
    <2>3. ValueRows(version + 1)[i] = <<x>>
      BY DEF ValueRows
    <2>4. x \in RowResponse
      BY <2>2
    <2> HIDE DEF x
    <2>5. <<x>> \in Seq(RowResponse)
      BY <2>4
    <2> QED
      BY <2>3, <2>5
  <1> QED
    BY <1>2, <1>4

(*------------------------- messages on their way -------------------------*)

(* The responses on their way are those held by stash and mailbox.         *)
LEMMA DueIs == OthersDue = Due(stash[Me] \o mail[Me])
  BY DEF OthersDue, Due, OthersEach

(* The same after a step.                                                  *)
LEMMA DueIsPrime == OthersDue' = Due(stash'[Me] \o mail'[Me])
  BY DEF OthersDue, Due, OthersEach

(* The requests on their way after a step.                                 *)
LEMMA AskedIsPrime == Asked' = Pending(stash'[Me] \o mail'[Me])
  BY DEF Asked

(* The types of what stash and mailbox of the link hold.                   *)
LEMMA HeldOfMe ==
  ASSUME LinkTypes
  PROVE  /\ stash[Me] \in Seq(LinkMessage) /\ mail[Me] \in Seq(LinkMessage)
         /\ stash[Me] \o mail[Me] \in Seq(LinkMessage)
         /\ OthersDue \in Seq(OtherResponse) /\ Asked \in Seq(Request)
  <1>1. stash[Me] \in Seq(LinkMessage) /\ mail[Me] \in Seq(LinkMessage)
    BY OnlyMe DEF LinkTypes
  <1>2. stash[Me] \o mail[Me] \in Seq(LinkMessage)
    BY <1>1
  <1> QED
    BY <1>1, <1>2, HeldTypes, DueIs DEF Asked

SameTraffic == OthersDue' = OthersDue /\ Asked' = Asked

(* Something is sent to the link.                                          *)
LEMMA SendTraffic ==
  ASSUME LinkTypes, NEW m \in LinkMessage, Send(Me, m), UNCHANGED stash
  PROVE  /\ mail' \in [Name -> Seq(LinkMessage)]
         /\ OthersDue' = OthersDue \o OthersIn(m)
         /\ Asked' = Asked \o RequestsIn(m)
  <1> DEFINE st == stash[Me]
             ml == mail[Me]
             held == st \o ml
  <1>1. st \in Seq(LinkMessage) /\ ml \in Seq(LinkMessage) /\ held \in Seq(LinkMessage)
    BY HeldOfMe
  <1>2. mail'[Me] = Append(ml, m) /\ stash'[Me] = st
    BY OnlyMe DEF Send, LinkTypes
  <1>3. mail' \in [Name -> Seq(LinkMessage)]
    BY OnlyMe DEF Send, LinkTypes
  <1> HIDE DEF st, ml
  <1>4. st \o Append(ml, m) = Append(st \o ml, m)
    BY <1>1
  <1>5. stash'[Me] \o mail'[Me] = Append(held, m)
    BY <1>2, <1>4
  <1>6. Due(Append(held, m)) = Due(held) \o OthersIn(m)
        /\ Pending(Append(held, m)) = Pending(held) \o RequestsIn(m)
    <2> HIDE DEF held
    <2> QED
      BY <1>1, HeldAppend
  <1> QED
    BY <1>3, <1>5, <1>6, DueIs, DueIsPrime, AskedIsPrime DEF Asked, st, ml

(* Sending a silent message to the link moves no traffic.                  *)
LEMMA SilentSent ==
  ASSUME LinkTypes, NEW m \in LinkMessage, Silent(m), Send(Me, m), UNCHANGED stash
  PROVE  mail' \in [Name -> Seq(LinkMessage)] /\ SameTraffic
  <1> DEFINE a == OthersDue
             b == Asked
  <1>1. /\ mail' \in [Name -> Seq(LinkMessage)]
        /\ OthersDue' = a \o <<>> /\ Asked' = b \o <<>>
    BY SendTraffic DEF Silent
  <1>2. a \in Seq(OtherResponse) /\ b \in Seq(Request)
    BY HeldOfMe
  <1> HIDE DEF a, b
  <1>3. a \o <<>> = a /\ b \o <<>> = b
    BY <1>2
  <1> QED
    BY <1>1, <1>3 DEF SameTraffic, a, b

(* A message without requests and responses is taken.                      *)
LEMMA SilentTake ==
  ASSUME LinkTypes, mail[Me] # <<>>, Silent(Head(mail[Me])), Take(Me), UNCHANGED stash
  PROVE  mail' \in [Name -> Seq(LinkMessage)] /\ SameTraffic
  <1> DEFINE st == stash[Me]
             ml == mail[Me]
  <1>1. st \in Seq(LinkMessage) /\ ml \in Seq(LinkMessage) /\ ml # <<>> /\ Silent(Head(ml))
    BY HeldOfMe
  <1>2. mail'[Me] = Tail(ml) /\ stash'[Me] = st
    BY OnlyMe DEF Take, LinkTypes
  <1>3. mail' \in [Name -> Seq(LinkMessage)]
    BY <1>1, OnlyMe DEF Take, LinkTypes
  <1>4. Due(st \o Tail(ml)) = Due(st \o ml) /\ Pending(st \o Tail(ml)) = Pending(st \o ml)
    <2> HIDE DEF st, ml
    <2> QED
      BY <1>1, SilentTaken
  <1> QED
    BY <1>2, <1>3, <1>4, DueIs, DueIsPrime, AskedIsPrime DEF SameTraffic, Asked

(* A message is put aside by a link that is not connected.                 *)
LEMMA PutAside ==
  ASSUME LinkTypes, mail[Me] # <<>>, Take(Me),
         stash' = [stash EXCEPT ![Me] = Append(@, Head(mail[Me]))]
  PROVE  /\ mail' \in [Name -> Seq(LinkMessage)] /\ stash' \in [Name -> Seq(LinkMessage)]
         /\ SameTraffic
  <1> DEFINE st == stash[Me]
             ml == mail[Me]
  <1>1. st \in Seq(LinkMessage) /\ ml \in Seq(LinkMessage) /\ ml # <<>>
    BY HeldOfMe
  <1>2. mail'[Me] = Tail(ml) /\ stash'[Me] = Append(st, Head(ml))
    BY OnlyMe DEF Take, LinkTypes
  <1>3. Tail(ml) \in Seq(LinkMessage) /\ Head(ml) \in LinkMessage
    BY <1>1
  <1>4. mail' \in [Name -> Seq(LinkMessage)] /\ stash' \in [Name -> Seq(LinkMessage)]
    BY <1>1, <1>3, OnlyMe DEF Take, LinkTypes
  <1>5. Append(st, Head(ml)) \o Tail(ml) = st \o ml
    <2> HIDE DEF st, ml
    <2>1. DEFINE h == Head(ml)
                 tl == Tail(ml)
    <2>2. ml = <<h>> \o tl /\ h \in LinkMessage /\ tl \in Seq(LinkMessage)
      BY <1>1
    <2> HIDE DEF h, tl
    <2>3. Append(st, h) \o tl = st \o (<<h>> \o tl)
      BY <1>1, <2>2
    <2> QED
      BY <2>2, <2>3 DEF h, tl
  <1> QED
    BY <1>2, <1>4, <1>5, DueIs, DueIsPrime, AskedIsPrime DEF SameTraffic, Asked

(*--------------------- what a step does to the messages ------------------*)

(* The sessions and the sockets are as they should be.                     *)
Sessions ==
  /\ endpoint \in [Name -> Socket \cup {Nil}]
  /\ watching \in [Name -> BOOLEAN]
  /\ saved \in [Name -> Socket \cup {Nil}]
  /\ open \subseteq Socket /\ doomed \subseteq Socket
  /\ fresh \subseteq Socket \ open
  /\ watching[Me] = Connected(Me)
  /\ saved[Me] = endpoint[Me]

Messages == mail \in [Name -> Seq(LinkMessage)] /\ stash \in [Name -> Seq(LinkMessage)]

(* The link's types are those of its sessions and of its messages.         *)
LEMMA LinkParts == LinkTypes <=> Sessions /\ Messages
  BY DEF LinkTypes, Sessions, Messages

(* The same after a step.                                                  *)
LEMMA LinkPartsPrime == LinkTypes' <=> Sessions' /\ Messages'
  BY DEF LinkTypes, Sessions, Messages

(* Opening and closing sockets keeps the types of the sessions.            *)
LEMMA SessionsStay ==
  ASSUME Sessions, UNCHANGED <<endpoint, watching, saved, doomed>>,
         open' \subseteq Socket, fresh' \subseteq Socket \ open'
  PROVE  Sessions'
  BY DEF Sessions, Connected

(* A step that leaves endpoint and stash alone keeps the stash quiet.      *)
LEMMA QuietStays ==
  ASSUME QuietStash, UNCHANGED <<endpoint, stash>>
  PROVE  QuietStash'
  BY DEF QuietStash, Connected

(* Sockets open and close.                                                 *)
LEMMA OpenSocketMoves ==
  ASSUME LinkTypes, QuietStash, NEW w \in Socket, OpenSocket(w)
  PROVE  LinkTypes' /\ QuietStash' /\ SameTraffic
  <1>1. ConnectEndpoint(w) \in ControlMessage
    BY DEF ConnectEndpoint, ControlMessage
  <1>2. Send(Me, ConnectEndpoint(w)) /\ UNCHANGED stash
    BY DEF OpenSocket
  <1>3. mail' \in [Name -> Seq(LinkMessage)] /\ SameTraffic
    BY <1>1, <1>2, ControlSilent, SilentSent
  <1>4. Sessions'
    BY LinkParts, SessionsStay DEF OpenSocket, Sessions
  <1>5. QuietStash'
    BY QuietStays DEF OpenSocket
  <1> QED
    BY <1>2, <1>3, <1>4, <1>5, LinkParts, LinkPartsPrime DEF Messages

(* A socket that closes loses no traffic.                                  *)
LEMMA CloseSocketMoves ==
  ASSUME LinkTypes, QuietStash, NEW w \in Socket, CloseSocket(w)
  PROVE  LinkTypes' /\ QuietStash' /\ SameTraffic
  <1>1. Terminated(w) \in ControlMessage
    BY DEF Terminated, ControlMessage
  <1>2. UNCHANGED stash
    BY DEF CloseSocket, SocketCloses
  <1>3. mail' \in [Name -> Seq(LinkMessage)] /\ SameTraffic
    <2>1. CASE endpoint[Me] = w /\ watching[Me]
      <3>1. Send(Me, Terminated(w))
        BY <2>1, OnlyMe DEF Send, CloseSocket, SocketCloses, LinkTypes
      <3> QED
        BY <1>1, <1>2, <3>1, ControlSilent, SilentSent
    <2>2. CASE ~(endpoint[Me] = w /\ watching[Me])
      <3>1. mail' = mail
        BY <2>2, OnlyMe DEF CloseSocket, SocketCloses, LinkTypes
      <3> QED
        BY <1>2, <3>1, DueIs, DueIsPrime, AskedIsPrime DEF SameTraffic, Asked, LinkTypes
    <2> QED
      BY <2>1, <2>2
  <1>4. Sessions'
    BY LinkParts, SessionsStay DEF CloseSocket, SocketCloses, outsideVars, Sessions
  <1>5. QuietStash'
    BY QuietStays DEF CloseSocket, SocketCloses
  <1> QED
    BY <1>2, <1>3, <1>4, <1>5, LinkParts, LinkPartsPrime DEF Messages

(* What the head of the mailbox is.                                        *)
LEMMA HeadTypes ==
  ASSUME LinkTypes, mail[Me] # <<>>
  PROVE  /\ Head(mail[Me]) \in LinkMessage
         /\ Head(mail[Me]).kind = "Requests" => Head(mail[Me]).reqs \in Seq(Request)
         /\ Head(mail[Me]).kind = "Responses" => Head(mail[Me]).rs \in Seq(Response)
         /\ Head(mail[Me]).kind \notin {"Requests", "Responses"} =>
              Silent(Head(mail[Me])) /\ Head(mail[Me]) \in ControlMessage
         /\ Head(mail[Me]).kind \in {"Connect", "Terminated"} => Head(mail[Me]).ws \in Socket
  <1> DEFINE m == Head(mail[Me])
  <1>1. m \in LinkMessage
    BY HeldOfMe
  <1> HIDE DEF m
  <1>2. m.kind = "Requests" => m.reqs \in Seq(Request)
    BY <1>1 DEF LinkMessage, ControlMessage
  <1>3. m.kind = "Responses" => m.rs \in Seq(Response)
    BY <1>1 DEF LinkMessage, ControlMessage
  <1>4. m.kind \notin {"Requests", "Responses"} => m \in ControlMessage
    BY <1>1 DEF LinkMessage
  <1>5. m.kind \in {"Connect", "Terminated"} => m.ws \in Socket
    BY <1>1 DEF LinkMessage, ControlMessage
  <1> QED
    BY <1>1, <1>2, <1>3, <1>4, <1>5, ControlSilent DEF m

(* A new session: what was put aside comes first.                          *)
LEMMA LinkConnectsMoves ==
  ASSUME LinkTypes, QuietStash, LinkConnects
  PROVE  LinkTypes' /\ QuietStash' /\ SameTraffic
  <1> DEFINE st == stash[Me]
             ml == mail[Me]
             w == Head(mail[Me]).ws
             later == st \o Tail(ml)
             next == Watch(w, later)
  <1>1. /\ NewEndpoint(Me) /\ SwitchTo(Me, w)
        /\ mail' = [mail EXCEPT ![Me] = Watch(w, stash[Me] \o Tail(@))]
    BY DEF LinkConnects, ConnectToEndpoint
  <1>2. ml # <<>> /\ Silent(Head(ml)) /\ w \in Socket
    BY <1>1, HeadTypes DEF NewEndpoint, Holds
  <1>3. st \in Seq(LinkMessage) /\ ml \in Seq(LinkMessage)
    BY HeldOfMe
  <1>4. mail' = [mail EXCEPT ![Me] = next] /\ mail'[Me] = next /\ stash'[Me] = <<>>
    BY <1>1, OnlyMe DEF LinkTypes, SwitchTo
  <1>5. Terminated(w) \in ControlMessage
    BY <1>2 DEF Terminated, ControlMessage
  <1> HIDE DEF st, ml, w, next
  <1>6. later \in Seq(LinkMessage)
    BY <1>2, <1>3
  <1>7. Due(later) = Due(st \o ml) /\ Pending(later) = Pending(st \o ml)
    BY <1>2, <1>3, SilentTaken
  <1> HIDE DEF later
  <1>8. next \in Seq(LinkMessage) /\ Due(next) = Due(later) /\ Pending(next) = Pending(later)
    <2>1. CASE w \in open
      BY <1>6, <2>1 DEF next, Watch
    <2>2. CASE w \notin open
      <3>1. next = Append(later, Terminated(w))
        BY <2>2 DEF next, Watch
      <3>2. Terminated(w) \in LinkMessage /\ Silent(Terminated(w))
        BY <1>5, ControlSilent
      <3>3. Append(later, Terminated(w)) \in Seq(LinkMessage)
        BY <1>6, <3>2
      <3> QED
        BY <1>6, <3>1, <3>2, <3>3, SilentAppended
    <2> QED
      BY <2>1, <2>2
  <1>9. Messages'
    BY <1>1, <1>4, <1>8, OnlyMe DEF LinkTypes, SwitchTo, Messages
  <1>10. Sessions'
    BY <1>1, <1>2, OnlyMe, ConnectionAssumption
    DEF LinkTypes, SwitchTo, Sessions, Connected, LinkConnects, outsideVars
  <1>11. <<>> \o next = next
    BY <1>8
  <1>12. SameTraffic
    BY <1>4, <1>7, <1>8, <1>11, DueIs, DueIsPrime, AskedIsPrime DEF SameTraffic, Asked, st, ml
  <1> QED
    BY <1>4, <1>9, <1>10, <1>12, LinkPartsPrime DEF QuietStash

(* A link that disconnects loses no traffic.                               *)
LEMMA LinkDisconnectsMoves ==
  ASSUME LinkTypes, QuietStash, LinkDisconnects
  PROVE  LinkTypes' /\ QuietStash' /\ SameTraffic
  <1>1. mail[Me] # <<>> /\ Take(Me) /\ UNCHANGED stash
        /\ Head(mail[Me]).kind \in {"Disconnect", "Terminated"}
    BY DEF LinkDisconnects, SessionEnds, ControlIgnored, Holds, DisconnectFromEndpoint
  <1>2. Silent(Head(mail[Me]))
    BY <1>1, HeadTypes
  <1>3. mail' \in [Name -> Seq(LinkMessage)] /\ SameTraffic
    BY <1>1, <1>2, SilentTake
  <1>4. Sessions' /\ QuietStash'
    <2>1. ASSUME SessionEnds(Me) PROVE Sessions' /\ QuietStash'
      <3>1. PICK kill \in BOOLEAN : DisconnectFromEndpoint(Me, kill) /\ Connected(Me)
        <4>1. Head(mail[Me]).kind = "Disconnect" => Head(mail[Me]).kill \in BOOLEAN
          BY <1>1, HeadTypes DEF ControlMessage
        <4> QED
          BY <2>1, <4>1 DEF SessionEnds, Holds
      <3>2. endpoint'[Me] = Nil /\ watching'[Me] = FALSE /\ saved'[Me] = Nil
        BY <3>1, OnlyMe DEF DisconnectFromEndpoint, LinkTypes
      <3>3. endpoint[Me] \in Socket
        BY <3>1, OnlyMe DEF Connected, LinkTypes
      <3>4. Sessions'
        BY <3>1, <3>2, <3>3, OnlyMe
        DEF DisconnectFromEndpoint, LinkTypes, Sessions, Connected, LinkDisconnects, outsideVars
      <3> QED
        BY <3>2, <3>4 DEF QuietStash, Connected
    <2>2. ASSUME ControlIgnored(Me) PROVE Sessions' /\ QuietStash'
      BY <2>2, LinkParts, SessionsStay, QuietStays
      DEF ControlIgnored, Sessions, LinkDisconnects, outsideVars
    <2> QED
      BY <2>1, <2>2 DEF LinkDisconnects
  <1> QED
    BY <1>1, <1>3, <1>4, LinkParts, LinkPartsPrime DEF Messages

(* The link puts aside what it cannot pass on.                             *)
LEMMA KeepRequestsMoves ==
  ASSUME LinkTypes, QuietStash, KeepRequests
  PROVE  LinkTypes' /\ QuietStash' /\ SameTraffic
  <1>1. /\ mail[Me] # <<>> /\ Take(Me)
        /\ stash' = [stash EXCEPT ![Me] = Append(@, Head(mail[Me]))]
    BY DEF KeepRequests, Holds
  <1>2. Messages' /\ SameTraffic
    BY <1>1, PutAside DEF Messages
  <1>3. Sessions'
    BY LinkParts, SessionsStay DEF KeepRequests, Sessions, outsideVars
  <1>4. QuietStash'
    BY DEF KeepRequests, QuietStash, Connected
  <1> QED
    BY <1>2, <1>3, <1>4, LinkPartsPrime

(* Responses kept for later stay on their way, in their order.             *)
LEMMA KeepResponsesMoves ==
  ASSUME LinkTypes, QuietStash, KeepResponses
  PROVE  LinkTypes' /\ QuietStash' /\ SameTraffic
  <1> DEFINE m == Head(mail[Me])
  <1>1. mail[Me] # <<>> /\ m.kind = "Responses" /\ Take(Me)
    BY DEF KeepResponses, Holds
  <1>2. Messages' /\ SameTraffic
    <2>1. CASE Others(m.rs) # <<>>
      <3>1. stash' = [stash EXCEPT ![Me] = Append(@, Head(mail[Me]))]
        BY <2>1 DEF KeepResponses
      <3> QED
        BY <1>1, <3>1, PutAside DEF Messages
    <2>2. CASE Others(m.rs) = <<>>
      <3>1. UNCHANGED stash
        BY <2>2 DEF KeepResponses
      <3>2. Silent(m)
        BY <1>1, <2>2 DEF Silent, OthersIn, RequestsIn
      <3> QED
        BY <1>1, <3>1, <3>2, SilentTake, LinkParts DEF Messages
    <2> QED
      BY <2>1, <2>2
  <1>3. Sessions'
    BY LinkParts, SessionsStay DEF KeepResponses, Sessions, outsideVars
  <1>4. QuietStash'
    BY DEF KeepResponses, QuietStash, Connected
  <1> QED
    BY <1>2, <1>3, <1>4, LinkPartsPrime

(* The stream carries neither.                                             *)
LEMMA LinkUnchanged ==
  ASSUME LinkTypes, QuietStash, UNCHANGED <<connectionVars, fresh>>
  PROVE  LinkTypes' /\ QuietStash' /\ SameTraffic
  <1>1. UNCHANGED <<mail, stash>>
    BY DEF connectionVars
  <1>2. SameTraffic
    BY <1>1, DueIs, DueIsPrime, AskedIsPrime DEF SameTraffic, Asked
  <1>3. Sessions'
    BY LinkParts, SessionsStay DEF connectionVars, Sessions
  <1>4. QuietStash'
    BY QuietStays DEF connectionVars
  <1> QED
    BY <1>1, <1>2, <1>3, <1>4, LinkParts, LinkPartsPrime DEF Messages

(* The stream of values moves no requests and no other responses.          *)
LEMMA StreamStepMoves ==
  ASSUME LinkTypes, QuietStash, NEW w, StreamStep(w)
  PROVE  LinkTypes' /\ QuietStash' /\ SameTraffic
  BY LinkUnchanged DEF StreamStep, outsideVars

(* A value comes as messages with rows only.                               *)
LEMMA NodeChangesMoves ==
  ASSUME LinkTypes, QuietStash, TableTypes, NodeChanges
  PROVE  LinkTypes' /\ QuietStash' /\ SameTraffic
  <1> DEFINE n == Cardinality(sids)
             news == [i \in 1..n |-> Responses(ValueRows(version + 1)[i])]
             st == stash[Me]
             ml == mail[Me]
             held == st \o ml
  <1>1. n \in Nat /\ \A i \in 1..n : ValueRows(version + 1)[i] \in Seq(RowResponse)
    BY ValueTypes DEF NodeChanges, NodeValue
  <1>2. \A i \in 1..n : Responses(ValueRows(version + 1)[i]) \in LinkMessage
                        /\ Silent(Responses(ValueRows(version + 1)[i]))
    BY <1>1, RowsSilent
  <1>3. news \in Seq(LinkMessage) /\ \A i \in 1..Len(news) : Silent(news[i])
    <2> HIDE DEF n
    <2> QED
      BY <1>1, <1>2
  <1>4. st \in Seq(LinkMessage) /\ ml \in Seq(LinkMessage) /\ held \in Seq(LinkMessage)
    BY HeldOfMe
  <1>5. mail' = [mail EXCEPT ![Me] = @ \o news] /\ UNCHANGED stash
    BY DEF NodeChanges
  <1> HIDE DEF news, st, ml
  <1>6. ml \o news \in Seq(LinkMessage)
    BY <1>3, <1>4
  <1>7. mail' \in [Name -> Seq(LinkMessage)] /\ mail'[Me] = ml \o news /\ stash'[Me] = st
    BY <1>5, <1>6, OnlyMe DEF LinkTypes, ml, st
  <1>8. st \o (ml \o news) = held \o news
    BY <1>3, <1>4
  <1> HIDE DEF held
  <1>9. Due(held \o news) = Due(held) /\ Pending(held \o news) = Pending(held)
    BY <1>3, <1>4, SilentMessages
  <1>10. SameTraffic
    BY <1>7, <1>8, <1>9, DueIs, DueIsPrime, AskedIsPrime DEF SameTraffic, Asked, held, st, ml
  <1>11. Sessions'
    BY LinkParts, SessionsStay DEF NodeChanges, Sessions, outsideVars
  <1>12. QuietStash'
    BY QuietStays DEF NodeChanges
  <1> QED
    BY <1>5, <1>7, <1>10, <1>11, <1>12, LinkParts, LinkPartsPrime DEF Messages

(* Requests come last of those that wait.                                  *)
LEMMA ClientSendsMoves ==
  ASSUME LinkTypes, QuietStash, NEW reqs \in Seq(Request), ClientSends(reqs)
  PROVE  LinkTypes' /\ QuietStash' /\ OthersDue' = OthersDue /\ Asked' = Asked \o reqs
  <1> DEFINE m == Requests(reqs)
  <1>1. m \in LinkMessage /\ OthersIn(m) = <<>> /\ RequestsIn(m) = reqs
    BY DEF Requests, LinkMessage, OthersIn, RequestsIn
  <1>2. Send(Me, m) /\ UNCHANGED stash
    BY DEF ClientSends
  <1> HIDE DEF m
  <1>3. /\ mail' \in [Name -> Seq(LinkMessage)] /\ OthersDue' = OthersDue \o <<>>
        /\ Asked' = Asked \o reqs
    BY <1>1, <1>2, SendTraffic
  <1>4. OthersDue \o <<>> = OthersDue
    <2> DEFINE a == OthersDue
    <2>1. a \in Seq(OtherResponse)
      BY HeldOfMe
    <2> HIDE DEF a
    <2>2. a \o <<>> = a
      BY <2>1
    <2> QED
      BY <2>2 DEF a
  <1>5. Sessions'
    BY LinkParts, SessionsStay DEF ClientSends, Sessions
  <1>6. QuietStash'
    BY QuietStays DEF ClientSends
  <1> QED
    BY <1>2, <1>3, <1>4, <1>5, <1>6, LinkParts, LinkPartsPrime DEF Messages

(* So do the answers of the node.                                          *)
LEMMA NodeAnswersMoves ==
  ASSUME LinkTypes, QuietStash, NodeAnswer \in Seq(Response), NodeAnswers
  PROVE  LinkTypes' /\ QuietStash' /\ Asked' = Asked
         /\ OthersDue' = OthersDue \o Others(NodeAnswer)
  <1> DEFINE rs == NodeAnswer
             m == Responses(rs)
  <1>1. rs \in Seq(Response)
    OBVIOUS
  <1>2. Send(Me, m) /\ UNCHANGED stash
    BY DEF NodeAnswers
  <1> HIDE DEF rs
  <1>3. m \in LinkMessage /\ OthersIn(m) = Others(rs) /\ RequestsIn(m) = <<>>
    BY <1>1 DEF Responses, LinkMessage, OthersIn, RequestsIn
  <1> HIDE DEF m
  <1>4. /\ mail' \in [Name -> Seq(LinkMessage)] /\ OthersDue' = OthersDue \o Others(rs)
        /\ Asked' = Asked \o <<>>
    BY <1>2, <1>3, SendTraffic
  <1>5. Asked \o <<>> = Asked
    <2> DEFINE a == Asked
    <2>1. a \in Seq(Request)
      BY HeldOfMe
    <2> HIDE DEF a
    <2>2. a \o <<>> = a
      BY <2>1
    <2> QED
      BY <2>2 DEF a
  <1>6. Sessions'
    BY LinkParts, SessionsStay DEF NodeAnswers, Sessions, outsideVars
  <1>7. QuietStash'
    BY QuietStays DEF NodeAnswers
  <1> QED
    BY <1>2, <1>4, <1>5, <1>6, <1>7, LinkParts, LinkPartsPrime DEF Messages, rs

(* A connected link has put nothing aside: the message at the head of its  *)
(* mailbox holds the first of all that waits.                              *)
LEMMA HeadTraffic ==
  ASSUME LinkTypes, QuietStash, Connected(Me), mail[Me] # <<>>, Take(Me), UNCHANGED stash
  PROVE  /\ mail' \in [Name -> Seq(LinkMessage)]
         /\ OthersDue = OthersIn(Head(mail[Me])) \o OthersDue'
         /\ Asked = RequestsIn(Head(mail[Me])) \o Asked'
         /\ OthersDue' \in Seq(OtherResponse) /\ Asked' \in Seq(Request)
  <1> DEFINE ml == mail[Me]
             h == Head(ml)
             tl == Tail(ml)
             none == <<>>
  <1>1. stash[Me] = none /\ none \in Seq(LinkMessage) /\ ml \in Seq(LinkMessage) /\ ml # <<>>
    BY HeldOfMe DEF QuietStash
  <1>2. mail'[Me] = tl /\ stash'[Me] = none
    BY <1>1, OnlyMe DEF Take, LinkTypes
  <1>3. mail' \in [Name -> Seq(LinkMessage)]
    BY <1>1, OnlyMe DEF Take, LinkTypes
  <1> HIDE DEF ml, none
  <1>4. /\ h \in LinkMessage /\ tl \in Seq(LinkMessage)
        /\ Due(none \o ml) = Due(none) \o (OthersIn(h) \o Due(tl))
        /\ Pending(none \o ml) = Pending(none) \o (RequestsIn(h) \o Pending(tl))
    BY <1>1, HeldSplit
  <1> HIDE DEF h, tl
  <1>5. none \o tl = tl
    BY <1>4 DEF none
  <1>6. Due(none) = <<>> /\ Pending(none) = <<>>
    BY HeldNone DEF none
  <1>7. /\ Due(tl) \in Seq(OtherResponse) /\ Pending(tl) \in Seq(Request)
        /\ OthersIn(h) \in Seq(OtherResponse) /\ RequestsIn(h) \in Seq(Request)
    BY <1>4, HeldTypes, InTypes
  <1>8. <<>> \o (OthersIn(h) \o Due(tl)) = OthersIn(h) \o Due(tl)
        /\ <<>> \o (RequestsIn(h) \o Pending(tl)) = RequestsIn(h) \o Pending(tl)
    <2> DEFINE a == OthersIn(h)
               b == Due(tl)
               c == RequestsIn(h)
               d == Pending(tl)
    <2>1. a \in Seq(OtherResponse) /\ b \in Seq(OtherResponse) /\ c \in Seq(Request) /\ d \in Seq(Request)
      BY <1>7
    <2> HIDE DEF a, b, c, d
    <2>2. <<>> \o (a \o b) = a \o b /\ <<>> \o (c \o d) = c \o d
      BY <2>1
    <2> QED
      BY <2>2 DEF a, b, c, d
  <1>9. OthersDue = OthersIn(h) \o Due(tl) /\ Asked = RequestsIn(h) \o Pending(tl)
    BY <1>1, <1>4, <1>6, <1>8, DueIs DEF Asked, ml
  <1>10. OthersDue' = Due(tl) /\ Asked' = Pending(tl)
    BY <1>2, <1>5, DueIsPrime, AskedIsPrime
  <1> QED
    BY <1>3, <1>7, <1>9, <1>10 DEF h, ml

(* Handling a message takes exactly its requests off the link's mail.      *)
LEMMA HandleRequestsMoves ==
  ASSUME LinkTypes, QuietStash, HandleRequests
  PROVE  /\ LinkTypes' /\ QuietStash' /\ OthersDue' = OthersDue
         /\ Head(mail[Me]).reqs \in Seq(Request) /\ Asked' \in Seq(Request)
         /\ Asked = Head(mail[Me]).reqs \o Asked'
  <1> DEFINE m == Head(mail[Me])
  <1>1. mail[Me] # <<>> /\ Take(Me) /\ Connected(Me) /\ m.kind = "Requests" /\ UNCHANGED stash
    BY DEF HandleRequests, Holds
  <1>2. m.reqs \in Seq(Request)
    BY <1>1, HeadTypes
  <1>3. OthersIn(m) = <<>> /\ RequestsIn(m) = m.reqs
    BY <1>1 DEF OthersIn, RequestsIn
  <1>4. /\ mail' \in [Name -> Seq(LinkMessage)]
        /\ OthersDue = OthersIn(m) \o OthersDue'
        /\ Asked = RequestsIn(m) \o Asked'
        /\ OthersDue' \in Seq(OtherResponse) /\ Asked' \in Seq(Request)
    BY <1>1, HeadTraffic
  <1>5. OthersDue' = OthersDue
    <2> DEFINE a == OthersDue'
    <2>1. a \in Seq(OtherResponse)
      BY <1>4
    <2> HIDE DEF a
    <2>2. <<>> \o a = a
      BY <2>1
    <2> QED
      BY <1>3, <1>4, <2>2 DEF a
  <1>6. Sessions'
    BY LinkParts, SessionsStay DEF HandleRequests, Sessions, outsideVars
  <1>7. QuietStash'
    BY QuietStays DEF HandleRequests
  <1> QED
    BY <1>1, <1>2, <1>3, <1>4, <1>5, <1>6, <1>7, LinkParts, LinkPartsPrime DEF Messages

(* Handling responses takes exactly these off the link's mail.             *)
LEMMA HandleResponsesMoves ==
  ASSUME LinkTypes, QuietStash, HandleResponses
  PROVE  /\ LinkTypes' /\ QuietStash' /\ Asked' = Asked
         /\ Head(mail[Me]).rs \in Seq(Response) /\ OthersDue' \in Seq(OtherResponse)
         /\ OthersDue = Others(Head(mail[Me]).rs) \o OthersDue'
  <1> DEFINE m == Head(mail[Me])
  <1>1. mail[Me] # <<>> /\ Take(Me) /\ Connected(Me) /\ m.kind = "Responses" /\ UNCHANGED stash
    BY DEF HandleResponses, Holds
  <1>2. m.rs \in Seq(Response)
    BY <1>1, HeadTypes
  <1>3. OthersIn(m) = Others(m.rs) /\ RequestsIn(m) = <<>>
    BY <1>1 DEF OthersIn, RequestsIn
  <1>4. /\ mail' \in [Name -> Seq(LinkMessage)]
        /\ OthersDue = OthersIn(m) \o OthersDue'
        /\ Asked = RequestsIn(m) \o Asked'
        /\ OthersDue' \in Seq(OtherResponse) /\ Asked' \in Seq(Request)
    BY <1>1, HeadTraffic
  <1>5. Asked' = Asked
    <2> DEFINE a == Asked'
    <2>1. a \in Seq(Request)
      BY <1>4
    <2> HIDE DEF a
    <2>2. <<>> \o a = a
      BY <2>1
    <2> QED
      BY <1>3, <1>4, <2>2 DEF a
  <1>6. Sessions'
    BY LinkParts, SessionsStay DEF HandleResponses, Sessions, outsideVars
  <1>7. QuietStash'
    BY QuietStays DEF HandleResponses
  <1> QED
    BY <1>1, <1>2, <1>3, <1>4, <1>5, <1>6, <1>7, LinkParts, LinkPartsPrime DEF Messages

(*------------------------ types of tables and streams --------------------*)

(* The node's state and its state after the mailbox are states.            *)
LEMMA NodeNowType ==
  ASSUME TableTypes
  PROVE  NodeNow \in NodeState /\ FlattenSeq(nodeBox) \in Seq(Request) /\ AfterBox \in NodeState
  <1>1. NodeNow \in NodeState
    BY DEF NodeNow, NodeState, TableTypes, NodeTypeOK
  <1>2. FlattenSeq(nodeBox) \in Seq(Request)
    BY FlatType DEF TableTypes, NodeTypeOK
  <1> QED
    BY <1>1, <1>2, BoxFold, NodeAfterType

(* What the node says to the first envelope.                               *)
LEMMA AnswerType ==
  ASSUME TableTypes, nodeBox # <<>>
  PROVE  /\ Head(nodeBox) \in Seq(Request) /\ Tail(nodeBox) \in Seq(Seq(Request))
         /\ HandledAll(Head(nodeBox)) = NodeAfter(NodeNow, Head(nodeBox))
         /\ HandledAll(Head(nodeBox)) \in NodeState
         /\ NodeAnswer \in Seq(Response)
  <1> DEFINE S == Seq(Request)
  <1>1. nodeBox \in Seq(S)
    BY DEF TableTypes, NodeTypeOK
  <1> HIDE DEF S
  <1>2. Head(nodeBox) \in S /\ Tail(nodeBox) \in Seq(S)
    BY <1>1
  <1>3. HandledAll(Head(nodeBox)) = NodeAfter(NodeNow, Head(nodeBox))
    BY NodeFold
  <1>4. NodeAfter(NodeNow, Head(nodeBox)) \in NodeState
    BY <1>2, NodeNowType, NodeAfterType DEF S
  <1> QED
    BY <1>2, <1>3, <1>4 DEF NodeAnswer, NodeState, S

(* A step outside the tables keeps their types.                            *)
LEMMA TablesUnchanged ==
  ASSUME TableTypes, UNCHANGED <<nodeVars, behaviorVars, client, handed, overtaken>>
  PROVE  TableTypes'
  BY DEF TableTypes, NodeTypeOK, nodeVars, behaviorVars

(* The tables of the link are of its own requests.                         *)
LEMMA AcceptedTypes ==
  ASSUME TableTypes, NEW reqs \in Seq(Request)
  PROVE  /\ Kept(reqs, Resolved) \in Seq(Request)
         /\ [byRid |-> byRid, bySid |-> bySid] \in Targets
         /\ FoldLeft(Remembered, [byRid |-> byRid, bySid |-> bySid], Kept(reqs, Resolved))
            = LinkAfter([byRid |-> byRid, bySid |-> bySid], Kept(reqs, Resolved))
         /\ LinkAfter([byRid |-> byRid, bySid |-> bySid], Kept(reqs, Resolved)) \in Targets
  <1>1. Kept(reqs, Resolved) \in Seq(Request)
    BY KeptType
  <1>2. [byRid |-> byRid, bySid |-> bySid] \in Targets
    BY DEF Targets, TableTypes
  <1> QED
    BY <1>1, <1>2, LinkFold, LinkAfterType

(* Types of the tables after requests were handled.                        *)
LEMMA HandleRequestsTables ==
  ASSUME LinkTypes, TableTypes, QuietStash, HandleRequests
  PROVE  TableTypes'
  <1> DEFINE accepted == Kept(Head(mail[Me]).reqs, Resolved)
             more == IF accepted = <<>> THEN <<>> ELSE <<accepted>>
             after == FoldLeft(Remembered, [byRid |-> byRid, bySid |-> bySid], accepted)
             S == Seq(Request)
  <1>1. byRid' = after.byRid /\ bySid' = after.bySid /\ nodeBox' = nodeBox \o more
    BY DEF HandleRequests
  <1>2. Head(mail[Me]).reqs \in Seq(Request)
    BY HandleRequestsMoves
  <1>3. accepted \in S /\ after \in Targets
    BY <1>2, AcceptedTypes
  <1>4. nodeBox \in Seq(S)
    BY DEF TableTypes, NodeTypeOK
  <1> HIDE DEF S, accepted, after
  <1>5. nodeBox' \in Seq(S)
    BY <1>1, <1>3, <1>4
  <1>6. byRid' \in SUBSET Rid /\ bySid' \in [Sid -> QoS \cup {Nil}]
    BY <1>1, <1>3 DEF Targets
  <1> QED
    BY <1>5, <1>6 DEF S, HandleRequests, TableTypes, NodeTypeOK, outsideVars

(* Types of the tables after responses were handled.                       *)
LEMMA HandleResponsesTables ==
  ASSUME LinkTypes, TableTypes, QuietStash, HandleResponses
  PROVE  TableTypes'
  <1> DEFINE rs == Head(mail[Me]).rs
  <1>1. rs \in Seq(Response)
    BY HandleResponsesMoves
  <1>2. Len(Others(rs)) \in Nat
    <2>1. Others(rs) \in Seq(Response)
      BY <1>1, KeptType DEF Others
    <2> QED
      BY <2>1
  <1>3. byRid' \subseteq byRid /\ bySid' = bySid /\ handed' = handed + Len(Others(rs))
        /\ UNCHANGED <<nodeVars, client, overtaken>>
    BY DEF HandleResponses, Cleanup, outsideVars
  <1> HIDE DEF rs
  <1> QED
    BY <1>2, <1>3 DEF TableTypes, NodeTypeOK, nodeVars

(* Notifications are of SIDs.                                              *)
LEMMA SidsTypes ==
  ASSUME NEW x \in Seq(Notification)
  PROVE  SidsOf(x) \subseteq Sid
  <1>1. \A i \in 1..Len(x) : x[i] \in Notification
    BY ElementOfSeq
  <1> QED
    BY <1>1 DEF SidsOf, Notification

(* Types of the tables after responses were kept.                          *)
LEMMA KeepResponsesTables ==
  ASSUME LinkTypes, TableTypes, KeepResponses
  PROVE  TableTypes'
  <1> DEFINE rs == Head(mail[Me]).rs
             durable == DurableRows(Notifications(rs))
  <1>1. rs \in Seq(Response)
    BY HeadTypes DEF KeepResponses, Holds
  <1>2. durable \in Seq(Notification)
    BY <1>1, NotificationTypes
  <1>3. /\ byRid' \subseteq byRid /\ bySid' = bySid /\ UNCHANGED <<nodeVars, client, handed>>
        /\ overtaken' \subseteq overtaken \cup SidsOf(durable)
    BY DEF KeepResponses, Cleanup, outsideVars
  <1> HIDE DEF durable
  <1>4. SidsOf(durable) \subseteq Sid
    BY <1>2, SidsTypes
  <1> QED
    BY <1>3, <1>4 DEF TableTypes, NodeTypeOK, nodeVars

(* Types of the tables after the node answered.                            *)
LEMMA NodeAnswersTables ==
  ASSUME TableTypes, NodeAnswers
  PROVE  TableTypes'
  <1>1. nodeBox # <<>>
    BY DEF NodeAnswers, NodeReceives
  <1> DEFINE after == HandledAll(Head(nodeBox))
  <1>2. /\ rids' = after.rids /\ sids' = after.sids /\ stamp' = after.stamp
        /\ nodeBox' = Tail(nodeBox) /\ UNCHANGED version
    BY DEF NodeAnswers, NodeReceives
  <1>3. after \in NodeState /\ Tail(nodeBox) \in Seq(Seq(Request))
    BY <1>1, AnswerType
  <1> HIDE DEF after
  <1>4. NodeTypeOK'
    BY <1>2, <1>3 DEF NodeTypeOK, NodeState, TableTypes
  <1> QED
    BY <1>4 DEF TableTypes, NodeAnswers, behaviorVars, outsideVars

(* Types of the tables after the node's value changed.                     *)
LEMMA NodeChangesTables ==
  ASSUME TableTypes, NodeChanges
  PROVE  TableTypes'
  <1>1. NodeTypeOK'
    BY UpdatesAssumption DEF TableTypes, NodeChanges, NodeValue, NodeTypeOK
  <1> QED
    BY <1>1 DEF TableTypes, NodeChanges, behaviorVars, outsideVars

(* What a client sends: one request, or two of one message.                *)
LEMMA ClientSendsTables ==
  ASSUME TableTypes, NEW reqs, ClientSends(reqs), FoldLeft(HavingAsked, client, reqs) \in ClientState
  PROVE  TableTypes'
  <1>1. client' \in ClientState
    BY DEF ClientSends
  <1> QED
    BY <1>1 DEF TableTypes, NodeTypeOK, ClientSends, nodeVars, behaviorVars

(* A client asks one request, or one and another one after it.             *)
LEMMA OneIsAsked ==
  ASSUME TableTypes, NEW a \in Asks(client)
  PROVE  /\ <<a>> \in Seq(Request) /\ a \in Request
         /\ HavingAsked(client, a) \in ClientState
         /\ FoldLeft(HavingAsked, client, <<a>>) = HavingAsked(client, a)
         /\ \A b \in Asks(HavingAsked(client, a)) :
              /\ <<a, b>> \in Seq(Request) /\ b \in Request
              /\ FoldLeft(HavingAsked, client, <<a, b>>) = HavingAsked(HavingAsked(client, a), b)
              /\ HavingAsked(HavingAsked(client, a), b) \in ClientState
  <1>1. client \in ClientState
    BY DEF TableTypes
  <1>2. a \in Request /\ HavingAsked(client, a) \in ClientState
    BY <1>1, AsksTypes
  <1>3. ASSUME NEW b \in Asks(HavingAsked(client, a))
        PROVE  b \in Request /\ HavingAsked(HavingAsked(client, a), b) \in ClientState
    BY <1>2, AsksTypes
  <1>4. /\ <<a>> \in Seq(Request)
        /\ FoldLeft(HavingAsked, client, <<a>>) = HavingAsked(client, a)
    <2>1. FoldLeft(HavingAsked, client, <<a>>) = HavingAsked(client, a)
      BY <1>2, AskedOnce
    <2>2. <<a>> \in Seq(Request)
      BY <1>2
    <2> QED
      BY <2>1, <2>2
  <1>5. ASSUME NEW b \in Asks(HavingAsked(client, a))
        PROVE  /\ <<a, b>> \in Seq(Request)
               /\ FoldLeft(HavingAsked, client, <<a, b>>) = HavingAsked(HavingAsked(client, a), b)
    <2>1. FoldLeft(HavingAsked, client, <<a, b>>) = HavingAsked(HavingAsked(client, a), b)
      BY <1>2, <1>3, AskedTwice
    <2>2. <<a, b>> \in Seq(Request)
      BY <1>2, <1>3
    <2> QED
      BY <2>1, <2>2
  <1> QED
    BY <1>2, <1>3, <1>4, <1>5

(* The stream, whatever happens to it.                                     *)
LEMMA QueuesAre == StreamTypes <=>
  /\ queue \in Queues
  /\ offered \in [Socket -> Seq(Notification)] /\ emitting \in [Socket -> Seq(Notification)]
  /\ inPulled \in [Socket -> BOOLEAN] /\ outPulled \in [Socket -> BOOLEAN]
  /\ \A w \in Socket : outPulled[w] => emitting[w] = <<>>
  /\ running \subseteq Socket
  /\ streamTo \in running \cup {NoSocket}
  /\ last \in [Sid -> 0..MaxVersion]
  BY RequesterAssumption DEF StreamTypes, ChannelTypeOK, Queues

(* The types of the stream after a step, part by part.                     *)
LEMMA QueuesArePrime == StreamTypes' <=>
  /\ queue' \in Queues
  /\ offered' \in [Socket -> Seq(Notification)] /\ emitting' \in [Socket -> Seq(Notification)]
  /\ inPulled' \in [Socket -> BOOLEAN] /\ outPulled' \in [Socket -> BOOLEAN]
  /\ \A w \in Socket : outPulled'[w] => emitting'[w] = <<>>
  /\ running' \subseteq Socket
  /\ streamTo' \in running' \cup {NoSocket}
  /\ last' \in [Sid -> 0..MaxVersion]
  BY RequesterAssumption DEF StreamTypes, ChannelTypeOK, Queues

(* A step outside the stream keeps its types.                              *)
LEMMA StreamUnchanged ==
  ASSUME StreamTypes, UNCHANGED channelVars
  PROVE  StreamTypes'
  BY QueuesAre, QueuesArePrime DEF channelVars

(* Types of the streams after a batch was offered to one.                  *)
LEMMA OfferTypes ==
  ASSUME StreamTypes, NEW ms \in Seq(Notification), Offer(ms)
  PROVE  StreamTypes'
  <1>1. offered \in [Socket -> Seq(Notification)] /\ (streamTo # NoSocket => streamTo \in Socket)
    BY QueuesAre
  <1>2. offered' \in [Socket -> Seq(Notification)]
    <2>1. CASE streamTo = NoSocket
      BY <1>1, <2>1 DEF Offer
    <2>2. CASE streamTo # NoSocket
      <3>1. offered[streamTo] \in Seq(Notification)
        BY <1>1, <2>2
      <3>2. offered[streamTo] \o ms \in Seq(Notification)
        BY <3>1
      <3>3. offered' = [offered EXCEPT ![streamTo] = offered[streamTo] \o ms]
        BY <2>2 DEF Offer
      <3> QED
        BY <1>1, <3>2, <3>3
    <2> QED
      BY <2>1, <2>2
  <1> QED
    BY <1>2, QueuesAre, QueuesArePrime DEF Offer

(* Types of the stream after the stage took a batch itself.                *)
LEMMA PutDirectlyTypes ==
  ASSUME StreamTypes, NEW ms \in Seq(Notification), PutDirectly(ms)
  PROVE  StreamTypes'
  <1>1. queue' \in Queues
    BY QueuesAre, PutAllTypes DEF PutDirectly
  <1> QED
    BY <1>1, QueuesAre, QueuesArePrime DEF PutDirectly

(* Types of the streams after one was started for a socket.                *)
LEMMA StartStreamTypes ==
  ASSUME StreamTypes, NEW w \in Socket, StartStream(w)
  PROVE  StreamTypes'
  <1>1. <<>> \in Seq(Notification)
    OBVIOUS
  <1>2. /\ offered' = [offered EXCEPT ![w] = <<>>] /\ emitting' = [emitting EXCEPT ![w] = <<>>]
        /\ inPulled' = [inPulled EXCEPT ![w] = TRUE] /\ outPulled' = [outPulled EXCEPT ![w] = TRUE]
        /\ running' = running \cup {w} /\ streamTo' = w /\ UNCHANGED <<queue, last>>
    BY DEF StartStream
  <1> QED
    BY <1>1, <1>2, QueuesAre, QueuesArePrime

(* Types of the streams after one ended.                                   *)
LEMMA StreamEndsTypes ==
  ASSUME StreamTypes, NEW w \in Socket, StreamEnds(w)
  PROVE  StreamTypes'
  <1>1. <<>> \in Seq(Notification)
    OBVIOUS
  <1>2. /\ offered' = [offered EXCEPT ![w] = <<>>] /\ emitting' = [emitting EXCEPT ![w] = <<>>]
        /\ inPulled' = [inPulled EXCEPT ![w] = FALSE] /\ outPulled' = [outPulled EXCEPT ![w] = FALSE]
        /\ running' = running \ {w} /\ UNCHANGED <<queue, last>>
        /\ streamTo' = IF streamTo = w THEN NoSocket ELSE streamTo
    BY DEF StreamEnds
  <1>3. streamTo' \in running' \cup {NoSocket}
    BY <1>2, QueuesAre
  <1> QED
    BY <1>1, <1>2, <1>3, QueuesAre, QueuesArePrime

(* The last versions handed over are versions.                             *)
LEMMA HandOverTypes ==
  ASSUME StreamTypes, NEW w, NEW m \in Notification, HandOver(w, m)
  PROVE  last' \in [Sid -> 0..MaxVersion]
  <1>1. m.sid \in Sid /\ m.ver \in 0..MaxVersion
    BY UpdatesAssumption DEF Notification
  <1> QED
    BY <1>1, QueuesAre DEF HandOver

(* Types of the streams after the stage of one was pulled.                 *)
LEMMA StagePullTypes ==
  ASSUME StreamTypes, NEW w \in Socket, StagePull(w)
  PROVE  StreamTypes'
  <1>0. /\ emitting[w] \in Seq(Notification) /\ ~outPulled[w]
        /\ UNCHANGED <<queue, offered, running, streamTo>>
    BY QueuesAre DEF StagePull
  <1>1. CASE emitting[w] # <<>>
    <2>1. Head(emitting[w]) \in Notification /\ Tail(emitting[w]) \in Seq(Notification)
      BY <1>0, <1>1
    <2>2. /\ HandOver(w, Head(emitting[w])) /\ emitting' = [emitting EXCEPT ![w] = Tail(emitting[w])]
          /\ UNCHANGED <<inPulled, outPulled>>
      BY <1>1 DEF StagePull
    <2>3. last' \in [Sid -> 0..MaxVersion]
      BY <2>1, <2>2, HandOverTypes
    <2> QED
      BY <1>0, <2>1, <2>2, <2>3, QueuesAre, QueuesArePrime
  <1>2. CASE emitting[w] = <<>>
    BY <1>0, <1>2, QueuesAre, QueuesArePrime DEF StagePull
  <1> QED
    BY <1>1, <1>2

(* Empty queues are queues.                                                *)
LEMMA NoQueuesTypes == NoQueues \in Queues
  BY ChannelAssumption DEF NoQueues, Queues

(* Types of the streams after the stage of one took a batch.               *)
LEMMA StagePushTypes ==
  ASSUME StreamTypes, NEW w \in Socket, NEW k, StagePush(w, k)
  PROVE  StreamTypes'
  <1> DEFINE x == offered[w]
             batch == SubSeq(x, 1, k)
             rest == SubSeq(x, k + 1, Len(x))
             q == PutAll(queue, batch)
             flat == Flattened(q)
  <1>1. /\ k \in 1..Len(x) /\ offered' = [offered EXCEPT ![w] = rest] /\ UNCHANGED <<running, streamTo>>
        /\ IF outPulled[w]
           THEN /\ HandOver(w, Head(flat))
                /\ emitting' = [emitting EXCEPT ![w] = Tail(flat)]
                /\ queue' = NoQueues
                /\ outPulled' = [outPulled EXCEPT ![w] = FALSE]
                /\ UNCHANGED inPulled
           ELSE /\ queue' = q
                /\ inPulled' = [inPulled EXCEPT ![w] = FALSE]
                /\ UNCHANGED <<last, emitting, outPulled>>
    BY DEF StagePush
  <1>2. x \in Seq(Notification) /\ queue \in Queues
    BY QueuesAre
  <1>3. batch \in Seq(Notification) /\ rest \in Seq(Notification) /\ Len(batch) = k
    <2> HIDE DEF x
    <2> QED
      BY <1>1, <1>2
  <1>4. batch # <<>>
    <2> HIDE DEF batch
    <2> QED
      BY <1>1, <1>3
  <1> HIDE DEF batch, rest
  <1>5. q \in Queues /\ \E s \in Sid : q[s] # <<>>
    BY <1>2, <1>3, <1>4, PutAllTypes, PutAllLeaves
  <1> HIDE DEF q
  <1>6. flat \in Seq(Notification) /\ flat # <<>>
    BY <1>5, FlattenedTypes
  <1> HIDE DEF flat
  <1>7. Head(flat) \in Notification /\ Tail(flat) \in Seq(Notification)
    BY <1>6
  <1>8. offered' \in [Socket -> Seq(Notification)]
    BY <1>1, <1>3, QueuesAre
  <1>9. CASE outPulled[w]
    <2>1. last' \in [Sid -> 0..MaxVersion]
      BY <1>1, <1>7, <1>9, HandOverTypes
    <2> QED
      BY <1>1, <1>7, <1>8, <1>9, <2>1, NoQueuesTypes, QueuesAre, QueuesArePrime
  <1>10. CASE ~outPulled[w]
    BY <1>1, <1>5, <1>8, <1>10, QueuesAre, QueuesArePrime
  <1> QED
    BY <1>9, <1>10

(* Types of the streams after any step of one.                             *)
LEMMA StreamStepTypes ==
  ASSUME StreamTypes, NEW w \in Socket, StreamStep(w)
  PROVE  StreamTypes'
  BY StagePushTypes, StagePullTypes, StreamEndsTypes DEF StreamStep, StreamPushes

(* Types of the tables after any step of a stream.                         *)
LEMMA StreamStepTables ==
  ASSUME TableTypes, StreamTypes, NEW w \in Socket, StreamStep(w)
  PROVE  TableTypes'
  <1>1. UNCHANGED <<nodeVars, behaviorVars, client, handed>>
    BY DEF StreamStep, outsideVars
  <1>2. overtaken' \subseteq Sid
    <2>1. ASSUME NEW k \in 1..Len(offered[w]), StagePush(w, k),
                 overtaken' = overtaken \cup
                   IF w = streamTo THEN {} ELSE SidsOf(SubSeq(offered[w], 1, k))
          PROVE  overtaken' \subseteq Sid
      <3> DEFINE x == offered[w]
      <3>1. x \in Seq(Notification) /\ k \in 1..Len(x)
        BY QueuesAre
      <3> HIDE DEF x
      <3>2. SubSeq(x, 1, k) \in Seq(Notification)
        BY <3>1
      <3>3. SidsOf(SubSeq(x, 1, k)) \subseteq Sid
        BY <3>2, SidsTypes
      <3> QED
        BY <2>1, <3>3 DEF x, TableTypes
    <2>2. CASE UNCHANGED overtaken
      BY <2>2 DEF TableTypes
    <2> QED
      BY <2>1, <2>2 DEF StreamStep, StreamPushes
  <1> QED
    BY <1>1, <1>2 DEF TableTypes, NodeTypeOK, nodeVars, behaviorVars

(*----------------------------- type correctness --------------------------*)

(* A step that changes nothing keeps all types.                            *)
LEMMA TypesUnchanged ==
  ASSUME Types, UNCHANGED vars
  PROVE  Types' /\ SameTraffic
  <1>1. UNCHANGED <<connectionVars, fresh>> /\ UNCHANGED channelVars
        /\ UNCHANGED <<nodeVars, behaviorVars, client, handed, overtaken>>
    BY DEF vars, outsideVars
  <1>2. LinkTypes' /\ QuietStash' /\ SameTraffic
    BY <1>1, LinkUnchanged DEF Types
  <1>3. TableTypes' /\ StreamTypes'
    BY <1>1, TablesUnchanged, StreamUnchanged DEF Types
  <1> QED
    BY <1>2, <1>3 DEF Types

(* Every step keeps all types.                                             *)
LEMMA TypesStep ==
  ASSUME Types, Next
  PROVE  Types'
  <1>0. LinkTypes /\ TableTypes /\ StreamTypes /\ QuietStash
    BY DEF Types
  <1>1. ASSUME NEW w \in Socket, OpenSocket(w) PROVE Types'
    <2>1. UNCHANGED channelVars /\ UNCHANGED <<nodeVars, behaviorVars, client, handed, overtaken>>
      BY <1>1 DEF OpenSocket
    <2> QED
      BY <1>0, <1>1, <2>1, OpenSocketMoves, TablesUnchanged, StreamUnchanged DEF Types
  <1>2. ASSUME NEW w \in Socket, CloseSocket(w) PROVE Types'
    <2>1. UNCHANGED channelVars /\ UNCHANGED <<nodeVars, behaviorVars, client, handed, overtaken>>
      BY <1>2 DEF CloseSocket, outsideVars
    <2> QED
      BY <1>0, <1>2, <2>1, CloseSocketMoves, TablesUnchanged, StreamUnchanged DEF Types
  <1>3. ASSUME NEW reqs \in Seq(Request), ClientSends(reqs),
               FoldLeft(HavingAsked, client, reqs) \in ClientState
        PROVE  Types'
    <2>1. UNCHANGED channelVars
      BY <1>3 DEF ClientSends
    <2> QED
      BY <1>0, <1>3, <2>1, ClientSendsMoves, ClientSendsTables, StreamUnchanged DEF Types
  <1>4. ASSUME NodeAnswers PROVE Types'
    <2>1. UNCHANGED channelVars /\ nodeBox # <<>>
      BY <1>4 DEF NodeAnswers, NodeReceives
    <2>2. NodeAnswer \in Seq(Response)
      BY <1>0, <2>1, AnswerType
    <2> QED
      BY <1>0, <1>4, <2>1, <2>2, NodeAnswersMoves, NodeAnswersTables, StreamUnchanged DEF Types
  <1>5. ASSUME NodeChanges PROVE Types'
    <2>1. UNCHANGED channelVars
      BY <1>5 DEF NodeChanges
    <2> QED
      BY <1>0, <1>5, <2>1, NodeChangesMoves, NodeChangesTables, StreamUnchanged DEF Types
  <1>6. ASSUME LinkConnects PROVE Types'
    <2>1. UNCHANGED <<nodeVars, behaviorVars, client, handed, overtaken>>
          /\ StartStream(Head(mail[Me]).ws)
      BY <1>6 DEF LinkConnects, outsideVars
    <2>2. Head(mail[Me]).ws \in Socket
      BY <1>0, <1>6, HeadTypes DEF LinkConnects, ConnectToEndpoint, NewEndpoint, Holds
    <2> QED
      BY <1>0, <1>6, <2>1, <2>2, LinkConnectsMoves, TablesUnchanged, StartStreamTypes DEF Types
  <1>7. ASSUME LinkDisconnects PROVE Types'
    <2>1. UNCHANGED channelVars /\ UNCHANGED <<nodeVars, behaviorVars, client, handed, overtaken>>
      BY <1>7 DEF LinkDisconnects, outsideVars
    <2> QED
      BY <1>0, <1>7, <2>1, LinkDisconnectsMoves, TablesUnchanged, StreamUnchanged DEF Types
  <1>8. ASSUME HandleRequests PROVE Types'
    <2>1. UNCHANGED channelVars
      BY <1>8 DEF HandleRequests
    <2> QED
      BY <1>0, <1>8, <2>1, HandleRequestsMoves, HandleRequestsTables, StreamUnchanged DEF Types
  <1>9. ASSUME HandleResponses PROVE Types'
    <2>1. Offer(Notifications(Head(mail[Me]).rs))
      BY <1>9 DEF HandleResponses
    <2>2. Head(mail[Me]).rs \in Seq(Response)
      BY <1>0, <1>9, HandleResponsesMoves
    <2> QED
      BY <1>0, <1>9, <2>1, <2>2, HandleResponsesMoves, HandleResponsesTables, NotificationTypes,
         OfferTypes DEF Types
  <1>10. ASSUME KeepResponses PROVE Types'
    <2>1. PutDirectly(DurableRows(Notifications(Head(mail[Me]).rs)))
      BY <1>10 DEF KeepResponses
    <2>2. Head(mail[Me]).rs \in Seq(Response)
      BY <1>0, <1>10, HeadTypes DEF KeepResponses, Holds
    <2> QED
      BY <1>0, <1>10, <2>1, <2>2, KeepResponsesMoves, KeepResponsesTables, NotificationTypes,
         PutDirectlyTypes DEF Types
  <1>11. ASSUME KeepRequests PROVE Types'
    <2>1. UNCHANGED channelVars /\ UNCHANGED <<nodeVars, behaviorVars, client, handed, overtaken>>
      BY <1>11 DEF KeepRequests, outsideVars
    <2> QED
      BY <1>0, <1>11, <2>1, KeepRequestsMoves, TablesUnchanged, StreamUnchanged DEF Types
  <1>12. ASSUME NEW w \in Socket, StreamStep(w) PROVE Types'
    BY <1>0, <1>12, StreamStepMoves, StreamStepTables, StreamStepTypes DEF Types
  <1>13. ASSUME NEW a \in Asks(client),
                \/ ClientSends(<<a>>)
                \/ \E b \in Asks(HavingAsked(client, a)) : ClientSends(<<a, b>>)
         PROVE  Types'
    <2>1. \E reqs \in Seq(Request) :
            ClientSends(reqs) /\ FoldLeft(HavingAsked, client, reqs) \in ClientState
      <3>1. CASE ClientSends(<<a>>)
        BY <1>0, <3>1, OneIsAsked
      <3>2. ASSUME NEW b \in Asks(HavingAsked(client, a)), ClientSends(<<a, b>>)
            PROVE  \E reqs \in Seq(Request) :
                     ClientSends(reqs) /\ FoldLeft(HavingAsked, client, reqs) \in ClientState
        BY <1>0, <3>2, OneIsAsked
      <3> QED
        BY <1>13, <3>1, <3>2
    <2> QED
      BY <1>3, <2>1
  <1> QED
    BY <1>1, <1>2, <1>4, <1>5, <1>6, <1>7, <1>8, <1>9, <1>10, <1>11, <1>12, <1>13 DEF Next, LinkStep

(* All types hold at the start, when nothing is on its way.                *)
LEMMA InitTypes ==
  ASSUME Init
  PROVE  /\ Types /\ OthersDue = <<>> /\ Asked = <<>>
         /\ byRid = {} /\ client = [next |-> 1, sids |-> {}, lists |-> {}]
         /\ NodeNow = [rids |-> {}, sids |-> {}, version |-> 0, stamp |-> 0, out |-> <<>>]
         /\ Subscriptions = {} /\ AfterBox = NodeNow
  <1>1. stash[Me] = <<>> /\ mail[Me] = <<>>
    BY OnlyMe DEF Init, ConnectionInit
  <1>2. OthersDue = <<>> /\ Asked = <<>>
    <2>1. <<>> \o <<>> = <<>>
      OBVIOUS
    <2> QED
      BY <1>1, <2>1, DueIs, HeldNone DEF Asked
  <1>3. LinkTypes
    <2>1. <<>> \in Seq(LinkMessage)
      OBVIOUS
    <2> QED
      BY <2>1, OnlyMe DEF Init, ConnectionInit, LinkTypes, Connected
  <1>4. TableTypes
    <2>1. 1 \in 1..Cardinality(Rid) + 1
      BY RidCount
    <2>2. NodeTypeOK
      BY UpdatesAssumption DEF Init, NodeInit, NodeTypeOK
    <2> QED
      BY <2>1, <2>2 DEF Init, TableTypes, ClientState
  <1>5. StreamTypes
    <2>1. [s \in Sid |-> 0] \in [Sid -> 0..MaxVersion]
      BY UpdatesAssumption
    <2>2. <<>> \in Seq(Notification)
      OBVIOUS
    <2>3. /\ queue = NoQueues /\ last = [s \in Sid |-> 0] /\ running = {} /\ streamTo = NoSocket
          /\ offered = [w \in Socket |-> <<>>] /\ emitting = [w \in Socket |-> <<>>]
          /\ inPulled = [w \in Socket |-> FALSE] /\ outPulled = [w \in Socket |-> FALSE]
      BY RequesterAssumption DEF Init, ChannelInit
    <2> QED
      BY <2>1, <2>2, <2>3, NoQueuesTypes, QueuesAre
  <1>6. Subscriptions = {}
    BY DEF Init, Subscriptions
  <1>7. NodeNow = [rids |-> {}, sids |-> {}, version |-> 0, stamp |-> 0, out |-> <<>>]
    BY DEF Init, NodeInit, NodeNow
  <1>8. AfterBox = NodeNow
    <2>1. nodeBox = <<>>
      BY DEF Init, NodeInit
    <2> QED
      BY <2>1, BoxFold, FlatEmpty, NodeAfterNone
  <1> QED
    BY <1>1, <1>2, <1>3, <1>4, <1>5, <1>6, <1>7, <1>8 DEF Init, Types, QuietStash

(*------------------------- responses come in order -----------------------*)

(* Numbered sequences that follow one another are numbered.                *)
LEMMA NumberedConcat ==
  ASSUME NEW s \in Seq(OtherResponse), NEW t \in Seq(OtherResponse),
         NEW n \in Nat, NEW m \in Nat, NEW k \in Nat,
         Numbered(s, n), Len(s) = m - n, Numbered(t, m), Len(t) = k - m
  PROVE  Numbered(s \o t, n) /\ Len(s \o t) = k - n
  <1> DEFINE u == s \o t
  <1>1. /\ Len(u) = Len(s) + Len(t)
        /\ \A i \in 1..Len(s) : u[i] = s[i]
        /\ \A i \in 1..Len(t) : u[Len(s) + i] = t[i]
    BY SMTT(30)
  <1>2. Len(s) \in Nat /\ Len(t) \in Nat
    OBVIOUS
  <1> HIDE DEF u
  <1>3. ASSUME NEW i \in 1..Len(u) PROVE u[i].no = n + i
    <2>1. CASE i <= Len(s)
      <3>1. i \in 1..Len(s) /\ u[i] = s[i]
        BY <1>1, <1>2, <2>1
      <3>2. s[i].no = n + i
        BY <3>1 DEF Numbered
      <3> QED
        BY <3>1, <3>2
    <2>2. CASE i > Len(s)
      <3>1. i - Len(s) \in 1..Len(t) /\ Len(s) + (i - Len(s)) = i
        BY <1>1, <1>2, <2>2
      <3>2. u[i] = t[i - Len(s)]
        BY <1>1, <3>1
      <3>3. t[i - Len(s)].no = m + (i - Len(s))
        BY <3>1 DEF Numbered
      <3>4. m + (i - Len(s)) = n + i
        BY <1>1, <1>2
      <3> QED
        BY <3>2, <3>3, <3>4
    <2> QED
      BY <1>2, <2>1, <2>2
  <1>4. Len(u) = k - n
    BY <1>1, <1>2
  <1> QED
    BY <1>3, <1>4 DEF Numbered, u

(* What is left of a numbered sequence is numbered from there on.          *)
LEMMA NumberedRest ==
  ASSUME NEW s \in Seq(OtherResponse), NEW t \in Seq(OtherResponse),
         NEW n \in Nat, NEW k \in Nat,
         Numbered(s \o t, n), Len(s \o t) = k - n
  PROVE  Numbered(t, n + Len(s)) /\ Len(t) = k - (n + Len(s))
  <1> DEFINE u == s \o t
  <1>1. /\ Len(u) = Len(s) + Len(t)
        /\ \A i \in 1..Len(t) : u[Len(s) + i] = t[i]
    BY SMTT(30)
  <1>2. Len(s) \in Nat /\ Len(t) \in Nat /\ Numbered(u, n) /\ Len(u) = k - n
    OBVIOUS
  <1> HIDE DEF u
  <1>3. ASSUME NEW i \in 1..Len(t) PROVE t[i].no = (n + Len(s)) + i
    <2>1. Len(s) + i \in 1..Len(u) /\ u[Len(s) + i] = t[i]
      BY <1>1, <1>2
    <2>2. u[Len(s) + i].no = n + (Len(s) + i)
      BY <1>2, <2>1 DEF Numbered
    <2>3. n + (Len(s) + i) = (n + Len(s)) + i
      BY <1>2
    <2> QED
      BY <2>1, <2>2, <2>3
  <1> QED
    BY <1>1, <1>2, <1>3 DEF Numbered

OrderInv == Types /\ OthersConserved

(* OthersConserved in terms of one numbered sequence.                      *)
LEMMA ConservedIs == OthersConserved <=> Numbered(OthersDue, handed) /\ Len(OthersDue) = stamp - handed
  BY DEF OthersConserved, Numbered

(* The same after a step.                                                  *)
LEMMA ConservedIsPrime ==
  OthersConserved' <=> Numbered(OthersDue', handed') /\ Len(OthersDue') = stamp' - handed'
  BY DEF OthersConserved, Numbered

(* A step that moves no response and counts none keeps it.                 *)
LEMMA ConservedStays ==
  ASSUME OthersConserved, OthersDue' = OthersDue, UNCHANGED <<stamp, handed>>
  PROVE  OthersConserved'
  BY ConservedIs, ConservedIsPrime

(* What the node answers bears the next numbers.                           *)
LEMMA NodeAnswersConserve ==
  ASSUME OrderInv, NodeAnswers
  PROVE  OthersConserved'
  <1>1. nodeBox # <<>> /\ stamp' = HandledAll(Head(nodeBox)).stamp /\ handed' = handed
    BY DEF NodeAnswers, NodeReceives
  <1>2. /\ Head(nodeBox) \in Seq(Request)
        /\ HandledAll(Head(nodeBox)) = NodeAfter(NodeNow, Head(nodeBox))
        /\ HandledAll(Head(nodeBox)) \in NodeState /\ NodeAnswer \in Seq(Response)
    BY <1>1, AnswerType DEF OrderInv, Types
  <1>3. NodeNow \in NodeState /\ NodeNow.out = <<>> /\ NodeNow.stamp = stamp
    BY NodeNowType DEF NodeNow, OrderInv, Types
  <1> DEFINE w == NodeAfter(NodeNow, Head(nodeBox))
             new == Others(w.out)
             old == OthersDue
  <1>4. Numbered(new, NodeNow.stamp) /\ Len(new) = w.stamp - NodeNow.stamp
    BY <1>2, <1>3, NumberedOut
  <1>5. w.out = NodeAnswer /\ w.stamp = stamp' /\ w.stamp \in Nat
    BY <1>1, <1>2 DEF NodeAnswer, NodeState
  <1>6. OthersDue' = old \o new
    BY <1>2, <1>5, NodeAnswersMoves DEF OrderInv, Types
  <1>7. old \in Seq(OtherResponse) /\ new \in Seq(OtherResponse)
    <2>1. w.out \in Seq(Response) /\ OtherResponse \cap Response = OtherResponse
      BY <1>2, <1>5 DEF Response
    <2>2. Others(w.out) \in Seq(OtherResponse)
      BY <2>1, KeptType DEF Others
    <2> QED
      BY <2>2, HeldOfMe DEF OrderInv, Types
  <1>8. stamp \in Nat /\ handed \in Nat
    BY DEF OrderInv, Types, TableTypes, NodeTypeOK
  <1>9. Numbered(old, handed) /\ Len(old) = stamp - handed
    BY ConservedIs DEF OrderInv
  <1> HIDE DEF w, new, old
  <1>10. Numbered(old \o new, handed) /\ Len(old \o new) = stamp' - handed
    <2> DEFINE k == stamp'
    <2>1. k \in Nat /\ Numbered(new, stamp) /\ Len(new) = k - stamp
      BY <1>3, <1>4, <1>5
    <2> HIDE DEF k
    <2>2. Numbered(old \o new, handed) /\ Len(old \o new) = k - handed
      BY <1>7, <1>8, <1>9, <2>1, NumberedConcat
    <2> QED
      BY <2>2 DEF k
  <1> QED
    BY <1>1, <1>6, <1>10, ConservedIsPrime

(* What is sent to the endpoint is what was held first.                    *)
LEMMA HandleResponsesConserve ==
  ASSUME OrderInv, HandleResponses
  PROVE  OthersConserved'
  <1> DEFINE s == Others(Head(mail[Me]).rs)
             t == OthersDue'
  <1>1. handed' = handed + Len(s) /\ stamp' = stamp
    BY DEF HandleResponses, nodeVars
  <1>2. Head(mail[Me]).rs \in Seq(Response) /\ t \in Seq(OtherResponse) /\ OthersDue = s \o t
    BY HandleResponsesMoves DEF OrderInv, Types
  <1>3. s \in Seq(OtherResponse)
    <2>1. OtherResponse \cap Response = OtherResponse
      BY DEF Response
    <2> QED
      BY <1>2, <2>1, KeptType DEF Others
  <1>4. stamp \in Nat /\ handed \in Nat
    BY DEF OrderInv, Types, TableTypes, NodeTypeOK
  <1> HIDE DEF s
  <1>5. Numbered(s \o t, handed) /\ Len(s \o t) = stamp - handed
    BY <1>2, ConservedIs DEF OrderInv
  <1>6. Numbered(t, handed + Len(s)) /\ Len(t) = stamp - (handed + Len(s))
    <2> HIDE DEF t
    <2> QED
      BY <1>2, <1>3, <1>4, <1>5, NumberedRest
  <1> QED
    BY <1>1, <1>6, ConservedIsPrime

(* Every step keeps the responses in order and complete.                   *)
LEMMA OrderStep ==
  ASSUME OrderInv, Next
  PROVE  OrderInv'
  <1>0. Types /\ OthersConserved /\ LinkTypes /\ TableTypes /\ QuietStash
    BY DEF OrderInv, Types
  <1>1. ASSUME NEW w \in Socket, OpenSocket(w) \/ CloseSocket(w) PROVE OthersConserved'
    <2>1. UNCHANGED <<stamp, handed>>
      BY <1>1 DEF OpenSocket, CloseSocket, nodeVars
    <2>2. SameTraffic
      BY <1>0, <1>1, OpenSocketMoves, CloseSocketMoves
    <2> QED
      BY <1>0, <2>1, <2>2, ConservedStays DEF SameTraffic
  <1>2. ASSUME NEW reqs \in Seq(Request), ClientSends(reqs) PROVE OthersConserved'
    <2>1. UNCHANGED <<stamp, handed>>
      BY <1>2 DEF ClientSends, nodeVars
    <2> QED
      BY <1>0, <1>2, <2>1, ClientSendsMoves, ConservedStays
  <1>3. ASSUME NEW a \in Asks(client),
               \/ ClientSends(<<a>>)
               \/ \E b \in Asks(HavingAsked(client, a)) : ClientSends(<<a, b>>)
        PROVE  OthersConserved'
    <2>1. ASSUME NEW b \in Asks(HavingAsked(client, a)), ClientSends(<<a, b>>)
          PROVE  OthersConserved'
      BY <1>0, <1>2, <2>1, OneIsAsked
    <2>2. CASE ClientSends(<<a>>)
      BY <1>0, <1>2, <2>2, OneIsAsked
    <2> QED
      BY <1>3, <2>1, <2>2
  <1>4. ASSUME NodeAnswers PROVE OthersConserved'
    BY <1>4, NodeAnswersConserve
  <1>5. ASSUME NodeChanges PROVE OthersConserved'
    <2>1. UNCHANGED <<stamp, handed>>
      BY <1>5 DEF NodeChanges, NodeValue
    <2> QED
      BY <1>0, <1>5, <2>1, NodeChangesMoves, ConservedStays DEF SameTraffic
  <1>6. ASSUME LinkConnects \/ LinkDisconnects \/ KeepRequests \/ \E w \in Socket : StreamStep(w)
        PROVE  OthersConserved'
    <2>1. UNCHANGED <<stamp, handed>>
      BY <1>6 DEF LinkConnects, LinkDisconnects, KeepRequests, StreamStep, nodeVars
    <2>2. SameTraffic
      BY <1>0, <1>6, LinkConnectsMoves, LinkDisconnectsMoves, KeepRequestsMoves, StreamStepMoves
    <2> QED
      BY <1>0, <2>1, <2>2, ConservedStays DEF SameTraffic
  <1>7. ASSUME HandleRequests PROVE OthersConserved'
    <2>1. UNCHANGED <<stamp, handed>>
      BY <1>7 DEF HandleRequests
    <2> QED
      BY <1>0, <1>7, <2>1, HandleRequestsMoves, ConservedStays
  <1>8. ASSUME HandleResponses PROVE OthersConserved'
    BY <1>8, HandleResponsesConserve
  <1>9. ASSUME KeepResponses PROVE OthersConserved'
    <2>1. UNCHANGED <<stamp, handed>>
      BY <1>9 DEF KeepResponses, nodeVars
    <2> QED
      BY <1>0, <1>9, <2>1, KeepResponsesMoves, ConservedStays DEF SameTraffic
  <1>10. OthersConserved'
    BY <1>1, <1>3, <1>4, <1>5, <1>6, <1>7, <1>8, <1>9 DEF Next, LinkStep
  <1>11. Types'
    BY <1>0, TypesStep
  <1> QED
    BY <1>10, <1>11 DEF OrderInv

(* In every state each response but rows is held or was handed over, in    *)
(* the order of the node.                                                  *)
LEMMA OrderAlways == Spec => []OrderInv
  <1>1. Init => OrderInv
    <2> SUFFICES ASSUME Init PROVE OrderInv
      OBVIOUS
    <2>1. Types /\ OthersDue = <<>> /\ handed = 0 /\ stamp = 0
      BY InitTypes DEF Init, NodeInit
    <2> QED
      BY <2>1, ConservedIs DEF OrderInv, Numbered
  <1>2. OrderInv /\ [Next]_vars => OrderInv'
    <2> SUFFICES ASSUME OrderInv, [Next]_vars PROVE OrderInv'
      OBVIOUS
    <2>1. CASE Next
      BY <2>1, OrderStep
    <2>2. CASE UNCHANGED vars
      <3>1. Types' /\ SameTraffic
        BY <2>2, TypesUnchanged DEF OrderInv
      <3>2. UNCHANGED <<stamp, handed>>
        BY <2>2 DEF vars, nodeVars
      <3> QED
        BY <3>1, <3>2, ConservedStays DEF OrderInv, SameTraffic
    <2> QED
      BY <2>1, <2>2
  <1> QED
    BY <1>1, <1>2, PTL DEF Spec

(* Every response but rows is sent to an endpoint once, in the order of    *)
(* the node, over any number of sessions (RequesterBehavior                *)
(* .requesterDisconnected, AbstractDSLinkActor.connectToEndpoint).         *)
THEOREM OthersAlwaysConserved == Spec => []OthersConserved
  <1>1. OrderInv => OthersConserved
    BY DEF OrderInv
  <1> QED
    BY <1>1, OrderAlways, PTL

(* Every variable has its type; in particular, the link never hands over   *)
(* more responses than the node has given.                                 *)
THEOREM RequesterTypeCorrect == Spec => []RequesterTypeOK
  <1>1. OrderInv => RequesterTypeOK
    <2> SUFFICES ASSUME OrderInv PROVE RequesterTypeOK
      OBVIOUS
    <2>1. LinkTypes /\ TableTypes /\ StreamTypes /\ OthersConserved
      BY DEF OrderInv, Types
    <2>2. handed \in 0..stamp
      <3>1. OthersDue \in Seq(OtherResponse)
        BY <2>1, HeldOfMe
      <3>2. Len(OthersDue) \in Nat /\ Len(OthersDue) = stamp - handed
        BY <2>1, <3>1, ConservedIs
      <3> QED
        BY <2>1, <3>2 DEF TableTypes, NodeTypeOK
    <2> QED
      BY <2>1, <2>2, OnlyMe DEF RequesterTypeOK, LinkTypes, TableTypes, StreamTypes, ClientState
  <1> QED
    BY <1>1, OrderAlways, PTL

(*------------------------- what a client asks for ------------------------*)

(* Requests that were asked, of a client, given what is in use, what       *)
(* stands and what is subscribed to at the link.                           *)
Wishes(asked, used, standing, subscribed, c) ==
  /\ Fresh(asked, used, c.next)
  /\ used \cup c.lists \subseteq 1..c.next - 1
  /\ Closable(asked, standing, c.lists)
  /\ Unsubscribable(asked, subscribed, c.sids)

(* The requests on their way after one more.                               *)
LEMMA AskedAppend ==
  ASSUME NEW asked \in Seq(Request), NEW a \in Request
  PROVE  /\ Len(asked) \in Nat
         /\ Len(Append(asked, a)) = Len(asked) + 1
         /\ \A i \in 1..Len(asked) : Append(asked, a)[i] = asked[i] /\ asked[i] \in Request
         /\ Append(asked, a)[Len(asked) + 1] = a
  OBVIOUS

(* A client uses a request id once.                                        *)
LEMMA AskFresh ==
  ASSUME NEW c \in ClientState, NEW asked \in Seq(Request), NEW a \in Asks(c), NEW used,
         Fresh(asked, used, c.next), used \subseteq 1..c.next - 1
  PROVE  Fresh(Append(asked, a), used, HavingAsked(c, a).next)
  <1> DEFINE n == Len(asked)
             more == Append(asked, a)
             next == HavingAsked(c, a).next
  <1>1. a \in Request /\ c.next \in Nat
    BY AsksTypes, RidCount DEF ClientState
  <1>2. /\ n \in Nat /\ Len(more) = n + 1 /\ more[n + 1] = a
        /\ \A i \in 1..n : more[i] = asked[i] /\ asked[i] \in Request
    BY <1>1, AskedAppend
  <1>3. next = IF a.rid = c.next THEN c.next + 1 ELSE c.next
    BY DEF HavingAsked
  <1>4. a.kind # "Close" => a.rid = c.next
    BY DEF Asks
  <1> HIDE DEF n, more, next
  <1>5. \A i \in 1..n + 1 : i \in 1..n \/ i = n + 1
    BY <1>2
  <1>6. \A i \in Begin(more) : i \in Begin(asked) \/ (i = n + 1 /\ a.kind # "Close")
    BY <1>2, <1>5 DEF Begin, n
  <1>7. \A i \in Begin(asked) : /\ i \in 1..n /\ more[i] = asked[i] /\ asked[i].rid \in Nat
                                /\ asked[i].rid < c.next /\ asked[i].rid \notin used
                                /\ \A j \in Begin(asked) : i # j => asked[i].rid # asked[j].rid
    <2> TAKE i \in Begin(asked)
    <2>1. i \in 1..n /\ more[i] = asked[i] /\ asked[i] \in Request
      BY <1>2 DEF Begin, n
    <2>2. asked[i].rid \in Nat
      BY <2>1, RequestTypes, RidCount
    <2> QED
      BY <2>1, <2>2 DEF Fresh
  <1>8. \A i \in Begin(asked) : asked[i].rid < next /\ asked[i].rid # c.next
    BY <1>1, <1>3, <1>7
  <1>9. a.kind # "Close" => a.rid < next /\ a.rid \notin used
    BY <1>1, <1>3, <1>4
  <1>10. \A i \in Begin(more) : more[i].rid < next /\ more[i].rid \notin used
    BY <1>2, <1>6, <1>7, <1>8, <1>9
  <1>11. \A i, j \in Begin(more) : i # j => more[i].rid # more[j].rid
    BY <1>2, <1>4, <1>6, <1>7, <1>8
  <1> QED
    BY <1>10, <1>11 DEF Fresh, more, next

(* Earlier requests stay where they are.                                   *)
LEMMA StandingMore ==
  ASSUME NEW asked \in Seq(Request), NEW a \in Request, NEW standing, NEW r,
         NEW j \in 1..Len(asked) + 1, Standing(asked, standing, r, j)
  PROVE  /\ Standing(Append(asked, a), standing, r, j)
         /\ Standing(Append(asked, a), standing, r, Len(asked) + 2)
  <1>1. \A i \in 1..j - 1 : i \in 1..Len(asked) /\ i \in 1..(Len(asked) + 2) - 1
                            /\ Append(asked, a)[i] = asked[i]
    BY AskedAppend
  <1> QED
    BY <1>1 DEF Standing

(* A client closes only what stands and only once.                         *)
LEMMA AskClosable ==
  ASSUME NEW c \in ClientState, NEW asked \in Seq(Request), NEW a \in Asks(c), NEW used,
         NEW standing, standing \subseteq used,
         Fresh(asked, used, c.next), used \cup c.lists \subseteq 1..c.next - 1,
         Closable(asked, standing, c.lists)
  PROVE  Closable(Append(asked, a), standing, HavingAsked(c, a).lists)
  <1> DEFINE n == Len(asked)
             more == Append(asked, a)
             lists == HavingAsked(c, a).lists
  <1>1. a \in Request /\ c.next \in Nat
    BY AsksTypes, RidCount DEF ClientState
  <1>2. /\ n \in Nat /\ Len(more) = n + 1 /\ more[n + 1] = a
        /\ \A i \in 1..n : more[i] = asked[i] /\ asked[i] \in Request
    BY <1>1, AskedAppend
  <1>3. /\ a.kind = "List" => a.rid = c.next /\ lists = c.lists \cup {a.rid}
        /\ a.kind = "Close" => a.rid \in c.lists /\ lists = c.lists \ {a.rid}
        /\ a.kind \notin {"List", "Close"} => lists = c.lists
    BY DEF Asks, HavingAsked
  <1>4. \A j \in 1..n : \A r : Standing(asked, standing, r, j) =>
          /\ Standing(more, standing, r, j) /\ Standing(more, standing, r, n + 2)
    BY <1>1, <1>2, StandingMore
  <1>5. \A r : Standing(asked, standing, r, n + 1) =>
          /\ Standing(more, standing, r, n + 1) /\ Standing(more, standing, r, n + 2)
    BY <1>1, <1>2, StandingMore
  <1>6. \A j \in 1..n + 1 : \A r : Standing(asked, standing, r, j) => r # c.next
    <2> SUFFICES ASSUME NEW j \in 1..n + 1, NEW r, Standing(asked, standing, r, j) PROVE r # c.next
      OBVIOUS
    <2>1. CASE r \in standing
      BY <1>1, <2>1
    <2>2. ASSUME NEW i \in 1..j - 1, asked[i].kind = "List", asked[i].rid = r PROVE r # c.next
      <3>1. i \in Begin(asked) /\ asked[i] \in Request
        BY <1>2, <2>2 DEF Begin
      <3>2. asked[i].rid < c.next /\ asked[i].rid \in Nat
        BY <3>1, RequestTypes, RidCount DEF Fresh
      <3> QED
        BY <1>1, <2>2, <3>2
    <2> QED
      BY <2>1, <2>2 DEF Standing
  <1>7. /\ \A r \in c.lists : Standing(asked, standing, r, n + 1)
        /\ \A j \in 1..n : asked[j].kind = "Close" =>
             /\ asked[j].rid \notin c.lists
             /\ Standing(asked, standing, asked[j].rid, j)
             /\ \A i \in 1..n : asked[i].kind = "Close" /\ i # j => asked[i].rid # asked[j].rid
    BY DEF Closable
  <1>8. (n + 1) + 1 = n + 2 /\ \A i \in 1..n + 1 : i \in 1..n \/ i = n + 1
    BY <1>2
  <1> HIDE DEF n, more, lists
  <1>9. \A r \in lists : Standing(more, standing, r, n + 2)
    <2> SUFFICES ASSUME NEW r \in lists PROVE Standing(more, standing, r, n + 2)
      OBVIOUS
    <2>1. CASE r \in c.lists
      BY <1>5, <1>7, <2>1
    <2>2. CASE a.kind = "List" /\ r = a.rid
      <3>1. n + 1 \in 1..(n + 2) - 1
        BY <1>2
      <3> QED
        BY <1>2, <2>2, <3>1 DEF Standing
    <2> QED
      BY <1>3, <2>1, <2>2
  <1>10. ASSUME NEW j \in 1..n, more[j].kind = "Close"
         PROVE  /\ more[j].rid \notin lists /\ Standing(more, standing, more[j].rid, j)
                /\ \A i \in 1..n : more[i].kind = "Close" /\ i # j => more[i].rid # more[j].rid
                /\ a.kind = "Close" => a.rid # more[j].rid
    <2>1. more[j] = asked[j]
      BY <1>2
    <2>2. asked[j].rid # c.next
      BY <1>2, <1>6, <1>7, <1>10, <2>1
    <2> QED
      BY <1>2, <1>3, <1>4, <1>7, <1>10, <2>1, <2>2
  <1>11. ASSUME a.kind = "Close"
         PROVE  a.rid \notin lists /\ Standing(more, standing, a.rid, n + 1)
    BY <1>3, <1>5, <1>7, <1>11
  <1>12. \A j \in 1..n + 1 : more[j].kind = "Close" =>
           /\ more[j].rid \notin lists
           /\ Standing(more, standing, more[j].rid, j)
           /\ \A i \in 1..n + 1 : more[i].kind = "Close" /\ i # j => more[i].rid # more[j].rid
    BY <1>2, <1>8, <1>10, <1>11
  <1> QED
    BY <1>2, <1>8, <1>9, <1>12 DEF Closable, more, lists

(* What is subscribed before a request is so with more after it.           *)
LEMMA SubscribedMore ==
  ASSUME NEW asked \in Seq(Request), NEW a \in Request, NEW subscribed, NEW s,
         NEW j \in 1..Len(asked) + 1, Subscribed(asked, subscribed, s, j)
  PROVE  /\ Subscribed(Append(asked, a), subscribed, s, j)
         /\ j = Len(asked) + 1 /\ ~(a.kind = "Unsubscribe" /\ a.sid = s) =>
              Subscribed(Append(asked, a), subscribed, s, Len(asked) + 2)
  <1> DEFINE n == Len(asked)
             more == Append(asked, a)
  <1>1. /\ n \in Nat /\ Len(more) = n + 1 /\ more[n + 1] = a
        /\ \A i \in 1..n : more[i] = asked[i] /\ asked[i] \in Request
    BY AskedAppend
  <1>2. j \in 1..n + 1 /\ \A i \in 1..j - 1 : i \in 1..n
    BY <1>1
  <1>3. \A k \in 1..n : Unsubscribes(more, s, k) = Unsubscribes(asked, s, k)
    BY <1>1 DEF Unsubscribes
  <1> HIDE DEF n, more
  <1>4. Subscribed(more, subscribed, s, j)
    <2>1. \A i \in 1..j - 1 : \A k \in i..j - 1 : k \in 1..n
      BY <1>1, <1>2
    <2> QED
      BY <1>1, <1>2, <1>3, <2>1 DEF Subscribed
  <1>5. ASSUME j = n + 1, ~(a.kind = "Unsubscribe" /\ a.sid = s)
        PROVE  Subscribed(more, subscribed, s, n + 2)
    <2>1. ~Unsubscribes(more, s, n + 1)
      BY <1>1, <1>5 DEF Unsubscribes
    <2>2. \A i \in 1..j - 1 : i \in 1..(n + 2) - 1
      BY <1>1, <1>5
    <2>3. \A i \in 1..n + 1 : \A k \in i..(n + 2) - 1 : k \in i..j - 1 \/ k = n + 1
      BY <1>1, <1>5
    <2>4. \A k \in 1..(n + 2) - 1 : k \in 1..j - 1 \/ k = n + 1
      BY <1>1, <1>5
    <2>5. CASE s \in subscribed /\ \A k \in 1..j - 1 : ~Unsubscribes(more, s, k)
      BY <2>1, <2>4, <2>5 DEF Subscribed
    <2>6. ASSUME NEW i \in 1..j - 1, more[i].kind = "Subscribe", more[i].sid = s,
                 \A k \in i..j - 1 : ~Unsubscribes(more, s, k)
          PROVE  Subscribed(more, subscribed, s, n + 2)
      <3>1. i \in 1..n + 1
        BY <1>1, <1>5
      <3> QED
        BY <2>1, <2>2, <2>3, <2>6, <3>1 DEF Subscribed
    <2> QED
      BY <1>4, <2>5, <2>6 DEF Subscribed
  <1> QED
    BY <1>4, <1>5 DEF n, more

(* A client gives up only what it has subscribed.                          *)
LEMMA AskUnsubscribable ==
  ASSUME NEW c \in ClientState, NEW asked \in Seq(Request), NEW a \in Asks(c), NEW subscribed,
         Unsubscribable(asked, subscribed, c.sids)
  PROVE  Unsubscribable(Append(asked, a), subscribed, HavingAsked(c, a).sids)
  <1> DEFINE n == Len(asked)
             more == Append(asked, a)
             wanted == HavingAsked(c, a).sids
  <1>1. a \in Request
    BY AsksTypes
  <1>2. /\ n \in Nat /\ Len(more) = n + 1 /\ more[n + 1] = a
        /\ \A i \in 1..n : more[i] = asked[i] /\ asked[i] \in Request
    BY <1>1, AskedAppend
  <1>3. /\ a.kind = "Subscribe" => wanted = c.sids \cup {a.sid}
        /\ a.kind = "Unsubscribe" => a.sid \in c.sids /\ wanted = c.sids \ {a.sid}
        /\ a.kind \notin {"Subscribe", "Unsubscribe"} => wanted = c.sids
    BY DEF Asks, HavingAsked
  <1>4. /\ \A s \in c.sids : Subscribed(asked, subscribed, s, n + 1)
        /\ \A j \in 1..n : asked[j].kind = "Unsubscribe" => Subscribed(asked, subscribed, asked[j].sid, j)
    BY DEF Unsubscribable
  <1>5. \A s : \A j \in 1..n : Subscribed(asked, subscribed, s, j) => Subscribed(more, subscribed, s, j)
    BY <1>1, <1>2, SubscribedMore
  <1>6. \A s : Subscribed(asked, subscribed, s, n + 1) =>
          /\ Subscribed(more, subscribed, s, n + 1)
          /\ ~(a.kind = "Unsubscribe" /\ a.sid = s) => Subscribed(more, subscribed, s, n + 2)
    BY <1>1, <1>2, SubscribedMore
  <1>7. (n + 1) + 1 = n + 2 /\ \A i \in 1..n + 1 : i \in 1..n \/ i = n + 1
    BY <1>2
  <1> HIDE DEF n, more, wanted
  <1>8. \A s \in wanted : Subscribed(more, subscribed, s, n + 2)
    <2> SUFFICES ASSUME NEW s \in wanted PROVE Subscribed(more, subscribed, s, n + 2)
      OBVIOUS
    <2>1. CASE s \in c.sids /\ ~(a.kind = "Unsubscribe" /\ a.sid = s)
      BY <1>4, <1>6, <2>1
    <2>2. CASE a.kind = "Subscribe" /\ s = a.sid
      <3>1. n + 1 \in 1..(n + 2) - 1 /\ \A k \in n + 1..(n + 2) - 1 : k = n + 1
        BY <1>2
      <3>2. ~Unsubscribes(more, s, n + 1)
        BY <1>2, <2>2 DEF Unsubscribes
      <3> QED
        BY <1>2, <2>2, <3>1, <3>2 DEF Subscribed
    <2> QED
      BY <1>3, <2>1, <2>2
  <1>9. ASSUME NEW j \in 1..n + 1, more[j].kind = "Unsubscribe"
        PROVE  Subscribed(more, subscribed, more[j].sid, j)
    <2>1. CASE j \in 1..n
      <3>1. more[j] = asked[j]
        BY <1>2, <2>1
      <3>2. Subscribed(asked, subscribed, asked[j].sid, j)
        BY <1>4, <1>9, <2>1, <3>1
      <3> QED
        BY <1>5, <2>1, <3>1, <3>2
    <2>2. CASE j = n + 1
      <3>1. Subscribed(more, subscribed, a.sid, n + 1)
        BY <1>2, <1>3, <1>4, <1>6, <1>9, <2>2
      <3> QED
        BY <1>2, <2>2, <3>1
    <2> QED
      BY <1>7, <2>1, <2>2
  <1> QED
    BY <1>2, <1>7, <1>8, <1>9 DEF Unsubscribable, more, wanted

(* So one more request keeps the wishes of the client well formed.         *)
LEMMA AskKeepsWishes ==
  ASSUME NEW c \in ClientState, NEW asked \in Seq(Request), NEW a \in Asks(c), NEW used,
         NEW standing, standing \subseteq used, NEW subscribed,
         Wishes(asked, used, standing, subscribed, c)
  PROVE  Wishes(Append(asked, a), used, standing, subscribed, HavingAsked(c, a))
  <1>1. /\ Fresh(asked, used, c.next) /\ used \cup c.lists \subseteq 1..c.next - 1
        /\ Closable(asked, standing, c.lists) /\ Unsubscribable(asked, subscribed, c.sids)
    BY DEF Wishes
  <1>2. used \subseteq 1..c.next - 1
    BY <1>1
  <1>3. Fresh(Append(asked, a), used, HavingAsked(c, a).next)
    BY <1>1, <1>2, AskFresh
  <1>4. Closable(Append(asked, a), standing, HavingAsked(c, a).lists)
    BY <1>1, AskClosable
  <1>5. Unsubscribable(Append(asked, a), subscribed, HavingAsked(c, a).sids)
    BY <1>1, AskUnsubscribable
  <1>6. used \cup HavingAsked(c, a).lists \subseteq 1..HavingAsked(c, a).next - 1
    <2>1. c.next \in Nat \ {0} /\ a.rid \in Rid
      BY AsksTypes, RidCount, RequestTypes DEF ClientState
    <2>2. /\ HavingAsked(c, a).next = IF a.rid = c.next THEN c.next + 1 ELSE c.next
          /\ HavingAsked(c, a).lists \subseteq c.lists \cup (IF a.kind = "List" THEN {a.rid} ELSE {})
      BY DEF HavingAsked
    <2>3. a.kind = "List" => a.rid = c.next
      BY DEF Asks
    <2> QED
      BY <1>1, <2>1, <2>2, <2>3
  <1> QED
    BY <1>3, <1>4, <1>5, <1>6 DEF Wishes

(*------------------- requests, one after the other -----------------------*)

(* The tables of the link and of the node, and the requests that end with  *)
(* a response on its way.                                                  *)
BothTables ==
  [known : SUBSET Rid, subscribed : SUBSET Sid, nodeRids : SUBSET Rid, nodeSids : SUBSET Sid,
   closing : SUBSET Rid]

TablesOf(t) == Tables(t.known, t.subscribed, t.nodeRids, t.nodeSids, t.closing)
UsedIn(t)   == t.known \cup t.closing
StandIn(t)  == t.known \ t.closing

KnownAfter(req, was) ==
  IF req.kind \in {"List", "Invoke"} THEN was \cup {req.rid}
  ELSE IF req.kind = "Close" THEN was \ {req.rid} ELSE was

TablesAfter(t, req) ==
  [known |-> KnownAfter(req, t.known), subscribed |-> SidsAfter(req, t.subscribed),
   nodeRids |-> RidsAfter(req, t.nodeRids), nodeSids |-> SidsAfter(req, t.nodeSids),
   closing |-> t.closing \cup (IF Ends(req) THEN {req.rid} ELSE {})]

Closes(req, r) == req.kind = "Close" /\ req.rid = r

(* What one request does to both tables, field by field.                   *)
LEMMA TablesAfterFields ==
  ASSUME NEW t \in BothTables, NEW req \in Request
  PROVE  /\ TablesAfter(t, req) \in BothTables
         /\ TablesAfter(t, req).known = KnownAfter(req, t.known)
         /\ TablesAfter(t, req).subscribed = SidsAfter(req, t.subscribed)
         /\ TablesAfter(t, req).nodeRids = RidsAfter(req, t.nodeRids)
         /\ TablesAfter(t, req).nodeSids = SidsAfter(req, t.nodeSids)
         /\ TablesAfter(t, req).closing = t.closing \cup (IF Ends(req) THEN {req.rid} ELSE {})
  <1>1. /\ t.known \in SUBSET Rid /\ t.subscribed \in SUBSET Sid /\ t.nodeRids \in SUBSET Rid
        /\ t.nodeSids \in SUBSET Sid /\ t.closing \in SUBSET Rid
    BY DEF BothTables
  <1>2. req.rid \in Rid /\ (req.kind \in {"Subscribe", "Unsubscribe"} => req.sid \in Sid)
    BY RequestTypes
  <1>3. /\ KnownAfter(req, t.known) \in SUBSET Rid /\ RidsAfter(req, t.nodeRids) \in SUBSET Rid
        /\ (t.closing \cup (IF Ends(req) THEN {req.rid} ELSE {})) \in SUBSET Rid
    BY <1>1, <1>2 DEF KnownAfter, RidsAfter
  <1>4. SidsAfter(req, t.subscribed) \in SUBSET Sid /\ SidsAfter(req, t.nodeSids) \in SUBSET Sid
    BY <1>1, <1>2 DEF SidsAfter
  <1> QED
    BY <1>3, <1>4 DEF TablesAfter, BothTables

(* One request that both have gone through.                                *)
LEMMA OneRequest ==
  ASSUME NEW t \in BothTables, NEW req \in Request, TablesOf(t),
         req.kind # "Close" => req.rid \notin UsedIn(t)
  PROVE  LET u == TablesAfter(t, req) IN
         /\ u \in BothTables /\ TablesOf(u)
         /\ UsedIn(u) \subseteq UsedIn(t) \cup {req.rid}
         /\ \A r \in StandIn(t) : ~Closes(req, r) => r \in StandIn(u)
         /\ req.kind = "List" => req.rid \in StandIn(u)
         /\ \A s \in t.subscribed : ~(req.kind = "Unsubscribe" /\ req.sid = s) => s \in u.subscribed
         /\ req.kind = "Subscribe" => req.sid \in u.subscribed
  <1> DEFINE u == TablesAfter(t, req)
             r0 == req.rid
             b == t.known
             R == t.nodeRids
             C == t.closing
  <1>1. /\ u \in BothTables
        /\ u.known = KnownAfter(req, b) /\ u.subscribed = SidsAfter(req, t.subscribed)
        /\ u.nodeRids = RidsAfter(req, R) /\ u.nodeSids = SidsAfter(req, t.nodeSids)
        /\ u.closing = C \cup (IF Ends(req) THEN {r0} ELSE {})
    BY TablesAfterFields
  <1>2. /\ t.subscribed = t.nodeSids /\ R \subseteq b /\ R \cap C = {}
        /\ Answered => b \ R \subseteq C
    BY DEF TablesOf, Tables
  <1>3. req.kind # "Close" => r0 \notin b /\ r0 \notin C /\ r0 \notin R
    BY <1>2 DEF UsedIn
  <1>4. req.kind \in {"List", "Close", "Invoke", "Subscribe", "Unsubscribe"}
    BY RequestTypes
  <1>5. u.subscribed = u.nodeSids
    BY <1>1, <1>2
  <1> HIDE DEF u, r0, b, R, C
  <1>6. /\ u.nodeRids \subseteq u.known /\ u.nodeRids \cap u.closing = {}
        /\ Answered => u.known \ u.nodeRids \subseteq u.closing
        /\ u.known \cup u.closing \subseteq (b \cup C) \cup {r0}
        /\ \A r \in b \ C : ~(req.kind = "Close" /\ r0 = r) => r \in u.known \ u.closing
        /\ req.kind = "List" => r0 \in u.known \ u.closing
    <2>1. CASE req.kind = "List"
      <3>1. u.known = b \cup {r0} /\ u.nodeRids = R \cup {r0} /\ u.closing = C
        BY <1>1, <2>1, NodeAssumption DEF KnownAfter, RidsAfter, Ends, r0
      <3> QED
        BY <1>2, <1>3, <2>1, <3>1
    <2>2. CASE req.kind = "Close"
      <3>1. u.known = b \ {r0} /\ u.nodeRids = R \ {r0} /\ u.closing = C \cup {r0}
        BY <1>1, <2>2, NodeAssumption DEF KnownAfter, RidsAfter, Ends, r0
      <3> QED
        BY <1>2, <2>2, <3>1
    <2>3. CASE req.kind = "Invoke"
      <3>1. u.known = b \cup {r0} /\ u.nodeRids = R /\ u.closing = C \cup (IF Answered THEN {r0} ELSE {})
        BY <1>1, <2>3, NodeAssumption DEF KnownAfter, RidsAfter, Ends, r0
      <3> QED
        BY <1>2, <1>3, <2>3, <3>1, NodeAssumption
    <2>4. CASE req.kind \in {"Subscribe", "Unsubscribe"}
      <3>1. u.known = b /\ u.nodeRids = R /\ u.closing = C \cup {r0}
        BY <1>1, <2>4, NodeAssumption DEF KnownAfter, RidsAfter, Ends, r0
      <3> QED
        BY <1>2, <1>3, <2>4, <3>1
    <2> QED
      BY <1>4, <2>1, <2>2, <2>3, <2>4
  <1>7. /\ \A s \in t.subscribed : ~(req.kind = "Unsubscribe" /\ req.sid = s) => s \in u.subscribed
        /\ req.kind = "Subscribe" => req.sid \in u.subscribed
    BY <1>1, <1>4 DEF SidsAfter
  <1> QED
    BY <1>1, <1>5, <1>6, <1>7 DEF TablesOf, Tables, UsedIn, StandIn, Closes, u, r0, b, C

(* What both have gone through of some requests, of which the link drops   *)
(* those it does not resolve.                                              *)
GoneThrough(t, reqs, res) ==
  /\ t \in [0..Len(reqs) -> BothTables]
  /\ TablesOf(t[0])
  /\ \A req \in res : req.kind = "Close" => req.rid \in t[0].known
  /\ \A req \in Request \ res : req.kind \in {"Close", "Unsubscribe"}
  /\ \A k \in 0..Len(reqs) - 1 :
       t[k + 1] = IF reqs[k + 1] \in res THEN TablesAfter(t[k], reqs[k + 1]) ELSE t[k]

NotClosed(reqs, r, k) == \A i \in 1..k : ~Closes(reqs[i], r)

Begun(reqs, k) == {reqs[i].rid : i \in {i \in 1..k : reqs[i].kind # "Close"}}

SoFar(t, reqs, k) ==
  /\ TablesOf(t[k])
  /\ UsedIn(t[k]) \subseteq UsedIn(t[0]) \cup Begun(reqs, k)
  /\ \A r : Standing(reqs, StandIn(t[0]), r, k + 1) /\ NotClosed(reqs, r, k) => r \in StandIn(t[k])
  /\ \A s : Subscribed(reqs, t[0].subscribed, s, k + 1) => s \in t[k].subscribed

(* What stands after a request stood before, or the request began it.      *)
LEMMA StandingSplit ==
  ASSUME NEW reqs, NEW S, NEW r, NEW k \in Nat, Standing(reqs, S, r, (k + 1) + 1)
  PROVE  Standing(reqs, S, r, k + 1) \/ (reqs[k + 1].kind = "List" /\ reqs[k + 1].rid = r)
  <1>1. \A i \in 1..((k + 1) + 1) - 1 : i \in 1..(k + 1) - 1 \/ i = k + 1
    OBVIOUS
  <1> QED
    BY <1>1 DEF Standing

(* The same for a subscription.                                            *)
LEMMA SubscribedSplit ==
  ASSUME NEW reqs, NEW S, NEW s, NEW k \in Nat, Subscribed(reqs, S, s, (k + 1) + 1)
  PROVE  \/ Subscribed(reqs, S, s, k + 1) /\ ~Unsubscribes(reqs, s, k + 1)
         \/ reqs[k + 1].kind = "Subscribe" /\ reqs[k + 1].sid = s
  <1>1. \A i \in 1..((k + 1) + 1) - 1 : i \in 1..(k + 1) - 1 \/ i = k + 1
    OBVIOUS
  <1>2. \A i \in 1..k + 1 : k + 1 \in i..((k + 1) + 1) - 1
    OBVIOUS
  <1>3. \A i \in 1..k + 1 : \A j \in i..(k + 1) - 1 : j \in i..((k + 1) + 1) - 1
    OBVIOUS
  <1>4. 1 \in 1..k + 1 /\ \A i \in 1..(k + 1) - 1 : i \in 1..k + 1
    OBVIOUS
  <1>5. CASE s \in S /\ \A j \in 1..((k + 1) + 1) - 1 : ~Unsubscribes(reqs, s, j)
    BY <1>2, <1>3, <1>4, <1>5 DEF Subscribed
  <1>6. ASSUME NEW i \in 1..((k + 1) + 1) - 1, reqs[i].kind = "Subscribe", reqs[i].sid = s,
               \A j \in i..((k + 1) + 1) - 1 : ~Unsubscribes(reqs, s, j)
        PROVE  \/ Subscribed(reqs, S, s, k + 1) /\ ~Unsubscribes(reqs, s, k + 1)
               \/ reqs[k + 1].kind = "Subscribe" /\ reqs[k + 1].sid = s
    <2>1. CASE i = k + 1
      BY <1>6, <2>1
    <2>2. CASE i \in 1..(k + 1) - 1
      BY <1>2, <1>3, <1>4, <1>6, <2>2 DEF Subscribed
    <2> QED
      BY <1>1, <2>1, <2>2
  <1> QED
    BY <1>5, <1>6 DEF Subscribed

(* One more request of a message handled: the tables still agree.          *)
LEMMA GoneFurther ==
  ASSUME NEW reqs \in Seq(Request), NEW res, NEW t, GoneThrough(t, reqs, res), NEW next,
         Fresh(reqs, UsedIn(t[0]), next),
         NEW k \in 0..Len(reqs) - 1, SoFar(t, reqs, k)
  PROVE  SoFar(t, reqs, k + 1)
  <1> DEFINE req == reqs[k + 1]
             v == t[k]
             w == t[k + 1]
             used == UsedIn(t[0])
  <1>1. /\ k \in Nat /\ k \in 0..Len(reqs) /\ k + 1 \in 1..Len(reqs) /\ req \in Request
        /\ v \in BothTables /\ 0 \in 0..Len(reqs) /\ t[0] \in BothTables
    BY DEF GoneThrough
  <1>2. w = IF req \in res THEN TablesAfter(v, req) ELSE v
    BY DEF GoneThrough
  <1>3. TablesOf(v) /\ UsedIn(v) \subseteq used \cup Begun(reqs, k)
    BY DEF SoFar
  <1>4. \A i \in 1..k : i \in 1..k + 1 /\ i \in 1..Len(reqs) /\ i # k + 1
    BY <1>1
  <1>5. req.kind # "Close" => req.rid \notin UsedIn(v)
    <2> SUFFICES ASSUME req.kind # "Close" PROVE req.rid \notin UsedIn(v)
      OBVIOUS
    <2>1. k + 1 \in Begin(reqs)
      BY <1>1 DEF Begin
    <2>2. req.rid \notin used
      BY <2>1 DEF Fresh
    <2>3. ASSUME NEW i \in 1..k, reqs[i].kind # "Close" PROVE reqs[i].rid # req.rid
      <3>1. i \in Begin(reqs) /\ i # k + 1
        BY <1>4, <2>3 DEF Begin
      <3> QED
        BY <2>1, <3>1 DEF Fresh
    <2>4. req.rid \notin Begun(reqs, k)
      BY <2>3 DEF Begun
    <2> QED
      BY <1>3, <2>2, <2>4
  <1>6. req.kind = "Close" /\ req \in res => req.rid \in used
    BY DEF GoneThrough, UsedIn
  <1>7. /\ Begun(reqs, k) \subseteq Begun(reqs, k + 1)
        /\ req.kind # "Close" => req.rid \in Begun(reqs, k + 1)
    <2>1. k + 1 \in 1..k + 1
      BY <1>1
    <2> QED
      BY <1>4, <2>1 DEF Begun
  <1>8. req \notin res => req.kind \in {"Close", "Unsubscribe"}
    BY <1>1 DEF GoneThrough
  <1>9. \A r : NotClosed(reqs, r, k + 1) => NotClosed(reqs, r, k) /\ ~Closes(req, r)
    <2>1. k + 1 \in 1..k + 1
      BY <1>1
    <2> QED
      BY <1>4, <2>1 DEF NotClosed
  <1>10. \A r : Standing(reqs, StandIn(t[0]), r, (k + 1) + 1) /\ NotClosed(reqs, r, k + 1) =>
           (r \in StandIn(v) /\ ~Closes(req, r)) \/ (req.kind = "List" /\ req.rid = r)
    BY <1>1, <1>9, StandingSplit DEF SoFar
  <1>11. \A s : Subscribed(reqs, t[0].subscribed, s, (k + 1) + 1) =>
           \/ s \in v.subscribed /\ ~(req.kind = "Unsubscribe" /\ req.sid = s)
           \/ req.kind = "Subscribe" /\ req.sid = s
    BY <1>1, SubscribedSplit DEF SoFar, Unsubscribes
  <1> HIDE DEF req, v, w, used
  <1>12. CASE req \in res
    <2>1. w = TablesAfter(v, req)
      BY <1>2, <1>12
    <2>2. /\ TablesOf(w)
          /\ UsedIn(w) \subseteq UsedIn(v) \cup {req.rid}
          /\ \A r \in StandIn(v) : ~Closes(req, r) => r \in StandIn(w)
          /\ req.kind = "List" => req.rid \in StandIn(w)
          /\ \A s \in v.subscribed : ~(req.kind = "Unsubscribe" /\ req.sid = s) => s \in w.subscribed
          /\ req.kind = "Subscribe" => req.sid \in w.subscribed
      BY <1>1, <1>3, <1>5, <2>1, OneRequest
    <2>3. UsedIn(w) \subseteq used \cup Begun(reqs, k + 1)
      BY <1>3, <1>6, <1>7, <1>12, <2>2
    <2> QED
      BY <1>10, <1>11, <2>2, <2>3 DEF SoFar, w, used
  <1>13. CASE req \notin res
    <2>1. w = v /\ req.kind \notin {"List", "Subscribe"}
      BY <1>2, <1>8, <1>13
    <2>2. UsedIn(w) \subseteq used \cup Begun(reqs, k + 1)
      BY <1>3, <1>7, <2>1
    <2> QED
      BY <1>3, <1>10, <1>11, <2>1, <2>2 DEF SoFar, w, used
  <1> QED
    BY <1>12, <1>13

(* So they agree after all requests of the message.                        *)
LEMMA GoneAll ==
  ASSUME NEW reqs \in Seq(Request), NEW res, NEW t, GoneThrough(t, reqs, res), NEW next,
         Fresh(reqs, UsedIn(t[0]), next)
  PROVE  SoFar(t, reqs, Len(reqs))
  <1> DEFINE G == {k \in Nat : SoFar(t, reqs, k)}
  <1>1. 0 \in G
    <2>1. \A r : Standing(reqs, StandIn(t[0]), r, 0 + 1) => r \in StandIn(t[0])
      BY DEF Standing
    <2>2. \A s : Subscribed(reqs, t[0].subscribed, s, 0 + 1) => s \in t[0].subscribed
      BY DEF Subscribed
    <2>3. SoFar(t, reqs, 0)
      BY <2>1, <2>2 DEF SoFar, GoneThrough
    <2> QED
      BY <2>3
  <1>2. ASSUME NEW k \in 0..Len(reqs) - 1, k \in G PROVE k + 1 \in G
    <2>1. k + 1 \in Nat /\ SoFar(t, reqs, k)
      BY <1>2
    <2>2. SoFar(t, reqs, k + 1)
      BY <2>1, GoneFurther
    <2> QED
      BY <2>1, <2>2
  <1>3. Len(reqs) \in G
    <2> HIDE DEF G
    <2> QED
      BY <1>1, <1>2, PrefixInduction
  <1> QED
    BY <1>3

(* What a client has asked of a link, of which the first were handled.     *)
LEMMA RestOfRequests ==
  ASSUME NEW reqs \in Seq(Request), NEW rest \in Seq(Request)
  PROVE  /\ Len(reqs) \in Nat /\ Len(rest) \in Nat /\ Len(reqs \o rest) = Len(reqs) + Len(rest)
         /\ \A i \in 1..Len(reqs) : (reqs \o rest)[i] = reqs[i] /\ i \in 1..Len(reqs \o rest)
         /\ \A i \in 1..Len(rest) : /\ (reqs \o rest)[Len(reqs) + i] = rest[i]
                                    /\ Len(reqs) + i \in 1..Len(reqs \o rest)
         /\ \A i : i \in 1..Len(reqs \o rest) /\ i \notin 1..Len(reqs) =>
                i - Len(reqs) \in 1..Len(rest) /\ Len(reqs) + (i - Len(reqs)) = i
  OBVIOUS

(* Requests left over use fresh ids.                                       *)
LEMMA RestFresh ==
  ASSUME NEW reqs \in Seq(Request), NEW rest \in Seq(Request), NEW used, NEW next \in Nat,
         Fresh(reqs \o rest, used, next), used \subseteq 1..next - 1
  PROVE  /\ Fresh(reqs, used, next)
         /\ Fresh(rest, used \cup Begun(reqs, Len(reqs)), next)
         /\ used \cup Begun(reqs, Len(reqs)) \subseteq 1..next - 1
  <1> DEFINE n == Len(reqs)
             all == reqs \o rest
  <1>1. /\ n \in Nat /\ Len(all) = n + Len(rest)
        /\ \A i \in 1..n : all[i] = reqs[i] /\ i \in 1..Len(all)
        /\ \A i \in 1..Len(rest) : all[n + i] = rest[i] /\ n + i \in 1..Len(all)
    BY RestOfRequests
  <1>2. Fresh(all, used, next)
    OBVIOUS
  <1> HIDE DEF all
  <1>3. \A i \in Begin(reqs) : i \in Begin(all) /\ all[i] = reqs[i] /\ i \in 1..n
    BY <1>1 DEF Begin
  <1>4. \A i \in Begin(rest) : n + i \in Begin(all) /\ all[n + i] = rest[i] /\ i \in 1..Len(rest)
    BY <1>1 DEF Begin
  <1> HIDE DEF n
  <1>5. Fresh(reqs, used, next)
    BY <1>2, <1>3 DEF Fresh
  <1>6. \A i \in Begin(reqs), j \in Begin(rest) : reqs[i].rid # rest[j].rid
    <2> TAKE i \in Begin(reqs), j \in Begin(rest)
    <2>1. i # n + j
      BY <1>1, <1>3, <1>4
    <2> QED
      BY <1>2, <1>3, <1>4, <2>1 DEF Fresh
  <1>7. \A i \in Begin(rest) : rest[i].rid < next /\ rest[i].rid \notin used
    BY <1>2, <1>4 DEF Fresh
  <1>8. \A i, j \in Begin(rest) : i # j => rest[i].rid # rest[j].rid
    <2> TAKE i, j \in Begin(rest)
    <2>1. i # j => n + i # n + j
      BY <1>1, <1>4
    <2> QED
      BY <1>2, <1>4, <2>1 DEF Fresh
  <1>9. \A i \in Begin(rest) : rest[i].rid \notin Begun(reqs, n)
    BY <1>6 DEF Begin, Begun, n
  <1>10. Fresh(rest, used \cup Begun(reqs, n), next)
    BY <1>7, <1>8, <1>9 DEF Fresh
  <1>11. Begun(reqs, n) \subseteq 1..next - 1
    <2>1. ASSUME NEW i \in Begin(reqs) PROVE reqs[i].rid \in 1..next - 1
      <3>1. reqs[i] \in Request
        BY <2>1 DEF Begin
      <3>2. reqs[i].rid \in 1..Cardinality(Rid) /\ Cardinality(Rid) \in Nat
        BY <3>1, RequestTypes, RidCount
      <3>3. reqs[i].rid < next
        BY <1>5 DEF Fresh
      <3> QED
        BY <3>2, <3>3
    <2> QED
      BY <2>1 DEF Begun, Begin, n
  <1> QED
    BY <1>5, <1>10, <1>11 DEF n

(* What stands at a request left over stands for the rest alone.           *)
LEMMA RestStanding ==
  ASSUME NEW reqs \in Seq(Request), NEW rest \in Seq(Request), NEW standing, NEW still, NEW r,
         Standing(reqs, standing, r, Len(reqs) + 1) => r \in still
  PROVE  /\ Standing(reqs \o rest, standing, r, Len(reqs \o rest) + 1) =>
              Standing(rest, still, r, Len(rest) + 1)
         /\ \A j \in 1..Len(rest) : Standing(reqs \o rest, standing, r, Len(reqs) + j) =>
              Standing(rest, still, r, j)
  <1> DEFINE n == Len(reqs)
             all == reqs \o rest
  <1>1. /\ n \in Nat /\ Len(rest) \in Nat /\ Len(all) = n + Len(rest)
        /\ \A i \in 1..n : all[i] = reqs[i]
        /\ \A i \in 1..Len(rest) : all[n + i] = rest[i]
    BY RestOfRequests
  <1>2. Standing(reqs, standing, r, n + 1) => r \in still
    OBVIOUS
  <1> HIDE DEF n, all
  <1>3. ASSUME NEW j \in 1..Len(rest) + 1, Standing(all, standing, r, n + j)
        PROVE  Standing(rest, still, r, j)
    <2>1. CASE r \in standing
      BY <1>2, <2>1 DEF Standing
    <2>2. ASSUME NEW i \in 1..(n + j) - 1, all[i].kind = "List", all[i].rid = r
          PROVE  Standing(rest, still, r, j)
      <3>1. CASE i \in 1..n
        <4>1. i \in 1..(n + 1) - 1 /\ reqs[i] = all[i]
          BY <1>1, <3>1
        <4> QED
          BY <1>2, <2>2, <4>1 DEF Standing
      <3>2. CASE i \notin 1..n
        <4>1. i - n \in 1..j - 1 /\ i - n \in 1..Len(rest) /\ n + (i - n) = i
          BY <1>1, <3>2
        <4>2. rest[i - n] = all[i]
          BY <1>1, <4>1
        <4> QED
          BY <2>2, <4>1, <4>2 DEF Standing
      <3> QED
        BY <3>1, <3>2
    <2> QED
      BY <1>3, <2>1, <2>2 DEF Standing
  <1>4. Len(all) + 1 = n + (Len(rest) + 1) /\ Len(rest) + 1 \in 1..Len(rest) + 1
        /\ \A j \in 1..Len(rest) : j \in 1..Len(rest) + 1
    BY <1>1
  <1> QED
    BY <1>3, <1>4 DEF n, all

(* The same for a subscription.                                            *)
LEMMA RestSubscribed ==
  ASSUME NEW reqs \in Seq(Request), NEW rest \in Seq(Request), NEW subscribed, NEW still, NEW s,
         Subscribed(reqs, subscribed, s, Len(reqs) + 1) => s \in still
  PROVE  /\ Subscribed(reqs \o rest, subscribed, s, Len(reqs \o rest) + 1) =>
              Subscribed(rest, still, s, Len(rest) + 1)
         /\ \A j \in 1..Len(rest) : Subscribed(reqs \o rest, subscribed, s, Len(reqs) + j) =>
              Subscribed(rest, still, s, j)
  <1> DEFINE n == Len(reqs)
             all == reqs \o rest
  <1>1. /\ n \in Nat /\ Len(rest) \in Nat /\ Len(all) = n + Len(rest)
        /\ \A i \in 1..n : all[i] = reqs[i]
        /\ \A i \in 1..Len(rest) : all[n + i] = rest[i]
    BY RestOfRequests
  <1>2. Subscribed(reqs, subscribed, s, n + 1) => s \in still
    OBVIOUS
  <1>3. /\ \A k \in 1..n : Unsubscribes(reqs, s, k) = Unsubscribes(all, s, k)
        /\ \A k \in 1..Len(rest) : Unsubscribes(rest, s, k) = Unsubscribes(all, s, n + k)
    BY <1>1 DEF Unsubscribes
  <1> HIDE DEF n, all
  <1>4. ASSUME NEW j \in 1..Len(rest) + 1, Subscribed(all, subscribed, s, n + j)
        PROVE  Subscribed(rest, still, s, j)
    <2>0. /\ \A k \in 1..(n + 1) - 1 : k \in 1..n /\ k \in 1..(n + j) - 1
          /\ \A k \in 1..j - 1 : k \in 1..Len(rest) /\ n + k \in 1..(n + j) - 1
      BY <1>1
    <2>1. CASE s \in subscribed /\ \A k \in 1..(n + j) - 1 : ~Unsubscribes(all, s, k)
      <3>1. \A k \in 1..(n + 1) - 1 : ~Unsubscribes(reqs, s, k)
        BY <1>3, <2>0, <2>1
      <3>2. s \in still
        BY <1>2, <2>1, <3>1 DEF Subscribed
      <3>3. \A k \in 1..j - 1 : ~Unsubscribes(rest, s, k)
        BY <1>3, <2>0, <2>1
      <3> QED
        BY <3>2, <3>3 DEF Subscribed
    <2>2. ASSUME NEW i \in 1..(n + j) - 1, all[i].kind = "Subscribe", all[i].sid = s,
                 \A k \in i..(n + j) - 1 : ~Unsubscribes(all, s, k)
          PROVE  Subscribed(rest, still, s, j)
      <3>1. CASE i \in 1..n
        <4>1. /\ i \in 1..(n + 1) - 1 /\ reqs[i] = all[i]
              /\ \A k \in i..(n + 1) - 1 : k \in 1..n /\ k \in i..(n + j) - 1
              /\ \A k \in 1..j - 1 : n + k \in i..(n + j) - 1
          BY <1>1, <3>1, SMTT(30)
        <4>2. \A k \in i..(n + 1) - 1 : ~Unsubscribes(reqs, s, k)
          BY <1>3, <2>2, <4>1
        <4>3. s \in still
          BY <1>2, <2>2, <4>1, <4>2 DEF Subscribed
        <4>4. \A k \in 1..j - 1 : ~Unsubscribes(rest, s, k)
          BY <1>3, <2>0, <2>2, <4>1
        <4> QED
          BY <4>3, <4>4 DEF Subscribed
      <3>2. CASE i \notin 1..n
        <4>1. /\ i - n \in 1..j - 1 /\ i - n \in 1..Len(rest) /\ n + (i - n) = i
              /\ \A k \in i - n..j - 1 : k \in 1..Len(rest) /\ n + k \in i..(n + j) - 1
          <5>1. i \in Nat /\ j \in Nat /\ n < i /\ i < n + j /\ j \leq Len(rest) + 1
            BY <1>1, <3>2
          <5>2. i - n \in 1..j - 1 /\ i - n \in 1..Len(rest) /\ n + (i - n) = i
            BY <1>1, <5>1
          <5>3. ASSUME NEW k \in i - n..j - 1
                PROVE  k \in 1..Len(rest) /\ n + k \in i..(n + j) - 1
            BY <1>1, <5>1
          <5> QED
            BY <5>2, <5>3
        <4>2. rest[i - n] = all[i]
          BY <1>1, <4>1
        <4>3. \A k \in i - n..j - 1 : ~Unsubscribes(rest, s, k)
          BY <1>3, <2>2, <4>1
        <4> QED
          BY <2>2, <4>1, <4>2, <4>3 DEF Subscribed
      <3> QED
        BY <3>1, <3>2
    <2> QED
      BY <1>4, <2>1, <2>2 DEF Subscribed
  <1>5. Len(all) + 1 = n + (Len(rest) + 1) /\ Len(rest) + 1 \in 1..Len(rest) + 1
        /\ \A j \in 1..Len(rest) : j \in 1..Len(rest) + 1
    BY <1>1
  <1> QED
    BY <1>4, <1>5 DEF n, all

(* What the client has asked for after that is still right.                *)
LEMMA RequestsKeepWishes ==
  ASSUME NEW reqs \in Seq(Request), NEW rest \in Seq(Request), NEW res, NEW t, NEW c \in ClientState,
         GoneThrough(t, reqs, res),
         Wishes(reqs \o rest, UsedIn(t[0]), StandIn(t[0]), t[0].subscribed, c)
  PROVE  LET e == t[Len(reqs)] IN
           TablesOf(e) /\ Wishes(rest, UsedIn(e), StandIn(e), e.subscribed, c)
  <1> DEFINE n == Len(reqs)
             all == reqs \o rest
             e == t[Len(reqs)]
             used == UsedIn(t[0])
             standing == StandIn(t[0])
             subscribed == t[0].subscribed
  <1>1. /\ n \in Nat /\ Len(rest) \in Nat /\ Len(all) = n + Len(rest)
        /\ \A i \in 1..n : all[i] = reqs[i] /\ i \in 1..Len(all)
        /\ \A i \in 1..Len(rest) : all[n + i] = rest[i] /\ n + i \in 1..Len(all)
    BY RestOfRequests
  <1>2. /\ Fresh(all, used, c.next) /\ used \cup c.lists \subseteq 1..c.next - 1
        /\ Closable(all, standing, c.lists) /\ Unsubscribable(all, subscribed, c.sids)
    BY DEF Wishes
  <1>3. c.next \in Nat
    BY RidCount DEF ClientState
  <1>4. /\ Fresh(reqs, used, c.next)
        /\ Fresh(rest, used \cup Begun(reqs, n), c.next)
        /\ used \cup Begun(reqs, n) \subseteq 1..c.next - 1
    BY <1>2, <1>3, RestFresh
  <1>5. SoFar(t, reqs, n)
    BY <1>4, GoneAll
  <1>6. /\ TablesOf(e) /\ UsedIn(e) \subseteq used \cup Begun(reqs, n)
        /\ \A r : Standing(reqs, standing, r, n + 1) /\ NotClosed(reqs, r, n) => r \in StandIn(e)
        /\ \A s : Subscribed(reqs, subscribed, s, n + 1) => s \in e.subscribed
    BY <1>5 DEF SoFar
  <1>7. Fresh(rest, UsedIn(e), c.next) /\ UsedIn(e) \cup c.lists \subseteq 1..c.next - 1
    BY <1>2, <1>4, <1>6 DEF Fresh
  <1>8. \A r : NotClosed(reqs, r, n) =>
          /\ Standing(all, standing, r, Len(all) + 1) => Standing(rest, StandIn(e), r, Len(rest) + 1)
          /\ \A j \in 1..Len(rest) : Standing(all, standing, r, n + j) => Standing(rest, StandIn(e), r, j)
    BY <1>6, RestStanding
  <1>9. \A s :
          /\ Subscribed(all, subscribed, s, Len(all) + 1) => Subscribed(rest, e.subscribed, s, Len(rest) + 1)
          /\ \A j \in 1..Len(rest) :
               Subscribed(all, subscribed, s, n + j) => Subscribed(rest, e.subscribed, s, j)
    BY <1>6, RestSubscribed
  <1> HIDE DEF n, all, e, used, standing, subscribed
  <1>10. /\ \A r \in c.lists : Standing(all, standing, r, Len(all) + 1)
         /\ \A j \in 1..Len(all) : all[j].kind = "Close" =>
              /\ all[j].rid \notin c.lists
              /\ Standing(all, standing, all[j].rid, j)
              /\ \A i \in 1..Len(all) : all[i].kind = "Close" /\ i # j => all[i].rid # all[j].rid
    BY <1>2 DEF Closable
  <1>11. \A r \in c.lists : NotClosed(reqs, r, n)
    BY <1>1, <1>10 DEF NotClosed, Closes
  <1>12. ASSUME NEW j \in 1..Len(rest), rest[j].kind = "Close"
         PROVE  /\ rest[j].rid \notin c.lists
                /\ Standing(rest, StandIn(e), rest[j].rid, j)
                /\ \A i \in 1..Len(rest) : rest[i].kind = "Close" /\ i # j => rest[i].rid # rest[j].rid
    <2>1. n + j \in 1..Len(all) /\ all[n + j] = rest[j]
      BY <1>1
    <2>2. NotClosed(reqs, rest[j].rid, n)
      <3> SUFFICES ASSUME NEW i \in 1..n PROVE ~Closes(reqs[i], rest[j].rid)
        BY DEF NotClosed
      <3>1. i \in 1..Len(all) /\ all[i] = reqs[i] /\ i # n + j
        BY <1>1
      <3> QED
        BY <1>10, <1>12, <2>1, <3>1 DEF Closes
    <2>3. Standing(all, standing, rest[j].rid, n + j) /\ rest[j].rid \notin c.lists
      BY <1>10, <1>12, <2>1
    <2>4. \A i \in 1..Len(rest) : rest[i].kind = "Close" /\ i # j => rest[i].rid # rest[j].rid
      <3> TAKE i \in 1..Len(rest)
      <3>1. n + i \in 1..Len(all) /\ all[n + i] = rest[i] /\ (i # j => n + i # n + j)
        BY <1>1
      <3> QED
        BY <1>10, <1>12, <2>1, <3>1
    <2> QED
      BY <1>8, <2>2, <2>3, <2>4
  <1>13. Closable(rest, StandIn(e), c.lists)
    BY <1>8, <1>10, <1>11, <1>12 DEF Closable
  <1>14. Unsubscribable(rest, e.subscribed, c.sids)
    <2>1. \A s \in c.sids : Subscribed(rest, e.subscribed, s, Len(rest) + 1)
      BY <1>2, <1>9 DEF Unsubscribable
    <2>2. ASSUME NEW j \in 1..Len(rest), rest[j].kind = "Unsubscribe"
          PROVE  Subscribed(rest, e.subscribed, rest[j].sid, j)
      <3>1. n + j \in 1..Len(all) /\ all[n + j] = rest[j]
        BY <1>1
      <3>2. Subscribed(all, subscribed, rest[j].sid, n + j)
        BY <1>2, <2>2, <3>1 DEF Unsubscribable
      <3> QED
        BY <1>9, <3>2
    <2> QED
      BY <2>1, <2>2 DEF Unsubscribable
  <1> QED
    BY <1>6, <1>7, <1>13, <1>14 DEF Wishes, e

(*------------------------------- the tables ------------------------------*)

(* Which requests end, by what they have in common with others.            *)
LEMMA ClosedElems == \A s : ClosedIn(s) = {x.rid : x \in {y \in Elems(s) : y.closed}}
  BY DEF ClosedIn, Elems

(* The ids closed by a response more.                                      *)
LEMMA ClosedAppend ==
  ASSUME NEW S, NEW s \in Seq(S), NEW a \in S
  PROVE  ClosedIn(Append(s, a)) = ClosedIn(s) \cup (IF a.closed THEN {a.rid} ELSE {})
  <1>1. Elems(Append(s, a)) = Elems(s) \cup {a}
    BY ElemsAppend
  <1> QED
    BY <1>1, ClosedElems

(* The ids closed by responses after one another.                          *)
LEMMA ClosedConcat ==
  ASSUME NEW S, NEW s \in Seq(S), NEW t \in Seq(S)
  PROVE  ClosedIn(s \o t) = ClosedIn(s) \cup ClosedIn(t)
  <1>1. Elems(s \o t) = Elems(s) \cup Elems(t)
    BY ElemsConcat
  <1> QED
    BY <1>1, ClosedElems

(* Rows end nothing.                                                       *)
LEMMA ClosedOthers ==
  ASSUME NEW rs \in Seq(Response)
  PROVE  ClosedIn(Others(rs)) = ClosedIn(rs)
  <1>1. Elems(Others(rs)) = Elems(rs) \cap OtherResponse
    BY KeptElems DEF Others
  <1>2. ASSUME NEW x \in Elems(rs), x.closed PROVE x \in OtherResponse
    <2>1. x \in Response
      BY ElementOfSeq DEF Elems
    <2> QED
      BY <1>2, <2>1 DEF Response, RowResponse
  <1> QED
    BY <1>1, <1>2, ClosedElems

(* They are request ids.                                                   *)
LEMMA ClosedType ==
  ASSUME NEW s \in Seq(OtherResponse)
  PROVE  ClosedIn(s) \subseteq Rid
  <1>1. \A i \in 1..Len(s) : s[i].rid \in Rid
    <2> TAKE i \in 1..Len(s)
    <2>1. s[i] \in OtherResponse
      BY ElementOfSeq
    <2> QED
      BY <2>1 DEF OtherResponse
  <1> QED
    BY <1>1 DEF ClosedIn

(* The node will give the answers it has not given yet.                    *)
LEMMA OutTypes ==
  ASSUME NEW v \in NodeState
  PROVE  Others(v.out) \in Seq(OtherResponse)
  <1>1. v.out \in Seq(Response) /\ OtherResponse \cap Response = OtherResponse
    BY DEF NodeState, Response
  <1> QED
    BY <1>1, KeptType DEF Others

(* The types of all that is on its way to the link.                        *)
LEMMA AllDueTypes ==
  ASSUME Types
  PROVE  /\ AfterBox \in NodeState /\ OthersDue \in Seq(OtherResponse)
         /\ Others(AfterBox.out) \in Seq(OtherResponse)
         /\ AllDue \in Seq(OtherResponse) /\ Asked \in Seq(Request)
         /\ Closing = ClosedIn(OthersDue) \cup ClosedIn(Others(AfterBox.out))
         /\ Closing \subseteq Rid
  <1> DEFINE a == OthersDue
             b == Others(AfterBox.out)
  <1>1. AfterBox \in NodeState
    BY NodeNowType DEF Types
  <1>2. a \in Seq(OtherResponse) /\ Asked \in Seq(Request)
    BY HeldOfMe DEF Types
  <1>3. b \in Seq(OtherResponse)
    BY <1>1, OutTypes
  <1> HIDE DEF a, b
  <1>4. a \o b \in Seq(OtherResponse)
    BY <1>2, <1>3
  <1>5. ClosedIn(a \o b) = ClosedIn(a) \cup ClosedIn(b)
    BY <1>2, <1>3, ClosedConcat
  <1>6. ClosedIn(a \o b) \subseteq Rid
    BY <1>4, ClosedType
  <1> QED
    BY <1>1, <1>2, <1>3, <1>4, <1>5, <1>6 DEF Closing, AllDue, a, b

(* TablesInv in terms of the two tables and the wishes.                    *)
LEMMA TablesInvIs == TablesInv <=>
  /\ Tables(byRid, Subscriptions, AfterBox.rids, AfterBox.sids, Closing)
  /\ Wishes(Asked, byRid \cup Closing, byRid \ Closing, Subscriptions, client)
  BY DEF TablesInv, Wishes

(* The same after a step.                                                  *)
LEMMA TablesInvIsPrime == TablesInv' <=>
  /\ Tables(byRid', Subscriptions', AfterBox.rids', AfterBox.sids', Closing')
  /\ Wishes(Asked', byRid' \cup Closing', byRid' \ Closing', Subscriptions', client')
  BY DEF TablesInv, Wishes

(* A step that changes none of them keeps it.                              *)
LEMMA TablesStay ==
  ASSUME TablesInv, UNCHANGED <<byRid, bySid, client>>, Asked' = Asked, Closing' = Closing,
         AfterBox.rids' = AfterBox.rids, AfterBox.sids' = AfterBox.sids
  PROVE  TablesInv'
  <1>1. Subscriptions' = Subscriptions
    BY DEF Subscriptions
  <1> QED
    BY <1>1, TablesInvIs, TablesInvIsPrime

(* The same for the part of the node, and of what is on its way.           *)
LEMMA BoxStays ==
  ASSUME UNCHANGED nodeVars
  PROVE  AfterBox' = AfterBox /\ (OthersDue' = OthersDue => Closing' = Closing)
  <1>1. NodeNow' = NodeNow /\ nodeBox' = nodeBox
    BY DEF NodeNow, nodeVars
  <1>2. AfterBox' = AfterBox
    BY <1>1, BoxFold, BoxFoldPrime
  <1> QED
    BY <1>2 DEF Closing, AllDue

(* The node answers what it was going to answer.                           *)
LEMMA NodeAnswersAsSaid ==
  ASSUME Types, NodeAnswers
  PROVE  AfterBox.rids' = AfterBox.rids /\ AfterBox.sids' = AfterBox.sids /\ Closing' = Closing
  <1>0. LinkTypes /\ QuietStash /\ TableTypes
    BY DEF Types
  <1>1. nodeBox # <<>> /\ nodeBox \in Seq(Seq(Request))
    BY <1>0 DEF NodeAnswers, NodeReceives, TableTypes, NodeTypeOK
  <1> DEFINE first == Head(nodeBox)
             others == Tail(nodeBox)
             R == FlattenSeq(others)
             v == NodeAfter(NodeNow, first)
             said == Others(NodeAnswer)
  <1>2. /\ first \in Seq(Request) /\ others \in Seq(Seq(Request))
        /\ HandledAll(first) = v /\ v \in NodeState /\ NodeAnswer \in Seq(Response)
    BY <1>0, <1>1, AnswerType
  <1>3. NodeNow \in NodeState
    BY <1>0, NodeNowType
  <1>4. nodeBox = <<first>> \o others
    <2> DEFINE S == Seq(Request)
    <2>1. nodeBox \in Seq(S)
      BY <1>1
    <2> HIDE DEF S
    <2>2. nodeBox = <<Head(nodeBox)>> \o Tail(nodeBox)
      BY <1>1, <2>1
    <2> QED
      BY <2>2
  <1>5. rids' = v.rids /\ sids' = v.sids /\ stamp' = v.stamp /\ nodeBox' = others /\ version' = version
    BY <1>2 DEF NodeAnswers, NodeReceives
  <1>6. said = Others(v.out) /\ said \in Seq(OtherResponse)
    BY <1>2, OutTypes DEF NodeAnswer
  <1> HIDE DEF first, others, v, said
  <1>7. FlattenSeq(nodeBox) = first \o R /\ R \in Seq(Request)
    <2> DEFINE one == <<first>>
    <2>1. one \in Seq(Seq(Request)) /\ FlattenSeq(one) = first
      BY <1>2, FlatOne
    <2> HIDE DEF one
    <2>2. FlattenSeq(one \o others) = FlattenSeq(one) \o FlattenSeq(others)
      BY <1>2, <2>1, FlatConcat
    <2>3. R \in Seq(Request)
      BY <1>2, FlatType
    <2> QED
      BY <1>4, <2>1, <2>2, <2>3 DEF one
  <1> HIDE DEF R
  <1>8. AfterBox = NodeAfter(v, R)
    <2>1. NodeAfter(NodeNow, first \o R) = NodeAfter(NodeAfter(NodeNow, first), R)
      BY <1>2, <1>7, NodeAfterBoth
    <2> QED
      BY <1>7, <2>1, BoxFold DEF v
  <1> DEFINE n == NodeNow'
  <1>9. /\ n \in NodeState /\ n.out = <<>> /\ n.rids = v.rids /\ n.sids = v.sids /\ n.stamp = v.stamp
    <2>1. n = [rids |-> v.rids, sids |-> v.sids, version |-> version, stamp |-> v.stamp, out |-> <<>>]
      BY <1>5 DEF NodeNow
    <2>2. version \in 0..MaxVersion /\ <<>> \in Seq(Response)
      BY <1>0 DEF TableTypes, NodeTypeOK
    <2> HIDE DEF n
    <2> QED
      BY <1>2, <2>1, <2>2 DEF NodeState
  <1>10. AfterBox' = NodeAfter(n, R)
    BY <1>5, BoxFoldPrime DEF R
  <1> HIDE DEF n
  <1>11. Alike(v, n, said)
    <2>1. Others(n.out) = <<>>
      BY <1>9, KeptEmpty DEF Others
    <2>2. said \o <<>> = said
      BY <1>6
    <2> QED
      BY <1>6, <1>9, <2>1, <2>2 DEF Alike
  <1>12. Alike(NodeAfter(v, R), NodeAfter(n, R), said)
    BY <1>2, <1>6, <1>7, <1>9, <1>11, AlikeAfter
  <1> DEFINE x == Others(AfterBox'.out)
             due == OthersDue
  <1>13. /\ AfterBox.rids' = AfterBox.rids /\ AfterBox.sids' = AfterBox.sids
         /\ Others(AfterBox.out) = said \o x
    BY <1>8, <1>10, <1>12 DEF Alike
  <1>14. x \in Seq(OtherResponse)
    <2>1. NodeAfter(n, R) \in NodeState
      BY <1>7, <1>9, NodeAfterType
    <2> QED
      BY <1>10, <2>1, OutTypes
  <1>15. OthersDue' = due \o said
    BY <1>0, <1>2, NodeAnswersMoves DEF said
  <1>16. due \in Seq(OtherResponse)
    BY <1>0, HeldOfMe
  <1>17. AllDue = due \o (said \o x) /\ AllDue' = (due \o said) \o x
    BY <1>13, <1>15 DEF AllDue
  <1> HIDE DEF due, x
  <1>18. (due \o said) \o x = due \o (said \o x)
    BY <1>6, <1>14, <1>16, ConcatAssoc
  <1> QED
    BY <1>13, <1>17, <1>18 DEF Closing

(* A new value changes none of that.                                       *)
LEMMA NodeChangesNothing ==
  ASSUME Types, NodeChanges
  PROVE  AfterBox.rids' = AfterBox.rids /\ AfterBox.sids' = AfterBox.sids /\ Closing' = Closing
  <1>0. LinkTypes /\ QuietStash /\ TableTypes /\ TableTypes'
    BY NodeChangesTables DEF Types
  <1>1. UNCHANGED <<nodeBox, rids, sids, stamp>>
    BY DEF NodeChanges, NodeValue
  <1> DEFINE n == NodeNow'
             v == NodeNow
             R == FlattenSeq(nodeBox)
             none == <<>>
  <1>2. v \in NodeState /\ R \in Seq(Request)
    BY <1>0, NodeNowType
  <1>3. /\ n \in NodeState /\ n.out = <<>> /\ n.rids = rids /\ n.sids = sids /\ n.stamp = stamp
        /\ v.out = <<>> /\ v.rids = rids /\ v.sids = sids /\ v.stamp = stamp
    BY <1>0, <1>1 DEF NodeNow, TableTypes, NodeTypeOK, NodeState
  <1>4. AfterBox = NodeAfter(v, R) /\ AfterBox' = NodeAfter(n, R)
    BY <1>1, BoxFold, BoxFoldPrime
  <1> HIDE DEF n, v, R
  <1>5. Alike(v, n, none)
    <2>1. Others(<<>>) = <<>> /\ <<>> \o <<>> = <<>>
      BY KeptEmpty DEF Others
    <2> QED
      BY <1>3, <2>1 DEF Alike
  <1>6. none \in Seq(OtherResponse)
    OBVIOUS
  <1> HIDE DEF none
  <1>7. Alike(NodeAfter(v, R), NodeAfter(n, R), none)
    BY <1>2, <1>3, <1>5, <1>6, AlikeAfter
  <1> DEFINE x == Others(AfterBox'.out)
  <1>8. x \in Seq(OtherResponse)
    <2>1. NodeAfter(n, R) \in NodeState
      BY <1>2, <1>3, NodeAfterType
    <2> QED
      BY <1>4, <2>1, OutTypes
  <1>9. /\ AfterBox.rids' = AfterBox.rids /\ AfterBox.sids' = AfterBox.sids
        /\ Others(AfterBox.out) = none \o x
    BY <1>4, <1>7 DEF Alike
  <1> HIDE DEF x
  <1>10. none \o x = x
    BY <1>8 DEF none
  <1>11. OthersDue' = OthersDue
    BY <1>0, NodeChangesMoves DEF SameTraffic
  <1> QED
    BY <1>9, <1>10, <1>11 DEF Closing, AllDue, x

(* What a response ends leaves the table.                                  *)
LEMMA ResponsesKeepTables ==
  ASSUME TablesInv, NEW gone, byRid' = byRid \ gone, gone \cup Closing' = Closing,
         UNCHANGED <<bySid, client>>, AfterBox' = AfterBox, Asked' = Asked
  PROVE  TablesInv'
  <1>1. Subscriptions' = Subscriptions
    BY DEF Subscriptions
  <1>2. /\ Subscriptions = AfterBox.sids /\ AfterBox.rids \subseteq byRid
        /\ Answered => byRid \ AfterBox.rids \subseteq Closing
        /\ AfterBox.rids \cap Closing = {}
    BY TablesInvIs DEF Tables
  <1>3. Tables(byRid', Subscriptions', AfterBox.rids', AfterBox.sids', Closing')
    BY <1>1, <1>2 DEF Tables
  <1>4. byRid' \ Closing' = byRid \ Closing
    OBVIOUS
  <1>5. byRid' \cup Closing' \subseteq byRid \cup Closing
    OBVIOUS
  <1> DEFINE u == byRid \cup Closing
             w == byRid' \cup Closing'
             stand == byRid \ Closing
  <1>6. Wishes(Asked, u, stand, Subscriptions, client)
    BY TablesInvIs
  <1> HIDE DEF u, w, stand
  <1>7. w \subseteq u
    BY <1>5 DEF u, w
  <1>8. Wishes(Asked, w, stand, Subscriptions, client)
    BY <1>6, <1>7 DEF Wishes, Fresh
  <1>9. Wishes(Asked', w, byRid' \ Closing', Subscriptions', client')
    BY <1>1, <1>4, <1>8 DEF stand
  <1> QED
    BY <1>3, <1>9, TablesInvIsPrime DEF w

(* A closed request leaves the link's table when its response does.        *)
LEMMA HandleResponsesEnds ==
  ASSUME Types, TablesInv, HandleResponses
  PROVE  TablesInv'
  <1>0. LinkTypes /\ QuietStash
    BY DEF Types
  <1> DEFINE rs == Head(mail[Me]).rs
             a == Others(rs)
             b == OthersDue'
             x == Others(AfterBox.out)
  <1>1. rs \in Seq(Response) /\ b \in Seq(OtherResponse) /\ OthersDue = a \o b /\ Asked' = Asked
    BY <1>0, HandleResponsesMoves
  <1>2. byRid' = byRid \ ClosedIn(rs) /\ UNCHANGED <<bySid, client>> /\ UNCHANGED nodeVars
    BY DEF HandleResponses, Cleanup, ClosedIn, outsideVars
  <1>3. AfterBox' = AfterBox
    BY <1>2, BoxStays
  <1>4. a \in Seq(OtherResponse) /\ ClosedIn(a) = ClosedIn(rs)
    <2>1. OtherResponse \cap Response = OtherResponse
      BY DEF Response
    <2> HIDE DEF rs
    <2>2. Others(rs) \in Seq(OtherResponse)
      BY <1>1, <2>1, KeptType DEF Others
    <2> QED
      BY <1>1, <2>2, ClosedOthers
  <1>5. x \in Seq(OtherResponse) /\ Closing = ClosedIn(OthersDue) \cup ClosedIn(x)
    BY AllDueTypes
  <1>6. Closing' = ClosedIn(b \o x)
    BY <1>3 DEF Closing, AllDue
  <1> HIDE DEF a, b, x, rs
  <1>7. ClosedIn(a \o b) = ClosedIn(a) \cup ClosedIn(b)
    BY <1>1, <1>4, ClosedConcat
  <1>8. ClosedIn(b \o x) = ClosedIn(b) \cup ClosedIn(x)
    BY <1>1, <1>5, ClosedConcat
  <1>9. ClosedIn(rs) \cup Closing' = Closing
    BY <1>1, <1>4, <1>5, <1>6, <1>7, <1>8
  <1> QED
    BY <1>1, <1>2, <1>3, <1>9, ResponsesKeepTables

(* Likewise when the response is only kept for a later session.            *)
LEMMA KeepResponsesEnds ==
  ASSUME Types, TablesInv, KeepResponses
  PROVE  TablesInv'
  <1>0. LinkTypes /\ QuietStash
    BY DEF Types
  <1> DEFINE m == Head(mail[Me])
             rs == m.rs
             a == Due(stash[Me])
             b == Others(rs)
             d == Due(Tail(mail[Me]))
  <1>1. mail[Me] # <<>> /\ m.kind = "Responses"
    BY DEF KeepResponses, Holds
  <1>2. rs \in Seq(Response)
    BY <1>0, <1>1, HeadTypes
  <1>3. byRid' = byRid \ ClosedIn(rs) /\ UNCHANGED <<bySid, client>> /\ UNCHANGED nodeVars
    BY DEF KeepResponses, Cleanup, ClosedIn, outsideVars
  <1>4. OthersDue' = OthersDue /\ Asked' = Asked
    BY <1>0, KeepResponsesMoves DEF SameTraffic
  <1>5. AfterBox' = AfterBox /\ Closing' = Closing
    BY <1>3, <1>4, BoxStays
  <1>6. stash[Me] \in Seq(LinkMessage) /\ mail[Me] \in Seq(LinkMessage)
    BY <1>0, HeldOfMe
  <1>7. m \in LinkMessage /\ Tail(mail[Me]) \in Seq(LinkMessage) /\ OthersDue = a \o (OthersIn(m) \o d)
    <2> DEFINE st == stash[Me]
               ml == mail[Me]
    <2>1. st \in Seq(LinkMessage) /\ ml \in Seq(LinkMessage) /\ ml # <<>>
      BY <1>1, <1>6
    <2>2. OthersDue = Due(st \o ml)
      BY DueIs
    <2> HIDE DEF st, ml
    <2>3. /\ Head(ml) \in LinkMessage /\ Tail(ml) \in Seq(LinkMessage)
          /\ Due(st \o ml) = Due(st) \o (OthersIn(Head(ml)) \o Due(Tail(ml)))
      BY <2>1, HeldSplit
    <2> QED
      BY <2>2, <2>3 DEF st, ml
  <1>8. OthersIn(m) = b
    BY <1>1 DEF OthersIn
  <1>9. a \in Seq(OtherResponse) /\ d \in Seq(OtherResponse) /\ b \in Seq(OtherResponse)
    BY <1>6, <1>7, <1>8, HeldTypes, InTypes
  <1>10. ClosedIn(b) = ClosedIn(rs)
    BY <1>2, ClosedOthers
  <1>11. ClosedIn(OthersDue) \subseteq Closing
    BY AllDueTypes
  <1> HIDE DEF a, b, d, m, rs
  <1>12. ClosedIn(a \o (b \o d)) = ClosedIn(a) \cup ClosedIn(b \o d) /\ b \o d \in Seq(OtherResponse)
    <2> DEFINE e == b \o d
    <2>1. e \in Seq(OtherResponse)
      BY <1>9
    <2> HIDE DEF e
    <2>2. ClosedIn(a \o e) = ClosedIn(a) \cup ClosedIn(e)
      BY <1>9, <2>1, ClosedConcat
    <2> QED
      BY <2>1, <2>2 DEF e
  <1>13. ClosedIn(b \o d) = ClosedIn(b) \cup ClosedIn(d)
    BY <1>9, ClosedConcat
  <1>14. ClosedIn(rs) \cup Closing' = Closing
    BY <1>5, <1>7, <1>8, <1>10, <1>11, <1>12, <1>13
  <1> QED
    BY <1>3, <1>4, <1>5, <1>14, ResponsesKeepTables

(* A client asks.                                                          *)
LEMMA AskTables ==
  ASSUME Types, TablesInv, NEW reqs, ClientSends(reqs),
         Asked' = Asked \o reqs, OthersDue' = OthersDue,
         Wishes(Asked \o reqs, byRid \cup Closing, byRid \ Closing, Subscriptions, client')
  PROVE  TablesInv'
  <1>1. UNCHANGED <<bySid, byRid>> /\ UNCHANGED nodeVars
    BY DEF ClientSends, behaviorVars
  <1>2. AfterBox' = AfterBox /\ Closing' = Closing
    BY <1>1, BoxStays
  <1>3. Subscriptions' = Subscriptions
    BY <1>1 DEF Subscriptions
  <1>4. Tables(byRid', Subscriptions', AfterBox.rids', AfterBox.sids', Closing')
    BY <1>1, <1>2, <1>3, TablesInvIs
  <1> DEFINE all == Asked \o reqs
  <1>5. Wishes(all, byRid' \cup Closing', byRid' \ Closing', Subscriptions', client')
    <2> HIDE DEF all
    <2>1. Wishes(all, byRid \cup Closing, byRid \ Closing, Subscriptions, client')
      BY DEF all
    <2> QED
      BY <1>1, <1>2, <1>3, <2>1
  <1> QED
    BY <1>4, <1>5, TablesInvIsPrime

(* A client that sends within the protocol keeps the agreement.            *)
LEMMA ClientSendsAgree ==
  ASSUME Types, TablesInv, NEW a \in Asks(client),
         \/ ClientSends(<<a>>)
         \/ \E b \in Asks(HavingAsked(client, a)) : ClientSends(<<a, b>>)
  PROVE  TablesInv'
  <1> DEFINE u == byRid \cup Closing
             stand == byRid \ Closing
             c == HavingAsked(client, a)
             asked == Asked
             more == Append(asked, a)
  <1>0. LinkTypes /\ QuietStash /\ TableTypes
    BY DEF Types
  <1>1. client \in ClientState /\ asked \in Seq(Request)
    BY <1>0, AllDueTypes DEF TableTypes
  <1>2. Wishes(asked, u, stand, Subscriptions, client) /\ stand \subseteq u
    BY TablesInvIs
  <1>3. /\ <<a>> \in Seq(Request) /\ a \in Request /\ c \in ClientState
        /\ FoldLeft(HavingAsked, client, <<a>>) = c
        /\ \A b \in Asks(c) :
             /\ <<a, b>> \in Seq(Request) /\ b \in Request
             /\ FoldLeft(HavingAsked, client, <<a, b>>) = HavingAsked(c, b)
    BY <1>0, OneIsAsked
  <1> HIDE DEF asked, u, stand
  <1>4. Wishes(more, u, stand, Subscriptions, c)
    BY <1>1, <1>2, AskKeepsWishes
  <1>5. more \in Seq(Request) /\ asked \o <<a>> = more
    BY <1>1, <1>3
  <1>6. CASE ClientSends(<<a>>)
    <2>1. client' = c
      BY <1>3, <1>6 DEF ClientSends
    <2>2. Asked' = Asked \o <<a>> /\ OthersDue' = OthersDue
      BY <1>0, <1>3, <1>6, ClientSendsMoves
    <2>3. Wishes(Asked \o <<a>>, byRid \cup Closing, byRid \ Closing, Subscriptions, client')
      BY <1>4, <1>5, <2>1 DEF asked, u, stand
    <2> QED
      BY <1>6, <2>2, <2>3, AskTables
  <1>7. ASSUME NEW b \in Asks(c), ClientSends(<<a, b>>) PROVE TablesInv'
    <2> DEFINE two == <<a, b>>
               d == HavingAsked(c, b)
    <2>1. client' = d
      BY <1>3, <1>7 DEF ClientSends
    <2>2. two \in Seq(Request) /\ b \in Request
      BY <1>3
    <2>3. asked \o two = Append(more, b)
      BY <1>1, <1>3, <2>2
    <2>4. ClientSends(two)
      BY <1>7
    <2> HIDE DEF two, more, c
    <2>5. Wishes(Append(more, b), u, stand, Subscriptions, d)
      BY <1>2, <1>3, <1>4, <1>5, <1>7, AskKeepsWishes DEF c
    <2>6. Asked' = Asked \o two /\ OthersDue' = OthersDue
      BY <1>0, <2>2, <2>4, ClientSendsMoves
    <2>7. Wishes(Asked \o two, byRid \cup Closing, byRid \ Closing, Subscriptions, client')
      BY <2>1, <2>3, <2>5 DEF asked, u, stand
    <2> QED
      BY <2>4, <2>6, <2>7, AskTables
  <1> QED
    BY <1>6, <1>7

(* What the link and the node have made of the first k requests.           *)
LinkNow == [byRid |-> byRid, bySid |-> bySid]

MadeOf(L, N, due) ==
  [known |-> L.byRid, subscribed |-> {s \in Sid : L.bySid[s] # Nil},
   nodeRids |-> N.rids, nodeSids |-> N.sids, closing |-> ClosedIn(due \o Others(N.out))]

(* The two tables read off link and node are tables.                       *)
LEMMA MadeOfTypes ==
  ASSUME NEW L \in Targets, NEW N \in NodeState, NEW due \in Seq(OtherResponse)
  PROVE  MadeOf(L, N, due) \in BothTables
  <1> DEFINE x == Others(N.out)
  <1>1. x \in Seq(OtherResponse)
    BY OutTypes
  <1> HIDE DEF x
  <1>2. due \o x \in Seq(OtherResponse)
    BY <1>1
  <1>3. ClosedIn(due \o x) \subseteq Rid
    BY <1>2, ClosedType
  <1>4. L.byRid \in SUBSET Rid /\ N.rids \in SUBSET Rid /\ N.sids \in SUBSET Sid
    BY DEF Targets, NodeState
  <1> QED
    BY <1>3, <1>4 DEF MadeOf, BothTables, x

(* A request that both handle changes both tables together.                *)
LEMMA MadeOfMore ==
  ASSUME NEW L \in Targets, NEW N \in NodeState, NEW due \in Seq(OtherResponse), NEW req \in Request
  PROVE  MadeOf(Remembered(L, req), Handled(N, req), due) = TablesAfter(MadeOf(L, N, due), req)
  <1> DEFINE x == Others(N.out)
             a == Answer(req.rid, Ends(req), N.stamp + 1)
             R == Remembered(L, req)
             H == Handled(N, req)
  <1>1. /\ H.rids = RidsAfter(req, N.rids) /\ H.sids = SidsAfter(req, N.sids)
        /\ Others(H.out) = Append(x, a)
    BY HandledFields
  <1>2. /\ R.byRid = KnownAfter(req, L.byRid)
        /\ \A s \in Sid : R.bySid[s]
           = IF req.kind = "Subscribe" /\ req.sid = s THEN Level[s]
             ELSE IF req.kind = "Unsubscribe" /\ req.sid = s THEN Nil ELSE L.bySid[s]
    BY RememberedFields DEF KnownAfter
  <1>3. x \in Seq(OtherResponse)
    BY OutTypes
  <1>4. req.rid \in Rid /\ Ends(req) \in BOOLEAN /\ N.stamp \in Nat
    BY RequestTypes, NodeAssumption DEF NodeState, Ends
  <1>5. a \in OtherResponse /\ a.rid = req.rid /\ a.closed = Ends(req)
    BY <1>4, AnswerTypes DEF Answer
  <1>6. \A s \in Sid : Level[s] # Nil
    BY RequesterAssumption
  <1>7. {s \in Sid : R.bySid[s] # Nil} = SidsAfter(req, {s \in Sid : L.bySid[s] # Nil})
    <2>1. req.kind \in {"Subscribe", "Unsubscribe"} => req.sid \in Sid
      BY RequestTypes
    <2> HIDE DEF R
    <2> QED
      BY <1>2, <1>6, <2>1 DEF SidsAfter
  <1> HIDE DEF x, a, R, H
  <1>8. due \o Append(x, a) = Append(due \o x, a) /\ due \o x \in Seq(OtherResponse)
    BY <1>3, <1>5
  <1>9. ClosedIn(Append(due \o x, a)) = ClosedIn(due \o x) \cup (IF a.closed THEN {a.rid} ELSE {})
    <2> DEFINE e == due \o x
    <2>1. e \in Seq(OtherResponse)
      BY <1>8
    <2> HIDE DEF e
    <2>2. ClosedIn(Append(e, a)) = ClosedIn(e) \cup (IF a.closed THEN {a.rid} ELSE {})
      BY <1>5, <2>1, ClosedAppend
    <2> QED
      BY <2>2 DEF e
  <1>10. ClosedIn(due \o Others(H.out)) = ClosedIn(due \o x) \cup (IF Ends(req) THEN {req.rid} ELSE {})
    BY <1>1, <1>5, <1>8, <1>9
  <1> QED
    BY <1>1, <1>2, <1>7, <1>10 DEF MadeOf, TablesAfter, x, R, H

Passed(L, N, due, reqs, res) ==
  [k \in 0..Len(reqs) |->
     MadeOf(LinkAfter(L, Kept(Prefix(reqs, k), res)), NodeAfter(N, Kept(Prefix(reqs, k), res)), due)]

(* A message handled request by request changes the tables likewise.       *)
LEMMA PassedOn ==
  ASSUME NEW L \in Targets, NEW N \in NodeState, NEW due \in Seq(OtherResponse),
         NEW reqs \in Seq(Request), NEW res,
         TablesOf(MadeOf(L, N, due)),
         \A req \in res : req.kind = "Close" => req.rid \in L.byRid,
         \A req \in Request \ res : req.kind \in {"Close", "Unsubscribe"}
  PROVE  LET t == Passed(L, N, due, reqs, res) IN
         /\ GoneThrough(t, reqs, res)
         /\ t[0] = MadeOf(L, N, due)
         /\ t[Len(reqs)] = MadeOf(LinkAfter(L, Kept(reqs, res)), NodeAfter(N, Kept(reqs, res)), due)
  <1> DEFINE t == Passed(L, N, due, reqs, res)
             acc(k) == Kept(Prefix(reqs, k), res)
             l(k) == LinkAfter(L, acc(k))
             n(k) == NodeAfter(N, acc(k))
  <1>1. /\ Prefix(reqs, 0) = <<>> /\ Prefix(reqs, Len(reqs)) = reqs
        /\ \A k \in 0..Len(reqs) : Prefix(reqs, k) \in Seq(Request)
        /\ \A k \in 0..Len(reqs) - 1 : /\ reqs[k + 1] \in Request
                                       /\ Prefix(reqs, k) \in Seq(Request)
                                       /\ Prefix(reqs, k + 1) = Append(Prefix(reqs, k), reqs[k + 1])
    BY Beginnings
  <1>2. Len(reqs) \in Nat /\ 0 \in 0..Len(reqs) /\ Len(reqs) \in 0..Len(reqs)
        /\ \A k \in 0..Len(reqs) - 1 : k \in 0..Len(reqs) /\ k + 1 \in 0..Len(reqs)
    OBVIOUS
  <1>3. \A k \in 0..Len(reqs) : t[k] = MadeOf(l(k), n(k), due)
    BY DEF Passed
  <1>4. \A k \in 0..Len(reqs) : acc(k) \in Seq(Request) /\ l(k) \in Targets /\ n(k) \in NodeState
    <2> TAKE k \in 0..Len(reqs)
    <2>1. acc(k) \in Seq(Request)
      BY <1>1, KeptType
    <2> QED
      BY <2>1, LinkAfterType, NodeAfterType
  <1>5. t[0] = MadeOf(L, N, due)
    <2>1. acc(0) = <<>>
      BY <1>1, KeptEmpty
    <2>2. l(0) = L /\ n(0) = N
      BY <2>1, LinkAfterNone, NodeAfterNone
    <2> QED
      BY <1>2, <1>3, <2>2
  <1>6. t[Len(reqs)] = MadeOf(LinkAfter(L, Kept(reqs, res)), NodeAfter(N, Kept(reqs, res)), due)
    BY <1>1, <1>2, <1>3
  <1>7. t \in [0..Len(reqs) -> BothTables]
    <2>1. \A k \in 0..Len(reqs) : MadeOf(l(k), n(k), due) \in BothTables
      BY <1>4, MadeOfTypes
    <2> QED
      BY <2>1 DEF Passed
  <1>8. ASSUME NEW k \in 0..Len(reqs) - 1
        PROVE  t[k + 1] = IF reqs[k + 1] \in res THEN TablesAfter(t[k], reqs[k + 1]) ELSE t[k]
    <2> DEFINE p == Prefix(reqs, k)
               req == reqs[k + 1]
               a == Kept(p, res)
    <2>1. p \in Seq(Request) /\ req \in Request /\ Prefix(reqs, k + 1) = Append(p, req)
      BY <1>1
    <2>2. a \in Seq(Request) /\ LinkAfter(L, a) \in Targets /\ NodeAfter(N, a) \in NodeState
      BY <1>2, <1>4
    <2>3. t[k] = MadeOf(LinkAfter(L, a), NodeAfter(N, a), due)
      BY <1>2, <1>3
    <2>4. t[k + 1] = MadeOf(LinkAfter(L, Kept(Append(p, req), res)), NodeAfter(N, Kept(Append(p, req), res)), due)
      BY <1>2, <1>3, <2>1
    <2>5. Kept(Append(p, req), res) = IF req \in res THEN Append(a, req) ELSE a
      <3> HIDE DEF p, req
      <3> QED
        BY <2>1, KeptAppend
    <2> HIDE DEF p, req, a, t
    <2>6. CASE req \in res
      <3>1. /\ LinkAfter(L, Append(a, req)) = Remembered(LinkAfter(L, a), req)
            /\ NodeAfter(N, Append(a, req)) = Handled(NodeAfter(N, a), req)
        BY <2>1, <2>2, LinkAfterMore, NodeAfterMore
      <3>2. t[k + 1] = MadeOf(Remembered(LinkAfter(L, a), req), Handled(NodeAfter(N, a), req), due)
        BY <2>4, <2>5, <2>6, <3>1
      <3>3. t[k + 1] = TablesAfter(t[k], req)
        BY <2>1, <2>2, <2>3, <3>2, MadeOfMore
      <3> QED
        BY <2>6, <3>3 DEF req
    <2>7. CASE req \notin res
      <3>1. t[k + 1] = t[k]
        BY <2>3, <2>4, <2>5, <2>7
      <3> QED
        BY <2>7, <3>1 DEF req
    <2> QED
      BY <2>6, <2>7
  <1>9. \A req \in res : req.kind = "Close" => req.rid \in t[0].known
    BY <1>5 DEF MadeOf
  <1> HIDE DEF t
  <1>10. GoneThrough(t, reqs, res)
    BY <1>5, <1>7, <1>8, <1>9 DEF GoneThrough
  <1> QED
    BY <1>5, <1>6, <1>10 DEF t

(* Handling a message of the client keeps the agreement.                   *)
LEMMA HandleRequestsAgree ==
  ASSUME Types, TablesInv, HandleRequests
  PROVE  TablesInv'
  <1>0. LinkTypes /\ QuietStash /\ TableTypes
    BY DEF Types
  <1> DEFINE reqs == Head(mail[Me]).reqs
             accepted == Kept(reqs, Resolved)
             more == IF accepted = <<>> THEN <<>> ELSE <<accepted>>
             after == LinkAfter(LinkNow, accepted)
             due == OthersDue
             rest == Asked'
             t == Passed(LinkNow, AfterBox, due, reqs, Resolved)
             e == t[Len(reqs)]
             N == NodeAfter(AfterBox, accepted)
  <1>1. /\ OthersDue' = due /\ reqs \in Seq(Request) /\ rest \in Seq(Request)
        /\ Asked = reqs \o rest
    BY <1>0, HandleRequestsMoves
  <1>2. /\ accepted \in Seq(Request) /\ LinkNow \in Targets /\ after \in Targets
        /\ FoldLeft(Remembered, [byRid |-> byRid, bySid |-> bySid], accepted) = after
    BY <1>0, <1>1, AcceptedTypes DEF LinkNow
  <1>3. /\ byRid' = after.byRid /\ bySid' = after.bySid /\ nodeBox' = nodeBox \o more
        /\ UNCHANGED <<rids, sids, version, stamp, client>>
    BY <1>2 DEF HandleRequests, outsideVars
  <1>4. AfterBox \in NodeState /\ due \in Seq(OtherResponse)
    BY AllDueTypes
  <1>5. AfterBox' = N
    <2> DEFINE a == FlattenSeq(nodeBox)
    <2>1. nodeBox \in Seq(Seq(Request)) /\ a \in Seq(Request) /\ NodeNow \in NodeState
      BY <1>0, NodeNowType DEF TableTypes, NodeTypeOK
    <2> HIDE DEF accepted
    <2>2. more \in Seq(Seq(Request)) /\ FlattenSeq(more) = accepted
      <3>1. CASE accepted = <<>>
        BY <3>1, FlatEmpty
      <3>2. CASE accepted # <<>>
        <4>1. <<accepted>> \in Seq(Seq(Request)) /\ FlattenSeq(<<accepted>>) = accepted
          <5>1. FlattenSeq(<<accepted>>) = accepted
            BY <1>2, FlatOne
          <5>2. <<accepted>> \in Seq(Seq(Request))
            BY <1>2
          <5> QED
            BY <5>1, <5>2
        <4> QED
          BY <3>2, <4>1
      <3> QED
        BY <3>1, <3>2
    <2> HIDE DEF more
    <2>3. FlattenSeq(nodeBox \o more) = a \o accepted
      BY <2>1, <2>2, FlatConcat
    <2>4. NodeNow' = NodeNow
      BY <1>3 DEF NodeNow
    <2>5. AfterBox' = NodeAfter(NodeNow, a \o accepted)
      BY <1>3, <2>3, <2>4, BoxFoldPrime
    <2> HIDE DEF a
    <2>6. NodeAfter(NodeNow, a \o accepted) = NodeAfter(NodeAfter(NodeNow, a), accepted)
      BY <1>2, <2>1, NodeAfterBoth
    <2> QED
      BY <2>5, <2>6, BoxFold DEF a
  <1>6. MadeOf(LinkNow, AfterBox, due)
        = [known |-> byRid, subscribed |-> Subscriptions, nodeRids |-> AfterBox.rids,
           nodeSids |-> AfterBox.sids, closing |-> Closing]
    BY DEF MadeOf, LinkNow, Subscriptions, Closing, AllDue
  <1>7. TablesOf(MadeOf(LinkNow, AfterBox, due))
    BY <1>6, TablesInvIs DEF TablesOf
  <1>8. /\ \A req \in Resolved : req.kind = "Close" => req.rid \in LinkNow.byRid
        /\ \A req \in Request \ Resolved : req.kind \in {"Close", "Unsubscribe"}
    BY DEF Resolved, LinkNow
  <1>9. /\ GoneThrough(t, reqs, Resolved) /\ t[0] = MadeOf(LinkNow, AfterBox, due)
        /\ e = MadeOf(after, N, due)
    <2> DEFINE p == Passed(LinkNow, AfterBox, due, reqs, Resolved)
    <2>1. LinkNow \in Targets /\ AfterBox \in NodeState /\ due \in Seq(OtherResponse) /\ reqs \in Seq(Request)
      BY <1>1, <1>2, <1>4
    <2>2. TablesOf(MadeOf(LinkNow, AfterBox, due))
      BY <1>7
    <2>3. /\ GoneThrough(p, reqs, Resolved)
          /\ p[0] = MadeOf(LinkNow, AfterBox, due)
          /\ p[Len(reqs)] = MadeOf(LinkAfter(LinkNow, Kept(reqs, Resolved)),
                                   NodeAfter(AfterBox, Kept(reqs, Resolved)), due)
      <3> HIDE DEF due, reqs
      <3>1. /\ \A req \in Resolved : req.kind = "Close" => req.rid \in LinkNow.byRid
            /\ \A req \in Request \ Resolved : req.kind \in {"Close", "Unsubscribe"}
        BY <1>8
      <3> QED
        BY ONLY <2>1, <2>2, <3>1, PassedOn
    <2>4. t = p /\ e = p[Len(reqs)]
      BY DEF p, t, e
    <2>5. MadeOf(after, N, due) = MadeOf(LinkAfter(LinkNow, Kept(reqs, Resolved)),
                                         NodeAfter(AfterBox, Kept(reqs, Resolved)), due)
      BY DEF after, N, accepted
    <2> QED
      <3> HIDE DEF t, e, after, N, p, due, reqs
      <3> QED
        BY ONLY <2>3, <2>4, <2>5
  <1>10. e = [known |-> byRid', subscribed |-> Subscriptions', nodeRids |-> AfterBox'.rids,
              nodeSids |-> AfterBox'.sids, closing |-> Closing']
    <2>1. Closing' = ClosedIn(OthersDue' \o Others(AfterBox'.out))
      BY DEF Closing, AllDue
    <2>2. Subscriptions' = {s \in Sid : bySid'[s] # Nil}
      BY DEF Subscriptions
    <2> HIDE DEF after, N, due, e
    <2> QED
      BY <1>1, <1>3, <1>5, <1>9, <2>1, <2>2 DEF MadeOf
  <1>11. Wishes(reqs \o rest, UsedIn(t[0]), StandIn(t[0]), t[0].subscribed, client)
    <2>1. Wishes(Asked, byRid \cup Closing, byRid \ Closing, Subscriptions, client)
      BY TablesInvIs
    <2>2. UsedIn(t[0]) = byRid \cup Closing /\ StandIn(t[0]) = byRid \ Closing /\ t[0].subscribed = Subscriptions
      <3> HIDE DEF t
      <3> QED
        BY <1>6, <1>9, SMTT(30) DEF UsedIn, StandIn
    <2> QED
      BY <1>1, <2>1, <2>2
  <1>12. client \in ClientState
    BY <1>0 DEF TableTypes
  <1>13. TablesOf(e) /\ Wishes(rest, UsedIn(e), StandIn(e), e.subscribed, client)
    <2> HIDE DEF rest, t, reqs
    <2> QED
      BY <1>1, <1>9, <1>11, <1>12, RequestsKeepWishes
  <1>14. Tables(byRid', Subscriptions', AfterBox.rids', AfterBox.sids', Closing')
    <2> HIDE DEF e
    <2> QED
      BY <1>10, <1>13 DEF TablesOf
  <1>15. Wishes(Asked', byRid' \cup Closing', byRid' \ Closing', Subscriptions', client')
    <2> HIDE DEF e
    <2> QED
      BY <1>3, <1>10, <1>13 DEF UsedIn, StandIn
  <1> QED
    BY <1>14, <1>15, TablesInvIsPrime

(*-------------------------------- theorems -------------------------------*)

RequesterInv == OrderInv /\ TablesInv

(* Every step keeps the agreement.                                         *)
LEMMA TablesStep ==
  ASSUME Types, TablesInv, Next
  PROVE  TablesInv'
  <1>0. LinkTypes /\ TableTypes /\ QuietStash
    BY DEF Types
  <1>1. ASSUME UNCHANGED nodeVars, UNCHANGED <<byRid, bySid, client>>, SameTraffic PROVE TablesInv'
    <2>1. AfterBox' = AfterBox /\ Closing' = Closing /\ Asked' = Asked
      BY <1>1, BoxStays DEF SameTraffic
    <2> QED
      BY <1>1, <2>1, TablesStay
  <1>2. ASSUME NEW w \in Socket, OpenSocket(w) \/ CloseSocket(w) PROVE TablesInv'
    <2>1. UNCHANGED nodeVars /\ UNCHANGED <<byRid, bySid, client>>
      BY <1>2 DEF OpenSocket, CloseSocket, behaviorVars, outsideVars
    <2>2. SameTraffic
      BY <1>0, <1>2, OpenSocketMoves, CloseSocketMoves
    <2> QED
      BY <1>1, <2>1, <2>2
  <1>3. ASSUME NEW a \in Asks(client),
               \/ ClientSends(<<a>>)
               \/ \E b \in Asks(HavingAsked(client, a)) : ClientSends(<<a, b>>)
        PROVE  TablesInv'
    BY <1>3, ClientSendsAgree
  <1>4. ASSUME NodeAnswers PROVE TablesInv'
    <2>1. UNCHANGED <<byRid, bySid, client>>
      BY <1>4 DEF NodeAnswers, behaviorVars, outsideVars
    <2>2. Asked' = Asked
      <3>1. NodeAnswer \in Seq(Response)
        BY <1>0, <1>4, AnswerType DEF NodeAnswers, NodeReceives
      <3> QED
        BY <1>0, <1>4, <3>1, NodeAnswersMoves
    <2>3. AfterBox.rids' = AfterBox.rids /\ AfterBox.sids' = AfterBox.sids /\ Closing' = Closing
      BY <1>4, NodeAnswersAsSaid
    <2> QED
      BY <2>1, <2>2, <2>3, TablesStay
  <1>5. ASSUME NodeChanges PROVE TablesInv'
    <2>1. UNCHANGED <<byRid, bySid, client>>
      BY <1>5 DEF NodeChanges, behaviorVars, outsideVars
    <2>2. Asked' = Asked
      BY <1>0, <1>5, NodeChangesMoves DEF SameTraffic
    <2>3. AfterBox.rids' = AfterBox.rids /\ AfterBox.sids' = AfterBox.sids /\ Closing' = Closing
      BY <1>5, NodeChangesNothing
    <2> QED
      BY <2>1, <2>2, <2>3, TablesStay
  <1>6. ASSUME LinkConnects \/ LinkDisconnects \/ KeepRequests \/ \E w \in Socket : StreamStep(w)
        PROVE  TablesInv'
    <2>1. UNCHANGED nodeVars /\ UNCHANGED <<byRid, bySid, client>>
      BY <1>6 DEF LinkConnects, LinkDisconnects, KeepRequests, StreamStep, behaviorVars, outsideVars
    <2>2. SameTraffic
      BY <1>0, <1>6, LinkConnectsMoves, LinkDisconnectsMoves, KeepRequestsMoves, StreamStepMoves
    <2> QED
      BY <1>1, <2>1, <2>2
  <1> QED
    BY <1>2, <1>3, <1>4, <1>5, <1>6, HandleRequestsAgree, HandleResponsesEnds, KeepResponsesEnds
    DEF Next, LinkStep

(* So the inductive invariant holds of every behaviour.                    *)
LEMMA RequesterAlways == Spec => []RequesterInv
  <1>1. Init => RequesterInv
    <2> SUFFICES ASSUME Init PROVE RequesterInv
      OBVIOUS
    <2>1. /\ Types /\ OthersDue = <<>> /\ Asked = <<>>
          /\ byRid = {} /\ client = [next |-> 1, sids |-> {}, lists |-> {}]
          /\ NodeNow = [rids |-> {}, sids |-> {}, version |-> 0, stamp |-> 0, out |-> <<>>]
          /\ Subscriptions = {} /\ AfterBox = NodeNow
      BY InitTypes
    <2>2. handed = 0 /\ stamp = 0
      BY DEF Init, NodeInit
    <2>3. OrderInv
      BY <2>1, <2>2, ConservedIs DEF OrderInv, Numbered
    <2>4. Closing = {}
      <3>1. Others(AfterBox.out) = <<>>
        BY <2>1, KeptEmpty DEF Others
      <3>2. <<>> \o <<>> = <<>>
        OBVIOUS
      <3>3. AllDue = <<>>
        BY <2>1, <3>1, <3>2 DEF AllDue
      <3> QED
        BY <3>3 DEF Closing, ClosedIn
    <2>5. Tables(byRid, Subscriptions, AfterBox.rids, AfterBox.sids, Closing)
      BY <2>1, <2>4 DEF Tables
    <2>6. Fresh(Asked, byRid \cup Closing, client.next)
      BY <2>1 DEF Fresh, Begin
    <2>7. Closable(Asked, byRid \ Closing, client.lists)
      BY <2>1 DEF Closable
    <2>8. Unsubscribable(Asked, Subscriptions, client.sids)
      BY <2>1 DEF Unsubscribable
    <2>9. byRid \cup Closing \cup client.lists \subseteq 1..client.next - 1
      BY <2>1, <2>4
    <2> QED
      BY <2>3, <2>5, <2>6, <2>7, <2>8, <2>9 DEF RequesterInv, TablesInv
  <1>2. RequesterInv /\ [Next]_vars => RequesterInv'
    <2> SUFFICES ASSUME RequesterInv, [Next]_vars PROVE RequesterInv'
      OBVIOUS
    <2>0. OrderInv /\ TablesInv /\ Types
      BY DEF RequesterInv, OrderInv
    <2>1. ASSUME Next PROVE RequesterInv'
      BY <2>0, <2>1, OrderStep, TablesStep DEF RequesterInv
    <2>2. ASSUME UNCHANGED vars PROVE RequesterInv'
      <3>1. Types' /\ SameTraffic
        BY <2>0, <2>2, TypesUnchanged
      <3>2. UNCHANGED <<stamp, handed, byRid, bySid, client>> /\ UNCHANGED nodeVars
        BY <2>2 DEF vars, nodeVars, behaviorVars, outsideVars
      <3>3. OthersConserved'
        BY <2>0, <3>1, <3>2, ConservedStays DEF OrderInv, SameTraffic
      <3>4. AfterBox' = AfterBox /\ Closing' = Closing /\ Asked' = Asked
        BY <3>1, <3>2, BoxStays DEF SameTraffic
      <3>5. TablesInv'
        BY <2>0, <3>2, <3>4, TablesStay
      <3> QED
        BY <3>1, <3>3, <3>5 DEF RequesterInv, OrderInv
    <2> QED
      BY <2>1, <2>2
  <1> QED
    BY <1>1, <1>2, PTL DEF Spec

(* The tables of the link and of the node agree, once the node has gone    *)
(* through the requests on their way, whatever the sessions, the batches   *)
(* and the answers still on their way (RequesterBehavior.resolveTarget,    *)
(* cacheRequestTarget, cleanupStoredTargets).                              *)
THEOREM TargetsAlwaysAgree == Spec => []TargetsAgree
  <1>1. RequesterInv => TargetsAgree
    <2> SUFFICES ASSUME RequesterInv PROVE TargetsAgree
      OBVIOUS
    <2>1. /\ Subscriptions = AfterBox.sids /\ AfterBox.rids \subseteq byRid
          /\ Answered => byRid \ AfterBox.rids \subseteq Closing
      BY TablesInvIs DEF RequesterInv, Tables
    <2>2. ASSUME NEW r \in Closing PROVE ClosedDue(r, AfterBox.out)
      <3>1. PICK i \in 1..Len(AllDue) : AllDue[i].closed /\ AllDue[i].rid = r
        BY DEF Closing, ClosedIn
      <3> QED
        BY <3>1 DEF ClosedDue, AllDue
    <2> QED
      BY <2>1, <2>2 DEF TargetsAgree, AfterBox, Subscriptions
  <1> QED
    BY <1>1, RequesterAlways, PTL

(* A CLOSE or an UNSUBSCRIBE of the client is dropped only when what it    *)
(* ends came earlier in the same message (RequesterBehavior                *)
(* .processRequests).                                                      *)
THEOREM DropsAreOfOneMessage == Spec => DropsOnlyWithinMessage
  <1> DEFINE Dropped(reqs, sent) ==
        \A j \in 1..Len(reqs) : reqs[j] \in sent \/ \E i \in 1..j - 1 : Begins(reqs[i], reqs[j])
             Sent == UNION {{nodeBox'[i][j] : j \in 1..Len(nodeBox'[i])}
                            : i \in {Len(nodeBox')} \ {Len(nodeBox)}}
  <1>1. ASSUME RequesterInv, HandleRequests
        PROVE  Dropped(Head(mail[Me]).reqs, Sent)
    <2> DEFINE reqs == Head(mail[Me]).reqs
               accepted == Kept(reqs, Resolved)
    <2>0. Types /\ TablesInv /\ LinkTypes /\ QuietStash /\ TableTypes
      BY <1>1 DEF RequesterInv, OrderInv, Types
    <2>1. reqs \in Seq(Request) /\ Asked' \in Seq(Request) /\ Asked = reqs \o Asked'
      BY <1>1, <2>0, HandleRequestsMoves
    <2>2. \A i \in 1..Len(reqs) : Asked[i] = reqs[i] /\ i \in 1..Len(Asked)
      BY <2>1, RestOfRequests
    <2>3. nodeBox' = nodeBox \o (IF accepted = <<>> THEN <<>> ELSE <<accepted>>)
      BY <1>1 DEF HandleRequests
    <2>4. Elems(accepted) = Elems(reqs) \cap Resolved /\ accepted \in Seq(Request)
      BY <2>1, KeptElems, KeptType
    <2>5. accepted # <<>> => Elems(accepted) \subseteq Sent
      <3> SUFFICES ASSUME accepted # <<>> PROVE Elems(accepted) \subseteq Sent
        OBVIOUS
      <3> DEFINE S == Seq(Request)
      <3>1. nodeBox \in Seq(S) /\ accepted \in S
        BY <2>0, <2>4 DEF TableTypes, NodeTypeOK
      <3> HIDE DEF accepted, S
      <3>2. nodeBox' = nodeBox \o <<accepted>>
        BY <2>3
      <3>3. Len(nodeBox') = Len(nodeBox) + 1 /\ nodeBox'[Len(nodeBox) + 1] = accepted /\ Len(nodeBox) \in Nat
        BY <3>1, <3>2
      <3>4. Len(nodeBox') \in {Len(nodeBox')} \ {Len(nodeBox)} /\ nodeBox'[Len(nodeBox')] = accepted
        BY <3>3
      <3> QED
        BY <3>4 DEF Elems
    <2> HIDE DEF accepted
    <2>6. ASSUME NEW j \in 1..Len(reqs), reqs[j] \in Resolved PROVE reqs[j] \in Sent
      <3>1. reqs[j] \in Elems(accepted)
        BY <2>4, <2>6 DEF Elems
      <3>2. accepted # <<>>
        BY <3>1, ElemsEmpty
      <3> QED
        BY <2>5, <3>1, <3>2
    <2>7. /\ Closable(Asked, byRid \ Closing, client.lists)
          /\ Unsubscribable(Asked, Subscriptions, client.sids)
      BY <2>0 DEF TablesInv
    <2>8. ASSUME NEW j \in 1..Len(reqs), reqs[j] \notin Resolved
          PROVE  \E i \in 1..j - 1 : Begins(reqs[i], reqs[j])
      <3>1. reqs[j] \in Request /\ Asked[j] = reqs[j] /\ j \in 1..Len(Asked)
        BY <2>1, <2>2
      <3>2. \A i \in 1..j - 1 : i \in 1..Len(reqs) /\ Asked[i] = reqs[i]
        BY <2>1, <2>2
      <3>3. CASE reqs[j].kind = "Close" /\ reqs[j].rid \notin byRid
        <4>1. Standing(Asked, byRid \ Closing, reqs[j].rid, j)
          BY <2>7, <3>1, <3>3 DEF Closable
        <4>2. PICK i \in 1..j - 1 : Asked[i].kind = "List" /\ Asked[i].rid = reqs[j].rid
          BY <3>3, <4>1 DEF Standing
        <4> QED
          BY <3>2, <3>3, <4>2 DEF Begins
      <3>4. CASE reqs[j].kind = "Unsubscribe" /\ bySid[reqs[j].sid] = Nil
        <4>1. Subscribed(Asked, Subscriptions, reqs[j].sid, j)
          BY <2>7, <3>1, <3>4 DEF Unsubscribable
        <4>2. reqs[j].sid \notin Subscriptions
          BY <3>4 DEF Subscriptions
        <4>3. PICK i \in 1..j - 1 : Asked[i].kind = "Subscribe" /\ Asked[i].sid = reqs[j].sid
          BY <4>1, <4>2 DEF Subscribed
        <4> QED
          BY <3>2, <3>4, <4>3 DEF Begins
      <3> QED
        BY <2>8, <3>1, <3>3, <3>4 DEF Resolved
    <2> QED
      BY <2>6, <2>8
  <1>2. RequesterInv /\ [Next]_vars =>
          [HandleRequests =>
            LET reqs == Head(mail[Me]).reqs
                sent == UNION {{nodeBox'[i][j] : j \in 1..Len(nodeBox'[i])}
                               : i \in {Len(nodeBox')} \ {Len(nodeBox)}}
            IN \A j \in 1..Len(reqs) :
                 reqs[j] \in sent \/ \E i \in 1..j - 1 : Begins(reqs[i], reqs[j])]_vars
    BY <1>1
  <1> QED
    BY <1>2, RequesterAlways, PTL DEF Spec, DropsOnlyWithinMessage
=============================================================================
