------------------------------- MODULE Folding -------------------------------
(***************************************************************************)
(* What FoldLeft computes, for any operator: proved here once, and cited   *)
(* through an instance that names the operator.                            *)
(***************************************************************************)
EXTENDS SequencesExt, Integers, WellFoundedInduction, SequenceTheorems, TLAPS

CONSTANT Op(_, _)

Fold(base, s) == FoldLeft(Op, base, s)

(* Induction, in the form the provers can use: over a set, not a predicate.*)
LEMMA NatSetInduction ==
  ASSUME NEW S, 0 \in S, \A n \in Nat : n \in S => n + 1 \in S
  PROVE  Nat \subseteq S
  <1> DEFINE T == Nat \ S
             R == {p \in Nat \X Nat : p[1] < p[2]}
  <1>1. IsWellFoundedOn(R, Nat)
    <2>1. R = OpToRel(<, Nat)
      BY DEF OpToRel
    <2> QED
      BY <2>1, NatLessThanWellFounded
  <1>2. SUFFICES ASSUME T # {} PROVE FALSE
    OBVIOUS
  <1>3. PICK x \in T : \A y \in T : <<y, x>> \notin R
    <2> HIDE DEF R
    <2> QED
      BY <1>1, <1>2, WFMin
  <1>4. x - 1 \in T /\ <<x - 1, x>> \in R
    BY <1>3
  <1> QED
    BY <1>3, <1>4

(* A non-empty set of positions has a last one.                            *)
LEMMA MaxOfPositions ==
  ASSUME NEW n \in Nat, NEW T \in SUBSET (1..n), T # {}
  PROVE  Max(T) \in T /\ \A y \in T : Max(T) >= y
  <1> DEFINE S == {k \in Nat : \A U \in SUBSET (1..k) :
                     U # {} => \E x \in U : \A y \in U : x >= y}
  <1>1. 0 \in S
    <2>1. \A U \in SUBSET (1..0) : U = {}
      OBVIOUS
    <2> QED
      BY <2>1
  <1>2. ASSUME NEW k \in Nat, k \in S PROVE k + 1 \in S
    <2> SUFFICES ASSUME NEW U \in SUBSET (1..k + 1), U # {}
                 PROVE  \E x \in U : \A y \in U : x >= y
      OBVIOUS
    <2>1. CASE k + 1 \in U
      BY <2>1
    <2>2. CASE k + 1 \notin U
      <3>1. U \in SUBSET (1..k)
        BY <2>2
      <3> QED
        BY <1>2, <3>1
    <2> QED
      BY <2>1, <2>2
  <1>3. n \in S
    <2> HIDE DEF S
    <2> QED
      BY <1>1, <1>2, NatSetInduction
  <1> QED
    BY <1>3 DEF Max

(*------------------------- the recursion behind it -----------------------*)

Body(g, base, s, T) ==
  IF T = {} THEN base ELSE Op(g[T \ {Max(T)}], s[Max(T)])

(* The recursive function that FoldLeft is defined by exists.              *)
LEMMA IterExists ==
  ASSUME NEW base, NEW s, NEW n \in Nat
  PROVE  \E g : g = [T \in SUBSET (1..n) |-> Body(g, base, s, T)]
  <1> DEFINE S == {k \in Nat : \E g : g = [T \in SUBSET (1..k) |-> Body(g, base, s, T)]}
  <1>1. 0 \in S
    <2> DEFINE g == [T \in SUBSET (1..0) |-> base]
    <2>1. SUBSET (1..0) = {{}}
      OBVIOUS
    <2>2. g = [T \in SUBSET (1..0) |-> Body(g, base, s, T)]
      BY <2>1 DEF Body
    <2> QED
      BY <2>2
  <1>2. ASSUME NEW k \in Nat, k \in S PROVE k + 1 \in S
    <2>1. PICK g : g = [T \in SUBSET (1..k) |-> Body(g, base, s, T)]
      BY <1>2
    <2> DEFINE h == [T \in SUBSET (1..k + 1) |-> Body(g, base, s, T)]
    <2>2. \A T \in SUBSET (1..k) : h[T] = g[T]
      <3>1. \A T \in SUBSET (1..k) : T \in SUBSET (1..k + 1)
        OBVIOUS
      <3> HIDE DEF Body
      <3> QED
        BY <2>1, <3>1
    <2>3. ASSUME NEW T \in SUBSET (1..k + 1)
          PROVE  Body(g, base, s, T) = Body(h, base, s, T)
      <3>1. CASE T = {}
        BY <3>1 DEF Body
      <3>2. CASE T # {}
        <4>1. Max(T) \in T /\ \A y \in T : Max(T) >= y
          <5>1. k + 1 \in Nat
            OBVIOUS
          <5> QED
            BY <3>2, <5>1, MaxOfPositions
        <4>2. ASSUME NEW y \in T, y # Max(T) PROVE y \in 1..k
          <5>1. y \in 1..k + 1 /\ Max(T) \in 1..k + 1 /\ Max(T) >= y
            BY <4>1
          <5> QED
            BY <4>2, <5>1
        <4>3. T \ {Max(T)} \in SUBSET (1..k)
          <5> HIDE DEF h
          <5> QED
            BY <4>2
        <4> QED
          BY <2>2, <3>2, <4>3 DEF Body
      <3> QED
        BY <3>1, <3>2
    <2>4. h = [T \in SUBSET (1..k + 1) |-> Body(h, base, s, T)]
      BY <2>3
    <2>5. \E f : f = [T \in SUBSET (1..k + 1) |-> Body(f, base, s, T)]
      <3> HIDE DEF h, Body
      <3> QED
        BY <2>4
    <2> QED
      BY <2>5
  <1>3. n \in S
    <2> HIDE DEF S
    <2> QED
      BY <1>1, <1>2, NatSetInduction
  <1> QED
    BY <1>3

(* The intermediate results of a fold, before the first element and after  *)
(* each one.                                                               *)
Recurs(h, s, n) == \A k \in 1..n : h[k] = Op(h[k - 1], s[k])

Steps(h, base, s) == h[0] = base /\ Recurs(h, s, Len(s))

(* FoldLeft is the last of the intermediate results.                       *)
LEMMA FoldSteps ==
  ASSUME NEW S, NEW s \in Seq(S), NEW base
  PROVE  \E h : Steps(h, base, s) /\ Fold(base, s) = h[Len(s)]
  <1> DEFINE n == Len(s)
             iter == CHOOSE g : g = [T \in SUBSET (1..n) |-> Body(g, base, s, T)]
             h == [k \in 0..n |-> iter[1..k]]
  <1>1. n \in Nat /\ DOMAIN s = 1..n
    OBVIOUS
  <1>2. Fold(base, s) = iter[1..n]
    BY <1>1 DEF Fold, FoldLeft, MapThenFoldSet, Body
  <1>3. iter = [T \in SUBSET (1..n) |-> Body(iter, base, s, T)]
    <2> HIDE DEF Body
    <2> QED
      BY <1>1, IterExists
  <1> HIDE DEF iter
  <1>4. \A T \in SUBSET (1..n) : iter[T] = Body(iter, base, s, T)
    BY <1>3
  <1>5. h[0] = base
    <2>1. 1..0 = {} /\ {} \in SUBSET (1..n)
      OBVIOUS
    <2>2. iter[{}] = base
      BY <1>4, <2>1 DEF Body
    <2>3. h[0] = iter[1..0]
      BY <1>1
    <2> QED
      BY <2>1, <2>2, <2>3
  <1>6. ASSUME NEW k \in 1..n PROVE h[k] = Op(h[k - 1], s[k])
    <2>1. 1..k \in SUBSET (1..n) /\ 1..k # {}
      BY <1>1
    <2>2. Max(1..k) = k
      <3>1. Max(1..k) \in 1..k /\ \A y \in 1..k : Max(1..k) >= y
        BY <1>1, <2>1, MaxOfPositions
      <3> QED
        BY <3>1, <1>1
    <2>3. (1..k) \ {k} = 1..k - 1
      BY <1>1
    <2>4. iter[1..k] = Op(iter[1..k - 1], s[k])
      BY <1>4, <2>1, <2>2, <2>3 DEF Body
    <2> QED
      BY <2>4, <1>1
  <1>7. h[n] = iter[1..n]
    BY <1>1
  <1> HIDE DEF h
  <1>8. Steps(h, base, s)
    BY <1>5, <1>6 DEF Steps, Recurs
  <1> QED
    BY <1>2, <1>7, <1>8

(* The intermediate results of a common part are the same.                 *)
LEMMA StepsAgree ==
  ASSUME NEW s, NEW g, NEW h, NEW n \in Nat,
         g[0] = h[0], Recurs(g, s, n), Recurs(h, s, n)
  PROVE  \A k \in 0..n : g[k] = h[k]
  <1> DEFINE S == {k \in Nat : k <= n => g[k] = h[k]}
  <1>1. 0 \in S
    OBVIOUS
  <1>2. ASSUME NEW k \in Nat, k \in S PROVE k + 1 \in S
    <2> SUFFICES ASSUME k + 1 <= n PROVE g[k + 1] = h[k + 1]
      OBVIOUS
    <2>1. k + 1 \in 1..n /\ (k + 1) - 1 = k /\ g[k] = h[k]
      BY <1>2
    <2>2. g[k + 1] = Op(g[(k + 1) - 1], s[k + 1]) /\ h[k + 1] = Op(h[(k + 1) - 1], s[k + 1])
      BY <2>1 DEF Recurs
    <2> QED
      BY <2>1, <2>2
  <1>3. Nat \subseteq S
    <2> HIDE DEF S
    <2> QED
      BY <1>1, <1>2, NatSetInduction
  <1> QED
    BY <1>3

(*------------------------------ what to cite -----------------------------*)

(* A fold over nothing is its base.                                        *)
LEMMA FoldEmpty == \A base : Fold(base, <<>>) = base
  <1> TAKE base
  <1>1. <<>> \in Seq({}) /\ Len(<<>>) = 0
    OBVIOUS
  <1>2. PICK h : Steps(h, base, <<>>) /\ Fold(base, <<>>) = h[Len(<<>>)]
    BY <1>1, FoldSteps
  <1> QED
    BY <1>1, <1>2 DEF Steps

(* A further element is taken last.                                        *)
LEMMA FoldAppend ==
  ASSUME NEW S, NEW s \in Seq(S), NEW e \in S, NEW base
  PROVE  Fold(base, Append(s, e)) = Op(Fold(base, s), e)
  <1> DEFINE t == Append(s, e)
             n == Len(s)
  <1>1. n \in Nat /\ t \in Seq(S) /\ Len(t) = n + 1 /\ t[n + 1] = e
        /\ \A k \in 1..n : s[k] = t[k]
    OBVIOUS
  <1> HIDE DEF t
  <1>2. PICK g : Steps(g, base, s) /\ Fold(base, s) = g[n]
    BY FoldSteps
  <1>3. PICK h : Steps(h, base, t) /\ Fold(base, t) = h[n + 1]
    BY <1>1, FoldSteps
  <1>4. \A k \in 0..n : g[k] = h[k]
    <2>1. g[0] = h[0] /\ Recurs(g, s, n) /\ Recurs(h, s, n)
      BY <1>1, <1>2, <1>3 DEF Steps, Recurs
    <2> HIDE DEF n
    <2> QED
      BY <1>1, <2>1, StepsAgree
  <1>5. h[n + 1] = Op(h[(n + 1) - 1], e)
    BY <1>1, <1>3 DEF Steps, Recurs
  <1>6. h[(n + 1) - 1] = g[n]
    BY <1>1, <1>4
  <1> QED
    BY <1>2, <1>3, <1>5, <1>6 DEF t

(* The first element may be taken before the rest is folded.               *)
LEMMA FoldTail ==
  ASSUME NEW S, NEW s \in Seq(S), s # <<>>, NEW base
  PROVE  Fold(base, s) = Fold(Op(base, Head(s)), Tail(s))
  <1> DEFINE t == Tail(s)
             n == Len(t)
  <1>1. n \in Nat /\ t \in Seq(S) /\ Len(s) = n + 1 /\ s[1] = Head(s)
        /\ \A k \in 1..n : t[k] = s[k + 1]
    OBVIOUS
  <1> HIDE DEF t
  <1>2. PICK g : Steps(g, base, s) /\ Fold(base, s) = g[n + 1]
    BY <1>1, FoldSteps
  <1>3. PICK h : Steps(h, Op(base, Head(s)), t) /\ Fold(Op(base, Head(s)), t) = h[n]
    BY <1>1, FoldSteps
  <1> DEFINE f == [k \in 0..n |-> g[k + 1]]
  <1>4. f[0] = h[0]
    <2>1. g[1] = Op(g[1 - 1], s[1])
      BY <1>1, <1>2 DEF Steps, Recurs
    <2> QED
      BY <1>1, <1>2, <1>3, <2>1 DEF Steps
  <1>5. Recurs(f, t, n)
    <2> SUFFICES ASSUME NEW k \in 1..n PROVE f[k] = Op(f[k - 1], t[k])
      BY DEF Recurs
    <2>1. k + 1 \in 1..Len(s) /\ (k + 1) - 1 = (k - 1) + 1 /\ k \in 0..n /\ k - 1 \in 0..n
      BY <1>1
    <2>2. g[k + 1] = Op(g[(k + 1) - 1], s[k + 1])
      BY <1>2, <2>1 DEF Steps, Recurs
    <2> QED
      BY <1>1, <2>1, <2>2
  <1>6. \A k \in 0..n : f[k] = h[k]
    <2>1. Recurs(h, t, n)
      BY <1>3 DEF Steps
    <2> HIDE DEF f, n
    <2> QED
      BY <1>1, <1>4, <1>5, <2>1, StepsAgree
  <1>7. f[n] = g[n + 1] /\ n \in 0..n
    BY <1>1
  <1> QED
    BY <1>2, <1>3, <1>6, <1>7 DEF t

(* A fold stays in the set its operator stays in.                          *)
LEMMA FoldType ==
  ASSUME NEW S, NEW s \in Seq(S), NEW V, NEW base \in V,
         \A v \in V, e \in S : Op(v, e) \in V
  PROVE  Fold(base, s) \in V
  <1>1. PICK h : Steps(h, base, s) /\ Fold(base, s) = h[Len(s)]
    BY FoldSteps
  <1> DEFINE T == {k \in Nat : k <= Len(s) => h[k] \in V}
  <1>2. 0 \in T
    BY <1>1 DEF Steps
  <1>3. ASSUME NEW k \in Nat, k \in T PROVE k + 1 \in T
    <2> SUFFICES ASSUME k + 1 <= Len(s) PROVE h[k + 1] \in V
      OBVIOUS
    <2>1. k + 1 \in 1..Len(s) /\ (k + 1) - 1 = k /\ h[k] \in V /\ s[k + 1] \in S
      BY <1>3
    <2>2. h[k + 1] = Op(h[(k + 1) - 1], s[k + 1])
      BY <1>1, <2>1 DEF Steps, Recurs
    <2> QED
      BY <2>1, <2>2
  <1>4. Len(s) \in T
    <2> HIDE DEF T
    <2>1. Nat \subseteq T
      BY <1>2, <1>3, NatSetInduction
    <2> QED
      BY <2>1
  <1> QED
    BY <1>1, <1>4

(* A fold over a sequence and then another is one over both.               *)
LEMMA FoldConcat ==
  ASSUME NEW S, NEW s \in Seq(S), NEW t \in Seq(S), NEW base
  PROVE  Fold(base, s \o t) = Fold(Fold(base, s), t)
  <1> DEFINE m == Len(s)
             n == Len(t)
             u == s \o t
  <1>1. /\ m \in Nat /\ n \in Nat /\ u \in Seq(S) /\ Len(u) = m + n
        /\ \A k \in 1..m : s[k] = u[k]
        /\ \A k \in 1..n : t[k] = u[m + k]
    OBVIOUS
  <1> HIDE DEF u
  <1>2. PICK g : Steps(g, base, s) /\ Fold(base, s) = g[m]
    BY FoldSteps
  <1>3. PICK h : Steps(h, Fold(base, s), t) /\ Fold(Fold(base, s), t) = h[n]
    BY FoldSteps
  <1>4. PICK f : Steps(f, base, u) /\ Fold(base, u) = f[m + n]
    BY <1>1, FoldSteps
  <1>5. \A k \in 0..m : g[k] = f[k]
    <2>1. g[0] = f[0] /\ Recurs(g, s, m) /\ Recurs(f, s, m)
      BY <1>1, <1>2, <1>4 DEF Steps, Recurs
    <2> HIDE DEF m
    <2> QED
      BY <1>1, <2>1, StepsAgree
  <1> DEFINE e == [k \in 0..n |-> f[m + k]]
  <1>6. e[0] = h[0]
    BY <1>1, <1>2, <1>3, <1>5 DEF Steps
  <1>7. Recurs(e, t, n)
    <2> SUFFICES ASSUME NEW k \in 1..n PROVE e[k] = Op(e[k - 1], t[k])
      BY DEF Recurs
    <2>1. m + k \in 1..Len(u) /\ (m + k) - 1 = m + (k - 1) /\ k - 1 \in 0..n /\ k \in 0..n
      BY <1>1
    <2>2. f[m + k] = Op(f[(m + k) - 1], u[m + k])
      BY <1>4, <2>1 DEF Steps, Recurs
    <2> QED
      BY <1>1, <2>1, <2>2
  <1>8. \A k \in 0..n : e[k] = h[k]
    <2>1. Recurs(h, t, n)
      BY <1>3 DEF Steps
    <2> HIDE DEF e, n
    <2> QED
      BY <1>1, <1>6, <1>7, <2>1, StepsAgree
  <1>9. e[n] = f[m + n] /\ n \in 0..n
    BY <1>1
  <1> QED
    BY <1>3, <1>4, <1>8, <1>9 DEF u
=============================================================================
