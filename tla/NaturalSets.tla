------------------------------ MODULE NaturalSets ------------------------------
(***************************************************************************)
(* Lemmas about sets of natural numbers and about sequences: when a set    *)
(* has a bound, that Max of the community modules is the largest then and  *)
(* Min the smallest; what a concatenation has; and induction, as a fact    *)
(* about a set, with which it is shown what FlattenSeq of the community    *)
(* modules, which is recursive, is made of.  Those about sets go back to   *)
(* the well-founded orders of the library.                                 *)
(***************************************************************************)
EXTENDS Integers, FiniteSetsExt, SequencesExt, FiniteSetTheorems, SequenceTheorems,
        WellFoundedInduction, TLAPS

(* A finite set of natural numbers has a bound: a least subset without one *)
(* would lose nothing with one number.                                     *)
LEMMA FiniteHasBound ==
  ASSUME NEW S \in SUBSET Nat, IsFiniteSet(S)
  PROVE  \E b \in Nat : \A x \in S : x <= b
<1> DEFINE Unbounded == {X \in SUBSET S : ~\E b \in Nat : \A x \in X : x <= b}
           R == StrictSubsetOrdering(S)
<1> SUFFICES ASSUME Unbounded # {} PROVE FALSE
  OBVIOUS
<1>1. PICK X \in Unbounded : \A Y \in Unbounded : ~(<<Y, X>> \in R)
  <2>1. IsWellFoundedOn(R, SUBSET S)
    BY FS_StrictSubsetOrderingWellFounded, FS_FiniteSubsetsOfFinite
  <2>2. Unbounded \subseteq SUBSET S
    OBVIOUS
  <2> HIDE DEF Unbounded, R
  <2> QED
    BY <2>1, <2>2, WFMin
<1>2. PICK x \in X : TRUE
  <2>1. CASE X = {}
    BY <1>1, <2>1
  <2> QED
    BY <2>1
<1>3. X \ {x} \notin Unbounded
  BY <1>1, <1>2 DEF StrictSubsetOrdering
<1>4. PICK b \in Nat : \A y \in X \ {x} : y <= b
  BY <1>1, <1>3
<1>5. x \in Nat /\ X \subseteq Nat
  BY <1>1, <1>2
<1>6. CASE x <= b
  BY <1>1, <1>4, <1>6
<1>7. CASE b <= x
  <2>1. \A y \in X : y <= x
    BY <1>4, <1>5, <1>7
  <2> QED
    BY <1>1, <1>5, <2>1
<1> QED
  BY <1>4, <1>5, <1>6, <1>7

(* A set of natural numbers that is bounded has a largest.                 *)
LEMMA MaxIsMax ==
  ASSUME NEW S \in SUBSET Nat, S # {}, NEW b \in Nat, \A x \in S : x <= b
  PROVE  Max(S) \in S /\ \A x \in S : x <= Max(S)
<1> DEFINE T == {c \in Nat : \A x \in S : x <= c}
           R == {ss \in Nat \X Nat : ss[1] < ss[2]}
<1>1. IsWellFoundedOn(R, Nat)
  BY NatLessThanWellFounded DEF OpToRel
<1>2. PICK t \in T : \A u \in T : ~(<<u, t>> \in R)
  <2>1. T \subseteq Nat /\ b \in T
    OBVIOUS
  <2> HIDE DEF T, R
  <2> QED
    BY <1>1, <2>1, WFMin
<1>3. t \in S
  <2> SUFFICES ASSUME t \notin S PROVE FALSE
    OBVIOUS
  <2>1. PICK x \in S : TRUE
    OBVIOUS
  <2>2. x \in Nat /\ t \in Nat /\ x <= t /\ x # t
    BY <2>1, <1>2
  <2>3. t - 1 \in Nat /\ \A y \in S : y <= t - 1
    BY <2>2, <1>2
  <2>4. t - 1 \in T /\ <<t - 1, t>> \in R
    BY <2>2, <2>3
  <2> QED
    BY <1>2, <2>4
<1> QED
  BY <1>2, <1>3 DEF Max

(* The two together.                                                       *)
LEMMA MaxOfFinite ==
  ASSUME NEW S \in SUBSET Nat, S # {}, IsFiniteSet(S)
  PROVE  Max(S) \in S /\ \A x \in S : x <= Max(S)
BY FiniteHasBound, MaxIsMax

(* Every set of natural numbers that is not empty has a smallest.          *)
LEMMA MinIsMin ==
  ASSUME NEW S \in SUBSET Nat, S # {}
  PROVE  Min(S) \in S /\ \A x \in S : Min(S) <= x
<1> DEFINE R == {ss \in Nat \X Nat : ss[1] < ss[2]}
<1>1. IsWellFoundedOn(R, Nat)
  BY NatLessThanWellFounded DEF OpToRel
<1>2. PICK t \in S : \A u \in S : ~(<<u, t>> \in R)
  <2> HIDE DEF R
  <2> QED
    BY <1>1, WFMin
<1>3. ASSUME NEW u \in S PROVE t <= u
  <2>1. u \in Nat /\ t \in Nat /\ ~(<<u, t>> \in R)
    BY <1>2
  <2> QED
    BY <2>1
<1> QED
  BY <1>3 DEF Min

-------------------------------------------------------------------------------
(* s is a sequence of n elements.                                          *)
Lists(s, n) == s = [i \in 1..n |-> s[i]]

(* The lemmas are about this name for a concatenation.                     *)
Cat(s, t) == s \o t

LEMMA Joined ==
  ASSUME NEW s, NEW t, NEW m \in Nat, NEW n \in Nat, Lists(s, m), Lists(t, n)
  PROVE  /\ Lists(Cat(s, t), m + n)
         /\ \A i \in 1..m : Cat(s, t)[i] = s[i]
         /\ \A i \in 1..n : Cat(s, t)[m + i] = t[i]
<1> DEFINE S == {s[i] : i \in 1..m} \cup {t[i] : i \in 1..n}
<1>1. s \in Seq(S) /\ Len(s) = m
  BY DEF Lists
<1>2. t \in Seq(S) /\ Len(t) = n
  BY DEF Lists
<1> HIDE DEF S
<1>3. s \o t \in Seq(S) /\ Len(s \o t) = m + n
  BY <1>1, <1>2, ConcatProperties
<1>4. \A i \in 1..m : (s \o t)[i] = s[i]
  BY <1>1, <1>2, ConcatProperties
<1>5. \A i \in 1..n : (s \o t)[m + i] = t[i]
  BY <1>1, <1>2, ConcatProperties
<1>6. Lists(s \o t, m + n)
  BY <1>3 DEF Lists
<1> QED
  BY <1>4, <1>5, <1>6 DEF Cat

LEMMA ListsLength ==
  ASSUME NEW s, NEW n \in Nat, Lists(s, n)
  PROVE  DOMAIN s = 1..n /\ Len(s) = n
<1>1. s \in Seq({s[i] : i \in 1..n})
  BY DEF Lists
<1> QED
  BY <1>1 DEF Lists

IsSequence(s) == s \in Seq(ToSet(s))

LEMMA SequencesJoined ==
  ASSUME NEW s, NEW t, IsSequence(s), IsSequence(t)
  PROVE  IsSequence(Cat(s, t)) /\ ToSet(Cat(s, t)) = ToSet(s) \cup ToSet(t)
<1>1. PICK m \in Nat, n \in Nat : Lists(s, m) /\ Lists(t, n)
  <2>1. Len(s) \in Nat /\ Lists(s, Len(s)) /\ Len(t) \in Nat /\ Lists(t, Len(t))
    BY DEF IsSequence, Lists
  <2> QED
    BY <2>1
<1>2. PICK u : u = Cat(s, t)
  OBVIOUS
<1>3. /\ Lists(u, m + n)
      /\ \A i \in 1..m : u[i] = s[i]
      /\ \A i \in 1..n : u[m + i] = t[i]
  BY <1>1, <1>2, Joined
<1>4. DOMAIN s = 1..m /\ DOMAIN t = 1..n /\ DOMAIN u = 1..(m + n)
  BY <1>1, <1>3 DEF Lists
<1>5. \A i \in 1..(m + n) : i \in 1..m \/ (i - m \in 1..n /\ m + (i - m) = i)
  OBVIOUS
<1>6. \A i \in 1..m : i \in 1..(m + n)
  OBVIOUS
<1>7. \A i \in 1..n : m + i \in 1..(m + n)
  OBVIOUS
<1>8. ToSet(u) \subseteq ToSet(s) \cup ToSet(t)
  <2> SUFFICES ASSUME NEW i \in 1..(m + n) PROVE u[i] \in ToSet(s) \cup ToSet(t)
    BY <1>4 DEF ToSet
  <2>1. CASE i \in 1..m
    BY <1>3, <1>4, <2>1 DEF ToSet
  <2>2. CASE i - m \in 1..n /\ m + (i - m) = i
    BY <1>3, <1>4, <2>2 DEF ToSet
  <2> QED
    BY <1>5, <2>1, <2>2
<1>9. ToSet(s) \subseteq ToSet(u)
  BY <1>3, <1>4, <1>6 DEF ToSet
<1>10. ToSet(t) \subseteq ToSet(u)
  <2> SUFFICES ASSUME NEW i \in 1..n PROVE t[i] \in ToSet(u)
    BY <1>4 DEF ToSet
  <2>1. t[i] = u[m + i] /\ m + i \in DOMAIN u
    BY <1>3, <1>4, <1>7
  <2> QED
    BY <2>1 DEF ToSet
<1>11. IsSequence(u)
  <2>1. \A i \in 1..(m + n) : u[i] \in ToSet(u)
    BY <1>4 DEF ToSet
  <2>2. m + n \in Nat
    OBVIOUS
  <2> QED
    BY <1>3, <2>1, <2>2 DEF IsSequence, Lists
<1> QED
  BY <1>2, <1>8, <1>9, <1>10, <1>11

-------------------------------------------------------------------------------
(* Induction: a set that has 0 and with a number the next one has all.     *)
LEMMA InductionOverNat ==
  ASSUME NEW X, 0 \in X, \A k \in Nat : k \in X => k + 1 \in X
  PROVE  Nat \subseteq X
<1> DEFINE T == Nat \ X
           R == {ss \in Nat \X Nat : ss[1] < ss[2]}
<1> SUFFICES ASSUME T # {} PROVE FALSE
  OBVIOUS
<1>1. IsWellFoundedOn(R, Nat)
  BY NatLessThanWellFounded DEF OpToRel
<1>2. PICK t \in T : \A u \in T : ~(<<u, t>> \in R)
  <2>1. T \subseteq Nat
    OBVIOUS
  <2> HIDE DEF T, R
  <2> QED
    BY <1>1, <2>1, WFMin
<1>3. t - 1 \in Nat /\ t - 1 \notin T
  <2>1. t \in Nat /\ t # 0
    BY <1>2
  <2>2. t - 1 \in Nat /\ <<t - 1, t>> \in R
    BY <2>1
  <2> QED
    BY <1>2, <2>2
<1>4. (t - 1) + 1 \in X
  BY <1>3
<1> QED
  BY <1>2, <1>3, <1>4

(* The function by which FlattenSeq is defined exists.                     *)
LEMMA FlattenedExists ==
  ASSUME NEW seqs, NEW n \in Nat
  PROVE  \E f : f = [i \in 1..n |-> IF i = 1 THEN seqs[i] ELSE f[i - 1] \o seqs[i]]
<1> DEFINE Step(f, i) == IF i = 1 THEN seqs[i] ELSE f[i - 1] \o seqs[i]
           X == {k \in Nat : \E f : f = [i \in 1..k |-> Step(f, i)]}
<1>h. \A f, g, i : (i # 1 => f[i - 1] = g[i - 1]) => Step(f, i) = Step(g, i)
  OBVIOUS
<1> HIDE DEF Step
<1>1. 0 \in X
  <2>1. <<>> = [i \in 1..0 |-> Step(<<>>, i)]
    OBVIOUS
  <2> QED
    BY <2>1
<1>2. ASSUME NEW k \in Nat, k \in X PROVE k + 1 \in X
  <2>1. PICK f : f = [i \in 1..k |-> Step(f, i)]
    BY <1>2
  <2> DEFINE g == [i \in 1..(k + 1) |-> IF i <= k THEN f[i] ELSE Step(f, i)]
  <2>2. \A i \in 1..(k + 1) : g[i] = Step(g, i)
    <3> SUFFICES ASSUME NEW i \in 1..(k + 1) PROVE g[i] = Step(g, i)
      OBVIOUS
    <3>1. i # 1 => i - 1 \in 1..k /\ g[i - 1] = f[i - 1]
      OBVIOUS
    <3>2. i <= k => f[i] = Step(f, i)
      BY <2>1
    <3>3. g[i] = Step(f, i)
      BY <3>2
    <3> QED
      BY <1>h, <3>1, <3>3
  <2>3. g = [i \in 1..(k + 1) |-> Step(g, i)]
    BY <2>2
  <2> HIDE DEF g
  <2> QED
    BY <2>3
<1>3. n \in X
  <2> HIDE DEF X
  <2> QED
    BY <1>1, <1>2, InductionOverNat
<1> QED
  BY <1>3 DEF Step

(* Sequences of elements of S, one after the other, are elements of S.     *)
LEMMA FlattenedFrom ==
  ASSUME NEW S, NEW n \in Nat, NEW seqs \in [1..n -> Seq(S)]
  PROVE  FlattenSeq(seqs) \in Seq(S)
<1>1. CASE n = 0
  <2>1. seqs = <<>> /\ Len(seqs) = 0
    BY <1>1
  <2> QED
    BY <2>1 DEF FlattenSeq
<1>2. CASE n # 0
  <2>1. Len(seqs) = n
    OBVIOUS
  <2>2. PICK f : /\ FlattenSeq(seqs) = f[n]
                 /\ f = [i \in 1..n |-> IF i = 1 THEN seqs[i] ELSE f[i - 1] \o seqs[i]]
    <3>1. PICK g : g = CHOOSE f : f = [i \in 1..n |-> IF i = 1 THEN seqs[i] ELSE f[i - 1] \o seqs[i]]
      OBVIOUS
    <3>2. g = [i \in 1..n |-> IF i = 1 THEN seqs[i] ELSE g[i - 1] \o seqs[i]]
      BY <3>1, FlattenedExists
    <3>3. FlattenSeq(seqs) = g[n]
      BY <1>2, <2>1, <3>1 DEF FlattenSeq
    <3> QED
      BY <3>2, <3>3
  <2> DEFINE X == {k \in Nat : k + 1 <= n => f[k + 1] \in Seq(S)}
  <2>3. 0 \in X
    BY <1>2, <2>2
  <2>4. ASSUME NEW k \in Nat, k \in X PROVE k + 1 \in X
    <3>1. CASE k + 2 <= n
      <4>1. k + 2 \in 1..n /\ k + 2 # 1 /\ (k + 2) - 1 = k + 1 /\ k + 1 <= n
        BY <3>1
      <4>2. f[k + 2] = f[k + 1] \o seqs[k + 2]
        BY <2>2, <4>1
      <4>3. f[k + 1] \in Seq(S) /\ seqs[k + 2] \in Seq(S)
        BY <2>4, <4>1
      <4>4. f[k + 2] \in Seq(S)
        BY <4>2, <4>3, ConcatProperties
      <4> QED
        BY <4>4
    <3>2. CASE ~(k + 2 <= n)
      BY <3>2
    <3> QED
      BY <3>1, <3>2
  <2>5. n - 1 \in X
    <3>1. n - 1 \in Nat
      BY <1>2
    <3> HIDE DEF X
    <3> QED
      BY <2>3, <2>4, <3>1, InductionOverNat
  <2> QED
    BY <1>2, <2>2, <2>5
<1> QED
  BY <1>1, <1>2

(* What two sequences, or three, are put together to.                      *)
LEMMA FlattenedPairs ==
  ASSUME NEW seqs
  PROVE  /\ Lists(seqs, 2) => FlattenSeq(seqs) = Cat(seqs[1], seqs[2])
         /\ Lists(seqs, 3) => FlattenSeq(seqs) = Cat(Cat(seqs[1], seqs[2]), seqs[3])
<1>1. ASSUME NEW n \in {2, 3}, Lists(seqs, n)
      PROVE  \E f : /\ FlattenSeq(seqs) = f[n]
                   /\ f = [i \in 1..n |-> IF i = 1 THEN seqs[i] ELSE f[i - 1] \o seqs[i]]
  <2>1. Len(seqs) = n
    BY <1>1, ListsLength
  <2>2. PICK g : g = CHOOSE f : f = [i \in 1..n |-> IF i = 1 THEN seqs[i] ELSE f[i - 1] \o seqs[i]]
    OBVIOUS
  <2>3. n \in Nat
    OBVIOUS
  <2>4. g = [i \in 1..n |-> IF i = 1 THEN seqs[i] ELSE g[i - 1] \o seqs[i]]
    BY <2>2, <2>3, FlattenedExists
  <2>5. FlattenSeq(seqs) = g[n]
    BY <2>1, <2>2 DEF FlattenSeq
  <2> QED
    BY <2>4, <2>5
<1>i. /\ 1 \in 1..2 /\ 2 \in 1..2 /\ 1 \in 1..3 /\ 2 \in 1..3 /\ 3 \in 1..3
      /\ 2 - 1 = 1 /\ 3 - 1 = 2 /\ 2 # 1 /\ 3 # 1
  OBVIOUS
<1>2. ASSUME Lists(seqs, 2) PROVE FlattenSeq(seqs) = Cat(seqs[1], seqs[2])
  <2>1. PICK f : /\ FlattenSeq(seqs) = f[2]
                 /\ f = [i \in 1..2 |-> IF i = 1 THEN seqs[i] ELSE f[i - 1] \o seqs[i]]
    BY <1>1, <1>2
  <2>2. f[1] = seqs[1]
    BY <2>1
  <2>3. f[2] = f[1] \o seqs[2]
    BY <1>i, <2>1, Zenon
  <2> QED
    BY <2>1, <2>2, <2>3 DEF Cat
<1>3. ASSUME Lists(seqs, 3) PROVE FlattenSeq(seqs) = Cat(Cat(seqs[1], seqs[2]), seqs[3])
  <2>1. PICK f : /\ FlattenSeq(seqs) = f[3]
                 /\ f = [i \in 1..3 |-> IF i = 1 THEN seqs[i] ELSE f[i - 1] \o seqs[i]]
    BY <1>1, <1>3
  <2>2. f[1] = seqs[1]
    BY <2>1
  <2>3. f[2] = f[1] \o seqs[2]
    BY <1>i, <2>1, Zenon
  <2>4. f[3] = f[2] \o seqs[3]
    BY <1>i, <2>1, Zenon
  <2> QED
    BY <2>1, <2>2, <2>3, <2>4 DEF Cat
<1> QED
  BY <1>2, <1>3
===============================================================================
