------------------------------- MODULE Induction -------------------------------
(***************************************************************************)
(* Induction for data: over a set of naturals, so that it can be cited     *)
(* without a predicate for a parameter, and what it gives for FoldLeft and *)
(* for the list of a finite set in increasing order.                       *)
(***************************************************************************)
EXTENDS Integers, SequencesExt, SequenceTheorems, FiniteSetTheorems,
        WellFoundedInduction, TLAPS

LEMMA LeastNatural ==
    ASSUME NEW T \in SUBSET Nat, T # {}
    PROVE  \E m \in T : \A k \in T : m <= k
<1>1. PICK m \in T : \A k \in T : ~ (<<k, m>> \in OpToRel(<, Nat))
  BY NatLessThanWellFounded, WFMin
<1>2. \A k \in T : ~ (k < m)
  BY <1>1 DEF OpToRel
<1> QED BY <1>2

(* What is true of 0, and of i + 1 if of i, is true up to n: T is the set  *)
(* of what it is true of.                                                  *)
LEMMA UpTo ==
    ASSUME NEW n \in Nat, NEW T, 0 \in T,
           \A i \in 0 .. n - 1 : i \in T => i + 1 \in T
    PROVE  \A i \in 0 .. n : i \in T
<1> DEFINE Out == {i \in 0 .. n : i \notin T}
<1>1. SUFFICES ASSUME Out # {} PROVE FALSE
  OBVIOUS
<1>2. PICK m \in Out : \A k \in Out : m <= k
  <2>1. Out \in SUBSET Nat
    OBVIOUS
  <2> HIDE DEF Out
  <2> QED BY <1>1, <2>1, LeastNatural
<1>3. m \in 0 .. n /\ m # 0 /\ m - 1 \in 0 .. n - 1 /\ m - 1 + 1 = m
  BY <1>2
<1>4. m - 1 \in T
  BY <1>2, <1>3
<1> QED BY <1>2, <1>3, <1>4

(* The largest of a prefix of the naturals, which FoldLeft takes off *)
LEMMA LargestOfSome ==
    ASSUME NEW k \in Nat, NEW s \in SUBSET (1 .. k + 1), k + 1 \in s
    PROVE  Max(s) = k + 1 /\ s \ {k + 1} \in SUBSET (1 .. k)
<1>1. \A y \in s : k + 1 >= y
  OBVIOUS
<1>2. Max(s) \in s /\ \A y \in s : Max(s) >= y
  BY <1>1 DEF Max
<1>3. Max(s) = k + 1
  <2>1. Max(s) \in 1 .. k + 1
    BY <1>2
  <2> QED BY <1>2, <2>1
<1> QED BY <1>3

LEMMA LargestIn ==
    ASSUME NEW n \in Nat, NEW s \in SUBSET (1 .. n), s # {}
    PROVE  Max(s) \in s
<1> DEFINE T == {n - i : i \in s}
<1>1. T \in SUBSET Nat /\ T # {}
  <2>1. \A i \in s : n - i \in Nat
    OBVIOUS
  <2> QED BY <2>1
<1>2. PICK m \in T : \A k \in T : m <= k
  <2> HIDE DEF T
  <2> QED BY <1>1, LeastNatural
<1>3. n - m \in s /\ \A y \in s : n - m >= y
  BY <1>2
<1> QED BY <1>3 DEF Max

(* What FoldLeft unfolds to, on the subsets of 1 .. n, for a step that is  *)
(* a function; and what agrees with it wherever it has come to a value     *)
(* in S.  The last says how base becomes g[1 .. n], step after step.         *)
FoldsTo(g, n, S, base, step) ==
    /\ g \in [SUBSET (1 .. n) -> S]
    /\ \A s \in SUBSET (1 .. n) :
          g[s] = IF s = {} THEN base ELSE step[<<g[s \ {Max(s)}], Max(s)>>]

FoldsLike(g, n, S, base, step) ==
    /\ g[{}] = base
    /\ \A s \in SUBSET (1 .. n) : s # {} /\ g[s \ {Max(s)}] \in S =>
          g[s] = step[<<g[s \ {Max(s)}], Max(s)>>]

StepsOf(h, g, n, S, base, step) ==
    /\ h \in [0 .. n -> S] /\ h[0] = base /\ h[n] = g[1 .. n]
    /\ \A i \in 0 .. n - 1 : h[i + 1] = step[<<h[i], i + 1>>]

(* A function on the subsets of 1 .. n that does what FoldLeft does exists *)
(* if each step stays in S.                                                *)
LEMMA FoldExists ==
    ASSUME NEW n \in Nat, NEW S, NEW base \in S, NEW step \in [S \X (1 .. n) -> S]
    PROVE  \E g : FoldsTo(g, n, S, base, step)
<1> DEFINE Folds(g, k) ==
              \A s \in SUBSET (1 .. k) :
                 g[s] = IF s = {} THEN base ELSE step[<<g[s \ {Max(s)}], Max(s)>>]
           Done == {k \in 0 .. n : \E g \in [SUBSET (1 .. k) -> S] : Folds(g, k)}
<1>1. 0 \in Done
  <2> DEFINE g == [s \in SUBSET (1 .. 0) |-> base]
  <2>1. SUBSET (1 .. 0) = {{}}
    OBVIOUS
  <2>2. g \in [SUBSET (1 .. 0) -> S] /\ Folds(g, 0) /\ 0 \in 0 .. n
    BY <2>1
  <2> HIDE DEF g, Folds
  <2> QED BY <2>2
<1>2. ASSUME NEW k \in 0 .. n - 1, k \in Done PROVE k + 1 \in Done
  <2>1. PICK h \in [SUBSET (1 .. k) -> S] : Folds(h, k)
    BY <1>2
  <2> DEFINE g == [s \in SUBSET (1 .. k + 1) |->
                      IF k + 1 \in s THEN step[<<h[s \ {k + 1}], k + 1>>] ELSE h[s]]
  <2>2. ASSUME NEW s \in SUBSET (1 .. k + 1), k + 1 \in s
        PROVE  /\ g[s] \in S
               /\ g[s] = step[<<g[s \ {Max(s)}], Max(s)>>]
    <3>1. Max(s) = k + 1 /\ s \ {k + 1} \in SUBSET (1 .. k)
      BY <2>2, LargestOfSome
    <3>2. g[s \ {k + 1}] = h[s \ {k + 1}] /\ h[s \ {k + 1}] \in S
      BY <3>1
    <3>3. k + 1 \in 1 .. n
      OBVIOUS
    <3>4. step[<<h[s \ {k + 1}], k + 1>>] \in S
      BY <3>2, <3>3
    <3> QED BY <2>2, <3>1, <3>2, <3>4
  <2>3. ASSUME NEW s \in SUBSET (1 .. k + 1), k + 1 \notin s
        PROVE  /\ g[s] \in S
               /\ g[s] = IF s = {} THEN base ELSE step[<<g[s \ {Max(s)}], Max(s)>>]
    <3>1. s \in SUBSET (1 .. k) /\ s \ {Max(s)} \in SUBSET (1 .. k)
      <4>1. \A i \in s : i \in 1 .. k + 1 /\ i # k + 1
        BY <2>3
      <4>2. \A i \in s : i \in 1 .. k
        BY <4>1
      <4> QED BY <4>2
    <3>2. g[s] = h[s] /\ g[s \ {Max(s)}] = h[s \ {Max(s)}]
      BY <2>3, <3>1
    <3> QED BY <2>1, <3>1, <3>2
  <2>4. g \in [SUBSET (1 .. k + 1) -> S]
    BY <2>2, <2>3
  <2>5. Folds(g, k + 1)
    <3> SUFFICES ASSUME NEW s \in SUBSET (1 .. k + 1)
                 PROVE  g[s] = IF s = {} THEN base
                               ELSE step[<<g[s \ {Max(s)}], Max(s)>>]
      OBVIOUS
    <3> HIDE DEF g
    <3> QED BY <2>2, <2>3
  <2>6. k + 1 \in 0 .. n
    OBVIOUS
  <2> HIDE DEF g, Folds
  <2> QED BY <2>4, <2>5, <2>6
<1> HIDE DEF Folds
<1>3. \A i \in 0 .. n : i \in Done
  <2> HIDE DEF Done
  <2> QED BY <1>1, <1>2, UpTo
<1>4. PICK g \in [SUBSET (1 .. n) -> S] : Folds(g, n)
  <2>1. n \in 0 .. n
    OBVIOUS
  <2> QED BY <1>3, <2>1
<1> QED BY <1>4 DEF Folds, FoldsTo

(* What such a function has made of 1 .. i, for each i; it need agree with *)
(* step only on S.                                                         *)
LEMMA FoldSteps ==
    ASSUME NEW n \in Nat, NEW S, NEW base \in S, NEW step \in [S \X (1 .. n) -> S],
           NEW g, FoldsLike(g, n, S, base, step)
    PROVE  \E h : StepsOf(h, g, n, S, base, step)
<1> DEFINE T == {i \in 0 .. n : g[1 .. i] \in S}
           h == [i \in 0 .. n |-> g[1 .. i]]
<1>1. ASSUME NEW i \in 0 .. n - 1, i \in T
      PROVE  i + 1 \in T /\ g[1 .. i + 1] = step[<<g[1 .. i], i + 1>>]
  <2>1. /\ Max(1 .. i + 1) = i + 1 /\ (1 .. i + 1) \ {i + 1} = 1 .. i
        /\ 1 .. i + 1 # {} /\ 1 .. i + 1 \in SUBSET (1 .. n)
    <3>1. i \in Nat /\ i + 1 \in 1 .. i + 1
      OBVIOUS
    <3>2. Max(1 .. i + 1) = i + 1
      BY <3>1, LargestOfSome
    <3> QED BY <3>1, <3>2
  <2>2. g[1 .. i] \in S /\ i + 1 \in 1 .. n
    BY <1>1
  <2>3. g[1 .. i + 1] = step[<<g[1 .. i], i + 1>>]
    BY <2>1, <2>2 DEF FoldsLike
  <2>4. step[<<g[1 .. i], i + 1>>] \in S
    BY <2>2
  <2> QED BY <2>2, <2>3, <2>4
<1>2. 0 \in T
  BY 1 .. 0 = {} DEF FoldsLike
<1>3. \A i \in 0 .. n : i \in T
  <2> HIDE DEF T
  <2> QED BY <1>1, <1>2, UpTo
<1>4. h \in [0 .. n -> S] /\ h[0] = base /\ h[n] = g[1 .. n]
  BY <1>3, 1 .. 0 = {} DEF FoldsLike
<1>5. \A i \in 0 .. n - 1 : h[i + 1] = step[<<h[i], i + 1>>]
  BY <1>1, <1>3
<1> HIDE DEF h
<1> QED BY <1>4, <1>5 DEF StepsOf
-----------------------------------------------------------------------------
Increasing(s) == \A i, j \in DOMAIN s : i < j => s[i] < s[j]

(* A finite set of naturals can be listed in increasing order: its least   *)
(* element first, and then the rest.                                       *)
LEMMA IncreasingExists ==
    ASSUME NEW Ids \in SUBSET Nat, IsFiniteSet(Ids)
    PROVE  \E s \in [1 .. Cardinality(Ids) -> Ids] : Increasing(s)
<1> DEFINE n == Cardinality(Ids)
           Listed(S, k) == \E s \in [1 .. k -> S] : Increasing(s)
           T == {k \in 0 .. n : \A S \in SUBSET Nat :
                                   IsFiniteSet(S) /\ Cardinality(S) = k => Listed(S, k)}
<1>1. n \in Nat
  BY FS_CardinalityType
<1>2. 0 \in T
  <2> SUFFICES ASSUME NEW S \in SUBSET Nat, IsFiniteSet(S), Cardinality(S) = 0
               PROVE  Listed(S, 0)
    BY <1>1
  <2> DEFINE s == [i \in 1 .. 0 |-> 0]
  <2>1. s \in [1 .. 0 -> S] /\ Increasing(s)
    BY DEF Increasing
  <2> HIDE DEF s
  <2> QED BY <2>1
<1>3. ASSUME NEW k \in 0 .. n - 1, k \in T PROVE k + 1 \in T
  <2>0. k \in Nat /\ k + 1 \in 0 .. n
    BY <1>1
  <2> SUFFICES ASSUME NEW S \in SUBSET Nat, IsFiniteSet(S), Cardinality(S) = k + 1
               PROVE  Listed(S, k + 1)
    BY <2>0
  <2>1. S # {}
    BY <2>0, FS_EmptySet
  <2>2. PICK m \in S : \A y \in S : m <= y
    BY <2>1, LeastNatural
  <2> DEFINE rest == S \ {m}
  <2>3. IsFiniteSet(rest) /\ Cardinality(rest) = k /\ rest \in SUBSET Nat
    <3>1. Cardinality(rest) = Cardinality(S) - 1 /\ IsFiniteSet(rest)
      BY <2>2, FS_RemoveElement
    <3> QED BY <2>0, <3>1
  <2>4. PICK r \in [1 .. k -> rest] : Increasing(r)
    BY <1>3, <2>3
  <2> DEFINE s == [i \in 1 .. k + 1 |-> IF i = 1 THEN m ELSE r[i - 1]]
  <2>5. \A i \in 1 .. k + 1 : i # 1 => i - 1 \in 1 .. k /\ r[i - 1] \in S
                                       /\ m < r[i - 1]
    <3> SUFFICES ASSUME NEW i \in 1 .. k + 1, i # 1
                 PROVE  i - 1 \in 1 .. k /\ r[i - 1] \in S /\ m < r[i - 1]
      OBVIOUS
    <3>1. i - 1 \in 1 .. k
      BY <2>0
    <3>2. r[i - 1] \in S /\ r[i - 1] # m
      BY <3>1
    <3>3. m \in Nat /\ r[i - 1] \in Nat /\ m <= r[i - 1]
      BY <2>2, <3>2
    <3>4. m < r[i - 1]
      BY <3>2, <3>3
    <3> QED BY <3>1, <3>2, <3>4
  <2>6. s \in [1 .. k + 1 -> S]
    BY <2>5
  <2>7. Increasing(s)
    <3> SUFFICES ASSUME NEW i \in 1 .. k + 1, NEW j \in 1 .. k + 1, i < j
                 PROVE  s[i] < s[j]
      BY DEF Increasing
    <3>1. j # 1 /\ s[j] = r[j - 1] /\ j - 1 \in 1 .. k
      BY <2>0, <2>5
    <3>2. CASE i = 1
      BY <2>5, <3>1, <3>2
    <3>3. CASE i # 1
      <4>1. s[i] = r[i - 1] /\ i - 1 \in 1 .. k /\ i - 1 < j - 1
        BY <2>0, <2>5, <3>3
      <4> QED BY <2>4, <3>1, <4>1 DEF Increasing
    <3> QED BY <3>2, <3>3
  <2> HIDE DEF s
  <2> QED BY <2>6, <2>7
<1>4. \A k \in 0 .. n : k \in T
  <2> HIDE DEF T, n
  <2> QED BY <1>1, <1>2, <1>3, UpTo
<1>5. n \in T
  BY <1>1, <1>4
<1> QED BY <1>5

(* and such a list has all of them. *)
LEMMA IncreasingListsAll ==
    ASSUME NEW Ids \in SUBSET Nat, IsFiniteSet(Ids),
           NEW s \in [1 .. Cardinality(Ids) -> Ids], Increasing(s)
    PROVE  s \in Seq(Ids) /\ ToSet(s) = Ids
<1> DEFINE n == Cardinality(Ids)
<1>1. n \in Nat
  BY FS_CardinalityType
<1>2. IsInjective(s)
  <2> SUFFICES ASSUME NEW i \in 1 .. n, NEW j \in 1 .. n, s[i] = s[j], i # j
               PROVE  FALSE
    BY DEF IsInjective
  <2>1. s[i] \in Nat /\ s[j] \in Nat
    OBVIOUS
  <2>2. i < j \/ j < i
    BY <1>1
  <2>3. s[i] < s[j] \/ s[j] < s[i]
    BY <2>2 DEF Increasing
  <2> QED BY <2>1, <2>3
<1>3. s \in Injection(1 .. n, Ids)
  BY <1>2 DEF Injection
<1>4. Cardinality(1 .. n) = n
  BY <1>1, FS_Interval
<1>5. s \in Surjection(1 .. n, Ids)
  BY <1>3, <1>4, FS_Injection
<1>6. s \in Seq(Ids)
  BY <1>1, SeqDef
<1> QED BY <1>5, <1>6 DEF Surjection, ToSet

LEMMA FiniteImage ==
    ASSUME NEW S, IsFiniteSet(S), NEW f
    PROVE  IsFiniteSet({f[x] : x \in S})
<1> DEFINE g == [x \in S |-> f[x]]
<1>1. g \in Surjection(S, {f[x] : x \in S})
  BY DEF Surjection
<1> QED BY <1>1, FS_Surjection

LEMMA FiniteToSet ==
    ASSUME NEW S, NEW s \in Seq(S)
    PROVE  IsFiniteSet(ToSet(s)) /\ ToSet(s) \subseteq S
<1>1. Len(s) \in Nat /\ DOMAIN s = 1 .. Len(s) /\ \A i \in 1 .. Len(s) : s[i] \in S
  BY LenProperties, ElementOfSeq
<1>2. IsFiniteSet(1 .. Len(s))
  BY <1>1, FS_Interval
<1> QED BY <1>1, <1>2, FiniteImage DEF ToSet
================================================================================
