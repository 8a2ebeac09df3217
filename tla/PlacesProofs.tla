---------------------------- MODULE PlacesProofs ----------------------------
(***************************************************************************)
(* Facts about numbers, sequences and what is kept of them, for any length *)
(* and any members: the numbers of a finite set are numbered through       *)
(* without a gap (EveryPlaceIsTaken), and what a filter keeps is exactly   *)
(* the members it should keep, each once and in their order (KeptMembers). *)
(***************************************************************************)
EXTENDS Places, SequencesExt, FiniteSetsExt, FunctionTheorems, FiniteSetTheorems,
        SequenceTheorems, WellFoundedInduction, TLAPS

-----------------------------------------------------------------------------
(* Numbers.                                                                *)

(* Every set of natural numbers that is not empty has a least member: the   *)
(* intervals 1..n, n in the set, are finite, and strict inclusion is well   *)
(* founded on finite sets.                                                  *)
LEMMA LeastNumber ==
    ASSUME NEW S \in SUBSET Nat, S # {}
    PROVE  /\ Min(S) \in S
           /\ \A y \in S : Min(S) <= y
<1> DEFINE intervals == {1..n : n \in S}
<1>1. \A n \in Nat : 1..n \in FiniteSubsetsOf(Nat)
  BY FS_Interval DEF FiniteSubsetsOf
<1>2. intervals \subseteq FiniteSubsetsOf(Nat) /\ intervals # {}
  BY <1>1
<1>3. PICK least \in intervals :
         \A other \in intervals : <<other, least>> \notin StrictSubsetOrdering(Nat)
  <2> HIDE DEF intervals
  <2> QED BY <1>2, FS_StrictSubsetOrderingWellFounded, WFMin
<1>4. PICK m \in S : least = 1..m
  BY <1>3
<1>5. \A n \in S : m <= n
  <2> SUFFICES ASSUME NEW n \in S, n < m PROVE FALSE
    OBVIOUS
  <2>1. m \in 1..m /\ m \notin 1..n
    OBVIOUS
  <2>2. <<1..n, 1..m>> \in StrictSubsetOrdering(Nat)
    BY <2>1 DEF StrictSubsetOrdering
  <2> QED BY <1>3, <1>4, <2>2
<1> QED BY <1>5 DEF Min

(* A set of numbers up to n that is not empty has a greatest member.       *)
LEMMA GreatestNumber ==
    ASSUME NEW n \in Nat, NEW S \in SUBSET (0..n), S # {}
    PROVE  /\ Max(S) \in S
           /\ \A y \in S : y <= Max(S)
<1> DEFINE below == {n - y : y \in S}
<1>1. below \in SUBSET Nat /\ below # {}
  <2>1. \A y \in S : n - y \in Nat
    OBVIOUS
  <2>2. PICK y \in S : TRUE
    OBVIOUS
  <2>3. n - y \in below
    BY <2>2
  <2> QED BY <2>1, <2>3
<1>2. Min(below) \in below /\ \A z \in below : Min(below) <= z
  <2> HIDE DEF below
  <2> QED BY <1>1, LeastNumber
<1>3. PICK m \in S : Min(below) = n - m
  BY <1>2
<1>4. \A y \in S : y <= m
  <2> SUFFICES ASSUME NEW y \in S PROVE y <= m
    OBVIOUS
  <2>1. n - m <= n - y
    BY <1>2, <1>3
  <2> QED BY <2>1
<1> HIDE DEF below
<1>5. \E x \in S : \A y \in S : x >= y
  BY <1>4
<1>6. Max(S) \in S /\ \A y \in S : Max(S) >= y
  <2> DEFINE P(x) == \A y \in S : x >= y
  <2>1. Max(S) = CHOOSE x \in S : P(x)
    BY DEF Max
  <2>2. \E x \in S : P(x)
    BY <1>5
  <2> HIDE DEF P
  <2>3. Max(S) \in S /\ P(Max(S))
    BY <2>1, <2>2
  <2> QED BY <2>3 DEF P
<1> QED BY <1>6

(* The greater of two numbers.                                             *)
LEMMA MaxOfTwo ==
    ASSUME NEW a \in Int, NEW b \in Int
    PROVE  /\ Max({a, b}) \in {a, b}
           /\ Max({a, b}) >= a /\ Max({a, b}) >= b
<1>1. \E x \in {a, b} : \A y \in {a, b} : x >= y
  <2>1. CASE a >= b
    BY <2>1
  <2>2. CASE ~(a >= b)
    BY <2>2
  <2> QED BY <2>1, <2>2
<1> QED BY <1>1 DEF Max

-----------------------------------------------------------------------------
(* What is kept of a sequence.                                             *)

(* Later members have more members before them.                            *)
LEMMA RanksGrow ==
    ASSUME NEW at \in SUBSET Int, IsFiniteSet(at)
    PROVE  /\ Cardinality(at) \in Nat
           /\ \A i \in at : Place(i, at) \in 1..Cardinality(at)
           /\ \A i, j \in at : i < j => Place(i, at) < Place(j, at)
<1> DEFINE upto(i) == {j \in at : j <= i}
<1>1. IsFiniteSet(at) /\ Cardinality(at) \in Nat
  BY FS_CardinalityType
<1>2. \A i : /\ IsFiniteSet(upto(i)) /\ Cardinality(upto(i)) \in Nat
             /\ Cardinality(upto(i)) <= Cardinality(at)
  BY <1>1, FS_Subset, FS_CardinalityType
<1>3. ASSUME NEW i \in at PROVE Place(i, at) \in 1..Cardinality(at)
  <2>1. i \in upto(i)
    OBVIOUS
  <2>2. Cardinality(upto(i)) # 0
    BY <1>2, <2>1, FS_EmptySet
  <2>3. Cardinality(upto(i)) \in 1..Cardinality(at)
    <3> HIDE DEF upto
    <3> QED BY <1>1, <1>2, <2>2
  <2> QED BY <2>3 DEF Place
<1>4. ASSUME NEW i \in at, NEW j \in at, i < j PROVE Place(i, at) < Place(j, at)
  <2>1. upto(i) \in SUBSET upto(j) /\ j \in upto(j) /\ j \notin upto(i)
    <3>1. \A k \in at : k \in Int
      OBVIOUS
    <3>2. i \in Int /\ j \in Int
      BY <3>1
    <3>3. \A k \in at : k <= i => k <= j
      BY <1>4, <3>1, <3>2
    <3>4. j <= j /\ ~(j <= i)
      BY <1>4, <3>2
    <3> QED BY <3>3, <3>4
  <2>2. /\ Cardinality(upto(i)) <= Cardinality(upto(j))
        /\ Cardinality(upto(i)) # Cardinality(upto(j))
    <3>1. IsFiniteSet(upto(j)) /\ upto(i) # upto(j)
      BY <1>2, <2>1
    <3> HIDE DEF upto
    <3>2. /\ Cardinality(upto(i)) <= Cardinality(upto(j))
          /\ Cardinality(upto(j)) = Cardinality(upto(i)) => upto(j) = upto(i)
      BY <2>1, <3>1, FS_Subset
    <3> QED BY <3>1, <3>2
  <2>3. Cardinality(upto(i)) < Cardinality(upto(j))
    <3> HIDE DEF upto
    <3> QED BY <1>2, <2>2
  <2> QED BY <2>3 DEF Place
<1> QED BY <1>1, <1>3, <1>4

(* The members are numbered through, without a gap, in their order.        *)
LEMMA EveryRankIsTaken ==
    ASSUME NEW at \in SUBSET Int, IsFiniteSet(at)
    PROVE  /\ \A k \in 1..Cardinality(at) : Nth(k, at) \in at /\ Place(Nth(k, at), at) = k
           /\ \A i \in at : Nth(Place(i, at), at) = i
           /\ \A j, k \in 1..Cardinality(at) : j < k => Nth(j, at) < Nth(k, at)
<1> DEFINE m == Cardinality(at)
           f == [i \in at |-> Place(i, at)]
<1>1. /\ IsFiniteSet(at) /\ m \in Nat
      /\ \A i \in at : Place(i, at) \in 1..m
      /\ \A i, j \in at : i < j => Place(i, at) < Place(j, at)
  BY RanksGrow
<1>2. \A i, j \in at : Place(i, at) = Place(j, at) => i = j
  <2> SUFFICES ASSUME NEW i \in at, NEW j \in at, i # j PROVE Place(i, at) # Place(j, at)
    OBVIOUS
  <2>1. i < j \/ j < i
    OBVIOUS
  <2>2. Place(i, at) \in Int /\ Place(j, at) \in Int
    BY <1>1
  <2> QED BY <1>1, <2>1, <2>2
<1> HIDE DEF m
<1>3. f \in Injection(at, 1..m)
  BY <1>1, <1>2 DEF Injection, IsInjective
<1>4. IsFiniteSet(1..m) /\ Cardinality(1..m) = m
  BY <1>1, FS_Interval
<1>5. f \in Surjection(at, 1..m)
  <2> HIDE DEF f
  <2> QED BY <1>3, <1>4, FS_Injection DEF m
<1>6. \A k \in 1..m : \E i \in at : Place(i, at) = k
  BY <1>5 DEF Surjection
<1>7. \A k \in 1..m : Nth(k, at) \in at /\ Place(Nth(k, at), at) = k
  BY <1>6 DEF Nth
<1>8. \A i \in at : Nth(Place(i, at), at) = i
  BY <1>1, <1>2, <1>7
<1>9. ASSUME NEW j \in 1..m, NEW k \in 1..m, j < k PROVE Nth(j, at) < Nth(k, at)
  <2>1. /\ Nth(j, at) \in at /\ Nth(k, at) \in at
        /\ Place(Nth(j, at), at) = j /\ Place(Nth(k, at), at) = k
    BY <1>7
  <2> DEFINE a == Nth(j, at)
             b == Nth(k, at)
  <2> HIDE DEF a, b
  <2>2. a \in at /\ b \in at /\ Place(a, at) = j /\ Place(b, at) = k
    BY <2>1 DEF a, b
  <2>3. a \in Int /\ b \in Int /\ j \in Int /\ k \in Int
    BY <1>1, <2>2
  <2>4. b < a => k < j
    BY <1>1, <2>2
  <2>5. a # b
    BY <1>9, <2>2, <2>3
  <2>6. a < b
    BY <1>9, <2>3, <2>4, <2>5
  <2> QED BY <2>6 DEF a, b
<1> QED BY <1>7, <1>8, <1>9 DEF m

(* The same for the places of a sequence.                                  *)
LEMMA PlacesGrow ==
    ASSUME NEW n \in Nat, NEW at \in SUBSET (1..n)
    PROVE  /\ IsFiniteSet(at) /\ Cardinality(at) \in Nat
           /\ \A i \in at : Place(i, at) \in 1..Cardinality(at)
           /\ \A i, j \in at : i < j => Place(i, at) < Place(j, at)
<1>1. at \in SUBSET Int /\ IsFiniteSet(1..n)
  BY FS_Interval
<1>2. IsFiniteSet(at)
  BY <1>1, FS_Subset
<1> QED BY <1>1, <1>2, RanksGrow

(* The same for the places of a sequence, which are finitely many.         *)
LEMMA EveryPlaceIsTaken ==
    ASSUME NEW n \in Nat, NEW at \in SUBSET (1..n)
    PROVE  /\ \A k \in 1..Cardinality(at) : Nth(k, at) \in at /\ Place(Nth(k, at), at) = k
           /\ \A i \in at : Nth(Place(i, at), at) = i
           /\ \A j, k \in 1..Cardinality(at) : j < k => Nth(j, at) < Nth(k, at)
<1>1. at \in SUBSET Int /\ IsFiniteSet(at)
  BY PlacesGrow
<1> QED BY <1>1, EveryRankIsTaken

(* A sequence, whatever its members are.                                   *)
IsSeq(s) == s \in Seq(ToSet(s))

(* What is kept is a sequence of members, each of its own place.           *)
LEMMA KeptMembers ==
    ASSUME NEW s, IsSeq(s), NEW at \in SUBSET DOMAIN s
    PROVE  /\ IsSeq(Keep(s, at))
           /\ Len(Keep(s, at)) = Cardinality(at) /\ Cardinality(at) \in Nat
           /\ DOMAIN Keep(s, at) = 1..Cardinality(at)
           /\ \A k \in DOMAIN Keep(s, at) : Nth(k, at) \in at /\ Keep(s, at)[k] = s[Nth(k, at)]
           /\ ToSet(Keep(s, at)) = {s[i] : i \in at}
<1>1. Len(s) \in Nat /\ DOMAIN s = 1..Len(s)
  BY DEF IsSeq
<1> DEFINE m == Cardinality(at)
           kept == Keep(s, at)
<1>2. m \in Nat /\ \A i \in at : Place(i, at) \in 1..m
  BY <1>1, PlacesGrow
<1>3. /\ \A k \in 1..m : Nth(k, at) \in at
      /\ \A i \in at : Nth(Place(i, at), at) = i
  BY <1>1, EveryPlaceIsTaken
<1> HIDE DEF m
<1>4. DOMAIN kept = 1..m /\ \A k \in 1..m : kept[k] = s[Nth(k, at)]
  BY DEF Keep, m
<1>5. kept = [k \in 1..m |-> kept[k]]
  BY DEF Keep, m
<1> HIDE DEF kept
<1>6. IsSeq(kept) /\ Len(kept) = m
  <2>1. kept \in [1..m -> ToSet(kept)]
    BY <1>4, <1>5 DEF ToSet
  <2> QED BY <1>2, <2>1 DEF IsSeq
<1>7. ToSet(kept) = {s[i] : i \in at}
  BY <1>2, <1>3, <1>4 DEF ToSet
<1> QED BY <1>2, <1>3, <1>4, <1>6, <1>7 DEF m, kept

(* The values of a map from finitely many numbers: each once, in order.    *)
LEMMA AscendingMembers ==
    ASSUME NEW f, DOMAIN f \in SUBSET Int, IsFiniteSet(DOMAIN f)
    PROVE  /\ IsSeq(Ascending(f))
           /\ Len(Ascending(f)) = Cardinality(DOMAIN f) /\ Cardinality(DOMAIN f) \in Nat
           /\ DOMAIN Ascending(f) = 1..Cardinality(DOMAIN f)
           /\ \A k \in DOMAIN Ascending(f) :
                 Nth(k, DOMAIN f) \in DOMAIN f /\ Ascending(f)[k] = f[Nth(k, DOMAIN f)]
           /\ \A j, k \in DOMAIN Ascending(f) : j < k => Nth(j, DOMAIN f) < Nth(k, DOMAIN f)
           /\ \A i \in DOMAIN f : \E k \in DOMAIN Ascending(f) : Nth(k, DOMAIN f) = i
<1> DEFINE at == DOMAIN f
           m == Cardinality(at)
           rows == Ascending(f)
<1>1. at \in SUBSET Int /\ IsFiniteSet(at)
  OBVIOUS
<1> HIDE DEF at
<1>2. m \in Nat /\ \A i \in at : Place(i, at) \in 1..m
  BY <1>1, RanksGrow
<1>3. /\ \A k \in 1..m : Nth(k, at) \in at
      /\ \A i \in at : Nth(Place(i, at), at) = i
      /\ \A j, k \in 1..m : j < k => Nth(j, at) < Nth(k, at)
  BY <1>1, EveryRankIsTaken
<1> HIDE DEF m
<1>4. /\ DOMAIN rows = 1..m /\ rows = [k \in 1..m |-> rows[k]]
      /\ \A k \in 1..m : rows[k] = f[Nth(k, at)]
  BY DEF Ascending, Keep, m, at
<1> HIDE DEF rows
<1>5. IsSeq(rows) /\ Len(rows) = m
  <2>1. rows \in [1..m -> ToSet(rows)]
    BY <1>4 DEF ToSet
  <2> QED BY <1>2, <2>1 DEF IsSeq
<1>6. \A i \in at : \E k \in DOMAIN rows : Nth(k, at) = i
  BY <1>2, <1>3, <1>4
<1> QED BY <1>2, <1>3, <1>4, <1>5, <1>6 DEF m, at, rows

-----------------------------------------------------------------------------
(* Sequences.                                                              *)

(* A sequence has the domain of its length, and so has what is appended.   *)
LEMMA SeqShape ==
    ASSUME NEW s, IsSeq(s)
    PROVE  /\ Len(s) \in Nat /\ DOMAIN s = 1..Len(s)
           /\ \A x : /\ IsSeq(Append(s, x)) /\ Len(Append(s, x)) = Len(s) + 1
                     /\ DOMAIN Append(s, x) = 1..(Len(s) + 1)
                     /\ \A i \in 1..Len(s) : Append(s, x)[i] = s[i]
                     /\ Append(s, x)[Len(s) + 1] = x
                     /\ ToSet(Append(s, x)) = ToSet(s) \cup {x}
<1>1. Len(s) \in Nat /\ DOMAIN s = 1..Len(s)
  BY DEF IsSeq
<1>2. ASSUME NEW x
      PROVE  /\ IsSeq(Append(s, x)) /\ Len(Append(s, x)) = Len(s) + 1
             /\ DOMAIN Append(s, x) = 1..(Len(s) + 1)
             /\ \A i \in 1..Len(s) : Append(s, x)[i] = s[i]
             /\ Append(s, x)[Len(s) + 1] = x
             /\ ToSet(Append(s, x)) = ToSet(s) \cup {x}
  <2> DEFINE a == Append(s, x)
             S == ToSet(s) \cup {x}
  <2>1. s \in Seq(S)
    BY SeqMonotonic DEF IsSeq
  <2>2. /\ a \in Seq(S) /\ Len(a) = Len(s) + 1
        /\ \A i \in 1..Len(s) : a[i] = s[i]
        /\ a[Len(s) + 1] = x
    <3> HIDE DEF S
    <3>1. x \in S
      BY DEF S
    <3> QED BY <2>1, <3>1, AppendProperties
  <2> HIDE DEF a, S
  <2>3. DOMAIN a = 1..(Len(s) + 1)
    BY <2>2
  <2>4. ToSet(a) = ToSet(s) \cup {x}
    BY <1>1, <2>2, <2>3 DEF ToSet
  <2>5. IsSeq(a)
    BY <2>2, <2>4 DEF IsSeq, S
  <2> QED BY <2>2, <2>3, <2>4, <2>5 DEF a
<1> QED BY <1>1, <1>2

(* A function on 1..n is a sequence of length n, and equal to another      *)
(* sequence that has the same members in the same places.                  *)
LEMMA FunctionIsSeq ==
    ASSUME NEW n \in Nat, NEW s, DOMAIN s = 1..n, s = [i \in 1..n |-> s[i]]
    PROVE  IsSeq(s) /\ Len(s) = n
<1>1. s \in [1..n -> ToSet(s)]
  BY DEF ToSet
<1> QED BY <1>1 DEF IsSeq

(* Sequences of one length that agree place by place are equal.            *)
LEMMA SameSeq ==
    ASSUME NEW s, NEW t, IsSeq(s), IsSeq(t), Len(s) = Len(t), \A i \in 1..Len(s) : s[i] = t[i]
    PROVE  s = t
<1>1. s \in Seq(ToSet(s) \cup ToSet(t)) /\ t \in Seq(ToSet(s) \cup ToSet(t))
  BY SeqMonotonic DEF IsSeq
<1> HIDE DEF ToSet
<1> QED BY <1>1, SeqEqual

(* The first members of a sequence.                                        *)
LEMMA FirstMembers ==
    ASSUME NEW s, IsSeq(s), NEW n \in 0..Len(s)
    PROVE  LET part == SubSeq(s, 1, n)
           IN  /\ IsSeq(part) /\ Len(part) = n /\ DOMAIN part = 1..n
               /\ \A i \in 1..n : part[i] = s[i]
<1> DEFINE part == SubSeq(s, 1, n)
<1>1. Len(s) \in Nat /\ DOMAIN s = 1..Len(s) /\ n \in Int /\ 0 <= n /\ n <= Len(s)
  BY DEF IsSeq
<1>2. \A i \in 1..n : s[i] \in ToSet(s)
  BY <1>1 DEF ToSet
<1>3. /\ part \in Seq(ToSet(s)) /\ Len(part) = IF 1 <= n THEN n - 1 + 1 ELSE 0
      /\ \A i \in 1..n - 1 + 1 : part[i] = s[1 + i - 1]
  <2> HIDE DEF ToSet
  <2> QED BY <1>1, <1>2, SubSeqProperties
<1> HIDE DEF part
<1>4. Len(part) = n
  BY <1>1, <1>3
<1>5. DOMAIN part = 1..n /\ part \in [1..n -> ToSet(s)]
  BY <1>3, <1>4, LenProperties
<1>6. \A i \in 1..n : part[i] = s[i]
  BY <1>1, <1>3
<1>7. part \in [1..n -> ToSet(part)]
  BY <1>5 DEF ToSet
<1>8. IsSeq(part)
  BY <1>1, <1>7 DEF IsSeq
<1> QED BY <1>4, <1>5, <1>6, <1>8 DEF part
=============================================================================
