---------------------------- MODULE CommonLemmas ----------------------------
(***************************************************************************)
(* Facts the proofs of several components rest on.  The two about natural  *)
(* numbers are in a form every prover can use: the induction theorems of   *)
(* the library take an operator as parameter, these take a set, and both   *)
(* follow from the pigeonhole principle for finite sets.                   *)
(***************************************************************************)
EXTENDS Endings, FiniteSets, Functions, FiniteSetTheorems, TLAPS

(* Every set of naturals that is not empty has a least element.  Otherwise  *)
(* the lower bounds of S, a finite set, would be closed under successor,    *)
(* and the successor would inject them into themselves without 0.           *)
LEMMA LeastNumber ==
    ASSUME NEW S \in SUBSET Nat, S # {}
    PROVE  \E m \in S : \A k \in S : m <= k
<1> SUFFICES ASSUME \A m \in S : \E k \in S : k < m
             PROVE  FALSE
  OBVIOUS
<1>1. PICK n \in S : TRUE
  OBVIOUS
<1> DEFINE Bounds == {k \in 0 .. n : \A j \in S : k <= j}
           succ   == [k \in Bounds |-> k + 1]
<1>2. 0 \in Bounds
  BY <1>1
<1>3. ASSUME NEW k \in Bounds
      PROVE  k + 1 \in Bounds \ {0}
  <2>1. k \notin S
    OBVIOUS
  <2>2. \A j \in S : k + 1 <= j
    BY <2>1
  <2> QED
    BY <2>2, <1>1
<1>4. IsFiniteSet(Bounds) /\ Cardinality(Bounds) \in Nat
  <2>1. IsFiniteSet(0 .. n)
    BY FS_Interval, <1>1
  <2> QED
    BY <2>1, FS_Subset, FS_CardinalityType
<1>5. /\ IsFiniteSet(Bounds \ {0})
      /\ Cardinality(Bounds \ {0}) = Cardinality(Bounds) - 1
  BY <1>2, <1>4, FS_RemoveElement
<1>6. succ \in Injection(Bounds, Bounds \ {0})
  BY <1>3 DEF Injection, IsInjective
<1>7. Cardinality(Bounds) <= Cardinality(Bounds \ {0})
  BY <1>5, <1>6, FS_Injection
<1> QED
  BY <1>4, <1>5, <1>7

(* Induction over the naturals for a property given as a set. *)
LEMMA SetInduction ==
    ASSUME NEW S, 0 \in S, \A n \in Nat : n \in S => n + 1 \in S
    PROVE  Nat \subseteq S
<1> SUFFICES ASSUME Nat \ S # {}
             PROVE  FALSE
  OBVIOUS
<1>1. PICK m \in Nat \ S : \A k \in Nat \ S : m <= k
  BY LeastNumber
<1>2. m # 0 /\ m - 1 \in Nat
  BY <1>1
<1>3. m - 1 \in S
  BY <1>1, <1>2
<1> QED
  BY <1>1, <1>2, <1>3

(* Appending the same element to both keeps one sequence the end of the     *)
(* other.                                                                   *)
LEMMA EndsWithAppend ==
    ASSUME NEW S, NEW t \in Seq(S), NEW s \in Seq(S),
           NEW x \in S, EndsWith(t, s)
    PROVE  EndsWith(Append(t, x), Append(s, x))
<1> DEFINE tx == Append(t, x)
           sx == Append(s, x)
<1>1. /\ Len(s) \in Nat /\ Len(t) \in Nat /\ Len(s) <= Len(t)
      /\ Len(sx) = Len(s) + 1 /\ Len(tx) = Len(t) + 1
  BY DEF EndsWith
<1>2. ASSUME NEW i \in 1 .. Len(s) + 1
      PROVE  sx[i] = tx[Len(t) - Len(s) + i]
  <2>1. CASE i = Len(s) + 1
    <3>1. Len(t) - Len(s) + i = Len(t) + 1
      BY <1>1, <2>1
    <3> QED
      BY <1>1, <2>1, <3>1
  <2>2. CASE i # Len(s) + 1
    <3>1. i \in 1 .. Len(s) /\ Len(t) - Len(s) + i \in 1 .. Len(t)
      BY <1>1, <2>2
    <3>2. sx[i] = s[i] /\ tx[Len(t) - Len(s) + i] = t[Len(t) - Len(s) + i]
      BY <3>1
    <3> QED
      BY <3>1, <3>2 DEF EndsWith
  <2> QED
    BY <2>1, <2>2
<1>3. (Len(t) + 1) - (Len(s) + 1) = Len(t) - Len(s)
  BY <1>1
<1> HIDE DEF sx, tx
<1>4. EndsWith(tx, sx)
  BY <1>1, <1>2, <1>3 DEF EndsWith
<1> QED
  BY <1>4 DEF sx, tx

(* The end of an end is an end. *)
LEMMA EndsWithTransitive ==
    ASSUME NEW S, NEW t \in Seq(S), NEW s \in Seq(S),
           NEW r \in Seq(S), EndsWith(t, s), EndsWith(s, r)
    PROVE  EndsWith(t, r)
<1>1. /\ Len(t) \in Nat /\ Len(s) \in Nat /\ Len(r) \in Nat
      /\ Len(r) <= Len(s) /\ Len(s) <= Len(t)
  BY DEF EndsWith
<1>2. ASSUME NEW i \in 1 .. Len(r)
      PROVE  r[i] = t[Len(t) - Len(r) + i]
  <2> DEFINE j == Len(s) - Len(r) + i
  <2>1. r[i] = s[j]
    BY DEF EndsWith
  <2>2. j \in 1 .. Len(s) /\ Len(t) - Len(s) + j = Len(t) - Len(r) + i
    BY <1>1
  <2>3. s[j] = t[Len(t) - Len(s) + j]
    BY <2>2 DEF EndsWith
  <2> QED
    BY <2>1, <2>2, <2>3
<1> QED
  BY <1>1, <1>2 DEF EndsWith
=============================================================================
