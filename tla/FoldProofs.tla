------------------------------ MODULE FoldProofs ------------------------------
(***************************************************************************)
(* Induction over the natural numbers, on a set instead of a predicate,    *)
(* and the largest element of a finite set of them: what is needed to      *)
(* unfold a fold over a sequence one element at a time.                    *)
(***************************************************************************)
EXTENDS FiniteSetsExt, Integers, WellFoundedInduction, TLAPS

LEMMA LeastNumber ==
    ASSUME NEW S \in SUBSET Nat, S # {}
    PROVE  \E n \in S : \A m \in S : n <= m
<1>1. PICK n \in S : \A m \in S : ~(<<m, n>> \in OpToRel(<, Nat))
    BY NatLessThanWellFounded, WFMin
<1>2. ASSUME NEW m \in Nat, NEW k \in Nat, m < k
      PROVE  <<m, k>> \in OpToRel(<, Nat)
    BY <1>2, Zenon DEF OpToRel
<1>3. \A m \in S : ~(m < n)
    BY <1>1, <1>2, Zenon
<1> QED
    BY <1>3

LEMMA ByInduction ==
    ASSUME NEW S, 0 \in S, \A n \in Nat : n \in S => n + 1 \in S
    PROVE  Nat \subseteq S
<1> SUFFICES ASSUME Nat \ S # {}
             PROVE  FALSE
    OBVIOUS
<1>1. PICK n \in Nat \ S : \A m \in Nat \ S : n <= m
    BY LeastNumber
<1>2. n # 0 /\ n - 1 \in Nat /\ n - 1 \in S /\ (n - 1) + 1 = n
    BY <1>1
<1> QED
    BY <1>1, <1>2

LEMMA MaxIs ==
    ASSUME NEW n \in Nat, NEW S \in SUBSET (1..n), n \in S
    PROVE  Max(S) = n
<1>1. \A m \in S : n >= m
    OBVIOUS
<1>2. \A m \in S : (\A k \in S : m >= k) => m = n
    OBVIOUS
<1> QED
    BY <1>1, <1>2, Zenon DEF Max

LEMMA MaxIn ==
    ASSUME NEW n \in Nat, NEW S \in SUBSET (1..n), S # {}
    PROVE  Max(S) \in S /\ \A k \in S : k <= Max(S)
<1> DEFINE below == {n - k : k \in S}
<1>1. below \in SUBSET Nat /\ below # {}
    <2>1. \A k \in S : n - k \in Nat
        OBVIOUS
    <2>2. PICK k \in S : TRUE
        OBVIOUS
    <2> QED
        BY <2>1, <2>2
<1>2. PICK d \in below : \A e \in below : d <= e
    BY <1>1, LeastNumber
<1>3. PICK m \in S : d = n - m
    OBVIOUS
<1>4. \A k \in S : m >= k
    BY <1>2, <1>3
<1>5. Max(S) \in S /\ \A k \in S : Max(S) >= k
    BY <1>3, <1>4, Zenon DEF Max
<1> QED
    BY <1>5

===============================================================================
