----------------------------- MODULE LeastElement -----------------------------
EXTENDS Naturals, FiniteSetsExt, FiniteSetTheorems, TLAPS

(***************************************************************************)
(* A non-empty set of naturals has a least element: among the intervals    *)
(* 0..k with k in the set, one has no other as a proper subset.            *)
(***************************************************************************)
LEMMA MinExists ==
  ASSUME NEW T \in SUBSET Nat, T # {}
  PROVE  /\ Min(T) \in T
         /\ \A y \in T : Min(T) =< y
<1>. DEFINE F == { 0..k : k \in T }
<1>1. F \subseteq FiniteSubsetsOf(Nat) /\ F # {}
  <2>1. \A k \in T : IsFiniteSet(0..k) /\ 0..k \in SUBSET Nat
    BY FS_Interval
  <2>. QED BY <2>1 DEF FiniteSubsetsOf
<1>2. PICK x \in F : \A y \in F : ~ (<<y, x>> \in StrictSubsetOrdering(Nat))
  <2>. HIDE DEF F
  <2>. QED BY <1>1, FS_StrictSubsetOrderingWellFounded, WFMin
<1>3. PICK m \in T : x = 0..m
  OBVIOUS
<1>4. \A k \in T : m =< k
  <2>1. SUFFICES ASSUME NEW k \in T, k < m PROVE FALSE
    OBVIOUS
  <2>2. 0..k \in SUBSET Nat /\ 0..m \in SUBSET Nat /\ 0..k \subseteq 0..m
    BY <2>1
  <2>3. m \in 0..m /\ m \notin 0..k
    BY <2>1
  <2>4. <<0..k, x>> \in StrictSubsetOrdering(Nat)
    BY <1>3, <2>2, <2>3 DEF StrictSubsetOrdering
  <2>5. 0..k \in F
    OBVIOUS
  <2>. QED BY <1>2, <2>4, <2>5
<1>. QED BY <1>4 DEF Min
=============================================================================
