--------------------------- MODULE LeastElements ---------------------------
(***************************************************************************)
(* What the proofs of several modules need in the place of induction: the  *)
(* program takes what comes first, or newest, so there is such a one.      *)
(***************************************************************************)
EXTENDS Naturals, FiniteSets, FiniteSetTheorems, WellFoundedInduction, TLAPS

\* A non-empty set of natural numbers has a least one.
LEMMA LeastExists ==
  ASSUME NEW S, S \subseteq Nat, S # {}
  PROVE  \E x \in S : \A y \in S : x <= y
<1>. DEFINE Less == {ss \in Nat \X Nat : ss[1] < ss[2]}
<1>1. IsWellFoundedOn(Less, Nat)
  BY NatLessThanWellFounded DEF OpToRel
<1>2. \E x \in S : \A y \in S : ~(<<y, x>> \in Less)
  <2>. HIDE DEF Less
  <2>q. QED
    BY <1>1, WFMin
<1>3. ASSUME NEW x \in S, NEW y \in S, <<y, x>> \notin Less PROVE x <= y
  <2>1. <<y, x>> \in Nat \X Nat
    OBVIOUS
  <2>2. ~(<<y, x>>[1] < <<y, x>>[2])
    BY <2>1, <1>3, Zenon
  <2>q. QED
    BY <2>2
<1>q. QED
  <2>. HIDE DEF Less
  <2>q. QED
    BY <1>2, <1>3

\* A non-empty collection of subsets of a finite set has a minimal member.
LEMMA MinimalExists ==
  ASSUME NEW S, IsFiniteSet(S), NEW T, T \subseteq SUBSET S, T # {}
  PROVE  \E x \in T : \A y \in T : y \subseteq x => y = x
<1>1. IsWellFoundedOn(StrictSubsetOrdering(S), SUBSET S)
  BY FS_StrictSubsetOrderingWellFounded, FS_FiniteSubsetsOfFinite
<1>2. \E q \in T : \A r \in T : ~(<<r, q>> \in StrictSubsetOrdering(S))
  BY <1>1, WFMin
<1>3. ASSUME NEW q \in T, NEW r \in T, r \subseteq q, r # q
      PROVE  <<r, q>> \in StrictSubsetOrdering(S)
  BY <1>3 DEF StrictSubsetOrdering
<1>q. QED
  BY <1>2, <1>3

\* A non-empty finite set has an element that no other is above, for any
\* transitive and irreflexive relation, given by what is above each element.
LEMMA TopExists ==
  ASSUME NEW S, IsFiniteSet(S), S # {}, NEW Above, Above \in [S -> SUBSET S],
         \A x \in S : x \notin Above[x],
         \A x \in S : \A y \in Above[x] : Above[y] \subseteq Above[x]
  PROVE  \E x \in S : Above[x] = {}
<1>. DEFINE T == {Above[x] : x \in S}
<1>1. T \subseteq SUBSET S /\ T # {}
  OBVIOUS
<1>2. \E p \in T : \A q \in T : q \subseteq p => q = p
  <2>. HIDE DEF T
  <2>q. QED
    BY <1>1, MinimalExists
<1>3. PICK x \in S : \A y \in S : Above[y] \subseteq Above[x] => Above[y] = Above[x]
  BY <1>2
<1>4. ASSUME NEW y \in Above[x] PROVE FALSE
  <2>1. y \in S /\ Above[y] \subseteq Above[x]
    OBVIOUS
  <2>q. QED
    BY <1>3, <2>1
<1>q. QED
  BY <1>4
=============================================================================
