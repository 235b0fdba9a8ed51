------------------------------ MODULE NatLemmas ------------------------------
(***************************************************************************)
(* Well-ordering and induction over sets of naturals, from the             *)
(* well-foundedness of strict inclusion on finite sets.                    *)
(***************************************************************************)
EXTENDS Integers, FiniteSets, FiniteSetTheorems, WellFoundedInduction, TLAPS

\* A set of naturals has a least element.
LEMMA LeastNatural ==
  ASSUME NEW S \in SUBSET Nat, S # {}
  PROVE  \E x \in S : \A y \in S : x <= y
  <1> PICK n \in S : TRUE OBVIOUS
  <1> DEFINE U == 0 .. n
             R == StrictSubsetOrdering(U)
             T == {X \in SUBSET U : \E x \in S : x <= n /\ X = 0 .. x}
  <1>1. IsFiniteSet(U) BY FS_Interval
  <1>2. IsWellFoundedOn(R, FiniteSubsetsOf(U)) BY <1>1, FS_StrictSubsetOrderingWellFounded
  <1>3. T \subseteq FiniteSubsetsOf(U) BY <1>1, FS_Subset DEF FiniteSubsetsOf
  <1>4. T # {} OBVIOUS
  <1>5. PICK X \in T : \A Y \in T : ~(<<Y, X>> \in R) BY <1>2, <1>3, <1>4, WFMin
  <1>6. PICK x \in S : x <= n /\ X = 0 .. x OBVIOUS
  <1>7. ASSUME NEW y \in S, y < x PROVE FALSE
    <2>1. 0 .. y \in T /\ 0 .. y \in SUBSET U /\ X \in SUBSET U BY <1>6, <1>7
    <2>2. 0 .. y \subseteq X /\ 0 .. y # X BY <1>6, <1>7
    <2>3. <<0 .. y, X>> \in R BY <2>1, <2>2 DEF StrictSubsetOrdering
    <2> QED BY <1>5, <2>1, <2>3
  <1> QED BY <1>7

\* A non-empty bounded set of naturals has a greatest element.
LEMMA GreatestNatural ==
  ASSUME NEW n \in Nat, NEW S \in SUBSET (0 .. n), S # {}
  PROVE  \E x \in S : \A y \in S : y <= x
  <1> DEFINE T == {k \in 0 .. n : n - k \in S}
  <1>1. PICK s \in S : TRUE OBVIOUS
  <1>2. T \in SUBSET Nat OBVIOUS
  <1>3. n - s \in T BY n - (n - s) = s
  <1>4. PICK t \in T : \A u \in T : t <= u BY <1>2, <1>3, LeastNatural
  <1>5. ASSUME NEW y \in S PROVE n - y \in T BY n - (n - y) = y
  <1>6. ASSUME NEW y \in S PROVE y <= n - t BY <1>4, <1>5
  <1> QED BY <1>4, <1>6

\* A set that contains 0 and the successor of each of its naturals contains them
\* all.
LEMMA SetInduction ==
  ASSUME NEW S, 0 \in S, \A n \in Nat : n \in S => n + 1 \in S
  PROVE  Nat \subseteq S
  <1> SUFFICES ASSUME Nat \ S # {} PROVE FALSE OBVIOUS
  <1>1. PICK x \in Nat \ S : \A y \in Nat \ S : x <= y BY LeastNatural
  <1>2. x - 1 \in Nat BY <1>1
  <1>3. x - 1 \in S BY <1>1, <1>2
  <1> QED BY <1>1, <1>2, <1>3
=============================================================================
