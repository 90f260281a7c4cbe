-------------------------- MODULE LeastAndGreatest --------------------------
(***************************************************************************)
(* The look-ups of the components ask for the Min or the Max of a set of    *)
(* integers, which the community modules define by CHOOSE.  A set with a    *)
(* bound has one: what the proofs about those look-ups rest on.  So does    *)
(* induction, and that a recursive function is what its definition asks.   *)
(***************************************************************************)
EXTENDS Integers, FiniteSetsExt, FiniteSetTheorems, TLAPS

\* A set of integers that does not go below a bound has the Min the look-ups ask for.
LEMMA MinFacts ==
  ASSUME NEW S, NEW lo \in Int, S \subseteq Int, S # {}, \A x \in S : lo <= x
  PROVE  Min(S) \in S /\ \A y \in S : Min(S) <= y
  <1> DEFINE T == {lo .. x : x \in S}
  <1>1. T \subseteq FiniteSubsetsOf(Int) /\ T # {}
    <2>1. \A x \in S : IsFiniteSet(lo .. x)
      BY FS_Interval
    <2>2. \A x \in S : lo .. x \in FiniteSubsetsOf(Int)
      BY <2>1 DEF FiniteSubsetsOf
    <2> QED BY <2>2, Zenon
  <1>2. PICK t \in T : \A u \in T : ~ (<<u, t>> \in StrictSubsetOrdering(Int))
    <2> HIDE DEF T
    <2> QED BY <1>1, FS_StrictSubsetOrderingWellFounded, WFMin
  <1>3. PICK x \in S : t = lo .. x
    OBVIOUS
  <1>4. \A y \in S : x <= y
    <2> SUFFICES ASSUME NEW y \in S, y < x PROVE FALSE
      OBVIOUS
    <2>1. lo .. y \subseteq lo .. x /\ x \in lo .. x /\ x \notin lo .. y
      OBVIOUS
    <2>2. <<lo .. y, t>> \in StrictSubsetOrdering(Int)
      BY <1>3, <2>1 DEF StrictSubsetOrdering
    <2> QED BY <1>2, <2>2
  <1> QED BY <1>4 DEF Min

\* A set of integers that does not go above a bound has the Max the look-ups ask for.
LEMMA MaxFacts ==
  ASSUME NEW S, NEW hi \in Int, S \subseteq Int, S # {}, \A x \in S : x <= hi
  PROVE  Max(S) \in S /\ \A y \in S : y <= Max(S)
  <1> DEFINE T == {x .. hi : x \in S}
  <1>1. T \subseteq FiniteSubsetsOf(Int) /\ T # {}
    <2>1. \A x \in S : IsFiniteSet(x .. hi)
      BY FS_Interval
    <2>2. \A x \in S : x .. hi \in FiniteSubsetsOf(Int)
      BY <2>1 DEF FiniteSubsetsOf
    <2> QED BY <2>2, Zenon
  <1>2. PICK t \in T : \A u \in T : ~ (<<u, t>> \in StrictSubsetOrdering(Int))
    <2> HIDE DEF T
    <2> QED BY <1>1, FS_StrictSubsetOrderingWellFounded, WFMin
  <1>3. PICK x \in S : t = x .. hi
    OBVIOUS
  <1>4. \A y \in S : x >= y
    <2> SUFFICES ASSUME NEW y \in S, y > x PROVE FALSE
      OBVIOUS
    <2>1. y .. hi \subseteq x .. hi /\ x \in x .. hi /\ x \notin y .. hi
      OBVIOUS
    <2>2. <<y .. hi, t>> \in StrictSubsetOrdering(Int)
      BY <1>3, <2>1 DEF StrictSubsetOrdering
    <2> QED BY <1>2, <2>2
  <1>5. Max(S) \in S /\ \A y \in S : Max(S) >= y
    BY <1>4 DEF Max
  <1> QED BY <1>5

LEMMA MaxOfOne == \A x \in Int : Max({x}) = x
  BY DEF Max

-----------------------------------------------------------------------------
(* Induction and recursion.                                                *)

\* A set of numbers that has 0, and the successor of each it has, has all of them.
LEMMA Induction ==
  ASSUME NEW S \in SUBSET Nat, 0 \in S, \A n \in S : n + 1 \in S
  PROVE  \A n \in Nat : n \in S
  <1> DEFINE T == Nat \ S
  <1> SUFFICES ASSUME T # {} PROVE FALSE
    OBVIOUS
  <1>1. Min(T) \in T /\ \A y \in T : Min(T) <= y
    <2>1. T \subseteq Int /\ \A x \in T : 0 <= x
      OBVIOUS
    <2> QED BY <2>1, MinFacts
  <1>2. PICK k \in T : \A y \in T : k <= y
    BY <1>1
  <1>3. k \in Nat /\ k # 0 /\ k - 1 \in Nat /\ k - 1 \notin T
    BY <1>2
  <1> QED BY <1>2, <1>3

\* The same with all smaller numbers at once.
LEMMA StrongInduction ==
  ASSUME NEW S \in SUBSET Nat, \A n \in Nat : (\A m \in Nat : m < n => m \in S) => n \in S
  PROVE  \A n \in Nat : n \in S
  <1> DEFINE T == Nat \ S
  <1> SUFFICES ASSUME T # {} PROVE FALSE
    OBVIOUS
  <1>1. Min(T) \in T /\ \A y \in T : Min(T) <= y
    <2>1. T \subseteq Int /\ \A x \in T : 0 <= x
      OBVIOUS
    <2> QED BY <2>1, MinFacts
  <1>2. PICK k \in T : \A y \in T : k <= y
    BY <1>1
  <1>3. \A m \in Nat : m < k => m \in S
    BY <1>2
  <1> QED BY <1>2, <1>3

\* F computes a function on D from that function itself, at arguments of smaller measure m.
Recursive(D, R, N, m, F) ==
  /\ R # {} /\ N \in Nat /\ m \in [D -> 0 .. N] /\ F \in [[D -> R] -> [D -> R]]
  /\ \A f, g \in [D -> R], i \in D :
       (\A j \in D : m[j] < m[i] => f[j] = g[j]) => F[f][i] = F[g][i]

\* A recursive function of a module is the function its definition asks for.
LEMMA Recursion ==
  ASSUME NEW D, NEW R, NEW N, NEW m, NEW F, Recursive(D, R, N, m, F)
  PROVE  \E f \in [D -> R] : F[f] = f
  <1> USE DEF Recursive
  <1> DEFINE S == {n \in Nat : \E f \in [D -> R] : \A i \in D : m[i] < n => F[f][i] = f[i]}
  <1>1. 0 \in S
    <2>1. PICK r \in R : TRUE
      OBVIOUS
    <2>2. [i \in D |-> r] \in [D -> R]
      OBVIOUS
    <2>3. \A i \in D : ~ (m[i] < 0)
      OBVIOUS
    <2> QED BY <2>2, <2>3
  <1>2. ASSUME NEW n \in S PROVE n + 1 \in S
    <2>1. n \in Nat
      OBVIOUS
    <2>2. PICK f \in [D -> R] : \A i \in D : m[i] < n => F[f][i] = f[i]
      OBVIOUS
    <2> DEFINE g == F[f]
    <2>3. g \in [D -> R]
      OBVIOUS
    <2>4. ASSUME NEW i \in D, m[i] < n + 1 PROVE F[g][i] = g[i]
      <3>1. \A j \in D : m[j] < m[i] => m[j] < n
        BY <2>1, <2>4
      <3>2. \A j \in D : m[j] < m[i] => g[j] = f[j]
        BY <2>2, <3>1
      <3> HIDE DEF g
      <3>3. F[g][i] = F[f][i]
        BY <2>3, <3>2
      <3> QED BY <3>3 DEF g
    <2> HIDE DEF g
    <2> QED BY <2>1, <2>3, <2>4
  <1>3. N + 1 \in S
    <2> HIDE DEF S
    <2>1. S \in SUBSET Nat
      BY DEF S
    <2> QED BY <1>1, <1>2, <2>1, Induction
  <1>4. PICK f \in [D -> R] : \A i \in D : m[i] < N + 1 => F[f][i] = f[i]
    BY <1>3
  <1>5. \A i \in D : F[f][i] = f[i]
    BY <1>4
  <1>6. F[f] \in [D -> R]
    OBVIOUS
  <1> QED BY <1>5, <1>6

=============================================================================
