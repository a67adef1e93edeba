------------------------------ MODULE DataLemmas ------------------------------
(***************************************************************************)
(* Facts about data that the proofs of several components need: induction  *)
(* on the natural numbers, the powers of two, and lists.                   *)
(*                                                                         *)
(* Induction is stated for a set of numbers, not for a predicate: the set  *)
(* of the numbers that have the property can be given to a prover, an      *)
(* operator cannot.                                                        *)
(***************************************************************************)
EXTENDS Lists, Integers, FiniteSets, FiniteSetTheorems, SequenceTheorems, WellFoundedInduction, TLAPS

(* a set of natural numbers has a least element *)
LEMMA LeastNatural ==
  ASSUME NEW T, T \subseteq Nat, T # {}
  PROVE  \E m \in T : \A k \in T : m <= k
<1>1. \E x \in T : \A y \in T : ~ (<<y, x>> \in OpToRel(<, Nat))
  BY NatLessThanWellFounded, WFMin
<1>2. PICK x \in T : \A y \in T : ~ (<<y, x>> \in OpToRel(<, Nat))
  BY <1>1
<1>3. \A y \in T : ~(y < x)
  BY <1>2 DEF OpToRel
<1> QED
  BY <1>3

(* A set of natural numbers that has 0 and the successor of each of its    *)
(* elements has them all.                                                  *)
THEOREM SetInduction ==
  ASSUME NEW T, 0 \in T, \A n \in Nat : n \in T => n + 1 \in T
  PROVE  Nat \subseteq T
<1> DEFINE B == Nat \ T
<1>1. SUFFICES ASSUME B # {} PROVE FALSE
  OBVIOUS
<1>2. PICK m \in B : \A k \in B : m <= k
  BY <1>1, LeastNatural
<1>3. m # 0 /\ m - 1 \in Nat
  BY <1>2
<1>4. m - 1 \in T
  BY <1>2, <1>3
<1> QED
  BY <1>2, <1>3, <1>4

(* g is the recursive function over 0..N that makes of its value at each   *)
(* place the next one with 'step'                                          *)
Steps(N, D) == [1..N -> [D -> D]]
Iterates(g, N, D, start, step) ==
  g \in [0..N -> D] /\ g[0] = start /\ \A n \in 1..N : g[n] = step[n][g[n - 1]]

(* there is such a function *)
LEMMA FiniteRecursion ==
  ASSUME NEW N \in Nat, NEW D, NEW start \in D, NEW step \in Steps(N, D)
  PROVE  \E g : Iterates(g, N, D, start, step)
<1> USE DEF Steps
<1> DEFINE Good(g, n) == g[0] = start /\ \A m \in 1..n : g[m] = step[m][g[m - 1]]
           Exists(n) == \E g \in [0..n -> D] : Good(g, n)
           T == {n \in Nat : n <= N => Exists(n)}
<1>1. Exists(0)
  <2> DEFINE g == [m \in 0..0 |-> start]
  <2>1. g \in [0..0 -> D] /\ g[0] = start
    OBVIOUS
  <2>2. 1..0 = {}
    OBVIOUS
  <2> HIDE DEF g
  <2>3. Good(g, 0)
    BY <2>1, <2>2
  <2> QED
    BY <2>1, <2>3
<1>2. ASSUME NEW n \in Nat, n + 1 <= N, Exists(n) PROVE Exists(n + 1)
  <2>1. PICK g \in [0..n -> D] : Good(g, n)
    BY <1>2
  <2>2. g[n] \in D /\ n + 1 \in 1..N
    BY <1>2
  <2> DEFINE d == step[n + 1][g[n]]
             h == [m \in 0..(n + 1) |-> IF m = n + 1 THEN d ELSE g[m]]
  <2>3. d \in D
    BY <2>2
  <2> HIDE DEF d
  <2>4. h \in [0..(n + 1) -> D] /\ h[n + 1] = d /\ \A m \in 0..n : h[m] = g[m]
    BY <2>3
  <2> HIDE DEF h
  <2>5. h[0] = start
    BY <2>1, <2>4
  <2>6. ASSUME NEW m \in 1..(n + 1) PROVE h[m] = step[m][h[m - 1]]
    <3>1. CASE m = n + 1
      <4>1. m - 1 = n /\ n \in 0..n
        BY <3>1
      <4> QED
        BY <3>1, <4>1, <2>4 DEF d
    <3>2. CASE m \in 1..n
      <4>1. m \in 0..n /\ m - 1 \in 0..n
        BY <3>2
      <4>2. g[m] = step[m][g[m - 1]]
        BY <3>2, <2>1
      <4> QED
        BY <4>1, <4>2, <2>4
    <3> QED
      BY <3>1, <3>2
  <2>7. Good(h, n + 1)
    BY <2>5, <2>6
  <2> HIDE DEF Good
  <2> QED
    BY <2>4, <2>7
<1> HIDE DEF Exists
<1>3. \A n \in Nat : n \in T => n + 1 \in T
  BY <1>2
<1>4. 0 \in T
  BY <1>1
<1> HIDE DEF T
<1>5. N \in T
  BY <1>3, <1>4, SetInduction
<1>6. Exists(N)
  BY <1>5 DEF T
<1> QED
  BY <1>6 DEF Exists, Iterates

-----------------------------------------------------------------------------
(* 2^n is the number of subsets of a set of n elements: the provers know   *)
(* nothing of exponents, but the library does this.                        *)

LEMMA PowerIsNat == ASSUME NEW n \in Nat PROVE 2^n \in Nat
<1>1. IsFiniteSet(1..n) /\ Cardinality(1..n) = n
  BY FS_Interval
<1>2. IsFiniteSet(SUBSET (1..n)) /\ Cardinality(SUBSET (1..n)) = 2^n
  BY <1>1, FS_SUBSET
<1> QED
  BY <1>2, FS_CardinalityType

(* Adding an element to a set doubles the number of its subsets; the depth *)
(* of the calls of auxsort is counted with it.                             *)
THEOREM PowerDoubles == ASSUME NEW n \in Nat PROVE 2^(n + 1) = 2 * 2^n
<1> DEFINE A == SUBSET (1..n)
           f == [S \in A |-> S \cup {n + 1}]
           B == {S \cup {n + 1} : S \in A}
<1>1. IsFiniteSet(A) /\ Cardinality(A) = 2^n
  <2>1. IsFiniteSet(1..n) /\ Cardinality(1..n) = n
    BY FS_Interval
  <2> QED
    BY <2>1, FS_SUBSET
<1>2. IsFiniteSet(SUBSET (1..(n + 1))) /\ Cardinality(SUBSET (1..(n + 1))) = 2^(n + 1)
  <2>1. IsFiniteSet(1..(n + 1)) /\ Cardinality(1..(n + 1)) = n + 1
    BY FS_Interval
  <2> QED
    BY <2>1, FS_SUBSET
<1>3. \A S \in A : n + 1 \notin S
  OBVIOUS
<1>4. f \in Bijection(A, B)
  <2>1. f \in [A -> B] /\ \A T \in B : \E S \in A : f[S] = T
    OBVIOUS
  <2>2. \A S, T \in A : f[S] = f[T] => S = T
    <3> SUFFICES ASSUME NEW S \in A, NEW T \in A, S \cup {n + 1} = T \cup {n + 1} PROVE S = T
      OBVIOUS
    <3>1. n + 1 \notin S /\ n + 1 \notin T
      BY <1>3
    <3>2. S = (S \cup {n + 1}) \ {n + 1} /\ T = (T \cup {n + 1}) \ {n + 1}
      <4> HIDE DEF A
      <4> QED
        BY <3>1
    <3> QED
      BY <3>2
  <2> QED
    BY <2>1, <2>2 DEF Bijection, Injection, Surjection, IsInjective
<1>5. IsFiniteSet(B) /\ Cardinality(B) = 2^n
  BY <1>1, <1>4, FS_Bijection DEF ExistsBijection
<1>6. A \cap B = {}
  BY <1>3
<1>7. SUBSET (1..(n + 1)) = A \cup B
  <2>1. ASSUME NEW S \in A \cup B PROVE S \in SUBSET (1..(n + 1))
    <3>1. 1..n \subseteq 1..(n + 1) /\ n + 1 \in 1..(n + 1)
      OBVIOUS
    <3>2. \E R \in A : S = R \/ S = R \cup {n + 1}
      BY <2>1
    <3> QED
      BY <3>1, <3>2
  <2>2. ASSUME NEW S \in SUBSET (1..(n + 1)) PROVE S \in A \cup B
    <3>1. CASE n + 1 \in S
      <4> DEFINE R == S \ {n + 1}
      <4>1. R \in A /\ S = R \cup {n + 1}
        BY <3>1
      <4> QED
        BY <4>1
    <3>2. CASE n + 1 \notin S
      BY <3>2
    <3> QED
      BY <3>1, <3>2
  <2> QED
    BY <2>1, <2>2
<1>8. Cardinality(A \cup B) = Cardinality(A) + Cardinality(B) - Cardinality(A \cap B)
  BY <1>1, <1>5, FS_Union
<1>9. Cardinality(A \cap B) = 0
  BY <1>6, FS_EmptySet
<1>10. 2^n \in Nat
  BY PowerIsNat
<1>11. 2^(n + 1) = 2^n + 2^n - 0
  BY <1>1, <1>2, <1>5, <1>7, <1>8, <1>9
<1> QED
  BY <1>10, <1>11

LEMMA PowerOfZero == 2^0 = 1
OBVIOUS

LEMMA PowerPositive == ASSUME NEW n \in Nat PROVE 2^n \in Nat /\ 2^n >= 1
<1> DEFINE T == {k \in Nat : 2^k \in Nat /\ 2^k >= 1}
<1>1. 0 \in T
  BY PowerOfZero
<1>2. \A k \in Nat : k \in T => k + 1 \in T
  BY PowerDoubles
<1> HIDE DEF T
<1>3. Nat \subseteq T
  BY <1>1, <1>2, SetInduction
<1> QED
  BY <1>3 DEF T

-----------------------------------------------------------------------------
(* What Kept does to a list. *)

(* the recursive function Kept is defined with exists *)
LEMMA KeptIsRecursive ==
  ASSUME NEW X, NEW list \in Seq(X), NEW S
  PROVE  \E kept : /\ kept = [n \in 0..Len(list) |->
                        IF n = 0 THEN <<>>
                        ELSE IF list[n] \in S THEN Append(kept[n - 1], list[n])
                        ELSE kept[n - 1]]
                   /\ Kept(list, S) = kept[Len(list)]
<1> DEFINE Next(g, m) == IF m = 0 THEN <<>>
                         ELSE IF list[m] \in S THEN Append(g[m - 1], list[m]) ELSE g[m - 1]
           Prefix(g, n) == g = [m \in 0..n |-> Next(g, m)]
           T == {n \in Nat : \E g : Prefix(g, n)}
<1>1. 0 \in T
  <2>1. Prefix([m \in 0..0 |-> <<>>], 0)
    OBVIOUS
  <2> QED
    BY <2>1
<1>2. ASSUME NEW n \in Nat, n \in T PROVE n + 1 \in T
  <2>1. PICK g : Prefix(g, n)
    BY <1>2
  <2> DEFINE h == [m \in 0..(n + 1) |-> IF m = n + 1 THEN Next(g, m) ELSE g[m]]
  <2>2. \A m \in 0..n : h[m] = g[m]
    OBVIOUS
  <2>3. \A m \in 0..n : h[m] = Next(h, m)
    <3>1. \A m \in 0..n : g[m] = Next(g, m)
      BY <2>1
    <3>2. \A m \in 0..n : m # 0 => m - 1 \in 0..n
      OBVIOUS
    <3> HIDE DEF h
    <3> QED
      BY <2>2, <3>1, <3>2
  <2>4. h[n + 1] = Next(h, n + 1)
    <3>1. h[n + 1] = Next(g, n + 1) /\ n + 1 - 1 = n /\ h[n] = g[n]
      OBVIOUS
    <3> HIDE DEF h
    <3> QED
      BY <3>1
  <2>5. \A m \in 0..(n + 1) : h[m] = Next(h, m)
    <3>1. \A m \in 0..(n + 1) : m \in 0..n \/ m = n + 1
      OBVIOUS
    <3> HIDE DEF h, Next
    <3> QED
      BY <2>3, <2>4, <3>1
  <2>6. h = [m \in 0..(n + 1) |-> h[m]]
    OBVIOUS
  <2>7. Prefix(h, n + 1)
    <3> HIDE DEF h, Next
    <3> QED
      BY <2>5, <2>6
  <2> HIDE DEF Prefix, h
  <2> QED
    BY <2>7
<1>3. Len(list) \in T
  <2> HIDE DEF T
  <2> QED
    BY <1>1, <1>2, SetInduction
<1>4. PICK g : Prefix(g, Len(list))
  BY <1>3
<1> QED
  BY <1>4 DEF Kept

(* w is what is left of the first n elements of list: an increasing h      *)
(* gives the position of each of its elements, and leaves out none of S    *)
IsKept(w, list, n, S) ==
  \E h \in [1..Len(w) -> 1..n] :
    /\ \A a, b \in 1..Len(w) : a < b => h[a] < h[b]
    /\ \A a \in 1..Len(w) : w[a] = list[h[a]] /\ w[a] \in S
    /\ \A k \in 1..n : list[k] \in S => \E a \in 1..Len(w) : h[a] = k

(* one element more *)
LEMMA KeptOneMore ==
  ASSUME NEW X, NEW list \in Seq(X), NEW S, NEW n \in Nat, n + 1 <= Len(list),
         NEW w \in Seq(X), IsKept(w, list, n, S)
  PROVE  /\ list[n + 1] \in S => /\ Append(w, list[n + 1]) \in Seq(X)
                                 /\ IsKept(Append(w, list[n + 1]), list, n + 1, S)
         /\ list[n + 1] \notin S => IsKept(w, list, n + 1, S)
<1>1. PICK h \in [1..Len(w) -> 1..n] :
        /\ \A a, b \in 1..Len(w) : a < b => h[a] < h[b]
        /\ \A a \in 1..Len(w) : w[a] = list[h[a]] /\ w[a] \in S
        /\ \A k \in 1..n : list[k] \in S => \E a \in 1..Len(w) : h[a] = k
  BY DEF IsKept
<1>2. Len(w) \in Nat
  OBVIOUS
<1>3. CASE list[n + 1] \in S
  <2> DEFINE v == Append(w, list[n + 1])
             g == [a \in 1..(Len(w) + 1) |-> IF a = Len(w) + 1 THEN n + 1 ELSE h[a]]
  <2>1. /\ v \in Seq(X) /\ Len(v) = Len(w) + 1 /\ v[Len(w) + 1] = list[n + 1]
        /\ \A a \in 1..Len(w) : v[a] = w[a]
    OBVIOUS
  <2>2. \A a \in 1..(Len(w) + 1) : a \in 1..Len(w) \/ a = Len(w) + 1
    BY <1>2
  <2>3. \A k \in 1..(n + 1) : k \in 1..n \/ k = n + 1
    OBVIOUS
  <2>4. g \in [1..Len(v) -> 1..(n + 1)]
    BY <2>1, <2>2
  <2>5. (\A a \in 1..Len(w) : g[a] = h[a]) /\ g[Len(w) + 1] = n + 1
    BY <1>2
  <2> HIDE DEF v, g
  <2>6. \A a, b \in 1..Len(v) : a < b => g[a] < g[b]
    <3> SUFFICES ASSUME NEW a \in 1..Len(v), NEW b \in 1..Len(v), a < b PROVE g[a] < g[b]
      OBVIOUS
    <3>1. a \in 1..Len(w)
      BY <1>2, <2>1
    <3>2. CASE b \in 1..Len(w)
      BY <3>1, <3>2, <1>1, <2>5
    <3>3. CASE b = Len(w) + 1
      <4>1. h[a] \in 1..n
        BY <3>1, <1>1
      <4> QED
        BY <3>1, <3>3, <4>1, <2>5
    <3> QED
      BY <3>2, <3>3, <2>1, <2>2
  <2>7. \A a \in 1..Len(v) : v[a] = list[g[a]] /\ v[a] \in S
    BY <1>1, <1>3, <2>1, <2>2, <2>5
  <2>8. \A k \in 1..(n + 1) : list[k] \in S => \E a \in 1..Len(v) : g[a] = k
    <3> SUFFICES ASSUME NEW k \in 1..(n + 1), list[k] \in S PROVE \E a \in 1..Len(v) : g[a] = k
      OBVIOUS
    <3>1. CASE k \in 1..n
      <4>1. PICK a \in 1..Len(w) : h[a] = k
        BY <3>1, <1>1
      <4> QED
        BY SMTT(30), <4>1, <2>1, <2>5, <1>2
    <3>2. CASE k = n + 1
      BY <3>2, <2>1, <2>5, <1>2
    <3> QED
      BY <3>1, <3>2, <2>3
  <2>9. IsKept(v, list, n + 1, S)
    BY <2>4, <2>6, <2>7, <2>8 DEF IsKept
  <2> QED
    BY <1>3, <2>1, <2>9 DEF v
<1>4. CASE list[n + 1] \notin S
  <2>1. \A k \in 1..(n + 1) : k \in 1..n \/ k = n + 1
    OBVIOUS
  <2>2. h \in [1..Len(w) -> 1..(n + 1)]
    OBVIOUS
  <2>3. \A k \in 1..(n + 1) : list[k] \in S => \E a \in 1..Len(w) : h[a] = k
    BY <1>1, <1>4, <2>1
  <2> QED
    BY <1>1, <1>4, <2>2, <2>3 DEF IsKept
<1> QED
  BY <1>3, <1>4

(* Kept leaves the elements of S in their order, and only those: sweeplist *)
(* and separatetobefnz, which unlink the others.                           *)
THEOREM KeptFacts ==
  ASSUME NEW X, NEW list \in Seq(X), NEW S
  PROVE  Kept(list, S) \in Seq(X) /\ IsKept(Kept(list, S), list, Len(list), S)
<1> DEFINE Next(g, m) == IF m = 0 THEN <<>>
                         ELSE IF list[m] \in S THEN Append(g[m - 1], list[m]) ELSE g[m - 1]
<1>1. PICK kept : /\ kept = [n \in 0..Len(list) |-> Next(kept, n)]
                  /\ Kept(list, S) = kept[Len(list)]
  BY KeptIsRecursive
<1> DEFINE T == {n \in Nat : n <= Len(list) =>
                   kept[n] \in Seq(X) /\ IsKept(kept[n], list, n, S)}
<1>2. Len(list) \in Nat
  OBVIOUS
<1>3. 0 \in T
  <2>1. kept[0] = <<>>
    BY <1>1, <1>2
  <2>2. <<>> \in Seq(X) /\ Len(<<>>) = 0
    BY EmptySeq
  <2>3. IsKept(<<>>, list, 0, S)
    <3> DEFINE e == <<>>
    <3>1. 1..0 = {} /\ [a \in 1..0 |-> 0] \in [1..0 -> 1..0]
      OBVIOUS
    <3> QED
      BY <3>1, <2>2 DEF IsKept
  <2> QED
    BY <2>1, <2>2, <2>3
<1>4. ASSUME NEW n \in Nat, n \in T PROVE n + 1 \in T
  <2> SUFFICES ASSUME n + 1 <= Len(list)
               PROVE  kept[n + 1] \in Seq(X) /\ IsKept(kept[n + 1], list, n + 1, S)
    OBVIOUS
  <2>1. kept[n] \in Seq(X) /\ IsKept(kept[n], list, n, S)
    BY <1>4, <1>2
  <2>2. kept[n + 1] = IF list[n + 1] \in S THEN Append(kept[n], list[n + 1]) ELSE kept[n]
    <3>1. n + 1 \in 0..Len(list) /\ n + 1 # 0 /\ n + 1 - 1 = n
      BY <1>2
    <3>2. \A m \in 0..Len(list) : kept[m] = Next(kept, m)
      BY <1>1
    <3>3. kept[n + 1] = Next(kept, n + 1)
      <4> HIDE DEF Next
      <4> QED
        BY <3>1, <3>2
    <3> QED
      BY <3>1, <3>3
  <2> QED
    BY <2>1, <2>2, KeptOneMore
<1>5. Len(list) \in T
  <2> HIDE DEF T
  <2> QED
    BY <1>2, <1>3, <1>4, SetInduction
<1> QED
  BY <1>1, <1>2, <1>5

(* the elements kept *)
LEMMA KeptSet ==
  ASSUME NEW X, NEW list \in Seq(X), NEW S
  PROVE  ToSet(Kept(list, S)) = ToSet(list) \cap S
<1> DEFINE w == Kept(list, S)
<1>1. w \in Seq(X) /\ IsKept(w, list, Len(list), S)
  BY KeptFacts
<1> HIDE DEF w
<1>2. PICK h \in [1..Len(w) -> 1..Len(list)] :
        /\ \A a \in 1..Len(w) : w[a] = list[h[a]] /\ w[a] \in S
        /\ \A k \in 1..Len(list) : list[k] \in S => \E a \in 1..Len(w) : h[a] = k
  BY <1>1 DEF IsKept
<1>3. ToSet(w) \subseteq ToSet(list) \cap S
  BY <1>1, <1>2 DEF ToSet
<1>4. ASSUME NEW e \in ToSet(list) \cap S PROVE e \in ToSet(w)
  BY <1>1, <1>2 DEF ToSet
<1> QED
  BY <1>3, <1>4 DEF w

(* none twice *)
LEMMA KeptInjective ==
  ASSUME NEW X, NEW list \in Seq(X), NEW S, IsInjective(list)
  PROVE  IsInjective(Kept(list, S))
<1> DEFINE w == Kept(list, S)
<1>1. w \in Seq(X) /\ IsKept(w, list, Len(list), S)
  BY KeptFacts
<1> HIDE DEF w
<1>2. PICK h \in [1..Len(w) -> 1..Len(list)] :
        /\ \A a, b \in 1..Len(w) : a < b => h[a] < h[b]
        /\ \A a \in 1..Len(w) : w[a] = list[h[a]]
  BY <1>1 DEF IsKept
<1>3. ASSUME NEW a \in 1..Len(w), NEW b \in 1..Len(w), w[a] = w[b] PROVE a = b
  <2>1. h[a] = h[b]
    BY <1>2, <1>3 DEF IsInjective
  <2> QED
    BY <1>1, <1>2, <2>1
<1> QED
  BY <1>1, <1>3 DEF IsInjective, w

(* x comes before y in the list *)
Before(list, x, y) ==
  \E a, b \in 1..Len(list) : a < b /\ list[a] = x /\ list[b] = y

(* their order *)
LEMMA KeptOrder ==
  ASSUME NEW X, NEW list \in Seq(X), NEW S, NEW x \in S, NEW y \in S
  PROVE  Before(Kept(list, S), x, y) <=> Before(list, x, y)
<1> DEFINE w == Kept(list, S)
<1>1. w \in Seq(X) /\ IsKept(w, list, Len(list), S)
  BY KeptFacts
<1> HIDE DEF w
<1>2. PICK h \in [1..Len(w) -> 1..Len(list)] :
        /\ \A a, b \in 1..Len(w) : a < b => h[a] < h[b]
        /\ \A a \in 1..Len(w) : w[a] = list[h[a]]
        /\ \A k \in 1..Len(list) : list[k] \in S => \E a \in 1..Len(w) : h[a] = k
  BY <1>1 DEF IsKept
<1>3. ASSUME Before(w, x, y) PROVE Before(list, x, y)
  <2>1. PICK a, b \in 1..Len(w) : a < b /\ w[a] = x /\ w[b] = y
    BY <1>3 DEF Before
  <2>2. h[a] \in 1..Len(list) /\ h[b] \in 1..Len(list) /\ h[a] < h[b]
    BY <1>2, <2>1
  <2> QED
    BY <1>2, <2>1, <2>2 DEF Before
<1>4. ASSUME Before(list, x, y) PROVE Before(w, x, y)
  <2>1. PICK a, b \in 1..Len(list) : a < b /\ list[a] = x /\ list[b] = y
    BY <1>4 DEF Before
  <2>2. PICK c \in 1..Len(w) : h[c] = a
    BY <1>2, <2>1
  <2>3. PICK d \in 1..Len(w) : h[d] = b
    BY <1>2, <2>1
  <2>4. c < d
    <3>1. c = d => a = b
      BY <2>2, <2>3
    <3>2. d < c => b < a
      BY <1>2, <2>2, <2>3
    <3> QED
      BY <1>1, <2>1, <3>1, <3>2
  <2>5. w[c] = x /\ w[d] = y
    BY <1>2, <2>1, <2>2, <2>3
  <2> QED
    BY <2>4, <2>5 DEF Before
<1> QED
  BY <1>3, <1>4 DEF w

(* the last one kept *)
LEMMA KeptLast ==
  ASSUME NEW X, NEW list \in Seq(X), NEW S, ToSet(list) \cap S # {}
  PROVE  /\ Kept(list, S) # <<>>
         /\ \E m \in 1..Len(list) : /\ list[m] \in S /\ Last(Kept(list, S)) = list[m]
                                    /\ \A k \in (m + 1)..Len(list) : list[k] \notin S
<1> DEFINE w == Kept(list, S)
<1>1. w \in Seq(X) /\ IsKept(w, list, Len(list), S) /\ ToSet(w) = ToSet(list) \cap S
  BY KeptFacts, KeptSet
<1> HIDE DEF w
<1>2. w # <<>> /\ Len(w) \in 1..Len(w)
  <2>1. w # <<>>
    BY <1>1 DEF ToSet
  <2> QED
    BY <1>1, <2>1
<1>3. PICK h \in [1..Len(w) -> 1..Len(list)] :
        /\ \A a, b \in 1..Len(w) : a < b => h[a] < h[b]
        /\ \A a \in 1..Len(w) : w[a] = list[h[a]] /\ w[a] \in S
        /\ \A k \in 1..Len(list) : list[k] \in S => \E a \in 1..Len(w) : h[a] = k
  BY <1>1 DEF IsKept
<1> DEFINE m == h[Len(w)]
<1>4. m \in 1..Len(list) /\ list[m] \in S /\ Last(w) = list[m]
  BY <1>2, <1>3 DEF Last
<1>5. ASSUME NEW k \in (m + 1)..Len(list), list[k] \in S PROVE FALSE
  <2>1. k \in 1..Len(list) /\ m < k
    BY <1>4, <1>5
  <2>2. PICK a \in 1..Len(w) : h[a] = k
    BY <1>3, <1>5, <2>1
  <2>3. a = Len(w) \/ a < Len(w)
    BY <1>1
  <2>4. a < Len(w) => h[a] < h[Len(w)]
    BY <1>2, <1>3
  <2> QED
    BY <2>1, <2>2, <2>3, <2>4, <1>4
<1> QED
  BY <1>2, <1>4, <1>5 DEF w

(* all of them *)
LEMMA KeptAll ==
  ASSUME NEW X, NEW list \in Seq(X), NEW S, ToSet(list) \subseteq S
  PROVE  Kept(list, S) = list
<1> DEFINE w == Kept(list, S)
<1>1. w \in Seq(X) /\ IsKept(w, list, Len(list), S)
  BY KeptFacts
<1> HIDE DEF w
<1>2. PICK h \in [1..Len(w) -> 1..Len(list)] :
        /\ \A a, b \in 1..Len(w) : a < b => h[a] < h[b]
        /\ \A a \in 1..Len(w) : w[a] = list[h[a]]
        /\ \A k \in 1..Len(list) : list[k] \in S => \E a \in 1..Len(w) : h[a] = k
  BY <1>1 DEF IsKept
<1>3. \A k \in 1..Len(list) : \E a \in 1..Len(w) : h[a] = k
  BY <1>2 DEF ToSet
<1> DEFINE T == {n \in Nat : n \in 1..Len(list) => n \in 1..Len(w) /\ h[n] = n}
<1>4. \A n \in Nat : (\A k \in Nat : k < n => k \in T) => n \in T
  <2> SUFFICES ASSUME NEW n \in Nat, \A k \in Nat : k < n => k \in T, n \in 1..Len(list)
               PROVE  n \in 1..Len(w) /\ h[n] = n
    OBVIOUS
  <2>1. \A k \in 1..(n - 1) : k \in 1..Len(w) /\ h[k] = k
    <3> SUFFICES ASSUME NEW k \in 1..(n - 1) PROVE k \in 1..Len(w) /\ h[k] = k
      OBVIOUS
    <3>1. k \in Nat /\ k < n /\ k \in 1..Len(list)
      OBVIOUS
    <3>2. k \in T
      BY <3>1
    <3> QED
      BY <3>1, <3>2
  <2>2. PICK a \in 1..Len(w) : h[a] = n
    BY <1>3
  <2>3. ~(a <= n - 1)
    BY <2>1, <2>2
  <2>4. n \in 1..Len(w)
    BY <1>1, <2>3
  <2>5. h[n] <= n
    <3>1. CASE a = n
      BY <3>1, <2>2
    <3>2. CASE n < a
      BY <3>2, <1>2, <2>2, <2>4
    <3> QED
      BY <2>3, <3>1, <3>2
  <2>6. \A k \in 1..(n - 1) : h[k] < h[n]
    BY <1>2, <2>1, <2>4
  <2>7. h[n] \in 1..Len(list)
    BY <1>2, <2>4
  <2>8. ~(h[n] <= n - 1)
    <3> SUFFICES ASSUME h[n] <= n - 1 PROVE FALSE
      OBVIOUS
    <3>1. h[n] \in 1..(n - 1)
      BY <2>7
    <3>2. h[h[n]] = h[n] /\ h[h[n]] < h[n]
      BY <3>1, <2>1, <2>6
    <3> QED
      BY <3>2, <2>7
  <2> QED
    BY <2>4, <2>5, <2>7, <2>8
<1>5. Nat \subseteq T
  <2> SUFFICES ASSUME Nat \ T # {} PROVE FALSE
    OBVIOUS
  <2>1. PICK m \in Nat \ T : \A k \in Nat \ T : m <= k
    BY LeastNatural
  <2>2. \A k \in Nat : k < m => k \in T
    BY <2>1
  <2> HIDE DEF T
  <2> QED
    BY <2>1, <2>2, <1>4
<1>6. \A k \in 1..Len(list) : k \in 1..Len(w) /\ h[k] = k
  <2> SUFFICES ASSUME NEW k \in 1..Len(list) PROVE k \in 1..Len(w) /\ h[k] = k
    OBVIOUS
  <2>1. k \in T
    BY <1>5
  <2> QED
    BY <2>1
<1>7. Len(w) = Len(list)
  <2>1. Len(list) <= Len(w)
    BY <1>1, <1>6
  <2>2. ~(Len(list) < Len(w))
    <3> SUFFICES ASSUME Len(list) < Len(w) PROVE FALSE
      OBVIOUS
    <3>1. Len(w) \in 1..Len(w) /\ h[Len(w)] \in 1..Len(list)
      BY <1>1, <1>2
    <3>2. h[h[Len(w)]] = h[Len(w)] /\ h[Len(w)] \in 1..Len(w) /\ h[Len(w)] < Len(w)
      BY <3>1, <1>6
    <3>3. h[h[Len(w)]] < h[Len(w)]
      BY <3>1, <3>2, <1>2
    <3> QED
      BY <3>1, <3>2, <3>3
  <2> QED
    BY <1>1, <2>1, <2>2
<1>8. \A k \in 1..Len(list) : w[k] = list[k]
  BY <1>2, <1>6, <1>7
<1>9. w = list
  BY <1>1, <1>7, <1>8, SeqEqual
<1> QED
  BY <1>9 DEF w

(* induction on lists, for a set of them *)
LEMMA ListInduction ==
  ASSUME NEW X, NEW T, <<>> \in T, \A s \in Seq(X) : s \in T => \A e \in X : Append(s, e) \in T
  PROVE  Seq(X) \subseteq T
<1> DEFINE N == {n \in Nat : \A s \in Seq(X) : Len(s) = n => s \in T}
<1>1. 0 \in N
  BY EmptySeq
<1>2. ASSUME NEW n \in Nat, n \in N PROVE n + 1 \in N
  <2> SUFFICES ASSUME NEW s \in Seq(X), Len(s) = n + 1 PROVE s \in T
    OBVIOUS
  <2>1. s # <<>>
    BY EmptySeq
  <2>2. PICK r \in Seq(X), e \in X : s = Append(r, e)
    BY <2>1, SequenceEmptyOrAppend
  <2>3. Len(s) = Len(r) + 1 /\ Len(r) \in Nat
    BY <2>2, AppendProperties
  <2>4. Len(r) = n
    BY <2>3
  <2>5. r \in T
    BY <2>4, <1>2
  <2> QED
    BY <2>2, <2>5
<1> HIDE DEF N
<1>3. Nat \subseteq N
  BY <1>1, <1>2, SetInduction
<1> QED
  <2> SUFFICES ASSUME NEW s \in Seq(X) PROVE s \in T
    OBVIOUS
  <2>1. Len(s) \in N
    BY <1>3
  <2> QED
    BY <2>1 DEF N

(* what is left of a list with one element more *)
LEMMA KeptAppend ==
  ASSUME NEW X, NEW list \in Seq(X), NEW x \in X, NEW S
  PROVE  Kept(Append(list, x), S) = IF x \in S THEN Append(Kept(list, S), x) ELSE Kept(list, S)
<1> DEFINE more == Append(list, x)
           N == Len(list)
<1>1. more \in Seq(X) /\ Len(more) = N + 1 /\ more[N + 1] = x /\ N \in Nat
      /\ \A n \in 1..N : more[n] = list[n]
  BY AppendProperties
<1>2. PICK k : /\ k = [n \in 0..N |->
                        IF n = 0 THEN <<>>
                        ELSE IF list[n] \in S THEN Append(k[n - 1], list[n]) ELSE k[n - 1]]
               /\ Kept(list, S) = k[N]
  BY KeptIsRecursive
<1> HIDE DEF more
<1>3. PICK m : /\ m = [n \in 0..Len(more) |->
                        IF n = 0 THEN <<>>
                        ELSE IF more[n] \in S THEN Append(m[n - 1], more[n]) ELSE m[n - 1]]
               /\ Kept(more, S) = m[Len(more)]
  BY <1>1, KeptIsRecursive
<1> HIDE DEF N
<1>4. /\ k[0] = <<>>
      /\ \A n \in 1..N : k[n] = IF list[n] \in S THEN Append(k[n - 1], list[n]) ELSE k[n - 1]
  <2>1. 0 \in 0..N /\ \A n \in 1..N : n \in 0..N /\ n # 0
    BY <1>1
  <2>2. \A n \in 0..N : k[n] = IF n = 0 THEN <<>>
                               ELSE IF list[n] \in S THEN Append(k[n - 1], list[n]) ELSE k[n - 1]
    BY <1>2
  <2> QED
    BY <2>1, <2>2
<1>5. /\ m[0] = <<>>
      /\ \A n \in 1..(N + 1) : m[n] = IF more[n] \in S THEN Append(m[n - 1], more[n]) ELSE m[n - 1]
  <2>1. Len(more) = N + 1 /\ 0 \in 0..(N + 1) /\ \A n \in 1..(N + 1) : n \in 0..(N + 1) /\ n # 0
    BY <1>1
  <2>2. \A n \in 0..Len(more) : m[n] = IF n = 0 THEN <<>>
                               ELSE IF more[n] \in S THEN Append(m[n - 1], more[n]) ELSE m[n - 1]
    BY <1>3
  <2> QED
    BY <2>1, <2>2
<1> DEFINE T == {n \in Nat : n \in 0..N => m[n] = k[n]}
<1>6. 0 \in T
  BY <1>4, <1>5
<1>7. ASSUME NEW n \in Nat, n \in T PROVE n + 1 \in T
  <2> SUFFICES ASSUME n + 1 \in 0..N PROVE m[n + 1] = k[n + 1]
    OBVIOUS
  <2>1. n + 1 \in 1..N /\ n + 1 \in 1..(N + 1) /\ n + 1 - 1 = n /\ n \in 0..N
    BY <1>1
  <2>2. m[n] = k[n] /\ more[n + 1] = list[n + 1]
    BY <1>1, <1>7, <2>1
  <2> QED
    BY <1>4, <1>5, <2>1, <2>2
<1> HIDE DEF T
<1>8. Nat \subseteq T
  BY <1>6, <1>7, SetInduction
<1>9. m[N] = k[N]
  BY <1>1, <1>8 DEF T
<1>10. m[N + 1] = IF x \in S THEN Append(m[N], x) ELSE m[N]
  BY <1>1, <1>5
<1> QED
  BY <1>1, <1>2, <1>3, <1>9, <1>10 DEF more

(* what is left of what is left *)
LEMMA KeptTwice ==
  ASSUME NEW X, NEW list \in Seq(X), NEW S, NEW U
  PROVE  Kept(Kept(list, S), U) = Kept(list, S \cap U)
<1> DEFINE T == {s \in Seq(X) : Kept(Kept(s, S), U) = Kept(s, S \cap U)}
<1>1. <<>> \in T
  <2>1. <<>> \in Seq(X) /\ ToSet(<<>>) = {}
    BY DEF ToSet
  <2>2. \A V : Kept(<<>>, V) = <<>>
    BY <2>1, KeptAll
  <2> QED
    BY <2>1, <2>2
<1>2. ASSUME NEW s \in Seq(X), s \in T, NEW e \in X PROVE Append(s, e) \in T
  <2>1. Append(s, e) \in Seq(X) /\ Kept(s, S) \in Seq(X)
    BY AppendProperties, KeptFacts
  <2>2. Kept(Append(s, e), S) = IF e \in S THEN Append(Kept(s, S), e) ELSE Kept(s, S)
    BY KeptAppend
  <2>3. Kept(Append(s, e), S \cap U)
          = IF e \in S \cap U THEN Append(Kept(s, S \cap U), e) ELSE Kept(s, S \cap U)
    BY KeptAppend
  <2>4. Kept(Append(Kept(s, S), e), U)
          = IF e \in U THEN Append(Kept(Kept(s, S), U), e) ELSE Kept(Kept(s, S), U)
    BY <2>1, KeptAppend
  <2>5. Kept(Kept(s, S), U) = Kept(s, S \cap U)
    BY <1>2
  <2>6. Kept(Kept(Append(s, e), S), U) = Kept(Append(s, e), S \cap U)
    <3>1. CASE e \in S
      <4>1. e \in U <=> e \in S \cap U
        BY <3>1
      <4>2. Kept(Append(s, e), S) = Append(Kept(s, S), e)
        BY <2>2, <3>1
      <4> QED
        BY <2>3, <2>4, <2>5, <4>1, <4>2
    <3>2. CASE e \notin S
      <4>1. e \notin S \cap U
        BY <3>2
      <4> QED
        BY <2>2, <2>3, <2>5, <3>2, <4>1
    <3> QED
      BY <3>1, <3>2
  <2> QED
    BY <2>1, <2>6
<1> HIDE DEF T
<1>3. Seq(X) \subseteq T
  BY <1>1, <1>2, ListInduction
<1> QED
  BY <1>3 DEF T

(* only the elements of the list matter *)
LEMMA KeptSame ==
  ASSUME NEW X, NEW list \in Seq(X), NEW S, NEW U, ToSet(list) \cap S = ToSet(list) \cap U
  PROVE  Kept(list, S) = Kept(list, U)
<1>1. Kept(list, ToSet(list)) = list
  BY KeptAll
<1>2. Kept(list, S) = Kept(list, ToSet(list) \cap S) /\ Kept(list, U) = Kept(list, ToSet(list) \cap U)
  BY <1>1, KeptTwice
<1> QED
  BY <1>2
-----------------------------------------------------------------------------
(* The lists a list is made into, and the sets of their elements.          *)

(* a list, its positions and the set of its elements *)
LEMMA Elements ==
  ASSUME NEW X, NEW list \in Seq(X)
  PROVE  /\ Len(list) \in Nat /\ DOMAIN list = 1..Len(list)
         /\ ToSet(list) \subseteq X
         /\ \A k \in 1..Len(list) : list[k] \in ToSet(list) /\ list[k] \in X
         /\ \A e \in ToSet(list) : \E k \in 1..Len(list) : list[k] = e
         /\ list # <<>> => Len(list) \in 1..Len(list)
<1>1. Len(list) \in Nat /\ DOMAIN list = 1..Len(list)
  OBVIOUS
<1>2. \A k \in 1..Len(list) : list[k] \in X
  BY ElementOfSeq
<1>3. list # <<>> => Len(list) \in 1..Len(list)
  BY EmptySeq
<1> QED
  BY <1>1, <1>2, <1>3 DEF ToSet

(* an element put before the others *)
LEMMA Prepended ==
  ASSUME NEW X, NEW list \in Seq(X), NEW x \in X
  PROVE  /\ <<x>> \o list \in Seq(X) /\ <<x>> \o list # <<>>
         /\ ToSet(<<x>> \o list) = {x} \cup ToSet(list)
         /\ IsInjective(list) /\ x \notin ToSet(list) => IsInjective(<<x>> \o list)
         /\ list # <<>> => Last(<<x>> \o list) = Last(list)
         /\ \A q : q # x => \A y : Before(<<x>> \o list, q, y) <=> Before(list, q, y)
<1> DEFINE w == <<x>> \o list
<1>0. <<x>> \in Seq(X) /\ Len(<<x>>) = 1
  OBVIOUS
<1>1. /\ w \in Seq(X) /\ Len(w) = 1 + Len(list) /\ Len(list) \in Nat
      /\ w[1] = x /\ \A k \in 1..Len(list) : w[k + 1] = list[k]
  <2>1. /\ w \in Seq(X) /\ Len(w) = 1 + Len(list) /\ Len(list) \in Nat
        /\ \A k \in 1..(1 + Len(list)) : w[k] = IF k <= 1 THEN <<x>>[k] ELSE list[k - 1]
    BY <1>0, ConcatProperties
  <2> HIDE DEF w
  <2>2. ASSUME NEW k \in 1..Len(list) PROVE w[k + 1] = list[k]
    <3>1. k + 1 \in 1..(1 + Len(list)) /\ ~(k + 1 <= 1) /\ k + 1 - 1 = k
      BY <2>1
    <3> QED
      BY <2>1, <3>1
  <2> QED
    BY <2>1, <2>2
<1> HIDE DEF w
<1>2. \A m \in 1..Len(w) : m = 1 \/ (m # 1 /\ m - 1 \in 1..Len(list) /\ w[m] = list[m - 1])
  <2> SUFFICES ASSUME NEW m \in 1..Len(w), m # 1 PROVE m - 1 \in 1..Len(list) /\ w[m] = list[m - 1]
    OBVIOUS
  <2>1. m - 1 \in 1..Len(list) /\ m - 1 + 1 = m
    BY <1>1
  <2> QED
    BY <1>1, <2>1
<1>3. w # <<>> /\ 1 \in 1..Len(w)
  BY <1>1
<1>4. ToSet(w) = {x} \cup ToSet(list)
  <2>1. ToSet(w) \subseteq {x} \cup ToSet(list)
    <3> SUFFICES ASSUME NEW e \in ToSet(w) PROVE e \in {x} \cup ToSet(list)
      OBVIOUS
    <3>1. PICK m \in 1..Len(w) : w[m] = e
      BY <1>1 DEF ToSet
    <3>2. \A k \in 1..Len(list) : list[k] \in ToSet(list)
      BY Elements
    <3> QED
      BY <1>1, <1>2, <3>1, <3>2
  <2>2. ASSUME NEW e \in ToSet(list) PROVE e \in ToSet(w)
    <3>1. PICK k \in 1..Len(list) : list[k] = e
      BY DEF ToSet
    <3>2. k + 1 \in 1..Len(w) /\ w[k + 1] = e
      BY <1>1, <3>1
    <3>3. \A j \in 1..Len(w) : w[j] \in ToSet(w)
      BY <1>1, Elements
    <3> QED
      BY <3>2, <3>3
  <2>3. x \in ToSet(w)
    BY <1>1, <1>3 DEF ToSet
  <2> QED
    BY <2>1, <2>2, <2>3
<1>5. ASSUME IsInjective(list), x \notin ToSet(list) PROVE IsInjective(w)
  <2>1. ASSUME NEW m \in 1..Len(w), NEW n \in 1..Len(w), w[m] = w[n] PROVE m = n
    <3>1. \A k \in 1..Len(list) : list[k] # x
      BY <1>5 DEF ToSet
    <3>2. m # 1 /\ n # 1 => m - 1 = n - 1
      BY <1>2, <1>5, <2>1 DEF IsInjective
    <3> QED
      BY <1>1, <1>2, <2>1, <3>1, <3>2
  <2> QED
    BY <1>1, <2>1 DEF IsInjective
<1>6. ASSUME list # <<>> PROVE Last(w) = Last(list)
  <2>1. Len(list) \in 1..Len(list)
    BY <1>6, Elements
  <2> QED
    BY <1>1, <2>1 DEF Last
<1>7. ASSUME NEW q, q # x, NEW y PROVE Before(w, q, y) <=> Before(list, q, y)
  <2>1. ASSUME Before(w, q, y) PROVE Before(list, q, y)
    <3>1. PICK m, n \in 1..Len(w) : m < n /\ w[m] = q /\ w[n] = y
      BY <2>1 DEF Before
    <3>2. m # 1 /\ n # 1 /\ m \in Int /\ n \in Int
      BY <1>1, <1>7, <3>1
    <3>3. m - 1 \in 1..Len(list) /\ n - 1 \in 1..Len(list) /\ list[m - 1] = q /\ list[n - 1] = y
      BY <1>2, <3>1, <3>2
    <3>4. m - 1 < n - 1
      BY <3>1, <3>2
    <3> QED
      BY <3>3, <3>4 DEF Before
  <2>2. ASSUME Before(list, q, y) PROVE Before(w, q, y)
    <3>1. PICK m, n \in 1..Len(list) : m < n /\ list[m] = q /\ list[n] = y
      BY <2>2 DEF Before
    <3>2. m + 1 \in 1..Len(w) /\ n + 1 \in 1..Len(w) /\ m + 1 < n + 1
      BY <1>1, <3>1
    <3>3. w[m + 1] = q /\ w[n + 1] = y
      BY <1>1, <3>1
    <3> QED
      BY <3>2, <3>3 DEF Before
  <2> QED
    BY <2>1, <2>2
<1> QED
  BY <1>1, <1>3, <1>4, <1>5, <1>6, <1>7 DEF w

(* two lists with no element in common, one after the other *)
LEMMA Joined ==
  ASSUME NEW X, NEW s \in Seq(X), NEW t \in Seq(X)
  PROVE  /\ s \o t \in Seq(X) /\ ToSet(s \o t) = ToSet(s) \cup ToSet(t)
         /\ IsInjective(s) /\ IsInjective(t) /\ ToSet(s) \cap ToSet(t) = {} => IsInjective(s \o t)
<1> DEFINE w == s \o t
<1>1. /\ w \in Seq(X) /\ Len(w) = Len(s) + Len(t) /\ Len(s) \in Nat /\ Len(t) \in Nat
      /\ \A k \in 1..(Len(s) + Len(t)) : w[k] = IF k <= Len(s) THEN s[k] ELSE t[k - Len(s)]
  BY ConcatProperties
<1> HIDE DEF w
<1>2. \A m \in 1..Len(w) : \/ m \in 1..Len(s) /\ w[m] = s[m]
                           \/ m - Len(s) \in 1..Len(t) /\ w[m] = t[m - Len(s)]
  <2> SUFFICES ASSUME NEW m \in 1..Len(w)
               PROVE  \/ m \in 1..Len(s) /\ w[m] = s[m]
                      \/ m - Len(s) \in 1..Len(t) /\ w[m] = t[m - Len(s)]
    OBVIOUS
  <2>1. m <= Len(s) => m \in 1..Len(s)
    BY <1>1
  <2>2. ~(m <= Len(s)) => m - Len(s) \in 1..Len(t)
    BY <1>1
  <2> QED
    BY <1>1, <2>1, <2>2
<1>3. \A k \in 1..Len(s) : k \in 1..Len(w) /\ w[k] = s[k]
  BY <1>1
<1>4. \A k \in 1..Len(t) : k + Len(s) \in 1..Len(w) /\ w[k + Len(s)] = t[k]
  <2> SUFFICES ASSUME NEW k \in 1..Len(t) PROVE k + Len(s) \in 1..Len(w) /\ w[k + Len(s)] = t[k]
    OBVIOUS
  <2>1. k + Len(s) \in 1..(Len(s) + Len(t)) /\ ~(k + Len(s) <= Len(s)) /\ k + Len(s) - Len(s) = k
    BY <1>1
  <2> QED
    BY <1>1, <2>1
<1>5. ToSet(w) = ToSet(s) \cup ToSet(t)
  <2>1. ASSUME NEW e \in ToSet(w) PROVE e \in ToSet(s) \cup ToSet(t)
    <3>1. PICK m \in 1..Len(w) : w[m] = e
      BY <1>1 DEF ToSet
    <3> QED
      BY <1>2, <3>1 DEF ToSet
  <2>2. ASSUME NEW e \in ToSet(s) PROVE e \in ToSet(w)
    <3>1. PICK m \in 1..Len(s) : s[m] = e
      BY DEF ToSet
    <3> QED
      BY <1>1, <1>3, <3>1 DEF ToSet
  <2>3. ASSUME NEW e \in ToSet(t) PROVE e \in ToSet(w)
    <3>1. PICK m \in 1..Len(t) : t[m] = e
      BY DEF ToSet
    <3>2. m + Len(s) \in 1..Len(w) /\ w[m + Len(s)] = e
      BY <1>4, <3>1
    <3>3. \A k \in 1..Len(w) : w[k] \in ToSet(w)
      BY <1>1, Elements
    <3> QED
      BY <3>2, <3>3
  <2> QED
    BY <2>1, <2>2, <2>3
<1>6. ASSUME IsInjective(s), IsInjective(t), ToSet(s) \cap ToSet(t) = {} PROVE IsInjective(w)
  <2>1. ASSUME NEW m \in 1..Len(w), NEW n \in 1..Len(w), w[m] = w[n] PROVE m = n
    <3>1. \A k \in 1..Len(s), l \in 1..Len(t) : s[k] # t[l]
      BY <1>6 DEF ToSet
    <3>2. CASE m \in 1..Len(s) /\ w[m] = s[m] /\ n \in 1..Len(s) /\ w[n] = s[n]
      <4>1. DOMAIN s = 1..Len(s)
        OBVIOUS
      <4>2. s[m] = s[n]
        BY <2>1, <3>2
      <4> QED
        BY <1>6, <3>2, <4>1, <4>2 DEF IsInjective
    <3>3. CASE /\ m - Len(s) \in 1..Len(t) /\ w[m] = t[m - Len(s)]
               /\ n - Len(s) \in 1..Len(t) /\ w[n] = t[n - Len(s)]
      <4>1. DOMAIN t = 1..Len(t)
        OBVIOUS
      <4>2. t[m - Len(s)] = t[n - Len(s)]
        BY <2>1, <3>3
      <4>3. m - Len(s) = n - Len(s)
        BY <1>6, <3>3, <4>1, <4>2 DEF IsInjective
      <4> QED
        BY <1>1, <4>3
    <3> QED
      BY <1>2, <2>1, <3>1, <3>2, <3>3
  <2> QED
    BY <1>1, <2>1 DEF IsInjective
<1> QED
  BY <1>1, <1>5, <1>6 DEF w

(* a list without its first element *)
LEMMA Rested ==
  ASSUME NEW X, NEW list \in Seq(X), list # <<>>, IsInjective(list)
  PROVE  /\ Head(list) \in ToSet(list) /\ Head(list) \in X
         /\ Tail(list) \in Seq(X) /\ IsInjective(Tail(list))
         /\ ToSet(Tail(list)) = ToSet(list) \ {Head(list)}
<1> DEFINE w == Tail(list)
<1>1. /\ w \in Seq(X) /\ Len(w) = Len(list) - 1 /\ \A k \in 1..Len(w) : w[k] = list[k + 1]
      /\ Len(list) \in Nat /\ Len(list) >= 1 /\ Head(list) = list[1] /\ Head(list) \in X
  BY HeadTailProperties, EmptySeq
<1> HIDE DEF w
<1>2. 1 \in 1..Len(list) /\ Head(list) \in ToSet(list)
  BY <1>1 DEF ToSet
<1>3. \A k \in 1..Len(w) : k + 1 \in 1..Len(list) /\ k + 1 # 1
  BY <1>1
<1>4. IsInjective(w)
  <2>1. ASSUME NEW m \in 1..Len(w), NEW n \in 1..Len(w), w[m] = w[n] PROVE m = n
    <3>1. m + 1 = n + 1
      BY SMTT(30), <1>1, <1>3, <2>1 DEF IsInjective
    <3> QED
      BY <3>1
  <2> QED
    BY <1>1, <2>1 DEF IsInjective
<1>5. ASSUME NEW e \in ToSet(w) PROVE e \in ToSet(list) \ {Head(list)}
  <2>1. PICK k \in 1..Len(w) : w[k] = e
    BY <1>1 DEF ToSet
  <2>2. e = list[k + 1] /\ e # list[1]
    BY <1>1, <1>2, <1>3, <2>1 DEF IsInjective
  <2> QED
    BY <1>1, <1>3, <2>2 DEF ToSet
<1>6. ASSUME NEW e \in ToSet(list) \ {Head(list)} PROVE e \in ToSet(w)
  <2>1. PICK k \in 1..Len(list) : list[k] = e
    BY DEF ToSet
  <2>2. k # 1
    BY <1>1, <2>1
  <2>3. k - 1 \in 1..Len(w) /\ k - 1 + 1 = k
    BY <1>1, <2>2
  <2>4. w[k - 1] = e
    BY <1>1, <2>1, <2>3
  <2> QED
    BY <1>1, <2>3, <2>4 DEF ToSet
<1> QED
  BY <1>1, <1>2, <1>4, <1>5, <1>6 DEF w

(* what is left without the elements of R *)
LEMMA WithoutFacts ==
  ASSUME NEW X, NEW list \in Seq(X), NEW R
  PROVE  /\ Without(list, R) \in Seq(X) /\ ToSet(Without(list, R)) = ToSet(list) \ R
         /\ IsInjective(list) => IsInjective(Without(list, R))
         /\ ToSet(list) \cap R = {} => Without(list, R) = list
         /\ \A x, y \in ToSet(list) \ R : Before(Without(list, R), x, y) <=> Before(list, x, y)
<1> DEFINE S == ToSet(list) \ R
<1>1. Without(list, R) = Kept(list, S)
  BY DEF Without
<1>2. ToSet(list) \cap R = {} => ToSet(list) \subseteq S
  OBVIOUS
<1>3. Kept(list, S) \in Seq(X) /\ ToSet(Kept(list, S)) = ToSet(list) \cap S
  BY KeptFacts, KeptSet
<1>4. ToSet(list) \cap S = ToSet(list) \ R
  OBVIOUS
<1>5. IsInjective(list) => IsInjective(Kept(list, S))
  BY KeptInjective
<1>6. ToSet(list) \cap R = {} => Kept(list, S) = list
  BY <1>2, KeptAll
<1>7. \A x, y \in S : Before(Kept(list, S), x, y) <=> Before(list, x, y)
  BY KeptOrder
<1> QED
  BY <1>1, <1>3, <1>4, <1>5, <1>6, <1>7

(* its last element when the first one is the last that remains *)
LEMMA WithoutLast ==
  ASSUME NEW X, NEW list \in Seq(X), NEW R, list # <<>>, Last(list) \notin R
  PROVE  Without(list, R) # <<>> /\ Last(Without(list, R)) = Last(list)
<1> DEFINE S == ToSet(list) \ R
           z == Len(list)
<1>1. z \in 1..z /\ list[z] \in S /\ Last(list) = list[z] /\ z \in Nat
  BY Elements DEF Last
<1>2. ToSet(list) \cap S # {}
  BY <1>1
<1> HIDE DEF S
<1>3. PICK m \in 1..z : /\ list[m] \in S /\ Last(Kept(list, S)) = list[m]
                        /\ \A k \in (m + 1)..z : list[k] \notin S
  BY <1>2, KeptLast
<1>4. m = z
  <2> HIDE DEF z
  <2>1. ~(z \in (m + 1)..z)
    BY <1>1, <1>3
  <2> QED
    BY <1>1, <1>3, <2>1
<1>5. Kept(list, S) # <<>>
  BY <1>2, KeptLast
<1> QED
  BY <1>1, <1>3, <1>4, <1>5 DEF Without, S
=============================================================================
