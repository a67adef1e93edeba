---------------------------- MODULE LuaGen_proofs ----------------------------
(* The generational collector, for any objects, any kinds of them, any     *)
(* program and any sequence of collections: what LuaGen states of it holds *)
(* in every state.                                                         *)
(*                                                                         *)
(* The invariant says what a minor collection relies on.  Each list is cut *)
(* by its pointers into objects of known ages (SectionsInv), a gray list   *)
(* holds what has to be visited again and colours agree with ages          *)
(* (GrayInv), and a black object refers to nothing that the collection may *)
(* take for dead (BlackInv).  BlackInv is stronger than "old points to     *)
(* old": an object that is not old yet may refer to survivors, which age   *)
(* with it, and to nothing new.                                            *)
(*                                                                         *)
(* The module goes from lists to marks, to the invariant, to the steps of  *)
(* the program and its finalizers, to collections of the whole heap and to *)
(* the minor one, whose mark phase, sweeps and corrections are a lemma     *)
(* each.                                                                   *)
EXTENDS LuaGen, DataLemmas, TLAPS

-----------------------------------------------------------------------------
(* Lists, and pointers to an element of one. *)

(* the elements of s from p on *)
Beyond(s, p) == ToSet(From(s, p))

(* where p is in s, or one past the end of s *)
LEMMA IndexFacts ==
  ASSUME NEW X, NEW s \in Seq(X), NEW p
  PROVE  /\ Index(s, p) \in Nat /\ 1 <= Index(s, p) /\ Index(s, p) <= Len(s) + 1
         /\ p \in ToSet(s) => Index(s, p) \in 1..Len(s) /\ s[Index(s, p)] = p
         /\ p \notin ToSet(s) => Index(s, p) = Len(s) + 1
<1>1. Len(s) \in Nat /\ DOMAIN s = 1..Len(s)
  OBVIOUS
<1>2. CASE p \in ToSet(s)
  <2>1. \E i \in DOMAIN s : s[i] = p
    BY <1>2 DEF ToSet
  <2>2. Index(s, p) = CHOOSE i \in DOMAIN s : s[i] = p
    BY <2>1 DEF Index
  <2>3. Index(s, p) \in DOMAIN s /\ s[Index(s, p)] = p
    BY <2>1, <2>2
  <2> QED
    BY <1>1, <1>2, <2>3
<1>3. CASE p \notin ToSet(s)
  <2>1. ~ \E i \in DOMAIN s : s[i] = p
    BY <1>3 DEF ToSet
  <2>2. Index(s, p) = Len(s) + 1
    BY <2>1 DEF Index
  <2> QED
    BY <1>1, <1>3, <2>2
<1> QED
  BY <1>2, <1>3

(* nothing is twice in a list: every place is the place of its element *)
LEMMA IndexUnique ==
  ASSUME NEW X, NEW s \in Seq(X), IsInjective(s), NEW k \in 1..Len(s)
  PROVE  Index(s, s[k]) = k
<1>1. Len(s) \in Nat /\ DOMAIN s = 1..Len(s)
  OBVIOUS
<1>2. s[k] \in ToSet(s)
  BY Elements
<1>3. Index(s, s[k]) \in 1..Len(s) /\ s[Index(s, s[k])] = s[k]
  BY <1>2, IndexFacts
<1> QED
  BY <1>1, <1>3 DEF IsInjective

(* a pointer cuts a list in two *)
LEMMA FromFacts ==
  ASSUME NEW X, NEW s \in Seq(X), NEW p
  PROVE  /\ From(s, p) \in Seq(X)
         /\ IsInjective(s) => IsInjective(From(s, p))
         /\ Len(From(s, p)) = Len(s) + 1 - Index(s, p)
         /\ \A k \in 1..Len(From(s, p)) : From(s, p)[k] = s[k + Index(s, p) - 1]
<1> DEFINE i == Index(s, p)
           w == SubSeq(s, i, Len(s))
<1>1. i \in Nat /\ 1 <= i /\ i <= Len(s) + 1 /\ Len(s) \in Nat
  BY IndexFacts
<1> HIDE DEF i
<1>2. \A k \in i..Len(s) : s[k] \in X
  BY <1>1
<1>3. /\ w \in Seq(X) /\ Len(w) = IF i <= Len(s) THEN Len(s) - i + 1 ELSE 0
      /\ \A k \in 1..(Len(s) - i + 1) : w[k] = s[i + k - 1]
  BY <1>1, <1>2, SubSeqProperties
<1> HIDE DEF w
<1>4. Len(w) = Len(s) + 1 - i
  BY <1>1, <1>3
<1>5. \A k \in 1..Len(w) : w[k] = s[k + i - 1]
  BY <1>1, <1>3, <1>4
<1>6. ASSUME IsInjective(s) PROVE IsInjective(w)
  <2> SUFFICES ASSUME NEW a \in 1..Len(w), NEW b \in 1..Len(w), w[a] = w[b] PROVE a = b
    BY <1>3 DEF IsInjective
  <2>1. a + i - 1 \in 1..Len(s) /\ b + i - 1 \in 1..Len(s)
    BY <1>1, <1>4
  <2>2. s[a + i - 1] = s[b + i - 1]
    BY <1>5
  <2>3. a + i - 1 = b + i - 1
    BY <1>6, <2>1, <2>2 DEF IsInjective
  <2> QED
    BY <1>1, <2>3
<1>7. From(s, p) = w
  BY DEF From, w, i
<1> QED
  BY <1>3, <1>4, <1>5, <1>6, <1>7 DEF i

(* the part of s before p *)
LEMMA UptoFacts ==
  ASSUME NEW X, NEW s \in Seq(X), NEW p
  PROVE  /\ Upto(s, p) \in Seq(X)
         /\ IsInjective(s) => IsInjective(Upto(s, p))
         /\ Len(Upto(s, p)) = Index(s, p) - 1
         /\ \A k \in 1..Len(Upto(s, p)) : Upto(s, p)[k] = s[k]
<1> DEFINE i == Index(s, p)
           w == SubSeq(s, 1, i - 1)
<1>1. i \in Nat /\ 1 <= i /\ i <= Len(s) + 1 /\ Len(s) \in Nat
  BY IndexFacts
<1> HIDE DEF i
<1>2. \A k \in 1..(i - 1) : s[k] \in X
  BY <1>1
<1>3. /\ w \in Seq(X) /\ Len(w) = IF 1 <= i - 1 THEN (i - 1) - 1 + 1 ELSE 0
      /\ \A k \in 1..((i - 1) - 1 + 1) : w[k] = s[1 + k - 1]
  BY <1>1, <1>2, SubSeqProperties
<1> HIDE DEF w
<1>4. Len(w) = i - 1
  BY <1>1, <1>3
<1>5. \A k \in 1..Len(w) : w[k] = s[k]
  BY <1>1, <1>3, <1>4
<1>6. ASSUME IsInjective(s) PROVE IsInjective(w)
  <2> SUFFICES ASSUME NEW a \in 1..Len(w), NEW b \in 1..Len(w), w[a] = w[b] PROVE a = b
    BY <1>3 DEF IsInjective
  <2>1. a \in 1..Len(s) /\ b \in 1..Len(s)
    BY <1>1, <1>4
  <2>2. s[a] = s[b]
    BY <1>5
  <2> QED
    BY <1>6, <2>1, <2>2 DEF IsInjective
<1>7. Upto(s, p) = w
  BY DEF Upto, w, i
<1> QED
  BY <1>3, <1>4, <1>5, <1>6, <1>7 DEF i

(* what is beyond p comes at p's place or after it *)
LEMMA BeyondIs ==
  ASSUME NEW X, NEW s \in Seq(X), NEW p, NEW x
  PROVE  x \in Beyond(s, p) <=> \E k \in 1..Len(s) : Index(s, p) <= k /\ s[k] = x
<1> DEFINE i == Index(s, p)
           w == From(s, p)
<1>1. i \in Nat /\ 1 <= i /\ i <= Len(s) + 1 /\ Len(s) \in Nat
  BY IndexFacts
<1>2. /\ w \in Seq(X) /\ Len(w) = Len(s) + 1 - i
      /\ \A k \in 1..Len(w) : w[k] = s[k + i - 1]
  BY FromFacts
<1> HIDE DEF i, w
<1>3. ASSUME x \in ToSet(w) PROVE \E k \in 1..Len(s) : i <= k /\ s[k] = x
  <2>1. PICK k \in 1..Len(w) : w[k] = x
    BY <1>2, <1>3, Elements
  <2>2. k + i - 1 \in 1..Len(s) /\ i <= k + i - 1 /\ s[k + i - 1] = x
    BY <1>1, <1>2, <2>1
  <2> QED
    BY <2>2
<1>4. ASSUME NEW k \in 1..Len(s), i <= k, s[k] = x PROVE x \in ToSet(w)
  <2>1. (k + 1 - i) \in 1..Len(w) /\ (k + 1 - i) + i - 1 = k
    BY <1>1, <1>2, <1>4
  <2>2. w[k + 1 - i] = x
    BY <1>2, <1>4, <2>1
  <2> QED
    BY <1>2, <2>1, <2>2, Elements
<1> QED
  BY <1>3, <1>4 DEF Beyond, i, w

(* in a list without repetition *)
LEMMA BeyondOrder ==
  ASSUME NEW X, NEW s \in Seq(X), IsInjective(s), NEW p
  PROVE  /\ Beyond(s, p) \subseteq ToSet(s)
         /\ \A x \in ToSet(s) : x \in Beyond(s, p) <=> Index(s, p) <= Index(s, x)
         /\ p \in ToSet(s) => /\ p \in Beyond(s, p)
                              /\ \A x : x \in Beyond(s, p) <=> x = p \/ Before(s, p, x)
         /\ p \notin ToSet(s) => Beyond(s, p) = {}
         /\ ToSet(Upto(s, p)) = ToSet(s) \ Beyond(s, p)
<1> DEFINE i == Index(s, p)
<1>1. /\ i \in Nat /\ 1 <= i /\ i <= Len(s) + 1 /\ Len(s) \in Nat
      /\ p \in ToSet(s) => i \in 1..Len(s) /\ s[i] = p
      /\ p \notin ToSet(s) => i = Len(s) + 1
  BY IndexFacts
<1>2. \A x : x \in Beyond(s, p) <=> \E k \in 1..Len(s) : i <= k /\ s[k] = x
  BY BeyondIs
<1>3. /\ Upto(s, p) \in Seq(X) /\ Len(Upto(s, p)) = i - 1
      /\ \A k \in 1..Len(Upto(s, p)) : Upto(s, p)[k] = s[k]
  BY UptoFacts
<1> HIDE DEF i
<1>4. \A k \in 1..Len(s) : s[k] \in ToSet(s) /\ Index(s, s[k]) = k
  BY IndexUnique, Elements
<1>5. \A x \in ToSet(s) : \E k \in 1..Len(s) : s[k] = x
  BY Elements
<1>6. Beyond(s, p) \subseteq ToSet(s)
  BY <1>2, <1>4
<1>7. \A x \in ToSet(s) : x \in Beyond(s, p) <=> i <= Index(s, x)
  BY <1>2, <1>4, <1>5
<1>8. ASSUME p \in ToSet(s)
      PROVE  /\ p \in Beyond(s, p)
             /\ \A x : x \in Beyond(s, p) <=> x = p \/ Before(s, p, x)
  <2>1. i \in 1..Len(s) /\ s[i] = p
    BY <1>1, <1>8
  <2>2. p \in Beyond(s, p)
    BY <1>2, <2>1
  <2>3. ASSUME NEW x \in Beyond(s, p), x # p PROVE Before(s, p, x)
    <3>1. PICK k \in 1..Len(s) : i <= k /\ s[k] = x
      BY <1>2, <2>3
    <3>2. i < k
      BY <1>1, <2>1, <2>3, <3>1
    <3> QED
      BY <2>1, <3>1, <3>2 DEF Before
  <2>4. ASSUME NEW x, Before(s, p, x) PROVE x \in Beyond(s, p)
    <3>1. PICK a, b \in 1..Len(s) : a < b /\ s[a] = p /\ s[b] = x
      BY <2>4 DEF Before
    <3>2. a = i
      BY <1>4, <2>1, <3>1
    <3> QED
      BY <1>1, <1>2, <3>1, <3>2
  <2> QED
    BY <2>2, <2>3, <2>4
<1>9. ASSUME p \notin ToSet(s) PROVE Beyond(s, p) = {}
  BY <1>1, <1>2, <1>9
<1>10. \A x : x \in ToSet(Upto(s, p)) <=> x \in ToSet(s) /\ x \notin Beyond(s, p)
  <2>1. ASSUME NEW x \in ToSet(Upto(s, p)) PROVE x \in ToSet(s) /\ x \notin Beyond(s, p)
    <3>1. PICK k \in 1..Len(Upto(s, p)) : Upto(s, p)[k] = x
      BY <1>3, <2>1, Elements
    <3>2. k \in 1..Len(s) /\ k < i /\ s[k] = x
      BY <1>1, <1>3, <3>1
    <3>3. x \in ToSet(s) /\ Index(s, x) = k
      BY <1>4, <3>2
    <3> QED
      BY <1>1, <1>7, <3>2, <3>3
  <2>2. ASSUME NEW x \in ToSet(s), x \notin Beyond(s, p) PROVE x \in ToSet(Upto(s, p))
    <3>1. PICK k \in 1..Len(s) : s[k] = x
      BY <1>5
    <3>2. k < i
      BY <1>1, <1>2, <2>2, <3>1
    <3>3. k \in 1..Len(Upto(s, p)) /\ Upto(s, p)[k] = x
      BY <1>1, <1>3, <3>1, <3>2
    <3> QED
      BY <1>3, <3>3, Elements
  <2> QED
    BY <2>1, <2>2
<1> QED
  BY <1>6, <1>7, <1>8, <1>9, <1>10 DEF i

(* the order of a list is the order of the places in it *)
LEMMA BeforeIndex ==
  ASSUME NEW X, NEW s \in Seq(X), IsInjective(s), NEW x, NEW y
  PROVE  Before(s, x, y) <=> x \in ToSet(s) /\ y \in ToSet(s) /\ Index(s, x) < Index(s, y)
<1>1. ASSUME Before(s, x, y)
      PROVE  x \in ToSet(s) /\ y \in ToSet(s) /\ Index(s, x) < Index(s, y)
  <2>1. PICK a, b \in 1..Len(s) : a < b /\ s[a] = x /\ s[b] = y
    BY <1>1 DEF Before
  <2>2. Index(s, x) = a /\ Index(s, y) = b
    BY <2>1, IndexUnique
  <2> QED
    BY <2>1, <2>2, Elements
<1>2. ASSUME x \in ToSet(s), y \in ToSet(s), Index(s, x) < Index(s, y) PROVE Before(s, x, y)
  <2>1. /\ Index(s, x) \in 1..Len(s) /\ s[Index(s, x)] = x
        /\ Index(s, y) \in 1..Len(s) /\ s[Index(s, y)] = y
    BY <1>2, IndexFacts
  <2> QED
    BY <1>2, <2>1 DEF Before
<1> QED
  BY <1>1, <1>2

(* a list is in an order *)
LEMMA BeforeOrder ==
  ASSUME NEW X, NEW s \in Seq(X), IsInjective(s)
  PROVE  /\ \A x, y : Before(s, x, y) => x \in ToSet(s) /\ y \in ToSet(s) /\ x # y
                                         /\ ~Before(s, y, x)
         /\ \A x, y, z : Before(s, x, y) /\ Before(s, y, z) => Before(s, x, z)
         /\ \A x, y \in ToSet(s) : x = y \/ Before(s, x, y) \/ Before(s, y, x)
<1> DEFINE I(x) == Index(s, x)
<1>1. \A x, y : Before(s, x, y) <=> x \in ToSet(s) /\ y \in ToSet(s) /\ I(x) < I(y)
  BY BeforeIndex
<1>2. \A x : I(x) \in Nat
  BY IndexFacts
<1>3. \A x \in ToSet(s) : s[I(x)] = x
  BY IndexFacts
<1> HIDE DEF I
<1>4. \A x, y \in ToSet(s) : x # y => I(x) < I(y) \/ I(y) < I(x)
  <2> SUFFICES ASSUME NEW x \in ToSet(s), NEW y \in ToSet(s), x # y
               PROVE I(x) < I(y) \/ I(y) < I(x)
    OBVIOUS
  <2>1. I(x) # I(y)
    BY <1>3
  <2>2. I(x) \in Nat /\ I(y) \in Nat
    BY <1>2
  <2> QED
    BY <2>1, <2>2
<1>5. \A x, y : Before(s, x, y) => x \in ToSet(s) /\ y \in ToSet(s) /\ x # y
                                   /\ ~Before(s, y, x)
  <2> SUFFICES ASSUME NEW x, NEW y, Before(s, x, y)
               PROVE  x \in ToSet(s) /\ y \in ToSet(s) /\ x # y /\ ~Before(s, y, x)
    OBVIOUS
  <2>1. I(x) \in Nat /\ I(y) \in Nat /\ I(x) < I(y)
    BY <1>1, <1>2
  <2>2. ~(I(y) < I(x)) /\ x # y
    BY <2>1
  <2> QED
    BY <1>1, <2>2
<1>6. \A x, y, z : Before(s, x, y) /\ Before(s, y, z) => Before(s, x, z)
  <2> SUFFICES ASSUME NEW x, NEW y, NEW z, Before(s, x, y), Before(s, y, z)
               PROVE  Before(s, x, z)
    OBVIOUS
  <2>1. I(x) \in Nat /\ I(y) \in Nat /\ I(z) \in Nat /\ I(x) < I(y) /\ I(y) < I(z)
    BY <1>1, <1>2
  <2>2. I(x) < I(z)
    BY <2>1
  <2> QED
    BY <1>1, <2>2
<1>7. \A x, y \in ToSet(s) : x = y \/ Before(s, x, y) \/ Before(s, y, x)
  BY <1>1, <1>4
<1> QED
  BY <1>5, <1>6, <1>7

(* where a pointer has to be for T to be what is beyond it *)
LEMMA CutAt ==
  ASSUME NEW X, NEW s \in Seq(X), IsInjective(s), NEW p, NEW T,
         \/ T = {} /\ p \notin ToSet(s)
         \/ /\ p \in T /\ T \subseteq ToSet(s)
            /\ \A x \in T : x = p \/ Before(s, p, x)
            /\ \A x : Before(s, p, x) => x \in T
  PROVE  Beyond(s, p) = T
<1>1. CASE T = {} /\ p \notin ToSet(s)
  BY <1>1, BeyondOrder
<1>2. CASE /\ p \in T /\ T \subseteq ToSet(s)
           /\ \A x \in T : x = p \/ Before(s, p, x)
           /\ \A x : Before(s, p, x) => x \in T
  <2>1. \A x : x \in Beyond(s, p) <=> x = p \/ Before(s, p, x)
    BY <1>2, BeyondOrder
  <2> QED
    BY <1>2, <2>1
<1> QED
  BY <1>1, <1>2

(* what is beyond a pointer that comes later is less *)
LEMMA BeyondNested ==
  ASSUME NEW X, NEW s \in Seq(X), IsInjective(s), NEW null, null \notin X,
         NEW p \in ToSet(s) \cup {null}, NEW q \in ToSet(s) \cup {null}
  PROVE  Index(s, p) <= Index(s, q) <=> Beyond(s, q) \subseteq Beyond(s, p)
<1>1. null \notin ToSet(s)
  BY Elements
<1>2. /\ Index(s, p) \in Nat /\ Index(s, q) \in Nat
      /\ Index(s, p) <= Len(s) + 1 /\ Index(s, q) <= Len(s) + 1
      /\ q \notin ToSet(s) => Index(s, q) = Len(s) + 1
  BY IndexFacts
<1>3. \A r : \A x \in ToSet(s) : x \in Beyond(s, r) <=> Index(s, r) <= Index(s, x)
  BY BeyondOrder
<1>4. Beyond(s, q) \subseteq ToSet(s) /\ \A x : Index(s, x) \in Nat
  BY BeyondOrder, IndexFacts
<1>5. ASSUME Index(s, p) <= Index(s, q), NEW x \in Beyond(s, q) PROVE x \in Beyond(s, p)
  <2>1. x \in ToSet(s) /\ Index(s, q) <= Index(s, x) /\ Index(s, x) \in Nat
    BY <1>3, <1>4, <1>5
  <2>2. Index(s, p) <= Index(s, x)
    BY <1>2, <1>5, <2>1
  <2> QED
    BY <1>3, <2>1, <2>2
<1>6. ASSUME Beyond(s, q) \subseteq Beyond(s, p) PROVE Index(s, p) <= Index(s, q)
  <2>1. CASE q \in ToSet(s)
    <3>1. q \in Beyond(s, q)
      BY <2>1, BeyondOrder
    <3> QED
      BY <1>3, <1>6, <2>1, <3>1
  <2>2. CASE q \notin ToSet(s)
    BY <1>2, <2>2
  <2> QED
    BY <2>1, <2>2
<1> QED
  BY <1>5, <1>6

(* a part of a list *)
LEMMA BeyondKept ==
  ASSUME NEW X, NEW s \in Seq(X), IsInjective(s), NEW S, NEW p, p \in ToSet(s) => p \in S
  PROVE  Beyond(Kept(s, S), p) = Beyond(s, p) \cap S
<1>1. /\ Kept(s, S) \in Seq(X) /\ IsInjective(Kept(s, S))
      /\ ToSet(Kept(s, S)) = ToSet(s) \cap S
  BY KeptFacts, KeptInjective, KeptSet
<1>2. CASE p \notin ToSet(s)
  <2>1. p \notin ToSet(Kept(s, S))
    BY <1>1, <1>2
  <2> QED
    BY <1>1, <1>2, <2>1, BeyondOrder
<1>3. CASE p \in ToSet(s)
  <2>1. p \in S
    BY <1>3
  <2>2. \A x : x \in Beyond(s, p) <=> x = p \/ Before(s, p, x)
    BY <1>3, BeyondOrder
  <2>3. \A x : x \in Beyond(Kept(s, S), p) <=> x = p \/ Before(Kept(s, S), p, x)
    BY <1>1, <1>3, <2>1, BeyondOrder
  <2>4. \A x \in S : Before(Kept(s, S), p, x) <=> Before(s, p, x)
    BY <2>1, KeptOrder
  <2>5. \A x : Before(Kept(s, S), p, x) => x \in S
    BY <1>1, BeforeOrder
  <2>6. \A x : x \in Beyond(Kept(s, S), p) <=> x \in Beyond(s, p) /\ x \in S
    BY <2>1, <2>2, <2>3, <2>4, <2>5
  <2> QED
    BY <2>6
<1> QED
  BY <1>2, <1>3

(* a new object at the head is behind no pointer but its own *)
LEMMA BeyondPrepended ==
  ASSUME NEW X, NEW s \in Seq(X), IsInjective(s), NEW x \in X \ ToSet(s), NEW p, p # x
  PROVE  Beyond(<<x>> \o s, p) = Beyond(s, p)
<1> DEFINE w == <<x>> \o s
<1>1. w \in Seq(X) /\ IsInjective(w) /\ ToSet(w) = {x} \cup ToSet(s)
  BY Prepended
<1>2. \A y : Before(w, p, y) <=> Before(s, p, y)
  BY Prepended
<1> HIDE DEF w
<1>3. ASSUME p \in ToSet(s) PROVE Beyond(w, p) = Beyond(s, p)
  <2>1. \A y : y \in Beyond(w, p) <=> y = p \/ Before(w, p, y)
    BY <1>1, <1>3, BeyondOrder
  <2>2. \A y : y \in Beyond(s, p) <=> y = p \/ Before(s, p, y)
    BY <1>3, BeyondOrder
  <2>3. \A y : y \in Beyond(w, p) <=> y \in Beyond(s, p)
    BY <1>2, <2>1, <2>2
  <2> QED
    BY <2>3
<1>4. ASSUME p \notin ToSet(s) PROVE Beyond(w, p) = Beyond(s, p)
  <2>1. p \notin ToSet(w)
    BY <1>1, <1>4
  <2>2. Beyond(w, p) = {}
    BY <1>1, <2>1, BeyondOrder
  <2>3. Beyond(s, p) = {}
    BY <1>4, BeyondOrder
  <2> QED
    BY <2>2, <2>3
<1> QED
  BY <1>3, <1>4 DEF w

(* First is the head, and Nil of an empty list only *)
LEMMA FirstFacts ==
  ASSUME NEW X, NEW s \in Seq(X)
  PROVE  /\ s = <<>> => First(s) = Nil
         /\ s # <<>> => First(s) \in ToSet(s) /\ First(s) = s[1]
         /\ s = <<>> <=> ToSet(s) = {}
<1>1. s # <<>> => Len(s) \in Nat /\ Len(s) >= 1 /\ Head(s) = s[1]
  BY HeadTailProperties, EmptySeq
<1>2. s # <<>> => 1 \in 1..Len(s) /\ s[1] \in ToSet(s)
  BY <1>1, Elements
<1>3. s = <<>> => ToSet(s) = {}
  BY Elements DEF ToSet
<1>4. s = <<>> => First(s) = Nil
  BY DEF First
<1>5. s # <<>> => First(s) = Head(s)
  BY DEF First
<1> QED
  BY <1>1, <1>2, <1>3, <1>4, <1>5

(* the head is before everything else *)
LEMMA FirstIsBefore ==
  ASSUME NEW X, NEW s \in Seq(X), IsInjective(s), NEW x \in ToSet(s)
  PROVE  x = First(s) \/ Before(s, First(s), x)
<1>1. s # <<>> /\ First(s) \in ToSet(s) /\ First(s) = s[1]
  BY FirstFacts
<1>2. Len(s) \in Nat /\ 1 \in 1..Len(s)
  BY <1>1, Elements
<1>3. PICK k \in 1..Len(s) : s[k] = x
  BY Elements
<1>4. k = 1 \/ 1 < k
  BY <1>2
<1> QED
  BY <1>1, <1>2, <1>3, <1>4 DEF Before

(* two lists after each other *)
LEMMA BeforeJoined ==
  ASSUME NEW X, NEW s \in Seq(X), NEW t \in Seq(X), IsInjective(s), IsInjective(t),
         ToSet(s) \cap ToSet(t) = {}
  PROVE  /\ \A x \in ToSet(s), y \in ToSet(t) : Before(s \o t, x, y)
         /\ \A x, y \in ToSet(t) : Before(s \o t, x, y) <=> Before(t, x, y)
         /\ \A x, y \in ToSet(s) : Before(s \o t, x, y) <=> Before(s, x, y)
<1> DEFINE w == s \o t
<1>1. /\ w \in Seq(X) /\ Len(w) = Len(s) + Len(t) /\ Len(s) \in Nat /\ Len(t) \in Nat
      /\ \A k \in 1..(Len(s) + Len(t)) : w[k] = IF k <= Len(s) THEN s[k] ELSE t[k - Len(s)]
  BY ConcatProperties
<1>2. IsInjective(w) /\ ToSet(w) = ToSet(s) \cup ToSet(t)
  BY Joined
<1> HIDE DEF w
<1>3. \A k \in 1..Len(s) : k \in 1..Len(w) /\ w[k] = s[k]
  BY <1>1
<1>4. \A k \in 1..Len(t) : k + Len(s) \in 1..Len(w) /\ w[k + Len(s)] = t[k]
  <2> SUFFICES ASSUME NEW k \in 1..Len(t)
               PROVE  k + Len(s) \in 1..Len(w) /\ w[k + Len(s)] = t[k]
    OBVIOUS
  <2>1. k + Len(s) \in 1..(Len(s) + Len(t)) /\ ~(k + Len(s) <= Len(s)) /\ k + Len(s) - Len(s) = k
    BY <1>1
  <2> QED
    BY <1>1, <2>1
<1>5. \A x \in ToSet(s) : Index(w, x) = Index(s, x) /\ Index(s, x) \in 1..Len(s)
  <2> SUFFICES ASSUME NEW x \in ToSet(s)
               PROVE  Index(w, x) = Index(s, x) /\ Index(s, x) \in 1..Len(s)
    OBVIOUS
  <2>1. Index(s, x) \in 1..Len(s) /\ s[Index(s, x)] = x
    BY IndexFacts
  <2>2. Index(s, x) \in 1..Len(w) /\ w[Index(s, x)] = x
    BY <1>3, <2>1
  <2> QED
    BY <1>1, <1>2, <2>1, <2>2, IndexUnique
<1>6. \A x \in ToSet(t) : Index(w, x) = Index(t, x) + Len(s) /\ Index(t, x) \in 1..Len(t)
  <2> SUFFICES ASSUME NEW x \in ToSet(t)
               PROVE  Index(w, x) = Index(t, x) + Len(s) /\ Index(t, x) \in 1..Len(t)
    OBVIOUS
  <2>1. Index(t, x) \in 1..Len(t) /\ t[Index(t, x)] = x
    BY IndexFacts
  <2>2. Index(t, x) + Len(s) \in 1..Len(w) /\ w[Index(t, x) + Len(s)] = x
    BY <1>4, <2>1
  <2> QED
    BY <1>1, <1>2, <2>1, <2>2, IndexUnique
<1>7. /\ \A x, y : Before(w, x, y) <=> x \in ToSet(w) /\ y \in ToSet(w) /\ Index(w, x) < Index(w, y)
      /\ \A x, y : Before(s, x, y) <=> x \in ToSet(s) /\ y \in ToSet(s) /\ Index(s, x) < Index(s, y)
      /\ \A x, y : Before(t, x, y) <=> x \in ToSet(t) /\ y \in ToSet(t) /\ Index(t, x) < Index(t, y)
  BY <1>1, <1>2, BeforeIndex
<1>8. \A x \in ToSet(s), y \in ToSet(t) : Before(w, x, y)
  <2> SUFFICES ASSUME NEW x \in ToSet(s), NEW y \in ToSet(t) PROVE Before(w, x, y)
    OBVIOUS
  <2>1. Index(w, x) < Index(w, y)
    BY <1>1, <1>5, <1>6
  <2> QED
    BY <1>2, <1>7, <2>1
<1>9. \A x, y \in ToSet(t) : Before(w, x, y) <=> Before(t, x, y)
  <2> SUFFICES ASSUME NEW x \in ToSet(t), NEW y \in ToSet(t)
               PROVE  Before(w, x, y) <=> Before(t, x, y)
    OBVIOUS
  <2>1. Index(w, x) < Index(w, y) <=> Index(t, x) < Index(t, y)
    BY <1>1, <1>6
  <2> QED
    BY <1>2, <1>7, <2>1
<1>10. \A x, y \in ToSet(s) : Before(w, x, y) <=> Before(s, x, y)
  BY <1>2, <1>5, <1>7
<1> QED
  BY <1>8, <1>9, <1>10 DEF w

(* what is beyond the first element of the second one, and beyond any *)
LEMMA BeyondJoined ==
  ASSUME NEW X, NEW s \in Seq(X), NEW t \in Seq(X), IsInjective(s), IsInjective(t),
         ToSet(s) \cap ToSet(t) = {}, Nil \notin X
  PROVE  /\ Beyond(s \o t, First(t)) = ToSet(t)
         /\ First(t) \in ToSet(t) \cup {Nil}
         /\ \A p \in ToSet(t) : Beyond(s \o t, p) = Beyond(t, p)
<1> DEFINE w == s \o t
<1>1. w \in Seq(X) /\ IsInjective(w) /\ ToSet(w) = ToSet(s) \cup ToSet(t)
  BY Joined
<1>2. /\ \A x \in ToSet(s), y \in ToSet(t) : Before(w, x, y)
      /\ \A x, y \in ToSet(t) : Before(w, x, y) <=> Before(t, x, y)
  BY BeforeJoined
<1> HIDE DEF w
<1>3. \A x, y : Before(w, x, y) => y \in ToSet(w) /\ ~Before(w, y, x)
  BY <1>1, BeforeOrder
<1>4. \A x, y : Before(w, x, y) /\ x \in ToSet(t) => y \in ToSet(t)
  BY <1>1, <1>2, <1>3
<1>5. First(t) \in ToSet(t) \cup {Nil} /\ (First(t) = Nil <=> ToSet(t) = {}) /\ Nil \notin ToSet(w)
  BY <1>1, FirstFacts, Elements
<1>6. Beyond(w, First(t)) = ToSet(t)
  <2>1. CASE ToSet(t) = {}
    BY <1>1, <1>5, <2>1, CutAt
  <2>2. CASE First(t) \in ToSet(t)
    <3>1. \A x \in ToSet(t) : x = First(t) \/ Before(w, First(t), x)
      BY <1>2, <2>2, FirstIsBefore
    <3>2. \A x : Before(w, First(t), x) => x \in ToSet(t)
      BY <1>4, <2>2
    <3> QED
      BY <1>1, <2>2, <3>1, <3>2, CutAt
  <2> QED
    BY <1>5, <2>1, <2>2
<1>7. ASSUME NEW p \in ToSet(t) PROVE \A x : x \in Beyond(w, p) <=> x \in Beyond(t, p)
  <2>1. \A x : x \in Beyond(w, p) <=> x = p \/ Before(w, p, x)
    BY <1>1, BeyondOrder
  <2>2. \A x : x \in Beyond(t, p) <=> x = p \/ Before(t, p, x)
    BY BeyondOrder
  <2>3. \A x : Before(w, p, x) <=> Before(t, p, x)
    BY <1>2, <1>4, BeforeOrder
  <2> QED
    BY <2>1, <2>2, <2>3
<1>8. \A p \in ToSet(t) : Beyond(w, p) = Beyond(t, p)
  BY <1>7
<1> QED
  BY <1>5, <1>6, <1>8 DEF w

(* a list is the part before p and the part from p on *)
LEMMA SplitAt ==
  ASSUME NEW X, NEW s \in Seq(X), NEW p
  PROVE  Upto(s, p) \o From(s, p) = s
<1> DEFINE u == Upto(s, p)
           f == From(s, p)
           i == Index(s, p)
<1>1. i \in Nat /\ 1 <= i /\ i <= Len(s) + 1 /\ Len(s) \in Nat
  BY IndexFacts
<1>2. u \in Seq(X) /\ Len(u) = i - 1 /\ \A k \in 1..Len(u) : u[k] = s[k]
  BY UptoFacts
<1>3. f \in Seq(X) /\ Len(f) = Len(s) + 1 - i /\ \A k \in 1..Len(f) : f[k] = s[k + i - 1]
  BY FromFacts
<1> HIDE DEF u, f, i
<1>4. /\ u \o f \in Seq(X) /\ Len(u \o f) = Len(u) + Len(f)
      /\ \A k \in 1..(Len(u) + Len(f)) : (u \o f)[k] = IF k <= Len(u) THEN u[k] ELSE f[k - Len(u)]
  <2>1. u \in Seq(X) /\ f \in Seq(X)
    BY <1>2, <1>3
  <2> QED
    BY <2>1, ConcatProperties
<1>5. Len(u \o f) = Len(s)
  BY <1>1, <1>2, <1>3, <1>4
<1>6. ASSUME NEW k \in 1..Len(s) PROVE (u \o f)[k] = s[k]
  <2>1. CASE k <= Len(u)
    <3>1. k \in 1..Len(u) /\ k \in 1..(Len(u) + Len(f))
      BY <1>1, <1>2, <1>3, <2>1
    <3> QED
      BY <1>2, <1>4, <2>1, <3>1
  <2>2. CASE ~(k <= Len(u))
    <3>1. k \in 1..(Len(u) + Len(f)) /\ k - Len(u) \in 1..Len(f) /\ k - Len(u) + i - 1 = k
      BY <1>1, <1>2, <1>3, <2>2
    <3>2. (u \o f)[k] = f[k - Len(u)]
      BY <1>4, <2>2, <3>1
    <3>3. f[k - Len(u)] = s[k - Len(u) + i - 1]
      BY <1>3, <3>1
    <3> QED
      BY <3>1, <3>2, <3>3
  <2> QED
    BY <2>1, <2>2
<1>7. u \o f = s
  BY <1>4, <1>5, <1>6, SeqEqual
<1> QED
  BY <1>7 DEF u, f

(* the order in what is left from p on, and a second pointer *)
LEMMA FromOrder ==
  ASSUME NEW X, NEW s \in Seq(X), IsInjective(s), NEW p
  PROVE  /\ From(s, p) \in Seq(X) /\ IsInjective(From(s, p)) /\ ToSet(From(s, p)) = Beyond(s, p)
         /\ \A x, y \in Beyond(s, p) : Before(From(s, p), x, y) <=> Before(s, x, y)
         /\ \A q \in Beyond(s, p) : \A x : x \in Beyond(From(s, p), q) <=> x \in Beyond(s, q)
<1> DEFINE u == Upto(s, p)
           f == From(s, p)
<1>1. f \in Seq(X) /\ IsInjective(f) /\ u \in Seq(X) /\ IsInjective(u) /\ u \o f = s
  BY FromFacts, UptoFacts, SplitAt
<1>2. ToSet(f) = Beyond(s, p)
  BY DEF Beyond, f
<1>3. ToSet(u) \cap ToSet(f) = {}
  BY <1>2, BeyondOrder
<1> HIDE DEF u, f
<1>4. \A x, y \in ToSet(f) : Before(s, x, y) <=> Before(f, x, y)
  BY <1>1, <1>3, BeforeJoined
<1>5. ASSUME NEW q \in ToSet(f) PROVE \A x : x \in Beyond(f, q) <=> x \in Beyond(s, q)
  <2>1. q \in ToSet(s)
    BY <1>2, BeyondOrder
  <2>2. \A x : x \in Beyond(f, q) <=> x = q \/ Before(f, q, x)
    BY <1>1, BeyondOrder
  <2>3. \A x : x \in Beyond(s, q) <=> x = q \/ Before(s, q, x)
    BY <2>1, BeyondOrder
  <2>4. ASSUME NEW x, Before(s, q, x) PROVE x \in ToSet(f)
    <3>1. x \in ToSet(s) /\ Index(s, q) < Index(s, x) /\ Index(s, p) <= Index(s, q)
      BY <1>2, <2>1, <2>4, BeforeIndex, BeyondOrder
    <3>2. Index(s, p) <= Index(s, x)
      BY <3>1, IndexFacts
    <3> QED
      BY <1>2, <3>1, <3>2, BeyondOrder
  <2>5. \A x : Before(f, q, x) => x \in ToSet(f)
    BY <1>1, BeforeOrder
  <2>6. \A x : Before(f, q, x) <=> Before(s, q, x)
    BY <1>4, <2>4, <2>5
  <2> QED
    BY <2>2, <2>3, <2>6
<1> QED
  BY <1>1, <1>2, <1>4, <1>5 DEF f

(* what is between two pointers *)
LEMMA UptoFrom ==
  ASSUME NEW X, NEW s \in Seq(X), IsInjective(s), NEW p, NEW q
  PROVE  /\ \A x \in Beyond(s, p) : x \notin Beyond(s, q) => x \in ToSet(Upto(From(s, p), q))
         /\ ToSet(Upto(From(s, p), q)) \subseteq Beyond(s, p)
         /\ q \in Beyond(s, p) \/ q \notin ToSet(s)
              => \A x : x \in ToSet(Upto(From(s, p), q)) <=> x \in Beyond(s, p) \ Beyond(s, q)
<1> DEFINE f == From(s, p)
<1>1. /\ f \in Seq(X) /\ IsInjective(f) /\ ToSet(f) = Beyond(s, p)
      /\ \A r \in ToSet(f) : \A x : x \in Beyond(f, r) <=> x \in Beyond(s, r)
  BY FromOrder
<1> HIDE DEF f
<1>2. \A x : x \in ToSet(Upto(f, q)) <=> x \in ToSet(f) /\ x \notin Beyond(f, q)
  BY <1>1, BeyondOrder
<1>3. q \notin ToSet(f) => Beyond(f, q) = {}
  BY <1>1, BeyondOrder
<1>4. \A x \in ToSet(f) : x \notin Beyond(s, q) => x \in ToSet(Upto(f, q))
  BY <1>1, <1>2, <1>3
<1>5. ASSUME q \in ToSet(f) \/ q \notin ToSet(s)
      PROVE  \A x : x \in ToSet(Upto(f, q)) <=> x \in ToSet(f) \ Beyond(s, q)
  <2>1. CASE q \in ToSet(f)
    BY <1>1, <1>2, <2>1
  <2>2. CASE q \notin ToSet(s)
    <3>1. Beyond(s, q) = {}
      BY <2>2, BeyondOrder
    <3>2. q \notin ToSet(f)
      BY <1>1, <2>2, BeyondOrder
    <3> QED
      BY <1>2, <1>3, <3>1, <3>2
  <2> QED
    BY <1>5, <2>1, <2>2
<1> QED
  BY <1>1, <1>2, <1>4, <1>5 DEF f

(* a pointer to an object that leaves the list moves on (checkpointer) *)
LEMMA CheckedBeyond ==
  ASSUME NEW X, NEW s \in Seq(X), IsInjective(s), Nil \notin X, NEW o \in ToSet(s), NEW p, NEW q,
         p = o => q = After(s, o), p # o => q = p
  PROVE  /\ Beyond(Kept(s, X \ {o}), q) = Beyond(s, p) \ {o}
         /\ p \in ToSet(s) \cup {Nil} => q \in (ToSet(s) \ {o}) \cup {Nil}
<1>1. ToSet(s) \subseteq X /\ \A r : Beyond(s, r) \subseteq ToSet(s)
  BY Elements, BeyondOrder
<1>2. CASE p # o
  <2>1. Beyond(Kept(s, X \ {o}), p) = Beyond(s, p) \cap (X \ {o})
    BY <1>1, <1>2, BeyondKept
  <2> QED
    BY <1>1, <1>2, <2>1
<1>3. CASE p = o
  <2> DEFINE u == Upto(s, o) \o <<o>>
             f == From(s, o)
             r == SubSeq(s, Index(s, o) + 1, Len(s))
  <2>1. /\ Upto(s, o) \in Seq(X) /\ IsInjective(Upto(s, o))
        /\ ToSet(Upto(s, o)) = ToSet(s) \ Beyond(s, o) /\ o \in Beyond(s, o)
    BY UptoFacts, BeyondOrder
  <2>2. f \in Seq(X) /\ IsInjective(f) /\ ToSet(f) = Beyond(s, o) /\ f # <<>>
    BY <2>1, FromOrder, FirstFacts
  <2>3. /\ Index(s, o) \in 1..Len(s) /\ s[Index(s, o)] = o /\ Len(s) \in Nat
        /\ Len(f) = Len(s) + 1 - Index(s, o)
        /\ \A k \in 1..Len(f) : f[k] = s[k + Index(s, o) - 1]
    <3>1. Index(s, o) \in 1..Len(s) /\ s[Index(s, o)] = o /\ Len(s) \in Nat
      BY IndexFacts
    <3>2. /\ Len(f) = Len(s) + 1 - Index(s, o)
          /\ \A k \in 1..Len(f) : f[k] = s[k + Index(s, o) - 1]
      BY FromFacts
    <3> QED
      BY <3>1, <3>2
  <2>4. /\ r \in Seq(X) /\ Len(r) = Len(s) - Index(s, o)
        /\ \A k \in 1..(Len(s) - Index(s, o)) : r[k] = s[k + Index(s, o)]
    <3> DEFINE i == Index(s, o) + 1
    <3>1. i \in Int /\ Len(s) \in Int /\ \A k \in i..Len(s) : s[k] \in X
      BY <2>3
    <3> HIDE DEF i
    <3>2. /\ SubSeq(s, i, Len(s)) \in Seq(X)
          /\ Len(SubSeq(s, i, Len(s))) = IF i <= Len(s) THEN Len(s) - i + 1 ELSE 0
          /\ \A k \in 1..(Len(s) - i + 1) : SubSeq(s, i, Len(s))[k] = s[i + k - 1]
      BY <3>1, SubSeqProperties
    <3>3. i = Index(s, o) + 1
      BY DEF i
    <3> QED
      BY <2>3, <3>2, <3>3
  <2>5. Head(f) = o
    <3>1. 1 \in 1..Len(f) /\ f[1] = s[Index(s, o)]
      BY <2>3
    <3> QED
      BY <2>2, <2>3, <3>1
  <2>6. Tail(f) = r
    <3>1. /\ Tail(f) \in Seq(X) /\ Len(Tail(f)) = Len(f) - 1
          /\ \A k \in 1..Len(Tail(f)) : Tail(f)[k] = f[k + 1]
      BY <2>2, HeadTailProperties
    <3> HIDE DEF f, r
    <3>2. Len(Tail(f)) = Len(r)
      BY <2>3, <2>4, <3>1
    <3>3. \A k \in 1..Len(r) : Tail(f)[k] = r[k]
      <4> SUFFICES ASSUME NEW k \in 1..Len(r) PROVE Tail(f)[k] = r[k]
        OBVIOUS
      <4>1. k + 1 \in 1..Len(f) /\ k \in 1..Len(Tail(f)) /\ k \in 1..(Len(s) - Index(s, o))
            /\ k + 1 + Index(s, o) - 1 = k + Index(s, o)
        BY <2>3, <2>4, <3>2, SMTT(30)
      <4>2. Tail(f)[k] = s[k + 1 + Index(s, o) - 1]
        BY <2>3, <3>1, <4>1
      <4> QED
        BY <2>4, <4>1, <4>2
    <3> QED
      BY <2>4, <3>1, <3>2, <3>3, SeqEqual
  <2>7. IsInjective(r) /\ ToSet(r) = Beyond(s, o) \ {o}
    BY <2>2, <2>5, <2>6, Rested
  <2>8. First(r) \in ToSet(r) \cup {Nil} /\ (First(r) = Nil <=> ToSet(r) = {}) /\ After(s, o) = First(r)
    <3>1. Nil \notin ToSet(r) /\ r \in Seq(X)
      BY <1>1, <2>4, <2>7
    <3>2. After(s, o) = First(r)
      BY DEF After
    <3> HIDE DEF r
    <3>3. First(r) \in ToSet(r) \cup {Nil} /\ (First(r) = Nil <=> ToSet(r) = {})
      BY <3>1, FirstFacts
    <3> QED
      BY <3>2, <3>3
  <2> HIDE DEF f, r, u
  <2> DEFINE k == Kept(s, X \ {o})
  <2>9. k \in Seq(X) /\ IsInjective(k) /\ ToSet(k) = ToSet(s) \ {o}
    BY <1>1, KeptFacts, KeptInjective, KeptSet
  <2>10. \A x, y \in ToSet(k) : Before(k, x, y) <=> Before(s, x, y)
    <3>1. ToSet(k) \subseteq X \ {o}
      BY <1>1, <2>9
    <3> QED
      BY <3>1, KeptOrder
  <2> HIDE DEF k
  <2>11. Beyond(k, First(r)) = ToSet(r)
    <3>1. CASE ToSet(r) = {}
      <4>1. First(r) \notin ToSet(k)
        BY <1>1, <2>8, <2>9, <3>1
      <4> QED
        BY <2>9, <3>1, <4>1, CutAt
    <3>2. CASE ToSet(r) # {}
      <4>1. First(r) \in ToSet(r) /\ ToSet(r) \subseteq ToSet(k) /\ ToSet(r) \subseteq ToSet(s)
        BY <1>1, <2>7, <2>8, <2>9, <3>2
      <4>2. ASSUME NEW x \in ToSet(r), x # First(r) PROVE Before(k, First(r), x)
        <5>1. Before(r, First(r), x)
          BY <2>4, <2>7, <4>2, FirstIsBefore
        <5>2. PICK a, b \in 1..Len(r) : a < b /\ r[a] = First(r) /\ r[b] = x
          BY <5>1 DEF Before
        <5>3. /\ a + Index(s, o) \in 1..Len(s) /\ s[a + Index(s, o)] = First(r)
              /\ b + Index(s, o) \in 1..Len(s) /\ s[b + Index(s, o)] = x
              /\ a + Index(s, o) < b + Index(s, o)
          BY <2>3, <2>4, <5>2, SMTT(30)
        <5>4. Before(s, First(r), x)
          BY <5>3 DEF Before
        <5> QED
          BY <2>10, <4>1, <5>4
      <4>3. ASSUME NEW x, Before(k, First(r), x) PROVE x \in ToSet(r)
        <5>1. x \in ToSet(k) /\ Before(s, First(r), x) /\ x # o
          BY <2>9, <2>10, <4>1, <4>3, BeforeOrder
        <5>2. First(r) \in Beyond(s, o) /\ First(r) # o
          BY <2>7, <4>1
        <5>3. Before(s, o, First(r))
          BY <5>2, BeyondOrder
        <5>4. Before(s, o, x)
          BY <5>1, <5>3, BeforeOrder
        <5> QED
          BY <2>7, <5>1, <5>4, BeyondOrder
      <4> QED
        BY <2>9, <4>1, <4>2, <4>3, CutAt
    <3> QED
      BY <3>1, <3>2
  <2>12. q = First(r)
    BY <1>3, <2>8
  <2>13. Beyond(k, q) = Beyond(s, p) \ {o}
    BY <1>3, <2>7, <2>11, <2>12
  <2>14. q \in (ToSet(s) \ {o}) \cup {Nil}
    BY <1>1, <2>7, <2>8, <2>12
  <2> QED
    BY <2>13, <2>14 DEF k
<1> QED
  BY <1>2, <1>3

(* a pointer into a list that loses the elements of D, moved like          *)
(* finobjsur in separatetobefnz                                            *)
MovedOn(X, s, D, p) == IF p \in D THEN First(Kept(From(s, p), X \ D)) ELSE p

(* D leaves the list and the pointer has moved on: what was behind the     *)
(* pointer and did not leave is behind it still                            *)
LEMMA SeparatedBeyond ==
  ASSUME NEW X, NEW s \in Seq(X), IsInjective(s), Nil \notin X, NEW D, NEW p,
         p \in ToSet(s) \cup {Nil}, Nil \notin D
  PROVE  /\ \A x : x \in Beyond(Kept(s, X \ D), MovedOn(X, s, D, p))
                     <=> x \in Beyond(s, p) /\ x \notin D
         /\ MovedOn(X, s, D, p) \in (ToSet(s) \ D) \cup {Nil}
<1> DEFINE q == MovedOn(X, s, D, p)
<1>4. q = IF p \in D THEN First(Kept(From(s, p), X \ D)) ELSE p
  BY DEF MovedOn
<1> HIDE DEF q
<1>1. ToSet(s) \subseteq X /\ Beyond(s, p) \subseteq ToSet(s)
  BY Elements, BeyondOrder
<1>2. CASE p \notin D
  <2>1. p \in ToSet(s) => p \in X \ D
    BY <1>1, <1>2
  <2>2. Beyond(Kept(s, X \ D), p) = Beyond(s, p) \cap (X \ D)
    BY <2>1, BeyondKept
  <2> QED
    BY <1>1, <1>2, <1>4, <2>2 DEF q
<1>3. CASE p \in D
  <2> DEFINE f == From(s, p)
             g == Kept(f, X \ D)
             k == Kept(s, X \ D)
  <2>1. /\ f \in Seq(X) /\ IsInjective(f) /\ ToSet(f) = Beyond(s, p)
        /\ \A x, y \in ToSet(f) : Before(f, x, y) <=> Before(s, x, y)
    BY FromOrder
  <2> HIDE DEF f
  <2>2. /\ g \in Seq(X) /\ IsInjective(g) /\ ToSet(g) = ToSet(f) \cap (X \ D)
        /\ \A x, y \in X \ D : Before(g, x, y) <=> Before(f, x, y)
    BY <2>1, KeptFacts, KeptInjective, KeptSet, KeptOrder
  <2>3. /\ k \in Seq(X) /\ IsInjective(k) /\ ToSet(k) = ToSet(s) \cap (X \ D)
        /\ \A x, y \in X \ D : Before(k, x, y) <=> Before(s, x, y)
    BY KeptFacts, KeptInjective, KeptSet, KeptOrder
  <2> HIDE DEF g, k
  <2>4. ToSet(g) \subseteq ToSet(k) /\ ToSet(k) \subseteq X \ D
    BY <1>1, <2>1, <2>2, <2>3
  <2>5. First(g) \in ToSet(g) \cup {Nil} /\ (ToSet(g) = {} => First(g) = Nil)
        /\ (ToSet(g) # {} => First(g) \in ToSet(g))
    BY <2>2, FirstFacts
  <2>6. Beyond(k, First(g)) = ToSet(g)
    <3>1. CASE ToSet(g) = {}
      <4>1. First(g) \notin ToSet(k)
        BY <2>4, <2>5, <3>1
      <4> QED
        BY <2>3, <3>1, <4>1, CutAt
    <3>2. CASE ToSet(g) # {}
      <4>1. First(g) \in ToSet(g)
        BY <2>5, <3>2
      <4>2. ASSUME NEW x \in ToSet(g), x # First(g) PROVE Before(k, First(g), x)
        <5>1. Before(g, First(g), x)
          BY <2>2, <4>2, FirstIsBefore
        <5>2. Before(f, First(g), x)
          BY <2>2, <2>4, <4>1, <5>1
        <5>3. Before(s, First(g), x)
          BY <2>1, <2>2, <4>1, <5>2
        <5> QED
          BY <2>3, <2>4, <4>1, <5>3
      <4>3. ASSUME NEW x, Before(k, First(g), x) PROVE x \in ToSet(g)
        <5>1. x \in ToSet(k)
          BY <2>3, <4>3, BeforeOrder
        <5>2. Before(s, First(g), x)
          BY <2>3, <2>4, <4>1, <4>3, <5>1
        <5>3. First(g) \in Beyond(s, p) /\ p \in ToSet(s)
          BY <1>3, <2>1, <2>2, <4>1
        <5>4. First(g) = p \/ Before(s, p, First(g))
          BY <5>3, BeyondOrder
        <5>5. Before(s, p, x)
          BY <5>2, <5>4, BeforeOrder
        <5>6. x \in Beyond(s, p)
          BY <5>3, <5>5, BeyondOrder
        <5> QED
          BY <2>1, <2>2, <2>4, <5>1, <5>6
      <4> QED
        BY <2>3, <2>4, <4>1, <4>2, <4>3, CutAt
    <3> QED
      BY <3>1, <3>2
  <2>7. q = First(g)
    BY <1>3, <1>4 DEF f, g
  <2>8. \A x : x \in Beyond(k, q) <=> x \in Beyond(s, p) /\ x \notin D
    BY <1>1, <2>1, <2>2, <2>6, <2>7
  <2>9. q \in (ToSet(s) \ D) \cup {Nil}
    BY <2>3, <2>4, <2>5, <2>7
  <2> QED
    BY <2>8, <2>9 DEF k, q
<1> QED
  BY <1>2, <1>3 DEF q

-----------------------------------------------------------------------------
(* What is visited. *)

(* Visited is the least set with S in it that is closed under the visit *)
LEMMA VisitedFacts ==
  ASSUME refs \in [Obj -> SUBSET Obj], NEW S \in SUBSET Obj, NEW white
  PROVE  /\ S \subseteq Visited(S, white) /\ Visited(S, white) \subseteq Obj
         /\ ClosedUnderVisit(Visited(S, white), white)
         /\ \A T \in SUBSET Obj : S \subseteq T /\ ClosedUnderVisit(T, white)
                                    => Visited(S, white) \subseteq T
<1> DEFINE closed == {T \in SUBSET Obj : S \subseteq T /\ ClosedUnderVisit(T, white)}
           V == {o \in Obj : \A T \in closed : o \in T}
<1>1. Visited(S, white) = V
  BY DEF Visited
<1>2. S \subseteq V /\ V \subseteq Obj
  OBVIOUS
<1>3. \A T \in closed : V \subseteq T
  OBVIOUS
<1>4. ASSUME NEW x \in V, NEW y \in refs[x] \cap white PROVE y \in V
  <2>1. x \in Obj /\ y \in Obj
    BY <1>4
  <2>2. ASSUME NEW T \in closed PROVE y \in T
    BY <1>3, <1>4, <2>2 DEF ClosedUnderVisit
  <2> QED
    BY <2>1, <2>2
<1> HIDE DEF V
<1>5. ClosedUnderVisit(V, white)
  BY <1>4 DEF ClosedUnderVisit
<1> QED
  BY <1>1, <1>2, <1>3, <1>5

(* nothing but what it starts from and what is white is visited *)
LEMMA VisitedBound ==
  ASSUME refs \in [Obj -> SUBSET Obj], NEW S \in SUBSET Obj, NEW white \in SUBSET Obj
  PROVE  Visited(S, white) \subseteq S \cup white
<1>1. ClosedUnderVisit(S \cup white, white)
  BY DEF ClosedUnderVisit
<1>2. S \cup white \in SUBSET Obj /\ S \subseteq S \cup white
  OBVIOUS
<1> QED
  BY <1>1, <1>2, VisitedFacts

(* what the roots reach, and nothing that was not white or a seed *)
LEMMA StrongFacts ==
  ASSUME refs \in [Obj -> SUBSET Obj], running \in Threads,
         NEW seeds \in SUBSET Obj, NEW white \in SUBSET Obj
  PROVE  /\ seeds \subseteq StrongFrom(seeds, white)
         /\ {Main, running} \cap white \subseteq StrongFrom(seeds, white)
         /\ StrongFrom(seeds, white) \subseteq seeds \cup white
<1> DEFINE R == seeds \cup ({Main, running} \cap white)
<1>1. R \in SUBSET Obj /\ StrongFrom(seeds, white) = Visited(R, white)
  BY DEF StrongFrom
<1> HIDE DEF R
<1>2. R \subseteq Visited(R, white) /\ Visited(R, white) \subseteq R \cup white
  BY <1>1, VisitedFacts, VisitedBound
<1> QED
  BY <1>1, <1>2 DEF R

(* what is marked includes the finalizable objects, and all they refer to *)
LEMMA MarkedFacts ==
  ASSUME refs \in [Obj -> SUBSET Obj], tobefnz \in Seq(Obj),
         NEW strong \in SUBSET Obj, NEW sep \in Seq(Obj), NEW white \in SUBSET Obj
  PROVE  /\ strong \subseteq MarkedFrom(strong, sep, white)
         /\ ToSet(sep) \subseteq MarkedFrom(strong, sep, white)
         /\ ToSet(tobefnz) \cap white \subseteq MarkedFrom(strong, sep, white)
         /\ MarkedFrom(strong, sep, white) \subseteq strong \cup white \cup ToSet(sep)
         /\ \A x \in MarkedFrom(strong, sep, white) :
              refs[x] \cap white \subseteq MarkedFrom(strong, sep, white)
<1> DEFINE Q == strong \cup ToSet(sep) \cup (ToSet(tobefnz) \cap white)
<1>1. Q \in SUBSET Obj /\ MarkedFrom(strong, sep, white) = Visited(Q, white)
  BY Elements DEF MarkedFrom
<1> HIDE DEF Q
<1>2. /\ Q \subseteq Visited(Q, white) /\ Visited(Q, white) \subseteq Q \cup white
      /\ ClosedUnderVisit(Visited(Q, white), white)
  BY <1>1, VisitedFacts, VisitedBound
<1>3. \A x \in Visited(Q, white) : refs[x] \cap white \subseteq Visited(Q, white)
  BY <1>2 DEF ClosedUnderVisit
<1> QED
  BY <1>1, <1>2, <1>3 DEF Q

-----------------------------------------------------------------------------
(* The inductive invariant. *)

Colors == {"white", "gray", "black", "none"}
Ages == {"new", "survival", "old0", "old1", "old", "touched1", "touched2"}

TypeOK ==
  /\ color \in [Obj -> Colors] /\ age \in [Obj -> Ages] /\ refs \in [Obj -> SUBSET Obj]
  /\ gray \in SUBSET Obj /\ grayagain \in SUBSET Obj
  /\ allgc \in Seq(Obj) /\ finobj \in Seq(Obj) /\ tobefnz \in Seq(Obj)
  /\ kind \in {"inc", "gen"} /\ running \in Threads /\ asserted = TRUE

(* every object that is allocated is in one list, once *)
ListsInv ==
  /\ IsInjective(allgc) /\ IsInjective(finobj) /\ IsInjective(tobefnz)
  /\ ToSet(allgc) \cap ToSet(finobj) = {}
  /\ ToSet(allgc) \cap ToSet(tobefnz) = {}
  /\ ToSet(finobj) \cap ToSet(tobefnz) = {}
  /\ \A o \in Obj : o \in Heap <=> color[o] # "none"
  /\ Main \in Heap /\ running \in Heap

(* nothing dangles *)
RefsInv ==
  /\ \A o \in Heap : refs[o] \subseteq Heap
  /\ \A o \in Obj : o \notin Heap => refs[o] = {}

ModeInv ==
  /\ kind = "inc" => finobjold1 = Nil /\ \A o \in Obj : color[o] # "black"
  /\ closing # "open" => kind = "inc" /\ finobj = <<>>

(* the generations in a list: a barrier's old0 is before the old ones *)
Sections(s, a, sur, o1, rold) ==
  /\ {sur, o1, rold} \subseteq ToSet(s) \cup {Nil}
  /\ Beyond(s, rold) \subseteq Beyond(s, o1)
  /\ Beyond(s, o1) \subseteq Beyond(s, sur)
  /\ \A o \in Beyond(s, sur) : a[o] # "new"
  /\ \A o \in Beyond(s, o1) : a[o] \notin {"new", "survival", "old0"}
  /\ \A o \in Beyond(s, rold) : a[o] # "old1"
SectionsInv ==
  /\ Sections(allgc, age, survival, old1, reallyold)
  /\ Sections(finobj, age, finobjsur, finobjold1, finobjrold)
  /\ \A o \in ToSet(allgc) : age[o] = "old1" => firstold1 # Nil /\ o \in Beyond(allgc, firstold1)

(* colours, ages and gray lists agree *)
GrayInv ==
  /\ \A o \in Heap : color[o] = "white" <=> age[o] \in {"new", "survival"}
  /\ \A o \in Heap : color[o] = "gray" => o \in gray \cup grayagain
  /\ \A o \in Heap : age[o] \in {"touched1", "old0"} => color[o] = "gray"
  /\ \A o \in Heap : age[o] = "touched2" => color[o] = "black"
  /\ \A o \in Heap : age[o] \in {"touched1", "touched2"} => o \in Tables
  /\ \A o \in Heap : o \in gray <=> age[o] = "old0"
  /\ gray \subseteq Heap /\ grayagain \subseteq Heap
  /\ \A o \in Heap \ Threads : o \in grayagain <=> age[o] \in {"touched1", "touched2"}
  /\ \A o \in Heap \cap Threads : o \in grayagain <=> age[o] \in {"old", "old1"} /\ color[o] = "gray"
  /\ \A o \in Heap \cap Threads : age[o] = "old" => color[o] = "gray"

(* what the barriers are for: a black object refers to nothing new, and to *)
(* nothing young when it is old itself                                     *)
BlackInv ==
  \A o \in Heap \ Threads : color[o] = "black" =>
    \A v \in refs[o] : age[v] # "new" /\ (age[o] = "old" => age[v] # "survival")

GenInv == kind = "gen" => SectionsInv /\ GrayInv /\ BlackInv
IndInv == TypeOK /\ ListsInv /\ RefsInv /\ ModeInv /\ GenInv

-----------------------------------------------------------------------------
(* It implies what the run checks. *)

(* the lists hold objects *)
LEMMA HeapInObj == ASSUME TypeOK PROVE Heap \subseteq Obj
  BY Elements DEF TypeOK, Heap

(* what the run checks of a list, in terms of what is behind each pointer *)
LEMMA DelimitsIsSections ==
  ASSUME NEW s \in Seq(Obj), IsInjective(s), NEW sur, NEW o1, NEW rold,
         Sections(s, age, sur, o1, rold)
  PROVE  Delimits(s, sur, o1, rold)
<1>1. {sur, o1, rold} \subseteq ToSet(s) \cup {Nil} /\ Nil \notin Obj
  BY GenAssumption DEF Sections
<1>2. Beyond(s, rold) \subseteq Beyond(s, o1) /\ Beyond(s, o1) \subseteq Beyond(s, sur)
  BY DEF Sections
<1>3. Index(s, sur) <= Index(s, o1) /\ Index(s, o1) <= Index(s, rold)
  BY <1>1, <1>2, BeyondNested
<1>4. /\ \A o \in ToSet(From(s, sur)) : age[o] # "new"
      /\ \A o \in ToSet(From(s, o1)) : IsOld(age[o])
      /\ \A o \in ToSet(From(s, rold)) : age[o] # "old1"
  BY DEF Sections, IsOld, Beyond
<1> QED
  BY <1>1, <1>3, <1>4 DEF Delimits

(* the four state invariants follow *)
LEMMA IndInvImplies ==
  ASSUME IndInv
  PROVE  /\ ReachableAllocated /\ OldPointsToOld /\ GenerationsDelimited /\ GrayListsExact
<1>1. Heap \subseteq Obj /\ refs \in [Obj -> SUBSET Obj]
  BY HeapInObj DEF IndInv, TypeOK
<1>2. ReachableAllocated
  <2> DEFINE S == {Main, running} \cup ToSet(finobj) \cup ToSet(tobefnz)
  <2>1. S \subseteq Heap
    BY DEF IndInv, ListsInv, Heap
  <2>2. ClosedUnderVisit(Heap, Obj)
    BY DEF IndInv, RefsInv, ClosedUnderVisit
  <2>3. Needed = Visited(S, Obj)
    BY DEF Needed
  <2> HIDE DEF S
  <2>4. S \in SUBSET Obj /\ Heap \in SUBSET Obj
    BY <1>1, <2>1
  <2>5. Visited(S, Obj) \subseteq Heap
    BY <1>1, <2>1, <2>2, <2>4, VisitedFacts
  <2> QED
    BY <2>3, <2>5 DEF ReachableAllocated
<1>3. OldPointsToOld
  <2> SUFFICES ASSUME NEW o \in Heap, color[o] = "black", age[o] = "old", NEW v \in refs[o]
               PROVE  IsOld(age[v])
    BY DEF OldPointsToOld
  <2>1. kind = "gen"
    BY <1>1 DEF IndInv, TypeOK, ModeInv
  <2>2. o \notin Threads
    BY <2>1 DEF IndInv, GenInv, GrayInv
  <2>3. age[v] # "new" /\ age[v] # "survival"
    BY <2>1, <2>2 DEF IndInv, GenInv, BlackInv
  <2> QED
    BY <2>3 DEF IsOld
<1>4. GenerationsDelimited
  <2> SUFFICES ASSUME kind = "gen"
               PROVE  /\ Delimits(allgc, survival, old1, reallyold)
                      /\ Delimits(finobj, finobjsur, finobjold1, finobjrold)
                      /\ \A o \in ToSet(allgc) : age[o] = "old1"
                           => firstold1 # Nil /\ Index(allgc, firstold1) <= Index(allgc, o)
    BY DEF GenerationsDelimited
  <2>1. /\ allgc \in Seq(Obj) /\ finobj \in Seq(Obj) /\ IsInjective(allgc) /\ IsInjective(finobj)
        /\ Sections(allgc, age, survival, old1, reallyold)
        /\ Sections(finobj, age, finobjsur, finobjold1, finobjrold)
        /\ \A o \in ToSet(allgc) : age[o] = "old1" => firstold1 # Nil /\ o \in Beyond(allgc, firstold1)
    BY DEF IndInv, TypeOK, ListsInv, GenInv, SectionsInv
  <2>2. Delimits(allgc, survival, old1, reallyold)
    BY <2>1, DelimitsIsSections
  <2>3. Delimits(finobj, finobjsur, finobjold1, finobjrold)
    BY <2>1, DelimitsIsSections
  <2>4. \A o \in ToSet(allgc) : o \in Beyond(allgc, firstold1)
           <=> Index(allgc, firstold1) <= Index(allgc, o)
    BY <2>1, BeyondOrder
  <2> QED
    BY <2>1, <2>2, <2>3, <2>4
<1>5. GrayListsExact
  <2>1. asserted
    BY DEF IndInv, TypeOK
  <2> SUFFICES ASSUME kind = "gen"
               PROVE  /\ grayagain = {o \in Heap : age[o] \in {"touched1", "touched2"}}
                            \cup {th \in Threads \cap Heap : /\ age[th] \in {"old", "old1"}
                                                             /\ color[th] = "gray"}
                      /\ gray = {o \in Heap : age[o] = "old0"}
                      /\ \A o \in Heap : White(o) <=> ~IsOld(age[o])
                      /\ \A th \in Threads \cap Heap : age[th] = "old" => th \in grayagain
    BY <2>1 DEF GrayListsExact
  <2>2. GrayInv
    BY DEF IndInv, GenInv
  <2>3. \A o \in Heap : White(o) <=> ~IsOld(age[o])
    BY <2>2 DEF GrayInv, White, IsOld
  <2>4. gray = {o \in Heap : age[o] = "old0"}
    BY <2>2 DEF GrayInv
  <2>5. Tables \cap Threads = {}
    BY GenAssumption
  <2>6. \A th \in Threads \cap Heap : age[th] = "old" => th \in grayagain
    BY <2>2 DEF GrayInv
  <2>7. \A o : o \in grayagain <=> \/ o \in Heap /\ age[o] \in {"touched1", "touched2"}
                                   \/ /\ o \in Threads \cap Heap
                                      /\ age[o] \in {"old", "old1"} /\ color[o] = "gray"
    BY <2>2, <2>5 DEF GrayInv
  <2> QED
    BY <2>3, <2>4, <2>6, <2>7
<1> QED
  BY <1>2, <1>3, <1>4, <1>5

-----------------------------------------------------------------------------
(* It holds at the start and after every step of the program. *)

(* lists of one object and of none *)
LEMMA Singleton ==
  ASSUME NEW X, NEW x \in X
  PROVE  <<x>> \in Seq(X) /\ IsInjective(<<x>>) /\ ToSet(<<x>>) = {x}
<1>1. <<x>> \in Seq(X) /\ Len(<<x>>) = 1 /\ <<x>>[1] = x /\ DOMAIN <<x>> = 1..1
  OBVIOUS
<1>2. IsInjective(<<x>>)
  BY <1>1 DEF IsInjective
<1>3. \A y : y \in ToSet(<<x>>) <=> y = x
  BY <1>1 DEF ToSet
<1> QED
  BY <1>1, <1>2, <1>3

(* the list without objects *)
LEMMA EmptyList ==
  ASSUME NEW X
  PROVE  <<>> \in Seq(X) /\ IsInjective(<<>>) /\ ToSet(<<>>) = {}
BY DEF IsInjective, ToSet

(* lua_newstate: the main thread is alone in the heap *)
LEMMA InitIndInv == ASSUME Init PROVE IndInv
<1>1. Main \in Obj /\ Main \in Threads
  BY GenAssumption DEF Obj
<1>2. /\ allgc \in Seq(Obj) /\ IsInjective(allgc) /\ ToSet(allgc) = {Main}
      /\ finobj \in Seq(Obj) /\ IsInjective(finobj) /\ ToSet(finobj) = {}
      /\ tobefnz \in Seq(Obj) /\ IsInjective(tobefnz) /\ ToSet(tobefnz) = {}
  BY <1>1, Singleton, EmptyList DEF Init
<1>3. Heap = {Main}
  BY <1>2 DEF Heap
<1>4. TypeOK
  BY <1>1, <1>2 DEF Init, TypeOK, Colors, Ages
<1>5. ListsInv
  BY <1>1, <1>2, <1>3 DEF Init, ListsInv
<1>6. RefsInv /\ ModeInv /\ GenInv
  <2>1. RefsInv
    BY <1>1, <1>3 DEF Init, RefsInv
  <2>2. ModeInv
    BY <1>1 DEF Init, ModeInv
  <2>3. GenInv
    BY DEF Init, GenInv
  <2> QED
    BY <2>1, <2>2, <2>3
<1> QED
  BY <1>4, <1>5, <1>6 DEF IndInv

(* the heap is what the lists hold *)
LEMMA SameHeap == ASSUME UNCHANGED lists PROVE Heap' = Heap
  BY DEF Heap, lists

(* the generations depend on the lists, the pointers and the ages *)
LEMMA SameSections ==
  ASSUME SectionsInv, UNCHANGED <<age, lists, pointers>> PROVE SectionsInv'
  BY DEF SectionsInv, Sections, lists, pointers

(* references move between stacks, or disappear *)
LEMMA RefsChange ==
  ASSUME IndInv, refs' \in [Obj -> SUBSET Obj],
         \A o \in Heap : refs'[o] \subseteq Heap,
         \A o \in Obj : o \notin Heap => refs'[o] = {},
         \A o \in Obj \ Threads : refs'[o] \subseteq refs[o],
         running' \in Threads \cap Heap,
         UNCHANGED <<marks, lists, pointers, kind, closing, asserted>>
  PROVE  IndInv'
<1>1. Heap' = Heap /\ Heap \subseteq Obj
  BY SameHeap, HeapInObj DEF IndInv
<1>2. UNCHANGED <<color, age, gray, grayagain, allgc, finobj, tobefnz, finobjold1>>
  BY DEF marks, lists, pointers
<1>3. TypeOK'
  BY <1>2 DEF IndInv, TypeOK
<1>4. ListsInv'
  BY <1>1, <1>2 DEF IndInv, ListsInv
<1>5. RefsInv'
  BY <1>1 DEF RefsInv
<1>6. ModeInv'
  BY <1>2 DEF IndInv, ModeInv
<1>7. ASSUME kind' = "gen" PROVE SectionsInv' /\ GrayInv' /\ BlackInv'
  <2>1. SectionsInv /\ GrayInv /\ BlackInv
    BY <1>7 DEF IndInv, GenInv
  <2>2. SectionsInv'
    BY <1>2, <2>1, SameSections
  <2>3. GrayInv'
    BY <1>1, <1>2, <2>1 DEF GrayInv
  <2>4. BlackInv'
    BY <1>1, <1>2, <2>1 DEF BlackInv
  <2> QED
    BY <2>2, <2>3, <2>4
<1> QED
  BY <1>3, <1>4, <1>5, <1>6, <1>7 DEF IndInv, GenInv

(* references move or go, another thread runs *)
LEMMA MovesIndInv ==
  ASSUME IndInv,
         \/ \E x, v \in Obj : Load(x, v) \/ Drop(x, v) \/ XMove(x, v)
         \/ \E th \in Threads : Switch(th)
         \/ FinReturn \/ BatchDone
  PROVE  IndInv'
<1>1. /\ running \in Threads \cap Heap /\ Heap \subseteq Obj /\ Main \in Threads \cap Heap
      /\ refs \in [Obj -> SUBSET Obj]
      /\ \A o \in Heap : refs[o] \subseteq Heap
      /\ \A o \in Obj : o \notin Heap => refs[o] = {}
  BY HeapInObj, GenAssumption DEF IndInv, TypeOK, ListsInv, RefsInv
<1>2. Stack \subseteq Heap /\ Threads \subseteq Obj
  BY <1>1 DEF Stack, Obj
<1>3. ASSUME NEW x \in Obj, NEW v \in Obj, Load(x, v) PROVE IndInv'
  <2>1. /\ x \in Stack /\ v \in refs[x] /\ refs' = [refs EXCEPT ![running] = @ \cup {v}]
        /\ UNCHANGED <<marks, lists, pointers, kind, closing, asserted, running>>
    BY <1>3 DEF Load, mode
  <2>2. v \in Heap
    BY <1>1, <1>2, <2>1
  <2> QED
    BY <1>1, <2>1, <2>2, RefsChange
<1>4. ASSUME NEW x \in Obj, NEW v \in Obj, Drop(x, v) PROVE IndInv'
  <2>1. /\ v \in refs[x] /\ refs' = [refs EXCEPT ![x] = @ \ {v}]
        /\ UNCHANGED <<marks, lists, pointers, kind, closing, asserted, running>>
    BY <1>4 DEF Drop, mode
  <2> QED
    BY <1>1, <2>1, RefsChange
<1>5. ASSUME NEW th \in Obj, NEW v \in Obj, XMove(th, v) PROVE IndInv'
  <2>1. /\ th \in Stack /\ th \in Threads /\ th # running /\ v \in Stack
        /\ refs' = [refs EXCEPT ![running] = @ \ {v}, ![th] = @ \cup {v}]
        /\ UNCHANGED <<marks, lists, pointers, kind, closing, asserted, running>>
    BY <1>5 DEF XMove, mode
  <2>2. v \in Heap /\ th \in Heap
    BY <1>2, <2>1
  <2>3. \A o \in Obj : refs'[o] = IF o = running THEN refs[o] \ {v}
                                  ELSE IF o = th THEN refs[o] \cup {v} ELSE refs[o]
    BY <1>1, <2>1
  <2>4. refs' \in [Obj -> SUBSET Obj]
    BY <1>1, <2>1
  <2> QED
    BY <1>1, <2>1, <2>2, <2>3, <2>4, RefsChange
<1>6. ASSUME NEW th \in Threads, Switch(th) PROVE IndInv'
  <2>1. /\ th \in Stack \cup {Main} /\ running' = th
        /\ UNCHANGED <<marks, refs, lists, pointers, kind, closing, asserted>>
    BY <1>6 DEF Switch, mode
  <2>2. th \in Threads \cap Heap
    BY <1>1, <1>2, <2>1
  <2> QED
    BY <1>1, <2>1, <2>2, RefsChange
<1>7. ASSUME FinReturn \/ BatchDone PROVE IndInv'
  <2>1. UNCHANGED <<marks, refs, lists, pointers, kind, closing, asserted, running>>
    BY <1>7 DEF FinReturn, BatchDone, mode
  <2> QED
    BY <1>1, <2>1, RefsChange
<1> QED
  BY <1>3, <1>4, <1>5, <1>6, <1>7

(* what comes to the front of a list leaves its generations as they are *)
LEMMA SectionsPrepended ==
  ASSUME NEW s \in Seq(Obj), IsInjective(s), NEW o \in Obj \ ToSet(s), NEW a, NEW b,
         NEW sur, NEW o1, NEW rold, Sections(s, a, sur, o1, rold),
         \A x \in ToSet(s) : b[x] = a[x]
  PROVE  Sections(<<o>> \o s, b, sur, o1, rold)
<1>1. {sur, o1, rold} \subseteq ToSet(s) \cup {Nil} /\ Nil # o
  BY GenAssumption DEF Sections
<1>2. \A p \in {sur, o1, rold} : p # o
  BY <1>1
<1>3. \A p \in {sur, o1, rold} : Beyond(<<o>> \o s, p) = Beyond(s, p) /\ Beyond(s, p) \subseteq ToSet(s)
  BY <1>2, BeyondPrepended, BeyondOrder
<1>4. ToSet(<<o>> \o s) = {o} \cup ToSet(s)
  BY Prepended
<1> QED
  BY <1>1, <1>3, <1>4 DEF Sections

(* ages that only a barrier changes *)
LEMMA SectionsAges ==
  ASSUME NEW s \in Seq(Obj), IsInjective(s), NEW a, NEW b,
         NEW sur, NEW o1, NEW rold, Sections(s, a, sur, o1, rold),
         \A x \in ToSet(s) : \/ b[x] = a[x] \/ b[x] = "touched1"
                             \/ b[x] = "old0" /\ a[x] \in {"new", "survival"}
  PROVE  Sections(s, b, sur, o1, rold)
<1>1. \A p : Beyond(s, p) \subseteq ToSet(s)
  BY BeyondOrder
<1>2. \A x \in Beyond(s, sur) : b[x] # "new"
  BY <1>1 DEF Sections
<1>3. \A x \in Beyond(s, o1) : b[x] \notin {"new", "survival", "old0"}
  BY <1>1 DEF Sections
<1>4. \A x \in Beyond(s, rold) : b[x] # "old1"
  BY <1>1 DEF Sections
<1> QED
  BY <1>2, <1>3, <1>4 DEF Sections

(* checkpointer: o leaves the list and the pointer moves to what is behind o *)
LEMMA CheckedPointer ==
  ASSUME NEW s \in Seq(Obj), IsInjective(s), NEW o \in ToSet(s)
  PROVE  /\ Beyond(Kept(s, Obj \ {o}), After(s, o)) = Beyond(s, o) \ {o}
         /\ After(s, o) \in (ToSet(s) \ {o}) \cup {Nil}
         /\ \A p : p # o => Beyond(Kept(s, Obj \ {o}), p) = Beyond(s, p) \ {o}
<1>1. Nil \notin Obj
  BY GenAssumption
<1> DEFINE q == After(s, o)
<1>2. Beyond(Kept(s, Obj \ {o}), q) = Beyond(s, o) \ {o}
  BY <1>1, CheckedBeyond
<1>3. q \in (ToSet(s) \ {o}) \cup {Nil}
  BY <1>1, CheckedBeyond
<1>4. ASSUME NEW p, p # o PROVE Beyond(Kept(s, Obj \ {o}), p) = Beyond(s, p) \ {o}
  <2>1. Beyond(s, p) \subseteq Obj /\ (p \in ToSet(s) => p \in Obj \ {o})
    BY <1>4, BeyondOrder, Elements
  <2>2. Beyond(Kept(s, Obj \ {o}), p) = Beyond(s, p) \cap (Obj \ {o})
    BY <2>1, BeyondKept
  <2> QED
    BY <2>1, <2>2
<1> QED
  BY <1>2, <1>3, <1>4

(* an object leaves the list and the pointers to it move on *)
Moved(s, o, p) == IF p = o THEN After(s, o) ELSE p

(* the same for any pointer into the list *)
LEMMA MovedBeyond ==
  ASSUME NEW s \in Seq(Obj), IsInjective(s), NEW o \in ToSet(s), NEW p
  PROVE  /\ Beyond(Kept(s, Obj \ {o}), Moved(s, o, p)) = Beyond(s, p) \ {o}
         /\ p \in ToSet(s) \cup {Nil} => Moved(s, o, p) \in (ToSet(s) \ {o}) \cup {Nil}
<1>1. CASE p = o
  <2>1. Moved(s, o, p) = After(s, o)
    BY <1>1 DEF Moved
  <2> QED
    BY <1>1, <2>1, CheckedPointer
<1>2. CASE p # o
  <2>1. Moved(s, o, p) = p
    BY <1>2 DEF Moved
  <2>2. Beyond(Kept(s, Obj \ {o}), p) = Beyond(s, p) \ {o}
    BY <1>2, CheckedPointer
  <2> QED
    BY <1>2, <2>1, <2>2
<1> QED
  BY <1>1, <1>2

(* the generations of the list o leaves *)
LEMMA SectionsChecked ==
  ASSUME NEW s \in Seq(Obj), IsInjective(s), NEW o \in ToSet(s), NEW a,
         NEW sur, NEW o1, NEW rold, Sections(s, a, sur, o1, rold)
  PROVE  Sections(Kept(s, Obj \ {o}), a, Moved(s, o, sur), Moved(s, o, o1), Moved(s, o, rold))
<1> DEFINE k == Kept(s, Obj \ {o})
           m(p) == Moved(s, o, p)
<1>1. \A x : x \in ToSet(k) <=> x \in ToSet(s) /\ x # o
  <2>1. ToSet(s) \subseteq Obj
    BY Elements
  <2> QED
    BY <2>1, KeptSet
<1>2. \A p \in {sur, o1, rold} : Beyond(k, m(p)) = Beyond(s, p) \ {o}
  BY MovedBeyond
<1>3. \A p \in {sur, o1, rold} : m(p) \in (ToSet(s) \ {o}) \cup {Nil}
  <2>1. \A p \in {sur, o1, rold} : p \in ToSet(s) \cup {Nil}
    BY DEF Sections
  <2> QED
    BY <2>1, MovedBeyond
<1> HIDE DEF k, m
<1>4. {m(sur), m(o1), m(rold)} \subseteq ToSet(k) \cup {Nil}
  BY <1>1, <1>3
<1>5. Beyond(k, m(rold)) \subseteq Beyond(k, m(o1)) /\ Beyond(k, m(o1)) \subseteq Beyond(k, m(sur))
  BY <1>2 DEF Sections
<1>6. /\ \A x \in Beyond(k, m(sur)) : a[x] # "new"
      /\ \A x \in Beyond(k, m(o1)) : a[x] \notin {"new", "survival", "old0"}
      /\ \A x \in Beyond(k, m(rold)) : a[x] # "old1"
  BY <1>2 DEF Sections
<1>7. Sections(k, a, m(sur), m(o1), m(rold))
  BY <1>4, <1>5, <1>6 DEF Sections
<1> QED
  BY <1>7 DEF k, m

(* luaC_newobj: a new white object is before every pointer *)
LEMMA NewIndInv ==
  ASSUME IndInv, NEW o \in Obj, New(o)
  PROVE  IndInv'
<1>1. /\ color[o] = "none" /\ color' = [color EXCEPT ![o] = "white"]
      /\ age' = [age EXCEPT ![o] = "new"] /\ allgc' = <<o>> \o allgc
      /\ refs' = [refs EXCEPT ![running] = @ \cup {o}]
      /\ UNCHANGED <<gray, grayagain, finobj, tobefnz, pointers, kind, closing, running, asserted>>
  BY DEF New, mode
<1>2. TypeOK /\ Heap \subseteq Obj /\ running \in Obj /\ running \in Heap
  BY HeapInObj DEF IndInv, TypeOK, ListsInv, Obj
<1>3. /\ o \notin Heap /\ o \notin ToSet(allgc) /\ o \notin ToSet(finobj) /\ o \notin ToSet(tobefnz)
      /\ allgc \in Seq(Obj) /\ IsInjective(allgc) /\ finobj \in Seq(Obj) /\ IsInjective(finobj)
  BY <1>1 DEF IndInv, TypeOK, ListsInv, Heap
<1>4. allgc' \in Seq(Obj) /\ IsInjective(allgc') /\ ToSet(allgc') = {o} \cup ToSet(allgc)
  BY <1>1, <1>3, Prepended
<1>5. \A x : x \in Heap' <=> x = o \/ x \in Heap
  BY <1>1, <1>4 DEF Heap
<1>6. TypeOK'
  <2>1. color' \in [Obj -> Colors] /\ age' \in [Obj -> Ages]
    BY <1>1, <1>2 DEF TypeOK, Colors, Ages
  <2>2. refs' \in [Obj -> SUBSET Obj]
    BY <1>1, <1>2 DEF TypeOK
  <2> QED
    BY <1>1, <1>2, <1>4, <2>1, <2>2 DEF TypeOK
<1>7. ListsInv'
  <2>1. /\ IsInjective(allgc') /\ IsInjective(finobj') /\ IsInjective(tobefnz')
        /\ ToSet(allgc') \cap ToSet(finobj') = {}
        /\ ToSet(allgc') \cap ToSet(tobefnz') = {}
        /\ ToSet(finobj') \cap ToSet(tobefnz') = {}
    BY <1>1, <1>3, <1>4 DEF IndInv, ListsInv
  <2>2. \A x \in Obj : x \in Heap' <=> color'[x] # "none"
    BY <1>1, <1>2, <1>5 DEF IndInv, TypeOK, ListsInv
  <2> QED
    BY <1>1, <1>5, <2>1, <2>2 DEF IndInv, ListsInv
<1>8. \A x \in Obj : refs'[x] = IF x = running THEN refs[x] \cup {o} ELSE refs[x]
  BY <1>1, <1>2 DEF TypeOK
<1>9. RefsInv'
  BY <1>2, <1>3, <1>5, <1>8 DEF IndInv, RefsInv
<1>10. ModeInv'
  BY <1>1, <1>2 DEF IndInv, ModeInv, TypeOK, pointers
<1>11. ASSUME kind = "gen" PROVE SectionsInv' /\ GrayInv' /\ BlackInv'
  <2>1. SectionsInv /\ GrayInv /\ BlackInv
    BY <1>11 DEF IndInv, GenInv
  <2>2. /\ \A x \in Obj : x # o => age'[x] = age[x] /\ color'[x] = color[x]
        /\ age'[o] = "new" /\ color'[o] = "white"
    BY <1>1, <1>2 DEF TypeOK
  <2>3. Sections(allgc', age', survival, old1, reallyold)
    <3>1. \A x \in ToSet(allgc) : age'[x] = age[x]
      BY <1>3, <2>2, Elements
    <3> QED
      BY <1>1, <1>3, <2>1, <3>1, SectionsPrepended DEF SectionsInv
  <2>4. Sections(finobj, age', finobjsur, finobjold1, finobjrold)
    <3>1. \A x \in ToSet(finobj) : age'[x] = age[x]
      BY <1>3, <2>2, Elements
    <3> QED
      BY <1>3, <2>1, <3>1, SectionsAges DEF SectionsInv
  <2>5. ASSUME NEW x \in ToSet(allgc'), age'[x] = "old1"
        PROVE  firstold1 # Nil /\ x \in Beyond(allgc', firstold1)
    <3>1. x \in ToSet(allgc) /\ age[x] = "old1"
      BY <1>3, <1>4, <2>2, <2>5, Elements
    <3>2. firstold1 # Nil /\ x \in Beyond(allgc, firstold1)
      BY <2>1, <3>1 DEF SectionsInv
    <3>3. firstold1 # o
      BY <1>3, <3>2, BeyondOrder
    <3>4. Beyond(allgc', firstold1) = Beyond(allgc, firstold1)
      BY <1>1, <1>3, <3>3, BeyondPrepended
    <3> QED
      BY <3>2, <3>4
  <2>6. SectionsInv'
    BY <1>1, <2>3, <2>4, <2>5 DEF SectionsInv, pointers
  <2>7. GrayInv'
    BY <1>1, <1>2, <1>3, <1>5, <2>1, <2>2 DEF GrayInv
  <2>8. BlackInv'
    <3> SUFFICES ASSUME NEW x \in Heap' \ Threads, color'[x] = "black", NEW v \in refs'[x]
                 PROVE  age'[v] # "new" /\ (age'[x] = "old" => age'[v] # "survival")
      BY DEF BlackInv
    <3>1. x # o /\ x \in Heap \ Threads /\ x # running
      BY <1>2, <1>5, <2>2 DEF TypeOK
    <3>2. color[x] = "black" /\ v \in refs[x] /\ v \in Heap
      BY <1>2, <1>8, <2>2, <3>1 DEF IndInv, RefsInv
    <3>3. v # o /\ age'[v] = age[v] /\ age'[x] = age[x]
      BY <1>2, <1>3, <2>2, <3>1, <3>2
    <3> QED
      BY <2>1, <3>1, <3>2, <3>3 DEF BlackInv
  <2> QED
    BY <2>6, <2>7, <2>8
<1> QED
  BY <1>1, <1>6, <1>7, <1>9, <1>10, <1>11 DEF IndInv, GenInv

(* what a barrier changes leaves the heap as it is *)
LEMMA StoreFacts ==
  ASSUME IndInv, NEW o \in Obj, NEW v \in Obj, Store(o, v)
  PROVE  /\ o \in Heap \ Threads /\ v \in Heap /\ o # v /\ o \in Obj
         /\ Heap' = Heap /\ Heap \subseteq Obj
         /\ \A x \in Obj : refs'[x] = IF x = o THEN refs[o] \cup {v} ELSE refs[x]
         /\ refs' \in [Obj -> SUBSET Obj] /\ RefsInv'
         /\ UNCHANGED <<allgc, finobj, tobefnz, lists, pointers, kind, closing, running, finobjold1>>
         /\ IF o \in Tables THEN BarrierBack(o, v) ELSE BarrierForward(o, v)
<1>1. /\ o \in Stack \ Threads /\ v \in Stack /\ v # o
      /\ refs' = [refs EXCEPT ![o] = @ \cup {v}]
      /\ UNCHANGED <<lists, pointers, mode, running>>
      /\ IF o \in Tables THEN BarrierBack(o, v) ELSE BarrierForward(o, v)
  BY DEF Store
<1>2. /\ refs \in [Obj -> SUBSET Obj] /\ running \in Heap /\ Heap \subseteq Obj
      /\ \A x \in Heap : refs[x] \subseteq Heap
      /\ \A x \in Obj : x \notin Heap => refs[x] = {}
  BY HeapInObj DEF IndInv, TypeOK, ListsInv, RefsInv
<1>3. Stack \subseteq Heap
  BY <1>2 DEF Stack
<1>4. UNCHANGED <<allgc, finobj, tobefnz, kind, closing, finobjold1>>
  BY <1>1 DEF lists, mode, pointers
<1>5. Heap' = Heap
  BY <1>1, SameHeap
<1>6. \A x \in Obj : refs'[x] = IF x = o THEN refs[o] \cup {v} ELSE refs[x]
  BY <1>1, <1>2
<1>7. refs' \in [Obj -> SUBSET Obj]
  BY <1>1, <1>2
<1>8. RefsInv'
  BY <1>1, <1>2, <1>3, <1>5, <1>6 DEF RefsInv
<1> QED
  BY <1>1, <1>2, <1>3, <1>4, <1>5, <1>6, <1>7, <1>8

(* a store that no barrier has to see: the object is not black, or the     *)
(* value not white                                                         *)
LEMMA StoreUnwatched ==
  ASSUME IndInv, NEW o \in Obj, NEW v \in Obj, Store(o, v), ~Hit(o, v)
  PROVE  IndInv'
<1>1. /\ o \in Heap \ Threads /\ v \in Heap /\ Heap' = Heap /\ Heap \subseteq Obj
      /\ \A x \in Obj : refs'[x] = IF x = o THEN refs[o] \cup {v} ELSE refs[x]
      /\ refs' \in [Obj -> SUBSET Obj] /\ RefsInv'
      /\ UNCHANGED <<allgc, finobj, tobefnz, lists, pointers, kind, closing, running, finobjold1>>
  BY StoreFacts
<1>2. UNCHANGED <<color, age, gray, grayagain, asserted>>
  BY StoreFacts DEF BarrierBack, BarrierForward, marks
<1>3. color[o] = "black" => color[v] # "white"
  BY DEF Hit, White
<1>4. TypeOK'
  BY <1>1, <1>2 DEF IndInv, TypeOK
<1>5. ListsInv'
  BY <1>1, <1>2 DEF IndInv, ListsInv
<1>6. ModeInv'
  BY <1>1, <1>2 DEF IndInv, ModeInv
<1>7. ASSUME kind = "gen" PROVE SectionsInv' /\ GrayInv' /\ BlackInv'
  <2>1. SectionsInv /\ GrayInv /\ BlackInv
    BY <1>7 DEF IndInv, GenInv
  <2>2. SectionsInv'
    BY <1>1, <1>2, <2>1, SameSections
  <2>3. GrayInv'
    BY <1>1, <1>2, <2>1 DEF GrayInv
  <2>4. BlackInv'
    <3> SUFFICES ASSUME NEW x \in Heap \ Threads, color[x] = "black", NEW y \in refs'[x]
                 PROVE  age[y] # "new" /\ (age[x] = "old" => age[y] # "survival")
      BY <1>1, <1>2 DEF BlackInv
    <3>1. CASE y \in refs[x]
      BY <2>1, <3>1 DEF BlackInv
    <3>2. CASE y \notin refs[x]
      <4>1. x = o /\ y = v
        BY <1>1, <3>2
      <4>2. age[v] \notin {"new", "survival"}
        BY <1>1, <1>3, <2>1, <4>1 DEF GrayInv
      <4> QED
        BY <4>1, <4>2
    <3> QED
      BY <3>1, <3>2
  <2> QED
    BY <2>2, <2>3, <2>4
<1> QED
  BY <1>1, <1>4, <1>5, <1>6, <1>7 DEF IndInv, GenInv

(* only a black object makes a barrier work, and only generations have any *)
LEMMA HitFacts ==
  ASSUME IndInv, NEW o \in Heap \ Threads, NEW v \in Heap, Hit(o, v)
  PROVE  /\ kind = "gen" /\ SectionsInv /\ GrayInv /\ BlackInv
         /\ color[o] = "black" /\ color[v] = "white"
         /\ age[o] \notin {"new", "survival", "touched1", "old0"}
         /\ age[v] \in {"new", "survival"}
         /\ o \in grayagain <=> age[o] = "touched2"
<1>1. color[o] = "black" /\ color[v] = "white" /\ o \in Obj
  BY HeapInObj DEF Hit, White, IndInv
<1>2. kind = "gen"
  BY <1>1 DEF IndInv, TypeOK, ModeInv
<1>3. SectionsInv /\ GrayInv /\ BlackInv
  BY <1>2 DEF IndInv, GenInv
<1>4. /\ age[v] \in {"new", "survival"} /\ age[o] \notin {"new", "survival", "touched1", "old0"}
      /\ o \in grayagain <=> age[o] = "touched2"
  BY <1>1, <1>3 DEF GrayInv
<1> QED
  BY <1>1, <1>2, <1>3, <1>4

(* luaC_barrierback_ *)
LEMMA StoreBack ==
  ASSUME IndInv, NEW o \in Obj, NEW v \in Obj, Store(o, v), Hit(o, v), o \in Tables
  PROVE  IndInv'
<1>1. /\ o \in Heap \ Threads /\ v \in Heap /\ o # v /\ Heap' = Heap /\ Heap \subseteq Obj
      /\ \A x \in Obj : refs'[x] = IF x = o THEN refs[o] \cup {v} ELSE refs[x]
      /\ refs' \in [Obj -> SUBSET Obj] /\ RefsInv'
      /\ UNCHANGED <<allgc, finobj, tobefnz, lists, pointers, kind, closing, running, finobjold1>>
      /\ BarrierBack(o, v)
  BY StoreFacts
<1>2. /\ kind = "gen" /\ SectionsInv /\ GrayInv /\ BlackInv
      /\ color[o] = "black" /\ color[v] = "white"
      /\ age[o] \notin {"new", "survival", "touched1", "old0"}
      /\ age[v] \in {"new", "survival"}
      /\ o \in grayagain <=> age[o] = "touched2"
  BY <1>1, HitFacts
<1>3. IsOld(age[o]) /\ age[o] # "touched1"
  BY <1>2 DEF IsOld
<1>4. /\ color' = [color EXCEPT ![o] = "gray"] /\ grayagain' = grayagain \cup {o}
      /\ age' = [age EXCEPT ![o] = "touched1"] /\ gray' = gray
      /\ asserted' = (/\ asserted
                      /\ (kind = "gen") <=> (IsOld(age[o]) /\ age[o] # "touched1")
                      /\ age[o] = "touched2" <=> o \in grayagain)
  BY <1>1, <1>3 DEF BarrierBack
<1>5. TypeOK
  BY DEF IndInv
<1>6. asserted' = TRUE
  <2>1. asserted = TRUE
    BY <1>5 DEF TypeOK
  <2>2. (kind = "gen") <=> (IsOld(age[o]) /\ age[o] # "touched1")
    BY <1>2, <1>3
  <2>3. age[o] = "touched2" <=> o \in grayagain
    BY <1>2
  <2> QED
    BY <1>4, <2>1, <2>2, <2>3
<1>7. \A x \in Obj : /\ color'[x] = IF x = o THEN "gray" ELSE color[x]
                     /\ age'[x] = IF x = o THEN "touched1" ELSE age[x]
  BY <1>4, <1>5 DEF TypeOK
<1>8. TypeOK'
  <2>1. color' \in [Obj -> Colors] /\ age' \in [Obj -> Ages]
    BY <1>4, <1>5 DEF TypeOK, Colors, Ages
  <2>2. gray' \in SUBSET Obj /\ grayagain' \in SUBSET Obj
    BY <1>4, <1>5 DEF TypeOK
  <2> QED
    BY <1>1, <1>5, <1>6, <2>1, <2>2 DEF TypeOK
<1>9. ListsInv'
  <2>1. \A x \in Obj : x \in Heap <=> color'[x] # "none"
    BY <1>1, <1>7 DEF IndInv, ListsInv
  <2> QED
    BY <1>1, <2>1 DEF IndInv, ListsInv
<1>10. ModeInv'
  BY <1>1, <1>2 DEF IndInv, ModeInv
<1>11. SectionsInv'
  <2>1. /\ allgc \in Seq(Obj) /\ IsInjective(allgc) /\ finobj \in Seq(Obj) /\ IsInjective(finobj)
    BY DEF IndInv, TypeOK, ListsInv
  <2>2. ToSet(allgc) \subseteq Obj /\ ToSet(finobj) \subseteq Obj
    BY <2>1, Elements
  <2>3. Sections(allgc, age', survival, old1, reallyold)
    BY <1>2, <1>7, <2>1, <2>2, SectionsAges DEF SectionsInv
  <2>4. Sections(finobj, age', finobjsur, finobjold1, finobjrold)
    BY <1>2, <1>7, <2>1, <2>2, SectionsAges DEF SectionsInv
  <2>5. \A x \in ToSet(allgc) : age'[x] = "old1" => firstold1 # Nil /\ x \in Beyond(allgc, firstold1)
    BY <1>2, <1>7, <2>2 DEF SectionsInv
  <2> QED
    BY <1>1, <2>3, <2>4, <2>5 DEF SectionsInv, pointers
<1>12. GrayInv'
  <2>1. \A x \in Heap : color'[x] = "white" <=> age'[x] \in {"new", "survival"}
    BY <1>1, <1>2, <1>7 DEF GrayInv
  <2>2. \A x \in Heap : color'[x] = "gray" => x \in gray' \cup grayagain'
    BY <1>1, <1>2, <1>4, <1>7 DEF GrayInv
  <2>3. /\ \A x \in Heap : age'[x] \in {"touched1", "old0"} => color'[x] = "gray"
        /\ \A x \in Heap : age'[x] = "touched2" => color'[x] = "black"
        /\ \A x \in Heap : age'[x] \in {"touched1", "touched2"} => x \in Tables
        /\ \A x \in Heap : x \in gray' <=> age'[x] = "old0"
        /\ gray' \subseteq Heap /\ grayagain' \subseteq Heap
    BY <1>1, <1>2, <1>4, <1>7 DEF GrayInv
  <2>4. /\ \A x \in Heap \ Threads : x \in grayagain' <=> age'[x] \in {"touched1", "touched2"}
        /\ \A x \in Heap \cap Threads :
             x \in grayagain' <=> age'[x] \in {"old", "old1"} /\ color'[x] = "gray"
        /\ \A x \in Heap \cap Threads : age'[x] = "old" => color'[x] = "gray"
    BY <1>1, <1>2, <1>4, <1>7 DEF GrayInv
  <2> QED
    BY <1>1, <2>1, <2>2, <2>3, <2>4 DEF GrayInv
<1>13. BlackInv'
  <2> SUFFICES ASSUME NEW x \in Heap \ Threads, color'[x] = "black", NEW y \in refs'[x]
               PROVE  age'[y] # "new" /\ (age'[x] = "old" => age'[y] # "survival")
    BY <1>1 DEF BlackInv
  <2>1. x # o /\ color[x] = "black" /\ age'[x] = age[x] /\ y \in refs[x] /\ y \in Obj
    BY <1>1, <1>5, <1>7 DEF TypeOK
  <2>2. age[y] # "new" /\ (age[x] = "old" => age[y] # "survival")
    BY <1>2, <2>1 DEF BlackInv
  <2> QED
    BY <1>7, <2>1, <2>2
<1> QED
  BY <1>1, <1>8, <1>9, <1>10, <1>11, <1>12, <1>13 DEF IndInv, GenInv

(* luaC_barrier_ *)
LEMMA StoreForward ==
  ASSUME IndInv, NEW o \in Obj, NEW v \in Obj, Store(o, v), Hit(o, v), o \notin Tables
  PROVE  IndInv'
<1>1. /\ o \in Heap \ Threads /\ v \in Heap /\ o # v /\ Heap' = Heap /\ Heap \subseteq Obj
      /\ \A x \in Obj : refs'[x] = IF x = o THEN refs[o] \cup {v} ELSE refs[x]
      /\ refs' \in [Obj -> SUBSET Obj] /\ RefsInv'
      /\ UNCHANGED <<allgc, finobj, tobefnz, lists, pointers, kind, closing, running, finobjold1>>
      /\ BarrierForward(o, v)
  BY StoreFacts
<1>2. /\ kind = "gen" /\ SectionsInv /\ GrayInv /\ BlackInv
      /\ color[o] = "black" /\ color[v] = "white"
      /\ age[o] \notin {"new", "survival", "touched1", "old0"}
      /\ age[v] \in {"new", "survival"}
  BY <1>1, HitFacts
<1>3. IsOld(age[o]) /\ ~IsOld(age[v])
  BY <1>2 DEF IsOld
<1>4. /\ color' = [color EXCEPT ![v] = "gray"] /\ gray' = gray \cup {v}
      /\ age' = [age EXCEPT ![v] = "old0"] /\ grayagain' = grayagain
      /\ asserted' = (asserted /\ kind = "gen" /\ ~(IsOld(age[o]) /\ IsOld(age[v])))
  BY <1>1, <1>3 DEF BarrierForward, AgeForward
<1>5. TypeOK
  BY DEF IndInv
<1>6. asserted' = TRUE
  <2>1. asserted = TRUE
    BY <1>5 DEF TypeOK
  <2> QED
    BY <1>2, <1>3, <1>4, <2>1
<1>7. \A x \in Obj : /\ color'[x] = IF x = v THEN "gray" ELSE color[x]
                     /\ age'[x] = IF x = v THEN "old0" ELSE age[x]
  BY <1>4, <1>5 DEF TypeOK
<1>8. TypeOK'
  <2>1. color' \in [Obj -> Colors] /\ age' \in [Obj -> Ages]
    BY <1>4, <1>5 DEF TypeOK, Colors, Ages
  <2>2. gray' \in SUBSET Obj /\ grayagain' \in SUBSET Obj
    BY <1>4, <1>5 DEF TypeOK
  <2> QED
    BY <1>1, <1>5, <1>6, <2>1, <2>2 DEF TypeOK
<1>9. ListsInv'
  <2>1. \A x \in Obj : x \in Heap <=> color'[x] # "none"
    BY <1>1, <1>7 DEF IndInv, ListsInv
  <2> QED
    BY <1>1, <2>1 DEF IndInv, ListsInv
<1>10. ModeInv'
  BY <1>1, <1>2 DEF IndInv, ModeInv
<1>11. SectionsInv'
  <2>1. /\ allgc \in Seq(Obj) /\ IsInjective(allgc) /\ finobj \in Seq(Obj) /\ IsInjective(finobj)
    BY DEF IndInv, TypeOK, ListsInv
  <2>2. ToSet(allgc) \subseteq Obj /\ ToSet(finobj) \subseteq Obj
    BY <2>1, Elements
  <2>3. Sections(allgc, age', survival, old1, reallyold)
    BY <1>2, <1>7, <2>1, <2>2, SectionsAges DEF SectionsInv
  <2>4. Sections(finobj, age', finobjsur, finobjold1, finobjrold)
    BY <1>2, <1>7, <2>1, <2>2, SectionsAges DEF SectionsInv
  <2>5. \A x \in ToSet(allgc) : age'[x] = "old1" => firstold1 # Nil /\ x \in Beyond(allgc, firstold1)
    BY <1>2, <1>7, <2>2 DEF SectionsInv
  <2> QED
    BY <1>1, <2>3, <2>4, <2>5 DEF SectionsInv, pointers
<1>12. GrayInv'
  <2>1. \A x \in Heap : color'[x] = "white" <=> age'[x] \in {"new", "survival"}
    BY <1>1, <1>2, <1>7 DEF GrayInv
  <2>2. \A x \in Heap : color'[x] = "gray" => x \in gray' \cup grayagain'
    BY <1>1, <1>2, <1>4, <1>7 DEF GrayInv
  <2>3. /\ \A x \in Heap : age'[x] \in {"touched1", "old0"} => color'[x] = "gray"
        /\ \A x \in Heap : age'[x] = "touched2" => color'[x] = "black"
        /\ \A x \in Heap : age'[x] \in {"touched1", "touched2"} => x \in Tables
        /\ \A x \in Heap : x \in gray' <=> age'[x] = "old0"
        /\ gray' \subseteq Heap /\ grayagain' \subseteq Heap
    BY <1>1, <1>2, <1>4, <1>7 DEF GrayInv
  <2>4. /\ \A x \in Heap \ Threads : x \in grayagain' <=> age'[x] \in {"touched1", "touched2"}
        /\ \A x \in Heap \cap Threads :
             x \in grayagain' <=> age'[x] \in {"old", "old1"} /\ color'[x] = "gray"
        /\ \A x \in Heap \cap Threads : age'[x] = "old" => color'[x] = "gray"
    BY <1>1, <1>2, <1>4, <1>7 DEF GrayInv
  <2> QED
    BY <1>1, <2>1, <2>2, <2>3, <2>4 DEF GrayInv
<1>13. BlackInv'
  <2> SUFFICES ASSUME NEW x \in Heap \ Threads, color'[x] = "black", NEW y \in refs'[x]
               PROVE  age'[y] # "new" /\ (age'[x] = "old" => age'[y] # "survival")
    BY <1>1 DEF BlackInv
  <2>1. x # v /\ x \in Obj /\ color[x] = "black" /\ age'[x] = age[x] /\ y \in Obj
    BY <1>1, <1>7
  <2>2. CASE y = v
    BY <1>1, <1>7, <2>2
  <2>3. CASE y # v
    <3>1. y \in refs[x] /\ age'[y] = age[y]
      BY <1>1, <1>7, <2>1, <2>3
    <3> QED
      BY <1>2, <2>1, <3>1 DEF BlackInv
  <2> QED
    BY <2>2, <2>3
<1> QED
  BY <1>1, <1>8, <1>9, <1>10, <1>11, <1>12, <1>13 DEF IndInv, GenInv

(* luaC_checkfinalizer: the object changes lists, the pointers to it move on *)
LEMMA SetFinalizerIndInv ==
  ASSUME IndInv, NEW o \in Obj, SetFinalizer(o)
  PROVE  IndInv'
<1>1. /\ closing = "open" /\ o \in ToSet(allgc) /\ o \in Obj
      /\ survival' = (IF survival = o THEN After(allgc, o) ELSE survival)
      /\ old1' = (IF old1 = o THEN After(allgc, o) ELSE old1)
      /\ reallyold' = (IF reallyold = o THEN After(allgc, o) ELSE reallyold)
      /\ firstold1' = (IF firstold1 = o THEN After(allgc, o) ELSE firstold1)
      /\ allgc' = Kept(allgc, Obj \ {o}) /\ finobj' = <<o>> \o finobj
      /\ UNCHANGED <<color, age, gray, grayagain, refs, tobefnz, finobjsur, finobjold1, finobjrold,
                     kind, closing, running, asserted>>
  BY DEF SetFinalizer, Checked, marks, mode
<1>2. /\ allgc \in Seq(Obj) /\ IsInjective(allgc) /\ finobj \in Seq(Obj) /\ IsInjective(finobj)
      /\ ToSet(allgc) \subseteq Obj /\ o \notin ToSet(finobj) /\ o \notin ToSet(tobefnz)
  BY <1>1, Elements DEF IndInv, TypeOK, ListsInv
<1>3. allgc' \in Seq(Obj) /\ IsInjective(allgc') /\ ToSet(allgc') = ToSet(allgc) \cap (Obj \ {o})
  BY <1>1, <1>2, KeptFacts, KeptInjective, KeptSet
<1>4. finobj' \in Seq(Obj) /\ IsInjective(finobj') /\ ToSet(finobj') = {o} \cup ToSet(finobj)
  BY <1>1, <1>2, Prepended
<1>5. \A x : x \in Heap' <=> x \in Heap
  BY <1>1, <1>2, <1>3, <1>4 DEF Heap
<1>6. Heap' = Heap
  BY <1>5
<1>7. TypeOK'
  BY <1>1, <1>3, <1>4 DEF IndInv, TypeOK
<1>8. ListsInv'
  <2>1. /\ ToSet(allgc') \cap ToSet(finobj') = {}
        /\ ToSet(allgc') \cap ToSet(tobefnz') = {}
        /\ ToSet(finobj') \cap ToSet(tobefnz') = {}
    BY <1>1, <1>2, <1>3, <1>4 DEF IndInv, ListsInv
  <2> QED
    BY <1>1, <1>3, <1>4, <1>6, <2>1 DEF IndInv, ListsInv
<1>9. RefsInv' /\ ModeInv'
  BY <1>1, <1>6 DEF IndInv, RefsInv, ModeInv
<1>10. ASSUME kind = "gen" PROVE SectionsInv' /\ GrayInv' /\ BlackInv'
  <2>1. SectionsInv /\ GrayInv /\ BlackInv
    BY <1>10 DEF IndInv, GenInv
  <2>2. Sections(allgc', age, survival', old1', reallyold')
    <3>1. /\ survival' = Moved(allgc, o, survival) /\ old1' = Moved(allgc, o, old1)
          /\ reallyold' = Moved(allgc, o, reallyold)
      BY <1>1 DEF Moved
    <3>2. Sections(allgc, age, survival, old1, reallyold)
      BY <2>1 DEF SectionsInv
    <3>3. Sections(Kept(allgc, Obj \ {o}), age, Moved(allgc, o, survival), Moved(allgc, o, old1),
                   Moved(allgc, o, reallyold))
      BY <1>1, <1>2, <3>2, SectionsChecked
    <3> QED
      BY <1>1, <3>1, <3>3
  <2>3. Sections(finobj', age, finobjsur, finobjold1, finobjrold)
    <3>1. Sections(finobj, age, finobjsur, finobjold1, finobjrold)
      BY <2>1 DEF SectionsInv
    <3> QED
      BY <1>1, <1>2, <3>1, SectionsPrepended
  <2>4. ASSUME NEW x \in ToSet(allgc'), age[x] = "old1"
        PROVE  firstold1' # Nil /\ x \in Beyond(allgc', firstold1')
    <3>1. x \in ToSet(allgc) /\ x # o
      BY <1>3
    <3>2. firstold1 # Nil /\ x \in Beyond(allgc, firstold1)
      BY <2>1, <2>4, <3>1 DEF SectionsInv
    <3>3. firstold1' = Moved(allgc, o, firstold1)
      BY <1>1 DEF Moved
    <3>4. Beyond(allgc', firstold1') = Beyond(allgc, firstold1) \ {o}
      BY <1>1, <1>2, <3>3, MovedBeyond
    <3>5. x \in Beyond(allgc', firstold1')
      BY <3>1, <3>2, <3>4
    <3>6. Nil \notin ToSet(allgc')
      BY <1>2, <1>3, GenAssumption
    <3>7. firstold1' # Nil
      BY <1>3, <3>5, <3>6, BeyondOrder
    <3> QED
      BY <3>5, <3>7
  <2>5. SectionsInv'
    BY <1>1, <2>2, <2>3, <2>4 DEF SectionsInv
  <2>6. GrayInv'
    BY <1>1, <1>6, <2>1 DEF GrayInv
  <2>7. BlackInv'
    BY <1>1, <1>6, <2>1 DEF BlackInv
  <2> QED
    BY <2>5, <2>6, <2>7
<1> QED
  BY <1>1, <1>7, <1>8, <1>9, <1>10 DEF IndInv, GenInv

-----------------------------------------------------------------------------
(* Finalizers and the end. *)

(* udata2finalize: the object goes back to allgc, with the age it has there *)
LEMMA CallFinIndInv ==
  ASSUME IndInv, CallFin
  PROVE  IndInv'
<1> DEFINE o == Head(tobefnz)
<1>1. /\ tobefnz # <<>> /\ allgc' = <<o>> \o allgc /\ firstold1' = FirstOld1(o)
      /\ tobefnz' = Tail(tobefnz)
      /\ refs' = refs \/ refs' = [refs EXCEPT ![running] = @ \cup {o}]
      /\ UNCHANGED <<color, age, gray, grayagain, finobj, survival, old1, reallyold, finobjsur,
                     finobjold1, finobjrold, kind, closing, running, asserted>>
  BY DEF CallFin, marks, mode
<1>2. TypeOK /\ IsInjective(tobefnz)
  BY DEF IndInv, ListsInv
<1>3. /\ o \in ToSet(tobefnz) /\ o \in Obj /\ tobefnz' \in Seq(Obj) /\ IsInjective(tobefnz')
      /\ ToSet(tobefnz') = ToSet(tobefnz) \ {o}
  BY <1>1, <1>2, Rested DEF TypeOK
<1> HIDE DEF o
<1>4. /\ allgc \in Seq(Obj) /\ IsInjective(allgc) /\ finobj \in Seq(Obj) /\ IsInjective(finobj)
      /\ ToSet(allgc) \subseteq Obj /\ o \notin ToSet(finobj) /\ o \notin ToSet(allgc)
  BY <1>3, Elements DEF IndInv, TypeOK, ListsInv
<1>5. allgc' \in Seq(Obj) /\ IsInjective(allgc') /\ ToSet(allgc') = {o} \cup ToSet(allgc)
  BY <1>1, <1>3, <1>4, Prepended
<1>6. \A x : x \in Heap' <=> x \in Heap
  BY <1>1, <1>3, <1>5 DEF Heap
<1>7. Heap' = Heap /\ o \in Heap /\ Heap \subseteq Obj
  BY <1>2, <1>3, <1>6, HeapInObj DEF Heap
<1>8. /\ \A x \in Obj : refs'[x] = refs[x] \/ (x = running /\ refs'[x] = refs[x] \cup {o})
      /\ refs' \in [Obj -> SUBSET Obj]
  <2>1. refs \in [Obj -> SUBSET Obj]
    BY <1>2 DEF TypeOK
  <2>2. CASE refs' = refs
    BY <2>1, <2>2
  <2>3. CASE refs' = [refs EXCEPT ![running] = @ \cup {o}]
    BY <1>3, <2>1, <2>3
  <2> QED
    BY <1>1, <2>2, <2>3
<1>9. TypeOK'
  BY <1>1, <1>2, <1>3, <1>5, <1>8 DEF TypeOK
<1>10. ListsInv'
  <2>1. /\ ToSet(allgc') \cap ToSet(finobj') = {}
        /\ ToSet(allgc') \cap ToSet(tobefnz') = {}
        /\ ToSet(finobj') \cap ToSet(tobefnz') = {}
    BY <1>1, <1>3, <1>4, <1>5 DEF IndInv, ListsInv
  <2> QED
    BY <1>1, <1>3, <1>5, <1>7, <2>1 DEF IndInv, ListsInv
<1>11. RefsInv'
  BY <1>7, <1>8 DEF IndInv, RefsInv, ListsInv
<1>12. ModeInv'
  BY <1>1 DEF IndInv, ModeInv
<1>13. ASSUME kind = "gen" PROVE SectionsInv' /\ GrayInv' /\ BlackInv'
  <2>1. SectionsInv /\ GrayInv /\ BlackInv
    BY <1>13 DEF IndInv, GenInv
  <2>2. Sections(allgc', age, survival, old1, reallyold)
    <3>1. Sections(allgc, age, survival, old1, reallyold)
      BY <2>1 DEF SectionsInv
    <3> QED
      BY <1>1, <1>3, <1>4, <3>1, SectionsPrepended
  <2>3. ASSUME NEW x \in ToSet(allgc'), age[x] = "old1"
        PROVE  firstold1' # Nil /\ x \in Beyond(allgc', firstold1')
    <3>1. CASE age[o] = "old1"
      <4>1. firstold1' = o /\ o # Nil
        BY <1>1, <1>3, <3>1, GenAssumption DEF FirstOld1
      <4>2. x = o \/ Before(allgc', o, x)
        <5>1. First(allgc') = o
          <6>1. Len(<<o>>) = 1 /\ <<o>>[1] = o /\ <<o>> \in Seq(Obj) /\ Len(allgc) \in Nat
            BY <1>3, <1>4
          <6>2. allgc'[1] = o /\ allgc' # <<>>
            BY <1>1, <1>3, <1>4, <6>1, ConcatProperties, Prepended
          <6> QED
            BY <1>5, <6>2, FirstFacts
        <5> QED
          BY <1>5, <2>3, <5>1, FirstIsBefore
      <4> QED
        BY <1>5, <4>1, <4>2, BeyondOrder
    <3>2. CASE age[o] # "old1"
      <4>1. firstold1' = firstold1
        BY <1>1, <3>2 DEF FirstOld1
      <4>2. x \in ToSet(allgc) /\ x # o
        BY <1>5, <2>3, <3>2
      <4>3. firstold1 # Nil /\ x \in Beyond(allgc, firstold1)
        BY <2>1, <2>3, <4>2 DEF SectionsInv
      <4>4. firstold1 # o
        BY <1>4, <4>3, BeyondOrder
      <4>5. Beyond(allgc', firstold1) = Beyond(allgc, firstold1)
        BY <1>1, <1>3, <1>4, <4>4, BeyondPrepended
      <4> QED
        BY <4>1, <4>3, <4>5
    <3> QED
      BY <3>1, <3>2
  <2>4. SectionsInv'
    BY <1>1, <2>1, <2>2, <2>3 DEF SectionsInv
  <2>5. GrayInv'
    BY <1>1, <1>7, <2>1 DEF GrayInv
  <2>6. BlackInv'
    <3>1. running \notin Heap \ Threads
      BY <1>2 DEF TypeOK
    <3>2. \A x \in Heap \ Threads : refs'[x] = refs[x]
      BY <1>7, <1>8, <3>1
    <3> QED
      BY <1>1, <1>7, <2>1, <3>2 DEF BlackInv
  <2> QED
    BY <2>4, <2>5, <2>6
<1> QED
  BY <1>1, <1>9, <1>10, <1>11, <1>12, <1>13 DEF IndInv, GenInv

(* everything allocated is white, new and in no gray list *)
LEMMA AllWhiteFacts ==
  ASSUME TypeOK, color' = AllWhite
  PROVE  /\ color' \in [Obj -> Colors]
         /\ \A o \in Obj : color'[o] # "black" /\ (color'[o] # "none" <=> color[o] # "none")
BY DEF AllWhite, TypeOK, Colors

(* close_state begins: back to the incremental mode, no object finalizable *)
LEMMA CloseIndInv ==
  ASSUME IndInv, Close
  PROVE  IndInv'
<1>1. /\ running' = Main /\ refs' = [refs EXCEPT ![Main] = {}]
      /\ IF kind = "gen" THEN ForgetGenerations /\ color' = AllWhite
         ELSE UNCHANGED <<color, age, pointers, kind>>
      /\ tobefnz' = tobefnz \o Upto(finobj, finobjold1')
      /\ finobj' = From(finobj, finobjold1')
      /\ UNCHANGED <<gray, grayagain, allgc, asserted>>
  BY DEF Close
<1>2. /\ TypeOK /\ Main \in Threads /\ Main \in Obj /\ Nil \notin Obj /\ Main \in Heap
      /\ IsInjective(allgc) /\ IsInjective(finobj) /\ IsInjective(tobefnz)
  BY GenAssumption DEF IndInv, ListsInv, Obj
<1>3. kind' = "inc" /\ finobjold1' = Nil
  BY <1>1, <1>2 DEF ForgetGenerations, ForgetFinobj, IndInv, ModeInv, TypeOK, pointers
<1>4. /\ color' \in [Obj -> Colors] /\ age' \in [Obj -> Ages]
      /\ \A o \in Obj : color'[o] # "black" /\ (color'[o] # "none" <=> color[o] # "none")
  <2>1. CASE kind = "gen"
    <3>1. color' = AllWhite /\ age' = [o \in Obj |-> "new"]
      BY <1>1, <2>1 DEF ForgetGenerations
    <3> QED
      BY <1>2, <3>1, AllWhiteFacts DEF Ages
  <2>2. CASE kind # "gen"
    <3>1. color' = color /\ age' = age /\ kind = "inc"
      BY <1>1, <1>2, <2>2 DEF TypeOK
    <3> QED
      BY <1>2, <3>1 DEF IndInv, TypeOK, ModeInv
  <2> QED
    BY <2>1, <2>2
<1>5. allgc \in Seq(Obj) /\ finobj \in Seq(Obj) /\ tobefnz \in Seq(Obj)
  BY <1>2 DEF TypeOK
<1>6. Beyond(finobj, Nil) = {} /\ ToSet(Upto(finobj, Nil)) = ToSet(finobj)
  <2>1. Nil \notin ToSet(finobj)
    BY <1>2, <1>5, Elements
  <2> QED
    BY <1>2, <1>5, <2>1, BeyondOrder
<1>7. finobj' = <<>> /\ finobj' \in Seq(Obj) /\ IsInjective(finobj') /\ ToSet(finobj') = {}
  <2>1. From(finobj, Nil) \in Seq(Obj) /\ ToSet(From(finobj, Nil)) = {}
    BY <1>5, <1>6, FromFacts DEF Beyond
  <2>2. From(finobj, Nil) = <<>>
    BY <2>1, FirstFacts
  <2> QED
    BY <1>1, <1>3, <2>2, EmptyList
<1>8. /\ tobefnz' \in Seq(Obj) /\ IsInjective(tobefnz')
      /\ ToSet(tobefnz') = ToSet(tobefnz) \cup ToSet(finobj)
  <2>1. Upto(finobj, Nil) \in Seq(Obj) /\ IsInjective(Upto(finobj, Nil))
    BY <1>2, <1>5, UptoFacts
  <2>2. ToSet(tobefnz) \cap ToSet(Upto(finobj, Nil)) = {}
    BY <1>6 DEF IndInv, ListsInv
  <2> QED
    BY <1>1, <1>2, <1>3, <1>5, <1>6, <2>1, <2>2, Joined
<1>9. \A x : x \in Heap' <=> x \in Heap
  BY <1>1, <1>7, <1>8 DEF Heap
<1>10. Heap' = Heap
  BY <1>9
<1>11. /\ refs' \in [Obj -> SUBSET Obj]
       /\ \A x \in Obj : refs'[x] = IF x = Main THEN {} ELSE refs[x]
  BY <1>1, <1>2 DEF TypeOK
<1>12. TypeOK'
  BY <1>1, <1>2, <1>3, <1>4, <1>5, <1>7, <1>8, <1>11 DEF TypeOK
<1>13. ListsInv'
  <2>1. /\ ToSet(allgc') \cap ToSet(finobj') = {}
        /\ ToSet(allgc') \cap ToSet(tobefnz') = {}
        /\ ToSet(finobj') \cap ToSet(tobefnz') = {}
    BY <1>1, <1>7, <1>8 DEF IndInv, ListsInv
  <2>2. \A x \in Obj : x \in Heap <=> color'[x] # "none"
    BY <1>4 DEF IndInv, ListsInv
  <2> QED
    BY <1>1, <1>2, <1>7, <1>8, <1>10, <2>1, <2>2 DEF ListsInv
<1>14. RefsInv'
  <2>1. Heap \subseteq Obj
    BY <1>2, HeapInObj
  <2> QED
    BY <1>10, <1>11, <2>1 DEF IndInv, RefsInv
<1>15. ModeInv'
  BY <1>3, <1>4, <1>7 DEF ModeInv
<1> QED
  BY <1>3, <1>12, <1>13, <1>14, <1>15 DEF IndInv, GenInv

(* luaC_freeallobjects ends: the main thread alone is left *)
LEMMA FreeAllObjectsIndInv ==
  ASSUME IndInv, FreeAllObjects
  PROVE  IndInv'
<1>1. /\ closing = "closing" /\ tobefnz = <<>> /\ running' = Main
      /\ color' = [o \in Obj |-> IF o = Main THEN color[o] ELSE "none"]
      /\ refs' = [o \in Obj |-> {}]
      /\ allgc' = <<Main>> /\ gray' = {} /\ grayagain' = {}
      /\ asserted' = (asserted /\ finobj = <<>>)
      /\ UNCHANGED <<age, finobj, tobefnz, pointers, kind>>
  BY DEF FreeAllObjects
<1>2. /\ TypeOK /\ Main \in Threads /\ Main \in Obj /\ Main \in Heap
      /\ kind = "inc" /\ finobj = <<>> /\ finobjold1 = Nil
      /\ \A o \in Obj : color[o] # "black"
  BY <1>1, GenAssumption DEF IndInv, ListsInv, ModeInv, Obj
<1>3. color[Main] # "none" /\ color[Main] \in Colors
  BY <1>2 DEF IndInv, ListsInv, TypeOK
<1>4. /\ allgc' \in Seq(Obj) /\ IsInjective(allgc') /\ ToSet(allgc') = {Main}
      /\ finobj' \in Seq(Obj) /\ IsInjective(finobj') /\ ToSet(finobj') = {} /\ finobj' = <<>>
      /\ tobefnz' \in Seq(Obj) /\ IsInjective(tobefnz') /\ ToSet(tobefnz') = {}
  BY <1>1, <1>2, Singleton, EmptyList
<1>5. Heap' = {Main}
  BY <1>4 DEF Heap
<1>6. TypeOK'
  <2>1. color' \in [Obj -> Colors]
    BY <1>1, <1>3 DEF Colors
  <2>2. refs' \in [Obj -> SUBSET Obj]
    BY <1>1
  <2>3. asserted' = TRUE
    BY <1>1, <1>2 DEF TypeOK
  <2> QED
    BY <1>1, <1>2, <1>4, <2>1, <2>2, <2>3 DEF TypeOK
<1>7. ListsInv'
  <2>1. \A x \in Obj : x \in Heap' <=> color'[x] # "none"
    BY <1>1, <1>2, <1>3, <1>5
  <2> QED
    BY <1>1, <1>4, <1>5, <2>1 DEF ListsInv
<1>8. RefsInv'
  BY <1>1, <1>2, <1>5 DEF RefsInv
<1>9. ModeInv'
  <2>1. \A o \in Obj : color'[o] # "black"
    BY <1>1, <1>2
  <2> QED
    BY <1>1, <1>2, <1>4, <2>1 DEF ModeInv, pointers
<1> QED
  BY <1>1, <1>2, <1>6, <1>7, <1>8, <1>9 DEF IndInv, GenInv

(* lists, references and objects stay as they are; all colours are white   *)
LEMMA ChangeToIncIndInv ==
  ASSUME IndInv, ChangeToInc
  PROVE  IndInv'
<1>1. /\ closing = "open"
      /\ IF kind = "gen"
           THEN /\ ForgetGenerations
                /\ color' = AllWhite
                /\ UNCHANGED <<refs, gray, grayagain, lists, asserted>>
           ELSE UNCHANGED <<marks, refs, lists, pointers, kind, asserted>>
      /\ UNCHANGED <<running, closing>>
  BY DEF ChangeToInc, CanCollect
<1>2. CASE kind = "gen"
  <2>1. /\ age' = [o \in Obj |-> "new"] /\ finobjold1' = Nil /\ kind' = "inc"
        /\ color' = AllWhite
        /\ UNCHANGED <<refs, gray, grayagain, allgc, finobj, tobefnz, lists, asserted, running, closing>>
    BY <1>1, <1>2 DEF ForgetGenerations, ForgetFinobj, lists
  <2>2. Heap' = Heap
    BY <2>1, SameHeap
  <2>3. /\ color' \in [Obj -> Colors]
        /\ \A o \in Obj : color'[o] # "black" /\ (color'[o] # "none" <=> color[o] # "none")
    BY <2>1, AllWhiteFacts DEF IndInv
  <2>4. TypeOK'
    BY <2>1, <2>3 DEF IndInv, TypeOK, Ages
  <2>5. ListsInv'
    BY <2>1, <2>2, <2>3 DEF IndInv, ListsInv
  <2>6. RefsInv' /\ ModeInv'
    BY <1>1, <2>1, <2>2, <2>3 DEF IndInv, RefsInv, ModeInv
  <2> QED
    BY <2>1, <2>4, <2>5, <2>6 DEF IndInv, GenInv
<1>3. CASE kind # "gen"
  <2>1. /\ refs' = refs /\ running' = running
        /\ UNCHANGED <<marks, lists, pointers, kind, closing, asserted>>
    BY <1>1, <1>3
  <2>2. /\ refs \in [Obj -> SUBSET Obj] /\ running \in Threads \cap Heap
        /\ \A x \in Heap : refs[x] \subseteq Heap
        /\ \A x \in Obj : x \notin Heap => refs[x] = {}
    BY DEF IndInv, TypeOK, ListsInv, RefsInv
  <2> QED
    BY <2>1, <2>2, RefsChange
<1> QED
  BY <1>2, <1>3

-----------------------------------------------------------------------------
(* Collections of the whole heap. *)

(* everything is behind the head of the list *)
LEMMA BeyondFirst ==
  ASSUME NEW s \in Seq(Obj), IsInjective(s)
  PROVE  Beyond(s, First(s)) = ToSet(s) /\ First(s) \in ToSet(s) \cup {Nil}
<1>1. Nil \notin ToSet(s)
  BY GenAssumption, Elements
<1>2. CASE s = <<>>
  <2>1. ToSet(s) = {} /\ First(s) = Nil
    BY <1>2, FirstFacts
  <2> QED
    BY <1>1, <2>1, CutAt
<1>3. CASE s # <<>>
  <2>1. First(s) \in ToSet(s)
    BY <1>3, FirstFacts
  <2>2. \A x \in ToSet(s) : x = First(s) \/ Before(s, First(s), x)
    BY FirstIsBefore
  <2>3. \A x : Before(s, First(s), x) => x \in ToSet(s)
    BY BeforeOrder
  <2> QED
    BY <2>1, <2>2, <2>3, CutAt
<1> QED
  BY <1>2, <1>3

(* m is marked and sep separated by the atomic step of such a collection *)
FullMark(m, sep) ==
  /\ m \subseteq Heap /\ Main \in m /\ running \in m
  /\ \A x \in m : refs[x] \subseteq m
  /\ sep \in Seq(Obj) /\ IsInjective(sep) /\ ToSet(sep) \subseteq ToSet(finobj)
  /\ ToSet(finobj) \subseteq m /\ ToSet(tobefnz) \subseteq m

(* the mark phase of a full collection *)
LEMMA FullAtomicFacts ==
  ASSUME IndInv
  PROVE  FullMark(FullAtomic[1], FullAtomic[2])
<1> DEFINE seeds == ToSet(tobefnz)
           strong == StrongFrom(seeds, Heap)
           sep == Kept(finobj, Heap \ strong)
           m == MarkedFrom(strong, sep, Heap)
<1>1. FullAtomic[1] = m /\ FullAtomic[2] = sep
  BY DEF FullAtomic
<1>2. /\ TypeOK /\ Heap \in SUBSET Obj /\ Main \in Heap /\ running \in Heap
      /\ IsInjective(finobj) /\ \A x \in Heap : refs[x] \subseteq Heap
      /\ ToSet(finobj) \subseteq Heap /\ ToSet(tobefnz) \subseteq Heap
  BY HeapInObj DEF IndInv, ListsInv, RefsInv, Heap
<1>3. /\ refs \in [Obj -> SUBSET Obj] /\ running \in Threads /\ tobefnz \in Seq(Obj)
      /\ finobj \in Seq(Obj)
  BY <1>2 DEF TypeOK
<1>4. /\ sep \in Seq(Obj) /\ IsInjective(sep) /\ ToSet(sep) = ToSet(finobj) \cap (Heap \ strong)
  BY <1>2, <1>3, KeptFacts, KeptInjective, KeptSet
<1>5. {Main, running} \subseteq strong /\ strong \in SUBSET Obj
  <2>1. seeds \in SUBSET Obj
    BY <1>2
  <2>2. /\ {Main, running} \cap Heap \subseteq StrongFrom(seeds, Heap)
        /\ StrongFrom(seeds, Heap) \subseteq seeds \cup Heap
    BY <1>2, <1>3, <2>1, StrongFacts
  <2> QED
    BY <1>2, <2>1, <2>2
<1> HIDE DEF strong, sep
<1>6. /\ strong \subseteq m /\ ToSet(sep) \subseteq m /\ ToSet(tobefnz) \cap Heap \subseteq m
      /\ m \subseteq strong \cup Heap \cup ToSet(sep)
      /\ \A x \in m : refs[x] \cap Heap \subseteq m
  BY <1>2, <1>3, <1>4, <1>5, MarkedFacts
<1>7. strong \subseteq Heap
  <2>1. ToSet(tobefnz) \in SUBSET Obj /\ strong = StrongFrom(ToSet(tobefnz), Heap)
    BY <1>2 DEF strong
  <2> QED
    BY <1>2, <1>3, <2>1, StrongFacts
<1> HIDE DEF m
<1>8. m \subseteq Heap /\ Main \in m /\ running \in m
  BY <1>2, <1>4, <1>5, <1>6, <1>7
<1>9. \A x \in m : refs[x] \subseteq m
  BY <1>2, <1>6, <1>8
<1>10. ToSet(finobj) \subseteq m /\ ToSet(tobefnz) \subseteq m
  BY <1>2, <1>4, <1>6
<1>11. FullMark(m, sep)
  BY <1>4, <1>8, <1>9, <1>10 DEF FullMark
<1> QED
  BY <1>1, <1>11

(* the lists and the references once a full collection has swept *)
LEMMA FullSweptFacts ==
  ASSUME IndInv, NEW m, NEW sep, FullMark(m, sep), FullSwept(m, sep)
  PROVE  /\ allgc' \in Seq(Obj) /\ IsInjective(allgc') /\ ToSet(allgc') = ToSet(allgc) \cap m
         /\ finobj' \in Seq(Obj) /\ IsInjective(finobj')
         /\ ToSet(finobj') = ToSet(finobj) \ ToSet(sep)
         /\ tobefnz' \in Seq(Obj) /\ IsInjective(tobefnz')
         /\ ToSet(tobefnz') = ToSet(tobefnz) \cup ToSet(sep)
         /\ ToSet(allgc') \cap ToSet(finobj') = {}
         /\ ToSet(allgc') \cap ToSet(tobefnz') = {}
         /\ ToSet(finobj') \cap ToSet(tobefnz') = {}
         /\ Heap' = m /\ m \subseteq Obj
         /\ refs' \in [Obj -> SUBSET Obj] /\ \A x \in m : refs'[x] = refs[x]
         /\ RefsInv'
<1>1. /\ allgc \in Seq(Obj) /\ finobj \in Seq(Obj) /\ tobefnz \in Seq(Obj)
      /\ IsInjective(allgc) /\ IsInjective(finobj) /\ IsInjective(tobefnz)
      /\ ToSet(allgc) \cap ToSet(finobj) = {}
      /\ ToSet(allgc) \cap ToSet(tobefnz) = {}
      /\ ToSet(finobj) \cap ToSet(tobefnz) = {}
      /\ refs \in [Obj -> SUBSET Obj] /\ Heap \subseteq Obj
  BY HeapInObj DEF IndInv, TypeOK, ListsInv
<1>2. /\ m \subseteq Heap /\ \A x \in m : refs[x] \subseteq m
      /\ sep \in Seq(Obj) /\ IsInjective(sep) /\ ToSet(sep) \subseteq ToSet(finobj)
      /\ ToSet(finobj) \subseteq m /\ ToSet(tobefnz) \subseteq m
  BY DEF FullMark
<1>3. /\ refs' = Unreferring(Obj \ m) /\ allgc' = Kept(allgc, m)
      /\ finobj' = Kept(finobj, Obj \ ToSet(sep)) /\ tobefnz' = tobefnz \o sep
  BY DEF FullSwept
<1>4. allgc' \in Seq(Obj) /\ IsInjective(allgc') /\ ToSet(allgc') = ToSet(allgc) \cap m
  BY <1>1, <1>3, KeptFacts, KeptInjective, KeptSet
<1>5. /\ finobj' \in Seq(Obj) /\ IsInjective(finobj')
      /\ ToSet(finobj') = ToSet(finobj) \cap (Obj \ ToSet(sep))
  BY <1>1, <1>3, KeptFacts, KeptInjective, KeptSet
<1>6. ToSet(finobj') = ToSet(finobj) \ ToSet(sep)
  <2>1. ToSet(finobj) \subseteq Obj
    BY <1>1, Elements
  <2> QED
    BY <1>5, <2>1
<1>7. /\ tobefnz' \in Seq(Obj) /\ IsInjective(tobefnz')
      /\ ToSet(tobefnz') = ToSet(tobefnz) \cup ToSet(sep)
  <2>1. ToSet(tobefnz) \cap ToSet(sep) = {}
    BY <1>1, <1>2
  <2> QED
    BY <1>1, <1>2, <1>3, <2>1, Joined
<1>8. /\ ToSet(allgc') \cap ToSet(finobj') = {}
      /\ ToSet(allgc') \cap ToSet(tobefnz') = {}
      /\ ToSet(finobj') \cap ToSet(tobefnz') = {}
  BY <1>1, <1>2, <1>4, <1>6, <1>7
<1>9. \A x : x \in Heap' <=> x \in m
  BY <1>2, <1>4, <1>6, <1>7 DEF Heap
<1>10. Heap' = m
  BY <1>9
<1>11. /\ refs' \in [Obj -> SUBSET Obj]
       /\ \A x \in Obj : refs'[x] = IF x \in m THEN refs[x] ELSE {}
  BY <1>1, <1>3 DEF Unreferring
<1>12. RefsInv'
  BY <1>1, <1>2, <1>10, <1>11 DEF RefsInv
<1> QED
  BY <1>1, <1>2, <1>4, <1>5, <1>6, <1>7, <1>8, <1>10, <1>11, <1>12

(* fullinc ends white: the new incremental cycle has not begun *)
LEMMA ToPauseIndInv ==
  ASSUME IndInv, NEW m, NEW sep, FullMark(m, sep), ToPause(m, sep), closing = "open"
  PROVE  IndInv'
<1>1. /\ FullSwept(m, sep)
      /\ color' = [o \in Obj |-> IF o \in m THEN "white" ELSE "none"]
      /\ gray' = {} /\ grayagain' = {}
      /\ IF kind = "gen" THEN ForgetGenerations ELSE UNCHANGED <<age, pointers, kind>>
      /\ UNCHANGED <<running, closing, asserted>>
  BY DEF ToPause
<1>2. /\ allgc' \in Seq(Obj) /\ IsInjective(allgc')
      /\ finobj' \in Seq(Obj) /\ IsInjective(finobj')
      /\ tobefnz' \in Seq(Obj) /\ IsInjective(tobefnz')
      /\ ToSet(allgc') \cap ToSet(finobj') = {}
      /\ ToSet(allgc') \cap ToSet(tobefnz') = {}
      /\ ToSet(finobj') \cap ToSet(tobefnz') = {}
      /\ Heap' = m /\ m \subseteq Obj /\ refs' \in [Obj -> SUBSET Obj] /\ RefsInv'
  BY <1>1, FullSweptFacts
<1>3. TypeOK /\ Main \in m /\ running \in m
  BY DEF IndInv, FullMark
<1>4. kind' = "inc" /\ finobjold1' = Nil /\ age' \in [Obj -> Ages]
  <2>1. CASE kind = "gen"
    BY <1>1, <2>1 DEF ForgetGenerations, ForgetFinobj, Ages
  <2>2. CASE kind # "gen"
    BY <1>1, <1>3, <2>2 DEF IndInv, ModeInv, TypeOK, pointers
  <2> QED
    BY <2>1, <2>2
<1>5. TypeOK'
  <2>1. color' \in [Obj -> Colors]
    BY <1>1 DEF Colors
  <2> QED
    BY <1>1, <1>2, <1>3, <1>4, <2>1 DEF TypeOK
<1>6. ListsInv'
  <2>1. \A o \in Obj : o \in m <=> color'[o] # "none"
    BY <1>1
  <2> QED
    BY <1>1, <1>2, <1>3, <2>1 DEF ListsInv
<1>7. ModeInv'
  BY <1>1, <1>4 DEF ModeInv
<1> QED
  BY <1>2, <1>4, <1>5, <1>6, <1>7 DEF IndInv, GenInv

(* atomic2gen ends with everything old and nothing referred to freed *)
LEMMA ToGenIndInv ==
  ASSUME IndInv, NEW m, NEW sep, FullMark(m, sep), ToGen(m, sep), closing = "open"
  PROVE  IndInv'
<1>1. /\ FullSwept(m, sep)
      /\ color' = [o \in Obj |-> IF o \notin m THEN "none"
                                 ELSE IF o \in Threads THEN "gray" ELSE "black"]
      /\ age' = [o \in Obj |-> IF o \in m THEN "old" ELSE "new"]
      /\ gray' = {} /\ grayagain' = m \cap Threads
      /\ survival' = First(allgc') /\ old1' = First(allgc') /\ reallyold' = First(allgc')
      /\ finobjsur' = First(finobj') /\ finobjold1' = First(finobj')
      /\ finobjrold' = First(finobj')
      /\ kind' = "gen"
      /\ UNCHANGED <<running, closing, asserted>>
  BY DEF ToGen
<1>2. /\ allgc' \in Seq(Obj) /\ IsInjective(allgc')
      /\ finobj' \in Seq(Obj) /\ IsInjective(finobj')
      /\ tobefnz' \in Seq(Obj) /\ IsInjective(tobefnz')
      /\ ToSet(allgc') \cap ToSet(finobj') = {}
      /\ ToSet(allgc') \cap ToSet(tobefnz') = {}
      /\ ToSet(finobj') \cap ToSet(tobefnz') = {}
      /\ Heap' = m /\ m \subseteq Obj /\ refs' \in [Obj -> SUBSET Obj] /\ RefsInv'
      /\ \A x \in m : refs'[x] = refs[x]
  BY <1>1, FullSweptFacts
<1>3. TypeOK /\ Main \in m /\ running \in m /\ \A x \in m : refs[x] \subseteq m
  BY DEF IndInv, FullMark
<1>4. TypeOK'
  <2>1. color' \in [Obj -> Colors] /\ age' \in [Obj -> Ages]
    BY <1>1 DEF Colors, Ages
  <2> QED
    BY <1>1, <1>2, <1>3, <2>1 DEF TypeOK
<1>5. \A o \in m : age'[o] = "old" /\ color'[o] = IF o \in Threads THEN "gray" ELSE "black"
  BY <1>1, <1>2
<1>6. ListsInv'
  <2>1. \A o \in Obj : o \in m <=> color'[o] # "none"
    BY <1>1
  <2> QED
    BY <1>1, <1>2, <1>3, <2>1 DEF ListsInv
<1>7. ModeInv'
  BY <1>1 DEF ModeInv
<1>8. SectionsInv'
  <2>1. ToSet(allgc') \subseteq m /\ ToSet(finobj') \subseteq m
    BY <1>2 DEF Heap
  <2>2. /\ Beyond(allgc', First(allgc')) = ToSet(allgc') /\ First(allgc') \in ToSet(allgc') \cup {Nil}
        /\ Beyond(finobj', First(finobj')) = ToSet(finobj') /\ First(finobj') \in ToSet(finobj') \cup {Nil}
    BY <1>2, BeyondFirst
  <2>3. Sections(allgc', age', First(allgc'), First(allgc'), First(allgc'))
    BY <1>5, <2>1, <2>2 DEF Sections
  <2>4. Sections(finobj', age', First(finobj'), First(finobj'), First(finobj'))
    BY <1>5, <2>1, <2>2 DEF Sections
  <2>5. \A o \in ToSet(allgc') : age'[o] # "old1"
    BY <1>5, <2>1
  <2> QED
    BY <1>1, <2>3, <2>4, <2>5 DEF SectionsInv
<1>9. GrayInv'
  BY <1>1, <1>2, <1>5 DEF GrayInv
<1>10. BlackInv'
  <2> SUFFICES ASSUME NEW o \in m, NEW v \in refs'[o] PROVE age'[v] = "old"
    BY <1>2 DEF BlackInv
  <2>1. v \in m
    BY <1>2, <1>3
  <2> QED
    BY <1>5, <2>1
<1> QED
  BY <1>2, <1>4, <1>6, <1>7, <1>8, <1>9, <1>10 DEF IndInv, GenInv

(* the three actions that collect the whole heap *)
LEMMA FullCollectionsIndInv ==
  ASSUME IndInv, ChangeToGen \/ MajorCollection \/ StepGenFull \/ Emergency
  PROVE  IndInv'
<1>1. FullMark(FullAtomic[1], FullAtomic[2])
  BY FullAtomicFacts
<1>2. closing = "open" /\ (EnterGen \/ FullCycle)
  BY DEF ChangeToGen, MajorCollection, StepGenFull, Emergency, CanCollect
<1>3. CASE EnterGen
  <2>1. ToGen(FullAtomic[1], FullAtomic[2])
    BY <1>3 DEF EnterGen
  <2> QED
    BY <1>1, <1>2, <2>1, ToGenIndInv
<1>4. CASE FullCycle
  <2>1. ToPause(FullAtomic[1], FullAtomic[2])
    BY <1>4 DEF FullCycle
  <2> QED
    BY <1>1, <1>2, <2>1, ToPauseIndInv
<1> QED
  BY <1>2, <1>3, <1>4

-----------------------------------------------------------------------------
(* Minor collections.  What a sweep leaves of a list whose young parts are *)
(* those before p and those between p and q.                               *)

Parts(s, p, q, live, n, m, f) ==
  /\ n \in Seq(Obj) /\ m \in Seq(Obj) /\ f \in Seq(Obj)
  /\ n \o m \o f = n \o (m \o f)
  /\ n \o m \in Seq(Obj) /\ IsInjective(n \o m) /\ IsInjective(f)
  /\ ToSet(n \o m) = ToSet(n) \cup ToSet(m) /\ ToSet(n \o m) \cap ToSet(f) = {}
  /\ n \o (m \o f) \in Seq(Obj) /\ IsInjective(n \o (m \o f))
  /\ \A x : x \in ToSet(n) \cup ToSet(m) <=> x \in ToSet(s) \ Beyond(s, q) /\ x \in live
  /\ \A x : x \in ToSet(m \o f) <=> \/ x \in Beyond(s, q)
                                    \/ x \in Beyond(s, p) \ Beyond(s, q) /\ x \in live
  /\ \A x : x \in ToSet(n \o (m \o f)) <=> \/ x \in Beyond(s, q)
                                           \/ x \in ToSet(s) \ Beyond(s, q) /\ x \in live
  /\ Beyond(n \o (m \o f), First(m \o f)) = ToSet(m \o f)
  /\ First(m \o f) \in ToSet(m \o f) \cup {Nil}
  /\ \A x : x \in Beyond(n \o (m \o f), q) <=> x \in Beyond(s, q)
  /\ q \in ToSet(n \o (m \o f)) \cup {Nil}

(* a list is a nursery, the survivors and the old ones *)
LEMMA ThreeParts ==
  ASSUME NEW s \in Seq(Obj), IsInjective(s), NEW p \in ToSet(s) \cup {Nil},
         NEW q \in ToSet(s) \cup {Nil}, Beyond(s, q) \subseteq Beyond(s, p), NEW live
  PROVE  Parts(s, p, q, live, Kept(Upto(s, p), live), Kept(Upto(From(s, p), q), live),
               From(s, q))
<1> DEFINE n == Kept(Upto(s, p), live)
           m == Kept(Upto(From(s, p), q), live)
           f == From(s, q)
<1>1. /\ Upto(s, p) \in Seq(Obj) /\ IsInjective(Upto(s, p))
      /\ \A x : x \in ToSet(Upto(s, p)) <=> x \in ToSet(s) \ Beyond(s, p)
  BY UptoFacts, BeyondOrder
<1>2. /\ From(s, p) \in Seq(Obj) /\ IsInjective(From(s, p))
      /\ Upto(From(s, p), q) \in Seq(Obj) /\ IsInjective(Upto(From(s, p), q))
  BY FromFacts, UptoFacts
<1>3. \A x : x \in ToSet(Upto(From(s, p), q)) <=> x \in Beyond(s, p) \ Beyond(s, q)
  <2>1. q \in Beyond(s, p) \/ q \notin ToSet(s)
    BY BeyondOrder
  <2> QED
    BY <2>1, UptoFrom
<1>4. f \in Seq(Obj) /\ IsInjective(f) /\ ToSet(f) = Beyond(s, q)
  BY FromOrder
<1>5. /\ n \in Seq(Obj) /\ IsInjective(n)
      /\ \A x : x \in ToSet(n) <=> x \in ToSet(s) \ Beyond(s, p) /\ x \in live
  <2>1. n \in Seq(Obj) /\ IsInjective(n) /\ ToSet(n) = ToSet(Upto(s, p)) \cap live
    BY <1>1, KeptFacts, KeptInjective, KeptSet
  <2> QED
    BY <1>1, <2>1
<1>6. /\ m \in Seq(Obj) /\ IsInjective(m)
      /\ \A x : x \in ToSet(m) <=> x \in Beyond(s, p) \ Beyond(s, q) /\ x \in live
  <2>1. m \in Seq(Obj) /\ IsInjective(m) /\ ToSet(m) = ToSet(Upto(From(s, p), q)) \cap live
    BY <1>2, KeptFacts, KeptInjective, KeptSet
  <2> QED
    BY <1>3, <2>1
<1>7. Beyond(s, p) \subseteq ToSet(s) /\ Beyond(s, q) \subseteq ToSet(s)
  BY BeyondOrder
<1> HIDE DEF n, m, f
<1>8. /\ m \o f \in Seq(Obj) /\ IsInjective(m \o f) /\ ToSet(m \o f) = ToSet(m) \cup ToSet(f)
  <2>1. ToSet(m) \cap ToSet(f) = {}
    BY <1>4, <1>6
  <2> QED
    BY <1>4, <1>6, <2>1, Joined
<1>17. /\ n \o m \in Seq(Obj) /\ IsInjective(n \o m) /\ ToSet(n \o m) = ToSet(n) \cup ToSet(m)
       /\ ToSet(n \o m) \cap ToSet(f) = {}
  <2>1. ToSet(n) \cap ToSet(m) = {}
    BY <1>5, <1>6
  <2>2. n \o m \in Seq(Obj) /\ IsInjective(n \o m) /\ ToSet(n \o m) = ToSet(n) \cup ToSet(m)
    BY <1>5, <1>6, <2>1, Joined
  <2> QED
    BY <1>4, <1>5, <1>6, <1>7, <2>2
<1> DEFINE r == m \o f
           w == n \o r
<1>9. n \o m \o f = w
  <2>1. /\ n \o m \in Seq(Obj) /\ Len(n \o m) = Len(n) + Len(m)
        /\ Len(n) \in Nat /\ Len(m) \in Nat /\ Len(f) \in Nat
        /\ \A k \in 1..(Len(n) + Len(m)) : (n \o m)[k] = IF k <= Len(n) THEN n[k] ELSE m[k - Len(n)]
    BY <1>5, <1>6, <1>4, ConcatProperties
  <2> QED
    BY <1>4, <1>5, <1>6, ConcatAssociative
<1>10. ToSet(r) = ToSet(m) \cup ToSet(f) /\ r \in Seq(Obj) /\ IsInjective(r)
  BY <1>8
<1> HIDE DEF r
<1>11. ToSet(n) \cap ToSet(r) = {}
  BY <1>4, <1>5, <1>6, <1>10
<1>12. w \in Seq(Obj) /\ IsInjective(w) /\ ToSet(w) = ToSet(n) \cup ToSet(r)
  BY <1>5, <1>10, <1>11, Joined
<1>13. /\ Beyond(w, First(r)) = ToSet(r) /\ First(r) \in ToSet(r) \cup {Nil}
       /\ \A x \in ToSet(r) : Beyond(w, x) = Beyond(r, x)
  BY <1>5, <1>10, <1>11, BeyondJoined, GenAssumption
<1>14. q \in ToSet(f) => Beyond(r, q) = Beyond(f, q)
  <2>1. ToSet(m) \cap ToSet(f) = {}
    BY <1>4, <1>6
  <2> QED
    BY <1>4, <1>6, <2>1, BeyondJoined, GenAssumption DEF r
<1> HIDE DEF w
<1>15. (\A x : x \in Beyond(w, q) <=> x \in Beyond(s, q)) /\ q \in ToSet(w) \cup {Nil}
  <2>1. CASE q \in ToSet(s)
    <3>1. q \in Beyond(s, q)
      BY <2>1, BeyondOrder
    <3>2. \A x : x \in Beyond(f, q) <=> x \in Beyond(s, q)
      BY <3>1, FromOrder DEF f
    <3>3. Beyond(w, q) = Beyond(f, q)
      BY <1>4, <1>10, <1>13, <1>14, <3>1
    <3> QED
      BY <1>4, <1>10, <1>12, <3>1, <3>2, <3>3
  <2>2. CASE q = Nil
    <3>1. Nil \notin ToSet(s) /\ Nil \notin ToSet(w)
      BY <1>12, GenAssumption, Elements
    <3> QED
      BY <1>12, <2>2, <3>1, BeyondOrder
  <2> QED
    BY <2>1, <2>2
<1>16. /\ \A x : x \in ToSet(n) \cup ToSet(m) <=> x \in ToSet(s) \ Beyond(s, q) /\ x \in live
       /\ \A x : x \in ToSet(r) <=> \/ x \in Beyond(s, q)
                                    \/ x \in Beyond(s, p) \ Beyond(s, q) /\ x \in live
       /\ \A x : x \in ToSet(w) <=> \/ x \in Beyond(s, q)
                                    \/ x \in ToSet(s) \ Beyond(s, q) /\ x \in live
  BY <1>4, <1>5, <1>6, <1>7, <1>10, <1>12
<1>18. Parts(s, p, q, live, n, m, f)
  BY <1>4, <1>5, <1>6, <1>9, <1>12, <1>13, <1>15, <1>16, <1>17 DEF w, r, Parts
<1> QED
  BY <1>18 DEF n, m, f

(* markold finds the objects that are old1 *)
LEMMA Old1MarkedFacts ==
  ASSUME IndInv, kind = "gen"
  PROVE  \A o : o \in Old1Marked <=> o \in Heap /\ age[o] = "old1"
<1> DEFINE M == IF firstold1 = Nil THEN <<>> ELSE Upto(From(allgc, firstold1), reallyold)
           U == Upto(finobj, finobjrold)
<1>1. /\ allgc \in Seq(Obj) /\ IsInjective(allgc) /\ finobj \in Seq(Obj) /\ IsInjective(finobj)
      /\ Sections(allgc, age, survival, old1, reallyold)
      /\ Sections(finobj, age, finobjsur, finobjold1, finobjrold)
      /\ \A o \in ToSet(allgc) : age[o] = "old1" => firstold1 # Nil /\ o \in Beyond(allgc, firstold1)
  BY DEF IndInv, TypeOK, ListsInv, GenInv, SectionsInv
<1>2. /\ \A o \in Beyond(allgc, reallyold) : age[o] # "old1"
      /\ \A o \in Beyond(finobj, finobjrold) : age[o] # "old1"
  BY <1>1 DEF Sections
<1>3. ToSet(M) \subseteq ToSet(allgc)
  <2>1. CASE firstold1 = Nil
    BY <2>1, EmptyList
  <2>2. CASE firstold1 # Nil
    <3>1. ToSet(Upto(From(allgc, firstold1), reallyold)) \subseteq Beyond(allgc, firstold1)
      BY <1>1, UptoFrom
    <3>2. Beyond(allgc, firstold1) \subseteq ToSet(allgc)
      BY <1>1, BeyondOrder
    <3> QED
      BY <2>2, <3>1, <3>2
  <2> QED
    BY <2>1, <2>2
<1>4. ASSUME NEW o \in ToSet(allgc), age[o] = "old1" PROVE o \in ToSet(M)
  <2>1. firstold1 # Nil /\ o \in Beyond(allgc, firstold1) /\ o \notin Beyond(allgc, reallyold)
    BY <1>1, <1>2, <1>4
  <2>2. o \in ToSet(Upto(From(allgc, firstold1), reallyold))
    BY <1>1, <2>1, UptoFrom
  <2> QED
    BY <2>1, <2>2
<1>5. \A o : o \in ToSet(U) <=> o \in ToSet(finobj) /\ o \notin Beyond(finobj, finobjrold)
  BY <1>1, BeyondOrder
<1>6. Old1Marked = {o \in ToSet(M) \cup ToSet(U) \cup ToSet(tobefnz) : age[o] = "old1"}
  BY DEF Old1Marked
<1> HIDE DEF M, U
<1>7. \A o : o \in Heap <=> o \in ToSet(allgc) \/ o \in ToSet(finobj) \/ o \in ToSet(tobefnz)
  BY DEF Heap
<1> QED
  BY <1>2, <1>3, <1>4, <1>5, <1>6, <1>7

(* what 'atomic' does in a minor collection: whom it visits, whom it       *)
(* separates, and the colours and ages it leaves                           *)
YoungMark(at) ==
  /\ at.sep \in Seq(Obj) /\ IsInjective(at.sep)
  /\ ToSet(at.sep) \subseteq ToSet(finobj) \ Beyond(finobj, finobjold1)
  /\ ToSet(at.sep) \subseteq at.visited /\ at.visited \subseteq Heap
  /\ \A x \in at.visited : \A y \in refs[x] : color[y] = "white" => y \in at.visited
  /\ \A o \in {Main, running} \cup ToSet(finobj) \cup ToSet(tobefnz) :
       color[o] = "white" => o \in at.visited
  /\ \A o \in Heap : \/ o \in at.visited \/ color[o] = "white"
                     \/ color[o] = "black" /\ age[o] = "old" /\ o \notin Threads
  /\ \A o \in Heap : at.age[o] = IF age[o] \in {"old1", "touched2"} THEN "old" ELSE age[o]
  /\ \A o \in Obj : o \notin Heap => at.age[o] = age[o]
  /\ at.again \subseteq at.visited
  /\ \A o \in Heap : o \in at.again <=> \/ age[o] = "touched1"
                                        \/ o \in Threads /\ age[o] \notin {"new", "survival"}
  /\ \A o \in Obj : at.color[o] = IF o \in at.again THEN "gray"
                                  ELSE IF o \in at.visited THEN "black" ELSE color[o]

(* the mark phase of a young collection: what is marked is closed under    *)
(* references, because every old object with a young reference is a seed   *)
LEMMA YoungAtomicFacts ==
  ASSUME IndInv, kind = "gen"
  PROVE  /\ YoungMark(YoungAtomic)
         /\ \A o \in Old1Marked : ~White(o)
         /\ gray \cap grayagain = {}
<1> DEFINE a0 == [o \in Obj |-> IF o \in Old1Marked THEN "old" ELSE age[o]]
           seen == {o \in Old1Marked : color[o] = "black"}
           white == {o \in Heap : White(o)}
           seeds == seen \cup gray \cup grayagain
           strong == StrongFrom(seeds, white)
           sep == Separated(strong, white)
           visited == MarkedFrom(strong, sep, white)
           at == YoungAtomic
<1>1. /\ at.visited = visited /\ at.sep = sep /\ at.again = LinkedBack(visited, a0)
      /\ at.age = AgesAfter(visited, a0) /\ at.color = ColorsAfter(visited, a0)
  BY DEF YoungAtomic
<1>2. /\ TypeOK /\ GrayInv /\ Heap \subseteq Obj /\ Main \in Heap /\ running \in Heap
      /\ IsInjective(finobj) /\ \A x \in Heap : refs[x] \subseteq Heap
      /\ ToSet(finobj) \subseteq Heap /\ ToSet(tobefnz) \subseteq Heap
      /\ Sections(finobj, age, finobjsur, finobjold1, finobjrold)
      /\ \A o \in Heap : color[o] # "none"
  BY HeapInObj DEF IndInv, ListsInv, RefsInv, Heap, GenInv, SectionsInv
<1>3. /\ refs \in [Obj -> SUBSET Obj] /\ running \in Threads /\ tobefnz \in Seq(Obj)
      /\ finobj \in Seq(Obj) /\ color \in [Obj -> Colors] /\ age \in [Obj -> Ages]
  BY <1>2 DEF TypeOK
<1>4. \A o : o \in Old1Marked <=> o \in Heap /\ age[o] = "old1"
  BY Old1MarkedFacts
<1>5. \A o \in Heap : o \in white <=> color[o] = "white"
  BY DEF White
<1>6. /\ seeds \subseteq Heap /\ seeds \in SUBSET Obj /\ white \in SUBSET Obj /\ white \subseteq Heap
  BY <1>2, <1>4 DEF GrayInv
<1>7. \A o \in Heap : \/ o \in seeds \/ color[o] = "white"
                      \/ color[o] = "black" /\ age[o] = "old" /\ o \notin Threads
  <2> SUFFICES ASSUME NEW o \in Heap, o \notin seeds, color[o] # "white"
               PROVE  color[o] = "black" /\ age[o] = "old" /\ o \notin Threads
    OBVIOUS
  <2>1. o \notin gray /\ o \notin grayagain
    OBVIOUS
  <2>2. color[o] = "black"
    BY <1>2, <1>3, <2>1 DEF GrayInv, Colors
  <2>3. age[o] # "old1"
    BY <1>4, <2>2
  <2>4. age[o] \notin {"new", "survival", "touched1", "old0"}
    BY <1>2, <2>2 DEF GrayInv
  <2>5. age[o] # "touched2"
    <3>1. Tables \cap Threads = {}
      BY GenAssumption
    <3> QED
      BY <1>2, <2>1, <3>1 DEF GrayInv
  <2>6. age[o] = "old"
    BY <1>2, <1>3, <2>3, <2>4, <2>5 DEF Ages
  <2> QED
    BY <1>2, <2>2, <2>6 DEF GrayInv
<1> HIDE DEF white, seeds
<1>8. /\ seeds \subseteq strong /\ {Main, running} \cap white \subseteq strong
      /\ strong \subseteq seeds \cup white
  BY <1>3, <1>6, StrongFacts
<1>9. strong \in SUBSET Obj /\ strong \subseteq Heap
  BY <1>2, <1>6, <1>8
<1> HIDE DEF strong
<1>10. /\ sep \in Seq(Obj) /\ IsInjective(sep)
       /\ \A o : o \in ToSet(sep) <=> /\ o \in ToSet(finobj) /\ o \notin Beyond(finobj, finobjold1)
                                      /\ o \in white /\ o \notin strong
  <2>1. /\ Upto(finobj, finobjold1) \in Seq(Obj) /\ IsInjective(Upto(finobj, finobjold1))
        /\ ToSet(Upto(finobj, finobjold1)) = ToSet(finobj) \ Beyond(finobj, finobjold1)
    BY <1>2, <1>3, UptoFacts, BeyondOrder
  <2>2. sep = Kept(Upto(finobj, finobjold1), white \ strong)
    BY DEF Separated
  <2>3. /\ sep \in Seq(Obj) /\ IsInjective(sep)
        /\ ToSet(sep) = ToSet(Upto(finobj, finobjold1)) \cap (white \ strong)
    BY <2>1, <2>2, KeptFacts, KeptInjective, KeptSet
  <2> QED
    BY <2>1, <2>3
<1> HIDE DEF sep
<1>11. /\ strong \subseteq visited /\ ToSet(sep) \subseteq visited
       /\ ToSet(tobefnz) \cap white \subseteq visited
       /\ visited \subseteq strong \cup white \cup ToSet(sep)
       /\ \A x \in visited : refs[x] \cap white \subseteq visited
  BY <1>3, <1>6, <1>9, <1>10, MarkedFacts
<1> HIDE DEF visited
<1>12. ToSet(sep) \subseteq ToSet(finobj) /\ visited \subseteq Heap
  BY <1>2, <1>6, <1>9, <1>10, <1>11
<1>13. \A x \in visited : \A y \in refs[x] : color[y] = "white" => y \in visited
  BY <1>2, <1>5, <1>11, <1>12
<1>14. \A o \in {Main, running} \cup ToSet(finobj) \cup ToSet(tobefnz) :
         color[o] = "white" => o \in visited
  <2>1. \A o \in {Main, running} \cup ToSet(tobefnz) : color[o] = "white" => o \in visited
    BY <1>2, <1>5, <1>8, <1>11
  <2>2. ASSUME NEW o \in ToSet(finobj), color[o] = "white" PROVE o \in visited
    <3>1. age[o] \in {"new", "survival"} /\ o \in white
      BY <1>2, <1>5, <2>2 DEF GrayInv
    <3>2. o \notin Beyond(finobj, finobjold1)
      BY <1>2, <3>1 DEF Sections
    <3> QED
      BY <1>10, <1>11, <2>2, <3>1, <3>2
  <2> QED
    BY <2>1, <2>2
<1>15. \A o \in Heap : \/ o \in visited \/ color[o] = "white"
                       \/ color[o] = "black" /\ age[o] = "old" /\ o \notin Threads
  BY <1>7, <1>8, <1>11
<1>16. \A o \in Obj : a0[o] = IF o \in Heap /\ age[o] = "old1" THEN "old" ELSE age[o]
  BY <1>4
<1> HIDE DEF a0
<1>17. \A o \in Heap : at.age[o] = IF age[o] \in {"old1", "touched2"} THEN "old" ELSE age[o]
  <2> SUFFICES ASSUME NEW o \in Heap
               PROVE  at.age[o] = IF age[o] \in {"old1", "touched2"} THEN "old" ELSE age[o]
    OBVIOUS
  <2>1. at.age[o] = IF o \in visited \cap Tables /\ a0[o] = "touched2" THEN "old" ELSE a0[o]
    BY <1>1, <1>2 DEF AgesAfter
  <2>2. age[o] = "touched2" => o \in visited \cap Tables
    BY <1>2, <1>15 DEF GrayInv
  <2> QED
    BY <1>2, <1>16, <2>1, <2>2
<1>18. \A o \in Obj : o \notin Heap => at.age[o] = age[o]
  BY <1>1, <1>12, <1>16 DEF AgesAfter
<1>19. /\ LinkedBack(visited, a0) \subseteq visited
       /\ \A o \in Heap : o \in LinkedBack(visited, a0)
                            <=> \/ age[o] = "touched1"
                                \/ o \in Threads /\ age[o] \notin {"new", "survival"}
  <2>1. LinkedBack(visited, a0) \subseteq visited
    BY DEF LinkedBack
  <2> SUFFICES ASSUME NEW o \in Heap
               PROVE  o \in LinkedBack(visited, a0)
                            <=> \/ age[o] = "touched1"
                                \/ o \in Threads /\ age[o] \notin {"new", "survival"}
    BY <2>1
  <2>2. o \in LinkedBack(visited, a0) <=> \/ o \in visited \cap Tables /\ a0[o] = "touched1"
                                          \/ o \in visited \cap Threads /\ IsOld(a0[o])
    BY DEF LinkedBack
  <2>3. a0[o] = "touched1" <=> age[o] = "touched1"
    BY <1>2, <1>16
  <2>4. IsOld(a0[o]) <=> age[o] \notin {"new", "survival"}
    BY <1>2, <1>16 DEF IsOld
  <2>5. age[o] = "touched1" => o \in visited \cap Tables
    BY <1>2, <1>15 DEF GrayInv
  <2>6. o \in Threads /\ age[o] \notin {"new", "survival"} => o \in visited
    BY <1>2, <1>15 DEF GrayInv
  <2> QED
    BY <2>2, <2>3, <2>4, <2>5, <2>6
<1>20. \A o \in Obj : at.color[o] = IF o \in at.again THEN "gray"
                                    ELSE IF o \in visited THEN "black" ELSE color[o]
  BY <1>1 DEF ColorsAfter
<1>21. YoungMark(at)
  BY <1>1, <1>10, <1>11, <1>12, <1>13, <1>14, <1>15, <1>17, <1>18, <1>19, <1>20 DEF YoungMark
<1>22. \A o \in Old1Marked : ~White(o)
  BY <1>2, <1>4 DEF GrayInv, White
<1>23. gray \cap grayagain = {}
  <2> SUFFICES ASSUME NEW o, o \in gray, o \in grayagain PROVE FALSE
    OBVIOUS
  <2>1. o \in Heap /\ age[o] = "old0"
    BY <1>2 DEF GrayInv
  <2> QED
    BY <1>2, <2>1 DEF GrayInv
<1> QED
  BY <1>21, <1>22, <1>23

(* the first element of S in s: all of them come after it *)
LEMMA FirstKept ==
  ASSUME NEW s \in Seq(Obj), NEW t \in Seq(Obj), IsInjective(s), IsInjective(t),
         ToSet(s) \cap ToSet(t) = {}, NEW S, NEW x \in ToSet(s) \cap S
  PROVE  First(Kept(s, S)) # Nil /\ x \in Beyond(s \o t, First(Kept(s, S)))
<1> DEFINE k == Kept(s, S)
<1>1. /\ k \in Seq(Obj) /\ IsInjective(k) /\ ToSet(k) = ToSet(s) \cap S
      /\ \A y, z \in S : Before(k, y, z) <=> Before(s, y, z)
  BY KeptFacts, KeptInjective, KeptSet, KeptOrder
<1> HIDE DEF k
<1>2. First(k) \in ToSet(s) /\ First(k) \in S /\ First(k) # Nil
  <2>1. k # <<>>
    BY <1>1, FirstFacts
  <2>2. First(k) \in ToSet(k) /\ Nil \notin ToSet(k)
    BY <1>1, <2>1, FirstFacts, Elements, GenAssumption
  <2> QED
    BY <1>1, <2>2
<1>3. x = First(k) \/ Before(k, First(k), x)
  BY <1>1, FirstIsBefore
<1>4. x = First(k) \/ Before(s, First(k), x)
  BY <1>1, <1>2, <1>3
<1>5. x = First(k) \/ Before(s \o t, First(k), x)
  BY <1>2, <1>4, BeforeJoined
<1>6. s \o t \in Seq(Obj) /\ IsInjective(s \o t) /\ ToSet(s \o t) = ToSet(s) \cup ToSet(t)
  BY Joined
<1>7. x \in Beyond(s \o t, First(k))
  BY <1>2, <1>5, <1>6, BeyondOrder
<1> QED
  BY <1>2, <1>7 DEF k

Dead(at) == {o \in Heap : color[o] = "white" /\ o \notin at.visited}

(* the lists that the sweep leaves *)
AllgcSwept(l) == l.nursery \o (l.middle \o From(allgc, old1))
FinobjSwept(l) == l.fnursery \o (l.fmiddle \o l.frest)

AllgcSweep(at, l) ==
  LET w == AllgcSwept(l)
      p == First(l.middle \o From(allgc, old1))
  IN  /\ w \in Seq(Obj) /\ IsInjective(w) /\ w = l.nursery \o l.middle \o From(allgc, old1)
      /\ l.nursery \in Seq(Obj) /\ l.middle \in Seq(Obj)
      /\ \A x : x \in ToSet(w) <=> x \in ToSet(allgc) /\ x \notin Dead(at)
      /\ \A x : x \in ToSet(l.nursery) \cup ToSet(l.middle)
                  <=> x \in ToSet(allgc) /\ x \notin Beyond(allgc, old1) /\ x \notin Dead(at)
      /\ p \in ToSet(w) \cup {Nil} /\ old1 \in ToSet(w) \cup {Nil}
      /\ \A x : x \in Beyond(w, p) <=> x \in Beyond(allgc, survival) /\ x \notin Dead(at)
      /\ \A x : x \in Beyond(w, old1) <=> x \in Beyond(allgc, old1)
      /\ \A S : \A x \in (ToSet(l.nursery) \cup ToSet(l.middle)) \cap S :
           /\ First(Kept(l.nursery \o l.middle, S)) # Nil
           /\ x \in Beyond(w, First(Kept(l.nursery \o l.middle, S)))

(* the sweep of allgc stops at old1 and frees exactly the dead *)
LEMMA AllgcSweepFacts ==
  ASSUME IndInv, kind = "gen", NEW at, YoungMark(at)
  PROVE  AllgcSweep(at, YoungLists(at))
<1> DEFINE live == {o \in Obj : at.color[o] # "white"}
           l == YoungLists(at)
           n == l.nursery
           m == l.middle
           f == From(allgc, old1)
<1>1. n = Kept(Upto(allgc, survival), live) /\ m = Kept(Upto(From(allgc, survival), old1), live)
  BY DEF YoungLists
<1>2. /\ allgc \in Seq(Obj) /\ IsInjective(allgc) /\ ToSet(allgc) \subseteq Heap
      /\ Heap \subseteq Obj /\ color \in [Obj -> Colors]
      /\ Sections(allgc, age, survival, old1, reallyold)
      /\ \A o \in Heap : color[o] = "white" <=> age[o] \in {"new", "survival"}
  BY HeapInObj DEF IndInv, TypeOK, ListsInv, GenInv, SectionsInv, GrayInv, Heap
<1>3. /\ survival \in ToSet(allgc) \cup {Nil} /\ old1 \in ToSet(allgc) \cup {Nil}
      /\ Beyond(allgc, old1) \subseteq Beyond(allgc, survival)
      /\ \A x \in Beyond(allgc, old1) : age[x] \notin {"new", "survival"}
      /\ \A p : Beyond(allgc, p) \subseteq ToSet(allgc)
  BY <1>2, BeyondOrder DEF Sections
<1>4. \A x \in Heap : x \in live <=> x \notin Dead(at)
  <2> SUFFICES ASSUME NEW x \in Heap PROVE x \in live <=> x \notin Dead(at)
    OBVIOUS
  <2>1. at.color[x] = IF x \in at.again THEN "gray"
                      ELSE IF x \in at.visited THEN "black" ELSE color[x]
    BY <1>2 DEF YoungMark
  <2>2. at.again \subseteq at.visited
    BY DEF YoungMark
  <2>3. at.color[x] = "white" <=> color[x] = "white" /\ x \notin at.visited
    BY <2>1, <2>2
  <2> QED
    BY <1>2, <2>3 DEF Dead
<1>5. \A x \in Beyond(allgc, old1) : x \notin Dead(at)
  BY <1>2, <1>3 DEF Dead
<1> HIDE DEF live, l, n, m, f
<1>6. f = From(allgc, old1)
  BY DEF f
<1>16. Parts(allgc, survival, old1, live, n, m, f)
  BY <1>1, <1>2, <1>3, <1>6, ThreeParts
<1>7. /\ n \in Seq(Obj) /\ m \in Seq(Obj) /\ f \in Seq(Obj)
      /\ n \o m \o f = n \o (m \o f)
      /\ n \o m \in Seq(Obj) /\ IsInjective(n \o m) /\ IsInjective(f)
      /\ ToSet(n \o m) = ToSet(n) \cup ToSet(m) /\ ToSet(n \o m) \cap ToSet(f) = {}
      /\ n \o (m \o f) \in Seq(Obj) /\ IsInjective(n \o (m \o f))
      /\ \A x : x \in ToSet(n) \cup ToSet(m)
                  <=> x \in ToSet(allgc) \ Beyond(allgc, old1) /\ x \in live
      /\ \A x : x \in ToSet(m \o f)
                  <=> \/ x \in Beyond(allgc, old1)
                      \/ x \in Beyond(allgc, survival) \ Beyond(allgc, old1) /\ x \in live
      /\ \A x : x \in ToSet(n \o (m \o f))
                  <=> \/ x \in Beyond(allgc, old1)
                      \/ x \in ToSet(allgc) \ Beyond(allgc, old1) /\ x \in live
      /\ Beyond(n \o (m \o f), First(m \o f)) = ToSet(m \o f)
      /\ First(m \o f) \in ToSet(m \o f) \cup {Nil}
      /\ \A x : x \in Beyond(n \o (m \o f), old1) <=> x \in Beyond(allgc, old1)
      /\ old1 \in ToSet(n \o (m \o f)) \cup {Nil}
  BY <1>16 DEF Parts
<1> DEFINE w == n \o (m \o f)
           p == First(m \o f)
<1>8. \A x : x \in ToSet(w) <=> x \in ToSet(allgc) /\ x \notin Dead(at)
  BY <1>2, <1>3, <1>4, <1>5, <1>7
<1>9. \A x : x \in ToSet(n) \cup ToSet(m)
               <=> x \in ToSet(allgc) /\ x \notin Beyond(allgc, old1) /\ x \notin Dead(at)
  BY <1>2, <1>4, <1>7
<1>10. \A x : x \in Beyond(w, p) <=> x \in Beyond(allgc, survival) /\ x \notin Dead(at)
  BY <1>2, <1>3, <1>4, <1>5, <1>7
<1>11. p \in ToSet(w) \cup {Nil}
  BY <1>3, <1>7
<1>12. ASSUME NEW S, NEW x \in (ToSet(n) \cup ToSet(m)) \cap S
       PROVE  /\ First(Kept(n \o m, S)) # Nil
              /\ x \in Beyond(n \o m \o f, First(Kept(n \o m, S)))
  BY <1>7, <1>12, FirstKept
<1>13. \A S : \A x \in (ToSet(n) \cup ToSet(m)) \cap S :
           /\ First(Kept(n \o m, S)) # Nil
           /\ x \in Beyond(w, First(Kept(n \o m, S)))
  BY <1>7, <1>12
<1>14. w = AllgcSwept(l) /\ w = n \o m \o f
  BY <1>7 DEF AllgcSwept, n, m, f
<1> HIDE DEF w, p
<1>15. p = First(m \o f) /\ w \in Seq(Obj) /\ IsInjective(w) /\ old1 \in ToSet(w) \cup {Nil}
       /\ \A x : x \in Beyond(w, old1) <=> x \in Beyond(allgc, old1)
  BY <1>7 DEF w, p
<1>17. AllgcSweep(at, l)
  BY <1>7, <1>8, <1>9, <1>10, <1>11, <1>13, <1>14, <1>15 DEF AllgcSweep, n, m, f
<1> QED
  BY <1>17 DEF l

FinobjSweep(at, l) ==
  LET w == FinobjSwept(l)
      p == First(l.fmiddle \o l.frest)
  IN  /\ w \in Seq(Obj) /\ IsInjective(w) /\ w = l.fnursery \o l.fmiddle \o l.frest
      /\ l.fnursery \in Seq(Obj) /\ l.fmiddle \in Seq(Obj)
      /\ \A x : x \in ToSet(w) <=> x \in ToSet(finobj) /\ x \notin ToSet(at.sep)
      /\ \A x : x \in ToSet(l.fnursery) \cup ToSet(l.fmiddle)
                  <=> /\ x \in ToSet(finobj) /\ x \notin ToSet(at.sep)
                      /\ x \notin Beyond(finobj, finobjold1)
      /\ p \in ToSet(w) \cup {Nil} /\ finobjold1 \in ToSet(w) \cup {Nil}
      /\ \A x : x \in Beyond(w, p) <=> x \in Beyond(finobj, finobjsur) /\ x \notin ToSet(at.sep)
      /\ \A x : x \in Beyond(w, finobjold1) <=> x \in Beyond(finobj, finobjold1)

RestSweep(at, l) ==
  /\ l.tobefnz \in Seq(Obj) /\ IsInjective(l.tobefnz)
  /\ \A x : x \in ToSet(l.tobefnz) <=> x \in ToSet(tobefnz) \/ x \in ToSet(at.sep)
  /\ \A x : x \in l.dead <=> x \in Dead(at)

(* the sweeps of finobj, whose dead are being finalized, and of tobefnz *)
LEMMA FinobjSweepFacts ==
  ASSUME IndInv, kind = "gen", NEW at, YoungMark(at)
  PROVE  FinobjSweep(at, YoungLists(at)) /\ RestSweep(at, YoungLists(at))
<1> DEFINE live == {o \in Obj : at.color[o] # "white"}
           D == ToSet(at.sep)
           rest == Kept(finobj, Obj \ D)
           sur == IF finobjsur \in D THEN First(Kept(From(finobj, finobjsur), Obj \ D))
                  ELSE finobjsur
           l == YoungLists(at)
           n == l.fnursery
           m == l.fmiddle
           f == l.frest
<1>1. /\ n = Kept(Upto(rest, sur), live) /\ m = Kept(Upto(From(rest, sur), finobjold1), live)
      /\ f = From(rest, finobjold1) /\ l.tobefnz = Kept(tobefnz \o at.sep, live)
      /\ l.dead = ToSet(Upto(allgc, old1) \o Upto(rest, finobjold1) \o tobefnz \o at.sep) \ live
  BY DEF YoungLists
<1>2. /\ finobj \in Seq(Obj) /\ IsInjective(finobj) /\ ToSet(finobj) \subseteq Heap
      /\ tobefnz \in Seq(Obj) /\ IsInjective(tobefnz) /\ ToSet(tobefnz) \subseteq Heap
      /\ allgc \in Seq(Obj) /\ IsInjective(allgc) /\ ToSet(allgc) \subseteq Heap
      /\ ToSet(finobj) \cap ToSet(tobefnz) = {}
      /\ Heap \subseteq Obj /\ color \in [Obj -> Colors] /\ Nil \notin Obj
      /\ Sections(allgc, age, survival, old1, reallyold)
      /\ Sections(finobj, age, finobjsur, finobjold1, finobjrold)
      /\ \A o \in Heap : color[o] = "white" <=> age[o] \in {"new", "survival"}
  BY HeapInObj, GenAssumption DEF IndInv, TypeOK, ListsInv, GenInv, SectionsInv, GrayInv, Heap
<1>3. /\ finobjsur \in ToSet(finobj) \cup {Nil} /\ finobjold1 \in ToSet(finobj) \cup {Nil}
      /\ Beyond(finobj, finobjold1) \subseteq Beyond(finobj, finobjsur)
      /\ \A p : Beyond(finobj, p) \subseteq ToSet(finobj)
      /\ finobjold1 \in ToSet(finobj) => finobjold1 \in Beyond(finobj, finobjold1)
  BY <1>2, BeyondOrder DEF Sections
<1>4. /\ at.sep \in Seq(Obj) /\ IsInjective(at.sep)
      /\ D \subseteq ToSet(finobj) /\ D \cap Beyond(finobj, finobjold1) = {}
      /\ D \subseteq at.visited
      /\ \A o \in ToSet(finobj) \cup ToSet(tobefnz) : color[o] = "white" => o \in at.visited
  BY DEF YoungMark
<1>5. \A x \in Heap : x \in live <=> x \notin Dead(at)
  <2> SUFFICES ASSUME NEW x \in Heap PROVE x \in live <=> x \notin Dead(at)
    OBVIOUS
  <2>1. at.color[x] = IF x \in at.again THEN "gray"
                      ELSE IF x \in at.visited THEN "black" ELSE color[x]
    BY <1>2 DEF YoungMark
  <2>2. at.again \subseteq at.visited
    BY DEF YoungMark
  <2>3. at.color[x] = "white" <=> color[x] = "white" /\ x \notin at.visited
    BY <2>1, <2>2
  <2> QED
    BY <1>2, <2>3 DEF Dead
<1>6. \A x \in ToSet(finobj) \cup ToSet(tobefnz) : x \notin Dead(at) /\ x \in live
  BY <1>2, <1>4, <1>5 DEF Dead
<1> HIDE DEF live, D
<1>7. /\ rest \in Seq(Obj) /\ IsInjective(rest)
      /\ \A x : x \in ToSet(rest) <=> x \in ToSet(finobj) /\ x \notin D
  <2>1. rest \in Seq(Obj) /\ IsInjective(rest) /\ ToSet(rest) = ToSet(finobj) \cap (Obj \ D)
    BY <1>2, KeptFacts, KeptInjective, KeptSet
  <2> QED
    BY <1>2, <2>1
<1>27. sur = MovedOn(Obj, finobj, D, finobjsur) /\ rest = Kept(finobj, Obj \ D)
  BY DEF MovedOn
<1>28. l.dead = ToSet(Upto(allgc, old1) \o Upto(rest, finobjold1) \o tobefnz \o at.sep) \ live
  BY <1>1
<1> HIDE DEF rest, sur
<1>8. /\ \A x : x \in Beyond(rest, sur) <=> x \in Beyond(finobj, finobjsur) /\ x \notin D
      /\ sur \in (ToSet(finobj) \ D) \cup {Nil}
  <2>1. Nil \notin D
    BY <1>2, <1>4, Elements DEF D
  <2> QED
    BY <1>2, <1>3, <1>27, <2>1, SeparatedBeyond
<1>9. \A x : x \in Beyond(rest, finobjold1) <=> x \in Beyond(finobj, finobjold1)
  <2>1. finobjold1 \in ToSet(finobj) => finobjold1 \in Obj \ D
    BY <1>2, <1>3, <1>4
  <2>2. Beyond(rest, finobjold1) = Beyond(finobj, finobjold1) \cap (Obj \ D)
    BY <1>2, <1>27, <2>1, BeyondKept
  <2> QED
    BY <1>2, <1>3, <1>4, <2>2
<1>10. sur \in ToSet(rest) \cup {Nil} /\ finobjold1 \in ToSet(rest) \cup {Nil}
  BY <1>3, <1>4, <1>7, <1>8
<1> HIDE DEF l, n, m, f
<1>11. Beyond(rest, finobjold1) \subseteq Beyond(rest, sur)
  BY <1>3, <1>4, <1>8, <1>9
<1>12. Parts(rest, sur, finobjold1, live, n, m, f)
  BY <1>1, <1>7, <1>10, <1>11, ThreeParts
<1>13. /\ n \in Seq(Obj) /\ m \in Seq(Obj)
       /\ n \o m \o f = n \o (m \o f)
       /\ n \o (m \o f) \in Seq(Obj) /\ IsInjective(n \o (m \o f))
       /\ \A x : x \in ToSet(n) \cup ToSet(m)
                   <=> x \in ToSet(rest) \ Beyond(rest, finobjold1) /\ x \in live
       /\ \A x : x \in ToSet(m \o f)
                   <=> \/ x \in Beyond(rest, finobjold1)
                       \/ x \in Beyond(rest, sur) \ Beyond(rest, finobjold1) /\ x \in live
       /\ \A x : x \in ToSet(n \o (m \o f))
                   <=> \/ x \in Beyond(rest, finobjold1)
                       \/ x \in ToSet(rest) \ Beyond(rest, finobjold1) /\ x \in live
       /\ Beyond(n \o (m \o f), First(m \o f)) = ToSet(m \o f)
       /\ First(m \o f) \in ToSet(m \o f) \cup {Nil}
       /\ \A x : x \in Beyond(n \o (m \o f), finobjold1) <=> x \in Beyond(rest, finobjold1)
       /\ finobjold1 \in ToSet(n \o (m \o f)) \cup {Nil}
  BY <1>12 DEF Parts
<1> DEFINE w == n \o (m \o f)
           p == First(m \o f)
<1>14. \A x : x \in ToSet(w) <=> x \in ToSet(finobj) /\ x \notin D
  BY <1>3, <1>4, <1>6, <1>7, <1>9, <1>13
<1>15. \A x : x \in ToSet(n) \cup ToSet(m)
                <=> x \in ToSet(finobj) /\ x \notin D /\ x \notin Beyond(finobj, finobjold1)
  BY <1>6, <1>7, <1>9, <1>13
<1>16. \A x : x \in Beyond(w, p) <=> x \in Beyond(finobj, finobjsur) /\ x \notin D
  BY <1>3, <1>4, <1>6, <1>8, <1>9, <1>13
<1>17. p \in ToSet(w) \cup {Nil}
  BY <1>3, <1>4, <1>8, <1>9, <1>13, <1>14
<1>18. \A x : x \in Beyond(w, finobjold1) <=> x \in Beyond(finobj, finobjold1)
  BY <1>9, <1>13
<1>19. w = FinobjSwept(l) /\ w = n \o m \o f
  BY <1>13 DEF FinobjSwept, n, m, f
<1> HIDE DEF w, p
<1>20. p = First(m \o f) /\ w \in Seq(Obj) /\ IsInjective(w) /\ finobjold1 \in ToSet(w) \cup {Nil}
  BY <1>13 DEF w, p
<1>21. FinobjSweep(at, l)
  BY <1>13, <1>14, <1>15, <1>16, <1>17, <1>18, <1>19, <1>20 DEF FinobjSweep, n, m, f, D
<1> DEFINE tbs == tobefnz \o at.sep
<1>22. tbs \in Seq(Obj) /\ IsInjective(tbs) /\ ToSet(tbs) = ToSet(tobefnz) \cup D
  <2>1. ToSet(tobefnz) \cap D = {}
    BY <1>2, <1>4
  <2> QED
    BY <1>2, <1>4, <2>1, Joined DEF D
<1>26. l.tobefnz = Kept(tbs, live)
  BY <1>1
<1> HIDE DEF tbs
<1>23. /\ l.tobefnz \in Seq(Obj) /\ IsInjective(l.tobefnz)
       /\ \A x : x \in ToSet(l.tobefnz) <=> x \in ToSet(tobefnz) \/ x \in D
  <2>1. /\ l.tobefnz \in Seq(Obj) /\ IsInjective(l.tobefnz)
        /\ ToSet(l.tobefnz) = ToSet(tbs) \cap live
    BY <1>22, <1>26, KeptFacts, KeptInjective, KeptSet
  <2> QED
    BY <1>4, <1>6, <1>22, <2>1
<1>24. \A x : x \in l.dead <=> x \in Dead(at)
  <2> DEFINE u == Upto(allgc, old1)
             v == Upto(rest, finobjold1)
  <2>1. /\ u \in Seq(Obj) /\ v \in Seq(Obj)
        /\ \A x : x \in ToSet(u) <=> x \in ToSet(allgc) /\ x \notin Beyond(allgc, old1)
        /\ \A x : x \in ToSet(v) <=> x \in ToSet(rest) /\ x \notin Beyond(rest, finobjold1)
    BY <1>2, <1>7, UptoFacts, BeyondOrder
  <2> HIDE DEF u, v
  <2> DEFINE uv == u \o v
             uvt == uv \o tobefnz
  <2>2. uv \in Seq(Obj) /\ ToSet(uv) = ToSet(u) \cup ToSet(v)
    BY <2>1, Joined
  <2> HIDE DEF uv
  <2>3. uvt \in Seq(Obj) /\ ToSet(uvt) = ToSet(u) \cup ToSet(v) \cup ToSet(tobefnz)
    BY <1>2, <2>2, Joined
  <2> HIDE DEF uvt
  <2>4. ToSet(uvt \o at.sep) = ToSet(u) \cup ToSet(v) \cup ToSet(tobefnz) \cup D
    BY <1>4, <2>3, Joined DEF D
  <2>5. l.dead = (ToSet(u) \cup ToSet(v) \cup ToSet(tobefnz) \cup D) \ live
    BY <1>28, <2>4 DEF uvt, uv, u, v
  <2>6. \A x \in ToSet(v) \cup ToSet(tobefnz) \cup D : x \in live /\ x \notin Dead(at)
    BY <1>4, <1>6, <1>7, <2>1
  <2>7. \A x \in Beyond(allgc, old1) : age[x] \notin {"new", "survival"} /\ x \in ToSet(allgc)
    BY <1>2, BeyondOrder DEF Sections
  <2>8. \A x \in Dead(at) : x \in ToSet(u) /\ x \notin live
    <3> SUFFICES ASSUME NEW x \in Dead(at) PROVE x \in ToSet(u) /\ x \notin live
      OBVIOUS
    <3>1. x \in Heap /\ color[x] = "white"
      BY DEF Dead
    <3>2. x \in ToSet(allgc)
      BY <1>6, <3>1 DEF Heap
    <3> QED
      BY <1>2, <1>5, <2>1, <2>7, <3>1, <3>2
  <2>9. \A x \in ToSet(u) : x \notin live => x \in Dead(at)
    BY <1>2, <1>5, <2>1
  <2> QED
    BY <2>5, <2>6, <2>8, <2>9
<1>25. RestSweep(at, l)
  BY <1>23, <1>24 DEF RestSweep, D
<1> QED
  BY <1>21, <1>25 DEF l

(* what a minor collection does to one object *)
Older(a) ==
  CASE a = "new" -> "survival"
    [] a \in {"survival", "old0"} -> "old1"
    [] a = "touched1" -> "touched2"
    [] OTHER -> "old"
Relisted(o) == age[o] = "touched1" \/ (o \in Threads /\ age[o] \notin {"new", "survival"})
Recolored(o) == IF age[o] = "new" THEN "white"
                ELSE IF o \in Threads /\ age[o] # "survival" THEN "gray" ELSE "black"

StillGray(at, l) == {o \in at.again : YoungColors(at, l)[o] \notin {"white", "none"}}

(* what lives is swept or is too old to be *)
LEMMA SweptLiveFacts ==
  ASSUME IndInv, kind = "gen", NEW at, YoungMark(at), NEW l,
         AllgcSweep(at, l), FinobjSweep(at, l), RestSweep(at, l)
  PROVE  /\ \A o \in Heap : o \notin Dead(at) =>
              /\ o \in SweptLive(l) \/ age[o] \notin {"new", "survival", "old0"}
              /\ o \notin l.dead
         /\ SweptLive(l) \subseteq Heap
<1>1. /\ l.nursery \in Seq(Obj) /\ l.middle \in Seq(Obj)
      /\ \A x : x \in ToSet(l.nursery) \cup ToSet(l.middle)
                  <=> x \in ToSet(allgc) /\ x \notin Beyond(allgc, old1) /\ x \notin Dead(at)
  BY DEF AllgcSweep
<1>2. /\ l.fnursery \in Seq(Obj) /\ l.fmiddle \in Seq(Obj)
      /\ \A x : x \in ToSet(l.fnursery) \cup ToSet(l.fmiddle)
                  <=> /\ x \in ToSet(finobj) /\ x \notin ToSet(at.sep)
                      /\ x \notin Beyond(finobj, finobjold1)
  BY DEF FinobjSweep
<1>3. /\ l.tobefnz \in Seq(Obj)
      /\ \A x : x \in ToSet(l.tobefnz) <=> x \in ToSet(tobefnz) \/ x \in ToSet(at.sep)
      /\ \A x : x \in l.dead <=> x \in Dead(at)
  BY DEF RestSweep
<1>4. /\ \A x \in Beyond(allgc, old1) : age[x] \notin {"new", "survival", "old0"}
      /\ \A x \in Beyond(finobj, finobjold1) : age[x] \notin {"new", "survival", "old0"}
  BY DEF IndInv, GenInv, SectionsInv, Sections
<1> DEFINE s1 == l.nursery \o l.middle
           s2 == s1 \o l.fnursery
           s3 == s2 \o l.fmiddle
<1>5. s1 \in Seq(Obj) /\ ToSet(s1) = ToSet(l.nursery) \cup ToSet(l.middle)
  BY <1>1, Joined
<1> HIDE DEF s1
<1>6. s2 \in Seq(Obj) /\ ToSet(s2) = ToSet(s1) \cup ToSet(l.fnursery)
  BY <1>2, <1>5, Joined
<1> HIDE DEF s2
<1>7. s3 \in Seq(Obj) /\ ToSet(s3) = ToSet(s2) \cup ToSet(l.fmiddle)
  BY <1>2, <1>6, Joined
<1> HIDE DEF s3
<1>8. ToSet(s3 \o l.tobefnz) = ToSet(s3) \cup ToSet(l.tobefnz)
  BY <1>3, <1>7, Joined
<1>9. SweptLive(l) = ToSet(s3 \o l.tobefnz)
  BY DEF SweptLive, s1, s2, s3
<1>10. \A x : x \in Heap <=> x \in ToSet(allgc) \/ x \in ToSet(finobj) \/ x \in ToSet(tobefnz)
  BY DEF Heap
<1>11. SweptLive(l) \subseteq Heap
  <2>1. ToSet(at.sep) \subseteq ToSet(finobj)
    BY DEF YoungMark
  <2> QED
    BY <1>1, <1>2, <1>3, <1>5, <1>6, <1>7, <1>8, <1>9, <1>10, <2>1
<1> QED
  BY <1>1, <1>2, <1>3, <1>4, <1>5, <1>6, <1>7, <1>8, <1>9, <1>10, <1>11

(* the age and the colour of an object that stays *)
LEMMA YoungObjects ==
  ASSUME IndInv, kind = "gen", NEW at, YoungMark(at), NEW l,
         AllgcSweep(at, l), FinobjSweep(at, l), RestSweep(at, l),
         NEW o \in Heap \ Dead(at)
  PROVE  /\ o \in StillGray(at, l) <=> Relisted(o)
         /\ Relisted(o) => /\ IsOld(YoungAges(at, l)[o])
                           /\ Touched(YoungAges(at, l)[o]) = Older(age[o])
         /\ ~Relisted(o) => YoungAges(at, l)[o] = Older(age[o])
         /\ Relisted(o) => YoungColors(at, l)[o] = "gray"
         /\ ~Relisted(o) => YoungColors(at, l)[o] = Recolored(o)
<1>1. /\ o \in Obj /\ age[o] \in Ages /\ color[o] \in Colors /\ color[o] # "none" /\ o \in Heap
      /\ color[o] = "white" <=> age[o] \in {"new", "survival"}
      /\ age[o] = "touched1" => o \in Tables
  BY HeapInObj DEF IndInv, TypeOK, ListsInv, GenInv, GrayInv
<1>2. o \in SweptLive(l) \/ age[o] \notin {"new", "survival", "old0"}
  BY <1>1, SweptLiveFacts
<1>3. o \notin l.dead
  BY <1>1, SweptLiveFacts
<1>4. /\ at.age[o] = IF age[o] \in {"old1", "touched2"} THEN "old" ELSE age[o]
      /\ o \in at.again <=> Relisted(o)
      /\ at.color[o] = IF o \in at.again THEN "gray"
                       ELSE IF o \in at.visited THEN "black" ELSE color[o]
      /\ \/ o \in at.visited \/ color[o] = "white"
         \/ color[o] = "black" /\ age[o] = "old" /\ o \notin Threads
  BY <1>1 DEF YoungMark, Relisted
<1>5. o \in at.visited \/ (color[o] = "black" /\ age[o] = "old" /\ o \notin Threads)
  BY <1>1, <1>4 DEF Dead
<1>6. YoungAges(at, l)[o] = IF o \in SweptLive(l) THEN NextAge(at.age[o]) ELSE at.age[o]
  BY <1>1, <1>3 DEF YoungAges
<1>7. YoungColors(at, l)[o] = IF o \in SweptLive(l) /\ at.age[o] = "new" THEN "white" ELSE at.color[o]
  BY <1>1, <1>3 DEF YoungColors
<1>8. Relisted(o) => YoungColors(at, l)[o] = "gray"
  BY <1>4, <1>7 DEF Relisted
<1>9. o \in StillGray(at, l) <=> Relisted(o)
  BY <1>4, <1>8 DEF StillGray
<1>10. ASSUME Relisted(o)
       PROVE  IsOld(YoungAges(at, l)[o]) /\ Touched(YoungAges(at, l)[o]) = Older(age[o])
  <2>1. CASE age[o] = "touched1"
    BY <1>4, <1>6, <2>1 DEF NextAge, Touched, Older, IsOld
  <2>2. CASE age[o] \in {"old0", "old1", "old"}
    BY <1>2, <1>4, <1>6, <2>2 DEF NextAge, Touched, Older, IsOld
  <2>3. age[o] # "touched2"
    BY <1>1, <1>10, GenAssumption DEF Relisted, IndInv, GenInv, GrayInv
  <2> QED
    BY <1>1, <1>10, <2>1, <2>2, <2>3 DEF Ages, Relisted
<1>11. ASSUME ~Relisted(o) PROVE YoungAges(at, l)[o] = Older(age[o])
  <2>1. age[o] # "touched1"
    BY <1>11 DEF Relisted
  <2>2. CASE age[o] \in {"new", "survival", "old0"}
    BY <1>2, <1>4, <1>6, <2>2 DEF NextAge, Older
  <2>3. CASE age[o] \in {"old1", "touched2", "old"}
    BY <1>4, <1>6, <2>3 DEF NextAge, Older
  <2> QED
    BY <1>1, <2>1, <2>2, <2>3 DEF Ages
<1>12. ASSUME ~Relisted(o) PROVE YoungColors(at, l)[o] = Recolored(o)
  <2>1. CASE age[o] = "new"
    BY <1>2, <1>4, <1>7, <2>1 DEF Recolored
  <2>2. CASE age[o] # "new"
    <3>1. at.age[o] # "new"
      BY <1>4, <2>2
    <3>2. at.color[o] = "black"
      BY <1>4, <1>5, <1>12
    <3>3. Recolored(o) = "black"
      BY <1>12, <2>2 DEF Relisted, Recolored
    <3> QED
      BY <1>7, <3>1, <3>2, <3>3
  <2> QED
    BY <2>1, <2>2
<1> QED
  BY <1>8, <1>9, <1>10, <1>11, <1>12

(* an object that is freed, or is not there, has no colour *)
LEMMA YoungOthers ==
  ASSUME IndInv, kind = "gen", NEW at, YoungMark(at), NEW l,
         AllgcSweep(at, l), FinobjSweep(at, l), RestSweep(at, l),
         NEW o \in Obj, o \notin Heap \/ o \in Dead(at)
  PROVE  /\ o \notin StillGray(at, l) /\ YoungColors(at, l)[o] = "none"
         /\ YoungAges(at, l)[o] \in Ages
<1>1. /\ color \in [Obj -> Colors] /\ age \in [Obj -> Ages] /\ Heap \subseteq Obj
      /\ o \notin Heap => color[o] = "none"
  BY HeapInObj DEF IndInv, TypeOK, ListsInv
<1>2. /\ at.again \subseteq at.visited /\ at.visited \subseteq Heap
      /\ o \notin Heap => at.age[o] = age[o]
      /\ at.color[o] = IF o \in at.again THEN "gray"
                       ELSE IF o \in at.visited THEN "black" ELSE color[o]
  BY DEF YoungMark
<1>3. o \in l.dead <=> o \in Dead(at)
  BY DEF RestSweep
<1>4. o \notin at.again
  BY <1>2 DEF Dead
<1>5. CASE o \in Dead(at)
  BY <1>3, <1>4, <1>5 DEF StillGray, YoungColors, YoungAges, Ages
<1>6. CASE o \notin Dead(at)
  <2>1. o \notin Heap /\ age[o] \in Ages /\ color[o] = "none" /\ o \notin at.visited
    BY <1>1, <1>2, <1>6
  <2>2. at.color[o] = "none" /\ at.age[o] = age[o]
    BY <1>2, <1>4, <2>1
  <2>3. NextAge(age[o]) \in Ages
    BY <2>1 DEF Ages, NextAge
  <2>4. YoungAges(at, l)[o] \in Ages
    BY <1>3, <1>6, <2>1, <2>2, <2>3 DEF YoungAges
  <2>5. YoungColors(at, l)[o] = IF o \in SweptLive(l) /\ at.age[o] = "new" THEN "white" ELSE "none"
    BY <1>3, <1>6, <2>2 DEF YoungColors
  <2>6. o \notin SweptLive(l)
    BY <2>1, SweptLiveFacts
  <2> QED
    BY <1>4, <2>4, <2>5, <2>6 DEF StillGray
<1> QED
  BY <1>5, <1>6

(* a minor collection as a whole *)
YoungStep(at, l, a, c) ==
  LET kept == {o \in at.again : c[o] \notin {"white", "none"}}
      rest == l.middle \o From(allgc, old1)
  IN  /\ color' = [o \in Obj |-> IF o \in kept \ Threads THEN "black" ELSE c[o]]
      /\ age' = [o \in Obj |-> IF o \in kept THEN Touched(a[o]) ELSE a[o]]
      /\ refs' = Unreferring(l.dead)
      /\ gray' = {}
      /\ grayagain' = {o \in kept : o \in Threads \/ Touched(a[o]) = "touched2"}
      /\ allgc' = l.nursery \o rest
      /\ finobj' = l.fnursery \o l.fmiddle \o l.frest
      /\ tobefnz' = l.tobefnz
      /\ firstold1' = First(Kept(l.nursery \o l.middle, {o \in Obj : a[o] = "old1"}))
      /\ reallyold' = old1 /\ old1' = First(rest) /\ survival' = First(allgc')
      /\ finobjrold' = finobjold1 /\ finobjold1' = First(l.fmiddle \o l.frest)
      /\ finobjsur' = First(finobj')
      /\ fin' = Finalizing(tobefnz')
      /\ asserted' = (/\ asserted
                      /\ \A o \in Old1Marked : ~White(o)
                      /\ \A o \in l.dead : ~IsOld(at.age[o])
                      /\ \A o \in kept : IsOld(a[o])
                      /\ gray \cap grayagain = {})

(* the action, with its local definitions as parameters *)
LEMMA YoungIsStep ==
  ASSUME YoungCollection
  PROVE  /\ CanCollect /\ kind = "gen" /\ UNCHANGED <<mode, running>>
         /\ \E at \in {YoungAtomic} : \E l \in {YoungLists(at)} :
            \E a \in {YoungAges(at, l)} : \E c \in {YoungColors(at, l)} : YoungStep(at, l, a, c)
BY DEF YoungCollection, YoungStep

YoungResult(at, l) ==
  /\ kind = "gen" /\ closing = "open" /\ UNCHANGED <<kind, closing, running>>
  /\ YoungMark(at) /\ AllgcSweep(at, l) /\ FinobjSweep(at, l) /\ RestSweep(at, l)
  /\ allgc' = AllgcSwept(l) /\ finobj' = FinobjSwept(l) /\ tobefnz' = l.tobefnz
  /\ survival' = First(allgc') /\ old1' = First(l.middle \o From(allgc, old1))
  /\ reallyold' = old1
  /\ finobjsur' = First(finobj') /\ finobjold1' = First(l.fmiddle \o l.frest)
  /\ finobjrold' = finobjold1
  /\ firstold1' = First(Kept(l.nursery \o l.middle,
                             {o \in Obj : YoungAges(at, l)[o] = "old1"}))
  /\ refs' = Unreferring(Dead(at))
  /\ gray' = {} /\ asserted' = TRUE
  /\ \A o : o \in Heap' <=> o \in Heap /\ o \notin Dead(at)
  /\ color' \in [Obj -> Colors] /\ age' \in [Obj -> Ages]
  /\ \A o \in Obj : o \notin Heap' => color'[o] = "none"
  /\ \A o \in Heap' : color'[o] = Recolored(o) /\ age'[o] = Older(age[o])
  /\ \A o \in Heap' : age'[o] = "old1" => YoungAges(at, l)[o] = "old1"
  /\ \A o : o \in grayagain' <=> o \in Heap' /\ Relisted(o)

(* what a young collection leaves, object by object *)
LEMMA YoungEffect ==
  ASSUME IndInv, YoungCollection
  PROVE  \E at, l : YoungResult(at, l)
<1> DEFINE at == YoungAtomic
           l == YoungLists(at)
           a == YoungAges(at, l)
           c == YoungColors(at, l)
           kept == {o \in at.again : c[o] \notin {"white", "none"}}
           rest == l.middle \o From(allgc, old1)
<1>9. CanCollect /\ kind = "gen" /\ UNCHANGED <<mode, running>>
  BY YoungIsStep
<1>10. YoungStep(at, l, a, c)
  BY YoungIsStep
<1> DEFINE D == Dead(at)
<1>2. /\ YoungMark(at) /\ (\A o \in Old1Marked : ~White(o)) /\ gray \cap grayagain = {}
  BY <1>9, YoungAtomicFacts
<1>3. AllgcSweep(at, l) /\ FinobjSweep(at, l) /\ RestSweep(at, l)
  BY <1>9, <1>2, AllgcSweepFacts, FinobjSweepFacts
<1> HIDE DEF at, l
<1>4. closing = "open" /\ UNCHANGED <<kind, closing, running>> /\ TypeOK /\ Heap \subseteq Obj
  BY <1>9, HeapInObj DEF CanCollect, mode, IndInv
<1>5. kept = StillGray(at, l)
  BY DEF StillGray
<1> HIDE DEF a, c, kept
<1>1. /\ color' = [o \in Obj |-> IF o \in kept \ Threads THEN "black" ELSE c[o]]
      /\ age' = [o \in Obj |-> IF o \in kept THEN Touched(a[o]) ELSE a[o]]
      /\ refs' = Unreferring(l.dead) /\ gray' = {}
      /\ grayagain' = {o \in kept : o \in Threads \/ Touched(a[o]) = "touched2"}
      /\ allgc' = l.nursery \o rest
      /\ finobj' = l.fnursery \o l.fmiddle \o l.frest
      /\ tobefnz' = l.tobefnz
      /\ firstold1' = First(Kept(l.nursery \o l.middle, {o \in Obj : a[o] = "old1"}))
      /\ reallyold' = old1 /\ old1' = First(rest) /\ survival' = First(allgc')
      /\ finobjrold' = finobjold1 /\ finobjold1' = First(l.fmiddle \o l.frest)
      /\ finobjsur' = First(finobj')
      /\ asserted' = (/\ asserted
                      /\ \A o \in Old1Marked : ~White(o)
                      /\ \A o \in l.dead : ~IsOld(at.age[o])
                      /\ \A o \in kept : IsOld(a[o])
                      /\ gray \cap grayagain = {})
  BY <1>10 DEF YoungStep, kept
<1>6. /\ allgc' = AllgcSwept(l) /\ finobj' = FinobjSwept(l)
  BY <1>1, <1>3 DEF AllgcSwept, FinobjSweep
<1>7. \A x : x \in l.dead <=> x \in D
  BY <1>3 DEF RestSweep
<1>8. l.dead = D
  BY <1>7
<1> HIDE DEF D
<1>11. \A o : o \in Heap' <=> o \in Heap /\ o \notin D
  <2>1. /\ \A x : x \in ToSet(AllgcSwept(l)) <=> x \in ToSet(allgc) /\ x \notin D
        /\ \A x : x \in ToSet(FinobjSwept(l)) <=> x \in ToSet(finobj) /\ x \notin ToSet(at.sep)
        /\ \A x : x \in ToSet(l.tobefnz) <=> x \in ToSet(tobefnz) \/ x \in ToSet(at.sep)
    BY <1>3 DEF AllgcSweep, FinobjSweep, RestSweep, D
  <2>2. /\ ToSet(at.sep) \subseteq ToSet(finobj)
        /\ \A x \in ToSet(finobj) \cup ToSet(tobefnz) : x \notin D
    BY <1>2 DEF YoungMark, D, Dead
  <2>3. \A x : x \in Heap' <=> x \in ToSet(allgc') \/ x \in ToSet(finobj') \/ x \in ToSet(tobefnz')
    BY DEF Heap
  <2>4. \A x : x \in Heap <=> x \in ToSet(allgc) \/ x \in ToSet(finobj) \/ x \in ToSet(tobefnz)
    BY DEF Heap
  <2> QED
    BY <1>1, <1>6, <2>1, <2>2, <2>3, <2>4
<1>12. \A o \in Heap' : /\ o \in kept <=> Relisted(o)
                        /\ Relisted(o) => IsOld(a[o]) /\ Touched(a[o]) = Older(age[o]) /\ c[o] = "gray"
                        /\ ~Relisted(o) => a[o] = Older(age[o]) /\ c[o] = Recolored(o)
  BY <1>3, <1>2, <1>5, <1>9, <1>11, YoungObjects DEF D, a, c
<1>13. \A o \in Obj : o \notin Heap' => o \notin kept /\ c[o] = "none" /\ a[o] \in Ages
  BY <1>3, <1>2, <1>5, <1>9, <1>11, YoungOthers DEF D, a, c
<1>14. \A o \in Heap : age[o] \in Ages /\ o \in Obj
  BY <1>4 DEF TypeOK
<1>15. \A o \in Heap' : o \in Heap /\ o \in Obj
  BY <1>11, <1>14
<1>16. \A o \in Heap' : color'[o] = Recolored(o)
  <2> SUFFICES ASSUME NEW o \in Heap' PROVE color'[o] = Recolored(o)
    OBVIOUS
  <2>1. color'[o] = IF o \in kept \ Threads THEN "black" ELSE c[o]
    BY <1>1, <1>15
  <2>2. o \notin Threads /\ Relisted(o) => Recolored(o) = "black"
    BY DEF Relisted, Recolored
  <2>3. o \in Threads /\ Relisted(o) => Recolored(o) = "gray"
    BY <1>15, GenAssumption DEF Relisted, Recolored
  <2> QED
    BY <1>12, <2>1, <2>2, <2>3
<1>17. \A o \in Heap' : age'[o] = Older(age[o])
  BY <1>1, <1>12, <1>15
<1>18. \A o \in Heap' : age'[o] = "old1" => a[o] = "old1"
  <2> SUFFICES ASSUME NEW o \in Heap', age'[o] = "old1" PROVE a[o] = "old1"
    OBVIOUS
  <2>1. age'[o] = IF o \in kept THEN Touched(a[o]) ELSE a[o]
    BY <1>1, <1>15
  <2> QED
    BY <2>1 DEF Touched
<1>19. kept \subseteq Heap'
  <2>1. kept \subseteq Obj
    <3>1. at.again \subseteq at.visited /\ at.visited \subseteq Heap
      BY <1>2 DEF YoungMark
    <3> QED
      BY <1>4, <3>1 DEF kept
  <2> QED
    BY <1>13, <2>1
<1>20. \A o : o \in grayagain' <=> o \in Heap' /\ Relisted(o)
  <2>1. ASSUME NEW o \in kept PROVE o \in Threads \/ Touched(a[o]) = "touched2"
    <3>1. Relisted(o) /\ Touched(a[o]) = Older(age[o])
      BY <1>12, <1>19
    <3> QED
      BY <3>1 DEF Relisted, Older
  <2> QED
    BY <1>1, <1>12, <1>19, <2>1
<1>21. \A o \in Obj : o \notin Heap' => color'[o] = "none" /\ age'[o] \in Ages
  BY <1>1, <1>13
<1>22. color' \in [Obj -> Colors] /\ age' \in [Obj -> Ages]
  <2>1. \A o \in Heap' : Recolored(o) \in Colors /\ Older(age[o]) \in Ages
    BY <1>14, <1>15 DEF Recolored, Colors, Older, Ages
  <2>2. \A o \in Obj : color'[o] \in Colors /\ age'[o] \in Ages
    BY <1>16, <1>17, <1>21, <2>1 DEF Colors
  <2> QED
    BY <1>1, <2>2
<1>23. asserted' = TRUE
  <2>1. \A o \in kept : IsOld(a[o])
    BY <1>12, <1>19
  <2>2. \A o \in l.dead : ~IsOld(at.age[o])
    <3> SUFFICES ASSUME NEW o \in l.dead PROVE ~IsOld(at.age[o])
      OBVIOUS
    <3>1. o \in Heap /\ color[o] = "white"
      BY <1>8 DEF D, Dead
    <3>2. age[o] \in {"new", "survival"}
      BY <1>9, <3>1 DEF IndInv, GenInv, GrayInv
    <3>3. at.age[o] = age[o]
      BY <1>2, <3>1, <3>2 DEF YoungMark
    <3> QED
      BY <3>2, <3>3 DEF IsOld
  <2>3. asserted = TRUE
    BY <1>4 DEF TypeOK
  <2> QED
    BY <1>1, <1>2, <2>1, <2>2, <2>3
<1>24. /\ refs' = Unreferring(Dead(at)) /\ old1' = First(l.middle \o From(allgc, old1))
       /\ \A o : o \in Heap' <=> o \in Heap /\ o \notin Dead(at)
       /\ firstold1' = First(Kept(l.nursery \o l.middle,
                                  {o \in Obj : YoungAges(at, l)[o] = "old1"}))
       /\ \A o \in Heap' : age'[o] = "old1" => YoungAges(at, l)[o] = "old1"
  BY <1>1, <1>8, <1>11, <1>18 DEF D, a
<1>25. YoungResult(at, l)
  BY <1>1, <1>2, <1>3, <1>4, <1>6, <1>9, <1>16, <1>17, <1>20, <1>21, <1>22, <1>23, <1>24 DEF YoungResult
<1> QED
  BY <1>25

(* nothing that stays refers to what is freed *)
LEMMA YoungKeepsReferred ==
  ASSUME IndInv, kind = "gen", NEW at, YoungMark(at), NEW x \in Heap \ Dead(at), NEW v \in refs[x]
  PROVE  v \in Heap \ Dead(at)
<1>1. v \in Heap
  BY DEF IndInv, RefsInv
<1>2. /\ \A z \in at.visited : \A y \in refs[z] : color[y] = "white" => y \in at.visited
      /\ \/ x \in at.visited \/ color[x] = "white"
         \/ color[x] = "black" /\ age[x] = "old" /\ x \notin Threads
  BY DEF YoungMark
<1>3. SUFFICES ASSUME color[v] = "white" PROVE v \in at.visited
  BY <1>1 DEF Dead
<1>4. CASE x \in at.visited
  BY <1>2, <1>3, <1>4
<1>5. CASE x \notin at.visited
  <2>1. color[x] = "black" /\ age[x] = "old" /\ x \notin Threads
    BY <1>2, <1>5 DEF Dead
  <2>2. age[v] \notin {"new", "survival"}
    BY <2>1 DEF IndInv, GenInv, BlackInv
  <2>3. color[v] # "white"
    BY <1>1, <2>2 DEF IndInv, GenInv, GrayInv
  <2> QED
    BY <1>3, <2>3
<1> QED
  BY <1>4, <1>5

(* nextage as a function of the age *)
LEMMA OlderFacts ==
  ASSUME NEW a \in Ages
  PROVE  /\ Older(a) \in {"survival", "old1", "touched2", "old"}
         /\ Older(a) = "survival" <=> a = "new"
         /\ Older(a) = "old1" <=> a \in {"survival", "old0"}
         /\ Older(a) = "touched2" <=> a = "touched1"
         /\ Older(a) = "old" <=> a \in {"old1", "touched2", "old"}
BY DEF Ages, Older

(* the pointers move up one generation with the objects they point to *)
LEMMA YoungSections ==
  ASSUME IndInv, NEW at, NEW l, YoungResult(at, l)
  PROVE  SectionsInv'
<1>1. /\ kind = "gen" /\ YoungMark(at)
      /\ allgc' = AllgcSwept(l) /\ finobj' = FinobjSwept(l)
      /\ survival' = First(allgc') /\ old1' = First(l.middle \o From(allgc, old1))
      /\ reallyold' = old1
      /\ finobjsur' = First(finobj') /\ finobjold1' = First(l.fmiddle \o l.frest)
      /\ finobjrold' = finobjold1
      /\ firstold1' = First(Kept(l.nursery \o l.middle,
                                 {o \in Obj : YoungAges(at, l)[o] = "old1"}))
      /\ \A o \in Heap' : age'[o] = Older(age[o])
      /\ \A o \in Heap' : age'[o] = "old1" => YoungAges(at, l)[o] = "old1"
      /\ \A o : o \in Heap' <=> o \in Heap /\ o \notin Dead(at)
  BY DEF YoungResult
<1>2. AllgcSweep(at, l) /\ FinobjSweep(at, l)
  BY DEF YoungResult
<1>3. /\ Sections(allgc, age, survival, old1, reallyold)
      /\ Sections(finobj, age, finobjsur, finobjold1, finobjrold)
      /\ TypeOK /\ GrayInv /\ Heap \subseteq Obj
      /\ allgc \in Seq(Obj) /\ finobj \in Seq(Obj) /\ IsInjective(allgc) /\ IsInjective(finobj)
  BY <1>1, HeapInObj DEF IndInv, TypeOK, ListsInv, GenInv, SectionsInv
<1>4. \A o \in Heap' : o \in Heap /\ o \in Obj /\ age[o] \in Ages /\ age'[o] = Older(age[o])
  BY <1>1, <1>3 DEF TypeOK
<1>5. /\ allgc' \in Seq(Obj) /\ IsInjective(allgc')
      /\ \A x : x \in ToSet(allgc') <=> x \in ToSet(allgc) /\ x \notin Dead(at)
      /\ \A x : x \in ToSet(l.nursery) \cup ToSet(l.middle)
                  <=> x \in ToSet(allgc) /\ x \notin Beyond(allgc, old1) /\ x \notin Dead(at)
      /\ old1' \in ToSet(allgc') \cup {Nil} /\ old1 \in ToSet(allgc') \cup {Nil}
      /\ \A x : x \in Beyond(allgc', old1') <=> x \in Beyond(allgc, survival) /\ x \notin Dead(at)
      /\ \A x : x \in Beyond(allgc', old1) <=> x \in Beyond(allgc, old1)
      /\ \A x \in ToSet(l.nursery) \cup ToSet(l.middle) :
           YoungAges(at, l)[x] = "old1" /\ x \in Obj
             => firstold1' # Nil /\ x \in Beyond(allgc', firstold1')
  <2> DEFINE S == {o \in Obj : YoungAges(at, l)[o] = "old1"}
  <2>1. \A x \in (ToSet(l.nursery) \cup ToSet(l.middle)) \cap S :
           /\ First(Kept(l.nursery \o l.middle, S)) # Nil
           /\ x \in Beyond(AllgcSwept(l), First(Kept(l.nursery \o l.middle, S)))
    BY <1>2 DEF AllgcSweep
  <2>2. firstold1' = First(Kept(l.nursery \o l.middle, S))
    BY <1>1
  <2>3. \A x \in ToSet(l.nursery) \cup ToSet(l.middle) :
           YoungAges(at, l)[x] = "old1" /\ x \in Obj
             => firstold1' # Nil /\ x \in Beyond(allgc', firstold1')
    BY <1>1, <2>1, <2>2
  <2> HIDE DEF S
  <2> QED
    BY <1>1, <1>2, <2>3 DEF AllgcSweep
<1>6. \A x \in Beyond(allgc, survival) : x \in ToSet(allgc)
  BY <1>3, BeyondOrder
<1>7. \A x \in ToSet(allgc') : x \in Heap'
  BY DEF Heap
<1>8. Sections(allgc', age', survival', old1', reallyold')
  <2>1. Beyond(allgc', survival') = ToSet(allgc') /\ survival' \in ToSet(allgc') \cup {Nil}
    BY <1>1, <1>5, BeyondFirst
  <2>2. Beyond(allgc', old1) \subseteq Beyond(allgc', old1')
    <3>1. \A x \in Beyond(allgc, old1) : x \in Beyond(allgc, survival) /\ x \notin Dead(at)
      <4> SUFFICES ASSUME NEW x \in Beyond(allgc, old1)
                   PROVE  x \in Beyond(allgc, survival) /\ x \notin Dead(at)
        OBVIOUS
      <4>1. x \in Beyond(allgc, survival) /\ age[x] \notin {"new", "survival"}
        BY <1>3 DEF Sections
      <4> QED
        BY <1>3, <4>1 DEF Dead, GrayInv
    <3> QED
      BY <1>5, <3>1
  <2>3. Beyond(allgc', old1') \subseteq ToSet(allgc')
    BY <1>5, <1>6
  <2>4. \A o \in ToSet(allgc') : age'[o] # "new"
    BY <1>4, <1>7, OlderFacts
  <2>5. \A o \in Beyond(allgc', old1') : age'[o] \notin {"new", "survival", "old0"}
    <3>1. \A o \in Beyond(allgc', old1') : age[o] # "new" /\ o \in Heap'
      BY <1>3, <1>5, <1>7, <2>3 DEF Sections
    <3> QED
      BY <1>4, <3>1, OlderFacts
  <2>6. \A o \in Beyond(allgc', old1) : age'[o] # "old1"
    <3>1. \A o \in Beyond(allgc', old1) : age[o] \notin {"survival", "old0"} /\ o \in Heap'
      BY <1>3, <1>5, <1>7, <2>2, <2>3 DEF Sections
    <3> QED
      BY <1>4, <3>1, OlderFacts
  <2> QED
    BY <1>1, <1>5, <2>1, <2>2, <2>3, <2>4, <2>5, <2>6 DEF Sections
<1>9. ASSUME NEW o \in ToSet(allgc'), age'[o] = "old1"
      PROVE  firstold1' # Nil /\ o \in Beyond(allgc', firstold1')
  <2>1. o \in Heap' /\ o \in Obj /\ YoungAges(at, l)[o] = "old1" /\ age[o] \in {"survival", "old0"}
    BY <1>1, <1>4, <1>7, <1>9, OlderFacts
  <2>2. o \notin Beyond(allgc, old1)
    BY <1>3, <2>1 DEF Sections
  <2> QED
    BY <1>5, <1>9, <2>1, <2>2
<1>10. /\ finobj' \in Seq(Obj) /\ IsInjective(finobj')
       /\ \A x : x \in ToSet(finobj') <=> x \in ToSet(finobj) /\ x \notin ToSet(at.sep)
       /\ finobjold1' \in ToSet(finobj') \cup {Nil} /\ finobjold1 \in ToSet(finobj') \cup {Nil}
       /\ \A x : x \in Beyond(finobj', finobjold1')
                   <=> x \in Beyond(finobj, finobjsur) /\ x \notin ToSet(at.sep)
       /\ \A x : x \in Beyond(finobj', finobjold1) <=> x \in Beyond(finobj, finobjold1)
  BY <1>1, <1>2 DEF FinobjSweep
<1>11. \A x \in Beyond(finobj, finobjsur) : x \in ToSet(finobj)
  BY <1>3, BeyondOrder
<1>12. \A x \in ToSet(finobj') : x \in Heap'
  BY DEF Heap
<1>13. Sections(finobj', age', finobjsur', finobjold1', finobjrold')
  <2>1. Beyond(finobj', finobjsur') = ToSet(finobj') /\ finobjsur' \in ToSet(finobj') \cup {Nil}
    BY <1>1, <1>10, BeyondFirst
  <2>2. Beyond(finobj', finobjold1) \subseteq Beyond(finobj', finobjold1')
    <3>1. \A x \in Beyond(finobj, finobjold1) : x \in Beyond(finobj, finobjsur) /\ x \notin ToSet(at.sep)
      BY <1>1, <1>3 DEF Sections, YoungMark
    <3> QED
      BY <1>10, <3>1
  <2>3. Beyond(finobj', finobjold1') \subseteq ToSet(finobj')
    BY <1>10, <1>11
  <2>4. \A o \in ToSet(finobj') : age'[o] # "new"
    BY <1>4, <1>12, OlderFacts
  <2>5. \A o \in Beyond(finobj', finobjold1') : age'[o] \notin {"new", "survival", "old0"}
    <3>1. \A o \in Beyond(finobj', finobjold1') : age[o] # "new" /\ o \in Heap'
      BY <1>3, <1>10, <1>12, <2>3 DEF Sections
    <3> QED
      BY <1>4, <3>1, OlderFacts
  <2>6. \A o \in Beyond(finobj', finobjold1) : age'[o] # "old1"
    <3>1. \A o \in Beyond(finobj', finobjold1) : age[o] \notin {"survival", "old0"} /\ o \in Heap'
      BY <1>3, <1>10, <1>12, <2>2, <2>3 DEF Sections
    <3> QED
      BY <1>4, <3>1, OlderFacts
  <2> QED
    BY <1>1, <1>10, <2>1, <2>2, <2>3, <2>4, <2>5, <2>6 DEF Sections
<1> QED
  BY <1>8, <1>9, <1>13 DEF SectionsInv

(* the gray lists hold the touched objects and the old threads again *)
LEMMA YoungGray ==
  ASSUME IndInv, NEW at, NEW l, YoungResult(at, l)
  PROVE  GrayInv'
<1>1. /\ kind = "gen" /\ gray' = {}
      /\ \A o \in Heap' : color'[o] = Recolored(o) /\ age'[o] = Older(age[o])
      /\ \A o : o \in Heap' <=> o \in Heap /\ o \notin Dead(at)
      /\ \A o : o \in grayagain' <=> o \in Heap' /\ Relisted(o)
  BY DEF YoungResult
<1>2. TypeOK /\ GrayInv /\ Heap \subseteq Obj
  BY <1>1, HeapInObj DEF IndInv, GenInv
<1>3. Tables \cap Threads = {}
  BY GenAssumption
<1>4. \A o \in Heap' :
        /\ age[o] \in Ages /\ age'[o] \in {"survival", "old1", "touched2", "old"}
        /\ age'[o] = "survival" <=> age[o] = "new"
        /\ age'[o] = "touched2" <=> age[o] = "touched1"
        /\ color'[o] = "white" <=> age[o] = "new"
        /\ color'[o] = "gray" <=> o \in Threads /\ age[o] \notin {"new", "survival"}
        /\ color'[o] \in {"white", "gray", "black"}
        /\ age'[o] = "old" => age[o] \notin {"new", "survival"}
        /\ age[o] = "touched1" => o \in Tables /\ o \notin Threads
        /\ o \in grayagain' <=> \/ age[o] = "touched1"
                                \/ o \in Threads /\ age[o] \notin {"new", "survival"}
  <2> SUFFICES ASSUME NEW o \in Heap'
               PROVE  /\ age[o] \in Ages /\ age'[o] \in {"survival", "old1", "touched2", "old"}
                      /\ age'[o] = "survival" <=> age[o] = "new"
                      /\ age'[o] = "touched2" <=> age[o] = "touched1"
                      /\ color'[o] = "white" <=> age[o] = "new"
                      /\ color'[o] = "gray" <=> o \in Threads /\ age[o] \notin {"new", "survival"}
                      /\ color'[o] \in {"white", "gray", "black"}
                      /\ age'[o] = "old" => age[o] \notin {"new", "survival"}
                      /\ age[o] = "touched1" => o \in Tables /\ o \notin Threads
                      /\ o \in grayagain' <=> \/ age[o] = "touched1"
                                              \/ o \in Threads /\ age[o] \notin {"new", "survival"}
    OBVIOUS
  <2>1. o \in Heap /\ o \in Obj /\ age[o] \in Ages /\ age'[o] = Older(age[o]) /\ color'[o] = Recolored(o)
    BY <1>1, <1>2 DEF TypeOK
  <2>2. age[o] = "touched1" => o \in Tables /\ o \notin Threads
    BY <1>2, <1>3, <2>1 DEF GrayInv
  <2>3. o \in grayagain' <=> \/ age[o] = "touched1"
                             \/ o \in Threads /\ age[o] \notin {"new", "survival"}
    BY <1>1 DEF Relisted
  <2>4. /\ color'[o] = "white" <=> age[o] = "new"
        /\ color'[o] = "gray" <=> o \in Threads /\ age[o] \notin {"new", "survival"}
        /\ color'[o] \in {"white", "gray", "black"}
    BY <2>1 DEF Recolored
  <2> QED
    BY <2>1, <2>2, <2>3, <2>4, OlderFacts
<1>5. \A o \in Heap' : color'[o] = "white" <=> age'[o] \in {"new", "survival"}
  BY <1>4
<1>6. /\ \A o \in Heap' : color'[o] = "gray" => o \in gray' \cup grayagain'
      /\ \A o \in Heap' : age'[o] \in {"touched1", "old0"} => color'[o] = "gray"
      /\ \A o \in Heap' : age'[o] \in {"touched1", "touched2"} => o \in Tables
      /\ \A o \in Heap' : o \in gray' <=> age'[o] = "old0"
      /\ gray' \subseteq Heap' /\ grayagain' \subseteq Heap'
  BY <1>1, <1>4
<1>7. \A o \in Heap' : age'[o] = "touched2" => color'[o] = "black"
  BY <1>4
<1>8. /\ \A o \in Heap' \ Threads : o \in grayagain' <=> age'[o] \in {"touched1", "touched2"}
      /\ \A o \in Heap' \cap Threads :
           o \in grayagain' <=> age'[o] \in {"old", "old1"} /\ color'[o] = "gray"
      /\ \A o \in Heap' \cap Threads : age'[o] = "old" => color'[o] = "gray"
  BY <1>4
<1> QED
  BY <1>5, <1>6, <1>7, <1>8 DEF GrayInv

(* youngcollection *)
LEMMA YoungIndInv ==
  ASSUME IndInv, YoungCollection
  PROVE  IndInv'
<1>1. PICK at, l : YoungResult(at, l)
  BY YoungEffect
<1>2. /\ kind = "gen" /\ closing = "open" /\ UNCHANGED <<kind, closing, running>>
      /\ YoungMark(at) /\ AllgcSweep(at, l) /\ FinobjSweep(at, l) /\ RestSweep(at, l)
      /\ allgc' = AllgcSwept(l) /\ finobj' = FinobjSwept(l) /\ tobefnz' = l.tobefnz
      /\ refs' = Unreferring(Dead(at))
      /\ gray' = {} /\ asserted' = TRUE
      /\ \A o : o \in Heap' <=> o \in Heap /\ o \notin Dead(at)
      /\ color' \in [Obj -> Colors] /\ age' \in [Obj -> Ages]
      /\ \A o \in Obj : o \notin Heap' => color'[o] = "none"
      /\ \A o \in Heap' : color'[o] = Recolored(o) /\ age'[o] = Older(age[o])
      /\ \A o : o \in grayagain' <=> o \in Heap' /\ Relisted(o)
  BY <1>1 DEF YoungResult
<1>3. /\ TypeOK /\ Heap \subseteq Obj /\ GrayInv /\ BlackInv
  BY <1>2, HeapInObj DEF IndInv, GenInv
<1>4. /\ allgc' \in Seq(Obj) /\ IsInjective(allgc')
      /\ \A x : x \in ToSet(allgc') <=> x \in ToSet(allgc) /\ x \notin Dead(at)
  BY <1>2 DEF AllgcSweep
<1>5. /\ finobj' \in Seq(Obj) /\ IsInjective(finobj')
      /\ \A x : x \in ToSet(finobj') <=> x \in ToSet(finobj) /\ x \notin ToSet(at.sep)
  BY <1>2 DEF FinobjSweep
<1>6. /\ tobefnz' \in Seq(Obj) /\ IsInjective(tobefnz')
      /\ \A x : x \in ToSet(tobefnz') <=> x \in ToSet(tobefnz) \/ x \in ToSet(at.sep)
  BY <1>2 DEF RestSweep
<1>7. TypeOK'
  <2>1. grayagain' \subseteq Obj
    BY <1>2, <1>3
  <2>2. refs' \in [Obj -> SUBSET Obj]
    BY <1>2, <1>3 DEF Unreferring, TypeOK
  <2> QED
    BY <1>2, <1>3, <1>4, <1>5, <1>6, <2>1, <2>2 DEF TypeOK
<1>8. ListsInv'
  <2>1. Main \in Heap' /\ running \in Heap'
    BY <1>2 DEF IndInv, ListsInv, YoungMark, Dead
  <2>2. \A o \in Obj : o \in Heap' <=> color'[o] # "none"
    BY <1>2 DEF Recolored
  <2>3. ToSet(at.sep) \subseteq ToSet(finobj)
    BY <1>2 DEF YoungMark
  <2>4. /\ ToSet(allgc') \cap ToSet(finobj') = {}
        /\ ToSet(allgc') \cap ToSet(tobefnz') = {}
        /\ ToSet(finobj') \cap ToSet(tobefnz') = {}
    BY <1>4, <1>5, <1>6, <2>3 DEF IndInv, ListsInv
  <2> QED
    BY <1>2, <1>4, <1>5, <1>6, <2>1, <2>2, <2>4 DEF ListsInv
<1>9. \A x \in Heap' : refs'[x] = refs[x] /\ refs[x] \subseteq Heap' /\ x \in Heap \ Dead(at)
  <2> SUFFICES ASSUME NEW x \in Heap' PROVE refs'[x] = refs[x] /\ refs[x] \subseteq Heap' /\ x \in Heap \ Dead(at)
    OBVIOUS
  <2>1. x \in Heap \ Dead(at) /\ x \in Obj
    BY <1>2, <1>3
  <2>2. refs'[x] = refs[x]
    BY <1>2, <2>1 DEF Unreferring
  <2>3. \A v \in refs[x] : v \in Heap \ Dead(at)
    BY <1>2, <2>1, YoungKeepsReferred
  <2> QED
    BY <1>2, <2>1, <2>2, <2>3
<1>10. RefsInv'
  <2>1. ASSUME NEW o \in Obj, o \notin Heap' PROVE refs'[o] = {}
    <3>1. o \in Dead(at) \/ refs[o] = {}
      BY <1>2, <2>1 DEF IndInv, RefsInv
    <3> QED
      BY <1>2, <2>1, <3>1 DEF Unreferring
  <2> QED
    BY <1>9, <2>1 DEF RefsInv
<1>11. ModeInv'
  BY <1>2 DEF ModeInv
<1>12. SectionsInv' /\ GrayInv'
  BY <1>1, YoungSections, YoungGray
<1>13. BlackInv'
  <2> SUFFICES ASSUME NEW x \in Heap' \ Threads, color'[x] = "black", NEW v \in refs'[x]
               PROVE  age'[v] # "new" /\ (age'[x] = "old" => age'[v] # "survival")
    BY DEF BlackInv
  <2>1. v \in refs[x] /\ v \in Heap' /\ x \in Heap \ Threads
    BY <1>9
  <2>2. /\ age[x] \in Ages /\ age[v] \in Ages
        /\ age'[x] = Older(age[x]) /\ age'[v] = Older(age[v])
    BY <1>2, <1>3, <2>1 DEF TypeOK
  <2>3. age'[v] # "new"
    BY <2>2, OlderFacts
  <2>4. ASSUME age'[x] = "old" PROVE age[v] # "new"
    <3>1. age[x] \in {"old1", "touched2", "old"}
      BY <2>2, <2>4, OlderFacts
    <3>2. color[x] # "white" /\ color[x] # "none" /\ color[x] \in Colors
      BY <1>3, <2>1, <3>1 DEF IndInv, ListsInv, GrayInv, TypeOK
    <3>3. color[x] # "gray"
      BY <1>3, <2>1, <3>1 DEF GrayInv
    <3>4. color[x] = "black"
      BY <3>2, <3>3 DEF Colors
    <3> QED
      BY <1>3, <2>1, <3>4 DEF BlackInv
  <2> QED
    BY <2>2, <2>3, <2>4, OlderFacts
<1> QED
  BY <1>2, <1>7, <1>8, <1>10, <1>11, <1>12, <1>13 DEF IndInv, GenInv

-----------------------------------------------------------------------------
(* Every step. *)

(* nothing happens *)
LEMMA Unchanging == ASSUME IndInv, UNCHANGED vars PROVE IndInv'
<1>1. /\ refs' = refs /\ running' = running
      /\ UNCHANGED <<marks, lists, pointers, kind, closing, asserted>>
  BY DEF vars, mode
<1>2. /\ refs \in [Obj -> SUBSET Obj] /\ running \in Threads \cap Heap
      /\ \A x \in Heap : refs[x] \subseteq Heap
      /\ \A x \in Obj : x \notin Heap => refs[x] = {}
  BY DEF IndInv, TypeOK, ListsInv, RefsInv
<1> QED
  BY <1>1, <1>2, RefsChange

(* a store with its barrier, forward, back or not needed *)
LEMMA StoreIndInv ==
  ASSUME IndInv, NEW o \in Obj, NEW v \in Obj, Store(o, v)
  PROVE  IndInv'
BY StoreUnwatched, StoreBack, StoreForward

(* every step keeps the invariant *)
LEMMA NextIndInv ==
  ASSUME IndInv, [Next]_vars
  PROVE  IndInv'
<1>1. CASE ProgramStep
  <2>1. ASSUME NEW o \in Obj, New(o) PROVE IndInv'
    BY <2>1, NewIndInv
  <2>2. ASSUME NEW o \in Obj, SetFinalizer(o) PROVE IndInv'
    BY <2>2, SetFinalizerIndInv
  <2>3. ASSUME NEW x \in Obj, NEW v \in Obj, Load(x, v) \/ Drop(x, v) \/ XMove(x, v) PROVE IndInv'
    BY <2>3, MovesIndInv
  <2>4. ASSUME NEW x \in Obj, NEW v \in Obj, Store(x, v) PROVE IndInv'
    BY <2>4, StoreIndInv
  <2>5. ASSUME NEW th \in Threads, Switch(th) PROVE IndInv'
    BY <2>5, MovesIndInv
  <2> QED
    BY <1>1, <2>1, <2>2, <2>3, <2>4, <2>5 DEF ProgramStep
<1>2. CASE CollectorStep
  <2>1. CASE YoungCollection
    BY <2>1, YoungIndInv
  <2>2. CASE ChangeToInc
    BY <2>2, ChangeToIncIndInv
  <2>3. CASE ChangeToGen \/ MajorCollection \/ StepGenFull \/ Emergency
    BY <2>3, FullCollectionsIndInv
  <2> QED
    BY <1>2, <2>1, <2>2, <2>3 DEF CollectorStep
<1>3. CASE FinalizerStep
  <2>1. CASE CallFin
    BY <2>1, CallFinIndInv
  <2>2. CASE FinReturn \/ BatchDone
    BY <2>2, MovesIndInv
  <2>3. CASE Close
    BY <2>3, CloseIndInv
  <2>4. CASE FreeAllObjects
    BY <2>4, FreeAllObjectsIndInv
  <2> QED
    BY <1>3, <2>1, <2>2, <2>3, <2>4 DEF FinalizerStep
<1>4. CASE UNCHANGED vars
  BY <1>4, Unchanging
<1> QED
  BY <1>1, <1>2, <1>3, <1>4 DEF Next

(* The inductive invariant holds in every state: the generations are where *)
(* the pointers say, colours, ages and gray lists agree, and nothing       *)
(* dangles.                                                                *)
THEOREM GenInvariance == Spec => []IndInv
<1>1. Init => IndInv
  BY InitIndInv
<1>2. IndInv /\ [Next]_vars => IndInv'
  BY NextIndInv
<1> QED
  BY <1>1, <1>2, PTL DEF Spec

(* ReachableAllocated, for any objects: a minor collection, which visits   *)
(* the young and the touched objects only (youngcollection), never frees   *)
(* what the program can reach, what waits for its finalizer or what such   *)
(* an object refers to.                                                    *)
THEOREM NothingReachableFreed == Spec => []ReachableAllocated
<1>1. IndInv => ReachableAllocated
  BY IndInvImplies
<1> QED
  BY <1>1, GenInvariance, PTL

(* OldPointsToOld, what lgc.h promises of an old object: the barriers      *)
(* (luaC_barrier_, luaC_barrierback_) and the ages keep it true at every   *)
(* step between collections, with any number of objects.                   *)
THEOREM OldToOld == Spec => []OldPointsToOld
<1>1. IndInv => OldPointsToOld
  BY IndInvImplies
<1> QED
  BY <1>1, GenInvariance, PTL

(* GenerationsDelimited: the pointers into allgc and finobj delimit the    *)
(* generations after sweepgen, separatetobefnz, checkpointer and           *)
(* udata2finalize have moved objects and pointers, in lists of any length. *)
THEOREM PointersDelimit == Spec => []GenerationsDelimited
<1>1. IndInv => GenerationsDelimited
  BY IndInvImplies
<1> QED
  BY <1>1, GenInvariance, PTL

(* GrayListsExact: an object is in a gray list exactly when the next minor *)
(* collection has to visit it (correctgraylist), and no assertion of the   *)
(* collector about ages and colours fails.                                 *)
THEOREM GrayLists == Spec => []GrayListsExact
<1>1. IndInv => GrayListsExact
  BY IndInvImplies
<1> QED
  BY <1>1, GenInvariance, PTL

-----------------------------------------------------------------------------
(* No step frees an object that has a finalizer. *)

KeepsFinalizable ==
  \A o \in ToSet(finobj) \cup ToSet(tobefnz) :
    o \in Heap' \/ (closing' = "closed" /\ finobj = <<>>)

(* a full collection frees nothing with a finalizer *)
LEMMA FullKeepsFinalizable ==
  ASSUME IndInv, ChangeToGen \/ MajorCollection \/ StepGenFull \/ Emergency
  PROVE  KeepsFinalizable
<1> DEFINE m == FullAtomic[1]
           sep == FullAtomic[2]
<1>1. FullMark(m, sep)
  BY FullAtomicFacts
<1>2. FullSwept(m, sep)
  BY DEF ChangeToGen, MajorCollection, StepGenFull, Emergency, EnterGen, FullCycle, ToGen, ToPause
<1> HIDE DEF m, sep
<1>3. Heap' = m
  BY <1>1, <1>2, FullSweptFacts
<1>4. ToSet(finobj) \subseteq m /\ ToSet(tobefnz) \subseteq m
  BY <1>1 DEF FullMark
<1> QED
  BY <1>3, <1>4 DEF KeepsFinalizable

(* a young collection frees nothing with a finalizer *)
LEMMA YoungKeepsFinalizable ==
  ASSUME IndInv, YoungCollection
  PROVE  KeepsFinalizable
<1>1. PICK at, l : YoungResult(at, l)
  BY YoungEffect
<1>2. YoungMark(at) /\ \A o : o \in Heap' <=> o \in Heap /\ o \notin Dead(at)
  BY <1>1 DEF YoungResult
<1>3. \A o \in ToSet(finobj) \cup ToSet(tobefnz) : o \in Heap /\ o \notin Dead(at)
  BY <1>2 DEF YoungMark, Dead, Heap
<1> QED
  BY <1>2, <1>3 DEF KeepsFinalizable

(* the steps that free nothing *)
LEMMA AllocatedStay ==
  ASSUME IndInv, IndInv', \A o \in Obj : color[o] # "none" => color'[o] # "none"
  PROVE  KeepsFinalizable
<1>1. /\ Heap \subseteq Obj
      /\ \A o \in Obj : o \in Heap <=> color[o] # "none"
      /\ \A o \in Obj : o \in Heap' <=> color'[o] # "none"
  BY HeapInObj DEF IndInv, ListsInv
<1>2. ToSet(finobj) \cup ToSet(tobefnz) \subseteq Heap
  BY DEF Heap
<1> QED
  BY <1>1, <1>2 DEF KeepsFinalizable

(* the program frees nothing *)
LEMMA ProgramKeepsFinalizable ==
  ASSUME IndInv, IndInv', ProgramStep
  PROVE  KeepsFinalizable
<1>1. color \in [Obj -> Colors]
  BY DEF IndInv, TypeOK
<1>2. ASSUME UNCHANGED color PROVE KeepsFinalizable
  BY <1>2, AllocatedStay
<1>3. ASSUME NEW o \in Obj, New(o) PROVE KeepsFinalizable
  <2>1. color' = [color EXCEPT ![o] = "white"]
    BY <1>3 DEF New
  <2> QED
    BY <1>1, <2>1, AllocatedStay
<1>4. ASSUME NEW o \in Obj, NEW v \in Obj, Store(o, v) PROVE KeepsFinalizable
  <2>1. \/ color' = color
        \/ color' = [color EXCEPT ![o] = "gray"] \/ color' = [color EXCEPT ![v] = "gray"]
    BY <1>4 DEF Store, BarrierBack, BarrierForward, marks
  <2>2. \A x \in Obj : color[x] # "none" => color'[x] # "none"
    BY <1>1, <2>1
  <2> QED
    BY <2>2, AllocatedStay
<1>5. ASSUME NEW x \in Obj, NEW v \in Obj, Load(x, v) \/ Drop(x, v) \/ XMove(x, v)
      PROVE  UNCHANGED color
  BY <1>5 DEF Load, Drop, XMove, marks
<1>6. ASSUME NEW o \in Obj, SetFinalizer(o) PROVE UNCHANGED color
  BY <1>6 DEF SetFinalizer, marks
<1>7. ASSUME NEW th \in Threads, Switch(th) PROVE UNCHANGED color
  BY <1>7 DEF Switch, marks
<1> QED
  BY <1>2, <1>3, <1>4, <1>5, <1>6, <1>7 DEF ProgramStep

(* the steps with finalizers: registering, calling, closing *)
LEMMA FinalizerKeepsFinalizable ==
  ASSUME IndInv, IndInv', FinalizerStep \/ ChangeToInc
  PROVE  KeepsFinalizable
<1>1. TypeOK
  BY DEF IndInv
<1>2. CASE UNCHANGED color
  BY <1>2, AllocatedStay
<1>3. CASE color' = AllWhite
  <2>1. \A o \in Obj : color[o] # "none" => color'[o] # "none"
    BY <1>1, <1>3, AllWhiteFacts
  <2> QED
    BY <2>1, AllocatedStay
<1>4. CASE FreeAllObjects
  <2>1. closing' = "closed" /\ closing = "closing"
    BY <1>4 DEF FreeAllObjects
  <2>2. finobj = <<>>
    BY <2>1 DEF IndInv, ModeInv
  <2> QED
    BY <2>1, <2>2 DEF KeepsFinalizable
<1>5. CASE CallFin \/ FinReturn \/ BatchDone
  BY <1>2, <1>5 DEF CallFin, FinReturn, BatchDone, marks
<1>6. CASE Close
  BY <1>2, <1>3, <1>6 DEF Close
<1>7. CASE ChangeToInc
  BY <1>2, <1>3, <1>7 DEF ChangeToInc, marks
<1> QED
  BY <1>4, <1>5, <1>6, <1>7 DEF FinalizerStep

(* every step keeps them *)
LEMMA NextKeepsFinalizable ==
  ASSUME IndInv, Next
  PROVE  KeepsFinalizable
<1>1. IndInv'
  BY NextIndInv
<1>2. CASE ProgramStep
  BY <1>1, <1>2, ProgramKeepsFinalizable
<1>3. CASE FinalizerStep \/ ChangeToInc
  BY <1>1, <1>3, FinalizerKeepsFinalizable
<1>4. CASE YoungCollection
  BY <1>4, YoungKeepsFinalizable
<1>5. CASE ChangeToGen \/ MajorCollection \/ StepGenFull \/ Emergency
  BY <1>5, FullKeepsFinalizable
<1> QED
  BY <1>2, <1>3, <1>4, <1>5 DEF Next, CollectorStep

(* FinalizesFirst: every collection keeps an object with a finalizer until *)
(* it is called (separatetobefnz, GCTM); lua_close frees what is left when *)
(* finobj is empty (luaC_freeallobjects).                                  *)
THEOREM NeverFreedUnfinalized == Spec => FinalizesFirst
<1>1. IndInv /\ [Next]_vars => [KeepsFinalizable]_vars
  BY NextKeepsFinalizable
<1>2. Spec => [][KeepsFinalizable]_vars
  BY <1>1, GenInvariance, PTL DEF Spec
<1> QED
  BY <1>2 DEF FinalizesFirst, KeepsFinalizable
=============================================================================
