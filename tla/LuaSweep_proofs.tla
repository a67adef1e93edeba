--------------------------- MODULE LuaSweep_proofs ---------------------------
(* The three lists of the collector and the pointer that sweeps them, for  *)
(* any objects, any number of objects a step and any program.              *)
EXTENDS LuaSweep, DataLemmas

(* The objects behind q in a list, and those the sweep still has to see:   *)
(* p is NULL, the header h of the list or an object of it.                 *)
Behind(list, q) == {y \in ToSet(list) : Before(list, q, y)}
Ahead(list, h, p) ==
  IF p = "NULL" THEN {} ELSE IF p = h THEN ToSet(list) ELSE Behind(list, p)

AllAre(S, c) == \A o \in S : color[o] = c

-----------------------------------------------------------------------------
(* The inductive invariant.                                                *)

Types ==
  /\ TypeOK
  /\ gcstate \in {"propagate", "enteratomic", "swpallgc", "swpfinobj", "swptobefnz",
                  "swpend", "callfin", "pause"}
  /\ fin \in {"idle", "batch", "user"}
  /\ fullgc \in {"none", "abort", "cycle", "finish"}
  /\ emergencygc \in {"none", "abort", "cycle", "finish"}
  /\ closing \in {"open", "closing", "closed"}

(* Where the program and the finalizers are; without memory failures while *)
(* the state is closed nothing collects any more then.                     *)
Control ==
  /\ fin = "batch" => emergencygc = "none"
  /\ closing # "open" => emergencygc = "none" /\ finobj = <<>>
  /\ closing = "closed" => fin = "idle"
  /\ fin # "idle" /\ closing = "open" /\ emergencygc = "none" => gcstate \in {"callfin", "pause"}

PointerInList ==
  /\ gcstate = "swpallgc" => sweepgc \in {"NULL"} \cup ToSet(allgc)
  /\ gcstate = "swpfinobj" /\ closing = "open" => sweepgc \in {"NULL", "finobj"} \cup ToSet(finobj)
  /\ gcstate = "swptobefnz" /\ closing = "open" =>
       sweepgc \in {"NULL", "tobefnz"} \cup ToSet(tobefnz)
  /\ gcstate \notin {"swpallgc", "swpfinobj", "swptobefnz"} => sweepgc = "NULL"

(* What is dead, and what the sweep has left behind it. *)
Colors ==
  /\ color[MainThread] # "other"
  /\ gcstate \in {"propagate", "enteratomic"} => color[MainThread] = "black"
  /\ \A o \in Obj : color[o] = "other" =>
       gcstate = "swpallgc" /\ o \in Ahead(allgc, "allgc", sweepgc)
  /\ gcstate = "swpallgc" => AllAre(ToSet(allgc) \ Ahead(allgc, "allgc", sweepgc), "white")
  /\ gcstate \in {"swpfinobj", "swptobefnz"} => AllAre(ToSet(allgc), "white")
  /\ gcstate = "swpfinobj" /\ closing = "open" =>
       AllAre(ToSet(finobj) \ Ahead(finobj, "finobj", sweepgc), "white")
  /\ gcstate = "swptobefnz" /\ closing = "open" =>
       /\ AllAre(ToSet(finobj), "white")
       /\ AllAre(ToSet(tobefnz) \ Ahead(tobefnz, "tobefnz", sweepgc), "white")
  /\ gcstate \in {"swpend", "callfin", "pause"} =>
       AllAre(ToSet(allgc) \cup ToSet(finobj) \cup ToSet(tobefnz), "white")

SweepInv == Types /\ Control /\ PointerInList /\ Colors

-----------------------------------------------------------------------------
(* The pointer and the list it goes along.                                 *)

(* no object is called like a header or NULL *)
LEMMA NamesApart ==
  /\ MainThread \in Obj /\ MainThread \notin Objects
  /\ \A o \in Obj : o # "NULL" /\ o # "allgc" /\ o # "finobj" /\ o # "tobefnz"
  /\ GCSWEEPMAX \in Nat \ {0} /\ GCFINMAX \in Nat \ {0}
BY SweepAssumption DEF Obj, Headers

(* TypeOK without its quantifier *)
LEMMA ListFacts ==
  ASSUME TypeOK
  PROVE  /\ allgc \in Seq(Obj) /\ finobj \in Seq(Obj) /\ tobefnz \in Seq(Obj)
         /\ IsInjective(allgc) /\ IsInjective(finobj) /\ IsInjective(tobefnz)
         /\ ToSet(allgc) \subseteq Obj /\ ToSet(finobj) \subseteq Obj /\ ToSet(tobefnz) \subseteq Obj
         /\ \A o \in Obj : color[o] # "free" <=>
              o \in ToSet(allgc) \/ o \in ToSet(finobj) \/ o \in ToSet(tobefnz)
         /\ MainThread \in ToSet(allgc)
<1>1. /\ allgc \in Seq(Obj) /\ finobj \in Seq(Obj) /\ tobefnz \in Seq(Obj)
      /\ IsInjective(allgc) /\ IsInjective(finobj) /\ IsInjective(tobefnz)
  BY DEF TypeOK
<1>2. ToSet(allgc) \subseteq Obj /\ ToSet(finobj) \subseteq Obj /\ ToSet(tobefnz) \subseteq Obj
  BY <1>1, Elements
<1>3. \A o \in Obj : color[o] # "free" <=>
              o \in ToSet(allgc) \/ o \in ToSet(finobj) \/ o \in ToSet(tobefnz)
  BY DEF TypeOK
<1>4. MainThread \in ToSet(allgc)
  BY <1>1, Elements DEF TypeOK, Last
<1> QED
  BY <1>1, <1>2, <1>3, <1>4

(* what is behind the k-th element, when none is there twice *)
LEMMA BehindPlace ==
  ASSUME NEW X, NEW list \in Seq(X), IsInjective(list), NEW k \in 1..Len(list)
  PROVE  /\ \A m \in 1..Len(list) : list[m] \in Behind(list, list[k]) <=> k < m
         /\ list[k] \notin Behind(list, list[k])
<1>1. \A m, n \in 1..Len(list) : list[m] = list[n] => m = n
  BY DEF IsInjective
<1>2. \A m \in 1..Len(list) : list[m] \in Behind(list, list[k]) <=> k < m
  BY <1>1, Elements DEF Behind, Before
<1> QED
  BY <1>2

(* r is what is left of the list after its first k elements *)
Suffix(r, list, k) ==
  /\ r \in Seq(Obj) /\ Len(r) = Len(list) - k
  /\ \A m \in 1..Len(r) : r[m] = list[k + m]

(* p is the header of the list, or the 'next' field of its k-th element *)
PointsAfter(p, h, list, k) == IF k = 0 THEN p = h ELSE p = list[k]

(* SubSeq from behind the k-th element gives that suffix *)
LEMMA SuffixOf ==
  ASSUME NEW list \in Seq(Obj), NEW k \in 0..Len(list)
  PROVE  Suffix(SubSeq(list, k + 1, Len(list)), list, k)
<1> DEFINE n == Len(list)
           r == SubSeq(list, k + 1, n)
<1>1. n \in Nat /\ k \in Nat /\ k <= n
  OBVIOUS
<1>2. \A m \in (k + 1)..n : list[m] \in Obj
  BY <1>1, ElementOfSeq
<1>3. /\ r \in Seq(Obj) /\ Len(r) = IF k + 1 <= n THEN n - (k + 1) + 1 ELSE 0
      /\ \A m \in 1..(n - (k + 1) + 1) : r[m] = list[k + 1 + m - 1]
  BY <1>1, <1>2, SubSeqProperties
<1> HIDE DEF r
<1>4. Len(r) = n - k
  BY <1>1, <1>3
<1>5. ASSUME NEW m \in 1..Len(r) PROVE r[m] = list[k + m]
  <2>1. m \in 1..(n - (k + 1) + 1) /\ k + 1 + m - 1 = k + m
    BY <1>1, <1>4
  <2> QED
    BY <1>3, <2>1
<1> QED
  BY <1>3, <1>4, <1>5 DEF Suffix, r

(* Rest(p) is a suffix of the list p points into *)
LEMMA RestFacts ==
  ASSUME TypeOK, NEW h \in Headers, NEW p \in {h} \cup ToSet(ListNamed(h))
  PROVE  /\ ListNamed(h) \in Seq(Obj) /\ IsInjective(ListNamed(h))
         /\ \E k \in 0..Len(ListNamed(h)) :
              Suffix(Rest(p), ListNamed(h), k) /\ PointsAfter(p, h, ListNamed(h), k)
<1> DEFINE list == ListNamed(h)
<1>1. list \in Seq(Obj) /\ IsInjective(list) /\ list \in {allgc, finobj, tobefnz}
  BY ListFacts DEF ListNamed, Headers
<1>2. CASE p = h
  <2>1. Rest(p) = list
    BY <1>2 DEF Rest, ListNamed, Headers
  <2> HIDE DEF list
  <2>2. 0 \in 0..Len(list) /\ Suffix(list, list, 0)
    BY <1>1 DEF Suffix
  <2> QED
    BY <1>1, <1>2, <2>1, <2>2 DEF PointsAfter, list
<1>3. CASE p \in ToSet(list)
  <2>1. p \in Obj
    BY <1>1, <1>3, Elements
  <2>2. Rest(p) = After(Holding(p), p)
    BY <2>1, NamesApart DEF Rest
  <2>3. Holding(p) = list
    <3>1. \A l \in {allgc, finobj, tobefnz} : Contains(l, p) <=> p \in ToSet(l)
      <4> SUFFICES ASSUME NEW l \in {allgc, finobj, tobefnz}
                   PROVE  Contains(l, p) <=> p \in ToSet(l)
        OBVIOUS
      <4>1. l \in Seq(Obj)
        BY ListFacts
      <4> QED
        BY <4>1, Elements DEF Contains
    <3>2. \A l \in {allgc, finobj, tobefnz} : p \in ToSet(l) => l = list
      BY <1>1, <1>3 DEF TypeOK
    <3>3. \E l \in {allgc, finobj, tobefnz} : Contains(l, p)
      BY <1>1, <1>3, <3>1
    <3> HIDE DEF list
    <3> QED
      BY <3>1, <3>2, <3>3 DEF Holding
  <2> HIDE DEF list
  <2> DEFINE k == Place(list, p)
  <2>4. k \in 1..Len(list) /\ list[k] = p
    BY <1>1, <1>3, Elements DEF Place
  <2>5. Rest(p) = SubSeq(list, k + 1, Len(list))
    BY <2>2, <2>3 DEF After
  <2> HIDE DEF k
  <2>6. k \in 0..Len(list) /\ k # 0
    BY <2>4
  <2>7. Suffix(Rest(p), list, k)
    BY <1>1, <2>5, <2>6, SuffixOf
  <2> QED
    BY <1>1, <2>4, <2>6, <2>7 DEF PointsAfter, list
<1> QED
  BY <1>2, <1>3

(* what is ahead of a pointer *)
LEMMA AheadPlace ==
  ASSUME NEW list \in Seq(Obj), IsInjective(list), NEW h \in Headers,
         NEW p \in {h} \cup ToSet(list), NEW k \in 0..Len(list), PointsAfter(p, h, list, k)
  PROVE  Ahead(list, h, p) = {list[m] : m \in (k + 1)..Len(list)}
<1>1. /\ p # "NULL" /\ (k # 0 => p # h) /\ Len(list) \in Nat /\ k \in Nat
      /\ \A e \in ToSet(list) : \E m \in 1..Len(list) : list[m] = e
      /\ \A m \in 1..Len(list) : list[m] \in ToSet(list)
  <2>1. \A e \in ToSet(list) : e \in Obj
    BY Elements
  <2>2. k # 0 => p \in ToSet(list)
    BY Elements DEF PointsAfter
  <2> QED
    BY <2>1, <2>2, NamesApart, Elements DEF Headers
<1>2. CASE k = 0
  <2>1. Ahead(list, h, p) = ToSet(list) /\ (k + 1)..Len(list) = 1..Len(list)
    BY <1>1, <1>2 DEF Ahead, PointsAfter
  <2> QED
    BY <1>1, <2>1
<1>3. CASE k # 0
  <2>1. Ahead(list, h, p) = Behind(list, list[k]) /\ k \in 1..Len(list)
    BY <1>1, <1>3 DEF Ahead, PointsAfter
  <2>2. \A m \in 1..Len(list) : list[m] \in Behind(list, list[k]) <=> k < m
    BY <2>1, BehindPlace
  <2>3. Behind(list, list[k]) \subseteq ToSet(list)
    BY DEF Behind
  <2>4. \A m \in (k + 1)..Len(list) : m \in 1..Len(list) /\ k < m
    BY <1>1
  <2>5. \A m \in 1..Len(list) : k < m => m \in (k + 1)..Len(list)
    BY <1>1
  <2> QED
    BY <1>1, <2>1, <2>2, <2>3, <2>4, <2>5
<1> QED
  BY <1>2, <1>3

(* what Rest gives and what is ahead are the same objects *)
LEMMA RestIsAhead ==
  ASSUME TypeOK, NEW h \in Headers, NEW p \in {"NULL", h} \cup ToSet(ListNamed(h))
  PROVE  ToSet(Rest(p)) = Ahead(ListNamed(h), h, p)
<1> DEFINE list == ListNamed(h)
<1>1. CASE p = "NULL"
  <2>1. Rest(p) = <<>>
    BY <1>1 DEF Rest
  <2> QED
    BY <1>1, <2>1 DEF Ahead, ToSet
<1>2. CASE p # "NULL"
  <2>1. /\ list \in Seq(Obj) /\ IsInjective(list)
        /\ \E k \in 0..Len(list) : Suffix(Rest(p), list, k) /\ PointsAfter(p, h, list, k)
    BY <1>2, RestFacts
  <2>2. PICK k \in 0..Len(list) : Suffix(Rest(p), list, k) /\ PointsAfter(p, h, list, k)
    BY <2>1
  <2> HIDE DEF list
  <2>3. Ahead(list, h, p) = {list[m] : m \in (k + 1)..Len(list)}
    BY <1>2, <2>1, <2>2, AheadPlace DEF list
  <2> DEFINE r == Rest(p)
  <2>4. /\ r \in Seq(Obj) /\ Len(r) = Len(list) - k /\ Len(list) \in Nat /\ k \in Nat
        /\ \A m \in 1..Len(r) : r[m] = list[k + m]
    <3>1. Len(list) \in Nat
      BY <2>1
    <3>2. k \in Nat
      BY <3>1
    <3> QED
      BY <2>2, <3>1, <3>2 DEF Suffix
  <2>5. ToSet(r) = {r[m] : m \in 1..Len(r)}
    BY <2>4 DEF ToSet
  <2> HIDE DEF r
  <2>6. ASSUME NEW m \in 1..Len(r) PROVE r[m] \in {list[n] : n \in (k + 1)..Len(list)}
    <3>1. k + m \in (k + 1)..Len(list)
      BY <2>4
    <3> QED
      BY <2>4, <3>1
  <2>7. ASSUME NEW n \in (k + 1)..Len(list) PROVE list[n] \in {r[m] : m \in 1..Len(r)}
    <3>1. n - k \in 1..Len(r) /\ k + (n - k) = n
      BY <2>4
    <3>2. r[n - k] = list[n]
      BY <2>4, <3>1
    <3> QED
      BY <3>1, <3>2
  <2> QED
    BY <2>3, <2>5, <2>6, <2>7 DEF r, list
<1> QED
  BY <1>1, <1>2

(* the objects a traversal sees: the first ones of those that are left, and *)
(* not none of them                                                        *)
FirstOf(seen, r) ==
  /\ seen \in Seq(Obj) /\ Len(seen) <= Len(r) /\ (r # <<>> => seen # <<>>)
  /\ \A m \in 1..Len(seen) : seen[m] = r[m]

(* the first n of those that are left *)
LEMMA FirstFew ==
  ASSUME NEW r \in Seq(Obj), NEW n \in 0..Len(r), r # <<>> => n # 0
  PROVE  FirstOf(SubSeq(r, 1, n), r) /\ Len(SubSeq(r, 1, n)) = n
<1> DEFINE s == SubSeq(r, 1, n)
<1>1. n \in Nat /\ n <= Len(r) /\ Len(r) \in Nat
  OBVIOUS
<1>2. \A m \in 1..n : r[m] \in Obj
  BY <1>1, ElementOfSeq
<1>3. /\ s \in Seq(Obj) /\ Len(s) = IF 1 <= n THEN n - 1 + 1 ELSE 0
      /\ \A m \in 1..(n - 1 + 1) : s[m] = r[1 + m - 1]
  BY <1>1, <1>2, SubSeqProperties
<1> HIDE DEF s
<1>4. Len(s) = n
  BY <1>1, <1>3
<1>5. \A m \in 1..n : s[m] = r[m]
  <2> SUFFICES ASSUME NEW m \in 1..n PROVE s[m] = r[m]
    OBVIOUS
  <2>1. m \in 1..(n - 1 + 1) /\ 1 + m - 1 = m
    BY <1>1
  <2> QED
    BY <1>3, <2>1
<1>6. r # <<>> => s # <<>>
  BY <1>4
<1> QED
  BY <1>1, <1>3, <1>4, <1>5, <1>6 DEF FirstOf, s

(* sweeplist sees the first few *)
LEMMA SweepListFirst ==
  ASSUME NEW p, Rest(p) \in Seq(Obj)
  PROVE  FirstOf(SweepListSees(p), Rest(p))
<1> DEFINE n == Min({GCSWEEPMAX, Len(Rest(p))})
<1>1. GCSWEEPMAX \in Nat /\ GCSWEEPMAX # 0 /\ Len(Rest(p)) \in Nat
  BY NamesApart
<1>2. n \in {GCSWEEPMAX, Len(Rest(p))} /\ n <= Len(Rest(p))
  <2>1. \E x \in {GCSWEEPMAX, Len(Rest(p))} : \A y \in {GCSWEEPMAX, Len(Rest(p))} : x <= y
    BY <1>1
  <2> QED
    BY <2>1 DEF Min
<1>3. n \in 0..Len(Rest(p)) /\ (Rest(p) # <<>> => n # 0)
  <2>1. Rest(p) # <<>> => Len(Rest(p)) # 0
    BY EmptySeq
  <2> HIDE DEF n
  <2> QED
    BY <1>1, <1>2, <2>1
<1> HIDE DEF n
<1>4. FirstOf(SubSeq(Rest(p), 1, n), Rest(p))
  BY <1>3, FirstFew
<1> QED
  BY <1>4 DEF SweepListSees, n

(* sweeptolive sees the first ones up to a live one, or all *)
LEMMA SweepToLiveFirst ==
  ASSUME NEW p, Rest(p) \in Seq(Obj), NEW c
  PROVE  /\ FirstOf(SweepToLiveSees(p, c), Rest(p))
         /\ \/ SweepToLiveSees(p, c) = Rest(p)
            \/ \E o \in ToSet(SweepToLiveSees(p, c)) : c[o] # "other"
<1> DEFINE r == Rest(p)
           live == {k \in 1..Len(r) : c[r[k]] # "other"}
<1>1. CASE live = {}
  <2>1. SweepToLiveSees(p, c) = r
    BY <1>1 DEF SweepToLiveSees
  <2>2. FirstOf(r, r)
    BY DEF FirstOf
  <2> QED
    BY <2>1, <2>2
<1>2. CASE live # {}
  <2> DEFINE n == Min(live)
  <2>1. live \subseteq Nat /\ live \subseteq 1..Len(r)
    OBVIOUS
  <2> HIDE DEF live
  <2>2. \E m \in live : \A k \in live : m <= k
    BY <1>2, <2>1, LeastNatural
  <2>3. n \in live
    BY <2>2 DEF Min
  <2>4. n \in 1..Len(r) /\ c[r[n]] # "other"
    BY <2>1, <2>3 DEF live
  <2> HIDE DEF n
  <2>5. n \in 0..Len(r) /\ n # 0
    BY <2>4
  <2>6. FirstOf(SubSeq(r, 1, n), r) /\ Len(SubSeq(r, 1, n)) = n
    BY <2>5, FirstFew
  <2>7. SweepToLiveSees(p, c) = SubSeq(r, 1, n)
    BY <1>2 DEF SweepToLiveSees, live, n
  <2> DEFINE s == SubSeq(r, 1, n)
  <2>8. s \in Seq(Obj) /\ n \in 1..Len(s) /\ s[n] = r[n]
    BY <2>4, <2>5, <2>6 DEF FirstOf
  <2> HIDE DEF s
  <2>9. s[n] \in ToSet(s)
    BY <2>8, Elements
  <2> QED
    BY <2>4, <2>6, <2>7, <2>8, <2>9 DEF s
<1> QED
  BY <1>1, <1>2

(* Where the pointer goes: past all it has seen that is still in the list. *)
LEMMA PointerMoves ==
  ASSUME NEW list \in Seq(Obj), IsInjective(list), NEW h \in Headers,
         NEW p \in {h} \cup ToSet(list), NEW k \in 0..Len(list),
         Suffix(Rest(p), list, k), PointsAfter(p, h, list, k),
         NEW seen, FirstOf(seen, Rest(p)), NEW c
  PROVE  /\ ToSet(seen) \subseteq Ahead(list, h, p)
         /\ Pointer(p, seen, c) \in {"NULL", p} \cup (ToSet(seen) \ DeadIn(seen, c))
         /\ Pointer(p, seen, c) = p => ToSet(seen) = DeadIn(seen, c)
         /\ Ahead(list, h, Pointer(p, seen, c)) \ DeadIn(seen, c) =
              Ahead(list, h, p) \ ToSet(seen)
<1> DEFINE D == DeadIn(seen, c)
           q == Pointer(p, seen, c)
           r == Rest(p)
           len == Len(list)
           n == Len(seen)
<1>1. /\ len \in Nat /\ k \in Nat /\ k <= len /\ r \in Seq(Obj) /\ Len(r) = len - k
      /\ seen \in Seq(Obj) /\ n \in Nat /\ n <= len - k /\ D \subseteq ToSet(seen)
      /\ \A m \in 1..n : k + m \in 1..len /\ seen[m] = list[k + m]
  <2>1. len \in Nat /\ k \in Nat /\ k <= len /\ r \in Seq(Obj) /\ Len(r) = len - k
    BY DEF Suffix
  <2>2. seen \in Seq(Obj) /\ n \in Nat /\ n <= len - k /\ D \subseteq ToSet(seen)
    BY <2>1 DEF FirstOf, DeadIn
  <2>3. ASSUME NEW m \in 1..n PROVE k + m \in 1..len /\ seen[m] = list[k + m]
    <3>1. m \in 1..Len(r) /\ k + m \in 1..len
      BY <2>1, <2>2
    <3> QED
      BY <3>1 DEF Suffix, FirstOf
  <2> QED
    BY <2>1, <2>2, <2>3
<1>2. /\ \A m1, m2 \in 1..len : list[m1] = list[m2] => m1 = m2
      /\ \A m \in 1..len : list[m] \in ToSet(list) /\ list[m] \in Obj
  BY Elements DEF IsInjective
<1>3. Ahead(list, h, p) = {list[m] : m \in (k + 1)..len}
  BY AheadPlace
<1>4. /\ \A e \in ToSet(seen) : \E m \in 1..n : e = seen[m]
      /\ \A m \in 1..n : seen[m] \in ToSet(seen)
  BY SMTT(30), <1>1, Elements
<1>5. ToSet(seen) \subseteq Ahead(list, h, p)
  <2> SUFFICES ASSUME NEW e \in ToSet(seen) PROVE e \in Ahead(list, h, p)
    OBVIOUS
  <2>1. PICK m \in 1..n : e = seen[m]
    BY <1>4
  <2>2. k + m \in (k + 1)..len /\ e = list[k + m]
    BY <1>1, <2>1
  <2> QED
    BY <1>3, <2>2
<1>6. \A m \in (k + 1)..len : list[m] \in ToSet(seen) <=> m <= k + n
  <2> SUFFICES ASSUME NEW m \in (k + 1)..len PROVE list[m] \in ToSet(seen) <=> m <= k + n
    OBVIOUS
  <2>1. ASSUME m <= k + n PROVE list[m] \in ToSet(seen)
    <3>1. m - k \in 1..n /\ k + (m - k) = m
      BY <1>1, <2>1
    <3>2. seen[m - k] = list[m]
      BY <1>1, <3>1
    <3> QED
      BY <1>4, <3>1, <3>2
  <2>2. ASSUME list[m] \in ToSet(seen) PROVE m <= k + n
    <3>1. PICK m1 \in 1..n : list[m] = seen[m1]
      BY <1>4, <2>2
    <3>2. m \in 1..len /\ k + m1 \in 1..len /\ list[k + m1] = list[m]
      BY <1>1, <3>1
    <3>3. k + m1 = m
      BY <1>2, <3>2
    <3> QED
      BY <1>1, <3>3
  <2> QED
    BY <2>1, <2>2
<1>7. p # "NULL" /\ p \notin ToSet(seen)
  <2>1. p # "NULL"
    BY <1>2, Elements, NamesApart DEF Headers
  <2>2. CASE k = 0
    BY <1>1, <2>2, Elements, NamesApart DEF PointsAfter, Headers
  <2>3. CASE k # 0
    <3>1. k \in 1..len /\ p = list[k]
      BY <1>1, <2>3 DEF PointsAfter
    <3>2. \A m \in 1..n : k + m # k
      BY <1>1
    <3>3. \A m \in 1..n : seen[m] # p
      BY <1>1, <1>2, <3>1, <3>2
    <3> QED
      BY <2>1, <1>4, <3>3
  <2> QED
    BY <2>1, <2>2, <2>3
<1> HIDE DEF D, q, r, len, n
<1>8. CASE n = Len(r)
  <2>1. q = "NULL" /\ n = len - k
    BY <1>1, <1>8 DEF Pointer, q, n, r
  <2>2. Ahead(list, h, q) = {}
    BY <2>1 DEF Ahead
  <2>3. \A m \in (k + 1)..len : m <= k + n
    BY <1>1, <2>1
  <2>4. Ahead(list, h, p) \ ToSet(seen) = {}
    BY <1>3, <1>6, <2>3
  <2> QED
    BY <1>5, <1>7, <2>1, <2>2, <2>4 DEF q, D
<1>9. CASE n # Len(r) /\ ToSet(seen) = D
  <2>1. q = p
    BY <1>9 DEF Pointer, q, n, r, D
  <2> QED
    BY <1>5, <1>7, <1>9, <2>1 DEF q, D
<1>10. CASE n # Len(r) /\ ToSet(seen) # D
  <2> DEFINE S == ToSet(seen) \ D
  <2>1. q = Last(Kept(seen, S))
    BY <1>10 DEF Pointer, Without, q, n, r, D
  <2>2. ToSet(seen) \cap S # {}
    BY <1>1, <1>10
  <2> HIDE DEF S
  <2>3. PICK z \in 1..n : /\ seen[z] \in S /\ q = seen[z]
                          /\ \A m \in (z + 1)..n : seen[m] \notin S
    BY <1>1, <2>1, <2>2, KeptLast DEF n
  <2>4. q \in ToSet(seen) \ D /\ q # p
    BY <1>7, <2>3 DEF S
  <2>5. k + z \in 1..len /\ k + z \in 0..len /\ k + z # 0 /\ q = list[k + z] /\ q \in ToSet(list)
    BY <1>1, <1>2, <2>3
  <2>6. PointsAfter(q, h, list, k + z)
    BY <2>5 DEF PointsAfter
  <2>7. Ahead(list, h, q) = {list[m] : m \in (k + z + 1)..len}
    BY <2>5, <2>6, AheadPlace DEF len
  <2>8. \A m \in (k + z + 1)..len : m \in (k + 1)..len
    BY <1>1, <2>3
  <2>9. ASSUME NEW m \in (k + z + 1)..len, list[m] \notin D PROVE ~(m <= k + n)
    <3> SUFFICES ASSUME m <= k + n PROVE FALSE
      OBVIOUS
    <3>1. m - k \in (z + 1)..n /\ m - k \in 1..n /\ k + (m - k) = m
      BY <1>1, <2>3
    <3>2. seen[m - k] = list[m] /\ seen[m - k] \in ToSet(seen) /\ seen[m - k] \notin S
      BY <1>1, <1>4, <2>3, <3>1
    <3> QED
      BY <2>9, <3>2 DEF S
  <2>10. \A m \in (k + 1)..len : ~(m <= k + n) => m \in (k + z + 1)..len
    BY <1>1, <2>3
  <2>11. ASSUME NEW e \in Ahead(list, h, q) \ D PROVE e \in Ahead(list, h, p) \ ToSet(seen)
    <3>1. PICK m \in (k + z + 1)..len : e = list[m]
      BY <2>7
    <3>2. ~(m <= k + n) /\ m \in (k + 1)..len
      BY <2>8, <2>9, <2>11, <3>1
    <3> QED
      BY <1>3, <1>6, <3>1, <3>2
  <2>12. ASSUME NEW e \in Ahead(list, h, p) \ ToSet(seen) PROVE e \in Ahead(list, h, q) \ D
    <3>1. PICK m \in (k + 1)..len : e = list[m]
      BY <1>3
    <3>2. ~(m <= k + n)
      BY <1>6, <2>12, <3>1
    <3>3. m \in (k + z + 1)..len
      BY <2>10, <3>2
    <3> QED
      BY <1>1, <2>7, <2>12, <3>1, <3>3
  <2> QED
    BY <1>5, <2>4, <2>11, <2>12 DEF q, D
<1> QED
  BY <1>8, <1>9, <1>10

(* the list without the elements of R, the pointer not among them *)
LEMMA AheadWithout ==
  ASSUME NEW list \in Seq(Obj), NEW h \in Headers, NEW R, NEW q \in {"NULL", h} \cup (ToSet(list) \ R)
  PROVE  Ahead(Without(list, R), h, q) = Ahead(list, h, q) \ R
<1> DEFINE w == Without(list, R)
<1>1. /\ ToSet(w) = ToSet(list) \ R
      /\ \A x, y \in ToSet(list) \ R : Before(w, x, y) <=> Before(list, x, y)
  BY WithoutFacts
<1> HIDE DEF w
<1>2. CASE q = "NULL"
  BY <1>2 DEF Ahead
<1>3. CASE q # "NULL" /\ q = h
  BY <1>1, <1>3 DEF Ahead, w
<1>4. CASE q # "NULL" /\ q # h
  <2>1. q \in ToSet(list) \ R
    BY <1>4
  <2>2. Behind(w, q) = Behind(list, q) \ R
    BY <1>1, <2>1 DEF Behind
  <2> QED
    BY <1>4, <2>2 DEF Ahead, w
<1> QED
  BY <1>2, <1>3, <1>4

(* a new object at the head of the list *)
LEMMA AheadPrepended ==
  ASSUME NEW list \in Seq(Obj), NEW h \in Headers, NEW x \in Obj, x \notin ToSet(list),
         NEW q \in {"NULL", h} \cup ToSet(list)
  PROVE  /\ q # h => Ahead(<<x>> \o list, h, q) = Ahead(list, h, q)
         /\ q = h => Ahead(<<x>> \o list, h, q) = {x} \cup Ahead(list, h, q)
<1> DEFINE w == <<x>> \o list
<1>1. /\ ToSet(w) = {x} \cup ToSet(list)
      /\ \A e : e # x => \A y : Before(w, e, y) <=> Before(list, e, y)
  BY Prepended
<1> HIDE DEF w
<1>2. h # "NULL"
  BY DEF Headers
<1>3. CASE q = "NULL" \/ q = h
  BY <1>1, <1>2, <1>3 DEF Ahead, w
<1>4. CASE q # "NULL" /\ q # h
  <2>1. q \in ToSet(list) /\ q # x
    BY <1>4
  <2>2. ~Before(list, q, x)
    <3>1. x \notin ToSet(list)
      OBVIOUS
    <3> QED
      BY <3>1, Elements DEF Before
  <2>3. Behind(w, q) = Behind(list, q)
    BY <1>1, <2>1, <2>2 DEF Behind
  <2> QED
    BY <1>4, <2>3 DEF Ahead, w
<1> QED
  BY <1>3, <1>4

-----------------------------------------------------------------------------
(* Each action preserves the invariant.                                    *)

States == {"propagate", "enteratomic", "swpallgc", "swpfinobj", "swptobefnz",
           "swpend", "callfin", "pause"}
Shades == {"free", "white", "other", "black"}

(* TypeOK without its quantifiers, to be put together again *)
LEMMA TypesNext ==
  ASSUME color' \in [Obj -> Shades],
         allgc' \in Seq(Obj), finobj' \in Seq(Obj), tobefnz' \in Seq(Obj),
         IsInjective(allgc'), IsInjective(finobj'), IsInjective(tobefnz'),
         ToSet(allgc') \cap ToSet(finobj') = {},
         (ToSet(allgc') \cup ToSet(finobj')) \cap ToSet(tobefnz') = {},
         \A o \in Obj : color'[o] # "free" <=>
              o \in ToSet(allgc') \/ o \in ToSet(finobj') \/ o \in ToSet(tobefnz'),
         allgc' # <<>> /\ Last(allgc') = MainThread,
         sweepgc' \in {"NULL"} \cup Headers \cup Obj, called' \in 0..GCFINMAX
  PROVE  TypeOK'
<1>1. /\ ToSet(allgc') \subseteq Obj /\ ToSet(finobj') \subseteq Obj /\ ToSet(tobefnz') \subseteq Obj
  BY Elements
<1>2. ToSet(allgc') \cup ToSet(finobj') \cup ToSet(tobefnz') = {o \in Obj : color'[o] # "free"}
  BY <1>1
<1> QED
  BY <1>2 DEF TypeOK, Shades

(* steps that leave the lists alone and free or allocate nothing *)
LEMMA SameLists ==
  ASSUME TypeOK, UNCHANGED lists, color' \in [Obj -> Shades],
         \A o \in Obj : color'[o] = "free" <=> color[o] = "free",
         sweepgc' \in {"NULL"} \cup Headers \cup Obj, called' \in 0..GCFINMAX
  PROVE  TypeOK'
<1>1. allgc' = allgc /\ finobj' = finobj /\ tobefnz' = tobefnz
  BY DEF lists
<1>2. {o \in Obj : color'[o] # "free"} = {o \in Obj : color[o] # "free"}
  OBVIOUS
<1> QED
  BY <1>1, <1>2 DEF TypeOK, Shades

(* the invariant holds at the start *)
LEMMA InitSweep == Init => SweepInv
<1> SUFFICES ASSUME Init PROVE SweepInv
  OBVIOUS
<1>1. <<MainThread>> \in Seq(Obj) /\ <<>> \in Seq(Obj) /\ MainThread \in Obj /\ 0 \in 0..GCFINMAX
  BY NamesApart
<1>2. /\ allgc = <<MainThread>> /\ finobj = <<>> /\ tobefnz = <<>>
      /\ sweepgc = "NULL" /\ gcstate = "pause" /\ fin = "idle" /\ called = 0
      /\ fullgc = "none" /\ emergencygc = "none" /\ closing = "open"
      /\ color = [o \in Obj |-> IF o = MainThread THEN "white" ELSE "free"]
  BY DEF Init
<1>3. ToSet(allgc) = {MainThread} /\ ToSet(finobj) = {} /\ ToSet(tobefnz) = {}
  BY <1>2 DEF ToSet
<1>4. IsInjective(allgc) /\ IsInjective(finobj) /\ allgc # <<>> /\ Last(allgc) = MainThread
  BY <1>2 DEF IsInjective, Last
<1>5. {o \in Obj : color[o] # "free"} = {MainThread}
  BY <1>1, <1>2
<1>6. TypeOK
  BY <1>1, <1>2, <1>3, <1>4, <1>5 DEF TypeOK
<1>7. Types
  BY <1>2, <1>6 DEF Types
<1>8. Control
  BY <1>2 DEF Control
<1>9. PointerInList
  BY <1>2 DEF PointerInList
<1>10. Colors
  BY <1>1, <1>2, <1>3 DEF Colors, AllAre
<1> QED
  BY <1>7, <1>8, <1>9, <1>10 DEF SweepInv

(* what the invariant says of one object *)
LEMMA ColorFacts ==
  ASSUME SweepInv
  PROVE  /\ color \in [Obj -> Shades] /\ MainThread \in Obj /\ called \in 0..GCFINMAX
         /\ sweepgc \in {"NULL"} \cup Headers \cup Obj /\ gcstate \in States
         /\ TypeOK /\ Types /\ Control /\ PointerInList /\ Colors
         /\ gcstate = "swpallgc" => sweepgc # "allgc"
<1>1. TypeOK /\ Types /\ Control /\ PointerInList /\ Colors
  BY DEF SweepInv, Types
<1>2. gcstate = "swpallgc" => sweepgc # "allgc"
  BY <1>1, ListFacts, NamesApart DEF PointerInList
<1> QED
  BY <1>1, <1>2, NamesApart DEF TypeOK, Types, Shades, States

(* a new object is in front of everything the sweep has still to see *)
LEMMA NewSweep == ASSUME SweepInv, NEW o \in Objects, New(o) PROVE SweepInv'
<1>1. /\ MutatorRuns /\ color[o] = "free" /\ color' = [color EXCEPT ![o] = "white"]
      /\ allgc' = <<o>> \o allgc
      /\ UNCHANGED <<finobj, tobefnz, sweepgc, gcstate, fin, called, fullgc, emergencygc, closing>>
  BY DEF New, loops
<1>2. o \in Obj /\ o # MainThread
  BY NamesApart DEF Obj
<1>3. /\ color \in [Obj -> Shades] /\ called \in 0..GCFINMAX /\ TypeOK
      /\ sweepgc \in {"NULL"} \cup Headers \cup Obj
  BY ColorFacts
<1>4. /\ o \notin ToSet(allgc) /\ o \notin ToSet(finobj) /\ o \notin ToSet(tobefnz)
      /\ allgc \in Seq(Obj) /\ finobj \in Seq(Obj) /\ tobefnz \in Seq(Obj)
      /\ IsInjective(allgc) /\ IsInjective(finobj) /\ IsInjective(tobefnz)
      /\ \A x \in Obj : color[x] # "free" <=>
           x \in ToSet(allgc) \/ x \in ToSet(finobj) \/ x \in ToSet(tobefnz)
  BY <1>1, <1>2, <1>3, ListFacts
<1>5. /\ ToSet(allgc) \cap ToSet(finobj) = {}
      /\ (ToSet(allgc) \cup ToSet(finobj)) \cap ToSet(tobefnz) = {}
      /\ allgc # <<>> /\ Last(allgc) = MainThread
  BY <1>3 DEF TypeOK
<1>6. /\ allgc' \in Seq(Obj) /\ IsInjective(allgc') /\ ToSet(allgc') = {o} \cup ToSet(allgc)
      /\ allgc' # <<>> /\ Last(allgc') = MainThread
  BY <1>1, <1>2, <1>4, <1>5, Prepended
<1>7. /\ color' \in [Obj -> Shades] /\ color'[o] = "white"
      /\ \A x \in Obj : x # o => color'[x] = color[x]
  BY <1>1, <1>2, <1>3 DEF Shades
<1>8. TypeOK'
  <2>1. \A x \in Obj : color'[x] # "free" <=>
          x \in ToSet(allgc') \/ x \in ToSet(finobj') \/ x \in ToSet(tobefnz')
    BY <1>1, <1>4, <1>6, <1>7
  <2>2. ToSet(allgc') \cap ToSet(finobj') = {}
        /\ (ToSet(allgc') \cup ToSet(finobj')) \cap ToSet(tobefnz') = {}
    BY <1>1, <1>4, <1>5, <1>6
  <2> QED
    BY <1>1, <1>3, <1>4, <1>6, <1>7, <2>1, <2>2, TypesNext
<1>9. Types' /\ Control' /\ PointerInList'
  BY <1>1, <1>6, <1>8, ColorFacts DEF Types, Control, PointerInList
<1>10. gcstate = "swpallgc" => Ahead(allgc', "allgc", sweepgc') = Ahead(allgc, "allgc", sweepgc)
  <2> SUFFICES ASSUME gcstate = "swpallgc"
               PROVE  Ahead(allgc', "allgc", sweepgc) = Ahead(allgc, "allgc", sweepgc)
    BY <1>1
  <2>1. sweepgc \in {"NULL"} \cup ToSet(allgc) /\ sweepgc # "allgc" /\ "allgc" \in Headers
    BY ColorFacts DEF PointerInList, Headers
  <2> QED
    BY <1>1, <1>2, <1>4, <2>1, AheadPrepended
<1>11. Colors'
  <2>1. Colors
    BY ColorFacts
  <2>2. ToSet(finobj) \subseteq Obj /\ ToSet(tobefnz) \subseteq Obj /\ ToSet(allgc) \subseteq Obj
    BY <1>3, ListFacts
  <2> QED
    BY <1>1, <1>2, <1>4, <1>6, <1>7, <1>10, <2>1, <2>2 DEF Colors, AllAre
<1> QED
  BY <1>8, <1>9, <1>11 DEF SweepInv

(* One traversal: the list without what it frees (D) and what is taken out *)
(* of it elsewhere (R), and the pointer in it.                             *)
LEMMA Traversal ==
  ASSUME TypeOK, NEW h \in Headers, NEW p \in {h} \cup ToSet(ListNamed(h)), NEW c,
         NEW seen, FirstOf(seen, Rest(p)), NEW R \in SUBSET Obj,
         R \cap Ahead(ListNamed(h), h, p) = {}, Pointer(p, seen, c) \notin R
  PROVE  /\ ToSet(seen) \subseteq Ahead(ListNamed(h), h, p)
         /\ Pointer(p, seen, c) \in {"NULL", p} \cup (ToSet(seen) \ DeadIn(seen, c))
         /\ Pointer(p, seen, c) = p => ToSet(seen) = DeadIn(seen, c)
         /\ Pointer(p, seen, c) \in
              {"NULL", p} \cup ToSet(Without(ListNamed(h), R \cup Freed(seen, c)))
         /\ p \in ToSet(ListNamed(h)) => Pointer(p, seen, c) \in
              {"NULL"} \cup ToSet(Without(ListNamed(h), R \cup Freed(seen, c)))
         /\ \A o : o \in Ahead(Without(ListNamed(h), R \cup Freed(seen, c)), h, Pointer(p, seen, c)) <=>
                    o \in Ahead(ListNamed(h), h, p) /\ o \notin ToSet(seen)
<1> DEFINE list == ListNamed(h)
           D == DeadIn(seen, c)
           q == Pointer(p, seen, c)
           A == Ahead(list, h, p)
<1>1. /\ list \in Seq(Obj) /\ IsInjective(list)
      /\ \E k \in 0..Len(list) : Suffix(Rest(p), list, k) /\ PointsAfter(p, h, list, k)
  BY RestFacts
<1>2. PICK k \in 0..Len(list) : Suffix(Rest(p), list, k) /\ PointsAfter(p, h, list, k)
  BY <1>1
<1>3. /\ ToSet(seen) \subseteq A
      /\ q \in {"NULL", p} \cup (ToSet(seen) \ D)
      /\ q = p => ToSet(seen) = D
      /\ Ahead(list, h, q) \ D = A \ ToSet(seen)
  BY <1>1, <1>2, PointerMoves
<1>4. A \subseteq ToSet(list) /\ D \subseteq ToSet(seen) /\ Freed(seen, c) = D
      /\ (p \in ToSet(list) => p \notin A)
  <2>1. ASSUME p \in ToSet(list) PROVE p \notin A
    <3>1. p # h /\ p # "NULL" /\ \E m \in 1..Len(list) : list[m] = p
      BY <1>1, <2>1, Elements, NamesApart DEF Headers
    <3>2. PICK m \in 1..Len(list) : list[m] = p
      BY <3>1
    <3>3. list[m] \notin Behind(list, list[m])
      BY <1>1, BehindPlace
    <3> QED
      BY <3>1, <3>2, <3>3 DEF Ahead
  <2> QED
    BY <2>1 DEF Ahead, Behind, DeadIn, Freed
<1> HIDE DEF list, D, q, A
<1>5. /\ q \in {"NULL", h} \cup (ToSet(list) \ (R \cup D))
      /\ q \in {"NULL", p} \cup (ToSet(list) \ (R \cup D))
      /\ p \in ToSet(list) => q \in {"NULL"} \cup (ToSet(list) \ (R \cup D))
  <2>1. CASE q = "NULL"
    BY <2>1
  <2>2. CASE q \in ToSet(seen) \ D
    BY <2>2, <1>3, <1>4 DEF A, list, q
  <2>3. CASE q = p
    BY <2>3, <1>3, <1>4 DEF A, list, q
  <2> QED
    BY <1>3, <2>1, <2>2, <2>3
<1>6. Ahead(Without(list, R \cup D), h, q) = Ahead(list, h, q) \ (R \cup D)
  BY <1>1, <1>5, AheadWithout
<1>7. Ahead(Without(list, R \cup D), h, q) = A \ ToSet(seen)
  BY <1>3, <1>6 DEF A, list
<1>8. ToSet(Without(list, R \cup D)) = ToSet(list) \ (R \cup D)
  BY <1>1, WithoutFacts
<1>9. q \in {"NULL", p} \cup ToSet(Without(list, R \cup D))
  BY <1>5, <1>8
<1>10. p \in ToSet(list) => q \in {"NULL"} \cup ToSet(Without(list, R \cup D))
  BY <1>5, <1>8
<1> QED
  BY <1>3, <1>4, <1>7, <1>9, <1>10 DEF list, D, q, A

(* sweeptolive moves the pointer on *)
LEMMA ToLive ==
  ASSUME TypeOK, NEW h \in Headers, NEW p \in {h} \cup ToSet(ListNamed(h)), NEW c,
         NEW seen, seen = SweepToLiveSees(p, c), NEW R \in SUBSET Obj,
         R \cap Ahead(ListNamed(h), h, p) = {}
  PROVE  /\ ToSet(seen) \subseteq Ahead(ListNamed(h), h, p)
         /\ Rest(p) # <<>> => seen # <<>>
         /\ Pointer(p, seen, c) # p
         /\ Pointer(p, seen, c) \in {"NULL"} \cup
              ToSet(Without(ListNamed(h), R \cup Freed(seen, c)))
         /\ \A o : o \in Ahead(Without(ListNamed(h), R \cup Freed(seen, c)), h, Pointer(p, seen, c)) <=>
                    o \in Ahead(ListNamed(h), h, p) /\ o \notin ToSet(seen)
<1> DEFINE list == ListNamed(h)
           q == Pointer(p, seen, c)
<1>1. /\ list \in Seq(Obj) /\ Rest(p) \in Seq(Obj) /\ p # "NULL"
      /\ list \in Seq(Obj)
  BY RestFacts, Elements, NamesApart DEF Suffix, Headers
<1>2. /\ FirstOf(seen, Rest(p))
      /\ seen = Rest(p) \/ \E o \in ToSet(seen) : c[o] # "other"
  BY <1>1, SweepToLiveFirst
<1>3. seen = Rest(p) => q = "NULL"
  BY DEF Pointer
<1>4. (\E o \in ToSet(seen) : c[o] # "other") => ToSet(seen) # DeadIn(seen, c)
  BY DEF DeadIn
<1>5. /\ ToSet(seen) \subseteq Ahead(list, h, p)
      /\ q \in {"NULL", p} \cup (ToSet(seen) \ DeadIn(seen, c))
      /\ q = p => ToSet(seen) = DeadIn(seen, c)
  <2>1. /\ list \in Seq(Obj) /\ IsInjective(list)
        /\ \E k \in 0..Len(list) : Suffix(Rest(p), list, k) /\ PointsAfter(p, h, list, k)
    BY RestFacts
  <2> QED
    BY <1>2, <2>1, PointerMoves
<1>6. q # p
  BY <1>1, <1>2, <1>3, <1>4, <1>5
<1>7. q \notin R
  BY <1>5, <1>6, NamesApart
<1>8. /\ q \in {"NULL", p} \cup ToSet(Without(list, R \cup Freed(seen, c)))
      /\ \A o : o \in Ahead(Without(list, R \cup Freed(seen, c)), h, q) <=>
                 o \in Ahead(list, h, p) /\ o \notin ToSet(seen)
  BY <1>2, <1>7, Traversal
<1>9. Rest(p) # <<>> => seen # <<>>
  BY <1>2 DEF FirstOf
<1> QED
  BY <1>5, <1>6, <1>8, <1>9

(* sweeptolive from the header of a list *)
LEMMA HeaderToLive ==
  ASSUME TypeOK, NEW h \in Headers, NEW c
  PROVE  LET seen == SweepToLiveSees(h, c)
             w    == Without(ListNamed(h), Freed(seen, c))
         IN  /\ ToSet(seen) \subseteq Ahead(ListNamed(h), h, h)
             /\ Pointer(h, seen, c) \in {"NULL"} \cup ToSet(w)
             /\ \A o : o \in Ahead(w, h, Pointer(h, seen, c)) <=>
                        o \in Ahead(ListNamed(h), h, h) /\ o \notin ToSet(seen)
<1> DEFINE seen == SweepToLiveSees(h, c)
           R == {}
<1>1. h \in {h} \cup ToSet(ListNamed(h)) /\ seen = SweepToLiveSees(h, c)
  OBVIOUS
<1>2. R \in SUBSET Obj /\ R \cap Ahead(ListNamed(h), h, h) = {}
  OBVIOUS
<1>3. R \cup Freed(seen, c) = Freed(seen, c)
  OBVIOUS
<1> HIDE DEF seen, R
<1>4. /\ ToSet(seen) \subseteq Ahead(ListNamed(h), h, h)
      /\ Pointer(h, seen, c) \in {"NULL"} \cup ToSet(Without(ListNamed(h), R \cup Freed(seen, c)))
      /\ \A o : o \in Ahead(Without(ListNamed(h), R \cup Freed(seen, c)), h, Pointer(h, seen, c)) <=>
                 o \in Ahead(ListNamed(h), h, h) /\ o \notin ToSet(seen)
  BY <1>1, <1>2, ToLive
<1> QED
  BY <1>3, <1>4 DEF seen

(* what a traversal does to the colours and what it frees *)
LEMMA SweptColors ==
  ASSUME NEW seen, NEW c \in [Obj -> Shades]
  PROVE  /\ Swept(seen, c) \in [Obj -> Shades]
         /\ Freed(seen, c) = {o \in ToSet(seen) : c[o] = "other"}
         /\ \A o \in Obj : Swept(seen, c)[o] =
              IF o \notin ToSet(seen) THEN c[o] ELSE IF c[o] = "other" THEN "free" ELSE "white"
BY DEF Swept, Shades, Freed, DeadIn

(* entersweep leaves the header of allgc for a link behind a live object *)
LEMMA EnterSweepFacts ==
  ASSUME TypeOK, NEW c \in [Obj -> Shades], c[MainThread] # "other", EnterSweep(c)
  PROVE  /\ allgc' \in Seq(Obj) /\ IsInjective(allgc') /\ allgc' # <<>> /\ Last(allgc') = MainThread
         /\ color' \in [Obj -> Shades] /\ gcstate' = "swpallgc"
         /\ sweepgc' \in {"NULL"} \cup ToSet(allgc')
         /\ \E freed \in SUBSET (ToSet(allgc) \ {MainThread}) :
              /\ ToSet(allgc') = ToSet(allgc) \ freed
              /\ \A o \in Obj : IF o \in freed THEN c[o] = "other" /\ color'[o] = "free"
                                ELSE \/ color'[o] = c[o]
                                     \/ color'[o] = "white" /\ o \in ToSet(allgc) /\ c[o] # "other"
         /\ \A o \in ToSet(allgc') :
              IF o \in Ahead(allgc', "allgc", sweepgc') THEN color'[o] = c[o] ELSE color'[o] = "white"
<1> DEFINE seen == SweepToLiveSees("allgc", c)
           freed == Freed(seen, c)
<1>1. /\ color' = Swept(seen, c) /\ allgc' = Without(allgc, freed)
      /\ sweepgc' = Pointer("allgc", seen, c) /\ gcstate' = "swpallgc"
  BY DEF EnterSweep
<1>2. /\ allgc \in Seq(Obj) /\ IsInjective(allgc) /\ allgc # <<>> /\ Last(allgc) = MainThread
      /\ ToSet(allgc) \subseteq Obj /\ ListNamed("allgc") = allgc
  BY ListFacts DEF TypeOK, ListNamed
<1>3. Ahead(allgc, "allgc", "allgc") = ToSet(allgc)
  BY DEF Ahead
<1>5. /\ ToSet(seen) \subseteq ToSet(allgc)
      /\ sweepgc' \in {"NULL"} \cup ToSet(allgc')
      /\ Ahead(allgc', "allgc", sweepgc') = ToSet(allgc) \ ToSet(seen)
  <2>1. "allgc" \in Headers
    BY DEF Headers
  <2> HIDE DEF seen
  <2>2. /\ ToSet(seen) \subseteq Ahead(allgc, "allgc", "allgc")
        /\ Pointer("allgc", seen, c) \in {"NULL"} \cup ToSet(Without(allgc, Freed(seen, c)))
        /\ \A o : o \in Ahead(Without(allgc, Freed(seen, c)), "allgc", Pointer("allgc", seen, c)) <=>
                   o \in Ahead(allgc, "allgc", "allgc") /\ o \notin ToSet(seen)
    BY <1>2, <2>1, HeaderToLive DEF seen
  <2> QED
    BY <1>1, <1>3, <2>2
<1>6. /\ color' \in [Obj -> Shades] /\ freed = {o \in ToSet(seen) : c[o] = "other"}
      /\ \A o \in Obj : color'[o] =
           IF o \notin ToSet(seen) THEN c[o] ELSE IF c[o] = "other" THEN "free" ELSE "white"
  BY <1>1, SweptColors
<1> HIDE DEF seen, freed
<1>7. MainThread \notin freed /\ freed \subseteq ToSet(allgc)
  BY <1>5, <1>6
<1>8. /\ allgc' \in Seq(Obj) /\ IsInjective(allgc') /\ ToSet(allgc') = ToSet(allgc) \ freed
      /\ allgc' # <<>> /\ Last(allgc') = MainThread
  <2>1. /\ allgc' \in Seq(Obj) /\ IsInjective(allgc') /\ ToSet(allgc') = ToSet(allgc) \ freed
    BY <1>1, <1>2, WithoutFacts
  <2>2. allgc' # <<>> /\ Last(allgc') = Last(allgc)
    BY <1>1, <1>2, <1>7, WithoutLast
  <2> QED
    BY <1>2, <2>1, <2>2
<1>9. \A o \in ToSet(allgc') :
        IF o \in Ahead(allgc', "allgc", sweepgc') THEN color'[o] = c[o] ELSE color'[o] = "white"
  BY <1>2, <1>5, <1>6, <1>8
<1>10. \A o \in Obj : IF o \in freed THEN c[o] = "other" /\ color'[o] = "free"
                      ELSE \/ color'[o] = c[o]
                           \/ color'[o] = "white" /\ o \in ToSet(allgc) /\ c[o] # "other"
  BY <1>5, <1>6
<1>11. freed \in SUBSET (ToSet(allgc) \ {MainThread})
  BY <1>7
<1> QED
  BY <1>1, <1>5, <1>6, <1>8, <1>9, <1>10, <1>11

(* luaC_checkfinalizer takes o out of allgc and puts it before finobj: the *)
(* lists are in order if what it frees on the way is dead.                 *)
LEMMA RegisteredTypes ==
  ASSUME SweepInv, NEW o \in ToSet(allgc) \ {MainThread}, NEW freed \in SUBSET ToSet(allgc),
         o \notin freed, MainThread \notin freed,
         color' \in [Obj -> Shades],
         \A x \in Obj : color'[x] = "free" <=> color[x] = "free" \/ x \in freed,
         allgc' = Without(allgc, {o} \cup freed), finobj' = <<o>> \o finobj, tobefnz' = tobefnz,
         sweepgc' \in {"NULL"} \cup Headers \cup Obj, called' = called
  PROVE  /\ TypeOK' /\ ToSet(allgc') = ToSet(allgc) \ ({o} \cup freed)
         /\ ToSet(finobj') = {o} \cup ToSet(finobj) /\ o \notin ToSet(finobj)
<1>1. TypeOK /\ called \in 0..GCFINMAX
  BY ColorFacts
<1>2. /\ allgc \in Seq(Obj) /\ finobj \in Seq(Obj) /\ tobefnz \in Seq(Obj)
      /\ IsInjective(allgc) /\ IsInjective(finobj) /\ IsInjective(tobefnz)
      /\ ToSet(allgc) \subseteq Obj
      /\ \A x \in Obj : color[x] # "free" <=>
           x \in ToSet(allgc) \/ x \in ToSet(finobj) \/ x \in ToSet(tobefnz)
  BY <1>1, ListFacts
<1>3. /\ ToSet(allgc) \cap ToSet(finobj) = {}
      /\ (ToSet(allgc) \cup ToSet(finobj)) \cap ToSet(tobefnz) = {}
      /\ allgc # <<>> /\ Last(allgc) = MainThread
  BY <1>1 DEF TypeOK
<1>4. /\ allgc' \in Seq(Obj) /\ IsInjective(allgc')
      /\ ToSet(allgc') = ToSet(allgc) \ ({o} \cup freed)
  BY <1>2, WithoutFacts
<1>5. allgc' # <<>> /\ Last(allgc') = MainThread
  <2>1. Last(allgc) \notin {o} \cup freed
    BY <1>3
  <2> QED
    BY <1>2, <1>3, <2>1, WithoutLast
<1>6. /\ finobj' \in Seq(Obj) /\ IsInjective(finobj') /\ ToSet(finobj') = {o} \cup ToSet(finobj)
      /\ o \notin ToSet(finobj) /\ o \in Obj
  BY <1>2, <1>3, Prepended
<1>7. \A x \in Obj : color'[x] # "free" <=>
        x \in ToSet(allgc') \/ x \in ToSet(finobj') \/ x \in ToSet(tobefnz')
  BY <1>2, <1>3, <1>4, <1>6
<1>8. /\ ToSet(allgc') \cap ToSet(finobj') = {}
      /\ (ToSet(allgc') \cup ToSet(finobj')) \cap ToSet(tobefnz') = {}
  <2>1. ToSet(allgc') \cap ToSet(finobj') = {}
    <3>1. ASSUME NEW x \in ToSet(allgc')
          PROVE  x \notin ToSet(finobj')
      <4>1. x \in ToSet(allgc) /\ x # o
        BY <3>1, <1>4
      <4>2. x \notin ToSet(finobj)
        BY <4>1, <1>3
      <4> QED
        BY <4>1, <4>2, <1>6
    <3> QED
      BY <3>1
  <2>2. ToSet(allgc') \cup ToSet(finobj') \subseteq ToSet(allgc) \cup ToSet(finobj)
    BY <1>4, <1>6
  <2>3. ToSet(tobefnz') = ToSet(tobefnz)
    OBVIOUS
  <2> QED
    BY <1>3, <2>1, <2>2, <2>3
<1> QED
  BY <1>1, <1>2, <1>4, <1>5, <1>6, <1>7, <1>8, TypesNext

(* what luaC_checkfinalizer asks for and leaves alone *)
LEMMA CheckFinalizerFacts ==
  ASSUME SweepInv, NEW o \in Objects, CheckFinalizer(o)
  PROVE  /\ MutatorRuns /\ closing = "open" /\ o \in ToSet(allgc) \ {MainThread} /\ o \in Obj
         /\ color[o] # "other" /\ color[o] # "free" /\ finobj' = <<o>> \o finobj
         /\ UNCHANGED <<tobefnz, gcstate, fin, called, fullgc, emergencygc, closing>>
<1>1. o \in ToSet(allgc) /\ TypeOK
  BY ColorFacts DEF CheckFinalizer
<1>2. o \in Obj /\ color[o] # "free"
  BY <1>1, ListFacts
<1> QED
  BY <1>2 DEF CheckFinalizer, Registered, loops

(* a traversal of nothing *)
LEMMA NothingSwept ==
  ASSUME NEW c \in [Obj -> Shades]
  PROVE  Swept(<<>>, c) = c /\ Freed(<<>>, c) = {}
<1>1. ToSet(<<>>) = {}
  BY DEF ToSet
<1> QED
  BY <1>1 DEF Swept, Freed, DeadIn

(* luaC_checkfinalizer when the sweep is not at o *)
LEMMA CheckFinalizerElsewhere ==
  ASSUME SweepInv, NEW o \in Objects, CheckFinalizer(o), ~(IsSweepPhase /\ sweepgc = o)
  PROVE  SweepInv' /\ ToSet(allgc') = ToSet(allgc) \ {o}
<1> DEFINE c == IF IsSweepPhase THEN [color EXCEPT ![o] = "white"] ELSE color
           freed == {}
<1>1. /\ MutatorRuns /\ closing = "open" /\ o \in ToSet(allgc) \ {MainThread} /\ o \in Obj
      /\ color[o] # "other" /\ color[o] # "free" /\ finobj' = <<o>> \o finobj
      /\ UNCHANGED <<tobefnz, gcstate, fin, called, fullgc, emergencygc, closing>>
  BY CheckFinalizerFacts
<1>2. /\ color \in [Obj -> Shades] /\ called \in 0..GCFINMAX /\ TypeOK /\ MainThread \in Obj
      /\ sweepgc \in {"NULL"} \cup Headers \cup Obj /\ Types /\ Control /\ PointerInList /\ Colors
  BY ColorFacts
<1>3. c \in [Obj -> Shades]
  BY <1>1, <1>2 DEF Shades
<1>4. /\ color' = c /\ allgc' = Without(allgc, {o} \cup freed) /\ sweepgc' = sweepgc
  <2>1. /\ color' = Swept(<<>>, c) /\ allgc' = Without(allgc, {o} \cup Freed(<<>>, c))
        /\ sweepgc' = sweepgc
    BY DEF CheckFinalizer, MovedOn
  <2> HIDE DEF c
  <2> QED
    BY <1>3, <2>1, NothingSwept
<1>5. /\ color' \in [Obj -> Shades]
      /\ \A x \in Obj : color'[x] = IF IsSweepPhase /\ x = o THEN "white" ELSE color[x]
  BY <1>1, <1>2, <1>3, <1>4
<1> HIDE DEF c
<1>6. /\ TypeOK' /\ ToSet(allgc') = ToSet(allgc) \ ({o} \cup freed)
      /\ ToSet(finobj') = {o} \cup ToSet(finobj) /\ o \notin ToSet(finobj)
  <2>1. freed \in SUBSET ToSet(allgc) /\ o \notin freed /\ MainThread \notin freed
    OBVIOUS
  <2>2. \A x \in Obj : color'[x] = "free" <=> color[x] = "free" \/ x \in freed
    BY <1>1, <1>5
  <2> HIDE DEF freed
  <2> QED
    BY <1>1, <1>2, <1>4, <1>5, <2>1, <2>2, RegisteredTypes
<1>7. ToSet(allgc') = ToSet(allgc) \ {o}
  BY <1>6
<1>8. ToSet(allgc) \subseteq Obj /\ ToSet(finobj) \subseteq Obj /\ ToSet(tobefnz) \subseteq Obj
      /\ allgc \in Seq(Obj) /\ finobj \in Seq(Obj)
  BY <1>2, ListFacts
<1>9. PointerInList'
  <2>1. gcstate = "swpallgc" => sweepgc # o
    BY DEF IsSweepPhase
  <2> QED
    BY <1>1, <1>2, <1>4, <1>6, <1>7, <2>1 DEF PointerInList
<1>10. Types' /\ Control'
  BY <1>1, <1>2, <1>4, <1>6 DEF Types, Control
<1>11. gcstate = "swpallgc" =>
         Ahead(allgc', "allgc", sweepgc') = Ahead(allgc, "allgc", sweepgc) \ {o}
  <2> SUFFICES ASSUME gcstate = "swpallgc"
               PROVE  Ahead(allgc', "allgc", sweepgc) = Ahead(allgc, "allgc", sweepgc) \ {o}
    BY <1>4
  <2>1. {o} \cup freed = {o} /\ "allgc" \in Headers
    BY DEF Headers
  <2>2. sweepgc \in {"NULL", "allgc"} \cup (ToSet(allgc) \ {o})
    BY <1>2 DEF PointerInList, IsSweepPhase
  <2> QED
    BY <1>4, <1>8, <2>1, <2>2, AheadWithout
<1>12. gcstate = "swpfinobj" =>
         \A x \in Obj : x # o => (x \in Ahead(finobj', "finobj", sweepgc') <=>
                                    x \in Ahead(finobj, "finobj", sweepgc))
  <2> SUFFICES ASSUME gcstate = "swpfinobj", NEW x \in Obj, x # o
               PROVE  x \in Ahead(finobj', "finobj", sweepgc) <=> x \in Ahead(finobj, "finobj", sweepgc)
    BY <1>4
  <2>1. sweepgc \in {"NULL", "finobj"} \cup ToSet(finobj) /\ "finobj" \in Headers
    BY <1>1, <1>2 DEF PointerInList, Headers
  <2>2. /\ sweepgc # "finobj" => Ahead(<<o>> \o finobj, "finobj", sweepgc) = Ahead(finobj, "finobj", sweepgc)
        /\ sweepgc = "finobj" =>
             Ahead(<<o>> \o finobj, "finobj", sweepgc) = {o} \cup Ahead(finobj, "finobj", sweepgc)
    BY <1>1, <1>6, <1>8, <2>1, AheadPrepended
  <2> QED
    BY <1>1, <2>2
<1>13. Colors'
  <2>1. gcstate \in {"swpallgc", "swpfinobj", "swptobefnz", "swpend"} => color'[o] = "white"
    BY <1>1, <1>5 DEF IsSweepPhase
  <2>2. gcstate \in {"callfin", "pause"} => color'[o] = "white"
    BY <1>1, <1>2, <1>5 DEF Colors, AllAre
  <2>3. \A x \in Obj : x # o => color'[x] = color[x]
    BY <1>5
  <2>4. color'[o] # "other"
    BY <1>1, <1>5
  <2>5. color'[MainThread] = color[MainThread]
    BY <1>1, <1>2, <2>3
  <2>6. \A x \in Obj : color'[x] = "other" =>
          gcstate' = "swpallgc" /\ x \in Ahead(allgc', "allgc", sweepgc')
    BY <1>1, <1>2, <1>11, <2>3, <2>4 DEF Colors
  <2>7. gcstate = "swpallgc" =>
          \A x \in ToSet(allgc') \ Ahead(allgc', "allgc", sweepgc') : color'[x] = "white"
    BY <1>2, <1>7, <1>8, <1>11, <2>3 DEF Colors, AllAre
  <2>8. gcstate \in {"swpfinobj", "swptobefnz"} => \A x \in ToSet(allgc') : color'[x] = "white"
    BY <1>2, <1>7, <1>8, <2>3 DEF Colors, AllAre
  <2>9. gcstate = "swpfinobj" =>
          \A x \in ToSet(finobj') \ Ahead(finobj', "finobj", sweepgc') : color'[x] = "white"
    BY <1>1, <1>2, <1>6, <1>8, <1>12, <2>1, <2>3 DEF Colors, AllAre
  <2>10. gcstate = "swptobefnz" => \A x \in ToSet(finobj') : color'[x] = "white"
    BY <1>1, <1>2, <1>6, <1>8, <2>1, <2>3 DEF Colors, AllAre
  <2>11. gcstate = "swptobefnz" =>
          \A x \in ToSet(tobefnz') \ Ahead(tobefnz', "tobefnz", sweepgc') : color'[x] = "white"
    <3>1. o \notin ToSet(tobefnz)
      BY <1>1, <1>2 DEF TypeOK
    <3> QED
      BY <1>1, <1>2, <1>4, <1>8, <2>3, <3>1 DEF Colors, AllAre
  <2>12. gcstate \in {"swpend", "callfin", "pause"} =>
           \A x \in ToSet(allgc') \cup ToSet(finobj') \cup ToSet(tobefnz') : color'[x] = "white"
    BY <1>1, <1>2, <1>6, <1>7, <1>8, <2>1, <2>2, <2>3 DEF Colors, AllAre
  <2> QED
    BY <1>1, <1>2, <2>5, <2>6, <2>7, <2>8, <2>9, <2>10, <2>11, <2>12 DEF Colors, AllAre
<1> QED
  BY <1>7, <1>9, <1>10, <1>13 DEF SweepInv

(* the sweep has stopped at o: the pointer goes on to a live object first *)
LEMMA CheckFinalizerMoves ==
  ASSUME SweepInv, NEW o \in Objects, CheckFinalizer(o), IsSweepPhase, sweepgc = o
  PROVE  /\ SweepInv'
         /\ \E freed \in SUBSET (ToSet(allgc) \ {MainThread, o}) :
              ToSet(allgc') = ToSet(allgc) \ ({o} \cup freed)
<1> DEFINE c == [color EXCEPT ![o] = "white"]
           seen == SweepToLiveSees(o, c)
           freed == Freed(seen, c)
           A == Ahead(allgc, "allgc", o)
<1>1. /\ closing = "open" /\ o \in ToSet(allgc) \ {MainThread} /\ o \in Obj
      /\ color[o] # "other" /\ color[o] # "free" /\ finobj' = <<o>> \o finobj
      /\ UNCHANGED <<tobefnz, gcstate, fin, called, fullgc, emergencygc, closing>>
  BY CheckFinalizerFacts
<1>2. /\ color \in [Obj -> Shades] /\ TypeOK /\ MainThread \in Obj
      /\ Types /\ Control /\ PointerInList /\ Colors
  BY ColorFacts
<1>3. gcstate = "swpallgc" /\ o # "NULL" /\ o # "allgc"
  BY <1>1, <1>2, NamesApart DEF IsSweepPhase, PointerInList, TypeOK
<1>4. /\ allgc \in Seq(Obj) /\ IsInjective(allgc) /\ allgc # <<>> /\ Last(allgc) = MainThread
      /\ ToSet(allgc) \subseteq Obj /\ ListNamed("allgc") = allgc /\ "allgc" \in Headers
  BY <1>2, ListFacts DEF TypeOK, ListNamed, Headers
<1>5. o \notin A /\ A \subseteq ToSet(allgc)
  <2>1. PICK m \in 1..Len(allgc) : allgc[m] = o
    BY <1>1, <1>4, Elements
  <2>2. o \notin Behind(allgc, o)
    BY <1>4, <2>1, BehindPlace
  <2> QED
    BY <1>3, <2>2 DEF Ahead, Behind
<1>6. Rest(o) # <<>>
  <2>1. o \in {"allgc"} \cup ToSet(allgc)
    BY <1>1
  <2>2. PICK k \in 0..Len(allgc) : Suffix(Rest(o), allgc, k) /\ PointsAfter(o, "allgc", allgc, k)
    BY <1>2, <1>4, <2>1, RestFacts
  <2>3. k # Len(allgc)
    <3>1. Len(allgc) # 0 /\ o # allgc[Len(allgc)]
      BY <1>1, <1>4, EmptySeq DEF Last
    <3> QED
      BY <1>3, <2>2, <3>1 DEF PointsAfter
  <2>4. Len(Rest(o)) # 0
    <3>1. Len(allgc) \in Nat /\ Len(Rest(o)) = Len(allgc) - k
      BY <1>4, <2>2 DEF Suffix
    <3> QED
      BY <2>3, <3>1
  <2> QED
    BY <2>4, EmptySeq
<1>7. /\ ToSet(seen) \subseteq A /\ seen # <<>>
      /\ Pointer(o, seen, c) \in {"NULL"} \cup ToSet(Without(allgc, {o} \cup freed))
      /\ \A x : x \in Ahead(Without(allgc, {o} \cup freed), "allgc", Pointer(o, seen, c)) <=>
                 x \in A /\ x \notin ToSet(seen)
  <2> DEFINE R == {o}
  <2>1. o \in {"allgc"} \cup ToSet(allgc) /\ R \in SUBSET Obj /\ R \cap A = {}
    BY <1>1, <1>5
  <2> HIDE DEF c, R
  <2>2. seen = SweepToLiveSees(o, c)
    OBVIOUS
  <2> HIDE DEF seen
  <2>3. /\ ToSet(seen) \subseteq A
        /\ Rest(o) # <<>> => seen # <<>>
        /\ Pointer(o, seen, c) \in {"NULL"} \cup ToSet(Without(allgc, R \cup Freed(seen, c)))
        /\ \A x : x \in Ahead(Without(allgc, R \cup Freed(seen, c)), "allgc", Pointer(o, seen, c)) <=>
                   x \in A /\ x \notin ToSet(seen)
    BY <1>2, <1>4, <2>1, <2>2, ToLive
  <2> QED
    BY <1>6, <2>3 DEF R
<1>8. c \in [Obj -> Shades] /\ c[o] = "white" /\ \A x \in Obj : x # o => c[x] = color[x]
  BY <1>1, <1>2 DEF Shades
<1>9. /\ color' = Swept(seen, c) /\ allgc' = Without(allgc, {o} \cup freed)
      /\ sweepgc' = Pointer(o, seen, c)
  <2>1. MovedOn(o, c) = seen
    BY DEF MovedOn
  <2> HIDE DEF seen
  <2> QED
    BY <1>7, <2>1 DEF CheckFinalizer
<1> HIDE DEF c, seen
<1>10. /\ color' \in [Obj -> Shades] /\ freed = {x \in ToSet(seen) : c[x] = "other"}
       /\ \A x \in Obj : color'[x] =
            IF x \notin ToSet(seen) THEN c[x] ELSE IF c[x] = "other" THEN "free" ELSE "white"
  BY <1>8, <1>9, SweptColors
<1> HIDE DEF freed, A
<1>11. /\ freed \in SUBSET ToSet(allgc) /\ o \notin freed /\ MainThread \notin freed
       /\ freed \in SUBSET (ToSet(allgc) \ {MainThread, o})
  BY <1>1, <1>2, <1>5, <1>7, <1>8, <1>10 DEF Colors
<1>12. \A x \in Obj : color'[x] = "free" <=> color[x] = "free" \/ x \in freed
  <2>1. \A x \in ToSet(seen) : x \in ToSet(allgc) /\ x # o /\ color[x] # "free"
    BY <1>2, <1>4, <1>5, <1>7, ListFacts
  <2> QED
    BY <1>1, <1>8, <1>10, <2>1
<1>13. sweepgc' \in {"NULL"} \cup Obj /\ sweepgc' \in {"NULL"} \cup ToSet(allgc')
  <2>1. ToSet(Without(allgc, {o} \cup freed)) \subseteq ToSet(allgc)
    BY <1>4, WithoutFacts
  <2> QED
    BY <1>4, <1>7, <1>9, <2>1 DEF freed
<1>14. /\ TypeOK' /\ ToSet(allgc') = ToSet(allgc) \ ({o} \cup freed)
       /\ ToSet(finobj') = {o} \cup ToSet(finobj) /\ o \notin ToSet(finobj)
  BY <1>1, <1>2, <1>9, <1>10, <1>11, <1>12, <1>13, RegisteredTypes
<1>15. \A x : x \in Ahead(allgc', "allgc", sweepgc') <=> x \in A /\ x \notin ToSet(seen)
  BY <1>7, <1>9 DEF freed
<1>16. Types' /\ Control' /\ PointerInList'
  BY <1>1, <1>2, <1>3, <1>13, <1>14 DEF Types, Control, PointerInList
<1>17. Colors'
  <2>1. \A x \in Obj : color[x] = "other" => x \in A
    BY <1>2, <1>3 DEF Colors, A
  <2>2. \A x \in ToSet(allgc) : x \notin A => color[x] = "white"
    BY <1>2, <1>3 DEF Colors, AllAre, A
  <2>3. \A x \in Obj : color'[x] = "other" => x \in Ahead(allgc', "allgc", sweepgc')
    <3> SUFFICES ASSUME NEW x \in Obj, color'[x] = "other" PROVE x \in A /\ x \notin ToSet(seen)
      BY <1>15
    <3>1. x \notin ToSet(seen) /\ c[x] = "other"
      BY <1>10
    <3> QED
      BY <1>8, <2>1, <3>1
  <2>4. \A x \in ToSet(allgc') \ Ahead(allgc', "allgc", sweepgc') : color'[x] = "white"
    <3> SUFFICES ASSUME NEW x \in ToSet(allgc') \ Ahead(allgc', "allgc", sweepgc')
                 PROVE  color'[x] = "white"
      OBVIOUS
    <3>1. x \in ToSet(allgc) /\ x # o /\ x \notin freed /\ x \in Obj
      BY <1>4, <1>14
    <3>2. CASE x \in ToSet(seen)
      BY <1>10, <3>1, <3>2
    <3>3. CASE x \notin ToSet(seen)
      BY <1>8, <1>10, <1>15, <2>2, <3>1, <3>3
    <3> QED
      BY <3>2, <3>3
  <2>5. color'[MainThread] # "other"
    BY <1>1, <1>2, <1>8, <1>10 DEF Colors
  <2> QED
    BY <1>1, <1>3, <2>3, <2>4, <2>5 DEF Colors, AllAre
<1> QED
  BY <1>11, <1>14, <1>16, <1>17 DEF SweepInv

(* a barrier in the sweep makes an object white that was black *)
LEMMA BarrierSweep == ASSUME SweepInv, NEW o \in Objects, BarrierWhitens(o) PROVE SweepInv'
<1>1. /\ IsSweepPhase /\ color[o] = "black" /\ color' = [color EXCEPT ![o] = "white"]
      /\ UNCHANGED <<allgc, finobj, tobefnz, sweepgc, gcstate, fin, called, fullgc, emergencygc, closing>>
  BY DEF BarrierWhitens, loops, lists
<1>2. o \in Obj
  BY DEF Obj
<1>3. /\ color \in [Obj -> Shades] /\ called \in 0..GCFINMAX /\ TypeOK /\ MainThread \in Obj
      /\ sweepgc \in {"NULL"} \cup Headers \cup Obj /\ Types /\ Control /\ PointerInList /\ Colors
      /\ ToSet(allgc) \subseteq Obj /\ ToSet(finobj) \subseteq Obj /\ ToSet(tobefnz) \subseteq Obj
  BY ColorFacts, ListFacts
<1>4. color' \in [Obj -> Shades] /\ \A x \in Obj : color'[x] = IF x = o THEN "white" ELSE color[x]
  BY <1>1, <1>2, <1>3 DEF Shades
<1>5. TypeOK'
  <2>1. \A x \in Obj : color'[x] = "free" <=> color[x] = "free"
    BY <1>1, <1>4
  <2> QED
    BY <1>1, <1>3, <1>4, <2>1, SameLists DEF lists
<1>6. Types' /\ Control' /\ PointerInList'
  BY <1>1, <1>3, <1>5 DEF Types, Control, PointerInList
<1>7. Colors'
  BY <1>1, <1>3, <1>4 DEF Colors, AllAre, IsSweepPhase
<1> QED
  BY <1>5, <1>6, <1>7 DEF SweepInv

(* marking changes nothing the sweep relies on: it is not going on *)
LEMMA MarkSweep == ASSUME SweepInv, NEW o \in Objects, Mark(o) PROVE SweepInv'
<1>1. /\ gcstate = "propagate" /\ color[o] = "white" /\ color' = [color EXCEPT ![o] = "black"]
      /\ UNCHANGED <<allgc, finobj, tobefnz, sweepgc, gcstate, fin, called, fullgc, emergencygc, closing>>
  BY DEF Mark, loops, lists
<1>2. o \in Obj
  BY DEF Obj
<1>3. /\ color \in [Obj -> Shades] /\ called \in 0..GCFINMAX /\ TypeOK /\ MainThread \in Obj
      /\ sweepgc \in {"NULL"} \cup Headers \cup Obj /\ Types /\ Control /\ PointerInList /\ Colors
  BY ColorFacts
<1>4. color' \in [Obj -> Shades] /\ \A x \in Obj : color'[x] = IF x = o THEN "black" ELSE color[x]
  BY <1>1, <1>2, <1>3 DEF Shades
<1>5. TypeOK'
  <2>1. \A x \in Obj : color'[x] = "free" <=> color[x] = "free"
    BY <1>1, <1>4
  <2> QED
    BY <1>1, <1>3, <1>4, <2>1, SameLists DEF lists
<1>6. Types' /\ Control' /\ PointerInList'
  BY <1>1, <1>3, <1>5 DEF Types, Control, PointerInList
<1>7. Colors'
  BY <1>1, <1>3, <1>4 DEF Colors, AllAre
<1> QED
  BY <1>5, <1>6, <1>7 DEF SweepInv

(* a new cycle begins: the main thread and what waits are marked *)
LEMMA RestartSweep == ASSUME SweepInv, RestartCollection PROVE SweepInv'
<1> DEFINE marked == {MainThread} \cup ToSet(tobefnz)
<1>1. /\ CollectorRuns /\ gcstate = "pause" /\ gcstate' = "propagate"
      /\ color' = [o \in Obj |-> IF o = MainThread \/ o \in ToSet(tobefnz) THEN "black" ELSE color[o]]
      /\ UNCHANGED <<allgc, finobj, tobefnz, sweepgc, fin, called, fullgc, emergencygc, closing>>
  BY DEF RestartCollection, loops, lists
<1>2. /\ color \in [Obj -> Shades] /\ called \in 0..GCFINMAX /\ TypeOK /\ MainThread \in Obj
      /\ sweepgc \in {"NULL"} \cup Headers \cup Obj /\ Types /\ Control /\ PointerInList /\ Colors
  BY ColorFacts
<1>3. \A x \in marked : x \in Obj /\ color[x] # "free"
  BY <1>2, ListFacts
<1>4. color' \in [Obj -> Shades]
      /\ \A x \in Obj : color'[x] = IF x \in marked THEN "black" ELSE color[x]
  BY <1>1, <1>2 DEF Shades
<1> HIDE DEF marked
<1>5. TypeOK'
  <2>1. \A x \in Obj : color'[x] = "free" <=> color[x] = "free"
    BY <1>3, <1>4
  <2> QED
    BY <1>1, <1>2, <1>4, <2>1, SameLists DEF lists
<1>6. Types' /\ Control' /\ PointerInList'
  BY <1>1, <1>2, <1>5 DEF Types, Control, PointerInList, CollectorRuns, CollectorIdle
<1>7. Colors'
  <2>1. color'[MainThread] = "black"
    BY <1>2, <1>4 DEF marked
  <2>2. \A x \in Obj : color'[x] # "other"
    BY <1>1, <1>2, <1>4 DEF Colors
  <2> QED
    BY <1>1, <2>1, <2>2 DEF Colors
<1> QED
  BY <1>5, <1>6, <1>7 DEF SweepInv

(* steps that change no object and no list *)
LEMMA ControlSweep ==
  ASSUME SweepInv, EnterAtomic \/ SweepEnd \/ FinishCycle \/ FullNext \/ FinReturn \/ BatchDone
                   \/ UNCHANGED vars
  PROVE  SweepInv'
<1>1. /\ color \in [Obj -> Shades] /\ called \in 0..GCFINMAX /\ TypeOK /\ MainThread \in Obj
      /\ sweepgc \in {"NULL"} \cup Headers \cup Obj /\ Types /\ Control /\ PointerInList /\ Colors
  BY ColorFacts
<1>2. /\ UNCHANGED <<color, allgc, finobj, tobefnz, sweepgc, closing>>
      /\ called' \in {called, 0}
  BY DEF EnterAtomic, SweepEnd, FinishCycle, FullNext, FinReturn, BatchDone, vars, loops, lists
<1>3. TypeOK'
  <2>1. called' \in 0..GCFINMAX
    BY <1>1, <1>2, NamesApart
  <2> QED
    BY <1>1, <1>2, <2>1, SameLists DEF lists
<1>4. CASE EnterAtomic
  BY <1>1, <1>2, <1>3, <1>4 DEF EnterAtomic, CollectorRuns, CollectorIdle, loops,
     SweepInv, Types, Control, PointerInList, Colors, AllAre
<1>5. CASE SweepEnd
  BY <1>1, <1>2, <1>3, <1>5 DEF SweepEnd, CollectorRuns, CollectorIdle, loops,
     SweepInv, Types, Control, PointerInList, Colors, AllAre
<1>6. CASE FinishCycle
  BY <1>1, <1>2, <1>3, <1>6 DEF FinishCycle, CollectorRuns, CollectorIdle, loops,
     SweepInv, Types, Control, PointerInList, Colors, AllAre
<1>7. CASE FullNext
  <2>1. \A l \in {"none", "abort", "cycle", "finish"} :
          NextLoop(l) \in {"none", "cycle", "finish"} /\ (l = "abort" \/ l = "cycle" => NextLoop(l) # "none")
    BY DEF NextLoop
  <2>2. /\ UNCHANGED <<gcstate, fin>> /\ CollectorIdle /\ LoopDone
        /\ \/ emergencygc # "none" /\ emergencygc' = NextLoop(emergencygc) /\ fullgc' = fullgc
           \/ emergencygc = "none" /\ emergencygc' = emergencygc /\ fullgc' = NextLoop(fullgc)
    BY <1>7 DEF FullNext
  <2>3. Types'
    BY <1>1, <1>2, <1>3, <2>1, <2>2 DEF Types
  <2>4. Control'
    <3>1. CASE emergencygc = "none"
      BY <1>1, <1>2, <2>2, <3>1 DEF Control
    <3>2. CASE emergencygc # "none"
      <4>1. emergencygc' = "none" => gcstate = "pause"
        BY <1>1, <2>1, <2>2, <3>2 DEF LoopDone, Loop, Types
      <4> QED
        BY <1>1, <1>2, <2>2, <3>2, <4>1 DEF Control
    <3> QED
      BY <3>1, <3>2
  <2>5. PointerInList' /\ Colors'
    BY <1>1, <1>2, <2>2 DEF PointerInList, Colors, AllAre
  <2> QED
    BY <2>3, <2>4, <2>5 DEF SweepInv
<1>8. CASE FinReturn
  BY <1>1, <1>2, <1>3, <1>8 DEF FinReturn, loops,
     SweepInv, Types, Control, PointerInList, Colors, AllAre
<1>9. CASE BatchDone
  BY <1>1, <1>2, <1>3, <1>9 DEF BatchDone, loops,
     SweepInv, Types, Control, PointerInList, Colors, AllAre
<1>10. CASE UNCHANGED vars
  BY <1>1, <1>2, <1>3, <1>10 DEF vars, loops,
     SweepInv, Types, Control, PointerInList, Colors, AllAre
<1> QED
  BY <1>4, <1>5, <1>6, <1>7, <1>8, <1>9, <1>10

(* entersweep, from the colours c and with the other two lists as they are *)
(* then: nothing in them is dead                                           *)
LEMMA EnterSweepInv ==
  ASSUME SweepInv, NEW c \in [Obj -> Shades], EnterSweep(c), c[MainThread] # "other",
         \A x \in Obj : c[x] = "free" <=> color[x] = "free",
         finobj' \in Seq(Obj), tobefnz' \in Seq(Obj), IsInjective(finobj'), IsInjective(tobefnz'),
         ToSet(finobj') \cap ToSet(tobefnz') = {},
         ToSet(finobj') \cup ToSet(tobefnz') = ToSet(finobj) \cup ToSet(tobefnz),
         \A x \in ToSet(finobj) \cup ToSet(tobefnz) : c[x] # "other",
         called' = called
  PROVE  /\ TypeOK' /\ PointerInList' /\ Colors' /\ gcstate' = "swpallgc"
         /\ \E freed \in SUBSET (ToSet(allgc) \ {MainThread}) :
              /\ ToSet(allgc') = ToSet(allgc) \ freed
              /\ \A x \in freed : c[x] = "other"
<1>1. TypeOK /\ called \in 0..GCFINMAX /\ MainThread \in Obj
  BY ColorFacts
<1>2. /\ ToSet(allgc) \subseteq Obj /\ ToSet(finobj) \subseteq Obj /\ ToSet(tobefnz) \subseteq Obj
      /\ \A x \in Obj : color[x] # "free" <=>
           x \in ToSet(allgc) \/ x \in ToSet(finobj) \/ x \in ToSet(tobefnz)
      /\ ToSet(allgc) \cap ToSet(finobj) = {}
      /\ (ToSet(allgc) \cup ToSet(finobj)) \cap ToSet(tobefnz) = {}
  BY <1>1, ListFacts DEF TypeOK
<1>3. /\ allgc' \in Seq(Obj) /\ IsInjective(allgc') /\ allgc' # <<>> /\ Last(allgc') = MainThread
      /\ color' \in [Obj -> Shades] /\ gcstate' = "swpallgc"
      /\ sweepgc' \in {"NULL"} \cup ToSet(allgc')
      /\ \A o \in ToSet(allgc') :
           IF o \in Ahead(allgc', "allgc", sweepgc') THEN color'[o] = c[o] ELSE color'[o] = "white"
  BY <1>1, EnterSweepFacts
<1>4. PICK freed \in SUBSET (ToSet(allgc) \ {MainThread}) :
        /\ ToSet(allgc') = ToSet(allgc) \ freed
        /\ \A o \in Obj : IF o \in freed THEN c[o] = "other" /\ color'[o] = "free"
                          ELSE \/ color'[o] = c[o]
                               \/ color'[o] = "white" /\ o \in ToSet(allgc) /\ c[o] # "other"
  BY <1>1, EnterSweepFacts
<1>5. TypeOK'
  <2>1. \A x \in Obj : color'[x] = "free" <=> color[x] = "free" \/ x \in freed
    BY <1>2, <1>4
  <2>2. \A x \in Obj : color'[x] # "free" <=>
          x \in ToSet(allgc') \/ x \in ToSet(finobj') \/ x \in ToSet(tobefnz')
    <3> SUFFICES ASSUME NEW x \in Obj
                 PROVE  color'[x] # "free" <=>
                          x \in ToSet(allgc') \/ x \in ToSet(finobj') \/ x \in ToSet(tobefnz')
      OBVIOUS
    <3>1. x \in ToSet(finobj') \/ x \in ToSet(tobefnz') <=> x \in ToSet(finobj) \/ x \in ToSet(tobefnz)
      OBVIOUS
    <3>2. x \in ToSet(allgc') <=> x \in ToSet(allgc) /\ x \notin freed
      BY <1>4
    <3>3. x \in freed => ~(x \in ToSet(finobj) \/ x \in ToSet(tobefnz))
      BY <1>2
    <3> QED
      BY <1>2, <2>1, <3>1, <3>2, <3>3
  <2>3. /\ ToSet(allgc') \cap ToSet(finobj') = {}
        /\ (ToSet(allgc') \cup ToSet(finobj')) \cap ToSet(tobefnz') = {}
    BY <1>2, <1>4
  <2>4. sweepgc' \in {"NULL"} \cup Headers \cup Obj
    BY <1>2, <1>3, <1>4
  <2> QED
    BY <1>1, <1>3, <2>2, <2>3, <2>4, TypesNext
<1>6. PointerInList'
  BY <1>3 DEF PointerInList
<1>7. Colors'
  <2>1. \A x \in Obj : color'[x] = "other" => x \in Ahead(allgc', "allgc", sweepgc')
    <3> SUFFICES ASSUME NEW x \in Obj, color'[x] = "other"
                 PROVE  x \in Ahead(allgc', "allgc", sweepgc')
      OBVIOUS
    <3>1. c[x] = "other" /\ x \notin freed
      BY <1>4
    <3>2. x \in ToSet(allgc)
      BY <1>2, <3>1
    <3>3. x \in ToSet(allgc')
      BY <1>4, <3>1, <3>2
    <3> QED
      BY <1>3, <3>3
  <2>2. color'[MainThread] # "other"
    BY <1>1, <1>4
  <2> QED
    BY <1>3, <2>1, <2>2 DEF Colors, AllAre
<1>8. \A x \in freed : c[x] = "other"
  <2>1. \A x \in freed : x \in Obj
    BY <1>2
  <2> QED
    BY <1>4, <2>1
<1>9. \E S \in SUBSET (ToSet(allgc) \ {MainThread}) :
        ToSet(allgc') = ToSet(allgc) \ S /\ \A x \in S : c[x] = "other"
  BY <1>4, <1>8
<1> QED
  BY <1>3, <1>5, <1>6, <1>7, <1>9

(* a full collection gives up the marking and sweeps, but frees nothing *)
LEMMA EnterFullFacts ==
  ASSUME SweepInv, EnterFull
  PROVE  /\ TypeOK' /\ PointerInList' /\ Colors' /\ gcstate' \in States
         /\ gcstate' = gcstate \/ gcstate \in {"propagate", "enteratomic"}
         /\ UNCHANGED <<finobj, tobefnz, fin, called, closing>>
         /\ ToSet(allgc') = ToSet(allgc)
<1>1. UNCHANGED <<finobj, tobefnz, fin, called, closing>>
  BY DEF EnterFull
<1>2. /\ color \in [Obj -> Shades] /\ called \in 0..GCFINMAX /\ TypeOK /\ MainThread \in Obj
      /\ gcstate \in States /\ PointerInList /\ Colors
  BY ColorFacts
<1>3. CASE KeepInvariant
  <2>1. EnterSweep(color)
    BY <1>3 DEF EnterFull
  <2>2. \A x \in Obj : color[x] # "other"
    BY <1>2, <1>3 DEF KeepInvariant, Colors
  <2>3. /\ finobj \in Seq(Obj) /\ tobefnz \in Seq(Obj) /\ IsInjective(finobj) /\ IsInjective(tobefnz)
        /\ ToSet(finobj) \subseteq Obj /\ ToSet(tobefnz) \subseteq Obj
        /\ ToSet(finobj) \cap ToSet(tobefnz) = {}
        /\ ToSet(allgc) \subseteq Obj
    BY <1>2, ListFacts DEF TypeOK
  <2>4. /\ TypeOK' /\ PointerInList' /\ Colors' /\ gcstate' = "swpallgc"
        /\ \E freed \in SUBSET (ToSet(allgc) \ {MainThread}) :
              /\ ToSet(allgc') = ToSet(allgc) \ freed
              /\ \A x \in freed : color[x] = "other"
    BY <1>1, <1>2, <2>1, <2>2, <2>3, EnterSweepInv
  <2>5. ToSet(allgc') = ToSet(allgc)
    BY <2>2, <2>3, <2>4
  <2> QED
    BY <1>1, <1>3, <2>4, <2>5 DEF KeepInvariant, States
<1>4. CASE ~KeepInvariant
  <2>1. UNCHANGED <<color, allgc, sweepgc, gcstate>>
    BY <1>4 DEF EnterFull
  <2>2. TypeOK'
    BY <1>1, <1>2, <2>1 DEF TypeOK
  <2>3. PointerInList' /\ Colors'
    BY <1>1, <1>2, <2>1 DEF PointerInList, Colors, AllAre
  <2> QED
    BY <1>1, <1>2, <2>1, <2>2, <2>3
<1> QED
  BY <1>3, <1>4

(* full collections and, while the state is open, emergency ones *)
LEMMA StartSweep ==
  ASSUME SweepInv, StartFull \/ StartEmergency, NoMemory # "always"
  PROVE  SweepInv'
<1>1. Types /\ Control
  BY ColorFacts
<1>2. /\ TypeOK' /\ PointerInList' /\ Colors' /\ gcstate' \in States
      /\ gcstate' = gcstate \/ gcstate \in {"propagate", "enteratomic"}
      /\ UNCHANGED <<finobj, tobefnz, fin, called, closing>>
  BY EnterFullFacts DEF StartFull, StartEmergency
<1>3. /\ MutatorRuns /\ closing = "open"
      /\ fullgc' \in {"none", "abort", "cycle", "finish"}
      /\ \/ emergencygc' = emergencygc /\ fin = "idle"
         \/ emergencygc' = "abort"
  <2>1. CASE StartFull
    BY <1>1, <2>1 DEF StartFull, MutatorRuns, Types
  <2>2. CASE StartEmergency
    BY <1>1, <2>2 DEF StartEmergency, MutatorRuns, Types
  <2> QED
    BY <2>1, <2>2
<1>4. Types'
  BY <1>1, <1>2, <1>3 DEF Types, States
<1>5. Control'
  BY <1>1, <1>2, <1>3 DEF Control, MutatorRuns
<1> QED
  BY <1>2, <1>4, <1>5 DEF SweepInv

(* atomic moves what is dead in finobj to tobefnz and starts the sweep *)
LEMMA AtomicFacts ==
  ASSUME SweepInv, NEW late, NEW saved, Atomic(late, saved),
         late \subseteq {o \in Obj : color[o] = "white"},
         saved \subseteq {o \in Obj : color[o] = "white"}
  PROVE  /\ SweepInv'
         /\ \E dead \in SUBSET ToSet(finobj), freed \in SUBSET (ToSet(allgc) \ {MainThread}) :
              /\ finobj' = Without(finobj, dead) /\ tobefnz' = tobefnz \o Kept(finobj, dead)
              /\ ToSet(allgc') = ToSet(allgc) \ freed
<1> DEFINE dead    == {x \in ToSet(finobj) : color[x] = "white" /\ x \notin late}
           black   == late \cup saved \cup dead \cup ToSet(tobefnz)
           c       == [o \in Obj |-> IF o \in black THEN "black"
                                     ELSE IF color[o] = "white" THEN "other" ELSE color[o]]
<1>1. /\ CollectorRuns /\ gcstate = "enteratomic"
      /\ tobefnz' = tobefnz \o Kept(finobj, dead) /\ finobj' = Without(finobj, dead)
      /\ EnterSweep(c) /\ UNCHANGED <<fin, called, fullgc, emergencygc, closing>>
  BY DEF Atomic, loops, AddedToBeFnz
<1>2. /\ color \in [Obj -> Shades] /\ TypeOK /\ MainThread \in Obj
      /\ Types /\ Control /\ PointerInList /\ Colors
  BY ColorFacts
<1>3. /\ finobj \in Seq(Obj) /\ tobefnz \in Seq(Obj) /\ IsInjective(finobj) /\ IsInjective(tobefnz)
      /\ ToSet(finobj) \subseteq Obj /\ ToSet(tobefnz) \subseteq Obj
      /\ ToSet(finobj) \cap ToSet(tobefnz) = {} /\ ToSet(allgc) \subseteq Obj
      /\ \A x \in Obj : color[x] # "free" <=>
           x \in ToSet(allgc) \/ x \in ToSet(finobj) \/ x \in ToSet(tobefnz)
  BY <1>2, ListFacts DEF TypeOK
<1>4. \A x \in black : x \in Obj /\ color[x] # "free"
  BY <1>3
<1>5. dead \in SUBSET ToSet(finobj)
  OBVIOUS
<1>6. \A x \in ToSet(finobj) : x \in black \/ color[x] # "white"
  OBVIOUS
<1>7. ToSet(tobefnz) \subseteq black
  OBVIOUS
<1> HIDE DEF dead, black
<1>8. /\ c \in [Obj -> Shades]
      /\ \A o \in Obj : c[o] = IF o \in black THEN "black"
                               ELSE IF color[o] = "white" THEN "other" ELSE color[o]
  BY <1>2 DEF Shades
<1> HIDE DEF c
<1>9. \A x \in Obj : color[x] # "other"
  BY <1>1, <1>2 DEF Colors
<1>10. c[MainThread] # "other"
  BY <1>1, <1>2, <1>8 DEF Colors
<1>11. \A x \in Obj : c[x] = "free" <=> color[x] = "free"
  BY <1>4, <1>8
<1>12. \A x \in ToSet(finobj) \cup ToSet(tobefnz) : c[x] # "other"
  BY <1>3, <1>6, <1>7, <1>8, <1>9
<1>13. /\ finobj' \in Seq(Obj) /\ IsInjective(finobj') /\ ToSet(finobj') = ToSet(finobj) \ dead
  BY <1>1, <1>3, WithoutFacts
<1>14. /\ Kept(finobj, dead) \in Seq(Obj) /\ IsInjective(Kept(finobj, dead))
       /\ ToSet(Kept(finobj, dead)) = dead
  <2>1. Kept(finobj, dead) \in Seq(Obj)
    BY <1>3, KeptFacts
  <2>2. ToSet(Kept(finobj, dead)) = ToSet(finobj) \cap dead
    BY <1>3, KeptSet
  <2>3. IsInjective(Kept(finobj, dead))
    BY <1>3, KeptInjective
  <2> QED
    BY <1>5, <2>1, <2>2, <2>3
<1>15. tobefnz' \in Seq(Obj) /\ IsInjective(tobefnz') /\ ToSet(tobefnz') = ToSet(tobefnz) \cup dead
  <2>1. ToSet(tobefnz) \cap ToSet(Kept(finobj, dead)) = {}
    BY <1>3, <1>5, <1>14
  <2> QED
    BY <1>1, <1>3, <1>14, <2>1, Joined
<1>16. /\ ToSet(finobj') \cap ToSet(tobefnz') = {}
       /\ ToSet(finobj') \cup ToSet(tobefnz') = ToSet(finobj) \cup ToSet(tobefnz)
  BY <1>3, <1>5, <1>13, <1>15
<1>17. /\ TypeOK' /\ PointerInList' /\ Colors' /\ gcstate' = "swpallgc"
       /\ \E freed \in SUBSET (ToSet(allgc) \ {MainThread}) :
             /\ ToSet(allgc') = ToSet(allgc) \ freed
             /\ \A x \in freed : c[x] = "other"
  BY <1>1, <1>2, <1>8, <1>10, <1>11, <1>12, <1>13, <1>15, <1>16, EnterSweepInv
<1>18. Types' /\ Control'
  <2>1. fin # "idle" /\ closing = "open" => emergencygc # "none"
    BY <1>1, <1>2 DEF Control, CollectorRuns, CollectorIdle
  <2>2. closing = "open"
    BY <1>1, <1>2 DEF Control, CollectorRuns, CollectorIdle
  <2> QED
    BY <1>1, <1>2, <1>17, <2>1, <2>2 DEF Types, Control
<1> QED
  BY <1>1, <1>5, <1>17, <1>18 DEF SweepInv

(* One step of the sweep: what it frees is in allgc, wherever it is. *)
LEMMA SweepStepFacts ==
  ASSUME SweepInv, SweepStep, sweepgc # "NULL"
  PROVE  /\ closing = "open" /\ gcstate \in {"swpallgc", "swpfinobj", "swptobefnz"}
         /\ UNCHANGED <<finobj, tobefnz, gcstate, fin, called, fullgc, emergencygc, closing>>
         /\ \E seen, dead :
              /\ ToSet(seen) \subseteq Ahead(ListNamed(ListSwept(gcstate)), ListSwept(gcstate), sweepgc)
              /\ dead = {o \in ToSet(seen) : color[o] = "other"}
              /\ dead \in SUBSET (ToSet(allgc) \ {MainThread})
              /\ gcstate # "swpallgc" => dead = {}
              /\ color' \in [Obj -> Shades]
              /\ \A o \in Obj : color'[o] = IF o \notin ToSet(seen) THEN color[o]
                                            ELSE IF color[o] = "other" THEN "free" ELSE "white"
              /\ allgc' = Without(allgc, dead)
              /\ sweepgc' \in {"NULL", sweepgc} \cup ToSet(Without(ListNamed(ListSwept(gcstate)), dead))
              /\ sweepgc \in ToSet(ListNamed(ListSwept(gcstate))) => sweepgc' \in
                   {"NULL"} \cup ToSet(Without(ListNamed(ListSwept(gcstate)), dead))
              /\ \A o : o \in Ahead(Without(ListNamed(ListSwept(gcstate)), dead),
                                    ListSwept(gcstate), sweepgc') <=>
                   /\ o \in Ahead(ListNamed(ListSwept(gcstate)), ListSwept(gcstate), sweepgc)
                   /\ o \notin ToSet(seen)
<1> DEFINE h    == ListSwept(gcstate)
           list == ListNamed(h)
           seen == SweepListSees(sweepgc)
           dead == Freed(seen, color)
           R    == {}
<1>1. /\ color \in [Obj -> Shades] /\ TypeOK /\ MainThread \in Obj
      /\ Types /\ Control /\ PointerInList /\ Colors
  BY ColorFacts
<1>2. /\ CollectorRuns /\ gcstate \in {"swpallgc", "swpfinobj", "swptobefnz"}
      /\ color' = Swept(seen, color) /\ sweepgc' = Pointer(sweepgc, seen, color)
      /\ allgc' = Without(allgc, dead) /\ finobj' = Without(finobj, dead)
      /\ tobefnz' = Without(tobefnz, dead)
      /\ UNCHANGED <<gcstate, fin, called, fullgc, emergencygc, closing>>
  BY DEF SweepStep, loops
<1>3. closing = "open"
  BY <1>1, <1>2 DEF Control, CollectorRuns, CollectorIdle
<1>4. /\ allgc \in Seq(Obj) /\ finobj \in Seq(Obj) /\ tobefnz \in Seq(Obj)
      /\ ToSet(allgc) \subseteq Obj
      /\ ToSet(allgc) \cap ToSet(finobj) = {}
      /\ (ToSet(allgc) \cup ToSet(finobj)) \cap ToSet(tobefnz) = {}
  BY <1>1, ListFacts DEF TypeOK
<1>5. h \in Headers /\ sweepgc \in {h} \cup ToSet(list)
  BY <1>1, <1>2, <1>3 DEF PointerInList, ListSwept, ListNamed, Headers
<1>6. FirstOf(seen, Rest(sweepgc))
  <2>1. PICK k \in 0..Len(list) : Suffix(Rest(sweepgc), list, k)
    BY <1>1, <1>5, RestFacts
  <2>2. Rest(sweepgc) \in Seq(Obj)
    BY <2>1 DEF Suffix
  <2> QED
    BY <2>2, SweepListFirst
<1> HIDE DEF seen
<1>7. color' \in [Obj -> Shades] /\ dead = {o \in ToSet(seen) : color[o] = "other"}
      /\ \A o \in Obj : color'[o] = IF o \notin ToSet(seen) THEN color[o]
                                    ELSE IF color[o] = "other" THEN "free" ELSE "white"
  BY <1>1, <1>2, SweptColors
<1>8. R \in SUBSET Obj /\ R \cap Ahead(list, h, sweepgc) = {} /\ Pointer(sweepgc, seen, color) \notin R
      /\ R \cup dead = dead
  OBVIOUS
<1> HIDE DEF R
<1>9. /\ ToSet(seen) \subseteq Ahead(list, h, sweepgc)
      /\ sweepgc' \in {"NULL", sweepgc} \cup ToSet(Without(list, R \cup dead))
      /\ sweepgc \in ToSet(list) => sweepgc' \in {"NULL"} \cup ToSet(Without(list, R \cup dead))
      /\ \A o : o \in Ahead(Without(list, R \cup dead), h, sweepgc') <=>
                 o \in Ahead(list, h, sweepgc) /\ o \notin ToSet(seen)
  <2> HIDE DEF h
  <2>1. /\ ToSet(seen) \subseteq Ahead(ListNamed(h), h, sweepgc)
        /\ Pointer(sweepgc, seen, color) \in
              {"NULL", sweepgc} \cup ToSet(Without(ListNamed(h), R \cup Freed(seen, color)))
        /\ sweepgc \in ToSet(ListNamed(h)) => Pointer(sweepgc, seen, color) \in
              {"NULL"} \cup ToSet(Without(ListNamed(h), R \cup Freed(seen, color)))
        /\ \A o : o \in Ahead(Without(ListNamed(h), R \cup Freed(seen, color)), h, Pointer(sweepgc, seen, color)) <=>
                    o \in Ahead(ListNamed(h), h, sweepgc) /\ o \notin ToSet(seen)
    BY <1>1, <1>5, <1>6, <1>8, Traversal
  <2> QED
    BY <1>2, <2>1
<1> HIDE DEF dead
<1>10. \A o \in dead : o \in ToSet(allgc) \ {MainThread} /\ gcstate = "swpallgc"
  <2> SUFFICES ASSUME NEW o \in dead PROVE o \in ToSet(allgc) \ {MainThread} /\ gcstate = "swpallgc"
    OBVIOUS
  <2>1. o \in ToSet(seen) /\ color[o] = "other"
    BY <1>7
  <2>2. ToSet(list) \subseteq Obj /\ o \in ToSet(list)
    <3>1. o \in Ahead(list, h, sweepgc)
      BY <1>9, <2>1
    <3>2. Ahead(list, h, sweepgc) \subseteq ToSet(list)
      BY DEF Ahead, Behind
    <3>3. ToSet(list) \subseteq Obj
      BY <1>1, ListFacts DEF ListNamed
    <3> QED
      BY <3>1, <3>2, <3>3
  <2>3. gcstate = "swpallgc" /\ o # MainThread
    BY <1>1, <2>1, <2>2 DEF Colors
  <2>4. list = allgc
    BY <2>3 DEF ListNamed, ListSwept
  <2> QED
    BY <2>2, <2>3, <2>4
<1>11. finobj' = finobj /\ tobefnz' = tobefnz
  <2>1. ToSet(finobj) \cap dead = {} /\ ToSet(tobefnz) \cap dead = {}
    BY <1>4, <1>10
  <2>2. Without(finobj, dead) = finobj
    BY <1>4, <2>1, WithoutFacts
  <2>3. Without(tobefnz, dead) = tobefnz
    BY <1>4, <2>1, WithoutFacts
  <2> QED
    BY <1>2, <2>2, <2>3
<1>12. dead \in SUBSET (ToSet(allgc) \ {MainThread}) /\ (gcstate # "swpallgc" => dead = {})
  BY <1>10
<1> HIDE DEF list, h
<1>13. /\ ToSet(seen) \subseteq Ahead(list, h, sweepgc)
       /\ dead = {o \in ToSet(seen) : color[o] = "other"}
       /\ dead \in SUBSET (ToSet(allgc) \ {MainThread})
       /\ gcstate # "swpallgc" => dead = {}
       /\ color' \in [Obj -> Shades]
       /\ \A o \in Obj : color'[o] = IF o \notin ToSet(seen) THEN color[o]
                                     ELSE IF color[o] = "other" THEN "free" ELSE "white"
       /\ allgc' = Without(allgc, dead)
       /\ sweepgc' \in {"NULL", sweepgc} \cup ToSet(Without(list, dead))
       /\ sweepgc \in ToSet(list) => sweepgc' \in {"NULL"} \cup ToSet(Without(list, dead))
       /\ \A o : o \in Ahead(Without(list, dead), h, sweepgc') <=>
                  o \in Ahead(list, h, sweepgc) /\ o \notin ToSet(seen)
  BY <1>2, <1>7, <1>8, <1>9, <1>12
<1> QED
  BY <1>2, <1>3, <1>11, <1>13 DEF list, h

(* sweeplist goes on in the list it is in *)
LEMMA SweepSome ==
  ASSUME SweepInv, SweepStep, sweepgc # "NULL"
  PROVE  /\ SweepInv'
         /\ \E dead \in SUBSET (ToSet(allgc) \ {MainThread}) : ToSet(allgc') = ToSet(allgc) \ dead
         /\ UNCHANGED <<finobj, tobefnz>>
<1> DEFINE h    == ListSwept(gcstate)
           list == ListNamed(h)
<1>1. /\ color \in [Obj -> Shades] /\ TypeOK /\ MainThread \in Obj /\ called \in 0..GCFINMAX
      /\ sweepgc \in {"NULL"} \cup Headers \cup Obj
      /\ Types /\ Control /\ PointerInList /\ Colors
  BY ColorFacts
<1>2. /\ closing = "open" /\ gcstate \in {"swpallgc", "swpfinobj", "swptobefnz"}
      /\ UNCHANGED <<finobj, tobefnz, gcstate, fin, called, fullgc, emergencygc, closing>>
  BY SweepStepFacts
<1>3. PICK seen, dead :
        /\ ToSet(seen) \subseteq Ahead(list, h, sweepgc)
        /\ dead = {o \in ToSet(seen) : color[o] = "other"}
        /\ dead \in SUBSET (ToSet(allgc) \ {MainThread})
        /\ gcstate # "swpallgc" => dead = {}
        /\ color' \in [Obj -> Shades]
        /\ \A o \in Obj : color'[o] = IF o \notin ToSet(seen) THEN color[o]
                                      ELSE IF color[o] = "other" THEN "free" ELSE "white"
        /\ allgc' = Without(allgc, dead)
        /\ sweepgc' \in {"NULL", sweepgc} \cup ToSet(Without(list, dead))
        /\ sweepgc \in ToSet(list) => sweepgc' \in {"NULL"} \cup ToSet(Without(list, dead))
        /\ \A o : o \in Ahead(Without(list, dead), h, sweepgc') <=>
                   o \in Ahead(list, h, sweepgc) /\ o \notin ToSet(seen)
  BY SweepStepFacts
<1>4. /\ allgc \in Seq(Obj) /\ finobj \in Seq(Obj) /\ tobefnz \in Seq(Obj)
      /\ IsInjective(allgc) /\ IsInjective(finobj) /\ IsInjective(tobefnz)
      /\ ToSet(allgc) \subseteq Obj /\ ToSet(finobj) \subseteq Obj /\ ToSet(tobefnz) \subseteq Obj
      /\ ToSet(allgc) \cap ToSet(finobj) = {}
      /\ (ToSet(allgc) \cup ToSet(finobj)) \cap ToSet(tobefnz) = {}
      /\ allgc # <<>> /\ Last(allgc) = MainThread
      /\ \A o \in Obj : color[o] # "free" <=>
           o \in ToSet(allgc) \/ o \in ToSet(finobj) \/ o \in ToSet(tobefnz)
  BY <1>1, ListFacts DEF TypeOK
<1>5. ToSet(list) \subseteq Obj /\ list \in Seq(Obj)
  BY <1>4 DEF ListNamed
<1>6. Ahead(list, h, sweepgc) \subseteq ToSet(list)
  BY DEF Ahead, Behind
<1>7. allgc' \in Seq(Obj) /\ IsInjective(allgc') /\ ToSet(allgc') = ToSet(allgc) \ dead
  BY <1>3, <1>4, WithoutFacts
<1>8. allgc' # <<>> /\ Last(allgc') = MainThread
  <2>1. Last(allgc) \notin dead
    BY <1>3, <1>4
  <2> QED
    BY <1>3, <1>4, <2>1, WithoutLast
<1>9. ToSet(Without(list, dead)) = ToSet(list) \ dead
  BY <1>5, WithoutFacts
<1>10. \A x \in Obj : color'[x] = "free" <=> color[x] = "free" \/ x \in dead
  <2>1. \A x \in ToSet(seen) : x \in ToSet(list)
    BY <1>3, <1>6
  <2>2. \A x \in ToSet(list) : color[x] # "free"
    BY <1>1, ListFacts DEF ListNamed
  <2> QED
    BY <1>3, <2>1, <2>2
<1>11. TypeOK'
  <2>1. \A x \in Obj : color'[x] # "free" <=>
          x \in ToSet(allgc') \/ x \in ToSet(finobj') \/ x \in ToSet(tobefnz')
    BY <1>2, <1>3, <1>4, <1>7, <1>10
  <2>2. /\ ToSet(allgc') \cap ToSet(finobj') = {}
        /\ (ToSet(allgc') \cup ToSet(finobj')) \cap ToSet(tobefnz') = {}
    BY <1>2, <1>4, <1>7
  <2>3. sweepgc' \in {"NULL"} \cup Headers \cup Obj
    BY <1>1, <1>3, <1>5, <1>9
  <2> QED
    BY <1>1, <1>2, <1>3, <1>4, <1>7, <1>8, <2>1, <2>2, <2>3, TypesNext
<1>12. Types' /\ Control'
  BY <1>1, <1>2, <1>11 DEF Types, Control
<1>13. \A o \in Obj : color'[o] = "other" => color[o] = "other" /\ o \notin ToSet(seen)
  BY <1>3
<1>14. \A o \in Obj : o \in ToSet(seen) => color'[o] \in {"white", "free"}
  BY <1>3
<1>15. color'[MainThread] # "other"
  BY <1>1, <1>13 DEF Colors
<1>16. CASE gcstate = "swpallgc"
  <2>1. h = "allgc" /\ list = allgc
    BY <1>16 DEF ListSwept, ListNamed
  <2>2. sweepgc \in ToSet(allgc)
    BY <1>1, <1>16 DEF PointerInList
  <2>3. sweepgc' \in {"NULL"} \cup ToSet(allgc')
    BY <1>3, <2>1, <2>2
  <2>4. \A o : o \in Ahead(allgc', "allgc", sweepgc') <=>
                o \in Ahead(allgc, "allgc", sweepgc) /\ o \notin ToSet(seen)
    BY <1>3, <2>1
  <2>5. PointerInList'
    BY <1>2, <1>16, <2>3 DEF PointerInList
  <2>6. \A o \in Obj : color'[o] = "other" => o \in Ahead(allgc', "allgc", sweepgc')
    BY <1>1, <1>13, <2>4 DEF Colors
  <2>7. \A o \in ToSet(allgc') \ Ahead(allgc', "allgc", sweepgc') : color'[o] = "white"
    <3> SUFFICES ASSUME NEW o \in ToSet(allgc'), o \notin Ahead(allgc', "allgc", sweepgc')
                 PROVE  color'[o] = "white"
      OBVIOUS
    <3>1. o \in ToSet(allgc) /\ o \notin dead /\ o \in Obj
      BY <1>4, <1>7
    <3>2. CASE o \in ToSet(seen)
      BY <1>3, <3>1, <3>2
    <3>3. CASE o \notin ToSet(seen)
      <4>1. color[o] = "white"
        BY <1>1, <1>16, <2>4, <3>1, <3>3 DEF Colors, AllAre
      <4> QED
        BY <1>3, <3>1, <3>3, <4>1
    <3> QED
      BY <3>2, <3>3
  <2>8. Colors'
    BY <1>2, <1>15, <1>16, <2>6, <2>7 DEF Colors, AllAre
  <2> QED
    BY <1>2, <1>3, <1>7, <1>12, <2>5, <2>8 DEF SweepInv
<1>17. CASE gcstate # "swpallgc"
  <2>1. dead = {} /\ allgc' = allgc
    <3>1. dead = {} /\ ToSet(allgc) \cap dead = {}
      BY <1>3, <1>17
    <3>2. Without(allgc, dead) = allgc
      BY <1>4, <3>1, WithoutFacts
    <3> QED
      BY <1>3, <3>1, <3>2
  <2>2. Without(list, dead) = list
    <3>1. ToSet(list) \cap dead = {}
      BY <2>1
    <3> QED
      BY <1>5, <3>1, WithoutFacts
  <2>3. \A o \in Obj : color'[o] # "other"
    BY <1>1, <1>13, <1>17 DEF Colors
  <2>4. \A o \in Obj : color[o] = "white" => color'[o] = "white"
    BY <1>3
  <2>5. sweepgc' \in {"NULL", sweepgc} \cup ToSet(list)
    BY <1>3, <2>2
  <2>6. \A o : o \in Ahead(list, h, sweepgc') <=>
                o \in Ahead(list, h, sweepgc) /\ o \notin ToSet(seen)
    BY <1>3, <2>2
  <2>7. \A o \in ToSet(seen) : o \in Obj /\ color'[o] = "white"
    BY <1>3, <1>5, <1>6, <2>1, <2>3, <1>14
  <2>8. CASE gcstate = "swpfinobj"
    <3>1. h = "finobj" /\ list = finobj
      BY <2>8 DEF ListSwept, ListNamed
    <3>2. PointerInList'
      BY <1>1, <1>2, <2>5, <2>8, <3>1 DEF PointerInList
    <3>3. \A o \in ToSet(finobj) \ Ahead(finobj, "finobj", sweepgc') : color'[o] = "white"
      BY <1>1, <1>2, <1>4, <2>4, <2>6, <2>7, <2>8, <3>1 DEF Colors, AllAre
    <3>4. \A o \in ToSet(allgc) : color'[o] = "white"
      BY <1>1, <1>4, <2>4, <2>8 DEF Colors, AllAre
    <3>5. Colors'
      BY <1>2, <1>15, <2>1, <2>3, <2>8, <3>3, <3>4 DEF Colors, AllAre
    <3> QED
      BY <1>2, <1>3, <1>7, <1>12, <3>2, <3>5 DEF SweepInv
  <2>9. CASE gcstate = "swptobefnz"
    <3>1. h = "tobefnz" /\ list = tobefnz
      BY <2>9 DEF ListSwept, ListNamed
    <3>2. PointerInList'
      BY <1>1, <1>2, <2>5, <2>9, <3>1 DEF PointerInList
    <3>3. \A o \in ToSet(tobefnz) \ Ahead(tobefnz, "tobefnz", sweepgc') : color'[o] = "white"
      BY <1>1, <1>2, <1>4, <2>4, <2>6, <2>7, <2>9, <3>1 DEF Colors, AllAre
    <3>4. \A o \in ToSet(allgc) \cup ToSet(finobj) : color'[o] = "white"
      BY <1>1, <1>2, <1>4, <2>4, <2>9 DEF Colors, AllAre
    <3>5. Colors'
      BY <1>2, <1>15, <2>1, <2>3, <2>9, <3>3, <3>4 DEF Colors, AllAre
    <3> QED
      BY <1>2, <1>3, <1>7, <1>12, <3>2, <3>5 DEF SweepInv
  <2> QED
    BY <1>2, <1>17, <2>8, <2>9
<1> QED
  BY <1>16, <1>17

(* the end of a list: the sweep goes on to the next one *)
LEMMA SweepNext ==
  ASSUME SweepInv, SweepStep, sweepgc = "NULL"
  PROVE  SweepInv' /\ UNCHANGED lists
<1>1. /\ color \in [Obj -> Shades] /\ TypeOK /\ MainThread \in Obj /\ called \in 0..GCFINMAX
      /\ Types /\ Control /\ PointerInList /\ Colors
  BY ColorFacts
<1>2. /\ CollectorRuns /\ gcstate \in {"swpallgc", "swpfinobj", "swptobefnz"}
      /\ gcstate' = NextSweep[1] /\ sweepgc' = NextSweep[2]
      /\ UNCHANGED <<color, lists, allgc, finobj, tobefnz, fin, called, fullgc, emergencygc, closing>>
  BY DEF SweepStep, loops, lists
<1>3. closing = "open" /\ (fin # "idle" => emergencygc # "none")
  BY <1>1, <1>2 DEF Control, CollectorRuns, CollectorIdle
<1>4. \/ gcstate = "swpallgc" /\ gcstate' = "swpfinobj" /\ sweepgc' = "finobj"
      \/ gcstate = "swpfinobj" /\ gcstate' = "swptobefnz" /\ sweepgc' = "tobefnz"
      \/ gcstate = "swptobefnz" /\ gcstate' = "swpend" /\ sweepgc' = "NULL"
  BY <1>2 DEF NextSweep
<1>5. TypeOK'
  <2>1. sweepgc' \in {"NULL"} \cup Headers \cup Obj
    BY <1>4 DEF Headers
  <2> QED
    BY <1>1, <1>2, <2>1, SameLists
<1>6. Types' /\ Control' /\ PointerInList'
  BY <1>1, <1>2, <1>3, <1>4, <1>5 DEF Types, Control, PointerInList
<1>7. \A x \in Obj : color[x] # "other"
  BY <1>1, <1>2 DEF Colors, Ahead
<1>8. Colors'
  <2>1. gcstate = "swpallgc" => AllAre(ToSet(allgc), "white")
    BY <1>1 DEF Colors, Ahead, AllAre
  <2>2. gcstate = "swpfinobj" => AllAre(ToSet(allgc), "white") /\ AllAre(ToSet(finobj), "white")
    BY <1>1, <1>3 DEF Colors, Ahead, AllAre
  <2>3. gcstate = "swptobefnz" =>
          AllAre(ToSet(allgc), "white") /\ AllAre(ToSet(finobj), "white") /\ AllAre(ToSet(tobefnz), "white")
    BY <1>1, <1>3 DEF Colors, Ahead, AllAre
  <2> QED
    BY <1>1, <1>2, <1>4, <1>7, <2>1, <2>2, <2>3 DEF Colors, Ahead, AllAre
<1> QED
  BY <1>2, <1>6, <1>8 DEF SweepInv

(* an object goes from tobefnz to the head of allgc, perhaps while allgc is *)
(* being swept (in lua_close)                                              *)
LEMMA CallSweep ==
  ASSUME SweepInv, CallFin \/ CallNextFin
  PROVE  /\ SweepInv' /\ tobefnz # <<>> /\ tobefnz' = Tail(tobefnz) /\ UNCHANGED finobj
         /\ Head(tobefnz) # MainThread
         /\ ToSet(allgc') = {Head(tobefnz)} \cup ToSet(allgc)
<1> DEFINE x == Head(tobefnz)
<1>1. /\ color \in [Obj -> Shades] /\ TypeOK /\ MainThread \in Obj /\ called \in 0..GCFINMAX
      /\ sweepgc \in {"NULL"} \cup Headers \cup Obj
      /\ Types /\ Control /\ PointerInList /\ Colors
      /\ gcstate = "swpallgc" => sweepgc # "allgc"
  BY ColorFacts
<1>2. /\ tobefnz # <<>> /\ tobefnz' = Tail(tobefnz) /\ allgc' = <<x>> \o allgc
      /\ color' = IF IsSweepPhase THEN [color EXCEPT ![x] = "white"] ELSE color
      /\ fin' \in {"batch", "user"}
      /\ UNCHANGED <<finobj, sweepgc, gcstate, fullgc, emergencygc, closing>>
  BY DEF CallFin, CallNextFin, GCTM, Udata2Finalize, loops
<1>3. /\ emergencygc = "none" /\ closing # "closed"
      /\ closing = "open" => gcstate \in {"callfin", "pause"}
  <2>1. CASE CallFin
    BY <1>1, <2>1 DEF CallFin, CollectorRuns, CollectorIdle
  <2>2. CASE CallNextFin
    BY <1>1, <2>2 DEF CallNextFin, Control
  <2> QED
    BY <2>1, <2>2
<1>4. called' \in 0..GCFINMAX
  <2>1. GCFINMAX \in Nat \ {0}
    BY NamesApart
  <2>2. CASE CallFin
    BY <2>1, <2>2 DEF CallFin
  <2>3. CASE CallNextFin
    BY <1>1, <2>1, <2>3 DEF CallNextFin
  <2> QED
    BY <2>2, <2>3
<1>5. /\ allgc \in Seq(Obj) /\ finobj \in Seq(Obj) /\ tobefnz \in Seq(Obj)
      /\ IsInjective(allgc) /\ IsInjective(finobj) /\ IsInjective(tobefnz)
      /\ ToSet(allgc) \subseteq Obj /\ ToSet(finobj) \subseteq Obj /\ ToSet(tobefnz) \subseteq Obj
      /\ ToSet(allgc) \cap ToSet(finobj) = {}
      /\ (ToSet(allgc) \cup ToSet(finobj)) \cap ToSet(tobefnz) = {}
      /\ allgc # <<>> /\ Last(allgc) = MainThread /\ MainThread \in ToSet(allgc)
      /\ \A o \in Obj : color[o] # "free" <=>
           o \in ToSet(allgc) \/ o \in ToSet(finobj) \/ o \in ToSet(tobefnz)
  BY <1>1, ListFacts DEF TypeOK
<1>6. /\ x \in ToSet(tobefnz) /\ x \in Obj
      /\ tobefnz' \in Seq(Obj) /\ IsInjective(tobefnz') /\ ToSet(tobefnz') = ToSet(tobefnz) \ {x}
  BY <1>2, <1>5, Rested
<1>7. x \notin ToSet(allgc) /\ x \notin ToSet(finobj) /\ x # MainThread /\ color[x] # "free"
  BY <1>5, <1>6
<1> HIDE DEF x
<1>8. /\ allgc' \in Seq(Obj) /\ IsInjective(allgc') /\ allgc' # <<>> /\ Last(allgc') = MainThread
      /\ ToSet(allgc') = {x} \cup ToSet(allgc)
  BY <1>2, <1>5, <1>6, <1>7, Prepended
<1>9. /\ color' \in [Obj -> Shades]
      /\ \A o \in Obj : color'[o] = IF IsSweepPhase /\ o = x THEN "white" ELSE color[o]
  BY <1>1, <1>2, <1>6 DEF Shades
<1>10. TypeOK'
  <2>1. \A o \in Obj : color'[o] # "free" <=>
          o \in ToSet(allgc') \/ o \in ToSet(finobj') \/ o \in ToSet(tobefnz')
    BY <1>2, <1>5, <1>6, <1>7, <1>8, <1>9
  <2>2. /\ ToSet(allgc') \cap ToSet(finobj') = {}
        /\ (ToSet(allgc') \cup ToSet(finobj')) \cap ToSet(tobefnz') = {}
    BY <1>2, <1>5, <1>6, <1>7, <1>8
  <2> QED
    BY <1>1, <1>2, <1>4, <1>5, <1>6, <1>8, <1>9, <2>1, <2>2, TypesNext
<1>11. Types' /\ Control'
  BY <1>1, <1>2, <1>3, <1>10 DEF Types, Control
<1>12. PointerInList'
  BY <1>1, <1>2, <1>3, <1>8 DEF PointerInList
<1>13. gcstate = "swpallgc" => Ahead(allgc', "allgc", sweepgc') = Ahead(allgc, "allgc", sweepgc)
  <2> SUFFICES ASSUME gcstate = "swpallgc"
               PROVE  Ahead(<<x>> \o allgc, "allgc", sweepgc) = Ahead(allgc, "allgc", sweepgc)
    BY <1>2
  <2>1. sweepgc \in {"NULL", "allgc"} \cup ToSet(allgc) /\ sweepgc # "allgc" /\ "allgc" \in Headers
    BY <1>1 DEF PointerInList, Headers
  <2> QED
    BY <1>5, <1>6, <1>7, <2>1, AheadPrepended
<1>14. Colors'
  <2>1. \A o \in Obj : color'[o] = "other" =>
          gcstate' = "swpallgc" /\ o \in Ahead(allgc', "allgc", sweepgc')
    BY <1>1, <1>2, <1>9, <1>13 DEF Colors
  <2>2. color'[MainThread] = color[MainThread]
    BY <1>1, <1>7, <1>9
  <2>3. \A o \in ToSet(allgc') : o = x \/ o \in ToSet(allgc)
    BY <1>8
  <2>4. gcstate = "swpallgc" =>
          \A o \in ToSet(allgc') \ Ahead(allgc', "allgc", sweepgc') : color'[o] = "white"
    BY <1>1, <1>5, <1>6, <1>9, <1>13, <2>3 DEF Colors, AllAre, IsSweepPhase
  <2>5. gcstate \in {"swpfinobj", "swptobefnz"} => \A o \in ToSet(allgc') : color'[o] = "white"
    BY <1>1, <1>5, <1>6, <1>9, <2>3 DEF Colors, AllAre, IsSweepPhase
  <2>6. gcstate \in {"swpend", "callfin", "pause"} =>
          \A o \in ToSet(allgc') \cup ToSet(finobj') \cup ToSet(tobefnz') : color'[o] = "white"
    BY <1>1, <1>2, <1>5, <1>6, <1>9, <2>3 DEF Colors, AllAre
  <2> QED
    BY <1>1, <1>2, <1>3, <2>1, <2>2, <2>4, <2>5, <2>6 DEF Colors, AllAre
<1> QED
  BY <1>2, <1>7, <1>8, <1>11, <1>12, <1>14 DEF SweepInv, x

(* lua_close moves all of finobj to tobefnz *)
LEMMA CloseSweep == ASSUME SweepInv, Close PROVE SweepInv'
<1>1. /\ color \in [Obj -> Shades] /\ TypeOK /\ MainThread \in Obj /\ called \in 0..GCFINMAX
      /\ sweepgc \in {"NULL"} \cup Headers \cup Obj
      /\ Types /\ Control /\ PointerInList /\ Colors
  BY ColorFacts
<1>2. /\ emergencygc = "none" /\ closing = "open" /\ closing' = "closing" /\ fin' = "batch"
      /\ tobefnz' = tobefnz \o finobj /\ finobj' = <<>>
      /\ UNCHANGED <<color, allgc, sweepgc, gcstate, called, fullgc, emergencygc>>
  BY DEF Close, MutatorRuns, AddedToBeFnz, loops
<1>3. /\ allgc \in Seq(Obj) /\ finobj \in Seq(Obj) /\ tobefnz \in Seq(Obj)
      /\ IsInjective(allgc) /\ IsInjective(finobj) /\ IsInjective(tobefnz)
      /\ ToSet(finobj) \subseteq Obj /\ ToSet(tobefnz) \subseteq Obj
      /\ ToSet(allgc) \cap ToSet(finobj) = {}
      /\ (ToSet(allgc) \cup ToSet(finobj)) \cap ToSet(tobefnz) = {}
      /\ allgc # <<>> /\ Last(allgc) = MainThread
      /\ \A o \in Obj : color[o] # "free" <=>
           o \in ToSet(allgc) \/ o \in ToSet(finobj) \/ o \in ToSet(tobefnz)
  BY <1>1, ListFacts DEF TypeOK
<1>4. /\ tobefnz' \in Seq(Obj) /\ IsInjective(tobefnz') /\ ToSet(tobefnz') = ToSet(tobefnz) \cup ToSet(finobj)
  <2>1. ToSet(tobefnz) \cap ToSet(finobj) = {}
    BY <1>3
  <2> QED
    BY <1>2, <1>3, <2>1, Joined
<1>5. finobj' \in Seq(Obj) /\ IsInjective(finobj') /\ ToSet(finobj') = {}
  BY <1>2 DEF IsInjective, ToSet
<1>6. TypeOK'
  <2>1. \A o \in Obj : color'[o] # "free" <=>
          o \in ToSet(allgc') \/ o \in ToSet(finobj') \/ o \in ToSet(tobefnz')
    BY <1>2, <1>3, <1>4, <1>5
  <2>2. /\ ToSet(allgc') \cap ToSet(finobj') = {}
        /\ (ToSet(allgc') \cup ToSet(finobj')) \cap ToSet(tobefnz') = {}
    BY <1>2, <1>3, <1>4, <1>5
  <2> QED
    BY <1>1, <1>2, <1>3, <1>4, <1>5, <2>1, <2>2, TypesNext
<1>7. Types' /\ Control' /\ PointerInList'
  BY <1>1, <1>2, <1>6 DEF Types, Control, PointerInList
<1>8. Colors'
  BY <1>1, <1>2, <1>4, <1>5 DEF Colors, AllAre
<1> QED
  BY <1>7, <1>8 DEF SweepInv

(* in the end only the main thread is left *)
LEMMA FreeAllSweep ==
  ASSUME SweepInv, FreeAllObjects
  PROVE  SweepInv' /\ finobj = <<>> /\ tobefnz = <<>> /\ UNCHANGED <<finobj, tobefnz>>
<1>1. /\ TypeOK /\ MainThread \in Obj /\ called \in 0..GCFINMAX /\ Types /\ Control
  BY ColorFacts
<1>2. /\ closing = "closing" /\ tobefnz = <<>> /\ closing' = "closed" /\ fin' = "idle"
      /\ color' = [o \in Obj |-> IF o = MainThread THEN "white" ELSE "free"]
      /\ allgc' = <<MainThread>> /\ sweepgc' = "NULL" /\ gcstate' = "pause"
      /\ UNCHANGED <<finobj, tobefnz, called, fullgc, emergencygc>>
  BY DEF FreeAllObjects, loops
<1>3. finobj = <<>> /\ emergencygc = "none"
  BY <1>1, <1>2 DEF Control
<1>4. ToSet(<<>>) = {} /\ ToSet(<<MainThread>>) = {MainThread}
  BY DEF ToSet
<1>5. TypeOK'
  <2>1. allgc' \in Seq(Obj) /\ finobj' \in Seq(Obj) /\ tobefnz' \in Seq(Obj)
    BY <1>1, <1>2, <1>3
  <2>2. IsInjective(allgc') /\ IsInjective(finobj') /\ IsInjective(tobefnz')
    BY <1>2, <1>3 DEF IsInjective
  <2>3. color' \in [Obj -> Shades] /\ \A o \in Obj : color'[o] # "free" <=> o = MainThread
    BY <1>2 DEF Shades
  <2>4. allgc' # <<>> /\ Last(allgc') = MainThread
    BY <1>2 DEF Last
  <2>5. ToSet(allgc') = {MainThread} /\ ToSet(finobj') = {} /\ ToSet(tobefnz') = {}
    BY <1>2, <1>3, <1>4
  <2> QED
    BY <1>1, <1>2, <2>1, <2>2, <2>3, <2>4, <2>5, TypesNext
<1>6. Types' /\ Control' /\ PointerInList'
  BY <1>1, <1>2, <1>3, <1>5 DEF Types, Control, PointerInList
<1>7. Colors'
  BY <1>1, <1>2, <1>3, <1>4 DEF Colors, AllAre
<1> QED
  BY <1>2, <1>3, <1>6, <1>7 DEF SweepInv

(* every step preserves the invariant *)
LEMMA NextSweepInv ==
  ASSUME SweepInv, [Next]_vars, NoMemory # "always"
  PROVE  SweepInv'
<1>1. CASE \E o \in Objects : New(o) \/ CheckFinalizer(o) \/ BarrierWhitens(o) \/ Mark(o)
  <2>1. PICK o \in Objects : New(o) \/ CheckFinalizer(o) \/ BarrierWhitens(o) \/ Mark(o)
    BY <1>1
  <2>2. CASE New(o)
    BY <2>2, NewSweep
  <2>3. CASE CheckFinalizer(o) /\ IsSweepPhase /\ sweepgc = o
    BY <2>3, CheckFinalizerMoves
  <2>4. CASE CheckFinalizer(o) /\ ~(IsSweepPhase /\ sweepgc = o)
    BY <2>4, CheckFinalizerElsewhere
  <2>5. CASE BarrierWhitens(o)
    BY <2>5, BarrierSweep
  <2>6. CASE Mark(o)
    BY <2>6, MarkSweep
  <2> QED
    BY <2>1, <2>2, <2>3, <2>4, <2>5, <2>6
<1>2. CASE StartFull \/ StartEmergency
  BY <1>2, StartSweep
<1>3. CASE RestartCollection
  BY <1>3, RestartSweep
<1>4. CASE \E late, saved \in SUBSET {o \in Obj : color[o] = "white"} : Atomic(late, saved)
  <2>1. PICK late, saved \in SUBSET {o \in Obj : color[o] = "white"} : Atomic(late, saved)
    BY <1>4
  <2> QED
    BY <2>1, AtomicFacts
<1>5. CASE SweepStep
  BY <1>5, SweepSome, SweepNext
<1>6. CASE CallFin \/ CallNextFin
  BY <1>6, CallSweep
<1>7. CASE Close
  BY <1>7, CloseSweep
<1>8. CASE FreeAllObjects
  BY <1>8, FreeAllSweep
<1>9. CASE EnterAtomic \/ SweepEnd \/ FinishCycle \/ FullNext \/ FinReturn \/ BatchDone
           \/ UNCHANGED vars
  BY <1>9, ControlSweep
<1> QED
  BY <1>1, <1>2, <1>3, <1>4, <1>5, <1>6, <1>7, <1>8, <1>9 DEF Next

-----------------------------------------------------------------------------
(* The theorems.                                                           *)
(*                                                                         *)
(* They assume that no allocation fails while the state is being closed.   *)
(* A failure then starts an emergency collection whose sweep the           *)
(* finalizers of lua_close run into, and the sweep pointer does dangle:    *)
(* the run sweep_emergency is the counterexample.                          *)

(* Whatever the program and the collector do, the lists hold each allocated *)
(* object once, the pointer is in the list being swept and the colours are *)
(* those the sweep has left (lgc.c: sweeplist, luaC_checkfinalizer, GCTM). *)
THEOREM SweepInvariance == ASSUME NoMemory # "always" PROVE Spec => []SweepInv
<1>1. Init => SweepInv
  BY InitSweep
<1>2. SweepInv /\ [Next]_vars => SweepInv'
  BY NextSweepInv
<1> QED
  BY <1>1, <1>2, PTL DEF Spec

(* g->sweepgc never dangles: it is NULL, or the address of a link of the   *)
(* list that is being swept, whatever is freed or moved around it.         *)
THEOREM PointerNeverDangles == ASSUME NoMemory # "always" PROVE Spec => []SweepPointerValid
<1>1. SweepInv => SweepPointerValid
  <2> SUFFICES ASSUME SweepInv PROVE SweepPointerValid
    OBVIOUS
  <2>1. PointerInList /\ (gcstate = "swpallgc" => sweepgc # "allgc")
    BY ColorFacts
  <2>2. "finobj" # "allgc" /\ "tobefnz" # "allgc"
    OBVIOUS
  <2> QED
    BY <2>1, <2>2 DEF SweepPointerValid, PointerInList, ListSwept, ListNamed
<1> QED
  BY <1>1, SweepInvariance, PTL

(* Dead objects are ahead of the pointer in allgc, so the sweep that goes  *)
(* on from it frees every one of them.                                     *)
THEOREM DeadObjectsAhead == ASSUME NoMemory # "always" PROVE Spec => []DeadAreAhead
<1>1. SweepInv => DeadAreAhead
  <2> SUFFICES ASSUME SweepInv, NEW o \in Obj, color[o] = "other"
               PROVE  gcstate = "swpallgc" /\ o \in ToSet(Rest(sweepgc))
    BY DEF DeadAreAhead
  <2>1. TypeOK /\ PointerInList /\ Colors
    BY ColorFacts
  <2>2. gcstate = "swpallgc" /\ o \in Ahead(allgc, "allgc", sweepgc)
    BY <2>1 DEF Colors
  <2>3. "allgc" \in Headers /\ ListNamed("allgc") = allgc /\ sweepgc \in {"NULL", "allgc"} \cup ToSet(allgc)
    BY <2>1, <2>2 DEF Headers, ListNamed, PointerInList
  <2>4. ToSet(Rest(sweepgc)) = Ahead(ListNamed("allgc"), "allgc", sweepgc)
    BY <2>1, <2>3, RestIsAhead
  <2> QED
    BY <2>2, <2>3, <2>4
<1> QED
  BY <1>1, SweepInvariance, PTL

(* Between two cycles every object is white (lgc.h).                       *)
THEOREM WhiteBetweenCycles == ASSUME NoMemory # "always" PROVE Spec => []AllWhiteBetweenCycles
<1>1. SweepInv => AllWhiteBetweenCycles
  <2> SUFFICES ASSUME SweepInv, gcstate \in {"swpend", "callfin", "pause"}, NEW o \in Obj
               PROVE  color[o] \in {"white", "free"}
    BY DEF AllWhiteBetweenCycles
  <2>1. TypeOK /\ Colors
    BY ColorFacts
  <2>2. color[o] # "free" => o \in ToSet(allgc) \cup ToSet(finobj) \cup ToSet(tobefnz)
    BY <2>1, ListFacts
  <2> QED
    BY <2>1, <2>2 DEF Colors, AllAre
<1> QED
  BY <1>1, SweepInvariance, PTL

-----------------------------------------------------------------------------
(* The lists implement what is promised about finalizers. *)

(* the operators on lists that Finalization has are those of this module *)
LEMMA SameOperators ==
  /\ \A s : F!ToSet(s) = ToSet(s)
  /\ \A s, S : F!Kept(s, S) = Kept(s, S) /\ F!Without(s, S) = Without(s, S)
<1>1. \A s : F!ToSet(s) = ToSet(s)
  BY DEF F!ToSet, ToSet
<1>2. \A s, S : F!Kept(s, S) = Kept(s, S)
  BY DEF F!Kept, Kept
<1>3. \A s, S : F!Without(s, S) = Without(s, S)
  BY <1>1, <1>2 DEF F!Without, Without
<1> QED
  BY <1>1, <1>2, <1>3

(* the initial states map to initial states *)
LEMMA InitPromised == Init => F!Init
<1>1. ToSet(<<MainThread>>) = {MainThread}
  BY DEF ToSet
<1> QED
  BY <1>1 DEF Init, F!Init

(* every step maps to a step of Finalization or a stutter *)
LEMMA StepPromised ==
  ASSUME SweepInv, [Next]_vars, NoMemory # "always"
  PROVE  [F!Next]_(F!vars)
<1> DEFINE plain == ToSet(allgc) \ {MainThread}
<1>1. TypeOK /\ MainThread \in Obj
  BY ColorFacts
<1>2. /\ allgc \in Seq(Obj) /\ finobj \in Seq(Obj) /\ tobefnz \in Seq(Obj)
      /\ ToSet(allgc) \subseteq Obj /\ ToSet(finobj) \subseteq Obj
      /\ ToSet(allgc) \cap ToSet(finobj) = {}
      /\ \A x \in Obj : color[x] # "free" <=>
           x \in ToSet(allgc) \/ x \in ToSet(finobj) \/ x \in ToSet(tobefnz)
  BY <1>1, ListFacts DEF TypeOK
<1>3. ASSUME UNCHANGED lists PROVE UNCHANGED F!vars
  BY <1>3 DEF F!vars, lists
<1>4. ASSUME NEW dead \in SUBSET plain, plain' = plain \ dead, UNCHANGED <<finobj, tobefnz>>
      PROVE  F!Next
  <2>1. F!Free(dead)
    BY <1>4 DEF F!Free
  <2> QED
    BY <2>1 DEF F!Next
<1>5. ASSUME NEW o \in Objects, New(o) PROVE F!Next
  <2>1. /\ color[o] = "free" /\ allgc' = <<o>> \o allgc /\ UNCHANGED <<finobj, tobefnz>>
        /\ o \in Obj /\ o # MainThread
    BY <1>5, NamesApart DEF New, Obj
  <2>2. ToSet(allgc') = {o} \cup ToSet(allgc)
    BY <1>2, <2>1, Prepended
  <2>3. F!Create(o)
    BY <1>2, <2>1, <2>2, SameOperators DEF F!Create
  <2> QED
    BY <2>1, <2>3 DEF F!Next
<1>6. ASSUME NEW o \in Objects, CheckFinalizer(o) PROVE F!Next
  <2>1. /\ o \in ToSet(allgc) \ {MainThread} /\ finobj' = <<o>> \o finobj /\ tobefnz' = tobefnz
    BY <1>6, CheckFinalizerFacts
  <2>2. \E freed \in SUBSET (plain \ {o}) : ToSet(allgc') = ToSet(allgc) \ ({o} \cup freed)
    <3>1. CASE IsSweepPhase /\ sweepgc = o
      BY <1>6, <3>1, CheckFinalizerMoves
    <3>2. CASE ~(IsSweepPhase /\ sweepgc = o)
      <4>1. ToSet(allgc') = ToSet(allgc) \ {o}
        BY <1>6, <3>2, CheckFinalizerElsewhere
      <4>2. {} \in SUBSET (plain \ {o}) /\ {o} \cup {} = {o}
        OBVIOUS
      <4> QED
        BY <4>1, <4>2
    <3> QED
      BY <3>1, <3>2
  <2>3. PICK freed \in SUBSET (plain \ {o}) : ToSet(allgc') = ToSet(allgc) \ ({o} \cup freed)
    BY <2>2
  <2>4. F!Register(o, freed)
    BY <2>1, <2>3 DEF F!Register
  <2>5. o \in plain /\ freed \in SUBSET plain
    BY <2>1
  <2> QED
    BY <2>4, <2>5 DEF F!Next
<1>7. ASSUME StartFull \/ StartEmergency PROVE UNCHANGED F!vars
  <2>1. EnterFull
    BY <1>7 DEF StartFull, StartEmergency
  <2>2. ToSet(allgc') = ToSet(allgc) /\ UNCHANGED <<finobj, tobefnz>>
    BY <2>1, EnterFullFacts
  <2> QED
    BY <2>2 DEF F!vars
<1>8. ASSUME NEW late, NEW saved, Atomic(late, saved),
             late \subseteq {o \in Obj : color[o] = "white"},
             saved \subseteq {o \in Obj : color[o] = "white"}
      PROVE  F!Next
  <2>1. PICK dead \in SUBSET ToSet(finobj), freed \in SUBSET plain :
          /\ finobj' = Without(finobj, dead) /\ tobefnz' = tobefnz \o Kept(finobj, dead)
          /\ ToSet(allgc') = ToSet(allgc) \ freed
    BY <1>8, AtomicFacts
  <2>2. F!Separate(dead, freed)
    BY <2>1, SameOperators DEF F!Separate
  <2> QED
    BY <2>1, <2>2, SameOperators DEF F!Next
<1>9. ASSUME SweepStep PROVE F!Next \/ UNCHANGED F!vars
  <2>1. CASE sweepgc = "NULL"
    BY <1>3, <1>9, <2>1, SweepNext
  <2>2. CASE sweepgc # "NULL"
    <3>1. PICK dead \in SUBSET plain : ToSet(allgc') = ToSet(allgc) \ dead
      BY <1>9, <2>2, SweepSome
    <3>2. UNCHANGED <<finobj, tobefnz>>
      BY <1>9, <2>2, SweepSome
    <3>3. plain' = plain \ dead
      BY <3>1
    <3> QED
      BY <1>4, <3>1, <3>2, <3>3
  <2> QED
    BY <2>1, <2>2
<1>10. ASSUME CallFin \/ CallNextFin PROVE F!Next
  <2>1. /\ tobefnz # <<>> /\ tobefnz' = Tail(tobefnz) /\ UNCHANGED finobj
        /\ Head(tobefnz) # MainThread
        /\ ToSet(allgc') = {Head(tobefnz)} \cup ToSet(allgc)
    BY <1>10, CallSweep
  <2>2. F!Call
    BY <2>1 DEF F!Call
  <2> QED
    BY <2>2 DEF F!Next
<1>11. ASSUME Close PROVE F!Next
  <2>1. tobefnz' = tobefnz \o finobj /\ finobj' = <<>> /\ UNCHANGED allgc
    BY <1>11 DEF Close, AddedToBeFnz
  <2>2. Kept(finobj, ToSet(finobj)) = finobj
    BY <1>2, KeptAll
  <2>3. Without(finobj, ToSet(finobj)) = <<>>
    <3>1. /\ Without(finobj, ToSet(finobj)) \in Seq(Obj)
          /\ ToSet(Without(finobj, ToSet(finobj))) = ToSet(finobj) \ ToSet(finobj)
      BY <1>2, WithoutFacts
    <3>2. ~ Len(Without(finobj, ToSet(finobj))) \in 1..Len(Without(finobj, ToSet(finobj)))
      BY <3>1, Elements
    <3> QED
      BY <3>1, <3>2, Elements
  <2>4. F!Separate(ToSet(finobj), {})
    BY <2>1, <2>2, <2>3, SameOperators DEF F!Separate
  <2>5. ToSet(finobj) \in SUBSET ToSet(finobj) /\ {} \in SUBSET plain
    OBVIOUS
  <2> QED
    BY <2>4, <2>5, SameOperators DEF F!Next
<1>12. ASSUME FreeAllObjects PROVE F!Next
  <2>1. allgc' = <<MainThread>> /\ UNCHANGED <<finobj, tobefnz>>
    BY <1>12, FreeAllSweep DEF FreeAllObjects
  <2>2. plain' = plain \ plain
    BY <2>1 DEF ToSet
  <2> QED
    BY <1>4, <2>1, <2>2
<1>13. ASSUME EnterAtomic \/ SweepEnd \/ FinishCycle \/ FullNext \/ FinReturn \/ BatchDone
              \/ RestartCollection \/ UNCHANGED vars
              \/ (\E o \in Objects : BarrierWhitens(o) \/ Mark(o))
       PROVE  UNCHANGED F!vars
  <2>1. UNCHANGED lists
    BY <1>13 DEF EnterAtomic, SweepEnd, FinishCycle, FullNext, FinReturn, BatchDone,
       RestartCollection, vars, BarrierWhitens, Mark, lists
  <2> QED
    BY <1>3, <2>1
<1> QED
  BY <1>5, <1>6, <1>7, <1>8, <1>9, <1>10, <1>11, <1>12, <1>13 DEF Next

(* Whatever happens around the sweep, finalizers are called as Finalization *)
(* says: never before an object is dead or the state closes, once for each *)
(* registration, the one marked last first; what waits is not freed.       *)
THEOREM ImplementsFinalization == ASSUME NoMemory # "always" PROVE Spec => FinalizersInBatches
<1>1. Init => F!Init
  BY InitPromised
<1>2. SweepInv /\ [Next]_vars => [F!Next]_(F!vars)
  BY StepPromised
<1> QED
  BY <1>1, <1>2, SweepInvariance, PTL DEF Spec, FinalizersInBatches, F!Spec
=============================================================================
