--------------------------- MODULE LuaSort_proofs ---------------------------
(* sort stays inside its intervals and only exchanges elements, for arrays *)
(* of any length and any answers of the order function; and with a         *)
(* consistent one it sorts.                                                *)
EXTENDS LuaSort, DataLemmas

(* the exchange of two elements *)
LEMMA ExchangeKeeps ==
  ASSUME NEW b, NEW x \in 1..N, NEW y \in 1..N, Permutation(b)
  PROVE  Permutation([b EXCEPT ![x] = b[y], ![y] = b[x]])
<1> DEFINE c == [b EXCEPT ![x] = b[y], ![y] = b[x]]
<1>1. c \in [1..N -> 1..N]
  BY DEF Permutation
<1>2. ASSUME NEW u \in 1..N, NEW v \in 1..N, c[u] = c[v] PROVE u = v
  <2>1. c[u] = IF u = y THEN b[x] ELSE IF u = x THEN b[y] ELSE b[u]
    BY DEF Permutation
  <2>2. c[v] = IF v = y THEN b[x] ELSE IF v = x THEN b[y] ELSE b[v]
    BY DEF Permutation
  <2> HIDE DEF c
  <2> QED
    BY <1>2, <2>1, <2>2 DEF Permutation
<1> QED
  BY <1>1, <1>2 DEF Permutation

(* choosePivot's assertion: the pivot is inside the interval *)
LEMMA PivotInside ==
  ASSUME NEW l \in Int, NEW u \in Int, NEW r \in Nat, u - l >= 4
  PROVE  choosePivot(l, u, r) \in Int /\ l < choosePivot(l, u, r) /\ choosePivot(l, u, r) < u
<1> DEFINE r4 == (u - l) \div 4
<1>1. r4 \in Int /\ r4 >= 1 /\ 4 * r4 <= u - l
  BY SMT
<1> HIDE DEF r4
<1>2. r4 * 2 \in Nat /\ r4 * 2 > 0
  BY <1>1
<1>3. ASSUME NEW k \in Int, k > 0 PROVE r % k \in 0..(k - 1)
  BY <1>3
<1>4. r % (r4 * 2) \in 0..(r4 * 2 - 1)
  BY <1>2, <1>3
<1>5. choosePivot(l, u, r) = (r % (r4 * 2)) + (l + r4)
  BY DEF choosePivot, r4
<1> QED
  BY <1>1, <1>4, <1>5

(* choosePivot takes a position inside the interval *)
LEMMA MiddleInside ==
  ASSUME NEW l \in Int, NEW u \in Int, u - l >= 2
  PROVE  (l + u) \div 2 \in Int /\ l < (l + u) \div 2 /\ (l + u) \div 2 < u
BY SMT

LEMMA LengthIsNat == ASSUME order \in Orders PROVE N \in Nat /\ N > 1
BY SortAssumption DEF N

(* a step that exchanges two elements, or none *)
LEMMA StillPermutation ==
  ASSUME Permutation(a), N' = N, NEW x \in 1..N, NEW y \in 1..N, a' = a \/ a' = set2(x, y)
  PROVE  Permutation(a)'
<1> DEFINE b == set2(x, y)
<1>1. Permutation(b)
  BY ExchangeKeeps DEF set2
<1> HIDE DEF b
<1>2. a' = a \/ a' = b
  BY DEF b
<1> QED
  BY <1>1, <1>2 DEF Permutation

(* the start *)
LEMMA InitInv == Init => IndInv
<1> SUFFICES ASSUME Init PROVE IndInv
  OBVIOUS
<1>1. N \in Nat /\ N > 1
  BY LengthIsNat DEF Init
<1>2. Permutation(a)
  BY <1>1 DEF Init, Permutation, N
<1>3. frames = <<>> /\ Waiting = {}
  BY DEF Init, Waiting
<1>4. up = N
  BY DEF Init, N
<1> QED
  BY <1>1, <1>2, <1>3, <1>4 DEF Init, IndInv, StaysInside, Comparing

(* the first comparison *)
LEMMA EndsInv == IndInv /\ CompareEnds => IndInv'
<1> SUFFICES ASSUME IndInv, CompareEnds PROVE IndInv'
  OBVIOUS
<1>1. N \in Nat /\ N' = N /\ Waiting' = Waiting
  BY LengthIsNat DEF IndInv, CompareEnds, N, Waiting
<1>2. 1 <= lo /\ lo < up /\ up <= N /\ lo \in Int /\ up \in Int
  BY DEF IndInv, StaysInside, Comparing, CompareEnds
<1>3. lo \in 1..N /\ up \in 1..N
  BY <1>1, <1>2
<1>4. Permutation(a)'
  <2>1. Permutation(a) /\ (a' = a \/ a' = set2(lo, up))
    BY DEF IndInv, StaysInside, CompareEnds
  <2> QED
    BY <2>1, <1>1, <1>3, StillPermutation
<1>5. CASE up - lo = 1
  BY <1>5, <1>1, <1>4 DEF CompareEnds, IndInv, StaysInside, Comparing
<1>6. CASE up - lo # 1
  <2>1. pc' = "low" /\ p' = IF up - lo < RANLIMIT \/ rnd = 0 THEN (lo + up) \div 2
                            ELSE choosePivot(lo, up, rnd)
    BY <1>6 DEF CompareEnds
  <2>2. up - lo >= 2
    BY <1>2, <1>6
  <2>3. p' \in Int /\ lo < p' /\ p' < up
    <3>1. CASE up - lo < RANLIMIT \/ rnd = 0
      BY <3>1, <2>1, <2>2, <1>2, MiddleInside
    <3>2. CASE ~(up - lo < RANLIMIT \/ rnd = 0)
      <4>1. up - lo >= 4 /\ rnd \in Nat
        BY <3>2, <1>2, SortAssumption DEF IndInv
      <4> QED
        BY <4>1, <3>2, <2>1, <1>2, PivotInside
    <3> QED
      BY <3>1, <3>2
  <2> QED
    BY <2>1, <2>3, <1>1, <1>2, <1>4 DEF CompareEnds, IndInv, StaysInside, Comparing
<1> QED
  BY <1>5, <1>6

(* an exchange leaves a permutation *)
LEMMA PermutationNext ==
  ASSUME NEW b, Permutation(b), a' = b, N' = N
  PROVE  Permutation(a)'
BY DEF Permutation

(* what is known while two elements are compared *)
LEMMA IntervalFacts ==
  ASSUME IndInv, pc \in Comparing
  PROVE  /\ N \in Nat /\ 1 <= lo /\ lo < up /\ up <= N /\ lo \in Int /\ up \in Int
         /\ lo \in 1..N /\ up \in 1..N /\ up - 1 \in 1..N
BY LengthIsNat DEF IndInv, StaysInside

(* partition begins *)
LEMMA ToPartitionInv ==
  ASSUME IndInv, pc \in {"low", "high"}, NEW b, Permutation(b), ToPartition(b),
         UNCHANGED <<order, lo, up, rnd, p, frames>>
  PROVE  IndInv'
<1>1. N' = N /\ Waiting' = Waiting
  BY DEF N, Waiting
<1>2. /\ N \in Nat /\ 1 <= lo /\ lo < up /\ up <= N /\ lo \in Int /\ up \in Int
      /\ lo \in 1..N /\ up \in 1..N /\ up - 1 \in 1..N
  BY IntervalFacts DEF Comparing
<1>3. p \in Int /\ lo < p /\ p < up /\ p \in 1..N
  BY <1>2 DEF IndInv, StaysInside
<1>4. CASE up - lo = 2
  <2>1. pc' = "return" /\ a' = b /\ UNCHANGED <<i, j, pivot>>
    BY <1>4 DEF ToPartition
  <2>2. Permutation(a)'
    BY <2>1, <1>1, PermutationNext
  <2> QED
    BY <2>1, <2>2, <1>1 DEF IndInv, StaysInside, Comparing
<1>5. CASE up - lo # 2
  <2>1. /\ pc' = "left" /\ i' = lo + 1 /\ j' = up - 1
        /\ a' = [b EXCEPT ![p] = b[up - 1], ![up - 1] = b[p]]
    BY <1>5 DEF ToPartition
  <2>2. Permutation([b EXCEPT ![p] = b[up - 1], ![up - 1] = b[p]])
    BY <1>2, <1>3, ExchangeKeeps
  <2>3. Permutation(a)'
    BY <2>1, <2>2, <1>1, PermutationNext
  <2>4. lo < i' /\ i' < up /\ lo < j' /\ j' < up /\ i' \in Int /\ j' \in Int
    BY <2>1, <1>2, <1>3, <1>5
  <2> QED
    BY <2>1, <2>3, <2>4, <1>1, <1>2 DEF IndInv, StaysInside, Comparing
<1> QED
  BY <1>4, <1>5

(* the second one *)
LEMMA LowInv == IndInv /\ CompareLow => IndInv'
<1> SUFFICES ASSUME IndInv, CompareLow PROVE IndInv'
  OBVIOUS
<1>1. N' = N /\ Waiting' = Waiting /\ pc = "low"
  BY DEF CompareLow, N, Waiting
<1>2. lo \in 1..N /\ p \in 1..N /\ Permutation(a)
  BY <1>1, IntervalFacts DEF IndInv, StaysInside, Comparing
<1>3. Permutation(set2(p, lo))
  BY <1>2, ExchangeKeeps DEF set2
<1>4. \/ ToPartition(set2(p, lo)) /\ UNCHANGED <<order, lo, up, rnd, p, frames>>
      \/ pc' = "high" /\ UNCHANGED <<a, i, j, pivot, order, lo, up, rnd, p, frames>>
  BY DEF CompareLow
<1>5. CASE ToPartition(set2(p, lo)) /\ UNCHANGED <<order, lo, up, rnd, p, frames>>
  BY <1>1, <1>3, <1>5, ToPartitionInv
<1>6. CASE pc' = "high" /\ UNCHANGED <<a, i, j, pivot, order, lo, up, rnd, p, frames>>
  <2>1. Permutation(a)'
    BY <1>1, <1>2, <1>6, PermutationNext
  <2> QED
    BY <2>1, <1>1, <1>6 DEF IndInv, StaysInside, Comparing
<1> QED
  BY <1>4, <1>5, <1>6

(* the third one *)
LEMMA HighInv == IndInv /\ CompareHigh => IndInv'
<1> SUFFICES ASSUME IndInv, CompareHigh PROVE IndInv'
  OBVIOUS
<1>1. pc = "high" /\ UNCHANGED <<order, lo, up, rnd, p, frames>>
  BY DEF CompareHigh
<1>2. up \in 1..N /\ p \in 1..N /\ Permutation(a)
  BY <1>1, IntervalFacts DEF IndInv, StaysInside, Comparing
<1>3. Permutation(set2(p, up))
  BY <1>2, ExchangeKeeps DEF set2
<1>4. PICK b \in {a, set2(p, up)} : ToPartition(b)
  BY DEF CompareHigh
<1> QED
  BY <1>1, <1>2, <1>3, <1>4, ToPartitionInv

(* the loop from the left *)
LEMMA LeftInv == IndInv /\ CompareLeft => IndInv'
<1> SUFFICES ASSUME IndInv, CompareLeft PROVE IndInv'
  OBVIOUS
<1>1. N' = N /\ Waiting' = Waiting /\ pc = "left" /\ UNCHANGED <<order, a, lo, up, rnd, p, frames>>
  BY DEF CompareLeft, N, Waiting
<1>2. Permutation(a)'
  BY <1>1, PermutationNext DEF IndInv, StaysInside
<1>3. \/ pc' = "error" /\ UNCHANGED <<i, j>>
      \/ i # up - 1 /\ i' = i + 1 /\ UNCHANGED <<pc, j>>
      \/ j' = j - 1 /\ pc' = "right" /\ UNCHANGED i
  BY DEF CompareLeft
<1>4. /\ lo < i /\ i < up /\ lo < j /\ j < up /\ {lo, up, i, j} \subseteq Int
      /\ 1 <= lo /\ lo < up /\ up <= N
  BY <1>1 DEF IndInv, StaysInside, Comparing
<1>5. CASE pc' = "error" /\ UNCHANGED <<i, j>>
  BY <1>1, <1>2, <1>5 DEF IndInv, StaysInside, Comparing
<1>6. CASE i # up - 1 /\ i' = i + 1 /\ UNCHANGED <<pc, j>>
  <2>1. i' \in Int /\ lo < i' /\ i' < up
    BY <1>4, <1>6
  <2> QED
    BY <1>1, <1>2, <1>4, <1>6, <2>1 DEF IndInv, StaysInside, Comparing
<1>7. CASE j' = j - 1 /\ pc' = "right" /\ UNCHANGED i
  <2>1. j' \in Int /\ lo <= j' /\ j' < up - 1
    BY <1>4, <1>7
  <2> QED
    BY <1>1, <1>2, <1>4, <1>7, <2>1 DEF IndInv, StaysInside, Comparing
<1> QED
  BY <1>3, <1>5, <1>6, <1>7

(* where the loops of partition are *)
LEMMA LoopFacts ==
  ASSUME NEW l \in Int, NEW u \in Int, Loop(l, u), 1 <= l, u <= N, N' = N
  PROVE  /\ lo' = l /\ up' = u /\ pc' \in {"ends", "return"}
         /\ pc' = "ends" => 1 <= lo' /\ lo' < up' /\ up' <= N'
BY DEF Loop

(* a new interval to wait, and the other one to sort *)
LEMMA RecurseFacts ==
  ASSUME IndInv, pc \in Comparing, NEW q \in Int, lo < q, q < up, Recurse(q),
         UNCHANGED <<order, rnd>>
  PROVE  /\ frames' \in Seq([lo : Int, up : Int, n : Int, rnd : Nat])
         /\ \A f \in Waiting' : 1 <= f.lo /\ f.up <= N /\ f.lo <= f.up /\ f.n > 0
         /\ lo' \in Int /\ up' \in Int /\ pc' \in {"ends", "return"}
         /\ pc' = "ends" => 1 <= lo' /\ lo' < up' /\ up' <= N
<1>1. N' = N /\ N \in Nat /\ 1 <= lo /\ lo < up /\ up <= N /\ lo \in Int /\ up \in Int
  BY IntervalFacts DEF N
<1>2. PICK f \in [lo : Int, up : Int, n : Int, rnd : Nat] :
        /\ frames' = Append(frames, f)
        /\ 1 <= f.lo /\ f.up <= N /\ f.lo <= f.up /\ f.n > 0
  <2>1. CASE Smaller(q)
    <3> DEFINE f == [lo |-> q + 1, up |-> up, n |-> q - lo, rnd |-> rnd]
    <3>1. frames' = Append(frames, f) /\ f \in [lo : Int, up : Int, n : Int, rnd : Nat]
      BY <2>1, <1>1 DEF Recurse, IndInv
    <3> QED
      BY <3>1, <1>1
  <2>2. CASE ~Smaller(q)
    <3> DEFINE f == [lo |-> lo, up |-> q - 1, n |-> up - q, rnd |-> rnd]
    <3>1. frames' = Append(frames, f) /\ f \in [lo : Int, up : Int, n : Int, rnd : Nat]
      BY <2>2, <1>1 DEF Recurse, IndInv
    <3> QED
      BY <3>1, <1>1
  <2> QED
    BY <2>1, <2>2
<1>3. frames \in Seq([lo : Int, up : Int, n : Int, rnd : Nat])
  BY DEF IndInv
<1>4. \A g \in Waiting' : g \in Waiting \/ g = f
  <2>1. Len(frames') = Len(frames) + 1 /\ \A k \in 1..Len(frames') :
          frames'[k] = IF k <= Len(frames) THEN frames[k] ELSE f
    BY <1>2, <1>3
  <2>2. SUFFICES ASSUME NEW g \in Waiting' PROVE g \in Waiting \/ g = f
    OBVIOUS
  <2>3. PICK k \in 1..Len(frames') : g = frames'[k]
    BY DEF Waiting
  <2>4. Len(frames) \in Nat
    BY <1>3
  <2>5. CASE k <= Len(frames)
    BY <2>1, <2>3, <2>4, <2>5 DEF Waiting
  <2>6. CASE ~(k <= Len(frames))
    BY <2>1, <2>3, <2>6
  <2> QED
    BY <2>5, <2>6
<1>5. \E l, u \in Int : Loop(l, u) /\ 1 <= l /\ u <= N
  <2>1. CASE Smaller(q)
    BY <2>1, <1>1 DEF Recurse
  <2>2. CASE ~Smaller(q)
    BY <2>2, <1>1 DEF Recurse
  <2> QED
    BY <2>1, <2>2
<1>6. /\ lo' \in Int /\ up' \in Int /\ pc' \in {"ends", "return"}
      /\ pc' = "ends" => 1 <= lo' /\ lo' < up' /\ up' <= N
  BY <1>5, <1>1, LoopFacts
<1>7. \A g \in Waiting : 1 <= g.lo /\ g.up <= N /\ g.lo <= g.up /\ g.n > 0
  BY DEF IndInv, StaysInside
<1> QED
  BY <1>2, <1>3, <1>4, <1>6, <1>7

(* the loop from the right, and the end of partition *)
LEMMA RightInv == IndInv /\ CompareRight => IndInv'
<1> SUFFICES ASSUME IndInv, CompareRight PROVE IndInv'
  OBVIOUS
<1>1. N' = N /\ pc = "right" /\ UNCHANGED <<order, rnd, pivot>>
  BY DEF CompareRight, N
<1>2. \/ pc' = "error" /\ UNCHANGED <<a, lo, up, p, i, j, frames>>
      \/ j >= i /\ j' = j - 1 /\ UNCHANGED <<pc, a, lo, up, p, i, frames>>
      \/ a' = set2(up - 1, i) /\ p' = i /\ Recurse(i) /\ UNCHANGED <<i, j>>
      \/ /\ j >= i /\ a' = set2(i, j) /\ i' = i + 1 /\ pc' = "left"
         /\ UNCHANGED <<lo, up, p, j, frames>>
  BY DEF CompareRight
<1>3. /\ N \in Nat /\ 1 <= lo /\ lo < up /\ up <= N /\ lo \in Int /\ up \in Int
      /\ lo \in 1..N /\ up \in 1..N /\ up - 1 \in 1..N
  BY <1>1, IntervalFacts DEF Comparing
<1>4. /\ i \in Int /\ j \in Int /\ lo < i /\ i < up /\ lo <= j /\ j < up - 1
      /\ Permutation(a)
  BY <1>1 DEF IndInv, StaysInside
<1>5. i \in 1..N /\ j \in 1..N
  BY <1>3, <1>4
<1>6. CASE pc' = "error" /\ UNCHANGED <<a, lo, up, p, i, j, frames>>
  <2>1. Permutation(a)' /\ Waiting' = Waiting
    BY <1>1, <1>4, <1>6, PermutationNext DEF Waiting
  <2> QED
    BY <1>1, <1>6, <2>1 DEF IndInv, StaysInside, Comparing
<1>7. CASE j >= i /\ j' = j - 1 /\ UNCHANGED <<pc, a, lo, up, p, i, frames>>
  <2>1. Permutation(a)' /\ Waiting' = Waiting
    BY <1>1, <1>4, <1>7, PermutationNext DEF Waiting
  <2>2. j' \in Int /\ lo <= j' /\ j' < up - 1
    BY <1>3, <1>4, <1>7
  <2> QED
    BY <1>1, <1>3, <1>4, <1>7, <2>1, <2>2 DEF IndInv, StaysInside, Comparing
<1>8. CASE a' = set2(up - 1, i) /\ p' = i /\ Recurse(i) /\ UNCHANGED <<i, j>>
  <2>1. Permutation(a)'
    BY <1>1, <1>3, <1>4, <1>5, <1>8, StillPermutation
  <2>2. /\ frames' \in Seq([lo : Int, up : Int, n : Int, rnd : Nat])
        /\ \A f \in Waiting' : 1 <= f.lo /\ f.up <= N /\ f.lo <= f.up /\ f.n > 0
        /\ lo' \in Int /\ up' \in Int /\ pc' \in {"ends", "return"}
        /\ pc' = "ends" => 1 <= lo' /\ lo' < up' /\ up' <= N
    BY <1>1, <1>4, <1>8, RecurseFacts DEF Comparing
  <2> QED
    BY <1>1, <1>4, <1>8, <2>1, <2>2 DEF IndInv, StaysInside, Comparing
<1>9. CASE /\ j >= i /\ a' = set2(i, j) /\ i' = i + 1 /\ pc' = "left"
           /\ UNCHANGED <<lo, up, p, j, frames>>
  <2>1. Permutation(a)' /\ Waiting' = Waiting
    BY <1>1, <1>4, <1>5, <1>9, StillPermutation DEF Waiting
  <2>2. i' \in Int /\ lo < i' /\ i' < up /\ lo < j' /\ j' < up
    BY <1>3, <1>4, <1>9
  <2> QED
    BY <1>1, <1>3, <1>4, <1>9, <2>1, <2>2 DEF IndInv, StaysInside, Comparing
<1> QED
  BY <1>2, <1>6, <1>7, <1>8, <1>9

(* a sequence without its last element *)
LEMMA ButLast ==
  ASSUME NEW S, NEW s \in Seq(S), s # <<>>
  PROVE  /\ SubSeq(s, 1, Len(s) - 1) \in Seq(S)
         /\ Len(SubSeq(s, 1, Len(s) - 1)) = Len(s) - 1
         /\ \A k \in 1..(Len(s) - 1) : SubSeq(s, 1, Len(s) - 1)[k] = s[k]
<1>1. Len(s) \in Nat /\ Len(s) > 0
  OBVIOUS
<1>2. PICK m \in Nat : m = Len(s) - 1
  BY <1>1
<1>3. \A k \in 1..m : s[k] \in S
  BY <1>1, <1>2
<1>4. /\ SubSeq(s, 1, m) \in Seq(S)
      /\ Len(SubSeq(s, 1, m)) = IF 1 <= m THEN m - 1 + 1 ELSE 0
      /\ \A k \in 1..(m - 1 + 1) : SubSeq(s, 1, m)[k] = s[1 + k - 1]
  BY <1>3, SubSeqProperties
<1> QED
  BY <1>2, <1>4

(* a call returns *)
LEMMA ReturnInv == IndInv /\ Return => IndInv'
<1> SUFFICES ASSUME IndInv, Return PROVE IndInv'
  OBVIOUS
<1> DEFINE f == frames[Len(frames)]
           Frame == [lo : Int, up : Int, n : Int, rnd : Nat]
<1>1. /\ frames' = SubSeq(frames, 1, Len(frames) - 1) /\ Loop(f.lo, f.up)
      /\ rnd' \in Random \/ rnd' = f.rnd
      /\ N' = N /\ UNCHANGED <<order, a, p, i, j, pivot>>
  BY DEF Return, N
<1>2. frames \in Seq(Frame) /\ frames # <<>> /\ Len(frames) \in Nat /\ Len(frames) > 0
  BY SMTT(30) DEF IndInv, Return
<1> HIDE DEF Frame
<1>3. f \in Frame /\ f \in Waiting
  <2>1. Len(frames) \in 1..Len(frames)
    BY <1>2
  <2>2. f \in Frame
    BY <1>2, <2>1
  <2> QED
    BY <2>1, <2>2 DEF Waiting
<1>4. f.lo \in Int /\ f.up \in Int /\ f.rnd \in Nat
  BY <1>3 DEF Frame
<1>5. \A g \in Waiting : 1 <= g.lo /\ g.up <= N /\ g.lo <= g.up /\ g.n > 0
  BY DEF IndInv, StaysInside
<1>6. frames' \in Seq(Frame) /\ \A g \in Waiting' : g \in Waiting
  <2>1. /\ frames' \in Seq(Frame) /\ Len(frames') = Len(frames) - 1
        /\ \A k \in 1..Len(frames') : frames'[k] = frames[k]
    BY <1>1, <1>2, ButLast
  <2>2. 1..Len(frames') \subseteq 1..Len(frames)
    BY <2>1, <1>2
  <2> QED
    BY <2>1, <2>2 DEF Waiting
<1>7. /\ lo' = f.lo /\ up' = f.up /\ pc' \in {"ends", "return"}
      /\ pc' = "ends" => 1 <= lo' /\ lo' < up' /\ up' <= N'
  BY <1>1, <1>3, <1>5, <1>4, LoopFacts
<1>8. rnd' \in Nat
  BY <1>1, <1>4, SortAssumption
<1>9. Permutation(a)'
  BY <1>1, PermutationNext DEF IndInv, StaysInside
<1> HIDE DEF f
<1> QED
  BY <1>1, <1>3, <1>5, <1>6, <1>7, <1>8, <1>9, <1>4 DEF Frame, IndInv, StaysInside, Comparing

LEMMA StillInv == IndInv /\ (SortEnds \/ UNCHANGED vars) => IndInv'
<1> SUFFICES ASSUME IndInv, SortEnds \/ UNCHANGED vars PROVE IndInv'
  OBVIOUS
<1>1. /\ N' = N /\ Waiting' = Waiting /\ UNCHANGED <<order, a, lo, up, rnd, p, i, j, frames>>
      /\ pc' = "done" \/ pc' = pc
  BY DEF SortEnds, vars, N, Waiting
<1>2. Permutation(a)'
  BY <1>1, PermutationNext DEF IndInv, StaysInside
<1> QED
  BY <1>1, <1>2 DEF IndInv, StaysInside, Comparing

(* For arrays of any length and any answers, consistent or not, sort is    *)
(* always inside the interval it works on (the indices of partition and    *)
(* the elements auxsort compares), and the array is a permutation of what  *)
(* it was: auxsort and partition.                                          *)
THEOREM AlwaysInside == Spec => []StaysInside
<1>1. Init => IndInv
  BY InitInv
<1>2. IndInv /\ [Next]_vars => IndInv'
  BY EndsInv, LowInv, HighInv, LeftInv, RightInv, ReturnInv, StillInv DEF Next
<1>3. IndInv => StaysInside
  BY DEF IndInv
<1> QED
  BY <1>1, <1>2, <1>3, PTL DEF Spec

-----------------------------------------------------------------------------
(* sort sorts, and how deep its calls nest.                                *)

(* no two intervals overlap *)
Apart ==
  /\ pc \in Comparing => \A k \in 1..Len(frames) : frames[k].up < lo \/ up < frames[k].lo
  /\ \A k, m \in 1..Len(frames) :
       k # m => frames[k].up < frames[m].lo \/ frames[m].up < frames[k].lo

(* an interval has at most its share of the elements *)
Shares ==
  /\ pc \in Comparing => 2^Len(frames) * (up - lo + 2) <= N + 1
  /\ \A k \in 1..Len(frames) : 2^(k - 1) * (frames[k].up - frames[k].lo + 2) <= N + 1

(* two elements are in order, or in one interval that is not sorted yet *)
InOrderBut(b, l, u) ==
  \A x, y \in 1..N : x < y =>
    \/ Key(b[x]) <= Key(b[y])
    \/ l <= x /\ y <= u
    \/ \E k \in 1..Len(frames) : frames[k].lo <= x /\ y <= frames[k].up
InOrder == IF pc \in Comparing THEN InOrderBut(a, lo, up) ELSE InOrderBut(a, 1, 0)

(* what the comparisons of this interval have shown so far *)
Shown ==
  /\ pc # "error"
  /\ pc \in {"low", "high"} => Key(a[lo]) <= Key(a[up])
  /\ pc = "high" => Key(a[lo]) <= Key(a[p])
  /\ pc \in {"left", "right"} =>
       /\ a[up - 1] = pivot
       /\ \A x \in lo..(i - 1) : Key(a[x]) <= Key(pivot)
       /\ \A x \in (j + 1)..up : Key(pivot) <= Key(a[x])
  /\ pc = "left" => Key(pivot) <= Key(a[j])
  /\ pc = "right" => Key(pivot) <= Key(a[i])

SortInv ==
  /\ IndInv
  /\ Apart
  /\ Shares
  /\ order.consistent => InOrder /\ Shown

LEMMA KeyIsInt == ASSUME order \in Orders, NEW x \in 1..N PROVE Key(x) \in Int
BY SortAssumption DEF Key, N

(* the calls that wait *)
LEMMA FrameFacts ==
  ASSUME IndInv
  PROVE  /\ Len(frames) \in Nat /\ N \in Nat
         /\ \A k \in 1..Len(frames) :
              /\ frames[k] \in Waiting /\ frames[k].lo \in Int /\ frames[k].up \in Int
              /\ 1 <= frames[k].lo /\ frames[k].up <= N /\ frames[k].lo <= frames[k].up
<1>1. frames \in Seq([lo : Int, up : Int, n : Int, rnd : Nat]) /\ N \in Nat
  BY LengthIsNat DEF IndInv
<1> DEFINE Frame == [lo : Int, up : Int, n : Int, rnd : Nat]
<1>2. \A k \in 1..Len(frames) : frames[k] \in Waiting /\ frames[k].lo \in Int /\ frames[k].up \in Int
  <2>1. frames \in Seq(Frame)
    BY <1>1
  <2>2. \A f \in Frame : f.lo \in Int /\ f.up \in Int
    OBVIOUS
  <2> HIDE DEF Frame
  <2>3. \A k \in 1..Len(frames) : frames[k] \in Frame
    BY <2>1, ElementOfSeq
  <2> QED
    BY <2>2, <2>3 DEF Waiting
<1>3. \A f \in Waiting : 1 <= f.lo /\ f.up <= N /\ f.lo <= f.up
  BY DEF IndInv, StaysInside
<1> QED
  BY <1>1, <1>2, <1>3

(* the intervals that wait, around one that is being sorted *)
LEMMA SortFacts ==
  ASSUME SortInv, pc \in Comparing
  PROVE  /\ N \in Nat /\ 1 <= lo /\ lo < up /\ up <= N /\ lo \in Int /\ up \in Int
         /\ lo \in 1..N /\ up \in 1..N /\ up - 1 \in 1..N
         /\ order \in Orders /\ Permutation(a) /\ a \in [1..N -> 1..N]
         /\ \A k \in 1..Len(frames) : frames[k].up < lo \/ up < frames[k].lo
         /\ order.consistent => InOrderBut(a, lo, up) /\ Shown
BY IntervalFacts DEF SortInv, IndInv, StaysInside, Permutation, Apart, InOrder

(* an exchange inside the interval does not matter to the elements outside *)
LEMMA ExchangeInOrder ==
  ASSUME SortInv, pc \in Comparing, NEW b \in [1..N -> 1..N], InOrderBut(b, lo, up),
         NEW x \in lo..up, NEW y \in lo..up
  PROVE  InOrderBut([b EXCEPT ![x] = b[y], ![y] = b[x]], lo, up)
<1> DEFINE c == [b EXCEPT ![x] = b[y], ![y] = b[x]]
<1>1. /\ N \in Nat /\ 1 <= lo /\ lo < up /\ up <= N /\ lo \in Int /\ up \in Int
      /\ \A k \in 1..Len(frames) : frames[k].up < lo \/ up < frames[k].lo
  BY SortFacts
<1>2. \A k \in 1..Len(frames) : frames[k].lo \in Int /\ frames[k].up \in Int
  BY FrameFacts DEF SortInv
<1>3. \A u \in 1..N : IF u \in lo..up THEN \E w \in lo..up : w \in 1..N /\ c[u] = b[w]
                                        ELSE c[u] = b[u]
  <2>0. lo..up \subseteq 1..N
    <3>1. N \in Nat /\ lo \in Int /\ up \in Int /\ 1 <= lo /\ up <= N
      BY <1>1
    <3> QED
      BY <3>1
  <2>1. x \in 1..N /\ y \in 1..N
    BY <2>0
  <2>2. \A u \in 1..N : c[u] = IF u = y THEN b[x] ELSE IF u = x THEN b[y] ELSE b[u]
    BY <2>1
  <2> HIDE DEF c
  <2> QED
    BY <2>1, <2>2
<1> HIDE DEF c
<1>4. ASSUME NEW u \in 1..N, NEW v \in 1..N, u < v
      PROVE  \/ Key(c[u]) <= Key(c[v])
             \/ lo <= u /\ v <= up
             \/ \E k \in 1..Len(frames) : frames[k].lo <= u /\ v <= frames[k].up
  <2>0. u \in Int /\ v \in Int
    BY <1>1
  <2>1. CASE u \in lo..up /\ v \in lo..up
    BY <2>1
  <2>2. CASE u \notin lo..up /\ v \notin lo..up
    <3>1. c[u] = b[u] /\ c[v] = b[v]
      BY <1>3, <2>2
    <3> QED
      BY <3>1, <1>4 DEF InOrderBut
  <2>3. CASE u \in lo..up /\ v \notin lo..up
    <3>1. PICK w \in lo..up : w \in 1..N /\ c[u] = b[w]
      BY <1>3, <2>3
    <3>2. up < v /\ w < v
      BY <1>1, <1>4, <2>0, <2>3, <3>1
    <3>3. c[v] = b[v]
      BY <1>3, <2>3
    <3>4. \/ Key(b[w]) <= Key(b[v])
          \/ lo <= w /\ v <= up
          \/ \E k \in 1..Len(frames) : frames[k].lo <= w /\ v <= frames[k].up
      BY <3>1, <3>2 DEF InOrderBut
    <3>5. ASSUME NEW k \in 1..Len(frames), frames[k].lo <= w, v <= frames[k].up PROVE FALSE
      <4>1. frames[k].lo \in Int /\ frames[k].up \in Int /\ (frames[k].up < lo \/ up < frames[k].lo)
        BY <1>1, <1>2
      <4>2. w \in Int /\ lo <= w /\ w <= up /\ lo \in Int /\ up \in Int
        BY <1>1, <3>1
      <4> QED
        BY <2>0, <3>2, <3>5, <4>1, <4>2
    <3> QED
      BY <1>1, <2>0, <3>1, <3>2, <3>3, <3>4, <3>5
  <2>4. CASE u \notin lo..up /\ v \in lo..up
    <3>1. PICK w \in lo..up : w \in 1..N /\ c[v] = b[w]
      BY <1>3, <2>4
    <3>2. u < lo /\ u < w
      BY <1>1, <1>4, <2>0, <2>4, <3>1
    <3>3. c[u] = b[u]
      BY <1>3, <2>4
    <3>4. \/ Key(b[u]) <= Key(b[w])
          \/ lo <= u /\ w <= up
          \/ \E k \in 1..Len(frames) : frames[k].lo <= u /\ w <= frames[k].up
      BY <3>1, <3>2 DEF InOrderBut
    <3>5. ASSUME NEW k \in 1..Len(frames), frames[k].lo <= u, w <= frames[k].up PROVE FALSE
      <4>1. frames[k].lo \in Int /\ frames[k].up \in Int /\ (frames[k].up < lo \/ up < frames[k].lo)
        BY <1>1, <1>2
      <4> QED
        BY <1>1, <2>0, <3>2, <3>5, <4>1
    <3> QED
      BY <1>1, <2>0, <3>1, <3>2, <3>3, <3>4, <3>5
  <2> QED
    BY <2>1, <2>2, <2>3, <2>4
<1>5. InOrderBut(c, lo, up)
  BY <1>4 DEF InOrderBut
<1> QED
  BY <1>5 DEF c

(* steps that leave the intervals alone *)
LEMMA SameIntervals ==
  ASSUME SortInv, pc \in Comparing, UNCHANGED <<order, lo, up, frames>>
  PROVE  Apart' /\ Shares'
BY DEF SortInv, Apart, Shares, Comparing, N

(* exchanges inside the interval keep the order between intervals *)
LEMMA InOrderNext ==
  ASSUME UNCHANGED <<order, frames>>, NEW b, a' = b,
         IF pc' \in Comparing THEN InOrderBut(b, lo', up') ELSE InOrderBut(b, 1, 0)
  PROVE  InOrder'
BY DEF InOrder, InOrderBut, Key, N, Comparing

(* the interval is sorted *)
LEMMA SortedInside ==
  ASSUME NEW b, InOrderBut(b, lo, up), N \in Nat, lo \in Int, up \in Int,
         \A x, y \in lo..up : x < y => Key(b[x]) <= Key(b[y])
  PROVE  InOrderBut(b, 1, 0)
BY DEF InOrderBut

(* the pivot while partition runs *)
LEMMA PivotFacts ==
  ASSUME IndInv, pc \in {"low", "high"}
  PROVE  p \in Int /\ lo < p /\ p < up /\ p \in 1..N /\ p # lo /\ p # up
<1>1. N \in Nat /\ 1 <= lo /\ lo < up /\ up <= N /\ lo \in Int /\ up \in Int
  BY IntervalFacts DEF Comparing
<1>2. p \in Int /\ lo < p /\ p < up
  BY DEF IndInv, StaysInside
<1> QED
  BY <1>1, <1>2

(* The same for the order of the elements, step by step. *)
LEMMA EndsSort == SortInv /\ CompareEnds => SortInv'
<1> SUFFICES ASSUME SortInv, CompareEnds PROVE SortInv'
  OBVIOUS
<1>1. pc = "ends" /\ UNCHANGED <<order, lo, up, rnd, i, j, pivot, frames>>
  BY DEF CompareEnds
<1>2. IndInv' /\ Apart' /\ Shares'
  BY <1>1, EndsInv, SameIntervals DEF SortInv, Comparing
<1>3. ASSUME order.consistent PROVE InOrder' /\ Shown'
  <2>1. /\ N \in Nat /\ lo \in Int /\ up \in Int /\ lo < up /\ lo \in 1..N /\ up \in 1..N
        /\ order \in Orders /\ a \in [1..N -> 1..N] /\ InOrderBut(a, lo, up)
    BY <1>1, <1>3, SortFacts DEF Comparing
  <2>2. Key(a[lo]) \in Int /\ Key(a[up]) \in Int
    BY <2>1, KeyIsInt
  <2>3. a' = IF Key(a[up]) < Key(a[lo]) THEN set2(lo, up) ELSE a
    BY <1>3 DEF CompareEnds, sort_comp, Key
  <2>4. InOrderBut(a', lo, up)
    <3>1. lo \in lo..up /\ up \in lo..up /\ pc \in Comparing
      BY <1>1, <2>1 DEF Comparing
    <3>2. InOrderBut(set2(lo, up), lo, up)
      BY <2>1, <3>1, ExchangeInOrder DEF set2
    <3> QED
      BY <2>1, <2>3, <3>2
  <2>5. Key(a'[lo]) <= Key(a'[up])
    BY <2>1, <2>2, <2>3 DEF set2
  <2>6. CASE up - lo = 1
    <3>1. pc' = "return"
      BY <2>6 DEF CompareEnds
    <3>2. \A x, y \in lo..up : x < y => x = lo /\ y = up
      BY <2>1, <2>6
    <3>3. InOrderBut(a', 1, 0)
      BY <2>1, <2>4, <2>5, <3>2, SortedInside
    <3>4. InOrder'
      BY <1>1, <3>1, <3>3, InOrderNext DEF Comparing
    <3> QED
      BY <3>1, <3>4 DEF Shown
  <2>7. CASE up - lo # 1
    <3>1. pc' = "low"
      BY <2>7 DEF CompareEnds
    <3>2. InOrder'
      BY <1>1, <2>4, <3>1, InOrderNext DEF Comparing
    <3> QED
      BY <1>1, <2>5, <3>1, <3>2 DEF Shown, Key
  <2> QED
    BY <2>6, <2>7
<1> QED
  BY <1>1, <1>2, <1>3 DEF SortInv

(* the pivot is between the two ends: partition can begin *)
LEMMA ToPartitionSort ==
  ASSUME SortInv, pc \in {"low", "high"}, order.consistent,
         NEW b \in [1..N -> 1..N], InOrderBut(b, lo, up), ToPartition(b),
         UNCHANGED <<order, lo, up, rnd, p, frames>>,
         Key(b[lo]) <= Key(b[p]), Key(b[p]) <= Key(b[up])
  PROVE  InOrder' /\ Shown'
<1>1. /\ N \in Nat /\ lo \in Int /\ up \in Int /\ lo < up /\ lo \in 1..N /\ up \in 1..N
      /\ order \in Orders /\ up - 1 \in 1..N
  BY SortFacts DEF Comparing
<1>2. p \in Int /\ lo < p /\ p < up /\ p \in 1..N
  BY <1>1, PivotFacts DEF SortInv
<1>3. Key(b[lo]) \in Int /\ Key(b[p]) \in Int /\ Key(b[up]) \in Int
  BY <1>1, <1>2, KeyIsInt
<1>4. CASE up - lo = 2
  <2>1. pc' = "return" /\ a' = b
    BY <1>4 DEF ToPartition
  <2>2. \A x \in lo..up : x = lo \/ x = p \/ x = up
    BY <1>1, <1>2, <1>4
  <2>3. Key(b[lo]) <= Key(b[up])
    BY <1>3
  <2>4. ASSUME NEW x \in lo..up, NEW y \in lo..up, x < y PROVE Key(b[x]) <= Key(b[y])
    <3>1. (x = lo \/ x = p \/ x = up) /\ (y = lo \/ y = p \/ y = up)
      BY <2>2
    <3>2. x # up /\ y # lo /\ x # y
      BY SMTT(30), <1>1, <2>4
    <3>3. (x = lo /\ y = p) \/ (x = lo /\ y = up) \/ (x = p /\ y = up)
      BY <3>1, <3>2
    <3> QED
      BY <2>3, <3>3
  <2>5. InOrderBut(b, 1, 0)
    BY <1>1, <2>4, SortedInside
  <2>6. InOrder'
    BY <2>1, <2>5, InOrderNext DEF Comparing
  <2> QED
    BY <2>1, <2>6 DEF Shown
<1>5. CASE up - lo # 2
  <2> DEFINE c == [b EXCEPT ![p] = b[up - 1], ![up - 1] = b[p]]
  <2>1. a' = c /\ pivot' = b[p] /\ i' = lo + 1 /\ j' = up - 1 /\ pc' = "left"
    BY <1>5 DEF ToPartition
  <2>2. InOrderBut(c, lo, up)
    <3>1. up - 1 \in lo..up /\ p \in lo..up
      BY <1>1, <1>2
    <3> QED
      BY <3>1, ExchangeInOrder DEF Comparing
  <2>3. InOrder'
    BY <2>1, <2>2, InOrderNext DEF Comparing
  <2>4. c[up - 1] = b[p] /\ c[lo] = b[lo] /\ c[up] = b[up]
    BY <1>1, <1>2, <1>5
  <2> HIDE DEF c
  <2>5. lo..(i' - 1) = {lo} /\ (j' + 1)..up = {up}
    BY <1>1, <2>1
  <2>6. /\ a'[up - 1] = pivot' /\ Key(a'[lo]) <= Key(pivot') /\ Key(pivot') <= Key(a'[up])
        /\ Key(pivot') <= Key(a'[j'])
    BY <2>1, <2>4, <1>3
  <2> QED
    BY <2>1, <2>3, <2>5, <2>6 DEF Shown, Key
<1> QED
  BY <1>4, <1>5

LEMMA LowSort == SortInv /\ CompareLow => SortInv'
<1> SUFFICES ASSUME SortInv, CompareLow PROVE SortInv'
  OBVIOUS
<1>1. pc = "low" /\ UNCHANGED <<order, lo, up, rnd, p, frames>>
  BY DEF CompareLow
<1>2. IndInv' /\ Apart' /\ Shares'
  BY <1>1, LowInv, SameIntervals DEF SortInv, Comparing
<1>3. ASSUME order.consistent PROVE InOrder' /\ Shown'
  <2>1. /\ N \in Nat /\ lo \in Int /\ up \in Int /\ lo < up /\ lo \in 1..N /\ up \in 1..N
        /\ order \in Orders /\ a \in [1..N -> 1..N] /\ InOrderBut(a, lo, up)
        /\ Key(a[lo]) <= Key(a[up])
    BY <1>1, <1>3, SortFacts DEF Comparing, Shown
  <2>2. p \in Int /\ lo < p /\ p < up /\ p \in 1..N
    BY <1>1, PivotFacts DEF SortInv
  <2>3. Key(a[lo]) \in Int /\ Key(a[up]) \in Int /\ Key(a[p]) \in Int
    BY <2>1, <2>2, KeyIsInt
  <2>4. IF Key(a[p]) < Key(a[lo]) THEN ToPartition(set2(p, lo))
        ELSE pc' = "high" /\ UNCHANGED <<a, i, j, pivot>>
    BY <1>3 DEF CompareLow, sort_comp, Key
  <2>5. CASE Key(a[p]) < Key(a[lo])
    <3> DEFINE b == set2(p, lo)
    <3>0. p # lo /\ p # up /\ lo # up
      BY <2>1, <2>2
    <3>1. b[p] = a[lo] /\ b[lo] = a[p] /\ b[up] = a[up] /\ b \in [1..N -> 1..N]
      BY <2>1, <2>2, <3>0 DEF set2
    <3>2. InOrderBut(b, lo, up)
      <4>1. lo \in lo..up /\ p \in lo..up
        BY <2>1, <2>2
      <4> QED
        BY <1>1, <2>1, <4>1, ExchangeInOrder DEF set2, Comparing
    <3> HIDE DEF b
    <3>3. Key(b[lo]) <= Key(b[p]) /\ Key(b[p]) <= Key(b[up])
      BY <2>1, <2>3, <2>5, <3>1
    <3>4. ToPartition(b)
      BY <2>4, <2>5 DEF b
    <3> QED
      BY <1>1, <1>3, <3>1, <3>2, <3>3, <3>4, ToPartitionSort
  <2>6. CASE ~(Key(a[p]) < Key(a[lo]))
    <3>1. pc' = "high" /\ UNCHANGED <<a, i, j, pivot>>
      BY <2>4, <2>6
    <3>2. InOrder'
      BY <1>1, <2>1, <3>1, InOrderNext DEF Comparing
    <3>3. Key(a[lo]) <= Key(a[p])
      BY <2>3, <2>6
    <3> QED
      BY <1>1, <2>1, <3>1, <3>2, <3>3 DEF Shown, Key
  <2> QED
    BY <2>5, <2>6
<1> QED
  BY <1>1, <1>2, <1>3 DEF SortInv

LEMMA HighSort == SortInv /\ CompareHigh => SortInv'
<1> SUFFICES ASSUME SortInv, CompareHigh PROVE SortInv'
  OBVIOUS
<1>1. pc = "high" /\ UNCHANGED <<order, lo, up, rnd, p, frames>>
  BY DEF CompareHigh
<1>2. IndInv' /\ Apart' /\ Shares'
  BY <1>1, HighInv, SameIntervals DEF SortInv, Comparing
<1>3. ASSUME order.consistent PROVE InOrder' /\ Shown'
  <2>1. /\ N \in Nat /\ lo \in Int /\ up \in Int /\ lo < up /\ lo \in 1..N /\ up \in 1..N
        /\ order \in Orders /\ a \in [1..N -> 1..N] /\ InOrderBut(a, lo, up)
        /\ Key(a[lo]) <= Key(a[up]) /\ Key(a[lo]) <= Key(a[p])
    BY <1>1, <1>3, SortFacts DEF Comparing, Shown
  <2>2. p \in Int /\ lo < p /\ p < up /\ p \in 1..N
    BY <1>1, PivotFacts DEF SortInv
  <2>3. Key(a[lo]) \in Int /\ Key(a[up]) \in Int /\ Key(a[p]) \in Int
    BY <2>1, <2>2, KeyIsInt
  <2> DEFINE b == IF Key(a[up]) < Key(a[p]) THEN set2(p, up) ELSE a
  <2>4. ToPartition(b)
    BY <1>3 DEF CompareHigh, sort_comp, Key
  <2>5. b \in [1..N -> 1..N] /\ Key(b[lo]) <= Key(b[p]) /\ Key(b[p]) <= Key(b[up])
    <3>1. p # lo /\ p # up /\ lo # up
      BY <2>1, <2>2
    <3>2. CASE Key(a[up]) < Key(a[p])
      <4>1. b[p] = a[up] /\ b[lo] = a[lo] /\ b[up] = a[p] /\ b \in [1..N -> 1..N]
        BY <2>1, <2>2, <3>1, <3>2 DEF set2
      <4> HIDE DEF b
      <4>2. Key(b[p]) = Key(a[up]) /\ Key(b[lo]) = Key(a[lo]) /\ Key(b[up]) = Key(a[p])
        BY <4>1
      <4>3. Key(a[up]) <= Key(a[p])
        BY <2>3, <3>2
      <4> QED
        BY <2>1, <4>1, <4>2, <4>3
    <3>3. CASE ~(Key(a[up]) < Key(a[p]))
      <4>1. b = a
        BY <3>3
      <4> HIDE DEF b
      <4> QED
        BY <2>1, <2>3, <3>3, <4>1
    <3> QED
      BY <3>2, <3>3
  <2>6. InOrderBut(b, lo, up)
    <3>1. up \in lo..up /\ p \in lo..up
      BY <2>1, <2>2
    <3>2. InOrderBut(set2(p, up), lo, up)
      BY <1>1, <2>1, <3>1, ExchangeInOrder DEF set2, Comparing
    <3> QED
      BY <2>1, <3>2
  <2> HIDE DEF b
  <2> QED
    BY <1>1, <1>3, <2>4, <2>5, <2>6, ToPartitionSort
<1> QED
  BY <1>1, <1>2, <1>3 DEF SortInv

(* what the loops of partition have seen *)
LEMMA ScanFacts ==
  ASSUME SortInv, pc \in {"left", "right"}, order.consistent
  PROVE  /\ N \in Nat /\ {lo, up, i, j} \subseteq Int /\ 1 <= lo /\ lo < up /\ up <= N
         /\ lo < i /\ i < up /\ lo <= j /\ j < up /\ {i, j, up - 1} \subseteq 1..N
         /\ order \in Orders /\ a \in [1..N -> 1..N] /\ InOrderBut(a, lo, up)
         /\ a[up - 1] = pivot /\ Key(pivot) \in Int
         /\ \A x \in lo..(i - 1) : Key(a[x]) <= Key(pivot)
         /\ \A x \in (j + 1)..up : Key(pivot) <= Key(a[x])
         /\ \A x \in 1..N : Key(a[x]) \in Int
<1>1. /\ N \in Nat /\ 1 <= lo /\ lo < up /\ up <= N /\ lo \in Int /\ up \in Int
      /\ order \in Orders /\ a \in [1..N -> 1..N] /\ InOrderBut(a, lo, up)
      /\ up - 1 \in 1..N /\ Shown
  BY SortFacts DEF Comparing
<1>2. {i, j} \subseteq Int /\ lo < i /\ i < up /\ lo <= j /\ j < up
  BY <1>1 DEF SortInv, IndInv, StaysInside
<1>3. /\ a[up - 1] = pivot
      /\ \A x \in lo..(i - 1) : Key(a[x]) <= Key(pivot)
      /\ \A x \in (j + 1)..up : Key(pivot) <= Key(a[x])
  BY <1>1 DEF Shown
<1>4. \A x \in 1..N : Key(a[x]) \in Int
  BY <1>1, KeyIsInt
<1>5. Key(pivot) \in Int
  BY <1>1, <1>3, <1>4
<1>6. i \in 1..N /\ j \in 1..N
  <2>1. i \in Int /\ j \in Int
    BY <1>2
  <2> QED
    BY <1>1, <1>2, <2>1
<1> QED
  BY <1>1, <1>2, <1>3, <1>4, <1>5, <1>6

LEMMA LeftSort == SortInv /\ CompareLeft => SortInv'
<1> SUFFICES ASSUME SortInv, CompareLeft PROVE SortInv'
  OBVIOUS
<1>1. pc = "left" /\ UNCHANGED <<order, a, lo, up, rnd, p, pivot, frames>>
  BY DEF CompareLeft
<1>2. IndInv' /\ Apart' /\ Shares'
  BY <1>1, LeftInv, SameIntervals DEF SortInv, Comparing
<1>3. ASSUME order.consistent PROVE InOrder' /\ Shown'
  <2>1. /\ N \in Nat /\ {lo, up, i, j} \subseteq Int /\ lo < i /\ i < up /\ i \in 1..N
        /\ a[up - 1] = pivot /\ Key(pivot) \in Int /\ Key(a[i]) \in Int
        /\ \A x \in lo..(i - 1) : Key(a[x]) <= Key(pivot)
        /\ \A x \in (j + 1)..up : Key(pivot) <= Key(a[x])
        /\ InOrderBut(a, lo, up)
    BY <1>1, <1>3, ScanFacts
  <2>2. Key(pivot) <= Key(a[j])
    BY <1>1, <1>3 DEF SortInv, Shown
  <2>3. IF Key(a[i]) < Key(pivot)
        THEN \/ i = up - 1 /\ pc' = "error" /\ UNCHANGED <<i, j>>
             \/ i # up - 1 /\ i' = i + 1 /\ UNCHANGED <<pc, j>>
        ELSE j' = j - 1 /\ pc' = "right" /\ UNCHANGED i
    BY <1>3 DEF CompareLeft, sort_comp, Key
  <2>4. CASE Key(a[i]) < Key(pivot)
    <3>1. i # up - 1
      BY <2>1, <2>4
    <3>2. i' = i + 1 /\ UNCHANGED <<pc, j>>
      BY <2>3, <2>4, <3>1
    <3>3. \A x \in lo..(i' - 1) : x \in lo..(i - 1) \/ x = i
      BY <2>1, <3>2
    <3>4. \A x \in lo..(i' - 1) : Key(a[x]) <= Key(pivot)
      BY <2>1, <2>4, <3>3
    <3>5. InOrder'
      BY <1>1, <2>1, <3>2, InOrderNext DEF Comparing
    <3> QED
      BY <1>1, <2>1, <2>2, <3>2, <3>4, <3>5 DEF Shown, Key
  <2>5. CASE ~(Key(a[i]) < Key(pivot))
    <3>1. j' = j - 1 /\ pc' = "right" /\ UNCHANGED i
      BY <2>3, <2>5
    <3>2. \A x \in (j' + 1)..up : x \in (j + 1)..up \/ x = j
      BY <2>1, <3>1
    <3>3. \A x \in (j' + 1)..up : Key(pivot) <= Key(a[x])
      BY <2>1, <2>2, <3>2
    <3>4. Key(pivot) <= Key(a[i])
      BY <2>1, <2>5
    <3>5. InOrder'
      BY <1>1, <2>1, <3>1, InOrderNext DEF Comparing
    <3> QED
      BY <1>1, <2>1, <3>1, <3>3, <3>4, <3>5 DEF Shown, Key
  <2> QED
    BY <2>4, <2>5
<1> QED
  BY <1>1, <1>2, <1>3 DEF SortInv

(* the interval is cut in two: [l, u] is sorted now, that of f waits *)
LEMMA Cut ==
  ASSUME SortInv, pc \in Comparing, NEW q \in Int, lo < q, q < up, Recurse(q), rnd' = rnd
  PROVE  \E f \in [lo : Int, up : Int, n : Int, rnd : Nat], l, u \in Int :
           /\ frames' = Append(frames, f) /\ Loop(l, u)
           /\ \/ l = lo /\ u = q - 1 /\ f.lo = q + 1 /\ f.up = up
              \/ l = q + 1 /\ u = up /\ f.lo = lo /\ f.up = q - 1
           /\ 2 * (u - l + 2) <= up - lo + 2
<1>1. lo \in Int /\ up \in Int /\ rnd \in Nat
  BY SortFacts DEF SortInv, IndInv
<1>2. CASE Smaller(q)
  <2> DEFINE f == [lo |-> q + 1, up |-> up, n |-> q - lo, rnd |-> rnd]
  <2>1. /\ frames' = Append(frames, f) /\ f \in [lo : Int, up : Int, n : Int, rnd : Nat]
        /\ Loop(lo, q - 1) /\ f.lo = q + 1 /\ f.up = up
    BY <1>1, <1>2 DEF Recurse
  <2>2. 2 * (q - 1 - lo + 2) <= up - lo + 2
    BY <1>1, <1>2 DEF Smaller
  <2> HIDE DEF f
  <2> QED
    BY <1>1, <2>1, <2>2
<1>3. CASE ~Smaller(q)
  <2> DEFINE f == [lo |-> lo, up |-> q - 1, n |-> up - q, rnd |-> rnd]
  <2>1. /\ frames' = Append(frames, f) /\ f \in [lo : Int, up : Int, n : Int, rnd : Nat]
        /\ Loop(q + 1, up) /\ f.lo = lo /\ f.up = q - 1
    BY <1>1, <1>3 DEF Recurse
  <2>2. 2 * (up - (q + 1) + 2) <= up - lo + 2
    BY <1>1, <1>3 DEF Smaller
  <2> HIDE DEF f
  <2> QED
    BY <1>1, <2>1, <2>2
<1> QED
  BY <1>2, <1>3

(* one call more *)
LEMMA Appended ==
  ASSUME IndInv, NEW f \in [lo : Int, up : Int, n : Int, rnd : Nat], frames' = Append(frames, f)
  PROVE  /\ Len(frames') = Len(frames) + 1 /\ frames'[Len(frames) + 1] = f
         /\ \A k \in 1..Len(frames) : frames'[k] = frames[k]
         /\ \A k \in 1..Len(frames') : k \in 1..Len(frames) \/ k = Len(frames) + 1
<1> DEFINE Frame == [lo : Int, up : Int, n : Int, rnd : Nat]
<1>1. frames \in Seq(Frame) /\ f \in Frame
  BY DEF IndInv
<1> HIDE DEF Frame
<1>2. Len(frames) \in Nat
  BY <1>1
<1>3. Len(frames') = Len(frames) + 1
  BY <1>1
<1> QED
  BY <1>1, <1>2, <1>3, AppendProperties

(* products *)
LEMMA TimesMonotonic ==
  ASSUME NEW m \in Nat, NEW x \in Int, NEW y \in Int, x <= y
  PROVE  m * x <= m * y
<1>1. m * (y - x) >= 0
  BY SMT
<1>2. m * (y - x) = m * y - m * x
  BY SMT
<1> QED
  BY <1>1, <1>2

(* the smaller interval is sorted by a call: the depth *)
LEMMA RecurseSort ==
  ASSUME SortInv, pc \in Comparing, NEW q \in Int, lo < q, q < up, Recurse(q),
         UNCHANGED <<order, rnd>>
  PROVE  Apart' /\ Shares'
<1> DEFINE Frame == [lo : Int, up : Int, n : Int, rnd : Nat]
<1>1. PICK f \in Frame, l, u \in Int :
           /\ frames' = Append(frames, f) /\ Loop(l, u)
           /\ \/ l = lo /\ u = q - 1 /\ f.lo = q + 1 /\ f.up = up
              \/ l = q + 1 /\ u = up /\ f.lo = lo /\ f.up = q - 1
           /\ 2 * (u - l + 2) <= up - lo + 2
  BY Cut
<1>2. /\ Len(frames') = Len(frames) + 1 /\ frames'[Len(frames) + 1] = f
      /\ \A k \in 1..Len(frames) : frames'[k] = frames[k]
      /\ \A k \in 1..Len(frames') : k \in 1..Len(frames) \/ k = Len(frames) + 1
  BY <1>1, Appended DEF SortInv
<1>3. /\ N \in Nat /\ lo \in Int /\ up \in Int /\ Len(frames) \in Nat
      /\ \A k \in 1..Len(frames) : /\ frames[k].lo \in Int /\ frames[k].up \in Int
                                   /\ frames[k].lo <= frames[k].up
                                   /\ frames[k].up < lo \/ up < frames[k].lo
  BY SortFacts, FrameFacts DEF SortInv
<1>4. lo' = l /\ up' = u /\ pc' = (IF l < u THEN "ends" ELSE "return") /\ N' = N
  BY <1>1 DEF Loop, N
<1>5. f.lo \in Int /\ f.up \in Int
  BY <1>1
<1> HIDE DEF Frame
<1>6. \A k \in 1..Len(frames) :
        /\ frames[k].up < l \/ u < frames[k].lo
        /\ frames[k].up < f.lo \/ f.up < frames[k].lo
  <2> SUFFICES ASSUME NEW k \in 1..Len(frames)
               PROVE  /\ frames[k].up < l \/ u < frames[k].lo
                      /\ frames[k].up < f.lo \/ f.up < frames[k].lo
    OBVIOUS
  <2> DEFINE flo == frames[k].lo
             fup == frames[k].up
  <2>1. flo \in Int /\ fup \in Int /\ (fup < lo \/ up < flo)
    BY <1>3
  <2>2. lo <= l /\ u <= up /\ lo <= f.lo /\ f.up <= up
    BY <1>1, <1>3
  <2> HIDE DEF flo, fup
  <2>3. (fup < l \/ u < flo) /\ (fup < f.lo \/ f.up < flo)
    BY <2>1, <2>2, <1>3, <1>5
  <2> QED
    BY <2>3 DEF flo, fup
<1>7. f.up < l \/ u < f.lo
  BY <1>1
<1>8. \A k, m \in 1..Len(frames) :
        k # m => frames[k].up < frames[m].lo \/ frames[m].up < frames[k].lo
  BY DEF SortInv, Apart
<1>9. Apart'
  <2>1. \A k \in 1..Len(frames') : frames'[k].up < lo' \/ up' < frames'[k].lo
    BY <1>2, <1>4, <1>6, <1>7
  <2>2. \A k, m \in 1..Len(frames') :
          k # m => frames'[k].up < frames'[m].lo \/ frames'[m].up < frames'[k].lo
    BY <1>2, <1>6, <1>8
  <2> QED
    BY <2>1, <2>2 DEF Apart
<1> DEFINE P == 2^Len(frames)
<1>10. P \in Nat /\ 2^Len(frames') = 2 * P /\ P * (up - lo + 2) <= N + 1
  BY <1>2, <1>3, PowerPositive, PowerDoubles DEF SortInv, Shares
<1>11. \A k \in 1..Len(frames) : 2^(k - 1) * (frames[k].up - frames[k].lo + 2) <= N + 1
  BY DEF SortInv, Shares
<1>12. 2 * P * (u - l + 2) <= N + 1
  <2> HIDE DEF P
  <2>1. P * (2 * (u - l + 2)) <= P * (up - lo + 2)
    BY <1>1, <1>3, <1>10, TimesMonotonic
  <2>2. P * (2 * (u - l + 2)) = 2 * P * (u - l + 2)
    BY <1>10, SMT
  <2>3. P * (up - lo + 2) \in Int /\ 2 * P * (u - l + 2) \in Int
    BY <1>3, <1>10
  <2> QED
    BY <1>3, <1>10, <2>1, <2>2, <2>3
<1>13. P * (f.up - f.lo + 2) <= N + 1
  <2> HIDE DEF P
  <2>1. f.up - f.lo + 2 <= up - lo + 2
    BY <1>1, <1>3
  <2>2. P * (f.up - f.lo + 2) <= P * (up - lo + 2)
    BY <1>3, <1>5, <1>10, <2>1, TimesMonotonic
  <2>3. P * (up - lo + 2) \in Int /\ P * (f.up - f.lo + 2) \in Int
    BY <1>3, <1>5, <1>10
  <2> QED
    BY <1>3, <1>10, <2>2, <2>3
<1>14. Len(frames) + 1 - 1 = Len(frames)
  BY <1>3
<1>15. Shares'
  <2>1. 2^Len(frames') * (up' - lo' + 2) <= N' + 1
    BY <1>4, <1>10, <1>12
  <2>2. ASSUME NEW k \in 1..Len(frames')
        PROVE  2^(k - 1) * (frames'[k].up - frames'[k].lo + 2) <= N' + 1
    <3>1. CASE k \in 1..Len(frames)
      BY <3>1, <1>2, <1>4, <1>11
    <3>2. CASE k = Len(frames) + 1
      <4>1. 2^(k - 1) = P /\ frames'[k] = f
        BY <3>2, <1>2, <1>14
      <4> HIDE DEF P
      <4> QED
        BY <4>1, <1>4, <1>13
    <3> QED
      BY <3>1, <3>2, <1>2
  <2> QED
    BY <2>1, <2>2 DEF Shares
<1> QED
  BY <1>9, <1>15

(* the pivot in its place: smaller ones at its left, greater ones at its right *)
LEMMA RecurseOrder ==
  ASSUME SortInv, pc \in Comparing, NEW q \in Int, lo < q, q < up, Recurse(q),
         UNCHANGED <<order, rnd>>, NEW b \in [1..N -> 1..N], a' = b, InOrderBut(b, lo, up),
         \A x \in lo..(q - 1) : Key(b[x]) <= Key(b[q]),
         \A x \in (q + 1)..up : Key(b[q]) <= Key(b[x])
  PROVE  InOrder' /\ pc' # "error" /\ pc' \in {"ends", "return"}
<1> DEFINE Frame == [lo : Int, up : Int, n : Int, rnd : Nat]
<1>1. PICK f \in Frame, l, u \in Int :
           /\ frames' = Append(frames, f) /\ Loop(l, u)
           /\ \/ l = lo /\ u = q - 1 /\ f.lo = q + 1 /\ f.up = up
              \/ l = q + 1 /\ u = up /\ f.lo = lo /\ f.up = q - 1
  BY Cut
<1>2. /\ Len(frames') = Len(frames) + 1 /\ frames'[Len(frames) + 1] = f
      /\ \A k \in 1..Len(frames) : frames'[k] = frames[k]
  BY <1>1, Appended DEF SortInv
<1>3. /\ N \in Nat /\ 1 <= lo /\ lo < up /\ up <= N /\ lo \in Int /\ up \in Int
      /\ Len(frames) \in Nat /\ order \in Orders
  BY SortFacts, FrameFacts DEF SortInv
<1>4. lo' = l /\ up' = u /\ pc' = (IF l < u THEN "ends" ELSE "return")
  BY <1>1 DEF Loop
<1>5. \A x \in 1..N : Key(b[x]) \in Int
  BY <1>3, KeyIsInt
<1> HIDE DEF Frame
<1>6. ASSUME NEW x \in 1..N, NEW y \in 1..N, x < y, ~(Key(b[x]) <= Key(b[y]))
      PROVE  \/ l <= x /\ y <= u /\ l < u
             \/ \E k \in 1..Len(frames') : frames'[k].lo <= x /\ y <= frames'[k].up
  <2>1. CASE lo <= x /\ y <= up
    <3>1. x \in Int /\ y \in Int
      BY <1>3
    <3>2. ~(x <= q /\ q <= y)
      <4> SUFFICES ASSUME x <= q, q <= y PROVE FALSE
        OBVIOUS
      <4>1. x = q \/ x \in lo..(q - 1)
        BY <2>1, <3>1, <1>3
      <4>2. y = q \/ y \in (q + 1)..up
        BY <2>1, <3>1, <1>3
      <4>0. q \in 1..N
        BY <1>3
      <4>3. Key(b[q]) \in Int /\ Key(b[x]) \in Int /\ Key(b[y]) \in Int
        BY <4>0, <1>5
      <4>4. Key(b[x]) <= Key(b[q]) /\ Key(b[q]) <= Key(b[y])
        BY <4>1, <4>2, <4>3
      <4> QED
        BY <4>3, <4>4, <1>6
    <3>3. y <= q - 1 \/ q + 1 <= x
      BY <3>1, <3>2, <1>6
    <3>4. \/ l <= x /\ y <= u
          \/ f.lo <= x /\ y <= f.up
      BY <1>1, <2>1, <3>1, <3>3, <1>6, <1>3
    <3>5. Len(frames) + 1 \in 1..Len(frames')
      BY <1>2, <1>3
    <3> QED
      BY <3>1, <3>4, <3>5, <1>2, <1>6
  <2>2. CASE ~(lo <= x /\ y <= up)
    <3>1. PICK k \in 1..Len(frames) : frames[k].lo <= x /\ y <= frames[k].up
      BY <2>2, <1>6 DEF InOrderBut
    <3>2. k \in 1..Len(frames') /\ frames'[k] = frames[k]
      BY <1>2, <1>3
    <3> QED
      BY <3>1, <3>2
  <2> QED
    BY <2>1, <2>2
<1>7. InOrder'
  BY <1>4, <1>6 DEF InOrder, InOrderBut, Key, N, Comparing
<1> QED
  BY <1>4, <1>7

LEMMA RightSort == SortInv /\ CompareRight => SortInv'
<1> SUFFICES ASSUME SortInv, CompareRight PROVE SortInv'
  OBVIOUS
<1>1. pc = "right" /\ UNCHANGED <<order, rnd, pivot>> /\ pc \in Comparing
  BY DEF CompareRight, Comparing
<1>2. IndInv'
  BY RightInv DEF SortInv
<1>3. /\ {lo, up, i, j} \subseteq Int /\ lo < i /\ i < up /\ lo <= j /\ j < up - 1
      /\ i \in lo..up /\ j \in lo..up /\ up - 1 \in lo..up
  <2>1. {i, j} \subseteq Int /\ lo < i /\ i < up /\ lo <= j /\ j < up - 1
    BY <1>1 DEF SortInv, IndInv, StaysInside
  <2> QED
    BY <1>1, <2>1, SortFacts
<1>4. Apart' /\ Shares'
  <2>1. UNCHANGED <<lo, up, frames>> \/ Recurse(i)
    BY DEF CompareRight
  <2>2. CASE UNCHANGED <<lo, up, frames>>
    BY <1>1, <2>2, SameIntervals
  <2>3. CASE Recurse(i)
    BY <1>1, <1>3, <2>3, RecurseSort
  <2> QED
    BY <2>1, <2>2, <2>3
<1>5. ASSUME order.consistent PROVE InOrder' /\ Shown'
  <2>1. /\ N \in Nat /\ 1 <= lo /\ lo < up /\ up <= N /\ {i, j, up - 1} \subseteq 1..N
        /\ a \in [1..N -> 1..N] /\ InOrderBut(a, lo, up)
        /\ a[up - 1] = pivot /\ Key(pivot) \in Int
        /\ \A x \in lo..(i - 1) : Key(a[x]) <= Key(pivot)
        /\ \A x \in (j + 1)..up : Key(pivot) <= Key(a[x])
        /\ \A x \in 1..N : Key(a[x]) \in Int
    BY <1>1, <1>5, ScanFacts
  <2>2. Key(pivot) <= Key(a[i])
    BY <1>1, <1>5 DEF SortInv, Shown
  <2>3. IF Key(pivot) < Key(a[j])
        THEN \/ j < i /\ pc' = "error" /\ UNCHANGED <<a, lo, up, p, i, j, frames>>
             \/ j >= i /\ j' = j - 1 /\ UNCHANGED <<pc, a, lo, up, p, i, frames>>
        ELSE \/ j < i /\ a' = set2(up - 1, i) /\ p' = i /\ Recurse(i) /\ UNCHANGED <<i, j>>
             \/ /\ j >= i /\ a' = set2(i, j) /\ i' = i + 1 /\ pc' = "left"
                /\ UNCHANGED <<lo, up, p, j, frames>>
    BY <1>5 DEF CompareRight, sort_comp, Key
  <2>4. Key(a[j]) \in Int /\ Key(a[i]) \in Int
    BY <2>1
  <2>5. CASE Key(pivot) < Key(a[j])
    <3>1. ~(j < i)
      <4> SUFFICES ASSUME j < i PROVE FALSE
        OBVIOUS
      <4>1. j \in lo..(i - 1)
        BY <1>3
      <4> QED
        BY <4>1, <2>1, <2>4, <2>5
    <3>2. j' = j - 1 /\ UNCHANGED <<pc, a, lo, up, p, i, frames>>
      BY <2>3, <2>5, <3>1
    <3>3. \A x \in (j' + 1)..up : x \in (j + 1)..up \/ x = j
      BY <1>3, <3>2
    <3>4. \A x \in (j' + 1)..up : Key(pivot) <= Key(a[x])
      BY <2>1, <2>4, <2>5, <3>3
    <3>5. InOrder'
      BY <1>1, <2>1, <3>2, InOrderNext
    <3> QED
      BY <1>1, <2>1, <2>2, <3>2, <3>4, <3>5 DEF Shown, Key
  <2>6. CASE ~(Key(pivot) < Key(a[j])) /\ j < i
    <3> DEFINE b == set2(up - 1, i)
    <3>1. a' = b /\ Recurse(i)
      BY <2>3, <2>6, <1>3
    <3>2. b \in [1..N -> 1..N] /\ b[i] = pivot /\ b[up - 1] = a[i]
      BY <2>1 DEF set2
    <3>3. \A x \in 1..N : x # i /\ x # up - 1 => b[x] = a[x]
      BY <2>1 DEF set2
    <3>4. InOrderBut(b, lo, up)
      BY <1>1, <1>3, <2>1, ExchangeInOrder DEF set2
    <3> HIDE DEF b
    <3>5. ASSUME NEW x \in lo..(i - 1) PROVE Key(b[x]) <= Key(b[i])
      <4>0. lo \in Int /\ up \in Int /\ i \in Int /\ i < up /\ 1 <= lo /\ up <= N /\ N \in Nat
        BY <1>3, <2>1
      <4>1. x \in 1..N /\ x # i /\ x # up - 1
        BY <4>0
      <4> QED
        BY <4>1, <2>1, <3>2, <3>3
    <3>6. ASSUME NEW x \in (i + 1)..up PROVE Key(b[i]) <= Key(b[x])
      <4>1. x \in 1..N /\ x # i /\ x \in (j + 1)..up
        BY <1>3, <2>1, <2>6
      <4>2. CASE x = up - 1
        BY <4>2, <2>2, <3>2
      <4>3. CASE x # up - 1
        BY <4>1, <4>3, <2>1, <3>2, <3>3
      <4> QED
        BY <4>2, <4>3
    <3>7. InOrder' /\ pc' \in {"ends", "return"}
      BY <1>1, <1>3, <3>1, <3>2, <3>4, <3>5, <3>6, RecurseOrder
    <3> QED
      BY <3>7 DEF Shown
  <2>7. CASE ~(Key(pivot) < Key(a[j])) /\ ~(j < i)
    <3> DEFINE b == set2(i, j)
    <3>1. a' = b /\ i' = i + 1 /\ pc' = "left" /\ UNCHANGED <<lo, up, p, j, frames>>
      BY <2>3, <2>7
    <3>2. b \in [1..N -> 1..N] /\ b[i] = a[j] /\ b[j] = a[i]
      BY <2>1 DEF set2
    <3>3. \A x \in 1..N : x # i /\ x # j => b[x] = a[x]
      BY <2>1 DEF set2
    <3>4. InOrderBut(b, lo, up)
      BY <1>1, <1>3, <2>1, ExchangeInOrder DEF set2
    <3> HIDE DEF b
    <3>5. b[up - 1] = pivot
      <4>1. up - 1 # i /\ up - 1 # j
        BY <1>3, <2>7
      <4> QED
        BY <4>1, <2>1, <3>3
    <3>6. ASSUME NEW x \in lo..(i' - 1) PROVE Key(b[x]) <= Key(pivot)
      <4>1. CASE x = i
        BY <4>1, <2>1, <2>4, <2>7, <3>2
      <4>2. CASE x # i
        <5>0. lo \in Int /\ up \in Int /\ i \in Int /\ j \in Int /\ i <= j /\ i' = i + 1
          BY <1>3, <2>7, <3>1
        <5>1. x \in lo..(i - 1) /\ x \in 1..N /\ x # j
          BY <4>2, <1>3, <2>1, <5>0
        <5> QED
          BY <4>2, <5>1, <2>1, <3>3
      <4> QED
        BY <4>1, <4>2
    <3>7. ASSUME NEW x \in (j + 1)..up PROVE Key(pivot) <= Key(b[x])
      <4>1. x \in 1..N /\ x # i /\ x # j
        BY <1>3, <2>1, <2>7
      <4> QED
        BY <4>1, <2>1, <3>3
    <3>8. Key(pivot) <= Key(b[j])
      BY <2>2, <3>2
    <3>9. InOrder'
      BY <1>1, <3>1, <3>4, InOrderNext DEF Comparing
    <3> QED
      BY <1>1, <3>1, <3>5, <3>6, <3>7, <3>8, <3>9 DEF Shown, Key
  <2> QED
    BY <2>5, <2>6, <2>7
<1> QED
  BY <1>1, <1>2, <1>4, <1>5 DEF SortInv

LEMMA ReturnSort == SortInv /\ Return => SortInv'
<1> SUFFICES ASSUME SortInv, Return PROVE SortInv'
  OBVIOUS
<1> DEFINE L == Len(frames)
<1>1. /\ pc = "return" /\ frames # <<>> /\ frames' = SubSeq(frames, 1, L - 1)
      /\ Loop(frames[L].lo, frames[L].up) /\ UNCHANGED <<order, a, p, i, j, pivot>> /\ N' = N
  BY DEF Return, N
<1>2. IndInv'
  BY ReturnInv DEF SortInv
<1>3. L \in Nat /\ L > 0 /\ Len(frames') = L - 1 /\ \A k \in 1..(L - 1) : frames'[k] = frames[k]
  <2> DEFINE Frame == [lo : Int, up : Int, n : Int, rnd : Nat]
  <2>1. frames \in Seq(Frame)
    BY DEF SortInv, IndInv
  <2> HIDE DEF Frame
  <2>2. L \in Nat /\ L > 0
    BY <1>1, <2>1
  <2> QED
    BY <1>1, <2>1, <2>2, ButLast
<1>4. /\ N \in Nat
      /\ \A k \in 1..L : /\ frames[k].lo \in Int /\ frames[k].up \in Int
                         /\ 1 <= frames[k].lo /\ frames[k].up <= N /\ frames[k].lo <= frames[k].up
  BY FrameFacts DEF SortInv
<1> HIDE DEF L
<1>5. lo' = frames[L].lo /\ up' = frames[L].up /\ pc' = IF lo' < up' THEN "ends" ELSE "return"
  BY <1>1 DEF Loop
<1>6. L \in 1..L /\ 1..(L - 1) \subseteq 1..L /\ \A k \in 1..(L - 1) : k # L
  BY <1>3
<1>7. Apart'
  <2>1. \A k, m \in 1..L : k # m => frames[k].up < frames[m].lo \/ frames[m].up < frames[k].lo
    BY DEF SortInv, Apart, L
  <2>2. \A k \in 1..(L - 1) : frames'[k].up < lo' \/ up' < frames'[k].lo
    BY <1>3, <1>5, <1>6, <2>1
  <2>3. \A k, m \in 1..(L - 1) :
          k # m => frames'[k].up < frames'[m].lo \/ frames'[m].up < frames'[k].lo
    BY <1>3, <1>6, <2>1
  <2> QED
    BY <1>3, <2>2, <2>3 DEF Apart
<1>8. Shares'
  <2>1. \A k \in 1..L : 2^(k - 1) * (frames[k].up - frames[k].lo + 2) <= N + 1
    BY DEF SortInv, Shares, L
  <2>2. 2^(L - 1) * (up' - lo' + 2) <= N + 1
    BY <1>5, <1>6, <2>1
  <2>3. \A k \in 1..(L - 1) : 2^(k - 1) * (frames'[k].up - frames'[k].lo + 2) <= N + 1
    BY <1>3, <1>6, <2>1
  <2> QED
    BY <1>1, <1>3, <2>2, <2>3 DEF Shares
<1>9. ASSUME order.consistent PROVE InOrder' /\ Shown'
  <2>1. InOrderBut(a, 1, 0)
    BY <1>1, <1>9 DEF SortInv, InOrder, Comparing
  <2>2. ASSUME NEW x \in 1..N, NEW y \in 1..N, x < y, ~(Key(a[x]) <= Key(a[y]))
        PROVE  \/ lo' <= x /\ y <= up' /\ lo' < up'
               \/ \E k \in 1..Len(frames') : frames'[k].lo <= x /\ y <= frames'[k].up
    <3>1. x \in Int /\ y \in Int /\ 1 <= x
      BY <1>4
    <3>2. PICK k \in 1..L : frames[k].lo <= x /\ y <= frames[k].up
      BY <2>1, <2>2, <3>1 DEF InOrderBut, L
    <3>3. CASE k = L
      <4>1. lo' <= x /\ y <= up' /\ lo' \in Int /\ up' \in Int
        BY <1>4, <1>5, <1>6, <3>2, <3>3
      <4> QED
        BY <3>1, <4>1, <2>2
    <3>4. CASE k # L
      <4>1. k \in 1..Len(frames') /\ frames'[k] = frames[k]
        BY <1>3, <3>4
      <4> QED
        BY <4>1, <3>2
    <3> QED
      BY <3>3, <3>4
  <2>3. InOrder'
    BY <1>1, <1>5, <2>2 DEF InOrder, InOrderBut, Key, N, Comparing
  <2>4. pc' \in {"ends", "return"}
    BY <1>5
  <2> QED
    BY <2>3, <2>4 DEF Shown
<1> QED
  BY <1>1, <1>2, <1>7, <1>8, <1>9 DEF SortInv

LEMMA StillSort == SortInv /\ (SortEnds \/ UNCHANGED vars) => SortInv'
<1> SUFFICES ASSUME SortInv, SortEnds \/ UNCHANGED vars PROVE SortInv'
  OBVIOUS
<1>1. IndInv'
  BY StillInv DEF SortInv
<1>2. CASE SortEnds
  BY <1>1, <1>2 DEF SortEnds, SortInv, Apart, Shares, InOrder, InOrderBut, Shown, Comparing, N, Key
<1>3. CASE UNCHANGED vars
  BY <1>1, <1>3 DEF vars, SortInv, Apart, Shares, InOrder, InOrderBut, Shown, Comparing, N, Key
<1> QED
  BY <1>2, <1>3

LEMMA InitSort == Init => SortInv
<1> SUFFICES ASSUME Init PROVE SortInv
  OBVIOUS
<1>1. IndInv /\ N \in Nat /\ N > 1 /\ lo = 1 /\ up = N /\ pc = "ends" /\ frames = <<>>
  BY InitInv, LengthIsNat DEF Init, N
<1>2. Len(frames) = 0 /\ 1..Len(frames) = {}
  BY <1>1
<1>3. Apart
  BY <1>2 DEF Apart
<1>4. Shares
  <2>1. 2^Len(frames) * (up - lo + 2) = N + 1
    BY <1>1, <1>2, PowerOfZero
  <2> QED
    BY <1>1, <1>2, <2>1 DEF Shares
<1>5. InOrder
  BY <1>1 DEF InOrder, InOrderBut, Comparing
<1>6. Shown
  BY <1>1 DEF Shown
<1> QED
  BY <1>1, <1>3, <1>4, <1>5, <1>6 DEF SortInv

(* no interval waits when auxsort has returned for good *)
NoneWaits == pc = "done" => frames = <<>>

(* when sort has ended no call waits *)
LEMMA NoneWaitsAlways == (Init => NoneWaits) /\ (NoneWaits /\ [Next]_vars => NoneWaits')
<1>1. Init => NoneWaits
  BY DEF Init, NoneWaits
<1>2. ASSUME NoneWaits, [Next]_vars PROVE NoneWaits'
  <2>1. CASE CompareEnds
    BY <2>1 DEF CompareEnds, NoneWaits
  <2>2. CASE CompareLow
    BY <2>2 DEF CompareLow, ToPartition, NoneWaits
  <2>3. CASE CompareHigh
    BY <2>3 DEF CompareHigh, ToPartition, NoneWaits
  <2>4. CASE CompareLeft
    BY <2>4 DEF CompareLeft, NoneWaits
  <2>5. CASE CompareRight
    BY <2>5 DEF CompareRight, Recurse, Loop, NoneWaits
  <2>6. CASE Return
    BY <2>6 DEF Return, Loop, NoneWaits
  <2>7. CASE SortEnds \/ UNCHANGED vars
    BY <1>2, <2>7 DEF SortEnds, vars, NoneWaits
  <2> QED
    BY <1>2, <2>1, <2>2, <2>3, <2>4, <2>5, <2>6, <2>7 DEF Next
<1> QED
  BY <1>1, <1>2

(* the invariant gives the property *)
LEMMA SortInvSorts == SortInv /\ NoneWaits => Sorts
<1> SUFFICES ASSUME SortInv, NoneWaits PROVE Sorts
  OBVIOUS
<1>1. pc \in Comparing => 2^Len(frames) * (up - lo + 2) <= N + 1
  BY DEF SortInv, Shares
<1>2. /\ N \in Nat /\ order \in Orders /\ Permutation(a)
      /\ \A k \in 1..Len(frames) : /\ frames[k].lo \in Int /\ frames[k].up \in Int
                                   /\ 1 <= frames[k].lo /\ frames[k].up <= N
  BY FrameFacts DEF SortInv, IndInv, StaysInside
<1>3. pc \in Comparing => \A f \in Waiting : f.up < lo \/ up < f.lo
  BY DEF SortInv, Apart, Waiting
<1>4. order.consistent /\ pc \in {"left", "right"} =>
        /\ a[up - 1] = pivot
        /\ \A x \in lo..(i - 1) : Key(a[x]) <= Key(pivot)
        /\ \A x \in (j + 1)..up : Key(pivot) <= Key(a[x])
  BY DEF SortInv, Shown
<1>5. ASSUME order.consistent, NEW k \in 1..Len(frames), NEW x \in 1..N,
             NEW y \in frames[k].lo..frames[k].up
      PROVE  /\ x < frames[k].lo => Key(a[x]) <= Key(a[y])
             /\ x > frames[k].up => Key(a[y]) <= Key(a[x])
  <2>1. /\ frames[k].lo \in Int /\ frames[k].up \in Int /\ x \in Int /\ y \in Int
        /\ frames[k].lo <= y /\ y <= frames[k].up /\ y \in 1..N
    BY <1>2
  <2>2. \A m \in 1..Len(frames) :
          m # k => frames[k].up < frames[m].lo \/ frames[m].up < frames[k].lo
    BY DEF SortInv, Apart
  <2>3. pc \in Comparing =>
          frames[k].up < lo \/ up < frames[k].lo
    BY DEF SortInv, Apart
  <2>4. pc \in Comparing => lo \in Int /\ up \in Int
    BY SortFacts
  <2>5. InOrder
    BY <1>5 DEF SortInv
  <2>6. ASSUME NEW u \in 1..N, NEW v \in 1..N, u < v,
               (u < frames[k].lo /\ v = y) \/ (u = y /\ v > frames[k].up)
        PROVE  Key(a[u]) <= Key(a[v])
    <3>0. u \in Int /\ v \in Int
      BY <1>2
    <3>1. ~ \E m \in 1..Len(frames) : frames[m].lo <= u /\ v <= frames[m].up
      <4> SUFFICES ASSUME NEW m \in 1..Len(frames), frames[m].lo <= u, v <= frames[m].up
                   PROVE  FALSE
        OBVIOUS
      <4>1. frames[m].lo \in Int /\ frames[m].up \in Int
        BY <1>2
      <4>2. CASE m = k
        BY <4>2, <2>1, <2>6, <3>0
      <4>3. CASE m # k
        BY SMTT(30), <4>1, <4>3, <2>1, <2>2, <2>6, <3>0
      <4> QED
        BY <4>2, <4>3
    <3>2. CASE pc \in Comparing
      <4>1. ~(lo <= u /\ v <= up)
        BY <2>1, <2>3, <2>4, <2>6, <3>0, <3>2
      <4> QED
        BY <2>5, <2>6, <3>1, <3>2, <4>1 DEF InOrder, InOrderBut
    <3>3. CASE pc \notin Comparing
      <4>1. ~(1 <= u /\ v <= 0)
        BY <3>0, <2>6
      <4> QED
        BY <2>5, <2>6, <3>1, <3>3, <4>1 DEF InOrder, InOrderBut
    <3> QED
      BY <3>2, <3>3
  <2> QED
    BY <2>1, <2>6
<1>6. ASSUME order.consistent PROVE \A f \in Waiting : \A x \in 1..N, y \in f.lo..f.up :
            (x < f.lo => Key(a[x]) <= Key(a[y])) /\ (x > f.up => Key(a[y]) <= Key(a[x]))
  BY <1>5, <1>6 DEF Waiting
<1>7. order.consistent => pc # "error"
  BY DEF SortInv, Shown
<1>8. ASSUME order.consistent, pc = "done", NEW x \in 1..N, NEW y \in 1..N, x < y
      PROVE  Key(a[x]) <= Key(a[y])
  <2>1. frames = <<>>
    BY <1>8 DEF NoneWaits
  <2> QED
    BY <1>8, <2>1, <1>2 DEF SortInv, InOrder, InOrderBut, Comparing
<1> QED
  BY <1>1, <1>3, <1>4, <1>6, <1>7, <1>8 DEF Sorts

(* With an order function that is consistent sort raises no error and ends *)
(* with the elements in order, whatever their number, the pivots and the   *)
(* size limits; with any order function its calls nest at most as deep as  *)
(* the logarithm of the number of elements, and no two of the intervals it *)
(* still has to sort overlap: auxsort and partition.                       *)
THEOREM SortsAnyArray == Spec => []Sorts
<1>1. Init => SortInv
  BY InitSort
<1>2. SortInv /\ [Next]_vars => SortInv'
  BY EndsSort, LowSort, HighSort, LeftSort, RightSort, ReturnSort, StillSort DEF Next
<1>3. SortInv /\ NoneWaits => Sorts
  BY SortInvSorts
<1> QED
  BY <1>1, <1>2, <1>3, NoneWaitsAlways, PTL DEF Spec
=============================================================================
