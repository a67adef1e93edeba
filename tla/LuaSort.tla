------------------------------ MODULE LuaSort ------------------------------
(***************************************************************************)
(* table.sort of the Lua 5.4.6 sources in tar/lua-5.4.6/src (ltablib.c),   *)
(* one comparison a step, with an order function that is consistent or one *)
(* that answers anything: a comparison is where the function may be        *)
(* written in Lua.                                                         *)
(*                                                                         *)
(* The elements are numbers that tell them apart; key gives their order.   *)
(* The order function does not change the table.                           *)
(***************************************************************************)
EXTENDS Integers, Sequences

CONSTANTS
  Orders,      \* the calls of sort: the keys of the elements, and whether
               \* the order is consistent (FALSE: it answers anything)
  RANLIMIT,    \* RANLIMIT
  Imbalance,   \* 128
  Random       \* what l_randomizePivot can give

ASSUME SortAssumption ==
  /\ \A o \in Orders : o.key \in Seq(Int) /\ Len(o.key) > 1
  /\ RANLIMIT \in Nat /\ RANLIMIT >= 4
  /\ Imbalance \in Nat /\ Imbalance > 0
  /\ Random \subseteq Nat

VARIABLES
  pc,               \* the comparison to do, "return", "done" or "error"
  order, a,         \* the arguments
  lo, up, rnd,      \* auxsort's
  p, i, j, pivot,   \* its pivot, and partition's indices
  frames            \* the calls of auxsort that wait for an inner one

vars == <<pc, order, a, lo, up, rnd, p, i, j, pivot, frames>>

-----------------------------------------------------------------------------
set2_Copies(x, y) == [a EXCEPT ![x] = a[y]]
set2(x, y) == [a EXCEPT ![x] = a[y], ![y] = a[x]]

(* what sort_comp gives for the elements x and y *)
sort_comp(x, y) == IF order.consistent THEN {order.key[x] < order.key[y]} ELSE BOOLEAN

choosePivot(l, u, r) == LET r4 == (u - l) \div 4 IN (r % (r4 * 2)) + (l + r4)

(* the 'while' of auxsort *)
Loop(l, u) == lo' = l /\ up' = u /\ pc' = IF l < u THEN "ends" ELSE "return"

(* a[up] < a[lo]? *)
CompareEnds ==
  /\ pc = "ends"
  /\ \E less \in sort_comp(a[up], a[lo]) : a' = IF less THEN set2(lo, up) ELSE a
  /\ IF up - lo = 1 THEN pc' = "return" /\ UNCHANGED p
     ELSE /\ p' = IF up - lo < RANLIMIT \/ rnd = 0 THEN (lo + up) \div 2
                  ELSE choosePivot(lo, up, rnd)
          /\ pc' = "low"
  /\ UNCHANGED <<order, lo, up, rnd, i, j, pivot, frames>>

(* the pivot goes to up - 1, unless there are only three elements *)
ToPartition(b) ==
  IF up - lo = 2 THEN pc' = "return" /\ a' = b /\ UNCHANGED <<i, j, pivot>>
  ELSE /\ a' = [b EXCEPT ![p] = b[up - 1], ![up - 1] = b[p]] /\ pivot' = b[p]
       /\ i' = lo + 1 /\ j' = up - 1 /\ pc' = "left"

(* a[p] < a[lo]? *)
CompareLow ==
  /\ pc = "low"
  /\ \E less \in sort_comp(a[p], a[lo]) :
       IF less THEN ToPartition(set2(p, lo))
       ELSE pc' = "high" /\ UNCHANGED <<a, i, j, pivot>>
  /\ UNCHANGED <<order, lo, up, rnd, p, frames>>

(* a[up] < a[p]? *)
CompareHigh ==
  /\ pc = "high"
  /\ \E less \in sort_comp(a[up], a[p]) : ToPartition(IF less THEN set2(p, up) ELSE a)
  /\ UNCHANGED <<order, lo, up, rnd, p, frames>>

(* partition: repeat ++i while a[i] < P *)
CompareLeft ==
  /\ pc = "left"
  /\ \E less \in sort_comp(a[i], pivot) :
       \/ less /\ i = up - 1 /\ pc' = "error" /\ UNCHANGED <<i, j>>
       \/ less /\ i # up - 1 /\ i' = i + 1 /\ UNCHANGED <<pc, j>>
       \/ ~less /\ j' = j - 1 /\ pc' = "right" /\ UNCHANGED i
  /\ UNCHANGED <<order, a, lo, up, rnd, p, pivot, frames>>

(* the smaller interval first, by a call; the other one waits, with the    *)
(* size of the smaller *)
Smaller_Not(q) == ~(q - lo < up - q)
Smaller(q) == q - lo < up - q
Recurse(q) ==
  IF Smaller(q)
  THEN /\ frames' = Append(frames, [lo |-> q + 1, up |-> up, n |-> q - lo, rnd |-> rnd])
       /\ Loop(lo, q - 1)
  ELSE /\ frames' = Append(frames, [lo |-> lo, up |-> q - 1, n |-> up - q, rnd |-> rnd])
       /\ Loop(q + 1, up)

(* repeat --j while P < a[j]; then swap and go on, or end the partition *)
CompareRight ==
  /\ pc = "right"
  /\ \E more \in sort_comp(pivot, a[j]) :
       \/ more /\ j < i /\ pc' = "error" /\ UNCHANGED <<a, lo, up, p, i, j, frames>>
       \/ more /\ j >= i /\ j' = j - 1 /\ UNCHANGED <<pc, a, lo, up, p, i, frames>>
       \/ ~more /\ j < i /\ a' = set2(up - 1, i) /\ p' = i /\ Recurse(i) /\ UNCHANGED <<i, j>>
       \/ /\ ~more /\ j >= i /\ a' = set2(i, j) /\ i' = i + 1 /\ pc' = "left"
          /\ UNCHANGED <<lo, up, p, j, frames>>
  /\ UNCHANGED <<order, rnd, pivot>>

(* auxsort returns; the call that waited goes on with its other interval   *)
Return ==
  /\ pc = "return" /\ frames # <<>>
  /\ LET f == frames[Len(frames)]
     IN  /\ frames' = SubSeq(frames, 1, Len(frames) - 1)
         /\ rnd' \in IF (f.up - f.lo) \div Imbalance > f.n THEN Random ELSE {f.rnd}
         /\ Loop(f.lo, f.up)
  /\ UNCHANGED <<order, a, p, i, j, pivot>>

SortEnds ==
  /\ pc = "return" /\ frames = <<>> /\ pc' = "done"
  /\ UNCHANGED <<order, a, lo, up, rnd, p, i, j, pivot, frames>>

Init ==
  /\ order \in Orders /\ pc = "ends"
  /\ a = [x \in 1..Len(order.key) |-> x]
  /\ lo = 1 /\ up = Len(order.key) /\ rnd = 0 /\ frames = <<>>
  /\ p = 0 /\ i = 0 /\ j = 0 /\ pivot = 0

Next ==
  \/ CompareEnds \/ CompareLow \/ CompareHigh \/ CompareLeft \/ CompareRight
  \/ Return \/ SortEnds
Spec == Init /\ [][Next]_vars

-----------------------------------------------------------------------------
(* Properties. *)

N == Len(order.key)
Comparing == {"ends", "low", "high", "left", "right"}
Waiting == {frames[k] : k \in 1..Len(frames)}

Permutation(b) == b \in [1..N -> 1..N] /\ \A x, y \in 1..N : b[x] = b[y] => x = y

(* Whatever the order function answers, sort only exchanges elements, and  *)
(* what it compares and exchanges are elements of its interval             *)
(* (partition's two loops are bounded only by their error checks); the     *)
(* intervals that wait are not empty, so that no unsigned difference       *)
(* wraps.                                                                  *)
StaysInside ==
  /\ Permutation(a)
  /\ pc \in Comparing => 1 <= lo /\ lo < up /\ up <= N
  /\ pc \in {"low", "high"} => lo < p /\ p < up
  /\ pc = "left" => lo < i /\ i < up
  /\ pc = "right" => lo <= j /\ j < up - 1 /\ lo < i /\ i < up
  /\ \A f \in Waiting : 1 <= f.lo /\ f.up <= N /\ f.lo <= f.up /\ f.n > 0

(* Inductive: with the types, and what partition knows of j while it looks *)
(* for i.                                                                  *)
IndInv ==
  /\ order \in Orders /\ pc \in Comparing \cup {"return", "done", "error"}
  /\ {lo, up, p, i, j} \subseteq Int /\ rnd \in Nat
  /\ frames \in Seq([lo : Int, up : Int, n : Int, rnd : Nat])
  /\ StaysInside
  /\ pc = "left" => lo < j /\ j < up

(* With any order function, each call that waits at least halves the       *)
(* interval of the next one (the smaller interval is the one that is       *)
(* sorted by a call), so that they are at most the logarithm of the number *)
(* of elements; and no two intervals overlap.  With a consistent order     *)
(* there is no error, the comments' loop invariant and postcondition of    *)
(* partition hold, and the array ends up sorted.                           *)
Key(x) == order.key[x]
Sorts ==
  /\ pc \in Comparing => 2^Len(frames) * (up - lo + 2) <= N + 1
  /\ pc \in Comparing => \A f \in Waiting : f.up < lo \/ up < f.lo
  /\ order.consistent =>
       /\ pc # "error"
       /\ pc \in {"left", "right"} =>
            /\ a[up - 1] = pivot
            /\ \A x \in lo..(i - 1) : Key(a[x]) <= Key(pivot)
            /\ \A x \in (j + 1)..up : Key(pivot) <= Key(a[x])
       /\ \A f \in Waiting : \A x \in 1..N, y \in f.lo..f.up :
            (x < f.lo => Key(a[x]) <= Key(a[y])) /\ (x > f.up => Key(a[y]) <= Key(a[x]))
       /\ pc = "done" => \A x, y \in 1..N : x < y => Key(a[x]) <= Key(a[y])
=============================================================================
