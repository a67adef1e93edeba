---------------------------- MODULE LuaHeap_proofs ----------------------------
(***************************************************************************)
(* The theorems about weak tables (LuaWeak_proofs) for the specification   *)
(* that MC_LuaHeap checks: LuaWeak's steps beside those of the             *)
(* generational mode, which leave its state alone.                         *)
(***************************************************************************)
EXTENDS MC_LuaHeap, TLAPS

(* The invariants of LuaWeak_proofs, where the behaviour is one of LuaWeak: *)
(* what is marked, how it is linked, and that nothing else is marked.      *)
WeakInv == part = "weak" => Weak!IndInv /\ Weak!OneList /\ Weak!ExactInv

(* it holds: the steps of the generational mode leave LuaWeak alone *)
LEMMA WeakInvHolds == MCSpec => []WeakInv
<1>1. MCInit => WeakInv
  BY HeapAssumption, Weak!InitKeeps, Weak!InitExact DEF MCInit, WeakInv
<1>2. WeakInv /\ [MCNext]_<<vars, part, weakVars>> => WeakInv'
  <2> SUFFICES ASSUME WeakInv, [MCNext]_<<vars, part, weakVars>>, part' = "weak"
               PROVE  Weak!IndInv' /\ Weak!OneList' /\ Weak!ExactInv'
    BY DEF WeakInv
  <2>1. part = "weak" /\ [Weak!Next]_(Weak!vars)
    BY DEF MCNext, weakVars, Weak!vars, Weak!heap, Weak!fins, Weak!lists, Weak!locals,
           Weak!program
  <2>2. Weak!IndInv /\ Weak!OneList /\ Weak!ExactInv
    BY <2>1 DEF WeakInv
  <2>3. Weak!IndInv'
    BY <2>1, <2>2, HeapAssumption, Weak!NextKeeps
  <2>4. Weak!OneList'
    BY <2>1, <2>2, HeapAssumption, Weak!NextLinks
  <2>5. Weak!ExactInv'
    BY <2>1, <2>2, HeapAssumption, Weak!NextExact
  <2> QED
    BY <2>3, <2>4, <2>5
<1> QED
  BY <1>1, <1>2, PTL DEF MCSpec

(* Whatever the program does during a cycle, what is reachable when        *)
(* 'atomic' ends is marked, and an entry between two reachable objects     *)
(* stays in its table (traverseephemeron, convergeephemerons).             *)
THEOREM WeakReachableIsKept == MCSpec => []WeakReachableKept
<1>1. WeakInv => WeakReachableKept
  BY HeapAssumption, Weak!KeptAtTheEnd DEF WeakInv, WeakReachableKept
<1> QED
  BY <1>1, WeakInvHolds, PTL

(* When the sweep begins no entry of a weak table, no value of an upvalue  *)
(* and no stack that stays refers to an object that the sweep will free    *)
(* (clearbykeys, clearbyvalues, remarkupvals).                             *)
THEOREM WeakNothingIsDangling == MCSpec => []WeakNothingDangles
<1>1. WeakInv => WeakNothingDangles
  BY HeapAssumption, Weak!NoneDangles DEF WeakInv, WeakNothingDangles
<1> QED
  BY <1>1, WeakInvHolds, PTL

(* In a collection that the program does not disturb weak tables lose      *)
(* exactly the entries whose keys or values are dead (clearbykeys,         *)
(* clearbyvalues), and every object is in one gray list at most, having    *)
(* one field to be linked by (linkgclist).                                 *)
THEOREM WeakTablesLoseOnlyTheDead == MCSpec => []WeakTablesAreExact
<1>1. WeakInv => WeakTablesAreExact
  <2> SUFFICES ASSUME WeakInv, part = "weak"
               PROVE  Weak!WeakTablesExact /\ Weak!InOneList
    BY DEF WeakTablesAreExact
  <2>1. Weak!IndInv /\ Weak!OneList /\ Weak!ExactInv /\ Weak!TypeInv
    BY DEF WeakInv, Weak!IndInv
  <2>2. Weak!WeakTablesExact
    BY <2>1, HeapAssumption, Weak!ExactAtTheEnd
  <2>3. Weak!InOneList
    BY <2>1, Weak!LinkedOnce
  <2> QED
    BY <2>2, <2>3
<1> QED
  BY <1>1, WeakInvHolds, PTL
=============================================================================
