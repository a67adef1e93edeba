----------------------------- MODULE MC_LuaHeap -----------------------------
(* The two models of what the collector does with a heap besides the       *)
(* incremental marking: the generational mode (LuaGen), and weak tables in *)
(* an atomic phase (LuaWeak, on families of small heaps, each about one    *)
(* difficulty).  A behaviour is one of either; the other one's state stays *)
(* as it is at its start.                                                  *)
EXTENDS LuaGen

CONSTANTS co, tstrong, tvalue, tall, e1, e2, cl, u, str, p1, p2, p3

NoKey == "number"
Empty == [entries |-> [t \in {tstrong, tvalue, tall, e1, e2} |-> <<>>],
          stack |-> [th \in {Main, co} |-> {}],
          upvals |-> [c \in {cl} |-> {}],
          val |-> [x \in {u} |-> str],
          owner |-> [x \in {u} |-> "closed"],
          finobj |-> {}, budget |-> 0]

SeqsUpTo2(S) == {<<>>} \cup {<<x>> : x \in S}
                  \cup {z \in S \X S : z[1][1] # z[2][1]}

(* two ephemeron tables whose entries depend on each other; p1 may come    *)
(* back to be finalized                                                    *)
Chain1 == SeqsUpTo2({p1, p2} \X {p1, p2, p3})
Chain2 == SeqsUpTo2({p2, p3} \X {p2, p1, e1})
Ephemerons ==
  {[Empty EXCEPT !.stack[Main] = {e1, e2} \cup K, !.finobj = D,
                 !.entries[e1] = x, !.entries[e2] = y] :
     K \in {{}, {p3}}, D \in {{}, {p1}}, x \in Chain1, y \in Chain2}

(* tables of the other modes, one of them reached only by resurrection     *)
Entries1 == SeqsUpTo2({NoKey, p2} \X {p1, str, tstrong})
Entries2 == SeqsUpTo2({p1, str} \X {p3, tstrong})
Modes ==
  {[Empty EXCEPT !.stack[Main] = X, !.finobj = {tstrong},
                 !.entries[tstrong] = <<<<NoKey, p1>>>> \o Y, !.entries[tvalue] = x,
                 !.entries[tall] = y] :
     X \in {{tvalue, tall}, {tvalue, p3}, {tall}},
     Y \in {<<>>, <<<<NoKey, tvalue>>>>, <<<<NoKey, tall>>>>}, x \in Entries1, y \in Entries2}

(* a closure with an upvalue of a coroutine that may be garbage, and a     *)
(* program that takes a value from a weak table into the upvalue           *)
Coroutines ==
  {[Empty EXCEPT !.stack[Main] = X, !.stack[co] = Y, !.upvals[cl] = {u}, !.owner[u] = co,
                 !.val[u] = v, !.entries[tvalue] = z,
                 !.budget = IF X = {cl, tvalue} /\ Y = {} /\ v = p2 THEN 3 ELSE 2] :
     X \in {{cl, tvalue}, {tvalue, co, p2}}, Y \in {{}, {p2}},
     v \in {p2, e2}, z \in {<<<<NoKey, p1>>>>, <<<<p2, cl>>, <<NoKey, p1>>>>}}

(* a program that reads and fills weak tables during the cycle, or takes   *)
(* what only a weak table has into a strong one                            *)
Disturbed ==
  {[Empty EXCEPT !.stack[Main] = {t, p2}, !.entries[t] = x, !.finobj = {p1}, !.budget = 2] :
     t \in {tvalue, e1, tall}, x \in SeqsUpTo2({NoKey, p2} \X {p1, p3})
                             \cup {<<<<p1, p3>>>>, <<<<p1, p3>>, <<p2, p1>>>>}}
  \cup
  {[Empty EXCEPT !.stack[Main] = {tstrong, tvalue}, !.entries[tvalue] = x, !.budget = 2] :
     x \in SeqsUpTo2({NoKey, p2} \X {p1, p2})}

MCHeaps == Ephemerons \cup Modes \cup Coroutines \cup Disturbed

-----------------------------------------------------------------------------
(* The variables of LuaWeak; those that LuaGen has too have a w before     *)
(* their name.                                                             *)
VARIABLES part, entries, stack, upvals, val, owner, twups, weak, allweak, ephemeron,
          saved, next, changed, dir, origweak, origall, phase, before, budget, disturbed,
          wcolor, wfinobj, wtobefnz, wgray, wgrayagain

weakVars == <<entries, stack, upvals, val, owner, twups, weak, allweak, ephemeron,
              saved, next, changed, dir, origweak, origall, phase, before, budget,
              disturbed, wcolor, wfinobj, wtobefnz, wgray, wgrayagain>>

Weak == INSTANCE LuaWeak_proofs WITH
  Strong <- {tstrong}, WeakValue <- {tvalue}, AllWeak <- {tall}, Ephemeron <- {e1, e2},
  Closures <- {cl}, Upvalues <- {u}, Threads <- {Main, co}, Strings <- {str},
  Plain <- {p1, p2, p3}, Heaps <- MCHeaps,
  color <- wcolor, finobj <- wfinobj, tobefnz <- wtobefnz, gray <- wgray,
  grayagain <- wgrayagain

(* what the proofs about LuaWeak assume *)
ASSUME HeapAssumption == Weak!WeakAssumption

MCInit ==
  \/ part = "weak" /\ Weak!Init /\ Init
  \/ part = "gen" /\ Init
      /\ entries = 0 /\ stack = 0 /\ upvals = 0 /\ val = 0 /\ owner = 0
      /\ twups = 0 /\ weak = 0 /\ allweak = 0 /\ ephemeron = 0 /\ saved = 0
      /\ next = 0 /\ changed = 0 /\ dir = 0 /\ origweak = 0 /\ origall = 0
      /\ phase = 0 /\ before = 0 /\ budget = 0 /\ disturbed = 0
      /\ wcolor = 0 /\ wfinobj = 0 /\ wtobefnz = 0 /\ wgray = 0 /\ wgrayagain = 0

MCNext ==
  \/ part = "weak" /\ Weak!Next /\ UNCHANGED <<part, vars>>
  \/ part = "gen" /\ Next /\ UNCHANGED <<part, weakVars>>

MCSpec == MCInit /\ [][MCNext]_<<vars, part, weakVars>>

-----------------------------------------------------------------------------
(* Weak tables lose exactly what the manual says (clearbykeys,             *)
(* clearbyvalues), and every object is in one gray list at most, having    *)
(* one field to be linked by (linkgclist).                                 *)
WeakTablesAreExact == part = "weak" => Weak!WeakTablesExact /\ Weak!InOneList
(* Nothing the program can reach is white after the atomic phase. *)
WeakReachableKept == part = "weak" => Weak!ReachableKept
(* Nothing that stays refers to an object that will be freed. *)
WeakNothingDangles == part = "weak" => Weak!NothingDangles
=============================================================================
