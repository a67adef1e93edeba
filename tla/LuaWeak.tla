------------------------------- MODULE LuaWeak -------------------------------
(***************************************************************************)
(* Weak tables, ephemerons, open upvalues and resurrection in the garbage  *)
(* collector of the Lua 5.4.6 sources in tar/lua-5.4.6/src (lgc.c): the    *)
(* marking of one incremental cycle from its start to the end of 'atomic', *)
(* object by object, in any order the gray lists may have.  The program    *)
(* runs while the collector propagates; inside 'atomic' it does not, but   *)
(* its steps are separate here for their order is what matters.            *)
(*                                                                         *)
(* The heap is one of Heaps when the cycle starts.  What the barriers do   *)
(* for tables that are not weak is the subject of LuaGC.                   *)
(***************************************************************************)
EXTENDS Lists, Naturals

CONSTANTS
  Strong,     \* tables that are not weak
  WeakValue,  \* __mode = "v"
  Ephemeron,  \* __mode = "k"
  AllWeak,    \* __mode = "kv"
  Closures,   \* Lua closures
  Upvalues,
  Threads,
  Strings,
  Plain,      \* other objects, with nothing to be visited
  Main,       \* g->mainthread
  Heaps       \* what there is when the cycle starts, and how many steps
              \* the program does during the cycle

AllTables == Strong \cup WeakValue \cup Ephemeron \cup AllWeak
Obj == AllTables \cup Closures \cup Upvalues \cup Threads \cup Strings \cup Plain
NoKey == "number"  \* a key that is not an object: an entry of the array part
Held == Obj \ Upvalues  \* what variables and tables may have

(* an object is of one kind; a heap gives each one what its kind has *)
Kinds == <<Strong, WeakValue, Ephemeron, AllWeak, Closures, Upvalues, Threads, Strings, Plain>>
WeakAssumption ==
  /\ \A i, j \in DOMAIN Kinds : i # j => Kinds[i] \cap Kinds[j] = {}
  /\ IsFiniteSet(Obj) /\ NoKey \notin Obj
  /\ Main \in Threads /\ "closed" \notin Threads
  /\ \A h \in Heaps :
       /\ h.entries \in [AllTables -> Seq((Held \cup {NoKey}) \X Held)]
       /\ h.stack \in [Threads -> SUBSET Held]
       /\ h.upvals \in [Closures -> SUBSET Upvalues]
       /\ h.val \in [Upvalues -> Held]
       /\ h.owner \in [Upvalues -> Threads \cup {"closed"}]
       /\ h.finobj \subseteq Held

VARIABLES
  color,
  entries,    \* of a table: the sequence of its pairs <<key, value>>
  stack,      \* of a thread: what it holds, open upvalues' values apart
  upvals,     \* of a closure
  val,        \* of an upvalue: its value
  owner,      \* of an upvalue: the thread it is open in, or "closed"
  twups,      \* g->twups
  finobj, tobefnz,
  gray, grayagain, weak, allweak, ephemeron,  \* the gray lists
  saved,      \* 'grayagain' of atomic: the list as it was at its start
  next,       \* 'next' of convergeephemerons: the tables still to be visited
  changed, dir,        \* its other two variables
  origweak, origall,   \* of atomic: the lists before the resurrection
  phase,      \* where the cycle is
  before,     \* the tables' entries at the start of atomic
  budget,     \* steps the program may still do
  disturbed   \* it has done one

heap    == <<stack, upvals, val, owner>>
lists   == <<gray, grayagain, weak, allweak, ephemeron>>
locals  == <<saved, next, changed, dir, origweak, origall>>
fins    == <<finobj, tobefnz>>
program == <<budget, disturbed>>
vars    == <<color, entries, heap, twups, fins, lists, locals, phase, before, program>>

White(o) == color[o] = "white"
Visiting == {"propagate", "roots", "upvalues", "again", "converge", "resurrect",
             "converge again"}
InAtomic == phase \notin {"pause", "propagate"}
Keys(t) == {e[1] : e \in ToSet(entries[t])} \ {NoKey}
Values(t) == {e[2] : e \in ToSet(entries[t])}
OpenIn(th) == {u \in Upvalues : owner[u] = th}

Init ==
  /\ \E h \in Heaps :
       /\ entries = h.entries /\ stack = h.stack /\ upvals = h.upvals
       /\ val = h.val /\ owner = h.owner
       /\ twups = {th \in Threads : \E u \in Upvalues : h.owner[u] = th}
       /\ finobj = h.finobj /\ budget = h.budget
  /\ tobefnz = {}
  /\ color = [o \in Obj |-> "white"]
  /\ gray = {} /\ grayagain = {} /\ weak = {} /\ allweak = {} /\ ephemeron = {}
  /\ saved = {} /\ next = {} /\ changed = FALSE /\ dir = 0
  /\ origweak = {} /\ origall = {}
  /\ phase = "pause" /\ disturbed = FALSE
  /\ before = entries

-----------------------------------------------------------------------------
(* reallymarkobject of the white objects of S, an upvalue with its value   *)

WithValues(S) == S \cup {val[u] : u \in {x \in S \cap Upvalues : White(x)}}
MarkColor(o) ==
  IF o \in Strings \cup Plain \/ (o \in Upvalues /\ owner[o] = "closed")
    THEN "black" ELSE "gray"
Marked(S) == [o \in Obj |-> IF o \in WithValues(S) /\ White(o) THEN MarkColor(o)
                            ELSE color[o]]
ToGray(S) == {o \in WithValues(S) : White(o) /\ o \in AllTables \cup Closures \cup Threads}

(* iscleared: a string is marked instead *)
Cleared(o, c) == o # NoKey /\ o \notin Strings /\ c[o] = "white"
KeyWhite(k, marked) == Cleared(k, color) /\ k \notin marked

RestartCollection ==
  /\ phase = "pause"
  /\ phase' = "propagate"
  /\ color' = Marked({Main}) /\ gray' = ToGray({Main})
  /\ UNCHANGED <<entries, heap, twups, fins, grayagain, weak, allweak, ephemeron,
                 locals, before, program>>

-----------------------------------------------------------------------------
(* Visits.  Each says what it marks and in which list the object ends.     *)

VisitStrong(t) ==
  /\ t \in Strong
  /\ LET S == Keys(t) \cup Values(t)
     IN  color' = [Marked(S) EXCEPT ![t] = "black"] /\ gray' = (gray \cup ToGray(S)) \ {t}
  /\ UNCHANGED <<heap, twups, grayagain, weak, allweak, ephemeron>>

(* traverseweakvalue; keys are strong.  A table with an array part is      *)
(* taken to have something to be cleared.  Strings that iscleared meets    *)
(* are marked, until the first value that is white.                        *)
HasClears(t, c) ==
  \E e \in ToSet(entries[t]) : e[1] = NoKey \/ Cleared(e[2], c)
VisitWeakValue(t) ==
  /\ t \in WeakValue
  /\ \E S \in {Keys(t), Keys(t) \cup (Values(t) \cap Strings)} :
       LET c == Marked(S)
           clears == InAtomic /\ HasClears(t, c)
       IN  /\ ~HasClears(t, c) => Values(t) \cap Strings \subseteq S
           /\ color' = [c EXCEPT ![t] = "gray"]
           /\ gray' = (gray \cup ToGray(S)) \ {t}
           /\ weak' = IF clears THEN weak \cup {t} ELSE weak
           /\ grayagain' = IF clears THEN grayagain ELSE grayagain \cup {t}
  /\ UNCHANGED <<heap, twups, allweak, ephemeron>>

(* traverseephemeron: what a pass over the entries has marked after the    *)
(* array part and n nodes, in the order of the node array or backwards.    *)
Pass(s) ==
  LET marked[n \in 0..Len(s)] ==
        IF n = 0 THEN {e[2] : e \in {x \in ToSet(s) : x[1] = NoKey /\ White(x[2])}}
        ELSE LET m == marked[n - 1]
             IN  m \cup {v \in {s[n][2]} : White(v) /\ ~KeyWhite(s[n][1], m)}
  IN  marked

(* a white key seen at node n, and one with a value that is white too:     *)
(* later marks do not count                                                *)
SeesKey(s, marked, n) == KeyWhite(s[n][1], marked[n - 1])
SeesPair(s, marked, n) ==
  SeesKey(s, marked, n) /\ White(s[n][2]) /\ s[n][2] \notin marked[n - 1]

(* strings met as keys are marked on the way *)
StringKeys(t) == Keys(t) \cap Strings

VisitEphemeron(t, inverted) ==
  /\ t \in Ephemeron
  /\ LET s == IF inverted = 1 THEN Reverse(entries[t]) ELSE entries[t]
         marked == Pass(s)
         S == marked[Len(s)] \cup StringKeys(t)
         linked == IF ~InAtomic THEN "grayagain"
                   ELSE IF \E n \in DOMAIN s : SeesPair(s, marked, n) THEN "ephemeron"
                   ELSE IF \E n \in DOMAIN s : SeesKey(s, marked, n) THEN "allweak"
                   ELSE "none"
     IN  /\ color' = [Marked(S) EXCEPT ![t] = IF linked = "none" THEN "black" ELSE "gray"]
         /\ gray' = (gray \cup ToGray(S)) \ {t}
         /\ grayagain' = IF linked = "grayagain" THEN grayagain \cup {t} ELSE grayagain
         /\ ephemeron' = IF linked = "ephemeron" THEN ephemeron \cup {t} ELSE ephemeron
         /\ allweak' = IF linked = "allweak" THEN allweak \cup {t} ELSE allweak
  /\ UNCHANGED <<heap, twups, weak>>

VisitAllWeak(t) ==
  /\ t \in AllWeak
  /\ color' = [color EXCEPT ![t] = "gray"]
  /\ gray' = gray \ {t} /\ allweak' = allweak \cup {t}
  /\ UNCHANGED <<heap, twups, grayagain, weak, ephemeron>>

VisitClosure(cl) ==
  /\ cl \in Closures
  /\ color' = [Marked(upvals[cl]) EXCEPT ![cl] = "black"]
  /\ gray' = (gray \cup ToGray(upvals[cl])) \ {cl}
  /\ UNCHANGED <<heap, twups, grayagain, weak, allweak, ephemeron>>

(* traversethread; the stack includes the values of its open upvalues *)
VisitThread(th) ==
  /\ th \in Threads
  /\ LET S == stack[th] \cup OpenIn(th) \cup {val[u] : u \in OpenIn(th)}
     IN  /\ color' = [Marked(S) EXCEPT ![th] = IF InAtomic THEN "black" ELSE "gray"]
         /\ gray' = (gray \cup ToGray(S)) \ {th}
         /\ grayagain' = IF InAtomic THEN grayagain ELSE grayagain \cup {th}
         /\ twups' = IF InAtomic /\ OpenIn(th) # {} THEN twups \cup {th} ELSE twups
  /\ UNCHANGED <<heap, weak, allweak, ephemeron>>

PropagateMark(o) ==
  /\ phase \in Visiting
  /\ o \in gray
  /\ \/ VisitStrong(o) \/ VisitWeakValue(o) \/ VisitEphemeron(o, 0) \/ VisitAllWeak(o)
     \/ VisitClosure(o) \/ VisitThread(o)
  /\ UNCHANGED <<entries, fins, locals, phase, before, program>>

-----------------------------------------------------------------------------
(* The steps of atomic.  Each one but the first waits for propagateall.    *)

Goes(from, to) == phase = from /\ gray = {} /\ phase' = to

EnterAtomic ==
  /\ Goes("propagate", "roots")
  /\ saved' = grayagain /\ grayagain' = {}
  /\ before' = entries
  /\ UNCHANGED <<color, entries, heap, twups, fins, gray, weak, allweak, ephemeron, next,
                 changed, dir, origweak, origall, program>>

(* remarkupvals: the values of the upvalues that are marked, in threads    *)
(* that are not                                                            *)
Remarked_None(unmarked) == {}             \* mutant: the threads are forgotten
Remarked(unmarked) ==
  {val[u] : u \in {x \in Upvalues : owner[x] \in unmarked /\ ~White(x)}}
RemarkUpvals ==
  /\ Goes("roots", "upvalues")
  /\ LET unmarked == {th \in twups : White(th)}
         S == Remarked(unmarked)
     IN  /\ color' = Marked(S) /\ gray' = ToGray(S)
         /\ twups' = twups \ (unmarked \cup {th \in twups : OpenIn(th) = {}})
  /\ UNCHANGED <<entries, heap, fins, grayagain, weak, allweak, ephemeron, locals, before,
                 program>>

VisitAgain ==
  /\ Goes("upvalues", "again")
  /\ gray' = saved /\ saved' = {}
  /\ UNCHANGED <<color, entries, heap, twups, fins, grayagain, weak, allweak, ephemeron,
                 next, changed, dir, origweak, origall, before, program>>

(* convergeephemerons: it starts, it visits one table, it starts another   *)
(* round.                                                                  *)
StartRound == next' = ephemeron /\ ephemeron' = {} /\ changed' = FALSE

Converge(from, to) ==
  /\ Goes(from, to)
  /\ StartRound /\ dir' = 0
  /\ UNCHANGED <<color, entries, heap, twups, fins, gray, grayagain, weak, allweak,
                 saved, origweak, origall, before, program>>

Changed(t) == changed \/ \E v \in Values(t) : White(v) /\ color'[v] # "white"
VisitNext(t) ==
  /\ phase \in {"converge", "converge again"} /\ gray = {}
  /\ t \in next
  /\ next' = next \ {t}
  /\ VisitEphemeron(t, dir)
  /\ changed' = Changed(t)
  /\ UNCHANGED <<entries, fins, saved, dir, origweak, origall, phase, before, program>>

AnotherRound_Never == FALSE               \* mutant: one round is enough
AnotherRound == changed
NextRound ==
  /\ phase \in {"converge", "converge again"} /\ gray = {} /\ next = {}
  /\ AnotherRound
  /\ StartRound /\ dir' = 1 - dir
  /\ UNCHANGED <<color, entries, heap, twups, fins, gray, grayagain, weak, allweak,
                 saved, origweak, origall, phase, before, program>>

(* clearbyvalues and clearbykeys; the strings that are met are marked      *)
Keep(S, kept) == [t \in AllTables |-> IF t \in S THEN Kept(entries[t], kept) ELSE entries[t]]
StringsIn(S, i) == {e[i] : e \in UNION {ToSet(entries[t]) : t \in S}} \cap Strings

(* The first part: weak values go before the objects to be finalized are   *)
(* marked; then these are.                                                 *)
Pairs == UNION {ToSet(entries[t]) : t \in AllTables}
ValueKept == {e \in Pairs : ~Cleared(e[2], color)}
Separated == {o \in finobj : White(o)}
FirstLists_None == {}                     \* mutant: only at the end
FirstLists == weak \cup allweak
ClearValues ==
  /\ Goes("converge", "resurrect")
  /\ next = {} /\ ~AnotherRound
  /\ entries' = Keep(FirstLists, ValueKept)
  /\ origweak' = weak /\ origall' = allweak
  /\ finobj' = finobj \ Separated /\ tobefnz' = tobefnz \cup Separated
  /\ LET S == StringsIn(FirstLists, 2) \cup tobefnz'
     IN  color' = Marked(S) /\ gray' = ToGray(S)
  /\ UNCHANGED <<heap, twups, grayagain, weak, allweak, ephemeron, saved, next, changed,
                 dir, before, program>>

(* The last part: keys that are not marked, and values of the weak tables  *)
(* that the resurrection has reached.  (No key of a table that waits for   *)
(* both is lost twice: the two tests are made on the same entries.)        *)
KeyKept == {e \in Pairs : ~Cleared(e[1], color)}
ValueLists == (weak \ origweak) \cup (allweak \ origall)
KeyLists == ephemeron \cup allweak
ClearKeys ==
  /\ Goes("converge again", "done")
  /\ next = {} /\ ~AnotherRound
  /\ entries' = [t \in AllTables |->
       Kept(entries[t], {e \in Pairs : /\ t \in KeyLists => e \in KeyKept
                                       /\ t \in ValueLists => e \in ValueKept})]
  /\ color' = Marked(StringsIn(KeyLists, 1) \cup StringsIn(ValueLists, 2))
  /\ UNCHANGED <<heap, twups, fins, lists, locals, before, program>>

-----------------------------------------------------------------------------
(* The program, between the steps of the propagate phase.  What it handles *)
(* is on the stack of the main thread, which has no barrier.               *)

Running == phase = "propagate" /\ budget > 0 /\ budget' = budget - 1 /\ disturbed' = TRUE

Drop(v) ==
  /\ Running
  /\ v \in stack[Main]
  /\ stack' = [stack EXCEPT ![Main] = @ \ {v}]
  /\ UNCHANGED <<color, entries, upvals, val, owner, twups, fins, lists, locals, phase,
                 before>>

(* a value, or a key ('next'), of a table *)
Load(t, v) ==
  /\ Running
  /\ t \in stack[Main] \cap AllTables /\ v \in Keys(t) \cup Values(t)
  /\ stack' = [stack EXCEPT ![Main] = @ \cup {v}]
  /\ UNCHANGED <<color, entries, upvals, val, owner, twups, fins, lists, locals, phase,
                 before>>

(* a new entry, with the backward barriers of its key and of its value *)
Store(t, k, v) ==
  /\ Running
  /\ {t, v} \subseteq stack[Main] /\ k \in stack[Main] \cup {NoKey}
  /\ t \in AllTables /\ k \notin Keys(t)
  /\ entries' = [entries EXCEPT ![t] = Append(@, <<k, v>>)]
  /\ IF color[t] = "black" /\ (White(v) \/ (k # NoKey /\ White(k)))
       THEN color' = [color EXCEPT ![t] = "gray"] /\ grayagain' = grayagain \cup {t}
       ELSE UNCHANGED <<color, grayagain>>
  /\ UNCHANGED <<heap, twups, fins, gray, weak, allweak, ephemeron, locals, phase, before>>

(* assignment to an upvalue of a closure (OP_SETUPVAL): a forward barrier, *)
(* which never acts on an open upvalue, for that is gray                   *)
SetUpvalue(cl, u, v) ==
  /\ Running
  /\ cl \in stack[Main] \cap Closures /\ u \in upvals[cl] /\ v \in stack[Main]
  /\ val' = [val EXCEPT ![u] = v]
  /\ LET S == IF color[u] = "black" THEN {v} ELSE {}
     IN  color' = Marked(S) /\ gray' = gray \cup ToGray(S)
  /\ UNCHANGED <<entries, stack, upvals, owner, twups, fins, grayagain, weak, allweak,
                 ephemeron, locals, phase, before>>

(* a coroutine of the stack ends: its upvalues are closed (luaF_closeupval) *)
CloseThread(th) ==
  /\ Running
  /\ th \in (stack[Main] \cap Threads) \ {Main}
  /\ owner' = [u \in Upvalues |-> IF u \in OpenIn(th) THEN "closed" ELSE owner[u]]
  /\ stack' = [stack EXCEPT ![th] = {}]
  /\ LET us == {u \in OpenIn(th) : ~White(u)}
         S  == {val[u] : u \in us}
     IN  /\ color' = [o \in Obj |-> IF o \in us THEN "black" ELSE Marked(S)[o]]
         /\ gray' = gray \cup ToGray(S)
  /\ UNCHANGED <<entries, upvals, val, twups, fins, grayagain, weak, allweak, ephemeron,
                 locals, phase, before>>

ProgramStep ==
  \E x, v \in stack[Main] :
    \/ Drop(v) \/ CloseThread(v)
    \/ \E o \in Obj : Load(x, o) \/ SetUpvalue(x, o, v)
    \/ \E k \in stack[Main] \cup {NoKey} : Store(x, k, v)

Next ==
  \/ RestartCollection
  \/ \E o \in Obj : PropagateMark(o) \/ VisitNext(o)
  \/ EnterAtomic \/ RemarkUpvals \/ VisitAgain
  \/ Converge("again", "converge") \/ NextRound \/ ClearValues
  \/ Converge("resurrect", "converge again") \/ ClearKeys
  \/ ProgramStep

Spec == Init /\ [][Next]_vars

-----------------------------------------------------------------------------
(* What weak tables mean: least fixed points over the heap that 'atomic'   *)
(* finds.                                                                  *)

ReachedBy(S) ==
  LET pairs(t) == ToSet(before[t])
      inTable(t) ==
        CASE t \in Strong    -> UNION {{e[1], e[2]} : e \in pairs(t)}
          [] t \in WeakValue -> {e[1] : e \in pairs(t)}
                                  \cup ({e[2] : e \in pairs(t)} \cap Strings)
          [] t \in Ephemeron -> {e[2] : e \in {p \in pairs(t) : p[1] \in S \cup Strings \cup {NoKey}}}
          [] OTHER           -> {}
  IN  (UNION {inTable(t) : t \in S \cap AllTables})
        \cup (UNION {upvals[cl] : cl \in S \cap Closures})
        \cup {val[u] : u \in S \cap Upvalues}
        \cup (UNION {stack[th] \cup OpenIn(th) : th \in S \cap Threads})

(* the longest path has as many steps as there are objects *)
Reach(S) ==
  LET reached[n \in 0..Cardinality(Obj)] ==
        IF n = 0 THEN S
        ELSE LET R == reached[n - 1] IN R \cup (ReachedBy(R) \ {NoKey})
  IN  reached[Cardinality(Obj)]

StrongSet == Reach({Main})
ResurrectedSet == Reach(StrongSet \cup {o \in finobj \cup tobefnz : o \notin StrongSet})

(* what the entries of t that stay refer to *)
StaysExactly(t, strong, all) ==
  LET having(i, S) == {e \in ToSet(before[t]) : e[i] \in S \cup Strings \cup {NoKey}}
      values == IF t \in strong THEN strong ELSE all
  IN  CASE t \in Strong    -> before[t]
        [] t \in WeakValue -> Kept(before[t], having(2, values))
        [] t \in Ephemeron -> Kept(before[t], having(1, all))
        [] OTHER -> Kept(before[t], having(2, values) \cap having(1, all))

Alive == {o \in Obj \ Strings : ~White(o)}

(* In a collection that the program does not disturb, 'atomic' marks what  *)
(* is reachable, no more and no less, whatever the order in which tables   *)
(* are visited: an ephemeron's value counts only when its key is reached   *)
(* by another way; and it leaves exactly these entries in weak tables:     *)
(* values that are to be finalized go at once, keys when they are dead.    *)
WeakTablesExact ==
  phase = "done" /\ ~disturbed =>
    /\ Alive = ResurrectedSet \ Strings
    /\ \A t \in Alive \cap AllTables : entries[t] = StaysExactly(t, StrongSet, ResurrectedSet)

(* Whatever the program does meanwhile, what is reachable in the end is    *)
(* marked, and an entry between two such objects stays in its table.       *)
ReachableKept ==
  phase = "done" =>
    /\ ResurrectedSet \subseteq {o \in Obj : ~White(o)}
    /\ \A t \in StrongSet \cap AllTables : \A e \in ToSet(before[t]) :
         {e[1], e[2]} \subseteq StrongSet \cup {NoKey} => e \in ToSet(entries[t])

(* When the sweep begins nothing that stays refers to something it frees:  *)
(* no entry of a weak table, no value of an upvalue, open or closed, whose *)
(* thread dies.                                                            *)
NothingDangles ==
  phase = "done" =>
    /\ \A t \in Alive \cap AllTables : Keys(t) \cup Values(t) \subseteq {o \in Obj : ~White(o)}
    /\ \A u \in Alive \cap Upvalues : ~White(val[u])
    /\ \A th \in Alive \cap Threads : \A o \in stack[th] \cup OpenIn(th) : ~White(o)

(* The gray lists share one link field: an object is in one list at most;  *)
(* a gray object is in one, open upvalues apart.                           *)
InOneList ==
  LET all == <<gray, grayagain, weak, allweak, ephemeron, saved, next>>
  IN  /\ \A i, j \in DOMAIN all : i # j => all[i] \cap all[j] = {}
      /\ (UNION ToSet(all)) = {o \in Obj \ Upvalues : color[o] = "gray"}
=============================================================================
