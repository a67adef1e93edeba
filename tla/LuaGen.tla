------------------------------- MODULE LuaGen -------------------------------
(***************************************************************************)
(* The generational mode of the garbage collector of the Lua 5.4.6 sources *)
(* in tar/lua-5.4.6/src (lgc.c): minor collections that visit and sweep    *)
(* the young objects only, the ages and the barriers that make it enough,  *)
(* the pointers into allgc and finobj that delimit the generations, major  *)
(* collections, the return to incremental mode after a bad one, and        *)
(* finalizers.                                                             *)
(*                                                                         *)
(* A collection of this mode is one action: nothing of the program runs    *)
(* inside it, its finalizers excepted, which come after it.  For the same  *)
(* reason one white is enough: no object is created between 'atomic' and   *)
(* the end of the sweep.  Incremental mode appears here in its pause only  *)
(* (LuaGC and LuaSweep are about its steps); weak tables and upvalues are  *)
(* in LuaWeak.                                                             *)
(***************************************************************************)
EXTENDS Naturals, FiniteSets, Lists

CONSTANTS
  Tables,     \* objects with a backward barrier for their fields
  Closures,   \* objects with a forward barrier
  Threads,    \* coroutines, the main thread included: no barrier at all
  Main,       \* g->mainthread
  Finalized,  \* objects that may get a finalizer
  MaxSlots,   \* references a table, closure or coroutine can hold at the same time
  MaxStack,   \* references the program pushes on the main stack at the same time
  Program     \* which of the optional things below the program does

Obj == Tables \cup Closures \cup Threads
Nil == "nil"  \* the null pointer

ASSUME GenAssumption ==
  /\ Main \in Threads /\ Nil \notin Obj
  /\ Tables \cap Closures = {} /\ Threads \cap (Tables \cup Closures) = {}
  /\ Finalized \subseteq Tables \cup Closures
  /\ Program \subseteq {"erase", "nomem", "major", "inc", "close"}

VARIABLES
  color,      \* colour of each object; "none": not allocated
  age,        \* age of each object
  refs,       \* what each object refers to (a thread: its stack)
  gray,       \* g->gray
  grayagain,  \* g->grayagain
  allgc, finobj, tobefnz,             \* the lists of objects, in their order
  survival, old1, reallyold, firstold1,  \* pointers into allgc
  finobjsur, finobjold1, finobjrold,     \* pointers into finobj
  kind,       \* g->gckind
  bad,        \* g->lastatomic # 0: the last major collection was a bad one
  running,    \* the thread L in whose name things are done
  fin,        \* finalizers: "idle", "batch" (between two calls), "user" (in one)
  closing,    \* lua_close: "open", "closing", "closed"
  asserted    \* no assertion of the code has failed

lists    == <<allgc, finobj, tobefnz>>
pointers == <<survival, old1, reallyold, firstold1, finobjsur, finobjold1, finobjrold>>
marks    == <<color, age, gray, grayagain>>
mode     == <<kind, bad, closing>>
vars     == <<marks, refs, lists, pointers, mode, running, fin, asserted>>

Heap == ToSet(allgc) \cup ToSet(finobj) \cup ToSet(tobefnz)
White(o) == color[o] = "white"
IsOld(a) == a \notin {"new", "survival"}

(* lists, and pointers to an element of one *)
Index(s, p) == IF \E i \in DOMAIN s : s[i] = p THEN CHOOSE i \in DOMAIN s : s[i] = p
               ELSE Len(s) + 1
Upto(s, p) == SubSeq(s, 1, Index(s, p) - 1)
From(s, p) == SubSeq(s, Index(s, p), Len(s))
First(s) == IF s = <<>> THEN Nil ELSE Head(s)
After(s, o) == First(SubSeq(s, Index(s, o) + 1, Len(s)))

Init ==
  /\ color = [o \in Obj |-> IF o = Main THEN "white" ELSE "none"]
  /\ age = [o \in Obj |-> "new"]
  /\ refs = [o \in Obj |-> {}]
  /\ gray = {} /\ grayagain = {}
  /\ allgc = <<Main>> /\ finobj = <<>> /\ tobefnz = <<>>
  /\ survival = Nil /\ old1 = Nil /\ reallyold = Nil /\ firstold1 = Nil
  /\ finobjsur = Nil /\ finobjold1 = Nil /\ finobjrold = Nil
  /\ kind = "inc" /\ bad = FALSE
  /\ running = Main /\ fin = "idle" /\ closing = "open"
  /\ asserted = TRUE

-----------------------------------------------------------------------------
(* The barriers of an assignment of v to a field of o. *)

Hit(o, v) == color[o] = "black" /\ White(v)

(* luaC_barrier_: v is marked, and old like o *)
AgeForward_Not(o) == age[o]               \* mutant: v does not become old
AgeForward(o) == "old0"
BarrierForward(o, v) ==
  IF Hit(o, v)
    THEN /\ color' = [color EXCEPT ![v] = "gray"]
         /\ gray' = gray \cup {v}
         /\ age' = IF IsOld(age[o]) THEN [age EXCEPT ![v] = AgeForward(v)] ELSE age
         /\ asserted' = (asserted /\ kind = "gen" /\ ~(IsOld(age[o]) /\ IsOld(age[v])))
         /\ UNCHANGED grayagain
    ELSE UNCHANGED <<marks, asserted>>

(* luaC_barrierback_: o is gray again; a touched2 object is in the list    *)
BarrierBack(o, v) ==
  IF Hit(o, v)
    THEN /\ color' = [color EXCEPT ![o] = "gray"]
         /\ grayagain' = grayagain \cup {o}
         /\ age' = IF IsOld(age[o]) THEN [age EXCEPT ![o] = "touched1"] ELSE age
         /\ asserted' = (/\ asserted
                         /\ (kind = "gen") <=> (IsOld(age[o]) /\ age[o] # "touched1")
                         /\ age[o] = "touched2" <=> o \in grayagain)
         /\ UNCHANGED gray
    ELSE UNCHANGED <<marks, asserted>>

-----------------------------------------------------------------------------
(* The program.  Everything it handles is on the stack of the running      *)
(* thread; it runs between collections and as the body of a finalizer.     *)

ProgramRuns == fin = "user" \/ (fin = "idle" /\ closing = "open")

Stack == refs[running]
HasRoom(o) == Cardinality(refs[o]) < (IF o = Main THEN MaxStack ELSE MaxSlots)

(* luaC_newobjdt *)
New(o) ==
  /\ ProgramRuns
  /\ color[o] = "none"
  /\ HasRoom(running)
  /\ color' = [color EXCEPT ![o] = "white"]
  /\ age' = [age EXCEPT ![o] = "new"]
  /\ allgc' = <<o>> \o allgc
  /\ refs' = [refs EXCEPT ![running] = @ \cup {o}]
  /\ UNCHANGED <<gray, grayagain, finobj, tobefnz, pointers, mode, running, fin,
                 asserted>>

Load(x, v) ==
  /\ ProgramRuns
  /\ x \in Stack /\ v \in refs[x] \ Stack
  /\ HasRoom(running)
  /\ refs' = [refs EXCEPT ![running] = @ \cup {v}]
  /\ UNCHANGED <<marks, lists, pointers, mode, running, fin, asserted>>

(* a value leaves the stack, or a field (which no barrier watches) *)
Drop(x, v) ==
  /\ ProgramRuns
  /\ x = running \/ ("erase" \in Program /\ x \in Stack \ Threads)
  /\ v \in refs[x]
  /\ refs' = [refs EXCEPT ![x] = @ \ {v}]
  /\ UNCHANGED <<marks, lists, pointers, mode, running, fin, asserted>>

Store(o, v) ==
  /\ ProgramRuns
  /\ o \in Stack \ Threads /\ v \in Stack \ (refs[o] \cup {o})
  /\ HasRoom(o)
  /\ refs' = [refs EXCEPT ![o] = @ \cup {v}]
  /\ IF o \in Tables THEN BarrierBack(o, v) ELSE BarrierForward(o, v)
  /\ UNCHANGED <<lists, pointers, mode, running, fin>>

(* lua_xmove and lua_resume's arguments: no barrier *)
XMove(th, v) ==
  /\ ProgramRuns
  /\ th \in (Stack \cap Threads) \ {running} /\ v \in Stack \ refs[th]
  /\ HasRoom(th)
  /\ refs' = [refs EXCEPT ![running] = @ \ {v}, ![th] = @ \cup {v}]
  /\ UNCHANGED <<marks, lists, pointers, mode, running, fin, asserted>>

Switch(th) ==
  /\ ProgramRuns
  /\ th \in ((Stack \cap Threads) \cup {Main}) \ {running}
  /\ running' = th
  /\ UNCHANGED <<marks, refs, lists, pointers, mode, fin, asserted>>

(* checkpointer: a pointer to o, which leaves its list, moves on *)
Checked_Not(p, o) == p                    \* mutant: it stays on o
Checked(p, o) == IF p = o THEN After(allgc, o) ELSE p

(* lua_setmetatable with a metatable that has __gc: luaC_checkfinalizer.   *)
(* The metatable is one that every collection marks (a library's).         *)
SetFinalizer(o) ==
  /\ ProgramRuns
  /\ closing = "open"
  /\ o \in (Stack \cap Finalized) \cap ToSet(allgc)
  /\ survival' = Checked(survival, o)
  /\ old1' = Checked(old1, o)
  /\ reallyold' = Checked(reallyold, o)
  /\ firstold1' = (IF firstold1 = o THEN After(allgc, o) ELSE firstold1)
  /\ allgc' = Kept(allgc, Obj \ {o})
  /\ finobj' = <<o>> \o finobj
  /\ UNCHANGED <<marks, refs, tobefnz, finobjsur, finobjold1, finobjrold, mode,
                 running, fin, asserted>>

-----------------------------------------------------------------------------
(* The atomic step. *)

(* propagateall: what is visited from the objects of S, given the white    *)
(* ones: the least set with S that no visit leads out of                   *)
ClosedUnderVisit(T, white) == \A x \in T : refs[x] \cap white \subseteq T
Visited(S, white) ==
  LET closed == {T \in SUBSET Obj : S \subseteq T /\ ClosedUnderVisit(T, white)}
  IN  {o \in Obj : \A T \in closed : o \in T}

(* atomic: what is marked from the roots and the gray lists, the objects   *)
(* separatetobefnz moves, and all that is marked in the end.               *)
StrongFrom(seeds, white) == Visited(seeds \cup ({Main, running} \cap white), white)
Separated_New(strong, white) == Kept(Upto(finobj, finobjsur), white \ strong)  \* mutant
Separated(strong, white) == Kept(Upto(finobj, finobjold1), white \ strong)
MarkedFrom(strong, sep, white) ==
  Visited(strong \cup ToSet(sep) \cup (ToSet(tobefnz) \cap white), white)

(* What a visit does to the gray list grayagain, the colour and the age    *)
(* (genlink, traversethread).                                              *)
LinkedBack_NoThreads(visited, a) ==       \* mutant: old threads are forgotten
  {o \in visited \cap Tables : a[o] = "touched1"}
LinkedBack(visited, a) ==
  {o \in visited \cap Tables : a[o] = "touched1"}
    \cup {o \in visited \cap Threads : IsOld(a[o])}
ColorsAfter(visited, a) ==
  [o \in Obj |-> IF o \in LinkedBack(visited, a) THEN "gray"
                 ELSE IF o \in visited THEN "black" ELSE color[o]]
AgesAfter(visited, a) ==
  [o \in Obj |-> IF o \in visited \cap Tables /\ a[o] = "touched2" THEN "old" ELSE a[o]]

Unreferring(dead) == [o \in Obj |-> IF o \in dead THEN {} ELSE refs[o]]

-----------------------------------------------------------------------------
(* A minor collection (youngcollection). *)

CanCollect == fin = "idle" /\ closing = "open"
(* after a collection: finishgencycle calls the finalizers *)
Finalizing(tbf) == IF tbf = <<>> THEN "idle" ELSE "batch"

(* markold *)
Old1Marked ==
  {o \in ToSet(IF firstold1 = Nil THEN <<>>
                  ELSE Upto(From(allgc, firstold1), reallyold))
         \cup ToSet(Upto(finobj, finobjrold)) \cup ToSet(tobefnz) : age[o] = "old1"}

NextAge_Skip(a) == CASE a = "new" -> "survival" [] a \in {"survival", "old0", "old1"} -> "old"
                     [] OTHER -> a        \* mutant: no old1
NextAge(a) ==
  CASE a = "new" -> "survival"
    [] a \in {"survival", "old0"} -> "old1"
    [] a = "old1" -> "old"
    [] OTHER -> a

(* correctgraylist, for what remains and for its age *)
Touched(a) == CASE a = "touched1" -> "touched2" [] a = "touched2" -> "old" [] OTHER -> a

(* markold and atomic: what is visited, what is to be finalized, and the   *)
(* ages and colours they leave                                             *)
YoungAtomic ==
  LET a0   == [o \in Obj |-> IF o \in Old1Marked THEN "old" ELSE age[o]]
      seen == {o \in Old1Marked : color[o] = "black"}
      white == {o \in Heap : White(o)}
      strong == StrongFrom(seen \cup gray \cup grayagain, white)
      sep  == Separated(strong, white)
      visited == MarkedFrom(strong, sep, white)
  IN  [visited |-> visited, sep |-> sep, again |-> LinkedBack(visited, a0),
       age |-> AgesAfter(visited, a0), color |-> ColorsAfter(visited, a0)]

(* sweepgen of the parts of the lists that are young, where at is what     *)
(* 'atomic' has done: the lists, and the objects that are freed            *)
YoungLists(at) ==
  LET live == {o \in Obj : at.color[o] # "white"}
      rest == Kept(finobj, Obj \ ToSet(at.sep))
      sur  == IF finobjsur \in ToSet(at.sep)
                THEN First(Kept(From(finobj, finobjsur), Obj \ ToSet(at.sep)))
                ELSE finobjsur
  IN  [nursery  |-> Kept(Upto(allgc, survival), live),
       middle   |-> Kept(Upto(From(allgc, survival), old1), live),
       fnursery |-> Kept(Upto(rest, sur), live),
       fmiddle  |-> Kept(Upto(From(rest, sur), finobjold1), live),
       frest    |-> From(rest, finobjold1),
       tobefnz  |-> Kept(tobefnz \o at.sep, live),
       dead     |-> ToSet(Upto(allgc, old1) \o Upto(rest, finobjold1)
                               \o tobefnz \o at.sep) \ live]

(* the ages and colours after the sweep, and after correctgraylists *)
SweptLive(l) == ToSet(l.nursery \o l.middle \o l.fnursery \o l.fmiddle \o l.tobefnz)
YoungAges(at, l) ==
  [o \in Obj |-> IF o \in l.dead THEN "new"
                 ELSE IF o \in SweptLive(l) THEN NextAge(at.age[o]) ELSE at.age[o]]
YoungColors(at, l) ==
  [o \in Obj |-> IF o \in l.dead THEN "none"
                 ELSE IF o \in SweptLive(l) /\ at.age[o] = "new" THEN "white"
                 ELSE at.color[o]]

YoungCollection ==
  /\ CanCollect /\ kind = "gen" /\ ~bad
  /\ \E at \in {YoungAtomic} : \E l \in {YoungLists(at)} :
     \E a \in {YoungAges(at, l)} : \E c \in {YoungColors(at, l)} :
       LET kept == {o \in at.again : c[o] \notin {"white", "none"}}
           rest == l.middle \o From(allgc, old1)
       IN  /\ color' = [o \in Obj |-> IF o \in kept \ Threads THEN "black" ELSE c[o]]
           /\ age' = [o \in Obj |-> IF o \in kept THEN Touched(a[o]) ELSE a[o]]
           /\ refs' = Unreferring(l.dead)
           /\ gray' = {}
           /\ grayagain' = {o \in kept : o \in Threads \/ Touched(a[o]) = "touched2"}
           /\ allgc' = l.nursery \o rest
           /\ finobj' = l.fnursery \o l.fmiddle \o l.frest
           /\ tobefnz' = l.tobefnz
           /\ firstold1' = First(Kept(l.nursery \o l.middle, {o \in Obj : a[o] = "old1"}))
           /\ reallyold' = old1 /\ old1' = First(rest) /\ survival' = First(allgc')
           /\ finobjrold' = finobjold1 /\ finobjold1' = First(l.fmiddle \o l.frest)
           /\ finobjsur' = First(finobj')
           /\ fin' = Finalizing(tobefnz')
           /\ asserted' = (/\ asserted
                           /\ \A o \in Old1Marked : ~White(o)
                           /\ \A o \in l.dead : ~IsOld(at.age[o])
                           /\ \A o \in kept : IsOld(a[o])
                           /\ gray \cap grayagain = {})
  /\ UNCHANGED <<mode, running>>

-----------------------------------------------------------------------------
(* Changes of mode and major collections: everything is white, and marked  *)
(* from the roots.                                                         *)

AllWhite == [o \in Obj |-> IF color[o] = "none" THEN "none" ELSE "white"]

(* what such a collection leaves when it has marked m and separated sep    *)
FullSwept(m, sep) ==
  /\ refs' = Unreferring(Obj \ m)
  /\ allgc' = Kept(allgc, m)
  /\ finobj' = Kept(finobj, Obj \ ToSet(sep))
  /\ tobefnz' = tobefnz \o sep

(* atomic and atomic2gen: all that is alive is old *)
ToGen(m, sep) ==
  /\ FullSwept(m, sep)
  /\ color' = [o \in Obj |-> IF o \notin m THEN "none"
                             ELSE IF o \in Threads THEN "gray" ELSE "black"]
  /\ age' = [o \in Obj |-> IF o \in m THEN "old" ELSE "new"]
  /\ gray' = {} /\ grayagain' = m \cap Threads
  /\ survival' = First(allgc') /\ old1' = First(allgc') /\ reallyold' = First(allgc')
  /\ firstold1' = Nil
  /\ finobjsur' = First(finobj') /\ finobjold1' = First(finobj')
  /\ finobjrold' = First(finobj')
  /\ kind' = "gen"
  /\ UNCHANGED <<running, closing, asserted>>

ForgetFinobj == finobjsur' = Nil /\ finobjold1' = Nil /\ finobjrold' = Nil
(* enterinc; firstold1 keeps its value *)
ForgetGenerations ==
  /\ age' = [o \in Obj |-> "new"]
  /\ survival' = Nil /\ old1' = Nil /\ reallyold' = Nil
  /\ ForgetFinobj
  /\ kind' = "inc"
  /\ UNCHANGED firstold1

(* the incremental cycle of stepgenfull after another bad collection, or   *)
(* of collectgarbage("collect") in incremental mode                        *)
ToPause(m, sep) ==
  /\ FullSwept(m, sep)
  /\ color' = [o \in Obj |-> IF o \in m THEN "white" ELSE "none"]
  /\ gray' = {} /\ grayagain' = {}
  /\ IF kind = "gen" THEN ForgetGenerations ELSE UNCHANGED <<age, pointers, kind>>
  /\ UNCHANGED <<running, closing, asserted>>

(* what is marked, and what is separated for finalization: what still      *)
(* waits for its finalizer is marked from the start (restartcollection)    *)
FullAtomic ==
  LET strong == StrongFrom(ToSet(tobefnz), Heap)
      sep    == Kept(finobj, Heap \ strong)
  IN  <<MarkedFrom(strong, sep, Heap), sep>>
EnterGen  == \E done \in {FullAtomic} : ToGen(done[1], done[2])
FullCycle == \E done \in {FullAtomic} : ToPause(done[1], done[2])

(* entergen of luaC_changemode, from the pause of incremental mode *)
ChangeToGen ==
  /\ CanCollect /\ kind = "inc"
  /\ EnterGen /\ bad' = FALSE
  /\ fin' = Finalizing(tobefnz')

(* enterinc leaves the gray lists as they are; restartcollection is going  *)
(* to clear them.                                                          *)
ChangeToInc ==
  /\ CanCollect /\ "inc" \in Program
  /\ bad' = FALSE
  /\ IF kind = "gen"
       THEN /\ ForgetGenerations
            /\ color' = AllWhite
            /\ UNCHANGED <<refs, gray, grayagain, lists, asserted>>
       ELSE bad /\ UNCHANGED <<marks, refs, lists, pointers, kind, asserted>>
  /\ UNCHANGED <<running, fin, closing>>

(* fullgen of genstep, which tells a bad collection by its size, or of     *)
(* collectgarbage("collect"), which does not ask                           *)
MajorCollection ==
  /\ CanCollect /\ "major" \in Program
  /\ kind = "gen"
  /\ EnterGen /\ bad' \in (IF bad THEN {FALSE} ELSE BOOLEAN)
  /\ fin' = Finalizing(tobefnz')

(* stepgenfull, after a bad collection: back to generations, or a whole    *)
(* incremental cycle that leaves everything white.                         *)
StepGenFull ==
  /\ CanCollect /\ bad
  /\ \/ EnterGen /\ bad' = FALSE
     \/ FullCycle /\ UNCHANGED bad
  /\ fin' = Finalizing(tobefnz')

(* an allocation fails: the same as an explicit collection, at any time    *)
(* the program runs, and without finalizers                                *)
Emergency ==
  /\ ProgramRuns /\ "nomem" \in Program
  /\ closing = "open" /\ kind = "gen"
  /\ EnterGen /\ bad' = FALSE
  /\ UNCHANGED fin

-----------------------------------------------------------------------------
(* Finalizers and the end. *)

(* GCTM and udata2finalize: o goes back to the front of allgc; its         *)
(* finalizer runs with o on the stack, unless it has none any more.        *)
FirstOld1(o) == IF age[o] = "old1" THEN o ELSE firstold1
CallFin ==
  /\ fin = "batch" /\ tobefnz # <<>>
  /\ LET o == Head(tobefnz)
     IN  /\ allgc' = <<o>> \o allgc
         /\ firstold1' = FirstOld1(o)
         /\ \/ fin' = "batch" /\ UNCHANGED refs
            \/ fin' = "user" /\ refs' = [refs EXCEPT ![running] = @ \cup {o}]
  /\ tobefnz' = Tail(tobefnz)
  /\ UNCHANGED <<marks, finobj, survival, old1, reallyold, finobjsur, finobjold1,
                 finobjrold, mode, running, asserted>>

FinReturn ==
  /\ fin = "user"
  /\ fin' = "batch"
  /\ UNCHANGED <<marks, refs, lists, pointers, mode, running, asserted>>

BatchDone ==
  /\ fin = "batch" /\ tobefnz = <<>> /\ closing = "open"
  /\ fin' = "idle"
  /\ UNCHANGED <<marks, refs, lists, pointers, mode, running, asserted>>

(* lua_close: back to incremental mode, and every object with a finalizer  *)
(* from the header of finobj up to finobjold1 is to be finalized.          *)
Close ==
  /\ CanCollect /\ "close" \in Program
  /\ closing' = "closing" /\ fin' = "batch" /\ running' = Main /\ bad' = FALSE
  /\ refs' = [refs EXCEPT ![Main] = {}]
  /\ IF kind = "gen" THEN ForgetGenerations /\ color' = AllWhite
     ELSE UNCHANGED <<color, age, pointers, kind>>
  /\ tobefnz' = tobefnz \o Upto(finobj, finobjold1')
  /\ finobj' = From(finobj, finobjold1')
  /\ UNCHANGED <<gray, grayagain, allgc, asserted>>

(* the deletion of all objects, but the main thread, ends the state *)
FreeAllObjects ==
  /\ closing = "closing" /\ fin = "batch" /\ tobefnz = <<>>
  /\ closing' = "closed" /\ fin' = "idle" /\ running' = Main
  /\ color' = [o \in Obj |-> IF o = Main THEN color[o] ELSE "none"]
  /\ refs' = [o \in Obj |-> {}]
  /\ allgc' = <<Main>> /\ gray' = {} /\ grayagain' = {}
  /\ asserted' = (asserted /\ finobj = <<>>)
  /\ UNCHANGED <<age, finobj, tobefnz, pointers, kind, bad>>

ProgramStep ==
  \/ \E o \in Obj : New(o) \/ SetFinalizer(o)
  \/ \E x, v \in Obj : Load(x, v) \/ Drop(x, v) \/ Store(x, v) \/ XMove(x, v)
  \/ \E th \in Threads : Switch(th)
CollectorStep ==
  \/ YoungCollection \/ ChangeToGen \/ ChangeToInc \/ MajorCollection
  \/ StepGenFull \/ Emergency
FinalizerStep == CallFin \/ FinReturn \/ BatchDone \/ Close \/ FreeAllObjects

Next == ProgramStep \/ CollectorStep \/ FinalizerStep
Spec == Init /\ [][Next]_vars

-----------------------------------------------------------------------------
(* Properties. *)

Needed == Visited({Main, running} \cup ToSet(finobj) \cup ToSet(tobefnz), Obj)

(* A minor collection visits the young objects and the touched ones only;  *)
(* still nothing the program can reach, and nothing that waits for its     *)
(* finalizer or is reachable from what does, is ever freed.                *)
ReachableAllocated == Needed \subseteq Heap

(* lgc.h: an old object is "not to be visited": it refers to old objects   *)
(* only, whatever was stored in it, and whenever, while it aged.           *)
OldPointsToOld ==
  \A o \in Heap : color[o] = "black" /\ age[o] = "old" => \A v \in refs[o] : IsOld(age[v])

(* lstate.h: the pointers divide allgc and finobj into new objects, those  *)
(* that survived one collection, those that are old since the last one and *)
(* older ones; they stay so when finalizers move objects between the lists *)
(* (correctpointers, udata2finalize).  An object goes to the front of a    *)
(* list at any age.                                                        *)
Delimits(s, sur, o1, rold) ==
  /\ {sur, o1, rold} \subseteq ToSet(s) \cup {Nil}
  /\ Index(s, sur) <= Index(s, o1) /\ Index(s, o1) <= Index(s, rold)
  /\ \A o \in ToSet(From(s, sur)) : age[o] # "new"
  /\ \A o \in ToSet(From(s, o1)) : IsOld(age[o])
  /\ \A o \in ToSet(From(s, rold)) : age[o] # "old1"
GenerationsDelimited ==
  kind = "gen" =>
    /\ Delimits(allgc, survival, old1, reallyold)
    /\ Delimits(finobj, finobjsur, finobjold1, finobjrold)
    /\ \A o \in ToSet(allgc) : age[o] = "old1"
         => firstold1 # Nil /\ Index(allgc, firstold1) <= Index(allgc, o)

(* lgc.c: between collections an object is in a gray list exactly when the *)
(* next minor collection has to visit it: what was touched in this cycle   *)
(* or the last one, old threads, and what a barrier has made old.  What is *)
(* visited at an old1 object's next collection need not be there.  The     *)
(* assertions of the code about ages, colours and lists hold.              *)
GrayListsExact ==
  /\ asserted
  /\ kind = "gen" =>
    /\ grayagain = {o \in Heap : age[o] \in {"touched1", "touched2"}}
                      \cup {th \in Threads \cap Heap : /\ age[th] \in {"old", "old1"}
                                                       /\ color[th] = "gray"}
    /\ gray = {o \in Heap : age[o] = "old0"}
    /\ \A o \in Heap : White(o) <=> ~IsOld(age[o])
    /\ \A th \in Threads \cap Heap : age[th] = "old" => th \in grayagain

(* An object with a finalizer is never freed without it: it leaves finobj  *)
(* for tobefnz, and tobefnz for allgc, in minor collections too.           *)
FinalizesFirst ==
  [][\A o \in ToSet(finobj) \cup ToSet(tobefnz) :
       o \in Heap' \/ (closing' = "closed" /\ finobj = <<>>)]_vars
=============================================================================
