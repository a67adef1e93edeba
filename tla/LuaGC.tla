-------------------------------- MODULE LuaGC --------------------------------
(***************************************************************************)
(* The incremental garbage collector of the Lua 5.4.6 sources kept in      *)
(* tar/lua-5.4.6/src (lgc.c, lgc.h) with everything that runs against it:  *)
(* the mutator (lapi.c, lvm.c) with its write barriers, finalizers (__gc), *)
(* explicit full collections (lua_gc), emergency collections (lmem.c) and  *)
(* the closing of the state (lstate.c).                                    *)
(*                                                                         *)
(* The lists of the collector are sets here; LuaSweep gives them their   *)
(* order and their sweep pointer.  Not modelled here: generational mode,   *)
(* weak tables, open upvalues, and the pacing of the collector (GCdebt):   *)
(* an incremental step may happen between any two actions of the mutator.  *)
(***************************************************************************)
EXTENDS Naturals, FiniteSets

CONSTANTS
  Tables,     \* objects with a backward barrier for what they hold (also
              \* user data with user values)
  Closures,   \* objects with a forward barrier (closures with upvalues)
  Threads,    \* coroutines, the main thread included: no barrier at all
  Strings,    \* objects without references
  Main,       \* g->mainthread
  Registry,   \* the table in g->l_registry
  MaxSlots,   \* references a table, closure or coroutine can hold at the same time
  MaxStack,   \* references the main stack can hold at the same time
  Program     \* which of the optional things below the program does

Obj == Tables \cup Closures \cup Threads \cup Strings

ASSUME KindsAssumption ==
  /\ Main \in Threads
  /\ Registry \in Tables
  /\ Tables \cap Closures = {}
  /\ Tables \cap Threads = {}
  /\ Closures \cap Threads = {}
  /\ Strings \cap (Tables \cup Closures \cup Threads) = {}
  /\ MaxSlots \in Nat /\ MaxStack \in Nat
  /\ Program \subseteq {"gc", "basic", "collect", "nomem", "close"}

VARIABLES
  mark,        \* colour of each object; "none": not allocated
  refs,        \* what each object refers to (a thread: its stack)
  curw,        \* g->currentwhite
  gray,        \* g->gray
  grayagain,   \* g->grayagain
  gcstate,     \* g->gcstate
  allgc, finobj, tobefnz,   \* the lists every object but the fixed ones is in
  unswept,     \* the objects from g->sweepgc to the end of its list
  groots,      \* g->l_registry and g->mt[]
  running,     \* the thread L in whose name things are done
  fin,         \* finalizers: "idle", "batch" (between two calls), "user" (in one)
  fullgc,      \* the luaC_runtilstate loop of fullinc an explicit call is in
  emergencygc, \* the same of an emergency collection; # "none": gcemergency
  closing      \* lua_close: "open", "closing", "closed"

lists   == <<allgc, finobj, tobefnz>>
control == <<fin, fullgc, emergencygc, closing>>
vars    == <<mark, refs, curw, gray, grayagain, gcstate, lists, unswept, groots,
             running, control>>

Whites == {"white0", "white1"}
Other(w) == IF w = "white0" THEN "white1" ELSE "white0"
Loops == {"none", "abort", "cycle", "finish"}

Black(o) == mark[o] = "black"
White(o) == mark[o] \in Whites
Heap == allgc \cup finobj \cup tobefnz
Dead == {o \in Obj : mark[o] = Other(curw)}
KeepInvariant == gcstate \in {"propagate", "enteratomic"}
IsSweepPhase == gcstate \in {"swpallgc", "swpfinobj", "swptobefnz", "swpend"}
ToFinalize(o) == o \in finobj \cup tobefnz
Roots == {Main, running} \cup groots

Init ==
  /\ mark = [o \in Obj |-> IF o \in {Main, Registry} THEN "white0" ELSE "none"]
  /\ refs = [o \in Obj |-> IF o = Registry THEN {Main} ELSE {}]
  /\ curw = "white0"
  /\ gray = {} /\ grayagain = {}
  /\ gcstate = "pause"
  /\ allgc = {Main, Registry} /\ finobj = {} /\ tobefnz = {}
  /\ unswept = {}
  /\ groots = {Registry}
  /\ running = Main
  /\ fin = "idle" /\ fullgc = "none" /\ emergencygc = "none"
  /\ closing = "open"

-----------------------------------------------------------------------------
(* Marking: the objects of S that are white become gray and go to 'gray';  *)
(* strings have nothing to be visited and become black (reallymarkobject). *)

MarkedBy(S, m) ==
  [o \in Obj |-> IF o \in S /\ m[o] \in Whites
                   THEN IF o \in Strings THEN "black" ELSE "gray"
                   ELSE m[o]]
GrayedBy(S, m) == {o \in S \ Strings : m[o] \in Whites}

(* Colours and gray lists after the barriers of an assignment of v into o. *)
ForwardHit_Never(o, v) == FALSE          \* mutant: the barrier is forgotten
ForwardHit(o, v) == Black(o) /\ White(v)

MarkAfterForward(o, v) ==
  IF ~ForwardHit(o, v) THEN mark
  ELSE IF KeepInvariant THEN MarkedBy({v}, mark)
  ELSE [mark EXCEPT ![o] = curw]

GrayAfterForward(o, v) ==
  IF ForwardHit(o, v) /\ KeepInvariant THEN gray \cup GrayedBy({v}, mark) ELSE gray

-----------------------------------------------------------------------------
(* The mutator.  Everything it handles is on the stack of the running      *)
(* thread or a root.  It runs between the steps of the collector and as    *)
(* the body of a finalizer, never inside a full collection's own work.     *)

MutatorRuns ==
  /\ emergencygc = "none"
  /\ \/ fin = "user"
     \/ fin = "idle" /\ fullgc = "none" /\ closing = "open"

Stack == refs[running]
HasRoom(o) == Cardinality(refs[o]) < (IF o = Main THEN MaxStack ELSE MaxSlots)
Push(v) == refs' = [refs EXCEPT ![running] = @ \cup {v}]

New(o) ==
  /\ MutatorRuns
  /\ mark[o] = "none"
  /\ HasRoom(running)
  /\ mark' = [mark EXCEPT ![o] = curw]
  /\ allgc' = allgc \cup {o}
  /\ Push(o)
  /\ UNCHANGED <<curw, gray, grayagain, gcstate, finobj, tobefnz, unswept, groots,
                 running, control>>

Load(x, v) ==
  /\ MutatorRuns
  /\ x \in Stack \cup groots
  /\ v \in refs[x] \cup (groots \cap {x})
  /\ v \notin Stack
  /\ HasRoom(running)
  /\ Push(v)
  /\ UNCHANGED <<mark, curw, gray, grayagain, gcstate, lists, unswept, groots,
                 running, control>>

Pop(v) ==
  /\ MutatorRuns
  /\ v \in Stack
  /\ refs' = [refs EXCEPT ![running] = @ \ {v}]
  /\ UNCHANGED <<mark, curw, gray, grayagain, gcstate, lists, unswept, groots,
                 running, control>>

LinkedAgain_Not(t) == grayagain          \* mutant: gray but in no list
LinkedAgain(t) == grayagain \cup {t}

StoreInTable(t, v) ==
  /\ MutatorRuns
  /\ t \in Tables \cap (Stack \cup groots)
  /\ v \in Stack \ refs[t]
  /\ HasRoom(t)
  /\ refs' = [refs EXCEPT ![t] = @ \cup {v}]
  /\ IF Black(t) /\ White(v)
       THEN /\ mark' = [mark EXCEPT ![t] = "gray"]
            /\ grayagain' = LinkedAgain(t)
       ELSE UNCHANGED <<mark, grayagain>>
  /\ UNCHANGED <<curw, gray, gcstate, lists, unswept, groots, running, control>>

StoreInClosure(c, v) ==
  /\ MutatorRuns
  /\ c \in Closures \cap Stack
  /\ v \in Stack \ refs[c]
  /\ HasRoom(c)
  /\ refs' = [refs EXCEPT ![c] = @ \cup {v}]
  /\ mark' = MarkAfterForward(c, v)
  /\ gray' = GrayAfterForward(c, v)
  /\ UNCHANGED <<curw, grayagain, gcstate, lists, unswept, groots, running, control>>

Erase(x, v) ==
  /\ MutatorRuns
  /\ x \in (Tables \cup Closures) \cap (Stack \cup groots)
  /\ v \in refs[x]
  /\ refs' = [refs EXCEPT ![x] = @ \ {v}]
  /\ UNCHANGED <<mark, curw, gray, grayagain, gcstate, lists, unswept, groots,
                 running, control>>

XMove(th, v) ==
  /\ MutatorRuns
  /\ th \in (Threads \cap Stack) \ {running}
  /\ v \in Stack \ refs[th]
  /\ HasRoom(th)
  /\ refs' = [refs EXCEPT ![running] = @ \ {v}, ![th] = @ \cup {v}]
  /\ UNCHANGED <<mark, curw, gray, grayagain, gcstate, lists, unswept, groots,
                 running, control>>

(* Resuming a coroutine of one's stack, and yielding all the way back.     *)
(* Returning from a nested resume is a yield to Main and a resume.         *)
Switch(th) ==
  /\ MutatorRuns
  /\ th \in ((Threads \cap Stack) \cup {Main}) \ {running}
  /\ running' = th
  /\ UNCHANGED <<mark, refs, curw, gray, grayagain, gcstate, lists, unswept, groots,
                 control>>

(* lua_setmetatable of a type that has one metatable for all its values    *)
SetTypeMetatable(t) ==
  /\ MutatorRuns
  /\ "basic" \in Program
  /\ t \in (Tables \cap Stack) \ groots
  /\ groots' = groots \cup {t}
  /\ UNCHANGED <<mark, refs, curw, gray, grayagain, gcstate, lists, unswept, running,
                 control>>

ClearTypeMetatable(t) ==
  /\ MutatorRuns
  /\ t \in groots \ {Registry}
  /\ groots' = groots \ {t}
  /\ UNCHANGED <<mark, refs, curw, gray, grayagain, gcstate, lists, unswept, running,
                 control>>

(* sweeptolive: frees the dead objects before the first live one of S and  *)
(* sweeps that one.  The possible outcomes, as <<freed, whitened>>.        *)
SweptToLive(S, m) ==
  LET dead == {o \in S : m[o] = Other(curw)}
  IN  {<<F, {l}>> : F \in SUBSET dead, l \in S \ dead}
        \cup (IF S \subseteq dead THEN {<<S, {}>>} ELSE {})

MarkAfterSweep(m, freed, whitened, w) ==
  [o \in Obj |-> IF o \in freed THEN "none" ELSE IF o \in whitened THEN w ELSE m[o]]
RefsAfterSweep(r, freed) == [o \in Obj |-> IF o \in freed THEN {} ELSE r[o]]

CanSetMetatable(o, mt) ==
  /\ MutatorRuns
  /\ o \in (Tables \cup Closures) \cap (Stack \cup groots)
  /\ mt \in Tables \cap Stack
  /\ HasRoom(o) \/ mt \in refs[o]

(* lua_setmetatable when luaC_checkfinalizer returns at once: no __gc in   *)
(* mt, or o is already marked for finalization, or the state is closing.   *)
SetMetatable(o, mt) ==
  /\ CanSetMetatable(o, mt)
  /\ refs' = [refs EXCEPT ![o] = @ \cup {mt}]
  /\ mark' = MarkAfterForward(o, mt)
  /\ gray' = GrayAfterForward(o, mt)
  /\ UNCHANGED <<curw, grayagain, gcstate, lists, unswept, groots, running, control>>

(* What luaC_checkfinalizer does to the sweep that is going on.  In        *)
(* swpallgc g->sweepgc may be the 'next' field of o and is moved on; in    *)
(* swpfinobj it may be the header of finobj, before which o is linked.     *)
SweepMovedOn(o, m) ==
  {<<{}, {}>>} \cup
  (IF gcstate = "swpallgc" /\ o \notin unswept /\ unswept # {}
     THEN SweptToLive(unswept, m) ELSE {})
UnsweptAfterLink(o) ==
  IF gcstate = "swpfinobj" /\ unswept = finobj THEN {unswept, unswept \cup {o}}
  ELSE {unswept \ {o}}

(* lua_setmetatable with a metatable that has a __gc field *)
SetFinalizer(o, mt) ==
  /\ CanSetMetatable(o, mt)
  /\ "gc" \in Program
  /\ o \in allgc
  /\ closing = "open"
  /\ LET m == IF IsSweepPhase THEN [MarkAfterForward(o, mt) EXCEPT ![o] = curw]
              ELSE MarkAfterForward(o, mt)
     IN  \E s \in SweepMovedOn(o, m), u \in UnsweptAfterLink(o) :
           /\ mark' = MarkAfterSweep(m, s[1], s[2], curw)
           /\ refs' = RefsAfterSweep([refs EXCEPT ![o] = @ \cup {mt}], s[1])
           /\ unswept' = u \ (s[1] \cup s[2])
           /\ allgc' = allgc \ ({o} \cup s[1])
  /\ finobj' = finobj \cup {o}
  /\ gray' = GrayAfterForward(o, mt)
  /\ UNCHANGED <<curw, grayagain, gcstate, tobefnz, groots, running, control>>

-----------------------------------------------------------------------------
(* Who runs the collector: an incremental step, or the luaC_runtilstate    *)
(* loop of a full collection until the state that loop waits for.          *)

Loop == IF emergencygc # "none" THEN emergencygc ELSE fullgc
LoopDone == Loop # "none" /\ gcstate = (IF Loop = "cycle" THEN "callfin" ELSE "pause")
CollectorIdle ==
  \/ emergencygc # "none"
  \/ fin = "idle" /\ closing = "open"
CollectorRuns == CollectorIdle /\ ~LoopDone

NextLoop(l) == IF l = "abort" THEN "cycle" ELSE IF l = "cycle" THEN "finish" ELSE "none"

(* fullinc reaches the end of one of its three luaC_runtilstate calls *)
FullNext ==
  /\ CollectorIdle /\ LoopDone
  /\ IF emergencygc # "none"
       THEN emergencygc' = NextLoop(emergencygc) /\ UNCHANGED fullgc
       ELSE fullgc' = NextLoop(fullgc) /\ UNCHANGED emergencygc
  /\ UNCHANGED <<mark, refs, curw, gray, grayagain, gcstate, lists, unswept, groots,
                 running, fin, closing>>

(* fullinc: when there may be black objects, sweep everything back to      *)
(* white; the colour does not flip and the gray lists stay as they are.    *)
EnterFull ==
  /\ IF KeepInvariant
       THEN \E s \in SweptToLive(allgc, mark) :
              /\ mark' = MarkAfterSweep(mark, s[1], s[2], curw)
              /\ refs' = RefsAfterSweep(refs, s[1])
              /\ allgc' = allgc \ s[1]
              /\ unswept' = allgc \ (s[1] \cup s[2])
              /\ gcstate' = "swpallgc"
       ELSE UNCHANGED <<mark, refs, allgc, unswept, gcstate>>
  /\ UNCHANGED <<curw, gray, grayagain, finobj, tobefnz, groots, running, fin, closing>>

(* collectgarbage("collect"); lua_gc returns -1 inside a finalizer *)
StartFull ==
  /\ MutatorRuns
  /\ "collect" \in Program
  /\ fin = "idle"
  /\ fullgc' = "abort"
  /\ UNCHANGED emergencygc
  /\ EnterFull

(* An allocation of the mutator fails and tryagain collects.  LuaSweep   *)
(* shows what happens in the one state left out here: a finalizer called   *)
(* by lua_close while tobefnz is being swept.                              *)
StartEmergency ==
  /\ MutatorRuns
  /\ "nomem" \in Program
  /\ ~(closing = "closing" /\ gcstate = "swptobefnz")
  /\ emergencygc' = "abort"
  /\ UNCHANGED fullgc
  /\ EnterFull

-----------------------------------------------------------------------------
(* The steps of the collector (singlestep). *)

RestartCollection ==
  /\ CollectorRuns
  /\ gcstate = "pause"
  /\ gcstate' = "propagate"
  /\ mark' = MarkedBy({Main} \cup groots \cup tobefnz, mark)
  /\ gray' = GrayedBy({Main} \cup groots \cup tobefnz, mark)
  /\ grayagain' = {}
  /\ UNCHANGED <<refs, curw, lists, unswept, groots, running, control>>

(* One gray object is visited; a thread stays gray and goes to 'grayagain'. *)
VisitedColor_Black(o) == "black"         \* mutant: a thread like all others
VisitedColor(o) == IF o \in Threads THEN "gray" ELSE "black"
VisitAgain(o) == IF o \in Threads THEN grayagain \cup {o} ELSE grayagain

PropagateMark(o) ==
  /\ CollectorRuns
  /\ gcstate = "propagate"
  /\ o \in gray
  /\ mark' = [MarkedBy(refs[o], mark) EXCEPT ![o] = VisitedColor(o)]
  /\ gray' = (gray \ {o}) \cup GrayedBy(refs[o], mark)
  /\ grayagain' = VisitAgain(o)
  /\ UNCHANGED <<refs, curw, gcstate, lists, unswept, groots, running, control>>

EnterAtomic ==
  /\ CollectorRuns
  /\ gcstate = "propagate"
  /\ gray = {}
  /\ gcstate' = "enteratomic"
  /\ UNCHANGED <<mark, refs, curw, gray, grayagain, lists, unswept, groots, running,
                 control>>

(* propagateall: everything visited from the objects of S.  An object that *)
(* is found black was visited before and is not entered again.             *)
ClosedUnderVisit(S) == \A x \in S : \A y \in refs[x] : White(y) => y \in S
Visited(S) == {o \in Obj : \A T \in SUBSET Obj :
                             (S \subseteq T /\ ClosedUnderVisit(T)) => o \in T}

AtomicSeeds_ListsOnly == gray \cup grayagain   \* mutant: roots not marked again
AtomicSeeds == gray \cup grayagain \cup {o \in {running} \cup groots : White(o)}
Strong == Visited(AtomicSeeds)
(* separatetobefnz: the objects with a finalizer that nothing marked *)
Separated == {o \in finobj : White(o) /\ o \notin Strong}
Resurrected_Not == Strong   \* mutant: what waits for its finalizer is not marked
Resurrected == Visited(AtomicSeeds \cup Separated \cup {o \in tobefnz : White(o)})

NextWhite_Same == curw      \* mutant: the white does not flip
NextWhite == Other(curw)

(* atomic and entersweep: the marks are finished, the white flips, and the *)
(* sweep pointer is moved to a live object of allgc.                       *)
Atomic ==
  /\ CollectorRuns
  /\ gcstate = "enteratomic"
  /\ finobj' = finobj \ Separated
  /\ tobefnz' = tobefnz \cup Separated
  /\ curw' = NextWhite
  /\ gray' = {} /\ grayagain' = {}
  /\ LET m    == [o \in Obj |-> IF o \in Resurrected THEN "black" ELSE mark[o]]
         dead == {o \in allgc : m[o] = Other(NextWhite)}
     IN  \E F \in SUBSET dead, l \in allgc \ dead :
           /\ mark' = MarkAfterSweep(m, F, {l}, NextWhite)
           /\ refs' = RefsAfterSweep(refs, F)
           /\ allgc' = allgc \ F
           /\ unswept' = allgc \ (F \cup {l})
  /\ gcstate' = "swpallgc"
  /\ UNCHANGED <<groots, running, control>>

(* One object is swept: freed when it has the other white, else whitened.  *)
SweepOne(o) ==
  /\ CollectorRuns
  /\ gcstate \in {"swpallgc", "swpfinobj", "swptobefnz"}
  /\ o \in unswept
  /\ LET F == {o} \cap Dead
     IN  /\ mark' = MarkAfterSweep(mark, F, {o} \ F, curw)
         /\ refs' = RefsAfterSweep(refs, F)
         /\ allgc' = allgc \ F /\ finobj' = finobj \ F /\ tobefnz' = tobefnz \ F
  /\ unswept' = unswept \ {o}
  /\ UNCHANGED <<curw, gray, grayagain, gcstate, groots, running, control>>

SweepNext_SkipsTobefnz ==   \* mutant: one list less is swept
  /\ CollectorRuns /\ unswept = {}
  /\ \/ gcstate = "swpallgc"  /\ gcstate' = "swpfinobj" /\ unswept' = finobj
     \/ gcstate = "swpfinobj" /\ gcstate' = "swpend"    /\ unswept' = {}
     \/ gcstate = "swpend"    /\ gcstate' = "callfin"   /\ unswept' = {}
  /\ UNCHANGED <<mark, refs, curw, gray, grayagain, lists, groots, running, control>>
SweepNext ==
  /\ CollectorRuns
  /\ unswept = {}
  /\ \/ gcstate = "swpallgc"   /\ gcstate' = "swpfinobj"  /\ unswept' = finobj
     \/ gcstate = "swpfinobj"  /\ gcstate' = "swptobefnz" /\ unswept' = tobefnz
     \/ gcstate = "swptobefnz" /\ gcstate' = "swpend"     /\ unswept' = {}
     \/ gcstate = "swpend"     /\ gcstate' = "callfin"    /\ unswept' = {}
  /\ UNCHANGED <<mark, refs, curw, gray, grayagain, lists, groots, running, control>>

(* The end of a cycle; an emergency leaves the finalizers for later. *)
FinishCycle ==
  /\ CollectorRuns
  /\ gcstate = "callfin"
  /\ tobefnz = {} \/ emergencygc # "none"
  /\ gcstate' = "pause"
  /\ UNCHANGED <<mark, refs, curw, gray, grayagain, lists, unswept, groots, running,
                 control>>

-----------------------------------------------------------------------------
(* Finalizers. *)

(* GCTM: o goes back to allgc; its finalizer, if its metatable still has   *)
(* one, runs with o on the stack.  Only lua_close gets here in the middle  *)
(* of a sweep: then g->sweepgc may be a field of o, which takes it to      *)
(* allgc, where everything has been swept.                                 *)
LeavesToBeFnz_Not(o) == tobefnz          \* mutant: linked in allgc only
LeavesToBeFnz(o) == tobefnz \ {o}

GCTM(o) ==
  /\ o \in tobefnz
  /\ tobefnz' = LeavesToBeFnz(o)
  /\ allgc' = allgc \cup {o}
  /\ mark' = IF IsSweepPhase THEN [mark EXCEPT ![o] = curw] ELSE mark
  /\ unswept' \in {unswept \ {o}} \cup (IF gcstate = "swpfinobj" THEN {{}} ELSE {})
  /\ \/ fin' = "batch" /\ UNCHANGED refs
     \/ fin' = "user" /\ Push(o)
  /\ UNCHANGED <<curw, gray, grayagain, gcstate, finobj, groots, running, fullgc,
                 emergencygc, closing>>

(* the first finalizer of a batch of the collector, and a further one of a *)
(* batch or of lua_close                                                   *)
CallFin(o) == CollectorRuns /\ gcstate = "callfin" /\ emergencygc = "none" /\ GCTM(o)
CallNextFin(o) == fin = "batch" /\ emergencygc = "none" /\ GCTM(o)

FinReturn ==
  /\ fin = "user" /\ emergencygc = "none"
  /\ fin' = "batch"
  /\ UNCHANGED <<mark, refs, curw, gray, grayagain, gcstate, lists, unswept, groots,
                 running, fullgc, emergencygc, closing>>

(* runafewfinalizers has called GCFINMAX finalizers or emptied tobefnz *)
BatchDone ==
  /\ fin = "batch" /\ closing = "open" /\ emergencygc = "none"
  /\ fin' = "idle"
  /\ UNCHANGED <<mark, refs, curw, gray, grayagain, gcstate, lists, unswept, groots,
                 running, fullgc, emergencygc, closing>>

-----------------------------------------------------------------------------
(* lua_close: the stack of the main thread is emptied and every object     *)
(* with a finalizer is finalized, reachable or not.  A sweep of finobj     *)
(* that is going on continues in tobefnz or, from the header, ends.        *)
Close ==
  /\ MutatorRuns
  /\ "close" \in Program
  /\ fin = "idle"
  /\ closing' = "closing" /\ fin' = "batch"
  /\ running' = Main
  /\ refs' = [refs EXCEPT ![Main] = {}]
  /\ tobefnz' = tobefnz \cup finobj
  /\ finobj' = {}
  /\ unswept' \in {unswept} \cup (IF gcstate = "swpfinobj" THEN {{}} ELSE {})
  /\ UNCHANGED <<mark, curw, gray, grayagain, gcstate, allgc, groots, fullgc,
                 emergencygc>>

(* deletelist of allgc up to the main thread, which ends the state *)
FreeAllObjects ==
  /\ closing = "closing" /\ fin = "batch" /\ emergencygc = "none"
  /\ tobefnz = {}
  /\ closing' = "closed" /\ fin' = "idle"
  /\ mark' = [o \in Obj |-> IF o = Main THEN curw ELSE "none"]
  /\ refs' = [o \in Obj |-> {}]
  /\ allgc' = {Main} /\ groots' = {} /\ unswept' = {}
  /\ gray' = {} /\ grayagain' = {} /\ gcstate' = "pause"
  /\ running' = Main
  /\ UNCHANGED <<curw, finobj, tobefnz, fullgc, emergencygc>>

-----------------------------------------------------------------------------
MutatorStep ==
  \/ \E o \in Obj : New(o) \/ Pop(o)
  \/ \E x, v \in Obj : Load(x, v) \/ Erase(x, v)
  \/ \E x, v \in Obj : StoreInTable(x, v) \/ StoreInClosure(x, v) \/ XMove(x, v)
  \/ \E th \in Threads : Switch(th)
  \/ \E t \in Tables : SetTypeMetatable(t) \/ ClearTypeMetatable(t)
  \/ \E o, mt \in Obj : SetMetatable(o, mt) \/ SetFinalizer(o, mt)
  \/ StartFull \/ StartEmergency \/ Close

CollectorStep ==
  \/ FullNext \/ RestartCollection \/ EnterAtomic \/ Atomic
  \/ \E o \in Obj : PropagateMark(o) \/ SweepOne(o)
  \/ SweepNext \/ FinishCycle
  \/ \E o \in Obj : CallFin(o) \/ CallNextFin(o)
  \/ FinReturn \/ BatchDone \/ FreeAllObjects

Next == MutatorStep \/ CollectorStep

Spec == Init /\ [][Next]_vars

(* The collector is driven by allocation: a program that goes on allocating *)
(* gives it steps again and again, and its finalizers return.               *)
FairSpec == Spec /\ WF_vars(CollectorStep)

-----------------------------------------------------------------------------
(* Properties. *)

(* Every variable has its type; an object is allocated exactly when it is  *)
(* in one of the three lists, and it is in one list only.                  *)
TypeOK ==
  /\ mark \in [Obj -> Whites \cup {"none", "gray", "black"}]
  /\ refs \in [Obj -> SUBSET Obj]
  /\ curw \in Whites
  /\ gray \subseteq Obj \ Strings /\ grayagain \subseteq Tables \cup Threads
  /\ gcstate \in {"pause", "propagate", "enteratomic", "swpallgc", "swpfinobj",
                  "swptobefnz", "swpend", "callfin"}
  /\ allgc \subseteq Obj /\ finobj \subseteq Obj /\ tobefnz \subseteq Obj
  /\ unswept \subseteq Obj /\ groots \subseteq Tables /\ running \in Threads
  /\ fin \in {"idle", "batch", "user"}
  /\ fullgc \in Loops /\ emergencygc \in Loops
  /\ closing \in {"open", "closing", "closed"}
  /\ Heap = {o \in Obj : mark[o] # "none"}
  /\ allgc \cap finobj = {} /\ allgc \cap tobefnz = {} /\ finobj \cap tobefnz = {}

(* What the program can still reach, or a finalizer to come will be given. *)
Closed(S) == \A x \in S : refs[x] \subseteq S
Reach(S) == {o \in Obj : \A T \in SUBSET Obj : (S \subseteq T /\ Closed(T)) => o \in T}
Needed == Reach(Roots \cup finobj \cup tobefnz)

(* Nothing the program can reach, and nothing that waits for its finalizer *)
(* or is reachable from an object that does, is ever freed, whatever the   *)
(* order of stores, barriers, collector steps, finalizers and emergency    *)
(* collections (the purpose of the barriers and of 'atomic').              *)
ReachableAllocated == Needed \subseteq Heap

(* lgc.h: "a black object can never point to a white one" while the        *)
(* invariant is kept, in the face of stores between any two visits.        *)
BlackNeverPointsToWhite ==
  KeepInvariant => \A o \in Heap : Black(o) => \A v \in refs[o] : ~White(v)

(* lgc.h: "any gray object must be in a gray list", so that it is visited  *)
(* again before the cycle finishes; and nothing else is there, and nothing *)
(* is in both, for the lists share one link field (assertion of            *)
(* linkgclist_).                                                           *)
GrayIsListed ==
  KeepInvariant =>
    /\ {o \in Obj : mark[o] = "gray"} = gray \cup grayagain
    /\ gray \cap grayagain = {}

(* lgc.h: the invariant broken by the sweep "is restored when sweep ends   *)
(* and all objects are white again": nothing is left black, gray or dead   *)
(* between the sweep and the next cycle, also when emergency collections   *)
(* and finalizers come between.                                            *)
AllWhiteBetweenCycles ==
  gcstate \in {"swpend", "callfin", "pause"} => \A o \in Heap : mark[o] = curw

(* An object that the sweep frees has no finalizer to be called any more:  *)
(* it never goes directly from finobj or tobefnz to the allocator.         *)
FinalizedBeforeFreed ==
  [][\A o \in finobj \cup tobefnz : o \in Heap']_vars

(* The collector frees an object only if the program could not reach it at *)
(* that step (finalization of everything by lua_close apart).              *)
FreesOnlyGarbage ==
  [][closing' # "closed" => \A o \in Heap \ Heap' : o \notin Needed]_vars

-----------------------------------------------------------------------------
(* The inductive invariant, in its parts. *)

Live == Heap \ Dead

(* What is not dead refers only to what is not dead: the dead objects that *)
(* the sweep has yet to reach are out of everybody's reach.                *)
LiveIsClosed ==
  /\ Roots \cup finobj \cup tobefnz \subseteq Live
  /\ \A o \in Live : refs[o] \subseteq Live
  /\ \A o \in Obj : mark[o] = "none" \/ o \in Strings => refs[o] = {}
  /\ Main \in allgc

(* While marking: one white only, threads are visited again in 'atomic'.   *)
Marking ==
  KeepInvariant =>
    /\ Dead = {}
    /\ ~White(Main)
    /\ \A th \in Threads : ~Black(th)

(* While sweeping: what the sweep has passed has the current white, and    *)
(* only what is left of allgc can be dead.                                 *)
Pending ==
  (IF gcstate \in {"swpallgc", "swpfinobj", "swptobefnz"} THEN unswept ELSE {})
    \cup (IF gcstate = "swpallgc" THEN finobj ELSE {})
    \cup (IF gcstate \in {"swpallgc", "swpfinobj"} THEN tobefnz ELSE {})
Sweeping ==
  /\ ~KeepInvariant => \A o \in Heap \ Pending : mark[o] = curw
  /\ Dead # {} => gcstate = "swpallgc"
  /\ Dead \subseteq unswept
  /\ gcstate = "swpallgc" => unswept \subseteq allgc
  /\ gcstate = "swpfinobj" => unswept \subseteq finobj \cup tobefnz
  /\ gcstate = "swptobefnz" => unswept \subseteq tobefnz

(* Who can be where: finalizers run between cycles or in lua_close.        *)
Control ==
  /\ closing = "open" /\ fin # "idle" /\ emergencygc = "none"
       => gcstate \in {"callfin", "pause"}
  /\ closing = "closing" => fin # "idle" /\ finobj = {}
  /\ emergencygc # "none" => fin # "batch" /\ closing # "closed"
  /\ closing # "open" => fullgc = "none"
  /\ closing = "closed" => fin = "idle"

IndInv ==
  /\ TypeOK /\ LiveIsClosed /\ Marking /\ Sweeping /\ Control
  /\ BlackNeverPointsToWhite /\ GrayIsListed

(* Floating garbage does not float for ever: an object that nothing needs  *)
(* is freed although the program goes on allocating, storing, collecting   *)
(* and failing to allocate.                                                *)
GarbageIsFreed ==
  \A o \in Obj : (o \in Heap \ Needed) ~> (o \notin Heap \/ closing = "closed")
=============================================================================
