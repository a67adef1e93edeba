------------------------------- MODULE LuaSweep -------------------------------
(***************************************************************************)
(* The lists of the Lua 5.4.6 collector (tar/lua-5.4.6/src/lgc.c): every   *)
(* object is linked by its 'next' field into allgc, finobj or tobefnz, and *)
(* g->sweepgc is the address of a list header or of a 'next' field, which  *)
(* the sweep follows a few objects at a time while the program allocates,  *)
(* marks objects for finalization, runs finalizers and closes the state.   *)
(*                                                                         *)
(* Marking itself is LuaGC's subject: here any object may be marked before *)
(* 'atomic' ends, and a marked one is "black" whatever its shade.          *)
(***************************************************************************)
EXTENDS Naturals, Lists

CONSTANTS
  Objects,     \* the collectable objects but the main thread
  MainThread,  \* the last object of allgc, always alive
  GCSWEEPMAX,  \* objects swept in a single step
  GCFINMAX,    \* finalizers called in a single step
  NoMemory     \* when an allocation may fail: "never", "open", "always"

(* the addresses g->sweepgc can have outside the objects *)
Headers == {"allgc", "finobj", "tobefnz"}

ASSUME SweepAssumption ==
  /\ MainThread \notin Objects
  /\ (Objects \cup {MainThread}) \cap (Headers \cup {"NULL"}) = {}
  /\ GCSWEEPMAX \in Nat \ {0}
  /\ GCFINMAX \in Nat \ {0}
  /\ NoMemory \in {"never", "open", "always"}

Obj == Objects \cup {MainThread}

VARIABLES
  color,    \* "free"; "white" and "other": the current white and the other
            \* one; "black": marked
  allgc, finobj, tobefnz,  \* the lists
  sweepgc,  \* "NULL", the name of a header, or an object: its 'next' field
  gcstate,
  fin,      \* "idle"; "batch" between two finalizers; "user" in one
  called,   \* finalizers called in this batch
  fullgc, emergencygc,  \* the loops of fullinc (see LuaGC)
  closing   \* "open", "closing", "closed"

lists == <<allgc, finobj, tobefnz>>
loops == <<fullgc, emergencygc>>
vars  == <<color, lists, sweepgc, gcstate, fin, called, loops, closing>>

IsSweepPhase == gcstate \in {"swpallgc", "swpfinobj", "swptobefnz", "swpend"}
KeepInvariant == gcstate \in {"propagate", "enteratomic"}

Init ==
  /\ color = [o \in Obj |-> IF o = MainThread THEN "white" ELSE "free"]
  /\ allgc = <<MainThread>> /\ finobj = <<>> /\ tobefnz = <<>>
  /\ sweepgc = "NULL" /\ gcstate = "pause"
  /\ fin = "idle" /\ called = 0
  /\ fullgc = "none" /\ emergencygc = "none" /\ closing = "open"

-----------------------------------------------------------------------------
(* Pointers into the lists.                                                *)

Place(list, o) == CHOOSE k \in 1..Len(list) : list[k] = o
After(list, o) == SubSeq(list, Place(list, o) + 1, Len(list))
Holding(o) == CHOOSE list \in {allgc, finobj, tobefnz} : Contains(list, o)

(* the objects from the one pointer p refers to up to the end of its list *)
Rest(p) ==
  CASE p = "NULL"    -> <<>>
    [] p = "allgc"   -> allgc
    [] p = "finobj"  -> finobj
    [] p = "tobefnz" -> tobefnz
    [] OTHER         -> After(Holding(p), p)

DeadIn(list, c) == {o \in ToSet(list) : c[o] = "other"}

(* What a traversal of the objects 'seen', the first ones from p, does.    *)
Freed(seen, c) == DeadIn(seen, c)
Swept(seen, c) ==
  [o \in Obj |-> IF o \notin ToSet(seen) THEN c[o]
                 ELSE IF c[o] = "other" THEN "free" ELSE "white"]
Pointer_SkipsOne(p, seen, c) ==  \* mutant: past the next object
  IF Len(seen) = Len(Rest(p)) THEN "NULL" ELSE Rest(p)[Len(seen) + 1]
Pointer(p, seen, c) ==
  IF Len(seen) = Len(Rest(p)) THEN "NULL"
  ELSE IF ToSet(seen) = DeadIn(seen, c) THEN p ELSE Last(Without(seen, DeadIn(seen, c)))

(* The objects sweeplist traverses, and those sweeptolive does.            *)
SweepListSees(p) == SubSeq(Rest(p), 1, Min({GCSWEEPMAX, Len(Rest(p))}))
SweepToLiveSees(p, c) ==
  LET live == {k \in 1..Len(Rest(p)) : c[Rest(p)[k]] # "other"}
  IN  IF live = {} THEN Rest(p) ELSE SubSeq(Rest(p), 1, Min(live))

-----------------------------------------------------------------------------
(* The program. *)

MutatorRuns ==
  /\ emergencygc = "none"
  /\ \/ fin = "user"
     \/ fin = "idle" /\ fullgc = "none" /\ closing = "open"

New(o) ==
  /\ MutatorRuns
  /\ color[o] = "free"
  /\ color' = [color EXCEPT ![o] = "white"]
  /\ allgc' = <<o>> \o allgc
  /\ UNCHANGED <<finobj, tobefnz, sweepgc, gcstate, fin, called, loops, closing>>

(* luaC_checkfinalizer: o goes to finobj.  If g->sweepgc is the 'next'     *)
(* field of o it is moved on before o leaves the list.                     *)
MovedOn_Never(o, c) == <<>>          \* mutant: the pointer is left in o
MovedOn(o, c) ==
  IF IsSweepPhase /\ sweepgc = o THEN SweepToLiveSees(sweepgc, c) ELSE <<>>

Registered_Last(o) == Append(finobj, o)   \* mutant: linked at the wrong end
Registered(o) == <<o>> \o finobj

CheckFinalizer(o) ==
  /\ MutatorRuns
  /\ closing = "open"
  /\ o \in ToSet(allgc) \ {MainThread}
  /\ color[o] # "other"
  /\ LET c    == IF IsSweepPhase THEN [color EXCEPT ![o] = "white"] ELSE color
         seen == MovedOn(o, c)
     IN  /\ color' = Swept(seen, c)
         /\ allgc' = Without(allgc, {o} \cup Freed(seen, c))
         /\ sweepgc' = IF seen = <<>> THEN sweepgc ELSE Pointer(sweepgc, seen, c)
  /\ finobj' = Registered(o)
  /\ UNCHANGED <<tobefnz, gcstate, fin, called, loops, closing>>

(* a forward barrier during the sweep *)
BarrierWhitens(o) ==
  /\ MutatorRuns
  /\ IsSweepPhase
  /\ color[o] = "black"
  /\ color' = [color EXCEPT ![o] = "white"]
  /\ UNCHANGED <<lists, sweepgc, gcstate, fin, called, loops, closing>>

-----------------------------------------------------------------------------
(* Full collections. *)

Loop == IF emergencygc # "none" THEN emergencygc ELSE fullgc
LoopDone == Loop # "none" /\ gcstate = (IF Loop = "cycle" THEN "callfin" ELSE "pause")
CollectorIdle == emergencygc # "none" \/ (fin = "idle" /\ closing = "open")
CollectorRuns == CollectorIdle /\ ~LoopDone

NextLoop(l) == IF l = "abort" THEN "cycle" ELSE IF l = "cycle" THEN "finish" ELSE "none"

FullNext ==
  /\ CollectorIdle /\ LoopDone
  /\ IF emergencygc # "none"
       THEN emergencygc' = NextLoop(emergencygc) /\ UNCHANGED fullgc
       ELSE fullgc' = NextLoop(fullgc) /\ UNCHANGED emergencygc
  /\ UNCHANGED <<color, lists, sweepgc, gcstate, fin, called, closing>>

(* entersweep, with the colours c left by what comes before it *)
EnterSweep(c) ==
  LET seen == SweepToLiveSees("allgc", c)
  IN  /\ color' = Swept(seen, c)
      /\ allgc' = Without(allgc, Freed(seen, c))
      /\ sweepgc' = Pointer("allgc", seen, c)
      /\ gcstate' = "swpallgc"

EnterFull ==
  /\ IF KeepInvariant
       THEN EnterSweep(color)
       ELSE UNCHANGED <<color, allgc, sweepgc, gcstate>>
  /\ UNCHANGED <<finobj, tobefnz, fin, called, closing>>

StartFull ==
  /\ MutatorRuns /\ fin = "idle"
  /\ fullgc' = "abort" /\ UNCHANGED emergencygc
  /\ EnterFull

StartEmergency ==
  /\ MutatorRuns
  /\ NoMemory = "always" \/ (NoMemory = "open" /\ closing = "open")
  /\ emergencygc' = "abort" /\ UNCHANGED fullgc
  /\ EnterFull

-----------------------------------------------------------------------------
(* The steps of the collector. *)

RestartCollection ==
  /\ CollectorRuns
  /\ gcstate = "pause"
  /\ gcstate' = "propagate"
  /\ color' = [o \in Obj |-> IF o = MainThread \/ o \in ToSet(tobefnz) THEN "black" ELSE color[o]]
  /\ UNCHANGED <<lists, sweepgc, fin, called, loops, closing>>

Mark(o) ==
  /\ CollectorRuns
  /\ gcstate = "propagate"
  /\ color[o] = "white"
  /\ color' = [color EXCEPT ![o] = "black"]
  /\ UNCHANGED <<lists, sweepgc, gcstate, fin, called, loops, closing>>

EnterAtomic ==
  /\ CollectorRuns
  /\ gcstate = "propagate"
  /\ gcstate' = "enteratomic"
  /\ UNCHANGED <<color, lists, sweepgc, fin, called, loops, closing>>

(* separatetobefnz finds the end of tobefnz first *)
AddedToBeFnz(moved) == tobefnz \o moved

(* atomic: the objects of 'late' are marked too; separatetobefnz moves the *)
(* unmarked ones of finobj to the end of tobefnz; those and the 'saved'    *)
(* ones they reach are marked; the white flips; the sweep starts.          *)
Atomic(late, saved) ==
  /\ CollectorRuns
  /\ gcstate = "enteratomic"
  /\ LET dead    == {x \in ToSet(finobj) : color[x] = "white" /\ x \notin late}
         black   == late \cup saved \cup dead \cup ToSet(tobefnz)
         flipped == [o \in Obj |-> IF o \in black THEN "black"
                                   ELSE IF color[o] = "white" THEN "other" ELSE color[o]]
     IN  /\ tobefnz' = AddedToBeFnz(Kept(finobj, dead))
         /\ finobj' = Without(finobj, dead)
         /\ EnterSweep(flipped)
  /\ UNCHANGED <<fin, called, loops, closing>>

NextSweep_SkipsTobefnz ==  \* mutant
  IF gcstate = "swpallgc" THEN <<"swpfinobj", "finobj">> ELSE <<"swpend", "NULL">>
NextSweep ==
  CASE gcstate = "swpallgc"   -> <<"swpfinobj", "finobj">>
    [] gcstate = "swpfinobj"  -> <<"swptobefnz", "tobefnz">>
    [] gcstate = "swptobefnz" -> <<"swpend", "NULL">>

SweepStep ==
  /\ CollectorRuns
  /\ gcstate \in {"swpallgc", "swpfinobj", "swptobefnz"}
  /\ IF sweepgc # "NULL"
       THEN LET seen == SweepListSees(sweepgc)
                dead == Freed(seen, color)
            IN  /\ color' = Swept(seen, color)
                /\ sweepgc' = Pointer(sweepgc, seen, color)
                /\ allgc' = Without(allgc, dead)
                /\ finobj' = Without(finobj, dead)
                /\ tobefnz' = Without(tobefnz, dead)
                /\ UNCHANGED gcstate
       ELSE /\ gcstate' = NextSweep[1] /\ sweepgc' = NextSweep[2]
            /\ UNCHANGED <<color, lists>>
  /\ UNCHANGED <<fin, called, loops, closing>>

SweepEnd ==
  /\ CollectorRuns
  /\ gcstate = "swpend"
  /\ gcstate' = "callfin"
  /\ UNCHANGED <<color, lists, sweepgc, fin, called, loops, closing>>

MayPause_Always == TRUE              \* mutant: whatever tobefnz holds
MayPause == tobefnz = <<>> \/ emergencygc # "none"

FinishCycle ==
  /\ CollectorRuns
  /\ gcstate = "callfin"
  /\ MayPause
  /\ gcstate' = "pause"
  /\ UNCHANGED <<color, lists, sweepgc, fin, called, loops, closing>>

-----------------------------------------------------------------------------
(* Finalizers and the end. *)

(* GCTM: the first object of tobefnz goes to the head of allgc; nothing    *)
(* looks whether g->sweepgc is its 'next' field.                           *)
Udata2Finalize ==
  /\ tobefnz' = Tail(tobefnz)
  /\ allgc' = <<Head(tobefnz)>> \o allgc
  /\ color' = IF IsSweepPhase THEN [color EXCEPT ![Head(tobefnz)] = "white"] ELSE color

GCTM ==
  /\ tobefnz # <<>>
  /\ Udata2Finalize
  /\ fin' \in {"batch", "user"}
  /\ UNCHANGED <<finobj, sweepgc, gcstate, loops, closing>>

CallFin ==
  /\ CollectorRuns /\ gcstate = "callfin" /\ emergencygc = "none"
  /\ GCTM
  /\ called' = 1

CallNextFin ==
  /\ fin = "batch"
  /\ GCTM
  /\ IF closing = "open" THEN called < GCFINMAX /\ called' = called + 1 ELSE UNCHANGED called

FinReturn ==
  /\ fin = "user" /\ emergencygc = "none"
  /\ fin' = "batch"
  /\ UNCHANGED <<color, lists, sweepgc, gcstate, called, loops, closing>>

BatchDone ==
  /\ fin = "batch" /\ closing = "open"
  /\ called = GCFINMAX \/ tobefnz = <<>>
  /\ fin' = "idle" /\ called' = 0
  /\ UNCHANGED <<color, lists, sweepgc, gcstate, loops, closing>>

(* lua_close: separatetobefnz of all, callallpendingfinalizers, deletelist *)
Close ==
  /\ MutatorRuns /\ fin = "idle"
  /\ closing' = "closing" /\ fin' = "batch"
  /\ tobefnz' = AddedToBeFnz(finobj) /\ finobj' = <<>>
  /\ UNCHANGED <<color, allgc, sweepgc, gcstate, called, loops>>

FreeAllObjects ==
  /\ closing = "closing" /\ fin = "batch" /\ tobefnz = <<>>
  /\ closing' = "closed" /\ fin' = "idle"
  /\ color' = [o \in Obj |-> IF o = MainThread THEN "white" ELSE "free"]
  /\ allgc' = <<MainThread>>
  /\ sweepgc' = "NULL" /\ gcstate' = "pause"
  /\ UNCHANGED <<finobj, tobefnz, called, loops>>

Next ==
  \/ \E o \in Objects : New(o) \/ CheckFinalizer(o) \/ BarrierWhitens(o) \/ Mark(o)
  \/ FullNext \/ StartFull \/ StartEmergency
  \/ RestartCollection \/ EnterAtomic
  \/ \E late, saved \in SUBSET {o \in Obj : color[o] = "white"} : Atomic(late, saved)
  \/ SweepStep \/ SweepEnd \/ FinishCycle
  \/ CallFin \/ CallNextFin \/ FinReturn \/ BatchDone
  \/ Close \/ FreeAllObjects

Spec == Init /\ [][Next]_vars

(* The collector is driven by allocation, finalizers return, and marking   *)
(* ends: it cannot be forced to, so Mark is not among the fair steps.      *)
CollectorStep ==
  \/ RestartCollection \/ EnterAtomic \/ SweepStep \/ SweepEnd \/ FinishCycle
  \/ \E late, saved \in SUBSET {o \in Obj : color[o] = "white"} : Atomic(late, saved)
  \/ FullNext \/ CallFin \/ CallNextFin \/ FinReturn \/ BatchDone \/ FreeAllObjects
Fairness == WF_vars(CollectorStep)

-----------------------------------------------------------------------------
(* Properties. *)

(* Every variable has its type, every allocated object is in one list, and *)
(* the main thread is the last one of allgc.                               *)
TypeOK ==
  /\ color \in [Obj -> {"free", "white", "other", "black"}]
  /\ \A list \in {allgc, finobj, tobefnz} : list \in Seq(Obj) /\ IsInjective(list)
  /\ ToSet(allgc) \cap ToSet(finobj) = {}
  /\ (ToSet(allgc) \cup ToSet(finobj)) \cap ToSet(tobefnz) = {}
  /\ ToSet(allgc) \cup ToSet(finobj) \cup ToSet(tobefnz) = {o \in Obj : color[o] # "free"}
  /\ allgc # <<>> /\ Last(allgc) = MainThread
  /\ sweepgc \in {"NULL"} \cup Headers \cup Obj
  /\ called \in 0..GCFINMAX

ListSwept(state) == CASE state = "swpallgc" -> "allgc" [] state = "swpfinobj" -> "finobj"
                   [] OTHER -> "tobefnz"
ListNamed(name) == CASE name = "allgc" -> allgc [] name = "finobj" -> finobj [] OTHER -> tobefnz

(* The sweep pointer never dangles: as long as the state is open it is     *)
(* NULL or an address inside the list that is being swept, although        *)
(* objects are freed, added and moved to another list around it.  (The     *)
(* comment of entersweep: never the header of allgc, so that new objects   *)
(* are not swept; its assertion: NULL when no sweep is going on.)          *)
SweepPointerValid ==
  /\ gcstate \notin {"swpallgc", "swpfinobj", "swptobefnz"} => sweepgc = "NULL"
  /\ closing = "open" /\ sweepgc # "NULL" =>
       \/ sweepgc = ListSwept(gcstate) /\ sweepgc # "allgc"
       \/ sweepgc \in ToSet(ListNamed(ListSwept(gcstate)))

(* Dead objects lie ahead of the sweep pointer in allgc, and nowhere else. *)
DeadAreAhead ==
  \A o \in Obj : color[o] = "other" => gcstate = "swpallgc" /\ o \in ToSet(Rest(sweepgc))

(* lgc.h: "The invariant is restored when sweep ends and all objects are   *)
(* white again."                                                           *)
AllWhiteBetweenCycles ==
  gcstate \in {"swpend", "callfin", "pause"} => \A o \in Obj : color[o] \in {"white", "free"}

(* Objects and their finalizers are treated as Finalization says: the      *)
(* three lists, the sweep pointer that follows them and the emergency      *)
(* collections in between lose no finalizer, call none twice, free nothing *)
(* that waits, and keep the order inside each batch and of the batches.    *)
F == INSTANCE Finalization WITH
       Object <- Obj, plain <- ToSet(allgc) \ {MainThread}, registered <- finobj, pending <- tobefnz
FinalizersInBatches == F!Spec
=============================================================================
