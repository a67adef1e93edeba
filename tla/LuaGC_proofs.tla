--------------------------- MODULE LuaGC_proofs ---------------------------
(* Proofs about LuaGC: IndInv is inductive and implies the safety          *)
(* properties, for every set of objects and every program.                 *)
EXTENDS LuaGC, TLAPS

LEMMA InitInv == Init => IndInv
<1> SUFFICES ASSUME Init PROVE IndInv
  OBVIOUS
<1> USE KindsAssumption
<1>1. TypeOK
  BY DEF Init, TypeOK, Heap, Obj, Whites, Loops
<1>2. LiveIsClosed
  BY DEF Init, LiveIsClosed, Live, Dead, Heap, Obj, Roots, Other
<1>3. Marking /\ BlackNeverPointsToWhite /\ GrayIsListed
  BY DEF Init, Marking, BlackNeverPointsToWhite, GrayIsListed, KeepInvariant
<1>4. Sweeping /\ Control
  BY DEF Init, Sweeping, Control, Dead, Pending, Heap, Other, KeepInvariant, Obj
<1> QED
  BY <1>1, <1>2, <1>3, <1>4 DEF IndInv

LEMMA NewInv ==
  ASSUME IndInv, NEW o \in Obj, New(o)
  PROVE  IndInv'
<1> USE KindsAssumption DEF New, MutatorRuns, Push, control, lists
<1>1. TypeOK'
  BY DEF IndInv, TypeOK, Heap, Whites
<1>2. o \notin Heap /\ Heap' = Heap \cup {o} /\ Dead' = Dead /\ Live' = Live \cup {o}
  BY DEF IndInv, TypeOK, Heap, Dead, Live, Other, Whites
<1>3. refs[o] = {} /\ running \in Live /\ o # running
  BY <1>2 DEF IndInv, LiveIsClosed, Live, Roots
<1>4. LiveIsClosed'
  <2>1. Main \in allgc' /\ (Roots \cup finobj \cup tobefnz \subseteq Live)'
    BY <1>2 DEF IndInv, LiveIsClosed, Roots
  <2>2. \A x \in Live' : refs'[x] \subseteq Live'
    BY <1>2, <1>3 DEF IndInv, LiveIsClosed, TypeOK
  <2>3. \A x \in Obj : mark'[x] = "none" \/ x \in Strings => refs'[x] = {}
    BY <1>1, <1>2, <1>3 DEF IndInv, LiveIsClosed, TypeOK, Live
  <2> QED
    BY <2>1, <2>2, <2>3 DEF LiveIsClosed
<1>5. Marking' /\ GrayIsListed'
  BY <1>2 DEF IndInv, Marking, GrayIsListed, KeepInvariant, TypeOK, White, Black, Whites, Obj, LiveIsClosed, Heap
<1>6. BlackNeverPointsToWhite'
  <2> SUFFICES ASSUME KeepInvariant, NEW x \in Heap', Black(x)', NEW v \in refs'[x]
               PROVE  ~White(v)'
    BY DEF BlackNeverPointsToWhite, KeepInvariant
  <2>1. x # o /\ x # running /\ x \in Live
    BY <1>2 DEF IndInv, Marking, TypeOK, Black, Whites, Live
  <2>2. v \in refs[x] /\ v # o
    BY <2>1, <1>2 DEF IndInv, LiveIsClosed, TypeOK, Live
  <2> QED
    BY <2>1, <2>2 DEF IndInv, BlackNeverPointsToWhite, TypeOK, White, Black, Live
<1>7. Sweeping' /\ Control'
  BY <1>2 DEF IndInv, Sweeping, Control, Pending, KeepInvariant, TypeOK
<1> QED
  BY <1>1, <1>4, <1>5, <1>6, <1>7 DEF IndInv

(* Actions that change only what stacks and tables hold and who runs.      *)
LEMMA RefsInv ==
  ASSUME IndInv,
         UNCHANGED <<mark, curw, gray, grayagain, gcstate, lists, unswept, control>>,
         refs' \in [Obj -> SUBSET Obj],
         \A x \in Live : refs'[x] \subseteq Live,
         \A x \in Obj : refs[x] = {} /\ x \notin Live => refs'[x] = {},
         \A x \in Strings : refs'[x] = {},
         \A x \in Obj : KeepInvariant /\ Black(x) => refs'[x] \subseteq refs[x],
         groots' \subseteq Tables \cap Live,
         running' \in Threads \cap Live
  PROVE  IndInv'
<1> USE KindsAssumption DEF control, lists
<1>1. TypeOK'
  BY DEF IndInv, TypeOK, Heap
<1>2. Live' = Live /\ Heap' = Heap /\ Dead' = Dead
  BY DEF Live, Heap, Dead
<1>3. LiveIsClosed'
  BY <1>2 DEF IndInv, LiveIsClosed, Roots, Live, TypeOK
<1>4. Marking' /\ GrayIsListed'
  BY <1>2 DEF IndInv, Marking, GrayIsListed, KeepInvariant, White, Black
<1>5. BlackNeverPointsToWhite'
  BY <1>2 DEF IndInv, BlackNeverPointsToWhite, KeepInvariant, White, Black, TypeOK
<1>6. Sweeping' /\ Control'
  BY <1>2 DEF IndInv, Sweeping, Control, Pending, KeepInvariant
<1> QED
  BY <1>1, <1>3, <1>4, <1>5, <1>6 DEF IndInv

LEMMA HeldAreLive ==
  ASSUME IndInv
  PROVE  /\ running \in Live \cap Threads
         /\ Main \in Live
         /\ Stack \subseteq Live
         /\ groots \subseteq Live \cap Tables
         /\ \A x \in Stack \cup groots : refs[x] \subseteq Live
         /\ Live \subseteq Obj
         /\ KeepInvariant => ~Black(running)
BY DEF IndInv, LiveIsClosed, Roots, Stack, TypeOK, Live, Marking

LEMMA LoadInv ==
  ASSUME IndInv, NEW x \in Obj, NEW v \in Obj, Load(x, v)
  PROVE  IndInv'
<1> USE KindsAssumption, HeldAreLive DEF Load, Push
<1>1. UNCHANGED <<mark, curw, gray, grayagain, gcstate, lists, unswept, control>>
  OBVIOUS
<1>2. refs' \in [Obj -> SUBSET Obj]
  BY DEF IndInv, TypeOK
<1>3. \A y \in Live : refs'[y] \subseteq Live
  BY DEF IndInv, TypeOK, LiveIsClosed, Stack
<1>4. \A y \in Obj : refs[y] = {} /\ y \notin Live => refs'[y] = {}
  BY DEF IndInv, TypeOK, Stack
<1>5. \A y \in Strings : refs'[y] = {}
  BY DEF IndInv, TypeOK, LiveIsClosed, Stack, Obj
<1>6. \A y \in Obj : KeepInvariant /\ Black(y) => refs'[y] \subseteq refs[y]
  BY DEF IndInv, TypeOK, Marking, Stack
<1>7. groots' \subseteq Tables \cap Live /\ running' \in Threads \cap Live
  BY DEF Stack
<1> QED
  BY <1>1, <1>2, <1>3, <1>4, <1>5, <1>6, <1>7, RefsInv

LEMMA PopInv ==
  ASSUME IndInv, NEW v \in Obj, Pop(v)
  PROVE  IndInv'
<1> USE KindsAssumption, HeldAreLive DEF Pop
<1>1. UNCHANGED <<mark, curw, gray, grayagain, gcstate, lists, unswept, control>>
  OBVIOUS
<1>2. refs' \in [Obj -> SUBSET Obj]
  BY DEF IndInv, TypeOK
<1>3. \A y \in Live : refs'[y] \subseteq Live
  BY DEF IndInv, TypeOK, LiveIsClosed, Stack
<1>4. \A y \in Obj : refs[y] = {} /\ y \notin Live => refs'[y] = {}
  BY DEF IndInv, TypeOK, Stack
<1>5. \A y \in Strings : refs'[y] = {}
  BY DEF IndInv, TypeOK, LiveIsClosed, Stack, Obj
<1>6. \A y \in Obj : KeepInvariant /\ Black(y) => refs'[y] \subseteq refs[y]
  BY DEF IndInv, TypeOK, Marking, Stack
<1>7. groots' \subseteq Tables \cap Live /\ running' \in Threads \cap Live
  BY DEF Stack
<1> QED
  BY <1>1, <1>2, <1>3, <1>4, <1>5, <1>6, <1>7, RefsInv

LEMMA EraseInv ==
  ASSUME IndInv, NEW x \in Obj, NEW v \in Obj, Erase(x, v)
  PROVE  IndInv'
<1> USE KindsAssumption, HeldAreLive DEF Erase
<1>1. UNCHANGED <<mark, curw, gray, grayagain, gcstate, lists, unswept, control>>
  OBVIOUS
<1>2. refs' \in [Obj -> SUBSET Obj]
  BY DEF IndInv, TypeOK
<1>3. \A y \in Live : refs'[y] \subseteq Live
  BY DEF IndInv, TypeOK, LiveIsClosed, Stack
<1>4. \A y \in Obj : refs[y] = {} /\ y \notin Live => refs'[y] = {}
  BY DEF IndInv, TypeOK, Stack
<1>5. \A y \in Strings : refs'[y] = {}
  BY DEF IndInv, TypeOK, LiveIsClosed, Stack, Obj
<1>6. \A y \in Obj : KeepInvariant /\ Black(y) => refs'[y] \subseteq refs[y]
  BY DEF IndInv, TypeOK, Marking, Stack
<1>7. groots' \subseteq Tables \cap Live /\ running' \in Threads \cap Live
  BY DEF Stack
<1> QED
  BY <1>1, <1>2, <1>3, <1>4, <1>5, <1>6, <1>7, RefsInv

LEMMA XMoveInv ==
  ASSUME IndInv, NEW th \in Obj, NEW v \in Obj, XMove(th, v)
  PROVE  IndInv'
<1> USE KindsAssumption, HeldAreLive DEF XMove
<1>1. UNCHANGED <<mark, curw, gray, grayagain, gcstate, lists, unswept, control>>
  OBVIOUS
<1>2. refs' \in [Obj -> SUBSET Obj]
  BY DEF IndInv, TypeOK
<1>3. \A y \in Live : refs'[y] \subseteq Live
  BY DEF IndInv, TypeOK, LiveIsClosed, Stack
<1>4. \A y \in Obj : refs[y] = {} /\ y \notin Live => refs'[y] = {}
  BY DEF IndInv, TypeOK, Stack
<1>5. \A y \in Strings : refs'[y] = {}
  BY DEF IndInv, TypeOK, LiveIsClosed, Stack, Obj
<1>6. \A y \in Obj : KeepInvariant /\ Black(y) => refs'[y] \subseteq refs[y]
  BY DEF IndInv, TypeOK, Marking, Stack
<1>7. groots' \subseteq Tables \cap Live /\ running' \in Threads \cap Live
  BY DEF Stack
<1> QED
  BY <1>1, <1>2, <1>3, <1>4, <1>5, <1>6, <1>7, RefsInv

LEMMA SwitchInv ==
  ASSUME IndInv, NEW th \in Threads, Switch(th)
  PROVE  IndInv'
<1> USE KindsAssumption, HeldAreLive DEF Switch
<1>1. UNCHANGED <<mark, curw, gray, grayagain, gcstate, lists, unswept, control>>
  OBVIOUS
<1>2. refs' \in [Obj -> SUBSET Obj]
  BY DEF IndInv, TypeOK
<1>3. \A y \in Live : refs'[y] \subseteq Live
  BY DEF IndInv, TypeOK, LiveIsClosed, Stack
<1>4. \A y \in Obj : refs[y] = {} /\ y \notin Live => refs'[y] = {}
  BY DEF IndInv, TypeOK, Stack
<1>5. \A y \in Strings : refs'[y] = {}
  BY DEF IndInv, TypeOK, LiveIsClosed, Stack, Obj
<1>6. \A y \in Obj : KeepInvariant /\ Black(y) => refs'[y] \subseteq refs[y]
  BY DEF IndInv, TypeOK, Marking, Stack
<1>7. groots' \subseteq Tables \cap Live /\ running' \in Threads \cap Live
  BY DEF Stack
<1> QED
  BY <1>1, <1>2, <1>3, <1>4, <1>5, <1>6, <1>7, RefsInv

LEMMA TypeMetatableInv ==
  ASSUME IndInv, NEW t \in Tables, SetTypeMetatable(t) \/ ClearTypeMetatable(t)
  PROVE  IndInv'
<1> USE KindsAssumption, HeldAreLive DEF SetTypeMetatable, ClearTypeMetatable
<1>1. UNCHANGED <<mark, curw, gray, grayagain, gcstate, lists, unswept, control>>
  OBVIOUS
<1>2. refs' \in [Obj -> SUBSET Obj]
  BY DEF IndInv, TypeOK
<1>3. \A y \in Live : refs'[y] \subseteq Live
  BY DEF IndInv, TypeOK, LiveIsClosed, Stack
<1>4. \A y \in Obj : refs[y] = {} /\ y \notin Live => refs'[y] = {}
  BY DEF IndInv, TypeOK, Stack
<1>5. \A y \in Strings : refs'[y] = {}
  BY DEF IndInv, TypeOK, LiveIsClosed, Stack, Obj
<1>6. \A y \in Obj : KeepInvariant /\ Black(y) => refs'[y] \subseteq refs[y]
  BY DEF IndInv, TypeOK, Marking, Stack
<1>7. groots' \subseteq Tables \cap Live /\ running' \in Threads \cap Live
  BY DEF Stack
<1> QED
  BY <1>1, <1>2, <1>3, <1>4, <1>5, <1>6, <1>7, RefsInv

(* Actions of the control alone *)
LEMMA FullNextInv ==
  ASSUME IndInv, FullNext
  PROVE  IndInv'
<1> USE KindsAssumption DEF lists
<1>1. TypeOK' /\ LiveIsClosed' /\ Marking' /\ BlackNeverPointsToWhite' /\ GrayIsListed'
  BY DEF FullNext, IndInv, TypeOK, LiveIsClosed, Marking, BlackNeverPointsToWhite, GrayIsListed,
         KeepInvariant, White, Black, Heap, Live, Dead, Roots, Loops, NextLoop
<1>2. Sweeping'
  BY DEF FullNext, IndInv, Sweeping, KeepInvariant, Heap, Dead, Pending
<1>3. Control'
  BY DEF FullNext, IndInv, Control, NextLoop, TypeOK, Loops, CollectorIdle, LoopDone, Loop
<1> QED
  BY <1>1, <1>2, <1>3 DEF IndInv

LEMMA FinInv ==
  ASSUME IndInv, FinReturn \/ BatchDone
  PROVE  IndInv'
<1> USE KindsAssumption DEF lists, FinReturn, BatchDone
<1>1. TypeOK' /\ LiveIsClosed' /\ Marking' /\ BlackNeverPointsToWhite' /\ GrayIsListed'
  BY DEF IndInv, TypeOK, LiveIsClosed, Marking, BlackNeverPointsToWhite, GrayIsListed,
         KeepInvariant, White, Black, Heap, Live, Dead, Roots
<1>2. Sweeping' /\ Control'
  BY DEF IndInv, Sweeping, Control, KeepInvariant, Heap, Dead, Pending
<1> QED
  BY <1>1, <1>2 DEF IndInv

(* A store through the forward barrier. *)
LEMMA ForwardStoreInv ==
  ASSUME IndInv,
         NEW o \in (Tables \cup Closures) \cap Live, NEW v \in Live,
         refs' = [refs EXCEPT ![o] = @ \cup {v}],
         mark' = MarkAfterForward(o, v),
         gray' = GrayAfterForward(o, v),
         UNCHANGED <<curw, grayagain, gcstate, lists, unswept, groots, running, control>>
  PROVE  IndInv'
<1> USE KindsAssumption DEF lists, control, MarkAfterForward, GrayAfterForward, ForwardHit,
        MarkedBy, GrayedBy
<1>1. o \in Obj /\ v \in Obj /\ mark[o] # "none" /\ mark[v] # "none"
  BY DEF IndInv, TypeOK, Live
<1>2. TypeOK'
  BY <1>1 DEF IndInv, TypeOK, Heap, Whites, White
<1>3. Heap' = Heap /\ Dead' = Dead /\ Live' = Live
  BY <1>1 DEF IndInv, TypeOK, Heap, Dead, Live, Whites, White, Other, Black, Marking
<1>4. LiveIsClosed'
  BY <1>1, <1>3 DEF IndInv, LiveIsClosed, Roots, TypeOK, Live, Obj, White, Whites
<1>5. Marking'
  BY <1>1, <1>3 DEF IndInv, Marking, KeepInvariant, TypeOK, Black, White, Whites, Obj
<1>6. GrayIsListed'
  BY <1>1, <1>3 DEF IndInv, GrayIsListed, KeepInvariant, TypeOK, White, Whites, Black
<1>7. BlackNeverPointsToWhite'
  <2> SUFFICES ASSUME KeepInvariant, NEW x \in Heap, Black(x)', NEW y \in refs'[x]
               PROVE  ~White(y)'
    BY <1>3 DEF BlackNeverPointsToWhite, KeepInvariant
  <2>1. CASE x = o /\ y = v
    BY <2>1, <1>1 DEF IndInv, TypeOK, White, Whites, Black
  <2>2. CASE Black(x) /\ y \in refs[x]
    BY <2>2, <1>1 DEF IndInv, TypeOK, White, Whites, Black, BlackNeverPointsToWhite
  <2>3. CASE ~Black(x)
    BY <2>3, <1>1 DEF IndInv, TypeOK, White, Whites, Black, LiveIsClosed
  <2> QED
    BY <2>1, <2>2, <2>3 DEF IndInv, TypeOK, Heap
<1>8. Sweeping'
  BY <1>1, <1>3 DEF IndInv, Sweeping, Pending, KeepInvariant, TypeOK
<1>9. Control'
  BY DEF IndInv, Control
<1> QED
  BY <1>2, <1>4, <1>5, <1>6, <1>7, <1>8, <1>9 DEF IndInv

LEMMA StoreInClosureInv ==
  ASSUME IndInv, NEW c \in Obj, NEW v \in Obj, StoreInClosure(c, v)
  PROVE  IndInv'
BY ForwardStoreInv, HeldAreLive DEF StoreInClosure

LEMMA SetMetatableInv ==
  ASSUME IndInv, NEW o \in Obj, NEW mt \in Obj, SetMetatable(o, mt)
  PROVE  IndInv'
BY ForwardStoreInv, HeldAreLive DEF SetMetatable, CanSetMetatable

LEMMA StoreInTableInv ==
  ASSUME IndInv, NEW t \in Obj, NEW v \in Obj, StoreInTable(t, v)
  PROVE  IndInv'
<1> USE KindsAssumption DEF lists, control
<1>0. PICK b \in BOOLEAN : b = (Black(t) /\ White(v))
  OBVIOUS
<1>1. /\ t \in Tables \cap Live /\ v \in Live
      /\ refs' = [refs EXCEPT ![t] = @ \cup {v}]
      /\ mark' = [mark EXCEPT ![t] = IF b THEN "gray" ELSE mark[t]]
      /\ grayagain' = IF b THEN grayagain \cup {t} ELSE grayagain
      /\ UNCHANGED <<curw, gray, gcstate, lists, unswept, groots, running, control>>
  BY <1>0, HeldAreLive DEF StoreInTable, LinkedAgain, IndInv, TypeOK
<1> HIDE DEF StoreInTable
<1>2. t \in Obj /\ v \in Obj /\ mark[t] # "none" /\ mark[v] # "none"
  BY <1>1 DEF IndInv, TypeOK, Live
<1>3. TypeOK'
  BY <1>1, <1>2 DEF IndInv, TypeOK, Heap
<1>4. Heap' = Heap /\ Dead' = Dead /\ Live' = Live
  BY <1>0, <1>1, <1>2 DEF IndInv, TypeOK, Heap, Dead, Live, Whites, Other, Black
<1>5. LiveIsClosed'
  BY <1>1, <1>2, <1>4 DEF IndInv, LiveIsClosed, Roots, TypeOK, Live, Obj
<1>6. Marking'
  BY <1>1, <1>2, <1>4 DEF IndInv, Marking, KeepInvariant, TypeOK, Black, White, Whites
<1>7. GrayIsListed'
  <2>1. KeepInvariant =>
          /\ \A x \in Obj : mark[x] = "gray" <=> x \in gray \cup grayagain
          /\ gray \cap grayagain = {}
          /\ gray \cup grayagain \subseteq Obj
    BY DEF IndInv, GrayIsListed, TypeOK
  <2>2. KeepInvariant => \A x \in Obj : mark'[x] = "gray" <=> x \in gray' \cup grayagain'
    BY <2>1, <1>0, <1>1, <1>2 DEF IndInv, TypeOK
  <2>3. KeepInvariant => gray' \cap grayagain' = {} /\ gray' \cup grayagain' \subseteq Obj
    BY <2>1, <1>0, <1>1, <1>2 DEF Black
  <2> QED
    BY <1>1, <2>2, <2>3 DEF GrayIsListed, KeepInvariant
<1>8. BlackNeverPointsToWhite'
  <2> SUFFICES ASSUME KeepInvariant, NEW x \in Heap, Black(x)', NEW y \in refs'[x]
               PROVE  ~White(y)'
    BY <1>1, <1>4 DEF BlackNeverPointsToWhite, KeepInvariant
  <2>1. Black(x) /\ x \in Obj /\ y \in Obj
    BY <1>1, <1>2 DEF IndInv, TypeOK, Black, Heap
  <2>2. CASE x = t /\ y = v
    BY <2>1, <2>2, <1>0, <1>1, <1>2 DEF IndInv, TypeOK, White, Whites, Black
  <2>3. CASE y \in refs[x]
    BY <2>1, <2>3, <1>1, <1>2 DEF IndInv, TypeOK, White, Whites, Black, BlackNeverPointsToWhite
  <2> QED
    BY <2>1, <2>2, <2>3, <1>1 DEF IndInv, TypeOK
<1>9. Sweeping'
  BY <1>0, <1>1, <1>2, <1>4 DEF IndInv, Sweeping, Pending, KeepInvariant, TypeOK, Black, Whites
<1>10. Control'
  BY <1>1 DEF IndInv, Control
<1> QED
  BY <1>3, <1>5, <1>6, <1>7, <1>8, <1>9, <1>10 DEF IndInv

LEMMA SetFinalizerInv ==
  ASSUME IndInv, NEW o \in Obj, NEW mt \in Obj, SetFinalizer(o, mt)
  PROVE  IndInv'
<1> USE KindsAssumption DEF lists, control
<1> DEFINE f == MarkAfterForward(o, mt)
           m == IF IsSweepPhase THEN [f EXCEPT ![o] = curw] ELSE f
<1>1. /\ o \in (Tables \cup Closures) \cap Live \cap allgc /\ mt \in Tables \cap Live
      /\ closing = "open" /\ MutatorRuns
      /\ finobj' = finobj \cup {o}
      /\ gray' = GrayAfterForward(o, mt)
      /\ UNCHANGED <<curw, grayagain, gcstate, tobefnz, groots, running, control>>
  BY HeldAreLive DEF SetFinalizer, CanSetMetatable
<1>2. PICK s \in SweepMovedOn(o, m), u \in UnsweptAfterLink(o) :
         /\ mark' = MarkAfterSweep(m, s[1], s[2], curw)
         /\ refs' = RefsAfterSweep([refs EXCEPT ![o] = @ \cup {mt}], s[1])
         /\ unswept' = u \ (s[1] \cup s[2])
         /\ allgc' = allgc \ ({o} \cup s[1])
  BY DEF SetFinalizer
<1>3. /\ m \in [Obj -> Whites \cup {"none", "gray", "black"}]
      /\ \A x \in Obj : m[x] = "none" <=> mark[x] = "none"
      /\ \A x \in Obj : m[x] = Other(curw) <=> x \in Dead
      /\ \A x \in Obj : mark[x] = curw /\ ~KeepInvariant => m[x] = curw
      /\ IsSweepPhase => m[o] = curw
  BY <1>1 DEF IndInv, TypeOK, MarkAfterForward, MarkedBy, ForwardHit, Whites, White, Black, Other,
              Dead, Live, Marking
<1>4. \/ s[1] = {} /\ s[2] = {}
      \/ /\ gcstate = "swpallgc" /\ o \notin unswept
         /\ s[1] \subseteq Dead \cap unswept
         /\ s[2] \subseteq unswept \ Dead
  BY <1>3 DEF SweepMovedOn, SweptToLive, IndInv, TypeOK
<1>5. /\ s[1] \subseteq Dead \cap allgc /\ o \notin s[1]
      /\ s[2] \subseteq Live /\ s[1] \cap s[2] = {} /\ s[1] \subseteq Obj /\ s[2] \subseteq Obj
      /\ KeepInvariant => s[1] = {} /\ s[2] = {}
  BY <1>1, <1>4 DEF IndInv, Sweeping, Live, TypeOK, KeepInvariant, Heap, Dead
<1>6. u \subseteq unswept \cup {o}
  BY DEF UnsweptAfterLink
<1>7. mark' = [x \in Obj |-> IF x \in s[1] THEN "none" ELSE IF x \in s[2] THEN curw ELSE m[x]]
  BY <1>2 DEF MarkAfterSweep
<1>8. refs' = [x \in Obj |-> IF x \in s[1] THEN {} ELSE
                 IF x = o THEN refs[o] \cup {mt} ELSE refs[x]]
  BY <1>2 DEF RefsAfterSweep, IndInv, TypeOK
<1> HIDE DEF m, f
<1>9. Heap' = Heap \ s[1] /\ Dead' = Dead \ s[1] /\ Live' = Live
  <2>1. Heap' = Heap \ s[1]
    BY <1>1, <1>2, <1>5 DEF Heap, IndInv, TypeOK
  <2>2. Dead' = Dead \ s[1]
    BY <1>1, <1>3, <1>5, <1>7 DEF Dead, Other, Whites, Live, IndInv, TypeOK
  <2> QED
    BY <2>1, <2>2, <1>5 DEF Live
<1>10. Heap' = {x \in Obj : mark'[x] # "none"}
  BY <1>9, <1>7, <1>3, <1>5 DEF IndInv, TypeOK, Whites, Live
<1>11. TypeOK'
  <2>1. mark' \in [Obj -> Whites \cup {"none", "gray", "black"}]
    BY <1>7, <1>3 DEF IndInv, TypeOK
  <2>2. refs' \in [Obj -> SUBSET Obj]
    BY <1>8, <1>1 DEF IndInv, TypeOK
  <2>3. gray' \subseteq Obj \ Strings
    BY <1>1 DEF GrayAfterForward, GrayedBy, IndInv, TypeOK
  <2>4. unswept' \subseteq Obj
    BY <1>2, <1>6 DEF IndInv, TypeOK
  <2>5. /\ allgc' \subseteq Obj /\ finobj' \subseteq Obj
        /\ allgc' \cap finobj' = {} /\ allgc' \cap tobefnz = {} /\ finobj' \cap tobefnz = {}
    BY <1>1, <1>2 DEF IndInv, TypeOK
  <2> QED
    BY <2>1, <2>2, <2>3, <2>4, <2>5, <1>1, <1>10 DEF IndInv, TypeOK
<1>12. LiveIsClosed'
  <2>1. \A x \in Live : refs'[x] \subseteq Live
    BY <1>1, <1>8 DEF IndInv, LiveIsClosed, TypeOK, Live
  <2>2. \A x \in Obj : mark'[x] = "none" \/ x \in Strings => refs'[x] = {}
    BY <1>1, <1>8, <1>7, <1>3 DEF IndInv, LiveIsClosed, TypeOK, Live, Whites
  <2>3. Main \in allgc' /\ Main # o
    BY <1>1, <1>2, <1>5 DEF IndInv, LiveIsClosed, Roots, Live
  <2> QED
    BY <2>1, <2>2, <2>3, <1>1, <1>9 DEF IndInv, LiveIsClosed, Roots
<1>13. KeepInvariant => s[1] = {} /\ s[2] = {} /\ ~IsSweepPhase
                        /\ mark' = f /\ m = f /\ Dead' = Dead /\ Heap' = Heap
  <2>1. KeepInvariant => m = f
    BY DEF m, KeepInvariant, IsSweepPhase
  <2>2. f = [x \in Obj |-> f[x]]
    BY DEF f, MarkAfterForward, MarkedBy, IndInv, TypeOK
  <2> QED
    BY <2>1, <2>2, <1>5, <1>7, <1>9 DEF KeepInvariant, IsSweepPhase
<1>14. Marking'
  BY <1>1, <1>13 DEF f, IndInv, Marking, KeepInvariant, TypeOK, Black, White, Whites, Obj,
                     MarkAfterForward, MarkedBy, ForwardHit
<1>15. GrayIsListed'
  BY <1>1, <1>13 DEF f, IndInv, GrayIsListed, KeepInvariant, TypeOK, White, Whites, Black,
                     MarkAfterForward, MarkedBy, ForwardHit, GrayAfterForward, GrayedBy
<1>16. BlackNeverPointsToWhite'
  <2> SUFFICES ASSUME KeepInvariant, NEW x \in Heap, Black(x)', NEW y \in refs'[x]
               PROVE  ~White(y)'
    BY <1>1, <1>13 DEF BlackNeverPointsToWhite, KeepInvariant
  <2> USE DEF f, MarkAfterForward, MarkedBy, ForwardHit
  <2>0. x \in Obj /\ refs' = [refs EXCEPT ![o] = @ \cup {mt}] /\ mark' = f /\ y \in Obj
    BY <1>1, <1>8, <1>13 DEF IndInv, TypeOK
  <2>1. CASE x = o /\ y = mt
    BY <2>0, <2>1, <1>1 DEF IndInv, TypeOK, White, Whites, Black
  <2>2. CASE Black(x) /\ y \in refs[x]
    BY <2>0, <2>2, <1>1 DEF IndInv, TypeOK, White, Whites, Black, BlackNeverPointsToWhite
  <2>3. CASE ~Black(x)
    BY <2>0, <2>3, <1>1 DEF IndInv, TypeOK, White, Whites, Black, LiveIsClosed
  <2> QED
    BY <2>0, <2>1, <2>2, <2>3 DEF IndInv, TypeOK
<1>17. Sweeping'
  <2>1. ~KeepInvariant => \A x \in Heap' \ Pending' : mark'[x] = curw
    <3> SUFFICES ASSUME ~KeepInvariant, NEW x \in Heap', x \notin Pending'
                 PROVE  mark'[x] = curw
      OBVIOUS
    <3>1. x \in Obj /\ x \in Heap /\ x \notin s[1]
      BY <1>9 DEF IndInv, TypeOK
    <3>2. CASE x \in s[2]
      BY <3>1, <3>2, <1>7
    <3>3. CASE x = o /\ IsSweepPhase
      BY <3>1, <3>3, <1>7, <1>3
    <3>4. CASE x \notin s[2] /\ ~(x = o /\ IsSweepPhase)
      <4>1. x \notin Pending
        BY <3>1, <3>4, <1>1, <1>2, <1>4 DEF Pending, UnsweptAfterLink, IsSweepPhase
      <4> QED
        BY <4>1, <3>1, <3>4, <1>7, <1>3 DEF IndInv, Sweeping
    <3> QED
      BY <3>2, <3>3, <3>4
  <2>2. Dead' \subseteq unswept'
    BY <1>1, <1>2, <1>4, <1>9 DEF IndInv, Sweeping, UnsweptAfterLink, Live
  <2>3. (gcstate = "swpallgc" => unswept \subseteq allgc)'
    BY <1>1, <1>2 DEF IndInv, Sweeping, UnsweptAfterLink
  <2>4. (gcstate = "swpfinobj" => unswept \subseteq finobj \cup tobefnz)'
    BY <1>1, <1>2, <1>6 DEF IndInv, Sweeping
  <2>5. (gcstate = "swptobefnz" => unswept \subseteq tobefnz)'
    BY <1>1, <1>2 DEF IndInv, Sweeping, UnsweptAfterLink, TypeOK
  <2> QED
    BY <2>1, <2>2, <2>3, <2>4, <2>5, <1>1, <1>9 DEF IndInv, Sweeping, KeepInvariant
<1>18. Control'
  BY <1>1 DEF IndInv, Control
<1> QED
  BY <1>11, <1>12, <1>14, <1>15, <1>16, <1>17, <1>18 DEF IndInv

-----------------------------------------------------------------------------
(* The collector. *)

LEMMA EnterFullInv ==
  ASSUME IndInv, EnterFull, MutatorRuns,
         UNCHANGED fullgc \/ fullgc' = "abort",
         UNCHANGED emergencygc \/ emergencygc' = "abort",
         fullgc' # "none" => closing = "open",
         emergencygc' = "none" => fin = "idle" \/ ~KeepInvariant
  PROVE  IndInv'
<1> USE KindsAssumption DEF lists, control
<1>1. /\ UNCHANGED <<curw, gray, grayagain, finobj, tobefnz, groots, running, fin, closing>>
      /\ closing # "closed" /\ emergencygc = "none" /\ fin # "batch"
  BY DEF EnterFull, MutatorRuns, IndInv, Control
<1>2. Control'
  BY <1>1 DEF IndInv, Control, EnterFull, KeepInvariant, MutatorRuns
<1>3. CASE ~KeepInvariant
  <2>1. UNCHANGED <<mark, refs, allgc, unswept, gcstate>>
    BY <1>3 DEF EnterFull
  <2>2. TypeOK' /\ LiveIsClosed' /\ Marking' /\ BlackNeverPointsToWhite' /\ GrayIsListed' /\ Sweeping'
    BY <2>1, <1>1 DEF IndInv, TypeOK, LiveIsClosed, Marking, BlackNeverPointsToWhite, GrayIsListed,
         KeepInvariant, White, Black, Heap, Live, Dead, Roots, Loops, Sweeping, Pending
  <2> QED
    BY <2>2, <1>2 DEF IndInv
<1>4. CASE KeepInvariant
  <2>1. PICK l \in allgc :
           /\ mark' = [mark EXCEPT ![l] = curw]
           /\ UNCHANGED <<refs, allgc>>
           /\ unswept' = allgc \ {l}
           /\ gcstate' = "swpallgc"
    <3>1. PICK s \in SweptToLive(allgc, mark) :
              /\ mark' = MarkAfterSweep(mark, s[1], s[2], curw)
              /\ refs' = RefsAfterSweep(refs, s[1])
              /\ allgc' = allgc \ s[1]
              /\ unswept' = allgc \ (s[1] \cup s[2])
              /\ gcstate' = "swpallgc"
      BY <1>4 DEF EnterFull
    <3>2. PICK l \in allgc : s[1] = {} /\ s[2] = {l}
      <4>1. {x \in allgc : mark[x] = Other(curw)} = {} /\ Main \in allgc
        BY <1>4 DEF IndInv, Marking, Dead, TypeOK, LiveIsClosed
      <4> QED
        BY <4>1, <3>1 DEF SweptToLive
    <3> QED
      BY <3>1, <3>2 DEF MarkAfterSweep, RefsAfterSweep, IndInv, TypeOK
  <2>2. l \in Obj /\ mark[l] # "none"
    BY DEF IndInv, TypeOK, Heap
  <2>3. Dead = {} /\ Dead' = {} /\ Heap' = Heap /\ Live' = Live
    BY <2>1, <2>2, <1>1, <1>4 DEF IndInv, Marking, Dead, Heap, Live, TypeOK, Other, Whites
  <2>4. TypeOK'
    <3>1. mark' \in [Obj -> Whites \cup {"none", "gray", "black"}] /\ unswept' \subseteq Obj
      BY <2>1, <2>2 DEF IndInv, TypeOK
    <3>2. Heap' = {x \in Obj : mark'[x] # "none"}
      BY <2>1, <2>2, <2>3 DEF IndInv, TypeOK, Whites
    <3>3. fullgc' \in Loops /\ emergencygc' \in Loops
      BY DEF IndInv, TypeOK, Loops
    <3> QED
      BY <3>1, <3>2, <3>3, <2>1, <1>1 DEF IndInv, TypeOK
  <2>5. LiveIsClosed'
    BY <2>1, <2>2, <2>3, <1>1 DEF IndInv, TypeOK, LiveIsClosed, Roots, Whites
  <2>6. Marking' /\ BlackNeverPointsToWhite' /\ GrayIsListed'
    BY <2>1 DEF Marking, BlackNeverPointsToWhite, GrayIsListed, KeepInvariant
  <2>7. Sweeping'
    BY <2>1, <2>2, <2>3, <1>1 DEF Sweeping, Pending, Heap, IndInv, TypeOK
  <2> QED
    BY <2>4, <2>5, <2>6, <2>7, <1>2 DEF IndInv
<1> QED
  BY <1>3, <1>4

LEMMA StartInv ==
  ASSUME IndInv, StartFull \/ StartEmergency
  PROVE  IndInv'
<1>1. CASE StartFull
  BY <1>1, EnterFullInv DEF StartFull, MutatorRuns, IndInv, Control
<1>2. CASE StartEmergency
  BY <1>2, EnterFullInv DEF StartEmergency, MutatorRuns, IndInv, Control
<1> QED
  BY <1>1, <1>2

LEMMA RestartInv ==
  ASSUME IndInv, RestartCollection
  PROVE  IndInv'
<1> USE KindsAssumption DEF lists, control, RestartCollection
<1> DEFINE S == {Main} \cup groots \cup tobefnz
<1>1. mark' = MarkedBy(S, mark) /\ gray' = GrayedBy(S, mark) /\ grayagain' = {}
  OBVIOUS
<1>2. Heap = {o \in Obj : mark[o] = curw} /\ \A o \in Obj : mark[o] # curw => mark[o] = "none"
  BY DEF IndInv, Sweeping, KeepInvariant, Pending, TypeOK, Whites
<1>3. S \subseteq Heap /\ Main \in Obj /\ Main \notin Strings
  BY DEF IndInv, LiveIsClosed, Roots, Live, TypeOK, Obj
<1> HIDE DEF S
<1>4. /\ \A o \in Obj : mark'[o] = IF o \in S THEN IF o \in Strings THEN "black" ELSE "gray"
                                  ELSE mark[o]
      /\ gray' = S \ Strings
  BY <1>1, <1>2, <1>3 DEF MarkedBy, GrayedBy, IndInv, TypeOK
<1>5. TypeOK'
  <2>1. mark' \in [Obj -> Whites \cup {"none", "gray", "black"}]
    BY <1>1 DEF MarkedBy, IndInv, TypeOK
  <2>2. Heap' = {x \in Obj : mark'[x] # "none"}
    BY <1>2, <1>3, <1>4 DEF IndInv, TypeOK, Whites, Heap
  <2>3. gray' \subseteq Obj \ Strings
    BY <1>3, <1>4 DEF IndInv, TypeOK
  <2> QED
    BY <2>1, <2>2, <2>3 DEF IndInv, TypeOK
<1>6. Heap' = Heap /\ Dead = {} /\ Dead' = {} /\ Live' = Live
  BY <1>2, <1>4 DEF Heap, Dead, Live, Other, IndInv, TypeOK, Whites
<1>7. LiveIsClosed'
  BY <1>2, <1>3, <1>4, <1>6 DEF IndInv, LiveIsClosed, Roots, TypeOK
<1>8. Marking'
  BY <1>2, <1>3, <1>4, <1>6, Main \in S DEF S, Marking, White, Black, Obj, Whites, IndInv, TypeOK
<1>9. GrayIsListed'
  BY <1>1, <1>2, <1>3, <1>4 DEF GrayIsListed, Whites, IndInv, TypeOK
<1>10. BlackNeverPointsToWhite'
  BY <1>2, <1>4 DEF BlackNeverPointsToWhite, Black, Whites, IndInv, TypeOK, LiveIsClosed, Heap
<1>11. Sweeping' /\ Control'
  <2>1. Control'
    BY DEF IndInv, Control, CollectorRuns, CollectorIdle
  <2> QED
    BY <2>1, <1>6 DEF Sweeping, KeepInvariant
<1> QED
  BY <1>5, <1>7, <1>8, <1>9, <1>10, <1>11 DEF IndInv

LEMMA PropagateInv ==
  ASSUME IndInv, NEW o \in Obj, PropagateMark(o)
  PROVE  IndInv'
<1> USE KindsAssumption DEF lists, control, PropagateMark, VisitedColor, VisitAgain
<1>1. mark[o] = "gray" /\ refs[o] \subseteq Obj /\ o \notin Strings /\ KeepInvariant /\ Dead = {}
      /\ refs[o] \subseteq Heap /\ o \in Heap /\ o \in gray
  BY DEF IndInv, TypeOK, GrayIsListed, KeepInvariant, Marking, LiveIsClosed, Live
<1>2. \A x \in Obj : mark'[x] =
         IF x = o THEN IF o \in Threads THEN "gray" ELSE "black"
         ELSE IF x \in refs[o] /\ White(x) THEN IF x \in Strings THEN "black" ELSE "gray"
         ELSE mark[x]
  BY <1>1 DEF MarkedBy, White
<1>3. gray' = (gray \ {o}) \cup {x \in refs[o] \ Strings : White(x)}
  BY DEF GrayedBy, White
<1>4. mark' \in [Obj -> Whites \cup {"none", "gray", "black"}]
  BY DEF MarkedBy, IndInv, TypeOK
<1>5. /\ UNCHANGED <<refs, curw, gcstate, lists, unswept, groots, running, control>>
      /\ grayagain' = IF o \in Threads THEN grayagain \cup {o} ELSE grayagain
  OBVIOUS
<1> HIDE DEF PropagateMark, VisitedColor, VisitAgain
<1>6. \A x \in Obj : (mark'[x] = "none") <=> (mark[x] = "none")
  BY <1>1, <1>2 DEF White, Whites
<1>7. Heap' = Heap /\ Dead' = {} /\ Live' = Live
  BY <1>1, <1>2, <1>4, <1>5 DEF Heap, Dead, Live, Other, IndInv, TypeOK, Whites
<1>8. TypeOK'
  <2>1. gray' \subseteq Obj \ Strings /\ grayagain' \subseteq Tables \cup Threads
    BY <1>1, <1>3, <1>5 DEF IndInv, TypeOK
  <2> QED
    BY <2>1, <1>4, <1>5, <1>6, <1>7 DEF IndInv, TypeOK
<1>9. LiveIsClosed'
  BY <1>5, <1>6, <1>7 DEF IndInv, LiveIsClosed, Roots
<1>10. Marking'
  BY <1>1, <1>2, <1>5, <1>7 DEF IndInv, Marking, KeepInvariant, White, Black, Obj, Whites
<1>11. GrayIsListed'
  <2>1. /\ \A x \in Obj : mark[x] = "gray" <=> x \in gray \cup grayagain
        /\ gray \cap grayagain = {}
        /\ gray \cup grayagain \subseteq Obj
    BY <1>1 DEF IndInv, GrayIsListed, TypeOK
  <2>2. \A x \in Obj : mark'[x] = "gray" <=> x \in gray' \cup grayagain'
    <3> SUFFICES ASSUME NEW x \in Obj
                 PROVE  mark'[x] = "gray" <=> x \in gray' \cup grayagain'
      OBVIOUS
    <3>1. CASE x = o
      BY <3>1, <2>1, <1>1, <1>2, <1>3, <1>5 DEF White, Whites
    <3>2. CASE x # o /\ x \in refs[o] /\ White(x)
      BY <3>2, <2>1, <1>2, <1>3, <1>5 DEF White, Whites
    <3>3. CASE x # o /\ ~(x \in refs[o] /\ White(x))
      BY <3>3, <2>1, <1>2, <1>3, <1>5
    <3> QED
      BY <3>1, <3>2, <3>3
  <2>3. gray' \cap grayagain' = {}
    BY <2>1, <1>1, <1>3, <1>5 DEF White, Whites
  <2>4. gray' \cup grayagain' \subseteq Obj
    BY <1>8 DEF TypeOK, Obj
  <2> QED
    BY <2>2, <2>3, <2>4 DEF GrayIsListed
<1>12. BlackNeverPointsToWhite'
  <2> SUFFICES ASSUME NEW x \in Heap, Black(x)', NEW y \in refs[x]
               PROVE  ~White(y)'
    BY <1>5, <1>7 DEF BlackNeverPointsToWhite
  <2>1. x \in Obj /\ y \in Obj
    BY DEF IndInv, TypeOK
  <2>2. ~White(y) => ~White(y)'
    BY <2>1, <1>2 DEF White, Whites
  <2>3. CASE x = o
    BY <2>1, <2>3, <1>2 DEF White, Whites
  <2>4. CASE x # o /\ Black(x)
    BY <2>1, <2>2, <2>4, <1>1 DEF IndInv, BlackNeverPointsToWhite
  <2>5. CASE x # o /\ ~Black(x)
    BY <2>1, <2>5, <1>2 DEF IndInv, LiveIsClosed, Black
  <2> QED
    BY <2>3, <2>4, <2>5
<1>13. Sweeping' /\ Control'
  BY <1>1, <1>5, <1>7 DEF IndInv, Sweeping, Control, KeepInvariant
<1> QED
  BY <1>8, <1>9, <1>10, <1>11, <1>12, <1>13 DEF IndInv

LEMMA GcStateInv ==
  ASSUME IndInv, EnterAtomic \/ FinishCycle
  PROVE  IndInv'
<1> USE KindsAssumption DEF lists, control, EnterAtomic, FinishCycle
<1>1. TypeOK' /\ LiveIsClosed' /\ Marking' /\ BlackNeverPointsToWhite' /\ GrayIsListed'
  BY DEF IndInv, TypeOK, LiveIsClosed, Marking, BlackNeverPointsToWhite, GrayIsListed,
         KeepInvariant, White, Black, Heap, Live, Dead, Roots
<1>2. Sweeping'
  BY DEF IndInv, Sweeping, KeepInvariant, Heap, Dead, Pending
<1>3. Control'
  BY DEF IndInv, Control, CollectorRuns, CollectorIdle
<1> QED
  BY <1>1, <1>2, <1>3 DEF IndInv

LEMMA SweepNextInv ==
  ASSUME IndInv, SweepNext
  PROVE  IndInv'
<1> USE KindsAssumption DEF lists, control, SweepNext
<1>1. TypeOK' /\ LiveIsClosed' /\ Marking' /\ BlackNeverPointsToWhite' /\ GrayIsListed'
  BY DEF IndInv, TypeOK, LiveIsClosed, Marking, BlackNeverPointsToWhite, GrayIsListed,
         KeepInvariant, White, Black, Heap, Live, Dead, Roots
<1>2. Sweeping'
  BY DEF IndInv, Sweeping, KeepInvariant, Heap, Dead, Pending
<1>3. Control'
  BY DEF IndInv, Control, CollectorRuns, CollectorIdle
<1> QED
  BY <1>1, <1>2, <1>3 DEF IndInv

LEMMA SweepOneInv ==
  ASSUME IndInv, NEW o \in Obj, SweepOne(o)
  PROVE  IndInv'
<1> USE KindsAssumption DEF lists, control
<1> DEFINE F == {o} \cap Dead
<1>1. /\ mark' = [x \in Obj |-> IF x \in F THEN "none" ELSE IF x = o THEN curw ELSE mark[x]]
      /\ refs' = [x \in Obj |-> IF x \in F THEN {} ELSE refs[x]]
      /\ allgc' = allgc \ F /\ finobj' = finobj \ F /\ tobefnz' = tobefnz \ F
      /\ unswept' = unswept \ {o}
      /\ UNCHANGED <<curw, gray, grayagain, gcstate, groots, running, control>>
      /\ ~KeepInvariant /\ gcstate \in {"swpallgc", "swpfinobj", "swptobefnz"}
      /\ CollectorRuns /\ o \in unswept
  BY DEF SweepOne, MarkAfterSweep, RefsAfterSweep, KeepInvariant
<1>2. F \cap Live = {} /\ F \subseteq Dead /\ F \subseteq Obj
  BY DEF Live
<1>3. o \in Heap
  BY <1>1 DEF IndInv, Sweeping, Heap
<1>4. mark' \in [Obj -> Whites \cup {"none", "gray", "black"}] /\ refs' \in [Obj -> SUBSET Obj]
  BY <1>1 DEF IndInv, TypeOK
<1>5. Heap' = Heap \ F /\ Dead' = Dead \ F /\ Live' = Live
  <2>1. Heap' = Heap \ F
    BY <1>1 DEF Heap
  <2>2. Dead' = Dead \ F
    BY <1>1, <1>4 DEF Dead, Other, Whites, IndInv, TypeOK
  <2> QED
    BY <2>1, <2>2, <1>2 DEF Live
<1>6. \A x \in Obj : mark'[x] = "none" <=> mark[x] = "none" \/ x \in F
  BY <1>1, <1>3 DEF IndInv, TypeOK, Whites
<1> HIDE DEF F
<1>7. TypeOK'
  <2>1. Heap' = {x \in Obj : mark'[x] # "none"}
    BY <1>5, <1>6 DEF IndInv, TypeOK
  <2> QED
    BY <2>1, <1>1, <1>4 DEF IndInv, TypeOK
<1>8. LiveIsClosed'
  <2>1. Main \notin F
    BY <1>2 DEF IndInv, LiveIsClosed, Roots
  <2>2. \A x \in Obj : mark'[x] = "none" \/ x \in Strings => refs'[x] = {}
    BY <1>1, <1>6 DEF IndInv, LiveIsClosed
  <2>3. \A x \in Live : refs'[x] \subseteq Live
    BY <1>1, <1>2 DEF IndInv, LiveIsClosed, TypeOK, Live
  <2> QED
    BY <2>1, <2>2, <2>3, <1>1, <1>5 DEF IndInv, LiveIsClosed, Roots
<1>9. Marking' /\ BlackNeverPointsToWhite' /\ GrayIsListed'
  BY <1>1 DEF Marking, BlackNeverPointsToWhite, GrayIsListed, KeepInvariant
<1>10. Sweeping'
  <2>1. \A x \in Heap' \ Pending' : mark'[x] = curw
    <3> SUFFICES ASSUME NEW x \in Heap', x \notin Pending' PROVE mark'[x] = curw
      OBVIOUS
    <3>1. x \in Heap /\ x \notin F /\ x \in Obj
      BY <1>5 DEF IndInv, TypeOK
    <3>2. x = o \/ x \notin Pending
      BY <1>1, <3>1 DEF Pending
    <3> QED
      BY <3>1, <3>2, <1>1 DEF IndInv, Sweeping
  <2>2. Dead' \subseteq unswept'
    BY <1>1, <1>5 DEF F, IndInv, Sweeping
  <2>3. /\ (gcstate = "swpallgc" => unswept \subseteq allgc)'
        /\ (gcstate = "swpfinobj" => unswept \subseteq finobj \cup tobefnz)'
        /\ (gcstate = "swptobefnz" => unswept \subseteq tobefnz)'
    BY <1>1 DEF F, IndInv, Sweeping
  <2> QED
    BY <2>1, <2>2, <2>3, <1>1, <1>5, <1>2 DEF IndInv, Sweeping
<1>11. Control'
  BY <1>1 DEF IndInv, Control, CollectorRuns, CollectorIdle
<1> QED
  BY <1>7, <1>8, <1>9, <1>10, <1>11 DEF IndInv

LEMMA GCTMInv ==
  ASSUME IndInv, NEW o \in Obj, GCTM(o), emergencygc = "none", closing # "closed",
         gcstate = "callfin" \/ fin = "batch"
  PROVE  IndInv'
<1> USE KindsAssumption DEF lists, control
<1>1. /\ o \in tobefnz
      /\ tobefnz' = tobefnz \ {o}
      /\ allgc' = allgc \cup {o}
      /\ mark' = IF IsSweepPhase THEN [mark EXCEPT ![o] = curw] ELSE mark
      /\ unswept' \in {unswept \ {o}} \cup (IF gcstate = "swpfinobj" THEN {{}} ELSE {})
      /\ fin' \in {"batch", "user"}
      /\ UNCHANGED <<curw, gray, grayagain, gcstate, finobj, groots, running, fullgc,
                    emergencygc, closing>>
  BY DEF GCTM, LeavesToBeFnz
<1>2. refs' \in [Obj -> SUBSET Obj] /\ \A x \in Obj :
         refs'[x] = refs[x] \/ (x = running /\ refs'[x] = refs[x] \cup {o})
  <2>1. refs \in [Obj -> SUBSET Obj]
    BY DEF IndInv, TypeOK
  <2>2. CASE refs' = refs
    BY <2>1, <2>2
  <2>3. CASE refs' = [refs EXCEPT ![running] = @ \cup {o}]
    BY <2>1, <2>3
  <2> QED
    BY <2>2, <2>3 DEF GCTM, LeavesToBeFnz, Push
<1>3. o \in Live /\ mark[o] # "none" /\ curw # "none"
  BY <1>1 DEF IndInv, LiveIsClosed, Live, TypeOK, Whites
<1>4. closing = "closing" => finobj = {}
  BY DEF IndInv, Control
<1>5. closing = "open" => gcstate \in {"callfin", "pause"}
  BY DEF IndInv, Control
<1>6. /\ mark' \in [Obj -> Whites \cup {"none", "gray", "black"}]
      /\ \A x \in Obj : mark'[x] = IF x = o /\ IsSweepPhase THEN curw ELSE mark[x]
  BY <1>1 DEF IndInv, TypeOK
<1>7. Heap' = Heap /\ Dead' = Dead /\ Live' = Live
  <2>1. Heap' = Heap
    BY <1>1 DEF Heap
  <2>2. Dead' = Dead
    BY <1>1, <1>3, <1>6 DEF Dead, Live, Other, Whites, IndInv, TypeOK
  <2> QED
    BY <2>1, <2>2 DEF Live
<1>8. TypeOK'
  <2>1. Heap' = {x \in Obj : mark'[x] # "none"}
    BY <1>3, <1>6, <1>7 DEF IndInv, TypeOK
  <2>2. unswept' \subseteq Obj
    BY <1>1 DEF IndInv, TypeOK
  <2>3. allgc' \cap finobj' = {} /\ allgc' \cap tobefnz' = {} /\ finobj' \cap tobefnz' = {}
        /\ allgc' \subseteq Obj /\ tobefnz' \subseteq Obj
    BY <1>1 DEF IndInv, TypeOK
  <2> QED
    BY <2>1, <2>2, <2>3, <1>1, <1>2, <1>6 DEF IndInv, TypeOK
<1>9. LiveIsClosed'
  <2>1. \A x \in Live : refs'[x] \subseteq Live
    BY <1>2, <1>3 DEF IndInv, LiveIsClosed, TypeOK, Live
  <2>2. \A x \in Obj : mark'[x] = "none" \/ x \in Strings => refs'[x] = {}
    BY <1>2, <1>3, <1>6, HeldAreLive DEF IndInv, LiveIsClosed, TypeOK, Live
  <2> QED
    BY <2>1, <2>2, <1>1, <1>7 DEF IndInv, LiveIsClosed, Roots
<1>10. KeepInvariant => mark' = mark
  BY <1>1 DEF KeepInvariant, IsSweepPhase
<1>11. Marking' /\ GrayIsListed'
  BY <1>1, <1>7, <1>10 DEF IndInv, Marking, GrayIsListed, KeepInvariant, White, Black
<1>12. BlackNeverPointsToWhite'
  BY <1>1, <1>2, <1>7, <1>10, HeldAreLive
     DEF IndInv, BlackNeverPointsToWhite, KeepInvariant, White, Black, TypeOK
<1>13. Sweeping'
  <2>1. ~KeepInvariant => \A x \in Heap' \ Pending' : mark'[x] = curw
    <3> SUFFICES ASSUME ~KeepInvariant, NEW x \in Heap, x \notin Pending' PROVE mark'[x] = curw
      BY <1>7
    <3>1. x \in Obj
      BY DEF IndInv, TypeOK
    <3>2. CASE x = o /\ IsSweepPhase
      BY <3>2, <3>1, <1>6
    <3>3. CASE ~IsSweepPhase
      <4>1. Pending = {}
        BY <3>3 DEF Pending, IsSweepPhase
      <4> QED
        BY <4>1, <3>1, <3>3, <1>6 DEF IndInv, Sweeping
    <3>4. CASE x # o /\ IsSweepPhase
      <4>1. x \notin Pending
        BY <3>4, <1>1, <1>4, <1>5 DEF Pending, IsSweepPhase, IndInv, Sweeping, TypeOK
      <4> QED
        BY <4>1, <3>1, <3>4, <1>6 DEF IndInv, Sweeping
    <3> QED
      BY <3>2, <3>3, <3>4
  <2>2. Dead' \subseteq unswept'
    BY <1>1, <1>3, <1>7 DEF IndInv, Sweeping, Live
  <2>3. /\ (gcstate = "swpallgc" => unswept \subseteq allgc)'
        /\ (gcstate = "swpfinobj" => unswept \subseteq finobj \cup tobefnz)'
        /\ (gcstate = "swptobefnz" => unswept \subseteq tobefnz)'
    BY <1>1 DEF IndInv, Sweeping
  <2> QED
    BY <2>1, <2>2, <2>3, <1>1, <1>7 DEF IndInv, Sweeping, KeepInvariant
<1>14. Control'
  BY <1>1, <1>5 DEF IndInv, Control
<1> QED
  BY <1>8, <1>9, <1>11, <1>12, <1>13, <1>14 DEF IndInv

LEMMA CallFinInv ==
  ASSUME IndInv, NEW o \in Obj, CallFin(o) \/ CallNextFin(o)
  PROVE  IndInv'
BY GCTMInv DEF CallFin, CallNextFin, CollectorRuns, CollectorIdle, IndInv, Control

LEMMA CloseInv ==
  ASSUME IndInv, Close
  PROVE  IndInv'
<1> USE KindsAssumption DEF lists, control, Close
<1>1. /\ closing' = "closing" /\ fin' = "batch" /\ running' = Main
      /\ refs' = [refs EXCEPT ![Main] = {}]
      /\ tobefnz' = tobefnz \cup finobj /\ finobj' = {}
      /\ unswept' \in {unswept} \cup (IF gcstate = "swpfinobj" THEN {{}} ELSE {})
      /\ UNCHANGED <<mark, curw, gray, grayagain, gcstate, allgc, groots, fullgc, emergencygc>>
      /\ fullgc = "none" /\ emergencygc = "none"
  BY DEF MutatorRuns, IndInv, Control
<1> HIDE DEF Close
<1>2. Heap' = Heap /\ Dead' = Dead /\ Live' = Live
  BY <1>1 DEF Heap, Dead, Live
<1>3. TypeOK'
  BY <1>1, <1>2 DEF IndInv, TypeOK
<1>4. LiveIsClosed'
  BY <1>1, <1>2 DEF IndInv, LiveIsClosed, Roots, TypeOK, Live
<1>5. Marking' /\ GrayIsListed'
  BY <1>1, <1>2 DEF IndInv, Marking, GrayIsListed, KeepInvariant, White, Black
<1>6. BlackNeverPointsToWhite'
  BY <1>1, <1>2 DEF IndInv, BlackNeverPointsToWhite, KeepInvariant, White, Black, TypeOK
<1>7. Sweeping'
  BY <1>1, <1>2 DEF IndInv, Sweeping, KeepInvariant, Pending
<1>8. Control'
  BY <1>1 DEF Control
<1> QED
  BY <1>3, <1>4, <1>5, <1>6, <1>7, <1>8 DEF IndInv

LEMMA FreeAllInv ==
  ASSUME IndInv, FreeAllObjects
  PROVE  IndInv'
<1> USE KindsAssumption DEF lists, control, FreeAllObjects
<1>1. finobj = {} /\ tobefnz = {} /\ curw \in Whites /\ Main \in Obj
  BY DEF IndInv, Control, TypeOK, Obj
<1>2. Heap' = {Main} /\ Dead' = {} /\ Live' = {Main}
  BY <1>1 DEF Heap, Dead, Live, Other, Whites
<1>3. TypeOK'
  BY <1>1, <1>2 DEF IndInv, TypeOK, Whites
<1>4. LiveIsClosed'
  BY <1>1, <1>2 DEF LiveIsClosed, Roots
<1>5. Marking' /\ GrayIsListed' /\ BlackNeverPointsToWhite'
  BY DEF Marking, GrayIsListed, BlackNeverPointsToWhite, KeepInvariant
<1>6. Sweeping' /\ Control'
  BY <1>1, <1>2 DEF IndInv, Sweeping, Control
<1> QED
  BY <1>3, <1>4, <1>5, <1>6 DEF IndInv

(* 'atomic' visits every object that is to survive.                        *)
LEMMA VisitedFacts ==
  ASSUME NEW S \in SUBSET Obj
  PROVE  /\ S \subseteq Visited(S)
         /\ Visited(S) \subseteq Obj
         /\ refs \in [Obj -> SUBSET Obj] => ClosedUnderVisit(Visited(S))
         /\ \A T \in SUBSET Obj : S \subseteq T /\ ClosedUnderVisit(T) => Visited(S) \subseteq T
<1>1. S \subseteq Visited(S) /\ Visited(S) \subseteq Obj
  BY DEF Visited
<1>2. \A T \in SUBSET Obj : S \subseteq T /\ ClosedUnderVisit(T) => Visited(S) \subseteq T
  BY DEF Visited
<1>3. ASSUME refs \in [Obj -> SUBSET Obj]
      PROVE  ClosedUnderVisit(Visited(S))
  <2> SUFFICES ASSUME NEW x \in Visited(S), NEW y \in refs[x], White(y)
               PROVE  y \in Visited(S)
    BY DEF ClosedUnderVisit
  <2>1. x \in Obj /\ y \in Obj
    BY <1>1, <1>3
  <2>2. ASSUME NEW T \in SUBSET Obj, S \subseteq T, ClosedUnderVisit(T)
        PROVE  y \in T
    <3>1. x \in T
      BY <1>2, <2>2
    <3> QED
      BY <3>1, <2>2 DEF ClosedUnderVisit
  <2> QED
    BY <2>1, <2>2 DEF Visited
<1> QED
  BY <1>1, <1>2, <1>3

LEMMA AtomicInv ==
  ASSUME IndInv, Atomic
  PROVE  IndInv' /\ \A o \in Heap \ Heap' : o \notin Needed
<1> USE KindsAssumption DEF lists, control
<1> DEFINE V == Resurrected
           seeds == AtomicSeeds \cup Separated \cup {o \in tobefnz : White(o)}
           m == [o \in Obj |-> IF o \in V THEN "black" ELSE mark[o]]
           dead == {o \in allgc : m[o] = curw}
<1>0. Other(Other(curw)) = curw
  BY DEF IndInv, TypeOK, Other, Whites
<1>1. /\ gcstate = "enteratomic" /\ gcstate' = "swpallgc" /\ CollectorRuns
      /\ finobj' = finobj \ Separated
      /\ tobefnz' = tobefnz \cup Separated
      /\ curw' = Other(curw)
      /\ gray' = {} /\ grayagain' = {}
      /\ UNCHANGED <<groots, running, control>>
  BY DEF Atomic, NextWhite
<1>2. PICK F \in SUBSET dead, l \in allgc \ dead :
         /\ mark' = MarkAfterSweep(m, F, {l}, Other(curw))
         /\ refs' = RefsAfterSweep(refs, F)
         /\ allgc' = allgc \ F
         /\ unswept' = allgc \ (F \cup {l})
  BY <1>0 DEF Atomic, NextWhite
<1>3. /\ Dead = {} /\ Live = Heap /\ ~White(Main)
      /\ \A o \in Obj : White(o) <=> mark[o] = curw
      /\ \A o \in Obj : mark[o] = "gray" <=> o \in gray \cup grayagain
      /\ \A o \in Heap : Black(o) => \A v \in refs[o] : ~White(v)
      /\ refs \in [Obj -> SUBSET Obj]
      /\ \A x \in Heap : refs[x] \subseteq Heap
      /\ Heap = {o \in Obj : mark[o] # "none"}
  BY <1>1 DEF IndInv, Marking, GrayIsListed, BlackNeverPointsToWhite, KeepInvariant, White, Whites,
              Dead, Live, Other, TypeOK, LiveIsClosed
<1>4. AtomicSeeds \subseteq Heap /\ Separated \subseteq finobj /\ seeds \subseteq Heap /\ seeds \subseteq Obj
  <2>1. Heap \subseteq Obj /\ Roots \subseteq Heap /\ gray \cup grayagain \subseteq Heap
    BY <1>3 DEF IndInv, TypeOK, LiveIsClosed, Obj
  <2>2. AtomicSeeds \subseteq Heap
    BY <2>1 DEF AtomicSeeds, Roots
  <2>3. Separated \subseteq finobj /\ finobj \cup tobefnz \subseteq Heap
    BY DEF Separated, Heap
  <2> QED
    BY <2>1, <2>2, <2>3
<1>5. /\ seeds \subseteq V /\ ClosedUnderVisit(V) /\ V \subseteq Heap
  <2>1. ClosedUnderVisit(Heap)
    BY <1>3 DEF ClosedUnderVisit
  <2>2. V = Visited(seeds)
    BY DEF Resurrected
  <2> QED
    BY <2>1, <2>2, <1>3, <1>4, VisitedFacts
<1>6. \A o \in finobj : White(o) => o \in Separated \/ o \in V
  <2>1. Strong \subseteq V
    <3>1. V \in SUBSET Obj /\ AtomicSeeds \subseteq V /\ AtomicSeeds \in SUBSET Obj
      BY <1>3, <1>4, <1>5
    <3> QED
      BY <3>1, <1>5, VisitedFacts DEF Strong
  <2> QED
    BY <2>1 DEF Separated
<1> HIDE DEF V
(* the surviving objects: everything that is black when the marks are finished *)
<1>7. \A x \in Heap : m[x] = "black" \/ m[x] = curw
  BY <1>3, <1>4, <1>5 DEF AtomicSeeds, IndInv, TypeOK, White, Whites
<1>8. \A x \in Heap : m[x] = "black" => \A y \in refs[x] : m[y] = "black" /\ y \in Heap
  <2> SUFFICES ASSUME NEW x \in Heap, m[x] = "black", NEW y \in refs[x]
               PROVE  m[y] = "black" /\ y \in Heap
    OBVIOUS
  <2>1. x \in Obj /\ y \in Heap /\ y \in Obj
    BY <1>3
  <2>2. CASE x \in V
    BY <2>1, <2>2, <1>3, <1>5, <1>7 DEF ClosedUnderVisit
  <2>3. CASE x \notin V
    <3>1. Black(x)
      BY <2>1, <2>3 DEF Black
    <3> QED
      BY <3>1, <2>1, <1>3, <1>7
  <2> QED
    BY <2>1, <2>2, <2>3
<1>9. \A x \in Roots \cup finobj' \cup tobefnz' : x \in Heap /\ m[x] = "black"
  <2>1. \A x \in Roots : x \in Heap /\ (White(x) => x \in V)
    BY <1>3, <1>5 DEF Roots, AtomicSeeds, IndInv, LiveIsClosed
  <2>2. \A x \in finobj' \cup tobefnz' : x \in Heap /\ (White(x) => x \in V)
    BY <1>1, <1>3, <1>5, <1>6 DEF IndInv, LiveIsClosed, Separated
  <2> QED
    BY <2>1, <2>2, <1>3, <1>7
<1>10. /\ F \subseteq allgc /\ l \in allgc /\ l \notin F /\ m[l] = "black"
       /\ \A x \in F : m[x] = curw /\ x \in Obj
       /\ curw # "black" /\ curw # "none" /\ Other(curw) # "black" /\ Other(curw) # "none"
       /\ Other(curw) # curw /\ Other(Other(curw)) = curw
       /\ allgc \subseteq Heap
  BY <1>7 DEF IndInv, TypeOK, Whites, Other, Heap
<1>11. /\ \A x \in Obj : mark'[x] = IF x \in F THEN "none" ELSE IF x = l THEN Other(curw) ELSE m[x]
       /\ mark' \in [Obj -> Whites \cup {"none", "gray", "black"}]
       /\ \A x \in Obj : refs'[x] = IF x \in F THEN {} ELSE refs[x]
       /\ refs' \in [Obj -> SUBSET Obj]
  BY <1>2, <1>3 DEF MarkAfterSweep, RefsAfterSweep, IndInv, TypeOK, Other, Whites
<1>12. \A x \in Obj : m[x] = "none" <=> mark[x] = "none"
  BY <1>3, <1>5
<1>13. F \cap finobj = {} /\ F \cap tobefnz = {} /\ l \notin finobj /\ l \notin tobefnz
  BY <1>10 DEF IndInv, TypeOK
<1>14. Heap' = Heap \ F
  <2>1. Heap' = allgc' \cup finobj' \cup tobefnz' /\ Heap = allgc \cup finobj \cup tobefnz
    BY DEF Heap
  <2> QED
    BY <2>1, <1>1, <1>2, <1>4, <1>13
<1>15. Dead' = {x \in Heap : m[x] = curw /\ x \notin F}
  BY <1>1, <1>3, <1>10, <1>11, <1>12 DEF Dead
<1>16. Live' = {x \in Heap : m[x] = "black"}
  BY <1>7, <1>10, <1>14, <1>15 DEF Live
<1> HIDE DEF m, dead, seeds
<1>17. TypeOK'
  <2>1. Heap' = {x \in Obj : mark'[x] # "none"}
    BY <1>3, <1>10, <1>11, <1>12, <1>14
  <2>2. allgc' \cap finobj' = {} /\ allgc' \cap tobefnz' = {} /\ finobj' \cap tobefnz' = {}
    BY <1>1, <1>2, <1>4 DEF IndInv, TypeOK
  <2>3. allgc' \subseteq Obj /\ finobj' \subseteq Obj /\ tobefnz' \subseteq Obj /\ unswept' \subseteq Obj
    BY <1>1, <1>2, <1>4 DEF IndInv, TypeOK
  <2> QED
    BY <2>1, <2>2, <2>3, <1>1, <1>11 DEF IndInv, TypeOK, Other, Whites
<1>18. LiveIsClosed'
  <2>1. (Roots \cup finobj \cup tobefnz)' \subseteq Live'
    BY <1>1, <1>9, <1>16 DEF Roots
  <2>2. \A x \in Live' : refs'[x] \subseteq Live'
    BY <1>3, <1>8, <1>10, <1>11, <1>16
  <2>3. \A x \in Obj : mark'[x] = "none" \/ x \in Strings => refs'[x] = {}
    BY <1>10, <1>11, <1>12 DEF IndInv, LiveIsClosed
  <2>4. Main \in allgc'
    BY <1>2, <1>9, <1>10 DEF Roots, IndInv, LiveIsClosed
  <2> QED
    BY <2>1, <2>2, <2>3, <2>4 DEF LiveIsClosed
<1>19. Marking' /\ BlackNeverPointsToWhite' /\ GrayIsListed'
  BY <1>1 DEF Marking, BlackNeverPointsToWhite, GrayIsListed, KeepInvariant
<1>20. Sweeping'
  <2>1. Dead' \subseteq unswept'
    BY <1>2, <1>9, <1>10, <1>15, <1>1 DEF Heap
  <2>2. \A x \in Heap' \ Pending' : mark'[x] = curw'
    BY <1>1, <1>2, <1>3, <1>10, <1>11, <1>14 DEF Pending, Heap
  <2> QED
    BY <2>1, <2>2, <1>1, <1>2 DEF Sweeping
<1>21. Control'
  BY <1>1 DEF IndInv, Control, CollectorRuns, CollectorIdle
<1>22. \A o \in Heap \ Heap' : o \notin Needed
  <2> DEFINE T == {x \in Heap : m[x] = "black"}
  <2>1. T \in SUBSET Obj /\ Closed(T)
    BY <1>3, <1>8 DEF Closed
  <2>2. Roots \cup finobj \cup tobefnz \subseteq T
    BY <1>1, <1>9
  <2>3. Needed \subseteq T
    BY <2>1, <2>2 DEF Needed, Reach
  <2>4. \A o \in Heap \ Heap' : o \notin T
    BY <1>10, <1>14
  <2> QED
    BY <2>3, <2>4
<1> QED
  BY <1>17, <1>18, <1>19, <1>20, <1>21, <1>22 DEF IndInv

-----------------------------------------------------------------------------
(* Every step preserves the invariant. *)

LEMMA StutterInv == IndInv /\ UNCHANGED vars => IndInv'
BY DEF vars, lists, control, IndInv, TypeOK, LiveIsClosed, Marking, Sweeping, Control, Pending,
       BlackNeverPointsToWhite, GrayIsListed, KeepInvariant, White, Black, Heap, Live, Dead, Roots

LEMMA NextInv == IndInv /\ [Next]_vars => IndInv'
<1> SUFFICES ASSUME IndInv, [Next]_vars PROVE IndInv'
  OBVIOUS
<1>1. CASE MutatorStep
  BY <1>1, NewInv, PopInv, LoadInv, EraseInv, StoreInTableInv, StoreInClosureInv, XMoveInv,
     SwitchInv, TypeMetatableInv, SetMetatableInv, SetFinalizerInv, StartInv, CloseInv
  DEF MutatorStep
<1>2. CASE CollectorStep
  BY <1>2, FullNextInv, RestartInv, GcStateInv, AtomicInv, PropagateInv, SweepOneInv, SweepNextInv,
     CallFinInv, FinInv, FreeAllInv
  DEF CollectorStep
<1>3. CASE UNCHANGED vars
  BY <1>3, StutterInv
<1> QED
  BY <1>1, <1>2, <1>3 DEF Next

(* IndInv holds in every reachable state, for every set of objects.        *)
THEOREM Invariance == Spec => []IndInv
BY InitInv, NextInv, PTL DEF Spec

(* Types are respected, and every allocated object is in exactly one list. *)
THEOREM TypeCorrect == Spec => []TypeOK
<1>1. IndInv => TypeOK
  BY DEF IndInv
<1> QED
  BY <1>1, Invariance, PTL

(* No reachable object, and nothing a finalizer still needs, is ever freed. *)
THEOREM ReachableKept == Spec => []ReachableAllocated
<1>1. IndInv => ReachableAllocated
  <2> SUFFICES ASSUME IndInv PROVE Needed \subseteq Heap
    BY DEF ReachableAllocated
  <2>1. Live \in SUBSET Obj /\ Closed(Live) /\ Roots \cup finobj \cup tobefnz \subseteq Live
    BY DEF IndInv, TypeOK, LiveIsClosed, Closed, Live
  <2> QED
    BY <2>1 DEF Needed, Reach, Live
<1> QED
  BY <1>1, Invariance, PTL

(* While the invariant is kept, no black object refers to a white one,     *)
(* whatever the program stores and whenever it does.                       *)
THEOREM TriColour == Spec => []BlackNeverPointsToWhite
<1>1. IndInv => BlackNeverPointsToWhite
  BY DEF IndInv
<1> QED
  BY <1>1, Invariance, PTL

(* While the invariant is kept, an object is gray when it is in one of the *)
(* gray lists, and it is in one of them only.                              *)
THEOREM GrayInOneList == Spec => []GrayIsListed
<1>1. IndInv => GrayIsListed
  BY DEF IndInv
<1> QED
  BY <1>1, Invariance, PTL

(* All objects are white again once a sweep has ended.                     *)
THEOREM WhiteBetweenCycles == Spec => []AllWhiteBetweenCycles
<1>1. IndInv => AllWhiteBetweenCycles
  BY DEF IndInv, Sweeping, Pending, AllWhiteBetweenCycles, KeepInvariant
<1> QED
  BY <1>1, Invariance, PTL

(* What any step but the marking one frees was dead before it.             *)
LEMMA FreesDead ==
  ASSUME IndInv, [Next]_vars
  PROVE  Atomic \/ FreeAllObjects \/ Heap \ Heap' \subseteq Dead
<1> USE DEF lists, control
<1>1. ASSUME NEW o \in Obj, NEW mt \in Obj, SetFinalizer(o, mt)
      PROVE  Heap \ Heap' \subseteq Dead
  <2> DEFINE f == MarkAfterForward(o, mt)
             m == IF IsSweepPhase THEN [f EXCEPT ![o] = curw] ELSE f
  <2>1. PICK s \in SweepMovedOn(o, m) : allgc' = allgc \ ({o} \cup s[1])
    BY <1>1 DEF SetFinalizer
  <2>2. finobj' = finobj \cup {o} /\ tobefnz' = tobefnz
    BY <1>1 DEF SetFinalizer
  <2>3. \A x \in Obj : m[x] = Other(curw) => x \in Dead
    BY DEF IndInv, TypeOK, MarkAfterForward, MarkedBy, ForwardHit, Whites, White, Black, Other,
           Dead, Marking
  <2>4. s[1] \subseteq Dead
    BY <2>3 DEF SweepMovedOn, SweptToLive, IndInv, TypeOK
  <2> QED
    BY <2>1, <2>2, <2>4 DEF Heap
<1>2. ASSUME EnterFull
      PROVE  Heap \ Heap' \subseteq Dead
  <2>1. finobj' = finobj /\ tobefnz' = tobefnz
    BY <1>2 DEF EnterFull
  <2>2. CASE allgc' = allgc
    BY <2>1, <2>2 DEF Heap
  <2>3. CASE KeepInvariant
    <3>1. PICK s \in SweptToLive(allgc, mark) : allgc' = allgc \ s[1]
      BY <1>2, <2>3 DEF EnterFull
    <3>2. s[1] \subseteq Dead
      BY DEF SweptToLive, Dead, IndInv, TypeOK
    <3> QED
      BY <3>1, <3>2, <2>1 DEF Heap
  <2> QED
    BY <2>2, <2>3, <1>2 DEF EnterFull
<1>3. CASE MutatorStep
  <2>1. CASE \E o, mt \in Obj : SetFinalizer(o, mt)
    BY <2>1, <1>1
  <2>2. CASE StartFull \/ StartEmergency
    BY <2>2, <1>2 DEF StartFull, StartEmergency
  <2>3. CASE Close
    BY <2>3 DEF Close, Heap
  <2>4. CASE \E o \in Obj : New(o)
    BY <2>4 DEF New, Heap
  <2>5. CASE UNCHANGED lists
    BY <2>5 DEF Heap
  <2> QED
    BY <1>3, <2>1, <2>2, <2>3, <2>4, <2>5
    DEF MutatorStep, Pop, Load, Erase, StoreInTable, LinkedAgain, StoreInClosure, XMove, Switch,
        SetTypeMetatable, ClearTypeMetatable, SetMetatable
<1>4. CASE CollectorStep
  <2>1. CASE Atomic \/ FreeAllObjects
    BY <2>1
  <2>2. CASE \E o \in Obj : SweepOne(o)
    BY <2>2 DEF SweepOne, Heap
  <2>3. CASE \E o \in Obj : GCTM(o)
    BY <2>3 DEF GCTM, LeavesToBeFnz, Heap
  <2>4. CASE UNCHANGED lists
    BY <2>4 DEF Heap
  <2> QED
    BY <1>4, <2>1, <2>2, <2>3, <2>4
    DEF CollectorStep, FullNext, RestartCollection, EnterAtomic, PropagateMark, VisitedColor, VisitAgain, SweepNext,
        FinishCycle, CallFin, CallNextFin, FinReturn, BatchDone
<1>5. CASE UNCHANGED vars
  BY <1>5 DEF vars, Heap
<1> QED
  BY <1>3, <1>4, <1>5 DEF Next

(* The collector frees only what the program can no longer reach.          *)
THEOREM OnlyGarbageFreed == Spec => FreesOnlyGarbage
<1>1. IndInv /\ [Next]_vars =>
        [closing' # "closed" => \A o \in Heap \ Heap' : o \notin Needed]_vars
  <2> SUFFICES ASSUME IndInv, [Next]_vars, closing' # "closed"
               PROVE  \A o \in Heap \ Heap' : o \notin Needed
    OBVIOUS
  <2>1. CASE Atomic
    BY <2>1, AtomicInv
  <2>2. CASE Heap \ Heap' \subseteq Dead
    <3>1. Live \in SUBSET Obj /\ Closed(Live) /\ Roots \cup finobj \cup tobefnz \subseteq Live
      BY DEF IndInv, TypeOK, LiveIsClosed, Closed, Live
    <3>2. Needed \subseteq Live
      BY <3>1 DEF Needed, Reach
    <3> QED
      BY <2>2, <3>2 DEF Live
  <2> QED
    BY <2>1, <2>2, FreesDead DEF FreeAllObjects
<1> QED
  BY <1>1, Invariance, PTL DEF Spec, FreesOnlyGarbage

(* No object goes from finobj or tobefnz to the allocator.                 *)
THEOREM FinalizerComesFirst == Spec => FinalizedBeforeFreed
<1>1. IndInv /\ [Next]_vars => [\A o \in finobj \cup tobefnz : o \in Heap']_vars
  <2> SUFFICES ASSUME IndInv, [Next]_vars
               PROVE  \A o \in finobj \cup tobefnz : o \in Heap'
    OBVIOUS
  <2>1. CASE Atomic
    BY <2>1 DEF Atomic, NextWhite, Heap, lists
  <2>2. CASE FreeAllObjects
    BY <2>2 DEF FreeAllObjects, IndInv, Control
  <2>3. CASE Heap \ Heap' \subseteq Dead
    BY <2>3 DEF Heap, IndInv, LiveIsClosed, Live
  <2> QED
    BY <2>1, <2>2, <2>3, FreesDead
<1> QED
  BY <1>1, Invariance, PTL DEF Spec, FinalizedBeforeFreed
=============================================================================
