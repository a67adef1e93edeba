---------------------------- MODULE LuaWeak_proofs ----------------------------
(***************************************************************************)
(* Weak tables, for any heap, any order of the gray lists and any program. *)
(*                                                                         *)
(* An object that is marked is waiting for its visit (Pending) or Settled: *)
(* its visit has left what its kind promises.  For an ephemeron table that *)
(* waits for its keys this is nothing yet, and the rounds of               *)
(* convergeephemerons end when a whole round marks nothing: then each such *)
(* table is Converged.  What is reachable is then marked, for the marked   *)
(* objects are closed under ReachedBy (NothingLeft).                       *)
(*                                                                         *)
(* That nothing else is marked is shown for a collection that the program  *)
(* does not disturb: a visit stays inside every set that is Closed, as the *)
(* two sets of what is reachable are (ReachIsClosed, ReachedIsClosed).     *)
(* The two bounds meet where tables are cleared, so that the tests of the  *)
(* clearing decide what is reachable (ClearValuesExact, ClearKeysExact).   *)
(***************************************************************************)
EXTENDS LuaWeak, DataLemmas, TLAPS

-----------------------------------------------------------------------------
(* The invariant. *)

NW == {o \in Obj : ~White(o)}
Entries == Seq((Held \cup {NoKey}) \X Held)
Phases == {"pause", "propagate", "roots", "upvalues", "again", "converge", "resurrect",
           "converge again", "done"}

(* the entries that the collector goes by: those atomic has found *)
Original(t) == ToSet(IF InAtomic THEN before[t] ELSE entries[t])
OKeys(t) == {e[1] : e \in Original(t)} \ {NoKey}
OValues(t) == {e[2] : e \in Original(t)}

TypeInv ==
  /\ color \in [Obj -> {"white", "gray", "black"}]
  /\ entries \in [AllTables -> Entries] /\ before \in [AllTables -> Entries]
  /\ stack \in [Threads -> SUBSET Held]
  /\ upvals \in [Closures -> SUBSET Upvalues]
  /\ val \in [Upvalues -> Held]
  /\ owner \in [Upvalues -> Threads \cup {"closed"}]
  /\ finobj \subseteq Held /\ tobefnz \subseteq Held
  /\ phase \in Phases /\ changed \in BOOLEAN

PhaseInv ==
  /\ phase = "pause" => NW = {}
  /\ phase # "pause" => Main \in NW
  /\ phase \notin {"roots", "upvalues"} => saved = {}
  /\ phase \notin {"converge", "converge again"} => next = {}
  /\ phase \notin {"resurrect", "converge again", "done"} => origweak = {} /\ origall = {}
  /\ phase \in {"roots", "done"} => gray = {}
  /\ ~InAtomic => weak = {} /\ ephemeron = {}
  /\ phase \in {"pause", "propagate", "roots"} =>
       \A u \in Upvalues : owner[u] # "closed" => owner[u] \in twups

(* what has still to be visited *)
Later == saved \cup (IF InAtomic THEN {} ELSE grayagain)
Pending == gray \cup Later \cup next

ListInv ==
  /\ gray \subseteq NW \cap (AllTables \cup Closures \cup Threads)
  /\ grayagain \subseteq NW /\ saved \subseteq NW \cap (AllTables \cup Closures \cup Threads)
  /\ weak \subseteq NW \cap WeakValue /\ ephemeron \subseteq NW \cap Ephemeron
  /\ allweak \subseteq NW \cap (AllWeak \cup Ephemeron)
  /\ next \subseteq NW \cap Ephemeron
  /\ (gray \cup Later) \cap (weak \cup allweak) = {}
  /\ gray \cap Later \cap (AllTables \ Strong) = {}
  /\ origweak \subseteq weak /\ origall \subseteq allweak
  /\ ~InAtomic => /\ \A t \in AllTables \ Strong : color[t] # "black"
                  /\ grayagain \subseteq AllTables \cup Closures \cup Threads

(* an object that has been visited *)
SettledStrong(t) == color[t] = "black" /\ OKeys(t) \cup OValues(t) \subseteq NW
SettledWeakValue(t) ==
  /\ InAtomic
  /\ OKeys(t) \subseteq NW
  /\ t \in weak \/ OValues(t) \subseteq NW
  /\ (t \in weak \ origweak /\ phase # "done") \/ OValues(t) \cap Strings \subseteq NW
SettledEphemeron(t) ==
  /\ InAtomic
  /\ \/ t \in ephemeron
     \/ OValues(t) \subseteq NW /\ (t \in allweak \/ OKeys(t) \subseteq NW)
SettledThread(th) ==
  /\ InAtomic
  /\ stack[th] \cup OpenIn(th) \cup {val[u] : u \in OpenIn(th)} \subseteq NW
Settled(o) ==
  /\ o \in Strong => SettledStrong(o)
  /\ o \in WeakValue => SettledWeakValue(o)
  /\ o \in Ephemeron => SettledEphemeron(o)
  /\ o \in AllWeak => o \in allweak
  /\ o \in Closures => upvals[o] \subseteq NW
  /\ o \in Threads => SettledThread(o)
SettledInv == \A o \in NW \ Pending : Settled(o)

UpvalInv ==
  \A u \in NW \cap Upvalues :
    \/ val[u] \in NW /\ (owner[u] = "closed" => color[u] = "black")
    \/ /\ owner[u] # "closed"
       /\ \/ owner[u] \in Pending
          \/ phase \in {"propagate", "roots"} /\ White(owner[u])

AllweakInv == InAtomic => \A t \in allweak \cap Ephemeron : OValues(t) \subseteq NW

EntriesInv ==
  InAtomic => \A t \in AllTables :
    /\ ToSet(entries[t]) \subseteq ToSet(before[t])
    /\ t \in Strong \/ (phase # "done" /\ t \notin origweak \cup (origall \ Ephemeron))
         => entries[t] = before[t]

ClearedInv ==
  phase \in {"resurrect", "converge again"} =>
    \A t \in origweak \cup origall : Values(t) \subseteq NW

(* a key that is marked has a value that is marked *)
Converged(t) == \A e \in Original(t) : Cleared(e[1], color) \/ ~White(e[2])
ConvergeInv ==
  /\ phase \in {"converge", "converge again"} =>
       /\ gray # {} => changed
       /\ ~changed => \A t \in ephemeron : Converged(t)
  /\ phase = "done" => \A t \in ephemeron : Converged(t)

StrongInv ==
  phase \in {"resurrect", "converge again", "done"} =>
    /\ StrongSet \subseteq NW \cup Strings
    /\ finobj \cup tobefnz \subseteq NW
    /\ \A t \in StrongSet \cap AllTables : \A e \in ToSet(before[t]) :
         {e[1], e[2]} \subseteq StrongSet \cup {NoKey} => e \in ToSet(entries[t])

DoneInv ==
  phase = "done" => \A t \in NW \cap AllTables : Keys(t) \cup Values(t) \subseteq NW

IndInv ==
  /\ TypeInv /\ PhaseInv /\ ListInv /\ SettledInv /\ UpvalInv /\ AllweakInv
  /\ EntriesInv /\ ClearedInv /\ ConvergeInv /\ StrongInv /\ DoneInv

-----------------------------------------------------------------------------
(* What the invariant rests on. *)

(* an object is of one kind *)
LEMMA KindFacts ==
  ASSUME WeakAssumption
  PROVE  /\ Upvalues \cap (AllTables \cup Closures \cup Threads \cup Strings \cup Plain) = {}
         /\ Strings \cap (AllTables \cup Closures \cup Threads \cup Plain) = {}
         /\ Plain \cap (AllTables \cup Closures \cup Threads) = {}
         /\ Threads \cap (AllTables \cup Closures) = {} /\ Closures \cap AllTables = {}
         /\ Strong \cap (WeakValue \cup Ephemeron \cup AllWeak) = {}
         /\ WeakValue \cap (Ephemeron \cup AllWeak) = {} /\ Ephemeron \cap AllWeak = {}
<1>1. \A i, j \in 1..9 : i # j => Kinds[i] \cap Kinds[j] = {}
  BY DEF WeakAssumption, Kinds
<1>2. /\ Kinds[1] = Strong /\ Kinds[2] = WeakValue /\ Kinds[3] = Ephemeron
      /\ Kinds[4] = AllWeak /\ Kinds[5] = Closures /\ Kinds[6] = Upvalues
      /\ Kinds[7] = Threads /\ Kinds[8] = Strings /\ Kinds[9] = Plain
  BY DEF Kinds
<1>3. \A i \in 1..8 : Kinds[i] \cap Kinds[9] = {}
  BY <1>1
<1>4. \A i \in 1..7 : Kinds[i] \cap Kinds[8] = {}
  BY <1>1
<1>5. \A i \in 1..6 : Kinds[i] \cap Kinds[7] = {}
  BY <1>1
<1>6. \A i \in 1..5 : Kinds[i] \cap Kinds[6] = {}
  BY <1>1
<1>7. \A i \in 1..4 : Kinds[i] \cap Kinds[5] = {}
  BY <1>1
<1>8. \A i \in 1..3 : \A j \in 1..4 : i < j => Kinds[i] \cap Kinds[j] = {}
  BY <1>1
<1>a. /\ Strong \cap Plain = {} /\ WeakValue \cap Plain = {} /\ Ephemeron \cap Plain = {}
      /\ AllWeak \cap Plain = {} /\ Closures \cap Plain = {} /\ Upvalues \cap Plain = {}
      /\ Threads \cap Plain = {} /\ Strings \cap Plain = {}
  BY <1>2, <1>3
<1>b. /\ Strong \cap Strings = {} /\ WeakValue \cap Strings = {} /\ Ephemeron \cap Strings = {}
      /\ AllWeak \cap Strings = {} /\ Closures \cap Strings = {} /\ Upvalues \cap Strings = {}
      /\ Threads \cap Strings = {}
  BY <1>2, <1>4
<1>c. /\ Strong \cap Threads = {} /\ WeakValue \cap Threads = {} /\ Ephemeron \cap Threads = {}
      /\ AllWeak \cap Threads = {} /\ Closures \cap Threads = {} /\ Upvalues \cap Threads = {}
  BY <1>2, <1>5
<1>d. /\ Strong \cap Upvalues = {} /\ WeakValue \cap Upvalues = {} /\ Ephemeron \cap Upvalues = {}
      /\ AllWeak \cap Upvalues = {} /\ Closures \cap Upvalues = {}
  BY <1>2, <1>6
<1>e. /\ Strong \cap Closures = {} /\ WeakValue \cap Closures = {} /\ Ephemeron \cap Closures = {}
      /\ AllWeak \cap Closures = {}
  BY <1>2, <1>7
<1>f. /\ Strong \cap WeakValue = {} /\ Strong \cap Ephemeron = {} /\ Strong \cap AllWeak = {}
      /\ WeakValue \cap Ephemeron = {} /\ WeakValue \cap AllWeak = {} /\ Ephemeron \cap AllWeak = {}
  BY <1>2, <1>8
<1> QED
  BY <1>a, <1>b, <1>c, <1>d, <1>e, <1>f DEF AllTables

(* The new colours are those of Marked, but for the objects of Z, which    *)
(* are marked and stay so in some colour.                                  *)
Recolours(S, Z) ==
  /\ color' \in [Obj -> {"white", "gray", "black"}]
  /\ \A o \in Obj \ Z : color'[o] = Marked(S)[o]
  /\ \A o \in Z : color'[o] # "white"

(* What marking does: nothing loses its mark, and what can be traversed    *)
(* goes to the gray list; an upvalue takes its value along.                *)
LEMMA Marking ==
  ASSUME TypeInv, WeakAssumption, NEW S \in SUBSET Obj, NEW Z \in SUBSET NW, Recolours(S, Z)
  PROVE  /\ NW' = NW \cup WithValues(S)
         /\ WithValues(S) \subseteq Obj
         /\ \A o \in NW \ Z : color'[o] = color[o]
         /\ \A o \in NW' \ NW :
              /\ color'[o] = MarkColor(o)
              /\ o \in AllTables \cup Closures \cup Threads => o \in ToGray(S)
         /\ \A u \in (NW' \ NW) \cap Upvalues : val[u] \in NW'
         /\ ToGray(S) \subseteq (NW' \ NW) \cap (AllTables \cup Closures \cup Threads)
<1>1. WithValues(S) \subseteq Obj
  BY DEF WithValues, TypeInv, Held
<1>2. /\ NW = {o \in Obj : color[o] # "white"}
      /\ NW' = {o \in Obj : color'[o] # "white"}
  BY DEF NW, White
<1>3. \A o \in Obj \ Z : color'[o] = IF o \in WithValues(S) /\ color[o] = "white"
                                     THEN MarkColor(o) ELSE color[o]
  BY DEF Recolours, Marked, White
<1>4. \A o : MarkColor(o) # "white"
  BY DEF MarkColor
<1>5. \A o \in Z : color'[o] # "white" /\ color[o] # "white" /\ o \in Obj
  BY <1>2 DEF Recolours
<1>6. NW' = NW \cup WithValues(S)
  BY <1>1, <1>2, <1>3, <1>4, <1>5
<1>7. \A o \in NW \ Z : color'[o] = color[o]
  BY <1>2, <1>3
<1>8. \A o \in NW' \ NW : o \in WithValues(S) /\ color[o] = "white" /\ color'[o] = MarkColor(o)
  BY <1>2, <1>3, <1>5, <1>6
<1>9. ToGray(S) = {o \in WithValues(S) : color[o] = "white" /\ o \in AllTables \cup Closures \cup Threads}
  BY DEF ToGray, White
<1>10. ASSUME NEW u \in (NW' \ NW) \cap Upvalues PROVE val[u] \in NW'
  <2>1. u \in WithValues(S) /\ White(u)
    BY <1>8, <1>10 DEF White
  <2>2. \A x \in Upvalues : val[x] \notin Upvalues
    BY DEF TypeInv, Held
  <2>3. u \in S
    BY <2>1, <2>2, <1>10 DEF WithValues
  <2>4. val[u] \in WithValues(S)
    BY <2>1, <2>3, <1>10 DEF WithValues
  <2> QED
    BY <2>4, <1>6
<1>11. ToGray(S) \subseteq (NW' \ NW) \cap (AllTables \cup Closures \cup Threads)
  BY <1>1, <1>2, <1>6, <1>9
<1>12. ASSUME NEW o \in NW' \ NW PROVE o \in AllTables \cup Closures \cup Threads => o \in ToGray(S)
  BY <1>8, <1>9
<1> QED
  BY <1>1, <1>6, <1>7, <1>8, <1>10, <1>11, <1>12

-----------------------------------------------------------------------------
(* A pass over the entries of an ephemeron table (traverseephemeron). *)

(* the values in the array part are marked first *)
ArrayValues(s) == {e[2] : e \in {x \in ToSet(s) : x[1] = NoKey /\ White(x[2])}}

(* node n adds its value, if the key is marked *)
PassStep(s, n, m) == m \cup {v \in {s[n][2]} : White(v) /\ ~KeyWhite(s[n][1], m)}

(* the elements of a sequence of entries *)
LEMMA EntryFacts ==
  ASSUME NEW s \in Entries
  PROVE  /\ Len(s) \in Nat /\ DOMAIN s = 1..Len(s)
         /\ \A n \in 1..Len(s) : /\ s[n] \in ToSet(s)
                                 /\ s[n][1] \in Held \cup {NoKey} /\ s[n][2] \in Held
         /\ \A e \in ToSet(s) : /\ \E n \in 1..Len(s) : e = s[n]
                                /\ e[1] \in Held \cup {NoKey} /\ e[2] \in Held
<1>1. s \in Seq((Held \cup {NoKey}) \X Held)
  BY DEF Entries
<1>2. \A n \in 1..Len(s) : s[n] \in (Held \cup {NoKey}) \X Held
  BY <1>1
<1> QED
  BY <1>1, <1>2 DEF ToSet

(* the recursive function Pass *)
LEMMA PassIsRecursive ==
  ASSUME NEW s \in Entries
  PROVE  /\ Pass(s)[0] = ArrayValues(s)
         /\ \A n \in 1..Len(s) : Pass(s)[n] = PassStep(s, n, Pass(s)[n - 1])
         /\ \A n \in 0..Len(s) : Pass(s)[n] \subseteq Obj
<1> DEFINE D == SUBSET Obj
           N == Len(s)
           step == [n \in 1..N |-> [m \in D |-> PassStep(s, n, m)]]
           Body(g) == [n \in 0..N |-> IF n = 0 THEN ArrayValues(s)
                                      ELSE PassStep(s, n, g[n - 1])]
<1>1. N \in Nat /\ ArrayValues(s) \in D
  BY EntryFacts DEF ArrayValues, Held
<1>2. \A n \in 1..N : \A m \in D : PassStep(s, n, m) \in D
  BY EntryFacts DEF PassStep, Held
<1>3. step \in [1..N -> [D -> D]]
  BY <1>2
<1>4. \A n \in 1..N : \A m \in D : step[n][m] = PassStep(s, n, m)
  OBVIOUS
<1> HIDE DEF N, D, step
<1>5. PICK g \in [0..N -> D] : g[0] = ArrayValues(s) /\ \A n \in 1..N : g[n] = step[n][g[n - 1]]
  <2>1. step \in Steps(N, D)
    BY <1>3 DEF Steps
  <2>2. \E g : Iterates(g, N, D, ArrayValues(s), step)
    BY <1>1, <2>1, FiniteRecursion
  <2> QED
    BY <2>2 DEF Iterates
<1>6. \A n \in 1..N : n - 1 \in 0..N /\ n \in 0..N /\ n # 0
  BY <1>1
<1>7. \A n \in 1..N : g[n] = PassStep(s, n, g[n - 1])
  BY <1>4, <1>5, <1>6
<1>8. \A n \in 0..N : n = 0 \/ n \in 1..N
  BY <1>1
<1>9. g = Body(g)
  BY <1>5, <1>7, <1>8
<1>10. Pass(s) = CHOOSE h : h = Body(h)
  BY DEF Pass, PassStep, ArrayValues, N
<1> DEFINE P == Pass(s)
<1>11. P = Body(P)
  <2> HIDE DEF Body
  <2> QED
    BY <1>9, <1>10
<1> HIDE DEF P
<1>12. P[0] = ArrayValues(s) /\ \A n \in 1..N : P[n] = PassStep(s, n, P[n - 1])
  BY <1>1, <1>6, <1>11
<1> DEFINE T == {n \in Nat : n \in 0..N => P[n] \in D}
<1>13. 0 \in T
  BY <1>1, <1>12
<1>14. ASSUME NEW n \in Nat, n \in T PROVE n + 1 \in T
  <2> SUFFICES ASSUME n + 1 \in 0..N PROVE P[n + 1] \in D
    OBVIOUS
  <2>1. n + 1 \in 1..N /\ n + 1 - 1 = n /\ n \in 0..N
    BY <1>1
  <2>2. P[n + 1] = PassStep(s, n + 1, P[n]) /\ P[n] \in D
    BY <1>12, <1>14, <2>1
  <2> QED
    BY <1>2, <2>1, <2>2 DEF N
<1> HIDE DEF T
<1>15. Nat \subseteq T
  BY <1>13, <1>14, SetInduction
<1>16. \A n \in 0..N : P[n] \in D
  BY <1>1, <1>15 DEF T
<1> QED
  BY <1>12, <1>16 DEF P, N, D

(* What a pass marks: white values; of an entry whose key it finds marked  *)
(* the value, and where it sees no white pair too.                         *)
LEMMA PassFacts ==
  ASSUME NEW s \in Entries
  PROVE  LET P == Pass(s)
             last == P[Len(s)]
         IN  /\ last \subseteq {e[2] : e \in ToSet(s)} /\ last \subseteq Obj /\ last \cap NW = {}
             /\ \A n \in 1..Len(s) : SeesKey(s, P, n) => Cleared(s[n][1], color)
             /\ \A n \in 1..Len(s) : ~SeesKey(s, P, n) => /\ s[n][2] \in NW \cup last
                                                         /\ s[n][1] \in NW \cup last \cup Strings \cup {NoKey}
             /\ \A n \in 1..Len(s) : ~SeesPair(s, P, n) => s[n][2] \in NW \cup last
<1> DEFINE P == Pass(s)
           N == Len(s)
           last == P[N]
<1>1. N \in Nat
  BY EntryFacts
<1>2. /\ P[0] = ArrayValues(s)
      /\ \A n \in 1..N : P[n] = PassStep(s, n, P[n - 1])
      /\ \A n \in 0..N : P[n] \subseteq Obj
  BY PassIsRecursive
<1> HIDE DEF P
<1> DEFINE W == {e[2] : e \in ToSet(s)} \ NW
           T == {n \in Nat : n \in 0..N => P[n] \subseteq W}
<1>3. \A n \in 1..N : s[n][2] \in Obj /\ (White(s[n][2]) <=> s[n][2] \notin NW)
                    /\ s[n][2] \in {e[2] : e \in ToSet(s)}
  BY EntryFacts DEF NW, Held
<1>4. 0 \in T
  <2>1. ArrayValues(s) \subseteq W
    BY EntryFacts DEF ArrayValues, NW
  <2> QED
    BY <1>2, <2>1
<1>5. ASSUME NEW n \in Nat, n \in T PROVE n + 1 \in T
  <2> SUFFICES ASSUME n + 1 \in 0..N PROVE P[n + 1] \subseteq W
    OBVIOUS
  <2>1. n + 1 \in 1..N /\ n + 1 - 1 = n /\ n \in 0..N
    BY <1>1
  <2>2. P[n + 1] = PassStep(s, n + 1, P[n]) /\ P[n] \subseteq W
    BY <1>2, <1>5, <2>1
  <2> QED
    BY <1>3, <2>1, <2>2 DEF PassStep
<1>6. Nat \subseteq T
  <2> HIDE DEF T
  <2> QED
    BY <1>4, <1>5, SetInduction
<1>7. last \subseteq W
  BY <1>1, <1>6
<1>8. ASSUME NEW n \in 0..N PROVE P[n] \subseteq last
  <2> DEFINE R == {k \in Nat : n + k \in 0..N => P[n] \subseteq P[n + k]}
  <2>1. 0 \in R
    BY <1>8
  <2>2. ASSUME NEW k \in Nat, k \in R PROVE k + 1 \in R
    <3> SUFFICES ASSUME n + (k + 1) \in 0..N PROVE P[n] \subseteq P[n + (k + 1)]
      OBVIOUS
    <3>1. n + (k + 1) \in 1..N /\ n + (k + 1) - 1 = n + k /\ n + k \in 0..N
      BY <1>1
    <3>2. P[n + (k + 1)] = PassStep(s, n + (k + 1), P[n + k])
      BY <1>2, <3>1
    <3> QED
      BY <2>2, <3>1, <3>2 DEF PassStep
  <2>3. Nat \subseteq R
    <3> HIDE DEF R
    <3> QED
      BY <2>1, <2>2, SetInduction
  <2>4. N - n \in Nat /\ n + (N - n) = N /\ N \in 0..N
    BY <1>1, <1>8
  <2> QED
    BY <2>3, <2>4
<1>9. ASSUME NEW n \in 1..N PROVE P[n - 1] \subseteq last /\ P[n] \subseteq last
  BY <1>1, <1>8, <1>9
<1>10. ASSUME NEW n \in 1..N, ~SeesKey(s, P, n)
       PROVE  s[n][2] \in NW \cup last /\ s[n][1] \in NW \cup last \cup Strings \cup {NoKey}
  <2>1. ~KeyWhite(s[n][1], P[n - 1])
    BY <1>10 DEF SeesKey
  <2>2. White(s[n][2]) => s[n][2] \in P[n]
    BY <1>2, <2>1 DEF PassStep
  <2>3. s[n][1] \in Held \cup {NoKey}
    BY EntryFacts
  <2>4. s[n][1] \in NW \cup P[n - 1] \cup Strings \cup {NoKey}
    BY <2>1, <2>3 DEF KeyWhite, Cleared, NW, White, Held
  <2> QED
    BY <1>3, <1>9, <2>2, <2>4
<1>11. ASSUME NEW n \in 1..N, ~SeesPair(s, P, n) PROVE s[n][2] \in NW \cup last
  <2>1. CASE ~SeesKey(s, P, n)
    BY <1>10, <2>1
  <2>2. CASE SeesKey(s, P, n)
    BY <1>3, <1>9, <1>11, <2>2 DEF SeesPair
  <2> QED
    BY <2>1, <2>2
<1>12. \A n \in 1..N : SeesKey(s, P, n) => Cleared(s[n][1], color)
  BY DEF SeesKey, KeyWhite
<1>13. last \subseteq Obj
  BY <1>1, <1>2
<1> QED
  BY <1>7, <1>10, <1>11, <1>12, <1>13 DEF P

(* a pass stays in a set that has the values of the keys it has *)
LEMMA PassWithin ==
  ASSUME NEW s \in Entries, WeakAssumption, NEW A \in SUBSET Obj, NW \subseteq A \cup Strings,
         \A e \in ToSet(s) : e[1] \in A \cup Strings \cup {NoKey} => e[2] \in A
  PROVE  Pass(s)[Len(s)] \subseteq A
<1> DEFINE P == Pass(s)
           N == Len(s)
<1>1. /\ N \in Nat
      /\ P[0] = ArrayValues(s)
      /\ \A n \in 1..N : P[n] = PassStep(s, n, P[n - 1])
      /\ \A n \in 1..N : s[n] \in ToSet(s) /\ s[n][1] \in Held \cup {NoKey}
  BY EntryFacts, PassIsRecursive
<1>2. P[0] \subseteq A
  BY <1>1 DEF ArrayValues
<1> HIDE DEF P, N
<1> DEFINE T == {n \in Nat : n \in 0..N => P[n] \subseteq A}
<1>3. 0 \in T
  BY <1>2
<1>4. ASSUME NEW n \in Nat, n \in T PROVE n + 1 \in T
  <2> SUFFICES ASSUME n + 1 \in 0..N PROVE P[n + 1] \subseteq A
    OBVIOUS
  <2>1. n + 1 \in 1..N /\ n + 1 - 1 = n /\ n \in 0..N
    BY <1>1
  <2>2. P[n + 1] = PassStep(s, n + 1, P[n]) /\ P[n] \subseteq A
    BY <1>1, <1>4, <2>1
  <2>3. ~KeyWhite(s[n + 1][1], P[n]) => s[n + 1][1] \in A \cup Strings \cup {NoKey}
    BY <1>1, <2>1, <2>2 DEF KeyWhite, Cleared, NW, White, Held
  <2>4. ~KeyWhite(s[n + 1][1], P[n]) => s[n + 1][2] \in A
    BY <1>1, <2>1, <2>3
  <2> QED
    BY <2>2, <2>4 DEF PassStep
<1> HIDE DEF T
<1>5. Nat \subseteq T
  BY <1>3, <1>4, SetInduction
<1>6. P[N] \subseteq A
  BY <1>1, <1>5 DEF T
<1> QED
  BY <1>6 DEF P, N

-----------------------------------------------------------------------------
(* The visits. *)

(* what stays during a visit, whatever is visited *)
Quiet == UNCHANGED <<entries, heap, fins, saved, origweak, origall, phase, before>>

(* what is visited is linked to one list and gray, or to none and black *)
Links(t) ==
  \/ color'[t] = "black" /\ UNCHANGED <<grayagain, weak, allweak, ephemeron>>
  \/ /\ color'[t] = "gray"
     /\ \/ grayagain' = grayagain \cup {t} /\ UNCHANGED <<weak, allweak, ephemeron>>
        \/ weak' = weak \cup {t} /\ UNCHANGED <<grayagain, allweak, ephemeron>>
        \/ allweak' = allweak \cup {t} /\ UNCHANGED <<grayagain, weak, ephemeron>>
        \/ ephemeron' = ephemeron \cup {t} /\ UNCHANGED <<grayagain, weak, allweak>>

(* a set that has all that its elements keep alive, some strings perhaps   *)
(* apart                                                                   *)
Closed(A) ==
  /\ \A t \in A \cap Strong : Keys(t) \cup Values(t) \subseteq A
  /\ \A t \in A \cap WeakValue : Keys(t) \subseteq A
  /\ \A t \in A \cap Ephemeron : \A e \in ToSet(entries[t]) :
       e[1] \in A \cup Strings \cup {NoKey} => e[2] \in A
  /\ \A c \in A \cap Closures : upvals[c] \subseteq A
  /\ \A u \in A \cap Upvalues : val[u] \in A
  /\ \A th \in A \cap Threads : stack[th] \cup OpenIn(th) \subseteq A

(* What is common to all visits: t marks the objects of S, is linked to    *)
(* one list at most, and is settled unless it waits for atomic.            *)
Visits(t, S) ==
  /\ Recolours(S, {t}) /\ gray' = (gray \cup ToGray(S)) \ {t}
  /\ grayagain \subseteq grayagain' /\ grayagain' \subseteq grayagain \cup {t}
  /\ weak \subseteq weak' /\ weak' \subseteq weak \cup {t}
  /\ allweak \subseteq allweak' /\ allweak' \subseteq allweak \cup {t}
  /\ ephemeron \subseteq ephemeron' /\ ephemeron' \subseteq ephemeron \cup {t}
  /\ t \in weak' \ weak => t \in WeakValue /\ InAtomic
  /\ t \in allweak' \ allweak => t \in AllWeak \cup Ephemeron
  /\ t \in ephemeron' \ ephemeron => t \in Ephemeron /\ InAtomic
  /\ ~InAtomic => /\ grayagain' = grayagain \/ allweak' = allweak
                  /\ t \in AllTables \ Strong => color'[t] # "black"
  /\ twups \subseteq twups'
  /\ InAtomic \/ t \notin grayagain' => Settled(t)'
  /\ InAtomic /\ t \in allweak' \cap Ephemeron => OValues(t) \subseteq NW'
  /\ Links(t)
  /\ \A A \in SUBSET Obj : Closed(A) /\ t \in A /\ NW \subseteq A \cup Strings =>
       S \subseteq A \cup Strings

(* the colour of what is visited *)
LEMMA RecolourOne ==
  ASSUME TypeInv, WeakAssumption, NEW S \in SUBSET Obj, NEW t \in NW,
         NEW c \in {"gray", "black"}, color' = [Marked(S) EXCEPT ![t] = c]
  PROVE  Recolours(S, {t}) /\ color'[t] = c
<1>1. Marked(S) \in [Obj -> {"white", "gray", "black"}]
  BY DEF Marked, MarkColor, TypeInv
<1>2. t \in Obj
  BY DEF NW
<1> HIDE DEF Marked
<1> QED
  BY <1>1, <1>2 DEF Recolours

(* the keys and the values of a table are objects that it may have *)
LEMMA TableFacts ==
  ASSUME TypeInv, WeakAssumption, NEW t \in AllTables
  PROVE  /\ Keys(t) \subseteq Held /\ Values(t) \subseteq Held /\ Held \subseteq Obj
         /\ OKeys(t) \subseteq Held /\ OValues(t) \subseteq Held
         /\ entries[t] \in Entries /\ before[t] \in Entries
<1>1. entries[t] \in Entries /\ before[t] \in Entries
  BY DEF TypeInv
<1>2. \A e \in ToSet(entries[t]) : e[1] \in Held \cup {NoKey} /\ e[2] \in Held
  BY <1>1, EntryFacts
<1>3. \A e \in ToSet(before[t]) : e[1] \in Held \cup {NoKey} /\ e[2] \in Held
  BY <1>1, EntryFacts
<1> QED
  BY <1>1, <1>2, <1>3 DEF Keys, Values, OKeys, OValues, Original, Held

(* a table that is still to be visited has the entries it had *)
LEMMA PendingEntries ==
  ASSUME WeakAssumption, PhaseInv, ListInv, EntriesInv, NEW t \in AllTables,
         t \in gray \cup next, phase # "done"
  PROVE  Original(t) = ToSet(entries[t]) /\ OKeys(t) = Keys(t) /\ OValues(t) = Values(t)
<1>1. InAtomic => t \in Strong \/ t \notin origweak \cup (origall \ Ephemeron)
  <2>1. t \in gray => t \notin weak \cup allweak
    BY DEF ListInv, Later
  <2>2. t \in next => t \in Ephemeron
    BY DEF ListInv
  <2> QED
    BY <2>1, <2>2, KindFacts DEF ListInv
<1>2. InAtomic => entries[t] = before[t]
  BY <1>1 DEF EntriesInv
<1> QED
  BY <1>2 DEF Original, OKeys, OValues, Keys, Values

(* what the collector goes by stays *)
LEMMA QuietFacts ==
  ASSUME Quiet
  PROVE  /\ InAtomic' = InAtomic
         /\ \A t : Original(t)' = Original(t) /\ OKeys(t)' = OKeys(t) /\ OValues(t)' = OValues(t)
         /\ \A t : Keys(t)' = Keys(t) /\ Values(t)' = Values(t)
         /\ \A th : OpenIn(th)' = OpenIn(th)
         /\ StrongSet' = StrongSet
<1>1. InAtomic' = InAtomic /\ \A th : OpenIn(th)' = OpenIn(th)
  BY DEF Quiet, InAtomic, OpenIn, heap
<1>2. \A t : Original(t)' = Original(t) /\ OKeys(t)' = OKeys(t) /\ OValues(t)' = OValues(t)
  BY <1>1 DEF Quiet, Original, OKeys, OValues
<1>3. \A t : Keys(t)' = Keys(t) /\ Values(t)' = Values(t)
  BY DEF Quiet, Keys, Values
<1>4. \A X : ReachedBy(X)' = ReachedBy(X)
  BY <1>1 DEF Quiet, ReachedBy, heap
<1>5. StrongSet' = StrongSet
  BY <1>4 DEF StrongSet, Reach
<1> QED
  BY <1>1, <1>2, <1>3, <1>5

(* traversestrongtable *)
LEMMA StrongVisits ==
  ASSUME WeakAssumption, IndInv, Quiet, NEW t \in gray, VisitStrong(t), phase # "done"
  PROVE  \E S \in SUBSET Obj : Visits(t, S)
<1> DEFINE S == Keys(t) \cup Values(t)
<1>1. t \in Strong /\ t \in AllTables /\ t \in NW
  BY DEF VisitStrong, AllTables, IndInv, ListInv
<1>2. S \in SUBSET Obj
  BY <1>1, TableFacts DEF IndInv
<1>3. Recolours(S, {t}) /\ color'[t] = "black"
  BY <1>1, <1>2, RecolourOne DEF VisitStrong, IndInv
<1> HIDE DEF S
<1>4. S \subseteq NW'
  <2>1. TypeInv /\ {t} \in SUBSET NW
    BY <1>1 DEF IndInv
  <2>2. NW' = NW \cup WithValues(S)
    BY <2>1, <1>2, <1>3, Marking
  <2> QED
    BY <2>2 DEF WithValues
<1>5. OKeys(t)' \cup OValues(t)' \subseteq NW'
  BY <1>1, <1>4, PendingEntries, QuietFacts DEF IndInv, S
<1>6. Settled(t)'
  BY <1>1, <1>3, <1>5, KindFacts DEF Settled, SettledStrong, AllTables
<1>7. UNCHANGED <<grayagain, weak, allweak, ephemeron, twups>> /\ gray' = (gray \cup ToGray(S)) \ {t}
  BY DEF VisitStrong, S
<1>8. t \notin allweak /\ t \notin Ephemeron
  BY <1>1, KindFacts DEF IndInv, ListInv
<1>9. Links(t)
  BY <1>3, <1>7 DEF Links
<1>10. \A A \in SUBSET Obj : Closed(A) /\ t \in A /\ NW \subseteq A \cup Strings =>
            S \subseteq A \cup Strings
  BY <1>1 DEF Closed, S
<1> QED
  BY <1>1, <1>2, <1>3, <1>6, <1>7, <1>8, <1>9, <1>10 DEF Visits

(* traverseweakvalue *)
LEMMA WeakValueVisits ==
  ASSUME WeakAssumption, IndInv, Quiet, NEW t \in gray, VisitWeakValue(t), phase # "done"
  PROVE  \E S \in SUBSET Obj : Visits(t, S)
<1>1. t \in WeakValue /\ t \in AllTables \ Strong /\ t \in NW /\ t \notin Ephemeron
  BY KindFacts DEF VisitWeakValue, AllTables, IndInv, ListInv
<1>2. PICK S \in {Keys(t), Keys(t) \cup (Values(t) \cap Strings)} :
        LET c == Marked(S)
            clears == InAtomic /\ HasClears(t, c)
        IN  /\ ~HasClears(t, c) => Values(t) \cap Strings \subseteq S
            /\ color' = [c EXCEPT ![t] = "gray"]
            /\ gray' = (gray \cup ToGray(S)) \ {t}
            /\ weak' = IF clears THEN weak \cup {t} ELSE weak
            /\ grayagain' = IF clears THEN grayagain ELSE grayagain \cup {t}
  BY DEF VisitWeakValue
<1> DEFINE c == Marked(S)
<1>3. S \in SUBSET Obj /\ Keys(t) \subseteq S
  BY <1>1, <1>2, TableFacts DEF IndInv
<1>4. Recolours(S, {t}) /\ color'[t] = "gray"
  BY <1>1, <1>2, <1>3, RecolourOne DEF IndInv
<1>5. NW' = NW \cup WithValues(S) /\ S \subseteq NW' /\ NW \subseteq NW'
  BY <1>1, <1>3, <1>4, Marking DEF IndInv, WithValues
<1>6. \A o \in Obj \ {t} : c[o] = color'[o]
  BY <1>4 DEF Recolours
<1>7. \A o \in NW' : color'[o] # "white"
  BY DEF NW, White
<1>8. /\ ~HasClears(t, c) => Values(t) \cap Strings \subseteq S
      /\ weak' = IF InAtomic /\ HasClears(t, c) THEN weak \cup {t} ELSE weak
      /\ grayagain' = IF InAtomic /\ HasClears(t, c) THEN grayagain ELSE grayagain \cup {t}
      /\ gray' = (gray \cup ToGray(S)) \ {t}
  BY <1>2
<1> HIDE DEF c
<1>9. ~HasClears(t, c) => Values(t) \subseteq NW'
  <2> SUFFICES ASSUME ~HasClears(t, c), NEW v \in Values(t), v \notin NW' PROVE FALSE
    OBVIOUS
  <2>1. PICK e \in ToSet(entries[t]) : v = e[2]
    BY DEF Values
  <2>2. v \in Held /\ v \in Obj /\ v # NoKey
    BY <1>1, TableFacts DEF IndInv, WeakAssumption
  <2>3. v \notin Strings
    BY <1>5, <1>8
  <2>4. color'[v] = "white" /\ v # t
    BY <2>2, <1>1, <1>5 DEF NW, White
  <2>5. Cleared(e[2], c)
    BY <2>1, <2>2, <2>3, <2>4, <1>6 DEF Cleared
  <2> QED
    BY <2>1, <2>5 DEF HasClears
<1>10. t \in WeakValue /\ t \notin weak
  BY <1>1 DEF IndInv, ListInv, Later
<1>11. ASSUME InAtomic PROVE Settled(t)'
  <2>1. InAtomic' /\ OKeys(t)' = Keys(t) /\ OValues(t)' = Values(t) /\ origweak' = origweak
    BY <1>1, <1>11, PendingEntries, QuietFacts DEF IndInv, Quiet
  <2>2. OKeys(t)' \subseteq NW'
    BY <2>1, <1>3, <1>5
  <2>3. t \in weak' \/ OValues(t)' \subseteq NW'
    BY <2>1, <1>8, <1>9, <1>11
  <2>4. t \notin origweak /\ phase' # "done"
    BY <1>10 DEF IndInv, ListInv, Quiet
  <2>5. SettledWeakValue(t)'
    BY <2>1, <2>2, <2>3, <2>4 DEF SettledWeakValue
  <2> QED
    BY <1>1, <2>5, KindFacts DEF Settled, AllTables
<1>12. ~InAtomic => t \in grayagain'
  BY <1>8
<1>13. UNCHANGED <<allweak, ephemeron, twups>>
  BY DEF VisitWeakValue
<1>14. (InAtomic /\ t \in weak') \/ weak' = weak
  BY <1>8
<1>15. /\ weak \subseteq weak' /\ weak' \subseteq weak \cup {t}
       /\ grayagain \subseteq grayagain' /\ grayagain' \subseteq grayagain \cup {t}
  BY <1>8
<1>16. Links(t)
  BY <1>4, <1>8, <1>13 DEF Links
<1>17. \A A \in SUBSET Obj : Closed(A) /\ t \in A /\ NW \subseteq A \cup Strings =>
            S \subseteq A \cup Strings
  BY <1>1, <1>2 DEF Closed
<1>18. Visits(t, S)
  BY <1>1, <1>4, <1>8, <1>11, <1>12, <1>13, <1>14, <1>15, <1>16, <1>17 DEF Visits
<1> QED
  BY <1>3, <1>18

(* a table with weak keys and values is not traversed *)
LEMMA AllWeakVisits ==
  ASSUME WeakAssumption, IndInv, Quiet, NEW t \in gray, VisitAllWeak(t), phase # "done"
  PROVE  \E S \in SUBSET Obj : Visits(t, S)
<1>1. t \in AllWeak /\ t \in AllTables \ Strong /\ t \in NW /\ t \notin Ephemeron
  BY KindFacts DEF VisitAllWeak, AllTables, IndInv, ListInv
<1>2. /\ color' = [color EXCEPT ![t] = "gray"]
      /\ gray' = gray \ {t} /\ allweak' = allweak \cup {t}
      /\ UNCHANGED <<grayagain, weak, ephemeron, twups>>
  BY DEF VisitAllWeak
<1>3. WithValues({}) = {}
  BY DEF WithValues
<1>4. Marked({}) = [o \in Obj |-> color[o]] /\ ToGray({}) = {}
  BY <1>3 DEF Marked, ToGray
<1>5. color' = [Marked({}) EXCEPT ![t] = "gray"]
  BY <1>2, <1>4 DEF IndInv, TypeInv
<1>6. Recolours({}, {t}) /\ color'[t] = "gray"
  BY <1>1, <1>5, RecolourOne DEF IndInv
<1>7. Settled(t)'
  BY <1>1, <1>2, KindFacts DEF Settled, AllTables
<1>8. Links(t)
  BY <1>2, <1>6 DEF Links
<1>9. Visits(t, {})
  BY <1>1, <1>2, <1>4, <1>6, <1>7, <1>8 DEF Visits
<1> QED
  BY <1>9

(* traverseLclosure *)
LEMMA ClosureVisits ==
  ASSUME WeakAssumption, IndInv, Quiet, NEW t \in gray, VisitClosure(t), phase # "done"
  PROVE  \E S \in SUBSET Obj : Visits(t, S)
<1> DEFINE S == upvals[t]
<1>1. t \in Closures /\ t \notin AllTables /\ t \notin Threads /\ t \in NW
  BY KindFacts DEF VisitClosure, IndInv, ListInv
<1>2. S \in SUBSET Obj
  BY <1>1 DEF IndInv, TypeInv, Obj
<1>3. Recolours(S, {t}) /\ color'[t] = "black"
  BY <1>1, <1>2, RecolourOne DEF VisitClosure, IndInv
<1> HIDE DEF S
<1>4. S \subseteq NW'
  BY <1>1, <1>2, <1>3, Marking DEF IndInv, WithValues
<1>5. Settled(t)'
  BY <1>1, <1>4, KindFacts DEF Settled, AllTables, Quiet, heap, S
<1>6. UNCHANGED <<grayagain, weak, allweak, ephemeron, twups>> /\ gray' = (gray \cup ToGray(S)) \ {t}
  BY DEF VisitClosure, S
<1>7. t \notin allweak
  BY <1>1 DEF IndInv, ListInv, AllTables
<1>8. Links(t)
  BY <1>3, <1>6 DEF Links
<1>9. \A A \in SUBSET Obj : Closed(A) /\ t \in A /\ NW \subseteq A \cup Strings =>
            S \subseteq A \cup Strings
  BY <1>1 DEF Closed, S
<1> QED
  BY <1>1, <1>2, <1>3, <1>5, <1>6, <1>7, <1>8, <1>9 DEF Visits

(* traversethread *)
LEMMA ThreadVisits ==
  ASSUME WeakAssumption, IndInv, Quiet, NEW t \in gray, VisitThread(t), phase # "done"
  PROVE  \E S \in SUBSET Obj : Visits(t, S)
<1> DEFINE S == stack[t] \cup OpenIn(t) \cup {val[u] : u \in OpenIn(t)}
<1>1. t \in Threads /\ t \notin AllTables /\ t \notin Closures /\ t \in NW
  BY KindFacts DEF VisitThread, IndInv, ListInv
<1>2. S \in SUBSET Obj
  BY <1>1 DEF IndInv, TypeInv, Obj, Held, OpenIn
<1>3. color' = [Marked(S) EXCEPT ![t] = IF InAtomic THEN "black" ELSE "gray"]
  BY DEF VisitThread
<1>4. Recolours(S, {t}) /\ color'[t] = IF InAtomic THEN "black" ELSE "gray"
  <2>1. CASE InAtomic
    BY <2>1, <1>1, <1>2, <1>3, RecolourOne DEF IndInv
  <2>2. CASE ~InAtomic
    BY <2>2, <1>1, <1>2, <1>3, RecolourOne DEF IndInv
  <2> QED
    BY <2>1, <2>2
<1>5. /\ gray' = (gray \cup ToGray(S)) \ {t}
      /\ grayagain' = IF InAtomic THEN grayagain ELSE grayagain \cup {t}
      /\ twups' = IF InAtomic /\ OpenIn(t) # {} THEN twups \cup {t} ELSE twups
      /\ UNCHANGED <<weak, allweak, ephemeron>>
  BY DEF VisitThread
<1> HIDE DEF S
<1>6. S \subseteq NW'
  BY <1>1, <1>2, <1>4, Marking DEF IndInv, WithValues
<1>7. ASSUME InAtomic PROVE Settled(t)'
  <2>1. /\ stack' = stack /\ val' = val /\ OpenIn(t)' = OpenIn(t) /\ InAtomic'
    BY <1>7, QuietFacts DEF Quiet, heap
  <2>2. SettledThread(t)'
    BY <1>6, <2>1 DEF SettledThread, S
  <2> QED
    BY <1>1, <2>2 DEF Settled, AllTables
<1>8. t \notin allweak /\ t \notin Ephemeron
  BY <1>1 DEF IndInv, ListInv, AllTables
<1>9. Links(t)
  BY <1>4, <1>5 DEF Links
<1>10. \A A \in SUBSET Obj : Closed(A) /\ t \in A /\ NW \subseteq A \cup Strings =>
            S \subseteq A \cup Strings
  <2> SUFFICES ASSUME NEW A \in SUBSET Obj, Closed(A), t \in A PROVE S \subseteq A
    OBVIOUS
  <2>1. stack[t] \cup OpenIn(t) \subseteq A
    BY <1>1 DEF Closed
  <2>2. \A u \in OpenIn(t) : val[u] \in A
    BY <2>1 DEF Closed, OpenIn
  <2> QED
    BY <2>1, <2>2 DEF S
<1> QED
  BY <1>1, <1>2, <1>4, <1>5, <1>7, <1>8, <1>9, <1>10 DEF Visits

(* traverseephemeron passes the entries in one order or the other *)
LEMMA ReversedEntries ==
  ASSUME NEW s \in Entries
  PROVE  Reverse(s) \in Entries /\ ToSet(Reverse(s)) = ToSet(s)
<1> DEFINE r == Reverse(s)
           X == (Held \cup {NoKey}) \X Held
<1>1. Len(s) \in Nat /\ s \in [1..Len(s) -> X]
  BY DEF Entries
<1>2. r = [i \in 1..Len(s) |-> s[(Len(s) - i) + 1]]
  BY DEF Reverse
<1>3. \A i \in 1..Len(s) : (Len(s) - i) + 1 \in 1..Len(s)
  BY <1>1
<1> HIDE DEF X
<1>4. r \in [1..Len(s) -> X]
  BY <1>1, <1>2, <1>3
<1>5. r \in Seq(X)
  BY <1>1, <1>4
<1>6. \A i \in 1..Len(s) : r[i] = s[(Len(s) - i) + 1] /\ s[i] = r[(Len(s) - i) + 1]
  <2> SUFFICES ASSUME NEW i \in 1..Len(s)
               PROVE  r[i] = s[(Len(s) - i) + 1] /\ s[i] = r[(Len(s) - i) + 1]
    OBVIOUS
  <2>1. (Len(s) - ((Len(s) - i) + 1)) + 1 = i
    BY <1>1
  <2> QED
    BY <1>2, <1>3, <2>1
<1>7. DOMAIN r = 1..Len(s) /\ DOMAIN s = 1..Len(s)
  BY <1>1, <1>4
<1> HIDE DEF r
<1>8. ToSet(r) = ToSet(s)
  BY <1>3, <1>6, <1>7 DEF ToSet
<1> QED
  BY <1>5, <1>8 DEF Entries, X, r

(* traverseephemeron: where it sees no pair of a white key and a white     *)
(* value every value is marked, where it sees no white key every key too   *)
LEMMA EphemeronVisits ==
  ASSUME WeakAssumption, IndInv, Quiet, NEW t \in gray \cup next, NEW inv,
         VisitEphemeron(t, inv), phase # "done"
  PROVE  \E S \in SUBSET Obj :
           /\ Visits(t, S)
           /\ S \subseteq Values(t) \cup Strings
           /\ Values(t) \cap NW' \subseteq NW =>
                \A e \in ToSet(entries[t]) : Cleared(e[1], color) \/ e[2] \in NW
<1> DEFINE s == IF inv = 1 THEN Reverse(entries[t]) ELSE entries[t]
           P == Pass(s)
           last == P[Len(s)]
           S == last \cup StringKeys(t)
           linked == IF ~InAtomic THEN "grayagain"
                     ELSE IF \E n \in DOMAIN s : SeesPair(s, P, n) THEN "ephemeron"
                     ELSE IF \E n \in DOMAIN s : SeesKey(s, P, n) THEN "allweak"
                     ELSE "none"
<1>1. t \in Ephemeron /\ t \in AllTables \ Strong /\ t \in NW
  BY KindFacts DEF VisitEphemeron, AllTables, IndInv, ListInv
<1>2. /\ color' = [Marked(S) EXCEPT ![t] = IF linked = "none" THEN "black" ELSE "gray"]
      /\ gray' = (gray \cup ToGray(S)) \ {t}
      /\ grayagain' = IF linked = "grayagain" THEN grayagain \cup {t} ELSE grayagain
      /\ ephemeron' = IF linked = "ephemeron" THEN ephemeron \cup {t} ELSE ephemeron
      /\ allweak' = IF linked = "allweak" THEN allweak \cup {t} ELSE allweak
      /\ UNCHANGED <<twups, weak>>
  BY DEF VisitEphemeron
<1>3. s \in Entries /\ ToSet(s) = ToSet(entries[t])
  BY <1>1, TableFacts, ReversedEntries DEF IndInv
<1> HIDE DEF s
<1>4. /\ last \subseteq {e[2] : e \in ToSet(s)} /\ last \subseteq Obj /\ last \cap NW = {}
      /\ \A n \in 1..Len(s) : SeesKey(s, P, n) => Cleared(s[n][1], color)
      /\ \A n \in 1..Len(s) : ~SeesKey(s, P, n) => /\ s[n][2] \in NW \cup last
                                                  /\ s[n][1] \in NW \cup last \cup Strings \cup {NoKey}
      /\ \A n \in 1..Len(s) : ~SeesPair(s, P, n) => s[n][2] \in NW \cup last
  BY <1>3, PassFacts
<1>5. /\ DOMAIN s = 1..Len(s)
      /\ \A e \in ToSet(s) : \E n \in 1..Len(s) : e = s[n]
  BY <1>3, EntryFacts
<1> HIDE DEF P
<1>6. StringKeys(t) \subseteq Obj
  BY <1>1, TableFacts DEF StringKeys, IndInv
<1>7. S \in SUBSET Obj
  BY <1>4, <1>6
<1> DEFINE col == IF linked = "none" THEN "black" ELSE "gray"
<1>8. Recolours(S, {t}) /\ color'[t] = col
  <2>1. col \in {"gray", "black"}
    OBVIOUS
  <2> HIDE DEF S, linked
  <2>2. color' = [Marked(S) EXCEPT ![t] = col]
    BY <1>2
  <2> HIDE DEF col
  <2> QED
    BY <1>1, <1>7, <2>1, <2>2, RecolourOne DEF IndInv
<1>9. NW \subseteq NW' /\ S \subseteq NW'
  <2> HIDE DEF S, col
  <2>1. NW' = NW \cup WithValues(S)
    BY <1>1, <1>7, <1>8, Marking DEF IndInv
  <2> QED
    BY <2>1 DEF WithValues
<1>10. OKeys(t)' = Keys(t) /\ OValues(t)' = Values(t)
  BY <1>1, PendingEntries, QuietFacts DEF IndInv
<1>11. ASSUME ~ \E n \in DOMAIN s : SeesPair(s, P, n) PROVE OValues(t)' \subseteq NW'
  <2>1. \A n \in 1..Len(s) : s[n][2] \in NW'
    BY <1>4, <1>5, <1>9, <1>11
  <2> QED
    BY <2>1, <1>3, <1>5, <1>10 DEF Values
<1>12. ASSUME ~ \E n \in DOMAIN s : SeesKey(s, P, n) PROVE OKeys(t)' \subseteq NW'
  <2>1. \A n \in 1..Len(s) : s[n][1] \in NW' \cup Strings \cup {NoKey}
    BY <1>4, <1>5, <1>9, <1>12
  <2>2. Keys(t) \subseteq NW' \cup Strings
    BY <2>1, <1>3, <1>5 DEF Keys
  <2>3. Keys(t) \cap Strings \subseteq NW'
    BY <1>9 DEF StringKeys
  <2> QED
    BY <2>2, <2>3, <1>10
<1>13. linked \in {"ephemeron", "allweak", "none", "grayagain"}
  OBVIOUS
<1>14. linked = "grayagain" <=> ~InAtomic
  OBVIOUS
<1>15. linked \in {"allweak", "none"} => OValues(t)' \subseteq NW'
  BY <1>11
<1>16. linked = "none" => OKeys(t)' \subseteq NW'
  BY <1>12 DEF SeesPair
<1>22. last \subseteq Values(t) /\ S \subseteq Values(t) \cup Strings
  BY <1>3, <1>4 DEF Values, StringKeys
<1>23. ASSUME Values(t) \cap NW' \subseteq NW
       PROVE  \A e \in ToSet(entries[t]) : Cleared(e[1], color) \/ e[2] \in NW
  <2>1. last = {}
    BY <1>4, <1>9, <1>22, <1>23
  <2>2. \A n \in 1..Len(s) : Cleared(s[n][1], color) \/ s[n][2] \in NW
    BY <1>4, <2>1
  <2> QED
    BY <1>3, <1>5, <2>2
<1>24. \A A \in SUBSET Obj : Closed(A) /\ t \in A /\ NW \subseteq A \cup Strings =>
            S \subseteq A \cup Strings
  <2> SUFFICES ASSUME NEW A \in SUBSET Obj, Closed(A), t \in A, NW \subseteq A \cup Strings
               PROVE  last \subseteq A
    BY DEF StringKeys
  <2>1. \A e \in ToSet(s) : e[1] \in A \cup Strings \cup {NoKey} => e[2] \in A
    BY <1>1, <1>3 DEF Closed
  <2> QED
    BY <1>3, <2>1, PassWithin DEF P
<1>25. Links(t)
  <2> HIDE DEF linked, S
  <2> QED
    BY <1>2, <1>8, <1>13 DEF Links
<1> HIDE DEF linked, S
<1>17. ASSUME InAtomic PROVE Settled(t)'
  <2>1. InAtomic'
    BY <1>17, QuietFacts
  <2>2. SettledEphemeron(t)'
    BY <2>1, <1>2, <1>13, <1>14, <1>15, <1>16, <1>17 DEF SettledEphemeron
  <2> QED
    BY <1>1, <2>2, KindFacts DEF Settled, AllTables
<1>18. ASSUME InAtomic, t \in allweak' \cap Ephemeron PROVE OValues(t)' \subseteq NW'
  <2>1. CASE linked = "allweak"
    BY <2>1, <1>15
  <2>2. CASE linked # "allweak"
    <3>1. t \in allweak
      BY <1>2, <1>18, <2>2
    <3>2. OValues(t) \subseteq NW
      BY <3>1, <1>1, <1>18 DEF IndInv, AllweakInv
    <3> QED
      BY <3>2, <1>9, QuietFacts
  <2> QED
    BY <2>1, <2>2
<1>19. ~InAtomic => t \in grayagain' /\ allweak' = allweak /\ ephemeron' = ephemeron /\ color'[t] # "black"
  BY <1>2, <1>8, <1>14
<1>20. /\ gray' = (gray \cup ToGray(S)) \ {t}
       /\ grayagain \subseteq grayagain' /\ grayagain' \subseteq grayagain \cup {t}
       /\ allweak \subseteq allweak' /\ allweak' \subseteq allweak \cup {t}
       /\ ephemeron \subseteq ephemeron' /\ ephemeron' \subseteq ephemeron \cup {t}
       /\ UNCHANGED <<twups, weak>>
  BY <1>2
<1>21. Visits(t, S)
  BY <1>1, <1>8, <1>17, <1>18, <1>19, <1>20, <1>24, <1>25, QuietFacts DEF Visits
<1> QED
  BY <1>7, <1>21, <1>22, <1>23

(* Every visit keeps the invariant, but for what converges. *)
LEMMA VisitKeeps ==
  ASSUME WeakAssumption, IndInv, Quiet, phase \in Visiting, NEW S \in SUBSET Obj, NEW t,
         Visits(t, S), t \in gray \/ (t \in next /\ gray = {}),
         next' \subseteq next, next \ {t} \subseteq next', t \in gray => next' = next,
         changed' \in BOOLEAN
  PROVE  /\ TypeInv' /\ PhaseInv' /\ ListInv' /\ SettledInv' /\ UpvalInv' /\ AllweakInv'
         /\ EntriesInv' /\ ClearedInv' /\ StrongInv' /\ DoneInv'
<1>1. /\ TypeInv /\ PhaseInv /\ ListInv /\ SettledInv /\ UpvalInv /\ AllweakInv
      /\ EntriesInv /\ ClearedInv /\ StrongInv /\ DoneInv
  BY DEF IndInv
<1>2. t \in NW /\ {t} \in SUBSET NW /\ t \in Obj /\ t \in AllTables \cup Closures \cup Threads
  BY <1>1 DEF ListInv, NW, AllTables
<1>3. /\ Recolours(S, {t}) /\ gray' = (gray \cup ToGray(S)) \ {t}
      /\ grayagain \subseteq grayagain' /\ grayagain' \subseteq grayagain \cup {t}
      /\ weak \subseteq weak' /\ weak' \subseteq weak \cup {t}
      /\ allweak \subseteq allweak' /\ allweak' \subseteq allweak \cup {t}
      /\ ephemeron \subseteq ephemeron' /\ ephemeron' \subseteq ephemeron \cup {t}
      /\ t \in weak' \ weak => t \in WeakValue /\ InAtomic
      /\ t \in allweak' \ allweak => t \in AllWeak \cup Ephemeron
      /\ t \in ephemeron' \ ephemeron => t \in Ephemeron /\ InAtomic
      /\ twups \subseteq twups'
  BY DEF Visits
<1>4. /\ NW' = NW \cup WithValues(S) /\ NW \subseteq NW'
      /\ \A o \in NW \ {t} : color'[o] = color[o]
      /\ \A o \in NW' \ NW :
              /\ color'[o] = MarkColor(o)
              /\ o \in AllTables \cup Closures \cup Threads => o \in ToGray(S)
      /\ \A u \in (NW' \ NW) \cap Upvalues : val[u] \in NW'
      /\ ToGray(S) \subseteq (NW' \ NW) \cap (AllTables \cup Closures \cup Threads)
  BY <1>1, <1>2, <1>3, Marking
<1>5. /\ entries' = entries /\ stack' = stack /\ upvals' = upvals /\ val' = val /\ owner' = owner
      /\ finobj' = finobj /\ tobefnz' = tobefnz /\ saved' = saved
      /\ origweak' = origweak /\ origall' = origall /\ phase' = phase /\ before' = before
  BY DEF Quiet, heap, fins
<1>6. /\ InAtomic' = InAtomic
      /\ \A x : Original(x)' = Original(x) /\ OKeys(x)' = OKeys(x) /\ OValues(x)' = OValues(x)
      /\ \A x : Keys(x)' = Keys(x) /\ Values(x)' = Values(x)
      /\ \A th : OpenIn(th)' = OpenIn(th)
      /\ StrongSet' = StrongSet
  BY QuietFacts
<1>7. TypeInv'
  BY <1>1, <1>3, <1>5 DEF TypeInv, Recolours
<1>8. phase \notin {"pause", "roots", "done"}
  BY <1>1 DEF Visiting, PhaseInv
<1>9. ~InAtomic => weak' = {} /\ ephemeron' = {}
  BY <1>1, <1>3 DEF PhaseInv
<1>10. PhaseInv'
  BY <1>1, <1>3, <1>4, <1>5, <1>6, <1>8, <1>9 DEF PhaseInv
<1>11. ListInv'
  <2>1. /\ gray' \subseteq NW' \cap (AllTables \cup Closures \cup Threads)
        /\ grayagain' \subseteq NW' /\ saved' \subseteq NW' \cap (AllTables \cup Closures \cup Threads)
        /\ weak' \subseteq NW' \cap WeakValue /\ ephemeron' \subseteq NW' \cap Ephemeron
        /\ allweak' \subseteq NW' \cap (AllWeak \cup Ephemeron)
        /\ next' \subseteq NW' \cap Ephemeron
        /\ origweak' \subseteq weak' /\ origall' \subseteq allweak'
    BY <1>1, <1>2, <1>3, <1>4, <1>5 DEF ListInv
  <2>2. ToGray(S) \cap (NW \cup {t}) = {} /\ weak \cup allweak \cup gray \cup Later \subseteq NW
    BY <1>1, <1>2, <1>4 DEF ListInv, Later
  <2>3. gray' \cap (weak' \cup allweak') = {}
    BY <1>1, <1>3, <2>2 DEF ListInv
  <2>4. gray' \cap Later' \cap (AllTables \ Strong) = {}
    BY <1>1, <1>3, <1>5, <1>6, <2>2 DEF ListInv, Later
  <2>5. t \in Later /\ t \in AllTables \ Strong => FALSE
    BY <1>1, <1>8 DEF ListInv, Later, PhaseInv, InAtomic
  <2>6. t \in weak' \cup allweak' => t \in AllTables \ Strong
    BY <2>1, KindFacts DEF AllTables
  <2>7. Later' \cap (weak' \cup allweak') = {}
    <3>1. CASE InAtomic
      BY <3>1, <1>1, <1>3, <1>5, <1>6, <2>5, <2>6 DEF ListInv, Later
    <3>2. CASE ~InAtomic
      <4>1. weak' = {} /\ (grayagain' = grayagain \/ allweak' = allweak)
        BY <1>9, <3>2 DEF Visits
      <4>2. CASE grayagain' = grayagain
        BY <4>1, <4>2, <3>2, <1>1, <1>3, <1>5, <1>6, <2>5, <2>6 DEF ListInv, Later
      <4>3. CASE allweak' = allweak
        <5>1. t \notin allweak
          <6>1. t \in gray
            BY <3>2, <1>1, <1>8 DEF PhaseInv, InAtomic
          <6> QED
            BY <6>1, <1>1 DEF ListInv
        <5> QED
          BY <4>1, <4>3, <5>1, <3>2, <1>1, <1>3, <1>5, <1>6 DEF ListInv, Later
      <4> QED
        BY <4>1, <4>2, <4>3
    <3> QED
      BY <3>1, <3>2
  <2>8. ~InAtomic => /\ \A x \in AllTables \ Strong : color'[x] # "black"
                     /\ grayagain' \subseteq AllTables \cup Closures \cup Threads
    <3> SUFFICES ASSUME ~InAtomic
                 PROVE  /\ \A x \in AllTables \ Strong : color'[x] # "black"
                        /\ grayagain' \subseteq AllTables \cup Closures \cup Threads
      OBVIOUS
    <3>1. grayagain' \subseteq AllTables \cup Closures \cup Threads
      BY <1>1, <1>2, <1>3 DEF ListInv
    <3>2. ASSUME NEW x \in AllTables \ Strong PROVE color'[x] # "black"
      <4>0. x \in Obj
        BY DEF Obj
      <4>1. CASE x = t
        BY <4>1 DEF Visits
      <4>2. CASE x \in NW \ {t}
        BY <4>2, <1>1, <1>4 DEF ListInv
      <4>3. CASE x \in NW' \ NW
        <5>1. color'[x] = MarkColor(x)
          BY <4>3, <1>4
        <5> QED
          BY <5>1, KindFacts DEF MarkColor
      <4>4. CASE x \notin NW' /\ x # t
        BY <4>0, <4>4 DEF NW, White
      <4> QED
        BY <4>1, <4>2, <4>3, <4>4
    <3> QED
      BY <3>1, <3>2
  <2> QED
    BY <2>1, <2>3, <2>4, <2>7, <2>8, <1>6 DEF ListInv
<1>12. (Pending \cup ToGray(S)) \ {t} \subseteq Pending'
  BY <1>3, <1>5, <1>6 DEF Pending, Later
<1>13. SettledInv'
  <2> SUFFICES ASSUME NEW o \in NW' \ Pending' PROVE Settled(o)'
    BY DEF SettledInv
  <2>1. CASE o = t
    <3>1. InAtomic \/ t \notin grayagain'
      BY <2>1, <1>6 DEF Pending, Later
    <3> QED
      BY <2>1, <3>1 DEF Visits
  <2>2. CASE o \in NW /\ o # t
    <3>1. Settled(o)
      BY <2>2, <1>1, <1>12 DEF SettledInv
    <3>2. color'[o] = color[o]
      BY <2>2, <1>4
    <3>3. SettledStrong(o) => SettledStrong(o)'
      BY <3>2, <1>4, <1>6 DEF SettledStrong
    <3>4. SettledWeakValue(o) => SettledWeakValue(o)'
      BY <1>3, <1>4, <1>5, <1>6 DEF SettledWeakValue
    <3>5. SettledEphemeron(o) => SettledEphemeron(o)'
      BY <1>3, <1>4, <1>6 DEF SettledEphemeron
    <3>6. SettledThread(o) => SettledThread(o)'
      BY <1>4, <1>5, <1>6 DEF SettledThread
    <3> QED
      BY <3>1, <3>3, <3>4, <3>5, <3>6, <1>3, <1>4, <1>5 DEF Settled
  <2>3. CASE o \in NW' \ NW
    <3>1. o \notin AllTables \cup Closures \cup Threads
      BY <2>3, <1>2, <1>4, <1>12
    <3> QED
      BY <3>1 DEF Settled, AllTables
  <2> QED
    BY <2>1, <2>2, <2>3
<1>14. UpvalInv'
  <2> SUFFICES ASSUME NEW u \in NW' \cap Upvalues
               PROVE  \/ val[u] \in NW' /\ (owner[u] = "closed" => color'[u] = "black")
                      \/ /\ owner[u] # "closed"
                         /\ \/ owner[u] \in Pending'
                            \/ phase \in {"propagate", "roots"} /\ White(owner[u])'
    BY <1>5 DEF UpvalInv
  <2>1. u # t /\ u \in Obj
    BY <1>2, KindFacts DEF NW
  <2>2. CASE u \in NW
    <3>1. color'[u] = color[u]
      BY <2>1, <2>2, <1>4
    <3>2. CASE val[u] \in NW /\ (owner[u] = "closed" => color[u] = "black")
      BY <3>1, <3>2, <1>4
    <3>3. CASE owner[u] # "closed" /\ owner[u] \in Pending
      <4>1. CASE owner[u] # t
        BY <3>3, <4>1, <1>12
      <4>2. CASE owner[u] = t
        <5>1. t \in Threads /\ u \in OpenIn(t)
          BY <4>2, <3>3, <1>1 DEF TypeInv, OpenIn
        <5>2. CASE InAtomic \/ t \notin grayagain'
          <6>1. Settled(t)'
            BY <5>2 DEF Visits
          <6>2. val[u] \in NW'
            BY <5>1, <6>1, <1>5, <1>6 DEF Settled, SettledThread
          <6> QED
            BY <6>2, <3>3
        <5>3. CASE ~InAtomic /\ t \in grayagain'
          BY <5>3, <4>2, <3>3, <1>6 DEF Pending, Later
        <5> QED
          BY <5>2, <5>3
      <4> QED
        BY <4>1, <4>2
    <3>4. CASE owner[u] # "closed" /\ phase \in {"propagate", "roots"} /\ White(owner[u])
      <4>1. owner[u] \in Threads /\ owner[u] \in Obj /\ owner[u] \notin NW
        BY <3>4, <1>1 DEF TypeInv, NW, Obj
      <4>2. CASE owner[u] \in NW'
        BY <4>1, <4>2, <3>4, <1>2, <1>4, <1>12
      <4>3. CASE owner[u] \notin NW'
        BY <4>1, <4>3, <3>4, <1>5 DEF NW, White
      <4> QED
        BY <4>2, <4>3
    <3> QED
      BY <3>2, <3>3, <3>4, <2>2, <1>1 DEF UpvalInv
  <2>3. CASE u \notin NW
    <3>1. val[u] \in NW' /\ color'[u] = MarkColor(u)
      BY <2>3, <1>4
    <3> QED
      BY <3>1 DEF MarkColor
  <2> QED
    BY <2>2, <2>3
<1>15. AllweakInv'
  <2> SUFFICES ASSUME InAtomic, NEW x \in allweak' \cap Ephemeron PROVE OValues(x) \subseteq NW'
    BY <1>6 DEF AllweakInv
  <2>1. CASE x = t
    BY <2>1 DEF Visits
  <2>2. CASE x # t
    BY <2>2, <1>1, <1>3, <1>4 DEF AllweakInv
  <2> QED
    BY <2>1, <2>2
<1>16. EntriesInv' /\ DoneInv'
  BY <1>1, <1>5, <1>6, <1>8 DEF EntriesInv, DoneInv
<1>17. ClearedInv' /\ StrongInv'
  BY <1>1, <1>4, <1>5, <1>6 DEF ClearedInv, StrongInv
<1> QED
  BY <1>7, <1>10, <1>11, <1>13, <1>14, <1>15, <1>16, <1>17

(* propagatemark is a visit *)
LEMMA PropagateVisits ==
  ASSUME WeakAssumption, IndInv, NEW o, PropagateMark(o)
  PROVE  /\ Quiet /\ o \in gray /\ phase \in Visiting
         /\ UNCHANGED <<next, changed, disturbed>>
         /\ \E S \in SUBSET Obj : Visits(o, S)
<1>1. /\ phase \in Visiting /\ o \in gray
      /\ UNCHANGED <<entries, fins, locals, phase, before, program>>
      /\ \/ VisitStrong(o) \/ VisitWeakValue(o) \/ VisitEphemeron(o, 0) \/ VisitAllWeak(o)
         \/ VisitClosure(o) \/ VisitThread(o)
  BY DEF PropagateMark
<1>2. Quiet
  BY <1>1 DEF Quiet, locals, VisitStrong, VisitWeakValue, VisitEphemeron, VisitAllWeak,
              VisitClosure, VisitThread
<1>3. phase # "done"
  BY <1>1 DEF Visiting
<1>4. \E S \in SUBSET Obj : Visits(o, S)
  BY <1>1, <1>2, <1>3, StrongVisits, WeakValueVisits, EphemeronVisits, AllWeakVisits,
     ClosureVisits, ThreadVisits
<1> QED
  BY <1>1, <1>2, <1>4 DEF locals, program

(* in convergeephemerons it has something to do only when a table has      *)
(* changed something                                                       *)
LEMMA PropagateKeeps ==
  ASSUME WeakAssumption, IndInv, NEW o \in Obj, PropagateMark(o)
  PROVE  IndInv'
<1>1. /\ phase \in Visiting /\ o \in gray /\ Quiet /\ phase # "done"
      /\ next' = next /\ changed' = changed /\ phase' = phase /\ changed \in BOOLEAN
  BY PropagateVisits DEF IndInv, TypeInv, Quiet, Visiting
<1>2. PICK S \in SUBSET Obj : Visits(o, S)
  BY PropagateVisits
<1>3. /\ TypeInv' /\ PhaseInv' /\ ListInv' /\ SettledInv' /\ UpvalInv' /\ AllweakInv'
      /\ EntriesInv' /\ ClearedInv' /\ StrongInv' /\ DoneInv'
  BY <1>1, <1>2, VisitKeeps
<1>4. ConvergeInv'
  BY <1>1 DEF IndInv, ConvergeInv
<1> QED
  BY <1>3, <1>4 DEF IndInv

(* A table of a round: as long as none has marked a value, the entries of  *)
(* those that have been visited have converged.                            *)
LEMMA VisitNextKeeps ==
  ASSUME WeakAssumption, IndInv, NEW t \in Obj, VisitNext(t)
  PROVE  IndInv'
<1>1. /\ phase \in {"converge", "converge again"} /\ gray = {} /\ t \in next
      /\ next' = next \ {t} /\ VisitEphemeron(t, dir) /\ changed' = Changed(t)
      /\ UNCHANGED <<entries, fins, saved, origweak, origall, phase, before>>
  BY DEF VisitNext
<1>2. Quiet
  BY <1>1 DEF Quiet, VisitEphemeron
<1>3. phase # "done" /\ phase \in Visiting
  BY <1>1 DEF Visiting
<1>4. PICK S \in SUBSET Obj :
        /\ Visits(t, S)
        /\ S \subseteq Values(t) \cup Strings
        /\ Values(t) \cap NW' \subseteq NW =>
             \A e \in ToSet(entries[t]) : Cleared(e[1], color) \/ e[2] \in NW
  BY <1>1, <1>2, <1>3, EphemeronVisits
<1>5. changed' \in BOOLEAN
  BY <1>1 DEF Changed, IndInv, TypeInv
<1>6. /\ TypeInv' /\ PhaseInv' /\ ListInv' /\ SettledInv' /\ UpvalInv' /\ AllweakInv'
      /\ EntriesInv' /\ ClearedInv' /\ StrongInv' /\ DoneInv'
  BY <1>1, <1>2, <1>3, <1>4, <1>5, VisitKeeps
<1>7. t \in NW /\ t \in Ephemeron /\ t \in AllTables /\ TypeInv
  BY <1>1 DEF IndInv, ListInv, AllTables
<1>8. /\ NW' = NW \cup WithValues(S)
      /\ ToGray(S) \subseteq (NW' \ NW) \cap (AllTables \cup Closures \cup Threads)
  BY <1>4, <1>7, Marking DEF Visits
<1>9. Values(t) \subseteq Held /\ Held \subseteq Obj
  BY <1>7, TableFacts
<1>10. WithValues(S) = S
  BY <1>4, <1>9, KindFacts DEF WithValues, Held
<1>11. changed' = (changed \/ \E v \in Values(t) : v \in NW' /\ v \notin NW)
  BY <1>1, <1>9 DEF Changed, NW, White
<1>12. gray' # {} => changed'
  <2> SUFFICES ASSUME NEW o \in gray' PROVE changed'
    OBVIOUS
  <2>1. o \in ToGray(S)
    BY <1>1, <1>4 DEF Visits
  <2>2. o \in Values(t)
    BY <2>1, <1>4, <1>8, <1>10, KindFacts
  <2> QED
    BY <2>1, <2>2, <1>8, <1>11
<1>13. ASSUME ~changed', NEW x \in ephemeron' PROVE Converged(x)'
  <2>1. ~changed /\ Values(t) \cap NW' \subseteq NW
    BY <1>11, <1>13
  <2>2. NW' \ NW \subseteq Strings
    BY <2>1, <1>4, <1>8, <1>10
  <2>3. x \in Ephemeron /\ x \in AllTables
    BY <1>6, <1>13 DEF ListInv, AllTables
  <2>4. \A e \in Original(x) : Cleared(e[1], color) \/ e[2] \in NW
    <3>1. CASE x = t
      BY <3>1, <2>1, <1>3, <1>4, <1>7, <1>1, PendingEntries DEF IndInv
    <3>2. CASE x # t
      <4>1. x \in ephemeron
        BY <3>2, <1>4, <1>13 DEF Visits
      <4>2. Converged(x)
        BY <4>1, <2>1, <1>1 DEF IndInv, ConvergeInv
      <4>3. OValues(x) \subseteq Obj
        BY <2>3, <1>7, <1>9, TableFacts
      <4> QED
        BY <4>2, <4>3 DEF Converged, OValues, NW
    <3> QED
      BY <3>1, <3>2
  <2>5. Original(x)' = Original(x)
    BY <1>2, QuietFacts
  <2>6. ASSUME NEW e \in Original(x), Cleared(e[1], color) PROVE Cleared(e[1], color')
    <3>1. e[1] \in Obj
      BY <2>3, <2>6, <1>7, <1>9, TableFacts DEF OKeys, Cleared
    <3>2. e[1] \notin NW'
      BY <3>1, <2>2, <2>6 DEF Cleared, NW, White
    <3> QED
      BY <3>1, <3>2, <2>6 DEF Cleared, NW, White
  <2>7. \A e \in Original(x) : e[2] \in NW => ~(White(e[2])')
    BY <1>8 DEF NW
  <2> QED
    BY <2>4, <2>5, <2>6, <2>7 DEF Converged
<1>14. ConvergeInv'
  BY <1>1, <1>12, <1>13 DEF ConvergeInv
<1> QED
  BY <1>6, <1>14 DEF IndInv

-----------------------------------------------------------------------------
(* What is reached. *)

(* the steps from S to Reach(S), which stay inside N *)
Climbs(P, S, N) ==
  LET K == Cardinality(Obj)
  IN  /\ \A n \in 0..K : P[n] \in SUBSET N
      /\ P[0] = S
      /\ \A n \in 1..K : P[n] = P[n - 1] \cup (ReachedBy(P[n - 1]) \ {NoKey})
      /\ Reach(S) = P[K]

(* Reach is iterated, inside any set that is closed *)
LEMMA ReachSteps ==
  ASSUME WeakAssumption, NEW N \in SUBSET Obj, NEW S \in SUBSET N,
         \A R \in SUBSET N : ReachedBy(R) \ {NoKey} \subseteq N
  PROVE  Cardinality(Obj) \in Nat /\ \E P : Climbs(P, S, N)
<1> DEFINE D == SUBSET N
           K == Cardinality(Obj)
           After(R) == R \cup (ReachedBy(R) \ {NoKey})
           step == [n \in 1..K |-> [R \in D |-> After(R)]]
           Body(g) == [n \in 0..K |-> IF n = 0 THEN S ELSE After(g[n - 1])]
<1>1. K \in Nat
  BY FS_CardinalityType DEF WeakAssumption
<1>2. \A R \in D : After(R) \in D
  OBVIOUS
<1> HIDE DEF After
<1>3. step \in [1..K -> [D -> D]]
  BY <1>2
<1>4. \A n \in 1..K : \A R \in D : step[n][R] = After(R)
  OBVIOUS
<1> HIDE DEF K, D, step
<1>5. PICK g \in [0..K -> D] : g[0] = S /\ \A n \in 1..K : g[n] = step[n][g[n - 1]]
  <2>1. step \in Steps(K, D)
    BY <1>3 DEF Steps
  <2>2. S \in D
    BY DEF D
  <2>3. \E g : Iterates(g, K, D, S, step)
    BY <1>1, <2>1, <2>2, FiniteRecursion
  <2> QED
    BY <2>3 DEF Iterates
<1>6. \A n \in 1..K : n - 1 \in 0..K /\ n \in 0..K /\ n # 0
  BY <1>1
<1>7. \A n \in 1..K : g[n] = After(g[n - 1])
  BY <1>4, <1>5, <1>6
<1>8. \A n \in 0..K : n = 0 \/ n \in 1..K
  BY <1>1
<1>9. g = Body(g)
  BY <1>5, <1>7, <1>8
<1> DEFINE P == CHOOSE h : h = Body(h)
<1>10. Reach(S) = P[K]
  BY DEF Reach, After, K
<1>11. P = Body(P)
  <2> HIDE DEF Body
  <2> QED
    BY <1>9
<1> HIDE DEF P
<1>12. P[0] = S /\ \A n \in 1..K : P[n] = After(P[n - 1])
  BY <1>1, <1>6, <1>11
<1> DEFINE T == {n \in Nat : n \in 0..K => P[n] \in D}
<1>13. 0 \in T
  BY <1>12 DEF D
<1>14. ASSUME NEW n \in Nat, n \in T PROVE n + 1 \in T
  <2> SUFFICES ASSUME n + 1 \in 0..K PROVE P[n + 1] \in D
    OBVIOUS
  <2>1. n + 1 \in 1..K /\ n + 1 - 1 = n /\ n \in 0..K
    BY <1>1
  <2>2. P[n + 1] = After(P[n]) /\ P[n] \in D
    BY <1>12, <1>14, <2>1
  <2> QED
    BY <1>2, <2>2
<1> HIDE DEF T
<1>15. Nat \subseteq T
  BY <1>13, <1>14, SetInduction
<1>16. \A n \in 0..K : P[n] \in D
  BY <1>1, <1>15 DEF T
<1>17. Climbs(P, S, N)
  BY <1>10, <1>12, <1>16 DEF Climbs, D, K, After
<1> QED
  BY <1>1, <1>17 DEF K

(* a set that has S and all that is reached from its elements has Reach(S) *)
LEMMA ReachWithin ==
  ASSUME WeakAssumption, NEW N \in SUBSET Obj, NEW S \in SUBSET N,
         \A R \in SUBSET N : ReachedBy(R) \ {NoKey} \subseteq N
  PROVE  Reach(S) \subseteq N
<1>1. Cardinality(Obj) \in Nat
  BY ReachSteps
<1>2. PICK P : Climbs(P, S, N)
  BY ReachSteps
<1> QED
  BY <1>1, <1>2 DEF Climbs

(* what is reached from objects are objects *)
LEMMA ReachedIsObject ==
  ASSUME TypeInv, WeakAssumption, NEW R \in SUBSET Obj
  PROVE  ReachedBy(R) \ {NoKey} \subseteq Obj
<1> SUFFICES ASSUME NEW x \in ReachedBy(R), x # NoKey PROVE x \in Obj
  OBVIOUS
<1> DEFINE pairs(t) == ToSet(before[t])
           inTable(t) ==
             CASE t \in Strong    -> UNION {{e[1], e[2]} : e \in pairs(t)}
               [] t \in WeakValue -> {e[1] : e \in pairs(t)}
                                       \cup ({e[2] : e \in pairs(t)} \cap Strings)
               [] t \in Ephemeron -> {e[2] : e \in {p \in pairs(t) : p[1] \in R \cup Strings \cup {NoKey}}}
               [] OTHER           -> {}
<1>1. ReachedBy(R) = (UNION {inTable(t) : t \in R \cap AllTables})
        \cup (UNION {upvals[c] : c \in R \cap Closures})
        \cup {val[u] : u \in R \cap Upvalues}
        \cup (UNION {stack[th] \cup OpenIn(th) : th \in R \cap Threads})
  BY DEF ReachedBy
<1>2. ASSUME NEW t \in R \cap AllTables, x \in inTable(t) PROVE x \in Obj
  <2>1. \A e \in pairs(t) : e[1] \in Held \cup {NoKey} /\ e[2] \in Held
    <3>1. before[t] \in Entries
      BY <1>2 DEF TypeInv
    <3> QED
      BY <3>1, EntryFacts
  <2>2. \E e \in pairs(t) : x = e[1] \/ x = e[2]
    <3> HIDE DEF pairs
    <3> QED
      BY <1>2, KindFacts
  <2> QED
    BY <2>1, <2>2 DEF Held
<1>3. ASSUME NEW c \in R \cap Closures, x \in upvals[c] PROVE x \in Obj
  BY <1>3 DEF TypeInv, Obj
<1>4. ASSUME NEW u \in R \cap Upvalues, x = val[u] PROVE x \in Obj
  BY <1>4 DEF TypeInv, Held
<1>5. ASSUME NEW th \in R \cap Threads, x \in stack[th] \cup OpenIn(th) PROVE x \in Obj
  BY <1>5 DEF TypeInv, Held, OpenIn, Obj
<1> HIDE DEF inTable, pairs
<1>6. \/ x \in UNION {inTable(t) : t \in R \cap AllTables}
      \/ x \in UNION {upvals[c] : c \in R \cap Closures}
      \/ x \in {val[u] : u \in R \cap Upvalues}
      \/ x \in UNION {stack[th] \cup OpenIn(th) : th \in R \cap Threads}
  BY <1>1
<1>7. CASE x \in UNION {inTable(t) : t \in R \cap AllTables}
  BY <1>2, <1>7
<1>8. CASE x \in UNION {upvals[c] : c \in R \cap Closures}
  BY <1>3, <1>8
<1>9. CASE x \in {val[u] : u \in R \cap Upvalues}
  BY <1>4, <1>9
<1>10. CASE x \in UNION {stack[th] \cup OpenIn(th) : th \in R \cap Threads}
  BY <1>5, <1>10, Zenon
<1> QED
  BY <1>6, <1>7, <1>8, <1>9, <1>10

(* As many steps as there are objects are enough: each one that is not the *)
(* last adds an object.                                                    *)
LEMMA ReachIsClosed ==
  ASSUME TypeInv, WeakAssumption, NEW S \in SUBSET Obj
  PROVE  /\ Reach(S) \subseteq Obj /\ S \subseteq Reach(S)
         /\ ReachedBy(Reach(S)) \ {NoKey} \subseteq Reach(S)
<1> DEFINE K == Cardinality(Obj)
           Done(R) == ReachedBy(R) \ {NoKey} \subseteq R
<1>1. \A R \in SUBSET Obj : ReachedBy(R) \ {NoKey} \subseteq Obj
  BY ReachedIsObject
<1>2. K \in Nat
  BY <1>1, ReachSteps
<1> HIDE DEF K
<1>3. PICK P : Climbs(P, S, Obj)
  BY <1>1, ReachSteps
<1>a. /\ \A n \in 0..K : P[n] \in SUBSET Obj
      /\ P[0] = S
      /\ \A n \in 1..K : P[n] = P[n - 1] \cup (ReachedBy(P[n - 1]) \ {NoKey})
      /\ Reach(S) = P[K]
  BY <1>3 DEF Climbs, K
<1> DEFINE Grown(n) == S \subseteq P[n] /\ (Done(P[n]) \/ Cardinality(P[n]) >= n)
           T == {n \in Nat : n \in 0..K => Grown(n)}
<1>4. \A R \in SUBSET Obj : IsFiniteSet(R) /\ Cardinality(R) \in Nat
  BY FS_Subset, FS_CardinalityType DEF WeakAssumption
<1>5. 0 \in T
  BY <1>2, <1>a, <1>4
<1>6. ASSUME NEW n \in Nat, n \in T PROVE n + 1 \in T
  <2> SUFFICES ASSUME n + 1 \in 0..K
               PROVE  /\ S \subseteq P[n + 1]
                      /\ Done(P[n + 1]) \/ Cardinality(P[n + 1]) >= n + 1
    OBVIOUS
  <2>1. n + 1 \in 1..K /\ n + 1 - 1 = n /\ n \in 0..K
    BY <1>2
  <2>2. S \subseteq P[n] /\ (Done(P[n]) \/ Cardinality(P[n]) >= n)
    BY <1>6, <2>1
  <2>3. P[n + 1] = P[n] \cup (ReachedBy(P[n]) \ {NoKey}) /\ P[n] \in SUBSET Obj /\ P[n + 1] \in SUBSET Obj
    BY <1>a, <2>1
  <2>4. S \subseteq P[n + 1]
    BY <2>2, <2>3
  <2>5. CASE Done(P[n])
    <3>1. P[n + 1] = P[n]
      BY <2>3, <2>5
    <3> QED
      BY <3>1, <2>4, <2>5
  <2>6. CASE ~Done(P[n])
    <3>1. P[n] \subseteq P[n + 1] /\ P[n] # P[n + 1]
      BY <2>3, <2>6
    <3>2. Cardinality(P[n]) >= n /\ Cardinality(P[n]) \in Nat /\ Cardinality(P[n + 1]) \in Nat
      BY <2>2, <2>3, <2>6, <1>4
    <3>3. Cardinality(P[n]) < Cardinality(P[n + 1])
      <4>1. IsFiniteSet(P[n + 1])
        BY <2>3, <1>4
      <4> HIDE DEF Done, T
      <4>2. /\ Cardinality(P[n]) <= Cardinality(P[n + 1])
            /\ Cardinality(P[n]) = Cardinality(P[n + 1]) => P[n] = P[n + 1]
        BY <4>1, <3>1, FS_Subset
      <4> QED
        BY <4>2, <3>1, <3>2
    <3> QED
      BY <3>2, <3>3, <2>4
  <2> QED
    BY <2>5, <2>6
<1> HIDE DEF T
<1>7. Nat \subseteq T
  BY <1>5, <1>6, SetInduction
<1>8. S \subseteq P[K] /\ (Done(P[K]) \/ Cardinality(P[K]) >= K) /\ P[K] \in SUBSET Obj
  BY <1>2, <1>a, <1>7 DEF T
<1>9. Done(P[K])
  <2> SUFFICES ASSUME ~Done(P[K]) PROVE FALSE
    OBVIOUS
  <2>1. Cardinality(P[K]) >= K /\ P[K] \subseteq Obj /\ IsFiniteSet(Obj)
    BY <1>8 DEF WeakAssumption
  <2>2. P[K] = Obj
    <3> HIDE DEF Done
    <3>1. Cardinality(P[K]) <= K /\ (Cardinality(P[K]) = K => P[K] = Obj)
      BY <2>1, FS_Subset DEF K
    <3>2. Cardinality(P[K]) \in Nat
      BY <1>4, <2>1
    <3> QED
      BY <1>2, <3>1, <3>2, <2>1
  <2> QED
    BY <2>2, <1>1
<1> QED
  BY <1>a, <1>8, <1>9

(* When nothing is left to be visited and the ephemeron tables have        *)
(* converged, what is reached from marked objects is marked: from all of   *)
(* them, or up to strings that only a weak table has.                      *)
LEMMA NothingLeft ==
  ASSUME WeakAssumption, IndInv, phase \in {"converge", "converge again", "done"},
         Pending = {}, \A t \in ephemeron : Converged(t),
         NEW N, NW \subseteq N, N \subseteq NW \cup Strings,
         \A t \in NW \cap WeakValue : OValues(t) \cap Strings \subseteq N
  PROVE  \A R \in SUBSET N : ReachedBy(R) \ {NoKey} \subseteq N
<1> SUFFICES ASSUME NEW R \in SUBSET N, NEW x \in ReachedBy(R), x # NoKey PROVE x \in N
  OBVIOUS
<1>1. InAtomic /\ \A t : Original(t) = ToSet(before[t])
  BY DEF InAtomic, Original
<1>2. \A o \in NW : Settled(o)
  BY DEF IndInv, SettledInv
<1>3. R \cap (AllTables \cup Closures \cup Upvalues \cup Threads) \subseteq NW
  BY KindFacts
<1> DEFINE pairs(t) == ToSet(before[t])
           inTable(t) ==
             CASE t \in Strong    -> UNION {{e[1], e[2]} : e \in pairs(t)}
               [] t \in WeakValue -> {e[1] : e \in pairs(t)}
                                       \cup ({e[2] : e \in pairs(t)} \cap Strings)
               [] t \in Ephemeron -> {e[2] : e \in {p \in pairs(t) : p[1] \in R \cup Strings \cup {NoKey}}}
               [] OTHER           -> {}
<1>4. ReachedBy(R) = (UNION {inTable(t) : t \in R \cap AllTables})
        \cup (UNION {upvals[cl] : cl \in R \cap Closures})
        \cup {val[u] : u \in R \cap Upvalues}
        \cup (UNION {stack[th] \cup OpenIn(th) : th \in R \cap Threads})
  BY DEF ReachedBy
<1>5. ASSUME NEW t \in R \cap AllTables, x \in inTable(t) PROVE x \in N
  <2>1. t \in NW /\ Settled(t)
    BY <1>2, <1>3, <1>5
  <2>2. /\ \A e \in pairs(t) : e[1] = NoKey \/ e[1] \in OKeys(t)
        /\ \A e \in pairs(t) : e[2] \in OValues(t)
    BY <1>1 DEF OKeys, OValues
  <2>3. OKeys(t) \cup OValues(t) \subseteq Obj
    BY <1>5, TableFacts DEF IndInv
  <2>4. CASE t \in Strong
    <3>1. \E e \in pairs(t) : x = e[1] \/ x = e[2]
      BY <2>4, <1>5
    <3>2. OKeys(t) \cup OValues(t) \subseteq NW
      BY <2>1, <2>4 DEF Settled, SettledStrong
    <3> QED
      BY <3>1, <3>2, <2>2
  <2>5. CASE t \in WeakValue
    <3>1. \E e \in pairs(t) : x = e[1] \/ (x = e[2] /\ x \in Strings)
      BY <2>5, <1>5, KindFacts
    <3>2. OKeys(t) \subseteq NW
      BY <2>1, <2>5 DEF Settled, SettledWeakValue
    <3> QED
      BY <3>1, <3>2, <2>1, <2>2, <2>5
  <2>6. CASE t \in Ephemeron
    <3>1. PICK e \in pairs(t) : x = e[2] /\ e[1] \in R \cup Strings \cup {NoKey}
      BY <2>6, <1>5, KindFacts
    <3>2. CASE t \in ephemeron
      <4>1. Cleared(e[1], color) \/ ~White(e[2])
        BY <3>1, <3>2, <1>1 DEF Converged
      <4>2. e[1] \in NW \cup Strings \cup {NoKey}
        BY <3>1
      <4>3. ~Cleared(e[1], color)
        BY <4>2 DEF Cleared, NW, White
      <4> QED
        BY <4>1, <4>3, <3>1, <2>2, <2>3 DEF NW
    <3>3. CASE t \notin ephemeron
      BY <3>1, <3>3, <2>1, <2>2, <2>6 DEF Settled, SettledEphemeron
    <3> QED
      BY <3>2, <3>3
  <2> QED
    BY <2>4, <2>5, <2>6, <1>5
<1>6. ASSUME NEW c \in R \cap Closures, x \in upvals[c] PROVE x \in N
  BY <1>2, <1>3, <1>6 DEF Settled
<1>7. ASSUME NEW u \in R \cap Upvalues, x = val[u] PROVE x \in N
  BY <1>3, <1>7 DEF IndInv, UpvalInv
<1>8. ASSUME NEW th \in R \cap Threads, x \in stack[th] \cup OpenIn(th) PROVE x \in N
  BY <1>2, <1>3, <1>8 DEF Settled, SettledThread
<1> HIDE DEF inTable, pairs
<1>9. \/ x \in UNION {inTable(t) : t \in R \cap AllTables}
      \/ x \in UNION {upvals[cl] : cl \in R \cap Closures}
      \/ x \in {val[u] : u \in R \cap Upvalues}
      \/ x \in UNION {stack[th] \cup OpenIn(th) : th \in R \cap Threads}
  BY <1>4
<1>10. CASE x \in UNION {inTable(t) : t \in R \cap AllTables}
  BY <1>5, <1>10
<1>11. CASE x \in UNION {upvals[cl] : cl \in R \cap Closures}
  BY <1>6, <1>11
<1>12. CASE x \in {val[u] : u \in R \cap Upvalues}
  BY <1>7, <1>12
<1>13. CASE x \in UNION {stack[th] \cup OpenIn(th) : th \in R \cap Threads}
  BY <1>8, <1>13, Zenon
<1> QED
  BY <1>9, <1>10, <1>11, <1>12, <1>13

(* what is reached does not depend on marks, lists and entries *)
LEMMA SameReach ==
  ASSUME InAtomic' = InAtomic, UNCHANGED <<heap, before>>
  PROVE  StrongSet' = StrongSet
<1>1. \A th : OpenIn(th)' = OpenIn(th)
  BY DEF OpenIn, heap
<1>2. \A X : ReachedBy(X)' = ReachedBy(X)
  BY <1>1 DEF ReachedBy, heap
<1> QED
  BY <1>2 DEF StrongSet, Reach

-----------------------------------------------------------------------------
(* The steps of the collector that are not visits. *)

(* what has been visited stays so while nothing loses its mark or leaves   *)
(* the lists *)
LEMMA SettledStays ==
  ASSUME NEW o, Settled(o), InAtomic, InAtomic', UNCHANGED <<heap, before>>,
         NW \subseteq NW', color'[o] = color[o], weak \subseteq weak', allweak \subseteq allweak',
         o \in ephemeron => o \in ephemeron',
         o \in WeakValue /\ o \in weak \ origweak /\ phase # "done" =>
           (o \in weak' \ origweak' /\ phase' # "done") \/ OValues(o) \cap Strings \subseteq NW'
  PROVE  Settled(o)'
<1>1. /\ Original(o)' = Original(o)
      /\ OKeys(o)' = OKeys(o) /\ OValues(o)' = OValues(o)
  BY DEF Original, OKeys, OValues
<1>2. /\ stack' = stack /\ upvals' = upvals /\ val' = val /\ owner' = owner
      /\ OpenIn(o)' = OpenIn(o)
  BY DEF heap, OpenIn
<1>3. SettledStrong(o) => SettledStrong(o)'
  BY <1>1 DEF SettledStrong
<1>4. o \in WeakValue /\ SettledWeakValue(o) => SettledWeakValue(o)'
  BY <1>1 DEF SettledWeakValue
<1>5. SettledEphemeron(o) => SettledEphemeron(o)'
  BY <1>1 DEF SettledEphemeron
<1>6. SettledThread(o) => SettledThread(o)'
  BY <1>2 DEF SettledThread
<1> QED
  BY <1>2, <1>3, <1>4, <1>5, <1>6 DEF Settled

(* at the start everything is white and no list has anything *)
LEMMA InitKeeps ==
  ASSUME WeakAssumption, Init
  PROVE  IndInv
<1>1. PICK h \in Heaps :
        /\ entries = h.entries /\ stack = h.stack /\ upvals = h.upvals
        /\ val = h.val /\ owner = h.owner
        /\ twups = {th \in Threads : \E u \in Upvalues : h.owner[u] = th}
        /\ finobj = h.finobj
  BY DEF Init
<1>2. /\ entries \in [AllTables -> Entries] /\ before \in [AllTables -> Entries]
      /\ stack \in [Threads -> SUBSET Held] /\ upvals \in [Closures -> SUBSET Upvalues]
      /\ val \in [Upvalues -> Held] /\ owner \in [Upvalues -> Threads \cup {"closed"}]
      /\ finobj \subseteq Held
  BY <1>1 DEF WeakAssumption, Entries, Init
<1>3. /\ tobefnz = {} /\ color = [o \in Obj |-> "white"] /\ gray = {} /\ grayagain = {}
      /\ weak = {} /\ allweak = {} /\ ephemeron = {} /\ saved = {} /\ next = {}
      /\ changed = FALSE /\ origweak = {} /\ origall = {} /\ phase = "pause"
  BY DEF Init
<1>4. NW = {} /\ ~InAtomic
  BY <1>3 DEF NW, White, InAtomic
<1>5. TypeInv
  BY <1>2, <1>3 DEF TypeInv, Phases
<1>6. \A u \in Upvalues : owner[u] # "closed" => owner[u] \in twups
  BY <1>1, <1>2
<1>7. PhaseInv
  BY <1>3, <1>4, <1>6 DEF PhaseInv
<1>8. ListInv
  BY <1>3, <1>4 DEF ListInv, Later, Obj
<1>9. SettledInv /\ UpvalInv /\ AllweakInv /\ EntriesInv /\ ClearedInv
  BY <1>3, <1>4 DEF SettledInv, UpvalInv, AllweakInv, EntriesInv, ClearedInv
<1>10. ConvergeInv /\ StrongInv /\ DoneInv
  BY <1>3 DEF ConvergeInv, StrongInv, DoneInv
<1> QED
  BY <1>5, <1>7, <1>8, <1>9, <1>10 DEF IndInv

(* restartcollection marks the main thread *)
LEMMA RestartKeeps ==
  ASSUME WeakAssumption, IndInv, RestartCollection
  PROVE  IndInv'
<1>1. /\ TypeInv /\ PhaseInv /\ ListInv
  BY DEF IndInv
<1>2. /\ phase = "pause" /\ phase' = "propagate"
      /\ color' = Marked({Main}) /\ gray' = ToGray({Main})
      /\ entries' = entries /\ stack' = stack /\ upvals' = upvals /\ val' = val
      /\ owner' = owner /\ twups' = twups /\ finobj' = finobj /\ tobefnz' = tobefnz
      /\ grayagain' = grayagain /\ weak' = weak /\ allweak' = allweak
      /\ ephemeron' = ephemeron /\ saved' = saved /\ next' = next /\ changed' = changed
      /\ origweak' = origweak /\ origall' = origall /\ before' = before
  BY DEF RestartCollection, heap, fins, locals
<1>3. Main \in Obj /\ Main \in Threads /\ Main \notin Upvalues /\ {Main} \in SUBSET Obj
  BY KindFacts DEF WeakAssumption, Obj
<1>4. Recolours({Main}, {})
  BY <1>1, <1>2 DEF Recolours, Marked, MarkColor, TypeInv
<1>5. NW = {} /\ ~InAtomic /\ ~InAtomic'
  BY <1>1, <1>2 DEF PhaseInv, InAtomic
<1>6. WithValues({Main}) = {Main}
  BY <1>3 DEF WithValues
<1>7. NW' = {Main} /\ Main \in gray' /\ gray' \subseteq NW'
  BY <1>1, <1>2, <1>3, <1>4, <1>5, <1>6, Marking
<1>8. /\ grayagain = {} /\ weak = {} /\ allweak = {} /\ ephemeron = {} /\ saved = {} /\ next = {}
      /\ origweak = {} /\ origall = {}
  BY <1>1, <1>5 DEF ListInv
<1>9. TypeInv'
  BY <1>1, <1>2, <1>4 DEF TypeInv, Recolours, Phases
<1>10. PhaseInv'
  BY <1>1, <1>2, <1>5, <1>7, <1>8 DEF PhaseInv
<1>11. ListInv'
  <2>1. \A t \in AllTables \ Strong : color'[t] # "black"
    <3> SUFFICES ASSUME NEW t \in AllTables \ Strong PROVE color'[t] # "black"
      OBVIOUS
    <3>1. t \in Obj /\ t \notin NW'
      BY <1>3, <1>7, KindFacts DEF Obj
    <3> QED
      BY <3>1 DEF NW, White
  <2> QED
    BY <1>2, <1>3, <1>5, <1>7, <1>8, <2>1 DEF ListInv, Later
<1>12. SettledInv' /\ UpvalInv'
  <2>1. NW' \subseteq Pending'
    BY <1>7 DEF Pending
  <2>2. NW' \cap Upvalues = {}
    BY <1>3, <1>7
  <2> QED
    BY <2>1, <2>2 DEF SettledInv, UpvalInv
<1>13. AllweakInv' /\ EntriesInv' /\ ClearedInv' /\ ConvergeInv' /\ StrongInv' /\ DoneInv'
  BY <1>2, <1>5 DEF AllweakInv, EntriesInv, ClearedInv, ConvergeInv, StrongInv, DoneInv
<1> QED
  BY <1>9, <1>10, <1>11, <1>12, <1>13 DEF IndInv

(* the start of atomic: what is in grayagain is still to be visited *)
LEMMA EnterKeeps ==
  ASSUME WeakAssumption, IndInv, EnterAtomic
  PROVE  IndInv'
<1>1. /\ TypeInv /\ PhaseInv /\ ListInv /\ SettledInv /\ UpvalInv
  BY DEF IndInv
<1>2. /\ phase = "propagate" /\ gray = {} /\ phase' = "roots"
      /\ saved' = grayagain /\ grayagain' = {} /\ before' = entries
      /\ color' = color /\ entries' = entries /\ stack' = stack /\ upvals' = upvals
      /\ val' = val /\ owner' = owner /\ twups' = twups /\ finobj' = finobj
      /\ tobefnz' = tobefnz /\ gray' = gray /\ weak' = weak /\ allweak' = allweak
      /\ ephemeron' = ephemeron /\ next' = next /\ changed' = changed
      /\ origweak' = origweak /\ origall' = origall
  BY DEF EnterAtomic, Goes, heap, fins
<1>3. NW' = NW /\ ~InAtomic /\ InAtomic'
  BY <1>2 DEF NW, White, InAtomic
<1>4. /\ saved = {} /\ next = {} /\ origweak = {} /\ origall = {}
      /\ weak = {} /\ ephemeron = {} /\ Main \in NW
  BY <1>1, <1>2, <1>3 DEF PhaseInv
<1>5. Pending' = Pending /\ Pending = grayagain
  BY <1>2, <1>3, <1>4 DEF Pending, Later
<1>6. TypeInv'
  BY <1>1, <1>2 DEF TypeInv, Phases
<1>7. PhaseInv'
  BY <1>1, <1>2, <1>3, <1>4 DEF PhaseInv
<1>8. ListInv'
  BY <1>1, <1>2, <1>3, <1>4 DEF ListInv, Later
<1>9. \A t : /\ Original(t)' = Original(t)
             /\ OKeys(t)' = OKeys(t) /\ OValues(t)' = OValues(t)
  BY <1>2, <1>3 DEF Original, OKeys, OValues
<1>10. ASSUME NEW o \in NW \ Pending PROVE Settled(o) /\ o \notin WeakValue \cup Ephemeron \cup Threads
  BY <1>1, <1>3, <1>10 DEF SettledInv, Settled, SettledWeakValue, SettledEphemeron, SettledThread
<1>11. SettledInv'
  <2> SUFFICES ASSUME NEW o \in NW \ Pending PROVE Settled(o)'
    BY <1>3, <1>5 DEF SettledInv
  <2>1. SettledStrong(o) => SettledStrong(o)'
    BY <1>2, <1>3, <1>9 DEF SettledStrong
  <2> QED
    BY <2>1, <1>2, <1>3, <1>10 DEF Settled
<1>12. UpvalInv'
  BY <1>1, <1>2, <1>3, <1>5 DEF UpvalInv, White
<1>13. allweak \cap Ephemeron = {}
  BY <1>1, <1>2, <1>5, <1>10, <1>3 DEF ListInv, Later
<1>14. AllweakInv' /\ EntriesInv'
  BY <1>2, <1>4, <1>13 DEF AllweakInv, EntriesInv
<1>15. ClearedInv' /\ ConvergeInv' /\ StrongInv' /\ DoneInv'
  BY <1>2 DEF ClearedInv, ConvergeInv, StrongInv, DoneInv
<1> QED
  BY <1>6, <1>7, <1>8, <1>11, <1>12, <1>14, <1>15 DEF IndInv

(* remarkupvals: a marked upvalue whose thread is not marked has a value   *)
(* that is *)
LEMMA RemarkKeeps ==
  ASSUME WeakAssumption, IndInv, RemarkUpvals
  PROVE  IndInv'
<1>1. /\ TypeInv /\ PhaseInv /\ ListInv /\ SettledInv /\ UpvalInv /\ AllweakInv /\ EntriesInv
  BY DEF IndInv
<1> DEFINE unmarked == {th \in twups : White(th)}
           S == Remarked(unmarked)
<1>2. /\ phase = "roots" /\ gray = {} /\ phase' = "upvalues"
      /\ color' = Marked(S) /\ gray' = ToGray(S)
      /\ entries' = entries /\ stack' = stack /\ upvals' = upvals
      /\ val' = val /\ owner' = owner /\ finobj' = finobj
      /\ tobefnz' = tobefnz /\ grayagain' = grayagain /\ weak' = weak /\ allweak' = allweak
      /\ ephemeron' = ephemeron /\ saved' = saved /\ next' = next /\ changed' = changed
      /\ origweak' = origweak /\ origall' = origall /\ before' = before
      /\ UNCHANGED <<heap, before>>
  BY DEF RemarkUpvals, Goes, heap, fins, locals
<1>3. S \in SUBSET Obj
  BY <1>1 DEF Remarked, TypeInv, Held
<1>4. \A u \in NW \cap Upvalues : owner[u] \in unmarked => val[u] \in S
  BY DEF Remarked, NW
<1> HIDE DEF S
<1>5. Recolours(S, {})
  BY <1>1, <1>2 DEF Recolours, Marked, MarkColor, TypeInv
<1>6. /\ NW' = NW \cup WithValues(S) /\ S \subseteq NW'
      /\ \A o \in NW : color'[o] = color[o]
      /\ \A o \in NW' \ NW :
              /\ color'[o] = MarkColor(o)
              /\ o \in AllTables \cup Closures \cup Threads => o \in gray'
      /\ \A u \in (NW' \ NW) \cap Upvalues : val[u] \in NW'
      /\ gray' \subseteq (NW' \ NW) \cap (AllTables \cup Closures \cup Threads)
  BY <1>1, <1>2, <1>3, <1>5, Marking DEF WithValues
<1>7. InAtomic /\ InAtomic'
  BY <1>2 DEF InAtomic
<1>8. Pending \subseteq Pending'
  BY <1>2, <1>7 DEF Pending, Later
<1>9. TypeInv' /\ PhaseInv'
  BY <1>1, <1>2, <1>5, <1>6, <1>7 DEF TypeInv, PhaseInv, Recolours, Phases
<1>10. ListInv'
  BY <1>1, <1>2, <1>6, <1>7 DEF ListInv, Later
<1>11. SettledInv'
  <2> SUFFICES ASSUME NEW o \in NW' \ Pending' PROVE Settled(o)'
    BY DEF SettledInv
  <2>1. CASE o \in NW
    <3>1. Settled(o)
      BY <2>1, <1>1, <1>8 DEF SettledInv
    <3> QED
      BY <3>1, <2>1, <1>2, <1>6, <1>7, SettledStays
  <2>2. CASE o \notin NW
    <3>1. o \notin AllTables \cup Closures \cup Threads
      BY <2>2, <1>6 DEF Pending
    <3> QED
      BY <3>1 DEF Settled, AllTables
  <2> QED
    BY <2>1, <2>2
<1>12. UpvalInv'
  <2> SUFFICES ASSUME NEW u \in NW' \cap Upvalues
               PROVE  \/ val[u] \in NW' /\ (owner[u] = "closed" => color'[u] = "black")
                      \/ owner[u] # "closed" /\ owner[u] \in Pending'
    BY <1>2 DEF UpvalInv
  <2>1. CASE u \in NW
    <3>1. CASE owner[u] # "closed" /\ White(owner[u])
      <4>1. owner[u] \in unmarked
        BY <3>1, <1>1, <1>2 DEF PhaseInv
      <4> QED
        BY <4>1, <2>1, <3>1, <1>4, <1>6
    <3>2. CASE ~(owner[u] # "closed" /\ White(owner[u]))
      BY <3>2, <2>1, <1>1, <1>6, <1>8 DEF UpvalInv
    <3> QED
      BY <3>1, <3>2
  <2>2. CASE u \notin NW
    BY <2>2, <1>6 DEF MarkColor
  <2> QED
    BY <2>1, <2>2
<1>13. AllweakInv' /\ EntriesInv'
  BY <1>1, <1>2, <1>6, <1>7 DEF AllweakInv, EntriesInv, OValues, Original
<1>14. ClearedInv' /\ ConvergeInv' /\ StrongInv' /\ DoneInv'
  BY <1>2 DEF ClearedInv, ConvergeInv, StrongInv, DoneInv
<1> QED
  BY <1>9, <1>10, <1>11, <1>12, <1>13, <1>14 DEF IndInv

(* traversal of the old 'grayagain' *)
LEMMA AgainKeeps ==
  ASSUME WeakAssumption, IndInv, VisitAgain
  PROVE  IndInv'
<1>1. /\ TypeInv /\ PhaseInv /\ ListInv /\ SettledInv /\ UpvalInv /\ AllweakInv /\ EntriesInv
  BY DEF IndInv
<1>2. /\ phase = "upvalues" /\ gray = {} /\ phase' = "again" /\ gray' = saved /\ saved' = {}
      /\ color' = color /\ entries' = entries /\ stack' = stack /\ upvals' = upvals
      /\ val' = val /\ owner' = owner /\ twups' = twups /\ finobj' = finobj
      /\ tobefnz' = tobefnz /\ grayagain' = grayagain /\ weak' = weak /\ allweak' = allweak
      /\ ephemeron' = ephemeron /\ next' = next /\ changed' = changed
      /\ origweak' = origweak /\ origall' = origall /\ before' = before
      /\ UNCHANGED <<heap, before>>
  BY DEF VisitAgain, Goes, heap, fins
<1>3. NW' = NW /\ InAtomic /\ InAtomic'
  BY <1>2 DEF NW, White, InAtomic
<1>4. Pending' = Pending
  BY <1>2, <1>3 DEF Pending, Later
<1>5. TypeInv' /\ PhaseInv'
  BY <1>1, <1>2, <1>3 DEF TypeInv, PhaseInv, Phases
<1>6. ListInv'
  BY <1>1, <1>2, <1>3 DEF ListInv, Later
<1>7. SettledInv'
  <2> SUFFICES ASSUME NEW o \in NW \ Pending PROVE Settled(o)'
    BY <1>3, <1>4 DEF SettledInv
  <2>1. Settled(o)
    BY <1>1 DEF SettledInv
  <2> QED
    BY <2>1, <1>2, <1>3, SettledStays
<1>8. UpvalInv'
  BY <1>1, <1>2, <1>3, <1>4 DEF UpvalInv
<1>9. AllweakInv' /\ EntriesInv'
  BY <1>1, <1>2, <1>3 DEF AllweakInv, EntriesInv, OValues, Original
<1>10. ClearedInv' /\ ConvergeInv' /\ StrongInv' /\ DoneInv'
  BY <1>2 DEF ClearedInv, ConvergeInv, StrongInv, DoneInv
<1> QED
  BY <1>5, <1>6, <1>7, <1>8, <1>9, <1>10 DEF IndInv

(* A round of convergeephemerons begins: its tables wait for their visit.  *)
LEMMA RoundKeeps ==
  ASSUME WeakAssumption, IndInv, StartRound, gray = {}, next = {},
         phase \in {"again", "converge", "resurrect", "converge again"},
         phase' = IF phase \in {"again", "converge"} THEN "converge" ELSE "converge again",
         UNCHANGED <<color, entries, heap, twups, fins, gray, grayagain, weak, allweak,
                     saved, origweak, origall, before>>
  PROVE  IndInv'
<1>1. /\ TypeInv /\ PhaseInv /\ ListInv /\ SettledInv /\ UpvalInv /\ AllweakInv /\ EntriesInv
      /\ ClearedInv /\ StrongInv
  BY DEF IndInv
<1>2. /\ next' = ephemeron /\ ephemeron' = {} /\ changed' = FALSE
      /\ color' = color /\ entries' = entries /\ stack' = stack /\ upvals' = upvals
      /\ val' = val /\ owner' = owner /\ twups' = twups /\ finobj' = finobj
      /\ tobefnz' = tobefnz /\ gray' = gray /\ grayagain' = grayagain /\ weak' = weak
      /\ allweak' = allweak /\ saved' = saved
      /\ origweak' = origweak /\ origall' = origall /\ before' = before
      /\ UNCHANGED <<heap, before>>
  BY DEF StartRound, heap, fins
<1>3. /\ NW' = NW /\ InAtomic /\ InAtomic'
      /\ phase' \in {"converge", "converge again"}
      /\ phase \in {"again", "converge"} => phase' = "converge"
      /\ phase \in {"resurrect", "converge again"} <=> phase' = "converge again"
  BY <1>2 DEF NW, White, InAtomic
<1>4. saved = {} /\ Pending = {} /\ Pending' = ephemeron
  BY <1>1, <1>2, <1>3 DEF PhaseInv, Pending, Later
<1>5. TypeInv'
  BY <1>1, <1>2, <1>3 DEF TypeInv, Phases
<1>6. PhaseInv'
  BY <1>1, <1>2, <1>3, <1>4 DEF PhaseInv
<1>7. ListInv'
  BY <1>1, <1>2, <1>3, <1>4 DEF ListInv, Later
<1>8. SettledInv'
  <2> SUFFICES ASSUME NEW o \in NW, o \notin ephemeron PROVE Settled(o)'
    BY <1>3, <1>4 DEF SettledInv
  <2>1. Settled(o)
    BY <1>1, <1>4 DEF SettledInv
  <2>2. phase' # "done"
    BY <1>3
  <2> QED
    BY <2>1, <2>2, <1>2, <1>3, SettledStays
<1>9. UpvalInv'
  BY <1>1, <1>2, <1>3, <1>4 DEF UpvalInv
<1>10. AllweakInv'
  BY <1>1, <1>2, <1>3 DEF AllweakInv, OValues, Original
<1>11. EntriesInv'
  BY <1>1, <1>2, <1>3 DEF EntriesInv
<1>12. ClearedInv'
  BY <1>1, <1>2, <1>3 DEF ClearedInv, Values
<1>13. ConvergeInv'
  BY <1>2, <1>3 DEF ConvergeInv
<1>14. StrongInv'
  <2>1. StrongSet' = StrongSet
    BY <1>2, <1>3, SameReach
  <2> QED
    BY <2>1, <1>1, <1>2, <1>3 DEF StrongInv
<1>15. DoneInv'
  BY <1>3 DEF DoneInv
<1> QED
  BY <1>5, <1>6, <1>7, <1>8, <1>9, <1>10, <1>11, <1>12, <1>13, <1>14, <1>15 DEF IndInv

(* the rounds start: the tables that wait are to be visited again *)
LEMMA ConvergeKeeps ==
  ASSUME WeakAssumption, IndInv,
         Converge("again", "converge") \/ Converge("resurrect", "converge again") \/ NextRound
  PROVE  IndInv'
<1>1. CASE Converge("again", "converge")
  <2>1. phase = "again" => next = {}
    BY DEF IndInv, PhaseInv
  <2> QED
    BY <1>1, <2>1, RoundKeeps DEF Converge, Goes
<1>2. CASE Converge("resurrect", "converge again")
  <2>1. phase = "resurrect" => next = {}
    BY DEF IndInv, PhaseInv
  <2> QED
    BY <1>2, <2>1, RoundKeeps DEF Converge, Goes
<1>3. CASE NextRound
  BY <1>3, RoundKeeps DEF NextRound
<1> QED
  BY <1>1, <1>2, <1>3

-----------------------------------------------------------------------------
(* Clearing. *)

(* what clearbyvalues and clearbykeys leave of a table *)
LEMMA KeptEntries ==
  ASSUME TypeInv, NEW t \in AllTables, NEW S
  PROVE  /\ Kept(entries[t], S) \in Entries
         /\ ToSet(Kept(entries[t], S)) = ToSet(entries[t]) \cap S
         /\ ToSet(entries[t]) \subseteq S => Kept(entries[t], S) = entries[t]
<1>1. entries[t] \in Seq((Held \cup {NoKey}) \X Held)
  BY DEF TypeInv, Entries
<1> DEFINE X == (Held \cup {NoKey}) \X Held
           l == entries[t]
<1>2. l \in Seq(X)
  BY <1>1
<1> HIDE DEF X
<1>3. Kept(l, S) \in Seq(X)
  BY <1>2, KeptFacts
<1>4. ToSet(Kept(l, S)) = ToSet(l) \cap S
  BY <1>2, KeptSet
<1>5. ToSet(l) \subseteq S => Kept(l, S) = l
  BY <1>2, KeptAll
<1> QED
  BY <1>3, <1>4, <1>5 DEF X, Entries

(* the tests of clearbykeys and clearbyvalues: what passes is marked, or a *)
(* string that is marked then, or no object *)
LEMMA ClearingTests ==
  ASSUME TypeInv, WeakAssumption
  PROVE  /\ \A t \in AllTables : ToSet(entries[t]) \subseteq Pairs
         /\ \A e \in Pairs : e[1] \in Held \cup {NoKey} /\ e[2] \in Held
         /\ \A e \in KeyKept : e[1] \in NW \cup Strings \cup {NoKey}
         /\ \A e \in ValueKept : e[2] \in NW \cup Strings
         /\ \A e \in Pairs : e[1] \in NW \cup Strings \cup {NoKey} => e \in KeyKept
         /\ \A e \in Pairs : e[2] \in NW \cup Strings => e \in ValueKept
<1>1. \A t \in AllTables : ToSet(entries[t]) \subseteq Pairs
  BY DEF Pairs
<1>2. ASSUME NEW e \in Pairs PROVE e[1] \in Held \cup {NoKey} /\ e[2] \in Held
  <2>1. PICK t \in AllTables : e \in ToSet(entries[t])
    BY <1>2 DEF Pairs
  <2>2. entries[t] \in Entries
    BY DEF TypeInv
  <2> QED
    BY <2>1, <2>2, EntryFacts
<1>3. Held \subseteq Obj /\ NoKey \notin Obj
  BY DEF Held, WeakAssumption
<1> QED
  BY <1>1, <1>2, <1>3 DEF KeyKept, ValueKept, Cleared, NW, White

(* the strings that are met are all that is marked with them *)
LEMMA StringsMet ==
  ASSUME NEW S, NEW i
  PROVE  /\ StringsIn(S, i) \subseteq Strings
         /\ \A t \in S : \A e \in ToSet(entries[t]) : e[i] \in Strings => e[i] \in StringsIn(S, i)
BY DEF StringsIn

(* Weak values go and what is to be finalized is marked: the tables have   *)
(* converged, so that all that is reached from the main thread is marked.  *)
LEMMA ClearValuesKeeps ==
  ASSUME WeakAssumption, IndInv, ClearValues
  PROVE  IndInv'
<1>1. /\ TypeInv /\ PhaseInv /\ ListInv /\ SettledInv /\ UpvalInv /\ AllweakInv /\ EntriesInv
      /\ ConvergeInv
  BY DEF IndInv
<1> DEFINE S == StringsIn(FirstLists, 2) \cup tobefnz'
<1>2. /\ phase = "converge" /\ gray = {} /\ next = {} /\ ~changed /\ phase' = "resurrect"
      /\ entries' = Keep(FirstLists, ValueKept)
      /\ origweak' = weak /\ origall' = allweak
      /\ finobj' = finobj \ Separated /\ tobefnz' = tobefnz \cup Separated
      /\ color' = Marked(S) /\ gray' = ToGray(S)
      /\ stack' = stack /\ upvals' = upvals /\ val' = val /\ owner' = owner
      /\ twups' = twups /\ grayagain' = grayagain /\ weak' = weak /\ allweak' = allweak
      /\ ephemeron' = ephemeron /\ saved' = saved /\ next' = next /\ changed' = changed
      /\ before' = before
      /\ UNCHANGED <<heap, before>>
  BY DEF ClearValues, Goes, AnotherRound, heap
<1>3. InAtomic /\ InAtomic' /\ saved = {} /\ origweak = {} /\ origall = {} /\ Pending = {}
  BY <1>1, <1>2 DEF InAtomic, PhaseInv, Pending, Later
<1>4. finobj' \subseteq Held /\ tobefnz' \subseteq Held /\ Held \subseteq Obj
  BY <1>1, <1>2 DEF TypeInv, Separated, Held
<1>5. StringsIn(FirstLists, 2) \subseteq Strings /\ Strings \subseteq Obj
  BY StringsMet DEF Obj
<1>6. S \in SUBSET Obj /\ S \cap Upvalues = {}
  BY <1>4, <1>5, KindFacts DEF Held
<1>7. StringsIn(FirstLists, 2) \subseteq S /\ tobefnz' \subseteq S
  OBVIOUS
<1> HIDE DEF S
<1>8. WithValues(S) = S
  BY <1>6 DEF WithValues
<1>9. Recolours(S, {})
  BY <1>1, <1>2 DEF Recolours, Marked, MarkColor, TypeInv
<1>10. /\ NW' = NW \cup S
       /\ \A o \in NW : color'[o] = color[o]
       /\ \A o \in NW' \ NW :
              /\ color'[o] = MarkColor(o)
              /\ o \in AllTables \cup Closures \cup Threads => o \in gray'
       /\ gray' \subseteq (NW' \ NW) \cap (AllTables \cup Closures \cup Threads)
  BY <1>1, <1>2, <1>6, <1>8, <1>9, Marking
<1>11. \A t : Original(t)' = Original(t) /\ OValues(t)' = OValues(t)
  BY <1>2, <1>3 DEF Original, OValues
<1>12. \A t \in AllTables : /\ entries'[t] \in Entries
                            /\ ToSet(entries'[t]) \subseteq ToSet(entries[t])
                            /\ \A e \in ToSet(entries[t]) : e \in ValueKept => e \in ToSet(entries'[t])
                            /\ t \in FirstLists => ToSet(entries'[t]) \subseteq ValueKept
                            /\ t \notin FirstLists => entries'[t] = entries[t]
                            /\ ToSet(entries[t]) \subseteq ValueKept => entries'[t] = entries[t]
  <2> SUFFICES ASSUME NEW t \in AllTables
               PROVE  /\ entries'[t] \in Entries
                      /\ ToSet(entries'[t]) \subseteq ToSet(entries[t])
                      /\ \A e \in ToSet(entries[t]) : e \in ValueKept => e \in ToSet(entries'[t])
                      /\ t \in FirstLists => ToSet(entries'[t]) \subseteq ValueKept
                      /\ t \notin FirstLists => entries'[t] = entries[t]
                      /\ ToSet(entries[t]) \subseteq ValueKept => entries'[t] = entries[t]
    OBVIOUS
  <2>1. entries'[t] = IF t \in FirstLists THEN Kept(entries[t], ValueKept) ELSE entries[t]
    BY <1>2 DEF Keep
  <2>2. entries[t] \in Entries
    BY <1>1 DEF TypeInv
  <2> QED
    BY <2>1, <2>2, <1>1, KeptEntries
<1>13. TypeInv'
  <2>1. entries' \in [AllTables -> Entries]
    <3>1. entries' = [t \in AllTables |-> entries'[t]]
      BY <1>2 DEF Keep
    <3> QED
      BY <3>1, <1>12
  <2> QED
    BY <2>1, <1>1, <1>2, <1>4, <1>9 DEF TypeInv, Recolours, Phases
<1>14. PhaseInv'
  BY <1>1, <1>2, <1>3, <1>10 DEF PhaseInv
<1>15. ListInv'
  BY <1>1, <1>2, <1>3, <1>10 DEF ListInv, Later
<1>16. \A t \in AllTables : entries[t] = before[t] /\ OValues(t) = Values(t)
  BY <1>1, <1>2, <1>3 DEF EntriesInv, OValues, Values, Original
<1>17. SettledInv'
  <2> SUFFICES ASSUME NEW o \in NW' \ Pending' PROVE Settled(o)'
    BY DEF SettledInv
  <2>1. CASE o \in NW
    <3>1. Settled(o)
      BY <2>1, <1>1, <1>3 DEF SettledInv
    <3>2. ASSUME o \in WeakValue, o \in weak PROVE OValues(o) \cap Strings \subseteq NW'
      <4>1. OValues(o) = Values(o)
        BY <3>2, <1>16 DEF AllTables
      <4>2. OValues(o) \cap Strings \subseteq StringsIn(FirstLists, 2)
        BY <4>1, <3>2, StringsMet DEF Values, FirstLists
      <4> QED
        BY <4>2, <1>7, <1>10
    <3> QED
      BY <3>1, <3>2, <2>1, <1>2, <1>3, <1>10, SettledStays
  <2>2. CASE o \notin NW
    <3>1. o \notin AllTables \cup Closures \cup Threads
      BY <2>2, <1>10 DEF Pending
    <3> QED
      BY <3>1 DEF Settled, AllTables
  <2> QED
    BY <2>1, <2>2
<1>18. UpvalInv'
  <2>1. NW' \cap Upvalues \subseteq NW
    BY <1>6, <1>10
  <2> QED
    BY <2>1, <1>1, <1>2, <1>3, <1>10 DEF UpvalInv
<1>19. AllweakInv'
  BY <1>1, <1>2, <1>3, <1>10, <1>11 DEF AllweakInv
<1>20. EntriesInv'
  <2> SUFFICES ASSUME NEW t \in AllTables
               PROVE  /\ ToSet(entries'[t]) \subseteq ToSet(before[t])
                      /\ t \in Strong \/ t \notin weak \cup (allweak \ Ephemeron)
                           => entries'[t] = before[t]
    BY <1>2, <1>3 DEF EntriesInv
  <2>1. ToSet(entries'[t]) \subseteq ToSet(before[t])
    BY <1>12, <1>16
  <2>2. ASSUME t \notin FirstLists PROVE entries'[t] = before[t]
    BY <2>2, <1>12, <1>16
  <2>3. ASSUME t \in allweak \cap Ephemeron PROVE entries'[t] = before[t]
    <3>1. Values(t) \subseteq NW
      BY <2>3, <1>1, <1>3, <1>16 DEF AllweakInv
    <3>2. ToSet(entries[t]) \subseteq ValueKept
      BY <3>1, <1>1, ClearingTests DEF Values
    <3> QED
      BY <3>2, <1>12, <1>16
  <2>4. t \in Strong => t \notin FirstLists
    BY <1>1, KindFacts DEF ListInv, FirstLists
  <2> QED
    BY <2>1, <2>2, <2>3, <2>4 DEF FirstLists
<1>21. ClearedInv'
  <2> SUFFICES ASSUME NEW t \in weak \cup allweak, NEW e \in ToSet(entries'[t])
               PROVE  e[2] \in NW'
    BY <1>2 DEF ClearedInv, Values
  <2>1. t \in AllTables /\ t \in FirstLists
    BY <1>1 DEF ListInv, AllTables, FirstLists
  <2>2. e \in ValueKept /\ e \in ToSet(entries[t])
    BY <2>1, <1>12
  <2>3. e[2] \in NW \cup Strings
    BY <2>2, <1>1, ClearingTests
  <2>4. e[2] \in Strings => e[2] \in StringsIn(FirstLists, 2)
    BY <2>1, <2>2, StringsMet
  <2> QED
    BY <2>3, <2>4, <1>7, <1>10
<1>22. StrongInv'
  <2>1. StrongSet' = StrongSet
    BY <1>2, <1>3, SameReach
  <2>2. StrongSet \subseteq NW \cup Strings
    <3> DEFINE N == NW \cup Strings
    <3>1. NW \subseteq N /\ N \subseteq NW \cup Strings
          /\ \A t \in NW \cap WeakValue : OValues(t) \cap Strings \subseteq N
      OBVIOUS
    <3>2. N \in SUBSET Obj /\ {Main} \in SUBSET N
      BY <1>1, <1>2, <1>5 DEF NW, PhaseInv
    <3>3. \A t \in ephemeron : Converged(t)
      BY <1>1, <1>2 DEF ConvergeInv
    <3>4. phase \in {"converge", "converge again", "done"}
      BY <1>2
    <3> HIDE DEF N
    <3>5. \A R \in SUBSET N : ReachedBy(R) \ {NoKey} \subseteq N
      BY <3>1, <3>3, <3>4, <1>3, NothingLeft
    <3>6. StrongSet \subseteq N
      BY <3>2, <3>5, ReachWithin DEF StrongSet
    <3> QED
      BY <3>6 DEF N
  <2>3. finobj' \cup tobefnz' \subseteq NW'
    BY <1>1, <1>2, <1>4, <1>7, <1>10 DEF Separated, NW
  <2>4. ASSUME NEW t \in StrongSet \cap AllTables, NEW e \in ToSet(before[t]),
               {e[1], e[2]} \subseteq StrongSet \cup {NoKey}
        PROVE  e \in ToSet(entries'[t])
    <3>1. e \in ToSet(entries[t]) /\ e \in Pairs
      BY <2>4, <1>1, <1>16, ClearingTests
    <3>2. e[2] # NoKey
      BY <3>1, <1>1, <1>4, ClearingTests DEF WeakAssumption
    <3>3. e \in ValueKept
      BY <3>1, <3>2, <2>2, <2>4, <1>1, ClearingTests
    <3> QED
      BY <3>1, <3>3, <1>12
  <2> QED
    BY <2>1, <2>2, <2>3, <2>4, <1>2, <1>10 DEF StrongInv
<1>23. ConvergeInv' /\ DoneInv'
  BY <1>2 DEF ConvergeInv, DoneInv
<1> QED
  BY <1>13, <1>14, <1>15, <1>17, <1>18, <1>19, <1>20, <1>21, <1>22, <1>23 DEF IndInv

(* The end of atomic: no entry that stays has a key or a value that is not *)
(* marked.  Only strings are marked.                                       *)
LEMMA ClearKeysKeeps ==
  ASSUME WeakAssumption, IndInv, ClearKeys
  PROVE  IndInv'
<1>1. /\ TypeInv /\ PhaseInv /\ ListInv /\ SettledInv /\ UpvalInv /\ AllweakInv /\ EntriesInv
      /\ ClearedInv /\ ConvergeInv /\ StrongInv
  BY DEF IndInv
<1> DEFINE S == StringsIn(KeyLists, 1) \cup StringsIn(ValueLists, 2)
           stays(t) == {e \in Pairs : /\ t \in KeyLists => e \in KeyKept
                                      /\ t \in ValueLists => e \in ValueKept}
<1>2. /\ phase = "converge again" /\ gray = {} /\ next = {} /\ ~changed /\ phase' = "done"
      /\ entries' = [t \in AllTables |-> Kept(entries[t], stays(t))]
      /\ color' = Marked(S)
      /\ stack' = stack /\ upvals' = upvals /\ val' = val /\ owner' = owner
      /\ twups' = twups /\ finobj' = finobj /\ tobefnz' = tobefnz /\ gray' = gray
      /\ grayagain' = grayagain /\ weak' = weak /\ allweak' = allweak
      /\ ephemeron' = ephemeron /\ saved' = saved /\ next' = next /\ changed' = changed
      /\ origweak' = origweak /\ origall' = origall /\ before' = before
      /\ UNCHANGED <<heap, before>>
  BY DEF ClearKeys, Goes, AnotherRound, heap, fins, lists, locals
<1>3. InAtomic /\ InAtomic' /\ saved = {} /\ Pending = {} /\ Pending' = {}
  BY <1>1, <1>2 DEF InAtomic, PhaseInv, Pending, Later
<1>4. S \subseteq Strings /\ S \in SUBSET Obj /\ S \cap Upvalues = {}
  BY StringsMet, KindFacts DEF Obj
<1>5. StringsIn(KeyLists, 1) \subseteq S /\ StringsIn(ValueLists, 2) \subseteq S
  OBVIOUS
<1> HIDE DEF S
<1>6. WithValues(S) = S
  BY <1>4 DEF WithValues
<1>7. Recolours(S, {})
  BY <1>1, <1>2 DEF Recolours, Marked, MarkColor, TypeInv
<1>8. NW' = NW \cup S /\ \A o \in NW : color'[o] = color[o]
  BY <1>1, <1>4, <1>6, <1>7, Marking
<1>9. \A t : Original(t)' = Original(t) /\ OValues(t)' = OValues(t)
  BY <1>2, <1>3 DEF Original, OValues
<1>10. \A t \in AllTables : /\ entries'[t] \in Entries
                            /\ ToSet(entries'[t]) = ToSet(entries[t]) \cap stays(t)
                            /\ ToSet(entries[t]) \subseteq stays(t) => entries'[t] = entries[t]
  <2> HIDE DEF stays
  <2> QED
    BY <1>1, <1>2, KeptEntries
<1>11. TypeInv'
  <2>1. entries' \in [AllTables -> Entries]
    <3>1. entries' = [t \in AllTables |-> entries'[t]]
      <4> HIDE DEF stays
      <4> QED
        BY <1>2
    <3> QED
      BY <3>1, <1>10
  <2> QED
    BY <2>1, <1>1, <1>2, <1>7 DEF TypeInv, Recolours, Phases
<1>12. PhaseInv' /\ ListInv'
  BY <1>1, <1>2, <1>3, <1>8 DEF PhaseInv, ListInv, Later
<1>13. \A t \in WeakValue : t \notin origweak => entries[t] = before[t] /\ OValues(t) = Values(t)
  <2>1. \A t \in WeakValue : t \notin origall /\ t \in AllTables
    BY <1>1, KindFacts DEF ListInv, AllTables
  <2> QED
    BY <2>1, <1>1, <1>2, <1>3 DEF EntriesInv, OValues, Values, Original
<1>14. SettledInv'
  <2> SUFFICES ASSUME NEW o \in NW' PROVE Settled(o)'
    BY DEF SettledInv
  <2>1. CASE o \in NW
    <3>1. Settled(o)
      BY <2>1, <1>1, <1>3 DEF SettledInv
    <3>2. ASSUME o \in WeakValue, o \in weak \ origweak PROVE OValues(o) \cap Strings \subseteq NW'
      <4>1. OValues(o) = Values(o)
        BY <3>2, <1>13
      <4>2. OValues(o) \cap Strings \subseteq StringsIn(ValueLists, 2)
        BY <4>1, <3>2, StringsMet DEF Values, ValueLists
      <4> QED
        BY <4>2, <1>5, <1>8
    <3> QED
      BY <3>1, <3>2, <2>1, <1>2, <1>3, <1>8, SettledStays
  <2>2. CASE o \notin NW
    <3>1. o \in Strings
      BY <2>2, <1>4, <1>8
    <3> QED
      BY <3>1, KindFacts DEF Settled, AllTables
  <2> QED
    BY <2>1, <2>2
<1>15. UpvalInv'
  <2>1. NW' \cap Upvalues \subseteq NW
    BY <1>4, <1>8
  <2> QED
    BY <2>1, <1>1, <1>2, <1>3, <1>8 DEF UpvalInv
<1>16. AllweakInv'
  BY <1>1, <1>2, <1>3, <1>8, <1>9 DEF AllweakInv
<1>17. EntriesInv'
  <2> SUFFICES ASSUME NEW t \in AllTables
               PROVE  /\ ToSet(entries'[t]) \subseteq ToSet(before[t])
                      /\ t \in Strong => entries'[t] = before[t]
    BY <1>2, <1>3 DEF EntriesInv
  <2>1. /\ ToSet(entries[t]) \subseteq ToSet(before[t])
        /\ t \in Strong => entries[t] = before[t]
    BY <1>1, <1>3 DEF EntriesInv
  <2>2. t \in Strong => t \notin KeyLists \cup ValueLists
    BY <1>1, KindFacts DEF ListInv, KeyLists, ValueLists
  <2>3. t \in Strong => entries'[t] = entries[t]
    BY <2>2, <1>1, <1>10, ClearingTests
  <2> QED
    BY <2>1, <2>3, <1>10
<1>18. ClearedInv'
  BY <1>2 DEF ClearedInv
<1>19. ConvergeInv'
  <2> SUFFICES ASSUME NEW t \in ephemeron PROVE Converged(t)'
    BY <1>2 DEF ConvergeInv
  <2>1. Converged(t) /\ t \in AllTables
    BY <1>1, <1>2 DEF ConvergeInv, ListInv, AllTables
  <2>2. OKeys(t) \cup OValues(t) \subseteq Obj
    BY <2>1, <1>1, TableFacts
  <2>3. ASSUME NEW e \in Original(t), Cleared(e[1], color) PROVE Cleared(e[1], color')
    <3>1. e[1] \in Obj
      BY <2>2, <2>3 DEF OKeys, Cleared
    <3>2. e[1] \notin NW'
      BY <3>1, <2>3, <1>4, <1>8 DEF Cleared, NW, White
    <3> QED
      BY <3>1, <3>2, <2>3 DEF Cleared, NW, White
  <2>4. \A e \in Original(t) : ~White(e[2]) => ~(White(e[2])')
    <3>1. \A e \in Original(t) : e[2] \in Obj
      BY <2>2 DEF OValues
    <3> QED
      BY <3>1, <1>8 DEF NW, White
  <2> QED
    BY <2>1, <2>3, <2>4, <1>9 DEF Converged
<1>20. StrongInv'
  <2>1. StrongSet' = StrongSet
    BY <1>2, <1>3, SameReach
  <2>2. StrongSet \subseteq NW \cup Strings /\ finobj \cup tobefnz \subseteq NW
    BY <1>1, <1>2 DEF StrongInv
  <2>3. ASSUME NEW t \in StrongSet \cap AllTables, NEW e \in ToSet(before[t]),
               {e[1], e[2]} \subseteq StrongSet \cup {NoKey}
        PROVE  e \in ToSet(entries'[t])
    <3>1. e \in ToSet(entries[t]) /\ e \in Pairs
      BY <2>3, <1>1, <1>2, ClearingTests DEF StrongInv
    <3>2. e[2] # NoKey
      BY <3>1, <1>1, ClearingTests DEF WeakAssumption, Held
    <3>3. e \in ValueKept /\ e \in KeyKept
      BY <3>1, <3>2, <2>2, <2>3, <1>1, ClearingTests
    <3> QED
      BY <3>1, <3>3, <1>10
  <2> QED
    BY <2>1, <2>2, <2>3, <1>2, <1>8 DEF StrongInv
<1>21. DoneInv'
  <2> SUFFICES ASSUME NEW t \in NW' \cap AllTables, NEW e \in ToSet(entries'[t])
               PROVE  (e[1] # NoKey => e[1] \in NW') /\ e[2] \in NW'
    BY <1>2 DEF DoneInv, Keys, Values
  <2>1. t \in NW /\ Settled(t)
    BY <1>1, <1>3, <1>4, <1>8, KindFacts DEF SettledInv
  <2>2. e \in ToSet(entries[t]) /\ e \in stays(t)
    BY <1>10
  <2>3. e \in ToSet(before[t]) /\ e \in Original(t)
    BY <2>2, <1>1, <1>3 DEF EntriesInv, Original
  <2>4. (e[1] # NoKey => e[1] \in OKeys(t)) /\ e[2] \in OValues(t) /\ e[2] \in Values(t)
    BY <2>2, <2>3 DEF OKeys, OValues, Values
  <2>5. ASSUME t \in KeyLists, e[1] # NoKey PROVE e[1] \in NW'
    <3>1. e[1] \in NW \cup Strings
      BY <2>2, <2>5, <1>1, ClearingTests
    <3>2. e[1] \in Strings => e[1] \in StringsIn(KeyLists, 1)
      BY <2>2, <2>5, StringsMet
    <3> QED
      BY <3>1, <3>2, <1>5, <1>8
  <2>6. ASSUME t \in ValueLists PROVE e[2] \in NW'
    <3>1. e[2] \in NW \cup Strings
      BY <2>2, <2>6, <1>1, ClearingTests
    <3>2. e[2] \in Strings => e[2] \in StringsIn(ValueLists, 2)
      BY <2>2, <2>6, StringsMet
    <3> QED
      BY <3>1, <3>2, <1>5, <1>8
  <2>7. ASSUME t \in origweak \cup origall PROVE e[2] \in NW'
    BY <2>4, <2>7, <1>1, <1>2, <1>8 DEF ClearedInv
  <2>8. t \in weak \cup allweak => t \in ValueLists \cup origweak \cup origall
    BY DEF ValueLists
  <2>9. CASE t \in Strong
    BY <2>1, <2>4, <2>9, <1>8 DEF Settled, SettledStrong
  <2>10. CASE t \in WeakValue
    BY <2>1, <2>4, <2>6, <2>7, <2>8, <2>10, <1>8 DEF Settled, SettledWeakValue
  <2>11. CASE t \in Ephemeron
    <3>1. CASE t \in ephemeron
      <4>1. Converged(t) /\ t \in KeyLists
        BY <3>1, <1>1, <1>2 DEF ConvergeInv, KeyLists
      <4>2. Cleared(e[1], color) \/ e[2] \in NW
        <5>1. e[2] \in Obj
          BY <2>4, <1>1, TableFacts
        <5> QED
          BY <4>1, <2>3, <5>1 DEF Converged, NW
      <4>3. ~Cleared(e[1], color)
        BY <4>1, <2>2 DEF KeyKept
      <4> QED
        BY <4>1, <4>2, <4>3, <2>5, <1>8
    <3>2. CASE t \notin ephemeron
      <4>1. OValues(t) \subseteq NW /\ (t \in allweak \/ OKeys(t) \subseteq NW)
        BY <3>2, <2>1, <2>11 DEF Settled, SettledEphemeron
      <4>2. t \in allweak => t \in KeyLists
        BY DEF KeyLists
      <4> QED
        BY <4>1, <4>2, <2>4, <2>5, <1>8
    <3> QED
      BY <3>1, <3>2
  <2>12. CASE t \in AllWeak
    <3>1. t \in allweak /\ t \in KeyLists
      BY <2>1, <2>12 DEF Settled, KeyLists
    <3> QED
      BY <3>1, <2>5, <2>6, <2>7, <2>8
  <2> QED
    BY <2>9, <2>10, <2>11, <2>12 DEF AllTables
<1> QED
  BY <1>11, <1>12, <1>14, <1>15, <1>16, <1>17, <1>18, <1>19, <1>20, <1>21 DEF IndInv

-----------------------------------------------------------------------------
(* The program's steps.  While it runs, only strong tables and closures    *)
(* are ever done with: threads and weak tables wait for atomic.            *)

(* what a step of the program leaves alone *)
Stays ==
  /\ phase = "propagate" /\ phase' = "propagate"
  /\ UNCHANGED <<upvals, twups, finobj, tobefnz, weak, allweak, ephemeron, saved, next,
                 changed, dir, origweak, origall, before>>

(* while the program runs nothing of atomic has begun *)
LEMMA RunningFacts ==
  ASSUME IndInv, Stays
  PROVE  /\ ~InAtomic /\ ~InAtomic'
         /\ saved = {} /\ next = {} /\ Pending = gray \cup grayagain
         /\ Pending' = gray' \cup grayagain' \cup next'
         /\ \A o \in NW \ Pending : /\ o \notin WeakValue \cup Ephemeron \cup Threads
                                    /\ o \in Strong => SettledStrong(o)
                                    /\ o \in AllWeak => o \in allweak
                                    /\ o \in Closures => upvals[o] \subseteq NW
         /\ ClearedInv' /\ ConvergeInv' /\ StrongInv' /\ DoneInv' /\ AllweakInv' /\ EntriesInv'
<1>1. ~InAtomic /\ ~InAtomic' /\ saved = {} /\ next = {} /\ saved' = {}
  BY DEF Stays, InAtomic, IndInv, PhaseInv
<1>2. Pending = gray \cup grayagain /\ Pending' = gray' \cup grayagain' \cup next'
  BY <1>1 DEF Pending, Later
<1>3. \A o \in NW \ Pending : /\ o \notin WeakValue \cup Ephemeron \cup Threads
                              /\ o \in Strong => SettledStrong(o)
                              /\ o \in AllWeak => o \in allweak
                              /\ o \in Closures => upvals[o] \subseteq NW
  BY <1>1 DEF IndInv, SettledInv, Settled, SettledWeakValue, SettledEphemeron, SettledThread
<1>4. ClearedInv' /\ ConvergeInv' /\ StrongInv' /\ DoneInv' /\ AllweakInv' /\ EntriesInv'
  BY <1>1 DEF Stays, ClearedInv, ConvergeInv, StrongInv, DoneInv, AllweakInv, EntriesInv
<1> QED
  BY <1>1, <1>2, <1>3, <1>4

(* the stack of the main thread: read without a barrier *)
LEMMA StackKeeps ==
  ASSUME WeakAssumption, IndInv, Stays, NEW X \in SUBSET Held,
         stack' = [stack EXCEPT ![Main] = X],
         UNCHANGED <<color, entries, val, owner, gray, grayagain>>
  PROVE  IndInv'
<1>1. /\ TypeInv /\ PhaseInv /\ ListInv /\ SettledInv /\ UpvalInv
  BY DEF IndInv
<1>2. /\ ~InAtomic /\ ~InAtomic'
      /\ Pending = gray \cup grayagain /\ Pending' = gray' \cup grayagain' \cup next'
      /\ \A o \in NW \ Pending : /\ o \notin WeakValue \cup Ephemeron \cup Threads
                                 /\ o \in Strong => SettledStrong(o)
                                 /\ o \in AllWeak => o \in allweak
                                 /\ o \in Closures => upvals[o] \subseteq NW
      /\ ClearedInv' /\ ConvergeInv' /\ StrongInv' /\ DoneInv' /\ AllweakInv' /\ EntriesInv'
  BY RunningFacts
<1>3. NW' = NW /\ Pending' = Pending
  BY <1>1, <1>2, RunningFacts DEF NW, White, Stays
<1>4. TypeInv' /\ PhaseInv' /\ ListInv'
  BY <1>1, <1>2, <1>3 DEF TypeInv, PhaseInv, ListInv, Later, Stays
<1>5. SettledInv'
  <2> SUFFICES ASSUME NEW o \in NW \ Pending PROVE Settled(o)'
    BY <1>3 DEF SettledInv
  <2>1. SettledStrong(o) => SettledStrong(o)'
    BY <1>2, <1>3 DEF SettledStrong, OKeys, OValues, Original
  <2> QED
    BY <2>1, <1>2, <1>3 DEF Settled, Stays
<1>6. UpvalInv'
  BY <1>1, <1>3 DEF UpvalInv, Stays, White
<1> QED
  BY <1>2, <1>4, <1>5, <1>6 DEF IndInv

(* the program forgets a value *)
LEMMA DropKeeps ==
  ASSUME WeakAssumption, IndInv, NEW v, Drop(v)
  PROVE  IndInv'
<1>1. Stays
  BY DEF Drop, Running, Stays, fins, lists, locals
<1>2. stack[Main] \ {v} \in SUBSET Held
  BY DEF IndInv, TypeInv, WeakAssumption
<1>3. stack' = [stack EXCEPT ![Main] = stack[Main] \ {v}]
  BY DEF Drop, IndInv, TypeInv
<1> QED
  BY <1>1, <1>2, <1>3, StackKeeps DEF Drop, lists

(* the program reads a value from a table *)
LEMMA LoadKeeps ==
  ASSUME WeakAssumption, IndInv, NEW t, NEW v, Load(t, v)
  PROVE  IndInv'
<1>1. Stays
  BY DEF Load, Running, Stays, fins, lists, locals
<1>2. v \in Held
  BY TableFacts DEF Load, IndInv
<1>3. stack[Main] \cup {v} \in SUBSET Held
  BY <1>2 DEF IndInv, TypeInv, WeakAssumption
<1>4. stack' = [stack EXCEPT ![Main] = stack[Main] \cup {v}]
  BY DEF Load, IndInv, TypeInv
<1> QED
  BY <1>1, <1>3, <1>4, StackKeeps DEF Load, lists

(* luaC_barrierback: a black table that gets a white key or value waits    *)
(* for another visit *)
LEMMA StoreKeeps ==
  ASSUME WeakAssumption, IndInv, NEW t, NEW k, NEW v, Store(t, k, v)
  PROVE  IndInv'
<1>1. /\ TypeInv /\ PhaseInv /\ ListInv /\ SettledInv /\ UpvalInv
  BY DEF IndInv
<1>2. Stays
  BY DEF Store, Running, Stays, fins, locals, heap
<1>3. /\ {t, v} \subseteq stack[Main] /\ k \in stack[Main] \cup {NoKey} /\ t \in AllTables
      /\ entries' = [entries EXCEPT ![t] = Append(@, <<k, v>>)]
      /\ stack' = stack /\ upvals' = upvals /\ val' = val /\ owner' = owner /\ gray' = gray
  BY DEF Store, heap
<1>4. /\ ~InAtomic /\ ~InAtomic' /\ saved = {} /\ next = {}
      /\ Pending = gray \cup grayagain /\ Pending' = gray' \cup grayagain' \cup next'
      /\ \A o \in NW \ Pending : /\ o \notin WeakValue \cup Ephemeron \cup Threads
                                 /\ o \in Strong => SettledStrong(o)
                                 /\ o \in AllWeak => o \in allweak
                                 /\ o \in Closures => upvals[o] \subseteq NW
      /\ ClearedInv' /\ ConvergeInv' /\ StrongInv' /\ DoneInv' /\ AllweakInv' /\ EntriesInv'
  BY <1>2, RunningFacts
<1>5. k \in Held \cup {NoKey} /\ v \in Held /\ Held \subseteq Obj /\ t \in Obj /\ NoKey \notin Obj
  BY <1>1, <1>3 DEF TypeInv, WeakAssumption, Held, Obj
<1> DEFINE caught == color[t] = "black" /\ (White(v) \/ (k # NoKey /\ White(k)))
<1>6. IF caught THEN color' = [color EXCEPT ![t] = "gray"] /\ grayagain' = grayagain \cup {t}
      ELSE color' = color /\ grayagain' = grayagain
  BY DEF Store
<1>7. caught => t \in Strong /\ t \in NW
  BY <1>1, <1>3, <1>4, <1>5 DEF ListInv, NW, White
<1> HIDE DEF caught
<1>8. /\ NW' = NW /\ Pending \subseteq Pending' /\ color' \in [Obj -> {"white", "gray", "black"}]
      /\ \A o \in Obj : o \notin Pending' \/ ~caught => color'[o] = color[o]
      /\ \A o \in Obj : o # t => color'[o] = color[o]
      /\ grayagain' \subseteq grayagain \cup (NW \cap Strong) /\ grayagain \subseteq grayagain'
  BY <1>1, <1>3, <1>4, <1>5, <1>6, <1>7 DEF TypeInv, NW, White
<1>9. entries' \in [AllTables -> Entries]
  <2>1. entries[t] \in Seq((Held \cup {NoKey}) \X Held)
    BY <1>1, <1>3 DEF TypeInv, Entries
  <2>2. Append(entries[t], <<k, v>>) \in Seq((Held \cup {NoKey}) \X Held)
    BY <2>1, <1>5
  <2> QED
    BY <2>2, <1>1, <1>3 DEF TypeInv, Entries
<1>10. TypeInv' /\ PhaseInv'
  BY <1>1, <1>2, <1>3, <1>4, <1>8, <1>9 DEF TypeInv, PhaseInv, Stays
<1>11. ListInv'
  <2>1. \A x \in AllTables \ Strong : color'[x] # "black"
    <3>1. \A x \in AllTables \ Strong : color'[x] = color[x]
      BY <1>6, <1>7, <1>8 DEF Obj
    <3> QED
      BY <3>1, <1>1, <1>4 DEF ListInv
  <2>2. Strong \cap (WeakValue \cup AllWeak \cup Ephemeron) = {} /\ Strong \subseteq AllTables
    BY KindFacts DEF AllTables
  <2>3. weak \cup allweak \subseteq WeakValue \cup AllWeak \cup Ephemeron
    BY <1>1 DEF ListInv
  <2> QED
    BY <2>1, <2>2, <2>3, <1>1, <1>2, <1>3, <1>4, <1>8 DEF ListInv, Later, Stays
<1>12. SettledInv'
  <2> SUFFICES ASSUME NEW o \in NW \ Pending' PROVE Settled(o)'
    BY <1>8 DEF SettledInv
  <2>1. o \in NW \ Pending /\ o \in Obj /\ color'[o] = color[o]
    BY <1>8 DEF NW
  <2>2. ASSUME o \in Strong PROVE SettledStrong(o)'
    <3>1. color[o] = "black" /\ OKeys(o) \cup OValues(o) \subseteq NW
      BY <2>1, <2>2, <1>4 DEF SettledStrong
    <3>2. CASE o = t
      <4>1. ~caught
        BY <3>2, <1>4, <1>6
      <4>2. v \in NW /\ (k # NoKey => k \in NW)
        BY <4>1, <3>1, <3>2, <1>5 DEF caught, NW
      <4>3. ToSet(entries'[o]) = ToSet(entries[o]) \cup {<<k, v>>}
        <5>1. entries[t] \in Seq((Held \cup {NoKey}) \X Held)
          BY <1>1, <1>3 DEF TypeInv, Entries
        <5>2. entries'[o] = Append(entries[t], <<k, v>>)
          BY <3>2, <1>1, <1>3 DEF TypeInv
        <5> DEFINE l == entries[t]
                   e == <<k, v>>
                   a == Append(l, e)
        <5>3. /\ Len(l) \in Nat /\ Len(a) = Len(l) + 1 /\ a[Len(l) + 1] = e
              /\ \A n \in 1..Len(l) : a[n] = l[n]
              /\ DOMAIN a = 1..Len(a) /\ DOMAIN l = 1..Len(l)
          BY <5>1
        <5> HIDE DEF l, e, a
        <5>4. ToSet(a) = ToSet(l) \cup {e}
          BY <5>3 DEF ToSet
        <5> QED
          BY <5>2, <5>4, <3>2 DEF a, l, e
      <4>4. OKeys(o)' \subseteq OKeys(o) \cup ({k} \ {NoKey}) /\ OValues(o)' \subseteq OValues(o) \cup {v}
        BY <4>3, <1>4 DEF OKeys, OValues, Original
      <4> QED
        BY <4>2, <4>4, <3>1, <2>1, <1>8 DEF SettledStrong
    <3>3. CASE o # t
      <4>1. entries'[o] = entries[o]
        BY <2>2, <3>3, <1>1, <1>3 DEF TypeInv, AllTables
      <4> QED
        BY <4>1, <3>1, <2>1, <1>4, <1>8 DEF SettledStrong, OKeys, OValues, Original
    <3> QED
      BY <3>2, <3>3
  <2> QED
    BY <2>1, <2>2, <1>2, <1>4, <1>8 DEF Settled, Stays
<1>13. UpvalInv'
  <2>1. \A u \in Upvalues : color'[u] = color[u]
    BY <1>3, <1>8, KindFacts DEF Obj
  <2>2. \A o : owner[o] \in Threads => (White(owner[o])' <=> White(owner[o]))
    BY <1>3, <1>8, KindFacts DEF White, Obj
  <2>3. \A u \in Upvalues : owner[u] # "closed" => owner[u] \in Threads
    BY <1>1 DEF TypeInv
  <2> QED
    BY <2>1, <2>2, <2>3, <1>1, <1>2, <1>3, <1>8 DEF UpvalInv, Stays
<1> QED
  BY <1>4, <1>10, <1>11, <1>12, <1>13 DEF IndInv

(* Something is marked while the program runs, and the objects of Z with   *)
(* it are black; what the lists have is marked.                            *)
LEMMA BarrierKeeps ==
  ASSUME WeakAssumption, IndInv, Stays, NEW S \in SUBSET Held, NEW Z \in SUBSET (NW \cap Upvalues),
         Recolours(S, Z), \A u \in Z : color'[u] = "black",
         gray' = gray \cup ToGray(S), UNCHANGED <<entries, grayagain>>,
         stack' \in [Threads -> SUBSET Held], val' \in [Upvalues -> Held],
         owner' \in [Upvalues -> Threads \cup {"closed"}],
         \A u \in Upvalues : owner'[u] = owner[u] \/ owner'[u] = "closed",
         \A u \in Upvalues : ~White(u) /\ owner'[u] = "closed" =>
           \/ color'[u] = "black" /\ val'[u] \in S
           \/ val'[u] = val[u] /\ owner'[u] = owner[u] /\ u \notin Z
  PROVE  IndInv'
<1>1. /\ TypeInv /\ PhaseInv /\ ListInv /\ SettledInv /\ UpvalInv
  BY DEF IndInv
<1>2. /\ ~InAtomic /\ ~InAtomic' /\ saved = {} /\ next = {}
      /\ Pending = gray \cup grayagain /\ Pending' = gray' \cup grayagain' \cup next'
      /\ \A o \in NW \ Pending : /\ o \notin WeakValue \cup Ephemeron \cup Threads
                                 /\ o \in Strong => SettledStrong(o)
                                 /\ o \in AllWeak => o \in allweak
                                 /\ o \in Closures => upvals[o] \subseteq NW
      /\ ClearedInv' /\ ConvergeInv' /\ StrongInv' /\ DoneInv' /\ AllweakInv' /\ EntriesInv'
  BY RunningFacts
<1>3. S \in SUBSET Obj /\ Z \in SUBSET NW /\ S \cap Upvalues = {}
  BY DEF Held
<1>4. WithValues(S) = S
  BY <1>3 DEF WithValues
<1>5. /\ NW' = NW \cup S
      /\ \A o \in NW \ Z : color'[o] = color[o]
      /\ \A o \in NW' \ NW :
              /\ color'[o] = MarkColor(o)
              /\ o \in AllTables \cup Closures \cup Threads => o \in ToGray(S)
      /\ ToGray(S) \subseteq (NW' \ NW) \cap (AllTables \cup Closures \cup Threads)
  BY <1>1, <1>3, <1>4, Marking
<1>6. Pending \subseteq Pending'
  BY <1>2
<1>7. TypeInv'
  BY <1>1 DEF TypeInv, Stays, Recolours
<1>8. PhaseInv'
  BY <1>1, <1>2, <1>5 DEF PhaseInv, Stays
<1>9. ListInv'
  <2>1. \A x \in AllTables \ Strong : color'[x] # "black"
    <3> SUFFICES ASSUME NEW x \in AllTables \ Strong PROVE color'[x] # "black"
      OBVIOUS
    <3>1. x \notin Z /\ x \in Obj
      BY KindFacts DEF Obj
    <3>2. CASE x \in NW
      BY <3>1, <3>2, <1>1, <1>2, <1>5 DEF ListInv
    <3>3. CASE x \in NW' \ NW
      BY <3>3, <1>5, KindFacts DEF MarkColor
    <3>4. CASE x \notin NW'
      BY <3>1, <3>4 DEF NW, White
    <3> QED
      BY <3>2, <3>3, <3>4
  <2> QED
    BY <2>1, <1>1, <1>2, <1>5 DEF ListInv, Later, Stays
<1>10. SettledInv'
  <2> SUFFICES ASSUME NEW o \in NW' \ Pending' PROVE Settled(o)'
    BY DEF SettledInv
  <2>1. CASE o \in NW
    <3>1. o \in NW \ Pending
      BY <2>1, <1>6
    <3>2. o \in Strong => SettledStrong(o)'
      <4>1. o \in Strong => o \notin Z
        BY KindFacts DEF AllTables
      <4> QED
        BY <3>1, <4>1, <1>2, <1>5 DEF SettledStrong, OKeys, OValues, Original
    <3> QED
      BY <3>1, <3>2, <1>2, <1>5 DEF Settled, Stays
  <2>2. CASE o \notin NW
    <3>1. o \notin AllTables \cup Closures \cup Threads
      BY <2>2, <1>2, <1>5
    <3> QED
      BY <3>1 DEF Settled, AllTables
  <2> QED
    BY <2>1, <2>2
<1>11. UpvalInv'
  <2> SUFFICES ASSUME NEW u \in NW' \cap Upvalues
               PROVE  \/ val'[u] \in NW' /\ (owner'[u] = "closed" => color'[u] = "black")
                      \/ owner'[u] # "closed" /\ (owner'[u] \in Pending' \/ White(owner[u])')
    BY DEF UpvalInv, Stays
  <2>1. u \in NW /\ ~White(u)
    BY <1>3, <1>5 DEF NW
  <2>2. CASE owner'[u] # "closed"
    <3>1. owner'[u] \in Threads /\ owner'[u] \in Obj /\ owner'[u] = owner[u]
      BY <2>2 DEF Obj
    <3>2. CASE owner'[u] \in NW'
      <4>1. owner'[u] \in Pending'
        <5>1. CASE owner'[u] \in NW
          BY <3>1, <5>1, <1>2, <1>6
        <5>2. CASE owner'[u] \notin NW
          BY <3>1, <3>2, <5>2, <1>2, <1>5
        <5> QED
          BY <5>1, <5>2
      <4> QED
        BY <4>1, <2>2
    <3>3. CASE owner'[u] \notin NW'
      <4>1. White(owner[u])'
        BY <3>1, <3>3 DEF NW, White
      <4> QED
        BY <4>1, <2>2
    <3> QED
      BY <3>2, <3>3
  <2>3. CASE owner'[u] = "closed"
    <3>1. CASE color'[u] = "black" /\ val'[u] \in S
      BY <3>1, <1>5
    <3>2. CASE val'[u] = val[u] /\ owner'[u] = owner[u] /\ u \notin Z
      <4>1. color'[u] = color[u]
        BY <2>1, <3>2, <1>5
      <4> QED
        BY <2>1, <2>3, <3>2, <4>1, <1>1, <1>5 DEF UpvalInv
    <3> QED
      BY <2>1, <2>3, <3>1, <3>2
  <2> QED
    BY <2>2, <2>3
<1> QED
  BY <1>2, <1>7, <1>8, <1>9, <1>10, <1>11 DEF IndInv

(* luaC_barrier of a closed upvalue *)
LEMMA SetUpvalueKeeps ==
  ASSUME WeakAssumption, IndInv, NEW cl, NEW u, NEW v, SetUpvalue(cl, u, v)
  PROVE  IndInv'
<1> DEFINE S == IF color[u] = "black" THEN {v} ELSE {}
<1>1. TypeInv /\ UpvalInv /\ Main \in Threads
  BY DEF IndInv, WeakAssumption
<1>2. Stays
  BY DEF SetUpvalue, Running, Stays, fins, locals
<1>3. /\ cl \in Closures /\ u \in upvals[cl] /\ v \in stack[Main]
      /\ val' = [val EXCEPT ![u] = v] /\ color' = Marked(S) /\ gray' = gray \cup ToGray(S)
      /\ UNCHANGED <<entries, grayagain>> /\ stack' = stack /\ owner' = owner
  BY DEF SetUpvalue
<1>4. u \in Upvalues /\ v \in Held
  BY <1>1, <1>3 DEF TypeInv
<1>5. S \in SUBSET Held /\ {} \in SUBSET (NW \cap Upvalues) /\ (color[u] = "black" => v \in S)
  BY <1>4
<1> HIDE DEF S
<1>6. Recolours(S, {})
  BY <1>1, <1>3 DEF Recolours, Marked, MarkColor, TypeInv
<1>7. val' \in [Upvalues -> Held] /\ val'[u] = v /\ \A x \in Upvalues : x # u => val'[x] = val[x]
  BY <1>1, <1>3, <1>4 DEF TypeInv
<1>8. ASSUME NEW x \in Upvalues, ~White(x), owner'[x] = "closed"
      PROVE  \/ color'[x] = "black" /\ val'[x] \in S
             \/ val'[x] = val[x] /\ owner'[x] = owner[x] /\ x \notin {}
  <2>1. CASE x # u
    BY <2>1, <1>3, <1>7, <1>8
  <2>2. CASE x = u
    <3>1. x \in NW /\ x \in Obj
      BY <1>8 DEF NW, Obj
    <3>2. color[x] = "black"
      BY <3>1, <1>1, <1>3, <1>8 DEF UpvalInv
    <3>3. color'[x] = "black"
      BY <3>1, <3>2, <1>3 DEF Marked, White
    <3> QED
      BY <2>2, <3>2, <3>3, <1>5, <1>7
  <2> QED
    BY <2>1, <2>2
<1>9. stack' \in [Threads -> SUBSET Held] /\ owner' \in [Upvalues -> Threads \cup {"closed"}]
  BY <1>1, <1>3 DEF TypeInv
<1>10. \A x \in Upvalues : owner'[x] = owner[x] \/ owner'[x] = "closed"
  BY <1>3
<1> QED
  BY <1>2, <1>3, <1>5, <1>6, <1>7, <1>8, <1>9, <1>10, BarrierKeeps

(* luaF_closeupval: an upvalue that is marked becomes black and has its    *)
(* value marked *)
LEMMA CloseThreadKeeps ==
  ASSUME WeakAssumption, IndInv, NEW th, CloseThread(th)
  PROVE  IndInv'
<1> DEFINE us == {u \in OpenIn(th) : ~White(u)}
           S == {val[u] : u \in us}
<1>1. TypeInv
  BY DEF IndInv
<1>2. Stays
  BY DEF CloseThread, Running, Stays, fins, locals
<1>3. /\ owner' = [u \in Upvalues |-> IF u \in OpenIn(th) THEN "closed" ELSE owner[u]]
      /\ stack' = [stack EXCEPT ![th] = {}] /\ val' = val
      /\ color' = [o \in Obj |-> IF o \in us THEN "black" ELSE Marked(S)[o]]
      /\ gray' = gray \cup ToGray(S) /\ UNCHANGED <<entries, grayagain>>
  BY DEF CloseThread
<1>4. us \in SUBSET (NW \cap Upvalues) /\ OpenIn(th) \subseteq Upvalues
  BY DEF OpenIn, NW, Obj
<1>5. S \in SUBSET Held
  BY <1>1, <1>4 DEF TypeInv
<1>6. \A u \in us : val[u] \in S
  OBVIOUS
<1>7. \A u \in Upvalues : ~White(u) /\ u \notin us => u \notin OpenIn(th)
  OBVIOUS
<1>8. us \subseteq Obj
  BY <1>4 DEF NW
<1> HIDE DEF S, us
<1>9. Marked(S) \in [Obj -> {"white", "gray", "black"}]
  BY <1>1 DEF Marked, MarkColor, TypeInv
<1>10. Recolours(S, us) /\ \A u \in us : color'[u] = "black"
  BY <1>3, <1>8, <1>9 DEF Recolours
<1>11. ASSUME NEW x \in Upvalues, ~White(x), owner'[x] = "closed"
       PROVE  \/ color'[x] = "black" /\ val'[x] \in S
              \/ val'[x] = val[x] /\ owner'[x] = owner[x] /\ x \notin us
  <2>1. CASE x \in us
    BY <2>1, <1>3, <1>6, <1>10
  <2>2. CASE x \notin us
    BY <2>2, <1>3, <1>7, <1>11
  <2> QED
    BY <2>1, <2>2
<1>12. /\ stack' \in [Threads -> SUBSET Held] /\ val' \in [Upvalues -> Held]
       /\ owner' \in [Upvalues -> Threads \cup {"closed"}]
  BY <1>1, <1>3 DEF TypeInv
<1>13. \A x \in Upvalues : owner'[x] = owner[x] \/ owner'[x] = "closed"
  BY <1>3
<1> QED
  BY <1>2, <1>3, <1>4, <1>5, <1>10, <1>11, <1>12, <1>13, BarrierKeeps

-----------------------------------------------------------------------------
(* The gray lists: what is gray, open upvalues apart, is in one of them.   *)

Linked == gray \cup grayagain \cup weak \cup allweak \cup ephemeron \cup saved \cup next
OneList ==
  /\ gray \cap (grayagain \cup weak \cup allweak \cup ephemeron \cup saved \cup next) = {}
  /\ grayagain \cap (weak \cup allweak \cup ephemeron \cup saved \cup next) = {}
  /\ weak \cap (allweak \cup ephemeron \cup saved \cup next) = {}
  /\ allweak \cap (ephemeron \cup saved \cup next) = {}
  /\ ephemeron \cap (saved \cup next) = {}
  /\ saved \cap next = {}
  /\ Linked \subseteq Obj \ Upvalues
  /\ \A o \in Obj \ Upvalues : color[o] = "gray" <=> o \in Linked

(* what can be traversed is gray when it is marked *)
LEMMA GrayKinds ==
  ASSUME WeakAssumption, NEW o \in Obj \ Upvalues
  PROVE  MarkColor(o) = "gray" <=> o \in AllTables \cup Closures \cup Threads
<1>1. o \in Strings \cup Plain <=> o \notin AllTables \cup Closures \cup Threads
  BY KindFacts DEF Obj
<1> QED
  BY <1>1 DEF MarkColor

(* a visit takes an object out of one list and puts it into one or none *)
LEMMA VisitLinks ==
  ASSUME WeakAssumption, TypeInv, ListInv, OneList, NEW S \in SUBSET Obj, NEW t, Visits(t, S),
         (t \in gray /\ next' = next) \/ (t \in next /\ gray = {} /\ next' = next \ {t}),
         saved' = saved
  PROVE  OneList'
<1>1. t \in NW /\ {t} \in SUBSET NW /\ t \in Obj \ Upvalues /\ t \in Linked
  BY DEF ListInv, NW, OneList, Linked
<1>2. Recolours(S, {t}) /\ gray' = (gray \cup ToGray(S)) \ {t} /\ Links(t)
  BY DEF Visits
<1>3. /\ NW \subseteq NW'
      /\ \A o \in NW \ {t} : color'[o] = color[o]
      /\ \A o \in NW' \ NW : /\ color'[o] = MarkColor(o)
                             /\ o \in AllTables \cup Closures \cup Threads => o \in ToGray(S)
      /\ ToGray(S) \subseteq (NW' \ NW) \cap (AllTables \cup Closures \cup Threads)
  BY <1>1, <1>2, Marking
<1>4. ToGray(S) \cap (Linked \cup Upvalues) = {} /\ ToGray(S) \subseteq Obj
  <2>1. \A o \in Linked : o \in NW
    BY DEF OneList, NW, White
  <2> QED
    BY <1>3, <2>1, KindFacts DEF NW
<1>5. Linked' = IF color'[t] = "gray" THEN Linked \cup ToGray(S) ELSE (Linked \ {t}) \cup ToGray(S)
  <2>1. CASE color'[t] = "black"
    BY <2>1, <1>1, <1>2, <1>4 DEF Links, OneList, Linked
  <2>2. CASE color'[t] = "gray"
    BY <2>2, <1>1, <1>2, <1>4 DEF Links, OneList, Linked
  <2> QED
    BY <1>2, <2>1, <2>2 DEF Links
<1>6. ASSUME NEW o \in Obj \ Upvalues PROVE color'[o] = "gray" <=> o \in Linked'
  <2>1. CASE o = t
    BY <2>1, <1>1, <1>4, <1>5
  <2>2. CASE o \in NW \ {t}
    BY <2>2, <1>3, <1>5, <1>6 DEF OneList
  <2>3. CASE o \in NW' \ NW
    <3>1. color'[o] = "gray" <=> o \in AllTables \cup Closures \cup Threads
      <4>1. color'[o] = MarkColor(o)
        BY <2>3, <1>3
      <4> QED
        BY <4>1, <1>6, GrayKinds
    <3>2. o \notin Linked /\ o # t
      BY <2>3, <1>1, <1>6 DEF OneList, NW, White
    <3> QED
      <4>1. o \in Linked' <=> o \in ToGray(S)
        BY <3>2, <1>5
      <4>2. o \in AllTables \cup Closures \cup Threads <=> o \in ToGray(S)
        BY <2>3, <1>3
      <4> QED
        BY <3>1, <4>1, <4>2
  <2>4. CASE o \notin NW'
    BY <2>4, <1>1, <1>3, <1>5, <1>6 DEF OneList, NW, White
  <2> QED
    BY <2>1, <2>2, <2>3, <2>4, <1>3
<1>7. Linked' \subseteq Obj \ Upvalues
  BY <1>1, <1>4, <1>5 DEF OneList
<1> HIDE DEF Linked
<1>8. /\ \A x \in ToGray(S) : x \notin gray \cup grayagain \cup weak \cup allweak \cup ephemeron
                                 \cup saved \cup next
  BY <1>4 DEF Linked
<1>9. /\ gray' \cap (grayagain' \cup weak' \cup allweak' \cup ephemeron' \cup saved' \cup next') = {}
      /\ grayagain' \cap (weak' \cup allweak' \cup ephemeron' \cup saved' \cup next') = {}
      /\ weak' \cap (allweak' \cup ephemeron' \cup saved' \cup next') = {}
      /\ allweak' \cap (ephemeron' \cup saved' \cup next') = {}
      /\ ephemeron' \cap (saved' \cup next') = {}
      /\ saved' \cap next' = {}
  <2>1. CASE t \in gray /\ next' = next
    BY <2>1, <1>2, <1>8 DEF Links, OneList
  <2>2. CASE t \in next /\ gray = {} /\ next' = next \ {t}
    BY <2>2, <1>2, <1>8 DEF Links, OneList
  <2> QED
    BY <2>1, <2>2
<1> QED
  BY <1>6, <1>7, <1>9 DEF OneList

(* marking puts what was white and is gray into the gray list *)
LEMMA MarkingLinks ==
  ASSUME WeakAssumption, TypeInv, OneList, NEW S \in SUBSET Obj, NEW Z \in SUBSET (NW \cap Upvalues),
         Recolours(S, Z), gray' = gray \cup ToGray(S),
         UNCHANGED <<grayagain, weak, allweak, ephemeron, saved, next>>
  PROVE  OneList'
<1>1. /\ NW \subseteq NW'
      /\ \A o \in NW \ Z : color'[o] = color[o]
      /\ \A o \in NW' \ NW : /\ color'[o] = MarkColor(o)
                             /\ o \in AllTables \cup Closures \cup Threads => o \in ToGray(S)
      /\ ToGray(S) \subseteq (NW' \ NW) \cap (AllTables \cup Closures \cup Threads)
  BY Marking
<1>2. Linked \subseteq NW
  BY DEF OneList, NW, White
<1>3. ToGray(S) \cap (Linked \cup Upvalues) = {} /\ ToGray(S) \subseteq Obj
  BY <1>1, <1>2, KindFacts DEF NW
<1>4. Linked' = Linked \cup ToGray(S)
  BY DEF Linked
<1>5. ASSUME NEW o \in Obj \ Upvalues PROVE color'[o] = "gray" <=> o \in Linked'
  <2>1. CASE o \in NW
    BY <2>1, <1>1, <1>4, <1>5 DEF OneList
  <2>2. CASE o \in NW' \ NW
    <3>1. color'[o] = "gray" <=> o \in AllTables \cup Closures \cup Threads
      <4>1. color'[o] = MarkColor(o)
        BY <2>2, <1>1
      <4> QED
        BY <4>1, <1>5, GrayKinds
    <3> QED
      <4>1. o \in Linked' <=> o \in ToGray(S)
        BY <2>2, <1>2, <1>4
      <4>2. o \in AllTables \cup Closures \cup Threads <=> o \in ToGray(S)
        BY <2>2, <1>1
      <4> QED
        BY <3>1, <4>1, <4>2
  <2>3. CASE o \notin NW'
    BY <2>3, <1>1, <1>2, <1>4, <1>5 DEF NW, White
  <2> QED
    BY <2>1, <2>2, <2>3
<1>6. /\ gray' \cap (grayagain \cup weak \cup allweak \cup ephemeron \cup saved \cup next) = {}
      /\ Linked' \subseteq Obj \ Upvalues
  BY <1>3, <1>4 DEF OneList, Linked
<1> QED
  BY <1>5, <1>6 DEF OneList

(* the new colours, when nothing else changes them *)
LEMMA MarkedRecolours ==
  ASSUME TypeInv, NEW S, color' = Marked(S)
  PROVE  Recolours(S, {})
BY DEF Recolours, Marked, MarkColor, TypeInv

(* A step of the collector keeps it. *)
LEMMA CollectorLinks ==
  ASSUME WeakAssumption, IndInv, OneList,
         \/ RestartCollection \/ EnterAtomic \/ RemarkUpvals \/ VisitAgain
         \/ Converge("again", "converge") \/ Converge("resurrect", "converge again")
         \/ NextRound \/ ClearValues \/ ClearKeys
  PROVE  OneList'
<1>1. TypeInv /\ PhaseInv /\ ListInv
  BY DEF IndInv
<1>2. CASE RestartCollection
  <2>1. /\ phase = "pause" /\ color' = Marked({Main}) /\ gray' = ToGray({Main})
        /\ UNCHANGED <<grayagain, weak, allweak, ephemeron, saved, next>>
    BY <1>2 DEF RestartCollection, locals
  <2>2. gray = {}
    BY <1>1, <2>1 DEF PhaseInv, ListInv
  <2>3. {Main} \in SUBSET Obj
    BY DEF WeakAssumption, Obj
  <2> QED
    BY <1>1, <2>1, <2>2, <2>3, MarkedRecolours, MarkingLinks
<1>3. CASE EnterAtomic
  <2>1. /\ phase = "propagate" /\ saved' = grayagain /\ grayagain' = {}
        /\ UNCHANGED <<color, gray, weak, allweak, ephemeron, next>>
    BY <1>3 DEF EnterAtomic, Goes
  <2>2. saved = {}
    BY <1>1, <2>1 DEF PhaseInv
  <2>3. Linked' = Linked
    BY <2>1, <2>2 DEF Linked
  <2> QED
    BY <2>1, <2>2, <2>3 DEF OneList
<1>4. CASE RemarkUpvals
  <2> DEFINE S == Remarked({th \in twups : White(th)})
  <2>1. /\ gray = {} /\ color' = Marked(S) /\ gray' = ToGray(S)
        /\ UNCHANGED <<grayagain, weak, allweak, ephemeron, saved, next>>
    BY <1>4 DEF RemarkUpvals, Goes, locals
  <2>2. S \in SUBSET Obj
    BY <1>1 DEF Remarked, TypeInv, Held
  <2> HIDE DEF S
  <2> QED
    BY <1>1, <2>1, <2>2, MarkedRecolours, MarkingLinks
<1>5. CASE VisitAgain
  <2>1. /\ gray = {} /\ gray' = saved /\ saved' = {}
        /\ UNCHANGED <<color, grayagain, weak, allweak, ephemeron, next>>
    BY <1>5 DEF VisitAgain, Goes
  <2>2. Linked' = Linked
    BY <2>1 DEF Linked
  <2> QED
    BY <2>1, <2>2 DEF OneList
<1>6. ASSUME \/ Converge("again", "converge") \/ Converge("resurrect", "converge again")
             \/ NextRound
      PROVE  OneList'
  <2>1. /\ next' = ephemeron /\ ephemeron' = {} /\ next = {}
        /\ UNCHANGED <<color, gray, grayagain, weak, allweak, saved>>
    BY <1>1, <1>6 DEF Converge, NextRound, StartRound, Goes, PhaseInv
  <2>2. Linked' = Linked
    BY <2>1 DEF Linked
  <2> QED
    BY <2>1, <2>2 DEF OneList
<1>7. CASE ClearValues
  <2> DEFINE S == StringsIn(FirstLists, 2) \cup tobefnz'
  <2>1. /\ gray = {} /\ color' = Marked(S) /\ gray' = ToGray(S)
        /\ UNCHANGED <<grayagain, weak, allweak, ephemeron, saved, next>>
    BY <1>7 DEF ClearValues, Goes
  <2>2. tobefnz' \subseteq Obj
    BY <1>1, <1>7 DEF ClearValues, Separated, TypeInv, Held
  <2>3. S \in SUBSET Obj
    BY <2>2, StringsMet DEF Obj
  <2> HIDE DEF S
  <2> QED
    BY <1>1, <2>1, <2>3, MarkedRecolours, MarkingLinks
<1>8. CASE ClearKeys
  <2> DEFINE S == StringsIn(KeyLists, 1) \cup StringsIn(ValueLists, 2)
  <2>1. /\ color' = Marked(S)
        /\ UNCHANGED <<gray, grayagain, weak, allweak, ephemeron, saved, next>>
    BY <1>8 DEF ClearKeys, Goes, lists, locals
  <2>2. S \subseteq Strings
    BY StringsMet
  <2> HIDE DEF S
  <2>3. S \in SUBSET Obj /\ WithValues(S) = S
    BY <2>2, KindFacts DEF Obj, WithValues
  <2>4. ToGray(S) = {}
    BY <2>2, <2>3, KindFacts DEF ToGray
  <2> QED
    BY <1>1, <2>1, <2>3, <2>4, MarkedRecolours, MarkingLinks
<1> QED
  BY <1>2, <1>3, <1>4, <1>5, <1>6, <1>7, <1>8

(* A step of the program keeps it: a table that a barrier links was black. *)
LEMMA ProgramLinks ==
  ASSUME WeakAssumption, IndInv, OneList, ProgramStep
  PROVE  OneList'
<1>1. TypeInv
  BY DEF IndInv
<1>2. ASSUME NEW v, Drop(v) PROVE OneList'
  BY <1>2 DEF Drop, lists, locals, OneList, Linked
<1>3. ASSUME NEW t, NEW v, Load(t, v) PROVE OneList'
  BY <1>3 DEF Load, lists, locals, OneList, Linked
<1>4. ASSUME NEW t, NEW k, NEW v, Store(t, k, v) PROVE OneList'
  <2>1. /\ t \in AllTables
        /\ UNCHANGED <<gray, weak, allweak, ephemeron, saved, next>>
        /\ \/ /\ color[t] = "black" /\ color' = [color EXCEPT ![t] = "gray"]
              /\ grayagain' = grayagain \cup {t}
           \/ UNCHANGED <<color, grayagain>>
    BY <1>4 DEF Store, locals
  <2>2. CASE UNCHANGED <<color, grayagain>>
    BY <2>1, <2>2 DEF OneList, Linked
  <2>3. CASE /\ color[t] = "black" /\ color' = [color EXCEPT ![t] = "gray"]
             /\ grayagain' = grayagain \cup {t}
    <3>1. t \in Obj \ Upvalues /\ color \in [Obj -> {"white", "gray", "black"}]
      BY <1>1, <2>1, KindFacts DEF Obj, TypeInv
    <3>2. t \notin Linked
      BY <3>1, <2>3 DEF OneList
    <3>3. Linked' = Linked \cup {t}
      BY <2>1, <2>3 DEF Linked
    <3>4. \A o \in Obj \ Upvalues : color'[o] = "gray" <=> o \in Linked'
      BY <3>1, <3>3, <2>3 DEF OneList
    <3> QED
      BY <3>1, <3>2, <3>3, <3>4, <2>1, <2>3 DEF OneList, Linked
  <2> QED
    BY <2>1, <2>2, <2>3
<1>5. ASSUME NEW cl, NEW u, NEW v, SetUpvalue(cl, u, v) PROVE OneList'
  <2> DEFINE S == IF color[u] = "black" THEN {v} ELSE {}
  <2>1. /\ v \in stack[Main] /\ color' = Marked(S) /\ gray' = gray \cup ToGray(S)
        /\ UNCHANGED <<grayagain, weak, allweak, ephemeron, saved, next>>
    BY <1>5 DEF SetUpvalue, locals
  <2>2. v \in Obj
    BY <1>1, <2>1 DEF TypeInv, Held, WeakAssumption
  <2>3. S \in SUBSET Obj
    BY <2>2
  <2> HIDE DEF S
  <2> QED
    BY <1>1, <2>1, <2>3, MarkedRecolours, MarkingLinks
<1>6. ASSUME NEW th, CloseThread(th) PROVE OneList'
  <2> DEFINE us == {u \in OpenIn(th) : ~White(u)}
             S == {val[u] : u \in us}
  <2>1. /\ color' = [o \in Obj |-> IF o \in us THEN "black" ELSE Marked(S)[o]]
        /\ gray' = gray \cup ToGray(S)
        /\ UNCHANGED <<grayagain, weak, allweak, ephemeron, saved, next>>
    BY <1>6 DEF CloseThread, locals
  <2>2. us \in SUBSET (NW \cap Upvalues) /\ us \subseteq Obj
    BY DEF OpenIn, NW, Obj
  <2>3. S \in SUBSET Obj
    BY <1>1, <2>2 DEF TypeInv, Held
  <2> HIDE DEF S, us
  <2>4. Marked(S) \in [Obj -> {"white", "gray", "black"}]
    BY <1>1 DEF Marked, MarkColor, TypeInv
  <2>5. Recolours(S, us)
    BY <2>1, <2>2, <2>4 DEF Recolours
  <2> QED
    BY <1>1, <2>1, <2>2, <2>3, <2>5, MarkingLinks
<1> QED
  BY <1>2, <1>3, <1>4, <1>5, <1>6 DEF ProgramStep

(* a step keeps it *)
LEMMA NextLinks ==
  ASSUME WeakAssumption, IndInv, OneList, [Next]_vars
  PROVE  OneList'
<1>1. TypeInv /\ ListInv
  BY DEF IndInv
<1>2. ASSUME NEW o, PropagateMark(o) PROVE OneList'
  <2>1. o \in gray /\ next' = next /\ saved' = saved
    BY <1>2, PropagateVisits DEF Quiet
  <2>2. PICK S \in SUBSET Obj : Visits(o, S)
    BY <1>2, PropagateVisits
  <2> QED
    BY <1>1, <2>1, <2>2, VisitLinks
<1>3. ASSUME NEW o, VisitNext(o) PROVE OneList'
  <2>1. /\ o \in next /\ gray = {} /\ next' = next \ {o} /\ saved' = saved
        /\ VisitEphemeron(o, dir) /\ phase # "done"
    BY <1>3 DEF VisitNext
  <2>2. Quiet
    BY <1>3 DEF VisitNext, Quiet, VisitEphemeron
  <2>3. PICK S \in SUBSET Obj : Visits(o, S)
    BY <2>1, <2>2, EphemeronVisits
  <2> QED
    BY <1>1, <2>1, <2>3, VisitLinks
<1>4. CASE UNCHANGED vars
  BY <1>4 DEF vars, lists, locals, OneList, Linked
<1> QED
  BY <1>2, <1>3, <1>4, CollectorLinks, ProgramLinks DEF Next

(* which is what InOneList says *)
LEMMA LinkedOnce ==
  ASSUME TypeInv, OneList
  PROVE  InOneList
<1> DEFINE all == <<gray, grayagain, weak, allweak, ephemeron, saved, next>>
<1>1. DOMAIN all = 1..7
  OBVIOUS
<1>2. /\ all[1] = gray /\ all[2] = grayagain /\ all[3] = weak /\ all[4] = allweak
      /\ all[5] = ephemeron /\ all[6] = saved /\ all[7] = next
  OBVIOUS
<1> HIDE DEF all
<1>3. \A i \in 1..7 : i = 1 \/ i = 2 \/ i = 3 \/ i = 4 \/ i = 5 \/ i = 6 \/ i = 7
  OBVIOUS
<1>4. \A i, j \in DOMAIN all : i < j => all[i] \cap all[j] = {}
  BY <1>1, <1>2, <1>3 DEF OneList
<1>5. \A i, j \in DOMAIN all : i # j => all[i] \cap all[j] = {}
  <2> SUFFICES ASSUME NEW i \in DOMAIN all, NEW j \in DOMAIN all, i # j
               PROVE  all[i] \cap all[j] = {}
    OBVIOUS
  <2>1. i < j \/ j < i
    BY <1>1
  <2> QED
    BY <1>4, <2>1
<1>6. ToSet(all) = {gray, grayagain, weak, allweak, ephemeron, saved, next}
  <2>1. ToSet(all) = {all[i] : i \in 1..7}
    BY <1>1 DEF ToSet
  <2> QED
    BY <2>1, <1>2, <1>3
<1>7. (UNION ToSet(all)) = Linked
  BY <1>6 DEF Linked
<1>8. Linked = {o \in Obj \ Upvalues : color[o] = "gray"}
  BY DEF OneList
<1> QED
  BY <1>5, <1>7, <1>8 DEF InOneList, all

-----------------------------------------------------------------------------
(* No more than what is reachable: in a collection that the program does   *)
(* not disturb only objects of StrongSet are marked before the             *)
(* resurrection, and only objects of ResurrectedSet after it.              *)

Late == phase \in {"resurrect", "converge again", "done"}
Found == IF Late THEN ResurrectedSet ELSE StrongSet

(* the entries that t has when 'atomic' starts and whose key or value      *)
(* (i is 1 or 2) is in A, and those that the first clearing leaves         *)
Refers(t, i, A) == {e \in ToSet(before[t]) : e[i] \in A \cup Strings \cup {NoKey}}
FirstKept(t) ==
  IF t \in origweak \cup (origall \ Ephemeron) THEN Refers(t, 2, StrongSet) ELSE ToSet(before[t])

(* From the first clearing to the last one no object of StrongSet is       *)
(* visited, for all are marked; those that are weak have been put into     *)
(* their list before, or have values that are found.                       *)
ResurrectInv ==
  phase \in {"resurrect", "converge again"} =>
    /\ gray \cap StrongSet = {}
    /\ (weak \ origweak) \cap StrongSet = {}
    /\ (allweak \ origall) \cap StrongSet \subseteq Ephemeron
    /\ origweak \cup (origall \ Ephemeron) \subseteq StrongSet
    /\ \A t \in AllTables : entries[t] = Kept(before[t], FirstKept(t))
    /\ \A t \in (WeakValue \cap StrongSet) \ origweak : OValues(t) \subseteq StrongSet \cup Strings

LeavesExactly ==
  \A t \in Alive \cap AllTables : entries[t] = StaysExactly(t, StrongSet, ResurrectedSet)

ExactInv ==
  ~disturbed =>
    /\ ~InAtomic => entries = before
    /\ NW \subseteq Found \cup Strings
    /\ ResurrectInv
    /\ phase = "done" => LeavesExactly

(* the two sets, which are closed *)
LEMMA ReachFacts ==
  ASSUME TypeInv, WeakAssumption
  PROVE  /\ Main \in StrongSet /\ StrongSet \subseteq Obj
         /\ ReachedBy(StrongSet) \ {NoKey} \subseteq StrongSet
         /\ StrongSet \cup finobj \cup tobefnz \subseteq ResurrectedSet
         /\ ResurrectedSet \subseteq Obj
         /\ ReachedBy(ResurrectedSet) \ {NoKey} \subseteq ResurrectedSet
<1>1. {Main} \in SUBSET Obj
  BY DEF WeakAssumption, Obj
<1>2. /\ Main \in StrongSet /\ StrongSet \subseteq Obj
      /\ ReachedBy(StrongSet) \ {NoKey} \subseteq StrongSet
  BY <1>1, ReachIsClosed DEF StrongSet
<1> DEFINE R == StrongSet \cup {o \in finobj \cup tobefnz : o \notin StrongSet}
<1>3. R \in SUBSET Obj
  BY <1>2 DEF TypeInv, Held
<1>4. StrongSet \cup finobj \cup tobefnz \subseteq R
  OBVIOUS
<1>5. ResurrectedSet = Reach(R)
  BY DEF ResurrectedSet
<1> HIDE DEF R
<1> QED
  BY <1>2, <1>3, <1>4, <1>5, ReachIsClosed

(* they stay what they are from the start of 'atomic' on *)
LEMMA SameFound ==
  ASSUME UNCHANGED <<heap, before>>, finobj' \cup tobefnz' = finobj \cup tobefnz
  PROVE  StrongSet' = StrongSet /\ ResurrectedSet' = ResurrectedSet
<1>1. \A th : OpenIn(th)' = OpenIn(th)
  BY DEF OpenIn, heap
<1>2. \A X : ReachedBy(X)' = ReachedBy(X)
  BY <1>1 DEF ReachedBy, heap
<1>3. \A X : Reach(X)' = Reach(X)
  BY <1>2 DEF Reach
<1>4. StrongSet' = StrongSet
  BY <1>3 DEF StrongSet
<1> DEFINE R == StrongSet \cup {o \in finobj \cup tobefnz : o \notin StrongSet}
<1>5. R' = R
  BY <1>4
<1> HIDE DEF R
<1>6. Reach(R)' = Reach(R)
  BY <1>3, <1>5
<1> QED
  BY <1>4, <1>6 DEF ResurrectedSet, R

(* what is closed under ReachedBy has all that its elements keep alive     *)
LEMMA ReachedIsClosed ==
  ASSUME TypeInv, WeakAssumption, NEW A \in SUBSET Obj, ReachedBy(A) \ {NoKey} \subseteq A,
         \A t \in AllTables : ToSet(entries[t]) \subseteq ToSet(before[t])
  PROVE  Closed(A)
<1> DEFINE pairs(t) == ToSet(before[t])
           both(t) == UNION {{e[1], e[2]} : e \in pairs(t)}
           keys(t) == {e[1] : e \in pairs(t)} \cup ({e[2] : e \in pairs(t)} \cap Strings)
           valuesOf(t) == {e[2] : e \in {p \in pairs(t) : p[1] \in A \cup Strings \cup {NoKey}}}
           inTable(t) ==
             CASE t \in Strong    -> both(t)
               [] t \in WeakValue -> keys(t)
               [] t \in Ephemeron -> valuesOf(t)
               [] OTHER           -> {}
<1>1. ReachedBy(A) = (UNION {inTable(t) : t \in A \cap AllTables})
        \cup (UNION {upvals[c] : c \in A \cap Closures})
        \cup {val[u] : u \in A \cap Upvalues}
        \cup (UNION {stack[th] \cup OpenIn(th) : th \in A \cap Threads})
  BY DEF ReachedBy
<1>2. NoKey \notin Obj
  BY DEF WeakAssumption
<1>3. \A t \in AllTables : \A e \in ToSet(entries[t]) :
        e \in pairs(t) /\ e[1] \in Held \cup {NoKey} /\ e[2] \in Held /\ e[2] # NoKey
  <2> SUFFICES ASSUME NEW t \in AllTables, NEW e \in ToSet(entries[t])
               PROVE  e \in pairs(t) /\ e[1] \in Held \cup {NoKey} /\ e[2] \in Held /\ e[2] # NoKey
    OBVIOUS
  <2>1. entries[t] \in Entries
    BY DEF TypeInv
  <2> QED
    BY <2>1, <1>2, EntryFacts DEF Held
<1>4. \A t \in A \cap AllTables : inTable(t) \ {NoKey} \subseteq A
  <2> HIDE DEF inTable
  <2> QED
    BY <1>1
<1>5. \A t \in A \cap Strong : Keys(t) \cup Values(t) \subseteq A
  <2> SUFFICES ASSUME NEW t \in A \cap Strong, NEW e \in ToSet(entries[t])
               PROVE  (e[1] # NoKey => e[1] \in A) /\ e[2] \in A
    BY DEF Keys, Values
  <2>1. t \in AllTables /\ e \in pairs(t) /\ e[2] # NoKey
    BY <1>3 DEF AllTables
  <2> HIDE DEF pairs
  <2>2. e[1] \in both(t) /\ e[2] \in both(t)
    BY <2>1
  <2> HIDE DEF both, keys, valuesOf
  <2>3. inTable(t) = both(t)
    BY KindFacts
  <2> HIDE DEF inTable
  <2> QED
    BY <1>4, <2>1, <2>2, <2>3
<1>6. \A t \in A \cap WeakValue : Keys(t) \subseteq A
  <2> SUFFICES ASSUME NEW t \in A \cap WeakValue, NEW e \in ToSet(entries[t]), e[1] # NoKey
               PROVE  e[1] \in A
    BY DEF Keys
  <2>1. t \in AllTables /\ e \in pairs(t)
    BY <1>3 DEF AllTables
  <2> HIDE DEF pairs
  <2>2. e[1] \in keys(t)
    BY <2>1
  <2> HIDE DEF both, keys, valuesOf
  <2>3. inTable(t) = keys(t)
    BY KindFacts
  <2> HIDE DEF inTable
  <2> QED
    BY <1>4, <2>1, <2>2, <2>3
<1>7. \A t \in A \cap Ephemeron : \A e \in ToSet(entries[t]) :
        e[1] \in A \cup Strings \cup {NoKey} => e[2] \in A
  <2> SUFFICES ASSUME NEW t \in A \cap Ephemeron, NEW e \in ToSet(entries[t]),
                      e[1] \in A \cup Strings \cup {NoKey}
               PROVE  e[2] \in A
    OBVIOUS
  <2>1. t \in AllTables /\ e \in pairs(t) /\ e[2] # NoKey
    BY <1>3 DEF AllTables
  <2> HIDE DEF pairs
  <2>2. e[2] \in valuesOf(t)
    BY <2>1
  <2> HIDE DEF both, keys, valuesOf
  <2>3. inTable(t) = valuesOf(t)
    BY KindFacts
  <2> HIDE DEF inTable
  <2> QED
    BY <1>4, <2>1, <2>2, <2>3
<1> HIDE DEF inTable
<1>8. \A c \in A \cap Closures : upvals[c] \subseteq A
  <2> SUFFICES ASSUME NEW c \in A \cap Closures, NEW x \in upvals[c] PROVE x \in A
    OBVIOUS
  <2>1. x \in ReachedBy(A)
    BY <1>1
  <2>2. x \in Obj
    BY DEF TypeInv, Obj
  <2> QED
    BY <1>2, <2>1, <2>2
<1>9. \A u \in A \cap Upvalues : val[u] \in A
  <2> SUFFICES ASSUME NEW u \in A \cap Upvalues PROVE val[u] \in A
    OBVIOUS
  <2>1. val[u] \in ReachedBy(A)
    BY <1>1
  <2>2. val[u] \in Obj
    BY DEF TypeInv, Held
  <2> QED
    BY <1>2, <2>1, <2>2
<1>10. \A th \in A \cap Threads : stack[th] \cup OpenIn(th) \subseteq A
  <2> SUFFICES ASSUME NEW th \in A \cap Threads, NEW x \in stack[th] \cup OpenIn(th)
               PROVE  x \in A
    OBVIOUS
  <2>1. x \in UNION {stack[y] \cup OpenIn(y) : y \in A \cap Threads}
    BY Zenon
  <2>2. x \in ReachedBy(A)
    BY <1>1, <2>1
  <2>3. x \in Obj
    BY DEF TypeInv, Held, OpenIn, Obj
  <2> QED
    BY <1>2, <2>2, <2>3
<1> QED
  BY <1>5, <1>6, <1>7, <1>8, <1>9, <1>10 DEF Closed

(* marking objects of a closed set marks only objects of it *)
LEMMA MarksWithin ==
  ASSUME TypeInv, WeakAssumption, NEW A \in SUBSET Obj, Closed(A), NW \subseteq A \cup Strings,
         NEW S \in SUBSET Obj, S \subseteq A \cup Strings, NEW Z \in SUBSET NW, Recolours(S, Z)
  PROVE  NW' \subseteq A \cup Strings
<1>1. NW' = NW \cup WithValues(S)
  BY Marking
<1>2. \A u \in S \cap Upvalues : val[u] \in A
  BY KindFacts DEF Closed
<1> QED
  BY <1>1, <1>2 DEF WithValues

(* what is found is closed, whatever has been cleared *)
LEMMA FoundFacts ==
  ASSUME WeakAssumption, IndInv, ExactInv, ~disturbed
  PROVE  /\ Found \in SUBSET Obj /\ Closed(Found) /\ NW \subseteq Found \cup Strings
         /\ NW \cap (AllTables \cup Closures \cup Threads \cup Upvalues) \subseteq Found
<1>1. TypeInv /\ NW \subseteq Found \cup Strings
  BY DEF IndInv, ExactInv
<1>2. \A t \in AllTables : ToSet(entries[t]) \subseteq ToSet(before[t])
  BY DEF IndInv, EntriesInv, ExactInv
<1>3. Found \in SUBSET Obj /\ ReachedBy(Found) \ {NoKey} \subseteq Found
  BY <1>1, ReachFacts DEF Found
<1> QED
  BY <1>1, <1>2, <1>3, ReachedIsClosed, KindFacts

(* a visit finds nothing but what the visited object keeps alive           *)
LEMMA VisitExact ==
  ASSUME WeakAssumption, IndInv, ExactInv, NEW S \in SUBSET Obj, NEW t, Visits(t, S), Quiet,
         phase # "done", disturbed' = disturbed, t \in gray \/ t \in next
  PROVE  ExactInv'
<1> SUFFICES ASSUME ~disturbed
             PROVE  /\ ~InAtomic' => entries' = before'
                    /\ NW' \subseteq Found' \cup Strings
                    /\ ResurrectInv'
  BY DEF ExactInv, Quiet
<1>1. /\ TypeInv /\ ListInv /\ StrongInv
  BY DEF IndInv
<1>2. /\ entries' = entries /\ before' = before /\ phase' = phase
      /\ origweak' = origweak /\ origall' = origall
      /\ UNCHANGED <<heap, before>> /\ finobj' = finobj /\ tobefnz' = tobefnz
  BY DEF Quiet, fins
<1>3. /\ InAtomic' = InAtomic /\ \A x : OValues(x)' = OValues(x)
      /\ StrongSet' = StrongSet /\ ResurrectedSet' = ResurrectedSet
  BY <1>2, SameFound, QuietFacts
<1>4. Found' = Found
  BY <1>2, <1>3 DEF Found, Late
<1>5. t \in NW /\ {t} \in SUBSET NW /\ t \in AllTables \cup Closures \cup Threads
  BY <1>1 DEF ListInv, AllTables
<1>6. /\ Found \in SUBSET Obj /\ Closed(Found) /\ NW \subseteq Found \cup Strings /\ t \in Found
  BY <1>5, FoundFacts
<1>7. /\ Recolours(S, {t}) /\ S \subseteq Found \cup Strings
      /\ gray' = (gray \cup ToGray(S)) \ {t}
      /\ weak' \subseteq weak \cup {t} /\ (t \in weak' \ weak => t \in WeakValue)
      /\ allweak' \subseteq allweak \cup {t}
  BY <1>6 DEF Visits
<1>8. NW' \subseteq Found' \cup Strings
  BY <1>1, <1>4, <1>5, <1>6, <1>7, MarksWithin
<1>9. ASSUME phase \in {"resurrect", "converge again"}
      PROVE  /\ gray' \cap StrongSet = {}
             /\ (weak' \ origweak) \cap StrongSet = {}
             /\ (allweak' \ origall) \cap StrongSet \subseteq Ephemeron
  <2>1. /\ gray \cap StrongSet = {} /\ (weak \ origweak) \cap StrongSet = {}
        /\ (allweak \ origall) \cap StrongSet \subseteq Ephemeron
    BY <1>9 DEF ExactInv, ResurrectInv
  <2>2. ToGray(S) \cap StrongSet = {}
    <3>1. ToGray(S) \cap (NW \cup Strings) = {}
      BY <1>1, <1>5, <1>7, Marking, KindFacts
    <3>2. StrongSet \subseteq NW \cup Strings
      BY <1>1, <1>9 DEF StrongInv
    <3> QED
      BY <3>1, <3>2
  <2>3. t \in next => t \in Ephemeron
    BY <1>1 DEF ListInv
  <2>4. t \in Ephemeron => t \notin WeakValue
    BY KindFacts
  <2> QED
    BY <1>7, <2>1, <2>2, <2>3, <2>4
<1>10. ResurrectInv'
  <2>1. \A x : FirstKept(x)' = FirstKept(x)
    BY <1>2, <1>3 DEF FirstKept, Refers
  <2> QED
    BY <1>2, <1>3, <1>9, <2>1 DEF ExactInv, ResurrectInv
<1> QED
  BY <1>2, <1>3, <1>8, <1>10 DEF ExactInv

-----------------------------------------------------------------------------
(* The other steps of the collector mark no more.                          *)

(* a step that marks nothing, and neither of the two clearings *)
LEMMA UnmarkedExact ==
  ASSUME ExactInv, Late' <=> Late, phase' = "done" <=> phase = "done",
         ~InAtomic' => ~InAtomic, gray' = gray \/ ~Late,
         UNCHANGED <<color, entries, heap, fins, weak, allweak, origweak, origall, before, disturbed>>
  PROVE  ExactInv'
<1> SUFFICES ASSUME ~disturbed
             PROVE  /\ ~InAtomic' => entries' = before'
                    /\ NW' \subseteq Found' \cup Strings
                    /\ ResurrectInv'
                    /\ phase' = "done" => LeavesExactly'
  BY DEF ExactInv
<1>1. NW' = NW /\ Alive' = Alive
  BY DEF NW, Alive, White
<1>2. StrongSet' = StrongSet /\ ResurrectedSet' = ResurrectedSet
  BY SameFound DEF fins
<1>3. Found' = Found
  BY <1>2 DEF Found
<1>4. ResurrectInv'
  <2> SUFFICES ASSUME phase' \in {"resurrect", "converge again"} PROVE ResurrectInv'
    BY DEF ResurrectInv
  <2>1. phase \in {"resurrect", "converge again"} /\ InAtomic /\ InAtomic'
    BY DEF Late, InAtomic
  <2>2. \A t : OValues(t)' = OValues(t)
    BY <2>1 DEF OValues, Original
  <2>3. \A t : FirstKept(t)' = FirstKept(t)
    BY <1>2 DEF FirstKept, Refers
  <2> QED
    BY <2>1, <2>2, <2>3, <1>2 DEF ExactInv, ResurrectInv, Late
<1>5. phase' = "done" => LeavesExactly'
  <2>1. \A t : StaysExactly(t, StrongSet, ResurrectedSet)' = StaysExactly(t, StrongSet, ResurrectedSet)
    BY <1>2 DEF StaysExactly
  <2> QED
    BY <2>1, <1>1 DEF ExactInv, LeavesExactly
<1> QED
  BY <1>1, <1>3, <1>4, <1>5 DEF ExactInv

(* the cycle starts with the main thread *)
LEMMA RestartExact ==
  ASSUME WeakAssumption, IndInv, ExactInv, RestartCollection
  PROVE  ExactInv'
<1>1. /\ TypeInv /\ PhaseInv
  BY DEF IndInv
<1>2. /\ phase = "pause" /\ phase' = "propagate" /\ color' = Marked({Main})
      /\ UNCHANGED <<entries, heap, fins, before, disturbed>>
  BY DEF RestartCollection, program
<1>3. {Main} \in SUBSET Obj /\ Main \notin Upvalues
  BY KindFacts DEF WeakAssumption, Obj
<1>4. Recolours({Main}, {})
  BY <1>1, <1>2, MarkedRecolours
<1>5. NW' = {Main}
  <2>1. WithValues({Main}) = {Main}
    BY <1>3 DEF WithValues
  <2>2. NW = {}
    BY <1>1, <1>2 DEF PhaseInv
  <2> QED
    BY <2>1, <2>2, <1>1, <1>3, <1>4, Marking
<1>6. StrongSet' = StrongSet /\ Main \in StrongSet
  BY <1>1, <1>2, SameFound, ReachFacts DEF fins
<1> QED
  BY <1>2, <1>5, <1>6 DEF ExactInv, Found, Late, ResurrectInv, InAtomic

(* the tables that 'atomic' finds are those of the start of the cycle *)
LEMMA EnterExact ==
  ASSUME ExactInv, EnterAtomic
  PROVE  ExactInv'
<1> SUFFICES ASSUME ~disturbed PROVE NW' \subseteq Found' \cup Strings /\ ResurrectInv'
  BY DEF ExactInv, EnterAtomic, Goes, InAtomic, program
<1>1. /\ phase = "propagate" /\ phase' = "roots" /\ before' = entries
      /\ UNCHANGED <<color, heap, fins>>
  BY DEF EnterAtomic, Goes
<1>2. before' = before
  BY <1>1 DEF ExactInv, InAtomic
<1>3. StrongSet' = StrongSet /\ NW' = NW
  BY <1>1, <1>2, SameFound DEF fins, NW, White
<1> QED
  BY <1>1, <1>3 DEF ExactInv, Found, Late, ResurrectInv

(* an upvalue is marked when it is found *)
LEMMA RemarkExact ==
  ASSUME WeakAssumption, IndInv, ExactInv, RemarkUpvals
  PROVE  ExactInv'
<1> DEFINE S == Remarked({th \in twups : White(th)})
<1>1. /\ phase = "roots" /\ phase' = "upvalues" /\ color' = Marked(S)
      /\ UNCHANGED <<entries, heap, fins, before, disturbed>>
  BY DEF RemarkUpvals, Goes, program
<1> SUFFICES ASSUME ~disturbed PROVE NW' \subseteq Found' \cup Strings
  BY <1>1 DEF ExactInv, InAtomic, ResurrectInv
<1>2. TypeInv
  BY DEF IndInv
<1>3. /\ Found \in SUBSET Obj /\ Closed(Found) /\ NW \subseteq Found \cup Strings
      /\ NW \cap Upvalues \subseteq Found
  BY FoundFacts
<1>4. S \subseteq Found
  <2>1. \A u \in Upvalues : ~White(u) => val[u] \in Found
    BY <1>3 DEF Closed, NW, Obj
  <2> QED
    BY <2>1 DEF Remarked
<1> HIDE DEF S
<1>5. S \in SUBSET Obj /\ S \subseteq Found \cup Strings /\ {} \in SUBSET NW
  BY <1>3, <1>4
<1>6. NW' \subseteq Found \cup Strings
  BY <1>1, <1>2, <1>3, <1>5, MarkedRecolours, MarksWithin
<1>7. Found' = Found
  BY <1>1, SameFound DEF Found, Late, fins
<1> QED
  BY <1>6, <1>7

(* When nothing is left to be visited and the ephemeron tables have        *)
(* converged, all that is reached is marked, strings apart.                *)
LEMMA AllMarked ==
  ASSUME WeakAssumption, IndInv, phase \in {"converge", "converge again", "done"},
         Pending = {}, \A t \in ephemeron : Converged(t)
  PROVE  /\ StrongSet \subseteq NW \cup Strings
         /\ finobj \cup tobefnz \subseteq NW => ResurrectedSet \subseteq NW \cup Strings
<1> DEFINE N == NW \cup Strings
<1>1. NW \subseteq N /\ N \subseteq NW \cup Strings
      /\ \A t \in NW \cap WeakValue : OValues(t) \cap Strings \subseteq N
  OBVIOUS
<1>2. N \in SUBSET Obj /\ {Main} \in SUBSET N
  BY DEF NW, Obj, IndInv, PhaseInv
<1> HIDE DEF N
<1>3. \A R \in SUBSET N : ReachedBy(R) \ {NoKey} \subseteq N
  BY <1>1, NothingLeft
<1>4. StrongSet \subseteq N
  BY <1>2, <1>3, ReachWithin DEF StrongSet
<1>5. ASSUME finobj \cup tobefnz \subseteq NW PROVE ResurrectedSet \subseteq N
  <2> DEFINE R == StrongSet \cup {o \in finobj \cup tobefnz : o \notin StrongSet}
  <2>1. R \in SUBSET N
    BY <1>4, <1>5 DEF N
  <2>2. ResurrectedSet = Reach(R)
    BY DEF ResurrectedSet
  <2> HIDE DEF R
  <2> QED
    BY <1>2, <1>3, <2>1, <2>2, ReachWithin
<1> QED
  BY <1>4, <1>5 DEF N

(* what is left of the entries that 'atomic' finds *)
LEMMA KeptFound ==
  ASSUME TypeInv, NEW t \in AllTables, NEW S, NEW U
  PROVE  /\ ToSet(Kept(before[t], S)) = ToSet(before[t]) \cap S
         /\ ToSet(before[t]) \subseteq S => Kept(before[t], S) = before[t]
         /\ ToSet(before[t]) \cap S = ToSet(before[t]) \cap U => Kept(before[t], S) = Kept(before[t], U)
<1>1. before[t] \in Seq((Held \cup {NoKey}) \X Held)
  BY DEF TypeInv, Entries
<1> DEFINE X == (Held \cup {NoKey}) \X Held
           l == before[t]
<1>2. l \in Seq(X)
  BY <1>1
<1> HIDE DEF X, l
<1>3. ToSet(Kept(l, S)) = ToSet(l) \cap S
  BY <1>2, KeptSet
<1>4. ToSet(l) \subseteq S => Kept(l, S) = l
  BY <1>2, KeptAll
<1>5. ToSet(l) \cap S = ToSet(l) \cap U => Kept(l, S) = Kept(l, U)
  BY <1>2, KeptSame
<1> QED
  BY <1>3, <1>4, <1>5 DEF l

(* and what two clearings leave of them *)
LEMMA KeptBoth ==
  ASSUME TypeInv, NEW t \in AllTables, NEW S, NEW U, NEW V,
         ToSet(before[t]) \cap (S \cap U) = ToSet(before[t]) \cap V
  PROVE  Kept(Kept(before[t], S), U) = Kept(before[t], V)
<1>1. before[t] \in Seq((Held \cup {NoKey}) \X Held)
  BY DEF TypeInv, Entries
<1> DEFINE X == (Held \cup {NoKey}) \X Held
           l == before[t]
           W == S \cap U
<1>2. l \in Seq(X)
  BY <1>1
<1>3. ToSet(l) \cap W = ToSet(l) \cap V
  OBVIOUS
<1> HIDE DEF X, l
<1>4. Kept(Kept(l, S), U) = Kept(l, W)
  BY <1>2, KeptTwice
<1> HIDE DEF W
<1>5. Kept(l, W) = Kept(l, V)
  BY <1>2, <1>3, KeptSame
<1> QED
  BY <1>4, <1>5 DEF l

(* the entries that stay, as a set *)
Staying(t) ==
  {e \in ToSet(before[t]) :
     /\ t \in WeakValue \cup AllWeak =>
          e \in Refers(t, 2, IF t \in StrongSet THEN StrongSet ELSE ResurrectedSet)
     /\ t \in Ephemeron \cup AllWeak => e \in Refers(t, 1, ResurrectedSet)}

(* which says what StaysExactly does for each kind of table *)
LEMMA ExactlyKept ==
  ASSUME TypeInv, WeakAssumption, NEW t \in AllTables
  PROVE  StaysExactly(t, StrongSet, ResurrectedSet) = Kept(before[t], Staying(t))
<1> DEFINE found == before[t]
           having(i, S) == {e \in ToSet(before[t]) : e[i] \in S \cup Strings \cup {NoKey}}
           values == IF t \in StrongSet THEN StrongSet ELSE ResurrectedSet
           byValue == having(2, values)
           byKey == having(1, ResurrectedSet)
           keptV == Kept(before[t], byValue)
           keptK == Kept(before[t], byKey)
           keptB == Kept(before[t], byValue \cap byKey)
<1>1. StaysExactly(t, StrongSet, ResurrectedSet) =
        CASE t \in Strong    -> found
          [] t \in WeakValue -> keptV
          [] t \in Ephemeron -> keptK
          [] OTHER           -> keptB
  BY DEF StaysExactly
<1>2. byValue = Refers(t, 2, values) /\ byKey = Refers(t, 1, ResurrectedSet)
  BY DEF Refers
<1>3. Staying(t) = {e \in ToSet(found) : /\ t \in WeakValue \cup AllWeak => e \in byValue
                                         /\ t \in Ephemeron \cup AllWeak => e \in byKey}
  BY <1>2 DEF Staying
<1>4. byValue \subseteq ToSet(found) /\ byKey \subseteq ToSet(found)
  OBVIOUS
<1>5. ToSet(found) \subseteq Staying(t) => Kept(found, Staying(t)) = found
  BY KeptFound
<1> HIDE DEF values, byValue, byKey
<1>6. CASE t \in Strong
  <2>1. t \notin WeakValue \cup AllWeak /\ t \notin Ephemeron \cup AllWeak
    BY <1>6, KindFacts
  <2>2. ToSet(found) \subseteq Staying(t)
    BY <1>3, <2>1
  <2> HIDE DEF found, keptV, keptK, keptB
  <2>3. StaysExactly(t, StrongSet, ResurrectedSet) = found
    BY <1>1, <1>6, <2>1
  <2> QED
    BY <2>2, <2>3, <1>5 DEF found
<1>7. CASE t \in WeakValue
  <2>1. t \notin Strong /\ t \notin Ephemeron \cup AllWeak
    BY <1>7, KindFacts
  <2>2. Staying(t) = byValue
    BY <1>3, <1>4, <1>7, <2>1
  <2> HIDE DEF found, keptV, keptK, keptB
  <2>3. StaysExactly(t, StrongSet, ResurrectedSet) = keptV
    BY <1>1, <1>7, <2>1
  <2> QED
    BY <2>2, <2>3 DEF keptV
<1>8. CASE t \in Ephemeron
  <2>1. t \notin Strong /\ t \notin WeakValue \cup AllWeak
    BY <1>8, KindFacts
  <2>2. Staying(t) = byKey
    BY <1>3, <1>4, <1>8, <2>1
  <2> HIDE DEF found, keptV, keptK, keptB
  <2>3. StaysExactly(t, StrongSet, ResurrectedSet) = keptK
    BY <1>1, <1>8, <2>1
  <2> QED
    BY <2>2, <2>3 DEF keptK
<1>9. CASE t \in AllWeak
  <2>1. t \notin Strong /\ t \notin WeakValue /\ t \notin Ephemeron
    BY <1>9, KindFacts
  <2>2. Staying(t) = byValue \cap byKey
    BY <1>3, <1>4, <1>9, <2>1
  <2> HIDE DEF found, keptV, keptK, keptB
  <2>3. StaysExactly(t, StrongSet, ResurrectedSet) = keptB
    BY <1>1, <2>1
  <2> QED
    BY <2>2, <2>3 DEF keptB
<1> QED
  BY <1>6, <1>7, <1>8, <1>9 DEF AllTables

(* The first clearing: the marked objects are those of StrongSet, so that  *)
(* the weak values that go are the ones that it does not have.             *)
LEMMA ClearValuesExact ==
  ASSUME WeakAssumption, IndInv, ExactInv, ClearValues
  PROVE  ExactInv'
<1> DEFINE S == StringsIn(FirstLists, 2) \cup tobefnz'
<1>1. /\ phase = "converge" /\ gray = {} /\ next = {} /\ ~changed /\ phase' = "resurrect"
      /\ entries' = Keep(FirstLists, ValueKept)
      /\ origweak' = weak /\ origall' = allweak /\ weak' = weak /\ allweak' = allweak
      /\ finobj' = finobj \ Separated /\ tobefnz' = tobefnz \cup Separated
      /\ color' = Marked(S) /\ gray' = ToGray(S)
      /\ UNCHANGED <<heap, before, disturbed>>
  BY DEF ClearValues, Goes, AnotherRound, program
<1> SUFFICES ASSUME ~disturbed PROVE NW' \subseteq ResurrectedSet' \cup Strings /\ ResurrectInv'
  BY <1>1 DEF ExactInv, InAtomic, Found, Late
<1>2. /\ TypeInv /\ PhaseInv /\ ListInv /\ SettledInv /\ AllweakInv /\ EntriesInv
  BY DEF IndInv
<1>3. InAtomic /\ InAtomic' /\ saved = {} /\ Pending = {} /\ origweak = {} /\ origall = {}
  BY <1>1, <1>2 DEF InAtomic, PhaseInv, Pending, Later
<1>4. StrongSet' = StrongSet /\ ResurrectedSet' = ResurrectedSet
  <2>1. finobj' \cup tobefnz' = finobj \cup tobefnz
    BY <1>1 DEF Separated
  <2> QED
    BY <2>1, <1>1, SameFound
<1>5. NW \subseteq StrongSet \cup Strings /\ StrongSet \subseteq NW \cup Strings
  <2>1. \A t \in ephemeron : Converged(t)
    BY <1>1 DEF IndInv, ConvergeInv
  <2> QED
    BY <2>1, <1>1, <1>3, AllMarked DEF ExactInv, Found, Late
<1>6. \A t \in NW \cap AllTables : t \in StrongSet
  BY <1>5, KindFacts
<1>7. S \in SUBSET Obj /\ S \cap Upvalues = {} /\ S \subseteq ResurrectedSet \cup Strings
  <2>1. StringsIn(FirstLists, 2) \subseteq Strings /\ Strings \subseteq Obj
    BY StringsMet DEF Obj
  <2>2. tobefnz' \subseteq Held /\ tobefnz' \subseteq ResurrectedSet
    BY <1>1, <1>2, ReachFacts DEF TypeInv, Separated
  <2> QED
    BY <2>1, <2>2, KindFacts DEF Held
<1> HIDE DEF S
<1>8. /\ NW' = NW \cup S
      /\ gray' \cap NW = {} /\ gray' \cap Strings = {}
  <2>1. Recolours(S, {})
    BY <1>1, <1>2, MarkedRecolours
  <2>2. WithValues(S) = S
    BY <1>7 DEF WithValues
  <2>3. /\ NW' = NW \cup WithValues(S)
        /\ ToGray(S) \subseteq (NW' \ NW) \cap (AllTables \cup Closures \cup Threads)
    BY <2>1, <1>2, <1>7, Marking
  <2> QED
    BY <2>2, <2>3, <1>1, KindFacts
<1>9. NW' \subseteq ResurrectedSet' \cup Strings
  <2>1. StrongSet \subseteq ResurrectedSet
    BY <1>2, ReachFacts
  <2> QED
    BY <2>1, <1>4, <1>5, <1>7, <1>8
<1>10. \A t \in AllTables : entries[t] = before[t] /\ Values(t) = OValues(t)
  BY <1>1, <1>2, <1>3 DEF EntriesInv, OValues, Values, Original
<1>11. ASSUME NEW t \in AllTables PROVE entries'[t] = Kept(before[t], FirstKept(t)')
  <2> DEFINE F == FirstKept(t)'
  <2>1. F = IF t \in weak \cup (allweak \ Ephemeron) THEN Refers(t, 2, StrongSet)
            ELSE ToSet(before[t])
    BY <1>1, <1>4 DEF FirstKept, Refers
  <2>2. entries'[t] = IF t \in FirstLists THEN Kept(before[t], ValueKept) ELSE before[t]
    BY <1>1, <1>10 DEF Keep
  <2> HIDE DEF F
  <2>3. /\ \A e \in ToSet(before[t]) : e \in Pairs /\ e[2] # NoKey
        /\ \A e \in ValueKept : e[2] \in NW \cup Strings
        /\ \A e \in Pairs : e[2] \in NW \cup Strings => e \in ValueKept
    <3>1. \A e \in Pairs : e[2] \in Held /\ e[2] # NoKey
      BY <1>2, ClearingTests DEF WeakAssumption, Held
    <3> QED
      BY <3>1, <1>2, <1>10, ClearingTests
  <2>4. CASE t \in weak \cup (allweak \ Ephemeron)
    <3>1. ToSet(before[t]) \cap ValueKept = ToSet(before[t]) \cap F
      BY <2>1, <2>3, <2>4, <1>5 DEF Refers
    <3> QED
      BY <3>1, <2>2, <2>4, <1>2, KeptFound DEF FirstLists, F
  <2>5. CASE t \in allweak \cap Ephemeron
    <3>1. t \notin weak
      BY <2>5, <1>2, KindFacts DEF ListInv
    <3>2. \A e \in ToSet(before[t]) : e[2] \in OValues(t)
      BY <1>3 DEF OValues, Original
    <3>3. ToSet(before[t]) \subseteq ValueKept
      BY <2>3, <2>5, <3>2, <1>2, <1>3 DEF AllweakInv
    <3>4. F = ToSet(before[t])
      BY <2>1, <2>5, <3>1
    <3>5. Kept(before[t], ValueKept) = before[t] /\ Kept(before[t], F) = before[t]
      BY <3>3, <3>4, <1>2, KeptFound
    <3> QED
      BY <3>5, <2>2 DEF F
  <2>6. CASE t \notin FirstLists
    <3>1. Kept(before[t], F) = before[t]
      BY <2>1, <2>6, <1>2, KeptFound DEF FirstLists
    <3> QED
      BY <3>1, <2>2, <2>6 DEF F
  <2> QED
    BY <2>4, <2>5, <2>6 DEF FirstLists
<1>12. ASSUME NEW t \in (WeakValue \cap StrongSet) \ weak
       PROVE  OValues(t)' \subseteq StrongSet \cup Strings
  <2>1. t \in NW /\ Settled(t)
    BY <1>2, <1>3, <1>5, KindFacts DEF SettledInv, AllTables
  <2>2. OValues(t) \subseteq NW
    BY <2>1 DEF Settled, SettledWeakValue
  <2>3. OValues(t)' = OValues(t)
    BY <1>1, <1>3 DEF OValues, Original
  <2> QED
    BY <2>2, <2>3, <1>5
<1>13. weak \cup (allweak \ Ephemeron) \subseteq StrongSet
  <2>1. weak \cup allweak \subseteq NW \cap AllTables
    BY <1>2 DEF ListInv, AllTables
  <2> QED
    BY <2>1, <1>6
<1>14. gray' \cap StrongSet = {}
  BY <1>5, <1>8
<1>15. ResurrectInv'
  BY <1>1, <1>4, <1>11, <1>12, <1>13, <1>14 DEF ResurrectInv
<1> QED
  BY <1>9, <1>15

(* The last clearing leaves exactly the entries that stay: what the two    *)
(* tests leave of the entries of a table of each kind.                     *)
LEMMA ClearKeysExact ==
  ASSUME WeakAssumption, IndInv, ExactInv, ClearKeys
  PROVE  ExactInv'
<1> DEFINE S == StringsIn(KeyLists, 1) \cup StringsIn(ValueLists, 2)
           stays(t) == {e \in Pairs : /\ t \in KeyLists => e \in KeyKept
                                      /\ t \in ValueLists => e \in ValueKept}
<1>1. /\ phase = "converge again" /\ gray = {} /\ next = {} /\ ~changed /\ phase' = "done"
      /\ entries' = [t \in AllTables |-> Kept(entries[t], stays(t))]
      /\ color' = Marked(S)
      /\ UNCHANGED <<heap, fins, before, disturbed>>
  BY DEF ClearKeys, Goes, AnotherRound, program
<1> SUFFICES ASSUME ~disturbed PROVE NW' \subseteq ResurrectedSet' \cup Strings /\ LeavesExactly'
  BY <1>1 DEF ExactInv, InAtomic, Found, Late, ResurrectInv
<1>2. /\ TypeInv /\ PhaseInv /\ ListInv /\ SettledInv /\ AllweakInv /\ EntriesInv /\ StrongInv
  BY DEF IndInv
<1>3. InAtomic /\ saved = {} /\ Pending = {}
  BY <1>1, <1>2 DEF InAtomic, PhaseInv, Pending, Later
<1>4. StrongSet' = StrongSet /\ ResurrectedSet' = ResurrectedSet
  BY <1>1, SameFound DEF fins
<1>5. NW \subseteq ResurrectedSet \cup Strings /\ ResurrectedSet \subseteq NW \cup Strings
  <2>1. \A t \in ephemeron : Converged(t)
    BY <1>1 DEF IndInv, ConvergeInv
  <2>2. finobj \cup tobefnz \subseteq NW
    BY <1>1, <1>2 DEF StrongInv
  <2> QED
    BY <2>1, <2>2, <1>1, <1>3, AllMarked DEF ExactInv, Found, Late
<1>6. ResurrectInv /\ StrongSet \subseteq ResurrectedSet
  BY <1>2, ReachFacts DEF ExactInv
<1>7. S \subseteq Strings /\ S \in SUBSET Obj
  BY StringsMet DEF Obj
<1> HIDE DEF S
<1>8. NW' = NW \cup S
  <2>1. Recolours(S, {})
    BY <1>1, <1>2, MarkedRecolours
  <2>2. WithValues(S) = S
    BY <1>7, KindFacts DEF WithValues
  <2> QED
    BY <2>1, <2>2, <1>2, <1>7, Marking
<1>9. NW' \subseteq ResurrectedSet' \cup Strings
  BY <1>4, <1>5, <1>7, <1>8
<1>10. ASSUME NEW t \in NW \cap AllTables
       PROVE  ToSet(before[t]) \cap (FirstKept(t) \cap stays(t)) = ToSet(before[t]) \cap Staying(t)
  <2> DEFINE V == IF t \in StrongSet THEN StrongSet ELSE ResurrectedSet
  <2> SUFFICES ASSUME NEW e \in ToSet(before[t])
               PROVE  e \in FirstKept(t) /\ e \in stays(t) <=> e \in Staying(t)
    OBVIOUS
  <2>1. e[1] \in Held \cup {NoKey} /\ e[2] \in Held /\ e[2] # NoKey
    <3>1. before[t] \in Entries /\ \A x \in Held : x # NoKey
      BY <1>2 DEF TypeInv, WeakAssumption, Held
    <3> QED
      BY <3>1, EntryFacts
  <2>2. e[2] \in OValues(t) /\ (e[1] # NoKey => e[1] \in OKeys(t))
    BY <1>3 DEF OValues, OKeys, Original
  <2>3. e \in FirstKept(t) =>
          /\ e \in stays(t) <=> /\ t \in KeyLists => e[1] \in ResurrectedSet \cup Strings \cup {NoKey}
                                /\ t \in ValueLists => e[2] \in ResurrectedSet \cup Strings
    <3> SUFFICES ASSUME e \in FirstKept(t)
                 PROVE  e \in stays(t) <=>
                          /\ t \in KeyLists => e[1] \in ResurrectedSet \cup Strings \cup {NoKey}
                          /\ t \in ValueLists => e[2] \in ResurrectedSet \cup Strings
      OBVIOUS
    <3>1. entries[t] = Kept(before[t], FirstKept(t))
      BY <1>1, <1>6 DEF ResurrectInv
    <3>2. e \in ToSet(entries[t])
      BY <3>1, <1>2, KeptFound
    <3>3. e \in Pairs
      BY <3>2, <1>2, ClearingTests
    <3>4. e \in KeyKept <=> e[1] \in ResurrectedSet \cup Strings \cup {NoKey}
      BY <3>3, <1>2, <1>5, ClearingTests
    <3>5. e \in ValueKept <=> e[2] \in ResurrectedSet \cup Strings
      BY <3>3, <1>2, <1>5, ClearingTests
    <3> QED
      BY <3>3, <3>4, <3>5
  <2>4. e \in FirstKept(t) <=>
          (t \in origweak \cup (origall \ Ephemeron) => e[2] \in StrongSet \cup Strings)
    BY <2>1 DEF FirstKept, Refers
  <2>5. e \in Staying(t) <=>
          /\ t \in WeakValue \cup AllWeak => e[2] \in V \cup Strings
          /\ t \in Ephemeron \cup AllWeak => e[1] \in ResurrectedSet \cup Strings \cup {NoKey}
    BY <2>1 DEF Staying, Refers
  <2> HIDE DEF stays
  <2>6. /\ weak \subseteq WeakValue /\ allweak \subseteq AllWeak \cup Ephemeron /\ ephemeron \subseteq Ephemeron
        /\ origweak \subseteq weak /\ origall \subseteq allweak
    BY <1>2 DEF ListInv
  <2>7. Settled(t)
    BY <1>2, <1>3 DEF SettledInv
  <2>8. /\ (weak \ origweak) \cap StrongSet = {}
        /\ (allweak \ origall) \cap StrongSet \subseteq Ephemeron
        /\ origweak \cup (origall \ Ephemeron) \subseteq StrongSet
        /\ \A x \in (WeakValue \cap StrongSet) \ origweak : OValues(x) \subseteq StrongSet \cup Strings
    BY <1>1, <1>6 DEF ResurrectInv
  <2>9. CASE t \in Strong
    <3>1. t \notin WeakValue \cup Ephemeron \cup AllWeak
      BY <2>9, KindFacts
    <3>2. t \notin KeyLists \cup ValueLists \cup origweak \cup origall
      BY <2>6, <3>1 DEF KeyLists, ValueLists
    <3> QED
      BY <3>1, <3>2, <2>3, <2>4, <2>5
  <2>10. CASE t \in WeakValue
    <3>1. t \notin Ephemeron \cup AllWeak /\ t \notin KeyLists \cup allweak \cup origall
      BY <2>6, <2>10, KindFacts DEF KeyLists
    <3>2. CASE t \in origweak
      <4>1. t \in StrongSet /\ t \notin ValueLists
        BY <2>8, <3>1, <3>2 DEF ValueLists
      <4> QED
        BY <4>1, <3>1, <3>2, <2>3, <2>4, <2>5, <2>10
    <3>3. CASE t \in weak \ origweak
      <4>1. t \notin StrongSet /\ t \in ValueLists
        BY <2>8, <3>3 DEF ValueLists
      <4> QED
        BY <4>1, <3>1, <3>3, <2>3, <2>4, <2>5, <2>10
    <3>4. CASE t \notin weak
      <4>1. t \notin ValueLists \cup origweak
        BY <2>6, <3>1, <3>4 DEF ValueLists
      <4>2. e[2] \in V \cup Strings
        <5>1. CASE t \in StrongSet
          BY <5>1, <4>1, <2>2, <2>8, <2>10
        <5>2. CASE t \notin StrongSet
          BY <5>2, <3>4, <2>2, <2>7, <2>10, <1>5 DEF Settled, SettledWeakValue
        <5> QED
          BY <5>1, <5>2
      <4> QED
        BY <4>1, <4>2, <3>1, <2>3, <2>4, <2>5
    <3> QED
      BY <3>2, <3>3, <3>4
  <2>11. CASE t \in Ephemeron
    <3>1. t \notin WeakValue \cup AllWeak /\ t \notin weak \cup origweak
      BY <2>6, <2>11, KindFacts
    <3>2. e \in FirstKept(t)
      BY <3>1, <2>4, <2>11
    <3>3. t \in ValueLists => e[2] \in ResurrectedSet \cup Strings
      <4>1. t \in ValueLists => t \in allweak
        BY <3>1 DEF ValueLists
      <4> QED
        BY <4>1, <2>2, <2>11, <1>2, <1>3, <1>5 DEF AllweakInv
    <3>4. t \notin KeyLists => e[1] \in ResurrectedSet \cup Strings \cup {NoKey}
      BY <2>2, <2>7, <2>11, <1>5 DEF Settled, SettledEphemeron, KeyLists
    <3> QED
      BY <3>1, <3>2, <3>3, <3>4, <2>3, <2>5, <2>11
  <2>12. CASE t \in AllWeak
    <3>1. t \in allweak /\ t \in KeyLists /\ t \notin Ephemeron /\ t \notin weak
      BY <2>6, <2>7, <2>12, KindFacts DEF Settled, KeyLists
    <3>2. CASE t \in origall
      <4>1. t \in StrongSet /\ t \notin ValueLists
        BY <2>8, <3>1, <3>2 DEF ValueLists
      <4> QED
        BY <4>1, <3>1, <3>2, <2>3, <2>4, <2>5, <2>12
    <3>3. CASE t \notin origall
      <4>1. t \notin StrongSet /\ t \in ValueLists /\ t \notin origweak
        BY <2>6, <2>8, <3>1, <3>3 DEF ValueLists
      <4> QED
        BY <4>1, <3>1, <3>3, <2>3, <2>4, <2>5, <2>12
    <3> QED
      BY <3>2, <3>3
  <2> QED
    BY <2>9, <2>10, <2>11, <2>12 DEF AllTables
<1> HIDE DEF stays
<1>11. LeavesExactly'
  <2> SUFFICES ASSUME NEW t \in Alive', t \in AllTables
               PROVE  entries'[t] = StaysExactly(t, StrongSet, ResurrectedSet)'
    BY DEF LeavesExactly
  <2>1. t \in NW \cap AllTables
    BY <1>7, <1>8 DEF Alive, NW
  <2>2. entries'[t] = Kept(Kept(before[t], FirstKept(t)), stays(t))
    BY <2>1, <1>1, <1>6 DEF ResurrectInv
  <2>3. ToSet(before[t]) \cap (FirstKept(t) \cap stays(t)) = ToSet(before[t]) \cap Staying(t)
    BY <2>1, <1>10
  <2>4. StaysExactly(t, StrongSet, ResurrectedSet) = Kept(before[t], Staying(t))
    BY <1>2, ExactlyKept
  <2>5. Kept(Kept(before[t], FirstKept(t)), stays(t)) = Kept(before[t], Staying(t))
    BY <2>3, <1>2, KeptBoth
  <2>6. StaysExactly(t, StrongSet, ResurrectedSet)' = StaysExactly(t, StrongSet, ResurrectedSet)
    BY <1>1, <1>4 DEF StaysExactly
  <2> QED
    BY <2>2, <2>4, <2>5, <2>6
<1> QED
  BY <1>9, <1>11

-----------------------------------------------------------------------------
(* The theorems. *)

(* a step keeps the invariant *)
LEMMA NextKeeps ==
  ASSUME WeakAssumption, IndInv, [Next]_vars
  PROVE  IndInv'
<1>1. CASE RestartCollection
  BY <1>1, RestartKeeps
<1>2. ASSUME NEW o \in Obj, PropagateMark(o) PROVE IndInv'
  BY <1>2, PropagateKeeps
<1>3. ASSUME NEW o \in Obj, VisitNext(o) PROVE IndInv'
  BY <1>3, VisitNextKeeps
<1>4. CASE EnterAtomic
  BY <1>4, EnterKeeps
<1>5. CASE RemarkUpvals
  BY <1>5, RemarkKeeps
<1>6. CASE VisitAgain
  BY <1>6, AgainKeeps
<1>7. CASE Converge("again", "converge") \/ Converge("resurrect", "converge again") \/ NextRound
  BY <1>7, ConvergeKeeps
<1>8. CASE ClearValues
  BY <1>8, ClearValuesKeeps
<1>9. CASE ClearKeys
  BY <1>9, ClearKeysKeeps
<1>10. CASE ProgramStep
  BY <1>10, DropKeeps, CloseThreadKeeps, LoadKeeps, SetUpvalueKeeps, StoreKeeps DEF ProgramStep
<1>11. CASE UNCHANGED vars
  <2>1. UNCHANGED <<color, entries, stack, upvals, val, owner, twups, finobj, tobefnz,
                    gray, grayagain, weak, allweak, ephemeron, saved, next, changed,
                    origweak, origall, phase, before>>
    BY <1>11 DEF vars, heap, fins, lists, locals
  <2>2. NW' = NW /\ InAtomic' = InAtomic /\ Pending' = Pending
    BY <2>1 DEF NW, White, InAtomic, Pending, Later
  <2>3. StrongSet' = StrongSet
    BY <2>1, <2>2, SameReach DEF heap
  <2>4. TypeInv' /\ PhaseInv' /\ ListInv' /\ AllweakInv' /\ EntriesInv' /\ ClearedInv'
    BY <2>1, <2>2 DEF IndInv, TypeInv, PhaseInv, ListInv, Later, AllweakInv, OValues, Original,
                      EntriesInv, ClearedInv, Values
  <2>5. SettledInv'
    BY <2>1, <2>2 DEF IndInv, SettledInv, Settled, SettledStrong, SettledWeakValue,
                      SettledEphemeron, SettledThread, OKeys, OValues, Original, OpenIn
  <2>6. UpvalInv' /\ ConvergeInv' /\ StrongInv' /\ DoneInv'
    BY <2>1, <2>2, <2>3 DEF IndInv, UpvalInv, White, ConvergeInv, Converged, Cleared, Original,
                            StrongInv, DoneInv, Keys, Values
  <2> QED
    BY <2>4, <2>5, <2>6 DEF IndInv
<1> QED
  BY <1>1, <1>2, <1>3, <1>4, <1>5, <1>6, <1>7, <1>8, <1>9, <1>10, <1>11 DEF Next

(* Whatever the heap, the program and the order of the visits: the         *)
(* invariant holds. *)
THEOREM WeakInvariance ==
  ASSUME WeakAssumption
  PROVE  Spec => []IndInv
<1>1. Init => IndInv
  BY InitKeeps
<1>2. IndInv /\ [Next]_vars => IndInv'
  BY NextKeeps
<1> QED
  BY <1>1, <1>2, PTL DEF Spec

(* what the invariant says when the sweep begins: all that is reachable    *)
(* then is marked, and entries between such objects are in their tables    *)
LEMMA KeptAtTheEnd ==
  ASSUME WeakAssumption, IndInv
  PROVE  ReachableKept
<1> SUFFICES ASSUME phase = "done"
             PROVE  /\ ResurrectedSet \subseteq {o \in Obj : ~White(o)}
                    /\ \A t \in StrongSet \cap AllTables : \A e \in ToSet(before[t]) :
                         {e[1], e[2]} \subseteq StrongSet \cup {NoKey} => e \in ToSet(entries[t])
  BY DEF ReachableKept
<1>1. /\ TypeInv /\ PhaseInv /\ SettledInv /\ ConvergeInv /\ StrongInv
  BY DEF IndInv
<1>2. Pending = {} /\ Main \in NW
  BY <1>1 DEF Pending, Later, PhaseInv, InAtomic
<1>3. \A t \in NW \cap WeakValue : OValues(t) \cap Strings \subseteq NW
  BY <1>1, <1>2 DEF SettledInv, Settled, SettledWeakValue
<1>4. \A t \in ephemeron : Converged(t)
  BY <1>1 DEF ConvergeInv
<1>5. NW \in SUBSET Obj /\ {Main} \in SUBSET NW /\ NW \subseteq NW /\ NW \subseteq NW \cup Strings
  BY <1>2 DEF NW
<1>6. \A R \in SUBSET NW : ReachedBy(R) \ {NoKey} \subseteq NW
  BY <1>2, <1>3, <1>4, <1>5, NothingLeft
<1>7. StrongSet \subseteq NW
  BY <1>5, <1>6, ReachWithin DEF StrongSet
<1>8. StrongSet \cup {o \in finobj \cup tobefnz : o \notin StrongSet} \in SUBSET NW
  BY <1>1, <1>7 DEF StrongInv
<1>9. ResurrectedSet \subseteq NW
  BY <1>5, <1>6, <1>8, ReachWithin DEF ResurrectedSet
<1> QED
  BY <1>1, <1>9 DEF StrongInv, NW

(* and nothing that stays refers to what will be freed *)
LEMMA NoneDangles ==
  ASSUME WeakAssumption, IndInv
  PROVE  NothingDangles
<1> SUFFICES ASSUME phase = "done"
             PROVE  /\ \A t \in Alive \cap AllTables :
                         Keys(t) \cup Values(t) \subseteq {o \in Obj : ~White(o)}
                    /\ \A u \in Alive \cap Upvalues : ~White(val[u])
                    /\ \A th \in Alive \cap Threads : \A o \in stack[th] \cup OpenIn(th) : ~White(o)
  BY DEF NothingDangles
<1>1. /\ TypeInv /\ PhaseInv /\ SettledInv /\ UpvalInv /\ DoneInv
  BY DEF IndInv
<1>2. Pending = {}
  BY <1>1 DEF Pending, Later, PhaseInv, InAtomic
<1>3. Alive \subseteq NW
  BY DEF Alive, NW
<1>4. \A t \in Alive \cap AllTables : Keys(t) \cup Values(t) \subseteq {o \in Obj : ~White(o)}
  BY <1>1, <1>3 DEF DoneInv, NW
<1>5. \A u \in Alive \cap Upvalues : ~White(val[u])
  BY <1>1, <1>2, <1>3 DEF UpvalInv, NW
<1>6. \A th \in Alive \cap Threads : \A o \in stack[th] \cup OpenIn(th) : ~White(o)
  BY <1>1, <1>2, <1>3 DEF SettledInv, Settled, SettledThread, NW
<1> QED
  BY <1>4, <1>5, <1>6

(* At the start nothing is marked or linked. *)
LEMMA InitExact ==
  ASSUME WeakAssumption, Init
  PROVE  OneList /\ ExactInv
<1>1. /\ color = [o \in Obj |-> "white"] /\ gray = {} /\ grayagain = {}
      /\ weak = {} /\ allweak = {} /\ ephemeron = {} /\ saved = {} /\ next = {}
      /\ phase = "pause" /\ before = entries
  BY DEF Init
<1>2. OneList
  BY <1>1 DEF OneList, Linked
<1>3. NW = {}
  BY <1>1 DEF NW, White
<1> QED
  BY <1>1, <1>2, <1>3 DEF ExactInv, ResurrectInv

(* a step marks no more; what the program does is not claimed anything of  *)
LEMMA NextExact ==
  ASSUME WeakAssumption, IndInv, ExactInv, [Next]_vars
  PROVE  ExactInv'
<1>1. CASE RestartCollection
  BY <1>1, RestartExact
<1>2. ASSUME NEW o, PropagateMark(o) PROVE ExactInv'
  <2>1. PICK S \in SUBSET Obj : Visits(o, S)
    BY <1>2, PropagateVisits
  <2>2. Quiet /\ o \in gray /\ phase # "done" /\ disturbed' = disturbed
    BY <1>2, PropagateVisits DEF Visiting
  <2> QED
    BY <2>1, <2>2, VisitExact
<1>3. ASSUME NEW o, VisitNext(o) PROVE ExactInv'
  <2>1. /\ o \in next /\ VisitEphemeron(o, dir) /\ phase # "done" /\ disturbed' = disturbed
    BY <1>3 DEF VisitNext, program
  <2>2. Quiet
    BY <1>3 DEF VisitNext, Quiet, VisitEphemeron
  <2>3. PICK S \in SUBSET Obj : Visits(o, S)
    BY <2>1, <2>2, EphemeronVisits
  <2> QED
    BY <2>1, <2>2, <2>3, VisitExact
<1>4. CASE EnterAtomic
  BY <1>4, EnterExact
<1>5. CASE RemarkUpvals
  BY <1>5, RemarkExact
<1>6. CASE VisitAgain
  BY <1>6, UnmarkedExact DEF VisitAgain, Goes, Late, InAtomic, program
<1>7. ASSUME Converge("again", "converge") \/ Converge("resurrect", "converge again")
      PROVE  ExactInv'
  <2>1. /\ \/ phase = "again" /\ phase' = "converge"
           \/ phase = "resurrect" /\ phase' = "converge again"
        /\ gray' = gray
        /\ UNCHANGED <<color, entries, heap, fins, weak, allweak, origweak, origall, before, disturbed>>
    BY <1>7 DEF Converge, Goes, program
  <2>2. InAtomic' /\ (Late' <=> Late) /\ phase' # "done" /\ phase # "done"
    BY <2>1 DEF Late, InAtomic
  <2> QED
    BY <2>1, <2>2, UnmarkedExact
<1>8. CASE NextRound
  BY <1>8, UnmarkedExact DEF NextRound, Late, InAtomic, program
<1>9. CASE ClearValues
  BY <1>9, ClearValuesExact
<1>10. CASE ClearKeys
  BY <1>10, ClearKeysExact
<1>11. CASE ProgramStep
  <2>1. disturbed'
    BY <1>11 DEF ProgramStep, Drop, CloseThread, Load, SetUpvalue, Store, Running
  <2> QED
    BY <2>1 DEF ExactInv
<1>12. CASE UNCHANGED vars
  BY <1>12, UnmarkedExact DEF vars, lists, locals, fins, program, Late, InAtomic
<1> QED
  BY <1>1, <1>2, <1>3, <1>4, <1>5, <1>6, <1>7, <1>8, <1>9, <1>10, <1>11, <1>12 DEF Next

(* what it says when the sweep begins                                      *)
LEMMA ExactAtTheEnd ==
  ASSUME WeakAssumption, IndInv, ExactInv
  PROVE  WeakTablesExact
<1> SUFFICES ASSUME phase = "done", ~disturbed
             PROVE  /\ Alive = ResurrectedSet \ Strings
                    /\ \A t \in Alive \cap AllTables :
                         entries[t] = StaysExactly(t, StrongSet, ResurrectedSet)
  BY DEF WeakTablesExact
<1>1. NW \subseteq ResurrectedSet \cup Strings /\ LeavesExactly
  BY DEF ExactInv, Found, Late
<1>2. ResurrectedSet \subseteq NW
  BY KeptAtTheEnd DEF ReachableKept, NW
<1>3. Alive = NW \ Strings
  BY DEF Alive, NW
<1> QED
  BY <1>1, <1>2, <1>3 DEF LeavesExactly

(* Whatever the program does meanwhile, what is reachable in the end is    *)
(* marked, and an entry between two such objects stays in its table.       *)
THEOREM WeakTablesKeep ==
  ASSUME WeakAssumption
  PROVE  Spec => []ReachableKept
BY WeakInvariance, KeptAtTheEnd, PTL

(* No entry of a weak table, no value of an upvalue, no stack refers to    *)
(* an object that the sweep will free.                                     *)
THEOREM WeakTablesClean ==
  ASSUME WeakAssumption
  PROVE  Spec => []NothingDangles
BY WeakInvariance, NoneDangles, PTL

(* The invariant of an undisturbed collection, with the links.             *)
LEMMA ExactInvariance ==
  ASSUME WeakAssumption
  PROVE  Spec => [](IndInv /\ OneList /\ ExactInv)
<1>1. Init => IndInv /\ OneList /\ ExactInv
  BY InitKeeps, InitExact
<1>2. IndInv /\ OneList /\ ExactInv /\ [Next]_vars => (IndInv /\ OneList /\ ExactInv)'
  BY NextKeeps, NextLinks, NextExact
<1> QED
  BY <1>1, <1>2, PTL DEF Spec

(* In a collection that the program does not disturb 'atomic' marks what   *)
(* is reachable, no more and no less, and leaves exactly the entries that  *)
(* the weak modes promise (clearbyvalues, clearbykeys), whatever the order *)
(* of the visits.                                                          *)
THEOREM WeakTablesLeave ==
  ASSUME WeakAssumption
  PROVE  Spec => []WeakTablesExact
BY ExactInvariance, ExactAtTheEnd, PTL

(* An object is in one gray list at most, and it is gray when it is in one *)
(* (linkgclist), whatever the program does.                                *)
THEOREM WeakGrayLists ==
  ASSUME WeakAssumption
  PROVE  Spec => []InOneList
<1>1. IndInv /\ OneList => InOneList
  BY LinkedOnce DEF IndInv
<1> QED
  BY <1>1, ExactInvariance, PTL
=============================================================================
