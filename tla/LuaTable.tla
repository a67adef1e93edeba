------------------------------ MODULE LuaTable ------------------------------
(***************************************************************************)
(* One table of the Lua 5.4.6 sources in tar/lua-5.4.6/src (ltable.c): its *)
(* array part with the size hint 'alimit', its hash part (chained scatter  *)
(* with Brent's variation), rehashing, lengths, traversals, and what a     *)
(* failed allocation and the collector (clearkey, lgc.c) do to it; and the *)
(* finite map the table stands for.                                        *)
(*                                                                         *)
(* A present key k has the value k: an entry that was confused with        *)
(* another one shows.  Left out: floats as keys, and the barriers.         *)
(***************************************************************************)
EXTENDS Integers, Sequences, FiniteSets

CONSTANTS
  IntKeys,     \* the integers used as keys
  ObjKeys,     \* the objects used as keys
  Address(_),  \* the number an object is hashed by
  MaxInteger,  \* LUA_MAXINTEGER
  MaxASize,    \* MAXASIZE
  MaxNodes,    \* the program does not make hash parts larger than this
  Sizes        \* the initial sizes <<array, hash>> of lua_createtable

Keys == IntKeys \cup ObjKeys
Empty == 0     \* an empty value; a nil key; no slot
NoKey == 0

TableAssumption ==
  /\ IntKeys \subseteq 1..MaxInteger /\ MaxASize < MaxInteger
  /\ \A k \in ObjKeys : Address(k) \in Nat
  /\ IntKeys \cap ObjKeys = {}

-----------------------------------------------------------------------------
(* A table t: array, alimit, real (isrealasize), node, and lastfree as an  *)
(* index, 0 for the dummy node.  A node: key, dead, val, and next as an    *)
(* offset.                                                                 *)

FreeNode == [key |-> NoKey, dead |-> FALSE, val |-> Empty, next |-> 0]
Dummy == <<FreeNode>>
IsDummy(t) == t.lastfree = 0
AllocSizeNode(t) == IF IsDummy(t) THEN 0 ELSE Len(t.node)

CeilLog2(n) == CHOOSE i \in 0..n : 2^i >= n /\ \A j \in 0..(i - 1) : 2^j < n
IsPow2(n) == \E i \in 0..n : n = 2^i \/ n = 0

LimitEqualsASize(t) == t.real \/ IsPow2(t.alimit)
RealASize(t) == IF LimitEqualsASize(t) THEN t.alimit ELSE 2^CeilLog2(t.alimit)
IsPow2RealASize(t) == ~t.real \/ IsPow2(t.alimit)
SetLimitToSize(t) == [t EXCEPT !.alimit = RealASize(t), !.real = TRUE]

(* hashmod, for integers and objects *)
MainPosition(t, k) ==
  LET odd == IF Len(t.node) = 1 THEN 1 ELSE Len(t.node) - 1
  IN  1 + ((IF k \in ObjKeys THEN Address(k) ELSE k) % odd)

(* The node of the chain from n on that has the key, Empty if there is     *)
(* none (equalkey: dead keys count only for 'next').                       *)
RECURSIVE FindFrom(_, _, _, _)
FindFrom(t, n, k, deadok) ==
  IF t.node[n].key = k /\ (~t.node[n].dead \/ (deadok /\ k \in ObjKeys)) THEN n
  ELSE IF t.node[n].next = 0 THEN Empty
  ELSE FindFrom(t, n + t.node[n].next, k, deadok)
FindNode(t, k, deadok) == FindFrom(t, MainPosition(t, k), k, deadok)

(* luaH_get and luaH_getint: where the key is, <<"array", i>>, <<"node", n>> *)
(* or <<"absent", 0>>, and what the search makes of alimit.                *)
Slot(t, k) ==
  IF k \in Nat /\ k <= RealASize(t) THEN <<"array", k>>
  ELSE LET n == FindNode(t, k, FALSE)
       IN  IF n = Empty THEN <<"absent", 0>> ELSE <<"node", n>>
HintedLimit_Always(t, k) == IF k \in 1..RealASize(t) THEN k ELSE t.alimit   \* mutant
HintedLimit(t, k) ==
  IF k \in (t.alimit + 1)..RealASize(t) THEN k ELSE t.alimit
Hinted(t, k) == IF k \in ObjKeys THEN t ELSE [t EXCEPT !.alimit = HintedLimit(t, k)]

ValueAt(t, slot) ==
  CASE slot[1] = "array" -> t.array[slot[2]]
    [] slot[1] = "node"  -> t.node[slot[2]].val
    [] OTHER             -> Empty
Get(t, k) == ValueAt(t, Slot(t, k))

PutAt(t, slot, v) ==
  IF slot[1] = "array" THEN [t EXCEPT !.array = [t.array EXCEPT ![slot[2]] = v]]
  ELSE [t EXCEPT !.node = [t.node EXCEPT ![slot[2]].val = v]]

-----------------------------------------------------------------------------
(* Rehash. *)

(* the new sizes, <<array, hash>>, when ek is to be inserted (rehash,      *)
(* numusearray, numusehash, countint)                                      *)
ArrayUse(t) == {i \in 1..RealASize(t) : t.array[i] # Empty}
HashUse(t) == {n \in 1..Len(t.node) : t.node[n].val # Empty}
ArrayIndices(t, ek) ==
  (ArrayUse(t) \cup {t.node[n].key : n \in HashUse(t)} \cup {ek}) \cap (1..MaxASize)

(* computesizes: candidates are tried upwards while the keys can fill more *)
(* than half                                                               *)
RECURSIVE ComputeSize(_, _, _)
ComputeSize(indices, twotoi, optimal) ==
  IF ~(Cardinality(indices) > twotoi \div 2) THEN optimal
  ELSE ComputeSize(indices, twotoi * 2,
                   IF Cardinality(indices \cap (1..twotoi)) > twotoi \div 2
                     THEN twotoi ELSE optimal)
NewASize(t, ek) == ComputeSize(ArrayIndices(t, ek), 1, 0)
NewSizes(t, ek) ==
  LET asize == NewASize(t, ek)
      total == Cardinality(ArrayUse(t)) + Cardinality(HashUse(t)) + 1
  IN  <<asize, total - Cardinality(ArrayIndices(t, ek) \cap (1..asize))>>

NewNodes(n) == IF n = 0 THEN Dummy ELSE [i \in 1..2^CeilLog2(n) |-> FreeNode]
NewLastFree(n) == IF n = 0 THEN 0 ELSE 2^CeilLog2(n) + 1

(* getfreepos: the last free position, Empty if there is none *)
FreePos(t) ==
  LET free == {i \in 1..(t.lastfree - 1) : t.node[i].key = NoKey}
  IN  IF IsDummy(t) \/ free = {} THEN Empty
      ELSE CHOOSE i \in free : \A j \in free : j <= i

(* the node before n in the chain that starts at i *)
RECURSIVE Before(_, _, _)
Before(t, i, n) ==
  IF i + t.node[i].next = n THEN i ELSE Before(t, i + t.node[i].next, n)

WithNode(t, n, k, v, next) ==
  [t EXCEPT !.node = [t.node EXCEPT ![n] = [key |-> k, dead |-> FALSE, val |-> v,
                                            next |-> next]]]

(* The new key goes to f, the second of the chain of mp. *)
LinkAfter(t, mp, f, k, v) ==
  LET linked == [t EXCEPT !.node = [t.node EXCEPT ![mp] = [t.node[mp] EXCEPT !.next = f - mp]]]
  IN  WithNode(linked, f, k, v, IF t.node[mp].next = 0 THEN 0 ELSE t.node[mp].next + mp - f)
(* The colliding node mp leaves to the free position f: its chain is       *)
(* corrected, and the new key takes mp.                                    *)
ChainCorrected(t, mp, f) == IF t.node[mp].next = 0 THEN 0 ELSE t.node[mp].next + mp - f
MoveColliding(t, mp, f, k, v) ==
  LET prev == Before(t, MainPosition(t, t.node[mp].key), mp)
      moved == [t EXCEPT !.node =
                 [t.node EXCEPT ![prev] = [t.node[prev] EXCEPT !.next = f - prev],
                                ![f] = [t.node[mp] EXCEPT !.next = ChainCorrected(t, mp, f)]]]
  IN  WithNode(moved, mp, k, v, 0)

InMainPosition(t, n) == MainPosition(t, t.node[n].key) = n

(* luaH_newkey of a value that is not nil, and luaH_set *)
RECURSIVE NewKey(_, _, _), Put(_, _, _), Resized(_, _, _), PutAll(_, _, _)
NewKey(t, k, v) ==
  LET mp == MainPosition(t, k)
      f  == FreePos(t)
      t1 == [t EXCEPT !.lastfree = IF f = Empty /\ ~IsDummy(t) THEN 1 ELSE f]
  IN  IF t.node[mp].val = Empty /\ ~IsDummy(t) THEN WithNode(t, mp, k, v, t.node[mp].next)
      ELSE IF f = Empty
        THEN Put(Resized(SetLimitToSize(t), NewSizes(t, k)[1], NewSizes(t, k)[2]), k, v)
      ELSE IF InMainPosition(t, mp) THEN LinkAfter(t1, mp, f, k, v)
      ELSE MoveColliding(t1, mp, f, k, v)

Put(t, k, v) ==
  LET slot == Slot(t, k)
      t1   == Hinted(t, k)
  IN  IF slot[1] # "absent" THEN PutAt(t1, slot, v)
      ELSE IF v = Empty THEN t1 ELSE NewKey(t1, k, v)

(* entries, a sequence of pairs, are inserted one after the other *)
PutAll(t, s, from) ==
  IF from > Len(s) THEN t
  ELSE IF s[from][2] = Empty THEN PutAll(t, s, from + 1)
  ELSE PutAll(Put(t, s[from][1], s[from][2]), s, from + 1)

(* luaH_resize: the vanishing slice of the array goes to the new hash part *)
(* first, under the pretence of the smaller array; then the old hash part. *)
Pretended_Not(t, newasize) == RealASize(t)   \* mutant: back into the old array
Pretended(t, newasize) == IF newasize < RealASize(t) THEN newasize ELSE RealASize(t)
Resized(t, newasize, nhsize) ==
  LET oldasize == RealASize(t)
      vanishing == [i \in 1..(oldasize - newasize) |-> <<newasize + i, t.array[newasize + i]>>]
      newt == [array |-> t.array, alimit |-> Pretended(t, newasize),
               real |-> TRUE, node |-> NewNodes(nhsize), lastfree |-> NewLastFree(nhsize)]
      shrunk == IF newasize < oldasize THEN PutAll(newt, vanishing, 1) ELSE newt
      sized == [shrunk EXCEPT !.alimit = newasize,
                  !.array = [i \in 1..newasize |-> IF i <= oldasize THEN t.array[i] ELSE Empty]]
  IN  PutAll(sized, [n \in 1..Len(t.node) |-> <<t.node[n].key, t.node[n].val>>], 1)

NewTable == [array |-> <<>>, alimit |-> 0, real |-> TRUE, node |-> Dummy, lastfree |-> 0]

-----------------------------------------------------------------------------
(* luaH_getn: <<the boundary, alimit, isrealasize>> afterwards. *)

ArrayEmpty(t, i) == t.array[i] = Empty
RECURSIVE BinSearch(_, _, _)
BinSearch(t, i, j) ==
  IF j - i <= 1 THEN i
  ELSE LET m == (i + j) \div 2
       IN  IF ArrayEmpty(t, m) THEN BinSearch(t, i, m) ELSE BinSearch(t, m, j)

RECURSIVE BinSearchAny(_, _, _)
BinSearchAny(t, i, j) ==
  IF j - i <= 1 THEN i
  ELSE LET m == (i + j) \div 2
       IN  IF Get(t, m) = Empty THEN BinSearchAny(t, i, m) ELSE BinSearchAny(t, m, j)

RECURSIVE HashSearch(_, _)
HashSearch(t, i) ==     \* i is present
  IF i <= MaxInteger \div 2
    THEN IF Get(t, i * 2) = Empty THEN BinSearchAny(t, i, i * 2) ELSE HashSearch(t, i * 2)
  ELSE IF Get(t, MaxInteger) = Empty THEN BinSearchAny(t, i, MaxInteger)
  ELSE MaxInteger

(* (1): alimit is empty, so there is a boundary before it *)
BeforeLimit(t) ==
  LET limit  == t.alimit
      common == limit >= 2 /\ ~ArrayEmpty(t, limit - 1)
      b      == IF common THEN limit - 1 ELSE BinSearch(t, 0, limit)
      canbe  == IsPow2RealASize(t)
                  /\ IF common THEN ~IsPow2(b) ELSE b > RealASize(t) \div 2
  IN  IF canbe THEN <<b, b, FALSE>> ELSE <<b, limit, t.real>>

(* (3): the array is full or there is none *)
BeyondArray(t, limit) ==
  <<IF IsDummy(t) \/ Get(t, limit + 1) = Empty THEN limit
    ELSE HashSearch(t, IF limit = 0 THEN 1 ELSE limit), t.alimit, t.real>>

GetN(t) ==
  IF t.alimit > 0 /\ ArrayEmpty(t, t.alimit) THEN BeforeLimit(t)
  ELSE IF LimitEqualsASize(t) THEN BeyondArray(t, t.alimit)
  ELSE IF ArrayEmpty(t, t.alimit + 1) THEN <<t.alimit, t.alimit, t.real>>   \* (2)
  ELSE IF ArrayEmpty(t, RealASize(t))
    THEN LET b == BinSearch(t, t.alimit, RealASize(t)) IN <<b, b, t.real>>
  ELSE BeyondArray(t, RealASize(t))

-----------------------------------------------------------------------------
(* luaH_next: the key after k (NoKey: the beginning), NoKey at the end.     *)
(* It raises an error when k is not ValidKey (findindex).                  *)

EntriesInOrder(t) ==
  [i \in 1..RealASize(t) |-> <<i, t.array[i]>>]
    \o [n \in 1..Len(t.node) |-> <<t.node[n].key, t.node[n].val>>]
IndexOf(t, k, deadok) ==
  IF k = NoKey THEN 0
  ELSE IF k \in 1..RealASize(t) THEN k
  ELSE LET n == FindNode(t, k, deadok) IN IF n = Empty THEN -1 ELSE n + RealASize(t)
DeadOk_Not == FALSE   \* mutant: a dead key is not found
DeadOk == TRUE
ValidKey(t, k) == IndexOf(t, k, DeadOk) # -1
NextKey(t, k) ==
  LET s == EntriesInOrder(t)
      i == IndexOf(t, k, DeadOk)
      rest == {j \in (i + 1)..Len(s) : s[j][2] # Empty}
  IN  IF rest = {} THEN NoKey
      ELSE s[CHOOSE j \in rest : \A l \in rest : j <= l][1]

-----------------------------------------------------------------------------
VARIABLES
  t,        \* the table
  content,  \* the keys it has, as the program knows them
  traversing,
  at,       \* in a traversal: the last key 'next' gave, NoKey before the first
  visited,  \* the keys it gave
  stayed    \* the keys that have been there since it began

vars == <<t, content, traversing, at, visited, stayed>>
traversal == <<traversing, at, visited, stayed>>

Init ==
  /\ \E s \in Sizes : t = Resized(NewTable, s[1], s[2])
  /\ content = {}
  /\ traversing = FALSE /\ at = NoKey /\ visited = {} /\ stayed = {}

Fits(new) == Len(new.node) <= MaxNodes

(* t[k] = v.  In a traversal only fields that exist are assigned to.       *)
Set(k) ==
  /\ traversing => k \in content
  /\ \E new \in {Put(t, k, k)} : Fits(new) /\ t' = new
  /\ content' = content \cup {k}
  /\ UNCHANGED traversal

(* t[k] = nil *)
Clear(k) ==
  /\ t' = Put(t, k, Empty)
  /\ content' = content \ {k}
  /\ stayed' = stayed \ {k}
  /\ UNCHANGED <<traversing, at, visited>>

(* an access that only reads *)
Read(k) ==
  /\ t' = Hinted(t, k)
  /\ UNCHANGED <<content, traversal>>

(* #t *)
Length ==
  /\ \E n \in {GetN(t)} : t' = [t EXCEPT !.alimit = n[2], !.real = n[3]]
  /\ UNCHANGED <<content, traversal>>

(* An assignment to a new key finds no free position and luaH_resize fails *)
(* to allocate the new hash part or the new array: the error leaves the    *)
(* table as it was, but with the size hint set.                            *)
NeedsRehash(k) ==
  /\ Slot(t, k)[1] = "absent"
  /\ ~(t.node[MainPosition(t, k)].val = Empty /\ ~IsDummy(t))
  /\ FreePos(t) = Empty
FailedSet(k) ==
  /\ ~traversing
  /\ NeedsRehash(k)
  /\ t' = [SetLimitToSize(t) EXCEPT !.lastfree = IF IsDummy(t) THEN 0 ELSE 1]
  /\ UNCHANGED <<content, traversal>>

(* OP_SETLIST makes room for a constructor's items (luaH_resizearray)      *)
ResizeArray(n) ==
  /\ ~traversing
  /\ n > RealASize(t)
  /\ \E new \in {Resized(t, n, AllocSizeNode(t))} : Fits(new) /\ t' = new
  /\ UNCHANGED <<content, traversal>>

(* The collector visits the table: the keys of empty entries die.  Their   *)
(* object may be collected and its address used for another one, which is  *)
(* the same key here.                                                      *)
ClearKeys ==
  /\ t' = [t EXCEPT !.node = [n \in 1..Len(t.node) |->
             IF t.node[n].val = Empty /\ t.node[n].key \in ObjKeys
               THEN [t.node[n] EXCEPT !.dead = TRUE] ELSE t.node[n]]]
  /\ UNCHANGED <<content, traversal>>

(* a traversal with 'next'; it may be given up *)
Begin ==
  /\ ~traversing
  /\ traversing' = TRUE /\ stayed' = content
  /\ UNCHANGED <<t, content, at, visited>>
NextStep ==
  /\ traversing /\ ValidKey(t, at)
  /\ at' = NextKey(t, at) /\ at' # NoKey
  /\ visited' = visited \cup {at'}
  /\ UNCHANGED <<t, content, traversing, stayed>>
End ==
  /\ traversing
  /\ traversing' = FALSE /\ at' = NoKey /\ visited' = {} /\ stayed' = {}
  /\ UNCHANGED <<t, content>>

Next ==
  \/ \E k \in Keys : Set(k) \/ Clear(k) \/ Read(k) \/ FailedSet(k)
  \/ \E n \in 1..MaxASize : ResizeArray(n)
  \/ Length \/ ClearKeys \/ Begin \/ NextStep \/ End
Spec == Init /\ [][Next]_vars

-----------------------------------------------------------------------------
(* Properties. *)

(* The table is the map the program made of it: every key is found with    *)
(* its own value exactly when it is there, through collisions, moves,      *)
(* rehashes in both directions, dead keys, and errors in the middle.       *)
TableIsMap ==
  /\ \A k \in Keys : Get(t, k) = IF k \in content THEN k ELSE Empty
  /\ \A i \in 1..Len(t.array) : t.array[i] # Empty => i \in content

(* #t is a border (lapi.h, the manual): t[n] is there and t[n + 1] is not, *)
(* with 0 and the largest integer as the limits, whatever alimit says.     *)
LengthIsBorder ==
  LET n == GetN(t)[1]
  IN  /\ n = 0 \/ n \in content
      /\ n = MaxInteger \/ n + 1 \notin content

(* The size of the array part is not stored: it is what alimit and its     *)
(* flag say, after any reads and lengths that moved alimit.                *)
RealSizeKnown == RealASize(t) = Len(t.array) /\ t.alimit <= Len(t.array)

(* ltable.c: "if an element is not in its main position, then the          *)
(* colliding element is in its own main position"; and every key can be    *)
(* reached from its main position.                                         *)
ChainsSound ==
  \A n \in 1..Len(t.node) :
    t.node[n].val # Empty =>
      /\ FindNode(t, t.node[n].key, FALSE) = n
      /\ InMainPosition(t, MainPosition(t, t.node[n].key))
           \/ t.node[MainPosition(t, t.node[n].key)].val = Empty

(* A traversal with 'next' that assigns to existing fields only, nil       *)
(* included, while the collector runs, is never stuck on a key it was      *)
(* given, and gives no key twice; when it ends it has given all that       *)
(* stayed.                                                                 *)
TraversalSound ==
  traversing =>
    LET n == NextKey(t, at)
    IN  /\ ValidKey(t, at)
        /\ n \notin visited
        /\ n = NoKey => stayed \subseteq visited
=============================================================================
