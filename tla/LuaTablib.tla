----------------------------- MODULE LuaTablib -----------------------------
(***************************************************************************)
(* insert, remove, move, unpack and concat of the table library of the Lua *)
(* 5.4.6 sources in tar/lua-5.4.6/src (ltablib.c), with integers of a few  *)
(* bits, so that their checks and loops meet the largest and the smallest. *)
(* A list has no metamethods: a call is a step.  sort is in LuaSort.       *)
(***************************************************************************)
EXTENDS Integers, Sequences

CONSTANTS
  MaxInteger,  \* LUA_MAXINTEGER
  INT_MAX,
  FreeStack,   \* the slots lua_checkstack can give
  MaxLen       \* the longest list

MinInteger == -MaxInteger - 1
Indices == MinInteger..MaxInteger
Unsigned(k) == k % (2 * (MaxInteger + 1))
Wrapped(k) == LET u == Unsigned(k) IN IF u > MaxInteger THEN u - 2 * (MaxInteger + 1) ELSE u
Nil == 0

VARIABLES
  list, list2,  \* the tables
  did           \* the call: its name, arguments and results

vars == <<list, list2, did>>

-----------------------------------------------------------------------------
(* The functions on lists. *)

Did(name, x, y, z, results) == [name |-> name, x |-> x, y |-> y, z |-> z, out |-> results]
Failed == <<-1>>

(* #list *)
Length == CHOOSE n \in 0..MaxInteger : \A k \in 1..MaxInteger : (list[k] # Nil) <=> (k <= n)

Idle == did.name = "nothing"

(* loops that assign t[k + by] = t[k] for k from 'from' to 'to' *)
RECURSIVE Shifted(_, _, _, _, _)
Shifted(t, from, to, step, by) ==
  IF (step > 0 /\ from > to) \/ (step < 0 /\ from < to) THEN t
  ELSE Shifted([t EXCEPT ![from + by] = t[from]], from + step, to, step, by)

tinsert ==
  /\ Idle
  /\ LET e == Wrapped(Length + 1)
     IN  \E pos \in Indices, v \in {MaxLen + 1} :
           IF ~(Unsigned(pos - 1) < Unsigned(e))
           THEN did' = Did("insert", pos, v, Length, Failed) /\ UNCHANGED list
           ELSE /\ list' = [Shifted(list, e - 1, pos, -1, 1) EXCEPT ![pos] = v]
                /\ did' = Did("insert", pos, v, Length, <<>>)
  /\ UNCHANGED list2

tremove ==
  /\ Idle
  /\ LET size == Length
     IN  \E pos \in Indices :
           IF pos # size /\ ~(Unsigned(pos - 1) <= Unsigned(size))
           THEN did' = Did("remove", pos, 0, size, Failed) /\ UNCHANGED list
           ELSE /\ list' = [Shifted(list, pos + 1, size, 1, -1)
                              EXCEPT ![IF pos < size THEN size ELSE pos] = Nil]
                /\ did' = Did("remove", pos, 0, size, <<list[pos]>>)
  /\ UNCHANGED list2

(* to the same table in increasing order when that is safe *)
Upward_Always(f, e, t) == TRUE
Upward(f, e, t) == t > e \/ t <= f
RoomFor(f, e, t) ==
  /\ f > 0 \/ e < MaxInteger + f
  /\ t <= MaxInteger - (e - f + 1) + 1
tmove ==
  /\ Idle
  /\ \E f, e, t \in Indices, other \in BOOLEAN :
       /\ did' = Did("move", f, e, t, IF e < f \/ RoomFor(f, e, t) THEN <<>> ELSE Failed)
       /\ IF e < f \/ ~RoomFor(f, e, t) THEN UNCHANGED <<list, list2>>
          ELSE IF other
          THEN /\ list2' = [k \in Indices |-> IF k - t \in 0..(e - f) THEN list[f + k - t]
                                              ELSE list2[k]]
               /\ UNCHANGED list
          ELSE /\ list' = IF Upward(f, e, t) THEN Shifted(list, f, e, 1, t - f)
                          ELSE Shifted(list, e, f, -1, t - f)
               /\ UNCHANGED list2

tunpack ==
  /\ Idle
  /\ \E x, e \in Indices :
       LET n == Unsigned(e - x)
       IN  did' = Did("unpack", x, e, 0,
                      IF x > e THEN <<>>
                      ELSE IF n >= INT_MAX \/ n + 1 > FreeStack THEN Failed
                      ELSE [k \in 1..(n + 1) |-> list[x + k - 1]])
  /\ UNCHANGED <<list, list2>>

RECURSIVE Fields(_, _)
Fields(x, last) ==
  IF x < last THEN <<list[x]>> \o Fields(x + 1, last)
  ELSE IF x = last THEN <<list[x]>> ELSE <<>>
tconcat ==
  /\ Idle
  /\ \E x, last \in Indices : \E s \in {Fields(x, last)} :
       did' = Did("concat", x, last, 0, IF \E k \in 1..Len(s) : s[k] = Nil THEN Failed ELSE s)
  /\ UNCHANGED <<list, list2>>

-----------------------------------------------------------------------------
Init ==
  /\ \/ \E n \in 0..MaxLen : list = [k \in Indices |-> IF k \in 1..n THEN k ELSE Nil]
     \/ list = [k \in Indices |-> k + MaxInteger + 2]
  /\ list2 = [k \in Indices |-> Nil] /\ did = Did("nothing", 0, 0, 0, <<>>)

Next == tinsert \/ tremove \/ tmove \/ tunpack \/ tconcat
Spec == Init /\ [][Next]_vars

-----------------------------------------------------------------------------
(* Properties. *)

(* What a function did to a list is what the manual says it does, on whole *)
(* integers, and it refuses exactly the arguments for which that cannot be *)
(* done: an insertion or a removal shifts the elements after it, a move is *)
(* as if all elements were read before one is written, though the ranges   *)
(* may overlap; the largest integer is not stepped over.  (No table is as  *)
(* long as the largest integer.)                                           *)
AsPromised(d) ==
  LET pos == d.x
      size == d.z
      Range(x, e) == [k \in 1..(e - x + 1) |-> list[x + k - 1]]
      Moved(t) == [k \in Indices |-> IF k - d.z \in 0..(d.y - d.x) THEN list[d.x + k - d.z]
                                     ELSE t[k]]
  IN
  CASE d.name = "insert" -> size < MaxInteger =>
         IF pos \notin 1..(size + 1) THEN d.out = Failed /\ list' = list
         ELSE /\ d.out = <<>>
              /\ list' = [k \in Indices |->
                            IF k = pos THEN d.y
                            ELSE IF k \in (pos + 1)..(size + 1) THEN list[k - 1] ELSE list[k]]
    [] d.name = "remove" -> size < MaxInteger =>
         IF pos \notin 1..(size + 1) /\ pos # size THEN d.out = Failed /\ list' = list
         ELSE /\ d.out = <<list[pos]>>
              /\ list' = [k \in Indices |->
                            IF k \in pos..(size - 1) THEN list[k + 1]
                            ELSE IF k = pos \/ (k = size /\ pos < size) THEN Nil ELSE list[k]]
    [] d.name = "move" ->
         IF d.out = Failed
         THEN /\ d.y - d.x + 1 > MaxInteger \/ d.z + (d.y - d.x) > MaxInteger
              /\ list' = list /\ list2' = list2
         ELSE /\ d.x <= d.y => d.z + (d.y - d.x) <= MaxInteger
              /\ \/ list' = Moved(list) /\ list2' = list2
                 \/ list' = list /\ list2' = Moved(list2)
    [] d.name = "unpack" ->
         d.out = IF d.y - d.x + 1 > FreeStack THEN Failed ELSE Range(d.x, d.y)
    [] d.name = "concat" ->
         d.out = IF \E k \in d.x..d.y : list[k] = Nil THEN Failed ELSE Range(d.x, d.y)

ListsAsPromised == [][AsPromised(did')]_vars
=============================================================================
