------------------------------- MODULE LuaValues ------------------------------
(***************************************************************************)
(* The values of Lua and the environment in which the programs of the      *)
(* models run: "out" makes its arguments visible, "id" returns them,       *)
(* "error" raises an error, and the objects o1, o2 have every metamethod;  *)
(* a call of one is visible with its arguments in the order it gets them.  *)
(***************************************************************************)
EXTENDS LuaArith, SequencesExt

NilV == <<"nil">>
BoolV(b) == <<"bool", b>>
IntV(n) == <<"int", n>>
StrV(x) == <<"str", x>>
Nat1(name) == <<"nat", name>>
Obj1(n) == <<"obj", n>>
Tab(id) == <<"tab", id>>
Fun(id) == <<"fun", id>>

IsInt(v) == v[1] = "int"
IsObj(v) == v[1] = "obj"
IsFalse(v) == v = NilV \/ v = BoolV(FALSE)

(* what concatenation converts to a string *)
IsText(v) == v[1] \in {"str", "int"}
Text(v) == IF IsInt(v) THEN ToString(v[2]) ELSE v[2]

(* a table's items, from keys to values that are not nil *)
NoValue == [x \in {} |-> NilV]
Field1(items, key) == IF key \in DOMAIN items THEN items[key] ELSE NilV
RawSet(items, key, v) ==
  IF v = NilV THEN [x \in DOMAIN items \ {key} |-> items[x]] ELSE (key :> v) @@ items
Border(items) == CHOOSE n \in 0..Cardinality(DOMAIN items) :
                   /\ n = 0 \/ Field1(items, IntV(n)) # NilV
                   /\ Field1(items, IntV(n + 1)) = NilV

Globals ==
  [x \in {StrV("out"), StrV("id"), StrV("error")} |-> Nat1(x[2])] @@
  (StrV("o1") :> Obj1(1)) @@ (StrV("o2") :> Obj1(2))

(* the C functions: their results, and what they make visible; "CALL" is   *)
(* the metamethod with which an object is called                           *)
CResults(f, args) == IF f = Nat1("out") THEN <<>> ELSE args
CEvents(f, args) == IF f = Nat1("id") THEN <<>> ELSE <<<<f[2]>> \o args>>
===============================================================================
