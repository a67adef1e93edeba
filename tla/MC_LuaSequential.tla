--------------------------- MODULE MC_LuaSequential ---------------------------
(* Models of the parts that nothing else runs beside.  A behaviour is one  *)
(* of these: the life of one table (LuaTable, with few keys: in a hash     *)
(* part of four nodes 1, 4, 7 and key2 collide in one position, 2 and key1 *)
(* in another), a call of the string library's pattern functions           *)
(* (LuaStrlib) or of the table library (LuaSort, LuaTablib), or the        *)
(* execution of one of LuaPrograms, compiled by the parser and the code    *)
(* generator and run by the virtual machine (LuaVM), against what          *)
(* LuaSemantics says that it does.  The state of sort is one after its end *)
(* in the other parts.                                                     *)
EXTENDS LuaSort

CONSTANTS key1, key2
MCAddress(k) == IF k = key1 THEN 2 ELSE 1
MCSizes == {<<0, 0>>, <<3, 0>>, <<0, 2>>}

-----------------------------------------------------------------------------
(* Patterns. *)

Chars == {"a", "b", "1", "]"}
MCClassOf == [cl \in {"a", "d"} |-> IF cl = "a" THEN {"a", "b"} ELSE {"1"}]
MCComplement == [cl \in {"A", "D"} |-> IF cl = "A" THEN "a" ELSE "d"]
MCCharCode(ch) == CASE ch = "1" -> 1 [] ch = "]" -> 2 [] ch = "a" -> 3 [] ch = "b" -> 4
                [] OTHER -> 0

Item(kind, text, set, rep, k) ==
  [kind |-> kind, text |-> IF rep = "" THEN text ELSE Append(text, rep), set |-> set,
   rep |-> rep, n |-> k]
Class(text, set, rep) == Item("one", text, set, rep, 0)
Repeated(text, set) ==
  <<Class(text, set, ""), Class(text, set, "*"), Class(text, set, "+"),
    Class(text, set, "-"), Class(text, set, "?")>>
Other(kind, text, set, k) == Item(kind, text, set, "", k)

MCAlphabet ==
  Repeated(<<"a">>, {"a"}) \o Repeated(<<".">>, Chars) \o      \* 1..10
  << \* 11..20: captures and conditions
     Other("open", <<"(">>, {}, 0), Other("close", <<")">>, {}, 0),
     Other("position", <<"(", ")">>, {}, 0),
     Other("back", <<"%", "1">>, {}, 1), Other("back", <<"%", "2">>, {}, 2),
     Other("balance", <<"%", "b", "a", "b">>, {}, 0),
     Other("balance", <<"%", "b", "a", "a">>, {}, 0),
     Other("frontier", <<"%", "f", "[", "b", "1", "]">>, {"b", "1"}, 0),
     Other("frontier", <<"%", "f", "[", "^", "b", "]">>, (Chars \ {"b"}) \cup {"NUL"}, 0),
     Other("end", <<"$">>, {}, 0),
     \* 21..29: classes
     Class(<<"[", "^", "a", "]">>, Chars \ {"a"}, "*"),
     Class(<<"[", "]", "a", "]">>, {"]", "a"}, "-"),
     Class(<<"[", "1", "-", "a", "]">>, {"1", "a", "]"}, "+"),
     Class(<<"[", "%", "D", "-", "]">>, Chars \ {"1"}, "?"),
     Class(<<"[", "^", "%", "a", "b", "-", "]">>, {"1", "]"}, ""),
     Class(<<"%", "a">>, {"a", "b"}, "*"),
     Class(<<"%", "D">>, Chars \ {"1"}, ""),
     Class(<<"%", "]">>, {"]"}, ""),
     Class(<<"^">>, {"^"}, ""),
     \* 30..33: malformed at the end of a pattern
     Other("bad", <<"[", "a">>, {}, 0), Other("bad", <<"%">>, {}, 0),
     Other("bad", <<"%", "b", "a">>, {}, 0), Other("bad", <<"%", "f", "a">>, {}, 0)>>
Open == 11
Close == 12

Subjects == {<<>>, <<"a", "b">>, <<"a", "a", "b", "a">>, <<"b", "1", "a", "]">>}
Short == {<<>>} \cup {<<q>> : q \in 1..33}
           \cup (((1..29) \X (1..33)) \ {<<Open, Close>>})
Captured == {<<Open, q, Close, r>> : q \in 1..10, r \in (1..10) \cup {12, 14, 20}}
       \cup {<<Open, q, Open, r, Close, Close, s>> : q, r \in 1..10, s \in {14, 15}}
       \cup {<<q, Open, r, Close, s, 14>> : q, r \in 1..10, s \in {1, 3, 10}}
       \cup {<<2, 7, 3, q, 9, 10, r>> : q, r \in 1..10}
Family(f, items, init, repl, max) ==
  [f |-> f, items |-> items, src |-> Subjects, init |-> init, repl |-> repl, max |-> max]
MCFamilies ==
  {Family({"find", "match", "gmatch"}, Short, {1, -2}, {"x"}, {9}),
   Family({"gsub"}, Short, {1}, {"%1", "table"}, {1, 9}),
   Family({"match", "gsub"}, Captured, {1}, {"%1"}, {9}),
   Family({"gsub"}, {<<6>>, <<1, 10>>, <<Open, 2>>, <<Open, 2, Close, 13>>}, {1},
          {"%0", "%1", "%2", "x", "%x", "function", "table"}, {0, 2}),
   Family({"find", "match", "gmatch"}, {<<3>>, <<20>>, <<1, 1>>, <<29, 1>>},
          {-9, -1, 0, 2, 4, 6}, {"x"}, {9})}

(* Sorting: all keys of up to six elements and some of seven, in order;    *)
(* and up to seven elements with an order function that answers anything.  *)
MCOrders ==
  [key : UNION {[1..len -> 1..3] : len \in 2..6}
           \cup {<<1, 2, 3, 4, 5, 6, 7>>, <<7, 6, 5, 4, 3, 2, 1>>, <<4, 1, 5, 2, 6, 3, 7>>,
                 <<1, 1, 1, 1, 1, 1, 1>>, <<2, 7, 6, 5, 4, 3, 1>>},
   consistent : {TRUE}]
  \cup {[key |-> [q \in 1..len |-> q], consistent |-> FALSE] : len \in 2..7}

-----------------------------------------------------------------------------
CONSTANTS
  IntKeys, ObjKeys, Address(_), MaxInteger, MaxASize, MaxNodes, Sizes,
  Alphabet, Families, ClassOf, Complement, CharCode(_), MaxCaptures, MaxCCalls,
  INT_MAX, FreeStack, MaxLen,
  NBITS, MAXREGS, MAXARG_B, MAXARG_C, MAXARG_Bx, MAXARG_sJ, MAXVARS, MAXUPVAL,
  LFIELDS_PER_FLUSH, StackSize, Programs, Chunk(_),
  Meaning(_)  \* what each program does, called with the arguments 1 and "x"

VARIABLES
  part,
  t, content, traversing, at, visited, stayed,
  call, phase, ms, src, lastmatch, n, changed, out,
  list, list2, did,
  prog, chunk, stack, top, cis, closures, upvals, openupval, tbclist, tables, trace,
  status

tableOnly == <<t, content, traversing, at, visited, stayed>>
strOnly == <<call, phase, ms, src, lastmatch, n, changed, out>>
libOnly == <<list, list2, did>>
vmOnly == <<prog, chunk, stack, top, cis, closures, upvals, openupval, tbclist, tables,
            trace, status>>

Table == INSTANCE LuaTable
Str == INSTANCE LuaStrlib
Lib == INSTANCE LuaTablib
VM == INSTANCE LuaVM WITH frames <- cis
Ref == INSTANCE LuaSemantics
P == INSTANCE LuaPrograms

ASSUME Table!TableAssumption /\ VM!ArithAssumption

MCPrograms == P!Ids
MCChunk(id) == LET body == P!Program(id) IN VM!Compile(body)
MCMeaning(id) ==
  LET does == Ref!Outcome(P!Program(id), <<VM!IntV(1), VM!StrV("x")>>)
      refused == [trace |-> <<>>, status |-> <<"refused", P!Refused[id[2]].why>>]
  IN  IF id[1] = "refused" THEN refused ELSE does

NoTable ==
  t = 0 /\ content = 0 /\ traversing = 0 /\ at = 0 /\ visited = 0 /\ stayed = 0
NoCall ==
  /\ call = 0 /\ phase = 0 /\ ms = 0 /\ src = 0 /\ lastmatch = 0
  /\ n = 0 /\ changed = 0 /\ out = 0
NoSort ==
  /\ order = [key |-> <<1, 2>>, consistent |-> TRUE] /\ a = <<1, 2>> /\ pc = "done"
  /\ lo = 1 /\ up = 2 /\ rnd = 0 /\ p = 0 /\ i = 0 /\ j = 0 /\ pivot = 0 /\ frames = <<>>
NoList == list = 0 /\ list2 = 0 /\ did = 0
NoProgram ==
  /\ prog = 0 /\ chunk = 0 /\ stack = 0 /\ top = 0 /\ cis = 0 /\ closures = 0
  /\ upvals = 0 /\ openupval = 0 /\ tbclist = 0 /\ tables = 0 /\ trace = 0 /\ status = 0

MCInit ==
  \/ part = "table" /\ Table!Init /\ NoCall /\ NoSort /\ NoList /\ NoProgram
  \/ part = "patterns" /\ Str!Init /\ NoTable /\ NoSort /\ NoList /\ NoProgram
  \/ part = "sort" /\ Init /\ NoTable /\ NoCall /\ NoList /\ NoProgram
  \/ part = "lists" /\ Lib!Init /\ NoTable /\ NoCall /\ NoSort /\ NoProgram
  \/ part = "programs" /\ VM!Init /\ NoTable /\ NoCall /\ NoSort /\ NoList

(* A call of a library function ends.  (A program ends with LuaVM!Ended,   *)
(* and a table can always be used once more.)                              *)
Returned ==
  /\ part \in {"patterns", "sort"} \/ (part = "lists" /\ ~Lib!Idle)
  /\ UNCHANGED <<vars, tableOnly, strOnly, libOnly, vmOnly>>

MCNext ==
  /\ UNCHANGED part
  /\ \/ part = "table" /\ Table!Next /\ UNCHANGED <<vars, strOnly, libOnly, vmOnly>>
     \/ part = "patterns" /\ Str!Next /\ UNCHANGED <<vars, tableOnly, libOnly, vmOnly>>
     \/ part = "sort" /\ Next /\ UNCHANGED <<tableOnly, strOnly, libOnly, vmOnly>>
     \/ part = "lists" /\ Lib!Next /\ UNCHANGED <<vars, tableOnly, strOnly, vmOnly>>
     \/ part = "programs" /\ VM!Next /\ UNCHANGED <<vars, tableOnly, strOnly, libOnly>>
     \/ Returned

MCSpec == MCInit /\ [][MCNext]_<<part, vars, tableOnly, strOnly, libOnly, vmOnly>>

-----------------------------------------------------------------------------
(* The table is the map the program made of it, every entry in the chain   *)
(* of its key (luaH_get, luaH_newkey, rehash). *)
TableIsItsMap == part = "table" => Table!TableIsMap /\ Table!ChainsSound
(* #t is a border of the table, and the hint 'alimit' never misleads it    *)
(* (luaH_getn, luaH_realasize). *)
LengthIsItsBorder == part = "table" => Table!LengthIsBorder /\ Table!RealSizeKnown
(* A traversal gives every key that stays exactly once, also when entries  *)
(* are cleared or collected meanwhile (luaH_next, findindex). *)
TableTraversalSound == part = "table" => Table!TraversalSound
(* find, match, gmatch and gsub give what the pattern means, with every    *)
(* choice that failed undone (match, start_capture, end_capture). *)
PatternsMatch == part = "patterns" => Str!PatternsAsMeant
(* insert, remove, move, unpack and concat do what the manual says, also   *)
(* for overlapping ranges and at the largest integers. *)
LibraryAsPromised == [][part = "lists" /\ did' # did => Lib!AsPromised(did')]_<<part, libOnly>>

(* A program makes visible what the semantics says, in the same order, and *)
(* ends with the same results or the same error; a program is refused only *)
(* if it has to be, for the right reason.  This relates the syntax         *)
(* tree (Meaning) to the bytecode that parser and code generator made of   *)
(* it, executed: lparser.c, lcode.c and lvm.c together.                    *)
SameOutcome ==
  part = "programs" /\ ~VM!Running => [trace |-> trace, status |-> status] = Meaning(prog)
(* What the stack holds is where the bytecode expects it: the registers,   *)
(* the open upvalues and the variables to be closed (luaK_checkstack,      *)
(* luaF_findupval, luaF_newtbcupval, luaF_close). *)
StackDiscipline == part = "programs" => VM!StackDiscipline
(* Every lua_assert of the parser and the code generator holds. *)
CompilerClaims == part = "programs" => VM!CompilerClaims
===============================================================================
