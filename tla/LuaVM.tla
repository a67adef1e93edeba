-------------------------------- MODULE LuaVM ---------------------------------
(***************************************************************************)
(* The virtual machine of Lua 5.4.6: luaV_execute (tar/lua-5.4.6/src/      *)
(* lvm.c) with the calls of ldo.c, the varargs of ltm.c and the upvalues   *)
(* and to-be-closed variables of lfunc.c.  One step executes one           *)
(* instruction of a program that LuaParser has compiled.                   *)
(*                                                                         *)
(* An error ends the prog, as under lua_pcall.  The functions and       *)
(* metamethods of LuaValues are C functions that return at once.           *)
(***************************************************************************)
EXTENDS LuaParser

CONSTANTS
  Programs,  \* names of programs
  Chunk(_),  \* each one's prototypes, as Compile made them
  StackSize  \* slots of the stack; the models never reach its end

VARIABLES
  prog,      \* the program that runs
  chunk,     \* its prototypes
  stack, top,
  frames,    \* the CallInfos of Lua functions, the running one last
  closures,  \* proto (a path from the main function) and upvalues
  upvals,    \* each one open, at a slot of the stack, or closed with its value
  openupval, \* the list of open upvalues
  tbclist,   \* the to-be-closed variables, the latest first
  tables,    \* from keys to values that are not nil
  trace,
  status     \* "run", or how the program ended and with which values

regs == <<stack, top>>
program == <<prog, chunk>>
heap == <<closures, upvals, openupval, tbclist, tables>>
vars == <<program, regs, frames, heap, trace, status>>

RECURSIVE ProtoAt(_, _)
ProtoAt(f, path) == IF path = <<>> THEN f ELSE ProtoAt(f.p[path[1]], Tail(path))

NewFrame(func, proto, path, nresults) ==
  [func |-> func, top |-> func + 1 + proto.maxstack, pc |-> 0,
   nresults |-> nresults, nextra |-> 0, path |-> path, tail |-> FALSE]

(* a program is compiled, and called with the arguments 1 and "x" *)
Init ==
  /\ prog \in Programs
  /\ chunk = Chunk(prog)
  /\ stack = [i \in 0..StackSize - 1 |->
                CASE i = 0 -> Fun(1) [] i = 1 -> IntV(1) [] i = 2 -> StrV("x")
                  [] OTHER -> NilV]
  /\ top = 3
  /\ frames = <<NewFrame(0, chunk.proto, <<>>, LUA_MULTRET)>>
  /\ closures = <<[path |-> <<>>, upvals |-> <<1>>]>>
  /\ upvals = <<[open |-> FALSE, at |-> 0, v |-> Tab(1)]>>
  /\ openupval = <<>> /\ tbclist = <<>>
  /\ tables = <<Globals>>
  /\ trace = <<>>
  /\ status = IF chunk.err = "" THEN <<"run">> ELSE <<"refused", chunk.err>>

-----------------------------------------------------------------------------
(* The current instruction and its operands.                               *)

ci == Last(frames)
base == ci.func + 1
Proto1 == ProtoAt(chunk.proto, ci.path)
I == Proto1.code[ci.pc + 1]
NextI == Proto1.code[ci.pc + 2]
cl == closures[stack[ci.func][2]]

RA == base + I.a
VRA == stack[RA]
VRB == stack[base + I.b]
VRC == stack[base + I.c]
KB == Proto1.k[I.b + 1]
KC == Proto1.k[I.c + 1]
RKC == IF I.k THEN KC ELSE VRC
sB == I.b - OFFSET_sC
sC == I.c - OFFSET_sC

UpvalValue(u) == IF upvals[u].open THEN stack[upvals[u].at] ELSE upvals[u].v

Running == status[1] = "run"
Goto_(pc) == frames' = [frames EXCEPT ![Len(frames)].pc = pc]
Put(v) == stack' = [stack EXCEPT ![RA] = v]

-----------------------------------------------------------------------------
(* Upvalues and to-be-closed variables (lfunc.c).                          *)

(* luaF_findupval for each captured variable: st has upvals and openupval *)
FindUpval_Always(st, level) ==
  [all |-> Append(st.all, [open |-> TRUE, at |-> level, v |-> NilV]),
   open |-> <<Len(st.all) + 1>> \o st.open, found |-> Append(st.found, Len(st.all) + 1)]
FindUpval(st, level) ==
  LET above == {i \in DOMAIN st.open : st.all[st.open[i]].at >= level}
      at == {i \in above : st.all[st.open[i]].at = level}
      n == Cardinality(above)
      new == Len(st.all) + 1
  IN  IF at # {} THEN [st EXCEPT !.found = Append(@, st.open[Min(at)])]
      ELSE [all |-> Append(st.all, [open |-> TRUE, at |-> level, v |-> NilV]),
            open |-> SubSeq(st.open, 1, n) \o <<new>> \o
                     SubSeq(st.open, n + 1, Len(st.open)),
            found |-> Append(st.found, new)]

Capture(st, uv) ==
  IF uv.instack THEN FindUpval(st, base + uv.idx)
  ELSE [st EXCEPT !.found = Append(@, cl.upvals[uv.idx + 1])]

(* luaF_closeupval: the list is sorted, so that a prefix of it is closed *)
ClosedUpvals(level) ==
  {openupval[i] : i \in {j \in DOMAIN openupval :
     \A h \in 1..j : upvals[openupval[h]].at >= level}}
CloseUpvals(level) ==
  /\ upvals' = [u \in DOMAIN upvals |->
       IF u \in ClosedUpvals(level)
       THEN [open |-> FALSE, at |-> 0, v |-> stack[upvals[u].at]] ELSE upvals[u]]
  /\ openupval' = SelectSeq(openupval, LAMBDA u : u \notin ClosedUpvals(level))

ToClose(level) == SelectSeq(tbclist, LAMBDA l : l >= level)

(* the stack after the calls of the closing methods of 'list': a call      *)
(* leaves the function and its two arguments above the variable, or above  *)
(* the top when the values at the top are being returned                   *)
Pushed(st, at, vals) ==
  [i \in DOMAIN st |-> IF i \in at..at + Len(vals) - 1 THEN vals[i - at + 1] ELSE st[i]]
AfterClosing(st, list, atTop, tp, err) ==
  FoldLeft(LAMBDA s, l :
             Pushed(s, IF atTop THEN tp ELSE l + 1,
                    (IF atTop THEN <<>> ELSE <<err>>) \o <<Nat1("close"), s[l], err>>),
           st, list)
CloseEvents(list, err) == [i \in DOMAIN list |-> <<"CLOSE", stack[list[i]], err>>]

(* luaF_close; pending values are those at the top that are being returned *)
CloseAll(level, atTop, tp) ==
  LET list == ToClose(level)
  IN  /\ CloseUpvals(level)
      /\ tbclist' = SelectSeq(tbclist, LAMBDA l : l < level)
      /\ stack' = AfterClosing(stack, list, atTop, tp, NilV)
      /\ trace' = trace \o CloseEvents(list, NilV)

(* luaD_throw to the protected call around the program: every variable is  *)
(* closed, with the error                                                  *)
Throw(err) ==
  /\ status' = <<"error", err>>
  /\ CloseUpvals(0)
  /\ tbclist' = <<>>
  /\ trace' = trace \o CloseEvents(tbclist, err)
  /\ frames' = <<>>
  /\ UNCHANGED <<program, regs, closures, tables>>

RuntimeError == Throw(StrV("error"))

(* Most instructions put a value in R[A], maybe after a metamethod's call  *)
(* ('events'), and go to another instruction.                              *)
Result(v, events, pc) ==
  /\ Put(v) /\ Goto_(pc) /\ trace' = trace \o events
  /\ UNCHANGED <<program, top, heap, status>>

-----------------------------------------------------------------------------
(* Moves and upvalues.                                                     *)

Load ==
  LET value ==
        CASE I.op = "MOVE"      -> VRB
          [] I.op = "LOADI"     -> IntV(I.b)
          [] I.op = "LOADK"     -> KB
          [] I.op = "LOADKX"    -> Proto1.k[NextI.b + 1]
          [] I.op = "LOADTRUE"  -> BoolV(TRUE)
          [] I.op \in {"LOADFALSE", "LFALSESKIP"} -> BoolV(FALSE)
          [] I.op = "GETUPVAL"  -> UpvalValue(cl.upvals[I.b + 1])
          [] I.op = "NOT"       -> BoolV(IsFalse(VRB))
      skip == I.op \in {"LOADKX", "LFALSESKIP"}
  IN  /\ I.op \in {"MOVE", "LOADI", "LOADK", "LOADKX", "LOADTRUE", "LOADFALSE",
                   "LFALSESKIP", "GETUPVAL", "NOT"}
      /\ Result(value, <<>>, ci.pc + IF skip THEN 2 ELSE 1)

LoadNils ==
  /\ I.op = "LOADNIL"
  /\ stack' = [i \in DOMAIN stack |-> IF i \in RA..RA + I.b THEN NilV ELSE stack[i]]
  /\ Goto_(ci.pc + 1)
  /\ UNCHANGED <<program, top, heap, trace, status>>

SetUpval ==
  /\ I.op = "SETUPVAL"
  /\ LET u == cl.upvals[I.b + 1]
     IN  IF upvals[u].open
         THEN stack' = [stack EXCEPT ![upvals[u].at] = VRA] /\ UNCHANGED upvals
         ELSE upvals' = [upvals EXCEPT ![u].v = VRA] /\ UNCHANGED stack
  /\ Goto_(ci.pc + 1)
  /\ UNCHANGED <<program, top, closures, openupval, tbclist, tables, trace, status>>

Closure ==
  /\ I.op = "CLOSURE"
  /\ LET st == FoldLeft(Capture, [all |-> upvals, open |-> openupval, found |-> <<>>],
                        Proto1.p[I.b + 1].ups)
     IN  /\ closures' = Append(closures, [path |-> Append(ci.path, I.b + 1),
                                          upvals |-> st.found])
         /\ upvals' = st.all /\ openupval' = st.open
  /\ Put(Fun(Len(closures) + 1))
  /\ Goto_(ci.pc + 1)
  /\ UNCHANGED <<program, top, tbclist, tables, trace, status>>

Close ==
  /\ I.op = "CLOSE"
  /\ CloseAll(RA, FALSE, top)
  /\ Goto_(ci.pc + 1)
  /\ UNCHANGED <<program, top, closures, tables, status>>

(* luaF_newtbcupval: false values are not closed, others must be closable *)
NewTbc(level, pc) ==
  IF ~IsFalse(stack[level]) /\ ~IsObj(stack[level]) THEN RuntimeError
  ELSE /\ tbclist' = IF IsFalse(stack[level]) THEN tbclist ELSE <<level>> \o tbclist
       /\ Goto_(pc)
       /\ UNCHANGED <<program, regs, closures, upvals, openupval, tables, trace, status>>
Tbc == I.op = "TBC" /\ NewTbc(RA, ci.pc + 1)

-----------------------------------------------------------------------------
(* Tables and objects (lvm.c: luaV_finishget, luaV_finishset, luaV_objlen).*)

RawGet(t, key) == Field1(tables[t[2]], key)

GetTable(t, key) ==
  CASE t[1] = "tab" -> Result(RawGet(t, key), <<>>, ci.pc + 1)
    [] IsObj(t)     -> Result(key, <<<<"INDEX", t, key>>>>, ci.pc + 1)
    [] OTHER        -> RuntimeError

Get ==
  CASE I.op = "GETTABUP" -> GetTable(UpvalValue(cl.upvals[I.b + 1]), KC)
    [] I.op = "GETTABLE" -> GetTable(VRB, VRC)
    [] I.op = "GETI"     -> GetTable(VRB, IntV(I.c))
    [] I.op = "GETFIELD" -> GetTable(VRB, KC)
    [] OTHER             -> FALSE

SetTable(t, key, v) ==
  IF (t[1] = "tab" /\ key # NilV) \/ IsObj(t)
  THEN /\ tables' = IF IsObj(t) THEN tables ELSE [tables EXCEPT ![t[2]] = RawSet(@, key, v)]
       /\ trace' = IF IsObj(t) THEN Append(trace, <<"NEWINDEX", t, key, v>>) ELSE trace
       /\ Goto_(ci.pc + 1)
       /\ UNCHANGED <<program, regs, closures, upvals, openupval, tbclist, status>>
  ELSE RuntimeError

Set ==
  CASE I.op = "SETTABUP" -> SetTable(UpvalValue(cl.upvals[I.a + 1]), KB, RKC)
    [] I.op = "SETTABLE" -> SetTable(VRA, VRB, RKC)
    [] I.op = "SETI"     -> SetTable(VRA, IntV(I.b), RKC)
    [] I.op = "SETFIELD" -> SetTable(VRA, KB, RKC)
    [] OTHER             -> FALSE

(* the sizes are only a hint, but the extra argument must be skipped *)
NewTable ==
  /\ I.op = "NEWTABLE"
  /\ tables' = Append(tables, NoValue)
  /\ Put(Tab(Len(tables) + 1))
  /\ Goto_(ci.pc + 2)
  /\ UNCHANGED <<program, top, closures, upvals, openupval, tbclist, trace, status>>

SelfCall ==
  /\ I.op = "SELF"
  /\ IF VRB[1] \notin {"tab", "obj"} THEN RuntimeError
     ELSE /\ stack' = [stack EXCEPT ![RA + 1] = VRB,
                         ![RA] = IF IsObj(VRB) THEN RKC ELSE RawGet(VRB, RKC)]
          /\ trace' = trace \o IF IsObj(VRB) THEN <<<<"INDEX", VRB, RKC>>>> ELSE <<>>
          /\ Goto_(ci.pc + 1)
          /\ UNCHANGED <<program, top, heap, status>>

(* the n values above the table become its items after the last one *)
SetList1 ==
  /\ I.op = "SETLIST"
  /\ LET n == IF I.b = 0 THEN top - RA - 1 ELSE I.b
         last == I.c + IF I.k THEN NextI.b * (MAXARG_C + 1) ELSE 0
         Item(tab, i) == RawSet(tab, IntV(last + i), stack[RA + i])
     IN  tables' = [tables EXCEPT ![VRA[2]] = FoldLeft(Item, @, [i \in 1..n |-> i])]
  /\ top' = IF I.b = 0 THEN top ELSE ci.top
  /\ Goto_(ci.pc + IF I.k THEN 2 ELSE 1)
  /\ UNCHANGED <<program, stack, closures, upvals, openupval, tbclist, trace, status>>

-----------------------------------------------------------------------------
(* Operators.  An arithmetic instruction that succeeds skips the MMBIN     *)
(* after it, which calls a metamethod and puts its result in the register  *)
(* of the arithmetic instruction.                                          *)

Divides == {"MOD", "IDIV"}
Arith(op, v1, v2) ==
  CASE ~(IsInt(v1) /\ IsInt(v2)) -> Goto_(ci.pc + 1) /\ UNCHANGED <<program, regs, heap, trace, status>>
    [] IsInt(v1) /\ IsInt(v2) /\ op \in Divides /\ v2[2] = 0 -> RuntimeError
    [] OTHER -> Result(IntV(IntArith(op, v1[2], v2[2])), <<>>, ci.pc + 2)

BinaryK == {op \o "K" : op \in ArithOps \cup BitOps}
Binary ==
  CASE I.op \in FoldOps -> Arith(I.op, VRB, VRC)
    [] I.op \in BinaryK ->
         Arith(CHOOSE op \in FoldOps : op \o "K" = I.op, VRB, KC)
    [] I.op = "ADDI" -> Arith("ADD", VRB, IntV(sC))
    [] I.op = "SHRI" -> Arith("SHL", VRB, IntV(-sC))
    [] I.op = "SHLI" -> Arith("SHL", IntV(sC), VRB)
    [] OTHER         -> FALSE

(* the metamethods of the environment's objects return their first operand *)
TryBin(v1, v2, event, reg) ==
  IF ~IsObj(v1) /\ ~IsObj(v2) THEN RuntimeError
  ELSE /\ stack' = [stack EXCEPT ![base + reg] = v1]
       /\ trace' = Append(trace, <<event, v1, v2>>)
       /\ Goto_(ci.pc + 1)
       /\ UNCHANGED <<program, top, heap, status>>

Metamethod ==
  LET operand == CASE I.op = "MMBIN" -> VRB
                   [] I.op = "MMBINI" -> IntV(sB)
                   [] I.op = "MMBINK" -> KB
      result == Proto1.code[ci.pc].a
  IN  /\ I.op \in {"MMBIN", "MMBINI", "MMBINK"}
      /\ IF I.k THEN TryBin(operand, VRA, I.c, result)
         ELSE TryBin(VRA, operand, I.c, result)

Unary ==
  CASE I.op \in {"UNM", "BNOT"} /\ IsInt(VRB) ->
         Result(IntV(IntArith(I.op, VRB[2], 0)), <<>>, ci.pc + 1)
    [] I.op = "LEN" /\ VRB[1] = "tab" -> Result(IntV(Border(tables[VRB[2]])), <<>>, ci.pc + 1)
    [] I.op = "LEN" /\ VRB[1] = "str" -> Result(IntV(Len(VRB[2])), <<>>, ci.pc + 1)
    [] \/ I.op \in {"UNM", "BNOT"} /\ ~IsInt(VRB)
       \/ I.op = "LEN" /\ VRB[1] \notin {"tab", "str"} -> TryBin(VRB, VRB, I.op, I.a)
    [] OTHER -> FALSE

(* luaV_concat, on the last two of 'vals'; strings that follow each other  *)
(* are joined at once, which is the same                                   *)
RECURSIVE ConcatAll(_, _)
ConcatAll(vals, events) ==
  LET n == Len(vals)
      x == vals[n - 1]
      y == vals[n]
      rest == SubSeq(vals, 1, n - 2)
  IN  CASE n = 1 -> [ok |-> TRUE, v |-> vals[1], events |-> events]
        [] n > 1 /\ IsText(x) /\ IsText(y) ->
             ConcatAll(Append(rest, StrV(Text(x) \o Text(y))), events)
        [] n > 1 /\ (IsObj(x) \/ IsObj(y)) ->
             ConcatAll(Append(rest, x), Append(events, <<"CONCAT", x, y>>))
        [] OTHER -> [ok |-> FALSE, v |-> NilV, events |-> events]

ConcatOp ==
  /\ I.op = "CONCAT"
  /\ LET r == ConcatAll([i \in 1..I.b |-> stack[RA + i - 1]], <<>>)
     IN  IF r.ok THEN Result(r.v, r.events, ci.pc + 1) ELSE RuntimeError

-----------------------------------------------------------------------------
(* Tests: the next instruction is a jump, executed at once if the test     *)
(* gives k, and skipped if not (docondjump).                               *)

AfterTest(cond) == ci.pc + IF cond = I.k THEN 2 + NextI.b ELSE 2
Test(cond, events) ==
  /\ Goto_(AfterTest(cond)) /\ trace' = trace \o events
  /\ UNCHANGED <<program, regs, heap, status>>

EqualObj(x, y) ==
  IF x # y /\ IsObj(x) /\ IsObj(y) THEN Test(TRUE, <<<<"EQ", x, y>>>>)
  ELSE Test(x = y, <<>>)

(* luaV_lessthan, luaV_lessequal; the programs do not compare strings *)
Order(event, x, y) ==
  CASE IsInt(x) /\ IsInt(y) ->
         Test(IF event = "LT" THEN x[2] < y[2] ELSE x[2] <= y[2], <<>>)
    [] IsObj(x) \/ IsObj(y) -> Test(TRUE, <<<<event, x, y>>>>)
    [] OTHER -> RuntimeError

Compare ==
  CASE I.op = "EQ"  -> EqualObj(VRA, VRB)
    [] I.op = "EQK" -> Test(VRA = KB, <<>>)
    [] I.op = "EQI" -> Test(VRA = IntV(sB), <<>>)
    [] I.op \in {"LT", "LE"} -> Order(I.op, VRA, VRB)
    [] I.op = "LTI" -> Order("LT", VRA, IntV(sB))
    [] I.op = "LEI" -> Order("LE", VRA, IntV(sB))
    [] I.op = "GTI" -> Order("LT", IntV(sB), VRA)
    [] I.op = "GEI" -> Order("LE", IntV(sB), VRA)
    [] I.op = "TEST" -> Test(~IsFalse(VRA), <<>>)
    [] OTHER -> FALSE

TestSet ==
  /\ I.op = "TESTSET"
  /\ IF IsFalse(VRB) = I.k THEN Goto_(ci.pc + 2) /\ UNCHANGED stack
     ELSE Put(VRB) /\ Goto_(ci.pc + 2 + NextI.b)
  /\ UNCHANGED <<program, top, heap, trace, status>>

Jmp ==
  /\ I.op = "JMP"
  /\ Goto_(ci.pc + 1 + I.b)
  /\ UNCHANGED <<program, regs, heap, trace, status>>

-----------------------------------------------------------------------------
(* Calls and returns (ldo.c).                                              *)

(* the nres values below tp, moved to res and adjusted to 'wanted' *)
MoveResults(st, res, tp, nres, wanted) ==
  LET n == IF wanted = LUA_MULTRET THEN nres ELSE wanted
      from(i) == IF i < nres THEN st[tp - nres + i] ELSE NilV
  IN  [st |-> Pushed(st, res, [i \in 1..n |-> from(i - 1)]), top |-> res + n]

(* luaD_tryfuncTM: the metamethod is put below the object *)
Callable(st, tp, func) ==
  LET shifted == [i \in DOMAIN st |-> CASE i = func -> Nat1("CALL")
                                        [] i \in func + 1..tp -> st[i - 1]
                                        [] OTHER -> st[i]]
  IN  IF IsObj(st[func]) THEN [st |-> shifted, top |-> tp + 1]
      ELSE [st |-> st, top |-> tp]

Values(st, from, to) == [i \in 1..to - from |-> st[from + i - 1]]

(* precallC for the function and arguments in st[func..tp - 1] *)
AfterC(st, tp, func, wanted) ==
  LET results == CResults(st[func], Values(st, func + 1, tp))
  IN  MoveResults(Pushed(st, tp, results), func, tp + Len(results), Len(results),
                  wanted)

(* luaD_precall; the caller goes on at pc *)
Precall(st0, tp0, func, wanted, pc) ==
  LET c == Callable(st0, tp0, func)
      f == c.st[func]
      args == Values(c.st, func + 1, c.top)
      returned == AfterC(c.st, c.top, func, wanted)
      path == closures[f[2]].path
      proto == ProtoAt(chunk.proto, path)
      missing == Max({proto.numparams - Len(args), 0})
  IN  CASE f = Nat1("error") -> Throw(IF args = <<>> THEN NilV ELSE args[1])
        [] f[1] = "nat" /\ f # Nat1("error") ->
             /\ stack' = returned.st /\ top' = returned.top
             /\ trace' = trace \o CEvents(f, args)
             /\ Goto_(pc)
             /\ UNCHANGED <<program, heap, status>>
        [] f[1] = "fun" ->
             /\ stack' = Pushed(c.st, c.top, [i \in 1..missing |-> NilV])
             /\ top' = c.top + missing
             /\ frames' = Append([frames EXCEPT ![Len(frames)].pc = pc],
                                 NewFrame(func, proto, path, wanted))
             /\ UNCHANGED <<program, heap, trace, status>>
        [] OTHER -> RuntimeError

CallOp ==
  /\ I.op = "CALL"
  /\ Precall(stack, IF I.b # 0 THEN RA + I.b ELSE top, RA, I.c - 1, ci.pc + 1)

(* a vararg function works above the copy of its arguments: the real       *)
(* function is below them                                                  *)
RealFunc == ci.func - IF I.c # 0 THEN ci.nextra + I.c ELSE 0

(* luaD_poscall for the running function *)
Poscall(st, tp, nres) ==
  LET r == MoveResults(st, RealFunc, tp, nres, ci.nresults)
  IN  /\ stack' = r.st /\ top' = r.top
      /\ frames' = Front(frames)
      /\ status' = IF Len(frames) > 1 THEN status
                   ELSE <<"done", Values(r.st, RealFunc, r.top)>>

(* luaD_pretailcall: the callee takes the frame of the caller *)
TailCall ==
  LET c == Callable(stack, IF I.b # 0 THEN RA + I.b ELSE top, RA)
      f == c.st[RA]
      args == Values(c.st, RA + 1, c.top)
      results == CResults(f, args)
      path == closures[f[2]].path
      proto == ProtoAt(chunk.proto, path)
      missing == Max({proto.numparams - Len(args), 0})
      moved == <<f>> \o args \o [i \in 1..missing |-> NilV]
      frame == NewFrame(RealFunc, proto, path, ci.nresults)
  IN  /\ I.op = "TAILCALL"
      /\ CASE f = Nat1("error") -> Throw(IF args = <<>> THEN NilV ELSE args[1])
           [] f[1] = "nat" /\ f # Nat1("error") ->
                /\ IF I.k THEN CloseUpvals(base) ELSE UNCHANGED <<upvals, openupval>>
                /\ trace' = trace \o CEvents(f, args)
                /\ Poscall(Pushed(c.st, c.top, results), c.top + Len(results),
                           Len(results))
                /\ UNCHANGED <<program, closures, tbclist, tables>>
           [] f[1] = "fun" ->
                /\ IF I.k THEN CloseUpvals(base) ELSE UNCHANGED <<upvals, openupval>>
                /\ stack' = Pushed(c.st, RealFunc, moved)
                /\ top' = RealFunc + Len(moved)
                /\ frames' = [frames EXCEPT ![Len(frames)] = [frame EXCEPT !.tail = TRUE]]
                /\ UNCHANGED <<program, closures, tbclist, tables, trace, status>>
           [] OTHER -> RuntimeError

(* OP_RETURN: what has to be closed is closed with the results at the top *)
ReturnOp ==
  LET n == IF I.b # 0 THEN I.b - 1 ELSE top - RA
      tp == IF I.b # 0 /\ top < ci.top THEN ci.top ELSE Max({top, ci.top})
      list == ToClose(base)
      closed == AfterClosing(stack, list, TRUE, tp, NilV)
  IN  /\ I.op = "RETURN"
      /\ IF I.k
         THEN /\ CloseUpvals(base)
              /\ tbclist' = SelectSeq(tbclist, LAMBDA l : l < base)
              /\ trace' = trace \o CloseEvents(list, NilV)
         ELSE UNCHANGED <<upvals, openupval, tbclist, trace>>
      /\ Poscall(IF I.k THEN closed ELSE stack, RA + n, n)
      /\ UNCHANGED <<program, closures, tables>>

(* OP_RETURN0, OP_RETURN1: nothing to close, no varargs *)
ReturnFast ==
  LET n == IF I.op = "RETURN0" THEN 0 ELSE 1
  IN  /\ I.op \in {"RETURN0", "RETURN1"}
      /\ Poscall(stack, RA + n, n)
      /\ UNCHANGED <<program, heap, trace>>

(* luaT_adjustvarargs: the function and its parameters are copied above    *)
(* the arguments; there the function runs                                  *)
VarargPrep ==
  LET actual == top - ci.func - 1
      fixed == [i \in 1..I.a + 1 |-> stack[ci.func + i - 1]]
      erased == Pushed(Pushed(stack, top, fixed), ci.func + 1,
                       [i \in 1..I.a |-> NilV])
  IN  /\ I.op = "VARARGPREP"
      /\ stack' = erased
      /\ top' = top + I.a + 1
      /\ frames' = [frames EXCEPT ![Len(frames)] =
           [@ EXCEPT !.nextra = actual - I.a, !.func = @ + actual + 1,
                     !.top = @ + actual + 1, !.pc = @ + 1]]
      /\ UNCHANGED <<program, heap, trace, status>>

Vararg ==
  LET wanted == IF I.c = 0 THEN ci.nextra ELSE I.c - 1
      arg(i) == IF i <= ci.nextra THEN stack[ci.func - ci.nextra + i - 1] ELSE NilV
  IN  /\ I.op = "VARARG"
      /\ stack' = Pushed(stack, RA, [i \in 1..wanted |-> arg(i)])
      /\ top' = IF I.c = 0 THEN RA + wanted ELSE top
      /\ Goto_(ci.pc + 1)
      /\ UNCHANGED <<program, heap, trace, status>>

-----------------------------------------------------------------------------
(* Loops.  R[A] is the index, R[A+1] the count of iterations that remain,  *)
(* R[A+2] the step, R[A+3] the control variable that the program sees.     *)

ForPrep ==
  LET init == VRA
      lim == stack[RA + 1]
      step == stack[RA + 2]
      limit == ClippedLimit(2 * lim[2], step[2])
      count == ForCount(init[2], limit, step[2])
      skips == ForLimitSkips(init[2], 2 * lim[2], step[2])
  IN  /\ I.op = "FORPREP"
      /\ IF ~(IsInt(init) /\ IsInt(lim) /\ IsInt(step)) THEN RuntimeError
         ELSE IF step[2] = 0 THEN RuntimeError
         ELSE /\ stack' = IF skips THEN [stack EXCEPT ![RA + 3] = init]
                          ELSE [stack EXCEPT ![RA + 3] = init, ![RA + 1] = IntV(U2S(count))]
              /\ Goto_(ci.pc + IF skips THEN I.b + 2 ELSE 1)
              /\ UNCHANGED <<program, top, heap, trace, status>>

ForLoop ==
  LET count == S2U(stack[RA + 1][2])
      idx == Wrap(VRA[2] + stack[RA + 2][2])
  IN  /\ I.op = "FORLOOP"
      /\ IF count = 0 THEN UNCHANGED stack /\ Goto_(ci.pc + 1)
         ELSE /\ stack' = [stack EXCEPT ![RA + 1] = IntV(U2S(count - 1)),
                                        ![RA] = IntV(idx), ![RA + 3] = IntV(idx)]
              /\ Goto_(ci.pc + 1 - I.b)
      /\ UNCHANGED <<program, top, heap, trace, status>>

(* the generic loop: a function, a state, the control variable and a value *)
(* to be closed                                                            *)
TforPrep == I.op = "TFORPREP" /\ NewTbc(RA + 3, ci.pc + 1 + I.b)

TforCall ==
  /\ I.op = "TFORCALL"
  /\ Precall(Pushed(stack, RA + 4, <<VRA, stack[RA + 1], stack[RA + 2]>>),
             RA + 7, RA + 4, I.c, ci.pc + 1)

TforLoop ==
  LET again == stack[RA + 4] # NilV
  IN  /\ I.op = "TFORLOOP"
      /\ stack' = IF again THEN [stack EXCEPT ![RA + 2] = stack[RA + 4]] ELSE stack
      /\ Goto_(ci.pc + 1 - IF again THEN I.b ELSE 0)
      /\ UNCHANGED <<program, top, heap, trace, status>>

-----------------------------------------------------------------------------
Step ==
  /\ Running
  /\ \/ Load \/ LoadNils \/ SetUpval \/ Closure \/ Close \/ Tbc
     \/ Get \/ Set \/ NewTable \/ SelfCall \/ SetList1
     \/ Binary \/ Metamethod \/ Unary \/ ConcatOp
     \/ Compare \/ TestSet \/ Jmp
     \/ CallOp \/ TailCall \/ ReturnOp \/ ReturnFast \/ VarargPrep \/ Vararg
     \/ ForPrep \/ ForLoop \/ TforPrep \/ TforCall \/ TforLoop

Ended == ~Running /\ UNCHANGED vars

Next == Step \/ Ended

(* luaV_execute does not stop before the program has ended *)
Spec == Init /\ [][Next]_vars /\ WF_vars(Step)

-----------------------------------------------------------------------------
(* What holds of the stack while a program runs.                           *)

(* the highest register that the current instruction names *)
LastRegister ==
  CASE I.op \in {"JMP", "SETTABUP", "VARARGPREP", "EXTRAARG"} -> 0
    [] I.op = "SELF" -> I.a + 1
    [] I.op = "LOADNIL" -> I.a + I.b
    [] I.op \in {"CONCAT", "CALL", "TAILCALL", "SETLIST"} -> I.a + Max({I.b - 1, 0})
    [] I.op = "RETURN" -> I.a + Max({I.b - 2, 0})
    [] I.op = "VARARG" -> I.a + Max({I.c - 2, 0})
    [] I.op \in {"FORPREP", "FORLOOP", "TFORPREP"} -> I.a + 3
    [] I.op = "TFORCALL" -> I.a + 4 + Max({I.c - 1, 2})
    [] I.op = "RETURN0" -> 0
    [] OTHER -> Max({I.a, IF I.op \in {"MOVE", "TEST", "TESTSET"} THEN I.b ELSE 0})

(* No instruction touches a slot above those that the function reserved    *)
(* when it was called: the maxstacksize that the compiler computes covers  *)
(* every temporary, the arguments of calls and the call of a generic loop. *)
RegistersReserved ==
  Running => /\ base + LastRegister < ci.top
             /\ ci.pc + 1 \in DOMAIN Proto1.code

(* the registers of the functions that run *)
LiveSlots == UNION {frames[i].func + 1..frames[i].top - 1 : i \in DOMAIN frames}

Decreasing(s) == \A i, j \in DOMAIN s : i < j => s[i] > s[j]

(* The open upvalues are those in the list, one for each captured variable *)
(* and ordered by it, and none outlives the function whose variable it is: *)
(* a closure never reads a slot that another call uses meanwhile.          *)
OpenUpvalues ==
  /\ {u \in DOMAIN upvals : upvals[u].open} = Range(openupval)
  /\ Decreasing([i \in DOMAIN openupval |-> upvals[openupval[i]].at])
  /\ \A u \in Range(openupval) : upvals[u].at \in LiveSlots

(* The variables to be closed are listed in the order in which they were   *)
(* declared, each one holds a value that can be closed, and none is left   *)
(* behind by a break, a goto, a return, a tail call or an error.           *)
ToBeClosed ==
  /\ Decreasing(tbclist)
  /\ \A l \in Range(tbclist) : l \in LiveSlots /\ IsObj(stack[l])

(* What the stack holds is where the bytecode expects it: the registers,   *)
(* the open upvalues and the variables to be closed (luaK_checkstack,      *)
(* luaF_findupval, luaF_newtbcupval, luaF_close).                          *)
StackDiscipline == RegistersReserved /\ OpenUpvalues /\ ToBeClosed

(* every lua_assert of the parser and the code generator holds *)
CompilerClaims == chunk.err = "" => chunk.asserts
===============================================================================
