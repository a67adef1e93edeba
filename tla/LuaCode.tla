------------------------------- MODULE LuaCode --------------------------------
(***************************************************************************)
(* The code generator of Lua 5.4.6 (tar/lua-5.4.6/src/lcode.c): registers, *)
(* constants, lists of pending jumps threaded through the instructions,    *)
(* and the choice of an instruction for each operation.                    *)
(*                                                                         *)
(* A FuncState is a record 'fs', an expdesc a record 'e'; an operation     *)
(* that changes both returns [fs |-> ..., e |-> ...].  Program counters    *)
(* start at 0, as in the code.  A lua_assert that fails clears fs.asserts; *)
(* a syntax error is kept in fs.err.  Floats and line numbers are left     *)
(* out; so are DIV and POW, which make floats of integers.                 *)
(***************************************************************************)
EXTENDS LuaValues

CONSTANTS
  MAXREGS,     \* registers of a function: 255 in the code
  MAXARG_B,    \* the largest B (255); MAXINDEXRK is the same number
  MAXARG_C,    \* the largest C (255)
  MAXARG_Bx,   \* the largest Bx (2^17 - 1)
  MAXARG_sJ    \* the largest sJ (2^25 - 1)

NO_JUMP == -1
NO_REG == MAXREGS
LUA_MULTRET == -1
MAXINDEXRK == MAXARG_B
OFFSET_sC == MAXARG_C \div 2
OFFSET_sBx == MAXARG_Bx \div 2
OFFSET_sJ == MAXARG_sJ \div 2
SC(i) == i + OFFSET_sC  \* int2sC

(* One record for all formats: Bx, sBx and sJ (decoded) are in field b.    *)
Instr(op, a, b, c, k) == [op |-> op, a |-> a, b |-> b, c |-> c, k |-> k]
NoInstr == Instr("NONE", 0, 0, 0, FALSE)

Exp(k, info) == [k |-> k, info |-> info, aux |-> 0, t |-> NO_JUMP, f |-> NO_JUMP]
As(e, k, info) == [e EXCEPT !.k = k, !.info = info]
R(fs, e) == [fs |-> fs, e |-> e]

HasJumps(e) == e.t # e.f
IsNumeral(e) == ~HasJumps(e) /\ e.k = "VKINT"

Claim(fs, claim) == [fs EXCEPT !.asserts = @ /\ claim]
Error(fs, msg) == [fs EXCEPT !.err = IF @ = "" THEN msg ELSE @]

-----------------------------------------------------------------------------
(* Variables and registers.  Register levels are luaY_nvarstack's: local   *)
(* constants ("CTC") use none.                                             *)

LocalVar(fs, vidx) == fs.actvar[fs.firstlocal + vidx + 1]

RegLevel(fs, nvar) ==
  LET inReg == {v \in 0..nvar - 1 : LocalVar(fs, v).kind # "CTC"}
  IN  IF inReg = {} THEN 0 ELSE LocalVar(fs, Max(inReg)).ridx + 1

NVarStack(fs) == RegLevel(fs, fs.nactvar)

CheckStack(fs, n) ==
  LET newstack == fs.freereg + n
  IN  IF newstack <= fs.maxstack THEN fs
      ELSE IF newstack >= MAXREGS THEN Error(fs, "too many registers")
      ELSE [fs EXCEPT !.maxstack = newstack]

ReserveRegs(fs, n) == [CheckStack(fs, n) EXCEPT !.freereg = @ + n]

FreeReg(fs, reg) ==
  IF reg < NVarStack(fs) THEN fs
  ELSE Claim([fs EXCEPT !.freereg = @ - 1], reg = fs.freereg - 1)

(* the higher one first, as a stack *)
FreeRegs_InOrder(fs, r1, r2) == FreeReg(FreeReg(fs, r1), r2)
FreeRegs(fs, r1, r2) ==
  IF r1 > r2 THEN FreeReg(FreeReg(fs, r1), r2) ELSE FreeReg(FreeReg(fs, r2), r1)

FreeExp(fs, e) == IF e.k = "VNONRELOC" THEN FreeReg(fs, e.info) ELSE fs
FreeExps(fs, e1, e2) ==
  LET reg(e) == IF e.k = "VNONRELOC" THEN e.info ELSE -1
  IN  FreeRegs(fs, reg(e1), reg(e2))

-----------------------------------------------------------------------------
(* Instructions.                                                           *)

PC(fs) == Len(fs.code)
At(fs, pc) == fs.code[pc + 1]
SetInstr(fs, pc, i) == [fs EXCEPT !.code[pc + 1] = i]

Code(fs, i) == [fs EXCEPT !.code = Append(@, i)]
CodeABCk(fs, op, a, b, c, k) ==
  Code(Claim(fs, a <= MAXREGS /\ b <= MAXARG_B /\ c <= MAXARG_C),
       Instr(op, a, b, c, k))
CodeABC(fs, op, a, b, c) == CodeABCk(fs, op, a, b, c, FALSE)
CodeABx(fs, op, a, bx) == Code(Claim(fs, bx <= MAXARG_Bx), Instr(op, a, bx, 0, FALSE))
ExtraArg(fs, ax) == Code(fs, Instr("EXTRAARG", 0, ax, 0, FALSE))
RemoveLast(fs) == [fs EXCEPT !.code = Front(@)]

(* an instruction that a jump may enter after cannot be merged with *)
Previous(fs) == IF PC(fs) > fs.lasttarget THEN At(fs, PC(fs) - 1) ELSE NoInstr

GetLabel(fs) == [fs EXCEPT !.lasttarget = PC(fs)]

CodeK(fs, reg, k) ==
  IF k <= MAXARG_Bx THEN CodeABx(fs, "LOADK", reg, k)
  ELSE ExtraArg(CodeABx(fs, "LOADKX", reg, 0), k)

FitsC(i) == -OFFSET_sC <= i /\ i <= MAXARG_C - OFFSET_sC
FitsBx(i) == -OFFSET_sBx <= i /\ i <= MAXARG_Bx - OFFSET_sBx

LoadNil(fs, first, n) ==
  LET prev == Previous(fs)
      pfrom == prev.a
      pl == prev.a + prev.b
      l == first + n - 1
      connect == \/ pfrom <= first /\ first <= pl + 1
                 \/ first <= pfrom /\ pfrom <= l + 1
      low == Min({first, pfrom})
      high == Max({l, pl})
  IN  IF prev.op = "LOADNIL" /\ connect
      THEN SetInstr(fs, PC(fs) - 1, [prev EXCEPT !.a = low, !.b = high - low])
      ELSE CodeABC(fs, "LOADNIL", first, n - 1, 0)

Ret(fs, first, nret) ==
  LET op == CASE nret = 0 -> "RETURN0" [] nret = 1 -> "RETURN1" [] OTHER -> "RETURN"
  IN  CodeABC(fs, op, first, nret + 1, 0)

-----------------------------------------------------------------------------
(* Lists of jumps: each JMP of a list holds the offset to the next one.    *)

TestOps == {"EQ", "LT", "LE", "EQK", "EQI", "LTI", "LEI", "GTI", "GEI",
            "TEST", "TESTSET"}

Jump(fs) == Code(fs, Instr("JMP", 0, NO_JUMP, 0, FALSE))
CondJump(fs, op, a, b, c, k) == Jump(CodeABCk(fs, op, a, b, c, k))

GetJump(fs, pc) ==
  LET offset == At(fs, pc).b
  IN  IF offset = NO_JUMP THEN NO_JUMP ELSE pc + 1 + offset

FixJump(fs, pc, dest) ==
  LET offset == dest - (pc + 1)
      fits == -OFFSET_sJ <= offset /\ offset <= MAXARG_sJ - OFFSET_sJ
      fs1 == Claim(fs, dest # NO_JUMP /\ At(fs, pc).op = "JMP")
  IN  [(IF fits THEN fs1 ELSE Error(fs1, "control structure too long"))
         EXCEPT !.code[pc + 1].b = offset]

(* the jumps of a list, first to last *)
RECURSIVE JumpsOf(_, _)
JumpsOf(fs, list) ==
  IF list = NO_JUMP THEN <<>> ELSE <<list>> \o JumpsOf(fs, GetJump(fs, list))

(* luaK_concat: the list itself, and what becomes of its last jump *)
ConcatHead(l1, l2) == IF l1 = NO_JUMP THEN l2 ELSE l1
Concat(fs, l1, l2) ==
  IF l1 = NO_JUMP \/ l2 = NO_JUMP THEN fs
  ELSE FixJump(fs, Last(JumpsOf(fs, l1)), l2)

(* the instruction that decides the jump at pc: the test before it, if any *)
JumpControl(fs, pc) ==
  IF pc >= 1 /\ At(fs, pc - 1).op \in TestOps THEN pc - 1 ELSE pc

IsTestSet(fs, jump) == At(fs, JumpControl(fs, jump)).op = "TESTSET"

(* patchtestreg: a TESTSET gets its register, or becomes a TEST when the   *)
(* value is not wanted or is there already                                 *)
PatchTestReg(fs, node, reg) ==
  LET pc == JumpControl(fs, node)
      i == At(fs, pc)
  IN  IF i.op # "TESTSET" THEN fs
      ELSE IF reg # NO_REG /\ reg # i.b
      THEN SetInstr(fs, pc, [i EXCEPT !.a = reg])
      ELSE SetInstr(fs, pc, Instr("TEST", i.b, 0, 0, i.k))

RemoveValues(fs, list) ==
  FoldLeft(LAMBDA st, node : PatchTestReg(st, node, NO_REG), fs, JumpsOf(fs, list))

(* jumps that carry a value go to vtarget, the others to dtarget *)
PatchListAux(fs, list, vtarget, reg, dtarget) ==
  FoldLeft(LAMBDA st, node :
             FixJump(PatchTestReg(st, node, reg), node,
                     IF IsTestSet(st, node) THEN vtarget ELSE dtarget),
           fs, JumpsOf(fs, list))

PatchList(fs, list, target) ==
  PatchListAux(Claim(fs, target <= PC(fs)), list, target, NO_REG, target)
PatchToHere(fs, list) == PatchList(GetLabel(fs), list, PC(fs))

NeedValue(fs, list) ==
  \E i \in DOMAIN JumpsOf(fs, list) : ~IsTestSet(fs, JumpsOf(fs, list)[i])

-----------------------------------------------------------------------------
(* Constants.  The scanner's table remembers the index of each constant    *)
(* but is shared by all the functions of a chunk, so that an index found   *)
(* there is checked against this function's constants.                     *)

CachedK(fs, key) ==
  {i \in {fs.kcache[x] : x \in {key} \cap DOMAIN fs.kcache} :
     i < Len(fs.k) /\ fs.k[i + 1] = key}

AddedK(fs, v) ==
  IF CachedK(fs, v) # {} THEN fs
  ELSE [fs EXCEPT !.k = Append(@, v), !.kcache = (v :> Len(fs.k)) @@ @]
IndexK(fs, v) ==
  IF CachedK(fs, v) # {} THEN CHOOSE i \in CachedK(fs, v) : TRUE ELSE Len(fs.k)

(* luaK_exp2const and its inverse *)
ConstantKinds == {"VNIL", "VTRUE", "VFALSE", "VKINT", "VKSTR"}
ToConst(e) ==
  CASE e.k = "VNIL"   -> NilV
    [] e.k = "VTRUE"  -> BoolV(TRUE)
    [] e.k = "VFALSE" -> BoolV(FALSE)
    [] e.k = "VKINT"  -> IntV(e.info)
    [] e.k = "VKSTR"  -> StrV(e.info)
Const2Exp(v, e) ==
  CASE v[1] = "nil"  -> As(e, "VNIL", 0)
    [] v[1] = "bool" -> As(e, IF v[2] THEN "VTRUE" ELSE "VFALSE", 0)
    [] v[1] = "int"  -> As(e, "VKINT", v[2])
    [] v[1] = "str"  -> As(e, "VKSTR", v[2])

IsConstant(fs, e) == ~HasJumps(e) /\ (e.k \in ConstantKinds \/ e.k = "VCONST")
ConstValue(fs, e) == IF e.k = "VCONST" THEN fs.actvar[e.info + 1].k ELSE ToConst(e)

Str2K(fs, e) == R(AddedK(fs, StrV(e.info)), As(e, "VK", IndexK(fs, StrV(e.info))))

-----------------------------------------------------------------------------
(* Bringing an expression into a register.                                 *)

SetReturns(fs, e, nresults) ==
  LET call == [At(fs, e.info) EXCEPT !.c = nresults + 1]
  IN  IF e.k = "VCALL" THEN SetInstr(fs, e.info, call)
      ELSE ReserveRegs(SetInstr(Claim(fs, e.k = "VVARARG"), e.info,
                                [call EXCEPT !.a = fs.freereg]), 1)

SetOneRet(fs, e) ==
  CASE e.k = "VCALL"   -> R(Claim(fs, At(fs, e.info).c = 2),
                            As(e, "VNONRELOC", At(fs, e.info).a))
    [] e.k = "VVARARG" -> R(SetInstr(fs, e.info, [At(fs, e.info) EXCEPT !.c = 2]),
                            As(e, "VRELOC", e.info))
    [] OTHER -> R(fs, e)

(* an instruction whose result register is still open *)
Reloc(fs, e, op, b, c) == R(CodeABC(fs, op, 0, b, c), As(e, "VRELOC", PC(fs)))

DischargeVars(fs, e) ==
  CASE e.k = "VCONST"    -> R(fs, Const2Exp(fs.actvar[e.info + 1].k, e))
    [] e.k = "VLOCAL"    -> R(fs, As(e, "VNONRELOC", e.info))
    [] e.k = "VUPVAL"    -> Reloc(fs, e, "GETUPVAL", e.info, 0)
    [] e.k = "VINDEXUP"  -> Reloc(fs, e, "GETTABUP", e.info, e.aux)
    [] e.k = "VINDEXI"   -> Reloc(FreeReg(fs, e.info), e, "GETI", e.info, e.aux)
    [] e.k = "VINDEXSTR" -> Reloc(FreeReg(fs, e.info), e, "GETFIELD", e.info, e.aux)
    [] e.k = "VINDEXED"  -> Reloc(FreeRegs(fs, e.info, e.aux), e,
                                  "GETTABLE", e.info, e.aux)
    [] OTHER             -> SetOneRet(fs, e)

LoadInt(fs, reg, i) ==
  IF FitsBx(i) THEN Code(fs, Instr("LOADI", reg, i, 0, FALSE))
  ELSE CodeK(AddedK(fs, IntV(i)), reg, IndexK(fs, IntV(i)))

(* the value of a discharged expression put into reg *)
PutInReg(fs, e, reg) ==
  CASE e.k = "VNIL"      -> LoadNil(fs, reg, 1)
    [] e.k = "VFALSE"    -> CodeABC(fs, "LOADFALSE", reg, 0, 0)
    [] e.k = "VTRUE"     -> CodeABC(fs, "LOADTRUE", reg, 0, 0)
    [] e.k = "VKSTR"     -> CodeK(Str2K(fs, e).fs, reg, Str2K(fs, e).e.info)
    [] e.k = "VK"        -> CodeK(fs, reg, e.info)
    [] e.k = "VKINT"     -> LoadInt(fs, reg, e.info)
    [] e.k = "VRELOC"    -> SetInstr(fs, e.info, [At(fs, e.info) EXCEPT !.a = reg])
    [] e.k = "VNONRELOC" -> IF reg = e.info THEN fs
                            ELSE CodeABC(fs, "MOVE", reg, e.info, 0)

Discharge2Reg(fs, e, reg) ==
  LET d == DischargeVars(fs, e)
  IN  IF d.e.k \in {"VJMP", "VVOID"} THEN R(Claim(d.fs, d.e.k = "VJMP"), d.e)
      ELSE R(PutInReg(d.fs, d.e, reg), As(d.e, "VNONRELOC", reg))

Discharge2AnyReg(fs, e) ==
  IF e.k = "VNONRELOC" THEN R(fs, e)
  ELSE LET res == ReserveRegs(fs, 1) IN Discharge2Reg(res, e, res.freereg - 1)

CodeLoadBool(fs, reg, op) == CodeABC(GetLabel(fs), op, reg, 0, 0)

(* the end of an expression with jumps: those that do not carry their      *)
(* value go to one of two instructions that load it                        *)
JoinJumps(fs, e, reg) ==
  LET needed == NeedValue(fs, e.t) \/ NeedValue(fs, e.f)
      fj == IF e.k = "VJMP" THEN NO_JUMP ELSE PC(fs)
      around == IF e.k = "VJMP" THEN fs ELSE Jump(fs)
      loads == PatchToHere(CodeLoadBool(CodeLoadBool(around, reg, "LFALSESKIP"),
                                        reg, "LOADTRUE"), fj)
      p_f == IF needed THEN PC(around) ELSE NO_JUMP
      p_t == IF needed THEN PC(around) + 1 ELSE NO_JUMP
      done == GetLabel(IF needed THEN loads ELSE fs)
      final == PC(done)
  IN  PatchListAux(PatchListAux(done, e.f, final, reg, p_f), e.t, final, reg, p_t)

Exp2Reg(fs, e, reg) ==
  LET d == Discharge2Reg(fs, e, reg)
      isTest == d.e.k = "VJMP"
      fs1 == IF isTest THEN Concat(d.fs, d.e.t, d.e.info) ELSE d.fs
      e1 == IF isTest THEN [d.e EXCEPT !.t = ConcatHead(@, d.e.info)] ELSE d.e
  IN  R(IF HasJumps(e1) THEN JoinJumps(fs1, e1, reg) ELSE fs1,
        Exp("VNONRELOC", reg))

Exp2NextReg(fs, e) ==
  LET d == DischargeVars(fs, e)
      res == ReserveRegs(FreeExp(d.fs, d.e), 1)
  IN  Exp2Reg(res, d.e, res.freereg - 1)

(* a local variable with jumps cannot take their values in its register *)
KeepsRegister(fs, e) == HasJumps(e) /\ e.info >= NVarStack(fs)

Exp2AnyReg(fs, e) ==
  LET d == DischargeVars(fs, e)
  IN  CASE d.e.k = "VNONRELOC" /\ ~HasJumps(d.e)           -> d
        [] d.e.k = "VNONRELOC" /\ KeepsRegister(d.fs, d.e) ->
             Exp2Reg(d.fs, d.e, d.e.info)
        [] OTHER -> Exp2NextReg(d.fs, d.e)

Exp2AnyRegUp(fs, e) ==
  IF e.k = "VUPVAL" /\ ~HasJumps(e) THEN R(fs, e) ELSE Exp2AnyReg(fs, e)

Exp2Val(fs, e) == IF HasJumps(e) THEN Exp2AnyReg(fs, e) ELSE DischargeVars(fs, e)

(* luaK_exp2K: a constant within reach of an operand; 'ok' if it was one   *)
Exp2K(fs, e) ==
  LET isK == ~HasJumps(e) /\ e.k \in ConstantKinds \cup {"VK"}
      added == IF e.k = "VK" THEN fs ELSE AddedK(fs, ToConst(e))
      info == IF e.k = "VK" THEN e.info ELSE IndexK(fs, ToConst(e))
  IN  IF ~isK THEN [fs |-> fs, e |-> e, ok |-> FALSE]
      ELSE IF info <= MAXINDEXRK
      THEN [fs |-> added, e |-> As(e, "VK", info), ok |-> TRUE]
      ELSE [fs |-> added, e |-> e, ok |-> FALSE]

Exp2RK(fs, e) ==
  LET asK == Exp2K(fs, e)
      asReg == Exp2AnyReg(asK.fs, asK.e)
  IN  IF asK.ok THEN asK
      ELSE [fs |-> asReg.fs, e |-> asReg.e, ok |-> FALSE]

CodeABRK(fs, op, a, b, ec) ==
  LET rk == Exp2RK(fs, ec)
  IN  R(CodeABCk(rk.fs, op, a, b, rk.e.info, rk.ok), rk.e)

StoreVar(fs, var, ex) ==
  LET setter == CASE var.k = "VINDEXUP"  -> "SETTABUP"
                  [] var.k = "VINDEXI"   -> "SETI"
                  [] var.k = "VINDEXSTR" -> "SETFIELD"
                  [] var.k = "VINDEXED"  -> "SETTABLE"
      value == Exp2AnyReg(fs, ex)
      indexed == CodeABRK(fs, setter, var.info, var.aux, ex)
  IN  CASE var.k = "VLOCAL" -> Exp2Reg(FreeExp(fs, ex), ex, var.info).fs
        [] var.k = "VUPVAL" -> FreeExp(CodeABC(value.fs, "SETUPVAL", value.e.info,
                                               var.info, 0), value.e)
        [] OTHER -> FreeExp(indexed.fs, indexed.e)

Self(fs, e, key) ==
  LET d == Exp2AnyReg(fs, e)
      freed == FreeExp(d.fs, d.e)
      base == freed.freereg
      c == CodeABRK(ReserveRegs(freed, 2), "SELF", base, d.e.info, key)
  IN  R(FreeExp(c.fs, c.e), As(d.e, "VNONRELOC", base))
-----------------------------------------------------------------------------
(* Conditions.  An expression that is a jump (VJMP) has not produced its   *)
(* value yet: e.t and e.f list the jumps taken when it is true or false.   *)

NegateCondition(fs, e) ==
  LET pc == JumpControl(fs, e.info)
  IN  [Claim(fs, At(fs, pc).op \in TestOps \ {"TESTSET", "TEST"})
         EXCEPT !.code[pc + 1].k = ~@]

(* a jump when the expression is 'cond'; it is coded at the end of fs.code *)
JumpOnCond(fs, e, cond) ==
  LET d == Discharge2AnyReg(fs, e)
      isNot == e.k = "VRELOC" /\ At(fs, e.info).op = "NOT"
  IN  IF isNot THEN CondJump(RemoveLast(fs), "TEST", At(fs, e.info).b, 0, 0, ~cond)
      ELSE CondJump(FreeExp(d.fs, d.e), "TESTSET", NO_REG, d.e.info, 0, cond)

GoIfTrue(fs, e) ==
  LET d == DischargeVars(fs, e)
      always == d.e.k \in {"VK", "VKINT", "VKSTR", "VTRUE"}
      fs1 == CASE d.e.k = "VJMP" -> NegateCondition(d.fs, d.e)
               [] always         -> d.fs
               [] OTHER          -> JumpOnCond(d.fs, d.e, FALSE)
      pc == CASE d.e.k = "VJMP" -> d.e.info
              [] always         -> NO_JUMP
              [] OTHER          -> PC(fs1) - 1
  IN  R(PatchToHere(Concat(fs1, d.e.f, pc), d.e.t),
        [d.e EXCEPT !.f = ConcatHead(@, pc), !.t = NO_JUMP])

GoIfFalse(fs, e) ==
  LET d == DischargeVars(fs, e)
      never == d.e.k \in {"VNIL", "VFALSE"}
      fs1 == IF never \/ d.e.k = "VJMP" THEN d.fs ELSE JumpOnCond(d.fs, d.e, TRUE)
      pc == CASE d.e.k = "VJMP" -> d.e.info
              [] never          -> NO_JUMP
              [] OTHER          -> PC(fs1) - 1
  IN  R(PatchToHere(Concat(fs1, d.e.t, pc), d.e.f),
        [d.e EXCEPT !.t = ConcatHead(@, pc), !.f = NO_JUMP])

(* the values carried by the jumps of the operand are useless, negated *)
UselessLists(e) == <<e.f, e.t>>

CodeNot(fs, e) ==
  LET d == Discharge2AnyReg(fs, e)
      r == CASE e.k \in {"VNIL", "VFALSE"} -> R(fs, As(e, "VTRUE", 0))
             [] e.k \in {"VK", "VKINT", "VKSTR", "VTRUE"} -> R(fs, As(e, "VFALSE", 0))
             [] e.k = "VJMP" -> R(NegateCondition(fs, e), e)
             [] e.k \in {"VRELOC", "VNONRELOC"} ->
                  Reloc(FreeExp(d.fs, d.e), d.e, "NOT", d.e.info, 0)
      swapped == [r.e EXCEPT !.t = r.e.f, !.f = r.e.t]
  IN  R(FoldLeft(RemoveValues, r.fs, UselessLists(swapped)), swapped)

-----------------------------------------------------------------------------
(* Indexing.                                                               *)

IsKstr(fs, e) ==
  /\ e.k = "VK" /\ ~HasJumps(e) /\ e.info <= MAXARG_B
  /\ fs.k[e.info + 1][1] = "str"
IsCint(e) == IsNumeral(e) /\ 0 <= e.info /\ e.info <= MAXARG_C
IsSCnumber(e) == IsNumeral(e) /\ FitsC(e.info)

Indexed(fs, t, key) ==
  LET ks == IF key.k = "VKSTR" THEN Str2K(fs, key) ELSE R(fs, key)
      fs1 == Claim(ks.fs, ~HasJumps(t) /\ t.k \in {"VLOCAL", "VNONRELOC", "VUPVAL"})
      tab == IF t.k = "VUPVAL" /\ ~IsKstr(fs1, ks.e) THEN Exp2AnyReg(fs1, t)
             ELSE R(fs1, t)
      By(k, idx) == [As(tab.e, k, tab.e.info) EXCEPT !.aux = idx]
      inReg == Exp2AnyReg(tab.fs, ks.e)
  IN  CASE tab.e.k = "VUPVAL"     -> R(tab.fs, By("VINDEXUP", ks.e.info))
        [] tab.e.k # "VUPVAL" /\ IsKstr(tab.fs, ks.e) ->
             R(tab.fs, By("VINDEXSTR", ks.e.info))
        [] tab.e.k # "VUPVAL" /\ IsCint(ks.e) -> R(tab.fs, By("VINDEXI", ks.e.info))
        [] OTHER -> R(inReg.fs, By("VINDEXED", inReg.e.info))

-----------------------------------------------------------------------------
(* Operators.  A binary operation is an instruction without a result       *)
(* register followed by the call of the metamethod for the same operands.  *)

ArithOps == {"ADD", "SUB", "MUL", "MOD", "IDIV"}
BitOps == {"BAND", "BOR", "BXOR"}
FoldOps == ArithOps \cup BitOps \cup {"SHL", "SHR"}

(* constfolding: both operands numerals, and the operation cannot fail *)
CanFold(op, e1, e2) ==
  /\ IsNumeral(e1) /\ IsNumeral(e2)
  /\ op \in {"MOD", "IDIV"} => e2.info # 0
Fold(op, e1, e2) == As(e1, "VKINT", IntArith(op, e1.info, e2.info))

UnExpVal(fs, op, e) ==
  LET d == Exp2AnyReg(fs, e)
  IN  Reloc(FreeExp(d.fs, d.e), d.e, op, d.e.info, 0)

(* 'v2' is a register, a constant's index or an immediate operand; 'flip'  *)
(* says that the operands were exchanged                                   *)
FinishBinExpVal(fs, e1, e2, op, v2, flip, mmop, event) ==
  LET d == Exp2AnyReg(fs, e1)
      coded == FreeExps(CodeABCk(d.fs, op, 0, d.e.info, v2, FALSE), d.e, e2)
  IN  R(Code(coded, Instr(mmop, d.e.info, v2, event, flip)),
        As(d.e, "VRELOC", PC(d.fs)))

BinExpVal(fs, op, e1, e2) ==
  LET d == Exp2AnyReg(fs, e2)
      known == e1.k \in ConstantKinds \cup {"VK", "VNONRELOC", "VRELOC"}
  IN  FinishBinExpVal(Claim(d.fs, known), e1, d.e, op, d.e.info, FALSE, "MMBIN", op)

BinI(fs, op, e1, e2, flip, event) ==
  FinishBinExpVal(fs, e1, e2, op, SC(e2.info), flip, "MMBINI", event)

BinK(fs, op, e1, e2, flip) ==
  FinishBinExpVal(fs, e1, e2, op \o "K", e2.info, flip, "MMBINK", op)

BinNoK(fs, op, e1, e2, flip) ==
  IF flip THEN BinExpVal(fs, op, e2, e1) ELSE BinExpVal(fs, op, e1, e2)

(* x - I is x + -I and x << I is x >> -I, but the metamethod gets I itself *)
NegatedFits(e2) == IsNumeral(e2) /\ FitsC(e2.info) /\ FitsC(-e2.info)
MetamethodArg(i2) == SC(i2)
BinExpNeg(fs, e1, e2, op, event) ==
  LET r == FinishBinExpVal(fs, e1, e2, op, SC(-e2.info), FALSE, "MMBINI", event)
  IN  R([r.fs EXCEPT !.code[PC(r.fs)].b = MetamethodArg(e2.info)], r.e)

CodeArith(fs, op, e1, e2, flip) ==
  LET k2 == Exp2K(fs, e2)
  IN  IF IsNumeral(e2) /\ k2.ok THEN BinK(k2.fs, op, e1, k2.e, flip)
      ELSE BinNoK(IF IsNumeral(e2) THEN k2.fs ELSE fs, op, e1, e2, flip)

CodeCommutative(fs, op, e1, e2) ==
  LET flip == IsNumeral(e1)
      x == IF flip THEN e2 ELSE e1
      y == IF flip THEN e1 ELSE e2
  IN  IF op = "ADD" /\ IsSCnumber(y) THEN BinI(fs, "ADDI", x, y, flip, op)
      ELSE CodeArith(fs, op, x, y, flip)

CodeBitwise(fs, op, e1, e2) ==
  LET flip == e1.k = "VKINT"
      x == IF flip THEN e2 ELSE e1
      y == IF flip THEN e1 ELSE e2
      k2 == Exp2K(fs, y)
  IN  IF y.k = "VKINT" /\ k2.ok THEN BinK(k2.fs, op, x, k2.e, flip)
      ELSE BinNoK(IF y.k = "VKINT" THEN k2.fs ELSE fs, op, x, y, flip)

CodeShift(fs, op, e1, e2) ==
  CASE op = "SHL" /\ IsSCnumber(e1) -> BinI(fs, "SHLI", e2, e1, TRUE, op)
    [] op = "SHL" /\ ~IsSCnumber(e1) /\ NegatedFits(e2) ->
         BinExpNeg(fs, e1, e2, "SHRI", op)
    [] op = "SHR" /\ IsSCnumber(e2) -> BinI(fs, "SHRI", e1, e2, FALSE, op)
    [] OTHER -> BinExpVal(fs, op, e1, e2)

(* codeorder: A < I, or I < A as A > I, or two registers *)
CodeOrder(fs, op, e1, e2) ==
  LET d1 == Exp2AnyReg(fs, e1)
      d2 == Exp2AnyReg(fs, e2)
      both == Exp2AnyReg(d1.fs, e2)
      Test(st, x, y, o, a, b) ==
        LET done == CondJump(FreeExps(st, x, y), o, a, b, 0, TRUE)
        IN  R(done, As(x, "VJMP", PC(done) - 1))
  IN  CASE IsSCnumber(e2) -> Test(d1.fs, d1.e, e2, op \o "I", d1.e.info, SC(e2.info))
        [] IsSCnumber(e1) /\ ~IsSCnumber(e2) ->
             Test(d2.fs, e1, d2.e, IF op = "LT" THEN "GTI" ELSE "GEI",
                  d2.e.info, SC(e1.info))
        [] OTHER -> Test(both.fs, d1.e, both.e, op, d1.e.info, both.e.info)

CodeEq(fs, op, e1, e2) ==
  LET swap == e1.k # "VNONRELOC"
      x == IF swap THEN e2 ELSE e1
      y == IF swap THEN e1 ELSE e2
      d == Exp2AnyReg(Claim(fs, swap => e1.k \in {"VK", "VKINT"}), x)
      rk == Exp2RK(d.fs, y)
      o == IF rk.ok THEN "EQK" ELSE "EQ"
      Test(st, z, opcode, b) ==
        LET done == CondJump(FreeExps(st, d.e, z), opcode, d.e.info, b, 0, op = "EQ")
        IN  R(done, As(d.e, "VJMP", PC(done) - 1))
  IN  IF IsSCnumber(y) THEN Test(d.fs, y, "EQI", SC(y.info))
      ELSE Test(rk.fs, rk.e, o, rk.e.info)

(* concatenation is right associative: 'e2' may be one already, and then   *)
(* one instruction concatenates its operands and e1                        *)
CodeConcat(fs, e1, e2) ==
  LET prev == Previous(fs)
      freed == FreeExp(fs, e2)
      longer == [prev EXCEPT !.a = e1.info, !.b = prev.b + 1]
  IN  IF prev.op = "CONCAT"
      THEN SetInstr(Claim(freed, e1.info + 1 = prev.a), PC(fs) - 1, longer)
      ELSE FreeExp(CodeABC(fs, "CONCAT", e1.info, 2, 0), e2)

Prefix(fs, op, e) ==
  LET d == DischargeVars(fs, e)
  IN  CASE op = "NOT" -> CodeNot(d.fs, d.e)
        [] op \in {"UNM", "BNOT"} /\ IsNumeral(d.e) ->
             R(d.fs, As(d.e, "VKINT", IntArith(op, d.e.info, 0)))
        [] OTHER -> UnExpVal(d.fs, op, d.e)

(* what must be done with the first operand before the second is read *)
Infix(fs, op, e) ==
  LET d == DischargeVars(fs, e)
      rk == Exp2RK(d.fs, d.e)
  IN  CASE op = "AND"    -> GoIfTrue(d.fs, d.e)
        [] op = "OR"     -> GoIfFalse(d.fs, d.e)
        [] op = "CONCAT" -> Exp2NextReg(d.fs, d.e)
        [] op \in FoldOps -> IF IsNumeral(d.e) THEN d ELSE Exp2AnyReg(d.fs, d.e)
        [] op \in {"EQ", "NE"} -> IF IsNumeral(d.e) THEN d ELSE R(rk.fs, rk.e)
        [] op \in {"LT", "LE", "GT", "GE"} ->
             IF IsSCnumber(d.e) THEN d ELSE Exp2AnyReg(d.fs, d.e)

Posfix(fs, op, e1, e2) ==
  LET d == DischargeVars(fs, e2)
      x == d.e
      next == Exp2NextReg(d.fs, x)
  IN  CASE op \in FoldOps /\ CanFold(op, e1, x) -> R(d.fs, Fold(op, e1, x))
        [] op = "AND" -> R(Concat(Claim(d.fs, e1.t = NO_JUMP), x.f, e1.f),
                           [x EXCEPT !.f = ConcatHead(@, e1.f)])
        [] op = "OR"  -> R(Concat(Claim(d.fs, e1.f = NO_JUMP), x.t, e1.t),
                           [x EXCEPT !.t = ConcatHead(@, e1.t)])
        [] op = "CONCAT" -> R(CodeConcat(next.fs, e1, next.e), e1)
        [] op \in {"ADD", "MUL"} /\ ~CanFold(op, e1, x) ->
             CodeCommutative(d.fs, op, e1, x)
        [] op = "SUB" /\ ~CanFold(op, e1, x) /\ NegatedFits(x) ->
             BinExpNeg(d.fs, e1, x, "ADDI", op)
        [] op \in {"SUB", "IDIV", "MOD"} /\ ~CanFold(op, e1, x)
             /\ ~(op = "SUB" /\ NegatedFits(x)) -> CodeArith(d.fs, op, e1, x, FALSE)
        [] op \in BitOps /\ ~CanFold(op, e1, x) -> CodeBitwise(d.fs, op, e1, x)
        [] op \in {"SHL", "SHR"} /\ ~CanFold(op, e1, x) -> CodeShift(d.fs, op, e1, x)
        [] op \in {"EQ", "NE"} -> CodeEq(d.fs, op, e1, x)
        [] op \in {"LT", "LE"} -> CodeOrder(d.fs, op, e1, x)
        [] op \in {"GT", "GE"} ->
             CodeOrder(d.fs, IF op = "GT" THEN "LT" ELSE "LE", x, e1)

-----------------------------------------------------------------------------
(* Tables and the end of a function.                                       *)

SetTableSize(fs, pc, ra, asize, hsize) ==
  LET rb == IF hsize = 0 THEN 0 ELSE CeilLog2(hsize) + 1
      extra == asize \div (MAXARG_C + 1)
  IN  SetInstr(SetInstr(fs, pc, Instr("NEWTABLE", ra, rb, asize % (MAXARG_C + 1),
                                      extra > 0)),
               pc + 1, Instr("EXTRAARG", 0, extra, 0, FALSE))

SetList(fs, base, nelems, tostore) ==
  LET n == IF tostore = LUA_MULTRET THEN 0 ELSE tostore
      extra == nelems \div (MAXARG_C + 1)
      coded == IF nelems <= MAXARG_C THEN CodeABC(fs, "SETLIST", base, n, nelems)
               ELSE ExtraArg(CodeABCk(fs, "SETLIST", base, n,
                                      nelems % (MAXARG_C + 1), TRUE), extra)
  IN  [Claim(coded, tostore # 0) EXCEPT !.freereg = base + 1]

(* the end of a chain of jumps; at most 100, as it may be a cycle *)
RECURSIVE FinalTarget(_, _, _)
FinalTarget(fs, i, count) ==
  IF count = 100 \/ At(fs, i).op # "JMP" THEN i
  ELSE FinalTarget(fs, i + At(fs, i).b + 1, count + 1)

(* instructions that use or set the top of the stack come in pairs *)
SetsTop(i) == (i.op \in {"CALL", "VARARG"} /\ i.c = 0)
              \/ i.op = "TAILCALL"
UsesTop(i) == i.op \in {"CALL", "TAILCALL", "RETURN", "SETLIST"} /\ i.b = 0
TopsPaired(fs) ==
  \A pc \in 1..PC(fs) - 1 : SetsTop(At(fs, pc - 1)) = UsesTop(At(fs, pc))

FinishReturn(fs, i) ==
  LET extra == fs.needclose \/ fs.vararg
      needed == [i EXCEPT !.op = "RETURN"]
      full == IF i.op = "TAILCALL" THEN i ELSE needed
  IN  IF i.op \in {"RETURN0", "RETURN1"} /\ ~extra THEN i
      ELSE [full EXCEPT !.k = @ \/ fs.needclose,
                        !.c = IF fs.vararg THEN fs.numparams + 1 ELSE @]

FinishInstr(fs, i, pc) ==
  CASE i.op \in {"RETURN0", "RETURN1", "RETURN", "TAILCALL"} -> FinishReturn(fs, i)
    [] i.op = "JMP" -> [i EXCEPT !.b = FinalTarget(fs, pc, 0) - (pc + 1)]
    [] OTHER -> i

Finish(fs) ==
  [Claim(fs, TopsPaired(fs))
     EXCEPT !.code = [i \in DOMAIN fs.code |-> FinishInstr(fs, fs.code[i], i - 1)]]
===============================================================================
