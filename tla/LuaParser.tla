------------------------------ MODULE LuaParser -------------------------------
(***************************************************************************)
(* The parser of Lua 5.4.6 (tar/lua-5.4.6/src/lparser.c): it translates a  *)
(* program to bytecode in one pass, with the code generator of LuaCode.    *)
(*                                                                         *)
(* A program is its syntax tree: an expression is a record with field 'e', *)
(* a statement one with field 's', a block a sequence of statements.  Each *)
(* operator below does what the grammar rule of the same name does after   *)
(* it has recognized its tokens.  A FuncState is nested in 'outer', the    *)
(* FuncStates of the enclosing functions (fs->prev); actvar, gt, label and *)
(* kcache belong to the whole chunk and go from one to the other.          *)
(***************************************************************************)
EXTENDS LuaCode

CONSTANTS
  MAXVARS,           \* local variables of a function (200)
  MAXUPVAL,          \* upvalues of a function (255)
  LFIELDS_PER_FLUSH  \* list items stored by one SETLIST (50)

MultRet(e) == e.k \in {"VCALL", "VVARARG"}
IsIndexed(e) == e.k \in {"VINDEXED", "VINDEXUP", "VINDEXI", "VINDEXSTR"}
SetMultRet(fs, e) == SetReturns(fs, e, LUA_MULTRET)

-----------------------------------------------------------------------------
(* Local variables.                                                        *)

NewLocalVar(fs, name, kind) ==
  LET var == [name |-> name, kind |-> kind, ridx |-> 0, k |-> NilV]
      limited == IF fs.nvar + 1 - fs.firstlocal > MAXVARS
                 THEN Error(fs, "too many local variables") ELSE fs
  IN  [limited EXCEPT !.nvar = @ + 1,
                      !.actvar = Append(SubSeq(@, 1, fs.nvar), var)]
NewLocalVars(fs, names) ==
  FoldLeft(LAMBDA st, n : NewLocalVar(st, n, "REG"), fs, names)

(* the next n declared variables become active, in consecutive registers *)
AdjustLocalVars(fs, n) ==
  LET first == fs.firstlocal + fs.nactvar + 1
  IN  [fs EXCEPT !.nactvar = @ + n,
         !.actvar = [i \in DOMAIN @ |->
           IF i \in first..first + n - 1
           THEN [fs.actvar[i] EXCEPT !.ridx = NVarStack(fs) + (i - first)]
           ELSE fs.actvar[i]]]

RemoveVars(fs, tolevel) ==
  [fs EXCEPT !.nvar = @ - (fs.nactvar - tolevel), !.nactvar = tolevel]

(* markupval: the block of the variable will have to close it *)
MarkUpval(fs, level) ==
  LET b == Max({i \in DOMAIN fs.bl : fs.bl[i].nactvar <= level})
  IN  [fs EXCEPT !.bl[b].upval = TRUE, !.needclose = TRUE]

MarkToBeClosed(fs) ==
  [fs EXCEPT !.bl[Len(fs.bl)].upval = TRUE, !.bl[Len(fs.bl)].insidetbc = TRUE,
             !.needclose = TRUE]

NewUpvalue(fs, name, v) ==
  LET prev == fs.outer[1]
      kind == IF v.k = "VLOCAL" THEN LocalVar(prev, v.aux).kind
              ELSE prev.ups[v.info + 1].kind
      limited == IF Len(fs.ups) + 1 > MAXUPVAL THEN Error(fs, "too many upvalues")
                 ELSE fs
  IN  [limited EXCEPT !.ups = Append(@, [name |-> name, instack |-> v.k = "VLOCAL",
                                         idx |-> v.info, kind |-> kind])]

RECURSIVE SingleVarAux(_, _, _)
SingleVarAux(fs, name, base) ==
  LET locals == {i \in 0..fs.nactvar - 1 : LocalVar(fs, i).name = name}
      vidx == Max(locals)
      known == {i \in DOMAIN fs.ups : fs.ups[i].name = name}
      up == SingleVarAux(fs.outer[1], name, FALSE)
      above == [fs EXCEPT !.outer = <<up.fs>>]
  IN  CASE locals # {} /\ LocalVar(fs, vidx).kind = "CTC" ->
             R(fs, Exp("VCONST", fs.firstlocal + vidx))
        [] locals # {} /\ LocalVar(fs, vidx).kind # "CTC" ->
             R(IF base THEN fs ELSE MarkUpval(fs, vidx),
               [Exp("VLOCAL", LocalVar(fs, vidx).ridx) EXCEPT !.aux = vidx])
        [] locals = {} /\ known # {} -> R(fs, Exp("VUPVAL", Min(known) - 1))
        [] locals = {} /\ known = {} /\ fs.outer = <<>> -> R(fs, Exp("VVOID", 0))
        [] OTHER ->
             IF up.e.k \in {"VLOCAL", "VUPVAL"}
             THEN R(NewUpvalue(above, name, up.e), Exp("VUPVAL", Len(fs.ups)))
             ELSE R(above, up.e)

SingleVar(fs, name) ==
  LET v == SingleVarAux(fs, name, TRUE)
      env == SingleVarAux(v.fs, "_ENV", TRUE)
      up == Exp2AnyRegUp(env.fs, env.e)
  IN  IF v.e.k # "VVOID" THEN v ELSE Indexed(up.fs, up.e, Exp("VKSTR", name))

CheckReadonly(fs, e) ==
  LET readonly == CASE e.k = "VCONST" -> TRUE
                    [] e.k = "VLOCAL" -> LocalVar(fs, e.aux).kind # "REG"
                    [] e.k = "VUPVAL" -> fs.ups[e.info + 1].kind # "REG"
                    [] OTHER -> FALSE
  IN  IF readonly THEN Error(fs, "attempt to assign to const variable") ELSE fs

(* nexps values, the last one still in 'e', for nvars variables *)
AdjustAssign(fs, nvars, nexps, e) ==
  LET needed == nvars - nexps
      closed == IF e.k = "VVOID" THEN fs ELSE Exp2NextReg(fs, e).fs
      fs1 == CASE MultRet(e) -> SetReturns(fs, e, Max({needed + 1, 0}))
               [] ~MultRet(e) /\ needed > 0 -> LoadNil(closed, closed.freereg, needed)
               [] OTHER -> closed
  IN  IF needed > 0 THEN ReserveRegs(fs1, needed)
      ELSE [fs1 EXCEPT !.freereg = @ + needed]

-----------------------------------------------------------------------------
(* Blocks, labels and gotos.  A goto whose label is not known yet stays in *)
(* fs.gt, with the level of the variables that its label may be at.        *)

EnterBlock(fs, isloop) ==
  [Claim(fs, fs.freereg = NVarStack(fs)) EXCEPT
     !.bl = Append(@, [isloop |-> isloop, nactvar |-> fs.nactvar, upval |-> FALSE,
                       insidetbc |-> @ # <<>> /\ Last(@).insidetbc,
                       firstlabel |-> Len(fs.label), firstgoto |-> Len(fs.gt)])]

LabelDesc(fs, name, pc) ==
  [name |-> name, pc |-> pc, nactvar |-> fs.nactvar, close |-> FALSE]
NewGoto(fs, name, pc) == [fs EXCEPT !.gt = Append(@, LabelDesc(fs, name, pc))]

SolveGoto(fs, gt, label) ==
  PatchList(IF gt.nactvar < label.nactvar
            THEN Error(fs, "jumps into the scope of a local") ELSE fs,
            gt.pc, label.pc)

(* the gotos of the current block that are waiting for a label *)
Pending(fs) == SubSeq(fs.gt, Last(fs.bl).firstgoto + 1, Len(fs.gt))

(* createlabel; 'closed' says that it has coded a CLOSE *)
CreateLabel(fs, name, last) ==
  LET here == GetLabel(fs)
      desc == LabelDesc(fs, name, PC(fs))
      label == IF last THEN [desc EXCEPT !.nactvar = Last(fs.bl).nactvar] ELSE desc
      mine == SelectSeq(Pending(fs), LAMBDA g : g.name = name)
      others == SelectSeq(Pending(fs), LAMBDA g : g.name # name)
      solved == [FoldLeft(LAMBDA st, g : SolveGoto(st, g, label), here, mine)
                   EXCEPT !.label = Append(@, label),
                          !.gt = SubSeq(@, 1, Last(fs.bl).firstgoto) \o others]
      needsclose == \E i \in DOMAIN mine : mine[i].close
  IN  [fs |-> IF needsclose THEN CodeABC(solved, "CLOSE", NVarStack(solved), 0, 0)
              ELSE solved,
       closed |-> needsclose]

(* a goto that leaves the scope of a variable may have to close it *)
MovedOut_NoClose(fs, bl, g) == [g EXCEPT !.nactvar = bl.nactvar]
MovedOut(fs, bl, g) ==
  [g EXCEPT !.nactvar = bl.nactvar,
            !.close = @ \/ /\ RegLevel(fs, g.nactvar) > RegLevel(fs, bl.nactvar)
                           /\ bl.upval]

MoveGotosOut(fs, bl) ==
  [fs EXCEPT !.gt = [i \in DOMAIN @ |->
     IF i > bl.firstgoto THEN MovedOut(fs, bl, fs.gt[i]) ELSE fs.gt[i]]]

LeaveBlock(fs) ==
  LET bl == Last(fs.bl)
      nested == Len(fs.bl) > 1
      stklevel == RegLevel(fs, bl.nactvar)
      removed == RemoveVars(fs, bl.nactvar)
      lab == IF bl.isloop THEN CreateLabel(removed, "break", FALSE)
             ELSE [fs |-> removed, closed |-> FALSE]
      closed == IF ~lab.closed /\ nested /\ bl.upval
                THEN CodeABC(lab.fs, "CLOSE", stklevel, 0, 0) ELSE lab.fs
      left == [closed EXCEPT !.freereg = stklevel, !.bl = Front(@),
                             !.label = SubSeq(@, 1, bl.firstlabel)]
  IN  CASE nested -> MoveGotosOut(left, bl)
        [] ~nested /\ bl.firstgoto < Len(left.gt) -> Error(left, "no visible label")
        [] OTHER -> left

-----------------------------------------------------------------------------
(* Functions.                                                              *)

OpenFunc(outer) ==
  LET shared == IF outer = <<>>
                THEN [actvar |-> <<>>, nvar |-> 0, gt |-> <<>>, label |-> <<>>,
                      kcache |-> <<>>, err |-> "", asserts |-> TRUE]
                ELSE outer[1]
  IN  EnterBlock(
        [code |-> <<>>, lasttarget |-> 0, freereg |-> 0, k |-> <<>>, ups |-> <<>>,
         p |-> <<>>, numparams |-> 0, vararg |-> FALSE, needclose |-> FALSE,
         maxstack |-> 2, nactvar |-> 0, bl |-> <<>>, outer |-> outer,
         firstlocal |-> shared.nvar, firstlabel |-> Len(shared.label),
         actvar |-> shared.actvar, nvar |-> shared.nvar, gt |-> shared.gt,
         label |-> shared.label, kcache |-> shared.kcache,
         err |-> shared.err, asserts |-> shared.asserts], FALSE)

Proto(fs) == [code |-> fs.code, k |-> fs.k, ups |-> fs.ups, p |-> fs.p,
              numparams |-> fs.numparams, vararg |-> fs.vararg,
              maxstack |-> fs.maxstack]

(* the function is finished, its final return included *)
Closed(fs) == Finish(LeaveBlock(Ret(fs, NVarStack(fs), 0)))

(* close_func and codeclosure: the closure goes to the enclosing function *)
CloseFunc(fs) ==
  LET f == Closed(fs)
      prev == [f.outer[1] EXCEPT !.actvar = f.actvar, !.nvar = f.nvar, !.gt = f.gt,
                 !.label = f.label, !.kcache = f.kcache, !.err = f.err,
                 !.asserts = f.asserts, !.p = Append(@, Proto(f))]
      closure == CodeABx(prev, "CLOSURE", 0, Len(prev.p) - 1)
  IN  Exp2NextReg(closure, Exp("VRELOC", PC(prev)))

SetVararg(fs, nparams) ==
  CodeABC([fs EXCEPT !.vararg = TRUE], "VARARGPREP", nparams, 0, 0)

ParList(fs, params, vararg) ==
  LET declared == AdjustLocalVars(NewLocalVars(fs, params), Len(params))
      counted == [declared EXCEPT !.numparams = declared.nactvar]
  IN  ReserveRegs(IF vararg THEN SetVararg(counted, counted.numparams) ELSE counted,
                  counted.nactvar)

RECURSIVE StatList(_, _, _, _)
RECURSIVE Expr(_, _)

(* [e |-> "func", method, params, vararg, body] *)
Body(fs, f) ==
  LET self == IF f.method THEN AdjustLocalVars(NewLocalVars(OpenFunc(<<fs>>),
                                                            <<"self">>), 1)
              ELSE OpenFunc(<<fs>>)
  IN  CloseFunc(StatList(ParList(self, f.params, f.vararg), f.body, 1, FALSE))
-----------------------------------------------------------------------------
(* Expressions.                                                            *)

(* explist; nothing at all is a VVOID *)
RECURSIVE ExpList(_, _)
ExpList(fs, xs) ==
  LET init == ExpList(fs, Front(xs))
  IN  CASE xs = <<>>    -> R(fs, Exp("VVOID", 0))
        [] Len(xs) = 1  -> Expr(fs, xs[1])
        [] OTHER        -> Expr(Exp2NextReg(init.fs, init.e).fs, Last(xs))

(* funcargs, for a function fixed in register 'base' *)
FuncArgs(fs, base, args) ==
  LET a == ExpList(fs, args)
      open == args # <<>> /\ MultRet(a.e)
      ready == CASE open        -> SetMultRet(a.fs, a.e)
                 [] args = <<>> -> fs
                 [] OTHER       -> Exp2NextReg(a.fs, a.e).fs
      nparams == IF open THEN LUA_MULTRET ELSE ready.freereg - (base + 1)
  IN  R([CodeABC(ready, "CALL", base, nparams + 1, 2) EXCEPT !.freereg = base + 1],
        Exp("VCALL", PC(ready)))

Call(fs, f, args) ==
  LET g == Expr(fs, f)
      next == Exp2NextReg(g.fs, g.e)
  IN  FuncArgs(next.fs, next.e.info, args)

MethodCall(fs, x) ==
  LET obj == Expr(fs, x.o)
      self == Self(obj.fs, obj.e, Exp("VKSTR", x.name))
  IN  FuncArgs(self.fs, self.e.info, x.args)

(* t[key], t.name *)
IndexExp(fs, x) ==
  LET tab == Expr(fs, x.t)
      up == Exp2AnyRegUp(tab.fs, tab.e)
      key == Expr(up.fs, x.key)
      val == Exp2Val(key.fs, key.e)
  IN  Indexed(val.fs, up.e, val.e)

(* closelistfield: cc is the state of a constructor, with cc.fs *)
CloseListField(cc) ==
  LET stored == [cc EXCEPT !.fs = Exp2NextReg(cc.fs, cc.v).fs,
                           !.v = Exp("VVOID", 0)]
  IN  IF cc.v.k = "VVOID" THEN cc
      ELSE IF cc.tostore # LFIELDS_PER_FLUSH THEN stored
      ELSE [stored EXCEPT !.fs = SetList(@, cc.t.info, cc.na, cc.tostore),
                          !.na = @ + cc.tostore, !.tostore = 0]

LastListField(cc) ==
  LET open == MultRet(cc.v)
      fs1 == CASE open -> SetList(SetMultRet(cc.fs, cc.v), cc.t.info, cc.na,
                                  LUA_MULTRET)
               [] ~open /\ cc.v.k # "VVOID" ->
                    SetList(Exp2NextReg(cc.fs, cc.v).fs, cc.t.info, cc.na, cc.tostore)
               [] OTHER -> SetList(cc.fs, cc.t.info, cc.na, cc.tostore)
  IN  IF cc.tostore = 0 THEN cc
      ELSE [cc EXCEPT !.fs = fs1,
                      !.na = @ + cc.tostore - IF open THEN 1 ELSE 0]

(* [key = <<>> or <<key>>, val]: an item of the list or a record field *)
RecField(cc, f) ==
  LET key == Expr(cc.fs, f.key[1])
      kval == Exp2Val(key.fs, key.e)
      tab == Indexed(kval.fs, cc.t, kval.e)
      val == Expr(tab.fs, f.val)
  IN  [cc EXCEPT !.nh = @ + 1,
                 !.fs = [StoreVar(val.fs, tab.e, val.e)
                           EXCEPT !.freereg = cc.fs.freereg]]
ListField(cc, f) ==
  LET val == Expr(cc.fs, f.val)
  IN  [cc EXCEPT !.fs = val.fs, !.v = val.e, !.tostore = @ + 1]

Field(cc, f) ==
  LET closed == CloseListField(cc)
      checked == [closed EXCEPT !.fs = Claim(@, cc.v.k = "VVOID" \/ cc.tostore > 0)]
  IN  CASE cc.fs.err # "" -> cc
        [] cc.fs.err = "" /\ f.key = <<>> -> ListField(checked, f)
        [] OTHER -> RecField(checked, f)

Constructor(fs, fields) ==
  LET pc == PC(fs)
      t == Exp("VNONRELOC", fs.freereg)
      new == ExtraArg(CodeABC(fs, "NEWTABLE", 0, 0, 0), 0)
      cc == FoldLeft(Field, [fs |-> ReserveRegs(new, 1), v |-> Exp("VVOID", 0),
                             t |-> t, nh |-> 0, na |-> 0, tostore |-> 0], fields)
      done == LastListField(cc)
  IN  R(SetTableSize(done.fs, pc, t.info, done.na, done.nh), t)

BinExp(fs, x) ==
  LET l == Expr(fs, x.l)
      first == Infix(l.fs, x.op, l.e)
      second == Expr(first.fs, x.r)
  IN  Posfix(second.fs, x.op, first.e, second.e)

Expr(fs, x) ==
  LET operand == Expr(fs, x.x)
  IN  CASE x.e = "nil"    -> R(fs, Exp("VNIL", 0))
        [] x.e = "true"   -> R(fs, Exp("VTRUE", 0))
        [] x.e = "false"  -> R(fs, Exp("VFALSE", 0))
        [] x.e = "int"    -> R(fs, Exp("VKINT", x.v))
        [] x.e = "str"    -> R(fs, Exp("VKSTR", x.str))
        [] x.e = "dots"   -> R(CodeABC(IF fs.vararg THEN fs
                                       ELSE Error(fs, "cannot use '...'"),
                                       "VARARG", 0, 0, 1), Exp("VVARARG", PC(fs)))
        [] x.e = "func"   -> Body(fs, x)
        [] x.e = "table"  -> Constructor(fs, x.fields)
        [] x.e = "name"   -> SingleVar(fs, x.n)
        [] x.e = "paren"  -> DischargeVars(operand.fs, operand.e)
        [] x.e = "index"  -> IndexExp(fs, x)
        [] x.e = "call"   -> Call(fs, x.f, x.args)
        [] x.e = "method" -> MethodCall(fs, x)
        [] x.e = "un"     -> Prefix(operand.fs, x.op, operand.e)
        [] x.e = "bin"    -> BinExp(fs, x)

-----------------------------------------------------------------------------
(* Statements.                                                             *)

Block(fs, body) == LeaveBlock(StatList(EnterBlock(fs, FALSE), body, 1, FALSE))

(* cond: the code that skips what follows is the list of false jumps *)
Cond(fs, x) ==
  LET c == Expr(fs, x)
  IN  GoIfTrue(c.fs, IF c.e.k = "VNIL" THEN [c.e EXCEPT !.k = "VFALSE"] ELSE c.e)

(* check_conflict: an earlier target of a multiple assignment that uses    *)
(* the variable v as table or index will use a copy of it                  *)
UsesTable(target, v) ==
  \/ target.k = "VINDEXUP" /\ v.k = "VUPVAL" /\ target.info = v.info
  \/ /\ IsIndexed(target) /\ target.k # "VINDEXUP"
     /\ v.k = "VLOCAL" /\ target.info = v.info
UsesIndex(target, v) ==
  target.k = "VINDEXED" /\ v.k = "VLOCAL" /\ target.aux = v.info

WithCopy(target, v, extra) ==
  [target EXCEPT !.k = IF UsesTable(target, v) /\ @ = "VINDEXUP" THEN "VINDEXSTR"
                       ELSE @,
                 !.info = IF UsesTable(target, v) THEN extra ELSE @,
                 !.aux = IF UsesIndex(target, v) THEN extra ELSE @]

Conflict(targets, v) ==
  \E i \in DOMAIN targets : UsesTable(targets[i], v) \/ UsesIndex(targets[i], v)

CopyVar(fs, v) ==
  ReserveRegs(IF v.k = "VLOCAL" THEN CodeABC(fs, "MOVE", fs.freereg, v.info, 0)
              ELSE CodeABC(fs, "GETUPVAL", fs.freereg, v.info, 0), 1)

(* the targets of an assignment, left to right *)
Target(st, x) ==
  LET v == Expr(st.fs, x)
      conflict == ~IsIndexed(v.e) /\ Conflict(st.targets, v.e)
      fs1 == IF conflict THEN CopyVar(v.fs, v.e) ELSE v.fs
      copied == IF conflict
                THEN [i \in DOMAIN st.targets |->
                        WithCopy(st.targets[i], v.e, v.fs.freereg)]
                ELSE st.targets
  IN  [fs |-> CheckReadonly(fs1, v.e), targets |-> Append(copied, v.e)]

(* the last values are on the top of the stack, the last one at the top *)
StoreFromTop(fs, target) ==
  StoreVar(fs, target, Exp("VNONRELOC", fs.freereg - 1))

Assignment(fs, vars, exprs) ==
  LET st == FoldLeft(Target, [fs |-> fs, targets |-> <<>>], vars)
      v == ExpList(st.fs, exprs)
      one == SetOneRet(v.fs, v.e)
      same == Len(exprs) = Len(vars)
      fs1 == IF same THEN StoreVar(one.fs, Last(st.targets), one.e)
             ELSE AdjustAssign(v.fs, Len(vars), Len(exprs), v.e)
      rest == IF same THEN Front(st.targets) ELSE st.targets
  IN  FoldLeft(StoreFromTop, fs1, Reverse(rest))

CallStat(fs, x) ==
  LET c == Expr(fs, x)
  IN  SetInstr(c.fs, c.e.info, [At(c.fs, c.e.info) EXCEPT !.c = 1])

(* a local with a constant as its last value is not a variable at all *)
LocalStat(fs, names, attribs, exprs) ==
  LET n == Len(names)
      declared == FoldLeft(LAMBDA st, i : NewLocalVar(st, names[i], attribs[i]),
                           fs, [i \in 1..n |-> i])
      v == ExpList(declared, exprs)
      tbc == {i \in 1..n : attribs[i] = "TOCLOSE"}
      ctc == n = Len(exprs) /\ attribs[n] = "CONST" /\ IsConstant(v.fs, v.e)
      constant == [v.fs EXCEPT !.actvar[v.fs.nvar].kind = "CTC",
                               !.actvar[v.fs.nvar].k = ConstValue(v.fs, v.e)]
      active == IF ctc THEN [AdjustLocalVars(constant, n - 1) EXCEPT !.nactvar = @ + 1]
                ELSE AdjustLocalVars(AdjustAssign(v.fs, n, Len(exprs), v.e), n)
      toclose == fs.nactvar + Min(tbc) - 1
      checked == IF Cardinality(tbc) > 1
                 THEN Error(active, "multiple to-be-closed variables") ELSE active
  IN  IF tbc = {} THEN active
      ELSE CodeABC(MarkToBeClosed(checked), "TBC", RegLevel(checked, toclose), 0, 0)

LocalFunction(fs, name, f) ==
  Body(AdjustLocalVars(NewLocalVar(fs, name, "REG"), 1), f).fs

FunctionStat(fs, x, f) ==
  LET v == Expr(fs, x)
      b == Body(v.fs, f)
  IN  StoreVar(CheckReadonly(b.fs, v.e), v.e, b.e)

WhileStat(fs, c, body) ==
  LET start == GetLabel(fs)
      test == Cond(start, c)
      inner == Block(EnterBlock(test.fs, TRUE), body)
      back == PatchList(Jump(inner), PC(inner), PC(fs))
  IN  PatchToHere(LeaveBlock(back), test.e.f)

(* the condition is in the scope of the block; if that has upvalues, both  *)
(* ways out of it close them                                               *)
RepeatStat(fs, body, c) ==
  LET scope == EnterBlock(EnterBlock(GetLabel(fs), TRUE), FALSE)
      test == Cond(StatList(scope, body, 1, TRUE), c)
      bl2 == Last(test.fs.bl)
      left == LeaveBlock(test.fs)
      exit == PC(left)
      again == CodeABC(PatchToHere(Jump(left), test.e.f), "CLOSE",
                       RegLevel(left, bl2.nactvar), 0, 0)
      closing == PatchToHere(Jump(again), exit)
  IN  LeaveBlock(IF bl2.upval THEN PatchList(closing, PC(again), PC(fs))
                 ELSE PatchList(left, test.e.f, PC(fs)))

(* test_then_block and ifstat; 'escape' lists the jumps to the end *)
IfClause(st, clause, more) ==
  LET c == Expr(st.fs, clause.cond)
      breaks == clause.body # <<>> /\ clause.body[1].s = "break"
      true == GoIfTrue(c.fs, c.e)
      false == GoIfFalse(c.fs, c.e)
      jumped == NewGoto(EnterBlock(false.fs, FALSE), "break", false.e.t)
      jf == IF breaks THEN PC(jumped) ELSE true.e.f
      then == LeaveBlock(IF breaks
                         THEN StatList(Jump(jumped), Tail(clause.body), 1, FALSE)
                         ELSE StatList(EnterBlock(true.fs, FALSE), clause.body, 1,
                                       FALSE))
      over == IF more THEN Concat(Jump(then), st.escape, PC(then)) ELSE then
  IN  IF breaks /\ Len(clause.body) = 1
      THEN [fs |-> LeaveBlock(jumped), escape |-> st.escape]
      ELSE [fs |-> PatchToHere(over, jf),
            escape |-> IF more THEN ConcatHead(st.escape, PC(then)) ELSE st.escape]

(* orelse: <<>> or <<block>> *)
IfStat(fs, clauses, orelse) ==
  LET st == FoldLeft(LAMBDA s, i : IfClause(s, clauses[i],
                                            i < Len(clauses) \/ orelse # <<>>),
                     [fs |-> fs, escape |-> NO_JUMP],
                     [i \in DOMAIN clauses |-> i])
  IN  PatchToHere(IF orelse = <<>> THEN st.fs ELSE Block(st.fs, orelse[1]), st.escape)

FixForJump(fs, pc, dest, back) ==
  LET offset == IF back THEN pc + 1 - dest ELSE dest - (pc + 1)
  IN  SetInstr(IF offset > MAXARG_Bx THEN Error(fs, "control structure too long")
               ELSE fs, pc, [At(fs, pc) EXCEPT !.b = offset])

ForBody(fs, base, nvars, isgen, body) ==
  LET prep == PC(fs)
      op(o) == IF isgen THEN "T" \o o ELSE o
      declared == AdjustLocalVars(
                    EnterBlock(CodeABx(fs, op("FORPREP"), base, 0), FALSE), nvars)
      looped == LeaveBlock(Block(ReserveRegs(declared, nvars), body))
      fixed == FixForJump(GetLabel(looped), prep, PC(looped), FALSE)
      called == IF isgen THEN CodeABC(fixed, "TFORCALL", base, 0, nvars) ELSE fixed
  IN  FixForJump(CodeABx(called, op("FORLOOP"), base, 0), PC(called), prep + 1, TRUE)

Exp1(fs, x) == LET v == Expr(fs, x) IN Exp2NextReg(v.fs, v.e).fs

ForNum(fs, var, from, to, step) ==
  LET loop == EnterBlock(fs, TRUE)
      state == NewLocalVars(loop, <<"(for state)", "(for state)", "(for state)", var>>)
      limit == Exp1(Exp1(state, from), to)
      ready == IF step # <<>> THEN Exp1(limit, step[1])
               ELSE ReserveRegs(LoadInt(limit, limit.freereg, 1), 1)
  IN  AdjustLocalVars(ready, 3)

(* extra space for the call of the iterator *)
IteratorSpace(fs) == CheckStack(fs, 3)

ForIn(fs, names, exprs) ==
  LET loop == EnterBlock(fs, TRUE)
      state == NewLocalVars(loop, <<"(for state)", "(for state)", "(for state)",
                                    "(for state)">> \o names)
      v == ExpList(state, exprs)
  IN  IteratorSpace(MarkToBeClosed(AdjustLocalVars(
        AdjustAssign(v.fs, 4, Len(exprs), v.e), 4)))

Goto(fs, name) ==
  LET known == {i \in fs.firstlabel + 1..Len(fs.label) : fs.label[i].name = name}
      lb == fs.label[Min(known)]
      lblevel == RegLevel(fs, lb.nactvar)
      closed == IF NVarStack(fs) > lblevel THEN CodeABC(fs, "CLOSE", lblevel, 0, 0)
                ELSE fs
  IN  IF known = {} THEN NewGoto(Jump(fs), name, PC(fs))
      ELSE PatchList(Jump(closed), PC(closed), lb.pc)

Label(fs, name, last) ==
  LET repeated == \E i \in fs.firstlabel + 1..Len(fs.label) : fs.label[i].name = name
  IN  CreateLabel(IF repeated THEN Error(fs, "label already defined") ELSE fs,
                  name, last).fs

Return(fs, exprs) ==
  LET first == NVarStack(fs)
      v == ExpList(fs, exprs)
      open == exprs # <<>> /\ MultRet(v.e)
      multi == SetMultRet(v.fs, v.e)
      tail == v.e.k = "VCALL" /\ Len(exprs) = 1 /\ ~Last(fs.bl).insidetbc
      called == [At(multi, v.e.info) EXCEPT !.op = "TAILCALL"]
      one == Exp2AnyReg(v.fs, v.e)
      all == Exp2NextReg(v.fs, v.e).fs
  IN  CASE open /\ tail  -> Ret(SetInstr(Claim(multi, called.a = first), v.e.info,
                                         called), first, LUA_MULTRET)
        [] open /\ ~tail -> Ret(multi, first, LUA_MULTRET)
        [] exprs = <<>>  -> Ret(fs, first, 0)
        [] ~open /\ Len(exprs) = 1 -> Ret(one.fs, one.e.info, 1)
        [] OTHER -> Ret(Claim(all, Len(exprs) = all.freereg - first), first,
                        Len(exprs))

(* every statement frees the registers it used *)
EndStatement(fs) ==
  [Claim(fs, fs.maxstack >= fs.freereg /\ fs.freereg >= NVarStack(fs))
     EXCEPT !.freereg = NVarStack(fs)]

Statement(fs, s) ==
  CASE s.s = "local"     -> LocalStat(fs, s.names, s.attribs, s.exprs)
    [] s.s = "assign"    -> Assignment(fs, s.vars, s.exprs)
    [] s.s = "call"      -> CallStat(fs, s.x)
    [] s.s = "do"        -> Block(fs, s.body)
    [] s.s = "while"     -> WhileStat(fs, s.cond, s.body)
    [] s.s = "repeat"    -> RepeatStat(fs, s.body, s.cond)
    [] s.s = "if"        -> IfStat(fs, s.clauses, s.orelse)
    [] s.s = "fornum"    -> LeaveBlock(ForBody(ForNum(fs, s.var, s.from, s.to, s.step),
                                               fs.freereg, 1, FALSE, s.body))
    [] s.s = "forin"     -> LeaveBlock(ForBody(ForIn(fs, s.names, s.exprs),
                                               fs.freereg, Len(s.names), TRUE, s.body))
    [] s.s = "function"  -> FunctionStat(fs, s.x, s.f)
    [] s.s = "localfunc" -> LocalFunction(fs, s.name, s.f)
    [] s.s = "return"    -> Return(fs, s.exprs)
    [] s.s = "break"     -> NewGoto(Jump(fs), "break", PC(fs))
    [] s.s = "goto"      -> Goto(fs, s.label)

(* The statements of a block from the i-th on, up to an error.  A label is *)
(* created after the labels that follow it; 'last' is block_follow(ls, 0), *)
(* which the 'until' of a repeat does not satisfy.                         *)
StatList(fs, body, i, until) ==
  LET others == {j \in i..Len(body) : body[j].s # "label"}
      next == IF others = {} THEN Len(body) + 1 ELSE Min(others)
      last == next > Len(body) /\ ~until
      labels == Reverse(SubSeq(body, i, next - 1))
      labelled == FoldLeft(LAMBDA st, l : EndStatement(Label(st, l.label, last)),
                           fs, labels)
  IN  IF fs.err # "" \/ i > Len(body) THEN fs
      ELSE IF body[i].s = "label" THEN StatList(labelled, body, next, until)
      ELSE StatList(EndStatement(Statement(fs, body[i])), body, i + 1, until)

(* mainfunc: the chunk is a vararg function with one upvalue, _ENV *)
Compile(body) ==
  LET main == SetVararg([OpenFunc(<<>>) EXCEPT
                !.ups = <<[name |-> "_ENV", instack |-> TRUE, idx |-> 0,
                           kind |-> "REG"]>>], 0)
      fs == Closed(StatList(main, body, 1, FALSE))
      done == fs.nvar = 0 /\ fs.gt = <<>> /\ fs.label = <<>>
  IN  [proto |-> Proto(fs), err |-> fs.err, asserts |-> fs.asserts /\ done]
===============================================================================
