----------------------------- MODULE LuaRuntime -----------------------------
(***************************************************************************)
(* Calls, errors, coroutines and to-be-closed variables: ldo.c with the    *)
(* parts of lfunc.c, lstate.c, lapi.c, lbaselib.c and lcorolib.c it works  *)
(* with.  Every Lua thread has its list of CallInfos and of pending        *)
(* variables; the one C stack holds what the C functions still have to do. *)
(* An error or a yield jumps to the thread's 'errorJmp' and drops what is  *)
(* above it; 'unroll' later redoes what was dropped from the CallInfos.    *)
(* A Lua function does any operation at any step, 'fuel' bounds how often. *)
(***************************************************************************)
EXTENDS SequencesExt

CONSTANTS
  Main, Coroutines,     \* the threads
  Fuel,                 \* bounds of the operations: a set of functions
  LUAI_MAXCCALLS,       \* limit of nested C calls
  ErrorLimit            \* LUAI_MAXCCALLS / 10 * 11

Threads == {Main} \cup Coroutines

Operations == {"tbc", "call", "pcall", "xpcall", "cfunction", "resume",
               "wrap", "close", "yield", "error"}

ASSUME RuntimeAssumption ==
  /\ Main \notin Coroutines
  /\ Fuel \subseteq [Operations -> Nat]
  /\ LUAI_MAXCCALLS \in Nat /\ ErrorLimit \in Nat
  /\ LUAI_MAXCCALLS < ErrorLimit

VARIABLES
  thread,   \* lua_State
  cstack,   \* C functions that have not returned, the running one last
  fuel      \* operations the programs may still do

vars == <<thread, cstack, fuel>>

(* An error object: its number and how many message handlers it passed.    *)
Nil == <<0, 0>>
Overflow == <<-1, 0>>     \* "C stack overflow"
BadYield == <<-2, 0>>     \* "attempt to yield across a C-call boundary"
BadResume == <<-3, 0>>    \* "cannot resume ... coroutine"
BadClose == <<-4, 0>>     \* "cannot close a ... coroutine"
ErrErr == <<-5, 0>>       \* "error in error handling"
Handled(e) == <<e[1], e[2] + 1>>

(* CallInfo: 'top' is the value on top of its part of the stack.           *)
CallInfo(kind, base, fresh, self, top) ==
  [kind |-> kind, base |-> base, fresh |-> fresh, self |-> self, top |-> top,
   op |-> IF kind = "lua" THEN "body" ELSE "call", slot |-> 0,
   ypcall |-> FALSE, recst |-> "ok", old_errfunc |-> 0, toclose |-> FALSE]

LuaFunction(base) == CallInfo("lua", base, FALSE, 0, Nil)

(* A C function that waits: what it saved and what it was doing.           *)
Waiting(k, t) ==
  [k |-> k, th |-> t, nCcalls |-> 0, nny |-> 0, previous |-> 0, ci |-> 0,
   level |-> 0, status |-> "ok", yy |-> FALSE, errfunc |-> 0]

-----------------------------------------------------------------------------
(* The operators below take a machine m, the two stacks, and return one.   *)
Machine == [S |-> thread, C |-> cstack]
Become(m) == thread' = m.S /\ cstack' = m.C

Push(m, r) == [m EXCEPT !.C = Append(@, r)]
Pop(m) == [m EXCEPT !.C = Front(@)]
PushCI(m, t, f) == [m EXCEPT !.S[t].ci = Append(@, f)]
PopCI(m, t) == [m EXCEPT !.S[t].ci = Front(@)]
UpdateCI(m, t, f) == [m EXCEPT !.S[t].ci = Append(Front(@), f)]

StackTop(s) ==
  LET frame == IF s.ci = <<>> THEN 0 ELSE Last(s.ci).base
      tbc == IF s.tbclist = <<>> THEN 0 ELSE Last(s.tbclist).pos
  IN  IF frame > tbc THEN frame ELSE tbc

TopValue(s) == IF s.ci = <<>> THEN s.top ELSE Last(s.ci).top
SetTop(m, t, v) ==
  IF m.S[t].ci = <<>> THEN [m EXCEPT !.S[t].top = v]
                      ELSE UpdateCI(m, t, [Last(m.S[t].ci) EXCEPT !.top = v])

ToClose(s, level) == s.tbclist # <<>> /\ Last(s.tbclist).pos >= level

yieldable(s) == s.nny = 0

-----------------------------------------------------------------------------
(* Errors: the top of the C stack is about to call luaG_errormsg.          *)
Raise(m, t, e) ==
  Push(SetTop(m, t, e), [Waiting("raise", t) EXCEPT !.status = "errrun"])

luaD_rawrunprotected(m, t, r) ==
  LET s == m.S[t] IN
  Push([m EXCEPT !.S[t].errorJmp = Len(m.C) + 1],
       [r EXCEPT !.nCcalls = s.nCcalls, !.nny = s.nny, !.previous = s.errorJmp])


RestoreJmp_KeepsCalls(m, t, r) ==
  [m EXCEPT !.S[t].errorJmp = r.previous, !.S[t].nny = r.nny]

RestoreJmp(m, t, r) ==
  [m EXCEPT !.S[t].errorJmp = r.previous, !.S[t].nCcalls = r.nCcalls,
            !.S[t].nny = r.nny]

(* luaD_call (yy) or luaD_callnoyield of a Lua function.                   *)
ccall(m, t, f, yy) ==
  LET more == IF yy THEN 0 ELSE 1
      m1 == [m EXCEPT !.S[t].nCcalls = @ + 1, !.S[t].nny = @ + more]
      calls == m1.S[t].nCcalls
  IN  IF calls = LUAI_MAXCCALLS THEN Raise(m1, t, Overflow)
      ELSE IF calls >= ErrorLimit
      THEN Push(m1, [Waiting("raise", t) EXCEPT !.status = "errerr"])
      ELSE Push(PushCI(m1, t, [f EXCEPT !.fresh = TRUE]),
                [Waiting("execute", t) EXCEPT !.nCcalls = 1, !.nny = more])

luaF_close(m, t, level, status, yy) ==
  Push(m, [Waiting("luaF_close", t) EXCEPT
             !.level = level, !.status = status, !.yy = yy])

luaD_closeprotected(m, t, level, status) ==
  luaF_close(
    luaD_rawrunprotected(m, t, [Waiting("closeprotected", t) EXCEPT
       !.level = level, !.status = status, !.ci = Len(m.S[t].ci)]),
    t, level, status, FALSE)

(* A function of thread t ends and its caller, a Lua function, gets v.     *)
Deliver(m, t, v) ==
  LET m1 == PopCI(m, t)
  IN  IF m1.S[t].ci = <<>> THEN m1
      ELSE UpdateCI(m1, t, [Last(m1.S[t].ci) EXCEPT !.op = "body", !.top = v])

ReturnC(m, t, v) == Deliver(Pop(m), t, v)

(* lua_closethread(co, L) up to its loop; the caller is top of the C stack. *)
lua_closethread(m, co, t) ==
  LET s == m.S[co]
      status == IF s.status = "yield" THEN "ok" ELSE s.status
  IN  luaD_closeprotected(
        [m EXCEPT !.S[co] = [s EXCEPT !.nCcalls = m.S[t].nCcalls, !.nny = 0,
                               !.top = TopValue(s), !.ci = <<>>,
                               !.status = "ok", !.entry = FALSE]],
        co, 1, status)

(* lua_resume returns to auxresume, called by 'resume' or by 'wrap'.       *)
Resumed(m, t, co, status, e) ==
  IF status \in {"ok", "yield"} THEN ReturnC(m, t, Nil)
  ELSE IF Last(m.S[t].ci).kind = "resume" THEN ReturnC(m, t, e)
  ELSE IF m.S[co].status \in {"ok", "yield"} THEN Raise(m, t, e)
  ELSE lua_closethread(m, co, t)

EndResume(m, co, status) ==
  LET r == Last(m.C)
      m1 == RestoreJmp(Pop(m), co, r)
      m2 == [m1 EXCEPT !.S[co].status = status]
  IN  Resumed(m2, Last(m2.C).th, co, status, TopValue(m2.S[co]))

findpcall_Oldest(ci) == SelectInSeq(ci, LAMBDA f : f.ypcall)

findpcall(ci) == SelectLastInSeq(ci, LAMBDA f : f.ypcall)

(* luaD_throw, and what the function it jumps to does first.               *)
luaD_throw(m, t, status) ==
  LET s == m.S[t]
      e == IF status = "errerr" THEN ErrErr ELSE TopValue(s)
      j == s.errorJmp
      r == m.C[j]
      m1 == RestoreJmp([m EXCEPT !.C = SubSeq(@, 1, j)], t, r)
      cut(n) == SetTop([m1 EXCEPT !.S[t].ci = SubSeq(@, 1, n)], t, e)
      c == findpcall(s.ci)
      recover == [cut(c) EXCEPT !.S[t].ci[c].recst = status,
                                !.S[t].ci[c].op = "call", !.C = Front(@)]
  IN  CASE r.k = "pcall" -> luaD_closeprotected(cut(r.ci), t, r.level, status)
        [] r.k = "closeprotected" ->
             luaD_closeprotected(Pop(cut(r.ci)), t, r.level, status)
        [] r.k = "resume" /\ status = "yield" -> EndResume(m1, t, "yield")
        [] r.k = "resume" /\ status # "yield" /\ c # 0 ->
             Push(luaD_rawrunprotected(recover, t, Waiting("resume", t)),
                  Waiting("unroll", t))
        [] OTHER -> EndResume(SetTop(m1, t, e), t, status)

-----------------------------------------------------------------------------
Top == Last(cstack)
Runs(k) == cstack # <<>> /\ Top.k = k
L == thread[Top.th]
Function == Last(L.ci)
InBody == Runs("execute") /\ Function.op = "body"
Waits(m) == UpdateCI(m, Top.th, [Function EXCEPT !.op = "call"])
Burn(op) == fuel[op] > 0 /\ fuel' = [fuel EXCEPT ![op] = @ - 1]

(* OP_TBC: the variable is identified by what is left of its bound.        *)
NewVariable ==
  /\ InBody /\ Burn("tbc")
  /\ thread' = [thread EXCEPT ![Top.th].tbclist =
                  Append(@, [pos |-> StackTop(L) + 1, var |-> fuel["tbc"]])]
  /\ UNCHANGED cstack

(* OP_CLOSE: the end of a block, that of some variable of the function.    *)
EndBlock ==
  /\ InBody
  /\ \E i \in 1..Len(L.tbclist) :
       /\ L.tbclist[i].pos > Function.base
       /\ Become(UpdateCI(Machine, Top.th,
                   [Function EXCEPT !.op = "block", !.slot = L.tbclist[i].pos]))
  /\ UNCHANGED fuel

(* OP_RETURN *)
Return ==
  /\ InBody
  /\ Become(UpdateCI(Machine, Top.th, [Function EXCEPT !.op = "return"]))
  /\ UNCHANGED fuel

(* OP_CALL of a Lua function: no C call.                                   *)
Call ==
  /\ InBody /\ Burn("call")
  /\ Become(PushCI(Waits(Machine), Top.th, LuaFunction(StackTop(L) + 1)))

(* OP_CALL of a C function                                                 *)
precallC(f) == Push(PushCI(Waits(Machine), Top.th, f), Waiting("C", Top.th))

(* luaB_pcall and luaB_xpcall, with lua_pcallk                             *)
ProtectedCall(handler) ==
  LET t == Top.th
      base == StackTop(L) + 1
      errfunc == IF handler THEN base ELSE 0
      f == [CallInfo(IF handler THEN "xpcall" ELSE "pcall", base, FALSE, 0, Nil)
              EXCEPT !.ypcall = yieldable(L), !.old_errfunc = L.errfunc]
      m == precallC(f)
      set(mm) == [mm EXCEPT !.S[t].errfunc = errfunc]
      r == [Waiting("pcall", t) EXCEPT !.ci = Len(L.ci) + 1, !.level = base,
                                       !.errfunc = L.errfunc]
  IN  /\ InBody /\ Burn(IF handler THEN "xpcall" ELSE "pcall")
      /\ Become(ccall(IF yieldable(L) THEN set(m)
                      ELSE luaD_rawrunprotected(set(m), t, r),
                      t, LuaFunction(base + 1), yieldable(L)))

(* A C function that calls back through lua_call, such as string.gsub, with *)
(* or without a slot of its own marked by lua_toclose.                     *)
CallFromC(toclose) ==
  LET t == Top.th
      base == StackTop(L) + 1
      f == [CallInfo("cfunction", base, FALSE, 0, Nil) EXCEPT !.toclose = toclose]
      m == precallC(f)
      box == [pos |-> base + 1, var |-> fuel["tbc"]]
  IN  /\ InBody /\ fuel["cfunction"] > 0 /\ (toclose => fuel["tbc"] > 0)
      /\ fuel' = [fuel EXCEPT !["cfunction"] = @ - 1,
                              !["tbc"] = IF toclose THEN @ - 1 ELSE @]
      /\ Become(ccall(IF toclose
                      THEN [m EXCEPT !.S[t].tbclist = Append(@, box)] ELSE m,
                      t, LuaFunction(base + 2), FALSE))

Error ==
  /\ InBody /\ Burn("error")
  /\ Become(Raise(Waits(Machine), Top.th, <<fuel["error"], 0>>))

(* luaB_yield, lua_yieldk *)
Yield ==
  /\ InBody /\ Burn("yield")
  /\ Become(IF yieldable(L) THEN luaD_throw(Waits(Machine), Top.th, "yield")
            ELSE Raise(Waits(Machine), Top.th, BadYield))

-----------------------------------------------------------------------------
(* lua_resume refuses a coroutine that is not suspended.                   *)
Resumable(co) ==
  \/ thread[co].status = "yield"
  \/ thread[co].status = "ok" /\ thread[co].ci = <<>> /\ thread[co].entry

(* luaB_coresume, luaB_auxwrap *)
Resume(co, wrapped) ==
  LET t == Top.th
      m == precallC(CallInfo(IF wrapped THEN "wrap" ELSE "resume",
                             StackTop(L) + 1, FALSE, 0, Nil))
      m1 == [m EXCEPT !.S[co].nCcalls = L.nCcalls, !.S[co].nny = 0]
      m2 == luaD_rawrunprotected([m1 EXCEPT !.S[co].nCcalls = @ + 1],
                                 co, Waiting("resume", co))
      start == Push(PushCI([m2 EXCEPT !.S[co].entry = FALSE], co,
                           [LuaFunction(1) EXCEPT !.fresh = TRUE]),
                    Waiting("execute", co))
      continue == Push([m2 EXCEPT !.S[co].status = "ok"],
                       Waiting("unroll", co))
  IN  /\ InBody /\ Burn(IF wrapped THEN "wrap" ELSE "resume")
      /\ Become(IF ~Resumable(co) THEN Resumed(m, t, co, "errrun", BadResume)
                ELSE IF L.nCcalls >= LUAI_MAXCCALLS
                THEN Resumed(m1, t, co, "errrun", Overflow)
                ELSE IF thread[co].status = "ok" THEN start ELSE continue)

(* luaB_close: only of a suspended or a dead coroutine (auxstatus).        *)
Closable(co) ==
  /\ co # Top.th
  /\ thread[co].status = "ok" => thread[co].ci = <<>>

CloseThread(co) ==
  LET m == precallC(CallInfo("close", StackTop(L) + 1, FALSE, 0, Nil))
  IN  /\ InBody /\ Burn("close")
      /\ Become(IF Closable(co) THEN lua_closethread(m, co, Top.th)
                ELSE Raise(m, Top.th, BadClose))

-----------------------------------------------------------------------------
(* What the interpreter does between two operations of a program.          *)

(* luaV_execute ends a block or a function; variables are closed first.    *)
FinishLua ==
  LET t == Top.th
      level == IF Function.op = "block" THEN Function.slot ELSE Function.base
      returned == PopCI(Machine, t)
      leave == [Pop(returned) EXCEPT !.S[t].nCcalls = @ - Top.nCcalls,
                                     !.S[t].nny = @ - Top.nny]
      body == UpdateCI(Machine, t, [Function EXCEPT !.op = "body", !.top = Nil])
  IN  /\ Runs("execute") /\ Function.op \in {"block", "return"}
      /\ Become(IF ToClose(L, level)
                THEN luaF_close(Machine, t, level, "closektop", TRUE)
                ELSE IF Function.op = "block" THEN body
                ELSE IF Function.fresh THEN leave
                ELSE Deliver(Machine, t, Nil))
      /\ UNCHANGED fuel

(* The loop of luaF_close: callclosemethod                                 *)
CloseVariable ==
  LET t == Top.th
      tbc == Last(L.tbclist)
      e == IF Top.status \in {"errrun", "errerr"} THEN TopValue(L) ELSE Nil
      m == [Machine EXCEPT !.S[t].tbclist = Front(@)]
  IN  /\ Runs("luaF_close") /\ ToClose(L, Top.level)
      /\ Become(ccall(m, t, CallInfo("lua", tbc.pos + 1, TRUE, tbc.var, e), Top.yy))
      /\ UNCHANGED fuel

AllClosed ==
  /\ Runs("luaF_close") /\ ~ToClose(L, Top.level)
  /\ Become(Pop(Machine))
  /\ UNCHANGED fuel

(* The function called by a C function returned: luaD_poscall of the C     *)
(* function, after the end of lua_pcallk.                                  *)
FinishC ==
  LET t == Top.th
      m == IF Function.ypcall
           THEN [Machine EXCEPT !.S[t].errfunc = Function.old_errfunc] ELSE Machine
  IN  /\ Runs("C")
      /\ Become(IF Function.toclose /\ ToClose(L, Function.base)
                THEN luaF_close(UpdateCI(m, t, [Function EXCEPT !.op = "return"]),
                                t, Function.base, "closektop", TRUE)
                ELSE ReturnC(m, t, Nil))
      /\ UNCHANGED fuel

(* luaD_pcall without an error                                             *)
FinishPcall ==
  LET t == Top.th IN
  /\ Runs("pcall")
  /\ Become(ReturnC(Pop(RestoreJmp([Machine EXCEPT !.S[t].errfunc = Top.errfunc],
                                   t, Top)), t, Nil))
  /\ UNCHANGED fuel

(* luaD_closeprotected ends: in luaD_pcall, luaB_close or luaB_auxwrap.    *)
FinishCloseProtected ==
  LET t == Top.th
      m == Pop(RestoreJmp(Machine, t, Top))
      caller == Last(m.C)
      e == IF Top.status = "ok" THEN Nil ELSE TopValue(m.S[t])
      kind == Last(m.S[caller.th].ci).kind
  IN  /\ Runs("closeprotected")
      /\ Become(IF caller.k = "pcall"
                THEN ReturnC([Pop(m) EXCEPT !.S[t].errfunc = caller.errfunc], t, e)
                ELSE IF kind = "close" THEN ReturnC(m, caller.th, e)
                ELSE Raise(m, caller.th, e))
      /\ UNCHANGED fuel

(* The coroutine's first call returned.                                    *)
FinishResume ==
  /\ Runs("resume")
  /\ Become(EndResume(Machine, Top.th, "ok"))
  /\ UNCHANGED fuel

(* unroll, a Lua function: luaV_finishOp and luaV_execute                  *)
UnrollLua ==
  LET t == Top.th
      f == IF Function.op = "call" THEN [Function EXCEPT !.op = "body", !.top = Nil]
                                   ELSE Function
  IN  /\ Runs("unroll") /\ L.ci # <<>> /\ Function.kind = "lua"
      /\ Become(Push(UpdateCI(Machine, t, f), Waiting("execute", t)))
      /\ UNCHANGED fuel

UnrollPcall_KeepsHandler ==
  LET t == Top.th IN
  /\ Runs("unroll") /\ L.ci # <<>> /\ Function.ypcall
  /\ Become(IF Function.recst = "ok" THEN Deliver(Machine, t, Nil)
            ELSE IF ToClose(L, Function.base)
            THEN luaF_close(Machine, t, Function.base, Function.recst, TRUE)
            ELSE Deliver(Machine, t, Function.top))
  /\ UNCHANGED fuel

(* unroll, a C function: finishCcall with finishpcallk                     *)
UnrollPcall ==
  LET t == Top.th
      done == [Machine EXCEPT !.S[t].errfunc = Function.old_errfunc]
  IN  /\ Runs("unroll") /\ L.ci # <<>> /\ Function.ypcall
      /\ Become(IF Function.recst = "ok" THEN Deliver(done, t, Nil)
                ELSE IF ToClose(L, Function.base)
                THEN luaF_close(Machine, t, Function.base, Function.recst, TRUE)
                ELSE Deliver(done, t, Function.top))
      /\ UNCHANGED fuel

(* finishCcall of a function that was returning (CIST_CLSRET)              *)
UnrollReturn ==
  LET t == Top.th IN
  /\ Runs("unroll") /\ L.ci # <<>>
  /\ Function.kind = "cfunction" /\ Function.op = "return"
  /\ Become(IF ToClose(L, Function.base)
            THEN luaF_close(Machine, t, Function.base, "closektop", TRUE)
            ELSE Deliver(Machine, t, Nil))
  /\ UNCHANGED fuel

UnrollEnd ==
  /\ Runs("unroll") /\ L.ci = <<>>
  /\ Become(EndResume(Pop(Machine), Top.th, "ok"))
  /\ UNCHANGED fuel

(* luaG_errormsg: the message handler is called, then luaD_throw           *)
CallHandler ==
  LET t == Top.th
      handler == CallInfo("lua", StackTop(L) + 2, TRUE, -1, TopValue(L))
  IN  /\ Runs("raise") /\ Top.status = "errrun" /\ L.errfunc # 0
      /\ Become(ccall(Push(Pop(Machine), Waiting("errormsg", t)), t, handler, FALSE))
      /\ UNCHANGED fuel

HandlerReturned ==
  LET t == Top.th IN
  /\ Runs("errormsg")
  /\ Become(luaD_throw(SetTop(Machine, t, Handled(TopValue(L))), t, "errrun"))
  /\ UNCHANGED fuel

Throw ==
  /\ Runs("raise") /\ (Top.status = "errrun" => L.errfunc = 0)
  /\ Become(luaD_throw(Machine, Top.th, Top.status))
  /\ UNCHANGED fuel

(* lua.c's protected call returned.                                        *)
Ended == cstack = <<>> /\ UNCHANGED vars

-----------------------------------------------------------------------------
NewThread ==
  [ci |-> <<>>, tbclist |-> <<>>, status |-> "ok", entry |-> TRUE, top |-> Nil,
   nCcalls |-> 0, nny |-> 0, errorJmp |-> 0, errfunc |-> 0]

(* lua.c runs the main program in a protected call.                        *)
Init ==
  /\ thread = [t \in Threads |-> IF t # Main THEN NewThread ELSE
       [NewThread EXCEPT
          !.ci = <<CallInfo("pcall", 1, FALSE, 0, Nil),
                   [LuaFunction(2) EXCEPT !.fresh = TRUE]>>,
          !.entry = FALSE, !.nCcalls = 1, !.nny = 2, !.errorJmp = 2]]
  /\ cstack = <<Waiting("C", Main),
                [Waiting("pcall", Main) EXCEPT !.ci = 1, !.level = 1, !.nny = 1],
                [Waiting("execute", Main) EXCEPT !.nCcalls = 1, !.nny = 1]>>
  /\ fuel \in Fuel

Operation ==
  \/ NewVariable \/ EndBlock \/ Return \/ Call \/ Error \/ Yield
  \/ \E b \in BOOLEAN : ProtectedCall(b) \/ CallFromC(b)
  \/ \E co \in Coroutines :
       CloseThread(co) \/ \E wrapped \in BOOLEAN : Resume(co, wrapped)

Interpreter ==
  \/ FinishLua \/ CloseVariable \/ AllClosed
  \/ FinishC \/ FinishPcall \/ FinishCloseProtected \/ FinishResume
  \/ UnrollLua \/ UnrollPcall \/ UnrollReturn \/ UnrollEnd
  \/ CallHandler \/ HandlerReturned \/ Throw

Next == Operation \/ Interpreter \/ Ended

Spec == Init /\ [][Next]_vars
-----------------------------------------------------------------------------
(* Nested C calls: calls of luaV_execute and activations of lua_resume.    *)
Depth ==
  Cardinality({j \in DOMAIN cstack :
                 \/ cstack[j].k = "resume"
                 \/ cstack[j].k = "execute" /\ cstack[j].nCcalls = 1})

(* The running thread's nCcalls, which every coroutine takes over from its *)
(* resumer and every longjmp restores, is the real nesting of C calls (an  *)
(* overflow that is being handled counts the call that was refused), so    *)
(* the C stack never grows past its limit: luaE_checkcstack sees all of it. *)
CountsEveryCall ==
  cstack # <<>> =>
    /\ Depth <= L.nCcalls /\ Depth < ErrorLimit
    /\ L.nCcalls < LUAI_MAXCCALLS => Depth = L.nCcalls

(* L->errfunc is 0 or the message handler of a protected call that is      *)
(* active in the running thread, the innermost one that has the control    *)
(* (lua_assert in luaG_errormsg: it is a function), also after errors,     *)
(* yields and errors in closing methods.                                   *)
HandlerIsCurrent ==
  cstack # <<>> =>
    LET i == SelectLastInSeq(L.ci, LAMBDA f : f.kind \in {"pcall", "xpcall"})
    IN  L.errfunc = IF i # 0 /\ L.ci[i].kind = "xpcall" THEN L.ci[i].base ELSE 0

-----------------------------------------------------------------------------
(* The state LuaControl speaks of.  The variables of a function lie in its *)
(* part of the stack, those of functions an error dropped in the part of   *)
(* the protected call that caught it.                                      *)
Unwinding(t, i) ==
  \/ thread[t].ci[i].recst # "ok"
  \/ \E j \in DOMAIN cstack : /\ cstack[j].k = "closeprotected"
                              /\ cstack[j].th = t /\ cstack[j].ci = i

VariablesIn(t, low, high) ==
  LET s == SelectSeq(thread[t].tbclist, LAMBDA e : low <= e.pos /\ e.pos < high)
  IN  [i \in DOMAIN s |-> s[i].var]

AllOfThem == 1000  \* above every position

FunctionView(t, i) ==
  LET s == thread[t].ci
      g == s[i]
      high == IF i = Len(s) THEN AllOfThem ELSE s[i + 1].base
      op == IF Unwinding(t, i) THEN "unwind" ELSE g.op
      shut == CASE op = "block" -> g.slot
                [] op \in {"return", "unwind"} -> g.base
                [] OTHER -> high
  IN  [kind |-> g.kind, op |-> op, self |-> g.self, top |-> g.top,
       vars |-> VariablesIn(t, g.base, shut), shut |-> VariablesIn(t, shut, high)]

(* The threads with a C function on the stack, in the order of their first. *)
First(t) == SelectInSeq(cstack, LAMBDA r : r.th = t)
Started == {t \in Threads : \E j \in DOMAIN cstack : cstack[j].th = t}
ActiveThreads ==
  [i \in 1..Cardinality(Started) |->
     CHOOSE t \in Started :
       Cardinality({u \in Started : First(u) < First(t)}) = i - 1]

(* The lua_closethread that is closing thread t, if any.                   *)
ClosingOf(t) ==
  SelectLastInSeq(cstack,
    LAMBDA r : r.k = "closeprotected" /\ r.th = t /\ r.ci = 0)

ThreadView(t) ==
  LET s == thread[t]
      mode == CASE t \in Started ->
                     IF ClosingOf(t) # 0 THEN "closing" ELSE "active"
                [] s.status = "yield" -> "suspended"
                [] s.status \in {"errrun", "errerr"} -> "failed"
                [] s.entry -> "initial"
                [] OTHER -> "dead"
      stack == IF mode = "failed" THEN <<>>
               ELSE [i \in DOMAIN s.ci |-> FunctionView(t, i)]
      first == IF stack = <<>> THEN AllOfThem ELSE s.ci[1].base
      top == CASE mode = "failed" -> TopValue(s)
               [] mode = "closing" /\ cstack[ClosingOf(t)].status # "ok" -> s.top
               [] OTHER -> Nil
  IN  [stack |-> stack, rest |-> VariablesIn(t, 1, first), top |-> top, mode |-> mode]

RaisingView ==
  CASE Runs("raise") -> IF Top.status = "errerr" THEN "fatal" ELSE "error"
    [] Runs("errormsg") -> "handled"
    [] OTHER -> "no"

View ==
  [T |-> [t \in Threads |-> ThreadView(t)],
   chain |-> ActiveThreads, raising |-> RaisingView]
=============================================================================
