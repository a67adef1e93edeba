----------------------------- MODULE LuaSemantics -----------------------------
(***************************************************************************)
(* What a Lua program means: an evaluator of syntax trees that knows       *)
(* nothing of registers, jumps or instructions.  Every local variable is a *)
(* cell of a store, a closure keeps the environment it was created in, and *)
(* a block that is left closes its variables.  This is the specification   *)
(* that the parser, the code generator and the virtual machine implement.  *)
(*                                                                         *)
(* 'ctl' says how an evaluation goes on: normally, or by leaving blocks    *)
(* for a break, a goto, a return or an error.                              *)
(***************************************************************************)
EXTENDS LuaValues

Run == <<"run">>
Break == <<"break">>
Ok(st) == st.ctl = Run
Leave(st, ctl) == [st EXCEPT !.ctl = ctl]
Fail(st) == Leave(st, <<"error", StrV("error")>>)
Seen(st, event) == [st EXCEPT !.trace = Append(@, event)]
V(st, v) == [st |-> st, v |-> v]
Vs(st, vs) == [st |-> st, vs |-> vs]

First(vs) == IF vs = <<>> THEN NilV ELSE vs[1]
Adjust(vs, n) == [i \in 1..n |-> IF i <= Len(vs) THEN vs[i] ELSE NilV]

(* new local variables; the environment maps names to cells *)
Declare(st, env, names, vs) ==
  LET n == Len(st.cells)
      cell(name) == n + Max({i \in DOMAIN names : names[i] = name})
  IN  [st |-> [st EXCEPT !.cells = @ \o vs],
       env |-> [x \in Range(names) |-> cell(x)] @@ env]

Index(st, t, key) ==
  CASE ~Ok(st) -> V(st, NilV)
    [] Ok(st) /\ t[1] = "tab" -> V(st, Field1(st.tables[t[2]], key))
    [] Ok(st) /\ IsObj(t) -> V(Seen(st, <<"INDEX", t, key>>), key)
    [] OTHER -> V(Fail(st), NilV)

NewIndex(st, t, key, v) ==
  CASE ~Ok(st) -> st
    [] Ok(st) /\ t[1] = "tab" /\ key # NilV ->
         [st EXCEPT !.tables[t[2]] = RawSet(@, key, v)]
    [] Ok(st) /\ IsObj(t) -> Seen(st, <<"NEWINDEX", t, key, v>>)
    [] OTHER -> Fail(st)

Env(env, st) == st.cells[env["_ENV"]]

-----------------------------------------------------------------------------
(* Operators on values.                                                    *)

Numeric == {"ADD", "SUB", "MUL", "MOD", "IDIV", "BAND", "BOR", "BXOR", "SHL", "SHR"}

ByMetamethod(st, event, x, y) ==
  IF IsObj(x) \/ IsObj(y) THEN V(Seen(st, <<event, x, y>>), x) ELSE V(Fail(st), NilV)

Less(st, event, x, y) ==
  CASE IsInt(x) /\ IsInt(y) ->
         V(st, BoolV(IF event = "LT" THEN x[2] < y[2] ELSE x[2] <= y[2]))
    [] IsObj(x) \/ IsObj(y) -> V(Seen(st, <<event, x, y>>), BoolV(TRUE))
    [] OTHER -> V(Fail(st), NilV)

Equal(st, x, y) ==
  IF x # y /\ IsObj(x) /\ IsObj(y) THEN V(Seen(st, <<"EQ", x, y>>), TRUE)
  ELSE V(st, x = y)

Apply(st, op, x, y) ==
  CASE ~Ok(st) -> V(st, NilV)
    [] Ok(st) /\ op \in Numeric /\ IsInt(x) /\ IsInt(y) ->
         IF op \in {"MOD", "IDIV"} /\ y[2] = 0 THEN V(Fail(st), NilV)
         ELSE V(st, IntV(IntArith(op, x[2], y[2])))
    [] Ok(st) /\ op = "CONCAT" /\ IsText(x) /\ IsText(y) ->
         V(st, StrV(Text(x) \o Text(y)))
    [] Ok(st) /\ op = "EQ" -> LET r == Equal(st, x, y) IN V(r.st, BoolV(r.v))
    [] Ok(st) /\ op = "NE" -> LET r == Equal(st, x, y) IN V(r.st, BoolV(~r.v))
    [] Ok(st) /\ op \in {"LT", "LE"} -> Less(st, op, x, y)
    [] Ok(st) /\ op = "GT" -> Less(st, "LT", y, x)
    [] Ok(st) /\ op = "GE" -> Less(st, "LE", y, x)
    [] OTHER -> ByMetamethod(st, op, x, y)

ApplyUnary(st, op, x) ==
  CASE ~Ok(st) -> V(st, NilV)
    [] Ok(st) /\ op = "NOT" -> V(st, BoolV(IsFalse(x)))
    [] Ok(st) /\ op \in {"UNM", "BNOT"} /\ IsInt(x) -> V(st, IntV(IntArith(op, x[2], 0)))
    [] Ok(st) /\ op = "LEN" /\ x[1] = "tab" -> V(st, IntV(Border(st.tables[x[2]])))
    [] Ok(st) /\ op = "LEN" /\ x[1] = "str" -> V(st, IntV(Len(x[2])))
    [] OTHER -> ByMetamethod(st, op, x, x)

-----------------------------------------------------------------------------
(* Expressions.  EvalMulti gives all the values of a call or of '...'.     *)

RECURSIVE EvalMulti(_, _, _)
RECURSIVE Scope(_, _, _, _, _, _)

Eval(st, env, x) ==
  LET r == EvalMulti(st, env, x) IN V(r.st, First(r.vs))

RECURSIVE EvalList(_, _, _)
EvalList(st, env, xs) ==
  LET init == EvalList(st, env, Front(xs))
      last == EvalMulti(init.st, env, Last(xs))
  IN  CASE xs = <<>> -> Vs(st, <<>>)
        [] xs # <<>> /\ Len(xs) = 1 -> EvalMulti(st, env, xs[1])
        [] OTHER -> Vs(last.st, Adjust(init.vs, Len(xs) - 1) \o last.vs)

Block(st, env, body) == Scope(st, env, body, 1, <<>>, [x \in {} |-> NilV])

CallLua(st, id, args) ==
  LET f == st.funs[id].f
      params == IF f.method THEN <<"self">> \o f.params ELSE f.params
      n == Len(params)
      extra == SubSeq(args, n + 1, Len(args))
      d == Declare(st, st.funs[id].env, params \o <<"...">>,
                   Append(Adjust(args, n), extra))
      r == Block(d.st, d.env, f.body)
  IN  IF r.ctl[1] = "return" THEN Vs(Leave(r, Run), r.ctl[2]) ELSE Vs(r, <<>>)

CallValue(st, f, args) ==
  LET callee == IF IsObj(f) THEN Nat1("CALL") ELSE f
      all == IF IsObj(f) THEN <<f>> \o args ELSE args
  IN  CASE ~Ok(st) -> Vs(st, <<>>)
        [] Ok(st) /\ callee = Nat1("error") -> Vs(Leave(st, <<"error", First(args)>>), <<>>)
        [] Ok(st) /\ callee[1] = "nat" /\ callee # Nat1("error") ->
             Vs([st EXCEPT !.trace = @ \o CEvents(callee, all)], CResults(callee, all))
        [] Ok(st) /\ callee[1] = "fun" -> CallLua(st, callee[2], args)
        [] OTHER -> Vs(Fail(st), <<>>)

NewFunction(st, env, f) ==
  V([st EXCEPT !.funs = Append(@, [f |-> f, env |-> env])], Fun(Len(st.funs) + 1))

Name(st, env, n) ==
  IF n \in DOMAIN env THEN V(st, st.cells[env[n]]) ELSE Index(st, Env(env, st), StrV(n))

(* the items of a constructor; the last one may give several values *)
RECURSIVE Fill(_, _, _, _, _, _)
Fill(st, env, t, fields, i, n) ==
  LET f == fields[i]
      key == Eval(st, env, f.key[1])
      val == Eval(key.st, env, f.val)
      vals == IF i = Len(fields) THEN EvalMulti(st, env, f.val)
              ELSE LET v == Eval(st, env, f.val) IN Vs(v.st, <<v.v>>)
      stored == FoldLeft(LAMBDA s, j : NewIndex(s, t, IntV(n + j), vals.vs[j]),
                         vals.st, [j \in DOMAIN vals.vs |-> j])
  IN  IF ~Ok(st) \/ i > Len(fields) THEN st
      ELSE IF f.key # <<>>
      THEN Fill(NewIndex(val.st, t, key.v, val.v), env, t, fields, i + 1, n)
      ELSE Fill(stored, env, t, fields, i + 1, n + 1)

Constructor(st, env, fields) ==
  LET t == Tab(Len(st.tables) + 1)
  IN  V(Fill([st EXCEPT !.tables = Append(@, NoValue)], env, t, fields, 1, 0), t)

ShortCircuit(st, env, x) ==
  LET l == Eval(st, env, x.l)
  IN  IF ~Ok(l.st) \/ IsFalse(l.v) = (x.op = "AND") THEN l ELSE Eval(l.st, env, x.r)

Binary(st, env, x) ==
  LET l == Eval(st, env, x.l)
      r == Eval(l.st, env, x.r)
  IN  IF x.op \in {"AND", "OR"} THEN ShortCircuit(st, env, x)
      ELSE Apply(r.st, x.op, l.v, r.v)

Simple(st, env, x) ==
  CASE x.e = "nil"   -> V(st, NilV)
    [] x.e = "true"  -> V(st, BoolV(TRUE))
    [] x.e = "false" -> V(st, BoolV(FALSE))
    [] x.e = "int"   -> V(st, IntV(x.v))
    [] x.e = "str"   -> V(st, StrV(x.str))
    [] x.e = "name"  -> Name(st, env, x.n)
    [] x.e = "func"  -> NewFunction(st, env, x)
    [] x.e = "table" -> Constructor(st, env, x.fields)
    [] x.e = "paren" -> Eval(st, env, x.x)
    [] x.e = "index" -> LET t == Eval(st, env, x.t)
                            k == Eval(t.st, env, x.key)
                        IN  Index(k.st, t.v, k.v)
    [] x.e = "un"    -> LET v == Eval(st, env, x.x) IN ApplyUnary(v.st, x.op, v.v)
    [] x.e = "bin"   -> Binary(st, env, x)

EvalMulti(st, env, x) ==
  LET s == Simple(st, env, x)
      f == Eval(st, env, x.f)
      args == EvalList(f.st, env, x.args)
      o == Eval(st, env, x.o)
      m == Index(o.st, o.v, StrV(x.name))
      margs == EvalList(m.st, env, x.args)
  IN  CASE ~Ok(st) -> Vs(st, <<>>)
        [] Ok(st) /\ x.e = "dots"   -> Vs(st, st.cells[env["..."]])
        [] Ok(st) /\ x.e = "call"   -> CallValue(args.st, f.v, args.vs)
        [] Ok(st) /\ x.e = "method" -> CallValue(margs.st, m.v, <<o.v>> \o margs.vs)
        [] OTHER -> Vs(s.st, <<s.v>>)

-----------------------------------------------------------------------------
(* Statements.                                                             *)

(* the target of an assignment, with its table and key already evaluated *)
Target(acc, env, x) ==
  LET t == Eval(acc.st, env, x.t)
      k == Eval(t.st, env, x.key)
      is == x.e = "name" /\ x.n \in DOMAIN env
  IN  CASE is -> [acc EXCEPT !.to = Append(@, <<"cell", env[x.n]>>)]
        [] ~is /\ x.e = "name" ->
             [acc EXCEPT !.to = Append(@, <<"index", Env(env, acc.st), StrV(x.n)>>)]
        [] OTHER -> [st |-> k.st, to |-> Append(acc.to, <<"index", t.v, k.v>>)]

Store(st, to, v) ==
  IF to[1] = "cell" THEN IF Ok(st) THEN [st EXCEPT !.cells[to[2]] = v] ELSE st
  ELSE NewIndex(st, to[2], to[3], v)

(* the manual leaves the order of the assignments open; it is the last one *)
(* first                                                                   *)
Assign(st, env, vars, exprs) ==
  LET targets == FoldLeft(LAMBDA acc, x : Target(acc, env, x), [st |-> st, to |-> <<>>], vars)
      r == EvalList(targets.st, env, exprs)
      vs == Adjust(r.vs, Len(vars))
  IN  FoldLeft(LAMBDA s, i : Store(s, targets.to[i], vs[i]), r.st,
               Reverse([i \in DOMAIN vars |-> i]))

(* after the body of a loop: go on, stop, or leave it as well *)
AfterLoop(st) == IF st.ctl = Break THEN Leave(st, Run) ELSE st

RECURSIVE While(_, _, _, _)
While(st, env, cond, body) ==
  LET c == Eval(st, env, cond)
      once == Block(c.st, env, body)
  IN  CASE ~Ok(st) -> st
        [] Ok(st) /\ (~Ok(c.st) \/ IsFalse(c.v)) -> c.st
        [] OTHER -> While(once, env, cond, body)

RECURSIVE Repeat(_, _, _)
Repeat(st, env, scope) ==
  IF Ok(st) THEN Repeat(Block(st, env, scope), env, scope) ELSE st

RECURSIVE If(_, _, _, _, _)
If(st, env, clauses, orelse, i) ==
  LET c == Eval(st, env, clauses[i].cond)
  IN  CASE i > Len(clauses) -> IF orelse = <<>> THEN st ELSE Block(st, env, orelse[1])
        [] i <= Len(clauses) /\ (~Ok(c.st) \/ ~IsFalse(c.v)) ->
             IF Ok(c.st) THEN Block(c.st, env, clauses[i].body) ELSE c.st
        [] OTHER -> If(c.st, env, clauses, orelse, i + 1)

(* the values of a numerical loop: the integers from init, by step, that   *)
(* do not pass the limit; no value wraps around                            *)
LoopValues(init, limit, step) ==
  LET n == Cardinality({k \in 0..Modulus :
             LET v == init + k * step
             IN  v \in LuaInteger /\ IF step > 0 THEN v <= limit ELSE v >= limit})
  IN  [k \in 1..n |-> init + (k - 1) * step]

ForNum(st, env, s) ==
  LET r == EvalList(st, env, <<s.from, [e |-> "paren", x |-> s.to]>> \o
                    IF s.step = <<>> THEN <<[e |-> "int", v |-> 1]>>
                    ELSE <<[e |-> "paren", x |-> s.step[1]]>>)
      Iterate(acc, v) ==
        LET d == Declare(acc, env, <<s.var>>, <<IntV(v)>>)
        IN  IF Ok(acc) THEN Block(d.st, d.env, s.body) ELSE acc
      numbers == \A i \in 1..3 : IsInt(r.vs[i])
  IN  CASE ~Ok(r.st) -> r.st
        [] Ok(r.st) /\ (~numbers \/ r.vs[3] = IntV(0)) -> Fail(r.st)
        [] OTHER -> AfterLoop(FoldLeft(Iterate, r.st,
                                LoopValues(r.vs[1][2], r.vs[2][2], r.vs[3][2])))

Closable(v) == IsFalse(v) \/ IsObj(v)
CloseVars(st, opened) ==
  LET err == IF st.ctl[1] = "error" THEN st.ctl[2] ELSE NilV
  IN  FoldLeft(LAMBDA s, v : IF IsFalse(v) THEN s ELSE Seen(s, <<"CLOSE", v, err>>),
               st, Reverse(opened))

RECURSIVE ForInLoop(_, _, _, _, _)
ForInLoop(st, env, s, init, control) ==
  LET r == CallValue(st, init[1], <<init[2], control>>)
      vs == Adjust(r.vs, Len(s.names))
      d == Declare(r.st, env, s.names, vs)
  IN  CASE ~Ok(st) -> st
        [] Ok(st) /\ (~Ok(r.st) \/ First(vs) = NilV) -> r.st
        [] OTHER -> ForInLoop(Block(d.st, d.env, s.body), env, s, init, vs[1])

ForIn(st, env, s) ==
  LET r == EvalList(st, env, s.exprs)
      init == Adjust(r.vs, 4)
  IN  CASE ~Ok(r.st) -> r.st
        [] Ok(r.st) /\ ~Closable(init[4]) -> Fail(r.st)
        [] OTHER -> AfterLoop(CloseVars(ForInLoop(r.st, env, s, init, init[3]),
                                        <<init[4]>>))

(* every statement but those that change the environment *)
Statement(st, env, s) ==
  LET c == Eval(st, env, s.cond)
      r == EvalList(st, env, s.exprs)
  IN  CASE s.s = "assign"   -> Assign(st, env, s.vars, s.exprs)
        [] s.s = "call"     -> EvalMulti(st, env, s.x).st
        [] s.s = "do"       -> Block(st, env, s.body)
        [] s.s = "while"    -> AfterLoop(While(st, env, s.cond, s.body))
        [] s.s = "repeat"   -> AfterLoop(Repeat(st, env, Append(s.body,
                                 [s |-> "until", cond |-> s.cond])))
        [] s.s = "until"    -> IF Ok(c.st) /\ ~IsFalse(c.v) THEN Leave(c.st, Break)
                               ELSE c.st
        [] s.s = "if"       -> If(st, env, s.clauses, s.orelse, 1)
        [] s.s = "fornum"   -> ForNum(st, env, s)
        [] s.s = "forin"    -> ForIn(st, env, s)
        [] s.s = "function" -> LET t == Target([st |-> st, to |-> <<>>], env, s.x)
                                   f == NewFunction(t.st, env, s.f)
                               IN  Store(f.st, t.to[1], f.v)
        [] s.s = "return"   -> IF Ok(r.st) THEN Leave(r.st, <<"return", r.vs>>) ELSE r.st
        [] s.s = "break"    -> Leave(st, Break)
        [] s.s = "goto"     -> Leave(st, <<"goto", s.label>>)
        [] s.s = "label"    -> st

(* local x <close>: the value must be closable *)
Local(st, env, s) ==
  LET r == EvalList(st, env, s.exprs)
      vs == Adjust(r.vs, Len(s.names))
      d == Declare(r.st, env, s.names, vs)
      toclose == SelectSeq([i \in DOMAIN vs |-> i], LAMBDA i : s.attribs[i] = "TOCLOSE")
      ok == \A i \in DOMAIN toclose : Closable(vs[toclose[i]])
  IN  IF ~Ok(r.st) THEN [st |-> r.st, env |-> env, opened |-> <<>>]
      ELSE [st |-> IF ok THEN d.st ELSE Fail(d.st), env |-> d.env,
            opened |-> IF ok THEN [i \in DOMAIN toclose |-> vs[toclose[i]]] ELSE <<>>]

LocalFunction(st, env, s) ==
  LET d == Declare(st, env, <<s.name>>, <<NilV>>)
      f == NewFunction(d.st, d.env, s.f)
  IN  [st |-> [f.st EXCEPT !.cells[d.env[s.name]] = f.v], env |-> d.env, opened |-> <<>>]

(* The statements of a block from the i-th on.  'opened' are the variables *)
(* to close when it is left; a goto back to a label of the block closes    *)
(* those that were declared after the label ('labels' remembers it).       *)
Scope(st, env, body, i, opened, labels) ==
  LET s == body[i]
      target == {j \in DOMAIN body : body[j].s = "label" /\ <<"goto", body[j].label>> = st.ctl}
      j == Min(target)
      label == st.ctl[2]
      back == label \in DOMAIN labels
      n == IF back THEN labels[label].n ELSE Len(opened)
      at == IF back THEN labels[label].env ELSE env
      next == CASE s.s = "local"     -> Local(st, env, s)
                [] s.s = "localfunc" -> LocalFunction(st, env, s)
                [] OTHER -> [st |-> Statement(st, env, s), env |-> env, opened |-> <<>>]
      known == IF s.s = "label" THEN (s.label :> [env |-> env, n |-> Len(opened)]) @@ labels
               ELSE labels
  IN  CASE ~Ok(st) /\ target # {} ->
             Scope(CloseVars(Leave(st, Run), SubSeq(opened, n + 1, Len(opened))),
                   at, body, j, SubSeq(opened, 1, n), labels)
        [] Ok(st) /\ i <= Len(body) ->
             Scope(next.st, next.env, body, i + 1, opened \o next.opened, known)
        [] OTHER -> CloseVars(st, opened)

(* The outcome of a chunk called with some arguments: what it makes        *)
(* visible, and its results or its error.                                  *)
Outcome(chunk, args) ==
  LET main == [method |-> FALSE, params |-> <<>>, body |-> chunk]
      r == CallLua([cells |-> <<Tab(1)>>, tables |-> <<Globals>>,
                    funs |-> <<[f |-> main, env |-> "_ENV" :> 1]>>,
                    trace |-> <<>>, ctl |-> Run], 1, args)
  IN  [trace |-> r.st.trace,
       status |-> IF Ok(r.st) THEN <<"done", r.vs>> ELSE r.st.ctl]
===============================================================================
