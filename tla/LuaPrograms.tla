----------------------------- MODULE LuaPrograms ------------------------------
(***************************************************************************)
(* Programs for the compiler and the virtual machine: families of all the  *)
(* expressions and control structures of some shape, and hand-written ones *)
(* for the rest of the language.                                           *)
(***************************************************************************)
EXTENDS Integers, Sequences

-----------------------------------------------------------------------------
(* Syntax trees.                                                           *)

N(n) == [e |-> "name", n |-> n]
K(i) == [e |-> "int", v |-> i]
S(x) == [e |-> "str", str |-> x]
NilE == [e |-> "nil"]
TrueE == [e |-> "true"]
FalseE == [e |-> "false"]
Dots == [e |-> "dots"]
Bin(op, l, r) == [e |-> "bin", op |-> op, l |-> l, r |-> r, x |-> l]
Un(op, x) == [e |-> "un", op |-> op, x |-> x]
Paren(x) == [e |-> "paren", x |-> x]
Idx(t, k) == [e |-> "index", t |-> t, key |-> k]
CallE(f, args) == [e |-> "call", f |-> f, args |-> args]
Meth(o, name, args) == [e |-> "method", o |-> o, name |-> name, args |-> args]
Func(params, body) ==
  [e |-> "func", method |-> FALSE, params |-> params, vararg |-> FALSE, body |-> body]
VFunc(params, body) == [Func(params, body) EXCEPT !.vararg = TRUE]
MFunc(params, body) == [Func(params, body) EXCEPT !.method = TRUE]
Table(fields) == [e |-> "table", fields |-> fields]
Item(v) == [key |-> <<>>, val |-> v]
Field(k, v) == [key |-> <<k>>, val |-> v]

LocalA(names, attribs, exprs) ==
  [s |-> "local", names |-> names, attribs |-> attribs, exprs |-> exprs]
Local(names, exprs) == LocalA(names, [i \in DOMAIN names |-> "REG"], exprs)
ToClose1(name, x) == LocalA(<<name>>, <<"TOCLOSE">>, <<x>>)
Const1(name, x) == LocalA(<<name>>, <<"CONST">>, <<x>>)
Assign(vars, exprs) == [s |-> "assign", vars |-> vars, exprs |-> exprs]
Do(body) == [s |-> "do", body |-> body]
CallS(f, args) == [s |-> "call", x |-> CallE(f, args)]
Out(args) == CallS(N("out"), args)
While(c, body) == [s |-> "while", cond |-> c, body |-> body]
Repeat(body, c) == [s |-> "repeat", body |-> body, cond |-> c]
If(c, body) == [s |-> "if", clauses |-> <<[cond |-> c, body |-> body]>>, orelse |-> <<>>]
IfElse(c, body, orelse) == [If(c, body) EXCEPT !.orelse = <<orelse>>]
For(var, from, to, step, body) ==
  [s |-> "fornum", var |-> var, from |-> from, to |-> to, step |-> step, body |-> body]
ForIn1(names, exprs, body) ==
  [s |-> "forin", names |-> names, exprs |-> exprs, body |-> body]
FunctionS(x, f) == [s |-> "function", x |-> x, f |-> f]
LocalFunc(name, f) == [s |-> "localfunc", name |-> name, f |-> f]
Ret1(exprs) == [s |-> "return", exprs |-> exprs]
BreakS == [s |-> "break"]
GotoS(l) == [s |-> "goto", label |-> l]
LabelS(l) == [s |-> "label", label |-> l]

-----------------------------------------------------------------------------
(* A program is named by the family it belongs to and the choices made.    *)

(* Conditions: every and/or of two terms, or three, negated or not, where  *)
(* the value is used in one of the ways that the code generator tells      *)
(* apart.                                                                  *)

Terms == <<N("a"), N("b"), K(1), NilE, FalseE, Bin("LT", N("a"), K(2)),
           Bin("EQ", N("b"), N("a")), Un("NOT", N("a")), N("g")>>
Few == <<N("b"), Un("NOT", N("a")), Bin("LE", N("a"), K(1)), TrueE>>
Connectives == {"AND", "OR"}

Condition(c) ==
  CASE c[1] = "two"   -> Bin(c[2], Terms[c[3]], Terms[c[4]])
    [] c[1] = "left"  -> Bin(c[2], Bin(c[3], Few[c[4]], Few[c[5]]), Few[c[6]])
    [] c[1] = "right" -> Bin(c[2], Few[c[4]], Paren(Bin(c[3], Few[c[5]], Few[c[6]])))
ConditionIds ==
  ({"two"} \X Connectives \X (1..9) \X (1..9)) \cup
  ({"left", "right"} \X Connectives \X Connectives \X (1..4) \X (1..4) \X (1..4))

UseOf(use, x) ==
  CASE use = "local" -> <<Local(<<"a", "b">>, <<K(1)>>), Local(<<"c">>, <<x>>), Ret1(<<N("c"), x>>)>>
    [] use = "assign" -> <<Local(<<"b", "a">>, <<K(1)>>), Assign(<<N("a")>>, <<x>>), Ret1(<<N("a")>>)>>
    [] use = "if" -> <<Local(<<"a", "b">>, <<K(2), FalseE>>),
                       IfElse(x, <<Ret1(<<K(1)>>)>>, <<Ret1(<<K(2)>>)>>)>>
    [] use = "while" -> <<Local(<<"a", "b">>, <<NilE, K(0)>>), While(Un("NOT", Paren(x)), <<BreakS>>),
                          Ret1(<<Bin("EQ", x, K(0))>>)>>
    [] use = "not" -> <<Local(<<"a", "b">>, <<K(1)>>),
                        Assign(<<N("b")>>, <<Un("NOT", Paren(x))>>), Ret1(<<N("b"), x>>)>>
Uses == {"local", "assign", "if", "while", "not"}

-----------------------------------------------------------------------------
(* Operations: each operator with every kind of operand, those that leave  *)
(* jumps pending (to a false value, to a true one) among them.             *)

Operands == <<N("a"), N("o1"), K(3), K(-8), K(100), S("s"), N("n"), K(0), K(-128),
              Paren(Bin("AND", N("o1"), N("a"))), Paren(Bin("OR", N("n"), N("o1")))>>
Ops == {"ADD", "SUB", "MUL", "MOD", "IDIV", "BAND", "BOR", "BXOR", "SHL", "SHR",
        "EQ", "NE", "LT", "LE", "GT", "GE", "CONCAT"}
OperationIds == {t \in Ops \X (1..11) \X (1..11) :
                   6 \in {t[2], t[3]} => t[1] \in {"EQ", "NE", "CONCAT"}}
Operation(op, i, j) ==
  <<Local(<<"a", "o1", "n">>, <<K(-7), N("o2")>>),
    Ret1(<<Bin(op, Operands[i], Operands[j])>>)>>
Unary(op, i) ==
  <<Local(<<"a", "n">>, <<Operands[i]>>), Ret1(<<Un(op, N("a")), Un(op, Operands[i])>>)>>

-----------------------------------------------------------------------------
(* Scopes: a loop whose body declares a variable, to be closed or not, and *)
(* captures it or not, and is left in one way or another.                  *)

Exits == <<<<>>, <<If(Bin("EQ", N("i"), K(2)), <<BreakS>>)>>,
          <<If(Bin("EQ", N("i"), K(1)), <<GotoS("continue")>>)>>,
          <<If(Bin("EQ", N("i"), K(2)), <<GotoS("out")>>)>>,
          <<If(Bin("EQ", N("i"), K(2)), <<Out(<<N("x")>>), BreakS>>)>>,
          <<If(Bin("EQ", N("i"), K(2)), <<Ret1(<<N("x"), CallE(N("id"), <<N("i")>>)>>)>>)>>,
          <<If(Bin("EQ", N("i"), K(2)), <<Ret1(<<CallE(N("id"), <<N("x"), N("i")>>)>>)>>)>>,
          <<If(Bin("EQ", N("i"), K(2)), <<CallS(N("error"), <<N("i")>>)>>)>>>>

Capture1 == Assign(<<Idx(N("t"), N("i"))>>,
  <<Func(<<>>, <<Assign(<<N("y")>>, <<Bin("ADD", N("y"), K(1))>>), Ret1(<<N("y")>>)>>)>>)
LoopBody(toclose, captured, exit) ==
  (IF toclose THEN <<ToClose1("x", N("o1"))>> ELSE <<Local(<<"x">>, <<K(5)>>)>>) \o
  <<Local(<<"y">>, <<N("i")>>)>> \o
  (IF captured THEN <<Capture1>> ELSE <<>>) \o exit \o <<Out(<<N("i"), N("y")>>)>>

Increment == Assign(<<N("i")>>, <<Bin("ADD", N("i"), K(1))>>)
Iterator == Func(<<"s", "c">>, <<If(Bin("LT", N("c"), N("s")),
                                     <<Ret1(<<Bin("ADD", N("c"), K(1)), N("s")>>)>>)>>)
LoopOf(kind, body) ==
  CASE kind = "for"    -> <<For("i", K(1), K(3), <<>>, Append(body, LabelS("continue")))>>
    [] kind = "while"  -> <<Local(<<"i">>, <<K(0)>>), While(Bin("LT", N("i"), K(3)),
                            <<Increment, Do(body), LabelS("continue")>>)>>
    [] kind = "repeat" -> <<Local(<<"i">>, <<K(0)>>), Repeat(
                            <<Increment, Do(body), LabelS("continue"), Local(<<"z">>, <<N("i")>>)>>
                            \o <<Assign(<<Idx(N("t"), K(9))>>, <<Func(<<>>, <<Ret1(<<N("z")>>)>>)>>)>>,
                            Bin("GE", N("z"), K(3)))>>
    [] kind = "in"     -> <<ForIn1(<<"i", "s">>, <<Iterator, K(3), K(0), N("o2")>>,
                                   Append(body, LabelS("continue")))>>
    [] kind = "goto"   -> <<While(TrueE, <<Local(<<"i">>, <<K(0)>>), LabelS("top"), Increment>>
                            \o body \o <<LabelS("continue"),
                            If(Bin("LT", N("i"), K(3)), <<GotoS("top")>>), BreakS>>)>>

LoopKinds == {"for", "while", "repeat", "in", "goto"}
Scope(k, toclose, captured, exit) ==
  <<Local(<<"t">>, <<Table(<<>>)>>), Do(LoopOf(k, LoopBody(toclose, captured, Exits[exit]))),
    LabelS("out"), Do(<<Local(<<"p">>, <<K(7)>>),
      If(Idx(N("t"), K(2)), <<Out(<<CallE(Idx(N("t"), K(2)), <<>>), CallE(Idx(N("t"), K(1)), <<>>)>>)>>),
      If(Idx(N("t"), K(2)), <<Ret1(<<CallE(Idx(N("t"), K(2)), <<>>)>>)>>)>>)>>

-----------------------------------------------------------------------------
(* The rest of the language.                                               *)

Froms == {-128, 0, 120}
Tos == {-128, -3, 0, 127}
Steps == {-100, -7, 0, 9, 127}
Loop(from, to, step) ==
  <<Local(<<"n">>, <<K(0)>>), For("i", K(from), K(to), <<K(step)>>,
      <<Assign(<<N("n")>>, <<Bin("ADD", N("n"), K(1))>>), Assign(<<N("i")>>, <<K(0)>>)>>),
    Ret1(<<N("n")>>)>>

Targets == <<
  <<N("i"), Idx(N("t"), N("i"))>>, <<Idx(N("t"), N("i")), N("i")>>,
  <<Idx(N("t"), N("i")), N("t")>>, <<N("u"), Idx(N("t"), K(1)), N("i")>>,
  <<N("g"), Idx(N("t"), N("i")), N("i"), Idx(N("t"), N("i"))>>>>
Sources == <<
  <<K(2), K(2)>>, <<K(2)>>, <<CallE(N("id"), <<K(2), K(1)>>)>>,
  <<K(2), CallE(N("id"), <<>>)>>, <<K(2), K(1), Dots>>, <<Paren(Dots), NilE, NilE, K(2)>>>>
Assignment(i, j) ==
  <<Local(<<"i", "t", "u">>, <<K(1), Table(<<Item(K(5)), Item(K(6))>>)>>), Local(<<"v">>, <<N("t")>>),
    Assign(Targets[i], Sources[j]),
    Ret1(<<N("i"), Idx(N("v"), K(1)), Idx(N("v"), K(2)), N("u"), N("t")>>)>>

Constructors == <<
  <<>>, <<Item(K(1)), Item(K(2)), Item(K(3)), Item(K(4)), Item(K(5))>>,
  <<Item(K(1)), Field(S("x"), K(9)), Item(K(2)), Item(Dots)>>,
  <<Item(Dots), Item(CallE(N("id"), <<K(7), K(8)>>))>>,
  <<Field(K(5), NilE), Item(Paren(Dots)), Item(Table(<<Item(Dots)>>))>>,
  <<Field(S("x"), N("o1")), Field(K(1), K(3)), Item(K(2)), Item(NilE)>>,
  [i \in 1..17 |-> Item(K(i))]>>
TableOf(i) ==
  <<Local(<<"t">>, <<Table(Constructors[i])>>),
    Ret1(<<Un("LEN", N("t")), Idx(N("t"), K(1)), Idx(N("t"), S("x")), Idx(N("t"), K(5))>>)>>

Ups == Bin("ADD", N("a"), N("b"))
Hand == <<
  (* a variable and an upvalue that an assignment sets and uses *)
  <<Local(<<"t">>, <<Table(<<>>)>>),
    LocalFunc("f", Func(<<>>, <<Assign(<<Idx(N("t"), K(1)), N("t")>>, <<K(1), K(2)>>),
                                Ret1(<<N("t")>>)>>)), Local(<<"u">>, <<N("t")>>),
    Ret1(<<CallE(N("f"), <<>>), Idx(N("u"), K(1))>>)>>,
  <<Local(<<"e">>, <<N("_ENV")>>), LocalFunc("f", Func(<<>>, <<
      Assign(<<N("g"), N("_ENV")>>, <<K(4), Table(<<>>)>>), Assign(<<N("g")>>, <<K(3)>>),
      Ret1(<<N("g")>>)>>)),
    Ret1(<<CallE(N("f"), <<>>), Idx(N("e"), S("g"))>>)>>,
  <<For("i", K(-1), NilE, <<>>, <<Out(<<N("i")>>)>>)>>,
  (* varargs: fixed parameters, too few and too many arguments *)
  <<LocalFunc("f", VFunc(<<"a", "b">>, <<Out(<<N("a"), Dots>>), Ret1(<<Dots>>)>>)),
    Out(<<CallE(N("f"), <<>>)>>), Out(<<CallE(N("f"), <<K(1), K(2), K(3), K(4)>>), K(0)>>),
    Ret1(<<CallE(N("f"), <<Dots, Dots>>)>>)>>,
  (* a tail call of a vararg function by another, and of C functions *)
  <<LocalFunc("f", VFunc(<<"n">>, <<If(Bin("EQ", N("n"), K(0)), <<Ret1(<<Dots>>)>>),
      Ret1(<<CallE(N("f"), <<Bin("SUB", N("n"), K(1)), N("n"), Dots>>)>>)>>)),
    LocalFunc("g", Func(<<"x", "y">>, <<Ret1(<<CallE(N("f"), <<N("x"), N("y")>>)>>)>>)),
    Out(<<CallE(N("g"), <<K(3), S("y")>>)>>),
    Local(<<"p", "q", "r">>, <<CallE(N("g"), <<K(2)>>)>>),
    Out(<<N("p"), N("q"), N("r")>>), Ret1(<<CallE(N("o1"), <<K(1), Dots>>)>>)>>,
  (* a tail call closes the variables that its caller's closures share *)
  <<Local(<<"t">>, <<Table(<<>>)>>),
    LocalFunc("g", Func(<<"x">>, <<Assign(<<N("x")>>, <<K(0)>>), Ret1(<<CallE(Idx(N("t"), K(1)), <<>>)>>)>>)),
    LocalFunc("f", Func(<<"v", "w">>, <<
      Assign(<<Idx(N("t"), K(1))>>, <<Func(<<>>, <<Assign(<<N("v")>>, <<Bin("ADD", N("v"), K(1))>>),
                                                 Ret1(<<N("v")>>)>>)>>),
      Ret1(<<CallE(N("g"), <<N("v")>>)>>)>>)),
    Out(<<CallE(N("f"), <<K(7)>>)>>), Ret1(<<CallE(Idx(N("t"), K(1)), <<>>)>>)>>,
  (* two closures share a variable, through two levels of functions *)
  <<Local(<<"a", "b">>, <<K(1), K(2)>>),
    LocalFunc("f", Func(<<"c">>, <<Local(<<"d">>, <<K(5)>>),
      Ret1(<<Func(<<>>, <<Assign(<<N("a"), N("d")>>, <<Bin("ADD", N("a"), N("d")), N("c")>>),
                          Ret1(<<Ups>>)>>),
             Func(<<>>, <<Ret1(<<Func(<<>>, <<Ret1(<<N("d"), N("a"), N("c")>>)>>)>>)>>)>>)>>)),
    Local(<<"p", "q">>, <<CallE(N("f"), <<K(9)>>)>>),
    Out(<<CallE(N("p"), <<>>), CallE(CallE(N("q"), <<>>), <<>>)>>),
    Assign(<<N("b")>>, <<K(30)>>), Ret1(<<CallE(N("p"), <<>>), N("a")>>)>>,
  (* a variable captured from an inner block is closed with its own block *)
  <<Local(<<"t">>, <<Table(<<>>)>>),
    For("i", K(1), K(2), <<>>, <<Local(<<"y">>, <<N("i")>>),
      Do(<<Local(<<"z">>, <<K(9)>>),
           Assign(<<Idx(N("t"), N("i"))>>, <<Func(<<>>, <<Ret1(<<N("y")>>)>>)>>)>>),
      Assign(<<N("y")>>, <<Bin("ADD", N("y"), K(5))>>)>>),
    Ret1(<<CallE(Idx(N("t"), K(1)), <<>>), CallE(Idx(N("t"), K(2)), <<>>)>>)>>,
  (* the value of 'or' as an operand does not go to the local's register *)
  <<Local(<<"a", "b">>, <<K(7), K(5)>>), Out(<<Bin("ADD", Paren(Bin("OR", N("b"), N("a"))), N("a"))>>),
    Ret1(<<N("a"), N("b"), Un("UNM", Paren(Bin("AND", N("a"), N("b"))))>>)>>,
  (* nils that a jump may skip are not merged with those after it *)
  <<Out(<<K(1), K(2)>>), If(N("g"), <<Local(<<"x">>, <<>>)>>), Local(<<"y", "z">>, <<>>),
    Out(<<N("y"), N("z")>>), While(N("y"), <<Local(<<"w">>, <<>>)>>), Local(<<"v">>, <<>>),
    Ret1(<<N("v")>>)>>,
  (* recursion, methods and the metamethods for calls and indices *)
  <<LocalFunc("fact", Func(<<"n">>, <<IfElse(Bin("LE", N("n"), K(1)), <<Ret1(<<K(1)>>)>>,
      <<Ret1(<<Bin("MUL", N("n"), CallE(N("fact"), <<Bin("SUB", N("n"), K(1))>>))>>)>>)>>)),
    Local(<<"t">>, <<Table(<<Field(S("v"), K(4))>>)>>),
    FunctionS(Idx(N("t"), S("get")), MFunc(<<"x">>, <<Ret1(<<Idx(N("self"), S("v")), N("x")>>)>>)),
    Out(<<CallE(N("fact"), <<K(4)>>), Meth(N("t"), "get", <<K(2)>>)>>),
    Assign(<<Idx(N("o1"), S("z")), Idx(N("o2"), K(2))>>, <<Idx(N("o1"), K(3)), Un("LEN", N("o2"))>>),
    Local(<<"r">>, <<CallE(N("o2"), <<K(1), K(2)>>)>>),
    Ret1(<<N("r"), Idx(N("o1"), S("k"))>>)>>,
  (* concatenation is right associative, the operands left to right *)
  <<Local(<<"a", "b">>, <<S("x"), K(5)>>), Out(<<Bin("CONCAT", N("a"), Bin("CONCAT", N("b"), S("")))>>),
    Out(<<Bin("CONCAT", N("a"), Bin("CONCAT", N("o1"), Bin("CONCAT", N("b"), Bin("CONCAT", N("a"), N("b")))))>>),
    Ret1(<<Bin("CONCAT", Bin("CONCAT", N("a"), N("b")), Bin("CONCAT", N("a"), Paren(Bin("OR", N("b"), N("a")))))>>)>>,
  (* more constants than an operand can name, and than a LOADK can *)
  <<Local(<<"t">>, <<Table([i \in 1..12 |-> Field(K(40 + i), K(70 + i))])>>),
    Ret1(<<Idx(N("t"), K(51)), Bin("ADD", Idx(N("t"), K(52)), K(25)), Bin("EQ", Idx(N("t"), K(42)), K(72)),
           Idx(N("t"), S("far"))>>)>>,
  (* the table of constants is shared by functions *)
  <<Local(<<"a">>, <<S("k1")>>),
    LocalFunc("f", Func(<<>>, <<Ret1(<<S("k2"), K(100), S("k1")>>)>>)),
    Ret1(<<S("k2"), CallE(N("f"), <<>>)>>)>>,
  (* local constants, and nils that one instruction sets *)
  <<Const1("c", K(3)), Const1("s", S("x")), Const1("n", NilE), Local(<<"a", "b">>, <<>>),
    Local(<<"d">>, <<>>), Const1("e", N("a")), Local(<<"f">>, <<NilE>>),
    LocalFunc("g", Func(<<>>, <<Ret1(<<Bin("ADD", N("c"), N("c")), N("s"), N("n"), N("e")>>)>>)),
    While(Bin("EQ", N("d"), NilE), <<Local(<<"p">>, <<>>), Local(<<"q">>, <<>>), Assign(<<N("d")>>, <<K(1)>>)>>),
    Ret1(<<N("f"), N("d"), N("b"), CallE(N("g"), <<>>)>>)>>,
  (* to-be-closed variables: nested, false, not closable, and an error *)
  <<ToClose1("x", N("o1")), ToClose1("n", FalseE), Do(<<ToClose1("y", N("o2")), Out(<<K(1)>>)>>),
    LocalFunc("f", Func(<<>>, <<ToClose1("y", N("o2")), Ret1(<<CallE(N("id"), <<N("y"), K(2)>>)>>)>>)),
    Out(<<CallE(N("f"), <<>>)>>), ToClose1("z", K(3))>>,
  <<ToClose1("x", N("o1")), LocalFunc("f", Func(<<"a">>, <<ToClose1("y", N("o2")), Ret1(<<Idx(N("a"), K(1))>>)>>)),
    Local(<<"u">>, <<CallE(N("f"), <<Table(<<Item(K(8))>>)>>)>>), Out(<<N("u")>>),
    Ret1(<<CallE(N("f"), <<NilE>>)>>)>>,
  <<ForIn1(<<"k">>, <<Iterator, K(2), K(0), K(1)>>, <<>>)>>,
  <<ForIn1(<<"k">>, <<Iterator, K(2), K(0)>>, <<>>)>>,
  <<ForIn1(<<"k">>, <<N("o1"), K(2)>>, <<Out(<<N("k")>>), BreakS>>), CallS(NilE, <<>>)>>,
  (* gotos forward and backward over blocks, jumps to jumps *)
  <<Local(<<"i">>, <<K(0)>>), LabelS("a"), Assign(<<N("i")>>, <<Bin("ADD", N("i"), K(1))>>),
    Do(<<Local(<<"y">>, <<N("i")>>), Assign(<<N("g")>>, <<Func(<<>>, <<Ret1(<<N("y")>>)>>)>>),
         If(Bin("EQ", N("i"), K(1)), <<GotoS("a")>>),
         If(Bin("EQ", N("i"), K(2)), <<GotoS("b")>>), Out(<<N("y")>>), GotoS("c")>>),
    LabelS("b"), Out(<<CallE(N("g"), <<>>)>>), GotoS("a"), LabelS("c"), LabelS("d"),
    While(Bin("AND", N("i"), TrueE), <<If(Bin("GT", N("i"), K(2)), <<BreakS>>), GotoS("d")>>)>>,
  <<Local(<<"i", "r">>, <<K(0), K(0)>>),
    Repeat(<<Assign(<<N("i")>>, <<Bin("ADD", N("i"), K(1))>>),
             If(Bin("EQ", N("i"), K(2)), <<BreakS, Out(<<K(0)>>)>>),
             [s |-> "if", clauses |-> <<[cond |-> Bin("LT", N("i"), K(1)), body |-> <<>>],
                [cond |-> FalseE, body |-> <<Out(<<N("i")>>)>>],
                [cond |-> TrueE, body |-> <<While(NilE, <<>>)>>]>>,
              orelse |-> <<<<Out(<<N("r")>>)>>>>]>>, Bin("GT", N("i"), K(3))),
    Ret1(<<N("i"), Un("BNOT", N("i")), Un("NOT", Un("NOT", N("i")))>>)>>>>

-----------------------------------------------------------------------------
(* Programs at the limits of the compiler, which MAXVARS and MAXUPVAL set  *)
(* to 12, and programs that it must refuse.                                *)

Names == <<"a", "b", "c", "d", "e", "f", "g", "h", "i", "j", "l", "m", "n">>
Many(n) == SubSeq(Names, 1, n)
NamesOf(n) == [i \in 1..n |-> N(Names[i])]
Limits == <<
  <<Local(Many(12), <<K(1), K(2)>>), Ret1(<<N("a"), N("m")>>)>>,
  <<Local(Many(6), <<K(1)>>), LocalFunc("p", Func(<<>>, <<Local(Many(11), <<N("a")>>),
      Ret1(<<Func(<<>>, <<Ret1(NamesOf(11))>>)>>)>>)),
    Ret1(<<CallE(CallE(N("p"), <<>>), <<>>)>>)>>,
  <<Local(Many(11), <<K(1)>>), Ret1(<<Func(<<>>, <<Ret1(Append(NamesOf(11), N("z")))>>)>>)>>>>

Refuse(why, body) == [why |-> why, body |-> body]
Refused == <<
  Refuse("too many local variables", <<Local(Many(13), <<K(1)>>)>>),
  Refuse("too many upvalues", <<Local(Many(12), <<K(1)>>),
    Ret1(<<Func(<<>>, <<Ret1(Append(NamesOf(12), N("z")))>>)>>)>>),
  Refuse("too many registers", <<Local(Many(12), <<K(1)>>), Out(<<K(1), K(2)>>)>>),
  Refuse("jumps into the scope of a local",
    <<GotoS("a"), Local(<<"x">>, <<>>), LabelS("a"), Out(<<N("x")>>)>>),
  Refuse("jumps into the scope of a local",
    <<Repeat(<<If(N("g"), <<GotoS("continue")>>), Local(<<"x">>, <<>>), LabelS("continue")>>, N("x"))>>),
  Refuse("no visible label", <<Do(<<LabelS("a")>>), GotoS("a")>>),
  Refuse("no visible label", <<LabelS("a"), LocalFunc("f", Func(<<>>, <<GotoS("a")>>))>>),
  Refuse("no visible label", <<BreakS>>),
  Refuse("label already defined", <<LabelS("a"), Do(<<LabelS("a")>>)>>),
  Refuse("attempt to assign to const variable",
    <<Const1("c", N("g")), LocalFunc("f", Func(<<>>, <<Assign(<<N("c")>>, <<K(1)>>)>>))>>),
  Refuse("attempt to assign to const variable", <<ToClose1("c", NilE), Assign(<<N("c")>>, <<K(1)>>)>>),
  Refuse("multiple to-be-closed variables",
    <<LocalA(<<"x", "y">>, <<"TOCLOSE", "TOCLOSE">>, <<>>)>>),
  Refuse("cannot use '...'", <<LocalFunc("f", Func(<<>>, <<Ret1(<<Dots>>)>>))>>)>>

Ids ==
  ({"condition"} \X Uses \X ConditionIds) \cup ({"operation"} \X OperationIds) \cup
  ({"unary"} \X {"UNM", "BNOT", "NOT", "LEN"} \X ((1..9) \ {6})) \cup
  ({"scope"} \X LoopKinds \X BOOLEAN \X BOOLEAN \X (1..Len(Exits))) \cup
  ({"loop"} \X Froms \X Tos \X Steps) \cup
  ({"assignment"} \X (1..Len(Targets)) \X (1..Len(Sources))) \cup
  ({"table"} \X (1..Len(Constructors))) \cup ({"hand"} \X (1..Len(Hand))) \cup
  ({"limit"} \X (1..Len(Limits))) \cup ({"refused"} \X (1..Len(Refused)))

Program(id) ==
  CASE id[1] = "condition"  -> UseOf(id[2], Condition(id[3]))
    [] id[1] = "operation"  -> Operation(id[2][1], id[2][2], id[2][3])
    [] id[1] = "unary"      -> Unary(id[2], id[3])
    [] id[1] = "scope"      -> Scope(id[2], id[3], id[4], id[5])
    [] id[1] = "loop"       -> Loop(id[2], id[3], id[4])
    [] id[1] = "assignment" -> Assignment(id[2], id[3])
    [] id[1] = "table"      -> TableOf(id[2])
    [] id[1] = "hand"       -> Hand[id[2]]
    [] id[1] = "limit"      -> Limits[id[2]]
    [] id[1] = "refused"    -> Refused[id[2]].body
===============================================================================
