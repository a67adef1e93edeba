------------------------------- MODULE LuaArith -------------------------------
(***************************************************************************)
(* The integer arithmetic of Lua 5.4.6 (tar/lua-5.4.6/src/lvm.c and        *)
(* lobject.c): what the compiler folds and the virtual machine executes,   *)
(* on lua_Integers of NBITS bits.  The C operators the code is written     *)
(* with (division that truncates, unsigned subtraction that wraps, shifts  *)
(* of the unsigned representation) are defined here as C defines them.     *)
(***************************************************************************)
EXTENDS Integers, FiniteSetsExt

CONSTANT NBITS  \* bits of a lua_Integer: 64 in the code

ArithAssumption == NBITS \in Nat \ {0, 1}

Modulus == 2^NBITS
LUA_MAXINTEGER == 2^(NBITS - 1) - 1
LUA_MININTEGER == -(2^(NBITS - 1))
LuaInteger == LUA_MININTEGER..LUA_MAXINTEGER

S2U(i) == i % Modulus
U2S(u) == IF u > LUA_MAXINTEGER THEN u - Modulus ELSE u
(* the result of unsigned arithmetic, cast back: intop *)
Wrap(n) == U2S(n % Modulus)

-----------------------------------------------------------------------------
(* The operators of C.                                                     *)

Abs(n) == IF n < 0 THEN -n ELSE n
CDiv(m, n) == IF (m < 0) = (n < 0) THEN Abs(m) \div Abs(n)
                                   ELSE -(Abs(m) \div Abs(n))
CRem(m, n) == m - n * CDiv(m, n)

Bit(n, i) == (S2U(n) \div 2^i) % 2
Bitwise2(F(_, _), m, n) ==
  U2S(MapThenSumSet(LAMBDA i : F(Bit(m, i), Bit(n, i)) * 2^i, 0..NBITS - 1))

-----------------------------------------------------------------------------
(* Division: floor, although C truncates.  A zero divisor is the caller's  *)
(* error; -1 is special because mininteger / -1 traps.                     *)

IsZeroOrMinusOne(n) == (S2U(n) + 1) % Modulus <= 1

IDiv(m, n) ==
  IF IsZeroOrMinusOne(n) THEN Wrap(-m)
  ELSE CDiv(m, n) - IF (m < 0) # (n < 0) /\ CRem(m, n) # 0 THEN 1 ELSE 0

Mod(m, n) ==
  IF IsZeroOrMinusOne(n) THEN 0
  ELSE CRem(m, n) + IF CRem(m, n) # 0 /\ (CRem(m, n) < 0) # (n < 0) THEN n ELSE 0

ShiftL(x, y) ==
  CASE y <= -NBITS         -> 0
    [] -NBITS < y /\ y < 0 -> U2S(S2U(x) \div 2^(-y))
    [] 0 <= y /\ y < NBITS -> Wrap(S2U(x) * 2^y)
    [] y >= NBITS          -> 0
ShiftR(x, y) == ShiftL(x, Wrap(-y))

(* intarith: the operators on integers that both folding and execution use *)
IntArith(op, m, n) ==
  CASE op = "ADD"  -> Wrap(m + n)
    [] op = "SUB"  -> Wrap(m - n)
    [] op = "MUL"  -> Wrap(m * n)
    [] op = "MOD"  -> Mod(m, n)
    [] op = "IDIV" -> IDiv(m, n)
    [] op = "BAND" -> Bitwise2(LAMBDA x, y : x * y, m, n)
    [] op = "BOR"  -> Bitwise2(LAMBDA x, y : IF x + y > 0 THEN 1 ELSE 0, m, n)
    [] op = "BXOR" -> Bitwise2(LAMBDA x, y : (x + y) % 2, m, n)
    [] op = "SHL"  -> ShiftL(m, n)
    [] op = "SHR"  -> ShiftR(m, n)
    [] op = "UNM"  -> Wrap(-m)
    [] op = "BNOT" -> Bitwise2(LAMBDA x, y : (x + y) % 2, -1, m)

-----------------------------------------------------------------------------
(* The numerical loop.  A limit is given in halves, so that 2 * i stands   *)
(* for the integer i, an odd number for a float between two integers, and  *)
(* what is out of range for a float that no integer can represent.         *)

FloorOfHalves(lim) == lim \div 2
CeilOfHalves(lim) == (lim + 1) \div 2

(* forlimit: the limit as an integer, clipped to the range of integers *)
ClippedLimit(lim, step) ==
  LET i == IF step < 0 THEN CeilOfHalves(lim) ELSE FloorOfHalves(lim)
  IN  IF i \in LuaInteger THEN i
      ELSE IF lim > 0 THEN LUA_MAXINTEGER ELSE LUA_MININTEGER

(* no value in that direction is representable, or none is before the limit *)
ForLimitSkips(init, lim, step) ==
  LET i == IF step < 0 THEN CeilOfHalves(lim) ELSE FloorOfHalves(lim)
  IN  \/ i \notin LuaInteger /\ (lim > 0) = (step < 0)
      \/ IF step > 0 THEN init > ClippedLimit(lim, step)
                     ELSE init < ClippedLimit(lim, step)

(* the number of iterations after the first, an unsigned integer *)
ForCount(init, limit, step) ==
  IF step > 0 THEN S2U(S2U(limit) - S2U(init)) \div S2U(step)
  ELSE S2U(S2U(init) - S2U(limit)) \div (S2U(-(step + 1)) + 1)

(* OP_FORPREP and OP_FORLOOP together: the values of the control variable, *)
(* which is incremented without a check because the count bounds it        *)
ForValues(init, lim, step) ==
  IF ForLimitSkips(init, lim, step) THEN <<>>
  ELSE [i \in 1..ForCount(init, ClippedLimit(lim, step), step) + 1 |->
          Wrap(init + (i - 1) * step)]

-----------------------------------------------------------------------------
(* luaO_ceillog2 *)
CeilLog2(x) == CHOOSE l \in 0..x : 2^l >= x /\ (l = 0 \/ 2^(l - 1) < x)
===============================================================================
