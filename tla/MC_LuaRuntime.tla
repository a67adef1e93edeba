---------------------------- MODULE MC_LuaRuntime ----------------------------
EXTENDS LuaRuntime

CONSTANTS co1, co2

(* The abstract state, computed once for each state. *)
VARIABLE view

F(p) == [op \in Operations |-> IF op \in DOMAIN p THEN p[op] ELSE 0]
(* Families of programs; in none of them a coroutine that yielded or failed *)
(* inside xpcall is closed (see CloseFuel).                                *)
MCFuel == {
  F([tbc |-> 2, pcall |-> 1, resume |-> 1, yield |-> 1, error |-> 2]),
  F([tbc |-> 1, pcall |-> 1, resume |-> 2, yield |-> 1, error |-> 1]),
  F([tbc |-> 1, xpcall |-> 1, pcall |-> 1, error |-> 2, call |-> 1]),
  F([tbc |-> 1, xpcall |-> 1, resume |-> 2, yield |-> 1, error |-> 2]),
  F([xpcall |-> 1, pcall |-> 1, cfunction |-> 1, error |-> 3]),
  F([tbc |-> 1, pcall |-> 2, resume |-> 1, error |-> 1]),
  F([tbc |-> 2, pcall |-> 2, cfunction |-> 1, error |-> 2]),
  F([tbc |-> 2, cfunction |-> 1, resume |-> 2, yield |-> 1]),
  F([tbc |-> 2, close |-> 1, resume |-> 1, yield |-> 1, error |-> 2]),
  F([tbc |-> 1, close |-> 1, resume |-> 1, wrap |-> 1, yield |-> 1, error |-> 1]),
  F([tbc |-> 1, pcall |-> 1, resume |-> 1, wrap |-> 1, error |-> 2]),
  F([tbc |-> 2, wrap |-> 2, yield |-> 1, error |-> 2]) }

(* coroutine.close of a coroutine that yielded inside xpcall *)
CloseFuel ==
  {F([tbc |-> 1, xpcall |-> 1, close |-> 1, resume |-> 1, yield |-> 1, error |-> 1])}

MCInit == Init /\ view = View
MCNext == Next /\ view' = View'
MCSpec == MCInit /\ [][MCNext]_<<vars, view>>

Promised == INSTANCE LuaControl WITH
  T <- view.T, chain <- view.chain, raising <- view.raising,
  Variables <- 1..3, Errors <- (1..3) \X {0}

(* The interpreter with its C stack, its jumps and the redone calls does   *)
(* what LuaControl says: no variable is closed twice, too early or not at  *)
(* all, pcall returns the latest error, a yield is refused exactly when a  *)
(* C function is in the way (ldo.c, luaF_close, lcorolib.c).               *)
KeepsItsPromise == Promised!Spec
=============================================================================
