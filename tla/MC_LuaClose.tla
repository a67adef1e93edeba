---------------------------- MODULE MC_LuaClose ----------------------------
(* LuaSweep and the order in which objects were marked for finalization:   *)
(* what lua_close makes of it.                                             *)
EXTENDS LuaSweep

VARIABLE marked  \* objects that have their finalizer before them, the one
                 \* marked last first

Waiting == ToSet(finobj) \cup ToSet(tobefnz)
(* luaC_checkfinalizer marks at most one object at a time; GCTM calls the   *)
(* finalizer of one.                                                       *)
NoteMarked ==
  marked' = SetToSeq(ToSet(finobj)' \ ToSet(finobj)) \o Without(marked, Waiting \ Waiting')

MCInit == Init /\ marked = <<>>
MCNext == Next /\ NoteMarked
MCSpec == MCInit /\ [][MCNext]_<<vars, marked>>

(* doc/manual.html:956: "When you close a state, Lua calls the finalizers  *)
(* of all objects marked for finalization, following the reverse order     *)
(* that they were marked."  The code (luaC_freeallobjects) first calls     *)
(* those of a collection that found objects dead and has not called all of *)
(* their finalizers, though others were marked after them.                 *)
ClosesInReverseOrder == closing = "closing" => tobefnz = marked
=============================================================================
