---------------------------- MODULE Finalization ----------------------------
(***************************************************************************)
(* What the collector does about objects with finalizers (__gc), whatever  *)
(* its lists and pointers: an object that was marked for finalization is   *)
(* not freed before its finalizer was called, the finalizer is called once *)
(* for each time it was marked, and of the objects found dead together     *)
(* (a batch) the one marked last goes first.  A batch waits behind those   *)
(* found before it, and so does the one that closing the state makes of    *)
(* all that is left: separatetobefnz links it at the end of tobefnz.  That *)
(* is the code's order and not the manual's, which has at the close the    *)
(* order of marking, reversed, for all objects (see MC_LuaClose).          *)
(* LuaSweep implements this with its three lists.                          *)
(***************************************************************************)
EXTENDS Lists

CONSTANT Object

VARIABLES
  plain,       \* allocated objects that are not marked for finalization
  registered,  \* those that are, the one marked last first
  pending      \* those whose finalizer is to be called, in that order

vars == <<plain, registered, pending>>

TypeOK ==
  /\ plain \subseteq Object
  /\ registered \in Seq(Object) /\ IsInjective(registered)
  /\ pending \in Seq(Object) /\ IsInjective(pending)

Init == plain = {} /\ registered = <<>> /\ pending = <<>>

Create(o) ==
  /\ o \notin plain \cup ToSet(registered) \cup ToSet(pending)
  /\ plain' = plain \cup {o}
  /\ UNCHANGED <<registered, pending>>

(* An object is marked for finalization; the sweep may get on meanwhile.   *)
Register(o, freed) ==
  /\ o \in plain \ freed
  /\ plain' = plain \ (freed \cup {o})
  /\ registered' = <<o>> \o registered
  /\ UNCHANGED pending

(* A batch of objects is found dead (all of them, when the state is        *)
(* closed); the batches before it go first.                                *)
Separate(S, freed) ==
  /\ pending' = pending \o Kept(registered, S)
  /\ registered' = Without(registered, S)
  /\ plain' = plain \ freed

Call ==
  /\ pending # <<>>
  /\ pending' = Tail(pending)
  /\ plain' = plain \cup {Head(pending)}
  /\ UNCHANGED registered

(* Only objects that wait for no finalizer go back to the allocator.       *)
Free(freed) ==
  /\ plain' = plain \ freed
  /\ UNCHANGED <<registered, pending>>

Next ==
  \/ \E o \in Object : Create(o)
  \/ \E o \in plain, freed \in SUBSET plain : Register(o, freed)
  \/ \E S \in SUBSET ToSet(registered), freed \in SUBSET plain : Separate(S, freed)
  \/ Call
  \/ \E freed \in SUBSET plain : Free(freed)

Spec == Init /\ [][Next]_vars
=============================================================================
