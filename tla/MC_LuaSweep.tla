---------------------------- MODULE MC_LuaSweep ----------------------------
(* LuaSweep with and without failures of the allocator.                    *)
EXTENDS LuaSweep

VARIABLE plenty  \* there is always memory

MCInit == Init /\ plenty \in BOOLEAN
MCNext == Next /\ (plenty => emergencygc' = "none") /\ UNCHANGED plenty
MCFairSpec == MCInit /\ [][MCNext]_<<vars, plenty>> /\ Fairness

(* What waits for its finalizer gets it, if memory does not run out: new   *)
(* cycles, full collections and the closing of the state do not put it off *)
(* for ever.                                                               *)
PendingIsFinalized ==
  \A o \in Objects : (plenty /\ o \in ToSet(tobefnz)) ~> o \notin ToSet(tobefnz)
=============================================================================
