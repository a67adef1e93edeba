---------------------------- MODULE MC_GitIndex ----------------------------
(* GitIndex in one terminal, one command after the other, or among other   *)
(* programs; there what the files contain makes no difference: they do not *)
(* change, and refresh_gitignore is called in the top directory.           *)
EXTENDS GitIndex

VARIABLE alone

Running == {p \in Others : Alive(p)} \cup (IF Quiet THEN {} ELSE {Refresh})
OneAtATime ==
  /\ Cardinality(Running) <= 1
  /\ lock.held => Alive(lock.by)
  /\ \A m \in Removers : remover[m] = "idle"

Uniform == \A f, g \in Files : worktree[f] = worktree[g] /\ head[f] = head[g]

MCInit == Init /\ alone \in BOOLEAN /\ Uniform
MCNext ==
  /\ Next
  /\ IF alone THEN OneAtATime' ELSE UNCHANGED <<worktree, ignored>> /\ refresh'.here = Files
  /\ UNCHANGED alone
MCSpec == MCInit /\ [][MCNext]_<<vars, alone>>

(* With nothing else running refresh_gitignore (git_help.sh:230-236), in   *)
(* the top directory or in another one, after any edits, 'git add's and    *)
(* commits, commits of the files in its directory those that exist and are *)
(* not ignored; of those that exist and are ignored, none, unless 'git rm' *)
(* refused to lose what was staged: then those that were tracked; and of   *)
(* the files elsewhere what had been staged.                               *)
RefreshedWhenAlone ==
  [][alone /\ RefreshDone /\ refresh.at = "commit" =>
       \A f \in Files :
         head'[f] = IF f \in refresh.here /\ (f \in ignored => ~cleared /\ index.tree[f] # Absent)
                      THEN worktree[f]
                    ELSE IF f \in refresh.here THEN Absent ELSE index.tree[f]]_vars
=============================================================================
