------------------------------- MODULE GitIndex -------------------------------
(***************************************************************************)
(* refresh_gitignore and remove_lock of bash_sh/git_help.sh in a working   *)
(* tree in which other git processes run too (an editor, lazygit, another  *)
(* terminal).  A git command that changes the index creates index.lock,    *)
(* writes the new index into it and renames it to index; if index.lock is  *)
(* there already the command fails, and the scripts go on regardless.      *)
(*                                                                         *)
(* git itself is external and modelled as the scripts use it.  remove_lock *)
(* does not look whose lock it finds, nor whether its owner is alive.      *)
(***************************************************************************)
EXTENDS FiniteSets, Naturals

CONSTANTS
  Files,        \* paths in the working tree
  Contents,     \* what a file may contain
  Absent,       \* ... that does not exist
  Directories,  \* where refresh_gitignore may be called: the files under '.'
  Others,       \* git processes of other programs
  Removers,     \* terminals in which remove_lock is called
  Refresh,      \* the shell that runs refresh_gitignore, and its git process
  Crashes       \* git processes may be killed, refresh_gitignore interrupted

Procs == Others \cup {Refresh}
Empty == [f \in Files |-> Absent]

ASSUME GitAssumption ==
  /\ Refresh \notin Others /\ Absent \notin Contents
  /\ Directories \subseteq SUBSET Files
  /\ Crashes \in BOOLEAN

VARIABLES
  worktree,  \* the files
  ignored,   \* those that .gitignore matches
  index,     \* .git/index: the files in it, who has still to write it ("none": it is whole)
  head,      \* files in the last commit
  lock,      \* .git/index.lock: whether it exists, who created it, the file
  git,       \* the git process of each program
  refresh,   \* refresh_gitignore: the command it has come to, its argument and directory
  remover,   \* remove_lock in each terminal
  taken,     \* remove_lock has removed the lock of a live process
  cleared    \* the 'git rm' of this refresh was not refused

vars == <<worktree, ignored, index, head, lock, git, refresh, remover, taken, cleared>>

File(tree, writer) == [tree |-> tree, writer |-> writer]
NotRunning == [at |-> "none", cmd |-> "add", new |-> Empty]
NoLock == [held |-> FALSE, by |-> Refresh, file |-> File(Empty, "none")]
Alive(p) == git[p].at # "none"
Whole == index.writer = "none"
Quiet == refresh.at = "idle" /\ ~Alive(Refresh)

Init ==
  /\ \E tree \in [Files -> Contents] :
       worktree = tree /\ index = File(tree, "none") /\ head = tree
  /\ ignored = {}
  /\ lock = NoLock
  /\ git = [p \in Procs |-> NotRunning]
  /\ refresh = [at |-> "idle", commit |-> FALSE, here |-> Files]
  /\ remover = [m \in Removers |-> "idle"]
  /\ taken = FALSE /\ cleared = FALSE

-----------------------------------------------------------------------------
(* git. *)

(* 'git add' of a directory: what is there and not ignored, or was tracked. *)
Added(here) ==
  [f \in Files |->
     IF f \in here /\ (index.tree[f] = Absent => f \notin ignored)
       THEN worktree[f] ELSE index.tree[f]]

Result(cmd, here) ==
  CASE cmd = "rm"  -> [f \in Files |-> IF f \in here THEN Absent ELSE index.tree[f]]
    [] cmd = "add" -> Added(here)
    [] OTHER       -> index.tree            \* commit, and status, which only refreshes it

Locked == lock.held \/ ~Whole

(* 'git rm' would lose what was staged: neither the file nor head has it. *)
RmRefused(here) ==
  \E f \in here : index.tree[f] \notin {Absent, worktree[f], head[f]} /\ worktree[f] # Absent

Begin(p, cmd, here) ==
  /\ ~Alive(p) /\ ~Locked
  /\ lock' = [held |-> TRUE, by |-> p, file |-> File(Empty, p)]
  /\ git' = [git EXCEPT ![p] = [at |-> "locked", cmd |-> cmd, new |-> Result(cmd, here)]]

(* What p writes goes into the file it created, whatever its name is now. *)
Write(p) ==
  /\ git[p].at = "locked"
  /\ LET Written(file) == IF file.writer = p THEN File(git[p].new, "none") ELSE file
     IN  lock' = [lock EXCEPT !.file = Written(@)] /\ index' = Written(index)
  /\ git' = [git EXCEPT ![p].at = "written"]
  /\ UNCHANGED <<worktree, ignored, head, refresh, remover, taken, cleared>>

(* rename(index.lock, index): fails when the name is gone, and takes       *)
(* whatever file has the name.                                             *)
Rename(p) ==
  /\ git[p].at = "written"
  /\ git' = [git EXCEPT ![p] = NotRunning]
  /\ IF ~lock.held THEN UNCHANGED <<index, lock, head>>
     ELSE /\ index' = lock.file /\ lock' = NoLock
          /\ head' = IF git[p].cmd = "commit" THEN git[p].new ELSE head

(* A process is killed: nobody will write the file it created. *)
Killed(p) ==
  LET Left(file) == IF file.writer = p THEN [file EXCEPT !.writer = "nobody"] ELSE file
  IN  /\ git' = [git EXCEPT ![p] = NotRunning]
      /\ lock' = [lock EXCEPT !.file = Left(@)]
      /\ index' = Left(index)

-----------------------------------------------------------------------------
(* refresh_gitignore: three commands, none of which is looked at. *)

NextCommand_AddLast(r) ==  \* mutant: committed before the files are added again
  CASE r.at = "rm"     -> [r EXCEPT !.at = IF r.commit THEN "commit" ELSE "add"]
    [] r.at = "commit" -> [r EXCEPT !.at = "add"]
    [] r.at = "add"    -> [r EXCEPT !.at = "idle"]
NextCommand(r) ==
  CASE r.at = "rm"     -> [r EXCEPT !.at = "add"]
    [] r.at = "add"    -> [r EXCEPT !.at = IF r.commit THEN "commit" ELSE "idle"]
    [] r.at = "commit" -> [r EXCEPT !.at = "idle"]

RefreshStart(commit, here) ==
  /\ Quiet
  /\ refresh' = [at |-> "rm", commit |-> commit, here |-> here]
  /\ cleared' = FALSE
  /\ UNCHANGED <<worktree, ignored, index, head, lock, git, remover, taken>>

RefreshCommand ==
  /\ refresh.at # "idle"
  /\ ~(refresh.at = "rm" /\ RmRefused(refresh.here))
  /\ Begin(Refresh, refresh.at, refresh.here)
  /\ cleared' = (cleared \/ refresh.at = "rm")
  /\ UNCHANGED <<worktree, ignored, index, head, refresh, remover, taken>>

RefreshRefused ==
  /\ refresh.at # "idle" /\ ~Alive(Refresh)
  /\ Locked \/ (refresh.at = "rm" /\ RmRefused(refresh.here))
  /\ refresh' = NextCommand(refresh)
  /\ UNCHANGED <<worktree, ignored, index, head, lock, git, remover, taken, cleared>>

RefreshDone ==
  /\ refresh.at # "idle"
  /\ Rename(Refresh)
  /\ refresh' = NextCommand(refresh)
  /\ UNCHANGED <<worktree, ignored, remover, taken, cleared>>

-----------------------------------------------------------------------------
(* remove_lock: test, remove; the test after, and what it prints, is left out. *)

RemoveTest(m) ==
  /\ remover[m] = "idle"
  /\ lock.held
  /\ remover' = [remover EXCEPT ![m] = "found"]
  /\ UNCHANGED <<worktree, ignored, index, head, lock, git, refresh, taken, cleared>>

RemoveFile_Renames(m) ==                 \* mutant: mv instead of rm
  /\ remover[m] = "found"
  /\ remover' = [remover EXCEPT ![m] = "idle"]
  /\ lock' = NoLock
  /\ index' = IF lock.held THEN lock.file ELSE index
  /\ taken' = (taken \/ (lock.held /\ Alive(lock.by)))
  /\ UNCHANGED <<worktree, ignored, head, git, refresh, cleared>>
RemoveFile(m) ==
  /\ remover[m] = "found"
  /\ remover' = [remover EXCEPT ![m] = "idle"]
  /\ lock' = NoLock
  /\ taken' = (taken \/ (lock.held /\ Alive(lock.by)))
  /\ UNCHANGED <<worktree, ignored, index, head, git, refresh, cleared>>

(* rm -f has no permission *)
RemoveFails(m) ==
  /\ remover[m] = "found"
  /\ remover' = [remover EXCEPT ![m] = "idle"]
  /\ UNCHANGED <<worktree, ignored, index, head, lock, git, refresh, taken, cleared>>

-----------------------------------------------------------------------------
(* The surroundings. *)

OtherBegin(p, cmd) ==
  /\ Begin(p, cmd, Files)
  /\ UNCHANGED <<worktree, ignored, index, head, refresh, remover, taken, cleared>>

OtherDone(p) ==
  /\ Rename(p)
  /\ UNCHANGED <<worktree, ignored, refresh, remover, taken, cleared>>

(* Files come, change and go, and are ignored or not, while nothing is     *)
(* refreshed.                                                              *)
Save(f, content) ==
  /\ Quiet
  /\ worktree' = [worktree EXCEPT ![f] = content]
  /\ UNCHANGED <<ignored, index, head, lock, git, refresh, remover, taken, cleared>>

Ignore(paths) ==
  /\ Quiet
  /\ ignored' = paths
  /\ UNCHANGED <<worktree, index, head, lock, git, refresh, remover, taken, cleared>>

Kill(p) ==
  /\ Crashes /\ Alive(p)
  /\ Killed(p)
  /\ UNCHANGED <<worktree, ignored, head, refresh, remover, taken, cleared>>

(* ^C ends the script and its git process. *)
Interrupt ==
  /\ Crashes /\ refresh.at # "idle"
  /\ refresh' = [refresh EXCEPT !.at = "idle"]
  /\ Killed(Refresh)
  /\ UNCHANGED <<worktree, ignored, head, remover, taken, cleared>>

Next ==
  \/ \E commit \in BOOLEAN, here \in Directories : RefreshStart(commit, here)
  \/ RefreshCommand \/ RefreshRefused \/ RefreshDone \/ Interrupt
  \/ \E p \in Procs : Write(p)
  \/ \E m \in Removers : RemoveTest(m) \/ RemoveFile(m) \/ RemoveFails(m)
  \/ \E p \in Others, cmd \in {"add", "commit", "status"} : OtherBegin(p, cmd)
  \/ \E p \in Others : OtherDone(p) \/ Kill(p)
  \/ \E f \in Files, content \in Contents \cup {Absent} : Save(f, content)
  \/ \E paths \in SUBSET Files : Ignore(paths)

Spec == Init /\ [][Next]_vars

-----------------------------------------------------------------------------
(* Properties. *)

(* remove_lock (git_help.sh:248-251) can make two git processes take each  *)
(* other's half-written file for their own, but only where it removes the  *)
(* lock of a live process, be it the one it has found or a later one:      *)
(* removing stale locks does no harm, from however many terminals at once  *)
(* and whoever is killed.  Then every live process owns the lock, has      *)
(* written all of it when it says so, and the index is whole.              *)
HarmlessUnlessTaken ==
  ~taken => /\ Whole
            /\ \A p \in Procs : Alive(p) =>
                 /\ lock.held /\ lock.by = p
                 /\ lock.file.writer = (IF git[p].at = "locked" THEN p ELSE "none")

(* git_help.sh:232 "Re-add all files, respecting the updated .gitignore":  *)
(* refresh_gitignore commits the deletion of no file that still exists, as *)
(* it was in the last commit, and is not ignored.                          *)
CommitKeepsTheFiles ==
  [][RefreshDone /\ refresh.at = "commit" =>
       \A f \in Files \ ignored : worktree[f] = head[f] => head'[f] = head[f]]_vars
=============================================================================
