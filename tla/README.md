# TLA+ models of this configuration repository

The repository is a personal `~/.config`: shell helpers, a Neovim
configuration, package lists, and the complete sources of Lua 5.4.6
(`tar/lua-5.4.6`), which `tar/install_lua.sh` builds and installs.  This
directory models what in it can go wrong over several steps: the collector,
the compiler and virtual machine, the runtime (calls, errors, coroutines), the
tables and two libraries of the Lua tree, which is where nearly all of the
repository's state and interleaving is, and the shell functions that run
against other git processes.

Everything here is checked with TLC (`tlc -config X.cfg M`) and, for the
modules `*_proofs`, with TLAPS (`tlapm M.tla`).

## 1. Inventory

### The Lua tree (`tar/lua-5.4.6/src`)

| Component | State | Operations | Hard part |
|---|---|---|---|
| Incremental collector (`lgc.c`, `lgc.h`) | colours, lists `allgc`/`finobj`/`tobefnz`, `gray`/`grayagain`, `sweepgc`, `currentwhite`, `gcstate` | one step of marking, `atomic`, sweeping, finalizers; full and emergency collections; barriers | runs between any two steps of the program; finalizers run program code in the middle; an allocation that fails collects everything at once |
| Generational collector (`lgc.c` 1045-1470) | ages, the pointers that delimit generations | minor and major collections, change of mode | touched objects must age over two cycles; pointers into lists must follow moved objects |
| Weak tables (`lgc.c` 446-520, 689-760) | weak, ephemeron and allweak lists | convergence, clearing of keys and values | ephemerons revive each other; resurrected values |
| State (`lstate.c`, `lmem.c`) | `global_State`, threads | new, close, allocation with retry | partially built states, closing in the middle of a cycle |
| Coroutines and calls (`ldo.c`, `lcorolib.c`) | `status`, `CallInfo` list, `nCcalls` | resume, yield, error, close | yields across C calls, errors in finalizers and closes |
| Upvalues (`lfunc.c`) | open upvalue list per stack, tbc list | find, close | list order; threads that die with open upvalues |
| Tables, strings (`ltable.c`, `lstring.c`) | nodes, free pointer, intern table | insertion, rehash, intern | traversal during assignment, revival of dead strings |
| Virtual machine (`lvm.c`, `ltm.c`, `lobject.c`) | registers, `CallInfo`s, open upvalues | one instruction at a time | integer overflow, loop limits, variables shared by closures |
| Compiler (`lparser.c`, `lcode.c`) | `FuncState`s, registers, pending jumps, `actvar`, gotos and labels | one pass over the source | instructions changed after they are emitted, registers freed like a stack, scopes |
| Lexer, chunks (`llex.c`, `lzio.c`, `ldump.c`, `lundump.c`) | a buffer | read and write | sequential |
| API, auxiliary library (`lapi.c`, `lauxlib.c`) | stacks, references | push, set, get, `luaL_ref` | free list in a table the program shares |
| String and table libraries (`lstrlib.c`, `ltablib.c`) | a match in progress, the list that is changed | `find`, `match`, `gmatch`, `gsub`; `sort`, `insert`, `remove`, `move`, `unpack`, `concat` | backtracking with captures; order functions that contradict themselves; ranges at the largest integers |
| Other standard libraries, `lua.c` | files | io, os, utf8, math functions | wrappers |

Interactions: the program (API and VM) changes objects and calls the barriers;
every allocation may run a step of the collector (`luaC_checkGC`) or, when it
fails, a whole collection (`tryagain`); the collector calls back into the
program through finalizers; `lua_close` calls all of them and frees the rest.  The parser
writes the bytecode that the virtual machine executes.  A protected call, a
coroutine and a pending `__close` all end by the same `longjmp`, and what they
must put back (the C call count, the message handler, whether yields are
allowed) is in each thread's `CallInfo`s.

What makes each part correct: the collector frees only what nothing needs,
finalizes in order and once, and goes on; a table is the map the program made
of it; a compiled program does what its syntax tree says; an error closes what
it leaves and reaches the nearest protected call; the libraries do what the
manual says, whatever functions they are given; `refresh_gitignore` and
`remove_lock` leave a whole index and commit what is there.

### The repository's own code

| Component | State | Operations | Hard part |
|---|---|---|---|
| `bash_sh/sync_brew.sh` | Brewfile, local branch, remote | `export_brew`, `import_brew` | several machines, failed pushes, no exit status looked at |
| `bash_sh/git_help.sh` | `.git/index`, `index.lock`, remotes, `.gitmodules` | `refresh_gitignore`, `remove_lock`, `git_remote`, `guideline` | other git processes; commands that fail in the middle |
| `bash_sh/utils.sh`, `.bash_aliases` | `gotoPaths` | `goto`, `enable_file`, aliases | little |
| install scripts | file system | download, build | failures that are not looked at |
| `nvim/` | loaded modules, keymaps, options | `require` chain, autocommands, dap and LSP hooks | one failing module stops what comes after it |

Left aside: `git-filter-repo` (a third-party script), `extra/presence.py`,
and the settings of tmux, lazygit, gh, htop, clangd, fd, wslu and the Brewfile:
they have no behaviour of their own.

## 2. Modules

| Module | Models | Stands on |
|---|---|---|
| `LuaGC` | the incremental collector with sets for lists: colours, barriers, the program, finalizers, full and emergency collections, closing | |
| `LuaGC_proofs` | the inductive invariant of `LuaGC` and what follows from it | `LuaGC` |
| `Finalization` | abstract: what the collector does about finalizers, without lists and pointers | |
| `Lists` | what remains of a list when some of its elements go | |
| `DataLemmas` | facts for the proofs: induction, powers of two, lists | `Lists` |
| `LuaSweep`, `MC_LuaSweep` | the three lists in their order and the sweep pointer | `Lists`; implements `Finalization` |
| `MC_LuaClose` | the order of marking for finalization, at `lua_close` | `LuaSweep` |
| `LuaSweep_proofs` | the inductive invariant of `LuaSweep`, and that it implements `Finalization` | `LuaSweep`, `DataLemmas` |
| `LuaGen` | the generational mode: ages, the pointers that delimit generations, minor, major and bad collections | `Lists` |
| `LuaGen_proofs` | the inductive invariant of `LuaGen` and what follows from it | `LuaGen`, `DataLemmas` |
| `LuaWeak` | weak tables, ephemerons, open upvalues and resurrection in one cycle | `Lists` |
| `LuaWeak_proofs` | the inductive invariant of `LuaWeak` and what follows from it | `LuaWeak`, `DataLemmas` |
| `MC_LuaHeap` | `LuaWeak` and `LuaGen` on small heaps | `LuaWeak_proofs`, `LuaGen` |
| `LuaHeap_proofs` | the theorems about weak tables, for the specification that is checked | `MC_LuaHeap` |
| `LuaTable` | one table: array part, hash part, rehash, length, traversal | |
| `LuaStrlib` | the pattern matcher and its four functions, and what a pattern means | |
| `LuaSort` | `table.sort`, one comparison a step | |
| `LuaSort_proofs` | that it stays in its bounds, sorts, and how deep it goes | `LuaSort`, `DataLemmas` |
| `LuaTablib` | the other list functions | |
| `LuaArith`, `LuaValues` | integers of `NBITS` bits; values, and the functions and objects programs use | |
| `LuaCode`, `LuaParser` | the code generator and the parser, as operators on the parser's state | `LuaValues` |
| `LuaVM` | the virtual machine: one instruction a step | `LuaParser` |
| `LuaSemantics` | abstract: what a program means, on its syntax tree | `LuaValues` |
| `LuaPrograms` | the programs that are compiled and run | |
| `MC_LuaSequential` | the parts nothing runs beside: tables, libraries, compiled programs | `LuaTable`, `LuaStrlib`, `LuaSort`, `LuaTablib`, `LuaVM`, `LuaSemantics`, `LuaPrograms` |
| `LuaControl` | abstract: what protected calls, coroutines and to-be-closed variables promise | |
| `LuaRuntime`, `MC_LuaRuntime` | calls, errors, yields, resumes and closing with the C stack | implements `LuaControl` |
| `GitIndex`, `MC_GitIndex` | `refresh_gitignore` and `remove_lock` against other git processes | |

`MC_LuaHeap` and `MC_LuaSequential` put models side by side that share no state
(their variable `part` says which one a behaviour is of); `MC_LuaSweep` adds a
variable `plenty` (memory never runs out) and `MC_GitIndex` one `alone`
(nothing else touches the repository), fixed in the initial state, so that one
run can check what holds always and what holds only then.

### LuaGC

An object is in one of four sets by the barrier it has for what it holds:
`Tables` (backward; also user data with user values), `Closures` (forward),
`Threads` (none), `Strings` (no references); a metatable has the forward
barrier in any object.  `mark[o]` is its colour (`marked`), `refs[o]` what it refers
to; a thread refers to what is on its stack.  `allgc`, `finobj`, `tobefnz`,
`gray` and `grayagain` are the lists as sets; `unswept` is what lies from
`g->sweepgc` to the end of the list that is being swept; `groots` is the
registry and the metatables of the basic types (`g->mt`).

| Code | Action |
|---|---|
| `luaC_newobjdt` and the push of the new object | `New` |
| `lua_rawget`, `lua_settop`, `lua_xmove` | `Load`, `Pop`, `XMove` |
| `lua_rawset`, `OP_SETTABLE`, `lua_setiuservalue` with `luaC_barrierback_` | `StoreInTable`, `Erase` |
| `lua_setupvalue`, `OP_SETUPVAL` with `luaC_barrier_` | `StoreInClosure` |
| `lua_setmetatable` and `luaC_checkfinalizer` | `SetMetatable`, `SetFinalizer`, `SetTypeMetatable`, `ClearTypeMetatable` |
| `lua_resume`, `lua_yield` | `Switch` |
| `lua_gc(LUA_GCCOLLECT)`, `tryagain` and `fullinc` | `StartFull`, `StartEmergency`, `FullNext` |
| `singlestep` by `gcstate` | `RestartCollection`, `PropagateMark`, `EnterAtomic`, `Atomic` (with `entersweep`), `SweepOne`, `SweepNext`, `FinishCycle`, `CallFin` |
| `GCTM`, `runafewfinalizers`, `callallpendingfinalizers` | `CallFin`, `CallNextFin`, `FinReturn`, `BatchDone` |
| `lua_close`, `luaC_freeallobjects` | `Close`, `FreeAllObjects` |

The collector's pacing (`GCdebt`, `incstep`) is abstracted to "a step may
happen between any two actions of the program", which contains every pacing.
The order of the lists is abstracted to a choice; where the sweep frees some
objects and stops at the first live one (`sweeptolive`) the model takes any
subset of the dead and any live object.  `Switch` lets control return to the
main thread from any coroutine: a return from nested resumes is a yield to
`Main` and a resume; this allows more than Lua does.  Left out: objects in
`fixedgc`, weak tables and open upvalues (in `LuaWeak`), the generational mode
(in `LuaGen`), and `os.exit(true, true)` inside a finalizer.  One state is
excluded from `StartEmergency`: see the first finding.

### LuaSweep and Finalization

`allgc`, `finobj` and `tobefnz` are sequences; `sweepgc` is `NULL`, a list
header, or an object, standing for the address of its `next` field, as in the
code.  `Pointer`, `Freed` and `Swept` say what `sweeplist` leaves when it has
traversed a prefix of the rest of the list.  Marking is abstracted: any white
object may be marked until `atomic` ends.  `Finalization` has three variables
(plain, registered, pending objects) and `LuaSweep` implements it with
`plain <- ToSet(allgc)`, `registered <- finobj`, `pending <- tobefnz`.  Its order is
that of the code: batches in the order in which they were found dead, the one of
`lua_close` last, and in a batch the object marked last first.  The manual has
another one for `lua_close`; `MC_LuaClose` keeps the order of marking and checks
that (the fourth finding).
`Kept` and `Without` (in `Lists`) say what stays in a list that loses elements.

### LuaGen

`allgc`, `finobj` and `tobefnz` are sequences, the four pointers into `allgc`
and three into `finobj` are the objects they point to (or `Nil`), and `age` is
the age field.  Nothing of the program runs inside a collection of this mode,
so a collection is one action: `YoungCollection` (`youngcollection`:
`markold`, `atomic`, `sweepgen` of both lists, `finishgencycle`),
`MajorCollection` (`genstep` with `fullgen`, good or bad), `StepGenFull`
(`stepgenfull`), `Emergency` (`luaC_fullgc` in this mode), `ChangeToGen` and
`ChangeToInc` (`luaC_changemode`).  The program's `Store`, `New`, `SetFinalizer`,
`XMove` and `Switch` do the barriers (`BarrierForward`, `BarrierBack`) and
correct the pointers (`Checked` is `checkpointer`); finalizers come after a
collection, a batch at a time, with the program's steps inside.  How much was
allocated is not modelled, so which kind of collection comes next is a choice.
No object is created between `atomic` and the end of the sweep, so one white
is enough.  What a mark phase visits is `Visited`: the least set with the roots
and the gray objects that no visit leads out of, in any order of visits; a
collection of the whole heap (`FullAtomic`) has what still waits for its
finalizer among its roots, as `restartcollection` does.  The
incremental mode appears in its pause only.  A metatable with
`__gc` is taken to be marked by every collection, so it is not an object here,
and no object holds a reference to itself.  Left out: weak tables in this mode,
emergency collections inside `lua_close` and inside the
incremental pause (`LuaGC` has both).

### LuaWeak

One incremental cycle from its start to the end of `atomic`.  Each visit of an
object is one action (`PropagateMark` with `VisitStrong`, `VisitWeakValue`,
`VisitEphemeron`, `VisitAllWeak`, `VisitClosure`, `VisitThread`), in any order;
a table's entries are a sequence, for the order in which an ephemeron's entries
are visited matters (`dir`).  `phase` is where `atomic` is: `EnterAtomic`,
`RemarkUpvals`, `VisitAgain`, `Converge`, `VisitNext`, `NextRound`,
`ClearValues` (with `separatetobefnz` and `markbeingfnz`), and `ClearKeys`
(both last clearings).  While the collector propagates the program reads
from and writes to weak tables, sets upvalues and closes coroutines' upvalues,
as often as the heap's `budget` says.  Strings are values for `iscleared`,
which marks them.

### LuaTable

A state is one table: `array` with the hint `alimit` (and whether it is the real
size), nodes with key, value and `next`, `lastfree`.  The present key k has the
value k, so entries that are confused show.  The actions are what the API does:
`Set` (`luaH_set`, `luaH_newkey`, `rehash`, `luaH_resize` with all that is
reinserted), `FailedSet` (a resize whose allocation fails), `Clear`, `Read`
(which moves the hint), `Length` (`luaH_getn`), `ResizeArray`, `ClearKeys` (the
collector's dead keys), and a traversal in steps (`Begin`, `NextStep`, `End`)
during which entries are cleared and collected.  Left out: float keys and their
normalization, barriers (in `LuaGC`).

### LuaStrlib

`do_match` is the matcher, a recursive operator that follows `match` case by
case with the capture array it changes and undoes; `Find`, `Gmatch` with
`GmatchAux`, and `Gsub` with `GsubNext` are the library's functions, one match a
step.  A pattern is a sequence of items; the matcher sees their characters.
`AllWays` says what a pattern means without backtracking: the sequence of all
ways its items can match, in the order the manual's greedy and lazy repetitions
give, of which the first one counts.  Three of the ten character classes stand
for all.  `string.rep`, `sub`, `byte`, `format`, `pack` and `unpack` are left
out.

### LuaSort, LuaTablib

`auxsort` is a loop with a call of itself on the smaller interval; `frames` is
the stack of the calls that wait, `pc` the comparison that comes next, because
that is where the order function, perhaps written in Lua, runs.  The elements
are distinct; `key` gives their order, or the order function answers anything
(`consistent` is FALSE) and the code's "invalid order function" error may
follow.  It is assumed not to change the table.  `LuaTablib` has one action per
function (`tinsert`, `tremove`, `tmove`, `tunpack`, `tconcat`) over a list
without metamethods, with integers of four bits so that every check and loop
meets the largest and the smallest one; lists are shorter than the largest
integer.  (With a `__len` that returns a negative number or the largest
integer, `tinsert`'s comment about its position would not hold; such lists are
left out.)

### LuaArith, LuaValues, LuaCode, LuaParser, LuaVM

A program is a syntax tree; each grammar rule of `lparser.c` is an operator
that does what the rule does after it has recognized its tokens, on a
`FuncState` record: local variables, blocks, gotos and labels, upvalues,
expression lists; `Compile` is `mainfunc`.  `LuaCode` has `lcode.c`: expression descriptors, jump lists
threaded through the instructions, constants, register allocation, folding,
the choice of opcodes, and the last pass (`luaK_finish`).  A `lua_assert` that
fails is remembered (`asserts`), a syntax error ends the compilation.  `LuaVM`
executes one instruction a step on a stack of slots, with `CallInfo`s, varargs,
open upvalues (`openupval`) and to-be-closed variables (`tbclist`) as in
`lfunc.c`.  An instruction that C would execute with a metamethod calls one of
the objects `o1`, `o2`, which makes its arguments visible.

Left out: floats (and with them `/`, `^` and the float loops), line numbers,
metatables other than those objects', `__index` chains, hooks.  `LuaSemantics`
knows no registers, jumps or instructions: variables are cells of a store,
closures keep environments, and leaving a block closes its variables.

### LuaRuntime and LuaControl

Each thread has its `CallInfo` list (with `old_errfunc`, the flags for a
yieldable `pcall` and for variables being closed, and the status of a pending
recovery, `recst`), its list of to-be-closed variables, `errfunc`, `nCcalls`
and `errorJmp`; `cstack` is what the C functions still have to do.  `Throw` is `luaD_throw`: it drops the C stack
above the thread's `errorJmp`.  After a yield the dropped C frames are redone
from the `CallInfo`s by `UnrollLua`, `UnrollPcall`, `UnrollReturn` and `UnrollEnd`
(`unroll`, `finishCcall`, `finishpcallk`, `precover`).  A Lua function does
any operation at any step: opens and closes variables, calls, `pcall`, `xpcall`,
C functions with and without variables, `resume`, `wrap`, `close`, `yield`,
`error`; `fuel` says how often each, and `__close` metamethods and message
handlers are Lua functions as well.  Stack positions are kept, because
`errfunc` and the level of a `pcall` are positions.

`LuaControl` has no C stack, no positions and no counts: threads with functions
and their variables, and an error that goes to the innermost protected call and
closes all above it.  `View` is the refinement mapping, kept in a variable
`view` so that TLC computes it once a state.

Left out: hooks and debug yields, memory errors, continuations other than
`pcall`'s, the position added to error messages, the `CallInfo` of the C
function `yield` itself.

### GitIndex

git is external: a command that changes the index creates `index.lock`
exclusively, writes the new index into it and renames it; it fails at once
when the lock exists.  A file records which process has still to write it,
because a process writes into the file it created whatever its name is by then,
and `rename` takes whatever file has the name.  A killed process leaves its
lock behind.  `git rm` and `git add` act on the directory they are called in
(`here`; the function only asks whether it is in a work tree), and `git rm`
refuses altogether when it would lose staged content that neither the file nor
the last commit has (`RmRefused`).

`refresh_gitignore` issues its three commands whatever their outcome
(`NextCommand` is in both `RefreshDone` and `RefreshRefused`).  `remove_lock`
tests whether the lock is there and removes it, in two steps, in any number of
terminals and at any time: it does not look whose lock it is nor whether its
owner is alive.  `taken` remembers that the lock of a live process was removed,
`cleared` that `git rm` was not refused.  Left out: the two early returns
outside a repository, and what is printed.

## 3. Runs

| Run | Shows |
|---|---|
| `gc_finalizers` | two tables, main thread, finalizers, metatables of basic types, emergency collections, closing: types; what is needed is kept and only garbage is freed; white between cycles; no object is freed before its finalizer |
| `gc_barriers` | a table (the registry), a closure, the main thread and a coroutine against marking: no black object refers to a white one, every gray object is in one gray list; the inductive invariant of the proofs |
| `gc_progress` | garbage is freed, in the presence of full and emergency collections |
| `sweep_lists` | three objects, two swept per step: the sweep pointer is always in the list being swept, the dead are ahead of it, the sweep misses nothing; refinement of `Finalization`; what is pending is finalized |
| `sweep_emergency` | violation: emergency collection in a finalizer of `lua_close` |
| `sweep_close_order` | violation: `lua_close` does not call finalizers in the reverse order of marking |
| `lua_heap` | weak tables lose exactly the entries the manual says and nothing reachable; and, for the generational mode, that minor collections free nothing needed, old objects refer to old ones, the pointers delimit the generations, the gray lists are exact, finalizers come first |
| `lua_sequential` | a table is the map the program made of it, its length a border, its traversal complete; the pattern functions give the first of the ways their pattern means; `sort` stays inside its intervals, to a logarithmic depth, and sorts; the list functions do what the manual says; every program of the families makes visible what its syntax tree means and ends the same way, or is refused for the right reason; upvalues and to-be-closed variables stay in stack order; no assertion of the code generator fails, and no instruction uses a register the prototype did not reserve |
| `lua_runtime` | implements `LuaControl`; `nCcalls` counts every C call; `errfunc` is the slot of the handler of the innermost `xpcall` |
| `lua_runtime_close` | violation: `coroutine.close` inside `xpcall` |
| `git_lock` | whatever is killed and from wherever `remove_lock` is called, locks are owned and the index is whole as long as no live process's lock was removed: only that does harm; alone in the repository, `refresh_gitignore commit` commits the files of its directory that exist and are not ignored, with the exceptions git makes |
| `git_collision` | violation: an editor's git command makes `git add` fail and the commit deletes files that exist |

### Bounds

- `LuaGC`: `MaxSlots` 1 (references in a table, a closure or on a coroutine's
  stack) and `MaxStack` 2 (on the main stack; 1 for progress): the hazards of
  incremental marking (a reference moved from an object not yet visited to one
  already visited, then erased) need a holder, a held object and the stack.
  Two objects beyond the registry suffice for every pair of kinds in one of the
  runs, except that no run has a string (an object that refers to nothing,
  which the proofs cover like the others); longer chains are what the proofs are
  for, which have no bounds.
- `LuaSweep`: three objects besides the main thread allow one object before, at
  and behind the sweep pointer; `GCSWEEPMAX` 1 and 2 (100 in the code) a step
  that ends inside and at the end of a list; `GCFINMAX` 1 and 2 (10).
- `LuaGen`: a table that may get a finalizer, a closure and two threads, with two
  values on the main stack and one on a coroutine's, in a table or a closure;
  created, freed and created again, so every age is met and every pointer meets
  every object.
- `LuaWeak`: four families of heaps, each around one difficulty: two ephemeron
  tables with up to two entries each (every way they can depend on each other,
  with an object that may be resurrected), the other modes with a table reached
  only by resurrection, a closure with an open upvalue of a coroutine that may
  be garbage (the program does two or three steps), and a program that disturbs one
  weak table or takes what only a weak table has into another table (two steps).
- `LuaTable`: four integers and two objects that collide in two groups, an array
  of four at most and four nodes: chains of three, Brent's moves, growing and
  shrinking between the parts.
- `LuaStrlib`: 33 items, all patterns of two, and patterns with captures of up to
  seven; `LUA_MAXCAPTURES` 2 (32), `MAXCCALLS` 6 (200), so "too many captures"
  and "too complex" occur.
- `LuaSort`: every array of keys 1..3 of up to six elements and five of seven,
  with a consistent order; up to seven elements with any answers; `RANLIMIT` 4
  (100), `Imbalance` 1 (128) and three pseudo-random numbers, so that the
  random pivot is used.
- `LuaTablib`: integers of four bits, lists of up to four elements, `INT_MAX` 7, a
  C stack with 5 free slots.
- Compiler: integers of eight bits, 15 registers (255), 12 local variables and
  upvalues (200, 255), `B` and `C` up to 15 (255), `Bx` up to 20 and `sJ` up to 255,
  two items a `SETLIST` (50), so that every limit and every operand that does
  not fit is met.  The programs are all conditions, operations, loops, scopes,
  assignments and constructors of certain shapes, and a list written by hand
  for the rest of the language; the evaluator gives what each should do.
- `LuaRuntime`: two coroutines and twelve families of programs, each with two to
  five operations besides calls; `LUAI_MAXCCALLS` 5 and a margin to 7 (200 and
  220), so that the overflow and the error inside its handling both happen.  The
  family with `xpcall` and `coroutine.close` together is the third finding's run.
- `GitIndex`: two files with two contents, one of them in a subdirectory, two other
  processes, two terminals for `remove_lock`: the first can let a command in whose
  lock the second removes.  While other programs run the files do not change and
  `refresh_gitignore` is called in the top directory; the run with every edit is the one
  in which it is alone.

Deadlock is not checked where the system may stop: in the runs with `lua_close`,
and in `lua_heap` (one cycle ends).  In `lua_sequential` a call ends (`Returned`), and
a program must get to its end (`LuaVM!Ended`).

### Fairness

`LuaGC!FairSpec` and `LuaSweep!Fairness` assume weak fairness of the collector's
steps taken together: they are driven by `GCdebt`, so a program that goes on
allocating gives them steps again and again, and finalizers return.  It is not
assumed that any particular step happens, that marking terminates early or
that the program ever stops.  `PendingIsFinalized` is about behaviours without
failing allocations: each emergency collection runs a cycle without calling
finalizers, so a program whose memory fails again and again can postpone them
for ever. Nothing is
assumed of the programs of `lua_sequential`, of `LuaRuntime` or of `GitIndex`: nothing in
the repository makes anyone call `remove_lock`, so no property says that a stale lock
goes.

Each property of a passing run has a mutant: a definition whose name has a
suffix after an underscore, that changes one operator the way a bug in that
code would and breaks the property.

## 4. Proofs

`LuaGC_proofs` proves for any sets of objects, any bounds and any program:

- `Invariance`: `Spec => []IndInv`
- `TypeCorrect`, `ReachableKept`, `TriColour` (no black object refers to a white
  one), `GrayInOneList` (gray is what the gray lists hold), `WhiteBetweenCycles`
- `OnlyGarbageFreed`, `FinalizerComesFirst` (action properties)

from `KindsAssumption` alone (kinds are disjoint, the main thread is a thread,
the registry a table).  The argument: `ReachableAllocated` is not inductive,
for it does not say why the sweep may free what it frees.  `IndInv` adds

- `LiveIsClosed`: nothing that is not dead (of the other white) refers to
  something dead, and every root and every object that waits for its finalizer
  is not dead.  So the dead are out of reach and freeing them is safe;
- `Marking`: while marking nothing is dead, no thread is black and the main
  thread is not white, so that `Atomic` visits every thread's stack again;
- `BlackNeverPointsToWhite` and `GrayIsListed`: with them, what `Atomic`
  visits from the gray lists and the running thread, the registry and the
  metatables is closed under reference (`VisitedFacts`): this is where
  `LiveIsClosed` is established after the white flips (`AtomicInv`);
- `Sweeping`: what the sweep has passed has the current white, and only what
  lies ahead of the pointer in `allgc` can be dead;
- `Control`: when finalizers run, and that `finobj` is empty in `lua_close`.

The action properties follow from `FreesDead` (every step but `Atomic` and
`FreeAllObjects` frees only dead objects) and the invariant.

`LuaSweep_proofs` proves `SweepInvariance` (`Spec => []SweepInv`),
`PointerNeverDangles`, `DeadObjectsAhead`, `WhiteBetweenCycles` and the refinement
`ImplementsFinalization` (`Spec => FinalizersInBatches`), for any objects,
`GCSWEEPMAX` and `GCFINMAX`, from `SweepAssumption` and one hypothesis,
`NoMemory # "always"`: no allocation fails while the state is being closed.  Without
it the statements are false; the run `sweep_emergency` (the first finding) is the
counterexample.  `SweepInv` adds to the types

- `Control`: where the program and the finalizers are; while `lua_close` calls its
  finalizers nothing is collected, which is what the hypothesis is for;
- `PointerInList`: the pointer is `NULL`, the header or an object of the list that
  `gcstate` names;
- `Colors`: what is not `Ahead` of the pointer in the list being swept, and all of
  a list swept before, is white, and only objects ahead in `allgc` are dead.
  `PointerInList` needs it: an object the pointer is at must not be freed by
  someone else, and `luaC_checkfinalizer`, which takes an object out of the list
  under the pointer, moves the pointer to the next live one by freeing the dead
  ones before it (`CheckFinalizerMoves`).

One lemma (`Traversal`) covers every way a list is traversed, `sweeplist` for a
number of objects and `sweeptolive` up to a live one: the list without what it
frees, and the pointer past all that is still there.  The refinement has a step
for each action: marking, barriers and control stutter, `Atomic` and `Close`
separate, `CheckFinalizer` registers, `CallFin` and `CallNextFin` call.

`LuaGen_proofs` proves `GenInvariance` (`Spec => []IndInv`), `NothingReachableFreed`,
`OldToOld`, `PointersDelimit`, `GrayLists` and `NeverFreedUnfinalized` (an action
property) for any objects, any kinds and any program, from `GenAssumption`: the
kinds are disjoint, threads have no finalizers, and the null pointer is no object.
What the code relies on, `OldPointsToOld`, is not inductive: it says nothing of
the objects that become old next.  `IndInv` adds to types, lists and references

- `SectionsInv`: each pointer cuts its list so that only objects of some ages are
  behind it.  In front of it there is any age: objects come back from `tobefnz`
  to the head of `allgc`, and an object that a forward barrier has made `old0`
  stays where it is, among the young (`BarrierForward`);
- `GrayInv`: what each gray list holds, by age; touched objects of the first cycle
  are gray and those of the second black;
- `BlackInv`: a black object (threads excepted) refers to nothing new, and if it is
  old to no survivor either.  A black object that is not old yet may refer to
  survivors: they get older together.

Then everything a minor collection does not visit refers only to what it keeps
(`YoungKeepsReferred`).  A minor collection is proved in its phases: what is marked
(`YoungAtomicFacts`), the three parts of each list and what the sweep leaves of
them (`ThreeParts`, `AllgcSweepFacts`, `FinobjSweepFacts`), and ages and colours
object by object (`YoungObjects`); `Older` and `Recolored` are what all of it amounts
to for one object.  `firstold1` may point to an object that has left the list, or
to none: it delimits nothing then, which `Beyond` says of every pointer.

`LuaWeak_proofs` proves `WeakTablesKeep` (`Spec => []ReachableKept`),
`WeakTablesClean` (`Spec => []NothingDangles`), `WeakTablesLeave`
(`Spec => []WeakTablesExact`) and `WeakGrayLists` (`Spec => []InOneList`), and
`LuaHeap_proofs` carries them over to the specification the run `lua_heap` checks
(`WeakReachableIsKept`, `WeakNothingIsDangling`, `WeakTablesLoseOnlyTheDead`): for any
heaps, as large as they may be, any order in which gray objects, entries and
ephemeron tables are visited, and a program that disturbs the collection as often
as it likes (`WeakTablesExact` is about collections it leaves alone).  They follow from `WeakAssumption`: the kinds
are disjoint, there are finitely many objects, and what a heap gives is of the
right kind (TLC evaluates it as `HeapAssumption`).  The first two are about
the end of `atomic`; `IndInv` says what holds on the way there.  A marked object
waits for a visit (`Pending`) or is `Settled`:

- a strong table or closure refers only to marked objects, a thread's stack and a weak
  table count as settled only inside `atomic`: before that they go to `grayagain`,
  and are visited a second time when the program no longer runs.  This is what
  `RunningFacts` uses, and why the program's steps are short proofs;
- a weak-value table has marked keys, and is in `weak` if a value is still white;
- an ephemeron table is in `ephemeron`, in which case nothing is promised, or its
  values are marked.  What makes the rounds end rightly is `ConvergeInv`: as long as
  `changed` is false no value of an entry with a marked key has been left white in
  the tables of `ephemeron` (`Converged`), and when the round is over without a
  change this covers them all;
- an open upvalue with a white value has a thread that is pending or white, and
  the white ones are in `twups` until `RemarkUpvals` (`UpvalInv`).

At `ClearValues` nothing is pending, so the marked objects are closed under `ReachedBy`
(`NothingLeft`) and contain all of `StrongSet` (`ReachWithin`), before any is
resurrected: entries between two of these are never cleared (`StrongInv`).  At
`ClearKeys` the same argument gives `ResurrectedSet`.  What is left in the tables
is marked by `ClearedInv` (nothing cleared comes back), `AllweakInv` and the two
tests of `ClearKeys`; strings, which `iscleared` marks instead, are
white in places until the end (`SettledWeakValue`).

`WeakTablesExact` needs the other direction, that nothing else is marked, and that
is `ExactInv`, on top of `IndInv`.  Whatever a visit marks is in every set that is
`Closed` and has the visited object and the marked ones (the last conjunct of
`Visits`; for an ephemeron `PassWithin`, by induction over its entries).  `StrongSet`
and `ResurrectedSet` are such sets (`ReachedIsClosed`): they are defined by as many steps
as there are objects, and a step that is not the last adds one (`ReachIsClosed`).  So
at `ClearValues` the marked objects are `StrongSet` and at `ClearKeys` `ResurrectedSet`,
strings apart, and the tests of the clearing decide what is reachable.  Which
tables are tested when is the rest of it (`ResurrectInv`): between the two
no object of `StrongSet` is visited, so that a table which enters `weak` or `allweak`
then belongs to a resurrected object, and only these are cleared by value a second
time, against the larger set.  `ClearKeysExact` goes through the four kinds of tables and
composes the two clearings with `KeptTwice`.

`WeakGrayLists` holds for every program: `OneList` says pairwise that the five gray
lists, `saved` and `next` share nothing, and that they are together the gray
objects.  A visit unlinks its object and links it to one list or makes it black (`Links`).

`LuaSort_proofs` proves `AlwaysInside` (`Spec => []StaysInside`): for arrays of any
length and any answers of the order function, `sort` compares and exchanges
only elements inside the interval it sorts, the intervals of waiting calls lie
inside the array, and the array is a permutation of what it was.  From
`SortAssumption`: more than one element, and `RANLIMIT` at least 4, without which
the random pivot could fall outside its interval (`PivotInside`: the
quarter of the interval taken off at both ends).  `StaysInside` is strengthened
with types and one bound: after a comparison at the left that raised no error,
`j` is still right of `lo`.  Each comparison has its step lemma; that an exchange
keeps a permutation is a lemma on functions.

It also proves `SortsAnyArray` (`Spec => []Sorts`): with a consistent order function
no error is raised and the array is sorted at the end, and with any order
function the calls nest no deeper than the logarithm of the length.  `SortInv` is
`IndInv` and

- `InOrder`: two elements are in order, or in one interval that is not sorted yet;
  exchanges inside an interval keep it (`ExchangeInOrder`);
- `Shown`: what the comparisons so far have shown of the interval being sorted:
  around the pivot the elements seen are on their side of it, and each loop of
  `partition` meets an element that stops it, which is why no error is raised;
- `Apart`: the intervals do not overlap;
- `Shares`: after n calls an interval has at most its 2^n-th part of the elements,
  because the call is for the smaller part.

`DataLemmas` has what these proofs need of data.  Induction is stated for sets of
numbers (`SetInduction`, from the library's well-founded relation on the natural
numbers), and used for the recursive function in `Kept` (`KeptIsRecursive`,
`KeptFacts`); `FiniteRecursion` is what the recursive functions of `LuaWeak` (`Pass`,
`Reach`) rest on.  `KeptTwice` and `KeptSame` say
that what is kept of what was kept is what both keep, and that only the list's own
elements matter.  That 2^(n+1) is twice 2^n comes from counting subsets (`PowerDoubles`).

Only model-checked:

- liveness (`GarbageIsFreed`, `PendingIsFinalized`): out of the prover's reach;
- `GitIndex`;
- `LuaTable`, `LuaTablib` and `LuaRuntime` with its
  refinement of `LuaControl`: not proved so far.  `LuaRuntime` finds frames with
  `SelectSeq` and `SelectLastInSeq`, whose test is an operator; it would have to be
  written with `Lists` first, as `LuaSweep` and `LuaGen` are;
- `LuaCode`, `LuaParser`, `LuaSemantics`, `LuaStrlib` and the modules that use them:
  recursive operators over syntax trees and patterns, of which the prover knows
  nothing.

## 5. Findings

1. `sweep_emergency` (`lgc.c:1509`): `luaC_freeallobjects` runs the finalizers
   without ending the sweep that may be going on; `udata2finalize` does not
   correct `g->sweepgc`, so that when the sweep of `tobefnz` has stopped at an
   object whose finalizer is called, the pointer goes with it to `allgc`.  An
   emergency collection in that finalizer then ends the sweep without
   whitening the rest of `tobefnz`, against `lgc.h:49`.  A C program linked
   with these sources shows the consequence: what only those objects refer to
   is freed before their finalizers are called.  It takes more than 100 pending
   objects (`GCSWEEPMAX`) and an allocation that fails at that moment.
2. `git_collision` (`git_help.sh:230-238`): no exit status is looked at.  When
   another process (an editor that runs `git status`) holds the lock just while
   `git add` is called, `git rm` has emptied the index and `git commit` then
   commits the deletion of every file, against the comment in line 232; success
   is reported.  When the lock is held all the time, nothing is committed and
   success is reported as well.
3. `lua_runtime_close` (`lstate.c:323`): `luaE_resetthread` unwinds a coroutine
   and runs its pending `__close` metamethods with `errfunc` as it was when the
   coroutine stopped inside `xpcall`; an error in one of them calls whatever is
   now in the slot of that call's message handler, against `lstate.h:326` and
   the assertion in `ldebug.c:812`.

4. `sweep_close_order` (`lgc.c:978`): `separatetobefnz` links what `lua_close`
   finds at the end of `tobefnz`, so an object that a collection has found dead
   is finalized before objects that were marked after it, if the state is closed
   before that collection has called all of its finalizers.  `manual.html:956`
   promises the reverse order of marking for all objects.

## 6. Not modelled

- Strings (`lstring.c`): interning makes equal short strings one object, and the
  other modules treat strings as values, which is what it provides.
- Lexer and input (`llex.c`, `lzio.c`) and precompiled chunks (`ldump.c`,
  `lundump.c`): one pass over characters or bytes, without state that anything
  else sees.
- `lauxlib.c` (buffers, `luaL_ref`, error messages), the debug interface
  (`ldebug.c`), and of `lapi.c` the functions that only push or convert: the calls
  that store, collect, call or raise are in `LuaGC` and `LuaRuntime`.
- `string.format`, `pack`, `unpack`; the io, os, math, utf8, package libraries and
  `lua.c`, `luac.c`: wrappers of the C library and of the API.
- Floats everywhere.
- `sync_brew.sh`: two functions without exit statuses looked at, whose hazard (a
  push that fails is not tried again) is a matter of the remote; the script
  promises nothing to check it against.  `git_remote` and `guideline` of
  `git_help.sh`, `utils.sh`, the installation scripts, the Neovim configuration and
  the settings: linear sequences of commands, or data.

## 7. What is next

1. Proofs: that `nCcalls` counts every C call and that `errfunc` is the right slot
   (`LuaRuntime`).
2. Ephemerons in the generational mode (`LuaWeak` joined with `LuaGen`).
3. `luaL_ref`, whose free list lives in a table the program shares, and the
   string cache.
