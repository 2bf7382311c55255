# TLA+ models of the lua_rust runtime

lua_rust is a Lua 5.1.5 interpreter in Rust (`src/crates/`).  What is hard in it
is, first, the runtime: a garbage collector that advances in small steps between
the instructions of a program that mutates the heap, coroutines that do not own
a Rust stack, library functions that are suspended whenever they call back into
Lua, finalizers that run in the middle of whatever the program was doing, and an
arena that lends out `&mut LuaState` references.  Second, four places where
plain-looking sequential code has to keep a promise over any number of steps:
the call frames that share one value stack, tables that are traversed while they
change, the one-pass code generator, and files whose text is in memory until a flush, a
close, the collector or the end of the Runtime writes it.  These modules model all of
that, check it with TLC on small instances, and prove much of it with TLAPS for
instances of every size.

Paths below are relative to `src/crates/` unless they start with `src/`.

## 1. Inventory

| component | source | state | operations | what makes it hard |
|---|---|---|---|---|
| Garbage collector | `lua_core/src/gc/` | the list of objects, their colours, the gray work list, explicit and temporary roots, phase, sweep cursor | create, mutate (barrier), begin, propagate, atomic, sweep one object, complete, abort; full stop-the-world collection | the program runs between any two units of work |
| Weak tables, finalizers | `gc/weak.rs`, `gc/finalize.rs` | weak bits of tables, finalizer queue, finalized bits, drain flag | reconcile modes, clear entries, queue userdata, acknowledge | order of resurrecting, clearing and destroying; nested collections |
| Root trace | `lua_vm/src/runtime/root_trace.rs`, `incremental_collection.rs`, `full_collection.rs` | states to scan, states reached | scan one state, atomic rescan, fixed point over objects and states | stacks have no barrier; states and objects refer to each other |
| Upvalues | `lua_core/src/upvalue.rs`, `lua_vm/src/state/lua_state.rs` | open upvalues of each state | open, share, close, read and write | an open upvalue names a stack slot of a state that may be removed; the list must stay sorted |
| State arena | `lua_vm/src/runtime.rs` (`StateArena`, `PendingState`, `StateBorrow`), `lua_core/src/state_handle.rs` | slots with generations, free list, temporary roots, the borrow of the running turn | reserve, publish, roll back, lend, sweep, drain | stale handles, generation overflow, guards that nest and unwind |
| Scheduler | `lua_vm/src/runtime.rs` (`Runtime::execute_proto`), `native.rs`, `execute.rs`, `lua_stdlib/src/coroutine.rs` | activation stacks for resumes, protected calls, callbacks and collections; Thread statuses and links; yield permission | start, deliver, resume, yield, protect, call back, collect, finalize, fail | one loop drives calls of all kinds in any nesting; errors unwind part of it |
| Instruction execution | `lua_vm/src/execute.rs`, `lua_vm/src/state/` | stack, top, CallInfo records, continuations | the opcodes; call, tail call, return, unwind, yield, resume | windows of caller and callee overlap; suspension at any call or metamethod |
| Object publication | `lua_core/src/gc/publication.rs` | temporary roots of a transaction | create, protect, publish | partial construction under allocation failure |
| Strings | `lua_core/src/string_pool.rs`, `gc_string.rs` | intern table | intern, remove | interning a string that is being swept |
| Allocation ledger and pacing | `lua_core/src/allocator.rs`, `gc/incremental.rs`, `gc/strategy.rs` | byte counts, debt, threshold | charge, credit, step budget | saturating arithmetic, lost updates |
| Tables | `lua_core/src/table.rs` | array and hash parts, order of traversal with tombstones | get, set, next, length, sweep of weak entries | traversal while entries are removed and swept, rebuilt order, border |
| Suspended library calls | `lua_vm/src/execute.rs` (sort, gsub), `lua_stdlib/src/package.rs` | the state of a sort, a gsub, a require that waits for Lua code | start, answer of the callback, commit, failure | the callback may change the table or call the function again |
| Runtime construction and close | `lua_vm/src/runtime.rs` | phase, resource registry | close, drain finalizers and resources | callbacks during close create more work |
| Files | `lua_stdlib/src/io.rs` | for each file the text in memory, position, buffer mode, whether it goes direct; the default output | open, read, write, seek, setvbuf, flush, close, lines, output, tmpfile | text is in memory until one of many ways writes it; the host fails |
| Compiler | `lua_compiler/src/` | free register, active variables, blocks, lists of unpatched jumps | lex, parse, generate | results delivered in place, back-patching, closing of captured variables on every way out of a scope |
| Rest of the standard library | `lua_stdlib/src/` | none of interest | library calls | - |
| Front ends, trace, bytecode tool | `lua_app/`, `lua_bytecode/`, `lua_vm/src/trace.rs` | none of interest | input and output | - |

How they interact.  `Runtime::execute_proto` is a loop that gives one state at
a time a *turn* (`StateArena::with_turn_state_mut`).  Inside the turn the
executor runs Lua on the stack and call frames of that state; it leaves with an
event: the state returned, yielded or failed, or a library function published a
request (resume, pcall, callback, collection, upvalue of another state), or an
allocation asked for a collector step.  With the turn released the loop pushes an
activation frame and chooses the next action.  Collections run only between turns,
where no `&mut LuaState` exists; they trace the activation frames and every
reachable state, sweep entries out of weak tables, destroy objects through the heap
and states through the arena, and queue finalizers, which the loop then runs as
calls on the requesting state.  The compiler decides which register holds what; the
executor trusts it without a check (a write past the stack is silently lost).

Correctness, per component:

* collector: nothing the program can reach is destroyed; no trace meets a stale
  edge; weak tables lose exactly what they should; each finalizer once, before
  its object; garbage goes eventually;
* arena: a handle names one state for ever; a state on loan is neither lent
  again nor removed; a state that is published stays, one that is not goes;
* scheduler: control comes back to the innermost enclosing call, with the frame
  it was suspended in, the statuses, links and yield permission it had; a
  session leaves nothing behind however it ends;
* call frames: every activation keeps the registers, extra arguments and captured
  variables that are its own, whatever is called, returned, thrown or yielded;
* tables: a key has the value assigned last; a traversal visits each entry once
  although entries are updated, removed and swept; `#` is a border;
* suspended library calls: sort writes back a permutation, gsub replaces every match
  once, require keeps returning what it returned;
* compiler: the code asks and returns what the program means, and reserves the
  registers it uses;
* files and close: what was written to a file that is no longer open is on the host,
  unless the host refused it; close calls each finalizer, tries each open file and ends;
* not modelled yet: interning returns live strings; byte counts equal the sum of what
  is alive.

The hazards that follow from this, each at its line, are in `PROJECT.json`.

## 2. Modules

| module | content |
|---|---|
| `IncrementalGC` | heap, program, both collectors, finalizer delivery |
| `MCIncrementalGC` | small instances, symmetry, fairness, the liveness properties |
| `IncrementalGC_proofs` | type correctness, the inductive invariant and the safety theorems |
| `StateRegistry` | abstract: what a StateHandle promises |
| `StateArena` | slots, guards, publication, sweep and drain |
| `StateArena_proofs` | the inductive invariant of the arena and its consequences; it implements `StateRegistry` |
| `MCStateArena` | its instance |
| `Scheduler` | the driver loop with all its activation stacks |
| `Scheduler_proofs` | threads follow the chain of resumes, drains have owners, sessions clean up; roles, answers, yields and finalizers across boundaries |
| `MCScheduler` | its instance and symmetry |
| `CallValues` | values, prototypes, instructions and lists of the calling convention |
| `Activations` | abstract: what a call promises |
| `CallFrames` | one thread's stack, CallInfo records, open upvalues |
| `CallFrames_proofs` | the open upvalues stay sorted; the windows lie on the stack and nest |
| `CallFrames_refinement` | the frames implement `Activations` |
| `MCCallFrames` | its instance: four functions and two chunks |
| `Dictionary` | abstract: what a table promises |
| `LuaTable` | vector, hash map and order of a table, its traversals |
| `LibraryCallbacks` | sort, gsub and require suspended in Lua code, beside `LuaTable` |
| `LibraryCallbacks_proofs` | tables: map and order belong together, they are dictionaries, lengths are borders; sorts sort, gsub replaces each match once, require is stable |
| `MCLibraryCallbacks` | its instance |
| `LuaProgram` | reference: syntax trees and what they mean |
| `CodeGen` | the code generator, from syntax tree to instructions |
| `CompiledCode` | the generated code executed beside the meaning of its program |
| `MCCompiledCode` | families of programs |
| `FileText` | texts, positions, and what one read takes |
| `IoFiles` | the files of the io library |
| `RuntimeClose` | `IoFiles` with the collector's finalizers and `Runtime::close` |
| `Streams` | abstract: what a program may expect of its files |
| `RuntimeClose_proofs` | what was written to files that are closed is on the host; files implement `Streams`; types |
| `MCRuntimeClose` | its instance |
| `Recursion` | lemmas: smallest counterexamples, and that recursively defined functions exist |

### IncrementalGC

Objects are tables, userdata, Threads, closures and upvalues; Thread `t` and
the coroutine state it owns share a name.  A state has a few stack slots
(`reg`), a table one strong-or-weak entry (`key`, `val`, `mode`) and a
metatable, a closure an upvalue, an upvalue either a value or the slot (`at`)
of a state.  The program's actions are the instructions and library calls that
change the heap: `Move`, `Load`, `Store`, `SetTableMetatable`, `SetModeField`,
`SetUserdataMetatable`, `New`, `NewThread`, `NewClosureShared/Fresh`,
`GetUpvalue`, `SetUpvalue`, `CloseUpvalues`, `AddRoot`, `RemoveRoot`.  Each
mutation ends with `Barrier`, which is `after_managed_mutation`: abandon the
cycle during the sweep (or when a state edge appears while marking), otherwise
traverse a black owner again.  Stack writes have none, as in the code.

One action of the collector is one unit of its budget, so the program may run
between any two: `BeginCycle`, `TraceState`/`TraceObject`,
`EnterAtomicWhenComplete`, `StartAtomic`, `PrepareFinalizers`, `FinishAtomic`,
`SweepWhite`/`SweepSurvivor`/`SweepEmptyHeap`, `CompleteCycle`.  A full
collection is `BeginFull`, `PrepareFull`, `FinishFull`.  The places where the
code drains its work list without returning to the program are *stages* during
which the program is blocked.  Finalizers are delivered by `StartFinalizer`,
`SkipFinalizer`, `EndFinalizer`, `EndDrain`; while a callback runs the program
may do anything, a further collection included.

Abstractions: work lists are sets (the order of traversal does not matter to
the properties, and TLC tries every order); colours left behind by an abandoned
cycle are reset when it is abandoned, the code resets them when the next begins;
the weak mode is an attribute of the table instead of a string in a metatable
field, and `__gc` is present when the metatable has a plain entry; a userdata
already attempted is not inserted in the queue; coroutines run only while they
are on Main's stack; explicit roots are seeded where the code seeds them, at the
beginning of a mark; finalizers use Main's slot `Scratch`.  GETUPVAL and
SETUPVAL are modelled for closures that have an upvalue.  Strings, prototypes,
the ledger, out-of-memory, the `caller` edge of a Thread and roots held by
native callbacks are left out.

Two things the model made plain.  The forward barrier of tables is not needed
for safety, since the atomic phase traverses every marked table again to
reconcile its weak mode.  And the search for finalizable userdata reads
metatables of dead userdata, which is sound only because an abandoned sweep
cannot leave a userdata whose metatable is gone but whose `finalized` bit is
clear: this is a conjunct of the inductive invariant (`Candidates`).

### StateArena and StateRegistry

Guards are lexical in Rust, so `borrows` and `pendings` are stacks and a drop
is a pop, whether the closure returned or unwound.  `BeginTurn`, `BeginDirect`,
`BeginNested` are the three ways to borrow, `EndBorrow` is `StateBorrow::drop`;
`BeginPending`, `BindThread`, `Commit`, `EndPending` the publication of a
coroutine; `StartSweep`, `StartDrain`, `RemoveOne`, `EndJob` the removals, one
step for each slot.  The allocator fails when `MaxSlots` slots exist, `MaxGen`
and `MaxRoot` stand for `u64::MAX`; only `MaxDepth` is a bound of the model.
Not modelled: handles of a foreign Runtime (a validation that fails first), the
resource registry, byte accounting and peak counters.

`StateRegistry` is the abstract promise: a handle is fresh, then pending, then
live, then gone, and never anything else again; loans end in reverse order; a
state on loan is not destroyed.  `HandlesNameOneState` is the refinement.

### Scheduler

`calls[s]` is the call stack of state `s`, an abstraction to `"lua"`,
`"native"` (a library function that waits) and `"base"` (the host's entry).
`frames` are the activations of resumes, `boundaries` those of protected calls
and callback helpers in the order of their sequence numbers, `gcFrames` those
of collections.  `turn` is the `NativeDriverAction` that runs, `mode` where the
loop is: choosing (`"action"`), running Lua (`"lua"`), or holding an event.

* `LuaCall`, `LuaReturn`, `LuaThrow`, `Yield`: what the executor may do inside a
  turn until it leaves with an event;
* `RequestResume`, `RequestProtected`, `RequestHelper`, `RequestCollect`,
  `AutomaticGc`, `UpvalueAccess`, `Fault`: the requests and interruptions, the
  arms of the `match event` in `execute_proto`;
* `StopCoroutine`, `StopMain`, `StopProtected`, `StopHelper`, `StopFinalizer`:
  the completions;
* `StartTarget`, `Deliver`, `StartProtected`, `StartCallback`,
  `FinishProtected`, `FinishHelper`, `DeliverCollection`, `ResumeInstruction`,
  `FailFinalizer`: `execute_native_driver_action`;
* `BeginSession`, `CloseSession`: entry of `execute_proto` and the drop of
  `NativeActivationSessionGuard`.

`Program` and `InFinalizer` choose the operations that the code of the program
and of its finalizers uses; a run restricts them to ask one question at a time.

Abstractions: values are left out; `wrap` differs from `resume` in how an error
is passed on, which is `LuaThrow` after a delivery; debug hooks are calls of
the same kind as metamethods; debug access to an upvalue behaves like
`UpvalueAccess`; creation of coroutines is in `StateArena`; the collection
itself is one step that may find any number of finalizers, and it cannot fail
(`TraceNeverRejects`); a queued userdata without callback is skipped there and
here; a deferred call is recognised by its depth and by a native frame on top.

### CallFrames, Activations, CallValues

`CallFrames` is one Lua thread: the value stack with `top`, the `CallInfo` records
with their saved program counter, and the list of open upvalues.  An action is one
instruction (`LoadK`, `Move`, `Closure`, `GetUpvalue`, `SetUpvalue`, `Close`,
`Vararg`, `SetList`, `Jump`, `Test`, `Call`, `TailCall`, `ForCall`, `Return`) or one
event: `FinishPcall` (the retained native frame of a pcall answers), `Fail` (an error
unwinds to the innermost one), `Resume` after a yield, `OtherSets` (another thread
writes to a captured variable), `Restart`.  The callee of a call is any Lua function,
a native one, pcall, or yield; what natives return is any of `Lists`.

`Activations` says what that must look like: a sequence of activations, each with
registers of its own, the open end of a value list, extra arguments, and captured
variables with a cell of their own once their scope ends.  `CallsAreActivations` is the
refinement.  It needs to know which registers the compiler may still read: `free`, a
field of a frame for the proof, which no guard of the machine reads.  The mapping (`Activated`, `Contents`,
`Homes`, `Final`) reads a frame's registers off the stack, up to `free`; the open list is what lies between
them and `top`; the home of an open upvalue is the frame whose window holds its slot.
`Compiled(live, held)` says in which form the refinement is proved: see section 4.

Abstractions: three values (nil, a function, a table with `__call`), tables and
arithmetic are left out, the code of the instance is written by hand in the shapes the
compiler emits.  Debug hooks, call-depth errors of natives and the growth of the Rust
vectors are left out; `MaxCalls` bounds the frames.

### LuaTable, Dictionary, LibraryCallbacks

`LuaTable` keeps the vector, the hash map, the order in which `next` visits the keys of
the map with its tombstones and the positions of the keys in it, as `table.rs` does.
`Assign`, `Sweep` (the collector removes an entry of a weak table), and for each
traversal `Begin`, `Step` and `Leave` interleave freely.  `walk[w].seen` and `loose` record
history for the comparison with `Dictionary`, whose traversals visit every entry exactly
once unless an absent key was assigned meanwhile.  Constants stand for the limits of the
code (`MaxArrayIndex`, `MinCompaction`, `MaxInteger`), so that small tables reach them.
The length is found by the code's bisections, as recursive functions of a pair of bounds.

`LibraryCallbacks` adds the state that `table.sort` (bottom-up merge sort of a copy),
`string.gsub` and `require` keep in a callback frame while Lua code runs.  The callback
answers anything, fails, or, for a sort, changes the table by any action of `LuaTable`;
loaders store a value themselves, require their own module or another one.  `sort.given`
and `sort.honest` record history.  `Turn` is one turn of the loop of `advance_table_sort_state`, and
`Advance` repeats it until the loop returns: at a comparison in Lua, at the end, or with an error; `Gsub`
does the same for matches that a table answers.  The sort runs on tables with number keys only and
the others on a table at rest, to keep the instance small (`Program`).

### CodeGen, LuaProgram, CompiledCode

`LuaProgram` is a reference: the syntax of one function and a big-step meaning over
environment, store and closures.  A program is played against an outside world that
answers each call with a list and may write to one captured variable in between; the
meaning of a program for a list of such inputs is the next question it asks.  `CodeGen`
translates `codegen/` function by function: the register allocator, local
variables and blocks, jump lists, discharge of expressions into registers, conditions,
calls with open lists, assignment, and every statement.  `CompiledCode` generates the
code of a program, executes it one instruction a step, and compares each call and
the return with the meaning: the same question, captured variables and globals
(`CodeMeansProgram`).  What a call leaves above its results is `Junk`, never nil, as
later code may not rely on it.

Abstractions: constants are nil, false, true, one function and numbers; a jump holds its
target; instructions have unlimited operands.  Tables, fields, methods, arithmetic,
concatenation, comparison other than `==`, varargs, nested function bodies, literal folding of
`not` and line numbers are left out.  The code threads a second list of pending jumps (`jpc`)
that is always empty when it is used; it is left out too.  Programs whose result Lua leaves
open are not generated (a variable assigned twice in one statement, `x = x, f()` where the call
changes `x`), and neither are the forms of section 6 known to deviate.

### IoFiles, RuntimeClose, Streams

A file is a record: `content` is the text in `__content`, `direct` says that the handle has
gone direct (`write_direct`: every write goes to the host and `content` is out of date),
`buffer` and `explicit` are what `setvbuf` set, `gc` which `__gc` its metatable has, `done` the
finalized bit, `held` whether the program has it.  `disk` is the host.  The actions of `IoFiles`
are the library's functions: `OpenFile`, `TmpFile`, `OutputTo`, `SetOutput`, `Write` (`WriteDirect`
or `WriteBuffered`), `Flush`, `Close`, `Read`, `NextLine`, `Seek`, `SetVBuf`, `SetGc`, `Forget`; and
the collector's `Finalize` and `Destroy`.  Every write to the host may fail and leave a first part of what
it should have written.  `text` (what the program wrote, whatever became of it) and `failed` record
history.  A file that becomes the output (`OutputTo`, `SetOutput`) first has another one, that
was the output, flushed, and what comes of that flush is ignored, as in `set_current_output`.

`RuntimeClose` adds `Runtime::close`: the finalizers of all userdata, newest first, with those that a
callback of the program adds (`BeginClose`, `FinalizeNext`, `StartCallback`, `EndCallback`,
`EndFinalizers`); the hooks of the registered files (`DrainNext`); the destruction (`DestroyAll`).

`Streams` is what a program may expect: a text that every write changes and every read of the
same stream sees, a host that takes it over when a write that may not wait, a flush or a close succeeds,
and may do so at other writes, and never has anything else.  `FilesAreStreams` is the refinement.

Abstractions: bytes are two, one of them the end of a line; number formats, pipes, the standard
streams and the translation of line ends are left out.  Two streams that write to one path at
the same time are excluded: each would store a whole text of its own, and the last one wins.
A metatable whose `__gc` is nil stands for a callback that does nothing.  `io.output(f)`, `setvbuf` and
`__gc` are set for files that are written and have a path (`Stored`), since nothing else depends
on them.  `Forget`, with which the program loses its last reference to a file, excludes a file
whose `__gc` the program replaced: the collector destroys such a file without storing its text.
A closed file no longer says who holds it.  Registry entries are never removed before the end, as in the
code, which counts only up to `MAX_CLOSE_RESOURCE_HOOKS`; `CloseAssumption` keeps the number of files below it.

`Risks` names two uses of files that the code gets wrong, so that everything else can be checked
without them: `"late setvbuf"` (section 6) and `"late read"`, a read of an update file that has grown
beyond 256 KiB, went direct and reads its old `__content`.

## 3. What the runs check

| run | question | bound | states |
|---|---|---|---|
| `GCWeakTables` | reachable objects, weak keys and values, modes that change in a cycle, finalizers; garbage goes, finalizers are delivered | 1 table, 1 userdata, 3 slots | 60 000 |
| `GCCoroutines` | states, open upvalues, explicit roots, the inductive invariant | Thread, 2 closures, upvalue | 340 000 |
| `Arena` | arena invariants, guards, refinement | 4 slots, 2 generations, 6 root ids, 3 guards of a kind | 25 000 |
| `SchedBoundaries` | nesting inside one session | 2 coroutines, depth 5, 4 activations | 1 400 000 |
| `SchedSessions` | sessions, re-entry, faults, finalizers | 2 coroutines, depth 5, 3 activations, 2 finalizers | 910 000 |
| `Calls` | calls on one stack, refinement | 6 prototypes, 2 captured variables, 3 Lua frames | 700 000 |
| `Tables` | a table under traversal, suspended library calls | vector of 1, 5 other keys, 2 values, 1 traversal, sorts of a few elements, 2 matches, 2 modules | 400 000 |
| `Code` | generated code against its program | 1 900 programs, 4 calls, 2 answers | 1 600 000 |
| `Files` | written text, streams, the end of the close | 2 files, 2 bytes, threshold 1, 1 failure of the host | 580 000 |
| `SchedNestedRequest`, `CodeExchange`, `FilesBuffering` | the disagreements of section 6 | 1 coroutine; one program; as `Files` | stop at the violation |

Why the bounds are enough to be interesting.  A table and a userdata refer to
each other, so that there is a cycle, an owner that is black with a child that is white,
an entry that a queued userdata resurrects, and garbage that dangles after an
abandoned sweep; the invariants are proved for any number of objects (section 4).  A Thread with a closure and an upvalue is the shortest cycle
between an object and a state, and a second closure shares its upvalue.  Two generations let a
slot be reused and retire; four slots let a sweep interleave with slots that
are free, pending and borrowed.  Four activations nest a resume, a pcall, a
callback and a collection in every order, and two finalizers let one fail
while the other waits.  Three Lua frames give a caller, a callee and a frame between them that
is replaced by a tail call; two captured variables are shared, reused and out of order.  A vector
of one and a compaction limit of two make a table of five keys cross every boundary (growth, tombstones,
rebuilding, both zeros).  The programs combine every expression and statement in every position up
to three deep.  Two files, of which one may have the path that the other one had, a
threshold of one byte and two bytes of text let a file cross the threshold with text in its buffer, and
the one failure of the host falls into any of the writes.  With one path the flush of an earlier
output finds nothing that waits, as two writers of one path are excluded; that such flushes are right with
many paths is part of what section 4 proves (`SetOutputKeeps`, `SetOutputMaps`).  The bounds are the constants of the cfg files and
nothing else; no state constraint is used.

Safety of what waits (`ThreadsFollowActivations`, `DeliveriesMatch`,
`SuspendedOwnsNoBoundary`, `YieldBarrier`) is checked in programs that never
resume a coroutine that itself waits for another one.  Such a resume succeeds
in lua_rust, as the ownership RFC (4.3.1) documents for the C++ oracle, and
then those properties are not meant to hold: the re-entered coroutine runs with
its own older activations still open.  `SchedSessions` has these re-entries and
faults, and checks what must survive them.

In the runs whose deadlock is not checked the system really stops: the
Runtime is closed (`Arena`, `Files`, `FilesBuffering`), or the program is at its end or at the bound of its calls
(`Calls`, `Code`, `CodeExchange`).  All other runs check deadlock.

### Fairness

`GCWeakTables` needs fairness (`Fairness` in `MCIncrementalGC`).  The
allocator's threshold makes the program ask for collector steps again and again
(weak fairness of `StepUnit`); a full collection and a drain are loops in Rust
that do not return before they are done (weak fairness of their steps); a
callback that was started returns or fails, though collections that it asks for
interrupt it (strong fairness of `EndFinalizer`).  A program may starve the
collector by writing during every sweep, since each write abandons the cycle;
liveness is therefore claimed under `Quiet`: from some time on the program does
not allocate or write to the heap.  It may still read and move values.

`Files` needs it for the end of the close (`FairSpec` of `RuntimeClose`): `Runtime::close` is one Rust
call, which goes on until it is done, and a finalizer of the program returns or fails.  The
close ends because `MaxFiles` bounds the files; a program whose finalizers open
new files for ever keeps the code in `drain_finalizers_for_close` for ever.

## 4. What is proved

Assumptions: `KindsAreDisjoint`, `SlotsAssumption`, `ModesAssumption` and
`RestrictionsAssumption` of `IncrementalGC` (the kinds of objects are disjoint,
`Main` and `Nil` are none of them, a weak mode is a set of "k" and "v"),
`BoundsAssumption` of `StateArena` (its bounds are positive numbers), and those of
`LuaTable`, `LibraryCallbacks`, `CallFrames`, `RuntimeClose` and `Scheduler` named below.  Nothing else is assumed; the sets of objects
may be infinite.

`IncrementalGC_proofs!TypeCorrect` is type correctness.  The safety theorems of the same
module follow from one inductive invariant, `HeapInvariant`,
itself an invariant of the run `GCCoroutines`:

* `HeapIsSafe`: there is a set that contains the stacks, the roots, the queue
  and the userdata that may still get a callback, which is closed under every edge
  the program can follow and consists of live objects and existing states.
  Reachability itself would be recursive; a closed set says the same and can be
  handed from step to step with its witness.  It is needed because garbage may
  dangle after an abandoned sweep, so "every edge of a live object is live" is
  false.
* `Tidy`: outside a cycle nothing is marked, traced or left to sweep, and no
  phase starts with another's remains.
* `TraceIsSound`: while marking, every edge of a black object leads to an object
  or state that is marked or scheduled.
* `AtomicIsSound`: after the atomic rescan the marked part is closed under the
  edges that the sweep will respect, also after finalizers have been resurrected
  and weak entries cleared.
* `DeliveryIsSound`: callbacks, queue and finalized bits.

`HeapIsSound` shows that it is inductive, with one lemma per action.
`ReachableIsKept`, `TraceIsAccepted` and `OpenUpvaluesAreOwned` are its
consequences, `FinalizersRunOnce`, `StrongEntriesAreKept` and `QueuedValuesAreForgotten`
are action properties that use it.  `FinalizersComeFirst` needs one fact more: a full
collection that finds userdata to finalize marks everything a second time from nothing, and the userdata
that were reachable the first time must be marked again.  `MarkIsLeast` says that a trace
marks only what every complete trace of the resting heap contains; as the second trace is a
complete trace with more seeds, it contains what the first one marked.

`StateArena_proofs` proves the arena's invariants for any number of slots,
generations, root ids and nested guards.  None of the checked invariants is
inductive: that a slot can be popped from the free list depends on what every
earlier sweep and rollback left there, and that a guard can be dropped depends on
the order in which the others were taken.  `ArenaInvariant` adds:

* `FreeListIsExact`, `SlotsAreExact`, `CountIsExact`: the free list holds each
  vacant slot once, a retired slot is at the last generation, no two slots share a
  temporary root, the counter is the number of coroutine states;
* `BorrowsMatch`: borrows and borrowed bits correspond one to one, and only the
  outermost borrow is a turn or the host's;
* `PendingsMatch`: an uncommitted guard names a valid, rooted state and was taken
  inside the borrow that is innermost at its depth, so that no borrow outside it can be of
  that state.  Without it a rollback could meet a state on loan;
* `IssuedMatch`: the handles given out are those of the generations that a slot
  has been through;
* `JobMatches`: no borrow or guard exists during a sweep or drain.

`ArenaKeepsInvariant` is the induction, one lemma per operation;
`ArenaTypeCorrect`, `ArenaStaysSound`, `GuardsAlwaysMatch` and
`PendingStaysRooted` follow from it.

The last part of the module shows that the arena implements `StateRegistry`
(`ArenaImplementsRegistry`) and that nothing but a sweep or a
drain removes a published state (`PublishedStatesAreKept`).  The mapping reads the registry's state off
the arena's: a handle's status follows from its slot, its generation and the guards that
name it, and a loan is a borrow on the stack.  There is one lemma for each operation:
`BeginPending` is `Issue`, `Commit` is `Publish`, the three borrows are `Lend`, their end
is `Return`, a rollback or a removal is `Destroy`, and everything else stutters.

The first half of `LibraryCallbacks_proofs` is about a table and its traversals, `TableSpec`.  `TableInvariant`
says that map, order and positions belong together (each key of the map once in the
order, at the position that is recorded for it, a tombstone at every other position)
and that a traversal's key, its history and the entries it has still to visit agree.
The order of a table is rebuilt by insertions, so that a traversal is right only because
the compaction keeps the relative order of all entries (lemma `Ranks`).
`TableKeepsInvariant` is the induction, `TableOrderIsIndexed` and
`TableImplementsDictionary` its consequences; in the refinement an assignment and a
removal by the collector are an `Assign` of the abstract table, a step of a traversal
is `Visit`, `Finish` or `Fail`.

`LengthsAreBorders` says that the two searches of `length` end, and at a border.  It has the hypothesis `ShortKeys`:
no key is a number above half of `MaxInteger`, where the code gives up doubling and answers what it has
(section 6, last item).  A table whose keys are shorter has no limit on its size.

*Recursion.*  The search for a length, the merge loop of `table.sort`, the matches that `string.gsub` replaces
without a callback, and the queue of finalizers at the close are loops of the code and recursive functions of
the model.  That such a function is what its equation says is not a matter of course: `[x \in S |-> e]` only stands for
one if there is one.  `Recursion` shows `RecursionExists`: if every argument that is not an end leads to one with a smaller
measure, a function that obeys the equation exists (for each bound the functions that obey it below the bound
agree, `ObeyAgree`; the smallest bound without one cannot be, `ObeyExists`).  End, step, combination and measure are
functions there, not operators, so that the lemma is applied by naming them: `Doubles`, `Loops`, `Searches` and `Descends` are the equations it
is applied to.  What holds of all values of such a function is shown by its smallest counterexample (`LeastNumber`): the set of
measures of the arguments for which it fails has a smallest member, and one turn of the loop leads below it.

The second half of `LibraryCallbacks_proofs` is about the functions that wait in callbacks, beside a table that the callbacks may
change.  `LibraryInvariant` conjoins `TableInvariant` with an invariant of each of them (`LibraryKeepsInvariant`):

* `SortInvariant`.  A sort that waits, commits or has failed is `Sound`.  The list that was read and the working copy have the
  same values as often (`SameValues`; numbers of occurrences are cardinalities of sets of positions).  That this survives
  a merge, which builds a second list, needs to know how the two lists fit at every turn: the part of the second that is filled
  so far has the values of what has been used of the two runs (`Copied`), nothing else of the first has changed (`InPlace`), and for
  honest comparisons of values without nil (`Clean`) the runs ascend, and so does the merged part, which is not above what is left of either run (`Merging`).
  Before each turn `Kernel` holds, the part of `Sound` that does not depend on the question that is asked;
  `TurnKeeps` has one case for each branch of the loop, `CompareKeeps` one for each answer.  The loop ends because
  its `Work` decreases: stage, width of the runs, start of the run and what is left of it, as digits of one number.  From it
  follows `SortingSorts`: what is written back is a permutation of what was read, whatever
  the comparison does, and sorted with nothing refused if it is honest.
* `GsubInvariant`.  A substitution waits behind the piece before its match (`Waiting`) or stands between
  two matches (`Between`); its output is determined by their number (`SubstitutionReplacesEachOnce`).
* `ModulesInvariant`: types and `ModulesAgree`, which is inductive (`RequireIsStable`).  It says that what `require` returned last
  is what `package.loaded` holds, also while loaders run; an earlier form that excepted modules whose loader runs was not inductive.

Every step of `LibraryCallbacks` is one of `TableSpec` or leaves table and traversals alone (`LibraryUsesTable`): what is proved of
tables holds beside sorts that write their copy back, too (`LibraryLengthsAreBorders`).

`CallFrames_proofs` shows that the list of open upvalues descends strictly and holds every
open upvalue, for every program (`OpenListStaysSorted`).  The lemmas about the list
are short because it is searched and cut at the same place (`Cut`): where the first slot
below a level is found.  The rest is the work of knowing that the levels are numbers:
a level is the base of some frame, so the frames must be there.  `FramesInvariant`
therefore says also that the function the thread was started with is still on the
call stack until the thread is over: an error ends at a pcall above it, and only its
own RETURN removes it.

The same module shows `WindowsNest` (`WindowsStayNested`) and `TypeOK` (`FramesTypeCorrect`).  `TypeOK` alone
is not inductive: that a frame's slots exist follows from how the stack was grown when it was entered, and that it
still exists after the callee returned from the fact that no instruction shortens the stack.  `StackInvariant`
therefore adds to `FramesInvariant` that each frame's base is its function's slot or the next one (so that a tail
call, which reuses them, gets the room it prepares), that the arguments of a protected call exist (an error resets
`top` to their end), that a callee's slot is not below the registers its caller reads, and that a thread
which waits in a yield knows a slot for the values it waits for (`Waits`).  `Laid` says this of the stack, the upvalues and
the frames at any point inside of an instruction, since entering a function grows the stack before the frame is there;
`Left` of what the instruction leaves.  There is one lemma for each of `Answer`, `Deliver`, `Throw` and the ways to
enter a function, and one for each instruction.

`CallFrames_refinement` rests on it and proves the refinement: `CallsImplementActivations` says that every step of `CallFrames` is a
step of `Activations` or changes nothing there, for code that is `Compiled` and without iterators that yield.

* *The hypotheses.*  Code without any discipline does not behave like activations: a `CLOSE` too few leaves an upvalue
  open on a register that the next call overwrites.  `Compiled(live, held)` is what register allocation and scopes
  guarantee: before instruction `pc` of function `p` the registers up to `live[p][pc]` may be read and those in
  `held[p][pc]` may be captured; each instruction reads live registers, writes one of them or the next, and frees only what no
  closure has captured; all paths to an instruction agree.  It is a normal form of what the compiler emits in one
  respect: where paths with different scopes meet, the inner scope ends with a `CLOSE`, also when it has captured
  nothing, in which case the compiler leaves it out and `CLOSE` would close nothing.  The code of the defect of `close_scope_upvalues`
  in section 6, where a `CLOSE` is missing for a captured variable, is not `Compiled`.
  `MCCallFrames` gives `live` and `held` for the functions of the run, and TLC evaluates that they are so
  (`CompiledFunctions`).  `IteratorYields` is excluded since the refinement is false there (section 6).
* *The invariant.*  `Calling` adds to `StackInvariant` where the frames are in their code.  `Chain`: each frame but the last is at a
  call (`WaitsIn`), and the next one was entered by that instruction, above the registers that remain live (`Link`, `Ordered`).
  `Housed`: each open upvalue lies in the window of a frame and on a register that may be captured there.  `RunsAt` and
  `YieldsAt`: the last frame has as many registers as the compiler believes, and a waiting thread knows where its values go.
* *The steps.*  A list of registers is a window of the stack (`W`), and the lemmas of the first section say what growing,
  writing, wiping and adjusting do to windows.  `ActsOf` maps frames to activations; a step goes on in the last frame
  (`Advance`), pushes a frame, replaces it (a tail call) or pops some, and each of these has one lemma for the activations
  (`ActsPush`), one for the chain (`ChainPush`) and one for the homes.  What ties them together is `Agree`: the step changes no slot below the base of the frame that runs, so
  that nobody else's registers change.  A lemma for each instruction (`LoadKIs`, ..., `RestartIs`) chooses the step of
  `Activations`; `NextIs` collects them.

Assumed of `LuaTable` is `TableAssumption` (nil, the keys of the two
parts and the two zeros are distinct, the limits are numbers), of `LibraryCallbacks` `LibraryAssumption` (values that can be
compared are integers, there is a number of matches, keys are closed downwards from a number, since a sort writes all keys up
to a length, and what a module exports is neither nil nor false), of `CallFrames` `ProtoAssumption`, `SpareAssumption` (the spare slots of a
native frame are a number) and `CodeAssumption`: operands are numbers, a constant is a value, a captured variable has a
register of its function, and a list of `...` begins at a register or right behind the last one, which is where `return ...` puts it
when the function has used all of them (`stmt_emit.rs:1028`).

`RuntimeClose_proofs` shows that what a program wrote to a path that nobody has open for writing is
on the host, unless the host refused it (`ClosedFilesStayWritten`), for programs without the
two `Risks`.  `FileInv` adds what it rests on: the text of an open writer is in `content`, or on the
host once it is direct; a path has one writer; every open file is registered.  That the
close may destroy files that are still open needs more: in the drain, each file the
cursor has passed is closed or its path has failed (`Drained`), and before the close a file that the collector
has finalized without closing it failed too and is out of the program's reach (`DoneDropped`), so that nothing is
written to it any more.  Assumed are `FilesAssumption` and `CloseAssumption`, of `Scheduler` its three assumptions (distinct
names of states, operations, bounds that are numbers).

From the same invariant follows that the files implement `Streams` (`FilesImplementStreams`), for such programs, when
lines are among what they read (`"line" \in Formats`: `io.lines` reads them).  There is one lemma for each action, which names the step of
`Streams` that it is.  The interesting ones are the closes: a file that has its text on the host is closed; one
that is temporary, or that the hooks or the collector could not flush, is
dropped (`Abandon`), which `Streams` allows only if the host has refused the text last; this is where
`DoneDropped` and `Drained` are needed.  A flush that fails at a `close` is a flush for `Streams`, and the file stays open.

`CloseKeepsTypes` is the full `TypeOK`, with what the invariant leaves out: what a read returns is a text, since a line
ends where the text does (`LineIsText`), and what waits for finalizers are files, since the queue is built downwards from the
newest (`DescentType`, a recursive function) and every callback may build it again.  `TypeInv` conjoins the invariant with `Rest` and `Course` for that.

`Scheduler_proofs` is about the stacks of the driver loop, for any coroutines, depths and nestings.
`SchedulerTypes` is type correctness; it includes that a driver action that delivers a
frame has that frame.  Two theorems hold for every program:

* `NothingRunsBetweenSessions`.  `NativeActivationSessionGuard::drop` undoes the resumes innermost
  first, from what each saved, so that the outermost has the last word.  Its
  invariant `ChainInv` therefore says of the resumes in progress (`Linked`) that each was made by the
  target of the one before it, that a caller was running when it resumed, and that the first resume of a
  coroutine found it ended and without a link; what no resume concerns is ended already (`Unlinked`).
  Each step is of one of five kinds (`ChainSteps`): the chain stays, loses its delivered frame, grows,
  shrinks, or is undone.
* `DrainsAreOwned`.  `DrainInv` adds to the checked property that only one activation drains, and
  that a collection that is about to be answered does not.

`ThreadsFollow` needs `NoReentry`: a waiting coroutine that is resumed again is in the chain twice,
and its status cannot tell both.  `ThreadInv` says then that the targets are distinct and that statuses
and links follow from the chain as it is when the turn ends, `Frames`.

The other seven theorems, one for each remaining safety property of `Scheduler`, are stated under
`Nestable`: in addition, a finalizer makes no request that pushes a pcall, callback or collection.  Both
hypotheses are there because the code breaks the properties without them.  A waiting caller that is
resumed again runs in the role of the program, and its older answer fails (section 6); a finalizer
that calls pcall inside a pcall continues in the role of the outer one (`SchedNestedRequest`).
They exclude no other program: coroutines, errors, upvalues, pcalls, callbacks and collections of either
kind may be nested in any way and to any depth, and finalizers may call, fail, and attempt to resume and
to yield.  The run `SchedBoundaries` checks the same properties on an instance that satisfies
`Nestable`; `SchedSessions` has programs that do not, and what it checks is proved
without it but for `FinalizerBegunOnce`.

None of the seven is inductive, because the code decides what to do next from the innermost frame of one stack,
while which frame is innermost depends on three stacks and on the states they belong to.  `NestInv`
says how they fit together:

* `StackInv`: the pcalls and callbacks in progress belong to states of the chain of resumes and lie in its
  order (`Owned`); those of one state grow upwards on its call stack (`StopsGrow`); each remembers the role of the
  one that encloses it on its state (`Parents`), and the call frame it will answer stands (`Standing`);
* `RoleInv`, `GcInv`: a turn runs under the role of the innermost boundary of the running state, or of the drain, which
  is above everything else, remembers the role it interrupts, and has only Lua frames above it while its finalizer runs;
* `Waiting`, `CallsInv`: every caller in the chain stands at the native frame that its request
  left, so that popping a resume makes exactly that frame the innermost one;
* `TurnInv`: what the action that a turn has chosen may rely on, in particular that the frame to which an answer goes is
  innermost and lies above the calls of its role (`Delivers`);
* `AllowInv`: only the outermost pcall of a coroutine saved a permission to yield, and a coroutine in the chain has
  it unless a pcall is open (`Yields`);
* `QueueInv`: a finalizer that has been begun is in the queue only while it runs;
* `IdleInv`: between sessions the three stacks are empty.

`NestInit` and `NestNext` are the induction, one lemma per action of `Next`; lemmas about the stacks alone
(`StackOfPush`, `StackOfPrefix`, `OwnedGrown`, `OwnedShrunk`, `RoleIsInner`) carry the parts that
several actions disturb.  `Grounds` conjoins it with the invariants of the theorems above.  From it follow
`CodeKnowsItsBoundary`, `NothingYieldsThrough`, `AnswersFindTheirCall`, `LoopNeverGivesUp`, `PcallsForbidYields`,
`FinalizersBeginOnce` and `SchedulerIsBounded`.  The last one is the full `TypeOK`, with the bounds
that `SchedulerTypes` leaves out: no state has more frames than its limit, and nothing that is suspended ends
outside of its stack.

Model-checked only: the liveness properties and everything that needs fairness or ENABLED,
which the prover does not do; what is defined by RECURSIVE operators, in `LuaProgram`, `CodeGen` and
`CompiledCode` (`CodeMeansProgram`, `RoomSuffices`), whose syntax trees have no measure that is a number at hand
and whose proof would be that of a compiler; lengths of tables with keys above half of `MaxInteger`; of `Scheduler`, what
`SchedSessions` says of `FinalizerBegunOnce` for programs outside `Nestable`; of `RuntimeClose`, what programs with the
two `Risks` do; and that the compiler's output is `Compiled`, which TLC evaluates for the functions of the run.

## 5. Mutants

Each property has a mutant in `PROJECT.json`: a definition of the model changed
the way a bug would change the code (a barrier that works in one phase only, a
slot that wraps its generation, the oldest frame popped instead of the newest).
They stand next to the definition that they replace, marked `Mutant`, and no
specification uses them.

## 6. Where the code and its documents disagree

1. *A finalizer that makes a request under an enclosing pcall.*
   `active_driver_role` (`lua_vm/src/runtime.rs:4428`) prefers a pcall or
   callback frame of the same state to the running finalizer, also when that
   frame encloses the collection.  The finalizer continues in the role of the
   pcall, is never acknowledged, and the next collection starts it again.  The
   RFC promises exactly-once finalization.  Run `SchedNestedRequest`.
2. *The exchange of two local variables.*  The fast path of `emit_assign`
   (`lua_compiler/src/codegen/stmt_emit.rs:267`) generates, for `x, y = y, x`, the
   moves temp := y, x := x, y := temp: nothing is exchanged.  Run `CodeExchange`.

3. *setvbuf after the first write.*  A file opened for writing goes direct at its first write.
   `setvbuf` (`lua_stdlib/src/io.rs:1296`) leaves `__direct` set but makes
   `should_write_direct` answer false, so that the next write goes to a buffer (`io.rs:1937`)
   that no flush writes (`io.rs:1895`): it is lost, and `close` returns true.  Run `FilesBuffering`.

Deviations of the compiler that the same model shows when the programs of `MCCompiledCode` include
them (they do not, so that the run can be about everything else):

* `close_scope_upvalues` (`codegen/scope.rs:100`) emits no CLOSE when the last instruction
  is a RETURN, which is right only if that RETURN is always executed: in
  `while f() do local x = f(); f(function() return x end); if f() then return end end` all iterations
  share one `x`;
* `emit_local` (`stmt_emit.rs:452`) omits LOADNIL at the very beginning of a function also when a loop
  comes back there: `while true do local x; f(x); x = 1 end`;
* a parenthesised local variable counts as a temporary (`expr_emit.rs:112`): `(x) and f()`
  overwrites `x`, and `(x)()` calls in place of the last local variable;
* `g, y, x = 1, x` fills `x` with nil before its old value has been assigned to `y`;
* a condition such as `(f() or 1) == 1` leaves a register allocated; a `local function` that follows
  takes the register above it, and the registers of temporaries and variables then overlap;
* `local x = 1, f()` never calls `f`.

Smaller ones of the runtime, found while modelling:

* a finalizer that is refused `coroutine.resume` inside its own pcall: `FailFinalizer` unwinds
  call frames but leaves the activation frame of the pcall, and the session ends with a protocol error
  (`Scheduler` with finalizers that may "pcall" and "resume");
* a finalizer that fails in a library callback: the error does not pass through
  `resume_finalizer_callback`, nothing unwinds the finalizer's frames, and the answer of
  collectgarbage is refused because the depth has changed (finalizers that may use "helper" and "error");
* a generic for that iterates over `coroutine.yield` itself (`execute.rs:1381`) runs its body after the
  resume without the test for the end (`Calls` with `IteratorYields = TRUE` violates
  `CallsAreActivations`);
* an automatic finalizer whose error ends the session inside a coroutine does not give back the yield
  permission that the RFC says is restored on unwind;
* a waiting coroutine that is resumed while inside a pcall runs in the role of the program; one that is
  re-entered and yields makes the older delivery fail; the session guard restores the old status of a
  target also when it has died;
* `require` has no mark for a loader that runs, so modules that require each other recurse until the
  stack ends; `table.foreach` takes a cursor that `next` would refuse for the end of the table;
* the search for a length stops at `i32::MAX / 2`, so `#t` may miss a border when keys near 2^30 exist.

## 7. Not modelled, and the plan

Planned, in this order:

1. `CodeGen` shown to emit code that is `Compiled`.
2. An abstract heap (`LuaHeap`: objects appear, become unreachable, are
   finalized once, disappear) with `IncrementalGC` shown to implement it.
3. `StringPool` against the sweep, `AllocationLedger` and pacing, with the
   saturating arithmetic at its width; publication transactions.
4. Files: pipes and the standard streams.
5. `CodeGen`: tables, fields, varargs and nested functions; pattern matching of the string library.

Not to be modelled: formatting and host I/O, front ends, the instruction trace, the registration of
libraries, statistics and reports of the collector.  The lexer and parser are sequential and
compared with the reference implementation by the repository's own differential tests.  The metatable flag
cache of a table is written but never read outside tests.

About the size of what is modelled: of the roughly 170 000 lines of Rust in the repository two thirds
are under `src/book/code`, snapshots of earlier stages of the same program that accompany a
textbook; of the 58 000 lines of the program itself a good part are tests, formatting, reports and
library functions without state.  The modules stand for about 10 000 of its lines.
