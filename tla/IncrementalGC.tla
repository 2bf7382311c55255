--------------------------- MODULE IncrementalGC ---------------------------
(***************************************************************************)
(* The five-phase collector of lua_core/src/gc together with the Runtime   *)
(* driver of lua_vm/src/runtime that feeds it, and a Lua program that runs *)
(* between the driver's steps.                                             *)
(*                                                                         *)
(* An object is an address the allocator hands out once: ObjectIds are     *)
(* never reissued, so an object is not yet created, then in "live" (the    *)
(* collector's live_allocations table), then in "gone".  A coroutine state *)
(* is named by the Thread object that PendingState::bind_thread binds it   *)
(* to; what makes a StateHandle safe to hold is module StateArena.         *)
(*                                                                         *)
(* The work lists (gray_list, state_queue, pending_finalizers, the         *)
(* intrusive list) are sets here: the model takes their members in any     *)
(* order, the code in one.  One action is one unit of the work budget, so  *)
(* a public step with budget n is n such actions in a row.                 *)
(***************************************************************************)
EXTENDS FiniteSets, Naturals

CONSTANTS Tables, Userdatas, Threads, Closures, Upvalues,
          Main,      \* the main LuaState's handle
          Reg,       \* the stack slots of a state
          Scratch,   \* the slot above the caller's frame a __gc callback uses
          Modes,     \* the weak modes a table may be given, sets of "k", "v"
          Keys,      \* the objects the program uses as table keys
          Vals,      \* and those it stores as table values
          Rootable,  \* the objects the host may pin with add_root
          Nil        \* any value that is not a collectable object

Value == Tables \cup Userdatas \cup Threads \cup Closures
Obj   == Value \cup Upvalues
State == {Main} \cup Threads
Opt(S) == S \cup {Nil}

ASSUME KindsAreDisjoint ==
    /\ Tables \cap (Userdatas \cup Threads \cup Closures \cup Upvalues) = {}
    /\ Userdatas \cap (Threads \cup Closures \cup Upvalues) = {}
    /\ Threads \cap (Closures \cup Upvalues) = {}
    /\ Closures \cap Upvalues = {}
    /\ {Main, Nil} \cap Obj = {}
    /\ Main # Nil

ASSUME SlotsAssumption == Scratch \in Reg /\ Nil \notin State \X Reg

ASSUME ModesAssumption == {} \in Modes /\ \A m \in Modes : m \subseteq {"k", "v"}

ASSUME RestrictionsAssumption ==
    Rootable \subseteq Obj /\ Keys \subseteq Value /\ Vals \subseteq Value

VARIABLES
    live,       \* objects registered in live_allocations
    gone,       \* objects that were destroyed
    key, val,   \* a table's entry: its key and its value
    mode,       \* the __mode a table's metatable currently answers
    meta,       \* a userdata's metatable
    up,         \* the upvalue a closure captured
    at,         \* where an upvalue is open, <<state, slot>>; Nil once closed
    cell,       \* the value of a closed upvalue
    states,     \* occupied StateArena slots
    reg,        \* the stack of every state
    roots       \* explicit collector roots

VARIABLES
    phase,      \* GarbageCollector::incremental_phase
    stage,      \* what the driver is in the middle of; "run": the program runs
    marked,     \* objects that are not white
    gray,       \* GarbageCollector::gray_list
    queue,      \* IncrementalRootTrace::state_queue, attempted ones left out
    attempted,  \* IncrementalRootTrace::attempted_states
    traced,     \* IncrementalRootTrace::traced_states
    weakbits,   \* the WEAKKEY and WEAKVALUE bits of a table's header
    unswept,    \* objects from incremental_sweep_current to the list's end
    rejected    \* the trace met an edge that did not validate

VARIABLES
    finalized,  \* userdata with the FINALIZED bit
    pending,    \* GarbageCollector::pending_finalizers
    draining,   \* GarbageCollector::finalizers_running
    current,    \* GcActivationFrame::current_finalizer
    called      \* history: userdata whose __gc callback was started

graph == <<key, val, mode, meta, up, at, cell>>
heap  == <<live, gone, graph, states, reg, roots>>
trace == <<marked, gray, queue, attempted, traced, weakbits, unswept, rejected>>
fins  == <<finalized, pending, draining, current, called>>
vars  == <<heap, phase, stage, trace, fins>>

-----------------------------------------------------------------------------
(* The object graph *)

Objects(S) == S \ {Nil}

Entries(t) == Objects({key[t], val[t]})

StrongEntries(t, m) ==
    Objects({IF "k" \in m THEN Nil ELSE key[t], IF "v" \in m THEN Nil ELSE val[t]})

\* mark_children of every type but Table.
Fields(o) == Objects(IF o \in Userdatas THEN {meta[o]}
                     ELSE IF o \in Closures THEN {up[o]}
                     ELSE IF o \in Upvalues /\ at[o] = Nil THEN {cell[o]}
                     ELSE {})

Children(o) == IF o \in Tables THEN StrongEntries(o, mode[o]) ELSE Fields(o)

\* Every object the program can step to from o, weak entries included.
Steps(o) == IF o \in Tables THEN Entries(o) ELSE Fields(o)

OpenAt(s) == {u \in Upvalues : at[u] \in {s} \X Reg}

Stack(s) == Objects({reg[s][r] : r \in Reg})

\* What snapshot_state collects from a state.
Snapshot(s) == Stack(s) \cup OpenAt(s) \cup (IF s = Main THEN {} ELSE {s})

\* The StateHandle a Thread or an open Upvalue publishes when it is traced.
StateEdge(o) ==
    {s \in State : s = o \/ (o \in Upvalues /\ at[o] \in {s} \X Reg)}

HasGc(u) == meta[u] # Nil /\ key[meta[u]] = Nil /\ val[meta[u]] # Nil

Black(o) == o \in marked \ gray

-----------------------------------------------------------------------------
(* Marking *)

\* Mark the objects S, having finished the gray objects done.
Mark(S, done) ==
    /\ marked' = marked \cup (S \cap live)
    /\ gray' = (gray \ done) \cup ((S \cap live) \ marked)
    /\ rejected' = (rejected \/ ~ S \subseteq live)

\* abort_incremental_cycle.  Colours, weak bits and the Runtime's trace may
\* outlive the cycle in the code; nothing reads them before they are reset.
Abort ==
    /\ phase' = "Pause"
    /\ marked' = {} /\ gray' = {} /\ unswept' = {}
    /\ queue' = {} /\ attempted' = {} /\ traced' = {}
    /\ weakbits' = [t \in Tables |-> {}]
    /\ UNCHANGED rejected

\* Mutant: no forward barrier once the cycle is in its atomic phase.
BarrierOnlyInPropagate(o, S, m, stateEdgeChanged) ==
    IF phase = "Sweep" \/ (phase = "Propagate" /\ stateEdgeChanged)
    THEN Abort
    ELSE /\ IF phase = "Propagate" /\ Black(o)
            THEN Mark(S, {})
            ELSE UNCHANGED <<marked, gray, rejected>>
         /\ UNCHANGED <<phase, queue, attempted, traced, weakbits, unswept>>

\* after_managed_mutation on an owner whose children are now S; a table owner
\* is traced with the weak mode m.
Barrier(o, S, m, stateEdgeChanged) ==
    IF phase = "Sweep" \/ (phase = "Propagate" /\ stateEdgeChanged)
    THEN Abort
    ELSE /\ IF phase # "Pause" /\ Black(o)
            THEN /\ Mark(S, {})
                 /\ weakbits' = IF o \in Tables THEN [weakbits EXCEPT ![o] = m]
                                                ELSE weakbits
            ELSE UNCHANGED <<marked, gray, rejected, weakbits>>
         /\ UNCHANGED <<phase, queue, attempted, traced, unswept>>

\* try_create and publish_new_allocation: register o, whose children are S.
Create(o, S) ==
    /\ o \notin live \cup gone
    /\ live' = live \cup {o}
    /\ UNCHANGED gone
    /\ IF phase = "Pause"
       THEN UNCHANGED <<phase, trace>>
       ELSE IF phase = "Sweep" \/ o \in Threads \cup Upvalues
       THEN Abort
       ELSE /\ marked' = marked \cup {o} \cup (S \cap live)
            /\ gray' = gray \cup ((S \cap live) \ marked)
            /\ rejected' = (rejected \/ ~ S \subseteq live)
            /\ UNCHANGED <<phase, queue, attempted, traced, weakbits, unswept>>

-----------------------------------------------------------------------------
(* The program: one Lua instruction or library call on a state's stack.    *)
(* Stack writes carry no barrier.                                          *)

\* The running state: the main one, or a coroutine the main stack resumed.
Runs(s) == stage = "run" /\ s \in states /\ (s = Main \/ s \in Stack(Main))

\* Slots an instruction may write.
Dest == Reg \ {Scratch}

Write(s, r, v) == reg' = [reg EXCEPT ![s][r] = v]

\* MOVE within a stack, a resume argument or a yielded result between stacks,
\* and LOADNIL.
Move(s, r, s2, r2) ==
    /\ Runs(s) /\ Runs(s2) /\ r2 \in Dest
    /\ \E v \in {reg[s][r], Nil} : Write(s2, r2, v)
    /\ UNCHANGED <<live, gone, graph, states, roots, phase, stage, trace, fins>>

\* GETTABLE, next and getmetatable.
Load(s, r, r2) ==
    /\ Runs(s) /\ r2 \in Dest
    /\ reg[s][r] \in Tables \cup Userdatas
    /\ \E v \in Steps(reg[s][r]) : Write(s, r2, v)
    /\ UNCHANGED <<live, gone, graph, states, roots, phase, stage, trace, fins>>

\* SETTABLE through with_mut: the entry of the table in slot r becomes <<k, v>>.
Store(s, r, k, v) ==
    /\ Runs(s)
    /\ reg[s][r] \in Tables
    /\ k \in Opt(Stack(s) \cap Keys) /\ v \in Opt(Stack(s) \cap Vals)
    /\ LET t == reg[s][r] IN
       /\ key' = [key EXCEPT ![t] = k]
       /\ val' = [val EXCEPT ![t] = v]
       /\ Barrier(t, Objects({IF "k" \in mode[t] THEN Nil ELSE k,
                              IF "v" \in mode[t] THEN Nil ELSE v}), mode[t], FALSE)
    /\ UNCHANGED <<live, gone, mode, meta, up, at, cell, states, reg, roots, stage, fins>>

\* setmetatable on the table in slot r, which changes its weak mode.
SetTableMetatable(s, r, m) ==
    /\ Runs(s)
    /\ reg[s][r] \in Tables /\ m # mode[reg[s][r]]
    /\ LET t == reg[s][r] IN
       /\ mode' = [mode EXCEPT ![t] = m]
       /\ Barrier(t, StrongEntries(t, m), m, FALSE)
    /\ UNCHANGED <<live, gone, key, val, meta, up, at, cell, states, reg, roots,
                   stage, fins>>

\* A write of the __mode field in the metatable of table t: the barrier runs
\* for the metatable, and t itself is not traced again.
SetModeField(t, m) ==
    /\ stage = "run" /\ t \in live /\ m # mode[t]
    /\ mode' = [mode EXCEPT ![t] = m]
    /\ IF phase = "Sweep" THEN Abort ELSE UNCHANGED <<phase, trace>>
    /\ UNCHANGED <<live, gone, key, val, meta, up, at, cell, states, reg, roots,
                   stage, fins>>

\* debug.setmetatable on the userdata in slot r.
SetUserdataMetatable(s, r, v) ==
    /\ Runs(s)
    /\ reg[s][r] \in Userdatas
    /\ v \in Opt(Stack(s) \cap Tables) /\ v # meta[reg[s][r]]
    /\ meta' = [meta EXCEPT ![reg[s][r]] = v]
    /\ Barrier(reg[s][r], Objects({v}), {}, FALSE)
    /\ UNCHANGED <<live, gone, key, val, mode, up, at, cell, states, reg, roots,
                   stage, fins>>

\* NEWTABLE, and a library call that makes a userdata.
New(s, r, o) ==
    /\ Runs(s) /\ r \in Dest
    /\ o \in Tables \cup Userdatas
    /\ Create(o, {})
    /\ Write(s, r, o)
    /\ UNCHANGED <<graph, states, roots, stage, fins>>

\* coroutine.create: the Thread object, its state with the entry value v, the
\* edges between the two and the result on the stack are one publication.
NewThread(s, r, th, v) ==
    /\ Runs(s) /\ r \in Dest
    /\ v \in Opt(Stack(s))
    /\ th \in Threads
    /\ Create(th, {})
    /\ states' = states \cup {th}
    /\ reg' = [reg EXCEPT ![s][r] = th,
                          ![th] = [x \in Reg |-> IF x = r THEN v ELSE Nil]]
    /\ UNCHANGED <<graph, roots, stage, fins>>

\* CLOSURE over slot x when the slot already has an open upvalue u.
NewClosureShared(s, r, c, u, x) ==
    /\ Runs(s) /\ r \in Dest
    /\ c \in Closures /\ u \in OpenAt(s) /\ at[u] = <<s, x>>
    /\ Create(c, {u})
    /\ up' = [up EXCEPT ![c] = u]
    /\ Write(s, r, c)
    /\ UNCHANGED <<key, val, mode, meta, at, cell, states, roots, stage, fins>>

\* CLOSURE over slot x when find_or_create_upvalue creates the upvalue u: its
\* allocation abandons any active cycle before the closure is allocated.
NewClosureFresh(s, r, c, u, x) ==
    /\ Runs(s) /\ r \in Dest /\ x \in Dest
    /\ c \in Closures \ (live \cup gone)
    /\ u \in Upvalues \ (live \cup gone)
    /\ \A w \in OpenAt(s) : at[w] # <<s, x>>
    /\ live' = live \cup {c, u}
    /\ at' = [at EXCEPT ![u] = <<s, x>>]
    /\ up' = [up EXCEPT ![c] = u]
    /\ Write(s, r, c)
    /\ IF phase = "Pause" THEN UNCHANGED <<phase, trace>> ELSE Abort
    /\ UNCHANGED <<gone, key, val, mode, meta, cell, states, roots, stage, fins>>

\* GETUPVAL through the closure in slot r: an open upvalue reads its owner's
\* stack, in a turn of the owner if that is another state.
GetUpvalue(s, r, r2) ==
    /\ Runs(s) /\ r2 \in Dest
    /\ reg[s][r] \in Closures /\ up[reg[s][r]] # Nil
    /\ LET u == up[reg[s][r]] IN
       Write(s, r2, IF at[u] = Nil THEN cell[u] ELSE reg[at[u][1]][at[u][2]])
    /\ UNCHANGED <<live, gone, graph, states, roots, phase, stage, trace, fins>>

\* SETUPVAL: a stack write while the upvalue is open, with_mut once it is closed.
SetUpvalue(s, r, v) ==
    /\ Runs(s)
    /\ reg[s][r] \in Closures /\ up[reg[s][r]] # Nil
    /\ v \in Opt(Stack(s))
    /\ LET u == up[reg[s][r]] IN
       IF at[u] # Nil
       THEN /\ reg' = [reg EXCEPT ![at[u][1]][at[u][2]] = v]
            /\ UNCHANGED <<cell, phase, trace>>
       ELSE /\ cell' = [cell EXCEPT ![u] = v]
            /\ Barrier(u, Objects({v}), {}, FALSE)
            /\ UNCHANGED reg
    /\ UNCHANGED <<live, gone, key, val, mode, meta, up, at, states, roots, stage, fins>>

Located(u) == reg[at[u][1]][at[u][2]]

\* close_upvalues when the block that owns the slots R ends.
CloseUpvalues(s, R) ==
    /\ Runs(s)
    /\ LET U == {u \in OpenAt(s) : at[u][2] \in R} IN
       /\ U # {}
       /\ cell' = [u \in Upvalues |-> IF u \in U THEN Located(u) ELSE cell[u]]
       /\ at' = [u \in Upvalues |-> IF u \in U THEN Nil ELSE at[u]]
       /\ IF phase \in {"Propagate", "Sweep"}
          THEN Abort
          ELSE /\ IF phase = "Pause" THEN UNCHANGED <<marked, gray, rejected>>
                  ELSE Mark(Objects({Located(u) : u \in {w \in U : Black(w)}}), {})
               /\ UNCHANGED <<phase, queue, attempted, traced, weakbits, unswept>>
    /\ UNCHANGED <<live, gone, key, val, mode, meta, up, states, reg, roots, stage, fins>>

\* add_root by the host, with write_root_barrier.
AddRoot(o) ==
    /\ stage = "run"
    /\ o \in (Rootable \cap Stack(Main)) \ roots
    /\ roots' = roots \cup {o}
    /\ IF phase = "Pause" THEN UNCHANGED <<phase, trace>>
       ELSE IF phase = "Sweep" THEN Abort
       ELSE /\ Mark({o}, {})
            /\ UNCHANGED <<phase, queue, attempted, traced, weakbits, unswept>>
    /\ UNCHANGED <<live, gone, graph, states, reg, stage, fins>>

RemoveRoot(o) ==
    /\ stage = "run"
    /\ o \in roots
    /\ roots' = roots \ {o}
    /\ UNCHANGED <<live, gone, graph, states, reg, phase, stage, trace, fins>>

-----------------------------------------------------------------------------
(* Tracing units, shared by the bounded Propagate phase and by the drains  *)
(* of the atomic step and of a full collection                             *)

Drains == {"rescan", "modes", "resurrect", "mark", "remark"}

Tracing == stage \in Drains \/ (stage = "run" /\ phase = "Propagate")

Drained == queue = {} /\ gray = {}

\* A bounded step that empties both queues publishes the atomic phase.
EnterAtomicWhenComplete ==
    phase' = IF stage = "run" /\ queue' = {} /\ gray' = {} THEN "Atomic" ELSE phase

TraceState(s) ==
    /\ Tracing /\ s \in queue
    /\ queue' = queue \ {s}
    /\ attempted' = attempted \cup {s}
    /\ IF s \in states
       THEN traced' = traced \cup {s} /\ Mark(Snapshot(s), {})
       ELSE rejected' = TRUE /\ UNCHANGED <<traced, marked, gray>>
    /\ EnterAtomicWhenComplete
    /\ UNCHANGED <<heap, stage, weakbits, unswept, fins>>

\* propagate_one_marked_object, taken only when no state is waiting.
TraceObject(o) ==
    /\ Tracing /\ queue = {} /\ o \in gray
    /\ Mark(Children(o), {o})
    /\ queue' = StateEdge(o) \ attempted
    /\ weakbits' = IF o \in Tables THEN [weakbits EXCEPT ![o] = mode[o]] ELSE weakbits
    /\ EnterAtomicWhenComplete
    /\ UNCHANGED <<heap, stage, attempted, traced, unswept, fins>>

\* begin_mark_only with the pending finalizers P, and the seeds of a new trace.
BeginMark(P) ==
    /\ marked' = (roots \cup P) \cap live
    /\ gray' = (roots \cup P) \cap live
    /\ rejected' = ~ (roots \cup P) \subseteq live
    /\ queue' = {Main} /\ attempted' = {} /\ traced' = {}
    /\ weakbits' = [t \in Tables |-> {}]
    /\ unswept' = {}

-----------------------------------------------------------------------------
(* What the atomic step and a full collection do once the trace is complete *)

\* Mutants: a userdata is queued again; only one whose metatable was marked is.
FinalizableAgain == {u \in (Userdatas \cap live) \ marked :
                         meta[u] \in live /\ HasGc(u)}
FinalizableIfMetatableMarked == {u \in (Userdatas \cap live) \ (marked \cup finalized) :
                                     meta[u] \in marked /\ HasGc(u)}

\* prepare_finalizable_userdata: the white userdata that now get a callback.
Finalizable == {u \in (Userdatas \cap live) \ (marked \cup finalized) :
                    meta[u] \in live /\ HasGc(u)}

Queue(U) == pending' = pending \cup U /\ finalized' = finalized \cup U

Dead(o) == o # Nil /\ o \notin marked

\* Mutant: a weak value that the finalizer queue resurrected counts as alive.
WeakDeadIgnoresQueue(o) == Dead(o)

WeakDead(o) == Dead(o) \/ o \in pending

\* Whether remove_weak_entries_from_table drops the entry of table t.
Drops(t) ==
    \/ /\ "k" \in weakbits[t] /\ Dead(key[t]) /\ key[t] \notin pending
       /\ ~ (weakbits[t] = {"k"} /\ key[t] = val[t])
    \/ "v" \in weakbits[t] /\ WeakDead(val[t])

Cleared == {t \in marked \cap Tables : Drops(t)}

\* sweep_unreachable_owned: the states no trace reached, and their upvalues.
DeadStates == states \ (traced \cup {Main})

\* Mutant: a removed state leaves its upvalues open.
NoOrphans == {}

Orphans == UNION {OpenAt(s) : s \in DeadStates}

\* Destroy the objects D after clearing weak entries and dropping dead states;
\* what a destroyed object held is forgotten.
Reclaim(cleared, U, S, D) ==
    /\ live' = live \ D /\ gone' = gone \cup D
    /\ key' = [t \in Tables |-> IF t \in cleared \cup D THEN Nil ELSE key[t]]
    /\ val' = [t \in Tables |-> IF t \in cleared \cup D THEN Nil ELSE val[t]]
    /\ mode' = [t \in Tables |-> IF t \in D THEN {} ELSE mode[t]]
    /\ meta' = [u \in Userdatas |-> IF u \in D THEN Nil ELSE meta[u]]
    /\ up' = [c \in Closures |-> IF c \in D THEN Nil ELSE up[c]]
    /\ cell' = [u \in Upvalues |-> IF u \in D THEN Nil
                                   ELSE IF u \in U THEN Located(u) ELSE cell[u]]
    /\ at' = [u \in Upvalues |-> IF u \in U THEN Nil ELSE at[u]]
    /\ states' = states \ S
    /\ reg' = [s \in State |-> IF s \in S THEN [r \in Reg |-> Nil] ELSE reg[s]]
    /\ roots' = roots \ D
    /\ finalized' = finalized \ D /\ called' = called \ D

\* A finished cycle starts delivering finalizers unless a drain is running.
DeliverAfterCycle(P) ==
    IF P # {} /\ ~draining THEN draining' = TRUE /\ stage' = "deliver"
                           ELSE stage' = "run" /\ UNCHANGED draining

-----------------------------------------------------------------------------
(* collectgarbage("step"): one unit of collect_incremental_step_at_safe_point *)

BeginCycle ==
    /\ stage = "run" /\ phase = "Pause"
    /\ BeginMark(pending)
    /\ phase' = "Propagate"
    /\ UNCHANGED <<heap, stage, fins>>

\* Mutant: states attempted during propagation are not traced again.
StartAtomicKeepsAttempted ==
    /\ stage = "run" /\ phase = "Atomic"
    /\ Mark(Objects({current}), {})
    /\ queue' = ({Main} \cup traced) \ attempted
    /\ stage' = "rescan"
    /\ UNCHANGED <<heap, phase, attempted, traced, weakbits, unswept, fins>>

\* atomic_rescan seeds the activation frames and every state traced so far;
\* the explicit roots are not seeded again.
StartAtomic ==
    /\ stage = "run" /\ phase = "Atomic"
    /\ Mark(Objects({current}), {})
    /\ queue' = {Main} \cup traced /\ attempted' = {}
    /\ stage' = "rescan"
    /\ UNCHANGED <<heap, phase, traced, weakbits, unswept, fins>>

\* Mutant: the weak modes recorded during propagation are final.
ReconcileNothing ==
    /\ stage = "rescan" /\ Drained
    /\ stage' = "modes"
    /\ UNCHANGED <<heap, phase, trace, fins>>

\* reconcile_weak_table_modes traces every marked table again.
Reconcile ==
    /\ stage = "rescan" /\ Drained
    /\ Mark(UNION {StrongEntries(t, mode[t]) : t \in marked \cap Tables}, {})
    /\ weakbits' = [t \in Tables |-> IF t \in marked THEN mode[t] ELSE weakbits[t]]
    /\ stage' = "modes"
    /\ UNCHANGED <<heap, phase, queue, attempted, traced, unswept, fins>>

PrepareFinalizers ==
    /\ stage = "modes" /\ Drained
    /\ Queue(Finalizable) /\ Mark(Finalizable, {})
    /\ stage' = "resurrect"
    /\ UNCHANGED <<heap, phase, queue, attempted, traced, weakbits, unswept,
                   draining, current, called>>

\* ensure_sweep_safe, clear_weak_table_entries, sweep_unreachable_owned and
\* begin_incremental_sweep.
FinishAtomic ==
    /\ stage = "resurrect" /\ Drained /\ ~rejected
    /\ Reclaim(Cleared, Orphans, DeadStates, {})
    /\ Mark(Objects({Located(u) : u \in Orphans \cap marked}), {})
    /\ phase' = "Sweep" /\ unswept' = live /\ stage' = "run"
    /\ UNCHANGED <<queue, attempted, traced, weakbits, pending, draining, current>>

PhaseAfterSweeping(rest) == phase' = IF rest = {} THEN "Finalize" ELSE "Sweep"

\* incremental_sweep_step destroys a white object that is not an open upvalue.
SweepWhite(o) ==
    /\ stage = "run" /\ phase = "Sweep"
    /\ o \in unswept \ marked
    /\ o \in Upvalues => at[o] = Nil
    /\ Reclaim({}, {}, {}, {o})
    /\ pending' = pending \ {o} /\ gray' = gray \ {o}
    /\ unswept' = unswept \ {o} /\ PhaseAfterSweeping(unswept')
    /\ UNCHANGED <<stage, marked, queue, attempted, traced, weakbits, rejected,
                   draining, current>>

\* It turns a survivor white for the next cycle.
SweepSurvivor(o) ==
    /\ stage = "run" /\ phase = "Sweep"
    /\ o \in unswept
    /\ o \in marked \/ (o \in Upvalues /\ at[o] # Nil)
    /\ marked' = marked \ {o}
    /\ unswept' = unswept \ {o} /\ PhaseAfterSweeping(unswept')
    /\ UNCHANGED <<heap, stage, gray, queue, attempted, traced, weakbits, rejected, fins>>

SweepEmptyHeap ==
    /\ stage = "run" /\ phase = "Sweep" /\ unswept = {}
    /\ phase' = "Finalize"
    /\ UNCHANGED <<heap, stage, trace, fins>>

\* Mutant: a completed cycle does not start the finalizer drain.
CompleteWithoutDelivery ==
    /\ stage = "run" /\ phase = "Finalize"
    /\ Abort
    /\ UNCHANGED <<heap, stage, fins>>

\* complete_incremental_cycle and the start of the finalizer drain.
CompleteCycle ==
    /\ stage = "run" /\ phase = "Finalize"
    /\ Abort
    /\ DeliverAfterCycle(pending)
    /\ UNCHANGED <<heap, finalized, pending, current, called>>

-----------------------------------------------------------------------------
(* collectgarbage("collect"): collect_full_stw_at_safe_point *)

BeginFull ==
    /\ stage = "run"
    /\ BeginMark(pending)
    /\ phase' = "Pause" /\ stage' = "mark"
    /\ UNCHANGED <<heap, fins>>

\* Newly found finalizable userdata cause a second complete mark.
PrepareFull ==
    /\ stage = "mark" /\ Drained /\ ~rejected
    /\ Queue(Finalizable)
    /\ IF Finalizable = {} THEN UNCHANGED trace ELSE BeginMark(pending')
    /\ stage' = "remark"
    /\ UNCHANGED <<heap, phase, draining, current, called>>

\* The stop-the-world sweep does not spare open upvalues.
FinishFull ==
    /\ stage = "remark" /\ Drained /\ ~rejected
    /\ Reclaim(Cleared, Orphans, DeadStates, live \ marked)
    /\ pending' = pending \cap marked
    /\ Abort
    /\ DeliverAfterCycle(pending')
    /\ UNCHANGED current

-----------------------------------------------------------------------------
(* Delivery of __gc callbacks *)

\* next_finalizer_action: start the callback with the userdata on the stack.
StartFinalizer(u) ==
    /\ stage = "deliver" /\ u \in pending /\ HasGc(u)
    /\ current' = u /\ called' = called \cup {u}
    /\ Write(Main, Scratch, u)
    /\ stage' = "run"
    /\ UNCHANGED <<live, gone, graph, states, roots, phase, trace,
                   finalized, pending, draining>>

\* A userdata whose __gc field is gone by now is acknowledged without a call.
SkipFinalizer(u) ==
    /\ stage = "deliver" /\ u \in pending /\ ~HasGc(u)
    /\ pending' = pending \ {u}
    /\ UNCHANGED <<heap, phase, stage, trace, finalized, draining, current, called>>

EndDrain ==
    /\ stage = "deliver" /\ pending = {}
    /\ draining' = FALSE /\ stage' = "run"
    /\ UNCHANGED <<heap, phase, trace, finalized, pending, current, called>>

\* The callback returned (the drain goes on) or raised an error (it stops).
EndFinalizer(ok) ==
    /\ stage = "run" /\ current # Nil
    /\ pending' = pending \ {current} /\ current' = Nil
    /\ Write(Main, Scratch, Nil)
    /\ IF ok THEN stage' = "deliver" /\ UNCHANGED draining
             ELSE draining' = FALSE /\ UNCHANGED stage
    /\ UNCHANGED <<live, gone, graph, states, roots, phase, trace, finalized, called>>

-----------------------------------------------------------------------------
Init ==
    /\ live = {} /\ gone = {}
    /\ key = [t \in Tables |-> Nil] /\ val = [t \in Tables |-> Nil]
    /\ mode = [t \in Tables |-> {}]
    /\ meta = [u \in Userdatas |-> Nil]
    /\ up = [c \in Closures |-> Nil]
    /\ at = [u \in Upvalues |-> Nil] /\ cell = [u \in Upvalues |-> Nil]
    /\ states = {Main}
    /\ reg = [s \in State |-> [r \in Reg |-> Nil]]
    /\ roots = {}
    /\ phase = "Pause" /\ stage = "run"
    /\ marked = {} /\ gray = {}
    /\ queue = {} /\ attempted = {} /\ traced = {}
    /\ weakbits = [t \in Tables |-> {}]
    /\ unswept = {} /\ rejected = FALSE
    /\ finalized = {} /\ pending = {}
    /\ draining = FALSE /\ current = Nil /\ called = {}

StackOp ==
    \/ \E s, s2 \in State, r, r2 \in Reg : Move(s, r, s2, r2)
    \/ \E s \in State, r, r2 \in Reg : Load(s, r, r2) \/ GetUpvalue(s, r, r2)

HeapOp ==
    \/ \E s \in State, r \in Reg, k \in Opt(Keys), v \in Opt(Vals) : Store(s, r, k, v)
    \/ \E s \in State, r \in Reg, m \in Modes : SetTableMetatable(s, r, m)
    \/ \E t \in Tables, m \in Modes : SetModeField(t, m)
    \/ \E s \in State, r \in Reg, v \in Opt(Tables) : SetUserdataMetatable(s, r, v)
    \/ \E s \in State, r \in Reg, v \in Opt(Value) : SetUpvalue(s, r, v)
    \/ \E s \in State, R \in SUBSET Reg : CloseUpvalues(s, R)
    \/ \E o \in Rootable : AddRoot(o) \/ RemoveRoot(o)

Allocation ==
    \/ \E s \in State, r \in Reg, o \in Tables \cup Userdatas : New(s, r, o)
    \/ \E s \in State, r \in Reg, th \in Threads, v \in Opt(Value) : NewThread(s, r, th, v)
    \/ \E s \in State, r, x \in Reg, c \in Closures, u \in Upvalues :
           NewClosureShared(s, r, c, u, x) \/ NewClosureFresh(s, r, c, u, x)

Program == StackOp \/ HeapOp \/ Allocation

\* The units of explicit or automatic incremental steps.
StepUnit ==
    \/ BeginCycle \/ StartAtomic \/ Reconcile \/ PrepareFinalizers \/ FinishAtomic
    \/ SweepEmptyHeap \/ CompleteCycle
    \/ \E s \in State : TraceState(s)
    \/ \E o \in Obj : TraceObject(o) \/ SweepWhite(o) \/ SweepSurvivor(o)

FullCollection == BeginFull \/ PrepareFull \/ FinishFull

Finalizers ==
    \/ \E u \in Userdatas : StartFinalizer(u) \/ SkipFinalizer(u)
    \/ EndDrain
    \/ \E ok \in BOOLEAN : EndFinalizer(ok)

Next == Program \/ StepUnit \/ FullCollection \/ Finalizers

Spec == Init /\ [][Next]_vars

-----------------------------------------------------------------------------
(* Properties *)

HeapTypes ==
    /\ live \subseteq Obj /\ gone \subseteq Obj
    /\ key \in [Tables -> Opt(Value)] /\ val \in [Tables -> Opt(Value)]
    /\ mode \in [Tables -> Modes]
    /\ meta \in [Userdatas -> Opt(Tables)]
    /\ up \in [Closures -> Opt(Upvalues)]
    /\ at \in [Upvalues -> Opt(State \X Reg)]
    /\ cell \in [Upvalues -> Opt(Value)]
    /\ states \subseteq State
    /\ reg \in [State -> [Reg -> Opt(Value)]]
    /\ roots \subseteq Obj

TraceTypes ==
    /\ phase \in {"Pause", "Propagate", "Atomic", "Sweep", "Finalize"}
    /\ stage \in Drains \cup {"run", "deliver"}
    /\ marked \subseteq Obj /\ gray \subseteq Obj
    /\ queue \subseteq State /\ attempted \subseteq State /\ traced \subseteq State
    /\ weakbits \in [Tables -> Modes]
    /\ unswept \subseteq Obj
    /\ rejected \in BOOLEAN

FinalizerTypes ==
    /\ finalized \subseteq Userdatas /\ pending \subseteq Userdatas
    /\ called \subseteq Userdatas
    /\ draining \in BOOLEAN
    /\ current \in Opt(Userdatas)

\* Every variable stays within its domain, and nothing is both live and
\* destroyed: an ObjectId names one object for the life of the heap.
TypeOK == HeapTypes /\ TraceTypes /\ FinalizerTypes /\ live \cap gone = {}

\* No stack slot, explicit root or queued finalizer ever names an object the
\* collector destroyed, and no Thread on a stack has lost its state: since the
\* program can load whatever it can reach, nothing reachable is ever destroyed.
NothingReachableIsDestroyed ==
    /\ \A s \in states : Stack(s) \subseteq live
    /\ \A s \in states : Stack(s) \cap Threads \subseteq states
    /\ roots \cup pending \subseteq live
    /\ current # Nil => current \in pending

\* A trace, however the program interleaves with it, never meets a stale edge
\* or a removed state, so ensure_sweep_safe never refuses to sweep.
TraceNeverRejects == ~rejected

\* The collector removes entries from weak tables only, as the modes stand when
\* it clears them and whatever they were when the table was traced.
CollectorKeepsStrongEntries ==
    [][stage # "run" => \A t \in live \cap live' \cap Tables :
           mode[t] = {} => key'[t] = key[t] /\ val'[t] = val[t]]_vars

\* A cycle leaves no weak value naming a userdata whose finalizer is queued,
\* although the queue has just resurrected it.
WeakValuesForgetQueued ==
    [][(stage \in {"resurrect", "remark"}) /\ stage' \notin Drains =>
           \A t \in marked \cap Tables : "v" \in mode[t] => val'[t] \notin pending']_vars

\* An open upvalue that exists belongs to a state that exists, so closing it
\* or reading through it finds a stack.
OpenUpvalueHasItsState ==
    \A u \in Upvalues : at[u] # Nil => u \in live /\ StateEdge(u) \subseteq states

\* A __gc callback is started at most once for a userdata.
FinalizedAtMostOnce ==
    [][\A u \in Userdatas : current' = u /\ current # u => u \notin called]_vars

\* A userdata that has a __gc callback is not destroyed before the callback was
\* started, unless it was queued and had lost its __gc when its turn came.
FinalizedBeforeDestroyed ==
    [][\A u \in (Userdatas \cap live) \ live' :
           HasGc(u) /\ meta[u] \in live => u \in finalized /\ u \notin pending]_vars

-----------------------------------------------------------------------------
(* The inductive invariant behind NothingReachableIsDestroyed,             *)
(* TraceNeverRejects and OpenUpvalueHasItsState                            *)

Marking == stage \in Drains \/ phase \in {"Propagate", "Atomic"}

\* Userdata that would get a callback if they were found white.
Candidates == {u \in (Userdatas \cap live) \ finalized : meta[u] \in live /\ HasGc(u)}

\* K holds the roots, every stack and everything the program can reach from
\* them; garbage outside K may refer to what an abandoned sweep destroyed.
Closed(K) ==
    /\ \A s \in states : Snapshot(s) \subseteq K
    /\ \A o \in K : Steps(o) \subseteq K /\ StateEdge(o) \subseteq states
    /\ roots \cup pending \cup Candidates \subseteq K

HeapIsSafe ==
    \E K \in SUBSET live :
        /\ Closed(K)
        /\ Marking => marked \subseteq K
        /\ phase = "Sweep" => K \cap (unswept \ marked) = {}

\* An object that is not registered refers to nothing, and a reference is to an
\* object that was registered once.
Tidy ==
    /\ Main \in states
    /\ \A o \in Obj \ live : Steps(o) = {}
    /\ \A o \in live : Steps(o) \subseteq live \cup gone
    /\ \A u \in Upvalues : StateEdge(u) \subseteq states

\* Where the trace stands: what is black, and what the driver will not look at
\* again before it sweeps.
TraceIsSound ==
    /\ ~rejected
    /\ Marking =>
        /\ gray \subseteq marked
        /\ roots \cup pending \subseteq marked
        /\ \A o \in marked \ gray :
               Fields(o) \subseteq marked /\ StateEdge(o) \subseteq attempted \cup queue
        /\ attempted \subseteq traced
        /\ {Main} \cup traced \subseteq attempted \cup queue
        /\ queue \cup traced \subseteq states

AtomicIsSound ==
    /\ phase = "Atomic" /\ stage \notin Drains => queue = {}
    /\ stage \in {"rescan", "modes", "resurrect"} => phase = "Atomic"
    /\ stage \in {"mark", "remark"} => phase = "Pause"
    /\ stage \in Drains => \A s \in attempted : Snapshot(s) \subseteq marked
    /\ stage \in Drains \ {"rescan"} =>
           \A t \in (marked \ gray) \cap Tables :
               StrongEntries(t, mode[t]) \subseteq marked /\ weakbits[t] = mode[t]
    /\ stage = "resurrect" => Candidates \subseteq marked

\* Callbacks: who was called was queued, and is queued no more once it ends.
DeliveryIsSound ==
    /\ called \cup pending \subseteq finalized
    /\ called \cap pending \subseteq {current}
    /\ current # Nil => current \in pending /\ draining
    /\ stage = "deliver" => current = Nil /\ draining

HeapInvariant ==
    HeapIsSafe /\ Tidy /\ TraceIsSound /\ AtomicIsSound /\ DeliveryIsSound

=============================================================================
