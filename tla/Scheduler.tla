------------------------------ MODULE Scheduler ------------------------------
(***************************************************************************)
(* The coroutine trampoline: Runtime::execute_proto of lua_vm/runtime.rs.  *)
(*                                                                         *)
(* The VM never runs one Lua state inside another.  Code that resumes a    *)
(* coroutine, calls pcall or a library function with a callback, collects  *)
(* garbage or reads a local of another state leaves the VM with a request. *)
(* The loop of execute_proto then pushes an activation frame, picks a      *)
(* driver action, and lets the next state take its turn.  A turn runs      *)
(* under a driver role, which says where the call it works for ends.       *)
(*                                                                         *)
(* A turn is two steps and more here: the driver action                    *)
(* (execute_native_driver_action), the steps of the Lua code, and the event *)
(* that ends it (classify_native_turn and the loop's arm for the event).   *)
(***************************************************************************)
EXTENDS Integers, Sequences, SequencesExt

CONSTANTS
    Main,          \* the main state
    Coroutines,    \* the coroutine states, each with its Thread object
    None,          \* no thread
    MaxFinalizers, \* how many userdata the collector may find to finalize
    MaxDepth,      \* bound: call frames of a state
    MaxNest,       \* bound: activation frames of every kind together
    MaxAllow,      \* bound: unreleased yield permissions of a coroutine
    Program,       \* the operations that the program uses ...
    InFinalizer    \* ... and those that a __gc callback uses

Operations == {"call", "resume", "reenter", "yield", "pcall", "xpcall", "helper",
               "metamethod", "upvalue", "collect", "automatic", "error",
               "fault"}

ASSUME OperationsAssumption == Program \subseteq Operations /\ InFinalizer \subseteq Operations
ASSUME StatesAssumption == Main \notin Coroutines /\ None \notin Coroutines
ASSUME BoundsAssumption == MaxFinalizers \in Nat /\ MaxDepth \in Nat \ {0}
                             /\ MaxNest \in Nat /\ MaxAllow \in Nat

VARIABLES
    mode,       \* where the loop is: "idle" outside a session, "action" before
                \* the driver action, "lua" while code runs, else how it stopped
    turn,       \* the driver action of this turn, with its role
    owed,       \* completed_activation: this turn ends the top activation frame
    current,    \* the state whose turn it is
    calls,      \* call_stack of each state, outermost frame first
    allow,      \* allow_yield of each state
    status,     \* Thread::status
    link,       \* Thread::caller
    started,    \* the threads that were resumed once
    frames,     \* activations.frames: resumes in progress
    boundaries, \* activations.protected_calls and callback_helpers, in the
                \* order of their sequence numbers
    gcFrames,   \* activations.gc_frames
    queue,      \* pending_finalizers
    draining,   \* finalizers_running
    found,      \* how many userdata the collector has queued so far
    begun,      \* history: how often each finalizer was started
    outcome     \* history: how the last session ended

vars == <<mode, turn, owed, current, calls, allow, status, link, started, frames,
          boundaries, gcFrames, queue, draining, found, begun, outcome>>
threadVars == <<status, link, started>>
gcVars == <<gcFrames, queue, draining, found, begun>>

States == Coroutines \cup {Main}

\* NativeDriverRole: stop is the depth at which the call of the role ends.
Role(kind, stop) == [kind |-> kind, stop |-> stop]
ProgramRole == Role("program", 0)

Turn(do, role, ok) == [do |-> do, role |-> role, ok |-> ok]
NoTurn == Turn("none", ProgramRole, TRUE)

\* current_thread of a state.
ThreadOf(s) == IF s = Main THEN None ELSE s

-----------------------------------------------------------------------------
(* Activation stacks *)

OldestOfKind(kind, bs) == SelectInSeq(bs, LAMBDA b : b.kind = kind)
IndexOfKind(kind, bs) == SelectLastInSeq(bs, LAMBDA b : b.kind = kind)

RoleOf(b) == Role(b.kind, b.stop)

\* active_finalizer_role: the drain that runs on the state s, 0 if there is none.
ActiveDrain(gs, s) == SelectLastInSeq(gs, LAMBDA g : g.draining /\ g.owner = s)

OutermostRole(bs, gs, s) ==
    LET b == SelectInSeq(bs, LAMBDA x : x.owner = s)
        g == ActiveDrain(gs, s)
    IN  IF b # 0 THEN RoleOf(bs[b])
        ELSE IF g # 0 THEN Role("finalizer", gs[g].stop)
        ELSE ProgramRole

\* active_driver_role: the newest pcall or callback frame of s, else its finalizer.
ActiveRole(bs, gs, s) ==
    LET b == SelectLastInSeq(bs, LAMBDA x : x.owner = s)
        g == ActiveDrain(gs, s)
    IN  IF b # 0 THEN RoleOf(bs[b])
        ELSE IF g # 0 THEN Role("finalizer", gs[g].stop)
        ELSE ProgramRole

\* The frames this turn has delivered leave their stacks when the turn ends.
PopsBoundary ==
    CASE turn.do = "finishProtected" -> IndexOfKind("protected", boundaries)
      [] turn.do = "finishHelper" -> IndexOfKind("helper", boundaries)
      [] OTHER -> 0
Frames == IF owed THEN Front(frames) ELSE frames
PopsProtectedOnly ==
    IF turn.do # "finishProtected" THEN boundaries ELSE RemoveAt(boundaries, PopsBoundary)
Boundaries == IF PopsBoundary = 0 THEN boundaries ELSE RemoveAt(boundaries, PopsBoundary)
GcFrames == IF turn.do = "deliverCollection" THEN Front(gcFrames) ELSE gcFrames

Nesting == Len(Frames) + Len(Boundaries) + Len(GcFrames)

InFinalizerNow == ActiveDrain(GcFrames, current) # 0

\* The environment: whether the running code may use the operation op.
May(op) == mode = "lua" /\ op \in IF InFinalizerNow THEN InFinalizer ELSE Program

-----------------------------------------------------------------------------
(* Call frames of a state *)

Top(s) == Last(calls[s])

\* The code that runs is the native function that the turn itself has called.
InTarget == turn.role.kind # "program" /\ Len(calls[current]) = turn.role.stop

LuaRuns == mode = "lua" /\ Top(current) = "lua" /\ ~InTarget

UnwoundTooFar(s, n) == [calls EXCEPT ![s] = SubSeq(@, 1, IF n < Len(@) THEN n - 1 ELSE Len(@))]

\* unwind_lua_frames_to: pop to depth n, and nothing if the state is below it.
Unwound(s, n) == [calls EXCEPT ![s] = SubSeq(@, 1, IF n < Len(@) THEN n ELSE Len(@))]

\* resume_lua_thread, resume_runtime_callback, resume_finalizer_callback: what
\* becomes of a turn with this role at the frames cs.
Settles(cs, role) ==
    LET depth == Len(cs)
    IN  CASE role.kind = "program" /\ Last(cs) = "base" -> "returned"
          [] role.kind = "finalizer" /\ depth <= role.stop -> "returned"
          [] role.kind \in {"protected", "helper"} /\ depth = role.stop -> "returned"
          [] role.kind \in {"protected", "helper"} /\ depth < role.stop -> "raised"
          [] OTHER -> IF Last(cs) = "lua" THEN "lua" ELSE "raised"

\* validate_deferred_native_call: the native frame that was suspended at this
\* depth is the innermost frame of s.
Matches(s, depth) == Len(calls[s]) = depth /\ Top(s) = "native"

\* finish_native_call with results: the native frame is popped and its caller
\* goes on, or, in a state that is not at that frame, the delivery is an error.
Completes(s, depth, role) ==
    IF Matches(s, depth)
    THEN LET cs == Front(calls[s])
         IN  calls' = [calls EXCEPT ![s] = cs] /\ mode' = Settles(cs, role)
    ELSE calls' = calls /\ mode' = "raised"

\* finish_native_call with an error unwinds to the caller of the native frame.
Fails(s, depth) ==
    /\ calls' = IF Matches(s, depth) THEN Unwound(s, depth - 1) ELSE calls
    /\ mode' = "raised"

-----------------------------------------------------------------------------
(* Steps of the Lua code *)

LuaCall ==
    /\ May("call") /\ LuaRuns /\ Len(calls[current]) < MaxDepth
    /\ calls' = [calls EXCEPT ![current] = Append(@, "lua")]
    /\ UNCHANGED <<mode, turn, owed, current, allow, frames, boundaries, outcome>>
    /\ UNCHANGED threadVars /\ UNCHANGED gcVars

\* A Lua function returns, or the native function that the turn called itself.
LuaReturn ==
    /\ mode = "lua"
    /\ LET root == turn.role = ProgramRole /\ calls[current] = <<"lua">>
           cs == IF LuaRuns /\ ~root THEN Front(calls[current]) ELSE calls[current]
       IN  /\ calls' = [calls EXCEPT ![current] = cs]
           /\ mode' = IF root THEN "returned" ELSE Settles(cs, turn.role)
    /\ UNCHANGED <<turn, owed, current, allow, frames, boundaries, outcome>>
    /\ UNCHANGED threadVars /\ UNCHANGED gcVars

\* An error in the code of a finalizer unwinds the frames of the finalizer.
LuaThrow ==
    /\ May("error")
    /\ calls' = IF turn.role.kind = "finalizer" THEN Unwound(current, turn.role.stop) ELSE calls
    /\ mode' = "raised"
    /\ UNCHANGED <<turn, owed, current, allow, frames, boundaries, outcome>>
    /\ UNCHANGED threadVars /\ UNCHANGED gcVars

\* lua_coroutine_yield: allowed unless a boundary forbids it.
Yield ==
    /\ May("yield") /\ allow[current] > 0
    /\ calls' = IF turn.role.kind = "finalizer" THEN Unwound(current, turn.role.stop) ELSE calls
    /\ mode' = "yielded"
    /\ UNCHANGED <<turn, owed, current, allow, frames, boundaries, outcome>>
    /\ UNCHANGED threadVars /\ UNCHANGED gcVars

-----------------------------------------------------------------------------
(* The end of a turn *)

\* The stacks lose what the turn delivered; turn, owed and mode say what is next.
Then(do, role, ok) ==
    /\ mode' = "action" /\ turn' = Turn(do, role, ok) /\ owed' = (do = "deliver")

LastSaver(fs, c) == SelectLastInSeq(fs, LAMBDA f : c \in {f.caller, f.target})

\* The outermost frame that saved the status of c.
FirstSaver(fs, c) == SelectInSeq(fs, LAMBDA f : c \in {f.caller, f.target})
FirstTarget(fs, c) == SelectInSeq(fs, LAMBDA f : c = f.target)
FirstBarrier(bs, s) == SelectInSeq(bs, LAMBDA b : b.kind = "protected" /\ b.owner = s)

\* NativeActivationSessionGuard::drop, at the end of execute_proto and on every
\* error that leaves it: the frames fs and bs are undone innermost first, so the
\* outermost frame that saved a value has the last word.
CloseSession(result, fs, bs, st, lk, al) ==
    /\ status' = [c \in Coroutines |->
                     LET i == FirstSaver(fs, c)
                     IN  IF i = 0 THEN st[c]
                         ELSE IF fs[i].caller = c THEN fs[i].prevCaller ELSE fs[i].prevTarget]
    /\ link' = [c \in Coroutines |->
                   LET i == FirstTarget(fs, c) IN IF i = 0 THEN lk[c] ELSE fs[i].prevLink]
    /\ allow' = [s \in States |->
                    LET i == FirstBarrier(bs, s) IN IF i = 0 THEN al[s] ELSE bs[i].prevYield]
    /\ mode' = "idle" /\ turn' = NoTurn /\ owed' = FALSE /\ current' = Main
    /\ frames' = <<>> /\ boundaries' = <<>> /\ gcFrames' = <<>> /\ draining' = FALSE
    /\ outcome' = result

\* A Protocol error of the loop: the session ends without an answer.
ProtocolError(st, lk, al) ==
    /\ CloseSession("protocol", Frames, Boundaries, st, lk, al)
    /\ UNCHANGED <<calls, started, queue, found, begun>>

KeepsFrames(role) == calls' = calls

\* finish or abort a callback: its frames are unwound to the boundary.
Unwind(role) == calls' = Unwound(current, role.stop)

CallerStaysNormal(f, st) == st

\* restore_native_activation_links: the caller of the coroutine takes over, and
\* one that has died in a re-entry comes back for its replay.
Restored(f, st) ==
    IF f.caller = Main THEN st
    ELSE [st EXCEPT ![f.caller] = IF @ = "Dead" THEN "Running" ELSE f.prevCaller]

\* The coroutine returned, yielded or failed: release_yield_permission, then the
\* arm for NativeTurnEvent::Coroutine answers the resume of the top frame.
StopCoroutine ==
    /\ mode \in {"returned", "yielded", "raised"}
    /\ turn.role.kind = "program" /\ current # Main
    /\ IF allow[current] = 0
       THEN /\ CloseSession("vm", frames, boundaries, status, link, allow)
            /\ UNCHANGED <<calls, started, queue, found, begun>>
       ELSE LET released == [allow EXCEPT ![current] = @ - 1]
                stopped == [status EXCEPT ![current] =
                              IF mode = "yielded" THEN "Suspended" ELSE "Dead"]
                lost == Frames = <<>> \/ (Frames # <<>> /\ Last(Frames).target # current)
            IN  IF lost THEN ProtocolError(stopped, link, released)
                ELSE LET f == Last(Frames)
                         dead == f.caller # Main /\ stopped[f.caller] = "Dead"
                     IN  /\ allow' = released
                         /\ link' = [link EXCEPT ![current] = f.prevLink]
                         /\ status' = Restored(f, stopped)
                         /\ frames' = Append(Front(Frames), [f EXCEPT !.replay = dead])
                         /\ boundaries' = Boundaries /\ gcFrames' = GcFrames
                         /\ current' = f.caller
                         /\ Then("deliver", ActiveRole(Boundaries, GcFrames, f.caller), TRUE)
                         /\ UNCHANGED <<calls, started, queue, draining, found, begun, outcome>>

\* The main chunk ended.  The callback frames are not looked at.
StopMain ==
    /\ mode \in {"returned", "yielded", "raised"}
    /\ turn.role.kind = "program" /\ current = Main
    /\ IF Frames # <<>> \/ GcFrames # <<>> \/ IndexOfKind("protected", Boundaries) # 0
       THEN ProtocolError(status, link, allow)
       ELSE /\ CloseSession("done", Frames, Boundaries, status, link, allow)
            /\ UNCHANGED <<calls, started, queue, found, begun>>

\* The target or the handler of a pcall or xpcall stopped.
StopProtected ==
    /\ mode \in {"returned", "yielded", "raised"} /\ turn.role.kind = "protected"
    /\ Unwind(turn.role)
    /\ LET i == IndexOfKind("protected", Boundaries)
           ok == mode = "returned"
       IN  IF i = 0 \/ (i # 0 /\ Boundaries[i].owner # current)
           THEN /\ CloseSession("protocol", Frames, Boundaries, status, link, allow)
                /\ UNCHANGED <<started, queue, found, begun>>
           ELSE /\ IF ~ok /\ Boundaries[i].handler = "ready"
                   THEN /\ boundaries' = [Boundaries EXCEPT ![i].handler = "used"]
                        /\ Then("startProtected", RoleOf(Boundaries[i]), TRUE)
                   ELSE /\ boundaries' = Boundaries
                        /\ Then("finishProtected", Boundaries[i].parent, ok)
                /\ frames' = Frames /\ gcFrames' = GcFrames
                /\ UNCHANGED <<current, allow, queue, draining, found, begun, outcome>>
                /\ UNCHANGED threadVars

\* The callback of a library function or of a metamethod stopped.  A library
\* function may call again, and may end in an error of its own.
StopHelper ==
    /\ mode \in {"returned", "yielded", "raised"} /\ turn.role.kind = "helper"
    /\ Unwind(turn.role)
    /\ LET i == IndexOfKind("helper", Boundaries)
           ok == mode = "returned"
       IN  IF i = 0 \/ (i # 0 /\ Boundaries[i].owner # current)
           THEN /\ CloseSession("protocol", Frames, Boundaries, status, link, allow)
                /\ UNCHANGED <<started, queue, found, begun>>
           ELSE /\ \/ /\ ok /\ Boundaries[i].native
                      /\ Then("startHelper", RoleOf(Boundaries[i]), TRUE)
                   \/ \E good \in IF Boundaries[i].native THEN BOOLEAN ELSE {ok, FALSE} :
                             Then("finishHelper", Boundaries[i].parent, good)
                /\ boundaries' = Boundaries /\ frames' = Frames /\ gcFrames' = GcFrames
                /\ UNCHANGED <<current, allow, queue, draining, found, begun, outcome>>
                /\ UNCHANGED threadVars

-----------------------------------------------------------------------------
(* Finalizers *)

\* next_finalizer_action with callbacks waiting: g is the activation that drains.
StartsNext(gs, g, waiting) ==
    /\ gcFrames' = Append(gs, [g EXCEPT !.draining = TRUE, !.running = Head(waiting)])
    /\ begun' = [begun EXCEPT ![Head(waiting)] = @ + 1]
    /\ draining' = TRUE
    /\ Then("startFinalizer", Role("finalizer", g.stop), TRUE)

\* Mutant: the drain is not marked as finished.
KeepsDrainOpen(gs, g, ok) ==
    /\ gcFrames' = IF g.explicit THEN Append(gs, g) ELSE gs
    /\ Then(IF g.explicit THEN "deliverCollection" ELSE "resumeAutomatic", g.resume, ok)

\* The collection is over: an explicit one answers its caller, an automatic one
\* gives the turn back.
Concludes(gs, g, ok) ==
    /\ gcFrames' = IF g.explicit THEN Append(gs, [g EXCEPT !.draining = FALSE, !.running = 0]) ELSE gs
    /\ Then(IF g.explicit THEN "deliverCollection" ELSE "resumeAutomatic", g.resume, ok)

\* The collection finds the userdata up to n; any step may be the atomic one.
Finds(n) ==
    /\ found' = n
    /\ queue' = queue \o [i \in 1 .. n - found |-> found + i]

ForgetsToAcknowledge(g) == queue

\* acknowledge_pending_finalizer: the finalizer leaves its place in the queue.
Acknowledged(g) ==
    LET index == SelectInSeq(queue, LAMBDA f : f = g.running)
    IN  IF index = 0 THEN queue ELSE RemoveAt(queue, index)

\* The callback of a finalizer stopped: it is acknowledged, and the next one
\* starts.  An error stops the drain; in an automatic cycle it ends the session.
StopFinalizer ==
    /\ mode \in {"returned", "yielded", "raised"} /\ turn.role.kind = "finalizer"
    /\ IF GcFrames = <<>> \/ (GcFrames # <<>> /\ ~(/\ Last(GcFrames).draining
                                                 /\ Last(GcFrames).owner = current
                                                 /\ Last(GcFrames).running # 0))
       THEN ProtocolError(status, link, allow)
       ELSE LET g == Last(GcFrames)
                waiting == Acknowledged(g)
            IN  /\ queue' = waiting
                /\ IF mode # "returned" /\ ~g.explicit
                   THEN /\ CloseSession("vm", Frames, Boundaries, status, link, allow)
                        /\ UNCHANGED <<calls, started, found, begun>>
                   ELSE /\ IF mode = "returned" /\ waiting # <<>>
                           THEN StartsNext(Front(GcFrames), g, waiting)
                           ELSE /\ Concludes(Front(GcFrames), g, mode = "returned")
                                /\ draining' = FALSE /\ begun' = begun
                        /\ frames' = Frames /\ boundaries' = Boundaries
                        /\ UNCHANGED <<current, calls, allow, found, outcome>>
                        /\ UNCHANGED threadVars

\* What a request from a callback of a finalizer gets that needs another state.
FailsFinalizer ==
    Then("failFinalizer", Role("finalizer", GcFrames[ActiveDrain(GcFrames, current)].stop), FALSE)

-----------------------------------------------------------------------------
(* Requests of the running code *)

\* The request suspends a native frame above the frames of its caller.
Suspended == Append(calls[current], "native")
Suspends == calls' = [calls EXCEPT ![current] = Suspended]

CanNest(pushes) == Nesting < MaxNest /\ Len(calls[current]) + pushes <= MaxDepth

\* prepare_native_activation: coroutine.resume or a wrapped coroutine.  A caller
\* of the running coroutine may be resumed again: its status is Normal.
RequestResume(c) ==
    /\ \/ May("resume") /\ status[c] = "Suspended"
       \/ May("reenter") /\ status[c] = "Normal"
    /\ CanNest(1) /\ allow[c] < MaxAllow
    /\ Suspends
    /\ boundaries' = Boundaries /\ gcFrames' = GcFrames
    /\ UNCHANGED <<allow, started, queue, draining, found, begun, outcome>>
    /\ IF InFinalizerNow
       THEN /\ FailsFinalizer
            /\ frames' = Frames
            /\ UNCHANGED <<current, status, link>>
       ELSE /\ frames' = Append(Frames,
                    [caller |-> current, target |-> c,
                     prevCaller |-> IF current = Main THEN "none" ELSE status[current],
                     prevTarget |-> status[c], prevLink |-> link[c],
                     saved |-> Suspended, yield |-> allow[current], replay |-> FALSE])
            /\ status' = [t \in Coroutines |-> IF t = c THEN "Running"
                                              ELSE IF t = current THEN "Normal" ELSE status[t]]
            /\ link' = [link EXCEPT ![c] = ThreadOf(current)]
            /\ current' = c
            /\ Then("startTarget", ProgramRole, TRUE)

\* pcall and xpcall.
RequestProtected ==
    \E handler \in {"none", "ready"} :
        /\ May(IF handler = "none" THEN "pcall" ELSE "xpcall") /\ CanNest(2)
        /\ Suspends
        /\ boundaries' = Append(Boundaries,
               [kind |-> "protected", owner |-> current, stop |-> Len(Suspended), native |-> TRUE,
                parent |-> ActiveRole(Boundaries, GcFrames, current),
                prevYield |-> allow[current], handler |-> handler])
        /\ Then("startProtected", Role("protected", Len(Suspended)), TRUE)
        /\ frames' = Frames /\ gcFrames' = GcFrames
        /\ UNCHANGED <<current, allow, queue, draining, found, begun, outcome>>
        /\ UNCHANGED threadVars

\* A library function with a callback suspends its native frame; a metamethod
\* or a debug hook is called from the Lua frame itself.
RequestHelper ==
    \E native \in BOOLEAN :
        /\ May(IF native THEN "helper" ELSE "metamethod") /\ CanNest(2)
        /\ native \/ LuaRuns
        /\ IF native THEN Suspends ELSE UNCHANGED calls
        /\ LET stop == Len(IF native THEN Suspended ELSE calls[current])
           IN  /\ boundaries' = Append(Boundaries,
                      [kind |-> "helper", owner |-> current, stop |-> stop, native |-> native,
                       parent |-> ActiveRole(Boundaries, GcFrames, current),
                       prevYield |-> 0, handler |-> "none"])
               /\ Then("startHelper", Role("helper", stop), TRUE)
        /\ frames' = Frames /\ gcFrames' = GcFrames
        /\ UNCHANGED <<current, allow, queue, draining, found, begun, outcome>>
        /\ UNCHANGED threadVars

\* collectgarbage: a full cycle or an incremental step, which may find userdata
\* to finalize.  The callbacks run when a cycle has ended, unless a drain runs.
RequestCollect ==
    /\ May("collect") /\ CanNest(2)
    /\ Suspends
    /\ LET g == [owner |-> current, stop |-> Len(Suspended), draining |-> FALSE, running |-> 0,
                 explicit |-> TRUE, resume |-> ActiveRole(Boundaries, GcFrames, current)]
       IN  \E n \in found .. MaxFinalizers, finished \in BOOLEAN :
               /\ Finds(n)
               /\ IF finished /\ g.resume.kind # "finalizer" /\ queue' # <<>> /\ ~draining
                  THEN StartsNext(GcFrames, g, queue')
                  ELSE Concludes(GcFrames, g, TRUE) /\ UNCHANGED <<draining, begun>>
    /\ frames' = Frames /\ boundaries' = Boundaries
    /\ UNCHANGED <<current, allow, outcome>> /\ UNCHANGED threadVars

\* The automatic checkpoint of the interpreter, at an instruction boundary.
AutomaticGc ==
    /\ May("automatic") /\ LuaRuns /\ ~draining /\ CanNest(1)
    /\ IF InFinalizerNow THEN ProtocolError(status, link, allow)
       ELSE /\ LET g == [owner |-> current, stop |-> Len(calls[current]), draining |-> FALSE,
                         running |-> 0, explicit |-> FALSE, resume |-> turn.role]
               IN  \E n \in found .. MaxFinalizers, finished \in BOOLEAN :
                       /\ Finds(n)
                       /\ IF finished /\ queue' # <<>>
                          THEN StartsNext(GcFrames, g, queue')
                          ELSE Concludes(GcFrames, g, TRUE) /\ UNCHANGED <<draining, begun>>
            /\ frames' = Frames /\ boundaries' = Boundaries
            /\ UNCHANGED <<current, calls, allow, outcome>> /\ UNCHANGED threadVars

\* GETUPVAL or SETUPVAL on an open upvalue of another state.  Its owner answers
\* at once; the frame that this turn has delivered stays until the turn goes on.
UpvalueAccess ==
    /\ May("upvalue") /\ LuaRuns
    /\ IF InFinalizerNow THEN FailsFinalizer
       ELSE /\ mode' = "action"
            /\ turn' = Turn("deliverUpvalue", ActiveRole(Boundaries, GcFrames, current), TRUE)
            /\ owed' = owed
    /\ frames' = IF InFinalizerNow THEN Frames ELSE frames
    /\ boundaries' = Boundaries /\ gcFrames' = GcFrames
    /\ UNCHANGED <<current, calls, allow, queue, draining, found, begun, outcome>>
    /\ UNCHANGED threadVars

\* A fault between the turn and its event (RuntimeFaultSite::SealedMailboxTake).
Fault ==
    /\ May("fault") /\ CanNest(1)
    /\ Suspends
    /\ CloseSession("fault", frames, boundaries, status, link, allow)
    /\ UNCHANGED <<started, queue, found, begun>>

-----------------------------------------------------------------------------
(* Driver actions: how a turn starts *)

Performs(do) ==
    /\ mode = "action" /\ turn.do = do
    /\ UNCHANGED <<turn, owed, current, frames, boundaries, outcome>> /\ UNCHANGED gcVars

\* StartTarget.  A Normal target is answered where its own resume waits.
StartTarget ==
    /\ Performs("startTarget")
    /\ allow' = [allow EXCEPT ![current] = @ + 1]
    /\ started' = started \cup {current}
    /\ UNCHANGED <<status, link>>
    /\ IF current \notin started
       THEN calls' = [calls EXCEPT ![current] = Append(@, "lua")] /\ mode' = "lua"
       ELSE IF Last(frames).prevTarget = "Normal"
       THEN LET waits == SelectLastInSeq(frames, LAMBDA f : f.caller = current)
            IN  Completes(current, Len(frames[waits].saved), ProgramRole)
       ELSE calls' = calls /\ mode' = Settles(calls[current], ProgramRole)

\* Deliver: the caller of a coroutine gets its answer.  When the caller died in
\* between, in a re-entry, the code goes on from the snapshot of its state.
Deliver ==
    /\ Performs("deliver")
    /\ LET f == Last(frames)
       IN  IF f.replay
           THEN /\ calls' = [calls EXCEPT ![current] = Front(f.saved)]
                /\ allow' = [allow EXCEPT ![current] = f.yield]
                /\ mode' = Settles(Front(f.saved), turn.role)
           ELSE Completes(current, Len(f.saved), turn.role) /\ allow' = allow
    /\ UNCHANGED threadVars

\* start_runtime_callback_target: the state must stand at the boundary.  A Lua
\* target gets a frame of its own, a native one runs in the turn itself.
StartsTarget(depth) ==
    IF Len(calls[current]) # depth THEN calls' = calls /\ mode' = "raised"
    ELSE /\ mode' = "lua"
         /\ \/ calls' = [calls EXCEPT ![current] = Append(@, "lua")]
            \/ calls' = calls

StartProtectedYieldable ==
    /\ Performs("startProtected")
    /\ StartsTarget(turn.role.stop)
    /\ UNCHANGED allow /\ UNCHANGED threadVars

\* StartProtectedCall: the boundary forbids to yield.
StartProtected ==
    /\ Performs("startProtected")
    /\ allow' = [allow EXCEPT ![current] = 0]
    /\ StartsTarget(turn.role.stop)
    /\ UNCHANGED threadVars

\* StartCallbackHelper and StartFinalizer.
StartCallback ==
    /\ Performs("startHelper") \/ Performs("startFinalizer")
    /\ StartsTarget(turn.role.stop)
    /\ UNCHANGED allow /\ UNCHANGED threadVars

\* FinishProtectedCall: pcall always answers, and yielding is possible again.
FinishProtected ==
    /\ Performs("finishProtected")
    /\ LET b == boundaries[PopsBoundary]
       IN  /\ allow' = [allow EXCEPT ![current] = b.prevYield]
           /\ Completes(current, b.stop, turn.role)
    /\ UNCHANGED threadVars

\* FinishCallbackHelper: the library function or the instruction goes on.
FinishHelper ==
    /\ Performs("finishHelper")
    /\ LET b == boundaries[PopsBoundary]
       IN  IF b.native
           THEN IF turn.ok THEN Completes(current, b.stop, turn.role) ELSE Fails(current, b.stop)
           ELSE /\ calls' = calls
                /\ mode' = IF turn.ok THEN Settles(calls[current], turn.role) ELSE "raised"
    /\ UNCHANGED allow /\ UNCHANGED threadVars

\* DeliverCollection: collectgarbage answers.
DeliverCollection ==
    /\ Performs("deliverCollection")
    /\ LET g == Last(gcFrames)
       IN  IF turn.ok THEN Completes(current, g.stop, turn.role) ELSE Fails(current, g.stop)
    /\ UNCHANGED allow /\ UNCHANGED threadVars

\* DeliverUpvalue and ResumeAutomaticGc: the instruction goes on.
ResumeInstruction ==
    /\ Performs("deliverUpvalue") \/ Performs("resumeAutomatic")
    /\ mode' = Settles(calls[current], turn.role)
    /\ UNCHANGED <<calls, allow>> /\ UNCHANGED threadVars

\* FailFinalizer: the request fails, and with it the whole callback.
FailFinalizer ==
    /\ Performs("failFinalizer")
    /\ Unwind(turn.role)
    /\ mode' = "raised"
    /\ UNCHANGED allow /\ UNCHANGED threadVars

\* Runtime::execute_proto is called for the main state.
BeginSession ==
    /\ mode = "idle"
    /\ mode' = "lua"
    /\ calls' = [calls EXCEPT ![Main] = <<"lua">>]
    /\ turn' = Turn("startProto", ProgramRole, TRUE)
    /\ outcome' = "none"
    /\ UNCHANGED <<owed, current, allow, frames, boundaries>>
    /\ UNCHANGED threadVars /\ UNCHANGED gcVars

-----------------------------------------------------------------------------
Init ==
    /\ mode = "idle" /\ turn = NoTurn /\ owed = FALSE /\ current = Main
    /\ calls = [s \in States |-> IF s = Main THEN <<"lua">> ELSE <<"base">>]
    /\ allow = [s \in States |-> 0]
    /\ status = [c \in Coroutines |-> "Suspended"]
    /\ link = [c \in Coroutines |-> None]
    /\ started = {}
    /\ frames = <<>> /\ boundaries = <<>> /\ gcFrames = <<>>
    /\ queue = <<>> /\ draining = FALSE /\ found = 0
    /\ begun = [i \in 1 .. MaxFinalizers |-> 0]
    /\ outcome = "none"

Runs == LuaCall \/ LuaReturn \/ LuaThrow \/ Yield

Requests ==
    \/ \E c \in Coroutines : RequestResume(c)
    \/ RequestProtected \/ RequestHelper \/ RequestCollect
    \/ AutomaticGc \/ UpvalueAccess \/ Fault

Drives ==
    \/ StartTarget \/ Deliver \/ StartProtected \/ StartCallback
    \/ FinishProtected \/ FinishHelper \/ DeliverCollection
    \/ ResumeInstruction \/ FailFinalizer

Stops == StopCoroutine \/ StopMain \/ StopProtected \/ StopHelper \/ StopFinalizer

Next == BeginSession \/ Runs \/ Requests \/ Drives \/ Stops

Spec == Init /\ [][Next]_vars

-----------------------------------------------------------------------------
(* Properties *)

Stopped == mode \in {"returned", "yielded", "raised"}
InSession == mode # "idle"

RoleKinds == {"program", "protected", "helper", "finalizer"}
Roles == [kind : RoleKinds, stop : 0 .. MaxDepth]

\* Every variable has its type: the stacks hold frames of existing states, within
\* the bounds (the layout of the variables of execute_proto).
TypeOK ==
    /\ mode \in {"idle", "action", "lua", "returned", "yielded", "raised"}
    /\ turn.role \in Roles /\ owed \in BOOLEAN /\ current \in States
    /\ \A s \in States : calls[s] \in Seq({"lua", "native", "base"}) /\ Len(calls[s]) \in 1 .. MaxDepth
    /\ allow \in [States -> 0 .. MaxAllow]
    /\ status \in [Coroutines -> {"Suspended", "Running", "Normal", "Dead"}]
    /\ link \in [Coroutines -> Coroutines \cup {None}]
    /\ started \subseteq Coroutines
    /\ \A i \in DOMAIN frames : frames[i].caller \in States /\ frames[i].target \in Coroutines
    /\ \A i \in DOMAIN boundaries : boundaries[i].owner \in States /\ boundaries[i].parent \in Roles
    /\ \A i \in DOMAIN gcFrames : gcFrames[i].owner \in States /\ gcFrames[i].resume \in Roles
    /\ queue \in Seq(1 .. MaxFinalizers) /\ found \in 0 .. MaxFinalizers
    /\ draining \in BOOLEAN /\ DOMAIN begun = 1 .. MaxFinalizers

\* The boundaries that are open on a state, and the finalizer that runs on it.
Enclosing(s) ==
    {RoleOf(Boundaries[i]) : i \in {j \in DOMAIN Boundaries : Boundaries[j].owner = s}}
    \cup {Role("finalizer", GcFrames[i].stop) :
             i \in {j \in DOMAIN GcFrames : GcFrames[j].draining /\ GcFrames[j].owner = s}}

\* Code runs under the role of the innermost call boundary of its state, however
\* resumes, pcalls, callbacks and collections are nested and whatever was just
\* answered: active_driver_role picks the call that really encloses the code.
RolesAreNested ==
    mode = "lua" =>
        /\ turn.role \in Enclosing(current) \cup {ProgramRole}
        /\ \A r \in Enclosing(current) : r.stop <= turn.role.stop

\* The Thread objects tell the chain of resumes: one Running coroutine, the state
\* whose turn it is; Normal ones that wait for the coroutine they resumed; the
\* links lead from each target to its caller.
ThreadsFollowActivations ==
    InSession =>
        LET In(c) == {i \in DOMAIN Frames : Frames[i].target = c}
        IN  /\ current = IF Frames = <<>> THEN Main ELSE Last(Frames).target
            /\ \A i \in DOMAIN Frames : Frames[i].caller = IF i = 1 THEN Main ELSE Frames[i - 1].target
            /\ \A c \in Coroutines :
                  /\ status[c] = "Running" <=> c = current
                  /\ status[c] = "Normal" <=> c # current /\ In(c) # {}
                  /\ In(c) = {} => link[c] = None
                  /\ \A i \in In(c) : (\A j \in In(c) : j <= i) => link[c] = ThreadOf(Frames[i].caller)

\* No call is suspended in a coroutine that is suspended or dead: it never yields
\* through a pcall, a callback, a finalizer or a resume of its own.
SuspendedOwnsNoBoundary ==
    \A c \in Coroutines : status[c] \in {"Suspended", "Dead"} =>
        /\ \A i \in DOMAIN boundaries : boundaries[i].owner # c
        /\ \A i \in DOMAIN gcFrames : gcFrames[i].owner # c
        /\ \A i \in DOMAIN frames : frames[i].caller # c

\* A deferred answer finds its native frame innermost in the state it goes to:
\* validate_deferred_native_call never refuses a delivery.
DeliveriesMatch ==
    mode = "action" =>
        /\ turn.do = "deliver" => Last(frames).replay \/ Matches(current, Len(Last(frames).saved))
        /\ turn.do \in {"finishProtected", "finishHelper"} =>
              LET b == boundaries[PopsBoundary] IN b.native => Matches(current, b.stop)
        /\ turn.do = "deliverCollection" => Matches(current, Last(gcFrames).stop)

\* The loop never stops with an error of its own protocol.
NoProtocolError == outcome # "protocol"

\* Between sessions no coroutine is running and nothing waits for one.
NothingIsLeftRunning ==
    mode = "idle" => \A c \in Coroutines : status[c] \in {"Suspended", "Dead"} /\ link[c] = None

\* The code of a coroutine may yield exactly when no pcall encloses it, the main
\* state never; each pcall, also one left by an error, gives the permission back.
YieldBarrier ==
    mode = "lua" =>
        /\ allow[Main] = 0
        /\ \A i \in DOMAIN Boundaries :
              Boundaries[i].kind = "protected" => allow[Boundaries[i].owner] = 0
        /\ current = Main \/ allow[current] > 0
           \/ \E i \in DOMAIN Boundaries : Boundaries[i].kind = "protected" /\ Boundaries[i].owner = current

\* The drain flag of the collector is set exactly while an activation drains, and
\* the one it starts is the head of the queue.
DrainHasAnOwner ==
    /\ draining <=> \E i \in DOMAIN gcFrames : gcFrames[i].draining
    /\ \A i \in DOMAIN gcFrames : gcFrames[i].draining => gcFrames[i].running \in Range(queue)

\* A finalizer is started once.
FinalizerBegunOnce == \A i \in DOMAIN begun : begun[i] <= 1

=============================================================================
