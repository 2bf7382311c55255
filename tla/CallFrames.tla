----------------------------- MODULE CallFrames -----------------------------
(***************************************************************************)
(* The call frames of one Lua thread as lua_vm lays them out: one value    *)
(* stack on which the register windows of caller and callee overlap, the   *)
(* CallInfo records with their saved program counter and continuation, the *)
(* open upvalues sorted by their slot, and the retained native frame of a  *)
(* protected call.                                                         *)
(*                                                                         *)
(* Slots are numbered from 1 (the code counts from 0), top is the slot     *)
(* past the last value.  Which function a call reaches, what natives do and *)
(* how tests come out is left open.  free counts the registers that the    *)
(* compiled code may still read; the compiler knows it, not the machine.   *)
(***************************************************************************)
EXTENDS CallValues, FiniteSetsExt

CONSTANTS
    MaxCalls,       \* MAX_CALLS, bound on the Lua frames of a thread
    Spare,          \* the spare slots of a native frame (20 in the code)
    IteratorYields  \* whether a generic for may call coroutine.yield itself; the code
                    \* then runs the body after the resume, without the loop test

(* what the compiler delivers: constants are values, a captured variable has a
   register of the function, and the list of "..." begins at one or right behind
   them (return ... reserves none for it) *)
ASSUME CodeAssumption ==
    \A p \in Protos : \A pc \in DOMAIN Code[p] :
        LET i == Code[p][pc] IN
        /\ i.a \in Nat /\ i.c \in Nat
        /\ IF i.op = "LOADK" THEN i.b \in Value ELSE i.b \in Nat
        /\ i.op \in {"CALL", "TAILCALL", "TFORLOOP", "RETURN", "VARARG"} => i.a >= 1
        /\ i.op = "VARARG" => i.a <= Room[p] + 1
        /\ i.op = "CLOSURE" => i.b \in 1..Room[p]

ASSUME SpareAssumption == Spare \in Nat

VARIABLES
    stack,    \* Seq(Value): the initialised slots
    top,      \* l.top
    frames,   \* Seq of CallInfo, frames[1] is the root frame
    ups,      \* open: l.open_upvalues; var: [Upvalues -> upvalue]
    status,   \* "run", "error" (an error on its way to a pcall), "yield", "done", "dead"
    pending,  \* yield_result_base and yield_wanted_results
    thread    \* "main" or "coroutine"

vars == <<stack, top, frames, ups, status, pending, thread>>

-----------------------------------------------------------------------------
(* The stack. *)

Slot(s, k) == IF k \in DOMAIN s THEN s[k] ELSE Nil            \* stack.at
Grow(s, n) == s \o [i \in 1..Max({0, n - Len(s)}) |-> Nil]    \* ensure_stack_slot
Put(s, k, vs) ==                          \* vs from slot k on, where slots exist
    [i \in DOMAIN s |-> IF i \in k..k + Len(vs) - 1 THEN vs[i - k + 1] ELSE s[i]]
Wipe(s, lo, hi) == [i \in DOMAIN s |-> IF i \in lo..hi THEN Nil ELSE s[i]]
Window(s, k, n) == SubSeq(Grow(s, k + n - 1), k, k + n - 1)

(* proto: Nil for a native frame.  pc: savedpc, the instruction to execute or
   the call whose answer the frame waits for.  cont: the slot of R(A) of a
   generic for, else 0. *)
CallInfo(p, f, nargs, ctop, nres, varargs, cont) ==
    [proto |-> p, func |-> f, base |-> f + 1, nargs |-> nargs, ctop |-> ctop,
     nres |-> nres, varargs |-> varargs, cont |-> cont,
     pc |-> IF p = Nil THEN 0 ELSE 1,
     free |-> IF p = Nil THEN 0 ELSE Params[p]]

Root(p, varargs) ==
    [CallInfo(p, 1, 0, 1 + Room[p], 0, varargs, 0) EXCEPT !.base = 1]
Idle == [CallInfo(Nil, 1, 0, 1, 0, <<>>, 0) EXCEPT !.base = 1]

cur == frames[Len(frames)]
ins == InstructionAt(cur.proto, cur.pc)
At(op) == status = "run" /\ cur.proto # Nil /\ ins.op = op
Reg(r) == cur.base + r - 1
R(r) == Slot(stack, Reg(r))
Goto(pc, free) ==
    [frames EXCEPT ![Len(frames)] = [@ EXCEPT !.pc = pc, !.free = free]]

-----------------------------------------------------------------------------
(* Open upvalues. *)

(* close_upvalues: from the head of the list down to the level *)
Closed(us, s, level) ==
    LET low == {i \in DOMAIN us.open : us.var[us.open[i]].slot < level}
        n == IF low = {} THEN Len(us.open) ELSE Min(low) - 1
    IN  [open |-> From(us.open, n + 1),
         var |-> [u \in Upvalues |->
                    IF \E i \in 1..n : us.open[i] = u
                    THEN [state |-> "closed", slot |-> 0,
                          val |-> Slot(s, us.var[u].slot)]
                    ELSE us.var[u]]]

(* find_or_create_upvalue: the search ends at the first lower slot; a new
   upvalue takes its place there *)
Shared(us, k) == \E i \in DOMAIN us.open :
    /\ us.var[us.open[i]].slot = k
    /\ \A j \in 1..i - 1 : us.var[us.open[j]].slot > k
(* Mutant: a new upvalue always becomes the head of the list. *)
OpenedAtHead(us, k, u) ==
    [open |-> <<u>> \o us.open,
     var |-> [us.var EXCEPT ![u] = [state |-> "open", slot |-> k, val |-> Nil]]]
Opened(us, k, u) ==
    LET low == {i \in DOMAIN us.open : us.var[us.open[i]].slot < k}
        n == IF low = {} THEN Len(us.open) ELSE Min(low) - 1
    IN  [open |-> SubSeq(us.open, 1, n) \o <<u>> \o From(us.open, n + 1),
         var |-> [us.var EXCEPT ![u] = [state |-> "open", slot |-> k, val |-> Nil]]]

Used == {u \in Upvalues : ups.var[u].state # "unused"}
Content(u) == IF ups.var[u].state = "open" THEN Slot(stack, ups.var[u].slot)
              ELSE ups.var[u].val

-----------------------------------------------------------------------------
(* Answers and errors.  s, us and fs are the stack, the upvalues and the     *)
(* frames at that point of the instruction, fs ends with the caller.         *)

(* The frame that waits goes on behind its call: lua_caller_successor, after
   apply_vm_continuation has ended a generic for or set its control value. *)
Answer(s, us, fs, t, want, cont) ==
    LET k == Len(fs)
        c == fs[k]
        ended == cont # 0 /\ Slot(s, cont + 3) = Nil
    IN  /\ top' = t /\ ups' = us
        /\ stack' = IF cont # 0 /\ ~ ended THEN Put(s, cont + 2, <<Slot(s, cont + 3)>>)
                    ELSE s
        /\ frames' = IF c.proto = Nil THEN fs
                     ELSE [fs EXCEPT ![k] =
                        [c EXCEPT !.pc = IF ended THEN @ + 2 ELSE @ + 1,
                                  !.free = IF ended \/ want = MultRet THEN @ ELSE @ + want]]

(* finish_native_call: the values are pushed at slot t, then moved down *)
Deliver(s, us, fs, t, vs, f, want, cont) ==
    LET rs == Adjust(vs, want)
        pushed == Put(Grow(s, t + Len(vs) - 1), t, vs)
    IN  Answer(Put(Grow(pushed, f + Len(rs) - 1), f, rs), us, fs,
               f + Len(rs), want, cont)

Guards(fs) == {k \in 2..Len(fs) : fs[k].proto = Nil}
Restored(fr) == fr.func + 1 + fr.nargs             \* its saved_top

(* An error unwinds to the innermost protected call.  Without one the main
   program ends with its root frame reset, a coroutine dies as it is. *)
Throw(s, us, fs) ==
    /\ stack' = s
    /\ IF Guards(fs) # {}
       THEN LET k == Max(Guards(fs))
            IN  /\ frames' = SubSeq(fs, 1, k)
                /\ ups' = IF Len(fs) = k THEN us ELSE Closed(us, s, fs[k + 1].base)
                /\ top' = Restored(fs[k])
                /\ status' = "error"
       ELSE /\ status' = "dead"
            /\ IF thread = "main"
               THEN frames' = <<Idle>> /\ ups' = Closed(us, s, 1) /\ top' = 1
               ELSE frames' = fs /\ ups' = us /\ top' = top

-----------------------------------------------------------------------------
(* Entering functions: slot f holds the callee, n arguments above it.        *)

LuaFrames(fs) == {k \in DOMAIN fs : fs[k].proto # Nil}

(* Mutant: slots are made for the parameters only. *)
PreparedForParameters(s, b, n, p) == Wipe(Grow(s, b + Params[p] - 1), b + n, b + Room[p] - 1)
(* prepare_lua_varargs *)
Prepared(s, b, n, p) ==
    LET missing == Wipe(Grow(s, b + Params[p] - 1), b + n, b + Params[p] - 1)
    IN  Wipe(Grow(missing, b + Room[p] - 1), b + Params[p], b + Room[p] - 1)
(* Mutant: the extra arguments are copied after their registers were cleared. *)
ExtraCleared(s, b, n, p) ==
    IF p \in Variadic THEN Window(Prepared(s, b, n, p), b + Params[p], n - Params[p]) ELSE <<>>
Extra(s, b, n, p) ==
    IF p \in Variadic THEN Window(s, b + Params[p], n - Params[p]) ELSE <<>>

EnterLua(s, us, fs, f, n, want, cont) ==
    IF Cardinality(LuaFrames(fs)) >= MaxCalls THEN Throw(s, us, fs)
    ELSE \E p \in Functions :
           /\ stack' = Prepared(s, f + 1, n, p)
           /\ frames' = Append(fs, CallInfo(p, f, n, f + 1 + Room[p], want,
                                            Extra(s, f + 1, n, p), cont))
           /\ ups' = us
           /\ UNCHANGED <<top, status>>

(* call_native_function clears the argument window's spare slots *)
NativeWindow(s, f, n) == Wipe(Grow(s, f + n + Spare), f + n + 1, f + n + Spare)

EnterNative(s, us, fs, f, n, want, cont) ==
    LET w == NativeWindow(s, f, n)
    IN  \/ /\ \E vs \in Lists : Deliver(w, us, fs, f + 1 + n, vs, f, want, cont)
           /\ UNCHANGED <<status, pending>>
        \/ Throw(w, us, fs) /\ UNCHANGED pending

EnterYield(s, us, fs, f, n, want, cont) ==
    /\ thread = "coroutine" /\ Guards(fs) = {}
    /\ cont # 0 => IteratorYields
    /\ stack' = NativeWindow(s, f, n)
    /\ top' = f
    /\ pending' = [base |-> f, want |-> want]
    /\ status' = "yield"
    /\ frames' = fs /\ ups' = us

(* the native frame of pcall stays, its target runs in place of its arguments *)
EnterPcall(s, us, fs, f, n, want, cont) ==
    LET w == NativeWindow(s, f, n)
        gs == Append(fs, CallInfo(Nil, f, n, f + 1 + n + Spare, want, <<>>, cont))
    IN  /\ n > 0
        /\ UNCHANGED pending
        /\ \/ /\ Slot(w, f + 1) = Fun
              /\ \/ EnterLua(w, us, gs, f + 1, n - 1, MultRet, 0)
                 \/ /\ \E vs \in Lists : Deliver(NativeWindow(w, f + 1, n - 1), us, gs,
                                                f + 1 + n, vs, f + 1, MultRet, 0)
                    /\ UNCHANGED status
           \/ Throw(w, us, gs)

Enter(s, us, fs, f, n, want, cont) ==
    \/ EnterLua(s, us, fs, f, n, want, cont) /\ UNCHANGED pending
    \/ EnterNative(s, us, fs, f, n, want, cont)
    \/ EnterYield(s, us, fs, f, n, want, cont)
    \/ EnterPcall(s, us, fs, f, n, want, cont)

-----------------------------------------------------------------------------
(* Instructions. *)

Assign(r, v) ==
    /\ stack' = Put(stack, Reg(r), <<v>>)
    /\ frames' = Goto(cur.pc + 1, Max({cur.free, r}))

LoadK == At("LOADK") /\ Assign(ins.a, ins.b)
            /\ UNCHANGED <<top, ups, status, pending, thread>>
Move == At("MOVE") /\ Assign(ins.a, R(ins.b))
            /\ UNCHANGED <<top, ups, status, pending, thread>>

(* CLOSURE with one MOVE pseudo instruction; a new upvalue may get the identity
   of one that was collected *)
Closure ==
    /\ At("CLOSURE")
    /\ \/ Shared(ups, Reg(ins.b)) /\ UNCHANGED ups
       \/ /\ ~ Shared(ups, Reg(ins.b))
          /\ \E u \in Upvalues :
                ups.var[u].state # "open" /\ ups' = Opened(ups, Reg(ins.b), u)
    /\ Assign(ins.a, Fun)
    /\ UNCHANGED <<top, status, pending, thread>>

GetUpvalue ==
    /\ At("GETUPVAL")
    /\ \E u \in Used : Assign(ins.a, Content(u))
    /\ UNCHANGED <<top, ups, status, pending, thread>>

(* through an open upvalue into the slot, else into the upvalue *)
Store(u, v) ==
    \/ /\ ups.var[u].state = "open"
       /\ stack' = Put(stack, ups.var[u].slot, <<v>>) /\ UNCHANGED ups
    \/ /\ ups.var[u].state = "closed"
       /\ ups' = [ups EXCEPT !.var[u].val = v] /\ UNCHANGED stack

SetUpvalue ==
    /\ At("SETUPVAL")
    /\ \E u \in Used : Store(u, R(ins.b))
    /\ frames' = Goto(cur.pc + 1, cur.free)
    /\ UNCHANGED <<top, status, pending, thread>>

(* from another thread: the Runtime writes the slot in the state that owns it *)
OtherSets ==
    /\ status \in {"yield", "done", "dead"}
    /\ \E u \in Used : Store(u, Nil)
    /\ UNCHANGED <<top, frames, status, pending, thread>>

Close ==
    /\ At("CLOSE")
    /\ ups' = Closed(ups, stack, Reg(ins.a))
    /\ frames' = Goto(cur.pc + 1, ins.a - 1)
    /\ UNCHANGED <<stack, top, status, pending, thread>>

(* Mutant: the list is written without making slots for it. *)
VarargInPlace ==
    /\ At("VARARG")
    /\ LET vs == Adjust(cur.varargs, ins.b - 1)
           r == Reg(ins.a)
       IN  /\ stack' = Put(stack, r, vs)
           /\ top' = IF ins.b = 0 THEN r + Len(vs) ELSE top
           /\ frames' = Goto(cur.pc + 1, IF ins.b = 0 THEN ins.a - 1
                                         ELSE ins.a - 1 + Len(vs))
    /\ UNCHANGED <<ups, status, pending, thread>>

Vararg ==
    /\ At("VARARG")
    /\ LET vs == Adjust(cur.varargs, ins.b - 1)
           r == Reg(ins.a)
       IN  /\ stack' = Put(Grow(stack, IF vs = <<>> THEN 0 ELSE r + Len(vs) - 1), r, vs)
           /\ top' = IF ins.b = 0 THEN r + Len(vs) ELSE top
           /\ frames' = Goto(cur.pc + 1, IF ins.b = 0 THEN ins.a - 1
                                         ELSE ins.a - 1 + Len(vs))
    /\ UNCHANGED <<ups, status, pending, thread>>

SetList ==
    /\ At("SETLIST")
    /\ frames' = Goto(cur.pc + 1, ins.a)
    /\ UNCHANGED <<stack, top, ups, status, pending, thread>>

Jump ==
    /\ At("JMP")
    /\ frames' = Goto(ins.b, cur.free)
    /\ UNCHANGED <<stack, top, ups, status, pending, thread>>

Test ==
    /\ At("TEST")
    /\ \E skip \in {1, 2} : frames' = Goto(cur.pc + skip, cur.free)
    /\ UNCHANGED <<stack, top, ups, status, pending, thread>>

ArgCount == IF ins.b = 0 THEN Max({0, top - (Reg(ins.a) + 1)}) ELSE ins.b - 1

(* a callable table becomes the first argument of its __call handler *)
WithHandler ==
    IF R(ins.a) = Obj
    THEN Put(Grow(stack, Reg(ins.a) + ArgCount + 1), Reg(ins.a),
             <<Fun>> \o Window(stack, Reg(ins.a), ArgCount + 1))
    ELSE stack
Arity == IF R(ins.a) = Obj THEN ArgCount + 1 ELSE ArgCount

Call ==
    /\ At("CALL")
    /\ LET fs == Goto(cur.pc, ins.a - 1)
       IN  IF R(ins.a) = Nil THEN Throw(stack, ups, fs) /\ UNCHANGED pending
           ELSE Enter(WithHandler, ups, fs, Reg(ins.a), Arity, ins.c - 1, 0)
    /\ UNCHANGED thread

(* a Lua callee replaces the caller's frame in its window *)
Replace(s, us, f, n) ==
    \E p \in Functions :
        LET b == cur.base
            moved == Put(s, b, Window(s, f + 1, n))
            clean == Wipe(Prepared(moved, b, n, p), b + Room[p], cur.ctop - 1)
        IN  /\ stack' = Put(clean, cur.func, <<Fun>>)
            /\ frames' = [frames EXCEPT ![Len(frames)] =
                 CallInfo(p, cur.func, n, b + Room[p], cur.nres, Extra(moved, b, n, p),
                          cur.cont)]
            /\ ups' = us
            /\ UNCHANGED <<top, status, pending>>

(* the root frame is never replaced; a native callee and a callee of the root
   frame are called, and the RETURN behind the TAILCALL passes the results on *)
TailCall ==
    /\ At("TAILCALL")
    /\ LET s == WithHandler
           f == Reg(ins.a)
           us == Closed(ups, s, cur.base)
           fs == Goto(cur.pc, ins.a - 1)
           root == cur.func = cur.base
       IN  IF R(ins.a) = Nil THEN Throw(stack, ups, fs) /\ UNCHANGED pending
           ELSE \/ ~ root /\ Replace(s, us, f, Arity)
                \/ root /\ EnterLua(s, us, fs, f, Arity, MultRet, 0) /\ UNCHANGED pending
                \/ EnterNative(s, us, fs, f, Arity, MultRet, 0)
                \/ EnterYield(s, us, fs, f, Arity, MultRet, 0)
                \/ EnterPcall(s, us, fs, f, Arity, MultRet, 0)
    /\ UNCHANGED thread

(* TFORLOOP calls the iterator with copies above the control registers *)
ForCall ==
    /\ At("TFORLOOP")
    /\ LET a == Reg(ins.a)
           s == Put(Grow(stack, a + 5), a + 3, Window(stack, a, 3))
           fs == Goto(cur.pc, ins.a + 2)
       IN  IF Slot(stack, a) # Fun THEN Throw(stack, ups, fs) /\ UNCHANGED pending
           ELSE Enter(s, ups, fs, a + 3, 2, ins.c, a)
    /\ UNCHANGED thread

(* coroutine.resume installs its arguments where the yield left its results;
   execution goes on behind the call instruction *)
Resume ==
    /\ status = "yield"
    /\ \E vs \in Lists :
          LET rs == Adjust(vs, pending.want)
              t == pending.base + Len(rs)
          IN  Answer(Put(Grow(stack, t - 1), pending.base, rs), ups, frames, t,
                     pending.want, 0)
    /\ status' = "run" /\ pending' = [base |-> 0, want |-> 0]
    /\ UNCHANGED thread

(* Everything above the results is cleared; the root frame of a main program
   is reset. *)
Return ==
    /\ At("RETURN")
    /\ LET available == IF ins.b = 0 THEN top - Reg(ins.a) ELSE ins.b - 1
           want == IF Len(frames) = 1 THEN MultRet ELSE cur.nres
           rs == Adjust(Window(stack, Reg(ins.a), available), want)
           t == cur.func + Len(rs)
           s == Wipe(Put(Grow(stack, t - 1), cur.func, rs), t, Len(stack))
           us == Closed(ups, stack, cur.base)
       IN  IF Len(frames) = 1
           THEN /\ stack' = s /\ top' = t /\ ups' = us
                /\ frames' = <<Idle>> /\ status' = "done"
           ELSE /\ Answer(s, us, Upto(frames, Len(frames) - 1), t, cur.nres, cur.cont)
                /\ status' = IF Len(frames) = 2 /\ thread = "coroutine" THEN "done"
                             ELSE "run"
    /\ UNCHANGED <<pending, thread>>

(* an instruction that fails by itself: no memory for a closure or for the
   values of a list *)
Fail ==
    /\ At("CLOSURE") \/ At("SETLIST")
    /\ Throw(stack, ups, frames)
    /\ UNCHANGED <<pending, thread>>

(* the target of a pcall is over: its results, or the error, become the results
   of pcall's own native frame *)
FinishPcall ==
    /\ status \in {"run", "error"} /\ cur.proto = Nil
    /\ LET results == Window(stack, cur.func + 1, top - cur.func - 1)
           vs == IF status = "error" THEN <<Nil, Fun>> ELSE <<Obj>> \o results
           s == IF status = "error" THEN stack ELSE Wipe(stack, Restored(cur), top - 1)
       IN  Deliver(s, ups, Upto(frames, Len(frames) - 1), cur.func + 1, vs,
                   cur.func, cur.nres, cur.cont)
    /\ status' = "run"
    /\ UNCHANGED <<pending, thread>>

(* execute_proto_with_args on a main state that ran before: its stack keeps
   what the last program left *)
Restart ==
    /\ thread = "main" /\ status \in {"done", "dead"}
    /\ \E p \in Chunks, vs \in Lists :
          /\ frames' = <<Root(p, vs)>>
          /\ stack' = Grow(stack, Room[p])
    /\ top' = 1 /\ status' = "run"
    /\ UNCHANGED <<ups, pending, thread>>

Init ==
    /\ top = 1
    /\ ups = [open |-> <<>>,
              var |-> [u \in Upvalues |-> [state |-> "unused", slot |-> 0, val |-> Nil]]]
    /\ status = "run"
    /\ pending = [base |-> 0, want |-> 0]
    /\ \/ /\ thread = "main"
          /\ \E p \in Chunks, vs \in Lists :
                /\ frames = <<Root(p, vs)>>
                /\ stack = Grow(<<>>, Room[p])
       \/ /\ thread = "coroutine"
          /\ \E p \in Protos, vs \in Lists :
                /\ stack = Prepared(<<Fun>> \o vs, 2, Len(vs), p)
                /\ frames = <<Idle, CallInfo(p, 1, Len(vs), 2 + Room[p], MultRet,
                                             Extra(<<Fun>> \o vs, 2, Len(vs), p), 0)>>

Next ==
    \/ LoadK \/ Move \/ Closure \/ GetUpvalue \/ SetUpvalue \/ OtherSets
    \/ Close \/ Vararg \/ SetList \/ Jump \/ Test
    \/ Call \/ TailCall \/ ForCall \/ Resume
    \/ Return \/ Fail \/ FinishPcall \/ Restart

Spec == Init /\ [][Next]_vars

-----------------------------------------------------------------------------
(* The windows seen as separate activations. *)

Below == IF thread = "main" THEN 0 ELSE 1    \* the root frame of a coroutine's state
Height == IF status \in {"done", "dead"} THEN 0 ELSE Len(frames) - Below

(* an open list lies between the live registers and the top *)
Consumes(p, pc) ==
    Code[p][pc].op \in {"CALL", "TAILCALL", "RETURN", "SETLIST"} /\ Code[p][pc].b = 0
Seen(k) ==
    LET fr == frames[k]
        open == /\ k = Len(frames) /\ status = "run"
                /\ fr.proto # Nil => Consumes(fr.proto, fr.pc)
    IN  [proto |-> fr.proto, pc |-> fr.pc,
         regs |-> Window(stack, fr.base, fr.free),
         more |-> IF open THEN Window(stack, fr.base + fr.free, top - fr.base - fr.free)
                  ELSE <<>>,
         varargs |-> fr.varargs]
Activated == SubSeq([k \in DOMAIN frames |-> Seen(k)], Below + 1, Below + Height)

Contents == [u \in Upvalues |-> Content(u)]
Owner(x) == {i \in 1..Height : LET fr == frames[i + Below]
                               IN  fr.base <= x /\ x < fr.base + fr.free}
Place(i, x) == <<i, x - frames[i + Below].base + 1>>
Homes ==
    [u \in Upvalues |->
        IF Height = 0 \/ ups.var[u].state # "open" THEN <<0, 0>>
        ELSE IF Owner(ups.var[u].slot) = {} THEN <<-1, -1>>
        ELSE Place(CHOOSE i \in Owner(ups.var[u].slot) : TRUE, ups.var[u].slot)]

Final == IF status = "done" THEN Window(stack, 1, top - 1) ELSE <<>>

Lua == INSTANCE Activations WITH acts <- Activated, cell <- Contents, home <- Homes,
                                 used <- Used, answer <- Final

(* What the compiler knows of a function (reg_alloc.rs, scope.rs): before each
   instruction the registers up to live[p][pc] may be read, those in held[p][pc]
   may be captured, and an open list is pending exactly if the instruction takes
   one.  An instruction reads live registers, writes one of them or the next one,
   and frees only what no closure has captured.  Where paths with different
   scopes join, the inner scope has ended with a CLOSE: the compiler leaves out
   one that would find no upvalue. *)
Leads(live, held, p, pc, n, captured, open) ==
    /\ pc \in DOMAIN Code[p] /\ live[p][pc] = n
    /\ captured \subseteq held[p][pc] /\ Consumes(p, pc) = open
Orderly(live, held, p, pc) ==
    LET i == Code[p][pc]
        n == live[p][pc]
        m == held[p][pc]
        On(k, captured, open) == Leads(live, held, p, pc + 1, k, captured, open)
    IN  CASE i.op \in {"LOADK", "MOVE", "GETUPVAL"} ->
               /\ i.a \in 1..n + 1 /\ (i.op = "MOVE" => i.b \in 1..n)
               /\ On(Max({n, i.a}), m, FALSE)
          [] i.op = "CLOSURE" -> i.a = n + 1 /\ i.b \in 1..n /\ On(n + 1, m \cup {i.b}, FALSE)
          [] i.op = "SETUPVAL" -> i.b \in 1..n /\ On(n, m, FALSE)
          [] i.op = "CLOSE" -> i.a \in 1..n + 1 /\ On(i.a - 1, m \cap 1..i.a - 1, FALSE)
          [] i.op = "VARARG" ->
               /\ i.a \in 1..n + 1 /\ m \subseteq 1..i.a - 1
               /\ IF i.b = 0 THEN i.a = n + 1 /\ On(n, m, TRUE)
                  ELSE On(i.a + i.b - 2, m, FALSE)
          [] i.op = "SETLIST" -> i.a \in 1..n /\ m \subseteq 1..i.a /\ On(i.a, m, FALSE)
          [] i.op = "JMP" -> Leads(live, held, p, i.b, n, m, FALSE)
          [] i.op = "TEST" -> On(n, m, FALSE) /\ Leads(live, held, p, pc + 2, n, m, FALSE)
          [] i.op \in {"CALL", "TAILCALL"} ->
               /\ i.a \in 1..n /\ i.a + i.b - 1 <= n /\ m \subseteq 1..i.a - 1
               /\ IF Takes(i) = MultRet THEN On(i.a - 1, m, TRUE)
                  ELSE On(i.a - 1 + Takes(i), m, FALSE)
          [] i.op = "TFORLOOP" ->
               /\ i.a >= 1 /\ i.a + 2 <= n /\ m \subseteq 1..i.a + 1 /\ i.c >= 1
               /\ On(i.a + 2 + i.c, m, FALSE)
               /\ Leads(live, held, p, pc + 2, i.a + 2, m, FALSE)
          [] i.op = "RETURN" -> i.a \in 1..n + 1 /\ i.a + i.b - 2 <= n
          [] OTHER -> FALSE
Compiled(live, held) ==
    \A p \in Protos :
        /\ live[p] \in [DOMAIN Code[p] -> 0..Room[p]]
        /\ Leads(live, held, p, 1, Params[p], {}, FALSE)
        /\ \A pc \in DOMAIN Code[p] :
              held[p][pc] \subseteq 1..live[p][pc] /\ Orderly(live, held, p, pc)

(* Overlapping windows, shared slots and results moved in place behave like
   activations with registers of their own: no call, return, tail call, error,
   yield or pcall disturbs a register, an extra argument or a captured variable
   that is not its own. *)
CallsAreActivations == Lua!Spec

-----------------------------------------------------------------------------
(* Invariants. *)

(* The stack holds values only, every CallInfo describes a frame, and the
   upvalues' storage is what their state says. *)
TypeOK ==
    /\ \A k \in DOMAIN stack : stack[k] \in Value
    /\ top \in 1..Len(stack) + 1
    /\ frames # <<>>
    /\ \A k \in DOMAIN frames :
          /\ frames[k].proto \in Protos \cup {Nil}
          /\ {frames[k].func, frames[k].base} \subseteq 1..Len(stack) + 1
          /\ \A i \in DOMAIN frames[k].varargs : frames[k].varargs[i] \in Value
    /\ ups.var \in [Upvalues -> [state : {"unused", "open", "closed"},
                                 slot : 0..Len(stack), val : Value]]
    /\ thread \in {"main", "coroutine"}
    /\ status \in {"run", "error", "yield", "done", "dead"}

(* close_upvalues walks the open list from its head and stops at the first
   lower slot, and find_or_create_upvalue searches it the same way: both are
   right only while the list descends strictly and holds every open upvalue. *)
OpenListDescends ==
    /\ \A i, j \in DOMAIN ups.open :
          i < j => ups.var[ups.open[i]].slot > ups.var[ups.open[j]].slot
    /\ \A u \in Upvalues :
          ups.var[u].state = "open" <=> \E i \in DOMAIN ups.open : ups.open[i] = u

(* A write past the stack's length is lost without an error (stack.rs at_mut), so
   every register that the compiled code may use exists; and a callee's window
   begins above the registers that its caller still reads. *)
WindowsNest ==
    status # "dead" =>
        \A k \in DOMAIN frames :
            /\ frames[k].proto # Nil => frames[k].base + Room[frames[k].proto] - 1 <= Len(stack)
            /\ k > 1 /\ frames[k - 1].proto # Nil =>
                  frames[k].func >= frames[k - 1].base + frames[k - 1].free
=============================================================================
