---------------------------- MODULE Activations ----------------------------
(***************************************************************************)
(* What Lua promises of calls on one thread: every activation of a         *)
(* function has registers, extra arguments and captured variables of its   *)
(* own, whatever the interpreter does with its one stack.  CallFrames      *)
(* implements this specification by windows of a shared stack.             *)
(*                                                                         *)
(* A register list holds exactly the registers that the compiled code may  *)
(* still read.  A variable that a closure captured lives in its register   *)
(* while its scope is active and in a cell of its own from then on.        *)
(***************************************************************************)
EXTENDS CallValues

VARIABLES
    acts,     \* Seq of activations, the running one last
    cell,     \* [Upvalues -> Value]: what a captured variable holds
    home,     \* [Upvalues -> <<activation, register>>], Nowhere once closed
    used,     \* the upvalues created so far
    status,   \* "run", "error", "yield", "done" or "dead"
    answer    \* what the finished thread returned

vars == <<acts, cell, home, used, status, answer>>
Nowhere == <<0, 0>>

(* proto: what runs, Nil for a protected call that waits for its target.
   pc: the next instruction, or the call it waits for.  more: the open end of
   a value list, which the next instruction takes. *)
Activation(p, args) ==
    [proto |-> p, pc |-> 1, regs |-> Adjust(args, Params[p]), more |-> <<>>,
     varargs |-> IF p \in Variadic THEN From(args, Params[p] + 1) ELSE <<>>]
Guard(vs) ==
    [proto |-> Nil, pc |-> 0, regs |-> <<>>, more |-> vs, varargs |-> <<>>]

Begin(protos, a) == \E p \in protos, vs \in Lists : a = <<Activation(p, vs)>>

Init ==
    /\ Begin(Protos, acts)
    /\ cell = [u \in Upvalues |-> Nil]
    /\ home = [u \in Upvalues |-> Nowhere]
    /\ used = {}
    /\ status = "run"
    /\ answer = <<>>

depth == Len(acts)
cur == acts[depth]
regs == cur.regs
ins == InstructionAt(cur.proto, cur.pc)
At(op) == status = "run" /\ cur.proto # Nil /\ ins.op = op
Become(a) == acts' = [acts EXCEPT ![depth] = a]
Boundaries == {i \in 1..depth : acts[i].proto = Nil}

(* the captured variables that leave their scope: registers above the first n
   of activation i, and all of the activations above i *)
Forget(i, n) ==
    home' = [u \in Upvalues |->
                IF home[u][1] > i \/ (home[u][1] = i /\ home[u][2] > n)
                THEN Nowhere ELSE home[u]]

Assign(r, v) ==
    /\ Become([cur EXCEPT !.pc = @ + 1,
                          !.regs = IF r > Len(@) THEN Append(@, v) ELSE [@ EXCEPT ![r] = v]])
    /\ cell' = [u \in Upvalues |-> IF home[u] = <<depth, r>> THEN v ELSE cell[u]]
    /\ UNCHANGED <<home, used, status, answer>>

-----------------------------------------------------------------------------
(* Registers and captured variables. *)

LoadK == At("LOADK") /\ Assign(ins.a, ins.b)
Move == At("MOVE") /\ Assign(ins.a, regs[ins.b])

(* a closure over register b: all closures over one variable share it; a new
   variable may get the identity of one that no closure holds any more *)
Closure ==
    /\ At("CLOSURE")
    /\ Become([cur EXCEPT !.pc = @ + 1, !.regs = Append(@, Fun)])
    /\ \/ /\ \E u \in used : home[u] = <<depth, ins.b>>
          /\ UNCHANGED <<cell, home, used>>
       \/ /\ ~ \E u \in used : home[u] = <<depth, ins.b>>
          /\ \E u \in Upvalues :
                /\ home[u] = Nowhere
                /\ used' = used \cup {u}
                /\ home' = [home EXCEPT ![u] = <<depth, ins.b>>]
                /\ cell' = [cell EXCEPT ![u] = regs[ins.b]]
    /\ UNCHANGED <<status, answer>>

GetUpvalue == At("GETUPVAL") /\ \E u \in used : Assign(ins.a, cell[u])

Store(u, v) ==
    /\ cell' = [cell EXCEPT ![u] = v]
    /\ LET as == IF status = "run" THEN [acts EXCEPT ![depth].pc = @ + 1] ELSE acts
       IN  acts' = IF home[u] = Nowhere THEN as
                   ELSE [as EXCEPT ![home[u][1]].regs[home[u][2]] = v]
    /\ UNCHANGED <<home, used, status, answer>>

SetUpvalue == At("SETUPVAL") /\ \E u \in used : Store(u, regs[ins.b])

(* another thread, while this one is suspended or over *)
OtherSets == status \in {"yield", "done", "dead"} /\ \E u \in used : Store(u, Nil)

Close ==
    /\ At("CLOSE")
    /\ Become([cur EXCEPT !.pc = @ + 1, !.regs = Upto(@, ins.a - 1)])
    /\ Forget(depth, ins.a - 1)
    /\ UNCHANGED <<cell, used, status, answer>>

Vararg ==
    /\ At("VARARG")
    /\ Become(IF ins.b = 0
              THEN [cur EXCEPT !.pc = @ + 1, !.more = cur.varargs]
              ELSE [cur EXCEPT !.pc = @ + 1,
                               !.regs = Upto(@, ins.a - 1) \o Adjust(cur.varargs, ins.b - 1)])
    /\ UNCHANGED <<cell, home, used, status, answer>>

(* a table constructor takes its values *)
SetList ==
    /\ At("SETLIST")
    /\ Become([cur EXCEPT !.pc = @ + 1, !.regs = Upto(@, ins.a), !.more = <<>>])
    /\ UNCHANGED <<cell, home, used, status, answer>>

Jump ==
    /\ \/ At("JMP") /\ Become([cur EXCEPT !.pc = ins.b])
       \/ At("TEST") /\ \E skip \in {1, 2} : Become([cur EXCEPT !.pc = @ + skip])
    /\ UNCHANGED <<cell, home, used, status, answer>>

-----------------------------------------------------------------------------
(* Calls.  The callee sits in register a, its arguments above it, to the end *)
(* of the open list if there is one.                                         *)

Arguments == (IF regs[ins.a] = Obj THEN <<Obj>> ELSE <<>>)
                 \o (IF ins.b = 0 THEN From(regs, ins.a + 1) \o cur.more
                     ELSE SubSeq(regs, ins.a + 1, ins.a + ins.b - 1))

(* what a caller becomes when the call that it waits for answers with vs; a
   generic for ends with the first nil and else keeps it as control value *)
Answered(a, vs) ==
    LET i == Code[a.proto][a.pc]
        rs == Adjust(vs, Takes(i))
    IN  IF i.op = "TFORLOOP"
        THEN IF rs[1] = Nil
             THEN [a EXCEPT !.pc = @ + 2]
             ELSE [a EXCEPT !.pc = @ + 1, !.regs = Upto(@, i.a + 1) \o <<rs[1]>> \o rs]
        ELSE IF Takes(i) = MultRet
        THEN [a EXCEPT !.pc = @ + 1, !.more = rs]
        ELSE [a EXCEPT !.pc = @ + 1, !.regs = @ \o rs]

(* a Lua function, a native one, pcall and coroutine.yield, called by the
   running activation, which waits for the answer as a *)
Enter(a, args) ==
    LET below == [acts EXCEPT ![depth] = a]
    IN  \/ /\ \E p \in Functions : acts' = Append(below, Activation(p, args))
           /\ UNCHANGED status
        \/ /\ \E vs \in Lists : Become(Answered(a, vs))
           /\ UNCHANGED status
        \/ /\ args # <<>> /\ args[1] = Fun
           /\ \/ \E p \in Functions :
                    acts' = below \o <<Guard(<<>>), Activation(p, Tail(args))>>
              \/ \E vs \in Lists : acts' = Append(below, Guard(vs))
           /\ UNCHANGED status
        \/ /\ args # <<>>
           /\ acts' = Append(below, Guard(<<>>))
           /\ status' = "error"
        \/ /\ Boundaries = {}
           /\ acts' = below
           /\ status' = "yield"

Waiting(n) == [cur EXCEPT !.regs = Upto(@, n), !.more = <<>>]

Call ==
    /\ At("CALL") /\ regs[ins.a] # Nil
    /\ Enter(Waiting(ins.a - 1), Arguments)
    /\ UNCHANGED <<cell, home, used, answer>>

(* the variables of the caller of a tail call end before the callee begins *)
TailCall ==
    /\ At("TAILCALL") /\ regs[ins.a] # Nil
    /\ \/ /\ \E p \in Functions : Become(Activation(p, Arguments))
          /\ UNCHANGED status
       \/ Enter(Waiting(ins.a - 1), Arguments)
    /\ Forget(depth, 0)
    /\ UNCHANGED <<cell, used, answer>>

(* iterator, state and control value in the registers from a on *)
ForCall ==
    /\ At("TFORLOOP") /\ regs[ins.a] = Fun
    /\ Enter(Waiting(ins.a + 2), SubSeq(regs, ins.a + 1, ins.a + 2))
    /\ UNCHANGED <<cell, home, used, answer>>

Resume ==
    /\ status = "yield"
    /\ \E vs \in Lists : Become(Answered(cur, vs))
    /\ status' = "run"
    /\ UNCHANGED <<cell, home, used, answer>>

-----------------------------------------------------------------------------
(* Returns, errors and the ends of protected calls. *)

Return ==
    /\ At("RETURN")
    /\ LET vs == IF ins.b = 0 THEN From(regs, ins.a) \o cur.more
                 ELSE SubSeq(regs, ins.a, ins.a + ins.b - 2)
       IN  IF depth = 1
           THEN acts' = <<>> /\ answer' = vs /\ status' = "done"
           ELSE /\ acts' = [Upto(acts, depth - 1) EXCEPT ![depth - 1] =
                              IF @.proto = Nil THEN [@ EXCEPT !.more = vs]
                              ELSE Answered(@, vs)]
                /\ UNCHANGED <<answer, status>>
    /\ Forget(depth, 0)
    /\ UNCHANGED <<cell, used>>

(* an error ends every activation above the innermost protected call *)
Fail ==
    /\ status = "run" /\ cur.proto # Nil
    /\ IF Boundaries = {}
       THEN acts' = <<>> /\ status' = "dead" /\ Forget(1, 0)
       ELSE LET b == CHOOSE i \in Boundaries : \A j \in Boundaries : j <= i
            IN  acts' = Upto(acts, b) /\ status' = "error" /\ Forget(b + 1, 0)
    /\ UNCHANGED <<cell, used, answer>>

(* pcall answers with a status followed by the results or by the error *)
FinishGuard ==
    /\ status \in {"run", "error"} /\ cur.proto = Nil
    /\ LET vs == IF status = "error" THEN <<Nil, Fun>> ELSE <<Obj>> \o cur.more
       IN  acts' = [Upto(acts, depth - 1) EXCEPT ![depth - 1] = Answered(@, vs)]
    /\ status' = "run"
    /\ UNCHANGED <<cell, home, used, answer>>

Restart ==
    /\ status \in {"done", "dead"}
    /\ Begin(Chunks, acts')
    /\ status' = "run" /\ answer' = <<>>
    /\ UNCHANGED <<cell, home, used>>

Next ==
    \/ LoadK \/ Move \/ Closure \/ GetUpvalue \/ SetUpvalue \/ OtherSets
    \/ Close \/ Vararg \/ SetList \/ Jump
    \/ Call \/ TailCall \/ ForCall \/ Resume
    \/ Return \/ Fail \/ FinishGuard \/ Restart

Spec == Init /\ [][Next]_vars
=============================================================================
