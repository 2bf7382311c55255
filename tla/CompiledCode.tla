--------------------------- MODULE CompiledCode ---------------------------
(***************************************************************************)
(* The code that CodeGen makes of a program, executed instruction by       *)
(* instruction on the registers of one frame.  Functions outside of the    *)
(* program answer its calls with any list of Answers and may meanwhile     *)
(* write to one variable that the program has captured in a closure.       *)
(***************************************************************************)
EXTENDS CodeGen

CONSTANTS
    Programs,     \* the programs to compile
    Answers,      \* lists that a call may return
    Written,      \* values that a closure may write
    MaxCalls,     \* bound: calls in one execution
    Junk          \* what a call leaves in the registers above its results

VARIABLES program, proto, pc, regs, top, open, cells, closures, globals, inputs

vars == <<program, proto, pc, regs, top, open, cells, closures, globals, inputs>>

Spare == 3                                   \* registers of an iterator's call
Registers == 0..(proto.room + Spare - 1)
NoCell == 0

Init ==
    /\ program \in Programs
    /\ proto = Generate(program)
    /\ pc = 0
    /\ regs = [r \in Registers |-> Nil]
    /\ top = 0
    /\ open = [r \in Registers |-> NoCell]       \* the open upvalue of a register
    /\ cells = <<>>                              \* upvalues, with the values of the closed ones
    /\ closures = <<>>                           \* the upvalue of each closure
    /\ globals = [x \in Globals |-> Fun]
    /\ inputs = <<>>

ins == proto.code[pc + 1]
At(op) == ins.op = op
Rk(x) == IF x.is = "register" THEN regs[x.reg] ELSE x.value
Content(c, os, rs) == IF \E r \in DOMAIN os : os[r] = c
                      THEN rs[CHOOSE r \in DOMAIN os : os[r] = c] ELSE cells[c]
Captured == [i \in DOMAIN closures |-> Content(closures[i], open, regs)]

Goto(target) == pc' = target
Set(r, v) == regs' = [regs EXCEPT ![r] = v]
frame == <<program, proto, inputs>>
heap == <<open, cells, closures, globals>>

Load ==
    /\ ins.op \in {"LOADK", "MOVE", "GETGLOBAL"}
    /\ Set(ins.a, CASE At("LOADK") -> ins.b
                    [] At("MOVE") -> regs[ins.b]
                    [] At("GETGLOBAL") -> globals[ins.b])
    /\ Goto(pc + 1)
    /\ UNCHANGED <<frame, heap, top>>
LoadBool ==
    /\ At("LOADBOOL")
    /\ Set(ins.a, ins.b)
    /\ Goto(pc + 1 + ins.c)
    /\ UNCHANGED <<frame, heap, top>>
LoadNil ==
    /\ At("LOADNIL")
    /\ regs' = [r \in Registers |-> IF r \in ins.a..ins.b THEN Nil ELSE regs[r]]
    /\ Goto(pc + 1)
    /\ UNCHANGED <<frame, heap, top>>
SetGlobal ==
    /\ At("SETGLOBAL")
    /\ globals' = [globals EXCEPT ![ins.b] = regs[ins.a]]
    /\ Goto(pc + 1)
    /\ UNCHANGED <<frame, regs, top, open, cells, closures>>

(* the closure shares the open upvalue of its register or opens one; the
   pseudo instruction is skipped *)
MakeClosure ==
    /\ At("CLOSURE")
    /\ Set(ins.a, Fun)
    /\ IF ins.b < 0 THEN UNCHANGED <<open, cells, closures>>
       ELSE LET new == open[ins.b] = NoCell
                c == IF new THEN Len(cells) + 1 ELSE open[ins.b]
            IN  /\ open' = [open EXCEPT ![ins.b] = c]
                /\ cells' = IF new THEN Append(cells, Nil) ELSE cells
                /\ closures' = Append(closures, c)
    /\ Goto(IF ins.b < 0 THEN pc + 1 ELSE pc + 2)
    /\ UNCHANGED <<frame, top, globals>>
Close ==
    /\ At("CLOSE")
    /\ cells' = [c \in DOMAIN cells |-> Content(c, open, regs)]
    /\ open' = [r \in Registers |-> IF r >= ins.a THEN NoCell ELSE open[r]]
    /\ Goto(pc + 1)
    /\ UNCHANGED <<frame, regs, top, closures, globals>>

(* the jump that follows is taken where the truth is that of the instruction *)
Test ==
    /\ ins.op \in {"TEST", "EQ"}
    /\ LET truth == IF At("TEST") THEN Bool(Truth(regs[ins.a])) = ins.c
                    ELSE Bool(Rk(ins.b) = Rk(ins.c)) = ins.a
       IN  Goto(IF truth THEN pc + 1 ELSE pc + 2)
    /\ UNCHANGED <<frame, heap, regs, top>>
Jump == At("JMP") /\ Goto(ins.b) /\ UNCHANGED <<frame, heap, regs, top>>

ForPrep ==
    /\ At("FORPREP")
    /\ Set(ins.a, regs[ins.a] - regs[ins.a + 2])
    /\ Goto(ins.b)
    /\ UNCHANGED <<frame, heap, top>>
ForLoop ==
    /\ At("FORLOOP")
    /\ LET i == regs[ins.a] + regs[ins.a + 2]
       IN  /\ regs' = [regs EXCEPT ![ins.a] = i, ![ins.a + 3] = i]
           /\ Goto(IF i <= regs[ins.a + 1] THEN ins.b ELSE pc + 1)
    /\ UNCHANGED <<frame, heap, top>>

List(a, b) == [i \in 1..(IF b = 0 THEN Max({0, top - a}) ELSE b - 1) |-> regs[a + i - 1]]
Args == IF At("TFORLOOP") THEN <<regs[ins.a + 1], regs[ins.a + 2]>>
        ELSE List(ins.a + 1, ins.b)

(* a call: what happens outside until it returns, and the list it returns in
   the registers from base on, cut or filled to n values unless n < 0 *)
Writes == {<<0, Nil>>} \cup ((DOMAIN closures) \X Written)
Wanted(vs, n) == IF n < 0 THEN vs ELSE Fit(vs, n)
Meanwhile(w) == [r \in Registers |->
    IF w[1] # 0 /\ open[r] = closures[w[1]] THEN w[2] ELSE regs[r]]
Returned(rs, base, list) == [r \in Registers |->
    CASE r < base -> rs[r]
      [] r \in base..(base + Len(list) - 1) -> list[r - base + 1]
      [] OTHER -> Junk]
Outside(answer, w) ==
    /\ Len(inputs) < MaxCalls
    /\ cells' = IF w[1] = 0 THEN cells ELSE [cells EXCEPT ![closures[w[1]]] = w[2]]
    /\ inputs' = Append(inputs, Input(answer, w[1], w[2]))
    /\ UNCHANGED <<program, proto, open, closures, globals>>

DoCall ==
    /\ ins.op \in {"CALL", "TAILCALL"}
    /\ \E answer \in Answers, w \in Writes :
        LET list == Wanted(answer, ins.c - 1)
        IN  /\ Outside(answer, w)
            /\ regs' = Returned(Meanwhile(w), ins.a, list)
            /\ top' = ins.a + Len(list)
    /\ Goto(pc + 1)

ForCall ==
    /\ At("TFORLOOP")
    /\ \E answer \in Answers, w \in Writes :
        LET list == Wanted(answer, ins.c)
            rs == Returned(Meanwhile(w), ins.a + 3, list)
        IN  /\ Outside(answer, w)
            /\ top' = ins.a + 3 + Len(list)
            /\ IF list[1] = Nil THEN regs' = rs /\ Goto(pc + 2)
               ELSE regs' = [rs EXCEPT ![ins.a + 2] = list[1]] /\ Goto(pc + 1)

Next ==
    \/ Load \/ LoadBool \/ LoadNil \/ SetGlobal \/ MakeClosure \/ Close
    \/ Test \/ Jump \/ ForPrep \/ ForLoop \/ DoCall \/ ForCall
Spec == Init /\ [][Next]_vars

-----------------------------------------------------------------------------
(* Where the code asks something or is over. *)
Waits == ins.op \in {"CALL", "TAILCALL", "TFORLOOP", "RETURN"}
Event == IF At("RETURN") THEN Question(Returning, List(ins.a, ins.b))
         ELSE Question(regs[ins.a], Args)

(* The code of a program means the program: it makes the same calls in the same
   order with the same arguments, returns the same values, and at each of these
   points every captured variable and every global has the value it has in
   the program, whatever closures wrote before. *)
CodeMeansProgram ==
    Waits => Meaning(program, inputs) =
                 [event |-> Event, captured |-> Captured, globals |-> globals]

(* The frame is as large as the code needs: no instruction names a register that
   the prototype does not reserve. *)
RoomSuffices ==
    LET wide == CASE At("LOADNIL") -> ins.b
                  [] At("EQ") -> Max({x.reg : x \in {y \in {ins.b, ins.c} : y.is = "register"}} \cup {0})
                  [] ins.op \in {"FORPREP", "FORLOOP"} -> ins.a + 3
                  [] At("TFORLOOP") -> ins.a + 2 + ins.c
                  [] ins.op \in {"CALL", "TAILCALL"} -> ins.a + Max({ins.b - 1, ins.c - 2, 0})
                  [] At("RETURN") -> ins.a + Max({ins.b - 2, 0})
                  [] OTHER -> ins.a
    IN  wide < proto.room
=============================================================================
