------------------------------ MODULE CodeGen ------------------------------
(***************************************************************************)
(* lua_compiler/src/codegen: from a syntax tree to the instructions of one *)
(* function.  The record g is the CodeGenerator: registers are handed out  *)
(* in stack order, every local variable owns one, jumps are emitted before *)
(* their targets are known, and captured variables are closed where their  *)
(* scope is left.  Register and instruction numbers count from 0; a jump   *)
(* holds its target instead of an offset.                                  *)
(***************************************************************************)
EXTENDS LuaProgram, FiniteSets

NoJump == -1
Generator == [code |-> <<>>, freereg |-> 0, maxused |-> 0, active |-> 0, vars |-> <<>>,
              blocks |-> <<>>, reads |-> {}, forcenil |-> FALSE,
              v |-> [is |-> "none"],                       \* the last ValueResult
              list |-> {}]                                 \* the last PatchList

After(g, F(_)) == F(g)                                \* what F makes of g
Label(g) == Len(g.code)
Emit(g, op, a, b, c) == [g EXCEPT !.code = Append(@, [op |-> op, a |-> a, b |-> b, c |-> c])]
FixJump(g, pc, target) == [g EXCEPT !.code[pc + 1].b = target]
PatchHere(g, list) == [g EXCEPT !.code = [i \in DOMAIN @ |->
                            IF i - 1 \in list THEN [@[i] EXCEPT !.b = Len(g.code)] ELSE @[i]]]
EmitJump(g) == [Emit(g, "JMP", 0, NoJump, 0) EXCEPT !.list = {Label(g)}]
EmitClose(g, level) == Emit(g, "CLOSE", level, 0, 0)

-----------------------------------------------------------------------------
(* RegisterAllocator. *)

(* Mutant: the high-water mark is not kept. *)
SetFreeWithoutMax(g, r) == [g EXCEPT !.freereg = r]
SetFree(g, r) == [g EXCEPT !.freereg = r, !.maxused = Max({@, r})]
Alloc(g) == SetFree(g, g.freereg + 1)                \* the register is g.freereg
EnsureFree(g, r) == IF g.freereg < r THEN SetFree(g, r) ELSE g
ResetToLocals(g) == [g EXCEPT !.freereg = g.active]
FreeReg(g, r) == IF r >= g.active /\ r = g.freereg - 1 THEN [g EXCEPT !.freereg = r] ELSE g

-----------------------------------------------------------------------------
(* Scopes. *)

AddLocalVar(g, x) ==
    SetFree([g EXCEPT !.vars = Append(@, [name |-> x, reg |-> g.freereg, live |-> TRUE,
                                          captured |-> FALSE])], g.freereg + 1)
AddLocalVars(g, names) == FoldLeft(AddLocalVar, g, names)
AdjustLocalVars(g, n) == ResetToLocals([g EXCEPT !.active = @ + n])
FindLocalVar(g, x) ==
    LET is == {i \in DOMAIN g.vars : g.vars[i].name = x /\ g.vars[i].live}
    IN  IF is = {} THEN -1 ELSE g.vars[Max(is)].reg
MarkLocalCaptured(g, r) ==
    LET is == {i \in DOMAIN g.vars : g.vars[i].reg = r /\ g.vars[i].live}
    IN  [g EXCEPT !.vars[Max(is)].captured = TRUE]

(* Mutant: the first variable of the scope is not looked at. *)
CloseAboveLevel(g, level) ==
    IF g.active > level /\ \E i \in DOMAIN g.vars :
            g.vars[i].live /\ g.vars[i].reg > level /\ g.vars[i].captured
    THEN EmitClose(g, level) ELSE g
CloseScopeUpvalues(g, level) ==
    IF /\ g.active > level
       /\ \E i \in DOMAIN g.vars :
            g.vars[i].live /\ g.vars[i].reg >= level /\ g.vars[i].captured
       /\ g.code # <<>> => Last(g.code).op # "RETURN"
    THEN EmitClose(g, level) ELSE g

RemoveLocalVars(g, level) ==
    LET live == {i \in DOMAIN g.vars : g.vars[i].live}
        out == {i \in live : Cardinality({j \in live : j > i}) < g.active - level}
    IN  ResetToLocals([CloseScopeUpvalues(g, level) EXCEPT
            !.active = Min({@, level}),
            !.vars = [i \in DOMAIN @ |-> [@[i] EXCEPT !.live = @ /\ i \notin out]]])

EnterBlock(g, breakable) ==
    [g EXCEPT !.blocks = Append(@, [level |-> g.active, breaks |-> {}, breakable |-> breakable])]
LeaveBlock(g) ==
    PatchHere(RemoveLocalVars([g EXCEPT !.blocks = Front(@)], Last(g.blocks).level),
              Last(g.blocks).breaks)
Breakable(g) == Max({i \in DOMAIN g.blocks : g.blocks[i].breakable})

-----------------------------------------------------------------------------
(* Values: a ValueResult is a constant, a register, a global that is still
   to be loaded, or a call whose results are still to be counted. *)

Immediate(v) == [is |-> "immediate", value |-> v]
Register(r, owns) == [is |-> "register", reg |-> r, owns |-> owns]
Pending(x) == [is |-> "pending", name |-> x]
MultiRet(pc) == [is |-> "call", pc |-> pc]
With(g, v) == [g EXCEPT !.v = v]

SetWantedResults(g, pc, n) == [g EXCEPT !.code[pc + 1].c = n + 1]
SetOpenMultiRet(g, pc) == [g EXCEPT !.code[pc + 1].c = 0]
MoveTo(g, dst, src) == IF dst = src THEN g ELSE Emit(g, "MOVE", dst, src, 0)

ForceSingleValue(g) ==
    IF g.v.is # "call" THEN g
    ELSE With(SetWantedResults(g, g.v.pc, 1), Register(g.code[g.v.pc + 1].a, FALSE))
MaterializeValue(g, r) ==
    CASE g.v.is = "immediate" ->
            CASE g.v.value = Nil -> Emit(g, "LOADNIL", r, r, 0)
              [] g.v.value \in {False, True} -> Emit(g, "LOADBOOL", r, g.v.value, 0)
              [] OTHER -> Emit(g, "LOADK", r, g.v.value, 0)
      [] g.v.is = "register" -> MoveTo(g, r, g.v.reg)
      [] g.v.is = "pending" -> Emit(g, "GETGLOBAL", r, g.v.name, 0)
ValueToAnyReg(g) ==                                          \* the register is its g.v.reg
    After(ForceSingleValue(g), LAMBDA h :
    IF h.v.is = "register" THEN h
    ELSE With(MaterializeValue(Alloc(h), h.freereg), Register(h.freereg, TRUE)))
ValueToRk(g) == IF g.v.is = "immediate" THEN g ELSE ValueToAnyReg(g)
Free(g, v) == IF v.is = "register" THEN FreeReg(g, v.reg) ELSE g
FreeBoth(g, v, w) ==                                         \* the higher one first
    IF v.is = "register" /\ w.is = "register" /\ v.reg > w.reg THEN Free(Free(g, v), w)
    ELSE Free(Free(g, w), v)

MaterializeCondResult(g, r) ==
    Emit(PatchHere(Emit(g, "LOADBOOL", r, False, 1), g.list), "LOADBOOL", r, True, 0)

RECURSIVE ProducesBoolean(_)
ProducesBoolean(e) ==
    \/ e.is \in {"not", "eq"}
    \/ e.is = "constant" /\ e.value \in {True, False}
    \/ e.is = "paren" /\ ProducesBoolean(e.of)
    \/ e.is \in {"and", "or"} /\ ProducesBoolean(e.left) /\ ProducesBoolean(e.right)

RECURSIVE Value(_, _), Jumps(_, _, _), EmitCall(_, _, _), Arguments(_, _, _)

(* emit_value, force_single_value, materialize_value *)
ValueTo(g, e, r) == MaterializeValue(ForceSingleValue(Value(g, e)), r)

Closure(g, x, r) ==                                          \* compile_function, CLOSURE
    After(FindLocalVar(g, x), LAMBDA up :
    IF up < 0 THEN Emit(g, "CLOSURE", r, up, 0)
    ELSE Emit(Emit(MarkLocalCaptured(g, up), "CLOSURE", r, up, 0),
              "MOVE", 0, up, 0))                             \* the pseudo instruction

(* emit_comparison_jump, emit_cond_result and emit_cond_result_true: the
   jumps in g.list are taken where the truth of e is that of on *)
EqJump(g, e, on) ==
    After(ValueToRk(Value(g, e.left)), LAMBDA l :
    After(ValueToRk(Value(l, e.right)), LAMBDA r :
    EmitJump(Emit(FreeBoth(r, l.v, r.v), "EQ", Bool(on), l.v, r.v))))
TestJump(g, e, on) ==
    After(ForceSingleValue(Value(g, e)), LAMBDA s :
    IF s.v.is = "immediate"
    THEN IF Truth(s.v.value) = on THEN EmitJump(s) ELSE [s EXCEPT !.list = {}]
    ELSE After(ValueToAnyReg(s), LAMBDA h :
         Free(EmitJump(Emit(h, "TEST", h.v.reg, 0, Bool(on))), h.v)))
Jumps(g, e, on) ==
    CASE e.is = "paren" -> Jumps(g, e.of, on)
      [] e.is = "not" -> Jumps(g, e.of, ~on)
      [] e.is = "eq" -> EqJump(g, e, on)
      [] e.is \in {"and", "or"} ->                   \* "or" is over where the left side is true
            After(Jumps(g, e.left, e.is = "or"), LAMBDA l :
            After(Jumps(l, e.right, on), LAMBDA r :
            IF (e.is = "or") = on THEN [r EXCEPT !.list = @ \cup l.list] ELSE PatchHere(r, l.list)))
      [] OTHER -> TestJump(g, e, on)

AndOr(g, e) ==                                               \* emit_value_binary
    After(ForceSingleValue(Value(g, e.left)), LAMBDA l :
    After(IF l.v.is = "register" /\ l.v.owns THEN l
          ELSE With(MaterializeValue(Alloc(l), l.freereg), Register(l.freereg, TRUE)), LAMBDA h :
    After(EmitJump(Emit(h, "TEST", h.v.reg, 0, Bool(e.is = "or"))), LAMBDA j :
    With(PatchHere(ValueTo(j, e.right, h.v.reg), j.list), h.v))))
Boolean(g, e) ==                                             \* through the jump lists
    After(Jumps(g, e, TRUE), LAMBDA j :
    With(MaterializeCondResult(Alloc(j), j.freereg), Register(j.freereg, TRUE)))

Value(g, e) ==
    CASE e.is = "constant" -> With(g, Immediate(e.value))
      [] e.is = "name" -> After(FindLocalVar(g, e.name), LAMBDA r :
                          With(g, IF r < 0 THEN Pending(e.name) ELSE Register(r, FALSE)))
      [] e.is = "paren" -> After(ForceSingleValue(Value(g, e.of)), LAMBDA h :
                           IF h.v.is = "immediate" THEN h
                           ELSE [ValueToAnyReg(h) EXCEPT !.v.owns = TRUE])
      [] e.is = "call" -> After(EmitCall(g, e, -1), LAMBDA h : With(h, MultiRet(Label(h) - 1)))
      [] e.is = "function" -> With(Closure(Alloc(g), e.uses, g.freereg), Register(g.freereg, TRUE))
      [] e.is \in {"and", "or"} -> IF ProducesBoolean(e) THEN Boolean(g, e) ELSE AndOr(g, e)
      [] OTHER -> Boolean(g, e)

(* emit_call_expr: the CALL is the last instruction; target < 0: no register asked for *)
EmitCall(g, e, target) ==
    LET open == e.args # <<>> /\ Last(e.args).is = "call"
        Base(f, h) ==
            LET disposable == (f.is = "register" => f.owns) /\ h.v.reg = h.freereg - 1
            IN  CASE target >= 0 -> target
                  [] target < 0 /\ h.v.reg < h.freereg /\ ~disposable -> h.freereg
                  [] OTHER -> h.v.reg
    IN  After(Value(g, e.func), LAMBDA f :
        After(ValueToAnyReg(f), LAMBDA h :
        After(Base(f.v, h), LAMBDA base :
        SetFree(Emit(Arguments(SetFree(MoveTo(h, base, h.v.reg), base + 1), e.args, base + 1),
                     "CALL", base, IF open THEN 0 ELSE Len(e.args) + 1, 2),
                Max({h.freereg, base + 1})))))
Arguments(g, es, r) ==
    IF es = <<>> THEN g
    ELSE Arguments(EnsureFree(
             IF Len(es) = 1 /\ es[1].is = "call"
             THEN After(EmitCall(g, es[1], r), LAMBDA c : SetOpenMultiRet(c, Label(c) - 1))
             ELSE ValueTo(g, es[1], r), r + 1), Tail(es), r + 1)

-----------------------------------------------------------------------------
(* Statements. *)

(* collect_stmt_reads: the names that code reads, also inside functions *)
RECURSIVE ExprReads(_), StmtReads(_), ListReads(_)
ExprReads(e) ==
    CASE e.is = "constant" -> {}
      [] e.is = "name" -> {e.name}
      [] e.is = "function" -> {e.uses}
      [] e.is \in {"not", "paren"} -> ExprReads(e.of)
      [] e.is = "call" -> ExprReads(e.func) \cup UNION {ExprReads(e.args[i]) : i \in DOMAIN e.args}
      [] OTHER -> ExprReads(e.left) \cup ExprReads(e.right)
StmtReads(e) ==
    CASE e.is \in {"local", "assign", "return"} -> UNION {ExprReads(e.values[i]) : i \in DOMAIN e.values}
      [] e.is = "localfunction" -> {e.uses}
      [] e.is = "call" -> ExprReads(e)
      [] e.is \in {"do", "fornum"} -> ListReads(e.body)
      [] e.is \in {"while", "repeat"} -> ExprReads(e.cond) \cup ListReads(e.body)
      [] e.is = "forin" -> ListReads(e.body) \cup UNION {ExprReads(e.values[i]) : i \in DOMAIN e.values}
      [] e.is = "if" -> ListReads(e.else) \cup UNION
            {ExprReads(e.branches[i].cond) \cup ListReads(e.branches[i].body) : i \in DOMAIN e.branches}
      [] e.is = "break" -> {}
ListReads(body) == UNION {StmtReads(body[i]) : i \in DOMAIN body}

RECURSIVE Statement(_, _), EmitList(_, _), Branches(_, _, _, _), ValuesTo(_, _, _)

EmitList(g, body) ==            \* the bound on g, always true, has TLC evaluate g in this place
    IF g.freereg >= g.active /\ body # <<>>
    THEN EmitList(ResetToLocals(Statement([g EXCEPT !.reads = ListReads(Tail(body))],
                                          Head(body))), Tail(body))
    ELSE g
EmitBlock(g, body) == [RemoveLocalVars(EmitList(g, body), g.active) EXCEPT !.reads = g.reads]
ScopedBlock(g, body) == LeaveBlock(EmitBlock(EnterBlock(g, FALSE), body))

(* the values es in the registers from r on *)
ValuesTo(g, es, r) ==
    IF es = <<>> THEN g
    ELSE ValuesTo(EnsureFree(ValueTo(g, es[1], r), r + 1), Tail(es), r + 1)
NilsTo(g, lo, hi) == IF hi < lo THEN g ELSE Emit(g, "LOADNIL", lo, hi, 0)
MoveRange(g, dst, src, n) ==
    FoldLeft(LAMBDA h, k : MoveTo(h, dst + k - 1, src + k - 1), g,
             IF dst < src THEN [k \in 1..n |-> k] ELSE Reverse([k \in 1..n |-> k]))
CallTo(g, e, r, n) ==                          \* n results from register r on
    After(EmitCall(g, e, r), LAMBDA h : EnsureFree(SetWantedResults(h, Label(h) - 1, n), r + n))

(* the values of a local statement, in registers from the first free one on *)
LocalCall(g, call, r, n) ==                        \* n values of a call, moved to r
    After(EmitCall(g, call, -1), LAMBDA h :
    MoveRange(SetWantedResults(h, Label(h) - 1, n), r, Last(h.code).a, n))
LocalValues(g, e) ==
    LET n == Len(e.names)
        m == Len(e.values)
        base == g.active
        unread == /\ ~g.forcenil
                  /\ g.code = <<>> \/ Range(e.names) \cap g.reads = {}
    IN  CASE \A i \in 1..m : e.values[i] = Const(Nil) ->
                IF m = 0 /\ unread THEN g ELSE NilsTo(g, base, base + n - 1)
          [] m > n -> ValuesTo(g, SubSeq(e.values, 1, n), base)
          [] OTHER -> IF Last(e.values).is = "call"
                      THEN LocalCall(ValuesTo(g, Front(e.values), base), Last(e.values),
                                     base + m - 1, n - m + 1)
                      ELSE NilsTo(ValuesTo(g, e.values, base), base + m, base + n - 1)
EmitLocal(g, e) ==
    AdjustLocalVars(AddLocalVars(SetFree(LocalValues(SetFree(g, g.active), e), g.active), e.names),
                    Len(e.names))

EmitLocalFunction(g, e) ==
    AdjustLocalVars(Closure(AddLocalVar(g, e.name), e.uses, g.freereg), 1)

Store(g, x, v) ==                                            \* emit_store
    IF FindLocalVar(g, x) >= 0 THEN MaterializeValue(With(g, v), FindLocalVar(g, x))
    ELSE After(ValueToAnyReg(With(g, v)), LAMBDA h : Emit(h, "SETGLOBAL", h.v.reg, x, 0))

(* assignments between local variables alone *)
LocalMoves(g, e) == [i \in DOMAIN e.targets |->
    [to |-> FindLocalVar(g, e.targets[i]),
     from |-> IF e.values[i].is = "name" THEN FindLocalVar(g, e.values[i].name) ELSE -1]]
AreLocalMoves(g, e) ==
    /\ Len(e.targets) = Len(e.values)
    /\ \A i \in DOMAIN e.targets : LocalMoves(g, e)[i].to >= 0 /\ LocalMoves(g, e)[i].from >= 0
IsSwap(moves) == /\ Len(moves) = 2 /\ moves[1].to # moves[1].from
                 /\ moves[1].to = moves[2].from /\ moves[2].to = moves[1].from
Independent(moves) == \A i, j \in DOMAIN moves : i < j => moves[i].to # moves[j].from
EmitMoves(g, moves) == FoldLeft(LAMBDA h, m : MoveTo(h, m.to, m.from), g, moves)

(* one value of a general assignment; vs collects what is to be stored *)
AssignValue(s, e, i, base) ==
    LET values == Len(e.values)
        targets == Len(e.targets)
        Borrowed(h) == /\ i = Min({targets, values}) /\ e.values[i].is = "name"
                       /\ FindLocalVar(h, e.values[i].name) >= 0
        r == base + i - 1
    IN  After(ForceSingleValue(Value(SetFree(s.g, r), e.values[i])), LAMBDA h :
        IF Max({targets, values}) > 1 /\ ~Borrowed(h)
        THEN [g |-> SetFree(MaterializeValue(h, r), r + 1), vs |-> Append(s.vs, Register(r, FALSE))]
        ELSE [g |-> SetFree(h, r + 1), vs |-> Append(s.vs, h.v)])
DropValue(g, e, r) ==                                        \* a value without a target
    SetFree(IF e.is = "call" THEN CallTo(SetFree(g, r), e, r, 0) ELSE ValueTo(SetFree(g, r), e, r), r)

EmitGeneralAssign(g, e) ==
    LET n == Len(e.targets)
        m == Len(e.values)
        base == g.freereg
        open == m <= n /\ e.values[m].is = "call"
        direct == IF open THEN m - 1 ELSE Min({m, n})
        Stored(vs, i) == CASE i <= direct -> vs[i]
                           [] i > direct /\ open -> Register(base + i - 1, FALSE)
                           [] OTHER -> Immediate(Nil)
    IN  After(FoldLeft(LAMBDA t, i : AssignValue(t, e, i, base), [g |-> g, vs |-> <<>>],
                       [i \in 1..direct |-> i]), LAMBDA s :
        FoldLeft(LAMBDA t, i : Store(t, e.targets[i], Stored(s.vs, i)),
                 IF open THEN CallTo(s.g, e.values[m], base + m - 1, n - m + 1)
                 ELSE FoldLeft(LAMBDA t, x : DropValue(t, x, base + n), s.g, SubSeq(e.values, n + 1, m)),
                 Reverse([i \in 1..n |-> i])))

EmitAssign(g, e) ==
    IF AreLocalMoves(g, e)
    THEN LET moves == LocalMoves(g, e)
             temp == g.freereg
         IN  CASE IsSwap(moves) -> [MoveTo(MoveTo(MoveTo(Alloc(g), temp, moves[1].from),
                                                  moves[1].to, moves[2].from),
                                           moves[2].to, temp) EXCEPT !.freereg = temp]
               [] \A i \in DOMAIN moves : moves[i].to = moves[i].from -> g
               [] OTHER -> IF Independent(moves) THEN EmitMoves(g, moves) ELSE EmitGeneralAssign(g, e)
    ELSE EmitGeneralAssign(g, e)

Branches(g, e, i, exits) ==
    IF i > Len(e.branches)
    THEN PatchHere(IF e.else = <<>> THEN g ELSE ScopedBlock(g, e.else), exits)
    ELSE After(Jumps(g, e.branches[i].cond, FALSE), LAMBDA c :
         After(ScopedBlock(c, e.branches[i].body), LAMBDA h :
         After(IF i < Len(e.branches) \/ e.else # <<>> THEN EmitJump(h) ELSE [h EXCEPT !.list = {}],
               LAMBDA j : Branches(PatchHere(j, c.list), e, i + 1, exits \cup j.list))))

JumpBack(g, target) == Emit(g, "JMP", 0, target, 0)
EmitWhile(g, e) ==
    After(Jumps(EnterBlock(g, TRUE), e.cond, FALSE), LAMBDA c :
    LeaveBlock(PatchHere(JumpBack(EmitBlock(c, e.body), Label(g)), c.list)))

RepeatUntil(g, cond, level, start) ==
    IF cond = Const(True) THEN RemoveLocalVars(g, level)
    ELSE After(ValueToAnyReg(Value(g, IF cond = Const(Nil) THEN Const(False) ELSE cond)), LAMBDA c :
         JumpBack(Emit(RemoveLocalVars(c, level), "TEST", c.v.reg, 0, False), start))
EmitRepeat(g, e) ==
    LeaveBlock(RepeatUntil(
        [EmitList([EnterBlock(g, TRUE) EXCEPT !.forcenil = TRUE], e.body) EXCEPT !.forcenil = g.forcenil],
        e.cond, g.active, Label(g)))

ControlVars(g, base, hidden, names) ==
    AdjustLocalVars(AddLocalVars(SetFree(EnterBlock(g, TRUE), base), hidden \o names),
                    Len(hidden) + Len(names))

EmitForNum(g, e) ==
    LET base == g.active
        Control(h) == ControlVars(ValuesTo(SetFree(h, base), <<Const(e.first), Const(e.last), Const(1)>>, base),
                                  base, <<"(for index)", "(for limit)", "(for step)">>, <<e.var>>)
        Body(h) == IF e.body = <<>> THEN h ELSE EmitClose(EmitBlock(h, e.body), base + 3)
    IN  After(Control(g), LAMBDA s :
        After(Body(Emit(s, "FORPREP", base, NoJump, 0)), LAMBDA b :
        LeaveBlock(FixJump(Emit(b, "FORLOOP", base, Label(s) + 1, 0), Label(s), Label(b)))))

ForInValues(g, es, base) ==
    LET m == Len(es)
    IN  IF Last(es).is = "call" THEN CallTo(ValuesTo(g, Front(es), base), Last(es), base + m - 1, 4 - m)
        ELSE FoldLeft(LAMBDA h, r : Emit(h, "LOADNIL", r, r, 0), ValuesTo(g, es, base),
                      [i \in 1..(3 - m) |-> base + m + i - 1])
EmitForIn(g, e) ==
    LET base == g.active
    IN  After(EmitJump(ControlVars(ForInValues(SetFree(g, base), e.values, base), base,
                       <<"(for generator)", "(for state)", "(for control)">>, e.names)), LAMBDA s :
        LeaveBlock(JumpBack(
            Emit(PatchHere(EmitClose(EmitBlock(s, e.body), base + 3), s.list),
                 "TFORLOOP", base, 0, Len(e.names)), Label(s))))

EmitReturn(g, e) ==
    LET n == Len(e.values)
        first == g.active
        r(i) == IF e.values[i].is = "name" THEN FindLocalVar(g, e.values[i].name) ELSE -1
        Tailed(h) == [h EXCEPT !.code[Label(h)].op = "TAILCALL", !.code[Label(h)].c = 0]
        Open(h) == IF n = 1 THEN Tailed(h) ELSE SetOpenMultiRet(h, Label(h) - 1)
    IN  CASE n = 0 -> Emit(g, "RETURN", 0, 1, 0)
          [] n > 0 /\ \A i \in 1..n : r(i) >= 0 /\ r(i) = r(1) + i - 1 -> Emit(g, "RETURN", r(1), n + 1, 0)
          [] OTHER -> IF Last(e.values).is = "call"
                      THEN Emit(After(EmitCall(ValuesTo(SetFree(g, first), Front(e.values), first),
                                               Last(e.values), first + n - 1), Open),
                                "RETURN", first, 0, 0)
                      ELSE Emit(ValuesTo(SetFree(g, first), e.values, first), "RETURN", first, n + 1, 0)

EmitBreak(g) ==
    After(EmitJump(CloseScopeUpvalues(g, g.blocks[Breakable(g)].level)), LAMBDA j :
    [j EXCEPT !.blocks[Breakable(g)].breaks = @ \cup j.list])

Statement(g, e) ==
    CASE e.is = "local" -> EmitLocal(g, e)
      [] e.is = "localfunction" -> EmitLocalFunction(g, e)
      [] e.is = "assign" -> EmitAssign(g, e)
      [] e.is = "call" -> After(EmitCall(g, e, -1), LAMBDA h : SetWantedResults(h, Label(h) - 1, 0))
      [] e.is = "do" -> ScopedBlock(g, e.body)
      [] e.is = "if" -> Branches(g, e, 1, {})
      [] e.is = "while" -> EmitWhile(g, e)
      [] e.is = "repeat" -> EmitRepeat(g, e)
      [] e.is = "fornum" -> EmitForNum(g, e)
      [] e.is = "forin" -> EmitForIn(g, e)
      [] e.is = "return" -> EmitReturn(g, e)
      [] e.is = "break" -> EmitBreak(g)

(* generate: the chunk with its final RETURN *)
Generate(program) ==
    After(Emit(RemoveLocalVars(EmitBlock(Generator, program), 0), "RETURN", 0, 1, 0), LAMBDA g :
    [code |-> g.code, room |-> Max({g.maxused, 2})])
=============================================================================
