----------------------------- MODULE LuaProgram -----------------------------
(***************************************************************************)
(* Small Lua programs as syntax trees, and what they mean.  Functions      *)
(* outside of the program answer its calls: a list of inputs says what     *)
(* each of them returns and which captured variable it has changed in      *)
(* between, through a closure the program has given away.  The meaning of  *)
(* a program is what it asks next, after the calls that were answered.     *)
(***************************************************************************)
EXTENDS Integers, SequencesExt

CONSTANTS
    Nil, False, True, Fun,     \* values; numbers are integers
    Globals,                   \* names that are not local to the program
    Returning                  \* the last event of a program

-----------------------------------------------------------------------------
(* Syntax. *)

Const(v) == [is |-> "constant", value |-> v]
Name(x) == [is |-> "name", name |-> x]
Call(f, args) == [is |-> "call", func |-> f, args |-> args]
Function(x) == [is |-> "function", uses |-> x]
Not(e) == [is |-> "not", of |-> e]
Paren(e) == [is |-> "paren", of |-> e]
And(l, r) == [is |-> "and", left |-> l, right |-> r]
Or(l, r) == [is |-> "or", left |-> l, right |-> r]
Eq(l, r) == [is |-> "eq", left |-> l, right |-> r]

Local(names, values) == [is |-> "local", names |-> names, values |-> values]
LocalFunction(x, y) == [is |-> "localfunction", name |-> x, uses |-> y]
Assign(targets, values) == [is |-> "assign", targets |-> targets, values |-> values]
Do(body) == [is |-> "do", body |-> body]
If(branches, else) == [is |-> "if", branches |-> branches, else |-> else]
When(c, body) == [cond |-> c, body |-> body]
While(c, body) == [is |-> "while", cond |-> c, body |-> body]
Repeat(body, c) == [is |-> "repeat", cond |-> c, body |-> body]
ForNum(x, first, last, body) ==
    [is |-> "fornum", var |-> x, first |-> first, last |-> last, body |-> body]
ForIn(names, values, body) == [is |-> "forin", names |-> names, values |-> values, body |-> body]
Return(values) == [is |-> "return", values |-> values]
Break == [is |-> "break"]

-----------------------------------------------------------------------------
(* Meaning.  env: the variables in scope with their places in the store;
   out: "go", or why the program does not: "break", "return" or "ask". *)

Truth(v) == v \notin {Nil, False}
Bool(b) == IF b THEN True ELSE False
Fit(vs, n) == [i \in 1..n |-> IF i <= Len(vs) THEN vs[i] ELSE Nil]
First(vs) == Fit(vs, 1)

Input(answer, closure, value) == [answer |-> answer, closure |-> closure, value |-> value]
Question(callee, args) == [callee |-> callee, args |-> args]

Start(inputs) ==
    [env |-> <<>>, store |-> <<>>, closures |-> <<>>, inputs |-> inputs, out |-> "go",
     globals |-> [x \in Globals |-> Fun], vals |-> <<>>, event |-> Question(Nil, <<>>)]

Ask(s, callee, args) ==
    IF s.inputs = <<>> THEN [s EXCEPT !.out = "ask", !.event = Question(callee, args)]
    ELSE LET i == Head(s.inputs)
         IN  [s EXCEPT !.inputs = Tail(@), !.vals = i.answer,
                       !.store = IF i.closure = 0 THEN @
                                 ELSE [@ EXCEPT ![s.closures[i.closure]] = i.value]]

Place(s, x) == LET is == {i \in DOMAIN s.env : s.env[i].name = x}
               IN  IF is = {} THEN 0 ELSE s.env[Max(is)].at
Read(s, x) == IF Place(s, x) = 0 THEN s.globals[x] ELSE s.store[Place(s, x)]
Write(s, x, v) == IF Place(s, x) = 0 THEN [s EXCEPT !.globals[x] = v]
                  ELSE [s EXCEPT !.store[Place(s, x)] = v]
Declare(s, names, vs) ==
    [s EXCEPT !.store = @ \o Fit(vs, Len(names)),
              !.env = @ \o [i \in DOMAIN names |-> [name |-> names[i], at |-> Len(s.store) + i]]]
Closed(s, x) == [s EXCEPT !.closures = IF Place(s, x) = 0 THEN @ ELSE Append(@, Place(s, x)),
                          !.vals = <<Fun>>]

(* what F makes of s, unless the program has stopped *)
Then(s, F(_)) == IF s.out = "go" THEN F(s) ELSE s

RECURSIVE Eval(_, _), EvalList(_, _), Exec(_, _), ExecList(_, _), Branch(_, _, _),
          WhileLoop(_, _), RepeatLoop(_, _), Count(_, _, _), Iterate(_, _, _)

Eval(s, e) ==
    CASE s.out # "go" -> s
      [] e.is = "constant" -> [s EXCEPT !.vals = <<e.value>>]
      [] e.is = "name" -> [s EXCEPT !.vals = <<Read(s, e.name)>>]
      [] e.is = "function" -> Closed(s, e.uses)
      [] e.is = "paren" -> [Eval(s, e.of) EXCEPT !.vals = First(@)]
      [] e.is = "not" -> [Eval(s, e.of) EXCEPT !.vals = <<Bool(~ Truth(First(@)[1]))>>]
      [] e.is = "call" -> Then(Eval(s, e.func), LAMBDA f :
                          Then(EvalList(f, e.args), LAMBDA a : Ask(a, First(f.vals)[1], a.vals)))
      [] e.is = "eq" -> Then(EvalList(s, <<Paren(e.left), Paren(e.right)>>), LAMBDA t :
                        [t EXCEPT !.vals = <<Bool(@[1] = @[2])>>])
      [] OTHER -> Then(Eval(s, Paren(e.left)), LAMBDA l :         \* and, or
                  IF Truth(l.vals[1]) = (e.is = "or") THEN l ELSE Eval(l, Paren(e.right)))

EvalList(s, es) ==
    IF es = <<>> THEN [s EXCEPT !.vals = <<>>]
    ELSE Then(Eval(s, Head(es)), LAMBDA h :
         IF Len(es) = 1 THEN h
         ELSE [EvalList(h, Tail(es)) EXCEPT !.vals = First(h.vals) \o @])

(* a statement list with the variables it declares, and as a block *)
ExecList(s, body) ==
    IF body = <<>> THEN s ELSE Then(Exec(s, Head(body)), LAMBDA t : ExecList(t, Tail(body)))
Block(s, body) == [ExecList(s, body) EXCEPT !.env = s.env]
Left(s) == IF s.out = "break" THEN [s EXCEPT !.out = "go"] ELSE s

Branch(s, branches, else) ==
    IF branches = <<>> THEN Block(s, else)
    ELSE Then(Eval(s, Paren(branches[1].cond)), LAMBDA c :
         IF Truth(c.vals[1]) THEN Block(c, branches[1].body) ELSE Branch(c, Tail(branches), else))

WhileLoop(s, e) ==
    Then(Eval(s, Paren(e.cond)), LAMBDA c :
    IF Truth(c.vals[1]) THEN Then(Block(c, e.body), LAMBDA t : WhileLoop(t, e)) ELSE c)
RepeatLoop(s, e) ==                          \* the condition sees the variables of the body
    Then([Eval(ExecList(s, e.body), Paren(e.cond)) EXCEPT !.env = s.env], LAMBDA t :
    IF Truth(t.vals[1]) THEN t ELSE RepeatLoop(t, e))
Count(s, e, i) ==
    IF i > e.last THEN s
    ELSE Then([Block(Declare(s, <<e.var>>, <<i>>), e.body) EXCEPT !.env = s.env], LAMBDA t :
         Count(t, e, i + 1))
Iterate(s, e, control) ==                    \* control: iterator, state, control variable
    Then(Ask(s, control[1], <<control[2], control[3]>>), LAMBDA t :
    IF First(t.vals)[1] = Nil THEN t
    ELSE Then([Block(Declare(t, e.names, t.vals), e.body) EXCEPT !.env = s.env], LAMBDA u :
         Iterate(u, e, [control EXCEPT ![3] = t.vals[1]])))

RECURSIVE AssignFrom(_, _, _)
AssignFrom(s, xs, vs) ==                                    \* the last target first
    IF xs = <<>> THEN s
    ELSE AssignFrom(Write(s, Last(xs), vs[Len(xs)]), Front(xs), vs)

Exec(s, e) ==
    CASE e.is = "local" -> Then(EvalList(s, e.values), LAMBDA t : Declare(t, e.names, t.vals))
      [] e.is = "localfunction" -> Closed(Declare(s, <<e.name>>, <<Fun>>), e.uses)
      [] e.is = "assign" -> Then(EvalList(s, e.values), LAMBDA t :
                            AssignFrom(t, e.targets, Fit(t.vals, Len(e.targets))))
      [] e.is = "call" -> Eval(s, e)
      [] e.is = "do" -> Block(s, e.body)
      [] e.is = "if" -> Branch(s, e.branches, e.else)
      [] e.is = "while" -> Left(WhileLoop(s, e))
      [] e.is = "repeat" -> Left(RepeatLoop(s, e))
      [] e.is = "fornum" -> Left(Count(s, e, e.first))
      [] e.is = "forin" -> Then(EvalList(s, e.values), LAMBDA t :
                           Left(Iterate(t, e, Fit(t.vals, 3))))
      [] e.is = "return" -> Then(EvalList(s, e.values), LAMBDA t : [t EXCEPT !.out = "return"])
      [] e.is = "break" -> [s EXCEPT !.out = "break"]

(* what the program does after these inputs: its next question or its result *)
Observed(s) ==
    [event |-> CASE s.out = "go" -> Question(Returning, <<>>)
                 [] s.out = "return" -> Question(Returning, s.vals)
                 [] s.out = "ask" -> s.event,
     captured |-> [i \in DOMAIN s.closures |-> s.store[s.closures[i]]],
     globals |-> s.globals]
Meaning(program, inputs) == Observed(Block(Start(inputs), program))
=============================================================================
