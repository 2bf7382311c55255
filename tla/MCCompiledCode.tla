--------------------------- MODULE MCCompiledCode ---------------------------
(***************************************************************************)
(* Families of programs for CompiledCode.  They ask the function f and     *)
(* give closures of their variable x away.  Forms whose evaluation order   *)
(* Lua leaves open are left out, and so are those whose code is known to   *)
(* deviate (README, findings); Exchanges has one of these.                 *)
(***************************************************************************)
EXTENDS CompiledCode

x == Name("x")
y == Name("y")
z == Name("z")
f == Name("f")
Get == Call(f, <<>>)                                                 \* f()
Use(e) == Call(f, <<e>>)                                             \* f(e)
Give == Use(Function("x"))               \* f(function ... x ... end)
OnlyIf(c, body) == If(<<When(c, body)>>, <<>>)
ListsOf(S, n) == SeqOf(S, n) \ {<<>>}

(* conditions of up to three parts, as a condition and as a value *)
Atoms == {x, Get, Const(Nil), Const(True), Eq(x, Const(1)), Not(y)}
Conditions == Atoms \cup UNION {
    {And(p, q), Or(p, q), And(Or(x, p), q), Or(And(x, p), q), And(Get, Or(p, q)),
     Not(Paren(Or(Get, And(x, p))))} : p, q \in Atoms}
Conditional(c) == <<Local(<<"x", "y">>, <<Get>>),
                    If(<<When(c, <<Use(x)>>)>>, <<Use(y)>>), Local(<<"z">>, <<c>>),
                    Call(f, <<z, c>>)>>
CondPrograms == {Conditional(c) : c \in Conditions}

(* loops around bodies of up to three statements *)
Steps == {Local(<<"x">>, <<Get>>), Give, Assign(<<"x">>, <<Use(x)>>), Use(x),
          OnlyIf(Get, <<Break>>), OnlyIf(x, <<Local(<<"x">>, <<Const(1)>>), Give>>),
          Do(<<Local(<<"y", "x">>, <<Get>>), Give, OnlyIf(y, <<Break>>)>>)}
Loops(body) == {While(Get, body), Repeat(body, x), ForNum("x", 1, 2, body),
                ForIn(<<"y", "x">>, <<Get>>, body)}
LoopPrograms == {<<Local(<<"x">>, <<Const(1)>>), loop, Use(x)>> :
                    loop \in UNION {Loops(body) : body \in ListsOf(Steps, 3)}}

(* results returned out of loops, and loops in loops *)
Nests(s, t) == {<<s, OnlyIf(Get, <<Return(<<Use(x), x>>)>>), t>>,
                <<s, While(Get, <<t, OnlyIf(x, <<Break>>)>>), Give>>,
                <<Local(<<"x">>, <<>>), s, Repeat(<<Local(<<"x">>, <<>>), t>>, x), Give>>}
NestPrograms == {<<Local(<<"x">>, <<Const(1)>>), loop, Return(<<>>)>> :
    loop \in UNION {Loops(body) : body \in UNION {Nests(s, t) : s, t \in Steps}}}

(* lists of values: in assignments, declarations, calls and results *)
Values == {x, y, Name("g"), Const(1), Const(Nil), Get, Or(x, Get)}
Targets == {"x", "y", "g"}
Filled(ts, vs) == {ts[i] : i \in (Len(vs) + 1)..Len(ts)}              \* with nil
Exchange(ts, vs) == \E t, u \in Targets \ Globals : ts = <<t, u>> /\ vs = <<Name(u), Name(t)>>
Assignments == {l \in ListsOf(Targets, 3) \X ListsOf(Values, 2) :
                    /\ IsInjective(l[1])
                    /\ \A n \in Filled(l[1], l[2]) : Last(l[2]) # Name(n)
                    /\ ~ Exchange(l[1], l[2])
                    /\ Len(l[2]) > Len(l[1]) => l[2][Len(l[1])] \notin {x, y}}
Straight(ts, vs) == {
    <<Local(<<"x", "y">>, <<Get>>), Assign(ts, vs), Call(f, <<x, y, Name("g")>>)>>,
    <<Local(<<"x", "y">>, <<Get>>), Give, Assign(ts, vs), Call(f, vs), Return(vs)>>,
    <<Local(<<"y", "x">>, <<Get>>),
      Do(<<Local(ts, SubSeq(vs, 1, Min({Len(ts), Len(vs)}))), Give, Assign(<<"y">>, <<x>>)>>), Return(<<y, x>>)>>}
ListPrograms == UNION {Straight(l[1], l[2]) : l \in Assignments}

(* calls in each position of a call or a result, and functions of the program *)
Lists == {<<>>, <<y>>, <<Get, x>>, <<x, Get>>, <<Use(Get)>>, <<And(x, Get), Const(1)>>}
CallPrograms ==
    {<<Local(<<"y", "x">>, <<Get>>), Local(<<"z">>, <<Call(c, a)>>),
       Call(z, b), Return(<<Call(c, b)>>)>> : c \in {f, x, Get}, a, b \in Lists}
    \cup {<<Local(<<"y">>, <<Get>>), LocalFunction("x", n), Call(x, a),
            If(<<When(Get, <<Return(<<y, x>>)>>), When(y, <<Use(y)>>)>>, <<Use(x)>>),
            Give, Return(<<Const(1), Call(x, a)>>)>> : n \in {"x", "y"}, a \in Lists}

AllPrograms == CondPrograms \cup LoopPrograms \cup NestPrograms \cup ListPrograms \cup CallPrograms
Exchanges == {<<Local(<<"x", "y">>, <<Get>>), Assign(<<"x", "y">>, <<y, x>>), Call(f, <<x, y>>)>>}
SomeAnswers == {<<>>, <<1, 2>>}
=============================================================================
