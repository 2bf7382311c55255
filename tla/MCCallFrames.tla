---------------------------- MODULE MCCallFrames ----------------------------
(* Small instances of CallFrames for TLC: compiled functions that between them
   use every form of call, and the values natives pass. *)
EXTENDS CallFrames, TLC

CONSTANTS nested, loop, sets, rest

Op(op, a, b, c) == Instruction(op, a, b, c)

(* local x = t; local f = function() ... x ... end; local a = f(f(...)); return a() *)
Nested == <<Op("LOADK", 1, Obj, 0), Op("CLOSURE", 2, 1, 0), Op("MOVE", 3, 2, 0),
            Op("MOVE", 4, 2, 0), Op("VARARG", 5, 0, 0), Op("CALL", 4, 0, 0),
            Op("CALL", 3, 0, 2), Op("MOVE", 4, 3, 0), Op("TAILCALL", 4, 1, 0),
            Op("RETURN", 4, 0, 0)>>
(* local w = f
   for v in w, t do
     local g = function() ... v ... end; if c then g() end
     local h = function() ... w ... end; local l = {v()}
   end *)
Loop == <<Op("LOADK", 1, Fun, 0),
          Op("MOVE", 2, 1, 0), Op("LOADK", 3, Obj, 0), Op("LOADK", 4, Nil, 0),
          Op("JMP", 0, 17, 0),
          Op("CLOSURE", 6, 5, 0), Op("TEST", 0, 0, 0), Op("JMP", 0, 11, 0),
          Op("MOVE", 7, 6, 0), Op("CALL", 7, 1, 1),
          Op("CLOSURE", 7, 1, 0), Op("LOADK", 8, Obj, 0), Op("MOVE", 9, 5, 0),
          Op("CALL", 9, 1, 0), Op("SETLIST", 8, 0, 0), Op("CLOSE", 5, 0, 0),
          Op("TFORLOOP", 2, 0, 1), Op("JMP", 0, 6, 0), Op("RETURN", 1, 1, 0)>>
(* function(p) local g = function() ... p ... end; up = p; p(); return g, up end *)
Sets == <<Op("CLOSURE", 2, 1, 0), Op("SETUPVAL", 0, 1, 0),
          Op("MOVE", 3, 1, 0), Op("CALL", 3, 1, 1), Op("GETUPVAL", 3, 0, 0),
          Op("RETURN", 2, 3, 0)>>
(* function(p, ...) return p(...) end *)
Rest == <<Op("MOVE", 2, 1, 0), Op("VARARG", 3, 0, 0), Op("TAILCALL", 2, 0, 0),
          Op("RETURN", 2, 0, 0)>>

MainChunks == {nested, loop}
AllFunctions == {sets, rest}
WithDots == {nested, loop, rest}
Bodies == (nested :> Nested) @@ (loop :> Loop) @@ (sets :> Sets) @@ (rest :> Rest)
Parameters == (nested :> 0) @@ (loop :> 0) @@ (sets :> 1) @@ (rest :> 1)
Registers == (nested :> 5) @@ (loop :> 9) @@ (sets :> 3) @@ (rest :> 3)
PassedLists == {<<>>, <<Fun, Nil>>}

(* The registers that are live, and those that may be captured, before each of
   their instructions: the functions are of the form that the proof asks for. *)
LiveRegisters ==
    (nested :> <<0, 1, 2, 3, 4, 4, 3, 3, 4, 3>>)
    @@ (loop :> <<0, 1, 2, 3, 4, 5, 6, 6, 6, 7, 6, 7, 8, 9, 8, 8, 4, 5, 4>>)
    @@ (sets :> <<1, 2, 2, 3, 2, 3>>) @@ (rest :> <<1, 2, 2, 1>>)
HeldRegisters ==
    (nested :> [pc \in DOMAIN Nested |-> IF pc < 3 THEN {} ELSE {1}])
    @@ (loop :> [pc \in DOMAIN Loop |-> IF pc < 6 THEN {}
                                            ELSE IF pc \in 7..16 THEN {1, 5} ELSE {1}])
    @@ (sets :> [pc \in DOMAIN Sets |-> IF pc < 2 THEN {} ELSE {1}])
    @@ (rest :> [pc \in DOMAIN Rest |-> {}])
ASSUME CompiledFunctions == Compiled(LiveRegisters, HeldRegisters)
=============================================================================
