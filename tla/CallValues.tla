----------------------------- MODULE CallValues -----------------------------
(* Values, prototypes and value lists of the calling convention, shared by   *)
(* Activations and CallFrames.                                               *)
EXTENDS Integers, Sequences

CONSTANTS
    Functions,     \* prototypes of functions
    Chunks,        \* prototypes of main chunks: no parameters, "..."
    Params,        \* [Protos -> Nat]: fixed parameters
    Variadic,      \* the prototypes declared with "..."
    Room,          \* [Protos -> Nat]: registers the compiler reserved
    Code,          \* [Protos -> Seq of instructions]
    Upvalues,      \* identities of captured variables
    Nil, Fun, Obj, \* nil, a function value, a table with a __call handler
    Lists          \* the lists that natives return and that start and resume a thread

Protos == Functions \cup Chunks
Value == {Nil, Fun, Obj}

(* One instruction of a compiled function: registers count from 1; b and c
   hold a count plus one, 0 stands for "up to the top".  The code names a
   constant (LOADK) or a target (JMP) in b. *)
Instruction(op, a, b, c) == [op |-> op, a |-> a, b |-> b, c |-> c]

(* Past the last instruction a function returns no values.  (The compiler ends
   every function with a RETURN, so that execution does not come there.) *)
InstructionAt(p, pc) == IF pc \in DOMAIN Code[p] THEN Code[p][pc]
                        ELSE Instruction("RETURN", 1, 1, 0)

ASSUME ProtoAssumption ==
    /\ Nil \notin Protos /\ Nil # Fun /\ Nil # Obj /\ Fun # Obj
    /\ Chunks \subseteq Variadic /\ Variadic \subseteq Protos
    /\ Params \in [Protos -> Nat] /\ Room \in [Protos -> Nat]
    /\ \A p \in Protos : Params[p] <= Room[p]
    /\ \A p \in Chunks : Params[p] = 0
    /\ Lists \subseteq Seq(Value)

MultRet == -1                       \* "as many results as there are"

(* the list vs cut or filled with nil to n values *)
Adjust(vs, n) ==
    [i \in 1..(IF n = MultRet THEN Len(vs) ELSE n) |->
        IF i <= Len(vs) THEN vs[i] ELSE Nil]
From(vs, k) == SubSeq(vs, k, Len(vs))
Upto(vs, k) == SubSeq(vs, 1, k)


(* the results that the caller's instruction takes from a call *)
Takes(i) == CASE i.op = "CALL" -> i.c - 1
              [] i.op = "TAILCALL" -> MultRet
              [] i.op = "TFORLOOP" -> i.c
=============================================================================
