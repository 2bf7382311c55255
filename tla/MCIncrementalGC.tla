-------------------------- MODULE MCIncrementalGC --------------------------
(* Small instances of IncrementalGC for TLC, and what eventually happens.  *)
EXTENDS IncrementalGC, TLC

StrongModes == {{}}
AllModes == {{}, {"v"}, {"k"}}

\* Objects of a kind, and the slots of a frame, are interchangeable.
Symmetry == Permutations(Tables) \cup Permutations(Userdatas) \cup Permutations(Closures)
              \cup Permutations(Reg \ {Scratch})

-----------------------------------------------------------------------------
(* Objects the program can still reach, or a queued callback will. *)

Successors(o) ==
    Children(o)
      \cup (IF o \in Threads \cap states THEN Stack(o) \cup OpenAt(o) ELSE {})
      \cup (IF o \in Upvalues THEN StateEdge(o) \ {Main} ELSE {})

Reachable ==
    LET reach[n \in Nat] ==
            IF n = 0 THEN Stack(Main) \cup OpenAt(Main) \cup roots \cup pending
            ELSE LET R == reach[n - 1] IN R \cup UNION {Successors(o) : o \in R}
    IN  reach[Cardinality(Obj)]

(***************************************************************************)
(* The program goes on asking for steps (StepUnit), a driver step that     *)
(* began goes on to its end, and a callback that started returns or fails: *)
(* strong fairness, since collections it asks for may interrupt it.        *)
(***************************************************************************)
Fairness ==
    /\ WF_vars(StepUnit)
    /\ WF_vars(PrepareFull \/ FinishFull)
    /\ WF_vars(EndDrain \/ \E u \in Userdatas : StartFinalizer(u) \/ SkipFinalizer(u))
    /\ SF_vars(\E ok \in BOOLEAN : EndFinalizer(ok))

FairSpec == Spec /\ Fairness

\* A read that revives what only a weak entry still holds.
WeakLoad == \E s \in State, r, r2 \in Reg :
                reg[s][r] \in Tables /\ mode[reg[s][r]] # {} /\ Load(s, r, r2)

\* From some point on the program neither allocates nor writes to the heap, nor
\* reads a weak entry; it may go on reading and moving values.
Quiet == <>[][~(HeapOp \/ Allocation \/ WeakLoad)]_vars

\* Once the program is quiet no object stays registered and unreachable, nor
\* comes back to it: it is destroyed, after its one finalizer if it has any.
GarbageIsReclaimed ==
    Quiet => \A o \in Obj : <>[](o \notin live \ Reachable)

\* And a queued finalizer is delivered, also after another callback failed.
FinalizersAreDelivered ==
    Quiet => \A u \in Userdatas : []<>(u \notin pending)

=============================================================================
