----------------------- MODULE IncrementalGC_proofs -----------------------
(***************************************************************************)
(* Proofs about IncrementalGC, for any finite or infinite sets of objects, *)
(* slots and modes.                                                        *)
(***************************************************************************)
EXTENDS IncrementalGC, TLAPS

-----------------------------------------------------------------------------
(* What the shared pieces of the actions keep within the domains *)

StageOK == stage \in Drains \cup {"run", "deliver"}

LEMMA MarkTypes ==
    ASSUME TypeOK, NEW S, NEW done, Mark(S, done)
    PROVE  marked' \subseteq Obj /\ gray' \subseteq Obj /\ rejected' \in BOOLEAN
BY DEF TypeOK, HeapTypes, TraceTypes, Mark

LEMMA AbortTypes ==
    ASSUME TypeOK, Abort, StageOK'
    PROVE  TraceTypes'
BY ModesAssumption DEF TypeOK, TraceTypes, Abort, StageOK

LEMMA KeptTypes ==
    ASSUME TypeOK, UNCHANGED <<phase, trace>>, StageOK'
    PROVE  TraceTypes'
BY DEF TypeOK, TraceTypes, trace, StageOK

LEMMA BarrierTypes ==
    ASSUME TypeOK, NEW o, NEW S, NEW m \in Modes, NEW e,
           Barrier(o, S, m, e), StageOK'
    PROVE  TraceTypes'
<1>1. CASE Abort
  BY <1>1, AbortTypes
<1>2. CASE ~ Abort
  <2>1. marked' \subseteq Obj /\ gray' \subseteq Obj /\ rejected' \in BOOLEAN
    BY <1>2, MarkTypes DEF Barrier, TypeOK, TraceTypes
  <2>2. weakbits' \in [Tables -> Modes]
    BY <1>2 DEF Barrier, TypeOK, TraceTypes
  <2>3. QED
    BY <1>2, <2>1, <2>2 DEF Barrier, TypeOK, TraceTypes, StageOK
<1>3. QED
  BY <1>1, <1>2

LEMMA CreateTypes ==
    ASSUME TypeOK, NEW o \in Obj, NEW S, Create(o, S), StageOK'
    PROVE  /\ TraceTypes'
           /\ live' \subseteq Obj /\ gone' \subseteq Obj /\ live' \cap gone' = {}
<1>1. live' \subseteq Obj /\ gone' \subseteq Obj /\ live' \cap gone' = {}
  BY DEF Create, TypeOK, HeapTypes
<1>2. CASE phase = "Pause"
  BY <1>1, <1>2, KeptTypes DEF Create
<1>3. CASE phase # "Pause" /\ (phase = "Sweep" \/ o \in Threads \cup Upvalues)
  BY <1>1, <1>3, AbortTypes DEF Create
<1>4. CASE phase \notin {"Pause", "Sweep"} /\ o \notin Threads \cup Upvalues
  <2>1. marked' \subseteq Obj /\ gray' \subseteq Obj /\ rejected' \in BOOLEAN
    BY <1>4 DEF Create, TypeOK, HeapTypes, TraceTypes
  <2>2. QED
    BY <1>1, <1>4, <2>1 DEF Create, TypeOK, TraceTypes, StageOK
<1>5. QED
  BY <1>2, <1>3, <1>4

LEMMA WriteTypes ==
    ASSUME TypeOK, NEW s \in State, NEW r \in Reg, NEW v \in Opt(Value), Write(s, r, v)
    PROVE  reg' \in [State -> [Reg -> Opt(Value)]]
BY DEF TypeOK, HeapTypes, Write

\* What an upvalue refers to, in a cell or in its owner's stack.
LEMMA TypedUpvalue ==
    ASSUME TypeOK, NEW u \in Upvalues
    PROVE  /\ cell[u] \in Opt(Value)
           /\ at[u] # Nil =>
                 /\ at[u] = <<at[u][1], at[u][2]>>
                 /\ at[u][1] \in State /\ at[u][2] \in Reg
                 /\ reg[at[u][1]][at[u][2]] \in Opt(Value)
BY DEF TypeOK, HeapTypes, Opt

LEMMA BeginMarkTypes ==
    ASSUME TypeOK, NEW P, BeginMark(P)
    PROVE  /\ marked' \subseteq Obj /\ gray' \subseteq Obj /\ rejected' \in BOOLEAN
           /\ queue' \subseteq State /\ attempted' \subseteq State
           /\ traced' \subseteq State
           /\ weakbits' \in [Tables -> Modes] /\ unswept' \subseteq Obj
BY ModesAssumption DEF TypeOK, HeapTypes, BeginMark, State

LEMMA StackTypes ==
    ASSUME TypeOK, NEW s \in State
    PROVE  Stack(s) \subseteq Value
BY DEF TypeOK, HeapTypes, Stack, Objects, Opt

LEMMA ReclaimTypes ==
    ASSUME TypeOK, NEW C, NEW U, NEW S, NEW D, U \subseteq {u \in Upvalues : at[u] # Nil},
           D \subseteq Obj, Reclaim(C, U, S, D)
    PROVE  /\ HeapTypes' /\ live' \cap gone' = {}
           /\ finalized' \subseteq Userdatas /\ called' \subseteq Userdatas
<1>1. \A u \in U : Located(u) \in Opt(Value)
  <2>1. \A u \in U : at[u] \in State \X Reg
    BY DEF TypeOK, HeapTypes, Opt
  <2>2. QED
    BY <2>1 DEF TypeOK, HeapTypes, Located
<1>2. cell' \in [Upvalues -> Opt(Value)]
  BY <1>1 DEF Reclaim, TypeOK, HeapTypes, Opt
<1>3. at' \in [Upvalues -> Opt(State \X Reg)]
  BY DEF Reclaim, TypeOK, HeapTypes, Opt
<1>4. key' \in [Tables -> Opt(Value)] /\ val' \in [Tables -> Opt(Value)]
  BY DEF Reclaim, TypeOK, HeapTypes, Opt
<1>5. mode' \in [Tables -> Modes]
  BY ModesAssumption DEF Reclaim, TypeOK, HeapTypes
<1>6. meta' \in [Userdatas -> Opt(Tables)] /\ up' \in [Closures -> Opt(Upvalues)]
  BY DEF Reclaim, TypeOK, HeapTypes, Opt
<1>7. reg' \in [State -> [Reg -> Opt(Value)]]
  BY DEF Reclaim, TypeOK, HeapTypes, Opt
<1>8. QED
  BY <1>2, <1>3, <1>4, <1>5, <1>6, <1>7
     DEF Reclaim, TypeOK, HeapTypes, FinalizerTypes

-----------------------------------------------------------------------------
(* Type correctness *)

LEMMA TypeInit == Init => TypeOK
<1> SUFFICES ASSUME Init PROVE TypeOK
  OBVIOUS
<1>1. HeapTypes
  BY ModesAssumption DEF Init, HeapTypes, Opt, State
<1>2. TraceTypes
  BY ModesAssumption DEF Init, TraceTypes
<1>3. FinalizerTypes
  BY DEF Init, FinalizerTypes, Opt
<1>4. QED
  BY <1>1, <1>2, <1>3 DEF Init, TypeOK

LEMMA TypeStackOp == TypeOK /\ StackOp => TypeOK'
<1> SUFFICES ASSUME TypeOK, StackOp PROVE TypeOK'
  OBVIOUS
<1>1. ASSUME NEW s \in State, NEW s2 \in State, NEW r \in Reg, NEW r2 \in Reg,
             Move(s, r, s2, r2)
      PROVE  TypeOK'
  <2>1. reg[s][r] \in Opt(Value) /\ Nil \in Opt(Value)
    BY DEF TypeOK, HeapTypes, Opt
  <2>2. reg' \in [State -> [Reg -> Opt(Value)]]
    BY <1>1, <2>1, WriteTypes DEF Move
  <2>3. QED
    BY <1>1, <2>2 DEF Move, TypeOK, HeapTypes, TraceTypes, FinalizerTypes,
       graph, trace, fins
<1>2. ASSUME NEW s \in State, NEW r \in Reg, NEW r2 \in Reg, Load(s, r, r2)
      PROVE  TypeOK'
  <2>1. Steps(reg[s][r]) \subseteq Value
    BY <1>2, KindsAreDisjoint
       DEF Load, Steps, Entries, Fields, Objects, TypeOK, HeapTypes, Opt, Obj, Value
  <2>2. reg' \in [State -> [Reg -> Opt(Value)]]
    BY <1>2, <2>1, WriteTypes DEF Load, Opt
  <2>3. QED
    BY <1>2, <2>2 DEF Load, TypeOK, HeapTypes, TraceTypes, FinalizerTypes,
       graph, trace, fins
<1>3. ASSUME NEW s \in State, NEW r \in Reg, NEW r2 \in Reg, GetUpvalue(s, r, r2)
      PROVE  TypeOK'
  <2>1. up[reg[s][r]] \in Upvalues
    BY <1>3 DEF GetUpvalue, TypeOK, HeapTypes, Opt
  <2> DEFINE u == up[reg[s][r]]
             v == IF at[u] = Nil THEN cell[u] ELSE reg[at[u][1]][at[u][2]]
  <2>2. v \in Opt(Value)
    BY <1>3, <2>1, TypedUpvalue DEF GetUpvalue
  <2>3. reg' \in [State -> [Reg -> Opt(Value)]]
    BY <1>3, <2>2, WriteTypes DEF GetUpvalue
  <2>4. QED
    BY <1>3, <2>3 DEF GetUpvalue, TypeOK, HeapTypes, TraceTypes, FinalizerTypes,
       graph, trace, fins
<1>4. QED
  BY <1>1, <1>2, <1>3 DEF StackOp

LEMMA TypeHeapOp == TypeOK /\ HeapOp => TypeOK'
<1> SUFFICES ASSUME TypeOK, HeapOp PROVE TypeOK'
  OBVIOUS
<1> USE DEF StageOK
<1>0. StageOK
  BY DEF TypeOK, TraceTypes
<1>1. ASSUME NEW s \in State, NEW r \in Reg, NEW k \in Opt(Keys), NEW v \in Opt(Vals),
             Store(s, r, k, v)
      PROVE  TypeOK'
  <2>1. TraceTypes'
    <3>1. mode[reg[s][r]] \in Modes
      BY <1>1 DEF Store, TypeOK, HeapTypes
    <3>2. QED
      BY <1>0, <1>1, <3>1, BarrierTypes DEF Store
  <2>2. key' \in [Tables -> Opt(Value)] /\ val' \in [Tables -> Opt(Value)]
    BY <1>1, RestrictionsAssumption DEF Store, TypeOK, HeapTypes, Opt
  <2>3. QED
    BY <1>1, <2>1, <2>2 DEF Store, TypeOK, HeapTypes, FinalizerTypes, fins
<1>2. ASSUME NEW s \in State, NEW r \in Reg, NEW m \in Modes, SetTableMetatable(s, r, m)
      PROVE  TypeOK'
  <2>1. TraceTypes'
    BY <1>0, <1>2, BarrierTypes DEF SetTableMetatable
  <2>2. QED
    BY <1>2, <2>1 DEF SetTableMetatable, TypeOK, HeapTypes, FinalizerTypes, fins
<1>3. ASSUME NEW t \in Tables, NEW m \in Modes, SetModeField(t, m)
      PROVE  TypeOK'
  <2>1. TraceTypes'
    BY <1>0, <1>3, AbortTypes, KeptTypes DEF SetModeField
  <2>2. QED
    BY <1>3, <2>1 DEF SetModeField, TypeOK, HeapTypes, FinalizerTypes, fins
<1>4. ASSUME NEW s \in State, NEW r \in Reg, NEW v \in Opt(Tables),
             SetUserdataMetatable(s, r, v)
      PROVE  TypeOK'
  <2>1. TraceTypes'
    BY <1>0, <1>4, BarrierTypes, ModesAssumption DEF SetUserdataMetatable
  <2>2. meta' \in [Userdatas -> Opt(Tables)]
    BY <1>4 DEF SetUserdataMetatable, TypeOK, HeapTypes
  <2>3. QED
    BY <1>4, <2>1, <2>2
       DEF SetUserdataMetatable, TypeOK, HeapTypes, FinalizerTypes, fins
<1>5. ASSUME NEW s \in State, NEW r \in Reg, NEW v \in Opt(Value), SetUpvalue(s, r, v)
      PROVE  TypeOK'
  <2> DEFINE u == up[reg[s][r]]
  <2>1. u \in Upvalues
    BY <1>5 DEF SetUpvalue, TypeOK, HeapTypes, Opt
  <2>2. CASE at[u] # Nil
    <3>1. reg' \in [State -> [Reg -> Opt(Value)]]
      <4>1. Write(at[u][1], at[u][2], v)
        BY <1>5, <2>2 DEF SetUpvalue, Write
      <4>2. at[u][1] \in State /\ at[u][2] \in Reg
        BY <2>1, <2>2, TypedUpvalue
      <4>3. QED
        BY <4>1, <4>2, WriteTypes
    <3>2. QED
      BY <1>5, <2>2, <3>1
         DEF SetUpvalue, TypeOK, HeapTypes, TraceTypes, FinalizerTypes, trace, fins
  <2>3. CASE at[u] = Nil
    <3>1. TraceTypes'
      BY <1>0, <1>5, <2>3, BarrierTypes, ModesAssumption DEF SetUpvalue
    <3>2. cell' \in [Upvalues -> Opt(Value)]
      BY <1>5, <2>3 DEF SetUpvalue, TypeOK, HeapTypes
    <3>3. QED
      BY <1>5, <2>3, <3>1, <3>2
         DEF SetUpvalue, TypeOK, HeapTypes, FinalizerTypes, fins
  <2>4. QED
    BY <2>2, <2>3
<1>6. ASSUME NEW s \in State, NEW R \in SUBSET Reg, CloseUpvalues(s, R)
      PROVE  TypeOK'
  <2> DEFINE U == {u \in OpenAt(s) : at[u][2] \in R}
  <2>1. U \subseteq {u \in Upvalues : at[u] # Nil}
    BY SlotsAssumption DEF OpenAt
  <2>2. \A u \in U : Located(u) \in Opt(Value)
    BY <2>1, TypedUpvalue DEF Located
  <2>3. cell' \in [Upvalues -> Opt(Value)] /\ at' \in [Upvalues -> Opt(State \X Reg)]
    BY <1>6, <2>1, <2>2 DEF CloseUpvalues, TypeOK, HeapTypes, Opt
  <2>4. TraceTypes'
    BY <1>0, <1>6, AbortTypes, KeptTypes, MarkTypes
       DEF CloseUpvalues, TypeOK, TraceTypes, trace
  <2>5. QED
    BY <1>6, <2>3, <2>4 DEF CloseUpvalues, TypeOK, HeapTypes, FinalizerTypes, fins
<1>7. ASSUME NEW o \in Rootable, AddRoot(o)
      PROVE  TypeOK'
  <2>1. TraceTypes'
    BY <1>0, <1>7, AbortTypes, KeptTypes, MarkTypes DEF AddRoot, TypeOK, TraceTypes, trace
  <2>2. roots' \subseteq Obj
    BY <1>7, RestrictionsAssumption DEF AddRoot, TypeOK, HeapTypes
  <2>3. QED
    BY <1>7, <2>1, <2>2 DEF AddRoot, TypeOK, HeapTypes, FinalizerTypes, graph, fins
<1>8. ASSUME NEW o \in Rootable, RemoveRoot(o)
      PROVE  TypeOK'
  BY <1>8 DEF RemoveRoot, TypeOK, HeapTypes, TraceTypes, FinalizerTypes, graph, trace, fins
<1>9. QED
  BY <1>1, <1>2, <1>3, <1>4, <1>5, <1>6, <1>7, <1>8 DEF HeapOp

LEMMA TypeAllocation == TypeOK /\ Allocation => TypeOK'
<1> SUFFICES ASSUME TypeOK, Allocation PROVE TypeOK'
  OBVIOUS
<1> USE DEF StageOK
<1>0. StageOK
  BY DEF TypeOK, TraceTypes
<1>1. ASSUME NEW s \in State, NEW r \in Reg, NEW o \in Tables \cup Userdatas, New(s, r, o)
      PROVE  TypeOK'
  <2>1. o \in Obj /\ o \in Opt(Value)
    BY DEF Obj, Value, Opt
  <2>2. /\ TraceTypes'
        /\ live' \subseteq Obj /\ gone' \subseteq Obj /\ live' \cap gone' = {}
    BY <1>0, <1>1, <2>1, CreateTypes DEF New
  <2>3. reg' \in [State -> [Reg -> Opt(Value)]]
    BY <1>1, <2>1, WriteTypes DEF New
  <2>4. QED
    BY <1>1, <2>2, <2>3 DEF New, TypeOK, HeapTypes, FinalizerTypes, graph, fins
<1>2. ASSUME NEW s \in State, NEW r \in Reg, NEW th \in Threads, NEW v \in Opt(Value),
             NewThread(s, r, th, v)
      PROVE  TypeOK'
  <2>1. th \in Obj /\ th \in Opt(Value) /\ th \in State
    BY DEF Obj, Value, Opt, State
  <2>2. /\ TraceTypes'
        /\ live' \subseteq Obj /\ gone' \subseteq Obj /\ live' \cap gone' = {}
    BY <1>0, <1>2, <2>1, CreateTypes DEF NewThread
  <2>3. reg' \in [State -> [Reg -> Opt(Value)]]
    <3>1. [x \in Reg |-> IF x = r THEN v ELSE Nil] \in [Reg -> Opt(Value)]
      BY DEF Opt
    <3>2. [reg[s] EXCEPT ![r] = th] \in [Reg -> Opt(Value)]
      BY <2>1 DEF TypeOK, HeapTypes
    <3>3. reg' = [[reg EXCEPT ![s] = [reg[s] EXCEPT ![r] = th]]
                    EXCEPT ![th] = [x \in Reg |-> IF x = r THEN v ELSE Nil]]
      BY <1>2 DEF NewThread, TypeOK, HeapTypes
    <3>4. QED
      BY <2>1, <3>1, <3>2, <3>3 DEF TypeOK, HeapTypes
  <2>4. QED
    BY <1>2, <2>1, <2>2, <2>3 DEF NewThread, TypeOK, HeapTypes, FinalizerTypes, graph, fins
<1>3. ASSUME NEW s \in State, NEW r \in Reg, NEW c \in Closures, NEW u \in Upvalues,
             NEW x \in Reg, NewClosureShared(s, r, c, u, x)
      PROVE  TypeOK'
  <2>1. c \in Obj /\ c \in Opt(Value)
    BY DEF Obj, Value, Opt
  <2>2. /\ TraceTypes'
        /\ live' \subseteq Obj /\ gone' \subseteq Obj /\ live' \cap gone' = {}
    BY <1>0, <1>3, <2>1, CreateTypes DEF NewClosureShared
  <2>3. reg' \in [State -> [Reg -> Opt(Value)]]
    BY <1>3, <2>1, WriteTypes DEF NewClosureShared
  <2>4. up' \in [Closures -> Opt(Upvalues)]
    BY <1>3 DEF NewClosureShared, TypeOK, HeapTypes, Opt
  <2>5. QED
    BY <1>3, <2>2, <2>3, <2>4 DEF NewClosureShared, TypeOK, HeapTypes, FinalizerTypes, fins
<1>4. ASSUME NEW s \in State, NEW r \in Reg, NEW c \in Closures, NEW u \in Upvalues,
             NEW x \in Reg, NewClosureFresh(s, r, c, u, x)
      PROVE  TypeOK'
  <2>1. c \in Obj /\ c \in Opt(Value) /\ u \in Obj /\ u \in Opt(Upvalues)
    BY DEF Obj, Value, Opt
  <2>2. TraceTypes'
    BY <1>0, <1>4, AbortTypes, KeptTypes DEF NewClosureFresh
  <2>3. reg' \in [State -> [Reg -> Opt(Value)]]
    BY <1>4, <2>1, WriteTypes DEF NewClosureFresh
  <2>4. up' \in [Closures -> Opt(Upvalues)] /\ at' \in [Upvalues -> Opt(State \X Reg)]
    BY <1>4, <2>1 DEF NewClosureFresh, TypeOK, HeapTypes, Opt
  <2>5. live' \subseteq Obj /\ gone' \subseteq Obj /\ live' \cap gone' = {}
    BY <1>4, <2>1 DEF NewClosureFresh, TypeOK, HeapTypes
  <2>6. QED
    BY <1>4, <2>2, <2>3, <2>4, <2>5
       DEF NewClosureFresh, TypeOK, HeapTypes, FinalizerTypes, fins
<1>5. QED
  BY <1>1, <1>2, <1>3, <1>4 DEF Allocation

LEMMA TypeStepUnit == TypeOK /\ StepUnit => TypeOK'
<1> SUFFICES ASSUME TypeOK, StepUnit PROVE TypeOK'
  OBVIOUS
<1> USE DEF Drains
<1>1. ASSUME BeginCycle PROVE TypeOK'
  BY <1>1, BeginMarkTypes
     DEF BeginCycle, TypeOK, HeapTypes, TraceTypes, FinalizerTypes, heap, graph, fins
<1>2. ASSUME StartAtomic PROVE TypeOK'
  BY <1>2, MarkTypes
     DEF StartAtomic, TypeOK, HeapTypes, TraceTypes, FinalizerTypes, heap, graph, fins, State
<1>3. ASSUME Reconcile PROVE TypeOK'
  <2>1. weakbits' \in [Tables -> Modes]
    BY <1>3 DEF Reconcile, TypeOK, HeapTypes, TraceTypes
  <2>2. QED
    BY <1>3, <2>1, MarkTypes
       DEF Reconcile, TypeOK, HeapTypes, TraceTypes, FinalizerTypes, heap, graph, fins
<1>4. ASSUME PrepareFinalizers PROVE TypeOK'
  BY <1>4, MarkTypes
     DEF PrepareFinalizers, Queue, Finalizable, TypeOK, HeapTypes, TraceTypes,
         FinalizerTypes, heap, graph
<1>5. ASSUME FinishAtomic PROVE TypeOK'
  <2>1. Orphans \subseteq {u \in Upvalues : at[u] # Nil}
    BY SlotsAssumption DEF Orphans, DeadStates, OpenAt, TypeOK, HeapTypes
  <2>2. /\ HeapTypes' /\ live' \cap gone' = {}
        /\ finalized' \subseteq Userdatas /\ called' \subseteq Userdatas
    BY <1>5, <2>1, ReclaimTypes DEF FinishAtomic
  <2>3. TraceTypes'
    BY <1>5, MarkTypes DEF FinishAtomic, TypeOK, HeapTypes, TraceTypes
  <2>4. QED
    BY <1>5, <2>2, <2>3 DEF FinishAtomic, TypeOK, FinalizerTypes
<1>6. ASSUME SweepEmptyHeap PROVE TypeOK'
  BY <1>6 DEF SweepEmptyHeap, TypeOK, HeapTypes, TraceTypes, FinalizerTypes,
     heap, graph, trace, fins
<1>7. ASSUME CompleteCycle PROVE TypeOK'
  <2>1. StageOK'
    BY <1>7 DEF CompleteCycle, DeliverAfterCycle, StageOK
  <2>2. TraceTypes'
    BY <1>7, <2>1, AbortTypes DEF CompleteCycle
  <2>3. QED
    BY <1>7, <2>2 DEF CompleteCycle, DeliverAfterCycle, TypeOK, HeapTypes,
       FinalizerTypes, heap, graph
<1>8. ASSUME NEW s \in State, TraceState(s) PROVE TypeOK'
  <2>1. TraceTypes'
    BY <1>8, MarkTypes DEF TraceState, EnterAtomicWhenComplete, TypeOK, TraceTypes
  <2>2. QED
    BY <1>8, <2>1 DEF TraceState, TypeOK, HeapTypes, FinalizerTypes, heap, graph, fins
<1>9. ASSUME NEW o \in Obj, TraceObject(o) PROVE TypeOK'
  <2>1. weakbits' \in [Tables -> Modes]
    BY <1>9 DEF TraceObject, TypeOK, HeapTypes, TraceTypes
  <2>2. TraceTypes'
    BY <1>9, <2>1, MarkTypes
       DEF TraceObject, EnterAtomicWhenComplete, StateEdge, TypeOK, TraceTypes
  <2>3. QED
    BY <1>9, <2>2 DEF TraceObject, TypeOK, HeapTypes, FinalizerTypes, heap, graph, fins
<1>10. ASSUME NEW o \in Obj, SweepWhite(o) PROVE TypeOK'
  <2>1. /\ HeapTypes' /\ live' \cap gone' = {}
        /\ finalized' \subseteq Userdatas /\ called' \subseteq Userdatas
    BY <1>10, ReclaimTypes DEF SweepWhite
  <2>2. QED
    BY <1>10, <2>1 DEF SweepWhite, PhaseAfterSweeping, TypeOK, TraceTypes, FinalizerTypes
<1>11. ASSUME NEW o \in Obj, SweepSurvivor(o) PROVE TypeOK'
  BY <1>11 DEF SweepSurvivor, PhaseAfterSweeping, TypeOK, HeapTypes, TraceTypes,
     FinalizerTypes, heap, graph, fins
<1>12. QED
  BY <1>1, <1>2, <1>3, <1>4, <1>5, <1>6, <1>7, <1>8, <1>9, <1>10, <1>11 DEF StepUnit

LEMMA TypeFullCollection == TypeOK /\ FullCollection => TypeOK'
<1> SUFFICES ASSUME TypeOK, FullCollection PROVE TypeOK'
  OBVIOUS
<1> USE DEF Drains
<1>1. ASSUME BeginFull PROVE TypeOK'
  BY <1>1, BeginMarkTypes
     DEF BeginFull, TypeOK, HeapTypes, TraceTypes, FinalizerTypes, heap, graph, fins
<1>2. ASSUME PrepareFull PROVE TypeOK'
  <2>1. TraceTypes'
    BY <1>2, BeginMarkTypes DEF PrepareFull, TypeOK, TraceTypes, trace
  <2>2. QED
    BY <1>2, <2>1 DEF PrepareFull, Queue, Finalizable, TypeOK, HeapTypes,
       FinalizerTypes, heap, graph
<1>3. ASSUME FinishFull PROVE TypeOK'
  <2>1. Orphans \subseteq {u \in Upvalues : at[u] # Nil}
    BY SlotsAssumption DEF Orphans, DeadStates, OpenAt, TypeOK, HeapTypes
  <2>2. /\ HeapTypes' /\ live' \cap gone' = {}
        /\ finalized' \subseteq Userdatas /\ called' \subseteq Userdatas
    <3>1. live \ marked \subseteq Obj
      BY DEF TypeOK, HeapTypes
    <3>2. QED
      BY <1>3, <2>1, <3>1, ReclaimTypes DEF FinishFull
  <2>3. StageOK'
    BY <1>3 DEF FinishFull, DeliverAfterCycle, StageOK
  <2>4. TraceTypes'
    BY <1>3, <2>3, AbortTypes DEF FinishFull
  <2>5. QED
    BY <1>3, <2>2, <2>4 DEF FinishFull, DeliverAfterCycle, TypeOK, FinalizerTypes
<1>4. QED
  BY <1>1, <1>2, <1>3 DEF FullCollection

LEMMA TypeFinalizers == TypeOK /\ Finalizers => TypeOK'
<1> SUFFICES ASSUME TypeOK, Finalizers PROVE TypeOK'
  OBVIOUS
<1>1. ASSUME NEW u \in Userdatas, StartFinalizer(u) PROVE TypeOK'
  <2>1. reg' \in [State -> [Reg -> Opt(Value)]]
    BY <1>1, WriteTypes, SlotsAssumption DEF StartFinalizer, State, Opt, Value
  <2>2. QED
    BY <1>1, <2>1 DEF StartFinalizer, TypeOK, HeapTypes, TraceTypes, FinalizerTypes,
       graph, trace, Opt
<1>2. ASSUME NEW u \in Userdatas, SkipFinalizer(u) PROVE TypeOK'
  BY <1>2 DEF SkipFinalizer, TypeOK, HeapTypes, TraceTypes, FinalizerTypes,
     heap, graph, trace
<1>3. ASSUME EndDrain PROVE TypeOK'
  BY <1>3 DEF EndDrain, TypeOK, HeapTypes, TraceTypes, FinalizerTypes,
     heap, graph, trace
<1>4. ASSUME NEW ok \in BOOLEAN, EndFinalizer(ok) PROVE TypeOK'
  <2>1. reg' \in [State -> [Reg -> Opt(Value)]]
    BY <1>4, WriteTypes, SlotsAssumption DEF EndFinalizer, State, Opt
  <2>2. QED
    BY <1>4, <2>1 DEF EndFinalizer, TypeOK, HeapTypes, TraceTypes, FinalizerTypes,
       graph, trace, Opt
<1>5. QED
  BY <1>1, <1>2, <1>3, <1>4 DEF Finalizers

LEMMA TypeNext == TypeOK /\ [Next]_vars => TypeOK'
<1>1. TypeOK /\ UNCHANGED vars => TypeOK'
  BY DEF vars, heap, graph, trace, fins, TypeOK, HeapTypes, TraceTypes, FinalizerTypes
<1>2. QED
  BY <1>1, TypeStackOp, TypeHeapOp, TypeAllocation, TypeStepUnit, TypeFullCollection,
     TypeFinalizers DEF Next, Program

\* In every behaviour all variables keep their domains, and no ObjectId is both
\* registered and destroyed: try_create never reissues one.
THEOREM TypeCorrect == Spec => []TypeOK
BY TypeInit, TypeNext, PTL DEF Spec

-----------------------------------------------------------------------------
(***************************************************************************)
(* HeapInvariant is inductive, and what follows from it: the collector     *)
(* destroys nothing the program can reach, whatever the program does       *)
(* between the units of a cycle.                                           *)
(***************************************************************************)

IInv == TypeOK /\ HeapInvariant

Safe(K) ==
    /\ K \subseteq live
    /\ Closed(K)
    /\ Marking => marked \subseteq K
    /\ phase = "Sweep" => K \cap (unswept \ marked) = {}

-----------------------------------------------------------------------------
(* Building blocks *)

LEMMA SafeSet == HeapIsSafe <=> \E K : Safe(K)
BY DEF HeapIsSafe, Safe

\* The steps of an object of each kind, and where they may lead.
LEMMA StepsOfKind ==
    /\ \A t \in Tables : Steps(t) = Entries(t) /\ Fields(t) = {} /\ StateEdge(t) = {}
    /\ \A u \in Userdatas : Steps(u) = Objects({meta[u]}) /\ Fields(u) = Steps(u)
    /\ \A u \in Userdatas : StateEdge(u) = {}
    /\ \A c \in Closures : Steps(c) = Objects({up[c]}) /\ Fields(c) = Steps(c)
    /\ \A c \in Closures : StateEdge(c) = {}
    /\ \A u \in Upvalues : Steps(u) = (IF at[u] = Nil THEN Objects({cell[u]}) ELSE {})
    /\ \A u \in Upvalues : Fields(u) = Steps(u)
    /\ \A h \in Threads : Steps(h) = {} /\ Fields(h) = {}
BY KindsAreDisjoint DEF Steps, Fields, StateEdge, Objects, Obj, Value, State

LEMMA CandidateIsSafe ==
    ASSUME NEW K, Safe(K), NEW u \in Candidates
    PROVE  u \in K /\ Objects({meta[u]}) \subseteq K
<1>1. u \in K
  BY DEF Safe, Closed
<1>2. u \in Userdatas
  BY DEF Candidates
<1>3. Steps(u) \subseteq K
  BY <1>1 DEF Safe, Closed
<1>4. QED
  BY <1>1, <1>2, <1>3, StepsOfKind

\* A larger set that takes in the new candidates is a witness for the new state.
LEMMA SafeIntro ==
    ASSUME NEW L,
           L \subseteq live',
           \A s \in states' : Snapshot(s)' \subseteq L,
           \A o \in L : Steps(o)' \subseteq L /\ StateEdge(o)' \subseteq states',
           roots' \cup pending' \subseteq L,
           \A u \in Candidates' : Objects({meta'[u]}) \subseteq L,
           Marking' => marked' \subseteq L,
           phase' = "Sweep" => (L \cup Candidates') \cap (unswept' \ marked') = {}
    PROVE  HeapIsSafe'
<1>1. PICK M : M = L \cup Candidates'
  OBVIOUS
<1>2. \A u \in Candidates' : u \in Userdatas /\ u \in live'
  BY DEF Candidates
<1>3. \A u \in Candidates' : Steps(u)' = Objects({meta'[u]}) /\ StateEdge(u)' = {}
  BY <1>2, KindsAreDisjoint DEF Steps, Fields, StateEdge, Objects, Obj, Value, State
<1>4. Closed(M)'
  BY <1>1, <1>3 DEF Closed
<1>5. Safe(M)'
  BY <1>1, <1>2, <1>4 DEF Safe
<1>6. QED
  BY <1>5 DEF Safe, HeapIsSafe

\* A step that leaves the heap alone keeps the set.
LEMMA SafeStatic ==
    ASSUME NEW K, Safe(K), UNCHANGED heap,
           pending' \subseteq pending \cup Candidates, finalized \subseteq finalized',
           Marking' => marked' \subseteq K,
           phase' = "Sweep" => K \cap (unswept' \ marked') = {}
    PROVE  HeapIsSafe'
<1>1. Candidates' \subseteq Candidates
  BY DEF Candidates, HasGc, heap, graph
<1>2. \A s \in states : Snapshot(s)' = Snapshot(s)
  BY DEF Snapshot, Stack, OpenAt, heap, graph
<1>3. \A o \in K : Steps(o)' = Steps(o) /\ StateEdge(o)' = StateEdge(o)
  BY DEF Steps, Entries, Fields, StateEdge, heap, graph
<1>4. Closed(K)'
  BY <1>1, <1>2, <1>3 DEF Safe, Closed, heap
<1>5. Safe(K)'
  BY <1>4 DEF Safe, heap
<1>6. QED
  BY <1>5 DEF Safe, HeapIsSafe

LEMMA TidyStatic == Tidy /\ UNCHANGED heap => Tidy'
BY DEF Tidy, Steps, Entries, Fields, StateEdge, heap, graph

\* An abandoned cycle owes nothing.
LEMMA AbortIsSound ==
    ASSUME TraceIsSound, Abort, stage' \notin Drains
    PROVE  TraceIsSound' /\ AtomicIsSound' /\ ~ Marking' /\ phase' # "Sweep"
BY DEF Abort, TraceIsSound, AtomicIsSound, Marking, Drains

LEMMA DeliveryStatic == DeliveryIsSound /\ UNCHANGED <<stage, fins>> => DeliveryIsSound'
BY DEF DeliveryIsSound, fins

\* What the program does to the trace of an active cycle, between two units.
LEMMA MutatorIsSound ==
    ASSUME TraceIsSound, AtomicIsSound, stage \notin Drains, stage' \notin Drains,
           UNCHANGED <<phase, queue, attempted, traced>>,
           states \subseteq states',
           rejected' => rejected,
           Marking => /\ gray' \subseteq marked'
                      /\ roots' \cup pending' \subseteq marked'
                      /\ \A o \in marked' \ gray' :
                             /\ Fields(o)' \subseteq marked'
                             /\ StateEdge(o)' \subseteq attempted \cup queue
    PROVE  TraceIsSound' /\ AtomicIsSound'
<1>1. Marking' = Marking
  BY DEF Marking
<1>2. TraceIsSound'
  BY <1>1 DEF TraceIsSound
<1>3. AtomicIsSound'
  BY DEF AtomicIsSound, Drains
<1>4. QED
  BY <1>2, <1>3

\* after_managed_mutation on the owner o, whose fields may now refer to S.
LEMMA BarrierIsSound ==
    ASSUME TypeOK, TraceIsSound, AtomicIsSound, stage = "run", stage' = "run",
           NEW o \in Obj, NEW S, S \subseteq live, NEW m, NEW e, Barrier(o, S, m, e),
           states' = states, roots' = roots, pending' = pending,
           \A p \in Obj : p # o => Fields(p)' = Fields(p),
           Fields(o)' \subseteq S,
           \A p \in Obj : StateEdge(p)' = StateEdge(p)
    PROVE  /\ TraceIsSound' /\ AtomicIsSound'
           /\ Marking' => Marking /\ marked' \subseteq marked \cup S
           /\ phase' # "Sweep"
<1>1. CASE Abort
  BY <1>1, AbortIsSound DEF HeapInvariant, Drains
<1>2. CASE ~ Abort
  <2>1. /\ phase # "Sweep"
        /\ UNCHANGED <<phase, queue, attempted, traced, unswept>>
        /\ marked \subseteq marked' /\ marked' \subseteq marked \cup S
    BY <1>2 DEF Barrier, Mark
  <2>2. stage \notin Drains /\ stage' \notin Drains
    BY DEF Drains
  <2>3. Marking' = Marking
    BY <2>1, <2>2 DEF Marking
  <2>4. ASSUME Marking
        PROVE  /\ gray' \subseteq marked' /\ ~rejected'
               /\ roots' \cup pending' \subseteq marked'
               /\ \A p \in marked' \ gray' :
                      Fields(p)' \subseteq marked' /\ StateEdge(p)' \subseteq attempted \cup queue
    <3>1. phase \in {"Propagate", "Atomic"}
      BY <2>2, <2>4 DEF Marking
    <3>2. gray' \subseteq marked' /\ ~rejected' /\ marked' \ gray' \subseteq marked \ gray
      BY <1>2, <2>4, <3>1 DEF Barrier, Mark, TraceIsSound
    <3>3. roots' \cup pending' \subseteq marked'
      BY <2>1, <2>4 DEF TraceIsSound
    <3>4. ASSUME NEW p \in marked' \ gray'
          PROVE  Fields(p)' \subseteq marked' /\ StateEdge(p)' \subseteq attempted \cup queue
      <4>1. p \in marked \ gray /\ p \in Obj
        BY <3>2, <3>4 DEF TypeOK, TraceTypes
      <4>2. Fields(p) \subseteq marked /\ StateEdge(p) \subseteq attempted \cup queue
        BY <2>4, <4>1 DEF TraceIsSound
      <4>3. p # o => Fields(p)' \subseteq marked'
        BY <2>1, <4>1, <4>2
      <4>4. p = o => S \subseteq marked'
        BY <1>2, <3>1, <4>1 DEF Barrier, Mark, Black
      <4>5. QED
        BY <4>1, <4>2, <4>3, <4>4
    <3>5. QED
      BY <3>2, <3>3, <3>4
  <2>5. rejected' => rejected
    BY <1>2 DEF Barrier, Mark
  <2>6. QED
    BY <2>1, <2>2, <2>3, <2>4, <2>5, MutatorIsSound
<1>3. QED
  BY <1>1, <1>2

\* A write to a stack slot of a value from the safe set, without a barrier.
LEMMA WriteIsSound ==
    ASSUME TypeOK, HeapInvariant, NEW K, Safe(K),
           NEW s \in State, NEW r \in Reg, NEW v \in Opt(K), Write(s, r, v),
           UNCHANGED <<live, gone, graph, states, roots, phase, trace, finalized>>,
           pending' \subseteq pending,
           stage \notin Drains, stage' \notin Drains
    PROVE  HeapIsSafe' /\ Tidy' /\ TraceIsSound' /\ AtomicIsSound'
<1>1. \A p \in Obj : /\ Steps(p)' = Steps(p) /\ Fields(p)' = Fields(p)
                     /\ StateEdge(p)' = StateEdge(p)
  BY DEF Steps, Entries, Fields, StateEdge, graph
<1>2. \A x \in states : Snapshot(x)' \subseteq K
  <2> SUFFICES ASSUME NEW x \in states PROVE Snapshot(x)' \subseteq K
    OBVIOUS
  <2>1. x \in State
    BY DEF TypeOK, HeapTypes
  <2>2. Snapshot(x) \subseteq K
    BY DEF Safe, Closed
  <2>3. Stack(x)' \subseteq Stack(x) \cup K
    BY <2>1 DEF Stack, Objects, Write, Opt, TypeOK, HeapTypes
  <2>4. OpenAt(x)' = OpenAt(x)
    BY DEF OpenAt, graph
  <2>5. QED
    BY <2>2, <2>3, <2>4 DEF Snapshot
<1>3. Candidates' = Candidates
  BY DEF Candidates, HasGc, graph
<1>4. \A u \in Candidates : Objects({meta[u]}) \subseteq K
  BY CandidateIsSafe
<1>5. Marking' = Marking
  BY DEF Marking
<1>6. HeapIsSafe'
  <2>1. K \subseteq Obj
    BY DEF Safe, TypeOK, HeapTypes
  <2>2. \A o \in K : Steps(o)' \subseteq K /\ StateEdge(o)' \subseteq states'
    BY <1>1, <2>1 DEF Safe, Closed
  <2>3. roots' \cup pending' \subseteq K /\ Candidates' \subseteq K
    BY <1>3 DEF Safe, Closed
  <2>4. \A u \in Candidates' : Objects({meta'[u]}) \subseteq K
    BY <1>3, <1>4 DEF graph
  <2>5. QED
    BY <1>2, <1>5, <2>2, <2>3, <2>4, SafeIntro DEF Safe, trace
<1>7. Tidy'
  BY <1>1 DEF Tidy, HeapInvariant, TypeOK, HeapTypes, Obj
<1>8. TraceIsSound' /\ AtomicIsSound'
  <2>1. marked \subseteq Obj
    BY DEF TypeOK, TraceTypes
  <2>2. QED
    BY <1>1, <2>1, MutatorIsSound DEF HeapInvariant, TraceIsSound, trace
<1>9. QED
  BY <1>6, <1>7, <1>8

\* The values an action may use: what stands on a stack, and what it leads to.
LEMMA StackIsSafe ==
    ASSUME TypeOK, NEW K, Safe(K), NEW s \in states
    PROVE  /\ Stack(s) \subseteq K /\ OpenAt(s) \subseteq K
           /\ s # Main => s \in K
           /\ \A r \in Reg : reg[s][r] \in Opt(K)
           /\ \A r \in Reg : reg[s][r] # Nil => /\ reg[s][r] \in K \cap Value
                                              /\ Steps(reg[s][r]) \subseteq K
<1>1. Snapshot(s) \subseteq K
  BY DEF Safe, Closed
<1>2. Stack(s) \subseteq K /\ OpenAt(s) \subseteq K /\ (s # Main => s \in K)
  BY <1>1 DEF Snapshot
<1>3. \A r \in Reg : reg[s][r] \in Opt(K) /\ (reg[s][r] # Nil => reg[s][r] \in K \cap Value)
  BY <1>2 DEF Stack, Objects, Opt, TypeOK, HeapTypes
<1>4. QED
  BY <1>2, <1>3 DEF Safe, Closed

\* An upvalue in the safe set leads to a value in it, open or closed.
LEMMA UpvalueIsSafe ==
    ASSUME TypeOK, Tidy, NEW K, Safe(K), NEW u \in Upvalues \cap K
    PROVE  /\ at[u] = Nil => cell[u] \in Opt(K)
           /\ at[u] # Nil => /\ at[u][1] \in states /\ at[u][2] \in Reg
                             /\ Located(u) \in Opt(K)
<1>1. CASE at[u] = Nil
  <2>1. Objects({cell[u]}) \subseteq K
    BY <1>1, StepsOfKind DEF Safe, Closed
  <2>2. QED
    BY <1>1, <2>1 DEF Objects, Opt
<1>2. CASE at[u] # Nil
  <2>1. at[u] = <<at[u][1], at[u][2]>> /\ at[u][1] \in State /\ at[u][2] \in Reg
    BY <1>2, TypedUpvalue
  <2>2. at[u][1] \in StateEdge(u)
    BY <2>1 DEF StateEdge
  <2>3. at[u][1] \in states
    BY <2>2 DEF Tidy
  <2>4. QED
    BY <1>2, <2>1, <2>3, StackIsSafe DEF Located
<1>3. QED
  BY <1>1, <1>2

-----------------------------------------------------------------------------
(* Instructions that only write the stack *)

LEMMA SafeStackOp == IInv /\ StackOp => HeapInvariant'
<1> SUFFICES ASSUME TypeOK, HeapInvariant, StackOp PROVE HeapInvariant'
  BY DEF IInv
<1>0. PICK K : Safe(K)
  BY SafeSet DEF HeapInvariant
<1> USE DEF Drains
<1>1. ASSUME NEW s \in State, NEW s2 \in State, NEW r \in Reg, NEW r2 \in Reg,
             Move(s, r, s2, r2)
      PROVE  HeapInvariant'
  <2>1. PICK v \in {reg[s][r], Nil} : Write(s2, r2, v)
    BY <1>1 DEF Move
  <2>2. v \in Opt(K)
    BY <1>0, <1>1, <2>1, StackIsSafe DEF Move, Runs, Opt
  <2>3. /\ UNCHANGED <<live, gone, graph, states, roots, phase, stage, trace, fins>>
        /\ stage = "run"
    BY <1>1 DEF Move, Runs
  <2>4. HeapIsSafe' /\ Tidy' /\ TraceIsSound' /\ AtomicIsSound'
    BY <1>0, <2>1, <2>2, <2>3, WriteIsSound DEF fins
  <2>5. QED
    BY <2>3, <2>4, DeliveryStatic DEF HeapInvariant
<1>2. ASSUME NEW s \in State, NEW r \in Reg, NEW r2 \in Reg, Load(s, r, r2)
      PROVE  HeapInvariant'
  <2>1. PICK v \in Steps(reg[s][r]) : Write(s, r2, v)
    BY <1>2 DEF Load
  <2>2. s \in states /\ reg[s][r] \in Value
    BY <1>2 DEF Load, Runs, Value
  <2>3. reg[s][r] # Nil
    BY <2>2, KindsAreDisjoint DEF Obj
  <2>4. v \in Opt(K)
    BY <1>0, <2>1, <2>2, <2>3, StackIsSafe DEF Opt
  <2>5. /\ UNCHANGED <<live, gone, graph, states, roots, phase, stage, trace, fins>>
        /\ stage = "run"
    BY <1>2 DEF Load, Runs
  <2>6. HeapIsSafe' /\ Tidy' /\ TraceIsSound' /\ AtomicIsSound'
    BY <1>0, <2>1, <2>4, <2>5, WriteIsSound DEF fins
  <2>7. QED
    BY <2>5, <2>6, DeliveryStatic DEF HeapInvariant
<1>3. ASSUME NEW s \in State, NEW r \in Reg, NEW r2 \in Reg, GetUpvalue(s, r, r2)
      PROVE  HeapInvariant'
  <2> DEFINE c == reg[s][r]
             u == up[c]
             v == IF at[u] = Nil THEN cell[u] ELSE reg[at[u][1]][at[u][2]]
  <2>1. c \in Closures /\ s \in states /\ c # Nil
    BY <1>3, KindsAreDisjoint DEF GetUpvalue, Runs, Obj, Value
  <2>2. u \in Upvalues
    BY <1>3, <2>1 DEF GetUpvalue, TypeOK, HeapTypes, Opt
  <2>3. u \in K
    BY <1>0, <1>3, <2>1, StackIsSafe, StepsOfKind, SMTT(30) DEF GetUpvalue, Objects
  <2>4. v \in Opt(K)
    BY <1>0, <2>2, <2>3, UpvalueIsSafe DEF Located, HeapInvariant
  <2>5. /\ UNCHANGED <<live, gone, graph, states, roots, phase, stage, trace, fins>>
        /\ stage = "run" /\ Write(s, r2, v)
    BY <1>3 DEF GetUpvalue, Runs
  <2>6. HeapIsSafe' /\ Tidy' /\ TraceIsSound' /\ AtomicIsSound'
    BY <1>0, <2>4, <2>5, WriteIsSound DEF fins
  <2>7. QED
    BY <2>5, <2>6, DeliveryStatic DEF HeapInvariant
<1>4. QED
  BY <1>1, <1>2, <1>3 DEF StackOp

-----------------------------------------------------------------------------
(* Mutations of the heap *)

\* The program rewires the one object o, within the safe set, through the barrier.
LEMMA MutationIsSound ==
    ASSUME TypeOK, HeapInvariant, NEW K, Safe(K), stage = "run",
           NEW o \in K, NEW S, S \subseteq K, NEW m, NEW e, Barrier(o, S, m, e),
           UNCHANGED <<live, gone, at, states, reg, roots, stage, fins>>,
           \A p \in Obj : p # o => Fields(p)' = Fields(p) /\ Steps(p)' = Steps(p),
           Fields(o)' \subseteq S, Steps(o)' \subseteq K,
           \A u \in Candidates' : Objects({meta'[u]}) \subseteq K
    PROVE  HeapInvariant'
<1>1. K \subseteq live /\ K \subseteq Obj
  BY DEF Safe, TypeOK, HeapTypes
<1>2. \A p \in Obj : StateEdge(p)' = StateEdge(p)
  BY DEF StateEdge
<1>3. /\ TraceIsSound' /\ AtomicIsSound'
      /\ Marking' => Marking /\ marked' \subseteq marked \cup S
      /\ phase' # "Sweep"
  BY <1>1, <1>2, BarrierIsSound DEF HeapInvariant, fins
<1>4. \A x \in states : Snapshot(x)' = Snapshot(x)
  BY DEF Snapshot, Stack, OpenAt
<1>5. \A p \in K : Steps(p)' \subseteq K /\ StateEdge(p)' \subseteq states
  BY <1>1, <1>2 DEF Safe, Closed
<1>6. roots \cup pending \subseteq K /\ \A x \in states : Snapshot(x) \subseteq K
  BY DEF Safe, Closed
<1>7. HeapIsSafe'
  BY <1>1, <1>3, <1>4, <1>5, <1>6, SafeIntro DEF Safe, fins
<1>8. Tidy'
  BY <1>1, <1>2 DEF Tidy, HeapInvariant, TypeOK, HeapTypes, Obj
<1>9. QED
  BY <1>3, <1>7, <1>8, DeliveryStatic DEF HeapInvariant

LEMMA SafeStore ==
    ASSUME TypeOK, HeapInvariant, NEW s \in State, NEW r \in Reg,
           NEW k \in Opt(Keys), NEW v \in Opt(Vals), Store(s, r, k, v)
    PROVE  HeapInvariant'
<1>0. PICK K : Safe(K)
  BY SafeSet DEF HeapInvariant
<1>t. PICK t : t = reg[s][r]
  OBVIOUS
<1> DEFINE S == Objects({IF "k" \in mode[t] THEN Nil ELSE k,
                         IF "v" \in mode[t] THEN Nil ELSE v})
<1>1. t \in Tables /\ s \in states /\ t # Nil /\ stage = "run"
  BY <1>t, KindsAreDisjoint DEF Store, Runs, Obj, Value
<1>2. t \in K /\ k \in Opt(K) /\ v \in Opt(K)
  BY <1>0, <1>t, <1>1, StackIsSafe DEF Store, Opt
<1>3. S \subseteq K /\ Objects({k, v}) \subseteq K
  BY <1>2 DEF Objects, Opt
<1>4. /\ key' = [key EXCEPT ![t] = k] /\ val' = [val EXCEPT ![t] = v]
      /\ Barrier(t, S, mode[t], FALSE)
      /\ UNCHANGED <<live, gone, mode, meta, up, at, cell, states, reg, roots, stage, fins>>
  BY <1>t DEF Store
<1>5. \A p \in Obj : Fields(p)' = Fields(p)
  BY <1>4 DEF Fields
<1>6. \A p \in Obj : p # t => Steps(p)' = Steps(p)
  BY <1>4, <1>5 DEF Steps, Entries, TypeOK, HeapTypes
<1>7. Fields(t)' = {}
  BY <1>1, <1>5, StepsOfKind DEF Obj, Value
<1>8. Steps(t)' \subseteq K
  BY <1>1, <1>3, <1>4 DEF Steps, Entries, TypeOK, HeapTypes
<1>9. ASSUME NEW u \in Candidates' PROVE Objects({meta'[u]}) \subseteq K
  <2>1. CASE meta[u] = t
    BY <1>2, <1>4, <2>1 DEF Objects
  <2>2. CASE meta[u] # t
    <3>1. u \in Candidates
      BY <1>4, <1>9, <2>2 DEF Candidates, HasGc, fins, TypeOK, HeapTypes, Opt
    <3>2. QED
      BY <1>0, <1>4, <3>1, CandidateIsSafe
  <2>3. QED
    BY <2>1, <2>2
<1>10. QED
  BY <1>0, <1>1, <1>2, <1>3, <1>4, <1>5, <1>6, <1>7, <1>8, <1>9, MutationIsSound

LEMMA SafeSetTableMetatable ==
    ASSUME TypeOK, HeapInvariant, NEW s \in State, NEW r \in Reg, NEW m \in Modes,
           SetTableMetatable(s, r, m)
    PROVE  HeapInvariant'
<1>0. PICK K : Safe(K)
  BY SafeSet DEF HeapInvariant
<1>t. PICK t : t = reg[s][r]
  OBVIOUS
<1>1. t \in Tables /\ s \in states /\ t # Nil /\ stage = "run"
  BY <1>t, KindsAreDisjoint DEF SetTableMetatable, Runs, Obj, Value
<1>2. t \in K
  BY <1>0, <1>t, <1>1, StackIsSafe
<1>3. StrongEntries(t, m) \subseteq K
  <2>1. Steps(t) \subseteq K
    BY <1>0, <1>2 DEF Safe, Closed
  <2>2. StrongEntries(t, m) \subseteq Steps(t)
    BY <1>1 DEF StrongEntries, Steps, Entries, Objects
  <2>3. QED
    BY <2>1, <2>2
<1>4. /\ Barrier(t, StrongEntries(t, m), m, FALSE)
      /\ UNCHANGED <<live, gone, key, val, meta, up, at, cell, states, reg, roots, stage, fins>>
  BY <1>t DEF SetTableMetatable
<1>5. \A p \in Obj : Fields(p)' = Fields(p) /\ Steps(p)' = Steps(p)
  BY <1>4 DEF Fields, Steps, Entries
<1>6. Fields(t)' = {} /\ Steps(t)' \subseteq K
  BY <1>0, <1>1, <1>2, <1>5, StepsOfKind DEF Obj, Value, Safe, Closed
<1>7. Candidates' = Candidates
  BY <1>4 DEF Candidates, HasGc, fins
<1>8. \A u \in Candidates' : Objects({meta'[u]}) \subseteq K
  BY <1>0, <1>4, <1>7, CandidateIsSafe
<1>9. QED
  BY <1>0, <1>1, <1>2, <1>3, <1>4, <1>5, <1>6, <1>8, MutationIsSound

LEMMA SafeSetUserdataMetatable ==
    ASSUME TypeOK, HeapInvariant, NEW s \in State, NEW r \in Reg, NEW v \in Opt(Tables),
           SetUserdataMetatable(s, r, v)
    PROVE  HeapInvariant'
<1>0. PICK K : Safe(K)
  BY SafeSet DEF HeapInvariant
<1>t. PICK o : o = reg[s][r]
  OBVIOUS
<1>v. PICK S : S = Objects({v})
  OBVIOUS
<1>1. o \in Userdatas /\ s \in states /\ o # Nil /\ stage = "run"
  BY <1>t, KindsAreDisjoint DEF SetUserdataMetatable, Runs, Obj, Value
<1>2. o \in K /\ v \in Opt(K)
  BY <1>0, <1>t, <1>1, StackIsSafe DEF SetUserdataMetatable, Opt
<1>3. S \subseteq K
  BY <1>v, <1>2 DEF Objects, Opt
<1>4. /\ meta' = [meta EXCEPT ![o] = v]
      /\ Barrier(o, S, {}, FALSE)
      /\ UNCHANGED <<live, gone, key, val, mode, up, at, cell, states, reg, roots, stage, fins>>
  BY <1>t, <1>v DEF SetUserdataMetatable
<1>5. \A p \in Obj : p # o => Fields(p)' = Fields(p) /\ Steps(p)' = Steps(p)
  BY <1>4 DEF Fields, Steps, Entries, TypeOK, HeapTypes
<1>6. Fields(o)' = S /\ Steps(o)' = S
  BY <1>v, <1>1, <1>4, KindsAreDisjoint DEF Fields, Steps, TypeOK, HeapTypes
<1>7. ASSUME NEW u \in Candidates' PROVE Objects({meta'[u]}) \subseteq K
  <2>1. CASE u = o
    BY <1>v, <1>1, <1>3, <1>4, <2>1 DEF TypeOK, HeapTypes
  <2>2. CASE u # o
    <3>1. u \in Candidates /\ meta'[u] = meta[u]
      BY <1>4, <1>7, <2>2 DEF Candidates, HasGc, fins, TypeOK, HeapTypes
    <3>2. QED
      BY <1>0, <3>1, CandidateIsSafe
  <2>3. QED
    BY <2>1, <2>2
<1>8. QED
  BY <1>0, <1>1, <1>2, <1>3, <1>4, <1>5, <1>6, <1>7, MutationIsSound

LEMMA SafeSetModeField ==
    ASSUME TypeOK, HeapInvariant, NEW t \in Tables, NEW m \in Modes, SetModeField(t, m)
    PROVE  HeapInvariant'
<1>0. PICK K : Safe(K)
  BY SafeSet DEF HeapInvariant
<1>1. /\ UNCHANGED <<live, gone, key, val, meta, up, at, cell, states, reg, roots, stage, fins>>
      /\ stage = "run"
      /\ IF phase = "Sweep" THEN Abort ELSE UNCHANGED <<phase, trace>>
  BY DEF SetModeField
<1>2. \A p \in Obj : /\ Steps(p)' = Steps(p) /\ Fields(p)' = Fields(p)
                     /\ StateEdge(p)' = StateEdge(p)
  BY <1>1 DEF Steps, Entries, Fields, StateEdge
<1>3. \A x \in states : Snapshot(x)' = Snapshot(x)
  BY <1>1 DEF Snapshot, Stack, OpenAt
<1>4. Candidates' = Candidates
  BY <1>1 DEF Candidates, HasGc, fins
<1>5. /\ TraceIsSound' /\ AtomicIsSound'
      /\ Marking' => Marking /\ marked' = marked
      /\ phase' # "Sweep"
  <2>1. CASE phase = "Sweep"
    BY <1>1, <2>1, AbortIsSound DEF HeapInvariant, Drains
  <2>2. CASE phase # "Sweep"
    <3>1. marked \subseteq Obj
      BY DEF TypeOK, TraceTypes
    <3>2. QED
      BY <1>1, <1>2, <2>2, <3>1, MutatorIsSound
         DEF HeapInvariant, TraceIsSound, trace, fins, Drains, Marking
  <2>3. QED
    BY <2>1, <2>2
<1>6. HeapIsSafe'
  <2>1. K \subseteq Obj
    BY <1>0 DEF Safe, TypeOK, HeapTypes
  <2>2. Closed(K)'
    BY <1>0, <1>1, <1>2, <1>3, <1>4, <2>1 DEF Safe, Closed, fins
  <2>3. Safe(K)'
    BY <1>0, <1>1, <1>5, <2>2 DEF Safe
  <2>4. QED
    BY <2>3 DEF Safe, HeapIsSafe
<1>7. Tidy'
  BY <1>1, <1>2 DEF Tidy, HeapInvariant, TypeOK, HeapTypes, Obj
<1>8. QED
  BY <1>1, <1>5, <1>6, <1>7, DeliveryStatic DEF HeapInvariant

LEMMA SafeSetUpvalue ==
    ASSUME TypeOK, HeapInvariant, NEW s \in State, NEW r \in Reg, NEW v \in Opt(Value),
           SetUpvalue(s, r, v)
    PROVE  HeapInvariant'
<1>0. PICK K : Safe(K)
  BY SafeSet DEF HeapInvariant
<1>t. PICK u : u = up[reg[s][r]]
  OBVIOUS
<1>v. PICK S : S = Objects({v})
  OBVIOUS
<1>1. reg[s][r] \in Closures /\ s \in states /\ reg[s][r] # Nil /\ stage = "run"
  BY KindsAreDisjoint DEF SetUpvalue, Runs, Obj, Value
<1>2. u \in Upvalues /\ u \in K
  <2>1. u \in Upvalues
    BY <1>t, <1>1 DEF SetUpvalue, TypeOK, HeapTypes, Opt
  <2>2. u \in Objects({up[reg[s][r]]})
    BY <1>t DEF SetUpvalue, Objects
  <2>3. QED
    BY <1>0, <1>1, <2>1, <2>2, StackIsSafe, StepsOfKind
<1>3. v \in Opt(K) /\ S \subseteq K
  BY <1>0, <1>v, <1>1, StackIsSafe, SMTT(30) DEF SetUpvalue, Opt, Objects
<1>4. CASE at[u] # Nil
  <2>1. PICK s2, r2 : s2 = at[u][1] /\ r2 = at[u][2]
    OBVIOUS
  <2>2. s2 \in State /\ r2 \in Reg
    BY <1>2, <1>4, <2>1, TypedUpvalue
  <2>3. /\ Write(s2, r2, v) /\ stage = "run"
        /\ UNCHANGED <<live, gone, graph, states, roots, phase, stage, trace, fins>>
    BY <1>t, <1>1, <1>4, <2>1 DEF SetUpvalue, Write, graph
  <2>4. HeapIsSafe' /\ Tidy' /\ TraceIsSound' /\ AtomicIsSound'
    BY <1>0, <1>3, <2>2, <2>3, WriteIsSound DEF fins, Drains
  <2>5. QED
    BY <2>3, <2>4, DeliveryStatic DEF HeapInvariant
<1>5. CASE at[u] = Nil
  <2>1. /\ cell' = [cell EXCEPT ![u] = v]
        /\ Barrier(u, S, {}, FALSE)
        /\ UNCHANGED <<live, gone, key, val, mode, meta, up, at, states, reg, roots,
                       stage, fins>>
    BY <1>t, <1>v, <1>5 DEF SetUpvalue
  <2>2. \A p \in Obj : p # u => Fields(p)' = Fields(p) /\ Steps(p)' = Steps(p)
    BY <2>1 DEF Fields, Steps, Entries, TypeOK, HeapTypes
  <2>3. Fields(u)' = S /\ Steps(u)' = S
    BY <1>v, <1>2, <1>5, <2>1, KindsAreDisjoint DEF Fields, Steps, TypeOK, HeapTypes
  <2>4. Candidates' = Candidates
    BY <2>1 DEF Candidates, HasGc, fins
  <2>5. \A w \in Candidates' : Objects({meta'[w]}) \subseteq K
    BY <1>0, <2>1, <2>4, CandidateIsSafe
  <2>6. QED
    BY <1>0, <1>1, <1>2, <1>3, <2>1, <2>2, <2>3, <2>5, MutationIsSound
<1>6. QED
  BY <1>4, <1>5

LEMMA SafeCloseUpvalues ==
    ASSUME TypeOK, HeapInvariant, NEW s \in State, NEW R, CloseUpvalues(s, R)
    PROVE  HeapInvariant'
<1>0. PICK K : Safe(K)
  BY SafeSet DEF HeapInvariant
<1>u. PICK U : U = {u \in OpenAt(s) : at[u][2] \in R}
  OBVIOUS
<1>1. /\ cell' = [u \in Upvalues |-> IF u \in U THEN Located(u) ELSE cell[u]]
      /\ at' = [u \in Upvalues |-> IF u \in U THEN Nil ELSE at[u]]
      /\ UNCHANGED <<live, gone, key, val, mode, meta, up, states, reg, roots, stage, fins>>
      /\ s \in states /\ stage = "run"
  BY <1>u DEF CloseUpvalues, Runs
<1>2. U \subseteq Upvalues /\ U \subseteq K /\ K \subseteq live /\ K \subseteq Obj
  BY <1>0, <1>u, <1>1, StackIsSafe DEF OpenAt, Safe, TypeOK, HeapTypes
<1>3. \A u \in U : at[u] # Nil /\ Located(u) \in Opt(K)
  <2>1. \A u \in U : at[u] # Nil
    BY <1>u, SlotsAssumption DEF OpenAt
  <2>2. QED
    BY <1>0, <1>2, <2>1, UpvalueIsSafe DEF HeapInvariant
<1>4. \A p \in Obj : p \notin U => /\ Fields(p)' = Fields(p) /\ Steps(p)' = Steps(p)
                                   /\ StateEdge(p)' = StateEdge(p)
  BY <1>1 DEF Fields, Steps, Entries, StateEdge
<1>5. \A u \in U : /\ Fields(u)' = Objects({Located(u)}) /\ Steps(u)' = Objects({Located(u)})
                   /\ StateEdge(u)' = {}
  <2>1. \A u \in U : at'[u] = Nil /\ cell'[u] = Located(u)
    BY <1>1, <1>2
  <2>2. QED
    BY <1>2, <2>1, KindsAreDisjoint, SlotsAssumption, SMTT(30) DEF Fields, Steps, StateEdge, Obj, State, Value
<1>6. \A u \in U : Objects({Located(u)}) \subseteq K
  BY <1>3 DEF Objects, Opt
<1>7. /\ TraceIsSound' /\ AtomicIsSound'
      /\ Marking' => Marking /\ marked' \subseteq marked \cup K
      /\ phase' # "Sweep"
  <2> DEFINE B == Objects({Located(u) : u \in {w \in U : Black(w)}})
  <2>1. CASE phase \in {"Propagate", "Sweep"}
    BY <1>1, <2>1, AbortIsSound DEF CloseUpvalues, HeapInvariant, Drains
  <2>2. CASE phase \notin {"Propagate", "Sweep"}
    <3>1. /\ UNCHANGED <<phase, queue, attempted, traced, weakbits, unswept>>
          /\ IF phase = "Pause" THEN UNCHANGED <<marked, gray, rejected>> ELSE Mark(B, {})
      BY <1>u, <2>2 DEF CloseUpvalues
    <3>2. Marking' = Marking /\ (Marking => phase = "Atomic")
      BY <1>1, <2>2, <3>1 DEF Marking, Drains, TypeOK, TraceTypes
    <3>3. B \subseteq K
      BY <1>6 DEF Objects
    <3>4. marked' \subseteq marked \cup K
      BY <3>1, <3>3 DEF Mark
    <3>5. ASSUME Marking
          PROVE  /\ gray' \subseteq marked' /\ ~rejected'
                 /\ roots' \cup pending' \subseteq marked'
                 /\ \A p \in marked' \ gray' :
                        /\ Fields(p)' \subseteq marked'
                        /\ StateEdge(p)' \subseteq attempted \cup queue
      <4>1. Mark(B, {}) /\ TraceIsSound /\ marked \subseteq Obj
        BY <3>1, <3>2, <3>5 DEF HeapInvariant, TypeOK, TraceTypes
      <4>2. /\ gray' \subseteq marked' /\ ~rejected' /\ marked \subseteq marked'
            /\ marked' \ gray' \subseteq marked \ gray /\ B \subseteq marked'
        BY <1>2, <3>3, <3>5, <4>1 DEF Mark, TraceIsSound
      <4>3. \A p \in marked \ gray : Fields(p) \subseteq marked /\ StateEdge(p) \subseteq attempted \cup queue
        BY <3>5, <4>1 DEF TraceIsSound
      <4>4. roots' \cup pending' \subseteq marked'
        BY <1>1, <3>5, <4>1, <4>2 DEF TraceIsSound, fins
      <4>5. ASSUME NEW p \in marked' \ gray'
            PROVE  Fields(p)' \subseteq marked' /\ StateEdge(p)' \subseteq attempted \cup queue
        <5>1. p \in Obj /\ p \in marked \ gray
          BY <4>1, <4>2, <4>5
        <5>2. CASE p \in U
          <6>1. Objects({Located(p)}) \subseteq B
            BY <5>1, <5>2 DEF Objects, Black
          <6>2. QED
            BY <1>5, <4>2, <5>2, <6>1
        <5>3. CASE p \notin U
          BY <1>4, <4>2, <4>3, <5>1, <5>3
        <5>4. QED
          BY <5>2, <5>3
      <4>6. QED
        BY <4>2, <4>4, <4>5
    <3>6. rejected' => rejected
      BY <1>0, <3>1, <3>3 DEF Mark, Safe
    <3>7. TraceIsSound' /\ AtomicIsSound'
      BY <1>1, <3>1, <3>5, <3>6, MutatorIsSound DEF HeapInvariant, Drains
    <3>8. QED
      BY <2>2, <3>1, <3>2, <3>4, <3>7
  <2>3. QED
    BY <2>1, <2>2
<1>8. HeapIsSafe'
  <2>1. \A x \in states : Snapshot(x)' \subseteq K
    <3>1. \A x \in states : Snapshot(x)' \subseteq Snapshot(x)
      BY <1>1, SlotsAssumption DEF Snapshot, Stack, OpenAt, TypeOK, HeapTypes
    <3>2. QED
      BY <1>0, <3>1 DEF Safe, Closed
  <2>2. \A p \in K : Steps(p)' \subseteq K /\ StateEdge(p)' \subseteq states
    BY <1>0, <1>2, <1>4, <1>5, <1>6 DEF Safe, Closed
  <2>3. Candidates' = Candidates
    BY <1>1 DEF Candidates, HasGc, fins
  <2>4. \A w \in Candidates' : Objects({meta'[w]}) \subseteq K
    BY <1>0, <1>1, <2>3, CandidateIsSafe
  <2>5. roots' \cup pending' \subseteq K
    BY <1>0, <1>1 DEF Safe, Closed, fins
  <2>6. QED
    BY <1>0, <1>1, <1>7, <2>1, <2>2, <2>4, <2>5, SafeIntro DEF Safe
<1>9. Tidy'
  <2>1. Tidy
    BY DEF HeapInvariant
  <2>2. \A p \in Obj \ live : Steps(p)' = {}
    BY <1>2, <1>4, <2>1 DEF Tidy
  <2>3. \A p \in live : Steps(p)' \subseteq live \cup gone
    <3>1. \A p \in U : Steps(p)' \subseteq live
      BY <1>2, <1>5, <1>6
    <3>2. live \subseteq Obj
      BY DEF TypeOK, HeapTypes
    <3>3. QED
      BY <1>4, <2>1, <3>1, <3>2 DEF Tidy
  <2>4. \A u \in Upvalues : StateEdge(u)' \subseteq states
    BY <1>4, <1>5, <2>1 DEF Tidy, Obj
  <2>5. QED
    BY <1>1, <2>1, <2>2, <2>3, <2>4 DEF Tidy
<1>10. QED
  BY <1>1, <1>7, <1>8, <1>9, DeliveryStatic DEF HeapInvariant

LEMMA SafeRoots ==
    ASSUME TypeOK, HeapInvariant, NEW o \in Rootable, AddRoot(o) \/ RemoveRoot(o)
    PROVE  HeapInvariant'
<1>0. PICK K : Safe(K)
  BY SafeSet DEF HeapInvariant
<1>1. /\ UNCHANGED <<live, gone, graph, states, reg, stage, fins>> /\ stage = "run"
      /\ roots' \subseteq roots \cup (Stack(Main) \cap {o})
  BY DEF AddRoot, RemoveRoot
<1>2. Main \in states /\ Stack(Main) \subseteq K /\ K \subseteq live
  BY <1>0, StackIsSafe DEF HeapInvariant, Tidy, Safe
<1>3. \A p \in Obj : /\ Steps(p)' = Steps(p) /\ Fields(p)' = Fields(p)
                     /\ StateEdge(p)' = StateEdge(p)
  BY <1>1 DEF Steps, Entries, Fields, StateEdge, graph
<1>4. \A x \in states : Snapshot(x)' = Snapshot(x)
  BY <1>1 DEF Snapshot, Stack, OpenAt, graph
<1>5. Candidates' = Candidates
  BY <1>1 DEF Candidates, HasGc, fins, graph
<1>6. /\ TraceIsSound' /\ AtomicIsSound'
      /\ Marking' => Marking /\ marked' \subseteq marked \cup K
      /\ phase' = "Sweep" => UNCHANGED <<phase, trace>>
  <2>1. CASE UNCHANGED <<phase, trace>> /\ roots' \subseteq roots
    <3>1. marked \subseteq Obj
      BY DEF TypeOK, TraceTypes
    <3>2. QED
      BY <1>1, <1>3, <2>1, <3>1, MutatorIsSound
         DEF HeapInvariant, TraceIsSound, trace, fins, Drains, Marking
  <2>2. CASE Abort
    BY <1>1, <2>2, AbortIsSound DEF HeapInvariant, Drains
  <2>3. CASE /\ phase \notin {"Pause", "Sweep"} /\ Mark({o}, {}) /\ o \in K
             /\ UNCHANGED <<phase, queue, attempted, traced, weakbits, unswept>>
    <3>1. Marking' = Marking /\ marked \subseteq Obj
      BY <1>1, <2>3 DEF Marking, Drains, TypeOK, TraceTypes
    <3>2. /\ marked \subseteq marked' /\ marked' \subseteq marked \cup K /\ o \in marked'
          /\ marked' \ gray' \subseteq marked \ gray
          /\ ~rejected => ~rejected'
          /\ gray \subseteq marked => gray' \subseteq marked'
      BY <1>2, <2>3 DEF Mark
    <3>3. ASSUME Marking
          PROVE  /\ gray' \subseteq marked' /\ ~rejected'
                 /\ roots' \cup pending' \subseteq marked'
                 /\ \A p \in marked' \ gray' :
                        /\ Fields(p)' \subseteq marked'
                        /\ StateEdge(p)' \subseteq attempted \cup queue
      <4>1. TraceIsSound
        BY DEF HeapInvariant
      <4>2. gray' \subseteq marked' /\ ~rejected' /\ roots' \cup pending' \subseteq marked'
        BY <1>1, <3>2, <3>3, <4>1 DEF TraceIsSound, fins
      <4>3. \A p \in marked \ gray : Fields(p) \subseteq marked /\ StateEdge(p) \subseteq attempted \cup queue
        BY <3>3, <4>1 DEF TraceIsSound
      <4>4. QED
        BY <1>3, <3>1, <3>2, <4>2, <4>3
    <3>4. rejected' => rejected
      BY <1>2, <2>3 DEF Mark, Safe
    <3>5. TraceIsSound' /\ AtomicIsSound'
      BY <1>1, <2>3, <3>3, <3>4, MutatorIsSound DEF HeapInvariant, Drains
    <3>6. QED
      BY <2>3, <3>1, <3>2, <3>5
  <2>4. AddRoot(o) => o \in K
    BY <1>2 DEF AddRoot
  <2>5. \/ UNCHANGED <<phase, trace>> /\ roots' \subseteq roots
        \/ Abort
        \/ /\ phase \notin {"Pause", "Sweep"} /\ Mark({o}, {}) /\ o \in K
           /\ UNCHANGED <<phase, queue, attempted, traced, weakbits, unswept>>
        \/ phase = "Pause" /\ UNCHANGED <<phase, trace>>
    <3>1. AddRoot(o) =>
             \/ phase = "Pause" /\ UNCHANGED <<phase, trace>>
             \/ Abort
             \/ /\ phase \notin {"Pause", "Sweep"} /\ Mark({o}, {})
                /\ UNCHANGED <<phase, queue, attempted, traced, weakbits, unswept>>
      <4>1. CASE phase = "Pause"
        BY <4>1 DEF AddRoot
      <4>2. CASE phase = "Sweep"
        BY <4>2 DEF AddRoot
      <4>3. CASE phase \notin {"Pause", "Sweep"}
        BY <1>1, <4>3 DEF AddRoot, Mark, Abort
      <4>4. QED
        BY <4>1, <4>2, <4>3
    <3>2. RemoveRoot(o) => UNCHANGED <<phase, trace>> /\ roots' \subseteq roots
      BY DEF RemoveRoot
    <3>3. QED
      BY <2>4, <3>1, <3>2
  <2>6. CASE phase = "Pause" /\ UNCHANGED <<phase, trace>>
    <3>1. ~ Marking
      BY <1>1, <2>6 DEF Marking, Drains
    <3>2. QED
      BY <1>1, <2>6, <3>1, MutatorIsSound DEF HeapInvariant, trace, Drains, Marking
  <2>7. QED
    BY <2>1, <2>2, <2>3, <2>5, <2>6
<1>7. HeapIsSafe'
  <2>1. \A x \in states : Snapshot(x)' \subseteq K
    BY <1>0, <1>4 DEF Safe, Closed
  <2>2. \A p \in K : Steps(p)' \subseteq K /\ StateEdge(p)' \subseteq states
    BY <1>0, <1>2, <1>3 DEF Safe, Closed, TypeOK, HeapTypes
  <2>3. roots' \cup pending' \subseteq K /\ Candidates' \subseteq K
    BY <1>0, <1>1, <1>2, <1>5 DEF Safe, Closed, fins
  <2>4. \A w \in Candidates' : Objects({meta'[w]}) \subseteq K
    BY <1>0, <1>1, <1>5, CandidateIsSafe DEF graph
  <2>5. QED
    BY <1>0, <1>1, <1>2, <1>6, <2>1, <2>2, <2>3, <2>4, SafeIntro DEF Safe, trace
<1>8. Tidy'
  BY <1>1, <1>3 DEF Tidy, HeapInvariant, TypeOK, HeapTypes, Obj
<1>9. QED
  BY <1>1, <1>6, <1>7, <1>8, DeliveryStatic DEF HeapInvariant

LEMMA SafeHeapOp == IInv /\ HeapOp => HeapInvariant'
BY SafeStore, SafeSetTableMetatable, SafeSetModeField, SafeSetUserdataMetatable,
   SafeSetUpvalue, SafeCloseUpvalues, SafeRoots DEF HeapOp, IInv

-----------------------------------------------------------------------------
(* Allocation *)

\* publish_new_allocation: a new object is born black, or ends the cycle.
LEMMA CreateIsSound ==
    ASSUME TypeOK, HeapInvariant, stage = "run", stage' = "run",
           NEW o \in Obj, NEW S, S \subseteq live, Create(o, S),
           states \subseteq states', roots' = roots, pending' = pending,
           \A p \in Obj : p # o => Fields(p)' = Fields(p),
           Fields(o)' \subseteq S,
           \A p \in Obj : StateEdge(p)' = StateEdge(p)
    PROVE  /\ TraceIsSound' /\ AtomicIsSound'
           /\ Marking' => Marking /\ marked' \subseteq marked \cup S \cup {o}
           /\ phase' # "Sweep"
<1>1. CASE phase = "Pause"
  <2>1. UNCHANGED <<phase, trace>> /\ ~ Marking
    BY <1>1 DEF Create, Marking, Drains
  <2>2. QED
    BY <1>1, <2>1, MutatorIsSound DEF HeapInvariant, trace, Drains, Marking
<1>2. CASE phase # "Pause" /\ (phase = "Sweep" \/ o \in Threads \cup Upvalues)
  BY <1>2, AbortIsSound DEF Create, HeapInvariant, Drains
<1>3. CASE phase \notin {"Pause", "Sweep"} /\ o \notin Threads \cup Upvalues
  <2>1. /\ marked' = marked \cup {o} \cup S /\ gray' = gray \cup (S \ marked)
        /\ ~rejected => ~rejected'
        /\ UNCHANGED <<phase, queue, attempted, traced, weakbits, unswept>>
    <3>1. S \cap live = S
      OBVIOUS
    <3>2. QED
      BY <1>3, <3>1 DEF Create
  <2>2. Marking' = Marking
    BY <2>1 DEF Marking
  <2>3. StateEdge(o) = {}
    BY <1>3, KindsAreDisjoint DEF StateEdge, State
  <2>4. ASSUME Marking
        PROVE  /\ gray' \subseteq marked' /\ ~rejected'
               /\ roots' \cup pending' \subseteq marked'
               /\ \A p \in marked' \ gray' :
                      Fields(p)' \subseteq marked' /\ StateEdge(p)' \subseteq attempted \cup queue
    <3>1. TraceIsSound /\ marked \subseteq Obj
      BY DEF HeapInvariant, TypeOK, TraceTypes
    <3>2. gray' \subseteq marked' /\ ~rejected' /\ roots' \cup pending' \subseteq marked'
      BY <2>1, <2>4, <3>1 DEF TraceIsSound
    <3>3. \A p \in marked \ gray : Fields(p) \subseteq marked /\ StateEdge(p) \subseteq attempted \cup queue
      BY <2>4, <3>1 DEF TraceIsSound
    <3>4. ASSUME NEW p \in marked' \ gray'
          PROVE  Fields(p)' \subseteq marked' /\ StateEdge(p)' \subseteq attempted \cup queue
      <4>1. CASE p = o
        BY <2>1, <2>3, <4>1
      <4>2. CASE p # o
        BY <2>1, <3>1, <3>3, <3>4, <4>2
      <4>3. QED
        BY <4>1, <4>2
    <3>5. QED
      BY <3>2, <3>4
  <2>5. QED
    BY <1>3, <2>1, <2>2, <2>4, MutatorIsSound DEF HeapInvariant, Drains
<1>4. QED
  BY <1>1, <1>2, <1>3

\* The new objects N join the safe set.
LEMMA AllocationIsSound ==
    ASSUME TypeOK, HeapInvariant, NEW K, Safe(K), stage = "run",
           NEW N, N \subseteq Obj, N \cap (live \cup gone) = {},
           live' = live \cup N, gone' = gone, states \subseteq states',
           UNCHANGED <<key, val, meta, roots, stage, fins>>,
           \A x \in states' : Snapshot(x)' \subseteq K \cup N,
           \A p \in Obj \ N : Steps(p)' = Steps(p) /\ StateEdge(p)' = StateEdge(p),
           \A p \in N : Steps(p)' \subseteq K \cup N /\ StateEdge(p)' \subseteq states',
           TraceIsSound', AtomicIsSound', phase' # "Sweep",
           Marking' => Marking /\ marked' \subseteq marked \cup K \cup N
    PROVE  HeapInvariant'
<1>1. K \subseteq live /\ K \subseteq Obj /\ live \subseteq Obj /\ Tidy
  BY DEF Safe, TypeOK, HeapTypes, HeapInvariant
<1>2. PICK L : L = K \cup N
  OBVIOUS
<1>3. ASSUME NEW u \in Candidates' PROVE Objects({meta'[u]}) \subseteq L
  <2>1. u \in Userdatas /\ u \in live \cup N /\ u \notin finalized /\ meta[u] \in live \cup N
        /\ HasGc(u) /\ u \in Obj /\ meta[u] # Nil
    BY <1>3 DEF Candidates, HasGc, fins, Obj, Value
  <2>2. Steps(u) = Objects({meta[u]})
    BY <2>1, StepsOfKind
  <2>3. u \in live
    <3>1. u \notin live => meta[u] \notin Steps(u)
      BY <1>1, <2>1 DEF Tidy
    <3>2. QED
      BY <2>1, <2>2, <3>1 DEF Objects
  <2>4. meta[u] \in live
    <3>1. meta[u] \in live \cup gone
      BY <1>1, <2>1, <2>2, <2>3 DEF Tidy, Objects
    <3>2. QED
      BY <2>1, <3>1
  <2>5. u \in Candidates
    BY <2>1, <2>3, <2>4 DEF Candidates
  <2>6. QED
    BY <1>2, <2>5, CandidateIsSafe
<1>4. HeapIsSafe'
  <2>1. \A p \in L : Steps(p)' \subseteq L /\ StateEdge(p)' \subseteq states'
    BY <1>1, <1>2 DEF Safe, Closed
  <2>2. roots' \cup pending' \subseteq L
    BY <1>2 DEF Safe, Closed, fins
  <2>3. L \subseteq live' /\ \A x \in states' : Snapshot(x)' \subseteq L
    BY <1>1, <1>2
  <2>4. Marking' => marked' \subseteq L
    BY <1>2 DEF Safe
  <2>5. QED
    BY <1>3, <2>1, <2>2, <2>3, <2>4, SafeIntro
<1>5. Tidy'
  <2>1. Main \in states'
    BY <1>1 DEF Tidy
  <2>2. \A p \in Obj \ live' : Steps(p)' = {}
    BY <1>1 DEF Tidy
  <2>3. \A p \in live' : Steps(p)' \subseteq live' \cup gone'
    BY <1>1 DEF Tidy
  <2>4. \A u \in Upvalues : StateEdge(u)' \subseteq states'
    BY <1>1 DEF Tidy, Obj
  <2>5. QED
    BY <2>1, <2>2, <2>3, <2>4 DEF Tidy
<1>6. QED
  BY <1>4, <1>5, DeliveryStatic DEF HeapInvariant

\* The stacks after an allocation that leaves its result in a slot.
LEMMA StacksAfterWrite ==
    ASSUME TypeOK, NEW K, Safe(K), NEW s \in State, NEW r \in Reg, NEW v,
           Write(s, r, v), at' = at
    PROVE  \A x \in states : Snapshot(x)' \subseteq K \cup {v}
<1> SUFFICES ASSUME NEW x \in states PROVE Snapshot(x)' \subseteq K \cup {v}
  OBVIOUS
<1>1. x \in State /\ Snapshot(x) \subseteq K
  BY DEF Safe, Closed, TypeOK, HeapTypes
<1>2. Stack(x)' \subseteq Stack(x) \cup {v}
  BY <1>1 DEF Stack, Objects, Write, TypeOK, HeapTypes
<1>3. OpenAt(x)' = OpenAt(x)
  BY DEF OpenAt
<1>4. QED
  BY <1>1, <1>2, <1>3 DEF Snapshot

LEMMA SafeNew ==
    ASSUME TypeOK, HeapInvariant, NEW s \in State, NEW r \in Reg,
           NEW o \in Tables \cup Userdatas, New(s, r, o)
    PROVE  HeapInvariant'
<1>0. PICK K : Safe(K)
  BY SafeSet DEF HeapInvariant
<1>1. /\ Create(o, {}) /\ Write(s, r, o) /\ stage = "run"
      /\ UNCHANGED <<graph, states, roots, stage, fins>>
      /\ o \in Obj /\ o \notin live \cup gone /\ live' = live \cup {o} /\ gone' = gone
  BY DEF New, Runs, Create, Obj, Value
<1>2. UNCHANGED <<key, val, mode, meta, up, at, cell>> /\ pending' = pending
  BY <1>1 DEF graph, fins
<1>3. \A p \in Obj : /\ Steps(p)' = Steps(p) /\ Fields(p)' = Fields(p)
                     /\ StateEdge(p)' = StateEdge(p)
  BY <1>2 DEF Steps, Entries, Fields, StateEdge
<1>4. Steps(o) = {} /\ Fields(o) = {} /\ StateEdge(o) = {}
  BY <1>1, StepsOfKind DEF HeapInvariant, Tidy
<1>5. /\ TraceIsSound' /\ AtomicIsSound'
      /\ Marking' => Marking /\ marked' \subseteq marked \cup {} \cup {o}
      /\ phase' # "Sweep"
  BY <1>1, <1>2, <1>3, <1>4, CreateIsSound
<1>6. \A x \in states' : Snapshot(x)' \subseteq K \cup {o}
  BY <1>0, <1>1, <1>2, StacksAfterWrite
<1>n. PICK N : N = {o}
  OBVIOUS
<1>7. /\ N \subseteq Obj /\ N \cap (live \cup gone) = {}
      /\ live' = live \cup N /\ gone' = gone /\ states \subseteq states'
      /\ \A x \in states' : Snapshot(x)' \subseteq K \cup N
      /\ \A p \in Obj \ N : Steps(p)' = Steps(p) /\ StateEdge(p)' = StateEdge(p)
      /\ \A p \in N : Steps(p)' \subseteq K \cup N /\ StateEdge(p)' \subseteq states'
      /\ Marking' => Marking /\ marked' \subseteq marked \cup K \cup N
  BY <1>n, <1>1, <1>3, <1>4, <1>5, <1>6
<1>8. QED
  BY <1>0, <1>1, <1>7, <1>5, AllocationIsSound DEF graph

LEMMA SafeNewThread ==
    ASSUME TypeOK, HeapInvariant, NEW s \in State, NEW r \in Reg, NEW th \in Threads,
           NEW v \in Opt(Value), NewThread(s, r, th, v)
    PROVE  HeapInvariant'
<1>0. PICK K : Safe(K)
  BY SafeSet DEF HeapInvariant
<1>1. /\ Create(th, {}) /\ stage = "run" /\ s \in states
      /\ reg' = [reg EXCEPT ![s][r] = th,
                            ![th] = [x \in Reg |-> IF x = r THEN v ELSE Nil]]
      /\ states' = states \cup {th}
      /\ UNCHANGED <<key, val, mode, meta, up, at, cell, roots, stage, fins>>
      /\ th \in Obj /\ th \in State /\ th # Main
      /\ th \notin live \cup gone /\ live' = live \cup {th} /\ gone' = gone
  BY KindsAreDisjoint DEF NewThread, Runs, Create, Obj, Value, State, graph
<1>2. v \in Opt(K)
  BY <1>0, <1>1, StackIsSafe DEF NewThread, Opt
<1>3. \A p \in Obj : /\ Steps(p)' = Steps(p) /\ Fields(p)' = Fields(p)
                     /\ StateEdge(p)' = StateEdge(p)
  BY <1>1 DEF Steps, Entries, Fields, StateEdge
<1>4. Steps(th) = {} /\ Fields(th) = {} /\ StateEdge(th) \subseteq states'
  BY <1>1, StepsOfKind, KindsAreDisjoint DEF StateEdge
<1>5. /\ TraceIsSound' /\ AtomicIsSound'
      /\ Marking' => Marking /\ marked' \subseteq marked \cup {} \cup {th}
      /\ phase' # "Sweep"
  BY <1>1, <1>3, <1>4, CreateIsSound DEF fins
<1>6. th \notin states
  BY <1>0, <1>1, StackIsSafe DEF Safe
<1>7. \A x \in states' : Snapshot(x)' \subseteq K \cup {th}
  <2> SUFFICES ASSUME NEW x \in states' PROVE Snapshot(x)' \subseteq K \cup {th}
    OBVIOUS
  <2>1. OpenAt(x)' = OpenAt(x)
    BY <1>1 DEF OpenAt
  <2>2. CASE x \in states
    <3>1. x \in State /\ Snapshot(x) \subseteq K /\ x # th
      BY <1>0, <1>6, <2>2 DEF Safe, Closed, TypeOK, HeapTypes
    <3>2. \A y \in Reg : reg'[x][y] \in {reg[x][y], th}
      BY <1>1, <3>1 DEF TypeOK, HeapTypes
    <3>3. Stack(x)' \subseteq Stack(x) \cup {th}
      BY <3>2 DEF Stack, Objects
    <3>4. QED
      BY <2>1, <3>1, <3>3 DEF Snapshot
  <2>3. CASE x = th
    <3>1. OpenAt(th) = {}
      <4>1. \A u \in OpenAt(th) : u \in Upvalues /\ th \in StateEdge(u)
        BY <1>1 DEF OpenAt, StateEdge
      <4>2. QED
        BY <1>6, <4>1 DEF HeapInvariant, Tidy
    <3>2. \A y \in Reg : reg'[th][y] \in {v, Nil}
      BY <1>1 DEF TypeOK, HeapTypes
    <3>3. Stack(th)' \subseteq K
      BY <1>2, <3>2 DEF Stack, Objects, Opt
    <3>4. QED
      BY <2>1, <2>3, <3>1, <3>3 DEF Snapshot
  <2>4. QED
    BY <1>1, <2>2, <2>3
<1>n. PICK N : N = {th}
  OBVIOUS
<1>8. /\ N \subseteq Obj /\ N \cap (live \cup gone) = {}
      /\ live' = live \cup N /\ gone' = gone /\ states \subseteq states'
      /\ \A x \in states' : Snapshot(x)' \subseteq K \cup N
      /\ \A p \in Obj \ N : Steps(p)' = Steps(p) /\ StateEdge(p)' = StateEdge(p)
      /\ \A p \in N : Steps(p)' \subseteq K \cup N /\ StateEdge(p)' \subseteq states'
      /\ Marking' => Marking /\ marked' \subseteq marked \cup K \cup N
  BY <1>n, <1>1, <1>3, <1>4, <1>5, <1>7
<1>9. QED
  BY <1>0, <1>1, <1>8, <1>5, AllocationIsSound

LEMMA SafeNewClosureShared ==
    ASSUME TypeOK, HeapInvariant, NEW s \in State, NEW r \in Reg, NEW c \in Closures,
           NEW u \in Upvalues, NEW x \in Reg, NewClosureShared(s, r, c, u, x)
    PROVE  HeapInvariant'
<1>0. PICK K : Safe(K)
  BY SafeSet DEF HeapInvariant
<1>1. /\ Create(c, {u}) /\ Write(s, r, c) /\ stage = "run" /\ s \in states
      /\ up' = [up EXCEPT ![c] = u]
      /\ UNCHANGED <<key, val, mode, meta, at, cell, states, roots, stage, fins>>
      /\ c \in Obj /\ c \notin live \cup gone /\ live' = live \cup {c} /\ gone' = gone
      /\ u \in OpenAt(s)
  BY DEF NewClosureShared, Runs, Create, Obj, Value
<1>2. u \in K /\ u \in live
  BY <1>0, <1>1, StackIsSafe DEF Safe
<1>3. \A p \in Obj : p # c => Steps(p)' = Steps(p) /\ Fields(p)' = Fields(p)
  BY <1>1 DEF Steps, Entries, Fields, TypeOK, HeapTypes
<1>4. \A p \in Obj : StateEdge(p)' = StateEdge(p)
  BY <1>1 DEF StateEdge
<1>5. Steps(c)' \subseteq {u} /\ Fields(c)' \subseteq {u} /\ StateEdge(c) = {}
  <2>1. up'[c] = u
    BY <1>1 DEF TypeOK, HeapTypes
  <2>2. QED
    BY <2>1, StepsOfKind, KindsAreDisjoint DEF Steps, Fields, Objects, Obj, Value
<1>6. /\ TraceIsSound' /\ AtomicIsSound'
      /\ Marking' => Marking /\ marked' \subseteq marked \cup {u} \cup {c}
      /\ phase' # "Sweep"
  BY <1>1, <1>2, <1>3, <1>4, <1>5, CreateIsSound DEF fins
<1>7. \A y \in states' : Snapshot(y)' \subseteq K \cup {c}
  BY <1>0, <1>1, StacksAfterWrite
<1>n. PICK N : N = {c}
  OBVIOUS
<1>8. /\ N \subseteq Obj /\ N \cap (live \cup gone) = {}
      /\ live' = live \cup N /\ gone' = gone /\ states \subseteq states'
      /\ \A y \in states' : Snapshot(y)' \subseteq K \cup N
      /\ \A p \in Obj \ N : Steps(p)' = Steps(p) /\ StateEdge(p)' = StateEdge(p)
      /\ \A p \in N : Steps(p)' \subseteq K \cup N /\ StateEdge(p)' \subseteq states'
      /\ Marking' => Marking /\ marked' \subseteq marked \cup K \cup N
  BY <1>n, <1>1, <1>2, <1>3, <1>4, <1>5, <1>6, <1>7
<1>9. QED
  BY <1>0, <1>1, <1>8, <1>6, AllocationIsSound

LEMMA SafeNewClosureFresh ==
    ASSUME TypeOK, HeapInvariant, NEW s \in State, NEW r \in Reg, NEW c \in Closures,
           NEW u \in Upvalues, NEW x \in Reg, NewClosureFresh(s, r, c, u, x)
    PROVE  HeapInvariant'
<1>0. PICK K : Safe(K)
  BY SafeSet DEF HeapInvariant
<1>1. /\ Write(s, r, c) /\ stage = "run" /\ s \in states
      /\ up' = [up EXCEPT ![c] = u] /\ at' = [at EXCEPT ![u] = <<s, x>>]
      /\ UNCHANGED <<key, val, mode, meta, cell, states, roots, stage, fins>>
      /\ c \in Obj /\ u \in Obj /\ {c, u} \cap (live \cup gone) = {}
      /\ live' = live \cup {c, u} /\ gone' = gone
      /\ IF phase = "Pause" THEN UNCHANGED <<phase, trace>> ELSE Abort
  BY DEF NewClosureFresh, Runs, Obj, Value
<1>2. \A p \in Obj \ {c, u} : /\ Steps(p)' = Steps(p) /\ Fields(p)' = Fields(p)
                              /\ StateEdge(p)' = StateEdge(p)
  BY <1>1 DEF Steps, Entries, Fields, StateEdge, TypeOK, HeapTypes
<1>3. at'[u] = <<s, x>> /\ up'[c] = u
  BY <1>1 DEF TypeOK, HeapTypes
<1>4. Steps(c)' \subseteq {u} /\ StateEdge(c)' = {}
  BY <1>3, KindsAreDisjoint DEF Steps, Fields, Objects, StateEdge, Obj, Value, State
<1>5. Steps(u)' = {} /\ StateEdge(u)' \subseteq states
  BY <1>1, <1>3, KindsAreDisjoint, SlotsAssumption
     DEF Steps, Fields, Objects, StateEdge, Obj, Value, State
<1>6. /\ TraceIsSound' /\ AtomicIsSound' /\ ~ Marking' /\ phase' # "Sweep"
  <2>1. CASE phase = "Pause"
    <3>1. ~ Marking /\ ~ Marking'
      BY <1>1, <2>1 DEF Marking, Drains
    <3>2. QED
      BY <1>1, <2>1, <3>1, MutatorIsSound DEF HeapInvariant, trace, Drains
  <2>2. CASE phase # "Pause"
    BY <1>1, <2>2, AbortIsSound DEF HeapInvariant, Drains
  <2>3. QED
    BY <2>1, <2>2
<1>7. \A y \in states' : Snapshot(y)' \subseteq K \cup {c, u}
  <2> SUFFICES ASSUME NEW y \in states PROVE Snapshot(y)' \subseteq K \cup {c, u}
    BY <1>1
  <2>1. y \in State /\ Snapshot(y) \subseteq K
    BY <1>0 DEF Safe, Closed, TypeOK, HeapTypes
  <2>2. Stack(y)' \subseteq Stack(y) \cup {c}
    BY <1>1, <2>1 DEF Stack, Objects, Write, TypeOK, HeapTypes
  <2>3. OpenAt(y)' \subseteq OpenAt(y) \cup {u}
    BY <1>1 DEF OpenAt, TypeOK, HeapTypes
  <2>4. QED
    BY <2>1, <2>2, <2>3 DEF Snapshot
<1>n. PICK N : N = {c, u}
  OBVIOUS
<1>8. /\ N \subseteq Obj /\ N \cap (live \cup gone) = {}
      /\ live' = live \cup N /\ gone' = gone /\ states \subseteq states'
      /\ \A y \in states' : Snapshot(y)' \subseteq K \cup N
      /\ \A p \in Obj \ N : Steps(p)' = Steps(p) /\ StateEdge(p)' = StateEdge(p)
      /\ \A p \in N : Steps(p)' \subseteq K \cup N /\ StateEdge(p)' \subseteq states'
      /\ Marking' => Marking /\ marked' \subseteq marked \cup K \cup N
  BY <1>n, <1>1, <1>2, <1>4, <1>5, <1>6, <1>7
<1>9. QED
  BY <1>0, <1>1, <1>8, <1>6, AllocationIsSound

LEMMA SafeAllocation == IInv /\ Allocation => HeapInvariant'
BY SafeNew, SafeNewThread, SafeNewClosureShared, SafeNewClosureFresh DEF Allocation, IInv

-----------------------------------------------------------------------------
(* Units of a cycle that trace *)

\* The seeds of a fresh trace.
LEMMA BeginMarkIsSound ==
    ASSUME TypeOK, HeapInvariant, NEW K, Safe(K), UNCHANGED heap,
           NEW P, P \subseteq K, pending' = P, BeginMark(P)
    PROVE  TraceIsSound' /\ marked' \subseteq K /\ attempted' = {} /\ marked' \ gray' = {}
<1>1. roots \subseteq K /\ K \subseteq live /\ Main \in states
  BY DEF Safe, Closed, HeapInvariant, Tidy
<1>2. /\ marked' = roots \cup P /\ gray' = roots \cup P /\ ~rejected'
      /\ queue' = {Main} /\ attempted' = {} /\ traced' = {}
  BY <1>1 DEF BeginMark
<1>3. UNCHANGED <<roots, states>>
  BY DEF heap
<1>4. QED
  BY <1>1, <1>2, <1>3 DEF TraceIsSound

\* The heap during a unit that does not touch it.
LEMMA StaticHeap ==
    ASSUME UNCHANGED heap
    PROVE  /\ \A p : Steps(p)' = Steps(p) /\ Fields(p)' = Fields(p)
           /\ \A p : StateEdge(p)' = StateEdge(p) /\ Snapshot(p)' = Snapshot(p)
           /\ \A p, m : StrongEntries(p, m)' = StrongEntries(p, m)
           /\ UNCHANGED <<live, gone, key, val, mode, meta, up, at, cell, states, reg, roots>>
BY DEF heap, graph, Steps, Entries, Fields, StateEdge, Snapshot, Stack, OpenAt, StrongEntries

LEMMA SafeTraceState ==
    ASSUME TypeOK, HeapInvariant, NEW s \in State, TraceState(s)
    PROVE  HeapInvariant'
<1>0. PICK K : Safe(K)
  BY SafeSet DEF HeapInvariant
<1>1. Marking /\ TraceIsSound /\ AtomicIsSound
  BY DEF TraceState, Tracing, Marking, HeapInvariant
<1>2. s \in states /\ s \in queue
  BY <1>1 DEF TraceState, TraceIsSound
<1>3. PICK S : S = Snapshot(s)
  OBVIOUS
<1>4. S \subseteq K /\ K \subseteq live /\ marked \subseteq K
  BY <1>0, <1>1, <1>2, <1>3 DEF Safe, Closed
<1>5. /\ UNCHANGED <<heap, stage, weakbits, unswept, fins>>
      /\ queue' = queue \ {s} /\ attempted' = attempted \cup {s} /\ traced' = traced \cup {s}
      /\ Mark(S, {})
      /\ phase' = IF stage = "run" /\ queue' = {} /\ gray' = {} THEN "Atomic" ELSE phase
  BY <1>2, <1>3 DEF TraceState, EnterAtomicWhenComplete
<1>6. /\ marked' = marked \cup S /\ gray' = gray \cup (S \ marked) /\ ~rejected'
  <2>1. S \cap live = S
    BY <1>4
  <2>2. QED
    BY <1>1, <1>5, <2>1 DEF Mark, TraceIsSound
<1>7. Marking' /\ phase' # "Sweep"
  BY <1>1, <1>5 DEF Marking, AtomicIsSound, TraceState, Tracing, Drains
<1>8. TraceIsSound'
  <2>1. gray' \subseteq marked' /\ ~rejected' /\ marked' \ gray' \subseteq marked \ gray
    BY <1>1, <1>6 DEF TraceIsSound
  <2>2. roots' \cup pending' \subseteq marked'
    BY <1>1, <1>5, <1>6 DEF TraceIsSound, heap, fins
  <2>3. \A p \in marked' \ gray' :
            Fields(p)' \subseteq marked' /\ StateEdge(p)' \subseteq attempted' \cup queue'
    BY <1>1, <1>5, <1>6, <2>1, StaticHeap DEF TraceIsSound
  <2>4. /\ attempted' \subseteq traced' /\ {Main} \cup traced' \subseteq attempted' \cup queue'
        /\ queue' \cup traced' \subseteq states'
    BY <1>1, <1>2, <1>5, StaticHeap DEF TraceIsSound
  <2>5. QED
    BY <2>1, <2>2, <2>3, <2>4 DEF TraceIsSound
<1>9. AtomicIsSound'
  <2>1. phase' = "Atomic" /\ stage' \notin Drains => queue' = {}
    BY <1>5 DEF TraceState, Tracing, Drains
  <2>2. stage \in Drains => phase' = phase
    BY <1>5 DEF Drains
  <2>3. stage' \in Drains => \A x \in attempted' : Snapshot(x)' \subseteq marked'
    BY <1>1, <1>3, <1>5, <1>6, StaticHeap DEF AtomicIsSound
  <2>4. stage' \in Drains \ {"rescan"} =>
            \A t \in (marked' \ gray') \cap Tables :
               StrongEntries(t, mode[t])' \subseteq marked' /\ weakbits'[t] = mode'[t]
    <3>1. marked' \ gray' \subseteq marked \ gray
      BY <1>6
    <3>2. \A t : StrongEntries(t, mode[t])' = StrongEntries(t, mode[t])
      BY <1>5 DEF StrongEntries, heap, graph
    <3>3. QED
      BY <1>1, <1>5, <1>6, <3>1, <3>2, StaticHeap DEF AtomicIsSound
  <2>5. stage' = "resurrect" => Candidates' \subseteq marked'
    <3>1. Candidates' = Candidates
      BY <1>5 DEF Candidates, HasGc, heap, graph, fins
    <3>2. QED
      BY <1>1, <1>5, <1>6, <3>1 DEF AtomicIsSound
  <2>6. QED
    BY <1>1, <1>5, <2>1, <2>2, <2>3, <2>4, <2>5 DEF AtomicIsSound, Drains
<1>10. HeapIsSafe'
  BY <1>0, <1>4, <1>5, <1>6, <1>7, SafeStatic DEF fins
<1>11. QED
  BY <1>5, <1>8, <1>9, <1>10, TidyStatic, DeliveryStatic DEF HeapInvariant

LEMMA SafeTraceObject ==
    ASSUME TypeOK, HeapInvariant, NEW o \in Obj, TraceObject(o)
    PROVE  HeapInvariant'
<1>0. PICK K : Safe(K)
  BY SafeSet DEF HeapInvariant
<1>1. Marking /\ TraceIsSound /\ AtomicIsSound
  BY DEF TraceObject, Tracing, Marking, HeapInvariant
<1>2. o \in gray /\ o \in marked /\ queue = {}
  BY <1>1 DEF TraceObject, TraceIsSound
<1>3. PICK S : S = Children(o)
  OBVIOUS
<1>4. S \subseteq K /\ K \subseteq live /\ marked \subseteq K /\ StateEdge(o) \subseteq states
  <2>1. o \in K /\ K \subseteq live /\ marked \subseteq K
    BY <1>0, <1>1, <1>2 DEF Safe
  <2>2. Steps(o) \subseteq K /\ StateEdge(o) \subseteq states
    BY <1>0, <2>1 DEF Safe, Closed
  <2>3. Children(o) \subseteq Steps(o)
    BY DEF Children, Steps, StrongEntries, Entries, Objects
  <2>4. QED
    BY <1>3, <2>1, <2>2, <2>3
<1>5. /\ UNCHANGED <<heap, stage, attempted, traced, unswept, fins>>
      /\ queue' = StateEdge(o) \ attempted
      /\ weakbits' = (IF o \in Tables THEN [weakbits EXCEPT ![o] = mode[o]] ELSE weakbits)
      /\ Mark(S, {o})
      /\ phase' = IF stage = "run" /\ queue' = {} /\ gray' = {} THEN "Atomic" ELSE phase
  BY <1>3 DEF TraceObject, EnterAtomicWhenComplete
<1>6. /\ marked' = marked \cup S /\ gray' = (gray \ {o}) \cup (S \ marked) /\ ~rejected'
  <2>1. S \cap live = S
    BY <1>4
  <2>2. QED
    BY <1>1, <1>5, <2>1 DEF Mark, TraceIsSound
<1>7. Marking' /\ phase' # "Sweep"
  BY <1>1, <1>5 DEF Marking, AtomicIsSound, TraceObject, Tracing, Drains
<1>8. gray' \subseteq marked' /\ marked' \ gray' \subseteq (marked \ gray) \cup {o}
  BY <1>1, <1>2, <1>6 DEF TraceIsSound
<1>9. TraceIsSound'
  <2>1. roots' \cup pending' \subseteq marked'
    BY <1>1, <1>5, <1>6 DEF TraceIsSound, heap, fins
  <2>2. ASSUME NEW p \in marked' \ gray'
        PROVE  Fields(p)' \subseteq marked' /\ StateEdge(p)' \subseteq attempted' \cup queue'
    <3>1. Fields(p)' = Fields(p) /\ StateEdge(p)' = StateEdge(p)
      BY <1>5, StaticHeap
    <3>2. CASE p = o
      <4>1. Fields(o) \subseteq S
        BY <1>3, StepsOfKind DEF Children
      <4>2. QED
        BY <1>5, <1>6, <3>1, <3>2, <4>1
    <3>3. CASE p # o
      BY <1>1, <1>2, <1>5, <1>6, <1>8, <2>2, <3>1, <3>3 DEF TraceIsSound
    <3>4. QED
      BY <3>2, <3>3
  <2>3. /\ attempted' \subseteq traced' /\ {Main} \cup traced' \subseteq attempted' \cup queue'
        /\ queue' \cup traced' \subseteq states'
    BY <1>1, <1>2, <1>4, <1>5, StaticHeap DEF TraceIsSound
  <2>4. QED
    BY <1>6, <1>8, <2>1, <2>2, <2>3 DEF TraceIsSound
<1>10. AtomicIsSound'
  <2>1. phase' = "Atomic" /\ stage' \notin Drains => queue' = {}
    BY <1>5 DEF TraceObject, Tracing, Drains
  <2>2. stage \in Drains => phase' = phase
    BY <1>5 DEF Drains
  <2>3. stage' \in Drains => \A x \in attempted' : Snapshot(x)' \subseteq marked'
    BY <1>1, <1>5, <1>6, StaticHeap DEF AtomicIsSound
  <2>4. ASSUME stage' \in Drains \ {"rescan"}, NEW t \in (marked' \ gray') \cap Tables
        PROVE  StrongEntries(t, mode[t])' \subseteq marked' /\ weakbits'[t] = mode'[t]
    <3>1. StrongEntries(t, mode[t])' = StrongEntries(t, mode[t])
      BY <1>5 DEF StrongEntries, heap, graph
    <3>2. CASE t = o
      <4>1. weakbits'[t] = mode'[t]
        BY <1>5, <3>2, StaticHeap DEF TypeOK, TraceTypes
      <4>2. QED
        BY <1>3, <1>6, <3>1, <3>2, <4>1 DEF Children
    <3>3. CASE t # o
      BY <1>1, <1>5, <1>6, <1>8, <2>4, <3>1, <3>3, StaticHeap
         DEF AtomicIsSound, TypeOK, TraceTypes
    <3>4. QED
      BY <3>2, <3>3
  <2>5. stage' = "resurrect" => Candidates' \subseteq marked'
    <3>1. Candidates' = Candidates
      BY <1>5 DEF Candidates, HasGc, heap, graph, fins
    <3>2. QED
      BY <1>1, <1>5, <1>6, <3>1 DEF AtomicIsSound
  <2>6. QED
    BY <1>1, <1>5, <2>1, <2>2, <2>3, <2>4, <2>5 DEF AtomicIsSound, Drains
<1>11. HeapIsSafe'
  BY <1>0, <1>4, <1>5, <1>6, <1>7, SafeStatic DEF fins
<1>12. QED
  BY <1>5, <1>9, <1>10, <1>11, TidyStatic, DeliveryStatic DEF HeapInvariant

LEMMA SafeBeginCycle ==
    ASSUME TypeOK, HeapInvariant, BeginCycle
    PROVE  HeapInvariant'
<1>0. PICK K : Safe(K)
  BY SafeSet DEF HeapInvariant
<1>1. UNCHANGED <<heap, stage, fins>> /\ phase' = "Propagate" /\ stage = "run"
  BY DEF BeginCycle
<1>2. pending \subseteq K
  BY <1>0 DEF Safe, Closed
<1>3. TraceIsSound' /\ marked' \subseteq K
  BY <1>0, <1>1, <1>2, BeginMarkIsSound DEF BeginCycle, fins
<1>4. AtomicIsSound'
  BY <1>1 DEF AtomicIsSound, Drains
<1>5. HeapIsSafe'
  BY <1>0, <1>1, <1>3, SafeStatic DEF fins
<1>6. QED
  BY <1>1, <1>3, <1>4, <1>5, TidyStatic, DeliveryStatic DEF HeapInvariant

LEMMA SafeStartAtomic ==
    ASSUME TypeOK, HeapInvariant, StartAtomic
    PROVE  HeapInvariant'
<1>0. PICK K : Safe(K)
  BY SafeSet DEF HeapInvariant
<1>1. /\ UNCHANGED <<heap, phase, traced, weakbits, unswept, fins>>
      /\ stage = "run" /\ phase = "Atomic" /\ stage' = "rescan"
      /\ queue' = {Main} \cup traced /\ attempted' = {}
  BY DEF StartAtomic
<1>2. Marking /\ Marking' /\ TraceIsSound /\ queue = {}
  BY <1>1 DEF Marking, HeapInvariant, AtomicIsSound, Drains
<1>3. PICK S : S = Objects({current})
  OBVIOUS
<1>4. S \subseteq pending /\ S \subseteq K /\ S \subseteq live /\ marked \subseteq K
  <2>1. S \subseteq pending
    BY <1>3 DEF HeapInvariant, DeliveryIsSound, Objects
  <2>2. pending \subseteq K /\ K \subseteq live /\ marked \subseteq K
    BY <1>0, <1>2 DEF Safe, Closed
  <2>3. QED
    BY <2>1, <2>2
<1>5. marked' = marked /\ gray' = gray /\ ~rejected'
  <2>1. Mark(S, {})
    BY <1>3 DEF StartAtomic
  <2>2. S \subseteq marked
    BY <1>2, <1>4 DEF TraceIsSound
  <2>3. QED
    BY <1>2, <1>4, <2>1, <2>2 DEF Mark, TraceIsSound
<1>6. TraceIsSound'
  <2>1. \A p : Fields(p)' = Fields(p) /\ StateEdge(p)' = StateEdge(p)
    BY <1>1, StaticHeap
  <2>2. Main \in states /\ traced \subseteq states
    BY <1>2 DEF TraceIsSound, HeapInvariant, Tidy
  <2>3. roots' = roots /\ states' = states /\ pending' = pending
    BY <1>1 DEF heap, fins
  <2>4. QED
    BY <1>1, <1>2, <1>5, <2>1, <2>2, <2>3 DEF TraceIsSound
<1>7. AtomicIsSound'
  BY <1>1 DEF AtomicIsSound, Drains
<1>8. HeapIsSafe'
  BY <1>0, <1>1, <1>4, <1>5, SafeStatic DEF fins
<1>9. DeliveryIsSound'
  BY <1>1 DEF HeapInvariant, DeliveryIsSound, fins
<1>10. QED
  BY <1>1, <1>6, <1>7, <1>8, <1>9, TidyStatic DEF HeapInvariant

LEMMA SafeReconcile ==
    ASSUME TypeOK, HeapInvariant, Reconcile
    PROVE  HeapInvariant'
<1>0. PICK K : Safe(K)
  BY SafeSet DEF HeapInvariant
<1>1. /\ UNCHANGED <<heap, phase, queue, attempted, traced, unswept, fins>>
      /\ stage = "rescan" /\ stage' = "modes" /\ gray = {} /\ queue = {}
      /\ weakbits' = [t \in Tables |-> IF t \in marked THEN mode[t] ELSE weakbits[t]]
  BY DEF Reconcile, Drained
<1>2. Marking /\ Marking' /\ TraceIsSound /\ AtomicIsSound /\ phase = "Atomic"
  BY <1>1 DEF Marking, HeapInvariant, AtomicIsSound, Drains
<1>3. PICK S : S = UNION {StrongEntries(t, mode[t]) : t \in marked \cap Tables}
  OBVIOUS
<1>4. S \subseteq K /\ marked \subseteq K /\ K \subseteq live
  <2>1. marked \subseteq K /\ K \subseteq live
    BY <1>0, <1>2 DEF Safe
  <2>2. \A t \in K \cap Tables : StrongEntries(t, mode[t]) \subseteq K
    <3>1. \A t \in Tables : StrongEntries(t, mode[t]) \subseteq Steps(t)
      BY DEF StrongEntries, Steps, Entries, Objects
    <3>2. QED
      BY <1>0, <3>1 DEF Safe, Closed
  <2>3. QED
    BY <1>3, <2>1, <2>2
<1>5. /\ marked' = marked \cup S /\ gray' = S \ marked /\ ~rejected'
  <2>1. S \cap live = S /\ Mark(S, {})
    BY <1>3, <1>4 DEF Reconcile
  <2>2. QED
    BY <1>1, <1>2, <1>4, <2>1 DEF Mark, TraceIsSound
<1>6. marked' \ gray' \subseteq marked
  BY <1>5
<1>7. TraceIsSound'
  <2>1. \A p \in marked : Fields(p)' \subseteq marked /\ StateEdge(p)' \subseteq attempted \cup queue
    BY <1>1, <1>2, StaticHeap DEF TraceIsSound
  <2>2. roots' = roots /\ states' = states /\ pending' = pending
    BY <1>1 DEF heap, fins
  <2>3. QED
    BY <1>1, <1>2, <1>5, <1>6, <2>1, <2>2 DEF TraceIsSound
<1>8. AtomicIsSound'
  <2>1. \A x \in attempted' : Snapshot(x)' \subseteq marked'
    BY <1>1, <1>2, <1>5, StaticHeap DEF AtomicIsSound, Drains
  <2>2. ASSUME NEW t \in (marked' \ gray') \cap Tables
        PROVE  StrongEntries(t, mode[t])' \subseteq marked' /\ weakbits'[t] = mode'[t]
    <3>1. StrongEntries(t, mode[t])' = StrongEntries(t, mode[t])
      BY <1>1 DEF StrongEntries, heap, graph
    <3>2. StrongEntries(t, mode[t]) \subseteq S
      BY <1>3, <1>6, <2>2
    <3>3. weakbits'[t] = mode'[t]
      BY <1>1, <1>6, <2>2, StaticHeap
    <3>4. QED
      BY <1>5, <3>1, <3>2, <3>3
  <2>3. QED
    BY <1>1, <1>2, <2>1, <2>2 DEF AtomicIsSound, Drains
<1>9. HeapIsSafe'
  BY <1>0, <1>1, <1>2, <1>4, <1>5, SafeStatic DEF fins
<1>10. DeliveryIsSound'
  BY <1>1 DEF HeapInvariant, DeliveryIsSound, fins
<1>11. QED
  BY <1>1, <1>7, <1>8, <1>9, <1>10, TidyStatic DEF HeapInvariant

\* Queuing the finalizable userdata.
LEMMA QueueIsSound ==
    ASSUME TypeOK, HeapInvariant, Queue(Finalizable), UNCHANGED <<called, current, draining>>,
           stage' # "deliver"
    PROVE  /\ DeliveryIsSound'
           /\ Finalizable \subseteq Candidates
           /\ pending' = pending \cup Finalizable /\ finalized \subseteq finalized'
<1>1. pending' = pending \cup Finalizable /\ finalized' = finalized \cup Finalizable
  BY DEF Queue
<1>2. Finalizable \cap finalized = {} /\ Finalizable \subseteq Candidates
  BY DEF Finalizable, Candidates
<1>3. DeliveryIsSound'
  BY <1>1, <1>2 DEF HeapInvariant, DeliveryIsSound
<1>4. QED
  BY <1>1, <1>2, <1>3

LEMMA SafePrepareFinalizers ==
    ASSUME TypeOK, HeapInvariant, PrepareFinalizers
    PROVE  HeapInvariant'
<1>0. PICK K : Safe(K)
  BY SafeSet DEF HeapInvariant
<1>1. /\ UNCHANGED <<heap, phase, queue, attempted, traced, weakbits, unswept>>
      /\ stage = "modes" /\ stage' = "resurrect" /\ gray = {} /\ queue = {}
      /\ Queue(Finalizable) /\ UNCHANGED <<draining, current, called>>
  BY DEF PrepareFinalizers, Drained
<1>2. Marking /\ Marking' /\ TraceIsSound /\ AtomicIsSound /\ phase = "Atomic"
  BY <1>1 DEF Marking, HeapInvariant, AtomicIsSound, Drains
<1>3. PICK S : S = Finalizable
  OBVIOUS
<1>4. /\ DeliveryIsSound' /\ S \subseteq Candidates
      /\ pending' = pending \cup S /\ finalized \subseteq finalized'
  BY <1>1, <1>3, QueueIsSound
<1>5. S \subseteq K /\ marked \subseteq K /\ K \subseteq live
  BY <1>0, <1>2, <1>4 DEF Safe, Closed
<1>6. /\ marked' = marked \cup S /\ gray' = S \ marked /\ ~rejected'
  <2>1. S \cap live = S /\ Mark(S, {})
    BY <1>3, <1>5 DEF PrepareFinalizers
  <2>2. QED
    BY <1>1, <1>2, <1>5, <2>1 DEF Mark, TraceIsSound
<1>7. marked' \ gray' \subseteq marked
  BY <1>6
<1>8. TraceIsSound'
  <2>1. \A p \in marked : Fields(p)' \subseteq marked /\ StateEdge(p)' \subseteq attempted \cup queue
    BY <1>1, <1>2, StaticHeap DEF TraceIsSound
  <2>2. roots' = roots /\ states' = states
    BY <1>1 DEF heap
  <2>3. QED
    BY <1>1, <1>2, <1>4, <1>6, <1>7, <2>1, <2>2 DEF TraceIsSound
<1>9. AtomicIsSound'
  <2>1. \A x \in attempted' : Snapshot(x)' \subseteq marked'
    BY <1>1, <1>2, <1>6, StaticHeap DEF AtomicIsSound, Drains
  <2>2. ASSUME NEW t \in (marked' \ gray') \cap Tables
        PROVE  StrongEntries(t, mode[t])' \subseteq marked' /\ weakbits'[t] = mode'[t]
    <3>1. StrongEntries(t, mode[t])' = StrongEntries(t, mode[t]) /\ mode' = mode
      BY <1>1 DEF StrongEntries, heap, graph
    <3>2. StrongEntries(t, mode[t]) \subseteq marked /\ weakbits[t] = mode[t]
      BY <1>1, <1>2, <1>7, <2>2 DEF AtomicIsSound, Drains
    <3>3. QED
      BY <1>1, <1>6, <3>1, <3>2
  <2>3. Candidates' \subseteq marked'
    <3>1. \A u \in Candidates' : u \in Candidates /\ u \notin Finalizable
      BY <1>1 DEF Candidates, HasGc, Queue, heap, graph
    <3>2. Candidates \ Finalizable \subseteq marked
      BY DEF Candidates, Finalizable
    <3>3. QED
      BY <1>6, <3>1, <3>2
  <2>4. QED
    BY <1>1, <1>2, <2>1, <2>2, <2>3 DEF AtomicIsSound, Drains
<1>10. HeapIsSafe'
  BY <1>0, <1>1, <1>2, <1>4, <1>5, <1>6, SafeStatic
<1>11. QED
  BY <1>1, <1>4, <1>8, <1>9, <1>10, TidyStatic DEF HeapInvariant

-----------------------------------------------------------------------------
(* Reclaiming *)

\* The object graph after Reclaim.
ReclaimEffect(C, U, S, D) ==
    /\ \A p \in C \cup D : Steps(p)' = {}
    /\ \A p \in U \ D : Steps(p)' = Objects({Located(p)})
    /\ \A p \in Obj \ (C \cup U \cup D) : Steps(p)' = Steps(p)
    /\ \A p \in U : StateEdge(p)' = {}
    /\ \A p \in Obj \ U : StateEdge(p)' = StateEdge(p)
    /\ \A x \in states \ S : Snapshot(x)' \subseteq Snapshot(x)
    /\ Candidates' \subseteq Candidates

LEMMA ReclaimSteps ==
    ASSUME TypeOK, NEW C, C \subseteq Tables, NEW U, U \subseteq Upvalues, NEW S, NEW D,
           D \subseteq Obj, Reclaim(C, U, S, D)
    PROVE  ReclaimEffect(C, U, S, D)
<1>1. /\ \A t \in Tables : t \in C \cup D => key'[t] = Nil /\ val'[t] = Nil
      /\ \A t \in Tables : t \notin C \cup D => key'[t] = key[t] /\ val'[t] = val[t]
      /\ \A u \in Userdatas : u \in D => meta'[u] = Nil
      /\ \A u \in Userdatas : u \notin D => meta'[u] = meta[u]
      /\ \A c \in Closures : c \in D => up'[c] = Nil
      /\ \A c \in Closures : c \notin D => up'[c] = up[c]
      /\ \A u \in Upvalues : u \in D => cell'[u] = Nil
      /\ \A u \in Upvalues : u \in U \ D => cell'[u] = Located(u)
      /\ \A u \in Upvalues : u \notin U \cup D => cell'[u] = cell[u]
      /\ \A u \in Upvalues : u \in U => at'[u] = Nil
      /\ \A u \in Upvalues : u \notin U => at'[u] = at[u]
  BY DEF Reclaim
<1>2. \A p \in D : Steps(p)' = {}
  BY <1>1, KindsAreDisjoint DEF Steps, Entries, Fields, Objects, Obj, Value
<1>3. \A p \in C : Steps(p)' = {}
  BY <1>1 DEF Steps, Entries, Objects
<1>4. \A p \in U \ D : Steps(p)' = Objects({Located(p)})
  BY <1>1, KindsAreDisjoint DEF Steps, Fields, Obj, Value
<1>5. \A p \in Obj \ (C \cup U \cup D) : Steps(p)' = Steps(p)
  BY <1>1 DEF Steps, Entries, Fields
<1>6. \A p \in Obj \ U : StateEdge(p)' = StateEdge(p)
  BY <1>1 DEF StateEdge
<1>7. \A p \in U : StateEdge(p)' = {}
  BY <1>1, KindsAreDisjoint, SlotsAssumption DEF StateEdge, Obj, Value, State
<1>8. \A x \in states \ S : Snapshot(x)' \subseteq Snapshot(x)
  <2> SUFFICES ASSUME NEW x \in states \ S PROVE Snapshot(x)' \subseteq Snapshot(x)
    OBVIOUS
  <2>1. x \in State /\ reg'[x] = reg[x]
    BY DEF Reclaim, TypeOK, HeapTypes
  <2>2. OpenAt(x)' \subseteq OpenAt(x)
    BY <1>1, <2>1, SlotsAssumption DEF OpenAt
  <2>3. QED
    BY <2>1, <2>2 DEF Snapshot, Stack
<1>9. Candidates' \subseteq Candidates
  <2> SUFFICES ASSUME NEW u \in Candidates' PROVE u \in Candidates
    OBVIOUS
  <2>1. /\ u \in Userdatas /\ u \in live \ D /\ u \notin finalized
        /\ meta'[u] \in live \ D /\ HasGc(u)'
    BY DEF Candidates, Reclaim
  <2>2. meta'[u] = meta[u] /\ meta[u] # Nil
    BY <1>1, <2>1 DEF HasGc
  <2>3. meta[u] \in Tables
    BY <2>1, <2>2 DEF TypeOK, HeapTypes, Opt
  <2>4. key'[meta[u]] = Nil /\ val'[meta[u]] # Nil
    BY <2>1, <2>2 DEF HasGc
  <2>5. key'[meta[u]] = key[meta[u]] /\ val'[meta[u]] = val[meta[u]]
    BY <1>1, <2>3, <2>4
  <2>6. QED
    BY <2>1, <2>2, <2>4, <2>5 DEF Candidates, HasGc
<1>10. QED
  BY <1>2, <1>3, <1>4, <1>5, <1>6, <1>7, <1>8, <1>9 DEF ReclaimEffect

\* Nothing that Reclaim destroys or removes was needed to keep the heap tidy.
LEMMA ReclaimIsTidy ==
    ASSUME TypeOK, HeapInvariant, NEW C, C \subseteq Tables, NEW S, S \subseteq states \ {Main},
           NEW U, U = UNION {OpenAt(s) : s \in S}, NEW D, D \subseteq live,
           Reclaim(C, U, S, D)
    PROVE  Tidy'
<1>0. PICK K : Safe(K)
  BY SafeSet DEF HeapInvariant
<1>1. U \subseteq Upvalues /\ D \subseteq Obj
  BY DEF OpenAt, TypeOK, HeapTypes
<1>2. /\ live' = live \ D /\ gone' = gone \cup D /\ states' = states \ S
  BY DEF Reclaim
<1>3. \A u \in U : u \in live /\ Objects({Located(u)}) \subseteq live
  <2> SUFFICES ASSUME NEW u \in U PROVE u \in live /\ Objects({Located(u)}) \subseteq live
    OBVIOUS
  <2>1. PICK s \in S : u \in OpenAt(s)
    OBVIOUS
  <2>2. s \in states /\ OpenAt(s) \subseteq K /\ K \subseteq live
    BY <1>0, StackIsSafe DEF Safe
  <2>3. at[u] # Nil
    BY <2>1, SlotsAssumption, <2>2 DEF OpenAt, TypeOK, HeapTypes
  <2>4. Located(u) \in Opt(K)
    BY <1>0, <1>1, <2>1, <2>2, <2>3, UpvalueIsSafe DEF HeapInvariant
  <2>5. QED
    BY <2>1, <2>2, <2>4 DEF Objects, Opt
<1>r. ReclaimEffect(C, U, S, D)
  BY <1>1, ReclaimSteps
<1>4. Tidy /\ live \subseteq Obj
  BY DEF HeapInvariant, TypeOK, HeapTypes
<1>5. Main \in states'
  BY <1>2, <1>4 DEF Tidy
<1>6. \A p \in Obj \ live' : Steps(p)' = {}
  <2> SUFFICES ASSUME NEW p \in Obj \ live' PROVE Steps(p)' = {}
    OBVIOUS
  <2>1. CASE p \in C \cup D
    BY <1>1, <2>1, <1>r DEF ReclaimEffect
  <2>2. CASE p \notin C \cup D
    <3>1. p \notin U /\ Steps(p) = {}
      BY <1>2, <1>3, <1>4, <2>2 DEF Tidy
    <3>2. QED
      BY <1>1, <2>2, <3>1, <1>r DEF ReclaimEffect
  <2>3. QED
    BY <2>1, <2>2
<1>7. \A p \in live' : Steps(p)' \subseteq live' \cup gone'
  <2> SUFFICES ASSUME NEW p \in live' PROVE Steps(p)' \subseteq live \cup gone
    BY <1>2
  <2>1. p \in live /\ p \notin D /\ p \in Obj /\ Steps(p) \subseteq live \cup gone
    BY <1>2, <1>4 DEF Tidy
  <2>2. CASE p \in C
    BY <1>1, <2>2, <1>r DEF ReclaimEffect
  <2>3. CASE p \in U
    BY <1>1, <1>3, <2>1, <2>3, <1>r DEF ReclaimEffect
  <2>4. CASE p \notin C \cup U
    BY <1>1, <2>1, <2>4, <1>r DEF ReclaimEffect
  <2>5. QED
    BY <2>2, <2>3, <2>4
<1>8. \A u \in Upvalues : StateEdge(u)' \subseteq states'
  <2> SUFFICES ASSUME NEW u \in Upvalues, NEW s \in StateEdge(u)' PROVE s \in states'
    OBVIOUS
  <2>1. u \notin U
    BY <1>1, <1>r DEF ReclaimEffect
  <2>2. s \in StateEdge(u)
    BY <1>1, <2>1, <1>r DEF ReclaimEffect, Obj
  <2>3. s \in states
    BY <1>4, <2>2 DEF Tidy
  <2>4. s \in S => u \in OpenAt(s)
    BY <2>2, KindsAreDisjoint DEF StateEdge, OpenAt, State, Obj, Value
  <2>5. QED
    BY <1>2, <2>1, <2>3, <2>4
<1>9. QED
  BY <1>5, <1>6, <1>7, <1>8 DEF Tidy

\* A weak table that survives refers to survivors only, once it was cleared.
LEMMA ClearedTables ==
    ASSUME TypeOK, pending \subseteq marked, NEW t \in Tables, ~ Drops(t),
           weakbits[t] = mode[t], StrongEntries(t, mode[t]) \subseteq marked
    PROVE  Entries(t) \subseteq marked
<1>1. val[t] = Nil \/ val[t] \in marked
  <2>1. CASE "v" \in mode[t]
    BY <2>1 DEF Drops, WeakDead, Dead
  <2>2. CASE "v" \notin mode[t]
    BY <2>2 DEF StrongEntries, Objects
  <2>3. QED
    BY <2>1, <2>2
<1>2. key[t] = Nil \/ key[t] \in marked
  <2>1. CASE "k" \notin mode[t]
    BY <2>1 DEF StrongEntries, Objects
  <2>2. CASE "k" \in mode[t] /\ ~ Dead(key[t])
    BY <2>2 DEF Dead
  <2>3. CASE "k" \in mode[t] /\ key[t] \in pending
    BY <2>3
  <2>4. CASE "k" \in mode[t] /\ key[t] = val[t]
    BY <1>1, <2>4
  <2>5. QED
    BY <2>1, <2>2, <2>3, <2>4 DEF Drops
<1>3. QED
  BY <1>1, <1>2 DEF Entries, Objects

\* When the trace is complete, what it marked is closed under the program's
\* steps once weak tables are cleared and unreached states are gone.
LEMMA MarkedIsClosed ==
    ASSUME TypeOK, HeapInvariant, stage \in {"resurrect", "remark"}, Drained,
           NEW M, M = marked, NEW D, D \subseteq live \ marked,
           Reclaim(Cleared, Orphans, DeadStates, D),
           pending' \subseteq pending, Candidates' \subseteq marked
    PROVE  /\ M \subseteq live' /\ Closed(M)' /\ Tidy'
           /\ Orphans \cap marked = {}
<1>0. PICK K : Safe(K)
  BY SafeSet DEF HeapInvariant
<1>1. Marking /\ TraceIsSound /\ AtomicIsSound /\ stage \in Drains \ {"rescan"}
  BY DEF HeapInvariant, Marking, Drains
<1>2. /\ queue = {} /\ gray = {} /\ M \subseteq K /\ K \subseteq live /\ M \subseteq Obj
      /\ \A p \in M : Fields(p) \subseteq M /\ StateEdge(p) \subseteq traced
      /\ {Main} \cup traced = attempted /\ traced = attempted /\ traced \subseteq states
      /\ \A x \in traced : Snapshot(x) \subseteq M
      /\ \A t \in M \cap Tables : StrongEntries(t, mode[t]) \subseteq M /\ weakbits[t] = mode[t]
      /\ roots \cup pending \subseteq M
  BY <1>0, <1>1 DEF Drained, TraceIsSound, AtomicIsSound, Safe, TypeOK, TraceTypes
<1>3. PICK C, U, S : C = Cleared /\ U = Orphans /\ S = DeadStates
  OBVIOUS
<1>4. /\ C \subseteq Tables /\ U \subseteq Upvalues /\ D \subseteq Obj /\ D \subseteq live
      /\ S \subseteq states \ {Main} /\ U = UNION {OpenAt(s) : s \in S}
      /\ Reclaim(C, U, S, D)
  BY <1>3 DEF Cleared, Orphans, DeadStates, OpenAt, TypeOK, HeapTypes
<1>r. ReclaimEffect(C, U, S, D)
  BY <1>4, ReclaimSteps
<1>5. states' = traced /\ live' = live \ D /\ roots' \subseteq roots
  BY <1>2, <1>3, <1>4 DEF Reclaim, DeadStates
<1>6. U \cap M = {}
  <2> SUFFICES ASSUME NEW u \in U, u \in M PROVE FALSE
    OBVIOUS
  <2>1. PICK s \in S : u \in OpenAt(s)
    BY <1>4
  <2>2. s \in StateEdge(u)
    BY <1>4, <2>1 DEF OpenAt, StateEdge, TypeOK, HeapTypes
  <2>3. s \in traced
    BY <1>2, <2>2
  <2>4. QED
    BY <1>3, <2>3 DEF DeadStates
<1>7. ASSUME NEW p \in M PROVE Steps(p)' \subseteq M /\ StateEdge(p)' \subseteq states'
  <2>1. p \in Obj /\ p \notin U /\ p \notin D
    BY <1>2, <1>6
  <2>2. StateEdge(p)' \subseteq states'
    BY <1>2, <1>4, <1>5, <2>1, <1>r DEF ReclaimEffect
  <2>3. CASE p \in C
    BY <1>4, <2>2, <2>3, <1>r DEF ReclaimEffect
  <2>4. CASE p \notin C
    <3>1. Steps(p)' = Steps(p)
      BY <1>4, <2>1, <2>4, <1>r DEF ReclaimEffect
    <3>2. CASE p \in Tables
      <4>1. ~ Drops(p)
        BY <1>3, <2>4, <3>2 DEF Cleared
      <4>2. Entries(p) \subseteq marked
        BY <1>2, <3>2, <4>1, ClearedTables
      <4>3. QED
        BY <2>2, <3>1, <3>2, <4>2 DEF Steps
    <3>3. CASE p \notin Tables
      BY <1>2, <2>2, <3>1, <3>3 DEF Steps
    <3>4. QED
      BY <3>2, <3>3
  <2>5. QED
    BY <2>3, <2>4
<1>8. \A x \in states' : Snapshot(x)' \subseteq M
  <2>1. \A x \in states' : x \in states \ S
    BY <1>2, <1>3, <1>5 DEF DeadStates
  <2>2. QED
    BY <1>2, <1>4, <1>5, <2>1, <1>r DEF ReclaimEffect
<1>9. Closed(M)'
  BY <1>2, <1>5, <1>7, <1>8 DEF Closed
<1>10. Tidy'
  BY <1>4, ReclaimIsTidy
<1>11. QED
  BY <1>2, <1>3, <1>5, <1>6, <1>9, <1>10

LEMMA SafeFinishAtomic ==
    ASSUME TypeOK, HeapInvariant, FinishAtomic
    PROVE  HeapInvariant'
<1>1. /\ stage = "resurrect" /\ Drained /\ Reclaim(Cleared, Orphans, DeadStates, {})
      /\ Mark(Objects({Located(u) : u \in Orphans \cap marked}), {})
      /\ phase' = "Sweep" /\ unswept' = live /\ stage' = "run"
      /\ UNCHANGED <<pending, draining, current>>
  BY DEF FinishAtomic
<1>2. PICK M : M = marked
  OBVIOUS
<1>3. Orphans \subseteq Upvalues /\ Cleared \subseteq Tables
  BY DEF Orphans, OpenAt, Cleared
<1>4. Candidates' \subseteq marked
  <2>1. Candidates' \subseteq Candidates
    <3>1. PICK C, U, S : C = Cleared /\ U = Orphans /\ S = DeadStates
      OBVIOUS
    <3>2. C \subseteq Tables /\ U \subseteq Upvalues /\ {} \subseteq Obj /\ Reclaim(C, U, S, {})
      BY <1>1, <1>3, <3>1
    <3>3. ReclaimEffect(C, U, S, {})
      BY <3>2, ReclaimSteps
    <3>4. QED
      BY <3>3 DEF ReclaimEffect
  <2>2. QED
    BY <1>1, <2>1 DEF HeapInvariant, AtomicIsSound
<1>5. M \subseteq live' /\ Closed(M)' /\ Tidy' /\ Orphans \cap marked = {}
  BY <1>1, <1>2, <1>4, MarkedIsClosed
<1>6. marked' = M /\ live' = live
  <2>1. Objects({Located(u) : u \in Orphans \cap marked}) = {}
    BY <1>5 DEF Objects
  <2>2. QED
    BY <1>1, <1>2, <2>1 DEF Mark, Reclaim
<1>7. ~ Marking' /\ TraceIsSound' /\ AtomicIsSound'
  <2>1. Objects({Located(u) : u \in Orphans \cap marked}) = {}
    BY <1>5 DEF Objects
  <2>2. ~rejected'
    BY <1>1, <2>1 DEF FinishAtomic, Mark
  <2>3. QED
    BY <1>1, <2>2 DEF Marking, TraceIsSound, AtomicIsSound, Drains
<1>8. HeapIsSafe'
  BY <1>1, <1>5, <1>6, <1>7 DEF HeapIsSafe
<1>9. DeliveryIsSound'
  BY <1>1 DEF HeapInvariant, DeliveryIsSound, Reclaim
<1>10. QED
  BY <1>5, <1>7, <1>8, <1>9 DEF HeapInvariant

LEMMA SafeSweepWhite ==
    ASSUME TypeOK, HeapInvariant, NEW o \in Obj, SweepWhite(o)
    PROVE  HeapInvariant'
<1>0. PICK K : Safe(K)
  BY SafeSet DEF HeapInvariant
<1>1. /\ stage = "run" /\ phase = "Sweep" /\ o \in unswept \ marked
      /\ Reclaim({}, {}, {}, {o})
      /\ pending' = pending \ {o} /\ unswept' = unswept \ {o}
      /\ phase' \in {"Sweep", "Finalize"}
      /\ UNCHANGED <<stage, marked, rejected, draining, current>>
  BY DEF SweepWhite, PhaseAfterSweeping
<1>2. o \notin K /\ K \subseteq live /\ live \subseteq Obj
  BY <1>0, <1>1 DEF Safe, TypeOK, HeapTypes
<1>3. ReclaimEffect({}, {}, {}, {o})
  BY <1>1, ReclaimSteps
<1>4. live' = live \ {o} /\ gone' = gone \cup {o} /\ states' = states /\ roots' = roots \ {o}
  BY <1>1 DEF Reclaim
<1>5. \A p \in Obj : p # o => Steps(p)' = Steps(p)
  BY <1>3 DEF ReclaimEffect
<1>6. Steps(o)' = {} /\ (\A p \in Obj : StateEdge(p)' = StateEdge(p))
  BY <1>3 DEF ReclaimEffect
<1>7. Closed(K)'
  <2>1. \A x \in states : Snapshot(x)' \subseteq Snapshot(x)
    BY <1>3 DEF ReclaimEffect
  <2>2. \A p \in K : Steps(p)' \subseteq K /\ StateEdge(p)' \subseteq states
    BY <1>0, <1>2, <1>5, <1>6 DEF Safe, Closed
  <2>3. roots' \cup pending' \cup Candidates' \subseteq K
    BY <1>0, <1>1, <1>3, <1>4 DEF ReclaimEffect, Safe, Closed
  <2>4. QED
    BY <1>0, <1>4, <2>1, <2>2, <2>3 DEF Safe, Closed
<1>8. ~ Marking' /\ TraceIsSound' /\ AtomicIsSound'
  BY <1>1 DEF HeapInvariant, Marking, TraceIsSound, AtomicIsSound, Drains
<1>9. HeapIsSafe'
  <2>1. K \subseteq live' /\ K \cap (unswept' \ marked') = {}
    BY <1>0, <1>1, <1>2, <1>4 DEF Safe
  <2>2. QED
    BY <1>7, <1>8, <2>1 DEF HeapIsSafe
<1>10. Tidy'
  <2>1. Tidy
    BY DEF HeapInvariant
  <2>2. \A p \in Obj \ live' : Steps(p)' = {}
    BY <1>4, <1>5, <1>6, <2>1 DEF Tidy
  <2>3. \A p \in live' : Steps(p)' \subseteq live' \cup gone'
    BY <1>2, <1>4, <1>5, <2>1 DEF Tidy
  <2>4. QED
    BY <1>4, <1>6, <2>1, <2>2, <2>3 DEF Tidy, Obj
<1>11. DeliveryIsSound'
  <2>1. current # Nil => current # o
    BY <1>0, <1>2 DEF HeapInvariant, DeliveryIsSound, Safe, Closed
  <2>2. QED
    BY <1>1, <2>1 DEF HeapInvariant, DeliveryIsSound, Reclaim
<1>12. QED
  BY <1>8, <1>9, <1>10, <1>11 DEF HeapInvariant

\* The units of a sweep that destroy nothing, and the end of a cycle.
LEMMA SafeRestOfSweep ==
    ASSUME TypeOK, HeapInvariant,
           SweepEmptyHeap \/ CompleteCycle \/ \E o \in Obj : SweepSurvivor(o)
    PROVE  HeapInvariant'
<1>0. PICK K : Safe(K)
  BY SafeSet DEF HeapInvariant
<1>1. UNCHANGED heap /\ pending' = pending /\ finalized' = finalized
  BY DEF SweepEmptyHeap, CompleteCycle, SweepSurvivor, fins
<1>2. stage = "run" /\ stage' \in {"run", "deliver"}
  BY DEF SweepEmptyHeap, CompleteCycle, SweepSurvivor, DeliverAfterCycle
<1>3. phase \in {"Sweep", "Finalize"} /\ phase' \in {"Sweep", "Finalize", "Pause"}
  BY DEF SweepEmptyHeap, CompleteCycle, SweepSurvivor, PhaseAfterSweeping, Abort
<1>n. ~rejected'
  BY DEF HeapInvariant, TraceIsSound, SweepEmptyHeap, CompleteCycle, SweepSurvivor, Abort, trace
<1>4. ~ Marking' /\ TraceIsSound' /\ AtomicIsSound'
  BY <1>2, <1>3, <1>n DEF Marking, TraceIsSound, AtomicIsSound, Drains
<1>5. phase' = "Sweep" => K \cap (unswept' \ marked') = {}
  BY <1>0 DEF Safe, SweepEmptyHeap, CompleteCycle, SweepSurvivor, Abort
<1>6. HeapIsSafe'
  BY <1>0, <1>1, <1>4, <1>5, SafeStatic
<1>7. DeliveryIsSound'
  <2>1. CASE CompleteCycle
    BY <2>1 DEF CompleteCycle, DeliverAfterCycle, HeapInvariant, DeliveryIsSound
  <2>2. CASE ~ CompleteCycle
    <3>1. UNCHANGED <<stage, fins>>
      BY <2>2 DEF SweepEmptyHeap, SweepSurvivor
    <3>2. QED
      BY <3>1, DeliveryStatic DEF HeapInvariant
  <2>3. QED
    BY <2>1, <2>2
<1>8. QED
  BY <1>1, <1>4, <1>6, <1>7, TidyStatic DEF HeapInvariant

LEMMA SafeStepUnit == IInv /\ StepUnit => HeapInvariant'
BY SafeBeginCycle, SafeStartAtomic, SafeReconcile, SafePrepareFinalizers, SafeFinishAtomic,
   SafeTraceState, SafeTraceObject, SafeSweepWhite, SafeRestOfSweep DEF StepUnit, IInv

-----------------------------------------------------------------------------
(* A full collection, and the delivery of finalizers *)

LEMMA SafeBeginFull ==
    ASSUME TypeOK, HeapInvariant, BeginFull
    PROVE  HeapInvariant'
<1>0. PICK K : Safe(K)
  BY SafeSet DEF HeapInvariant
<1>1. UNCHANGED <<heap, fins>> /\ phase' = "Pause" /\ stage = "run" /\ stage' = "mark"
  BY DEF BeginFull
<1>2. pending \subseteq K
  BY <1>0 DEF Safe, Closed
<1>3. TraceIsSound' /\ marked' \subseteq K /\ attempted' = {} /\ marked' \ gray' = {}
  BY <1>0, <1>1, <1>2, BeginMarkIsSound DEF BeginFull, fins
<1>4. AtomicIsSound'
  BY <1>1, <1>3 DEF AtomicIsSound, Drains
<1>5. HeapIsSafe'
  BY <1>0, <1>1, <1>3, SafeStatic DEF fins
<1>6. DeliveryIsSound'
  BY <1>1 DEF HeapInvariant, DeliveryIsSound, fins
<1>7. QED
  BY <1>1, <1>3, <1>4, <1>5, <1>6, TidyStatic DEF HeapInvariant

LEMMA SafePrepareFull ==
    ASSUME TypeOK, HeapInvariant, PrepareFull
    PROVE  HeapInvariant'
<1>0. PICK K : Safe(K)
  BY SafeSet DEF HeapInvariant
<1>1. /\ stage = "mark" /\ Drained /\ ~rejected /\ Queue(Finalizable)
      /\ IF Finalizable = {} THEN UNCHANGED trace ELSE BeginMark(pending')
      /\ stage' = "remark"
      /\ UNCHANGED <<heap, phase, draining, current, called>>
  BY DEF PrepareFull
<1>2. Marking /\ Marking' /\ TraceIsSound /\ AtomicIsSound /\ phase = "Pause"
  BY <1>1 DEF Marking, HeapInvariant, AtomicIsSound, Drains
<1>3. /\ DeliveryIsSound' /\ Finalizable \subseteq Candidates
      /\ pending' = pending \cup Finalizable /\ finalized \subseteq finalized'
  BY <1>1, QueueIsSound
<1>4. PICK P : P = pending'
  OBVIOUS
<1>5. P \subseteq K
  BY <1>0, <1>3, <1>4 DEF Safe, Closed
<1>6. CASE Finalizable = {}
  <2>1. UNCHANGED trace /\ pending' = pending
    BY <1>1, <1>3, <1>6
  <2>2. TraceIsSound'
    BY <1>1, <1>2, <2>1, StaticHeap DEF TraceIsSound, trace
  <2>3. AtomicIsSound'
    <3>1. \A x \in attempted' : Snapshot(x)' \subseteq marked'
      BY <1>1, <1>2, <2>1, StaticHeap DEF AtomicIsSound, trace, Drains
    <3>2. ASSUME NEW t \in (marked' \ gray') \cap Tables
          PROVE  StrongEntries(t, mode[t])' \subseteq marked' /\ weakbits'[t] = mode'[t]
      <4>1. StrongEntries(t, mode[t])' = StrongEntries(t, mode[t]) /\ mode' = mode
        BY <1>1 DEF StrongEntries, heap, graph
      <4>2. QED
        BY <1>1, <1>2, <2>1, <3>2, <4>1 DEF AtomicIsSound, trace, Drains
    <3>3. QED
      BY <1>1, <1>2, <3>1, <3>2 DEF AtomicIsSound, Drains
  <2>4. HeapIsSafe'
    <3>1. marked' \subseteq K
      BY <1>0, <1>2, <2>1 DEF Safe, trace
    <3>2. QED
      BY <1>0, <1>1, <1>2, <1>3, <3>1, SafeStatic
  <2>5. QED
    BY <1>1, <1>3, <2>2, <2>3, <2>4, TidyStatic DEF HeapInvariant
<1>7. CASE Finalizable # {}
  <2>1. TraceIsSound' /\ marked' \subseteq K /\ attempted' = {} /\ marked' \ gray' = {}
    BY <1>0, <1>1, <1>4, <1>5, <1>7, BeginMarkIsSound
  <2>2. AtomicIsSound'
    BY <1>1, <1>2, <2>1 DEF AtomicIsSound, Drains
  <2>3. HeapIsSafe'
    BY <1>0, <1>1, <1>2, <1>3, <2>1, SafeStatic
  <2>4. QED
    BY <1>1, <1>3, <2>1, <2>2, <2>3, TidyStatic DEF HeapInvariant
<1>8. QED
  BY <1>6, <1>7

LEMMA SafeFinishFull ==
    ASSUME TypeOK, HeapInvariant, FinishFull
    PROVE  HeapInvariant'
<1>1. /\ stage = "remark" /\ Drained /\ Abort
      /\ pending' = pending \cap marked
      /\ DeliverAfterCycle(pending') /\ UNCHANGED current
  BY DEF FinishFull
<1>2. PICK M, D : M = marked /\ D = live \ marked
  OBVIOUS
<1>3. Reclaim(Cleared, Orphans, DeadStates, D)
  BY <1>2 DEF FinishFull
<1>4. Candidates' \subseteq marked
  BY <1>2, <1>3 DEF Candidates, Reclaim
<1>5. M \subseteq live' /\ Closed(M)' /\ Tidy'
  BY <1>1, <1>2, <1>3, <1>4, MarkedIsClosed
<1>6. stage' \in {"run", "deliver"}
  BY <1>1 DEF DeliverAfterCycle
<1>7. TraceIsSound' /\ AtomicIsSound' /\ ~ Marking' /\ phase' # "Sweep"
  BY <1>1, <1>6, AbortIsSound DEF HeapInvariant, Drains
<1>8. HeapIsSafe'
  BY <1>5, <1>7 DEF HeapIsSafe
<1>9. DeliveryIsSound'
  <2>1. pending \subseteq marked
    BY <1>1 DEF HeapInvariant, TraceIsSound, Marking, Drains
  <2>2. /\ pending' = pending /\ finalized' = finalized \ D /\ called' = called \ D
        /\ pending \cap D = {}
    BY <1>1, <1>2, <1>3, <2>1 DEF Reclaim
  <2>3. CASE pending # {} /\ ~draining
    BY <1>1, <2>2, <2>3 DEF DeliverAfterCycle, HeapInvariant, DeliveryIsSound
  <2>4. CASE ~ (pending # {} /\ ~draining)
    BY <1>1, <2>2, <2>4 DEF DeliverAfterCycle, HeapInvariant, DeliveryIsSound
  <2>5. QED
    BY <2>3, <2>4
<1>10. QED
  BY <1>5, <1>7, <1>8, <1>9 DEF HeapInvariant

LEMMA SafeFullCollection == IInv /\ FullCollection => HeapInvariant'
BY SafeBeginFull, SafePrepareFull, SafeFinishFull DEF FullCollection, IInv

LEMMA SafeFinalizers == IInv /\ Finalizers => HeapInvariant'
<1> SUFFICES ASSUME TypeOK, HeapInvariant, Finalizers PROVE HeapInvariant'
  BY DEF IInv
<1>0. PICK K : Safe(K)
  BY SafeSet DEF HeapInvariant
<1>m. Main \in State /\ Scratch \in Reg /\ Nil \in Opt(K)
  BY SlotsAssumption DEF State, Opt
<1>1. ASSUME NEW u \in Userdatas, StartFinalizer(u) PROVE HeapInvariant'
  <2>1. /\ Write(Main, Scratch, u) /\ u \in pending
        /\ stage = "deliver" /\ stage' = "run"
        /\ current' = u /\ called' = called \cup {u}
        /\ UNCHANGED <<live, gone, graph, states, roots, phase, trace,
                       finalized, pending, draining>>
    BY <1>1 DEF StartFinalizer
  <2>2. u \in Opt(K)
    BY <1>0, <2>1 DEF Safe, Closed, Opt
  <2>3. HeapIsSafe' /\ Tidy' /\ TraceIsSound' /\ AtomicIsSound'
    BY <1>0, <1>m, <2>1, <2>2, WriteIsSound DEF Drains
  <2>4. DeliveryIsSound'
    BY <2>1, KindsAreDisjoint
       DEF HeapInvariant, DeliveryIsSound, TypeOK, FinalizerTypes, Obj, Value
  <2>5. QED
    BY <2>3, <2>4 DEF HeapInvariant
<1>2. ASSUME NEW u \in Userdatas, SkipFinalizer(u) PROVE HeapInvariant'
  <2>1. /\ UNCHANGED <<heap, phase, stage, trace, finalized, draining, current, called>>
        /\ pending' = pending \ {u} /\ stage = "deliver"
    BY <1>2 DEF SkipFinalizer
  <2>2. HeapIsSafe'
    BY <1>0, <2>1, SafeStatic DEF Safe, Marking, trace
  <2>3. TraceIsSound' /\ AtomicIsSound'
    BY <2>1, StaticHeap, MutatorIsSound DEF HeapInvariant, TraceIsSound, trace, Drains
  <2>4. DeliveryIsSound'
    BY <2>1 DEF HeapInvariant, DeliveryIsSound
  <2>5. QED
    BY <2>1, <2>2, <2>3, <2>4, TidyStatic DEF HeapInvariant
<1>3. ASSUME EndDrain PROVE HeapInvariant'
  <2>1. /\ UNCHANGED <<heap, phase, trace, finalized, pending, current, called>>
        /\ stage = "deliver" /\ stage' = "run"
    BY <1>3 DEF EndDrain
  <2>2. HeapIsSafe'
    BY <1>0, <2>1, SafeStatic DEF Safe, Marking, trace, Drains
  <2>3. TraceIsSound' /\ AtomicIsSound'
    BY <2>1, StaticHeap, MutatorIsSound DEF HeapInvariant, TraceIsSound, trace, Drains
  <2>4. DeliveryIsSound'
    BY <2>1 DEF HeapInvariant, DeliveryIsSound
  <2>5. QED
    BY <2>1, <2>2, <2>3, <2>4, TidyStatic DEF HeapInvariant
<1>4. ASSUME NEW ok \in BOOLEAN, EndFinalizer(ok) PROVE HeapInvariant'
  <2>1. /\ Write(Main, Scratch, Nil) /\ pending' = pending \ {current} /\ current' = Nil
        /\ stage = "run" /\ stage' \in {"run", "deliver"} /\ current # Nil
        /\ stage' = "deliver" => (draining => draining')
        /\ UNCHANGED <<live, gone, graph, states, roots, phase, trace, finalized, called>>
    BY <1>4 DEF EndFinalizer
  <2>2. HeapIsSafe' /\ Tidy' /\ TraceIsSound' /\ AtomicIsSound'
    BY <1>0, <1>m, <2>1, WriteIsSound DEF Drains
  <2>3. DeliveryIsSound'
    BY <2>1 DEF HeapInvariant, DeliveryIsSound
  <2>4. QED
    BY <2>2, <2>3 DEF HeapInvariant
<1>5. QED
  BY <1>1, <1>2, <1>3, <1>4 DEF Finalizers

-----------------------------------------------------------------------------
(* The invariant, and what follows from it *)

LEMMA SafeInit == Init => HeapInvariant
<1> SUFFICES ASSUME Init PROVE HeapInvariant
  OBVIOUS
<1>m. Main \in State /\ Nil \notin State \X Reg
  BY SlotsAssumption DEF State
<1>1. /\ \A o \in Obj : Steps(o) = {}
      /\ \A u \in Upvalues : StateEdge(u) = {}
  <2>1. \A u \in Upvalues : u \notin State
    BY KindsAreDisjoint, SlotsAssumption DEF State, Obj, Value
  <2>2. \A u \in Upvalues : at[u] \notin State \X Reg
    BY <1>m DEF Init
  <2>3. \A u \in Upvalues : StateEdge(u) = {}
    BY <2>1, <2>2 DEF StateEdge
  <2>4. \A o \in Obj : Steps(o) = {}
    BY DEF Init, Steps, Entries, Fields, Objects, Obj, Value
  <2>5. QED
    BY <2>3, <2>4
<1>2. \A s \in states : Snapshot(s) = {}
  <2>1. OpenAt(Main) = {}
    BY <1>m DEF Init, OpenAt
  <2>2. Stack(Main) = {}
    BY DEF Init, Stack, Objects, State
  <2>3. QED
    BY <2>1, <2>2 DEF Init, Snapshot
<1>3. Safe({})
  BY <1>2 DEF Init, Safe, Closed, Candidates, Marking, Drains
<1>4. Tidy
  BY <1>1 DEF Init, Tidy, Obj
<1>5. TraceIsSound /\ AtomicIsSound /\ DeliveryIsSound
  BY DEF Init, TraceIsSound, AtomicIsSound, DeliveryIsSound, Marking, Drains
<1>6. QED
  BY <1>3, <1>4, <1>5, SafeSet DEF HeapInvariant

LEMMA SafeNext == IInv /\ [Next]_vars => HeapInvariant'
<1> SUFFICES ASSUME IInv, [Next]_vars PROVE HeapInvariant'
  OBVIOUS
<1>1. CASE UNCHANGED vars
  <2>1. UNCHANGED <<heap, phase, stage, trace, fins>>
    BY <1>1 DEF vars
  <2>2. PICK K : Safe(K)
    BY SafeSet DEF IInv, HeapInvariant
  <2>3. HeapIsSafe'
    BY <2>1, <2>2, SafeStatic DEF Safe, Marking, trace, fins
  <2>s. UNCHANGED heap
    BY <2>1
  <2>h. /\ \A p : Fields(p)' = Fields(p) /\ StateEdge(p)' = StateEdge(p)
        /\ \A p : Snapshot(p)' = Snapshot(p)
        /\ \A p, m : StrongEntries(p, m)' = StrongEntries(p, m)
        /\ UNCHANGED <<live, mode, states, roots>>
    BY <2>s, StaticHeap
  <2>t. TraceIsSound'
    BY <2>1, <2>h DEF IInv, HeapInvariant, TraceIsSound, Marking, trace, fins
  <2>a. AtomicIsSound'
    <3>1. Candidates' = Candidates
      BY <2>1 DEF Candidates, HasGc, heap, graph, fins
    <3>2. \A t \in Tables : StrongEntries(t, mode[t])' = StrongEntries(t, mode[t])
      BY <2>h
    <3>3. AtomicIsSound
      BY DEF IInv, HeapInvariant
    <3>4. UNCHANGED <<phase, stage, marked, gray, queue, attempted, traced, weakbits>>
      BY <2>1 DEF trace
    <3>5. QED
      BY <2>h, <3>1, <3>2, <3>3, <3>4 DEF AtomicIsSound
  <2>4. TraceIsSound' /\ AtomicIsSound'
    BY <2>t, <2>a
  <2>5. QED
    BY <2>1, <2>3, <2>4, TidyStatic, DeliveryStatic DEF IInv, HeapInvariant
<1>2. CASE Next
  BY <1>2, SafeStackOp, SafeHeapOp, SafeAllocation, SafeStepUnit, SafeFullCollection,
     SafeFinalizers DEF Next, Program
<1>3. QED
  BY <1>1, <1>2

\* The inductive invariant: at every instant there is a set of live objects that
\* holds the roots, all stacks and what the program reaches from them, and that
\* the current sweep spares.
THEOREM HeapIsSound == Spec => []HeapInvariant
<1>1. Init => IInv
  BY TypeInit, SafeInit DEF IInv
<1>2. IInv /\ [Next]_vars => IInv'
  BY TypeNext, SafeNext DEF IInv
<1>3. IInv => HeapInvariant
  BY DEF IInv
<1>4. QED
  BY <1>1, <1>2, <1>3, PTL DEF Spec

\* The collector, incremental or stop-the-world, never destroys an object that
\* a stack, an explicit root or a queued finalizer leads to, and never removes
\* the state of a Thread that is still on a stack.
THEOREM ReachableIsKept == Spec => []NothingReachableIsDestroyed
<1>1. TypeOK /\ HeapInvariant => NothingReachableIsDestroyed
  <2> SUFFICES ASSUME TypeOK, HeapInvariant PROVE NothingReachableIsDestroyed
    OBVIOUS
  <2>1. PICK K : Safe(K)
    BY SafeSet DEF HeapInvariant
  <2>2. \A s \in states : Stack(s) \subseteq K
    BY <2>1 DEF Safe, Closed, Snapshot
  <2>3. \A th \in K \cap Threads : th \in states
    BY <2>1 DEF Safe, Closed, StateEdge, State
  <2>4. QED
    BY <2>1, <2>2, <2>3
       DEF NothingReachableIsDestroyed, Safe, Closed, HeapInvariant, DeliveryIsSound
<1>2. QED
  BY <1>1, TypeCorrect, HeapIsSound, PTL

\* No interleaving of program and collector makes a trace meet a stale edge or
\* a removed state: collect_incremental_step never has to refuse to sweep.
THEOREM TraceIsAccepted == Spec => []TraceNeverRejects
<1>1. HeapInvariant => TraceNeverRejects
  BY DEF HeapInvariant, TraceIsSound, TraceNeverRejects
<1>2. QED
  BY <1>1, HeapIsSound, PTL

\* An open upvalue always finds the stack of its owner: an owner state that is
\* removed first closes the upvalues located in it.
THEOREM OpenUpvaluesAreOwned == Spec => []OpenUpvalueHasItsState
<1>1. TypeOK /\ HeapInvariant => OpenUpvalueHasItsState
  <2> SUFFICES ASSUME TypeOK, HeapInvariant, NEW u \in Upvalues, at[u] # Nil
               PROVE  u \in live /\ StateEdge(u) \subseteq states
    BY DEF OpenUpvalueHasItsState
  <2>1. PICK K : Safe(K)
    BY SafeSet DEF HeapInvariant
  <2>2. StateEdge(u) \subseteq states
    BY DEF HeapInvariant, Tidy
  <2>3. at[u] \in State \X Reg
    BY DEF TypeOK, HeapTypes, Opt
  <2>4. PICK s \in State, r \in Reg : at[u] = <<s, r>>
    BY <2>3
  <2>5. s \in states
    BY <2>2, <2>4 DEF StateEdge
  <2>6. u \in Snapshot(s)
    BY <2>4 DEF Snapshot, OpenAt
  <2>7. QED
    BY <2>1, <2>2, <2>5, <2>6 DEF Safe, Closed
<1>2. QED
  BY <1>1, TypeCorrect, HeapIsSound, PTL

\* No userdata gets a second __gc callback: not when it is resurrected and dies
\* again, nor when a full collection interrupts an incremental cycle.
THEOREM FinalizersRunOnce == Spec => FinalizedAtMostOnce
<1> DEFINE Once == \A u \in Userdatas : current' = u /\ current # u => u \notin called
<1>1. TypeOK /\ HeapInvariant /\ [Next]_vars => [Once]_vars
  <2> SUFFICES ASSUME TypeOK, HeapInvariant, Next,
                      NEW u \in Userdatas, current' = u, current # u
               PROVE  u \notin called
    OBVIOUS
  <2>1. u # Nil
    BY KindsAreDisjoint DEF Obj, Value
  <2>2. StartFinalizer(u)
    <3>1. ~ Program
      <4>1. StackOp => UNCHANGED current
        BY DEF StackOp, Move, Load, GetUpvalue, fins
      <4>2. HeapOp => UNCHANGED current
        <5>1. \A s, r, k, v : Store(s, r, k, v) => UNCHANGED current
          BY DEF Store, fins
        <5>2. \A s, r, m : SetTableMetatable(s, r, m) => UNCHANGED current
          BY DEF SetTableMetatable, fins
        <5>3. \A h, m : SetModeField(h, m) => UNCHANGED current
          BY DEF SetModeField, fins
        <5>4. \A s, r, v : SetUserdataMetatable(s, r, v) => UNCHANGED current
          BY DEF SetUserdataMetatable, fins
        <5>5. \A s, r, v : SetUpvalue(s, r, v) => UNCHANGED current
          BY DEF SetUpvalue, fins
        <5>6. \A s, R : CloseUpvalues(s, R) => UNCHANGED current
          BY DEF CloseUpvalues, fins
        <5>7. \A o : AddRoot(o) \/ RemoveRoot(o) => UNCHANGED current
          BY DEF AddRoot, RemoveRoot, fins
        <5>8. QED
          BY <5>1, <5>2, <5>3, <5>4, <5>5, <5>6, <5>7 DEF HeapOp
      <4>3. Allocation => UNCHANGED current
        <5>1. \A s, r, o : New(s, r, o) => UNCHANGED current
          BY DEF New, fins
        <5>2. \A s, r, h, v : NewThread(s, r, h, v) => UNCHANGED current
          BY DEF NewThread, fins
        <5>3. \A s, r, c, w, x : NewClosureShared(s, r, c, w, x) => UNCHANGED current
          BY DEF NewClosureShared, fins
        <5>4. \A s, r, c, w, x : NewClosureFresh(s, r, c, w, x) => UNCHANGED current
          BY DEF NewClosureFresh, fins
        <5>5. QED
          BY <5>1, <5>2, <5>3, <5>4 DEF Allocation
      <4>4. QED
        BY <4>1, <4>2, <4>3 DEF Program
    <3>2. ~ StepUnit /\ ~ FullCollection
      BY DEF StepUnit, BeginCycle, StartAtomic, Reconcile, PrepareFinalizers, FinishAtomic,
             SweepEmptyHeap, CompleteCycle, TraceState, TraceObject, SweepWhite,
             SweepSurvivor, FullCollection, BeginFull, PrepareFull, FinishFull, fins
    <3>3. Finalizers
      BY <3>1, <3>2 DEF Next
    <3>4. QED
      BY <2>1, <3>3 DEF Finalizers, StartFinalizer, SkipFinalizer, EndDrain, EndFinalizer
  <2>3. stage = "deliver" /\ u \in pending
    BY <2>2 DEF StartFinalizer
  <2>4. QED
    BY <2>1, <2>3 DEF HeapInvariant, DeliveryIsSound
<1>2. QED
  BY <1>1, TypeCorrect, HeapIsSound, PTL DEF Spec, FinalizedAtMostOnce

\* The program does nothing while the collector drains its work list or delivers,
\* and destroys nothing.
Waits == stage = "run" /\ stage' = "run" /\ live \subseteq live'

LEMMA ProgramWaits == Program => Waits
<1>1. StackOp => Waits
  <2>1. \A s, r, s2, r2 : Move(s, r, s2, r2) => Waits
    BY DEF Move, Runs, Waits
  <2>2. \A s, r, r2 : Load(s, r, r2) => Waits
    BY DEF Load, Runs, Waits
  <2>3. \A s, r, r2 : GetUpvalue(s, r, r2) => Waits
    BY DEF GetUpvalue, Runs, Waits
  <2> QED BY <2>1, <2>2, <2>3 DEF StackOp
<1>2. HeapOp => Waits
  <2>1. \A s, r, k, v : Store(s, r, k, v) => Waits
    BY DEF Store, Runs, Waits
  <2>2. \A s, r, v : SetTableMetatable(s, r, v) => Waits
    BY DEF SetTableMetatable, Runs, Waits
  <2>3. \A s, r, v : SetUserdataMetatable(s, r, v) => Waits
    BY DEF SetUserdataMetatable, Runs, Waits
  <2>4. \A s, r, v : SetUpvalue(s, r, v) => Waits
    BY DEF SetUpvalue, Runs, Waits
  <2>5. \A s, R : CloseUpvalues(s, R) => Waits
    BY DEF CloseUpvalues, Runs, Waits
  <2>6. \A t, m : SetModeField(t, m) => Waits
    BY DEF SetModeField, Waits
  <2>7. \A o : AddRoot(o) \/ RemoveRoot(o) => Waits
    BY DEF AddRoot, RemoveRoot, Waits
  <2> QED BY <2>1, <2>2, <2>3, <2>4, <2>5, <2>6, <2>7 DEF HeapOp
<1>3. Allocation => Waits
  <2>1. \A s, r, o : New(s, r, o) => Waits
    BY DEF New, Create, Runs, Waits
  <2>2. \A s, r, h, v : NewThread(s, r, h, v) => Waits
    BY DEF NewThread, Create, Runs, Waits
  <2>3. \A s, r, c, w, x : NewClosureShared(s, r, c, w, x) => Waits
    BY DEF NewClosureShared, Create, Runs, Waits
  <2>4. \A s, r, c, w, x : NewClosureFresh(s, r, c, w, x) => Waits
    BY DEF NewClosureFresh, Runs, Waits
  <2> QED BY <2>1, <2>2, <2>3, <2>4 DEF Allocation
<1> QED BY <1>1, <1>2, <1>3 DEF Program

\* Clearing weak tables never removes an entry of a table that is not weak at
\* that moment, although the mode may have changed after the table was traced.
THEOREM StrongEntriesAreKept == Spec => CollectorKeepsStrongEntries
<1> DEFINE Keeps ==
        stage # "run" => \A t \in live \cap live' \cap Tables :
            mode[t] = {} => key'[t] = key[t] /\ val'[t] = val[t]
<1>1. TypeOK /\ HeapInvariant /\ [Next]_vars => [Keeps]_vars
  <2> SUFFICES ASSUME TypeOK, HeapInvariant, Next, stage # "run",
                      NEW t \in live \cap live' \cap Tables, mode[t] = {}
               PROVE  key'[t] = key[t] /\ val'[t] = val[t]
    OBVIOUS
  <2>1. t \notin Cleared \/ stage \notin {"resurrect", "remark"} \/ ~ Drained
    <3> SUFFICES ASSUME stage \in {"resurrect", "remark"}, Drained, t \in marked
                 PROVE  ~ Drops(t)
      BY DEF Cleared
    <3>1. weakbits[t] = mode[t]
      BY DEF HeapInvariant, AtomicIsSound, Drains, Drained
    <3>2. QED
      BY <3>1 DEF Drops
  <2>2. ~ Program
    BY ProgramWaits DEF Waits
  <2>3. CASE StepUnit
    <3>1. CASE FinishAtomic
      BY <2>1, <3>1 DEF FinishAtomic, Reclaim
    <3>2. CASE ~ FinishAtomic
      <4>1. UNCHANGED heap
        BY <2>3, <3>2 DEF StepUnit, BeginCycle, StartAtomic, Reconcile, PrepareFinalizers,
             SweepEmptyHeap, CompleteCycle, TraceState, TraceObject, SweepWhite, SweepSurvivor
      <4>2. QED
        BY <4>1 DEF heap, graph
    <3>3. QED
      BY <3>1, <3>2
  <2>4. CASE FullCollection
    <3>1. CASE FinishFull
      BY <2>1, <3>1 DEF FinishFull, Reclaim
    <3>2. CASE BeginFull \/ PrepareFull
      BY <3>2 DEF BeginFull, PrepareFull, heap, graph
    <3>3. QED
      BY <2>4, <3>1, <3>2 DEF FullCollection
  <2>5. CASE Finalizers
    BY <2>5 DEF Finalizers, StartFinalizer, SkipFinalizer, EndDrain, EndFinalizer, heap, graph
  <2>6. QED
    BY <2>2, <2>3, <2>4, <2>5 DEF Next
<1>2. QED
  BY <1>1, TypeCorrect, HeapIsSound, PTL DEF Spec, CollectorKeepsStrongEntries

-----------------------------------------------------------------------------
(* What weak values and destroyed userdata may say of finalizers *)

\* When a cycle, incremental or full, has cleared the weak tables, no weak value
\* names a userdata whose callback is still to come, although it is alive again.
THEOREM QueuedValuesAreForgotten == Spec => WeakValuesForgetQueued
<1> DEFINE Forgets ==
        stage \in {"resurrect", "remark"} /\ stage' \notin Drains =>
            \A t \in marked \cap Tables : "v" \in mode[t] => val'[t] \notin pending'
<1>1. TypeOK /\ HeapInvariant /\ [Next]_vars => [Forgets]_vars
  <2> SUFFICES ASSUME TypeOK, HeapInvariant, Next,
                      stage \in {"resurrect", "remark"}, stage' \notin Drains,
                      NEW t \in marked \cap Tables, "v" \in mode[t]
               PROVE  val'[t] \notin pending'
    OBVIOUS
  <2>1. FinishAtomic \/ FinishFull
    <3>1. ~ Program
      BY ProgramWaits DEF Waits
    <3>2. ~ Finalizers
      BY DEF Finalizers, StartFinalizer, SkipFinalizer, EndDrain, EndFinalizer
    <3>3. \A s : ~ TraceState(s)
      BY DEF TraceState, Drains
    <3>4. \A o : ~ TraceObject(o) /\ ~ SweepWhite(o) /\ ~ SweepSurvivor(o)
      BY DEF TraceObject, SweepWhite, SweepSurvivor, Drains
    <3>5. ~ (BeginCycle \/ StartAtomic \/ Reconcile \/ PrepareFinalizers \/ SweepEmptyHeap \/ CompleteCycle)
      BY DEF BeginCycle, StartAtomic, Reconcile, PrepareFinalizers, SweepEmptyHeap, CompleteCycle
    <3>6. ~ BeginFull /\ ~ PrepareFull
      BY DEF BeginFull, PrepareFull
    <3> QED BY <3>1, <3>2, <3>3, <3>4, <3>5, <3>6 DEF Next, StepUnit, FullCollection
  <2>2. Drained /\ pending' \subseteq pending
    BY <2>1 DEF FinishAtomic, FinishFull
  <2>3. val'[t] = IF t \in Cleared THEN Nil ELSE val[t]
    BY <2>1 DEF FinishAtomic, FinishFull, Reclaim
  <2>4. weakbits[t] = mode[t]
    BY <2>2 DEF HeapInvariant, AtomicIsSound, Drains, Drained
  <2>5. Nil \notin pending
    BY KindsAreDisjoint DEF TypeOK, FinalizerTypes, Obj, Value
  <2>6. CASE t \in Cleared
    BY <2>2, <2>3, <2>5, <2>6
  <2>7. CASE t \notin Cleared
    BY <2>2, <2>3, <2>4, <2>7 DEF Cleared, Drops, WeakDead
  <2> QED BY <2>6, <2>7
<1>2. QED
  BY <1>1, TypeCorrect, HeapIsSound, PTL DEF Spec, WeakValuesForgetQueued

(***************************************************************************)
(* A full collection that finds userdata to finalize marks everything a    *)
(* second time.  The second trace reaches what the first one reached,      *)
(* since the heap rests and there are more seeds: the first trace marks    *)
(* nothing but what every trace of this heap has to mark.                  *)
(***************************************************************************)

\* A trace of the heap that is complete: objects X and states Y.
TraceClosed(X, Y) ==
    /\ roots \cup pending \subseteq X /\ Main \in Y
    /\ \A s \in Y : Snapshot(s) \subseteq X
    /\ \A o \in X : Children(o) \subseteq X /\ StateEdge(o) \subseteq Y

MarkIsLeast ==
    /\ stage = "mark" => \A X, Y : TraceClosed(X, Y) => marked \subseteq X /\ queue \subseteq Y
    /\ stage = "remark" => \A X, Y : TraceClosed(X, Y) => Candidates \subseteq X

\* While the heap rests, complete traces stay complete, also with more seeds.
LEMMA ClosedStatic ==
    ASSUME UNCHANGED heap, pending \subseteq pending', NEW X, NEW Y, TraceClosed(X, Y)'
    PROVE  TraceClosed(X, Y)
<1>1. \A o : Children(o)' = Children(o) /\ StateEdge(o)' = StateEdge(o)
  BY DEF heap, graph, Children, StrongEntries, Fields, StateEdge
<1>2. \A s : Snapshot(s)' = Snapshot(s)
  BY DEF heap, graph, Snapshot, Stack, OpenAt
<1>3. roots' = roots
  BY DEF heap, graph
<1> QED BY <1>1, <1>2, <1>3 DEF TraceClosed

LEMMA LeastNext == TypeOK /\ HeapInvariant /\ MarkIsLeast /\ [Next]_vars => MarkIsLeast'
<1> SUFFICES ASSUME TypeOK, HeapInvariant, MarkIsLeast, [Next]_vars PROVE MarkIsLeast'
  OBVIOUS
<1>1. CASE stage' \notin {"mark", "remark"}
  BY <1>1 DEF MarkIsLeast
<1>2. CASE BeginFull
  <2> SUFFICES ASSUME NEW X, NEW Y, TraceClosed(X, Y)' PROVE marked' \subseteq X /\ queue' \subseteq Y
    BY <1>2 DEF BeginFull, MarkIsLeast
  <2>1. TraceClosed(X, Y)
    BY <1>2, ClosedStatic DEF BeginFull, fins
  <2> QED BY <1>2, <2>1 DEF BeginFull, BeginMark, TraceClosed
<1>3. ASSUME NEW s \in State, TraceState(s), stage' \in {"mark", "remark"} PROVE MarkIsLeast'
  <2>1. stage' = stage /\ UNCHANGED heap /\ pending' = pending /\ finalized' = finalized
    BY <1>3 DEF TraceState, fins
  <2>2. CASE stage = "remark"
    <3>1. Candidates' = Candidates
      BY <2>1 DEF Candidates, HasGc, heap, graph
    <3> SUFFICES ASSUME NEW X, NEW Y, TraceClosed(X, Y)' PROVE Candidates \subseteq X
      BY <2>1, <2>2, <3>1 DEF MarkIsLeast
    <3> QED BY <2>1, <2>2, ClosedStatic DEF MarkIsLeast
  <2>3. CASE stage = "mark"
    <3> SUFFICES ASSUME NEW X, NEW Y, TraceClosed(X, Y)'
                 PROVE  marked' \subseteq X /\ queue' \subseteq Y
      BY <2>1, <2>3 DEF MarkIsLeast
    <3>1. TraceClosed(X, Y) /\ marked \subseteq X /\ queue \subseteq Y
      BY <2>1, <2>3, ClosedStatic DEF MarkIsLeast
    <3>2. Snapshot(s) \subseteq X
      BY <1>3, <3>1 DEF TraceState, TraceClosed
    <3>3. marked' \subseteq marked \cup Snapshot(s) /\ queue' \subseteq queue
      BY <1>3 DEF TraceState, Mark
    <3> QED BY <3>1, <3>2, <3>3
  <2> QED BY <1>3, <2>1, <2>2, <2>3
<1>4. ASSUME NEW o \in Obj, TraceObject(o), stage' \in {"mark", "remark"} PROVE MarkIsLeast'
  <2>1. stage' = stage /\ UNCHANGED heap /\ pending' = pending /\ finalized' = finalized
    BY <1>4 DEF TraceObject, fins
  <2>2. CASE stage = "remark"
    <3>1. Candidates' = Candidates
      BY <2>1 DEF Candidates, HasGc, heap, graph
    <3> SUFFICES ASSUME NEW X, NEW Y, TraceClosed(X, Y)' PROVE Candidates \subseteq X
      BY <2>1, <2>2, <3>1 DEF MarkIsLeast
    <3> QED BY <2>1, <2>2, ClosedStatic DEF MarkIsLeast
  <2>3. CASE stage = "mark"
    <3> SUFFICES ASSUME NEW X, NEW Y, TraceClosed(X, Y)'
                 PROVE  marked' \subseteq X /\ queue' \subseteq Y
      BY <2>1, <2>3 DEF MarkIsLeast
    <3>1. TraceClosed(X, Y) /\ marked \subseteq X /\ queue \subseteq Y
      BY <2>1, <2>3, ClosedStatic DEF MarkIsLeast
    <3>2. o \in marked
      BY <1>4, <2>3 DEF TraceObject, HeapInvariant, TraceIsSound, Marking, Drains
    <3>3. Children(o) \subseteq X /\ StateEdge(o) \subseteq Y
      BY <3>1, <3>2 DEF TraceClosed
    <3>4. marked' \subseteq marked \cup Children(o) /\ queue' \subseteq StateEdge(o)
      BY <1>4 DEF TraceObject, Mark
    <3> QED BY <3>1, <3>3, <3>4
  <2> QED BY <1>4, <2>1, <2>2, <2>3
<1>5. CASE PrepareFull
  <2>1. UNCHANGED heap /\ pending \subseteq pending' /\ stage = "mark" /\ stage' = "remark"
    BY <1>5 DEF PrepareFull, Queue
  <2>2. Candidates' \subseteq marked
    BY <1>5 DEF PrepareFull, Queue, Candidates, Finalizable, HasGc, heap, graph
  <2> SUFFICES ASSUME NEW X, NEW Y, TraceClosed(X, Y)' PROVE Candidates' \subseteq X
    BY <2>1 DEF MarkIsLeast
  <2> QED BY <2>1, <2>2, ClosedStatic DEF MarkIsLeast
<1>6. CASE UNCHANGED vars
  <2>1. UNCHANGED <<heap, stage, trace, fins>>
    BY <1>6 DEF vars
  <2>2. UNCHANGED heap /\ UNCHANGED <<stage, marked, queue, pending, finalized>>
    BY <2>1 DEF trace, fins
  <2>3. Candidates' = Candidates
    BY <2>2 DEF Candidates, HasGc, heap, graph
  <2>4. \A X, Y : TraceClosed(X, Y)' => TraceClosed(X, Y)
    BY <2>2, ClosedStatic
  <2> QED BY <2>2, <2>3, <2>4 DEF MarkIsLeast
<1>7. ASSUME Program \/ Finalizers \/ FinishFull PROVE stage' \notin {"mark", "remark"}
  <2>1. Program => stage' = "run"
    BY ProgramWaits DEF Waits
  <2>2. Finalizers => stage' \notin {"mark", "remark"}
    BY DEF Finalizers, StartFinalizer, SkipFinalizer, EndDrain, EndFinalizer
  <2>3. FinishFull => stage' \notin {"mark", "remark"}
    BY DEF FinishFull, DeliverAfterCycle
  <2> QED BY <1>7, <2>1, <2>2, <2>3
<1>8. ASSUME BeginCycle \/ StartAtomic \/ Reconcile \/ PrepareFinalizers \/ FinishAtomic
               \/ SweepEmptyHeap \/ CompleteCycle
      PROVE  stage' \notin {"mark", "remark"}
  BY <1>8 DEF BeginCycle, StartAtomic, Reconcile, PrepareFinalizers, FinishAtomic,
              SweepEmptyHeap, CompleteCycle, DeliverAfterCycle
<1>9. \A o : SweepWhite(o) \/ SweepSurvivor(o) => stage' \notin {"mark", "remark"}
  BY DEF SweepWhite, SweepSurvivor
<1> QED
  BY <1>1, <1>2, <1>3, <1>4, <1>5, <1>6, <1>7, <1>8, <1>9 DEF Next, StepUnit, FullCollection

\* At the end of the second trace it is a complete trace itself.
LEMMA RemarkedCandidates ==
    ASSUME TypeOK, HeapInvariant, MarkIsLeast, stage = "remark", Drained
    PROVE  Candidates \subseteq marked
<1>1. TraceClosed(marked, traced)
  <2>1. Marking /\ queue = {} /\ gray = {}
    BY DEF Marking, Drains, Drained
  <2>2. attempted = traced /\ Main \in traced /\ roots \cup pending \subseteq marked
    BY <2>1 DEF HeapInvariant, TraceIsSound
  <2>3. \A s \in traced : Snapshot(s) \subseteq marked
    BY <2>2 DEF HeapInvariant, AtomicIsSound, Drains
  <2>4. \A o \in marked : Fields(o) \subseteq marked /\ StateEdge(o) \subseteq traced
    BY <2>1, <2>2 DEF HeapInvariant, TraceIsSound
  <2>5. \A t \in marked \cap Tables : StrongEntries(t, mode[t]) \subseteq marked
    BY <2>1 DEF HeapInvariant, AtomicIsSound, Drains
  <2> QED BY <2>2, <2>3, <2>4, <2>5 DEF TraceClosed, Children
<1> QED BY <1>1 DEF MarkIsLeast

LEMMA OnlySweepsDestroy ==
    ASSUME Next, NEW u \in live, u \notin live'
    PROVE  SweepWhite(u) \/ FinishFull
<1>1. ~ Program
  BY ProgramWaits DEF Waits
<1>2. ~ Finalizers
  BY DEF Finalizers, StartFinalizer, SkipFinalizer, EndDrain, EndFinalizer, heap
<1>3. \A s : ~ TraceState(s)
  BY DEF TraceState, heap
<1>4. \A o : ~ TraceObject(o) /\ ~ SweepSurvivor(o)
  BY DEF TraceObject, SweepSurvivor, heap
<1>5. \A o : SweepWhite(o) => o = u
  BY DEF SweepWhite, Reclaim
<1>6. ~ (BeginCycle \/ StartAtomic \/ Reconcile \/ PrepareFinalizers \/ SweepEmptyHeap \/ CompleteCycle)
  BY DEF BeginCycle, StartAtomic, Reconcile, PrepareFinalizers, SweepEmptyHeap, CompleteCycle, heap
<1>7. ~ FinishAtomic
  BY DEF FinishAtomic, Reclaim
<1>8. ~ BeginFull /\ ~ PrepareFull
  BY DEF BeginFull, PrepareFull, heap
<1> QED
  BY <1>1, <1>2, <1>3, <1>4, <1>5, <1>6, <1>7, <1>8 DEF Next, StepUnit, FullCollection

\* A userdata with a callback is destroyed only after the callback was started, by
\* either sweep, however often its cycle was abandoned and begun again.
THEOREM FinalizersComeFirst == Spec => FinalizedBeforeDestroyed
<1> DEFINE First ==
        \A u \in (Userdatas \cap live) \ live' :
            HasGc(u) /\ meta[u] \in live => u \in finalized /\ u \notin pending
<1>1. Init => MarkIsLeast
  BY DEF Init, MarkIsLeast
<1>2. TypeOK /\ HeapInvariant /\ MarkIsLeast /\ [Next]_vars => [First]_vars
  <2> SUFFICES ASSUME TypeOK, HeapInvariant, MarkIsLeast, Next,
                      NEW u \in Userdatas, u \in live, u \notin live', HasGc(u), meta[u] \in live
               PROVE  u \in finalized /\ u \notin pending
    OBVIOUS
  <2>1. u \in finalized \/ u \in Candidates
    BY DEF Candidates
  <2>2. SweepWhite(u) \/ FinishFull
    BY OnlySweepsDestroy
  <2>3. CASE SweepWhite(u)
    <3>1. PICK K : Safe(K)
      BY SafeSet DEF HeapInvariant
    <3>2. u \in unswept \ marked /\ phase = "Sweep"
      BY <2>3 DEF SweepWhite
    <3>3. u \notin K
      BY <3>1, <3>2 DEF Safe
    <3> QED BY <2>1, <3>1, <3>3 DEF Safe, Closed
  <2>4. CASE FinishFull
    <3>1. stage = "remark" /\ Drained /\ u \notin marked
      BY <2>4 DEF FinishFull, Reclaim
    <3>2. Candidates \subseteq marked
      BY <3>1, RemarkedCandidates
    <3>3. pending \subseteq marked
      BY <3>1 DEF HeapInvariant, TraceIsSound, Marking, Drains
    <3> QED BY <2>1, <3>1, <3>2, <3>3
  <2> QED BY <2>2, <2>3, <2>4
<1>3. TypeOK /\ HeapInvariant /\ MarkIsLeast /\ [Next]_vars => MarkIsLeast'
  BY LeastNext
<1>4. QED
  BY <1>1, <1>2, <1>3, TypeCorrect, HeapIsSound, PTL DEF Spec, FinalizedBeforeDestroyed
=============================================================================
