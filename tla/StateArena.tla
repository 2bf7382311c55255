----------------------------- MODULE StateArena -----------------------------
(***************************************************************************)
(* StateArena, PendingState and StateBorrow of lua_vm/src/runtime.rs: the  *)
(* generational arena that owns every LuaState, the guards that lend one   *)
(* state to one closure, the guard of a coroutine state that is not        *)
(* published yet, and the sweeps that remove states.                       *)
(*                                                                         *)
(* Guards are lexical: they live on the Rust stack and are dropped in the  *)
(* reverse of their order, on return and on unwinding alike.  borrows and  *)
(* pendings are the two kinds of guards; a pending guard remembers how     *)
(* many borrows were outstanding when it was made.                         *)
(***************************************************************************)
EXTENDS FiniteSets, Integers, Sequences

CONSTANTS MaxSlots,  \* slots the allocator grants before it fails
          MaxGen,    \* u64::MAX of a generation
          MaxRoot,   \* u64::MAX of the temporary root ids
          MaxDepth   \* bound of this model: guards of a kind on the Rust stack

ASSUME BoundsAssumption ==
    /\ MaxSlots \in Nat \ {0} /\ MaxGen \in Nat \ {0}
    /\ MaxRoot \in Nat \ {0} /\ MaxDepth \in Nat \ {0}

VARIABLES
    slots,     \* the slot table
    free,      \* free_slots, a stack of slot indexes
    liveCount, \* live_coroutine_states
    nextRoot,  \* next_temporary_root_id
    turn,      \* turn_borrow: the handle of the running turn, or NoHandle
    borrows,   \* StateBorrow guards on the Rust stack
    pendings,  \* PendingState guards on the Rust stack
    job,       \* "sweep" or "drain" while sweep_unreachable_owned or
               \* drain_owned removes states, "closed" after the drain
    todo,      \* the slots that job has still to vacate
    rejected,  \* rejected_temporary_root_releases
    issued     \* history: every handle that insert_owned gave out

vars == <<slots, free, liveCount, nextRoot, turn, borrows, pendings, job, todo,
          rejected, issued>>

Handle == (1..MaxSlots) \X (1..MaxGen)
NoHandle == <<>>
MainHandle == <<1, 1>>

NewSlot == [gen |-> 1, state |-> FALSE, main |-> FALSE, borrowed |-> FALSE,
            retired |-> FALSE, bound |-> FALSE, root |-> 0]

\* validate: the handle leads to a state of this arena.
Valid(h) ==
    /\ h[1] \in DOMAIN slots
    /\ ~slots[h[1]].retired
    /\ slots[h[1]].gen = h[2]
    /\ slots[h[1]].state

Idle == job = "none"

NothingBorrowed == \A i \in DOMAIN slots : ~slots[i].borrowed

-----------------------------------------------------------------------------
(* Slots *)

\* Whether reserve_slot takes the slot i from the free list.
Usable(i) ==
    /\ i \in DOMAIN slots
    /\ ~slots[i].retired /\ ~slots[i].state /\ ~slots[i].main /\ ~slots[i].borrowed
    /\ slots[i].root = 0

\* Mutant: the entry stays on the free list.
ReservedKeepsEntry(i, table, rest) ==
    \/ \E k \in DOMAIN free : Usable(free[k]) /\ i = free[k] /\ table = slots /\ rest = free
    \/ /\ \A k \in DOMAIN free : ~Usable(free[k])
       /\ Len(slots) < MaxSlots
       /\ i = Len(slots) + 1 /\ table = Append(slots, NewSlot) /\ rest = <<>>

\* reserve_slot: pop until a usable entry, else grow the table.  i is the slot,
\* table the slots with it, rest the free list.
Reserved(i, table, rest) ==
    \/ \E k \in DOMAIN free :
           /\ Usable(free[k])
           /\ \A j \in k+1..Len(free) : ~Usable(free[j])
           /\ i = free[k] /\ table = slots
           /\ rest = SubSeq(free, 1, k - 1)
    \/ /\ \A k \in DOMAIN free : ~Usable(free[k])
       /\ Len(slots) < MaxSlots
       /\ i = Len(slots) + 1
       /\ table = Append(slots, NewSlot)
       /\ rest = <<>>

\* Mutant: a slot at the last generation starts again at the first one.
VacateWraps(i) ==
    /\ slots' = [slots EXCEPT ![i] =
           [NewSlot EXCEPT !.gen = IF slots[i].gen = MaxGen THEN 1 ELSE slots[i].gen + 1]]
    /\ free' = Append(free, i)

\* vacate_slot.
Vacate(i) ==
    IF slots[i].gen = MaxGen
    THEN /\ slots' = [slots EXCEPT ![i] =
                [NewSlot EXCEPT !.gen = MaxGen, !.retired = TRUE]]
         /\ UNCHANGED free
    ELSE /\ slots' = [slots EXCEPT ![i] = [NewSlot EXCEPT !.gen = slots[i].gen + 1]]
         /\ free' = Append(free, i)

-----------------------------------------------------------------------------
(* Borrowing a state *)

\* with_turn_state_mut: the driver runs one turn of the state h.
BeginTurn(h) ==
    /\ Idle /\ Valid(h) /\ turn = NoHandle /\ NothingBorrowed
    /\ slots' = [slots EXCEPT ![h[1]].borrowed = TRUE]
    /\ turn' = h
    /\ borrows' = Append(borrows, [h |-> h, kind |-> "turn"])
    /\ UNCHANGED <<free, liveCount, nextRoot, pendings, job, todo, rejected, issued>>

\* with_direct_state_mut: the host borrows the main state.
BeginDirect ==
    /\ Idle /\ turn = NoHandle
    /\ Valid(MainHandle) /\ ~slots[1].borrowed
    /\ slots' = [slots EXCEPT ![1].borrowed = TRUE]
    /\ borrows' = Append(borrows, [h |-> MainHandle, kind |-> "direct"])
    /\ UNCHANGED <<free, liveCount, nextRoot, turn, pendings, job, todo, rejected, issued>>

\* The state whose closure is running.
Current == borrows[Len(borrows)].h

\* resolve, and the exception with_state_mut makes for an active turn: its own
\* state may inspect a coroutine that has a Thread.
Resolves(h) ==
    /\ Valid(h) /\ h # Current /\ ~slots[h[1]].borrowed
    /\ turn # NoHandle => Valid(turn) /\ turn = Current /\ slots[h[1]].bound

\* with_resolved_state_mut from the running closure.
BeginNested(h) ==
    /\ Idle /\ borrows # <<>> /\ Len(borrows) < MaxDepth
    /\ Resolves(h)
    /\ slots' = [slots EXCEPT ![h[1]].borrowed = TRUE]
    /\ borrows' = Append(borrows, [h |-> h, kind |-> "nested"])
    /\ UNCHANGED <<free, liveCount, nextRoot, turn, pendings, job, todo, rejected, issued>>

\* A pending guard that was made inside the innermost borrow.
PendingOnTop ==
    pendings # <<>> /\ pendings[Len(pendings)].depth = Len(borrows)

\* Mutant: the borrow of a turn is released like any other one.
EndBorrowForgetsTurn ==
    /\ borrows # <<>> /\ ~PendingOnTop
    /\ LET b == borrows[Len(borrows)] IN
       slots' = IF Valid(b.h) THEN [slots EXCEPT ![b.h[1]].borrowed = FALSE] ELSE slots
    /\ borrows' = SubSeq(borrows, 1, Len(borrows) - 1)
    /\ UNCHANGED <<free, liveCount, nextRoot, turn, pendings, job, todo, rejected, issued>>

\* The closure returns or unwinds: StateBorrow::drop, release and release_turn.
EndBorrow ==
    /\ borrows # <<>> /\ ~PendingOnTop
    /\ LET b == borrows[Len(borrows)]
           ok == Valid(b.h) /\ (b.kind = "turn" => turn = b.h) IN
       /\ slots' = IF ok THEN [slots EXCEPT ![b.h[1]].borrowed = FALSE] ELSE slots
       /\ turn' = IF ok /\ b.kind = "turn" THEN NoHandle ELSE turn
    /\ borrows' = SubSeq(borrows, 1, Len(borrows) - 1)
    /\ UNCHANGED <<free, liveCount, nextRoot, pendings, job, todo, rejected, issued>>

-----------------------------------------------------------------------------
(* Publishing a new coroutine state *)

RootIdsLeft == nextRoot < MaxRoot

\* insert_pending_owned from the running closure.
BeginPending ==
    /\ Idle /\ borrows # <<>> /\ Len(pendings) < MaxDepth
    /\ RootIdsLeft
    /\ \E i \in 1..MaxSlots, rest \in {SubSeq(free, 1, n) : n \in 0..Len(free)},
          table \in {slots, Append(slots, NewSlot)} :
           /\ Reserved(i, table, rest)
           /\ slots' = [table EXCEPT ![i].state = TRUE, ![i].root = nextRoot]
           /\ free' = rest
           /\ pendings' = Append(pendings,
                  [h |-> <<i, table[i].gen>>, root |-> nextRoot, depth |-> Len(borrows),
                   committed |-> FALSE])
           /\ issued' = issued \cup {<<i, table[i].gen>>}
    /\ liveCount' = liveCount + 1
    /\ nextRoot' = nextRoot + 1
    /\ UNCHANGED <<turn, borrows, job, todo, rejected>>

\* validate_pending
ValidPending(p) ==
    /\ Valid(p.h)
    /\ ~slots[p.h[1]].main /\ slots[p.h[1]].root = p.root

Innermost == pendings[Len(pendings)]

\* bind_thread installs the edge from the state to its Thread.
BindThread ==
    /\ Idle /\ PendingOnTop
    /\ ValidPending(Innermost)
    /\ slots' = [slots EXCEPT ![Innermost.h[1]].bound = TRUE]
    /\ UNCHANGED <<free, liveCount, nextRoot, turn, borrows, pendings, job, todo,
                   rejected, issued>>

\* Mutant: publication does not end the temporary root.
CommitKeepsRoot ==
    /\ Idle /\ PendingOnTop
    /\ ValidPending(Innermost) /\ slots[Innermost.h[1]].bound
    /\ pendings' = [pendings EXCEPT ![Len(pendings)].committed = TRUE]
    /\ UNCHANGED <<slots, free, liveCount, nextRoot, turn, borrows, job, todo,
                   rejected, issued>>

\* publish_thread_to_stack and publish_wrapper_to_stack, up to commit_pending.
Commit ==
    /\ Idle /\ PendingOnTop
    /\ ValidPending(Innermost) /\ slots[Innermost.h[1]].bound
    /\ slots' = [slots EXCEPT ![Innermost.h[1]].root = 0]
    /\ pendings' = [pendings EXCEPT ![Len(pendings)].committed = TRUE]
    /\ UNCHANGED <<free, liveCount, nextRoot, turn, borrows, job, todo, rejected, issued>>

\* Mutant: a published state is rolled back as well.
RollsBackPublished(p) == Valid(p.h) /\ ~slots[p.h[1]].borrowed

\* Whether rollback_pending removes the state of the guard p.
RollsBack(p) == ~p.committed /\ ValidPending(p) /\ ~slots[p.h[1]].borrowed

\* PendingState::drop, when the publication returns or unwinds.
EndPending ==
    /\ Idle /\ PendingOnTop
    /\ LET p == Innermost IN
       IF RollsBack(p)
       THEN Vacate(p.h[1]) /\ liveCount' = liveCount - 1 /\ UNCHANGED rejected
       ELSE /\ rejected' = IF p.committed THEN rejected ELSE rejected + 1
            /\ UNCHANGED <<slots, free, liveCount>>
    /\ pendings' = SubSeq(pendings, 1, Len(pendings) - 1)
    /\ UNCHANGED <<nextRoot, turn, borrows, job, todo, issued>>

-----------------------------------------------------------------------------
(* Removing states.  validate_internal_invariants is the code's own check. *)

FreeEntries(i) == {k \in DOMAIN free : free[k] = i}

RetiredSlotIsSound(i) ==
    /\ ~slots[i].state /\ ~slots[i].main /\ ~slots[i].borrowed /\ slots[i].root = 0
    /\ FreeEntries(i) = {} /\ slots[i].gen = MaxGen

OccupiedSlotIsSound(i) ==
    /\ FreeEntries(i) = {}
    /\ slots[i].root # 0 =>
           ~slots[i].main /\ \A j \in DOMAIN slots : slots[j].root = slots[i].root => j = i

VacantSlotIsSound(i) ==
    /\ ~slots[i].main /\ ~slots[i].borrowed /\ slots[i].root = 0
    /\ \E k \in DOMAIN free : FreeEntries(i) = {k}

Coroutines == {i \in DOMAIN slots : slots[i].state /\ ~slots[i].main}

SlotsAreSound ==
    /\ \A k \in DOMAIN free : free[k] \in DOMAIN slots
    /\ \A i \in DOMAIN slots :
           IF slots[i].retired THEN RetiredSlotIsSound(i)
           ELSE IF slots[i].state THEN OccupiedSlotIsSound(i)
           ELSE VacantSlotIsSound(i)
    /\ Cardinality(Coroutines) = liveCount
    /\ \A i, j \in DOMAIN slots : slots[i].main /\ slots[j].main => i = j

TurnOwnsOneSlot ==
    turn # NoHandle =>
        /\ Valid(turn)
        /\ \A i \in DOMAIN slots : slots[i].borrowed <=> i = turn[1]

\* validate_owned_drain
MayRemove == SlotsAreSound /\ TurnOwnsOneSlot /\ NothingBorrowed

TemporaryRoots == {i \in DOMAIN slots : slots[i].root # 0}

\* sweep_unreachable_owned at a safe point: the trace reached some coroutine
\* states, the temporary roots among them.
StartSweep(reached) ==
    /\ Idle /\ MayRemove
    /\ job' = "sweep"
    /\ todo' = Coroutines \ (reached \cup TemporaryRoots)
    /\ UNCHANGED <<slots, free, liveCount, nextRoot, turn, borrows, pendings,
                   rejected, issued>>

\* drain_owned when the Runtime closes.
StartDrain ==
    /\ Idle /\ MayRemove
    /\ job' = "drain"
    /\ todo' = {i \in DOMAIN slots : slots[i].state}
    /\ UNCHANGED <<slots, free, liveCount, nextRoot, turn, borrows, pendings,
                   rejected, issued>>

\* The next state to go: in slot order, the main state last.
Next1 ==
    {i \in todo : \A j \in todo \ {i} :
        IF slots[i].main = slots[j].main THEN i < j ELSE slots[j].main}

RemoveOne ==
    /\ job \in {"sweep", "drain"}
    /\ \E i \in Next1 :
           /\ Vacate(i)
           /\ liveCount' = IF slots[i].main THEN liveCount ELSE liveCount - 1
           /\ todo' = todo \ {i}
    /\ UNCHANGED <<nextRoot, turn, borrows, pendings, job, rejected, issued>>

EndJob ==
    /\ job \in {"sweep", "drain"} /\ todo = {}
    /\ job' = IF job = "sweep" THEN "none" ELSE "closed"
    /\ UNCHANGED <<slots, free, liveCount, nextRoot, turn, borrows, pendings, todo,
                   rejected, issued>>

-----------------------------------------------------------------------------
\* Runtime::new has inserted the main state.
Init ==
    /\ slots = <<[NewSlot EXCEPT !.state = TRUE, !.main = TRUE]>>
    /\ free = <<>> /\ liveCount = 0 /\ nextRoot = 1
    /\ turn = NoHandle /\ borrows = <<>> /\ pendings = <<>>
    /\ job = "none" /\ todo = {}
    /\ rejected = 0 /\ issued = {MainHandle}

Borrowing == BeginDirect \/ EndBorrow \/ \E h \in Handle : BeginTurn(h) \/ BeginNested(h)

Publishing == BeginPending \/ BindThread \/ Commit \/ EndPending

Removing == StartDrain \/ RemoveOne \/ EndJob \/ \E R \in SUBSET (1..MaxSlots) : StartSweep(R)

Next == Borrowing \/ Publishing \/ Removing

Spec == Init /\ [][Next]_vars

-----------------------------------------------------------------------------
(* Properties *)

SlotType == [gen : 1..MaxGen, state : BOOLEAN, main : BOOLEAN, borrowed : BOOLEAN,
             retired : BOOLEAN, bound : BOOLEAN, root : 0..MaxRoot]
BorrowType == [h : Handle, kind : {"turn", "direct", "nested"}]
PendingType == [h : Handle, root : 1..MaxRoot, depth : Nat, committed : BOOLEAN]

TypeOK ==
    /\ slots \in Seq(SlotType) /\ Len(slots) \in 1..MaxSlots
    /\ free \in Seq(1..MaxSlots)
    /\ liveCount \in Nat /\ nextRoot \in 1..MaxRoot
    /\ turn \in Handle \cup {NoHandle}
    /\ borrows \in Seq(BorrowType) /\ pendings \in Seq(PendingType)
    /\ job \in {"none", "sweep", "drain", "closed"}
    /\ todo \subseteq DOMAIN slots
    /\ rejected \in Nat
    /\ issued \subseteq Handle

\* The code's own invariants hold whenever it might check them, between any two
\* operations and in the middle of a sweep; a turn that lends a state to a
\* library function owns two slots until the loan ends.
ArenaIsSound ==
    /\ SlotsAreSound
    /\ Len(borrows) < 2 => TurnOwnsOneSlot

\* A guard on the Rust stack always names its state, and borrowed bits are
\* those of the outstanding guards: so every release finds its slot, and a
\* collection is refused exactly while a reference to some state exists.
GuardsMatchSlots ==
    /\ \A k \in DOMAIN borrows : Valid(borrows[k].h)
    /\ \A i \in DOMAIN slots :
           slots[i].borrowed <=> \E k \in DOMAIN borrows : borrows[k].h[1] = i
    /\ turn # NoHandle <=> \E k \in DOMAIN borrows : borrows[k].kind = "turn"

\* Publication either keeps the state or removes it: an unpublished state is a
\* temporary root exactly while its guard exists, and no rollback is rejected.
PendingIsRootedOrGone ==
    /\ rejected = 0
    /\ \A i \in TemporaryRoots :
           \E k \in DOMAIN pendings : ~pendings[k].committed /\ pendings[k].h[1] = i
    /\ \A k \in DOMAIN pendings : ~pendings[k].committed => ValidPending(pendings[k])

-----------------------------------------------------------------------------
(* StateArena implements StateRegistry *)

Status(h) ==
    IF h \notin issued THEN "fresh"
    ELSE IF ~Valid(h) THEN "gone"
    ELSE IF slots[h[1]].root # 0 THEN "pending"
    ELSE "live"

\* A published state is removed by a collection or by the close of the Runtime,
\* not by what happens later to the guard that published it.
PublishedStatesStay ==
    [][Idle => \A h \in issued : Status(h) = "live" => Status(h)' = "live"]_vars

Registry == INSTANCE StateRegistry WITH
    Main <- MainHandle,
    status <- [h \in Handle |-> Status(h)],
    held <- [k \in DOMAIN borrows |-> borrows[k].h]

\* A StateHandle names one state for ever, whatever is removed and reused.
HandlesNameOneState == Registry!Spec

=============================================================================
